------------------------- MODULE StateMigrationProofs -------------------------
(***************************************************************************)
(* For any number of processes, files, writes and faults: the layout       *)
(* migration loses no write, never leaves the state without an authority,  *)
(* and moves the authority only while no turn is active.                   *)
(*                                                                         *)
(* The authority follows from two facts about what can be on the disk at   *)
(* all (Layouts): a target without a marker and a legacy directory never   *)
(* stand side by side, and a staging directory never stands without a      *)
(* legacy one.  The rest says what a process may rely on while it holds    *)
(* the barrier: nobody else moves the authority under a writer (Scopes),   *)
(* nothing but the migrator touches its staging directory (Stagings), and  *)
(* the ledger of the legacy tree stays as it was found (Ledgers), although *)
(* older versions write the other files of that tree at any time.          *)
(***************************************************************************)
EXTENDS StateMigration, TLAPS

Locked == Label \ {"idle", "lock", "dead"}
Working == {"src", "manifest", "stage", "mark", "copy", "verify", "seal", "final", "publish"}

\* The authority as the disk gives it, where it can be told.
Authority == IF legacy # None /\ target = None THEN "legacy" ELSE "target"
Held == IF Authority = "legacy" THEN legacy ELSE IF target = None THEN Empty ELSE target.tree

Layouts ==
  /\ legacy = None => (target = None \/ target.marker = None)
  /\ legacy = None => \A p \in Procs : staging[p] = None
  /\ legacy # None => target = None \/ target.marker # None

Locks == \A p \in Procs : pc[p] \in Locked => barrier = p
Scopes == \A p \in Procs : pc[p] = "scope" => auth[p] = Authority
Sources == \A p \in Procs : pc[p] \in Working => legacy # None /\ target = None
Ledgers == \A p \in Procs : pc[p] \in Working \ {"src"} => src = p /\ legacy[Ledger] % 2 = 0
Stagings ==
  \A p \in Procs :
    /\ pc[p] \in {"mark", "copy", "verify", "seal", "final", "publish"} => staging[p] # None
    /\ pc[p] \in {"seal", "final", "publish"} => staging[p].tree = man[p]

IInv ==
  /\ MigrationTypeOK /\ Layouts /\ Locks /\ Scopes /\ Sources /\ Ledgers /\ Stagings
  /\ Held = expect

-----------------------------------------------------------------------------
(* Trees.                                                                  *)

\* A write to one file of a tree leaves the others.
LEMMA PutTyped ==
  ASSUME NEW t \in Tree, NEW f \in Files, NEW v \in Stamp
  PROVE  /\ Put(t, f, v) \in Tree
         /\ \A g \in Files : g # f => Put(t, f, v)[g] = t[g]
  BY DEF Put, Tree

LEMMA EmptyTyped == ASSUME MigrationAssumption PROVE Empty \in Tree
  BY DEF Empty, Tree, Stamp, MigrationAssumption

\* What is copied grows by one file.
LEMMA CopyTyped ==
  ASSUME NEW t \in PartialTree, NEW f \in Files, legacy \in Tree
  PROVE  CopyFile(t, f) \in PartialTree
<1>1. PICK D \in SUBSET Files : t \in [D -> Stamp]
  BY DEF PartialTree
<1>2. CopyFile(t, f) \in [D \cup {f} -> Stamp]
  BY <1>1 DEF CopyFile, Tree
<1>3. D \cup {f} \in SUBSET Files
  BY <1>1
<1> QED
  BY <1>2, <1>3 DEF PartialTree

LEMMA NewTyped == NewStaging \in StagingDir
<1>1. [f \in {} |-> 0] \in [{} -> Stamp]
  OBVIOUS
<1>2. [f \in {} |-> 0] \in PartialTree
  BY <1>1 DEF PartialTree
<1> QED
  BY <1>2 DEF NewStaging, StagingDir

\* What the disk may hold decides where the state is.
LEMMA AuthorityTold ==
  ASSUME MigrationTypeOK, Layouts
  PROVE  StateDir = Authority
<1>1. Staged # {} => legacy # None
  BY DEF Layouts, Staged
<1> QED
  BY <1>1 DEF Layouts, StateDir, Layout, Authority

-----------------------------------------------------------------------------
(* Steps.                                                                  *)

\* The barrier has one holder.
LEMMA LocksKept ==
  ASSUME MigrationAssumption, IInv, MigrationNext
  PROVE  Locks'
<1> USE DEF IInv, MigrationTypeOK, Locks, Locked, Label, At, Goto, MigrationAssumption
<1>1. ASSUME NEW p \in Procs, Enter(p) \/ Leave(p) \/ Lock(p) \/ Release(p) \/ Crash(p)
      PROVE  Locks'
  BY <1>1 DEF Enter, Leave, Lock, Release, Crash
<1>2. ASSUME NEW p \in Procs, Prepare(p) \/ LockBusy(p) \/ Age(p)
      PROVE  Locks'
  BY <1>2 DEF Prepare, LockBusy, Age
<1>3. ASSUME NEW p \in Procs, Recover(p) \/ Src(p) \/ SrcBusy(p) \/ Manifest(p) \/ Stage(p) \/ Mark(p)
      PROVE  Locks'
  BY <1>3 DEF Recover, Src, SrcBusy, Manifest, Stage, Mark
<1>4. ASSUME NEW p \in Procs, (\E f \in Files : Copy(p, f)) \/ Verify(p) \/ Seal(p) \/ Final(p)
      PROVE  Locks'
  BY <1>4 DEF Copy, Verify, Seal, Final
<1>5. ASSUME NEW p \in Procs, Publish(p) \/ Check(p) \/ Fail(p) \/ StepFails(p)
      PROVE  Locks'
  BY <1>5 DEF Publish, Check, Fail, StepFails
<1>6. ASSUME NEW f \in Files, NEW v \in Stamp, (\E p \in Procs : Write(p, f, v)) \/ OldWrite(f, v)
      PROVE  Locks'
  BY <1>6 DEF Write, OldWrite
<1>7. ASSUME OldLock \/ OldUnlock
      PROVE  Locks'
  BY <1>7 DEF OldLock, OldUnlock
<1> QED
  BY <1>1, <1>2, <1>3, <1>4, <1>5, <1>6, <1>7 DEF MigrationNext, Migrate, Copying

\* Most steps leave the trees alone.
LEMMA DirsKept ==
  ASSUME IInv, UNCHANGED dirs
  PROVE  Layouts' /\ Authority' = Authority
  BY DEF IInv, Layouts, Authority, dirs

StagesOf(p) ==
  Recover(p) \/ Stage(p) \/ Mark(p) \/ (\E f \in Files : Copy(p, f)) \/ Seal(p) \/ Fail(p) \/ Age(p)
MovesOf(p) ==
  \/ Enter(p) \/ Leave(p) \/ Prepare(p) \/ Lock(p) \/ LockBusy(p) \/ Src(p) \/ SrcBusy(p)
  \/ Manifest(p) \/ Verify(p) \/ Final(p) \/ Check(p) \/ StepFails(p) \/ Crash(p) \/ Release(p)

\* The steps by what they do to the disk.
LEMMA NextCases ==
  ASSUME MigrationNext
  PROVE  \/ \E p \in Procs : MovesOf(p)
         \/ \E p \in Procs : StagesOf(p)
         \/ \E p \in Procs : Publish(p)
         \/ \E p \in Procs, f \in Files, v \in Stamp : Write(p, f, v)
         \/ OldLock \/ OldUnlock
         \/ \E f \in Files, v \in Stamp : OldWrite(f, v)
  BY DEF MigrationNext, Migrate, Copying, MovesOf, StagesOf

LEMMA MovesKeepDirs ==
  ASSUME (\E p \in Procs : MovesOf(p)) \/ OldLock \/ OldUnlock
  PROVE  UNCHANGED dirs /\ UNCHANGED expect
  BY DEF MovesOf, Enter, Leave, Prepare, Lock, LockBusy, Src, SrcBusy, Manifest, Verify,
         Final, Check, StepFails, Crash, Release, OldLock, OldUnlock

\* A staging directory is made, filled and removed, and nothing else changes
\* on the disk.
LEMMA StagesKeepTrees ==
  ASSUME IInv, NEW p \in Procs, StagesOf(p)
  PROVE  /\ UNCHANGED <<legacy, target, expect, src, barrier, auth>>
         /\ \A q \in Procs : staging[q] = None /\ staging'[q] # None => legacy # None
         /\ DOMAIN staging' = Procs
<1> USE DEF IInv, MigrationTypeOK, Sources, Working, At, Goto
<1>1. CASE Recover(p)
  BY <1>1 DEF Recover
<1>2. CASE Stage(p) \/ Seal(p) \/ Mark(p) \/ Age(p)
  BY <1>2 DEF Stage, Seal, Mark, Age, Stagings
<1>3. CASE \E f \in Files : Copy(p, f)
  BY <1>3 DEF Copy
<1>4. CASE Fail(p)
  BY <1>4 DEF Fail
<1> QED
  BY <1>1, <1>2, <1>3, <1>4 DEF StagesOf

\* What can be on the disk at all.
LEMMA LayoutsKept ==
  ASSUME MigrationAssumption, IInv, MigrationNext
  PROVE  Layouts'
<1>1. CASE (\E p \in Procs : MovesOf(p)) \/ OldLock \/ OldUnlock
  BY <1>1, MovesKeepDirs, DirsKept
<1>2. CASE \E p \in Procs : StagesOf(p)
  BY <1>2, StagesKeepTrees DEF IInv, Layouts
<1>3. CASE \E p \in Procs : Publish(p)
  BY <1>3 DEF IInv, MigrationTypeOK, Layouts, Publish, Sources, Working, At, Goto
<1>4. ASSUME NEW p \in Procs, NEW f \in Files, NEW v \in Stamp, Write(p, f, v)
      PROVE  Layouts'
  <2>1. CASE auth[p] = "legacy"
    <3>1. legacy \in Tree /\ legacy' = Put(legacy, f, v) /\ UNCHANGED <<target, staging>>
      BY <1>4, <2>1 DEF IInv, MigrationTypeOK, Write
    <3>2. legacy' # None
      BY <3>1, PutTyped DEF MigrationAssumption
    <3> QED
      BY <3>1, <3>2 DEF IInv, MigrationTypeOK, MigrationAssumption, Layouts
  <2>2. CASE auth[p] = "target"
    <3>1. legacy # None => target # None
      BY <1>4, <2>2 DEF IInv, Scopes, Authority, Write, At
    <3>2. UNCHANGED <<legacy, staging>>
      BY <1>4, <2>2 DEF Write
    <3>3. target' = IF target = None THEN [tree |-> Put(Empty, f, v), marker |-> None]
                    ELSE [target EXCEPT !.tree = Put(@, f, v)]
      BY <1>4, <2>2 DEF Write
    <3>4. CASE target = None
      BY <3>1, <3>2, <3>3, <3>4 DEF IInv, Layouts
    <3>5. CASE target # None
      <4>1. target'.marker = target.marker
        BY <3>3, <3>5 DEF IInv, MigrationTypeOK, TargetDir
      <4> QED
        BY <3>1, <3>2, <3>5, <4>1 DEF IInv, Layouts
    <3> QED
      BY <3>4, <3>5
  <2> QED
    BY <1>4, <2>1, <2>2 DEF Write
<1>5. ASSUME NEW f \in Files, NEW v \in Stamp, OldWrite(f, v)
      PROVE  Layouts'
  BY <1>5, PutTyped DEF IInv, MigrationTypeOK, Layouts, MigrationAssumption, OldWrite
<1> QED
  BY <1>1, <1>2, <1>3, <1>4, <1>5, NextCases

\* Writes do not move the authority, nor take its directory away.
LEMMA WritesStay ==
  ASSUME MigrationAssumption, IInv, NEW f \in Files, NEW v \in Stamp,
         OldWrite(f, v) \/ \E p \in Procs : Write(p, f, v)
  PROVE  /\ Authority' = Authority /\ (legacy' = None) = (legacy = None)
         /\ target = None => target' = None \/ legacy = None
         /\ UNCHANGED <<staging, pc, auth, man, barrier, src>>
<1>1. CASE OldWrite(f, v)
  BY <1>1, PutTyped DEF OldWrite, IInv, MigrationTypeOK, MigrationAssumption, Authority
<1>2. ASSUME NEW p \in Procs, Write(p, f, v), auth[p] = "legacy"
      PROVE  /\ UNCHANGED target /\ legacy # None /\ legacy' # None
  BY <1>2, PutTyped DEF Write, IInv, MigrationTypeOK, MigrationAssumption
<1>3. ASSUME NEW p \in Procs, Write(p, f, v), auth[p] = "target"
      PROVE  /\ UNCHANGED legacy /\ Authority = "target" /\ Authority' = "target"
             /\ target = None => legacy = None
  <2>1. UNCHANGED legacy /\ Authority = "target"
    BY <1>3 DEF Write, IInv, Scopes, At
  <2>2. CASE legacy = None
    BY <2>1, <2>2 DEF Authority
  <2>3. CASE legacy # None
    <3>1. target # None /\ target' = [target EXCEPT !.tree = Put(@, f, v)]
      BY <1>3, <2>1, <2>3 DEF Authority, Write
    <3>2. target' \in TargetDir
      BY <3>1, PutTyped DEF IInv, MigrationTypeOK, TargetDir
    <3> QED
      BY <2>1, <2>3, <3>1, <3>2 DEF Authority, MigrationAssumption
  <2> QED
    BY <2>2, <2>3
<1> QED
  BY <1>1, <1>2, <1>3 DEF Write, Authority

\* Only the rename moves the authority; nobody is in a scope then.
LEMMA ScopesKept ==
  ASSUME MigrationAssumption, IInv, MigrationNext
  PROVE  Scopes'
<1> USE DEF Scopes, At, Goto
<1>1. ASSUME NEW p \in Procs, MovesOf(p)
      PROVE  Scopes'
  <2>1. Authority' = Authority
    BY <1>1, MovesKeepDirs, DirsKept
  <2>2. CASE Enter(p)
    BY <2>1, <2>2, AuthorityTold DEF Enter, IInv, MigrationTypeOK
  <2>3. CASE Leave(p) \/ Crash(p) \/ Prepare(p) \/ Lock(p) \/ LockBusy(p) \/ Release(p)
    BY <2>1, <2>3 DEF IInv, MigrationTypeOK, Leave, Crash, Prepare, Lock, LockBusy, Release
  <2>4. CASE Src(p) \/ SrcBusy(p) \/ Manifest(p) \/ Verify(p) \/ Final(p) \/ Check(p) \/ StepFails(p)
    BY <2>1, <2>4 DEF IInv, MigrationTypeOK, Src, SrcBusy, Manifest, Verify, Final, Check, StepFails
  <2> QED
    BY <1>1, <2>2, <2>3, <2>4 DEF MovesOf
<1>2. ASSUME NEW p \in Procs, StagesOf(p)
      PROVE  Scopes'
  <2>1. Authority' = Authority /\ UNCHANGED auth
    BY <1>2, StagesKeepTrees DEF Authority
  <2>2. \A q \in Procs : pc'[q] = "scope" => pc[q] = "scope"
    BY <1>2 DEF StagesOf, Recover, Stage, Mark, Copy, Seal, Fail, Age, IInv, MigrationTypeOK
  <2> QED
    BY <2>1, <2>2 DEF IInv
<1>3. ASSUME NEW p \in Procs, Publish(p)
      PROVE  Scopes'
  <2>1. \A q \in Procs : pc[q] # "scope"
    BY <1>3 DEF Publish, IInv, Locks, Locked, Label, MigrationTypeOK
  <2> QED
    BY <1>3, <2>1 DEF Publish, IInv, MigrationTypeOK
<1>4. ASSUME NEW f \in Files, NEW v \in Stamp, OldWrite(f, v) \/ \E p \in Procs : Write(p, f, v)
      PROVE  Scopes'
  BY <1>4, WritesStay DEF IInv
<1>5. CASE OldLock \/ OldUnlock
  BY <1>5, MovesKeepDirs, DirsKept DEF IInv, OldLock, OldUnlock
<1> QED
  BY <1>1, <1>2, <1>3, <1>4, <1>5, NextCases

\* A migration works while there is a legacy directory and no target.
LEMMA SourcesKept ==
  ASSUME MigrationAssumption, IInv, MigrationNext
  PROVE  Sources'
<1> USE DEF Sources, Working, At, Goto
<1>1. ASSUME NEW p \in Procs, MovesOf(p)
      PROVE  Sources'
  <2>1. UNCHANGED <<legacy, target>>
    BY <1>1, MovesKeepDirs DEF dirs
  <2>2. \A q \in Procs : pc'[q] \in Working => pc[q] \in Working
    BY <1>1 DEF MovesOf, Enter, Leave, Prepare, Lock, LockBusy, Src, SrcBusy, Manifest, Verify,
                Final, Check, StepFails, Crash, Release, IInv, MigrationTypeOK
  <2> QED
    BY <2>1, <2>2 DEF IInv
<1>2. ASSUME NEW p \in Procs, StagesOf(p)
      PROVE  Sources'
  <2>1. UNCHANGED <<legacy, target>>
    BY <1>2, StagesKeepTrees
  <2>2. \A q \in Procs : pc'[q] \in Working => pc[q] \in Working \/ (legacy # None /\ target = None)
    BY <1>2 DEF StagesOf, Recover, Stage, Mark, Copy, Seal, Fail, Age, IInv, MigrationTypeOK
  <2> QED
    BY <2>1, <2>2 DEF IInv
<1>3. ASSUME NEW p \in Procs, Publish(p)
      PROVE  Sources'
  <2>1. \A q \in Procs : q # p => pc[q] \notin Working
    BY <1>3 DEF Publish, IInv, Locks, Locked, Label, MigrationTypeOK
  <2> QED
    BY <1>3, <2>1 DEF Publish, IInv, MigrationTypeOK
<1>4. ASSUME NEW f \in Files, NEW v \in Stamp, OldWrite(f, v) \/ \E p \in Procs : Write(p, f, v)
      PROVE  Sources'
  BY <1>4, WritesStay DEF IInv
<1>5. CASE OldLock \/ OldUnlock
  BY <1>5, MovesKeepDirs DEF IInv, OldLock, OldUnlock, dirs
<1> QED
  BY <1>1, <1>2, <1>3, <1>4, <1>5, NextCases

\* While a migration holds ledger.lock the ledger stays as it was found:
\* older versions take the lock, those of this version the barrier.
LEMMA LedgersKept ==
  ASSUME MigrationAssumption, IInv, MigrationNext
  PROVE  Ledgers'
<1> USE DEF Ledgers, At, Goto
<1>1. ASSUME NEW p \in Procs, MovesOf(p)
      PROVE  Ledgers'
  <2>1. UNCHANGED legacy
    BY <1>1, MovesKeepDirs DEF dirs
  <2>2. CASE Src(p)
    BY <2>1, <2>2 DEF Src, Quiescent, IInv, Sources, Locks, Locked, Label, Working, MigrationTypeOK
  <2>3. CASE Crash(p) \/ Release(p)
    BY <2>1, <2>3 DEF Crash, Release, IInv, Locks, Locked, Label, Working, MigrationTypeOK, MigrationAssumption
  <2>4. CASE \/ Enter(p) \/ Leave(p) \/ Prepare(p) \/ Lock(p) \/ LockBusy(p) \/ SrcBusy(p)
             \/ Manifest(p) \/ Verify(p) \/ Final(p) \/ Check(p) \/ StepFails(p)
    <3>1. UNCHANGED src /\ \A q \in Procs : pc'[q] \in Working \ {"src"} => pc[q] \in Working \ {"src"}
      BY <2>4 DEF Enter, Leave, Prepare, Lock, LockBusy, SrcBusy, Manifest, Verify, Final, Check,
                  StepFails, IInv, MigrationTypeOK, Working
    <3> QED
      BY <2>1, <3>1 DEF IInv
  <2> QED
    BY <1>1, <2>2, <2>3, <2>4 DEF MovesOf
<1>2. ASSUME NEW p \in Procs, StagesOf(p)
      PROVE  Ledgers'
  <2>1. UNCHANGED <<legacy, src>>
    BY <1>2, StagesKeepTrees
  <2>2. \A q \in Procs : pc'[q] \in Working \ {"src"} => pc[q] \in Working \ {"src"}
    BY <1>2 DEF StagesOf, Recover, Stage, Mark, Copy, Seal, Fail, Age, IInv, MigrationTypeOK, Working
  <2> QED
    BY <2>1, <2>2 DEF IInv
<1>3. ASSUME NEW p \in Procs, Publish(p)
      PROVE  Ledgers'
  BY <1>3 DEF Publish, IInv, MigrationTypeOK, Working
<1>4. ASSUME NEW p \in Procs, NEW f \in Files, NEW v \in Stamp, Write(p, f, v)
      PROVE  Ledgers'
  <2>1. \A q \in Procs : pc[q] \notin Working
    BY <1>4 DEF Write, IInv, Locks, Locked, Label, Working, MigrationTypeOK, MigrationAssumption
  <2> QED
    BY <1>4, <2>1 DEF Write
<1>5. ASSUME NEW f \in Files, NEW v \in Stamp, OldWrite(f, v)
      PROVE  Ledgers'
  <2>1. legacy \in Tree /\ legacy' = Put(legacy, f, v) /\ UNCHANGED <<pc, src>>
        /\ (f = Ledger => src = "old")
    BY <1>5 DEF OldWrite, IInv, MigrationTypeOK
  <2>2. f # Ledger => legacy'[Ledger] = legacy[Ledger]
    BY <2>1, PutTyped DEF MigrationAssumption
  <2> QED
    BY <2>1, <2>2 DEF IInv, MigrationAssumption
<1>6. CASE OldLock \/ OldUnlock
  BY <1>6, MovesKeepDirs DEF IInv, OldLock, OldUnlock, dirs, MigrationAssumption
<1> QED
  BY <1>1, <1>2, <1>3, <1>4, <1>5, <1>6, NextCases

\* Nothing but its migrator touches the staging directory of a live one.
LEMMA StagingsKept ==
  ASSUME MigrationAssumption, IInv, MigrationNext
  PROVE  Stagings'
<1> USE DEF Stagings, At, Goto, IInv, MigrationTypeOK
<1>1. ASSUME NEW p \in Procs, Enter(p) \/ Leave(p) \/ Prepare(p) \/ Lock(p) \/ LockBusy(p) \/ Src(p)
                              \/ SrcBusy(p) \/ Check(p) \/ StepFails(p) \/ Crash(p) \/ Release(p)
      PROVE  Stagings'
  BY <1>1 DEF Enter, Leave, Prepare, Lock, LockBusy, Src, SrcBusy, Check, StepFails, Crash, Release, dirs
<1>2. ASSUME NEW p \in Procs, Manifest(p) \/ Verify(p) \/ Final(p) \/ Publish(p)
      PROVE  Stagings'
  BY <1>2 DEF Manifest, Verify, Final, Publish, dirs
<1>3. ASSUME NEW p \in Procs, Recover(p) \/ Fail(p) \/ Age(p)
      PROVE  Stagings'
  <2>1. CASE Recover(p)
    BY <2>1 DEF Recover, Orphan, Alive
  <2>2. CASE Fail(p)
    BY <2>2 DEF Fail
  <2>3. CASE Age(p)
    BY <2>3 DEF Age, Alive
  <2> QED
    BY <1>3, <2>1, <2>2, <2>3
<1>4. ASSUME NEW p \in Procs, Stage(p)
      PROVE  Stagings'
  <2>1. NewStaging # None
    BY NewTyped DEF MigrationAssumption
  <2> QED
    BY <1>4, <2>1 DEF Stage
<1>5. ASSUME NEW p \in Procs, Mark(p) \/ Seal(p) \/ \E f \in Files : Copy(p, f)
      PROVE  Stagings'
  <2>1. staging[p] \in StagingDir
    BY <1>5 DEF Mark, Seal, Copy
  <2>2. CASE Mark(p)
    BY <2>1, <2>2 DEF Mark, StagingDir, MigrationAssumption
  <2>3. CASE Seal(p)
    BY <2>1, <2>3 DEF Seal, StagingDir, MigrationAssumption
  <2>4. ASSUME NEW f \in Files, Copy(p, f)
        PROVE  Stagings'
    <3>1. staging'[p] \in StagingDir
      BY <2>1, <2>4, CopyTyped DEF Copy, StagingDir, Sources, Working
    <3> QED
      BY <2>4, <3>1 DEF Copy, MigrationAssumption
  <2> QED
    BY <1>5, <2>2, <2>3, <2>4
<1>6. ASSUME NEW f \in Files, NEW v \in Stamp, OldWrite(f, v) \/ \E p \in Procs : Write(p, f, v)
      PROVE  Stagings'
  BY <1>6, WritesStay
<1>7. CASE OldLock \/ OldUnlock
  BY <1>7 DEF OldLock, OldUnlock, dirs
<1> QED
  BY <1>1, <1>2, <1>3, <1>4, <1>5, <1>6, <1>7 DEF MigrationNext, Migrate, Copying

\* Every variable keeps its type.
LEMMA TypesKept ==
  ASSUME MigrationAssumption, IInv, MigrationNext
  PROVE  MigrationTypeOK'
<1> USE DEF MigrationTypeOK, IInv, At, Goto, MigrationAssumption
<1>1. ASSUME NEW p \in Procs, Leave(p) \/ Prepare(p) \/ Lock(p) \/ LockBusy(p) \/ Src(p)
                              \/ SrcBusy(p) \/ Check(p) \/ StepFails(p) \/ Crash(p) \/ Release(p)
                              \/ Verify(p) \/ Final(p)
      PROVE  MigrationTypeOK'
  BY <1>1 DEF Leave, Prepare, Lock, LockBusy, Src, SrcBusy, Check, StepFails, Crash, Release,
              Verify, Final, Label, dirs
<1>2. ASSUME NEW p \in Procs, Enter(p)
      PROVE  MigrationTypeOK'
  <2>1. StateDir \in {"legacy", "target"}
    BY AuthorityTold DEF Authority
  <2> QED
    BY <1>2, <2>1 DEF Enter, Label, dirs
<1>3. ASSUME NEW p \in Procs, Manifest(p)
      PROVE  MigrationTypeOK'
  <2>1. legacy \in Tree
    BY <1>3 DEF Manifest, Sources, Working
  <2> QED
    BY <1>3, <2>1 DEF Manifest, Label, dirs
<1>4. ASSUME NEW p \in Procs, Publish(p)
      PROVE  MigrationTypeOK'
  <2>1. [tree |-> staging[p].tree, marker |-> man[p]] \in TargetDir
    BY <1>4 DEF Publish, Stagings, TargetDir
  <2> QED
    BY <1>4, <2>1 DEF Publish, Label
<1>5. ASSUME NEW p \in Procs, StagesOf(p)
      PROVE  MigrationTypeOK'
  <2>1. CASE Recover(p)
    BY <2>1 DEF Recover, Label
  <2>2. CASE Stage(p)
    BY <2>2, NewTyped DEF Stage, Label
  <2>3. CASE Mark(p)
    BY <2>3 DEF Mark, Label, Stagings, StagingDir
  <2>4. CASE Seal(p)
    BY <2>4 DEF Seal, Label, Stagings, StagingDir
  <2>5. CASE Age(p)
    BY ZenonT(40), <2>5 DEF Age, StagingDir
  <2>6. ASSUME NEW f \in Files, Copy(p, f)
        PROVE  MigrationTypeOK'
    <3>1. staging[p] \in StagingDir /\ legacy \in Tree
      BY <2>6 DEF Copy, Stagings, Sources, Working
    <3>2. [staging[p] EXCEPT !.tree = CopyFile(@, f)] \in StagingDir
      BY <3>1, CopyTyped DEF StagingDir
    <3> QED
      BY <2>6, <3>2 DEF Copy, Label
  <2>7. CASE Fail(p)
    BY <2>7 DEF Fail, Label, StagingDir
  <2> QED
    BY <1>5, <2>1, <2>2, <2>3, <2>4, <2>5, <2>6, <2>7 DEF StagesOf
<1>6. ASSUME NEW p \in Procs, NEW f \in Files, NEW v \in Stamp, Write(p, f, v)
      PROVE  MigrationTypeOK'
  <2>1. expect' \in Tree /\ legacy' \in Tree \cup {None}
    BY <1>6, PutTyped DEF Write
  <2>2. Put(Empty, f, v) \in Tree
    BY EmptyTyped, PutTyped
  <2>3. target' \in TargetDir \cup {None}
    BY <1>6, <2>2, PutTyped DEF Write, TargetDir
  <2> QED
    BY <1>6, <2>1, <2>3 DEF Write
<1>7. ASSUME NEW f \in Files, NEW v \in Stamp, OldWrite(f, v)
      PROVE  MigrationTypeOK'
  BY <1>7, PutTyped DEF OldWrite
<1>8. CASE OldLock \/ OldUnlock
  BY <1>8 DEF OldLock, OldUnlock, dirs
<1> QED
  BY <1>1, <1>2, <1>3, <1>4, <1>5, <1>6, <1>7, <1>8, NextCases DEF MovesOf

\* The authority holds what its writers left, also across the rename.
LEMMA HeldKept ==
  ASSUME MigrationAssumption, IInv, MigrationNext
  PROVE  Held' = expect'
<1> USE DEF IInv, At, Goto
<1>1. CASE (\E p \in Procs : MovesOf(p)) \/ OldLock \/ OldUnlock
  <2>1. UNCHANGED <<legacy, target, expect>>
    BY <1>1, MovesKeepDirs DEF dirs
  <2> QED
    BY <2>1 DEF Held, Authority
<1>2. CASE \E p \in Procs : StagesOf(p)
  <2>1. UNCHANGED <<legacy, target, expect>>
    BY <1>2, StagesKeepTrees
  <2> QED
    BY <2>1 DEF Held, Authority
<1>3. ASSUME NEW p \in Procs, Publish(p)
      PROVE  Held' = expect'
  <2>1. /\ legacy # None /\ target = None /\ staging[p].tree = man[p]
        /\ UNCHANGED <<legacy, expect>>
    BY <1>3 DEF Publish, Sources, Stagings, Working
  <2>2. CASE UNCHANGED target
    BY <2>1, <2>2 DEF Held, Authority
  <2>3. CASE legacy = man[p] /\ target' = [tree |-> staging[p].tree, marker |-> man[p]]
    <3>1. target' # None
      BY <2>1, <2>3 DEF MigrationAssumption, TargetDir, MigrationTypeOK
    <3> QED
      BY <2>1, <2>3, <3>1 DEF Held, Authority
  <2> QED
    BY <1>3, <2>2, <2>3 DEF Publish
<1>4. ASSUME NEW p \in Procs, NEW f \in Files, NEW v \in Stamp, Write(p, f, v)
      PROVE  Held' = expect'
  <2>1. Authority' = Authority /\ auth[p] = Authority /\ expect' = Put(expect, f, v)
    BY <1>4, WritesStay DEF Write, Scopes
  <2>2. CASE auth[p] = "legacy"
    BY <1>4, <2>1, <2>2 DEF Write, Held
  <2>3. CASE auth[p] = "target" /\ target = None
    <3>1. target' = [tree |-> Put(Empty, f, v), marker |-> None]
      BY <1>4, <2>3 DEF Write
    <3>2. target' # None
      BY <3>1, EmptyTyped, PutTyped DEF MigrationAssumption, TargetDir
    <3> QED
      BY <2>1, <2>3, <3>1, <3>2 DEF Held
  <2>4. CASE auth[p] = "target" /\ target # None
    <3>1. target' = [target EXCEPT !.tree = Put(@, f, v)] /\ target \in TargetDir
      BY <1>4, <2>4 DEF Write, MigrationTypeOK
    <3>2. target' \in TargetDir /\ target'.tree = Put(target.tree, f, v)
      BY <3>1, PutTyped DEF TargetDir
    <3>3. target' # None
      BY <3>2 DEF MigrationAssumption
    <3> QED
      BY <2>1, <2>4, <3>2, <3>3 DEF Held
  <2> QED
    BY <1>4, <2>2, <2>3, <2>4 DEF Write
<1>5. ASSUME NEW f \in Files, NEW v \in Stamp, OldWrite(f, v)
      PROVE  Held' = expect'
  <2>1. Authority' = Authority /\ StateDir = Authority
    BY <1>5, WritesStay, AuthorityTold
  <2> QED
    BY <1>5, <2>1 DEF OldWrite, Held, Authority
<1> QED
  BY <1>1, <1>2, <1>3, <1>4, <1>5, NextCases

-----------------------------------------------------------------------------
(* Theorems.                                                               *)

LEMMA Stutter ==
  ASSUME IInv, UNCHANGED migrationVars
  PROVE  IInv'
<1> USE DEF IInv, migrationVars, dirs
<1>1. MigrationTypeOK' /\ Layouts'
  BY DEF MigrationTypeOK, Layouts
<1>2. Locks' /\ Sources' /\ Ledgers' /\ Stagings'
  BY DEF Locks, Sources, Ledgers, Stagings
<1>3. Authority' = Authority
  BY DEF Authority
<1>4. Scopes' /\ Held' = expect'
  BY <1>3 DEF Scopes, Held
<1> QED
  BY <1>1, <1>2, <1>4

LEMMA MigrationInvariant ==
  ASSUME MigrationAssumption
  PROVE  MigrationSpec => []IInv
<1>1. MigrationInit => IInv
  <2> SUFFICES ASSUME MigrationInit PROVE IInv
    OBVIOUS
  <2>1. Empty # None
    BY EmptyTyped DEF MigrationAssumption
  <2>2. MigrationTypeOK
    BY EmptyTyped DEF MigrationInit, MigrationTypeOK, Label, MigrationAssumption
  <2>3. Layouts /\ Locks /\ Scopes /\ Sources /\ Ledgers /\ Stagings
    BY DEF MigrationInit, Layouts, Locks, Locked, Scopes, Sources, Ledgers, Stagings, Working
  <2>4. Held = expect
    BY DEF MigrationInit, Held, Authority
  <2> QED
    BY <2>2, <2>3, <2>4 DEF IInv
<1>2. IInv /\ [MigrationNext]_migrationVars => IInv'
  <2> SUFFICES ASSUME IInv, [MigrationNext]_migrationVars PROVE IInv'
    OBVIOUS
  <2>1. CASE MigrationNext
    BY <2>1, TypesKept, LayoutsKept, LocksKept, ScopesKept, SourcesKept, LedgersKept,
       StagingsKept, HeldKept DEF IInv
  <2>2. CASE UNCHANGED migrationVars
    BY <2>2, Stutter
  <2> QED
    BY <2>1, <2>2
<1> QED
  BY <1>1, <1>2, PTL DEF MigrationSpec

\* Every variable of the migration keeps its type.
THEOREM MigrationTypes ==
  ASSUME MigrationAssumption
  PROVE  MigrationSpec => []MigrationTypeOK
  BY MigrationInvariant, PTL DEF IInv

\* The state always has one authority and it holds what its writers have left
\* there; the legacy directory has everything when assess_rollback says that
\* going back to it is safe.
THEOREM NoWriteIsLost ==
  ASSUME MigrationAssumption
  PROVE  MigrationSpec => []WritesSurvive
<1>1. ASSUME IInv PROVE AuthorityIsCurrent
  <2>1. StateDir = Authority
    BY <1>1, AuthorityTold DEF IInv
  <2>2. CASE Authority = "legacy"
    BY <1>1, <2>1, <2>2 DEF AuthorityIsCurrent, IInv, Held
  <2>3. CASE Authority = "target"
    BY <1>1, <2>1, <2>3 DEF AuthorityIsCurrent, IInv, Held
  <2> QED
    BY <2>2, <2>3 DEF Authority
<1>2. ASSUME IInv PROVE RollbackIsSafe
  <2> SUFFICES ASSUME Rollback = "SAFE_UNCHANGED" PROVE legacy = expect
    BY DEF RollbackIsSafe
  <2>1. target # None /\ target.tree = target.marker /\ legacy = target.marker
    BY DEF Rollback
  <2> QED
    BY <1>2, <2>1 DEF IInv, Held, Authority
<1>3. IInv => WritesSurvive
  BY <1>1, <1>2 DEF WritesSurvive
<1> QED
  BY <1>3, MigrationInvariant, PTL

\* The rename is the one step that moves the authority, and the migrator holds
\* ledger.lock and has found no active turn when it comes to it.
THEOREM MovesWhenQuiescent ==
  ASSUME MigrationAssumption
  PROVE  MigrationSpec => PublishIsQuiescent
<1>1. ASSUME IInv, IInv', [MigrationNext]_migrationVars, StateDir = "legacy", StateDir' = "target"
      PROVE  Quiescent
  <2>1. Authority = "legacy" /\ Authority' = "target"
    <3>1. StateDir = Authority
      BY <1>1, AuthorityTold DEF IInv
    <3>2. (StateDir = Authority)'
      BY <1>1, AuthorityTold, PTL DEF IInv
    <3> QED
      BY <1>1, <3>1, <3>2
  <2>2. CASE UNCHANGED migrationVars
    BY <2>1, <2>2 DEF migrationVars, dirs, Authority
  <2>3. CASE (\E p \in Procs : MovesOf(p)) \/ OldLock \/ OldUnlock
    BY <1>1, <2>1, <2>3, MovesKeepDirs, DirsKept
  <2>4. CASE \E p \in Procs : StagesOf(p)
    BY <1>1, <2>1, <2>4, StagesKeepTrees DEF Authority
  <2>5. CASE \E p \in Procs : Publish(p)
    BY <1>1, <2>5 DEF Publish, At, IInv, Ledgers, Working, Quiescent
  <2> QED
    BY <1>1, <2>1, <2>2, <2>3, <2>4, <2>5, WritesStay, NextCases
<1>2. IInv /\ IInv' /\ [MigrationNext]_migrationVars => [StateDir = "legacy" /\ StateDir' = "target" => Quiescent]_migrationVars
  BY <1>1
<1> QED
  BY <1>2, MigrationInvariant, PTL DEF MigrationSpec, PublishIsQuiescent
===============================================================================
