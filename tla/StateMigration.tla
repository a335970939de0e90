--------------------------- MODULE StateMigration ---------------------------
(***************************************************************************)
(* core/state_layout.py and core/state_migration.py: a project's state     *)
(* lives in the legacy directory or in the target directory, and `smtw     *)
(* migrate` moves it by copying it to a staging directory that it renames. *)
(* Which directory is the authority is read off the disk each time.        *)
(*                                                                         *)
(* Writers of this version work inside state_write_scope, under the layout *)
(* barrier; a writer of an older version knows only the legacy directory   *)
(* and its ledger.lock.  The barrier and ledger.lock are locks whose       *)
(* holder releases them by dying (OwnerLock has their steps and the window *)
(* the barrier leaves open).                                               *)
(***************************************************************************)
EXTENDS Naturals, FiniteSets, Nothing

CONSTANTS
  Procs,      \* processes of this version; each may write and may migrate
  Files,      \* what a state tree holds
  Ledger,     \* the file that says whether a turn is active
  MaxStamp,   \* bound: contents of a file; an odd ledger has an active turn
  MaxWrites,  \* bound: writes by anyone
  MaxFaults   \* bound: deaths, failed steps and failed removals together

VARIABLES
  legacy,   \* .fable-lite: its tree, or None
  target,   \* .smtw: its tree and marker, or None
  staging,  \* .smtw.migrating-<pid>-<id> of each process, or None
  barrier,  \* holder of .smtw-migration.lock
  src,      \* holder of .fable-lite/ledger.lock: a process or "old"
  pc,       \* where each process is
  auth,     \* the authority a writer's scope has yielded
  man,      \* the source manifest a migrator has built
  writes, faults,
  expect    \* history: the state as its writers have left it

migrationVars ==
  <<legacy, target, staging, barrier, src, pc, auth, man, writes, faults, expect>>
dirs == <<legacy, target, staging>>

Stamp == 0 .. MaxStamp
Tree == [Files -> Stamp]
Empty == [f \in Files |-> 0]
PartialTree == UNION {[D -> Stamp] : D \in SUBSET Files}
TargetDir == [tree : Tree, marker : Tree \cup {None}]
StagingDir == [tree : PartialTree, phase : {"none", "copying", "published"}, old : BOOLEAN]

MigrationAssumption ==
  /\ Ledger \in Files /\ None \notin Procs /\ "old" \notin Procs
  /\ None \notin Tree \cup TargetDir \cup StagingDir
  /\ MaxStamp \in Nat /\ MaxWrites \in Nat /\ MaxFaults \in Nat

Label == {"idle", "scope", "lock", "recover", "src", "manifest", "stage",
          "mark", "copy", "verify", "seal", "final", "publish", "check",
          "fail", "release", "dead"}

\* A process whose pid is alive.
Alive(p) == pc[p] # "dead"

MigrationTypeOK ==
  /\ legacy \in Tree \cup {None}
  /\ target \in TargetDir \cup {None}
  /\ staging \in [Procs -> StagingDir \cup {None}]
  /\ barrier \in Procs \cup {None} /\ src \in Procs \cup {"old", None}
  /\ pc \in [Procs -> Label]
  /\ auth \in [Procs -> {"legacy", "target", "none"}]
  /\ man \in [Procs -> Tree]
  /\ writes \in 0 .. MaxWrites /\ faults \in 0 .. MaxFaults
  /\ expect \in Tree

MigrationInit ==
  /\ legacy \in {None, Empty} /\ target = None
  /\ staging = [p \in Procs |-> None]
  /\ barrier = None /\ src = None
  /\ pc = [p \in Procs |-> "idle"]
  /\ auth = [p \in Procs |-> "none"]
  /\ man = [p \in Procs |-> Empty]
  /\ writes = 0 /\ faults = 0
  /\ expect = Empty

At(p, l) == pc[p] = l
Goto(p, l) == pc' = [pc EXCEPT ![p] = l]

-----------------------------------------------------------------------------
(* Reading the layout.                                                     *)

Staged == {p \in Procs : staging[p] # None}

\* inspect_state_layout_details: a published marker seals the target; a
\* target without one is native only if nothing else is there.
Layout ==
  IF target # None /\ target.marker # None THEN "MIGRATED"
  ELSE IF target # None
       THEN IF legacy # None \/ Staged # {} THEN "CONFLICT" ELSE "NATIVE"
  ELSE IF Staged # {} THEN IF legacy # None THEN "MIGRATING" ELSE "CONFLICT"
  ELSE IF legacy # None THEN "LEGACY" ELSE "EMPTY"

\* state_dir; there is none in a conflict.
StateDir ==
  CASE Layout \in {"EMPTY", "NATIVE", "MIGRATED"} -> "target"
    [] Layout \in {"LEGACY", "MIGRATING"} -> "legacy"
    [] OTHER -> "none"

\* _quiescence_reason, as far as it lets a migration go on.
Quiescent == legacy # None => legacy[Ledger] % 2 = 0

\* assess_rollback: may a user go back to the legacy directory?
Rollback ==
  IF target = None THEN "NOT_MIGRATED"
  ELSE IF target.marker = None THEN "CONFLICT"
  ELSE IF target.tree # target.marker THEN "TARGET_DIVERGED"
  ELSE IF legacy # target.marker THEN "LEGACY_DIVERGED" ELSE "SAFE_UNCHANGED"

-----------------------------------------------------------------------------
(* Writers.                                                                *)

\* Variant: the authority is chosen without waiting for the barrier.
EnterUnlocked(p) ==
  /\ At(p, "idle")
  /\ Goto(p, "scope") /\ auth' = [auth EXCEPT ![p] = StateDir]
  /\ UNCHANGED <<dirs, barrier, src, man, writes, faults, expect>>

\* state_write_scope: the barrier first, then the authority; nested scopes
\* reuse it.
Enter(p) ==
  /\ At(p, "idle") /\ barrier = None
  /\ barrier' = p /\ Goto(p, "scope")
  /\ auth' = [auth EXCEPT ![p] = StateDir]
  /\ UNCHANGED <<dirs, src, man, writes, faults, expect>>

Put(tree, f, v) == [tree EXCEPT ![f] = v]

\* One write of the scope's body to the authority it was given; a scope
\* without one has raised StateLayoutError.
Write(p, f, v) ==
  /\ At(p, "scope") /\ writes < MaxWrites
  /\ writes' = writes + 1
  /\ \/ /\ auth[p] = "legacy" /\ legacy # None
        /\ legacy' = Put(legacy, f, v)
        /\ UNCHANGED target
     \/ /\ auth[p] = "target"
        /\ target' = IF target = None
                     THEN [tree |-> Put(Empty, f, v), marker |-> None]
                     ELSE [target EXCEPT !.tree = Put(@, f, v)]
        /\ UNCHANGED legacy
  /\ expect' = Put(expect, f, v)
  /\ UNCHANGED <<staging, barrier, src, pc, auth, man, faults>>

Leave(p) ==
  /\ At(p, "scope") /\ barrier' = IF barrier = p THEN None ELSE barrier
  /\ Goto(p, "idle") /\ auth' = [auth EXCEPT ![p] = "none"]
  /\ UNCHANGED <<dirs, src, man, writes, faults, expect>>

\* An older version holds ledger.lock while it writes the ledger; its other
\* files it writes without.  It writes the legacy tree, whatever happened.
OldLock ==
  /\ src = None /\ legacy # None /\ src' = "old"
  /\ UNCHANGED <<dirs, barrier, pc, auth, man, writes, faults, expect>>

OldWrite(f, v) ==
  /\ legacy # None /\ writes < MaxWrites
  /\ f = Ledger => src = "old"
  /\ writes' = writes + 1
  /\ legacy' = Put(legacy, f, v)
  /\ expect' = IF StateDir = "legacy" THEN Put(expect, f, v) ELSE expect
  /\ UNCHANGED <<target, staging, barrier, src, pc, auth, man, faults>>

OldUnlock ==
  /\ src = "old" /\ src' = None
  /\ UNCHANGED <<dirs, barrier, pc, auth, man, writes, faults, expect>>

-----------------------------------------------------------------------------
(* The migration.                                                          *)

\* Variant: what a dead migration left behind is taken for one that runs.
PrepareFresh(p) ==
  /\ At(p, "idle") /\ Layout = "LEGACY"
  /\ Goto(p, "lock")
  /\ UNCHANGED <<dirs, barrier, src, auth, man, writes, faults, expect>>

\* prepare_state_layout: the look without a lock that sends every other
\* layout away.
Prepare(p) ==
  /\ At(p, "idle") /\ Layout \in {"LEGACY", "MIGRATING"}
  /\ Goto(p, "lock")
  /\ UNCHANGED <<dirs, barrier, src, auth, man, writes, faults, expect>>

Lock(p) ==
  /\ At(p, "lock") /\ barrier = None
  /\ barrier' = p /\ Goto(p, "recover")
  /\ UNCHANGED <<dirs, src, auth, man, writes, faults, expect>>

\* TimeoutError of the barrier: DEFERRED, layout_lock_busy.
LockBusy(p) ==
  /\ At(p, "lock") /\ barrier # None /\ Goto(p, "idle")
  /\ UNCHANGED <<dirs, barrier, src, auth, man, writes, faults, expect>>

\* _recover_orphan_staging removes what a dead process left, once it is old
\* and if it can tell whose it was.
Orphan(q) ==
  /\ staging[q] # None /\ staging[q].phase # "none"
  /\ staging[q].old /\ ~Alive(q)

\* The layout is judged again under the barrier, then the ledger.
Recover(p) ==
  /\ At(p, "recover")
  /\ staging' = [q \in Procs |-> IF Orphan(q) THEN None ELSE staging[q]]
  /\ Goto(p, IF legacy # None /\ target = None /\ Quiescent
             THEN "src" ELSE "release")
  /\ UNCHANGED <<legacy, target, barrier, src, auth, man, writes, faults,
                 expect>>

\* Variant: the ledger was looked at a moment ago.
SrcUnchecked(p) ==
  /\ At(p, "src") /\ src = None
  /\ src' = p /\ Goto(p, "manifest")
  /\ UNCHANGED <<dirs, barrier, auth, man, writes, faults, expect>>

\* The second look at the ledger, under the lock old versions respect.
Src(p) ==
  /\ At(p, "src") /\ src = None
  /\ src' = p /\ Goto(p, IF Quiescent THEN "manifest" ELSE "release")
  /\ UNCHANGED <<dirs, barrier, auth, man, writes, faults, expect>>

SrcBusy(p) ==
  /\ At(p, "src") /\ src # None /\ Goto(p, "release")
  /\ UNCHANGED <<dirs, barrier, src, auth, man, writes, faults, expect>>

\* build_state_manifest of the source; it raises if a file moves under it.
Manifest(p) ==
  /\ At(p, "manifest") /\ man' = [man EXCEPT ![p] = legacy]
  /\ Goto(p, "stage")
  /\ UNCHANGED <<dirs, barrier, src, auth, writes, faults, expect>>

NewStaging == [tree |-> [f \in {} |-> 0], phase |-> "none", old |-> FALSE]

Stage(p) ==
  /\ At(p, "stage") /\ staging' = [staging EXCEPT ![p] = NewStaging]
  /\ Goto(p, "mark")
  /\ UNCHANGED <<legacy, target, barrier, src, auth, man, writes, faults,
                 expect>>

\* _marker_payload, written with _atomic_write_json.
Mark(p) ==
  /\ At(p, "mark") /\ staging' = [staging EXCEPT ![p].phase = "copying"]
  /\ Goto(p, "copy")
  /\ UNCHANGED <<legacy, target, barrier, src, auth, man, writes, faults,
                 expect>>

CopyFile(t, f) == [g \in DOMAIN t \cup {f} |-> IF g = f THEN legacy[f] ELSE t[g]]

\* _copy_manifest_entries, one file at a time.
Copy(p, f) ==
  /\ At(p, "copy") /\ f \notin DOMAIN staging[p].tree
  /\ staging' = [staging EXCEPT ![p].tree = CopyFile(@, f)]
  /\ Goto(p, IF Files = DOMAIN staging[p].tree \cup {f} THEN "verify" ELSE "copy")
  /\ UNCHANGED <<legacy, target, barrier, src, auth, man, writes, faults,
                 expect>>

\* The copy and then the source are compared with the manifest.
Verify(p) ==
  /\ At(p, "verify")
  /\ Goto(p, IF staging[p].tree = man[p] /\ legacy = man[p]
             THEN "seal" ELSE "fail")
  /\ UNCHANGED <<dirs, barrier, src, auth, man, writes, faults, expect>>

Seal(p) ==
  /\ At(p, "seal") /\ staging' = [staging EXCEPT ![p].phase = "published"]
  /\ Goto(p, "final")
  /\ UNCHANGED <<legacy, target, barrier, src, auth, man, writes, faults,
                 expect>>

Final(p) ==
  /\ At(p, "final") /\ Goto(p, IF legacy = man[p] THEN "publish" ELSE "fail")
  /\ UNCHANGED <<dirs, barrier, src, auth, man, writes, faults, expect>>

\* The last comparison and the rename.
Publish(p) ==
  /\ At(p, "publish")
  /\ IF legacy = man[p] /\ target = None
     THEN /\ target' = [tree |-> staging[p].tree, marker |-> man[p]]
          /\ staging' = [staging EXCEPT ![p] = None]
          /\ Goto(p, "check")
     ELSE Goto(p, "fail") /\ UNCHANGED <<target, staging>>
  /\ UNCHANGED <<legacy, barrier, src, auth, man, writes, faults, expect>>

\* validate_published_marker and the receipt: whatever they find, the target
\* is the authority now.
Check(p) ==
  /\ At(p, "check") /\ Goto(p, "release")
  /\ UNCHANGED <<dirs, barrier, src, auth, man, writes, faults, expect>>

\* An OSError of one of the steps before the rename.
StepFails(p) ==
  /\ pc[p] \in {"manifest", "stage", "mark", "copy", "verify", "seal",
                "final", "publish"}
  /\ faults < MaxFaults /\ faults' = faults + 1 /\ Goto(p, "fail")
  /\ UNCHANGED <<dirs, barrier, src, auth, man, writes, expect>>

\* _remove_owned_staging; rmtree may stop anywhere, the marker gone or not.
Fail(p) ==
  /\ At(p, "fail") /\ Goto(p, "release")
  /\ \/ staging' = [staging EXCEPT ![p] = None] /\ UNCHANGED faults
     \/ /\ staging[p] # None /\ faults < MaxFaults /\ faults' = faults + 1
        /\ \E ph \in {"none", staging[p].phase} :
             staging' = [staging EXCEPT ![p].phase = ph]
  /\ UNCHANGED <<legacy, target, barrier, src, auth, man, writes, expect>>

Release(p) ==
  /\ At(p, "release") /\ Goto(p, "idle")
  /\ barrier' = None /\ src' = IF src = p THEN None ELSE src
  /\ UNCHANGED <<dirs, auth, man, writes, faults, expect>>

\* A process dies; what it left on the disk stays, its locks are reclaimed.
Crash(p) ==
  /\ Alive(p) /\ ~At(p, "idle") /\ faults < MaxFaults
  /\ faults' = faults + 1 /\ Goto(p, "dead")
  /\ barrier' = IF barrier = p THEN None ELSE barrier
  /\ src' = IF src = p THEN None ELSE src
  /\ auth' = [auth EXCEPT ![p] = "none"]
  /\ UNCHANGED <<dirs, man, writes, expect>>

\* orphan_min_age_seconds go by.
Age(p) ==
  /\ staging[p] # None /\ ~Alive(p) /\ ~staging[p].old
  /\ staging' = [staging EXCEPT ![p].old = TRUE]
  /\ UNCHANGED <<legacy, target, barrier, src, pc, auth, man, writes, faults,
                 expect>>

-----------------------------------------------------------------------------
\* `smtw migrate` is a process of its own; one that could not remove its
\* staging does not try again, another one does.
Copying(p) ==
  \/ Manifest(p) \/ Stage(p) \/ Mark(p) \/ (\E f \in Files : Copy(p, f))
  \/ Verify(p) \/ Seal(p) \/ Final(p) \/ Publish(p) \/ Check(p) \/ Fail(p)
  \/ Release(p)

GoesOn(p) ==
  Lock(p) \/ LockBusy(p) \/ Recover(p) \/ Src(p) \/ SrcBusy(p) \/ Copying(p)

Migrate(p) ==
  \/ (staging[p] = None /\ Prepare(p)) \/ Lock(p) \/ LockBusy(p) \/ Recover(p)
  \/ Src(p) \/ SrcBusy(p) \/ Copying(p)

MigrationNext ==
  \/ \E p \in Procs :
       \/ Enter(p) \/ Leave(p) \/ Migrate(p) \/ StepFails(p) \/ Crash(p) \/ Age(p)
       \/ \E f \in Files, v \in Stamp : Write(p, f, v)
  \/ OldLock \/ OldUnlock
  \/ \E f \in Files, v \in Stamp : OldWrite(f, v)

\* The user repeats `smtw migrate`; a process that is running goes on.
Fairness ==
  \A p \in Procs :
    /\ WF_migrationVars(staging[p] = None /\ Prepare(p))
    /\ WF_migrationVars(GoesOn(p))

MigrationSpec == MigrationInit /\ [][MigrationNext]_migrationVars
FairSpec == MigrationSpec /\ Fairness

-----------------------------------------------------------------------------
(* Properties.                                                             *)

\* There is always one authority, and it holds the state exactly as its
\* writers have left it, whatever was copied, renamed, cut short or removed.
AuthorityIsCurrent ==
  LET tree == CASE StateDir = "legacy" -> legacy
                [] StateDir = "target" -> IF target = None THEN Empty ELSE target.tree
  IN  StateDir # "none" /\ tree = expect

\* When assess_rollback answers SAFE_UNCHANGED, the legacy directory has all.
RollbackIsSafe == Rollback = "SAFE_UNCHANGED" => legacy = expect

\* No write is lost to the migration, nor by going back where that is called
\* safe.
WritesSurvive == AuthorityIsCurrent /\ RollbackIsSafe

\* The authority never moves while a turn is active in the tree it leaves
\* (its hooks would find their turn gone).
PublishIsQuiescent ==
  [][StateDir = "legacy" /\ StateDir' = "target" => Quiescent]_migrationVars

\* Nobody works on the state: no turn is active, no writer is in a scope, no
\* older version has the ledger, and a process is left to run the command.
Quiet ==
  /\ Quiescent /\ src # "old"
  /\ \A p \in Procs : ~At(p, "scope")
  /\ \E p \in Procs : Alive(p) /\ ~(At(p, "idle") /\ staging[p] # None)

\* Once the project stays quiet, repeating `smtw migrate` completes the
\* migration, over crashes, failed steps and whatever they left behind.
MigrationCompletes ==
  legacy # None /\ <>[]Quiet => <>(Layout = "MIGRATED")
=============================================================================
