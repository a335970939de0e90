------------------------ MODULE ProvenanceGateProofs ------------------------
(***************************************************************************)
(* What is proved of ProvenanceGate, for any agents, calls, files, faults  *)
(* and bounds.                                                             *)
(*                                                                         *)
(* workspace-current never goes back to an older content of a file, and a  *)
(* pending transition can always be resolved.  This rests on FreshInv: a   *)
(* generation number names one snapshot.  A hook that finds the generation *)
(* it loaded finds the snapshot it loaded, although the code compares      *)
(* digests, which may agree by chance when a file got an earlier content   *)
(* back; and its scan is not older than that.                              *)
(*                                                                         *)
(* A Stop that passes on evidence has seen every file as it was when the   *)
(* Stop began, or later.  What could go wrong is that the scan the Stop    *)
(* judges by is not its own complete one: its commit was lost or cut,      *)
(* another hook of the agent took the mark "incomplete" off the turn, or a *)
(* turn of the same id came back.  So the invariant (Sight) follows the    *)
(* Stop from its first step to its decision, and rests on two facts about  *)
(* the host: the steps a kind of hook can be at (Roles), and that beside a *)
(* Stop only a new prompt of the same agent may run (Alone), whose turn    *)
(* carries no mark at all.                                                 *)
(*                                                                         *)
(* What a turn owes is what workspace-current committed for it (OwedInv),  *)
(* no owed file is passed without evidence that is younger than it         *)
(* (StopInv), and where one agent works alone and no write of the ledger   *)
(* fails (CalmInv) the debt of a ready turn is the net change since its    *)
(* baseline, so that nothing is passed that a hidden change would show.    *)
(***************************************************************************)
EXTENDS ProvenanceGate, TLAPS

\* An observation has at most two tries, and none is left over from it.
TriesInv ==
  \A s \in Slots :
    /\ At(s, "view") => hook[s].tries < 2
    /\ hook[s].pc \notin {"view", "scan", "commit"} => hook[s].tries = 0

\* At the commit every file has been scanned.
ScannedInv ==
  \A s \in Slots : At(s, "commit") => hook[s].scan \in Snapshot

Typed == TypeOK /\ TriesInv /\ ScannedInv

-----------------------------------------------------------------------------
(* The turn records.                                                       *)

LEMMA TextType == \A n \in Stamp : Text(n) \in Nat
  BY ProvenanceAssumption DEF Text, Stamp

LEMMA ReviseType ==
  ASSUME NEW t \in TurnRecord, NEW before \in Snapshot, NEW after \in Snapshot
  PROVE  Revise(t, before, after) \in TurnRecord
<1> DEFINE first == [p \in Paths |->
                  IF t.first[p] = None /\ p \in Delta(before, after)
                  THEN Text(before[p]) ELSE t.first[p]]
           rev == [p \in Paths |->
                   IF p \notin Delta(before, after) THEN t.rev[p]
                   ELSE IF Text(after[p]) = first[p] THEN 0 ELSE after[p]]
<1>1. first \in [Paths -> Nat \cup {None}]
  BY TextType DEF TurnRecord, Snapshot
<1>2. rev \in Snapshot
  BY ProvenanceAssumption DEF TurnRecord, Snapshot, Stamp
<1>3. Revise(t, before, after) = [t EXCEPT !.first = first, !.rev = rev]
  BY DEF Revise
<1> HIDE DEF first, rev
<1> QED
  BY <1>1, <1>2, <1>3 DEF TurnRecord

LEMMA NoTurnType == NoTurn \in TurnRecord
  BY ProvenanceAssumption DEF NoTurn, TurnRecord, Zero, Snapshot, Stamp

LEMMA AppliedType ==
  ASSUME NEW turns \in [Agents -> TurnRecord], NEW a \in Agents,
         NEW id \in 0 .. MaxTurns,
         NEW before \in Snapshot, NEW after \in Snapshot
  PROVE  Applied(turns, a, id, before, after) \in [Agents -> TurnRecord]
<1> DEFINE fresh == [NoTurn EXCEPT !.id = id, !.st = "ready"]
<1>1. fresh \in TurnRecord
  BY NoTurnType DEF TurnRecord
<1>2. Revise(fresh, before, after) \in TurnRecord
      /\ Revise(turns[a], before, after) \in TurnRecord
  BY <1>1, ReviseType
<1> QED
  BY <1>2 DEF Applied

LEMMA RecoverType ==
  ASSUME TypeOK
  PROVE  RTurn \in [Agents -> TurnRecord] /\ RGen \in Nat
<1>1. CASE Reached
  <2>1. pend \in Transition
    BY <1>1 DEF Reached, TypeOK
  <2> QED
    BY <1>1, <2>1, AppliedType DEF RTurn, RGen, Transition, TypeOK
<1>2. CASE ~Reached
  BY <1>2 DEF RTurn, RGen, TypeOK
<1> QED
  BY <1>1, <1>2

LEMMA IdleType == Idle \in HookRecord
  BY ProvenanceAssumption
  DEF Idle, HookRecord, Scanned, Label, Op, Zero, Snapshot, Stamp

LEMMA ObservedRecord ==
  ASSUME NEW h \in HookRecord, NEW next \in Label, NEW b \in BOOLEAN,
         NEW none \in Scanned, NEW n \in 0 .. 2
  PROVE  [h EXCEPT !.pc = next, !.ok = b, !.scan = none, !.tries = n]
           \in HookRecord
  BY DEF HookRecord

LEMMA ObservedType ==
  ASSUME TypeOK, NEW s \in Slots, NEW ok \in BOOLEAN
  PROVE  /\ Observed(s, ok) \in HookRecord
         /\ Unstored(s) \in HookRecord
<1>1. hook[s] \in HookRecord
  BY DEF TypeOK
<1>2. ASSUME NEW op \in Op, NEW b \in BOOLEAN PROVE After(op, b) \in Label
  BY <1>2 DEF After, Label
<1>3. ASSUME NEW b \in BOOLEAN PROVE Observed(s, b) \in HookRecord
  <2>1. After(hook[s].op, b) \in Label
    BY <1>1, <1>2 DEF HookRecord
  <2>2. Idle.scan \in Scanned
    BY DEF Idle, Scanned
  <2>3. [hook[s] EXCEPT !.pc = After(hook[s].op, b), !.ok = b,
                        !.scan = Idle.scan, !.tries = 0] \in HookRecord
    BY <1>1, <1>3, <2>1, <2>2, 0 \in 0 .. 2, ObservedRecord, Zenon
  <2> QED
    BY <2>3, IdleType DEF Observed
<1> QED
  BY <1>1, <1>3 DEF Unstored, HookRecord

-----------------------------------------------------------------------------
(* Types.                                                                  *)

LEMMA InitTypes == Init => Typed
<1> SUFFICES ASSUME Init PROVE Typed
  OBVIOUS
<1>1. Zero \in Snapshot
  BY ProvenanceAssumption DEF Zero, Snapshot, Stamp
<1>2. TriesInv /\ ScannedInv
  BY DEF Init, TriesInv, ScannedInv, Idle, At
<1> QED
  BY <1>1, <1>2, NoTurnType, IdleType, ProvenanceAssumption
  DEF Init, Typed, TypeOK

\* Recovery keeps the types of what it may change.
LEMMA RecoverTypes ==
  ASSUME TypeOK, Recover
  PROVE  /\ gen' \in Nat /\ turn' \in [Agents -> TurnRecord]
         /\ pend' \in Transition \cup {None}
  BY RecoverType DEF Recover

LEMMA BeginTypes ==
  ASSUME Typed, NEW s \in Slots,
         BeginStart(s) \/ BeginStop(s) \/ BeginTool(s)
  PROVE  Typed'
<1> USE ProvenanceAssumption, IdleType DEF Typed
<1>a. Me(s) \in Agents
  BY DEF Me
<1>1. CASE BeginStart(s)
  <2> DEFINE h == [Idle EXCEPT !.pc = "view", !.op = "start",
                               !.id = round[Me(s)] + 1]
  <2>1. round[Me(s)] + 1 \in 0 .. MaxTurns
    BY <1>1, <1>a DEF BeginStart, TypeOK
  <2>2. h \in HookRecord /\ h.pc = "view" /\ h.tries = 0
    BY <2>1 DEF HookRecord, Label, Op, Idle
  <2>3. hook' = [hook EXCEPT ![s] = h]
    BY <1>1 DEF BeginStart
  <2> HIDE DEF h
  <2>4. round' \in [Agents -> 0 .. MaxTurns]
    BY <1>1, <1>a, <2>1 DEF BeginStart, TypeOK
  <2>5. TypeOK'
    BY <1>1, <2>2, <2>3, <2>4 DEF BeginStart, TypeOK, files, manifest, bounds
  <2> QED
    BY <2>2, <2>3, <2>5 DEF TriesInv, ScannedInv, At, TypeOK
<1>2. CASE BeginStop(s)
  <2> DEFINE h == [Idle EXCEPT !.pc = "resume", !.op = "stop",
                               !.id = Mine(s).id, !.from = disk]
  <2>1. Mine(s).id \in 0 .. MaxTurns
    BY <1>a DEF Mine, TypeOK, TurnRecord
  <2>2. h \in HookRecord /\ h.pc = "resume" /\ h.tries = 0
    BY <2>1 DEF HookRecord, Label, Op, Idle, TypeOK
  <2>3. hook' = [hook EXCEPT ![s] = h]
    BY <1>2 DEF BeginStop
  <2> HIDE DEF h
  <2>5. TypeOK'
    BY <1>2, <2>2, <2>3 DEF BeginStop, TypeOK, files, manifest, bounds
  <2> QED
    BY <2>2, <2>3, <2>5 DEF TriesInv, ScannedInv, At, TypeOK
<1>3. CASE BeginTool(s)
  <2> DEFINE a == Me(s)
             id == BoundId(a)
             t == Bootstrapped(RTurn[a], id, base[a].id = id)
             u == [t EXCEPT !.inv[s] = None]
  <2>1. id \in 0 .. MaxTurns
    BY <1>a, RecoverType DEF BoundId, TypeOK, TurnRecord
  <2>2. t \in TurnRecord
    <3>1. RTurn[a] \in TurnRecord
      BY <1>a, RecoverType
    <3> QED
      BY <2>1, <3>1, NoTurnType DEF Bootstrapped, TurnRecord
  <2>3. u \in TurnRecord
    BY <2>2 DEF TurnRecord
  <2>4. PICK op \in {"work", "check"} :
          hook' = [hook EXCEPT ![s] =
                      [Idle EXCEPT !.op = op, !.id = id, !.from = disk,
                         !.pc = IF t.st = "degraded" THEN "tool"
                                ELSE IF op = "check" THEN "capture"
                                ELSE "invoke"]]
    BY <1>3 DEF BeginTool
  <2> DEFINE h == [Idle EXCEPT !.op = op, !.id = id, !.from = disk,
                         !.pc = IF t.st = "degraded" THEN "tool"
                                ELSE IF op = "check" THEN "capture"
                                ELSE "invoke"]
  <2>5. h \in HookRecord /\ h.pc \notin {"view", "scan", "commit"}
        /\ h.tries = 0
    BY <2>1 DEF HookRecord, Label, Op, Idle, TypeOK
  <2>6. /\ gen' = RGen /\ pend' = None
        /\ turn' = [RTurn EXCEPT ![a] = u]
        /\ base' = IF t.st = "ready" /\ base[a].id # id
                   THEN [base EXCEPT ![a] = [id |-> id, snap |-> cur]] ELSE base
        /\ calls[s] < MaxCalls /\ calls' = [calls EXCEPT ![s] = @ + 1]
        /\ UNCHANGED <<files, cur, closed, round, faults, author>>
    BY <1>3 DEF BeginTool
  <2>7. hook' = [hook EXCEPT ![s] = h]
    BY <2>4
  <2> HIDE DEF h, u, t, id, a
  <2>8. turn' \in [Agents -> TurnRecord] /\ gen' \in Nat
    BY <2>3, <2>6, RecoverType
  <2>9. base' \in [Agents -> [id : 0 .. MaxTurns, snap : Snapshot]]
    BY <2>1, <2>6 DEF TypeOK
  <2>10. calls' \in [Slots -> 0 .. MaxCalls]
    BY <2>6 DEF TypeOK
  <2>11. TypeOK'
    BY <2>5, <2>6, <2>7, <2>8, <2>9, <2>10 DEF TypeOK, files
  <2> QED
    BY <2>5, <2>7, <2>11 DEF TriesInv, ScannedInv, At, TypeOK
<1> QED
  BY <1>1, <1>2, <1>3

\* A step that gives one slot a new hook record.
LEMMA HookTypes ==
  ASSUME Typed, NEW s \in Slots, NEW h \in HookRecord,
         hook' = [hook EXCEPT ![s] = h],
         h.pc = "view" => h.tries < 2,
         h.pc \notin {"view", "scan", "commit"} => h.tries = 0,
         h.pc = "commit" => h.scan \in Snapshot
  PROVE  hook' \in [Slots -> HookRecord] /\ TriesInv' /\ ScannedInv'
  BY DEF Typed, TypeOK, TriesInv, ScannedInv, At

LEMMA ToolTypes ==
  ASSUME Typed, NEW s \in Slots,
         Capture(s) \/ Invoke(s) \/ PreFails(s) \/ ToolEnds(s) \/ HookDies(s)
  PROVE  Typed'
<1>a. Me(s) \in Agents /\ hook[s] \in HookRecord
      /\ turn \in [Agents -> TurnRecord]
  BY ProvenanceAssumption DEF Me, Typed, TypeOK
<1>1. CASE Capture(s)
  <2> DEFINE cov == IF Current(s) THEN Mine(s).rev ELSE None
             h == [hook[s] EXCEPT !.pc = "invoke", !.cov = cov]
  <2>1. cov \in Snapshot \cup {None}
    BY <1>a DEF Mine, TurnRecord
  <2>2. hook' = [hook EXCEPT ![s] = h]
    BY <1>1, <1>a DEF Capture, Typed, TypeOK
  <2> HIDE DEF cov
  <2>3. h \in HookRecord /\ h.pc = "invoke" /\ h.tries = 0
    BY <1>1, <1>a, <2>1 DEF HookRecord, Label, Typed, TriesInv, Capture, At
  <2> HIDE DEF h
  <2> QED
    BY <1>1, <2>2, <2>3, HookTypes
    DEF Capture, Typed, TypeOK, files, manifest, bounds
<1>2. CASE Invoke(s)
  <2> DEFINE a == Me(s)
             t == RTurn[a]
             h == [hook[s] EXCEPT !.pc = "tool", !.cov = None, !.from = disk]
  <2>1. hook' = [hook EXCEPT ![s] = h]
    BY <1>2, <1>a DEF Invoke, Typed, TypeOK
  <2>2. h \in HookRecord /\ h.pc = "tool" /\ h.tries = 0
    BY <1>2, <1>a DEF HookRecord, Label, Typed, TypeOK, TriesInv, Invoke, At
  <2> HIDE DEF h
  <2>3. RTurn \in [Agents -> TurnRecord] /\ RGen \in Nat
    BY RecoverType DEF Typed
  <2>4. hook[s].cov \in Snapshot \cup {None}
    BY <1>a DEF HookRecord
  <2>5. [t EXCEPT !.inv[s] = hook[s].cov, !.cap = TRUE] \in TurnRecord
    BY ZenonT(40), <1>a, <2>3, <2>4 DEF TurnRecord
  <2>6. turn' \in [Agents -> TurnRecord]
    BY <1>2, <1>a, <2>3, <2>5 DEF Invoke
  <2> QED
    BY <1>2, <2>1, <2>2, <2>3, <2>6, HookTypes
    DEF Invoke, Typed, TypeOK, files, bounds
<1>3. CASE PreFails(s)
  <2> DEFINE h == [hook[s] EXCEPT !.pc = "tool", !.cov = None, !.from = disk]
  <2>1. hook' = [hook EXCEPT ![s] = h]
    BY <1>3, <1>a DEF PreFails, Typed, TypeOK
  <2>2. h \in HookRecord /\ h.pc = "tool" /\ h.tries = 0
    BY <1>3, <1>a DEF HookRecord, Label, Typed, TypeOK, TriesInv, PreFails, At
  <2> HIDE DEF h
  <2>3. [turn[Me(s)] EXCEPT !.inc = TRUE, !.cap = TRUE] \in TurnRecord
    BY ZenonT(40), <1>a DEF TurnRecord
  <2>4. turn' \in [Agents -> TurnRecord]
    BY <1>3, <1>a, <2>3 DEF PreFails
  <2>5. faults' \in 0 .. MaxFaults
    BY <1>3, ProvenanceAssumption DEF PreFails, Typed, TypeOK
  <2> QED
    BY <1>3, <2>1, <2>2, <2>4, <2>5, HookTypes
    DEF PreFails, Typed, TypeOK, files, manifest
<1>4. CASE ToolEnds(s)
  <2> DEFINE h == [hook[s] EXCEPT !.pc = "resume"]
  <2>1. hook' = [hook EXCEPT ![s] = h]
    BY <1>4, <1>a DEF ToolEnds, Goto, Typed, TypeOK
  <2>2. h \in HookRecord /\ h.pc = "resume" /\ h.tries = 0
    BY <1>4, <1>a DEF HookRecord, Label, Typed, TypeOK, TriesInv, ToolEnds, At
  <2> HIDE DEF h
  <2> QED
    BY <1>4, <2>1, <2>2, HookTypes
    DEF ToolEnds, Typed, TypeOK, files, manifest, bounds
<1>5. CASE HookDies(s)
  <2> DEFINE tool == [hook[s] EXCEPT !.pc = "tool", !.cov = None, !.from = disk]
             h == IF hook[s].pc \in {"capture", "invoke"} THEN tool ELSE Idle
  <2>1. hook' = [hook EXCEPT ![s] = h]
    BY <1>5, <1>a DEF HookDies, Typed, TypeOK
  <2>2. tool \in HookRecord /\ tool.pc = "tool" /\ tool.tries = hook[s].tries
    BY <1>a DEF HookRecord, Label, Typed, TypeOK
  <2>3. Idle.pc = "free" /\ Idle.tries = 0
    BY DEF Idle
  <2> HIDE DEF tool
  <2>4. h \in HookRecord /\ h.pc \in {"tool", "free"} /\ h.tries = 0
    BY <2>2, <2>3, IdleType DEF Typed, TriesInv
  <2> HIDE DEF h
  <2>5. faults' \in 0 .. MaxFaults
    BY <1>5, ProvenanceAssumption DEF HookDies, Typed, TypeOK
  <2> QED
    BY <1>5, <2>1, <2>4, <2>5, HookTypes
    DEF HookDies, Typed, TypeOK, files, manifest
<1> QED
  BY <1>1, <1>2, <1>3, <1>4, <1>5

LEMMA ObservedHook ==
  ASSUME Typed, NEW s \in Slots, NEW ok \in BOOLEAN
  PROVE  /\ Observed(s, ok) \in HookRecord
         /\ Observed(s, ok).pc \notin {"view", "scan", "commit"}
         /\ Observed(s, ok).tries = 0
<1>1. Observed(s, ok) \in HookRecord
  BY ObservedType DEF Typed
<1>2. CASE hook[s].op = "restart"
  BY <1>1, <1>2 DEF Observed, Idle
<1>3. CASE hook[s].op # "restart"
  BY <1>1, <1>3 DEF Observed, After, HookRecord, Typed, TypeOK
<1> QED
  BY <1>2, <1>3, <1>1

LEMMA ObserveTypes ==
  ASSUME Typed, NEW s \in Slots,
         \/ Resume(s) \/ View(s) \/ ScanFails(s) \/ CommitLost(s)
         \/ \E p \in Paths : ScanPath(s, p)
  PROVE  Typed'
<1>a. Me(s) \in Agents /\ hook[s] \in HookRecord
      /\ turn \in [Agents -> TurnRecord]
  BY ProvenanceAssumption DEF Me, Typed, TypeOK
<1>b. RTurn \in [Agents -> TurnRecord] /\ RGen \in Nat
  BY RecoverType DEF Typed
<1>1. CASE Resume(s)
  <2> DEFINE there == Current(s) /\ Mine(s).st = "ready"
                      /\ base[Me(s)].id = hook[s].id
             next == IF there THEN "view" ELSE "status"
             h == [hook[s] EXCEPT !.pc = next, !.ok = there]
  <2>1. hook' = [hook EXCEPT ![s] = h]
    BY <1>1, <1>a DEF Resume, Typed, TypeOK
  <2>2. there \in BOOLEAN /\ next \in {"view", "status"}
    BY DEF Current
  <2>3. hook[s].tries = 0
    BY <1>1 DEF Resume, At, Typed, TriesInv
  <2> HIDE DEF there, next
  <2>4. h \in HookRecord
    BY <1>a, <2>2 DEF HookRecord, Label
  <2>5. h.tries = 0 /\ h.tries < 2 /\ h.pc # "commit"
    BY <1>a, <2>2, <2>3 DEF HookRecord
  <2> HIDE DEF h
  <2>6. [turn[Me(s)] EXCEPT !.st = "degraded"] \in TurnRecord
    BY <1>a DEF TurnRecord
  <2>7. turn' \in [Agents -> TurnRecord]
    BY <1>1, <1>a, <2>6 DEF Resume
  <2>8. hook' \in [Slots -> HookRecord] /\ TriesInv' /\ ScannedInv'
    BY <2>1, <2>4, <2>5, HookTypes
  <2> QED
    BY <1>1, <2>7, <2>8
    DEF Resume, Typed, TypeOK, files, manifest, bounds
<1>2. CASE View(s)
  <2> DEFINE tries == hook[s].tries + 1
             none == Idle.scan
             h == [hook[s] EXCEPT !.pc = "scan", !.gen = RGen, !.cur = cur,
                                  !.scan = none, !.tries = tries]
  <2>1. hook' = [hook EXCEPT ![s] = h]
    BY <1>2, Zenon DEF View
  <2>2. tries \in 0 .. 2
    BY <1>2, <1>a DEF View, At, Typed, TriesInv, HookRecord
  <2>3. none \in Scanned
    BY DEF Idle, Scanned
  <2> HIDE DEF tries, none
  <2>4. h \in HookRecord /\ h.pc = "scan"
    BY <1>a, <1>b, <2>2, <2>3 DEF HookRecord, Label, Typed, TypeOK
  <2> HIDE DEF h
  <2> QED
    BY <1>2, <1>b, <2>1, <2>4, HookTypes
    DEF View, Typed, TypeOK, files, bounds
<1>3. ASSUME NEW p \in Paths, ScanPath(s, p) PROVE Typed'
  <2>1. PICK seen \in {disk[p], hook[s].cur[p]} :
          hook' = [hook EXCEPT ![s] =
             [@ EXCEPT !.scan[p] = seen,
                       !.pc = IF \A q \in Paths \ {p} : hook[s].scan[q] # None
                              THEN "commit" ELSE "scan"]]
    BY <1>3 DEF ScanPath
  <2> DEFINE next == IF \A q \in Paths \ {p} : hook[s].scan[q] # None
                     THEN "commit" ELSE "scan"
             scan == [hook[s].scan EXCEPT ![p] = seen]
             h == [hook[s] EXCEPT !.scan = scan, !.pc = next]
  <2>2. hook' = [hook EXCEPT ![s] = h]
    BY <1>a, <2>1 DEF Typed, TypeOK, HookRecord
  <2>3. next \in {"scan", "commit"}
    OBVIOUS
  <2>4. scan \in Scanned
    BY <1>a DEF HookRecord, Scanned, Snapshot, Typed, TypeOK
  <2> HIDE DEF next, scan
  <2>5. h \in HookRecord /\ h.pc = next /\ h.scan = scan
    BY <1>a, <2>3, <2>4 DEF HookRecord, Label
  <2>6. ASSUME next = "commit" PROVE scan \in Snapshot
    <3>1. \A q \in Paths \ {p} : hook[s].scan[q] # None
      BY <2>6 DEF next
    <3>2. seen \in Stamp
      BY <1>a DEF HookRecord, Snapshot, Typed, TypeOK
    <3> QED
      BY <1>a, <3>1, <3>2 DEF scan, HookRecord, Scanned, Snapshot
  <2> HIDE DEF h
  <2> QED
    BY <1>3, <2>2, <2>3, <2>5, <2>6, HookTypes
    DEF ScanPath, Typed, TypeOK, files, manifest, bounds
<1>4. CASE ScanFails(s)
  <2>1. faults' \in 0 .. MaxFaults
    BY <1>4, ProvenanceAssumption DEF ScanFails, Typed, TypeOK
  <2>2. hook' = [hook EXCEPT ![s] = Observed(s, FALSE)]
    BY <1>4 DEF ScanFails
  <2> QED
    BY <1>4, <2>1, <2>2, ObservedHook, HookTypes
    DEF ScanFails, Typed, TypeOK, files, manifest
<1>5. CASE CommitLost(s)
  <2>1. CASE hook[s].tries < 2
    <3> DEFINE h == [hook[s] EXCEPT !.pc = "view"]
    <3>1. hook' = [hook EXCEPT ![s] = h]
      BY <1>5, <1>a, <2>1 DEF CommitLost, Typed, TypeOK
    <3>2. h \in HookRecord /\ h.pc = "view" /\ h.tries < 2
      BY <1>a, <2>1 DEF HookRecord, Label
    <3> HIDE DEF h
    <3> QED
      BY <1>5, <1>b, <3>1, <3>2, HookTypes
      DEF CommitLost, Typed, TypeOK, files, bounds
  <2>2. CASE ~(hook[s].tries < 2)
    <3>1. hook' = [hook EXCEPT ![s] = Observed(s, FALSE)]
      BY <1>5, <2>2 DEF CommitLost
    <3> QED
      BY <1>5, <1>b, <3>1, ObservedHook, HookTypes
      DEF CommitLost, Typed, TypeOK, files, bounds
  <2> QED
    BY <2>1, <2>2
<1> QED
  BY <1>1, <1>2, <1>3, <1>4, <1>5

LEMMA CommitTypes ==
  ASSUME Typed, NEW s \in Slots, Commit(s) \/ CommitCut(s)
  PROVE  Typed'
<1>a. Me(s) \in Agents /\ hook[s] \in HookRecord
  BY ProvenanceAssumption DEF Me, Typed, TypeOK
<1>b. RTurn \in [Agents -> TurnRecord] /\ RGen \in Nat
  BY RecoverType DEF Typed
<1>c. hook[s].scan \in Snapshot /\ hook[s].id \in 0 .. MaxTurns
      /\ cur \in Snapshot
  BY <1>a DEF Commit, CommitCut, At, ScannedInv, HookRecord, Typed, TypeOK
<1>d. Authors(s, hook[s].scan)
        \in [Paths -> {None} \cup (Agents \X (0 .. MaxTurns))]
  BY <1>a, <1>c DEF Authors, Typed, TypeOK
<1>1. CASE Commit(s)
  <2>1. turn' \in [Agents -> TurnRecord]
    BY <1>1, <1>a, <1>b, <1>c, AppliedType DEF Commit
  <2>2. gen' \in Nat /\ cur' \in Snapshot
    BY <1>1, <1>b, <1>c DEF Commit
  <2> DEFINE o == Observed(s, TRUE)
             h == IF hook[s].op = "restart" THEN Idle
                  ELSE [o EXCEPT !.gen = gen', !.cur = cur']
  <2>3. hook' = [hook EXCEPT ![s] = h]
    BY <1>1 DEF Commit
  <2>4. o \in HookRecord /\ o.pc \notin {"view", "scan", "commit"} /\ o.tries = 0
    BY ObservedHook
  <2>5. Idle.pc = "free" /\ Idle.tries = 0
    BY DEF Idle
  <2> HIDE DEF o
  <2>6. [o EXCEPT !.gen = gen', !.cur = cur'] \in HookRecord
    BY <2>2, <2>4 DEF HookRecord
  <2>7. /\ h \in HookRecord
        /\ h.pc \notin {"view", "scan", "commit"} /\ h.tries = 0
    BY <2>4, <2>5, <2>6, IdleType DEF HookRecord
  <2> HIDE DEF h
  <2>8. hook' \in [Slots -> HookRecord] /\ TriesInv' /\ ScannedInv'
    BY <2>3, <2>7, HookTypes
  <2> QED
    BY <1>1, <1>d, <2>1, <2>2, <2>8
    DEF Commit, Typed, TypeOK, files, bounds
<1>2. CASE CommitCut(s)
  <2>1. pend' \in Transition
    BY <1>2, <1>a, <1>b, <1>c DEF CommitCut, Transition
  <2>2. cur' \in Snapshot
        /\ author' \in [Paths -> {None} \cup (Agents \X (0 .. MaxTurns))]
    BY <1>2, <1>c, <1>d DEF CommitCut, Typed, TypeOK
  <2>3. Unstored(s) \in HookRecord
        /\ Unstored(s).pc = Observed(s, FALSE).pc
        /\ Unstored(s).tries = Observed(s, FALSE).tries
    BY ObservedType, ObservedHook DEF Unstored, HookRecord, Typed
  <2>4. PICK h \in {Idle, Unstored(s)} : hook' = [hook EXCEPT ![s] = h]
    BY <1>2 DEF CommitCut, End
  <2>5. Idle.pc = "free" /\ Idle.tries = 0
    BY DEF Idle
  <2>6. hook' \in [Slots -> HookRecord] /\ TriesInv' /\ ScannedInv'
    BY <2>3, <2>4, <2>5, IdleType, ObservedHook, HookTypes
  <2>7. faults' \in 0 .. MaxFaults
    BY <1>2, ProvenanceAssumption DEF CommitCut, Typed, TypeOK
  <2> QED
    BY <1>2, <1>b, <2>1, <2>2, <2>6, <2>7
    DEF CommitCut, Typed, TypeOK, files
<1> QED
  BY <1>1, <1>2

\* A step that gives one agent a new turn record.
LEMMA TurnTypes ==
  ASSUME TypeOK, NEW a \in Agents, NEW t \in TurnRecord,
         turn' = [turn EXCEPT ![a] = t]
  PROVE  turn' \in [Agents -> TurnRecord]
  BY DEF TypeOK

LEMMA PromptTypes ==
  ASSUME Typed, NEW s \in Slots, SaveBaseline(s) \/ Prompt(s)
  PROVE  Typed'
<1>a. Me(s) \in Agents /\ hook[s] \in HookRecord
  BY ProvenanceAssumption DEF Me, Typed, TypeOK
<1>b. RTurn \in [Agents -> TurnRecord] /\ RGen \in Nat
  BY RecoverType DEF Typed
<1>1. CASE SaveBaseline(s)
  <2> DEFINE mine == base[Me(s)].id = hook[s].id
             fits == RGen = hook[s].gen /\ Same(cur, hook[s].cur)
             ok == mine \/ fits
             h == [hook[s] EXCEPT !.pc = "prompt", !.ok = ok]
  <2>1. hook' = [hook EXCEPT ![s] = h]
    BY <1>1, <1>a DEF SaveBaseline, Typed, TypeOK
  <2>2. ok \in BOOLEAN
    OBVIOUS
  <2>3. hook[s].tries = 0
    BY <1>1 DEF SaveBaseline, At, Typed, TriesInv
  <2>4. base' \in [Agents -> [id : 0 .. MaxTurns, snap : Snapshot]]
    <3>1. [id |-> hook[s].id, snap |-> cur] \in [id : 0 .. MaxTurns, snap : Snapshot]
      BY <1>a DEF HookRecord, Typed, TypeOK
    <3> QED
      BY <1>1, <1>a, <3>1 DEF SaveBaseline, Typed, TypeOK
  <2> HIDE DEF ok
  <2>5. h \in HookRecord
    BY <1>a, <2>2 DEF HookRecord, Label
  <2>6. h.pc = "prompt" /\ h.tries = 0
    BY <1>a, <2>3 DEF HookRecord
  <2> HIDE DEF h
  <2>7. hook' \in [Slots -> HookRecord] /\ TriesInv' /\ ScannedInv'
    BY <2>1, <2>5, <2>6, HookTypes
  <2> QED
    BY <1>1, <1>b, <2>4, <2>7 DEF SaveBaseline, Typed, TypeOK, files, bounds
<1>2. CASE Prompt(s)
  <2> DEFINE st == IF hook[s].ok THEN "ready" ELSE "missing"
             t == [NoTurn EXCEPT !.id = hook[s].id, !.bl = hook[s].ok,
                                 !.st = st, !.inc = ~hook[s].ok]
  <2>1. hook[s].id \in 0 .. MaxTurns /\ hook[s].ok \in BOOLEAN
    BY <1>a DEF HookRecord
  <2>2. st \in {"none", "missing", "ready", "degraded"}
    OBVIOUS
  <2>3. turn' = [turn EXCEPT ![Me(s)] = t]
    BY <1>2 DEF Prompt
  <2> HIDE DEF st
  <2>4. t \in TurnRecord
    BY <2>1, <2>2, NoTurnType DEF TurnRecord
  <2> HIDE DEF t
  <2>5. turn' \in [Agents -> TurnRecord]
    BY <1>a, <2>3, <2>4, TurnTypes DEF Typed
  <2>6. closed' \in [Agents -> 0 .. MaxTurns]
    BY <1>2, <1>a DEF Prompt, Typed, TypeOK, TurnRecord
  <2>7. Idle.pc = "free" /\ Idle.tries = 0
    BY DEF Idle
  <2>8. hook' \in [Slots -> HookRecord] /\ TriesInv' /\ ScannedInv'
    BY <1>2, <2>7, IdleType, HookTypes DEF Prompt, End
  <2> QED
    BY <1>2, <2>5, <2>6, <2>8
    DEF Prompt, Typed, TypeOK, files, manifest, bounds
<1> QED
  BY <1>1, <1>2

LEMMA StatusTypes ==
  ASSUME Typed, NEW s \in Slots, Status(s)
  PROVE  Typed'
<1>a. Me(s) \in Agents /\ hook[s] \in HookRecord /\ Mine(s) \in TurnRecord
  BY ProvenanceAssumption DEF Me, Mine, Typed, TypeOK
<1> DEFINE t == IF Late(s) THEN Revise(Mine(s), hook[s].cur, hook[s].scan)
                ELSE Mine(s)
           inc == ~hook[s].ok \/ t.st = "degraded"
           cap == t.cap \/ hook[s].op # "stop"
           u == [t EXCEPT !.inc = inc, !.cap = cap]
<1>1. t \in TurnRecord
  <2>1. CASE Late(s)
    <3>1. hook[s].cur \in Snapshot /\ hook[s].scan \in Snapshot
      BY <1>a, <2>1 DEF Late, HookRecord, Scanned, Snapshot
    <3> QED
      BY <1>a, <2>1, <3>1, ReviseType
  <2> QED
    BY <1>a, <2>1
<1>2. u \in TurnRecord
  <2>1. inc \in BOOLEAN /\ cap \in BOOLEAN
    BY <1>1 DEF TurnRecord
  <2> HIDE DEF t, inc, cap
  <2> QED
    BY <1>1, <2>1 DEF TurnRecord
<1>3. turn' \in [Agents -> TurnRecord]
  <2>1. CASE Current(s)
    <3>1. turn' = [turn EXCEPT ![Me(s)] = u]
      BY <2>1, Zenon DEF Status
    <3> HIDE DEF u
    <3> QED
      BY <1>a, <1>2, <3>1, TurnTypes DEF Typed
  <2>2. CASE ~Current(s)
    BY <2>2 DEF Status, Typed, TypeOK
  <2> QED
    BY <2>1, <2>2
<1>4. hook' \in [Slots -> HookRecord] /\ TriesInv' /\ ScannedInv'
  <2> DEFINE none == Idle.scan
             dec == [hook[s] EXCEPT !.pc = "decide", !.scan = none]
             ver == [hook[s] EXCEPT !.pc = "verify", !.scan = none]
  <2>1. PICK h \in {dec, ver, Idle} : hook' = [hook EXCEPT ![s] = h]
    BY Zenon DEF Status
  <2>2. none \in Scanned
    BY DEF Idle, Scanned
  <2>3. hook[s].tries = 0
    BY DEF Status, At, Typed, TriesInv
  <2> HIDE DEF none
  <2>4. dec \in HookRecord /\ dec.pc = "decide" /\ dec.tries = hook[s].tries
    BY <1>a, <2>2 DEF HookRecord, Label
  <2>5. ver \in HookRecord /\ ver.pc = "verify" /\ ver.tries = hook[s].tries
    BY <1>a, <2>2 DEF HookRecord, Label
  <2>6. Idle.pc = "free" /\ Idle.tries = 0
    BY DEF Idle
  <2> HIDE DEF dec, ver
  <2> QED
    BY <2>1, <2>3, <2>4, <2>5, <2>6, IdleType, HookTypes
<1>5. gen' \in Nat
  BY DEF Status, Typed, TypeOK
<1> QED
  BY <1>3, <1>4, <1>5 DEF Status, Typed, TypeOK, files, bounds

LEMMA DecideTypes ==
  ASSUME Typed, NEW s \in Slots, Verify(s) \/ Decide(s)
  PROVE  Typed'
<1>a. Me(s) \in Agents /\ hook[s] \in HookRecord /\ Mine(s) \in TurnRecord
  BY ProvenanceAssumption DEF Me, Mine, Typed, TypeOK
<1>b. Idle.pc = "free" /\ Idle.tries = 0
  BY DEF Idle
<1>1. CASE Verify(s)
  <2> DEFINE stored == Mine(s).inv[s]
             covers == IF stored # None THEN stored ELSE Mine(s).rev
             r == [cov |-> covers, from |-> hook[s].from]
             t == [Mine(s) EXCEPT !.results = @ \cup {r}]
  <2>1. covers \in Snapshot /\ hook[s].from \in Snapshot
    BY <1>a DEF TurnRecord, HookRecord
  <2> HIDE DEF covers
  <2>2. r \in [cov : Snapshot, from : Snapshot]
    BY <2>1
  <2> HIDE DEF r
  <2>3. t \in TurnRecord
    BY <1>a, <2>2 DEF TurnRecord
  <2>4. turn' = [turn EXCEPT ![Me(s)] = t] \/ turn' = turn
    BY <1>1 DEF Verify, covers, r, Mine
  <2> HIDE DEF t
  <2>5. turn' \in [Agents -> TurnRecord]
    BY <1>a, <2>3, <2>4, TurnTypes DEF Typed, TypeOK
  <2>6. hook' \in [Slots -> HookRecord] /\ TriesInv' /\ ScannedInv'
    BY <1>1, <1>b, IdleType, HookTypes DEF Verify, End
  <2> QED
    BY <1>1, <2>5, <2>6 DEF Verify, Typed, TypeOK, files, manifest, bounds
<1>2. CASE Decide(s)
  <2> DEFINE n == Mine(s).blocks + 1
             t == [Mine(s) EXCEPT !.blocks = n]
             h == [Idle EXCEPT !.pc = "view", !.op = "restart",
                               !.id = Mine(s).id]
  <2>1. h \in HookRecord /\ h.pc = "view" /\ h.tries < 2
    <3> DEFINE id == Mine(s).id
    <3>1. id \in 0 .. MaxTurns
      BY <1>a DEF TurnRecord
    <3> HIDE DEF id
    <3>2. [Idle EXCEPT !.pc = "view", !.op = "restart", !.id = id]
            \in HookRecord
      BY <3>1, IdleType DEF HookRecord, Label, Op
    <3>3. h.pc = "view" /\ h.tries = 0
      BY DEF Idle
    <3> QED
      BY <3>2, <3>3 DEF id
  <2>2. CASE ~Current(s)
    <3>1. hook' \in [Slots -> HookRecord] /\ TriesInv' /\ ScannedInv'
      BY <1>2, <1>b, <2>2, IdleType, HookTypes DEF Decide, End
    <3> QED
      BY <1>2, <2>2, <3>1 DEF Decide, Typed, TypeOK, files, manifest, bounds
  <2>3. CASE /\ turn' = [turn EXCEPT ![Me(s)] = NoTurn]
             /\ closed' = [closed EXCEPT ![Me(s)] = Mine(s).id]
             /\ End(s)
    <3>1. hook' \in [Slots -> HookRecord] /\ TriesInv' /\ ScannedInv'
      BY <1>b, <2>3, IdleType, HookTypes DEF End
    <3>2. closed' \in [Agents -> 0 .. MaxTurns]
      BY <1>a, <2>3 DEF TurnRecord, Typed, TypeOK
    <3>3. turn' \in [Agents -> TurnRecord]
      BY <1>a, <2>3, NoTurnType, TurnTypes DEF Typed
    <3> QED
      BY <1>2, <3>1, <3>2, <3>3
      DEF Decide, Typed, TypeOK, files, manifest, bounds
  <2>4. CASE /\ Mine(s).blocks < MaxBlocks
             /\ turn' = [turn EXCEPT ![Me(s)].blocks = @ + 1]
             /\ hook' = [hook EXCEPT ![s] = h]
             /\ UNCHANGED closed
    <3>1. n \in 0 .. MaxBlocks
      BY ProvenanceAssumption, <1>a, <2>4 DEF TurnRecord
    <3>2. turn' = [turn EXCEPT ![Me(s)] = t]
      BY <1>a, <2>4 DEF Mine, Typed, TypeOK
    <3> HIDE DEF n
    <3>3. t \in TurnRecord
      BY <1>a, <3>1 DEF TurnRecord
    <3> HIDE DEF t
    <3>4. turn' \in [Agents -> TurnRecord]
      BY <1>a, <3>2, <3>3, TurnTypes DEF Typed
    <3>5. hook' = [hook EXCEPT ![s] = h]
      BY <2>4
    <3> HIDE DEF h
    <3>6. hook' \in [Slots -> HookRecord] /\ TriesInv' /\ ScannedInv'
      BY <2>1, <3>5, HookTypes
    <3> QED
      BY <1>2, <2>4, <3>4, <3>6
      DEF Decide, Typed, TypeOK, files, manifest, bounds
  <2> QED
    BY <1>2, <2>2, <2>3, <2>4 DEF Decide
<1> QED
  BY <1>1, <1>2

LEMMA WriteTypes ==
  ASSUME Typed, NEW p \in Paths, Write(p)
  PROVE  Typed'
<1>1. disk[p] + 1 \in Stamp
  BY ProvenanceAssumption DEF Write, Typed, TypeOK, Snapshot, Stamp
<1>2. disk' \in Snapshot /\ loud' \in Snapshot
  BY <1>1 DEF Write, Typed, TypeOK, Snapshot
<1>3. TriesInv' /\ ScannedInv'
  BY DEF Write, Typed, TriesInv, ScannedInv, At
<1> QED
  BY <1>2, <1>3 DEF Write, Typed, TypeOK, manifest, bounds

LEMMA NextTypes == Typed /\ [Next]_vars => Typed'
<1> SUFFICES ASSUME Typed, [Next]_vars PROVE Typed'
  OBVIOUS
<1>1. CASE UNCHANGED vars
  BY <1>1 DEF vars, Typed, TypeOK, TriesInv, ScannedInv, At
<1>2. ASSUME NEW p \in Paths, Write(p) PROVE Typed'
  BY <1>2, WriteTypes
<1>3. ASSUME NEW s \in Slots, Step(s) PROVE Typed'
  BY <1>3, BeginTypes, ToolTypes, ObserveTypes, CommitTypes, PromptTypes,
     StatusTypes, DecideTypes DEF Step
<1> QED
  BY <1>1, <1>2, <1>3 DEF Next

\* The types of ProvenanceGate, for all agents, calls, files and bounds.
THEOREM GateTypes == Spec => []TypeOK
<1>1. Typed => TypeOK
  BY DEF Typed
<1> QED
  BY <1>1, InitTypes, NextTypes, PTL DEF Spec

-----------------------------------------------------------------------------
(* The write-ahead log.                                                    *)

\* Only a commit that stops half way leaves a transition, and it leaves the
\* manifest before or after it; whoever moves the manifest settles it first.
THEOREM ManifestIsResolvable == Spec => []PendingResolvable
<1>1. Init => PendingResolvable
  BY DEF Init, PendingResolvable
<1>2. PendingResolvable /\ [Next]_vars => PendingResolvable'
  <2> SUFFICES ASSUME PendingResolvable, [Next]_vars PROVE PendingResolvable'
    OBVIOUS
  <2>1. CASE UNCHANGED <<pend, cur>>
    BY <2>1 DEF PendingResolvable, Same
  <2>2. CASE pend' = None
    BY <2>2 DEF PendingResolvable
  <2>3. ASSUME NEW s \in Slots, CommitCut(s) PROVE PendingResolvable'
    <3>1. /\ pend'.before = cur /\ pend'.after = hook[s].scan
          /\ cur' = cur \/ cur' = hook[s].scan
      BY <2>3 DEF CommitCut
    <3> QED
      BY <3>1 DEF PendingResolvable, Same
  <2>4. ASSUME NEW s \in Slots, Step(s) PROVE PendingResolvable'
    <3>1. CASE \/ BeginStart(s) \/ Capture(s) \/ PreFails(s) \/ ToolEnds(s)
               \/ BeginStop(s) \/ Resume(s) \/ (\E p \in Paths : ScanPath(s, p))
               \/ ScanFails(s) \/ Prompt(s) \/ Status(s) \/ Verify(s)
               \/ Decide(s) \/ HookDies(s)
      BY <2>1, <3>1
      DEF BeginStart, Capture, PreFails, ToolEnds, BeginStop, Resume, ScanPath,
          ScanFails, Prompt, Status, Verify, Decide, HookDies, manifest
    <3>2. CASE \/ BeginTool(s) \/ Invoke(s) \/ View(s) \/ Commit(s)
               \/ CommitLost(s) \/ SaveBaseline(s)
      BY <2>2, <3>2
      DEF BeginTool, Invoke, View, Commit, CommitLost, SaveBaseline
    <3> QED
      BY <2>3, <2>4, <3>1, <3>2 DEF Step
  <2>5. ASSUME NEW p \in Paths, Write(p) PROVE PendingResolvable'
    BY <2>1, <2>5 DEF Write, manifest
  <2>6. CASE UNCHANGED vars
    BY <2>1, <2>6 DEF vars
  <2> QED
    BY <2>4, <2>5, <2>6 DEF Next
<1> QED
  BY <1>1, <1>2, PTL DEF Spec

-----------------------------------------------------------------------------
(* The manifest moves forward.                                             *)

\* The next recovery does not make the generation smaller.
PendInv == pend # None => pend.gen >= gen /\ pend.gen >= 1

\* What a hook between View and its commit knows.
FreshInv ==
  \A s \in Slots : hook[s].pc \in {"scan", "commit"} =>
    /\ hook[s].gen <= RGen
    /\ hook[s].gen = RGen => hook[s].cur = cur
    /\ \A p \in Paths :
         /\ hook[s].cur[p] <= disk[p]
         /\ hook[s].scan[p] # None \/ At(s, "commit") =>
              hook[s].cur[p] <= hook[s].scan[p] /\ hook[s].scan[p] <= disk[p]

ObservedBefore == \A p \in Paths : cur[p] <= disk[p]

IInv == Typed /\ PendInv /\ FreshInv /\ ObservedBefore

LEMMA InitIInv == Init => IInv
<1> SUFFICES ASSUME Init PROVE IInv
  OBVIOUS
<1>1. FreshInv /\ PendInv
  BY DEF Init, FreshInv, PendInv, Idle
<1>2. ObservedBefore
  BY DEF Init, ObservedBefore, Zero
<1> QED
  BY <1>1, <1>2, InitTypes DEF IInv

\* What a step does to the manifest, as the next recovery will see it: the
\* snapshot changes only with the generation, and to a scan of a hook that
\* found the generation and the snapshot it had loaded.
Settled ==
  /\ RGen <= RGen'
  /\ PendInv'
  /\ \/ UNCHANGED cur
     \/ /\ RGen < RGen'
        /\ \E s \in Slots : At(s, "commit") /\ Unmoved(s) /\ cur' = hook[s].scan

LEMMA SettledStep ==
  ASSUME Typed, PendInv, [Next]_vars
  PROVE  Settled
<1>a. RGen \in Nat /\ gen \in Nat /\ gen <= RGen
  BY RecoverType DEF RGen, Reached, PendInv, Typed, TypeOK, Transition
<1>1. CASE UNCHANGED <<pend, cur, gen>>
  BY <1>1, <1>a DEF Settled, PendInv, RGen, Reached, Same
<1>2. CASE pend' = None /\ gen' = RGen /\ UNCHANGED cur
  BY <1>2, <1>a DEF Settled, PendInv, RGen, Reached
<1>3. ASSUME NEW s \in Slots, Commit(s) PROVE Settled
  <2>1. /\ pend' = None /\ At(s, "commit") /\ Unmoved(s)
        /\ \/ gen' = RGen /\ UNCHANGED cur
           \/ gen' = RGen + 1 /\ cur' = hook[s].scan
    BY <1>3 DEF Commit
  <2> QED
    BY <1>a, <2>1 DEF Settled, PendInv, RGen, Reached
<1>4. ASSUME NEW s \in Slots, CommitCut(s) PROVE Settled
  <2>0. pend' # None
    <3>1. Me(s) \in Agents /\ hook[s].id \in 0 .. MaxTurns /\ cur \in Snapshot
          /\ hook[s].scan \in Snapshot
      BY <1>4, ProvenanceAssumption
      DEF Me, CommitCut, At, Typed, TypeOK, HookRecord, ScannedInv
    <3> QED
      BY <1>4, <1>a, <3>1, NoneAssumption DEF CommitCut, Transition
  <2>1. /\ At(s, "commit") /\ Unmoved(s) /\ gen' = RGen
        /\ pend'.gen = RGen + 1 /\ pend'.after = hook[s].scan
        /\ cur' = cur \/ cur' = hook[s].scan
    BY <1>4 DEF CommitCut
  <2>2. PendInv'
    BY <1>a, <2>1 DEF PendInv
  <2>3. RGen' \in {RGen, RGen + 1}
    BY <2>1 DEF RGen
  <2>4. CASE cur' = cur
    BY <1>a, <2>2, <2>3, <2>4 DEF Settled
  <2>5. CASE cur' = hook[s].scan
    <3>1. Reached'
      BY <2>0, <2>1, <2>5 DEF Reached, Same
    <3>2. RGen' = RGen + 1
      BY <2>1, <3>1 DEF RGen
    <3> QED
      BY <1>a, <2>1, <2>2, <2>5, <3>2 DEF Settled
  <2> QED
    BY <2>1, <2>4, <2>5
<1>5. ASSUME NEW s \in Slots, Status(s) PROVE Settled
  <2>1. UNCHANGED <<pend, cur>> /\ (gen' = gen \/ (gen <= 1 /\ gen' = 1))
    BY <1>5 DEF Status, Late
  <2>2. Reached' = Reached
    BY <2>1 DEF Reached, Same
  <2>3. pend # None => pend.gen \in Nat
    BY DEF Typed, TypeOK, Transition
  <2>4. PendInv'
    BY <1>a, <2>1, <2>3 DEF PendInv
  <2>5. RGen <= RGen'
    <3>1. CASE Reached
      BY <1>a, <2>1, <2>2, <3>1 DEF RGen
    <3>2. CASE ~Reached
      BY <1>a, <2>1, <2>2, <3>2 DEF RGen
    <3> QED
      BY <3>1, <3>2
  <2> QED
    BY <2>1, <2>4, <2>5 DEF Settled
<1>6. ASSUME NEW s \in Slots, Step(s) PROVE Settled
  <2>1. CASE \/ BeginStart(s) \/ Capture(s) \/ PreFails(s) \/ ToolEnds(s)
             \/ BeginStop(s) \/ Resume(s) \/ (\E p \in Paths : ScanPath(s, p))
             \/ ScanFails(s) \/ Prompt(s) \/ Verify(s) \/ Decide(s)
             \/ HookDies(s)
    BY <1>1, <2>1
    DEF BeginStart, Capture, PreFails, ToolEnds, BeginStop, Resume, ScanPath,
        ScanFails, Prompt, Verify, Decide, HookDies, manifest
  <2>2. CASE \/ BeginTool(s) \/ Invoke(s) \/ View(s) \/ CommitLost(s)
             \/ SaveBaseline(s)
    BY <1>2, <2>2 DEF BeginTool, Invoke, View, CommitLost, SaveBaseline
  <2> QED
    BY <1>3, <1>4, <1>5, <1>6, <2>1, <2>2 DEF Step
<1>7. ASSUME NEW p \in Paths, Write(p) PROVE Settled
  BY <1>1, <1>7 DEF Write, manifest
<1>8. CASE UNCHANGED vars
  BY <1>1, <1>8 DEF vars
<1> QED
  BY <1>6, <1>7, <1>8 DEF Next

\* The snapshot a commit writes is no older than the one it replaces, and no
\* newer than the disk.
LEMMA CommitMovesForward ==
  ASSUME IInv, [Next]_vars
  PROVE  \A p \in Paths : cur[p] <= cur'[p] /\ cur'[p] <= disk[p]
<1>1. Settled
  BY SettledStep DEF IInv
<1>2. cur \in [Paths -> Nat] /\ disk \in [Paths -> Nat]
  BY ProvenanceAssumption DEF IInv, Typed, TypeOK, Snapshot, Stamp
<1>3. CASE UNCHANGED cur
  BY <1>2, <1>3 DEF IInv, ObservedBefore
<1>4. ASSUME NEW s \in Slots, At(s, "commit"), Unmoved(s), cur' = hook[s].scan
      PROVE  \A p \in Paths : cur[p] <= cur'[p] /\ cur'[p] <= disk[p]
  <2>1. hook[s].cur = cur
    BY <1>4 DEF IInv, FreshInv, Unmoved, At
  <2> QED
    BY <1>4, <2>1 DEF IInv, FreshInv, At
<1> QED
  BY <1>1, <1>3, <1>4 DEF Settled

\* A hook whose record does not change still knows what it knew.
LEMMA KnowsStill ==
  ASSUME IInv, [Next]_vars, NEW s \in Slots, hook'[s] = hook[s],
         \A p \in Paths : disk[p] <= disk'[p],
         hook[s].pc \in {"scan", "commit"}
  PROVE  /\ hook[s].gen <= RGen'
         /\ hook[s].gen = RGen' => hook[s].cur = cur'
         /\ \A p \in Paths :
              /\ hook[s].cur[p] <= disk'[p]
              /\ hook[s].scan[p] # None \/ At(s, "commit") =>
                   hook[s].cur[p] <= hook[s].scan[p] /\ hook[s].scan[p] <= disk'[p]
<1>a. /\ RGen \in Nat /\ hook[s].gen \in Nat /\ Typed'
      /\ hook[s].cur \in Snapshot /\ disk \in Snapshot /\ disk' \in Snapshot
      /\ hook[s].scan \in [Paths -> Stamp \cup {None}]
      /\ At(s, "commit") => hook[s].scan \in Snapshot
  BY RecoverType, NextTypes
  DEF IInv, Typed, TypeOK, HookRecord, Scanned, ScannedInv
<1>b. RGen' \in Nat
  BY <1>a DEF RGen, Reached, Typed, TypeOK, Transition
<1>1. Settled
  BY SettledStep DEF IInv
<1>2. hook[s].gen <= RGen'
  BY <1>1, <1>a, <1>b DEF Settled, IInv, FreshInv
<1>3. ASSUME hook[s].gen = RGen' PROVE hook[s].cur = cur'
  <2>1. hook[s].gen = RGen /\ ~(RGen < RGen')
    BY <1>1, <1>3, <1>a, <1>b DEF Settled, IInv, FreshInv
  <2> QED
    BY <1>1, <2>1 DEF Settled, IInv, FreshInv
<1>4. ASSUME NEW p \in Paths
      PROVE  /\ hook[s].cur[p] <= disk'[p]
             /\ hook[s].scan[p] # None \/ At(s, "commit") =>
                  hook[s].cur[p] <= hook[s].scan[p] /\ hook[s].scan[p] <= disk'[p]
  <2>1. hook[s].cur[p] \in Nat /\ disk[p] \in Nat /\ disk'[p] \in Nat
        /\ disk[p] <= disk'[p]
    BY <1>a, ProvenanceAssumption DEF Snapshot, Stamp
  <2>2. hook[s].scan[p] # None \/ At(s, "commit") => hook[s].scan[p] \in Nat
    BY <1>a, ProvenanceAssumption DEF Snapshot, Stamp
  <2> QED
    BY <2>1, <2>2 DEF IInv, FreshInv
<1> QED
  BY <1>2, <1>3, <1>4

LEMMA DiskGrows ==
  ASSUME Typed, [Next]_vars
  PROVE  \A p \in Paths : disk[p] <= disk'[p]
<1>1. disk \in [Paths -> Nat]
  BY ProvenanceAssumption DEF Typed, TypeOK, Snapshot, Stamp
<1>2. CASE UNCHANGED disk
  BY <1>1, <1>2
<1>3. ASSUME NEW p \in Paths, Write(p) PROVE \A q \in Paths : disk[q] <= disk'[q]
  BY <1>1, <1>3 DEF Write
<1>4. ASSUME NEW s \in Slots, Step(s) PROVE UNCHANGED disk
  BY <1>4 DEF Step, BeginStart, BeginTool, Capture, Invoke, PreFails, ToolEnds,
     BeginStop, Resume, View, ScanPath, ScanFails, Commit, CommitLost, CommitCut,
     SaveBaseline, Prompt, Status, Verify, Decide, HookDies, files
<1>5. CASE UNCHANGED vars
  BY <1>2, <1>5 DEF vars
<1> QED
  BY <1>2, <1>3, <1>4, <1>5 DEF Next

\* Hooks come to the scan by View and to the commit by ScanPath alone.
LEMMA ComesFrom ==
  ASSUME Typed, [Next]_vars, NEW s \in Slots,
         hook'[s].pc \in {"scan", "commit"}, hook'[s] # hook[s]
  PROVE  View(s) \/ \E p \in Paths : ScanPath(s, p)
<1>1. PICK r \in Slots : Step(r)
  BY DEF Next, vars, Write
<1>2. PICK h : hook' = [hook EXCEPT ![r] = h]
  BY <1>1 DEF Step, BeginStart, BeginTool, Capture, Invoke, PreFails, ToolEnds,
     BeginStop, Resume, View, ScanPath, ScanFails, Commit, CommitLost, CommitCut,
     SaveBaseline, Prompt, Status, Verify, Decide, HookDies, Goto, End
<1>3. r = s
  BY <1>2 DEF Typed, TypeOK
<1>a. hook \in [Slots -> HookRecord] /\ hook[s] \in HookRecord
  BY DEF Typed, TypeOK
<1>b. Idle.pc = "free" /\ Idle \in HookRecord
  BY IdleType DEF Idle
<1>c. \A ok \in BOOLEAN : Observed(s, ok) \in HookRecord
                         /\ Observed(s, ok).pc \notin {"scan", "commit"}
  BY ObservedHook
<1>4. CASE \/ BeginStart(s) \/ BeginStop(s) \/ Capture(s) \/ Invoke(s)
           \/ PreFails(s) \/ ToolEnds(s) \/ Resume(s) \/ SaveBaseline(s)
  <2>1. CASE BeginStart(s) \/ BeginStop(s)
    <3>1. hook'[s].pc \in {"view", "resume"}
      BY <1>a, <2>1 DEF BeginStart, BeginStop, Idle
    <3> QED
      BY <3>1
  <2>2. CASE Capture(s) \/ Invoke(s)
    BY <1>a, <2>2 DEF Capture, Invoke, HookRecord
  <2>3. CASE PreFails(s) \/ ToolEnds(s)
    BY <1>a, <2>3 DEF PreFails, ToolEnds, Goto, HookRecord
  <2>4. CASE Resume(s)
    BY <1>a, <2>4 DEF Resume, HookRecord
  <2>5. CASE SaveBaseline(s)
    BY <1>a, <2>5 DEF SaveBaseline, HookRecord
  <2> QED
    BY <1>4, <2>1, <2>2, <2>3, <2>4, <2>5
<1>5. CASE BeginTool(s)
  <2>1. hook'[s].pc \in {"tool", "capture", "invoke"}
    BY <1>5, <1>a, <1>b DEF BeginTool, HookRecord
  <2> QED
    BY <2>1
<1>6. CASE ScanFails(s) \/ CommitLost(s)
  <2>1. hook' = [hook EXCEPT ![s] = Observed(s, FALSE)]
        \/ hook' = [hook EXCEPT ![s] = [hook[s] EXCEPT !.pc = "view"]]
    BY <1>6, <1>a DEF ScanFails, CommitLost
  <2>2. [hook[s] EXCEPT !.pc = "view"].pc = "view"
    BY <1>a DEF HookRecord
  <2> QED
    BY <1>a, <1>c, <2>1, <2>2
<1>7. CASE Commit(s)
  <2> DEFINE done == [Observed(s, TRUE) EXCEPT !.gen = gen', !.cur = cur']
  <2>1. hook' = [hook EXCEPT ![s] = Idle] \/ hook' = [hook EXCEPT ![s] = done]
    BY <1>7 DEF Commit
  <2>2. done.pc = Observed(s, TRUE).pc
    BY <1>c DEF HookRecord
  <2> HIDE DEF done
  <2> QED
    BY <1>a, <1>b, <1>c, <2>1, <2>2
<1>8. CASE CommitCut(s)
  <2>1. hook' = [hook EXCEPT ![s] = Idle]
        \/ hook' = [hook EXCEPT ![s] = Unstored(s)]
    BY <1>8 DEF CommitCut, End
  <2>2. Unstored(s).pc = Observed(s, FALSE).pc
    BY <1>c DEF Unstored, HookRecord
  <2> QED
    BY <1>a, <1>b, <1>c, <2>1, <2>2
<1>9. CASE Prompt(s) \/ Verify(s)
  BY <1>9, <1>a, <1>b DEF Prompt, Verify, End
<1>10. CASE Status(s)
  <2> DEFINE dec == [hook[s] EXCEPT !.pc = "decide", !.scan = Idle.scan]
             ver == [hook[s] EXCEPT !.pc = "verify", !.scan = Idle.scan]
  <2>1. PICK g \in {dec, ver, Idle} : hook' = [hook EXCEPT ![s] = g]
    BY <1>10, Zenon DEF Status
  <2>2. dec.pc = "decide" /\ ver.pc = "verify"
    BY <1>a DEF HookRecord
  <2> HIDE DEF dec, ver
  <2> QED
    BY <1>a, <1>b, <2>1, <2>2
<1>11. CASE Decide(s)
  <2> DEFINE g == [Idle EXCEPT !.pc = "view", !.op = "restart",
                               !.id = Mine(s).id]
  <2>1. hook' = [hook EXCEPT ![s] = Idle] \/ hook' = [hook EXCEPT ![s] = g]
    BY <1>11 DEF Decide, End
  <2>2. g.pc = "view"
    BY <1>b DEF HookRecord
  <2> HIDE DEF g
  <2> QED
    BY <1>a, <1>b, <2>1, <2>2
<1>12. CASE HookDies(s)
  <2> DEFINE g == [hook[s] EXCEPT !.pc = "tool", !.cov = None, !.from = disk]
  <2>1. hook' = [hook EXCEPT ![s] = Idle] \/ hook' = [hook EXCEPT ![s] = g]
    BY <1>12, <1>a DEF HookDies
  <2>2. g.pc = "tool"
    BY <1>a DEF HookRecord
  <2> HIDE DEF g
  <2> QED
    BY <1>a, <1>b, <2>1, <2>2
<1> QED
  BY <1>1, <1>3, <1>4, <1>5, <1>6, <1>7, <1>8, <1>9, <1>10, <1>11, <1>12 DEF Step

LEMMA NextIInv == IInv /\ [Next]_vars => IInv'
<1> SUFFICES ASSUME IInv, [Next]_vars PROVE IInv'
  OBVIOUS
<1>1. Typed' /\ PendInv'
  BY NextTypes, SettledStep DEF IInv, Settled
<1>2. \A p \in Paths : disk[p] <= disk'[p]
  BY DiskGrows DEF IInv
<1>a. /\ cur \in [Paths -> Nat] /\ cur' \in [Paths -> Nat]
      /\ disk \in [Paths -> Nat] /\ disk' \in [Paths -> Nat]
  BY <1>1, ProvenanceAssumption DEF IInv, Typed, TypeOK, Snapshot, Stamp
<1>3. ObservedBefore'
  BY <1>2, <1>a, CommitMovesForward DEF ObservedBefore
<1>4. ASSUME NEW s \in Slots, View(s)
      PROVE  /\ hook'[s].gen = RGen' /\ hook'[s].cur = cur'
             /\ hook'[s].pc = "scan" /\ hook'[s].scan = Idle.scan
             /\ UNCHANGED disk
  <2>1. RGen' = RGen /\ UNCHANGED <<cur, disk>>
    BY <1>4 DEF View, RGen, Reached, files
  <2>2. hook[s] \in HookRecord
    BY DEF IInv, Typed, TypeOK
  <2> QED
    BY <1>4, <2>1, <2>2 DEF View, HookRecord, IInv, Typed, TypeOK
<1>5. ASSUME NEW s \in Slots, NEW p \in Paths, ScanPath(s, p)
      PROVE  /\ hook[s].pc = "scan" /\ UNCHANGED <<disk, cur>> /\ RGen' = RGen
             /\ hook'[s].gen = hook[s].gen /\ hook'[s].cur = hook[s].cur
             /\ hook'[s].scan[p] \in {disk[p], hook[s].cur[p]}
             /\ \A q \in Paths \ {p} :
                  /\ hook'[s].scan[q] = hook[s].scan[q]
                  /\ hook'[s].pc = "commit" => hook[s].scan[q] # None
  <2>1. PICK seen \in {disk[p], hook[s].cur[p]} :
          hook' = [hook EXCEPT ![s] =
             [@ EXCEPT !.scan[p] = seen,
                       !.pc = IF \A q \in Paths \ {p} : hook[s].scan[q] # None
                              THEN "commit" ELSE "scan"]]
    BY <1>5 DEF ScanPath
  <2>2. UNCHANGED <<disk, cur>> /\ RGen' = RGen /\ hook[s].pc = "scan"
    BY <1>5 DEF ScanPath, files, manifest, RGen, Reached, Same, At
  <2>3. hook[s] \in HookRecord /\ hook[s].scan \in [Paths -> Stamp \cup {None}]
    BY DEF IInv, Typed, TypeOK, HookRecord, Scanned
  <2> QED
    BY <2>1, <2>2, <2>3 DEF HookRecord, IInv, Typed, TypeOK
<1>6. ASSUME NEW s \in Slots, hook'[s].pc \in {"scan", "commit"}
      PROVE  /\ hook'[s].gen <= RGen'
             /\ hook'[s].gen = RGen' => hook'[s].cur = cur'
             /\ \A p \in Paths :
                  /\ hook'[s].cur[p] <= disk'[p]
                  /\ hook'[s].scan[p] # None \/ At(s, "commit")' =>
                       /\ hook'[s].cur[p] <= hook'[s].scan[p]
                       /\ hook'[s].scan[p] <= disk'[p]
  <2>1. CASE hook'[s] = hook[s]
    BY <1>2, <1>6, <2>1, KnowsStill DEF At
  <2>2. CASE View(s)
    <3>1. RGen' \in Nat
      BY <1>1 DEF RGen, Reached, Typed, TypeOK, Transition
    <3>2. \A p \in Paths : Idle.scan[p] = None
      BY DEF Idle
    <3>3. ~At(s, "commit")'
      BY <1>4, <2>2 DEF At
    <3> QED
      BY <1>3, <1>4, <2>2, <3>1, <3>2, <3>3 DEF ObservedBefore
  <2>3. ASSUME NEW p \in Paths, ScanPath(s, p)
        PROVE  /\ hook'[s].gen <= RGen'
               /\ hook'[s].gen = RGen' => hook'[s].cur = cur'
               /\ \A q \in Paths :
                    /\ hook'[s].cur[q] <= disk'[q]
                    /\ hook'[s].scan[q] # None \/ At(s, "commit")' =>
                         /\ hook'[s].cur[q] <= hook'[s].scan[q]
                         /\ hook'[s].scan[q] <= disk'[q]
    <3>0. \A q \in Paths \ {p} :
            /\ hook'[s].scan[q] = hook[s].scan[q]
            /\ hook'[s].pc = "commit" => hook[s].scan[q] # None
      BY <1>5, <2>3
    <3>1. hook[s].cur \in [Paths -> Nat]
      BY ProvenanceAssumption
      DEF IInv, Typed, TypeOK, HookRecord, Snapshot, Stamp
    <3>2. /\ hook[s].gen <= RGen
          /\ hook[s].gen = RGen => hook[s].cur = cur
          /\ \A q \in Paths :
               /\ hook[s].cur[q] <= disk[q]
               /\ hook[s].scan[q] # None =>
                    hook[s].cur[q] <= hook[s].scan[q] /\ hook[s].scan[q] <= disk[q]
      BY <1>5, <2>3 DEF IInv, FreshInv
    <3>3. ASSUME NEW q \in Paths, hook'[s].scan[q] # None \/ At(s, "commit")'
          PROVE  hook'[s].cur[q] <= hook'[s].scan[q] /\ hook'[s].scan[q] <= disk'[q]
      <4>1. CASE q = p
        <5>1. hook'[s].scan[q] \in {disk[q], hook[s].cur[q]}
              /\ hook'[s].cur = hook[s].cur /\ UNCHANGED disk
          BY <1>5, <2>3, <4>1
        <5>2. disk[q] \in Nat /\ hook[s].cur[q] \in Nat
              /\ hook[s].cur[q] <= disk[q]
          BY <1>a, <3>1, <3>2
        <5> QED
          BY <5>1, <5>2
      <4>2. CASE q # p
        <5>a. /\ hook'[s].scan[q] = hook[s].scan[q]
              /\ hook'[s].pc = "commit" => hook[s].scan[q] # None
          BY <3>0, <3>3, <4>2
        <5>1. hook'[s].scan[q] = hook[s].scan[q] /\ hook[s].scan[q] # None
          BY <3>3, <5>a DEF At
        <5>2. hook'[s].cur = hook[s].cur /\ UNCHANGED disk
          BY <1>5, <2>3
        <5> QED
          BY <3>2, <5>1, <5>2
      <4> QED
        BY <4>1, <4>2
    <3>4. /\ hook'[s].gen = hook[s].gen /\ hook'[s].cur = hook[s].cur
          /\ RGen' = RGen /\ UNCHANGED <<cur, disk>>
      BY <1>5, <2>3
    <3> QED
      BY <3>2, <3>3, <3>4
  <2> QED
    BY <1>6, <2>1, <2>2, <2>3, ComesFrom DEF IInv
<1>7. FreshInv'
  BY <1>6 DEF FreshInv
<1> QED
  BY <1>1, <1>3, <1>7 DEF IInv

\* workspace-current never goes back to an older content, with any number of
\* hooks that scan and commit at once, dead hooks and failed stores.
THEOREM ManifestForward == Spec => ManifestMovesForward
<1>1. IInv /\ [Next]_vars => [\A p \in Paths : cur'[p] >= cur[p]]_vars
  <2> SUFFICES ASSUME IInv, [Next]_vars PROVE \A p \in Paths : cur'[p] >= cur[p]
    OBVIOUS
  <2>1. cur \in [Paths -> Nat] /\ cur' \in [Paths -> Nat]
    BY NextTypes, ProvenanceAssumption DEF IInv, Typed, TypeOK, Snapshot, Stamp
  <2> QED
    BY <2>1, CommitMovesForward
<1> QED
  BY <1>1, InitIInv, NextIInv, PTL DEF Spec, ManifestMovesForward

-----------------------------------------------------------------------------
(* A Stop and what it sees.                                                *)

Roles ==
  \A s \in Slots :
    /\ hook[s].op = "none" <=> hook[s].pc = "free"
    /\ hook[s].op = "start" => hook[s].pc \in {"view", "scan", "commit", "baseline", "prompt"}
    /\ hook[s].op = "stop" => hook[s].pc \in {"resume", "view", "scan", "commit", "status", "decide"}
    /\ hook[s].pc = "decide" => hook[s].op = "stop"
    /\ hook[s].pc \in {"baseline", "prompt"} => hook[s].op = "start"
    /\ hook[s].pc \in {"capture", "verify"} => hook[s].op = "check"
    /\ hook[s].pc \in {"invoke", "tool"} => hook[s].op \in {"work", "check"}

Alone ==
  \A s, r \in Slots :
    hook[s].op = "stop" /\ r # s /\ Me(r) = Me(s) => hook[r].op \in {"none", "start"}

\* Turn i of agent a is the open one, or an earlier one.
Known(a, i) == i <= closed[a] \/ (turn[a].st # "none" /\ i <= turn[a].id)

TurnIds ==
  \A a \in Agents :
    /\ closed[a] <= round[a]
    /\ turn[a].st # "none" => closed[a] < turn[a].id /\ turn[a].id <= round[a]
    /\ pend # None /\ pend.agent = a => pend.id <= round[a]

\* A hook of a call or a Stop belongs to a turn that is, or was, open; the one
\* of a prompt to a turn nothing else was yet done for.
HookIds ==
  \A s \in Slots :
    /\ hook[s].op \notin {"none", "start"} => Known(Me(s), hook[s].id)
    /\ hook[s].op = "start" =>
         /\ hook[s].id = round[Me(s)] /\ closed[Me(s)] < hook[s].id
         /\ \A r \in Slots \ {s} :
              Me(r) = Me(s) /\ hook[r].op # "none" => hook[r].id < hook[s].id
         /\ \A p \in Paths : author[p] # <<Me(s), hook[s].id>>

AuthorIds ==
  \A p \in Paths, a \in Agents, i \in 0 .. MaxTurns :
    author[p] = <<a, i>> => Known(a, i)

Ids == TurnIds /\ HookIds /\ AuthorIds

Seen(s) == \A p \in Paths : hook[s].from[p] <= cur[p]

\* No transition of the Stop's own turn is left to the next recovery.
Clear(s) == pend # None /\ pend.agent = Me(s) => pend.id # hook[s].id

Watches(s) ==
  /\ \A p \in Paths : hook[s].from[p] <= disk[p]
  /\ hook[s].pc \in {"scan", "commit"} => \A p \in Paths :
       hook[s].scan[p] # None \/ At(s, "commit") => hook[s].from[p] <= hook[s].scan[p]
  /\ At(s, "status") /\ hook[s].ok => Seen(s) /\ Clear(s)
  /\ At(s, "decide") /\ Mine(s).cap /\ ~Mine(s).inc =>
       Seen(s) /\ Clear(s) /\ Mine(s).st # "degraded"
  /\ Mine(s).cap => Current(s)

Sight == \A s \in Slots : hook[s].op = "stop" => Watches(s)

StopInv == Roles /\ Alone /\ Ids /\ Sight

-----------------------------------------------------------------------------
(* The hooks.                                                              *)

LEMMA IdleHook == Idle.pc = "free" /\ Idle.op = "none" /\ \A p \in Paths : Idle.scan[p] = None
  BY DEF Idle

\* What is left of a hook after its observation.
LEMMA ObservedAs ==
  ASSUME Typed, NEW s \in Slots, NEW ok \in BOOLEAN
  PROVE  /\ hook[s].op = "restart" => Observed(s, ok) = Idle
         /\ hook[s].op # "restart" =>
              /\ Observed(s, ok).pc = After(hook[s].op, ok) /\ Observed(s, ok).ok = ok
              /\ Observed(s, ok).op = hook[s].op /\ Observed(s, ok).from = hook[s].from
              /\ Observed(s, ok).id = hook[s].id
<1>1. hook[s] \in HookRecord
  BY DEF Typed, TypeOK
<1> QED
  BY <1>1 DEF Observed, HookRecord

\* The step of one slot.
LEMMA OneHook ==
  ASSUME NEW r \in Slots, Step(r), Typed
  PROVE  \A s \in Slots \ {r} : hook'[s] = hook[s]
<1>1. PICK h : hook' = [hook EXCEPT ![r] = h]
  BY DEF Step, BeginStart, BeginTool, Capture, Invoke, PreFails, ToolEnds,
     BeginStop, Resume, View, ScanPath, ScanFails, Commit, CommitLost, CommitCut,
     SaveBaseline, Prompt, Status, Verify, Decide, HookDies, Goto, End
<1> QED
  BY <1>1 DEF Typed, TypeOK

RoleOf(h) ==
  /\ h.op = "none" <=> h.pc = "free"
  /\ h.op = "start" => h.pc \in {"view", "scan", "commit", "baseline", "prompt"}
  /\ h.op = "stop" => h.pc \in {"resume", "view", "scan", "commit", "status", "decide"}
  /\ h.pc = "decide" => h.op = "stop"
  /\ h.pc \in {"baseline", "prompt"} => h.op = "start"
  /\ h.pc \in {"capture", "verify"} => h.op = "check"
  /\ h.pc \in {"invoke", "tool"} => h.op \in {"work", "check"}

\* Where a step takes the kind of its hook.
LEMMA RoleStep ==
  ASSUME Typed, Roles, NEW r \in Slots, Step(r)
  PROVE  /\ RoleOf(hook'[r])
         /\ hook'[r].op = "stop" => hook[r].op = "stop" \/ BeginStop(r)
         /\ hook'[r].op \notin {"none", "start"} =>
              \/ hook[r].op \notin {"none", "start"}
              \/ BeginStop(r) \/ BeginTool(r)
<1>a. hook \in [Slots -> HookRecord] /\ hook[r] \in HookRecord /\ RoleOf(hook[r])
  BY DEF Typed, TypeOK, Roles, RoleOf
<1>b. Idle \in HookRecord /\ RoleOf(Idle)
  BY IdleType, IdleHook DEF RoleOf
<1> USE IdleHook DEF RoleOf, HookRecord, At
<1>1. CASE BeginStart(r)
  BY <1>1, <1>a, <1>b DEF BeginStart
<1>2. CASE BeginStop(r)
  BY <1>2, <1>a, <1>b DEF BeginStop
<1>3. CASE BeginTool(r)
  <2>1. hook'[r].op \in {"work", "check"} /\ hook'[r].pc \in {"tool", "capture", "invoke"}
        /\ (hook'[r].pc = "capture" => hook'[r].op = "check")
    BY <1>3, <1>a, <1>b DEF BeginTool
  <2> QED
    BY <1>3, <2>1
<1>4. CASE Capture(r) \/ Invoke(r) \/ PreFails(r) \/ ToolEnds(r)
  <2>1. hook[r].pc \in {"capture", "invoke", "tool"} /\ hook'[r].op = hook[r].op
        /\ hook'[r].pc \in {"invoke", "tool", "resume"}
    BY <1>4, <1>a DEF Capture, Invoke, PreFails, ToolEnds, Goto
  <2> QED
    BY <2>1, <1>a
<1>5. CASE Resume(r) \/ View(r) \/ SaveBaseline(r)
  <2>1. CASE Resume(r)
    BY <2>1, <1>a DEF Resume
  <2>2. CASE View(r)
    <3>1. hook'[r].op = hook[r].op /\ hook'[r].pc = "scan" /\ hook[r].pc = "view"
      BY <2>2, <1>a DEF View
    <3> QED
      BY <3>1, <1>a
  <2>3. CASE SaveBaseline(r)
    <3>1. hook'[r].op = hook[r].op /\ hook'[r].pc = "prompt" /\ hook[r].pc = "baseline"
      BY <2>3, <1>a DEF SaveBaseline
    <3> QED
      BY <3>1, <1>a
  <2> QED
    BY <1>5, <2>1, <2>2, <2>3
<1>6. CASE \E p \in Paths : ScanPath(r, p)
  BY <1>6, <1>a DEF ScanPath
<1>7. ASSUME NEW ok \in BOOLEAN, hook[r].pc \in {"scan", "commit"}
      PROVE  RoleOf(Observed(r, ok)) /\ Observed(r, ok).op \in {hook[r].op, "none"}
  <2>1. CASE hook[r].op = "restart"
    BY <1>b, <2>1, ObservedAs
  <2>2. CASE hook[r].op # "restart"
    <3>1. Observed(r, ok).op = hook[r].op /\ Observed(r, ok).pc = After(hook[r].op, ok)
      BY <2>2, ObservedAs
    <3>2. IF hook[r].op = "start" THEN After(hook[r].op, ok) \in {"baseline", "prompt"}
          ELSE After(hook[r].op, ok) = "status"
      BY <1>7, <2>2 DEF After
    <3>3. hook[r].op # "none"
      BY <1>7, <1>a
    <3> QED
      BY <3>1, <3>2, <3>3
  <2> QED
    BY <2>1, <2>2
<1>8. CASE ScanFails(r) \/ CommitLost(r)
  <2>1. /\ hook[r].pc \in {"scan", "commit"}
        /\ hook'[r] = Observed(r, FALSE)
           \/ (hook'[r].pc = "view" /\ hook'[r].op = hook[r].op)
    BY ZenonT(40), <1>8, <1>a DEF ScanFails, CommitLost
  <2> QED
    BY ZenonT(40), <1>7, <1>a, <2>1
<1>9. CASE Commit(r)
  <2>1. Observed(r, TRUE) \in HookRecord
    BY ObservedHook
  <2>2. hook'[r] = Idle \/ hook'[r] = [Observed(r, TRUE) EXCEPT !.gen = gen', !.cur = cur']
    BY <1>9, <1>a DEF Commit
  <2>3. CASE hook'[r] = [Observed(r, TRUE) EXCEPT !.gen = gen', !.cur = cur']
    <3>1. hook'[r].pc = Observed(r, TRUE).pc /\ hook'[r].op = Observed(r, TRUE).op
      BY <2>1, <2>3
    <3> QED
      BY ZenonT(40), <1>7, <1>9, <3>1, <1>a DEF Commit
  <2> QED
    BY <1>b, <2>2, <2>3
<1>10. CASE CommitCut(r)
  <2>1. Observed(r, FALSE) \in HookRecord
    BY ObservedHook
  <2>2. hook'[r] = Idle \/ hook'[r] = Unstored(r)
    BY <1>10, <1>a DEF CommitCut, End
  <2>3. Unstored(r).pc = Observed(r, FALSE).pc /\ Unstored(r).op = Observed(r, FALSE).op
    BY <2>1 DEF Unstored
  <2> QED
    BY <1>7, <1>10, <1>b, <2>2, <2>3 DEF CommitCut
<1>11. CASE Prompt(r) \/ Verify(r)
  BY <1>11, <1>a, <1>b DEF Prompt, Verify, End
<1>12. CASE Status(r)
  <2>1. hook[r].pc = "status"
    BY <1>12 DEF Status
  <2>2. CASE hook[r].op = "stop"
    BY <1>12, <2>1, <2>2, <1>a DEF Status
  <2>3. CASE hook[r].op = "check"
    BY <1>12, <2>1, <2>3, <1>a DEF Status
  <2>4. CASE hook[r].op \notin {"stop", "check"}
    BY <1>12, <2>1, <2>4, <1>a, <1>b DEF Status
  <2> QED
    BY <2>2, <2>3, <2>4
<1>13. CASE Decide(r)
  <2> DEFINE g == [Idle EXCEPT !.pc = "view", !.op = "restart", !.id = Mine(r).id]
  <2>1. hook' = [hook EXCEPT ![r] = Idle] \/ hook' = [hook EXCEPT ![r] = g]
    BY <1>13 DEF Decide, End
  <2>2. g.pc = "view" /\ g.op = "restart"
    BY <1>b
  <2>3. hook[r].op = "stop"
    BY <1>13, <1>a DEF Decide
  <2> HIDE DEF g
  <2> QED
    BY <1>a, <1>b, <2>1, <2>2, <2>3
<1>14. CASE HookDies(r)
  BY <1>14, <1>a, <1>b DEF HookDies
<1> QED
  BY <1>1, <1>2, <1>3, <1>4, <1>5, <1>6, <1>8, <1>9, <1>10, <1>11, <1>12, <1>13, <1>14 DEF Step

LEMMA RolesKept ==
  ASSUME Typed, Roles, Next
  PROVE  Roles'
<1>1. ASSUME NEW p \in Paths, Write(p)
      PROVE  Roles'
  BY <1>1 DEF Write, Roles
<1>2. ASSUME NEW r \in Slots, Step(r)
      PROVE  Roles'
  BY <1>2, OneHook, RoleStep DEF Roles, RoleOf
<1> QED
  BY <1>1, <1>2 DEF Next

\* No call of the agent begins beside its Stop, and its Stop not beside a call.
LEMMA AloneKept ==
  ASSUME Typed, Roles, Alone, Next
  PROVE  Alone'
<1>1. ASSUME NEW p \in Paths, Write(p)
      PROVE  Alone'
  BY <1>1 DEF Write, Alone, Me
<1>2. ASSUME NEW q \in Slots, Step(q), NEW s \in Slots, NEW r \in Slots,
             hook'[s].op = "stop", r # s, Me(r) = Me(s)
      PROVE  hook'[r].op \in {"none", "start"}
  <2>1. hook'[q].op = "stop" => hook[q].op = "stop" \/ BeginStop(q)
    BY <1>2, RoleStep
  <2>2. hook'[q].op \notin {"none", "start"} =>
          hook[q].op \notin {"none", "start"} \/ BeginStop(q) \/ BeginTool(q)
    BY <1>2, RoleStep
  <2>3. CASE q = s
    <3>1. hook'[r] = hook[r]
      BY <1>2, <2>3, OneHook
    <3>2. CASE BeginStop(s)
      BY <1>2, <3>1, <3>2 DEF BeginStop, At, Roles, Me
    <3> QED
      BY <1>2, <2>1, <2>3, <3>1, <3>2 DEF Alone
  <2>4. CASE q = r
    <3>1. hook[s].op = "stop"
      BY <1>2, <2>4, OneHook
    <3>2. hook[r].op \in {"none", "start"}
      BY <1>2, <3>1 DEF Alone
    <3>3. ~BeginStop(r)
      BY <1>2, <3>1 DEF BeginStop, At, Roles, Me
    <3>4. ~BeginTool(r)
      BY <1>2, <3>1 DEF BeginTool, Me
    <3> QED
      BY <2>2, <2>4, <3>2, <3>3, <3>4
  <2>5. CASE q # s /\ q # r
    BY <1>2, <2>5, OneHook DEF Alone
  <2> QED
    BY <2>3, <2>4, <2>5
<1> QED
  BY <1>1, <1>2 DEF Next, Alone, Me

-----------------------------------------------------------------------------
(* The ids of turns.                                                       *)

\* What a change event makes of the turn of its agent.
Evented(t, shut, id, before, after) ==
  IF Delta(before, after) = {} THEN t
  ELSE IF t.st = "none" /\ id > shut
       THEN Revise([NoTurn EXCEPT !.id = id, !.st = "ready"], before, after)
  ELSE IF t.st # "none" /\ t.id = id THEN Revise(t, before, after)
  ELSE t

LEMMA AppliedAt ==
  ASSUME NEW turns \in [Agents -> TurnRecord], NEW a \in Agents, NEW b \in Agents,
         NEW id, NEW before, NEW after
  PROVE  Applied(turns, a, id, before, after)[b] =
           IF b = a THEN Evented(turns[a], closed[a], id, before, after) ELSE turns[b]
  BY DEF Applied, Evented

LEMMA RTurnAt ==
  ASSUME TypeOK, NEW b \in Agents
  PROVE  RTurn[b] = IF Reached /\ pend.agent = b
                    THEN Evented(turn[b], closed[b], pend.id, pend.before, pend.after)
                    ELSE turn[b]
<1>1. CASE Reached
  <2>1. pend.agent \in Agents
    BY <1>1 DEF Reached, TypeOK, Transition
  <2> QED
    BY <1>1, <2>1, AppliedAt DEF RTurn, TypeOK
<1>2. CASE ~Reached
  BY <1>2 DEF RTurn
<1> QED
  BY <1>1, <1>2

\* All of the turn that an event leaves alone, if it does not open it.
LEMMA ReviseFields ==
  ASSUME NEW t \in TurnRecord, NEW before \in Snapshot, NEW after \in Snapshot
  PROVE  LET u == Revise(t, before, after) IN
         /\ u.st = t.st /\ u.id = t.id /\ u.bl = t.bl /\ u.inc = t.inc /\ u.cap = t.cap
         /\ u.inv = t.inv /\ u.results = t.results
         /\ \A p \in Paths :
              u.rev[p] = IF p \notin Delta(before, after) THEN t.rev[p]
                         ELSE IF Text(after[p]) = u.first[p] THEN 0 ELSE after[p]
         /\ \A p \in Paths :
              u.first[p] = IF t.first[p] = None /\ p \in Delta(before, after)
                           THEN Text(before[p]) ELSE t.first[p]
<1> DEFINE first == [p \in Paths |->
                  IF t.first[p] = None /\ p \in Delta(before, after)
                  THEN Text(before[p]) ELSE t.first[p]]
           rev == [p \in Paths |->
                   IF p \notin Delta(before, after) THEN t.rev[p]
                   ELSE IF Text(after[p]) = first[p] THEN 0 ELSE after[p]]
<1>1. Revise(t, before, after) = [t EXCEPT !.first = first, !.rev = rev]
  BY DEF Revise
<1>2. \A p \in Paths :
        /\ rev[p] = IF p \notin Delta(before, after) THEN t.rev[p]
                         ELSE IF Text(after[p]) = first[p] THEN 0 ELSE after[p]
        /\ first[p] = IF t.first[p] = None /\ p \in Delta(before, after)
                           THEN Text(before[p]) ELSE t.first[p]
  OBVIOUS
<1> HIDE DEF first, rev
<1>3. Revise(t, before, after).first = first /\ Revise(t, before, after).rev = rev
  BY <1>1 DEF TurnRecord
<1> QED
  BY <1>1, <1>2, <1>3 DEF TurnRecord

\* An event keeps an open turn, and opens one only past the closed ones.
LEMMA EventedFields ==
  ASSUME NEW t \in TurnRecord, NEW shut \in Nat, NEW id \in 0 .. MaxTurns,
         NEW before \in Snapshot, NEW after \in Snapshot
  PROVE  LET u == Evented(t, shut, id, before, after) IN
         /\ u \in TurnRecord
         /\ t.st # "none" => /\ u.st = t.st /\ u.id = t.id /\ u.bl = t.bl /\ u.inc = t.inc
                             /\ u.cap = t.cap /\ u.inv = t.inv /\ u.results = t.results
         /\ t.st = "none" /\ u # t =>
              /\ u.st = "ready" /\ u.id = id /\ shut < id /\ ~u.bl /\ ~u.cap /\ u.results = {}
<1> DEFINE fresh == [NoTurn EXCEPT !.id = id, !.st = "ready"]
<1>1. fresh \in TurnRecord /\ fresh.st = "ready" /\ fresh.id = id /\ ~fresh.bl /\ ~fresh.cap
      /\ fresh.results = {}
  BY NoTurnType DEF TurnRecord, NoTurn
<1> HIDE DEF fresh
<1>2. Evented(t, shut, id, before, after) \in {t, Revise(t, before, after)}
      \/ (t.st = "none" /\ shut < id /\ Evented(t, shut, id, before, after) = Revise(fresh, before, after))
  BY DEF Evented, fresh
<1>3. Revise(t, before, after) \in TurnRecord /\ Revise(fresh, before, after) \in TurnRecord
  BY <1>1, ReviseType
<1>4. t.st = "none" => Evented(t, shut, id, before, after) \in {t, Revise(fresh, before, after)}
  BY DEF Evented, fresh
<1> QED
  BY <1>1, <1>2, <1>3, <1>4, ReviseFields

\* A step that neither replaces nor closes the turn of agent a.
Stays(a) ==
  /\ closed'[a] = closed[a]
  /\ turn[a].st # "none" => turn'[a].st # "none" /\ turn'[a].id = turn[a].id
  /\ turn[a].st = "none" /\ turn'[a].st # "none" =>
       closed[a] < turn'[a].id /\ turn'[a].id <= round[a]

\* The turn after the next recovery: the same one, or one not known before.
LEMMA RecoveredId ==
  ASSUME TypeOK, TurnIds, NEW a \in Agents
  PROVE  /\ RTurn[a] \in TurnRecord
         /\ turn[a].st # "none" => /\ RTurn[a].st = turn[a].st /\ RTurn[a].id = turn[a].id
                                   /\ RTurn[a].bl = turn[a].bl /\ RTurn[a].inc = turn[a].inc
                                   /\ RTurn[a].cap = turn[a].cap /\ RTurn[a].inv = turn[a].inv
                                   /\ RTurn[a].results = turn[a].results
         /\ turn[a].st = "none" /\ RTurn[a] # turn[a] =>
              /\ RTurn[a].st = "ready" /\ closed[a] < RTurn[a].id /\ RTurn[a].id <= round[a]
              /\ ~RTurn[a].bl /\ ~RTurn[a].cap /\ RTurn[a].results = {}
<1>1. turn[a] \in TurnRecord /\ closed[a] \in Nat
  BY ProvenanceAssumption DEF TypeOK
<1>2. CASE Reached /\ pend.agent = a
  <2>1. pend \in Transition /\ pend.id <= round[a]
    BY <1>2 DEF Reached, TypeOK, TurnIds
  <2>2. RTurn[a] = Evented(turn[a], closed[a], pend.id, pend.before, pend.after)
    BY <1>2, RTurnAt
  <2>3. pend.id \in 0 .. MaxTurns /\ pend.before \in Snapshot /\ pend.after \in Snapshot
    BY <2>1 DEF Transition
  <2> DEFINE u == Evented(turn[a], closed[a], pend.id, pend.before, pend.after)
  <2>4. /\ u \in TurnRecord
        /\ turn[a].st # "none" =>
             /\ u.st = turn[a].st /\ u.id = turn[a].id /\ u.bl = turn[a].bl /\ u.inc = turn[a].inc
             /\ u.cap = turn[a].cap /\ u.inv = turn[a].inv /\ u.results = turn[a].results
        /\ turn[a].st = "none" /\ u # turn[a] =>
             /\ u.st = "ready" /\ u.id = pend.id /\ closed[a] < pend.id
             /\ ~u.bl /\ ~u.cap /\ u.results = {}
    BY SMTT(30), <1>1, <2>3, EventedFields
  <2> HIDE DEF u
  <2> QED
    BY <2>1, <2>2, <2>4 DEF u
<1>3. CASE ~(Reached /\ pend.agent = a)
  BY <1>1, <1>3, RTurnAt
<1> QED
  BY <1>2, <1>3

LEMMA TurnStays ==
  ASSUME Typed, TurnIds, HookIds, Roles, NEW r \in Slots, Step(r), NEW a \in Agents,
         Me(r) = a => ~Prompt(r) /\ ~Decide(r)
  PROVE  Stays(a)
<1> USE DEF Typed
<1>a. /\ turn \in [Agents -> TurnRecord] /\ RTurn \in [Agents -> TurnRecord]
      /\ Me(r) \in Agents /\ hook[r] \in HookRecord /\ hook \in [Slots -> HookRecord]
      /\ closed \in [Agents -> 0 .. MaxTurns] /\ round \in [Agents -> 0 .. MaxTurns]
  BY RecoverType, ProvenanceAssumption DEF TypeOK, Me
<1>b. /\ turn[a].st # "none" => RTurn[a].st = turn[a].st /\ RTurn[a].id = turn[a].id
      /\ turn[a].st = "none" /\ RTurn[a].st # "none" =>
           closed[a] < RTurn[a].id /\ RTurn[a].id <= round[a]
  BY RecoveredId
<1>1. CASE UNCHANGED closed /\ (UNCHANGED turn \/ turn' = RTurn)
  BY <1>1, <1>b DEF Stays
<1>2. CASE BeginTool(r)
  <2> DEFINE i == BoundId(Me(r))
             t == Bootstrapped(RTurn[Me(r)], i, base[Me(r)].id = i)
             u == [t EXCEPT !.inv[r] = None]
  <2>1. turn' = [RTurn EXCEPT ![Me(r)] = u] /\ UNCHANGED closed /\ i > closed[Me(r)]
    BY <1>2 DEF BeginTool
  <2>2. i <= round[Me(r)] /\ i \in 0 .. MaxTurns
        /\ (RTurn[Me(r)].st # "none" => i = RTurn[Me(r)].id)
    <3>1. TypeOK /\ RTurn[Me(r)].st # "none" => RTurn[Me(r)].id <= round[Me(r)]
      BY <1>a, RecoveredId DEF TurnIds
    <3> QED
      BY <1>a, <3>1, ProvenanceAssumption DEF BoundId, TurnRecord
  <2>3. t \in TurnRecord /\ t.st # "none"
        /\ t.id = (IF RTurn[Me(r)].st = "none" THEN i ELSE RTurn[Me(r)].id)
    BY <1>a, <2>2, NoTurnType DEF Bootstrapped, TurnRecord
  <2> HIDE DEF t, i
  <2>4. u.st = t.st /\ u.id = t.id
    BY <2>3 DEF TurnRecord
  <2> HIDE DEF u
  <2>5. CASE Me(r) = a
    <3>1. turn'[a].st # "none" /\ turn'[a].id = i
      BY <1>a, <2>1, <2>2, <2>3, <2>4, <2>5
    <3>2. closed[a] < i
      BY <1>a, <2>1, <2>2, <2>5
    <3> QED
      BY <1>b, <2>1, <2>2, <2>5, <3>1, <3>2 DEF Stays
  <2>6. CASE Me(r) # a
    BY <1>a, <1>b, <2>1, <2>6 DEF Stays
  <2> QED
    BY <2>5, <2>6
<1>3. CASE Invoke(r)
  <2> DEFINE u == [RTurn[Me(r)] EXCEPT !.inv[r] = hook[r].cov, !.cap = TRUE]
  <2>1. UNCHANGED closed /\ (turn' = RTurn \/ turn' = [RTurn EXCEPT ![Me(r)] = u])
    BY <1>3, <1>a DEF Invoke
  <2>2. u.st = RTurn[Me(r)].st /\ u.id = RTurn[Me(r)].id
    BY <1>a DEF TurnRecord
  <2> HIDE DEF u
  <2> QED
    BY <1>a, <1>b, <2>1, <2>2 DEF Stays
<1>4. CASE PreFails(r)
  <2>1. UNCHANGED closed /\ (UNCHANGED turn \/ turn' = [turn EXCEPT ![Me(r)].inc = TRUE, ![Me(r)].cap = TRUE])
    BY <1>4 DEF PreFails
  <2> QED
    BY <1>a, <2>1 DEF Stays, TurnRecord
<1>5. CASE Resume(r)
  <2>1. UNCHANGED closed /\ (UNCHANGED turn \/ (Current(r) /\ turn' = [turn EXCEPT ![Me(r)].st = "degraded"]))
    BY <1>5 DEF Resume
  <2> QED
    BY SMTT(30), <1>a, <2>1 DEF Stays, TurnRecord, Current, Mine
<1>6. CASE Commit(r)
  <2>1. hook[r].scan \in Snapshot /\ hook[r].id \in 0 .. MaxTurns /\ cur \in Snapshot
        /\ hook[r].id <= round[Me(r)]
    <3>1. hook[r].op # "none"
      BY <1>6 DEF Commit, Roles, At
    <3>2. Known(Me(r), hook[r].id) => hook[r].id <= round[Me(r)]
      BY <1>a, ProvenanceAssumption DEF Known, TurnIds, HookRecord, TurnRecord
    <3> QED
      BY <1>6, <1>a, <3>1, <3>2 DEF Commit, ScannedInv, TypeOK, HookRecord, HookIds
  <2>2. turn'[a] = IF a = Me(r)
                   THEN Evented(RTurn[a], closed[a], hook[r].id, cur, hook[r].scan) ELSE RTurn[a]
    BY <1>6, <1>a, AppliedAt DEF Commit
  <2>3. UNCHANGED closed
    BY <1>6 DEF Commit
  <2>4. CASE a = Me(r)
    <3> DEFINE u == Evented(RTurn[a], closed[a], hook[r].id, cur, hook[r].scan)
    <3>1. /\ RTurn[a].st # "none" => u.st = RTurn[a].st /\ u.id = RTurn[a].id
          /\ RTurn[a].st = "none" /\ u # RTurn[a] => u.id = hook[r].id /\ closed[a] < hook[r].id
      <4>1. RTurn[a] \in TurnRecord /\ closed[a] \in Nat
        BY <1>a
      <4> QED
        BY SMTT(30), <2>1, <4>1, EventedFields
    <3> HIDE DEF u
    <3> QED
      BY <1>b, <2>1, <2>2, <2>3, <2>4, <3>1 DEF Stays, u
  <2>5. CASE a # Me(r)
    BY <1>b, <2>2, <2>3, <2>5 DEF Stays
  <2> QED
    BY <2>4, <2>5
<1>7. CASE Status(r)
  <2>1. UNCHANGED closed /\ (UNCHANGED turn \/ \E t, x, y :
           /\ Current(r) /\ t \in {Mine(r), Revise(Mine(r), hook[r].cur, hook[r].scan)}
           /\ t = Mine(r) \/ Late(r)
           /\ turn' = [turn EXCEPT ![Me(r)] = [t EXCEPT !.inc = x, !.cap = y]])
    BY <1>7, Zenon DEF Status
  <2>2. CASE UNCHANGED <<closed, turn>>
    BY <1>1, <2>2
  <2>3. ASSUME UNCHANGED closed, NEW t, NEW x, NEW y, Current(r),
               t \in {Mine(r), Revise(Mine(r), hook[r].cur, hook[r].scan)},
               t = Mine(r) \/ Late(r),
               turn' = [turn EXCEPT ![Me(r)] = [t EXCEPT !.inc = x, !.cap = y]]
        PROVE  Stays(a)
    <3>1. Mine(r) \in TurnRecord
      BY <1>a DEF Mine
    <3>2. t \in TurnRecord /\ t.st = Mine(r).st /\ t.id = Mine(r).id
      <4>1. CASE Late(r)
        <5>1. hook[r].cur \in Snapshot /\ hook[r].scan \in Snapshot
          BY <1>a, <4>1 DEF Late, HookRecord, Scanned, Snapshot
        <5> QED
          BY <2>3, <3>1, <5>1, ReviseType, ReviseFields
      <4> QED
        BY <2>3, <3>1, <4>1
    <3>3. [t EXCEPT !.inc = x, !.cap = y].st = t.st /\ [t EXCEPT !.inc = x, !.cap = y].id = t.id
      BY <3>2 DEF TurnRecord
    <3> QED
      BY <1>a, <2>3, <3>2, <3>3 DEF Stays, Mine
  <2> QED
    BY <2>1, <2>2, <2>3
<1>8. CASE Verify(r)
  <2>1. UNCHANGED closed /\ (UNCHANGED turn \/ \E x : turn' = [turn EXCEPT ![Me(r)].results = x])
    BY <1>8, Zenon DEF Verify
  <2> QED
    BY <1>a, <2>1 DEF Stays, TurnRecord
<1>9. CASE Prompt(r) \/ Decide(r)
  <2>1. Me(r) # a
    BY <1>9
  <2>2. closed'[a] = closed[a] /\ turn'[a] = turn[a]
    BY <1>9, <1>a, <2>1 DEF Prompt, Decide
  <2> QED
    BY <2>2 DEF Stays
<1>10. CASE BeginStart(r) \/ Capture(r) \/ ToolEnds(r) \/ BeginStop(r) \/ View(r)
           \/ (\E p \in Paths : ScanPath(r, p)) \/ ScanFails(r) \/ CommitLost(r)
           \/ CommitCut(r) \/ SaveBaseline(r) \/ HookDies(r)
  BY <1>1, <1>10 DEF BeginStart, Capture, ToolEnds, BeginStop, View, ScanPath, ScanFails,
       CommitLost, CommitCut, SaveBaseline, HookDies
<1> QED
  BY <1>2, <1>3, <1>4, <1>5, <1>6, <1>7, <1>8, <1>9, <1>10 DEF Step

\* What a prompt and a decision do to the ids of their agent.
LEMMA TurnEnds ==
  ASSUME Typed, NEW r \in Slots, NEW a \in Agents, Me(r) = a
  PROVE  /\ Prompt(r) =>
              /\ turn'[a].st # "none" /\ turn'[a].id = hook[r].id
              /\ closed'[a] = IF turn[a].st # "none" /\ turn[a].id # hook[r].id
                              THEN turn[a].id ELSE closed[a]
         /\ Decide(r) =>
              \/ Stays(a)
              \/ /\ Current(r) /\ turn'[a].st = "none" /\ closed'[a] = turn[a].id
<1>a. turn \in [Agents -> TurnRecord] /\ closed \in [Agents -> 0 .. MaxTurns]
      /\ hook[r] \in HookRecord
  BY DEF Typed, TypeOK
<1>1. ASSUME Prompt(r)
      PROVE  /\ turn'[a].st # "none" /\ turn'[a].id = hook[r].id
             /\ closed'[a] = IF turn[a].st # "none" /\ turn[a].id # hook[r].id
                             THEN turn[a].id ELSE closed[a]
  <2> DEFINE st == IF hook[r].ok THEN "ready" ELSE "missing"
             t == [NoTurn EXCEPT !.id = hook[r].id, !.bl = hook[r].ok,
                                 !.st = st, !.inc = ~hook[r].ok]
  <2>1. turn' = [turn EXCEPT ![a] = t]
    BY <1>1 DEF Prompt
  <2>2. t.st = st /\ t.id = hook[r].id /\ st # "none"
    BY NoTurnType DEF TurnRecord
  <2> HIDE DEF t, st
  <2> QED
    BY <1>1, <1>a, <2>1, <2>2 DEF Prompt
<1>2. ASSUME Decide(r)
      PROVE  \/ Stays(a)
             \/ Current(r) /\ turn'[a].st = "none" /\ closed'[a] = turn[a].id
  <2>1. \/ UNCHANGED <<turn, closed>>
        \/ Current(r) /\ turn' = [turn EXCEPT ![a] = NoTurn]
           /\ closed' = [closed EXCEPT ![a] = turn[a].id]
        \/ turn' = [turn EXCEPT ![a].blocks = @ + 1] /\ UNCHANGED closed
    BY <1>2 DEF Decide, Mine
  <2>2. NoTurn.st = "none"
    BY DEF NoTurn
  <2>3. CASE turn' = [turn EXCEPT ![a].blocks = @ + 1] /\ UNCHANGED closed
    BY <1>a, <2>3 DEF Stays, TurnRecord
  <2> QED
    BY <1>a, <2>1, <2>2, <2>3 DEF Stays
<1> QED
  BY <1>1, <1>2

\* A step of agent a's turn: it stays, is replaced by a prompt, or is closed.
TurnStep(r, a) ==
  \/ Stays(a)
  \/ /\ Me(r) = a /\ hook[r].op = "start" /\ hook'[r].op = "none" /\ UNCHANGED round
     /\ turn'[a].st # "none" /\ turn'[a].id = hook[r].id
     /\ closed'[a] = IF turn[a].st # "none" /\ turn[a].id # hook[r].id
                     THEN turn[a].id ELSE closed[a]
  \/ /\ Me(r) = a /\ hook[r].op = "stop" /\ Current(r) /\ UNCHANGED round
     /\ turn'[a].st = "none" /\ closed'[a] = turn[a].id

LEMMA StepOfTurn ==
  ASSUME Typed, TurnIds, HookIds, Roles, NEW r \in Slots, Step(r), NEW a \in Agents
  PROVE  TurnStep(r, a)
<1>1. CASE Me(r) = a /\ Prompt(r)
  <2>1. hook[r].op = "start" /\ hook'[r].op = "none" /\ UNCHANGED round
    BY <1>1, IdleHook DEF Prompt, At, Roles, End, Typed, TypeOK
  <2> QED
    BY <1>1, <2>1, TurnEnds DEF TurnStep
<1>2. CASE Me(r) = a /\ Decide(r)
  <2>1. hook[r].op = "stop" /\ UNCHANGED round
    BY <1>2 DEF Decide, At, Roles
  <2> QED
    BY <1>2, <2>1, TurnEnds DEF TurnStep
<1> QED
  BY <1>1, <1>2, TurnStays DEF TurnStep

LEMMA KnownStill ==
  ASSUME Typed, Ids, NEW r \in Slots, NEW a \in Agents, TurnStep(r, a),
         NEW i \in 0 .. MaxTurns, Known(a, i)
  PROVE  Known(a, i)'
<1>1. /\ turn[a].id \in Nat /\ closed[a] \in Nat /\ i \in Nat /\ hook[r].id \in Nat
      /\ round[a] \in Nat
  BY ProvenanceAssumption DEF Typed, TypeOK, TurnRecord, HookRecord
<1>2. turn[a].st # "none" => closed[a] < turn[a].id /\ turn[a].id <= round[a]
  BY DEF Ids, TurnIds
<1>3. CASE Stays(a)
  BY <1>1, <1>2, <1>3 DEF Stays, Known
<1>4. CASE ~Stays(a)
  <2>1. hook[r].op = "start" /\ Me(r) = a => hook[r].id = round[a]
    BY DEF Ids, HookIds
  <2>2. CASE /\ Me(r) = a /\ hook[r].op = "start" /\ turn'[a].st # "none"
             /\ turn'[a].id = hook[r].id
             /\ closed'[a] = IF turn[a].st # "none" /\ turn[a].id # hook[r].id
                             THEN turn[a].id ELSE closed[a]
    <3>1. CASE turn[a].st # "none" /\ turn[a].id # hook[r].id
      <4>1. i <= closed'[a]
        BY <1>1, <1>2, <2>2, <3>1 DEF Known
      <4> QED
        BY <4>1 DEF Known
    <3>2. CASE ~(turn[a].st # "none" /\ turn[a].id # hook[r].id)
      BY <1>1, <1>2, <2>2, <3>2 DEF Known
    <3> QED
      BY <3>1, <3>2
  <2>3. CASE Current(r) /\ Me(r) = a /\ closed'[a] = turn[a].id
    <3>1. turn[a].st # "none"
      BY <2>3 DEF Current, Mine
    <3>2. i <= closed'[a]
      BY <1>1, <1>2, <2>3, <3>1 DEF Known
    <3> QED
      BY <3>2 DEF Known
  <2> QED
    BY <1>4, <2>2, <2>3 DEF TurnStep
<1> QED
  BY <1>3, <1>4

\* Where the turn id of a hook comes from.
LEMMA IdStep ==
  ASSUME Typed, NEW r \in Slots, Step(r)
  PROVE  \/ hook'[r].op = "none"
         \/ hook'[r].op = hook[r].op /\ hook'[r].id = hook[r].id
         \/ BeginStart(r) /\ hook'[r].op = "start" /\ hook'[r].id = round[Me(r)] + 1
         \/ BeginTool(r) /\ hook'[r].op \in {"work", "check"} /\ hook'[r].id = BoundId(Me(r))
         \/ /\ BeginStop(r) \/ (Decide(r) /\ Current(r) /\ Stays(Me(r)))
            /\ hook'[r].op \in {"stop", "restart"} /\ hook'[r].id = Mine(r).id
<1>a. hook \in [Slots -> HookRecord] /\ hook[r] \in HookRecord /\ Idle \in HookRecord
  BY IdleType DEF Typed, TypeOK
<1> USE IdleHook DEF HookRecord
<1>1. CASE BeginStart(r) \/ BeginStop(r)
  <2>1. CASE BeginStart(r)
    BY <2>1, <1>a DEF BeginStart
  <2>2. CASE BeginStop(r)
    <3>1. hook'[r].op = "stop" /\ hook'[r].id = Mine(r).id
      BY <2>2, <1>a DEF BeginStop
    <3> QED
      BY <2>2, <3>1
  <2> QED
    BY <1>1, <2>1, <2>2
<1>2. CASE BeginTool(r)
  <2>1. hook'[r].op \in {"work", "check"} /\ hook'[r].id = BoundId(Me(r))
    BY <1>2, <1>a DEF BeginTool
  <2> QED
    BY <1>2, <2>1
<1>3. CASE \/ Capture(r) \/ Invoke(r) \/ PreFails(r) \/ ToolEnds(r) \/ Resume(r)
           \/ SaveBaseline(r) \/ (\E p \in Paths : ScanPath(r, p))
  <2>1. hook'[r].op = hook[r].op /\ hook'[r].id = hook[r].id
    <3>1. CASE Capture(r) \/ Invoke(r) \/ PreFails(r) \/ ToolEnds(r)
      BY <3>1, <1>a DEF Capture, Invoke, PreFails, ToolEnds, Goto
    <3>2. CASE Resume(r) \/ SaveBaseline(r)
      BY <3>2, <1>a DEF Resume, SaveBaseline
    <3>3. CASE \E p \in Paths : ScanPath(r, p)
      BY <3>3, <1>a DEF ScanPath
    <3> QED
      BY <1>3, <3>1, <3>2, <3>3
  <2> QED
    BY <2>1
<1>4. CASE View(r)
  BY <1>4, <1>a DEF View
<1>5. CASE ScanFails(r) \/ CommitLost(r)
  <2>1. hook'[r] = Observed(r, FALSE) \/ hook'[r] = [hook[r] EXCEPT !.pc = "view"]
    BY <1>5, <1>a DEF ScanFails, CommitLost
  <2>2. Observed(r, FALSE) = Idle
        \/ (Observed(r, FALSE).op = hook[r].op /\ Observed(r, FALSE).id = hook[r].id)
    BY ObservedAs
  <2> QED
    BY <1>a, <2>1, <2>2
<1>6. CASE Commit(r)
  <2>1. Observed(r, TRUE) \in HookRecord
    BY ObservedHook
  <2>2. hook'[r] = Idle \/ hook'[r] = [Observed(r, TRUE) EXCEPT !.gen = gen', !.cur = cur']
    BY <1>6, <1>a DEF Commit
  <2>3. CASE hook'[r] = [Observed(r, TRUE) EXCEPT !.gen = gen', !.cur = cur']
    <3>1. hook'[r].op = Observed(r, TRUE).op /\ hook'[r].id = Observed(r, TRUE).id
      BY <2>1, <2>3
    <3> QED
      BY <3>1, ObservedAs
  <2> QED
    BY <2>2, <2>3
<1>7. CASE CommitCut(r)
  <2>1. Observed(r, FALSE) \in HookRecord
    BY ObservedHook
  <2>2. hook'[r] = Idle \/ hook'[r] = Unstored(r)
    BY <1>7, <1>a DEF CommitCut, End
  <2>3. Unstored(r).op = Observed(r, FALSE).op /\ Unstored(r).id = Observed(r, FALSE).id
    BY <2>1 DEF Unstored
  <2> QED
    BY <2>2, <2>3, ObservedAs
<1>8. CASE Prompt(r) \/ Verify(r)
  BY <1>8, <1>a DEF Prompt, Verify, End
<1>9. CASE Status(r)
  BY <1>9, <1>a DEF Status
<1>10. CASE Decide(r)
  <2> DEFINE g == [Idle EXCEPT !.pc = "view", !.op = "restart", !.id = Mine(r).id]
  <2>1. \/ hook' = [hook EXCEPT ![r] = Idle]
        \/ /\ hook' = [hook EXCEPT ![r] = g] /\ Current(r)
           /\ turn' = [turn EXCEPT ![Me(r)].blocks = @ + 1] /\ UNCHANGED closed
    BY <1>10 DEF Decide, End
  <2>2. g.op = "restart" /\ g.id = Mine(r).id
    BY <1>a
  <2> HIDE DEF g
  <2>3. Me(r) \in Agents /\ turn \in [Agents -> TurnRecord]
    BY ProvenanceAssumption DEF Me, Typed, TypeOK
  <2>4. turn' = [turn EXCEPT ![Me(r)].blocks = @ + 1] /\ UNCHANGED closed => Stays(Me(r))
    BY <2>3 DEF Stays, TurnRecord
  <2> QED
    BY <1>10, <1>a, <2>1, <2>2, <2>4
<1>11. CASE HookDies(r)
  BY <1>11, <1>a DEF HookDies
<1> QED
  BY <1>1, <1>2, <1>3, <1>4, <1>5, <1>6, <1>7, <1>8, <1>9, <1>10, <1>11 DEF Step

\* BeginTool opens the turn its hook belongs to.
LEMMA ToolOpens ==
  ASSUME Typed, NEW r \in Slots, BeginTool(r)
  PROVE  turn'[Me(r)].st # "none" /\ turn'[Me(r)].id = BoundId(Me(r)) /\ BoundId(Me(r)) \in 0 .. MaxTurns
<1> DEFINE i == BoundId(Me(r))
           t == Bootstrapped(RTurn[Me(r)], i, base[Me(r)].id = i)
           u == [t EXCEPT !.inv[r] = None]
<1>a. Me(r) \in Agents /\ RTurn \in [Agents -> TurnRecord]
  BY RecoverType, ProvenanceAssumption DEF Typed, Me
<1>1. turn' = [RTurn EXCEPT ![Me(r)] = u]
  BY DEF BeginTool
<1>2. i \in 0 .. MaxTurns /\ (RTurn[Me(r)].st # "none" => i = RTurn[Me(r)].id)
  BY <1>a DEF BoundId, TurnRecord, Typed, TypeOK
<1>3. t \in TurnRecord /\ t.st # "none" /\ t.id = i
  BY <1>a, <1>2, NoTurnType DEF Bootstrapped, TurnRecord
<1> HIDE DEF t, i
<1>4. u.st = t.st /\ u.id = t.id
  BY <1>3 DEF TurnRecord
<1> HIDE DEF u
<1> QED
  BY <1>a, <1>1, <1>2, <1>3, <1>4 DEF i

LEMMA TurnIdsKept ==
  ASSUME Typed, Ids, NEW r \in Slots, NEW a \in Agents, Step(r), TurnStep(r, a), Roles
  PROVE  /\ closed'[a] <= round'[a]
         /\ turn'[a].st # "none" => closed'[a] < turn'[a].id /\ turn'[a].id <= round'[a]
         /\ pend' # None /\ pend'.agent = a => pend'.id <= round'[a]
<1>a. /\ turn[a].id \in Nat /\ closed[a] \in Nat /\ hook[r].id \in Nat /\ round[a] \in Nat
      /\ hook[r].id \in 0 .. MaxTurns
      /\ turn'[a].id \in Nat /\ round'[a] \in Nat /\ Me(r) \in Agents
  BY NextTypes, ProvenanceAssumption DEF Next, Typed, TypeOK, TurnRecord, HookRecord, Me
<1>b. /\ closed[a] <= round[a]
      /\ turn[a].st # "none" => closed[a] < turn[a].id /\ turn[a].id <= round[a]
      /\ pend # None /\ pend.agent = a => pend.id <= round[a]
  BY DEF Ids, TurnIds
<1>1. round[a] <= round'[a]
  <2>1. UNCHANGED round \/ BeginStart(r)
    BY DEF Step, BeginTool, Capture, Invoke, PreFails, ToolEnds,
     BeginStop, Resume, View, ScanPath, ScanFails, Commit, CommitLost, CommitCut,
     SaveBaseline, Prompt, Status, Verify, Decide, HookDies
  <2> QED
    BY <1>a, <2>1 DEF BeginStart, Typed, TypeOK
<1>2. /\ closed'[a] <= round'[a]
      /\ turn'[a].st # "none" => closed'[a] < turn'[a].id /\ turn'[a].id <= round'[a]
  <2>1. CASE Stays(a)
    BY <1>a, <1>b, <1>1, <2>1 DEF Stays
  <2>2. CASE ~Stays(a)
    <3>1. hook[r].op = "start" /\ Me(r) = a => hook[r].id = round[a] /\ closed[a] < hook[r].id
      BY DEF Ids, HookIds
    <3> QED
      BY <1>a, <1>b, <2>2, <3>1 DEF TurnStep, Current, Mine
  <2> QED
    BY <2>1, <2>2
<1>4. pend' \in {pend, None} \/ CommitCut(r)
  BY DEF Step, BeginStart, BeginTool, Capture, Invoke, PreFails, ToolEnds,
     BeginStop, Resume, View, ScanPath, ScanFails, Commit, CommitLost,
     SaveBaseline, Prompt, Status, Verify, Decide, HookDies, manifest
<1>5. CASE CommitCut(r) /\ Me(r) = a
  <2>1. hook[r].op # "none" /\ pend'.id = hook[r].id
    BY <1>5 DEF CommitCut, At, Roles
  <2>2. Known(a, hook[r].id) => hook[r].id <= round[a]
    BY <1>a, <1>b DEF Known
  <2>3. hook[r].id <= round[a]
    BY <1>a, <1>5, <2>1, <2>2 DEF Ids, HookIds
  <2> QED
    BY <1>1, <1>2, <1>a, <2>1, <2>3
<1>6. CASE CommitCut(r) /\ Me(r) # a
  <2>1. pend'.agent # a
    BY <1>6 DEF CommitCut
  <2> QED
    BY <1>2, <2>1
<1>7. CASE pend' \in {pend, None}
  <2>1. pend # None => pend.id \in Nat
    BY DEF Typed, TypeOK, Transition
  <2> QED
    BY <1>1, <1>2, <1>7, <1>a, <1>b, <2>1
<1> QED
  BY <1>4, <1>5, <1>6, <1>7

LEMMA HookIdsKept ==
  ASSUME Typed, Ids, Roles, NEW r \in Slots, Step(r)
  PROVE  HookIds'
<1>a. /\ hook \in [Slots -> HookRecord] /\ Typed' /\ hook' \in [Slots -> HookRecord]
      /\ \A s \in Slots : Me(s) \in Agents
      /\ \A a \in Agents : round[a] \in Nat /\ round'[a] \in Nat /\ turn[a] \in TurnRecord
  BY NextTypes, ProvenanceAssumption DEF Next, Typed, TypeOK, Me
<1>b. \A a \in Agents : TurnStep(r, a)
  BY StepOfTurn DEF Ids
<1>1. ASSUME NEW s \in Slots, hook'[s].op \notin {"none", "start"}
      PROVE  Known(Me(s), hook[s].id)'
  <2>1. hook[s].id \in 0 .. MaxTurns /\ TurnStep(r, Me(s))
    BY <1>a, <1>b DEF HookRecord
  <2>2. CASE hook'[s].op = hook[s].op /\ hook'[s].id = hook[s].id
    <3>1. Known(Me(s), hook[s].id)
      BY <1>1, <2>2 DEF Ids, HookIds
    <3>2. closed'[Me(s)] >= hook[s].id \/ (turn'[Me(s)].st # "none" /\ hook[s].id <= turn'[Me(s)].id)
      BY <1>a, <2>1, <3>1, KnownStill DEF Known
    <3> QED
      BY <2>2, <3>2 DEF Known, Me
  <2>3. CASE s = r /\ BeginTool(r) /\ hook'[r].id = BoundId(Me(r))
    <3>1. turn'[Me(s)].st # "none" /\ turn'[Me(s)].id = hook'[s].id /\ hook'[s].id \in Nat
      BY <2>3, ToolOpens, ProvenanceAssumption
    <3> QED
      BY <3>1 DEF Known, Me
  <2>4. CASE s = r /\ (BeginStop(r) \/ (Decide(r) /\ Current(r) /\ Stays(Me(r)))) /\ hook'[r].id = Mine(r).id
    <3>1. turn[Me(r)].st # "none"
      BY <2>4 DEF BeginStop, Current, Mine
    <3>2. turn'[Me(r)].st # "none" /\ turn'[Me(r)].id = Mine(r).id
      BY <2>4, <3>1 DEF BeginStop, Stays, Mine
    <3>3. Mine(r).id \in Nat
      BY <1>a, ProvenanceAssumption DEF Mine, TurnRecord
    <3> QED
      BY <2>4, <3>2, <3>3 DEF Known, Me, Mine
  <2> QED
    BY <1>1, <2>2, <2>3, <2>4, IdStep, OneHook
<1>2. ASSUME NEW s \in Slots, hook'[s].op = "start", ~BeginStart(s) \/ s # r
      PROVE  /\ hook'[s].id = round'[Me(s)] /\ closed'[Me(s)] < hook'[s].id
             /\ \A q \in Slots \ {s} :
                  Me(q) = Me(s) /\ hook'[q].op # "none" => hook'[q].id < hook'[s].id
             /\ \A p \in Paths : author'[p] # <<Me(s), hook'[s].id>>
  <2>1. hook[s].op = "start" /\ hook'[s].id = hook[s].id
    BY <1>2, IdStep, OneHook
  <2>2. /\ hook[s].id = round[Me(s)] /\ closed[Me(s)] < hook[s].id
        /\ \A q \in Slots \ {s} :
              Me(q) = Me(s) /\ hook[q].op # "none" => hook[q].id < hook[s].id
        /\ \A p \in Paths : author[p] # <<Me(s), hook[s].id>>
    BY <2>1 DEF Ids, HookIds
  <2>3. round'[Me(s)] = round[Me(s)]
    <3>1. UNCHANGED round \/ BeginStart(r)
      BY DEF Step, BeginTool, Capture, Invoke, PreFails, ToolEnds,
       BeginStop, Resume, View, ScanPath, ScanFails, Commit, CommitLost, CommitCut,
       SaveBaseline, Prompt, Status, Verify, Decide, HookDies
    <3>2. BeginStart(r) => Me(r) # Me(s)
      BY <2>1 DEF BeginStart, Me
    <3> QED
      BY <1>a, <3>1, <3>2 DEF BeginStart, Typed, TypeOK
  <2>4. ASSUME NEW q \in Slots \ {s}, Me(q) = Me(s), hook'[q].op # "none"
        PROVE  hook'[q].id < hook'[s].id
    <3>1. CASE hook'[q].op = hook[q].op /\ hook'[q].id = hook[q].id
      BY <2>1, <2>2, <2>4, <3>1
    <3>2. CASE BeginStart(q) \/ BeginTool(q) \/ BeginStop(q)
      BY <2>1, <2>4, <3>2 DEF BeginStart, BeginTool, BeginStop, Me, At, Roles
    <3>3. CASE Decide(q) /\ Current(q) /\ hook'[q].id = Mine(q).id
      <4>1. hook[q].op # "none" /\ hook[q].id = Mine(q).id
        BY <3>3 DEF Decide, Current, Roles, At
      <4> QED
        BY <2>1, <2>2, <2>4, <3>3, <4>1
    <3> QED
      BY <2>4, <3>1, <3>2, <3>3, IdStep, OneHook
  <2>5. closed'[Me(s)] < hook'[s].id
    <3>1. CASE Stays(Me(s))
      BY <2>1, <2>2, <3>1 DEF Stays
    <3>2. CASE Me(r) = Me(s) /\ hook[r].op = "start" /\ hook'[r].op = "none"
      <4>1. r = s
        <5>1. hook[r].id = round[Me(r)]
          BY <3>2 DEF Ids, HookIds
        <5> QED
          BY <1>a, <2>1, <2>2, <3>2, <5>1
      <4> QED
        BY <1>2, <3>2, <4>1
    <3>3. CASE Me(r) = Me(s) /\ hook[r].op = "stop" /\ Current(r) /\ closed'[Me(s)] = turn[Me(s)].id
      <4>1. r # s /\ hook[r].id = turn[Me(s)].id
        BY <2>1, <3>3 DEF Current, Mine
      <4> QED
        BY <2>1, <2>2, <3>3, <4>1
    <3> QED
      BY <1>a, <1>b, <3>1, <3>2, <3>3 DEF TurnStep
  <2>6. ASSUME NEW p \in Paths
        PROVE  author'[p] # <<Me(s), hook'[s].id>>
    <3>1. author'[p] = author[p] \/ (hook[r].pc = "commit" /\ author'[p] = Authors(r, hook[r].scan)[p])
      BY DEF Step, BeginStart, BeginTool, Capture, Invoke, PreFails, ToolEnds,
       BeginStop, Resume, View, ScanPath, ScanFails, Commit, CommitLost, CommitCut,
       SaveBaseline, Prompt, Status, Verify, Decide, HookDies, At
    <3>2. Authors(r, hook[r].scan)[p] \in {author[p], None}
          \/ (hook[r].op # "start" /\ Authors(r, hook[r].scan)[p] = <<Me(r), hook[r].id>>)
      BY DEF Authors
    <3>3. hook[r].pc = "commit" => hook[r].op # "none"
      BY DEF Roles
    <3>4. None # <<Me(s), hook[s].id>>
      BY <1>a, NoneAssumption DEF HookRecord, Typed, TypeOK
    <3>8. <<Me(r), hook[r].id>> = <<Me(s), hook[s].id>> =>
            Me(r) = Me(s) /\ hook[r].id = hook[s].id
      OBVIOUS
    <3>5. CASE r = s
      BY <2>1, <2>2, <3>1, <3>2, <3>4, <3>5
    <3>6. CASE r # s /\ Me(r) = Me(s) /\ hook[r].pc = "commit"
      <4>1. hook[r].id # hook[s].id
        BY <1>a, <2>2, <3>3, <3>6 DEF HookRecord, Typed, TypeOK
      <4> QED
        BY <2>1, <2>2, <3>1, <3>2, <3>4, <3>8, <4>1
    <3>7. CASE r # s /\ ~(Me(r) = Me(s) /\ hook[r].pc = "commit")
      BY <2>1, <2>2, <3>1, <3>2, <3>4, <3>7, <3>8
    <3> QED
      BY <3>5, <3>6, <3>7
  <2> QED
    BY <2>1, <2>2, <2>3, <2>4, <2>5, <2>6
<1>3. ASSUME BeginStart(r)
      PROVE  /\ hook'[r].id = round'[Me(r)] /\ closed'[Me(r)] < hook'[r].id
             /\ \A q \in Slots \ {r} :
                  Me(q) = Me(r) /\ hook'[q].op # "none" => hook'[q].id < hook'[r].id
             /\ \A p \in Paths : author'[p] # <<Me(r), hook'[r].id>>
  <2> DEFINE a == Me(r)
  <2>1. /\ hook'[r].op = "start" /\ hook'[r].id = round[a] + 1 /\ round'[a] = round[a] + 1
        /\ UNCHANGED <<closed, author>>
    BY <1>3, <1>a, IdleHook, IdleType DEF BeginStart, HookRecord, Typed, TypeOK
  <2>2. closed[a] < hook'[r].id /\ closed[a] \in Nat
    BY <1>a, <2>1, ProvenanceAssumption DEF Ids, TurnIds, Typed, TypeOK
  <2>3. ASSUME NEW i \in 0 .. MaxTurns, Known(a, i)
        PROVE  i < hook'[r].id
    BY <1>a, <2>1, <2>2, <2>3, ProvenanceAssumption DEF Known, Ids, TurnIds, TurnRecord
  <2>4. \A q \in Slots \ {r} : Me(q) = a /\ hook'[q].op # "none" => hook'[q].id < hook'[r].id
    <3>1. ASSUME NEW q \in Slots \ {r}, Me(q) = a, hook[q].op # "none"
          PROVE  hook[q].id < hook'[r].id
      <4>1. hook[q].op # "start"
        BY <1>3, <3>1 DEF BeginStart, Me
      <4>2. Known(a, hook[q].id)
        BY <3>1, <4>1 DEF Ids, HookIds
      <4> QED
        BY <1>a, <2>3, <4>2 DEF HookRecord
    <3> QED
      BY <3>1, OneHook
  <2>5. \A p \in Paths : author[p] # <<a, hook'[r].id>>
    <3>1. ASSUME NEW p \in Paths, author[p] = <<a, hook'[r].id>>
          PROVE  FALSE
      <4>1. hook'[r].id \in 0 .. MaxTurns
        BY <1>a DEF HookRecord
      <4>2. Known(a, hook'[r].id)
        BY <1>a, <3>1, <4>1 DEF Ids, AuthorIds
      <4> QED
        BY <2>3, <4>1, <4>2, ProvenanceAssumption
    <3> QED
      BY <3>1
  <2> QED
    BY <2>1, <2>2, <2>4, <2>5
<1>4. ASSUME NEW s \in Slots, hook'[s].op = "start"
      PROVE  /\ hook'[s].id = round'[Me(s)] /\ closed'[Me(s)] < hook'[s].id
             /\ \A q \in Slots \ {s} :
                  Me(q) = Me(s) /\ hook'[q].op # "none" => hook'[q].id < hook'[s].id
             /\ \A p \in Paths : author'[p] # <<Me(s), hook'[s].id>>
  <2>1. CASE s = r /\ BeginStart(s)
    BY <2>1, <1>3, <1>4
  <2>2. CASE ~(s = r /\ BeginStart(s))
    BY <2>2, <1>2, <1>4
  <2> QED
    BY <2>1, <2>2
<1> QED
  BY <1>1, <1>4 DEF HookIds, Me

LEMMA AuthorIdsKept ==
  ASSUME Typed, Ids, Roles, NEW r \in Slots, Step(r)
  PROVE  AuthorIds'
<1>a. /\ \A a \in Agents : TurnStep(r, a)
      /\ Me(r) \in Agents /\ hook[r].id \in 0 .. MaxTurns
  BY StepOfTurn, ProvenanceAssumption DEF Ids, Me, Typed, TypeOK, HookRecord
<1>1. ASSUME NEW p \in Paths, NEW a \in Agents, NEW i \in 0 .. MaxTurns, author'[p] = <<a, i>>
      PROVE  Known(a, i)
  <2>1. author'[p] = author[p] \/ (hook[r].pc = "commit" /\ author'[p] = Authors(r, hook[r].scan)[p])
    BY DEF Step, BeginStart, BeginTool, Capture, Invoke, PreFails, ToolEnds,
     BeginStop, Resume, View, ScanPath, ScanFails, Commit, CommitLost, CommitCut,
     SaveBaseline, Prompt, Status, Verify, Decide, HookDies, At
  <2>2. Authors(r, hook[r].scan)[p] \in {author[p], None}
        \/ (hook[r].op # "start" /\ Authors(r, hook[r].scan)[p] = <<Me(r), hook[r].id>>)
    BY DEF Authors
  <2>3. None # <<a, i>>
    BY NoneAssumption
  <2>4. CASE author[p] = <<a, i>>
    BY <2>4 DEF Ids, AuthorIds
  <2>5. CASE hook[r].pc = "commit" /\ hook[r].op # "start" /\ <<Me(r), hook[r].id>> = <<a, i>>
    <3>1. Me(r) = a /\ hook[r].id = i
      BY <2>5
    <3> QED
      BY <2>5, <3>1 DEF Ids, HookIds, Roles
  <2> QED
    BY <1>1, <2>1, <2>2, <2>3, <2>4, <2>5
<1>2. ASSUME NEW p \in Paths, NEW a \in Agents, NEW i \in 0 .. MaxTurns, author'[p] = <<a, i>>
      PROVE  Known(a, i)'
  BY <1>a, <1>1, <1>2, KnownStill
<1> QED
  BY <1>2 DEF AuthorIds

LEMMA IdsKept ==
  ASSUME Typed, Ids, Roles, Next
  PROVE  Ids'
<1>1. ASSUME NEW p \in Paths, Write(p)
      PROVE  Ids'
  BY <1>1 DEF Write, Ids, TurnIds, HookIds, AuthorIds, Known, Me, manifest
<1>2. ASSUME NEW r \in Slots, Step(r)
      PROVE  Ids'
  <2>1. \A a \in Agents : TurnStep(r, a)
    BY <1>2, StepOfTurn DEF Ids
  <2>2. TurnIds'
    BY <1>2, <2>1, TurnIdsKept DEF TurnIds
  <2> QED
    BY <1>2, <2>2, HookIdsKept, AuthorIdsKept DEF Ids
<1> QED
  BY <1>1, <1>2 DEF Next

LEMMA InitIds == Init => Ids
  BY ProvenanceAssumption, NoneAssumption, IdleHook
  DEF Init, Ids, TurnIds, HookIds, AuthorIds, NoTurn

-----------------------------------------------------------------------------
(* The turn.                                                               *)

\* A turn that is marked was there before, with the marks it has.
Kept(t, u) ==
  u.cap => /\ t.cap /\ u.id = t.id /\ u.inc = t.inc
           /\ t.st # "none" => u.st # "none"
           /\ u.st = "degraded" => t.st = "degraded"

\* A change event makes no marks: it revises a turn or opens a new one.
LEMMA AppliedMarks ==
  ASSUME NEW turns \in [Agents -> TurnRecord], NEW a \in Agents, NEW id \in 0 .. MaxTurns,
         NEW before \in Snapshot, NEW after \in Snapshot
  PROVE  \A b \in Agents : Kept(turns[b], Applied(turns, a, id, before, after)[b])
<1>1. ASSUME NEW t \in TurnRecord
      PROVE  /\ Revise(t, before, after).cap = t.cap /\ Revise(t, before, after).id = t.id
             /\ Revise(t, before, after).inc = t.inc /\ Revise(t, before, after).st = t.st
  BY DEF Revise, TurnRecord
<1> DEFINE fresh == [NoTurn EXCEPT !.id = id, !.st = "ready"]
<1>2. fresh \in TurnRecord /\ fresh.cap = FALSE
  BY NoTurnType DEF TurnRecord, NoTurn
<1>3. Revise(fresh, before, after).cap = FALSE
  BY <1>1, <1>2
<1>4. Kept(turns[a], Revise(turns[a], before, after)) /\ Kept(turns[a], Revise(fresh, before, after))
  BY <1>1, <1>3 DEF Kept
<1> HIDE DEF fresh
<1>5. Applied(turns, a, id, before, after) \in
        {turns, [turns EXCEPT ![a] = Revise(turns[a], before, after)],
         [turns EXCEPT ![a] = Revise(fresh, before, after)]}
  BY DEF Applied, fresh
<1>6. \A b \in Agents : Kept(turns[b], turns[b])
  BY DEF Kept
<1> QED
  BY <1>4, <1>5, <1>6

LEMMA RecoveredMarks ==
  ASSUME TypeOK
  PROVE  \A b \in Agents : Kept(turn[b], RTurn[b])
<1>1. CASE Reached
  <2>1. pend \in Transition
    BY <1>1 DEF Reached, TypeOK
  <2> QED
    BY <1>1, <2>1, AppliedMarks DEF RTurn, Transition, TypeOK
<1>2. CASE ~Reached
  BY <1>2 DEF RTurn, Kept
<1> QED
  BY <1>1, <1>2

LEMMA KeptTwice ==
  ASSUME NEW t, NEW u, NEW v, Kept(t, u), Kept(u, v)
  PROVE  Kept(t, v)
  BY DEF Kept

\* The steps that may be taken beside a Stop of agent a, and those of the Stop
\* itself but for its status and its decision, make no mark on its turn.
LEMMA OthersKeep ==
  ASSUME Typed, Roles, NEW r \in Slots, Step(r), NEW a \in Agents,
         Me(r) = a => hook[r].op \in {"none", "start", "stop"} /\ ~BeginTool(r)
                      /\ ~Status(r) /\ ~Decide(r) /\ ~Resume(r)
  PROVE  Kept(turn[a], turn'[a])
<1> USE DEF Typed
<1>a. /\ turn \in [Agents -> TurnRecord] /\ RTurn \in [Agents -> TurnRecord]
      /\ Kept(turn[a], turn[a]) /\ Kept(turn[a], RTurn[a]) /\ Me(r) \in Agents
  BY RecoverType, RecoveredMarks, ProvenanceAssumption DEF TypeOK, Kept, Me
<1>1. CASE UNCHANGED turn \/ turn' = RTurn
  BY <1>1, <1>a
<1>2. CASE BeginTool(r) \/ Invoke(r) \/ PreFails(r) \/ Status(r) \/ Verify(r) \/ Decide(r)
  <2>1. Me(r) # a
    BY <1>2 DEF BeginTool, Invoke, PreFails, Status, Verify, Decide, At, Roles
  <2>2. turn'[a] \in {turn[a], RTurn[a]}
    BY <1>2, <1>a, <2>1 DEF BeginTool, Invoke, PreFails, Status, Verify, Decide
  <2> QED
    BY <1>a, <2>2
<1>3. CASE Resume(r)
  <2>1. Me(r) # a
    BY <1>3 DEF Resume, At, Roles
  <2>2. turn'[a] = turn[a]
    BY <1>3, <1>a, <2>1 DEF Resume
  <2> QED
    BY <1>a, <2>2
<1>4. CASE Prompt(r)
  <2>1. turn'[Me(r)].cap = FALSE
    BY <1>4, <1>a DEF Prompt, NoTurn
  <2>2. Me(r) # a => turn'[a] = turn[a]
    BY <1>4, <1>a DEF Prompt
  <2> QED
    BY <2>1, <2>2, <1>a DEF Kept
<1>5. CASE Commit(r)
  <2>1. hook[r].scan \in Snapshot /\ hook[r].id \in 0 .. MaxTurns /\ cur \in Snapshot
    BY <1>5 DEF Commit, ScannedInv, TypeOK, HookRecord
  <2>2. Kept(RTurn[a], turn'[a])
    BY <1>5, <1>a, <2>1, AppliedMarks DEF Commit
  <2> QED
    BY <1>a, <2>2, KeptTwice
<1>6. CASE BeginStart(r) \/ Capture(r) \/ ToolEnds(r) \/ BeginStop(r) \/ View(r)
           \/ (\E p \in Paths : ScanPath(r, p)) \/ ScanFails(r) \/ CommitLost(r)
           \/ CommitCut(r) \/ SaveBaseline(r) \/ HookDies(r)
  <2>1. UNCHANGED turn \/ turn' = RTurn
    BY <1>6 DEF BeginStart, Capture, ToolEnds, BeginStop, View, ScanPath, ScanFails,
       CommitLost, CommitCut, SaveBaseline, HookDies
  <2> QED
    BY <1>1, <2>1
<1> QED
  BY <1>2, <1>3, <1>4, <1>5, <1>6 DEF Step

-----------------------------------------------------------------------------
(* What a Stop has seen.                                                   *)

\* Files and the manifest only move on.
LEMMA Onward ==
  ASSUME IInv, Next
  PROVE  /\ \A p \in Paths : disk[p] <= disk'[p] /\ cur[p] <= cur'[p]
         /\ disk \in [Paths -> Nat] /\ disk' \in [Paths -> Nat]
         /\ cur \in [Paths -> Nat] /\ cur' \in [Paths -> Nat]
         /\ \A s \in Slots : hook[s].from \in [Paths -> Nat]
<1>1. Typed /\ Typed'
  BY NextTypes DEF IInv
<1> QED
  BY <1>1, DiskGrows, CommitMovesForward, ProvenanceAssumption
  DEF Typed, TypeOK, Snapshot, Stamp, HookRecord

\* A Stop that is not moved itself loses nothing by the step of another.
LEMMA OtherStep ==
  ASSUME IInv, StopInv, Next, NEW s \in Slots, hook[s].op = "stop", hook'[s] = hook[s],
         Kept(turn[Me(s)], turn'[Me(s)]), Clear(s) => Clear(s)'
  PROVE  Watches(s)'
<1>1. Watches(s) /\ hook[s].scan \in Scanned
  BY DEF StopInv, Sight, IInv, Typed, TypeOK, HookRecord
<1>2. \A p \in Paths : hook[s].from[p] <= disk[p] => hook'[s].from[p] <= disk'[p]
  BY Onward
<1>3. Seen(s) => Seen(s)'
  BY Onward DEF Seen
<1>4. Mine(s)'.cap => Mine(s).cap /\ Mine(s)'.inc = Mine(s).inc /\ (Current(s) => Current(s)')
                     /\ (Mine(s)'.st = "degraded" => Mine(s).st = "degraded")
  BY DEF Kept, Mine, Current, Me
<1> QED
  BY <1>1, <1>2, <1>3, <1>4 DEF Watches, At

\* The steps of the Stop itself.
LEMMA OwnStep ==
  ASSUME IInv, StopInv, NEW s \in Slots, Step(s), hook'[s].op = "stop"
  PROVE  Watches(s)'
<1>a. /\ hook \in [Slots -> HookRecord] /\ hook[s] \in HookRecord
      /\ turn \in [Agents -> TurnRecord] /\ Me(s) \in Agents /\ Typed
      /\ turn' \in [Agents -> TurnRecord]
  BY NextTypes, ProvenanceAssumption DEF IInv, Typed, TypeOK, Me, Next
<1>b. Next
  BY DEF Next
<1>c. Idle \in HookRecord /\ Idle.op = "none"
  BY IdleType, IdleHook
<1>d. BeginStop(s) => hook[s].pc = "free"
  BY DEF BeginStop, At, Me
<1>1. CASE BeginStop(s)
  <2>1. /\ hook'[s].pc = "resume" /\ hook'[s].from = disk /\ UNCHANGED <<disk, turn>>
        /\ hook'[s].id = Mine(s).id /\ Mine(s).st # "none"
    BY <1>1, <1>a, <1>c DEF BeginStop, HookRecord, files
  <2> QED
    BY <2>1, <1>b, Onward DEF Watches, At, Mine, Current, Me
<1>2. ASSUME hook[s].op = "stop", hook'[s].from = hook[s].from, hook'[s].id = hook[s].id,
             ~Status(s), ~Decide(s), ~BeginTool(s), ~Resume(s), hook'[s].pc # "decide",
             hook'[s].pc \in {"scan", "commit"} => \A p \in Paths :
               hook'[s].scan[p] # None \/ hook'[s].pc = "commit" => hook[s].from[p] <= hook'[s].scan[p],
             hook'[s].pc = "status" /\ hook'[s].ok =>
               Clear(s)' /\ \A p \in Paths : hook[s].from[p] <= cur'[p]
      PROVE  Watches(s)'
  <2>1. Watches(s)
    BY <1>2 DEF StopInv, Sight
  <2>2. Kept(turn[Me(s)], turn'[Me(s)])
    BY <1>2, <1>a, OthersKeep DEF StopInv
  <2>3. Mine(s)'.cap => Current(s)'
    BY <1>2, <2>1, <2>2 DEF Kept, Mine, Current, Me, Watches
  <2>4. \A p \in Paths : hook'[s].from[p] <= disk'[p]
    BY <1>2, <2>1, <1>b, Onward DEF Watches
  <2> QED
    BY <1>2, <2>3, <2>4 DEF Watches, At, Seen
<1>3. CASE Resume(s)
  <2>1. /\ hook'[s].op = hook[s].op /\ hook'[s].from = hook[s].from /\ hook'[s].id = hook[s].id
        /\ hook'[s].pc \in {"view", "status"} /\ (hook'[s].pc = "status" => ~hook'[s].ok)
        /\ hook[s].pc = "resume"
    BY <1>3, <1>a DEF Resume, HookRecord, At
  <2>2. hook[s].op = "stop" /\ Watches(s)
    BY <2>1, <1>3 DEF StopInv, Sight
  <2>3. Mine(s)'.cap => Current(s)'
    <3>1. UNCHANGED turn \/ (Current(s) /\ turn' = [turn EXCEPT ![Me(s)].st = "degraded"])
      BY <1>3 DEF Resume
    <3>2. Mine(s)'.cap = Mine(s).cap /\ Mine(s)'.id = Mine(s).id
          /\ (Mine(s).st # "none" => Mine(s)'.st # "none")
      BY <1>a, <3>1 DEF Mine, TurnRecord, Me
    <3> QED
      BY <2>1, <2>2, <3>2 DEF Watches, Current
  <2>4. \A p \in Paths : hook'[s].from[p] <= disk'[p]
    BY <2>1, <2>2, <1>b, Onward DEF Watches
  <2> QED
    BY <2>1, <2>3, <2>4 DEF Watches, At
<1>4. CASE View(s)
  <2>1. /\ hook'[s].op = hook[s].op /\ hook'[s].from = hook[s].from /\ hook'[s].id = hook[s].id
        /\ hook'[s].pc = "scan" /\ hook'[s].scan = Idle.scan /\ hook[s].pc = "view"
    BY <1>4, <1>a DEF View, HookRecord, At
  <2>2. ~Status(s) /\ ~Decide(s) /\ ~BeginTool(s) /\ ~Resume(s)
    BY <2>1 DEF Status, Decide, BeginTool, Resume, At
  <2>3. \A p \in Paths : hook'[s].scan[p] = None
    BY <2>1, IdleHook
  <2> QED
    BY <1>2, <2>1, <2>2, <2>3
<1>5. ASSUME NEW p \in Paths, ScanPath(s, p)
      PROVE  Watches(s)'
  <2>1. hook[s].pc = "scan" /\ hook[s].op = "stop"
    BY <1>5, <1>a, <1>d, RoleStep DEF ScanPath, At, StopInv
  <2>2. hook' = [hook EXCEPT ![s] = [@ EXCEPT !.scan[p] = disk[p],
                   !.pc = IF \A q \in Paths \ {p} : hook[s].scan[q] # None
                          THEN "commit" ELSE "scan"]]
    BY <1>5, <2>1 DEF ScanPath
  <2>3. hook[s].scan \in [Paths -> Stamp \cup {None}]
    BY <1>a DEF HookRecord, Scanned
  <2>4. /\ hook'[s].op = hook[s].op /\ hook'[s].from = hook[s].from /\ hook'[s].id = hook[s].id
        /\ hook'[s].pc \in {"scan", "commit"} /\ hook'[s].scan[p] = disk[p]
        /\ \A q \in Paths \ {p} : hook'[s].scan[q] = hook[s].scan[q]
        /\ hook'[s].pc = "commit" => \A q \in Paths \ {p} : hook[s].scan[q] # None
    BY <2>2, <2>3, <1>a DEF HookRecord
  <2>5. Watches(s)
    BY <2>1 DEF StopInv, Sight
  <2>6. \A q \in Paths : hook'[s].scan[q] # None \/ hook'[s].pc = "commit" =>
          hook[s].from[q] <= hook'[s].scan[q]
    <3>1. hook[s].from[p] <= hook'[s].scan[p]
      BY <2>4, <2>5 DEF Watches
    <3>2. \A q \in Paths \ {p} : hook'[s].scan[q] # None \/ hook'[s].pc = "commit" =>
            hook[s].from[q] <= hook'[s].scan[q]
      BY <2>1, <2>4, <2>5 DEF Watches
    <3> QED
      BY <3>1, <3>2
  <2>7. ~Status(s) /\ ~Decide(s) /\ ~BeginTool(s) /\ ~Resume(s)
    BY <2>1 DEF Status, Decide, BeginTool, Resume, At
  <2> QED
    BY <1>2, <2>1, <2>4, <2>6, <2>7
\* An observation that failed says so.
<1>6. ASSUME hook[s].pc \in {"scan", "commit"},
             hook'[s] \in {Observed(s, FALSE), Unstored(s), [hook[s] EXCEPT !.pc = "view"]}
      PROVE  Watches(s)'
  <2>1. Observed(s, FALSE) \in HookRecord
    BY <1>a, ObservedHook
  <2>2. Unstored(s).pc = Observed(s, FALSE).pc /\ Unstored(s).op = Observed(s, FALSE).op
        /\ Unstored(s).ok = Observed(s, FALSE).ok /\ Unstored(s).id = Observed(s, FALSE).id
        /\ Unstored(s).from = Observed(s, FALSE).from
    BY <2>1 DEF Unstored, HookRecord
  <2>3. /\ hook[s].op = "stop" /\ hook'[s].from = hook[s].from /\ hook'[s].id = hook[s].id
        /\ hook'[s].pc \in {"view", "status"} /\ (hook'[s].pc = "status" => ~hook'[s].ok)
    <3>1. CASE hook'[s] = [hook[s] EXCEPT !.pc = "view"]
      BY <3>1, <1>a DEF HookRecord
    <3>2. CASE hook'[s] \in {Observed(s, FALSE), Unstored(s)}
      BY <1>a, <1>c, <2>2, <3>2, ObservedAs DEF After
    <3> QED
      BY <1>6, <3>1, <3>2
  <2>4. ~Status(s) /\ ~Decide(s) /\ ~BeginTool(s) /\ ~Resume(s)
    BY <1>6 DEF Status, Decide, BeginTool, Resume, At
  <2> QED
    BY <1>2, <2>3, <2>4
<1>7. CASE ScanFails(s) \/ CommitLost(s) \/ CommitCut(s)
  <2>1. hook[s].pc \in {"scan", "commit"}
        /\ hook'[s] \in {Observed(s, FALSE), Unstored(s), [hook[s] EXCEPT !.pc = "view"], Idle}
    BY <1>7, <1>a DEF ScanFails, CommitLost, CommitCut, End, At
  <2> QED
    BY <1>6, <1>c, <2>1
<1>8. CASE Commit(s)
  <2>1. Observed(s, TRUE) \in HookRecord
    BY <1>a, ObservedHook
  <2>2. hook'[s] \in {Idle, [Observed(s, TRUE) EXCEPT !.gen = gen', !.cur = cur']}
    BY <1>8, <1>a DEF Commit
  <2>3. hook'[s] = [Observed(s, TRUE) EXCEPT !.gen = gen', !.cur = cur']
    BY <2>2, <1>c
  <2>4. /\ hook'[s].pc = Observed(s, TRUE).pc /\ hook'[s].op = Observed(s, TRUE).op
        /\ hook'[s].from = Observed(s, TRUE).from /\ hook'[s].id = Observed(s, TRUE).id
    BY <2>1, <2>3 DEF HookRecord
  <2>5. /\ hook[s].op = "stop" /\ hook'[s].from = hook[s].from /\ hook'[s].id = hook[s].id
        /\ hook'[s].pc = "status"
    BY <2>4, <1>a, <1>c, ObservedAs DEF After
  <2>6. hook[s].pc = "commit" /\ cur' = hook[s].scan /\ Clear(s)'
    BY <1>8, <2>5 DEF Commit, Advances, At, Clear
  <2>7. \A p \in Paths : hook[s].from[p] <= cur'[p]
    BY <2>5, <2>6 DEF StopInv, Sight, Watches, At
  <2>8. ~Status(s) /\ ~Decide(s) /\ ~BeginTool(s) /\ ~Resume(s)
    BY <2>6 DEF Status, Decide, BeginTool, Resume, At
  <2> QED
    BY <1>2, <2>5, <2>6, <2>7, <2>8
\* The turn is marked incomplete unless the observation was.
<1>9. CASE Status(s)
  <2>1. hook[s].pc = "status" /\ hook[s].op = "stop"
    BY <1>9, <1>a, <1>d, RoleStep DEF Status, At, StopInv
  <2>2. /\ hook'[s].from = hook[s].from /\ hook'[s].id = hook[s].id /\ hook'[s].pc = "decide"
        /\ UNCHANGED <<disk, cur>>
    BY <1>9, <2>1, <1>a DEF Status, HookRecord, files
  <2>3. Watches(s)
    BY <2>1 DEF StopInv, Sight
  <2>4. CASE ~Current(s)
    <3>1. UNCHANGED <<turn, pend>> /\ ~Mine(s).cap
      BY <1>9, <2>3, <2>4 DEF Status, Watches
    <3> QED
      BY <2>2, <2>3, <3>1 DEF Watches, At, Mine, Me
  <2>5. CASE Current(s)
    <3> DEFINE t == IF Late(s) THEN Revise(Mine(s), hook[s].cur, hook[s].scan) ELSE Mine(s)
    <3>1. t \in TurnRecord /\ t.id = Mine(s).id /\ t.st = Mine(s).st /\ t.cap = Mine(s).cap
      <4>1. Mine(s) \in TurnRecord
        BY <1>a DEF Mine
      <4>2. CASE Late(s)
        <5>1. hook[s].cur \in Snapshot /\ hook[s].scan \in Snapshot
          BY <1>a, <4>2 DEF Late, HookRecord, Scanned, Snapshot
        <5>2. Revise(Mine(s), hook[s].cur, hook[s].scan) \in TurnRecord
          BY <4>1, <5>1, ReviseType
        <5> QED
          BY <4>1, <4>2, <5>2 DEF Revise, TurnRecord
      <4> QED
        BY <4>1, <4>2
    <3>2. turn' = [turn EXCEPT ![Me(s)] = [t EXCEPT !.inc = ~hook[s].ok \/ t.st = "degraded",
                                                  !.cap = @ \/ hook[s].op # "stop"]]
      BY <1>9, <2>5 DEF Status
    <3> HIDE DEF t
    <3>3. turn'[Me(s)].id = t.id /\ turn'[Me(s)].st = t.st
          /\ turn'[Me(s)].inc = (~hook[s].ok \/ t.st = "degraded")
      BY <1>a, <3>1, <3>2 DEF TurnRecord
    <3>4. Current(s)'
      BY <2>2, <2>5, <3>1, <3>3 DEF Current, Mine, Me
    <3>5. ~Mine(s)'.inc => hook[s].ok /\ Mine(s)'.st # "degraded"
      BY <3>3 DEF Mine, Me
    <3>6. Clear(s) => Clear(s)'
      BY <1>9, <2>2 DEF Status, Clear, Me
    <3> QED
      BY <2>1, <2>2, <2>3, <3>4, <3>5, <3>6 DEF Watches, At, Seen
  <2> QED
    BY <2>4, <2>5
<1>10. CASE Decide(s)
  <2> DEFINE g == [Idle EXCEPT !.pc = "view", !.op = "restart", !.id = Mine(s).id]
  <2>1. hook' = [hook EXCEPT ![s] = Idle] \/ hook' = [hook EXCEPT ![s] = g]
    BY <1>10 DEF Decide, End
  <2>2. g.op = "restart"
    BY <1>c DEF HookRecord
  <2> HIDE DEF g
  <2> QED
    BY <1>a, <1>c, <2>1, <2>2
<1>11. CASE BeginStart(s) \/ BeginTool(s)
  <2>1. CASE BeginStart(s)
    BY <2>1, <1>a, <1>c DEF BeginStart, HookRecord
  <2>2. CASE BeginTool(s)
    <3>1. hook'[s].op \in {"work", "check"}
      BY <2>2, <1>a, <1>c DEF BeginTool, HookRecord
    <3> QED
      BY <3>1
  <2> QED
    BY <1>11, <2>1, <2>2
<1>12. CASE Prompt(s) \/ Verify(s)
  BY <1>12, <1>a, <1>c DEF Prompt, Verify, End
<1>13. CASE Capture(s) \/ Invoke(s) \/ PreFails(s) \/ ToolEnds(s) \/ SaveBaseline(s)
  <2>1. hook[s].pc \in {"capture", "invoke", "tool", "baseline"}
    BY <1>13 DEF Capture, Invoke, PreFails, ToolEnds, SaveBaseline, At
  <2> QED
    BY <2>1, <1>a, <1>d, RoleStep DEF StopInv, Roles
<1>14. CASE HookDies(s)
  <2>1. hook[s].pc \in {"capture", "invoke"} \/ hook'[s] = Idle
    BY <1>14, <1>a DEF HookDies
  <2>2. ~BeginStop(s)
    BY <1>14, <1>d DEF HookDies, At
  <2> QED
    BY <2>1, <2>2, <1>a, <1>c, RoleStep DEF StopInv, Roles
<1> QED
  BY <1>1, <1>3, <1>4, <1>5, <1>7, <1>8, <1>9, <1>10, <1>11, <1>12, <1>13, <1>14 DEF Step

\* Beside a Stop only a prompt of its agent may leave a transition, of a later turn.
LEMMA OthersClear ==
  ASSUME Typed, Roles, Ids, NEW r \in Slots, Step(r), NEW s \in Slots, r # s,
         hook[s].op = "stop", hook'[s] = hook[s],
         Me(r) = Me(s) => hook[r].op \in {"none", "start"}, Clear(s)
  PROVE  Clear(s)'
<1>1. pend' \in {pend, None} \/ CommitCut(r)
  BY DEF Step, BeginStart, BeginTool, Capture, Invoke, PreFails, ToolEnds,
     BeginStop, Resume, View, ScanPath, ScanFails, Commit, CommitLost,
     SaveBaseline, Prompt, Status, Verify, Decide, HookDies, manifest
<1>2. CASE pend' \in {pend, None}
  BY <1>2 DEF Clear, Me
<1>3. CASE CommitCut(r)
  <2>1. pend'.agent = Me(r) /\ pend'.id = hook[r].id /\ hook[r].op # "none"
    BY <1>3 DEF CommitCut, At, Roles
  <2>2. Me(r) = Me(s) => hook[s].id < hook[r].id
    BY <2>1 DEF Ids, HookIds
  <2>3. hook[s].id \in Nat /\ hook[r].id \in Nat
    BY ProvenanceAssumption DEF Typed, TypeOK, HookRecord
  <2> QED
    BY <2>1, <2>2, <2>3 DEF Clear, Me
<1> QED
  BY <1>1, <1>2, <1>3

LEMMA SightKept ==
  ASSUME IInv, StopInv, Next
  PROVE  Sight'
<1> USE DEF StopInv
<1>a. Typed
  BY DEF IInv
<1>1. ASSUME NEW p \in Paths, Write(p), NEW s \in Slots, hook'[s].op = "stop"
      PROVE  Watches(s)'
  <2>1. UNCHANGED <<hook, turn>>
    BY <1>1 DEF Write
  <2> QED
    BY <1>1, <2>1, OtherStep DEF Kept, Clear, Write, manifest, Me
<1>2. ASSUME NEW r \in Slots, Step(r), NEW s \in Slots, hook'[s].op = "stop"
      PROVE  Watches(s)'
  <2>1. CASE r = s
    BY <1>2, <2>1, OwnStep
  <2>2. CASE r # s
    <3>1. hook'[s] = hook[s] /\ hook[s].op = "stop" /\ Me(s) \in Agents
      BY <1>a, <1>2, <2>2, OneHook, ProvenanceAssumption DEF Me
    <3>2. Me(r) = Me(s) => hook[r].op \in {"none", "start"}
      BY <2>2, <3>1 DEF Alone
    <3>3. Me(r) = Me(s) => ~BeginTool(r) /\ ~Status(r) /\ ~Decide(r) /\ ~Resume(r)
      BY <3>1, <3>2 DEF BeginTool, Status, Decide, Resume, At, Roles, Me
    <3>4. Kept(turn[Me(s)], turn'[Me(s)])
      BY <1>a, <1>2, <3>1, <3>2, <3>3, OthersKeep
    <3>5. Clear(s) => Clear(s)'
      BY <1>2, <2>2, <3>1, <3>2, OthersClear, <1>a
    <3> QED
      BY <1>2, <3>1, <3>4, <3>5, OtherStep DEF Next
  <2> QED
    BY <2>1, <2>2
<1> QED
  BY <1>1, <1>2 DEF Next, Sight

LEMMA StopInvKept == IInv /\ StopInv /\ [Next]_vars => StopInv'
<1> SUFFICES ASSUME IInv, StopInv, [Next]_vars PROVE StopInv'
  OBVIOUS
<1>1. CASE Next
  BY <1>1, RolesKept, AloneKept, IdsKept, SightKept DEF StopInv, IInv
<1>2. CASE UNCHANGED vars
  BY <1>2 DEF vars, StopInv, Roles, Alone, Ids, TurnIds, HookIds, AuthorIds, Known,
     Sight, Watches, Seen, Clear, Mine, Current, Me, At
<1> QED
  BY <1>1, <1>2

LEMMA InitStopInv == Init => StopInv
  BY IdleHook, InitIds DEF Init, StopInv, Roles, Alone, Sight

\* A Stop that is released by its evidence has in the manifest it judged every
\* file as it was when the Stop began, or later: also writes that kept size and
\* mtime, and whatever prompts, dead hooks and cut commits came between.
THEOREM StopSaw == Spec => StopSawEarlierWrites
<1>1. IInv /\ StopInv => (\A s \in Slots : Released(s) => \A p \in Paths : cur[p] >= hook[s].from[p])
  <2> SUFFICES ASSUME IInv, StopInv, NEW s \in Slots, Released(s), NEW p \in Paths
               PROVE  cur[p] >= hook[s].from[p]
    OBVIOUS
  <2>1. At(s, "decide") /\ Mine(s).cap /\ ~Mine(s).inc
    BY DEF Released, Passes, At
  <2>2. Seen(s)
    BY <2>1 DEF StopInv, Roles, Sight, Watches, At
  <2>3. cur[p] \in Nat /\ hook[s].from[p] \in Nat
    BY ProvenanceAssumption DEF IInv, Typed, TypeOK, Snapshot, Stamp, HookRecord
  <2> QED
    BY <2>2, <2>3 DEF Seen
<1>2. IInv /\ StopInv => [\A s \in Slots : Released(s) =>
                            \A p \in Paths : cur[p] >= hook[s].from[p]]_vars
  BY <1>1
<1> QED
  BY <1>2, InitIInv, NextIInv, InitStopInv, StopInvKept, PTL DEF Spec, StopSawEarlierWrites

-----------------------------------------------------------------------------
(* What a turn owes.                                                       *)

\* A transition of which workspace-current is one side, to the byte.
PendExact == pend # None => cur = pend.before \/ cur = pend.after

\* A hook that is not observing has no scan of a failed commit with it.
Unhurt ==
  \A s \in Slots : hook[s].pc \in {"capture", "invoke", "tool", "resume", "status"} =>
    hook[s].scan = Idle.scan

\* OwedIsCommitted, for one file and one agent.
Owes(p, a) ==
  /\ author[p] = <<a, RTurn[a].id>> /\ RTurn[a].st # "none" => Shows(RTurn[a], p)
  /\ RTurn[a].rev[p] <= cur[p]

\* Two states of a turn that owe the same.
SameDebt(t, u) ==
  u.rev = t.rev /\ u.first = t.first /\ u.id = t.id /\ (u.st = "none" <=> t.st = "none")

\* ... and are the same turn in the same state, but that it may be degraded.
Alike(t, u) ==
  SameDebt(t, u) /\ u.bl = t.bl /\ (u.st = t.st \/ (t.st = "ready" /\ u.st = "degraded"))

LEMMA RTurnNext ==
  ASSUME TypeOK', NEW b \in Agents
  PROVE  RTurn'[b] = IF Reached' /\ pend'.agent = b
                     THEN Evented(turn'[b], closed'[b], pend'.id, pend'.before, pend'.after)
                     ELSE turn'[b]
<1>1. CASE Reached'
  <2>1. pend'.agent \in Agents
    BY <1>1 DEF Reached, TypeOK, Transition
  <2> QED
    BY <1>1, <2>1 DEF RTurn, TypeOK, Applied, Evented
<1>2. CASE ~Reached'
  BY <1>2 DEF RTurn
<1> QED
  BY <1>1, <1>2

\* An event of the same change makes them owe the same again.
LEMMA EventedAlike ==
  ASSUME NEW t \in TurnRecord, NEW u \in TurnRecord, SameDebt(t, u), NEW shut, NEW id,
         NEW before \in Snapshot, NEW after \in Snapshot
  PROVE  /\ SameDebt(Evented(t, shut, id, before, after), Evented(u, shut, id, before, after))
         /\ Alike(t, u) =>
              Alike(Evented(t, shut, id, before, after), Evented(u, shut, id, before, after))
<1>1. SameDebt(Revise(t, before, after), Revise(u, before, after))
  <2>1. \A p \in Paths : Revise(u, before, after).first[p] = Revise(t, before, after).first[p]
    BY ReviseFields DEF SameDebt
  <2>2. \A p \in Paths : Revise(u, before, after).rev[p] = Revise(t, before, after).rev[p]
    BY <2>1, ReviseFields DEF SameDebt
  <2>3. Revise(t, before, after) \in TurnRecord /\ Revise(u, before, after) \in TurnRecord
    BY ReviseType
  <2>4. Revise(u, before, after).first = Revise(t, before, after).first
        /\ Revise(u, before, after).rev = Revise(t, before, after).rev
    BY <2>1, <2>2, <2>3 DEF TurnRecord, Snapshot
  <2> QED
    BY <2>4, ReviseFields DEF SameDebt
<1>2. Alike(t, u) => Alike(Revise(t, before, after), Revise(u, before, after))
  BY <1>1, ReviseFields DEF Alike
<1>3. \A x : Alike(x, x) /\ SameDebt(x, x)
  BY DEF Alike, SameDebt
<1>4. t.st = "none" <=> u.st = "none"
  BY DEF SameDebt
<1>5. SameDebt(Evented(t, shut, id, before, after), Evented(u, shut, id, before, after))
  BY <1>1 DEF Evented, SameDebt
<1>6. ASSUME Alike(t, u)
      PROVE  Alike(Evented(t, shut, id, before, after), Evented(u, shut, id, before, after))
  BY <1>2, <1>3, <1>6 DEF Evented, Alike, SameDebt
<1> QED
  BY <1>5, <1>6

\* A step that leaves the manifest alone and changes no debt of the turn.
LEMMA DebtKept ==
  ASSUME TypeOK, TypeOK', UNCHANGED <<pend, cur>>, NEW a \in Agents,
         closed'[a] = closed[a], SameDebt(turn[a], turn'[a])
  PROVE  /\ SameDebt(RTurn[a], RTurn'[a])
         /\ Alike(turn[a], turn'[a]) => Alike(RTurn[a], RTurn'[a])
<1>1. Reached' <=> Reached
  BY DEF Reached
<1>2. turn[a] \in TurnRecord /\ turn'[a] \in TurnRecord
  BY DEF TypeOK
<1>3. Reached => pend.before \in Snapshot /\ pend.after \in Snapshot
  BY DEF Reached, TypeOK, Transition
<1> QED
  BY <1>1, <1>2, <1>3, RTurnAt, RTurnNext, EventedAlike

\* A step that recovers first.
LEMMA DebtRecovered ==
  ASSUME pend' = None, NEW a \in Agents
  PROVE  /\ SameDebt(RTurn[a], turn'[a]) => SameDebt(RTurn[a], RTurn'[a])
         /\ Alike(RTurn[a], turn'[a]) => Alike(RTurn[a], RTurn'[a])
  BY DEF RTurn, Reached

\* The steps that neither commit nor begin nor end the turn.
LEMMA DebtStep ==
  ASSUME Typed, Unhurt, NEW r \in Slots, Step(r), NEW a \in Agents,
         ~Commit(r), ~CommitCut(r),
         Me(r) = a => /\ ~Prompt(r) /\ (Decide(r) => turn'[a].st # "none")
                      /\ BeginTool(r) => RTurn[a].st # "none"
  PROVE  SameDebt(RTurn[a], RTurn'[a]) /\ (~BeginTool(r) => Alike(RTurn[a], RTurn'[a]))
<1>a. /\ turn \in [Agents -> TurnRecord] /\ RTurn \in [Agents -> TurnRecord]
      /\ Me(r) \in Agents /\ TypeOK /\ TypeOK' /\ Mine(r) \in TurnRecord
  BY RecoverType, NextTypes, ProvenanceAssumption DEF Typed, TypeOK, Me, Mine, Next
<1>b. Alike(RTurn[a], RTurn[a]) /\ Alike(turn[a], turn[a])
  BY DEF Alike, SameDebt
<1>1. CASE turn' = RTurn /\ pend' = None
  BY <1>1, <1>b, DebtRecovered DEF Alike
<1>2. ASSUME UNCHANGED <<pend, cur, closed>>, NEW t \in TurnRecord, Alike(Mine(r), t),
             turn' = [turn EXCEPT ![Me(r)] = t]
      PROVE  Alike(RTurn[a], RTurn'[a])
  <2>1. Alike(turn[a], turn'[a])
    BY <1>a, <1>b, <1>2 DEF Mine
  <2> QED
    BY <1>a, <1>2, <2>1, DebtKept DEF Alike
<1>3. CASE UNCHANGED <<pend, cur, closed, turn>>
  BY <1>a, <1>b, <1>3, DebtKept DEF Alike
<1>4. CASE BeginStart(r) \/ Capture(r) \/ ToolEnds(r) \/ BeginStop(r)
           \/ (\E p \in Paths : ScanPath(r, p)) \/ ScanFails(r) \/ HookDies(r)
  BY <1>3, <1>4 DEF BeginStart, Capture, ToolEnds, BeginStop, ScanPath, ScanFails, HookDies,
     manifest
<1>5. CASE View(r) \/ CommitLost(r) \/ SaveBaseline(r)
  BY <1>1, <1>5 DEF View, CommitLost, SaveBaseline
<1>6. ASSUME BeginTool(r)
      PROVE  SameDebt(RTurn[a], RTurn'[a])
  <2> DEFINE i == BoundId(Me(r))
             t == Bootstrapped(RTurn[Me(r)], i, base[Me(r)].id = i)
             u == [t EXCEPT !.inv[r] = None]
  <2>1. turn' = [RTurn EXCEPT ![Me(r)] = u] /\ pend' = None
    BY <1>6 DEF BeginTool
  <2>2. CASE Me(r) = a
    <3>1. t \in TurnRecord /\ SameDebt(RTurn[a], t)
      BY <1>6, <1>a, <2>2 DEF Bootstrapped, TurnRecord, SameDebt
    <3> HIDE DEF t
    <3>2. SameDebt(RTurn[a], u)
      BY <3>1 DEF TurnRecord, SameDebt
    <3> HIDE DEF u
    <3> QED
      BY <1>a, <2>1, <2>2, <3>2, DebtRecovered
  <2>3. CASE Me(r) # a
    <3>1. turn'[a] = RTurn[a]
      BY <1>a, <2>1, <2>3
    <3> QED
      BY <1>b, <2>1, <3>1, DebtRecovered DEF Alike
  <2> QED
    BY <2>2, <2>3
<1>7. CASE Invoke(r)
  <2> DEFINE u == [RTurn[Me(r)] EXCEPT !.inv[r] = hook[r].cov, !.cap = TRUE]
  <2>1. pend' = None /\ (turn' = RTurn \/ turn' = [RTurn EXCEPT ![Me(r)] = u])
    BY <1>7, <1>a DEF Invoke
  <2>2. Alike(RTurn[Me(r)], u)
    BY <1>a DEF TurnRecord, Alike, SameDebt
  <2> HIDE DEF u
  <2>3. Alike(RTurn[a], turn'[a])
    BY <1>a, <1>b, <2>1, <2>2
  <2> QED
    BY <2>1, <2>3, DebtRecovered DEF Alike
<1>8. CASE PreFails(r)
  <2>1. [Mine(r) EXCEPT !.inc = TRUE, !.cap = TRUE] \in TurnRecord
        /\ Alike(Mine(r), [Mine(r) EXCEPT !.inc = TRUE, !.cap = TRUE])
    BY <1>a DEF TurnRecord, Alike, SameDebt
  <2> QED
    BY <1>2, <1>3, <1>8, <2>1 DEF PreFails, Mine, manifest, Alike
<1>9. CASE Resume(r)
  <2>1. Mine(r).st = "ready" => [Mine(r) EXCEPT !.st = "degraded"] \in TurnRecord
        /\ Alike(Mine(r), [Mine(r) EXCEPT !.st = "degraded"])
    BY <1>a DEF TurnRecord, Alike, SameDebt
  <2> QED
    BY <1>2, <1>3, <1>9, <2>1 DEF Resume, Mine, manifest, Alike
<1>10. CASE Status(r)
  <2>1. ~Late(r)
    <3>1. hook[r].scan = Idle.scan
      BY <1>10 DEF Status, At, Unhurt
    <3>2. Paths # {} => ~Late(r)
      BY <3>1, IdleHook DEF Late
    <3> QED
      BY <3>2 DEF Late, Delta
  <2> DEFINE t == [Mine(r) EXCEPT !.inc = ~hook[r].ok \/ Mine(r).st = "degraded",
                                  !.cap = @ \/ hook[r].op # "stop"]
  <2>2. t \in TurnRecord /\ Alike(Mine(r), t)
    BY <1>a DEF TurnRecord, Alike, SameDebt
  <2>3. UNCHANGED <<pend, cur, closed>> /\ (UNCHANGED turn \/ turn' = [turn EXCEPT ![Me(r)] = t])
    BY <1>10, <2>1, <1>a DEF Status
  <2> HIDE DEF t
  <2> QED
    BY <1>2, <1>3, <2>2, <2>3 DEF Alike
<1>11. CASE Verify(r)
  <2>1. UNCHANGED <<pend, cur, closed>>
        /\ (UNCHANGED turn \/ \E x : turn' = [turn EXCEPT ![Me(r)].results = x])
    BY <1>11, Zenon DEF Verify, manifest
  <2>2. ASSUME NEW x, turn' = [turn EXCEPT ![Me(r)].results = x]
        PROVE  Alike(turn[a], turn'[a])
    BY <1>a, <1>b, <2>2 DEF Alike, SameDebt, TurnRecord
  <2> QED
    BY <1>a, <1>b, <2>1, <2>2, DebtKept DEF Alike
<1>12. CASE Prompt(r) \/ Decide(r)
  <2>1. CASE Me(r) # a
    <3>1. turn'[a] = turn[a] /\ closed'[a] = closed[a] /\ UNCHANGED <<pend, cur>>
      BY <1>12, <1>a, <2>1 DEF Prompt, Decide, manifest, Typed, TypeOK
    <3> QED
      BY <1>a, <1>b, <3>1, DebtKept DEF Alike
  <2>2. CASE Me(r) = a
    <3>1. Decide(r) /\ turn'[a].st # "none"
      BY <1>12, <2>2
    <3>2. UNCHANGED <<pend, cur, closed>>
          /\ (UNCHANGED turn \/ turn' = [turn EXCEPT ![a].blocks = @ + 1])
      <4>1. NoTurn.st = "none"
        BY DEF NoTurn
      <4> QED
        BY <1>a, <2>2, <3>1, <4>1 DEF Decide, manifest
    <3>3. Alike(turn[a], turn'[a])
      BY <1>a, <1>b, <3>2 DEF Alike, SameDebt, TurnRecord
    <3> QED
      BY <1>a, <3>2, <3>3, DebtKept DEF Alike
  <2> QED
    BY <2>1, <2>2
<1> QED
  BY <1>4, <1>5, <1>6, <1>7, <1>8, <1>9, <1>10, <1>11, <1>12 DEF Step, Alike

\* A turn that starts owes nothing but what the next recovery adds.
LEMMA NewTurnOwes ==
  ASSUME TypeOK, TypeOK', PendExact, NEW p \in Paths, NEW a \in Agents,
         turn'[a].rev = Zero, UNCHANGED <<pend, cur>>
  PROVE  RTurn'[a].rev[p] <= cur'[p]
<1>a. turn'[a] \in TurnRecord /\ cur \in [Paths -> Nat]
  BY ProvenanceAssumption DEF TypeOK, Snapshot, Stamp
<1>1. CASE Reached' /\ pend'.agent = a
  <2>1. pend \in Transition /\ pend.before \in Snapshot /\ pend.after \in Snapshot
    BY <1>1 DEF Reached, TypeOK, Transition
  <2>2. p \in Delta(pend.before, pend.after) => cur = pend.after
    BY <1>1, <2>1 DEF PendExact, Reached, Same, Delta, TypeOK, Transition
  <2> DEFINE fresh == [NoTurn EXCEPT !.id = pend.id, !.st = "ready"]
             u == RTurn'[a]
  <2>3. fresh \in TurnRecord /\ fresh.rev = Zero
    BY <2>1, NoTurnType DEF TurnRecord, Transition, NoTurn
  <2> HIDE DEF fresh
  <2>4. \E t \in {turn'[a], fresh} : u = t \/ u = Revise(t, pend.before, pend.after)
    BY <1>1, RTurnNext DEF Evented, fresh
  <2> HIDE DEF u
  <2>5. u.rev[p] \in {0, cur[p]}
    <3>1. ASSUME NEW t \in TurnRecord, t.rev = Zero
          PROVE  Revise(t, pend.before, pend.after).rev[p] \in {0, cur[p]}
      BY <2>1, <2>2, <3>1, ReviseFields DEF Zero
    <3> QED
      BY <1>a, <2>3, <2>4, <3>1 DEF Zero
  <2> QED
    BY <1>a, <2>5 DEF u
<1>2. CASE ~(Reached' /\ pend'.agent = a)
  BY <1>a, <1>2, RTurnNext DEF Zero
<1> QED
  BY <1>1, <1>2

\* What a commit that reaches workspace-current makes owed.
LEMMA CommitOwes ==
  ASSUME Typed, Ids, NEW r \in Slots, NEW p \in Paths, NEW a \in Agents,
         hook[r].op # "none", hook[r].scan \in Snapshot, cur'[p] = hook[r].scan[p],
         cur[p] <= cur'[p], Owes(p, a),
         author'[p] = Authors(r, hook[r].scan)[p],
         RTurn'[a] = IF a = Me(r)
                     THEN Evented(RTurn[a], closed[a], hook[r].id, cur, hook[r].scan)
                     ELSE RTurn[a]
  PROVE  Owes(p, a)'
<1> DEFINE d == Delta(cur, hook[r].scan)
           t == RTurn[a]
           u == RTurn'[a]
<1>a. /\ t \in TurnRecord /\ hook[r].id \in 0 .. MaxTurns /\ cur \in Snapshot
      /\ cur[p] \in Nat /\ cur'[p] \in Nat /\ t.rev[p] \in Nat /\ closed[a] \in Nat
      /\ t.id \in 0 .. MaxTurns
  BY RecoverType, ProvenanceAssumption DEF Typed, TypeOK, TurnRecord, Snapshot, Stamp, HookRecord
<1>b. p \in d <=> Text(cur[p]) # Text(cur'[p])
  BY DEF Delta
<1>c. p \in d => cur[p] < cur'[p]
  BY <1>a, <1>b
<1> HIDE DEF d
\* The file is as it was, and so is what the turn owes of it.
<1>1. ASSUME p \notin d, u.rev[p] = t.rev[p], u.first[p] = t.first[p], u.id = t.id,
             u.st = "none" <=> t.st = "none"
      PROVE  Owes(p, a)'
  <2>1. author'[p] = author[p]
    BY <1>1 DEF Authors, d
  <2>2. u.rev[p] <= cur'[p]
    BY <1>a, <1>1 DEF Owes
  <2>3. Shows(t, p) => Shows(RTurn[a], p)'
    BY <1>a, <1>b, <1>1, <2>2 DEF Owes, Shows
  <2> QED
    BY <1>1, <2>1, <2>2, <2>3 DEF Owes
\* The change is not this turn's.
<1>2. ASSUME p \in d, u = t, a # Me(r) \/ t.st = "none" \/ t.id # hook[r].id
      PROVE  Owes(p, a)'
  <2>1. u.rev[p] <= cur'[p]
    BY <1>a, <1>2 DEF Owes
  <2>2. author'[p] \in {None, <<Me(r), hook[r].id>>}
    BY <1>2 DEF Authors, d
  <2>3. u.st # "none" => author'[p] # <<a, u.id>>
    <3>1. None # <<a, t.id>>
      BY <1>a, NoneAssumption
    <3>2. u.st # "none" => <<Me(r), hook[r].id>> # <<a, t.id>>
      BY <1>2
    <3> QED
      BY <1>2, <2>2, <3>1, <3>2
  <2> QED
    BY <2>1, <2>3 DEF Owes
\* It is.
<1>3. ASSUME p \in d, NEW x \in TurnRecord, u = Revise(x, cur, hook[r].scan)
      PROVE  Owes(p, a)'
  <2>1. u.rev[p] = (IF Text(cur'[p]) = u.first[p] THEN 0 ELSE cur'[p])
    BY <1>a, <1>3, ReviseFields DEF d
  <2> QED
    BY <1>a, <1>c, <1>3, <2>1 DEF Owes, Shows
\* The change opens the turn: what is committed by it was not there before.
<1>4. ASSUME p \notin d, t.st = "none", closed[a] < hook[r].id, a = Me(r),
             u = Revise([NoTurn EXCEPT !.id = hook[r].id, !.st = "ready"], cur, hook[r].scan)
      PROVE  Owes(p, a)'
  <2> DEFINE fresh == [NoTurn EXCEPT !.id = hook[r].id, !.st = "ready"]
  <2>1. fresh \in TurnRecord /\ fresh.id = hook[r].id /\ fresh.rev[p] = 0
    BY <1>a, NoTurnType DEF TurnRecord, NoTurn, Zero
  <2>6. u = Revise(fresh, cur, hook[r].scan)
    BY <1>4
  <2> HIDE DEF fresh
  <2>2. u.rev[p] = 0 /\ u.id = hook[r].id
    BY <1>a, <1>4, <2>1, <2>6, ReviseFields DEF d
  <2>3. turn[a].st = "none"
    BY <1>4, RecoveredId DEF Typed, Ids
  <2>4. author[p] # <<a, hook[r].id>>
    BY <1>a, <1>4, <2>3, ProvenanceAssumption DEF Ids, AuthorIds, Known
  <2>5. author'[p] = author[p]
    BY <1>4 DEF Authors, d
  <2> QED
    BY <1>a, <2>2, <2>4, <2>5 DEF Owes
<1>5. CASE a = Me(r)
  <2> DEFINE fresh == [NoTurn EXCEPT !.id = hook[r].id, !.st = "ready"]
  <2>0. fresh \in TurnRecord
    BY <1>a, NoTurnType DEF TurnRecord
  <2>1. CASE d = {}
    BY <1>1, <1>5, <2>1 DEF Evented, d
  <2>2. CASE d # {} /\ t.st = "none" /\ hook[r].id > closed[a]
    <3>1. u = Revise(fresh, cur, hook[r].scan)
      BY <1>5, <2>2 DEF Evented, d
    <3> QED
      BY <1>a, <1>3, <1>4, <1>5, <2>0, <2>2, <3>1
  <2>3. CASE d # {} /\ t.st # "none" /\ t.id = hook[r].id
    <3>1. u = Revise(t, cur, hook[r].scan)
      BY <1>5, <2>3 DEF Evented, d
    <3>2. /\ p \notin d => u.rev[p] = t.rev[p] /\ u.first[p] = t.first[p]
          /\ u.id = t.id /\ u.st = t.st
      BY <1>a, <3>1, ReviseFields DEF d
    <3> QED
      BY <1>a, <1>1, <1>3, <3>1, <3>2
  <2>4. CASE d # {} /\ ~(t.st = "none" /\ hook[r].id > closed[a])
             /\ ~(t.st # "none" /\ t.id = hook[r].id)
    <3>1. u = t
      BY <1>5, <2>4 DEF Evented, d
    <3> QED
      BY <1>1, <1>2, <2>4, <3>1
  <2> QED
    BY <2>1, <2>2, <2>3, <2>4
<1>6. CASE a # Me(r)
  BY <1>1, <1>2, <1>6
<1> QED
  BY <1>5, <1>6

\* A commit, a cut one too, moves workspace-current to its scan and its agent's
\* turn, as the next recovery finds it, by the change; or it moves neither.
LEMMA CommitMoves ==
  ASSUME Typed, Roles, NEW r \in Slots, Step(r), Commit(r) \/ CommitCut(r), NEW a \in Agents
  PROVE  /\ hook[r].op # "none" /\ hook[r].scan \in Snapshot /\ UNCHANGED <<closed, base, round>>
         /\ \/ /\ cur' = hook[r].scan /\ author' = Authors(r, hook[r].scan)
               /\ RTurn'[a] = IF a = Me(r)
                              THEN Evented(RTurn[a], closed[a], hook[r].id, cur, hook[r].scan)
                              ELSE RTurn[a]
            \/ UNCHANGED <<cur, author>> /\ RTurn'[a] = RTurn[a]
<1>a. /\ Typed' /\ TypeOK /\ TypeOK' /\ Next /\ Me(r) \in Agents
      /\ turn \in [Agents -> TurnRecord] /\ RTurn \in [Agents -> TurnRecord]
      /\ hook[r] \in HookRecord
  BY NextTypes, RecoverType, ProvenanceAssumption DEF Next, Typed, TypeOK, Me
<1>1. hook[r].op # "none" /\ hook[r].scan \in Snapshot /\ UNCHANGED <<closed, base, round>>
  BY DEF Commit, CommitCut, At, Roles, Typed, ScannedInv
<1>2. CASE Commit(r)
  <2>1. RTurn' = turn' /\ turn' = Applied(RTurn, Me(r), hook[r].id, cur, hook[r].scan)
        /\ author' = Authors(r, hook[r].scan)
    BY <1>2 DEF Commit, RTurn, Reached
  <2>2. RTurn'[a] = IF a = Me(r)
                    THEN Evented(RTurn[a], closed[a], hook[r].id, cur, hook[r].scan)
                    ELSE RTurn[a]
    BY <1>a, <2>1, AppliedAt
  <2>3. CASE Advances(r)
    BY <1>1, <1>2, <2>1, <2>2, <2>3 DEF Commit
  <2>4. CASE ~Advances(r)
    <3>1. cur' = cur /\ Delta(cur, hook[r].scan) = {}
      BY <1>2, <2>4 DEF Commit, Advances
    <3>2. author' = author
      BY <1>a, <2>1, <3>1 DEF Authors, TypeOK
    <3> QED
      BY <1>1, <2>2, <3>1, <3>2 DEF Evented
  <2> QED
    BY <2>3, <2>4
<1>3. CASE CommitCut(r)
  <2>1. /\ turn' = RTurn /\ UNCHANGED closed /\ pend' # None
        /\ pend'.agent = Me(r) /\ pend'.id = hook[r].id
        /\ pend'.before = cur /\ pend'.after = hook[r].scan
        /\ \/ UNCHANGED <<cur, author>>
           \/ cur' = hook[r].scan /\ author' = Authors(r, hook[r].scan)
    <3>1. [before |-> cur, after |-> hook[r].scan, gen |-> RGen + 1,
           agent |-> Me(r), id |-> hook[r].id] \in Transition
      BY <1>a, <1>1, RecoverType DEF Transition, HookRecord, TypeOK
    <3> QED
      BY <1>3, <3>1, NoneAssumption DEF CommitCut
  <2>2. RTurn'[a] = IF Reached' /\ Me(r) = a
                    THEN Evented(RTurn[a], closed[a], hook[r].id, cur, hook[r].scan)
                    ELSE RTurn[a]
    BY <1>a, <2>1, RTurnNext
  <2>3. CASE cur' = hook[r].scan /\ author' = Authors(r, hook[r].scan)
    <3>1. Reached'
      BY <2>1, <2>3 DEF Reached, Same
    <3> QED
      BY <1>1, <2>2, <2>3, <3>1
  <2>4. CASE UNCHANGED <<cur, author>>
    <3>1. Reached' => Delta(cur, hook[r].scan) = {}
      BY <2>1, <2>4 DEF Reached, Same, Delta
    <3> QED
      BY <1>1, <2>2, <2>4, <3>1 DEF Evented
  <2> QED
    BY <2>1, <2>3, <2>4
<1> QED
  BY <1>2, <1>3

\* The step of a hook: what it leaves owed is what was, or was committed.
LEMMA OwesKept ==
  ASSUME IInv, StopInv, Unhurt, PendExact, NEW r \in Slots, Step(r),
         NEW p \in Paths, NEW a \in Agents, Owes(p, a)
  PROVE  Owes(p, a)'
<1> USE DEF StopInv
<1>a. /\ Typed /\ Typed' /\ TypeOK /\ TypeOK' /\ Next /\ Me(r) \in Agents
      /\ turn \in [Agents -> TurnRecord] /\ RTurn \in [Agents -> TurnRecord]
      /\ hook[r] \in HookRecord
  BY NextTypes, RecoverType, ProvenanceAssumption DEF Next, IInv, Typed, TypeOK, Me
<1>b. NoTurn.rev = Zero /\ NoTurn.st = "none" /\ cur[p] \in Nat /\ Zero[p] = 0
  BY <1>a, ProvenanceAssumption DEF NoTurn, TypeOK, Snapshot, Stamp, Zero
<1>1. CASE Commit(r) \/ CommitCut(r)
  <2>1. hook[r].op # "none" /\ hook[r].scan \in Snapshot /\ cur[p] <= cur'[p]
    BY <1>1, <1>a, CommitMoves, CommitMovesForward
  <2>2. CASE /\ cur' = hook[r].scan /\ author' = Authors(r, hook[r].scan)
             /\ RTurn'[a] = IF a = Me(r)
                            THEN Evented(RTurn[a], closed[a], hook[r].id, cur, hook[r].scan)
                            ELSE RTurn[a]
    BY <1>a, <2>1, <2>2, CommitOwes
  <2>3. CASE UNCHANGED <<cur, author>> /\ RTurn'[a] = RTurn[a]
    BY <2>3 DEF Owes, Shows
  <2> QED
    BY <1>1, <1>a, <2>2, <2>3, CommitMoves
<1>2. ASSUME ~Commit(r), ~CommitCut(r)
      PROVE  UNCHANGED <<cur, author>>
  BY <1>2 DEF Step, BeginStart, BeginTool, Capture, Invoke, PreFails, ToolEnds, BeginStop, Resume,
     View, ScanPath, ScanFails, CommitLost, SaveBaseline, Prompt, Status, Verify, Decide, HookDies,
     manifest
<1>3. CASE Prompt(r) /\ Me(r) = a
  <2> DEFINE t == [NoTurn EXCEPT !.id = hook[r].id, !.bl = hook[r].ok,
                          !.st = IF hook[r].ok THEN "ready" ELSE "missing", !.inc = ~hook[r].ok]
  <2>1. turn' = [turn EXCEPT ![a] = t] /\ UNCHANGED <<cur, author, pend>>
    BY <1>3 DEF Prompt, manifest
  <2>2. t.rev = Zero /\ t.id = hook[r].id /\ t.st # "none"
    BY NoTurnType DEF TurnRecord, NoTurn
  <2> HIDE DEF t
  <2>3. RTurn'[a].rev[p] <= cur'[p]
    BY <1>a, <2>1, <2>2, NewTurnOwes
  <2>4. RTurn'[a].id = hook[r].id
    <3>1. turn'[a] = t /\ t \in TurnRecord /\ t.st # "none" /\ t.id = hook[r].id
      BY <1>a, <2>1, <2>2 DEF TypeOK
    <3>2. Reached' => /\ pend'.before \in Snapshot /\ pend'.after \in Snapshot
                      /\ pend'.id \in 0 .. MaxTurns
      BY <1>a DEF Reached, TypeOK, Transition
    <3>3. closed'[a] \in Nat
      BY <1>a, ProvenanceAssumption DEF TypeOK
    <3>4. CASE Reached' /\ pend'.agent = a
      <4>1. RTurn'[a] = Evented(t, closed'[a], pend'.id, pend'.before, pend'.after)
        BY <1>a, <3>1, <3>4, RTurnNext
      <4>2. Evented(t, closed'[a], pend'.id, pend'.before, pend'.after).id = t.id
        BY <3>1, <3>2, <3>3, <3>4, EventedFields
      <4> QED
        BY <3>1, <4>1, <4>2
    <3>5. CASE ~(Reached' /\ pend'.agent = a)
      BY <1>a, <3>1, <3>5, RTurnNext
    <3> QED
      BY <3>4, <3>5
  <2>5. author[p] # <<a, hook[r].id>>
    BY <1>3 DEF Ids, HookIds, Prompt, At, Roles
  <2> QED
    BY <2>1, <2>3, <2>4, <2>5 DEF Owes
<1>4. CASE Decide(r) /\ Me(r) = a /\ turn'[a].st = "none"
  <2>1. /\ UNCHANGED <<cur, author, pend>>
        /\ turn[a].st = "none" \/ closed'[a] = turn[a].id
        /\ turn[a].st = "none" => UNCHANGED <<turn, closed>>
    BY <1>4, <1>a DEF Decide, manifest, TurnRecord, Mine, Current, Typed, TypeOK
  <2>2. CASE turn[a].st = "none"
    <3>1. SameDebt(RTurn[a], RTurn'[a])
      BY <1>a, <2>1, <2>2, DebtKept DEF SameDebt
    <3> QED
      BY <2>1, <3>1 DEF Owes, SameDebt, Shows
  <2>3. CASE turn[a].st # "none"
    <3>1. turn'[a] = NoTurn
      BY <1>4, <1>a, <2>3, <1>b DEF Decide, TurnRecord, Mine, Typed, TypeOK
    <3>2. RTurn'[a].rev[p] <= cur'[p]
      BY <1>a, <1>b, <2>1, <3>1, NewTurnOwes
    <3>3. RTurn'[a].st # "none" => closed'[a] < RTurn'[a].id /\ RTurn'[a].id \in 0 .. MaxTurns
      <4>1. pend' # None => pend'.before \in Snapshot /\ pend'.after \in Snapshot
                            /\ pend'.id \in 0 .. MaxTurns
        BY <1>a DEF TypeOK, Transition
      <4>2. NoTurn \in TurnRecord /\ closed'[a] \in Nat
        BY <1>a, NoTurnType, ProvenanceAssumption DEF TypeOK
      <4>3. CASE Reached' /\ pend'.agent = a
        <5>1. RTurn'[a] = Evented(NoTurn, closed'[a], pend'.id, pend'.before, pend'.after)
          BY <1>a, <3>1, <4>3, RTurnNext
        <5> DEFINE u == Evented(NoTurn, closed'[a], pend'.id, pend'.before, pend'.after)
        <5>2. pend' # None
          BY <4>3 DEF Reached
        <5>3. u # NoTurn => u.id = pend'.id /\ closed'[a] < pend'.id
          BY <1>b, <4>1, <4>2, <5>2, EventedFields
        <5> HIDE DEF u
        <5> QED
          BY <1>b, <4>1, <5>1, <5>2, <5>3 DEF u
      <4>4. CASE ~(Reached' /\ pend'.agent = a)
        BY <1>a, <1>b, <3>1, <4>4, RTurnNext
      <4> QED
        BY <4>3, <4>4
    <3>4. ASSUME RTurn'[a].st # "none" PROVE author[p] # <<a, RTurn'[a].id>>
      <4>1. closed[a] < turn[a].id /\ closed[a] \in Nat /\ turn[a].id \in Nat
            /\ turn[a].id < RTurn'[a].id
        BY <1>a, <2>1, <2>3, <3>3, <3>4, ProvenanceAssumption DEF Ids, TurnIds, TypeOK, TurnRecord
      <4>2. ~Known(a, RTurn'[a].id)
        BY <3>3, <3>4, <4>1, ProvenanceAssumption DEF Known
      <4> QED
        BY <3>3, <3>4, <4>2 DEF Ids, AuthorIds
    <3> QED
      BY <2>1, <3>2, <3>4 DEF Owes
  <2> QED
    BY <2>2, <2>3
<1>5. CASE BeginTool(r) /\ Me(r) = a /\ RTurn[a].st = "none"
  <2> DEFINE i == BoundId(a)
             u == [NoTurn EXCEPT !.id = i, !.st = "ready", !.bl = TRUE]
             v == [u EXCEPT !.inv[r] = None]
  <2>1. turn' = [RTurn EXCEPT ![a] = v] /\ pend' = None /\ i > closed[a]
        /\ UNCHANGED <<cur, author>>
    BY <1>5 DEF BeginTool, Bootstrapped
  <2>2. u \in TurnRecord /\ u.rev = Zero /\ u.id = i /\ i \in 0 .. MaxTurns
    BY <1>a, <1>b, <1>5, NoTurnType DEF TurnRecord, BoundId, TypeOK
  <2> HIDE DEF u
  <2>3. v.rev = Zero /\ v.id = i
    BY <2>2 DEF TurnRecord
  <2> HIDE DEF v, i
  <2>4. RTurn'[a].rev = Zero /\ RTurn'[a].id = i
    BY <1>a, <2>1, <2>3 DEF RTurn, Reached
  <2>5. turn[a].st = "none"
    BY <1>a, <1>5, RecoveredId DEF Ids
  <2>6. author[p] # <<a, i>>
    <3>1. ~Known(a, i)
      <4>1. closed[a] \in Nat /\ i \in Nat
        BY <1>a, <2>2, ProvenanceAssumption DEF TypeOK
      <4> QED
        BY <2>1, <2>5, <4>1 DEF Known
    <3> QED
      BY <2>2, <3>1 DEF Ids, AuthorIds
  <2> QED
    BY <1>b, <2>1, <2>4, <2>6 DEF Owes
<1>6. ASSUME ~Commit(r), ~CommitCut(r),
             Me(r) = a => /\ ~Prompt(r) /\ (Decide(r) => turn'[a].st # "none")
                          /\ BeginTool(r) => RTurn[a].st # "none"
      PROVE  Owes(p, a)'
  <2>1. SameDebt(RTurn[a], RTurn'[a])
    BY <1>a, <1>6, DebtStep
  <2> QED
    BY <1>2, <1>6, <2>1 DEF Owes, SameDebt, Shows
<1> QED
  BY <1>1, <1>3, <1>4, <1>5, <1>6

LEMMA UnhurtKept ==
  ASSUME StoreFails = FALSE, Typed, Unhurt, Next
  PROVE  Unhurt'
<1>a. hook \in [Slots -> HookRecord]
  BY DEF Typed, TypeOK
<1>1. CASE UNCHANGED hook
  BY <1>1 DEF Unhurt
<1>2. ASSUME NEW r \in Slots, Step(r), NEW s \in Slots,
             hook'[s].pc \in {"capture", "invoke", "tool", "resume", "status"}
      PROVE  hook'[s].scan = Idle.scan
  <2>1. CASE s # r
    BY <1>2, <2>1, OneHook DEF Unhurt
  <2>2. CASE s = r
    <3>a. hook[r] \in HookRecord /\ Idle \in HookRecord /\ Idle.pc = "free"
      BY <1>a, IdleType, IdleHook
    <3>1. CASE BeginStart(r) \/ BeginStop(r)
      <4>1. CASE BeginStart(r)
        <5>1. hook'[r].scan = Idle.scan
          BY <1>a, <3>a, <4>1 DEF BeginStart, HookRecord
        <5> QED
          BY <2>2, <5>1
      <4>2. CASE BeginStop(r)
        <5>1. hook'[r].scan = Idle.scan
          BY <1>a, <3>a, <4>2 DEF BeginStop, HookRecord
        <5> QED
          BY <2>2, <5>1
      <4> QED
        BY <3>1, <4>1, <4>2
    <3>2. CASE BeginTool(r)
      <4>1. hook'[r].scan = Idle.scan
        BY <1>a, <3>a, <3>2 DEF BeginTool, HookRecord
      <4> QED
        BY <2>2, <4>1
    <3>3. CASE Capture(r) \/ Invoke(r) \/ PreFails(r) \/ ToolEnds(r) \/ Resume(r)
      <4>1. hook'[r].scan = hook[r].scan /\ hook[r].pc \in {"capture", "invoke", "tool", "resume"}
        BY <1>a, <3>a, <3>3
        DEF Capture, Invoke, PreFails, ToolEnds, Resume, Goto, At, HookRecord
      <4> QED
        BY <2>2, <4>1 DEF Unhurt
    <3>4. CASE View(r) \/ (\E p \in Paths : ScanPath(r, p)) \/ SaveBaseline(r)
      <4>1. hook'[r].pc \in {"scan", "commit", "prompt"}
        <5>1. CASE View(r) \/ SaveBaseline(r)
          BY ZenonT(40), <1>a, <3>a, <5>1 DEF View, SaveBaseline, HookRecord
        <5>2. ASSUME NEW p \in Paths, ScanPath(r, p) PROVE hook'[r].pc \in {"scan", "commit"}
          BY <1>a, <3>a, <5>2 DEF ScanPath, HookRecord
        <5> QED
          BY <3>4, <5>1, <5>2
      <4> QED
        BY <1>2, <2>2, <4>1
    <3>5. ASSUME NEW ok \in BOOLEAN PROVE Observed(r, ok).scan = Idle.scan
      BY <3>a DEF Observed, HookRecord
    <3>6. CASE ScanFails(r) \/ CommitLost(r)
      BY <1>2, <2>2, <1>a, <3>a, <3>5, <3>6 DEF ScanFails, CommitLost, HookRecord
    <3>7. CASE Commit(r)
      <4>1. Observed(r, TRUE) \in HookRecord
        BY ObservedType DEF Typed
      <4> QED
        BY <1>2, <2>2, <1>a, <3>a, <3>5, <3>7, <4>1 DEF Commit, HookRecord
    <3>8. CASE CommitCut(r)
      <4>1. hook'[r] = Idle
        BY <1>a, <3>8 DEF CommitCut, End
      <4> QED
        BY <2>2, <4>1
    <3>9. CASE Prompt(r) \/ Verify(r)
      <4>1. hook'[r] = Idle
        BY <1>a, <3>9 DEF Prompt, Verify, End
      <4> QED
        BY <2>2, <4>1
    <3>10. CASE Status(r) \/ HookDies(r)
      <4>1. CASE Status(r)
        <5>1. hook'[r] = Idle \/ hook'[r].pc \in {"decide", "verify"}
          BY <1>a, <3>a, <4>1 DEF Status, HookRecord
        <5> QED
          BY <1>2, <2>2, <5>1
      <4>2. CASE HookDies(r)
        <5>1. hook'[r] = Idle \/ (hook[r].pc \in {"capture", "invoke"} /\ hook'[r].scan = hook[r].scan)
          BY <1>a, <3>a, <4>2 DEF HookDies, HookRecord
        <5> QED
          BY <2>2, <5>1 DEF Unhurt
      <4> QED
        BY <3>10, <4>1, <4>2
    <3>11. CASE Decide(r)
      <4> DEFINE g == [Idle EXCEPT !.pc = "view", !.op = "restart", !.id = Mine(r).id]
      <4>1. hook'[r] = Idle \/ hook'[r] = g
        BY <1>a, <3>11 DEF Decide, End
      <4>2. g.scan = Idle.scan
        BY <3>a DEF HookRecord
      <4> QED
        BY <2>2, <4>1, <4>2
    <3> QED
      BY <1>2, <3>1, <3>2, <3>3, <3>4, <3>6, <3>7, <3>8, <3>9, <3>10, <3>11 DEF Step
  <2> QED
    BY <2>1, <2>2
<1> QED
  BY <1>1, <1>2 DEF Next, Unhurt, Write

LEMMA PendExactKept ==
  ASSUME TypeOK, PendExact, Next
  PROVE  PendExact'
<1>1. pend' = None \/ UNCHANGED <<pend, cur>> \/ \E r \in Slots : CommitCut(r)
  <2>1. ASSUME NEW r \in Slots, Step(r)
        PROVE  pend' = None \/ UNCHANGED <<pend, cur>> \/ CommitCut(r)
    BY <2>1 DEF Step, BeginStart, BeginTool, Capture, Invoke, PreFails, ToolEnds,
       BeginStop, Resume, View, ScanPath, ScanFails, Commit, CommitLost,
       SaveBaseline, Prompt, Status, Verify, Decide, HookDies, manifest
  <2> QED
    BY <2>1 DEF Next, Write, manifest
<1>2. ASSUME NEW r \in Slots, CommitCut(r)
      PROVE  pend'.before = cur /\ pend'.after = hook[r].scan /\ cur' \in {cur, hook[r].scan}
  BY <1>2 DEF CommitCut
<1> QED
  BY <1>1, <1>2 DEF PendExact

\* The invariant: no hook records a change late, and the manifest is a known
\* side of the transition that was cut.
OwedInv == IInv /\ StopInv /\ Unhurt /\ PendExact /\ OwedIsCommitted

LEMMA OwedKept ==
  ASSUME StoreFails = FALSE, OwedInv, Next
  PROVE  OwedIsCommitted'
<1>1. ASSUME NEW p \in Paths, NEW a \in Agents
      PROVE  Owes(p, a)'
  <2>1. Owes(p, a)
    BY <1>1 DEF OwedInv, OwedIsCommitted, Owes
  <2>2. ASSUME NEW q \in Paths, Write(q)
        PROVE  Owes(p, a)'
    BY <2>1, <2>2 DEF Write, manifest, Owes, Shows, RTurn, Reached, Applied
  <2>3. ASSUME NEW r \in Slots, Step(r)
        PROVE  Owes(p, a)'
    BY <2>1, <2>3, OwesKept DEF OwedInv
  <2> QED
    BY <2>2, <2>3 DEF Next
<1> QED
  BY <1>1 DEF OwedIsCommitted, Owes

LEMMA OwedInvSteps ==
  ASSUME StoreFails = FALSE
  PROVE  /\ Init => OwedInv
         /\ OwedInv /\ [Next]_vars => OwedInv'
<1>1. Init => OwedInv
  <2> SUFFICES ASSUME Init PROVE OwedInv
    OBVIOUS
  <2>1. Unhurt /\ PendExact
    BY DEF Init, Unhurt, PendExact
  <2>2. OwedIsCommitted
    <3>1. RTurn = turn
      BY DEF Init, RTurn, Reached
    <3>2. NoTurn.rev = Zero /\ NoTurn.st = "none"
      BY DEF NoTurn
    <3> QED
      BY <3>1, <3>2 DEF Init, OwedIsCommitted, Zero
  <2> QED
    BY <2>1, <2>2, InitIInv, InitStopInv DEF OwedInv
<1>2. OwedInv /\ [Next]_vars => OwedInv'
  <2> SUFFICES ASSUME OwedInv, [Next]_vars PROVE OwedInv'
    OBVIOUS
  <2>1. IInv' /\ StopInv'
    BY NextIInv, StopInvKept DEF OwedInv
  <2>2. CASE Next
    BY <2>1, <2>2, UnhurtKept, PendExactKept, OwedKept DEF OwedInv, IInv, Typed
  <2>3. CASE UNCHANGED vars
    <3>1. Unhurt' /\ PendExact'
      BY <2>3 DEF vars, OwedInv, Unhurt, PendExact
    <3>2. RTurn' = RTurn /\ author' = author /\ cur' = cur
      BY <2>3 DEF vars, RTurn, Reached, Applied
    <3>3. OwedIsCommitted'
      BY <3>2 DEF OwedInv, OwedIsCommitted, Shows
    <3> QED
      BY <2>1, <3>1, <3>3 DEF OwedInv
  <2> QED
    BY <2>2, <2>3
<1> QED
  BY <1>1, <1>2

\* What a hook of an open turn committed is owed by that turn, now or after
\* the next recovery, and a turn owes only content the manifest has or had, if
\* a hook whose save fails is over: one that goes on may record the change it
\* could not commit over a newer one.
THEOREM OwedHolds ==
  ASSUME StoreFails = FALSE
  PROVE  Spec => []OwedIsCommitted
<1>1. Init => OwedInv
  BY OwedInvSteps
<1>2. OwedInv /\ [Next]_vars => OwedInv'
  BY OwedInvSteps
<1>3. OwedInv => OwedIsCommitted
  BY DEF OwedInv
<1> QED
  BY <1>1, <1>2, <1>3, PTL DEF Spec

\* The evidence a Stop is released by speaks of every change its own turn
\* committed, also those a cut commit left to recovery.
THEOREM StopJudges ==
  ASSUME StoreFails = FALSE
  PROVE  Spec => StopJudgesCommitted
<1> DEFINE Judged == \A s \in Slots : Released(s) =>
                       \A p \in Paths : author[p] = <<Me(s), hook[s].id>> => Shows(Mine(s), p)
<1>1. Init => OwedInv
  BY OwedInvSteps
<1>2. OwedInv /\ [Next]_vars => OwedInv'
  BY OwedInvSteps
<1>3. OwedInv => Judged
  <2> SUFFICES ASSUME OwedInv, NEW s \in Slots, Released(s), NEW p \in Paths,
                      author[p] = <<Me(s), hook[s].id>>
               PROVE  Shows(Mine(s), p)
    OBVIOUS
  <2>1. At(s, "decide") /\ Mine(s).cap /\ ~Mine(s).inc
    BY DEF Released, Passes, At
  <2>2. Clear(s) /\ Current(s)
    BY <2>1 DEF OwedInv, StopInv, Roles, Sight, Watches, At
  <2>3. Me(s) \in Agents /\ TypeOK
    BY ProvenanceAssumption DEF OwedInv, IInv, Typed, Me
  <2>4. RTurn[Me(s)] = Mine(s)
    BY <2>2, <2>3, RTurnAt DEF Clear, Current, Mine, Reached, Evented
  <2> QED
    BY <2>2, <2>3, <2>4 DEF OwedInv, OwedIsCommitted, Current
<1>4. OwedInv => [Judged]_vars
  BY <1>3
<1> HIDE DEF Judged
<1>5. Spec => [][Judged]_vars
  BY <1>1, <1>2, <1>4, PTL DEF Spec
<1> QED
  BY <1>5 DEF StopJudgesCommitted, Judged

-----------------------------------------------------------------------------
(* The evidence a Stop passes on.                                          *)

NoLater(x, y) == \A p \in Paths : x[p] <= y[p]

\* A turn owes no content that is not on disk yet.
RevInv ==
  /\ \A a \in Agents : NoLater(turn[a].rev, disk)
  /\ pend # None => NoLater(pend.after, disk)
  /\ \A s \in Slots, p \in Paths : hook[s].scan[p] # None => hook[s].scan[p] <= disk[p]

\* A check's covers are those of a moment before it started.
CoversInv ==
  \A s \in Slots : hook[s].op \in {"work", "check"} /\ Current(s) =>
    /\ Mine(s).st \in {"ready", "degraded"}
    /\ hook[s].op = "check" /\ At(s, "invoke") => hook[s].cov # None /\ NoLater(hook[s].cov, disk)
    /\ hook[s].op = "check" /\ hook[s].pc \notin {"capture", "invoke"} =>
         \/ Mine(s).st = "degraded"
         \/ Mine(s).inv[s] # None /\ NoLater(Mine(s).inv[s], hook[s].from)

\* ... and so are those of every result, but of a degraded turn.
ResultsInv ==
  \A a \in Agents : turn[a].st # "degraded" =>
    \A r \in turn[a].results : NoLater(r.cov, r.from)

\* The same evidence, of the same turn; or none.
Heir(t, u) ==
  u.results = {} \/ (u.results = t.results /\ (t.st = "degraded" => u.st = "degraded"))

\* The same turn, as a call of slot s finds it again.
Continues(t, u, s) ==
  /\ u.inv[s] = t.inv[s]
  /\ t.st = "degraded" => u.st = "degraded"
  /\ t.st = "ready" => u.st \in {"ready", "degraded"}

\* What a change makes of the revisions of a turn, and what an event makes.
LEMMA RevisedRev ==
  ASSUME NEW t \in TurnRecord, NEW before \in Snapshot, NEW after \in Snapshot
  PROVE  \A p \in Paths : Revise(t, before, after).rev[p] \in {0, t.rev[p], after[p]}
  BY ReviseFields

LEMMA EventedRev ==
  ASSUME NEW t \in TurnRecord, NEW shut, NEW id \in 0 .. MaxTurns,
         NEW before \in Snapshot, NEW after \in Snapshot
  PROVE  \A p \in Paths : Evented(t, shut, id, before, after).rev[p] \in {0, t.rev[p], after[p]}
<1> DEFINE fresh == [NoTurn EXCEPT !.id = id, !.st = "ready"]
<1>1. fresh \in TurnRecord /\ fresh.rev = Zero
  BY NoTurnType DEF TurnRecord, NoTurn
<1>2. Evented(t, shut, id, before, after) \in
        {t, Revise(t, before, after), Revise(fresh, before, after)}
  BY DEF Evented
<1> HIDE DEF fresh
<1>3. ASSUME NEW p \in Paths
      PROVE  /\ Revise(t, before, after).rev[p] \in {0, t.rev[p], after[p]}
             /\ Revise(fresh, before, after).rev[p] \in {0, after[p]}
  <2>1. fresh.rev[p] = 0
    BY <1>1 DEF Zero
  <2> QED
    BY <1>1, <2>1, ReviseFields
<1> QED
  BY <1>2, <1>3

LEMMA RecoveredRev ==
  ASSUME TypeOK, RevInv, NEW a \in Agents
  PROVE  NoLater(RTurn[a].rev, disk)
<1>1. turn[a] \in TurnRecord /\ disk \in [Paths -> Nat]
  BY ProvenanceAssumption DEF TypeOK, Snapshot, Stamp
<1>2. CASE Reached /\ pend.agent = a
  <2>1. pend.id \in 0 .. MaxTurns /\ pend.before \in Snapshot /\ pend.after \in Snapshot
    BY <1>2 DEF Reached, TypeOK, Transition
  <2>2. \A p \in Paths : RTurn[a].rev[p] \in {0, turn[a].rev[p], pend.after[p]}
    BY <1>1, <1>2, <2>1, RTurnAt, EventedRev
  <2> QED
    BY <1>1, <1>2, <2>2 DEF RevInv, NoLater, Reached
<1>3. CASE ~(Reached /\ pend.agent = a)
  BY <1>3, RTurnAt DEF RevInv
<1> QED
  BY <1>2, <1>3

\* A step leaves a turn its evidence.
LEMMA HeirStep ==
  ASSUME Typed, TurnIds, NEW r \in Slots, Step(r), NEW a \in Agents,
         Me(r) = a => ~Verify(r)
  PROVE  Heir(turn[a], turn'[a])
<1> USE DEF Typed
<1>a. /\ turn \in [Agents -> TurnRecord] /\ RTurn \in [Agents -> TurnRecord]
      /\ Me(r) \in Agents /\ hook[r] \in HookRecord /\ Mine(r) \in TurnRecord
      /\ closed \in [Agents -> Nat]
  BY RecoverType, ProvenanceAssumption DEF TypeOK, Me, Mine
<1>b. Heir(turn[a], turn[a]) /\ Heir(turn[a], RTurn[a])
  BY RecoveredId DEF Heir
<1>c. ASSUME NEW t, NEW u, NEW v, Heir(t, u), Heir(u, v) PROVE Heir(t, v)
  BY <1>c DEF Heir
<1>1. CASE UNCHANGED turn \/ turn' = RTurn
  BY <1>1, <1>b
<1>2. CASE BeginStart(r) \/ Capture(r) \/ ToolEnds(r) \/ BeginStop(r)
           \/ (\E p \in Paths : ScanPath(r, p)) \/ ScanFails(r) \/ HookDies(r)
           \/ View(r) \/ CommitLost(r) \/ SaveBaseline(r) \/ CommitCut(r)
  BY <1>1, <1>2 DEF BeginStart, Capture, ToolEnds, BeginStop, ScanPath, ScanFails, HookDies,
     View, CommitLost, SaveBaseline, CommitCut
<1>3. CASE BeginTool(r)
  <2> DEFINE i == BoundId(Me(r))
             t == Bootstrapped(RTurn[Me(r)], i, base[Me(r)].id = i)
             u == [t EXCEPT !.inv[r] = None]
  <2>1. turn' = [RTurn EXCEPT ![Me(r)] = u]
    BY <1>3 DEF BeginTool
  <2>2. i \in 0 .. MaxTurns
    BY <1>a DEF BoundId, TurnRecord, TypeOK
  <2>3. t \in TurnRecord /\ Heir(RTurn[Me(r)], t)
    BY <1>a, <2>2, NoTurnType DEF Bootstrapped, TurnRecord, Heir, NoTurn
  <2> HIDE DEF t
  <2>4. Heir(RTurn[Me(r)], u)
    BY <2>3 DEF TurnRecord, Heir
  <2> HIDE DEF u
  <2>5. Heir(RTurn[a], turn'[a])
    BY <1>a, <2>1, <2>4 DEF Heir
  <2> QED
    BY <1>b, <1>c, <2>5
<1>4. CASE Invoke(r)
  <2> DEFINE u == [RTurn[Me(r)] EXCEPT !.inv[r] = hook[r].cov, !.cap = TRUE]
  <2>1. turn' = RTurn \/ turn' = [RTurn EXCEPT ![Me(r)] = u]
    BY <1>4, <1>a DEF Invoke
  <2>2. Heir(RTurn[Me(r)], u)
    BY <1>a DEF TurnRecord, Heir
  <2> HIDE DEF u
  <2>3. Heir(RTurn[a], turn'[a])
    BY <1>a, <2>1, <2>2 DEF Heir
  <2> QED
    BY <1>b, <1>c, <2>3
<1>5. ASSUME NEW t, Heir(Mine(r), t), turn' = [turn EXCEPT ![Me(r)] = t]
      PROVE  Heir(turn[a], turn'[a])
  BY <1>a, <1>b, <1>5 DEF Mine
<1>6. CASE PreFails(r)
  <2>1. Heir(Mine(r), [Mine(r) EXCEPT !.inc = TRUE, !.cap = TRUE])
    BY <1>a DEF TurnRecord, Heir
  <2> QED
    BY <1>1, <1>5, <1>6, <2>1 DEF PreFails, Mine
<1>7. CASE Resume(r)
  <2>1. Heir(Mine(r), [Mine(r) EXCEPT !.st = "degraded"])
    BY <1>a DEF TurnRecord, Heir
  <2> QED
    BY <1>1, <1>5, <1>7, <2>1 DEF Resume, Mine
<1>8. CASE Commit(r)
  <2>1. hook[r].scan \in Snapshot /\ hook[r].id \in 0 .. MaxTurns /\ cur \in Snapshot
    BY <1>8, <1>a DEF Commit, ScannedInv, TypeOK, HookRecord
  <2>2. turn'[a] = IF a = Me(r)
                   THEN Evented(RTurn[a], closed[a], hook[r].id, cur, hook[r].scan) ELSE RTurn[a]
    BY <1>8, <1>a, AppliedAt DEF Commit
  <2>3. Heir(RTurn[a], turn'[a])
    <3> DEFINE u == Evented(RTurn[a], closed[a], hook[r].id, cur, hook[r].scan)
    <3>1. RTurn[a] \in TurnRecord /\ closed[a] \in Nat
      BY <1>a
    <3>2. /\ RTurn[a].st # "none" => u.results = RTurn[a].results /\ u.st = RTurn[a].st
          /\ RTurn[a].st = "none" /\ u # RTurn[a] => u.results = {}
      BY <2>1, <3>1, EventedFields
    <3> HIDE DEF u
    <3> QED
      BY <2>2, <3>2 DEF Heir, u
  <2> QED
    BY <1>b, <1>c, <2>3
<1>9. CASE Status(r)
  <2> DEFINE t == IF Late(r) THEN Revise(Mine(r), hook[r].cur, hook[r].scan) ELSE Mine(r)
             u == [t EXCEPT !.inc = ~hook[r].ok \/ t.st = "degraded",
                            !.cap = @ \/ hook[r].op # "stop"]
  <2>1. UNCHANGED turn \/ turn' = [turn EXCEPT ![Me(r)] = u]
    BY <1>9 DEF Status
  <2>2. t \in TurnRecord /\ t.st = Mine(r).st /\ t.results = Mine(r).results
    <3>1. CASE Late(r)
      <4>1. hook[r].cur \in Snapshot /\ hook[r].scan \in Snapshot
        BY <1>a, <3>1 DEF Late, HookRecord, Scanned, Snapshot
      <4>2. t = Revise(Mine(r), hook[r].cur, hook[r].scan)
        BY <3>1
      <4>3. Mine(r) \in TurnRecord
        BY <1>a
      <4>4. LET v == Revise(Mine(r), hook[r].cur, hook[r].scan)
            IN  v \in TurnRecord /\ v.st = Mine(r).st /\ v.results = Mine(r).results
        BY SMTT(30), <4>1, <4>3, ReviseType, ReviseFields
      <4> QED
        BY <4>2, <4>4
    <3> QED
      BY <1>a, <3>1
  <2> HIDE DEF t
  <2>3. Heir(Mine(r), u)
    BY <2>2 DEF TurnRecord, Heir
  <2> HIDE DEF u
  <2> QED
    BY <1>1, <1>5, <2>1, <2>3
<1>10. CASE Prompt(r)
  <2> DEFINE t == [NoTurn EXCEPT !.id = hook[r].id, !.bl = hook[r].ok,
                          !.st = IF hook[r].ok THEN "ready" ELSE "missing", !.inc = ~hook[r].ok]
  <2>1. t.results = {}
    BY DEF NoTurn
  <2> QED
    BY <1>5, <1>10, <2>1 DEF Prompt, Heir
<1>11. CASE Decide(r)
  <2>1. Heir(Mine(r), NoTurn)
    BY DEF Heir, NoTurn
  <2>2. Heir(Mine(r), [Mine(r) EXCEPT !.blocks = @ + 1])
    BY <1>a DEF Heir, TurnRecord
  <2>3. UNCHANGED turn \/ turn' = [turn EXCEPT ![Me(r)] = NoTurn]
        \/ turn' = [turn EXCEPT ![Me(r)] = [Mine(r) EXCEPT !.blocks = @ + 1]]
    BY <1>11 DEF Decide, Mine
  <2> QED
    BY <1>1, <1>5, <2>1, <2>2, <2>3
<1>12. CASE Verify(r)
  <2>1. Me(r) # a
    BY <1>12
  <2>2. turn'[a] = turn[a]
    BY <1>12, <1>a, <2>1 DEF Verify
  <2> QED
    BY <1>b, <2>2
<1> QED
  BY <1>2, <1>3, <1>4, <1>6, <1>7, <1>8, <1>9, <1>10, <1>11, <1>12 DEF Step

\* ... and leaves a call the turn it runs in.
LEMMA SameStep ==
  ASSUME Typed, TurnIds, NEW r \in Slots, Step(r), NEW s \in Slots, NEW a \in Agents,
         turn[a].st # "none", s = r => ~BeginTool(r) /\ ~Invoke(r),
         Me(r) = a => ~Prompt(r) /\ (Decide(r) => turn'[a].st # "none")
  PROVE  Continues(turn[a], turn'[a], s)
<1> USE DEF Typed
<1>a. /\ turn \in [Agents -> TurnRecord] /\ RTurn \in [Agents -> TurnRecord]
      /\ Me(r) \in Agents /\ hook[r] \in HookRecord /\ Mine(r) \in TurnRecord
      /\ closed \in [Agents -> Nat]
  BY RecoverType, ProvenanceAssumption DEF TypeOK, Me, Mine
<1>b. Continues(turn[a], turn[a], s) /\ Continues(turn[a], RTurn[a], s)
      /\ RTurn[a].st = turn[a].st /\ RTurn[a].inv = turn[a].inv
  BY RecoveredId DEF Continues
<1>1. CASE UNCHANGED turn \/ turn' = RTurn
  BY <1>1, <1>b
<1>2. CASE BeginStart(r) \/ Capture(r) \/ ToolEnds(r) \/ BeginStop(r)
           \/ (\E p \in Paths : ScanPath(r, p)) \/ ScanFails(r) \/ HookDies(r)
           \/ View(r) \/ CommitLost(r) \/ SaveBaseline(r) \/ CommitCut(r)
  BY <1>1, <1>2 DEF BeginStart, Capture, ToolEnds, BeginStop, ScanPath, ScanFails, HookDies,
     View, CommitLost, SaveBaseline, CommitCut
<1>3. CASE BeginTool(r)
  <2> DEFINE i == BoundId(Me(r))
             t == Bootstrapped(RTurn[Me(r)], i, base[Me(r)].id = i)
             u == [t EXCEPT !.inv[r] = None]
  <2>1. turn' = [RTurn EXCEPT ![Me(r)] = u]
    BY <1>3 DEF BeginTool
  <2>2. CASE Me(r) = a
    <3>1. t \in TurnRecord /\ t.inv = RTurn[a].inv /\ t.st \in {"ready", "degraded"}
          /\ (RTurn[a].st = "degraded" => t.st = "degraded")
      BY ZenonT(40), <1>a, <1>b, <2>2 DEF Bootstrapped, TurnRecord
    <3> HIDE DEF t
    <3>2. u.inv[s] = t.inv[s] /\ u.st = t.st
      BY <1>3, <3>1 DEF TurnRecord
    <3> HIDE DEF u
    <3> QED
      BY <1>a, <1>b, <2>1, <2>2, <3>1, <3>2 DEF Continues
  <2>3. CASE Me(r) # a
    <3> HIDE DEF u
    <3> QED
      BY <1>a, <1>b, <2>1, <2>3
  <2> QED
    BY <2>2, <2>3
<1>4. CASE Invoke(r)
  <2> DEFINE u == [RTurn[Me(r)] EXCEPT !.inv[r] = hook[r].cov, !.cap = TRUE]
  <2>1. turn' = RTurn \/ turn' = [RTurn EXCEPT ![Me(r)] = u]
    BY <1>4, <1>a DEF Invoke
  <2>2. u.inv[s] = RTurn[Me(r)].inv[s] /\ u.st = RTurn[Me(r)].st
    BY <1>a, <1>4 DEF TurnRecord
  <2> HIDE DEF u
  <2> QED
    BY <1>a, <1>b, <2>1, <2>2 DEF Continues
<1>5. ASSUME NEW t, Continues(Mine(r), t, s), turn' = [turn EXCEPT ![Me(r)] = t]
      PROVE  Continues(turn[a], turn'[a], s)
  BY <1>a, <1>b, <1>5 DEF Mine
<1>6. CASE PreFails(r)
  <2>1. Continues(Mine(r), [Mine(r) EXCEPT !.inc = TRUE, !.cap = TRUE], s)
    BY <1>a DEF TurnRecord, Continues
  <2> QED
    BY <1>1, <1>5, <1>6, <2>1 DEF PreFails, Mine
<1>7. CASE Resume(r)
  <2>1. Continues(Mine(r), [Mine(r) EXCEPT !.st = "degraded"], s)
    BY <1>a DEF TurnRecord, Continues
  <2> QED
    BY <1>1, <1>5, <1>7, <2>1 DEF Resume, Mine
<1>8. CASE Commit(r)
  <2>1. hook[r].scan \in Snapshot /\ hook[r].id \in 0 .. MaxTurns /\ cur \in Snapshot
    BY <1>8, <1>a DEF Commit, ScannedInv, TypeOK, HookRecord
  <2>2. turn'[a] = IF a = Me(r)
                   THEN Evented(RTurn[a], closed[a], hook[r].id, cur, hook[r].scan) ELSE RTurn[a]
    BY <1>8, <1>a, AppliedAt DEF Commit
  <2> DEFINE u == Evented(RTurn[a], closed[a], hook[r].id, cur, hook[r].scan)
  <2>3. RTurn[a] \in TurnRecord /\ closed[a] \in Nat
    BY <1>a
  <2>4. RTurn[a].st # "none" => u.inv = RTurn[a].inv /\ u.st = RTurn[a].st
    BY <2>1, <2>3, EventedFields
  <2> HIDE DEF u
  <2> QED
    BY <1>b, <2>2, <2>4 DEF Continues, u
<1>9. CASE Status(r)
  <2> DEFINE t == IF Late(r) THEN Revise(Mine(r), hook[r].cur, hook[r].scan) ELSE Mine(r)
             u == [t EXCEPT !.inc = ~hook[r].ok \/ t.st = "degraded",
                            !.cap = @ \/ hook[r].op # "stop"]
  <2>1. UNCHANGED turn \/ turn' = [turn EXCEPT ![Me(r)] = u]
    BY <1>9 DEF Status
  <2>2. t \in TurnRecord /\ t.st = Mine(r).st /\ t.inv = Mine(r).inv
    <3>1. CASE Late(r)
      <4>1. hook[r].cur \in Snapshot /\ hook[r].scan \in Snapshot
        BY <1>a, <3>1 DEF Late, HookRecord, Scanned, Snapshot
      <4>2. t = Revise(Mine(r), hook[r].cur, hook[r].scan)
        BY <3>1
      <4>3. Mine(r) \in TurnRecord
        BY <1>a
      <4>4. LET v == Revise(Mine(r), hook[r].cur, hook[r].scan)
            IN  v \in TurnRecord /\ v.st = Mine(r).st /\ v.inv = Mine(r).inv
        BY SMTT(30), <4>1, <4>3, ReviseType, ReviseFields
      <4> QED
        BY <4>2, <4>4
    <3> QED
      BY <1>a, <3>1
  <2> HIDE DEF t
  <2>3. Continues(Mine(r), u, s)
    BY <2>2 DEF TurnRecord, Continues
  <2> HIDE DEF u
  <2> QED
    BY <1>1, <1>5, <2>1, <2>3
<1>10. CASE Verify(r)
  <2>1. UNCHANGED turn \/ \E x : turn' = [turn EXCEPT ![Me(r)].results = x]
    BY <1>10, Zenon DEF Verify
  <2>2. ASSUME NEW x, turn' = [turn EXCEPT ![Me(r)].results = x]
        PROVE  Continues(turn[a], turn'[a], s)
    BY <1>a, <1>b, <2>2 DEF Continues, TurnRecord
  <2> QED
    BY <1>1, <2>1, <2>2
<1>11. CASE Prompt(r) \/ Decide(r)
  <2>1. CASE Me(r) # a
    <3>1. turn'[a] = turn[a]
      BY <1>11, <1>a, <2>1 DEF Prompt, Decide
    <3> QED
      BY <1>b, <3>1
  <2>2. CASE Me(r) = a
    <3>1. NoTurn.st = "none"
      BY DEF NoTurn
    <3>2. UNCHANGED turn \/ turn' = [turn EXCEPT ![a].blocks = @ + 1]
      BY <1>11, <1>a, <2>2, <3>1 DEF Decide
    <3>3. turn'[a].inv = turn[a].inv /\ turn'[a].st = turn[a].st
      BY <1>a, <3>2 DEF TurnRecord
    <3> QED
      BY <3>3 DEF Continues
  <2> QED
    BY <2>1, <2>2
<1> QED
  BY <1>2, <1>3, <1>4, <1>6, <1>7, <1>8, <1>9, <1>10, <1>11 DEF Step

\* A call whose turn is over never finds it open again.
LEMMA GoneStays ==
  ASSUME Typed, Ids, Roles, NEW r \in Slots, Step(r), NEW s \in Slots,
         hook[s].op \notin {"none", "start"}, hook'[s].id = hook[s].id, Current(s)'
  PROVE  /\ Current(s)
         /\ Me(r) = Me(s) => ~Prompt(r) /\ (Decide(r) => turn'[Me(s)].st # "none")
<1> DEFINE a == Me(s)
<1>a. /\ a \in Agents /\ turn[a].id \in Nat /\ closed[a] \in Nat /\ hook[s].id \in Nat
      /\ hook[r].id \in Nat
  BY ProvenanceAssumption DEF Typed, TypeOK, TurnRecord, HookRecord, Me
<1>1. turn'[a].st # "none" /\ turn'[a].id = hook[s].id
  BY DEF Current, Mine, Me
<1>2. Known(a, hook[s].id) /\ TurnStep(r, a)
  BY <1>a, StepOfTurn DEF Ids, HookIds
<1>3. Me(r) = a /\ hook[r].op = "start" => hook[s].id < hook[r].id
  BY DEF Ids, HookIds
<1>4. Stays(a)
  BY <1>a, <1>1, <1>2, <1>3 DEF TurnStep
<1>5. Me(r) = a => ~Prompt(r)
  <2>1. SUFFICES ASSUME Me(r) = a, Prompt(r) PROVE FALSE
    OBVIOUS
  <2>2. turn'[a].id = hook[r].id
    BY <1>a, <2>1, TurnEnds
  <2>3. hook[r].op = "start"
    BY <2>1 DEF Prompt, At, Roles
  <2> QED
    BY <1>a, <1>1, <1>3, <2>1, <2>2, <2>3
<1> QED
  BY <1>a, <1>1, <1>2, <1>4, <1>5 DEF Stays, Known, Current, Mine

-----------------------------------------------------------------------------

\* A hook's scan comes from the files, one at a time.
LEMMA ScanStep ==
  ASSUME Typed, NEW r \in Slots, Step(r), ~\E p \in Paths : ScanPath(r, p)
  PROVE  hook'[r].scan \in {hook[r].scan, Idle.scan}
<1>a. hook \in [Slots -> HookRecord] /\ hook[r] \in HookRecord /\ Idle \in HookRecord
  BY IdleType DEF Typed, TypeOK
<1>b. ASSUME NEW ok \in BOOLEAN
      PROVE  /\ Observed(r, ok).scan = Idle.scan /\ Observed(r, ok) \in HookRecord
             /\ Unstored(r).scan \in {hook[r].scan, Idle.scan}
  <2>1. Observed(r, ok).scan = Idle.scan /\ Observed(r, FALSE).scan = Idle.scan
    BY <1>a DEF Observed, HookRecord
  <2>2. Observed(r, FALSE) \in HookRecord /\ Observed(r, ok) \in HookRecord
    BY ObservedType DEF Typed
  <2> QED
    BY <2>1, <2>2 DEF Unstored, HookRecord
<1>1. CASE BeginStart(r) \/ BeginStop(r)
  BY <1>a, <1>1 DEF BeginStart, BeginStop, HookRecord
<1>2. CASE BeginTool(r)
  BY <1>a, <1>2 DEF BeginTool, HookRecord
<1>3. CASE Capture(r) \/ Invoke(r) \/ PreFails(r) \/ ToolEnds(r) \/ Resume(r)
  BY <1>a, <1>3 DEF Capture, Invoke, PreFails, ToolEnds, Resume, Goto, HookRecord
<1>4. CASE View(r) \/ SaveBaseline(r)
  BY ZenonT(40), <1>a, <1>4 DEF View, SaveBaseline, HookRecord
<1>5. CASE ScanFails(r) \/ CommitLost(r)
  BY <1>a, <1>b, <1>5 DEF ScanFails, CommitLost, HookRecord
<1>6. CASE Commit(r)
  <2>1. hook'[r] \in {Idle, [Observed(r, TRUE) EXCEPT !.gen = gen', !.cur = cur']}
    BY <1>a, <1>6 DEF Commit
  <2> QED
    BY <1>b, <2>1 DEF HookRecord
<1>7. CASE CommitCut(r)
  <2>1. hook'[r] \in {Idle, Unstored(r)}
    BY <1>a, <1>7 DEF CommitCut, End
  <2> QED
    BY <1>b, <2>1
<1>8. CASE Prompt(r) \/ Verify(r)
  BY <1>a, <1>8 DEF Prompt, Verify, End
<1>9. CASE Status(r)
  BY <1>a, <1>9 DEF Status, HookRecord
<1>10. CASE HookDies(r)
  BY <1>a, <1>10 DEF HookDies, HookRecord
<1>11. CASE Decide(r)
  <2> DEFINE g == [Idle EXCEPT !.pc = "view", !.op = "restart", !.id = Mine(r).id]
  <2>1. hook'[r] = Idle \/ hook'[r] = g
    BY <1>a, <1>11 DEF Decide, End
  <2>2. g.scan = Idle.scan
    BY <1>a DEF HookRecord
  <2> QED
    BY <2>1, <2>2
<1> QED
  BY <1>1, <1>2, <1>3, <1>4, <1>5, <1>6, <1>7, <1>8, <1>9, <1>10, <1>11 DEF Step

LEMMA TurnRevStep ==
  ASSUME Typed, RevInv, NEW r \in Slots, Step(r), NEW a \in Agents,
         Commit(r) => hook[r].scan \in Snapshot /\ NoLater(hook[r].scan, disk)
  PROVE  NoLater(turn'[a].rev, disk)
<1> USE DEF Typed
<1>a. /\ turn \in [Agents -> TurnRecord] /\ RTurn \in [Agents -> TurnRecord]
      /\ Me(r) \in Agents /\ hook[r] \in HookRecord /\ Mine(r) \in TurnRecord
      /\ closed \in [Agents -> Nat] /\ disk \in [Paths -> Nat] /\ cur \in Snapshot
      /\ hook[r].id \in 0 .. MaxTurns
  BY RecoverType, ProvenanceAssumption DEF TypeOK, Me, Mine, Snapshot, Stamp, HookRecord
<1>b. NoLater(RTurn[a].rev, disk) /\ NoLater(turn[a].rev, disk) /\ NoLater(Zero, disk)
  BY <1>a, RecoveredRev DEF RevInv, NoLater, Zero
<1>1. CASE turn'[a].rev \in {turn[a].rev, RTurn[a].rev, Zero}
  BY <1>1, <1>b
<1>2. CASE BeginStart(r) \/ Capture(r) \/ ToolEnds(r) \/ BeginStop(r)
           \/ (\E p \in Paths : ScanPath(r, p)) \/ ScanFails(r) \/ HookDies(r)
           \/ View(r) \/ CommitLost(r) \/ SaveBaseline(r) \/ CommitCut(r)
  BY <1>1, <1>2 DEF BeginStart, Capture, ToolEnds, BeginStop, ScanPath, ScanFails, HookDies,
     View, CommitLost, SaveBaseline, CommitCut
<1>3. CASE BeginTool(r)
  <2> DEFINE i == BoundId(Me(r))
             t == Bootstrapped(RTurn[Me(r)], i, base[Me(r)].id = i)
             u == [t EXCEPT !.inv[r] = None]
  <2>1. turn' = [RTurn EXCEPT ![Me(r)] = u]
    BY <1>3 DEF BeginTool
  <2>2. i \in 0 .. MaxTurns
    BY <1>a DEF BoundId, TurnRecord, TypeOK
  <2>3. t \in TurnRecord /\ t.rev \in {Zero, RTurn[Me(r)].rev}
    BY <1>a, <2>2, NoTurnType DEF Bootstrapped, TurnRecord, NoTurn
  <2> HIDE DEF t
  <2>4. u.rev = t.rev
    BY <2>3 DEF TurnRecord
  <2> HIDE DEF u
  <2> QED
    BY <1>1, <1>a, <2>1, <2>3, <2>4
<1>4. CASE Invoke(r)
  <2> DEFINE u == [RTurn[Me(r)] EXCEPT !.inv[r] = hook[r].cov, !.cap = TRUE]
  <2>1. turn' = RTurn \/ turn' = [RTurn EXCEPT ![Me(r)] = u]
    BY <1>4, <1>a DEF Invoke
  <2>2. u.rev = RTurn[Me(r)].rev
    BY <1>a DEF TurnRecord
  <2> HIDE DEF u
  <2> QED
    BY <1>1, <1>a, <2>1, <2>2
<1>5. CASE PreFails(r) \/ Resume(r)
  <2> DEFINE t == [Mine(r) EXCEPT !.inc = TRUE, !.cap = TRUE]
             u == [Mine(r) EXCEPT !.st = "degraded"]
  <2>1. UNCHANGED turn \/ turn' = [turn EXCEPT ![Me(r)] = t] \/ turn' = [turn EXCEPT ![Me(r)] = u]
    BY <1>5 DEF PreFails, Resume, Mine
  <2>2. t.rev = Mine(r).rev /\ u.rev = Mine(r).rev
    BY <1>a DEF TurnRecord
  <2> HIDE DEF t, u
  <2>3. turn'[a].rev = turn[a].rev
    BY <1>a, <2>1, <2>2 DEF Mine
  <2> QED
    BY <1>1, <2>3
<1>6. CASE Commit(r)
  <2>1. hook[r].scan \in Snapshot /\ NoLater(hook[r].scan, disk)
    BY <1>6
  <2>2. turn'[a] = IF a = Me(r)
                   THEN Evented(RTurn[a], closed[a], hook[r].id, cur, hook[r].scan) ELSE RTurn[a]
    BY <1>6, <1>a, AppliedAt DEF Commit
  <2>3. \A p \in Paths : Evented(RTurn[a], closed[a], hook[r].id, cur, hook[r].scan).rev[p]
                           \in {0, RTurn[a].rev[p], hook[r].scan[p]}
    BY <1>a, <2>1, EventedRev
  <2> QED
    BY <1>a, <1>b, <2>1, <2>2, <2>3 DEF NoLater
<1>7. CASE Status(r)
  <2> DEFINE t == IF Late(r) THEN Revise(Mine(r), hook[r].cur, hook[r].scan) ELSE Mine(r)
             u == [t EXCEPT !.inc = ~hook[r].ok \/ t.st = "degraded",
                            !.cap = @ \/ hook[r].op # "stop"]
  <2>1. UNCHANGED turn \/ turn' = [turn EXCEPT ![Me(r)] = u]
    BY <1>7 DEF Status
  <2>2. t \in TurnRecord /\ NoLater(t.rev, disk)
    <3>1. CASE Late(r)
      <4>1. hook[r].cur \in Snapshot /\ hook[r].scan \in Snapshot /\ NoLater(hook[r].scan, disk)
        BY <1>a, <3>1 DEF Late, HookRecord, Scanned, Snapshot, RevInv, NoLater
      <4>2. t = Revise(Mine(r), hook[r].cur, hook[r].scan)
        BY <3>1
      <4>3. Mine(r) \in TurnRecord /\ NoLater(Mine(r).rev, disk)
        BY <1>a DEF RevInv, Mine
      <4>4. t \in TurnRecord
        BY <4>1, <4>2, <4>3, ReviseType
      <4>5. \A p \in Paths : t.rev[p] \in {0, Mine(r).rev[p], hook[r].scan[p]}
        BY <4>1, <4>2, <4>3, RevisedRev
      <4> HIDE DEF t
      <4> QED
        BY <1>a, <4>1, <4>3, <4>4, <4>5 DEF NoLater
    <3> QED
      BY <1>a, <3>1 DEF RevInv, Mine
  <2> HIDE DEF t
  <2>3. u.rev = t.rev
    BY <2>2 DEF TurnRecord
  <2> HIDE DEF u
  <2> QED
    BY <1>1, <1>a, <1>b, <2>1, <2>2, <2>3
<1>8. CASE Verify(r)
  <2>1. UNCHANGED turn \/ \E x : turn' = [turn EXCEPT ![Me(r)].results = x]
    BY <1>8, Zenon DEF Verify
  <2>2. ASSUME NEW x, turn' = [turn EXCEPT ![Me(r)].results = x]
        PROVE  turn'[a].rev = turn[a].rev
    BY <1>a, <2>2 DEF TurnRecord
  <2> QED
    BY <1>1, <2>1, <2>2
<1>9. CASE Prompt(r)
  <2> DEFINE t == [NoTurn EXCEPT !.id = hook[r].id, !.bl = hook[r].ok,
                          !.st = IF hook[r].ok THEN "ready" ELSE "missing", !.inc = ~hook[r].ok]
  <2>1. t.rev = Zero
    BY DEF NoTurn
  <2>2. turn' = [turn EXCEPT ![Me(r)] = t]
    BY <1>9 DEF Prompt
  <2> HIDE DEF t
  <2> QED
    BY <1>1, <1>a, <2>1, <2>2
<1>10. CASE Decide(r)
  <2> DEFINE t == [Mine(r) EXCEPT !.blocks = @ + 1]
  <2>1. UNCHANGED turn \/ turn' = [turn EXCEPT ![Me(r)] = NoTurn]
        \/ turn' = [turn EXCEPT ![Me(r)] = t]
    BY <1>10 DEF Decide, Mine
  <2>2. NoTurn.rev = Zero /\ t.rev = Mine(r).rev
    BY <1>a DEF NoTurn, TurnRecord
  <2> HIDE DEF t
  <2>3. turn'[a].rev \in {turn[a].rev, NoTurn.rev}
    BY <1>a, <2>1, <2>2 DEF Mine
  <2> QED
    BY <1>1, <2>2, <2>3
<1> QED
  BY <1>2, <1>3, <1>4, <1>5, <1>6, <1>7, <1>8, <1>9, <1>10 DEF Step

LEMMA RevKept ==
  ASSUME IInv, RevInv, Next
  PROVE  RevInv'
<1>a. /\ Typed /\ Typed' /\ TypeOK /\ TypeOK' /\ disk \in [Paths -> Nat] /\ disk' \in [Paths -> Nat]
      /\ turn \in [Agents -> TurnRecord] /\ RTurn \in [Agents -> TurnRecord]
      /\ turn' \in [Agents -> TurnRecord] /\ hook \in [Slots -> HookRecord]
      /\ hook' \in [Slots -> HookRecord] /\ closed \in [Agents -> Nat]
  BY NextTypes, RecoverType, ProvenanceAssumption DEF IInv, Typed, TypeOK, Snapshot, Stamp
<1>b. NoLater(disk, disk')
  BY DiskGrows DEF IInv, NoLater
<1>c. ASSUME NEW x \in Snapshot, NoLater(x, disk) PROVE NoLater(x, disk')
  BY <1>a, <1>b, <1>c, ProvenanceAssumption DEF NoLater, Snapshot, Stamp
<1>d. \A a \in Agents : NoLater(RTurn[a].rev, disk) /\ NoLater(turn[a].rev, disk)
  BY <1>a, RecoveredRev DEF RevInv
<1>1. ASSUME NEW p \in Paths, Write(p)
      PROVE  RevInv'
  <2>1. \A a \in Agents : NoLater(turn[a].rev, disk')
    BY <1>a, <1>c DEF RevInv, TurnRecord
  <2>2. pend # None => NoLater(pend.after, disk')
    BY <1>a, <1>c DEF RevInv, TypeOK, Transition
  <2>3. \A s \in Slots, q \in Paths : hook[s].scan[q] # None => hook[s].scan[q] <= disk'[q]
    <3>1. \A s \in Slots, q \in Paths : hook[s].scan[q] # None => hook[s].scan[q] \in Nat
      BY <1>a, ProvenanceAssumption DEF HookRecord, Scanned, Stamp
    <3> QED
      BY <1>a, <1>b, <3>1 DEF RevInv, NoLater
  <2> QED
    BY <1>1, <2>1, <2>2, <2>3 DEF Write, manifest, RevInv, NoLater
<1>2. ASSUME NEW r \in Slots, Step(r)
      PROVE  RevInv'
  <2>a. UNCHANGED disk /\ hook[r] \in HookRecord /\ Me(r) \in Agents /\ Mine(r) \in TurnRecord
    BY <1>a, <1>2, ProvenanceAssumption DEF Me, Mine, Step, BeginStart, BeginTool, Capture, Invoke, PreFails,
       ToolEnds, BeginStop, Resume, View, ScanPath, ScanFails, Commit, CommitLost, CommitCut,
       SaveBaseline, Prompt, Status, Verify, Decide, HookDies, files
  <2>b. Commit(r) \/ CommitCut(r) => hook[r].scan \in Snapshot /\ NoLater(hook[r].scan, disk)
    BY DEF Commit, CommitCut, At, IInv, Typed, ScannedInv, FreshInv, NoLater
  <2>1. ASSUME NEW s \in Slots, NEW p \in Paths, hook'[s].scan[p] # None
        PROVE  hook'[s].scan[p] <= disk'[p]
    <3>1. CASE s # r
      BY <1>2, <1>a, <2>1, <2>a, <3>1, OneHook DEF RevInv
    <3>2. CASE s = r
      <4>1. ASSUME NEW q \in Paths, ScanPath(r, q)
            PROVE  hook'[r].scan[p] \in {hook[r].scan[p], disk[p], hook[r].cur[p]}
                   /\ (hook'[r].scan[p] # hook[r].scan[p] => hook[r].cur[p] <= disk[p])
        <5>1. PICK seen \in {disk[q], hook[r].cur[q]} : hook'[r].scan = [hook[r].scan EXCEPT ![q] = seen]
          BY <1>a, <2>a, <4>1 DEF ScanPath, HookRecord
        <5>2. hook'[r].scan[p] = IF p = q THEN seen ELSE hook[r].scan[p]
          BY <2>a, <5>1 DEF HookRecord, Scanned
        <5>3. hook[r].cur[p] <= disk[p]
          BY <4>1 DEF ScanPath, At, IInv, FreshInv
        <5> QED
          BY <5>1, <5>2, <5>3
      <4>2. CASE \E q \in Paths : ScanPath(r, q)
        BY <1>a, <2>1, <2>a, <3>2, <4>1, <4>2 DEF RevInv
      <4>3. CASE hook'[r].scan \in {hook[r].scan, Idle.scan}
        BY <2>1, <2>a, <3>2, <4>3, IdleHook DEF RevInv
      <4>4. ASSUME ~\E q \in Paths : ScanPath(r, q)
            PROVE  hook'[r].scan \in {hook[r].scan, Idle.scan}
        BY <4>4, <1>a, <1>2, ScanStep
      <4> QED
        BY <4>2, <4>3, <4>4
    <3> QED
      BY <3>1, <3>2
  <2>2. pend' # None => NoLater(pend'.after, disk)
    <3>1. pend' \in {pend, None} \/ CommitCut(r)
      BY <1>2 DEF Step, BeginStart, BeginTool, Capture, Invoke, PreFails, ToolEnds,
         BeginStop, Resume, View, ScanPath, ScanFails, Commit, CommitLost,
         SaveBaseline, Prompt, Status, Verify, Decide, HookDies, manifest
    <3>2. CommitCut(r) => pend'.after = hook[r].scan
      BY DEF CommitCut
    <3> QED
      BY <2>b, <3>1, <3>2 DEF RevInv
  <2>3. ASSUME NEW a \in Agents PROVE NoLater(turn'[a].rev, disk)
    BY <1>a, <1>2, <2>b, <2>3, TurnRevStep
  <2> QED
    BY <2>1, <2>2, <2>3, <2>a DEF RevInv
<1> QED
  BY <1>1, <1>2 DEF Next

LEMMA ResultsKept ==
  ASSUME Typed, Ids, ResultsInv, RevInv, CoversInv, Roles, NEW r \in Slots, Step(r)
  PROVE  ResultsInv'
<1>a. turn \in [Agents -> TurnRecord] /\ Me(r) \in Agents /\ Mine(r) \in TurnRecord
  BY ProvenanceAssumption DEF Typed, TypeOK, Me, Mine
<1>1. ASSUME NEW a \in Agents, Heir(turn[a], turn'[a]), turn'[a].st # "degraded"
      PROVE  \A x \in turn'[a].results : NoLater(x.cov, x.from)
  BY <1>1 DEF Heir, ResultsInv
<1>2. ASSUME NEW a \in Agents, Me(r) = a, Verify(r), turn'[a].st # "degraded"
      PROVE  \A x \in turn'[a].results : NoLater(x.cov, x.from)
  <2> DEFINE stored == Mine(r).inv[r]
             covers == IF stored # None THEN stored ELSE Mine(r).rev
             t == [Mine(r) EXCEPT !.results = @ \cup {[cov |-> covers, from |-> hook[r].from]}]
  <2>1. UNCHANGED turn \/ (Current(r) /\ turn' = [turn EXCEPT ![a] = t])
    BY <1>2 DEF Verify, Mine
  <2>2. CASE UNCHANGED turn
    BY <1>2, <2>2 DEF ResultsInv
  <2>3. CASE Current(r) /\ turn' = [turn EXCEPT ![a] = t]
    <3>1. turn'[a] = t /\ t.st = Mine(r).st
      BY <1>a, <2>3 DEF TurnRecord
    <3>2. hook[r].op = "check" /\ At(r, "verify")
      BY <1>2, <1>a DEF Verify, At, Roles
    <3>3. stored # None /\ NoLater(stored, hook[r].from)
      BY <1>2, <2>3, <3>1, <3>2 DEF CoversInv, At
    <3>4. t.results = Mine(r).results \cup {[cov |-> stored, from |-> hook[r].from]}
      BY <1>a, <3>3 DEF TurnRecord
    <3>5. \A x \in Mine(r).results : NoLater(x.cov, x.from)
      BY <1>2, <1>a, <3>1 DEF ResultsInv, Mine
    <3> QED
      BY <3>1, <3>3, <3>4, <3>5
  <2> QED
    BY <2>1, <2>2, <2>3
<1>3. ASSUME NEW a \in Agents, ~(Me(r) = a /\ Verify(r))
      PROVE  Heir(turn[a], turn'[a])
  BY <1>3, HeirStep DEF Ids
<1> QED
  BY <1>1, <1>2, <1>3 DEF ResultsInv

\* A call past its PreTool hook keeps what it started with.
LEMMA CallGoesOn ==
  ASSUME PreMayFail = FALSE, Typed, Roles, NEW r \in Slots, Step(r),
         hook'[r].op \in {"work", "check"}, ~BeginTool(r), ~Capture(r), ~Invoke(r)
  PROVE  /\ hook'[r].op = hook[r].op /\ hook'[r].from = hook[r].from /\ hook'[r].id = hook[r].id
         /\ hook[r].pc \notin {"capture", "invoke"} /\ hook'[r].pc \notin {"capture", "invoke"}
<1>a. hook \in [Slots -> HookRecord] /\ hook[r] \in HookRecord /\ Idle \in HookRecord
  BY IdleType DEF Typed, TypeOK
<1> USE IdleHook DEF HookRecord, At
<1>1. CASE BeginStart(r) \/ BeginStop(r)
  <2>1. hook'[r].op \in {"start", "stop"}
    BY ZenonT(40), <1>a, <1>1 DEF BeginStart, BeginStop
  <2> QED
    BY <2>1
<1>2. CASE PreFails(r) \/ SaveBaseline(r)
  <2>1. CASE PreFails(r)
    BY <2>1 DEF PreFails
  <2>2. CASE SaveBaseline(r)
    <3>1. hook[r].op = "start" /\ hook'[r].op = hook[r].op
      BY <1>a, <2>2 DEF SaveBaseline, Roles
    <3> QED
      BY <3>1
  <2> QED
    BY <1>2, <2>1, <2>2
<1>3. CASE ToolEnds(r) \/ Resume(r) \/ View(r)
  <2> DEFINE kept == /\ hook[r].pc \in {"tool", "resume", "view"}
                     /\ hook'[r].pc \in {"resume", "view", "status", "scan"}
                     /\ hook'[r].op = hook[r].op /\ hook'[r].from = hook[r].from
                     /\ hook'[r].id = hook[r].id
  <2>1. CASE ToolEnds(r)
    BY <1>a, <2>1 DEF ToolEnds, Goto
  <2>2. CASE Resume(r)
    <3>1. PICK b \in BOOLEAN :
            hook' = [hook EXCEPT ![r].pc = IF b THEN "view" ELSE "status", ![r].ok = b]
      BY <1>a, <2>2 DEF Resume, Current
    <3>2. hook[r].pc = "resume"
      BY <2>2 DEF Resume
    <3> QED
      BY <1>a, <3>1, <3>2
  <2>3. CASE View(r)
    BY <1>a, <2>3 DEF View
  <2> QED
    BY <1>3, <2>1, <2>2, <2>3
<1>4. ASSUME NEW p \in Paths, ScanPath(r, p)
      PROVE  /\ hook'[r].op = hook[r].op /\ hook'[r].from = hook[r].from /\ hook'[r].id = hook[r].id
             /\ hook[r].pc = "scan" /\ hook'[r].pc \in {"scan", "commit"}
  BY <1>a, <1>4 DEF ScanPath
<1>5. ASSUME hook[r].pc \in {"scan", "commit"}, NEW ok \in BOOLEAN,
             hook'[r].op = Observed(r, ok).op, hook'[r].pc = Observed(r, ok).pc,
             hook'[r].from = Observed(r, ok).from, hook'[r].id = Observed(r, ok).id
      PROVE  /\ hook'[r].op = hook[r].op /\ hook'[r].from = hook[r].from /\ hook'[r].id = hook[r].id
             /\ hook'[r].pc \notin {"capture", "invoke"}
  <2>1. hook[r].op # "restart"
    BY <1>5, ObservedAs
  <2> QED
    BY <1>5, <2>1, ObservedAs DEF After
<1>6. CASE ScanFails(r) \/ CommitLost(r)
  <2>1. /\ hook[r].pc \in {"scan", "commit"}
        /\ hook'[r] = Observed(r, FALSE) \/ hook'[r] = [hook[r] EXCEPT !.pc = "view"]
    BY <1>6, <1>a DEF ScanFails, CommitLost
  <2> QED
    BY <1>5, <1>a, <2>1
<1>7. CASE Commit(r)
  <2>1. Observed(r, TRUE) \in HookRecord
    BY ObservedHook
  <2>2. hook'[r] \in {Idle, [Observed(r, TRUE) EXCEPT !.gen = gen', !.cur = cur']}
        /\ hook[r].pc = "commit"
    BY <1>7, <1>a DEF Commit
  <2> QED
    BY <1>5, <2>1, <2>2
<1>8. CASE CommitCut(r)
  <2>1. Observed(r, FALSE) \in HookRecord
    BY ObservedHook
  <2>2. hook'[r] \in {Idle, Unstored(r)} /\ hook[r].pc = "commit"
    BY <1>8, <1>a DEF CommitCut, End
  <2>3. Unstored(r).pc = Observed(r, FALSE).pc /\ Unstored(r).op = Observed(r, FALSE).op
        /\ Unstored(r).from = Observed(r, FALSE).from /\ Unstored(r).id = Observed(r, FALSE).id
    BY <2>1 DEF Unstored
  <2> QED
    BY <1>5, <2>2, <2>3
<1>9. CASE Prompt(r) \/ Verify(r) \/ HookDies(r)
  BY <1>a, <1>9 DEF Prompt, Verify, End, HookDies
<1>10. CASE Status(r)
  <2>1. hook[r].pc = "status" /\ hook[r].op # "stop"
    BY <1>a, <1>10 DEF Status
  <2>2. hook'[r] = Idle \/ hook'[r] = [hook[r] EXCEPT !.pc = "verify", !.scan = Idle.scan]
    BY <1>a, <1>10, <2>1 DEF Status
  <2> QED
    BY <1>a, <2>1, <2>2
<1>11. CASE Decide(r)
  <2> DEFINE g == [Idle EXCEPT !.pc = "view", !.op = "restart", !.id = Mine(r).id]
  <2>1. hook'[r] = Idle \/ hook'[r] = g
    BY <1>a, <1>11 DEF Decide, End
  <2>2. g.op = "restart"
    BY <1>a
  <2> QED
    BY <2>1, <2>2
<1> QED
  BY <1>1, <1>2, <1>3, <1>4, <1>6, <1>7, <1>8, <1>9, <1>10, <1>11 DEF Step

LEMMA CoversKept ==
  ASSUME PreMayFail = FALSE, Typed, Ids, RevInv, CoversInv, Roles, NEW r \in Slots, Step(r)
  PROVE  CoversInv'
<1>a. /\ turn \in [Agents -> TurnRecord] /\ RTurn \in [Agents -> TurnRecord]
      /\ hook \in [Slots -> HookRecord] /\ \A s \in Slots : Me(s) \in Agents
      /\ turn' \in [Agents -> TurnRecord]
  BY RecoverType, NextTypes, ProvenanceAssumption DEF Next, Typed, TypeOK, Me
<1>b. UNCHANGED disk
  BY DEF Step, BeginStart, BeginTool, Capture, Invoke, PreFails,
       ToolEnds, BeginStop, Resume, View, ScanPath, ScanFails, Commit, CommitLost, CommitCut,
       SaveBaseline, Prompt, Status, Verify, Decide, HookDies, files
<1>1. ASSUME NEW s \in Slots, hook'[s].op \in {"work", "check"}, Current(s)',
             hook[s].op \notin {"none", "start"}, hook'[s].id = hook[s].id
      PROVE  /\ Current(s) /\ turn[Me(s)].st # "none" /\ RTurn[Me(s)].st = turn[Me(s)].st
             /\ RTurn[Me(s)].id = turn[Me(s)].id
             /\ s # r \/ (~BeginTool(r) /\ ~Invoke(r)) => Continues(turn[Me(s)], turn'[Me(s)], s)
  <2>1. Current(s) /\ (Me(r) = Me(s) => ~Prompt(r) /\ (Decide(r) => turn'[Me(s)].st # "none"))
    BY <1>1, GoneStays
  <2>2. turn[Me(s)].st # "none"
    BY <2>1 DEF Current, Mine
  <2>3. RTurn[Me(s)].st = turn[Me(s)].st /\ RTurn[Me(s)].id = turn[Me(s)].id
    BY <1>a, <2>2, RecoveredId DEF Ids, Typed
  <2>4. s # r \/ (~BeginTool(r) /\ ~Invoke(r)) => Continues(turn[Me(s)], turn'[Me(s)], s)
    BY <1>a, <2>1, <2>2, SameStep DEF Ids
  <2> QED
    BY <2>1, <2>2, <2>3, <2>4
\* A call that goes on.
<1>2. ASSUME NEW s \in Slots, hook'[s].op \in {"work", "check"}, Current(s)',
             hook'[s].op = hook[s].op, hook'[s].id = hook[s].id, hook'[s].from = hook[s].from,
             \/ s # r /\ hook'[s] = hook[s]
             \/ /\ ~BeginTool(r) /\ ~Invoke(r) /\ ~Capture(r)
                /\ hook[s].pc \notin {"capture", "invoke"} /\ hook'[s].pc \notin {"capture", "invoke"}
      PROVE  /\ Mine(s)'.st \in {"ready", "degraded"}
             /\ hook'[s].op = "check" /\ hook'[s].pc = "invoke" =>
                  hook'[s].cov # None /\ NoLater(hook'[s].cov, disk)
             /\ hook'[s].op = "check" /\ hook'[s].pc \notin {"capture", "invoke"} =>
                  \/ Mine(s)'.st = "degraded"
                  \/ Mine(s)'.inv[s] # None /\ NoLater(Mine(s)'.inv[s], hook'[s].from)
  <2>1. Current(s) /\ Continues(turn[Me(s)], turn'[Me(s)], s)
    BY <1>1, <1>2
  <2>2. Mine(s).st \in {"ready", "degraded"}
    BY <1>2, <2>1 DEF CoversInv
  <2>3. Mine(s)'.inv[s] = Mine(s).inv[s] /\ (Mine(s).st = "degraded" => Mine(s)'.st = "degraded")
        /\ Mine(s)'.st \in {"ready", "degraded"}
    BY <2>1, <2>2 DEF Continues, Mine, Me
  <2> QED
    BY <1>2, <2>1, <2>3 DEF CoversInv, At
\* One that starts.
<1>3. ASSUME BeginTool(r)
      PROVE  /\ Mine(r)'.st \in {"ready", "degraded"}
             /\ hook'[r].op = "check" => hook'[r].pc # "invoke"
             /\ hook'[r].op = "check" /\ hook'[r].pc \notin {"capture", "invoke"} =>
                  Mine(r)'.st = "degraded"
  <2> DEFINE i == BoundId(Me(r))
             t == Bootstrapped(RTurn[Me(r)], i, base[Me(r)].id = i)
             u == [t EXCEPT !.inv[r] = None]
  <2>1. turn' = [RTurn EXCEPT ![Me(r)] = u] /\ i \in 0 .. MaxTurns
    BY <1>3, <1>a DEF BeginTool, BoundId, TurnRecord, Typed, TypeOK
  <2>2. t \in TurnRecord /\ t.st \in {"ready", "degraded"}
    <3>1. RTurn[Me(r)] \in TurnRecord
      BY <1>a
    <3>2. i \in 0 .. MaxTurns
      BY <2>1
    <3> HIDE DEF i
    <3> QED
      BY <3>1, <3>2, NoTurnType DEF Bootstrapped, TurnRecord
  <2>3. hook'[r].op = "check" => hook'[r].pc = (IF t.st = "degraded" THEN "tool" ELSE "capture")
    BY <1>3, <1>a, IdleType DEF BeginTool, HookRecord
  <2> HIDE DEF t
  <2>4. u.st = t.st
    BY <2>2 DEF TurnRecord
  <2> HIDE DEF u
  <2>5. Mine(r)'.st = t.st
    BY <1>a, <2>1, <2>4 DEF Mine, Me
  <2> QED
    BY <2>2, <2>3, <2>5
<1>4. ASSUME Capture(r), Current(r)'
      PROVE  /\ Mine(r)'.st \in {"ready", "degraded"}
             /\ hook'[r].pc = "invoke" /\ hook'[r].cov # None /\ NoLater(hook'[r].cov, disk)
  <2>1. UNCHANGED turn /\ hook'[r].id = hook[r].id /\ hook'[r].pc = "invoke"
        /\ hook'[r].cov = IF Current(r) THEN Mine(r).rev ELSE None
    BY <1>4, <1>a DEF Capture, HookRecord
  <2>2. Current(r) /\ hook[r].op = "check"
    BY <1>4, <2>1 DEF Current, Mine, Me, Capture, Roles, At
  <2>3. Mine(r).rev \in Snapshot /\ NoLater(Mine(r).rev, disk)
    BY <1>a DEF Mine, TurnRecord, RevInv
  <2>4. Mine(r)'.st \in {"ready", "degraded"}
    BY <2>1, <2>2 DEF CoversInv, Mine, Me
  <2> QED
    BY <2>1, <2>2, <2>3, <2>4, NoneAssumption
<1>5. ASSUME Invoke(r), Current(r)', hook'[r].op \in {"work", "check"}
      PROVE  /\ Mine(r)'.st \in {"ready", "degraded"} /\ hook'[r].pc = "tool"
             /\ hook'[r].op = "check" =>
                  \/ Mine(r)'.st = "degraded"
                  \/ Mine(r)'.inv[r] # None /\ NoLater(Mine(r)'.inv[r], hook'[r].from)
  <2> DEFINE u == [RTurn[Me(r)] EXCEPT !.inv[r] = hook[r].cov, !.cap = TRUE]
  <2>1. /\ hook'[r].id = hook[r].id /\ hook'[r].op = hook[r].op /\ hook'[r].pc = "tool"
        /\ hook'[r].from = disk /\ hook[r].pc = "invoke"
    BY <1>5, <1>a DEF Invoke, HookRecord, At
  <2>2. Current(r) /\ RTurn[Me(r)].st = Mine(r).st /\ RTurn[Me(r)].id = hook[r].id
    BY <1>1, <1>5, <2>1 DEF Current, Mine
  <2>3. /\ Mine(r).st \in {"ready", "degraded"}
        /\ hook[r].op = "check" => hook[r].cov # None /\ NoLater(hook[r].cov, disk)
    BY <1>5, <2>1, <2>2 DEF CoversInv, At
  <2>4. CASE Mine(r).st = "ready"
    <3>1. turn' = [RTurn EXCEPT ![Me(r)] = u]
      BY <1>5, <1>a, <2>2, <2>4 DEF Invoke
    <3>2. u.inv[r] = hook[r].cov /\ u.st = RTurn[Me(r)].st
      BY <1>a DEF TurnRecord
    <3> HIDE DEF u
    <3>3. Mine(r)' = u
      BY <1>a, <3>1 DEF Mine, Me
    <3> QED
      BY <2>1, <2>2, <2>3, <2>4, <3>2, <3>3
  <2>5. CASE Mine(r).st = "degraded"
    <3>1. turn' = RTurn
      BY <1>5, <2>2, <2>5 DEF Invoke
    <3> QED
      BY <2>1, <2>2, <2>5, <3>1 DEF Mine, Me
  <2> QED
    BY <2>3, <2>4, <2>5
<1>6. ASSUME NEW s \in Slots, hook'[s].op \in {"work", "check"}, Current(s)'
      PROVE  /\ Mine(s)'.st \in {"ready", "degraded"}
             /\ hook'[s].op = "check" /\ hook'[s].pc = "invoke" =>
                  hook'[s].cov # None /\ NoLater(hook'[s].cov, disk)
             /\ hook'[s].op = "check" /\ hook'[s].pc \notin {"capture", "invoke"} =>
                  \/ Mine(s)'.st = "degraded"
                  \/ Mine(s)'.inv[s] # None /\ NoLater(Mine(s)'.inv[s], hook'[s].from)
  <2>1. CASE s # r
    BY <1>2, <1>6, <2>1, OneHook
  <2>2. CASE s = r /\ BeginTool(r)
    BY <1>3, <1>6, <2>2
  <2>3. CASE s = r /\ Capture(r)
    BY <1>4, <1>6, <2>3
  <2>4. CASE s = r /\ Invoke(r)
    BY <1>5, <1>6, <2>4
  <2>5. CASE s = r /\ ~BeginTool(r) /\ ~Capture(r) /\ ~Invoke(r)
    <3>1. /\ hook'[r].op = hook[r].op /\ hook'[r].from = hook[r].from /\ hook'[r].id = hook[r].id
          /\ hook[r].pc \notin {"capture", "invoke"} /\ hook'[r].pc \notin {"capture", "invoke"}
      BY <1>6, <2>5, CallGoesOn
    <3> QED
      BY <1>2, <1>6, <2>5, <3>1
  <2> QED
    BY <2>1, <2>2, <2>3, <2>4, <2>5
<1> QED
  BY <1>6, <1>b DEF CoversInv, At, NoLater

\* The invariant: every check that is still of its turn goes by covers of a
\* moment before it started.
EvidenceInv == IInv /\ StopInv /\ RevInv /\ CoversInv /\ ResultsInv

LEMMA EvidenceInvSteps ==
  ASSUME PreMayFail = FALSE
  PROVE  /\ Init => EvidenceInv
         /\ EvidenceInv /\ [Next]_vars => EvidenceInv'
<1>1. Init => EvidenceInv
  <2> SUFFICES ASSUME Init PROVE EvidenceInv
    OBVIOUS
  <2>1. RevInv
    BY IdleHook, ProvenanceAssumption DEF Init, RevInv, NoLater, NoTurn, Zero
  <2>2. CoversInv
    BY IdleHook DEF Init, CoversInv
  <2>3. ResultsInv
    BY DEF Init, ResultsInv, NoTurn
  <2> QED
    BY <2>1, <2>2, <2>3, InitIInv, InitStopInv DEF EvidenceInv
<1>2. EvidenceInv /\ [Next]_vars => EvidenceInv'
  <2> SUFFICES ASSUME EvidenceInv, [Next]_vars PROVE EvidenceInv'
    OBVIOUS
  <2>1. IInv' /\ StopInv'
    BY NextIInv, StopInvKept DEF EvidenceInv
  <2>2. CASE Next
    <3>1. RevInv'
      BY <2>2, RevKept DEF EvidenceInv
    <3>2. ASSUME NEW p \in Paths, Write(p) PROVE CoversInv' /\ ResultsInv'
      <4>1. /\ UNCHANGED <<turn, hook>> /\ disk \in [Paths -> Nat] /\ disk' \in [Paths -> Nat]
            /\ NoLater(disk, disk') /\ hook \in [Slots -> HookRecord]
        BY <2>2, <3>2, Onward DEF Write, EvidenceInv, NoLater, IInv, Typed, TypeOK
      <4>2. \A s \in Slots : hook[s].cov # None /\ NoLater(hook[s].cov, disk) => NoLater(hook[s].cov, disk')
        BY <4>1, ProvenanceAssumption DEF NoLater, HookRecord, Snapshot, Stamp
      <4> QED
        BY <4>1, <4>2 DEF CoversInv, ResultsInv, Current, Mine, Me, At, EvidenceInv, NoLater
    <3>3. ASSUME NEW r \in Slots, Step(r) PROVE CoversInv' /\ ResultsInv'
      BY <3>3, CoversKept, ResultsKept DEF EvidenceInv, StopInv, IInv
    <3> QED
      BY <2>1, <2>2, <3>1, <3>2, <3>3 DEF EvidenceInv, Next
  <2>3. CASE UNCHANGED vars
    BY <2>1, <2>3 DEF vars, EvidenceInv, RevInv, CoversInv, ResultsInv, NoLater, Current, Mine, Me, At
  <2> QED
    BY <2>2, <2>3
<1> QED
  BY <1>1, <1>2

\* No check vouches for content that was not there when it started: a Stop that
\* is released by its evidence has a result of a check that began when every
\* revision still to be verified was on disk, if no PreTool hook fails before
\* it recorded the call; however prompts, other calls and recoveries cut in.
THEOREM StopEvidence ==
  ASSUME PreMayFail = FALSE
  PROVE  Spec => StopIsEvidenced
<1> DEFINE Evidenced == \A s \in Slots : Released(s) /\ Pending(Mine(s)) # {} =>
             \E r \in Mine(s).results : \A p \in Pending(Mine(s)) : r.from[p] >= Mine(s).rev[p]
<1>1. Init => EvidenceInv
  BY EvidenceInvSteps
<1>2. EvidenceInv /\ [Next]_vars => EvidenceInv'
  BY EvidenceInvSteps
<1>3. EvidenceInv => Evidenced
  <2> SUFFICES ASSUME EvidenceInv, NEW s \in Slots, Released(s), Pending(Mine(s)) # {}
               PROVE  \E x \in Mine(s).results : \A p \in Pending(Mine(s)) :
                        x.from[p] >= Mine(s).rev[p]
    OBVIOUS
  <2>1. At(s, "decide") /\ Mine(s).cap /\ ~Mine(s).inc /\ Verified(Mine(s))
    BY DEF Released, Passes, At
  <2>2. Mine(s).st # "degraded"
    BY <2>1 DEF EvidenceInv, StopInv, Roles, Sight, Watches, At
  <2>3. Me(s) \in Agents /\ Mine(s) \in TurnRecord
    BY ProvenanceAssumption DEF EvidenceInv, IInv, Typed, TypeOK, Me, Mine
  <2>4. PICK x \in Mine(s).results : \A p \in Pending(Mine(s)) : x.cov[p] = Mine(s).rev[p]
    BY <2>1 DEF Verified
  <2>5. NoLater(x.cov, x.from)
    BY <2>2, <2>3, <2>4 DEF EvidenceInv, ResultsInv, Mine
  <2>6. x.cov \in [Paths -> Nat] /\ x.from \in [Paths -> Nat]
    BY <2>3, <2>4, ProvenanceAssumption DEF TurnRecord, Snapshot, Stamp
  <2> QED
    BY <2>4, <2>5, <2>6 DEF Pending, NoLater
<1>4. EvidenceInv => [Evidenced]_vars
  BY <1>3
<1> QED
  BY <1>1, <1>2, <1>4, PTL DEF Spec, StopIsEvidenced

-----------------------------------------------------------------------------
(* The net delta of a turn.                                                *)

\* One agent in the workspace, whose host sends no prompt while a turn is open
\* or a call in flight, and hooks that end when a save fails.
Lone == Interrupts = FALSE /\ StoreFails = FALSE /\ \A a, b \in Agents : a = b

\* The hook of a call or a Stop belongs to the open turn; one of a prompt has
\* none beside it.
Attached == \A s \in Slots : hook[s].op \notin {"none", "start"} => Current(s)
StartAlone ==
  \A s, r \in Slots : hook[s].op = "start" /\ r # s => hook[r].op = "none"

\* A turn of which only a change event is known.
Unbased(t) == t.st = "none" \/ (t.st = "ready" /\ ~t.bl)

\* What a prompt's hook finds: no turn with a baseline, nothing pending of its
\* own; and the baseline file it leaves is the manifest its turn starts with.
Prompted(s) ==
  /\ Clear(s) /\ Unbased(RTurn[Me(s)])
  /\ At(s, "prompt") => (hook[s].ok <=> base[Me(s)].id = hook[s].id)
  /\ At(s, "prompt") /\ hook[s].ok => Same(base[Me(s)].snap, cur)
  /\ ~At(s, "prompt") => base[Me(s)].id # hook[s].id
Starts == \A s \in Slots : hook[s].op = "start" => Prompted(s)

\* A turn whose baseline is missing has no changes yet, and no file.
Bare(a) ==
  /\ RTurn[a].rev = Zero /\ \A p \in Paths : RTurn[a].first[p] = None
  /\ base[a].id # RTurn[a].id
  /\ pend # None => pend.id # RTurn[a].id

\* A Stop that found its turn ready found the baseline file.
Based ==
  \A s \in Slots :
    /\ hook[s].op = "restart" \/ (hook[s].op = "stop" /\ ~At(s, "resume"))
    /\ Mine(s).st = "ready"
    => base[Me(s)].id = hook[s].id

BaseIds == \A a \in Agents : base[a].id <= round[a]

\* A baseline file whose turn is still to come is the manifest.
Awaited(a) ==
  /\ base[a].id = round[a] /\ closed[a] < round[a]
  /\ RTurn[a].st = "none" \/ RTurn[a].id # round[a]

\* The net delta of one file: what is pending, and what was there at first.
NetOf(t, snap, p) ==
  /\ t.rev[p] # 0 <=> Text(snap[p]) # Text(cur[p])
  /\ t.first[p] = None => Text(snap[p]) = Text(cur[p])
  /\ t.first[p] # None => t.first[p] = Text(snap[p])

Sound(a) ==
  /\ RTurn[a].st = "missing" => Bare(a)
  /\ Awaited(a) => Same(base[a].snap, cur)
  /\ Anchored(a) => \A p \in Paths : NetOf(RTurn[a], base[a].snap, p)

Calm ==
  /\ Attached /\ StartAlone /\ Starts /\ Based /\ BaseIds
  /\ \A a \in Agents : Sound(a)

\* Beside a prompt's hook no other one takes a step.
LEMMA StartMoves ==
  ASSUME Lone, Typed, Roles, StartAlone, NEW r \in Slots, NEW s \in Slots, Step(r),
         hook[s].op = "start"
  PROVE  r = s
<1> SUFFICES ASSUME r # s PROVE FALSE
  OBVIOUS
<1>1. hook[r].op = "none" /\ hook[r].pc = "free" /\ hook[s].pc # "free" /\ Me(r) = Me(s)
  BY ProvenanceAssumption DEF StartAlone, Roles, Lone, Me
<1>2. ~BeginStart(r) /\ ~BeginTool(r) /\ ~BeginStop(r)
  BY <1>1 DEF BeginStart, BeginTool, BeginStop, At, Me
<1> QED
  BY <1>1, <1>2 DEF Step, Capture, Invoke, PreFails, ToolEnds, Resume, View, ScanPath, ScanFails,
     Commit, CommitLost, CommitCut, SaveBaseline, Prompt, Status, Verify, Decide, HookDies, At

LEMMA StartAloneKept ==
  ASSUME Lone, Typed, Roles, StartAlone, NEW q \in Slots, Step(q)
  PROVE  StartAlone'
<1> SUFFICES ASSUME NEW s \in Slots, NEW r \in Slots, hook'[s].op = "start", r # s
             PROVE  hook'[r].op = "none"
  BY DEF StartAlone
<1>1. CASE hook[s].op = "start"
  <2>1. q = s
    BY <1>1, StartMoves
  <2> QED
    BY <1>1, <2>1, OneHook DEF StartAlone
<1>2. CASE hook[s].op # "start"
  <2>1. q = s
    BY <1>2, OneHook
  <2>2. BeginStart(s)
    BY <1>2, <2>1, IdStep
  <2>3. hook'[r] = hook[r] /\ Me(r) = Me(s)
    BY <2>1, OneHook, ProvenanceAssumption DEF Lone, Me
  <2>4. hook[r].pc = "free"
    BY <2>2, <2>3 DEF BeginStart, Lone, Me, At
  <2> QED
    BY <2>3, <2>4 DEF Roles
<1> QED
  BY <1>1, <1>2

LEMMA AttachedKept ==
  ASSUME Lone, Typed, Ids, Roles, Alone, StartAlone, Attached, NEW q \in Slots, Step(q)
  PROVE  Attached'
<1> SUFFICES ASSUME NEW s \in Slots, hook'[s].op \notin {"none", "start"}
             PROVE  Current(s)'
  BY DEF Attached
<1>a. Me(s) \in Agents /\ Me(q) = Me(s) /\ hook \in [Slots -> HookRecord]
      /\ turn \in [Agents -> TurnRecord]
  BY ProvenanceAssumption DEF Lone, Me, Typed, TypeOK
<1>1. CASE Prompt(q)
  <2>1. hook[q].op = "start" /\ hook'[q].op = "none"
    BY <1>a, <1>1, IdleHook DEF Prompt, At, Roles, End
  <2> QED
    BY <2>1, OneHook DEF StartAlone
<1>2. CASE Decide(q) /\ ~Stays(Me(s))
  <2>1. hook[q].op = "stop" /\ hook'[q].op = "none"
    <3>1. hook[q].op = "stop"
      BY <1>2 DEF Decide, At, Roles
    <3>2. hook'[q].op \in {"none", "restart"}
      <4>1. Idle \in HookRecord
        BY IdleType
      <4> QED
        BY <1>a, <1>2, <4>1, IdleHook DEF Decide, End, HookRecord
    <3>3. ~BeginStop(q) /\ ~BeginStart(q) /\ ~BeginTool(q)
      <4>1. hook[q].pc = "decide"
        BY <1>2 DEF Decide, At
      <4> QED
        BY <4>1 DEF BeginStop, BeginStart, BeginTool, At, Me
    <3> QED
      BY <1>a, <1>2, <3>1, <3>2, <3>3, IdStep
  <2>2. s # q
    BY <2>1
  <2> QED
    BY <1>a, <2>1, <2>2, OneHook DEF Alone
<1>3. CASE Stays(Me(s))
  <2>1. CASE hook'[s].op = hook[s].op /\ hook'[s].id = hook[s].id
    BY <1>3, <2>1 DEF Attached, Current, Stays, Mine, Me
  <2>2. CASE s = q /\ ~(hook'[s].op = hook[s].op /\ hook'[s].id = hook[s].id)
    <3>1. CASE BeginTool(q)
      <4>1. hook'[q].id = BoundId(Me(q))
        BY <1>a, <3>1, IdleType DEF BeginTool, HookRecord
      <4> QED
        BY <2>2, <3>1, <4>1, ToolOpens DEF Current, Mine, Me
    <3>2. CASE BeginStop(q) \/ (Decide(q) /\ Current(q))
      <4>1. CASE BeginStop(q)
        <5>1. hook'[q].id = Mine(q).id /\ Mine(q).st # "none"
          BY <1>a, <4>1, IdleType DEF BeginStop, HookRecord
        <5> QED
          BY <1>3, <2>2, <5>1 DEF Stays, Current, Mine, Me
      <4>2. CASE Decide(q) /\ Current(q)
        <5>1. hook'[q] = Idle \/ hook'[q].id = Mine(q).id
          BY <1>a, <4>2, IdleType DEF Decide, End, HookRecord
        <5> QED
          BY <1>3, <2>2, <4>2, <5>1, IdleHook DEF Stays, Current, Mine, Me
      <4> QED
        BY <3>2, <4>1, <4>2
    <3> QED
      BY <2>2, <3>1, <3>2, IdStep
  <2> QED
    BY <2>1, <2>2, OneHook
<1> QED
  BY <1>a, <1>1, <1>2, <1>3, TurnStays DEF Ids

\* The turn after the next recovery, when it is not there yet.
LEMMA RecoveredUnbased ==
  ASSUME TypeOK, TurnIds, NEW a \in Agents
  PROVE  turn[a].st = "none" \/ Unbased(turn[a]) => Unbased(RTurn[a])
  BY RecoveredId DEF Unbased

LEMMA EventedUnbased ==
  ASSUME NEW t \in TurnRecord, Unbased(t), NEW shut \in Nat, NEW id \in 0 .. MaxTurns,
         NEW before \in Snapshot, NEW after \in Snapshot
  PROVE  Unbased(Evented(t, shut, id, before, after))
<1> DEFINE u == Evented(t, shut, id, before, after)
<1>1. /\ t.st # "none" => u.st = t.st /\ u.bl = t.bl
      /\ t.st = "none" /\ u # t => u.st = "ready" /\ ~u.bl
  BY EventedFields
<1> HIDE DEF u
<1>2. Unbased(u)
  BY <1>1 DEF Unbased
<1> QED
  BY <1>2 DEF u

\* The steps of a prompt's hook that are not its last.
LEMMA PromptedKept ==
  ASSUME Lone, IInv, Ids, Roles, StartAlone, BaseIds, Starts,
         NEW r \in Slots, Step(r), hook'[r].op = "start"
  PROVE  Prompted(r)'
<1>a. /\ Typed /\ Typed' /\ TypeOK /\ TypeOK' /\ Next /\ Me(r) \in Agents /\ TurnIds /\ HookIds
      /\ turn \in [Agents -> TurnRecord] /\ RTurn \in [Agents -> TurnRecord]
      /\ hook \in [Slots -> HookRecord] /\ hook[r] \in HookRecord /\ Idle \in HookRecord
      /\ base \in [Agents -> [id : 0 .. MaxTurns, snap : Snapshot]]
      /\ round \in [Agents -> Nat] /\ Me(r)' = Me(r)
  BY NextTypes, RecoverType, IdleType, ProvenanceAssumption DEF Next, IInv, Typed, TypeOK, Me, Ids
<1>1. CASE hook[r].op # "start"
  <2>1. BeginStart(r) /\ hook'[r].id = round[Me(r)] + 1
    BY <1>1, <1>a, IdStep
  <2>2. UNCHANGED <<pend, turn, base, cur, closed>> /\ turn[Me(r)].st = "none" /\ hook'[r].pc = "view"
    BY <1>a, <2>1 DEF BeginStart, Lone, manifest, HookRecord
  <2>3. RTurn' = RTurn
    BY <2>2 DEF RTurn, Reached, Applied
  <2>4. Clear(r)'
    <3>1. pend # None /\ pend.agent = Me(r) => pend.id <= round[Me(r)] /\ pend.id \in Nat
      BY <1>a DEF TurnIds, TypeOK, Transition
    <3> QED
      BY <1>a, <2>1, <2>2, <3>1 DEF Clear
  <2>5. base[Me(r)].id <= round[Me(r)] /\ base[Me(r)].id \in Nat
    BY <1>a DEF BaseIds
  <2>6. base'[Me(r)].id # hook'[r].id
    BY <1>a, <2>1, <2>2, <2>5
  <2> QED
    BY <1>a, <2>2, <2>3, <2>4, <2>6, RecoveredUnbased DEF Prompted, At, Unbased
<1>2. CASE hook[r].op = "start"
  <2>a. /\ Prompted(r) /\ hook[r].pc \in {"view", "scan", "commit", "baseline", "prompt"}
        /\ hook'[r].pc \in {"view", "scan", "commit", "baseline", "prompt"}
        /\ hook'[r].id = hook[r].id
    <3>1. RoleOf(hook'[r])
      BY <1>a, RoleStep
    <3>2. ~BeginStart(r)
      BY <1>2 DEF BeginStart, At, Roles
    <3> QED
      BY <1>2, <1>a, <3>1, <3>2, IdStep DEF Starts, Roles, RoleOf
  \* Its scan and its lost commits.
  <2>1. ASSUME RTurn' = RTurn, pend' \in {pend, None}, UNCHANGED <<base, cur>>, ~At(r, "prompt"),
               hook'[r].pc = "prompt" => ~hook'[r].ok
        PROVE  Prompted(r)'
    BY <1>a, <2>a, <2>1 DEF Prompted, Clear, At
  <2>2. CASE View(r)
    <3>1. RTurn' = RTurn
      BY <2>2 DEF View, RTurn, Reached
    <3>2. hook'[r].pc = "scan"
      BY <1>a, <2>2 DEF View, HookRecord
    <3> QED
      BY <2>1, <2>2, <3>1, <3>2 DEF View, At
  <2>3. ASSUME NEW p \in Paths, ScanPath(r, p) PROVE Prompted(r)'
    <3>1. RTurn' = RTurn
      BY <2>3 DEF ScanPath, RTurn, Reached, manifest, Applied
    <3>2. hook'[r].pc \in {"scan", "commit"}
      BY <1>a, <2>3 DEF ScanPath, HookRecord
    <3> QED
      BY <2>1, <2>3, <3>1, <3>2 DEF ScanPath, At, manifest
  <2>4. Observed(r, FALSE) \in HookRecord /\ Observed(r, FALSE).ok = FALSE
        /\ Observed(r, TRUE).pc = "baseline" /\ Observed(r, TRUE) \in HookRecord
    BY <1>2, <1>a, ObservedAs, ObservedHook DEF After
  <2>5. CASE ScanFails(r)
    <3>1. RTurn' = RTurn
      BY <2>5 DEF ScanFails, RTurn, Reached, manifest, Applied
    <3>2. hook'[r].ok = FALSE
      BY <1>a, <2>4, <2>5 DEF ScanFails
    <3> QED
      BY <2>1, <2>5, <3>1, <3>2 DEF ScanFails, At, manifest
  <2>6. CASE CommitLost(r)
    <3>1. RTurn' = RTurn
      BY <2>6 DEF CommitLost, RTurn, Reached
    <3>2. hook'[r].pc = "view" \/ hook'[r].ok = FALSE
      BY <1>a, <2>4, <2>6 DEF CommitLost, HookRecord
    <3> QED
      BY <2>1, <2>6, <3>1, <3>2 DEF CommitLost, At
  <2>7. CASE Commit(r)
    <3>1. hook'[r].pc = "baseline" /\ pend' = None /\ UNCHANGED base /\ ~At(r, "prompt")
      BY <1>2, <1>a, <2>4, <2>7 DEF Commit, At, HookRecord
    <3>2. RTurn'[Me(r)] = RTurn[Me(r)]
          \/ RTurn'[Me(r)] = Evented(RTurn[Me(r)], closed[Me(r)], hook[r].id, cur, hook[r].scan)
      BY <1>a, <2>7, CommitMoves
    <3>3. hook[r].scan \in Snapshot /\ cur \in Snapshot /\ hook[r].id \in 0 .. MaxTurns
          /\ closed[Me(r)] \in Nat
      BY <1>a, <2>7, CommitMoves, ProvenanceAssumption DEF TypeOK, HookRecord
    <3>4. Unbased(RTurn'[Me(r)])
      <4>1. RTurn[Me(r)] \in TurnRecord /\ Unbased(RTurn[Me(r)])
        BY <1>a, <2>a DEF Prompted
      <4> QED
        BY <3>2, <3>3, <4>1, EventedUnbased
    <3> QED
      BY <1>a, <2>a, <3>1, <3>4 DEF Prompted, Clear, At
  <2>8. CASE SaveBaseline(r)
    <3>1. RTurn' = RTurn /\ pend' = None /\ cur' = cur
      BY <2>8 DEF SaveBaseline, RTurn, Reached
    <3>2. base[Me(r)].id # hook[r].id
      BY <2>a, <2>8 DEF Prompted, SaveBaseline, At
    <3>3. \/ hook'[r].ok /\ base'[Me(r)] = [id |-> hook[r].id, snap |-> cur]
          \/ ~hook'[r].ok /\ base' = base
      BY <1>a, <2>8, <3>2 DEF SaveBaseline, HookRecord
    <3>4. hook'[r].pc = "prompt"
      BY <1>a, <2>8 DEF SaveBaseline
    <3> QED
      BY <1>a, <2>a, <3>1, <3>2, <3>3, <3>4 DEF Prompted, Clear, At, Same
  <2>9. CASE CommitCut(r)
    <3>1. hook'[r] = Idle
      BY <1>a, <2>9 DEF CommitCut, End, Lone
    <3> QED
      BY <2>a, <3>1, IdleHook
  <2>10. CASE Prompt(r) \/ HookDies(r)
    <3>1. hook'[r] = Idle
      BY <1>a, <2>a, <2>10 DEF Prompt, End, HookDies
    <3> QED
      BY <2>a, <3>1, IdleHook
  <2> QED
    BY <2>a, <2>2, <2>3, <2>5, <2>6, <2>7, <2>8, <2>9, <2>10 DEF Step, BeginStart, BeginTool,
       Capture, Invoke, PreFails, ToolEnds, BeginStop, Resume, Status, Verify, Decide, At, Me
<1> QED
  BY <1>1, <1>2

LEMMA StartsKept ==
  ASSUME Lone, IInv, Ids, Roles, StartAlone, BaseIds, Starts, NEW r \in Slots, Step(r)
  PROVE  Starts'
<1>1. ASSUME NEW s \in Slots, hook'[s].op = "start", s # r
      PROVE  FALSE
  <2>1. Typed /\ hook[s].op = "start"
    BY <1>1, OneHook DEF IInv
  <2> QED
    BY <1>1, <2>1, StartMoves
<1> QED
  BY <1>1, PromptedKept DEF Starts

\* What the lemmas below share.
LEMMA LoneFacts ==
  ASSUME Lone, IInv, Ids, NEW r \in Slots, NEW a \in Agents, Step(r)
  PROVE  /\ Me(r) = a /\ Typed /\ TypeOK /\ TypeOK' /\ TurnIds /\ HookIds
         /\ turn \in [Agents -> TurnRecord] /\ RTurn \in [Agents -> TurnRecord]
         /\ hook \in [Slots -> HookRecord] /\ hook[r] \in HookRecord
         /\ base \in [Agents -> [id : 0 .. MaxTurns, snap : Snapshot]]
         /\ base[a].id \in Nat /\ base[a].snap \in [Paths -> Nat] /\ cur \in [Paths -> Nat]
         /\ closed[a] \in Nat /\ round[a] \in Nat /\ turn[a].id \in Nat /\ RTurn[a].id \in Nat
         /\ closed \in [Agents -> Nat] /\ round \in [Agents -> Nat]
         /\ pend # None => pend.agent = a
<1>1. Typed /\ TypeOK /\ TypeOK' /\ TurnIds /\ HookIds
  BY NextTypes DEF Next, IInv, Typed, Ids
<1>2. Me(r) = a
  BY ProvenanceAssumption DEF Me, Lone
<1>3. pend # None => pend.agent = a
  BY <1>1 DEF TypeOK, Transition, Lone
<1>4. RTurn \in [Agents -> TurnRecord]
  BY <1>1, RecoverType
<1>5. \A t \in TurnRecord : t.id \in Nat
  BY ProvenanceAssumption DEF TurnRecord
<1> QED
  BY <1>1, <1>2, <1>3, <1>4, <1>5, ProvenanceAssumption DEF TypeOK, Snapshot, Stamp

\* Steps that leave the manifest, the baselines and what the turn owes alone.
LEMMA QuietSound ==
  ASSUME NEW a \in Agents, Sound(a), Alike(RTurn[a], RTurn'[a]), pend' \in {pend, None},
         UNCHANGED <<cur, base, round>>, closed'[a] = closed[a]
  PROVE  Sound(a)'
<1>1. RTurn'[a].st = "missing" => Bare(a)'
  BY DEF Sound, Bare, Alike, SameDebt
<1>2. Awaited(a)' => Same(base'[a].snap, cur')
  BY DEF Sound, Awaited, Alike, SameDebt
<1>3. Anchored(a)' => \A p \in Paths : NetOf(RTurn[a], base[a].snap, p)'
  BY DEF Sound, Anchored, NetOf, Alike, SameDebt
<1> QED
  BY <1>1, <1>2, <1>3 DEF Sound

\* A call opens its turn, on the baseline file that is there or a new one.
LEMMA ToolSound ==
  ASSUME Lone, IInv, Ids, NEW r \in Slots, NEW a \in Agents, Step(r), Sound(a), BeginTool(r)
  PROVE  Sound(a)'
<1> DEFINE i == BoundId(a)
           t == Bootstrapped(RTurn[a], i, base[a].id = i)
           u == [t EXCEPT !.inv[r] = None]
           new == t.st = "ready" /\ base[a].id # i
<1>a. /\ Me(r) = a /\ RTurn \in [Agents -> TurnRecord] /\ base[a].id \in Nat /\ TypeOK
      /\ base \in [Agents -> [id : 0 .. MaxTurns, snap : Snapshot]] /\ closed[a] \in Nat
  BY LoneFacts
<1>1. /\ turn' = [RTurn EXCEPT ![a] = u] /\ pend' = None /\ UNCHANGED <<cur, closed, round>>
      /\ i > closed[a]
      /\ base' = IF new THEN [base EXCEPT ![a] = [id |-> i, snap |-> cur]] ELSE base
  BY <1>a DEF BeginTool
<1>2. RTurn'[a] = u
  BY <1>1, <1>a DEF RTurn, Reached
<1>3. i \in 0 .. MaxTurns /\ (RTurn[a].st # "none" => i = RTurn[a].id)
      /\ (RTurn[a].st = "none" => i = round[a])
  BY <1>a DEF BoundId, TurnRecord, TypeOK
<1>4. /\ t \in TurnRecord /\ t.id = i /\ t.st \in {"ready", "degraded"}
      /\ RTurn[a].st = "none" => /\ t.rev = Zero /\ \A p \in Paths : t.first[p] = None
      /\ RTurn[a].st # "none" => t.rev = RTurn[a].rev /\ t.first = RTurn[a].first
      /\ t.st = "ready" => RTurn[a].st \in {"none", "missing"}
                            \/ (RTurn[a].st = "ready" /\ RTurn[a].bl /\ base[a].id = i)
  BY <1>a, <1>3, NoTurnType DEF Bootstrapped, TurnRecord, NoTurn
<1> HIDE DEF t
<1>5. u.id = i /\ u.st = t.st /\ u.rev = t.rev /\ u.first = t.first
  BY <1>4 DEF TurnRecord
<1> HIDE DEF u, i
<1>6. base'[a] = IF new THEN [id |-> i, snap |-> cur] ELSE base[a]
  BY <1>1, <1>a
<1>7. Awaited(a)' => Same(base'[a].snap, cur')
  BY <1>1, <1>2, <1>3, <1>4, <1>5, <1>6 DEF Awaited, Sound, Same
<1>8. ASSUME Anchored(a)', NEW p \in Paths
      PROVE  NetOf(RTurn[a], base[a].snap, p)'
  <2>1. t.st = "ready"
    BY <1>2, <1>5, <1>8 DEF Anchored
  <2>2. CASE RTurn[a].st \in {"none", "missing"}
    <3>1. u.rev[p] = 0 /\ u.first[p] = None
      BY <1>4, <1>5, <2>2 DEF Sound, Bare, Zero
    <3>2. Text(base'[a].snap[p]) = Text(cur[p])
      BY <1>1, <1>3, <1>6, <2>1, <2>2 DEF Sound, Bare, Awaited, Same
    <3> QED
      BY <1>1, <1>2, <3>1, <3>2 DEF NetOf
  <2>3. CASE RTurn[a].st = "ready" /\ RTurn[a].bl /\ base[a].id = i
    <3>1. NetOf(RTurn[a], base[a].snap, p) /\ base'[a] = base[a]
      BY <1>3, <1>6, <2>3 DEF Sound, Anchored
    <3> QED
      BY <1>1, <1>2, <1>4, <1>5, <2>3, <3>1 DEF NetOf
  <2> QED
    BY <1>4, <2>1, <2>2, <2>3
<1> QED
  BY <1>2, <1>4, <1>5, <1>7, <1>8 DEF Sound

\* A commit moves the turn by what it moves the manifest.
LEMMA CommitSound ==
  ASSUME Lone, IInv, Ids, Roles, Attached, Starts, Based, NEW r \in Slots, NEW a \in Agents,
         Step(r), Sound(a), Commit(r) \/ CommitCut(r)
  PROVE  Sound(a)'
<1> DEFINE t == RTurn[a]
           u == RTurn'[a]
           d == Delta(cur, hook[r].scan)
<1>a. /\ Me(r) = a /\ t \in TurnRecord /\ base[a].snap \in [Paths -> Nat] /\ cur \in [Paths -> Nat]
      /\ TypeOK /\ TurnIds /\ HookIds /\ Typed /\ closed[a] \in Nat /\ round[a] \in Nat
  BY LoneFacts
<1>b. /\ hook[r].scan \in Snapshot /\ UNCHANGED <<closed, base, round>> /\ Allowed(r)
      /\ hook[r].op # "none" /\ hook[r].pc = "commit" /\ cur \in Snapshot /\ hook[r].id \in 0 .. MaxTurns
  BY <1>a, CommitMoves DEF Commit, CommitCut, At, TypeOK, HookRecord
<1>c. \/ cur' = hook[r].scan /\ u = Evented(t, closed[a], hook[r].id, cur, hook[r].scan)
      \/ cur' = cur /\ u = t
  BY <1>a, CommitMoves
<1>d. \A p \in Paths : cur[p] <= cur'[p] /\ cur'[p] \in Nat
  <2>1. cur' \in [Paths -> Nat]
    BY LoneFacts, ProvenanceAssumption DEF TypeOK, Snapshot, Stamp
  <2> QED
    BY <2>1, CommitMovesForward DEF Next
\* A prompt's commit is no change of the turn that is there.
<1>1. CASE hook[r].op = "start"
  <2>1. Unbased(t) /\ base[a].id # round[a]
    BY <1>a, <1>b, <1>1 DEF Starts, Prompted, At, HookIds
  <2>2. Unbased(u)
    BY <1>a, <1>b, <1>c, <2>1, EventedUnbased
  <2> QED
    BY <1>b, <2>1, <2>2 DEF Sound, Unbased, Anchored, Awaited
<1>2. CASE hook[r].op # "start"
  <2>1. turn[a].st # "none" /\ t.st = turn[a].st /\ t.id = turn[a].id /\ t.id = hook[r].id
        /\ t.bl = turn[a].bl
    BY <1>a, <1>b, <1>2, RecoveredId DEF Attached, Current, Mine
  <2>2. hook[r].op # "restart" => t.st = "ready" /\ t.bl /\ base[a].id = hook[r].id
    BY <1>a, <1>b, <1>2, <2>1 DEF Allowed, HookRecord, TypeOK, Op
  <2>3. d # {} => t.st = "ready" /\ base[a].id = hook[r].id
    BY <1>a, <1>b, <2>1, <2>2 DEF Allowed, Based, Mine
  <2>4. CASE cur' = cur /\ u = t
    <3>1. t.st = "missing" => pend' = None
      BY <1>a, <2>1, <2>2, <2>3 DEF Commit, CommitCut, Advances
    <3> QED
      BY <1>b, <2>4, <3>1 DEF Sound, Bare, Awaited, Anchored, NetOf, Same
  <2>5. CASE cur' = hook[r].scan /\ u = Evented(t, closed[a], hook[r].id, cur, hook[r].scan)
    <3>1. CASE d = {}
      <4>1. u = t /\ \A p \in Paths : Text(cur'[p]) = Text(cur[p])
        BY <2>5, <3>1 DEF Evented, Delta
      <4>2. t.st = "missing" => pend' = None
        BY <1>a, <2>1, <2>2, <3>1 DEF Commit, CommitCut, Advances
      <4> QED
        BY <1>b, <4>1, <4>2 DEF Sound, Bare, Awaited, Anchored, NetOf, Same
    <3>2. CASE d # {}
      <4>1. u = Revise(t, cur, hook[r].scan)
        BY <2>1, <2>5, <3>2 DEF Evented
      <4>2. u.st = t.st /\ u.id = t.id /\ u.bl = t.bl
        BY <1>a, <1>b, <4>1, ReviseFields
      <4>3. ASSUME Anchored(a)', NEW p \in Paths
            PROVE  NetOf(RTurn[a], base[a].snap, p)'
        <5> DEFINE was == Text(base[a].snap[p])
        <5>1. NetOf(t, base[a].snap, p)
          BY <1>b, <4>2, <4>3 DEF Anchored, Sound
        <5>2. /\ u.rev[p] = IF p \notin d THEN t.rev[p]
                            ELSE IF Text(cur'[p]) = u.first[p] THEN 0 ELSE cur'[p]
              /\ u.first[p] = IF t.first[p] = None /\ p \in d THEN Text(cur[p]) ELSE t.first[p]
          BY <1>a, <1>b, <2>5, <4>1, ReviseFields
        <5>3. p \in d <=> Text(cur[p]) # Text(cur'[p])
          BY <2>5 DEF Delta
        <5>4. was \in Nat /\ was # None
          BY <1>a, NoneAssumption, ProvenanceAssumption DEF Text
        <5>5. CASE p \notin d
          BY <1>b, <5>1, <5>2, <5>3, <5>5 DEF NetOf
        <5>6. CASE p \in d
          <6>1. u.first[p] = was
            BY <5>1, <5>2, <5>6 DEF NetOf
          <6>2. cur'[p] # 0
            BY <1>a, <1>d, <5>3, <5>6
          <6> HIDE DEF d, was
          <6>3. u.rev[p] # 0 <=> was # Text(cur'[p])
            BY <5>2, <5>6, <6>1, <6>2
          <6> QED
            BY <1>b, <5>4, <6>1, <6>3 DEF NetOf, was
        <5> QED
          BY <5>5, <5>6
      <4>4. ~Awaited(a)'
        BY <1>b, <2>1, <2>3, <3>2, <4>2 DEF Awaited
      <4> QED
        BY <1>b, <2>3, <3>2, <4>2, <4>3, <4>4 DEF Sound
    <3> QED
      BY <3>1, <3>2
  <2> QED
    BY <1>c, <2>4, <2>5
<1> QED
  BY <1>1, <1>2

\* The turn of a prompt starts with nothing pending, at its baseline.
LEMMA PromptSound ==
  ASSUME Lone, IInv, Ids, Roles, Starts, NEW r \in Slots, NEW a \in Agents, Step(r), Prompt(r)
  PROVE  Sound(a)'
<1> DEFINE t == [NoTurn EXCEPT !.id = hook[r].id, !.bl = hook[r].ok,
                        !.st = IF hook[r].ok THEN "ready" ELSE "missing", !.inc = ~hook[r].ok]
<1>a. /\ Me(r) = a /\ turn \in [Agents -> TurnRecord] /\ TypeOK /\ TypeOK' /\ HookIds
      /\ hook[r] \in HookRecord
      /\ pend # None => pend.agent = a
  BY LoneFacts
<1>1. turn'[a] = t /\ UNCHANGED <<pend, cur, base, round>> /\ hook[r].op = "start" /\ At(r, "prompt")
  BY <1>a DEF Prompt, manifest, At, Roles
<1>2. /\ t.id = hook[r].id /\ t.bl = hook[r].ok /\ t.rev = Zero /\ \A p \in Paths : t.first[p] = None
      /\ t.st = IF hook[r].ok THEN "ready" ELSE "missing"
  BY <1>a, NoTurnType DEF TurnRecord, NoTurn
<1>3. pend # None => pend.id # hook[r].id
  <2>1. Prompted(r)
    BY <1>1 DEF Starts
  <2>2. Clear(r)
    BY <2>1 DEF Prompted
  <2>3. pend # None => pend.agent = Me(r)
    BY <1>a
  <2> QED
    BY <2>2, <2>3 DEF Clear
<1> HIDE DEF t
<1>4. RTurn'[a] = t
  <2>1. t.st # "none" /\ t.id = hook[r].id
    BY <1>2
  <2>2. CASE Reached'
    <3>1. pend'.id # hook[r].id
      BY <1>1, <1>3, <2>2 DEF Reached
    <3> QED
      BY <1>a, <1>1, <2>1, <3>1, RTurnNext DEF Evented
  <2> QED
    BY <1>a, <1>1, <2>2, RTurnNext
<1>5. t.st = "missing" => Bare(a)'
  BY <1>a, <1>1, <1>2, <1>3, <1>4 DEF Starts, Prompted, Bare
<1>6. ~Awaited(a)'
  BY <1>a, <1>1, <1>2, <1>4 DEF Awaited, HookIds
<1>7. ASSUME Anchored(a)', NEW p \in Paths
      PROVE  NetOf(RTurn[a], base[a].snap, p)'
  <2>1. hook[r].ok
    BY <1>2, <1>4, <1>7 DEF Anchored
  <2>2. Text(base[a].snap[p]) = Text(cur[p])
    BY <1>a, <1>1, <2>1 DEF Starts, Prompted, Same
  <2> QED
    BY <1>1, <1>2, <1>4, <2>2 DEF NetOf, Zero
<1> QED
  BY <1>4, <1>5, <1>6, <1>7 DEF Sound

\* A turn is closed, a prompt begins, a baseline is saved.
LEMMA EndSound ==
  ASSUME Lone, IInv, Ids, Roles, Attached, Starts, BaseIds, NEW r \in Slots, NEW a \in Agents,
         Step(r), Sound(a), BeginStart(r) \/ SaveBaseline(r) \/ (Decide(r) /\ turn'[a].st = "none")
  PROVE  Sound(a)'
<1>a. /\ Me(r) = a /\ turn \in [Agents -> TurnRecord] /\ TypeOK /\ TypeOK' /\ TurnIds
      /\ RTurn \in [Agents -> TurnRecord] /\ base[a].id \in Nat /\ round[a] \in Nat
      /\ closed[a] \in Nat /\ turn[a].id \in Nat
      /\ pend # None => pend.agent = a
      /\ closed \in [Agents -> Nat] /\ round \in [Agents -> Nat] /\ hook[r] \in HookRecord
      /\ base \in [Agents -> [id : 0 .. MaxTurns, snap : Snapshot]]
  BY LoneFacts
<1>b. ASSUME Unbased(RTurn'[a]), Awaited(a)' => Same(base'[a].snap, cur')
      PROVE  Sound(a)'
  BY <1>b DEF Sound, Unbased, Anchored
<1>1. CASE BeginStart(r)
  <2>1. turn[a].st = "none" /\ UNCHANGED <<turn, pend, cur, closed, base>> /\ round'[a] = round[a] + 1
    BY <1>a, <1>1 DEF BeginStart, Lone, manifest
  <2>2. RTurn' = RTurn
    BY <2>1 DEF RTurn, Reached, Applied
  <2>3. ~Awaited(a)'
    BY <1>a, <2>1 DEF Awaited, BaseIds
  <2> QED
    BY <1>a, <1>b, <2>1, <2>2, <2>3, RecoveredUnbased
<1>2. CASE SaveBaseline(r)
  <2>1. RTurn' = RTurn /\ UNCHANGED <<cur, closed, round>>
    BY <1>2 DEF SaveBaseline, RTurn, Reached
  <2>2. Unbased(RTurn[a])
    BY <1>a, <1>2 DEF SaveBaseline, At, Roles, Starts, Prompted
  <2>3. base' = base \/ base'[a].snap = cur
    BY <1>a, <1>2 DEF SaveBaseline
  <2> QED
    BY <1>b, <2>1, <2>2, <2>3 DEF Sound, Awaited, Same
<1>3. CASE Decide(r) /\ turn'[a].st = "none"
  <2>1. Current(r)
    BY <1>3 DEF Decide, At, Roles, Attached
  <2>2. turn'[a] = NoTurn /\ closed'[a] = turn[a].id /\ UNCHANGED <<pend, cur, base, round>>
    <3>1. [turn[a] EXCEPT !.blocks = @ + 1].st # "none"
      BY <1>a, <2>1 DEF Current, Mine, TurnRecord
    <3> QED
      BY <1>a, <1>3, <2>1, <3>1 DEF Decide, Mine, manifest
  <2>3. Unbased(NoTurn) /\ NoTurn \in TurnRecord
    BY NoTurnType DEF Unbased, NoTurn
  <2>4. Unbased(RTurn'[a])
    <3>1. CASE Reached' /\ pend'.agent = a
      <4>1. /\ pend'.id \in 0 .. MaxTurns /\ pend'.before \in Snapshot /\ pend'.after \in Snapshot
            /\ closed'[a] \in Nat
        BY <1>a, <2>2, <3>1 DEF Reached, TypeOK, Transition
      <4>2. RTurn'[a] = Evented(NoTurn, closed'[a], pend'.id, pend'.before, pend'.after)
        BY <1>a, <2>2, <3>1, RTurnNext
      <4> QED
        BY <2>3, <4>1, <4>2, EventedUnbased
    <3>2. CASE ~(Reached' /\ pend'.agent = a)
      BY <1>a, <2>2, <2>3, <3>2, RTurnNext
    <3> QED
      BY <3>1, <3>2
  <2>5. RTurn[a].id = turn[a].id /\ RTurn[a].st # "none" /\ closed[a] < turn[a].id
    BY <1>a, <2>1, RecoveredId DEF Current, Mine, TurnIds
  <2>6. Awaited(a)' => Awaited(a)
    <3>1. ASSUME Awaited(a)'
          PROVE  base[a].id = round[a] /\ turn[a].id < round[a]
      BY <2>2, <3>1 DEF Awaited
    <3>2. ASSUME base[a].id = round[a], turn[a].id < round[a]
          PROVE  Awaited(a)
      <4>1. closed[a] < round[a] /\ RTurn[a].id # round[a]
        BY <1>a, <2>5, <3>2
      <4> QED
        BY <3>2, <4>1 DEF Awaited
    <3> QED
      BY <3>1, <3>2
  <2> QED
    BY <1>b, <2>2, <2>4, <2>6 DEF Sound
<1> QED
  BY <1>1, <1>2, <1>3

\* No other step makes an open turn ready.
LEMMA ReadyWas ==
  ASSUME Lone, IInv, Ids, NEW r \in Slots, NEW a \in Agents, Step(r), ~BeginTool(r), ~Prompt(r),
         turn[a].st # "none", turn'[a].st = "ready"
  PROVE  turn[a].st = "ready"
<1>a. /\ Me(r) = a /\ turn \in [Agents -> TurnRecord] /\ TypeOK /\ Typed /\ TurnIds /\ HookIds
      /\ RTurn \in [Agents -> TurnRecord] /\ turn[a] \in TurnRecord
  BY LoneFacts
<1>b. RTurn[a].st = turn[a].st
  BY <1>a, RecoveredId
<1>1. CASE UNCHANGED turn \/ turn' = RTurn
  BY <1>1, <1>b
<1>2. CASE BeginStart(r) \/ Capture(r) \/ ToolEnds(r) \/ BeginStop(r) \/ View(r)
           \/ (\E p \in Paths : ScanPath(r, p)) \/ ScanFails(r) \/ CommitLost(r)
           \/ CommitCut(r) \/ SaveBaseline(r) \/ HookDies(r)
  <2>1. UNCHANGED turn \/ turn' = RTurn
    BY <1>2 DEF BeginStart, Capture, ToolEnds, BeginStop, View, ScanPath, ScanFails,
       CommitLost, CommitCut, SaveBaseline, HookDies
  <2> QED
    BY <1>1, <2>1
<1>3. CASE Invoke(r)
  BY <1>3, <1>a, <1>b DEF Invoke, TurnRecord
<1>4. CASE PreFails(r) \/ Resume(r)
  BY <1>4, <1>a DEF PreFails, Resume, Mine, TurnRecord
<1>5. CASE Status(r)
  <2> DEFINE t == IF Late(r) THEN Revise(Mine(r), hook[r].cur, hook[r].scan) ELSE Mine(r)
             u == [t EXCEPT !.inc = ~hook[r].ok \/ t.st = "degraded",
                            !.cap = @ \/ hook[r].op # "stop"]
  <2>1. UNCHANGED turn \/ turn' = [turn EXCEPT ![a] = u]
    BY <1>5, <1>a DEF Status
  <2>2. t \in TurnRecord /\ t.st = turn[a].st
    <3>1. CASE Late(r)
      <4>1. hook[r].cur \in Snapshot /\ hook[r].scan \in Snapshot
        <5>1. hook[r] \in HookRecord
          BY LoneFacts
        <5> QED
          BY <3>1, <5>1 DEF Late, HookRecord, Scanned, Snapshot
      <4>2. t = Revise(turn[a], hook[r].cur, hook[r].scan)
        BY <1>a, <3>1 DEF Mine
      <4>3. turn[a] \in TurnRecord
        BY <1>a
      <4>4. Revise(turn[a], hook[r].cur, hook[r].scan) \in TurnRecord
        BY <4>1, <4>3, ReviseType
      <4>5. Revise(turn[a], hook[r].cur, hook[r].scan).st = turn[a].st
        BY <4>1, <4>3, ReviseFields
      <4> QED
        BY <4>2, <4>4, <4>5
    <3>2. CASE ~Late(r)
      BY <1>a, <3>2 DEF Mine
    <3> QED
      BY <3>1, <3>2
  <2> HIDE DEF t
  <2>3. u.st = turn[a].st
    BY <2>2 DEF TurnRecord
  <2> HIDE DEF u
  <2> QED
    BY <1>a, <2>1, <2>3
<1>6. CASE Verify(r)
  <2>1. UNCHANGED turn \/ \E x : turn' = [turn EXCEPT ![Me(r)].results = x]
    BY <1>6, Zenon DEF Verify
  <2> QED
    BY <1>a, <2>1 DEF TurnRecord
<1>7. CASE Decide(r)
  <2>1. NoTurn.st = "none"
    BY DEF NoTurn
  <2> QED
    BY <1>7, <1>a, <2>1 DEF Decide, TurnRecord
<1>8. CASE Commit(r)
  <2>1. cur \in Snapshot /\ hook[r].scan \in Snapshot /\ hook[r].id \in 0 .. MaxTurns
        /\ closed[a] \in Nat /\ RTurn[a] \in TurnRecord
    BY <1>a, <1>8, LoneFacts DEF Commit, Typed, ScannedInv, TypeOK, HookRecord
  <2> DEFINE u == Evented(RTurn[a], closed[a], hook[r].id, cur, hook[r].scan)
  <2>2. turn'[a] = u
    BY <1>a, <1>8, AppliedAt DEF Commit
  <2>3. RTurn[a].st # "none" => u.st = RTurn[a].st
    BY <2>1, EventedFields
  <2> HIDE DEF u
  <2> QED
    BY <1>b, <2>2, <2>3
<1> QED
  BY <1>2, <1>3, <1>4, <1>5, <1>6, <1>7, <1>8 DEF Step

LEMMA BaseIdsKept ==
  ASSUME Lone, IInv, Ids, Roles, BaseIds, NEW r \in Slots, Step(r)
  PROVE  BaseIds'
<1> SUFFICES ASSUME NEW a \in Agents PROVE base'[a].id <= round'[a]
  BY DEF BaseIds
<1>a. /\ Me(r) = a /\ TypeOK /\ TurnIds /\ HookIds /\ base[a].id \in Nat /\ round[a] \in Nat
      /\ base \in [Agents -> [id : 0 .. MaxTurns, snap : Snapshot]] /\ base[a].id <= round[a]
      /\ round \in [Agents -> Nat] /\ RTurn[a].id \in Nat /\ turn[a].id \in Nat
  BY LoneFacts DEF BaseIds
<1>1. CASE BeginTool(r)
  <2>1. BoundId(a) <= round[a]
    BY <1>a, RecoveredId DEF BoundId, TurnIds
  <2>2. base'[a].id \in {base[a].id, BoundId(a)} /\ round' = round
    BY <1>a, <1>1 DEF BeginTool
  <2> QED
    BY <1>a, <2>1, <2>2
<1>2. CASE SaveBaseline(r)
  <2>1. hook[r].id = round[a]
    BY <1>a, <1>2 DEF SaveBaseline, At, Roles, HookIds
  <2>2. base'[a].id \in {base[a].id, hook[r].id} /\ round' = round
    BY <1>a, <1>2 DEF SaveBaseline
  <2> QED
    BY <1>a, <2>1, <2>2
<1>3. CASE BeginStart(r)
  BY <1>a, <1>3 DEF BeginStart
<1>4. CASE ~BeginTool(r) /\ ~SaveBaseline(r) /\ ~BeginStart(r)
  <2>1. UNCHANGED <<base, round>>
    BY <1>4 DEF Step, Capture, Invoke, PreFails, ToolEnds, BeginStop, Resume, View, ScanPath,
       ScanFails, Commit, CommitLost, CommitCut, Prompt, Status, Verify, Decide, HookDies
  <2> QED
    BY <1>a, <2>1
<1> QED
  BY <1>1, <1>2, <1>3, <1>4

LEMMA BasedKept ==
  ASSUME Lone, IInv, Ids, Roles, Alone, StartAlone, Attached, Based, NEW q \in Slots, Step(q)
  PROVE  Based'
<1> SUFFICES ASSUME NEW s \in Slots, NEW a \in Agents, a = Me(s),
                    hook'[s].op = "restart" \/ (hook'[s].op = "stop" /\ hook'[s].pc # "resume"),
                    turn'[a].st = "ready"
             PROVE  base'[a].id = hook'[s].id
  BY ProvenanceAssumption DEF Based, Me, Mine, At
<1>a. /\ Me(q) = a /\ TypeOK /\ Typed /\ TurnIds /\ HookIds /\ base[a].id \in Nat
      /\ base \in [Agents -> [id : 0 .. MaxTurns, snap : Snapshot]]
      /\ RTurn \in [Agents -> TurnRecord] /\ turn \in [Agents -> TurnRecord]
      /\ hook \in [Slots -> HookRecord] /\ hook[q] \in HookRecord
  BY LoneFacts
\* A Stop, or what it restarted, that was there before.
<1>1. ASSUME hook[s].op \in {"stop", "restart"}, hook'[s].id = hook[s].id,
             hook[s].op = "restart" \/ hook[s].pc # "resume"
      PROVE  base'[a].id = hook'[s].id
  <2>1. turn[a].st # "none" /\ turn[a].id = hook[s].id
    BY <1>1 DEF Attached, Current, Mine
  <2>2. hook[q].op # "start"
    BY <1>1 DEF StartAlone
  <2>3. CASE BeginTool(q)
    <3>1. BoundId(a) = hook[s].id
      BY <1>a, <2>1, RecoveredId DEF BoundId
    <3> DEFINE t == Bootstrapped(RTurn[a], BoundId(a), base[a].id = BoundId(a))
               u == [t EXCEPT !.inv[q] = None]
    <3>2. turn'[a] = u
      BY <1>a, <2>3 DEF BeginTool
    <3>3. t \in TurnRecord
      <4>1. BoundId(a) \in 0 .. MaxTurns
        BY <1>a, <3>1 DEF HookRecord
      <4> QED
        BY ZenonT(40), <1>a, <4>1, NoTurnType DEF Bootstrapped, TurnRecord
    <3>4. base'[a].id = IF t.st = "ready" /\ base[a].id # BoundId(a) THEN BoundId(a) ELSE base[a].id
      BY <1>a, <2>3 DEF BeginTool
    <3> HIDE DEF t
    <3>5. u.st = t.st
      BY <3>3 DEF TurnRecord
    <3> HIDE DEF u
    <3> QED
      BY <1>1, <3>1, <3>2, <3>4, <3>5
  <2>4. CASE ~BeginTool(q)
    <3>1. ~Prompt(q) /\ ~SaveBaseline(q)
      BY <2>2 DEF Prompt, SaveBaseline, At, Roles
    <3>2. base' = base
      BY <2>4, <3>1 DEF Step, BeginStart, Capture, Invoke, PreFails, ToolEnds, BeginStop, Resume, View,
         ScanPath, ScanFails, Commit, CommitLost, CommitCut, Status, Verify, Decide, HookDies
    <3>3. turn[a].st = "ready"
      BY <2>1, <2>4, <3>1, ReadyWas
    <3> QED
      BY <1>1, <3>2, <3>3 DEF Based, Mine, At
  <2> QED
    BY <2>3, <2>4
<1>2. CASE s = q /\ Resume(q)
  <2>1. Current(q)
    BY <1>2, <1>a DEF Resume, Attached, At, Roles, HookRecord
  <2>2. base' = base /\ hook'[q].id = hook[q].id
    BY <1>2, <1>a DEF Resume, HookRecord
  <2>3. CASE Mine(q).st = "ready" /\ base[a].id # hook[q].id
    <3>1. turn'[a].st = "degraded"
      BY <1>2, <1>a, <2>1, <2>3 DEF Resume, TurnRecord
    <3> QED
      BY <3>1
  <2>4. CASE Mine(q).st # "ready"
    <3>1. turn' = turn
      BY <1>2, <2>4 DEF Resume
    <3> QED
      BY <1>a, <2>4, <3>1 DEF Mine
  <2> QED
    BY <1>2, <2>2, <2>3, <2>4
<1>3. CASE s = q /\ Decide(q)
  <2>1. hook[q].op = "stop" /\ hook[q].pc = "decide" /\ Current(q)
    BY <1>3 DEF Decide, At, Roles, Attached
  <2>2. hook'[q].id = hook[q].id
    <3>1. hook'[q] = Idle \/ hook'[q].id = Mine(q).id
      <4>1. \/ hook' = [hook EXCEPT ![q] = Idle]
            \/ hook' = [hook EXCEPT ![q] = [Idle EXCEPT !.pc = "view",
                                            !.op = "restart", !.id = Mine(q).id]]
        BY <1>3 DEF Decide, End
      <4>2. [Idle EXCEPT !.pc = "view", !.op = "restart", !.id = Mine(q).id].id = Mine(q).id
        BY DEF Idle
      <4> QED
        BY <1>a, <4>1, <4>2
    <3>2. hook'[q] # Idle
      BY <1>3, IdleHook
    <3> QED
      BY <2>1, <3>1, <3>2 DEF Current
  <2> QED
    BY <1>1, <1>3, <2>1, <2>2
<1>4. CASE s = q /\ ~Resume(q) /\ ~Decide(q)
  <2>1. CASE BeginStop(q)
    <3>1. hook'[q].op = "stop" /\ hook'[q].pc = "resume"
      BY <1>a, <2>1, IdleType DEF BeginStop, HookRecord
    <3> QED
      BY <1>4, <3>1
  <2>2. CASE ~BeginStop(q)
    <3>1. hook'[q].op = hook[q].op /\ hook'[q].id = hook[q].id
      BY <1>4, <1>a, <2>2, IdStep
    <3>2. hook[q].pc = "resume" => hook'[q] = Idle
      BY <1>4, <1>a, <2>2 DEF Step, BeginStart, BeginTool, Capture, Invoke, PreFails, ToolEnds,
         View, ScanPath, ScanFails, Commit, CommitLost, CommitCut, SaveBaseline, Prompt, Status,
         Verify, HookDies, At
    <3> QED
      BY <1>1, <1>4, <3>1, <3>2, IdleHook
  <2> QED
    BY <2>1, <2>2
<1>5. CASE s # q
  BY <1>1, <1>5, <1>a, OneHook
<1> QED
  BY <1>2, <1>3, <1>4, <1>5

CalmInv == OwedInv /\ Calm

LEMMA CalmStutters ==
  ASSUME Calm, UNCHANGED <<cur, pend, turn, closed, base, round, hook>>
  PROVE  Calm'
<1>1. RTurn' = RTurn
  BY DEF RTurn, Reached, Applied
<1>2. Attached' /\ StartAlone' /\ Based' /\ BaseIds'
  BY DEF Calm, Attached, Current, Mine, Me, StartAlone, Based, BaseIds, At
<1>3. Starts'
  BY <1>1 DEF Calm, Starts, Prompted, Clear, At, Me
<1>4. ASSUME NEW a \in Agents PROVE Sound(a)'
  BY <1>1, QuietSound DEF Calm, Alike, SameDebt
<1> QED
  BY <1>2, <1>3, <1>4 DEF Calm

LEMMA CalmKept ==
  ASSUME Lone, CalmInv, Next
  PROVE  Calm'
<1> USE DEF CalmInv, OwedInv, StopInv, Calm
<1>1. ASSUME NEW p \in Paths, Write(p) PROVE Calm'
  BY <1>1, CalmStutters DEF Write, manifest
<1>2. ASSUME NEW r \in Slots, Step(r) PROVE Calm'
  <2>1. Typed
    BY DEF IInv
  <2>2. Attached' /\ StartAlone' /\ Starts' /\ Based' /\ BaseIds'
    BY <1>2, <2>1, AttachedKept, StartAloneKept, StartsKept, BasedKept, BaseIdsKept
  <2>3. ASSUME NEW a \in Agents PROVE Sound(a)'
    <3>1. CASE \/ BeginTool(r) \/ Commit(r) \/ CommitCut(r) \/ Prompt(r) \/ BeginStart(r)
               \/ SaveBaseline(r) \/ (Decide(r) /\ turn'[a].st = "none")
      BY <1>2, <3>1, ToolSound, CommitSound, PromptSound, EndSound
    <3>2. CASE ~(\/ BeginTool(r) \/ Commit(r) \/ CommitCut(r) \/ Prompt(r) \/ BeginStart(r)
                 \/ SaveBaseline(r) \/ (Decide(r) /\ turn'[a].st = "none"))
      <4>1. Alike(RTurn[a], RTurn'[a])
        BY <1>2, <2>1, <3>2, DebtStep
      <4>2. /\ UNCHANGED <<cur, base, round>> /\ pend' \in {pend, None}
            /\ Decide(r) \/ UNCHANGED closed
        BY <1>2, <3>2 DEF Step, Capture, Invoke, PreFails, ToolEnds, BeginStop, Resume, View,
           ScanPath, ScanFails, CommitLost, Status, Verify, Decide, HookDies, manifest
      <4>3. Decide(r) => closed'[a] = closed[a]
        <5>1. NoTurn.st = "none" /\ Me(r) = a /\ turn \in [Agents -> TurnRecord]
          BY <1>2, LoneFacts DEF NoTurn
        <5> QED
          BY <3>2, <5>1 DEF Decide
      <4> QED
        BY <4>1, <4>2, <4>3, QuietSound
    <3> QED
      BY <3>1, <3>2
  <2> QED
    BY <2>2, <2>3
<1> QED
  BY <1>1, <1>2 DEF Next

LEMMA CalmInvSteps ==
  ASSUME Lone
  PROVE  /\ Init => CalmInv
         /\ CalmInv /\ [Next]_vars => CalmInv'
<1>1. Init => Calm
  <2> SUFFICES ASSUME Init PROVE Calm
    OBVIOUS
  <2>1. RTurn = turn /\ \A a \in Agents : turn[a].st = "none" /\ round[a] = 0 /\ closed[a] = 0
    BY DEF Init, RTurn, Reached, NoTurn
  <2>2. \A s \in Slots : hook[s].op = "none"
    BY IdleHook DEF Init
  <2> QED
    BY <2>1, <2>2
    DEF Init, Calm, Attached, StartAlone, Starts, Based, BaseIds, Sound, Awaited, Anchored
<1>2. ASSUME CalmInv, UNCHANGED vars PROVE Calm'
  BY <1>2, CalmStutters DEF vars, CalmInv
<1>3. StoreFails = FALSE
  BY DEF Lone
<1> QED
  BY <1>1, <1>2, <1>3, OwedInvSteps, CalmKept DEF CalmInv

\* What a turn with a baseline owes is exactly what differs from it, however
\* its calls, cut commits and dead hooks interleave, with one agent whose host
\* sends its prompts between the turns and hooks that end when a save fails.
THEOREM NetDelta ==
  ASSUME Lone
  PROVE  Spec => []PendingIsNetDelta
<1>1. Init => CalmInv
  BY CalmInvSteps
<1>2. CalmInv /\ [Next]_vars => CalmInv'
  BY CalmInvSteps
<1>3. CalmInv => PendingIsNetDelta
  BY DEF CalmInv, Calm, Sound, PendingIsNetDelta, NetOf, Differs
<1> QED
  BY <1>1, <1>2, <1>3, PTL DEF Spec

\* With one agent no Stop passes over a difference to its turn's baseline: it
\* takes a second agent to hide one.
THEOREM NothingIsHidden ==
  ASSUME Lone
  PROVE  Spec => NoPassOverHidden
<1> DEFINE Judged == \A s \in Slots : Released(s) /\ Anchored(Me(s)) =>
                       \A p \in Paths : Differs(Me(s), p) => Mine(s).rev[p] # 0
<1>1. Init => CalmInv
  BY CalmInvSteps
<1>2. CalmInv /\ [Next]_vars => CalmInv'
  BY CalmInvSteps
<1>3. CalmInv => Judged
  <2> SUFFICES ASSUME CalmInv, NEW s \in Slots, Released(s), Anchored(Me(s)), NEW p \in Paths,
                      Differs(Me(s), p)
               PROVE  Mine(s).rev[p] # 0
    OBVIOUS
  <2>1. At(s, "decide") /\ Mine(s).cap /\ ~Mine(s).inc
    BY DEF Released, Passes, At
  <2>2. Clear(s) /\ Current(s)
    BY <2>1 DEF CalmInv, OwedInv, StopInv, Roles, Sight, Watches, At
  <2>3. Me(s) \in Agents /\ TypeOK
    BY ProvenanceAssumption DEF CalmInv, OwedInv, IInv, Typed, Me
  <2>4. RTurn[Me(s)] = Mine(s)
    BY <2>2, <2>3, RTurnAt DEF Clear, Current, Mine, Reached, Evented
  <2> QED
    BY <2>3, <2>4 DEF CalmInv, Calm, Sound, NetOf, Differs
<1>4. CalmInv => [Judged]_vars
  BY <1>3
<1> QED
  BY <1>1, <1>2, <1>4, PTL DEF Spec, NoPassOverHidden
===============================================================================
