--------------------------- MODULE ProvenanceGate ---------------------------
(***************************************************************************)
(* Who changed what, and was it checked?  The observation of the workspace *)
(* by hook processes and the evidence the Stop gate decides on:            *)
(* core/provenance_lifecycle.py, core/provenance_manifest.py,              *)
(* core/adapter_observation.py, core/verification_covers.py and the change *)
(* events of core/ledger_v2.py.                                            *)
(*                                                                         *)
(* A hook loads the manifest (workspace-current) under the ledger lock,    *)
(* scans the files without it, and commits under it again if the manifest  *)
(* generation has not moved; if it has, it scans once more.  The commit is *)
(* a write-ahead log: ledger with manifest_pending, workspace-current,     *)
(* ledger without it.  A check (a verification command) satisfies the      *)
(* revisions its PreTool hook captured.  Files change at any time.         *)
(*                                                                         *)
(* The contents of a file are numbered as they are written; Text tells     *)
(* which of them are the same bytes.                                       *)
(***************************************************************************)
EXTENDS Naturals, FiniteSetsExt

CONSTANTS
  Agents,     \* agent keys (host:session:agent)
  Slots,      \* tool calls an agent may have in flight; each runs its hooks
  AgentOf,    \* the agent of a slot
  Paths,
  Texts,      \* number of different contents: content n has text n % Texts
  None,
  Quiet,      \* may a write keep size and mtime?
  Interrupts, \* may a prompt come while the agent's turn is open?
  PreMayFail, \* may a PreTool hook fail before it recorded the invocation?
  MaxBlocks,  \* MAX_STOP_BLOCKS
  StoreFails, \* may a save fail in a commit and the hook go on?
  MaxStamp,   \* bound: writes per file
  MaxWrites,  \* bound: writes
  MaxTurns,   \* bound: prompts per agent
  MaxCalls,   \* bound: tool calls per slot
  MaxFaults   \* bound: dead hooks, failed commits and failed scans

ASSUME ProvenanceAssumption ==
  /\ AgentOf \in [Slots -> Agents]
  /\ Texts \in Nat \ {0}
  /\ Quiet \in BOOLEAN /\ Interrupts \in BOOLEAN
  /\ PreMayFail \in BOOLEAN /\ StoreFails \in BOOLEAN
  /\ MaxStamp \in Nat /\ MaxWrites \in Nat /\ MaxTurns \in Nat /\ MaxCalls \in Nat
  /\ MaxBlocks \in Nat /\ MaxFaults \in Nat

VARIABLES
  disk,     \* the content of each file
  loud,     \* the last content whose size or mtime tells it from earlier ones
  gen,      \* manifest_generation
  cur,      \* workspace-current
  pend,     \* manifest_pending
  turn,     \* active_turns: what the gate knows of each agent's turn
  closed,   \* the newest turn of each agent that is terminal
  base,     \* the turn baseline file of each agent: its turn and snapshot
  round,    \* the host's turn id of each agent
  hook,     \* the hook each slot runs, with its locals
  calls, faults,
  author    \* history: the turn that recorded the manifest's content

vars == <<disk, loud, gen, cur, pend, turn, closed, base, round, hook, calls,
          faults, author>>
files == <<disk, loud>>
manifest == <<gen, cur, pend>>
bounds == <<calls, faults>>

Stamp == 0 .. MaxStamp
Snapshot == [Paths -> Stamp]
Text(n) == n % Texts
Same(s, t) == \A p \in Paths : Text(s[p]) = Text(t[p])
Delta(s, t) == {p \in Paths : Text(s[p]) # Text(t[p])}

Zero == [p \in Paths |-> 0]
NoTurn ==
  [id |-> 0, st |-> "none", bl |-> FALSE, inc |-> FALSE, cap |-> FALSE,
   blocks |-> 0, rev |-> Zero, first |-> [p \in Paths |-> None],
   inv |-> [s \in Slots |-> None], results |-> {}]
Idle ==
  [pc |-> "free", op |-> "none", id |-> 0, gen |-> 0, cur |-> Zero,
   scan |-> [p \in Paths |-> None], tries |-> 0, ok |-> TRUE,
   cov |-> None, from |-> Zero]

Label == {"free", "capture", "invoke", "tool", "resume", "view", "scan",
          "commit", "baseline", "prompt", "status", "verify", "decide"}
Op == {"none", "start", "work", "check", "stop", "restart"}

Transition == [before : Snapshot, after : Snapshot, gen : Nat,
               agent : Agents, id : 0 .. MaxTurns]
\* None is no transition, author, content or snapshot.
ASSUME NoneAssumption ==
  /\ None \notin Transition /\ None \notin Agents \X (0 .. MaxTurns)
  /\ None \notin Nat /\ None \notin Snapshot

TurnRecord ==
  [id : 0 .. MaxTurns, st : {"none", "missing", "ready", "degraded"},
   bl : BOOLEAN, inc : BOOLEAN, cap : BOOLEAN, blocks : 0 .. MaxBlocks,
   rev : Snapshot, first : [Paths -> Nat \cup {None}],
   inv : [Slots -> Snapshot \cup {None}],
   results : SUBSET [cov : Snapshot, from : Snapshot]]
Scanned == [Paths -> Stamp \cup {None}]
HookRecord ==
  [pc : Label, op : Op, id : 0 .. MaxTurns, gen : Nat, cur : Snapshot,
   scan : Scanned, tries : 0 .. 2, ok : BOOLEAN,
   cov : Snapshot \cup {None}, from : Snapshot]

TypeOK ==
  /\ disk \in Snapshot /\ loud \in Snapshot
  /\ gen \in Nat /\ cur \in Snapshot
  /\ pend \in Transition \cup {None}
  /\ turn \in [Agents -> TurnRecord]
  /\ closed \in [Agents -> 0 .. MaxTurns]
  /\ base \in [Agents -> [id : 0 .. MaxTurns, snap : Snapshot]]
  /\ round \in [Agents -> 0 .. MaxTurns]
  /\ hook \in [Slots -> HookRecord]
  /\ calls \in [Slots -> 0 .. MaxCalls] /\ faults \in 0 .. MaxFaults
  /\ author \in [Paths -> {None} \cup (Agents \X (0 .. MaxTurns))]

Init ==
  /\ disk = Zero /\ loud = Zero
  /\ gen = 0 /\ cur = Zero /\ pend = None
  /\ turn = [a \in Agents |-> NoTurn]
  /\ closed = [a \in Agents |-> 0]
  /\ base = [a \in Agents |-> [id |-> 0, snap |-> Zero]]
  /\ round = [a \in Agents |-> 0]
  /\ hook = [s \in Slots |-> Idle]
  /\ calls = [s \in Slots |-> 0] /\ faults = 0
  /\ author = [p \in Paths |-> None]

Me(s) == AgentOf[s]
Mine(s) == turn[Me(s)]
At(s, l) == hook[s].pc = l
Goto(s, l) == hook' = [hook EXCEPT ![s].pc = l]
End(s) == hook' = [hook EXCEPT ![s] = Idle]

\* active_turn for the hook's own turn id.
Current(s) == Mine(s).st # "none" /\ Mine(s).id = hook[s].id

-----------------------------------------------------------------------------
(* The ledger's side of a change event.                                    *)

\* Variant of Revise: a revision is never taken back.
ReviseKeeps(t, before, after) ==
  [t EXCEPT
    !.first = [p \in Paths |->
                 IF @[p] = None /\ p \in Delta(before, after)
                 THEN Text(before[p]) ELSE @[p]],
    !.rev = [p \in Paths |-> IF p \in Delta(before, after)
                             THEN after[p] ELSE @[p]]]

\* record_path_revisions: back at the first content seen is not pending.
Revise(t, before, after) ==
  LET first == [p \in Paths |->
                  IF t.first[p] = None /\ p \in Delta(before, after)
                  THEN Text(before[p]) ELSE t.first[p]]
  IN  [t EXCEPT
        !.first = first,
        !.rev = [p \in Paths |->
                   IF p \notin Delta(before, after) THEN t.rev[p]
                   ELSE IF Text(after[p]) = first[p] THEN 0 ELSE after[p]]]

\* apply_v2_event: a change of a terminal or replaced turn is ignored; one
\* of a turn not yet known makes a turn with no baseline of its own.
Applied(turns, a, id, before, after) ==
  IF Delta(before, after) = {} THEN turns
  ELSE IF turns[a].st = "none" /\ id > closed[a]
       THEN [turns EXCEPT ![a] =
               Revise([NoTurn EXCEPT !.id = id, !.st = "ready"], before, after)]
  ELSE IF turns[a].st # "none" /\ turns[a].id = id
       THEN [turns EXCEPT ![a] = Revise(@, before, after)]
  ELSE turns

\* A variant of Reached: every pending transition is dropped.
ReachedNever == FALSE

\* _recover_locked, first in every manifest transaction: a transition whose
\* workspace-current was written is finished, any other one is dropped.
Reached == pend # None /\ Same(cur, pend.after)
RTurn == IF Reached
         THEN Applied(turn, pend.agent, pend.id, pend.before, pend.after)
         ELSE turn
RGen == IF Reached THEN pend.gen ELSE gen
Recover == gen' = RGen /\ turn' = RTurn /\ pend' = None

-----------------------------------------------------------------------------
(* Files.                                                                  *)

Write(p) ==
  /\ disk[p] < MaxStamp /\ MapThenSumSet(LAMBDA q : disk[q], Paths) < MaxWrites
  /\ disk' = [disk EXCEPT ![p] = @ + 1]
  /\ \/ loud' = [loud EXCEPT ![p] = disk[p] + 1]
     \/ Quiet /\ UNCHANGED loud
  /\ UNCHANGED <<manifest, turn, closed, base, round, hook, bounds, author>>

-----------------------------------------------------------------------------
(* UserPromptSubmit, and the first half of PreToolUse.                     *)

BeginStart(s) ==
  LET a == Me(s)
  IN  /\ At(s, "free") /\ round[a] < MaxTurns
      /\ \A t \in Slots : AgentOf[t] = a => hook[t].op # "start"
      /\ Interrupts \/ turn[a].st = "none"
      /\ Interrupts \/ \A t \in Slots : AgentOf[t] = a => At(t, "free")
      /\ round' = [round EXCEPT ![a] = @ + 1]
      /\ hook' = [hook EXCEPT ![s] =
                    [Idle EXCEPT !.pc = "view", !.op = "start",
                                 !.id = round[a] + 1]]
      /\ UNCHANGED <<files, manifest, turn, closed, base, bounds, author>>

\* _active_invocation: an open turn binds the hook, else the host's id does.
BoundId(a) == IF RTurn[a].st # "none" THEN RTurn[a].id ELSE round[a]

\* The turn after ensure_turn_bootstrap: a baseline file that agrees with the
\* ledger, the one start_turn left behind, or the manifest as it stands now.
Bootstrapped(t, id, mine) ==
  CASE t.st = "none" -> [NoTurn EXCEPT !.id = id, !.st = "ready", !.bl = TRUE]
    [] t.st = "missing" -> [t EXCEPT !.st = "ready", !.bl = TRUE, !.inc = FALSE]
    [] t.st = "ready" /\ t.bl /\ mine -> t
    [] OTHER -> [t EXCEPT !.st = "degraded", !.inc = TRUE, !.cap = TRUE]

\* begin_invocation up to the covers.  A terminal id is an identity conflict
\* and the hook does nothing, so those calls are not modelled.
BeginTool(s) ==
  LET a == Me(s)
      id == BoundId(a)
      t == Bootstrapped(RTurn[a], id, base[a].id = id)
  IN  /\ At(s, "free") /\ calls[s] < MaxCalls
      /\ id > closed[a]
      /\ \A r \in Slots : AgentOf[r] = a => hook[r].op \notin {"start", "stop"}
      /\ gen' = RGen /\ pend' = None
      /\ turn' = [RTurn EXCEPT ![a] = [t EXCEPT !.inv[s] = None]]
      /\ base' = IF t.st = "ready" /\ base[a].id # id
                 THEN [base EXCEPT ![a] = [id |-> id, snap |-> cur]] ELSE base
      /\ calls' = [calls EXCEPT ![s] = @ + 1]
      /\ \E op \in {"work", "check"} :
           hook' = [hook EXCEPT ![s] =
                      [Idle EXCEPT !.op = op, !.id = id, !.from = disk,
                         !.pc = IF t.st = "degraded" THEN "tool"
                                ELSE IF op = "check" THEN "capture"
                                ELSE "invoke"]]
      /\ UNCHANGED <<files, cur, closed, round, faults, author>>

\* capture_verification_covers: the pending revisions, as they are now.
Capture(s) ==
  /\ At(s, "capture")
  /\ hook' = [hook EXCEPT ![s].pc = "invoke",
                ![s].cov = IF Current(s) THEN Mine(s).rev ELSE None]
  /\ UNCHANGED <<files, manifest, turn, closed, base, round, bounds, author>>

\* record_turn_event_if_ready: the covers are stored with the invocation.
\* Then the tool starts, on the files as they are ("from").
Invoke(s) ==
  LET a == Me(s)
      t == RTurn[a]
  IN  /\ At(s, "invoke")
      /\ gen' = RGen /\ pend' = None
      /\ turn' = IF t.st = "ready" /\ t.id = hook[s].id
                 THEN [RTurn EXCEPT ![a].inv[s] = hook[s].cov, ![a].cap = TRUE]
                 ELSE RTurn
      /\ hook' = [hook EXCEPT ![s].pc = "tool", ![s].cov = None,
                              ![s].from = disk]
      /\ UNCHANGED <<files, cur, closed, base, round, bounds, author>>

\* A lock timeout or an unreadable store before that: _record_status says
\* incomplete, and the tool runs without a stored invocation.
PreFails(s) ==
  /\ PreMayFail /\ faults < MaxFaults
  /\ At(s, "capture") \/ At(s, "invoke")
  /\ faults' = faults + 1
  /\ turn' = IF Current(s)
             THEN [turn EXCEPT ![Me(s)].inc = TRUE, ![Me(s)].cap = TRUE]
             ELSE turn
  /\ hook' = [hook EXCEPT ![s].pc = "tool", ![s].cov = None, ![s].from = disk]
  /\ UNCHANGED <<files, manifest, closed, base, round, calls, author>>

-----------------------------------------------------------------------------
(* PostToolUse and Stop up to the observation.                             *)

ToolEnds(s) ==
  /\ At(s, "tool")
  /\ Goto(s, "resume")
  /\ UNCHANGED <<files, manifest, turn, closed, base, round, bounds, author>>

\* Stop, when the agent has no call in flight.  "from" is what was on disk.
BeginStop(s) ==
  /\ Mine(s).st # "none"
  /\ \A t \in Slots : AgentOf[t] = Me(s) => At(t, "free")
  /\ hook' = [hook EXCEPT ![s] = [Idle EXCEPT !.pc = "resume", !.op = "stop",
                                              !.id = Mine(s).id, !.from = disk]]
  /\ UNCHANGED <<files, manifest, turn, closed, base, round, bounds, author>>

\* resume_turn: only a turn whose baseline is there is observed.
Resume(s) ==
  LET there == Current(s) /\ Mine(s).st = "ready" /\ base[Me(s)].id = hook[s].id
  IN  /\ At(s, "resume")
      /\ hook' = [hook EXCEPT ![s].pc = IF there THEN "view" ELSE "status",
                              ![s].ok = there]
      /\ turn' = IF Current(s) /\ Mine(s).st = "ready" /\ ~there
                 THEN [turn EXCEPT ![Me(s)].st = "degraded"] ELSE turn
      /\ UNCHANGED <<files, manifest, closed, base, round, bounds, author>>

-----------------------------------------------------------------------------
(* _observe: view, scan, commit; once more if the manifest moved.          *)

\* What follows an observation.
After(op, ok) ==
  CASE op = "start" -> IF ok THEN "baseline" ELSE "prompt"
    [] op = "restart" -> "free"
    [] OTHER -> "status"

Observed(s, ok) ==
  IF hook[s].op = "restart" THEN Idle
  ELSE [hook[s] EXCEPT !.pc = After(hook[s].op, ok), !.ok = ok,
                       !.scan = Idle.scan, !.tries = 0]

\* _generation_current.
View(s) ==
  /\ At(s, "view")
  /\ gen' = RGen /\ turn' = RTurn /\ pend' = None
  /\ hook' = [hook EXCEPT ![s] =
                [hook[s] EXCEPT !.pc = "scan", !.gen = RGen, !.cur = cur,
                                !.scan = Idle.scan,
                                !.tries = hook[s].tries + 1]]
  /\ UNCHANGED <<files, cur, closed, base, round, bounds, author>>

\* A variant of ScanPath: Stop takes the manifest's word too.
ScanPathTrusts(s, p) ==
  LET known == loud[p] <= hook[s].cur[p]
  IN  /\ At(s, "scan") /\ hook[s].scan[p] = None
      /\ \E seen \in {disk[p]} \cup (IF known THEN {hook[s].cur[p]} ELSE {}) :
           hook' = [hook EXCEPT ![s] =
             [@ EXCEPT !.scan[p] = seen,
                       !.pc = IF \A q \in Paths \ {p} : hook[s].scan[q] # None
                              THEN "commit" ELSE "scan"]]
      /\ UNCHANGED <<files, manifest, turn, closed, base, round, bounds, author>>

\* scan_snapshot reads the files one after the other.  Stop hashes every
\* file; other hooks may take the manifest's word for a file whose size and
\* mtime are those the manifest has.
ScanPath(s, p) ==
  LET known == loud[p] <= hook[s].cur[p] /\ hook[s].op # "stop"
  IN  /\ At(s, "scan") /\ hook[s].scan[p] = None
      /\ \E seen \in {disk[p]} \cup (IF known THEN {hook[s].cur[p]} ELSE {}) :
           hook' = [hook EXCEPT ![s] =
             [@ EXCEPT !.scan[p] = seen,
                       !.pc = IF \A q \in Paths \ {p} : hook[s].scan[q] # None
                              THEN "commit" ELSE "scan"]]
      /\ UNCHANGED <<files, manifest, turn, closed, base, round, bounds, author>>

\* A file is unreadable or changes under the scanner's hands.
ScanFails(s) ==
  /\ At(s, "scan") /\ faults < MaxFaults
  /\ faults' = faults + 1
  /\ hook' = [hook EXCEPT ![s] = Observed(s, FALSE)]
  /\ UNCHANGED <<files, manifest, turn, closed, base, round, calls, author>>

\* A variant of Unmoved: the generation is not compared again.
UnmovedUnchecked(s) == TRUE

\* The compare of _commit_locked: generation and snapshot id.
Unmoved(s) == RGen = hook[s].gen /\ Same(cur, hook[s].cur)

\* _turn_binding_is_ready for PostTool and Stop, _event_turn_is_current for
\* an event of a turn the ledger knows.
Allowed(s) ==
  LET t == RTurn[Me(s)]
      known == t.st # "none" /\ t.id = hook[s].id
      there == base[Me(s)].id = hook[s].id
  IN  /\ hook[s].op \in {"work", "check", "stop"}
           => known /\ t.st = "ready" /\ t.bl /\ there
      /\ known /\ Delta(cur, hook[s].scan) # {}
           => t.st = "ready" /\ (t.bl => there)

\* A Stop's full reconcile is a new manifest even if no file changed.
Advances(s) == hook[s].op = "stop" \/ Delta(cur, hook[s].scan) # {}

Authors(s, after) ==
  [p \in Paths |->
     IF p \notin Delta(cur, after) THEN author[p]
     ELSE IF hook[s].op = "start" THEN None ELSE <<Me(s), hook[s].id>>]

\* Variants of Commit: an earlier pending transition stays; the ledger is
\* left for the next recovery to finish; what a Stop finds is no event.
CommitUnrecovered(s) ==
  /\ At(s, "commit") /\ Unmoved(s) /\ Allowed(s)
  /\ UNCHANGED pend
  /\ cur' = IF Advances(s) THEN hook[s].scan ELSE cur
  /\ gen' = IF Advances(s) THEN RGen + 1 ELSE RGen
  /\ turn' = Applied(RTurn, Me(s), hook[s].id, cur, hook[s].scan)
  /\ author' = Authors(s, hook[s].scan)
  /\ hook' = [hook EXCEPT ![s] =
       IF hook[s].op = "restart" THEN Idle
       ELSE [Observed(s, TRUE) EXCEPT !.gen = gen', !.cur = cur']]
  /\ UNCHANGED <<files, closed, base, round, bounds>>

CommitUnfinished(s) ==
  /\ At(s, "commit") /\ Unmoved(s) /\ Allowed(s)
  /\ pend' = IF Advances(s)
             THEN [before |-> cur, after |-> hook[s].scan, gen |-> RGen + 1,
                   agent |-> Me(s), id |-> hook[s].id]
             ELSE None
  /\ cur' = IF Advances(s) THEN hook[s].scan ELSE cur
  /\ gen' = RGen /\ turn' = RTurn
  /\ author' = Authors(s, hook[s].scan)
  /\ hook' = [hook EXCEPT ![s] =
       IF hook[s].op = "restart" THEN Idle
       ELSE [Observed(s, TRUE) EXCEPT !.gen = RGen + 1, !.cur = cur']]
  /\ UNCHANGED <<files, closed, base, round, bounds>>

Commit(s) ==
  /\ At(s, "commit") /\ Unmoved(s) /\ Allowed(s)
  /\ pend' = None
  /\ cur' = IF Advances(s) THEN hook[s].scan ELSE cur
  /\ gen' = IF Advances(s) THEN RGen + 1 ELSE RGen
  /\ turn' = Applied(RTurn, Me(s), hook[s].id, cur, hook[s].scan)
  /\ author' = Authors(s, hook[s].scan)
  /\ hook' = [hook EXCEPT ![s] =
       IF hook[s].op = "restart" THEN Idle
       ELSE [Observed(s, TRUE) EXCEPT !.gen = gen', !.cur = cur']]
  /\ UNCHANGED <<files, closed, base, round, bounds>>

\* commit_manifest returns None: rebase once, then incomplete.
CommitLost(s) ==
  /\ At(s, "commit") /\ ~(Unmoved(s) /\ Allowed(s))
  /\ gen' = RGen /\ turn' = RTurn /\ pend' = None
  /\ hook' = [hook EXCEPT ![s] = IF hook[s].tries < 2
                                 THEN [@ EXCEPT !.pc = "view"]
                                 ELSE Observed(s, FALSE)]
  /\ UNCHANGED <<files, cur, closed, base, round, bounds, author>>

\* A hook whose commit failed has the changes it could not commit: it keeps
\* its scan for them.
Unstored(s) ==
  [Observed(s, FALSE) EXCEPT
     !.scan = IF hook[s].op \in {"work", "check", "stop"} THEN hook[s].scan
              ELSE @]

\* The commit stops after its first save or after workspace-current: the
\* process dies, or its store fails and the hook reports incomplete.
CommitCut(s) ==
  /\ At(s, "commit") /\ Unmoved(s) /\ Allowed(s) /\ Advances(s)
  /\ faults < MaxFaults /\ faults' = faults + 1
  /\ gen' = RGen /\ turn' = RTurn
  /\ pend' = [before |-> cur, after |-> hook[s].scan, gen |-> RGen + 1,
              agent |-> Me(s), id |-> hook[s].id]
  /\ \/ UNCHANGED <<cur, author>>
     \/ cur' = hook[s].scan /\ author' = Authors(s, hook[s].scan)
  /\ \/ End(s)
     \/ StoreFails /\ hook' = [hook EXCEPT ![s] = Unstored(s)]
  /\ UNCHANGED <<files, closed, base, round, calls>>

-----------------------------------------------------------------------------
(* After the observation.                                                  *)

\* save_manifest_baseline: an existing file wins, else the manifest must
\* still be the one observed.
SaveBaseline(s) ==
  LET a == Me(s)
      mine == base[a].id = hook[s].id
      fits == RGen = hook[s].gen /\ Same(cur, hook[s].cur)
  IN  /\ At(s, "baseline")
      /\ gen' = RGen /\ turn' = RTurn /\ pend' = None
      /\ base' = IF ~mine /\ fits
                 THEN [base EXCEPT ![a] = [id |-> hook[s].id, snap |-> cur]]
                 ELSE base
      /\ hook' = [hook EXCEPT ![s].pc = "prompt", ![s].ok = mine \/ fits]
      /\ UNCHANGED <<files, cur, closed, round, bounds, author>>

\* The prompt event replaces whatever turn the agent had.
Prompt(s) ==
  LET a == Me(s)
  IN  /\ At(s, "prompt")
      /\ turn' = [turn EXCEPT ![a] =
           [NoTurn EXCEPT !.id = hook[s].id, !.bl = hook[s].ok,
                          !.st = IF hook[s].ok THEN "ready" ELSE "missing",
                          !.inc = ~hook[s].ok]]
      /\ closed' = [closed EXCEPT ![a] =
           IF turn[a].st # "none" /\ turn[a].id # hook[s].id
           THEN turn[a].id ELSE @]
      /\ End(s)
      /\ UNCHANGED <<files, manifest, base, round, bounds, author>>

\* record_observed_changes: changes that were not committed are recorded as
\* an event of generation 1, which a manifest past that makes void.
Late(s) == /\ \A p \in Paths : hook[s].scan[p] # None
           /\ gen <= 1 /\ Current(s)
           /\ Delta(hook[s].cur, hook[s].scan) # {}

\* _record_status.
Status(s) ==
  LET t == IF Late(s) THEN Revise(Mine(s), hook[s].cur, hook[s].scan)
           ELSE Mine(s)
  IN  /\ At(s, "status")
      /\ turn' = IF ~Current(s) THEN turn
                 ELSE [turn EXCEPT ![Me(s)] =
                   [t EXCEPT !.inc = ~hook[s].ok \/ t.st = "degraded",
                             !.cap = @ \/ hook[s].op # "stop"]]
      /\ gen' = IF Late(s) THEN 1 ELSE gen
      /\ hook' = [hook EXCEPT ![s] =
           IF hook[s].op = "stop"
           THEN [@ EXCEPT !.pc = "decide", !.scan = Idle.scan]
           ELSE IF hook[s].op = "check"
           THEN [@ EXCEPT !.pc = "verify", !.scan = Idle.scan]
           ELSE Idle]
      /\ UNCHANGED <<files, cur, pend, closed, base, round, bounds, author>>

\* A variant of Verify: the covers are those of the moment after the check.
VerifyLate(s) ==
  /\ At(s, "verify")
  /\ \/ /\ Current(s)
        /\ turn' = [turn EXCEPT ![Me(s)].results =
                      @ \cup {[cov |-> Mine(s).rev, from |-> hook[s].from]}]
     \/ UNCHANGED turn
  /\ End(s)
  /\ UNCHANGED <<files, manifest, closed, base, round, bounds, author>>

\* verification_covers: the covers PreTool stored, else the pending
\* revisions as they are now.  A check that failed leaves no evidence.
Verify(s) ==
  LET stored == Mine(s).inv[s]
      covers == IF stored # None THEN stored ELSE Mine(s).rev
  IN  /\ At(s, "verify")
      /\ \/ /\ Current(s)
            /\ turn' = [turn EXCEPT ![Me(s)].results =
                          @ \cup {[cov |-> covers, from |-> hook[s].from]}]
         \/ UNCHANGED turn
      /\ End(s)
      /\ UNCHANGED <<files, manifest, closed, base, round, bounds, author>>

Pending(t) == {p \in Paths : t.rev[p] # 0}

\* covers_verified.
Verified(t) ==
  \/ Pending(t) = {}
  \/ \E r \in t.results : \A p \in Pending(t) : r.cov[p] = t.rev[p]

\* evaluate_without_io.
Passes(t) ==
  \/ t.st = "missing" /\ ~t.cap
  \/ ~(t.inc /\ t.cap) /\ Verified(t)

\* A variant of Decide: no cap on the blocks.
DecideUncapped(s) ==
  LET a == Me(s)
      t == Mine(s)
  IN  /\ At(s, "decide")
      /\ \/ ~Current(s) /\ End(s) /\ UNCHANGED <<turn, closed>>
         \/ /\ Current(s)
            /\ Passes(t)
            /\ turn' = [turn EXCEPT ![a] = NoTurn]
            /\ closed' = [closed EXCEPT ![a] = t.id]
            /\ End(s)
         \/ /\ Current(s)
            /\ ~Passes(t)
            /\ turn' = [turn EXCEPT ![a].blocks = @ + 1]
            /\ hook' = [hook EXCEPT ![s] = [Idle EXCEPT !.pc = "view",
                                            !.op = "restart", !.id = t.id]]
            /\ UNCHANGED closed
      /\ UNCHANGED <<files, manifest, base, round, bounds, author>>

\* evaluate_stop: allow and close the turn, block it (the adapter observes
\* again), or give up after MaxBlocks.  A turn that is no longer there has
\* nothing to be judged.
Decide(s) ==
  LET a == Me(s)
      t == Mine(s)
  IN  /\ At(s, "decide")
      /\ \/ ~Current(s) /\ End(s) /\ UNCHANGED <<turn, closed>>
         \/ /\ Current(s)
            /\ Passes(t) \/ t.blocks = MaxBlocks
            /\ turn' = [turn EXCEPT ![a] = NoTurn]
            /\ closed' = [closed EXCEPT ![a] = t.id]
            /\ End(s)
         \/ /\ Current(s)
            /\ ~Passes(t) /\ t.blocks < MaxBlocks
            /\ turn' = [turn EXCEPT ![a].blocks = @ + 1]
            /\ hook' = [hook EXCEPT ![s] = [Idle EXCEPT !.pc = "view",
                                            !.op = "restart", !.id = t.id]]
            /\ UNCHANGED closed
      /\ UNCHANGED <<files, manifest, base, round, bounds, author>>

\* A hook process is killed: the tool runs, or the call is over.
HookDies(s) ==
  /\ faults < MaxFaults
  /\ \/ At(s, "capture") \/ At(s, "invoke") => PreMayFail
  /\ ~At(s, "free") /\ ~At(s, "tool")
  /\ faults' = faults + 1
  /\ hook' = [hook EXCEPT ![s] =
       IF @.pc \in {"capture", "invoke"}
       THEN [@ EXCEPT !.pc = "tool", !.cov = None, !.from = disk] ELSE Idle]
  /\ UNCHANGED <<files, manifest, turn, closed, base, round, calls, author>>

-----------------------------------------------------------------------------
Step(s) ==
  \/ BeginStart(s) \/ BeginTool(s) \/ Capture(s) \/ Invoke(s) \/ PreFails(s)
  \/ ToolEnds(s) \/ BeginStop(s) \/ Resume(s) \/ View(s)
  \/ (\E p \in Paths : ScanPath(s, p)) \/ ScanFails(s)
  \/ Commit(s) \/ CommitLost(s) \/ CommitCut(s) \/ SaveBaseline(s) \/ Prompt(s)
  \/ Status(s) \/ Verify(s) \/ Decide(s) \/ HookDies(s)

Next == (\E p \in Paths : Write(p)) \/ \E s \in Slots : Step(s)

Spec == Init /\ [][Next]_vars

-----------------------------------------------------------------------------
(* Properties.                                                             *)

\* workspace-current never goes back to an earlier content of a file, however
\* scans and commits of several hooks interleave and wherever one dies.
ManifestMovesForward == [][\A p \in Paths : cur'[p] >= cur[p]]_vars

\* A pending transition can always be finished or dropped: recovery never
\* finds a manifest that is neither, which would stop every later hook.
PendingResolvable ==
  pend # None => Same(cur, pend.before) \/ Same(cur, pend.after)

\* The turn owes what the manifest holds of path p, or something later.
Shows(t, p) ==
  \/ t.rev[p] # 0 /\ (t.rev[p] >= cur[p] \/ Text(t.rev[p]) = Text(cur[p]))
  \/ t.rev[p] = 0 /\ t.first[p] = Text(cur[p])

\* A cut commit loses nothing and invents nothing: the content a hook of an
\* open turn committed is owed by that turn, now or after the next recovery,
\* and a turn owes only content the manifest has, or had.
OwedIsCommitted ==
  \A p \in Paths, a \in Agents :
    /\ author[p] = <<a, RTurn[a].id>> /\ RTurn[a].st # "none" => Shows(RTurn[a], p)
    /\ RTurn[a].rev[p] <= cur[p]

\* A Stop of a turn that used tools passes on its evidence, not on the cap.
Released(s) ==
  /\ hook[s].pc = "decide" /\ closed'[Me(s)] # closed[Me(s)]
  /\ Passes(Mine(s)) /\ Mine(s).cap

\* A Stop that passes has a successful check that started when every
\* revision it still had to verify was on disk: no check vouches for content
\* it did not run on, and none for a part of the changes only.
StopIsEvidenced ==
  [][\A s \in Slots : Released(s) /\ Pending(Mine(s)) # {} =>
       \E r \in Mine(s).results : \A p \in Pending(Mine(s)) :
         r.from[p] >= Mine(s).rev[p]]_vars

\* A Stop that passes has seen everything written before it began, even
\* writes that kept size and mtime.
StopSawEarlierWrites ==
  [][\A s \in Slots : Released(s) =>
       \A p \in Paths : cur[p] >= hook[s].from[p]]_vars

\* ... and the ledger it judged by holds every change of its own turn.
StopJudgesCommitted ==
  [][\A s \in Slots : Released(s) =>
       \A p \in Paths : author[p] = <<Me(s), hook[s].id>> =>
         Shows(Mine(s), p)]_vars

\* Turns whose baseline file and ledger agree.
Anchored(a) ==
  RTurn[a].st = "ready" /\ RTurn[a].bl /\ base[a].id = RTurn[a].id

Differs(a, p) == Text(base[a].snap[p]) # Text(cur[p])

\* The pending revisions of a turn are exactly the differences between its
\* baseline and workspace-current, whoever made or first observed them: what
\* was there when the baseline was taken, or is there again, is not pending.
PendingIsNetDelta ==
  \A a \in Agents, p \in Paths :
    Anchored(a) => (RTurn[a].rev[p] # 0 <=> Differs(a, p))

\* A Stop does not pass while a difference between the turn's baseline and
\* workspace-current is missing from the revisions it judged.
NoPassOverHidden ==
  [][\A s \in Slots : Released(s) /\ Anchored(Me(s)) =>
       \A p \in Paths : Differs(Me(s), p) => Mine(s).rev[p] # 0]_vars
=============================================================================
