------------------------------ MODULE StopGate ------------------------------
(***************************************************************************)
(* Stop's verdict on one turn: core/verify_state.py, with the UI lint of   *)
(* core/design_gate_state.py, and the part of the turn it judges: what was *)
(* changed here and on remote targets and which checks cover it            *)
(* (core/adapter_observation.py, core/ledger_v2.py, verification_covers).  *)
(*                                                                         *)
(* A gate call holds the ledger lock, so it is one step; the tools, the    *)
(* hooks' own scans, the lint and the reads made before the lock are not.  *)
(* seq counts only the events whose number is compared with another.       *)
(***************************************************************************)
EXTENDS Naturals, FiniteSets, FiniteSetsExt, Nothing

CONSTANTS
  Targets,     \* remote_target_ids
  Calls,       \* invocation ids of tool calls that may run side by side
  Work,        \* what they do: change files or UI files, mutate or check a target
  MAX_BLOCKS,  \* MAX_STOP_BLOCKS, MAX_DESIGN_BLOCKS
  MaxCalls,    \* bound: tool calls
  MaxLints,    \* bound: results of the lint
  MaxFaults    \* bound: saves that fail

StopGateAssumption ==
  /\ None \notin Targets \cup Calls /\ Targets \cap {"edit", "ui", "check"} = {}
  /\ \A w \in Work :
       /\ w \in [kind : {"edit", "ui", "mutate", "check"}, on : Targets \cup {None}]
       /\ w.kind # "check" => (w.on \in Targets <=> w.kind = "mutate")
  /\ MAX_BLOCKS \in Nat /\ MaxCalls \in Nat /\ MaxLints \in Nat /\ MaxFaults \in Nat

VARIABLES
  seq,      \* event_seq
  turn,     \* the turn in the ledger
  call,     \* a tool call: where it is, what it does
  lint,     \* `smtw check --design` at work: the design_last_change_seq it read
  stop,     \* the Stop hook: "idle" or, after finish_turn, "judge"
  released, \* the last Stop was passed on its evidence, not by its cap
  lost,     \* what an ended call has changed and no PostTool recorded
  calls, lints,
  faults

\* Two numbered events at most of a call, one of a lint.
MaxSeq == 2 * MaxCalls + MaxLints

stopVars == <<seq, turn, call, lint, stop, released, lost, calls, lints, faults>>
bounds == <<calls, lints>>

\* covers: through_seq, the pending revision, remote_target_ids; and whether
\* the target has changed since the check began.
Covers == [through : 0 .. MaxSeq, rev : 0 .. MaxSeq, on : Targets \cup {None},
           stale : BOOLEAN]

\* What a call changes.
Object(w) == IF w.kind = "mutate" THEN w.on ELSE w.kind

Idle == [at |-> "idle", work |-> None, covers |-> None]

StopTypeOK ==
  /\ seq \in 0 .. MaxSeq /\ faults \in 0 .. MaxFaults
  /\ calls \in 0 .. MaxCalls /\ lints \in 0 .. MaxLints
  /\ turn \in
       [open : BOOLEAN, incomplete : BOOLEAN, capable : BOOLEAN,
        rev : 0 .. MaxSeq,                  \* the pending revision, 0 if none
        epochs : [Targets -> 0 .. MaxSeq],  \* remote_mutation_epochs
        results : SUBSET Covers,            \* the successful checks
        stops : 0 .. MAX_BLOCKS,
        change : 0 .. MaxSeq,               \* design_last_change_seq
        check : 0 .. MaxSeq, passed : BOOLEAN, fresh : BOOLEAN,
        designs : 0 .. MAX_BLOCKS]
  /\ \A c \in Calls :
       /\ call[c].at \in {"idle", "run", "ended"}
       /\ call[c].work \in Work \cup {None}
       /\ call[c].covers \in Covers \cup {None}
  /\ lint \in [seq : 0 .. MaxSeq, fresh : BOOLEAN] \cup {None}
  /\ stop \in {"idle", "judge"}
  /\ released \in BOOLEAN
  /\ lost \subseteq Targets \cup {"edit", "ui"}

StopInit ==
  /\ seq = 0 /\ faults = 0 /\ stop = "idle" /\ lint = None /\ lost = {}
  /\ calls = 0 /\ lints = 0
  /\ turn = [open |-> TRUE, incomplete |-> FALSE, capable |-> FALSE, rev |-> 0,
             epochs |-> [t \in Targets |-> 0], results |-> {},
             stops |-> 0,
             change |-> 0, check |-> 0, passed |-> FALSE, fresh |-> FALSE,
             designs |-> 0]
  /\ call = [c \in Calls |-> Idle]
  /\ released = FALSE

Saved == faults' = faults
Unsaved == faults < MaxFaults /\ faults' = faults + 1

Goto(c, at) == call' = [call EXCEPT ![c].at = at]

-----------------------------------------------------------------------------
(* The tool and its observation.                                           *)

\* A numbered event.
Tick == seq' = seq + 1

\* begin_invocation: a mutation is recorded before it runs, a check takes its
\* covers.  A command that checks a target by mutating it is recorded as a
\* check only.
PreTool(c, w) ==
  /\ call[c].at = "idle" /\ turn.open /\ calls < MaxCalls /\ calls' = calls + 1
  /\ call' = [call EXCEPT ![c] =
       [at |-> "run", work |-> w,
        covers |-> IF w.kind = "check"
                   THEN [through |-> seq, rev |-> turn.rev, on |-> w.on, stale |-> FALSE]
                   ELSE None]]
  /\ IF w.kind = "mutate"
     THEN /\ Tick
          /\ turn' = [turn EXCEPT !.capable = TRUE, !.epochs = [@ EXCEPT ![w.on] = seq']]
     ELSE turn' = [turn EXCEPT !.capable = TRUE] /\ UNCHANGED seq
  /\ UNCHANGED <<lint, stop, released, lost, lints, faults>>

\* A change of a target makes the checks of it that have begun stale.
Stale(cov, w) ==
  IF cov # None /\ w.kind = "mutate" /\ cov.on = w.on
  THEN [cov EXCEPT !.stale = TRUE] ELSE cov

\* The tool does its work at some moment between the two hooks.
Effect(c) ==
  LET w == call[c].work
      fresh == w.kind # "ui"
  IN  /\ call[c].at = "run" /\ turn.open
      /\ call' = [d \in Calls |->
           IF d = c THEN [call[c] EXCEPT !.at = "ended"]
           ELSE [call[d] EXCEPT !.covers = Stale(@, w)]]
      /\ turn' = [turn EXCEPT !.results = {Stale(r, w) : r \in @},
                              !.fresh = @ /\ fresh]
      /\ lint' = IF lint = None THEN None ELSE [lint EXCEPT !.fresh = @ /\ fresh]
      /\ UNCHANGED <<seq, stop, released, lost, bounds, faults>>

\* record_observed_changes: a change of the files, of a UI file or not.
Changed(w) ==
  IF w.kind = "ui"
  THEN [turn EXCEPT !.rev = seq', !.change = seq', !.passed = FALSE]
  ELSE [turn EXCEPT !.rev = seq']

\* _record_status: a mutation counts again from when it was observed done.
Remutated(w) == [turn EXCEPT !.epochs = [@ EXCEPT ![w.on] = seq']]

\* observe_post_tool and, of a check, the verification event.
PostTool(c, incomplete, success) ==
  LET w == call[c].work
  IN  /\ call[c].at = "ended" /\ turn.open
      /\ CASE w.kind \in {"edit", "ui"} ->
                Tick /\ turn' = [Changed(w) EXCEPT !.incomplete = incomplete]
                /\ lost' = lost \ {w.kind}
           [] w.kind = "mutate" ->
                Tick /\ turn' = [Remutated(w) EXCEPT !.incomplete = incomplete]
                /\ lost' = lost \ {w.on}
           [] OTHER ->
                /\ turn' = [turn EXCEPT !.incomplete = incomplete,
                     !.results = IF success THEN @ \cup {call[c].covers} ELSE @]
                /\ UNCHANGED <<seq, lost>>
      /\ call' = [call EXCEPT ![c] = Idle]
      /\ UNCHANGED <<lint, stop, released, bounds, faults>>

\* No PostTool comes, or its save fails.
Unobserved(c) ==
  LET w == call[c].work
  IN  /\ call[c].at = "ended" /\ turn.open /\ Unsaved
      /\ call' = [call EXCEPT ![c] = Idle]
      /\ lost' = IF w.kind = "check" THEN lost ELSE lost \cup {Object(w)}
      /\ UNCHANGED <<seq, turn, lint, stop, released, bounds>>

-----------------------------------------------------------------------------
(* `smtw check --design`.                                                  *)

LintBegins ==
  /\ lint = None /\ turn.open
  /\ lint' = [seq |-> turn.change, fresh |-> TRUE]
  /\ UNCHANGED <<seq, turn, call, stop, released, lost, bounds, faults>>

\* Variant: the result is recorded whatever has changed since.
LintCurrentAlways == TRUE

LintCurrent == turn.change = lint.seq

\* record_design_result.
LintEnds(passed) ==
  /\ lint # None /\ lint' = None
  /\ IF turn.open /\ LintCurrent
     THEN Tick /\ lints < MaxLints /\ lints' = lints + 1
          /\ turn' = [turn EXCEPT !.check = seq', !.passed = passed,
                                       !.fresh = lint.fresh]
     ELSE UNCHANGED <<seq, turn, lints>>
  /\ UNCHANGED <<call, stop, released, lost, calls, faults>>

-----------------------------------------------------------------------------
(* Stop.                                                                   *)

\* finish_turn: its observation is saved, or not.
Finish(incomplete) ==
  /\ stop = "idle" /\ turn.open /\ stop' = "judge"
  /\ \/ turn' = [turn EXCEPT !.incomplete = incomplete] /\ Saved
     \/ UNCHANGED turn /\ Unsaved
  /\ released' = FALSE
  /\ UNCHANGED <<seq, call, lint, lost, bounds>>

\* covers_verified.
LocalVerified == turn.rev = 0 \/ \E r \in turn.results : r.rev = turn.rev

\* _has_target_verification.
TargetVerified(t) ==
  turn.epochs[t] = 0 \/ \E r \in turn.results : r.on = t /\ r.through >= turn.epochs[t]

\* has_successful_verification.
Verified == LocalVerified /\ \A t \in Targets : TargetVerified(t)

HasChanged == turn.rev > 0 \/ \E t \in Targets : turn.epochs[t] > 0

\* evaluate_without_io; markers: the answer has those an investigation asks for.
Allowed(markers) ==
  /\ ~(turn.incomplete /\ turn.capable)
  /\ HasChanged => markers /\ Verified

\* evaluate_design_stop has no objection.
DesignOk == turn.change = 0 \/ (turn.passed /\ turn.check > turn.change)

\* Variant: the count is kept in memory only.
CountedNever == turn

\* _increment_stop_block.
Counted == [turn EXCEPT !.stops = @ + 1]

Spent == turn.stops >= MAX_BLOCKS

\* The ledger is written, or keeps what it had.
Save(new) == \/ turn' = new /\ Saved
             \/ UNCHANGED turn /\ Unsaved

\* _record_stop_block: the block is answered even if its count is lost.
StopBlocks(markers) ==
  /\ stop = "judge" /\ turn.open /\ ~Allowed(markers) /\ ~Spent
  /\ Save(Counted) /\ released' = FALSE /\ stop' = "idle"
  /\ UNCHANGED <<seq, call, lint, lost, bounds>>

\* The verdict allows it, or its cap does.
PastOrdinary(markers) == Allowed(markers) \/ Spent

DesignBlocks(markers) ==
  /\ stop = "judge" /\ turn.open /\ PastOrdinary(markers)
  /\ ~DesignOk /\ turn.designs < MAX_BLOCKS
  /\ Save([turn EXCEPT !.designs = @ + 1]) /\ released' = FALSE /\ stop' = "idle"
  /\ UNCHANGED <<seq, call, lint, lost, bounds>>

\* _finish_allowed_turn: a turn whose end is not saved stays open.
Passes(markers) ==
  /\ stop = "judge" /\ turn.open /\ PastOrdinary(markers)
  /\ DesignOk \/ turn.designs >= MAX_BLOCKS
  /\ Save([turn EXCEPT !.open = FALSE])
  /\ released' = (Allowed(markers) /\ DesignOk)
  /\ stop' = "idle"
  /\ UNCHANGED <<seq, call, lint, lost, bounds>>

Judge(markers) == StopBlocks(markers) \/ DesignBlocks(markers) \/ Passes(markers)

StopNext ==
  \/ \E c \in Calls :
       \/ \E w \in Work : PreTool(c, w)
       \/ Effect(c) \/ Unobserved(c)
       \/ \E i, s \in BOOLEAN : PostTool(c, i, s)
  \/ LintBegins \/ \E p \in BOOLEAN : LintEnds(p)
  \/ \E i \in BOOLEAN : Finish(i)
  \/ \E m \in BOOLEAN : Judge(m)

\* The host calls Stop whenever the agent ends its answer, and runs the hook
\* to its end.
StopFairness ==
  WF_stopVars(\E i \in BOOLEAN : Finish(i)) /\ WF_stopVars(\E m \in BOOLEAN : Judge(m))

StopSpec == StopInit /\ [][StopNext]_stopVars /\ StopFairness

-----------------------------------------------------------------------------
(* Properties.                                                             *)

Unseen == lost \cup {Object(call[c].work) : c \in {d \in Calls : call[d].at # "idle"}}

\* When Stop passes a turn on its evidence, each remote target changed in it
\* has a successful check that began after the last change of it, and if UI
\* files were changed in it, the lint that let it pass began after the last
\* change of them; unless a change of the same has not been observed.
EvidenceIsCurrent ==
  [][~released /\ released' =>
       /\ \A t \in Targets \ Unseen :
            turn.epochs[t] > 0 => \E r \in turn.results : r.on = t /\ ~r.stale
       /\ turn.change > 0 /\ "ui" \notin Unseen => turn.fresh]_stopVars

\* Every turn ends, if saves do not fail for ever and the host keeps calling
\* Stop: no gate holds an agent for good.
EveryTurnEnds == <>(~turn.open)
=============================================================================
