----------------------------- MODULE GateProofs -----------------------------
(***************************************************************************)
(* The gates before a tool call (PreToolGates) and at Stop (StopGate), the *)
(* session a hook belongs to (SessionHooks), and the scorecard of the      *)
(* gates (GateScorecard).                                                  *)
(*                                                                         *)
(* For any number of tool calls side by side, any limit and any number of  *)
(* turns and lost saves: a checkpoint gate stops the calls of a turn at    *)
(* most MAX_GATE_BLOCKS times; a block is counted in the step that answers *)
(* it, and a step that cannot count it does not answer it.  A high-risk    *)
(* call gets past its contract in three ways and no other: at the goals    *)
(* gate, as an edit that writes only contracts, or with a hook that raised *)
(* (RaisedShows counts these).                                             *)
(*                                                                         *)
(* For any calls side by side, targets, limits and failing saves: a Stop   *)
(* that passes on its evidence has a check, and a lint, that began after   *)
(* the last change it could know of.  A check or a lint does not know of   *)
(* the changes made while it runs; the turn tells them by the number of    *)
(* the last mutation it recorded, or the change is one no PostTool has     *)
(* observed (StaleShows, LintShows).  That needs the numbers to be in      *)
(* order (Numbered): none is ahead of event_seq, and a lint read its       *)
(* number before the turn's last one.                                      *)
(*                                                                         *)
(* For any hooks, prompts and failures, if the host sends a prompt only    *)
(* when no tool call is in its hook: the turn of a prompt is opened once,  *)
(* and once more only for a failure.  The hook of a prompt is alone, and   *)
(* the one that promotes a quick turn holds the claim (Alone); what a hook *)
(* has loaded of its turn is what is remembered (Knows).  With at most one *)
(* failure a session stays in its root (Rooted).                           *)
(*                                                                         *)
(* For any sessions, reasons, limits and failures of the scorecard: an     *)
(* entry that says it is complete shows what the journal says of its       *)
(* session from the entry's first transition.  It counts more than it      *)
(* shows: the scopes and the open blocks are those of the journal          *)
(* themselves (CompleteTallies), and no line is later than the clock       *)
(* (JournalDated).  A line and the update of the entry that goes with it   *)
(* do the same to both counts (UpdatedTallies).                            *)
(***************************************************************************)
EXTENDS PreToolGates, StopGate, SessionHooks, GateScorecard, PickingProofs,
        FiniteSetTheorems, SequenceTheorems, WellFoundedInduction, TLAPS

-----------------------------------------------------------------------------
(* The gates before a tool call.                                           *)


\* A hook that raised is one of the faults there were.
RaisedShows == \A h \in ToolCalls : ask[h].at = "raised" => lostSaves > 0

GateInv == GatesTypeOK /\ GateBlocksCapped /\ RaisedShows

\* How a high-risk call may be excused from its contract: the goals gate lets
\* it pass, it writes only contracts, or its hook raised.
Excused(c) ==
  \/ c.at = "goals"
  \/ c.at = "R1" /\ c.writes = "contract"
  \/ c.at = "raised" /\ lostSaves > 0

\* What holds of the contract's gate where RiskNeedsContract does not: a
\* high-risk call goes on to run under a valid contract or is excused.
ContractOrExcuse ==
  [][\A h \in ToolCalls :
       ask[h].at # "run" /\ ask'[h].at = "run" /\ ask[h].risk =>
         "contract" \in present \/ Excused(ask[h])]_gateVars

\* A call moved along keeps the type of `ask`, and no other call moves.
LEMMA MoveTyped ==
  ASSUME GatesTypeOK, NEW h \in ToolCalls, NEW at \in Stations, GoOn(h, at)
  PROVE  /\ ask' \in [ToolCalls -> AskType]
         /\ \A k \in ToolCalls : ask'[k].at = IF k = h THEN at ELSE ask[k].at
  BY DEF GatesTypeOK, GoOn, AskType

\* A call that is moved on by a gate has not raised.
LEMMA MoveKeeps ==
  ASSUME PreToolAssumption, GateInv, NEW h \in ToolCalls, NEW at \in Stations, GoOn(h, at),
         at # "raised",
         lostSaves' \in lostSaves .. MaxLost, UNCHANGED <<prompts, needs, spent, told, present>>
  PROVE  GateInv'
<1> USE DEF GateInv, GatesTypeOK, PreToolAssumption
<1>1. ask' \in [ToolCalls -> AskType]
  BY MoveTyped
<1>2. RaisedShows'
  BY MoveTyped DEF RaisedShows
<1> QED
  BY <1>1, <1>2 DEF GateBlocksCapped

\* A block that is counted keeps both counters within the limit.
LEMMA BlocksKeeps ==
  ASSUME PreToolAssumption, GateInv, NEW h \in ToolCalls, NEW g \in Gates, Blocks(h, g)
  PROVE  GateInv'
<1> USE DEF GateInv, GatesTypeOK, GateBlocksCapped, Blocks, Blocked, PreToolAssumption
<1>1. told' \in [Gates -> Nat] /\ spent' \in [Gates -> 0 .. MAX_GATE_BLOCKS]
  OBVIOUS
<1>2. \A f \in Gates : told'[f] <= spent'[f] /\ spent'[f] <= MAX_GATE_BLOCKS
  OBVIOUS
<1>3. ask' \in [ToolCalls -> AskType] /\ RaisedShows'
  BY DEF NoCall, AskType, Stations, Writings, RaisedShows
<1> QED
  BY <1>1, <1>2, <1>3

\* A call that is stopped or over leaves the rest as it is.
LEMMA EndKeeps ==
  ASSUME GateInv, NEW h \in ToolCalls, ask' = [ask EXCEPT ![h] = NoCall],
         UNCHANGED <<prompts, needs, spent, told, present, lostSaves>>
  PROVE  GateInv'
  BY DEF GateInv, GatesTypeOK, GateBlocksCapped, RaisedShows, NoCall, AskType, Stations, Writings

\* The invariant of the gates holds for every number of hooks and every limit.
LEMMA StepKeeps ==
  ASSUME PreToolAssumption, GateInv, [PreToolNext]_gateVars
  PROVE  GateInv'
<1>0. lostSaves \in lostSaves .. MaxLost /\ lostSaves \in 0 .. MaxLost /\ MaxLost \in Nat
  BY DEF GateInv, GatesTypeOK, PreToolAssumption
<1>1. CASE UNCHANGED gateVars
  BY <1>1 DEF gateVars, GateInv, GatesTypeOK, GateBlocksCapped, RaisedShows
<1>2. ASSUME NEW n \in SUBSET Gates, SubmitPrompt(n)
      PROVE  GateInv'
  BY <1>2 DEF SubmitPrompt, PreToolAssumption, GateInv, GatesTypeOK, GateBlocksCapped, RaisedShows
<1>3. ASSUME NEW c \in Checkpoints, Author(c)
      PROVE  GateInv'
  BY <1>3 DEF Author, GateInv, GatesTypeOK, GateBlocksCapped, RaisedShows
<1>4. ASSUME NEW h \in ToolCalls, NEW e \in BOOLEAN, NEW w \in Writings, NEW r \in BOOLEAN,
             BeginCall(h, e, w, r)
      PROVE  GateInv'
  <2>1. PICK at \in {"intent", "goals?"} :
          ask' = [ask EXCEPT ![h] = [at |-> at, writes |-> w, risk |-> r]]
    BY <1>4 DEF BeginCall
  <2>2. ask' \in [ToolCalls -> AskType] /\ RaisedShows'
    BY <1>4, <2>1 DEF BeginCall, GateInv, GatesTypeOK, RaisedShows, AskType, Stations
  <2> QED
    BY <1>4, <2>2 DEF BeginCall, GateInv, GatesTypeOK, GateBlocksCapped
<1>5. ASSUME NEW h \in ToolCalls, AskGoals(h)
      PROVE  GateInv'
  <2>1. PICK at \in {"goals", "R1"} : GoOn(h, at)
    BY <1>5 DEF AskGoals
  <2> QED
    BY <1>0, <1>5, <2>1, MoveKeeps DEF AskGoals, Stations
<1>6. ASSUME NEW h \in ToolCalls, NEW g \in Gates, Allows(h, g)
      PROVE  GateInv'
  <2>1. Onward(g) \in Stations /\ Onward(g) # "raised"
    BY DEF Onward, Stations
  <2> QED
    BY <1>0, <1>6, <2>1, MoveKeeps DEF Allows
<1>7. ASSUME NEW h \in ToolCalls, NEW g \in Gates, Blocks(h, g)
      PROVE  GateInv'
  BY <1>7, BlocksKeeps
<1>8. ASSUME NEW h \in ToolCalls, NEW g \in Gates, Lost(h, g)
      PROVE  GateInv'
  <2>1. Onward(g) \in Stations /\ Onward(g) # "raised"
    BY DEF Onward, Stations
  <2>2. lostSaves' \in lostSaves .. MaxLost
    BY <1>0, <1>8 DEF Lost
  <2> QED
    BY <1>8, <2>1, <2>2, MoveKeeps DEF Lost
<1>9. ASSUME NEW h \in ToolCalls, R1(h)
      PROVE  GateInv'
  <2>1. CASE GoOn(h, "run")
    BY <1>0, <1>9, <2>1, MoveKeeps DEF R1, Stations
  <2>2. CASE ask' = [ask EXCEPT ![h] = NoCall]
    BY <1>9, <2>2, EndKeeps DEF R1
  <2> QED
    BY <1>9, <2>1, <2>2 DEF R1
<1>10. ASSUME NEW h \in ToolCalls, Raises(h)
       PROVE  GateInv'
  <2>1. lostSaves' \in 0 .. MaxLost /\ lostSaves' > 0
    BY <1>0, <1>10 DEF Raises
  <2>2. ask' \in [ToolCalls -> AskType]
    BY <1>10, MoveTyped DEF Raises, Stations, GateInv
  <2> QED
    BY <1>10, <2>1, <2>2 DEF Raises, GateInv, GatesTypeOK, GateBlocksCapped, RaisedShows
<1>11. ASSUME NEW h \in ToolCalls, FailOpen(h)
       PROVE  GateInv'
  BY <1>0, <1>11, MoveKeeps DEF FailOpen, Stations
<1>12. ASSUME NEW h \in ToolCalls, Run(h)
       PROVE  GateInv'
  BY <1>12, EndKeeps DEF Run
<1> QED
  BY <1>1, <1>2, <1>3, <1>4, <1>5, <1>6, <1>7, <1>8, <1>9, <1>10, <1>11, <1>12 DEF PreToolNext

LEMMA GateInvariant ==
  ASSUME PreToolAssumption
  PROVE  PreToolSpec => []GateInv
<1>1. PreToolInit => GateInv
  BY DEF PreToolInit, GateInv, GatesTypeOK, GateBlocksCapped, RaisedShows, NoCall,
         AskType, Stations, Writings, PreToolAssumption
<1>2. GateInv /\ [PreToolNext]_gateVars => GateInv'
  BY StepKeeps
<1> QED
  BY <1>1, <1>2, PTL DEF PreToolSpec

\* However many calls pass a checkpoint gate side by side, and whatever save
\* of its counter fails, it stops the calls of a turn at most MAX_GATE_BLOCKS times
\* (block_intent_once, block_goals_once).
THEOREM GatesAreCapped ==
  ASSUME PreToolAssumption
  PROVE  PreToolSpec => []GateBlocksCapped
  BY GateInvariant, PTL DEF GateInv

\* A high-risk call goes on to run under a valid contract, or past the goals
\* gate, where evaluate_pretool_contract returns before R1, or as an edit that
\* writes only contracts, or since its hook raised and fails open (main of
\* adapters/claude_code/pre_tool_use.py): whatever calls, prompts and failures
\* there are, no other way leads around evaluate_r1_contract.
THEOREM ContractOrExcused ==
  ASSUME PreToolAssumption
  PROVE  PreToolSpec => ContractOrExcuse
<1> DEFINE Due(h) == "contract" \in present \/ Excused(ask[h])
<1>1. ASSUME GateInv, [PreToolNext]_gateVars, NEW h \in ToolCalls,
             ask[h].at # "run", ask'[h].at = "run", ask[h].risk
      PROVE  Due(h)
  <2>1. ask \in [ToolCalls -> AskType]
    BY <1>1 DEF GateInv, GatesTypeOK
  <2>2. CASE UNCHANGED gateVars
    BY <1>1, <2>2 DEF gateVars
  <2>3. ASSUME NEW k \in ToolCalls, NEW g \in Gates, Allows(k, g) \/ Lost(k, g)
        PROVE  Due(h)
    BY <1>1, <2>1, <2>3 DEF Allows, Lost, GoOn, Onward, Gates, AskType, Excused
  <2>4. ASSUME NEW k \in ToolCalls, R1(k)
        PROVE  Due(h)
    BY <1>1, <2>1, <2>4 DEF R1, GoOn, NoCall, AskType, Excused
  <2>5. ASSUME NEW k \in ToolCalls, FailOpen(k)
        PROVE  Due(h)
    BY <1>1, <2>1, <2>5 DEF FailOpen, GoOn, AskType, Excused, GateInv, RaisedShows
  <2>6. ASSUME NEW k \in ToolCalls, Run(k) \/ (\E g \in Gates : Blocks(k, g))
        PROVE  FALSE
    BY <1>1, <2>1, <2>6 DEF Run, Blocks, Blocked, NoCall, AskType
  <2>7. ASSUME NEW k \in ToolCalls,
               \/ \E e, r \in BOOLEAN, w \in Writings : BeginCall(k, e, w, r)
               \/ AskGoals(k) \/ Raises(k)
        PROVE  FALSE
    BY <1>1, <2>1, <2>7 DEF BeginCall, AskGoals, Raises, GoOn, AskType
  <2>8. ASSUME \/ \E n \in SUBSET Gates : SubmitPrompt(n)
               \/ \E c \in Checkpoints : Author(c)
        PROVE  FALSE
    BY <1>1, <2>8 DEF SubmitPrompt, Author
  <2> QED
    BY <1>1, <2>2, <2>3, <2>4, <2>5, <2>6, <2>7, <2>8 DEF PreToolNext
<1>2. GateInv /\ [PreToolNext]_gateVars => [\A h \in ToolCalls :
         ask[h].at # "run" /\ ask'[h].at = "run" /\ ask[h].risk =>
           "contract" \in present \/ Excused(ask[h])]_gateVars
  BY <1>1
<1> QED
  BY <1>2, GateInvariant, PTL DEF PreToolSpec, ContractOrExcuse

-----------------------------------------------------------------------------
(* The Stop gate.                                                          *)

CoversTo(n) == [through : 0 .. n, rev : 0 .. n, on : Targets \cup {None}, stale : BOOLEAN]

TurnTo(n) ==
  [open : BOOLEAN, incomplete : BOOLEAN, capable : BOOLEAN, rev : 0 .. n,
   epochs : [Targets -> 0 .. n], results : SUBSET CoversTo(n), stops : 0 .. MAX_BLOCKS,
   change : 0 .. n, check : 0 .. n, passed : BOOLEAN, fresh : BOOLEAN,
   designs : 0 .. MAX_BLOCKS]

CallTo(n) == [at : {"idle", "run", "ended"}, work : Work \cup {None},
              covers : CoversTo(n) \cup {None}]

\* No number in the turn, a call or the lint is ahead of event_seq.
Numbered ==
  /\ seq \in Nat /\ turn \in TurnTo(seq) /\ call \in [Calls -> CallTo(seq)]
  /\ lint \in [seq : 0 .. turn.change, fresh : BOOLEAN] \cup {None}
  /\ \A c \in Calls : call[c].at # "idle" =>
       /\ call[c].work \in Work
       /\ call[c].work.kind = "check" => call[c].covers \in CoversTo(seq)
  /\ faults \in 0 .. MaxFaults /\ calls \in 0 .. MaxCalls /\ lints \in 0 .. MaxLints
  /\ stop \in {"idle", "judge"} /\ released \in BOOLEAN
  /\ lost \subseteq Targets \cup {"edit", "ui"}

\* The checks and what each has seen.
Checks == {c \in Calls : call[c].at # "idle" /\ call[c].work.kind = "check"}
Begun == turn.results \cup {call[c].covers : c \in Checks}

\* A check that a change came after is told by the turn's epoch, or the
\* change is still to be observed.
StaleShows ==
  \A r \in Begun : r.stale /\ r.on \in Targets =>
    r.on \in Unseen \/ r.through < turn.epochs[r.on]

\* So is a lint that a change came after, at work or recorded.
LintShows ==
  /\ turn.passed /\ ~turn.fresh => "ui" \in Unseen \/ turn.check <= turn.change
  /\ lint # None /\ ~lint.fresh => "ui" \in Unseen \/ lint.seq < turn.change

\* The numbered events there were, and those that the calls at work are yet
\* to make.
Working == {c \in Calls : call[c].at # "idle"}
Budget == IsFiniteSet(Working) /\ seq + Cardinality(Working) <= 2 * calls + lints

StopInv == Numbered /\ StaleShows /\ LintShows /\ Budget

\* What is in order stays in order when event_seq advances.
LEMMA NumbersGrow ==
  ASSUME NEW n \in Nat, NEW m \in Nat, n <= m
  PROVE  CoversTo(n) \subseteq CoversTo(m) /\ TurnTo(n) \subseteq TurnTo(m)
         /\ CallTo(n) \subseteq CallTo(m)
<1>1. 0 .. n \subseteq 0 .. m
  OBVIOUS
<1>2. CoversTo(n) \subseteq CoversTo(m)
  BY <1>1 DEF CoversTo
<1>3. TurnTo(n) \subseteq TurnTo(m)
  BY <1>1, <1>2 DEF TurnTo
<1>4. CallTo(n) \subseteq CallTo(m)
  BY <1>2 DEF CallTo
<1> QED
  BY <1>2, <1>3, <1>4

\* The invariant holds of a turn that has just begun.
LEMMA NumberedInit == ASSUME StopGateAssumption, StopInit PROVE StopInv
<1> USE DEF StopInit, StopGateAssumption
<1>1. Numbered
  <2>1. turn \in TurnTo(0)
    BY DEF TurnTo
  <2>2. call \in [Calls -> CallTo(0)]
    BY DEF CallTo, Idle
  <2> QED
    <3>1. faults \in 0 .. MaxFaults /\ calls \in 0 .. MaxCalls /\ lints \in 0 .. MaxLints
      OBVIOUS
    <3>2. \A c \in Calls : call[c].at = "idle"
      BY DEF Idle
    <3> QED
      BY <2>1, <2>2, <3>1, <3>2 DEF Numbered
<1>2. StaleShows /\ LintShows
  BY DEF StaleShows, LintShows, Begun, Checks, Idle
<1>3. Working = {}
  BY DEF Working, Idle
<1>4. Budget
  BY <1>3, FS_EmptySet DEF Budget
<1> QED
  BY <1>1, <1>2, <1>4 DEF StopInv

\* A call that begins takes the next number, or none.
LEMMA PreToolNumbered ==
  ASSUME StopGateAssumption, StopInv, NEW c \in Calls, NEW w \in Work, PreTool(c, w)
  PROVE  Numbered'
<1> USE DEF StopInv, Numbered
<1>1. seq' \in Nat /\ seq <= seq' /\ seq' <= seq + 1
  BY DEF PreTool, Tick
<1>2. TurnTo(seq) \subseteq TurnTo(seq') /\ CallTo(seq) \subseteq CallTo(seq')
      /\ CoversTo(seq) \subseteq CoversTo(seq')
  BY <1>1, NumbersGrow
<1>3. w.kind = "mutate" => w.on \in Targets /\ seq' = seq + 1
  BY DEF PreTool, Tick, StopGateAssumption
<1>4. w.on \in Targets \cup {None}
  BY DEF StopGateAssumption
<1>5. turn' \in TurnTo(seq') /\ turn'.change = turn.change
  <2>1. turn \in TurnTo(seq')
    BY <1>2
  <2>2. CASE w.kind = "mutate"
    <3>1. seq' \in 0 .. seq' /\ turn.epochs \in [Targets -> 0 .. seq']
      BY <1>1, <2>1 DEF TurnTo
    <3> DEFINE E == [turn.epochs EXCEPT ![w.on] = seq']
    <3>2. E \in [Targets -> 0 .. seq']
      BY <3>1
    <3>3. turn' = [turn EXCEPT !.capable = TRUE, !.epochs = E]
      BY <2>2 DEF PreTool
    <3> HIDE DEF E
    <3> QED
      BY <2>1, <3>2, <3>3 DEF TurnTo
  <2>3. CASE w.kind # "mutate"
    BY <2>1, <2>3 DEF PreTool, TurnTo
  <2> QED
    BY <2>2, <2>3
<1>10. [through |-> seq, rev |-> turn.rev, on |-> w.on, stale |-> FALSE] \in CoversTo(seq)
  <2>1. turn.rev \in 0 .. seq
    BY DEF TurnTo
  <2> QED
    BY <2>1, <1>4 DEF CoversTo
<1>6. call' \in [Calls -> CallTo(seq')]
  <2>3. call \in [Calls -> CallTo(seq')]
    BY <1>2
  <2> QED
    BY <1>10, <2>3, <1>2 DEF PreTool, CallTo
<1>7. \A d \in Calls : call'[d].at # "idle" =>
        /\ call'[d].work \in Work
        /\ call'[d].work.kind = "check" => call'[d].covers \in CoversTo(seq')
  BY <1>2, <1>10 DEF PreTool
<1> QED
  <2>1. calls' \in 0 .. MaxCalls
    BY DEF PreTool, StopGateAssumption
  <2> QED
    BY <1>1, <1>5, <1>6, <1>7, <2>1 DEF PreTool

\* To call a check stale changes nothing else of it.
LEMMA StaleKeeps ==
  ASSUME NEW n \in Nat, NEW cov \in CoversTo(n) \cup {None}, NEW w
  PROVE  Stale(cov, w) \in CoversTo(n) \cup {None}
  BY DEF Stale, CoversTo

\* What a call does changes no number.
LEMMA EffectNumbered ==
  ASSUME StopInv, NEW c \in Calls, Effect(c)
  PROVE  Numbered'
<1> USE DEF StopInv, Numbered
<1> DEFINE w == call[c].work
           R == {Stale(r, w) : r \in turn.results}
<1>1. turn' = [turn EXCEPT !.results = R, !.fresh = @ /\ w.kind # "ui"]
  BY DEF Effect
<1>2. R \in SUBSET CoversTo(seq)
  <2>1. turn.results \subseteq CoversTo(seq)
    BY DEF TurnTo
  <2>2. \A r \in CoversTo(seq) : Stale(r, w) \in CoversTo(seq)
    BY DEF Stale, CoversTo
  <2> QED
    BY <2>1, <2>2
<1>3. turn' \in TurnTo(seq) /\ turn'.change = turn.change
  <2> HIDE DEF R, w
  <2> QED
    BY <1>1, <1>2 DEF TurnTo
<1>4. \A d \in Calls : Stale(call[d].covers, w) \in CoversTo(seq) \cup {None}
  BY StaleKeeps DEF CallTo
<1>5. call' \in [Calls -> CallTo(seq)]
  BY <1>4 DEF Effect, CallTo
<1>6. \A d \in Calls : call'[d].at = (IF d = c THEN "ended" ELSE call[d].at)
                       /\ call'[d].work = call[d].work
                       /\ call'[d].covers = (IF d = c THEN call[d].covers
                                            ELSE Stale(call[d].covers, w))
  BY DEF Effect, CallTo
<1>7. \A d \in Calls : call'[d].at # "idle" =>
        /\ call'[d].work \in Work
        /\ call'[d].work.kind = "check" => call'[d].covers \in CoversTo(seq)
  <2> SUFFICES ASSUME NEW d \in Calls, call'[d].at # "idle"
               PROVE  /\ call'[d].work \in Work
                      /\ call'[d].work.kind = "check" => call'[d].covers \in CoversTo(seq)
    OBVIOUS
  <2>1. call[d].at # "idle"
    BY <1>6 DEF Effect
  <2>2. call[d].covers \in CoversTo(seq) => Stale(call[d].covers, w) \in CoversTo(seq)
    BY DEF Stale, CoversTo
  <2> QED
    BY <1>6, <2>1, <2>2
<1>8. lint' \in [seq : 0 .. turn.change, fresh : BOOLEAN] \cup {None}
  BY DEF Effect
<1> QED
  BY <1>3, <1>5, <1>7, <1>8 DEF Effect, bounds

\* What PostTool observes takes the next number.
LEMMA PostToolNumbered ==
  ASSUME StopGateAssumption, StopInv, NEW c \in Calls, NEW i \in BOOLEAN,
         NEW s \in BOOLEAN, PostTool(c, i, s)
  PROVE  Numbered'
<1> USE DEF StopInv, Numbered
<1> DEFINE w == call[c].work
<1>0. w \in Work /\ (w.kind = "mutate" => w.on \in Targets)
  BY DEF PostTool, StopGateAssumption
<1>1. seq' \in Nat /\ seq <= seq' /\ seq' \in 0 .. seq'
  BY DEF PostTool, Tick
<1>2. TurnTo(seq) \subseteq TurnTo(seq') /\ CallTo(seq) \subseteq CallTo(seq')
      /\ CoversTo(seq) \subseteq CoversTo(seq')
  BY <1>1, NumbersGrow
<1>3. turn \in TurnTo(seq') /\ turn \in TurnTo(seq)
  BY <1>2
<1>4. turn' \in TurnTo(seq') /\ turn'.change \in {turn.change, seq'}
  <2>1. CASE w.kind \in {"edit", "ui"}
    <3>1. turn' = [Changed(w) EXCEPT !.incomplete = i]
      BY <2>1 DEF PostTool
    <3>2. CASE w.kind = "ui"
      <4>1. turn' = [turn EXCEPT !.rev = seq', !.change = seq', !.passed = FALSE,
                                 !.incomplete = i]
        BY <3>1, <3>2, <1>3 DEF Changed, TurnTo
      <4> QED
        BY <4>1, <1>1, <1>3 DEF TurnTo
    <3>3. CASE w.kind # "ui"
      <4>1. turn' = [turn EXCEPT !.rev = seq', !.incomplete = i]
        BY <3>1, <3>3, <1>3 DEF Changed, TurnTo
      <4> QED
        BY <4>1, <1>1, <1>3 DEF TurnTo
    <3> QED
      BY <3>2, <3>3
  <2>2. CASE w.kind = "mutate"
    <3> DEFINE E == [turn.epochs EXCEPT ![w.on] = seq']
    <3>1. turn.epochs \in [Targets -> 0 .. seq']
      BY <1>3 DEF TurnTo
    <3>2. E \in [Targets -> 0 .. seq']
      BY <1>1, <3>1
    <3>3. turn' = [turn EXCEPT !.epochs = E, !.incomplete = i]
      BY <2>2 DEF PostTool, Remutated
    <3> HIDE DEF E, w
    <3> QED
      BY <1>3, <3>2, <3>3 DEF TurnTo
  <2>3. CASE w.kind \notin {"edit", "ui", "mutate"}
    <3> DEFINE R == IF s THEN turn.results \cup {call[c].covers} ELSE turn.results
    <3>1. w.kind = "check"
      BY <1>0, <2>3 DEF StopGateAssumption
    <3>2. R \in SUBSET CoversTo(seq')
      BY <1>2, <1>3, <3>1 DEF PostTool, TurnTo
    <3>3. turn' = [turn EXCEPT !.incomplete = i, !.results = R]
      BY <2>3 DEF PostTool
    <3> HIDE DEF R, w
    <3> QED
      BY <1>3, <3>2, <3>3 DEF TurnTo
  <2> QED
    BY <2>1, <2>2, <2>3
<1>5. call' = [call EXCEPT ![c] = Idle]
  BY DEF PostTool
<1>6. call' \in [Calls -> CallTo(seq')]
  BY <1>2, <1>5 DEF Idle, CallTo
<1>7. \A d \in Calls : call'[d].at # "idle" =>
        /\ call'[d].work \in Work
        /\ call'[d].work.kind = "check" => call'[d].covers \in CoversTo(seq')
  BY <1>2, <1>5 DEF Idle
<1>8. turn.change <= seq /\ turn.change \in Nat
  BY <1>3 DEF TurnTo
<1>9. lint' \in [seq : 0 .. turn'.change, fresh : BOOLEAN] \cup {None}
  BY <1>1, <1>4, <1>8 DEF PostTool
<1>10. lost' \subseteq Targets \cup {"edit", "ui"}
  BY DEF PostTool
<1> QED
  BY <1>1, <1>4, <1>6, <1>7, <1>9, <1>10 DEF PostTool, bounds

\* A call that ends without PostTool changes no number.
LEMMA UnobservedNumbered ==
  ASSUME StopGateAssumption, StopInv, NEW c \in Calls, Unobserved(c)
  PROVE  Numbered'
<1> USE DEF StopInv, Numbered
<1>1. call' \in [Calls -> CallTo(seq)]
  BY DEF Unobserved, Idle, CallTo
<1>2. \A d \in Calls : call'[d].at # "idle" => call'[d] = call[d]
  BY DEF Unobserved, Idle
<1>3. call[c].work.kind # "check" => Object(call[c].work) \in Targets \cup {"edit", "ui"}
  BY DEF Unobserved, Object, StopGateAssumption
<1>4. lost' \subseteq Targets \cup {"edit", "ui"}
  BY <1>3 DEF Unobserved
<1>5. faults' \in 0 .. MaxFaults
  BY DEF Unobserved, Unsaved, StopGateAssumption
<1> QED
  BY <1>1, <1>2, <1>4, <1>5 DEF Unobserved, bounds

\* The result of the lint takes the next number; a Stop takes none.
LEMMA RestNumbered ==
  ASSUME StopGateAssumption, StopInv, NEW p \in BOOLEAN,
         LintBegins \/ LintEnds(p) \/ Finish(p) \/ Judge(p)
  PROVE  Numbered'
<1> USE DEF StopInv, Numbered
<1>0. turn.change <= seq /\ turn.change \in Nat /\ seq \in 0 .. seq
  BY DEF TurnTo
<1>2. CASE LintBegins
  <2>1. lint' \in [seq : 0 .. turn.change, fresh : BOOLEAN] \cup {None}
    BY <1>0, <1>2 DEF LintBegins
  <2> QED
    BY <1>2, <2>1 DEF LintBegins, bounds
<1>3. CASE LintEnds(p)
  <2>1. CASE turn.open /\ LintCurrent
    <3>1. seq' \in Nat /\ seq <= seq' /\ seq' \in 0 .. seq'
      BY <1>3, <2>1 DEF LintEnds, Tick
    <3>2. TurnTo(seq) \subseteq TurnTo(seq') /\ CallTo(seq) \subseteq CallTo(seq')
          /\ CoversTo(seq) \subseteq CoversTo(seq')
      BY <3>1, NumbersGrow
    <3>3. turn' = [turn EXCEPT !.check = seq', !.passed = p, !.fresh = lint.fresh]
      BY <1>3, <2>1 DEF LintEnds
    <3>4. lint.fresh \in BOOLEAN
      BY <1>3 DEF LintEnds
    <3>5. turn' \in TurnTo(seq')
      BY <3>1, <3>2, <3>3, <3>4 DEF TurnTo
    <3>6. lints' \in 0 .. MaxLints
      BY <1>3, <2>1 DEF LintEnds, StopGateAssumption
    <3> QED
      BY <1>3, <3>1, <3>2, <3>5, <3>6 DEF LintEnds
  <2>2. CASE ~(turn.open /\ LintCurrent)
    BY <1>3, <2>2 DEF LintEnds
  <2> QED
    BY <2>1, <2>2
<1>4. CASE Finish(p)
  <2>1. turn' \in TurnTo(seq) /\ turn'.change = turn.change
    BY <1>4 DEF Finish, TurnTo
  <2>2. faults' \in 0 .. MaxFaults
    BY <1>4 DEF Finish, Saved, Unsaved, StopGateAssumption
  <2> QED
    BY <1>4, <2>1, <2>2 DEF Finish, bounds
<1>5. CASE Judge(p)
  <2>1. turn' \in TurnTo(seq) /\ turn'.change = turn.change
    <3>1. ~Spent => Counted \in TurnTo(seq) /\ Counted.change = turn.change
      BY DEF Spent, Counted, TurnTo, StopGateAssumption
    <3>2. turn.designs < MAX_BLOCKS =>
            /\ [turn EXCEPT !.designs = @ + 1] \in TurnTo(seq)
            /\ [turn EXCEPT !.designs = @ + 1].change = turn.change
      BY DEF TurnTo, StopGateAssumption
    <3>3. /\ [turn EXCEPT !.open = FALSE] \in TurnTo(seq)
          /\ [turn EXCEPT !.open = FALSE].change = turn.change
      BY DEF TurnTo
    <3> QED
      BY <1>5, <3>1, <3>2, <3>3 DEF Judge, StopBlocks, DesignBlocks, Passes, Save
  <2>2. faults' \in 0 .. MaxFaults
    BY <1>5 DEF Judge, StopBlocks, DesignBlocks, Passes, Save, Saved, Unsaved,
       StopGateAssumption
  <2> QED
    BY <1>5, <2>1, <2>2 DEF Judge, StopBlocks, DesignBlocks, Passes, bounds
<1> QED
  BY <1>2, <1>3, <1>4, <1>5

\* What a step has to show for StaleShows.
LEMMA ShowsKept ==
  ASSUME StopInv, Numbered',
         \A t \in Targets : t \in Unseen => t \in Unseen' \/ turn'.epochs[t] > seq,
         \A t \in Targets : turn'.epochs[t] >= turn.epochs[t],
         \A r \in Begun' : r.stale /\ r.on \in Targets =>
           \/ r.on \in Unseen'
           \/ \E q \in Begun : q.stale /\ q.on = r.on /\ q.through = r.through
  PROVE  StaleShows'
<1> SUFFICES ASSUME NEW r \in Begun', r.stale, r.on \in Targets, r.on \notin Unseen'
             PROVE  r.through < turn'.epochs[r.on]
  BY DEF StaleShows
<1>1. PICK q \in Begun : q.stale /\ q.on = r.on /\ q.through = r.through
  OBVIOUS
<1>2. q \in CoversTo(seq)
  BY DEF Begun, Checks, StopInv, Numbered, TurnTo
<1>3. turn.epochs[r.on] \in Nat /\ turn'.epochs[r.on] \in Nat
      /\ q.through \in 0 .. seq /\ seq \in Nat
  BY <1>2 DEF StopInv, Numbered, TurnTo, CoversTo
<1>4. q.on \in Unseen \/ q.through < turn.epochs[q.on]
  BY <1>1 DEF StopInv, StaleShows
<1> QED
  BY <1>1, <1>3, <1>4

\* A check covers no more than what was recorded before it.
LEMMA BegunTyped == ASSUME StopInv PROVE Begun \subseteq CoversTo(seq)
  BY DEF Begun, Checks, StopInv, Numbered, TurnTo

\* Every step leaves a stale check visible.
LEMMA StaleStep ==
  ASSUME StopGateAssumption, StopInv, Numbered', StopNext
  PROVE  StaleShows'
<1>0. /\ turn \in TurnTo(seq) /\ seq \in Nat /\ call \in [Calls -> CallTo(seq)]
      /\ turn.epochs \in [Targets -> 0 .. seq]
  BY DEF StopInv, Numbered, TurnTo
<1>1. ASSUME NEW c \in Calls, NEW w \in Work, PreTool(c, w)
      PROVE  StaleShows'
  <2>1. \A t \in Targets : turn'.epochs[t] >= turn.epochs[t]
    <3>1. CASE w.kind = "mutate"
      <4>1. turn'.epochs = [turn.epochs EXCEPT ![w.on] = seq + 1]
        BY <1>0, <1>1, <3>1 DEF PreTool, Tick, TurnTo
      <4> QED
        BY <1>0, <4>1
    <3>2. CASE w.kind # "mutate"
      <4>1. turn'.epochs = turn.epochs
        BY <1>0, <1>1, <3>2 DEF PreTool, TurnTo
      <4> QED
        BY <1>0, <4>1
    <3> QED
      BY <3>1, <3>2
  <2>2. \A t \in Targets : t \in Unseen => t \in Unseen'
    BY <1>0, <1>1 DEF PreTool, Unseen
  <2>3. turn'.results = turn.results
    BY <1>0, <1>1 DEF PreTool, TurnTo
  <2>4. \A d \in Calls \ {c} : call'[d] = call[d]
    BY <1>0, <1>1 DEF PreTool
  <2>5. w.kind = "check" => call'[c].covers.stale = FALSE
    BY <1>0, <1>1 DEF PreTool
  <2>6. \A r \in Begun' : r.stale => r \in Begun
    BY <1>0, <1>1, <2>3, <2>4, <2>5 DEF Begun, Checks, PreTool
  <2>7. \A r \in Begun' : r.stale /\ r.on \in Targets =>
          \E q \in Begun : q.stale /\ q.on = r.on /\ q.through = r.through
    BY <2>6
  <2> QED
    BY <2>1, <2>2, <2>7, ShowsKept
<1>2. ASSUME NEW c \in Calls, Effect(c)
      PROVE  StaleShows'
  <2> DEFINE w == call[c].work
  <2>1. \A d \in Calls : call'[d].at = (IF d = c THEN "ended" ELSE call[d].at)
                         /\ call'[d].work = call[d].work
                         /\ call'[d].covers = (IF d = c THEN call[d].covers
                                              ELSE Stale(call[d].covers, w))
    BY <1>0, <1>2 DEF Effect, CallTo
  <2>2. Unseen' = Unseen /\ Checks' = Checks
    BY <1>2, <2>1 DEF Unseen, Checks, Effect
  <2>3. turn'.epochs = turn.epochs /\ turn'.results = {Stale(r, w) : r \in turn.results}
    BY <1>0, <1>2 DEF Effect, TurnTo
  <2>4. w.kind = "mutate" => w.on \in Unseen
    BY <1>2 DEF Effect, Unseen, Object
  <2>5. \A r \in Begun' : r \in Begun \/ \E q \in Begun : r = Stale(q, w)
    BY <2>1, <2>2, <2>3 DEF Begun, Checks
  <2>6. \A q \in Begun : /\ Stale(q, w).on = q.on /\ Stale(q, w).through = q.through
                         /\ Stale(q, w).stale =>
                              q.stale \/ (w.kind = "mutate" /\ q.on = w.on)
    <3> SUFFICES ASSUME NEW q \in Begun
                 PROVE  /\ Stale(q, w).on = q.on /\ Stale(q, w).through = q.through
                        /\ Stale(q, w).stale =>
                             q.stale \/ (w.kind = "mutate" /\ q.on = w.on)
      OBVIOUS
    <3>1. q \in CoversTo(seq)
      BY BegunTyped
    <3> QED
      BY <3>1 DEF Stale, CoversTo
  <2>7. \A r \in Begun' : r.stale =>
          r.on \in Unseen' \/ \E q \in Begun : q.stale /\ q.on = r.on
          /\ q.through = r.through
    BY <2>2, <2>4, <2>5, <2>6
  <2>8. \A t \in Targets : turn'.epochs[t] >= turn.epochs[t]
    BY <1>0, <2>3
  <2> QED
    BY <2>2, <2>7, <2>8, ShowsKept
<1>3. ASSUME NEW c \in Calls, NEW i \in BOOLEAN, NEW s \in BOOLEAN, PostTool(c, i, s)
      PROVE  StaleShows'
  <2> DEFINE w == call[c].work
  <2>1. w \in Work /\ call[c].at = "ended"
    BY <1>3 DEF PostTool, StopInv, Numbered
  <2>2. \A d \in Calls \ {c} : call'[d] = call[d]
    BY <1>0, <1>3 DEF PostTool
  <2>3. call'[c].at = "idle"
    BY <1>0, <1>3 DEF PostTool, Idle
  <2>4. /\ \A t \in Targets : turn'.epochs[t] >= turn.epochs[t]
        /\ w.kind = "mutate" /\ w.on \in Targets => turn'.epochs[w.on] > seq
        /\ \A r \in turn'.results :
             r \in turn.results \/ (w.kind = "check" /\ r = call[c].covers)
    <3>1. CASE w.kind \in {"edit", "ui"}
      <4>1. turn'.epochs = turn.epochs /\ turn'.results = turn.results
        BY <1>0, <1>3, <3>1 DEF PostTool, Changed, TurnTo
      <4> QED
        BY <1>0, <3>1, <4>1
    <3>2. CASE w.kind = "mutate"
      <4>1. turn' = [turn EXCEPT !.epochs = [@ EXCEPT ![w.on] = seq'], !.incomplete = i]
            /\ seq' = seq + 1
        BY <1>3, <3>2 DEF PostTool, Remutated, Tick
      <4> QED
        BY <1>0, <3>2, <4>1 DEF TurnTo
    <3>3. CASE w.kind \notin {"edit", "ui", "mutate"}
      <4>1. w.kind = "check"
        BY <2>1, <3>3 DEF StopGateAssumption
      <4> QED
        <5>1. /\ turn'.epochs = turn.epochs
              /\ turn'.results \in {turn.results, turn.results \cup {call[c].covers}}
          BY <1>0, <1>3, <3>3, <4>1 DEF PostTool, TurnTo
        <5> QED
          BY <1>0, <4>1, <5>1
    <3> QED
      BY <3>1, <3>2, <3>3
  <2>5. \A r \in Begun' : r \in Begun
    BY <2>1, <2>2, <2>3, <2>4 DEF Begun, Checks
  <2>6. \A t \in Targets : t \in Unseen => t \in Unseen' \/ turn'.epochs[t] > seq
    <3> SUFFICES ASSUME NEW t \in Targets, t \in Unseen, t \notin Unseen'
                 PROVE  turn'.epochs[t] > seq
      OBVIOUS
    <3>1. lost \ {Object(w)} \subseteq lost'
      BY <1>3 DEF PostTool, Object
    <3>2. t = Object(w)
      BY <2>2, <3>1 DEF Unseen
    <3>3. w.kind = "mutate" /\ w.on = t
      BY <2>1, <3>2 DEF Object, StopGateAssumption
    <3> QED
      BY <2>4, <3>3
  <2> QED
    BY <2>4, <2>5, <2>6, ShowsKept
<1>4. ASSUME NEW c \in Calls, Unobserved(c)
      PROVE  StaleShows'
  <2>1. turn' = turn /\ \A r \in Begun' : r \in Begun
    BY <1>0, <1>4 DEF Unobserved, Begun, Checks, Idle
  <2>2. \A t \in Targets : t \in Unseen => t \in Unseen'
    <3>1. call[c].work.kind = "check" => Object(call[c].work) \notin Targets
      BY DEF Object, StopGateAssumption
    <3> QED
      BY <1>0, <1>4, <3>1 DEF Unobserved, Unseen
  <2>3. \A t \in Targets : turn'.epochs[t] >= turn.epochs[t]
    BY <1>0, <2>1
  <2> QED
    BY <2>1, <2>2, <2>3, ShowsKept
<1>5. ASSUME NEW p \in BOOLEAN, LintBegins \/ LintEnds(p) \/ Finish(p) \/ Judge(p)
      PROVE  StaleShows'
  <2>1. call' = call /\ lost' = lost
    BY <1>5 DEF LintBegins, LintEnds, Finish, Judge, StopBlocks, DesignBlocks, Passes
  <2>2. turn'.epochs = turn.epochs /\ turn'.results = turn.results
    BY <1>0, <1>5 DEF LintBegins, LintEnds, Finish, Judge, StopBlocks, DesignBlocks,
       Passes,
                      Save, Counted, TurnTo
  <2>3. Unseen' = Unseen /\ Begun' = Begun
    BY <2>1, <2>2 DEF Unseen, Begun, Checks
  <2> QED
    BY <2>2, <2>3 DEF StaleShows, StopInv
<1> QED
  BY <1>1, <1>2, <1>3, <1>4, <1>5 DEF StopNext

\* Every step leaves a stale lint visible.
LEMMA LintStep ==
  ASSUME StopGateAssumption, StopInv, Numbered', StopNext
  PROVE  LintShows'
<1>0. /\ turn \in TurnTo(seq) /\ turn' \in TurnTo(seq') /\ seq \in Nat
      /\ call \in [Calls -> CallTo(seq)]
      /\ lint \in [seq : 0 .. turn.change, fresh : BOOLEAN] \cup {None}
      /\ turn.change \in 0 .. seq /\ turn.check \in 0 .. seq
  BY DEF StopInv, Numbered, TurnTo
<1>1. ASSUME "ui" \in Unseen => "ui" \in Unseen',
             turn'.passed = turn.passed, turn'.fresh = turn.fresh,
             turn'.check = turn.check, turn'.change = turn.change, lint' = lint
      PROVE  LintShows'
  BY <1>1 DEF LintShows, StopInv
<1>2. ASSUME NEW c \in Calls, NEW w \in Work, PreTool(c, w)
      PROVE  LintShows'
  <2>2. "ui" \in Unseen => "ui" \in Unseen'
    BY <1>0, <1>2 DEF PreTool, Unseen
  <2>3. /\ turn'.passed = turn.passed /\ turn'.fresh = turn.fresh
        /\ turn'.check = turn.check /\ turn'.change = turn.change
    BY <1>0, <1>2 DEF PreTool, TurnTo
  <2> QED
    BY <1>1, <1>2, <2>2, <2>3 DEF PreTool
<1>3. ASSUME NEW c \in Calls, Effect(c)
      PROVE  LintShows'
  <2> DEFINE w == call[c].work
  <2>1. \A d \in Calls :
          call[d].at # "idle" => call'[d].at # "idle" /\ call'[d].work = call[d].work
    BY <1>0, <1>3 DEF Effect, CallTo
  <2>2. Unseen \subseteq Unseen' /\ (w.kind = "ui" => "ui" \in Unseen')
    <3>1. lost' = lost
          /\ \A d \in Calls : call[d].at # "idle" => call'[d].at # "idle"
      BY <1>3, <2>1 DEF Effect
    <3>2. Unseen \subseteq Unseen'
      BY <2>1, <3>1 DEF Unseen
    <3>3. w.kind = "ui" => "ui" \in Unseen
      BY <1>3 DEF Effect, Unseen, Object
    <3> QED
      BY <3>2, <3>3
  <2>3. /\ turn'.passed = turn.passed /\ turn'.check = turn.check
        /\ turn'.change = turn.change
        /\ turn'.fresh = (turn.fresh /\ w.kind # "ui")
    BY <1>0, <1>3 DEF Effect, TurnTo
  <2>4. /\ lint = None => lint' = None
        /\ lint # None => /\ lint'.seq = lint.seq
                          /\ lint'.fresh = (lint.fresh /\ w.kind # "ui")
    BY <1>0, <1>3 DEF Effect
  <2> QED
    BY <2>2, <2>3, <2>4 DEF LintShows, StopInv
<1>4. ASSUME NEW c \in Calls, NEW i \in BOOLEAN, NEW s \in BOOLEAN, PostTool(c, i, s)
      PROVE  LintShows'
  <2> DEFINE w == call[c].work
  <2>1. w \in Work /\ lint' = lint
    BY <1>4 DEF PostTool, StopInv, Numbered
  <2>2. CASE w.kind = "ui"
    <3>1. turn' = [Changed(w) EXCEPT !.incomplete = i] /\ seq' = seq + 1
      BY <1>4, <2>2 DEF PostTool, Tick
    <3>2. turn'.passed = FALSE /\ turn'.change = seq + 1
      BY <1>0, <2>2, <3>1 DEF Changed, TurnTo
    <3>3. lint # None => lint.seq <= seq /\ lint.seq \in Nat
      BY <1>0
    <3> QED
      BY <1>0, <2>1, <3>2, <3>3 DEF LintShows
  <2>3. CASE w.kind # "ui"
    <3>1. Object(w) # "ui"
      BY <2>1, <2>3 DEF Object, StopGateAssumption
    <3>2. lost \ {Object(w)} \subseteq lost' /\ \A d \in Calls \ {c} : call'[d] = call[d]
      BY <1>0, <1>4 DEF PostTool, Object
    <3>3. "ui" \in Unseen => "ui" \in Unseen'
      BY <3>1, <3>2 DEF Unseen
    <3>4. /\ turn'.passed = turn.passed /\ turn'.fresh = turn.fresh
          /\ turn'.check = turn.check /\ turn'.change = turn.change
      BY <1>0, <1>4, <2>3 DEF PostTool, Changed, Remutated, TurnTo
    <3> QED
      BY <1>1, <2>1, <3>3, <3>4
  <2> QED
    BY <2>2, <2>3
<1>5. ASSUME NEW c \in Calls, Unobserved(c)
      PROVE  LintShows'
  <2>1. call[c].work.kind = "check" => Object(call[c].work) # "ui"
    BY DEF Object
  <2>2. "ui" \in Unseen => "ui" \in Unseen'
    BY <1>0, <1>5, <2>1 DEF Unobserved, Unseen
  <2> QED
    BY <1>1, <1>5, <2>2 DEF Unobserved
<1>6. ASSUME NEW p \in BOOLEAN, Finish(p) \/ Judge(p)
      PROVE  LintShows'
  <2>1. call' = call /\ lost' = lost /\ lint' = lint
    BY <1>6 DEF Finish, Judge, StopBlocks, DesignBlocks, Passes
  <2>2. /\ turn'.passed = turn.passed /\ turn'.fresh = turn.fresh
        /\ turn'.check = turn.check /\ turn'.change = turn.change
    BY <1>0, <1>6 DEF Finish, Judge, StopBlocks, DesignBlocks, Passes, Save, Counted,
       TurnTo
  <2> QED
    BY <1>1, <2>1, <2>2 DEF Unseen
<1>7. CASE LintBegins
  BY <1>0, <1>7 DEF LintBegins, LintShows, StopInv, Unseen
<1>8. ASSUME NEW p \in BOOLEAN, LintEnds(p)
      PROVE  LintShows'
  <2>1. Unseen' = Unseen
    BY <1>8 DEF LintEnds, Unseen
  <2>2. CASE turn.open /\ LintCurrent
    <3>1. turn'.fresh = lint.fresh /\ turn'.change = turn.change /\ lint.seq = turn.change
      BY <1>0, <1>8, <2>2 DEF LintEnds, LintCurrent, TurnTo
    <3>2. ~lint.fresh => "ui" \in Unseen
      BY <1>0, <1>8, <3>1 DEF LintEnds, LintShows, StopInv
    <3> QED
      BY <1>8, <2>1, <3>1, <3>2 DEF LintEnds, LintShows
  <2>3. CASE ~(turn.open /\ LintCurrent)
    BY <1>8, <2>1, <2>3 DEF LintEnds, LintShows, StopInv
  <2> QED
    BY <2>2, <2>3
<1> QED
  BY <1>2, <1>3, <1>4, <1>5, <1>6, <1>7, <1>8 DEF StopNext

\* A call makes two numbered events at most, a lint one.
LEMMA BudgetStep ==
  ASSUME StopGateAssumption, StopInv, StopNext
  PROVE  Budget'
<1>0. /\ call \in [Calls -> CallTo(seq)] /\ seq \in Nat /\ calls \in Nat /\ lints \in Nat
      /\ IsFiniteSet(Working) /\ Cardinality(Working) \in Nat
      /\ seq + Cardinality(Working) <= 2 * calls + lints
  BY FS_CardinalityType DEF StopInv, Numbered, Budget
<1>1. ASSUME NEW c \in Calls, NEW w \in Work, PreTool(c, w)
      PROVE  Budget'
  <2>1. Working' = Working \cup {c} /\ c \notin Working
    BY <1>0, <1>1 DEF PreTool, Working
  <2>2. IsFiniteSet(Working') /\ Cardinality(Working') = Cardinality(Working) + 1
    BY <1>0, <2>1, FS_AddElement
  <2>3. seq' <= seq + 1 /\ seq' \in Nat /\ calls' = calls + 1 /\ lints' = lints
    BY <1>0, <1>1 DEF PreTool, Tick
  <2> QED
    BY <1>0, <2>2, <2>3 DEF Budget
<1>2. ASSUME NEW c \in Calls, Effect(c)
      PROVE  Budget'
  <2>1. Working' = Working
    BY <1>0, <1>2 DEF Effect, Working, CallTo
  <2> QED
    BY <1>0, <1>2, <2>1 DEF Effect, bounds, Budget
<1>3. ASSUME NEW c \in Calls, Unobserved(c) \/ \E i, s \in BOOLEAN : PostTool(c, i, s)
      PROVE  Budget'
  <2>1. Working' = Working \ {c} /\ c \in Working
    <3>1. call[c].at = "ended" /\ call' = [call EXCEPT ![c] = Idle]
      BY <1>3 DEF Unobserved, PostTool
    <3> QED
      BY <1>0, <3>1 DEF Working, Idle
  <2>2. IsFiniteSet(Working') /\ Cardinality(Working') = Cardinality(Working) - 1
    BY <1>0, <2>1, FS_RemoveElement
  <2>3. seq' \in {seq, seq + 1} /\ calls' = calls /\ lints' = lints
    BY <1>3 DEF Unobserved, PostTool, Tick, bounds
  <2> QED
    BY <1>0, <2>2, <2>3 DEF Budget
<1>4. ASSUME NEW p \in BOOLEAN, LintBegins \/ LintEnds(p) \/ Finish(p) \/ Judge(p)
      PROVE  Budget'
  <2>1. call' = call /\ calls' = calls
    BY <1>4 DEF LintBegins, LintEnds, Finish, Judge, StopBlocks, DesignBlocks, Passes,
       bounds
  <2>2. (seq' = seq /\ lints' = lints) \/ (seq' = seq + 1 /\ lints' = lints + 1)
    BY <1>4 DEF LintBegins, LintEnds, Finish, Judge, StopBlocks, DesignBlocks, Passes,
       bounds, Tick
  <2>3. Working' = Working
    BY <2>1 DEF Working
  <2> QED
    BY <1>0, <2>1, <2>2, <2>3 DEF Budget
<1> QED
  BY <1>1, <1>2, <1>3, <1>4 DEF StopNext

\* Every step keeps the invariant of the Stop gate.
LEMMA StopStep ==
  ASSUME StopGateAssumption, StopInv, [StopNext]_stopVars
  PROVE  StopInv'
<1>1. CASE UNCHANGED stopVars
  BY <1>1 DEF stopVars, StopInv, Numbered, StaleShows, LintShows, Budget, Begun,
     Checks, Working, Unseen
<1>2. CASE StopNext
  <2>1. Numbered'
    BY <1>2, PreToolNumbered, EffectNumbered, PostToolNumbered, UnobservedNumbered,
       RestNumbered DEF StopNext
  <2> QED
    BY <1>2, <2>1, StaleStep, LintStep, BudgetStep DEF StopInv
<1> QED
  BY <1>1, <1>2

\* Every variable of the Stop gate keeps its type: with it, neither Stop nor
\* the design gate blocks a turn more often than its cap.
THEOREM StopTypes == ASSUME StopGateAssumption PROVE StopSpec => []StopTypeOK
<1>1. ASSUME StopInv PROVE StopTypeOK
  <2>1. Cardinality(Working) \in Nat /\ seq \in Nat /\ calls \in 0 .. MaxCalls
        /\ lints \in 0 .. MaxLints
    BY <1>1, FS_CardinalityType DEF StopInv, Numbered, Budget
  <2>2. seq <= MaxSeq /\ MaxSeq \in Nat
    BY <1>1, <2>1 DEF StopInv, Budget, MaxSeq, StopGateAssumption
  <2>3. TurnTo(seq) \subseteq TurnTo(MaxSeq) /\ CallTo(seq) \subseteq CallTo(MaxSeq)
    BY <2>1, <2>2, NumbersGrow
  <2>4. CoversTo(MaxSeq) = Covers
    BY DEF CoversTo, Covers
  <2>5. turn \in TurnTo(MaxSeq) /\ call \in [Calls -> CallTo(MaxSeq)]
        /\ lint \in [seq : 0 .. MaxSeq, fresh : BOOLEAN] \cup {None}
    <3>1. turn.change \in 0 .. seq
      BY <1>1 DEF StopInv, Numbered, TurnTo
    <3> QED
      BY <1>1, <2>1, <2>2, <2>3, <3>1 DEF StopInv, Numbered
  <2> QED
    BY <1>1, <2>1, <2>2, <2>4, <2>5 DEF StopInv, Numbered, StopTypeOK, TurnTo, CallTo
<1> QED
  BY <1>1, NumberedInit, StopStep, PTL DEF StopSpec

\* A Stop that passes a turn on its evidence has, for each target changed in
\* it and observed, a check that began after the last change, and for changed
\* UI files such a lint.
THEOREM EvidenceHolds == ASSUME StopGateAssumption PROVE StopSpec => EvidenceIsCurrent
<1>1. ASSUME StopInv, [StopNext]_stopVars, ~released, released'
      PROVE  /\ \A t \in Targets \ Unseen :
                  turn.epochs[t] > 0 => \E r \in turn.results : r.on = t /\ ~r.stale
             /\ turn.change > 0 /\ "ui" \notin Unseen => turn.fresh
  <2>1. PICK m \in BOOLEAN : Passes(m) /\ Allowed(m) /\ DesignOk
    BY <1>1 DEF StopNext, stopVars, PreTool, Effect, Unobserved, PostTool, LintBegins,
       LintEnds,
                Finish, Judge, StopBlocks, DesignBlocks, Passes
  <2>2. turn.epochs \in [Targets -> 0 .. seq] /\ turn.change \in Nat
        /\ turn.check \in Nat /\ seq \in Nat
    BY <1>1 DEF StopInv, Numbered, TurnTo
  <2>3. ASSUME NEW t \in Targets \ Unseen, turn.epochs[t] > 0
        PROVE  \E r \in turn.results : r.on = t /\ ~r.stale
    <3>1. PICK r \in turn.results : r.on = t /\ r.through >= turn.epochs[t]
      BY <2>1, <2>2, <2>3 DEF Allowed, HasChanged, Verified, TargetVerified
    <3>2. r \in Begun /\ r.through \in Nat
      BY <1>1, BegunTyped DEF Begun, CoversTo
    <3> QED
      BY <1>1, <2>2, <3>1, <3>2 DEF StopInv, StaleShows
  <2>4. turn.change > 0 /\ "ui" \notin Unseen => turn.fresh
    BY <1>1, <2>1, <2>2 DEF DesignOk, StopInv, LintShows
  <2> QED
    BY <2>3, <2>4
<1>2. StopInv /\ [StopNext]_stopVars =>
        [~released /\ released' =>
           /\ \A t \in Targets \ Unseen :
                turn.epochs[t] > 0 => \E r \in turn.results : r.on = t /\ ~r.stale
           /\ turn.change > 0 /\ "ui" \notin Unseen => turn.fresh]_stopVars
  BY <1>1
<1> QED
  BY <1>2, NumberedInit, StopStep, PTL DEF StopSpec, EvidenceIsCurrent

-----------------------------------------------------------------------------
(* The turns of a session.                                                 *)

\* A prompt's hook is alone but for the end of the session; a tool's hook that
\* promotes holds the claim.
Alone ==
  /\ \A h \in Runs : frame[h].at \in {"promote", "persist"} <=> claim = h
  /\ \A h \in Runs :
       /\ Doing(h, "turn") => frame[h].event # "end"
       /\ frame[h].at \in {"clean", "unlock", "forget"} => frame[h].event = "end"
       /\ frame[h].at \in {"remember", "open"} => frame[h].event = "prompt"
       /\ frame[h].at \in {"claim", "promote", "persist", "run"} => frame[h].event = "tool"
  /\ \A g, h \in Runs :
       g # h /\ ~Doing(g, "idle") /\ ~Doing(h, "idle") /\ frame[g].event = "prompt" =>
         frame[h].event = "end"

Remembers(n) == remembered # None => remembered.prompt = n

\* What a hook with a prompt or a quick call knows of its turn.
Knows(h) ==
  /\ ~Doing(h, "idle") /\ frame[h].event = "prompt" =>
       /\ frame[h].prompt = promptCount /\ promptCount \in Prompts
       /\ opened[promptCount] = 0
       /\ IF Doing(h, "open") THEN Remembers(promptCount) /\ (remembered # None => remembered.mode = "normal")
          ELSE remembered # None => remembered.prompt < promptCount
  /\ frame[h].at \in {"claim", "promote", "persist"} =>
       frame[h].prompt \in Prompts /\ Remembers(frame[h].prompt)
  /\ frame[h].at \in {"promote", "persist"} => remembered # None /\ remembered.mode = "quick"
  /\ Doing(h, "persist") /\ mishaps = 0 => opened[frame[h].prompt] = 1

\* How often the turn of a prompt is opened.
Counts ==
  /\ \A n \in Prompts : opened[n] <= 1 + mishaps /\ (n > promptCount => opened[n] = 0)
  /\ remembered # None =>
       /\ remembered.prompt <= promptCount
       /\ remembered.mode = "quick" /\ (\A h \in Runs : ~Doing(h, "persist")) =>
            opened[remembered.prompt] <= mishaps
       /\ remembered.mode = "normal" /\ mishaps = 0 /\ (\A h \in Runs : ~Doing(h, "open")) =>
            opened[remembered.prompt] = 1

SessionInv == SessionTypeOK /\ Alone /\ (\A h \in Runs : Knows(h)) /\ Counts

LEMMA FreeIsFrame ==
  ASSUME SessionAssumption
  PROVE  Free \in Frame /\ Free.at = "idle" /\ Free.event = "tool"
  BY DEF Free, Frame, Mode, SessionAssumption

\* A step of one hook that opens no turn and promotes none.
LEMMA QuietStep ==
  ASSUME SessionInv, NEW h \in Runs, NEW f \in Frame,
         frame' = [frame EXCEPT ![h] = f],
         UNCHANGED <<remembered, claim, promptCount, opened, mishaps>>,
         frame[h].at \notin {"promote", "persist", "open"},
         f.at \notin {"claim", "promote", "persist", "open"},
         \/ f.at = "idle"
         \/ /\ ~Doing(h, "idle") /\ f.event = frame[h].event
            /\ f.event = "prompt" => f.prompt = frame[h].prompt
            /\ f.at = "turn" => f.event # "end"
            /\ f.at \in {"clean", "unlock", "forget"} => f.event = "end"
            /\ f.at = "remember" => f.event = "prompt"
            /\ f.at = "run" => f.event = "tool"
  PROVE  Alone' /\ (\A g \in Runs : Knows(g)') /\ Counts'
<1>1. /\ frame'[h] = f /\ \A g \in Runs \ {h} : frame'[g] = frame[g]
      /\ frame \in [Runs -> Frame]
  BY DEF SessionInv, SessionTypeOK
<1>2. Alone'
  BY <1>1 DEF SessionInv, Alone, Doing
<1>3. ASSUME NEW g \in Runs PROVE Knows(g)'
  <2>1. Knows(g) /\ Alone
    BY DEF SessionInv
  <2>2. CASE g # h
    BY <1>1, <2>1, <2>2 DEF Knows, Remembers, Doing
  <2>3. CASE g = h
    BY <1>1, <2>1, <2>3 DEF Knows, Remembers, Doing
  <2> QED
    BY <2>2, <2>3
<1>4. Counts'
  <2>1. \A g \in Runs : (Doing(g, "persist")' <=> Doing(g, "persist")) /\ (Doing(g, "open")' <=> Doing(g, "open"))
    BY <1>1 DEF Doing
  <2>2. Counts
    BY DEF SessionInv
  <2> QED
    BY <2>1, <2>2 DEF Counts
<1> QED
  BY <1>2, <1>3, <1>4

LEMMA FrameStays ==
  ASSUME SessionInv, NEW h \in Runs
  PROVE  /\ frame[h] \in Frame /\ frame \in [Runs -> Frame]
         /\ record \in Roots \cup {"corrupt", None} /\ bound \in BOOLEAN
  BY DEF SessionInv, SessionTypeOK

\* Reading the record, binding the session, and leaving without it.
LEMMA BindingKeeps ==
  ASSUME SessionAssumption, SessionInv, NEW h \in Runs,
         \/ LoadSession(h) \/ WasBound(h) \/ (\E r \in Roots : Bind(h, r)) \/ Inactive(h)
         \/ ReadOnly(h) \/ RunTool(h)
  PROVE  SessionInv'
<1>1. PICK f \in Frame :
        /\ frame' = [frame EXCEPT ![h] = f]
        /\ f.at \notin {"claim", "promote", "persist", "open", "remember", "run"}
        /\ f.at = "idle" \/ (f.event = frame[h].event /\ f.prompt = frame[h].prompt)
        /\ f.at = "turn" => f.event # "end"
        /\ f.at \in {"clean", "unlock", "forget"} => f.event = "end"
  <2>1. CASE LoadSession(h)
    <3> DEFINE f == [frame[h] EXCEPT !.at = "was", !.seen = record]
    <3>1. f \in Frame /\ f.at = "was" /\ f.event = frame[h].event /\ f.prompt = frame[h].prompt
      BY FrameStays DEF Frame
    <3> QED
      BY <2>1, <3>1 DEF LoadSession
  <2>2. CASE WasBound(h)
    <3> DEFINE f == [frame[h] EXCEPT !.at = "bind", !.was = bound]
    <3>1. f \in Frame /\ f.at = "bind" /\ f.event = frame[h].event /\ f.prompt = frame[h].prompt
      BY FrameStays DEF Frame
    <3> QED
      BY <2>2, <3>1 DEF WasBound
  <2>3. ASSUME NEW r \in Roots, Bind(h, r) PROVE \E f \in Frame :
        /\ frame' = [frame EXCEPT ![h] = f]
        /\ f.at \notin {"claim", "promote", "persist", "open", "remember", "run"}
        /\ f.at = "idle" \/ (f.event = frame[h].event /\ f.prompt = frame[h].prompt)
        /\ f.at = "turn" => f.event # "end"
        /\ f.at \in {"clean", "unlock", "forget"} => f.event = "end"
    <3> DEFINE root == IF frame[h].env # None THEN frame[h].env ELSE record'
               f == [frame[h] EXCEPT !.at = AfterBoot(h, TRUE), !.root = root]
    <3>1. record' \in Roots
      BY <2>3 DEF Bind
    <3>2. root \in Roots \cup {None}
      BY <3>1, FrameStays DEF Frame
    <3>3. AfterBoot(h, TRUE) = IF frame[h].event = "end" THEN "clean" ELSE "turn"
      BY DEF AfterBoot
    <3>4. /\ f \in Frame /\ f.at = AfterBoot(h, TRUE)
          /\ f.event = frame[h].event /\ f.prompt = frame[h].prompt
      BY <3>2, <3>3, FrameStays DEF Frame
    <3>5. frame' = [frame EXCEPT ![h] = f]
      BY <2>3 DEF Bind
    <3> HIDE DEF f, root
    <3> QED
      BY <3>3, <3>4, <3>5
  <2>4. CASE Inactive(h)
    <3> DEFINE f == [frame[h] EXCEPT !.at = "clean"]
    <3>1. f \in Frame /\ f.at = "clean" /\ f.event = frame[h].event /\ f.prompt = frame[h].prompt
      BY FrameStays DEF Frame
    <3>2. \/ frame[h].event = "end" /\ frame' = [frame EXCEPT ![h] = f]
          \/ frame' = [frame EXCEPT ![h] = Free]
      BY <2>4 DEF Inactive, Proceeds, Leaves
    <3> HIDE DEF f
    <3> QED
      BY <3>1, <3>2, FreeIsFrame
  <2>5. CASE ReadOnly(h) \/ RunTool(h)
    BY <2>5, FreeIsFrame DEF ReadOnly, RunTool, Leaves
  <2> QED
    BY <2>1, <2>2, <2>3, <2>4, <2>5
<1>2. /\ UNCHANGED <<remembered, claim, promptCount, opened, mishaps, ended>>
      /\ frame[h].at \in {"load", "was", "bind", "claim", "run"}
  BY DEF LoadSession, WasBound, Bind, Inactive, ReadOnly, RunTool, Doing
<1>3. Alone' /\ (\A g \in Runs : Knows(g)') /\ Counts'
  BY <1>1, <1>2, QuietStep DEF Doing
<1>4. SessionTypeOK'
  <2>1. record' \in Roots \cup {"corrupt", None} /\ bound' \in BOOLEAN /\ latch' \in Roots \cup {None}
    BY DEF LoadSession, WasBound, Bind, Inactive, ReadOnly, RunTool, SessionInv, SessionTypeOK
  <2> QED
    BY <1>1, <1>2, <2>1 DEF SessionInv, SessionTypeOK
<1> QED
  BY <1>3, <1>4 DEF SessionInv

\* What the other steps leave of the types.
LEMMA TypeStep ==
  ASSUME SessionInv, NEW h \in Runs, NEW f \in Frame, frame' = [frame EXCEPT ![h] = f],
         UNCHANGED <<record, bound, latch>>, ended' \in BOOLEAN,
         promptCount' \in 0 .. MaxPromptCount, mishaps' \in 0 .. MaxMishaps,
         opened' \in [Prompts -> Nat], claim' \in Runs \cup {None},
         remembered' = None \/ remembered' \in [prompt : Prompts, mode : Mode]
  PROVE  SessionTypeOK' /\ frame'[h] = f /\ \A g \in Runs \ {h} : frame'[g] = frame[g]
  BY DEF SessionInv, SessionTypeOK

LEMMA StartKeeps ==
  ASSUME SessionAssumption, Orderly, SessionInv, NEW h \in Runs,
         NEW ev \in {"prompt", "tool", "end"}, NEW env \in Roots \cup {None}, Start(h, ev, env)
  PROVE  SessionInv'
<1> DEFINE f == [Free EXCEPT !.at = "load", !.event = ev, !.env = env, !.prompt = promptCount']
<1>1. /\ promptCount' \in 0 .. MaxPromptCount /\ promptCount \in 0 .. MaxPromptCount
      /\ promptCount' = IF ev = "prompt" THEN promptCount + 1 ELSE promptCount
      /\ ended' \in BOOLEAN
  BY DEF Start, SessionInv, SessionTypeOK, SessionAssumption
<1>2. f \in Frame /\ f.at = "load" /\ f.event = ev /\ f.prompt = promptCount'
  BY <1>1 DEF Free, Frame, Mode, SessionAssumption
<1>3. frame' = [frame EXCEPT ![h] = f]
  BY DEF Start
<1> HIDE DEF f
<1>4. /\ UNCHANGED <<record, bound, remembered, claim, opened, latch, mishaps>>
      /\ Doing(h, "idle") /\ ~Busy("prompt") /\ (ev = "prompt" => ~Busy("tool"))
  BY DEF Start
<1>5. /\ SessionTypeOK' /\ frame'[h] = f /\ \A g \in Runs \ {h} : frame'[g] = frame[g]
      /\ SessionTypeOK /\ Alone /\ Counts /\ \A g \in Runs : Knows(g)
  BY <1>1, <1>2, <1>3, <1>4, TypeStep DEF SessionInv, SessionTypeOK
<1>6. Alone'
  BY <1>2, <1>4, <1>5 DEF Alone, Doing, Busy, SessionTypeOK, Frame
<1>7. ASSUME NEW g \in Runs PROVE Knows(g)'
  <2>1. CASE g # h
    BY <1>4, <1>5, <2>1 DEF Knows, Remembers, Doing, Busy
  <2>2. CASE g = h
    <3>1. ev = "prompt" => promptCount' \in Prompts /\ opened[promptCount'] = 0
      BY <1>1, <1>5 DEF Prompts, Counts
    <3>2. remembered # None => remembered.prompt <= promptCount /\ remembered.prompt \in Nat
      BY <1>5 DEF Counts, SessionTypeOK, Prompts
    <3> QED
      BY <1>1, <1>2, <1>4, <1>5, <2>2, <3>1, <3>2 DEF Knows, Remembers, Doing
  <2> QED
    BY <2>1, <2>2
<1>8. Counts'
  <2>1. \A g \in Runs : (Doing(g, "persist")' <=> Doing(g, "persist")) /\ (Doing(g, "open")' <=> Doing(g, "open"))
    BY <1>2, <1>4, <1>5 DEF Doing
  <2>2. remembered # None => remembered.prompt \in Nat
    BY <1>5 DEF SessionTypeOK, Prompts
  <2> QED
    BY <1>1, <1>4, <1>5, <2>1, <2>2 DEF Counts, Prompts
<1> QED
  BY <1>5, <1>6, <1>7, <1>8 DEF SessionInv

\* A hook that only moves on, and one that leaves.
LEMMA Moves ==
  ASSUME SessionInv, NEW h \in Runs,
         NEW at \in {"remember", "open", "claim", "promote", "persist", "run", "unlock", "forget"},
         Proceeds(h, at)
  PROVE  \E f \in Frame : /\ f = [frame[h] EXCEPT !.at = at] /\ f.at = at
                          /\ f.event = frame[h].event /\ f.prompt = frame[h].prompt
                          /\ frame' = [frame EXCEPT ![h] = f]
<1> DEFINE f == [frame[h] EXCEPT !.at = at]
<1>1. f \in Frame /\ f.at = at /\ f.event = frame[h].event /\ f.prompt = frame[h].prompt
  BY FrameStays DEF Frame
<1> QED
  BY <1>1 DEF Proceeds

LEMMA LoadTurnKeeps ==
  ASSUME SessionAssumption, SessionInv, NEW h \in Runs, LoadTurn(h)
  PROVE  SessionInv'
<1> DEFINE mode == IF remembered = None THEN "normal" ELSE remembered.mode
           prompt == IF remembered = None THEN 0 ELSE remembered.prompt
           f == [frame[h] EXCEPT !.mode = mode, !.prompt = prompt,
                                 !.at = IF mode = "quick" THEN "claim" ELSE "run"]
<1>1. /\ UNCHANGED <<record, bound, remembered, claim, promptCount, opened, ended, latch, mishaps>>
      /\ Doing(h, "turn") /\ SessionTypeOK /\ Alone /\ Counts /\ \A g \in Runs : Knows(g)
  BY DEF LoadTurn, SessionInv
<1>2. CASE frame[h].event = "prompt"
  <2>1. Proceeds(h, "remember")
    BY <1>2 DEF LoadTurn
  <2>2. PICK m \in Frame : /\ m.at = "remember" /\ frame' = [frame EXCEPT ![h] = m]
                           /\ m.event = frame[h].event /\ m.prompt = frame[h].prompt
    BY <2>1, Moves
  <2>3. Alone' /\ (\A g \in Runs : Knows(g)') /\ Counts'
    BY <1>1, <1>2, <2>2, QuietStep DEF Doing
  <2>4. SessionTypeOK'
    BY <1>1, <2>2, TypeStep DEF SessionTypeOK
  <2> QED
    BY <2>3, <2>4 DEF SessionInv
<1>3. CASE frame[h].event # "prompt"
  <2>1. mode \in Mode /\ prompt \in 0 .. MaxPromptCount /\ (remembered # None => prompt \in Prompts)
    BY <1>1 DEF SessionTypeOK, Prompts, Mode, SessionAssumption
  <2>2. /\ f \in Frame /\ f.event = frame[h].event /\ f.prompt = prompt
        /\ f.at = IF mode = "quick" THEN "claim" ELSE "run"
    BY <2>1, FrameStays DEF Frame
  <2>3. frame' = [frame EXCEPT ![h] = f]
    BY <1>3 DEF LoadTurn
  <2>4. mode = "quick" => remembered # None
    OBVIOUS
  <2>5. remembered # None => remembered.prompt = prompt
    OBVIOUS
  <2> HIDE DEF f, mode, prompt
  <2>6. /\ SessionTypeOK' /\ frame'[h] = f /\ \A g \in Runs \ {h} : frame'[g] = frame[g]
    BY <1>1, <2>2, <2>3, TypeStep DEF SessionTypeOK
  <2>7. frame[h].event = "tool"
BY <1>1, <1>3, FrameStays DEF Alone, Frame
  <2>8. Alone'
    BY <1>1, <2>2, <2>6, <2>7 DEF Alone, Doing
  <2>9. ASSUME NEW g \in Runs PROVE Knows(g)'
    <3>1. CASE g # h
      BY <1>1, <2>6, <3>1 DEF Knows, Remembers, Doing
    <3>2. CASE g = h
      BY <1>1, <2>1, <2>2, <2>4, <2>5, <2>6, <2>7, <3>2 DEF Knows, Remembers, Doing
    <3> QED
      BY <3>1, <3>2
  <2>10. Counts'
    <3>1. \A g \in Runs : (Doing(g, "persist")' <=> Doing(g, "persist")) /\ (Doing(g, "open")' <=> Doing(g, "open"))
      BY <1>1, <2>2, <2>6 DEF Doing
    <3> QED
      BY <1>1, <3>1 DEF Counts
  <2> QED
    BY <2>6, <2>8, <2>9, <2>10 DEF SessionInv
<1> QED
  BY <1>2, <1>3

LEMMA RememberKeeps ==
  ASSUME SessionAssumption, SessionInv, NEW h \in Runs, NEW m \in Mode, RememberTurn(h, m)
  PROVE  SessionInv'
<1>1. /\ UNCHANGED <<record, bound, claim, promptCount, opened, ended, latch, mishaps>>
      /\ Doing(h, "remember") /\ claim = None /\ remembered' = [prompt |-> frame[h].prompt, mode |-> m]
      /\ SessionTypeOK /\ Alone /\ Counts /\ \A g \in Runs : Knows(g)
  BY DEF RememberTurn, SessionInv
<1>2. PICK f \in Frame :
        /\ frame' = [frame EXCEPT ![h] = f]
        /\ IF m = "quick" THEN f.at = "idle"
           ELSE f.at = "open" /\ f.event = frame[h].event /\ f.prompt = frame[h].prompt
  <2>1. CASE m = "quick"
    BY <2>1, FreeIsFrame DEF RememberTurn, Leaves
  <2>2. CASE m # "quick"
    BY <2>2, Moves DEF RememberTurn
  <2> QED
    BY <2>1, <2>2
<1>3. /\ frame[h].event = "prompt" /\ frame[h].prompt = promptCount /\ promptCount \in Prompts
      /\ opened[promptCount] = 0
  BY <1>1 DEF Alone, Knows, Doing
<1>4. /\ remembered'.prompt = promptCount /\ remembered'.mode = m
      /\ remembered' \in [prompt : Prompts, mode : Mode]
  BY <1>1, <1>3
<1>5. SessionTypeOK' /\ frame'[h] = f /\ \A g \in Runs \ {h} : frame'[g] = frame[g]
  BY <1>1, <1>2, <1>4, TypeStep DEF SessionTypeOK
<1>6. Alone'
  BY <1>1, <1>2, <1>3, <1>5 DEF Alone, Doing
<1>7. ASSUME NEW g \in Runs PROVE Knows(g)'
  <2>1. CASE g # h
    <3>1. Doing(g, "idle") \/ frame[g].event = "end"
      BY <1>1, <1>3, <2>1 DEF Alone, Doing
    <3>2. frame[g].at \notin {"claim", "promote", "persist"}
      BY <1>1, <3>1 DEF Alone, Doing
    <3> QED
      BY <1>5, <2>1, <3>1, <3>2 DEF Knows, Doing
  <2>2. CASE g = h
    BY <1>1, <1>2, <1>3, <1>4, <1>5, <2>2 DEF Knows, Remembers, Doing, Mode
  <2> QED
    BY <2>1, <2>2
<1>8. Counts'
  <2>1. m = "normal" => Doing(h, "open")'
    BY <1>2, <1>5 DEF Doing
  <2>2. promptCount \in Nat /\ mishaps \in Nat
    BY <1>1 DEF SessionTypeOK, SessionAssumption
  <2> QED
    BY <1>1, <1>3, <1>4, <2>1, <2>2 DEF Counts
<1> QED
  BY <1>5, <1>6, <1>7, <1>8 DEF SessionInv

\* A turn that is opened once more.
LEMMA OpensOnce ==
  ASSUME SessionInv, NEW n \in Prompts, Opens(n)
  PROVE  /\ opened' \in [Prompts -> Nat] /\ opened'[n] = opened[n] + 1
         /\ \A k \in Prompts \ {n} : opened'[k] = opened[k]
         /\ \A k \in Prompts : opened[k] \in Nat
<1>1. n # 0 /\ opened \in [Prompts -> Nat]
  BY DEF Prompts, SessionInv, SessionTypeOK
<1> QED
  BY <1>1 DEF Opens

LEMMA OpenKeeps ==
  ASSUME SessionAssumption, SessionInv, NEW h \in Runs, OpenTurn(h)
  PROVE  SessionInv'
<1>1. /\ UNCHANGED <<record, bound, remembered, claim, promptCount, ended, latch, mishaps>>
      /\ Doing(h, "open") /\ Opens(frame[h].prompt) /\ frame' = [frame EXCEPT ![h] = Free]
      /\ SessionTypeOK /\ Alone /\ Counts /\ \A g \in Runs : Knows(g)
  BY DEF OpenTurn, Leaves, SessionInv
<1>2. /\ frame[h].event = "prompt" /\ frame[h].prompt = promptCount /\ promptCount \in Prompts
      /\ opened[promptCount] = 0 /\ Remembers(promptCount) /\ (remembered # None => remembered.mode = "normal")
  BY <1>1 DEF Alone, Knows, Doing
<1>3. /\ opened' \in [Prompts -> Nat] /\ opened'[promptCount] = 1
      /\ \A k \in Prompts \ {promptCount} : opened'[k] = opened[k]
  BY <1>1, <1>2, OpensOnce
<1>4. SessionTypeOK' /\ frame'[h] = Free /\ \A g \in Runs \ {h} : frame'[g] = frame[g]
  BY <1>1, <1>3, TypeStep, FreeIsFrame DEF SessionTypeOK
<1>5. Alone'
  BY <1>1, <1>4, FreeIsFrame DEF Alone, Doing
<1>6. ASSUME NEW g \in Runs PROVE Knows(g)'
  <2>1. CASE g # h
    <3>1. Doing(g, "idle") \/ frame[g].event = "end"
      BY <1>1, <1>2, <2>1 DEF Alone, Doing
    <3>2. frame[g].at \notin {"claim", "promote", "persist"}
      BY <1>1, <3>1 DEF Alone, Doing
    <3> QED
      BY <1>4, <2>1, <3>1, <3>2 DEF Knows, Doing
  <2>2. CASE g = h
    BY <1>4, <2>2, FreeIsFrame DEF Knows, Doing
  <2> QED
    BY <2>1, <2>2
<1>7. Counts'
  <2>1. promptCount \in Nat /\ mishaps \in Nat
    BY <1>1 DEF SessionTypeOK, SessionAssumption
  <2>2. \A n \in Prompts : opened'[n] <= 1 + mishaps /\ (n > promptCount => opened'[n] = 0)
    BY <1>1, <1>2, <1>3, <2>1 DEF Counts, Prompts
  <2>3. remembered # None => remembered.prompt <= promptCount
    BY <1>1 DEF Counts
  <2> QED
    BY <1>1, <1>2, <1>3, <2>1, <2>2, <2>3 DEF Counts, Remembers
<1> QED
  BY <1>4, <1>5, <1>6, <1>7 DEF SessionInv

\* While a tool's hook is in its turn no prompt's hook is.
LEMMA ToolAlone ==
  ASSUME SessionInv, NEW h \in Runs, frame[h].at \in {"claim", "promote", "persist", "run"}
  PROVE  /\ frame[h].event = "tool"
         /\ \A g \in Runs : Doing(g, "idle") \/ frame[g].event # "prompt"
         /\ \A g \in Runs : ~Doing(g, "open")
  BY DEF SessionInv, Alone, Doing

LEMMA ClaimKeeps ==
  ASSUME SessionAssumption, SessionInv, NEW h \in Runs, Claim(h)
  PROVE  SessionInv'
<1>1. /\ UNCHANGED <<record, bound, remembered, promptCount, opened, ended, latch, mishaps>>
      /\ Doing(h, "claim") /\ claim = None
      /\ SessionTypeOK /\ Alone /\ Counts /\ \A g \in Runs : Knows(g)
  BY DEF Claim, SessionInv
<1>2. frame[h].event = "tool" /\ None \notin Runs
  BY <1>1, ToolAlone DEF Doing, SessionAssumption
<1>3. CASE remembered # None /\ remembered.mode = "quick"
  <2>1. claim' = h /\ Proceeds(h, "promote")
    BY <1>3 DEF Claim
  <2>2. PICK f \in Frame : /\ f.at = "promote" /\ f.event = frame[h].event /\ f.prompt = frame[h].prompt
                           /\ frame' = [frame EXCEPT ![h] = f]
    BY <2>1, Moves
  <2>3. SessionTypeOK' /\ frame'[h] = f /\ \A g \in Runs \ {h} : frame'[g] = frame[g]
    BY <1>1, <2>1, <2>2, TypeStep DEF SessionTypeOK
  <2>4. Alone'
    BY <1>1, <1>2, <2>1, <2>2, <2>3 DEF Alone, Doing
  <2>5. ASSUME NEW g \in Runs PROVE Knows(g)'
    <3>1. CASE g # h
      BY <1>1, <2>3, <3>1 DEF Knows, Remembers, Doing
    <3>2. CASE g = h
      BY <1>1, <1>2, <1>3, <2>2, <2>3, <3>2 DEF Knows, Remembers, Doing
    <3> QED
      BY <3>1, <3>2
  <2>6. Counts'
    <3>1. \A g \in Runs : (Doing(g, "persist")' <=> Doing(g, "persist")) /\ (Doing(g, "open")' <=> Doing(g, "open"))
      BY <1>1, <2>2, <2>3 DEF Doing
    <3> QED
      BY <1>1, <3>1 DEF Counts
  <2> QED
    BY <2>3, <2>4, <2>5, <2>6 DEF SessionInv
<1>4. CASE ~(remembered # None /\ remembered.mode = "quick")
  <2>1. UNCHANGED claim /\ Proceeds(h, "run")
    BY <1>4 DEF Claim
  <2>2. PICK f \in Frame : /\ f.at = "run" /\ f.event = frame[h].event /\ f.prompt = frame[h].prompt
                           /\ frame' = [frame EXCEPT ![h] = f]
    BY <2>1, Moves
  <2>3. Alone' /\ (\A g \in Runs : Knows(g)') /\ Counts'
    BY <1>1, <1>2, <2>1, <2>2, QuietStep DEF Doing
  <2>4. SessionTypeOK'
    BY <1>1, <2>1, <2>2, TypeStep DEF SessionTypeOK
  <2> QED
    BY <2>3, <2>4 DEF SessionInv
<1> QED
  BY <1>3, <1>4

\* Opening the turn under the claim, or failing to.
LEMMA PromoteKeeps ==
  ASSUME SessionAssumption, SessionInv, NEW h \in Runs, Promote(h) \/ PromoteFails(h)
  PROVE  SessionInv'
<1>1. /\ UNCHANGED <<record, bound, remembered, claim, promptCount, ended, latch>>
      /\ Doing(h, "promote") /\ Proceeds(h, "persist")
      /\ SessionTypeOK /\ Alone /\ Counts /\ \A g \in Runs : Knows(g)
      /\ mishaps \in Nat /\ mishaps' \in 0 .. MaxMishaps
  BY DEF Promote, PromoteFails, SessionInv, SessionTypeOK, SessionAssumption
<1>2. /\ claim = h /\ frame[h].event = "tool" /\ None \notin Runs
      /\ frame[h].prompt \in Prompts /\ Remembers(frame[h].prompt)
      /\ remembered # None /\ remembered.mode = "quick"
  BY <1>1, ToolAlone DEF Doing, SessionAssumption, Alone, Knows
<1>3. PICK f \in Frame : /\ f.at = "persist" /\ f.event = frame[h].event /\ f.prompt = frame[h].prompt
                         /\ frame' = [frame EXCEPT ![h] = f]
  BY <1>1, Moves
<1>4. \A g \in Runs : ~Doing(g, "persist") /\ ~Doing(g, "open")
  BY <1>1, <1>2, ToolAlone DEF Alone, Doing
<1>5. remembered.prompt = frame[h].prompt /\ opened[frame[h].prompt] <= mishaps
  BY <1>1, <1>2, <1>4 DEF Remembers, Counts
<1>6. /\ opened' \in [Prompts -> Nat]
      /\ \/ /\ opened'[frame[h].prompt] = opened[frame[h].prompt] + 1 /\ mishaps' = mishaps
            /\ \A k \in Prompts \ {frame[h].prompt} : opened'[k] = opened[k]
         \/ opened' = opened /\ mishaps' = mishaps + 1
  <2>1. CASE Promote(h)
    <3>1. Opens(frame[h].prompt) /\ mishaps' = mishaps
      BY <2>1 DEF Promote
    <3> QED
      BY <1>2, <3>1, OpensOnce
  <2>2. CASE PromoteFails(h)
    BY <1>1, <2>2 DEF PromoteFails, SessionTypeOK
  <2> QED
    BY <2>1, <2>2
<1>7. SessionTypeOK' /\ frame'[h] = f /\ \A g \in Runs \ {h} : frame'[g] = frame[g]
  <2>1. claim' \in Runs \cup {None} /\ ended' \in BOOLEAN /\ promptCount' \in 0 .. MaxPromptCount
    BY <1>1 DEF SessionTypeOK
  <2>2. remembered' = None \/ remembered' \in [prompt : Prompts, mode : Mode]
    BY <1>1 DEF SessionTypeOK
  <2> QED
    BY <1>1, <1>3, <1>6, <2>1, <2>2, TypeStep
<1>8. Alone'
  BY <1>1, <1>2, <1>3, <1>7 DEF Alone, Doing
<1>9. \A k \in Prompts : opened[k] \in Nat
  BY <1>1 DEF SessionTypeOK
<1>10. ASSUME NEW g \in Runs PROVE Knows(g)'
  <2>1. CASE g # h
    <3>1. Doing(g, "idle") \/ frame[g].event # "prompt"
      BY <1>1, ToolAlone DEF Doing
    <3> QED
      BY <1>1, <1>4, <1>7, <2>1, <3>1 DEF Knows, Remembers, Doing
  <2>2. CASE g = h
    <3>1. mishaps' = 0 => opened'[frame[h].prompt] = 1
      BY <1>1, <1>2, <1>5, <1>6, <1>9
    <3> QED
      BY <1>1, <1>2, <1>3, <1>7, <2>2, <3>1 DEF Knows, Remembers, Doing
  <2> QED
    BY <2>1, <2>2
<1>11. Counts'
  <2>1. \A n \in Prompts : opened'[n] <= 1 + mishaps'
    BY <1>1, <1>2, <1>5, <1>6, <1>9 DEF Counts
  <2>2. remembered.prompt <= promptCount /\ promptCount \in Nat
    BY <1>1, <1>2 DEF Counts, SessionTypeOK
  <2>3. ASSUME NEW n \in Prompts, n > promptCount PROVE opened'[n] = 0
    <3>1. frame[h].prompt \in Nat /\ frame[h].prompt <= promptCount /\ n \in Nat
      BY <1>2, <1>5, <2>2 DEF Prompts
    <3>2. n # frame[h].prompt
      BY <2>2, <2>3, <3>1
    <3>3. opened'[n] = opened[n]
      BY <1>6, <3>2
    <3> QED
      BY <1>1, <2>3, <3>3 DEF Counts
  <2>4. Doing(h, "persist")'
    BY <1>3, <1>7 DEF Doing
  <2> QED
    BY <1>1, <1>2, <2>1, <2>2, <2>3, <2>4 DEF Counts
<1> QED
  BY <1>7, <1>8, <1>10, <1>11 DEF SessionInv

\* The mode of the turn is written, or cannot be.
LEMMA PersistKeeps ==
  ASSUME SessionAssumption, SessionInv, NEW h \in Runs, Persist(h) \/ PersistFails(h)
  PROVE  SessionInv'
<1>1. /\ UNCHANGED <<record, bound, promptCount, opened, ended, latch>>
      /\ Doing(h, "persist") /\ claim' = None
      /\ SessionTypeOK /\ Alone /\ Counts /\ \A g \in Runs : Knows(g)
      /\ mishaps \in Nat /\ mishaps' \in 0 .. MaxMishaps
  BY DEF Persist, PersistFails, SessionInv, SessionTypeOK, SessionAssumption
<1>2. /\ claim = h /\ frame[h].event = "tool" /\ None \notin Runs
      /\ frame[h].prompt \in Prompts /\ Remembers(frame[h].prompt)
      /\ remembered # None /\ remembered.mode = "quick"
      /\ mishaps = 0 => opened[frame[h].prompt] = 1
  BY <1>1, ToolAlone DEF Doing, SessionAssumption, Alone, Knows
<1>3. PICK f \in Frame : /\ frame' = [frame EXCEPT ![h] = f]
                         /\ f.at = "idle" \/ (f.at = "run" /\ f.event = "tool")
  <2>1. CASE Persist(h)
    BY <1>2, <2>1, Moves DEF Persist
  <2>2. CASE PersistFails(h)
    BY <2>2, FreeIsFrame DEF PersistFails, Leaves
  <2> QED
    BY <2>1, <2>2
<1>4. \/ /\ remembered' = [remembered EXCEPT !.mode = "normal"] /\ mishaps' = mishaps
      \/ remembered' = remembered /\ mishaps' = mishaps + 1
  BY DEF Persist, PersistFails
<1>5. /\ remembered' \in [prompt : Prompts, mode : Mode]
      /\ remembered'.prompt = frame[h].prompt /\ remembered.prompt = frame[h].prompt
      /\ \/ remembered'.mode = "normal" /\ mishaps' = mishaps
         \/ remembered'.mode = "quick" /\ mishaps' = mishaps + 1
  BY <1>1, <1>2, <1>4 DEF SessionTypeOK, Remembers, Mode
<1>6. SessionTypeOK' /\ frame'[h] = f /\ \A g \in Runs \ {h} : frame'[g] = frame[g]
  <2>1. ended' \in BOOLEAN /\ promptCount' \in 0 .. MaxPromptCount /\ opened' \in [Prompts -> Nat]
    BY <1>1 DEF SessionTypeOK
  <2> QED
    BY <1>1, <1>3, <1>5, <2>1, TypeStep
<1>7. Alone'
  BY <1>1, <1>2, <1>3, <1>6 DEF Alone, Doing
<1>8. \A g \in Runs \ {h} : ~Doing(g, "persist") /\ ~Doing(g, "promote")
  BY <1>1, <1>2 DEF Alone, Doing
<1>9. \A g \in Runs : (Doing(g, "idle") \/ frame[g].event # "prompt") /\ ~Doing(g, "open")
  BY <1>1, ToolAlone DEF Doing
<1>10. ASSUME NEW g \in Runs PROVE Knows(g)'
  <2>1. CASE g # h
    <3>1. frame'[g] = frame[g] /\ frame[g].at \notin {"promote", "persist"}
      BY <1>6, <1>8, <2>1 DEF Doing
    <3>2. frame[g].at = "claim" => frame[g].prompt \in Prompts /\ remembered.prompt = frame[g].prompt
      BY <1>1, <1>2 DEF Knows, Remembers
    <3> QED
      BY <1>5, <1>9, <3>1, <3>2 DEF Knows, Remembers, Doing
  <2>2. CASE g = h
    BY <1>3, <1>6, <2>2 DEF Knows, Doing
  <2> QED
    BY <2>1, <2>2
<1>11. Counts'
  <2>1. \A k \in Prompts : opened[k] \in Nat /\ opened[k] <= 1 + mishaps
    BY <1>1 DEF SessionTypeOK, Counts
  <2>2. \A k \in Prompts : opened'[k] <= 1 + mishaps' /\ (k > promptCount' => opened'[k] = 0)
    <3>1. mishaps' = mishaps \/ mishaps' = mishaps + 1
      BY <1>4
    <3> QED
      BY <1>1, <2>1, <3>1 DEF Counts
  <2>3. remembered'.prompt <= promptCount'
    BY <1>1, <1>2, <1>5 DEF Counts
  <2>4. remembered'.mode = "quick" => opened'[remembered'.prompt] <= mishaps'
    BY <1>1, <1>2, <1>5, <2>1
  <2>5. remembered'.mode = "normal" /\ mishaps' = 0 => opened'[remembered'.prompt] = 1
    BY <1>1, <1>2, <1>5
  <2> QED
    BY <2>2, <2>3, <2>4, <2>5 DEF Counts
<1> QED
  BY <1>6, <1>7, <1>10, <1>11 DEF SessionInv

\* The files of the session are removed; nobody promotes then.
LEMMA CleanUpKeeps ==
  ASSUME SessionAssumption, SessionInv, NEW h \in Runs, CleanUp(h)
  PROVE  SessionInv'
<1>1. /\ UNCHANGED <<claim, promptCount, opened, ended, latch, mishaps>>
      /\ frame[h].at \in {"clean", "unlock", "forget"}
      /\ SessionTypeOK /\ Alone /\ Counts /\ \A g \in Runs : Knows(g)
  BY DEF CleanUp, Clean, SessionInv, Doing
<1>2. record' \in Roots \cup {"corrupt", None} /\ bound' \in BOOLEAN
  BY <1>1 DEF CleanUp, Clean, SessionTypeOK
<1>3. PICK f \in Frame : /\ frame' = [frame EXCEPT ![h] = f]
                         /\ f.at = "idle" \/ (f.at \in {"unlock", "forget"} /\ f.event = frame[h].event
                                             /\ f.prompt = frame[h].prompt)
  <2>1. Proceeds(h, "unlock") \/ Proceeds(h, "forget") \/ Leaves(h)
    BY DEF CleanUp, Clean
  <2> QED
    BY <2>1, Moves, FreeIsFrame DEF Leaves
<1>4. remembered' = remembered \/ (remembered' = None /\ claim = None)
  BY DEF CleanUp, Clean
<1>5. CASE remembered' = remembered
  <2>3. frame[h].event = "end"
    BY <1>1 DEF Alone
  <2>1. Alone' /\ (\A g \in Runs : Knows(g)') /\ Counts'
    BY <1>1, <1>3, <1>5, <2>3, QuietStep DEF Doing
  <2>2. SessionTypeOK'
    BY <1>1, <1>2, <1>3, <1>5 DEF SessionTypeOK
  <2> QED
    BY <2>1, <2>2 DEF SessionInv
<1>6. CASE remembered' = None /\ claim = None
  <2>1. frame'[h] = f /\ \A g \in Runs \ {h} : frame'[g] = frame[g]
    BY <1>1, <1>3 DEF SessionTypeOK
  <2>2. SessionTypeOK'
    BY <1>1, <1>2, <1>3, <1>6 DEF SessionTypeOK
  <2>3. Alone'
    BY <1>1, <1>3, <2>1 DEF Alone, Doing
  <2>4. \A g \in Runs : frame[g].at \notin {"promote", "persist"}
    BY <1>1, <1>6 DEF Alone, SessionAssumption
  <2>5. ASSUME NEW g \in Runs PROVE Knows(g)'
    <3>1. CASE g # h
      BY <1>1, <1>6, <2>1, <2>4, <3>1 DEF Knows, Remembers, Doing
    <3>2. CASE g = h
      BY <1>1, <1>3, <1>6, <2>1, <3>2 DEF Knows, Remembers, Doing
    <3> QED
      BY <3>1, <3>2
  <2>6. Counts'
    BY <1>1, <1>6 DEF Counts
  <2> QED
    BY <2>2, <2>3, <2>5, <2>6 DEF SessionInv
<1> QED
  BY <1>4, <1>5, <1>6

\* A hook dies, or the record is damaged.
LEMMA MishapKeeps ==
  ASSUME SessionAssumption, SessionInv, DamageRecord \/ \E h \in Runs : Die(h)
  PROVE  SessionInv'
<1>1. /\ UNCHANGED <<bound, remembered, promptCount, opened, ended, latch>>
      /\ SessionTypeOK /\ Alone /\ Counts /\ \A g \in Runs : Knows(g)
      /\ mishaps \in Nat /\ mishaps' \in 0 .. MaxMishaps /\ mishaps' = mishaps + 1
      /\ record' \in Roots \cup {"corrupt", None}
  BY DEF DamageRecord, Die, SessionInv, SessionTypeOK, SessionAssumption
<1>2. \A k \in Prompts : opened[k] \in Nat
  BY <1>1 DEF SessionTypeOK
<1>3. Counts'
  BY <1>1, <1>2 DEF Counts, SessionTypeOK
<1>4. CASE DamageRecord
  <2>1. UNCHANGED <<claim, frame>>
    BY <1>4 DEF DamageRecord
  <2>2. SessionTypeOK'
    BY <1>1, <2>1 DEF SessionTypeOK
  <2>3. Alone'
    BY <1>1, <2>1 DEF Alone, Doing
  <2>4. \A g \in Runs : Knows(g)'
    BY <1>1, <2>1 DEF Knows, Remembers, Doing
  <2> QED
    BY <1>3, <2>2, <2>3, <2>4 DEF SessionInv
<1>5. ASSUME NEW h \in Runs, Die(h) PROVE SessionInv'
  <2>1. /\ claim' = IF claim = h THEN None ELSE claim
        /\ frame' = [frame EXCEPT ![h] = Free] /\ record' = record
    BY <1>5 DEF Die, Leaves
  <2>2. /\ SessionTypeOK' /\ frame'[h] = Free /\ \A g \in Runs \ {h} : frame'[g] = frame[g]
    BY <1>1, <2>1, TypeStep, FreeIsFrame DEF SessionTypeOK
  <2>3. Alone'
    BY <1>1, <2>1, <2>2, FreeIsFrame DEF Alone, Doing, SessionAssumption
  <2>4. ASSUME NEW g \in Runs PROVE Knows(g)'
    <3>1. CASE g # h
      BY <1>1, <2>2, <3>1 DEF Knows, Remembers, Doing
    <3>2. CASE g = h
      BY <1>1, <2>2, <3>2, FreeIsFrame DEF Knows, Doing
    <3> QED
      BY <3>1, <3>2
  <2> QED
    BY <1>3, <2>2, <2>3, <2>4 DEF SessionInv
<1> QED
  BY <1>4, <1>5

LEMMA SessionStart ==
  ASSUME SessionAssumption, SessionInit
  PROVE  SessionInv
<1>1. SessionTypeOK
  <2>1. frame \in [Runs -> Frame]
    BY FreeIsFrame DEF SessionInit
  <2>2. promptCount \in 0 .. MaxPromptCount /\ opened \in [Prompts -> Nat] /\ mishaps \in 0 .. MaxMishaps
    BY DEF SessionInit, SessionAssumption
  <2> QED
    BY <2>1, <2>2 DEF SessionInit, SessionTypeOK
<1>2. Alone
  BY FreeIsFrame DEF SessionInit, Alone, Doing, SessionAssumption
<1>3. \A h \in Runs : Knows(h)
  BY FreeIsFrame DEF SessionInit, Knows, Doing
<1>4. Counts
  BY DEF SessionInit, Counts
<1> QED
  BY <1>1, <1>2, <1>3, <1>4 DEF SessionInv

LEMMA SessionStep ==
  ASSUME SessionAssumption, Orderly, SessionInv, [SessionNext]_sessionVars
  PROVE  SessionInv'
<1>1. CASE UNCHANGED sessionVars
  BY <1>1 DEF sessionVars, SessionInv, SessionTypeOK, Alone, Knows, Remembers, Counts, Doing
<1>2. ASSUME NEW h \in Runs, NEW ev \in {"prompt", "tool", "end"}, NEW env \in Roots \cup {None},
             Start(h, ev, env)
      PROVE  SessionInv'
  BY <1>2, StartKeeps
<1>3. ASSUME NEW h \in Runs,
             \/ LoadSession(h) \/ WasBound(h) \/ (\E r \in Roots : Bind(h, r)) \/ Inactive(h)
             \/ ReadOnly(h) \/ RunTool(h)
      PROVE  SessionInv'
  BY <1>3, BindingKeeps
<1>4. ASSUME NEW h \in Runs, LoadTurn(h) \/ (\E m \in Mode : RememberTurn(h, m)) \/ OpenTurn(h)
      PROVE  SessionInv'
  BY <1>4, LoadTurnKeeps, RememberKeeps, OpenKeeps
<1>5. ASSUME NEW h \in Runs, Claim(h) \/ Promote(h) \/ PromoteFails(h) \/ Persist(h) \/ PersistFails(h)
      PROVE  SessionInv'
  BY <1>5, ClaimKeeps, PromoteKeeps, PersistKeeps
<1>6. ASSUME NEW h \in Runs, CleanUp(h) PROVE SessionInv'
  BY <1>6, CleanUpKeeps
<1>7. ASSUME DamageRecord \/ \E h \in Runs : Die(h) PROVE SessionInv'
  BY <1>7, MishapKeeps
<1> QED
  BY <1>1, <1>2, <1>3, <1>4, <1>5, <1>6, <1>7 DEF SessionNext

\* Every variable of the session hooks keeps its type.
THEOREM SessionTypes ==
  ASSUME SessionAssumption, Orderly
  PROVE  SessionSpec => []SessionTypeOK
<1>1. SessionInit => SessionInv
  BY SessionStart
<1>2. SessionInv /\ [SessionNext]_sessionVars => SessionInv'
  BY SessionStep
<1>3. SessionInv => SessionTypeOK
  BY DEF SessionInv
<1> QED
  BY <1>1, <1>2, <1>3, PTL DEF SessionSpec

\* The turn of a prompt is opened at most once more than something failed, and
\* an ordinary turn is open once where nothing did, whichever of the calls of a
\* quick prompt runs first (promote_quick): for any hooks, prompts and faults,
\* if the host sends a prompt only when no tool call is in its hook.
THEOREM OpensTurnsOnce ==
  ASSUME SessionAssumption, Orderly
  PROVE  SessionSpec => []TurnsOpenOnce
<1>1. SessionInit => SessionInv
  BY SessionStart
<1>2. SessionInv /\ [SessionNext]_sessionVars => SessionInv'
  BY SessionStep
<1>3. SessionInv => TurnsOpenOnce
  BY DEF SessionInv, TurnsOpenOnce, Counts, SessionTypeOK, Mode
<1> QED
  BY <1>1, <1>2, <1>3, PTL DEF SessionSpec

-----------------------------------------------------------------------------
(* The root of a session.                                                  *)

\* Only the hook of its end ends a session.  Until then a record that is
\* there is the latch, and what a hook has read is the latch as well, or will
\* not be asked for any more.
Rooted ==
  ~ended =>
    /\ latch # None => bound
    /\ record \in Roots => record = latch
    /\ record = None => latch = None
    /\ record = "corrupt" => mishaps >= 1
    /\ \A h \in Runs :
         /\ Doing(h, "idle") \/ frame[h].event # "end"
         /\ frame[h].seen \in Roots => frame[h].seen = latch \/ (record \in Roots /\ mishaps = MaxMishaps)
         /\ Doing(h, "bind") /\ frame[h].event = "prompt" /\ ~frame[h].was => ~bound

\* A hook that is given no root is bound to the latch.
LEMMA BindsToLatch ==
  ASSUME SessionAssumption, SessionInv, Rooted, ~ended, NEW h \in Runs, NEW r \in Roots, Bind(h, r)
  PROVE  /\ record' \in Roots /\ record' = latch' /\ bound' = TRUE
         /\ record \in Roots \/ frame[h].env = None => latch' = latch \/ latch = None
         /\ record \in Roots => record' = record
<1>1. /\ r \in RootCandidates(h) /\ Doing(h, "bind")
      /\ record' = IF record \in Roots THEN record ELSE r
      /\ bound' = TRUE
      /\ latch' = IF record \in Roots \/ (latch # None /\ frame[h].env = None)
                  THEN latch ELSE record'
  BY DEF Bind
<1>2. CASE record \in Roots
  BY <1>1, <1>2 DEF Rooted
<1>3. CASE record \notin Roots /\ (latch = None \/ frame[h].env # None)
  BY <1>1, <1>3
<1>4. CASE record \notin Roots /\ latch # None /\ frame[h].env = None
  <2>1. frame[h].seen \in Roots
    <3>1. bound
      BY <1>4 DEF Rooted
    <3>2. frame[h].was \/ frame[h].event # "prompt"
      BY <1>1, <3>1 DEF Rooted
    <3> QED
      BY <1>1, <1>4, <3>2 DEF RootCandidates
  <2>2. r = latch
    BY <1>1, <1>4, <2>1 DEF RootCandidates, Rooted
  <2> QED
    BY <1>1, <1>4, <2>2
<1> QED
  BY <1>2, <1>3, <1>4

LEMMA RootedStart == ASSUME SessionAssumption, SessionInit PROVE Rooted
<1>1. \A h \in Runs : frame[h].at = "idle" /\ frame[h].seen \notin Roots
  BY DEF SessionInit, Free, SessionAssumption
<1> QED
  BY <1>1 DEF SessionInit, Rooted, SessionAssumption, Doing

\* A step that leaves the record alone, and reads nothing but it.
LEMMA RootedQuietly ==
  ASSUME SessionAssumption, SessionInv, Rooted, NEW h \in Runs, NEW f \in Frame,
         frame' = [frame EXCEPT ![h] = f],
         UNCHANGED <<record, bound, latch>>, ended => ended',
         mishaps' = mishaps \/ (mishaps < MaxMishaps /\ mishaps' = mishaps + 1),
         f.at = "idle" \/ f.event # "end" \/ ended',
         f.seen \in Roots => f.seen = frame[h].seen \/ f.seen = record,
         f.at # "bind" \/ f.was = bound
  PROVE  Rooted'
<1>1. /\ frame'[h] = f /\ \A g \in Runs \ {h} : frame'[g] = frame[g]
      /\ mishaps \in Nat /\ mishaps <= MaxMishaps /\ MaxMishaps \in Nat
  BY DEF SessionInv, SessionTypeOK, SessionAssumption
<1> QED
  BY <1>1 DEF Rooted, Doing

LEMMA RootedBind ==
  ASSUME SessionAssumption, MaxMishaps <= 1, SessionInv, Rooted,
         NEW h \in Runs, NEW r \in Roots, Bind(h, r)
  PROVE  Rooted'
<1> SUFFICES ASSUME ~ended' PROVE Rooted'
  BY DEF Rooted
<1> DEFINE root == IF frame[h].env # None THEN frame[h].env ELSE record'
           f == [frame[h] EXCEPT !.at = AfterBoot(h, TRUE), !.root = root]
<1>7. frame' = [frame EXCEPT ![h] = f]
  BY DEF Bind
<1>8. ~ended /\ mishaps' = mishaps /\ Doing(h, "bind")
  BY DEF Bind
<1> HIDE DEF f
<1>1. /\ ~ended /\ mishaps' = mishaps /\ frame' = [frame EXCEPT ![h] = f] /\ Doing(h, "bind")
      /\ mishaps \in Nat /\ mishaps <= MaxMishaps /\ MaxMishaps \in Nat
      /\ None \notin Roots /\ "corrupt" \notin Roots
      /\ record \in Roots \cup {"corrupt", None}
  BY <1>7, <1>8 DEF SessionInv, SessionTypeOK, SessionAssumption
<1>2. /\ f.event = frame[h].event /\ f.seen = frame[h].seen
      /\ f.at = IF frame[h].event = "end" THEN "clean" ELSE "turn"
  BY FrameStays DEF Frame, AfterBoot, f
<1>3. frame'[h] = f /\ \A g \in Runs \ {h} : frame'[g] = frame[g]
  BY <1>1, FrameStays
<1>4. /\ record' \in Roots /\ record' = latch' /\ bound' = TRUE
      /\ record \in Roots \/ frame[h].env = None => latch' = latch \/ latch = None
      /\ record \in Roots => record' = record
  BY <1>1, BindsToLatch
<1>5. ASSUME NEW g \in Runs, frame[g].seen \in Roots
      PROVE  frame[g].seen = latch' \/ mishaps = MaxMishaps
  <2>1. frame[g].seen = latch \/ (record \in Roots /\ mishaps = MaxMishaps)
    BY <1>1, <1>5 DEF Rooted
  <2>2. CASE latch' = latch
    BY <2>1, <2>2
  <2>3. CASE latch' # latch /\ latch = None
    BY <1>1, <1>5, <2>1, <2>3
  <2>4. CASE latch' # latch /\ latch # None
    <3>1. record = "corrupt"
      BY <1>1, <1>4, <2>4 DEF Rooted
    <3>2. mishaps >= 1
      BY <1>1, <3>1 DEF Rooted
    <3> QED
      BY <1>1, <3>2
  <2> QED
    BY <2>2, <2>3, <2>4
<1>6. ASSUME NEW g \in Runs
      PROVE  /\ Doing(g, "idle")' \/ frame'[g].event # "end"
             /\ frame'[g].seen \in Roots =>
                  frame'[g].seen = latch' \/ (record' \in Roots /\ mishaps' = MaxMishaps)
             /\ ~(Doing(g, "bind")' /\ frame'[g].event = "prompt" /\ ~frame'[g].was)
  <2>1. frame'[g].seen = frame[g].seen
    BY <1>2, <1>3
  <2>2. frame[g].event # "end" \/ Doing(g, "idle")
    BY <1>1 DEF Rooted
  <2>3. CASE g = h
    BY <1>1, <1>2, <1>3, <1>4, <1>5, <2>1, <2>2, <2>3 DEF Doing
  <2>4. CASE g # h
    <3>1. frame[h].event # "end"
      BY <1>1 DEF Rooted, Doing
    <3>2. ~(Doing(g, "bind") /\ frame[g].event = "prompt")
      BY <1>1, <2>4, <3>1 DEF SessionInv, Alone, Doing
    <3> QED
      BY <1>1, <1>3, <1>4, <1>5, <2>1, <2>2, <2>4, <3>2 DEF Doing
  <2> QED
    BY <2>3, <2>4
<1> QED
  BY <1>1, <1>4, <1>6 DEF Rooted

LEMMA RootedStep ==
  ASSUME SessionAssumption, Orderly, MaxMishaps <= 1, SessionInv, Rooted, [SessionNext]_sessionVars
  PROVE  Rooted'
<1>1. CASE UNCHANGED sessionVars
  <2>1. UNCHANGED <<record, bound, frame, ended, latch, mishaps>>
    BY <1>1 DEF sessionVars
  <2> QED
    BY <2>1 DEF Rooted, Doing
<1>2. ASSUME NEW h \in Runs, NEW r \in Roots, Bind(h, r) PROVE Rooted'
  BY <1>2, RootedBind
<1>3. ASSUME NEW h \in Runs, NEW ev \in {"prompt", "tool", "end"}, NEW env \in Roots \cup {None},
             Start(h, ev, env)
      PROVE  Rooted'
  <2> DEFINE f == [Free EXCEPT !.at = "load", !.event = ev, !.env = env, !.prompt = promptCount']
  <2>1. promptCount' \in 0 .. MaxPromptCount /\ (ended => ended') /\ (ev = "end" => ended')
    <3>1. /\ promptCount' = IF ev = "prompt" THEN promptCount + 1 ELSE promptCount
          /\ ev = "prompt" => promptCount < MaxPromptCount
          /\ ended' = (ev = "end") /\ ~ended
      BY <1>3, Zenon DEF Start
    <3>2. promptCount \in 0 .. MaxPromptCount /\ MaxPromptCount \in Nat
      BY DEF SessionInv, SessionTypeOK, SessionAssumption
    <3>3. promptCount' \in 0 .. MaxPromptCount
      BY <3>1, <3>2
    <3> QED
      BY <3>1, <3>3
  <2>2. f \in Frame /\ f.at = "load" /\ f.event = ev /\ f.seen \notin Roots
    BY <2>1 DEF Free, Frame, Mode, SessionAssumption
  <2>3. frame' = [frame EXCEPT ![h] = f] /\ UNCHANGED <<record, bound, latch, mishaps>>
    BY <1>3 DEF Start
  <2> HIDE DEF f
  <2> QED
    BY <2>1, <2>2, <2>3, RootedQuietly
<1>4. ASSUME NEW h \in Runs, LoadSession(h) PROVE Rooted'
  <2> DEFINE f == [frame[h] EXCEPT !.at = "was", !.seen = record]
  <2>1. f \in Frame /\ f.at = "was" /\ f.event = frame[h].event /\ f.seen = record
    BY FrameStays DEF Frame
  <2>2. /\ frame' = [frame EXCEPT ![h] = f] /\ UNCHANGED <<record, bound, latch, ended, mishaps>>
        /\ frame[h].at = "load"
    BY <1>4 DEF LoadSession, Doing
  <2> HIDE DEF f
  <2>3. f.event # "end" \/ ended'
    BY <2>1, <2>2 DEF Rooted, Doing
  <2> QED
    BY <2>1, <2>2, <2>3, RootedQuietly
<1>5. ASSUME NEW h \in Runs, WasBound(h) PROVE Rooted'
  <2> DEFINE f == [frame[h] EXCEPT !.at = "bind", !.was = bound]
  <2>1. f \in Frame /\ f.event = frame[h].event /\ f.seen = frame[h].seen /\ f.was = bound
    BY FrameStays DEF Frame
  <2>2. /\ frame' = [frame EXCEPT ![h] = f] /\ UNCHANGED <<record, bound, latch, ended, mishaps>>
        /\ frame[h].at = "was"
    BY <1>5 DEF WasBound, Doing
  <2> HIDE DEF f
  <2>3. f.event # "end" \/ ended'
    BY <2>1, <2>2 DEF Rooted, Doing
  <2> QED
    BY <2>1, <2>2, <2>3, RootedQuietly
<1>6. ASSUME NEW h \in Runs, NEW f \in Frame, frame' = [frame EXCEPT ![h] = f], ~Doing(h, "idle"),
             UNCHANGED <<record, bound, latch, ended>>,
             mishaps' = mishaps \/ (mishaps < MaxMishaps /\ mishaps' = mishaps + 1),
             f = Free \/ (f.at # "bind" /\ f.event = frame[h].event /\ f.seen = frame[h].seen)
      PROVE  Rooted'
  <2>1. Free.at = "idle" /\ Free.seen \notin Roots
    BY DEF Free, SessionAssumption
  <2>2. frame[h].event # "end" \/ ended'
    BY <1>6 DEF Rooted
  <2> QED
    BY <1>6, <2>1, <2>2, RootedQuietly
<1>7. ASSUME NEW h \in Runs, CleanUp(h) PROVE Rooted'
  <2>1. frame[h].at \in {"clean", "unlock", "forget"} /\ ended' = ended
    BY <1>7 DEF CleanUp, Clean, Doing
  <2>2. ended
    BY <2>1 DEF SessionInv, Alone, Rooted, Doing
  <2> QED
    BY <2>1, <2>2 DEF Rooted
<1>8. CASE DamageRecord
  <2>1. /\ record \in Roots /\ mishaps < MaxMishaps /\ mishaps' = mishaps + 1 /\ record' = "corrupt"
        /\ UNCHANGED <<bound, frame, ended, latch>>
        /\ mishaps \in Nat /\ MaxMishaps \in Nat /\ "corrupt" \notin Roots \cup {None}
    BY <1>8 DEF DamageRecord, SessionInv, SessionTypeOK, SessionAssumption
  <2> QED
    BY <2>1 DEF Rooted, Doing
<1>9. ASSUME NEW h \in Runs,
             \/ Inactive(h) \/ (\E m \in Mode : RememberTurn(h, m)) \/ OpenTurn(h) \/ ReadOnly(h)
             \/ Claim(h) \/ Promote(h) \/ PromoteFails(h) \/ Persist(h) \/ PersistFails(h)
             \/ RunTool(h) \/ Die(h)
      PROVE  Rooted'
  <2>1. /\ ~Doing(h, "idle") /\ UNCHANGED <<record, bound, latch, ended>>
        /\ mishaps' = mishaps \/ (mishaps < MaxMishaps /\ mishaps' = mishaps + 1)
        /\ Leaves(h) \/ \E at \in {"clean", "open", "promote", "persist", "run"} : Proceeds(h, at)
    BY <1>9 DEF Inactive, RememberTurn, OpenTurn, ReadOnly, Claim, Promote, PromoteFails, Persist,
                PersistFails, RunTool, Die, Doing
  <2>2. PICK f \in Frame : /\ frame' = [frame EXCEPT ![h] = f]
                           /\ \/ f = Free
                              \/ f.at # "bind" /\ f.event = frame[h].event /\ f.seen = frame[h].seen
    <3>1. CASE Leaves(h)
      BY <3>1, FreeIsFrame DEF Leaves
    <3>2. ASSUME NEW at \in {"clean", "open", "promote", "persist", "run"}, Proceeds(h, at)
          PROVE  \E f \in Frame : /\ frame' = [frame EXCEPT ![h] = f]
                                  /\ f.at # "bind" /\ f.event = frame[h].event /\ f.seen = frame[h].seen
      <4> DEFINE f == [frame[h] EXCEPT !.at = at]
      <4>1. f \in Frame /\ f.at # "bind" /\ f.event = frame[h].event /\ f.seen = frame[h].seen
        BY FrameStays DEF Frame
      <4> QED
        BY <3>2, <4>1 DEF Proceeds
    <3> QED
      BY <2>1, <3>1, <3>2
  <2> QED
    BY <1>6, <2>1, <2>2
<1>10. ASSUME NEW h \in Runs, LoadTurn(h) PROVE Rooted'
  <2> DEFINE mode == IF remembered = None THEN "normal" ELSE remembered.mode
             prompt == IF remembered = None THEN 0 ELSE remembered.prompt
             asks == [frame[h] EXCEPT !.at = "remember"]
             answers == [frame[h] EXCEPT !.mode = mode, !.prompt = prompt,
                                         !.at = IF mode = "quick" THEN "claim" ELSE "run"]
  <2>1. mode \in Mode /\ prompt \in 0 .. MaxPromptCount
    BY DEF SessionInv, SessionTypeOK, Prompts, Mode, SessionAssumption
  <2>2. asks \in Frame /\ asks.at # "bind" /\ asks.event = frame[h].event /\ asks.seen = frame[h].seen
    BY FrameStays DEF Frame
  <2> HIDE DEF mode, prompt
  <2>3. answers \in Frame /\ answers.at # "bind" /\ answers.event = frame[h].event /\ answers.seen = frame[h].seen
    BY <2>1, FrameStays DEF Frame
  <2> USE DEF mode, prompt
  <2>4. frame' = [frame EXCEPT ![h] = asks] \/ frame' = [frame EXCEPT ![h] = answers]
    BY <1>10 DEF LoadTurn, Proceeds
  <2>5. ~Doing(h, "idle") /\ UNCHANGED <<record, bound, latch, ended, mishaps>>
    BY <1>10 DEF LoadTurn, Doing
  <2> HIDE DEF asks, answers
  <2> QED
    BY <1>6, <2>2, <2>3, <2>4, <2>5
<1> QED
  BY <1>1, <1>2, <1>3, <1>4, <1>5, <1>7, <1>8, <1>9, <1>10 DEF SessionNext

\* Only its binding brings a hook to its turn.
LEMMA OnlyBindingBinds ==
  ASSUME SessionAssumption, SessionInv, SessionNext, NEW h \in Runs, Doing(h, "bind"),
         frame'[h].at = "turn"
  PROVE  \E r \in Roots : Bind(h, r)
<1>1. frame \in [Runs -> Frame] /\ frame[h].at = "bind" /\ Free.at = "idle"
  BY FrameStays, FreeIsFrame DEF Doing
<1>2. ~DamageRecord
  BY <1>1 DEF DamageRecord
<1>3. PICK g \in Runs :
        \/ \E ev \in {"prompt", "tool", "end"}, env \in Roots \cup {None} : Start(g, ev, env)
        \/ LoadSession(g) \/ WasBound(g) \/ (\E r \in Roots : Bind(g, r)) \/ Inactive(g)
        \/ LoadTurn(g) \/ (\E m \in Mode : RememberTurn(g, m)) \/ OpenTurn(g)
        \/ ReadOnly(g) \/ Claim(g) \/ Promote(g) \/ PromoteFails(g)
        \/ Persist(g) \/ PersistFails(g) \/ RunTool(g) \/ CleanUp(g) \/ Die(g)
  BY <1>2 DEF SessionNext
<1>4. CASE g # h
  <2>1. frame'[h] = frame[h]
    BY <1>1, <1>3, <1>4 DEF Start, LoadSession, WasBound, Bind, Inactive, LoadTurn, RememberTurn,
      OpenTurn, ReadOnly, Claim, Promote, PromoteFails, Persist, PersistFails, RunTool, CleanUp,
      Clean, Die, Proceeds, Leaves
  <2> QED
    BY <1>1, <2>1
<1>5. CASE g = h
  <2>2. Proceeds(h, "clean") => frame'[h].at = "clean"
    <3>1. [frame[h] EXCEPT !.at = "clean"].at = "clean"
      BY FrameStays DEF Frame
    <3> QED
      BY <1>1, <3>1 DEF Proceeds
  <2>3. Leaves(h) => frame'[h].at = "idle"
    BY <1>1 DEF Leaves
  <2>1. ~Inactive(h) /\ ~Die(h)
    BY <2>2, <2>3 DEF Inactive, Die
  <2> QED
    BY <1>1, <1>3, <1>5, <2>1 DEF Start, LoadSession, WasBound, LoadTurn, RememberTurn, OpenTurn,
      ReadOnly, Claim, Promote, PromoteFails, Persist, PersistFails, RunTool, CleanUp, Clean, Doing
<1> QED
  BY <1>4, <1>5

\* A hook the host gives no root works in the root its session was bound to,
\* whichever hook binds it first, if at most one thing fails, and the host
\* sends a prompt only when no tool call is in its hook.  A second damaged
\* record would let a hook that has read the first one bind it again.
THEOREM LatchIsKept ==
  ASSUME SessionAssumption, Orderly, MaxMishaps <= 1
  PROVE  SessionSpec => LatchHolds
<1>1. SessionInit => SessionInv /\ Rooted
  BY SessionStart, RootedStart
<1>2. SessionInv /\ Rooted /\ [SessionNext]_sessionVars => SessionInv' /\ Rooted'
  BY SessionStep, RootedStep
<1>3. ASSUME SessionInv, Rooted, [SessionNext]_sessionVars
      PROVE  [\A h \in Runs :
                /\ Doing(h, "bind") /\ frame'[h].at = "turn" /\ frame[h].env = None /\ ~ended
                => frame'[h].root = latch']_sessionVars
  <2> SUFFICES ASSUME SessionNext, NEW h \in Runs, Doing(h, "bind"), frame'[h].at = "turn",
                      frame[h].env = None, ~ended
               PROVE  frame'[h].root = latch'
    BY <1>3
  <2>1. PICK r \in Roots : Bind(h, r)
    BY <1>3, OnlyBindingBinds
  <2>2. record' = latch'
    BY <1>3, <2>1, BindsToLatch
  <2>3. frame'[h].root = record'
    BY <1>3, <2>1, FrameStays DEF Bind, Frame
  <2> QED
    BY <2>2, <2>3
<1> QED
  BY <1>1, <1>2, <1>3, PTL DEF SessionSpec, LatchHolds

-----------------------------------------------------------------------------
(* GateScorecard: what a complete entry shows.                             *)

\* What an entry counts is what the lines say.
Tallies(c, lines) ==
  /\ c.blocks = Cardinality(BlocksOf(lines)) /\ c.scopes = ScopesOf(lines)
  /\ c.resolved = Cardinality(RecoveredOf(lines)) /\ c.caps = Cardinality(CapsOf(lines))
  /\ c.open = BlocksOf(lines) \ RecoveredOf(lines)

\* Lines up to a number.
UpTo(n) == {e \in TransitionEvent : e.id <= n}

\* There are finitely many transitions and blocks.
LEMMA Numbers ==
  IsFiniteSet(1 .. MaxEvents) /\ IsFiniteSet((1 .. MaxEvents) \X Reasons)
<1>1. MaxEvents \in Int /\ IsFiniteSet(Reasons)
  BY ScorecardAssumption
<1>2. IsFiniteSet(1 .. MaxEvents)
  BY <1>1, FS_Interval
<1> QED
  BY <1>1, <1>2, FS_Product

\* What is counted is finite.
LEMMA FiniteTallies ==
  ASSUME NEW lines \in SUBSET TransitionEvent
  PROVE  /\ IsFiniteSet(BlocksOf(lines)) /\ IsFiniteSet(RecoveredOf(lines))
         /\ IsFiniteSet(CapsOf(lines))
<1>1. IsFiniteSet(1 .. MaxEvents) /\ IsFiniteSet((1 .. MaxEvents) \X Reasons)
  BY Numbers
<1>2. BlocksOf(lines) \subseteq (1 .. MaxEvents) \X Reasons
  BY DEF BlocksOf, TransitionEvent
<1>3. CapsOf(lines) \subseteq 1 .. MaxEvents
  BY DEF CapsOf, TransitionEvent
<1> QED
  BY <1>1, <1>2, <1>3, FS_Subset DEF RecoveredOf

\* The next line adds to the blocks if it is one, and nobody has closed it.
LEMMA LineBlocks ==
  ASSUME NEW n \in Nat, NEW lines \in SUBSET UpTo(n), NEW e \in TransitionEvent, e.id = n + 1
  PROVE  /\ BlocksOf(lines \cup {e}) =
              BlocksOf(lines) \cup (IF e.act = "block" THEN {<<e.id, e.reason>>} ELSE {})
         /\ \A b \in BlocksOf(lines) : b[1] \in Nat /\ b[1] < e.id
         /\ <<e.id, e.reason>> \notin BlocksOf(lines)
<1>1. \A f \in lines : f.id \in Nat /\ f.id < e.id
  BY DEF UpTo, TransitionEvent
<1> QED
  BY <1>1 DEF BlocksOf

\* The next line recovers the open blocks it closes, its scope if there are any.
LEMMA LineRecovers ==
  ASSUME NEW n \in Nat, NEW lines \in SUBSET UpTo(n), NEW e \in TransitionEvent, e.id = n + 1
  PROVE  LET now == {b \in BlocksOf(lines) \ RecoveredOf(lines) : Closes(e, b)}
         IN  /\ RecoveredOf(lines \cup {e}) = RecoveredOf(lines) \cup now
             /\ ScopesOf(lines \cup {e}) =
                  ScopesOf(lines) \cup (IF now # {} THEN {<<e.turn, e.reason>>} ELSE {})
<1> DEFINE all == lines \cup {e}
           now == {b \in BlocksOf(lines) \ RecoveredOf(lines) : Closes(e, b)}
<1>1. \A f \in lines : f.id \in Nat /\ f.id < e.id
  BY DEF UpTo, TransitionEvent
<1>2. \A f \in all : ~Closes(f, <<e.id, e.reason>>)
  BY <1>1 DEF Closes, TransitionEvent
<1>b. BlocksOf(all) =
        BlocksOf(lines) \cup (IF e.act = "block" THEN {<<e.id, e.reason>>} ELSE {})
  BY LineBlocks
<1>3. ASSUME NEW b PROVE b \in BlocksOf(all) /\ b \notin BlocksOf(lines) => b = <<e.id, e.reason>>
  BY <1>b
<1>4. BlocksOf(lines) \subseteq BlocksOf(all)
  BY <1>b
<1>5. RecoveredOf(all) = RecoveredOf(lines) \cup now
  BY <1>2, <1>3, <1>4 DEF RecoveredOf
<1>6. ASSUME NEW f \in lines PROVE Recovers(f, all) <=> Recovers(f, lines)
  <2>1. f.id < e.id /\ ~(e.id < f.id)
    BY <1>1 DEF TransitionEvent
  <2> QED
    BY <1>2, <1>3, <1>4, <2>1 DEF Recovers
<1>7. Recovers(e, all) <=> now # {}
  <2>1. \A f \in lines : f.id < e.id
    BY <1>1
  <2>2. ~(e.id < e.id)
    BY DEF TransitionEvent
  <2> QED
    BY <1>2, <1>3, <1>4, <2>1, <2>2 DEF Recovers, RecoveredOf
<1>8. ScopesOf(all) = ScopesOf(lines) \cup (IF now # {} THEN {<<e.turn, e.reason>>} ELSE {})
  BY <1>6, <1>7 DEF ScopesOf
<1> QED
  BY <1>5, <1>8

\* updated_entry does with the counts what the line does with the journal.
LEMMA UpdatedTallies ==
  ASSUME NEW n \in Nat, NEW lines \in SUBSET UpTo(n), NEW c \in CacheEntry, Tallies(c, lines),
         NEW e \in TransitionEvent, e.id = n + 1, NEW complete \in BOOLEAN
  PROVE  Tallies(UpdatedEntry(c, e, complete), lines \cup {e})
<1> DEFINE all == lines \cup {e}
           now == {b \in BlocksOf(lines) \ RecoveredOf(lines) : Closes(e, b)}
           named == {b \in c.open : b[1] \in e.resolves /\ b[2] = e.reason}
           d == [c EXCEPT !.complete = @ /\ complete, !.at = e.id]
<1>1. /\ IsFiniteSet(BlocksOf(lines)) /\ IsFiniteSet(RecoveredOf(lines))
      /\ IsFiniteSet(CapsOf(lines)) /\ IsFiniteSet(now)
  BY FiniteTallies, FS_Subset, FS_Difference DEF UpTo
<1>2. e.act \in {"block", "recover", "cap_allow"}
  BY DEF TransitionEvent
<1>3. /\ BlocksOf(all) = BlocksOf(lines) \cup (IF e.act = "block" THEN {<<e.id, e.reason>>} ELSE {})
      /\ <<e.id, e.reason>> \notin BlocksOf(lines)
      /\ \A b \in BlocksOf(lines) : b[1] < e.id
  BY LineBlocks
<1>4. /\ RecoveredOf(all) = RecoveredOf(lines) \cup now
      /\ ScopesOf(all) = ScopesOf(lines) \cup (IF now # {} THEN {<<e.turn, e.reason>>} ELSE {})
  BY LineRecovers
<1>5. e.act = "recover" => now = named
  BY <1>3 DEF Closes, Tallies
<1>6. e.act # "recover" => now = {}
  BY DEF Closes
<1>7. CapsOf(all) = CapsOf(lines) \cup (IF e.act = "cap_allow" THEN {e.id} ELSE {})
  BY DEF CapsOf
<1>8. e.id \notin CapsOf(lines)
  BY DEF CapsOf, UpTo, TransitionEvent
<1>9. RecoveredOf(lines) \subseteq BlocksOf(lines)
  BY DEF RecoveredOf
<1> HIDE DEF now, all, named
<1>10. CASE e.act = "block"
  <2>1. UpdatedEntry(c, e, complete) =
          [d EXCEPT !.blocks = @ + 1, !.open = @ \cup {<<e.id, e.reason>>}]
    BY <1>10 DEF UpdatedEntry
  <2>2. Cardinality(BlocksOf(all)) = Cardinality(BlocksOf(lines)) + 1
    BY <1>1, <1>3, <1>10, FS_AddElement
  <2>3. now = {} /\ CapsOf(all) = CapsOf(lines)
    BY <1>6, <1>7, <1>10
  <2>4. BlocksOf(all) \ RecoveredOf(all) =
          (BlocksOf(lines) \ RecoveredOf(lines)) \cup {<<e.id, e.reason>>}
    BY <1>3, <1>4, <1>9, <1>10, <2>3
  <2>5. /\ UpdatedEntry(c, e, complete).blocks = c.blocks + 1
        /\ UpdatedEntry(c, e, complete).open = c.open \cup {<<e.id, e.reason>>}
        /\ UpdatedEntry(c, e, complete).scopes = c.scopes
        /\ UpdatedEntry(c, e, complete).resolved = c.resolved
        /\ UpdatedEntry(c, e, complete).caps = c.caps
    BY <2>1 DEF CacheEntry
  <2>6. ScopesOf(all) = ScopesOf(lines) /\ RecoveredOf(all) = RecoveredOf(lines)
    BY <1>4, <2>3
  <2> QED
    BY <2>2, <2>3, <2>4, <2>5, <2>6 DEF Tallies, all
<1>11. CASE e.act = "recover"
  <2>1. BlocksOf(all) = BlocksOf(lines) /\ CapsOf(all) = CapsOf(lines)
    BY <1>3, <1>7, <1>11
  <2>2. now \cap RecoveredOf(lines) = {}
    BY DEF now
  <2>3. Cardinality(RecoveredOf(all)) = Cardinality(RecoveredOf(lines)) + Cardinality(now)
    <3>1. Cardinality(RecoveredOf(all)) =
            Cardinality(RecoveredOf(lines)) + Cardinality(now) - Cardinality({})
      BY <1>1, <1>4, <2>2, FS_Union
    <3>2. Cardinality(RecoveredOf(lines)) \in Nat /\ Cardinality(now) \in Nat
      BY <1>1, FS_CardinalityType
    <3> QED
      BY <3>1, <3>2, FS_EmptySet
  <2>4. BlocksOf(all) \ RecoveredOf(all) = (BlocksOf(lines) \ RecoveredOf(lines)) \ now
    BY <1>4, <2>1
  <2>5. CASE now = {}
    <3>1. UpdatedEntry(c, e, complete) = d
      BY <1>5, <1>11, <2>5 DEF UpdatedEntry, named
    <3> QED
      BY <1>4, <2>1, <2>5, <3>1 DEF Tallies, CacheEntry, all
  <2>6. CASE now # {}
    <3>1. UpdatedEntry(c, e, complete) =
            [d EXCEPT !.open = @ \ now, !.resolved = @ + Cardinality(now),
                      !.scopes = @ \cup {<<e.turn, e.reason>>}]
      BY <1>5, <1>11, <2>6 DEF UpdatedEntry, named
    <3> QED
      BY <1>4, <2>1, <2>3, <2>4, <2>6, <3>1 DEF Tallies, CacheEntry, all
  <2> QED
    BY <2>5, <2>6
<1>12. CASE e.act = "cap_allow"
  <2>1. UpdatedEntry(c, e, complete) = [d EXCEPT !.caps = @ + 1]
    BY <1>12 DEF UpdatedEntry
  <2>2. now = {} /\ BlocksOf(all) = BlocksOf(lines)
    BY <1>3, <1>6, <1>12
  <2>3. Cardinality(CapsOf(all)) = Cardinality(CapsOf(lines)) + 1
    BY <1>1, <1>7, <1>8, <1>12, FS_AddElement
  <2> QED
    BY <1>4, <2>1, <2>2, <2>3 DEF Tallies, CacheEntry, all
<1> QED
  BY <1>2, <1>10, <1>11, <1>12

\* The updated entry is one, complete only if it was and stays so, and
\* knows what it knew.
LEMMA UpdatedEntryType ==
  ASSUME NEW c \in CacheEntry, NEW e \in TransitionEvent, NEW complete \in BOOLEAN
  PROVE  /\ UpdatedEntry(c, e, complete) \in CacheEntry
         /\ UpdatedEntry(c, e, complete).complete = (c.complete /\ complete)
         /\ UpdatedEntry(c, e, complete).since = c.since
<1> DEFINE now == {b \in c.open : b[1] \in e.resolves /\ b[2] = e.reason}
           d == [c EXCEPT !.complete = @ /\ complete, !.at = e.id]
<1>1. IsFiniteSet((1 .. MaxEvents) \X Reasons)
  BY Numbers
<1>2. now \in SUBSET ((1 .. MaxEvents) \X Reasons)
  BY DEF CacheEntry
<1>3. Cardinality(now) \in Nat
  BY <1>1, <1>2, FS_Subset, FS_CardinalityType
<1>4. d \in CacheEntry /\ d.complete = (c.complete /\ complete) /\ d.since = c.since
  BY DEF CacheEntry, TransitionEvent
<1>5. /\ e.id \in 1 .. MaxEvents /\ e.turn \in 1 .. MaxTurns /\ e.reason \in Reasons
      /\ e.act \in {"block", "recover", "cap_allow"}
  BY DEF TransitionEvent
<1> HIDE DEF d, now
<1>6. UpdatedEntry(c, e, complete) =
        CASE e.act = "block" ->
               [d EXCEPT !.blocks = @ + 1, !.open = @ \cup {<<e.id, e.reason>>}]
          [] e.act = "recover" /\ now # {} ->
               [d EXCEPT !.open = @ \ now, !.resolved = @ + Cardinality(now),
                         !.scopes = @ \cup {<<e.turn, e.reason>>}]
          [] e.act = "cap_allow" -> [d EXCEPT !.caps = @ + 1]
          [] OTHER -> d
  BY DEF UpdatedEntry, d, now
<1>7. CASE e.act = "block"
  <2>1. UpdatedEntry(c, e, complete) =
          [d EXCEPT !.blocks = @ + 1, !.open = @ \cup {<<e.id, e.reason>>}]
    BY <1>6, <1>7
  <2>2. /\ d.blocks + 1 \in Nat
        /\ d.open \cup {<<e.id, e.reason>>} \in SUBSET ((1 .. MaxEvents) \X Reasons)
    BY <1>4, <1>5 DEF CacheEntry
  <2> QED
    BY <1>4, <2>1, <2>2 DEF CacheEntry
<1>8. CASE e.act = "recover" /\ now # {}
  <2>1. UpdatedEntry(c, e, complete) =
          [d EXCEPT !.open = @ \ now, !.resolved = @ + Cardinality(now),
                    !.scopes = @ \cup {<<e.turn, e.reason>>}]
    BY <1>6, <1>8
  <2> QED
    <3>1. /\ d.resolved + Cardinality(now) \in Nat
          /\ d.open \ now \in SUBSET ((1 .. MaxEvents) \X Reasons)
          /\ d.scopes \cup {<<e.turn, e.reason>>} \in SUBSET ((1 .. MaxTurns) \X Reasons)
      BY <1>3, <1>4, <1>5 DEF CacheEntry
    <3> QED
      BY <1>4, <2>1, <3>1 DEF CacheEntry
<1>9. CASE e.act = "cap_allow"
  BY <1>4, <1>6, <1>9 DEF CacheEntry
<1>10. CASE e.act = "recover" /\ now = {}
  BY <1>4, <1>6, <1>10
<1> QED
  BY <1>5, <1>7, <1>8, <1>9, <1>10

-----------------------------------------------------------------------------
(* The inductive invariant of the scorecard: no line and no entry is later  *)
(* than the clock, and a complete entry counts what its lines say.          *)

JournalDated == \A i \in DOMAIN journal : journal[i].id <= clock
EntriesDated == \A k \in Sessions : cache[k] # None => cache[k].since <= clock
CompleteTallies ==
  \A k \in Sessions : Shown(k) => Tallies(cache[k], Lines(k, cache[k].since))

ScorecardInv ==
  ScorecardTypeOK /\ JournalDated /\ EntriesDated /\ CompleteTallies

\* An entry that counts what its lines say shows it.
LEMMA TalliesShow == ASSUME ScorecardInv PROVE CompleteIsGapless
<1> SUFFICES ASSUME NEW k \in Sessions, Shown(k)
             PROVE  Summary(cache[k]) = Aggregate(Lines(k, cache[k].since))
  BY DEF CompleteIsGapless
<1>1. Tallies(cache[k], Lines(k, cache[k].since))
  BY DEF ScorecardInv, CompleteTallies
<1> QED
  BY <1>1 DEF Tallies, Summary, Aggregate

\* A session's lines are transitions up to the clock.
LEMMA LinesType ==
  ASSUME ScorecardTypeOK, JournalDated, NEW k \in Sessions, NEW from
  PROVE  Lines(k, from) \in SUBSET UpTo(clock)
  BY DEF ScorecardTypeOK, JournalDated, Lines, UpTo

\* What a line adds to the lines of its session and of the others.
LEMMA LineAdds ==
  ASSUME ScorecardTypeOK, JournalDated, NEW e \in TransitionEvent, e.id = clock + 1,
         journal' = Append(journal, e), NEW k \in Sessions, NEW from \in Nat
  PROVE  /\ e.key # k => Lines(k, from)' = Lines(k, from)
         /\ e.key = k /\ from <= e.id => Lines(k, from)' = Lines(k, from) \cup {e}
         /\ from = e.id => Lines(k, from) = {}
<1>1. /\ journal \in Seq(TransitionEvent) /\ Len(journal) \in Nat /\ clock \in Nat
      /\ DOMAIN journal = 1 .. Len(journal)
  BY DEF ScorecardTypeOK
<1>2. /\ DOMAIN journal' = DOMAIN journal \cup {Len(journal) + 1}
      /\ journal'[Len(journal) + 1] = e /\ Len(journal) + 1 \notin DOMAIN journal
      /\ \A i \in DOMAIN journal : journal'[i] = journal[i]
  BY <1>1
<1>3. \A i \in DOMAIN journal : journal[i].id \in Nat /\ journal[i].id < clock + 1
  <2>1. \A i \in DOMAIN journal : journal[i] \in TransitionEvent
    BY <1>1
  <2>2. \A i \in DOMAIN journal : journal[i].id \in Nat
    BY <2>1 DEF TransitionEvent
  <2> QED
    BY <1>1, <2>2 DEF JournalDated
<1>4. ASSUME NEW x
      PROVE  x \in Lines(k, from)' <=> x \in Lines(k, from) \/ (x = e /\ e.key = k /\ e.id >= from)
  <2>1. x \in Lines(k, from)' <=>
          \E i \in DOMAIN journal' : journal'[i].key = k /\ journal'[i].id >= from /\ x = journal'[i]
    BY DEF Lines
  <2>2. x \in Lines(k, from) <=>
          \E i \in DOMAIN journal : journal[i].key = k /\ journal[i].id >= from /\ x = journal[i]
    BY DEF Lines
  <2> QED
    BY <1>2, <2>1, <2>2
<1>5. from = e.id => Lines(k, from) = {}
  BY <1>1, <1>3 DEF Lines
<1>6. from <= e.id <=> e.id >= from
  BY <1>1
<1> QED
  BY <1>4, <1>5, <1>6

\* A gate's transition is one, with the next number.
LEMMA NewTransitionType ==
  ASSUME ScorecardTypeOK, NEW k \in Sessions, NEW r \in Reasons,
         NEW a \in {"block", "recover", "cap_allow"}, clock < MaxEvents
  PROVE  /\ NewTransition(k, r, a) \in TransitionEvent
         /\ NewTransition(k, r, a).id = clock + 1 /\ NewTransition(k, r, a).key = k
<1>1. ASSUME NEW s \in Reasons PROVE Unresolved(k, s) \in SUBSET (1 .. MaxEvents)
  <2>1. CASE cache[k] = None
    BY <2>1 DEF Unresolved
  <2>2. CASE cache[k] # None
    <3>1. cache[k].open \in SUBSET ((1 .. MaxEvents) \X Reasons)
      BY <2>2 DEF ScorecardTypeOK, CacheEntry
    <3>2. \A b \in cache[k].open : b[1] \in 1 .. MaxEvents
      BY <3>1
    <3> QED
      BY <2>2, <3>2 DEF Unresolved
  <2> QED
    BY <2>1, <2>2
<1>2. AllUnresolved(k) \in SUBSET (1 .. MaxEvents)
  BY <1>1 DEF AllUnresolved
<1>3. clock + 1 \in 1 .. MaxEvents /\ opening[k].id \in 1 .. MaxTurns
  BY ScorecardAssumption DEF ScorecardTypeOK
<1> QED
  <2>1. (IF a = "block" THEN {} ELSE IF a = "cap_allow" /\ Unresolved(k, r) = {}
          THEN AllUnresolved(k) ELSE Unresolved(k, r)) \in SUBSET (1 .. MaxEvents)
    BY <1>1, <1>2
  <2> QED
    BY <1>3, <2>1 DEF NewTransition, TransitionEvent

-----------------------------------------------------------------------------
(* The cache and its limit.                                                *)

Caches == [Sessions -> CacheEntry \cup {None}]

\* One entry is the oldest.
LEMMA OldestIs ==
  ASSUME NEW c \in Caches, IsFiniteSet(Cached(c)), Cached(c) # {}
  PROVE  Oldest(c) \in Cached(c)
<1> DEFINE upTo(k) == {j \in Cached(c) : c[j].at <= c[k].at}
           all == {upTo(k) : k \in Cached(c)}
<1>1. IsWellFoundedOn(StrictSubsetOrdering(Cached(c)), SUBSET Cached(c))
  BY FS_StrictSubsetOrderingWellFounded, FS_FiniteSubsetsOfFinite
<1>2. all \subseteq SUBSET Cached(c) /\ all # {}
  OBVIOUS
<1>3. PICK x \in all : \A y \in all : ~(<<y, x>> \in StrictSubsetOrdering(Cached(c)))
  <2> HIDE DEF all
  <2> QED
    BY <1>1, <1>2, WFMin
<1>4. PICK k \in Cached(c) : x = upTo(k)
  OBVIOUS
<1>5. \A j \in Cached(c) : c[j].at \in Nat
  BY DEF Cached, Caches, CacheEntry
<1>6. ASSUME NEW j \in Cached(c) PROVE c[k].at <= c[j].at
  <2> SUFFICES ASSUME c[j].at < c[k].at PROVE FALSE
    BY <1>5
  <2>1. upTo(j) \subseteq upTo(k) /\ k \in upTo(k) /\ k \notin upTo(j)
    BY <1>5
  <2>2. <<upTo(j), x>> \in StrictSubsetOrdering(Cached(c))
    BY <1>4, <2>1 DEF StrictSubsetOrdering
  <2> QED
    BY <1>3, <2>2
<1> QED
  BY <1>6 DEF Oldest

\* What is evicted leaves the cache within its limit and changes no other
\* entry.
LEMMA BoundedCacheType ==
  ASSUME NEW c \in Caches, IsFiniteSet(Cached(c)), Cardinality(Cached(c)) <= MaxCached + 1,
         NEW gone \in Seq(Sessions), Len(gone) <= MaxCached
  PROVE  LET new == BoundedCache(c, gone)
         IN  /\ new.cache \in Caches /\ \A k \in Sessions : new.cache[k] \in {c[k], None}
             /\ IsFiniteSet(Cached(new.cache)) /\ Cardinality(Cached(new.cache)) <= MaxCached
             /\ new.gone \in Seq(Sessions) /\ Len(new.gone) <= MaxCached
<1>1. CASE Cardinality(Cached(c)) <= MaxCached
  BY <1>1 DEF BoundedCache
<1>2. CASE ~(Cardinality(Cached(c)) <= MaxCached)
  <2> DEFINE k == Oldest(c)
             kept == {i \in DOMAIN gone : gone[i] # k}
             all == Append(Picked(gone, kept), k)
             first == IF Len(all) < MaxCached THEN 1 ELSE Len(all) - MaxCached + 1
             left == [c EXCEPT ![k] = None]
  <2>1. BoundedCache(c, gone) = [cache |-> left, gone |-> SubSeq(all, first, Len(all))]
    BY <1>2 DEF BoundedCache
  <2>2. MaxCached \in Nat /\ MaxCached >= 1 /\ Cardinality(Cached(c)) \in Nat
    BY ScorecardAssumption, FS_CardinalityType
  <2>3. k \in Cached(c) /\ k \in Sessions
    <3>1. Cached(c) # {}
      BY <1>2, <2>2, FS_EmptySet
    <3> QED
      BY <3>1, OldestIs DEF Cached
  <2>4. left \in Caches /\ \A j \in Sessions : left[j] \in {c[j], None}
    BY <2>3 DEF Caches
  <2>5. Cached(left) = Cached(c) \ {k}
    BY <2>3 DEF Cached, Caches
  <2>6. IsFiniteSet(Cached(left)) /\ Cardinality(Cached(left)) <= MaxCached
    <3>1. IsFiniteSet(Cached(left)) /\ Cardinality(Cached(left)) = Cardinality(Cached(c)) - 1
      <4> HIDE DEF k, left
      <4> QED
        BY <2>3, <2>5, FS_RemoveElement
    <3> QED
      BY <2>2, <3>1
  <2>7. Picked(gone, kept) \in Seq(Sessions)
    BY PickedFrom
  <2> HIDE DEF k, kept
  <2>8. all \in Seq(Sessions) /\ Len(all) \in Nat /\ Len(all) >= 1
    <3> DEFINE p == Picked(gone, kept)
    <3>1. k \in Sessions /\ p \in Seq(Sessions)
      BY <2>3, <2>7
    <3> HIDE DEF p
    <3>2. Append(p, k) \in Seq(Sessions) /\ Len(Append(p, k)) = Len(p) + 1 /\ Len(p) \in Nat
      BY <3>1
    <3> QED
      BY <3>2 DEF p
  <2> HIDE DEF all
  <2>9. /\ first \in Int /\ first >= 1 /\ first <= Len(all)
        /\ Len(all) - first + 1 <= MaxCached
    BY <2>2, <2>8
  <2> HIDE DEF first
  <2>10. SubSeq(all, first, Len(all)) \in Seq(Sessions)
         /\ Len(SubSeq(all, first, Len(all))) = Len(all) - first + 1
    <3>1. \A i \in first .. Len(all) : all[i] \in Sessions
      BY <2>8, <2>9
    <3> QED
      BY <2>8, <2>9, <3>1, SubSeqProperties
  <2> QED
    BY <2>1, <2>4, <2>6, <2>9, <2>10
<1> QED
  BY <1>1, <1>2

\* Making entries incomplete keeps all the rest.
LEMMA IncompleteKeeps ==
  ASSUME NEW c \in Caches, NEW ks
  PROVE  /\ Incomplete(c, ks) \in Caches /\ Cached(Incomplete(c, ks)) = Cached(c)
         /\ \A j \in Sessions :
              /\ c[j] = None <=> Incomplete(c, ks)[j] = None
              /\ c[j] # None => Incomplete(c, ks)[j].since = c[j].since
              /\ c[j] # None /\ Incomplete(c, ks)[j].complete =>
                   j \notin ks /\ Incomplete(c, ks)[j] = c[j]
<1>1. ASSUME NEW j \in Sessions
      PROVE  /\ Incomplete(c, ks)[j] \in CacheEntry \cup {None}
             /\ c[j] = None <=> Incomplete(c, ks)[j] = None
             /\ c[j] # None => Incomplete(c, ks)[j].since = c[j].since
             /\ c[j] # None /\ Incomplete(c, ks)[j].complete =>
                  j \notin ks /\ Incomplete(c, ks)[j] = c[j]
  <2>1. CASE j \in ks /\ c[j] # None
    <3>1. Incomplete(c, ks)[j] = [c[j] EXCEPT !.complete = FALSE]
      BY <2>1 DEF Incomplete
    <3>2. c[j] \in CacheEntry
      BY <2>1 DEF Caches
    <3>3. /\ Incomplete(c, ks)[j] \in CacheEntry /\ Incomplete(c, ks)[j].complete = FALSE
          /\ Incomplete(c, ks)[j].since = c[j].since
      BY <3>1, <3>2 DEF CacheEntry
    <3> QED
      BY <2>1, <3>3, ScorecardAssumption
  <2>2. CASE ~(j \in ks /\ c[j] # None)
    BY <2>2 DEF Incomplete, Caches
  <2> QED
    BY <2>1, <2>2
<1>2. Incomplete(c, ks) \in Caches
  <2>1. Incomplete(c, ks) = [j \in Sessions |-> Incomplete(c, ks)[j]]
    BY DEF Incomplete
  <2> QED
    BY <1>1, <2>1 DEF Caches
<1>3. Cached(Incomplete(c, ks)) = Cached(c)
  BY <1>1 DEF Cached
<1> QED
  BY <1>1, <1>2, <1>3

\* The cache that a gate call saves, after its line is appended or is not.
LEMMA RecordedKeeps ==
  ASSUME ScorecardInv, NEW k \in Sessions, NEW e \in TransitionEvent,
         e.id = clock + 1, e.key = k, NEW appended \in BOOLEAN, Line(e, appended)
  PROVE  LET new == RecordedCache(k, e, appended)
         IN  /\ new.cache \in Caches
             /\ IsFiniteSet(Cached(new.cache)) /\ Cardinality(Cached(new.cache)) <= MaxCached
             /\ new.gone \in Seq(Sessions) /\ Len(new.gone) <= MaxCached
             /\ \A j \in Sessions, from \in Nat :
                  new.cache[j] # None /\ from = new.cache[j].since =>
                    /\ from <= clock + 1
                    /\ new.cache[j].complete => Tallies(new.cache[j], Lines(j, from)')
<1> DEFINE stays == StaysComplete(k, appended)
           base == IF Matches(appended) THEN cache ELSE Incomplete(cache, Sessions)
           entry == IF base[k] = None THEN EmptyEntry(e) ELSE base[k]
           put == [base EXCEPT ![k] = UpdatedEntry(entry, e, stays)]
           new == BoundedCache(put, Gone)
<1>1. cache \in Caches /\ clock \in Nat /\ IsFiniteSet(Cached(cache))
      /\ Cardinality(Cached(cache)) <= MaxCached /\ stays \in BOOLEAN
      /\ MaxCached \in Nat /\ Cardinality(Cached(cache)) \in Nat
  BY ScorecardAssumption, FS_CardinalityType
     DEF ScorecardInv, ScorecardTypeOK, Caches, StaysComplete, Matches
<1>2. /\ base \in Caches /\ Cached(base) = Cached(cache)
      /\ \A j \in Sessions :
           /\ base[j] # None => cache[j] # None /\ base[j].since = cache[j].since
           /\ base[j] # None /\ base[j].complete => Matches(appended) /\ base[j] = cache[j]
  BY <1>1, IncompleteKeeps
<1>3. Matches(appended) => base = cache
  OBVIOUS
<1>4. EmptyEntry(e) \in CacheEntry /\ Tallies(EmptyEntry(e), {}) /\ EmptyEntry(e).since = e.id
  <2>1. EmptyEntry(e) \in CacheEntry /\ EmptyEntry(e).since = e.id
    BY DEF EmptyEntry, CacheEntry, TransitionEvent
  <2>2. BlocksOf({}) = {} /\ RecoveredOf({}) = {} /\ ScopesOf({}) = {} /\ CapsOf({}) = {}
    BY DEF BlocksOf, RecoveredOf, ScopesOf, CapsOf
  <2> QED
    BY <2>1, <2>2, FS_EmptySet DEF Tallies, EmptyEntry
<1> HIDE DEF stays, base
<1>5. entry \in CacheEntry /\ (entry.since = e.id \/ (cache[k] # None /\ entry.since = cache[k].since))
  BY <1>2, <1>4 DEF Caches
<1> HIDE DEF entry
<1>6. /\ put[k] = UpdatedEntry(entry, e, stays) /\ put[k] \in CacheEntry /\ put[k] # None
      /\ put[k].since = entry.since /\ put[k].complete = (entry.complete /\ stays)
  BY <1>1, <1>2, <1>5, UpdatedEntryType, ScorecardAssumption DEF Caches
<1>7. put \in Caches /\ (\A j \in Sessions : j # k => put[j] = base[j])
  BY <1>2, <1>6 DEF Caches
<1> HIDE DEF put
<1>8. Cached(put) = Cached(cache) \cup {k}
  BY <1>2, <1>6, <1>7 DEF Cached
<1>9. IsFiniteSet(Cached(put)) /\ Cardinality(Cached(put)) <= MaxCached + 1
  <2>1. IsFiniteSet(Cached(put)) /\ Cardinality(Cached(put)) =
          IF k \in Cached(cache) THEN Cardinality(Cached(cache)) ELSE Cardinality(Cached(cache)) + 1
    BY <1>1, <1>8, FS_AddElement
  <2> QED
    BY <1>1, <2>1
<1>10. Gone \in Seq(Sessions) /\ Len(Gone) <= MaxCached
  BY <1>1 DEF Gone, ScorecardInv, ScorecardTypeOK
<1>11. /\ new.cache \in Caches /\ \A j \in Sessions : new.cache[j] \in {put[j], None}
       /\ IsFiniteSet(Cached(new.cache)) /\ Cardinality(Cached(new.cache)) <= MaxCached
       /\ new.gone \in Seq(Sessions) /\ Len(new.gone) <= MaxCached
  BY <1>7, <1>9, <1>10, BoundedCacheType
<1>12. ASSUME NEW j \in Sessions, NEW from \in Nat, put[j] # None, from = put[j].since
       PROVE  from <= clock + 1 /\ (put[j].complete => Tallies(put[j], Lines(j, from)'))
  <2>1. \A x \in Sessions : cache[x] # None => cache[x].since <= clock /\ cache[x].since \in Nat
    BY DEF ScorecardInv, EntriesDated, ScorecardTypeOK, CacheEntry
  <2>2. from <= clock + 1
    <3>1. CASE j = k
      BY <1>1, <1>5, <1>6, <1>12, <2>1, <3>1
    <3>2. CASE j # k
      BY <1>1, <1>2, <1>7, <1>12, <2>1, <3>2
    <3> QED
      BY <3>1, <3>2
  <2>3. ASSUME put[j].complete PROVE Tallies(put[j], Lines(j, from)')
    <3>1. ScorecardTypeOK /\ JournalDated
      BY DEF ScorecardInv
    <3>2. Matches(appended) => appended /\ journal' = Append(journal, e)
      BY DEF Matches, Line
    <3>3. CASE j # k
      <4>1. Matches(appended) /\ put[j] = cache[j] /\ cache[j] # None
        BY <1>2, <1>7, <1>12, <2>3, <3>3
      <4>2. Tallies(cache[j], Lines(j, from))
        BY <1>12, <2>3, <4>1 DEF ScorecardInv, CompleteTallies, Shown
      <4>3. Lines(j, from)' = Lines(j, from)
        BY <3>1, <3>2, <3>3, <4>1, LineAdds
      <4> QED
        BY <4>1, <4>2, <4>3
    <3>4. CASE j = k
      <4>1. stays /\ entry.complete /\ Matches(appended)
        BY <1>6, <2>3, <3>4 DEF stays, StaysComplete
      <4>2. journal' = Append(journal, e) /\ base = cache
        BY <1>3, <3>2, <4>1
      <4>3. Lines(k, from)' = Lines(k, from) \cup {e} /\ (from = e.id => Lines(k, from) = {})
        BY <1>1, <2>2, <3>1, <4>2, LineAdds
      <4>4. Lines(k, from) \in SUBSET UpTo(clock)
        BY <3>1, LinesType
      <4>5. Tallies(entry, Lines(k, from))
        <5>1. CASE cache[k] = None
          BY <1>4, <1>6, <1>12, <3>4, <4>2, <4>3, <5>1 DEF entry
        <5>2. CASE cache[k] # None
          <6>1. entry = cache[k] /\ Shown(k)
            BY <4>1, <4>2, <5>2 DEF entry, Shown
          <6> QED
            BY <1>6, <1>12, <3>4, <6>1 DEF ScorecardInv, CompleteTallies
        <5> QED
          BY <5>1, <5>2
      <4>6. Tallies(UpdatedEntry(entry, e, stays), Lines(k, from) \cup {e})
        BY <1>1, <1>5, <4>4, <4>5, UpdatedTallies
      <4> QED
        BY <1>6, <3>4, <4>3, <4>6
    <3> QED
      BY <3>3, <3>4
  <2> QED
    BY <2>2, <2>3
<1>13. new = RecordedCache(k, e, appended)
  BY DEF RecordedCache, put, entry, base, stays
<1> HIDE DEF new
<1>14. ASSUME NEW j \in Sessions, NEW from \in Nat, new.cache[j] # None, from = new.cache[j].since
       PROVE  from <= clock + 1 /\ (new.cache[j].complete => Tallies(new.cache[j], Lines(j, from)'))
  <2>1. new.cache[j] = put[j] /\ put[j] # None
    BY <1>11, <1>14
  <2> QED
    BY <1>12, <1>14, <2>1
<1> QED
  BY <1>11, <1>13, <1>14

\* A journal with the next line is a journal.
LEMMA JournalGrows ==
  ASSUME ScorecardTypeOK, JournalDated, NEW e \in TransitionEvent, e.id = clock + 1,
         NEW appended \in BOOLEAN, Line(e, appended), clock' = clock + 1, clock < MaxEvents
  PROVE  journal' \in Seq(TransitionEvent) /\ clock' \in 0 .. MaxEvents /\ JournalDated'
<1>1. /\ journal \in Seq(TransitionEvent) /\ clock \in Nat /\ MaxEvents \in Nat
      /\ DOMAIN journal = 1 .. Len(journal) /\ Len(journal) \in Nat
  BY ScorecardAssumption DEF ScorecardTypeOK
<1>2. \A i \in DOMAIN journal : journal[i].id \in Nat
  <2>1. \A i \in DOMAIN journal : journal[i] \in TransitionEvent
    BY <1>1
  <2> QED
    BY <2>1 DEF TransitionEvent
<1>3. CASE journal' = journal
  BY <1>1, <1>2, <1>3 DEF JournalDated
<1>4. CASE journal' = Append(journal, e)
  <2>1. journal' \in Seq(TransitionEvent) /\ DOMAIN journal' = 1 .. (Len(journal) + 1)
    BY <1>1, <1>4
  <2>2. /\ \A i \in DOMAIN journal : journal'[i] = journal[i]
        /\ journal'[Len(journal) + 1] = e
    BY <1>1, <1>4
  <2> QED
    BY <1>1, <1>2, <2>1, <2>2 DEF JournalDated
<1> QED
  BY <1>3, <1>4 DEF Line

\* The caches that leave the invariant true.
LEMMA CacheKeeps ==
  ASSUME cache' \in Caches, IsFiniteSet(Cached(cache')), Cardinality(Cached(cache')) <= MaxCached,
         evicted' = None \/ (evicted' \in Seq(Sessions) /\ Len(evicted') <= MaxCached),
         offset' \in Nat \cup {None},
         opening' \in [Sessions -> [id : 1 .. MaxTurns, observed : BOOLEAN]],
         journal' \in Seq(TransitionEvent), clock' \in 0 .. MaxEvents, slips' \in 0 .. MaxSlips,
         JournalDated',
         \A j \in Sessions, from \in Nat :
           cache'[j] # None /\ from = cache'[j].since =>
             /\ from <= clock'
             /\ cache'[j].complete => Tallies(cache'[j], Lines(j, from)')
  PROVE  ScorecardInv'
<1>1. ScorecardTypeOK'
  BY DEF ScorecardTypeOK, Caches
<1>2. \A j \in Sessions : cache'[j] # None => cache'[j].since \in Nat
  BY DEF Caches, CacheEntry
<1>3. EntriesDated'
  BY <1>2 DEF EntriesDated
<1>4. CompleteTallies'
  <2> SUFFICES ASSUME NEW j \in Sessions, Shown(j)'
               PROVE  Tallies(cache[j], Lines(j, cache[j].since))'
    BY DEF CompleteTallies
  <2>1. PICK from \in Nat : from = cache'[j].since
    BY <1>2 DEF Shown
  <2>2. Tallies(cache'[j], Lines(j, from)')
    BY <2>1 DEF Shown
  <2>3. Lines(j, from)' = Lines(j, cache[j].since)'
    BY <2>1 DEF Lines
  <2> QED
    BY <2>2, <2>3
<1> QED
  BY <1>1, <1>3, <1>4 DEF ScorecardInv

\* Marking a turn as observed keeps the type of `opening`.
LEMMA Observes ==
  ASSUME ScorecardTypeOK, NEW k \in Sessions, MarkObserved(k)
  PROVE  opening' \in [Sessions -> [id : 1 .. MaxTurns, observed : BOOLEAN]]
  BY DEF ScorecardTypeOK, MarkObserved

\* What the invariant says of an entry, with its number named.
LEMMA EntryFacts ==
  ASSUME ScorecardInv, NEW j \in Sessions, NEW from \in Nat, cache[j] # None, from = cache[j].since
  PROVE  from <= clock /\ (cache[j].complete => Tallies(cache[j], Lines(j, from)))
  BY DEF ScorecardInv, EntriesDated, CompleteTallies, Shown

\* Every step of the scorecard keeps the invariant.
LEMMA ScorecardStep == ASSUME ScorecardInv, [ScorecardNext]_scorecardVars PROVE ScorecardInv'
<1>1. /\ ScorecardTypeOK /\ JournalDated /\ cache \in Caches /\ clock \in Nat
      /\ IsFiniteSet(Cached(cache)) /\ Cardinality(Cached(cache)) <= MaxCached
      /\ evicted = None \/ (evicted \in Seq(Sessions) /\ Len(evicted) <= MaxCached)
      /\ offset \in Nat \cup {None} /\ journal \in Seq(TransitionEvent) /\ Len(journal) \in Nat
      /\ clock \in 0 .. MaxEvents /\ slips \in 0 .. MaxSlips
      /\ opening \in [Sessions -> [id : 1 .. MaxTurns, observed : BOOLEAN]]
  BY ScorecardAssumption DEF ScorecardInv, ScorecardTypeOK, Caches
<1>2. MaxSlips \in Nat /\ MaxEvents \in Nat
  BY ScorecardAssumption
<1>3. ASSUME NEW k \in Sessions, NEW r \in Reasons, NEW a \in {"block", "recover", "cap_allow"},
             NEW e, e = NewTransition(k, r, a), NEW appended \in BOOLEAN, Line(e, appended),
             clock < MaxEvents, clock' = clock + 1, slips' = slips \/ (slips < MaxSlips /\ slips' = slips + 1),
             MarkObserved(k), offset' \in Nat \cup {None},
             evicted' = RecordedCache(k, e, appended).gone,
             cache' = RecordedCache(k, e, appended).cache
               \/ cache' = Incomplete(RecordedCache(k, e, appended).cache, {k})
      PROVE  ScorecardInv'
  <2> DEFINE new == RecordedCache(k, e, appended)
  <2>1. e \in TransitionEvent /\ e.id = clock + 1 /\ e.key = k
    BY <1>1, <1>3, NewTransitionType
  <2>2. /\ new.cache \in Caches
        /\ IsFiniteSet(Cached(new.cache)) /\ Cardinality(Cached(new.cache)) <= MaxCached
        /\ new.gone \in Seq(Sessions) /\ Len(new.gone) <= MaxCached
        /\ \A j \in Sessions, from \in Nat :
             new.cache[j] # None /\ from = new.cache[j].since =>
               /\ from <= clock + 1
               /\ new.cache[j].complete => Tallies(new.cache[j], Lines(j, from)')
    BY <1>3, <2>1, RecordedKeeps
  <2>3. journal' \in Seq(TransitionEvent) /\ clock' \in 0 .. MaxEvents /\ JournalDated'
    BY <1>1, <1>3, <2>1, JournalGrows
  <2>4. opening' \in [Sessions -> [id : 1 .. MaxTurns, observed : BOOLEAN]]
    BY <1>1, <1>3, Observes
  <2>5. slips' \in 0 .. MaxSlips
    BY <1>1, <1>2, <1>3
  <2> HIDE DEF new
  <2>6. /\ cache' \in Caches /\ Cached(cache') = Cached(new.cache)
        /\ \A j \in Sessions :
             /\ cache'[j] # None => new.cache[j] # None /\ cache'[j].since = new.cache[j].since
             /\ cache'[j] # None /\ cache'[j].complete => cache'[j] = new.cache[j]
    <3>1. CASE cache' = new.cache
      BY <2>2, <3>1
    <3>2. CASE cache' = Incomplete(new.cache, {k})
      BY <2>2, <3>2, IncompleteKeeps
    <3> QED
      BY <1>3, <3>1, <3>2 DEF new
  <2>7. evicted' \in Seq(Sessions) /\ Len(evicted') <= MaxCached
    BY <1>3, <2>2 DEF new
  <2>8. ASSUME NEW j \in Sessions, NEW from \in Nat, cache'[j] # None, from = cache'[j].since
        PROVE  from <= clock' /\ (cache'[j].complete => Tallies(cache'[j], Lines(j, from)'))
    <3>1. new.cache[j] # None /\ from = new.cache[j].since
      BY <2>6, <2>8
    <3>2. from <= clock' /\ (new.cache[j].complete => Tallies(new.cache[j], Lines(j, from)'))
      BY <1>3, <2>2, <3>1
    <3> QED
      BY <2>6, <2>8, <3>2
  <2>9. IsFiniteSet(Cached(cache')) /\ Cardinality(Cached(cache')) <= MaxCached
    BY <2>2, <2>6
  <2> QED
    BY <1>3, <2>3, <2>4, <2>5, <2>6, <2>7, <2>8, <2>9, CacheKeeps
<1>4. ASSUME NEW k \in Sessions, NEW r \in Reasons, NEW a \in {"block", "recover", "cap_allow"},
             RecordTransition(k, r, a)
      PROVE  ScorecardInv'
  <2>1. Len(journal) + 1 \in Nat
    BY <1>1
  <2> QED
    BY <1>3, <1>4, <2>1 DEF RecordTransition, SaveRecorded
<1>5. ASSUME NEW k \in Sessions, NEW r \in Reasons, NEW a \in {"block", "recover", "cap_allow"},
             AppendFails(k, r, a)
      PROVE  ScorecardInv'
  BY <1>1, <1>3, <1>5 DEF AppendFails, SaveRecorded
<1>6. ASSUME NEW k \in Sessions, NEW r \in Reasons, NEW a \in {"block", "recover", "cap_allow"},
             SavedLate(k, r, a)
      PROVE  ScorecardInv'
  <2>1. Len(journal) + 1 \in Nat
    BY <1>1
  <2> QED
    BY <1>3, <1>6, <2>1 DEF SavedLate
<1>7. ASSUME NEW k \in Sessions, NEW r \in Reasons, NEW a \in {"block", "recover", "cap_allow"},
             CallerSaveFails(k, r, a)
      PROVE  ScorecardInv'
  <2> DEFINE e == NewTransition(k, r, a)
  <2>1. e \in TransitionEvent /\ e.id = clock + 1 /\ e.key = k
    BY <1>1, <1>7, NewTransitionType DEF CallerSaveFails
  <2>2. /\ Line(e, TRUE) /\ journal' = Append(journal, e) /\ clock < MaxEvents /\ clock' = clock + 1
        /\ slips' \in 0 .. MaxSlips
        /\ evicted' = evicted /\ offset' = offset /\ opening' = opening
    BY <1>1, <1>2, <1>7 DEF CallerSaveFails, Line
  <2>3. /\ cache' \in Caches /\ Cached(cache') = Cached(cache)
        /\ \A j \in Sessions :
             /\ cache'[j] # None => cache[j] # None /\ cache'[j].since = cache[j].since
             /\ cache'[j] # None /\ cache'[j].complete => j # k /\ cache'[j] = cache[j]
    <3>1. CASE Dirty(k)
      BY <1>1, <1>7, <3>1, IncompleteKeeps DEF CallerSaveFails
    <3>2. CASE ~Dirty(k)
      BY <1>1, <1>7, <3>2 DEF CallerSaveFails, Dirty
    <3> QED
      BY <3>1, <3>2
  <2> HIDE DEF e
  <2>4. journal' \in Seq(TransitionEvent) /\ clock' \in 0 .. MaxEvents /\ JournalDated'
    BY <1>1, <2>1, <2>2, JournalGrows
  <2>5. ASSUME NEW j \in Sessions, NEW from \in Nat, cache'[j] # None, from = cache'[j].since
        PROVE  from <= clock' /\ (cache'[j].complete => Tallies(cache'[j], Lines(j, from)'))
    <3>1. /\ cache[j] # None /\ from = cache[j].since
          /\ cache'[j].complete => j # k /\ cache'[j] = cache[j]
      BY <2>3, <2>5
    <3>2. from <= clock /\ (cache[j].complete => Tallies(cache[j], Lines(j, from)))
      BY <3>1, EntryFacts
    <3>3. j # k => Lines(j, from)' = Lines(j, from)
      BY <1>1, <2>1, <2>2, LineAdds
    <3> QED
      BY <1>1, <2>2, <3>1, <3>2, <3>3
  <2> QED
    BY <1>1, <2>2, <2>3, <2>4, <2>5, CacheKeeps
<1>8. ASSUME journal' = journal, clock' = clock, evicted' = evicted, offset' = offset,
             slips' \in 0 .. MaxSlips, NEW k \in Sessions,
             cache' = cache \/ cache' = Incomplete(cache, {k}),
             opening' \in [Sessions -> [id : 1 .. MaxTurns, observed : BOOLEAN]]
      PROVE  ScorecardInv'
  <2>1. /\ cache' \in Caches /\ Cached(cache') = Cached(cache)
        /\ \A j \in Sessions :
             /\ cache'[j] # None => cache[j] # None /\ cache'[j].since = cache[j].since
             /\ cache'[j] # None /\ cache'[j].complete => cache'[j] = cache[j]
    <3>1. CASE cache' = cache
      BY <1>1, <3>1
    <3>2. CASE cache' = Incomplete(cache, {k})
      BY <1>1, <3>2, IncompleteKeeps
    <3> QED
      BY <1>8, <3>1, <3>2
  <2>2. JournalDated'
    BY <1>1, <1>8 DEF JournalDated
  <2>3. ASSUME NEW j \in Sessions, NEW from \in Nat, cache'[j] # None, from = cache'[j].since
        PROVE  from <= clock' /\ (cache'[j].complete => Tallies(cache'[j], Lines(j, from)'))
    <3>1. cache[j] # None /\ from = cache[j].since /\ (cache'[j].complete => cache'[j] = cache[j])
      BY <2>1, <2>3
    <3>2. from <= clock /\ (cache[j].complete => Tallies(cache[j], Lines(j, from)))
      BY <3>1, EntryFacts
    <3>3. Lines(j, from)' = Lines(j, from)
      BY <1>8 DEF Lines
    <3> QED
      BY <1>8, <3>1, <3>2, <3>3
  <2> QED
    BY <1>1, <1>8, <2>1, <2>2, <2>3, CacheKeeps
<1>9. ASSUME NEW k \in Sessions, DirtyFails(k) PROVE ScorecardInv'
  <2>1. slips' \in 0 .. MaxSlips
    BY <1>1, <1>2, <1>9 DEF DirtyFails
  <2>2. opening' \in [Sessions -> [id : 1 .. MaxTurns, observed : BOOLEAN]]
    BY <1>1, <1>9, Observes DEF DirtyFails
  <2> QED
    BY <1>8, <1>9, <2>1, <2>2 DEF DirtyFails
<1>10. ASSUME NEW k \in Sessions, TurnOpens(k) PROVE ScorecardInv'
  <2>1. opening' \in [Sessions -> [id : 1 .. MaxTurns, observed : BOOLEAN]]
    <3>1. opening[k].id + 1 \in 1 .. MaxTurns
      BY <1>1, <1>10, ScorecardAssumption DEF TurnOpens
    <3> QED
      BY <1>1, <1>10, <3>1 DEF TurnOpens
  <2> QED
    BY <1>1, <1>8, <1>10, <2>1 DEF TurnOpens
<1>11. CASE UNCHANGED scorecardVars
  <2>1. /\ cache' = cache /\ evicted' = evicted /\ offset' = offset /\ opening' = opening
        /\ journal' = journal /\ clock' = clock /\ slips' = slips
    BY <1>11 DEF scorecardVars
  <2>2. ScorecardTypeOK'
    BY <1>1, <2>1 DEF ScorecardTypeOK, Cached
  <2>3. JournalDated' /\ EntriesDated'
    <3>1. JournalDated'
      BY <1>1, <2>1 DEF JournalDated
    <3>2. EntriesDated'
      BY <2>1 DEF EntriesDated, ScorecardInv
    <3> QED
      BY <3>1, <3>2
  <2>4. CompleteTallies'
    <3>1. \A k \in Sessions : Shown(k)' = Shown(k)
      BY <2>1 DEF Shown
    <3>2. ASSUME NEW k \in Sessions, NEW from PROVE Lines(k, from)' = Lines(k, from)
      BY <2>1 DEF Lines
    <3>3. SUFFICES ASSUME NEW k \in Sessions, Shown(k)'
                   PROVE  Tallies(cache[k], Lines(k, cache[k].since))'
      BY DEF CompleteTallies
    <3>4. Tallies(cache[k], Lines(k, cache[k].since))
      BY <3>1, <3>3 DEF CompleteTallies, ScorecardInv
    <3>5. Lines(k, cache[k].since)' = Lines(k, cache[k].since)
      BY <2>1 DEF Lines
    <3> QED
      BY <2>1, <3>4, <3>5 DEF Tallies
  <2> QED
    BY <2>2, <2>3, <2>4 DEF ScorecardInv
<1> QED
  BY <1>4, <1>5, <1>6, <1>7, <1>9, <1>10, <1>11 DEF ScorecardNext

\* The empty scorecard has the invariant.
LEMMA ScorecardStarts == ASSUME ScorecardInit PROVE ScorecardInv
<1>1. Cached(cache) = {} /\ IsFiniteSet({}) /\ Cardinality({}) = 0
  BY FS_EmptySet DEF ScorecardInit, Cached
<1>2. ScorecardTypeOK
  <2>1. /\ MaxCached \in Nat \ {0} /\ MaxEvents \in Nat /\ MaxSlips \in Nat
        /\ 1 \in 1 .. MaxTurns
    BY ScorecardAssumption
  <2>2. cache \in [Sessions -> CacheEntry \cup {None}]
    BY DEF ScorecardInit
  <2>3. IsFiniteSet(Cached(cache)) /\ Cardinality(Cached(cache)) <= MaxCached
    BY <1>1, <2>1
  <2>4. opening \in [Sessions -> [id : 1 .. MaxTurns, observed : BOOLEAN]]
    BY <2>1 DEF ScorecardInit
  <2>5. journal \in Seq(TransitionEvent) /\ clock \in 0 .. MaxEvents /\ slips \in 0 .. MaxSlips
    BY <2>1 DEF ScorecardInit
  <2>6. evicted = None /\ offset \in Nat \cup {None}
    BY DEF ScorecardInit
  <2> QED
    BY <2>2, <2>3, <2>4, <2>5, <2>6 DEF ScorecardTypeOK
<1> QED
  BY <1>2 DEF ScorecardInit, ScorecardInv, JournalDated, EntriesDated, CompleteTallies, Shown

\* The cache stays within its limit and valid by the program's schema.
THEOREM ScorecardTypes == ScorecardSpec => []ScorecardTypeOK
<1>1. ScorecardInv => ScorecardTypeOK
  BY DEF ScorecardInv
<1> QED
  BY <1>1, ScorecardStarts, ScorecardStep, PTL DEF ScorecardSpec

\* What Stop shows of a session is what the journal says of it, from the
\* first transition its entry knows.
THEOREM NothingIsMissed == ScorecardSpec => []CompleteIsGapless
  BY ScorecardStarts, ScorecardStep, TalliesShow, PTL DEF ScorecardSpec
=============================================================================
