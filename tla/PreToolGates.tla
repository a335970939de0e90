---------------------------- MODULE PreToolGates ----------------------------
(***************************************************************************)
(* What a tool call of one agent passes before it runs:                    *)
(* evaluate_pretool_contract of core/contract.py with the intent and goals *)
(* gates of core/gate_counters.py and R1, the contract of a high-risk call.*)
(* Each gate first reads without the ledger lock and then decides under    *)
(* it; checkpoints appear and prompts open turns in between.  A hook that  *)
(* raises lets its call run unasked (adapters/claude_code/pre_tool_use.py).*)
(***************************************************************************)
EXTENDS Naturals, FiniteSets

CONSTANTS
  ToolCalls,       \* tool calls that may run side by side
  MAX_GATE_BLOCKS, \* MAX_GOALS_BLOCKS, MAX_INTENT_BLOCKS
  MaxPrompts,  \* bound: turns
  MaxLost      \* bound: saves that fail and hooks that raise

PreToolAssumption ==
  MAX_GATE_BLOCKS \in Nat /\ MaxPrompts \in Nat /\ MaxLost \in Nat

\* The checkpoints: intent.json, the goals of the turn's identity, a valid
\* contract.  The first two are asked for by the prompt's classification.
Gates == {"intent", "goals"}
Checkpoints == Gates \cup {"contract"}

\* What a call writes, as far as a gate asks: the goals, where a command
\* proven read-only passes as well; contracts and nothing else; or any thing.
Writings == {"goals", "contract", "other"}
Stations == {"idle", "intent", "goals?", "goals", "R1", "raised", "run"}
AskType == [at : Stations, writes : Writings, risk : BOOLEAN]

VARIABLES
  prompts,  \* turns so far
  needs,    \* intent_required and needs_goals of the turn in the ledger
  spent,    \* its intent_blocks and goals_blocks
  told,     \* how often this turn's calls have been told to stop by a gate
  present,  \* the checkpoints that are there
  ask,      \* a call: where it is, what it writes, is it high-risk
  lostSaves \* saves that failed and hooks that raised

gateVars == <<prompts, needs, spent, told, present, ask, lostSaves>>

NoCall == [at |-> "idle", writes |-> "other", risk |-> FALSE]

GatesTypeOK ==
  /\ prompts \in 0 .. MaxPrompts /\ lostSaves \in 0 .. MaxLost
  /\ needs \subseteq Gates /\ present \subseteq Checkpoints
  /\ spent \in [Gates -> 0 .. MAX_GATE_BLOCKS] /\ told \in [Gates -> Nat]
  /\ ask \in [ToolCalls -> AskType]

PreToolInit ==
  /\ prompts = 0 /\ lostSaves = 0 /\ needs = {} /\ present = {}
  /\ spent = [g \in Gates |-> 0] /\ told = [g \in Gates |-> 0]
  /\ ask = [h \in ToolCalls |-> NoCall]

GoOn(h, at) == ask' = [ask EXCEPT ![h].at = at]

\* UserPromptSubmit; the checkpoints of the last turn stay.
SubmitPrompt(n) ==
  /\ prompts < MaxPrompts /\ prompts' = prompts + 1
  /\ needs' = n
  /\ spent' = [g \in Gates |-> 0] /\ told' = [g \in Gates |-> 0]
  /\ UNCHANGED <<present, ask, lostSaves>>

\* `smtw intent set`, `smtw goals plan`, a contract file: made or removed.
Author(c) ==
  /\ present' = IF c \in present THEN present \ {c} ELSE present \cup {c}
  /\ UNCHANGED <<prompts, needs, spent, told, ask, lostSaves>>

Wanted(g) == g \in needs /\ g \notin present

\* needs_intent_block: only an edit is asked for the intent, and only an edit
\* writes contracts.
BeginCall(h, edit, writes, risk) ==
  /\ ask[h].at = "idle" /\ (writes = "contract" => edit)
  /\ ask' = [ask EXCEPT ![h] =
       [at |-> IF edit /\ Wanted("intent") THEN "intent" ELSE "goals?",
        writes |-> writes, risk |-> risk]]
  /\ UNCHANGED <<prompts, needs, spent, told, present, lostSaves>>

\* needs_goals_block; a call that writes the goals passes.
AskGoals(h) ==
  /\ ask[h].at = "goals?"
  /\ GoOn(h, IF Wanted("goals") /\ ask[h].writes # "goals" THEN "goals" ELSE "R1")
  /\ UNCHANGED <<prompts, needs, spent, told, present, lostSaves>>

\* Where a call goes that a checkpoint gate lets pass: after the goals gate
\* nothing more is asked.
Onward(g) == IF g = "intent" THEN "goals?" ELSE "run"

\* The gate asks under the lock; has_intent was read before it.
Absent(g) == g \in needs /\ (g = "intent" \/ g \notin present)

\* block_intent_once and block_goals_once allow: the checkpoint is there, the
\* turn does not ask for it, or the counter is at its limit.
Allows(h, g) ==
  /\ ask[h].at = g
  /\ g \in present \/ g \notin needs \/ spent[g] >= MAX_GATE_BLOCKS
  /\ GoOn(h, Onward(g))
  /\ UNCHANGED <<prompts, needs, spent, told, present, lostSaves>>

Blocked(h, g) ==
  /\ told' = [told EXCEPT ![g] = IF @ > MAX_GATE_BLOCKS THEN @ ELSE @ + 1]
  /\ ask' = [ask EXCEPT ![h] = NoCall]

Blocks(h, g) ==
  /\ ask[h].at = g /\ Absent(g) /\ spent[g] < MAX_GATE_BLOCKS
  /\ spent' = [spent EXCEPT ![g] = @ + 1] /\ Blocked(h, g)
  /\ UNCHANGED <<prompts, needs, present, lostSaves>>

\* Variant: the block is answered although it was not counted.
LostBlocks(h, g) ==
  /\ ask[h].at = g /\ Absent(g) /\ spent[g] < MAX_GATE_BLOCKS
  /\ lostSaves < MaxLost /\ lostSaves' = lostSaves + 1
  /\ Blocked(h, g)
  /\ UNCHANGED <<prompts, needs, spent, present>>

\* The count cannot be saved: the gate opens rather than block uncounted.
Lost(h, g) ==
  /\ ask[h].at = g /\ Absent(g) /\ spent[g] < MAX_GATE_BLOCKS
  /\ lostSaves < MaxLost /\ lostSaves' = lostSaves + 1
  /\ GoOn(h, Onward(g))
  /\ UNCHANGED <<prompts, needs, spent, told, present>>

\* An edit that writes only contracts is not asked for one;
\* evaluate_r1_contract: any other high-risk call needs a valid contract,
\* however often it has been blocked.
R1(h) ==
  /\ ask[h].at = "R1"
  /\ IF ask[h].risk /\ ask[h].writes # "contract" /\ "contract" \notin present
     THEN ask' = [ask EXCEPT ![h] = NoCall] ELSE GoOn(h, "run")
  /\ UNCHANGED <<prompts, needs, spent, told, present, lostSaves>>

\* What a gate reads or locks raises: the ledger lock is not had in time, the
\* layout conflicts, a file is not text.
Raises(h) ==
  /\ ask[h].at \in {"intent", "goals?", "goals", "R1"}
  /\ lostSaves < MaxLost /\ lostSaves' = lostSaves + 1
  /\ GoOn(h, "raised")
  /\ UNCHANGED <<prompts, needs, spent, told, present>>

\* fail_open: the hook answers nothing, and the host runs the call.
FailOpen(h) ==
  /\ ask[h].at = "raised" /\ GoOn(h, "run")
  /\ UNCHANGED <<prompts, needs, spent, told, present, lostSaves>>

Run(h) ==
  /\ ask[h].at = "run" /\ ask' = [ask EXCEPT ![h] = NoCall]
  /\ UNCHANGED <<prompts, needs, spent, told, present, lostSaves>>

PreToolNext ==
  \/ \E n \in SUBSET Gates : SubmitPrompt(n)
  \/ \E c \in Checkpoints : Author(c)
  \/ \E h \in ToolCalls :
       \/ \E e, r \in BOOLEAN, w \in Writings : BeginCall(h, e, w, r)
       \/ AskGoals(h)
       \/ \E g \in Gates : Allows(h, g) \/ Blocks(h, g) \/ Lost(h, g)
       \/ R1(h) \/ Raises(h) \/ FailOpen(h) \/ Run(h)

PreToolSpec == PreToolInit /\ [][PreToolNext]_gateVars

-----------------------------------------------------------------------------
(* Properties.                                                             *)

\* A checkpoint gate stops the calls of a turn at most MAX_GATE_BLOCKS times,
\* however many pass it side by side, whatever prompt comes between reading
\* and deciding, and whatever save fails.
GateBlocksCapped == \A g \in Gates : told[g] <= spent[g] /\ spent[g] <= MAX_GATE_BLOCKS

\* "High-risk edits require a valid task contract first": a high-risk call
\* whose hook does not fail goes on to run only while there is a valid contract,
\* unless it writes nothing but contracts (evaluate_pretool_contract).
NeedsContract(c) == c.risk /\ c.writes # "contract" /\ c.at # "raised"

RiskNeedsContract ==
  [][\A h \in ToolCalls :
       /\ ask[h].at # "run" /\ ask'[h].at = "run"
       /\ NeedsContract(ask[h])
       => "contract" \in present]_gateVars
=============================================================================
