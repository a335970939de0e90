----------------------------- MODULE TurnLedger -----------------------------
(***************************************************************************)
(* Which turns are open: apply_v2_event of core/ledger_v2.py, behind       *)
(* record_event and record_event_if_current_turn of core/ledger.py, and    *)
(* `smtw maintenance` (core/ledger_maintenance.py), which closes stale     *)
(* turns and retires those whose evidence is too old to judge.             *)
(*                                                                         *)
(* A hook sends its event with the turn id it began with, whenever it gets *)
(* to it: other prompts, Stops and a day may have passed.  Each step is    *)
(* one transaction of the ledger.                                          *)
(***************************************************************************)
EXTENDS Naturals, Sequences, FiniteSets, SequencesExt, Picking, Nothing

CONSTANTS
  Agents,   \* host:session_id:agent
  Turns,    \* turn ids, 1 .. n
  MAX_CLOSED_TURNS, MAX_RETIRED_TURNS,
  MaxClosings   \* bound: turns closed

\* A turn: its id; is its baseline in doubt (baseline_status is degraded and
\* its provenance incomplete, until the turn ends); is its last event a day
\* old; does it hold calls of the schema that knew no status?
Turn == [id : Turns, degraded : BOOLEAN, stale : BOOLEAN, statusless : BOOLEAN]

TurnAssumption ==
  /\ IsFiniteSet(Agents) /\ 1 \in Turns /\ None \notin Turns \cup Turn /\ MaxClosings \in Nat
  /\ MAX_CLOSED_TURNS \in Nat \ {0} /\ MAX_RETIRED_TURNS \in Nat

VARIABLES
  active,   \* active_turns
  closed,   \* closed_turns, oldest first
  retired,  \* retired_turns
  given,    \* history: the turn ids a prompt has opened for each agent
  closings  \* history: all the closings there were

turnVars == <<active, closed, retired, given, closings>>

ValidClosed(list) == list \in Seq(Agents \X Turns) /\ Len(list) <= MAX_CLOSED_TURNS
ValidRetired(turns) ==
  turns \subseteq Agents \X Turns /\ Cardinality(turns) <= MAX_RETIRED_TURNS

\* validate_v2_ledger, of these fields: a ledger that breaks it is not saved.
TurnsTypeOK ==
  /\ \A k \in Agents : active[k] = None \/ active[k] \in Turn
  /\ ValidClosed(closed) /\ ValidRetired(retired)
  /\ given \in [Agents -> SUBSET Turns]
  /\ closings \in Seq(Agents \X Turns)

Open(k) == active[k] # None
OpenAs(k, t) == Open(k) /\ active[k].id = t

\* turn_is_closed, turn_is_terminal.
Terminal(k, t) == <<k, t>> \in ToSet(closed) \cup retired

\* A turn that the migration from version 1 left may hold calls without status.
TurnsInit ==
  /\ active \in [Agents -> {None} \cup
       [id : {1}, degraded : {FALSE}, stale : {FALSE}, statusless : {TRUE}]]
  /\ closed = <<>> /\ retired = {} /\ closings = <<>>
  /\ given = [k \in Agents |-> IF active[k] = None THEN {} ELSE {1}]

-----------------------------------------------------------------------------
(* The reducer.                                                            *)

\* Variant: a prompt does not take its turn off the list.
ForgetNot(list, gone) == list

\* _forget_closed_turn.
Forget(list, gone) == Picked(list, {i \in DOMAIN list : list[i] \notin gone})

\* Variant: a full list takes no more.
RememberFull(list, over) ==
  LET room == MAX_CLOSED_TURNS - Len(list)
  IN  list \o SubSeq(over, 1, IF Len(over) > room THEN room ELSE Len(over))

\* _remember_closed_turn of one turn after another, each of which becomes the
\* newest on the list and, when it is full, pushes the oldest off.
Remember(list, over) ==
  LET all == Forget(list, ToSet(over)) \o over
  IN  SubSeq(all, 1 + (IF Len(all) > MAX_CLOSED_TURNS THEN Len(all) - MAX_CLOSED_TURNS ELSE 0),
             Len(all))

\* _gc_stale_turns: turns without an event for a day, but for the one the
\* event is about.
Garbage(k, t) == {j \in Agents : Open(j) /\ active[j].stale /\ ~(j = k /\ active[j].id = t)}

Order(ks) == SetToSeq(ks)

\* The turns of ks, one after another.
Leaving(ks) == [i \in DOMAIN Order(ks) |-> <<Order(ks)[i], active[Order(ks)[i]].id>>]

\* They leave active_turns for closed_turns.
Swept(ks) == [k \in Agents |-> IF k \in ks THEN None ELSE active[k]]

\* _new_turn.
NewTurn(t, degraded) ==
  [id |-> t, degraded |-> degraded, stale |-> FALSE, statusless |-> FALSE]

\* _update_turn_after_event and _preserve_degraded_baseline.
Updated(turn, degraded) == [turn EXCEPT !.degraded = @ \/ degraded, !.stale = FALSE]

\* The early returns of apply_v2_event: a retired turn takes no event, an
\* open turn only those with its id, and no event but a prompt opens a turn
\* that is over.
Takes(k, t, event) ==
  /\ <<k, t>> \notin retired
  /\ event = "prompt" \/ (IF Open(k) THEN active[k].id = t ELSE ~Terminal(k, t))

Bounded(ks) == Len(closings) + Cardinality(ks) <= MaxClosings

\* A prompt.  One with the id of the open turn starts it afresh, unless it is
\* degraded; another id closes the open turn.
Prompt(k, t) ==
  LET gone == Garbage(k, t)
      over == gone \cup (IF Open(k) /\ ~OpenAs(k, t) THEN {k} ELSE {})
  IN  /\ Takes(k, t, "prompt") /\ Bounded(over)
      /\ active' = [Swept(gone) EXCEPT ![k] =
           IF OpenAs(k, t) /\ active[k].degraded
           THEN Updated(active[k], FALSE) ELSE NewTurn(t, FALSE)]
      \* The turn replaced is remembered after those collected.
      /\ closed' = LET list == Forget(Remember(closed, Leaving(gone)), {<<k, t>>})
                   IN  IF k \in over \ gone THEN Remember(list, <<<<k, active[k].id>>>>) ELSE list
      /\ closings' = closings \o Leaving(gone) \o (IF k \in over \ gone THEN <<<<k, active[k].id>>>> ELSE <<>>)
      /\ given' = [given EXCEPT ![k] = @ \cup {t}]
      /\ UNCHANGED retired

\* Any other event of a hook of agent k that began in turn t: a tool call, a
\* change, a check, a status, which may say that the baseline is in doubt.
\* This is record_event; record_event_if_current_turn takes fewer events.
Event(k, t, degraded) ==
  LET gone == Garbage(k, t)
  IN  /\ t \in given[k] /\ Takes(k, t, "event") /\ Bounded(gone)
      /\ active' = [Swept(gone) EXCEPT ![k] =
           IF OpenAs(k, t) THEN Updated(active[k], degraded) ELSE NewTurn(t, degraded)]
      /\ closed' = Remember(closed, Leaving(gone)) /\ closings' = closings \o Leaving(gone)
      /\ UNCHANGED <<retired, given>>

\* turn_finished, of a Stop that passes.
Finish(k, t) ==
  LET over == Garbage(k, t) \cup {k}
  IN  /\ OpenAs(k, t) /\ Takes(k, t, "event") /\ Bounded(over)
      /\ active' = Swept(over)
      /\ closed' = Remember(Remember(closed, Leaving(over \ {k})), <<<<k, t>>>>)
      /\ closings' = closings \o Leaving(over \ {k}) \o <<<<k, t>>>>
      /\ UNCHANGED <<retired, given>>

\* A day goes by without an event of the agent.
DayPasses(k) ==
  /\ Open(k) /\ ~active[k].stale
  /\ active' = [active EXCEPT ![k].stale = TRUE]
  /\ UNCHANGED <<closed, retired, given, closings>>

-----------------------------------------------------------------------------
(* smtw maintenance: plan and apply, without a change in between.          *)

\* _plan_candidates; kept are the current turn, those with an open call under
\* lease and those whose agent has an unsettled change.
Candidates(kept) ==
  {k \in Agents \ kept : Open(k) /\ active[k].stale /\ ~active[k].statusless}

\* closed_turn_capacity_available.
Room(n) == Len(closed) + n <= MAX_CLOSED_TURNS

Close(kept) ==
  LET ks == Candidates(kept)
  IN  /\ ks # {} /\ Room(Cardinality(ks)) /\ Bounded(ks)
      /\ active' = Swept(ks) /\ closed' = Remember(closed, Leaving(ks))
      /\ closings' = closings \o Leaving(ks)
      /\ UNCHANGED <<retired, given>>

\* Turns with calls of the old schema are retired, not closed: even the
\* current one, on the operator's word.
Retire(kept) ==
  LET ks == {k \in Agents \ kept : Open(k) /\ active[k].statusless}
      new == {<<k, active[k].id>> : k \in ks}
  IN  /\ ks # {} /\ Cardinality(retired) + Cardinality(ks) <= MAX_RETIRED_TURNS
      /\ retired' = retired \cup new /\ active' = Swept(ks)
      /\ UNCHANGED <<closed, given, closings>>

TurnsNext ==
  \/ \E k \in Agents, t \in Turns :
       \/ Prompt(k, t) \/ Finish(k, t)
       \/ \E d \in BOOLEAN : Event(k, t, d)
  \/ \E k \in Agents : DayPasses(k)
  \/ \E kept \in SUBSET Agents : Close(kept) \/ Retire(kept)

TurnsSpec == TurnsInit /\ [][TurnsNext]_turnVars

-----------------------------------------------------------------------------
(* Properties.                                                             *)

\* No event of a turn that was retired for lack of evidence, replayed at any
\* time, opens it again.
RetiredStaysRetired == \A r \in retired : ~OpenAs(r[1], r[2])

\* A turn that is open is not also on the list of closed ones: its late
\* events would be dropped as soon as it was collected.
OpenIsNotClosed == \A k \in Agents : Open(k) => <<k, active[k].id>> \notin ToSet(closed)

\* The open turns are apart from those that are over (turn_is_terminal).
OpenIsNotTerminal == RetiredStaysRetired /\ OpenIsNotClosed

\* How many turns were closed after the last closing of this one.
ClosedSince(c) ==
  Cardinality({i \in DOMAIN closings : \A j \in DOMAIN closings : closings[j] = c => j < i})

\* A step that opens a turn that was closed is a prompt, unless
\* MAX_CLOSED_TURNS turns were closed after it.
ReopensRightly ==
  \A k \in Agents :
    /\ active'[k] # None /\ ~OpenAs(k, active'[k].id)
    /\ <<k, active'[k].id>> \in ToSet(closings)
    => \/ Prompt(k, active'[k].id)
       \/ ClosedSince(<<k, active'[k].id>>) >= MAX_CLOSED_TURNS

\* No event but a prompt opens a turn that was closed, until MAX_CLOSED_TURNS
\* turns were closed after it.
OnlyPromptsReopen == [][ReopensRightly]_turnVars

=============================================================================
