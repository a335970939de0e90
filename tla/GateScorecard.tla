--------------------------- MODULE GateScorecard ---------------------------
(***************************************************************************)
(* core/scorecard_store.py and core/scorecard_cache.py: every block,       *)
(* recovery and cap of a gate is one line of scorecard/gates.jsonl and one *)
(* increment of the session's entry in the ledger's bounded cache, written *)
(* under the ledger lock.  Stop shows the entry if it says it is complete; *)
(* `smtw scorecard` counts the journal (core/scorecard.py).                *)
(*                                                                         *)
(* The lock is held for a whole gate call, so a call is one step; it ends  *)
(* early when a save or the append fails or the hook dies.                 *)
(***************************************************************************)
EXTENDS Naturals, Sequences, FiniteSets, Picking, Nothing

CONSTANTS
  Sessions,   \* host:session_id:agent
  Reasons,    \* reason codes of the gates
  MaxCached,  \* MAX_CACHED_SESSIONS
  MaxEvents,  \* bound: transitions
  MaxTurns,   \* bound: turns per session
  MaxSlips    \* bound: failed saves and appends, and deaths


VARIABLES
  cache,    \* scorecard_cache: an entry per session, or None
  evicted,  \* scorecard_evicted_keys, oldest first, or None
  offset,   \* scorecard_journal_offset, in lines, or None
  opening,  \* the open turn of a session: its number, scorecard_observed
  journal,  \* gates.jsonl
  clock,    \* transitions so far: their event_id and occurred_at
  slips

scorecardVars == <<cache, evicted, offset, opening, journal, clock, slips>>

TransitionEvent ==
  [id : 1 .. MaxEvents, key : Sessions, turn : 1 .. MaxTurns, reason : Reasons,
   act : {"block", "recover", "cap_allow"}, resolves : SUBSET (1 .. MaxEvents)]

\* What an entry counts: "since" is its first transition, "open" are unresolved_block_ids with their reasons.
CacheEntry ==
  [complete : BOOLEAN, blocks : Nat, scopes : SUBSET ((1 .. MaxTurns) \X Reasons),
   resolved : Nat, caps : Nat, open : SUBSET ((1 .. MaxEvents) \X Reasons),
   since : 1 .. MaxEvents, at : 1 .. MaxEvents]

\* None is nothing that is there; the program lists its reasons and limits.
ASSUME ScorecardAssumption ==
  /\ None \notin CacheEntry \cup Seq(Sessions) /\ IsFiniteSet(Reasons)
  /\ MaxCached \in Nat \ {0} /\ MaxEvents \in Nat /\ MaxSlips \in Nat
  /\ MaxTurns \in Nat \ {0}

Cached(c) == {k \in Sessions : c[k] # None}

ScorecardTypeOK ==
  /\ cache \in [Sessions -> CacheEntry \cup {None}]
  /\ IsFiniteSet(Cached(cache)) /\ Cardinality(Cached(cache)) <= MaxCached
  /\ evicted = None \/ (evicted \in Seq(Sessions) /\ Len(evicted) <= MaxCached)
  /\ offset \in Nat \cup {None}
  /\ opening \in [Sessions -> [id : 1 .. MaxTurns, observed : BOOLEAN]]
  /\ journal \in Seq(TransitionEvent) /\ clock \in 0 .. MaxEvents
  /\ slips \in 0 .. MaxSlips

ScorecardInit ==
  /\ cache = [k \in Sessions |-> None] /\ evicted = None /\ offset = None
  /\ opening = [k \in Sessions |-> [id |-> 1, observed |-> FALSE]]
  /\ journal = <<>> /\ clock = 0 /\ slips = 0

-----------------------------------------------------------------------------
(* The journal, counted afresh.  A transition's id is its place in time, by *)
(* which the code sorts.  It goes through them one by one (_resolved_blocks)*)
(* and drops a block when it is resolved; here that is said of the set.     *)

\* The lines of a session from a transition on.
Lines(k, from) ==
  {journal[i] : i \in {j \in DOMAIN journal : journal[j].key = k /\ journal[j].id >= from}}

BlocksOf(lines) == {<<e.id, e.reason>> : e \in {f \in lines : f.act = "block"}}

\* A recovery closes the blocks before it that it names and that have its
\* reason, unless an earlier one did.
Closes(e, b) ==
  e.act = "recover" /\ b[1] < e.id /\ b[1] \in e.resolves /\ b[2] = e.reason
RecoveredOf(lines) == {b \in BlocksOf(lines) : \E e \in lines : Closes(e, b)}
Recovers(e, lines) ==
  \E b \in BlocksOf(lines) :
    Closes(e, b) /\ \A f \in lines : f.id < e.id => ~Closes(f, b)
ScopesOf(lines) == {<<e.turn, e.reason>> : e \in {f \in lines : Recovers(f, lines)}}
CapsOf(lines) == {e.id : e \in {f \in lines : f.act = "cap_allow"}}

\* aggregate_transitions of one session.
Aggregate(lines) ==
  [blocks |-> Cardinality(BlocksOf(lines)), scopes |-> Cardinality(ScopesOf(lines)),
   resolved |-> Cardinality(RecoveredOf(lines)), caps |-> Cardinality(CapsOf(lines)),
   open |-> BlocksOf(lines) \ RecoveredOf(lines)]

-----------------------------------------------------------------------------
(* The cache.                                                              *)

\* What summary_for_key returns of a complete entry.
Summary(c) ==
  [blocks |-> c.blocks, scopes |-> Cardinality(c.scopes),
   resolved |-> c.resolved, caps |-> c.caps, open |-> c.open]

EmptyEntry(e) ==
  [complete |-> TRUE, blocks |-> 0, scopes |-> {}, resolved |-> 0, caps |-> 0,
   open |-> {}, since |-> e.id, at |-> e.id]

\* updated_entry: once incomplete, incomplete for good.
UpdatedEntry(c, e, complete) ==
  LET now == {b \in c.open : b[1] \in e.resolves /\ b[2] = e.reason}
      d == [c EXCEPT !.complete = @ /\ complete, !.at = e.id]
  IN  CASE e.act = "block" ->
             [d EXCEPT !.blocks = @ + 1, !.open = @ \cup {<<e.id, e.reason>>}]
        [] e.act = "recover" /\ now # {} ->
             [d EXCEPT !.open = @ \ now, !.resolved = @ + Cardinality(now),
                       !.scopes = @ \cup {<<e.turn, e.reason>>}]
        [] e.act = "cap_allow" -> [d EXCEPT !.caps = @ + 1]
        [] OTHER -> d

\* incomplete_cache and mark_cached_session_incomplete.
Incomplete(c, ks) ==
  [k \in Sessions |-> IF k \in ks /\ c[k] # None
                      THEN [c[k] EXCEPT !.complete = FALSE] ELSE c[k]]

\* bounded_cache_with_evictions: the sessions longest without a transition go.
Oldest(c) == CHOOSE k \in Cached(c) : \A j \in Cached(c) : c[k].at <= c[j].at

BoundedCache(c, gone) ==
  IF Cardinality(Cached(c)) <= MaxCached THEN [cache |-> c, gone |-> gone]
  ELSE LET k == Oldest(c)
           all == Append(Picked(gone, {i \in DOMAIN gone : gone[i] # k}), k)
           first == IF Len(all) < MaxCached THEN 1 ELSE Len(all) - MaxCached + 1
       IN  [cache |-> [c EXCEPT ![k] = None], gone |-> SubSeq(all, first, Len(all))]

\* _cache_matches_journal: the line went where the ledger thought the end is.
Matches(appended) ==
  appended /\ (offset = Len(journal) \/ (offset = None /\ journal = <<>>))

\* identity_known_new: would the ledger remember the session?
Unknown(k) == evicted = None /\ Cardinality(Cached(cache)) >= MaxCached

Gone == IF evicted = None THEN <<>> ELSE evicted

\* May a transition leave its session's entry complete?
StaysComplete(k, appended) ==
  /\ Matches(appended)
  /\ cache[k] # None
     \/ (~opening[k].observed /\ ~Unknown(k) /\ \A i \in DOMAIN Gone : Gone[i] # k)

\* record_gate_transition_locked after the append: the ledger in memory.
RecordedCache(k, e, appended) ==
  LET base == IF Matches(appended) THEN cache ELSE Incomplete(cache, Sessions)
      entry == IF base[k] = None THEN EmptyEntry(e) ELSE base[k]
  IN  BoundedCache([base EXCEPT ![k] = UpdatedEntry(entry, e, StaysComplete(k, appended))],
              Gone)

-----------------------------------------------------------------------------
(* A gate call.                                                            *)

MarkObserved(k) == opening' = [opening EXCEPT ![k].observed = TRUE]

\* The transition a gate makes: unresolved_block_ids reads the cache.
Unresolved(k, r) ==
  IF cache[k] = None THEN {} ELSE {b[1] : b \in {c \in cache[k].open : c[2] = r}}
AllUnresolved(k) == UNION {Unresolved(k, r) : r \in Reasons}

NewTransition(k, r, a) ==
  [id |-> clock + 1, key |-> k, turn |-> opening[k].id, reason |-> r, act |-> a,
   resolves |-> IF a = "block" THEN {}
                ELSE IF a = "cap_allow" /\ Unresolved(k, r) = {}
                THEN AllUnresolved(k) ELSE Unresolved(k, r)]

\* A gate that has nothing to resolve records nothing.
Worthy(e) == e.act = "block" \/ e.resolves # {}

\* Variant: the entry is written once, after the line.
DirtyNever(k) == FALSE

\* The entry is made incomplete on the disk before the line is written, so
\* that a hook that dies in between leaves no complete one.
Dirty(k) == cache[k] # None /\ cache[k].complete

SaveRecorded(k, e, appended) ==
  LET new == RecordedCache(k, e, appended)
  IN  /\ cache' = new.cache /\ evicted' = new.gone
      /\ offset' = IF appended THEN Len(journal) + 1 ELSE offset
      /\ MarkObserved(k)

Line(e, appended) == journal' = IF appended THEN Append(journal, e) ELSE journal

RecordTransition(k, r, a) ==
  LET e == NewTransition(k, r, a)
  IN  /\ clock < MaxEvents /\ Worthy(e)
      /\ clock' = clock + 1
      /\ Line(e, TRUE) /\ SaveRecorded(k, e, TRUE) /\ UNCHANGED slips

\* The append raises: the transition is counted, the entry is incomplete.
AppendFails(k, r, a) ==
  LET e == NewTransition(k, r, a)
  IN  /\ clock < MaxEvents /\ Worthy(e) /\ slips < MaxSlips
      /\ clock' = clock + 1 /\ slips' = slips + 1
      /\ Line(e, FALSE) /\ SaveRecorded(k, e, FALSE)

\* The first save fails: nothing is appended; the caller's own save may work.
DirtyFails(k) ==
  /\ Dirty(k) /\ slips < MaxSlips /\ slips' = slips + 1
  /\ \/ cache' = Incomplete(cache, {k}) /\ MarkObserved(k)
     \/ UNCHANGED <<cache, opening>>
  /\ UNCHANGED <<evicted, offset, journal, clock>>

\* The line is written and the caller's save fails or the hook dies: the
\* ledger is what the first save left.
CallerSaveFails(k, r, a) ==
  LET e == NewTransition(k, r, a)
  IN  /\ clock < MaxEvents /\ Worthy(e) /\ slips < MaxSlips
      /\ clock' = clock + 1 /\ slips' = slips + 1
      /\ Line(e, TRUE)
      /\ cache' = IF Dirty(k) THEN Incomplete(cache, {k}) ELSE cache
      /\ UNCHANGED <<evicted, offset, opening>>

\* A Stop whose first save failed marks its entry and saves again when it
\* closes the turn.
SavedLate(k, r, a) ==
  LET e == NewTransition(k, r, a)
      new == RecordedCache(k, e, TRUE)
  IN  /\ clock < MaxEvents /\ Worthy(e) /\ slips < MaxSlips
      /\ clock' = clock + 1 /\ slips' = slips + 1
      /\ Line(e, TRUE)
      /\ cache' = Incomplete(new.cache, {k}) /\ evicted' = new.gone
      /\ offset' = Len(journal) + 1 /\ MarkObserved(k)

\* A prompt opens the next turn of the session (apply_v2_event).
TurnOpens(k) ==
  /\ opening[k].id < MaxTurns
  /\ opening' = [opening EXCEPT ![k] = [id |-> @.id + 1, observed |-> FALSE]]
  /\ UNCHANGED <<cache, evicted, offset, journal, clock, slips>>

ScorecardNext ==
  \E k \in Sessions :
    \/ TurnOpens(k) \/ DirtyFails(k)
    \/ \E r \in Reasons, a \in {"block", "recover", "cap_allow"} :
         RecordTransition(k, r, a) \/ AppendFails(k, r, a) \/ CallerSaveFails(k, r, a)
           \/ SavedLate(k, r, a)

ScorecardSpec == ScorecardInit /\ [][ScorecardNext]_scorecardVars

-----------------------------------------------------------------------------
(* Properties.                                                             *)

Shown(k) == cache[k] # None /\ cache[k].complete

\* What Stop shows of a session is what the journal says of it, counted from
\* the first transition the entry knows: no failed save, failed append,
\* death or eviction makes a complete entry miss or invent one after that.
CompleteIsGapless ==
  \A k \in Sessions :
    Shown(k) => Summary(cache[k]) = Aggregate(Lines(k, cache[k].since))
=============================================================================
