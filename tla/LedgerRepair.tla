---------------------------- MODULE LedgerRepair ----------------------------
(***************************************************************************)
(* Reading a ledger that was damaged (core/ledger.py,                      *)
(* _validate_v2_with_derived_cache_fail_open): the ledger is validated,    *)
(* the part the first error is in is repaired if it can be derived or      *)
(* spared - the scorecard, the marks of a recovered turn, the coordination *)
(* outbox and its receipts - and it is validated again.  An error anywhere *)
(* else is the caller's.                                                   *)
(***************************************************************************)
EXTENDS Naturals, Sequences, FiniteSets, SequencesExt

CONSTANTS
  None, NoBody,   \* no object at all; no such entry
  Ids, Bodies,
  Broken,         \* an entry that does not validate by itself
  Cap,            \* 256: entries of a map
  MaxOrder        \* bound: the longest list of receipts that is read

RepairAssumption == /\ NoBody \notin Bodies \cup {Broken} /\ Broken \notin Bodies
                    /\ Cap \in Nat \ {0} /\ IsFiniteSet(Ids)

VARIABLES
  raw,      \* the ledger as it was read
  ledger,   \* as it has been repaired so far
  rounds,
  result    \* "validating", "read" or "refused"

repairVars == <<raw, ledger, rounds, result>>

Maps == [Ids -> Bodies \cup {NoBody, Broken}] \cup {None}
Orders == UNION {[1..n -> Ids] : n \in 0..MaxOrder} \cup {None}

Ledgers ==
  [outbox : Maps, delivered : Maps, order : Orders,
   flags : BOOLEAN,                       \* cursor and degraded are well typed
   degraded : BOOLEAN,
   marks : {"none", "good", "bad"},       \* of a turn's recovery; "none" reads as "good"
   scorecard : {"none", "good", "bad"},
   rest : BOOLEAN]                        \* everything else validates

RepairTypeOK ==
  /\ raw \in Ledgers /\ ledger \in Ledgers
  /\ rounds \in Nat /\ result \in {"validating", "read", "refused"}

-----------------------------------------------------------------------------
(* validate_v2_ledger.                                                     *)

Entries(map) == IF map = None THEN {} ELSE {i \in Ids : map[i] # NoBody}
Sound(map) == IF map = None THEN {} ELSE {i \in Ids : map[i] \in Bodies}

\* _validate_coordination_event_map.
ValidMap(map) == map # None /\ Sound(map) = Entries(map) /\ Cardinality(Entries(map)) <= Cap

\* _validate_coordination_delivered_order.
ValidOrder(order, delivered) ==
  /\ order # None /\ Len(order) <= Cap
  /\ IsInjective(order) /\ ToSet(order) = Entries(delivered)

ValidCoordination(l) ==
  /\ ValidMap(l.outbox) /\ ValidMap(l.delivered) /\ l.flags
  /\ ValidOrder(l.order, l.delivered)
  /\ Entries(l.outbox) \cap Entries(l.delivered) = {}

\* Where the first error is.
FirstError(l) ==
  CASE ~l.rest -> "rest"
    [] ~ValidCoordination(l) -> "coordination"
    [] l.marks = "bad" -> "marks"
    [] l.scorecard = "bad" -> "scorecard"
    [] OTHER -> "none"

-----------------------------------------------------------------------------
(* Repairing.                                                              *)

\* _sanitize_coordination_event_map: as many valid entries as there is room
\* for, in the order of the file.
Sanitized(map) ==
  {[i \in Ids |-> IF i \in kept THEN map[i] ELSE NoBody] :
     kept \in {s \in SUBSET Sound(map) :
                 \/ s = Sound(map) /\ Cardinality(s) <= Cap
                 \/ Cardinality(s) = Cap}}

Without(map, ids) == [i \in Ids |-> IF i \in ids THEN NoBody ELSE map[i]]

\* The receipts that are left, each once, those the list misses last.
Listed(order, delivered) ==
  LET known == IF order = None THEN <<>> ELSE SelectSeq(order, LAMBDA i : i \in Entries(delivered))
      firsts == FoldLeft(LAMBDA seen, i : IF i \in ToSet(seen) THEN seen ELSE Append(seen, i),
                         <<>>, known)
  IN  {firsts \o tail : tail \in SetToSeqs(Entries(delivered) \ ToSet(firsts))}

\* Variant: an event in both maps stays in both.
RepairedApart(l) ==
  {[l EXCEPT !.outbox = o, !.delivered = d, !.order = r, !.flags = TRUE, !.degraded = TRUE] :
     o \in Sanitized(l.outbox), d \in Sanitized(l.delivered), r \in Listed(l.order, l.delivered)}

\* An event in both maps is delivered if it is the same, and pending if not.
RepairedCoordination(l) ==
  UNION {LET both == Entries(o) \cap Entries(d)
             same == {i \in both : o[i] = d[i]}
             left == Without(d, both \ same)
         IN  {[l EXCEPT !.outbox = Without(o, same), !.delivered = left, !.order = r,
                        !.flags = TRUE, !.degraded = TRUE] : r \in Listed(l.order, left)}
         : o \in Sanitized(l.outbox), d \in Sanitized(l.delivered)}

\* A ledger that was degraded before is read in the same way.
Init ==
  /\ raw \in {l \in Ledgers : ~l.degraded /\ l.marks # "none" /\ l.scorecard # "none"}
  /\ ledger = raw
  /\ rounds = 0 /\ result = "validating"

Round(error) == result = "validating" /\ FirstError(ledger) = error

Repair ==
  /\ \/ /\ Round("coordination")
        /\ ledger' \in RepairedCoordination(ledger)
     \/ /\ Round("marks")    \* _sanitize_bootstrap_coordination_fields
        /\ ledger' = [ledger EXCEPT !.marks = "none", !.degraded = TRUE]
     \/ /\ Round("scorecard")
        /\ ledger' = [ledger EXCEPT !.scorecard = "none"]
  /\ rounds' = rounds + 1
  /\ UNCHANGED <<raw, result>>

Answer ==
  /\ \/ Round("rest") /\ result' = "refused"
     \/ Round("none") /\ result' = "read"
  /\ UNCHANGED <<raw, ledger, rounds>>

Next == Repair \/ Answer

Spec == Init /\ [][Next]_repairVars

-----------------------------------------------------------------------------
(* Property.                                                               *)

\* What a damaged map loses although it is valid by itself: no more than
\* there is no room for.
Spared(before, after, ids) ==
  \/ ids \subseteq {i \in Entries(after) : after[i] = before[i]}
  \/ Cardinality(Sound(before)) > Cap

\* Reading ends after each part was repaired at most once, and is refused
\* only for what cannot be derived.  What is read is valid; every pending
\* event that validates is pending still, unless its receipt is there, and
\* every receipt is kept, unless its event is pending with another body;
\* nothing is invented, and a ledger that is valid is not touched.
RepairIsExact ==
  /\ rounds <= 3
  /\ result = "refused" => ~raw.rest
  /\ FirstError(raw) = "none" => ledger = raw
  /\ result = "read" =>
       LET o == raw.outbox
           d == raw.delivered
           both == Sound(o) \cap Sound(d)
           same == {i \in both : o[i] = d[i]}
       IN  /\ ValidCoordination(ledger) /\ ledger.marks # "bad" /\ ledger.scorecard # "bad"
           /\ ledger.marks # raw.marks => raw.marks = "bad"
           /\ ledger.scorecard # raw.scorecard => raw.scorecard = "bad"
           /\ Spared(o, ledger.outbox, Sound(o) \ same) \/ Cardinality(Sound(d)) > Cap
           /\ Spared(d, ledger.delivered, Sound(d) \ (both \ same)) \/ Cardinality(Sound(o)) > Cap
           /\ \A i \in Entries(ledger.outbox) : ledger.outbox[i] = o[i]
           /\ \A i \in Entries(ledger.delivered) : ledger.delivered[i] = d[i]
           /\ ledger.degraded \/ ledger = [raw EXCEPT !.scorecard = ledger.scorecard]
=============================================================================
