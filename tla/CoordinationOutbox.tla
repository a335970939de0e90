------------------------- MODULE CoordinationOutbox -------------------------
(***************************************************************************)
(* The durable coordination outbox of core/ledger.py and the journal of    *)
(* core/scorecard_coordination.py.  An event is accepted into the outbox   *)
(* in the ledger write that commits its cause; afterwards any hook process *)
(* drains: it snapshots a batch under the lock, delivers the events one    *)
(* transaction each, and acknowledges in a last transaction.  Between      *)
(* these other processes drain, accept and acknowledge, and any of them    *)
(* may die.                                                                *)
(*                                                                         *)
(* One action is one ledger_transaction, which OwnerLock shows to exclude  *)
(* the others.  A ledger.json is replaced atomically, so a failed save     *)
(* leaves the ledger as it was.                                            *)
(***************************************************************************)
EXTENDS Integers, FiniteSets, Sequences, Picking

CONSTANTS
  Workers,     \* hook processes that drain
  Ids,         \* event ids; json sorts the outbox by id
  Bodies,      \* contents an event of one id can have (occurred_at differs)
  StableR2,    \* ids of R2 denials: any body of such an id is equivalent
  NoBody,      \* "not in this map"
  Cap,         \* MAX_COORDINATION_OUTBOX
  Batch,       \* COORDINATION_DRAIN_BATCH
  Legacy,      \* journals to start from: a version 1 ledger has no outbox
               \* and its events were appended directly
  CutsText,    \* can a torn write end inside a UTF-8 sequence?
  MaxFaults,   \* bound: deaths, failed saves and failed appends
  MaxAccept,   \* bound: events are accepted while the cursor is below this
  MaxCursor    \* bound: drains start while the cursor is below this

ASSUME OutboxAssumption ==
  /\ Ids \subseteq Nat /\ IsFiniteSet(Ids)
  /\ StableR2 \subseteq Ids
  /\ \A s \in Legacy : /\ s \in Seq(Ids \X Bodies)
                       /\ \A j, k \in DOMAIN s : s[j][1] = s[k][1] => j = k
  /\ NoBody \notin Bodies
  /\ Cap \in Nat \ {0} /\ Batch \in Nat \ {0}
  /\ CutsText \in BOOLEAN
  /\ MaxFaults \in Nat /\ MaxAccept \in Nat /\ MaxCursor \in Nat

VARIABLES
  outbox,      \* coordination_outbox: id -> body
  delivered,   \* coordination_delivered: id -> body in the journal
  order,       \* coordination_delivered_order, oldest first
  cursor,      \* coordination_drain_cursor
  degraded,    \* coordination_degraded
  journal,     \* the well-formed lines of coordination.jsonl
  fragment,    \* a malformed line: "none", "tail" (no newline yet), "inside"
  pc, todo, done, reach, bad,   \* the drain each worker is in, its locals
  faults,
  accepted     \* history: every event saved in the outbox or in Legacy

ledger == <<outbox, delivered, order, cursor, degraded>>
disk == <<journal, fragment>>
locals == <<pc, todo, done, reach, bad>>
vars == <<ledger, disk, locals, faults, accepted>>

Event == Ids \X Bodies
Pending == {i \in Ids : outbox[i] # NoBody}
Known(i) == outbox[i] # NoBody \/ delivered[i] # NoBody

TypeOK ==
  /\ outbox \in [Ids -> Bodies \cup {NoBody}]
  /\ delivered \in [Ids -> Bodies \cup {NoBody}]
  /\ order \in Seq(Ids)
  /\ cursor \in Nat /\ degraded \in BOOLEAN
  /\ journal \in Seq(Event)
  /\ fragment \in {"none", "tail", "inside"}
  /\ pc \in [Workers -> {"idle", "deliver", "ack"}]
  /\ todo \in [Workers -> Seq(Event)]
  /\ done \in [Workers -> Seq(Ids \X Bodies \X Bodies)]
  /\ reach \in [Workers -> Nat] /\ bad \in [Workers -> BOOLEAN]
  /\ faults \in 0 .. MaxFaults
  /\ accepted \subseteq Event

Init ==
  /\ outbox = [i \in Ids |-> NoBody]
  /\ delivered = [i \in Ids |-> NoBody]
  /\ order = <<>> /\ cursor = 0 /\ degraded = FALSE
  /\ journal \in Legacy
  /\ fragment = "none"
  /\ pc = [w \in Workers |-> "idle"]
  /\ todo = [w \in Workers |-> <<>>]
  /\ done = [w \in Workers |-> <<>>]
  /\ reach = [w \in Workers |-> 0]
  /\ bad = [w \in Workers |-> FALSE]
  /\ faults = 0 /\ accepted = {journal[k] : k \in DOMAIN journal}

-----------------------------------------------------------------------------
(* Accepting.                                                              *)

\* The tail of _enqueue_coordination_raw for an id in neither map.
Admit(i, c) ==
  \/ /\ Cardinality(Pending) < Cap
     /\ outbox' = [outbox EXCEPT ![i] = c]
     /\ accepted' = accepted \cup {<<i, c>>}
     /\ UNCHANGED degraded
  \/ /\ Cardinality(Pending) >= Cap
     /\ degraded' = TRUE
     /\ UNCHANGED <<outbox, accepted>>

\* Variant: only the pending events are searched for the id.
RecordForgetsDelivered(i, c) ==
  /\ cursor < MaxAccept
  /\ outbox[i] = NoBody
  /\ Admit(i, c)
  /\ UNCHANGED <<delivered, order, cursor, disk, locals, faults>>

\* _enqueue_coordination_after_event, in the commit of a bootstrap event, and
\* record_r2_deny_coordination: a known id keeps its first body.
Record(i, c) ==
  /\ cursor < MaxAccept
  /\ ~Known(i)
  /\ Admit(i, c)
  /\ UNCHANGED <<delivered, order, cursor, disk, locals, faults>>

\* record_peer_coordination / enqueue_coordination_event: a known id must
\* come with the same body.
RecordPeer(i, c) ==
  /\ cursor < MaxAccept
  /\ \/ ~Known(i) /\ Admit(i, c)
     \/ /\ Known(i)
        /\ c # (IF delivered[i] # NoBody THEN delivered[i] ELSE outbox[i])
        /\ degraded' = TRUE
        /\ UNCHANGED <<outbox, accepted>>
  /\ UNCHANGED <<delivered, order, cursor, disk, locals, faults>>

-----------------------------------------------------------------------------
(* Draining.                                                               *)

\* The batch that starts at the cursor, in id order, around the end.
BatchFrom(items, n) ==
  [k \in 1 .. (IF n < Batch THEN n ELSE Batch) |->
     LET i == items[(((cursor % n) + k - 1) % n) + 1] IN <<i, outbox[i]>>]

\* _drain_coordination_outbox up to the unlock, and the first look at the
\* journal: a malformed line is reported as degraded.
DrainRead(w) ==
  /\ pc[w] = "idle" /\ Pending # {} /\ cursor < MaxCursor
  /\ LET n == Cardinality(Pending)
     IN  \E items \in [1 .. n -> Pending] :
           /\ \A a, b \in 1 .. n : a < b => items[a] < items[b]
           /\ todo' = [todo EXCEPT ![w] = BatchFrom(items, n)]
  /\ pc' = [pc EXCEPT ![w] = "deliver"]
  /\ done' = [done EXCEPT ![w] = <<>>]
  /\ reach' = [reach EXCEPT ![w] = cursor]
  /\ bad' = [bad EXCEPT ![w] = fragment # "none"]
  /\ UNCHANGED <<ledger, disk, faults, accepted>>

\* The lines load_coordination_journal returns: none of them if the file as
\* a whole does not decode.
Lines == IF CutsText /\ fragment # "none" THEN {}
         ELSE {journal[k] : k \in DOMAIN journal}

Absent(i) == \A l \in Lines : l[1] # i

\* _append_coordination_event: a newline first if the last line has none.
Append1(e) ==
  /\ journal' = Append(journal, e)
  /\ fragment' = IF fragment = "tail" THEN "inside" ELSE fragment

\* The head of the batch was attempted; the rest follows, or the loop ends.
Attempted(w, rest) ==
  /\ reach' = [reach EXCEPT ![w] = @ + 1]
  /\ todo' = [todo EXCEPT ![w] = rest]
  /\ pc' = [pc EXCEPT ![w] = IF rest = <<>> THEN "ack" ELSE "deliver"]

Receipt(w, e, body) ==
  done' = [done EXCEPT ![w] = Append(@, <<e[1], e[2], body>>)]

\* Variant: appended without a look at what the journal holds.
DeliverBlindly(w) ==
  /\ pc[w] = "deliver"
  /\ LET e == Head(todo[w])
     IN  Append1(e) /\ Receipt(w, e, e[2]) /\ UNCHANGED bad
  /\ Attempted(w, Tail(todo[w]))
  /\ UNCHANGED <<ledger, faults, accepted>>

\* record_coordination_event_for_delivery: already there, equivalent to what
\* is there, in conflict with it (CoordinationSchemaError), or appended.
Deliver(w) ==
  /\ pc[w] = "deliver"
  /\ LET e == Head(todo[w])
         same == {l \in Lines : l[1] = e[1]}
     IN  \/ /\ Absent(e[1])
            /\ Append1(e) /\ Receipt(w, e, e[2]) /\ UNCHANGED bad
         \/ /\ \E l \in same :
                 /\ l[2] = e[2] \/ e[1] \in StableR2
                 /\ Receipt(w, e, l[2])
            /\ UNCHANGED <<disk, bad>>
         \/ /\ \E l \in same : l[2] # e[2] /\ e[1] \notin StableR2
            /\ bad' = [bad EXCEPT ![w] = TRUE]
            /\ UNCHANGED <<disk, done>>
  /\ Attempted(w, Tail(todo[w]))
  /\ UNCHANGED <<ledger, faults, accepted>>

\* Any other exception (lock timeout, full disk, failed fsync) ends the loop:
\* nothing, everything or the beginning of the line was written.
DeliverFails(w) ==
  /\ pc[w] = "deliver" /\ faults < MaxFaults
  /\ faults' = faults + 1
  /\ LET e == Head(todo[w])
     IN  \/ UNCHANGED disk
         \/ Absent(e[1]) /\ Append1(e)
         \/ Absent(e[1]) /\ fragment' = "tail" /\ UNCHANGED journal
  /\ bad' = [bad EXCEPT ![w] = TRUE]
  /\ Attempted(w, <<>>)
  /\ UNCHANGED <<ledger, done, accepted>>

-----------------------------------------------------------------------------
(* Acknowledging.                                                          *)

\* Receipts whose event is still pending with the very body that was sent.
Exact(w) ==
  Picked(done[w], {k \in DOMAIN done[w] : outbox[done[w][k][1]] = done[w][k][2]})
InExact(w, i) ==
  \E k \in DOMAIN done[w] : done[w][k][1] = i /\ outbox[i] = done[w][k][2]

Latest(s) == IF Len(s) > Cap THEN SubSeq(s, Len(s) - Cap + 1, Len(s)) ELSE s

OrderAfter(w) ==
  Latest(Picked(order, {k \in DOMAIN order : ~InExact(w, order[k])})
           \o [k \in 1 .. Len(Exact(w)) |-> Exact(w)[k][1]])

\* The receipt kept for each id that stays: the journal's body.
DeliveredAfter(w) ==
  [i \in Ids |->
     IF \A k \in DOMAIN OrderAfter(w) : OrderAfter(w)[k] # i THEN NoBody
     ELSE IF InExact(w, i)
          THEN LET k == CHOOSE k \in DOMAIN done[w] : done[w][k][1] = i
               IN  done[w][k][3]
     ELSE delivered[i]]

AckedOutbox(w) == [i \in Ids |-> IF InExact(w, i) THEN NoBody ELSE outbox[i]]

Finish(w) ==
  /\ pc' = [pc EXCEPT ![w] = "idle"]
  /\ todo' = [todo EXCEPT ![w] = <<>>] /\ done' = [done EXCEPT ![w] = <<>>]
  /\ reach' = [reach EXCEPT ![w] = 0] /\ bad' = [bad EXCEPT ![w] = FALSE]

\* Variant: any body of the id is taken away.
AckById(w) ==
  /\ pc[w] = "ack"
  /\ outbox' = [i \in Ids |-> IF \E k \in DOMAIN done[w] : done[w][k][1] = i
                              THEN NoBody ELSE outbox[i]]
  /\ delivered' = DeliveredAfter(w)
  /\ order' = OrderAfter(w)
  /\ degraded' = (degraded \/ bad[w])
  /\ cursor' = IF reach[w] > cursor THEN reach[w] ELSE cursor
  /\ Finish(w)
  /\ UNCHANGED <<disk, faults, accepted>>

\* Variant: the receipt keeps the body that was sent.
AckSentBody(w) ==
  /\ pc[w] = "ack"
  /\ outbox' = AckedOutbox(w)
  /\ delivered' = [i \in Ids |-> IF InExact(w, i) THEN outbox[i]
                                 ELSE DeliveredAfter(w)[i]]
  /\ order' = OrderAfter(w)
  /\ degraded' = (degraded \/ bad[w])
  /\ cursor' = IF reach[w] > cursor THEN reach[w] ELSE cursor
  /\ Finish(w)
  /\ UNCHANGED <<disk, faults, accepted>>

\* Variant: the next drain starts where this one did.
AckKeepsCursor(w) ==
  /\ pc[w] = "ack"
  /\ outbox' = AckedOutbox(w)
  /\ delivered' = DeliveredAfter(w)
  /\ order' = OrderAfter(w)
  /\ degraded' = (degraded \/ bad[w])
  /\ Finish(w)
  /\ UNCHANGED <<cursor, disk, faults, accepted>>

\* _ack_coordination_outbox.
Ack(w) ==
  /\ pc[w] = "ack"
  /\ outbox' = AckedOutbox(w)
  /\ delivered' = DeliveredAfter(w)
  /\ order' = OrderAfter(w)
  /\ degraded' = (degraded \/ bad[w])
  /\ cursor' = IF reach[w] > cursor THEN reach[w] ELSE cursor
  /\ Finish(w)
  /\ UNCHANGED <<disk, faults, accepted>>

\* The process dies between two transactions, or its last save fails.
Abandon(w) ==
  /\ pc[w] # "idle" /\ faults < MaxFaults
  /\ faults' = faults + 1
  /\ Finish(w)
  /\ UNCHANGED <<ledger, disk, accepted>>

-----------------------------------------------------------------------------
Accepting == \E i \in Ids, c \in Bodies : Record(i, c) \/ RecordPeer(i, c)

Step(w) ==
  DrainRead(w) \/ Deliver(w) \/ DeliverFails(w) \/ Ack(w) \/ Abandon(w)

Next == Accepting \/ \E w \in Workers : Step(w)

Spec == Init /\ [][Next]_vars

\* While events are pending every hook event starts another drain, and a
\* process that is not killed runs on; faults are finitely many.
Fairness ==
  \A w \in Workers : WF_vars(DrainRead(w)) /\ WF_vars(Deliver(w) \/ Ack(w))

FairSpec == Spec /\ Fairness

-----------------------------------------------------------------------------
(* Properties.                                                             *)

Logged == {journal[k] : k \in DOMAIN journal}

\* The journal's line for this event: its own, or an equivalent R2 denial.
Recorded(e) ==
  e \in Logged \/ (e[1] \in StableR2 /\ \E l \in Logged : l[1] = e[1])

\* An accepted event is pending as it was accepted, or it is in the journal:
\* no crash, failed save, stale acknowledgement or eviction loses it.
AcceptedNotLost == \A e \in accepted : outbox[e[1]] = e[2] \/ Recorded(e)

\* A delivered receipt is the journal's line, so a later submission is
\* compared with what readers see.
DeliveredIsJournaled ==
  \A i \in Ids : delivered[i] # NoBody => <<i, delivered[i]>> \in Logged

\* The journal has one line per event id, however often it is delivered.
JournalAtMostOnce ==
  \A j, k \in DOMAIN journal : journal[j][1] = journal[k][1] => j = k

\* The ledger stays one its own schema accepts: the two maps do not overlap,
\* are bounded, and the order lists each receipt once.
LedgerStaysValid ==
  /\ \A i \in Ids : outbox[i] = NoBody \/ delivered[i] = NoBody
  /\ Cardinality(Pending) <= Cap /\ Len(order) <= Cap
  /\ \A j, k \in DOMAIN order : order[j] = order[k] => j = k
  /\ {order[k] : k \in DOMAIN order} = {i \in Ids : delivered[i] # NoBody}

\* Every pending event is journaled in the end: conflicting events that stay
\* pending for ever do not starve the others.
EventuallyJournaled ==
  \A i \in Ids : outbox[i] # NoBody ~> \E l \in Logged : l[1] = i

\* Readers see the abstract exactly-once log.
A == INSTANCE AuditLog WITH log <- Logged

ImplementsAuditLog == A!Spec
=============================================================================
