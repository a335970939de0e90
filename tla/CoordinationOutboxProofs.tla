---------------------- MODULE CoordinationOutboxProofs ----------------------
(***************************************************************************)
(* For any number of drainers, events, faults and any capacity: accepted   *)
(* events are not lost, receipts tell what the journal holds, and (as long *)
(* as the journal stays decodable) the journal is the abstract log.        *)
(*                                                                         *)
(* The strengthening says what a drainer may rely on although the ledger   *)
(* moves on while it works: its receipts are backed by lines that are      *)
(* never removed, and everything it still has to send was accepted.        *)
(*                                                                         *)
(* And the ledger stays one that its schema accepts, which rests on one    *)
(* more: a drain has at most one receipt for an id (OneReceipt), as its    *)
(* batch takes no pending event twice.                                     *)
(***************************************************************************)
EXTENDS CoordinationOutbox, PickingProofs, SequenceTheorems

\* The types the argument needs; the receipts' order plays no part in it.
Types ==
  /\ outbox \in [Ids -> Bodies \cup {NoBody}]
  /\ delivered \in [Ids -> Bodies \cup {NoBody}]
  /\ cursor \in Nat /\ reach \in [Workers -> Nat]
  /\ journal \in Seq(Event)
  /\ pc \in [Workers -> {"idle", "deliver", "ack"}]
  /\ todo \in [Workers -> Seq(Event)]
  /\ done \in [Workers -> Seq(Ids \X Bodies \X Bodies)]
  /\ accepted \subseteq Event

TodoInv == \A w \in Workers :
  /\ pc[w] = "deliver" => todo[w] # <<>>
  /\ \A k \in DOMAIN todo[w] : todo[w][k] \in accepted

Backed(d) ==
  /\ <<d[1], d[3]>> \in Logged
  /\ d[2] = d[3] \/ d[1] \in StableR2

DoneInv == \A w \in Workers : \A k \in DOMAIN done[w] : Backed(done[w][k])

PendingInv == \A i \in Ids : outbox[i] # NoBody => <<i, outbox[i]>> \in accepted

IInv ==
  /\ Types /\ TodoInv /\ DoneInv /\ PendingInv
  /\ AcceptedNotLost /\ DeliveredIsJournaled /\ Logged \subseteq accepted

-----------------------------------------------------------------------------
(* Sequences and the journal.                                              *)

\* Appending a line adds that line to what is logged, and nothing else.
LEMMA AppendLogged ==
  ASSUME journal \in Seq(Event), NEW e \in Event, journal' = Append(journal, e)
  PROVE  /\ journal' \in Seq(Event)
         /\ Logged' = Logged \cup {e}
<1>1. /\ journal' \in Seq(Event)
      /\ DOMAIN journal = 1 .. Len(journal) /\ Len(journal) \in Nat
      /\ DOMAIN journal' = 1 .. (Len(journal) + 1)
      /\ \A k \in 1 .. Len(journal) : journal'[k] = journal[k]
      /\ journal'[Len(journal) + 1] = e
  OBVIOUS
<1> QED
  BY <1>1 DEF Logged

\* The invariant depends on the ledger's drain cursor, order and flags in no
\* way: a step that leaves its own variables alone keeps it.
LEMMA Framed ==
  ASSUME IInv,
         cursor' \in Nat,
         UNCHANGED <<outbox, delivered, journal, pc, todo, done, reach,
                     accepted>>
  PROVE  IInv'
  BY DEF IInv, Types, TodoInv, DoneInv, Backed, PendingInv, AcceptedNotLost,
         DeliveredIsJournaled, Recorded, Logged

LEMMA InitIInv == Init => IInv
<1> SUFFICES ASSUME Init PROVE IInv
  OBVIOUS
<1> USE OutboxAssumption DEF Init
<1>1. journal \in Seq(Event)
  BY DEF Event
<1>2. accepted \subseteq Event /\ Logged = accepted
  BY <1>1 DEF Logged
<1>3. Types
  BY <1>1, <1>2 DEF Types
<1>4. TodoInv /\ DoneInv /\ PendingInv
  BY DEF TodoInv, DoneInv, PendingInv
<1>5. AcceptedNotLost /\ DeliveredIsJournaled
  BY <1>2 DEF AcceptedNotLost, Recorded, DeliveredIsJournaled
<1> QED
  BY <1>2, <1>3, <1>4, <1>5 DEF IInv

-----------------------------------------------------------------------------
(* Accepting.                                                              *)

LEMMA AcceptingIInv ==
  ASSUME IInv, Accepting
  PROVE  IInv'
<1>1. PICK i \in Ids, c \in Bodies : Record(i, c) \/ RecordPeer(i, c)
  BY DEF Accepting
<1>2. UNCHANGED <<cursor, delivered, journal, pc, todo, done, reach>>
  BY <1>1 DEF Record, RecordPeer, disk, locals
<1>3. CASE UNCHANGED <<outbox, accepted>>
  BY <1>2, <1>3, Framed DEF IInv, Types
<1>4. CASE /\ ~Known(i)
           /\ outbox' = [outbox EXCEPT ![i] = c]
           /\ accepted' = accepted \cup {<<i, c>>}
  <2> USE <1>2, <1>4 DEF IInv, Types
  <2>1. Types' /\ Logged' = Logged
    BY DEF Event, Logged
  <2>2. TodoInv' /\ DoneInv'
    BY <2>1 DEF TodoInv, DoneInv, Backed
  <2>3. PendingInv'
    BY DEF PendingInv
  <2>4. AcceptedNotLost'
    <3> SUFFICES ASSUME NEW e \in accepted'
                 PROVE  outbox'[e[1]] = e[2] \/ Recorded(e)'
      BY DEF AcceptedNotLost
    <3>1. CASE e = <<i, c>>
      BY <3>1
    <3>2. CASE e \in accepted /\ e[1] # i
      BY <2>1, <3>2 DEF AcceptedNotLost, Recorded, Event
    <3>3. CASE e \in accepted /\ e[1] = i
      <4>1. e[2] # outbox[i]
        BY <3>3, OutboxAssumption DEF Known, Event
      <4> QED
        BY <2>1, <3>3, <4>1 DEF AcceptedNotLost, Recorded
    <3> QED
      BY <3>1, <3>2, <3>3
  <2>5. DeliveredIsJournaled' /\ (Logged \subseteq accepted)'
    BY <2>1 DEF DeliveredIsJournaled
  <2> QED
    BY <2>1, <2>2, <2>3, <2>4, <2>5
<1> QED
  BY <1>1, <1>3, <1>4 DEF Record, RecordPeer, Admit

-----------------------------------------------------------------------------
(* Draining.                                                               *)

LEMMA DrainReadIInv ==
  ASSUME IInv, NEW w \in Workers, DrainRead(w)
  PROVE  IInv'
<1> USE OutboxAssumption DEF IInv, Types
<1> DEFINE n == Cardinality(Pending)
<1>1. n \in Nat \ {0}
  <2>1. IsFiniteSet(Pending)
    BY FS_Subset DEF Pending
  <2> QED
    BY <2>1, FS_CardinalityType, FS_EmptySet DEF DrainRead
<1>2. PICK items \in [1 .. n -> Pending] :
        todo' = [todo EXCEPT ![w] = BatchFrom(items, n)]
  BY DEF DrainRead
<1>3. /\ BatchFrom(items, n) \in Seq(Event)
      /\ BatchFrom(items, n) # <<>>
      /\ \A k \in DOMAIN BatchFrom(items, n) :
           BatchFrom(items, n)[k] \in accepted
  <2> DEFINE m == IF n < Batch THEN n ELSE Batch
             at(k) == (((cursor % n) + k - 1) % n) + 1
  <2>1. m \in Nat \ {0}
    BY <1>1
  <2>2. ASSUME NEW k \in 1 .. m
        PROVE  <<items[at(k)], outbox[items[at(k)]]>> \in accepted
    <3>1. (cursor % n) + k - 1 \in Nat
      BY <1>1, <2>1
    <3>2. at(k) \in 1 .. n
      BY SMTT(30), <1>1, <3>1
    <3>3. items[at(k)] \in Pending
      BY <3>2
    <3> QED
      BY <3>3 DEF PendingInv, Pending
  <2>3. BatchFrom(items, n)
          = [k \in 1 .. m |-> <<items[at(k)], outbox[items[at(k)]]>>]
    BY DEF BatchFrom
  <2> HIDE DEF m, at
  <2>4. BatchFrom(items, n) \in [1 .. m -> accepted]
    BY <2>2, <2>3
  <2>5. BatchFrom(items, n) \in Seq(Event)
    BY <2>1, <2>4, SeqDef
  <2> QED
    BY <2>1, <2>4, <2>5
<1>4. /\ UNCHANGED <<outbox, delivered, cursor, journal, accepted>>
      /\ pc' = [pc EXCEPT ![w] = "deliver"]
      /\ reach' = [reach EXCEPT ![w] = cursor]
      /\ done' = [done EXCEPT ![w] = <<>>]
  BY DEF DrainRead, ledger, disk
<1> HIDE DEF n
<1>5. Types' /\ Logged' = Logged
  BY <1>2, <1>3, <1>4 DEF Logged
<1>6. TodoInv'
  BY <1>2, <1>3, <1>4 DEF TodoInv
<1>7. DoneInv' /\ PendingInv'
  BY <1>4, <1>5 DEF DoneInv, Backed, PendingInv
<1>8. AcceptedNotLost' /\ DeliveredIsJournaled'
  BY <1>4, <1>5 DEF AcceptedNotLost, Recorded, DeliveredIsJournaled
<1> QED
  BY <1>4, <1>5, <1>6, <1>7, <1>8

\* The event at the head of a batch was accepted, and so was what follows.
LEMMA HeadOfBatch ==
  ASSUME IInv, NEW w \in Workers, pc[w] = "deliver"
  PROVE  /\ Head(todo[w]) \in accepted /\ Head(todo[w]) \in Event
         /\ Tail(todo[w]) \in Seq(Event)
         /\ \A k \in DOMAIN Tail(todo[w]) : Tail(todo[w])[k] \in accepted
<1> DEFINE s == todo[w]
<1>1. s \in Seq(Event) /\ s # <<>> /\ \A k \in DOMAIN s : s[k] \in accepted
  BY DEF IInv, Types, TodoInv
<1>2. accepted \subseteq Event
  BY DEF IInv, Types
<1> HIDE DEF s
<1>3. /\ Head(s) = s[1] /\ 1 \in DOMAIN s
      /\ Tail(s) \in Seq(Event)
      /\ \A k \in DOMAIN Tail(s) : k + 1 \in DOMAIN s /\ Tail(s)[k] = s[k + 1]
  BY <1>1
<1> QED
  BY <1>1, <1>2, <1>3 DEF s

\* A delivery step moves on in its batch.
LEMMA AttemptedTodo ==
  ASSUME IInv, NEW w \in Workers, NEW rest \in Seq(Event),
         \A k \in DOMAIN rest : rest[k] \in accepted,
         Attempted(w, rest), UNCHANGED accepted
  PROVE  /\ TodoInv'
         /\ todo' \in [Workers -> Seq(Event)]
         /\ pc' \in [Workers -> {"idle", "deliver", "ack"}]
         /\ reach' \in [Workers -> Nat]
  BY DEF IInv, Types, TodoInv, Attempted

\* While the maps stay, a journal that only grows keeps what is said of them.
LEMMA LoggedGrows ==
  ASSUME IInv, UNCHANGED <<outbox, delivered, accepted>>,
         Logged \subseteq Logged'
  PROVE  PendingInv' /\ AcceptedNotLost' /\ DeliveredIsJournaled'
  BY DEF IInv, PendingInv, AcceptedNotLost, Recorded, DeliveredIsJournaled

\* A receipt backed by the journal joins the worker's other receipts.
LEMMA ReceiptDone ==
  ASSUME IInv, NEW w \in Workers, NEW e \in Event, NEW b \in Bodies,
         Receipt(w, e, b), Logged \subseteq Logged',
         <<e[1], b>> \in Logged', e[2] = b \/ e[1] \in StableR2
  PROVE  /\ DoneInv'
         /\ done' \in [Workers -> Seq(Ids \X Bodies \X Bodies)]
<1> DEFINE d == <<e[1], e[2], b>>
<1>1. d \in Ids \X Bodies \X Bodies
  BY DEF Event
<1>2. done' = [done EXCEPT ![w] = Append(@, d)]
  BY DEF Receipt
<1>3. done \in [Workers -> Seq(Ids \X Bodies \X Bodies)]
  BY DEF IInv, Types
<1>4. d[1] = e[1] /\ d[2] = e[2] /\ d[3] = b
  OBVIOUS
<1> HIDE DEF d
<1>5. \A v \in Workers : \A k \in DOMAIN done'[v] :
        done'[v][k] = d \/ (k \in DOMAIN done[v] /\ done'[v][k] = done[v][k])
  BY <1>1, <1>2, <1>3
<1>6. DoneInv'
  BY <1>4, <1>5 DEF IInv, DoneInv, Backed
<1> QED
  BY <1>1, <1>2, <1>3, <1>6

LEMMA LinesLogged == Lines \subseteq Logged
  BY DEF Lines, Logged

LEMMA DeliverIInv ==
  ASSUME IInv, NEW w \in Workers, Deliver(w)
  PROVE  IInv'
<1> DEFINE e == Head(todo[w])
<1>1. UNCHANGED <<outbox, delivered, cursor, accepted>> /\ pc[w] = "deliver"
  BY DEF Deliver, ledger
<1>2. e \in accepted /\ e \in Event
  BY <1>1, HeadOfBatch
<1>3. /\ TodoInv'
      /\ todo' \in [Workers -> Seq(Event)]
      /\ pc' \in [Workers -> {"idle", "deliver", "ack"}]
      /\ reach' \in [Workers -> Nat]
  <2>1. Attempted(w, Tail(todo[w]))
    BY DEF Deliver
  <2> QED
    BY <1>1, <2>1, HeadOfBatch, AttemptedTodo
<1>4. \/ Append1(e) /\ Receipt(w, e, e[2])
      \/ /\ \E l \in Lines : /\ l[1] = e[1]
                             /\ l[2] = e[2] \/ e[1] \in StableR2
                             /\ Receipt(w, e, l[2])
         /\ UNCHANGED journal
      \/ UNCHANGED <<journal, done>>
  BY DEF Deliver, disk
<1> HIDE DEF e
<1>5. /\ journal' \in Seq(Event) /\ Logged \subseteq Logged'
      /\ Logged' \subseteq accepted
      /\ DoneInv' /\ done' \in [Workers -> Seq(Ids \X Bodies \X Bodies)]
  <2>1. CASE Append1(e) /\ Receipt(w, e, e[2])
    <3>1. journal' \in Seq(Event) /\ Logged' = Logged \cup {e}
      BY <1>2, <2>1, AppendLogged DEF IInv, Types, Append1
    <3>2. e[2] \in Bodies /\ e = <<e[1], e[2]>>
      BY <1>2 DEF Event
    <3> QED
      BY <1>2, <2>1, <3>1, <3>2, ReceiptDone DEF IInv
  <2>2. ASSUME NEW l \in Lines, l[1] = e[1],
               l[2] = e[2] \/ e[1] \in StableR2, Receipt(w, e, l[2]),
               UNCHANGED journal
        PROVE  /\ journal' \in Seq(Event) /\ Logged \subseteq Logged'
               /\ Logged' \subseteq accepted
               /\ DoneInv'
               /\ done' \in [Workers -> Seq(Ids \X Bodies \X Bodies)]
    <3>1. Logged' = Logged /\ journal' \in Seq(Event)
      BY <2>2 DEF Logged, IInv, Types
    <3>2. l \in Logged /\ l \in Event
      BY LinesLogged DEF IInv, Types
    <3>3. l[2] \in Bodies /\ l = <<e[1], l[2]>>
      BY <2>2, <3>2 DEF Event
    <3> QED
      BY <1>2, <2>2, <3>1, <3>2, <3>3, ReceiptDone DEF IInv
  <2>3. CASE UNCHANGED <<journal, done>>
    BY <2>3 DEF IInv, Types, Logged, DoneInv, Backed
  <2> QED
    BY <1>4, <2>1, <2>2, <2>3
<1>6. PendingInv' /\ AcceptedNotLost' /\ DeliveredIsJournaled'
  BY <1>1, <1>5, LoggedGrows
<1> QED
  BY <1>1, <1>3, <1>5, <1>6 DEF IInv, Types

LEMMA DeliverFailsIInv ==
  ASSUME IInv, NEW w \in Workers, DeliverFails(w)
  PROVE  IInv'
<1> DEFINE e == Head(todo[w])
<1>1. /\ UNCHANGED <<outbox, delivered, cursor, done, accepted>>
      /\ pc[w] = "deliver"
  BY DEF DeliverFails, ledger
<1>2. e \in accepted /\ e \in Event
  BY <1>1, HeadOfBatch
<1>3. /\ TodoInv'
      /\ todo' \in [Workers -> Seq(Event)]
      /\ pc' \in [Workers -> {"idle", "deliver", "ack"}]
      /\ reach' \in [Workers -> Nat]
  <2>1. Attempted(w, <<>>)
    BY DEF DeliverFails
  <2>2. <<>> \in Seq(Event) /\ DOMAIN <<>> = {}
    OBVIOUS
  <2> QED
    BY <1>1, <2>1, <2>2, AttemptedTodo
<1>4. UNCHANGED journal \/ Append1(e)
  BY DEF DeliverFails, disk
<1> HIDE DEF e
<1>5. /\ journal' \in Seq(Event) /\ Logged \subseteq Logged'
      /\ Logged' \subseteq accepted
  <2>1. CASE UNCHANGED journal
    BY <2>1 DEF IInv, Types, Logged
  <2>2. CASE Append1(e)
    BY <1>2, <2>2, AppendLogged DEF IInv, Types, Append1
  <2> QED
    BY <1>4, <2>1, <2>2
<1>6. PendingInv' /\ AcceptedNotLost' /\ DeliveredIsJournaled'
  BY <1>1, <1>5, LoggedGrows
<1>7. DoneInv'
  BY <1>1, <1>5 DEF IInv, DoneInv, Backed
<1> QED
  BY <1>1, <1>3, <1>5, <1>6, <1>7 DEF IInv, Types

-----------------------------------------------------------------------------
(* Acknowledging.                                                          *)

\* Ending a drain clears the worker's locals.
LEMMA FinishLocals ==
  ASSUME IInv, NEW w \in Workers, Finish(w), UNCHANGED <<journal, accepted>>
  PROVE  /\ TodoInv' /\ DoneInv'
         /\ todo' \in [Workers -> Seq(Event)]
         /\ pc' \in [Workers -> {"idle", "deliver", "ack"}]
         /\ reach' \in [Workers -> Nat]
         /\ done' \in [Workers -> Seq(Ids \X Bodies \X Bodies)]
  BY DEF IInv, Types, TodoInv, DoneInv, Backed, Logged, Finish

\* What an acknowledgement takes out of the outbox is in the journal.
LEMMA ExactIsRecorded ==
  ASSUME IInv, NEW w \in Workers, NEW i \in Ids, InExact(w, i)
  PROVE  /\ outbox[i] \in Bodies /\ Recorded(<<i, outbox[i]>>)
         /\ LET k == CHOOSE k \in DOMAIN done[w] : done[w][k][1] = i
            IN  done[w][k][3] \in Bodies /\ <<i, done[w][k][3]>> \in Logged
<1>1. PICK k \in DOMAIN done[w] :
        done[w][k][1] = i /\ outbox[i] = done[w][k][2]
  BY DEF InExact
<1>2. \A j \in DOMAIN done[w] :
        /\ done[w][j] \in Ids \X Bodies \X Bodies
        /\ Backed(done[w][j])
  BY DEF IInv, Types, DoneInv
<1>3. outbox[i] \in Bodies /\ Recorded(<<i, outbox[i]>>)
  BY <1>1, <1>2 DEF Backed, Recorded
<1> DEFINE m == CHOOSE j \in DOMAIN done[w] : done[w][j][1] = i
<1>4. m \in DOMAIN done[w] /\ done[w][m][1] = i
  BY <1>1
<1> HIDE DEF m
<1>5. done[w][m][3] \in Bodies /\ <<i, done[w][m][3]>> \in Logged
  BY <1>2, <1>4 DEF Backed
<1> QED
  BY <1>3, <1>5 DEF m

LEMMA AckIInv ==
  ASSUME IInv, NEW w \in Workers, Ack(w)
  PROVE  IInv'
<1> USE OutboxAssumption
<1>1. /\ outbox' = AckedOutbox(w) /\ delivered' = DeliveredAfter(w)
      /\ UNCHANGED <<journal, accepted>> /\ Finish(w)
      /\ cursor' = IF reach[w] > cursor THEN reach[w] ELSE cursor
  BY DEF Ack, disk
<1>2. Logged' = Logged
  BY <1>1 DEF Logged
<1>3. \A i \in Ids :
        /\ delivered'[i] \in Bodies \cup {NoBody}
        /\ delivered'[i] # NoBody => <<i, delivered'[i]>> \in Logged
  <2> SUFFICES ASSUME NEW i \in Ids
               PROVE  /\ delivered'[i] \in Bodies \cup {NoBody}
                      /\ delivered'[i] # NoBody =>
                           <<i, delivered'[i]>> \in Logged
    OBVIOUS
  <2> DEFINE k == CHOOSE k \in DOMAIN done[w] : done[w][k][1] = i
  <2>1. CASE InExact(w, i)
    <3>1. done[w][k][3] \in Bodies /\ <<i, done[w][k][3]>> \in Logged
      BY <2>1, ExactIsRecorded
    <3> HIDE DEF k
    <3>2. delivered'[i] \in {NoBody, done[w][k][3]}
      BY <1>1, <2>1 DEF DeliveredAfter, k
    <3> QED
      BY <3>1, <3>2
  <2>2. CASE ~InExact(w, i)
    BY <1>1, <2>2 DEF DeliveredAfter, IInv, Types, DeliveredIsJournaled
  <2> QED
    BY <2>1, <2>2
<1>4. \A i \in Ids :
        outbox'[i] = outbox[i]
          \/ (outbox'[i] = NoBody /\ Recorded(<<i, outbox[i]>>))
  BY <1>1, ExactIsRecorded DEF AckedOutbox
<1>5. /\ outbox' \in [Ids -> Bodies \cup {NoBody}]
      /\ delivered' \in [Ids -> Bodies \cup {NoBody}]
  BY <1>1, <1>3 DEF AckedOutbox, DeliveredAfter, IInv, Types
<1>6. PendingInv' /\ DeliveredIsJournaled'
  BY <1>1, <1>2, <1>3, <1>4 DEF IInv, PendingInv, DeliveredIsJournaled
<1>7. AcceptedNotLost'
  <2> SUFFICES ASSUME NEW e \in accepted
               PROVE  outbox'[e[1]] = e[2] \/ Recorded(e)
    BY <1>1, <1>2 DEF AcceptedNotLost, Recorded
  <2>1. e[1] \in Ids /\ e = <<e[1], e[2]>>
    BY DEF IInv, Types, Event
  <2> QED
    BY <1>4, <2>1 DEF IInv, AcceptedNotLost
<1>8. cursor' \in Nat
  BY <1>1 DEF IInv, Types
<1> QED
  BY <1>1, <1>2, <1>5, <1>6, <1>7, <1>8, FinishLocals DEF IInv, Types

LEMMA AbandonIInv ==
  ASSUME IInv, NEW w \in Workers, Abandon(w)
  PROVE  IInv'
<1>1. Finish(w) /\ UNCHANGED <<outbox, delivered, cursor, journal, accepted>>
  BY DEF Abandon, ledger, disk
<1>2. Logged \subseteq Logged'
  BY <1>1 DEF Logged
<1> QED
  BY <1>1, <1>2, FinishLocals, LoggedGrows DEF IInv, Types, Logged

-----------------------------------------------------------------------------
(* The theorems.                                                           *)

LEMMA NextIInv == IInv /\ [Next]_vars => IInv'
<1> SUFFICES ASSUME IInv, [Next]_vars PROVE IInv'
  OBVIOUS
<1>1. CASE Accepting
  BY <1>1, AcceptingIInv
<1>2. ASSUME NEW w \in Workers, Step(w) PROVE IInv'
  BY <1>2, DrainReadIInv, DeliverIInv, DeliverFailsIInv, AckIInv, AbandonIInv
  DEF Step
<1>3. CASE UNCHANGED vars
  BY <1>3, Framed DEF vars, ledger, disk, locals, IInv, Types
<1> QED
  BY <1>1, <1>2, <1>3 DEF Next

\* What workers hold, the ledger and the journal always fit together.
THEOREM OutboxInvariant == Spec => []IInv
  BY InitIInv, NextIInv, PTL DEF Spec

\* No accepted event is ever lost, whatever dies or fails and when.
THEOREM AcceptedIsNotLost == Spec => []AcceptedNotLost
<1>1. IInv => AcceptedNotLost
  BY DEF IInv
<1> QED
  BY <1>1, OutboxInvariant, PTL

\* A delivered receipt always tells what the journal says.
THEOREM ReceiptsAreJournaled == Spec => []DeliveredIsJournaled
<1>1. IInv => DeliveredIsJournaled
  BY DEF IInv
<1> QED
  BY <1>1, OutboxInvariant, PTL

\* A decodable journal changes in one way only: a line for an accepted event
\* whose id has no line yet.
LEMMA JournalStep ==
  ASSUME CutsText = FALSE, IInv, [Next]_vars
  PROVE  \/ /\ UNCHANGED journal
            /\ UNCHANGED accepted
               \/ \E e \in Event : accepted' = accepted \cup {e}
         \/ \E e \in accepted :
              /\ e \in Event /\ journal' = Append(journal, e)
              /\ \A l \in Logged : l[1] # e[1]
              /\ UNCHANGED accepted
<1>1. CASE Accepting
  <2>1. PICK i \in Ids, c \in Bodies : Record(i, c) \/ RecordPeer(i, c)
    BY <1>1 DEF Accepting
  <2>2. UNCHANGED journal
    BY <2>1 DEF Record, RecordPeer, disk
  <2>3. UNCHANGED accepted \/ accepted' = accepted \cup {<<i, c>>}
    BY <2>1 DEF Record, RecordPeer, Admit
  <2> QED
    BY <2>2, <2>3 DEF Event
<1>2. ASSUME NEW w \in Workers, Deliver(w) \/ DeliverFails(w),
             journal' # journal
      PROVE  /\ Head(todo[w]) \in accepted /\ Head(todo[w]) \in Event
             /\ journal' = Append(journal, Head(todo[w]))
             /\ \A l \in Logged : l[1] # Head(todo[w])[1]
             /\ UNCHANGED accepted
  <2>1. Lines = Logged
    BY DEF Lines, Logged
  <2>2. pc[w] = "deliver" /\ UNCHANGED accepted
    BY <1>2 DEF Deliver, DeliverFails
  <2>3. Absent(Head(todo[w])[1]) /\ Append1(Head(todo[w]))
    BY <1>2 DEF Deliver, DeliverFails, disk
  <2> QED
    BY <2>1, <2>2, <2>3, HeadOfBatch DEF Absent, Append1
<1>3. ASSUME NEW w \in Workers, Deliver(w) \/ DeliverFails(w)
      PROVE  UNCHANGED accepted
  BY <1>3 DEF Deliver, DeliverFails
<1>4. ASSUME NEW w \in Workers, DrainRead(w) \/ Ack(w) \/ Abandon(w)
      PROVE  UNCHANGED <<journal, accepted>>
  BY <1>4 DEF DrainRead, Ack, Abandon, disk
<1>5. CASE UNCHANGED vars
  BY <1>5 DEF vars, disk
<1> QED
  BY <1>1, <1>2, <1>3, <1>4, <1>5 DEF Next, Step

\* A journal that stays decodable has one line per event id.
THEOREM OneLinePerEvent ==
  ASSUME CutsText = FALSE PROVE Spec => []JournalAtMostOnce
<1>1. Init => JournalAtMostOnce
  <2> SUFFICES ASSUME Init PROVE JournalAtMostOnce
    OBVIOUS
  <2>1. journal \in Legacy
    BY DEF Init
  <2> QED
    BY <2>1, OutboxAssumption DEF JournalAtMostOnce
<1>2. IInv /\ JournalAtMostOnce /\ [Next]_vars => JournalAtMostOnce'
  <2> SUFFICES ASSUME IInv, JournalAtMostOnce, [Next]_vars
               PROVE  JournalAtMostOnce'
    OBVIOUS
  <2>1. CASE UNCHANGED journal
    BY <2>1 DEF JournalAtMostOnce
  <2>2. ASSUME NEW e \in accepted, e \in Event, journal' = Append(journal, e),
               \A l \in Logged : l[1] # e[1]
        PROVE  JournalAtMostOnce'
    <3>1. /\ DOMAIN journal = 1 .. Len(journal) /\ Len(journal) \in Nat
          /\ DOMAIN journal' = 1 .. (Len(journal) + 1)
          /\ \A k \in 1 .. Len(journal) : journal'[k] = journal[k]
          /\ journal'[Len(journal) + 1] = e
      BY <2>2 DEF IInv, Types
    <3>2. \A k \in DOMAIN journal : journal[k][1] # e[1]
      BY <2>2 DEF Logged
    <3> QED
      BY <3>1, <3>2 DEF JournalAtMostOnce
  <2> QED
    BY CutsText = FALSE, <2>1, <2>2, JournalStep
<1> QED
  BY <1>1, <1>2, OutboxInvariant, PTL DEF Spec

\* Outbox and journal together implement the exactly-once log.
THEOREM OutboxImplementsAuditLog ==
  ASSUME CutsText = FALSE PROVE Spec => ImplementsAuditLog
<1>1. Init => A!Init
  <2> SUFFICES ASSUME Init PROVE A!Init
    OBVIOUS
  <2>1. Logged = accepted
    BY DEF Init, Logged
  <2>2. \A e, f \in Logged : e[1] = f[1] => e = f
    <3>1. \A j, k \in DOMAIN journal : journal[j][1] = journal[k][1] => j = k
      BY OutboxAssumption DEF Init
    <3> QED
      BY <3>1 DEF Logged
  <2> QED
    BY <2>1, <2>2 DEF A!Init
<1>2. IInv /\ [Next]_vars => [A!Next]_(A!logVars)
  <2> SUFFICES ASSUME IInv, [Next]_vars PROVE [A!Next]_(A!logVars)
    OBVIOUS
  <2>1. CASE UNCHANGED journal /\ UNCHANGED accepted
    BY <2>1 DEF A!logVars, Logged
  <2>2. ASSUME NEW e \in Event, UNCHANGED journal,
               accepted' = accepted \cup {e}
        PROVE  A!Next
    <3>1. Logged' = Logged
      BY <2>2 DEF Logged
    <3> QED
      BY <2>2, <3>1 DEF A!Next, A!Accept, Event
  <2>3. ASSUME NEW e \in accepted, e \in Event, journal' = Append(journal, e),
               \A l \in Logged : l[1] # e[1], UNCHANGED accepted
        PROVE  A!Next
    <3>1. Logged' = Logged \cup {e}
      BY <2>3, AppendLogged DEF IInv, Types
    <3> QED
      BY <2>3, <3>1 DEF A!Next, A!Publish, Event
  <2> QED
    BY CutsText = FALSE, <2>1, <2>2, <2>3, JournalStep
<1> QED
  BY <1>1, <1>2, OutboxInvariant, PTL DEF Spec, A!Spec, ImplementsAuditLog

-----------------------------------------------------------------------------
(* The ledger stays valid.                                                 *)

\* A drain has one event of each id, sent or still to send.
OneReceipt == \A w \in Workers :
  /\ \A j, k \in DOMAIN todo[w] : todo[w][j][1] = todo[w][k][1] => j = k
  /\ \A j, k \in DOMAIN done[w] : done[w][j][1] = done[w][k][1] => j = k
  /\ \A j \in DOMAIN todo[w], k \in DOMAIN done[w] : todo[w][j][1] # done[w][k][1]

ValidInv == IInv /\ OneReceipt /\ LedgerStaysValid /\ order \in Seq(Ids)

\* Around the end of the list no event comes twice.
LEMMA Around ==
  ASSUME NEW n \in Nat \ {0}, NEW c \in Nat, NEW j \in 1 .. n, NEW k \in 1 .. n, j # k
  PROVE  /\ (((c % n) + j - 1) % n) + 1 \in 1 .. n
         /\ (((c % n) + k - 1) % n) + 1 \in 1 .. n
         /\ (((c % n) + j - 1) % n) + 1 # (((c % n) + k - 1) % n) + 1
<1>1. c % n \in 0 .. n - 1
  OBVIOUS
<1>2. ASSUME NEW x \in 0 .. n - 1 PROVE x % n = x
  OBVIOUS
<1>3. ASSUME NEW x \in n .. 2 * n - 1 PROVE x % n = x - n
  OBVIOUS
<1> DEFINE r == c % n
<1> HIDE DEF r
<1>4. ASSUME NEW i \in 1 .. n PROVE (r + i - 1) % n = IF r + i - 1 < n THEN r + i - 1 ELSE r + i - 1 - n
  <2>1. r \in 0 .. n - 1
    BY <1>1 DEF r
  <2>2. CASE r + i - 1 < n
    BY <1>2, <2>1, <2>2
  <2>3. CASE r + i - 1 >= n
    BY <1>3, <2>1, <2>3
  <2> QED
    BY <2>1, <2>2, <2>3
<1>5. r \in 0 .. n - 1
  BY <1>1 DEF r
<1>6. /\ ((r + j - 1) % n) + 1 \in 1 .. n
      /\ ((r + k - 1) % n) + 1 \in 1 .. n
      /\ ((r + j - 1) % n) + 1 # ((r + k - 1) % n) + 1
  BY <1>4, <1>5
<1> QED
  BY <1>6 DEF r

LEMMA BatchIsDistinct ==
  ASSUME cursor \in Nat, Batch \in Nat \ {0}, NEW n \in Nat \ {0}, NEW items \in [1 .. n -> Ids],
         \A a, b \in 1 .. n : a < b => items[a] < items[b], Ids \subseteq Nat
  PROVE  \A j, k \in DOMAIN BatchFrom(items, n) :
           BatchFrom(items, n)[j][1] = BatchFrom(items, n)[k][1] => j = k
<1> DEFINE m == IF n < Batch THEN n ELSE Batch
           at(k) == (((cursor % n) + k - 1) % n) + 1
<1>1. m \in 1 .. n
  OBVIOUS
<1>2. \A a, b \in 1 .. n : items[a] = items[b] => a = b
  <2> SUFFICES ASSUME NEW a \in 1 .. n, NEW b \in 1 .. n, items[a] = items[b] PROVE a = b
    OBVIOUS
  <2>1. items[a] \in Nat /\ items[b] \in Nat
    OBVIOUS
  <2>2. ~(items[a] < items[b]) /\ ~(items[b] < items[a])
    BY <2>1
  <2>3. ~(a < b) /\ ~(b < a)
    BY <2>2
  <2>4. a \in Nat /\ b \in Nat
    OBVIOUS
  <2> QED
    BY <2>3, <2>4
<1>3. \A j, k \in 1 .. n : at(j) \in 1 .. n /\ (j # k => at(j) # at(k))
  <2> SUFFICES ASSUME NEW j \in 1 .. n, NEW k \in 1 .. n
               PROVE  at(j) \in 1 .. n /\ (j # k => at(j) # at(k))
    OBVIOUS
  <2>1. CASE j # k
    BY <2>1, Around
  <2>2. CASE j = k
    <3>1. CASE n = 1
      <4>1. (cursor % n) + j - 1 = 0
        BY <3>1
      <4> QED
        BY <3>1, <4>1
    <3>2. CASE n # 1
      <4>1. PICK i \in 1 .. n : i # j
        BY <3>2
      <4> QED
        BY <2>2, <4>1, Around
    <3> QED
      BY <3>1, <3>2
  <2> QED
    BY <2>1, <2>2
<1>4. BatchFrom(items, n) = [k \in 1 .. m |-> <<items[at(k)], outbox[items[at(k)]]>>]
  BY DEF BatchFrom
<1> DEFINE b == BatchFrom(items, n)
<1> HIDE DEF m, at
<1>5. DOMAIN b = 1 .. m /\ \A k \in 1 .. m : b[k][1] = items[at(k)]
  BY <1>4
<1>6. 1 .. m \subseteq 1 .. n
  BY <1>1
<1> HIDE DEF b
<1>7. \A j, k \in DOMAIN b : b[j][1] = b[k][1] => j = k
  BY <1>2, <1>3, <1>5, <1>6
<1> QED
  BY <1>7 DEF b

\* What depends on the ledger alone.
LEMMA LedgerFrame ==
  ASSUME LedgerStaysValid, UNCHANGED <<outbox, delivered, order>>
  PROVE  LedgerStaysValid'
  BY DEF LedgerStaysValid, Pending

LEMMA InitValid == Init => ValidInv
<1> SUFFICES ASSUME Init PROVE ValidInv
  OBVIOUS
<1>1. Pending = {} /\ order = <<>> /\ order \in Seq(Ids)
  BY DEF Init, Pending
<1>2. Cardinality(Pending) = 0
  BY <1>1, FS_EmptySet
<1>3. LedgerStaysValid
  BY <1>1, <1>2, OutboxAssumption DEF LedgerStaysValid, Init
<1> QED
  BY <1>1, <1>3, InitIInv DEF ValidInv, OneReceipt, Init

LEMMA AcceptingValid ==
  ASSUME ValidInv, Accepting
  PROVE  LedgerStaysValid' /\ OneReceipt' /\ order' \in Seq(Ids)
<1>1. PICK i \in Ids, c \in Bodies : Record(i, c) \/ RecordPeer(i, c)
  BY DEF Accepting
<1>2. UNCHANGED <<delivered, order, todo, done>>
  BY <1>1 DEF Record, RecordPeer, locals
<1>3. OneReceipt'
  BY <1>2 DEF ValidInv, OneReceipt
<1>4. CASE UNCHANGED outbox
  BY <1>2, <1>3, <1>4, LedgerFrame DEF ValidInv
<1>5. CASE ~Known(i) /\ Cardinality(Pending) < Cap /\ outbox' = [outbox EXCEPT ![i] = c]
  <2>1. Pending' \subseteq Pending \cup {i}
    BY <1>5 DEF Pending, ValidInv, IInv, Types
  <2>2. IsFiniteSet(Pending) /\ Cardinality(Pending) \in Nat
    BY FS_Subset, FS_CardinalityType, OutboxAssumption DEF Pending
  <2>3. /\ IsFiniteSet(Pending \cup {i})
        /\ Cardinality(Pending \cup {i}) \in Nat
        /\ Cardinality(Pending \cup {i}) <= Cardinality(Pending) + 1
    <3>1. /\ IsFiniteSet(Pending \cup {i})
          /\ Cardinality(Pending \cup {i}) =
               IF i \in Pending THEN Cardinality(Pending) ELSE Cardinality(Pending) + 1
      BY <2>2, FS_AddElement
    <3> QED
      BY <2>2, <3>1
  <2>4. Cardinality(Pending') \in Nat /\ Cardinality(Pending') <= Cardinality(Pending \cup {i})
    BY <2>1, <2>3, FS_Subset, FS_CardinalityType
  <2>5. Cardinality(Pending') <= Cap
    BY <1>5, <2>2, <2>3, <2>4, OutboxAssumption
  <2>6. \A j \in Ids : outbox'[j] = NoBody \/ delivered'[j] = NoBody
    BY <1>2, <1>5 DEF Known, ValidInv, LedgerStaysValid, IInv, Types
  <2> QED
    BY <1>2, <1>3, <2>5, <2>6 DEF ValidInv, LedgerStaysValid
<1> QED
  BY <1>1, <1>2, <1>4, <1>5 DEF Record, RecordPeer, Admit

LEMMA DrainReadValid ==
  ASSUME ValidInv, NEW w \in Workers, DrainRead(w)
  PROVE  LedgerStaysValid' /\ OneReceipt' /\ order' \in Seq(Ids)
<1> DEFINE n == Cardinality(Pending)
<1>1. UNCHANGED <<outbox, delivered, order>>
  BY DEF DrainRead, ledger
<1>2. n \in Nat \ {0}
  <2>1. IsFiniteSet(Pending)
    BY FS_Subset, OutboxAssumption DEF Pending
  <2> QED
    BY <2>1, FS_CardinalityType, FS_EmptySet DEF DrainRead
<1>3. PICK items \in [1 .. n -> Pending] :
        /\ \A a, b \in 1 .. n : a < b => items[a] < items[b]
        /\ todo' = [todo EXCEPT ![w] = BatchFrom(items, n)]
  BY DEF DrainRead
<1>4. items \in [1 .. n -> Ids]
  BY DEF Pending
<1> HIDE DEF n
<1>5. \A j, k \in DOMAIN BatchFrom(items, n) :
        BatchFrom(items, n)[j][1] = BatchFrom(items, n)[k][1] => j = k
  BY <1>2, <1>3, <1>4, BatchIsDistinct, OutboxAssumption DEF ValidInv, IInv, Types
<1>6. done' = [done EXCEPT ![w] = <<>>]
  BY DEF DrainRead
<1>7. OneReceipt'
  BY <1>3, <1>5, <1>6 DEF ValidInv, IInv, Types, OneReceipt
<1> QED
  BY <1>1, <1>7, LedgerFrame DEF ValidInv

LEMMA SendingValid ==
  ASSUME ValidInv, NEW w \in Workers, Deliver(w) \/ DeliverFails(w)
  PROVE  LedgerStaysValid' /\ OneReceipt' /\ order' \in Seq(Ids)
<1> DEFINE s == todo[w]
           e == Head(s)
<1>1. UNCHANGED <<outbox, delivered, order>> /\ pc[w] = "deliver"
  BY DEF Deliver, DeliverFails, ledger
<1>2. s \in Seq(Event) /\ s # <<>>
  BY <1>1 DEF ValidInv, IInv, Types, TodoInv
<1>3. /\ todo \in [Workers -> Seq(Event)]
      /\ done \in [Workers -> Seq(Ids \X Bodies \X Bodies)]
  BY DEF ValidInv, IInv, Types
<1>4. \/ todo' = [todo EXCEPT ![w] = Tail(s)]
      \/ todo' = [todo EXCEPT ![w] = <<>>]
  BY DEF Deliver, DeliverFails, Attempted
<1>5. \/ done' = done
      \/ /\ \E b : done' = [done EXCEPT ![w] = Append(@, <<e[1], e[2], b>>)]
         /\ todo' = [todo EXCEPT ![w] = Tail(s)]
  BY DEF Deliver, DeliverFails, Receipt, Attempted
<1> HIDE DEF s
<1>6. /\ 1 \in DOMAIN s /\ e = s[1]
      /\ \A k \in DOMAIN Tail(s) : k + 1 \in DOMAIN s /\ Tail(s)[k] = s[k + 1] /\ k \in Nat \ {0}
  BY <1>2
<1> HIDE DEF e
<1>7. /\ \A j, k \in DOMAIN s : s[j][1] = s[k][1] => j = k
      /\ \A j \in DOMAIN s, k \in DOMAIN done[w] : s[j][1] # done[w][k][1]
      /\ \A j, k \in DOMAIN done[w] : done[w][j][1] = done[w][k][1] => j = k
  BY DEF s, ValidInv, OneReceipt
<1>8. /\ \A j, k \in DOMAIN todo'[w] : todo'[w][j][1] = todo'[w][k][1] => j = k
      /\ \A j \in DOMAIN todo'[w] : \E i \in DOMAIN s : i # 1 /\ todo'[w][j] = s[i]
  <2>1. CASE todo' = [todo EXCEPT ![w] = <<>>]
    BY <1>3, <2>1
  <2>2. CASE todo' = [todo EXCEPT ![w] = Tail(s)]
    <3>1. todo'[w] = Tail(s)
      BY <1>3, <2>2
    <3>2. \A j, k \in DOMAIN Tail(s) : Tail(s)[j][1] = Tail(s)[k][1] => j = k
      BY <1>6, <1>7
    <3>3. \A j \in DOMAIN Tail(s) : j + 1 \in DOMAIN s /\ j + 1 # 1 /\ Tail(s)[j] = s[j + 1]
      BY <1>6
    <3> QED
      BY <3>1, <3>2, <3>3
  <2> QED
    BY <1>4, <2>1, <2>2
<1>9. /\ \A j, k \in DOMAIN done'[w] : done'[w][j][1] = done'[w][k][1] => j = k
      /\ \A k \in DOMAIN done'[w] : done'[w][k][1] = e[1] \/ (\E i \in DOMAIN done[w] : done'[w][k] = done[w][i])
  <2>1. CASE done' = done
    BY <1>7, <2>1
  <2>2. ASSUME NEW b, done' = [done EXCEPT ![w] = Append(@, <<e[1], e[2], b>>)]
        PROVE  /\ \A j, k \in DOMAIN done'[w] : done'[w][j][1] = done'[w][k][1] => j = k
               /\ \A k \in DOMAIN done'[w] : done'[w][k][1] = e[1] \/ (\E i \in DOMAIN done[w] : done'[w][k] = done[w][i])
    <3> DEFINE d == <<e[1], e[2], b>>
               t == done[w]
    <3>1. done'[w] = Append(t, d)
      BY <1>3, <2>2
    <3>2. t \in Seq(Ids \X Bodies \X Bodies) /\ d[1] = e[1]
      BY <1>3
    <3>3. \A k \in DOMAIN t : t[k][1] # d[1]
      BY <1>6, <1>7, <3>2
    <3>4. \A j, k \in DOMAIN t : t[j][1] = t[k][1] => j = k
      BY <1>7
    <3> HIDE DEF t, d
    <3>5. /\ DOMAIN Append(t, d) = 1 .. Len(t) + 1 /\ Len(t) \in Nat /\ DOMAIN t = 1 .. Len(t)
          /\ \A k \in 1 .. Len(t) : Append(t, d)[k] = t[k]
          /\ Append(t, d)[Len(t) + 1] = d
      BY <3>2
    <3>6. \A k \in 1 .. Len(t) + 1 : k \in 1 .. Len(t) \/ k = Len(t) + 1
      BY <3>5
    <3>7. \A j, k \in DOMAIN Append(t, d) : Append(t, d)[j][1] = Append(t, d)[k][1] => j = k
      BY <3>3, <3>4, <3>5, <3>6
    <3>8. \A k \in DOMAIN Append(t, d) : Append(t, d)[k] = d \/ \E i \in DOMAIN t : Append(t, d)[k] = t[i]
      BY <3>5, <3>6
    <3> QED
      BY <3>1, <3>2, <3>7, <3>8 DEF t
  <2> QED
    BY <1>5, <2>1, <2>2
<1>10. \A j \in DOMAIN todo'[w], k \in DOMAIN done'[w] : todo'[w][j][1] # done'[w][k][1]
  BY <1>6, <1>7, <1>8, <1>9
<1>11. \A v \in Workers \ {w} : todo'[v] = todo[v] /\ done'[v] = done[v]
  BY <1>3, <1>4, <1>5
<1>12. OneReceipt'
  BY <1>8, <1>9, <1>10, <1>11 DEF OneReceipt, ValidInv
<1> QED
  BY <1>1, <1>12, LedgerFrame DEF ValidInv

LEMMA FinishValid ==
  ASSUME ValidInv, NEW w \in Workers, Finish(w)
  PROVE  OneReceipt'
  BY DEF ValidInv, OneReceipt, Finish, IInv, Types

\* The newest of a list of distinct ids are distinct, and of that list.
LEMMA LatestOf ==
  ASSUME NEW s \in Seq(Ids), \A j, k \in DOMAIN s : s[j] = s[k] => j = k
  PROVE  /\ Latest(s) \in Seq(Ids) /\ Len(Latest(s)) <= Cap
         /\ \A j, k \in DOMAIN Latest(s) : Latest(s)[j] = Latest(s)[k] => j = k
         /\ \A k \in DOMAIN Latest(s) : \E i \in DOMAIN s : Latest(s)[k] = s[i]
<1>1. Len(s) \in Nat /\ DOMAIN s = 1 .. Len(s) /\ Cap \in Nat \ {0}
  BY OutboxAssumption
<1>2. CASE Len(s) <= Cap
  BY <1>1, <1>2 DEF Latest
<1>3. CASE Len(s) > Cap
  <2> DEFINE first == Len(s) - Cap + 1
  <2>1. first \in 1 .. Len(s)
    BY <1>1, <1>3
  <2>2. Latest(s) = SubSeq(s, first, Len(s))
    BY <1>3 DEF Latest
  <2>3. /\ SubSeq(s, first, Len(s)) \in Seq(Ids)
        /\ Len(SubSeq(s, first, Len(s))) = Cap
        /\ \A i \in 1 .. Cap : SubSeq(s, first, Len(s))[i] = s[first + i - 1]
    BY <1>1, <1>3, <2>1
  <2>4. DOMAIN Latest(s) = 1 .. Cap /\ \A i \in 1 .. Cap : Latest(s)[i] = s[first + i - 1]
    BY <1>1, <2>2, <2>3
  <2>5. \A i \in 1 .. Cap : first + i - 1 \in DOMAIN s
    BY <1>1, <1>3
  <2>6. \A i, j \in 1 .. Cap : first + i - 1 = first + j - 1 => i = j
    BY <1>1
  <2> HIDE DEF first
  <2>7. \A i, j \in 1 .. Cap : s[first + i - 1] = s[first + j - 1] => i = j
    BY <2>5, <2>6
  <2>8. Len(Latest(s)) <= Cap
    BY <1>1, <2>2, <2>3
  <2> QED
    BY <2>2, <2>3, <2>4, <2>5, <2>7, <2>8
<1> QED
  BY <1>1, <1>2, <1>3

LEMMA OrderAfterOf ==
  ASSUME ValidInv, NEW w \in Workers
  PROVE  /\ OrderAfter(w) \in Seq(Ids) /\ Len(OrderAfter(w)) <= Cap
         /\ \A j, k \in DOMAIN OrderAfter(w) : OrderAfter(w)[j] = OrderAfter(w)[k] => j = k
         /\ \A k \in DOMAIN OrderAfter(w) :
              \/ InExact(w, OrderAfter(w)[k])
              \/ \E i \in DOMAIN order : OrderAfter(w)[k] = order[i]
<1> DEFINE sent == done[w]
           P == {k \in DOMAIN sent : outbox[sent[k][1]] = sent[k][2]}
           K == {k \in DOMAIN order : ~InExact(w, order[k])}
           kept == Picked(order, K)
           ids == [k \in 1 .. Len(Exact(w)) |-> Exact(w)[k][1]]
<1>1. /\ sent \in Seq(Ids \X Bodies \X Bodies) /\ order \in Seq(Ids)
      /\ \A j, k \in DOMAIN sent : sent[j][1] = sent[k][1] => j = k
      /\ \A j, k \in DOMAIN order : order[j] = order[k] => j = k
  BY DEF ValidInv, IInv, Types, OneReceipt, LedgerStaysValid
<1>2. \A k \in P : InExact(w, sent[k][1])
  BY DEF InExact
<1>3. /\ kept \in Seq(Ids)
      /\ \A j, k \in DOMAIN kept : kept[j] = kept[k] => j = k
      /\ \A k \in DOMAIN kept : ~InExact(w, kept[k]) /\ \E i \in DOMAIN order : kept[k] = order[i]
  <2>1. K \in SUBSET DOMAIN order
    OBVIOUS
  <2>2. kept \in Seq(Ids)
    BY <1>1, <2>1, PickedFrom
  <2>3. ToSet(kept) = {order[i] : i \in K} /\ IsInjective(kept)
    BY <1>1, <2>1, PickedElements
  <2>4. \A k \in DOMAIN kept : kept[k] \in {order[i] : i \in K}
    BY <2>3 DEF ToSet
  <2> HIDE DEF kept
  <2> QED
    BY <2>2, <2>3, <2>4 DEF IsInjective
<1>4. /\ ids \in Seq(Ids)
      /\ \A j, k \in DOMAIN ids : ids[j] = ids[k] => j = k
      /\ \A k \in DOMAIN ids : InExact(w, ids[k])
  <2>1. P \in SUBSET DOMAIN sent /\ Exact(w) = Picked(sent, P)
    BY DEF Exact
  <2> HIDE DEF P, sent
  <2>2. PICK f \in Bijection(1 .. Cardinality(P), P) :
          \A j \in 1 .. Cardinality(P) : Picked(sent, P)[j] = sent[f[j]]
    BY <1>1, <2>1, PickedFrom
  <2>3. Picked(sent, P) \in Seq(Ids \X Bodies \X Bodies) /\ Len(Picked(sent, P)) = Cardinality(P)
    BY <1>1, <2>1, PickedFrom
  <2>4. /\ f \in [1 .. Cardinality(P) -> P]
        /\ \A i, j \in 1 .. Cardinality(P) : f[i] = f[j] => i = j
    BY <2>2, Fun_BijectionProperties
  <2>5. Len(Exact(w)) = Cardinality(P) /\ Cardinality(P) \in Nat
    BY <2>1, <2>3
  <2>6. \A j \in 1 .. Cardinality(P) : ids[j] = sent[f[j]][1] /\ f[j] \in P
    BY <2>1, <2>2, <2>4, <2>5
  <2>7. DOMAIN ids = 1 .. Cardinality(P)
    BY <2>5
  <2> HIDE DEF ids
  <2>8. \A j \in 1 .. Cardinality(P) : ids[j] \in Ids
    BY <1>1, <2>1, <2>6
  <2>9. ids \in Seq(Ids)
    <3>1. ids = [j \in 1 .. Cardinality(P) |-> ids[j]]
      BY <2>7 DEF ids
    <3> QED
      BY <2>5, <2>8, <3>1
  <2> QED
    BY <1>1, <1>2, <2>1, <2>4, <2>6, <2>7, <2>9
<1>5. OrderAfter(w) = Latest(kept \o ids)
  BY DEF OrderAfter
<1> HIDE DEF kept, ids, sent, P, K
<1>6. /\ kept \o ids \in Seq(Ids)
      /\ Len(kept) \in Nat /\ Len(ids) \in Nat
      /\ DOMAIN kept = 1 .. Len(kept) /\ DOMAIN ids = 1 .. Len(ids)
      /\ DOMAIN (kept \o ids) = 1 .. Len(kept) + Len(ids)
      /\ \A i \in 1 .. Len(kept) + Len(ids) :
           (kept \o ids)[i] = IF i <= Len(kept) THEN kept[i] ELSE ids[i - Len(kept)]
  BY <1>3, <1>4
<1>7. ASSUME NEW i \in DOMAIN (kept \o ids)
      PROVE  \/ i \in DOMAIN kept /\ (kept \o ids)[i] = kept[i]
             \/ i - Len(kept) \in DOMAIN ids /\ (kept \o ids)[i] = ids[i - Len(kept)] /\ i \in Nat
  BY <1>6
<1>8. \A i, j \in DOMAIN (kept \o ids) : (kept \o ids)[i] = (kept \o ids)[j] => i = j
  <2> SUFFICES ASSUME NEW i \in DOMAIN (kept \o ids), NEW j \in DOMAIN (kept \o ids),
                      (kept \o ids)[i] = (kept \o ids)[j]
               PROVE  i = j
    OBVIOUS
  <2>1. CASE i \in DOMAIN kept /\ j \in DOMAIN kept
    BY <1>3, <1>6, <2>1
  <2>2. CASE i \notin DOMAIN kept /\ j \notin DOMAIN kept
    <3>1. i - Len(kept) = j - Len(kept) /\ i \in Nat /\ j \in Nat
      BY <1>4, <1>7, <2>2
    <3> QED
      BY <1>6, <3>1
  <2>3. CASE i \in DOMAIN kept /\ j \notin DOMAIN kept
    BY <1>3, <1>4, <1>6, <1>7, <2>3
  <2>4. CASE i \notin DOMAIN kept /\ j \in DOMAIN kept
    BY <1>3, <1>4, <1>6, <1>7, <2>4
  <2> QED
    BY <2>1, <2>2, <2>3, <2>4
<1>9. \A i \in DOMAIN (kept \o ids) :
        \/ InExact(w, (kept \o ids)[i])
        \/ \E h \in DOMAIN order : (kept \o ids)[i] = order[h]
  BY <1>3, <1>4, <1>7
<1> DEFINE all == kept \o ids
<1> HIDE DEF all
<1>10. /\ Latest(all) \in Seq(Ids) /\ Len(Latest(all)) <= Cap
       /\ \A j, k \in DOMAIN Latest(all) : Latest(all)[j] = Latest(all)[k] => j = k
       /\ \A k \in DOMAIN Latest(all) : \E i \in DOMAIN all : Latest(all)[k] = all[i]
  <2>1. all \in Seq(Ids) /\ \A j, k \in DOMAIN all : all[j] = all[k] => j = k
    BY <1>6, <1>8 DEF all
  <2> QED
    BY <2>1, LatestOf
<1>11. OrderAfter(w) = Latest(all)
  BY <1>5 DEF all
<1>12. \A i \in DOMAIN all : InExact(w, all[i]) \/ \E h \in DOMAIN order : all[i] = order[h]
  BY <1>9 DEF all
<1> QED
  BY <1>10, <1>11, <1>12

LEMMA AckValid ==
  ASSUME ValidInv, NEW w \in Workers, Ack(w)
  PROVE  LedgerStaysValid' /\ OneReceipt' /\ order' \in Seq(Ids)
<1>1. /\ outbox' = AckedOutbox(w) /\ delivered' = DeliveredAfter(w) /\ order' = OrderAfter(w)
      /\ Finish(w)
  BY DEF Ack
<1>2. OneReceipt'
  BY <1>1, FinishValid
<1>3. /\ order' \in Seq(Ids) /\ Len(order') <= Cap
      /\ \A j, k \in DOMAIN order' : order'[j] = order'[k] => j = k
      /\ \A k \in DOMAIN order' :
           InExact(w, order'[k]) \/ \E i \in DOMAIN order : order'[k] = order[i]
  BY <1>1, OrderAfterOf
<1>4. ASSUME NEW i \in Ids
      PROVE  delivered'[i] # NoBody <=> \E k \in DOMAIN order' : order'[k] = i
  <2> DEFINE m == CHOOSE k \in DOMAIN done[w] : done[w][k][1] = i
  <2>1. /\ delivered'[i] # NoBody => \E k \in DOMAIN order' : order'[k] = i
        /\ (\E k \in DOMAIN order' : order'[k] = i) =>
             delivered'[i] = IF InExact(w, i) THEN done[w][m][3] ELSE delivered[i]
    BY <1>1 DEF DeliveredAfter
  <2>2. InExact(w, i) => done[w][m][3] # NoBody
    BY ExactIsRecorded, OutboxAssumption DEF ValidInv
  <2> HIDE DEF m
  <2>3. (\E k \in DOMAIN order : order[k] = i) => delivered[i] # NoBody
    BY DEF ValidInv, LedgerStaysValid
  <2>4. (\E k \in DOMAIN order' : order'[k] = i) => delivered'[i] # NoBody
    BY <1>3, <2>1, <2>2, <2>3
  <2> QED
    BY <2>1, <2>4
<1>5. {order'[k] : k \in DOMAIN order'} = {i \in Ids : delivered'[i] # NoBody}
  BY <1>3, <1>4
<1>6. \A i \in Ids : outbox'[i] = NoBody \/ delivered'[i] = NoBody
  <2> SUFFICES ASSUME NEW i \in Ids, delivered'[i] # NoBody PROVE outbox'[i] = NoBody
    OBVIOUS
  <2>1. PICK k \in DOMAIN order' : order'[k] = i
    BY <1>4
  <2>2. CASE InExact(w, i)
    BY <1>1, <2>2 DEF AckedOutbox
  <2>3. CASE ~InExact(w, i)
    <3>1. delivered[i] # NoBody
      BY <1>3, <2>1, <2>3 DEF ValidInv, LedgerStaysValid
    <3> QED
      BY <1>1, <2>3, <3>1 DEF AckedOutbox, ValidInv, LedgerStaysValid
  <2> QED
    BY <2>2, <2>3
<1>7. Cardinality(Pending') <= Cap
  <2>1. Pending' \subseteq Pending
    BY <1>1 DEF Pending, AckedOutbox
  <2>2. IsFiniteSet(Pending)
    BY FS_Subset, OutboxAssumption DEF Pending
  <2>3. /\ Cardinality(Pending') <= Cardinality(Pending) /\ IsFiniteSet(Pending')
    BY <2>1, <2>2, FS_Subset
  <2>4. Cardinality(Pending) \in Nat /\ Cardinality(Pending') \in Nat /\ Cardinality(Pending) <= Cap
    BY <2>2, <2>3, FS_CardinalityType DEF ValidInv, LedgerStaysValid
  <2> QED
    BY <2>3, <2>4, OutboxAssumption
<1> QED
  BY <1>2, <1>3, <1>5, <1>6, <1>7 DEF LedgerStaysValid

LEMMA NextValid == ValidInv /\ [Next]_vars => ValidInv'
<1> SUFFICES ASSUME ValidInv, [Next]_vars PROVE ValidInv'
  OBVIOUS
<1>1. IInv'
  BY NextIInv DEF ValidInv
<1>2. LedgerStaysValid' /\ OneReceipt' /\ order' \in Seq(Ids)
  <2>1. CASE Accepting
    BY <2>1, AcceptingValid
  <2>2. ASSUME NEW w \in Workers, Abandon(w)
        PROVE  LedgerStaysValid' /\ OneReceipt' /\ order' \in Seq(Ids)
    BY <2>2, FinishValid, LedgerFrame DEF Abandon, ledger, ValidInv
  <2>3. CASE UNCHANGED vars
    BY <2>3, LedgerFrame DEF vars, ledger, locals, ValidInv, OneReceipt
  <2> QED
    BY <2>1, <2>2, <2>3, DrainReadValid, SendingValid, AckValid DEF Next, Step
<1> QED
  BY <1>1, <1>2 DEF ValidInv

\* No interleaving of drains, acceptances and acknowledgements, and no death
\* between them, makes a ledger that its own schema refuses: the pending and
\* the delivered events stay apart, within bounds, and listed once each.
THEOREM LedgerIsValid == Spec => []LedgerStaysValid
<1>1. ValidInv => LedgerStaysValid
  BY DEF ValidInv
<1> QED
  BY <1>1, InitValid, NextValid, PTL DEF Spec

\* What the schema of the ledger says of the outbox's fields, with the rest
\* of the variables' types.
THEOREM OutboxTypes == Spec => []TypeOK
<1>1. Init => TypeOK
  <2> SUFFICES ASSUME Init PROVE TypeOK
    OBVIOUS
  <2>1. Types /\ order \in Seq(Ids)
    BY InitValid DEF ValidInv, IInv
  <2>2. /\ degraded \in BOOLEAN /\ fragment \in {"none", "tail", "inside"}
        /\ bad \in [Workers -> BOOLEAN] /\ faults \in 0 .. MaxFaults
    <3>1. fragment \in {"none", "tail", "inside"} /\ faults \in 0 .. MaxFaults
      BY OutboxAssumption DEF Init
    <3>2. degraded = FALSE /\ bad = [w \in Workers |-> FALSE]
      BY DEF Init
    <3>3. degraded \in BOOLEAN /\ bad \in [Workers -> BOOLEAN]
      BY <3>2, Zenon
    <3> QED
      BY <3>1, <3>3
  <2> QED
    BY <2>1, <2>2 DEF Types, TypeOK
<1>2. ValidInv /\ ValidInv' /\ TypeOK /\ [Next]_vars => TypeOK'
  <2> SUFFICES ASSUME ValidInv, ValidInv', TypeOK, [Next]_vars PROVE TypeOK'
    OBVIOUS
  <2> DEFINE Rest == /\ degraded \in BOOLEAN /\ fragment \in {"none", "tail", "inside"}
                     /\ bad \in [Workers -> BOOLEAN] /\ faults \in 0 .. MaxFaults
  <2>1. Rest
    BY DEF TypeOK
  <2>2. Rest'
    <3>1. CASE Accepting
      BY <2>1, <3>1 DEF Accepting, Record, RecordPeer, Admit, disk, locals
    <3>2. ASSUME NEW w \in Workers, DrainRead(w) PROVE Rest'
      BY <2>1, <3>2 DEF DrainRead, ledger, disk
    <3>3. ASSUME NEW w \in Workers, Deliver(w) PROVE Rest'
      BY <2>1, <3>3 DEF Deliver, Append1, ledger, disk
    <3>4. ASSUME NEW w \in Workers, DeliverFails(w) PROVE Rest'
      BY <2>1, <3>4, OutboxAssumption DEF DeliverFails, Append1, ledger, disk
    <3>5. ASSUME NEW w \in Workers, Ack(w) PROVE Rest'
      BY <2>1, <3>5 DEF Ack, Finish, disk, TypeOK
    <3>6. ASSUME NEW w \in Workers, Abandon(w) PROVE Rest'
      BY <2>1, <3>6, OutboxAssumption DEF Abandon, Finish, ledger, disk
    <3>7. CASE UNCHANGED vars
      BY <2>1, <3>7 DEF vars, ledger, disk, locals
    <3> QED
      BY <3>1, <3>2, <3>3, <3>4, <3>5, <3>6, <3>7 DEF Next, Step
  <2> QED
    BY <2>2 DEF ValidInv, IInv, Types, TypeOK
<1> QED
  BY <1>1, <1>2, InitValid, NextValid, PTL DEF Spec
=============================================================================
