----------------------------- MODULE LedgerProofs -----------------------------
(***************************************************************************)
(* The turns, the ledger file and the archives of statuses, for any        *)
(* agents, turns, hooks, sizes and limits.  A turn that was retired is     *)
(* over for good, and one that was closed is opened again by a late event  *)
(* only after as many others were closed as the list has room for.  An     *)
(* event that was saved stays in the ledger file, and an archive that the  *)
(* index names stays on the disk as it was written.  The index of changes  *)
(* is valid by its schema, and the guard that reads it lets no command     *)
(* through that destroys what another agent answers for.                   *)
(***************************************************************************)
EXTENDS TurnLedger, LedgerFile, StatusArchive, DestructiveGate, PickingProofs,
        SequenceTheorems, WellFoundedInduction, TLAPS

\* Every agent has its open turn or none; what is open was not retired.
OpenTurns ==
  /\ active \in [Agents -> Turn \cup {None}]
  /\ retired \subseteq Agents \X Turns

RetiredInv == OpenTurns /\ RetiredStaysRetired

-----------------------------------------------------------------------------
(* What a step makes of the open turns.                                    *)

\* The turns a step leaves open were open, or are one that is not retired.
LEMMA SweptKeeps ==
  ASSUME RetiredInv, NEW ks
  PROVE  /\ Swept(ks) \in [Agents -> Turn \cup {None}]
         /\ \A j \in Agents : Swept(ks)[j] \in {None, active[j]}
  BY DEF RetiredInv, OpenTurns, Swept

LEMMA OpensOne ==
  ASSUME TurnAssumption, RetiredInv, NEW ks, NEW k \in Agents, NEW new \in Turn,
         <<k, new.id>> \notin retired,
         active' = [Swept(ks) EXCEPT ![k] = new], retired' = retired
  PROVE  RetiredInv'
<1>1. OpenTurns'
  BY SweptKeeps DEF RetiredInv, OpenTurns
<1>2. ASSUME NEW r \in retired, active'[r[1]] # None, active'[r[1]].id = r[2]
      PROVE  FALSE
  <2>1. PICK j \in Agents, t \in Turns : r = <<j, t>>
    BY <1>2 DEF RetiredInv, OpenTurns
  <2>2. j # k
    BY <1>2, <2>1, SweptKeeps
  <2>3. active'[j] = active[j]
    BY <1>2, <2>1, <2>2, SweptKeeps
  <2> QED
    BY <1>2, <2>1, <2>3 DEF RetiredInv, RetiredStaysRetired, OpenAs, Open
<1> QED
  BY <1>1, <1>2 DEF RetiredInv, RetiredStaysRetired, OpenAs, Open

LEMMA OpensNone ==
  ASSUME RetiredInv, NEW ks, active' = Swept(ks), retired' = retired
  PROVE  RetiredInv'
<1>1. OpenTurns'
  BY SweptKeeps DEF RetiredInv, OpenTurns
<1>2. ASSUME NEW r \in retired, active'[r[1]] # None, active'[r[1]].id = r[2]
      PROVE  FALSE
  <2>1. PICK j \in Agents, t \in Turns : r = <<j, t>>
    BY <1>2 DEF RetiredInv, OpenTurns
  <2>2. active'[j] = active[j]
    BY <1>2, <2>1, SweptKeeps
  <2> QED
    BY <1>2, <2>1, <2>2 DEF RetiredInv, RetiredStaysRetired, OpenAs, Open
<1> QED
  BY <1>1, <1>2 DEF RetiredInv, RetiredStaysRetired, OpenAs, Open

LEMMA NewTurnType ==
  ASSUME NEW t \in Turns, NEW degraded \in BOOLEAN
  PROVE  NewTurn(t, degraded) \in Turn /\ NewTurn(t, degraded).id = t
  BY DEF NewTurn, Turn

LEMMA UpdatedType ==
  ASSUME NEW new \in Turn, NEW degraded \in BOOLEAN
  PROVE  Updated(new, degraded) \in Turn /\ Updated(new, degraded).id = new.id
  BY DEF Updated, Turn

-----------------------------------------------------------------------------
(* The invariant.                                                          *)

LEMMA InitRetired == ASSUME TurnAssumption, TurnsInit PROVE RetiredInv
  BY DEF TurnAssumption, TurnsInit, RetiredInv, OpenTurns, RetiredStaysRetired, Turn

LEMMA PromptKeeps ==
  ASSUME TurnAssumption, RetiredInv, NEW k \in Agents, NEW t \in Turns, Prompt(k, t)
  PROVE  RetiredInv'
<1> DEFINE new == IF OpenAs(k, t) /\ active[k].degraded
                   THEN Updated(active[k], FALSE) ELSE NewTurn(t, FALSE)
<1>1. active' = [Swept(Garbage(k, t)) EXCEPT ![k] = new] /\ retired' = retired
  BY DEF Prompt
<1>2. <<k, t>> \notin retired
  BY DEF Prompt, Takes
<1>3. new \in Turn /\ new.id = t
  <2>1. CASE OpenAs(k, t)
    <3>1. active[k] \in Turn /\ active[k].id = t
      BY <2>1 DEF RetiredInv, OpenTurns, OpenAs, Open
    <3> QED
      BY <3>1, UpdatedType, NewTurnType
  <2>2. CASE ~OpenAs(k, t)
    BY <2>2, NewTurnType
  <2> QED
    BY <2>1, <2>2
<1> HIDE DEF new
<1> QED
  BY <1>1, <1>2, <1>3, OpensOne

LEMMA EventKeeps ==
  ASSUME TurnAssumption, RetiredInv, NEW k \in Agents, NEW t \in Turns,
         NEW d \in BOOLEAN, Event(k, t, d)
  PROVE  RetiredInv'
<1> DEFINE new == IF OpenAs(k, t) THEN Updated(active[k], d) ELSE NewTurn(t, d)
<1>1. active' = [Swept(Garbage(k, t)) EXCEPT ![k] = new] /\ retired' = retired
  BY DEF Event
<1>2. <<k, t>> \notin retired
  BY DEF Event, Takes
<1>3. new \in Turn /\ new.id = t
  <2>1. CASE OpenAs(k, t)
    <3>1. active[k] \in Turn /\ active[k].id = t
      BY <2>1 DEF RetiredInv, OpenTurns, OpenAs, Open
    <3> QED
      BY <2>1, <3>1, UpdatedType
  <2>2. CASE ~OpenAs(k, t)
    BY <2>2, NewTurnType
  <2> QED
    BY <2>1, <2>2
<1> HIDE DEF new
<1> QED
  BY <1>1, <1>2, <1>3, OpensOne

LEMMA AgeKeeps ==
  ASSUME TurnAssumption, RetiredInv, NEW k \in Agents, DayPasses(k)
  PROVE  RetiredInv'
<1>1. active[k] \in Turn /\ active[k] # None
  BY DEF DayPasses, Open, RetiredInv, OpenTurns
<1> DEFINE new == [active[k] EXCEPT !.stale = TRUE]
<1>2. new \in Turn /\ new.id = active[k].id
  BY <1>1 DEF Turn
<1>3. Swept({}) = active
  BY DEF Swept, RetiredInv, OpenTurns
<1>4. <<k, new.id>> \notin retired
  BY <1>1, <1>2 DEF RetiredInv, RetiredStaysRetired, OpenAs, Open
<1>5. active' = [Swept({}) EXCEPT ![k] = new] /\ retired' = retired
  BY <1>3 DEF DayPasses
<1> HIDE DEF new
<1> QED
  BY <1>2, <1>4, <1>5, OpensOne

LEMMA RetireKeeps ==
  ASSUME TurnAssumption, RetiredInv, NEW kept \in SUBSET Agents, Retire(kept)
  PROVE  RetiredInv'
<1> DEFINE ks == {k \in Agents \ kept : Open(k) /\ active[k].statusless}
           new == {<<k, active[k].id>> : k \in ks}
<1>1. retired' = retired \cup new /\ active' = Swept(ks)
  BY DEF Retire
<1>2. new \subseteq Agents \X Turns
  BY DEF RetiredInv, OpenTurns, Open, Turn
<1>3. \A k \in ks : active'[k] = None
  BY <1>1 DEF Swept
<1>4. OpenTurns'
  BY <1>1, <1>2, SweptKeeps DEF RetiredInv, OpenTurns
<1>5. ASSUME NEW r \in retired', active'[r[1]] # None, active'[r[1]].id = r[2]
      PROVE  FALSE
  <2>1. CASE r \in new
    <3>1. PICK k \in ks : r = <<k, active[k].id>>
      BY <2>1
    <3> QED
      BY <1>3, <1>5, <3>1
  <2>2. CASE r \in retired
    <3>1. PICK j \in Agents, t \in Turns : r = <<j, t>>
      BY <2>2 DEF RetiredInv, OpenTurns
    <3>2. active'[j] = active[j]
      BY <1>1, <1>5, <3>1, SweptKeeps
    <3> QED
      BY <1>5, <2>2, <3>1, <3>2 DEF RetiredInv, RetiredStaysRetired, OpenAs, Open
  <2> QED
    BY <1>1, <1>5, <2>1, <2>2
<1> QED
  BY <1>4, <1>5 DEF RetiredInv, RetiredStaysRetired, OpenAs, Open

LEMMA NextRetired == ASSUME TurnAssumption, RetiredInv, [TurnsNext]_turnVars PROVE RetiredInv'
<1>1. ASSUME NEW k \in Agents, NEW t \in Turns, Finish(k, t) PROVE RetiredInv'
  BY <1>1, OpensNone DEF Finish
<1>2. ASSUME NEW kept \in SUBSET Agents, Close(kept) PROVE RetiredInv'
  BY <1>2, OpensNone DEF Close
<1>3. CASE UNCHANGED turnVars
  BY <1>3 DEF turnVars, RetiredInv, OpenTurns, RetiredStaysRetired, OpenAs, Open
<1> QED
  BY <1>1, <1>2, <1>3, PromptKeeps, EventKeeps, AgeKeeps, RetireKeeps DEF TurnsNext

\* A retired turn is never open again, and stays on the list: no event of it,
\* replayed at any time, opens it (apply_v2_event, _plan_candidates).
THEOREM RetiredIsForGood ==
  ASSUME TurnAssumption
  PROVE  TurnsSpec => []RetiredStaysRetired /\ [][retired \subseteq retired']_turnVars
<1>1. TurnsInit => RetiredInv
  BY InitRetired
<1>2. RetiredInv /\ [TurnsNext]_turnVars => RetiredInv'
  BY NextRetired
<1>3. RetiredInv => RetiredStaysRetired
  BY DEF RetiredInv
<1>4. [TurnsNext]_turnVars => [retired \subseteq retired']_turnVars
  BY DEF TurnsNext, Prompt, Event, Finish, DayPasses, Close, Retire, turnVars
<1> QED
  BY <1>1, <1>2, <1>3, <1>4, PTL DEF TurnsSpec

-----------------------------------------------------------------------------
(* The list of closed turns.                                               *)

Owned == Agents \X Turns

ClosedInv == ValidClosed(closed) /\ OpenIsNotClosed

LEMMA Forgotten ==
  ASSUME NEW C, NEW list \in Seq(C), NEW gone
  PROVE  /\ Forget(list, gone) \in Seq(C) /\ Len(Forget(list, gone)) <= Len(list)
         /\ ToSet(Forget(list, gone)) \subseteq ToSet(list) \ gone
<1> DEFINE kept == {i \in DOMAIN list : list[i] \notin gone}
<1>1. kept \in SUBSET DOMAIN list
  OBVIOUS
<1>2. Picked(list, kept) \in Seq(C)
  BY <1>1, PickedFrom
<1>3. ToSet(Picked(list, kept)) = {list[i] : i \in kept} /\ Len(Picked(list, kept)) <= Len(list)
  BY <1>1, PickedElements
<1>4. {list[i] : i \in kept} \subseteq ToSet(list) \ gone
  BY DEF ToSet
<1> QED
  BY <1>2, <1>3, <1>4 DEF Forget

LEMMA JoinedElements ==
  ASSUME NEW C, NEW s \in Seq(C), NEW u \in Seq(C)
  PROVE  /\ s \o u \in Seq(C) /\ Len(s \o u) = Len(s) + Len(u)
         /\ ToSet(s \o u) \subseteq ToSet(s) \cup ToSet(u)
<1>1. /\ s \o u \in Seq(C) /\ Len(s \o u) = Len(s) + Len(u)
      /\ \A i \in 1 .. Len(s) + Len(u) :
           (s \o u)[i] = IF i <= Len(s) THEN s[i] ELSE u[i - Len(s)]
  BY ConcatProperties
<1>2. Len(s) \in Nat /\ Len(u) \in Nat
  OBVIOUS
<1>3. ASSUME NEW i \in 1 .. Len(s) + Len(u) PROVE (s \o u)[i] \in ToSet(s) \cup ToSet(u)
  <2>1. CASE i <= Len(s)
    BY <1>1, <1>2, <2>1 DEF ToSet
  <2>2. CASE i > Len(s)
    <3>1. (s \o u)[i] = u[i - Len(s)] /\ i - Len(s) \in 1 .. Len(u)
      BY <1>1, <1>2, <2>2
    <3> QED
      BY <3>1 DEF ToSet
  <2> QED
    BY <1>2, <2>1, <2>2
<1>4. DOMAIN (s \o u) = 1 .. Len(s) + Len(u)
  BY <1>1
<1> QED
  BY <1>1, <1>3, <1>4 DEF ToSet

LEMMA Remembered ==
  ASSUME TurnAssumption, NEW C, NEW list \in Seq(C), NEW over \in Seq(C)
  PROVE  /\ Remember(list, over) \in Seq(C) /\ Len(Remember(list, over)) <= MAX_CLOSED_TURNS
         /\ ToSet(Remember(list, over)) \subseteq ToSet(list) \cup ToSet(over)
<1> DEFINE all == Forget(list, ToSet(over)) \o over
           first == 1 + (IF Len(all) > MAX_CLOSED_TURNS THEN Len(all) - MAX_CLOSED_TURNS ELSE 0)
<1>1. /\ Forget(list, ToSet(over)) \in Seq(C)
      /\ ToSet(Forget(list, ToSet(over))) \subseteq ToSet(list)
  BY Forgotten
<1>2. all \in Seq(C) /\ ToSet(all) \subseteq ToSet(list) \cup ToSet(over)
  BY <1>1, JoinedElements
<1>3. Remember(list, over) = SubSeq(all, first, Len(all))
  BY DEF Remember
<1> HIDE DEF all
<1>4. Len(all) \in Nat /\ DOMAIN all = 1 .. Len(all)
  BY <1>2
<1>5. first \in Nat \ {0} /\ Len(all) - first + 1 <= MAX_CLOSED_TURNS /\ MAX_CLOSED_TURNS \in Nat
      /\ first <= Len(all) + 1
  BY <1>4 DEF TurnAssumption
<1> HIDE DEF first
<1>6. \A i \in first .. Len(all) : all[i] \in C
  BY <1>2, <1>4, <1>5
<1>7. /\ SubSeq(all, first, Len(all)) \in Seq(C)
      /\ Len(SubSeq(all, first, Len(all))) =
           IF first <= Len(all) THEN Len(all) - first + 1 ELSE 0
      /\ \A i \in 1 .. Len(all) - first + 1 :
           SubSeq(all, first, Len(all))[i] = all[first + i - 1]
  BY <1>4, <1>5, <1>6, SubSeqProperties
<1>8. DOMAIN Remember(list, over) = 1 .. Len(all) - first + 1
  <2> DEFINE r == Remember(list, over)
  <2>1. Len(r) = Len(all) - first + 1 /\ DOMAIN r = 1 .. Len(r)
    BY <1>3, <1>4, <1>5, <1>7
  <2> QED
    BY <2>1
<1>9. ASSUME NEW i \in 1 .. Len(all) - first + 1 PROVE Remember(list, over)[i] \in ToSet(all)
  <2>1. first + i - 1 \in DOMAIN all
    BY <1>4, <1>5
  <2> QED
    BY <1>3, <1>7, <2>1 DEF ToSet
<1>10. Len(Remember(list, over)) <= MAX_CLOSED_TURNS
  BY <1>3, <1>4, <1>5, <1>7
<1> QED
  BY <1>2, <1>3, <1>7, <1>8, <1>9, <1>10 DEF ToSet

LEMMA RememberedOne ==
  ASSUME TurnAssumption, NEW C, NEW list \in Seq(C), NEW c \in C
  PROVE  /\ Remember(list, <<c>>) \in Seq(C) /\ Len(Remember(list, <<c>>)) <= MAX_CLOSED_TURNS
         /\ ToSet(Remember(list, <<c>>)) \subseteq ToSet(list) \cup {c}
<1>1. <<c>> \in Seq(C) /\ ToSet(<<c>>) = {c}
  BY DEF ToSet
<1> QED
  BY <1>1, Remembered

LEMMA Left ==
  ASSUME TurnAssumption, OpenTurns, NEW ks \in SUBSET {k \in Agents : Open(k)}
  PROVE  /\ Leaving(ks) \in Seq(Owned)
         /\ ToSet(Leaving(ks)) \subseteq {<<k, active[k].id>> : k \in ks}
<1>1. IsFiniteSet(ks)
  BY FS_Subset DEF TurnAssumption
<1>2. Order(ks) \in Seq(ks)
  BY <1>1, Listed DEF Order
<1>3. Len(Order(ks)) \in Nat /\ DOMAIN Order(ks) = 1 .. Len(Order(ks))
      /\ \A i \in DOMAIN Order(ks) : Order(ks)[i] \in ks
  BY <1>2
<1>4. \A k \in ks : <<k, active[k].id>> \in Owned
  BY DEF OpenTurns, Open, Turn, Owned
<1>5. Leaving(ks) \in [1 .. Len(Order(ks)) -> Owned]
  BY <1>3, <1>4 DEF Leaving
<1> QED
  BY <1>3, <1>5 DEF Leaving, ToSet

\* What is closed and what is open stay apart.
LEMMA Apart ==
  ASSUME OpenTurns, ClosedInv, NEW ks, ValidClosed(closed'),
         ToSet(closed') \subseteq ToSet(closed) \cup {<<j, active[j].id>> : j \in ks},
         \A j \in Agents :
           \/ active'[j] = None
           \/ j \notin ks /\ Open(j) /\ active'[j].id = active[j].id
           \/ <<j, active'[j].id>> \notin ToSet(closed')
  PROVE  ClosedInv'
  BY DEF ClosedInv, OpenIsNotClosed, Open, ValidClosed

LEMMA PromptCloses ==
  ASSUME TurnAssumption, OpenTurns, ClosedInv, NEW k \in Agents, NEW t \in Turns, Prompt(k, t)
  PROVE  ClosedInv'
<1> DEFINE gone == Garbage(k, t)
           base == Remember(closed, Leaving(gone))
           list == Forget(base, {<<k, t>>})
           own == <<k, active[k].id>>
<1>1. gone \in SUBSET {j \in Agents : Open(j)}
  BY DEF Garbage
<1>2. closed \in Seq(Owned)
  BY DEF ClosedInv, ValidClosed, Owned
<1>3. /\ Leaving(gone) \in Seq(Owned)
      /\ ToSet(Leaving(gone)) \subseteq {<<j, active[j].id>> : j \in gone}
  BY <1>1, Left
<1>4. /\ base \in Seq(Owned) /\ Len(base) <= MAX_CLOSED_TURNS
      /\ ToSet(base) \subseteq ToSet(closed) \cup {<<j, active[j].id>> : j \in gone}
  BY <1>2, <1>3, Remembered
<1>5. /\ list \in Seq(Owned) /\ Len(list) <= Len(base)
      /\ ToSet(list) \subseteq ToSet(base) \ {<<k, t>>}
  BY <1>4, Forgotten
<1>6. \/ closed' = list
      \/ /\ closed' = Remember(list, <<own>>)
         /\ Open(k) /\ active[k].id # t
  BY DEF Prompt, OpenAs
<1>7. \A j \in Agents \ {k} : active'[j] = IF j \in gone THEN None ELSE active[j]
  BY DEF Prompt, Swept, OpenTurns
<1>8. active'[k].id = t
  <2>1. OpenAs(k, t) => Updated(active[k], FALSE).id = t
    BY UpdatedType DEF OpenTurns, OpenAs, Open
  <2>2. NewTurn(t, FALSE).id = t
    BY NewTurnType
  <2> QED
    BY <2>1, <2>2 DEF Prompt, Swept
<1> HIDE DEF gone, base, list
<1>9. /\ closed' \in Seq(Owned) /\ Len(closed') <= MAX_CLOSED_TURNS
      /\ ToSet(closed') \subseteq ToSet(closed) \cup {<<j, active[j].id>> : j \in gone \cup {k}}
      /\ <<k, t>> \notin ToSet(closed')
  <2>1. CASE closed' = list
    <3>1. Len(list) \in Nat /\ Len(base) \in Nat /\ MAX_CLOSED_TURNS \in Nat
      BY <1>4, <1>5 DEF TurnAssumption
    <3> QED
      BY <1>4, <1>5, <2>1, <3>1
  <2>2. CASE closed' = Remember(list, <<own>>) /\ Open(k) /\ active[k].id # t
    <3>1. own \in Owned
      BY <2>2 DEF OpenTurns, Open, Turn, Owned
    <3> HIDE DEF own
    <3>2. /\ closed' \in Seq(Owned) /\ Len(closed') <= MAX_CLOSED_TURNS
          /\ ToSet(closed') \subseteq ToSet(list) \cup {own}
      BY <1>5, <2>2, <3>1, RememberedOne
    <3> USE DEF own
    <3>3. own # <<k, t>>
      BY <2>2
    <3> QED
      BY <1>4, <1>5, <3>2, <3>3
  <2> QED
    BY <1>6, <2>1, <2>2
<1>10. \A j \in Agents :
         \/ active'[j] = None
         \/ j \notin gone \cup {k} /\ Open(j) /\ active'[j].id = active[j].id
         \/ <<j, active'[j].id>> \notin ToSet(closed')
  BY <1>7, <1>8, <1>9 DEF Open
<1> QED
  BY <1>9, <1>10, Apart DEF ValidClosed, Owned

LEMMA EventCloses ==
  ASSUME TurnAssumption, OpenTurns, ClosedInv, NEW k \in Agents, NEW t \in Turns,
         NEW d \in BOOLEAN, Event(k, t, d)
  PROVE  ClosedInv'
<1> DEFINE gone == Garbage(k, t)
<1>1. gone \in SUBSET {j \in Agents : Open(j)}
  BY DEF Garbage
<1>2. closed \in Seq(Owned) /\ closed' = Remember(closed, Leaving(gone))
  BY DEF ClosedInv, ValidClosed, Owned, Event
<1>3. /\ Leaving(gone) \in Seq(Owned)
      /\ ToSet(Leaving(gone)) \subseteq {<<j, active[j].id>> : j \in gone}
  BY <1>1, Left
<1>4. /\ closed' \in Seq(Owned) /\ Len(closed') <= MAX_CLOSED_TURNS
      /\ ToSet(closed') \subseteq ToSet(closed) \cup {<<j, active[j].id>> : j \in gone}
  BY <1>2, <1>3, Remembered
<1>5. \A j \in Agents \ {k} : active'[j] = IF j \in gone THEN None ELSE active[j]
  BY DEF Event, Swept, OpenTurns
<1>6. active'[k].id = t
  <2>1. OpenAs(k, t) => Updated(active[k], d).id = t
    BY UpdatedType DEF OpenTurns, OpenAs, Open
  <2>2. NewTurn(t, d).id = t
    BY NewTurnType
  <2> QED
    BY <2>1, <2>2 DEF Event, Swept
<1>7. IF Open(k) THEN k \notin gone /\ active[k].id = t ELSE <<k, t>> \notin ToSet(closed) /\ k \notin gone
  BY DEF Event, Takes, Garbage, Terminal
<1> HIDE DEF gone
<1>8. Open(k) \/ <<k, active'[k].id>> \notin ToSet(closed')
  BY <1>4, <1>6, <1>7
<1>9. \A j \in Agents :
        \/ active'[j] = None
        \/ j \notin gone /\ Open(j) /\ active'[j].id = active[j].id
        \/ <<j, active'[j].id>> \notin ToSet(closed')
  BY <1>5, <1>6, <1>7, <1>8 DEF Open
<1> QED
  BY <1>4, <1>9, Apart DEF ValidClosed, Owned

LEMMA FinishCloses ==
  ASSUME TurnAssumption, OpenTurns, ClosedInv, NEW k \in Agents, NEW t \in Turns, Finish(k, t)
  PROVE  ClosedInv'
<1> DEFINE over == Garbage(k, t) \cup {k}
           base == Remember(closed, Leaving(over \ {k}))
<1>1. over \in SUBSET {j \in Agents : Open(j)} /\ active[k].id = t
  BY DEF Garbage, Finish, OpenAs
<1>2. closed \in Seq(Owned) /\ closed' = Remember(base, <<<<k, t>>>>)
  BY DEF ClosedInv, ValidClosed, Owned, Finish
<1> HIDE DEF over
<1>3. /\ Leaving(over \ {k}) \in Seq(Owned)
      /\ ToSet(Leaving(over \ {k})) \subseteq {<<j, active[j].id>> : j \in over \ {k}}
  BY <1>1, Left
<1>4. /\ base \in Seq(Owned)
      /\ ToSet(base) \subseteq ToSet(closed) \cup {<<j, active[j].id>> : j \in over \ {k}}
  BY <1>2, <1>3, Remembered
<1>5. <<<<k, t>>>> \in Seq(Owned) /\ ToSet(<<<<k, t>>>>) = {<<k, t>>}
  BY DEF ToSet, Owned
<1> HIDE DEF base
<1>6. /\ closed' \in Seq(Owned) /\ Len(closed') <= MAX_CLOSED_TURNS
      /\ ToSet(closed') \subseteq ToSet(base) \cup {<<k, t>>}
  BY <1>2, <1>4, <1>5, Remembered
<1>7. k \in over
  BY DEF over
<1>8. ToSet(closed') \subseteq ToSet(closed) \cup {<<j, active[j].id>> : j \in over}
  BY <1>1, <1>4, <1>6, <1>7
<1>9. \A j \in Agents : active'[j] = IF j \in over THEN None ELSE active[j]
  BY DEF Finish, Swept, over
<1> QED
  BY <1>6, <1>8, <1>9, Apart DEF ValidClosed, Owned, Open

LEMMA CloseCloses ==
  ASSUME TurnAssumption, OpenTurns, ClosedInv, NEW kept \in SUBSET Agents, Close(kept)
  PROVE  ClosedInv'
<1> DEFINE ks == Candidates(kept)
<1>1. ks \in SUBSET {j \in Agents : Open(j)}
  BY DEF Candidates
<1>2. closed \in Seq(Owned) /\ closed' = Remember(closed, Leaving(ks))
  BY DEF ClosedInv, ValidClosed, Owned, Close
<1>3. \A j \in Agents : active'[j] = IF j \in ks THEN None ELSE active[j]
  BY DEF Close, Swept
<1> HIDE DEF ks
<1>4. /\ Leaving(ks) \in Seq(Owned)
      /\ ToSet(Leaving(ks)) \subseteq {<<j, active[j].id>> : j \in ks}
  BY <1>1, Left
<1>5. /\ closed' \in Seq(Owned) /\ Len(closed') <= MAX_CLOSED_TURNS
      /\ ToSet(closed') \subseteq ToSet(closed) \cup {<<j, active[j].id>> : j \in ks}
  BY <1>2, <1>4, Remembered
<1> QED
  BY <1>3, <1>5, Apart DEF ValidClosed, Owned, Open

LEMMA NextClosed ==
  ASSUME TurnAssumption, OpenTurns, ClosedInv, [TurnsNext]_turnVars
  PROVE  ClosedInv'
<1>1. ASSUME NEW k \in Agents, DayPasses(k) PROVE ClosedInv'
  <2>1. active[k] \in Turn
    BY <1>1 DEF DayPasses, Open, OpenTurns
  <2>2. \A j \in Agents : active'[j] # None => Open(j) /\ active'[j].id = active[j].id
    BY <1>1, <2>1 DEF DayPasses, OpenTurns, Open, Turn
  <2> QED
    BY <1>1, <2>2 DEF DayPasses, ClosedInv, OpenIsNotClosed, Open
<1>2. ASSUME NEW kept \in SUBSET Agents, Retire(kept) PROVE ClosedInv'
  <2>1. \A j \in Agents : active'[j] # None => active'[j] = active[j]
    BY <1>2 DEF Retire, Swept
  <2> QED
    BY <1>2, <2>1 DEF Retire, ClosedInv, OpenIsNotClosed, Open
<1>3. CASE UNCHANGED turnVars
  BY <1>3 DEF turnVars, ClosedInv, OpenIsNotClosed, Open
<1> QED
  BY <1>1, <1>2, <1>3, PromptCloses, EventCloses, FinishCloses, CloseCloses DEF TurnsNext

\* No open turn is on the list of closed ones or was retired, so that none of
\* its late events is dropped when it has been collected, and the list keeps
\* to its limit (apply_v2_event, _remember_closed_turn).
THEOREM OpenIsApart ==
  ASSUME TurnAssumption
  PROVE  TurnsSpec => [](OpenIsNotTerminal /\ ValidClosed(closed))
<1> DEFINE Inv == RetiredInv /\ ClosedInv
<1>1. TurnsInit => Inv
  <2> SUFFICES ASSUME TurnsInit PROVE Inv
    OBVIOUS
  <2>1. closed = <<>> /\ closed \in Seq(Owned) /\ ToSet(closed) = {} /\ Len(closed) = 0
    BY DEF TurnsInit, ToSet
  <2> QED
    BY <2>1, InitRetired DEF ClosedInv, OpenIsNotClosed, ValidClosed, Owned, TurnAssumption
<1>2. Inv /\ [TurnsNext]_turnVars => Inv'
  BY NextRetired, NextClosed DEF RetiredInv
<1>3. Inv => OpenIsNotTerminal /\ ValidClosed(closed)
  BY DEF RetiredInv, ClosedInv, OpenIsNotTerminal
<1> QED
  BY <1>1, <1>2, <1>3, PTL DEF TurnsSpec

-----------------------------------------------------------------------------
(* The fields of the ledger that validate_v2_ledger checks.                *)

TypesInv ==
  /\ RetiredInv /\ ClosedInv /\ TurnsTypeOK
  /\ IsFiniteSet(retired)

LEMMA RetiredFits ==
  ASSUME TurnAssumption, TypesInv, NEW kept \in SUBSET Agents, Retire(kept)
  PROVE  ValidRetired(retired') /\ IsFiniteSet(retired')
<1> DEFINE ks == {k \in Agents \ kept : Open(k) /\ active[k].statusless}
           new == {<<k, active[k].id>> : k \in ks}
<1>1. new \subseteq Owned
  BY DEF TypesInv, RetiredInv, OpenTurns, Open, Turn, Owned
<1>2. IsFiniteSet(ks) /\ Cardinality(ks) \in Nat
  BY FS_Subset, FS_CardinalityType DEF TurnAssumption
<1>3. IsFiniteSet(new) /\ Cardinality(new) <= Cardinality(ks)
  <2> DEFINE f == [k \in ks |-> <<k, active[k].id>>]
  <2>1. f \in Surjection(ks, new)
    BY Fun_IsSurj
  <2> HIDE DEF ks, f, new
  <2> QED
    BY <1>2, <2>1, FS_Surjection
<1>4. Cardinality(retired) \in Nat /\ Cardinality(new) \in Nat /\ Cardinality(retired \cap new) \in Nat
  BY <1>3, FS_CardinalityType, FS_Intersection DEF TypesInv
<1>5. /\ retired' = retired \cup new
      /\ Cardinality(retired) + Cardinality(ks) <= MAX_RETIRED_TURNS
  BY DEF Retire
<1> HIDE DEF ks, new
<1>6. /\ IsFiniteSet(retired \cup new)
      /\ Cardinality(retired \cup new) =
           Cardinality(retired) + Cardinality(new) - Cardinality(retired \cap new)
  BY <1>3, FS_Union DEF TypesInv
<1>7. Cardinality(retired') <= MAX_RETIRED_TURNS
  BY <1>2, <1>3, <1>4, <1>5, <1>6 DEF TurnAssumption
<1> QED
  BY <1>1, <1>5, <1>6, <1>7 DEF ValidRetired, TypesInv, RetiredInv, OpenTurns, Owned

LEMMA HistoryTypes ==
  ASSUME TurnAssumption, TypesInv, [TurnsNext]_turnVars
  PROVE  given' \in [Agents -> SUBSET Turns] /\ closings' \in Seq(Owned)
<1>1. given \in [Agents -> SUBSET Turns] /\ closings \in Seq(Owned)
  BY DEF TypesInv, TurnsTypeOK, Owned
<1>2. \A ks \in SUBSET {k \in Agents : Open(k)} : closings \o Leaving(ks) \in Seq(Owned)
  BY <1>1, Left, JoinedElements DEF TypesInv, RetiredInv
<1>3. \A k \in Agents : \A t : Garbage(k, t) \in SUBSET {j \in Agents : Open(j)}
  BY DEF Garbage
<1>4. ASSUME NEW k \in Agents, NEW t \in Turns, Prompt(k, t)
      PROVE  given' \in [Agents -> SUBSET Turns] /\ closings' \in Seq(Owned)
  <2> DEFINE first == closings \o Leaving(Garbage(k, t))
  <2>1. first \in Seq(Owned)
    BY <1>2, <1>3
  <2>2. \/ closings' = first \o <<>>
        \/ Open(k) /\ closings' = first \o <<<<k, active[k].id>>>>
    BY <1>4 DEF Prompt
  <2>3. Open(k) => <<<<k, active[k].id>>>> \in Seq(Owned)
    BY DEF TypesInv, RetiredInv, OpenTurns, Open, Turn, Owned
  <2> HIDE DEF first
  <2>4. closings' \in Seq(Owned)
    BY <2>1, <2>2, <2>3, JoinedElements
  <2> QED
    BY <1>1, <1>4, <2>4 DEF Prompt
<1>5. ASSUME NEW k \in Agents, NEW t \in Turns, Finish(k, t)
      PROVE  given' \in [Agents -> SUBSET Turns] /\ closings' \in Seq(Owned)
  <2> DEFINE others == (Garbage(k, t) \cup {k}) \ {k}
             first == closings \o Leaving(others)
  <2>1. first \in Seq(Owned)
    BY <1>2, <1>3, <1>5 DEF Finish
  <2>2. closings' = first \o <<<<k, t>>>>
    BY <1>5 DEF Finish
  <2> HIDE DEF first
  <2>3. <<<<k, t>>>> \in Seq(Owned)
    BY DEF Owned
  <2> QED
    BY <1>1, <1>5, <2>1, <2>2, <2>3, JoinedElements DEF Finish
<1>6. ASSUME NEW k \in Agents, NEW t \in Turns, NEW d \in BOOLEAN, Event(k, t, d)
      PROVE  given' \in [Agents -> SUBSET Turns] /\ closings' \in Seq(Owned)
  BY <1>1, <1>2, <1>3, <1>6 DEF Event
<1>7. ASSUME NEW kept \in SUBSET Agents, Close(kept)
      PROVE  given' \in [Agents -> SUBSET Turns] /\ closings' \in Seq(Owned)
  <2>1. Candidates(kept) \in SUBSET {k \in Agents : Open(k)}
    BY DEF Candidates
  <2> QED
    BY <1>1, <1>2, <1>7, <2>1 DEF Close
<1> QED
  BY <1>1, <1>4, <1>5, <1>6, <1>7 DEF TurnsNext, DayPasses, Retire, turnVars

LEMMA NextTypes ==
  ASSUME TurnAssumption, TypesInv, [TurnsNext]_turnVars
  PROVE  TypesInv'
<1>1. RetiredInv' /\ ClosedInv'
  BY NextRetired, NextClosed DEF TypesInv, RetiredInv
<1>2. given' \in [Agents -> SUBSET Turns] /\ closings' \in Seq(Owned)
  BY HistoryTypes
<1>3. ValidRetired(retired') /\ IsFiniteSet(retired')
  <2>1. ASSUME NEW kept \in SUBSET Agents, Retire(kept)
        PROVE  ValidRetired(retired') /\ IsFiniteSet(retired')
    BY <2>1, RetiredFits
  <2>2. CASE retired' = retired
    BY <2>2 DEF TypesInv, TurnsTypeOK
  <2> QED
    BY <2>1, <2>2 DEF TurnsNext, Prompt, Event, Finish, DayPasses, Close, turnVars
<1> QED
  BY <1>1, <1>2, <1>3 DEF TypesInv, TurnsTypeOK, RetiredInv, OpenTurns, ClosedInv, Owned

LEMMA InitTypes == TurnAssumption /\ TurnsInit => TypesInv
<1> SUFFICES ASSUME TurnAssumption, TurnsInit PROVE TypesInv
  OBVIOUS
<1>1. RetiredInv
  BY InitRetired
<1>2. closed = <<>> /\ closed \in Seq(Owned) /\ ToSet(closed) = {} /\ Len(closed) = 0
  BY DEF TurnsInit, ToSet
<1>3. IsFiniteSet(retired) /\ Cardinality(retired) = 0
  BY FS_EmptySet DEF TurnsInit
<1>4. given \in [Agents -> SUBSET Turns] /\ closings \in Seq(Owned)
  BY <1>2 DEF TurnsInit, TurnAssumption
<1>5. ValidRetired(retired) /\ ValidClosed(closed)
  BY <1>2, <1>3 DEF TurnsInit, TurnAssumption, ValidRetired, ValidClosed, Owned
<1> QED
  BY <1>1, <1>2, <1>3, <1>4, <1>5
     DEF TypesInv, TurnsTypeOK, ClosedInv, OpenIsNotClosed, RetiredInv, OpenTurns, Owned

\* No sequence of events, retirements and collections brings the fields of the
\* turns to a state that validate_v2_ledger refuses to save: above all, neither
\* list outgrows its limit.
THEOREM TurnTypes ==
  ASSUME TurnAssumption
  PROVE  TurnsSpec => []TurnsTypeOK
<1>1. TurnsInit => TypesInv
  BY InitTypes
<1>2. TypesInv /\ [TurnsNext]_turnVars => TypesInv'
  BY NextTypes
<1>3. TypesInv => TurnsTypeOK
  BY DEF TypesInv
<1> QED
  BY <1>1, <1>2, <1>3, PTL DEF TurnsSpec

-----------------------------------------------------------------------------
(* Who opens a closed turn again.                                          *)

\* The closings of h after the last one of c.
After(h, c) == {i \in DOMAIN h : \A j \in DOMAIN h : h[j] = c => j < i}

\* A turn is not older on the list than in the history.
Recent(list, h) ==
  \A p \in DOMAIN list : Len(list) - p <= Cardinality(After(h, list[p]))

\* It is on the list, unless it had to go.
OnList(list, h, c) == c \in ToSet(list) \/ Cardinality(After(h, c)) >= MAX_CLOSED_TURNS

ReopenInv ==
  /\ TypesInv
  /\ Recent(closed, closings)
  /\ \A c \in ToSet(closings) :
       OnList(closed, closings, c) \/ c \in retired \/ OpenAs(c[1], c[2])

LEMMA AfterFinite ==
  ASSUME NEW C, NEW h \in Seq(C), NEW c
  PROVE  IsFiniteSet(After(h, c)) /\ Cardinality(After(h, c)) \in Nat
<1>1. IsFiniteSet(DOMAIN h)
  <2>1. Len(h) \in Nat /\ DOMAIN h = 1 .. Len(h)
    OBVIOUS
  <2> QED
    BY <2>1, FS_Interval
<1> QED
  BY <1>1, FS_Subset, FS_CardinalityType DEF After

\* Closings of other turns come after it.
LEMMA AfterOthers ==
  ASSUME NEW C, NEW h \in Seq(C), NEW u \in Seq(C), NEW c, c \notin ToSet(u)
  PROVE  Cardinality(After(h, c)) + Len(u) <= Cardinality(After(h \o u, c))
<1> DEFINE new == (Len(h) + 1) .. (Len(h) + Len(u))
<1>1. /\ Len(h) \in Nat /\ Len(u) \in Nat
      /\ DOMAIN h = 1 .. Len(h) /\ DOMAIN u = 1 .. Len(u)
      /\ DOMAIN (h \o u) = 1 .. Len(h) + Len(u)
      /\ \A i \in 1 .. Len(h) : (h \o u)[i] = h[i]
      /\ \A i \in new : (h \o u)[i] = u[i - Len(h)] /\ i - Len(h) \in DOMAIN u
  BY ConcatProperties
<1>2. \A i \in new : (h \o u)[i] # c
  BY <1>1 DEF ToSet
<1>3. \A i \in DOMAIN (h \o u) : i \in DOMAIN h \/ i \in new
  BY <1>1
<1>4. \A j \in DOMAIN (h \o u) : (h \o u)[j] = c => j \in DOMAIN h /\ h[j] = c
  BY <1>1, <1>2, <1>3
<1>5. After(h, c) \subseteq After(h \o u, c)
  <2> SUFFICES ASSUME NEW i \in After(h, c) PROVE i \in After(h \o u, c)
    OBVIOUS
  <2>1. i \in DOMAIN h /\ \A j \in DOMAIN h : h[j] = c => j < i
    BY DEF After
  <2>2. i \in DOMAIN (h \o u)
    BY <1>1, <2>1
  <2> QED
    BY <1>4, <2>1, <2>2 DEF After
<1>6. new \subseteq After(h \o u, c)
  <2> SUFFICES ASSUME NEW i \in new PROVE i \in After(h \o u, c)
    OBVIOUS
  <2>1. i \in DOMAIN (h \o u) /\ \A j \in DOMAIN h : j < i
    BY <1>1
  <2> QED
    BY <1>4, <2>1 DEF After
<1>7. IsFiniteSet(new) /\ Cardinality(new) = Len(u)
  <2>1. Len(h) + Len(u) \in Nat /\ Len(h) <= Len(h) + Len(u) /\ Len(h) + Len(u) - Len(h) = Len(u)
    BY <1>1
  <2> QED
    BY <1>1, <2>1, IntervalSize
<1>8. After(h, c) \cap new = {}
  BY <1>1 DEF After
<1> HIDE DEF new
<1>9. /\ IsFiniteSet(After(h, c)) /\ Cardinality(After(h, c)) \in Nat
      /\ IsFiniteSet(After(h \o u, c)) /\ Cardinality(After(h \o u, c)) \in Nat
  <2>1. h \o u \in Seq(C)
    BY JoinedElements
  <2> QED
    BY <2>1, AfterFinite
<1>10. /\ IsFiniteSet(After(h, c) \cup new)
       /\ Cardinality(After(h, c) \cup new) =
            Cardinality(After(h, c)) + Cardinality(new) - Cardinality({})
  BY <1>7, <1>8, <1>9, FS_Union
<1>11. Cardinality({}) = 0
  BY FS_EmptySet
<1>12. Cardinality(After(h, c) \cup new) <= Cardinality(After(h \o u, c))
  BY <1>5, <1>6, <1>9, FS_Subset
<1> QED
  BY <1>1, <1>7, <1>9, <1>10, <1>11, <1>12

\* After a closing come those that were made after it.
LEMMA AfterItself ==
  ASSUME NEW C, NEW h \in Seq(C), NEW u \in Seq(C), IsInjective(u), NEW q \in DOMAIN u
  PROVE  Len(u) - q <= Cardinality(After(h \o u, u[q]))
<1> DEFINE new == (Len(h) + 1) .. (Len(h) + Len(u))
           later == (Len(h) + q + 1) .. (Len(h) + Len(u))
<1>1. /\ Len(h) \in Nat /\ Len(u) \in Nat
      /\ DOMAIN h = 1 .. Len(h) /\ DOMAIN u = 1 .. Len(u)
      /\ DOMAIN (h \o u) = 1 .. Len(h) + Len(u)
      /\ \A i \in 1 .. Len(h) : (h \o u)[i] = h[i]
      /\ \A i \in new : (h \o u)[i] = u[i - Len(h)] /\ i - Len(h) \in DOMAIN u
  BY ConcatProperties
<1>2. q \in 1 .. Len(u)
  BY <1>1
<1>3. \A j \in DOMAIN (h \o u) : (h \o u)[j] = u[q] => j <= Len(h) + q
  <2> SUFFICES ASSUME NEW j \in DOMAIN (h \o u), (h \o u)[j] = u[q] PROVE j <= Len(h) + q
    OBVIOUS
  <2>1. CASE j \in DOMAIN h
    BY <1>1, <1>2, <2>1
  <2>2. CASE j \in new
    <3>1. u[j - Len(h)] = u[q] /\ j - Len(h) \in DOMAIN u
      BY <1>1, <2>2
    <3>2. j - Len(h) = q
      BY <3>1 DEF IsInjective
    <3> QED
      BY <1>1, <1>2, <2>2, <3>2
  <2> QED
    BY <1>1, <2>1, <2>2
<1>4. later \subseteq After(h \o u, u[q])
  <2> SUFFICES ASSUME NEW i \in later PROVE i \in After(h \o u, u[q])
    OBVIOUS
  <2>1. i \in DOMAIN (h \o u) /\ i > Len(h) + q /\ i \in Nat
    BY <1>1, <1>2
  <2>2. \A j \in DOMAIN (h \o u) : j \in Nat
    BY <1>1
  <2> QED
    BY <1>1, <1>2, <1>3, <2>1, <2>2 DEF After
<1>5. IsFiniteSet(later) /\ Cardinality(later) = Len(u) - q
  <2>1. /\ Len(h) + q \in Nat /\ Len(h) + Len(u) \in Nat /\ Len(h) + q <= Len(h) + Len(u)
        /\ Len(h) + Len(u) - (Len(h) + q) = Len(u) - q
    BY <1>1, <1>2
  <2> QED
    BY <2>1, IntervalSize
<1>6. IsFiniteSet(After(h \o u, u[q]))
  <2>1. h \o u \in Seq(C)
    BY JoinedElements
  <2> QED
    BY <2>1, AfterFinite
<1> HIDE DEF later
<1> QED
  BY <1>4, <1>5, <1>6, FS_Subset

\* What is forgotten makes nobody older.
LEMMA ForgetRecent ==
  ASSUME NEW C, NEW list \in Seq(C), NEW h \in Seq(C), Recent(list, h), NEW gone
  PROVE  /\ Recent(Forget(list, gone), h)
         /\ ToSet(Forget(list, gone)) = ToSet(list) \ gone
<1> DEFINE kept == {i \in DOMAIN list : list[i] \notin gone}
           f == Forget(list, gone)
<1>1. kept \in SUBSET DOMAIN list /\ f = Picked(list, kept)
  BY DEF Forget
<1>2. f \in Seq(C) /\ Len(f) = Cardinality(kept) /\ Cardinality(kept) \in Nat
  BY <1>1, PickedFrom, FS_CardinalityType
<1>3. ToSet(f) = {list[i] : i \in kept}
  BY <1>1, PickedElements
<1>4. ToSet(f) = ToSet(list) \ gone
  BY <1>3 DEF ToSet
<1>5. ASSUME NEW q \in DOMAIN f PROVE Len(f) - q <= Cardinality(After(h, f[q]))
  <2>1. q \in 1 .. Cardinality(kept)
    BY <1>2
  <2> HIDE DEF kept
  <2>2. PICK i \in kept : f[q] = list[i] /\ Cardinality(kept) - q <= Len(list) - i
    BY <1>1, <2>1, PickedPlaces
  <2>3. i \in DOMAIN list /\ i \in Nat /\ Len(list) \in Nat
    BY <1>1, <2>2
  <2>4. Len(list) - i <= Cardinality(After(h, list[i]))
    BY <2>3 DEF Recent
  <2>5. Cardinality(After(h, list[i])) \in Nat
    BY AfterFinite
  <2> QED
    BY <1>2, <2>1, <2>2, <2>3, <2>4, <2>5
<1> QED
  BY <1>4, <1>5 DEF Recent

\* Turns that are closed one after another: the list stays recent, and holds
\* who was remembered or is closed now, but for those that have to go.
LEMMA RememberRecent ==
  ASSUME TurnAssumption, NEW C, NEW list \in Seq(C), NEW h \in Seq(C), Recent(list, h),
         NEW over \in Seq(C), IsInjective(over)
  PROVE  /\ Recent(Remember(list, over), h \o over)
         /\ \A c : OnList(list, h, c) \/ c \in ToSet(over)
              => OnList(Remember(list, over), h \o over, c)
<1> DEFINE f == Forget(list, ToSet(over))
           all == f \o over
           first == 1 + (IF Len(all) > MAX_CLOSED_TURNS THEN Len(all) - MAX_CLOSED_TURNS ELSE 0)
           r == Remember(list, over)
           g == h \o over
<1>1. f \in Seq(C) /\ Recent(f, h) /\ ToSet(f) = ToSet(list) \ ToSet(over)
  BY Forgotten, ForgetRecent
<1>2. r = SubSeq(all, first, Len(all))
  BY DEF Remember
<1> HIDE DEF f, r
<1>3. /\ all \in Seq(C) /\ g \in Seq(C)
      /\ Len(f) \in Nat /\ Len(over) \in Nat
      /\ Len(all) = Len(f) + Len(over) /\ DOMAIN all = 1 .. Len(all)
      /\ DOMAIN f = 1 .. Len(f) /\ DOMAIN over = 1 .. Len(over)
      /\ \A i \in 1 .. Len(f) : all[i] = f[i]
      /\ \A i \in (Len(f) + 1) .. Len(all) : all[i] = over[i - Len(f)] /\ i - Len(f) \in DOMAIN over
  BY <1>1, ConcatProperties
<1>4. ASSUME NEW q \in DOMAIN all PROVE Len(all) - q <= Cardinality(After(g, all[q]))
  <2>1. CASE q \in DOMAIN f
    <3>1. all[q] = f[q] /\ Len(f) - q <= Cardinality(After(h, f[q]))
      BY <1>1, <1>3, <2>1 DEF Recent
    <3>2. f[q] \notin ToSet(over)
      BY <1>1, <2>1 DEF ToSet
    <3>3. Cardinality(After(h, f[q])) + Len(over) <= Cardinality(After(g, f[q]))
      BY <3>2, AfterOthers
    <3>4. Cardinality(After(h, f[q])) \in Nat /\ Cardinality(After(g, f[q])) \in Nat
      BY <1>3, AfterFinite
    <3> HIDE DEF all, g
    <3> QED
      BY <1>3, <2>1, <3>1, <3>3, <3>4
  <2>2. CASE q \notin DOMAIN f
    <3>1. q \in (Len(f) + 1) .. Len(all)
      BY <1>3, <2>2
    <3>2. all[q] = over[q - Len(f)] /\ q - Len(f) \in DOMAIN over
      BY <1>3, <3>1
    <3>3. Len(over) - (q - Len(f)) <= Cardinality(After(g, over[q - Len(f)]))
      BY <3>2, AfterItself
    <3> HIDE DEF all, g
    <3> QED
      BY <1>3, <3>1, <3>2, <3>3
  <2> QED
    BY <2>1, <2>2
<1>5. ToSet(list) \cup ToSet(over) \subseteq ToSet(all)
  <2>1. ASSUME NEW c \in ToSet(over) PROVE c \in ToSet(all)
    <3>1. PICK i \in DOMAIN over : over[i] = c
      BY DEF ToSet
    <3>2. Len(f) + i \in (Len(f) + 1) .. Len(all) /\ Len(f) + i - Len(f) = i /\ Len(f) + i \in DOMAIN all
      BY <1>3
    <3>3. all[Len(f) + i] = c
      BY <1>3, <3>1, <3>2
    <3> QED
      BY <3>2, <3>3 DEF ToSet
  <2>2. ASSUME NEW c \in ToSet(f) PROVE c \in ToSet(all)
    <3>1. PICK i \in DOMAIN f : f[i] = c
      BY DEF ToSet
    <3>2. i \in DOMAIN all /\ all[i] = c
      BY <1>3, <3>1
    <3> QED
      BY <3>2 DEF ToSet
  <2> QED
    BY <1>1, <2>1, <2>2
<1> HIDE DEF all, g
<1>6. Len(all) \in Nat /\ MAX_CLOSED_TURNS \in Nat \ {0}
  BY <1>3 DEF TurnAssumption
<1>7. first \in 1 .. Len(all) + 1 /\ (first = 1 \/ first = 1 + Len(all) - MAX_CLOSED_TURNS)
  BY <1>6
<1> HIDE DEF first
<1>8. /\ DOMAIN r = 1 .. Len(r) /\ Len(r) = Len(all) - first + 1
      /\ \A i \in 1 .. Len(r) : r[i] = all[first + i - 1]
  <2>1. \A i \in first .. Len(all) : all[i] \in C
    BY <1>3, <1>7
  <2>2. first \in Int /\ Len(all) \in Int
    BY <1>6, <1>7
  <2>3. /\ r \in Seq(C)
        /\ Len(r) = IF first <= Len(all) THEN Len(all) - first + 1 ELSE 0
        /\ \A i \in 1 .. Len(all) - first + 1 : r[i] = all[first + i - 1]
    BY <1>2, <2>1, <2>2, SubSeqProperties
  <2> QED
    BY <1>6, <1>7, <2>3
<1>9. Recent(r, g)
  <2> SUFFICES ASSUME NEW i \in DOMAIN r PROVE Len(r) - i <= Cardinality(After(g, r[i]))
    BY DEF Recent
  <2>1. first + i - 1 \in DOMAIN all /\ Len(r) - i = Len(all) - (first + i - 1) /\ i \in 1 .. Len(r)
    BY SMTT(30), <1>3, <1>6, <1>7, <1>8
  <2> QED
    BY <1>4, <1>8, <2>1
<1>10. ASSUME NEW c \in ToSet(all) PROVE OnList(r, g, c)
  <2>1. PICK q \in DOMAIN all : all[q] = c
    BY DEF ToSet
  <2>2. q \in 1 .. Len(all)
    BY <1>3
  <2>3. CASE q >= first
    <3>1. q - first + 1 \in DOMAIN r /\ first + (q - first + 1) - 1 = q
      BY <1>6, <1>7, <1>8, <2>2, <2>3
    <3>2. r[q - first + 1] = c
      BY <1>8, <2>1, <3>1
    <3> QED
      BY <3>1, <3>2 DEF ToSet, OnList
  <2>4. CASE q < first
    <3>1. Len(all) - q >= MAX_CLOSED_TURNS
      BY <1>6, <1>7, <2>2, <2>4
    <3>2. Cardinality(After(g, c)) \in Nat /\ Len(all) - q <= Cardinality(After(g, c))
      BY <1>3, <1>4, <2>1, AfterFinite
    <3> QED
      BY <1>6, <2>2, <3>1, <3>2 DEF OnList
  <2> QED
    BY <1>7, <2>2, <2>3, <2>4
<1>11. ASSUME NEW c, c \notin ToSet(over), Cardinality(After(h, c)) >= MAX_CLOSED_TURNS
       PROVE  OnList(r, g, c)
  <2>1. Cardinality(After(h, c)) + Len(over) <= Cardinality(After(g, c))
    BY <1>11, AfterOthers DEF g
  <2>2. Cardinality(After(h, c)) \in Nat /\ Cardinality(After(g, c)) \in Nat
    BY <1>3, AfterFinite
  <2> QED
    BY <1>3, <1>6, <1>11, <2>1, <2>2 DEF OnList
<1>12. \A c : OnList(list, h, c) \/ c \in ToSet(over) => OnList(r, g, c)
  BY <1>5, <1>10, <1>11 DEF OnList
<1> QED
  BY <1>9, <1>12 DEF r, g

\* The turns of ks, each once.
LEMMA LeftAll ==
  ASSUME TurnAssumption, OpenTurns, NEW ks \in SUBSET {k \in Agents : Open(k)}
  PROVE  /\ Leaving(ks) \in Seq(Owned) /\ IsInjective(Leaving(ks))
         /\ \A k \in ks : <<k, active[k].id>> \in ToSet(Leaving(ks))
<1> DEFINE o == Order(ks)
           v == Leaving(ks)
<1>1. IsFiniteSet(ks)
  BY FS_Subset DEF TurnAssumption
<1>2. o \in Seq(ks) /\ IsInjective(o) /\ ToSet(o) = ks
  BY <1>1, Listed DEF Order
<1>3. v = [i \in DOMAIN o |-> <<o[i], active[o[i]].id>>]
  BY DEF Leaving
<1>4. v \in Seq(Owned)
  BY Left
<1> HIDE DEF o, v
<1>5. DOMAIN v = DOMAIN o /\ \A i \in DOMAIN o : v[i] = <<o[i], active[o[i]].id>>
  BY <1>3
<1>6. IsInjective(v)
  BY <1>2, <1>5 DEF IsInjective
<1>7. \A k \in ks : <<k, active[k].id>> \in ToSet(v)
  BY <1>2, <1>5 DEF ToSet
<1> QED
  BY <1>4, <1>6, <1>7 DEF v

LEMMA OneRecent ==
  ASSUME TurnAssumption, NEW list \in Seq(Owned), NEW h \in Seq(Owned), Recent(list, h),
         NEW o \in Owned
  PROVE  /\ Recent(Remember(list, <<o>>), h \o <<o>>)
         /\ \A c : OnList(list, h, c) \/ c = o => OnList(Remember(list, <<o>>), h \o <<o>>, c)
<1>1. <<o>> \in Seq(Owned) /\ IsInjective(<<o>>) /\ ToSet(<<o>>) = {o}
  BY DEF IsInjective, ToSet
<1> QED
  BY <1>1, RememberRecent

\* What a step has to show: every turn that was closed, then or now, is on the
\* list if it did not have to go, or is open, or retired.
LEMMA Reopening ==
  ASSUME TypesInv', Recent(closed', closings'), NEW new,
         ToSet(closings') \subseteq ToSet(closings) \cup new,
         \A c \in ToSet(closings) \cup new :
           OnList(closed', closings', c) \/ c \in retired' \/ OpenAs(c[1], c[2])'
  PROVE  ReopenInv'
  BY DEF ReopenInv

LEMMA PromptReopen ==
  ASSUME TurnAssumption, ReopenInv, TypesInv', NEW k \in Agents, NEW t \in Turns, Prompt(k, t)
  PROVE  ReopenInv'
<1> DEFINE gone == Garbage(k, t)
           left == Leaving(gone)
           base == Remember(closed, left)
           list == Forget(base, {<<k, t>>})
           own == <<k, active[k].id>>
           hist == closings \o left
<1>1. gone \in SUBSET {j \in Agents : Open(j)}
  BY DEF Garbage
<1>2. OpenTurns /\ closed \in Seq(Owned) /\ closings \in Seq(Owned) /\ Recent(closed, closings)
  BY DEF ReopenInv, TypesInv, RetiredInv, ClosedInv, ValidClosed, TurnsTypeOK, Owned
<1>3. /\ left \in Seq(Owned) /\ IsInjective(left)
      /\ \A j \in gone : <<j, active[j].id>> \in ToSet(left)
      /\ ToSet(left) \subseteq {<<j, active[j].id>> : j \in gone}
  BY <1>1, <1>2, LeftAll, Left
<1>4. /\ base \in Seq(Owned) /\ Recent(base, hist)
      /\ \A c : OnList(closed, closings, c) \/ c \in ToSet(left) => OnList(base, hist, c)
  BY <1>2, <1>3, Remembered, RememberRecent
<1>5. hist \in Seq(Owned) /\ ToSet(hist) \subseteq ToSet(closings) \cup ToSet(left)
  BY <1>2, <1>3, JoinedElements
<1>6. /\ list \in Seq(Owned) /\ Recent(list, hist)
      /\ ToSet(list) = ToSet(base) \ {<<k, t>>}
  <2>1. list = Forget(base, {<<k, t>>})
    OBVIOUS
  <2> HIDE DEF list, base, hist
  <2>2. Recent(list, hist) /\ ToSet(list) = ToSet(base) \ {<<k, t>>}
    BY <1>4, <1>5, <2>1, ForgetRecent
  <2>3. list \in Seq(Owned)
    BY <1>4, <2>1, Forgotten
  <2> QED
    BY <2>2, <2>3
<1>7. \/ closed' = list /\ closings' = hist \o <<>> /\ (Open(k) => k \in gone \/ OpenAs(k, t))
      \/ /\ closed' = Remember(list, <<own>>) /\ closings' = hist \o <<own>>
         /\ Open(k) /\ active[k].id # t
  BY DEF Prompt, OpenAs
<1>8. /\ active' \in [Agents -> Turn \cup {None}] /\ retired' = retired
      /\ \A j \in Agents \ {k} : active'[j] = IF j \in gone THEN None ELSE active[j]
  BY <1>2 DEF Prompt, Swept, OpenTurns, TypesInv, RetiredInv
<1>9. OpenAs(k, t)'
  <2>1. OpenAs(k, t) => Updated(active[k], FALSE).id = t /\ Updated(active[k], FALSE) \in Turn
    BY <1>2, UpdatedType DEF OpenTurns, OpenAs, Open
  <2>2. NewTurn(t, FALSE).id = t /\ NewTurn(t, FALSE) \in Turn
    BY NewTurnType
  <2>3. active'[k].id = t /\ active'[k] \in Turn
    BY <1>2, <2>1, <2>2 DEF Prompt, Swept
  <2>4. None \notin Turn
    BY DEF TurnAssumption
  <2> QED
    BY <2>3, <2>4 DEF OpenAs, Open
<1>10. \A c \in ToSet(closings) \cup ToSet(left) :
         \/ c = own /\ Open(k) /\ active[k].id # t
         \/ OnList(base, hist, c) \/ c \in retired' \/ OpenAs(c[1], c[2])'
  <2> SUFFICES ASSUME NEW c \in ToSet(closings), OpenAs(c[1], c[2]), c \notin ToSet(left)
               PROVE  (c = own /\ Open(k) /\ active[k].id # t) \/ OpenAs(c[1], c[2])'
    BY <1>4, <1>8 DEF ReopenInv
  <2>1. c \in Owned
    BY <1>2 DEF ToSet
  <2>2. c = <<c[1], c[2]>> /\ c[1] \in Agents /\ active[c[1]].id = c[2]
    BY <2>1 DEF Owned, OpenAs
  <2>3. c[1] \notin gone
    BY <1>3, <2>2
  <2>4. CASE c[1] # k
    BY <1>8, <2>2, <2>3, <2>4 DEF OpenAs, Open
  <2>5. CASE c[1] = k
    BY <1>9, <2>2, <2>5 DEF OpenAs
  <2> QED
    BY <2>4, <2>5
<1>11. \A c : OnList(base, hist, c) /\ c # <<k, t>> => OnList(list, hist, c)
  BY <1>6 DEF OnList
<1>12. CASE closed' = list /\ closings' = hist \o <<>> /\ (Open(k) => k \in gone \/ OpenAs(k, t))
  <2>1. closings' = hist
    BY <1>5, <1>12
  <2>2. ASSUME NEW c \in ToSet(closings) \cup ToSet(left)
        PROVE  OnList(closed', closings', c) \/ c \in retired' \/ OpenAs(c[1], c[2])'
    <3>1. CASE c = own /\ Open(k) /\ active[k].id # t
      <4>1. c \in ToSet(left)
        BY <1>3, <1>12, <3>1 DEF OpenAs
      <4> QED
        BY <1>4, <1>11, <1>12, <2>1, <3>1, <4>1
    <3>2. CASE c = <<k, t>>
      BY <1>9, <3>2
    <3> QED
      BY <1>10, <1>11, <1>12, <2>1, <3>1, <3>2
  <2> QED
    BY <1>5, <1>6, <1>12, <2>1, <2>2, Reopening
<1>13. CASE /\ closed' = Remember(list, <<own>>) /\ closings' = hist \o <<own>>
            /\ Open(k) /\ active[k].id # t
  <2>1. own \in Owned
    BY <1>2, <1>13 DEF OpenTurns, Open, Turn, Owned
  <2> HIDE DEF own, list, hist
  <2>2. /\ Recent(closed', closings')
        /\ \A c : OnList(list, hist, c) \/ c = own => OnList(closed', closings', c)
    BY <1>5, <1>6, <1>13, <2>1, OneRecent
  <2>3. ToSet(closings') \subseteq ToSet(hist) \cup {own}
    <3>1. <<own>> \in Seq(Owned) /\ ToSet(<<own>>) = {own}
      BY <2>1 DEF ToSet
    <3> QED
      BY <1>5, <1>13, <3>1, JoinedElements
  <2>4. ASSUME NEW c \in ToSet(closings) \cup (ToSet(left) \cup {own})
        PROVE  OnList(closed', closings', c) \/ c \in retired' \/ OpenAs(c[1], c[2])'
    <3>1. CASE c = <<k, t>>
      BY <1>9, <3>1
    <3> QED
      BY <1>10, <1>11, <2>2, <3>1
  <2> QED
    BY <1>5, <2>2, <2>3, <2>4, Reopening
<1> QED
  BY <1>7, <1>12, <1>13

LEMMA EventReopen ==
  ASSUME TurnAssumption, ReopenInv, TypesInv', NEW k \in Agents, NEW t \in Turns,
         NEW d \in BOOLEAN, Event(k, t, d)
  PROVE  ReopenInv'
<1> DEFINE gone == Garbage(k, t)
           left == Leaving(gone)
<1>1. gone \in SUBSET {j \in Agents : Open(j)}
  BY DEF Garbage
<1>2. OpenTurns /\ closed \in Seq(Owned) /\ closings \in Seq(Owned) /\ Recent(closed, closings)
  BY DEF ReopenInv, TypesInv, RetiredInv, ClosedInv, ValidClosed, TurnsTypeOK, Owned
<1>3. /\ left \in Seq(Owned) /\ IsInjective(left)
      /\ \A j \in gone : <<j, active[j].id>> \in ToSet(left)
  BY <1>1, <1>2, LeftAll
<1>4. closed' = Remember(closed, left) /\ closings' = closings \o left /\ retired' = retired
  BY DEF Event
<1>5. /\ Recent(closed', closings')
      /\ \A c : OnList(closed, closings, c) \/ c \in ToSet(left) => OnList(closed', closings', c)
  BY <1>2, <1>3, <1>4, RememberRecent
<1>6. ToSet(closings') \subseteq ToSet(closings) \cup ToSet(left)
  BY <1>2, <1>3, <1>4, JoinedElements
<1>7. ASSUME NEW c \in ToSet(closings) \cup ToSet(left)
      PROVE  OnList(closed', closings', c) \/ c \in retired' \/ OpenAs(c[1], c[2])'
  <2> SUFFICES ASSUME c \in ToSet(closings), OpenAs(c[1], c[2]), c \notin ToSet(left)
               PROVE  OpenAs(c[1], c[2])'
    BY <1>4, <1>5 DEF ReopenInv
  <2>1. c \in Owned
    BY <1>2 DEF ToSet
  <2>2. c = <<c[1], c[2]>> /\ c[1] \in Agents /\ active[c[1]].id = c[2]
    BY <2>1 DEF Owned, OpenAs
  <2>3. c[1] \notin gone
    BY <1>3, <2>2
  <2>4. CASE c[1] # k
    <3>1. active'[c[1]] = active[c[1]]
      BY <1>2, <2>2, <2>3, <2>4 DEF Event, Swept
    <3> QED
      BY <3>1 DEF OpenAs, Open
  <2>5. CASE c[1] = k
    <3>1. OpenAs(k, t) /\ c[2] = t
      BY <2>2, <2>5 DEF Event, Takes, OpenAs
    <3>2. Updated(active[k], d) \in Turn /\ Updated(active[k], d).id = t
      BY <1>2, <3>1, UpdatedType DEF OpenTurns, OpenAs, Open
    <3>3. active'[k] = Updated(active[k], d)
      BY <1>2, <3>1 DEF Event, Swept
    <3> QED
      BY <2>5, <3>1, <3>2, <3>3 DEF OpenAs, Open, TurnAssumption
  <2> QED
    BY <2>4, <2>5
<1> QED
  BY <1>5, <1>6, <1>7, Reopening

LEMMA FinishReopen ==
  ASSUME TurnAssumption, ReopenInv, TypesInv', NEW k \in Agents, NEW t \in Turns, Finish(k, t)
  PROVE  ReopenInv'
<1> DEFINE others == (Garbage(k, t) \cup {k}) \ {k}
           left == Leaving(others)
           base == Remember(closed, left)
           hist == closings \o left
           own == <<k, t>>
<1>1. others \in SUBSET {j \in Agents : Open(j)}
  BY DEF Garbage
<1>2. OpenTurns /\ closed \in Seq(Owned) /\ closings \in Seq(Owned) /\ Recent(closed, closings)
  BY DEF ReopenInv, TypesInv, RetiredInv, ClosedInv, ValidClosed, TurnsTypeOK, Owned
<1>3. /\ left \in Seq(Owned) /\ IsInjective(left)
      /\ \A j \in others : <<j, active[j].id>> \in ToSet(left)
  BY <1>1, <1>2, LeftAll
<1>4. /\ base \in Seq(Owned) /\ Recent(base, hist)
      /\ \A c : OnList(closed, closings, c) \/ c \in ToSet(left) => OnList(base, hist, c)
  BY <1>2, <1>3, Remembered, RememberRecent
<1>5. hist \in Seq(Owned) /\ ToSet(hist) \subseteq ToSet(closings) \cup ToSet(left)
  <2> HIDE DEF left
  <2> QED
    BY <1>2, <1>3, JoinedElements
<1>6. /\ closed' = Remember(base, <<own>>) /\ closings' = hist \o <<own>> /\ retired' = retired
      /\ active' = Swept(Garbage(k, t) \cup {k}) /\ OpenAs(k, t)
  BY DEF Finish
<1>7. own \in Owned
  BY DEF Owned
<1> HIDE DEF own, base, hist
<1>8. /\ Recent(closed', closings')
      /\ \A c : OnList(base, hist, c) \/ c = own => OnList(closed', closings', c)
  BY <1>4, <1>5, <1>6, <1>7, OneRecent
<1>9. ToSet(closings') \subseteq ToSet(closings) \cup (ToSet(left) \cup {own})
  <2>1. <<own>> \in Seq(Owned) /\ ToSet(<<own>>) = {own}
    BY <1>7 DEF ToSet
  <2> QED
    BY <1>5, <1>6, <2>1, JoinedElements
<1>10. ASSUME NEW c \in ToSet(closings) \cup (ToSet(left) \cup {own})
       PROVE  OnList(closed', closings', c) \/ c \in retired' \/ OpenAs(c[1], c[2])'
  <2> SUFFICES ASSUME c \in ToSet(closings), OpenAs(c[1], c[2]), c \notin ToSet(left), c # own
               PROVE  OpenAs(c[1], c[2])'
    BY <1>4, <1>6, <1>8 DEF ReopenInv
  <2>1. c \in Owned
    BY <1>2 DEF ToSet
  <2>2. c = <<c[1], c[2]>> /\ c[1] \in Agents /\ active[c[1]].id = c[2]
    BY <2>1 DEF Owned, OpenAs
  <2>3. c[1] \notin others
    BY <1>3, <2>2
  <2>4. c[1] # k
    BY <1>6, <2>2 DEF OpenAs, own
  <2>5. active'[c[1]] = active[c[1]]
    BY <1>6, <2>2, <2>3, <2>4 DEF Swept
  <2> QED
    BY <2>5 DEF OpenAs, Open
<1> QED
  BY <1>8, <1>9, <1>10, Reopening

LEMMA CloseReopen ==
  ASSUME TurnAssumption, ReopenInv, TypesInv', NEW kept \in SUBSET Agents, Close(kept)
  PROVE  ReopenInv'
<1> DEFINE ks == Candidates(kept)
           left == Leaving(ks)
<1>1. ks \in SUBSET {j \in Agents : Open(j)}
  BY DEF Candidates
<1>2. OpenTurns /\ closed \in Seq(Owned) /\ closings \in Seq(Owned) /\ Recent(closed, closings)
  BY DEF ReopenInv, TypesInv, RetiredInv, ClosedInv, ValidClosed, TurnsTypeOK, Owned
<1>3. /\ left \in Seq(Owned) /\ IsInjective(left)
      /\ \A j \in ks : <<j, active[j].id>> \in ToSet(left)
  BY <1>1, <1>2, LeftAll
<1>4. /\ closed' = Remember(closed, left) /\ closings' = closings \o left /\ retired' = retired
      /\ active' = Swept(ks)
  BY DEF Close
<1>5. /\ Recent(closed', closings')
      /\ \A c : OnList(closed, closings, c) \/ c \in ToSet(left) => OnList(closed', closings', c)
  BY <1>2, <1>3, <1>4, RememberRecent
<1>6. ToSet(closings') \subseteq ToSet(closings) \cup ToSet(left)
  BY <1>2, <1>3, <1>4, JoinedElements
<1>7. ASSUME NEW c \in ToSet(closings) \cup ToSet(left)
      PROVE  OnList(closed', closings', c) \/ c \in retired' \/ OpenAs(c[1], c[2])'
  <2> SUFFICES ASSUME c \in ToSet(closings), OpenAs(c[1], c[2]), c \notin ToSet(left)
               PROVE  OpenAs(c[1], c[2])'
    BY <1>4, <1>5 DEF ReopenInv
  <2>1. c \in Owned
    BY <1>2 DEF ToSet
  <2>2. c = <<c[1], c[2]>> /\ c[1] \in Agents /\ active[c[1]].id = c[2]
    BY <2>1 DEF Owned, OpenAs
  <2>3. c[1] \notin ks
    BY <1>3, <2>2
  <2>4. active'[c[1]] = active[c[1]]
    BY <1>4, <2>2, <2>3 DEF Swept
  <2> QED
    BY <2>4 DEF OpenAs, Open
<1> QED
  BY <1>5, <1>6, <1>7, Reopening

LEMMA NextReopen ==
  ASSUME TurnAssumption, ReopenInv, [TurnsNext]_turnVars
  PROVE  ReopenInv'
<1>1. TypesInv'
  BY NextTypes DEF ReopenInv
<1>2. OpenTurns /\ closings \in Seq(Owned)
  BY DEF ReopenInv, TypesInv, RetiredInv, TurnsTypeOK, Owned
<1>3. ASSUME NEW k \in Agents, DayPasses(k) PROVE ReopenInv'
  <2>1. \A j \in Agents : \A i : OpenAs(j, i) => OpenAs(j, i)'
    <3>1. active[k] \in Turn /\ [active[k] EXCEPT !.stale = TRUE] \in Turn
          /\ [active[k] EXCEPT !.stale = TRUE].id = active[k].id
      BY <1>2, <1>3 DEF DayPasses, Open, OpenTurns, Turn
    <3> QED
      BY <1>2, <1>3, <3>1 DEF DayPasses, OpenTurns, OpenAs, Open, TurnAssumption
  <2>2. UNCHANGED <<closed, retired, closings>>
    BY <1>3 DEF DayPasses
  <2>3. \A c \in ToSet(closings) : c[1] \in Agents
    BY <1>2 DEF ToSet, Owned
  <2> QED
    BY <1>1, <2>1, <2>2, <2>3 DEF ReopenInv, Recent, OnList, After
<1>4. ASSUME NEW kept \in SUBSET Agents, Retire(kept) PROVE ReopenInv'
  <2> DEFINE ks == {k \in Agents \ kept : Open(k) /\ active[k].statusless}
  <2>1. /\ UNCHANGED <<closed, closings>> /\ active' = Swept(ks)
        /\ retired' = retired \cup {<<k, active[k].id>> : k \in ks}
    BY <1>4 DEF Retire
  <2>2. ASSUME NEW c \in ToSet(closings), OpenAs(c[1], c[2])
        PROVE  c \in retired' \/ OpenAs(c[1], c[2])'
    <3>1. c \in Owned
      BY <1>2 DEF ToSet
    <3>2. c = <<c[1], c[2]>> /\ c[1] \in Agents /\ active[c[1]].id = c[2]
      BY <2>2, <3>1 DEF Owned, OpenAs
    <3>3. CASE c[1] \in ks
      BY <2>1, <3>2, <3>3
    <3>4. CASE c[1] \notin ks
      <4>1. active'[c[1]] = active[c[1]]
        BY <2>1, <3>2, <3>4 DEF Swept
      <4> QED
        BY <2>2, <4>1 DEF OpenAs, Open
    <3> QED
      BY <3>3, <3>4
  <2> QED
    BY <1>1, <2>1, <2>2 DEF ReopenInv, Recent, OnList, After
<1>5. CASE UNCHANGED turnVars
  BY <1>1, <1>5 DEF turnVars, ReopenInv, Recent, OnList, After, OpenAs, Open
<1> QED
  BY <1>1, <1>3, <1>4, <1>5, PromptReopen, EventReopen, FinishReopen, CloseReopen DEF TurnsNext

LEMMA StepReopens ==
  ASSUME TurnAssumption, ReopenInv, TurnsNext
  PROVE  ReopensRightly
<1> SUFFICES ASSUME NEW k \in Agents, active'[k] # None, ~OpenAs(k, active'[k].id),
                    <<k, active'[k].id>> \in ToSet(closings)
             PROVE  \/ Prompt(k, active'[k].id)
                    \/ ClosedSince(<<k, active'[k].id>>) >= MAX_CLOSED_TURNS
  BY DEF ReopensRightly
<1>1. OpenTurns
  BY DEF ReopenInv, TypesInv, RetiredInv
<1> DEFINE was == active[k] # None /\ active'[k].id = active[k].id
<1>2. ~was
  BY DEF OpenAs, Open
<1> HIDE DEF was
<1>3. ASSUME NEW j \in Agents, NEW t \in Turns, Prompt(j, t)
      PROVE  Prompt(k, active'[k].id)
  <2>1. CASE j # k
    <3>1. active'[k] = IF k \in Garbage(j, t) THEN None ELSE active[k]
      BY <1>1, <1>3, <2>1 DEF Prompt, Swept, OpenTurns
    <3> QED
      BY <1>2, <3>1 DEF was
  <2>2. CASE j = k
    <3>1. OpenAs(k, t) => Updated(active[k], FALSE).id = t
      BY <1>1, UpdatedType DEF OpenTurns, OpenAs, Open
    <3>2. NewTurn(t, FALSE).id = t
      BY NewTurnType
    <3>3. active'[k].id = t
      BY <1>1, <1>3, <2>2, <3>1, <3>2 DEF Prompt, Swept, OpenTurns
    <3> QED
      BY <1>3, <2>2, <3>3
  <2> QED
    BY <2>1, <2>2
<1>4. ASSUME NEW j \in Agents, NEW t \in Turns, NEW d \in BOOLEAN, Event(j, t, d)
      PROVE  ClosedSince(<<k, active'[k].id>>) >= MAX_CLOSED_TURNS
  <2>1. CASE j # k
    <3>1. active'[k] = IF k \in Garbage(j, t) THEN None ELSE active[k]
      BY <1>1, <1>4, <2>1 DEF Event, Swept, OpenTurns
    <3> QED
      BY <1>2, <3>1 DEF was
  <2>2. CASE j = k
    <3>1. OpenAs(k, t) => Updated(active[k], d).id = t
      BY <1>1, UpdatedType DEF OpenTurns, OpenAs, Open
    <3>2. NewTurn(t, d).id = t
      BY NewTurnType
    <3>3. active'[k].id = t
      BY <1>1, <1>4, <2>2, <3>1, <3>2 DEF Event, Swept, OpenTurns
    <3>4. ~Open(k) /\ ~Terminal(k, t)
      BY <1>4, <2>2, <3>3 DEF Event, Takes, OpenAs
    <3>5. OnList(closed, closings, <<k, t>>)
      BY <3>3, <3>4 DEF ReopenInv, Terminal, OpenAs
    <3>6. Cardinality(After(closings, <<k, t>>)) >= MAX_CLOSED_TURNS
      BY <3>4, <3>5 DEF OnList, Terminal
    <3> QED
      BY <3>3, <3>6 DEF After, ClosedSince
  <2> QED
    BY <2>1, <2>2
<1>5. ASSUME active'[k] = None \/ was PROVE FALSE
  BY <1>2, <1>5
<1>6. ASSUME NEW j \in Agents, NEW t \in Turns, Finish(j, t) PROVE FALSE
  BY <1>1, <1>5, <1>6 DEF Finish, Swept, was
<1>7. ASSUME NEW j \in Agents, DayPasses(j) PROVE FALSE
  BY <1>1, <1>5, <1>7 DEF DayPasses, Open, OpenTurns, Turn, was
<1>8. ASSUME NEW kept \in SUBSET Agents, Close(kept) \/ Retire(kept) PROVE FALSE
  BY <1>1, <1>5, <1>8 DEF Close, Retire, Swept, was
<1> QED
  BY <1>3, <1>4, <1>6, <1>7, <1>8 DEF TurnsNext

\* No late event opens a turn again that was closed, until so many others were
\* closed after it that the list had no room for it: for any limit of the list,
\* any agents and turns (apply_v2_event, _remember_closed_turn).
THEOREM PromptsReopen ==
  ASSUME TurnAssumption
  PROVE  TurnsSpec => OnlyPromptsReopen
<1>1. TurnsInit => ReopenInv
  <2> SUFFICES ASSUME TurnsInit PROVE ReopenInv
    OBVIOUS
  <2>1. closed = <<>> /\ closings = <<>> /\ ToSet(closings) = {}
    BY DEF TurnsInit, ToSet
  <2>2. TypesInv
    BY InitTypes
  <2> QED
    BY <2>1, <2>2 DEF ReopenInv, Recent
<1>2. ReopenInv /\ [TurnsNext]_turnVars => ReopenInv'
  BY NextReopen
<1>3. ReopenInv /\ [TurnsNext]_turnVars => [ReopensRightly]_turnVars
  BY StepReopens
<1> QED
  BY <1>1, <1>2, <1>3, PTL DEF TurnsSpec, OnlyPromptsReopen

-----------------------------------------------------------------------------
(* The ledger file and its hooks (LedgerFile).                             *)

Inside(h) == hook[h].at \in {"publish", "read", "aside", "save"}

Carries == \A h \in Hooks :
  /\ Inside(h) => Holds(h) /\ (hook[h].at = "read" \/ hook[h].memory # None)
  /\ Inside(h) \/ hook[h].at \in {"convert", "load"} => hook[h].event \in Events

Undamaged == tears = 0 =>
  /\ file = None \/ file.whole
  /\ \A h \in Hooks : hook[h].at \notin {"aside", "lost?"}

Tended == upkeep # None =>
  file = upkeep /\ \A h \in Hooks : hook[h].at \in {"idle", "convert", "load"}

Remembers == \A h \in Hooks :
  /\ HookAt(h, "publish") =>
       hook[h].memory = archive /\ (file = None \/ file.events = archive.events)
  /\ HookAt(h, "read") => file = None \/ hook[h].memory = None
  /\ HookAt(h, "save") => file = None \/ file.events \subseteq hook[h].memory.events

FileInv == FileTypeOK /\ Carries /\ Undamaged /\ Tended /\ Remembers /\ SavedSurvives

LEMMA RecordFacts ==
  ASSUME FileAssumption
  PROVE
  /\ None \notin LedgerRecord /\ None \notin Damaged
  /\ \A f \in LedgerRecord :
       /\ f.whole /\ f.events \subseteq Events
       /\ [f EXCEPT !.version = 2] \in LedgerRecord
       /\ [f EXCEPT !.version = 2].events = f.events
       /\ [f EXCEPT !.whole = FALSE] \in Damaged
       /\ [f EXCEPT !.whole = FALSE].events = f.events
  /\ \A f \in LedgerRecord, e \in Events :
       /\ [f EXCEPT !.events = @ \cup {e}] \in LedgerRecord
       /\ [f EXCEPT !.events = @ \cup {e}].events = f.events \cup {e}
  /\ \A f \in Damaged : ~f.whole /\ f.events \subseteq Events
  /\ \A v \in {1, 2} : New(v) \in LedgerRecord /\ New(v).events = {}
<1>1. None \notin LedgerRecord /\ None \notin Damaged
  BY DEF FileAssumption, LedgerRecord, Damaged
<1> QED
  BY <1>1 DEF LedgerRecord, Damaged, New

LEMMA FileTypeInit == FileAssumption /\ FileInit => FileTypeOK /\ Carries
<1> SUFFICES ASSUME FileAssumption, FileInit PROVE FileTypeOK /\ Carries
  OBVIOUS
<1>1. New(1) \in LedgerRecord /\ New(2) \in LedgerRecord
  BY RecordFacts
<1>2. Idle \in HookState
  BY DEF Idle, HookState
<1> QED
  BY <1>1, <1>2 DEF FileAssumption, FileInit, FileTypeOK, Carries, Inside, HookAt, Idle

LEMMA FileTypeStep ==
  ASSUME FileAssumption, FileTypeOK, Carries, [FileNext]_fileVars
  PROVE  FileTypeOK' /\ Carries'
<1> USE DEF FileTypeOK, Carries, Inside, HookAt, Holds
<1>1. ASSUME NEW h \in Hooks, Read(h) PROVE FileTypeOK' /\ Carries'
  BY <1>1, RecordFacts DEF HookState, Read, Whole, HookState
<1>2. ASSUME NEW h \in Hooks, ReadDamaged(h) PROVE FileTypeOK' /\ Carries'
  BY <1>2, RecordFacts DEF HookState, ReadDamaged
<1>3. ASSUME NEW h \in Hooks, MoveAside(h) PROVE FileTypeOK' /\ Carries'
  BY <1>3, RecordFacts DEF HookState, MoveAside, Done, Idle
<1>4. ASSUME NEW h \in Hooks, NEW e \in Events, BeginEvent(h, e) PROVE FileTypeOK' /\ Carries'
  BY <1>4, RecordFacts DEF HookState, BeginEvent
<1>5. ASSUME NEW h \in Hooks, Convert(h) PROVE FileTypeOK' /\ Carries'
  <2>1. CASE Done(h) /\ UNCHANGED <<archive, holder>>
    BY <1>5, <2>1 DEF Convert, Done, Idle, HookState
  <2>2. CASE hook' = [hook EXCEPT ![h].at = "load"] /\ UNCHANGED <<archive, holder>>
    BY <1>5, <2>2 DEF Convert, HookState
  <2>3. CASE /\ hook' = [hook EXCEPT ![h].at = "publish", ![h].memory = file]
             /\ Convertible(file) /\ archive' = file /\ holder' = h
    <3>1. file \in LedgerRecord /\ file # None
      BY <2>3, RecordFacts DEF Convertible, Whole
    <3>2. \A g \in Hooks \ {h} : hook'[g] = hook[g] /\ ~Inside(g)
      BY <1>5, <2>3 DEF Convert, Unlocked, FileAssumption
    <3>3. hook'[h] \in HookState /\ hook'[h].memory # None /\ hook'[h].event \in Events
      BY <1>5, <2>3, <3>1 DEF Convert, HookState
    <3> QED
      BY <1>5, <2>3, <3>1, <3>2, <3>3 DEF Convert
  <2> QED
    BY <1>5, <2>1, <2>2, <2>3 DEF Convert
<1>6. ASSUME NEW h \in Hooks, PublishConverted(h) PROVE FileTypeOK' /\ Carries'
  BY <1>6, RecordFacts DEF HookState, PublishConverted
<1>7. ASSUME NEW h \in Hooks, Look(h) PROVE FileTypeOK' /\ Carries'
  <2> DEFINE known == IF file = None THEN New(2) ELSE None
  <2>1. known \in LedgerRecord \cup {None}
    BY RecordFacts
  <2>2. hook' = [hook EXCEPT ![h].at = "read", ![h].memory = known]
    BY <1>7 DEF Look
  <2>3. \A g \in Hooks \ {h} : ~Inside(g)
    BY <1>7 DEF Look, Unlocked, FileAssumption
  <2> HIDE DEF known
  <2>4. \A g \in Hooks \ {h} : hook'[g] = hook[g]
    BY <2>2
  <2>5. hook[h].event \in Events
    BY <1>7 DEF Look
  <2>6. hook' \in [Hooks -> HookState] /\ hook'[h].at = "read" /\ hook'[h].event \in Events
    <3>1. hook[h] \in HookState /\ hook \in [Hooks -> HookState]
      OBVIOUS
    <3>2. [hook[h] EXCEPT !.at = "read", !.memory = known] \in HookState
      BY <2>1, <3>1 DEF HookState
    <3>3. hook'[h] = [hook[h] EXCEPT !.at = "read", !.memory = known]
      BY <3>1, <2>2
    <3>4. hook'[h].at = "read" /\ hook'[h].event = hook[h].event
      BY <3>1, <3>3 DEF HookState
    <3> QED
      BY <2>2, <2>5, <3>1, <3>2, <3>3, <3>4
  <2> QED
    BY <1>7, <2>3, <2>4, <2>6 DEF Look
<1>8. ASSUME NEW h \in Hooks, Load(h) PROVE FileTypeOK' /\ Carries'
  <2> DEFINE place == IF ~Fresh(h) /\ file # None /\ ~file.whole THEN "aside" ELSE "save"
             known == IF hook[h].memory = None THEN Loaded(h) ELSE hook[h].memory
  <2>1. place \in {"aside", "save"}
    OBVIOUS
  <2>2. New(1) \in LedgerRecord /\ (Whole(file) => file \in LedgerRecord)
    BY RecordFacts DEF Whole
  <2>3. Loaded(h) \in LedgerRecord
    BY <2>2 DEF HookState, Fresh, Loaded
  <2>4. known \in LedgerRecord
    BY <2>3 DEF HookState
  <2>5. hook' = [hook EXCEPT ![h].at = place, ![h].memory = known]
    BY <1>8 DEF Load
  <2>6. known # None
    BY <2>4, RecordFacts
  <2> HIDE DEF place, known
  <2>7. \A g \in Hooks \ {h} : hook'[g] = hook[g]
    BY <2>5
  <2>8. hook[h].event \in Events /\ holder = h
    BY <1>8 DEF Load
  <2>9. /\ hook' \in [Hooks -> HookState]
        /\ hook'[h].memory # None /\ hook'[h].event \in Events
    <3>1. hook[h] \in HookState /\ hook \in [Hooks -> HookState]
      OBVIOUS
    <3>2. [hook[h] EXCEPT !.at = place, !.memory = known] \in HookState
      BY <2>1, <2>4, <3>1 DEF HookState
    <3>3. hook'[h] = [hook[h] EXCEPT !.at = place, !.memory = known]
      BY <3>1, <2>5
    <3>4. hook'[h].memory = known /\ hook'[h].event = hook[h].event
      BY <3>1, <3>3 DEF HookState
    <3> QED
      BY <2>5, <2>6, <2>8, <3>1, <3>2, <3>3, <3>4
  <2> QED
    BY <1>8, <2>7, <2>8, <2>9 DEF Load
<1>9. ASSUME NEW h \in Hooks, Save(h) PROVE FileTypeOK' /\ Carries'
  <2>1. hook[h].memory \in LedgerRecord /\ hook[h].event \in Events
    BY <1>9 DEF HookState, Save
  <2>2. file' \in LedgerRecord
    BY <1>9, <2>1, RecordFacts DEF Save
  <2>3. Idle \in HookState
    BY DEF Idle, HookState
  <2> QED
    BY <1>9, <2>1, <2>2, <2>3 DEF Save, Idle
<1>10. ASSUME NEW h \in Hooks, SaveFails(h) \/ PublishFails(h) \/ HookDies(h)
      PROVE FileTypeOK' /\ Carries'
  <2>1. Idle \in HookState /\ Idle.at = "idle"
    BY DEF Idle, HookState
  <2>2. hook' = [hook EXCEPT ![h] = Idle] /\ \A g \in Hooks \ {h} : Holds(g) => holder' = g
    BY <1>10 DEF SaveFails, PublishFails, HookDies
  <2>3. CASE SaveFails(h)
    BY <2>1, <2>2, <2>3 DEF SaveFails, FileAssumption
  <2>4. CASE PublishFails(h)
    BY <2>1, <2>2, <2>4 DEF PublishFails, FileAssumption
  <2>5. CASE HookDies(h)
    BY <2>1, <2>2, <2>5 DEF HookDies, FileAssumption
  <2> QED
    BY <1>10, <2>3, <2>4, <2>5
<1>11. CASE Upkeep \/ UpkeepWrites \/ Tear
  <2>1. CASE Upkeep
    BY <2>1, RecordFacts DEF Upkeep, Whole
  <2>2. CASE UpkeepWrites
    BY <2>2 DEF UpkeepWrites
  <2>3. CASE Tear
    <3>1. file \in LedgerRecord
      BY <2>3, RecordFacts DEF Tear, Whole
    <3>2. file' \in Damaged
      BY <2>3, <3>1, RecordFacts DEF Tear
    <3> QED
      BY <2>3, <3>2, FileAssumption DEF Tear, FileAssumption
  <2> QED
    BY <1>11, <2>1, <2>2, <2>3
<1>12. CASE UNCHANGED fileVars
  BY <1>12, RecordFacts DEF HookState, fileVars
<1> QED
  BY <1>1, <1>2, <1>3, <1>4, <1>5, <1>6, <1>7, <1>8, <1>9, <1>10, <1>11, <1>12 DEF FileNext

\* What the places there are keep is kept, while each of them has another that
\* holds as much.
LEMMA PlacesKeep ==
  ASSUME saved \subseteq UNION {f.events : f \in Places}, saved' = saved,
         \A f \in Places : \E g \in Places' : f.events \subseteq g.events
  PROVE  (saved \subseteq UNION {f.events : f \in Places})'
<1> SUFFICES ASSUME NEW e \in saved PROVE e \in UNION {f.events : f \in Places'}
  OBVIOUS
<1>1. PICK f \in Places : e \in f.events
  OBVIOUS
<1>2. PICK g \in Places' : f.events \subseteq g.events
  OBVIOUS
<1> QED
  BY <1>1, <1>2

LEMMA QuietStep ==
  ASSUME FileInv, UNCHANGED <<file, asides, archive, saved, tears>>
  PROVE  SavedSurvives'
  BY DEF FileInv, SavedSurvives, Places

LEMMA FileStep ==
  ASSUME FileAssumption, Supervised, FileInv, FileTypeOK', Carries', [FileNext]_fileVars
  PROVE  (Undamaged /\ Tended /\ Remembers /\ SavedSurvives)'
<1> DEFINE Goal == Undamaged /\ Tended /\ Remembers /\ SavedSurvives
<1> USE DEF HookAt
<1>0. /\ FileTypeOK /\ Carries /\ Undamaged /\ Tended /\ Remembers /\ SavedSurvives
      /\ hook \in [Hooks -> HookState] /\ hook' \in [Hooks -> HookState]
      /\ tears \in Nat
  BY DEF FileInv, FileTypeOK, FileAssumption
<1>1. ASSUME NEW h \in Hooks, Read(h) PROVE Goal'
  <2>1. UNCHANGED <<file, asides, archive, holder, upkeep, saved, tears>>
    BY <1>1 DEF Read
  <2>2. \A g \in Hooks : hook'[g].at = hook[g].at /\ hook'[g].memory = hook[g].memory
    BY <1>0, <1>1 DEF Read, HookState
  <2> QED
    BY <1>0, <2>1, <2>2, QuietStep DEF Undamaged, Tended, Remembers
<1>2. ASSUME NEW h \in Hooks, ReadDamaged(h) PROVE Goal'
  <2>1. UNCHANGED <<file, asides, archive, holder, upkeep, saved, tears>> /\ file # None /\ ~file.whole
    BY <1>2 DEF ReadDamaged
  <2>2. hook'[h].at = "lost?" /\ \A g \in Hooks \ {h} : hook'[g] = hook[g]
    BY <1>0, <1>2 DEF ReadDamaged, HookState
  <2>3. upkeep = None
    <3>1. upkeep # None => upkeep \in LedgerRecord /\ file = upkeep
      BY <1>0 DEF FileTypeOK, Tended
    <3> QED
      BY <2>1, <3>1, RecordFacts
  <2> QED
    BY <1>0, <2>1, <2>2, <2>3, QuietStep DEF Undamaged, Tended, Remembers
<1>3. ASSUME NEW h \in Hooks, MoveAside(h) PROVE Goal'
  <2>1. /\ asides' = asides \cup ({file} \ {None}) /\ file' = None
        /\ UNCHANGED <<archive, holder, upkeep, saved, tears>>
    BY <1>3 DEF MoveAside
  <2>2. tears # 0
    BY <1>0, <1>3 DEF MoveAside, Undamaged
  <2>3. upkeep = None
    BY <1>0, <1>3 DEF MoveAside, Tended
  <2>4. hook'[h].at \in {"save", "idle"} /\ \A g \in Hooks \ {h} : hook'[g] = hook[g]
    BY <1>0, <1>3 DEF MoveAside, Done, Idle, HookState
  <2>5. \A f \in Places : f \in Places'
    BY <2>1 DEF Places
  <2>6. SavedSurvives'
    BY <1>0, <2>1, <2>2, <2>5, PlacesKeep DEF SavedSurvives
  <2> QED
    BY <1>0, <2>1, <2>2, <2>3, <2>4, <2>6 DEF Undamaged, Tended, Remembers
<1>4. ASSUME NEW h \in Hooks, NEW e \in Events, BeginEvent(h, e) PROVE Goal'
  <2>1. UNCHANGED <<file, asides, archive, holder, upkeep, saved, tears>>
    BY <1>4 DEF BeginEvent
  <2>2. hook'[h].at \in {"convert", "load"} /\ \A g \in Hooks \ {h} : hook'[g] = hook[g]
    BY <1>0, <1>4 DEF BeginEvent, HookState
  <2> QED
    BY <1>0, <2>1, <2>2, QuietStep DEF Undamaged, Tended, Remembers
<1>5. ASSUME NEW h \in Hooks, Convert(h) PROVE Goal'
  <2>1. UNCHANGED <<file, asides, upkeep, saved, tears>> /\ upkeep = None /\ holder = None
    BY <1>5 DEF Convert, Unlocked
  <2>2. \A g \in Hooks \ {h} : hook'[g] = hook[g] /\ ~Inside(g)
    BY <1>0, <1>5, <2>1 DEF Convert, Done, Carries, Holds, FileAssumption
  <2>3. CASE Done(h) /\ UNCHANGED archive
    BY <1>0, <2>1, <2>2, <2>3, QuietStep DEF Done, Idle, Undamaged, Tended, Remembers
  <2>4. CASE hook' = [hook EXCEPT ![h].at = "load"] /\ UNCHANGED archive
    <3>1. hook'[h].at = "load"
      BY <1>0, <2>4 DEF HookState
    <3> QED
      BY <1>0, <2>1, <2>2, <2>4, <3>1, QuietStep DEF Undamaged, Tended, Remembers
  <2>5. CASE /\ hook' = [hook EXCEPT ![h].at = "publish", ![h].memory = file]
             /\ Convertible(file) /\ file.version = 1 /\ archive' = file
    <3>1. hook'[h].at = "publish" /\ hook'[h].memory = file /\ file # None
      BY <1>0, <2>5 DEF HookState, Convertible, Whole
    <3>2. Places' = Places \cup {file}
      BY <2>1, <2>5, <3>1 DEF Places, Convertible
    <3>3. SavedSurvives'
      BY <1>0, <2>1, <3>2, PlacesKeep DEF SavedSurvives
    <3> QED
      BY <1>0, <2>1, <2>2, <2>5, <3>1, <3>3 DEF Undamaged, Tended, Remembers, Inside
  <2> QED
    BY <1>5, <2>3, <2>4, <2>5 DEF Convert
<1>6. ASSUME NEW h \in Hooks, PublishConverted(h) \/ PublishFails(h) PROVE Goal'
  <2> DEFINE m == hook[h].memory
  <2>1. UNCHANGED <<asides, archive, upkeep, saved, tears>> /\ hook[h].at = "publish"
    BY <1>6 DEF PublishConverted, PublishFails
  <2>2. m \in LedgerRecord /\ m = archive /\ (file = None \/ file.events = m.events)
    BY <1>0, <2>1 DEF Carries, Inside, Remembers, HookState
  <2>3. file' \in LedgerRecord /\ file'.events = m.events
    <3>1. file' = m \/ file' = [m EXCEPT !.version = 2]
      BY <1>6, <2>2 DEF PublishConverted, PublishFails
    <3>2. [m EXCEPT !.version = 2] \in LedgerRecord /\ [m EXCEPT !.version = 2].events = m.events
      BY <2>2, RecordFacts
    <3> QED
      BY <2>2, <3>1, <3>2
  <2>4. file' # None /\ file'.whole
    BY <2>3, RecordFacts
  <2>5. hook'[h].at \in {"idle", "load"}
    BY <1>0, <1>6 DEF PublishConverted, PublishFails, Idle, HookState
  <2>6. \A g \in Hooks \ {h} : hook'[g] = hook[g] /\ ~Inside(g)
    BY <1>0, <1>6, <2>1 DEF PublishConverted, PublishFails, Carries, Holds, Inside
  <2>7. \A f \in Places : \E g \in Places' : f.events \subseteq g.events
    BY <2>1, <2>2, <2>3, <2>4 DEF Places
  <2>8. SavedSurvives'
    BY <1>0, <2>1, <2>2, <2>3, <2>4, <2>7, PlacesKeep DEF SavedSurvives
  <2>9. upkeep = None
    BY <1>0, <2>1 DEF Tended
  <2> QED
    BY <1>0, <2>1, <2>4, <2>5, <2>6, <2>8, <2>9 DEF Undamaged, Tended, Remembers, Inside
<1>7. ASSUME NEW h \in Hooks, Look(h) PROVE Goal'
  <2>1. /\ UNCHANGED <<file, asides, archive, upkeep, saved, tears>> /\ upkeep = None /\ holder = None
    BY <1>7 DEF Look, Unlocked
  <2>2. \A g \in Hooks \ {h} : hook'[g] = hook[g] /\ ~Inside(g)
    BY <1>0, <1>7, <2>1 DEF Look, Carries, Holds, FileAssumption
  <2>3. hook'[h].at = "read" /\ hook'[h].memory = IF file = None THEN New(2) ELSE None
    BY <1>0, <1>7 DEF Look, HookState
  <2> QED
    BY <1>0, <2>1, <2>2, <2>3, QuietStep DEF Undamaged, Tended, Remembers
<1>8. ASSUME NEW h \in Hooks, Load(h) PROVE Goal'
  <2>1. UNCHANGED <<file, asides, archive, upkeep, saved, tears>> /\ hook[h].at = "read"
    BY <1>8 DEF Load
  <2>2. upkeep = None
    BY <1>0, <2>1 DEF Tended
  <2>3. \A g \in Hooks \ {h} : hook'[g] = hook[g] /\ ~Inside(g)
    BY <1>0, <1>8, <2>1 DEF Load, Carries, Holds, Inside
  <2>4. /\ hook'[h].at = IF ~Fresh(h) /\ file # None /\ ~file.whole THEN "aside" ELSE "save"
        /\ hook'[h].memory = IF hook[h].memory = None THEN Loaded(h) ELSE hook[h].memory
    BY <1>0, <1>8 DEF Load, HookState
  <2>5. file = None \/ hook[h].memory = None
    BY <1>0, <2>1 DEF Remembers
  <2>6. hook'[h].at = "save" => file = None \/ file.events \subseteq hook'[h].memory.events
    BY <2>4, <2>5 DEF Fresh, Loaded, Whole
  <2>7. tears = 0 => hook'[h].at = "save"
    BY <1>0, <2>4 DEF Undamaged
  <2>8. hook'[h].at \in {"aside", "save"}
    BY <2>4
  <2> QED
    BY <1>0, <2>1, <2>2, <2>3, <2>6, <2>7, <2>8, QuietStep DEF Undamaged, Tended, Remembers
<1>9. ASSUME NEW h \in Hooks, Save(h) PROVE Goal'
  <2> DEFINE m == hook[h].memory
             e == hook[h].event
  <2>1. /\ UNCHANGED <<asides, archive, upkeep, tears>> /\ saved' = saved \cup {e}
        /\ hook' = [hook EXCEPT ![h] = Idle] /\ hook[h].at = "save"
    BY <1>9 DEF Save
  <2>2. m \in LedgerRecord /\ e \in Events /\ (file = None \/ file.events \subseteq m.events)
    BY <1>0, <2>1 DEF Carries, Inside, Remembers, HookState
  <2>3. file' = [m EXCEPT !.events = @ \cup {e}]
    BY <1>9 DEF Save
  <2>4. file' \in LedgerRecord /\ file'.events = m.events \cup {e}
    BY <2>2, <2>3, RecordFacts
  <2>5. file' # None /\ file'.whole
    BY <2>4, RecordFacts
  <2>6. \A g \in Hooks \ {h} : hook'[g] = hook[g] /\ ~Inside(g)
    BY <1>0, <1>9, <2>1 DEF Save, Carries, Holds, Inside
  <2>7. upkeep = None
    BY <1>0, <2>1 DEF Tended
  <2>8. \A d \in saved' : \E f \in Places' : d \in f.events
    <3> SUFFICES ASSUME NEW d \in saved' PROVE \E f \in Places' : d \in f.events
      OBVIOUS
    <3>1. file' \in Places'
      BY <2>5 DEF Places
    <3>2. CASE d = e
      BY <2>4, <3>1, <3>2
    <3>3. CASE d \in saved
      <4>1. PICK f \in Places : d \in f.events
        BY <1>0, <3>3 DEF SavedSurvives
      <4>2. (f = file /\ file # None) \/ f \in Places'
        BY <2>1 DEF Places
      <4>3. f = file /\ file # None => d \in file'.events
        BY <2>2, <2>4, <4>1
      <4> QED
        BY <3>1, <4>1, <4>2, <4>3
    <3> QED
      BY <2>1, <3>2, <3>3
  <2>9. SavedSurvives'
    BY <1>0, <2>1, <2>2, <2>4, <2>5, <2>8 DEF SavedSurvives
  <2> QED
    BY <1>0, <2>1, <2>5, <2>6, <2>7, <2>9 DEF Undamaged, Tended, Remembers, Inside, Idle
<1>10. ASSUME NEW h \in Hooks, SaveFails(h) \/ HookDies(h) PROVE Goal'
  <2>1. UNCHANGED <<file, asides, archive, upkeep, saved, tears>> /\ hook' = [hook EXCEPT ![h] = Idle]
    BY <1>10 DEF SaveFails, HookDies
  <2> QED
    BY <1>0, <2>1, QuietStep DEF Undamaged, Tended, Remembers, Idle
<1>11. CASE Upkeep
  <2>1. UNCHANGED <<file, asides, archive, hook, saved, tears>> /\ upkeep' = file
    BY <1>11 DEF Upkeep
  <2>2. \A h \in Hooks : hook[h].at = "idle"
    BY <1>11 DEF Upkeep
  <2> QED
    BY <1>0, <2>1, <2>2, QuietStep DEF Undamaged, Tended, Remembers
<1>12. CASE UpkeepWrites
  <2>1. /\ file = upkeep /\ file' = file /\ upkeep' = None /\ asides' = asides \cup {file}
        /\ UNCHANGED <<archive, hook, saved, tears>>
    BY <1>0, <1>12 DEF UpkeepWrites, Tended
  <2>2. \A f \in Places : f \in Places'
    BY <2>1 DEF Places
  <2>3. SavedSurvives'
    BY <1>0, <2>1, <2>2, PlacesKeep DEF SavedSurvives
  <2> QED
    BY <1>0, <2>1, <2>3 DEF Undamaged, Tended, Remembers
<1>13. CASE Tear
  <2>1. /\ file' = [file EXCEPT !.whole = FALSE] /\ file # None /\ file.whole /\ upkeep = None
        /\ tears' = tears + 1 /\ UNCHANGED <<asides, archive, hook, upkeep, saved>>
    BY <1>13 DEF Tear, Whole
  <2>2. file \in LedgerRecord
    BY <1>0, <2>1, RecordFacts DEF FileTypeOK
  <2>3. file' \in Damaged /\ file'.events = file.events /\ file' # None
    <3>1. [file EXCEPT !.whole = FALSE] \in Damaged
      BY <2>2, RecordFacts
    <3>2. [file EXCEPT !.whole = FALSE].events = file.events
      BY <2>2, RecordFacts
    <3> QED
      BY <2>1, <3>1, <3>2, RecordFacts
  <2>4. \A f \in Places : \E g \in Places' : f.events \subseteq g.events
    BY <2>1, <2>3 DEF Places
  <2>5. tears' # 0
    BY <1>0, <2>1
  <2>6. SavedSurvives'
    BY <1>0, <2>1, <2>4, <2>5, PlacesKeep DEF SavedSurvives
  <2> QED
    BY <1>0, <2>1, <2>3, <2>5, <2>6 DEF Undamaged, Tended, Remembers
<1>14. CASE UNCHANGED fileVars
  BY <1>0, <1>14, QuietStep DEF fileVars, Undamaged, Tended, Remembers
<1> QED
  BY <1>1, <1>2, <1>3, <1>4, <1>5, <1>6, <1>7, <1>8, <1>9, <1>10, <1>11, <1>12, <1>13, <1>14
  DEF FileNext

LEMMA FileStart == FileAssumption /\ FileInit => FileInv
<1> SUFFICES ASSUME FileAssumption, FileInit PROVE FileInv
  OBVIOUS
<1>1. FileTypeOK /\ Carries
  BY FileTypeInit
<1>2. file = None \/ file.whole
  BY RecordFacts DEF FileInit
<1> QED
  BY <1>1, <1>2 DEF FileInit, FileInv, Undamaged, Tended, Remembers, SavedSurvives, HookAt, Idle

\* Every variable of the ledger file keeps its type (core/ledger.py).
THEOREM FileTypes ==
  ASSUME FileAssumption
  PROVE  FileSpec => []FileTypeOK
<1>1. FileInit => FileTypeOK /\ Carries
  BY FileTypeInit
<1>2. FileTypeOK /\ Carries /\ [FileNext]_fileVars => (FileTypeOK /\ Carries)'
  BY FileTypeStep
<1> QED
  BY <1>1, <1>2, PTL DEF FileSpec

\* An event whose save was reported is in the ledger while nobody damages it
\* from outside, and in the ledger or a kept copy after that.
THEOREM SavedIsKept ==
  ASSUME FileAssumption, Supervised
  PROVE  FileSpec => []SavedSurvives
<1>1. FileInit => FileInv
  BY FileStart
<1>2. FileInv /\ [FileNext]_fileVars => FileInv'
  BY FileTypeStep, FileStep DEF FileInv
<1>3. FileInv => SavedSurvives
  BY DEF FileInv
<1> QED
  BY <1>1, <1>2, <1>3, PTL DEF FileSpec

-----------------------------------------------------------------------------
(* The archives of statuses (StatusArchive).                               *)

\* The index is of archives, each once.
IndexEntries == indexed \in Seq(Sources) /\ IsInjective(indexed)

\* Where a migration is, its source is archived, then in the index as well;
\* what it unlinks is not.
Sourced ==
  /\ at # "idle" => source \in Sources
  /\ at \in {"enter", "scan", "evict", "unlink", "write", "restore"} => source \in archives
  /\ at \in {"scan", "evict", "unlink", "write", "restore"} => source \in ToSet(indexed)
  /\ at = "unlink" => victims \cap ToSet(indexed) = {}

ArchiveInv == ArchiveTypeOK /\ Backed /\ Sourced

LEMMA Entered ==
  ASSUME NEW s \in Seq(Sources), IsInjective(s), NEW d \in Sources, d \notin ToSet(s)
  PROVE  /\ Append(s, d) \in Seq(Sources) /\ IsInjective(Append(s, d))
         /\ ToSet(Append(s, d)) = ToSet(s) \cup {d}
<1> DEFINE t == Append(s, d)
<1>1. /\ t \in Seq(Sources) /\ Len(t) = Len(s) + 1 /\ t[Len(s) + 1] = d
      /\ \A i \in 1 .. Len(s) : t[i] = s[i]
  OBVIOUS
<1>2. DOMAIN t = 1 .. Len(s) + 1 /\ DOMAIN s = 1 .. Len(s) /\ Len(s) \in Nat
  BY <1>1
<1> HIDE DEF t
<1>3. \A i \in 1 .. Len(s) : s[i] # d
  BY <1>2 DEF ToSet
<1>4. ASSUME NEW i \in DOMAIN t, NEW j \in DOMAIN t, t[i] = t[j] PROVE i = j
  <2>1. (i \in 1 .. Len(s) \/ i = Len(s) + 1) /\ (j \in 1 .. Len(s) \/ j = Len(s) + 1)
    BY <1>2
  <2> QED
    BY <1>1, <1>2, <1>3, <1>4, <2>1 DEF IsInjective
<1>5. ToSet(t) \subseteq ToSet(s) \cup {d}
  <2> SUFFICES ASSUME NEW i \in DOMAIN t PROVE t[i] \in ToSet(s) \cup {d}
    BY DEF ToSet
  <2>1. i \in 1 .. Len(s) \/ i = Len(s) + 1
    BY <1>2
  <2> QED
    BY <1>1, <1>2, <2>1 DEF ToSet
<1>6. ToSet(s) \cup {d} \subseteq ToSet(t)
  <2>1. d \in ToSet(t)
    BY <1>1, <1>2 DEF ToSet
  <2>2. ASSUME NEW i \in DOMAIN s PROVE s[i] \in ToSet(t)
    BY <1>1, <1>2 DEF ToSet
  <2> QED
    BY <2>1, <2>2 DEF ToSet
<1> QED
  BY <1>1, <1>4, <1>5, <1>6 DEF t, IsInjective

LEMMA Retained ==
  ASSUME IndexEntries, source \in ToSet(indexed), NEW n \in 0 .. Len(indexed) - 1
  PROVE  /\ Without(indexed, n) \in Seq(Sources) /\ IsInjective(Without(indexed, n))
         /\ ToSet(Without(indexed, n)) \subseteq ToSet(indexed)
         /\ source \in ToSet(Without(indexed, n))
<1> DEFINE s == indexed
           w == Without(indexed, n)
           first == SubSeq(s, 1, n)
<1>1. s \in Seq(Sources) /\ Len(s) \in Nat /\ DOMAIN s = 1 .. Len(s) /\ source \in Sources
  BY DEF IndexEntries, ToSet
<1>2. PICK p \in 1 .. Len(s) : s[p] = source
  BY <1>1 DEF ToSet
<1>3. /\ Len(first) = n /\ DOMAIN first = 1 .. n
      /\ \A i \in 1 .. n : first[i] = s[i]
  BY <1>1, SubSeqProperties
<1>4. source \in ToSet(first) <=> p <= n
  <2>1. p <= n => source \in ToSet(first)
    BY <1>2, <1>3 DEF ToSet
  <2>2. ASSUME NEW i \in 1 .. n, first[i] = source PROVE i = p
    BY <1>1, <1>2, <1>3, <2>2 DEF IndexEntries, IsInjective
  <2> QED
    BY <1>3, <2>1, <2>2 DEF ToSet
<1> HIDE DEF first
\* Where the entries of what is left were.
<1> DEFINE was(i) == IF p > n THEN n + i ELSE IF i = 1 THEN p ELSE n + i
<1>5. /\ w \in Seq(Sources) /\ Len(w) = Len(s) - n /\ DOMAIN w = 1 .. Len(s) - n
      /\ \A i \in 1 .. Len(s) - n : w[i] = s[was(i)]
  <2>1. CASE p > n
    <3>1. w = SubSeq(s, n + 1, Len(s))
      BY <1>4, <2>1 DEF Without, first
    <3> QED
      BY <1>1, <2>1, <3>1, SubSeqProperties
  <2>2. CASE p <= n
    <3> DEFINE rest == SubSeq(s, n + 2, Len(s))
    <3>1. w = <<source>> \o rest
      BY <1>4, <2>2 DEF Without, first
    <3>2. /\ rest \in Seq(Sources) /\ Len(rest) = Len(s) - n - 1
          /\ \A i \in 1 .. Len(s) - n - 1 : rest[i] = s[n + 1 + i]
      <4>1. n + 2 \in Int /\ Len(s) \in Int /\ \A i \in n + 2 .. Len(s) : s[i] \in Sources
        BY <1>1
      <4>2. /\ rest \in Seq(Sources)
            /\ Len(rest) = IF n + 2 <= Len(s) THEN Len(s) - (n + 2) + 1 ELSE 0
            /\ \A i \in 1 .. Len(s) - (n + 2) + 1 : rest[i] = s[n + 2 + i - 1]
        BY <4>1, SubSeqProperties
      <4> HIDE DEF rest
      <4>3. Len(rest) = Len(s) - n - 1
        <5>1. n \in Nat /\ n + 1 <= Len(s) /\ Len(s) \in Nat
          BY <1>1
        <5> HIDE DEF s
        <5> QED
          BY <4>2, <5>1
      <4> QED
        BY SMTT(30), <4>2, <4>3
    <3>3. <<source>> \in Seq(Sources) /\ Len(<<source>>) = 1 /\ <<source>>[1] = source
      BY <1>1
    <3> HIDE DEF rest
    <3>4. w \in Seq(Sources) /\ Len(w) = Len(s) - n /\ DOMAIN w = 1 .. Len(s) - n
      <4>1. w \in Seq(Sources) /\ Len(w) = 1 + Len(rest)
        BY <3>1, <3>2, <3>3, ConcatProperties
      <4> HIDE DEF w
      <4> QED
        BY <1>1, <3>2, <4>1
    <3>5. ASSUME NEW i \in 1 .. Len(s) - n PROVE w[i] = s[was(i)]
      <4>1. CASE i = 1
        BY <1>1, <1>2, <2>2, <3>1, <3>2, <3>3, <4>1, ConcatProperties
      <4>2. CASE i > 1
        <5>1. w[i] = rest[i - 1] /\ i - 1 \in 1 .. Len(s) - n - 1
          BY <1>1, <3>1, <3>2, <3>3, <4>2, ConcatProperties
        <5>2. rest[i - 1] = s[n + 1 + (i - 1)]
          BY <3>2, <5>1
        <5>3. was(i) = n + i /\ n + 1 + (i - 1) = n + i
          BY <1>2, <2>2, <4>2
        <5> QED
          BY <5>1, <5>2, <5>3
      <4> QED
        BY <4>1, <4>2
    <3> QED
      BY <3>4, <3>5
  <2>3. p > n \/ p <= n
    BY <1>1, <1>2
  <2> QED
    BY <2>1, <2>2, <2>3
<1> HIDE DEF w
<1>6. \A i \in 1 .. Len(s) - n : was(i) \in 1 .. Len(s)
  BY <1>1, <1>2
<1>7. \A i, j \in 1 .. Len(s) - n : was(i) = was(j) => i = j
  BY <1>1, <1>2
<1> HIDE DEF was
<1>8. ToSet(w) \subseteq ToSet(s)
  BY <1>1, <1>5, <1>6 DEF ToSet
<1>9. source \in ToSet(w)
  <2>1. \E i \in 1 .. Len(s) - n : was(i) = p
    <3> USE DEF was
    <3>1. p > n => p - n \in 1 .. Len(s) - n /\ was(p - n) = p
      BY <1>1, <1>2
    <3>2. p <= n => 1 \in 1 .. Len(s) - n /\ was(1) = p
      BY <1>1, <1>2
    <3> QED
      BY <1>1, <1>2, <3>1, <3>2
  <2> QED
    BY <1>2, <1>5, <2>1 DEF ToSet
<1>10. ASSUME NEW i \in DOMAIN w, NEW j \in DOMAIN w, w[i] = w[j] PROVE i = j
  <2>1. s[was(i)] = s[was(j)] /\ i \in 1 .. Len(s) - n /\ j \in 1 .. Len(s) - n
    BY <1>5, <1>10
  <2>2. was(i) = was(j)
    BY <1>1, <1>6, <2>1 DEF IndexEntries, IsInjective
  <2> QED
    BY <1>7, <2>1, <2>2
<1> QED
  BY <1>5, <1>8, <1>9, <1>10 DEF w, IsInjective

LEMMA ArchiveStart == ArchiveAssumption /\ ArchiveInit => ArchiveInv
<1> SUFFICES ASSUME ArchiveAssumption, ArchiveInit PROVE ArchiveInv
  OBVIOUS
<1>1. indexed = <<>> /\ <<>> \in Seq(Sources) /\ DOMAIN indexed = {}
  BY DEF ArchiveInit
<1>2. ToSet(indexed) = {} /\ IsInjective(indexed)
  BY <1>1 DEF ToSet, IsInjective
<1> QED
  BY <1>1, <1>2
  DEF ArchiveAssumption, ArchiveInit, ArchiveInv, ArchiveTypeOK, Backed, Sourced

LEMMA ArchiveStep ==
  ASSUME ArchiveAssumption, ArchiveInv, [ArchiveNext]_archiveVars
  PROVE  ArchiveInv'
<1> USE DEF ArchiveInv, ArchiveTypeOK, Sourced
<1>1. CASE UNCHANGED indexed /\ ~Retain
  <2>1. ToSet(indexed)' = ToSet(indexed) /\ IsInjective(indexed)'
    BY <1>1 DEF ToSet
  <2> USE DEF Backed
  <2>2. CASE OldHook
    BY <2>1, <2>2 DEF OldHook
  <2>3. CASE BeginConversion
    BY <2>1, <2>3 DEF BeginConversion, ArchiveAssumption
  <2>4. CASE CopyLedger
    BY <2>1, <2>4 DEF CopyLedger
  <2>5. CASE EnterIndex
    <3>1. source \in ToSet(indexed)
      <4>1. ~Contains(indexed, source) => Len(Append(indexed, source)) = Len(indexed) + 1 /\ Len(indexed) \in Nat
        OBVIOUS
      <4>2. Contains(indexed, source)
        BY <1>1, <2>5, <4>1 DEF EnterIndex
      <4> QED
        BY <4>2 DEF Contains, ToSet
    <3> QED
      BY <2>1, <2>5, <3>1 DEF EnterIndex
  <2>6. CASE Scan
    BY <2>1, <2>6 DEF Scan, Orphans, ArchiveAssumption
  <2>8. ASSUME NEW d \in Sources, Unlink(d) PROVE ArchiveInv'
    BY <2>1, <2>8 DEF Unlink, ArchiveAssumption
  <2>9. CASE WriteConverted \/ Restore \/ ConverterDies
    BY <2>1, <2>9 DEF WriteConverted, Restore, ConverterDies, End, ArchiveAssumption
  <2>10. CASE Isolate
    BY <2>1, <2>10 DEF Isolate, ArchiveAssumption
  <2>11. CASE UNCHANGED archiveVars
    BY <2>1, <2>11 DEF archiveVars
  <2> QED
    BY <2>2, <2>3, <2>4, <2>5, <2>6, <2>8, <2>9, <2>10, <2>11, <1>1 DEF ArchiveNext
<1>2. CASE EnterIndex /\ indexed' = Append(indexed, source)
  <2>1. CASE Contains(indexed, source)
    BY <1>1, <1>2, <2>1 DEF EnterIndex
  <2>2. CASE ~Contains(indexed, source)
    <3>1. source \in Sources /\ source \in archives /\ source \notin ToSet(indexed)
      BY <1>2, <2>2 DEF EnterIndex, Contains, ToSet
    <3>2. /\ indexed' \in Seq(Sources) /\ IsInjective(indexed')
          /\ ToSet(indexed') = ToSet(indexed) \cup {source}
      BY <1>2, <3>1, Entered
    <3>3. UNCHANGED <<contents, archives, source, victims, stumbles>> /\ at' = "scan"
      BY <1>2 DEF EnterIndex
    <3> QED
      BY <3>1, <3>2, <3>3 DEF Backed
  <2> QED
    BY <2>1, <2>2
<1>3. CASE Retain
  <2>1. PICK n \in 0 .. Len(indexed) - 1 : indexed' = Without(indexed, n)
    BY <1>3 DEF Retain
  <2>2. source \in ToSet(indexed) /\ source \in Sources /\ source \in archives
    BY <1>3 DEF Retain
  <2>3. /\ indexed' \in Seq(Sources) /\ IsInjective(indexed')
        /\ ToSet(indexed') \subseteq ToSet(indexed) /\ source \in ToSet(indexed')
    BY <2>1, <2>2, Retained DEF IndexEntries
  <2>4. /\ UNCHANGED <<contents, archives, source, stumbles>> /\ at' \in {"write", "unlink"}
        /\ victims' = ToSet(indexed) \ ToSet(indexed')
    BY <1>3 DEF Retain
  <2>5. ToSet(indexed) \subseteq archives
    BY DEF Backed
  <2>6. victims' \subseteq Sources
    BY <2>4, <2>5
  <2> QED
    BY <2>2, <2>3, <2>4, <2>5, <2>6 DEF Backed
<1> QED
  BY <1>1, <1>2, <1>3
  DEF ArchiveNext, OldHook, BeginConversion, CopyLedger, EnterIndex, Scan, Unlink,
      WriteConverted, Isolate, Restore, ConverterDies, archiveVars

\* Every variable of the archives keeps its type, and no archive is entered
\* twice (core/ledger_migration.py).
THEOREM ArchiveTypes ==
  ASSUME ArchiveAssumption
  PROVE  ArchiveSpec => []ArchiveTypeOK
<1>1. ArchiveInit => ArchiveInv
  BY ArchiveStart
<1>2. ArchiveInv /\ [ArchiveNext]_archiveVars => ArchiveInv'
  BY ArchiveStep
<1>3. ArchiveInv => ArchiveTypeOK
  BY DEF ArchiveInv
<1> QED
  BY <1>1, <1>2, <1>3, PTL DEF ArchiveSpec

\* The index of the archives names none that is gone, and the archive of the
\* ledger that is being replaced is in it (core/ledger_migration.py).
THEOREM ArchivesAreKept ==
  ASSUME ArchiveAssumption
  PROVE  ArchiveSpec => []ArchivesHold
<1>1. ArchiveInit => ArchiveInv
  BY ArchiveStart
<1>2. ArchiveInv /\ [ArchiveNext]_archiveVars => ArchiveInv'
  BY ArchiveStep
<1>3. ArchiveInv => ArchivesHold
  BY DEF ArchiveInv, Backed, Sourced, ArchivesHold, ArchiveTypeOK, Contains, ToSet
<1> QED
  BY <1>1, <1>2, <1>3, PTL DEF ArchiveSpec

-----------------------------------------------------------------------------
(* The owners of a path.                                                   *)

\* No agent is twice among them.
OwnersApart(owners) == \A i, j \in DOMAIN owners : owners[i].agent = owners[j].agent => i = j

\* A valid entry, or one without owners yet.
Loose(e) ==
  /\ e \in Entry /\ OwnersApart(e.owners) /\ Len(e.owners) <= MAX_PATH_OWNERS
  /\ e.overflow => e.status = "contended"

LEMMA ValidIsLoose ==
  ASSUME NEW e
  PROVE  ValidEntry(e) <=> Loose(e) /\ Len(e.owners) >= 1
<1>1. ASSUME e \in Entry
      PROVE  IsInjective([i \in DOMAIN e.owners |-> e.owners[i].agent]) <=> OwnersApart(e.owners)
  <2> DEFINE named == [i \in DOMAIN e.owners |-> e.owners[i].agent]
  <2>1. DOMAIN named = DOMAIN e.owners /\ \A i \in DOMAIN e.owners : named[i] = e.owners[i].agent
    OBVIOUS
  <2> HIDE DEF named
  <2>2. IsInjective(named) <=> OwnersApart(e.owners)
    BY <2>1 DEF IsInjective, OwnersApart
  <2> QED
    BY <2>2 DEF named
<1>2. e \in Entry => Len(e.owners) \in Nat
  BY DEF Entry
<1>3. ASSUME AttributionAssumption, e \in Entry
      PROVE  Len(e.owners) \in 1 .. MAX_PATH_OWNERS <=> Len(e.owners) <= MAX_PATH_OWNERS /\ Len(e.owners) >= 1
  BY <1>2, <1>3 DEF AttributionAssumption
<1> QED
  BY <1>1, <1>2, <1>3 DEF ValidEntry, Loose

LEMMA PickedApart ==
  ASSUME NEW s \in Seq(Owner), OwnersApart(s), NEW P \in SUBSET DOMAIN s
  PROVE  OwnersApart(Picked(s, P))
<1> DEFINE n == Cardinality(P)
           q == Picked(s, P)
<1>1. PICK f \in Bijection(1 .. n, P) : \A j \in 1 .. n : q[j] = s[f[j]]
  BY PickedFrom
<1>2. DOMAIN q = 1 .. n
  BY DEF Picked
<1> HIDE DEF n, q
<1>3. f \in [1 .. n -> P] /\ \A i, j \in 1 .. n : f[i] = f[j] => i = j
  BY Fun_BijectionProperties
<1>4. OwnersApart(q)
  BY <1>1, <1>2, <1>3 DEF OwnersApart
<1> QED
  BY <1>4 DEF q

\* There is a least of finitely many numbers.
LEMMA Least ==
  ASSUME NEW T \in SUBSET Nat, T # {}
  PROVE  \E m \in T : \A k \in T : m <= k
<1> DEFINE R == {ss \in Nat \X Nat : ss[1] < ss[2]}
<1>1. IsWellFoundedOn(R, Nat)
  BY NatLessThanWellFounded DEF OpToRel
<1> HIDE DEF R
<1>2. PICK m \in T : \A k \in T : ~(<<k, m>> \in R)
  BY <1>1, WFMin
<1>3. \A k \in T : m \in Nat /\ k \in Nat /\ ~(k < m)
  BY <1>2 DEF R
<1> QED
  BY <1>3

\* The owners beside a new one.
LEMMA OthersFacts ==
  ASSUME AttributionAssumption, NEW e, Loose(e), NEW a
  PROVE  /\ Others(e, a) \in Seq(Owner) /\ OwnersApart(Others(e, a))
         /\ ToSet(Others(e, a)) = {o \in ToSet(e.owners) : o.agent # a}
         /\ Len(Others(e, a)) <= MAX_PATH_OWNERS
<1> DEFINE s == e.owners
           P == {i \in DOMAIN s : s[i].agent # a}
<1>1. s \in Seq(Owner) /\ OwnersApart(s) /\ Len(s) <= MAX_PATH_OWNERS /\ P \in SUBSET DOMAIN s
  BY DEF Loose, Entry
<1>2. Others(e, a) = Picked(s, P)
  BY DEF Others
<1>3. {s[i] : i \in P} = {o \in ToSet(s) : o.agent # a}
  BY DEF ToSet
<1> HIDE DEF s, P
<1>4. /\ Picked(s, P) \in Seq(Owner) /\ ToSet(Picked(s, P)) = {s[i] : i \in P}
      /\ Len(Picked(s, P)) <= Len(s)
  BY <1>1, PickedFrom, PickedElements
<1>5. OwnersApart(Picked(s, P))
  BY <1>1, PickedApart
<1>6. Len(Picked(s, P)) <= MAX_PATH_OWNERS
  BY <1>1, <1>4 DEF AttributionAssumption
<1> QED
  BY <1>2, <1>3, <1>4, <1>5, <1>6 DEF s

LEMMA KeptFacts ==
  ASSUME AttributionAssumption, NEW e, Loose(e), NEW a
  PROVE  /\ Kept(e, a) \in Seq(Owner) /\ OwnersApart(Kept(e, a))
         /\ ToSet(Kept(e, a)) \subseteq {o \in ToSet(e.owners) : o.agent # a}
         /\ ~Overflows(e, a) /\ e # None => Len(Kept(e, a)) < MAX_PATH_OWNERS
<1> DEFINE others == Others(e, a)
           settled == {i \in DOMAIN others : others[i].settled}
           oldest == CHOOSE i \in settled : \A j \in settled : others[i].seq <= others[j].seq
           left == DOMAIN others \ {oldest}
<1>1. /\ others \in Seq(Owner) /\ OwnersApart(others) /\ Len(others) <= MAX_PATH_OWNERS
      /\ ToSet(others) = {o \in ToSet(e.owners) : o.agent # a}
  BY OthersFacts
<1>2. Kept(e, a) = IF Len(others) < MAX_PATH_OWNERS THEN others ELSE Picked(others, left)
  BY DEF Kept
<1>3. /\ Picked(others, left) \in Seq(Owner) /\ OwnersApart(Picked(others, left))
      /\ ToSet(Picked(others, left)) \subseteq ToSet(others)
      /\ Len(Picked(others, left)) = Cardinality(left)
  <2> HIDE DEF others
  <2>1. left \in SUBSET DOMAIN others
    OBVIOUS
  <2> HIDE DEF left
  <2>2. /\ Picked(others, left) \in Seq(Owner) /\ Len(Picked(others, left)) = Cardinality(left)
        /\ ToSet(Picked(others, left)) = {others[i] : i \in left}
    BY <1>1, <2>1, PickedFrom, PickedElements
  <2>3. OwnersApart(Picked(others, left))
    BY <1>1, <2>1, PickedApart
  <2> QED
    BY <2>1, <2>2, <2>3 DEF ToSet
<1>4. ASSUME ~Overflows(e, a), e # None, ~(Len(others) < MAX_PATH_OWNERS)
      PROVE  Cardinality(left) < MAX_PATH_OWNERS
  <2>1. Len(others) = MAX_PATH_OWNERS /\ Len(others) \in Nat /\ DOMAIN others = 1 .. Len(others)
    BY <1>1, <1>4 DEF AttributionAssumption
  <2>2. settled # {}
    <3>1. PICK o \in ToSet(e.owners) : o.settled
      BY <1>4, <2>1 DEF Overflows
    <3>2. o \in ToSet(others)
      <4> DEFINE s == e.owners
                 P == {i \in DOMAIN s : s[i].agent # a}
      <4>1. s \in Seq(Owner) /\ Len(s) <= MAX_PATH_OWNERS /\ P \in SUBSET DOMAIN s
        BY DEF Loose, Entry
      <4>2. Len(s) \in Nat /\ DOMAIN s = 1 .. Len(s)
        BY <4>1
      <4>3. others = Picked(s, P)
        BY DEF Others
      <4> HIDE DEF P, s, others
      <4>4. Len(others) = Cardinality(P)
        BY <4>1, <4>3, PickedFrom
      <4>5. IsFiniteSet(DOMAIN s) /\ Cardinality(DOMAIN s) = Len(s)
        <5>1. Cardinality(1 .. Len(s)) = IF 1 > Len(s) THEN 0 ELSE Len(s) - 1 + 1
          BY <4>2, FS_Interval
        <5>2. IsFiniteSet(1 .. Len(s))
          BY <4>2, FS_Interval
        <5> QED
          BY <4>2, <5>1, <5>2
      <4>6. Cardinality(P) = Cardinality(DOMAIN s)
        <5>1. Cardinality(P) <= Cardinality(DOMAIN s)
          BY <4>1, <4>5, FS_Subset
        <5> QED
          BY <2>1, <4>1, <4>2, <4>4, <4>5, <5>1 DEF AttributionAssumption
      <4>7. P = DOMAIN s
        BY <4>1, <4>5, <4>6, FS_Subset
      <4>8. o \in {x \in ToSet(s) : x.agent # a}
        BY <3>1, <4>7 DEF P, s, ToSet
      <4> QED
        BY <1>1, <4>8 DEF s
    <3> QED
      BY <3>1, <3>2 DEF ToSet
  <2>3. oldest \in DOMAIN others
    <3> DEFINE ages == {others[i].seq : i \in settled}
    <3>1. ages \in SUBSET Nat /\ ages # {}
      <4> HIDE DEF others
      <4>1. \A i \in settled : others[i] \in Owner
        BY <1>1
      <4>2. \A i \in settled : others[i].seq \in Nat
        BY <4>1 DEF Owner, AttributionAssumption
      <4> QED
        BY <2>2, <4>2
    <3>2. PICK m \in ages : \A k \in ages : m <= k
      BY <3>1, Least
    <3>3. \E i \in settled : \A j \in settled : others[i].seq <= others[j].seq
      BY <3>2
    <3> QED
      BY <3>3
  <2> HIDE DEF others, oldest
  <2>4. IsFiniteSet(DOMAIN others) /\ Cardinality(DOMAIN others) = Len(others)
    BY <2>1, FS_Interval
  <2>5. Cardinality(left) = Cardinality(DOMAIN others) - 1
    BY <2>3, <2>4, FS_RemoveElement
  <2> QED
    BY <2>1, <2>4, <2>5 DEF AttributionAssumption
<1> QED
  BY <1>1, <1>2, <1>3, <1>4

LEMMA SettledOwner ==
  ASSUME NEW o \in Owner, NEW b \in BOOLEAN
  PROVE  LET n == [o EXCEPT !.settled = o.settled \/ b]
         IN  n \in Owner /\ n.agent = o.agent /\ n.seq = o.seq /\ (n.settled <=> o.settled \/ b)
<1> DEFINE done == o.settled \/ b
           n == [o EXCEPT !.settled = done]
<1>1. done \in BOOLEAN
  OBVIOUS
<1> HIDE DEF done
<1>2. n \in Owner /\ n.agent = o.agent /\ n.seq = o.seq /\ n.settled = done
  BY <1>1 DEF Owner
<1> QED
  BY <1>2 DEF done

LEMMA RefreshFacts ==
  ASSUME NEW e \in Entry
  PROVE  /\ Refresh(e) \in Entry /\ Refresh(e).owners = e.owners
         /\ Refresh(e).overflow => Refresh(e).status = "contended"
  BY DEF Refresh, Entry

LEMMA RecordedOwner ==
  ASSUME AttributionAssumption, seq \in 0 .. MaxSeq, seq < MaxSeq,
         NEW e, Loose(e), e # None, NEW a \in Writers, NEW d \in Digests
  PROVE  /\ ValidEntry(RecordOwner(e, a, d))
         /\ ~Overflows(e, a) =>
              /\ \E o \in Unsettled(RecordOwner(e, a, d)) : o.agent = a
              /\ \A o \in ToSet(RecordOwner(e, a, d).owners) : o.agent = a => o.seq = seq + 1
<1> DEFINE kept == Kept(e, a)
           others == [i \in DOMAIN kept |-> [kept[i] EXCEPT !.settled = @ \/ kept[i].after # d]]
           new == [agent |-> a, seq |-> seq + 1, after |-> d, settled |-> FALSE]
           owners == Append(others, new)
           entry == [e EXCEPT !.owners = owners]
<1>1. CASE Overflows(e, a)
  <2> DEFINE over == [e EXCEPT !.status = "contended", !.overflow = TRUE]
  <2>1. RecordOwner(e, a, d) = over
    BY <1>1 DEF RecordOwner
  <2>2. over \in Entry /\ over.owners = e.owners /\ over.status = "contended"
    BY DEF Loose, Entry
  <2>3. Len(e.owners) >= 1
    <3>1. Len(Others(e, a)) >= 1
      BY <1>1 DEF Overflows, AttributionAssumption
    <3>2. Others(e, a) \in Seq(Owner) /\ ToSet(Others(e, a)) \subseteq ToSet(e.owners)
      BY OthersFacts
    <3>3. Others(e, a)[1] \in ToSet(Others(e, a))
      BY <3>1, <3>2 DEF ToSet
    <3>4. e.owners \in Seq(Owner) /\ DOMAIN e.owners # {}
      BY <3>2, <3>3 DEF ToSet, Loose, Entry
    <3> QED
      BY <3>4
  <2> HIDE DEF over
  <2>4. Loose(over)
    BY <2>2 DEF Loose
  <2> QED
    BY <1>1, <2>1, <2>2, <2>3, <2>4, ValidIsLoose
<1>2. CASE ~Overflows(e, a)
  <2>1. /\ kept \in Seq(Owner) /\ OwnersApart(kept) /\ Len(kept) < MAX_PATH_OWNERS
        /\ \A o \in ToSet(kept) : o.agent # a
    BY <1>2, KeptFacts
  <2>2. new \in Owner /\ new.agent = a /\ new.seq = seq + 1 /\ new.settled = FALSE
    BY DEF Owner, AttributionAssumption
  <2>3. RecordOwner(e, a, d) = Refresh(entry)
    BY <1>2 DEF RecordOwner
  <2> HIDE DEF kept, new
  <2>4. \A i \in DOMAIN kept : /\ others[i] \in Owner
                               /\ others[i].agent = kept[i].agent /\ others[i].agent # a
    <3> SUFFICES ASSUME NEW i \in DOMAIN kept
                 PROVE  /\ others[i] \in Owner
                        /\ others[i].agent = kept[i].agent /\ others[i].agent # a
      OBVIOUS
    <3> DEFINE o == kept[i]
               differs == kept[i].after # d
    <3>1. o \in Owner /\ differs \in BOOLEAN /\ o.agent # a
      BY <2>1 DEF ToSet
    <3>2. others[i] = [o EXCEPT !.settled = o.settled \/ differs]
      OBVIOUS
    <3> HIDE DEF o, differs, others
    <3>3. others[i] \in Owner /\ others[i].agent = o.agent
      BY <3>1, <3>2, SettledOwner
    <3> QED
      BY <3>1, <3>3 DEF o
  <2>5. others \in Seq(Owner) /\ Len(others) = Len(kept) /\ DOMAIN others = DOMAIN kept
    <3>1. Len(kept) \in Nat /\ DOMAIN kept = 1 .. Len(kept) /\ DOMAIN others = DOMAIN kept
      BY <2>1
    <3> HIDE DEF others
    <3>2. others \in [1 .. Len(kept) -> Owner]
      <4>1. others = [i \in DOMAIN kept |-> others[i]]
        BY DEF others
      <4> QED
        BY <2>4, <3>1, <4>1
    <3> QED
      BY <3>1, <3>2
  <2> HIDE DEF others
  <2>6. /\ owners \in Seq(Owner) /\ Len(owners) = Len(kept) + 1
        /\ DOMAIN owners = 1 .. Len(kept) + 1 /\ Len(kept) \in Nat /\ DOMAIN kept = 1 .. Len(kept)
        /\ owners[Len(kept) + 1] = new /\ \A i \in DOMAIN kept : owners[i] = others[i]
    BY <2>1, <2>2, <2>5
  <2> HIDE DEF owners
  <2>7. OwnersApart(owners)
    <3> SUFFICES ASSUME NEW i \in DOMAIN owners, NEW j \in DOMAIN owners,
                        owners[i].agent = owners[j].agent
                 PROVE  i = j
      BY DEF OwnersApart
    <3>1. CASE i \in DOMAIN kept /\ j \in DOMAIN kept
      BY <2>1, <2>4, <2>6, <3>1 DEF OwnersApart
    <3>2. CASE i = Len(kept) + 1 \/ j = Len(kept) + 1
      BY <2>2, <2>4, <2>6, <3>2
    <3> QED
      BY <2>6, <3>1, <3>2
  <2>8. entry \in Entry /\ entry.owners = owners
    BY <2>6 DEF Loose, Entry
  <2> HIDE DEF entry
  <2>9. /\ Refresh(entry) \in Entry /\ Refresh(entry).owners = owners
        /\ Refresh(entry).overflow => Refresh(entry).status = "contended"
    BY <2>8, RefreshFacts
  <2>10. ValidEntry(Refresh(entry))
    <3>1. Len(owners) <= MAX_PATH_OWNERS /\ Len(owners) >= 1
      BY <2>1, <2>6 DEF AttributionAssumption
    <3> QED
      BY <2>7, <2>9, <3>1, ValidIsLoose DEF Loose
  <2>11. new \in Unsettled(Refresh(entry))
    BY <2>2, <2>6, <2>9 DEF Unsettled, ToSet
  <2>12. \A o \in ToSet(owners) : o.agent = a => o.seq = seq + 1
    <3> SUFFICES ASSUME NEW i \in DOMAIN owners, owners[i].agent = a PROVE owners[i].seq = seq + 1
      BY DEF ToSet
    <3>1. i = Len(kept) + 1
      BY <2>4, <2>6
    <3> QED
      BY <2>2, <2>6, <3>1
  <2> QED
    BY <2>2, <2>3, <2>9, <2>10, <2>11, <2>12
<1> QED
  BY <1>1, <1>2

\* What a check makes of the owners of a path.
LEMMA SettledFacts ==
  ASSUME AttributionAssumption, NEW e, ValidEntry(e), NEW a, NEW p
  PROVE  /\ ValidEntry(Settled(e, a, p))
         /\ DOMAIN Settled(e, a, p).owners = DOMAIN e.owners
         /\ \A i \in DOMAIN e.owners :
              LET o == e.owners[i]
                  n == Settled(e, a, p).owners[i]
              IN  n.agent = o.agent /\ n.seq = o.seq /\ (n.settled => o.settled \/ Settles(o, a, p))
<1> DEFINE s == e.owners
           owners == [i \in DOMAIN s |-> [s[i] EXCEPT !.settled = @ \/ Settles(s[i], a, p)]]
           entry == [e EXCEPT !.owners = owners]
<1>1. Loose(e) /\ Len(s) >= 1
  BY ValidIsLoose
<1>2. s \in Seq(Owner) /\ Len(s) \in Nat /\ DOMAIN s = 1 .. Len(s) /\ e \in Entry /\ OwnersApart(s)
  BY <1>1 DEF Loose, Entry
<1>3. Settled(e, a, p) = IF owners = s THEN e ELSE Refresh(entry)
  BY DEF Settled
<1>4. \A i \in DOMAIN s :
        /\ owners[i] \in Owner /\ owners[i].agent = s[i].agent /\ owners[i].seq = s[i].seq
        /\ owners[i].settled => s[i].settled \/ Settles(s[i], a, p)
  <2> SUFFICES ASSUME NEW i \in DOMAIN s
               PROVE  /\ owners[i] \in Owner /\ owners[i].agent = s[i].agent
                      /\ owners[i].seq = s[i].seq
                      /\ owners[i].settled => s[i].settled \/ Settles(s[i], a, p)
    OBVIOUS
  <2> DEFINE o == s[i]
             b == Settles(o, a, p)
  <2>1. o \in Owner
    BY <1>2
  <2>2. owners[i] = [o EXCEPT !.settled = o.settled \/ b]
    OBVIOUS
  <2>3. b \in BOOLEAN
    BY DEF Settles
  <2> HIDE DEF o, b, owners
  <2>4. /\ owners[i] \in Owner /\ owners[i].agent = o.agent /\ owners[i].seq = o.seq
        /\ owners[i].settled <=> o.settled \/ b
    BY <2>1, <2>2, <2>3, SettledOwner
  <2> QED
    BY <2>4 DEF o, b
<1>5. DOMAIN owners = DOMAIN s
  OBVIOUS
<1>6. owners \in Seq(Owner) /\ Len(owners) = Len(s)
  <2>1. owners = [i \in DOMAIN s |-> owners[i]]
    OBVIOUS
  <2> HIDE DEF owners
  <2>2. owners \in [1 .. Len(s) -> Owner]
    BY <1>2, <1>4, <1>5, <2>1
  <2> QED
    BY <1>2, <2>2
<1> HIDE DEF owners, s
<1>7. OwnersApart(owners)
  BY <1>2, <1>4, <1>5 DEF OwnersApart
<1>8. entry \in Entry /\ entry.owners = owners
  BY <1>2, <1>6 DEF Entry
<1> HIDE DEF entry
<1>9. /\ Refresh(entry) \in Entry /\ Refresh(entry).owners = owners
      /\ Refresh(entry).overflow => Refresh(entry).status = "contended"
  BY <1>8, RefreshFacts
<1>10. ValidEntry(Refresh(entry))
  BY <1>1, <1>6, <1>7, <1>9, ValidIsLoose DEF Loose, s
<1>11. Settled(e, a, p).owners = owners
  BY <1>3, <1>9 DEF s
<1> QED
  BY <1>3, <1>4, <1>5, <1>10, <1>11 DEF s

-----------------------------------------------------------------------------
(* The index.                                                              *)

LastChange == [agent : Writers, seq : 1 .. MaxSeq, verified : BOOLEAN, uncounted : BOOLEAN]
TurnRecord ==
  [base : [Paths -> Content \cup {"unset"}], revs : [Paths -> Revision \cup {None}],
   audit : SUBSET Paths]
Cover == [through : 0 .. MaxSeq, revs : [Paths -> Revision \cup {None}]]

\* The paths that have an entry.
Taken(i) == {p \in Paths : i[p] # None}

\* The index as it is saved.
ValidIndex(i) ==
  /\ i \in [Paths -> Entry \cup {None}]
  /\ \A p \in Paths : i[p] = None \/ ValidEntry(i[p])
  /\ IsFiniteSet(Taken(i)) /\ Cardinality(Taken(i)) <= MAX_ATTRIBUTION_PATHS

AttributionInv ==
  /\ seq \in 0 .. MaxSeq /\ full \in BOOLEAN /\ disk \in [Paths -> Content]
  /\ ValidIndex(index)
  /\ turn \in [Writers -> TurnRecord]
  /\ covers \in [Writers -> Cover \cup {None}]
  /\ lastOwn \in [Paths -> LastChange \cup {None}]

LEMMA InvTypes == AttributionInv => AttributionTypeOK
<1> SUFFICES ASSUME AttributionInv PROVE AttributionTypeOK
  OBVIOUS
<1>1. \A a \in Writers, p \in Paths :
        /\ turn[a].base[p] \in Content \cup {"unset"}
        /\ turn[a].revs[p] = None \/ turn[a].revs[p] \in Revision
        /\ turn[a].audit \subseteq Paths
  BY DEF AttributionInv, TurnRecord
<1>2. \A p \in Paths : lastOwn[p] = None \/ lastOwn[p].agent \in Writers
  BY DEF AttributionInv, LastChange
<1>3. \A a \in Writers : covers[a] = None \/ covers[a].through \in 0 .. MaxSeq
  BY DEF AttributionInv, Cover
<1> QED
  BY <1>1, <1>2, <1>3 DEF AttributionInv, AttributionTypeOK, ValidIndex, Taken

\* No entry comes without its limits, and who records a change of a path has
\* it written there, unless there is no room.
LEMMA Attributed ==
  ASSUME AttributionAssumption, ValidIndex(index), full \in BOOLEAN,
         seq \in 0 .. MaxSeq, seq < MaxSeq,
         NEW a \in Writers, NEW p \in Paths, NEW d \in Content, NEW r \in RecordAttribution(a, p, d)
  PROVE  /\ ValidIndex(r.index) /\ r.full \in BOOLEAN /\ (full => r.full)
         /\ d # None /\ ~r.full /\ ~Overflows(index[p], a) =>
              /\ r.index[p] # None
              /\ \E o \in Unsettled(r.index[p]) : o.agent = a
              /\ \A o \in ToSet(r.index[p].owners) : o.agent = a => o.seq = seq + 1
         /\ \A x \in Paths \ {p} : r.index[x] = index[x] \/ ~Live(index[x])
<1> USE DEF Taken
<1>1. None \notin Entry
  BY DEF AttributionAssumption
<1>2. CASE d = None
  <2>1. r = [index |-> [index EXCEPT ![p] = None], full |-> full]
    BY <1>2 DEF RecordAttribution
  <2>2. r.index \in [Paths -> Entry \cup {None}] /\ r.full = full
    BY <2>1 DEF ValidIndex
  <2>3. \A x \in Paths : r.index[x] = IF x = p THEN None ELSE index[x]
    BY <2>1 DEF ValidIndex
  <2>4. Taken(r.index) \in SUBSET Taken(index)
    BY <2>3
  <2>5. IsFiniteSet(Taken(r.index)) /\ Cardinality(Taken(r.index)) <= MAX_ATTRIBUTION_PATHS
    <3>1. /\ IsFiniteSet(Taken(index)) /\ Cardinality(Taken(index)) <= MAX_ATTRIBUTION_PATHS
      BY DEF ValidIndex
    <3> HIDE DEF Taken
    <3>2. IsFiniteSet(Taken(r.index)) /\ Cardinality(Taken(r.index)) <= Cardinality(Taken(index))
      BY <2>4, <3>1, FS_Subset
    <3> QED
      BY <3>1, <3>2, FS_CardinalityType DEF AttributionAssumption
  <2> QED
    BY <1>2, <2>2, <2>3, <2>5 DEF ValidIndex
<1>3. CASE d # None /\ ~Live(index[p]) /\ LiveCount >= MAX_ATTRIBUTION_PATHS
  <2>1. r \in {[index |-> index, full |-> TRUE]}
    BY <1>3 DEF RecordAttribution
  <2>2. r.index = index /\ r.full = TRUE
    BY <2>1
  <2> QED
    BY <2>2
<1>4. CASE d # None /\ ~(~Live(index[p]) /\ LiveCount >= MAX_ATTRIBUTION_PATHS) /\ index[p] # None
  <2> DEFINE e == RecordOwner(index[p], a, d)
  <2>1. d \in Digests /\ Loose(index[p]) /\ index[p] \in Entry
    BY <1>4, ValidIsLoose DEF ValidIndex, Content
  <2>2. /\ ValidEntry(e)
        /\ ~Overflows(index[p], a) =>
             /\ \E o \in Unsettled(e) : o.agent = a
             /\ \A o \in ToSet(e.owners) : o.agent = a => o.seq = seq + 1
    BY <1>4, <2>1, RecordedOwner
  <2>3. r = [index |-> [index EXCEPT ![p] = e], full |-> full]
    BY <1>4 DEF RecordAttribution
  <2> HIDE DEF e
  <2>4. e \in Entry /\ e # None
    BY <1>1, <2>2 DEF ValidEntry
  <2>5. /\ r.index \in [Paths -> Entry \cup {None}] /\ r.full = full
        /\ \A x \in Paths : r.index[x] = IF x = p THEN e ELSE index[x]
    BY <2>3, <2>4 DEF ValidIndex
  <2>6. Taken(r.index) = Taken(index)
    BY <1>4, <2>4, <2>5
  <2> QED
    BY <2>2, <2>4, <2>5, <2>6 DEF ValidIndex
<1>5. CASE d # None /\ ~(~Live(index[p]) /\ LiveCount >= MAX_ATTRIBUTION_PATHS) /\ index[p] = None
  <2> DEFINE e == RecordOwner(NoOwners, a, d)
  <2>1. d \in Digests /\ Loose(NoOwners) /\ NoOwners \in Entry /\ NoOwners # None
    <3>1. NoOwners \in Entry /\ NoOwners.owners = <<>> /\ NoOwners.overflow = FALSE
      BY DEF NoOwners, Entry
    <3> QED
      BY <1>1, <1>5, <3>1 DEF Loose, OwnersApart, Content, AttributionAssumption
  <2>2. ~Overflows(NoOwners, a)
    <3>1. ToSet(Others(NoOwners, a)) = {} /\ Others(NoOwners, a) \in Seq(Owner)
      <4>1. ToSet(NoOwners.owners) = {}
        BY DEF NoOwners, ToSet
      <4> QED
        BY <2>1, <4>1, OthersFacts
    <3>2. Len(Others(NoOwners, a)) = 0
      <4> DEFINE others == Others(NoOwners, a)
      <4>1. \A i \in DOMAIN others : others[i] \in ToSet(others)
        BY Zenon DEF ToSet
      <4>2. others \in Seq(Owner) /\ DOMAIN others = {}
        BY <3>1, <4>1
      <4> HIDE DEF others
      <4>3. Len(others) = 0
        BY <4>2
      <4> QED
        BY <4>3 DEF others
    <3> QED
      BY <3>2 DEF Overflows, AttributionAssumption
  <2>3. /\ ValidEntry(e) /\ \E o \in Unsettled(e) : o.agent = a
        /\ \A o \in ToSet(e.owners) : o.agent = a => o.seq = seq + 1
    BY <2>1, <2>2, RecordedOwner
  <2>4. \/ /\ Cardinality(Entries) < MAX_ATTRIBUTION_PATHS
           /\ r = [index |-> [index EXCEPT ![p] = e], full |-> full]
        \/ \E q \in {x \in Entries : Ageable(x)} :
             r = [index |-> [index EXCEPT ![p] = e, ![q] = None], full |-> full]
    BY <1>5 DEF RecordAttribution
  <2> HIDE DEF e
  <2>5. e \in Entry /\ e # None
    BY <1>1, <2>3 DEF ValidEntry
  <2>6. /\ Entries = Taken(index) /\ p \notin Entries /\ IsFiniteSet(Entries)
        /\ Cardinality(Entries) <= MAX_ATTRIBUTION_PATHS /\ Cardinality(Entries) \in Nat
    <3>1. Entries = Taken(index)
      BY DEF Entries
    <3>2. IsFiniteSet(Entries) /\ Cardinality(Entries) <= MAX_ATTRIBUTION_PATHS
      BY <3>1 DEF ValidIndex
    <3> QED
      BY <1>5, <3>1, <3>2, FS_CardinalityType
  <2>7. CASE /\ Cardinality(Entries) < MAX_ATTRIBUTION_PATHS
             /\ r = [index |-> [index EXCEPT ![p] = e], full |-> full]
    <3>1. /\ r.index \in [Paths -> Entry \cup {None}] /\ r.full = full
          /\ \A x \in Paths : r.index[x] = IF x = p THEN e ELSE index[x]
      BY <2>5, <2>7 DEF ValidIndex
    <3>2. Taken(r.index) = Entries \cup {p}
      BY <2>5, <2>6, <3>1
    <3>3. IsFiniteSet(Entries \cup {p}) /\ Cardinality(Entries \cup {p}) = Cardinality(Entries) + 1
      BY <2>6, FS_AddElement
    <3>4. Cardinality(Entries \cup {p}) <= MAX_ATTRIBUTION_PATHS
      BY <2>6, <2>7, <3>3 DEF AttributionAssumption
    <3> QED
      BY <2>3, <2>5, <3>1, <3>2, <3>3, <3>4 DEF ValidIndex
  <2>8. ASSUME NEW q \in Entries, Ageable(q),
               r = [index |-> [index EXCEPT ![p] = e, ![q] = None], full |-> full]
        PROVE  /\ ValidIndex(r.index) /\ r.full = full
               /\ r.index[p] = e
               /\ \A x \in Paths \ {p} : r.index[x] = index[x] \/ ~Live(index[x])
    <3>1. q # p /\ q \in Paths
      BY <2>6 DEF Entries
    <3>2. /\ r.index \in [Paths -> Entry \cup {None}] /\ r.full = full
          /\ \A x \in Paths : r.index[x] = IF x = q THEN None ELSE IF x = p THEN e ELSE index[x]
      BY <2>5, <2>8, <3>1 DEF ValidIndex
    <3>3. Taken(r.index) = (Entries \ {q}) \cup {p}
      BY <2>5, <2>6, <3>1, <3>2
    <3>4. IsFiniteSet(Entries \ {q}) /\ Cardinality(Entries \ {q}) = Cardinality(Entries) - 1
      BY <2>6, <2>8, FS_RemoveElement
    <3>5. /\ IsFiniteSet((Entries \ {q}) \cup {p})
          /\ Cardinality((Entries \ {q}) \cup {p}) = Cardinality(Entries \ {q}) + 1
      BY <2>6, <3>4, FS_AddElement
    <3>6. Cardinality((Entries \ {q}) \cup {p}) <= MAX_ATTRIBUTION_PATHS
      BY <2>6, <3>4, <3>5
    <3> QED
      BY <2>3, <2>5, <2>8, <3>1, <3>2, <3>3, <3>5, <3>6 DEF ValidIndex, Ageable
  <2> QED
    BY <2>3, <2>4, <2>5, <2>7, <2>8
<1> QED
  BY <1>2, <1>3, <1>4, <1>5

LEMMA RevisedType ==
  ASSUME AttributionAssumption, AttributionInv, seq < MaxSeq,
         NEW a \in Writers, NEW p \in Paths, NEW d \in Content,
         NEW how \in {"self", "peer", "contended", "external"}
  PROVE  Revised(a, p, d, how) \in TurnRecord
<1> DEFINE t == turn[a]
           base == IF t.base[p] = "unset" THEN disk[p] ELSE t.base[p]
           rev == IF d = base THEN None ELSE [after |-> d, seq |-> seq + 1, attribution |-> how]
           audit == IF how \in {"self", "contended"} THEN t.audit \cup {p} ELSE t.audit
<1>1. t \in TurnRecord
  BY DEF AttributionInv
<1>2. base \in Content \cup {"unset"} /\ audit \in SUBSET Paths
  BY <1>1 DEF TurnRecord, AttributionInv
<1>3. seq + 1 \in 1 .. MaxSeq
  BY DEF AttributionInv, AttributionAssumption
<1>4. rev \in Revision \cup {None}
  BY <1>3 DEF Revision
<1>5. Revised(a, p, d, how) = [base |-> [t.base EXCEPT ![p] = base],
                               revs |-> [t.revs EXCEPT ![p] = rev], audit |-> audit]
  BY DEF Revised
<1> HIDE DEF t, base, rev, audit
<1> QED
  BY <1>1, <1>2, <1>4, <1>5 DEF TurnRecord

\* A change of a path.
LEMMA ChangeKeeps ==
  ASSUME AttributionAssumption, AttributionInv, NEW a \in Writers, NEW p \in Paths,
         NEW d \in Content, NEW tool \in BOOLEAN, NEW found \in BOOLEAN,
         Change(a, p, d, tool, found)
  PROVE  AttributionInv'
<1> DEFINE how == Attribution(a, p, d, Own(tool), found)
<1>1. seq < MaxSeq /\ seq \in 0 .. MaxSeq /\ seq' = seq + 1 /\ seq' \in 0 .. MaxSeq /\ seq + 1 \in 1 .. MaxSeq
  BY DEF Change, AttributionInv, AttributionAssumption
<1>2. disk' \in [Paths -> Content]
  BY DEF Change, AttributionInv
<1>3. ValidIndex(index') /\ full' \in BOOLEAN
  <2>1. PICK r \in IF Own(tool) THEN RecordAttribution(a, p, d) ELSE {[index |-> index, full |-> full]} :
          index' = r.index /\ full' = r.full
    BY DEF Change
  <2>2. CASE Own(tool)
    BY <1>1, <2>1, <2>2, Attributed DEF AttributionInv
  <2>3. CASE ~Own(tool)
    BY <2>1, <2>3 DEF AttributionInv
  <2> QED
    BY <2>2, <2>3
<1>4. turn' \in [Writers -> TurnRecord]
  <2>1. how \in {"self", "peer", "contended", "external"}
    BY DEF Attribution
  <2>2. turn' = [turn EXCEPT ![a] = Revised(a, p, d, how)]
    BY DEF Change
  <2> HIDE DEF how
  <2>3. Revised(a, p, d, how) \in TurnRecord
    BY <1>1, <2>1, RevisedType
  <2> QED
    BY <2>2, <2>3 DEF AttributionInv
<1>5. lastOwn' \in [Paths -> LastChange \cup {None}]
  <2>1. Overflows(index[p], a) \in BOOLEAN
    BY DEF Overflows
  <2> DEFINE new == [agent |-> a, seq |-> seq + 1, verified |-> FALSE,
                     uncounted |-> Overflows(index[p], a)]
  <2>2. new \in LastChange
    BY <1>1, <2>1 DEF LastChange
  <2>3. lastOwn' = IF ~tool THEN lastOwn ELSE [lastOwn EXCEPT ![p] = IF d = None THEN None ELSE new]
    BY DEF Change
  <2> HIDE DEF new
  <2> QED
    BY <2>2, <2>3 DEF AttributionInv
<1> QED
  BY <1>1, <1>2, <1>3, <1>4, <1>5 DEF AttributionInv, Change, ValidIndex, Taken

LEMMA VerificationKeeps ==
  ASSUME AttributionAssumption, AttributionInv, NEW a \in Writers, Verification(a)
  PROVE  AttributionInv'
<1>1. seq' \in 0 .. MaxSeq
  BY DEF Verification, AttributionInv, AttributionAssumption
<1>2. ValidIndex(index')
  <2>1. \A p \in Paths : index'[p] = IF index[p] = None THEN None ELSE Settled(index[p], a, p)
    BY DEF Verification
  <2>2. DOMAIN index' = Paths /\ index' = [p \in Paths |-> index'[p]]
    BY DEF Verification
  <2>3. \A p \in Paths : index[p] # None => ValidEntry(index'[p]) /\ index'[p] \in Entry /\ index'[p] # None
    <3> SUFFICES ASSUME NEW p \in Paths, index[p] # None
                 PROVE  ValidEntry(index'[p]) /\ index'[p] \in Entry /\ index'[p] # None
      OBVIOUS
    <3>1. index'[p] = Settled(index[p], a, p) /\ ValidEntry(index[p])
      BY <2>1 DEF AttributionInv, ValidIndex
    <3>2. ValidEntry(index'[p])
      BY <3>1, SettledFacts
    <3> QED
      BY <3>2 DEF ValidEntry, AttributionAssumption
  <2>4. index' \in [Paths -> Entry \cup {None}]
    BY <2>1, <2>2, <2>3
  <2>5. Taken(index') = Taken(index)
    BY <2>1, <2>3 DEF Taken
  <2> QED
    BY <2>1, <2>3, <2>4, <2>5 DEF ValidIndex, AttributionInv
<1>3. covers' \in [Writers -> Cover \cup {None}]
  BY DEF Verification, AttributionInv
<1>4. lastOwn' \in [Paths -> LastChange \cup {None}]
  <2> DEFINE sees(p) == /\ lastOwn[p] # None /\ lastOwn[p].agent = a
                        /\ lastOwn[p].seq <= covers[a].through /\ covers[a].revs[p] # None
  <2>0. lastOwn' = [p \in Paths |-> IF sees(p) THEN [lastOwn[p] EXCEPT !.verified = TRUE]
                                    ELSE lastOwn[p]]
    BY Zenon DEF Verification
  <2>1. \A p \in Paths : \/ lastOwn'[p] = lastOwn[p]
                         \/ lastOwn[p] # None /\ lastOwn'[p] = [lastOwn[p] EXCEPT !.verified = TRUE]
    BY <2>0
  <2>2. lastOwn' = [p \in Paths |-> lastOwn'[p]]
    BY <2>0
  <2> HIDE DEF sees
  <2>3. \A p \in Paths : lastOwn[p] \in LastChange \cup {None}
    BY DEF AttributionInv
  <2>4. \A c \in LastChange : [c EXCEPT !.verified = TRUE] \in LastChange
    BY DEF LastChange
  <2> QED
    BY <2>1, <2>2, <2>3, <2>4
<1> QED
  BY <1>1, <1>2, <1>3, <1>4 DEF AttributionInv, Verification

LEMMA AttributionStep ==
  ASSUME AttributionAssumption, AttributionInv, [AttributionNext]_attrVars
  PROVE  AttributionInv'
<1>1. ASSUME NEW a \in Writers, NewPrompt(a) PROVE AttributionInv'
  <2>1. FreshTurn \in TurnRecord
    BY DEF FreshTurn, TurnRecord
  <2>2. seq' \in 0 .. MaxSeq
    BY <1>1 DEF NewPrompt, AttributionInv, AttributionAssumption
  <2>3. turn' \in [Writers -> TurnRecord] /\ covers' \in [Writers -> Cover \cup {None}]
    BY <1>1, <2>1 DEF NewPrompt, AttributionInv
  <2> QED
    BY <1>1, <2>2, <2>3 DEF NewPrompt, AttributionInv, ValidIndex, Taken
<1>2. ASSUME NEW a \in Writers, Capture(a) PROVE AttributionInv'
  <2> DEFINE revs == [p \in Paths |->
                        IF turn[a].revs[p] # None /\ turn[a].revs[p].attribution # "peer"
                        THEN turn[a].revs[p] ELSE None]
             cover == [through |-> seq, revs |-> revs]
  <2>1. revs \in [Paths -> Revision \cup {None}]
    BY DEF AttributionInv, TurnRecord
  <2>2. covers' = [covers EXCEPT ![a] = cover]
    BY <1>2 DEF Capture
  <2> HIDE DEF revs
  <2>3. cover \in Cover
    BY <2>1 DEF AttributionInv, Cover
  <2> HIDE DEF cover
  <2>4. covers' \in [Writers -> Cover \cup {None}]
    BY <2>2, <2>3 DEF AttributionInv
  <2> QED
    BY <1>2, <2>4 DEF Capture, AttributionInv, ValidIndex, Taken
<1>3. CASE UNCHANGED attrVars
  BY <1>3 DEF attrVars, AttributionInv, ValidIndex, Taken
<1> QED
  BY <1>1, <1>2, <1>3, ChangeKeeps, VerificationKeeps DEF AttributionNext

LEMMA AttributionStart == ASSUME AttributionAssumption, AttributionInit PROVE AttributionInv
<1>1. FreshTurn \in TurnRecord
  BY DEF FreshTurn, TurnRecord
<1>2. Taken(index) = {}
  BY DEF AttributionInit, Taken
<1>3. ValidIndex(index)
  BY <1>2, FS_EmptySet DEF ValidIndex, AttributionInit, AttributionAssumption
<1>4. seq \in 0 .. MaxSeq
  BY DEF AttributionInit, AttributionAssumption
<1>6. full \in BOOLEAN
  BY DEF AttributionInit
<1>5. /\ disk \in [Paths -> Content] /\ turn \in [Writers -> TurnRecord]
      /\ covers \in [Writers -> Cover \cup {None}] /\ lastOwn \in [Paths -> LastChange \cup {None}]
  BY <1>1 DEF AttributionInit, Content
<1> QED
  BY <1>3, <1>4, <1>5, <1>6 DEF AttributionInv

-----------------------------------------------------------------------------
(* What the guard of destructive commands lets through (DestructiveGate).  *)

\* An own change that no check has seen yet and that found room is written to
\* its agent in the index, unsettled, as the last one of that agent.
Credited(x) ==
  LET last == lastOwn[x]
  IN  last # None /\ ~last.verified /\ ~last.uncounted =>
        \/ full \/ damaged
        \/ /\ index[x] # None
           /\ \E o \in Unsettled(index[x]) : o.agent = last.agent
           /\ \A o \in ToSet(index[x].owners) : o.agent = last.agent => o.seq = last.seq

GuardInv ==
  /\ AttributionInv
  /\ damaged \in BOOLEAN
  /\ flight \in [Writers -> [path : Paths, expired : BOOLEAN] \cup {None}]
  /\ OwnerIsName => \A x \in Paths : Credited(x)

LEMMA ChangeCredits ==
  ASSUME AttributionAssumption, AttributionInv, ~damaged, ~damaged', OwnerIsName,
         \A x \in Paths : Credited(x),
         NEW a \in Writers, NEW p \in Paths, NEW d \in Content, NEW tool \in BOOLEAN,
         NEW found \in BOOLEAN, Change(a, p, d, tool, found),
         NEW x \in Paths
  PROVE  Credited(x)'
<1>1. CASE ~tool
  <2>1. lastOwn' = lastOwn /\ index' = index /\ full' = full
    BY <1>1 DEF Change, Own
  <2> QED
    BY <2>1 DEF Credited, Unsettled
<1>2. CASE tool
  <2> DEFINE new == [agent |-> a, seq |-> seq + 1, verified |-> FALSE,
                     uncounted |-> Overflows(index[p], a)]
  <2>1. PICK r \in RecordAttribution(a, p, d) : index' = r.index /\ full' = r.full
    BY <1>2 DEF Change, Own
  <2>2. lastOwn' = [lastOwn EXCEPT ![p] = IF d = None THEN None ELSE new]
    BY <1>2 DEF Change
  <2>3. seq < MaxSeq
    BY DEF Change
  <2>4. /\ full => full'
        /\ d # None /\ ~full' /\ ~Overflows(index[p], a) =>
             /\ index'[p] # None
             /\ \E o \in Unsettled(index'[p]) : o.agent = a
             /\ \A o \in ToSet(index'[p].owners) : o.agent = a => o.seq = seq + 1
        /\ \A y \in Paths \ {p} : index'[y] = index[y] \/ ~Live(index[y])
    BY <2>1, <2>3, Attributed DEF AttributionInv
  <2>5. CASE x = p
    <3>1. lastOwn'[x] = IF d = None THEN None ELSE new
      BY <2>2, <2>5 DEF AttributionInv
    <3>2. new.agent = a /\ new.seq = seq + 1 /\ new.uncounted = Overflows(index[p], a)
      OBVIOUS
    <3> HIDE DEF new
    <3> QED
      BY <2>4, <2>5, <3>1, <3>2 DEF Credited, Unsettled
  <2>6. CASE x # p
    <3>1. lastOwn'[x] = lastOwn[x]
      BY <2>2, <2>6 DEF AttributionInv
    <3>2. index'[x] = index[x] \/ ~Live(index[x])
      BY <2>4, <2>6
    <3> QED
      BY <2>4, <3>1, <3>2 DEF Credited, Unsettled, Live
  <2> QED
    BY <2>5, <2>6
<1> QED
  BY <1>1, <1>2

LEMMA VerificationCredits ==
  ASSUME AttributionAssumption, AttributionInv, \A x \in Paths : Credited(x),
         NEW a \in Writers, Verification(a), damaged' = damaged, NEW x \in Paths
  PROVE  Credited(x)'
<1> DEFINE sees == /\ lastOwn[x] # None /\ lastOwn[x].agent = a
                   /\ lastOwn[x].seq <= covers[a].through /\ covers[a].revs[x] # None
<1>1. lastOwn'[x] = IF sees THEN [lastOwn[x] EXCEPT !.verified = TRUE] ELSE lastOwn[x]
  BY Zenon DEF Verification
<1>2. index'[x] = (IF index[x] = None THEN None ELSE Settled(index[x], a, x)) /\ full' = full
  BY DEF Verification
<1>3. lastOwn[x] \in LastChange \cup {None}
  BY DEF AttributionInv
<1>4. CASE sees
  <2>1. lastOwn[x] \in LastChange \/ lastOwn[x] = None
    BY <1>3
  <2>2. CASE lastOwn[x] \in LastChange
    <3>1. lastOwn'[x].verified
      BY <1>1, <1>4, <2>2 DEF LastChange
    <3> QED
      BY <3>1 DEF Credited
  <2> QED
    BY <1>4, <2>1, <2>2
<1>5. CASE ~sees
  <2>1. lastOwn'[x] = lastOwn[x]
    BY <1>1, <1>5
  <2> SUFFICES ASSUME lastOwn[x] # None, ~lastOwn[x].verified, ~lastOwn[x].uncounted, ~full, ~damaged
               PROVE  /\ index'[x] # None
                      /\ \E o \in Unsettled(index'[x]) : o.agent = lastOwn[x].agent
                      /\ \A o \in ToSet(index'[x].owners) :
                           o.agent = lastOwn[x].agent => o.seq = lastOwn[x].seq
    BY <2>1, <1>2 DEF Credited, Unsettled
  <2> DEFINE s == index[x].owners
             n == Settled(index[x], a, x).owners
  <2>2. /\ index[x] # None
        /\ \E o \in Unsettled(index[x]) : o.agent = lastOwn[x].agent
        /\ \A o \in ToSet(s) : o.agent = lastOwn[x].agent => o.seq = lastOwn[x].seq
    BY DEF Credited
  <2>3. /\ ValidEntry(Settled(index[x], a, x)) /\ DOMAIN n = DOMAIN s
        /\ \A i \in DOMAIN s : /\ n[i].agent = s[i].agent /\ n[i].seq = s[i].seq
                               /\ n[i].settled => s[i].settled \/ Settles(s[i], a, x)
    BY <2>2, SettledFacts DEF AttributionInv, ValidIndex
  <2>4. index'[x] = Settled(index[x], a, x) /\ index'[x].owners = n
    BY <1>2, <2>2
  <2>5. index'[x] # None
    BY <2>3, <2>4 DEF ValidEntry, AttributionAssumption
  <2> HIDE DEF n, s
  <2>6. PICK i \in DOMAIN s : ~s[i].settled /\ s[i].agent = lastOwn[x].agent
    BY <2>2 DEF Unsettled, ToSet, s
  <2>7. s[i].seq = lastOwn[x].seq
    BY <2>2, <2>6 DEF ToSet
  <2>8. ~Settles(s[i], a, x)
    BY <1>5, <2>6, <2>7 DEF Settles
  <2>9. n[i] \in ToSet(n) /\ ~n[i].settled /\ n[i].agent = lastOwn[x].agent
    BY <2>3, <2>6, <2>8 DEF ToSet
  <2>10. \A o \in ToSet(n) : o.agent = lastOwn[x].agent => o.seq = lastOwn[x].seq
    BY <2>2, <2>3 DEF ToSet
  <2> QED
    BY <2>4, <2>5, <2>9, <2>10 DEF Unsettled
<1> QED
  BY <1>4, <1>5

LEMMA GuardStep ==
  ASSUME AttributionAssumption, GuardInv, [GuardNext]_<<attrVars, flight, damaged>>
  PROVE  GuardInv'
<1> USE DEF GuardInv
<1>1. CASE Damage
  <2>1. ValidIndex(index')
    <3>1. index' \in [Paths -> Entry \cup {None}] /\ \A p \in Paths : index'[p] = None
      BY <1>1 DEF Damage
    <3>2. Taken(index') = {}
      BY <3>1 DEF Taken
    <3> QED
      BY <3>1, <3>2, FS_EmptySet DEF ValidIndex, AttributionAssumption
  <2>2. AttributionInv'
    BY <1>1, <2>1 DEF Damage, AttributionInv, ValidIndex, Taken
  <2> QED
    BY <1>1, <2>2 DEF Damage, Credited
<1>2. ASSUME UNCHANGED <<attrVars, damaged>>,
             flight' \in [Writers -> [path : Paths, expired : BOOLEAN] \cup {None}]
      PROVE  GuardInv'
  <2>1. AttributionInv'
    BY <1>2, AttributionStep DEF attrVars
  <2>2. \A x \in Paths : Credited(x)' <=> Credited(x)
    BY <1>2 DEF attrVars, Credited, Unsettled
  <2> QED
    BY <1>2, <2>1, <2>2
<1>3. ASSUME NEW a \in Writers, Expire(a) PROVE GuardInv'
  <2>1. flight[a] \in [path : Paths, expired : BOOLEAN]
    BY <1>3 DEF Expire
  <2>2. [flight[a] EXCEPT !.expired = TRUE] \in [path : Paths, expired : BOOLEAN]
    BY <2>1
  <2>3. flight' = [flight EXCEPT ![a] = [flight[a] EXCEPT !.expired = TRUE]]
    BY <1>3 DEF Expire
  <2>4. flight' \in [Writers -> [path : Paths, expired : BOOLEAN] \cup {None}]
    BY <2>2, <2>3
  <2> QED
    BY <1>2, <1>3, <2>4 DEF Expire
<1>4. ASSUME NEW a \in Writers, NoChange(a) PROVE GuardInv'
  BY <1>2, <1>4 DEF NoChange
<1>5. ASSUME NEW a \in Writers, NEW p \in Paths, Invoke(a, p) PROVE GuardInv'
  BY <1>2, <1>5 DEF Invoke
<1>6. ASSUME NEW a \in Writers, NEW p \in Paths, NEW d \in Content, NEW tool \in BOOLEAN,
             NEW found \in BOOLEAN, Commit(a, p, d, tool, found)
      PROVE  GuardInv'
  <2>1. Change(a, p, d, tool, found) /\ ~damaged /\ damaged' = damaged
    BY <1>6 DEF Commit
  <2>2. AttributionInv'
    BY <2>1, ChangeKeeps
  <2>3. OwnerIsName => \A x \in Paths : Credited(x)'
    BY <2>1, ChangeCredits
  <2>4. flight' \in [Writers -> [path : Paths, expired : BOOLEAN] \cup {None}]
    BY <1>6 DEF Commit
  <2> QED
    BY <2>1, <2>2, <2>3, <2>4
<1>7. ASSUME NEW a \in Writers, Other(a) PROVE GuardInv'
  <2>1. flight' \in [Writers -> [path : Paths, expired : BOOLEAN] \cup {None}] /\ damaged' = damaged
    BY <1>7 DEF Other
  <2>2. AttributionNext
    BY <1>7 DEF Other, AttributionNext
  <2>3. AttributionInv'
    BY <2>2, AttributionStep
  <2>4. CASE NewPrompt(a) \/ Capture(a)
    <3>1. index' = index /\ full' = full /\ lastOwn' = lastOwn
      BY <2>4 DEF NewPrompt, Capture
    <3>2. \A x \in Paths : Credited(x)' <=> Credited(x)
      BY <2>1, <3>1 DEF Credited, Unsettled
    <3> QED
      BY <2>1, <2>3, <3>2
  <2>5. CASE Verification(a)
    BY <2>1, <2>3, <2>5, VerificationCredits
  <2> QED
    BY <1>7, <2>4, <2>5 DEF Other
<1>8. CASE UNCHANGED <<attrVars, flight, damaged>>
  BY <1>2, <1>8
<1> QED
  BY <1>1, <1>3, <1>4, <1>5, <1>6, <1>7, <1>8 DEF GuardNext

LEMMA GuardStart == ASSUME AttributionAssumption, GuardInit PROVE GuardInv
<1>1. AttributionInv
  BY AttributionStart DEF GuardInit
<1>2. \A x \in Paths : lastOwn[x] = None
  BY DEF GuardInit, AttributionInit
<1> QED
  BY <1>1, <1>2 DEF GuardInit, GuardInv, Credited

\* What is let through destroys nothing that somebody else answers for.
LEMMA PassesSpares ==
  ASSUME AttributionAssumption, GuardAssumption, GuardInv, OwnerIsName,
         NEW caller \in Writers, NEW command \in Commands, command # <<>>, Passes(caller, command)
  PROVE  /\ State \notin Hit(command)
         /\ \A p \in Hit(command) \cap Paths :
              /\ lastOwn[p] # None /\ lastOwn[p].agent # caller /\ ~lastOwn[p].uncounted =>
                   lastOwn[p].verified
              /\ \A a \in Writers \ {caller} :
                   flight[a] # None /\ flight[a].path = p => flight[a].expired
<1>1. /\ ~damaged /\ ~full
      /\ \A i \in DOMAIN command :
           /\ command[i].resolved
           /\ \A t \in command[i].targets : TargetPasses(caller, t)
           /\ \A t \in command[i].within : TreePasses(caller, t)
  BY DEF Passes
<1>2. ASSUME NEW h \in Hit(command) PROVE h # State /\ (h \in Paths => Spared(caller, h))
  <2>1. PICK i \in DOMAIN command :
          h \in {Place[t].physical : t \in command[i].targets}
                \cup UNION {Place[t].below : t \in {w \in command[i].within : Place[w].physical # Outside}}
    BY <1>2 DEF Hit
  <2>4. \/ \E t \in command[i].targets : h = Place[t].physical
        \/ \E t \in command[i].within : Place[t].physical # Outside /\ h \in Place[t].below
    BY <2>1
  <2>2. CASE \E t \in command[i].targets : h = Place[t].physical
    BY <1>1, <2>2 DEF TargetPasses
  <2>3. CASE \E t \in command[i].within : Place[t].physical # Outside /\ h \in Place[t].below
    <3>1. PICK t \in command[i].within : Place[t].physical # Outside /\ h \in Place[t].below
      BY <2>3
    <3>2. t \in Targets
      BY <1>1 DEF GuardAssumption
    <3>3. h \in Paths
      BY <3>1, <3>2 DEF GuardAssumption
    <3>4. Spared(caller, h)
      BY <1>1, <3>1 DEF TreePasses
    <3> QED
      BY <3>3, <3>4 DEF GuardAssumption
  <2> QED
    BY <2>4, <2>2, <2>3
<1>3. ASSUME NEW p \in Paths, Spared(caller, p),
             lastOwn[p] # None, lastOwn[p].agent # caller, ~lastOwn[p].uncounted
      PROVE  lastOwn[p].verified
  BY <1>1, <1>3 DEF GuardInv, Credited, Spared, PeersOwn
<1>4. ASSUME NEW p \in Paths, Spared(caller, p), NEW a \in Writers \ {caller},
             flight[a] # None, flight[a].path = p
      PROVE  flight[a].expired
  BY <1>4 DEF Spared, InFlight
<1> QED
  BY <1>2, <1>3, <1>4

\* The index is valid by its own schema, whoever changes, checks or loses it:
\* no more entries and owners than there is room for, each owner once, and
\* what overflowed is contested (_validate_path_attribution).
THEOREM IndexTypes ==
  ASSUME AttributionAssumption
  PROVE  AttributionSpec => []AttributionTypeOK
<1>1. AttributionInit => AttributionInv
  BY AttributionStart
<1>2. AttributionInv /\ [AttributionNext]_attrVars => AttributionInv'
  BY AttributionStep
<1> QED
  BY <1>1, <1>2, InvTypes, PTL DEF AttributionSpec

\* The same where the ledger may be lost and the guard's own variables.
THEOREM GuardTypes ==
  ASSUME AttributionAssumption
  PROVE  GuardSpec => []GuardTypeOK
<1>1. GuardInit => GuardInv
  BY GuardStart
<1>2. GuardInv /\ [GuardNext]_<<attrVars, flight, damaged>> => GuardInv'
  BY GuardStep
<1>3. GuardInv => GuardTypeOK
  BY InvTypes DEF GuardInv, GuardTypeOK
<1> QED
  BY <1>1, <1>2, <1>3, PTL DEF GuardSpec

\* A destructive command that passes the guard destroys no file another agent
\* changed last and has not verified, nor one named by another agent's call
\* that no later event of that agent has closed: for any agents, paths and limits of the index, and any history of changes,
\* checks and losses of the ledger (_decide_r2).
THEOREM PeersAreSpared ==
  ASSUME AttributionAssumption, GuardAssumption
  PROVE  GuardSpec => []AllowedSparesPeers
<1>1. GuardInit => GuardInv
  BY GuardStart
<1>2. GuardInv /\ [GuardNext]_<<attrVars, flight, damaged>> => GuardInv'
  BY GuardStep
<1>3. GuardInv => AllowedSparesPeers
  BY PassesSpares DEF AllowedSparesPeers
<1> QED
  BY <1>1, <1>2, <1>3, PTL DEF GuardSpec
=============================================================================
