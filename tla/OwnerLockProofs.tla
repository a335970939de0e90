-------------------------- MODULE OwnerLockProofs --------------------------
(***************************************************************************)
(* Under the flock guard the owner lock of core/file_lock.py is safe for   *)
(* every number of processes, deaths, failed writes and stalls.  The       *)
(* invariant says who may be where in the code: only the guard's holder is *)
(* between Open and Leave, so what it learned of the file is still true    *)
(* when it acts on it.                                                     *)
(***************************************************************************)
EXTENDS OwnerLock, TLAPS

InGuard == {"open", "write", "inspect", "stat", "match", "unlink", "wait",
            "held", "relmatch", "relunlink", "leave"}

GuardInv == \A p \in Procs : pc[p] \in InGuard => guard = p

CreatorInv == \A p \in Procs : pc[p] = "write" => file = Tok(p)

\* What a waiter knows of the file between its steps.
WaiterInv ==
  /\ file = None => rec = None
  /\ \A p \in Procs :
       /\ pc[p] \in {"inspect", "stat", "match", "unlink"} => file # None
       /\ pc[p] = "stat" => rec = None
       /\ pc[p] \in {"match", "unlink"} =>
            rec = seen[p] /\ (rec = None \/ Dead(rec[1]))

IInv == TypeOK /\ GuardInv /\ CreatorInv /\ HolderOwnsFile /\ WaiterInv

\* Types hold with and without the guard.
THEOREM TypeCorrect == Spec => []TypeOK
<1>1. Init => TypeOK
  <2> SUFFICES ASSUME Init PROVE TypeOK
    OBVIOUS
  <2> USE LockAssumption DEF Init
  <2>1. round \in [Procs -> 0 .. MaxRounds] /\ faults \in 0 .. MaxFaults
    OBVIOUS
  <2>2. seen \in [Procs -> Token \cup {None}]
    OBVIOUS
  <2>3. pc \in [Procs -> Label]
    BY DEF Label
  <2> QED
    BY <2>1, <2>2, <2>3 DEF TypeOK
<1>2. TypeOK /\ [Next]_vars => TypeOK'
  <2> SUFFICES ASSUME TypeOK, [Next]_vars PROVE TypeOK'
    OBVIOUS
  <2> USE LockAssumption DEF TypeOK, Label, Token, fileVars, Goto, Tok
  <2>1. CASE Age
    BY <2>1 DEF Age
  <2>2. ASSUME NEW p \in Procs, Step(p) PROVE TypeOK'
    <3>1. CASE Begin(p)
      BY <3>1 DEF Begin
    <3>2. CASE TakeGuard(p) \/ GuardExpires(p)
      BY <3>2 DEF TakeGuard, GuardExpires
    <3>3. CASE Open(p)
      <4>1. Tok(p) \in Token
        OBVIOUS
      <4>2. file' \in Token \cup {None} /\ rec' \in Token \cup {None}
            /\ old' \in BOOLEAN
        BY <3>3, <4>1 DEF Open
      <4> QED
        BY <3>3, <4>2 DEF Open
    <3>4. CASE Write(p)
      BY <3>4 DEF Write, WriteTo
    <3>5. CASE WriteFails(p)
      BY <3>5 DEF WriteFails, WriteTo
    <3>6. CASE Inspect(p)
      BY <3>6 DEF Inspect
    <3>7. CASE Stat(p) \/ Match(p)
      BY <3>7 DEF Stat, Match
    <3>8. CASE Unlink(p) \/ Retry(p) \/ Expire(p)
      BY <3>8 DEF Unlink, Retry, Expire, NoFile
    <3>9. CASE EndBody(p) \/ ReleaseMatch(p) \/ ReleaseUnlink(p) \/ Leave(p)
      BY <3>9 DEF EndBody, ReleaseMatch, ReleaseUnlink, Leave, NoFile
    <3>10. CASE Crash(p)
      BY <3>10 DEF Crash
    <3> QED
      BY <2>2, <3>1, <3>2, <3>3, <3>4, <3>5, <3>6, <3>7, <3>8, <3>9, <3>10
      DEF Step
  <2>3. CASE UNCHANGED vars
    BY <2>3 DEF vars
  <2> QED
    BY <2>1, <2>2, <2>3 DEF Next
<1> QED
  BY <1>1, <1>2, PTL DEF Spec

LEMMA InitIInv == Init /\ TypeOK => IInv
  BY DEF Init, IInv, GuardInv, InGuard, CreatorInv, HolderOwnsFile, WaiterInv

\* Every step of a process keeps the invariant; the other processes are
\* outside the guard while this one is inside.
LEMMA StepIInv ==
  ASSUME Guarded, IInv, TypeOK', NEW p \in Procs, Step(p)
  PROVE  IInv'
<1> USE LockAssumption
    DEF IInv, TypeOK, Label, GuardInv, InGuard, CreatorInv, HolderOwnsFile,
        WaiterInv, Token, fileVars, Goto, Tok, Dead
<1>1. CASE Begin(p)
  BY <1>1 DEF Begin
<1>2. CASE TakeGuard(p)
  BY <1>2 DEF TakeGuard
<1>3. CASE GuardExpires(p)
  BY <1>3 DEF GuardExpires
<1>4. CASE Open(p)
  BY <1>4 DEF Open
<1>5. CASE Write(p)
  BY <1>5 DEF Write, WriteTo
<1>6. CASE WriteFails(p)
  BY <1>6 DEF WriteFails, WriteTo
<1>7. CASE Inspect(p)
  BY <1>7 DEF Inspect
<1>8. CASE Stat(p)
  BY <1>8 DEF Stat
<1>9. CASE Match(p)
  BY <1>9 DEF Match
<1>10. CASE Unlink(p)
  BY <1>10 DEF Unlink, NoFile
<1>11. CASE Retry(p) \/ Expire(p)
  BY <1>11 DEF Retry, Expire
<1>12. CASE EndBody(p)
  BY <1>12 DEF EndBody
<1>13. CASE ReleaseMatch(p)
  BY <1>13 DEF ReleaseMatch
<1>14. CASE ReleaseUnlink(p)
  BY <1>14 DEF ReleaseUnlink, NoFile
<1>15. CASE Leave(p)
  BY <1>15 DEF Leave
<1>16. CASE Crash(p)
  BY <1>16 DEF Crash
<1> QED
  BY <1>1, <1>2, <1>3, <1>4, <1>5, <1>6, <1>7, <1>8, <1>9, <1>10, <1>11,
     <1>12, <1>13, <1>14, <1>15, <1>16 DEF Step

LEMMA NextIInv ==
  ASSUME Guarded, IInv, TypeOK', [Next]_vars
  PROVE  IInv'
<1>1. CASE Age
  BY <1>1 DEF Age, IInv, GuardInv, CreatorInv, HolderOwnsFile, WaiterInv,
              Tok, Dead
<1>2. CASE \E p \in Procs : Step(p)
  BY <1>2, StepIInv
<1>3. CASE UNCHANGED vars
  BY <1>3 DEF vars, IInv, GuardInv, CreatorInv, HolderOwnsFile, WaiterInv,
              Tok, Dead
<1> QED
  BY <1>1, <1>2, <1>3 DEF Next

\* Under the guard only its holder touches the path, so what it compared is
\* still there when it unlinks.
THEOREM GuardedInvariant == ASSUME Guarded PROVE Spec => []IInv
<1>1. Init /\ TypeOK => IInv
  BY InitIInv
<1>2. TypeOK' /\ IInv /\ [Next]_vars => IInv'
  BY Guarded, NextIInv
<1> QED
  BY <1>1, <1>2, TypeCorrect, PTL DEF Spec

\* ledger_transaction's body never runs twice at once, whoever died before.
THEOREM GuardedMutualExclusion ==
  ASSUME Guarded PROVE Spec => []MutualExclusion
<1>1. IInv => MutualExclusion
  BY DEF IInv, GuardInv, InGuard, MutualExclusion
<1> QED
  BY Guarded, <1>1, GuardedInvariant, PTL

\* The owner record of a running ledger_transaction is never reclaimed.
THEOREM GuardedHolderOwnsFile ==
  ASSUME Guarded PROVE Spec => []HolderOwnsFile
<1>1. IInv => HolderOwnsFile
  BY DEF IInv
<1> QED
  BY Guarded, <1>1, GuardedInvariant, PTL

\* Under the guard a waiter is held up only by an undecided owner.
THEOREM GuardedWait == ASSUME Guarded PROVE Spec => WaitOnlyIfUndecided
<1> DEFINE W == \A p \in Procs : pc[p] # "wait" /\ pc'[p] = "wait" =>
                  file # None /\ (rec = None \/ ~Dead(rec[1]))
<1>1. ASSUME IInv, [Next]_vars PROVE W \/ UNCHANGED vars
  <2> USE <1>1, LockAssumption
      DEF IInv, TypeOK, WaiterInv, fileVars, Goto, Dead
  <2>1. CASE Age
    BY <2>1 DEF Age
  <2>2. ASSUME NEW q \in Procs, Step(q) PROVE W
    BY <2>2 DEF Step, Begin, TakeGuard, GuardExpires, Open, Write, WriteFails,
       Inspect, Stat, Match, Unlink, Retry, Expire, EndBody, ReleaseMatch,
       ReleaseUnlink, Leave, Crash
  <2> QED
    BY <2>1, <2>2 DEF Next
<1>2. IInv /\ [Next]_vars => [W]_vars
  BY <1>1
<1> QED
  BY Guarded, <1>2, GuardedInvariant, PTL DEF Spec, WaitOnlyIfUndecided

\* With one process at most in its body, Holder is that process.
LEMMA HolderIs ==
  ASSUME MutualExclusion, NEW p \in Procs, pc[p] = "held"
  PROVE  Holder = p
  BY DEF MutualExclusion, Holder

LEMMA NoHolder ==
  ASSUME \A p \in Procs : pc[p] # "held"
  PROVE  Holder = None
  BY DEF Holder

\* Under the guard the lock file implements the abstract mutex.
THEOREM GuardedImplementsMutex == ASSUME Guarded PROVE Spec => ImplementsMutex
<1>1. Init => M!Init
  BY NoHolder DEF Init, M!Init
<1>2. ASSUME TypeOK, MutualExclusion, MutualExclusion', [Next]_vars
      PROVE  [M!Next]_Holder
  <2> USE <1>2, LockAssumption
  <2>0. UNCHANGED vars => UNCHANGED Holder
    BY DEF vars, Holder
  <2>1. Age => UNCHANGED Holder
    BY DEF Age, Holder
  <2>2. ASSUME NEW p \in Procs, Step(p) PROVE [M!Next]_Holder
    <3>1. /\ pc' = [pc EXCEPT ![p] = pc'[p]]
          /\ pc[p] # "held" /\ pc'[p] = "held" => pc[p] = "write"
      BY <2>2 DEF Step, Begin, TakeGuard, GuardExpires, Open, Write,
         WriteFails, Inspect, Stat, Match, Unlink, Retry, Expire, EndBody,
         ReleaseMatch, ReleaseUnlink, Leave, Crash, Goto, TypeOK
    <3>2. CASE (pc[p] = "held") = (pc'[p] = "held")
      <4>1. \A q \in Procs : (pc[q] = "held") = (pc'[q] = "held")
        BY <3>1, <3>2 DEF TypeOK
      <4> QED
        BY <4>1 DEF Holder
    <3>3. CASE pc[p] # "held" /\ pc'[p] = "held"
      <4>1. Holder' = p
        BY <3>3 DEF MutualExclusion, Holder
      <4>2. Holder = None
        BY <3>1, <3>3, NoHolder DEF MutualExclusion, TypeOK
      <4> QED
        BY <4>1, <4>2 DEF M!Next, M!Enter
    <3>4. CASE pc[p] = "held" /\ pc'[p] # "held"
      <4>1. Holder = p
        BY <3>4, HolderIs
      <4>2. Holder' = None
        BY <3>1, <3>4 DEF MutualExclusion, TypeOK, Holder
      <4> QED
        BY <4>1, <4>2 DEF M!Next, M!Exit
    <3> QED
      BY <3>2, <3>3, <3>4
  <2> QED
    BY <2>0, <2>1, <2>2 DEF Next
<1>3. QED
  BY Guarded, <1>1, <1>2, TypeCorrect, GuardedMutualExclusion, PTL
  DEF Spec, M!Spec, ImplementsMutex
=============================================================================
