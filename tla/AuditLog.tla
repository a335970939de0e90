------------------------------ MODULE AuditLog ------------------------------
(***************************************************************************)
(* What the coordination outbox and journal promise together: an event     *)
(* reaches the log only after it was accepted, an event id is published    *)
(* once, and what is published is never changed.                           *)
(***************************************************************************)
CONSTANTS Ids, Bodies

VARIABLES accepted,   \* the events <<id, body>> durably accepted so far
          log         \* the events a reader of the journal sees

logVars == <<accepted, log>>

Init == log = accepted /\ \A e, f \in log : e[1] = f[1] => e = f

Accept(e) == accepted' = accepted \cup {e} /\ UNCHANGED log

Publish(e) ==
  /\ e \in accepted
  /\ \A f \in log : f[1] # e[1]
  /\ log' = log \cup {e} /\ UNCHANGED accepted

Next == \E e \in Ids \X Bodies : Accept(e) \/ Publish(e)

Spec == Init /\ [][Next]_logVars
=============================================================================
