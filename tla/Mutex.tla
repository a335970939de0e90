------------------------------- MODULE Mutex -------------------------------
(***************************************************************************)
(* What a lock promises its callers: at most one process is inside the     *)
(* protected region, it leaves before the next one enters, and a process   *)
(* that dies inside leaves too.  OwnerLock is shown to implement this when *)
(* the kernel guard is used.                                               *)
(***************************************************************************)
CONSTANTS Procs,   \* processes that may ask for the lock
          None     \* "nobody"

VARIABLE holder    \* the process inside, or None

Init == holder = None

Enter(p) == holder = None /\ holder' = p

Exit(p) == holder = p /\ holder' = None

Next == \E p \in Procs : Enter(p) \/ Exit(p)

Spec == Init /\ [][Next]_holder
=============================================================================
