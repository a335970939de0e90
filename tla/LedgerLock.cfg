\* ledger_transaction on POSIX: the owner file under the flock guard, with
\* two deaths or failed writes and creators that may stall.
SPECIFICATION FairSpec
CONSTANTS
  Procs = {p1, p2, p3}
  None = None
  MaxRounds = 1
  MaxFaults = 2
  Guarded = TRUE
  MayStall = TRUE
PROPERTIES ImplementsMutex EveryCallReturns DeadOwnerReclaimed
\* Every process has used up its rounds.
CHECK_DEADLOCK FALSE
