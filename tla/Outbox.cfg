\* Two drainers in batches of two, room for two events and their receipts, so
\* that events are refused and receipts evicted; id 3 is an R2 denial.
SPECIFICATION Spec
CONSTANTS
  Workers = {w1, w2}
  Ids = {1, 2, 3}
  b1 = b1
  b2 = b2
  Bodies = {b1, b2}
  StableR2 = {3}
  NoBody = NoBody
  Cap = 2
  Batch = 2
  Legacy <- FreshOrLegacy
  CutsText = FALSE
  MaxFaults = 1
  MaxAccept = 5
  MaxCursor = 7
INVARIANTS AcceptedNotLost DeliveredIsJournaled LedgerStaysValid
PROPERTY ImplementsAuditLog
SYMMETRY WorkerSymmetry
\* Nothing is pending, or the bounds are used up.
CHECK_DEADLOCK FALSE
