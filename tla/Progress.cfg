SPECIFICATION Spec
CONSTANTS
  None = None
  NoBody = NoBody
  t1 = t1
  p1 = p1
  p2 = p2
  ledgerFile = ledgerFile
  snapshot = snapshot
  b1 = b1
  b2 = b2
  w1 = w1
  w2 = w2
  \* StopGate
  Targets = {t1}
  Calls = {c1, c2}
  Work <- OneTarget
  MAX_BLOCKS = 1
  MaxCalls = 3
  MaxLints = 1
  MaxFaults = 1
PROPERTIES EvidenceIsCurrent GateTurnEnds MigrationCompletes EventuallyJournaled
\* All of them may stop at their bounds.
CHECK_DEADLOCK FALSE
