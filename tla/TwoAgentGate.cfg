\* Two agents whose hooks interleave, and one fault of any kind.
SPECIFICATION Spec
CONSTANTS
  a1 = a1
  a2 = a2
  s1 = s1
  s2 = s2
  Agents = {a1, a2}
  Slots = {s1, s2}
  AgentOf <- TwoAgents
  Paths = {p1}
  Texts = 9
  None = None
  Quiet = FALSE
  Interrupts = FALSE
  PreMayFail = TRUE
  StoreFails = TRUE
  MaxBlocks = 1
  MaxStamp = 1
  MaxWrites = 1
  MaxTurns = 1
  MaxCalls = 1
  MaxFaults = 1
INVARIANT TypeOK
PROPERTIES ManifestMovesForward StopJudgesCommitted
SYMMETRY Swap
\* Every bound used up, nothing is left to do.
CHECK_DEADLOCK FALSE
