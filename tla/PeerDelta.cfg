\* Two agents: a difference a peer's hook committed first.
SPECIFICATION Spec
CONSTANTS
  a1 = a1
  a2 = a2
  s1 = s1
  s2 = s2
  Agents = {a1, a2}
  Slots = {s1, s2}
  AgentOf <- TwoAgents
  Paths = {p1}
  Texts = 2
  None = None
  Quiet = FALSE
  Interrupts = FALSE
  PreMayFail = FALSE
  StoreFails = FALSE
  MaxBlocks = 2
  MaxStamp = 1
  MaxWrites = 1
  MaxTurns = 1
  MaxCalls = 1
  MaxFaults = 0
PROPERTIES NoPassOverHidden
\* Every bound used up, nothing is left to do.
CHECK_DEADLOCK FALSE
