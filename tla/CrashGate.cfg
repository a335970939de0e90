\* One agent with two calls in flight, prompts that come while its turn is
\* open, and one fault: what a cut commit or a dead hook leaves behind.
SPECIFICATION Spec
CONSTANTS
  a1 = a1
  a2 = a2
  s1 = s1
  s2 = s2
  Agents = {a1}
  Slots = {s1, s2}
  AgentOf <- OneAgent
  Paths = {p1}
  Texts = 9
  None = None
  Quiet = FALSE
  Interrupts = TRUE
  PreMayFail = FALSE
  StoreFails = FALSE
  MaxBlocks = 2
  MaxStamp = 2
  MaxWrites = 2
  MaxTurns = 2
  MaxCalls = 1
  MaxFaults = 1
INVARIANTS PendingResolvable OwedIsCommitted
PROPERTY StopIsEvidenced
\* Every bound used up, nothing is left to do.
CHECK_DEADLOCK FALSE
