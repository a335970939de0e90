\* One agent with two calls in flight, two files, writes that keep size and mtime and
\* contents that come back: the turn's revisions are the exact net delta.
SPECIFICATION Spec
CONSTANTS
  a1 = a1
  a2 = a2
  s1 = s1
  s2 = s2
  Agents = {a1}
  Slots = {s1, s2}
  AgentOf <- OneAgent
  Paths = {p1, p2}
  Texts = 2
  None = None
  Quiet = TRUE
  Interrupts = FALSE
  PreMayFail = FALSE
  StoreFails = FALSE
  MaxBlocks = 2
  MaxStamp = 2
  MaxWrites = 2
  MaxTurns = 2
  MaxCalls = 1
  MaxFaults = 0
INVARIANT PendingIsNetDelta
PROPERTY StopSawEarlierWrites
\* Every bound used up, nothing is left to do.
CHECK_DEADLOCK FALSE
