SPECIFICATION PreToolSpec
CONSTANTS
  ToolCalls = {h1}
  MAX_GATE_BLOCKS = 2
  MaxPrompts = 1
  MaxLost = 0
PROPERTY RiskNeedsContract
CHECK_DEADLOCK FALSE
