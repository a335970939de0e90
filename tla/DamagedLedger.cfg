\* One hook at a time, and one damage from outside.
SPECIFICATION FileSpec
CONSTANTS
  Hooks = {h1}
  Events = {1, 2}
  None = None
  Archived = TRUE
  Supervised = TRUE
  MaxTears = 1
  MaxFailures = 0
INVARIANT DamageIsRecovered
CHECK_DEADLOCK FALSE
