\* One agent, one path: its own change, named as the adapters name it.
SPECIFICATION AttributionSpec
CONSTANTS
  Writers = {a}
  Paths = {p}
  Digests = {d}
  None = None
  OwnerIsName = FALSE
  MAX_ATTRIBUTION_PATHS = 1
  MAX_PATH_OWNERS = 1
  MaxSeq = 2
INVARIANT OwnIsSelf
CHECK_DEADLOCK FALSE
