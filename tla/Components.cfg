SPECIFICATION Spec
CONSTANTS
  None = None
  NoBody = NoBody
  Broken = Broken
  b1 = b1
  b2 = b2
  w1 = w1
  w2 = w2
  k1 = k1
  k2 = k2
  r1 = r1
  r2 = r2
  h1 = h1
  h2 = h2
  a = a
  b = b
  c = c
  p = p
  q = q
  d1 = d1
  d2 = d2
  s1 = s1
  s2 = s2
  s3 = s3
  \* TurnBaseline
  Peers = {a, b, c}
  Slots = {h1, h2}
  Keys = {k1}
  Contents = {d1}
  TurnIds = {1, 2}
  AgentKey <- FileNames
  MaxBegun = 3
  MaxEdits = 1
  MaxHarm = 1
  \* StateMigration
  Procs = {p1, p2}
  Files = {ledgerFile, snapshot}
  Ledger = ledgerFile
  MaxStamp = 1
  MaxWrites = 3
  MaxFaults = 1
  \* PreToolGates
  ToolCalls = {h1, h2}
  MAX_GATE_BLOCKS = 1
  MaxPrompts = 2
  MaxLost = 1
  \* TurnLedger
  Agents = {a, b}
  Turns = {1, 2, 3}
  MAX_CLOSED_TURNS = 2
  MAX_RETIRED_TURNS = 1
  MaxClosings = 3
  \* LedgerFile
  Hooks = {h1, h2}
  Events = {1, 2}
  Archived = FALSE
  Supervised = TRUE
  MaxTears = 1
  MaxFailures = 1
  \* StatusArchive
  Sources = {s1, s2, s3}
  Size <- Sizes
  INVOCATION_STATUS_ARCHIVE_MAX_COUNT = 2
  INVOCATION_STATUS_ARCHIVE_MAX_BYTES = 3
  MaxStumbles = 3
  \* PathAttribution, DestructiveGate
  Writers = {a, b}
  Paths = {p}
  Digests = {d1, d2}
  OwnerIsName = TRUE
  MAX_ATTRIBUTION_PATHS = 1
  MAX_PATH_OWNERS = 2
  MaxSeq = 3
  Targets <- GuardTargets
  Place <- GuardPlace
  Commands <- GuardCommands
  \* SessionHooks
  Runs = {h1, h2}
  Roots = {r1, r2}
  Enabled = {r1, r2}
  Orderly = TRUE
  MaxPromptCount = 2
  MaxMishaps = 1
  \* GateScorecard
  Sessions = {k1, k2}
  Reasons = {r1, r2}
  MaxCached = 1
  MaxEvents = 3
  MaxTurns = 2
  MaxSlips = 1
SYMMETRY HookSymmetry
INVARIANTS TypeOK WritesSurvive CompleteIsGapless GateBlocksCapped AllowedSparesPeers OpenIsNotTerminal SavedSurvives ArchivesHold TurnsOpenOnce ReadAsMeant RepairIsExact EffectAsMeant ReadyIsBound
PROPERTIES PublishIsQuiescent OnlyPromptsReopen LatchHolds KeptUntilCrowded ReapsLeftOvers BaselineOnlyGrows
\* All of them may stop at their bounds.
CHECK_DEADLOCK FALSE
