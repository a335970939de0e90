\* The same lock after one process died with it.
SPECIFICATION Spec
CONSTANTS
  Procs = {p1, p2, p3}
  None = None
  MaxRounds = 1
  MaxFaults = 1
  Guarded = FALSE
  MayStall = FALSE
SYMMETRY Symmetry
INVARIANT MutualExclusion
\* Every process has used up its rounds.
CHECK_DEADLOCK FALSE
