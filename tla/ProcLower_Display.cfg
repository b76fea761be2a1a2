CONSTANTS
  Scalars <- MCScalars
  Mem = "m"
  NE = 2
  Idx = "i"
  IdxW = 1
  Atoms <- DisplayAtoms
  Conds = {"d"}
  CaseItems = {0, 1}
  MaxAtoms = 3
  MaxDepth = 1
  Mode = "always"
  Blocks <- DisplayBlocks
SPECIFICATION Spec
INVARIANT PrintsPreserved
CHECK_DEADLOCK FALSE
