CONSTANTS
  Scalars <- MCScalars
  Mem = "m"
  NE = 2
  Idx = "i"
  IdxW = 1
  Atoms <- NestedAtoms
  Conds = {"d"}
  CaseItems = {}
  MaxAtoms = 3
  MaxDepth = 2
  Mode = "always"
  Blocks <- MCFFBlocks
SPECIFICATION Spec
INVARIANT SemanticsPreserved
CHECK_DEADLOCK FALSE
