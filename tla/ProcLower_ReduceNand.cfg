CONSTANTS
  Scalars <- MCScalars
  Mem = "m"
  NE = 2
  Idx = "i"
  IdxW = 1
  Atoms <- NandAtoms
  Conds = {"d"}
  CaseItems = {0, 1}
  MaxAtoms = 1
  MaxDepth = 0
  Mode = "always"
  Blocks <- MCFFBlocks
SPECIFICATION Spec
INVARIANT SemanticsPreserved
CHECK_DEADLOCK FALSE
