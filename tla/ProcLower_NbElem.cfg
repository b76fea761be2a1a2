CONSTANTS
  Scalars <- MCScalars
  Mem = "m"
  NE = 2
  Idx = "i"
  IdxW = 1
  Atoms <- NbElemAtoms
  Conds = {"d"}
  CaseItems = {0, 1}
  MaxAtoms = 2
  MaxDepth = 0
  Mode = "always"
  Blocks <- MCFFBlocks
SPECIFICATION Spec
INVARIANT SemanticsPreserved
CHECK_DEADLOCK FALSE
