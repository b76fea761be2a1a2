CONSTANTS
  Scalars <- MCScalars
  Mem = "m"
  NE = 2
  Idx = "i"
  IdxW = 1
  Atoms <- RefinesAtoms
  Conds = {"d"}
  CaseItems = {0, 1}
  MaxAtoms = 2
  MaxDepth = 1
  Mode = "always"
  Blocks <- MCFFBlocks
SPECIFICATION RSpec
INVARIANT TypeOK
PROPERTY Refines
CHECK_DEADLOCK FALSE
