CONSTANTS
  Scalars <- MCScalars
  Mem = "m"
  NE = 2
  Idx = "i"
  IdxW = 1
  Atoms <- CallerAtoms
  Conds = {"d"}
  CaseItems = {0, 1}
  MaxAtoms = 1
  MaxDepth = 0
  Mode = "always"
  Blocks <- MCFFBlocks
  FuncAtoms <- FuncDisplayAtoms
  FMaxAtoms = 2
  FMaxDepth = 1
  Params <- MCParams
  RetVar = "f"
  CallArgs <- MCCallArgs
SPECIFICATION FSpec
PROPERTY CallReturns
CHECK_DEADLOCK FALSE
