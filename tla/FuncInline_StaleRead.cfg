CONSTANTS
  Scalars <- MCScalars
  Mem = "m"
  NE = 2
  Idx = "i"
  IdxW = 1
  Atoms <- CallerAtoms
  Conds = {"d"}
  CaseItems = {0, 1}
  MaxAtoms = 2
  MaxDepth = 0
  Mode = "always"
  Blocks <- MCFFBlocks
  FuncAtoms <- FuncReadsQAtoms
  FMaxAtoms = 2
  FMaxDepth = 1
  Params <- MCParams
  RetVar = "f"
  CallArgs <- MCCallArgs
SPECIFICATION FSpec
INVARIANT CallsPreserved
CHECK_DEADLOCK FALSE
