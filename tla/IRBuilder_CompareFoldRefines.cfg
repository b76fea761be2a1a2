CONSTANTS
  WireBits <- MCWireBits
  MaxWidth = 2
  MaxCells = 1
SPECIFICATION Spec
INVARIANTS CompareFoldRefines
