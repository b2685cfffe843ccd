SPECIFICATION Spec
CONSTANTS
  heapStartAddr = 2
  heapEndAddr = 38
  Header = 3
  minBlockSize = 4
  heapAlignment = 2
  Sizes = {1, 4, 7}
INVARIANTS OwnersAreAlone ListIsWhole FreeIsMerged
