SPECIFICATION Spec
CONSTANTS
  Groups = 1
  BlocksPerGroup = 3
  InodesPerGroup = 3
  Units = 2
  Slots = 3
  RootEntries = 1
  LeafEntries = 2
  Names = {"a", "b"}
  Paths <- ShortPaths
  Lengths = {3}
  MaxSize = 2
  Faults = {"fail"}
  MaxWrites = 6
INVARIANT SafeToWrite
