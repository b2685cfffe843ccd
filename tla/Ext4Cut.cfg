SPECIFICATION Spec
CONSTANTS
  Groups = 11
  BlocksPerGroup = 1
  InodesPerGroup = 1
  Units = 1
  Slots = 2
  RootEntries = 2
  LeafEntries = 3
  Names = {"a"}
  Paths <- NestedPaths
  Lengths = {1, 3}
  MaxSize = 7
  Faults = {"cut"}
  MaxWrites = 32
INVARIANTS SafeToWrite NamesLeadSomewhere
