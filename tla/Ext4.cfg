SPECIFICATION Spec
CONSTANTS
  Groups = 2
  BlocksPerGroup = 2
  InodesPerGroup = 2
  Units = 2
  Slots = 3
  RootEntries = 1
  LeafEntries = 2
  Names = {"a", "b"}
  Paths <- ShortPaths
  Lengths = {3}
  MaxSize = 6
  Faults = {}
  MaxWrites = 1
INVARIANTS TypeOK BlocksAreOwned InodesAreNamed CountsAreBitmaps FilesReadable
PROPERTY RefinesFileTree
