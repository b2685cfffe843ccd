\* Nothing obliges a caller to use the disk: the driver may be idle for ever.
SPECIFICATION FairSpec
CONSTANTS
  LastPort = 1
  Faults = {"media", "memory", "hang"}
  MaxCommands = 4
INVARIANTS TypeOK ListsOutliveEngine SuccessIsOwn NoStrayDma DiskIsFound
PROPERTIES CallsEnd
CHECK_DEADLOCK FALSE
