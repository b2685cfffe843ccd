SPECIFICATION Spec
CONSTANTS
  Clusters = 4
  Slots = 2
  Names = {"a", "b"}
  Paths <- ShortPaths
  Lengths = {1}
  MaxSize = 3
  Faults <- BadCluster
CONSTRAINT WhileSound
INVARIANTS TypeOK NoCrossLink FilesReadable DirectoriesLinked CwdPathLeadsToCwd
PROPERTIES ErrorKeepsTree LeaksOnlyWhenFull FailuresAreReported
