\* Every request, every fault of its way.
CONSTANTS
  ExcludedLogPaths <- MCExcludedLogPaths
SPECIFICATION FairSpec
CHECK_DEADLOCK FALSE
INVARIANTS
  AuthorizedOnly
  LogsTellTruth
PROPERTIES
  KeepsItsWord
  HTTPAnswered
  InnerEnds
