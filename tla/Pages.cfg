\* Four rows, three times of creation: a full page, one that is not, the same time twice.
CONSTANTS
  Ids = {a, b, c, d}
  Stamps = {1, 2, 3}
  PageRequests <- MCPageRequests
  SizeRequests <- MCSizeRequests
  DefaultPageSize = 2
  MaxPageSize = 3
  MaxWrites = 2
SPECIFICATION Spec
SYMMETRY AnyId
INVARIANTS
  MetaMatchesItems
  MissesOnlyByDelete
  RepeatsOnlyByInsert
  WalkIsListing
