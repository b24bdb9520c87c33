\* Every version that ApiVersions advertises.
SPECIFICATION HeaderSpec
CONSTANTS
  Request <- Advertised
  ClientID <- MCClientID
  Tags <- MCTags
  MaxInt = 255
  MaxUvarint = 2
  MaxFrame = 160
  MaxLength = 511
INVARIANTS
  BodyIsFound
