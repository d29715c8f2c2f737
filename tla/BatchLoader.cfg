SPECIFICATION FairSpec
CONSTANTS
  Split <- MCSplit
  BatchSize = 3
  Decodable <- MCDecodable
  Boxes <- MCBoxes
  None = None
  Hardware = 3
  Seeds = {1, 2}
  Draw <- MCDraw
INVARIANTS
  OrderIsPermutation
  SlotsNotShared
  EpochCoversSplit
  SameSeedSameOrder
PROPERTIES
  ImplementsSerialLoader
  CallsReturn
