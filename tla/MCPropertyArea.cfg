SPECIFICATION FairSpec
CONSTANTS
  Names <- MCNames
  LongNames <- MCLong
  Readers = {r1}
  AreaSize = 20
  HeaderSize = 2
  NodeSize = 2
  InfoSize = 3
  LongSize = 2
INVARIANT AreaInv
INVARIANT FindCorrect
PROPERTY LinksWriteOnce
PROPERTY AddOkMeansPublished
PROPERTY FindReturns
