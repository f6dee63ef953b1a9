SPECIFICATION FairSpec
CONSTANTS
  Sessions = {s1, s2}
  Tokens = {a, b}
  Blocks <- MCBlocks
  Priorities <- MCPriorities
  BlockTokens = 2
  Capacity = 2
  EvictSizes = {0, 1}
  MaxCall = 3
  MaxSession = 3
  NoSession = NoSession
  NoBlock = NoBlock
  Dropped = Dropped
INVARIANTS
  TypeOK
  RefCountsExact
  NoDanglingBlock
  IndexTrustworthy
  OverCapacityMeansAlone
  Paged
PROPERTIES
  EvictionInOrder
  PrivatePages
  CallsReturn
