SPECIFICATION FairSpec
CONSTANTS
  Streams = {s1, s2}
  Texts = {x, y, z}
  Settings <- MCSettings
  EmbedCapacity = 2
  ByteBudget = 5
  TokenCapacity = 1
  MaxTexts = 2
  MaxFragments = 2
  None = None
INVARIANTS
  Resident
  CachesExact
  Delivered
PROPERTIES
  StreamsEnd
CHECK_DEADLOCK FALSE
