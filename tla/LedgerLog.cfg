CONSTANTS
  CacheSize = 2
  MaxHeight = 4
  MaxRevert = 2
  None = None
  c1 = c1
  Clients <- MCOneClient
  LoadFailures <- MCLoadFailures
SPECIFICATION FairSpec
INVARIANTS
  TypeOK
  ReadsMatchWrites
  UncommittedIsVisible
  StreamsAreContiguous
  NothingIsLostOrRepeated
  PrefixIsAvailable
PROPERTIES DurableStaysReadable ImplementsOrderedStream
