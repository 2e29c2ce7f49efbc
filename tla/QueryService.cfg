CONSTANTS
  CacheSize = 2
  None = None
  NotFound = NotFound
  Missing = Missing
  NoStream = NoStream
  alice = alice
  bob = bob
  b0 = b0
  b1 = b1
  b2 = b2
  tx = tx
  ty = ty
  Proposer <- MCProposer
  BlockHash <- MCBlockHash
  Payload <- MCPayload
  c1 = c1
  c2 = c2
  Clients <- MCClients
  Subscribers <- MCSubscribers
  Starts <- MCStarts
  MaxHeight = 3
  MaxChain = 2
  MaxQueue = 1
SPECIFICATION Spec
INVARIANTS
  TypeOK
  RequestsSeeWholeEvents
  ToldIsNeverTakenBack
  StreamsAreRecorded
  NoDecisionIsMissed
  TransactionsAreRight
  ProposalsAreChronological
  RestartForgetsNothing
PROPERTY DecisionsBecomeReadable
