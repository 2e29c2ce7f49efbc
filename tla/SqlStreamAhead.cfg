CONSTANTS
  NotFound = NotFound
  Missing = Missing
  NoStream = NoStream
  alice = alice
  bob = bob
  b0 = b0
  b1 = b1
  b2 = b2
  tx = tx
  ty = ty
  c1 = c1
  Proposer <- MCProposer
  BlockHash <- MCBlockHash
  Payload <- MCPayload
  Clients <- MCOneClient
  Width = 3
  MaxHeight = 3
  MaxChain = 2
  MaxPending = 2
  Redelivery = TRUE
  StatementFailures = TRUE
  ConnectionFailures = FALSE
  MaxSubscriptions = 1
  MaxMisled = 1
SPECIFICATION Spec
INVARIANT StreamsStartAtHeight
