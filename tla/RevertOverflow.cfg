CONSTANTS
  CacheSize = 2
  None = None
  NotFound = NotFound
  Missing = Missing
  alice = alice
  bob = bob
  b0 = b0
  b1 = b1
  b2 = b2
  tx = tx
  ty = ty
  Proposer <- MCProposer
  BlockHash <- MCBlockHash
  Payload <- MCPayload
  MaxHeight = 4
  MaxChain = 2
  MaxPending = 3
  MaxRevert = 4
  MaxProposals = 9
  OutOfOrder = FALSE
  OwnStore = TRUE
  CommitFailures <- MCNone
  WriteFailures = FALSE
  LoadFailures <- MCLoads
SPECIFICATION Spec
INVARIANT BlocksAreAtTheirHeight
