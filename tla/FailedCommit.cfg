CONSTANTS
  CacheSize = 2
  None = None
  NotFound = NotFound
  Missing = Missing
  alice = alice
  bob = bob
  b0 = b0
  b1 = b1
  b2 = b2
  tx = tx
  ty = ty
  Proposer <- MCProposer
  BlockHash <- MCBlockHash
  Payload <- MCPayload
  MaxHeight = 3
  MaxChain = 2
  MaxPending = 2
  MaxRevert = 2
  MaxProposals = 9
  OutOfOrder = FALSE
  OwnStore = TRUE
  CommitFailures <- MCAllSteps
  WriteFailures = FALSE
  LoadFailures <- MCLoads
SPECIFICATION Spec
PROPERTY FailedCommitCanBeReverted
