CONSTANTS
  CacheSize = 2
  None = None
  NotFound = NotFound
  Missing = Missing
  alice = alice
  bob = bob
  b0 = b0
  b1 = b1
  b2 = b2
  tx = tx
  ty = ty
  Proposer <- MCProposer
  BlockHash <- MCBlockHash
  Payload <- MCPayload
  MaxHeight = 3
  MaxChain = 2
  MaxPending = 3
  MaxRevert = 2
  MaxProposals = 4
  OutOfOrder = TRUE
  OwnStore = FALSE
  CommitFailures <- MCAllSteps
  WriteFailures = TRUE
  LoadFailures <- MCLateFailing
SPECIFICATION Spec
INVARIANTS
  AnswersAreRight
  IndicesCoverLogs
  BlocksHaveLeaves
PROPERTY DurableStaysReadable
