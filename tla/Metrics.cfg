CONSTANTS
  None = None
  t1 = t1
  t2 = t2
  Tasks <- MCTasks
  Kinds <- MCKinds
  Segments <- MCSegments
  Names <- MCNames
  Consensus <- MCConsensus
  OutstandingTransactions <- MCCount
  OutstandingMemorySize <- MCSize
  CurrentView <- MCCount
  LastSyncedHeight <- MCSize
  Width = 2
  Deltas <- MCDeltas
  Amounts <- MCAmounts
  MaxGroups = 3
  MaxMetrics = 2
  MaxTotal = 1
SPECIFICATION Spec
INVARIANTS
  NamesAgree
  WalksArrive
  ValuesAddUp
PROPERTIES LookupsAreStable StatusStays
SYMMETRY MCSymmetry
CHECK_DEADLOCK FALSE
