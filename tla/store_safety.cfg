SPECIFICATION Spec
CONSTANTS
  NoId = NoId
  Clients = {c1, c2}
  ConversationIds = {v1}
  MessageIds = {m1, m2, m3}
  SnapshotIds = {s1}
  MaxBatch = 2
  MaxIds = 2
  BatchSizes <- MCBatchSizes
  IdLists <- MCIdLists
  Batches <- MCBatches
  MaxCalls = 4
SYMMETRY Symmetry
INVARIANTS
  TypeOK
  CountMatchesItems
  OwnMessagesOnly
  ConstraintsNeverFire
  StoreInvariant
  OwnershipInvariant
  IntentInvariant
PROPERTIES
  ImplementsLog
  VersionCountsChanges
  RewriteMovesPastCursors
CHECK_DEADLOCK FALSE
