SPECIFICATION FairListSpec
CONSTANTS
  NoId = NoId
  Clients = {c1}
  ConversationIds = {v1}
  MessageIds = {m1, m2}
  SnapshotIds = {s1}
  Readers = {r1}
  MaxBatch = 2
  MaxIds = 3
  BatchSizes <- MCBatchSizes
  IdLists <- MCFewLists
  Filters <- NoFilter
  PageSizes <- MCPageSizes
  defaultPageSize = 1
  maxPageSize = 2
  MaxDelivered = 4
  MaxCalls = 3
INVARIANTS
  SnapshotWalksAreExact
PROPERTIES
  WalksEnd
CHECK_DEADLOCK FALSE
