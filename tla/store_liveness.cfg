SPECIFICATION FairSpec
CONSTANTS
  NoId = NoId
  Clients = {c1, c2, c3}
  ConversationIds = {v1}
  MessageIds = {m1, m2, m3, m4}
  SnapshotIds = {s1, s2, s3}
  MaxBatch = 1
  MaxIds = 1
  BatchSizes <- MCBatchSizes
  IdLists <- MCOneList
  MaxCalls = 4
INVARIANTS
  NoDeadlock
PROPERTIES
  EveryCallEnds
CHECK_DEADLOCK FALSE
