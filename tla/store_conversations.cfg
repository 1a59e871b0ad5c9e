SPECIFICATION TimesSpec
CONSTANTS
  NoId = NoId
  Clients = {c1, c2}
  ConversationIds = {v1, v2}
  MessageIds = {m1, m2, m3}
  SnapshotIds = {s1}
  MaxBatch = 1
  MaxIds = 2
  BatchSizes <- MCBatchSizes
  IdLists <- MCIdLists
  MaxCalls = 4
SYMMETRY Symmetry
INVARIANTS
  SnapshotsAreYounger
  OwnMessagesOnly
PROPERTIES
  ChangesAreDatedAfterTheirCall
CHECK_DEADLOCK FALSE
