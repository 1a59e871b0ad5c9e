SPECIFICATION ListSpec
CONSTANTS
  NoId = NoId
  Clients = {c1, c2}
  ConversationIds = {v1}
  MessageIds = {m1, m2, m3}
  SnapshotIds = {s1}
  Readers = {r1}
  MaxBatch = 2
  MaxIds = 1
  BatchSizes <- MCBatchSizes
  IdLists <- MCIdLists
  Filters <- AllFilters
  PageSizes <- MCPageSizes
  defaultPageSize = 1
  maxPageSize = 2
  MaxDelivered = 12
  MaxCalls = 3
SYMMETRY Symmetry
INVARIANTS
  WalksMissNothing
  WalksRepeatOnlyRewritten
  WalksDeliverTheirCount
CHECK_DEADLOCK FALSE
