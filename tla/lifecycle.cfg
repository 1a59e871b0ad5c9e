SPECIFICATION FairSpec
CONSTANTS
  Replicas = {r1, r2}
  Calls = {k1, k2, k3}
  Transactions = {k1, k2}
  Conversations = {v1}
  MaxConns = 1
INVARIANTS
  NoCallCutOff
PROPERTIES
  StopCompletes
  CallsEnd
CHECK_DEADLOCK FALSE
