SPECIFICATION FairSpec
CONSTANTS
  r1 = r1
  r2 = r2
  r3 = r3
  Replicas = {r1, r2, r3}
  Image <- MCImage
  Files = 3
  Creating = {1, 3}
  MaxCrashes = 2
INVARIANTS
  TypeOK
  AppliedOnce
  AppliedInOrder
  ServesMigrated
PROPERTIES
  EveryReplicaServes
CHECK_DEADLOCK FALSE
