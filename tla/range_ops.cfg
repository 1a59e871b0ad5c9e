SPECIFICATION Spec
CONSTANTS
  NoId = NoId
  MessageIds = {m1, m2, m3, m4, m5}
  MaxInserts = 2
  MaxSpare = 2
  InsertLists <- MCInsertLists
  Spares <- MCSpares
INVARIANTS
  ReplaceMatchesReference
  DeleteMatchesReference
  ReplaceIsReversible
  RetryIsHarmless
  InPlaceEditsAreSplices
CHECK_DEADLOCK FALSE
