SPECIFICATION Spec
CONSTANTS
  Null = Null
  Texts <- MCTexts
  Keys = {1, 2}
  Roles <- MCRoles
  Details <- MCDetails
  Lengths <- MCLengths
  MessageIds = {m1, m2}
  Wide = FALSE
  Inputs <- MCInputs
  MaxCopies = 2
INVARIANTS
  HashTellsBodies
CHECK_DEADLOCK FALSE
