SPECIFICATION Spec
CONSTANTS
  Null = Null
  Texts <- MCTexts
  Keys = {1, 2}
  Roles <- MCRoles
  Details <- MCDetails
  Lengths <- MCLengths
  MessageIds = {m1}
  Wide = TRUE
  Inputs <- MCInputs
  MaxCopies = 1
INVARIANTS
  StoredRoleIsSpecified
CHECK_DEADLOCK FALSE
