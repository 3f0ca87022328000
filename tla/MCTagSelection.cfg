SPECIFICATION Spec
CONSTANTS
  Names <- MCNames
  Ignored <- MCIgnored
  Limit = 5
  PageSize = 2
  Private = TRUE
  Budget <- OneOfEach
  TagOf <- MCTagOf
  Shipped <- shipped
  Start = 20240115
  Exempt = FALSE
INVARIANTS NothingMissed ErrorHasCause WithinWindow NeverNewerMinor PatchableIsListed
PROPERTY NothingSkipped
