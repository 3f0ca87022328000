SPECIFICATION TreeSpec
CONSTANTS
  coredns = "c1"
  cache = "c2"
  scaler = "c3"
  t1 = "t1"
  t2 = "t2"
  theirs = "theirs"
  none = "{}"
  Root <- MCRoot
  Above <- MCAbove
  Components <- MCComponents
  Paths <- MCPaths
  Scalars <- MCScalars
  Empty = "{}"
  Tags <- MCTags
  Repository <- MCRepository
  Images <- MCImages
  Defaults <- MCDefaults
  UserPaths <- MCUserPaths
  UserValues <- MCUserValues
  MaxEdits = 2
INVARIANTS TypeOK OtherValuesIntact OwnersApart RevertRestores
PROPERTIES ImplementsValues NothingOverwritten
CHECK_DEADLOCK FALSE
