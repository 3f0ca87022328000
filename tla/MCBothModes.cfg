SPECIFICATION SystemFairSpec
CONSTANTS
  calico = calico
  canal = canal
  calicoImage = calicoImage
  None = None
  alice = alice
  NoTag = None
  Components = {calico}
  Charts = {canal}
  ChartOf <- MCChartOf
  Keys = {calicoImage}
  KeyOf <- MCKeyOf
  Matching = {calico}
  Exempt = {}
  Tags <- MCTags
  MaxRelease = 2
  Bundled <- MCBundled
  ZeroDay <- MCZeroDay
  Published <- MCPublished
  Prime = {canal}
  Requested <- OneTag
  MaxOther = 0
  Processes = {alice}
  WorksOn <- MCWorksOn
  UpdateAttempts = 2
  Budgets <- BothMoves
INVARIANT OnlyRacesMixModes
PROPERTIES CommandsSpareManaged EventuallySettled
CHECK_DEADLOCK FALSE
