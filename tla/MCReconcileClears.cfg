SPECIFICATION FairSpec
CONSTANTS
  calico = calico
  flannel = flannel
  canal = canal
  calicoImage = calicoImage
  flannelImage = flannelImage
  None = None
  alice = alice
  bob = bob
  NoTag = None
  Components <- OneComponent
  Charts = {canal}
  ChartOf <- MCChartOf
  Keys = {calicoImage, flannelImage}
  KeyOf <- MCKeyOf
  Matching <- OneComponent
  Exempt = {}
  Tags <- MCTags
  MaxRelease = 2
  Bundled <- MCBundled
  ZeroDay <- MCZeroDay
  Published <- MCPublished
  Prime = {canal}
  Requested <- OneTag
  MaxOther = 1
  Processes = {alice}
  WorksOn <- AliceWorks
  UpdateAttempts = 2
  Budgets <- StaleMoves
PROPERTY ReconcileClears
CHECK_DEADLOCK FALSE
