SPECIFICATION Spec
CONSTANTS
  calico = calico
  flannel = flannel
  canal = canal
  calicoImage = calicoImage
  flannelImage = flannelImage
  None = None
  alice = alice
  bob = bob
  NoTag = None
  Components <- TwoComponents
  Charts = {canal}
  ChartOf <- MCChartOf
  Keys = {calicoImage, flannelImage}
  KeyOf <- MCKeyOf
  Matching <- TwoComponents
  Exempt = {}
  Tags <- MCTags
  MaxRelease = 2
  Bundled <- MCBundled
  ZeroDay <- MCZeroDay
  Published <- MCPublished
  Prime = {canal}
  Requested = {}
  MaxOther = 1
  Processes = {alice, bob}
  WorksOn <- BothWork
  UpdateAttempts = 2
  Budgets <- CLIMoves
INVARIANTS TypeOK NoUnrecordedPatch
PROPERTIES OtherValuesKept StoreIsAtomic
CHECK_DEADLOCK FALSE
