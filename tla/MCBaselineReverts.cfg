SPECIFICATION FairSpec
CONSTANTS
  calico = calico
  flannel = flannel
  canal = canal
  calicoImage = calicoImage
  flannelImage = flannelImage
  None = None
  NoTag = None
  Components <- OneComponent
  Charts = {canal}
  ChartOf <- MCChartOf
  Keys = {calicoImage, flannelImage}
  KeyOf <- MCKeyOf
  Matching <- OneComponent
  Exempt = {}
  Tags <- MCTags
  MaxRelease = 2
  Bundled <- MCBundled
  ZeroDay <- MCZeroDay
  Published <- MCPublished
  Prime = {canal}
  Requested <- BaseAndPatch
  MaxOther = 1
  Budgets <- BaselineMoves
PROPERTY BaselineReverts
CHECK_DEADLOCK FALSE
