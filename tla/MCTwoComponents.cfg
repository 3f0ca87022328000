SPECIFICATION FairSpec
CONSTANTS
  calico = calico
  flannel = flannel
  canal = canal
  calicoImage = calicoImage
  flannelImage = flannelImage
  None = None
  NoTag = None
  Components <- TwoComponents
  Charts = {canal}
  ChartOf <- MCChartOf
  Keys = {calicoImage, flannelImage}
  KeyOf <- MCKeyOf
  Matching <- TwoComponents
  Exempt = {}
  Tags <- MCTags
  MaxRelease = 2
  Bundled <- MCBundled
  ZeroDay <- MCZeroDay
  Published <- MCPublished
  Prime = {canal}
  Requested <- OneTag
  MaxOther = 1
  Budgets <- TwoComponentsMoves
INVARIANTS Consistent OneReleasePatched
PROPERTIES OnlyOwnValuesWritten ImplementsLifecycle EventuallySettled
CHECK_DEADLOCK FALSE
