SPECIFICATION ScannerSpec
CONSTANTS
  coredns1 = coredns1
  coredns2 = coredns2
  NoImage = NoImage
  Images = {coredns1}
  Requests <- BatchOfOne
  Budget <- NoMoves
  list = list
  cve = cve
  Commands = {list, cve}
  ImageCount <- MCImageCount
  vexDownloadAttempts = 2
  LocalBudget <- OneLocalOfEach
INVARIANT ScannedMeansReported
CHECK_DEADLOCK FALSE
