SPECIFICATION ScannerFairSpec
CONSTANTS
  coredns1 = coredns1
  coredns2 = coredns2
  NoImage = NoImage
  Images = {coredns1, coredns2}
  Requests <- OneOrTwo
  Budget <- OneOfEach
  list = list
  cve = cve
  Commands = {list, cve}
  ImageCount <- MCImageCount
  vexDownloadAttempts = 2
  LocalBudget <- OneLocalOfEach
INVARIANTS ReportsAreTrue ScannedMeansReported JobIsDeleted ReportIsWhole OldOnlyAfterFailures OldIsBetterThanNone
PROPERTIES EventuallyDone LocalScansEnd
CHECK_DEADLOCK FALSE
