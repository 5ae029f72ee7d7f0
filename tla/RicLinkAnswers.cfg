SPECIFICATION LinkSpec
CONSTANTS
  k0 = k0
  k1 = k1
  kpm = kpm
  rc = rc
  report = report
  insert = insert
  Keys <- MCKeys
  DefaultKey = k0
  RanFunctions <- MCRanFunctions
  Candidates <- MCRanFunctions
  Supported <- MCSupported
  Actions <- MCActions
  ReportActions <- MCReportActions
  SupportedActions <- MCActions
  MaxCopies = 2
  UniqueRequestIds = TRUE
  OnlyAllowed = TRUE
  MaxInFlight = 1
PROPERTY RequestIsAnswered
CHECK_DEADLOCK FALSE
