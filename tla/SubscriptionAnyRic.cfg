SPECIFICATION Spec
CONSTANTS
  k0 = k0
  k1 = k1
  kpm = kpm
  rc = rc
  report = report
  insert = insert
  other = other
  Keys <- MCKeys
  DefaultKey = k0
  RanFunctions <- MCRanFunctions
  Candidates <- MCRanFunctions
  Supported <- MCSupported
  Actions <- MCActions
  ReportActions <- MCReportActions
  SupportedActions <- MCSupportedActions
  MaxCopies = 2
  UniqueRequestIds = FALSE
  OnlyAllowed = FALSE
INVARIANTS TypeOK SuspendedIsObserved
PROPERTY IndicationOnlyIfRegistered
CHECK_DEADLOCK FALSE
