SPECIFICATION Spec
CONSTANTS
  NDispatch = 2
  Timeout = 2
  MaxRuns = 2
INVARIANT RecordTruth
INVARIANT MarkerHasRecord
INVARIANT ReportAgrees
PROPERTY JobRecorded
