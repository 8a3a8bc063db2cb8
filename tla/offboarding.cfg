SPECIFICATION OffSpec
CONSTANTS
  ann = ann  p1 = p1  p2 = p2
  Nothing = Nothing
  Seats = {1}
  Protected = {1}
  Procs = {p1, p2}
  Ids <- Decided
  Recs <- Recommended
  Unsupported = {"cannot"}
  Attestable = {}
  Humans = {ann}
  MaxChanges = 3
  MaxScans = 2
INVARIANTS OffTypeOK ExecutedIsRemoved CompleteIsJudged
PROPERTIES RemovedOnConsent
SYMMETRY Alike
CHECK_DEADLOCK FALSE
