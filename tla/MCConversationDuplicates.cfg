CONSTANTS
  Tabs = {t1}
  Complaints = {upload, filters}
  Backend = "sqlite"
  TranscriptSize = 3
  FeedbackLimit = 5
  MaxExchanges = 2
  MaxTurns = 2
  MaxBatch = 2
  MaxOthers = 0
  MaxMishaps = 0
SPECIFICATION Spec
SYMMETRY MCSymmetry
INVARIANTS NoDuplicates
CHECK_DEADLOCK FALSE
