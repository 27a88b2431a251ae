CONSTANTS
  Tabs = {t1}
  Complaints = {upload, filters}
  Backend = "sqlite"
  TranscriptSize = 2
  FeedbackLimit = 1
  MaxExchanges = 2
  MaxTurns = 1
  MaxBatch = 2
  MaxOthers = 1
  MaxMishaps = 1
SPECIFICATION FairSpec
INVARIANTS TypeOK DuplicatesWereOutOfSight
PROPERTIES AnswerIsKept MinedComplaintIsLogged
CHECK_DEADLOCK FALSE
