CONSTANTS
  Operators = {o1}
  Ticker = ticker
  Backend = "memory"
  LLM = FALSE
  Labels <- MCLabels
  Choices = {"accepted", "proposed"}
  FeedbackLimit = 2
  ChunkSize = 1
  MaxFeedback = 2
  MaxRuns = 3
  MaxCrashes = 0
  MaxDisconnects = 1
SPECIFICATION FairSpec
INVARIANTS ItemIdentity
PROPERTIES RegenerationEnds FeedbackIsTriaged
