CONSTANTS
  Operators = {o1}
  Ticker = ticker
  Backend = "sqlite"
  LLM = TRUE
  Labels <- MCLabels
  Choices = {"accepted"}
  FeedbackLimit = 2
  ChunkSize = 20
  MaxFeedback = 2
  MaxRuns = 2
  MaxCrashes = 0
  MaxDisconnects = 0
SPECIFICATION Spec
PROPERTIES DecidedThemesStay
