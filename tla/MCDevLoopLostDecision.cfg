CONSTANTS
  Operators = {o1}
  Ticker = ticker
  Backend = "memory"
  LLM = FALSE
  Labels <- MCLabels
  Choices = {"accepted"}
  FeedbackLimit = 2
  ChunkSize = 1
  MaxFeedback = 1
  MaxRuns = 2
  MaxCrashes = 0
  MaxDisconnects = 0
SPECIFICATION Spec
PROPERTIES HumanDecisionsSurvive
