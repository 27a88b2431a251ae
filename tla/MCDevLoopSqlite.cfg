CONSTANTS
  Operators = {o1}
  Ticker = ticker
  Backend = "sqlite"
  LLM = TRUE
  Labels <- MCLabels
  Choices = {"accepted", "proposed"}
  FeedbackLimit = 1
  ChunkSize = 1
  MaxFeedback = 2
  MaxRuns = 2
  MaxCrashes = 1
  MaxDisconnects = 1
SPECIFICATION Spec
INVARIANTS TypeOK OneRegeneration ItemIdentity MechanicalRunTriagesAll
PROPERTIES TriagedWasConsumed KeepsThePromise
