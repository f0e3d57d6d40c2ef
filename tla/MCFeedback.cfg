SPECIFICATION FeedbackSpec
CONSTANTS
  Flags <- MCFlags
  NoFlags = NoFlags
  ChangeLimit = 2
  FailLimit = 1
  SubmitLimit = 2
INVARIANTS TellsTheConnection RunsIffWatched OneFeedbackPerSubmit
PROPERTIES MainReturns SubmitIsAnswered
CHECK_DEADLOCK FALSE
