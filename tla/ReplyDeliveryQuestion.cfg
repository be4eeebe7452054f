CONSTANTS
    MaxTurns = 1
    MaxTexts = 1
    Kinds = {"question"}
    SendsFail = TRUE
    Hooks = FALSE
    Closes = FALSE
    Crashes = FALSE
SPECIFICATION Spec
CHECK_DEADLOCK FALSE
INVARIANT QuestionSentOnce
