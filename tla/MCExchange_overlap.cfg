CONSTANTS
    None = None
    Accepts = {}
    Bodies <- Openable
    Attempts = 2
    Overlapping = TRUE
    Calls <- MCCalls
    Answers <- MCAnswers
SPECIFICATION ExchangeSpec
INVARIANTS WholeBodyOrNone
CHECK_DEADLOCK FALSE
