CONSTANTS
    None = None
    Accepts = {}
    Bodies <- Openable
    Attempts = 2
    Overlapping = FALSE
    Calls <- KeepDirectiveCalls
    Answers <- MCAnswers
SPECIFICATION ExchangeSpec
INVARIANTS DirectivesStay
CHECK_DEADLOCK FALSE
