CONSTANTS
    None = None
    Accepts = {}
    Bodies <- Openable
    Attempts = 2
    Overlapping = FALSE
    Calls <- MCCalls
    Answers <- MCAnswers
SPECIFICATION ExchangeSpec
INVARIANTS BodyFitsLabel OfferedIsKept UnofferedIsDecoded HeadersArrive KeepGetsBytes WholeBodyOrNone
CHECK_DEADLOCK FALSE
