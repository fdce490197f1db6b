CONSTANTS
    None = None
    Blank = Blank
    Malformed = Malformed
    Custom = Custom
    Stale = Stale
    Worker = {w1}
    w1 = w1
    Meeting <- CaptureMeetings
    Requests <- MCRequests
    MaxRequests <- MCMaxRequests
SPECIFICATION SpecOf
INVARIANTS CapturesStart
CHECK_DEADLOCK FALSE
