CONSTANTS
    None = None
    Blank = Blank
    Malformed = Malformed
    Custom = Custom
    Stale = Stale
    Worker = {w1, w2}
    w1 = w1
    w2 = w2
    Meeting <- FewMeetings
    Requests <- MCRequests
    MaxRequests <- MCMaxRequests
SPECIFICATION SpecOf
INVARIANTS ChosenOnce
CHECK_DEADLOCK FALSE
