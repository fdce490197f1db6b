CONSTANTS
    None = None
    Blank = Blank
    Malformed = Malformed
    Custom = Custom
    Stale = Stale
    Worker = {w1}
    w1 = w1
    Meeting <- MatchMeetings
    Requests <- MCRequests
    MaxRequests <- MCMaxRequests
SPECIFICATION SpecOf
INVARIANTS MatchFitsOs
CHECK_DEADLOCK FALSE
