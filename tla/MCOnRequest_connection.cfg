CONSTANTS
    None = None
    Blank = Blank
    Malformed = Malformed
    Custom = Custom
    Stale = Stale
    Worker = {w1}
    w1 = w1
    Meeting <- AllMeetings
    Requests <- MCRequests
    MaxRequests <- MCMaxRequests
SPECIFICATION SpecOf
INVARIANTS TypeOK RequestWins EgressObeysPolicy ValidatedIsBuildable AcceptedPolicyServes ChosenOnce OnlyUsersServed CountedAsDeclared
CHECK_DEADLOCK FALSE
