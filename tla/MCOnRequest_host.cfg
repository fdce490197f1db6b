CONSTANTS
    None = None
    Blank = Blank
    Malformed = Malformed
    Custom = Custom
    Stale = Stale
    Worker = {w1}
    w1 = w1
    Meeting <- SchemeMeetings
    Requests <- MCRequests
    MaxRequests <- MCMaxRequests
SPECIFICATION SpecOf
INVARIANTS UpgradeKeepsHost
CHECK_DEADLOCK FALSE
