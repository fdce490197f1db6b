CONSTANTS
  Key = {k1}
  Client = {c1, c2}
  Proc = {p1, p2}
  Sweeper = sweeper
  Closer = closer
  MaxClients = 1
  Time <- MCNow
  IdleTtl <- MCStale
  None = none
  Building = building
SPECIFICATION FairSpec
PROPERTIES
  GetReturns
  RetiredIsClosed
