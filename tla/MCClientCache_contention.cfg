CONSTANTS
  Key = {k1, k2}
  Client = {c1, c2, c3, c4}
  Proc = {p1, p2, p3}
  Sweeper = sweeper
  Closer = closer
  MaxClients = 1
  Time <- MCNow
  IdleTtl <- MCStale
  None = none
  Building = building
SYMMETRY Symmetry
SPECIFICATION Spec
INVARIANTS
  TypeOK
  Capacity
  SingleFlight
  InflightCounts
  NoLeak
  GaugeAccounts
PROPERTIES
  SweepSparesLessees
  ImplementsPool
