CONSTANT Request = {r1, r2}
SPECIFICATION FairSpec
CHECK_DEADLOCK FALSE
INVARIANTS
  TypeOK
  ActiveCounts
  LeaseEndsWithRequest
  ExitSparesPlain
PROPERTIES
  DrainOnlyShrinks
  ShutdownEnds
  TimedRequestsReturn
