\* One object, six visitors: enough for visits that overlap in any order.
CONSTANTS
  v1 = v1
  v2 = v2
  v3 = v3
  v4 = v4
  v5 = v5
  v6 = v6
  Visitors <- MCVisitors
SPECIFICATION FairSpec
INVARIANTS CountIsExact NobodyLeft
PROPERTIES ImplementsLifetime QuietDestructorReturns
CHECK_DEADLOCK FALSE
