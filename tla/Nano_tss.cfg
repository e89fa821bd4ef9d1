\* TS_Policy_Safe: the threaded benchmark with a slot that fires and destroys.
CONSTANTS
  t1 = t1
  t2 = t2
  s1 = s1
  s2 = s2
  f1 = f1
  f2 = f2
  k1 = k1
  k2 = k2
  k3 = k3
  u = u
  Policy = "TSS"
  Threads <- Two
  Signals = {s1}
  Foos = {f1, f2}
  Slots = {k1, k2, k3, u}
  Owner <- MCOwner
  Z <- MCZ
  TopCalls <- HostileTop
  SlotCalls <- HostileSlots
  MaxCalls = 3
SPECIFICATION FairSpec
INVARIANTS VisitedStays NoUseAfterFree
PROPERTIES CallsReturn ImplementsLifetime
