\* ST_Policy, one thread, the whole interface, slots that do not call back.
CONSTANTS
  t1 = t1
  t2 = t2
  s1 = s1
  s2 = s2
  f1 = f1
  f2 = f2
  k1 = k1
  k2 = k2
  k3 = k3
  u = u
  Policy = "ST"
  Threads = {t1}
  Signals = {s1, s2}
  Foos = {f1, f2}
  Slots = {k1, k2, k3, u}
  Owner <- MCOwner
  Z <- MCZ
  TopCalls <- WholeInterface
  SlotCalls <- Silent
  MaxCalls = 5
SPECIFICATION Spec
INVARIANTS TypeOK Sorted NoUseAfterFree Mirrored
