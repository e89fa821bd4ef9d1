\* Nano::Spin_Mutex: six threads, so that a waiter can be overtaken twice.
CONSTANTS
  t1 = t1
  t2 = t2
  t3 = t3
  t4 = t4
  t5 = t5
  t6 = t6
  Threads <- MCThreads
  TestFirst = TRUE
SPECIFICATION FairSpec
INVARIANTS MutualExclusion NoOrphanedFlag
PROPERTIES ImplementsLock SomebodyEnters
