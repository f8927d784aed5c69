SPECIFICATION Spec
CONSTANTS
  t1 = t1
  t2 = t2
  t3 = t3
  t4 = t4
  Threads = {t1, t2, t3, t4}
  Concurrency = 2
  QueueCapacity = 2
  QueryReserve = 1
  MaxRequests = 4
SYMMETRY ThreadSymmetry
INVARIANTS
  FreeSlotIsTaken
