CONSTANTS
  Processes = {p1}
  Threads = {t1, t2}
  Limit = 2
  Window = 3
  LastTime = 6
SPECIFICATION Spec
SYMMETRY WorkerSymmetry
INVARIANTS LimitPerProcess RefusalFollowsService
CHECK_DEADLOCK FALSE
