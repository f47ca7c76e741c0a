CONSTANTS
  Thread = {t1, t2}
  NoThread = NoThread
  Location = {l1, l2}
  nullptr = nullptr
  ACTION_COUNT = 2
SPECIFICATION Spec
INVARIANTS
  ForeignThreadsHandled
CHECK_DEADLOCK FALSE
