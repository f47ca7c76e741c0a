CONSTANTS
  Thread = {t1, t2}
  NoThread = NoThread
  Location = {l1, l2}
  nullptr = nullptr
  ACTION_COUNT = 4
SPECIFICATION Spec
INVARIANTS
  ObjectsOwned
  SlotsFree
PROPERTIES
  TestEnds
CHECK_DEADLOCK FALSE
