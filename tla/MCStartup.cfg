CONSTANTS
  Thread = {t1, t2, t3}
  Context = {c1, c2}
  NoContext = NoContext
  Slot = {0, 1}
  NoSlot = NoSlot
  Foreign = {}
  Other = Other
  NoThread = NoThread
  MaxCleaners = 2
SPECIFICATION StartupSpec
INVARIANTS
  OneContextEach
  OneCleaner
PROPERTIES
  CallsEnd
