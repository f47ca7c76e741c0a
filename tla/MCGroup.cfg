CONSTANTS
  Thread = {t1, t2, t3}
  NoThread = NoThread
  LIST_END = LIST_END
  Data = Data
  Locations = 3
SPECIFICATION FairSpec
INVARIANTS
  LocationsConserved
  ListsProper
  UsedCounted
  GivenBackUnreferenced
PROPERTIES
  ImplementsPool
  LoopsProgress
