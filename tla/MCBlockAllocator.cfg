CONSTANTS
  Thread = {t1, t2, t3}
  Block = {b1, b2, b3}
  NoBlock = NoBlock
  Groups = 3
  CacheSize = 1
  ChecksList = TRUE
SPECIFICATION Spec
SYMMETRY Symmetry
INVARIANTS
  ListsSound
  GroupsConserved
  FreeGroupsKnown
  RemovalsSound
PROPERTIES
  CacheKept
