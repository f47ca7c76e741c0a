CONSTANTS
  Thread = {t1, t2}
  Block = {b1, b2, b3}
  NoBlock = NoBlock
  Groups = 2
  CacheSize = 1
  ChecksList = FALSE
SPECIFICATION Spec
SYMMETRY Symmetry
INVARIANTS
  RemovalsSound
