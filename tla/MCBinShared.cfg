CONSTANTS
  Thread = {t1, t2, t3}
  Group = {g1, g2}
  NoBin = NoBin
  NoGroup = NoGroup
  Locations = 2
  ReleaseTwice = TRUE
SPECIFICATION Spec
SYMMETRY Symmetry
INVARIANTS
  GroupsExclusive
