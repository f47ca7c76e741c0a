CONSTANTS
  Thread = {t1, t2, t3}
  Group = {g1, g2, g3}
  NoBin = NoBin
  NoGroup = NoGroup
  Locations = 2
  ReleaseTwice = FALSE
SPECIFICATION Spec
SYMMETRY Symmetry
CONSTRAINT Small
INVARIANTS
  MutualExclusion
  PublicListSound
  PublicGroupKnown
  LiveGroupOwned
  GroupsExclusive
  FreeGroupsFirst
PROPERTIES
  LastGroupRemovedOnce
