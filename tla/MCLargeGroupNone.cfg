CONSTANTS
  Thread = {t1, t2}
  NoThread = NoThread
  Locations = 3
  Bits = 4
  AllOnes = TRUE
  Wide = FALSE
SPECIFICATION Spec
SYMMETRY Symmetry
INVARIANTS
  LocationsExclusive
