CONSTANTS
  Thread = {t1, t2, t3}
  NoThread = NoThread
  Locations = 4
  Bits = 5
  AllOnes = FALSE
  Wide = FALSE
SPECIFICATION Spec
SYMMETRY Symmetry
INVARIANTS
  LocationsExclusive
  FreeCounted
  LocationsKnown
  GivenBackUnused
