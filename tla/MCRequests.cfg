CONSTANTS
  Thread = {t1, t2, t3}
  Requests <- MCRequests
  LocationSizes = {4048, 5397, 8096}
  Placements = {"location", "unused"}
  MaxReferences = 6
SPECIFICATION Spec
INVARIANTS
  Fits
  LocationsApart
  AddressKnown
  PiecesApart
  UsersCounted
  FreeGroupsListed
PROPERTIES
  BinsSeparate
CHECK_DEADLOCK FALSE
SYMMETRY Threads
