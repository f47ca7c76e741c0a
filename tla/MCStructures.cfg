CONSTANTS
  Node = {b1, b2, b3}
  NoNode = NoNode
  NodeData = {0, 1}
  MaxObjectNumber = 4
  BitmapSize = 5
  CacheSize = 1
  Thread = {t1, t2, t3}
  Halves = {{0}, {32}}
SPECIFICATION StructuresSpec
SYMMETRY Symmetry
INVARIANTS
  PoolAccounted
PROPERTIES
  ReturnMakesUsable
  ImplementsNodeList
  DataKept
  WordAtomic
