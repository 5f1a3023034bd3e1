CONSTANTS
  W = 8
  Keys <- MCKeys
  ReadKeys <- MCReadKeys
  Vals <- MCVals
  NodeIds <- MCNodeIds
  LeafIds <- MCLeafIds
  Readers <- MCReaders
  n1 = n1
  n2 = n2
  n3 = n3
  l1 = l1
  l2 = l2
  l3 = l3
  l4 = l4
  v1 = v1
  v2 = v2
  r1 = r1
  NULL = NULL
  DELETED_LIFE = 2
  MaxRemoves = 3
  IterRanges <- MCIterRanges
  Finders <- MCNoFinders
  FindArgs <- MCNoFindArgs
  f1 = f1
SPECIFICATION SafetySpec
SYMMETRY Symmetry
INVARIANTS
  TypeOK
  TreeWellFormed
  PoolOwnership
  DeleteFreesEachOnce
  GetReturnsCurrentValue
  IterFullRange
PROPERTIES
  RefinesMap
