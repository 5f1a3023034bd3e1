CONSTANTS
  W = 8
  Keys <- MCPairKeys
  ReadKeys <- MCReadKeys
  Vals <- MCVals
  NodeIds <- MCOneNode
  LeafIds <- MCLeafIds
  Readers <- MCNoReaders
  n1 = n1
  n2 = n2
  n3 = n3
  l1 = l1
  l2 = l2
  l3 = l3
  l4 = l4
  v1 = v1
  v2 = v2
  r1 = r1
  NULL = NULL
  DELETED_LIFE = 1
  MaxRemoves = 3
  IterRanges <- MCIterRanges
  Finders <- MCFinders
  FindArgs <- MCFindArgsRm
  f1 = f1
SPECIFICATION SafetySpec
SYMMETRY Symmetry
INVARIANTS
  PoolOwnership
  FindReportsBinding
PROPERTIES
  RefinesMap
