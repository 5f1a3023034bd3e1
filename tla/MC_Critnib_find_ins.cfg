CONSTANTS
  W = 12
  Keys <- MCDeepKeys
  ReadKeys <- MCReadKeys
  Vals <- MCVals
  NodeIds <- MCDeepNodeIds
  LeafIds <- MCDeepLeafIds
  Readers <- MCNoReaders
  n1 = n1
  n2 = n2
  n3 = n3
  l1 = l1
  l2 = l2
  l3 = l3
  l4 = l4
  v1 = v1
  v2 = v2
  r1 = r1
  NULL = NULL
  DELETED_LIFE = 2
  MaxRemoves = 0
  IterRanges <- MCIterRanges
  Finders <- MCFinders
  FindArgs <- MCDeepArgs
  f1 = f1
SPECIFICATION SafetySpec
SYMMETRY DeepSymmetry
INVARIANTS
  FindReturnsCurrent
