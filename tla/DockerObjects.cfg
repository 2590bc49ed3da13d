SPECIFICATION Spec
CONSTANTS
  n = n
  v = v
  i1 = i1
  i2 = i2
  ref = ref
  c1 = c1
  d1 = d1
  d2 = d2
  Network <- MCNetwork
  Volume <- MCVolume
  Image <- MCImage
  Ref <- MCRef
  Container <- MCContainer
  Dialog <- MCDialog
  None = None
  MaxChange = 1
SYMMETRY MCSymmetry
INVARIANTS
  OneOperation
PROPERTIES
  RemovedAsConfirmed
  PrunedAsConfirmed
CHECK_DEADLOCK FALSE
