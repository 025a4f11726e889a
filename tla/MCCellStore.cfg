\* The system partition.
CONSTANTS
  tt = tt
  pa = pa
  v1 = v1
  v2 = v2
  Index <- MCIndex
  Tri = tt
  Value <- MCValue
  None = None
  Torn = Torn
  Slots = 3
SPECIFICATION Spec
INVARIANTS TypeOK Fits TritupleKept
PROPERTY ActsAsStore
SYMMETRY Symmetry
