SPECIFICATION Spec
CONSTANTS
  Images = {i1}
  Faults = 1
INVARIANT StoreIntact
