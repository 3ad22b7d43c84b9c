SPECIFICATION FairSpec
CONSTANTS
  m1 = m1
  m2 = m2
  a = a
  b = b
  c = c
  Junk = junk
  Rotten = rotten
  None = none
  Manifests <- TwoManifests
  Tags <- ThreeTags
  Want <- WantOf
  SizeOf <- UnitsOf
  N = 2
  Faults = 3
  Rots = TRUE
INVARIANTS ReadyIsVerified NeverIncomplete
PROPERTIES CopiesAreVerified Serves
