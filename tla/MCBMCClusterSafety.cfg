SPECIFICATION Spec
CONSTANTS
  b1 = b1
  b2 = b2
  b3 = b3
  NoBlock = NoBlock
  Blocks = {b1, b2, b3}
  VIPManager = "NONE"
  Annotated = TRUE
  BaseOctet <- LastBlock
  Malformed = {b3}
  Resyncs = TRUE
  MaxMishaps = 1
SYMMETRY Symmetry
INVARIANTS TypeOK VersionsInv CleanInv OwedBound BlockLeakBound  EndpointMatchesBlock 
PROPERTIES EndpointKept
