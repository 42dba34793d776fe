SPECIFICATION FairSpec
CONSTANTS
  b1 = b1
  NoBlock = NoBlock
  Blocks = {b1}
  VIPManager = "KUBEVIP"
  Annotated = TRUE
  BaseOctet <- LastBlock
  Malformed = {}
  Resyncs = FALSE
  MaxMishaps = 0
PROPERTIES CreateRetried
