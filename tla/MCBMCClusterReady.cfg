SPECIFICATION FairSpec
CONSTANTS
  b1 = b1
  NoBlock = NoBlock
  Blocks = {b1}
  VIPManager = "NONE"
  Annotated = TRUE
  BaseOctet <- LastBlock
  Malformed = {}
  Resyncs = TRUE
  MaxMishaps = 0
PROPERTIES EventuallyReady
