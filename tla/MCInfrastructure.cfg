SPECIFICATION FairSpec
CONSTANTS
  m1 = m1
  s1 = s1
  b1 = b1
  NoMachine = NoMachine
  NoServer = NoServer
  NoBlock = NoBlock
  Machines = {m1}
  ControlPlane = {m1}
  Servers = {s1}
  Blocks = {b1}
  BaseOctet <- LastBlock
  VIPManager = "NONE"
INVARIANTS SupplyInv  ServedBlockExists NothingLeft
PROPERTIES Composed 
