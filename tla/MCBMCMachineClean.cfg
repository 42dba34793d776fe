SPECIFICATION Spec
CONSTANTS
  m1 = m1
  s1 = s1
  s2 = s2
  NoServer = NoServer
  NoMachine = NoMachine
  Machines = {m1}
  Servers = {s1, s2}
  Joining = {m1}
  Reports = {"other", "powered-on", "error"}
  Resyncs = TRUE
  MaxMishaps = 0
SYMMETRY Symmetry
INVARIANTS TypeOK CleanInv  ReadyMeansPoweredOn NodeMatchesProvider
PROPERTIES IdentityKept
