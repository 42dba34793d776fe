SPECIFICATION Spec
CONSTANTS
  m1 = m1
  s1 = s1
  NoServer = NoServer
  NoMachine = NoMachine
  Machines = {m1}
  Servers = {s1}
  Joining = {m1}
  Reports = {"other", "powered-on", "error"}
  Resyncs = FALSE
  MaxMishaps = 0
INVARIANTS NodeRefMeansProvider
