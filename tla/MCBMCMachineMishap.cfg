SPECIFICATION Spec
CONSTANTS
  m1 = m1
  s1 = s1
  s2 = s2
  NoServer = NoServer
  NoMachine = NoMachine
  Machines = {m1}
  Servers = {s1, s2}
  Joining = {}
  Reports = {"other", "powered-on"}
  Resyncs = FALSE
  MaxMishaps = 1
SYMMETRY Symmetry
INVARIANTS VersionsInv StatusInv OwedBound LeakBound  ServerHeldByFinalizer ProviderMatchesAnnotation
PROPERTIES DeprovisionOnlyDeleted FailureIsTerminal KeepsLedger
