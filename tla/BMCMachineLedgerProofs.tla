----------------------- MODULE BMCMachineLedgerProofs -----------------------
(***************************************************************************)
(* A mishap costs the BMCMachine controller at most one server, and the    *)
(* controller implements ServerLedger, for any number of machines, servers *)
(* and mishaps. Nothing is assumed of how many servers BMC has.            *)
(***************************************************************************)
EXTENDS BMCMachineLedger, BMCMachineCleanProofs, FiniteSetTheorems

-----------------------------------------------------------------------------
(* What a step does to what is owed: nothing is added; one more is owed for*)
(* a mishap; or something that was owed is exchanged for something else.   *)

Charged == mishaps' = mishaps + 1 /\ \E y : Owed' \subseteq Owed \cup {y}

Traded == \E x \in Owed : \E y : Owed' \subseteq (Owed \ {x}) \cup {y}

OwedStep == Owed' \subseteq Owed \/ Charged \/ Traded

LEMMA InOwed ==
  /\ \A s \in Leaked : <<"server", s>> \in Owed
  /\ \A m \in Machines : Endangered(m) => <<"machine", m>> \in Owed
  /\ OrderAstray => <<"order", wk.m>> \in Owed
BY DEF Owed

LEMMA OwedWithin ==
  ASSUME NEW X,
         \A s \in Leaked' : <<"server", s>> \in X,
         \A m \in Machines : Endangered(m)' => <<"machine", m>> \in X,
         OrderAstray' => <<"order", wk'.m>> \in X
  PROVE  Owed' \subseteq X
BY DEF Owed

LEMMA OwedKept ==
  ASSUME Leaked' \subseteq Leaked,
         \A m \in Machines : Endangered(m)' => Endangered(m),
         OrderAstray' => OrderAstray /\ wk'.m = wk.m
  PROVE  OwedStep
BY InOwed, OwedWithin DEF OwedStep

LEMMA OwedCharged ==
  ASSUME mishaps' = mishaps + 1, NEW s, NEW n,
         \/ /\ Leaked' \subseteq Leaked \cup {s}
            /\ \A m \in Machines : Endangered(m)' => Endangered(m)
            /\ OrderAstray' => OrderAstray /\ wk'.m = wk.m
         \/ /\ Leaked' \subseteq Leaked
            /\ \A m \in Machines : Endangered(m)' => Endangered(m) \/ m = n
            /\ OrderAstray' => OrderAstray /\ wk'.m = wk.m
         \/ /\ Leaked' \subseteq Leaked
            /\ \A m \in Machines : Endangered(m)' => Endangered(m)
            /\ OrderAstray' => wk'.m = n
  PROVE  OwedStep
<1>1. ASSUME NEW y,
             \A r \in Leaked' : r \in Leaked \/ <<"server", r>> = y,
             \A m \in Machines :
               Endangered(m)' => Endangered(m) \/ <<"machine", m>> = y,
             OrderAstray' => (OrderAstray /\ wk'.m = wk.m) \/ <<"order", wk'.m>> = y
      PROVE  OwedStep
  <2>. DEFINE X == Owed \cup {y}
  <2>1. /\ \A r \in Leaked' : <<"server", r>> \in X
        /\ \A m \in Machines : Endangered(m)' => <<"machine", m>> \in X
        /\ OrderAstray' => <<"order", wk'.m>> \in X
    BY <1>1, InOwed
  <2>. HIDE DEF X
  <2>2. Owed' \subseteq X
    BY <2>1, OwedWithin
  <2>. QED  BY <2>2 DEF OwedStep, Charged, X
<1>2. PICK y : \/ /\ y = <<"server", s>>
                  /\ Leaked' \subseteq Leaked \cup {s}
                  /\ \A m \in Machines : Endangered(m)' => Endangered(m)
                  /\ OrderAstray' => OrderAstray /\ wk'.m = wk.m
               \/ /\ y = <<"machine", n>>
                  /\ Leaked' \subseteq Leaked
                  /\ \A m \in Machines : Endangered(m)' => Endangered(m) \/ m = n
                  /\ OrderAstray' => OrderAstray /\ wk'.m = wk.m
               \/ /\ y = <<"order", n>>
                  /\ Leaked' \subseteq Leaked
                  /\ \A m \in Machines : Endangered(m)' => Endangered(m)
                  /\ OrderAstray' => wk'.m = n
  OBVIOUS
<1>. QED  BY <1>1, <1>2

LEMMA OwedTraded ==
  ASSUME NEW x \in Owed, NEW y,
         \A s \in Leaked' :
           (s \in Leaked /\ <<"server", s>> # x) \/ <<"server", s>> = y,
         \A m \in Machines : Endangered(m)' =>
           (Endangered(m) /\ <<"machine", m>> # x) \/ <<"machine", m>> = y,
         OrderAstray' => OrderAstray /\ wk'.m = wk.m /\ <<"order", wk.m>> # x
  PROVE  OwedStep
<1>. DEFINE X == (Owed \ {x}) \cup {y}
<1>1. /\ \A s \in Leaked' : <<"server", s>> \in X
      /\ \A m \in Machines : Endangered(m)' => <<"machine", m>> \in X
      /\ OrderAstray' => <<"order", wk'.m>> \in X
  BY InOwed
<1>. HIDE DEF X
<1>2. Owed' \subseteq X
  BY <1>1, OwedWithin
<1>. QED  BY <1>2 DEF OwedStep, Traded, X

LEMMA ReconcileOwed ==
  ASSUME TypeInv, StatusInv, NEW m \in Machines, NEW g, ReconcileAt(m, g)
  PROVE  OwedStep
<1>. mishaps \in Nat
  BY DEF TypeInv, TypeOK
<1>1. wk.pc = "idle" /\ UNCHANGED <<api, cache, bmc>>
  BY ReconcileEffect
<1>2. Leaked' = Leaked
  BY <1>1, ReconcileEffect DEF Leaked, Running, Tracked, InFlight, SameIDs
<1>3. CASE UNCHANGED wk
  <2>1. \A n \in Machines : Endangered(n)' => Endangered(n)
    BY <1>1, <1>3 DEF Endangered, Misleading, Discarding, Running
  <2>2. ~OrderAstray'
    BY <1>1, <1>3 DEF OrderAstray, Ordering
  <2>. QED  BY <1>2, <2>1, <2>2, OwedKept
<1>4. CASE /\ wk'.m = m /\ wk'.base = cache[m]
           /\ SameIDs(wk'.obj, cache[m]) /\ SameReport(wk'.obj, cache[m])
           /\ Decided(m)
  <2>1. ASSUME NEW n \in Machines, Endangered(n)', ~Endangered(n)
        PROVE  n = m /\ Discarding(m)'
    BY <1>1, <1>4, <2>1
       DEF Endangered, Misleading, Discarding, Running, SameIDs, SameReport
  <2>2. CASE mishaps' = mishaps + 1
    <3>1. CASE wk'.pc = "create"
      <4>1. \A n \in Machines : Endangered(n)' => Endangered(n)
        BY <2>1, <3>1 DEF Discarding
      <4>. QED  BY <1>2, <2>2, <4>1, OwedCharged
    <3>2. CASE wk'.pc # "create"
      <4>1. ~OrderAstray'
        BY <1>4, <3>2 DEF OrderAstray, Ordering, SameIDs
      <4>. QED  BY <1>2, <2>1, <2>2, <4>1, OwedCharged
    <3>. QED  BY <3>1, <3>2
  <2>3. CASE mishaps' # mishaps + 1
    <3>1. ~OrderAstray'
      BY <1>1, <1>4, <2>3
         DEF OrderAstray, Ordering, SameIDs, Decided, MishapIf, Mishap, StaleID
    <3>2. ASSUME NEW n \in Machines, Endangered(n)', ~Endangered(n) PROVE FALSE
      <4>1. n = m /\ Discarding(m)' /\ api[m].live /\ api[m].id # NoServer
            /\ Running(api[m].id)
        BY <1>1, <2>1, <3>2 DEF Endangered, Running
      <4>2. cache[m].id = api[m].id /\ cache[m].st = "orphaned"
        BY <1>1, <1>4, <2>3, <4>1
           DEF Discarding, Decided, MishapIf, Mishap, StaleID, SameIDs
      <4>. QED  BY <3>2, <4>1, <4>2 DEF Endangered, Misleading
    <3>. QED  BY <1>2, <3>1, <3>2, OwedKept
  <2>. QED  BY <2>2, <2>3
<1>. QED  BY <1>3, <1>4, ReconcileEffect
LEMMA ExchangeOwed ==
  ASSUME TypeInv, VersionsInv, StatusInv, Exchange
  PROVE  OwedStep
<1>. mishaps \in Nat /\ bmc \in [Servers -> Server]
  BY DEF TypeInv, TypeOK
<1>1. /\ wk.pc \in {"create", "sync", "delete"} /\ UNCHANGED <<api, cache>>
      /\ wk'.pc = "patchMeta" /\ wk'.m = wk.m /\ wk'.base = wk.base
      /\ wk.m \in Machines /\ WorkerVersions
  BY ExchangeEffect DEF TypeInv, WorkerBusy, VersionsInv
<1>2. /\ SameIDs(wk.obj, wk.base)
      /\ wk.pc = "create" => wk.obj.id = NoServer
      /\ wk.pc \in {"create", "sync"} => wk.obj.fini
      /\ wk.pc \in {"sync", "delete"} => wk.obj.id \in Servers
  BY <1>1 DEF WorkerVersions, TypeInv, WorkerBusy
<1>3. ~\E s \in Servers : InFlight(s)
  BY <1>1 DEF InFlight
<1>4. \A m \in Machines :
        /\ ValidVersion(m, api[m], bmc) /\ ValidVersion(m, cache[m], bmc)
        /\ api[m].id \in ServerID /\ cache[m].id \in ServerID
  BY DEF VersionsInv, TypeInv, TypeOK, Object
<1>5. ValidVersion(wk.m, wk.base, bmc) /\ wk.base.id \in ServerID
  BY <1>1 DEF WorkerVersions, TypeInv, TypeOK, Worker, Object
<1>6. ASSUME NEW s \in Servers, ServerOrdered(s)
      PROVE  \A m \in Machines : Endangered(m)' => Endangered(m)
  <2>1. /\ wk.pc = "create" /\ bmc[s].st = "unborn"
        /\ \A r \in Servers : r # s => bmc'[r] = bmc[r]
        /\ wk'.obj.fini
        /\ wk'.obj.st # "orphaned" \/ wk'.obj.st = wk.obj.st
    BY <1>2, <1>6 DEF ServerOrdered
  <2>2. ASSUME NEW m \in Machines
        PROVE  /\ api[m].id # NoServer => Running(api[m].id)' = Running(api[m].id)
               /\ Misleading(m, cache[m])' => Misleading(m, cache[m])
               /\ Misleading(m, api[m])' => Misleading(m, api[m])
               /\ m = wk.m /\ Misleading(m, wk.base)' => Misleading(m, wk.base)
    BY <1>1, <1>4, <1>5, <2>1 DEF ValidVersion, Misleading, Running, ServerID
  <2>. QED  BY <1>1, <2>1, <2>2 DEF Endangered, Discarding
<1>7. ASSUME NEW s \in Servers, Recorded(s) PROVE OwedStep
  <2>1. ServerOrdered(s) /\ wk.pc = "create" /\ wk'.obj.id = s
    BY <1>7 DEF Recorded, ServerOrdered
  <2>2. s # NoServer /\ wk.base.id = NoServer
    BY <1>2, <2>1, NoServerAssumption DEF SameIDs
  <2>3. Leaked' \subseteq Leaked
    BY <1>1, <1>3, <2>1, <2>2 DEF Leaked, Tracked, InFlight, Running, ServerOrdered
  <2>4. OrderAstray' => OrderAstray /\ wk'.m = wk.m
    BY <1>1, <2>1 DEF OrderAstray, Ordering
  <2>. QED  BY <1>6, <2>1, <2>3, <2>4, OwedKept
<1>8. ASSUME NEW s \in Servers, Forgotten(s) PROVE OwedStep
  <2>1. /\ ServerOrdered(s) /\ wk'.obj.id = wk'.base.id
        /\ mishaps' = mishaps + 1
    BY <1>1, <1>2, <1>8 DEF Forgotten, Mishap, SameIDs
  <2>2. Leaked' \subseteq Leaked \cup {s}
    BY <1>1, <1>3, <2>1 DEF Leaked, Tracked, InFlight, Running, ServerOrdered
  <2>3. ~OrderAstray'
    BY <1>1, <2>1 DEF OrderAstray, Ordering
  <2>. QED  BY <1>6, <2>1, <2>2, <2>3, OwedCharged
<1>9. CASE Answered
  <2>1. /\ UNCHANGED bmc /\ SameIDs(wk'.obj, wk.obj) /\ wk'.obj.fini = wk.obj.fini
    BY <1>9 DEF Answered
  <2>2. Leaked' \subseteq Leaked /\ ~OrderAstray'
    BY <1>1, <1>2, <1>3, <2>1
       DEF Leaked, Tracked, InFlight, Running, OrderAstray, Ordering, SameIDs
  <2>3. ASSUME NEW m \in Machines, Endangered(m)', ~Endangered(m)
        PROVE  m = wk.m /\ mishaps' = mishaps + 1
    <3>1. /\ m = wk.m /\ api[m].live /\ api[m].id # NoServer /\ Running(api[m].id)
          /\ ~Misleading(m, wk.base) /\ wk.obj.st # "orphaned" /\ ~Discarding(m)
          /\ wk'.obj.st = "orphaned" \/ Discarding(m)'
      BY <1>1, <2>1, <2>3 DEF Endangered, Misleading, Running
    <3>2. CASE wk'.obj.st = "orphaned"
      <4>1. wk.pc \in {"sync", "delete"} /\ MishapIf(Running(wk.obj.id))
        BY <1>9, <3>1, <3>2 DEF Answered
      <4>2. wk.base.id = wk.obj.id /\ wk.obj.id # NoServer
        BY <1>2, <4>1, NoServerAssumption DEF SameIDs
      <4>3. Running(wk.obj.id)
        BY <3>1, <4>2 DEF Misleading
      <4>. QED  BY <3>1, <4>1, <4>3 DEF MishapIf, Mishap
    <3>3. CASE Discarding(m)'
      <4>1. wk.pc = "delete" /\ wk.obj.id = api[m].id
        BY <1>1, <1>2, <2>1, <3>1, <3>3 DEF Discarding
      <4>. QED  BY <1>9, <3>1, <4>1 DEF Answered, MishapIf, Mishap
    <3>. QED  BY <3>1, <3>2, <3>3
  <2>4. CASE mishaps' = mishaps + 1
    BY <2>2, <2>3, <2>4, OwedCharged
  <2>5. CASE mishaps' # mishaps + 1
    BY <2>2, <2>3, <2>5, OwedKept
  <2>. QED  BY <2>4, <2>5
<1>10. CASE Ended
  <2>. DEFINE s == wk.obj.id
  <2>1. /\ wk.pc = "delete" /\ wk'.obj = wk.obj /\ s \in Servers /\ s # NoServer
        /\ \A r \in Servers : r # s => bmc'[r] = bmc[r]
        /\ \A r \in Servers : Running(r)' => Running(r) /\ r # s
        /\ bmc[s].owner = wk.m
    <3>1. wk.pc = "delete" /\ wk'.obj = wk.obj /\ s \in Servers /\ s # NoServer
      BY <1>2, <1>10, NoServerAssumption DEF Ended
    <3>2. bmc[s].owner = wk.m
      BY <1>1, <3>1 DEF WorkerVersions, ValidVersion
    <3>. QED  BY <1>10, <3>1, <3>2 DEF Ended, Running, Server, ReportedStatus
  <2>. HIDE DEF s
  <2>2. Leaked' \subseteq Leaked /\ ~OrderAstray'
    BY <1>1, <1>2, <1>3, <2>1
       DEF Leaked, Tracked, InFlight, OrderAstray, Ordering, SameIDs
  <2>3. ASSUME NEW m \in Machines, Endangered(m)' PROVE Endangered(m)
    <3>1. api[m].live /\ api[m].id # NoServer /\ Running(api[m].id) /\ api[m].id # s
      BY <1>1, <1>4, <2>1, <2>3 DEF Endangered, ServerID
    <3>2. CASE m = wk.m
      <4>1. Discarding(m)
        BY <2>1, <3>1, <3>2 DEF Discarding, s
      <4>. QED  BY <2>1, <3>1, <3>2, <4>1 DEF Endangered
    <3>3. CASE m # wk.m
      <4>1. cache[m].id # NoServer => cache[m].id # s
        BY <1>4, <2>1, <3>3 DEF ValidVersion
      <4>. QED
        BY <1>1, <1>4, <2>1, <2>3, <3>1, <3>3, <4>1
           DEF Endangered, Misleading, ServerID, Running
    <3>. QED  BY <3>2, <3>3
  <2>. QED  BY <2>2, <2>3, OwedKept
<1>. QED  BY <1>7, <1>8, <1>9, <1>10, ExchangeEffect

(* The patch of metadata and spec. It pays for an order gone astray, and   *)
(* for a finalizer removed too early, with the server it takes off record. *)
LEMMA PatchMetaOwed ==
  ASSUME TypeInv, VersionsInv, StatusInv, FreshOrder, PatchMeta
  PROVE  OwedStep
<1>1. PICK m \in Machines :
      /\ m = wk.m /\ wk.pc = "patchMeta" /\ WorkerVersions
      /\ wk'.pc = "patchStatus"
      /\ wk'.m = m /\ wk'.base = wk.base /\ wk'.obj = wk.obj
      /\ UNCHANGED <<cache, bmc, node, mishaps>>
      /\ \A n \in Machines : n # m => api'[n] = api[n]
      /\ IF api[m].live THEN MetaMerged(api[m], wk.base, wk.obj, api'[m])
                        ELSE api'[m] = api[m]
  BY PatchMetaEffect
<1>2. /\ Ordering <=> wk.obj.id # wk.base.id
      /\ wk.obj.id # wk.base.id =>
           wk.base.id = NoServer /\ wk.obj.id # NoServer /\ wk.obj.fini
  BY <1>1 DEF Ordering, WorkerVersions, Changes, SameIDs
<1>3. ~OrderAstray'
  BY <1>1 DEF OrderAstray, Ordering
<1>4. \A n \in Machines : n # m /\ Endangered(n)' => Endangered(n)
  BY <1>1 DEF Endangered, Misleading, Running
<1>5. /\ api[m].id \in ServerID /\ wk.obj.id \in ServerID
  BY <1>1 DEF TypeInv, TypeOK, Worker, Object
(* A server that gets lost was recorded for the worker's machine, or it is *)
(* the one that the worker was to record.                                  *)
<1>6. ASSUME NEW s \in Leaked', s \notin Leaked
      PROVE  /\ Running(s)
             /\ \/ api[m].live /\ s = api[m].id /\ ~(api'[m].live /\ api'[m].id = s)
                \/ /\ s = wk.obj.id /\ wk.obj.id # wk.base.id
                   /\ ~(api'[m].live /\ api'[m].id = s)
  BY <1>1, <1>6 DEF Leaked, Tracked, InFlight, Running
<1>7. CASE ~api[m].live
  <2>1. \A n \in Machines : Endangered(n)' => Endangered(n)
    BY <1>1, <1>4, <1>7 DEF Endangered
  <2>2. CASE wk.obj.id = wk.base.id
    <3>1. Leaked' \subseteq Leaked
      BY <1>6, <1>7, <2>2
    <3>. QED  BY <1>3, <2>1, <3>1, OwedKept
  <2>3. CASE wk.obj.id # wk.base.id
    <3>. DEFINE x == <<"order", m>>
                y == <<"server", wk.obj.id>>
    <3>1. x \in Owed
      BY <1>1, <1>2, <1>7, <2>3, InOwed DEF OrderAstray
    <3>2. /\ \A s \in Leaked' :
               (s \in Leaked /\ <<"server", s>> # x) \/ <<"server", s>> = y
          /\ \A n \in Machines : Endangered(n)' =>
               (Endangered(n) /\ <<"machine", n>> # x) \/ <<"machine", n>> = y
      BY <1>6, <1>7, <2>1
    <3>. HIDE DEF x, y
    <3>. QED  BY <1>3, <3>1, <3>2, OwedTraded
  <2>. QED  BY <2>2, <2>3
<1>8. CASE /\ api[m].live /\ api'[m] = NotFound
           /\ wk.base.fini /\ ~wk.obj.fini /\ api[m].deleting
  <2>1. ~api'[m].live /\ wk.obj.id = wk.base.id
    BY <1>2, <1>8, FreshObject
  <2>2. \A n \in Machines : Endangered(n)' => Endangered(n) /\ n # m
    BY <1>4, <2>1 DEF Endangered
  <2>3. CASE api[m].id # NoServer /\ Running(api[m].id)
    <3>. DEFINE x == <<"machine", m>>
                y == <<"server", api[m].id>>
    <3>1. x \in Owed
      BY <1>1, <1>8, <2>3, InOwed DEF Endangered, Discarding
    <3>2. /\ \A s \in Leaked' :
               (s \in Leaked /\ <<"server", s>> # x) \/ <<"server", s>> = y
          /\ \A n \in Machines : Endangered(n)' =>
               (Endangered(n) /\ <<"machine", n>> # x) \/ <<"machine", n>> = y
      BY <1>6, <2>1, <2>2
    <3>. HIDE DEF x, y
    <3>. QED  BY <1>3, <3>1, <3>2, OwedTraded
  <2>4. CASE ~(api[m].id # NoServer /\ Running(api[m].id))
    <3>1. Leaked' \subseteq Leaked
      BY <1>6, <2>1, <2>4, NoServerAssumption DEF Leaked
    <3>. QED  BY <1>3, <2>2, <3>1, OwedKept
  <2>. QED  BY <2>3, <2>4
<1>9. CASE /\ api[m].live /\ api'[m].live /\ SameReport(api'[m], api[m])
           /\ wk.obj.id = wk.base.id /\ api'[m].id = api[m].id
  <2>1. Leaked' \subseteq Leaked
    BY <1>6, <1>9
  <2>2. \A n \in Machines : Endangered(n)' => Endangered(n)
    BY <1>1, <1>4, <1>9 DEF Endangered, Misleading, Discarding, Running, SameReport
  <2>. QED  BY <1>3, <2>1, <2>2, OwedKept
<1>10. CASE /\ api[m].live /\ api'[m].live /\ SameReport(api'[m], api[m])
            /\ wk.base.id = NoServer /\ wk.obj.id # NoServer
            /\ api'[m].id = wk.obj.id
  <2>1. /\ api[m].id # wk.obj.id /\ Ordering
        /\ wk.base.st # "orphaned" /\ wk.obj.st # "orphaned"
        /\ api[m].st = "orphaned" => api[m].id # NoServer
        /\ cache[m].st = "orphaned" => cache[m].id # NoServer
        /\ cache[m].id # NoServer => api[m].id # NoServer
    BY <1>1, <1>2, <1>10 DEF FreshOrder, StatusInv, Follows
  <2>2. Endangered(m)' =>
          \/ api[m].st = "orphaned" \/ cache[m].st = "orphaned"
          \/ cache[m].id # NoServer /\ ~Running(cache[m].id)
    BY <1>1, <1>10, <2>1
       DEF Endangered, Misleading, Discarding, Running, SameReport
  <2>3. CASE api[m].id = NoServer
    <3>1. Leaked' \subseteq Leaked
      BY <1>6, <1>10, <2>3, NoServerAssumption DEF Leaked
    <3>2. \A n \in Machines : Endangered(n)' => Endangered(n)
      BY <1>4, <2>1, <2>2, <2>3
    <3>. QED  BY <1>3, <3>1, <3>2, OwedKept
  <2>4. CASE api[m].id # NoServer /\ Running(api[m].id)
    <3>. DEFINE x == <<"order", m>>
                y == <<"server", api[m].id>>
    <3>1. x \in Owed
      BY <1>1, <2>1, <2>4, InOwed DEF OrderAstray
    <3>2. Endangered(m)' => Endangered(m)
      BY <1>10, <2>2, <2>4 DEF Endangered, Misleading
    <3>3. /\ \A s \in Leaked' :
               (s \in Leaked /\ <<"server", s>> # x) \/ <<"server", s>> = y
          /\ \A n \in Machines : Endangered(n)' =>
               (Endangered(n) /\ <<"machine", n>> # x) \/ <<"machine", n>> = y
      BY <1>4, <1>6, <1>10, <3>2
    <3>. HIDE DEF x, y
    <3>. QED  BY <1>3, <3>1, <3>3, OwedTraded
  <2>5. CASE api[m].id # NoServer /\ ~Running(api[m].id)
    <3>. DEFINE x == <<"order", m>>
                y == <<"machine", m>>
    <3>1. x \in Owed
      BY <1>1, <2>1, <2>5, InOwed DEF OrderAstray
    <3>2. /\ \A s \in Leaked' :
               (s \in Leaked /\ <<"server", s>> # x) \/ <<"server", s>> = y
          /\ \A n \in Machines : Endangered(n)' =>
               (Endangered(n) /\ <<"machine", n>> # x) \/ <<"machine", n>> = y
      BY <1>4, <1>6, <1>10, <2>5
    <3>. HIDE DEF x, y
    <3>. QED  BY <1>3, <3>1, <3>2, OwedTraded
  <2>. QED  BY <2>3, <2>4, <2>5
<1>. QED  BY <1>1, <1>7, <1>8, <1>9, <1>10 DEF MetaMerged

LEMMA PatchMetaFailsOwed ==
  ASSUME TypeInv, PatchMetaFails
  PROVE  OwedStep
<1>1. /\ wk.pc = "patchMeta" /\ wk'.pc = "patchStatus"
      /\ wk'.m = wk.m /\ wk'.base = wk.base /\ wk'.obj = wk.obj
      /\ UNCHANGED <<api, cache, bmc, node>>
      /\ MishapIf(InFlight(wk.obj.id))
  BY PatchMetaFailsEffect
<1>2. /\ \A m \in Machines : Endangered(m)' => Endangered(m)
      /\ ~OrderAstray'
  BY <1>1 DEF Endangered, Misleading, Discarding, Running, OrderAstray, Ordering
<1>3. /\ Leaked' \subseteq Leaked \cup {wk.obj.id}
      /\ ~InFlight(wk.obj.id) => Leaked' \subseteq Leaked
  BY <1>1 DEF Leaked, Tracked, InFlight, Running
<1>. QED  BY <1>1, <1>2, <1>3, OwedKept, OwedCharged DEF MishapIf, Mishap

LEMMA PatchStatusOwed ==
  ASSUME TypeInv, PatchStatus \/ PatchStatusFails
  PROVE  OwedStep
<1>1. /\ wk.pc = "patchStatus" /\ wk'.pc = "idle" /\ UNCHANGED <<cache, bmc>>
      /\ \A n \in Machines :
           \/ api'[n] = api[n]
           \/ n = wk.m /\ StatusMerged(api[n], wk.base, wk.obj, api'[n])
  BY PatchStatusEffect
<1>2. \A n \in Machines : SameIDs(api'[n], api[n]) /\ (api'[n].live <=> api[n].live)
  BY <1>1 DEF StatusMerged, SameIDs
<1>3. Leaked' \subseteq Leaked /\ ~OrderAstray'
  BY <1>1, <1>2 DEF Leaked, Running, Tracked, InFlight, OrderAstray, Ordering, SameIDs
<1>4. \A n \in Machines : Endangered(n)' => Endangered(n)
  BY <1>1, <1>2 DEF Endangered, Misleading, Discarding, Running, StatusMerged, SameIDs
<1>. QED  BY <1>3, <1>4, OwedKept

LEMMA CrashOwed ==
  ASSUME TypeInv, Crash
  PROVE  OwedStep
<1>1. /\ wk'.pc = "idle" /\ cache' = api /\ UNCHANGED <<api, bmc, node>>
      /\ MishapIf(InFlight(wk.obj.id))
  BY DEF Crash, Idle, cloud
<1>2. /\ \A m \in Machines : Endangered(m)' => Endangered(m)
      /\ ~OrderAstray'
  BY <1>1 DEF Endangered, Misleading, Discarding, Running, OrderAstray, Ordering
<1>3. /\ Leaked' \subseteq Leaked \cup {wk.obj.id}
      /\ ~InFlight(wk.obj.id) => Leaked' \subseteq Leaked
  BY <1>1 DEF Leaked, Tracked, InFlight, Running
<1>. QED  BY <1>1, <1>2, <1>3, OwedKept, OwedCharged DEF MishapIf, Mishap

LEMMA EnvironmentOwed ==
  ASSUME TypeInv, VersionsInv, StatusInv, FreshOrder, Environment
  PROVE  OwedStep
<1>1. /\ UNCHANGED <<wk, node>>
      /\ wk.pc # "idle" => wk.m \in Machines /\ WorkerVersions
  BY EnvironmentEffect DEF TypeInv, WorkerBusy, VersionsInv
<1>2. CASE /\ UNCHANGED <<api, bmc>>
           /\ \A n \in Machines : cache'[n] \in {cache[n], api[n]}
  <2>1. Leaked' \subseteq Leaked /\ (OrderAstray' => OrderAstray /\ wk'.m = wk.m)
    BY <1>1, <1>2 DEF Leaked, Running, Tracked, InFlight, OrderAstray, Ordering
  <2>2. \A m \in Machines : Endangered(m)' => Endangered(m)
    BY <1>1, <1>2 DEF Endangered, Misleading, Discarding, Running
  <2>. QED  BY <2>1, <2>2, OwedKept
<1>3. ASSUME NEW m \in Machines, MachineDeleted(m) PROVE OwedStep
  <2>1. /\ UNCHANGED <<cache, bmc>> /\ api[m].live
        /\ \A n \in Machines : n # m => api'[n] = api[n]
    BY <1>3 DEF MachineDeleted
  <2>2. CASE SameIDs(api'[m], api[m]) /\ SameReport(api'[m], api[m]) /\ api'[m].live
    <3>1. \A n \in Machines : /\ api'[n].live <=> api[n].live
                              /\ SameIDs(api'[n], api[n]) /\ SameReport(api'[n], api[n])
      BY <2>1, <2>2 DEF SameIDs, SameReport
    <3>2. Leaked' \subseteq Leaked
      BY <1>1, <2>1, <3>1 DEF Leaked, Running, Tracked, InFlight, SameIDs
    <3>3. OrderAstray' => OrderAstray /\ wk'.m = wk.m
      BY <1>1, <3>1 DEF OrderAstray, Ordering, SameIDs
    <3>4. \A n \in Machines : Endangered(n)' => Endangered(n)
      BY <1>1, <2>1, <3>1
         DEF Endangered, Misleading, Discarding, Running, SameIDs, SameReport
    <3>. QED  BY <3>2, <3>3, <3>4, OwedKept
  <2>3. CASE /\ api'[m] = NotFound /\ ~api[m].fini
             /\ MishapIf(/\ wk.m = m
                         /\ wk.pc = "create" \/ InFlight(wk.obj.id))
    <3>1. api[m].id = NoServer /\ ~api'[m].live
      BY <2>1, <2>3, FreshObject DEF VersionsInv, ServerHeldByFinalizer
    <3>2. Leaked' \subseteq Leaked
      BY <1>1, <2>1, <3>1, NoServerAssumption
         DEF Leaked, Running, Tracked, InFlight
    <3>3. \A n \in Machines : Endangered(n)' => Endangered(n)
      BY <1>1, <2>1, <3>1 DEF Endangered, Misleading, Discarding, Running
    <3>4. CASE mishaps' = mishaps + 1
      BY <1>1, <3>2, <3>3, <3>4, OwedCharged
    <3>5. CASE mishaps' # mishaps + 1
      <4>1. wk.m = m => ~Ordering
        BY <2>3, <3>5 DEF MishapIf, Mishap, Ordering, InFlight
      <4>2. OrderAstray' => OrderAstray /\ wk'.m = wk.m
        BY <1>1, <2>1, <4>1 DEF OrderAstray, Ordering
      <4>. QED  BY <3>2, <3>3, <4>2, OwedKept
    <3>. QED  BY <3>4, <3>5
  <2>. QED  BY <1>3, <2>2, <2>3 DEF MachineDeleted
<1>4. ASSUME NEW s \in Servers, ServerMoves(s) PROVE OwedStep
  <2>1. /\ UNCHANGED <<api, cache>> /\ Running(s)
        /\ \A r \in Servers : r # s => bmc'[r] = bmc[r]
        /\ \A r \in Servers : Running(r)' => Running(r)
        /\ \A r \in Servers : r # s /\ Running(r) => Running(r)'
    BY <1>4 DEF ServerMoves, Running
  <2>2. Leaked' \subseteq Leaked /\ (OrderAstray' => OrderAstray /\ wk'.m = wk.m)
    BY <1>1, <2>1 DEF Leaked, Tracked, InFlight, OrderAstray, Ordering
  <2>3. CASE Running(s)'
    <3>1. \A r \in Servers : Running(r) <=> Running(r)'
      BY <2>1, <2>3
    <3>2. ASSUME NEW n \in Machines
          PROVE  /\ api[n].id \in ServerID /\ cache[n].id \in ServerID
                 /\ wk.pc # "idle" => wk.base.id \in ServerID
      BY DEF TypeInv, TypeOK, Worker, Object
    <3>3. \A n \in Machines : Endangered(n)' => Endangered(n)
      BY <1>1, <2>1, <3>1, <3>2 DEF Endangered, Misleading, Discarding, ServerID
    <3>. QED  BY <2>2, <3>3, OwedKept
  <2>4. CASE ~Running(s)'
    <3>. DEFINE n == bmc[s].owner
    <3>1. ASSUME NEW m \in Machines, Endangered(m)', ~Endangered(m)
          PROVE  /\ m = n /\ api[m].live /\ api[m].id # NoServer /\ api[m].id # s
                 /\ \/ cache[m].id = s
                    \/ wk.pc # "idle" /\ wk.m = m /\ wk.base.id = s
      <4>1. /\ api[m].live /\ api[m].id # NoServer /\ Running(api[m].id)'
            /\ api[m].id \in Servers /\ api[m].id # s
        BY <2>1, <2>4, <3>1 DEF Endangered, TypeInv, TypeOK, Object, ServerID
      <4>2. /\ cache[m].id \in ServerID
            /\ wk.pc # "idle" => wk.base.id \in ServerID
        BY DEF TypeInv, TypeOK, Worker, Object
      <4>3. \E r \in Servers :
              /\ Running(r) /\ bmc'[r].st \notin ReportedStatus
              /\ cache[m].id = r \/ (wk.pc # "idle" /\ wk.m = m /\ wk.base.id = r)
        BY <1>1, <2>1, <3>1, <4>1, <4>2
           DEF Endangered, Misleading, Discarding, ServerID, Running
      <4>4. \/ cache[m].id = s
            \/ wk.pc # "idle" /\ wk.m = m /\ wk.base.id = s
        BY <2>1, <4>3 DEF Running
      <4>5. m = n
        BY <1>1, <4>4, NoServerAssumption DEF VersionsInv, WorkerVersions, ValidVersion
      <4>. QED  BY <4>1, <4>4, <4>5
    <3>. HIDE DEF n
    <3>2. CASE s \in Leaked
      <4>. DEFINE x == <<"server", s>>
                  y == <<"machine", n>>
      <4>1. x \in Owed
        BY <3>2, InOwed
      <4>2. /\ \A r \in Leaked' :
                 (r \in Leaked /\ <<"server", r>> # x) \/ <<"server", r>> = y
            /\ \A m \in Machines : Endangered(m)' =>
                 (Endangered(m) /\ <<"machine", m>> # x) \/ <<"machine", m>> = y
            /\ OrderAstray' => OrderAstray /\ wk'.m = wk.m /\ <<"order", wk.m>> # x
        BY <2>2, <2>4, <3>1 DEF Leaked
      <4>. HIDE DEF x, y
      <4>. QED  BY <4>1, <4>2, OwedTraded
    <3>3. CASE s \notin Leaked
      <4>1. ASSUME NEW m \in Machines, Endangered(m)' PROVE Endangered(m)
        <5>. SUFFICES ASSUME ~Endangered(m) PROVE FALSE
          OBVIOUS
        <5>1. /\ m = n /\ api[m].live /\ api[m].id # s
              /\ \/ cache[m].id = s
                 \/ wk.pc # "idle" /\ wk.m = m /\ wk.base.id = s
          BY <3>1, <4>1
        <5>2. ~Tracked(s)
          BY <5>1, NoServerAssumption DEF Tracked, VersionsInv, ValidVersion, n
        <5>3. InFlight(s)
          BY <2>1, <3>3, <5>2 DEF Leaked
        <5>. QED
          BY <5>1, <5>3, NoServerAssumption DEF InFlight, FreshOrder
      <4>. QED  BY <2>2, <4>1, OwedKept
    <3>. QED  BY <3>2, <3>3
  <2>. QED  BY <2>3, <2>4
<1>. QED  BY <1>2, <1>3, <1>4, EnvironmentEffect

LEMMA NextOwed ==
  ASSUME TypeInv, VersionsInv, StatusInv, FreshOrder, [Next]_vars
  PROVE  OwedStep
<1>1. CASE UNCHANGED vars
  BY <1>1, OwedKept
     DEF vars, Leaked, Endangered, Misleading, Discarding, OrderAstray, Ordering,
         Running, Tracked, InFlight
<1>. QED
  BY <1>1, ReconcileOwed, ExchangeOwed, PatchMetaOwed, PatchMetaFailsOwed,
     PatchStatusOwed, CrashOwed, EnvironmentOwed DEF Next, Reconcile, Patch

(* A server that was just built is on no record.                           *)
LEMMA FreshStep ==
  ASSUME TypeInv, VersionsInv, FreshOrder, StatusInv, [Next]_vars
  PROVE  FreshOrder'
<1>1. CASE wk'.pc # "patchMeta" \/ wk'.obj.id = wk'.base.id
  BY <1>1 DEF FreshOrder
<1>2. CASE \E m \in Machines : Reconcile(m)
  <2>1. wk.pc = "idle" /\ (UNCHANGED wk \/ SameIDs(wk'.obj, wk'.base))
    BY <1>2, ReconcileEffect DEF Reconcile
  <2>. QED  BY <1>1, <2>1 DEF SameIDs
<1>3. CASE Exchange
  <2>1. /\ wk.pc \in {"create", "sync", "delete"} /\ UNCHANGED <<api, cache>>
        /\ wk'.base = wk.base /\ SameIDs(wk.obj, wk.base)
    BY <1>3, ExchangeEffect DEF VersionsInv, WorkerVersions
  <2>2. CASE \E s \in Servers : Recorded(s)
    <3>1. PICK s \in Servers : bmc[s].st = "unborn" /\ wk'.obj.id = s
      BY <2>2 DEF Recorded, ServerOrdered
    <3>. QED  BY <2>1, <3>1, NoServerAssumption DEF FreshOrder, VersionsInv, ValidVersion
  <2>3. CASE wk'.obj.id = wk.obj.id
    BY <1>1, <2>1, <2>3 DEF SameIDs
  <2>. QED
    BY <1>3, <2>2, <2>3, ExchangeEffect DEF Forgotten, Answered, Ended, SameIDs
<1>4. CASE Patch \/ Crash
  BY <1>1, <1>4
     DEF Patch, PatchMeta, PatchMetaFails, PatchStatus, PatchStatusFails, Finish,
         Crash, Idle, TypeInv, TypeOK, Worker
<1>5. CASE Environment
  <2>1. UNCHANGED wk
    BY <1>5, EnvironmentEffect
  <2>2. CASE wk.pc = "patchMeta" /\ wk.obj.id # wk.base.id
    <3>1. wk.obj.id # NoServer
      BY <2>2 DEF VersionsInv, WorkerVersions, Changes, SameIDs
    <3>2. \A m \in Machines : /\ api'[m].id \in {api[m].id, NoServer}
                              /\ cache'[m].id \in {cache[m].id, api[m].id}
      BY <1>5, EnvironmentEffect, FreshObject DEF MachineDeleted, ServerMoves, SameIDs
    <3>. QED  BY <2>1, <2>2, <3>1, <3>2 DEF FreshOrder
  <2>. QED  BY <1>1, <2>1, <2>2
<1>6. CASE UNCHANGED vars
  BY <1>6 DEF vars, FreshOrder
<1>. QED  BY <1>2, <1>3, <1>4, <1>5, <1>6 DEF Next

LEMMA OwedInit == Init => OwedBound
<1>. SUFFICES ASSUME Init PROVE OwedBound
  OBVIOUS
<1>1. wk.pc = "idle" /\ Leaked = {}
  BY DEF Init, Idle, Leaked, Running, ReportedStatus
<1>2. \A m \in Machines : api[m].id = NoServer
  BY FreshObject DEF Init
<1>3. Owed = {}
  BY <1>1, <1>2 DEF Owed, Endangered, OrderAstray, Ordering
<1>. QED  BY <1>1, <1>3, FS_EmptySet DEF OwedBound, FreshOrder, Init

LEMMA OwedInvariant ==
  TypeInv /\ VersionsInv /\ StatusInv /\ OwedBound /\ [Next]_vars => OwedBound'
<1>. SUFFICES ASSUME TypeInv, VersionsInv, StatusInv, OwedBound, [Next]_vars
              PROVE  OwedBound'
  OBVIOUS
<1>1. FreshOrder' /\ OwedStep
  BY FreshStep, NextOwed DEF OwedBound
<1>2. /\ mishaps \in Nat /\ mishaps' \in {mishaps, mishaps + 1}
      /\ IsFiniteSet(Owed) /\ Cardinality(Owed) \in Nat /\ Cardinality(Owed) <= mishaps
  BY MishapsCount, FS_CardinalityType DEF OwedBound
<1>3. ASSUME NEW S, IsFiniteSet(S), Cardinality(S) <= mishaps', Owed' \subseteq S
      PROVE  OwedBound'
  <2>1. /\ IsFiniteSet(Owed') /\ Cardinality(Owed') <= Cardinality(S)
        /\ Cardinality(Owed') \in Nat /\ Cardinality(S) \in Nat
    BY <1>3, FS_Subset, FS_CardinalityType
  <2>. QED  BY <1>1, <1>2, <1>3, <2>1 DEF OwedBound
<1>4. CASE Owed' \subseteq Owed
  BY <1>2, <1>3, <1>4
<1>5. CASE Charged
  <2>1. PICK y : Owed' \subseteq Owed \cup {y}
    BY <1>5 DEF Charged
  <2>2. /\ IsFiniteSet(Owed \cup {y})
        /\ Cardinality(Owed \cup {y}) <= Cardinality(Owed) + 1
    BY <1>2, FS_AddElement
  <2>3. Cardinality(Owed \cup {y}) \in Nat
    BY <2>2, FS_CardinalityType
  <2>4. Cardinality(Owed \cup {y}) <= mishaps'
    BY <1>2, <1>5, <2>2, <2>3 DEF Charged
  <2>. QED  BY <1>3, <2>1, <2>2, <2>4
<1>6. CASE Traded
  <2>0. PICK x \in Owed : \E y : Owed' \subseteq (Owed \ {x}) \cup {y}
    BY <1>6 DEF Traded
  <2>1. PICK y : Owed' \subseteq (Owed \ {x}) \cup {y}
    BY <2>0
  <2>. DEFINE R == Owed \ {x}
  <2>2. IsFiniteSet(R) /\ Cardinality(R) = Cardinality(Owed) - 1
    BY <1>2, <2>0, FS_RemoveElement
  <2>. HIDE DEF R
  <2>3. /\ IsFiniteSet(R \cup {y}) /\ Cardinality(R) \in Nat
        /\ Cardinality(R \cup {y}) = IF y \in R THEN Cardinality(R)
                                                ELSE Cardinality(R) + 1
    BY <2>2, FS_AddElement, FS_CardinalityType
  <2>4. Cardinality(R \cup {y}) <= mishaps'
    BY <1>2, <2>2, <2>3
  <2>. QED  BY <1>3, <2>1, <2>3, <2>4 DEF R
<1>. QED  BY <1>1, <1>4, <1>5, <1>6 DEF OwedStep

LEMMA OwedInvariance ==
  Spec => [](TypeInv /\ VersionsInv /\ StatusInv /\ OwedBound)
BY StatusInvariance, OwedInit, OwedInvariant, PTL DEF Spec

(* What mishaps may cost, now or later, is bounded by their number: servers*)
(* off record, machines whose server the finalizer no longer protects, and *)
(* an order that will take another server off record.                      *)
THEOREM OwedHolds == Spec => []OwedBound
<1>1. TypeInv /\ VersionsInv /\ StatusInv /\ OwedBound => OwedBound
  OBVIOUS
<1>. QED  BY <1>1, OwedInvariance, PTL

LEMMA LeakedFewer ==
  ASSUME OwedBound, mishaps \in Nat
  PROVE  IsFiniteSet(Leaked) /\ LeakBound
<1>. DEFINE f == [s \in Leaked |-> <<"server", s>>]
<1>1. f \in [Leaked -> Owed]
  BY InOwed
<1>2. f \in Injection(Leaked, Owed)
  BY <1>1 DEF Injection, IsInjective
<1>3. IsFiniteSet(Leaked) /\ Cardinality(Leaked) <= Cardinality(Owed)
  BY <1>2, FS_Injection DEF OwedBound
<1>. QED
  BY <1>3, FS_CardinalityType DEF OwedBound, LeakBound

(* Whatever is interleaved, a mishap costs at most one server: no crash,   *)
(* lost answer, failed call or outdated read is multiplied by retries, and *)
(* what does not count as a mishap costs none.                             *)
THEOREM LeaksAreBounded == Spec => []LeakBound
<1>1. TypeInv /\ VersionsInv /\ StatusInv /\ OwedBound => LeakBound
  BY LeakedFewer DEF TypeInv, TypeOK
<1>. QED  BY <1>1, OwedInvariance, PTL

-----------------------------------------------------------------------------
(* The refinement. A step changes the phase of one server at most.         *)

Held(s) == Tracked(s) \/ InFlight(s)

SamePhase(s) == LedgerPhase(s)' = LedgerPhase(s) /\ bmc'[s].owner = bmc[s].owner

PhasesSame == \A s \in Servers : SamePhase(s)

RecordLost(s) ==
  /\ LedgerPhase(s) = "held" /\ LedgerPhase(s)' = "lost"
  /\ bmc'[s].owner = bmc[s].owner
  /\ \A r \in Servers : r # s => SamePhase(r)

ServerEnded(s) ==
  /\ LedgerPhase(s) \in {"held", "lost"} /\ LedgerPhase(s)' = "gone"
  /\ bmc'[s].owner = bmc[s].owner
  /\ \A r \in Servers : r # s => SamePhase(r)

ServerAdded(s) ==
  /\ wk.pc = "create" /\ wk.m \in Machines
  /\ LedgerPhase(s) = "unborn" /\ LedgerPhase(s)' \in {"held", "lost"}
  /\ bmc'[s].owner = wk.m
  /\ \A r \in Servers : r # s => SamePhase(r)

PhaseStep ==
  PhasesSame \/ \E s \in Servers : RecordLost(s) \/ ServerEnded(s) \/ ServerAdded(s)

LEMMA RecordsKept ==
  ASSUME UNCHANGED bmc, NEW u,
         \A s \in Servers : /\ Held(s)' => Held(s)
                            /\ Held(s) => Held(s)' \/ s = u
  PROVE  PhaseStep
<1>1. \A s \in Servers :
        \/ SamePhase(s)
        \/ s = u /\ LedgerPhase(s) = "held" /\ LedgerPhase(s)' = "lost"
  BY DEF Held, LedgerPhase, SamePhase, Running
<1>. QED  BY <1>1 DEF PhaseStep, PhasesSame, RecordLost

LEMMA ExchangePhases ==
  ASSUME TypeInv, VersionsInv, Exchange
  PROVE  PhaseStep
<1>. bmc \in [Servers -> Server]
  BY DEF TypeInv, TypeOK
<1>1. /\ wk.pc \in {"create", "sync", "delete"} /\ UNCHANGED <<api, cache>>
      /\ wk'.pc = "patchMeta" /\ wk'.base = wk.base
      /\ wk.m \in Machines
      /\ wk.obj.id = wk.base.id /\ (wk.pc = "create" => wk.obj.id = NoServer)
      /\ wk.pc \in {"sync", "delete"} => wk.obj.id \in Servers
  BY ExchangeEffect DEF TypeInv, WorkerBusy, VersionsInv, WorkerVersions, SameIDs
<1>2. \A r \in Servers : ~InFlight(r) /\ (Tracked(r)' <=> Tracked(r))
  BY <1>1 DEF InFlight, Tracked
<1>3. ASSUME NEW s \in Servers, ServerOrdered(s),
             \A r \in Servers : r # s => ~InFlight(r)'
      PROVE  PhaseStep
  <2>1. /\ wk.pc = "create" /\ bmc[s].st = "unborn"
        /\ bmc'[s].owner = wk.m /\ bmc'[s].st = "other"
        /\ \A r \in Servers : r # s => bmc'[r] = bmc[r]
    BY <1>3 DEF ServerOrdered, Server
  <2>2. \A r \in Servers : r # s => SamePhase(r)
    BY <1>2, <1>3, <2>1 DEF SamePhase, LedgerPhase, Running
  <2>3. LedgerPhase(s) = "unborn" /\ LedgerPhase(s)' \in {"held", "lost"}
    BY <2>1 DEF LedgerPhase, Running, ReportedStatus
  <2>. QED  BY <1>1, <2>1, <2>2, <2>3 DEF PhaseStep, ServerAdded
<1>4. ASSUME NEW s \in Servers, Recorded(s) \/ Forgotten(s) PROVE PhaseStep
  BY <1>1, <1>3, <1>4 DEF Recorded, Forgotten, InFlight
<1>5. CASE Answered
  <2>1. UNCHANGED bmc /\ \A r \in Servers : ~InFlight(r)'
    BY <1>1, <1>5 DEF Answered, InFlight, SameIDs
  <2>2. \A r \in Servers : Held(r)' <=> Held(r)
    BY <1>2, <2>1 DEF Held
  <2>. QED  BY <2>1, <2>2, RecordsKept
<1>6. CASE Ended
  <2>1. PICK s \in Servers :
        /\ Running(s)
        /\ bmc' = [bmc EXCEPT ![s].st = "gone"]
        /\ \A r \in Servers : ~InFlight(r)'
    BY <1>1, <1>6 DEF Ended, InFlight
  <2>2. /\ bmc'[s].st = "gone" /\ bmc'[s].owner = bmc[s].owner
        /\ \A r \in Servers : r # s => bmc'[r] = bmc[r]
    BY <2>1 DEF Server
  <2>3. \A r \in Servers : r # s => SamePhase(r)
    BY <1>2, <2>1, <2>2 DEF SamePhase, LedgerPhase, Running
  <2>4. LedgerPhase(s) \in {"held", "lost"} /\ LedgerPhase(s)' = "gone"
    BY <2>1, <2>2 DEF LedgerPhase, Running, ReportedStatus
  <2>. QED  BY <2>1, <2>2, <2>3, <2>4 DEF PhaseStep, ServerEnded
<1>. QED  BY <1>4, <1>5, <1>6, ExchangeEffect

LEMMA PatchPhases ==
  ASSUME TypeInv, VersionsInv, StatusInv, Patch
  PROVE  PhaseStep
<1>1. CASE PatchMeta
  <2>1. PICK m \in Machines :
        /\ m = wk.m /\ wk.pc = "patchMeta" /\ WorkerVersions
        /\ wk'.pc = "patchStatus"
        /\ UNCHANGED <<cache, bmc, node, mishaps>>
        /\ \A n \in Machines : n # m => api'[n] = api[n]
        /\ IF api[m].live THEN MetaMerged(api[m], wk.base, wk.obj, api'[m])
                          ELSE api'[m] = api[m]
    BY <1>1, PatchMetaEffect
  <2>2. wk.obj.id # wk.base.id =>
          wk.base.id = NoServer /\ wk.obj.id # NoServer /\ wk.obj.fini
    BY <2>1 DEF WorkerVersions, Changes, SameIDs
  <2>. DEFINE u == IF api[m].live THEN api[m].id ELSE wk.obj.id
  <2>3. ASSUME NEW s \in Servers, Held(s)' PROVE Held(s)
    <3>1. PICK n \in Machines : api'[n].live /\ api'[n].id = s
      BY <2>1, <2>3 DEF Held, InFlight, Tracked
    <3>2. CASE n # m \/ ~api[m].live
      BY <2>1, <3>1, <3>2 DEF Held, Tracked
    <3>3. CASE n = m /\ api[m].live
      <4>1. \/ api[m].id = s
            \/ wk.base.id = NoServer /\ wk.obj.id = s
        BY <2>1, <3>1, <3>3, FreshObject DEF MetaMerged
      <4>. QED  BY <2>1, <3>3, <4>1, NoServerAssumption DEF Held, Tracked, InFlight
    <3>. QED  BY <3>2, <3>3
  <2>4. ASSUME NEW s \in Servers, Held(s), s # u PROVE Held(s)'
    <3>1. CASE Tracked(s)
      <4>1. PICK n \in Machines : api[n].live /\ api[n].id = s
        BY <3>1 DEF Tracked
      <4>2. n # m \/ ~api[m].live
        BY <2>4, <4>1
      <4>. QED  BY <2>1, <4>1, <4>2 DEF Held, Tracked
    <3>2. CASE InFlight(s)
      <4>1. s = wk.obj.id /\ wk.obj.id # wk.base.id
        BY <3>2 DEF InFlight
      <4>2. api'[m].live /\ api'[m].id = s
        BY <2>1, <2>2, <2>4, <4>1 DEF MetaMerged
      <4>. QED  BY <4>2 DEF Held, Tracked
    <3>. QED  BY <2>4, <3>1, <3>2 DEF Held
  <2>. QED  BY <2>1, <2>3, <2>4, RecordsKept
<1>2. CASE PatchMetaFails
  <2>1. wk'.pc = "patchStatus" /\ UNCHANGED <<api, bmc>>
    BY <1>2, PatchMetaFailsEffect
  <2>2. \A s \in Servers : /\ Held(s)' => Held(s)
                           /\ Held(s) => Held(s)' \/ s = wk.obj.id
    BY <2>1 DEF Held, Tracked, InFlight
  <2>. QED  BY <2>1, <2>2, RecordsKept
<1>3. CASE PatchStatus \/ PatchStatusFails
  <2>1. /\ wk.pc = "patchStatus" /\ wk'.pc = "idle" /\ UNCHANGED bmc
        /\ \A n \in Machines : api'[n].id = api[n].id /\ (api'[n].live <=> api[n].live)
    BY <1>3, PatchStatusEffect DEF StatusMerged, SameIDs
  <2>2. \A s \in Servers : Held(s)' <=> Held(s)
    BY <2>1 DEF Held, Tracked, InFlight
  <2>. QED  BY <2>1, <2>2, RecordsKept
<1>. QED  BY <1>1, <1>2, <1>3 DEF Patch

LEMMA OtherPhases ==
  ASSUME TypeInv, VersionsInv,
         Crash \/ Environment \/ (\E m \in Machines : Reconcile(m)) \/ UNCHANGED vars
  PROVE  PhaseStep
<1>1. CASE Crash
  <2>1. wk'.pc = "idle" /\ UNCHANGED <<api, bmc>>
    BY <1>1 DEF Crash, Idle, cloud
  <2>2. \A s \in Servers : /\ Held(s)' => Held(s)
                           /\ Held(s) => Held(s)' \/ s = wk.obj.id
    BY <2>1 DEF Held, Tracked, InFlight
  <2>. QED  BY <2>1, <2>2, RecordsKept
<1>2. CASE \E m \in Machines : Reconcile(m)
  <2>1. /\ wk.pc = "idle" /\ UNCHANGED <<api, bmc>>
        /\ UNCHANGED wk \/ wk'.obj.id = wk'.base.id
    BY <1>2, ReconcileEffect DEF Reconcile, SameIDs
  <2>2. \A s \in Servers : Held(s)' <=> Held(s)
    BY <2>1 DEF Held, Tracked, InFlight
  <2>. QED  BY <2>1, <2>2, RecordsKept
<1>3. CASE Environment
  <2>1. UNCHANGED wk
    BY <1>3, EnvironmentEffect
  <2>2. CASE UNCHANGED <<api, bmc>>
    <3>1. \A s \in Servers : Held(s)' <=> Held(s)
      BY <2>1, <2>2 DEF Held, Tracked, InFlight
    <3>. QED  BY <2>2, <3>1, RecordsKept
  <2>3. ASSUME NEW m \in Machines, MachineDeleted(m) PROVE PhaseStep
    <3>1. /\ UNCHANGED bmc /\ api[m].live
          /\ \A n \in Machines : n # m => api'[n] = api[n]
      BY <2>3 DEF MachineDeleted
    <3>2. \/ api[m].id = NoServer /\ ~api'[m].live
          \/ api'[m].live /\ api'[m].id = api[m].id
      BY <2>3, FreshObject DEF MachineDeleted, SameIDs, VersionsInv, ServerHeldByFinalizer
    <3>3. \A s \in Servers : Held(s)' <=> Held(s)
      BY <2>1, <3>1, <3>2, NoServerAssumption DEF Held, Tracked, InFlight
    <3>. QED  BY <3>1, <3>3, RecordsKept
  <2>4. ASSUME NEW s \in Servers, ServerMoves(s) PROVE PhaseStep
    <3>1. /\ UNCHANGED api /\ Running(s) /\ bmc'[s].owner = bmc[s].owner
          /\ bmc'[s].st \in ReportedStatus \cup {"gone"}
          /\ \A r \in Servers : r # s => bmc'[r] = bmc[r]
      BY <2>4 DEF ServerMoves
    <3>2. \A r \in Servers : Held(r)' <=> Held(r)
      BY <2>1, <3>1 DEF Held, Tracked, InFlight
    <3>3. \A r \in Servers : r # s => SamePhase(r)
      BY <3>1, <3>2 DEF SamePhase, LedgerPhase, Running, Held
    <3>4. CASE bmc'[s].st \in ReportedStatus
      BY <3>1, <3>2, <3>3, <3>4
         DEF SamePhase, LedgerPhase, Running, Held, PhaseStep, PhasesSame
    <3>5. CASE bmc'[s].st = "gone"
      BY <3>1, <3>3, <3>5 DEF LedgerPhase, Running, ReportedStatus, PhaseStep, ServerEnded
    <3>. QED  BY <3>1, <3>4, <3>5
  <2>. QED  BY <1>3, <2>2, <2>3, <2>4, EnvironmentEffect
<1>4. CASE UNCHANGED vars
  <2>1. UNCHANGED <<api, bmc, wk>>
    BY <1>4 DEF vars
  <2>2. \A s \in Servers : Held(s)' <=> Held(s)
    BY <2>1 DEF Held, Tracked, InFlight
  <2>. QED  BY <2>1, <2>2, RecordsKept
<1>. QED  BY <1>1, <1>2, <1>3, <1>4

(* In the ledger a machine may be given a server if there were as many     *)
(* faults as it has servers already: each of them is off record, or the    *)
(* order is astray.                                                        *)
LEMMA OrderAllowed ==
  ASSUME TypeInv, VersionsInv, OwedBound, wk.pc = "create",
         NEW S, S = {s \in Servers : /\ LedgerPhase(s) \in {"held", "lost"}
                                     /\ bmc[s].owner = wk.m}
  PROVE  IsFiniteSet(S) /\ Cardinality(S) <= mishaps
<1>. DEFINE f == [s \in S |-> IF s \in Leaked THEN <<"server", s>> ELSE <<"order", wk.m>>]
<1>1. ASSUME NEW s \in S, s \notin Leaked
      PROVE  api[wk.m].live /\ api[wk.m].id = s /\ s # NoServer
  <2>1. Running(s) /\ ~InFlight(s) /\ s \in Servers /\ bmc[s].owner = wk.m
    <3>1. bmc[s].st \in ServerState
      BY DEF TypeInv, TypeOK, Server
    <3>. QED
      BY <3>1 DEF LedgerPhase, InFlight, ServerState, Running, ReportedStatus
  <2>2. PICK n \in Machines : api[n].live /\ api[n].id = s
    BY <1>1, <2>1 DEF Leaked, Tracked
  <2>. QED  BY <2>1, <2>2, NoServerAssumption DEF VersionsInv, ValidVersion
<1>2. f \in [S -> Owed]
  <2>1. ASSUME NEW s \in S, s \notin Leaked PROVE OrderAstray
    BY <1>1, <2>1 DEF OrderAstray, Ordering
  <2>. QED  BY <2>1, InOwed
<1>3. f \in Injection(S, Owed)
  BY <1>1, <1>2 DEF Injection, IsInjective
<1>4. IsFiniteSet(S) /\ Cardinality(S) <= Cardinality(Owed)
  BY <1>3, FS_Injection DEF OwedBound
<1>5. Cardinality(S) \in Nat /\ Cardinality(Owed) \in Nat /\ mishaps \in Nat
  BY <1>4, FS_CardinalityType DEF OwedBound, TypeInv, TypeOK
<1>. QED  BY <1>4, <1>5 DEF OwedBound

(* The ledger counts with its own copy of the operator. *)
LEMMA SameCount == ASSUME NEW S PROVE Ledger!Cardinality(S) = Cardinality(S)
BY DEF Ledger!Cardinality, Cardinality

LEMMA LedgerInit == Init => Ledger!Init
<1>. SUFFICES ASSUME Init PROVE Ledger!Init
  OBVIOUS
<1>1. \A s \in Servers : LedgerPhase(s) = "unborn" /\ bmc[s].owner = NoMachine
  BY DEF Init, LedgerPhase, Running, ReportedStatus
<1>. QED  BY <1>1 DEF Ledger!Init, Init

LEMMA LedgerStep ==
  ASSUME TypeInv, VersionsInv, StatusInv, OwedBound, LeakBound, TypeInv', LeakBound',
         [Next]_vars
  PROVE  [Ledger!Next]_<<[s \in Servers |-> LedgerPhase(s)],
                         [s \in Servers |-> bmc[s].owner], mishaps>>
<1>1. /\ mishaps \in Nat
      /\ mishaps' = mishaps + 1 \/ mishaps' = mishaps
  BY MishapsCount
<1>2. PhaseStep
  BY PatchPhases, ExchangePhases, OtherPhases DEF Next
<1>3. {s \in Servers : LedgerPhase(s)' = "lost"} = Leaked'
  <2>1. ASSUME NEW s \in Servers PROVE LedgerPhase(s)' = "lost" <=> s \in Leaked'
    <3>1. bmc'[s].st \in ServerState
      BY DEF TypeInv, TypeOK, Server
    <3>. QED  BY <3>1 DEF LedgerPhase, Running, ReportedStatus, ServerState, Leaked
  <2>. QED  BY <2>1 DEF Leaked
<1>4. Ledger!Cardinality(Ledger!Lost') <= mishaps'
  <2>1. Ledger!Lost' = Leaked'
    BY <1>3 DEF Ledger!Lost
  <2>2. Ledger!Cardinality(Ledger!Lost') = Cardinality(Leaked')
    BY <2>1, SameCount
  <2>. QED  BY <2>2 DEF LeakBound
<1>5. CASE PhasesSame
  BY <1>1, <1>5 DEF PhasesSame, SamePhase, Ledger!Next, Ledger!Fault
<1>6. ASSUME NEW s \in Servers, RecordLost(s) PROVE Ledger!Next
  <2>1. Ledger!Lose(s)
    BY <1>6 DEF RecordLost, SamePhase, Ledger!Lose
  <2>. QED  BY <1>1, <1>4, <2>1 DEF Ledger!Next, Ledger!Fault
<1>7. ASSUME NEW s \in Servers, ServerEnded(s) PROVE Ledger!Next
  <2>1. Ledger!End(s)
    BY <1>7 DEF ServerEnded, SamePhase, Ledger!End
  <2>. QED  BY <1>1, <1>4, <2>1 DEF Ledger!Next, Ledger!Fault
<1>8. ASSUME NEW s \in Servers, ServerAdded(s) PROVE Ledger!Next
  <2>0. PICK m \in Machines : m = wk.m
    BY <1>8 DEF ServerAdded
  <2>. DEFINE S == {r \in Servers : /\ LedgerPhase(r) \in {"held", "lost"}
                                    /\ bmc[r].owner = wk.m}
  <2>1. Ledger!RunningFor(m) = S
    BY <2>0 DEF Ledger!RunningFor
  <2>2. IsFiniteSet(S) /\ Cardinality(S) <= mishaps
    BY <1>8, OrderAllowed DEF ServerAdded
  <2>3. Cardinality(S) \in Nat /\ Ledger!Cardinality(S) = Cardinality(S)
    BY <2>2, FS_CardinalityType, SameCount
  <2>4. Ledger!Cardinality(Ledger!RunningFor(m)) <= mishaps'
    BY <1>1, <2>1, <2>2, <2>3
  <2>5. Ledger!Order(s, m)
    BY <1>8, <2>0, <2>4 DEF ServerAdded, SamePhase, Ledger!Order
  <2>. QED  BY <1>1, <1>4, <2>5 DEF Ledger!Next, Ledger!Fault
<1>. QED  BY <1>2, <1>5, <1>6, <1>7, <1>8 DEF PhaseStep

(* The controller implements the ledger: each of its steps orders a server,*)
(* loses the record of one or ends one as the ledger allows, or changes    *)
(* nothing in it.                                                          *)
THEOREM LedgerIsKept == Spec => KeepsLedger
BY OwedInvariance, LeaksAreBounded, LedgerInit, LedgerStep, PTL
   DEF Spec, KeepsLedger, Ledger!Spec

-----------------------------------------------------------------------------
(* What the ledger guarantees holds of the controller.                     *)

Kept == INSTANCE ServerLedgerProofs
  WITH phase  <- [s \in Servers |-> LedgerPhase(s)],
       owner  <- [s \in Servers |-> bmc[s].owner],
       faults <- mishaps

LEMMA LedgerIsTheSame ==
  /\ Ledger!Init => Kept!Init
  /\ Ledger!Next => Kept!Next
  /\ Kept!CostBound => CostBound
<1>1. Ledger!Init => Kept!Init
  BY DEF Ledger!Init, Kept!Init
<1>2. Ledger!Next => Kept!Next
  BY DEF Ledger!Next, Ledger!Fault, Ledger!Lost, Ledger!Order, Ledger!Lose,
         Ledger!End, Ledger!RunningFor, Ledger!Cardinality,
         Kept!Next, Kept!Fault, Kept!Lost, Kept!Order, Kept!Lose,
         Kept!End, Kept!RunningFor, Kept!Cardinality
<1>3. Kept!CostBound => CostBound
  BY DEF CostBound, Ledger!CostBound, Ledger!RunningFor, Ledger!Cardinality,
         Kept!CostBound, Kept!RunningFor, Kept!Cardinality
<1>. QED  BY <1>1, <1>2, <1>3

(* A machine never has more running servers, lost ones included, than one  *)
(* plus the mishaps so far: the controller keeps the ledger, and whoever   *)
(* does so stays within that bound.                                        *)
THEOREM CostsAreBounded == Spec => []CostBound
BY LedgerIsKept, LedgerIsTheSame, Kept!CostIsBounded, PTL
   DEF KeepsLedger, Ledger!Spec, Kept!Spec

=============================================================================
