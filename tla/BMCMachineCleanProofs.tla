----------------------- MODULE BMCMachineCleanProofs -----------------------
(***************************************************************************)
(* Theorems about the BMCMachine controller in a time without mishaps, for *)
(* any number of machines and servers: every machine gets one server, keeps*)
(* it, and its status and its node tell the truth about it.                *)
(***************************************************************************)
EXTENDS BMCMachineStatusProofs

-----------------------------------------------------------------------------
(* Servers have a history: one that was powered on has been powered on for *)
(* ever, and one that is gone stays so.                                    *)

ServersAge ==
  \A s \in Servers : /\ bmc[s].on => bmc'[s].on
                     /\ bmc[s].st \notin ReportedStatus /\ bmc[s].st # "unborn" =>
                          bmc'[s].st \notin ReportedStatus

LEMMA AllServersAge ==
  ASSUME TypeInv, UNCHANGED bmc \/ Exchange \/ Environment
  PROVE  ServersAge
<1>. bmc \in [Servers -> Server] /\ (wk.pc = "delete" => wk.obj.id \in Servers)
  BY DEF TypeInv, TypeOK, WorkerBusy
<1>1. ASSUME UNCHANGED bmc PROVE ServersAge
  BY <1>1 DEF ServersAge
<1>2. ASSUME NEW s \in Servers, ServerOrdered(s) PROVE ServersAge
  BY <1>2 DEF ServerOrdered, ServersAge, Server
<1>3. CASE Ended
  BY <1>3 DEF Ended, Running, ServersAge, Server, ReportedStatus
<1>4. ASSUME NEW s \in Servers, ServerMoves(s) PROVE ServersAge
  BY <1>4 DEF ServerMoves, Running, ServersAge
<1>5. CASE Exchange
  BY <1>1, <1>2, <1>3, <1>5, ExchangeEffect DEF Recorded, Forgotten, Answered
<1>6. CASE Environment
  BY <1>1, <1>4, <1>6, EnvironmentEffect DEF MachineDeleted
<1>. QED  BY <1>1, <1>5, <1>6

LEMMA TruthKept ==
  ASSUME ServersAge, NEW m, NEW o \in Object,
         ValidVersion(m, o, bmc), Truthtelling(o, bmc)
  PROVE  Truthtelling(o, bmc')
BY DEF ServersAge, ValidVersion, Truthtelling, Object, ServerID

(* What was true of the objects and the versions read from them stays true.*)
LEMMA VersionsStayTrue ==
  ASSUME TypeInv, VersionsInv, CleanState, ServersAge
  PROVE  /\ \A m \in Machines : /\ Truthtelling(api[m], bmc')
                                /\ Truthtelling(cache[m], bmc')
         /\ wk.pc # "idle" => /\ Truthtelling(wk.base, bmc')
                              /\ Truthtelling(wk.obj, bmc')
<1>1. \A m \in Machines : /\ Truthtelling(api[m], bmc')
                          /\ Truthtelling(cache[m], bmc')
  BY TruthKept DEF VersionsInv, CleanState, CleanMachine, TypeInv, TypeOK
<1>2. wk.pc # "idle" => /\ Truthtelling(wk.base, bmc')
                        /\ Truthtelling(wk.obj, bmc')
  BY TruthKept DEF VersionsInv, WorkerVersions, CleanState, CleanWorker, TypeInv,
                   TypeOK, Worker
<1>. QED  BY <1>1, <1>2

-----------------------------------------------------------------------------
(* No step but a mishap breaks the invariant. *)

LEMMA CleanInit == Init => CleanInv
<1>. SUFFICES ASSUME Init PROVE CleanState /\ ServersKnown /\ OneServerPerMachine
  BY DEF CleanInv
<1>1. Leaked = {} /\ wk.pc = "idle"
  BY DEF Init, Idle, Leaked, Running, ReportedStatus
<1>2. \A m \in Machines :
        /\ cache[m] = api[m] /\ api[m].st = "" /\ ~api[m].ready
        /\ api[m].id = NoServer /\ node[m] = NoProvider
  BY FreshObject DEF Init
<1>3. \A s \in Servers : ~Built(s)
  BY DEF Init, Built
<1>. QED
  BY <1>1, <1>2, <1>3 DEF CleanState, CleanMachine, Truthtelling, Agrees,
                          ServersKnown, OneServerPerMachine

LEMMA ReconcileClean ==
  ASSUME TypeInv, StatusInv, CleanState, mishaps' = 0,
         NEW m \in Machines, NEW g, ReconcileAt(m, g)
  PROVE  CleanState'
<1>. mishaps \in Nat
  BY DEF TypeInv, TypeOK
<1>1. wk.pc = "idle" /\ UNCHANGED <<api, cache, bmc, node>>
  BY ReconcileEffect
<1>2. Leaked' = {}
  BY <1>1, ReconcileEffect, NoServerAssumption
     DEF CleanState, Leaked, Running, Tracked, InFlight, SameIDs
<1>3. \A n \in Machines : CleanMachine(n)'
  BY <1>1 DEF CleanState, CleanMachine
<1>4. CASE UNCHANGED wk
  BY <1>1, <1>2, <1>3, <1>4 DEF CleanState
<1>5. CASE /\ wk'.m = m /\ wk'.base = cache[m]
           /\ SameIDs(wk'.obj, cache[m]) /\ SameReport(wk'.obj, cache[m])
           /\ Decided(m)
  <2>1. /\ Truthtelling(cache[m], bmc) /\ Agrees(cache[m], api[m])
        /\ Truthtelling(wk'.obj, bmc) /\ Agrees(wk'.obj, api[m])
    BY <1>5 DEF CleanState, CleanMachine, Truthtelling, Agrees, SameIDs, SameReport
  <2>2. /\ Ordering' => api[m].live /\ api[m].id = NoServer
        /\ wk'.pc = "delete" /\ api[m].live => api[m].id = wk'.obj.id
        /\ wk'.pc = "patchMeta" /\ cache[m].fini /\ ~wk'.obj.fini /\ api[m].live =>
             api[m].id = NoServer \/ ~Running(api[m].id)
    BY <1>5, <2>1 DEF Decided, MishapIf, Mishap, StaleID, Ordering, SameIDs,
                      Truthtelling, Running
  <2>3. CleanWorker'
    BY <1>1, <1>5, <2>1, <2>2 DEF CleanWorker, SameIDs, Running
  <2>. QED  BY <1>2, <1>3, <2>3 DEF CleanState
<1>. QED  BY <1>4, <1>5, ReconcileEffect
LEMMA ExchangeClean ==
  ASSUME TypeInv, VersionsInv, StatusInv, CleanState, mishaps' = 0, Exchange
  PROVE  CleanState'
<1>. mishaps \in Nat /\ bmc \in [Servers -> Server] /\ node \in [Machines -> ProviderID]
  BY DEF TypeInv, TypeOK
<1>1. /\ wk.pc \in {"create", "sync", "delete"} /\ UNCHANGED <<api, cache>>
      /\ wk'.pc = "patchMeta" /\ wk'.m = wk.m /\ wk'.base = wk.base
      /\ wk.m \in Machines /\ WorkerVersions /\ CleanWorker
  BY ExchangeEffect DEF TypeInv, WorkerBusy, VersionsInv, CleanState
<1>2. /\ SameIDs(wk.obj, wk.base) /\ (wk.pc = "create" => wk.base.id = NoServer)
      /\ wk.pc \in {"create", "sync"} => wk.obj.fini
      /\ wk.pc \in {"sync", "delete"} => wk.obj.id \in Servers
  BY <1>1 DEF WorkerVersions, SameIDs, TypeInv, WorkerBusy
<1>3. /\ \A m \in Machines : Truthtelling(api[m], bmc') /\ Truthtelling(cache[m], bmc')
      /\ Truthtelling(wk.base, bmc') /\ Truthtelling(wk.obj, bmc')
  BY <1>1, AllServersAge, VersionsStayTrue
<1>4. ~\E s \in Servers : InFlight(s)
  BY <1>1 DEF InFlight
<1>5. UNCHANGED node => \A m \in Machines : CleanMachine(m)'
  BY <1>1, <1>3 DEF CleanState, CleanMachine
<1>6. Agrees(wk.obj, api[wk.m])
  BY <1>1, <1>2 DEF CleanWorker, Ordering, Agrees, SameIDs
<1>7. ASSUME NEW s \in Servers, Recorded(s) PROVE CleanState'
  <2>1. /\ wk.pc = "create" /\ UNCHANGED node
        /\ wk'.obj.id = s /\ wk'.obj.st = "other"
        /\ wk'.obj.ready => wk.obj.ready
        /\ wk'.obj.fini = wk.obj.fini
        /\ \A r \in Servers : r # s => bmc'[r] = bmc[r]
    BY <1>7 DEF Recorded, ServerOrdered
  <2>2. wk.base.id = NoServer /\ wk.obj.id = NoServer /\ s # NoServer
    BY <1>2, <2>1, NoServerAssumption DEF SameIDs
  <2>3. Leaked' = {}
    BY <1>1, <1>4, <2>1, <2>2 DEF CleanState, Leaked, Running, Tracked, InFlight
  <2>4. api[wk.m].live /\ api[wk.m].id = NoServer
    BY <1>1, <2>1 DEF CleanWorker, Ordering
  <2>5. Truthtelling(wk'.obj, bmc')
    BY <1>1, <2>1, <2>2 DEF CleanWorker, Truthtelling
  <2>6. CleanWorker'
    BY <1>1, <1>2, <1>3, <2>1, <2>2, <2>4, <2>5 DEF CleanWorker, Ordering, Agrees
  <2>. QED  BY <1>5, <2>1, <2>3, <2>6 DEF CleanState
<1>8. CASE Answered
  <2>1. /\ UNCHANGED bmc /\ SameIDs(wk'.obj, wk.obj) /\ wk'.obj.fini = wk.obj.fini
    BY <1>8 DEF Answered
  <2>2. Leaked' = {}
    BY <1>1, <1>2, <1>4, <2>1 DEF CleanState, Leaked, Running, Tracked, InFlight, SameIDs
  <2>3. ASSUME NEW m \in Machines PROVE CleanMachine(m)'
    <3>1. CASE node'[m] = node[m]
      BY <1>1, <1>3, <2>1, <3>1 DEF CleanState, CleanMachine
    <3>2. CASE node'[m] # node[m]
      <4>1. m = wk.m /\ wk.pc = "sync" /\ node'[m] = wk.obj.pid
        BY <1>1, <1>8, <3>2 DEF Answered
      <4>2. api[m].live => api[m].id # NoServer /\ api[m].id = wk.obj.id
        BY <1>2, <1>6, <4>1, NoServerAssumption DEF Agrees
      <4>3. api[m].live => api[m].pid = wk.obj.pid
        BY <1>1, <4>1, <4>2 DEF VersionsInv, WorkerVersions, ValidVersion
      <4>. QED
        BY <1>1, <1>3, <2>1, <4>1, <4>2, <4>3 DEF CleanState, CleanMachine
    <3>. QED  BY <3>1, <3>2
  <2>4. Truthtelling(wk'.obj, bmc')
    <3>1. wk'.obj.st = "orphaned" =>
            wk'.obj.id # NoServer /\ bmc[wk'.obj.id].st \notin ReportedStatus
      BY <1>1, <1>2, <1>8, NoServerAssumption
         DEF Answered, CleanWorker, Truthtelling, MishapIf, Mishap, Running, SameIDs
    <3>2. wk'.obj.ready => wk'.obj.id # NoServer /\ bmc[wk'.obj.id].on
      BY <1>1, <1>2, <1>8, NoServerAssumption
         DEF Answered, CleanWorker, Truthtelling, StatusInv, SameIDs
    <3>. QED  BY <2>1, <3>1, <3>2 DEF Truthtelling
  <2>5. wk.base.fini /\ ~wk'.obj.fini /\ api[wk.m].live => ~Running(api[wk.m].id)
    BY <1>1, <1>2, <1>8, <2>1 DEF Answered, CleanWorker, MishapIf, Mishap
  <2>6. CleanWorker'
    BY <1>1, <1>2, <1>3, <1>6, <2>1, <2>4, <2>5
       DEF CleanWorker, Ordering, Agrees, SameIDs, Running
  <2>. QED  BY <2>2, <2>3, <2>6 DEF CleanState
<1>9. CASE Ended
  <2>1. /\ wk.pc = "delete" /\ wk'.obj = wk.obj /\ UNCHANGED node
        /\ bmc' = [bmc EXCEPT ![wk.obj.id].st = "gone"]
    BY <1>9 DEF Ended
  <2>2. /\ \A r \in Servers : Running(r)' => Running(r)
        /\ ~Running(wk.obj.id)'
    BY <1>2, <2>1 DEF Running, Server, ReportedStatus
  <2>3. Leaked' = {}
    BY <1>1, <1>4, <2>1, <2>2 DEF CleanState, Leaked, Tracked, InFlight
  <2>4. CleanWorker'
    BY <1>1, <1>2, <1>3, <1>6, <2>1, <2>2
       DEF CleanWorker, Ordering, Agrees, SameIDs, Running
  <2>. QED  BY <1>5, <2>1, <2>3, <2>4 DEF CleanState
<1>10. ~Mishap
  BY DEF Mishap
<1>. QED  BY <1>7, <1>8, <1>9, <1>10, ExchangeEffect DEF Forgotten

(* The patch of metadata and spec. An order puts a server on record where  *)
(* there was none, and an object goes after its server only.               *)
LEMMA PatchMetaClean ==
  ASSUME TypeInv, VersionsInv, StatusInv, CleanState, PatchMeta
  PROVE  CleanState'
<1>1. PICK m \in Machines :
      /\ m = wk.m /\ wk.pc = "patchMeta" /\ WorkerVersions /\ CleanWorker
      /\ wk'.pc = "patchStatus"
      /\ wk'.m = m /\ wk'.base = wk.base /\ wk'.obj = wk.obj
      /\ UNCHANGED <<cache, bmc, node, mishaps>>
      /\ \A n \in Machines : n # m => api'[n] = api[n]
      /\ IF api[m].live THEN MetaMerged(api[m], wk.base, wk.obj, api'[m])
                        ELSE api'[m] = api[m]
  BY PatchMetaEffect DEF CleanState
<1>2. Ordering <=> wk.obj.id # wk.base.id
  BY <1>1 DEF Ordering
<1>3. /\ CleanMachine(m)
      /\ \A s \in Servers : Running(s) => Tracked(s) \/ InFlight(s)
  BY <1>1 DEF CleanState, Leaked
(* It is enough to look at the object of the worker's machine. *)
<1>4. ASSUME CleanMachine(m)', Agrees(wk.base, api'[m]), Agrees(wk.obj, api'[m]),
             \A s \in Servers :
               /\ api[m].live /\ api[m].id = s /\ Running(s) =>
                    api'[m].live /\ api'[m].id = s
               /\ InFlight(s) => api'[m].live /\ api'[m].id = s
      PROVE  CleanState'
  <2>1. \A s \in Servers : Running(s)' => Tracked(s)'
    BY <1>1, <1>3, <1>4 DEF Running, Tracked
  <2>2. \A n \in Machines : CleanMachine(n)'
    BY <1>1, <1>4 DEF CleanState, CleanMachine
  <2>3. CleanWorker'
    BY <1>1, <1>4 DEF CleanWorker, Ordering
  <2>. QED  BY <2>1, <2>2, <2>3 DEF CleanState, Leaked
<1>5. CASE ~api[m].live
  <2>1. ~Ordering /\ api'[m] = api[m]
    BY <1>1, <1>5 DEF CleanWorker
  <2>. QED
    BY <1>1, <1>2, <1>3, <1>4, <1>5, <2>1 DEF CleanMachine, Agrees, InFlight
<1>6. CASE /\ api[m].live /\ api'[m] = NotFound
           /\ wk.base.fini /\ ~wk.obj.fini /\ api[m].deleting
  <2>1. wk.obj.id = wk.base.id
    BY <1>1, <1>6 DEF WorkerVersions, Changes, SameIDs
  <2>2. api[m].id = NoServer \/ ~Running(api[m].id)
    BY <1>1, <1>6 DEF CleanWorker
  <2>3. ~api'[m].live /\ Truthtelling(api'[m], bmc)
    BY <1>6, FreshObject DEF Truthtelling
  <2>. QED
    BY <1>1, <1>3, <1>4, <2>1, <2>2, <2>3, NoServerAssumption
       DEF CleanMachine, Agrees, InFlight
<1>7. CASE /\ api[m].live /\ api'[m].live /\ SameReport(api'[m], api[m])
           /\ wk.obj.id = wk.base.id /\ api'[m].id = api[m].id
           /\ wk.obj.pid = wk.base.pid => api'[m].pid = api[m].pid
  <2>1. api'[m].pid = api[m].pid
    BY <1>1, <1>7 DEF CleanWorker
  <2>2. Agrees(wk.base, api[m]) /\ Agrees(wk.obj, api[m])
    BY <1>1, <1>2, <1>7 DEF CleanWorker
  <2>. QED
    BY <1>1, <1>3, <1>4, <1>7, <2>1, <2>2
       DEF CleanMachine, Agrees, InFlight, Truthtelling, SameReport
<1>8. CASE /\ api[m].live /\ api'[m].live /\ SameReport(api'[m], api[m])
           /\ wk.base.id = NoServer /\ wk.obj.id # NoServer
           /\ api'[m].id = wk.obj.id
  <2>1. api[m].id = NoServer
    BY <1>1, <1>2, <1>8 DEF CleanWorker
  <2>2. /\ cache[m].id = NoServer /\ node[m] = NoProvider
        /\ ~api[m].ready /\ api[m].st # "orphaned"
    BY <1>3, <1>8, <2>1 DEF CleanMachine, Agrees, Truthtelling
  <2>. QED
    BY <1>1, <1>3, <1>4, <1>8, <2>1, <2>2, NoServerAssumption
       DEF CleanMachine, Agrees, InFlight, Truthtelling, SameReport
<1>. QED  BY <1>1, <1>5, <1>6, <1>7, <1>8 DEF MetaMerged

(* The patch of the status passes on what the working copy says, which is  *)
(* true of the server that the object names by now.                        *)
LEMMA PatchStatusClean ==
  ASSUME TypeInv, VersionsInv, CleanState, PatchStatus \/ PatchStatusFails
  PROVE  CleanState'
<1>1. /\ wk.pc = "patchStatus" /\ wk'.pc = "idle" /\ CleanWorker
      /\ UNCHANGED <<cache, bmc, node>>
      /\ \A n \in Machines :
           \/ api'[n] = api[n]
           \/ n = wk.m /\ StatusMerged(api[n], wk.base, wk.obj, api'[n])
  BY PatchStatusEffect DEF CleanState
<1>2. Agrees(wk.obj, api[wk.m]) /\ Truthtelling(wk.obj, bmc)
  BY <1>1 DEF CleanWorker, Ordering
<1>3. \A n \in Machines : SameIDs(api'[n], api[n]) /\ (api'[n].live <=> api[n].live)
  BY <1>1 DEF StatusMerged, SameIDs
<1>4. Leaked' = {}
  BY <1>1, <1>3 DEF CleanState, Leaked, Running, Tracked, InFlight, SameIDs
<1>5. ASSUME NEW n \in Machines PROVE CleanMachine(n)'
  <2>1. CleanMachine(n)
    BY DEF CleanState
  <2>2. Truthtelling(api'[n], bmc)
    BY <1>1, <1>2, <2>1 DEF StatusMerged, SameIDs, CleanMachine, Truthtelling, Agrees
  <2>. QED  BY <1>1, <1>3, <2>1, <2>2 DEF CleanMachine, Agrees, SameIDs
<1>. QED  BY <1>1, <1>4, <1>5 DEF CleanState

LEMMA PatchMetaFailsClean ==
  ASSUME TypeInv, CleanState, mishaps' = 0, PatchMetaFails
  PROVE  CleanState'
<1>. mishaps \in Nat
  BY DEF TypeInv, TypeOK
<1>1. /\ wk.pc = "patchMeta" /\ wk'.pc = "patchStatus"
      /\ wk'.m = wk.m /\ wk'.base = wk.base /\ wk'.obj = wk.obj
      /\ UNCHANGED <<api, cache, bmc, node>>
      /\ ~InFlight(wk.obj.id)
  BY PatchMetaFailsEffect DEF MishapIf, Mishap
<1>2. wk.obj.id = wk.base.id /\ \A s \in Servers : ~InFlight(s)
  BY <1>1 DEF InFlight
<1>3. CleanWorker'
  BY <1>1, <1>2 DEF CleanState, CleanWorker, Ordering
<1>. QED
  BY <1>1, <1>2, <1>3 DEF CleanState, Leaked, Running, Tracked, CleanMachine

LEMMA CrashClean ==
  ASSUME TypeInv, CleanState, mishaps' = 0, Crash
  PROVE  CleanState'
<1>. mishaps \in Nat
  BY DEF TypeInv, TypeOK
<1>1. /\ wk'.pc = "idle" /\ cache' = api /\ UNCHANGED <<api, bmc, node>>
      /\ ~InFlight(wk.obj.id)
  BY DEF Crash, Idle, cloud, MishapIf, Mishap
<1>2. \A s \in Servers : ~InFlight(s)
  BY <1>1 DEF InFlight
<1>. QED
  BY <1>1, <1>2 DEF CleanState, Leaked, Running, Tracked, CleanMachine, Agrees

LEMMA EnvironmentClean ==
  ASSUME TypeInv, VersionsInv, StatusInv, CleanState, mishaps' = 0, Environment
  PROVE  CleanState'
<1>. mishaps \in Nat
  BY DEF TypeInv, TypeOK
<1>1. /\ UNCHANGED <<wk, node>>
      /\ wk.pc # "idle" => wk.m \in Machines /\ CleanWorker /\ WorkerVersions
  BY EnvironmentEffect DEF TypeInv, WorkerBusy, CleanState, VersionsInv
<1>2. /\ \A m \in Machines : Truthtelling(api[m], bmc') /\ Truthtelling(cache[m], bmc')
      /\ wk.pc # "idle" => Truthtelling(wk.base, bmc') /\ Truthtelling(wk.obj, bmc')
  BY AllServersAge, VersionsStayTrue
<1>3. CASE /\ UNCHANGED <<api, bmc>>
           /\ \A n \in Machines : cache'[n] \in {cache[n], api[n]}
  <2>1. \A m \in Machines : CleanMachine(m)'
    BY <1>1, <1>3 DEF CleanState, CleanMachine, Agrees
  <2>2. wk.pc # "idle" => CleanWorker'
    BY <1>1, <1>3 DEF CleanWorker, Ordering, Running
  <2>. QED
    BY <1>1, <1>3, <2>1, <2>2 DEF CleanState, Leaked, Running, Tracked, InFlight
<1>4. ASSUME NEW m \in Machines, MachineDeleted(m) PROVE CleanState'
  <2>1. /\ UNCHANGED <<cache, bmc>> /\ api[m].live
        /\ \A n \in Machines : n # m => api'[n] = api[n]
    BY <1>4 DEF MachineDeleted
  <2>2. CASE SameIDs(api'[m], api[m]) /\ SameReport(api'[m], api[m]) /\ api'[m].live
    <3>1. \A n \in Machines : /\ api'[n].live <=> api[n].live
                              /\ SameIDs(api'[n], api[n]) /\ SameReport(api'[n], api[n])
      BY <2>1, <2>2 DEF SameIDs, SameReport
    <3>2. \A n \in Machines : CleanMachine(n)'
      BY <1>1, <2>1, <3>1
         DEF CleanState, CleanMachine, Agrees, Truthtelling, SameIDs, SameReport
    <3>3. wk.pc # "idle" => CleanWorker'
      BY <1>1, <2>1, <3>1 DEF CleanWorker, Ordering, Running, Agrees, SameIDs
    <3>. QED
      BY <1>1, <2>1, <3>1, <3>2, <3>3
         DEF CleanState, Leaked, Running, Tracked, InFlight, SameIDs
  <2>3. CASE /\ api'[m] = NotFound /\ ~api[m].fini
             /\ MishapIf(/\ wk.m = m
                         /\ wk.pc = "create" \/ InFlight(wk.obj.id))
    <3>1. api[m].id = NoServer
      BY <2>1, <2>3 DEF VersionsInv, ServerHeldByFinalizer
    <3>2. ~api'[m].live /\ Truthtelling(api'[m], bmc)
      BY <2>3, FreshObject DEF Truthtelling
    <3>3. wk.m = m => ~Ordering
      BY <2>3 DEF MishapIf, Mishap, Ordering, InFlight
    <3>4. Leaked' = {}
      BY <1>1, <2>1, <3>1, NoServerAssumption
         DEF CleanState, Leaked, Running, Tracked, InFlight
    <3>5. \A n \in Machines : CleanMachine(n)'
      BY <1>1, <2>1, <3>2 DEF CleanState, CleanMachine, Agrees
    <3>6. wk.pc # "idle" => CleanWorker'
      BY <1>1, <2>1, <3>2, <3>3 DEF CleanWorker, Ordering, Running, Agrees
    <3>. QED  BY <1>1, <3>4, <3>5, <3>6 DEF CleanState
  <2>. QED  BY <1>4, <2>2, <2>3 DEF MachineDeleted
<1>5. ASSUME NEW s \in Servers, ServerMoves(s) PROVE CleanState'
  <2>1. /\ UNCHANGED <<api, cache>>
        /\ \A r \in Servers : Running(r)' => Running(r)
    BY <1>5 DEF ServerMoves, Running
  <2>2. Leaked' = {}
    BY <1>1, <2>1 DEF CleanState, Leaked, Tracked, InFlight
  <2>3. \A m \in Machines : CleanMachine(m)'
    BY <1>1, <1>2, <2>1 DEF CleanState, CleanMachine
  <2>4. wk.pc # "idle" /\ api[wk.m].id # NoServer => api[wk.m].id \in Servers
    BY <1>1 DEF TypeInv, TypeOK, Object, ServerID
  <2>5. wk.pc # "idle" => CleanWorker'
    BY <1>1, <1>2, <2>1, <2>4 DEF CleanWorker, Ordering
  <2>. QED  BY <1>1, <2>2, <2>3, <2>5 DEF CleanState
<1>. QED  BY <1>3, <1>4, <1>5, EnvironmentEffect

LEMMA MishapsCount ==
  ASSUME TypeInv, [Next]_vars
  PROVE  mishaps \in Nat /\ mishaps' \in {mishaps, mishaps + 1}
<1>. USE DEF NoMishap, Mishap, MishapIf
<1>. mishaps \in Nat
  BY DEF TypeInv, TypeOK
<1>1. CASE \E m \in Machines : Reconcile(m)
  BY <1>1, ReconcileEffect DEF Reconcile, Decided
<1>2. CASE Exchange
  BY <1>2, ExchangeEffect DEF Recorded, Forgotten, Answered, Ended
<1>3. CASE Patch
  BY <1>3, PatchStatusEffect DEF Patch, PatchMeta, PatchMetaFails
<1>4. CASE Crash
  BY <1>4 DEF Crash
<1>5. CASE Environment
  BY <1>5, EnvironmentEffect DEF MachineDeleted, ServerMoves
<1>6. CASE UNCHANGED vars
  BY <1>6 DEF vars
<1>. QED
  BY <1>1, <1>2, <1>3, <1>4, <1>5, <1>6 DEF Next, TypeInv, TypeOK

(* The server of a machine is not exchanged, and machines do not come back.*)
LEMMA IdentityStep ==
  ASSUME TypeInv, VersionsInv, StatusInv, CleanState, Next,
         NEW m \in Machines, api'[m].live
  PROVE  /\ api[m].live
         /\ api[m].id # NoServer => api'[m].id = api[m].id
<1>1. CASE PatchMeta
  <2>1. wk.m = m /\ api[m].live => ~Ordering
                                   \/ api[m].id = NoServer
    BY <1>1 DEF PatchMeta, CleanState, CleanWorker
  <2>2. /\ wk.pc = "patchMeta"
        /\ \/ api'[m] = api[m]
           \/ wk.m = m /\ api[m].live /\ MetaMerged(api[m], wk.base, wk.obj, api'[m])
    BY <1>1, PatchMetaEffect
  <2>. QED  BY <2>1, <2>2, FreshObject DEF MetaMerged, Ordering
<1>2. CASE PatchStatus \/ PatchStatusFails
  BY <1>2, PatchStatusEffect DEF StatusMerged, SameIDs
<1>3. CASE Environment
  BY <1>3, EnvironmentEffect, FreshObject DEF MachineDeleted, ServerMoves, SameIDs
<1>4. CASE PatchMetaFails \/ Crash
  BY <1>4 DEF PatchMetaFails, Crash, kube
<1>. QED
  BY <1>1, <1>2, <1>3, <1>4, ReconcileEffect, ExchangeEffect
     DEF Next, Reconcile, Patch

LEMMA ServersStep ==
  ASSUME TypeInv, VersionsInv, StatusInv, CleanState, ServersKnown,
         OneServerPerMachine, mishaps = 0, mishaps' = 0, Next
  PROVE  ServersKnown' /\ OneServerPerMachine'
<1>1. \A m \in Machines :
        api'[m].live => /\ api[m].live
                        /\ api[m].id # NoServer => api'[m].id = api[m].id
  BY IdentityStep
<1>2. ~Mishap
  BY DEF Mishap
(* An id on its way is stored or still on its way after the step.          *)
<1>3. ASSUME \A s \in Servers : bmc'[s].owner = bmc[s].owner /\ (Built(s)' => Built(s)),
             \A s \in Servers :
               InFlight(s) => InFlight(s)' \/ \A m \in Machines :
                 bmc[s].owner = m /\ api'[m].live => api'[m].id = s
      PROVE  ServersKnown' /\ OneServerPerMachine'
  <2>1. OneServerPerMachine'
    BY <1>3 DEF OneServerPerMachine
  <2>2. ServersKnown'
    BY <1>1, <1>3, NoServerAssumption DEF ServersKnown
  <2>. QED  BY <2>1, <2>2
<1>4. ASSUME \A s \in Servers : ~InFlight(s), UNCHANGED bmc
      PROVE  ServersKnown' /\ OneServerPerMachine'
  BY <1>3, <1>4 DEF Built
<1>5. CASE \E m \in Machines : Reconcile(m)
  BY <1>4, <1>5, ReconcileEffect DEF Reconcile, InFlight
<1>6. CASE Exchange
  <2>1. /\ wk.pc \in {"create", "sync", "delete"} /\ UNCHANGED api
        /\ wk'.pc = "patchMeta" /\ wk'.m = wk.m /\ wk'.base = wk.base
        /\ wk.m \in Machines /\ CleanWorker /\ WorkerVersions
        /\ bmc \in [Servers -> Server]
        /\ wk.pc = "delete" => wk.obj.id \in Servers
    BY <1>6, ExchangeEffect DEF TypeInv, TypeOK, WorkerBusy, VersionsInv, CleanState
  <2>2. \A s \in Servers : ~InFlight(s)
    BY <2>1 DEF InFlight
  <2>3. ASSUME NEW s \in Servers, Recorded(s)
        PROVE  ServersKnown' /\ OneServerPerMachine'
    <3>1. /\ wk.pc = "create" /\ wk'.obj.id = s /\ bmc[s].st = "unborn"
          /\ bmc'[s].owner = wk.m
          /\ \A r \in Servers : r # s => bmc'[r] = bmc[r]
      BY <2>1, <2>3 DEF Recorded, ServerOrdered, Server
    <3>2. /\ api[wk.m].live /\ api[wk.m].id = NoServer
          /\ wk.base.id = NoServer
      BY <2>1, <3>1 DEF CleanWorker, Ordering, WorkerVersions, SameIDs
    <3>3. \A r \in Servers : Built(r) => bmc[r].owner # wk.m
      BY <2>1, <2>2, <3>2, NoServerAssumption DEF ServersKnown
    <3>4. InFlight(s)'
      BY <2>1, <3>1, <3>2, NoServerAssumption DEF InFlight
    <3>5. ServersKnown'
      BY <2>1, <2>2, <3>1, <3>4 DEF ServersKnown, Built
    <3>6. OneServerPerMachine'
      BY <3>1, <3>3 DEF OneServerPerMachine, Built
    <3>. QED  BY <3>5, <3>6
  <2>4. CASE Answered
    BY <1>4, <2>2, <2>4 DEF Answered
  <2>5. CASE Ended
    <3>1. \A s \in Servers : /\ bmc'[s].owner = bmc[s].owner
                             /\ Built(s)' => Built(s)
      BY <2>1, <2>5 DEF Ended, Built, Running, ReportedStatus, Server
    <3>. QED  BY <1>3, <2>2, <3>1
  <2>. QED  BY <1>2, <1>6, <2>3, <2>4, <2>5, ExchangeEffect DEF Forgotten
<1>7. CASE PatchMeta
  <2>1. /\ wk.pc = "patchMeta" /\ WorkerVersions /\ UNCHANGED bmc
        /\ \/ ~api'[wk.m].live
           \/ MetaMerged(api[wk.m], wk.base, wk.obj, api'[wk.m])
    BY <1>7, PatchMetaEffect
  <2>2. ASSUME NEW s \in Servers, InFlight(s), api'[bmc[s].owner].live
        PROVE  api'[bmc[s].owner].id = s
    <3>1. bmc[s].owner = wk.m /\ wk.obj.id = s /\ wk.base.id # s
      BY <2>1, <2>2, NoServerAssumption DEF InFlight, WorkerVersions, ValidVersion
    <3>. QED  BY <2>1, <2>2, <3>1, FreshObject DEF MetaMerged
  <2>. QED  BY <1>3, <2>1, <2>2 DEF Built
<1>8. CASE PatchMetaFails \/ Crash
  <2>1. UNCHANGED bmc /\ ~InFlight(wk.obj.id)
    BY <1>2, <1>8 DEF PatchMetaFails, Crash, MishapIf, cloud
  <2>. QED  BY <1>4, <2>1 DEF InFlight
<1>9. CASE PatchStatus \/ PatchStatusFails
  BY <1>4, <1>9, PatchStatusEffect DEF InFlight
<1>10. CASE Environment
  <2>1. UNCHANGED wk
    BY <1>10, EnvironmentEffect
  <2>2. \A s \in Servers : /\ bmc'[s].owner = bmc[s].owner
                           /\ Built(s)' => Built(s)
    BY <1>10, EnvironmentEffect
       DEF MachineDeleted, ServerMoves, Built, Running, ReportedStatus
  <2>. QED  BY <1>3, <2>1, <2>2 DEF InFlight
<1>. QED
  BY <1>5, <1>6, <1>7, <1>8, <1>9, <1>10 DEF Next, Patch

LEMMA CleanStep ==
  TypeInv /\ VersionsInv /\ StatusInv /\ CleanInv /\ [Next]_vars => CleanInv'
<1>. SUFFICES ASSUME TypeInv, VersionsInv, StatusInv, CleanInv, [Next]_vars,
                     mishaps' = 0
              PROVE  CleanState' /\ ServersKnown' /\ OneServerPerMachine'
  BY DEF CleanInv
<1>1. mishaps = 0
  <2>1. mishaps \in Nat /\ (mishaps' = mishaps \/ mishaps' = mishaps + 1)
    BY MishapsCount
  <2>. QED  BY <2>1
<1>2. CleanState /\ ServersKnown /\ OneServerPerMachine
  BY <1>1 DEF CleanInv
<1>3. CASE UNCHANGED vars
  <2>1. CleanState'
    BY <1>2, <1>3
       DEF vars, CleanState, CleanMachine, CleanWorker, Agrees, Ordering, Leaked,
           Running, Tracked, InFlight
  <2>. QED
    BY <1>2, <1>3, <2>1 DEF vars, ServersKnown, OneServerPerMachine, Built, InFlight
<1>4. CASE Next
  <2>1. CleanState'
    BY <1>2, <1>4, ReconcileClean, ExchangeClean, PatchMetaClean, PatchMetaFailsClean,
       PatchStatusClean, CrashClean, EnvironmentClean DEF Next, Reconcile, Patch
  <2>. QED  BY <1>1, <1>2, <1>4, <2>1, ServersStep
<1>. QED  BY <1>3, <1>4

LEMMA CleanInvariance == Spec => [](TypeInv /\ VersionsInv /\ StatusInv /\ CleanInv)
BY StatusInvariance, CleanInit, CleanStep, PTL DEF Spec

(* What holds as long as nothing has happened that can cost a server: every*)
(* running server is on record, and whatever versions of a machine there   *)
(* are, in the API server, the cache or a reconcile, they tell the truth   *)
(* about the same server.                                                  *)
THEOREM CleanHolds == Spec => []CleanInv
<1>1. TypeInv /\ VersionsInv /\ StatusInv /\ CleanInv => CleanInv
  OBVIOUS
<1>. QED  BY <1>1, CleanInvariance, PTL

(* Without mishaps a machine never gets a second server, however its       *)
(* reconciles, retries, resyncs and crashes interleave.                    *)
THEOREM OneServerEach == Spec => []OneServerPerMachine
<1>1. TypeInv /\ VersionsInv /\ StatusInv /\ CleanInv => OneServerPerMachine
  BY DEF CleanInv, OneServerPerMachine
<1>. QED  BY <1>1, CleanInvariance, PTL

(* Without mishaps a machine is only reported ready when its own server has*)
(* been powered on.                                                        *)
THEOREM ReadyIsTrue == Spec => []ReadyMeansPoweredOn
<1>1. TypeInv /\ VersionsInv /\ StatusInv /\ CleanInv => ReadyMeansPoweredOn
  BY DEF CleanInv, CleanState, CleanMachine, Truthtelling, ReadyMeansPoweredOn
<1>. QED  BY <1>1, CleanInvariance, PTL

(* Without mishaps the node of the workload cluster carries the provider id*)
(* of its machine, although it was patched by a reconcile whose own result *)
(* may never have been stored.                                             *)
THEOREM NodesMatch == Spec => []NodeMatchesProvider
<1>1. TypeInv /\ VersionsInv /\ StatusInv /\ CleanInv => NodeMatchesProvider
  BY DEF CleanInv, CleanState, CleanMachine, NodeMatchesProvider
<1>. QED  BY <1>1, CleanInvariance, PTL

(* Without mishaps the server of a machine is never exchanged for another. *)
THEOREM IdentityIsKept == Spec => IdentityKept
<1>. DEFINE A == mishaps = 0 =>
       \A m \in Machines :
         api[m].id # NoServer /\ api'[m].live => api'[m].id = api[m].id
<1>1. TypeInv /\ VersionsInv /\ StatusInv /\ CleanInv /\ [Next]_vars => [A]_vars
  BY IdentityStep DEF CleanInv
<1>2. Spec => [][A]_vars
  BY <1>1, CleanInvariance, PTL DEF Spec
<1>. QED  BY <1>2 DEF IdentityKept

=============================================================================
