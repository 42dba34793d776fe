-------------------------- MODULE BMCMachineProofs --------------------------
(***************************************************************************)
(* Theorems about the BMCMachine controller, for any number of machines,   *)
(* servers and mishaps.                                                    *)
(***************************************************************************)
EXTENDS BMCMachine, TLAPS

-----------------------------------------------------------------------------
(* The operations of BMCMachineObject return BMCMachines. *)

LEMMA NewObjectType ==
  NewObject \in Object /\ BareObject \in Object /\ NotFound \in Object
BY DEF NewObject, BareObject, NotFound, Object, ServerID, ProviderID, NoProvider,
       MachineStatus, OwnStatus, Failure

LEMMA FiniType ==
  ASSUME NEW o \in Object
  PROVE  AddFini(o) \in Object /\ RemoveFini(o) \in Object
BY DEF Object, AddFini, RemoveFini

LEMMA StatusType ==
  ASSUME NEW o \in Object, NEW st \in MachineStatus, NEW why \in Failure
  PROVE  /\ SetBMCStatus(o, st) \in Object
         /\ MarkStatus(o, st) \in Object
         /\ SetIrreconcilable(o, why) \in Object
         /\ MarkIrreconcilable(o, why) \in Object
         /\ MergeBMCStatusProperties(o, st) \in Object
         /\ SetStatus(o, st) \in Object
         /\ SetReady(o) \in Object
         /\ SetNodeRef(o) \in Object
<1>. "irreconcilable" \in MachineStatus /\ "none" \in Failure
  BY DEF MachineStatus, OwnStatus, Failure
<1>1. SetBMCStatus(o, st) \in Object
  BY DEF Object, SetBMCStatus
<1>2. SetIrreconcilable(o, why) \in Object
  BY DEF Object, SetIrreconcilable
<1>3. SetStatus(o, st) \in Object
  BY DEF Object, SetStatus
<1>4. MergeBMCStatusProperties(o, st) \in Object
  BY DEF Object, MergeBMCStatusProperties
<1>5. SetReady(o) \in Object /\ SetNodeRef(o) \in Object
  BY DEF Object, SetReady, SetNodeRef
<1>. QED
  BY <1>1, <1>2, <1>3, <1>4, <1>5 DEF MarkStatus, MarkIrreconcilable

LEMMA MachineIDType ==
  ASSUME NEW o \in Object, NEW s \in Servers
  PROVE  SetProviderID(o, s) \in Object /\ SetMachineID(o, s) \in Object
BY DEF Object, SetProviderID, SetMachineID, ProviderID, ServerID

LEMMA SynchronizeType ==
  ASSUME NEW o \in Object, NEW st \in ReportedStatus
  PROVE  EnsureReady(ApplyDelta(o, st), st) \in Object
<1>1. st \in MachineStatus /\ "failed" \in Failure
  BY DEF MachineStatus, Failure
<1>2. ApplyDelta(o, st) \in Object
  BY <1>1, StatusType DEF ApplyDelta
<1>. QED  BY <1>1, <1>2, StatusType DEF EnsureReady

LEMMA MergeType ==
  ASSUME NEW stored \in Object, NEW base \in Object, NEW obj \in Object
  PROVE  /\ MergeMeta(stored, base, obj) \in Object
         /\ Collected(MergeMeta(stored, base, obj)) \in Object
         /\ MergeStatus(stored, base, obj) \in Object
<1>1. MergeMeta(stored, base, obj) \in Object
  BY DEF Object, MergeMeta, Merge
<1>2. MergeStatus(stored, base, obj) \in Object
  BY DEF Object, MergeStatus, Merge
<1>. QED  BY <1>1, <1>2, NewObjectType DEF Collected

-----------------------------------------------------------------------------
(* Type correctness. TypeOK is not inductive: a worker that is busy has a  *)
(* machine, and one that asks about a server, or has it deprovisioned, has *)
(* its id.                                                                 *)

WorkerBusy ==
  /\ wk.pc # "idle" => wk.m \in Machines
  /\ wk.pc \in {"sync", "delete"} => wk.obj.id \in Servers

TypeInv == TypeOK /\ WorkerBusy

LEMMA TypeInit == Init => TypeInv
<1>. SUFFICES ASSUME Init PROVE TypeInv
  OBVIOUS
<1>1. wk \in Worker /\ WorkerBusy
  BY NewObjectType DEF Init, Idle, Worker, WorkerBusy
<1>2. bmc \in [Servers -> Server]
  BY DEF Init, Server, ServerState
<1>3. api \in [Machines -> Object] /\ cache \in [Machines -> Object]
  BY NewObjectType DEF Init
<1>4. node \in [Machines -> ProviderID]
  BY DEF Init, ProviderID
<1>. QED  BY <1>1, <1>2, <1>3, <1>4 DEF Init, TypeInv, TypeOK

LEMMA MishapType ==
  ASSUME mishaps \in Nat,
         NoMishap \/ Mishap \/ (\E c : MishapIf(c))
  PROVE  mishaps' \in Nat
BY DEF NoMishap, Mishap, MishapIf

(* Taking a key from the queue and going on at pc keeps the types. *)
LEMMA ProceedType ==
  ASSUME TypeInv, NEW m \in Machines, NEW o \in Object, NEW again \in BOOLEAN,
         NEW pc \in {"create", "sync", "delete", "patchMeta"},
         pc \in {"sync", "delete"} => o.id \in Servers,
         Take(m), Proceed(m, pc, o, again), mishaps' \in Nat
  PROVE  TypeInv'
<1>1. wk' \in Worker /\ WorkerBusy'
  BY DEF TypeInv, TypeOK, WorkerBusy, Proceed, Worker
<1>. QED  BY <1>1 DEF TypeInv, TypeOK, Take, kube, cloud

LEMMA ReconcileTyped ==
  ASSUME TypeInv, NEW m \in Machines, NEW g, ReconcileAt(m, g)
  PROVE  TypeInv'
<1>. cache[m] \in Object /\ AddFini(cache[m]) \in Object /\ RemoveFini(cache[m]) \in Object
  BY FiniType DEF TypeInv, TypeOK
<1>. AddFini(cache[m]).id = cache[m].id /\ RemoveFini(cache[m]).id = cache[m].id
  BY DEF AddFini, RemoveFini, Object
<1>. cache[m].id \in ServerID /\ mishaps \in Nat
  BY DEF Object, TypeInv, TypeOK
<1>1. CASE ReconcileNothing(m, g)
  BY <1>1, MishapType
     DEF ReconcileNothing, Take, TypeInv, TypeOK, WorkerBusy, kube, cloud
<1>2. CASE ReconcileDelete(m, g)
  <2>1. HasServerToDeprovision(RemoveFini(cache[m])) =>
          RemoveFini(cache[m]).id \in Servers
    BY DEF HasServerToDeprovision, ServerID
  <2>. QED
    BY <1>2, <2>1, ProceedType, MishapType DEF ReconcileDelete, Reconcilable
<1>3. CASE ReconcileSuspended(m, g)
  BY <1>3, ProceedType, MishapType DEF ReconcileSuspended, Reconcilable
<1>4. CASE ReconcileWaiting(m, g)
  BY <1>4, ProceedType, MishapType DEF ReconcileWaiting, ReconcileLive, Reconcilable
<1>5. CASE ReconcileCreate(m, g)
  BY <1>5, ProceedType, MishapType DEF ReconcileCreate, ReconcileLive, Reconcilable
<1>6. CASE ReconcileSynchronize(m, g)
  <2>1. cache[m].id \in Servers
    BY <1>6 DEF ReconcileSynchronize, NeedsServer, ServerID
  <2>. QED
    BY <1>6, <2>1, ProceedType, MishapType
       DEF ReconcileSynchronize, ReconcileLive, Reconcilable
<1>. QED  BY <1>1, <1>2, <1>3, <1>4, <1>5, <1>6 DEF ReconcileAt

(* A handler that returns a BMCMachine keeps the types, if its effects on  *)
(* BMC and on the node do.                                                 *)
LEMMA ReturnType ==
  ASSUME TypeInv, NEW pc \in {"create", "sync", "delete"},
         NEW o \in Object, NEW again \in BOOLEAN,
         Calling(pc), Return(o, again), mishaps' \in Nat,
         bmc' \in [Servers -> Server], node' \in [Machines -> ProviderID]
  PROVE  TypeInv'
<1>1. wk' \in Worker /\ WorkerBusy'
  BY DEF TypeInv, TypeOK, WorkerBusy, Calling, Return, Worker
<1>. QED  BY <1>1 DEF TypeInv, TypeOK, Calling, kube

LEMMA ProvisionType ==
  ASSUME TypeInv, NEW s \in Servers, wk.pc = "create", Provision(s)
  PROVE  bmc' \in [Servers -> Server] /\ node' \in [Machines -> ProviderID]
BY DEF TypeInv, TypeOK, WorkerBusy, Provision, Server, ServerState, ReportedStatus

LEMMA DeprovisionType ==
  ASSUME TypeInv, NEW s \in Servers, Deprovision(s)
  PROVE  bmc' \in [Servers -> Server] /\ node' \in [Machines -> ProviderID]
BY DEF TypeInv, TypeOK, Deprovision, Server, ServerState

LEMMA ExchangeTyped ==
  ASSUME TypeInv, Exchange
  PROVE  TypeInv'
<1>. wk.obj \in Object /\ mishaps \in Nat
  BY DEF TypeInv, TypeOK, Worker
<1>. {"stale", "orphaned", "irreconcilable"} \subseteq MachineStatus
  BY DEF MachineStatus, OwnStatus
<1>. "other" \in MachineStatus /\ {"refused", "failed"} \subseteq Failure
  BY DEF MachineStatus, ReportedStatus, Failure
<1>. UNCHANGED cloud =>
       bmc' \in [Servers -> Server] /\ node' \in [Machines -> ProviderID]
  BY DEF cloud, TypeInv, TypeOK
<1>1. ASSUME NEW s \in Servers, CreateAccepted(s) PROVE TypeInv'
  <2>1. SetMachineID(SetStatus(wk.obj, "other"), s) \in Object
    BY StatusType, MachineIDType
  <2>. QED
    BY <1>1, <2>1, ReturnType, ProvisionType, MishapType DEF CreateAccepted, Calling
<1>2. ASSUME NEW s \in Servers, CreatePanics(s) PROVE TypeInv'
  <2>1. SetProviderID(SetStatus(wk.obj, "other"), s) \in Object
    BY StatusType, MachineIDType
  <2>. QED
    BY <1>2, <2>1, ReturnType, ProvisionType, MishapType DEF CreatePanics, Calling
<1>3. ASSUME NEW s \in Servers, CreateUnanswered(s) PROVE TypeInv'
  BY <1>3, ReturnType, ProvisionType, MishapType DEF CreateUnanswered, Calling
<1>4. CASE CreateRefused
  BY <1>4, ReturnType, StatusType, MishapType DEF CreateRefused
<1>5. CASE CreateDeferred
  BY <1>5, ReturnType, MishapType DEF CreateDeferred
<1>6. CASE SynchronizeAnswered
  <2>. DEFINE r == bmc[wk.obj.id].st
              o == EnsureReady(ApplyDelta(wk.obj, r), r)
  <2>1. r \in ReportedStatus
    BY <1>6 DEF SynchronizeAnswered, Running
  <2>2. o \in Object /\ SetNodeRef(o) \in Object
    BY <2>1, SynchronizeType, StatusType DEF MachineStatus, Failure
  <2>3. bmc' \in [Servers -> Server] /\ mishaps' \in Nat
    BY <1>6 DEF SynchronizeAnswered, NodePatched, NodePatchFails, NoMishap,
                TypeInv, TypeOK
  <2>4. node' \in [Machines -> ProviderID]
    <3>. HIDE DEF o
    <3>1. o.pid \in ProviderID
      BY <2>2 DEF Object
    <3>2. UNCHANGED node \/ NodePatched(wk.m, o)
      BY <1>6 DEF SynchronizeAnswered, NodePatchFails, o
    <3>. QED  BY <3>1, <3>2 DEF NodePatched, TypeInv, TypeOK
  <2>5. Calling("sync") /\ (Return(o, r # "error") \/ Return(SetNodeRef(o), TRUE))
    BY <1>6 DEF SynchronizeAnswered
  <2>. HIDE DEF r, o
  <2>. QED  BY <2>2, <2>3, <2>4, <2>5, ReturnType
<1>7. CASE SynchronizeFailed
  BY <1>7, ReturnType, StatusType, MishapType DEF SynchronizeFailed
<1>8. CASE SynchronizeRejected
  BY <1>8, ReturnType, StatusType, MishapType DEF SynchronizeRejected
<1>9. CASE SynchronizeDenied
  BY <1>9, ReturnType, StatusType, MishapType DEF SynchronizeDenied
<1>10. CASE SynchronizeUnexpected
  BY <1>10, ReturnType, MishapType DEF SynchronizeUnexpected
<1>11. CASE DeprovisionAccepted
  BY <1>11, ReturnType, DeprovisionType, MishapType
     DEF DeprovisionAccepted, Calling, TypeInv, WorkerBusy
<1>12. CASE DeprovisionFailed
  <2>1. \A st \in {"irreconcilable", "orphaned", wk.obj.st} :
          SetBMCStatus(wk.obj, st) \in Object
    BY StatusType DEF Object
  <2>. QED  BY <1>12, <2>1, ReturnType, MishapType DEF DeprovisionFailed
<1>. QED
  BY <1>1, <1>2, <1>3, <1>4, <1>5, <1>6, <1>7, <1>8, <1>9, <1>10, <1>11, <1>12
     DEF Exchange

LEMMA PatchTyped ==
  ASSUME TypeInv, Patch
  PROVE  TypeInv'
<1>. wk.base \in Object /\ wk.obj \in Object /\ wk.m \in Machines
  BY DEF TypeInv, TypeOK, WorkerBusy, Worker, Patch, PatchMeta, PatchMetaFails,
         PatchStatus, PatchStatusFails
<1>1. CASE PatchMeta
  <2>1. api' \in [Machines -> Object]
    BY <1>1, MergeType DEF PatchMeta, TypeInv, TypeOK
  <2>2. wk' \in Worker /\ WorkerBusy'
    BY <1>1 DEF PatchMeta, TypeInv, TypeOK, Worker, WorkerBusy
  <2>. QED  BY <1>1, <2>1, <2>2 DEF PatchMeta, TypeInv, TypeOK, cloud
<1>2. CASE PatchMetaFails
  <2>1. wk' \in Worker /\ WorkerBusy'
    BY <1>2 DEF PatchMetaFails, TypeInv, TypeOK, Worker, WorkerBusy
  <2>. QED
    BY <1>2, <2>1, MishapType DEF PatchMetaFails, TypeInv, TypeOK, kube, cloud
<1>3. ASSUME Finish PROVE wk' \in Worker /\ WorkerBusy' /\ queue' \subseteq Machines
  BY <1>3, NewObjectType DEF Finish, Idle, Worker, WorkerBusy, TypeInv, TypeOK
<1>4. CASE PatchStatus
  <2>1. api' \in [Machines -> Object]
    BY <1>4, MergeType DEF PatchStatus, TypeInv, TypeOK
  <2>. QED  BY <1>3, <1>4, <2>1 DEF PatchStatus, TypeInv, TypeOK, cloud
<1>5. CASE PatchStatusFails
  BY <1>3, <1>5, MishapType DEF PatchStatusFails, TypeInv, TypeOK, kube, cloud
<1>. QED  BY <1>1, <1>2, <1>4, <1>5 DEF Patch

LEMMA CrashTyped ==
  ASSUME TypeInv, Crash
  PROVE  TypeInv'
<1>1. wk' \in Worker /\ WorkerBusy'
  BY NewObjectType DEF Crash, Idle, Worker, WorkerBusy
<1>. QED  BY <1>1, MishapType DEF Crash, TypeInv, TypeOK, cloud

LEMMA EnvironmentTyped ==
  ASSUME TypeInv, Environment
  PROVE  TypeInv'
<1>1. ASSUME NEW m \in Machines,
             WatchEvent(m) \/ Resync(m)
      PROVE  TypeInv'
  BY <1>1 DEF WatchEvent, Resync, TypeInv, TypeOK, WorkerBusy, kube, cloud
<1>2. ASSUME NEW m \in Machines, DeleteRequested(m) PROVE TypeInv'
  <2>1. api' \in [Machines -> Object]
    <3>1. [api[m] EXCEPT !.deleting = TRUE] \in Object
      BY DEF TypeInv, TypeOK, Object
    <3>2. Collected([api[m] EXCEPT !.deleting = TRUE]) \in Object
      BY <3>1, NewObjectType DEF Collected
    <3>. QED  BY <1>2, <3>2 DEF DeleteRequested, TypeInv, TypeOK
  <2>. QED
    BY <1>2, <2>1, MishapType DEF DeleteRequested, TypeInv, TypeOK, WorkerBusy, cloud
<1>3. ASSUME NEW s \in Servers, ServerChanges(s) PROVE TypeInv'
  <2>1. PICK st \in ServerState, on \in BOOLEAN :
          bmc' = [bmc EXCEPT ![s].st = st, ![s].on = on]
    <3>1. ASSUME NEW st \in Reports,
                 bmc' = [bmc EXCEPT ![s].st = st, ![s].on = @ \/ st = "powered-on"]
          PROVE  bmc' = [bmc EXCEPT ![s].st = st,
                                    ![s].on = (bmc[s].on \/ st = "powered-on")]
      BY <3>1 DEF TypeInv, TypeOK, Server
    <3>2. CASE bmc' = [bmc EXCEPT ![s].st = "gone"]
      <4>1. bmc' = [bmc EXCEPT ![s].st = "gone", ![s].on = bmc[s].on]
        BY <3>2 DEF TypeInv, TypeOK, Server
      <4>. QED  BY <4>1 DEF TypeInv, TypeOK, Server, ServerState
    <3>. QED
      BY <1>3, <3>1, <3>2, MachineAssumption DEF ServerChanges, ServerState
  <2>2. bmc' \in [Servers -> Server]
    BY <2>1 DEF TypeInv, TypeOK, Server
  <2>. QED  BY <1>3, <2>2 DEF ServerChanges, TypeInv, TypeOK, WorkerBusy, kube
<1>4. ASSUME NEW now \in SUBSET Machines, NEW woken \in SUBSET Machines,
             RelatedEvent(now, woken)
      PROVE  TypeInv'
  BY <1>4 DEF RelatedEvent, TypeInv, TypeOK, WorkerBusy, kube, cloud
<1>. QED  BY <1>1, <1>2, <1>3, <1>4 DEF Environment

LEMMA TypeStep == TypeInv /\ [Next]_vars => TypeInv'
<1>. SUFFICES ASSUME TypeInv, [Next]_vars PROVE TypeInv'
  OBVIOUS
<1>1. CASE UNCHANGED vars
  BY <1>1 DEF vars, TypeInv, TypeOK, WorkerBusy
<1>. QED
  BY <1>1, ReconcileTyped, ExchangeTyped, PatchTyped, CrashTyped, EnvironmentTyped
     DEF Next, Reconcile

(* In every behaviour every variable keeps its type. *)
THEOREM TypeCorrect == Spec => []TypeOK
<1>1. Spec => []TypeInv
  BY TypeInit, TypeStep, PTL DEF Spec
<1>2. TypeInv => TypeOK
  BY DEF TypeInv
<1>. QED  BY <1>1, <1>2, PTL

-----------------------------------------------------------------------------
(* The versions of a machine. Servers, once born, keep their owner, so what*)
(* held of a version when it was written holds ever after. That is why an  *)
(* outdated cache cannot make the controller confuse machines.             *)

ServersKept ==
  \A s \in Servers : bmc[s].st # "unborn" => /\ bmc'[s].owner = bmc[s].owner
                                             /\ bmc'[s].st # "unborn"

LEMMA ServersAreKept == TypeInv /\ [Next]_vars => ServersKept
<1>. SUFFICES ASSUME TypeInv, [Next]_vars PROVE ServersKept
  OBVIOUS
<1>. bmc \in [Servers -> Server]
  BY DEF TypeInv, TypeOK
<1>1. ASSUME UNCHANGED bmc PROVE ServersKept
  BY <1>1 DEF ServersKept
<1>2. ASSUME NEW s \in Servers, Provision(s) PROVE ServersKept
  BY <1>2 DEF Provision, ServersKept, Server
<1>3. ASSUME NEW s \in Servers, Deprovision(s) PROVE ServersKept
  BY <1>3 DEF Deprovision, ServersKept, Server
<1>4. ASSUME NEW s \in Servers, ServerChanges(s) PROVE ServersKept
  <2>1. PICK st \in ReportedStatus \cup {"gone"} :
          bmc'[s].owner = bmc[s].owner /\ bmc'[s].st = st
            /\ \A r \in Servers : r # s => bmc'[r] = bmc[r]
    BY <1>4, MachineAssumption DEF ServerChanges, Server
  <2>. QED  BY <2>1 DEF ServersKept, ReportedStatus
<1>5. CASE Exchange
  <2>1. wk.pc = "delete" => wk.obj.id \in Servers
    BY DEF TypeInv, WorkerBusy
  <2>. QED
    BY <1>1, <1>2, <1>3, <1>5, <2>1
       DEF Exchange, CreateAccepted, CreatePanics, CreateUnanswered, CreateRefused,
           CreateDeferred, SynchronizeAnswered, SynchronizeFailed,
           SynchronizeRejected, SynchronizeDenied, SynchronizeUnexpected,
           DeprovisionAccepted, DeprovisionFailed, Calling, cloud
<1>6. CASE UNCHANGED vars \/ Patch \/ Crash \/ \E m \in Machines : Reconcile(m)
  BY <1>1, <1>6
     DEF vars, Patch, PatchMeta, PatchMetaFails, PatchStatus, PatchStatusFails,
         Crash, Reconcile, ReconcileAt, ReconcileNothing, ReconcileDelete, ReconcileSuspended,
         ReconcileWaiting, ReconcileCreate, ReconcileSynchronize, ReconcileLive,
         Reconcilable, Take, cloud
<1>7. CASE Environment
  BY <1>1, <1>4, <1>7
     DEF Environment, WatchEvent, Resync, RelatedEvent,
         DeleteRequested, cloud
<1>. QED  BY <1>5, <1>6, <1>7 DEF Next

LEMMA ValidVersionKept ==
  ASSUME ServersKept, NEW m, NEW o \in Object, ValidVersion(m, o, bmc)
  PROVE  ValidVersion(m, o, bmc')
BY DEF ServersKept, ValidVersion, Object, ServerID

LEMMA SameIDsValid ==
  ASSUME NEW m, NEW o, NEW base, NEW servers,
         ValidVersion(m, base, servers), SameIDs(o, base)
  PROVE  ValidVersion(m, o, servers)
BY DEF ValidVersion, SameIDs

LEMMA VersionsInit == Init => VersionsInv
<1>. SUFFICES ASSUME Init PROVE VersionsInv
  OBVIOUS
<1>1. \A o \in {NewObject, BareObject} :
        o.id = NoServer /\ \A m \in Machines : ValidVersion(m, o, bmc)
  <2>1. /\ NewObject.id = NoServer /\ NewObject.pid = NoProvider
        /\ BareObject.id = NoServer /\ BareObject.pid = NoProvider
    BY DEF NewObject, BareObject
  <2>2. \A s \in Servers : ProviderURL(s) # NoProvider
    BY DEF NoProvider, ProviderURL
  <2>. QED  BY <2>1, <2>2 DEF ValidVersion
<1>2. \A m \in Machines : api[m] \in {NewObject, BareObject} /\ cache[m] = api[m]
  BY DEF Init
<1>3. ServerHeldByFinalizer
  BY <1>1, <1>2 DEF ServerHeldByFinalizer
<1>4. wk.pc = "idle"
  BY DEF Init, Idle
<1>. QED  BY <1>1, <1>2, <1>3, <1>4 DEF VersionsInv, Precedes

(* The objects of the API server and of the cache, and the worker, stay as *)
(* they are.                                                               *)
LEMMA VersionsUnchanged ==
  ASSUME TypeInv, VersionsInv, ServersKept, UNCHANGED <<api, cache, wk>>
  PROVE  VersionsInv'
<1>1. \A m \in Machines : ValidVersion(m, api[m], bmc') /\ ValidVersion(m, cache[m], bmc')
  BY ValidVersionKept DEF VersionsInv, TypeInv, TypeOK
<1>2. wk.pc # "idle" => ValidVersion(wk.m, wk.base, bmc') /\ ValidVersion(wk.m, wk.obj, bmc')
  BY ValidVersionKept DEF VersionsInv, WorkerVersions, TypeInv, TypeOK, Worker
<1>. QED
  BY <1>1, <1>2
     DEF VersionsInv, WorkerVersions, ServerHeldByFinalizer

LEMMA ReconcileVersions ==
  ASSUME TypeInv, VersionsInv, NEW m \in Machines, NEW g, ReconcileAt(m, g)
  PROVE  VersionsInv'
<1>. cache[m] \in Object /\ cache[m].id \in ServerID
  BY DEF TypeInv, TypeOK, Object
<1>1. Take(m)
  BY DEF ReconcileAt, ReconcileNothing, ReconcileDelete, ReconcileSuspended,
         ReconcileWaiting, ReconcileCreate, ReconcileSynchronize, ReconcileLive,
         Reconcilable
<1>2. /\ SameIDs(cache[m], cache[m])
      /\ SameIDs(AddFini(cache[m]), cache[m]) /\ AddFini(cache[m]).fini
      /\ SameIDs(RemoveFini(cache[m]), cache[m])
  BY DEF SameIDs, AddFini, RemoveFini, Object
<1>3. ASSUME NEW pc \in {"create", "sync", "delete", "patchMeta"},
             NEW o, NEW again, Proceed(m, pc, o, again),
             SameIDs(o, cache[m]),
             pc = "create" => o.id = NoServer,
             pc \in {"create", "sync"} => o.fini,
             pc = "delete" => cache[m].deleting,
             pc = "patchMeta" => o.fini \/ ~cache[m].fini \/ cache[m].deleting
      PROVE  VersionsInv'
  <2>1. /\ wk'.pc = pc /\ wk'.m = m /\ wk'.base = cache[m] /\ wk'.obj = o
        /\ UNCHANGED <<api, cache, bmc>>
    BY <1>1, <1>3 DEF Take, Proceed, kube, cloud
  <2>2. /\ ValidVersion(m, cache[m], bmc) /\ Precedes(cache[m], api[m])
        /\ ValidVersion(m, o, bmc)
    BY <1>3, SameIDsValid DEF VersionsInv
  <2>3. WorkerVersions'
    BY <1>3, <2>1, <2>2 DEF WorkerVersions, Changes, SameIDs
  <2>. QED  BY <2>1, <2>3 DEF VersionsInv, ServerHeldByFinalizer
<1>4. CASE ReconcileNothing(m, g)
  BY <1>1, <1>4 DEF ReconcileNothing, Take, kube, cloud, VersionsInv,
                    ServerHeldByFinalizer, WorkerVersions
<1>5. CASE ReconcileDelete(m, g)
  BY <1>2, <1>3, <1>5 DEF ReconcileDelete, IsMarkedDeleted
<1>6. CASE ReconcileSuspended(m, g)
  BY <1>2, <1>3, <1>6 DEF ReconcileSuspended
<1>7. CASE ReconcileWaiting(m, g)
  BY <1>2, <1>3, <1>7 DEF ReconcileWaiting
<1>8. CASE ReconcileCreate(m, g)
  BY <1>2, <1>3, <1>8 DEF ReconcileCreate, NeedsServer, SameIDs
<1>9. CASE ReconcileSynchronize(m, g)
  BY <1>2, <1>3, <1>9 DEF ReconcileSynchronize
<1>. QED  BY <1>4, <1>5, <1>6, <1>7, <1>8, <1>9 DEF ReconcileAt

(* A handler returns: what it hands over is valid and differs from what it *)
(* read in one of the ways that Changes allows.                            *)
LEMMA ReturnVersions ==
  ASSUME TypeInv, VersionsInv, ServersKept,
         NEW pc \in {"create", "sync", "delete"},
         NEW o, NEW again, Calling(pc), Return(o, again),
         ValidVersion(wk.m, o, bmc'), Changes(wk.base, o),
         o.annotated = wk.base.annotated
  PROVE  VersionsInv'
<1>1. /\ wk'.pc = "patchMeta" /\ wk'.m = wk.m /\ wk'.base = wk.base /\ wk'.obj = o
      /\ UNCHANGED <<api, cache>>
  BY DEF Calling, Return, kube, TypeInv, TypeOK, Worker
<1>2. \A m \in Machines : ValidVersion(m, api[m], bmc') /\ ValidVersion(m, cache[m], bmc')
  BY ValidVersionKept DEF VersionsInv, TypeInv, TypeOK
<1>3. ValidVersion(wk.m, wk.base, bmc') /\ Precedes(wk.base, api[wk.m])
  BY ValidVersionKept DEF Calling, VersionsInv, WorkerVersions, TypeInv, TypeOK, Worker
<1>. QED
  BY <1>1, <1>2, <1>3 DEF VersionsInv, WorkerVersions, ServerHeldByFinalizer

LEMMA ReturnSameIDs ==
  ASSUME TypeInv, VersionsInv, ServersKept,
         NEW pc \in {"create", "sync", "delete"},
         NEW o, NEW again, Calling(pc), Return(o, again),
         SameIDs(o, wk.obj), o.fini = wk.obj.fini
  PROVE  VersionsInv'
<1>1. /\ WorkerVersions /\ wk.pc = pc
      /\ wk.obj \in Object /\ wk.base \in Object
  BY DEF Calling, VersionsInv, TypeInv, TypeOK, Worker
<1>2. ValidVersion(wk.m, o, bmc')
  BY <1>1, SameIDsValid, ValidVersionKept DEF WorkerVersions
<1>3. Changes(wk.base, o)
  BY <1>1 DEF WorkerVersions, Changes, SameIDs
<1>. QED  BY <1>1, <1>2, <1>3, ReturnVersions DEF WorkerVersions, SameIDs

(* The status operations leave finalizer and ids alone. *)
LEMMA StatusKeepsIDs ==
  ASSUME NEW o \in Object, NEW st, NEW why
  PROVE  LET Keeps(c) == SameIDs(c, o) /\ c.fini = o.fini
         IN  /\ Keeps(SetBMCStatus(o, st)) /\ Keeps(MarkStatus(o, st))
             /\ Keeps(MarkIrreconcilable(o, why)) /\ Keeps(SetStatus(o, st))
             /\ Keeps(SetNodeRef(o)) /\ Keeps(SetReady(o))
             /\ Keeps(MergeBMCStatusProperties(o, st))
             /\ Keeps(SetIrreconcilable(o, why))
BY DEF SameIDs, Object, SetBMCStatus, MarkStatus, SetIrreconcilable,
       MarkIrreconcilable, SetStatus, SetNodeRef, SetReady, MergeBMCStatusProperties

LEMMA SynchronizeKeepsIDs ==
  ASSUME NEW o \in Object, NEW st \in ReportedStatus
  PROVE  LET c == EnsureReady(ApplyDelta(o, st), st)
         IN  SameIDs(c, o) /\ c.fini = o.fini
<1>. st \in MachineStatus /\ "failed" \in Failure
  BY DEF MachineStatus, Failure
<1>1. MergeBMCStatusProperties(o, st) \in Object
  BY StatusType
<1>2. /\ ApplyDelta(o, st) \in Object
      /\ SameIDs(ApplyDelta(o, st), o) /\ ApplyDelta(o, st).fini = o.fini
  BY <1>1, StatusType, StatusKeepsIDs DEF ApplyDelta, SameIDs
<1>. HIDE DEF ApplyDelta
<1>3. MergeBMCStatusProperties(ApplyDelta(o, st), st) \in Object
  BY <1>2, StatusType
<1>. QED  BY <1>2, <1>3, StatusKeepsIDs DEF EnsureReady, SameIDs

LEMMA CreateVersions ==
  ASSUME TypeInv, VersionsInv, ServersKept, NEW s \in Servers,
         CreateAccepted(s) \/ CreatePanics(s) \/ CreateUnanswered(s)
  PROVE  VersionsInv'
<1>1. /\ Calling("create") /\ WorkerVersions /\ wk.pc = "create" /\ wk.m \in Machines
      /\ wk.obj \in Object /\ wk.base \in Object
  BY DEF CreateAccepted, CreatePanics, CreateUnanswered, Calling, VersionsInv,
         TypeInv, TypeOK, Worker, WorkerBusy
<1>2. /\ wk.obj.id = NoServer /\ wk.obj.fini /\ wk.base.id = NoServer
      /\ wk.obj.pid = wk.base.pid
  BY <1>1 DEF WorkerVersions, SameIDs
<1>3. /\ bmc[s].st = "unborn" /\ bmc'[s].owner = wk.m /\ bmc'[s].st # "unborn"
  BY <1>1 DEF CreateAccepted, CreatePanics, CreateUnanswered, Provision,
              TypeInv, TypeOK, Server
<1>4. wk.base.pid # ProviderURL(s)
  BY <1>1, <1>3 DEF WorkerVersions, ValidVersion
<1>5. NoServer # s /\ \A r \in Servers : ProviderURL(r) = ProviderURL(s) => r = s
  BY NoServerAssumption DEF ProviderURL
<1>6. CASE CreateAccepted(s)
  <2>. DEFINE o == SetMachineID(SetStatus(wk.obj, "other"), s)
  <2>1. o.id = s /\ o.pid = ProviderURL(s) /\ o.fini
    BY <1>1, <1>2 DEF SetMachineID, SetProviderID, SetStatus, Object
  <2>2. o.annotated /\ o.annotated = wk.obj.annotated /\ Return(o, TRUE)
    BY <1>1, <1>6
       DEF CreateAccepted, SetMachineID, SetProviderID, SetStatus, Object
  <2>. HIDE DEF o
  <2>3. ValidVersion(wk.m, o, bmc')
    BY <1>3, <1>5, <2>1, <2>2 DEF ValidVersion
  <2>4. Changes(wk.base, o)
    BY <1>2, <1>4, <1>5, <2>1 DEF Changes
  <2>. QED
    BY <1>1, <2>2, <2>3, <2>4, ReturnVersions DEF WorkerVersions
<1>7. CASE CreatePanics(s)
  <2>. DEFINE o == SetProviderID(SetStatus(wk.obj, "other"), s)
  <2>1. o.id = NoServer /\ o.pid = ProviderURL(s) /\ o.fini
    BY <1>1, <1>2 DEF SetProviderID, SetStatus, Object
  <2>2. ~wk.base.annotated /\ o.annotated = wk.obj.annotated /\ Return(o, TRUE)
    BY <1>1, <1>7 DEF CreatePanics, WorkerVersions, SetProviderID, SetStatus, Object
  <2>. HIDE DEF o
  <2>3. ValidVersion(wk.m, o, bmc')
    BY <1>3, <1>5, <2>1 DEF ValidVersion
  <2>4. Changes(wk.base, o)
    BY <1>2, <2>1, <2>2 DEF Changes
  <2>. QED
    BY <1>1, <2>2, <2>3, <2>4, ReturnVersions DEF WorkerVersions
<1>8. CASE CreateUnanswered(s)
  BY <1>1, <1>8, ReturnSameIDs DEF CreateUnanswered, SameIDs
<1>. QED  BY <1>6, <1>7, <1>8

LEMMA ExchangeVersions ==
  ASSUME TypeInv, VersionsInv, ServersKept, Exchange
  PROVE  VersionsInv'
<1>. wk.obj \in Object
  BY DEF TypeInv, TypeOK, Worker
<1>1. CASE SynchronizeAnswered
  <2>. DEFINE r == bmc[wk.obj.id].st
              o == EnsureReady(ApplyDelta(wk.obj, r), r)
  <2>1. r \in ReportedStatus
    BY <1>1 DEF SynchronizeAnswered, Running
  <2>2. o \in Object /\ SameIDs(o, wk.obj) /\ o.fini = wk.obj.fini
    BY <2>1, SynchronizeKeepsIDs, SynchronizeType
  <2>3. Calling("sync") /\ (Return(o, r # "error") \/ Return(SetNodeRef(o), TRUE))
    BY <1>1 DEF SynchronizeAnswered
  <2>. HIDE DEF r, o
  <2>4. SameIDs(SetNodeRef(o), wk.obj) /\ SetNodeRef(o).fini = wk.obj.fini
    BY <2>2, StatusKeepsIDs DEF SameIDs
  <2>. QED  BY <2>2, <2>3, <2>4, ReturnSameIDs
<1>2. CASE \E s \in Servers : CreateAccepted(s) \/ CreatePanics(s) \/ CreateUnanswered(s)
  BY <1>2, CreateVersions
<1>3. CASE \/ CreateRefused \/ CreateDeferred
           \/ SynchronizeFailed \/ SynchronizeRejected
           \/ SynchronizeDenied \/ SynchronizeUnexpected
           \/ DeprovisionAccepted \/ DeprovisionFailed
  <2>1. SameIDs(wk.obj, wk.obj)
    BY DEF SameIDs
  <2>. QED
    BY <1>3, <2>1, ReturnSameIDs, StatusKeepsIDs
       DEF CreateRefused, CreateDeferred, SynchronizeFailed, SynchronizeRejected,
           SynchronizeDenied, SynchronizeUnexpected, DeprovisionAccepted,
           DeprovisionFailed
<1>. QED  BY <1>1, <1>2, <1>3 DEF Exchange

(* The metadata patch: what is stored stays valid, and the finalizer is    *)
(* only lost together with the object.                                     *)
LEMMA MergeVersions ==
  ASSUME NEW m, NEW stored \in Object, NEW base \in Object, NEW obj \in Object,
         NEW servers,
         stored.live,
         stored.id # NoServer => stored.fini,
         ValidVersion(m, stored, servers), ValidVersion(m, obj, servers),
         Precedes(base, stored), Changes(base, obj),
         obj.annotated = base.annotated
  PROVE  LET new == Collected(MergeMeta(stored, base, obj))
         IN  /\ ValidVersion(m, new, servers)
             /\ new.live => /\ new.id # NoServer => new.fini
                            /\ new.deleting = stored.deleting
                            /\ stored.fini => new.fini
                            /\ new.annotated = stored.annotated
<1>. DEFINE merged == MergeMeta(stored, base, obj)
            new == Collected(merged)
<1>1. /\ merged.live /\ merged.deleting = stored.deleting
      /\ merged.annotated = stored.annotated
      /\ merged.fini = Merge(stored.fini, base.fini, obj.fini)
      /\ merged.id = Merge(stored.id, base.id, obj.id)
      /\ merged.pid = Merge(stored.pid, base.pid, obj.pid)
  BY DEF MergeMeta, Object
<1>2. new = IF merged.deleting /\ ~merged.fini THEN NotFound ELSE merged
  BY DEF Collected
<1>. HIDE DEF merged, new
<1>3. /\ NotFound.id = NoServer /\ NotFound.pid = NoProvider /\ ~NotFound.live
      /\ \A s \in Servers : ProviderURL(s) # NoProvider
  BY DEF NotFound, NewObject, ProviderURL, NoProvider
<1>4. ValidVersion(m, NotFound, servers)
  BY <1>3 DEF ValidVersion
<1>5. ValidVersion(m, merged, servers)
  <2>1. CASE SameIDs(obj, base)
    <3>1. SameIDs(merged, stored)
      BY <1>1, <2>1 DEF SameIDs, Merge, Precedes
    <3>. QED  BY <3>1, SameIDsValid
  <2>2. CASE obj.id # NoServer /\ obj.pid # base.pid /\ base.id = NoServer
    <3>1. SameIDs(merged, obj)
      BY <1>1, <2>2 DEF SameIDs, Merge, Precedes
    <3>. QED  BY <3>1, SameIDsValid
  <2>3. CASE obj.id = NoServer /\ base.id = NoServer /\ ~base.annotated
    <3>1. merged.id = stored.id /\ merged.pid \in {stored.pid, obj.pid}
      BY <1>1, <2>3 DEF Merge
    <3>2. stored.id = NoServer
      BY <2>3 DEF ValidVersion, Precedes
    <3>. QED  BY <3>1, <3>2 DEF ValidVersion
  <2>. QED  BY <2>1, <2>2, <2>3 DEF Changes
<1>6. /\ base.fini \in BOOLEAN /\ obj.fini \in BOOLEAN /\ stored.fini \in BOOLEAN
      /\ base.fini => stored.fini
  BY DEF Object, Precedes
<1>7. ASSUME stored.fini, ~merged.fini PROVE stored.deleting
  <2>1. obj.fini # base.fini /\ ~obj.fini /\ base.fini
    BY <1>1, <1>6, <1>7 DEF Merge
  <2>2. base.deleting
    BY <2>1 DEF Changes
  <2>. QED  BY <2>2 DEF Precedes
<1>8. ASSUME merged.id # NoServer, ~merged.fini PROVE stored.deleting
  <2>1. CASE stored.fini
    BY <1>7, <1>8, <2>1
  <2>2. CASE ~stored.fini
    <3>1. obj.id # base.id
      BY <1>1, <1>8, <2>2 DEF Merge
    <3>2. obj.fini
      BY <3>1 DEF Changes, SameIDs
    <3>3. merged.fini
      BY <1>1, <1>6, <2>2, <3>2 DEF Merge
    <3>. QED  BY <1>8, <3>3
  <2>. QED  BY <2>1, <2>2
<1>9. /\ ValidVersion(m, new, servers)
      /\ new.live => /\ new.id # NoServer => new.fini
                     /\ new.deleting = stored.deleting
                     /\ stored.fini => new.fini
                     /\ new.annotated = stored.annotated
  BY <1>1, <1>2, <1>3, <1>4, <1>5, <1>7, <1>8
<1>. QED  BY <1>9 DEF new, merged

LEMMA PatchVersions ==
  ASSUME TypeInv, VersionsInv, Patch
  PROVE  VersionsInv'
<1>. /\ wk.m \in Machines /\ wk.pc # "idle" /\ WorkerVersions
     /\ wk.base \in Object /\ wk.obj \in Object
  BY DEF TypeInv, TypeOK, WorkerBusy, Worker, VersionsInv, Patch, PatchMeta,
         PatchMetaFails, PatchStatus, PatchStatusFails
<1>. UNCHANGED <<cache, bmc>>
  BY DEF Patch, PatchMeta, PatchMetaFails, PatchStatus, PatchStatusFails, kube, cloud
<1>1. CASE PatchMeta
  <2>. DEFINE m == wk.m
  <2>1. /\ wk'.m = m /\ wk'.base = wk.base /\ wk'.obj = wk.obj
        /\ wk'.pc = "patchStatus"
    BY <1>1 DEF PatchMeta, TypeInv, TypeOK, Worker
  <2>2. \A n \in Machines : n # m => api'[n] = api[n]
    BY <1>1 DEF PatchMeta, TypeInv, TypeOK
  <2>3. /\ ValidVersion(m, api'[m], bmc)
        /\ api'[m].live => /\ api[m].live
                           /\ api'[m].id # NoServer => api'[m].fini
                           /\ api'[m].deleting = api[m].deleting
                           /\ api[m].fini => api'[m].fini
                           /\ api'[m].annotated = api[m].annotated
    <3>1. CASE api[m].live
      <4>. DEFINE new == Collected(MergeMeta(api[m], wk.base, wk.obj))
      <4>1. api'[m] = Collected(MergeMeta(api[m], wk.base, wk.obj))
        BY <1>1, <3>1 DEF PatchMeta, TypeInv, TypeOK
      <4>2. /\ api[m] \in Object
            /\ api[m].id # NoServer => api[m].fini
            /\ ValidVersion(m, api[m], bmc) /\ ValidVersion(m, wk.obj, bmc)
            /\ Precedes(wk.base, api[m]) /\ Changes(wk.base, wk.obj)
            /\ wk.obj.annotated = wk.base.annotated
        BY <1>1, <3>1 DEF PatchMeta, VersionsInv, ServerHeldByFinalizer,
                          WorkerVersions, TypeInv, TypeOK
      <4>. QED  BY <3>1, <4>1, <4>2, MergeVersions
    <3>2. CASE ~api[m].live
      BY <1>1, <3>2 DEF PatchMeta, TypeInv, TypeOK, VersionsInv
    <3>. QED  BY <3>1, <3>2
  <2>4. /\ Precedes(cache[m], api'[m]) /\ Precedes(wk.base, api'[m])
    BY <2>3 DEF Precedes, VersionsInv, WorkerVersions
  <2>. HIDE DEF m
  <2>5. \A n \in Machines : /\ ValidVersion(n, api'[n], bmc)
                            /\ ValidVersion(n, cache[n], bmc)
                            /\ Precedes(cache[n], api'[n])
    BY <2>2, <2>3, <2>4 DEF VersionsInv
  <2>6. ServerHeldByFinalizer'
    BY <2>2, <2>3 DEF VersionsInv, ServerHeldByFinalizer
  <2>7. WorkerVersions'
    BY <2>1, <2>4 DEF WorkerVersions, m
  <2>. QED  BY <2>5, <2>6, <2>7 DEF VersionsInv
<1>2. CASE PatchMetaFails
  BY <1>2 DEF PatchMetaFails, kube, TypeInv, TypeOK, Worker,
              VersionsInv, WorkerVersions, ServerHeldByFinalizer
<1>3. CASE PatchStatus \/ PatchStatusFails
  <2>1. wk'.pc = "idle"
    BY <1>3 DEF PatchStatus, PatchStatusFails, Finish, Idle
  <2>2. \A n \in Machines :
          /\ SameIDs(api'[n], api[n])
          /\ api'[n].live = api[n].live /\ api'[n].deleting = api[n].deleting
          /\ api'[n].fini = api[n].fini
    <3>1. CASE PatchStatusFails
      BY <3>1 DEF PatchStatusFails, kube, SameIDs
    <3>2. CASE PatchStatus
      <4>. SUFFICES ASSUME NEW n \in Machines
                    PROVE  /\ SameIDs(api'[n], api[n])
                           /\ api'[n].live = api[n].live
                           /\ api'[n].deleting = api[n].deleting
                           /\ api'[n].fini = api[n].fini
        OBVIOUS
      <4>1. api'[n] \in {api[n], MergeStatus(api[n], wk.base, wk.obj)}
        BY <3>2 DEF PatchStatus, TypeInv, TypeOK
      <4>2. api[n] \in Object
        BY DEF TypeInv, TypeOK
      <4>. QED  BY <4>1, <4>2 DEF MergeStatus, SameIDs, Object
    <3>. QED  BY <1>3, <3>1, <3>2
  <2>3. \A n \in Machines : ValidVersion(n, api'[n], bmc)
    BY <2>2, SameIDsValid DEF VersionsInv
  <2>. QED
    BY <2>1, <2>2, <2>3 DEF VersionsInv, ServerHeldByFinalizer, Precedes, SameIDs
<1>. QED  BY <1>1, <1>2, <1>3 DEF Patch

LEMMA EnvironmentVersions ==
  ASSUME TypeInv, VersionsInv, ServersKept, Environment
  PROVE  VersionsInv'
<1>1. ASSUME NEW m \in Machines, WatchEvent(m) PROVE VersionsInv'
  <2>1. /\ UNCHANGED <<api, wk, bmc>>
        /\ \A n \in Machines : cache'[n] \in {cache[n], api[n]}
    BY <1>1 DEF WatchEvent, cloud, TypeInv, TypeOK
  <2>. QED
    BY <2>1 DEF VersionsInv, WorkerVersions, ServerHeldByFinalizer, Precedes
<1>2. ASSUME NEW m \in Machines, DeleteRequested(m) PROVE VersionsInv'
  <2>1. /\ UNCHANGED <<cache, wk, bmc>>
        /\ \A n \in Machines : n # m => api'[n] = api[n]
    BY <1>2 DEF DeleteRequested, cloud, TypeInv, TypeOK
  <2>2. \/ ~api'[m].live /\ api'[m].id = NoServer /\ api'[m].pid = NoProvider
        \/ /\ SameIDs(api'[m], api[m]) /\ api[m].live /\ api'[m].deleting
           /\ api'[m].fini = api[m].fini
    BY <1>2 DEF DeleteRequested, Collected, NotFound, NewObject, SameIDs,
                TypeInv, TypeOK, Object
  <2>3. ValidVersion(m, api'[m], bmc)
    <3>1. CASE api'[m].id = NoServer /\ api'[m].pid = NoProvider
      BY <3>1 DEF ValidVersion, NoProvider, ProviderURL
    <3>2. CASE SameIDs(api'[m], api[m])
      BY <3>2, SameIDsValid DEF VersionsInv
    <3>. QED  BY <2>2, <3>1, <3>2
  <2>4. ASSUME NEW o, Precedes(o, api[m]) PROVE Precedes(o, api'[m])
    BY <2>2, <2>4 DEF Precedes, SameIDs
  <2>5. \A n \in Machines : ValidVersion(n, api'[n], bmc) /\ Precedes(cache[n], api'[n])
    BY <2>1, <2>3, <2>4 DEF VersionsInv
  <2>6. ServerHeldByFinalizer'
    BY <2>1, <2>2 DEF VersionsInv, ServerHeldByFinalizer, SameIDs
  <2>7. wk.pc # "idle" => WorkerVersions'
    BY <2>1, <2>4 DEF VersionsInv, WorkerVersions, TypeInv, WorkerBusy
  <2>. QED  BY <2>1, <2>5, <2>6, <2>7 DEF VersionsInv
<1>3. ASSUME UNCHANGED <<api, cache, wk>> PROVE VersionsInv'
  BY <1>3, VersionsUnchanged
<1>. QED
  BY <1>1, <1>2, <1>3
     DEF Environment, Resync, RelatedEvent, ServerChanges, kube

LEMMA VersionsStep == TypeInv /\ VersionsInv /\ [Next]_vars => VersionsInv'
<1>. SUFFICES ASSUME TypeInv, VersionsInv, [Next]_vars PROVE VersionsInv'
  OBVIOUS
<1>1. ServersKept
  BY ServersAreKept
<1>2. CASE UNCHANGED vars
  BY <1>1, <1>2, VersionsUnchanged DEF vars
<1>3. CASE Crash
  <2>1. wk'.pc = "idle" /\ cache' = api /\ UNCHANGED <<api, bmc>>
    BY <1>3 DEF Crash, Idle, cloud
  <2>. QED  BY <2>1 DEF VersionsInv, ServerHeldByFinalizer, Precedes
<1>. QED
  BY <1>1, <1>2, <1>3, ReconcileVersions, ExchangeVersions, PatchVersions,
     EnvironmentVersions DEF Next, Reconcile

LEMMA Invariance == Spec => [](TypeInv /\ VersionsInv)
BY TypeInit, VersionsInit, TypeStep, VersionsStep, PTL DEF Spec

(* What the versions of a machine have in common: all of them, outdated or *)
(* in the hands of the worker, name a server that was made for it.         *)
THEOREM VersionsHold == Spec => []VersionsInv
<1>1. TypeInv /\ VersionsInv => VersionsInv
  OBVIOUS
<1>. QED  BY <1>1, Invariance, PTL

(* An object that names a server has the finalizer that lets the controller*)
(* clean up, however many crashes, failed patches and outdated reads there *)
(* were.                                                                   *)
THEOREM FinalizerHolds == Spec => []ServerHeldByFinalizer
<1>1. VersionsInv => ServerHeldByFinalizer
  BY DEF VersionsInv
<1>. QED  BY <1>1, Invariance, PTL

(* The provider id given to the Cluster API core and the annotation that   *)
(* the controller goes by always name the same server.                     *)
THEOREM IdentitiesAgree == Spec => []ProviderMatchesAnnotation
<1>1. VersionsInv => ProviderMatchesAnnotation
  BY DEF VersionsInv, ValidVersion, ProviderMatchesAnnotation
<1>. QED  BY <1>1, Invariance, PTL

(* The controller never deprovisions the server of a machine that is not   *)
(* being deleted, whatever outdated version of it it reads.                *)
THEOREM OnlyDeletedDeprovisioned == Spec => DeprovisionOnlyDeleted
<1>. DEFINE A == \A s \in Servers :
       wk.pc = "delete" /\ wk' # wk /\ Running(s) /\ ~Running(s)' =>
         LET m == bmc[s].owner IN ~api[m].live \/ api[m].deleting
<1>1. TypeInv /\ VersionsInv /\ [Next]_vars => [A]_vars
  <2>. SUFFICES ASSUME TypeInv, VersionsInv, [Next]_vars,
                       NEW s \in Servers, wk.pc = "delete", wk' # wk,
                       Running(s), ~Running(s)'
                PROVE  ~api[bmc[s].owner].live \/ api[bmc[s].owner].deleting
    OBVIOUS
  <2>1. bmc' # bmc
    BY DEF Running
  <2>2. DeprovisionAccepted
    BY <2>1
       DEF Next, vars, Reconcile, ReconcileAt, ReconcileNothing, ReconcileDelete,
           ReconcileSuspended, ReconcileWaiting, ReconcileCreate,
           ReconcileSynchronize, ReconcileLive, Reconcilable, Take,
           Exchange, CreateAccepted, CreatePanics, CreateUnanswered, CreateRefused,
           CreateDeferred, SynchronizeAnswered, SynchronizeFailed,
           SynchronizeRejected, SynchronizeDenied, SynchronizeUnexpected,
           DeprovisionFailed, Calling, Patch, PatchMeta, PatchMetaFails,
           PatchStatus, PatchStatusFails, Crash, Environment, WatchEvent, Resync,
           RelatedEvent, DeleteRequested, ServerChanges,
           cloud
  <2>3. s = wk.obj.id
    BY <2>2 DEF DeprovisionAccepted, Deprovision, Running, TypeInv, TypeOK
  <2>4. bmc[s].owner = wk.m
    BY <2>3, NoServerAssumption DEF VersionsInv, WorkerVersions, ValidVersion
  <2>5. wk.base.deleting /\ Precedes(wk.base, api[wk.m])
    BY DEF VersionsInv, WorkerVersions
  <2>. QED  BY <2>4, <2>5 DEF Precedes
<1>2. Spec => [][A]_vars
  BY <1>1, Invariance, PTL DEF Spec
<1>. QED  BY <1>2 DEF DeprovisionOnlyDeleted

=============================================================================
