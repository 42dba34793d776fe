------------------------ MODULE InfrastructureProofs ------------------------
(***************************************************************************)
(* Theorems about the two controllers together, for any number of machines,*)
(* servers and blocks: each controller is to the other one what the other  *)
(* one's module expects, so that the theorems about each of them hold here,*)
(* and from them follows what is said about blocks.                        *)
(***************************************************************************)
EXTENDS Infrastructure, TLAPS

(* The modules of the controllers again, with their theorems. *)
MT == INSTANCE BMCMachineCleanProofs WITH
  Joining <- {}, Reports <- {"powered-on"}, Resyncs <- FALSE, MaxMishaps <- 0,
  api <- mApi, cache <- mCache, queue <- mQueue, wk <- mWk, mishaps <- 0,
  open <- {m \in Machines : HasPreconditions(m)},
  node <- [m \in Machines |-> <<>>]

CT == INSTANCE BMCClusterProofs WITH
  Annotated <- TRUE, Malformed <- {}, Resyncs <- FALSE, MaxMishaps <- 0,
  api <- cApi, cache <- cCache, queued <- cQueued, wk <- cWk, mishaps <- 0,
  open <- linked /\ ~paused

-----------------------------------------------------------------------------
(* The specifications of the instances with and without theorems are the   *)
(* same, and so are the invariants.                                        *)

LEMMA SameMachineInit ==
  M!Init => MT!Init
BY DEF M!NoProvider, M!NewObject, M!BareObject, M!NotFound, M!Idle, M!Init,
       MT!NoProvider, MT!NewObject, MT!BareObject, MT!NotFound, MT!Idle,
       MT!Init

LEMMA SameMachineNext ==
  [M!Next]_(M!vars) => [MT!Next]_(MT!vars)
BY DEF M!NoProvider, M!ProviderURL, M!ReportedStatus, M!NewObject,
       M!NotFound, M!AddFini, M!RemoveFini, M!SetBMCStatus,
       M!SetIrreconcilable, M!IsStatusEqual, M!MarkStatus,
       M!MarkIrreconcilable, M!SetStatus, M!MergeBMCStatusProperties,
       M!SetReady, M!SetProviderID, M!SetMachineID, M!Merge, M!MetaChanged,
       M!StatusChanged, M!MergeMeta, M!MergeStatus, M!Collected, M!vars,
       M!kube, M!cloud, M!NoOwner, M!NoCluster, M!Paused, M!NotReady,
       M!NoBootstrap, M!NoIPBlock, M!Open, M!Idle, M!Running, M!InFlight,
       M!NoMishap, M!Mishap, M!MishapIf, M!IsMarkedDeleted, M!NeedsServer,
       M!HasServerToDeprovision, M!StaleID, M!Take, M!Proceed, M!Gates,
       M!ReconcileNothing, M!Reconcilable, M!ReconcileDelete,
       M!ReconcileSuspended, M!ReconcileLive, M!ReconcileWaiting,
       M!ReconcileCreate, M!ReconcileSynchronize, M!Return, M!Calling,
       M!Provision, M!CreateAccepted, M!CreatePanics, M!CreateUnanswered,
       M!CreateRefused, M!CreateDeferred, M!ApplyDelta, M!EnsureReady,
       M!SetNodeRef, M!NodePatched, M!NodePatchFails, M!SynchronizeAnswered,
       M!SynchronizeFailed, M!SynchronizeRejected, M!SynchronizeDenied,
       M!SynchronizeUnexpected, M!Deprovision, M!DeprovisionAccepted,
       M!DeprovisionFailed, M!PatchMeta, M!PatchMetaFails, M!Finish,
       M!PatchStatus, M!PatchStatusFails, M!Crash, M!WatchEvent, M!Resync,
       M!RelatedEvent, M!DeleteRequested, M!ServerChanges, M!ReconcileAt,
       M!Reconcile, M!Exchange, M!Patch, M!Environment, M!Next,
       MT!NoProvider, MT!ProviderURL, MT!ReportedStatus, MT!NewObject,
       MT!NotFound, MT!AddFini, MT!RemoveFini, MT!SetBMCStatus,
       MT!SetIrreconcilable, MT!IsStatusEqual, MT!MarkStatus,
       MT!MarkIrreconcilable, MT!SetStatus, MT!MergeBMCStatusProperties,
       MT!SetReady, MT!SetProviderID, MT!SetMachineID, MT!Merge,
       MT!MetaChanged, MT!StatusChanged, MT!MergeMeta, MT!MergeStatus,
       MT!Collected, MT!vars, MT!kube, MT!cloud, MT!NoOwner, MT!NoCluster,
       MT!Paused, MT!NotReady, MT!NoBootstrap, MT!NoIPBlock, MT!Open,
       MT!Idle, MT!Running, MT!InFlight, MT!NoMishap, MT!Mishap, MT!MishapIf,
       MT!IsMarkedDeleted, MT!NeedsServer, MT!HasServerToDeprovision,
       MT!StaleID, MT!Take, MT!Proceed, MT!Gates, MT!ReconcileNothing,
       MT!Reconcilable, MT!ReconcileDelete, MT!ReconcileSuspended,
       MT!ReconcileLive, MT!ReconcileWaiting, MT!ReconcileCreate,
       MT!ReconcileSynchronize, MT!Return, MT!Calling, MT!Provision,
       MT!CreateAccepted, MT!CreatePanics, MT!CreateUnanswered,
       MT!CreateRefused, MT!CreateDeferred, MT!ApplyDelta, MT!EnsureReady,
       MT!SetNodeRef, MT!NodePatched, MT!NodePatchFails,
       MT!SynchronizeAnswered, MT!SynchronizeFailed, MT!SynchronizeRejected,
       MT!SynchronizeDenied, MT!SynchronizeUnexpected, MT!Deprovision,
       MT!DeprovisionAccepted, MT!DeprovisionFailed, MT!PatchMeta,
       MT!PatchMetaFails, MT!Finish, MT!PatchStatus, MT!PatchStatusFails,
       MT!Crash, MT!WatchEvent, MT!Resync, MT!RelatedEvent,
       MT!DeleteRequested, MT!ServerChanges, MT!ReconcileAt, MT!Reconcile,
       MT!Exchange, MT!Patch, MT!Environment, MT!Next

LEMMA SameMachineInvariants ==
  MT!TypeOK /\ MT!VersionsInv /\ MT!CleanInv => M!TypeOK /\ M!VersionsInv /\ M!CleanInv
BY DEF M!ServerID, M!NoProvider, M!ProviderURL, M!ProviderID,
       M!ReportedStatus, M!OwnStatus, M!MachineStatus, M!Failure, M!Object,
       M!ServerState, M!Server, M!Worker, M!Running, M!Built, M!Tracked,
       M!InFlight, M!Leaked, M!TypeOK, M!OneServerPerMachine,
       M!ServerHeldByFinalizer, M!ValidVersion, M!Precedes, M!SameIDs,
       M!Changes, M!WorkerVersions, M!VersionsInv, M!Truthtelling, M!Agrees,
       M!Ordering, M!CleanMachine, M!CleanWorker, M!CleanState,
       M!ServersKnown, M!CleanInv, MT!ServerID, MT!NoProvider,
       MT!ProviderURL, MT!ProviderID, MT!ReportedStatus, MT!OwnStatus,
       MT!MachineStatus, MT!Failure, MT!Object, MT!ServerState, MT!Server,
       MT!Worker, MT!Running, MT!Built, MT!Tracked, MT!InFlight, MT!Leaked,
       MT!TypeOK, MT!OneServerPerMachine, MT!ServerHeldByFinalizer,
       MT!ValidVersion, MT!Precedes, MT!SameIDs, MT!Changes,
       MT!WorkerVersions, MT!VersionsInv, MT!Truthtelling, MT!Agrees,
       MT!Ordering, MT!CleanMachine, MT!CleanWorker, MT!CleanState,
       MT!ServersKnown, MT!CleanInv

LEMMA SameClusterInit ==
  C!Init => CT!Init
BY DEF C!NoAddress, C!NewObject, C!NotFound, C!Idle, C!Init, CT!NoAddress,
       CT!NewObject, CT!NotFound, CT!Idle, CT!Init

LEMMA SameClusterNext ==
  [C!Next]_(C!vars) => [CT!Next]_(CT!vars)
BY DEF C!vars, C!kube, C!history, C!ReportedStatus, C!Address, C!NoAddress,
       C!NewObject, C!NotFound, C!AddFini, C!RemoveFini, C!IsStatusEqual,
       C!SetBMCStatus, C!MarkStatus, C!SetIPAllocationID, C!SetIP,
       C!SetControlPlaneEndpoint, C!SetReady, C!Merge, C!MetaChanged,
       C!StatusChanged, C!MergeMeta, C!MergeStatus, C!Collected, C!Idle,
       C!Exists, C!InFlight, C!NoMishap, C!Mishap, C!MishapIf,
       C!IsMarkedDeleted, C!NeedsBlock, C!HasBlockToDelete, C!Stale, C!Take,
       C!Proceed, C!ReconcileNothing, C!ReconcileDelete, C!ReconcileLive,
       C!ReconcileCreate, C!ReconcileSynchronize, C!Return, C!Calling,
       C!Allocate, C!CreateAccepted, C!CreatePanics, C!CreateUnanswered,
       C!CreateRefused, C!CreateUnavailable, C!CreateFails, C!ReadyStatus,
       C!SynchronizeAnswered, C!SynchronizeFailed, C!SynchronizeDenied,
       C!Delete, C!DeleteAnswered, C!DeletePanics, C!PatchMeta,
       C!PatchMetaFails, C!Finish, C!PatchStatus, C!PatchStatusFails,
       C!Crash, C!WatchEvent, C!Resync, C!OpenChanges, C!InfrastructureReady,
       C!DeleteRequested, C!BlockChanges, C!Reconcile, C!Exchange, C!Patch,
       C!Environment, C!Next, CT!vars, CT!kube, CT!history,
       CT!ReportedStatus, CT!Address, CT!NoAddress, CT!NewObject,
       CT!NotFound, CT!AddFini, CT!RemoveFini, CT!IsStatusEqual,
       CT!SetBMCStatus, CT!MarkStatus, CT!SetIPAllocationID, CT!SetIP,
       CT!SetControlPlaneEndpoint, CT!SetReady, CT!Merge, CT!MetaChanged,
       CT!StatusChanged, CT!MergeMeta, CT!MergeStatus, CT!Collected, CT!Idle,
       CT!Exists, CT!InFlight, CT!NoMishap, CT!Mishap, CT!MishapIf,
       CT!IsMarkedDeleted, CT!NeedsBlock, CT!HasBlockToDelete, CT!Stale,
       CT!Take, CT!Proceed, CT!ReconcileNothing, CT!ReconcileDelete,
       CT!ReconcileLive, CT!ReconcileCreate, CT!ReconcileSynchronize,
       CT!Return, CT!Calling, CT!Allocate, CT!CreateAccepted,
       CT!CreatePanics, CT!CreateUnanswered, CT!CreateRefused,
       CT!CreateUnavailable, CT!CreateFails, CT!ReadyStatus,
       CT!SynchronizeAnswered, CT!SynchronizeFailed, CT!SynchronizeDenied,
       CT!Delete, CT!DeleteAnswered, CT!DeletePanics, CT!PatchMeta,
       CT!PatchMetaFails, CT!Finish, CT!PatchStatus, CT!PatchStatusFails,
       CT!Crash, CT!WatchEvent, CT!Resync, CT!OpenChanges,
       CT!InfrastructureReady, CT!DeleteRequested, CT!BlockChanges,
       CT!Reconcile, CT!Exchange, CT!Patch, CT!Environment, CT!Next

LEMMA SameClusterInvariants ==
  CT!TypeOK /\ CT!VersionsInv /\ CT!CleanInv => C!TypeOK /\ C!VersionsInv /\ C!CleanInv
BY DEF C!ReportedStatus, C!ClusterStatus, C!NoAddress, C!EndpointAddress,
       C!UsableAddress, C!Object, C!Worker, C!Exists, C!Tracked, C!InFlight,
       C!TypeOK, C!OneBlock, C!Known, C!Precedes, C!SameIDs, C!Recording,
       C!Ordering, C!WorkerVersions, C!VersionsInv, C!Complete, C!Agrees,
       C!CleanWorker, C!CleanState, C!CleanInv, CT!ReportedStatus,
       CT!ClusterStatus, CT!NoAddress, CT!EndpointAddress, CT!UsableAddress,
       CT!Object, CT!Worker, CT!Exists, CT!Tracked, CT!InFlight, CT!TypeOK,
       CT!OneBlock, CT!Known, CT!Precedes, CT!SameIDs, CT!Recording,
       CT!Ordering, CT!WorkerVersions, CT!VersionsInv, CT!Complete,
       CT!Agrees, CT!CleanWorker, CT!CleanState, CT!CleanInv

LEMMA Assumptions ==
  /\ MT!NoServerAssumption /\ MT!MachineAssumption /\ CT!ClusterAssumption
BY ConstantsAssumption
   DEF MT!NoServerAssumption, MT!MachineAssumption, CT!ClusterAssumption, MT!ReportedStatus

-----------------------------------------------------------------------------
(* Each step of the two controllers together is a step, or no step, of     *)
(* each of the modules.                                                    *)

(* The types, and what a worker always has.                                *)
Typed ==
  /\ M!TypeOK /\ C!TypeOK
  /\ mWk.pc # "idle" => mWk.m \in Machines
  /\ mWk.pc \in {"sync", "delete"} => mWk.obj.id \in Servers

LEMMA TypedTheSame == Typed <=> MT!TypeInv /\ CT!TypeOK
BY DEF Typed, M!ServerID, M!NoProvider, M!ProviderURL, M!ProviderID,
       M!ReportedStatus, M!OwnStatus, M!MachineStatus, M!Failure, M!Object,
       M!ServerState, M!Server, M!Worker, M!TypeOK,
       MT!ServerID, MT!NoProvider, MT!ProviderURL, MT!ProviderID,
       MT!ReportedStatus, MT!OwnStatus, MT!MachineStatus, MT!Failure, MT!Object,
       MT!ServerState, MT!Server, MT!Worker, MT!TypeOK, MT!WorkerBusy, MT!TypeInv,
       C!ReportedStatus, C!ClusterStatus, C!NoAddress, C!EndpointAddress,
       C!Object, C!Worker, C!TypeOK, CT!ReportedStatus, CT!ClusterStatus,
       CT!NoAddress, CT!EndpointAddress, CT!Object, CT!Worker, CT!TypeOK

LEMMA TypedInit == M!Init /\ C!Init => Typed
BY Assumptions, SameMachineInit, SameClusterInit, MT!TypeInit, CT!TypeInit, TypedTheSame

LEMMA TypedStep ==
  Typed /\ [M!Next]_(M!vars) /\ [C!Next]_(C!vars) => Typed'
<1>. SUFFICES ASSUME Typed, [M!Next]_(M!vars), [C!Next]_(C!vars) PROVE Typed'
  OBVIOUS
<1>1. MT!TypeInv /\ CT!TypeOK
  BY TypedTheSame
<1>2. MT!TypeInv'
  BY <1>1, Assumptions, SameMachineNext, MT!TypeStep
<1>3. CT!TypeOK'
  BY <1>1, Assumptions, SameClusterNext, CT!TypeStep
<1>4. Typed' <=> (MT!TypeInv /\ CT!TypeOK)'
  BY TypedTheSame, PTL
<1>. QED  BY <1>2, <1>3, <1>4

(* The machines that the module of the machines calls open.                *)
Openings == {m \in Machines : HasPreconditions(m)}

LEMMA OpeningsKept ==
  ASSUME UNCHANGED <<cCache, paused, infra, bootstrapped>>
  PROVE  Openings' = Openings
BY DEF Openings, HasPreconditions, IsInfrastructureReady, AddressReady, TakesAddress

(* Every reconcile of a machine is one that its module knows.              *)
LEMMA GateIsKnown ==
  ASSUME NEW m \in Machines
  PROVE  /\ Gate(m) \in M!Gates(m)
         /\ Gate(m) = M!Open => HasPreconditions(m)
<1>1. CASE HasPreconditions(m)
  <2>1. Gate(m) = M!Open
    BY <1>1 DEF HasPreconditions, Gate
  <2>2. M!Gates(m) = {M!Open}
    BY <1>1 DEF M!Gates
  <2>. QED  BY <1>1, <2>1, <2>2
<1>2. CASE ~HasPreconditions(m)
  <2>1. Gate(m) \in {M!NoBMCCluster, M!Paused, M!NotReady, M!NoIPBlock}
    BY <1>2 DEF HasPreconditions, Gate
  <2>2. M!Gates(m) = M!NoOwner .. M!NoIPBlock
    BY <1>2 DEF M!Gates
  <2>. QED
    BY <2>1, <2>2 DEF M!NoOwner, M!NoBMCCluster, M!Paused, M!NotReady, M!NoIPBlock, M!Open
<1>. QED  BY <1>1, <1>2

(* What a step of the two together has to be.                              *)
Fits == [M!Next]_(M!vars) /\ [C!Next]_(C!vars) /\ Wiring'

(* A step that is none of the cluster's, or of a block it knows.           *)
ClusterStutters == UNCHANGED <<cApi, cCache, cQueued, cWk, left, linked, paused, infra>>

LEMMA ClusterUnchanged ==
  ASSUME ClusterStutters, UNCHANGED blocks
  PROVE  UNCHANGED C!vars
BY DEF ClusterStutters, C!vars

LEMMA MachineUnchanged ==
  ASSUME UNCHANGED <<mApi, mCache, mQueue, mWk, bmc>>, Openings' = Openings
  PROVE  UNCHANGED M!vars
BY DEF M!vars, Openings

(* BMC may assign a block, once the infrastructure is ready, or delete it. *)
LEMMA BlockFits ==
  ASSUME Typed, Wiring, ClusterStutters, NEW b \in Blocks, blocks[b] # "unborn",
         NEW st \in {"assigned", "gone"}, blocks' = [blocks EXCEPT ![b] = st],
         st = "assigned" => infra /\ C!Exists(b)
  PROVE  /\ [C!Next]_(C!vars)
         /\ blocks' \in [Blocks -> C!ReportedStatus \cup {"unborn", "gone"}]
         /\ \A c \in Blocks : blocks[c] # "unborn" => blocks'[c] # "unborn"
<1>0. blocks \in [Blocks -> C!ReportedStatus \cup {"unborn", "gone"}]
  BY DEF Wiring
<1>1. /\ blocks' \in [Blocks -> C!ReportedStatus \cup {"unborn", "gone"}]
      /\ \A c \in Blocks : blocks[c] # "unborn" => blocks'[c] # "unborn"
  BY <1>0 DEF C!ReportedStatus
<1>2. CASE blocks[b] = st
  <2>1. blocks' = blocks
    BY <1>0, <1>2
  <2>. QED  BY <1>1, <2>1, ClusterUnchanged
<1>3. CASE blocks[b] # st
  <2>1. C!Exists(b)
    BY <1>0, <1>3 DEF C!Exists
  <2>2. C!BlockChanges(b)
    BY <1>3, <2>1 DEF C!BlockChanges, C!kube, C!history, ClusterStutters
  <2>. QED  BY <1>1, <2>2 DEF C!Next, C!Environment
<1>. QED  BY <1>2, <1>3

LEMMA MachineReconcileFits ==
  ASSUME Typed, Wiring, NEW m \in Machines, MachineReconciles(m)
  PROVE  Fits
<1>1. M!ReconcileAt(m, Gate(m)) /\ UNCHANGED <<clusterVars, coreVars, bmc, blocks, uses>>
  BY DEF MachineReconciles
<1>2. M!Next
  BY <1>1, GateIsKnown DEF M!Next, M!Reconcile
<1>3. UNCHANGED C!vars
  BY <1>1, ClusterUnchanged DEF ClusterStutters, clusterVars, coreVars
<1>4. ASSUME request' # NoBlock PROVE infra
  <2>1. mWk'.pc = "create"
    BY <1>4 DEF MachineReconciles
  <2>2. mWk.pc = "idle"
    BY <1>1 DEF M!ReconcileAt, M!ReconcileNothing, M!ReconcileDelete, M!ReconcileSuspended,
                M!ReconcileWaiting, M!ReconcileCreate, M!ReconcileSynchronize,
                M!Reconcilable, M!ReconcileLive, M!Take
  <2>3. M!ReconcileCreate(m, Gate(m))
    BY <1>1, <2>1, <2>2
       DEF M!ReconcileAt, M!ReconcileNothing, M!ReconcileDelete, M!ReconcileSuspended,
           M!ReconcileWaiting, M!ReconcileSynchronize, M!Proceed
  <2>. QED  BY <2>3, GateIsKnown DEF M!ReconcileCreate, HasPreconditions, IsInfrastructureReady
<1>5. Wiring'
  BY <1>1, <1>4 DEF Wiring, clusterVars, coreVars
<1>. QED  BY <1>2, <1>3, <1>5 DEF Fits

(* A step of the machine controller, or of its servers, that leaves blocks *)
(* and the cluster alone.                                                  *)
LEMMA MachineStepFits ==
  ASSUME Wiring, M!Next, UNCHANGED <<clusterVars, coreVars, blocks, uses, request>>
  PROVE  Fits
<1>1. UNCHANGED C!vars
  BY ClusterUnchanged DEF ClusterStutters, clusterVars, coreVars
<1>2. Wiring'
  BY DEF Wiring, clusterVars, coreVars
<1>. QED  BY <1>1, <1>2 DEF Fits

LEMMA ServerCreatedFits ==
  ASSUME Typed, Wiring, NEW s \in Servers, ServerCreated(s)
  PROVE  Fits
<1>1. M!Next
  BY DEF ServerCreated, M!Next, M!Exchange
<1>2. ClusterStutters /\ UNCHANGED <<linked, paused, infra, cQueued>>
  BY DEF ServerCreated, MachineOnly, clusterVars, coreVars, ClusterStutters
<1>3. CASE request = NoBlock
  <2>1. UNCHANGED blocks /\ uses' = [uses EXCEPT ![s] = NoBlock] /\ request' = NoBlock
    BY <1>3 DEF ServerCreated
  <2>2. Wiring'
    BY <1>2, <2>1 DEF Wiring
  <2>. QED  BY <1>1, <1>2, <2>1, <2>2, ClusterUnchanged DEF Fits
<1>4. CASE request # NoBlock
  <2>1. /\ C!Exists(request) /\ blocks' = [blocks EXCEPT ![request] = "assigned"]
        /\ uses' = [uses EXCEPT ![s] = request] /\ request' = NoBlock
        /\ request \in Blocks /\ blocks[request] # "unborn"
    BY <1>4 DEF ServerCreated, C!Exists, C!ReportedStatus
  <2>2. infra
    BY <1>4 DEF Wiring
  <2>3. /\ [C!Next]_(C!vars)
        /\ blocks' \in [Blocks -> C!ReportedStatus \cup {"unborn", "gone"}]
        /\ \A c \in Blocks : blocks[c] # "unborn" => blocks'[c] # "unborn"
    BY <1>2, <2>1, <2>2, BlockFits
  <2>4. \A t \in Servers : uses'[t] = request \/ uses'[t] = uses[t]
    BY <2>1 DEF Wiring
  <2>5. Wiring'
    BY <1>2, <2>1, <2>3, <2>4 DEF Wiring
  <2>. QED  BY <1>1, <2>3, <2>5 DEF Fits
<1>. QED  BY <1>3, <1>4

LEMMA ServerDeprovisionedFits ==
  ASSUME Typed, Wiring, ServerDeprovisioned
  PROVE  Fits
<1>1. UNCHANGED <<clusterVars, coreVars, uses, request>>
  BY DEF ServerDeprovisioned, MachineOnly
<1>2. ClusterStutters
  BY <1>1 DEF clusterVars, coreVars, ClusterStutters
<1>3. CASE M!DeprovisionAccepted /\ blocks' = Released(mWk.obj.id)
  <2>1. M!Next
    BY <1>3 DEF M!Next, M!Exchange
  <2>2. mWk.obj.id \in Servers
    BY <1>3 DEF Typed, M!DeprovisionAccepted, M!Calling
  <2> DEFINE b == uses[mWk.obj.id]
  <2>3. CASE b = NoBlock
    BY <1>1, <1>3, <2>1, <2>3, MachineStepFits DEF Released
  <2>4. CASE b # NoBlock
    <3>1. /\ b \in Blocks /\ blocks[b] # "unborn"
          /\ blocks' = [blocks EXCEPT ![b] = "gone"]
      BY <1>3, <2>2, <2>4 DEF Wiring, Released
    <3>2. /\ [C!Next]_(C!vars)
          /\ blocks' \in [Blocks -> C!ReportedStatus \cup {"unborn", "gone"}]
          /\ \A c \in Blocks : blocks[c] # "unborn" => blocks'[c] # "unborn"
      BY <1>2, <3>1, BlockFits
    <3>3. Wiring'
      BY <1>1, <3>2 DEF Wiring, clusterVars, coreVars
    <3>. QED  BY <2>1, <3>2, <3>3 DEF Fits
  <2>. QED  BY <2>3, <2>4
<1>4. CASE M!DeprovisionFailed /\ UNCHANGED blocks
  <2>1. M!Next
    BY <1>4 DEF M!Next, M!Exchange
  <2>. QED  BY <1>1, <1>4, <2>1, MachineStepFits
<1>. QED  BY <1>3, <1>4 DEF ServerDeprovisioned

(* A step of the cluster controller alone: the machines see nothing of it  *)
(* before the watch event, and blocks that were allocated stay so.         *)
LEMMA ClusterStepFits ==
  ASSUME Typed, Wiring, ClusterOnly, C!Next, UNCHANGED <<cCache, infra>>,
         \A b \in Blocks : blocks[b] # "unborn" => blocks'[b] # "unborn"
  PROVE  Fits
<1>1. UNCHANGED <<mApi, mCache, mQueue, mWk, bmc, uses, request, linked, paused, bootstrapped>>
  BY DEF ClusterOnly, machineVars
<1>2. UNCHANGED M!vars
  BY <1>1, OpeningsKept, MachineUnchanged
<1>3. Typed'
  BY <1>2, TypedStep
<1>4. Wiring'
  BY <1>1, <1>3 DEF Wiring, Typed, C!TypeOK
<1>. QED  BY <1>2, <1>4 DEF Fits

LEMMA ClusterReconcilesFits ==
  ASSUME Typed, Wiring, ClusterReconciles
  PROVE  Fits
<1>1. ClusterOnly /\ C!Next
  BY DEF ClusterReconciles, C!Next
<1>2. UNCHANGED <<cCache, infra, blocks>>
  BY DEF ClusterReconciles, C!Reconcile, C!ReconcileNothing, C!ReconcileDelete,
         C!ReconcileCreate, C!ReconcileSynchronize, C!ReconcileLive, C!Take, C!kube
<1>. QED  BY <1>1, <1>2, ClusterStepFits

LEMMA ClusterExchangeFits ==
  ASSUME Typed, Wiring, ClusterExchange
  PROVE  Fits
<1>1. ClusterOnly
  BY DEF ClusterExchange
<1>2. C!Next
  BY DEF ClusterExchange, C!Next, C!Exchange
<1>3. UNCHANGED <<cCache, infra>>
  BY DEF ClusterExchange, C!CreateAccepted, C!SynchronizeAnswered, C!SynchronizeDenied,
         C!DeleteAnswered, C!Calling, C!kube
<1>4. ASSUME NEW b \in Blocks, blocks[b] # "unborn" PROVE blocks'[b] # "unborn"
  <2>1. blocks \in [Blocks -> C!ReportedStatus \cup {"unborn", "gone"}]
    BY DEF Wiring
  <2>. QED
    BY <1>4, <2>1
       DEF ClusterExchange, C!CreateAccepted, C!SynchronizeAnswered, C!SynchronizeDenied,
           C!DeleteAnswered, C!Allocate, C!Delete
<1>. QED  BY <1>1, <1>2, <1>3, <1>4, ClusterStepFits

LEMMA ClusterPatchFits ==
  ASSUME Typed, Wiring, ClusterPatch
  PROVE  Fits
<1>1. ClusterOnly /\ C!Next
  BY DEF ClusterPatch, C!Next, C!Patch
<1>2. UNCHANGED <<cCache, infra, blocks>>
  BY DEF ClusterPatch, C!PatchMeta, C!PatchStatus
<1>. QED  BY <1>1, <1>2, ClusterStepFits

LEMMA ClusterDeletedFits ==
  ASSUME Typed, Wiring, ClusterDeleted
  PROVE  Fits
<1>1. ClusterOnly /\ C!Next
  BY DEF ClusterDeleted, C!Next, C!Environment
<1>2. UNCHANGED <<cCache, infra, blocks>>
  BY DEF ClusterDeleted, C!DeleteRequested
<1>. QED  BY <1>1, <1>2, ClusterStepFits

LEMMA BlockBootsFits ==
  ASSUME Typed, Wiring, NEW b \in Blocks, BlockBoots(b)
  PROVE  Fits
<1>1. ClusterOnly /\ C!BlockChanges(b)
  BY DEF BlockBoots
<1>2. C!Next /\ UNCHANGED <<cCache, infra>>
  BY <1>1 DEF C!Next, C!Environment, C!BlockChanges, C!kube
<1>3. ASSUME NEW c \in Blocks, blocks[c] # "unborn" PROVE blocks'[c] # "unborn"
  BY <1>1, <1>3 DEF C!BlockChanges, Wiring
<1>. QED  BY <1>1, <1>2, <1>3, ClusterStepFits

(* An event that wakes machines up: a precondition may be met or lost.     *)
LEMMA WakeFits ==
  ASSUME UNCHANGED <<mApi, mCache, mWk, bmc>>, NEW woken \in SUBSET Machines,
         Wake(woken), Openings' \ Openings \subseteq woken
  PROVE  [M!Next]_(M!vars)
<1>1. Openings' \in SUBSET Machines
  BY DEF Openings
<1>2. CASE Openings' # Openings \/ ~(woken \subseteq mQueue)
  <2>1. M!RelatedEvent(Openings', woken)
    BY <1>2 DEF M!RelatedEvent, M!kube, M!cloud, M!NoMishap, Wake, Openings
  <2>. QED  BY <1>1, <2>1 DEF M!Next, M!Environment
<1>3. CASE Openings' = Openings /\ woken \subseteq mQueue
  <2>1. mQueue' = mQueue
    BY <1>3 DEF Wake
  <2>. QED  BY <1>3, <2>1, MachineUnchanged
<1>. QED  BY <1>2, <1>3

(* An event of the BMCCluster or the Cluster.                              *)
LEMMA EventFits ==
  ASSUME Wiring, UNCHANGED <<mApi, mCache, mWk, bmc, blocks, uses, request>>,
         [C!Next]_(C!vars), NEW woken \in SUBSET Machines, Wake(woken),
         Openings' \ Openings \subseteq woken,
         {linked, paused, infra, cQueued}' \subseteq BOOLEAN,
         (paused \/ infra)' => linked', infra => infra'
  PROVE  Fits
<1>1. [M!Next]_(M!vars)
  BY WakeFits
<1>2. Wiring'
  BY DEF Wiring
<1>. QED  BY <1>1, <1>2 DEF Fits

LEMMA BMCClusterEventFits ==
  ASSUME Typed, Wiring, BMCClusterEvent
  PROVE  Fits
<1>1. /\ UNCHANGED <<mApi, mCache, mWk, bmc, blocks, uses, request>>
      /\ UNCHANGED <<linked, paused, infra, bootstrapped>>
  BY DEF BMCClusterEvent, cloudVars, coreVars
<1>2. C!Next
  BY DEF BMCClusterEvent, C!Next, C!Environment
<1>3. Wake(BMCClusterToBMCMachines) /\ BMCClusterToBMCMachines \in SUBSET Machines
  BY DEF BMCClusterEvent, BMCClusterToBMCMachines
<1>4. Openings' \ Openings \subseteq BMCClusterToBMCMachines
  <2>1. CASE linked'
    BY <2>1 DEF BMCClusterToBMCMachines, Openings
  <2>2. CASE ~linked'
    <3>1. ~infra'
      BY <1>1, <2>2 DEF Wiring
    <3>2. Openings' = {}
      BY <3>1 DEF Openings, HasPreconditions, IsInfrastructureReady
    <3>. QED  BY <3>2
  <2>. QED  BY <2>1, <2>2
<1>5. {linked, paused, infra, cQueued}' \subseteq BOOLEAN
  BY <1>1 DEF BMCClusterEvent, C!WatchEvent, Wiring
<1>6. (paused \/ infra)' => linked'
  BY <1>1 DEF Wiring
<1>. QED  BY <1>1, <1>2, <1>3, <1>4, <1>5, <1>6, EventFits

LEMMA BMCClusterLinkedFits ==
  ASSUME Typed, Wiring, BMCClusterLinked
  PROVE  Fits
<1>1. /\ UNCHANGED <<mApi, mCache, mWk, bmc, blocks, uses, request>>
      /\ UNCHANGED <<cApi, cCache, cWk, left, paused, infra, bootstrapped>>
      /\ ~linked /\ linked' = TRUE /\ cQueued' = TRUE
  BY DEF BMCClusterLinked, cloudVars
<1>2. ~paused /\ ~infra
  BY <1>1 DEF Wiring
<1>3. C!OpenChanges
  BY <1>1, <1>2 DEF C!OpenChanges, C!kube, C!history
<1>4. Openings' = Openings
  BY <1>1, OpeningsKept
<1>5. Wake(BMCClusterToBMCMachines) /\ BMCClusterToBMCMachines \in SUBSET Machines
  BY DEF BMCClusterLinked, BMCClusterToBMCMachines
<1>6. {linked, paused, infra, cQueued}' \subseteq BOOLEAN
  BY <1>1 DEF Wiring
<1>. QED  BY <1>1, <1>3, <1>4, <1>5, <1>6, EventFits DEF C!Next, C!Environment

(* The Cluster is paused, resumed, or gets its infrastructure.             *)
LEMMA ClusterEventFits ==
  ASSUME Typed, Wiring, Pause \/ Resume \/ InfrastructureReady
  PROVE  Fits
<1>1. /\ UNCHANGED <<mApi, mCache, mWk, bmc, blocks, uses, request>>
      /\ UNCHANGED <<cApi, cCache, cWk, left, linked, bootstrapped>>
      /\ cQueued' = (cQueued \/ ClusterUnpaused)
  BY DEF Pause, Resume, InfrastructureReady, ClusterEvent, cloudVars
<1>2. linked /\ {linked, paused, infra, cQueued} \subseteq BOOLEAN
  BY DEF Pause, Resume, InfrastructureReady, Wiring
<1>3. {linked, paused, infra, cQueued}' \subseteq BOOLEAN
  BY <1>1, <1>2 DEF Pause, Resume, InfrastructureReady, ClusterUnpaused
<1>4. infra => infra'
  BY DEF Pause, Resume, InfrastructureReady
<1> DEFINE woken == IF ClusterUnpausedAndInfrastructureReady THEN Machines ELSE {}
<1>5. Wake(woken) /\ woken \in SUBSET Machines
  BY DEF Pause, Resume, InfrastructureReady, ClusterEvent
<1>6. Openings' \ Openings \subseteq woken
  <2>1. CASE Pause
    <3>1. Openings' = {}
      BY <2>1 DEF Pause, Openings, HasPreconditions
    <3>. QED  BY <3>1
  <2>2. CASE Resume \/ InfrastructureReady
    <3>1. ClusterUnpausedAndInfrastructureReady
      BY <2>2 DEF Resume, InfrastructureReady, ClusterUnpausedAndInfrastructureReady,
                  ClusterUnpaused
    <3>. QED  BY <3>1 DEF Openings
  <2>. QED  BY <2>1, <2>2
<1>7. C!Next
  <2>1. CASE Pause \/ Resume
    <3>1. C!OpenChanges
      BY <1>1, <1>2, <2>1
         DEF Pause, Resume, ClusterUnpaused, C!OpenChanges, C!kube, C!history
    <3>. QED  BY <3>1 DEF C!Next, C!Environment
  <2>2. CASE InfrastructureReady
    <3>1. C!InfrastructureReady
      BY <1>1, <1>2, <2>2
         DEF InfrastructureReady, ClusterUnpaused, C!InfrastructureReady, C!kube, C!history
    <3>. QED  BY <3>1 DEF C!Next, C!Environment
  <2>. QED  BY <2>1, <2>2
<1>. HIDE DEF woken
<1>. QED  BY <1>1, <1>2, <1>3, <1>4, <1>5, <1>6, <1>7, EventFits

LEMMA BootstrapFits ==
  ASSUME Typed, Wiring, NEW m \in Machines, Bootstrap(m)
  PROVE  Fits
<1>1. /\ UNCHANGED <<mApi, mCache, mWk, bmc, blocks, uses, request>>
      /\ UNCHANGED <<clusterVars, linked, paused, infra>>
      /\ bootstrapped' = bootstrapped \cup {m} /\ Wake({m})
  BY DEF Bootstrap, cloudVars
<1>2. Openings' \ Openings \subseteq {m}
  BY <1>1 DEF Openings, HasPreconditions, IsInfrastructureReady, AddressReady,
              TakesAddress, clusterVars
<1>3. UNCHANGED C!vars
  BY <1>1, ClusterUnchanged DEF ClusterStutters, clusterVars
<1>4. {linked, paused, infra, cQueued}' \subseteq BOOLEAN
  BY <1>1 DEF Wiring, clusterVars
<1>5. (paused \/ infra)' => linked'
  BY <1>1 DEF Wiring
<1>. QED  BY <1>1, <1>2, <1>3, <1>4, <1>5, EventFits

LEMMA CrashFits ==
  ASSUME Typed, Wiring, Crash
  PROVE  Fits
<1>1. M!Crash /\ C!Crash /\ UNCHANGED <<coreVars, blocks, uses>> /\ request' = NoBlock
  BY DEF Crash
<1>2. M!Next /\ C!Next
  BY <1>1 DEF M!Next, C!Next
<1>3. Wiring'
  BY <1>1 DEF Wiring, C!Crash, coreVars
<1>. QED  BY <1>2, <1>3 DEF Fits

LEMMA StepFits ==
  ASSUME Typed, Wiring, [Next]_vars
  PROVE  Fits
<1>1. CASE UNCHANGED vars
  <2>1. UNCHANGED <<machineVars, clusterVars, cloudVars, coreVars>>
    BY <1>1 DEF vars
  <2>2. UNCHANGED C!vars
    BY <2>1, ClusterUnchanged DEF ClusterStutters, clusterVars, cloudVars, coreVars
  <2>3. UNCHANGED M!vars
    BY <2>1, MachineUnchanged, OpeningsKept DEF machineVars, clusterVars, cloudVars, coreVars
  <2>4. Wiring'
    BY <2>1 DEF Wiring, clusterVars, cloudVars, coreVars
  <2>. QED  BY <2>2, <2>3, <2>4 DEF Fits
<1>2. ASSUME NEW m \in Machines, MachineEvent(m) PROVE Fits
  <2>1. M!Next
    BY <1>2 DEF MachineEvent, M!Next, M!Environment
  <2>. QED  BY <1>2, <2>1, MachineStepFits DEF MachineEvent
<1>3. ASSUME ServerPolled PROVE Fits
  <2>1. M!Next
    BY <1>3 DEF ServerPolled, M!Next, M!Exchange
  <2>. QED  BY <1>3, <2>1, MachineStepFits DEF ServerPolled, MachineOnly
<1>4. ASSUME MachinePatch PROVE Fits
  <2>1. M!Next
    BY <1>4 DEF MachinePatch, M!Next, M!Patch
  <2>. QED  BY <1>4, <2>1, MachineStepFits DEF MachinePatch
<1>5. ASSUME NEW m \in Machines, MachineDeleted(m) PROVE Fits
  <2>1. M!Next
    BY <1>5 DEF MachineDeleted, M!Next, M!Environment
  <2>. QED  BY <1>5, <2>1, MachineStepFits DEF MachineDeleted
<1>6. ASSUME NEW s \in Servers, ServerBoots(s) PROVE Fits
  <2>1. M!Next
    BY <1>6 DEF ServerBoots, M!Next, M!Environment
  <2>. QED  BY <1>6, <2>1, MachineStepFits DEF ServerBoots
<1>7. CASE Controllers
  BY <1>2, <1>3, <1>4, <1>7, MachineReconcileFits, ServerCreatedFits,
     ServerDeprovisionedFits, ClusterReconcilesFits, ClusterExchangeFits,
     ClusterPatchFits, BMCClusterEventFits
     DEF Controllers, MachineExchange
<1>8. CASE Core
  BY <1>5, <1>8, BMCClusterLinkedFits, ClusterEventFits, ClusterDeletedFits, BootstrapFits
     DEF Core
<1>9. CASE Cloud
  BY <1>6, <1>9, BlockBootsFits DEF Cloud
<1>. QED  BY <1>1, <1>7, <1>8, <1>9, CrashFits DEF Next

LEMMA WiringInit == Init => Wiring
BY DEF Init, Wiring, C!Init

LEMMA ComposedInvariance == Spec => Composed /\ [](Typed /\ Wiring)
<1>1. Init => M!Init /\ C!Init /\ Typed /\ Wiring
  BY TypedInit, WiringInit DEF Init
<1>2. Typed /\ Wiring /\ [Next]_vars =>
        [M!Next]_(M!vars) /\ [C!Next]_(C!vars) /\ (Typed /\ Wiring)'
  BY StepFits, TypedStep DEF Fits
<1>. QED  BY <1>1, <1>2, PTL DEF Spec, Composed, M!Spec, C!Spec

(* What each controller does is something that the module of the other one *)
(* expects: every behaviour of the two together is a behaviour of each of  *)
(* the two modules, whose theorems therefore hold of it.                   *)
THEOREM ComposedHolds == Spec => Composed
BY ComposedInvariance, PTL

-----------------------------------------------------------------------------
(* What the modules of the controllers know holds of the two together.     *)

Facts ==
  /\ Typed /\ Wiring
  /\ M!VersionsInv /\ M!CleanState /\ M!ServersKnown /\ M!OneServerPerMachine
  /\ C!VersionsInv /\ C!CleanState /\ C!Leaked = {}

LEMMA SameLeaks == CT!Leaked = C!Leaked
BY DEF C!Leaked, C!Exists, C!ReportedStatus, C!Tracked, C!InFlight,
       CT!Leaked, CT!Exists, CT!ReportedStatus, CT!Tracked, CT!InFlight

LEMMA FactsHold == Spec => []Facts
<1>1. M!Spec => MT!Spec
  BY SameMachineInit, SameMachineNext, PTL DEF M!Spec, MT!Spec
<1>2. C!Spec => CT!Spec
  BY SameClusterInit, SameClusterNext, PTL DEF C!Spec, CT!Spec
<1>3. MT!Spec => [](MT!TypeOK /\ MT!VersionsInv /\ MT!CleanInv)
  BY Assumptions, MT!TypeCorrect, MT!VersionsHold, MT!CleanHolds, PTL
<1>4. CT!Spec => [](CT!TypeOK /\ CT!VersionsInv /\ CT!CleanInv)
  BY Assumptions, CT!TypesHold, CT!VersionsHold, CT!CleanHolds, PTL
<1>5. CT!Spec => [](0 = 0 => CT!Leaked = {})
  BY Assumptions, CT!NothingLeaks
<1>6. /\ Typed /\ Wiring
      /\ MT!TypeOK /\ MT!VersionsInv /\ MT!CleanInv
      /\ CT!TypeOK /\ CT!VersionsInv /\ CT!CleanInv
      /\ (0 = 0 => CT!Leaked = {})
      => Facts
  BY SameMachineInvariants, SameClusterInvariants, SameLeaks
     DEF Facts, M!CleanInv, C!CleanInv
<1>. QED
  BY <1>1, <1>2, <1>3, <1>4, <1>5, <1>6, ComposedInvariance, PTL DEF Composed

-----------------------------------------------------------------------------
(* Blocks, their servers and requests. *)

(* While a machine is there the cluster is, and is not being deleted; once *)
(* the cluster's controller gives back a block, no server runs any more.   *)
LEMMA NoneRunning ==
  ASSUME Facts, MachinesGone
  PROVE  \A s \in Servers : ~M!Running(s)
<1>. SUFFICES ASSUME NEW s \in Servers, M!Running(s) PROVE FALSE
  OBVIOUS
<1>1. M!Tracked(s) \/ M!InFlight(s)
  BY DEF Facts, M!CleanState, M!Leaked
<1>2. ~M!Tracked(s)
  BY DEF MachinesGone, M!Tracked
<1>3. ~M!InFlight(s)
  <2>. SUFFICES ASSUME M!InFlight(s) PROVE FALSE
    OBVIOUS
  <2>1. mWk.pc = "patchMeta" /\ mWk.obj.id # mWk.base.id /\ mWk.m \in Machines
    BY DEF M!InFlight, Facts, Typed
  <2>2. mApi[mWk.m].live
    BY <2>1 DEF Facts, M!CleanState, M!CleanWorker, M!Ordering
  <2>. QED  BY <2>1, <2>2 DEF MachinesGone
<1>. QED  BY <1>1, <1>2, <1>3

LEMMA DeletedLast ==
  ASSUME Facts, Supply, cWk.pc = "delete"
  PROVE  MachinesGone
BY DEF Facts, Supply, C!VersionsInv, C!WorkerVersions, C!Precedes

(* A server being ordered: its machine and the cluster are there.          *)
LEMMA OrderedInTime ==
  ASSUME Facts, Supply, mWk.pc = "create"
  PROVE  /\ mWk.m \in Machines /\ mApi[mWk.m].live /\ mApi[mWk.m].id = NoServer
         /\ cApi.live /\ ~cApi.deleting
<1>1. mWk.m \in Machines /\ mApi[mWk.m].live /\ mApi[mWk.m].id = NoServer
  BY DEF Facts, Typed, M!CleanState, M!CleanWorker, M!Ordering
<1>. QED  BY <1>1 DEF Supply, MachinesGone

(* What most steps leave as it is. *)
ServersQuiet ==
  \A s \in Servers :
    /\ bmc'[s].owner = bmc[s].owner
    /\ bmc'[s].st = bmc[s].st \/ {bmc[s].st, bmc'[s].st} \subseteq M!ReportedStatus

BlocksQuiet ==
  \A b \in Blocks :
    \/ blocks'[b] = blocks[b]
    \/ blocks[b] \in {"unborn", "other"} /\ blocks'[b] \in C!ReportedStatus

OrderQuiet ==
  mWk'.pc = "create" \/ request' # NoBlock => UNCHANGED <<mWk, request>>

LEMMA UseKept ==
  ASSUME Facts, Supply, ServersQuiet, BlocksQuiet, UNCHANGED uses,
         MachinesGone => MachinesGone'
  PROVE  ServedBlockExists' /\ BlocksKnown'
<1>0. uses \in [Servers -> Blocks \cup {NoBlock}]
  BY DEF Facts, Wiring
<1>1. ServedBlockExists'
  <2>. SUFFICES ASSUME NEW s \in Servers, M!Running(s)', uses[s] # NoBlock
                PROVE  blocks'[uses[s]] = "assigned"
    BY DEF ServedBlockExists
  <2>1. M!Running(s)
    BY DEF ServersQuiet, M!Running, M!ReportedStatus
  <2>2. blocks[uses[s]] = "assigned" /\ uses[s] \in Blocks
    BY <1>0, <2>1 DEF Supply, ServedBlockExists
  <2>. QED  BY <2>2 DEF BlocksQuiet
<1>2. BlocksKnown'
  <2>1. ASSUME NEW s \in Servers, uses[s] # NoBlock
        PROVE  /\ M!Built(s)' /\ TakesAddress(bmc'[s].owner)
               /\ bmc'[s].st = "gone" => blocks'[uses[s]] = "gone"
    <3>1. /\ M!Built(s) /\ TakesAddress(bmc[s].owner)
          /\ bmc[s].st = "gone" => blocks[uses[s]] = "gone"
      BY <2>1 DEF Supply, BlocksKnown
    <3>2. M!Built(s)' /\ bmc'[s].owner = bmc[s].owner
      BY <3>1 DEF ServersQuiet, M!Built, M!ReportedStatus
    <3>3. ASSUME bmc'[s].st = "gone" PROVE blocks'[uses[s]] = "gone"
      <4>1. bmc[s].st = "gone"
        BY <3>3 DEF ServersQuiet, M!ReportedStatus
      <4>2. blocks[uses[s]] = "gone" /\ uses[s] \in Blocks
        BY <1>0, <2>1, <3>1, <4>1
      <4>. QED  BY <4>2 DEF BlocksQuiet
    <3>. QED  BY <3>1, <3>2, <3>3
  <2>2. ASSUME NEW b \in Blocks, blocks'[b] = "gone"
        PROVE  MachinesGone' \/ \E s \in Servers : uses[s] = b /\ bmc'[s].st = "gone"
    <3>1. blocks[b] = "gone"
      BY <2>2 DEF BlocksQuiet, C!ReportedStatus
    <3>2. MachinesGone \/ \E s \in Servers : uses[s] = b /\ bmc[s].st = "gone"
      BY <3>1 DEF Supply, BlocksKnown
    <3>. QED  BY <3>2 DEF ServersQuiet, M!ReportedStatus
  <2>. QED  BY <2>1, <2>2 DEF BlocksKnown, TakesAddress
<1>. QED  BY <1>1, <1>2

LEMMA RequestKept ==
  ASSUME Facts, Supply, BlocksQuiet, OrderQuiet,
         cApi.live /\ ~cApi.deleting /\ cApi.ipid # NoBlock => cApi'.ipid = cApi.ipid
  PROVE  /\ request' # NoBlock => mWk'.pc = "create" /\ TakesAddress(mWk'.m)
         /\ RequestNamesBlock'
<1>1. ASSUME request' # NoBlock PROVE mWk'.pc = "create" /\ TakesAddress(mWk'.m)
  BY <1>1 DEF OrderQuiet, Supply
<1>2. ASSUME NEW m \in Machines, mWk'.pc = "create", mWk'.m = m, TakesAddress(m)
      PROVE  request' = cApi'.ipid /\ C!Exists(request)'
  <2>1. mWk' = mWk /\ request' = request
    BY <1>2 DEF OrderQuiet
  <2>2. request = cApi.ipid /\ C!Exists(request)
    BY <1>2, <2>1 DEF Supply, RequestNamesBlock
  <2>3. cApi'.ipid = cApi.ipid
    BY <1>2, <2>1, <2>2, OrderedInTime, ConstantsAssumption DEF C!Exists
  <2>4. C!Exists(request)'
    BY <2>1, <2>2 DEF C!Exists, BlocksQuiet
  <2>. QED  BY <2>1, <2>2, <2>3, <2>4
<1>. QED  BY <1>1, <1>2 DEF RequestNamesBlock, TakesAddress

LEMMA SupplyKept ==
  ASSUME Facts, Supply, ServersQuiet, BlocksQuiet, OrderQuiet,
         UNCHANGED uses, MachinesGone => MachinesGone',
         \/ MachinesGone
         \/ /\ cApi'.live /\ ~cApi'.deleting
            /\ cApi.ipid # NoBlock => cApi'.ipid = cApi.ipid
  PROVE  Supply'
<1>1. ServedBlockExists' /\ BlocksKnown'
  BY UseKept
<1>2. MachinesGone' \/ (cApi'.live /\ ~cApi'.deleting)
  OBVIOUS
<1>3. /\ request' # NoBlock => mWk'.pc = "create" /\ TakesAddress(mWk'.m)
      /\ RequestNamesBlock'
  <2>1. CASE MachinesGone
    <3>1. mWk.pc # "create"
      BY <2>1, OrderedInTime DEF MachinesGone
    <3>2. mWk'.pc # "create" /\ request' = NoBlock
      BY <3>1 DEF OrderQuiet, Supply
    <3>. QED  BY <3>2 DEF RequestNamesBlock
  <2>2. CASE cApi.ipid # NoBlock => cApi'.ipid = cApi.ipid
    BY <2>2, RequestKept
  <2>. QED  BY <2>1, <2>2
<1>. QED  BY <1>1, <1>2, <1>3 DEF Supply, TakesAddress

LEMMA SupplyInit == Init => Supply
<1>. SUFFICES ASSUME Init PROVE Supply
  OBVIOUS
<1>1. /\ cApi.live /\ ~cApi.deleting /\ mWk.pc = "idle" /\ request = NoBlock
      /\ uses = [s \in Servers |-> NoBlock] /\ blocks = [b \in Blocks |-> "unborn"]
  BY DEF Init, M!Init, M!Idle, C!Init, C!NewObject
<1>. QED  BY <1>1 DEF Supply, RequestNamesBlock, ServedBlockExists, BlocksKnown

(* Steps that have to do with neither blocks nor the BMCCluster.           *)
LEMMA QuietStep ==
  ASSUME Facts, Supply, UNCHANGED <<blocks, uses, cApi>>, ServersQuiet, OrderQuiet,
         \/ UNCHANGED mApi
         \/ M!PatchMeta
         \/ M!PatchStatus
         \/ \E m \in Machines : M!DeleteRequested(m)
  PROVE  Supply'
<1>1. BlocksQuiet
  BY DEF BlocksQuiet
<1>2. MachinesGone => MachinesGone'
  <2>. SUFFICES ASSUME MachinesGone PROVE MachinesGone'
    OBVIOUS
  <2>0. mApi \in [Machines -> M!Object]
    BY DEF Facts, Typed, M!TypeOK
  <2>1. CASE UNCHANGED mApi
    BY <2>1 DEF MachinesGone
  <2>2. CASE M!PatchMeta \/ M!PatchStatus
    <3>1. mWk.m \in Machines
      BY <2>2 DEF Facts, Typed, M!PatchMeta, M!PatchStatus
    <3>2. mApi' = mApi
      BY <2>0, <2>2, <3>1 DEF MachinesGone, M!PatchMeta, M!PatchStatus
    <3>. QED  BY <3>2 DEF MachinesGone
  <2>3. CASE \E m \in Machines : M!DeleteRequested(m)
    BY <2>3 DEF M!DeleteRequested, MachinesGone
  <2>. QED  BY <2>1, <2>2, <2>3
<1>3. MachinesGone \/ (cApi.live /\ ~cApi.deleting)
  BY DEF Supply
<1>. QED  BY <1>1, <1>2, <1>3, SupplyKept

LEMMA ServersUnchanged == ASSUME UNCHANGED bmc PROVE ServersQuiet
BY DEF ServersQuiet

(* Without an order no block is named. *)
LEMMA NoOrder ==
  ASSUME Supply, mWk.pc # "create", mWk'.pc # "create", UNCHANGED request
  PROVE  OrderQuiet
BY DEF Supply, OrderQuiet

(* The request names the block of the cluster, which is there: the version *)
(* of the BMCCluster in the cache is outdated, but an id stays what it is; *)
(* and the block would be given back for the one machine only that needs   *)
(* its address, which has had no server so far.                            *)
LEMMA MachineReconcilesSupply ==
  ASSUME Facts, Facts', Supply, NEW m \in Machines, MachineReconciles(m)
  PROVE  Supply'
<1>1. /\ M!ReconcileAt(m, Gate(m))
      /\ UNCHANGED <<clusterVars, coreVars, bmc, blocks, uses>>
      /\ request' = IF mWk'.pc = "create" /\ TakesAddress(m) THEN cCache.ipid ELSE NoBlock
  BY DEF MachineReconciles
<1>2. mWk.pc = "idle" /\ UNCHANGED <<mApi, mCache>>
  BY <1>1 DEF M!ReconcileAt, M!ReconcileNothing, M!ReconcileDelete, M!ReconcileSuspended,
              M!ReconcileWaiting, M!ReconcileCreate, M!ReconcileSynchronize,
              M!Reconcilable, M!ReconcileLive, M!Take, M!kube
<1>3. CASE ~(mWk'.pc = "create" /\ TakesAddress(m))
  <2>1. mWk'.pc = "create" => mWk'.m = m
    BY <1>1, <1>2
       DEF M!ReconcileAt, M!ReconcileNothing, M!ReconcileDelete, M!ReconcileSuspended,
           M!ReconcileWaiting, M!ReconcileCreate, M!ReconcileSynchronize, M!Proceed
  <2>2. request' = NoBlock /\ RequestNamesBlock'
    BY <1>1, <1>3, <2>1 DEF RequestNamesBlock, TakesAddress
  <2>3. ServedBlockExists' /\ BlocksKnown' /\ (MachinesGone \/ (cApi.live /\ ~cApi.deleting))'
    <3>1. ServersQuiet /\ BlocksQuiet /\ UNCHANGED uses
      BY <1>1 DEF ServersQuiet, BlocksQuiet
    <3>2. MachinesGone => MachinesGone'
      BY <1>2 DEF MachinesGone
    <3>3. (MachinesGone \/ (cApi.live /\ ~cApi.deleting))'
      BY <1>1, <3>2 DEF Supply, clusterVars
    <3>. QED  BY <3>1, <3>2, <3>3, UseKept
  <2>. QED  BY <2>2, <2>3 DEF Supply
<1>4. CASE mWk'.pc = "create" /\ TakesAddress(m)
  <2>1. M!ReconcileCreate(m, Gate(m))
    BY <1>1, <1>2, <1>4
       DEF M!ReconcileAt, M!ReconcileNothing, M!ReconcileDelete, M!ReconcileSuspended,
           M!ReconcileWaiting, M!ReconcileSynchronize, M!Proceed
  <2>2. HasPreconditions(m) /\ mWk'.m = m
    BY <2>1, GateIsKnown DEF M!ReconcileCreate, M!Proceed
  <2>3. request' = cCache.ipid /\ cCache.ipid \in Blocks
    BY <1>1, <1>4, <2>2
       DEF HasPreconditions, AddressReady, Facts, Typed, C!TypeOK, C!Object
  <2>4. mApi[m].live /\ mApi[m].id = NoServer
    <3>1. mApi'[m].live /\ mApi'[m].id = NoServer
      BY <1>4, <2>2 DEF Facts, M!CleanState, M!CleanWorker, M!Ordering
    <3>. QED  BY <1>2, <3>1
  <2>5. cApi.live /\ ~cApi.deleting
    BY <2>4 DEF Supply, MachinesGone
  <2>6. cApi.ipid = cCache.ipid
    BY <2>3, <2>5, ConstantsAssumption DEF Facts, C!CleanState, C!Agrees
  <2>7. C!Exists(cCache.ipid)
    <3>1. blocks[cCache.ipid] # "unborn"
      BY <2>3, ConstantsAssumption DEF Facts, C!VersionsInv, C!Known
    <3>2. blocks[cCache.ipid] # "gone"
      <4>. SUFFICES ASSUME blocks[cCache.ipid] = "gone" PROVE FALSE
        OBVIOUS
      <4>1. ~MachinesGone
        BY <2>4 DEF MachinesGone
      <4>2. PICK s \in Servers : uses[s] = cCache.ipid /\ bmc[s].st = "gone"
        BY <2>3, <4>1 DEF Supply, BlocksKnown
      <4>3. M!Built(s) /\ TakesAddress(bmc[s].owner)
        BY <2>3, <4>2, ConstantsAssumption DEF Supply, BlocksKnown
      <4>4. bmc[s].owner = m
        BY <1>4, <4>3, ControlPlaneAssumption DEF TakesAddress
      <4>5. mApi[m].id = s \/ M!InFlight(s)
        BY <2>4, <4>3, <4>4 DEF Facts, M!ServersKnown
      <4>. QED  BY <1>2, <2>4, <4>5, ConstantsAssumption DEF M!InFlight
    <3>3. blocks[cCache.ipid] \in C!ReportedStatus \cup {"unborn", "gone"}
      BY <2>3 DEF Facts, Wiring
    <3>. QED  BY <2>3, <3>1, <3>2, <3>3 DEF C!Exists
  <2>8. ServedBlockExists' /\ BlocksKnown'
    <3>1. ServersQuiet /\ BlocksQuiet /\ UNCHANGED uses
      BY <1>1 DEF ServersQuiet, BlocksQuiet
    <3>2. MachinesGone => MachinesGone'
      BY <1>2 DEF MachinesGone
    <3>. QED  BY <3>1, <3>2, UseKept
  <2>9. RequestNamesBlock'
    BY <1>1, <2>3, <2>6, <2>7 DEF RequestNamesBlock, clusterVars, C!Exists
  <2>. QED
    BY <1>1, <1>4, <2>2, <2>5, <2>8, <2>9 DEF Supply, clusterVars, TakesAddress
<1>. QED  BY <1>3, <1>4

(* A new server takes the block of its request, which is there.            *)
LEMMA ServerCreatedSupply ==
  ASSUME Facts, Facts', Supply, NEW s \in Servers, ServerCreated(s)
  PROVE  Supply'
<1>1. /\ M!CreateAccepted(s) /\ UNCHANGED <<clusterVars, coreVars>>
      /\ request = NoBlock \/ C!Exists(request)
      /\ blocks' = IF request = NoBlock THEN blocks
                                        ELSE [blocks EXCEPT ![request] = "assigned"]
      /\ uses' = [uses EXCEPT ![s] = request] /\ request' = NoBlock
  BY DEF ServerCreated, MachineOnly
<1>2. /\ bmc \in [Servers -> M!Server] /\ uses \in [Servers -> Blocks \cup {NoBlock}]
      /\ blocks \in [Blocks -> C!ReportedStatus \cup {"unborn", "gone"}]
  BY DEF Facts, Typed, M!TypeOK, Wiring
<1>3. /\ mWk.pc = "create" /\ mWk'.pc = "patchMeta" /\ UNCHANGED mApi
      /\ bmc[s].st = "unborn"
      /\ bmc' = [bmc EXCEPT ![s].owner = mWk.m, ![s].st = "other"]
  BY <1>1, OrderedInTime
     DEF M!CreateAccepted, M!Calling, M!Provision, M!Return, M!kube, Facts, Typed,
         M!TypeOK, M!Worker
<1>4. /\ bmc'[s].owner = mWk.m /\ bmc'[s].st = "other"
      /\ \A t \in Servers : t # s => bmc'[t] = bmc[t]
  BY <1>2, <1>3 DEF M!Server
<1>5. /\ uses'[s] = request /\ \A t \in Servers : t # s => uses'[t] = uses[t]
  BY <1>1, <1>2
<1>6. /\ \A b \in Blocks :
           blocks'[b] = blocks[b] \/ (b = request /\ blocks'[b] = "assigned")
      /\ request # NoBlock => blocks'[request] = "assigned" /\ blocks[request] # "gone"
  <2>1. CASE request = NoBlock
    BY <1>1, <2>1
  <2>2. CASE request # NoBlock
    <3>1. request \in Blocks /\ blocks[request] \in C!ReportedStatus
      BY <1>1, <2>2 DEF C!Exists
    <3>. QED  BY <1>1, <1>2, <2>2, <3>1 DEF C!ReportedStatus
  <2>. QED  BY <2>1, <2>2
<1>7. ServedBlockExists'
  <2>. SUFFICES ASSUME NEW t \in Servers, M!Running(t)', uses'[t] # NoBlock
                PROVE  blocks'[uses'[t]] = "assigned"
    BY DEF ServedBlockExists
  <2>1. CASE t = s
    BY <1>5, <1>6, <2>1
  <2>2. CASE t # s
    <3>1. M!Running(t) /\ uses[t] # NoBlock /\ uses'[t] = uses[t] /\ uses[t] \in Blocks
      BY <1>2, <1>4, <1>5, <2>2 DEF M!Running
    <3>2. blocks[uses[t]] = "assigned"
      BY <3>1 DEF Supply, ServedBlockExists
    <3>. QED  BY <1>6, <3>1, <3>2
  <2>. QED  BY <2>1, <2>2
<1>8. BlocksKnown'
  <2>1. ASSUME NEW t \in Servers, uses'[t] # NoBlock
        PROVE  /\ M!Built(t)' /\ TakesAddress(bmc'[t].owner)
               /\ bmc'[t].st = "gone" => blocks'[uses'[t]] = "gone"
    <3>1. CASE t = s
      BY <1>3, <1>4, <1>5, <2>1, <3>1 DEF Supply, M!Built
    <3>2. CASE t # s
      <4>1. bmc'[t] = bmc[t] /\ uses'[t] = uses[t] /\ uses[t] \in Blocks
        BY <1>2, <1>4, <1>5, <2>1, <3>2
      <4>2. /\ M!Built(t) /\ TakesAddress(bmc[t].owner)
            /\ bmc[t].st = "gone" => blocks[uses[t]] = "gone"
        BY <2>1, <4>1 DEF Supply, BlocksKnown
      <4>. QED  BY <1>6, <4>1, <4>2, ConstantsAssumption DEF M!Built
    <3>. QED  BY <3>1, <3>2
  <2>2. ASSUME NEW b \in Blocks, blocks'[b] = "gone"
        PROVE  MachinesGone' \/ \E t \in Servers : uses'[t] = b /\ bmc'[t].st = "gone"
    <3>1. blocks[b] = "gone"
      BY <1>6, <2>2
    <3>2. CASE MachinesGone
      BY <1>3, <3>2 DEF MachinesGone
    <3>3. ASSUME NEW t \in Servers, uses[t] = b, bmc[t].st = "gone"
          PROVE  uses'[t] = b /\ bmc'[t].st = "gone"
      BY <1>3, <1>4, <1>5, <3>3
    <3>. QED  BY <3>1, <3>2, <3>3 DEF Supply, BlocksKnown
  <2>. QED  BY <2>1, <2>2 DEF BlocksKnown, TakesAddress
<1>9. (MachinesGone \/ (cApi.live /\ ~cApi.deleting))'
  BY <1>1, <1>3 DEF Supply, MachinesGone, clusterVars
<1>. QED  BY <1>1, <1>3, <1>7, <1>8, <1>9 DEF Supply, RequestNamesBlock

(* The server of a block was the only one that had an address of it.       *)
LEMMA ServerGoneSupply ==
  ASSUME Facts, Supply, UNCHANGED <<clusterVars, coreVars, uses, request>>,
         M!DeprovisionAccepted, blocks' = Released(mWk.obj.id)
  PROVE  Supply'
<1> DEFINE i == mWk.obj.id
<1>1. /\ mWk.pc = "delete" /\ mWk'.pc = "patchMeta" /\ UNCHANGED mApi
      /\ M!Running(i) /\ bmc' = [bmc EXCEPT ![i].st = "gone"]
  BY DEF M!DeprovisionAccepted, M!Calling, M!Deprovision, M!Return, M!kube, Facts, Typed,
         M!TypeOK, M!Worker
<1>2. /\ i \in Servers /\ uses \in [Servers -> Blocks \cup {NoBlock}]
      /\ bmc \in [Servers -> M!Server]
      /\ blocks \in [Blocks -> C!ReportedStatus \cup {"unborn", "gone"}]
  BY <1>1 DEF Facts, Typed, M!TypeOK, Wiring
<1>3. /\ bmc'[i].owner = bmc[i].owner /\ bmc'[i].st = "gone"
      /\ \A t \in Servers : t # i => bmc'[t] = bmc[t]
  BY <1>1, <1>2 DEF M!Server
<1>4. /\ \A b \in Blocks : IF b = uses[i] THEN blocks'[b] = "gone" ELSE blocks'[b] = blocks[b]
      /\ uses[i] # NoBlock => blocks'[uses[i]] = "gone"
  BY <1>2, ConstantsAssumption DEF Released
<1>. HIDE DEF i
<1>5. ServedBlockExists'
  <2>. SUFFICES ASSUME NEW t \in Servers, M!Running(t)', uses[t] # NoBlock
                PROVE  blocks'[uses[t]] = "assigned"
    BY DEF ServedBlockExists
  <2>1. t # i /\ M!Running(t) /\ uses[t] \in Blocks
    BY <1>2, <1>3 DEF M!Running, M!ReportedStatus
  <2>2. blocks[uses[t]] = "assigned" /\ TakesAddress(bmc[t].owner) /\ M!Built(t)
    BY <2>1 DEF Supply, ServedBlockExists, BlocksKnown
  <2>3. uses[t] # uses[i]
    <3>. SUFFICES ASSUME uses[t] = uses[i] PROVE FALSE
      OBVIOUS
    <3>1. TakesAddress(bmc[i].owner) /\ M!Built(i)
      BY <1>2 DEF Supply, BlocksKnown
    <3>2. bmc[t].owner = bmc[i].owner
      BY <2>2, <3>1, ControlPlaneAssumption DEF TakesAddress
    <3>. QED  BY <1>2, <2>1, <2>2, <3>1, <3>2 DEF Facts, M!OneServerPerMachine
  <2>. QED  BY <1>4, <2>1, <2>2, <2>3
<1>6. BlocksKnown'
  <2>1. ASSUME NEW t \in Servers, uses[t] # NoBlock
        PROVE  /\ M!Built(t)' /\ TakesAddress(bmc'[t].owner)
               /\ bmc'[t].st = "gone" => blocks'[uses[t]] = "gone"
    <3>1. /\ M!Built(t) /\ TakesAddress(bmc[t].owner) /\ uses[t] \in Blocks
          /\ bmc[t].st = "gone" => blocks[uses[t]] = "gone"
      BY <1>2, <2>1 DEF Supply, BlocksKnown
    <3>. QED  BY <1>3, <1>4, <2>1, <3>1 DEF M!Built
  <2>2. ASSUME NEW b \in Blocks, blocks'[b] = "gone"
        PROVE  MachinesGone' \/ \E t \in Servers : uses[t] = b /\ bmc'[t].st = "gone"
    <3>1. CASE b = uses[i]
      BY <1>2, <1>3, <3>1
    <3>2. CASE b # uses[i]
      <4>1. MachinesGone \/ \E t \in Servers : uses[t] = b /\ bmc[t].st = "gone"
        BY <1>4, <2>2, <3>2 DEF Supply, BlocksKnown
      <4>. QED  BY <1>1, <1>3, <4>1 DEF MachinesGone
    <3>. QED  BY <3>1, <3>2
  <2>. QED  BY <2>1, <2>2 DEF BlocksKnown, TakesAddress
<1>7. (MachinesGone \/ (cApi.live /\ ~cApi.deleting))'
  BY <1>1 DEF Supply, MachinesGone, clusterVars
<1>8. request = NoBlock
  BY <1>1 DEF Supply
<1>. QED  BY <1>1, <1>5, <1>6, <1>7, <1>8 DEF Supply, RequestNamesBlock

(* The cluster's controller deletes a block when no machine is left.       *)
LEMMA BlockDeletedSupply ==
  ASSUME Facts, Supply, ClusterOnly, C!DeleteAnswered
  PROVE  Supply'
<1>1. UNCHANGED <<mApi, mWk, bmc, uses, request, cApi>> /\ cWk.pc = "delete"
  BY DEF ClusterOnly, machineVars, C!DeleteAnswered, C!Calling, C!kube
<1>2. MachinesGone /\ MachinesGone'
  BY <1>1, DeletedLast DEF MachinesGone
<1>3. \A b \in Blocks : blocks'[b] = blocks[b] \/ blocks'[b] = "gone"
  BY DEF C!DeleteAnswered, C!Delete, Facts, Wiring
<1>4. \A s \in Servers : ~M!Running(s)'
  BY <1>1, <1>2, NoneRunning DEF M!Running
<1>5. mWk.pc # "create" /\ request = NoBlock
  BY <1>2, OrderedInTime DEF Supply, MachinesGone
<1>6. ServedBlockExists' /\ RequestNamesBlock'
  BY <1>1, <1>4, <1>5 DEF ServedBlockExists, RequestNamesBlock
<1>7. BlocksKnown'
  <2>1. ASSUME NEW s \in Servers, uses[s] # NoBlock
        PROVE  /\ M!Built(s) /\ TakesAddress(bmc[s].owner)
               /\ bmc[s].st = "gone" => blocks'[uses[s]] = "gone"
    <3>1. /\ M!Built(s) /\ TakesAddress(bmc[s].owner) /\ uses[s] \in Blocks
          /\ bmc[s].st = "gone" => blocks[uses[s]] = "gone"
      BY <2>1 DEF Supply, BlocksKnown, Facts, Wiring
    <3>. QED  BY <1>3, <3>1
  <2>. QED  BY <1>1, <1>2, <2>1 DEF BlocksKnown, TakesAddress, M!Built
<1>. QED  BY <1>1, <1>2, <1>5, <1>6, <1>7 DEF Supply

LEMMA ClusterExchangeSupply ==
  ASSUME Facts, Supply, ClusterExchange
  PROVE  Supply'
<1>1. ClusterOnly /\ UNCHANGED <<mApi, mWk, bmc, uses, request>>
  BY DEF ClusterExchange, ClusterOnly, machineVars
<1>2. CASE C!DeleteAnswered
  BY <1>1, <1>2, BlockDeletedSupply
<1>3. CASE ~C!DeleteAnswered
  <2>1. UNCHANGED cApi
    BY <1>3 DEF ClusterExchange, C!CreateAccepted, C!SynchronizeAnswered,
                C!SynchronizeDenied, C!Calling, C!kube
  <2>2. BlocksQuiet
    BY <1>3 DEF ClusterExchange, C!CreateAccepted, C!SynchronizeAnswered,
                C!SynchronizeDenied, C!Allocate, BlocksQuiet, C!ReportedStatus, Facts, Wiring
  <2>3. ServersQuiet /\ OrderQuiet
    BY <1>1 DEF ServersQuiet, OrderQuiet
  <2>4. MachinesGone => MachinesGone'
    BY <1>1 DEF MachinesGone
  <2>5. MachinesGone \/ (cApi.live /\ ~cApi.deleting)
    BY DEF Supply
  <2>. QED  BY <1>1, <2>1, <2>2, <2>3, <2>4, <2>5, SupplyKept
<1>. QED  BY <1>2, <1>3

(* The record of the block is not changed while there is one.              *)
LEMMA ClusterPatchSupply ==
  ASSUME Facts, Supply, ClusterPatch
  PROVE  Supply'
<1>1. UNCHANGED <<mApi, mWk, bmc, uses, request, blocks>>
  BY DEF ClusterPatch, ClusterOnly, machineVars, C!PatchMeta, C!PatchStatus
<1>2. ASSUME cApi.live, ~cApi.deleting
      PROVE  /\ cApi'.live /\ ~cApi'.deleting
             /\ cApi.ipid # NoBlock => cApi'.ipid = cApi.ipid
  <2>0. cApi \in C!Object
    BY DEF Facts, Typed, C!TypeOK
  <2>1. CASE C!PatchStatus
    BY <1>2, <2>0, <2>1 DEF C!PatchStatus, C!MergeStatus, C!Object
  <2>2. CASE C!PatchMeta
    <3>1. cApi' = C!Collected(C!MergeMeta(cApi, cWk.base, cWk.obj)) /\ cWk.pc = "patchMeta"
      BY <1>2, <2>2 DEF C!PatchMeta
    <3>2. /\ C!MergeMeta(cApi, cWk.base, cWk.obj).live
          /\ ~C!MergeMeta(cApi, cWk.base, cWk.obj).deleting
          /\ C!MergeMeta(cApi, cWk.base, cWk.obj).ipid =
               C!Merge(cApi.ipid, cWk.base.ipid, cWk.obj.ipid)
      BY <1>2, <2>0 DEF C!MergeMeta, C!Object
    <3>3. cApi' = C!MergeMeta(cApi, cWk.base, cWk.obj)
      BY <3>1, <3>2 DEF C!Collected
    <3>4. cApi.ipid # NoBlock => cWk.obj.ipid = cWk.base.ipid
      BY <3>1 DEF Facts, C!CleanState, C!CleanWorker, C!Ordering, C!Recording
    <3>. QED  BY <3>2, <3>3, <3>4 DEF C!Merge
  <2>. QED  BY <2>1, <2>2 DEF ClusterPatch
<1>3. BlocksQuiet /\ ServersQuiet /\ OrderQuiet
  BY <1>1 DEF BlocksQuiet, ServersQuiet, OrderQuiet
<1>4. MachinesGone => MachinesGone'
  BY <1>1 DEF MachinesGone
<1>. QED  BY <1>1, <1>2, <1>3, <1>4, SupplyKept DEF Supply

LEMMA SupplyStep ==
  ASSUME Facts, Facts', Supply, [Next]_vars
  PROVE  Supply'
<1>0. bmc \in [Servers -> M!Server] /\ blocks \in [Blocks -> C!ReportedStatus \cup {"unborn", "gone"}]
  BY DEF Facts, Typed, M!TypeOK, Wiring
<1>1. CASE UNCHANGED vars
  <2>1. UNCHANGED <<blocks, uses, request, cApi, mApi, mWk, bmc>>
    BY <1>1 DEF vars, machineVars, clusterVars, cloudVars
  <2>2. ServersQuiet /\ OrderQuiet
    BY <2>1 DEF ServersQuiet, OrderQuiet
  <2>. QED  BY <2>1, <2>2, QuietStep
<1>2. ASSUME NEW m \in Machines, MachineEvent(m) \/ MachineDeleted(m) PROVE Supply'
  <2>1. UNCHANGED <<blocks, uses, request, cApi, mWk, bmc>>
    BY <1>2 DEF MachineEvent, MachineDeleted, clusterVars, M!WatchEvent, M!DeleteRequested,
                M!cloud
  <2>2. UNCHANGED mApi \/ M!DeleteRequested(m)
    BY <1>2 DEF MachineEvent, MachineDeleted, M!WatchEvent
  <2>3. ServersQuiet /\ OrderQuiet
    BY <2>1 DEF ServersQuiet, OrderQuiet
  <2>. QED  BY <2>1, <2>2, <2>3, QuietStep
<1>3. CASE ServerPolled
  <2>1. UNCHANGED <<blocks, uses, request, cApi, mApi, bmc>> /\ mWk.pc = "sync"
    BY <1>3 DEF ServerPolled, MachineOnly, clusterVars, M!SynchronizeAnswered, M!Calling, M!kube
  <2>2. mWk'.pc = "patchMeta"
    BY <1>3 DEF ServerPolled, M!SynchronizeAnswered, M!Return, Facts, Typed, M!TypeOK, M!Worker
  <2>. QED  BY <2>1, <2>2, ServersUnchanged, NoOrder, QuietStep
<1>4. CASE MachinePatch
  <2>1. UNCHANGED <<blocks, uses, request, cApi, bmc>>
    BY <1>4 DEF MachinePatch, clusterVars, M!PatchMeta, M!PatchStatus, M!cloud
  <2>2. mWk.pc # "create" /\ mWk'.pc # "create"
    BY <1>4 DEF MachinePatch, M!PatchMeta, M!PatchStatus, M!Finish, M!Idle, Facts, Typed,
                M!TypeOK, M!Worker
  <2>3. ServersQuiet /\ OrderQuiet
    BY <2>1, <2>2, ServersUnchanged, NoOrder
  <2>. QED  BY <1>4, <2>1, <2>3, QuietStep DEF MachinePatch
<1>5. CASE ServerDeprovisioned
  <2>1. UNCHANGED <<clusterVars, coreVars, uses, request>>
    BY <1>5 DEF ServerDeprovisioned, MachineOnly
  <2>2. CASE M!DeprovisionAccepted /\ blocks' = Released(mWk.obj.id)
    BY <2>1, <2>2, ServerGoneSupply
  <2>3. CASE M!DeprovisionFailed /\ UNCHANGED blocks
    <3>1. UNCHANGED <<blocks, uses, request, cApi, mApi, bmc>> /\ mWk.pc = "delete"
      BY <2>1, <2>3 DEF clusterVars, M!DeprovisionFailed, M!Calling, M!kube, M!cloud
    <3>2. mWk'.pc = "patchMeta"
      BY <2>3 DEF M!DeprovisionFailed, M!Return, Facts, Typed, M!TypeOK, M!Worker
    <3>. QED  BY <3>1, <3>2, ServersUnchanged, NoOrder, QuietStep
  <2>. QED  BY <1>5, <2>2, <2>3 DEF ServerDeprovisioned
<1>6. CASE ClusterReconciles
  <2>1. UNCHANGED <<blocks, uses, request, cApi, mApi, mWk, bmc>>
    BY <1>6 DEF ClusterReconciles, ClusterOnly, machineVars, C!Reconcile,
                C!ReconcileNothing, C!ReconcileDelete, C!ReconcileCreate,
                C!ReconcileSynchronize, C!ReconcileLive, C!Take, C!kube
  <2>2. ServersQuiet /\ OrderQuiet
    BY <2>1 DEF ServersQuiet, OrderQuiet
  <2>. QED  BY <2>1, <2>2, QuietStep
<1>7. CASE BMCClusterEvent \/ BMCClusterLinked \/ Pause \/ Resume \/ InfrastructureReady
  <2>1. UNCHANGED <<blocks, uses, request, cApi, mApi, mWk, bmc>>
    BY <1>7 DEF BMCClusterEvent, BMCClusterLinked, Pause, Resume, InfrastructureReady,
                ClusterEvent, cloudVars, C!WatchEvent
  <2>2. ServersQuiet /\ OrderQuiet
    BY <2>1 DEF ServersQuiet, OrderQuiet
  <2>. QED  BY <2>1, <2>2, QuietStep
<1>8. ASSUME NEW m \in Machines, Bootstrap(m) PROVE Supply'
  <2>1. UNCHANGED <<blocks, uses, request, cApi, mApi, mWk, bmc>>
    BY <1>8 DEF Bootstrap, clusterVars, cloudVars
  <2>2. ServersQuiet /\ OrderQuiet
    BY <2>1 DEF ServersQuiet, OrderQuiet
  <2>. QED  BY <2>1, <2>2, QuietStep
<1>9. CASE ClusterDeleted
  <2>1. UNCHANGED <<blocks, uses, request, mApi, mWk, bmc>> /\ MachinesGone
    BY <1>9 DEF ClusterDeleted, ClusterOnly, machineVars, C!DeleteRequested, MachinesGone
  <2>2. ServersQuiet /\ OrderQuiet /\ BlocksQuiet /\ MachinesGone'
    BY <2>1 DEF ServersQuiet, OrderQuiet, BlocksQuiet, MachinesGone
  <2>. QED  BY <2>1, <2>2, SupplyKept
<1>10. ASSUME NEW s \in Servers, ServerBoots(s) PROVE Supply'
  <2>1. UNCHANGED <<blocks, uses, request, cApi, mApi, mWk>> /\ M!ServerChanges(s)
    BY <1>10 DEF ServerBoots, clusterVars, M!ServerChanges, M!kube
  <2>2. OrderQuiet
    BY <2>1 DEF OrderQuiet
  <2>3. ServersQuiet
    <3>1. M!Running(s) /\ bmc'[s].st # "gone"
      BY <1>10 DEF ServerBoots, M!ServerChanges
    <3>2. PICK st \in {"powered-on"} :
            bmc' = [bmc EXCEPT ![s].st = st, ![s].on = @ \/ st = "powered-on"]
      BY <1>0, <2>1, <3>1 DEF M!ServerChanges, M!Server
    <3>3. /\ bmc'[s].owner = bmc[s].owner /\ bmc'[s].st = "powered-on"
          /\ \A t \in Servers : t # s => bmc'[t] = bmc[t]
      BY <1>0, <3>2 DEF M!Server
    <3>. QED  BY <3>1, <3>3 DEF ServersQuiet, M!Running, M!ReportedStatus
  <2>. QED  BY <2>1, <2>2, <2>3, QuietStep
<1>11. ASSUME NEW b \in Blocks, BlockBoots(b) PROVE Supply'
  <2>1. UNCHANGED <<uses, request, cApi, mApi, mWk, bmc>>
    BY <1>11 DEF BlockBoots, ClusterOnly, machineVars, C!BlockChanges, C!kube
  <2>2. ServersQuiet /\ OrderQuiet /\ (MachinesGone => MachinesGone')
    BY <2>1 DEF ServersQuiet, OrderQuiet, MachinesGone
  <2>3. BlocksQuiet
    BY <1>0, <1>11 DEF BlockBoots, BlocksQuiet, C!BlockChanges, C!ReportedStatus
  <2>4. MachinesGone \/ (cApi.live /\ ~cApi.deleting)
    BY DEF Supply
  <2>. QED  BY <2>1, <2>2, <2>3, <2>4, SupplyKept
<1>12. CASE Crash
  <2>1. UNCHANGED <<blocks, uses, cApi, mApi, bmc>> /\ request' = NoBlock
    BY <1>12 DEF Crash, M!Crash, M!cloud, C!Crash
  <2>2. mWk'.pc = "idle"
    BY <1>12 DEF Crash, M!Crash, M!Idle
  <2>3. OrderQuiet
    BY <2>1, <2>2 DEF OrderQuiet
  <2>. QED  BY <2>1, <2>3, ServersUnchanged, QuietStep
<1>13. CASE Controllers
  BY <1>2, <1>3, <1>4, <1>5, <1>6, <1>7, <1>13, MachineReconcilesSupply,
     ServerCreatedSupply, ClusterExchangeSupply, ClusterPatchSupply
     DEF Controllers, MachineExchange
<1>14. CASE Core
  BY <1>2, <1>7, <1>8, <1>9, <1>14 DEF Core
<1>. QED  BY <1>1, <1>10, <1>11, <1>12, <1>13, <1>14 DEF Next, Cloud

LEMMA SupplyInvariance == Spec => [](Facts /\ Supply)
<1>1. Facts /\ Facts' /\ Supply /\ [Next]_vars => Supply'
  BY SupplyStep
<1>. QED  BY <1>1, FactsHold, SupplyInit, PTL DEF Spec

(* The core acts in order, blocks are named and used in order, the cluster *)
(* outlives its machines, and its block is in use, on record or given back,*)
(* by the server that had it or after the last machine.                    *)
THEOREM SupplyHolds == Spec => []SupplyInv
<1>1. Facts /\ Supply => SupplyInv
  BY DEF Facts, SupplyInv
<1>. QED  BY <1>1, SupplyInvariance, PTL

(* A create request names the cluster's block, and the block is there.     *)
THEOREM RequestsNameTheBlock == Spec => []RequestNamesBlock
<1>1. Supply => RequestNamesBlock
  BY DEF Supply
<1>. QED  BY <1>1, SupplyInvariance, PTL

(* No block is taken away from under a running server: not by the deletion *)
(* of another server, nor by the deletion of the cluster.                  *)
THEOREM ServedBlocksExist == Spec => []ServedBlockExists
<1>1. Supply => ServedBlockExists
  BY DEF Supply
<1>. QED  BY <1>1, SupplyInvariance, PTL

(* When everything is deleted no server runs, and the only block that is   *)
(* there still is one left alone that no server had.                       *)
THEOREM NothingIsLeft == Spec => []NothingLeft
<1>1. Facts /\ Supply => NothingLeft
  <2>. SUFFICES ASSUME Facts, Supply, MachinesGone, ~cApi.live
                PROVE  /\ \A s \in Servers : ~M!Running(s)
                       /\ \A b \in Blocks :
                            C!Exists(b) => b \in left /\ \A s \in Servers : uses[s] # b
    BY DEF NothingLeft, MachinesGone
  <2>1. \A s \in Servers : ~M!Running(s)
    BY NoneRunning
  <2>2. ASSUME NEW b \in Blocks, C!Exists(b) PROVE b \in left
    <3>1. ~C!Tracked(b)
      BY DEF C!Tracked
    <3>2. ~C!InFlight(b)
      BY DEF Facts, C!CleanState, C!CleanWorker, C!Ordering, C!Recording, C!InFlight
    <3>. QED  BY <2>2, <3>1, <3>2 DEF Facts, C!Leaked
  <2>3. ASSUME NEW b \in Blocks, C!Exists(b), NEW s \in Servers, uses[s] = b PROVE FALSE
    <3>1. M!Built(s) /\ (bmc[s].st = "gone" => blocks[b] = "gone")
      BY <2>3, ConstantsAssumption DEF Supply, BlocksKnown
    <3>2. bmc[s].st = "gone"
      BY <2>1, <3>1 DEF M!Running, M!Built, Facts, Typed, M!TypeOK, M!Server, M!ServerState
    <3>. QED  BY <2>3, <3>1, <3>2 DEF C!Exists, C!ReportedStatus
  <2>. QED  BY <2>1, <2>2, <2>3
<1>. QED  BY <1>1, SupplyInvariance, PTL

=============================================================================
