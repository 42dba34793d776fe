--------------------------- MODULE Infrastructure ---------------------------
(***************************************************************************)
(* Both controllers at work on one Cluster, in one manager process, with   *)
(* the Cluster API core and Bare Metal Cloud around them. Modules BMCMachine*)
(* and BMCCluster leave open when a reconcile finds its preconditions; here*)
(* they follow from what the caches say of the Cluster, the BMCCluster and *)
(* the bootstrap data, and the watches wake the controllers up.            *)
(*                                                                         *)
(* BMC does what it is asked for, and has enough of what it is asked for.  *)
(* Calls and patches that fail are left to the modules of the controllers, *)
(* and so is what they may cost.                                           *)
(***************************************************************************)
EXTENDS Naturals, FiniteSets

CONSTANTS
  Machines, NoMachine,    \* BMCMachines, as in module BMCMachine
  ControlPlane,           \* those of them that are control plane machines
  Servers, NoServer,      \* servers, as in module BMCMachine
  Blocks, NoBlock,        \* IP blocks, as in module BMCCluster
  BaseOctet,              \* last byte of the first address of each block
  VIPManager              \* spec.vipManager of the BMCCluster

(* Without a VIP manager there is one control plane machine (README.md:51, *)
(* templates/cluster-template.yaml:32).                                    *)
ASSUME ControlPlaneAssumption ==
  /\ ControlPlane \subseteq Machines
  /\ VIPManager = "NONE" => \A m, n \in ControlPlane : m = n

(* What the modules of the controllers assume.                             *)
ASSUME ConstantsAssumption ==
  /\ NoMachine \notin Machines /\ NoServer \notin Servers /\ NoBlock \notin Blocks
  /\ VIPManager \in {"NONE", "KUBEVIP"}
  /\ BaseOctet \in [Blocks -> {o \in 0 .. 255 : o % 2 = 0}]

VARIABLES
  mApi, mCache, mQueue, mWk,    \* the BMCMachine controller and its objects
  cApi, cCache, cQueued, cWk,   \* the BMCCluster controller and its object
  bmc, blocks,                  \* servers and IP blocks at BMC
  uses,          \* the block that a server has an address of
  request,       \* the block named in the create request being sent
  linked,        \* the BMCCluster has its owner reference
  paused,        \* the Cluster is paused
  infra,         \* Cluster.status.infrastructureReady
  bootstrapped,  \* machines whose bootstrap data is there
  left           \* history: blocks that the deletion left alone

machineVars == <<mApi, mCache, mQueue, mWk>>
clusterVars == <<cApi, cCache, cQueued, cWk, left>>
cloudVars   == <<bmc, blocks, uses, request>>
coreVars    == <<linked, paused, infra, bootstrapped>>
vars        == <<machineVars, clusterVars, cloudVars, coreVars>>

-----------------------------------------------------------------------------
(* What a reconcile of m finds in the caches. *)

SlipIsInfrastructureReady == TRUE
IsInfrastructureReady     == infra

(* Without a VIP manager a control plane machine gets its address from the *)
(* cluster's block.                                                        *)
TakesAddress(m) == m \in ControlPlane /\ VIPManager = "NONE"

SlipAddressReady(m) == TRUE
AddressReady(m)     == TakesAddress(m) => cCache.ipid # NoBlock

HasPreconditions(m) ==
  /\ cCache.live
  /\ ~paused
  /\ IsInfrastructureReady
  /\ m \in bootstrapped
  /\ AddressReady(m)

M == INSTANCE BMCMachine WITH
  Joining <- {}, Reports <- {"powered-on"}, Resyncs <- FALSE, MaxMishaps <- 0,
  api <- mApi, cache <- mCache, queue <- mQueue, wk <- mWk, mishaps <- 0,
  open <- {m \in Machines : HasPreconditions(m)},
  node <- [m \in Machines |-> <<>>]

C == INSTANCE BMCCluster WITH
  Annotated <- TRUE, Malformed <- {}, Resyncs <- FALSE, MaxMishaps <- 0,
  api <- cApi, cache <- cCache, queued <- cQueued, wk <- cWk, mishaps <- 0,
  open <- linked /\ ~paused

(* The first precondition that is missing. Every BMCMachine has its owner, *)
(* and the Cluster outlives the machines.                                  *)
Gate(m) ==
  CASE ~cCache.live                                     -> M!NoBMCCluster
    [] cCache.live /\ paused                            -> M!Paused
    [] cCache.live /\ ~paused
         /\ ~(IsInfrastructureReady /\ m \in bootstrapped) -> M!NotReady
    [] cCache.live /\ ~paused
         /\ IsInfrastructureReady /\ m \in bootstrapped
         /\ ~AddressReady(m)                            -> M!NoIPBlock
    [] OTHER                                            -> M!Open

Init ==
  /\ linked = FALSE
  /\ paused = FALSE
  /\ bootstrapped = {}
  /\ C!Init
  /\ M!Init
  /\ \A m \in Machines : mApi[m].annotated
  /\ uses = [s \in Servers |-> NoBlock]
  /\ request = NoBlock

-----------------------------------------------------------------------------
(* The BMCMachine controller. *)

(* A create request names the block that the cached BMCCluster records.    *)
MachineReconciles(m) ==
  /\ UNCHANGED <<clusterVars, coreVars, bmc, blocks, uses>>
  /\ M!ReconcileAt(m, Gate(m))
  /\ request' = IF mWk'.pc = "create" /\ TakesAddress(m)
                  THEN cCache.ipid ELSE NoBlock

MachineOnly == UNCHANGED <<clusterVars, coreVars>>

(* BMC builds the server and assigns the block to it. It has a server for  *)
(* every machine. (RequestNamesBlock: it always has the block.)            *)
ServerCreated(s) ==
  /\ MachineOnly
  /\ M!CreateAccepted(s)
  /\ request = NoBlock \/ C!Exists(request)
  /\ blocks' = IF request = NoBlock THEN blocks
                                    ELSE [blocks EXCEPT ![request] = "assigned"]
  /\ uses' = [uses EXCEPT ![s] = request]
  /\ request' = NoBlock

ServerPolled ==
  /\ MachineOnly
  /\ M!SynchronizeAnswered
  /\ UNCHANGED <<blocks, uses, request>>

(* The body of the request says deleteIpBlocks. *)
SlipReleased(s) == blocks
Released(s)     == IF uses[s] = NoBlock THEN blocks
                   ELSE [blocks EXCEPT ![uses[s]] = "gone"]

ServerDeprovisioned ==
  /\ MachineOnly
  /\ \/ M!DeprovisionAccepted /\ blocks' = Released(mWk.obj.id)
     \/ M!DeprovisionFailed /\ ~M!Running(mWk.obj.id) /\ UNCHANGED blocks
  /\ UNCHANGED <<uses, request>>

MachineExchange ==
  \/ \E s \in Servers : ServerCreated(s)
  \/ ServerPolled \/ ServerDeprovisioned

MachinePatch ==
  /\ UNCHANGED <<clusterVars, coreVars, blocks, uses, request>>
  /\ M!PatchMeta \/ M!PatchStatus

MachineEvent(m) ==
  /\ UNCHANGED <<clusterVars, coreVars, blocks, uses, request>>
  /\ M!WatchEvent(m)

-----------------------------------------------------------------------------
(* The BMCCluster controller. *)

ClusterOnly ==
  UNCHANGED <<machineVars, bmc, uses, request, linked, paused, bootstrapped>>

ClusterReconciles == ClusterOnly /\ C!Reconcile

(* An existing block is polled or deleted, others are not found. *)
ClusterExchange ==
  /\ ClusterOnly
  /\ \/ \E b \in Blocks : C!CreateAccepted(b)
     \/ C!SynchronizeAnswered
     \/ C!SynchronizeDenied /\ ~C!Exists(cWk.obj.ipid)
     \/ C!DeleteAnswered

ClusterPatch == ClusterOnly /\ (C!PatchMeta \/ C!PatchStatus)

-----------------------------------------------------------------------------
(* The watches of Clusters and BMCClusters.                                *)

(* The machines of the Cluster that owns the BMCCluster. *)
SlipBMCClusterToBMCMachines == {}
BMCClusterToBMCMachines     == IF linked' THEN Machines ELSE {}

(* The predicates let an event of the Cluster pass to a controller when it *)
(* is not paused any more or, for machines, its infrastructure is ready.   *)
ClusterUnpaused == paused /\ ~paused'

ClusterUnpausedAndInfrastructureReady == ClusterUnpaused \/ (~infra /\ infra')

Wake(ms) == mQueue' = mQueue \cup ms

(* A new version of the BMCCluster arrives at both controllers.            *)
BMCClusterEvent ==
  /\ UNCHANGED <<mApi, mCache, mWk, cloudVars, coreVars, left>>
  /\ C!WatchEvent
  /\ Wake(BMCClusterToBMCMachines)

BMCClusterLinked ==
  /\ ~linked /\ linked' = TRUE
  /\ cQueued' = TRUE
  /\ Wake(BMCClusterToBMCMachines)
  /\ UNCHANGED <<mApi, mCache, mWk, cApi, cCache, cWk, left, cloudVars,
                 paused, infra, bootstrapped>>

ClusterEvent ==
  /\ cQueued' = (cQueued \/ ClusterUnpaused)
  /\ Wake(IF ClusterUnpausedAndInfrastructureReady THEN Machines ELSE {})
  /\ UNCHANGED <<mApi, mCache, mWk, cApi, cCache, cWk, left, cloudVars,
                 linked, bootstrapped>>

Pause  == linked /\ ~paused /\ paused' = TRUE /\ UNCHANGED infra /\ ClusterEvent
Resume == paused /\ paused' = FALSE /\ UNCHANGED infra /\ ClusterEvent

(* The core copies BMCCluster.status.ready to the Cluster once. *)
InfrastructureReady ==
  /\ linked /\ ~paused /\ ~infra
  /\ cApi.live /\ cApi.ready
  /\ infra' = TRUE
  /\ UNCHANGED paused
  /\ ClusterEvent

-----------------------------------------------------------------------------
(* The Cluster API core and BMC. *)

(* The bootstrap secret is named in the Machine, which enqueues its        *)
(* BMCMachine.                                                             *)
Bootstrap(m) ==
  /\ m \notin bootstrapped
  /\ bootstrapped' = bootstrapped \cup {m}
  /\ Wake({m})
  /\ UNCHANGED <<mApi, mCache, mWk, clusterVars, cloudVars, linked, paused, infra>>

MachineDeleted(m) ==
  /\ UNCHANGED <<clusterVars, coreVars, blocks, uses, request>>
  /\ M!DeleteRequested(m)

(* The core deletes the infrastructure of a Cluster after its machines.    *)
ClusterDeleted ==
  /\ \A m \in Machines : ~mApi[m].live
  /\ ClusterOnly
  /\ C!DeleteRequested

ServerBoots(s) ==
  /\ UNCHANGED <<clusterVars, coreVars, blocks, uses, request>>
  /\ M!ServerChanges(s)
  /\ bmc'[s].st # "gone"

(* A block that is being created becomes available. *)
BlockBoots(b) ==
  /\ ClusterOnly
  /\ blocks[b] = "other"
  /\ C!BlockChanges(b)
  /\ blocks'[b] = "unassigned"

(* The manager stops and starts again; the mark that the cluster is ready  *)
(* is not lost in that (module BMCCluster shows what happens if it is).    *)
Crash ==
  /\ cWk.pc # "patchStatus"
  /\ UNCHANGED <<coreVars, blocks, uses>>
  /\ C!Crash
  /\ M!Crash
  /\ request' = NoBlock

-----------------------------------------------------------------------------
Controllers ==
  \/ \E m \in Machines : MachineReconciles(m) \/ MachineEvent(m)
  \/ MachineExchange \/ MachinePatch
  \/ ClusterReconciles \/ ClusterExchange \/ ClusterPatch
  \/ BMCClusterEvent

Core ==
  \/ BMCClusterLinked \/ InfrastructureReady \/ Pause \/ Resume \/ ClusterDeleted
  \/ \E m \in Machines : Bootstrap(m) \/ MachineDeleted(m)

Cloud ==
  \/ \E s \in Servers : ServerBoots(s)
  \/ \E b \in Blocks : BlockBoots(b)

Next == Controllers \/ Core \/ Cloud \/ Crash

Spec == Init /\ [][Next]_vars

(* Workers, patches, deadlines and watches go on as in the modules of the  *)
(* controllers; the core links, bootstraps and publishes; servers boot.    *)
(* Nobody needs to pause, resume or delete anything, and nothing resyncs.  *)
Fairness ==
  /\ \A m \in Machines : /\ SF_vars(MachineReconciles(m))
                         /\ WF_vars(MachineEvent(m))
                         /\ WF_vars(Bootstrap(m))
  /\ WF_vars(ServerDeprovisioned \/ MachinePatch)
  /\ WF_vars(ClusterReconciles \/ ClusterPatch)
  /\ WF_vars(BMCClusterEvent)
  /\ WF_vars(BMCClusterLinked) /\ WF_vars(InfrastructureReady)
  /\ \A s \in Servers : WF_vars(ServerBoots(s))

FairSpec == Spec /\ Fairness

(* From some moment on the manager stays up. *)
StaysUp == <>[][~Crash]_vars

-----------------------------------------------------------------------------
(* A create request never names another block than the cluster's, and that *)
(* block is there, although the request is put together from a cached      *)
(* BMCCluster and the block may be given back by two controllers.          *)
RequestNamesBlock ==
  \A m \in Machines :
    mWk.pc = "create" /\ mWk.m = m /\ TakesAddress(m) =>
      request = cApi.ipid /\ C!Exists(request)

(* The block that a running server has its address of is never taken away  *)
(* from under it.                                                          *)
ServedBlockExists ==
  \A s \in Servers :
    M!Running(s) /\ uses[s] # NoBlock => blocks[uses[s]] = "assigned"

(* When the machines and the BMCCluster are gone nothing is left at BMC,   *)
(* except a block that its deletion left alone and no server had. The block*)
(* of a server goes with the server or else with the cluster, and nobody   *)
(* asks both sides which of them it is.                                    *)
NothingLeft ==
  (\A m \in Machines : ~mApi[m].live) /\ ~cApi.live =>
    /\ \A s \in Servers : ~M!Running(s)
    /\ \A b \in Blocks :
         C!Exists(b) => b \in left /\ \A s \in Servers : uses[s] # b

(* Together the controllers still are what their modules say of each alone:*)
(* whatever one of them does is something that the module of the other     *)
(* expects of its surroundings.                                            *)
Composed == M!Spec /\ C!Spec

(* From an empty project to a machine that is ready: no wake-up is lost    *)
(* between the controllers, the caches and the core, without any resync,   *)
(* once the cluster stays unpaused and the manager up.                     *)
Provisioned ==
  M!ExchangesEnd /\ C!ExchangesEnd /\ StaysUp /\ <>[](~paused) =>
    \A m \in Machines : <>(~mApi[m].live \/ mApi[m].deleting) \/ <>[](mApi[m].ready)

(* A machine marked deleted disappears, whatever becomes of the cluster:   *)
(* its controller does not wait for a pause to end.                        *)
MachineRemoved ==
  M!ExchangesEnd /\ StaysUp =>
    \A m \in Machines : mApi[m].deleting ~> ~mApi[m].live

(* The BMCCluster waits for the end of a pause, and then disappears.       *)
ClusterRemoved ==
  C!ExchangesEnd /\ StaysUp /\ <>[](~paused) =>
    (cApi.deleting ~> ~cApi.live)

-----------------------------------------------------------------------------
(* The inductive invariants behind the safety properties.                  *)

(* What makes each controller a proper surrounding of the other one: the   *)
(* core acts in order, a block is only named once the cluster is ready, and*)
(* servers have addresses of blocks that were allocated.                   *)
Wiring ==
  /\ {linked, paused, infra, cQueued} \subseteq BOOLEAN
  /\ blocks \in [Blocks -> C!ReportedStatus \cup {"unborn", "gone"}]
  /\ uses \in [Servers -> Blocks \cup {NoBlock}]
  /\ paused \/ infra => linked
  /\ request # NoBlock => infra
  /\ \A s \in Servers : uses[s] # NoBlock => blocks[uses[s]] # "unborn"

MachinesGone == \A m \in Machines : ~mApi[m].live

(* Who gives back a block: its server when it goes, or the cluster once the*)
(* machines are gone.                                                      *)
BlocksKnown ==
  /\ \A s \in Servers :
       uses[s] # NoBlock => /\ M!Built(s) /\ TakesAddress(bmc[s].owner)
                            /\ bmc[s].st = "gone" => blocks[uses[s]] = "gone"
  /\ \A b \in Blocks :
       blocks[b] = "gone" =>
         MachinesGone \/ \E s \in Servers : uses[s] = b /\ bmc[s].st = "gone"

(* The cluster outlives its machines, a block is only named for a control  *)
(* plane machine that is getting its server, and blocks are in use, known  *)
(* or given back.                                                          *)
Supply ==
  /\ MachinesGone \/ (cApi.live /\ ~cApi.deleting)
  /\ request # NoBlock => mWk.pc = "create" /\ TakesAddress(mWk.m)
  /\ RequestNamesBlock
  /\ ServedBlockExists
  /\ BlocksKnown

SupplyInv == Wiring /\ Supply

=============================================================================
