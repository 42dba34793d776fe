----------------------------- MODULE BMCCluster -----------------------------
(***************************************************************************)
(* The BMCCluster controller (controllers/bmccluster_controller.go) for one*)
(* BMCCluster: it buys a block of two public IP addresses from BMC, stores *)
(* the second one as the control plane endpoint, polls the block and gives *)
(* it back when the cluster is deleted. A reconcile is cut as in module    *)
(* BMCMachine: cache read, HTTP exchange, metadata patch, status patch.    *)
(***************************************************************************)
EXTENDS Naturals, FiniteSets

CONSTANTS
  Blocks,       \* identifiers that BMC may give to IP blocks
  NoBlock,      \* the empty identifier
  VIPManager,   \* spec.vipManager: "NONE" or "KUBEVIP"
  Annotated,    \* whether metadata.annotations is not nil
  BaseOctet,    \* last byte of the first address of each block
  Malformed,    \* blocks whose CIDR net.ParseIP cannot read
  Resyncs,      \* whether the informer resyncs are modelled
  MaxMishaps    \* bound on the mishaps of a behaviour

ASSUME ClusterAssumption ==
  /\ NoBlock \notin Blocks
  /\ VIPManager \in {"NONE", "KUBEVIP"}
  /\ Annotated \in BOOLEAN
  /\ BaseOctet \in [Blocks -> {o \in 0 .. 255 : o % 2 = 0}]
  /\ Malformed \subseteq Blocks
  /\ Resyncs \in BOOLEAN
  /\ MaxMishaps \in Nat

VARIABLES
  api,      \* the BMCCluster in the API server
  cache,    \* an older or current version of it in the informer cache
  queued,   \* the work queue holds its key, delayed or not
  wk,       \* the worker and the reconcile it is in
  open,     \* there is an owner Cluster and nothing is paused
  blocks,   \* the IP blocks at BMC
  infra,    \* Cluster.status.infrastructureReady, kept by the Cluster API core
  mishaps,  \* history: faults that can cost a block, so far
  left      \* history: blocks that reconcileDelete decided to leave alone

vars == <<api, cache, queued, wk, open, blocks, infra, mishaps, left>>
kube == <<api, cache>>
history == <<mishaps, left>>

-----------------------------------------------------------------------------
(* The BMCCluster object: existence, deletion mark and finalizer; the      *)
(* annotations with the block's id and with the address; the endpoint of   *)
(* the spec; the textual status and the ready flag.                        *)

ReportedStatus == {"other", "unassigned", "assigned"}
ClusterStatus == ReportedStatus \cup {"", "stale", "orphaned", "irreconcilable"}

(* The endpoint is the successor of the address in the CIDR, computed on   *)
(* its last byte, which wraps around.                                      *)
SlipAddress(b) == <<b, BaseOctet[b]>>
Address(b)     == <<b, (BaseOctet[b] + 1) % 256>>

NoAddress == <<>>
EndpointAddress == {NoAddress} \cup Blocks \X (0 .. 255)

(* A /31 block has two addresses. The first one is reserved. *)
UsableAddress(b) == <<b, BaseOctet[b] + 1>>

Object == [live : BOOLEAN, deleting : BOOLEAN, fini : BOOLEAN,
           ipid : Blocks \cup {NoBlock}, ip : EndpointAddress,
           endpoint : EndpointAddress, st : ClusterStatus, ready : BOOLEAN]

NewObject == [live |-> TRUE, deleting |-> FALSE, fini |-> FALSE,
              ipid |-> NoBlock, ip |-> NoAddress, endpoint |-> NoAddress,
              st |-> "", ready |-> FALSE]

NotFound == [NewObject EXCEPT !.live = FALSE]

(* The mutators of ClusterContext. A definition whose name starts with     *)
(* Slip is a plausible mistake in the one that follows it; no              *)
(* specification uses it.                                                  *)
AddFini(o) == [o EXCEPT !.fini = TRUE]

SlipRemoveFini(o) == o
RemoveFini(o)     == [o EXCEPT !.fini = FALSE]

IsStatusEqual(o, st) == o.st = st
SetBMCStatus(o, st)  == [o EXCEPT !.st = st]
MarkStatus(o, st)    == IF IsStatusEqual(o, st) THEN o ELSE SetBMCStatus(o, st)

SetIPAllocationID(o, b) == [o EXCEPT !.ipid = b]

SlipSetIP(o, a) == [o EXCEPT !.ip = o.ipid]
SetIP(o, a)     == [o EXCEPT !.ip = a]

SlipSetControlPlaneEndpoint(o, a) == o
SetControlPlaneEndpoint(o, a)     == [o EXCEPT !.endpoint = a]

SetReady(o) == [o EXCEPT !.ready = TRUE]

(* The deferred merge patch: as in module BMCMachineObject. *)
Merge(stored, base, new) == IF new = base THEN stored ELSE new

MetaChanged(base, obj) ==
  obj.fini # base.fini \/ obj.ipid # base.ipid \/ obj.ip # base.ip
    \/ obj.endpoint # base.endpoint

StatusChanged(base, obj) == obj.st # base.st \/ obj.ready # base.ready

MergeMeta(stored, base, obj) ==
  [stored EXCEPT !.fini     = Merge(@, base.fini, obj.fini),
                 !.ipid     = Merge(@, base.ipid, obj.ipid),
                 !.ip       = Merge(@, base.ip, obj.ip),
                 !.endpoint = Merge(@, base.endpoint, obj.endpoint)]

MergeStatus(stored, base, obj) ==
  [stored EXCEPT !.st    = Merge(@, base.st, obj.st),
                 !.ready = Merge(@, base.ready, obj.ready)]

Collected(o) == IF o.deleting /\ ~o.fini THEN NotFound ELSE o

-----------------------------------------------------------------------------
Worker == [pc : {"idle", "create", "sync", "delete", "patchMeta", "patchStatus"},
           base : Object, obj : Object, again : BOOLEAN]

Idle == [pc |-> "idle", base |-> NotFound, obj |-> NotFound, again |-> FALSE]

Init ==
  /\ api = NewObject
  /\ cache = NewObject
  /\ queued = TRUE
  /\ wk = Idle
  /\ open = FALSE
  /\ blocks = [b \in Blocks |-> "unborn"]
  /\ infra = FALSE
  /\ mishaps = 0
  /\ left = {}

(* Blocks that exist at BMC, those on record, and those that are lost.     *)
Exists(b)   == b \in Blocks /\ blocks[b] \in ReportedStatus
Tracked(b)  == api.live /\ api.ipid = b
InFlight(b) == wk.pc = "patchMeta" /\ wk.obj.ipid = b /\ wk.base.ipid # b
Leaked      == {b \in Blocks : Exists(b) /\ ~Tracked(b) /\ ~InFlight(b) /\ b \notin left}

NoMishap == UNCHANGED history

Mishap ==
  /\ mishaps < MaxMishaps
  /\ mishaps' = mishaps + 1
  /\ UNCHANGED left

MishapIf(cond) == IF cond THEN Mishap ELSE NoMishap

-----------------------------------------------------------------------------
(* Reconcile: the decisions taken on the version in the cache.             *)

IsMarkedDeleted(o) == o.deleting

SlipNeedsBlock(o)       == ~o.ready
SlipReplaceOrphan(o)    == o.ip = NoAddress \/ IsStatusEqual(o, "orphaned")
NeedsBlock(o)           == o.ip = NoAddress

HasBlockToDelete(o) == IsStatusEqual(o, "unassigned")

Stale == cache.ipid # api.ipid \/ cache.ip # api.ip

Take ==
  /\ wk.pc = "idle"
  /\ queued
  /\ queued' = FALSE
  /\ UNCHANGED <<kube, open, blocks, infra>>

Proceed(pc, obj) ==
  wk' = [pc |-> pc, base |-> cache, obj |-> obj, again |-> FALSE]

(* Not found, no owner yet, or paused: nothing, not even for a deletion.   *)
ReconcileNothing ==
  /\ Take
  /\ ~cache.live \/ ~open
  /\ UNCHANGED wk
  /\ NoMishap

(* A block last seen unassigned is given back. One in any other state is   *)
(* left alone, for the deletion of its server to clean up.                 *)
ReconcileDelete ==
  /\ Take
  /\ cache.live /\ open
  /\ IsMarkedDeleted(cache)
  /\ \/ /\ HasBlockToDelete(cache)
        /\ Proceed("delete", cache)
        /\ MishapIf(api.live /\ Stale)
     \/ /\ ~HasBlockToDelete(cache)
        /\ Proceed("patchMeta", RemoveFini(cache))
        /\ IF api.live /\ Stale
             THEN Mishap
             ELSE /\ left' = left \cup ({cache.ipid} \ {NoBlock})
                  /\ UNCHANGED mishaps

ReconcileLive ==
  /\ Take
  /\ cache.live /\ open
  /\ ~IsMarkedDeleted(cache)

ReconcileCreate ==
  /\ ReconcileLive
  /\ NeedsBlock(cache)
  /\ Proceed("create", AddFini(cache))
  /\ MishapIf(~api.live \/ Stale)

ReconcileSynchronize ==
  /\ ReconcileLive
  /\ ~NeedsBlock(cache)
  /\ Proceed("sync", AddFini(cache))
  /\ NoMishap

-----------------------------------------------------------------------------
(* The HTTP exchange.                                                      *)

Return(obj, again) ==
  wk' = [wk EXCEPT !.pc = "patchMeta", !.obj = obj, !.again = again]

Calling(pc) ==
  /\ wk.pc = pc
  /\ UNCHANGED <<kube, queued, open, infra>>

Allocate(b, st) ==
  /\ blocks[b] = "unborn"
  /\ blocks' = [blocks EXCEPT ![b] = st]

(* POST /ips/v1/ip-blocks is accepted: everything is recorded at once.     *)
CreateAccepted(b) ==
  /\ Calling("create")
  /\ Annotated /\ b \notin Malformed
  /\ \E st \in {"other", "unassigned"} :
       /\ Allocate(b, st)
       /\ LET o == SetIPAllocationID(SetBMCStatus(wk.obj, st), b)
          IN  Return(SetReady(SetControlPlaneEndpoint(SetIP(o, Address(b)),
                                                      Address(b))), FALSE)
  /\ NoMishap

(* A panic when annotations is nil, on the first annotation, or when the   *)
(* CIDR cannot be parsed, on the address. It becomes an error.             *)
CreatePanics(b) ==
  /\ Calling("create")
  /\ ~Annotated \/ b \in Malformed
  /\ \E st \in {"other", "unassigned"} :
       /\ Allocate(b, st)
       /\ LET o == SetBMCStatus(wk.obj, st)
          IN  Return(IF Annotated THEN SetIPAllocationID(o, b) ELSE o, TRUE)
  /\ Mishap

(* The block is allocated but the answer is lost or cannot be read.        *)
CreateUnanswered(b) ==
  /\ Calling("create")
  /\ Allocate(b, "other")
  /\ Return(wk.obj, TRUE)
  /\ Mishap

(* 400, 401, 403: irreconcilable and not requeued. *)
CreateRefused ==
  /\ Calling("create")
  /\ Return(MarkStatus(wk.obj, "irreconcilable"), FALSE)
  /\ UNCHANGED blocks
  /\ NoMishap

(* 500: not requeued either. *)
CreateUnavailable ==
  /\ Calling("create")
  /\ Return(wk.obj, FALSE)
  /\ UNCHANGED blocks
  /\ NoMishap

(* Any other code, or no connection: an error, retried. *)
CreateFails ==
  /\ Calling("create")
  /\ Return(wk.obj, TRUE)
  /\ UNCHANGED blocks
  /\ NoMishap

SlipReadyStatus == IF VIPManager = "KUBEVIP" THEN "assigned" ELSE "unassigned"
ReadyStatus     == IF VIPManager = "NONE" THEN "assigned" ELSE "unassigned"

(* GET /ips/v1/ip-blocks/{id} is answered: copy a status that is new, and  *)
(* catch up on the ready flag if it was not stored with the creation.      *)
SynchronizeAnswered ==
  /\ Calling("sync")
  /\ Exists(wk.obj.ipid)
  /\ LET o == MarkStatus(wk.obj, blocks[wk.obj.ipid])
     IN  Return(IF IsStatusEqual(o, ReadyStatus) THEN SetReady(o) ELSE o, TRUE)
  /\ UNCHANGED blocks
  /\ NoMishap

(* No answer, 500, or a body that cannot be decoded: stale. 400 and 401:   *)
(* irreconcilable. Any other code: unchanged. All are retried.             *)
SynchronizeFailed ==
  /\ Calling("sync")
  /\ \E st \in {"stale", "irreconcilable", wk.obj.st} :
       Return(MarkStatus(wk.obj, st), TRUE)
  /\ UNCHANGED blocks
  /\ NoMishap

(* 403, also the answer for an unknown block: orphaned, not requeued. *)
SynchronizeDenied ==
  /\ Calling("sync")
  /\ Return(MarkStatus(wk.obj, "orphaned"), FALSE)
  /\ UNCHANGED blocks
  /\ NoMishap

Delete(b) == blocks' = [blocks EXCEPT ![b] = "gone"]

(* DELETE /ips/v1/ip-blocks/{id} is answered. The code is not looked at: a *)
(* refusal, BMC's answer for a block in use, counts as done.               *)
DeleteAnswered ==
  /\ Calling("delete")
  /\ \/ /\ Exists(wk.obj.ipid)
        /\ Delete(wk.obj.ipid)
        /\ NoMishap
     \/ /\ UNCHANGED blocks
        /\ MishapIf(Exists(wk.obj.ipid))
  /\ Return(RemoveFini(wk.obj), FALSE)

(* No answer: resp is nil and closing its body panics. The finalizer stays *)
(* and the error is retried, whether the block was deleted or not.         *)
DeletePanics ==
  /\ Calling("delete")
  /\ \/ Exists(wk.obj.ipid) /\ Delete(wk.obj.ipid)
     \/ UNCHANGED blocks
  /\ Return(wk.obj, TRUE)
  /\ NoMishap

-----------------------------------------------------------------------------
(* The deferred patch, and a restart of the manager.                       *)

PatchMeta ==
  /\ wk.pc = "patchMeta"
  /\ api' = IF api.live THEN Collected(MergeMeta(api, wk.base, wk.obj)) ELSE api
  /\ wk' = [wk EXCEPT !.pc = "patchStatus"]
  /\ UNCHANGED <<cache, queued, open, blocks, infra, history>>

PatchMetaFails ==
  /\ wk.pc = "patchMeta"
  /\ MetaChanged(wk.base, wk.obj)
  /\ wk' = [wk EXCEPT !.pc = "patchStatus"]
  /\ MishapIf(InFlight(wk.obj.ipid))
  /\ UNCHANGED <<kube, queued, open, blocks, infra>>

Finish ==
  /\ wk' = Idle
  /\ queued' = (queued \/ wk.again)

PatchStatus ==
  /\ wk.pc = "patchStatus"
  /\ api' = IF api.live THEN MergeStatus(api, wk.base, wk.obj) ELSE api
  /\ Finish
  /\ UNCHANGED <<cache, open, blocks, infra, history>>

PatchStatusFails ==
  /\ wk.pc = "patchStatus"
  /\ StatusChanged(wk.base, wk.obj)
  /\ Finish
  /\ UNCHANGED <<kube, open, blocks, infra, history>>

Crash ==
  /\ MishapIf(InFlight(wk.obj.ipid))
  /\ wk' = Idle
  /\ cache' = api
  /\ queued' = TRUE
  /\ UNCHANGED <<api, open, blocks, infra>>

-----------------------------------------------------------------------------
(* The informers, the Cluster API core and BMC.                            *)

WatchEvent ==
  /\ cache # api
  /\ cache' = api
  /\ queued' = TRUE
  /\ UNCHANGED <<api, wk, open, blocks, infra, history>>

Resync ==
  /\ Resyncs
  /\ ~queued
  /\ queued' = TRUE
  /\ UNCHANGED <<kube, wk, open, blocks, infra, history>>

(* The owner reference is set or the cluster resumed, which enqueues it;   *)
(* or the cluster is paused.                                               *)
OpenChanges ==
  /\ open' = ~open
  /\ queued' = (queued \/ ~open)
  /\ UNCHANGED <<kube, wk, blocks, infra, history>>

(* The core copies BMCCluster.status.ready to the Cluster once.            *)
InfrastructureReady ==
  /\ api.live /\ api.ready
  /\ infra' = TRUE
  /\ UNCHANGED <<kube, queued, wk, open, blocks, history>>

DeleteRequested ==
  /\ api.live /\ ~api.deleting
  /\ api' = Collected([api EXCEPT !.deleting = TRUE])
  /\ MishapIf(~api.fini /\ (wk.pc = "create" \/ InFlight(wk.obj.ipid)))
  /\ UNCHANGED <<cache, queued, wk, open, blocks, infra>>

(* A block changes its state or disappears: deprovisioning a server deletes*)
(* its blocks. Without a VIP manager a block is assigned to the first      *)
(* control plane machine, whose server is only made once infra is set.     *)
BlockChanges(b) ==
  /\ Exists(b)
  /\ \E st \in {"unassigned", "assigned", "gone"} \ {blocks[b]} :
       /\ st = "assigned" /\ VIPManager = "NONE" => infra
       /\ blocks' = [blocks EXCEPT ![b] = st]
  /\ UNCHANGED <<kube, queued, wk, open, infra, history>>

-----------------------------------------------------------------------------
Reconcile ==
  \/ ReconcileNothing \/ ReconcileDelete
  \/ ReconcileCreate \/ ReconcileSynchronize

Exchange ==
  \/ \E b \in Blocks : CreateAccepted(b) \/ CreatePanics(b) \/ CreateUnanswered(b)
  \/ CreateRefused \/ CreateUnavailable \/ CreateFails
  \/ SynchronizeAnswered \/ SynchronizeFailed \/ SynchronizeDenied
  \/ DeleteAnswered \/ DeletePanics

Patch == PatchMeta \/ PatchMetaFails \/ PatchStatus \/ PatchStatusFails

Environment ==
  \/ WatchEvent \/ Resync \/ OpenChanges \/ InfrastructureReady
  \/ DeleteRequested
  \/ \E b \in Blocks : BlockChanges(b)

Next == Reconcile \/ Exchange \/ Patch \/ Crash \/ Environment

Spec == Init /\ [][Next]_vars

Fairness ==
  /\ WF_vars(Reconcile) /\ WF_vars(Patch)
  /\ WF_vars(WatchEvent) /\ WF_vars(Resync) /\ WF_vars(InfrastructureReady)

FairSpec == Spec /\ Fairness

(* BMC, or the network, ends every exchange: no request carries the context*)
(* with the deadline of the reconcile.                                     *)
ExchangesEnd == []<>(wk.pc \notin {"create", "sync", "delete"})

(* BMC does what it is asked for, as far as it can, and tells the truth.   *)
Truthful ==
  \/ \E b \in Blocks : CreateAccepted(b) \/ CreatePanics(b)
  \/ CreateFails /\ \A b \in Blocks : blocks[b] # "unborn"
  \/ SynchronizeAnswered
  \/ SynchronizeDenied /\ ~Exists(wk.obj.ipid)
  \/ DeleteAnswered

(* A step of a time without crashes, failed patches and failing calls.     *)
Steady == Reconcile \/ Truthful \/ PatchMeta \/ PatchStatus \/ Environment

-----------------------------------------------------------------------------
(* Every variable holds values that the Go structs allow. *)
TypeOK ==
  /\ api \in Object
  /\ cache \in Object
  /\ queued \in BOOLEAN
  /\ wk \in Worker
  /\ open \in BOOLEAN
  /\ blocks \in [Blocks -> ReportedStatus \cup {"unborn", "gone"}]
  /\ infra \in BOOLEAN
  /\ mishaps \in Nat
  /\ left \subseteq Blocks

(* Whatever is interleaved, a mishap costs at most one IP block, those that*)
(* a deletion leaves alone on purpose aside.                               *)
BlockLeakBound == Cardinality(Leaked) <= mishaps

(* Without mishaps a cluster never holds two blocks, however often it is   *)
(* reconciled and whatever versions of it the cache returns.               *)
OneBlock ==
  mishaps = 0 =>
    \A b, c \in Blocks : Exists(b) /\ Exists(c) => b = c

(* The endpoint, the address annotation and the block's id belong together,*)
(* and the address is the one in the block that is not reserved.           *)
EndpointMatchesBlock ==
  mishaps = 0 =>
    /\ api.endpoint = api.ip
    /\ api.ip # NoAddress => api.ip = UsableAddress(api.ipid)

(* The Cluster API core copies the endpoint when the cluster is ready: it  *)
(* must be there although it is written by another patch.                  *)
ReadyHasEndpoint == mishaps = 0 /\ api.ready => api.endpoint # NoAddress

(* The Cluster API core takes the endpoint over once and for all: it must  *)
(* never change.                                                           *)
EndpointKept ==
  [][mishaps = 0 /\ api.endpoint # NoAddress /\ api'.live =>
       api'.endpoint = api.endpoint]_vars

(* The state of the block when nobody interferes: it goes to the first     *)
(* control plane machine unless there is a VIP manager.                    *)
SettledStatus == IF VIPManager = "NONE" /\ infra THEN "assigned" ELSE "unassigned"

(* bmccluster_controller.go:215 ends the creation with "mark the cluster   *)
(* ready". After the last fault a cluster that is not paused nor deleted   *)
(* is ready for good, also if that first mark got lost.                    *)
EventuallyReady ==
  /\ ExchangesEnd
  /\ <>[][Steady]_vars
  /\ <>[](/\ open /\ api.live /\ ~api.deleting
          /\ api.ipid # NoBlock => blocks[api.ipid] = SettledStatus)
  => <>[](api.ready)

(* After the last fault, a cluster that is being deleted disappears.       *)
EventuallyRemoved ==
  ExchangesEnd /\ <>[][Steady]_vars /\ <>[]open => (api.deleting ~> ~api.live)

-----------------------------------------------------------------------------
(* The inductive invariants behind the safety properties.                  *)

(* Version o records no block that was never allocated.                    *)
Known(o) == o.ipid # NoBlock => blocks[o.ipid] # "unborn"

(* Version o was read before the object became current.                    *)
Precedes(o, current) ==
  current.live => (o.deleting => current.deleting) /\ (o.fini => current.fini)

SameIDs(o, base) == o.ipid = base.ipid /\ o.ip = base.ip

(* The worker is allocating a block, or has one to record.                 *)
Recording == wk.pc = "patchMeta" /\ wk.obj.ipid # wk.base.ipid
Ordering  == wk.pc = "create" \/ Recording

(* The worker removes the finalizer.                                       *)
Releasing == wk.pc = "patchMeta" /\ wk.base.fini /\ ~wk.obj.fini

WorkerVersions ==
  /\ Known(wk.base) /\ Known(wk.obj)
  /\ Precedes(wk.base, api)
  /\ wk.pc = "delete" \/ ~wk.obj.fini => wk.base.deleting
  /\ wk.pc \in {"create", "sync"} => wk.obj.fini
  /\ wk.pc = "delete" => (wk.base.fini => wk.obj.fini)
  /\ wk.pc # "patchStatus" => Recording \/ SameIDs(wk.obj, wk.base)
  /\ Recording => wk.obj.ipid # NoBlock
  /\ Ordering => wk.base.ip = NoAddress /\ wk.obj.fini

(* What holds whatever goes wrong: a finalizer protects the record of a    *)
(* block, and outdated versions are versions of the same object.           *)
VersionsInv ==
  /\ api.live /\ (api.deleting \/ api.ipid # NoBlock) => api.fini
  /\ Known(api) /\ Known(cache) /\ Precedes(cache, api)
  /\ wk.pc # "idle" => WorkerVersions

(* Why a mishap costs one block and not more. A block is safe while it has *)
(* a complete record that no reconcile is about to drop, or is about to    *)
(* get one.                                                                *)
Safe(b) ==
  \/ /\ Tracked(b) /\ api.ip # NoAddress
     /\ ~Releasing /\ ~(wk.pc = "delete" /\ wk.obj.ipid # b)
  \/ InFlight(b) /\ wk.obj.ip # NoAddress

Unsafe(b) == Exists(b) /\ b \notin left /\ ~Safe(b)

(* The new block is for an object that is gone or has got one meanwhile.   *)
OrderAstray == Ordering /\ ~(api.live /\ SameIDs(api, wk.base))

(* What mishaps have cost or may cost yet: blocks that are not safe, and   *)
(* an order that will lose one.                                            *)
Owed ==
  {b \in Blocks : Unsafe(b)} \cup (IF OrderAstray THEN {NoBlock} ELSE {})

(* No more is owed than there were mishaps.                                *)
OwedBound == IsFiniteSet(Owed) /\ Cardinality(Owed) <= mishaps

(* Version o is complete: the id of a block, its address and the endpoint  *)
(* belong together, and it is ready with all of them only.                 *)
Complete(o) ==
  /\ o.ip = (IF o.ipid = NoBlock THEN NoAddress ELSE UsableAddress(o.ipid))
  /\ o.endpoint = o.ip
  /\ o.ready => o.ipid # NoBlock

(* Version o names no other block than the object does.                    *)
Agrees(o) == api.live /\ o.ipid # NoBlock => o.ipid = api.ipid

CleanWorker ==
  /\ Complete(wk.base) /\ Complete(wk.obj)
  /\ Agrees(wk.base)
  /\ IF Ordering THEN api.live /\ api.ipid = NoBlock ELSE Agrees(wk.obj)

CleanState ==
  /\ OneBlock
  /\ Complete(api) /\ Complete(cache) /\ Agrees(cache)
  /\ \A b \in Blocks : api.live /\ Exists(b) => Tracked(b) \/ InFlight(b)
  /\ wk.pc # "idle" => CleanWorker

(* The inductive invariant behind the properties of a time without mishaps.*)
CleanInv == mishaps = 0 => CleanState

-----------------------------------------------------------------------------
(* What a comment in the code says, and the code does not do.              *)

(* bmccluster_controller.go:176 says of a create answered with 500:        *)
(* "temporarily unavailable, backoff and retry". Then, without refusals    *)
(* and after the last fault, the cluster gets its block.                   *)
CreateRetried ==
  /\ ExchangesEnd
  /\ [](wk.obj.st # "irreconcilable")
  /\ <>[][Steady]_vars
  /\ <>[](open /\ api.live /\ ~api.deleting)
  => <>(api.ip # NoAddress)
=============================================================================
