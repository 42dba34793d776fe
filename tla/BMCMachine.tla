----------------------------- MODULE BMCMachine -----------------------------
(***************************************************************************)
(* The BMCMachine controller (controllers/bmcmachine_controller.go): one   *)
(* worker that takes machine keys from its work queue, reads the BMCMachine*)
(* from the informer cache, calls the Bare Metal Cloud (BMC) API and writes*)
(* the object back to the API server in a deferred patch.                  *)
(*                                                                         *)
(* A reconcile is cut where other processes can come in between: after the *)
(* cache was read (Reconcile...), after the HTTP exchange (Create...,      *)
(* Synchronize..., Deprovision...), after the patch of metadata and spec   *)
(* (PatchMeta...) and after the patch of the status (PatchStatus...).      *)
(***************************************************************************)
EXTENDS BMCMachineObject, FiniteSets

CONSTANTS
  Machines,     \* names of BMCMachines
  NoMachine,    \* no machine
  Joining,      \* machines whose node joins the workload cluster
  Reports,      \* the statuses that running servers change to
  Resyncs,      \* whether the informer resyncs (--sync-period) are modelled
  MaxMishaps    \* bound on the mishaps of a behaviour

ASSUME MachineAssumption ==
  /\ NoMachine \notin Machines
  /\ Joining \subseteq Machines
  /\ Reports \subseteq ReportedStatus
  /\ Resyncs \in BOOLEAN
  /\ MaxMishaps \in Nat

VARIABLES
  api,      \* the BMCMachines in the API server
  cache,    \* the informer cache: an older or current version of each
  queue,    \* keys in the work queue, delayed or not
  wk,       \* the worker and the reconcile it is in
  open,     \* machines for which every precondition of a create holds
  bmc,      \* the servers at BMC
  node,     \* spec.providerID of each machine's node in the workload cluster
  mishaps   \* history: faults that can cost a server, so far

vars == <<api, cache, queue, wk, open, bmc, node, mishaps>>
kube == <<api, cache>>
cloud == <<bmc, node>>

(* The preconditions of Reconcile, reconcileLive and reconcileCreate in    *)
(* the order the code tests them. A reconcile stops at the first that does *)
(* not hold; for a machine that is open, they all do.                      *)
NoOwner      == 0  \* no owner Machine
NoCluster    == 1  \* the owner Cluster cannot be read
NoBMCCluster == 2  \* the BMCCluster cannot be read
Paused       == 3  \* the Cluster or the BMCCluster is paused
NotReady     == 4  \* infrastructure or the name of the secret is missing
NoBootstrap  == 5  \* the secret or its value is missing
NoIPBlock      == 6  \* a control plane machine waits for the cluster's IP block
Open         == 7

(* A server runs, and is paid for, in any of the reported statuses. *)
ServerState == {"unborn", "gone"} \cup ReportedStatus

Server == [owner : Machines \cup {NoMachine}, st : ServerState, on : BOOLEAN]

Worker == [pc : {"idle", "create", "sync", "delete", "patchMeta", "patchStatus"},
           m : Machines \cup {NoMachine}, base : Object, obj : Object,
           again : BOOLEAN]

Idle == [pc |-> "idle", m |-> NoMachine, base |-> NotFound, obj |-> NotFound,
         again |-> FALSE]

Init ==
  /\ api \in [Machines -> {NewObject, BareObject}]
  /\ cache = api
  /\ queue = Machines
  /\ wk = Idle
  /\ open = {}
  /\ bmc = [s \in Servers |->
              [owner |-> NoMachine, st |-> "unborn", on |-> FALSE]]
  /\ node = [m \in Machines |-> NoProvider]
  /\ mishaps = 0

-----------------------------------------------------------------------------
(* Servers. *)

Running(s) == bmc[s].st \in ReportedStatus
Built(s)   == bmc[s].st # "unborn"

(* The BMCMachine that carries the server's id in its annotation. *)
Tracked(s) == \E m \in Machines : api[m].live /\ api[m].id = s

(* The id is in the hands of a reconcile that has not written it yet. *)
InFlight(s) == wk.pc = "patchMeta" /\ wk.obj.id = s /\ wk.base.id # s

(* Servers that run while no object, and no reconcile, knows their id. *)
Leaked == {s \in Servers : Running(s) /\ ~Tracked(s) /\ ~InFlight(s)}

-----------------------------------------------------------------------------
(* Crashes, stale reads and calls that fail or stay unanswered happen at   *)
(* any time. Those that can cost a server, the mishaps, are counted.       *)

NoMishap == UNCHANGED mishaps

Mishap ==
  /\ mishaps < MaxMishaps
  /\ mishaps' = mishaps + 1

MishapIf(cond) == IF cond THEN Mishap ELSE NoMishap

-----------------------------------------------------------------------------
(* Reconcile: read the object from the cache and decide what to do.        *)

SlipIsMarkedDeleted(o) == o.deleting \/ o.failure # "none"
IsMarkedDeleted(o)     == o.deleting

(* Without an id in the annotation the server has yet to be created. *)
SlipNeedsServer(o)     == ~o.ready
SlipRecreateOrphan(o)  == o.id = NoServer \/ IsStatusEqual(o, "orphaned")
NeedsServer(o)         == o.id = NoServer

SlipHasServerToDeprovision(o) ==
  o.st \notin {"orphaned", "irreconcilable"} /\ o.id # NoServer
HasServerToDeprovision(o) == ~IsStatusEqual(o, "orphaned") /\ o.id # NoServer

(* What the cache says of m's server is not what the API server says.      *)
StaleID(m) == cache[m].id # api[m].id

(* The worker takes m's key from the queue. *)
Take(m) ==
  /\ wk.pc = "idle"
  /\ m \in queue
  /\ queue' = queue \ {m}
  /\ UNCHANGED <<kube, open, cloud>>

(* The reconcile of m goes on at pc with obj as its working copy; again    *)
(* tells whether its result asks for m to be queued once more.             *)
Proceed(m, pc, obj, again) ==
  wk' = [pc |-> pc, m |-> m, base |-> cache[m], obj |-> obj, again |-> again]

(* The preconditions that a reconcile of m may find missing first.         *)
Gates(m) == IF m \in open THEN {Open} ELSE NoOwner .. NoIPBlock

(* The actions below are the reconcile of m whose first missing            *)
(* precondition is g.                                                      *)

(* Not found, or no owner reference: return before the patch is deferred.  *)
(* (An error reading the owner leaves the key queued: a stuttering step.)  *)
ReconcileNothing(m, g) ==
  /\ Take(m)
  /\ ~cache[m].live \/ g = NoOwner
  /\ UNCHANGED wk
  /\ NoMishap

SlipReconcilable(m, g) ==
  /\ Take(m)
  /\ cache[m].live
  /\ g \notin {NoOwner, Paused}
Reconcilable(m, g) ==
  /\ Take(m)
  /\ cache[m].live
  /\ g # NoOwner

(* reconcileDelete removes the finalizer at once, then cleans up if the    *)
(* object names a server. Neither the pause nor the BMCCluster is looked   *)
(* at. Read with an outdated id, it can cost the server recorded in the    *)
(* API server.                                                             *)
ReconcileDelete(m, g) ==
  /\ Reconcilable(m, g)
  /\ IsMarkedDeleted(cache[m])
  /\ LET o == RemoveFini(cache[m])
     IN  Proceed(m, IF HasServerToDeprovision(o) THEN "delete" ELSE "patchMeta",
                 o, FALSE)
  /\ MishapIf(api[m].live /\ StaleID(m))

(* The Cluster is missing (an error, retried), the BMCCluster is missing   *)
(* or one of them is paused (not retried): nothing is changed.             *)
ReconcileSuspended(m, g) ==
  /\ Reconcilable(m, g)
  /\ ~IsMarkedDeleted(cache[m])
  /\ g \in NoCluster .. Paused
  /\ Proceed(m, "patchMeta", cache[m], g = NoCluster)
  /\ NoMishap

SlipReconcileLive(m, g) ==
  /\ Reconcilable(m, g)
  /\ ~IsMarkedDeleted(cache[m])
  /\ g \in NotReady .. Open
  /\ cache[m].failure = "none"
ReconcileLive(m, g) ==
  /\ Reconcilable(m, g)
  /\ ~IsMarkedDeleted(cache[m])
  /\ g \in NotReady .. Open

(* Waiting for the infrastructure, the bootstrap data or the IP block only *)
(* stores the finalizer. Once there is a server only the first two of the  *)
(* conditions are tested. A missing secret is an error, retried.           *)
ReconcileWaiting(m, g) ==
  /\ ReconcileLive(m, g)
  /\ \/ g = NotReady
     \/ g \in NoBootstrap .. NoIPBlock /\ NeedsServer(cache[m])
  /\ Proceed(m, "patchMeta", AddFini(cache[m]), g = NoBootstrap)
  /\ NoMishap

(* Read with an outdated id, or after the object is gone, this can cost a  *)
(* server: the one already recorded, or the one to be created.             *)
ReconcileCreate(m, g) ==
  /\ ReconcileLive(m, g)
  /\ g = Open
  /\ NeedsServer(cache[m])
  /\ Proceed(m, "create", AddFini(cache[m]), FALSE)
  /\ MishapIf(~api[m].live \/ StaleID(m))

ReconcileSynchronize(m, g) ==
  /\ ReconcileLive(m, g)
  /\ g \in NoBootstrap .. Open
  /\ ~NeedsServer(cache[m])
  /\ Proceed(m, "sync", AddFini(cache[m]), FALSE)
  /\ NoMishap

-----------------------------------------------------------------------------
(* The HTTP exchange and what the handler does with its outcome.           *)

(* The handler returns: the deferred patch is next. *)
Return(obj, again) ==
  wk' = [wk EXCEPT !.pc = "patchMeta", !.obj = obj, !.again = again]

Calling(pc) ==
  /\ wk.pc = pc
  /\ UNCHANGED <<kube, queue, open>>

(* BMC builds server s for the worker's machine; at first it is creating.  *)
Provision(s) ==
  /\ bmc[s].st = "unborn"
  /\ bmc' = [bmc EXCEPT ![s].owner = wk.m, ![s].st = "other"]
  /\ UNCHANGED node

(* POST /bmc/v1/servers is accepted: record status and id. *)
CreateAccepted(s) ==
  /\ Calling("create")
  /\ wk.obj.annotated
  /\ Provision(s)
  /\ Return(SetMachineID(SetStatus(wk.obj, "other"), s), TRUE)
  /\ NoMishap

(* The same on a nil annotations map: SetMachineID panics after it has set *)
(* the provider id. The deferred patch runs, the panic becomes an error.   *)
CreatePanics(s) ==
  /\ Calling("create")
  /\ ~wk.obj.annotated
  /\ Provision(s)
  /\ Return(SetProviderID(SetStatus(wk.obj, "other"), s), TRUE)
  /\ Mishap

(* BMC builds the server but the answer is lost, cannot be read or cannot  *)
(* be decoded (204 and an empty body included): an error.                  *)
CreateUnanswered(s) ==
  /\ Calling("create")
  /\ Provision(s)
  /\ Return(wk.obj, TRUE)
  /\ Mishap

(* 400, 401 and 403 are not requeued, 409 is. *)
CreateRefused ==
  /\ Calling("create")
  /\ \/ Return(MarkIrreconcilable(wk.obj, "refused"), FALSE)
     \/ Return(MarkIrreconcilable(wk.obj, "failed"), TRUE)
  /\ UNCHANGED cloud
  /\ NoMishap

(* 406 no inventory, 500, any other code, or no connection: try later. *)
CreateDeferred ==
  /\ Calling("create")
  /\ Return(wk.obj, TRUE)
  /\ UNCHANGED cloud
  /\ NoMishap

(* The status delta: merge what BMC reports when its status differs from   *)
(* the stored one, and act on the new status.                              *)
ApplyDelta(o, reported) ==
  LET merged == MergeBMCStatusProperties(o, reported)
  IN  IF IsStatusEqual(o, reported)
        THEN o
        ELSE CASE reported = "powered-on" -> SetReady(merged)
               [] reported = "error"      -> SetIrreconcilable(merged, "failed")
               [] OTHER                   -> merged

SlipEnsureReady(o, reported) == IF ~o.ready THEN SetReady(o) ELSE o
EnsureReady(o, reported) ==
  IF reported = "powered-on" /\ ~o.ready
    THEN SetReady(MergeBMCStatusProperties(o, reported))
    ELSE o

(* SetNodeRef, once the server is powered on and as long as no reference   *)
(* is stored. The node may not be found; found, the reference is set       *)
(* before the node itself is patched, and the patch may fail.              *)
SetNodeRef(o) == [o EXCEPT !.nodeRef = TRUE]

NodePatched(m, o) ==
  /\ node' = [node EXCEPT ![m] = IF @ = NoProvider THEN o.pid ELSE @]
  /\ NoMishap

NodePatchFails == UNCHANGED node /\ NoMishap

(* GET /bmc/v1/servers/{id} is answered with the server's status. *)
SynchronizeAnswered ==
  /\ Calling("sync")
  /\ Running(wk.obj.id)
  /\ LET r == bmc[wk.obj.id].st
         o == EnsureReady(ApplyDelta(wk.obj, r), r)
     IN  \/ Return(o, r # "error") /\ UNCHANGED node /\ NoMishap
         \/ /\ r = "powered-on"
            /\ wk.m \in Joining
            /\ ~o.nodeRef
            /\ Return(SetNodeRef(o), TRUE)
            /\ NodePatched(wk.m, o) \/ NodePatchFails
  /\ UNCHANGED bmc

(* No answer, 500 or an answer that cannot be decoded: stale, retried. *)
SynchronizeFailed ==
  /\ Calling("sync")
  /\ Return(MarkStatus(wk.obj, "stale"), TRUE)
  /\ UNCHANGED cloud
  /\ NoMishap

(* 400, 401: irreconcilable, retried. *)
SynchronizeRejected ==
  /\ Calling("sync")
  /\ Return(MarkIrreconcilable(wk.obj, "failed"), TRUE)
  /\ UNCHANGED cloud
  /\ NoMishap

(* 403, which is also BMC's answer for an unknown server: orphaned. It can *)
(* cost the server if it is running after all.                             *)
SynchronizeDenied ==
  /\ Calling("sync")
  /\ Return(MarkStatus(wk.obj, "orphaned"), FALSE)
  /\ UNCHANGED cloud
  /\ MishapIf(Running(wk.obj.id))

(* Any other code: an error, retried, and the object is left alone. *)
SynchronizeUnexpected ==
  /\ Calling("sync")
  /\ Return(wk.obj, TRUE)
  /\ UNCHANGED cloud
  /\ NoMishap

Deprovision(s) ==
  /\ Running(s)
  /\ bmc' = [bmc EXCEPT ![s].st = "gone"]
  /\ UNCHANGED node

(* POST .../actions/deprovision succeeds; or it does, but the answer is    *)
(* lost, which is an error.                                                *)
DeprovisionAccepted ==
  /\ Calling("delete")
  /\ Deprovision(wk.obj.id)
  /\ \E again \in BOOLEAN : Return(wk.obj, again)
  /\ NoMishap

(* Nothing is deprovisioned: 400 and 401 mark the object irreconcilable,   *)
(* 403 orphaned; 500, other codes and errors leave its status. All ask for *)
(* a retry. It can cost a running server.                                  *)
DeprovisionFailed ==
  /\ Calling("delete")
  /\ \E st \in {"irreconcilable", "orphaned", wk.obj.st} :
       Return(SetBMCStatus(wk.obj, st), TRUE)
  /\ UNCHANGED cloud
  /\ MishapIf(Running(wk.obj.id))

-----------------------------------------------------------------------------
(* The deferred patch.                                                     *)

(* Metadata and spec. An object that is gone answers NotFound, which is    *)
(* logged; the status patch is sent in any case.                           *)
PatchMeta ==
  /\ wk.pc = "patchMeta"
  /\ api' = [api EXCEPT ![wk.m] =
               IF @.live THEN Collected(MergeMeta(@, wk.base, wk.obj)) ELSE @]
  /\ wk' = [wk EXCEPT !.pc = "patchStatus"]
  /\ UNCHANGED <<cache, queue, open, cloud, mishaps>>

PatchMetaFails ==
  /\ wk.pc = "patchMeta"
  /\ MetaChanged(wk.base, wk.obj)
  /\ wk' = [wk EXCEPT !.pc = "patchStatus"]
  /\ MishapIf(InFlight(wk.obj.id))
  /\ UNCHANGED <<kube, queue, open, cloud>>

(* The reconcile is over: its result puts the key back, or does not. *)
Finish ==
  /\ wk' = Idle
  /\ queue' = IF wk.again THEN queue \cup {wk.m} ELSE queue

PatchStatus ==
  /\ wk.pc = "patchStatus"
  /\ api' = [api EXCEPT ![wk.m] =
               IF @.live THEN MergeStatus(@, wk.base, wk.obj) ELSE @]
  /\ Finish
  /\ UNCHANGED <<cache, open, cloud, mishaps>>

PatchStatusFails ==
  /\ wk.pc = "patchStatus"
  /\ StatusChanged(wk.base, wk.obj)
  /\ Finish
  /\ NoMishap
  /\ UNCHANGED <<kube, open, cloud>>

(* The manager stops, in the middle of a reconcile or not, and is started  *)
(* again: it lists all objects anew, those that the preconditions are read *)
(* from included, and queues them.                                         *)
Crash ==
  /\ MishapIf(InFlight(wk.obj.id))
  /\ wk' = Idle
  /\ cache' = api
  /\ queue' = Machines
  /\ open' \in SUBSET Machines
  /\ UNCHANGED <<api, cloud>>

-----------------------------------------------------------------------------
(* The informers, the Cluster API core and BMC. *)

(* The watch delivers the current version and enqueues the key. *)
WatchEvent(m) ==
  /\ cache[m] # api[m]
  /\ cache' = [cache EXCEPT ![m] = api[m]]
  /\ queue' = queue \cup {m}
  /\ UNCHANGED <<api, wk, open, cloud, mishaps>>

(* Every --sync-period the informer hands out all objects again. *)
Resync(m) ==
  /\ Resyncs
  /\ m \notin queue
  /\ queue' = queue \cup {m}
  /\ UNCHANGED <<kube, wk, open, cloud, mishaps>>

(* A Machine, a Cluster or a BMCCluster changes: machines become open or   *)
(* lose a precondition. The watches enqueue at least those that opened.    *)
RelatedEvent(now, woken) ==
  /\ now \ open \subseteq woken
  /\ now # open \/ ~(woken \subseteq queue)
  /\ open' = now
  /\ queue' = queue \cup woken
  /\ UNCHANGED <<kube, wk, cloud, mishaps>>

(* The machine is deleted. Without a finalizer the object goes at once,    *)
(* which can cost the server a reconcile is creating for it.               *)
DeleteRequested(m) ==
  /\ api[m].live
  /\ ~api[m].deleting
  /\ api' = [api EXCEPT ![m] = Collected([@ EXCEPT !.deleting = TRUE])]
  /\ MishapIf(/\ ~api[m].fini
              /\ wk.m = m
              /\ wk.pc = "create" \/ InFlight(wk.obj.id))
  /\ UNCHANGED <<cache, queue, wk, open, cloud>>

(* A running server changes its status or goes away by other means than    *)
(* this controller.                                                        *)
ServerChanges(s) ==
  /\ Running(s)
  /\ \/ \E st \in Reports \ {bmc[s].st} :
          bmc' = [bmc EXCEPT ![s].st = st, ![s].on = @ \/ st = "powered-on"]
     \/ bmc' = [bmc EXCEPT ![s].st = "gone"]
  /\ UNCHANGED <<kube, queue, wk, open, node, mishaps>>

-----------------------------------------------------------------------------
ReconcileAt(m, g) ==
  \/ ReconcileNothing(m, g) \/ ReconcileDelete(m, g) \/ ReconcileSuspended(m, g)
  \/ ReconcileWaiting(m, g) \/ ReconcileCreate(m, g) \/ ReconcileSynchronize(m, g)

Reconcile(m) == \E g \in Gates(m) : ReconcileAt(m, g)

Exchange ==
  \/ \E s \in Servers : CreateAccepted(s) \/ CreatePanics(s) \/ CreateUnanswered(s)
  \/ CreateRefused \/ CreateDeferred
  \/ SynchronizeAnswered \/ SynchronizeFailed \/ SynchronizeRejected
  \/ SynchronizeDenied \/ SynchronizeUnexpected
  \/ DeprovisionAccepted \/ DeprovisionFailed

Patch == PatchMeta \/ PatchMetaFails \/ PatchStatus \/ PatchStatusFails

Environment ==
  \/ \E m \in Machines :
       WatchEvent(m) \/ Resync(m) \/ DeleteRequested(m)
  \/ \E now, woken \in SUBSET Machines : RelatedEvent(now, woken)
  \/ \E s \in Servers : ServerChanges(s)

Next ==
  \/ \E m \in Machines : Reconcile(m)
  \/ Exchange
  \/ Patch
  \/ Crash
  \/ Environment

Spec == Init /\ [][Next]_vars

(* Fairness. The worker takes every queued key sooner or later, whatever   *)
(* the other machines do; the deadline of the reconcile ends a deprovision,*)
(* whose request carries its context, and the deferred patch; watch events *)
(* and resyncs arrive.                                                     *)
Fairness ==
  /\ \A m \in Machines : /\ SF_vars(Reconcile(m))
                         /\ WF_vars(WatchEvent(m))
                         /\ WF_vars(Resync(m))
  /\ WF_vars(wk.pc = "delete" /\ Exchange)
  /\ WF_vars(Patch)

FairSpec == Spec /\ Fairness

(* BMC, or the network, ends every POST and GET. These carry no context, so*)
(* that no deadline does, and a hanging one keeps the only worker.         *)
ExchangesEnd == []<>(wk.pc \notin {"create", "sync"})

(* BMC does what it is asked for and reports the truth.                    *)
Truthful ==
  \/ \E s \in Servers : CreateAccepted(s) \/ CreatePanics(s)
  \/ CreateDeferred /\ \A s \in Servers : bmc[s].st # "unborn"
  \/ SynchronizeAnswered \/ DeprovisionAccepted
  \/ (SynchronizeDenied \/ DeprovisionFailed) /\ ~Running(wk.obj.id)

(* A step of a time without crashes, failed patches and failing calls.     *)
Steady ==
  \/ \E m \in Machines : Reconcile(m)
  \/ Truthful
  \/ PatchMeta \/ PatchStatus
  \/ Environment

-----------------------------------------------------------------------------
(* Every variable holds values of the data types that the Go structs and   *)
(* the API schema allow.                                                   *)
TypeOK ==
  /\ api \in [Machines -> Object]
  /\ cache \in [Machines -> Object]
  /\ queue \subseteq Machines
  /\ wk \in Worker
  /\ open \subseteq Machines
  /\ bmc \in [Servers -> Server]
  /\ node \in [Machines -> ProviderID]
  /\ mishaps \in Nat

(* Whatever is interleaved, a mishap costs at most one server: crashes,    *)
(* stale reads, lost answers and failed calls do not multiply, and what is *)
(* not counted as a mishap never costs one: crashes before the create or   *)
(* after its id is stored, status patches that fail, retries, outdated     *)
(* reads of anything but the id, deletions at any time.                    *)
LeakBound == Cardinality(Leaked) <= mishaps

(* However often a machine is reconciled, retried and resynced, and with   *)
(* whatever versions of it from the cache, it gets one server, and never   *)
(* another one, not even after its server is gone.                         *)
OneServerPerMachine ==
  mishaps = 0 =>
    \A s, t \in Servers :
      Built(s) /\ Built(t) /\ bmc[s].owner = bmc[t].owner => s = t

(* An object that names a server has the finalizer, so it cannot disappear *)
(* before reconcileDelete has seen it, although the finalizer and the id   *)
(* may come from different reconciles that patch different base versions.  *)
ServerHeldByFinalizer ==
  \A m \in Machines : api[m].live /\ api[m].id # NoServer => api[m].fini

(* The provider id, which the Cluster API core matches with the node, and  *)
(* the annotation, which the controller goes by, name the same server.     *)
ProviderMatchesAnnotation ==
  \A m \in Machines : api[m].id # NoServer => api[m].pid = ProviderURL(api[m].id)

(* The Cluster API core is told that the infrastructure is ready only when *)
(* the machine's own server has been powered on.                           *)
ReadyMeansPoweredOn ==
  mishaps = 0 =>
    \A m \in Machines :
      api[m].ready => api[m].id # NoServer /\ bmc[api[m].id].on

(* The node of the workload cluster carries the provider id of its machine.*)
NodeMatchesProvider ==
  mishaps = 0 =>
    \A m \in Machines :
      api[m].live /\ node[m] # NoProvider => node[m] = api[m].pid

(* The server of a machine is never exchanged for another one.             *)
IdentityKept ==
  [][mishaps = 0 =>
       \A m \in Machines :
         api[m].id # NoServer /\ api'[m].live => api'[m].id = api[m].id]_vars

(* A failure reported of a machine is only taken back by a reconcile that  *)
(* read it without a server and got it one. Otherwise it is terminal, which*)
(* the Cluster API core relies on, as it may have replaced the machine: no *)
(* recovery of the server, later poll, fault or outdated version clears it.*)
FailureIsTerminal ==
  [][\A m \in Machines :
       /\ api[m].failure # "none" /\ api'[m].live
       /\ wk.m = m => ~NeedsServer(wk.base)
       => api'[m].failure # "none"]_vars

(* The controller deprovisions a server only when the machine it was made  *)
(* for is being deleted or is gone.                                        *)
DeprovisionOnlyDeleted ==
  [][\A s \in Servers :
       wk.pc = "delete" /\ wk' # wk /\ Running(s) /\ ~Running(s)' =>
         LET m == bmc[s].owner IN ~api[m].live \/ api[m].deleting]_vars

(* After the last fault, a machine whose preconditions hold, that has      *)
(* annotations, whose server stays powered on and that nobody deletes      *)
(* becomes ready and stays so.                                             *)
EventuallyReady ==
  \A m \in Machines :
    /\ ExchangesEnd
    /\ <>[][Steady]_vars
    /\ <>[](/\ m \in open
            /\ api[m].live /\ ~api[m].deleting /\ api[m].annotated
            /\ api[m].id # NoServer => bmc[api[m].id].st = "powered-on")
    => <>[](api[m].ready)

(* After the last fault, a machine that is being deleted disappears.       *)
EventuallyRemoved ==
  \A m \in Machines :
    ExchangesEnd /\ <>[][Steady]_vars /\ <>[](m \in open) =>
      (api[m].deleting ~> ~api[m].live)

-----------------------------------------------------------------------------
(* The inductive invariant behind the safety properties.                   *)

(* What holds of every version o of machine m, outdated ones included: the *)
(* ids it records are those of servers made for m.                         *)
ValidVersion(m, o, servers) ==
  /\ o.id # NoServer => /\ o.pid = ProviderURL(o.id)
                        /\ servers[o.id].owner = m
                        /\ servers[o.id].st # "unborn"
                        /\ o.annotated
  /\ \A s \in Servers : o.pid = ProviderURL(s) => servers[s].st # "unborn"

(* Version o was read before the object became current: deletion marks stay*)
(* finalizers disappear with the object only, annotations with neither.    *)
Precedes(o, current) ==
  current.live => /\ o.deleting => current.deleting
                  /\ o.fini => current.fini
                  /\ o.annotated = current.annotated

SameIDs(o, base) ==
  o.id = base.id /\ o.pid = base.pid /\ o.annotated = base.annotated

(* How the copy obj of a worker differs from the version base that it read *)
(* when the handler has returned: ids as they were, with or without a      *)
(* deletion; a new server; or a provider id without annotation.            *)
Changes(base, obj) ==
  \/ SameIDs(obj, base) /\ (obj.fini \/ ~base.fini \/ base.deleting)
  \/ /\ base.id = NoServer /\ obj.fini
     /\ obj.id # NoServer /\ obj.pid # base.pid
  \/ /\ base.id = NoServer /\ obj.fini
     /\ obj.id = NoServer /\ ~base.annotated

WorkerVersions ==
  /\ ValidVersion(wk.m, wk.base, bmc)
  /\ ValidVersion(wk.m, wk.obj, bmc)
  /\ Precedes(wk.base, api[wk.m])
  /\ wk.pc \in {"create", "sync", "delete"} => SameIDs(wk.obj, wk.base)
  /\ wk.obj.annotated = wk.base.annotated
  /\ wk.pc = "create" => wk.obj.id = NoServer
  /\ wk.pc \in {"create", "sync"} => wk.obj.fini
  /\ wk.pc = "delete" => wk.base.deleting
  /\ wk.pc = "patchMeta" => Changes(wk.base, wk.obj)

VersionsInv ==
  /\ ServerHeldByFinalizer
  /\ \A m \in Machines : /\ ValidVersion(m, api[m], bmc)
                         /\ ValidVersion(m, cache[m], bmc)
                         /\ Precedes(cache[m], api[m])
  /\ wk.pc # "idle" => WorkerVersions

(* What holds of every version o of machine m as it is now (current): only *)
(* a version with an id says that the server is orphaned, and ids stay.    *)
Follows(o, current) ==
  /\ o.st = "orphaned" => o.id # NoServer
  /\ current.live /\ o.id # NoServer => current.id # NoServer

(* The facts about statuses that no fault disturbs: an object marked       *)
(* deleted has a finalizer, a server that is on has been powered on, and a *)
(* failure that was read stays in the working copy of a machine with a     *)
(* server.                                                                 *)
StatusInv ==
  /\ \A m \in Machines : /\ api[m].live /\ api[m].deleting => api[m].fini
                         /\ Follows(api[m], api[m])
                         /\ Follows(cache[m], api[m])
  /\ \A s \in Servers : bmc[s].st = "powered-on" => bmc[s].on
  /\ wk.pc # "idle" =>
       /\ Follows(wk.base, api[wk.m])
       /\ wk.obj.st = "orphaned" => wk.base.id # NoServer
       /\ wk.base.id # NoServer /\ wk.base.failure # "none" =>
            wk.obj.failure # "none"

(* What the status of version o says of its server is true. *)
Truthtelling(o, servers) ==
  /\ o.st = "orphaned" => o.id # NoServer /\ servers[o.id].st \notin ReportedStatus
  /\ o.ready => o.id # NoServer /\ servers[o.id].on

(* Version o names no other server than the object does. *)
Agrees(o, current) == current.live /\ o.id # NoServer => o.id = current.id

(* The worker is getting a server, or has one to record. *)
Ordering == wk.pc = "create" \/ (wk.pc = "patchMeta" /\ wk.obj.id # wk.base.id)

(* Without mishaps all versions of a machine tell the truth about the same *)
(* server, and so does its node.                                           *)
CleanMachine(m) ==
  /\ Truthtelling(api[m], bmc) /\ Truthtelling(cache[m], bmc)
  /\ Agrees(cache[m], api[m])
  /\ api[m].live /\ node[m] # NoProvider =>
       api[m].id # NoServer /\ node[m] = api[m].pid

(* A server is only ordered for an object without one, and an object only  *)
(* goes when its server has gone.                                          *)
CleanWorker ==
  /\ Truthtelling(wk.base, bmc) /\ Agrees(wk.base, api[wk.m])
  /\ Truthtelling(wk.obj, bmc)
  /\ ~Ordering => Agrees(wk.obj, api[wk.m])
  /\ Ordering => api[wk.m].live /\ api[wk.m].id = NoServer
  /\ wk.pc = "patchMeta" /\ wk.obj.pid # wk.base.pid => wk.obj.id # wk.base.id
  /\ wk.pc = "delete" /\ api[wk.m].live => api[wk.m].id = wk.obj.id
  /\ wk.pc = "patchMeta" /\ wk.base.fini /\ ~wk.obj.fini /\ api[wk.m].live =>
       api[wk.m].id = NoServer \/ ~Running(api[wk.m].id)

CleanState ==
  /\ Leaked = {}
  /\ \A m \in Machines : CleanMachine(m)
  /\ wk.pc # "idle" => CleanWorker

(* A server, gone or not, is the one that its machine names, or will name  *)
(* as soon as the reconcile that got it has stored its id.                 *)
ServersKnown ==
  \A s \in Servers, m \in Machines :
    Built(s) /\ bmc[s].owner = m /\ api[m].live => api[m].id = s \/ InFlight(s)

(* The inductive invariant behind the properties of a time without mishaps.*)
CleanInv == mishaps = 0 => CleanState /\ ServersKnown /\ OneServerPerMachine

-----------------------------------------------------------------------------
(* What comments in the code say, and the code does not do.                *)

(* bmcmachine_controller.go:209 says of the annotation that if it "is not  *)
(* present then the server has yet to be created".                         *)
NoAnnotationNoServer ==
  wk.pc = "create" => ~\E s \in Servers : Running(s) /\ bmc[s].owner = wk.m

(* bmcmachine_controller.go:492 says of a failed deprovision: "temporarily *)
(* unavailable, backoff and retry". The object must survive until then.    *)
DeprovisionRetried ==
  [][\A m \in Machines :
       /\ wk.m = m /\ wk.pc = "patchMeta" /\ wk'.pc = "patchStatus"
       /\ wk.again /\ api[m].live
       /\ \E s \in Servers : Running(s) /\ bmc[s].owner = m
       => api'[m].live]_vars

(* closures.go:157: "Update the node's Spec.ProviderID", part of setting   *)
(* the node reference. Once there is a reference the node has its id.      *)
NodeRefMeansProvider ==
  \A m \in Machines : api[m].nodeRef => node[m] # NoProvider
=============================================================================
