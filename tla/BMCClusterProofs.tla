-------------------------- MODULE BMCClusterProofs --------------------------
(***************************************************************************)
(* Theorems about the BMCCluster controller, for any number of blocks,     *)
(* addresses and mishaps.                                                  *)
(***************************************************************************)
EXTENDS BMCCluster, FiniteSetTheorems, TLAPS

-----------------------------------------------------------------------------
(* The operations on a BMCCluster return BMCClusters. *)

LEMMA NewObjectType == NewObject \in Object /\ NotFound \in Object
BY DEF NewObject, NotFound, Object, ClusterStatus, EndpointAddress

(* The successor of an even byte is a byte: the address never wraps around.*)
LEMMA AddressFits ==
  ASSUME NEW b \in Blocks
  PROVE  Address(b) = UsableAddress(b) /\ Address(b) \in Blocks \X (0 .. 255)
<1>1. BaseOctet[b] \in 0 .. 255 /\ BaseOctet[b] % 2 = 0
  BY ClusterAssumption
<1>2. BaseOctet[b] \in 0 .. 254
  BY <1>1
<1>3. (BaseOctet[b] + 1) % 256 = BaseOctet[b] + 1
  BY <1>2
<1>. QED  BY <1>2, <1>3 DEF Address, UsableAddress

LEMMA MutatorType ==
  ASSUME NEW o \in Object, NEW st \in ClusterStatus, NEW b \in Blocks
  PROVE  /\ AddFini(o) \in Object /\ RemoveFini(o) \in Object
         /\ SetBMCStatus(o, st) \in Object /\ MarkStatus(o, st) \in Object
         /\ SetIPAllocationID(o, b) \in Object
         /\ SetIP(o, Address(b)) \in Object
         /\ SetControlPlaneEndpoint(o, Address(b)) \in Object
         /\ SetReady(o) \in Object
<1>. Address(b) \in EndpointAddress
  BY AddressFits DEF EndpointAddress
<1>. QED
  BY DEF Object, AddFini, RemoveFini, SetBMCStatus, MarkStatus, SetIPAllocationID,
         SetIP, SetControlPlaneEndpoint, SetReady

LEMMA MergeType ==
  ASSUME NEW stored \in Object, NEW base \in Object, NEW obj \in Object
  PROVE  /\ MergeMeta(stored, base, obj) \in Object
         /\ Collected(MergeMeta(stored, base, obj)) \in Object
         /\ MergeStatus(stored, base, obj) \in Object
<1>1. MergeMeta(stored, base, obj) \in Object
  BY DEF Object, MergeMeta, Merge
<1>2. MergeStatus(stored, base, obj) \in Object
  BY DEF Object, MergeStatus, Merge
<1>. QED  BY <1>1, <1>2, NewObjectType DEF Collected

-----------------------------------------------------------------------------
(* What the steps do: the facts about them that the invariants depend on.  *)

IdsKept(new, old) == SameIDs(new, old) /\ new.endpoint = old.endpoint

(* A reconcile starts, on the version in the cache.                        *)
Started ==
  /\ wk'.pc \in {"create", "sync", "delete", "patchMeta"}
  /\ wk'.base = cache /\ cache.live
  /\ IdsKept(wk'.obj, cache) /\ (wk'.obj.ready <=> cache.ready)

ReconcileKind ==
  \/ UNCHANGED <<wk, history>>
  \/ /\ Started /\ cache.deleting /\ wk'.pc = "delete" /\ (wk'.obj.fini <=> cache.fini)
     /\ IF api.live /\ Stale THEN Mishap ELSE NoMishap
  \/ /\ Started /\ cache.deleting /\ wk'.pc = "patchMeta" /\ ~wk'.obj.fini
     /\ IF api.live /\ Stale
          THEN Mishap
          ELSE left' = left \cup ({cache.ipid} \ {NoBlock}) /\ UNCHANGED mishaps
  \/ /\ Started /\ wk'.pc = "create" /\ wk'.obj.fini /\ cache.ip = NoAddress
     /\ IF ~api.live \/ Stale THEN Mishap ELSE NoMishap
  \/ Started /\ wk'.pc = "sync" /\ wk'.obj.fini /\ NoMishap

LEMMA ReconcileEffect ==
  ASSUME TypeOK, Reconcile
  PROVE  /\ wk.pc = "idle" /\ wk' \in Worker /\ queued' \in BOOLEAN
         /\ UNCHANGED <<api, cache, open, blocks, infra>>
         /\ ReconcileKind
<1>1. /\ cache \in Object /\ AddFini(cache) \in Object /\ RemoveFini(cache) \in Object
      /\ IdsKept(AddFini(cache), cache) /\ AddFini(cache).fini
      /\ IdsKept(RemoveFini(cache), cache) /\ ~RemoveFini(cache).fini
      /\ (AddFini(cache).ready <=> cache.ready) /\ (RemoveFini(cache).ready <=> cache.ready)
  BY DEF TypeOK, Object, AddFini, RemoveFini, IdsKept, SameIDs
<1>2. ASSUME NEW pc \in {"create", "sync", "delete", "patchMeta"},
             NEW o \in Object, Proceed(pc, o), cache.live,
             IdsKept(o, cache), o.ready <=> cache.ready
      PROVE  wk' \in Worker /\ Started /\ wk'.pc = pc /\ wk'.obj = o
  BY <1>1, <1>2 DEF Proceed, Worker, Started
<1>3. CASE ReconcileNothing
  BY <1>3 DEF ReconcileNothing, Take, kube, history, NoMishap, TypeOK, ReconcileKind
<1>4. CASE ReconcileDelete
  <2>1. wk.pc = "idle" /\ queued' \in BOOLEAN /\ UNCHANGED <<api, cache, open, blocks, infra>>
    BY <1>4 DEF ReconcileDelete, Take, kube
  <2>2. CASE HasBlockToDelete(cache)
    <3>1. Proceed("delete", cache) /\ MishapIf(api.live /\ Stale)
      BY <1>4, <2>2 DEF ReconcileDelete
    <3>2. cache.live /\ cache.deleting /\ IdsKept(cache, cache)
      BY <1>4 DEF ReconcileDelete, IsMarkedDeleted, IdsKept, SameIDs
    <3>3. wk' \in Worker /\ Started /\ wk'.pc = "delete" /\ wk'.obj = cache
      BY <1>1, <1>2, <3>1, <3>2
    <3>. QED  BY <2>1, <3>1, <3>2, <3>3 DEF ReconcileKind, MishapIf
  <2>3. CASE ~HasBlockToDelete(cache)
    <3>1. /\ Proceed("patchMeta", RemoveFini(cache))
          /\ IF api.live /\ Stale
               THEN Mishap
               ELSE left' = left \cup ({cache.ipid} \ {NoBlock}) /\ UNCHANGED mishaps
      BY <1>4, <2>3 DEF ReconcileDelete
    <3>2. cache.live /\ cache.deleting
      BY <1>4 DEF ReconcileDelete, IsMarkedDeleted
    <3>3. wk' \in Worker /\ Started /\ wk'.pc = "patchMeta" /\ wk'.obj = RemoveFini(cache)
      BY <1>1, <1>2, <3>1, <3>2
    <3>. QED  BY <1>1, <2>1, <3>1, <3>2, <3>3 DEF ReconcileKind
  <2>. QED  BY <2>2, <2>3
<1>5. CASE ReconcileCreate
  <2>1. /\ wk.pc = "idle" /\ queued' \in BOOLEAN /\ UNCHANGED <<api, cache, open, blocks, infra>>
        /\ cache.live /\ cache.ip = NoAddress
        /\ Proceed("create", AddFini(cache)) /\ MishapIf(~api.live \/ Stale)
    BY <1>5 DEF ReconcileCreate, ReconcileLive, Take, kube, NeedsBlock
  <2>2. wk' \in Worker /\ Started /\ wk'.pc = "create" /\ wk'.obj = AddFini(cache)
    BY <1>1, <1>2, <2>1
  <2>. QED  BY <1>1, <2>1, <2>2 DEF ReconcileKind, MishapIf
<1>6. CASE ReconcileSynchronize
  <2>1. /\ wk.pc = "idle" /\ queued' \in BOOLEAN /\ UNCHANGED <<api, cache, open, blocks, infra>>
        /\ cache.live /\ Proceed("sync", AddFini(cache)) /\ NoMishap
    BY <1>6 DEF ReconcileSynchronize, ReconcileLive, Take, kube
  <2>2. wk' \in Worker /\ Started /\ wk'.pc = "sync" /\ wk'.obj = AddFini(cache)
    BY <1>1, <1>2, <2>1
  <2>. QED  BY <1>1, <2>1, <2>2 DEF ReconcileKind
<1>. QED  BY <1>3, <1>4, <1>5, <1>6 DEF Reconcile

(* The exchange is over. What it learnt is in the working copy.            *)
Returned ==
  /\ wk.pc \in {"create", "sync", "delete"}
  /\ wk' \in Worker /\ wk'.pc = "patchMeta" /\ wk'.base = wk.base
  /\ UNCHANGED <<api, cache, queued, open, infra>>

(* Block b is new: recorded completely, partly or not at all.              *)
Allocated(b) ==
  /\ wk.pc = "create" /\ (wk'.obj.fini <=> wk.obj.fini)
  /\ blocks[b] = "unborn"
  /\ \E st \in ReportedStatus : blocks' = [blocks EXCEPT ![b] = st]
  /\ \/ /\ wk'.obj.ipid = b
        /\ wk'.obj.ip = UsableAddress(b) /\ wk'.obj.endpoint = UsableAddress(b)
        /\ NoMishap
     \/ /\ wk'.obj.ipid \in {b, wk.obj.ipid} /\ wk'.obj.ip = wk.obj.ip
        /\ Mishap

(* Only the status of the working copy is new.                             *)
Polled ==
  /\ wk.pc \in {"create", "sync"} /\ (wk'.obj.fini <=> wk.obj.fini)
  /\ IdsKept(wk'.obj, wk.obj)
  /\ wk'.obj.ready => wk.obj.ready \/ wk.obj.ipid \in Blocks
  /\ UNCHANGED <<blocks, history>>

GivenBack ==
  /\ wk.pc = "delete"
  /\ IdsKept(wk'.obj, wk.obj) /\ (wk'.obj.ready <=> wk.obj.ready)
  /\ \/ UNCHANGED blocks
     \/ wk.obj.ipid \in Blocks /\ blocks' = [blocks EXCEPT ![wk.obj.ipid] = "gone"]
  /\ \/ (wk'.obj.fini <=> wk.obj.fini) /\ NoMishap
     \/ ~wk'.obj.fini /\ IF Exists(wk.obj.ipid) /\ blocks' = blocks THEN Mishap ELSE NoMishap

LEMMA CreateEffect ==
  ASSUME TypeOK, NEW b \in Blocks,
         CreateAccepted(b) \/ CreatePanics(b) \/ CreateUnanswered(b)
  PROVE  Returned /\ Allocated(b)
<1>1. wk \in Worker /\ wk.obj \in Object
  BY DEF TypeOK, Worker
<1>2. ASSUME NEW o \in Object, NEW again \in BOOLEAN, Return(o, again)
      PROVE  wk' \in Worker /\ wk'.pc = "patchMeta" /\ wk'.base = wk.base /\ wk'.obj = o
  BY <1>1, <1>2 DEF Return, Worker
<1>3. CASE CreateAccepted(b)
  <2>1. /\ wk.pc = "create" /\ UNCHANGED <<api, cache, queued, open, infra>> /\ NoMishap
    BY <1>3 DEF CreateAccepted, Calling, kube
  <2>2. PICK st \in {"other", "unassigned"} :
          /\ blocks[b] = "unborn" /\ blocks' = [blocks EXCEPT ![b] = st]
          /\ Return(SetReady(SetControlPlaneEndpoint(
                      SetIP(SetIPAllocationID(SetBMCStatus(wk.obj, st), b), Address(b)),
                      Address(b))), FALSE)
    BY <1>3 DEF CreateAccepted, Allocate
  <2>. DEFINE o1 == SetIPAllocationID(SetBMCStatus(wk.obj, st), b)
              o2 == SetIP(o1, Address(b))
              o3 == SetReady(SetControlPlaneEndpoint(o2, Address(b)))
  <2>3. st \in ReportedStatus /\ st \in ClusterStatus
    BY DEF ReportedStatus, ClusterStatus
  <2>4. o1 \in Object /\ (o1.fini <=> wk.obj.fini) /\ o1.ipid = b
    <3>1. SetBMCStatus(wk.obj, st) \in Object
      BY <1>1, <2>3, MutatorType
    <3>. QED
      BY <1>1, <3>1, MutatorType, <2>3 DEF SetIPAllocationID, SetBMCStatus, Object
  <2>5. o2 \in Object /\ (o2.fini <=> wk.obj.fini) /\ o2.ipid = b /\ o2.ip = Address(b)
    <3>. HIDE DEF o1
    <3>1. o2 \in Object
      BY <2>4, <2>3, MutatorType
    <3>. QED  BY <2>4, <3>1 DEF SetIP, Object
  <2>6. /\ o3 \in Object /\ (o3.fini <=> wk.obj.fini) /\ o3.ipid = b
        /\ o3.ip = Address(b) /\ o3.endpoint = Address(b)
    <3>. HIDE DEF o2
    <3>1. SetControlPlaneEndpoint(o2, Address(b)) \in Object
      BY <2>5, <2>3, MutatorType
    <3>2. o3 \in Object
      BY <3>1, <2>3, MutatorType
    <3>. QED  BY <2>5, <3>1, <3>2 DEF SetControlPlaneEndpoint, SetReady, Object
  <2>7. wk' \in Worker /\ wk'.pc = "patchMeta" /\ wk'.base = wk.base /\ wk'.obj = o3
    <3>1. Return(o3, FALSE)
      BY <2>2
    <3>. HIDE DEF o3
    <3>. QED  BY <1>2, <2>6, <3>1
  <2>. HIDE DEF o3
  <2>. QED
    BY <2>1, <2>2, <2>3, <2>6, <2>7, AddressFits DEF Returned, Allocated
<1>4. CASE CreatePanics(b)
  <2>1. /\ wk.pc = "create" /\ UNCHANGED <<api, cache, queued, open, infra>> /\ Mishap
    BY <1>4 DEF CreatePanics, Calling, kube
  <2>2. PICK st \in {"other", "unassigned"} :
          /\ blocks[b] = "unborn" /\ blocks' = [blocks EXCEPT ![b] = st]
          /\ Return(IF Annotated THEN SetIPAllocationID(SetBMCStatus(wk.obj, st), b)
                                 ELSE SetBMCStatus(wk.obj, st), TRUE)
    BY <1>4 DEF CreatePanics, Allocate
  <2>. DEFINE o == IF Annotated THEN SetIPAllocationID(SetBMCStatus(wk.obj, st), b)
                                ELSE SetBMCStatus(wk.obj, st)
  <2>3. st \in ReportedStatus /\ st \in ClusterStatus
    BY DEF ReportedStatus, ClusterStatus
  <2>4. /\ o \in Object /\ (o.fini <=> wk.obj.fini)
        /\ o.ipid \in {b, wk.obj.ipid} /\ o.ip = wk.obj.ip
    <3>1. SetBMCStatus(wk.obj, st) \in Object
      BY <1>1, <2>3, MutatorType
    <3>. QED
      BY <1>1, <3>1, MutatorType, <2>3 DEF SetIPAllocationID, SetBMCStatus, Object
  <2>5. wk' \in Worker /\ wk'.pc = "patchMeta" /\ wk'.base = wk.base /\ wk'.obj = o
    <3>1. Return(o, TRUE)
      BY <2>2
    <3>. HIDE DEF o
    <3>. QED  BY <1>2, <2>4, <3>1
  <2>. HIDE DEF o
  <2>. QED  BY <2>1, <2>2, <2>3, <2>4, <2>5 DEF Returned, Allocated
<1>5. CASE CreateUnanswered(b)
  <2>1. wk' \in Worker /\ wk'.pc = "patchMeta" /\ wk'.base = wk.base /\ wk'.obj = wk.obj
    BY <1>1, <1>2, <1>5 DEF CreateUnanswered
  <2>. QED
    BY <1>5, <2>1 DEF CreateUnanswered, Calling, kube, Allocate, Returned, Allocated,
                      ReportedStatus
<1>. QED  BY <1>3, <1>4, <1>5

LEMMA AnswerEffect ==
  ASSUME TypeOK,
         \/ CreateRefused \/ CreateUnavailable \/ CreateFails
         \/ SynchronizeAnswered \/ SynchronizeFailed \/ SynchronizeDenied
  PROVE  Returned /\ Polled
<1>1. wk \in Worker /\ wk.obj \in Object
  BY DEF TypeOK, Worker
<1>2. /\ wk.pc \in {"create", "sync"} /\ UNCHANGED <<api, cache, queued, open, infra>>
      /\ UNCHANGED <<blocks, history>>
  BY DEF CreateRefused, CreateUnavailable, CreateFails, SynchronizeAnswered,
         SynchronizeFailed, SynchronizeDenied, Calling, kube, NoMishap
<1>3. ASSUME NEW st \in ClusterStatus
      PROVE  /\ MarkStatus(wk.obj, st) \in Object
             /\ (MarkStatus(wk.obj, st).fini <=> wk.obj.fini)
             /\ (MarkStatus(wk.obj, st).ready <=> wk.obj.ready)
             /\ IdsKept(MarkStatus(wk.obj, st), wk.obj)
  BY <1>1 DEF MarkStatus, SetBMCStatus, Object, IdsKept, SameIDs
<1>4. ASSUME NEW o \in Object, NEW again \in BOOLEAN, Return(o, again)
      PROVE  wk' \in Worker /\ wk'.pc = "patchMeta" /\ wk'.base = wk.base /\ wk'.obj = o
  BY <1>1, <1>4 DEF Return, Worker
<1>5. CASE CreateUnavailable \/ CreateFails
  <2>1. wk' \in Worker /\ wk'.pc = "patchMeta" /\ wk'.base = wk.base /\ wk'.obj = wk.obj
    BY <1>1, <1>4, <1>5 DEF CreateUnavailable, CreateFails
  <2>. QED  BY <1>2, <2>1 DEF Returned, Polled, IdsKept, SameIDs
<1>6. CASE CreateRefused \/ SynchronizeFailed \/ SynchronizeDenied
  <2>1. PICK st \in ClusterStatus, again \in BOOLEAN : Return(MarkStatus(wk.obj, st), again)
    <3>1. wk.obj.st \in ClusterStatus /\ {"stale", "irreconcilable", "orphaned"} \subseteq ClusterStatus
      BY <1>1 DEF Object, ClusterStatus
    <3>. QED
      BY <1>6, <3>1 DEF CreateRefused, SynchronizeFailed, SynchronizeDenied
  <2>2. wk' \in Worker /\ wk'.pc = "patchMeta" /\ wk'.base = wk.base /\ wk'.obj = MarkStatus(wk.obj, st)
    BY <1>3, <1>4, <2>1
  <2>. QED  BY <1>2, <1>3, <2>2 DEF Returned, Polled
<1>7. CASE SynchronizeAnswered
  <2>1. wk.obj.ipid \in Blocks /\ blocks[wk.obj.ipid] \in ClusterStatus
    BY <1>7 DEF SynchronizeAnswered, Exists, ClusterStatus
  <2>. DEFINE o == MarkStatus(wk.obj, blocks[wk.obj.ipid])
              r == IF IsStatusEqual(o, ReadyStatus) THEN SetReady(o) ELSE o
  <2>2. Return(r, TRUE)
    BY <1>7 DEF SynchronizeAnswered
  <2>3. o \in Object /\ (o.fini <=> wk.obj.fini) /\ IdsKept(o, wk.obj) /\ (o.ready <=> wk.obj.ready)
    BY <1>3, <2>1
  <2>4. r \in Object /\ (r.fini <=> wk.obj.fini) /\ IdsKept(r, wk.obj)
    <3>. HIDE DEF o
    <3>. QED  BY <2>3 DEF SetReady, Object, IdsKept, SameIDs
  <2>5. wk' \in Worker /\ wk'.pc = "patchMeta" /\ wk'.base = wk.base /\ wk'.obj = r
    <3>. HIDE DEF r
    <3>. QED  BY <1>4, <2>2, <2>4
  <2>. HIDE DEF r
  <2>. QED  BY <1>2, <2>1, <2>4, <2>5 DEF Returned, Polled
<1>. QED  BY <1>5, <1>6, <1>7

LEMMA DeleteEffect ==
  ASSUME TypeOK, DeleteAnswered \/ DeletePanics
  PROVE  Returned /\ GivenBack
<1>1. wk \in Worker /\ wk.obj \in Object /\ RemoveFini(wk.obj) \in Object
  BY DEF TypeOK, Worker, RemoveFini, Object
<1>2. /\ wk.pc = "delete" /\ UNCHANGED <<api, cache, queued, open, infra>>
  BY DEF DeleteAnswered, DeletePanics, Calling, kube
<1>3. ASSUME NEW o \in Object, NEW again \in BOOLEAN, Return(o, again)
      PROVE  wk' \in Worker /\ wk'.pc = "patchMeta" /\ wk'.base = wk.base /\ wk'.obj = o
  BY <1>1, <1>3 DEF Return, Worker
<1>4. CASE DeleteAnswered
  <2>1. wk' \in Worker /\ wk'.pc = "patchMeta" /\ wk'.base = wk.base /\ wk'.obj = RemoveFini(wk.obj)
    BY <1>1, <1>3, <1>4 DEF DeleteAnswered
  <2>2. /\ ~wk'.obj.fini /\ IdsKept(wk'.obj, wk.obj) /\ (wk'.obj.ready <=> wk.obj.ready)
    BY <1>1, <2>1 DEF RemoveFini, Object, IdsKept, SameIDs
  <2>3. CASE Exists(wk.obj.ipid) /\ Delete(wk.obj.ipid) /\ NoMishap
    <3>1. wk.obj.ipid \in Blocks /\ blocks' = [blocks EXCEPT ![wk.obj.ipid] = "gone"]
      BY <2>3 DEF Exists, Delete
    <3>2. blocks' # blocks
      BY <2>3, <3>1 DEF Exists, ReportedStatus, TypeOK
    <3>. QED  BY <1>2, <2>1, <2>2, <2>3, <3>1, <3>2 DEF Returned, GivenBack
  <2>4. CASE UNCHANGED blocks /\ MishapIf(Exists(wk.obj.ipid))
    BY <1>2, <2>1, <2>2, <2>4 DEF Returned, GivenBack, MishapIf
  <2>. QED  BY <1>4, <2>3, <2>4 DEF DeleteAnswered
<1>5. CASE DeletePanics
  <2>1. wk' \in Worker /\ wk'.pc = "patchMeta" /\ wk'.base = wk.base /\ wk'.obj = wk.obj
    BY <1>1, <1>3, <1>5 DEF DeletePanics
  <2>. QED
    BY <1>2, <1>5, <2>1
       DEF DeletePanics, Exists, Delete, Returned, GivenBack, IdsKept, SameIDs
<1>. QED  BY <1>4, <1>5

LEMMA ExchangeEffect ==
  ASSUME TypeOK, Exchange
  PROVE  Returned /\ (Polled \/ GivenBack \/ \E b \in Blocks : Allocated(b))
BY CreateEffect, AnswerEffect, DeleteEffect DEF Exchange

(* The metadata patch: a live object takes over the fields that the        *)
(* reconcile changed and keeps the others, or disappears.                  *)
MetaMerged ==
  /\ api'.fini     = Merge(api.fini, wk.base.fini, wk.obj.fini)
  /\ api'.ipid     = Merge(api.ipid, wk.base.ipid, wk.obj.ipid)
  /\ api'.ip       = Merge(api.ip, wk.base.ip, wk.obj.ip)
  /\ api'.endpoint = Merge(api.endpoint, wk.base.endpoint, wk.obj.endpoint)
  /\ api'.live /\ (api'.deleting <=> api.deleting) /\ (api'.ready <=> api.ready)

LEMMA PatchMetaEffect ==
  ASSUME TypeOK, PatchMeta
  PROVE  /\ wk.pc = "patchMeta" /\ wk' = [wk EXCEPT !.pc = "patchStatus"]
         /\ UNCHANGED <<cache, queued, open, blocks, infra, history>>
         /\ api' \in Object
         /\ IF api.live
              THEN \/ /\ api' = NotFound
                      /\ api.deleting /\ ~Merge(api.fini, wk.base.fini, wk.obj.fini)
                   \/ /\ MetaMerged
                      /\ api.deleting => Merge(api.fini, wk.base.fini, wk.obj.fini)
              ELSE api' = api
<1>1. api \in Object /\ wk.base \in Object /\ wk.obj \in Object
  BY DEF TypeOK, Worker
<1>2. /\ wk.pc = "patchMeta" /\ wk' = [wk EXCEPT !.pc = "patchStatus"]
      /\ UNCHANGED <<cache, queued, open, blocks, infra, history>>
      /\ api' = IF api.live THEN Collected(MergeMeta(api, wk.base, wk.obj)) ELSE api
  BY DEF PatchMeta
<1>. DEFINE o == MergeMeta(api, wk.base, wk.obj)
<1>3. /\ o \in Object
      /\ o.fini     = Merge(api.fini, wk.base.fini, wk.obj.fini)
      /\ o.ipid     = Merge(api.ipid, wk.base.ipid, wk.obj.ipid)
      /\ o.ip       = Merge(api.ip, wk.base.ip, wk.obj.ip)
      /\ o.endpoint = Merge(api.endpoint, wk.base.endpoint, wk.obj.endpoint)
      /\ o.live = api.live /\ (o.deleting <=> api.deleting) /\ (o.ready <=> api.ready)
  BY <1>1, MergeType DEF MergeMeta, Object
<1>4. CASE api.live
  <2>1. api' = Collected(o)
    BY <1>2, <1>4
  <2>. HIDE DEF o
  <2>2. CASE o.deleting /\ ~o.fini
    <3>1. api' = NotFound
      BY <2>1, <2>2 DEF Collected
    <3>. QED  BY <1>2, <1>3, <1>4, <2>2, <3>1, NewObjectType
  <2>3. CASE ~(o.deleting /\ ~o.fini)
    <3>1. api' = o
      BY <2>1, <2>3 DEF Collected
    <3>. QED  BY <1>2, <1>3, <1>4, <2>3, <3>1 DEF MetaMerged
  <2>. QED  BY <2>2, <2>3
<1>5. CASE ~api.live
  BY <1>1, <1>2, <1>5
<1>. QED  BY <1>4, <1>5

LEMMA PatchMetaFailsEffect ==
  ASSUME PatchMetaFails
  PROVE  /\ wk.pc = "patchMeta" /\ wk' = [wk EXCEPT !.pc = "patchStatus"]
         /\ UNCHANGED <<api, cache, queued, open, blocks, infra>>
         /\ IF InFlight(wk.obj.ipid) THEN Mishap ELSE NoMishap
BY DEF PatchMetaFails, kube, MishapIf

(* The status patch touches neither ids nor finalizer.                     *)
LEMMA PatchStatusEffect ==
  ASSUME TypeOK, PatchStatus \/ PatchStatusFails
  PROVE  /\ wk.pc = "patchStatus" /\ wk' = Idle /\ queued' \in BOOLEAN
         /\ UNCHANGED <<cache, open, blocks, infra, history>>
         /\ api' \in Object
         /\ IdsKept(api', api) /\ (api'.live <=> api.live)
         /\ (api'.fini <=> api.fini) /\ (api'.deleting <=> api.deleting)
         /\ api'.ready => api.ready \/ (api.live /\ wk.obj.ready)
<1>1. api \in Object /\ wk.base \in Object /\ wk.obj \in Object
  BY DEF TypeOK, Worker
<1>2. /\ wk.pc = "patchStatus" /\ wk' = Idle /\ queued' \in BOOLEAN
      /\ UNCHANGED <<cache, open, blocks, infra, history>>
  BY DEF PatchStatus, PatchStatusFails, Finish, TypeOK, Worker, kube
<1>3. CASE PatchStatus /\ api.live
  <2>. DEFINE o == MergeStatus(api, wk.base, wk.obj)
  <2>1. api' = o
    BY <1>3 DEF PatchStatus
  <2>2. o \in Object
    BY <1>1, MergeType
  <2>3. /\ IdsKept(o, api) /\ (o.live <=> api.live)
        /\ (o.fini <=> api.fini) /\ (o.deleting <=> api.deleting)
        /\ o.ready => api.ready \/ wk.obj.ready
    BY <1>1 DEF MergeStatus, Merge, Object, IdsKept, SameIDs
  <2>. HIDE DEF o
  <2>. QED  BY <1>2, <1>3, <2>1, <2>2, <2>3
<1>4. CASE api' = api
  BY <1>1, <1>2, <1>4 DEF IdsKept, SameIDs
<1>. QED  BY <1>3, <1>4 DEF PatchStatus, PatchStatusFails, kube

LEMMA CrashEffect ==
  ASSUME Crash
  PROVE  /\ wk' = Idle /\ cache' = api /\ queued' = TRUE
         /\ UNCHANGED <<api, open, blocks, infra>>
         /\ IF InFlight(wk.obj.ipid) THEN Mishap ELSE NoMishap
BY DEF Crash, MishapIf

(* A deletion is requested; an object without finalizer is gone at once.   *)
Deleted ==
  /\ UNCHANGED <<cache, blocks>> /\ api.live
  /\ IF api.fini
       THEN /\ api'.live /\ api'.deleting /\ api'.fini
            /\ IdsKept(api', api) /\ (api'.ready <=> api.ready)
       ELSE api' = NotFound
  /\ IF ~api.fini /\ (wk.pc = "create" \/ InFlight(wk.obj.ipid))
       THEN Mishap ELSE NoMishap

LEMMA EnvironmentEffect ==
  ASSUME TypeOK, Environment
  PROVE  /\ UNCHANGED wk /\ TypeOK'
         /\ \/ UNCHANGED <<api, cache, blocks, history>>
            \/ cache' = api /\ UNCHANGED <<api, blocks, history>>
            \/ Deleted
            \/ \E b \in Blocks : /\ Exists(b) /\ blocks'[b] # "unborn"
                                 /\ blocks' = [blocks EXCEPT ![b] = blocks'[b]]
                                 /\ UNCHANGED <<api, cache, history>>
<1>1. CASE WatchEvent
  BY <1>1 DEF WatchEvent, history, TypeOK
<1>2. CASE Resync \/ OpenChanges \/ InfrastructureReady
  BY <1>2 DEF Resync, OpenChanges, InfrastructureReady, kube, history, TypeOK
<1>3. CASE DeleteRequested
  <2>. DEFINE o == [api EXCEPT !.deleting = TRUE]
  <2>1. /\ o \in Object /\ o.live = api.live /\ o.deleting
        /\ (o.fini <=> api.fini) /\ IdsKept(o, api) /\ (o.ready <=> api.ready)
    BY DEF TypeOK, Object, IdsKept, SameIDs
  <2>2. /\ api.live /\ api' = Collected(o)
        /\ UNCHANGED <<cache, queued, wk, open, blocks, infra>>
        /\ MishapIf(~api.fini /\ (wk.pc = "create" \/ InFlight(wk.obj.ipid)))
    BY <1>3 DEF DeleteRequested
  <2>. HIDE DEF o
  <2>3. Deleted
    <3>1. CASE api.fini
      <4>1. api' = o
        BY <2>1, <2>2, <3>1 DEF Collected
      <4>. QED  BY <2>1, <2>2, <3>1, <4>1 DEF Deleted, MishapIf
    <3>2. CASE ~api.fini
      <4>1. api' = NotFound
        BY <2>1, <2>2, <3>2 DEF Collected
      <4>. QED  BY <2>2, <3>2, <4>1 DEF Deleted, MishapIf
    <3>. QED  BY <3>1, <3>2
  <2>4. TypeOK'
    <3>1. api' \in Object
      BY <2>1, <2>2, NewObjectType DEF Collected
    <3>2. mishaps' \in Nat /\ left' \subseteq Blocks
      BY <2>2 DEF MishapIf, Mishap, NoMishap, history, TypeOK
    <3>. QED  BY <2>2, <3>1, <3>2 DEF TypeOK
  <2>. QED  BY <2>2, <2>3, <2>4
<1>4. ASSUME NEW b \in Blocks, BlockChanges(b)
      PROVE  /\ UNCHANGED wk /\ TypeOK'
             /\ Exists(b) /\ blocks'[b] # "unborn"
             /\ blocks' = [blocks EXCEPT ![b] = blocks'[b]]
             /\ UNCHANGED <<api, cache, history>>
  BY <1>4 DEF BlockChanges, kube, history, TypeOK, ReportedStatus
<1>. QED  BY <1>1, <1>2, <1>3, <1>4 DEF Environment

-----------------------------------------------------------------------------
(* Type correctness, which is inductive. *)

LEMMA IdleType == Idle \in Worker
BY NewObjectType DEF Idle, Worker

LEMMA TypeInit == Init => TypeOK
<1>. SUFFICES ASSUME Init PROVE TypeOK
  OBVIOUS
<1>1. blocks \in [Blocks -> ReportedStatus \cup {"unborn", "gone"}]
  BY DEF Init
<1>. QED  BY <1>1, IdleType, NewObjectType DEF Init, TypeOK

LEMMA HistoryType ==
  ASSUME TypeOK, Mishap \/ NoMishap
  PROVE  mishaps' \in Nat /\ left' \subseteq Blocks
BY DEF Mishap, NoMishap, history, TypeOK

LEMMA ExchangeTyped ==
  ASSUME TypeOK, Exchange
  PROVE  TypeOK'
<1>1. Returned /\ (Polled \/ GivenBack \/ \E b \in Blocks : Allocated(b))
  BY ExchangeEffect
<1>2. blocks' \in [Blocks -> ReportedStatus \cup {"unborn", "gone"}]
  BY <1>1 DEF Polled, GivenBack, Allocated, TypeOK
<1>3. mishaps' \in Nat /\ left' \subseteq Blocks
  BY <1>1, HistoryType DEF Polled, GivenBack, Allocated, NoMishap
<1>. QED  BY <1>1, <1>2, <1>3 DEF Returned, TypeOK

LEMMA PatchTyped ==
  ASSUME TypeOK, Patch
  PROVE  TypeOK'
<1>1. CASE PatchMeta
  BY <1>1, PatchMetaEffect DEF TypeOK, Worker, history
<1>2. CASE PatchMetaFails
  <2>1. mishaps' \in Nat /\ left' \subseteq Blocks
    BY <1>2, PatchMetaFailsEffect, HistoryType
  <2>. QED  BY <1>2, <2>1, PatchMetaFailsEffect DEF TypeOK, Worker
<1>3. CASE PatchStatus \/ PatchStatusFails
  BY <1>3, IdleType, PatchStatusEffect DEF TypeOK, history
<1>. QED  BY <1>1, <1>2, <1>3 DEF Patch

LEMMA TypeStep == TypeOK /\ [Next]_vars => TypeOK'
<1>. SUFFICES ASSUME TypeOK, [Next]_vars PROVE TypeOK'
  OBVIOUS
<1>1. CASE Reconcile
  <2>1. mishaps' \in Nat /\ left' \subseteq Blocks
    <3>1. cache.ipid \in Blocks \cup {NoBlock}
      BY DEF TypeOK, Object
    <3>2. UNCHANGED history \/ Mishap \/ NoMishap
            \/ (left' = left \cup ({cache.ipid} \ {NoBlock}) /\ UNCHANGED mishaps)
      BY <1>1, ReconcileEffect DEF ReconcileKind
    <3>. QED  BY <3>1, <3>2, HistoryType DEF TypeOK, history
  <2>. QED  BY <1>1, <2>1, ReconcileEffect DEF TypeOK
<1>2. CASE Crash
  <2>1. mishaps' \in Nat /\ left' \subseteq Blocks
    BY <1>2, CrashEffect, HistoryType
  <2>. QED  BY <1>2, <2>1, IdleType, CrashEffect DEF TypeOK
<1>3. CASE UNCHANGED vars
  BY <1>3 DEF vars, TypeOK
<1>. QED
  BY <1>1, <1>2, <1>3, ExchangeTyped, PatchTyped, EnvironmentEffect DEF Next

(* Every variable of the controller keeps holding values that the Go       *)
(* structs allow; the last byte of the endpoint stays a byte.              *)
THEOREM TypesHold == Spec => []TypeOK
BY TypeInit, TypeStep, PTL DEF Spec

-----------------------------------------------------------------------------
(* What holds whatever goes wrong. *)

(* An allocated block is never unborn again. *)
BlocksGrow == \A b \in Blocks : blocks[b] # "unborn" => blocks'[b] # "unborn"

LEMMA VersionsInit == Init => VersionsInv
<1>. SUFFICES ASSUME Init PROVE VersionsInv
  OBVIOUS
<1>1. api = NewObject /\ cache = NewObject /\ wk.pc = "idle"
  BY DEF Init, Idle
<1>2. /\ NewObject.ipid = NoBlock
      /\ ~NewObject.deleting /\ ~NewObject.fini
  BY DEF NewObject
<1>. QED  BY <1>1, <1>2 DEF VersionsInv, Known, Precedes

LEMMA ReconcileVersions ==
  ASSUME TypeOK, VersionsInv, Reconcile
  PROVE  VersionsInv'
<1>1. /\ UNCHANGED <<api, cache, blocks>> /\ wk.pc = "idle"
      /\ UNCHANGED wk \/ (ReconcileKind /\ Started)
  BY ReconcileEffect DEF ReconcileKind
<1>2. CASE UNCHANGED wk
  BY <1>1, <1>2 DEF VersionsInv, Known, Precedes
<1>3. CASE ReconcileKind /\ Started
  <2>1. wk' \in Worker /\ wk'.obj \in Object /\ cache \in Object
    BY ReconcileEffect DEF TypeOK, Worker
  <2>2. /\ wk'.pc = "delete" \/ ~wk'.obj.fini => cache.deleting
        /\ wk'.pc \in {"create", "sync"} => wk'.obj.fini
        /\ wk'.pc = "delete" => (cache.fini => wk'.obj.fini)
        /\ wk'.pc = "create" => cache.ip = NoAddress
        /\ SameIDs(wk'.obj, cache)
    <3>1. cache.live /\ cache.deleting => cache.fini \/ cache.deleting
      OBVIOUS
    <3>2. wk'.pc # wk.pc
      BY <1>1, <1>3 DEF Started
    <3>. QED  BY <1>3, <2>1, <3>2 DEF Started, IdsKept, ReconcileKind
  <2>3. WorkerVersions'
    BY <1>1, <1>3, <2>1, <2>2
       DEF Started, WorkerVersions, VersionsInv, Known, Precedes, SameIDs, Ordering, Recording
  <2>. QED  BY <1>1, <2>3 DEF VersionsInv, Known, Precedes
<1>. QED  BY <1>1, <1>2, <1>3

LEMMA ExchangeVersions ==
  ASSUME TypeOK, VersionsInv, Exchange
  PROVE  VersionsInv'
<1>1. Returned /\ (Polled \/ GivenBack \/ \E b \in Blocks : Allocated(b))
  BY ExchangeEffect
<1>2. BlocksGrow
  BY <1>1 DEF Polled, GivenBack, Allocated, TypeOK, BlocksGrow, ReportedStatus
<1>3. /\ wk.obj \in Object /\ wk.base \in Object /\ wk'.obj \in Object
      /\ api \in Object /\ cache \in Object
  BY <1>1 DEF TypeOK, Worker, Returned
<1>4. Known(api)' /\ Known(cache)' /\ Known(wk.base)'
  BY <1>1, <1>2, <1>3 DEF Returned, VersionsInv, WorkerVersions, Known, BlocksGrow, Object
<1>5. WorkerVersions
  BY <1>1 DEF Returned, VersionsInv
<1>6. /\ Known(wk.obj)'
      /\ ~wk'.obj.fini => wk.base.deleting
      /\ \/ SameIDs(wk'.obj, wk.obj)
         \/ /\ wk.pc = "create" /\ wk'.obj.fini
            /\ wk'.obj.ipid # wk.base.ipid /\ wk'.obj.ipid # NoBlock
  <2>1. CASE Polled \/ GivenBack
    BY <1>2, <1>3, <1>5, <2>1
       DEF Polled, GivenBack, IdsKept, SameIDs, WorkerVersions, Known, BlocksGrow, Object
  <2>2. ASSUME NEW b \in Blocks, Allocated(b)
        PROVE  /\ Known(wk.obj)'
               /\ ~wk'.obj.fini => wk.base.deleting
               /\ \/ SameIDs(wk'.obj, wk.obj)
                  \/ /\ wk.pc = "create" /\ wk'.obj.fini
                     /\ wk'.obj.ipid # wk.base.ipid /\ wk'.obj.ipid # NoBlock
    <3>1. blocks'[b] # "unborn" /\ blocks[b] = "unborn"
      BY <2>2 DEF Allocated, TypeOK, ReportedStatus
    <3>2. SameIDs(wk.obj, wk.base) /\ wk.obj.fini /\ wk.base.ip = NoAddress
      BY <1>5, <2>2 DEF Allocated, WorkerVersions, Ordering, Recording
    <3>3. wk'.obj.ipid \in {b, wk.obj.ipid} /\ wk'.obj.fini /\ wk.base.ipid # b
      BY <1>5, <2>2, <3>1, <3>2, ClusterAssumption DEF Allocated, WorkerVersions, Known
    <3>4. Known(wk.obj)'
      BY <1>2, <1>3, <1>5, <3>1, <3>3 DEF WorkerVersions, Known, BlocksGrow, Object
    <3>. QED
      BY <2>2, <3>1, <3>2, <3>3, <3>4, ClusterAssumption DEF Allocated, SameIDs
  <2>. QED  BY <1>1, <2>1, <2>2
<1>7. wk.pc # "patchStatus" /\ wk.pc # "patchMeta" /\ SameIDs(wk.obj, wk.base)
  BY <1>1, <1>5 DEF Returned, WorkerVersions, Recording
<1>8. WorkerVersions'
  BY <1>1, <1>4, <1>5, <1>6, <1>7
     DEF WorkerVersions, Returned, Known, Precedes, SameIDs, Ordering, Recording
<1>. QED  BY <1>1, <1>4, <1>8 DEF Returned, VersionsInv, Known, Precedes

(* An object keeps its finalizer until it is gone.                         *)
LEMMA PatchVersions ==
  ASSUME TypeOK, VersionsInv, Patch
  PROVE  VersionsInv'
<1>1. /\ wk.base \in Object /\ wk.obj \in Object /\ wk \in Worker
      /\ api \in Object /\ cache \in Object
  BY DEF TypeOK, Worker
<1>2. CASE PatchMeta
  <2>1. /\ wk.pc = "patchMeta" /\ wk' = [wk EXCEPT !.pc = "patchStatus"]
        /\ UNCHANGED <<cache, blocks>> /\ api' \in Object
        /\ \/ ~api.live /\ api' = api
           \/ api.live /\ api' = NotFound
           \/ /\ api.live /\ MetaMerged
              /\ api.deleting => Merge(api.fini, wk.base.fini, wk.obj.fini)
    BY <1>2, PatchMetaEffect
  <2>2. wk'.pc = "patchStatus" /\ wk'.base = wk.base /\ wk'.obj = wk.obj
    BY <1>1, <2>1 DEF Worker
  <2>3. WorkerVersions
    BY <2>1 DEF VersionsInv
  <2>4. CASE ~api'.live
    <3>1. Known(api)'
      BY <2>1, <2>4 DEF NotFound, NewObject, Known, VersionsInv, MetaMerged
    <3>. QED
      BY <2>1, <2>2, <2>3, <2>4, <3>1
         DEF VersionsInv, WorkerVersions, Known, Precedes, SameIDs, Ordering, Recording
  <2>5. CASE api.live /\ api'.live
    <3>1. MetaMerged /\ (api.deleting => Merge(api.fini, wk.base.fini, wk.obj.fini))
      BY <2>1, <2>5 DEF NotFound, NewObject
    <3>2. (api'.deleting <=> api.deleting) /\ (api'.deleting => api'.fini)
      BY <3>1 DEF MetaMerged
    <3>3. api.fini => api'.fini
      <4>1. CASE wk.obj.fini
        BY <3>1, <4>1 DEF MetaMerged, Merge
      <4>2. CASE ~wk.obj.fini
        <5>1. api.deleting
          BY <2>3, <2>5, <4>2 DEF WorkerVersions, Precedes
        <5>. QED  BY <3>2, <5>1
      <4>. QED  BY <4>1, <4>2
    <3>4. api'.ipid # NoBlock => api'.fini
      <4>1. CASE wk.obj.ipid = wk.base.ipid
        <5>1. api'.ipid = api.ipid
          BY <3>1, <4>1 DEF MetaMerged, Merge
        <5>. QED  BY <2>5, <3>3, <5>1 DEF VersionsInv
      <4>2. CASE wk.obj.ipid # wk.base.ipid
        <5>1. wk.obj.fini
          BY <2>1, <2>3, <4>2 DEF WorkerVersions, Ordering, Recording
        <5>2. wk.base.fini => api.fini
          BY <2>3, <2>5 DEF WorkerVersions, Precedes
        <5>. QED  BY <1>1, <3>1, <3>3, <5>1, <5>2 DEF MetaMerged, Merge, Object
      <4>. QED  BY <4>1, <4>2
    <3>5. Known(api)'
      BY <2>1, <2>3, <3>1 DEF VersionsInv, WorkerVersions, Known, MetaMerged, Merge
    <3>. QED
      BY <2>1, <2>2, <2>3, <2>5, <3>2, <3>3, <3>4, <3>5
         DEF VersionsInv, WorkerVersions, Known, Precedes, SameIDs, Ordering, Recording
  <2>. QED  BY <2>1, <2>4, <2>5
<1>3. CASE PatchMetaFails
  <2>1. /\ wk.pc = "patchMeta" /\ wk'.pc = "patchStatus"
        /\ wk'.base = wk.base /\ wk'.obj = wk.obj /\ UNCHANGED <<api, cache, blocks>>
    BY <1>1, <1>3, PatchMetaFailsEffect DEF Worker
  <2>. QED
    BY <2>1 DEF VersionsInv, WorkerVersions, Known, Precedes, SameIDs, Ordering, Recording
<1>4. CASE PatchStatus \/ PatchStatusFails
  <2>1. /\ wk'.pc = "idle" /\ UNCHANGED <<cache, blocks>>
        /\ IdsKept(api', api) /\ (api'.live <=> api.live)
        /\ (api'.fini <=> api.fini) /\ (api'.deleting <=> api.deleting)
    BY <1>4, PatchStatusEffect DEF Idle
  <2>. QED  BY <2>1 DEF VersionsInv, Known, Precedes, IdsKept, SameIDs
<1>. QED  BY <1>2, <1>3, <1>4 DEF Patch

LEMMA EnvironmentVersions ==
  ASSUME TypeOK, VersionsInv, Environment
  PROVE  VersionsInv'
<1>1. UNCHANGED wk
  BY EnvironmentEffect
<1>2. CASE UNCHANGED <<api, cache, blocks>>
  BY <1>1, <1>2
     DEF VersionsInv, WorkerVersions, Known, Precedes, SameIDs, Ordering, Recording
<1>3. CASE cache' = api /\ UNCHANGED <<api, blocks>>
  BY <1>1, <1>3
     DEF VersionsInv, WorkerVersions, Known, Precedes, SameIDs, Ordering, Recording
<1>4. CASE Deleted
  BY <1>1, <1>4
     DEF Deleted, NotFound, NewObject, IdsKept,
         VersionsInv, WorkerVersions, Known, Precedes, SameIDs, Ordering, Recording
<1>5. ASSUME NEW b \in Blocks, blocks'[b] # "unborn",
             blocks' = [blocks EXCEPT ![b] = blocks'[b]], UNCHANGED <<api, cache>>
      PROVE  VersionsInv'
  <2>1. BlocksGrow
    BY <1>5 DEF BlocksGrow, TypeOK
  <2>2. /\ api.ipid \in Blocks \cup {NoBlock} /\ cache.ipid \in Blocks \cup {NoBlock}
        /\ wk.base.ipid \in Blocks \cup {NoBlock} /\ wk.obj.ipid \in Blocks \cup {NoBlock}
    BY DEF TypeOK, Worker, Object
  <2>. QED
    BY <1>1, <1>5, <2>1, <2>2
       DEF BlocksGrow, VersionsInv, WorkerVersions, Known, Precedes, SameIDs,
           Ordering, Recording
<1>. QED  BY <1>2, <1>3, <1>4, <1>5, EnvironmentEffect

LEMMA VersionsStep == TypeOK /\ VersionsInv /\ [Next]_vars => VersionsInv'
<1>. SUFFICES ASSUME TypeOK, VersionsInv, [Next]_vars PROVE VersionsInv'
  OBVIOUS
<1>1. CASE Crash
  BY <1>1, CrashEffect DEF VersionsInv, Known, Precedes, Idle
<1>2. CASE UNCHANGED vars
  BY <1>2
     DEF vars, VersionsInv, WorkerVersions, Known, Precedes, SameIDs, Ordering, Recording
<1>. QED
  BY <1>1, <1>2, ReconcileVersions, ExchangeVersions, PatchVersions, EnvironmentVersions
     DEF Next

(* Whatever goes wrong, an object that records a block has a finalizer and *)
(* no version records a block that was never allocated.                    *)
THEOREM VersionsHold == Spec => []VersionsInv
<1>1. TypeOK /\ VersionsInv /\ [Next]_vars => (TypeOK /\ VersionsInv)'
  BY TypeStep, VersionsStep
<1>. QED  BY <1>1, TypeInit, VersionsInit, PTL DEF Spec

-----------------------------------------------------------------------------
(* A time without mishaps. *)

LEMMA AddressIsThere ==
  ASSUME NEW b \in Blocks
  PROVE  UsableAddress(b) # NoAddress /\ b # NoBlock
BY ClusterAssumption DEF UsableAddress, NoAddress

(* Blocks may disappear but none is new. *)
BlocksShrink == \A b \in Blocks : Exists(b)' => Exists(b)

LEMMA CompleteKept ==
  ASSUME NEW o \in Object, NEW p \in Object, Complete(o), IdsKept(p, o),
         p.ready => o.ready \/ o.ipid # NoBlock
  PROVE  Complete(p)
BY DEF Complete, IdsKept, SameIDs

LEMMA CleanInit == Init => CleanInv
<1>. SUFFICES ASSUME Init PROVE CleanInv
  OBVIOUS
<1>1. api = NewObject /\ cache = NewObject /\ wk.pc = "idle"
  BY DEF Init, Idle
<1>2. Complete(NewObject) /\ NewObject.ipid = NoBlock
  BY DEF NewObject, Complete
<1>3. \A b \in Blocks : ~Exists(b)
  BY DEF Init, Exists, ReportedStatus
<1>. QED  BY <1>1, <1>2, <1>3 DEF CleanInv, CleanState, OneBlock, Agrees

LEMMA ReconcileClean ==
  ASSUME TypeOK, CleanState, mishaps = 0, mishaps' = 0, Reconcile
  PROVE  CleanState'
<1>1. /\ wk.pc = "idle" /\ UNCHANGED <<api, cache, blocks>>
      /\ UNCHANGED wk \/ (ReconcileKind /\ Started)
  BY ReconcileEffect DEF ReconcileKind
<1>2. /\ OneBlock' /\ Complete(api)' /\ Complete(cache)' /\ Agrees(cache)'
      /\ \A b \in Blocks : api.live /\ Exists(b) => Tracked(b)
  BY <1>1 DEF CleanState, OneBlock, Exists, Complete, Agrees, Tracked, InFlight
<1>3. \A b \in Blocks : api'.live /\ Exists(b)' => Tracked(b)'
  BY <1>1, <1>2 DEF Exists, Tracked
<1>4. CASE UNCHANGED wk
  BY <1>1, <1>2, <1>3, <1>4 DEF CleanState
<1>5. CASE ReconcileKind /\ Started
  <2>1. wk'.obj \in Object /\ wk' \in Worker /\ cache \in Object /\ api \in Object
    BY ReconcileEffect DEF Worker, TypeOK
  <2>2. Complete(cache) /\ Agrees(cache)
    BY DEF CleanState
  <2>3. Complete(wk'.obj) /\ SameIDs(wk'.obj, cache) /\ wk'.base = cache
    BY <1>5, <2>1, <2>2, CompleteKept DEF Started, IdsKept
  <2>4. wk'.pc = "create" => api.live /\ api.ipid = NoBlock
    <3>1. SUFFICES ASSUME wk'.pc = "create" PROVE api.live /\ api.ipid = NoBlock
      OBVIOUS
    <3>2. cache.ip = NoAddress /\ (IF ~api.live \/ Stale THEN Mishap ELSE NoMishap)
      BY <1>1, <1>5, <3>1 DEF ReconcileKind
    <3>3. api.live /\ ~Stale
      BY <3>2 DEF Mishap
    <3>4. cache.ipid = NoBlock
      BY <2>1, <2>2, <3>2, AddressIsThere DEF Complete, Object
    <3>. QED  BY <3>3, <3>4 DEF Stale
  <2>5. CleanWorker'
    BY <1>1, <2>2, <2>3, <2>4
       DEF CleanWorker, Complete, Agrees, SameIDs, Ordering, Recording
  <2>. QED  BY <1>2, <1>3, <2>5 DEF CleanState
<1>. QED  BY <1>1, <1>4, <1>5

LEMMA ExchangeClean ==
  ASSUME TypeOK, VersionsInv, CleanState, mishaps = 0, mishaps' = 0, Exchange
  PROVE  CleanState'
<1>1. Returned /\ (Polled \/ GivenBack \/ \E b \in Blocks : Allocated(b))
  BY ExchangeEffect
<1>2. /\ wk.obj \in Object /\ wk.base \in Object /\ wk'.obj \in Object
      /\ api \in Object /\ cache \in Object
  BY <1>1 DEF TypeOK, Worker, Returned
<1>3. /\ UNCHANGED <<api, cache>> /\ wk'.base = wk.base /\ wk'.pc = "patchMeta"
      /\ wk.pc \in {"create", "sync", "delete"}
  BY <1>1 DEF Returned
<1>4. CleanWorker /\ SameIDs(wk.obj, wk.base)
  BY <1>3 DEF CleanState, VersionsInv, WorkerVersions, Recording
<1>5. /\ Complete(api)' /\ Complete(cache)' /\ Agrees(cache)'
      /\ Complete(wk.base)' /\ Agrees(wk.base)'
      /\ \A b \in Blocks : api.live /\ Exists(b) => Tracked(b)
  BY <1>3, <1>4 DEF CleanState, CleanWorker, Complete, Agrees, InFlight
<1>6. CASE Polled \/ GivenBack
  <2>1. BlocksShrink
    BY <1>6 DEF Polled, GivenBack, BlocksShrink, Exists, ReportedStatus, TypeOK
  <2>2. IdsKept(wk'.obj, wk.obj) /\ Complete(wk'.obj)
    <3>1. wk'.obj.ready => wk.obj.ready \/ wk.obj.ipid # NoBlock
      BY <1>6, ClusterAssumption DEF Polled, GivenBack
    <3>. QED
      BY <1>2, <1>4, <1>6, <3>1, CompleteKept DEF Polled, GivenBack, CleanWorker
  <2>3. CleanWorker'
    BY <1>3, <1>4, <1>5, <2>2
       DEF CleanWorker, Complete, Agrees, IdsKept, SameIDs, Ordering, Recording
  <2>4. OneBlock' /\ \A b \in Blocks : api'.live /\ Exists(b)' => Tracked(b)'
    BY <1>3, <1>5, <2>1 DEF BlocksShrink, CleanState, OneBlock, Tracked
  <2>. QED  BY <1>5, <2>3, <2>4 DEF CleanState
<1>7. ASSUME NEW b \in Blocks, Allocated(b)
      PROVE  CleanState'
  <2>1. /\ wk.pc = "create" /\ wk'.obj.ipid = b
        /\ wk'.obj.ip = UsableAddress(b) /\ wk'.obj.endpoint = UsableAddress(b)
        /\ blocks[b] = "unborn"
        /\ \A c \in Blocks : c # b => blocks'[c] = blocks[c]
    BY <1>7 DEF Allocated, Mishap, TypeOK
  <2>2. api.live /\ api.ipid = NoBlock
    BY <1>4, <2>1 DEF CleanWorker, Ordering
  <2>3. \A c \in Blocks : Exists(c)' => c = b
    <3>1. \A c \in Blocks : ~Exists(c)
      BY <1>5, <2>2, AddressIsThere DEF Tracked
    <3>. QED  BY <2>1, <3>1 DEF Exists
  <2>4. wk.base.ipid # b
    BY <1>2, <1>3, <2>1, AddressIsThere DEF VersionsInv, WorkerVersions, Known
  <2>5. CleanWorker'
    <3>1. Complete(wk'.obj)
      BY <2>1, AddressIsThere DEF Complete
    <3>. QED
      BY <1>3, <1>5, <2>1, <2>2, <2>4, <3>1
         DEF CleanWorker, Complete, Agrees, Ordering, Recording
  <2>6. OneBlock' /\ \A c \in Blocks : Exists(c)' => InFlight(c)'
    BY <1>3, <2>1, <2>3, <2>4 DEF OneBlock, InFlight
  <2>. QED  BY <1>5, <2>5, <2>6 DEF CleanState
<1>. QED  BY <1>1, <1>6, <1>7

LEMMA PatchClean ==
  ASSUME TypeOK, VersionsInv, CleanState, mishaps = 0, mishaps' = 0, Patch
  PROVE  CleanState'
<1>1. /\ wk.base \in Object /\ wk.obj \in Object /\ wk \in Worker
      /\ api \in Object /\ cache \in Object
  BY DEF TypeOK, Worker
<1>2. CASE PatchMeta
  <2>1. /\ wk.pc = "patchMeta" /\ wk' = [wk EXCEPT !.pc = "patchStatus"]
        /\ UNCHANGED <<cache, blocks>> /\ api' \in Object
        /\ \/ ~api.live /\ api' = api
           \/ api.live /\ api' = NotFound
           \/ api.live /\ MetaMerged
    BY <1>2, PatchMetaEffect
  <2>2. wk'.pc = "patchStatus" /\ wk'.base = wk.base /\ wk'.obj = wk.obj
    BY <1>1, <2>1 DEF Worker
  <2>3. CleanWorker /\ WorkerVersions
    BY <2>1 DEF CleanState, VersionsInv
  <2>4. OneBlock' /\ Complete(cache)' /\ Complete(wk.base)' /\ Complete(wk.obj)'
    BY <2>1, <2>2, <2>3 DEF CleanState, OneBlock, Exists, Complete, CleanWorker
  <2>5. CASE ~api'.live
    <3>1. Complete(api)'
      BY <2>1, <2>5 DEF CleanState, Complete, NotFound, NewObject, MetaMerged
    <3>. QED
      BY <2>2, <2>4, <2>5, <3>1 DEF CleanState, CleanWorker, Agrees, Ordering, Recording
  <2>6. CASE api.live /\ MetaMerged /\ Recording
    <3>1. api.ipid = NoBlock /\ wk.obj.ipid # NoBlock /\ wk.base.ipid = NoBlock
      BY <1>1, <2>3, <2>6, AddressIsThere
         DEF CleanWorker, WorkerVersions, Ordering, Agrees, Complete, Object
    <3>2. /\ wk.base.ip = NoAddress /\ wk.base.endpoint = NoAddress
          /\ wk.obj.ip # NoAddress /\ wk.obj.endpoint = wk.obj.ip
      BY <1>1, <2>3, <3>1, AddressIsThere DEF CleanWorker, Complete, Object
    <3>3. IdsKept(api', wk.obj)
      BY <2>6, <3>1, <3>2 DEF MetaMerged, Merge, IdsKept, SameIDs
    <3>4. Complete(api)'
      BY <2>3, <3>1, <3>3 DEF CleanWorker, Complete, IdsKept, SameIDs
    <3>5. cache.ipid = NoBlock
      BY <2>6, <3>1 DEF CleanState, Agrees
    <3>6. \A b \in Blocks : Exists(b)' => Tracked(b)'
      <4>1. ASSUME NEW b \in Blocks, Exists(b) PROVE b = wk.obj.ipid
        BY <2>6, <3>1, <4>1, AddressIsThere DEF CleanState, Tracked, InFlight
      <4>. QED
        BY <2>1, <2>6, <3>3, <4>1 DEF Exists, Tracked, MetaMerged, IdsKept, SameIDs
    <3>. QED
      BY <2>1, <2>2, <2>4, <3>1, <3>3, <3>4, <3>5, <3>6
         DEF CleanState, CleanWorker, Agrees, Ordering, Recording, IdsKept, SameIDs
  <2>7. CASE api.live /\ MetaMerged /\ ~Recording
    <3>1. SameIDs(wk.obj, wk.base) /\ ~Ordering
      BY <2>1, <2>3, <2>7 DEF WorkerVersions, Ordering
    <3>2. wk.obj.endpoint = wk.base.endpoint
      BY <2>3, <3>1 DEF CleanWorker, Complete, SameIDs
    <3>3. IdsKept(api', api) /\ (api'.ready <=> api.ready) /\ api'.live
      BY <2>7, <3>1, <3>2 DEF MetaMerged, Merge, IdsKept, SameIDs
    <3>4. Complete(api)'
      BY <3>3 DEF CleanState, Complete, IdsKept, SameIDs
    <3>5. \A b \in Blocks : Exists(b)' => Tracked(b)'
      BY <2>1, <2>7, <3>3 DEF CleanState, Exists, Tracked, InFlight, Recording, IdsKept, SameIDs
    <3>6. Agrees(cache)' /\ Agrees(wk.base)' /\ Agrees(wk.obj)'
      BY <2>1, <2>2, <2>3, <2>7, <3>1, <3>3
         DEF CleanState, CleanWorker, Agrees, IdsKept, SameIDs
    <3>. QED
      BY <2>2, <2>4, <3>4, <3>5, <3>6 DEF CleanState, CleanWorker, Ordering, Recording
  <2>. QED  BY <2>1, <2>5, <2>6, <2>7 DEF NotFound, NewObject
<1>3. CASE PatchMetaFails
  <2>1. /\ wk.pc = "patchMeta" /\ wk'.pc = "patchStatus"
        /\ wk'.base = wk.base /\ wk'.obj = wk.obj /\ UNCHANGED <<api, cache, blocks>>
        /\ ~Recording
    BY <1>1, <1>3, PatchMetaFailsEffect DEF Worker, Mishap, InFlight, Recording
  <2>2. \A b \in Blocks : api'.live /\ Exists(b)' => Tracked(b)'
    BY <2>1 DEF CleanState, Exists, Tracked, InFlight, Recording
  <2>3. CleanWorker'
    BY <2>1 DEF CleanState, CleanWorker, Complete, Agrees, Ordering, Recording
  <2>. QED
    BY <2>1, <2>2, <2>3 DEF CleanState, OneBlock, Exists, Complete, Agrees
<1>4. CASE PatchStatus \/ PatchStatusFails
  <2>1. /\ wk.pc = "patchStatus" /\ wk'.pc = "idle" /\ UNCHANGED <<cache, blocks>>
        /\ api' \in Object
        /\ IdsKept(api', api) /\ (api'.live <=> api.live)
        /\ api'.ready => api.ready \/ (api.live /\ wk.obj.ready)
    BY <1>4, PatchStatusEffect DEF Idle
  <2>2. CleanWorker /\ ~Ordering
    BY <2>1 DEF CleanState, Ordering, Recording
  <2>3. Complete(api')
    BY <1>1, <2>1, <2>2, CompleteKept DEF CleanState, CleanWorker, Complete, Agrees
  <2>4. \A b \in Blocks : api'.live /\ Exists(b)' => Tracked(b)'
    BY <2>1 DEF CleanState, Exists, Tracked, InFlight, IdsKept, SameIDs
  <2>5. OneBlock' /\ Complete(cache)' /\ Agrees(cache)'
    BY <2>1 DEF CleanState, OneBlock, Exists, Complete, Agrees, IdsKept, SameIDs
  <2>6. Complete(api)'
    BY <2>3 DEF Complete
  <2>. QED  BY <2>1, <2>4, <2>5, <2>6 DEF CleanState
<1>. QED  BY <1>2, <1>3, <1>4 DEF Patch

LEMMA EnvironmentClean ==
  ASSUME TypeOK, VersionsInv, CleanState, mishaps = 0, mishaps' = 0, Environment
  PROVE  CleanState'
<1>1. UNCHANGED wk /\ wk.base \in Object /\ wk.obj \in Object
  BY EnvironmentEffect DEF TypeOK, Worker
<1>2. CASE UNCHANGED <<api, cache, blocks>>
  BY <1>1, <1>2
     DEF CleanState, CleanWorker, OneBlock, Exists, Tracked, InFlight, Complete, Agrees,
         Ordering, Recording
<1>3. CASE cache' = api /\ UNCHANGED <<api, blocks>>
  BY <1>1, <1>3
     DEF CleanState, CleanWorker, OneBlock, Exists, Tracked, InFlight, Complete, Agrees,
         Ordering, Recording
<1>4. CASE Deleted
  <2>1. CASE api.fini
    <3>1. /\ api'.live /\ IdsKept(api', api) /\ (api'.ready <=> api.ready) /\ api.live
          /\ UNCHANGED <<cache, blocks>>
      BY <1>4, <2>1 DEF Deleted
    <3>. QED
      BY <1>1, <3>1
         DEF CleanState, CleanWorker, OneBlock, Exists, Tracked, InFlight, Complete,
             Agrees, IdsKept, SameIDs, Ordering, Recording
  <2>2. CASE ~api.fini
    <3>1. api' = NotFound /\ UNCHANGED <<cache, blocks>> /\ ~Ordering
      BY <1>4, <2>2 DEF Deleted, Mishap, Ordering, Recording, InFlight
    <3>2. ~api'.live /\ Complete(api)'
      BY <3>1 DEF NotFound, NewObject, Complete
    <3>. QED
      BY <1>1, <3>1, <3>2
         DEF CleanState, CleanWorker, OneBlock, Exists, Complete, Agrees, Ordering, Recording
  <2>. QED  BY <2>1, <2>2
<1>5. ASSUME NEW b \in Blocks, Exists(b),
             blocks' = [blocks EXCEPT ![b] = blocks'[b]], UNCHANGED <<api, cache>>
      PROVE  CleanState'
  <2>1. BlocksShrink
    BY <1>5 DEF BlocksShrink, Exists, TypeOK
  <2>. QED
    BY <1>1, <1>5, <2>1
       DEF BlocksShrink, CleanState, CleanWorker, OneBlock, Tracked, InFlight, Complete,
           Agrees, Ordering, Recording
<1>. QED  BY <1>2, <1>3, <1>4, <1>5, EnvironmentEffect

(* Mishaps are counted one by one. *)
LEMMA MishapsCount ==
  ASSUME TypeOK, [Next]_vars
  PROVE  mishaps \in Nat /\ mishaps' \in {mishaps, mishaps + 1}
<1>1. Mishap \/ mishaps' = mishaps
  <2>1. CASE Reconcile
    BY <2>1, ReconcileEffect DEF ReconcileKind, history, NoMishap
  <2>2. CASE Exchange
    BY <2>2, ExchangeEffect DEF Polled, GivenBack, Allocated, history, NoMishap
  <2>3. CASE Patch
    BY <2>3, PatchMetaEffect, PatchMetaFailsEffect, PatchStatusEffect
       DEF Patch, history, NoMishap
  <2>4. CASE Crash
    BY <2>4, CrashEffect DEF history, NoMishap
  <2>5. CASE Environment
    BY <2>5, EnvironmentEffect DEF Deleted, history, NoMishap
  <2>6. CASE UNCHANGED vars
    BY <2>6 DEF vars
  <2>. QED  BY <2>1, <2>2, <2>3, <2>4, <2>5, <2>6 DEF Next
<1>. QED  BY <1>1 DEF TypeOK, Mishap

LEMMA CleanStep == TypeOK /\ VersionsInv /\ CleanInv /\ [Next]_vars => CleanInv'
<1>. SUFFICES ASSUME TypeOK, VersionsInv, CleanInv, [Next]_vars, mishaps' = 0
              PROVE  CleanState'
  BY DEF CleanInv
<1>1. mishaps = 0 /\ CleanState
  BY MishapsCount DEF CleanInv
<1>2. CASE Crash
  <2>1. /\ wk'.pc = "idle" /\ cache' = api /\ UNCHANGED <<api, blocks>>
        /\ ~InFlight(wk.obj.ipid)
    BY <1>1, <1>2, CrashEffect DEF Idle, Mishap
  <2>2. \A b \in Blocks : api'.live /\ Exists(b)' => Tracked(b)'
    BY <1>1, <2>1 DEF CleanState, Exists, Tracked, InFlight
  <2>. QED
    BY <1>1, <2>1, <2>2 DEF CleanState, OneBlock, Exists, Complete, Agrees
<1>3. CASE UNCHANGED vars
  BY <1>1, <1>3
     DEF vars, CleanState, CleanWorker, OneBlock, Exists, Tracked, InFlight, Complete,
         Agrees, Ordering, Recording
<1>. QED
  BY <1>1, <1>2, <1>3, ReconcileClean, ExchangeClean, PatchClean, EnvironmentClean DEF Next

LEMMA CleanInvariance == Spec => [](TypeOK /\ VersionsInv /\ CleanInv)
<1>1. TypeOK /\ VersionsInv /\ CleanInv /\ [Next]_vars => (TypeOK /\ VersionsInv /\ CleanInv)'
  BY TypeStep, VersionsStep, CleanStep
<1>. QED  BY <1>1, TypeInit, VersionsInit, CleanInit, PTL DEF Spec

(* Without mishaps all versions of a cluster record the same block and its *)
(* address, or none, and the only block that exists is that one.           *)
THEOREM CleanHolds == Spec => []CleanInv
BY CleanInvariance, PTL

(* Without mishaps a cluster never holds two blocks.                       *)
THEOREM OneBlockEach == Spec => []OneBlock
<1>1. CleanInv => OneBlock
  BY DEF CleanInv, CleanState, OneBlock
<1>. QED  BY <1>1, CleanInvariance, PTL

(* Without mishaps the endpoint is the usable address of the block on      *)
(* record.                                                                 *)
THEOREM EndpointsMatch == Spec => []EndpointMatchesBlock
<1>1. CleanInv => EndpointMatchesBlock
  BY DEF CleanInv, CleanState, EndpointMatchesBlock, Complete
<1>. QED  BY <1>1, CleanInvariance, PTL

(* Without mishaps a cluster is ready only when it has its endpoint.       *)
THEOREM ReadyWithEndpoint == Spec => []ReadyHasEndpoint
<1>1. TypeOK /\ CleanInv => ReadyHasEndpoint
  BY AddressIsThere DEF TypeOK, Object, CleanInv, CleanState, ReadyHasEndpoint, Complete
<1>. QED  BY <1>1, CleanInvariance, PTL

LEMMA EndpointStep ==
  ASSUME TypeOK, VersionsInv, CleanInv, [Next]_vars, mishaps = 0,
         api.endpoint # NoAddress, api'.live
  PROVE  api'.endpoint = api.endpoint
<1>1. CleanState
  BY DEF CleanInv
<1>2. CASE PatchMeta
  <2>1. wk.pc = "patchMeta" /\ (api' = api \/ api' = NotFound \/ MetaMerged)
    BY <1>2, PatchMetaEffect
  <2>2. CleanWorker /\ WorkerVersions
    BY <1>1, <2>1 DEF CleanState, VersionsInv
  <2>3. ~Recording
    BY <1>1, <2>2 DEF CleanState, CleanWorker, Ordering, Complete
  <2>4. wk.obj.endpoint = wk.base.endpoint
    BY <2>1, <2>2, <2>3 DEF CleanWorker, WorkerVersions, Complete, SameIDs
  <2>. QED  BY <2>1, <2>4 DEF MetaMerged, Merge, NotFound, NewObject
<1>3. CASE PatchMetaFails \/ PatchStatus \/ PatchStatusFails
  BY <1>3, PatchMetaFailsEffect, PatchStatusEffect DEF IdsKept
<1>4. CASE Environment
  BY <1>4, EnvironmentEffect DEF Deleted, IdsKept, NotFound, NewObject
<1>5. CASE Reconcile \/ Exchange \/ Crash \/ UNCHANGED vars
  BY <1>5, ReconcileEffect, ExchangeEffect, CrashEffect DEF Returned, vars
<1>. QED  BY <1>2, <1>3, <1>4, <1>5 DEF Next, Patch

(* Without mishaps the endpoint, once there, never changes.                *)
THEOREM EndpointIsKept == Spec => EndpointKept
<1>1. TypeOK /\ VersionsInv /\ CleanInv /\ [Next]_vars =>
        [mishaps = 0 /\ api.endpoint # NoAddress /\ api'.live =>
           api'.endpoint = api.endpoint]_vars
  BY EndpointStep
<1>. QED  BY <1>1, CleanInvariance, PTL DEF Spec, EndpointKept

-----------------------------------------------------------------------------
(* What mishaps cost. A step adds nothing to what is owed; one more is owed*)
(* for a mishap; or an order that was astray has cost a block.             *)

OwedStep ==
  \/ Owed' \subseteq Owed
  \/ mishaps' = mishaps + 1 /\ \E y : Owed' \subseteq Owed \cup {y}
  \/ NoBlock \in Owed /\ \E y : Owed' \subseteq (Owed \ {NoBlock}) \cup {y}

LEMMA OwedKept ==
  ASSUME \A b \in Blocks : Unsafe(b)' => Unsafe(b),
         OrderAstray' => OrderAstray
  PROVE  OwedStep
BY DEF Owed, OwedStep

LEMMA OwedCharged ==
  ASSUME Mishap, NEW y,
         \A b \in Blocks : Unsafe(b)' => Unsafe(b) \/ b = y,
         OrderAstray' => OrderAstray \/ y = NoBlock
  PROVE  OwedStep
<1>1. Owed' \subseteq Owed \cup {y}
  BY DEF Owed
<1>. QED  BY <1>1 DEF Mishap, OwedStep

LEMMA OwedTraded ==
  ASSUME OrderAstray, ~OrderAstray', NEW y,
         \A b \in Blocks : Unsafe(b)' => Unsafe(b) \/ b = y
  PROVE  OwedStep
<1>1. NoBlock \in Owed /\ Owed' \subseteq (Owed \ {NoBlock}) \cup {y}
  BY ClusterAssumption DEF Owed
<1>. QED  BY <1>1 DEF OwedStep

(* A block on record is safe unless the reconcile that has just started    *)
(* will drop its record.                                                   *)
LEMMA ReconcileOwed ==
  ASSUME TypeOK, Reconcile
  PROVE  OwedStep
<1>1. /\ wk.pc = "idle" /\ UNCHANGED <<api, cache, blocks>> /\ ReconcileKind
  BY ReconcileEffect
<1>2. \A b \in Blocks : Exists(b)' => Exists(b)
  BY <1>1 DEF Exists
<1>3. CASE UNCHANGED <<wk, history>>
  BY <1>1, <1>3, OwedKept
     DEF Unsafe, Safe, Exists, Tracked, InFlight, Releasing, history,
         OrderAstray, Ordering, Recording, SameIDs
<1>4. CASE Started /\ wk'.pc = "delete"
  <2>1. /\ wk'.obj.ipid = cache.ipid /\ left' = left
        /\ IF api.live /\ Stale THEN Mishap ELSE NoMishap
    BY <1>1, <1>4 DEF ReconcileKind, Started, IdsKept, SameIDs, Mishap, NoMishap, history
  <2>2. ~OrderAstray'
    BY <1>4 DEF OrderAstray, Ordering, Recording
  <2>3. \A b \in Blocks :
          Unsafe(b)' => Unsafe(b) \/ (api.live /\ api.ipid = b /\ cache.ipid # b)
    BY <1>1, <1>2, <1>4, <2>1 DEF Unsafe, Safe, Tracked, InFlight, Releasing
  <2>. QED  BY <2>1, <2>2, <2>3, OwedKept, OwedCharged DEF Stale
<1>5. CASE Started /\ wk'.pc = "patchMeta"
  <2>1. IF api.live /\ Stale
          THEN Mishap
          ELSE left' = left \cup ({cache.ipid} \ {NoBlock}) /\ UNCHANGED mishaps
    BY <1>1, <1>5 DEF ReconcileKind, Started
  <2>2. left \subseteq left'
    BY <2>1 DEF Mishap
  <2>3. ~OrderAstray'
    BY <1>5 DEF OrderAstray, Ordering, Recording, Started, IdsKept, SameIDs
  <2>4. \A b \in Blocks :
          Unsafe(b)' => Unsafe(b) \/ (api.live /\ api.ipid = b /\ b \notin left')
    BY <1>1, <1>2, <2>2 DEF Unsafe, Safe, Tracked, InFlight
  <2>5. CASE api.live /\ Stale
    BY <2>1, <2>3, <2>4, <2>5, OwedCharged
  <2>6. CASE ~(api.live /\ Stale)
    <3>1. \A b \in Blocks : Unsafe(b)' => Unsafe(b)
      BY <2>1, <2>4, <2>6, ClusterAssumption DEF Stale
    <3>. QED  BY <2>3, <3>1, OwedKept
  <2>. QED  BY <2>5, <2>6
<1>6. CASE Started /\ wk'.pc \in {"create", "sync"}
  <2>1. left' = left
    BY <1>1, <1>6 DEF ReconcileKind, Started, Mishap, NoMishap, history
  <2>2. \A b \in Blocks : Unsafe(b)' => Unsafe(b)
    BY <1>1, <1>2, <1>6, <2>1 DEF Unsafe, Safe, Tracked, InFlight, Releasing
  <2>3. OrderAstray' => Mishap
    <3>1. CASE wk'.pc = "create"
      <4>1. IF ~api.live \/ Stale THEN Mishap ELSE NoMishap
        BY <1>1, <1>6, <3>1 DEF ReconcileKind, Started
      <4>2. wk'.base = cache
        BY <1>6 DEF Started
      <4>. QED
        BY <1>1, <4>1, <4>2 DEF OrderAstray, SameIDs, Stale
    <3>2. CASE wk'.pc = "sync"
      BY <3>2 DEF OrderAstray, Ordering, Recording
    <3>. QED  BY <1>6, <3>1, <3>2
  <2>. QED  BY <2>2, <2>3, OwedKept, OwedCharged
<1>. QED
  BY <1>1, <1>3, <1>4, <1>5, <1>6 DEF Started, ReconcileKind

LEMMA ExchangeOwed ==
  ASSUME TypeOK, VersionsInv, Exchange
  PROVE  OwedStep
<1>1. Returned /\ (Polled \/ GivenBack \/ \E b \in Blocks : Allocated(b))
  BY ExchangeEffect
<1>2. /\ UNCHANGED <<api, cache>> /\ wk'.base = wk.base /\ wk'.pc = "patchMeta"
      /\ wk.pc \in {"create", "sync", "delete"}
  BY <1>1 DEF Returned
<1>3. WorkerVersions /\ SameIDs(wk.obj, wk.base)
  BY <1>2 DEF VersionsInv, WorkerVersions, Recording
<1>4. CASE Polled
  <2>1. ~Releasing' /\ ~Recording' /\ ~Ordering'
    BY <1>2, <1>3, <1>4
       DEF Polled, WorkerVersions, Releasing, Recording, Ordering, IdsKept, SameIDs
  <2>2. \A b \in Blocks : Unsafe(b)' => Unsafe(b)
    BY <1>2, <1>4, <2>1
       DEF Polled, Unsafe, Safe, Exists, Tracked, InFlight, history
  <2>. QED  BY <2>1, <2>2, OwedKept DEF OrderAstray
<1>5. CASE GivenBack
  <2>1. wk.pc = "delete" /\ ~Recording' /\ ~Ordering'
    BY <1>2, <1>3, <1>5 DEF GivenBack, Recording, Ordering, IdsKept, SameIDs
  <2>2. left' = left
    BY <1>5 DEF GivenBack, Mishap, NoMishap, history
  <2>3. \A b \in Blocks : Exists(b)' => Exists(b)
    BY <1>5 DEF GivenBack, Exists, ReportedStatus, TypeOK
  <2>4. CASE Releasing'
    <3>1. ~(wk'.obj.fini <=> wk.obj.fini)
      BY <1>2, <1>3, <2>1, <2>4 DEF Releasing, WorkerVersions
    <3>2. IF Exists(wk.obj.ipid) /\ blocks' = blocks THEN Mishap ELSE NoMishap
      BY <1>5, <3>1 DEF GivenBack
    <3>3. \A b \in Blocks :
            Unsafe(b)' => Unsafe(b) \/ (b = wk.obj.ipid /\ Exists(b) /\ Exists(b)')
      BY <1>2, <2>1, <2>2, <2>3 DEF Unsafe, Safe, Tracked, InFlight
    <3>4. blocks' # blocks => ~Exists(wk.obj.ipid)'
      BY <1>1, <1>2, <1>5 DEF GivenBack, Exists, ReportedStatus, TypeOK, IdsKept, SameIDs
    <3>5. CASE Mishap
      BY <2>1, <3>3, <3>5, OwedCharged DEF OrderAstray
    <3>6. CASE ~(Exists(wk.obj.ipid) /\ blocks' = blocks)
      <4>1. \A b \in Blocks : Unsafe(b)' => Unsafe(b)
        BY <1>5, <3>3, <3>4, <3>6 DEF GivenBack, Exists, IdsKept, SameIDs
      <4>. QED  BY <2>1, <4>1, OwedKept DEF OrderAstray
    <3>. QED  BY <3>2, <3>5, <3>6
  <2>5. CASE ~Releasing'
    <3>1. \A b \in Blocks : Unsafe(b)' => Unsafe(b)
      BY <1>2, <2>1, <2>2, <2>3, <2>5 DEF Unsafe, Safe, Tracked, InFlight
    <3>. QED  BY <2>1, <3>1, OwedKept DEF OrderAstray
  <2>. QED  BY <2>4, <2>5
<1>6. ASSUME NEW b \in Blocks, Allocated(b)
      PROVE  OwedStep
  <2>1. wk.pc = "create" /\ ~Releasing' /\ left' = left
    BY <1>2, <1>3, <1>6
       DEF Allocated, WorkerVersions, Releasing, Mishap, NoMishap, history
  <2>2. OrderAstray' => OrderAstray
    BY <1>2, <2>1 DEF OrderAstray, Ordering, SameIDs
  <2>3. \A c \in Blocks : c # b => (Exists(c)' <=> Exists(c))
    BY <1>6 DEF Allocated, Exists, TypeOK
  <2>4. \A c \in Blocks : c # b => (Unsafe(c)' => Unsafe(c))
    BY <1>2, <2>1, <2>3 DEF Unsafe, Safe, Tracked, InFlight
  <2>5. CASE Mishap
    BY <2>2, <2>4, <2>5, OwedCharged
  <2>6. CASE wk'.obj.ipid = b /\ wk'.obj.ip = UsableAddress(b)
    <3>1. wk.base.ipid # b
      BY <1>3, <1>6, AddressIsThere DEF Allocated, WorkerVersions, Known
    <3>2. ~Unsafe(b)'
      BY <1>2, <2>6, <3>1, AddressIsThere DEF Unsafe, Safe, InFlight
    <3>. QED  BY <2>2, <2>4, <3>2, OwedKept
  <2>. QED  BY <1>6, <2>5, <2>6 DEF Allocated
<1>. QED  BY <1>1, <1>4, <1>5, <1>6

LEMMA PatchOwed ==
  ASSUME TypeOK, VersionsInv, Patch
  PROVE  OwedStep
<1>1. /\ wk.base \in Object /\ wk.obj \in Object /\ wk \in Worker
      /\ api \in Object /\ cache \in Object
  BY DEF TypeOK, Worker
<1>2. CASE PatchMeta
  <2>1. /\ wk.pc = "patchMeta" /\ wk' = [wk EXCEPT !.pc = "patchStatus"]
        /\ UNCHANGED <<blocks, left>> /\ api' \in Object
        /\ IF api.live
             THEN \/ /\ api' = NotFound
                     /\ api.deleting /\ ~Merge(api.fini, wk.base.fini, wk.obj.fini)
                  \/ MetaMerged
             ELSE api' = api
    BY <1>2, PatchMetaEffect DEF history
  <2>2. wk'.pc = "patchStatus" /\ wk'.base = wk.base /\ wk'.obj = wk.obj
    BY <1>1, <2>1 DEF Worker
  <2>3. WorkerVersions
    BY <2>1 DEF VersionsInv
  <2>4. ~OrderAstray'
    BY <2>2 DEF OrderAstray, Ordering, Recording
  <2>5. \A b \in Blocks :
          /\ Exists(b)' <=> Exists(b)
          /\ api'.live /\ api'.ipid = b /\ api'.ip # NoAddress => Safe(b)'
    BY <2>1, <2>2 DEF Exists, Safe, Tracked, Releasing
  <2>6. CASE ~Recording
    <3>1. SameIDs(wk.obj, wk.base)
      BY <2>1, <2>3, <2>6 DEF WorkerVersions
    <3>2. ASSUME NEW b \in Blocks, Safe(b) PROVE Safe(b)'
      <4>1. Tracked(b) /\ api.ip # NoAddress /\ ~Releasing
        BY <2>6, <3>2 DEF Safe, InFlight, Recording
      <4>2. api.deleting => Merge(api.fini, wk.base.fini, wk.obj.fini)
        BY <1>1, <2>1, <4>1 DEF VersionsInv, Releasing, Tracked, Merge, Object
      <4>3. MetaMerged
        BY <2>1, <4>1, <4>2 DEF Tracked
      <4>. QED
        BY <2>5, <3>1, <4>1, <4>3 DEF MetaMerged, Merge, Tracked, SameIDs
    <3>. QED  BY <2>1, <2>4, <2>5, <3>2, OwedKept DEF Unsafe
  <2>7. CASE Recording /\ ~api.live
    <3>1. \A b \in Blocks : Unsafe(b)' => Unsafe(b) \/ b = wk.obj.ipid
      BY <2>1, <2>5, <2>7 DEF Unsafe, Safe, Tracked, InFlight
    <3>2. OrderAstray
      BY <2>7 DEF OrderAstray, Ordering
    <3>. QED  BY <2>4, <3>1, <3>2, OwedTraded
  <2>8. CASE Recording /\ api.live
    <3>1. wk.obj.fini /\ wk.base.ip = NoAddress /\ wk.obj.ipid # wk.base.ipid
      BY <2>3, <2>8 DEF WorkerVersions, Ordering, Recording
    <3>2. api.deleting => Merge(api.fini, wk.base.fini, wk.obj.fini)
      BY <2>3, <2>8, <3>1 DEF VersionsInv, Merge
    <3>3. /\ MetaMerged /\ api'.live /\ api'.ipid = wk.obj.ipid
          /\ api.ip # NoAddress \/ wk.obj.ip # NoAddress => api'.ip # NoAddress
      BY <2>1, <2>8, <3>1, <3>2 DEF MetaMerged, Merge
    <3>4. ASSUME NEW b \in Blocks, Unsafe(b)', b = wk.obj.ipid PROVE Unsafe(b)
      <4>1. api.ip = NoAddress /\ wk.obj.ip = NoAddress
        BY <2>5, <3>3, <3>4 DEF Unsafe
      <4>. QED  BY <2>1, <2>5, <3>4, <4>1 DEF Unsafe, Safe
    <3>5. ASSUME NEW b \in Blocks, Unsafe(b)', ~Unsafe(b)
          PROVE  b = api.ipid /\ api.ip # NoAddress
      <4>1. Safe(b)
        BY <2>1, <2>5, <3>5 DEF Unsafe
      <4>2. ~InFlight(b)
        BY <3>4, <3>5 DEF InFlight
      <4>. QED  BY <4>1, <4>2 DEF Safe, Tracked
    <3>6. CASE OrderAstray
      BY <2>4, <3>5, <3>6, OwedTraded
    <3>7. CASE ~OrderAstray
      <4>1. api.ip = NoAddress
        BY <2>8, <3>1, <3>7 DEF OrderAstray, Ordering, SameIDs
      <4>. QED  BY <2>4, <3>5, <4>1, OwedKept
    <3>. QED  BY <3>6, <3>7
  <2>. QED  BY <2>6, <2>7, <2>8
<1>3. CASE PatchMetaFails
  <2>1. /\ wk.pc = "patchMeta" /\ wk'.pc = "patchStatus"
        /\ UNCHANGED <<api, blocks>>
        /\ IF InFlight(wk.obj.ipid) THEN Mishap ELSE NoMishap
    BY <1>1, <1>3, PatchMetaFailsEffect DEF Worker
  <2>2. left' = left /\ ~OrderAstray'
    BY <2>1 DEF Mishap, NoMishap, history, OrderAstray, Ordering, Recording
  <2>3. \A b \in Blocks :
          Unsafe(b)' => Unsafe(b) \/ (b = wk.obj.ipid /\ InFlight(b))
    BY <2>1, <2>2 DEF Unsafe, Safe, Exists, Tracked, InFlight, Releasing
  <2>. QED  BY <2>1, <2>2, <2>3, OwedKept, OwedCharged
<1>4. CASE PatchStatus \/ PatchStatusFails
  <2>1. /\ wk.pc = "patchStatus" /\ wk'.pc = "idle" /\ UNCHANGED <<blocks, left>>
        /\ SameIDs(api', api) /\ (api'.live <=> api.live)
    BY <1>4, PatchStatusEffect DEF Idle, history, IdsKept
  <2>2. ~OrderAstray'
    BY <2>1 DEF OrderAstray, Ordering, Recording
  <2>3. \A b \in Blocks : Unsafe(b)' => Unsafe(b)
    BY <2>1 DEF Unsafe, Safe, Exists, Tracked, InFlight, Releasing, SameIDs
  <2>. QED  BY <2>2, <2>3, OwedKept
<1>. QED  BY <1>2, <1>3, <1>4 DEF Patch

LEMMA OtherOwed ==
  ASSUME TypeOK, VersionsInv, Crash \/ Environment \/ UNCHANGED vars
  PROVE  OwedStep
<1>1. CASE Crash
  <2>1. /\ wk'.pc = "idle" /\ UNCHANGED <<api, blocks>>
        /\ IF InFlight(wk.obj.ipid) THEN Mishap ELSE NoMishap
    BY <1>1, CrashEffect DEF Idle
  <2>2. left' = left /\ ~OrderAstray'
    BY <2>1 DEF Mishap, NoMishap, history, OrderAstray, Ordering, Recording
  <2>3. \A b \in Blocks :
          Unsafe(b)' => Unsafe(b) \/ (b = wk.obj.ipid /\ InFlight(b))
    BY <2>1, <2>2 DEF Unsafe, Safe, Exists, Tracked, InFlight, Releasing
  <2>. QED  BY <2>1, <2>2, <2>3, OwedKept, OwedCharged
<1>2. CASE Environment
  <2>1. UNCHANGED wk
    BY <1>2, EnvironmentEffect
  <2>2. CASE UNCHANGED <<api, blocks, left>>
    BY <2>1, <2>2, OwedKept
       DEF Unsafe, Safe, Exists, Tracked, InFlight, Releasing,
           OrderAstray, Ordering, Recording, SameIDs
  <2>3. CASE Deleted
    <3>1. blocks' = blocks /\ left' = left /\ api.live
      BY <2>3 DEF Deleted, Mishap, NoMishap, history
    <3>2. \A b \in Blocks : Unsafe(b)' => Unsafe(b)
      <4>1. ASSUME NEW b \in Blocks, Tracked(b)
            PROVE  Tracked(b)' /\ SameIDs(api', api)
        BY <2>3, <4>1, ClusterAssumption
           DEF Deleted, VersionsInv, Tracked, IdsKept, SameIDs
      <4>. QED
        BY <2>1, <3>1, <4>1 DEF Unsafe, Safe, Exists, InFlight, Releasing, SameIDs
    <3>3. OrderAstray' => OrderAstray \/ Mishap
      <4>1. Ordering' <=> Ordering
        BY <2>1 DEF Ordering, Recording
      <4>2. CASE api.fini
        <5>1. api'.live /\ SameIDs(api', api) /\ wk' = wk
          BY <2>1, <2>3, <4>2 DEF Deleted, IdsKept
        <5>. QED  BY <3>1, <4>1, <5>1 DEF OrderAstray, SameIDs
      <4>3. CASE ~api.fini
        BY <2>3, <4>1, <4>3 DEF Deleted, OrderAstray, Ordering, Recording, InFlight
      <4>. QED  BY <4>2, <4>3
    <3>. QED  BY <3>2, <3>3, OwedKept, OwedCharged
  <2>4. ASSUME NEW c \in Blocks, Exists(c),
               blocks' = [blocks EXCEPT ![c] = blocks'[c]], UNCHANGED <<api, left>>
        PROVE  OwedStep
    <3>1. \A b \in Blocks : Exists(b)' => Exists(b)
      BY <2>4 DEF Exists, TypeOK
    <3>. QED
      BY <2>1, <2>4, <3>1, OwedKept
         DEF Unsafe, Safe, Tracked, InFlight, Releasing,
             OrderAstray, Ordering, Recording, SameIDs
  <2>. QED  BY <1>2, <2>2, <2>3, <2>4, EnvironmentEffect DEF history
<1>3. CASE UNCHANGED vars
  BY <1>3, OwedKept
     DEF vars, Unsafe, Safe, Exists, Tracked, InFlight, Releasing,
         OrderAstray, Ordering, Recording, SameIDs
<1>. QED  BY <1>1, <1>2, <1>3

LEMMA OwedInit == Init => OwedBound
<1>. SUFFICES ASSUME Init PROVE OwedBound
  OBVIOUS
<1>1. \A b \in Blocks : ~Exists(b)
  BY DEF Init, Exists, ReportedStatus
<1>2. Owed = {}
  BY <1>1 DEF Init, Idle, Owed, Unsafe, OrderAstray, Ordering, Recording
<1>. QED  BY <1>2, FS_EmptySet DEF Init, OwedBound

LEMMA OwedBoundStep ==
  ASSUME TypeOK, OwedBound, OwedStep, mishaps' \in {mishaps, mishaps + 1}
  PROVE  OwedBound'
<1>1. /\ IsFiniteSet(Owed) /\ Cardinality(Owed) \in Nat /\ mishaps \in Nat
      /\ Cardinality(Owed) <= mishaps
  BY FS_CardinalityType DEF OwedBound, TypeOK
<1>2. CASE Owed' \subseteq Owed
  <2>1. IsFiniteSet(Owed') /\ Cardinality(Owed') <= Cardinality(Owed)
    BY <1>1, <1>2, FS_Subset
  <2>2. Cardinality(Owed') \in Nat
    BY <2>1, FS_CardinalityType
  <2>. QED  BY <1>1, <2>1, <2>2 DEF OwedBound
<1>3. ASSUME mishaps' = mishaps + 1, NEW y, Owed' \subseteq Owed \cup {y}
      PROVE  OwedBound'
  <2>1. /\ IsFiniteSet(Owed \cup {y})
        /\ Cardinality(Owed \cup {y}) \in {Cardinality(Owed), Cardinality(Owed) + 1}
    BY <1>1, FS_AddElement
  <2>2. IsFiniteSet(Owed') /\ Cardinality(Owed') <= Cardinality(Owed \cup {y})
    BY <1>3, <2>1, FS_Subset
  <2>3. Cardinality(Owed') \in Nat
    BY <2>2, FS_CardinalityType
  <2>. QED  BY <1>1, <1>3, <2>1, <2>2, <2>3 DEF OwedBound
<1>4. ASSUME NoBlock \in Owed, NEW y, Owed' \subseteq (Owed \ {NoBlock}) \cup {y}
      PROVE  OwedBound'
  <2>. DEFINE X == Owed \ {NoBlock}
  <2>1. IsFiniteSet(X) /\ Cardinality(X) = Cardinality(Owed) - 1
    BY <1>1, <1>4, FS_RemoveElement
  <2>2. /\ IsFiniteSet(X \cup {y})
        /\ Cardinality(X \cup {y}) \in {Cardinality(X), Cardinality(X) + 1}
    BY <2>1, FS_AddElement
  <2>3. IsFiniteSet(Owed') /\ Cardinality(Owed') <= Cardinality(X \cup {y})
    BY <1>4, <2>2, FS_Subset
  <2>4. Cardinality(Owed') \in Nat
    BY <2>3, FS_CardinalityType
  <2>. HIDE DEF X
  <2>. QED  BY <1>1, <2>1, <2>2, <2>3, <2>4 DEF OwedBound
<1>. QED  BY <1>2, <1>3, <1>4 DEF OwedStep

LEMMA OwedInvariance == Spec => [](TypeOK /\ VersionsInv /\ OwedBound)
<1>1. TypeOK /\ VersionsInv /\ OwedBound /\ [Next]_vars =>
        (TypeOK /\ VersionsInv /\ OwedBound)'
  <2>. SUFFICES ASSUME TypeOK, VersionsInv, OwedBound, [Next]_vars PROVE OwedBound'
    BY TypeStep, VersionsStep
  <2>1. OwedStep
    BY ReconcileOwed, ExchangeOwed, PatchOwed, OtherOwed DEF Next
  <2>. QED  BY <2>1, MishapsCount, OwedBoundStep
<1>. QED  BY <1>1, TypeInit, VersionsInit, OwedInit, PTL DEF Spec

(* What mishaps may cost, now or later, is bounded by their number: blocks *)
(* without a complete record that will stay, and an order that will take   *)
(* another block off record.                                               *)
THEOREM OwedHolds == Spec => []OwedBound
BY OwedInvariance, PTL

LEMMA LeakedWithin ==
  ASSUME OwedBound, mishaps \in Nat
  PROVE  IsFiniteSet(Leaked) /\ Cardinality(Leaked) \in Nat /\ Cardinality(Leaked) <= mishaps
<1>1. Leaked \subseteq Owed
  BY DEF Leaked, Owed, Unsafe, Safe
<1>2. IsFiniteSet(Leaked) /\ Cardinality(Leaked) <= Cardinality(Owed)
  BY <1>1, FS_Subset DEF OwedBound
<1>3. Cardinality(Leaked) \in Nat /\ Cardinality(Owed) \in Nat
  BY <1>2, FS_CardinalityType DEF OwedBound
<1>. QED  BY <1>2, <1>3 DEF OwedBound

(* Whatever is interleaved, a mishap costs at most one IP block: no panic, *)
(* lost answer, crash or outdated read is multiplied by retries.           *)
THEOREM BlockLeaksAreBounded == Spec => []BlockLeakBound
<1>1. TypeOK /\ OwedBound => BlockLeakBound
  BY LeakedWithin DEF TypeOK, BlockLeakBound
<1>. QED  BY <1>1, OwedInvariance, PTL

(* Without mishaps no block is lost. *)
LEMMA NothingLeaks == Spec => [](mishaps = 0 => Leaked = {})
<1>1. TypeOK /\ OwedBound => (mishaps = 0 => Leaked = {})
  <2>. SUFFICES ASSUME TypeOK, OwedBound, mishaps = 0 PROVE Leaked = {}
    OBVIOUS
  <2>1. IsFiniteSet(Leaked) /\ Cardinality(Leaked) = 0
    BY LeakedWithin DEF TypeOK
  <2>. QED  BY <2>1, FS_EmptySet
<1>. QED  BY <1>1, OwedInvariance, PTL

=============================================================================
