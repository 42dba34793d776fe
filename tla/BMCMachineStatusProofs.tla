----------------------- MODULE BMCMachineStatusProofs -----------------------
(***************************************************************************)
(* Theorems about what the objects of the BMCMachine controller say of the *)
(* servers, for any number of machines, servers and mishaps: the facts that*)
(* no fault disturbs (StatusInv), and what holds in a time without mishaps *)
(* (CleanInv).                                                             *)
(***************************************************************************)
EXTENDS BMCMachineProofs

-----------------------------------------------------------------------------
(* What the steps do, in terms of versions. *)

SameReport(o, base) ==
  o.st = base.st /\ o.ready = base.ready /\ o.failure = base.failure

(* The four ways of going on after the cache was read.                     *)
Decided(m) ==
  \/ /\ wk'.pc = "create" /\ cache[m].id = NoServer /\ wk'.obj.fini
     /\ MishapIf(~api[m].live \/ StaleID(m))
  \/ wk'.pc = "sync" /\ cache[m].id # NoServer /\ wk'.obj.fini /\ NoMishap
  \/ wk'.pc = "patchMeta" /\ (wk'.obj.fini \/ ~cache[m].fini) /\ NoMishap
  \/ /\ wk'.pc \in {"delete", "patchMeta"}
     /\ wk'.pc = "delete" => cache[m].id # NoServer
     /\ wk'.pc = "patchMeta" => cache[m].id = NoServer \/ cache[m].st = "orphaned"
     /\ MishapIf(api[m].live /\ StaleID(m))

LEMMA ReconcileEffect ==
  ASSUME TypeInv, NEW m \in Machines, NEW g, ReconcileAt(m, g)
  PROVE  /\ wk.pc = "idle" /\ UNCHANGED <<api, cache, bmc, node>>
         /\ \/ UNCHANGED wk /\ NoMishap
            \/ /\ wk'.m = m /\ wk'.base = cache[m]
               /\ SameIDs(wk'.obj, cache[m]) /\ SameReport(wk'.obj, cache[m])
               /\ Decided(m)
<1>. /\ cache[m] \in Object
     /\ \A o \in {cache[m], AddFini(cache[m]), RemoveFini(cache[m])} :
          SameIDs(o, cache[m]) /\ SameReport(o, cache[m])
     /\ AddFini(cache[m]).fini
     /\ RemoveFini(cache[m]).id = cache[m].id /\ RemoveFini(cache[m]).st = cache[m].st
  BY DEF TypeInv, TypeOK, Object, AddFini, RemoveFini, SameIDs, SameReport
<1>1. /\ wk.pc = "idle" /\ UNCHANGED <<api, cache, bmc, node>>
  BY DEF ReconcileAt, ReconcileNothing, ReconcileDelete, ReconcileSuspended,
         ReconcileWaiting, ReconcileCreate, ReconcileSynchronize, ReconcileLive,
         Reconcilable, Take, kube, cloud
<1>2. CASE ReconcileNothing(m, g)
  BY <1>1, <1>2 DEF ReconcileNothing
<1>3. CASE ReconcileDelete(m, g)
  BY <1>1, <1>3 DEF ReconcileDelete, Proceed, HasServerToDeprovision, IsStatusEqual,
                    Decided
<1>4. CASE ReconcileSuspended(m, g)
  BY <1>1, <1>4 DEF ReconcileSuspended, Proceed, Decided
<1>5. CASE ReconcileWaiting(m, g)
  BY <1>1, <1>5 DEF ReconcileWaiting, Proceed, Decided
<1>6. CASE ReconcileCreate(m, g)
  BY <1>1, <1>6 DEF ReconcileCreate, Proceed, NeedsServer, Decided
<1>7. CASE ReconcileSynchronize(m, g)
  BY <1>1, <1>7 DEF ReconcileSynchronize, Proceed, NeedsServer, Decided
<1>. QED  BY <1>2, <1>3, <1>4, <1>5, <1>6, <1>7 DEF ReconcileAt

(* The four outcomes of an exchange: BMC builds a server and the answer is *)
(* used or not; it does nothing; it deprovisions the server.               *)
ServerOrdered(s) ==
  /\ wk.pc = "create" /\ bmc[s].st = "unborn"
  /\ bmc' = [bmc EXCEPT ![s].owner = wk.m, ![s].st = "other"]
  /\ UNCHANGED node
  /\ wk'.obj.fini = wk.obj.fini
  /\ wk'.obj.st # "orphaned" \/ wk'.obj.st = wk.obj.st
  /\ wk'.obj.ready => wk.obj.ready

Recorded(s) ==
  ServerOrdered(s) /\ wk'.obj.id = s /\ wk'.obj.pid = ProviderURL(s)
                   /\ wk'.obj.st = "other" /\ NoMishap

Forgotten(s) == ServerOrdered(s) /\ wk'.obj.id = wk.obj.id /\ Mishap

Answered ==
  /\ UNCHANGED bmc
  /\ SameIDs(wk'.obj, wk.obj) /\ wk'.obj.fini = wk.obj.fini
  /\ wk'.obj.st = "orphaned" =>
       \/ wk.obj.st = "orphaned"
       \/ wk.pc \in {"sync", "delete"} /\ MishapIf(Running(wk.obj.id))
  /\ wk'.obj.ready =>
       \/ wk.obj.ready
       \/ wk.pc = "sync" /\ bmc[wk.obj.id].st = "powered-on"
  /\ wk.obj.failure # "none" => wk'.obj.failure # "none"
  /\ \/ UNCHANGED node
     \/ /\ wk.pc = "sync"
        /\ node' = [node EXCEPT ![wk.m] = IF @ = NoProvider THEN wk.obj.pid ELSE @]
  /\ IF wk.pc = "delete" THEN MishapIf(Running(wk.obj.id)) ELSE NoMishap \/ Mishap

Ended ==
  /\ wk.pc = "delete" /\ Running(wk.obj.id)
  /\ bmc' = [bmc EXCEPT ![wk.obj.id].st = "gone"]
  /\ wk'.obj = wk.obj /\ UNCHANGED node /\ NoMishap

LEMMA CreateEffect ==
  ASSUME TypeInv, NEW s \in Servers,
         CreateAccepted(s) \/ CreatePanics(s) \/ CreateUnanswered(s)
  PROVE  Recorded(s) \/ Forgotten(s)
<1>. wk \in Worker /\ wk.obj \in Object
  BY DEF TypeInv, TypeOK, Worker
<1>1. CASE CreateAccepted(s)
  <2>. DEFINE o == SetMachineID(SetStatus(wk.obj, "other"), s)
  <2>1. /\ o.fini = wk.obj.fini /\ o.st = "other" /\ ~o.ready
        /\ o.id = s /\ o.pid = ProviderURL(s)
    BY DEF SetMachineID, SetProviderID, SetStatus, Object
  <2>. HIDE DEF o
  <2>2. wk'.obj = o
    BY <1>1 DEF CreateAccepted, Return, Worker, o
  <2>. QED
    BY <1>1, <2>1, <2>2
       DEF CreateAccepted, Calling, Provision, Recorded, ServerOrdered
<1>2. CASE CreatePanics(s)
  <2>. DEFINE o == SetProviderID(SetStatus(wk.obj, "other"), s)
  <2>1. /\ o.fini = wk.obj.fini /\ o.st = "other" /\ ~o.ready /\ o.id = wk.obj.id
    BY DEF SetProviderID, SetStatus, Object
  <2>. HIDE DEF o
  <2>2. wk'.obj = o
    BY <1>2 DEF CreatePanics, Return, Worker, o
  <2>. QED
    BY <1>2, <2>1, <2>2
       DEF CreatePanics, Calling, Provision, Forgotten, ServerOrdered
<1>3. CASE CreateUnanswered(s)
  BY <1>3 DEF CreateUnanswered, Return, Worker, Calling, Provision, Forgotten,
              ServerOrdered
<1>. QED  BY <1>1, <1>2, <1>3

LEMMA StatusReports ==
  ASSUME NEW o \in Object, NEW st \in MachineStatus, NEW why \in Failure \ {"none"},
         NEW c \in {MarkStatus(o, st), SetBMCStatus(o, st), MarkIrreconcilable(o, why)}
  PROVE  /\ SameIDs(c, o) /\ c.fini = o.fini /\ c.ready = o.ready
         /\ c.st \in {st, "irreconcilable"}
         /\ o.failure # "none" => c.failure # "none"
BY DEF Object, MarkStatus, SetBMCStatus, MarkIrreconcilable, SetIrreconcilable,
       IsStatusEqual, SameIDs

LEMMA SynchronizeReports ==
  ASSUME NEW o \in Object, NEW st \in ReportedStatus
  PROVE  LET c == EnsureReady(ApplyDelta(o, st), st)
         IN  /\ c.st \in {st, "irreconcilable"}
             /\ c.ready => o.ready \/ st = "powered-on"
             /\ o.failure # "none" => c.failure # "none"
<1>. DEFINE merged == MergeBMCStatusProperties(o, st)
            d == ApplyDelta(o, st)
<1>. /\ merged \in Object /\ merged.st = st /\ merged.ready = o.ready
     /\ merged.failure = o.failure
  BY DEF MergeBMCStatusProperties, Object, MachineStatus
<1>1. /\ d \in Object /\ d.st \in {st, "irreconcilable"}
      /\ d.ready => o.ready \/ st = "powered-on"
      /\ o.failure # "none" => d.failure # "none"
  <2>1. CASE o.st = st
    BY <2>1 DEF ApplyDelta, IsStatusEqual
  <2>2. CASE o.st # st /\ st = "powered-on"
    <3>1. d = SetReady(merged)
      BY <2>2 DEF ApplyDelta, IsStatusEqual
    <3>. QED  BY <2>2, <3>1 DEF SetReady, Object
  <2>3. CASE o.st # st /\ st = "error"
    <3>1. d = SetIrreconcilable(merged, "failed")
      BY <2>3 DEF ApplyDelta, IsStatusEqual
    <3>. QED
      BY <2>3, <3>1 DEF SetIrreconcilable, Object, MachineStatus, OwnStatus, Failure
  <2>4. CASE o.st # st /\ st \notin {"powered-on", "error"}
    BY <2>4 DEF ApplyDelta, IsStatusEqual
  <2>. QED  BY <2>1, <2>2, <2>3, <2>4
<1>. HIDE DEF d
<1>2. CASE st = "powered-on" /\ ~d.ready
  <2>1. EnsureReady(d, st) = SetReady(MergeBMCStatusProperties(d, st))
    BY <1>2 DEF EnsureReady
  <2>. QED
    BY <1>1, <1>2, <2>1 DEF SetReady, MergeBMCStatusProperties, Object, d
<1>3. CASE ~(st = "powered-on" /\ ~d.ready)
  <2>1. EnsureReady(d, st) = d
    BY <1>3 DEF EnsureReady
  <2>. QED  BY <1>1, <2>1 DEF d
<1>. QED  BY <1>2, <1>3

LEMMA ExchangeEffect ==
  ASSUME TypeInv, Exchange
  PROVE  /\ wk.pc \in {"create", "sync", "delete"} /\ UNCHANGED <<api, cache>>
         /\ wk'.pc = "patchMeta" /\ wk'.m = wk.m /\ wk'.base = wk.base
         /\ \/ \E s \in Servers : Recorded(s) \/ Forgotten(s)
            \/ Answered \/ Ended
<1>. /\ wk \in Worker /\ wk.obj \in Object /\ wk.obj.st \in MachineStatus
     /\ "refused" \in Failure \ {"none"} /\ "failed" \in Failure \ {"none"}
     /\ {"stale", "orphaned", "irreconcilable"} \subseteq MachineStatus
  BY DEF TypeInv, TypeOK, Worker, Object, Failure, MachineStatus, OwnStatus
<1>1. /\ wk.pc \in {"create", "sync", "delete"} /\ UNCHANGED <<api, cache>>
      /\ wk'.pc = "patchMeta" /\ wk'.m = wk.m /\ wk'.base = wk.base
  BY DEF Exchange, CreateAccepted, CreatePanics, CreateUnanswered, CreateRefused,
         CreateDeferred, SynchronizeAnswered, SynchronizeFailed,
         SynchronizeRejected, SynchronizeDenied, SynchronizeUnexpected,
         DeprovisionAccepted, DeprovisionFailed, Calling, Return, kube, Worker
<1>. SUFFICES (\E s \in Servers : Recorded(s) \/ Forgotten(s)) \/ Answered \/ Ended
  BY <1>1
<1>2. ASSUME NEW o, NEW again, Return(o, again) PROVE wk'.obj = o
  BY <1>2 DEF Return, Worker
<1>3. ASSUME NEW s \in Servers,
             CreateAccepted(s) \/ CreatePanics(s) \/ CreateUnanswered(s)
      PROVE  Recorded(s) \/ Forgotten(s)
  BY <1>3, CreateEffect
<1>4. SameIDs(wk.obj, wk.obj)
  BY DEF SameIDs
<1>5. CASE CreateRefused
  <2>1. PICK why \in Failure \ {"none"} : wk'.obj = MarkIrreconcilable(wk.obj, why)
    BY <1>2, <1>5 DEF CreateRefused
  <2>2. /\ SameIDs(wk'.obj, wk.obj) /\ wk'.obj.fini = wk.obj.fini
        /\ wk'.obj.ready = wk.obj.ready /\ wk'.obj.st = "irreconcilable"
        /\ wk.obj.failure # "none" => wk'.obj.failure # "none"
    BY <2>1, StatusReports
  <2>. QED  BY <1>5, <2>2 DEF CreateRefused, Calling, cloud, Answered
<1>6. CASE CreateDeferred \/ SynchronizeUnexpected
  BY <1>2, <1>4, <1>6 DEF CreateDeferred, SynchronizeUnexpected, Calling, cloud, Answered
<1>7. CASE SynchronizeAnswered
  <2>. DEFINE r == bmc[wk.obj.id].st
              o == EnsureReady(ApplyDelta(wk.obj, r), r)
  <2>1. r \in ReportedStatus
    BY <1>7 DEF SynchronizeAnswered, Running
  <2>2. /\ o \in Object /\ SameIDs(o, wk.obj) /\ o.fini = wk.obj.fini
        /\ o.st \in {r, "irreconcilable"}
        /\ o.ready => wk.obj.ready \/ r = "powered-on"
        /\ wk.obj.failure # "none" => o.failure # "none"
    BY <2>1, SynchronizeType, SynchronizeKeepsIDs, SynchronizeReports
  <2>3. /\ wk.pc = "sync" /\ UNCHANGED bmc /\ NoMishap
        /\ wk'.obj = o \/ wk'.obj = SetNodeRef(o)
        /\ UNCHANGED node
             \/ node' = [node EXCEPT ![wk.m] = IF @ = NoProvider THEN o.pid ELSE @]
    BY <1>2, <1>7 DEF SynchronizeAnswered, Calling, NodePatched, NodePatchFails
  <2>4. r # "orphaned"
    BY <2>1 DEF ReportedStatus
  <2>. HIDE DEF r, o
  <2>5. /\ SameIDs(wk'.obj, wk.obj) /\ wk'.obj.fini = wk.obj.fini
        /\ wk'.obj.st = o.st /\ wk'.obj.ready = o.ready
        /\ wk'.obj.failure = o.failure /\ o.pid = wk.obj.pid
    BY <2>2, <2>3 DEF SetNodeRef, Object, SameIDs
  <2>. QED
    BY <2>2, <2>3, <2>4, <2>5 DEF Answered, r
<1>8. CASE SynchronizeFailed \/ SynchronizeRejected
  <2>1. \/ wk'.obj = MarkStatus(wk.obj, "stale")
        \/ wk'.obj = MarkIrreconcilable(wk.obj, "failed")
    BY <1>2, <1>8 DEF SynchronizeFailed, SynchronizeRejected
  <2>2. /\ SameIDs(wk'.obj, wk.obj) /\ wk'.obj.fini = wk.obj.fini
        /\ wk'.obj.ready = wk.obj.ready /\ wk'.obj.st # "orphaned"
        /\ wk.obj.failure # "none" => wk'.obj.failure # "none"
    BY <2>1, StatusReports
  <2>. QED
    BY <1>8, <2>2 DEF SynchronizeFailed, SynchronizeRejected, Calling, cloud, Answered
<1>9. CASE SynchronizeDenied
  <2>1. wk'.obj = MarkStatus(wk.obj, "orphaned")
    BY <1>2, <1>9 DEF SynchronizeDenied
  <2>2. /\ SameIDs(wk'.obj, wk.obj) /\ wk'.obj.fini = wk.obj.fini
        /\ wk'.obj.ready = wk.obj.ready
        /\ wk.obj.failure # "none" => wk'.obj.failure # "none"
    BY <2>1, StatusReports
  <2>3. NoMishap \/ Mishap
    BY <1>9 DEF SynchronizeDenied, MishapIf
  <2>. QED  BY <1>9, <2>2, <2>3 DEF SynchronizeDenied, Calling, cloud, Answered
<1>10. CASE DeprovisionAccepted
  BY <1>2, <1>10 DEF DeprovisionAccepted, Deprovision, Calling, Ended
<1>11. CASE DeprovisionFailed
  <2>1. PICK st \in MachineStatus : wk'.obj = SetBMCStatus(wk.obj, st)
    BY <1>2, <1>11 DEF DeprovisionFailed
  <2>2. /\ SameIDs(wk'.obj, wk.obj) /\ wk'.obj.fini = wk.obj.fini
        /\ wk'.obj.ready = wk.obj.ready
        /\ wk.obj.failure # "none" => wk'.obj.failure # "none"
    BY <2>1, StatusReports
  <2>. QED  BY <1>11, <2>2 DEF DeprovisionFailed, Calling, cloud, Answered
<1>. QED
  BY <1>3, <1>5, <1>6, <1>7, <1>8, <1>9, <1>10, <1>11 DEF Exchange

(* What a patch makes of the object that it meets: it goes, or it keeps its*)
(* ids, or it gets those of a new server.                                  *)
MetaMerged(stored, base, obj, new) ==
  \/ new = NotFound /\ base.fini /\ ~obj.fini /\ stored.deleting
  \/ /\ new.live /\ new.deleting = stored.deleting /\ (new.deleting => new.fini)
     /\ SameReport(new, stored)
     /\ \/ /\ obj.id = base.id /\ new.id = stored.id
           /\ obj.pid = base.pid => new.pid = stored.pid
        \/ /\ base.id = NoServer /\ obj.id # NoServer
           /\ new.id = obj.id /\ new.pid = obj.pid

StatusMerged(stored, base, obj, new) ==
  /\ SameIDs(new, stored) /\ stored.live /\ new.live
  /\ new.deleting = stored.deleting /\ new.fini = stored.fini
  /\ new.st = stored.st \/ new.st = obj.st
  /\ new.ready = stored.ready \/ new.ready = obj.ready
  /\ \/ new.failure = stored.failure
     \/ new.failure = obj.failure /\ obj.failure # base.failure

LEMMA MergeEffect ==
  ASSUME NEW stored \in Object, NEW base \in Object, NEW obj \in Object,
         stored.live, stored.deleting => stored.fini, Changes(base, obj)
  PROVE  MetaMerged(stored, base, obj, Collected(MergeMeta(stored, base, obj)))
<1>. DEFINE merged == MergeMeta(stored, base, obj)
            new == Collected(merged)
<1>1. /\ merged.live /\ merged.deleting = stored.deleting
      /\ SameReport(merged, stored)
      /\ merged.fini = Merge(stored.fini, base.fini, obj.fini)
      /\ merged.id = Merge(stored.id, base.id, obj.id)
      /\ merged.pid = Merge(stored.pid, base.pid, obj.pid)
  BY DEF MergeMeta, Object, SameReport
<1>2. new = IF merged.deleting /\ ~merged.fini THEN NotFound ELSE merged
  BY DEF Collected
<1>. HIDE DEF merged, new
<1>3. base.fini \in BOOLEAN /\ obj.fini \in BOOLEAN /\ stored.fini \in BOOLEAN
  BY DEF Object
<1>4. CASE merged.deleting /\ ~merged.fini
  <2>1. base.fini /\ ~obj.fini
    BY <1>1, <1>3, <1>4 DEF Merge
  <2>. QED  BY <1>1, <1>2, <1>4, <2>1 DEF MetaMerged, new, merged
<1>5. CASE ~(merged.deleting /\ ~merged.fini)
  <2>1. new = merged
    BY <1>2, <1>5
  <2>2. CASE obj.id = base.id
    BY <1>1, <1>5, <2>1, <2>2 DEF Merge, MetaMerged, new, merged
  <2>3. CASE obj.id # base.id
    <3>1. base.id = NoServer /\ obj.id # NoServer /\ obj.pid # base.pid
      BY <2>3 DEF Changes, SameIDs
    <3>. QED  BY <1>1, <1>5, <2>1, <3>1 DEF Merge, MetaMerged, new, merged
  <2>. QED  BY <2>2, <2>3
<1>. QED  BY <1>4, <1>5

LEMMA PatchMetaEffect ==
  ASSUME TypeInv, VersionsInv, StatusInv, PatchMeta
  PROVE  /\ wk.pc = "patchMeta" /\ wk.m \in Machines /\ WorkerVersions
         /\ wk'.pc = "patchStatus"
         /\ wk'.m = wk.m /\ wk'.base = wk.base /\ wk'.obj = wk.obj
         /\ UNCHANGED <<cache, bmc, node, mishaps>>
         /\ \A n \in Machines : n # wk.m => api'[n] = api[n]
         /\ IF api[wk.m].live
              THEN MetaMerged(api[wk.m], wk.base, wk.obj, api'[wk.m])
              ELSE api'[wk.m] = api[wk.m]
<1>1. /\ wk.pc = "patchMeta" /\ wk.m \in Machines /\ WorkerVersions
      /\ wk.base \in Object /\ wk.obj \in Object /\ api[wk.m] \in Object
      /\ api \in [Machines -> Object]
  BY DEF PatchMeta, TypeInv, TypeOK, WorkerBusy, Worker, VersionsInv
<1>2. /\ wk'.pc = "patchStatus"
      /\ wk'.m = wk.m /\ wk'.base = wk.base /\ wk'.obj = wk.obj
      /\ UNCHANGED <<cache, bmc, node, mishaps>>
  BY DEF PatchMeta, TypeInv, TypeOK, Worker, cloud
<1>3. \A n \in Machines : n # wk.m => api'[n] = api[n]
  BY <1>1 DEF PatchMeta
<1>4. CASE api[wk.m].live
  <2>1. api'[wk.m] = Collected(MergeMeta(api[wk.m], wk.base, wk.obj))
    BY <1>1, <1>4 DEF PatchMeta
  <2>2. /\ api[wk.m].deleting => api[wk.m].fini
        /\ Changes(wk.base, wk.obj)
    BY <1>1, <1>4 DEF StatusInv, WorkerVersions
  <2>. QED  BY <1>1, <1>2, <1>3, <1>4, <2>1, <2>2, MergeEffect
<1>5. CASE ~api[wk.m].live
  <2>1. api'[wk.m] = api[wk.m]
    BY <1>1, <1>5 DEF PatchMeta
  <2>. QED  BY <1>1, <1>2, <1>3, <1>5, <2>1
<1>. QED  BY <1>4, <1>5

LEMMA PatchStatusEffect ==
  ASSUME TypeInv, PatchStatus \/ PatchStatusFails
  PROVE  /\ wk.pc = "patchStatus" /\ wk'.pc = "idle" /\ wk.m \in Machines
         /\ UNCHANGED <<cache, bmc, node, mishaps>>
         /\ \A n \in Machines :
              \/ api'[n] = api[n]
              \/ n = wk.m /\ StatusMerged(api[n], wk.base, wk.obj, api'[n])
<1>1. /\ wk.pc = "patchStatus" /\ wk'.pc = "idle" /\ wk.m \in Machines
      /\ UNCHANGED <<cache, bmc, node, mishaps>>
  BY DEF PatchStatus, PatchStatusFails, Finish, Idle, kube, cloud, NoMishap,
         TypeInv, WorkerBusy
<1>2. ASSUME NEW n \in Machines, api'[n] # api[n]
      PROVE  n = wk.m /\ StatusMerged(api[n], wk.base, wk.obj, api'[n])
  <2>1. /\ n = wk.m /\ api[n] \in Object /\ api[n].live
        /\ api'[n] = MergeStatus(api[n], wk.base, wk.obj)
    BY <1>2 DEF PatchStatus, PatchStatusFails, kube, TypeInv, TypeOK
  <2>. QED  BY <2>1 DEF MergeStatus, Merge, StatusMerged, SameIDs, Object
<1>. QED  BY <1>1, <1>2

LEMMA PatchMetaFailsEffect ==
  ASSUME TypeInv, PatchMetaFails
  PROVE  /\ wk.pc = "patchMeta" /\ wk.m \in Machines
         /\ wk'.pc = "patchStatus"
         /\ wk'.m = wk.m /\ wk'.base = wk.base /\ wk'.obj = wk.obj
         /\ UNCHANGED <<api, cache, bmc, node>>
         /\ MishapIf(InFlight(wk.obj.id))
BY DEF PatchMetaFails, TypeInv, TypeOK, WorkerBusy, Worker, kube, cloud

(* What the environment does to objects and servers: the cache catches up; *)
(* a machine is deleted; a running server changes or goes.                 *)
MachineDeleted(m) ==
  /\ api[m].live /\ UNCHANGED <<cache, bmc>>
  /\ \A n \in Machines : n # m => api'[n] = api[n]
  /\ \/ /\ api'[m] = NotFound /\ ~api[m].fini
        /\ MishapIf(/\ wk.m = m
                    /\ wk.pc = "create" \/ InFlight(wk.obj.id))
     \/ /\ api'[m].live /\ api'[m].fini /\ api[m].fini /\ NoMishap
        /\ SameIDs(api'[m], api[m]) /\ SameReport(api'[m], api[m])

ServerMoves(s) ==
  /\ Running(s) /\ UNCHANGED <<api, cache, mishaps>>
  /\ \A r \in Servers : r # s => bmc'[r] = bmc[r]
  /\ bmc'[s].owner = bmc[s].owner
  /\ bmc'[s].st \in ReportedStatus \cup {"gone"}
  /\ bmc[s].on \/ bmc'[s].st = "powered-on" => bmc'[s].on

LEMMA EnvironmentEffect ==
  ASSUME TypeInv, Environment
  PROVE  /\ UNCHANGED <<wk, node>>
         /\ \/ /\ UNCHANGED <<api, bmc, mishaps>>
               /\ \A n \in Machines : cache'[n] \in {cache[n], api[n]}
            \/ \E m \in Machines : MachineDeleted(m)
            \/ \E s \in Servers : ServerMoves(s)
<1>1. UNCHANGED <<wk, node>>
  BY DEF Environment, WatchEvent, Resync, RelatedEvent, DeleteRequested,
         ServerChanges, cloud
<1>2. ASSUME NEW m \in Machines, WatchEvent(m) \/ Resync(m)
      PROVE  /\ UNCHANGED <<api, bmc, mishaps>>
             /\ \A n \in Machines : cache'[n] \in {cache[n], api[n]}
  BY <1>2 DEF WatchEvent, Resync, kube, cloud, TypeInv, TypeOK
<1>3. ASSUME NEW m \in Machines, DeleteRequested(m) PROVE MachineDeleted(m)
  <2>. DEFINE marked == [api[m] EXCEPT !.deleting = TRUE]
  <2>1. /\ marked.deleting /\ marked.fini = api[m].fini /\ marked.live
        /\ SameIDs(marked, api[m]) /\ SameReport(marked, api[m])
    BY <1>3 DEF DeleteRequested, TypeInv, TypeOK, Object, SameIDs, SameReport
  <2>2. api'[m] = IF ~api[m].fini THEN NotFound ELSE marked
    BY <1>3, <2>1 DEF DeleteRequested, Collected, TypeInv, TypeOK
  <2>. HIDE DEF marked
  <2>3. /\ api[m].live /\ UNCHANGED <<cache, bmc>>
        /\ \A n \in Machines : n # m => api'[n] = api[n]
    BY <1>3 DEF DeleteRequested, cloud, TypeInv, TypeOK
  <2>4. CASE ~api[m].fini
    BY <1>3, <2>2, <2>3, <2>4 DEF MachineDeleted, DeleteRequested, MishapIf
  <2>5. CASE api[m].fini
    BY <1>3, <2>1, <2>2, <2>3, <2>5 DEF MachineDeleted, DeleteRequested, MishapIf
  <2>. QED  BY <2>4, <2>5
<1>4. ASSUME NEW s \in Servers, ServerChanges(s) PROVE ServerMoves(s)
  <2>1. Running(s) /\ UNCHANGED <<api, cache, mishaps>> /\ bmc \in [Servers -> Server]
    BY <1>4 DEF ServerChanges, kube, TypeInv, TypeOK
  <2>2. ASSUME NEW st \in Reports,
               bmc' = [bmc EXCEPT ![s].st = st, ![s].on = @ \/ st = "powered-on"]
        PROVE  ServerMoves(s)
    <3>1. bmc' = [bmc EXCEPT ![s].st = st,
                             ![s].on = (bmc[s].on \/ st = "powered-on")]
      BY <2>1, <2>2 DEF Server
    <3>. QED  BY <2>1, <3>1, MachineAssumption DEF ServerMoves, Server
  <2>3. CASE bmc' = [bmc EXCEPT ![s].st = "gone"]
    BY <2>1, <2>3 DEF ServerMoves, Server
  <2>. QED  BY <1>4, <2>2, <2>3 DEF ServerChanges
<1>5. ASSUME NEW now, NEW woken, RelatedEvent(now, woken)
      PROVE  UNCHANGED <<api, cache, bmc, mishaps>>
  BY <1>5 DEF RelatedEvent, kube, cloud
<1>. QED  BY <1>1, <1>2, <1>3, <1>4, <1>5 DEF Environment

-----------------------------------------------------------------------------
(* The facts that no fault disturbs. *)

LEMMA FreshObject ==
  ASSUME NEW o \in {NewObject, BareObject, NotFound}
  PROVE  /\ o.id = NoServer /\ o.pid = NoProvider /\ o.st = "" /\ ~o.ready
         /\ ~o.deleting /\ o.failure = "none"
         /\ o = NotFound => ~o.live
<1>1. CASE o = NewObject
  BY <1>1 DEF NewObject, NotFound
<1>2. CASE o = BareObject
  <2>1. o = [NewObject EXCEPT !.annotated = FALSE]
    BY <1>2 DEF BareObject
  <2>. QED  BY <2>1 DEF NewObject, NotFound
<1>3. CASE o = NotFound
  BY <1>3 DEF NewObject, NotFound
<1>. QED  BY <1>1, <1>2, <1>3

LEMMA StatusInit == Init => StatusInv
<1>. SUFFICES ASSUME Init PROVE StatusInv
  OBVIOUS
<1>1. \A m \in Machines :
        /\ cache[m] = api[m] /\ ~api[m].deleting
        /\ api[m].st = "" /\ api[m].id = NoServer
  BY FreshObject DEF Init
<1>. QED  BY <1>1 DEF Init, Idle, StatusInv, Follows

LEMMA ReconcileStatus ==
  ASSUME TypeInv, StatusInv, NEW m \in Machines, NEW g, ReconcileAt(m, g)
  PROVE  StatusInv'
<1>1. wk.pc = "idle" /\ UNCHANGED <<api, cache, bmc>>
  BY ReconcileEffect
<1>2. CASE UNCHANGED wk
  BY <1>1, <1>2 DEF StatusInv, Follows
<1>3. CASE wk'.m = m /\ wk'.base = cache[m] /\ SameReport(wk'.obj, cache[m])
  BY <1>1, <1>3 DEF StatusInv, Follows, SameReport
<1>. QED  BY <1>2, <1>3, ReconcileEffect

LEMMA ExchangeStatus ==
  ASSUME TypeInv, VersionsInv, StatusInv, Exchange
  PROVE  StatusInv'
<1>1. /\ wk.pc \in {"create", "sync", "delete"} /\ UNCHANGED <<api, cache>>
      /\ wk'.m = wk.m /\ wk'.base = wk.base
      /\ bmc \in [Servers -> Server]
  BY ExchangeEffect DEF TypeInv, TypeOK
<1>2. wk.base.id = wk.obj.id /\ (wk.pc = "create" => wk.base.id = NoServer)
  BY <1>1 DEF VersionsInv, WorkerVersions, SameIDs
<1>3. /\ \A s \in Servers : bmc'[s].st = "powered-on" => bmc'[s].on
      /\ wk'.obj.st = "orphaned" => wk.base.id # NoServer
      /\ wk.base.id # NoServer /\ wk.base.failure # "none" => wk'.obj.failure # "none"
  <2>1. CASE \E s \in Servers : ServerOrdered(s)
    BY <1>1, <1>2, <2>1 DEF ServerOrdered, StatusInv, Server
  <2>2. CASE Answered
    <3>1. wk'.obj.st = "orphaned" => wk.base.id # NoServer
      BY <1>1, <1>2, <2>2, NoServerAssumption
         DEF Answered, StatusInv, TypeInv, WorkerBusy
    <3>. QED  BY <1>1, <2>2, <3>1 DEF Answered, StatusInv
  <2>3. CASE Ended
    BY <1>1, <2>3 DEF Ended, StatusInv, Server
  <2>. QED  BY <2>1, <2>2, <2>3, ExchangeEffect DEF Recorded, Forgotten
<1>. QED  BY <1>1, <1>3 DEF StatusInv, Follows

LEMMA PatchStatusInv ==
  ASSUME TypeInv, VersionsInv, StatusInv, Patch
  PROVE  StatusInv'
<1>1. CASE PatchMeta
  <2>1. /\ wk.m \in Machines /\ wk.pc = "patchMeta"
        /\ wk'.m = wk.m /\ wk'.base = wk.base /\ wk'.obj = wk.obj
        /\ UNCHANGED <<cache, bmc>>
        /\ \A n \in Machines : n # wk.m => api'[n] = api[n]
        /\ \/ api'[wk.m] = api[wk.m]
           \/ api[wk.m].live /\ MetaMerged(api[wk.m], wk.base, wk.obj, api'[wk.m])
    BY <1>1, PatchMetaEffect
  <2>2. /\ api'[wk.m].live /\ api'[wk.m].deleting => api'[wk.m].fini
        /\ api'[wk.m].st = "orphaned" => api'[wk.m].id # NoServer
        /\ api'[wk.m].live => api[wk.m].live
        /\ api'[wk.m].live /\ api[wk.m].id # NoServer => api'[wk.m].id # NoServer
    <3>1. ~NotFound.live /\ NotFound.st # "orphaned"
      BY FreshObject
    <3>2. CASE api'[wk.m] = api[wk.m]
      BY <2>1, <3>2 DEF StatusInv, Follows
    <3>3. CASE api[wk.m].live /\ MetaMerged(api[wk.m], wk.base, wk.obj, api'[wk.m])
      BY <2>1, <3>1, <3>3 DEF MetaMerged, SameReport, StatusInv, Follows
    <3>. QED  BY <2>1, <3>2, <3>3
  <2>. QED  BY <2>1, <2>2 DEF StatusInv, Follows
<1>2. CASE PatchMetaFails
  BY <1>2, PatchMetaFailsEffect DEF StatusInv, Follows
<1>3. CASE PatchStatus \/ PatchStatusFails
  <2>1. /\ wk.pc = "patchStatus" /\ wk'.pc = "idle" /\ UNCHANGED <<cache, bmc>>
        /\ \A n \in Machines :
             \/ api'[n] = api[n]
             \/ n = wk.m /\ StatusMerged(api[n], wk.base, wk.obj, api'[n])
    BY <1>3, PatchStatusEffect
  <2>2. \A n \in Machines :
          /\ api'[n].live /\ api'[n].deleting => api'[n].fini
          /\ api'[n].st = "orphaned" => api'[n].id # NoServer
          /\ api'[n].live => api[n].live
          /\ api'[n].id = api[n].id
    BY <2>1 DEF StatusMerged, SameIDs, StatusInv, Follows
  <2>. QED  BY <2>1, <2>2 DEF StatusInv, Follows
<1>. QED  BY <1>1, <1>2, <1>3 DEF Patch

LEMMA EnvironmentStatus ==
  ASSUME TypeInv, StatusInv, Environment
  PROVE  StatusInv'
<1>1. UNCHANGED wk /\ (wk.pc # "idle" => wk.m \in Machines)
  BY EnvironmentEffect DEF TypeInv, WorkerBusy
<1>2. CASE /\ UNCHANGED <<api, bmc>>
           /\ \A n \in Machines : cache'[n] \in {cache[n], api[n]}
  BY <1>1, <1>2 DEF StatusInv, Follows
<1>3. ASSUME NEW m \in Machines, MachineDeleted(m) PROVE StatusInv'
  <2>1. /\ UNCHANGED <<cache, bmc>> /\ api[m].live
        /\ \A n \in Machines : n # m => api'[n] = api[n]
        /\ \/ ~api'[m].live /\ api'[m].st # "orphaned"
           \/ api'[m].fini /\ api'[m].id = api[m].id /\ api'[m].st = api[m].st
    BY <1>3, FreshObject DEF MachineDeleted, SameIDs, SameReport
  <2>. QED  BY <1>1, <2>1 DEF StatusInv, Follows
<1>4. ASSUME NEW s \in Servers, ServerMoves(s) PROVE StatusInv'
  BY <1>1, <1>4 DEF ServerMoves, StatusInv, Follows
<1>. QED  BY <1>2, <1>3, <1>4, EnvironmentEffect

LEMMA StatusStep == TypeInv /\ VersionsInv /\ StatusInv /\ [Next]_vars => StatusInv'
<1>. SUFFICES ASSUME TypeInv, VersionsInv, StatusInv, [Next]_vars PROVE StatusInv'
  OBVIOUS
<1>1. CASE UNCHANGED vars
  BY <1>1 DEF vars, StatusInv, Follows
<1>2. CASE Crash
  BY <1>2 DEF Crash, Idle, cloud, StatusInv, Follows
<1>. QED
  BY <1>1, <1>2, ReconcileStatus, ExchangeStatus, PatchStatusInv, EnvironmentStatus
     DEF Next, Reconcile

LEMMA StatusInvariance == Spec => [](TypeInv /\ VersionsInv /\ StatusInv)
BY Invariance, StatusInit, StatusStep, PTL DEF Spec

(* Whatever faults there were: an object that is marked deleted still has  *)
(* the finalizer, only an object that names a server says orphaned, no     *)
(* outdated version knows of a server where the current one knows of none, *)
(* and a server that BMC reports powered-on has been powered on.           *)
THEOREM StatusesHold == Spec => []StatusInv
<1>1. TypeInv /\ VersionsInv /\ StatusInv => StatusInv
  OBVIOUS
<1>. QED  BY <1>1, StatusInvariance, PTL

(* A failure that was reported of a machine with a server is never taken   *)
(* back, not even by a reconcile that read an older version of it.         *)

(* A failure that was reported of a machine is never taken back by a       *)
(* reconcile that read the machine with its server, in whatever version.   *)
THEOREM FailuresAreTerminal == Spec => FailureIsTerminal
<1>. DEFINE A == \A m \in Machines :
       /\ api[m].failure # "none" /\ api'[m].live
       /\ wk.m = m => ~NeedsServer(wk.base)
       => api'[m].failure # "none"
<1>1. TypeInv /\ VersionsInv /\ StatusInv /\ [Next]_vars => [A]_vars
  <2>. SUFFICES ASSUME TypeInv, VersionsInv, StatusInv, Next,
                       NEW m \in Machines,
                       api[m].failure # "none", api'[m].live,
                       wk.m = m => ~NeedsServer(wk.base)
                PROVE  api'[m].failure # "none"
    OBVIOUS
  <2>1. CASE UNCHANGED api
    BY <2>1
  <2>2. CASE PatchMeta
    <3>1. api'[m] = api[m] \/ MetaMerged(api[m], wk.base, wk.obj, api'[m])
      BY <2>2, PatchMetaEffect
    <3>. QED  BY <3>1, FreshObject DEF MetaMerged, SameReport
  <2>3. CASE PatchStatus
    <3>1. /\ wk.pc = "patchStatus"
          /\ \/ api'[m] = api[m]
             \/ wk.m = m /\ StatusMerged(api[m], wk.base, wk.obj, api'[m])
      BY <2>3, PatchStatusEffect
    <3>. QED  BY <3>1 DEF StatusMerged, StatusInv, NeedsServer
  <2>4. CASE Environment
    <3>1. \/ UNCHANGED api
          \/ \E n \in Machines : MachineDeleted(n)
      BY <2>4, EnvironmentEffect DEF ServerMoves
    <3>. QED  BY <3>1, FreshObject DEF MachineDeleted, SameReport
  <2>5. CASE PatchMetaFails \/ PatchStatusFails \/ Crash
    BY <2>5 DEF PatchMetaFails, PatchStatusFails, Crash, kube
  <2>. QED
    BY <2>1, <2>2, <2>3, <2>4, <2>5, ReconcileEffect, ExchangeEffect
       DEF Next, Reconcile, Patch
<1>2. Spec => [][A]_vars
  BY <1>1, StatusInvariance, PTL DEF Spec
<1>. QED  BY <1>2 DEF FailureIsTerminal

=============================================================================
