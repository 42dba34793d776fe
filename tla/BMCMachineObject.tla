-------------------------- MODULE BMCMachineObject --------------------------
(***************************************************************************)
(* The BMCMachine custom resource and the operations that the machine      *)
(* controller performs on a copy of it (controllers/closures.go), together *)
(* with the merge patch that writes such a copy back to the API server.    *)
(*                                                                         *)
(* A BMCMachine is a record with the fields on which the control flow of   *)
(* the controller, or a property of this project, depends:                 *)
(*                                                                         *)
(*   live      the object exists in the API server                         *)
(*   deleting  metadata.deletionTimestamp is set                           *)
(*   fini      metadata.finalizers holds MachineFinalizer                  *)
(*   annotated metadata.annotations is not nil                             *)
(*   id        the server_id annotation (NoServer: absent)                 *)
(*   pid       spec.providerID (NoProvider: nil)                           *)
(*   st        status.status, the textual BMC status                       *)
(*   ready     status.ready                                                *)
(*   failure   what status.failureReason and failureMessage report         *)
(*   nodeRef   status.nodeRef is set                                       *)
(*                                                                         *)
(* Addresses, hardware details (cpu, ram, storage) and event texts are left*)
(* out: no branch of the controller depends on them.                       *)
(***************************************************************************)
EXTENDS Naturals

CONSTANTS
  Servers,    \* identifiers that BMC may give to servers
  NoServer    \* the empty identifier

ASSUME NoServerAssumption == NoServer \notin Servers

ServerID == Servers \cup {NoServer}

(* The pointer spec.providerID: nil, or "bmc://servers/" followed by an id. *)
NoProvider == <<>>
ProviderURL(s) == <<"bmc://servers/", s>>
ProviderID == {NoProvider} \cup {ProviderURL(s) : s \in Servers}

(* What BMC reports of a server. The controller tells only powered-on and  *)
(* error apart from the rest ("other": creating, powered-off, rebooting).  *)
ReportedStatus == {"other", "powered-on", "error"}

(* The statuses that the controller stores besides those BMC reports. *)
OwnStatus == {"", "stale", "orphaned", "irreconcilable"}

MachineStatus == ReportedStatus \cup OwnStatus

(* No failure, a create that was refused for good (400, 401, 403), or any  *)
(* other: a conflict on create, a rejected poll, a server in error.        *)
Failure == {"none", "refused", "failed"}

Object == [live : BOOLEAN, deleting : BOOLEAN, fini : BOOLEAN,
           annotated : BOOLEAN, id : ServerID, pid : ProviderID, st : MachineStatus,
           ready : BOOLEAN, failure : Failure, nodeRef : BOOLEAN]

(* A BMCMachine as the Cluster API core creates it from the template. *)
NewObject == [live |-> TRUE, deleting |-> FALSE, fini |-> FALSE,
              annotated |-> TRUE, id |-> NoServer, pid |-> NoProvider, st |-> "",
              ready |-> FALSE, failure |-> "none", nodeRef |-> FALSE]

(* A BMCMachine that somebody wrote without any annotation. *)
BareObject == [NewObject EXCEPT !.annotated = FALSE]

(* What a Get returns for an object that no longer exists. *)
NotFound == [NewObject EXCEPT !.live = FALSE]

-----------------------------------------------------------------------------
(* Mutators of closures.go; each returns the changed copy. A definition    *)
(* whose name starts with Slip is a plausible mistake in the definition    *)
(* that follows it; no specification uses it.                              *)

SlipAddFini(o) == o
AddFini(o)     == [o EXCEPT !.fini = TRUE]

SlipRemoveFini(o) == o
RemoveFini(o)     == [o EXCEPT !.fini = FALSE]

SetBMCStatus(o, st) == [o EXCEPT !.st = st]

SetIrreconcilable(o, why) ==
  [o EXCEPT !.failure = why, !.st = "irreconcilable"]

(* The handlers guard the two calls above: nothing is written again when   *)
(* the status is already the one to be set.                                *)
IsStatusEqual(o, st) == o.st = st

MarkStatus(o, st) == IF IsStatusEqual(o, st) THEN o ELSE SetBMCStatus(o, st)

MarkIrreconcilable(o, why) ==
  IF IsStatusEqual(o, "irreconcilable") THEN o ELSE SetIrreconcilable(o, why)

(* SetStatus replaces the whole status by one decoded from BMC's response, *)
(* in which the Cluster API fields are all absent; MergeBMCStatusProperties*)
(* copies only what BMC reports.                                           *)
SetStatus(o, reported) ==
  [o EXCEPT !.st = reported, !.ready = FALSE, !.failure = "none",
            !.nodeRef = FALSE]

MergeBMCStatusProperties(o, reported) == [o EXCEPT !.st = reported]

SetReady(o) == [o EXCEPT !.ready = TRUE]

(* SetMachineID assigns spec.providerID and then the annotation. Writing   *)
(* to a nil annotations map panics between the two.                        *)
SlipSetProviderID(o, s) == [o EXCEPT !.pid = s]
SetProviderID(o, s)     == [o EXCEPT !.pid = ProviderURL(s)]

SlipSetMachineID(o, s) == [o EXCEPT !.id = s]
SetMachineID(o, s)     == [SetProviderID(o, s) EXCEPT !.id = s]

-----------------------------------------------------------------------------
(* The deferred PatchHelper.Patch compares the copy with the object as it  *)
(* was read and sends a JSON merge patch of the fields that differ, first  *)
(* for metadata and spec and then, in a request of its own, for status.    *)
(* There is no optimistic lock: a field the copy did not change keeps the  *)
(* value it has in the API server, whatever was read.                      *)

Merge(stored, base, new) == IF new = base THEN stored ELSE new

MetaChanged(base, obj) ==
  \/ obj.fini # base.fini
  \/ obj.id # base.id
  \/ obj.pid # base.pid

StatusChanged(base, obj) ==
  \/ obj.st # base.st
  \/ obj.ready # base.ready
  \/ obj.failure # base.failure
  \/ obj.nodeRef # base.nodeRef

MergeMeta(stored, base, obj) ==
  [stored EXCEPT !.fini = Merge(@, base.fini, obj.fini),
                 !.id   = Merge(@, base.id, obj.id),
                 !.pid  = Merge(@, base.pid, obj.pid)]

MergeStatus(stored, base, obj) ==
  [stored EXCEPT !.st      = Merge(@, base.st, obj.st),
                 !.ready   = Merge(@, base.ready, obj.ready),
                 !.failure = Merge(@, base.failure, obj.failure),
                 !.nodeRef = Merge(@, base.nodeRef, obj.nodeRef)]

(* The API server removes an object marked deleted once no finalizer is    *)
(* left on it.                                                             *)
Collected(o) == IF o.deleting /\ ~o.fini THEN NotFound ELSE o

=============================================================================
