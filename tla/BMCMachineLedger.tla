-------------------------- MODULE BMCMachineLedger --------------------------
(***************************************************************************)
(* The BMCMachine controller implements ServerLedger: the record of a      *)
(* server is the annotation of its BMCMachine or the working copy of the   *)
(* reconcile that is about to write it, the faults are the mishaps.        *)
(***************************************************************************)
EXTENDS BMCMachine

LedgerPhase(s) ==
  IF ~Running(s) THEN bmc[s].st
  ELSE IF Tracked(s) \/ InFlight(s) THEN "held" ELSE "lost"

Ledger == INSTANCE ServerLedger
  WITH phase  <- [s \in Servers |-> LedgerPhase(s)],
       owner  <- [s \in Servers |-> bmc[s].owner],
       faults <- mishaps

(* Every step of the controller is a step of the ledger or changes nothing *)
(* in it: no interleaving of reconciles, patches, retries, crashes and     *)
(* outdated reads orders a second server, forgets one or records one for   *)
(* another machine, except for one per mishap.                             *)
KeepsLedger == Ledger!Spec

(* What a machine costs: whatever goes wrong, it never has more running    *)
(* servers, lost ones included, than one plus the mishaps so far.          *)
CostBound == Ledger!CostBound

-----------------------------------------------------------------------------
(* Why a mishap costs one server and not more. What a mishap may cost is   *)
(* owed from then on: a server that is lost, a machine whose server will be*)
(* lost if its finalizer goes, or the order that the worker is placing.    *)

(* Version o lets the machine's server go unnoticed: it says orphaned, or  *)
(* names another server, one whose poll will say so.                       *)
Misleading(m, o) ==
  \/ o.st = "orphaned"
  \/ o.id # NoServer /\ o.id # api[m].id /\ ~Running(o.id)

(* The worker removes the finalizer of m, and not because of m's server.   *)
Discarding(m) ==
  \/ wk.pc = "delete" /\ wk.obj.id # api[m].id
  \/ wk.pc = "patchMeta" /\ wk.base.fini /\ ~wk.obj.fini

Endangered(m) ==
  /\ api[m].live /\ api[m].id # NoServer /\ Running(api[m].id)
  /\ \/ Misleading(m, api[m]) \/ Misleading(m, cache[m])
     \/ /\ wk.pc # "idle" /\ wk.m = m
        /\ \/ Misleading(m, wk.base) \/ wk.obj.st = "orphaned"
           \/ Discarding(m)

(* The order is for an object that is gone or has a server already.        *)
OrderAstray == Ordering /\ ~(api[wk.m].live /\ api[wk.m].id = NoServer)

Owed ==
  {<<"server", s>> : s \in Leaked}
    \cup {<<"machine", m>> : m \in {n \in Machines : Endangered(n)}}
    \cup (IF OrderAstray THEN {<<"order", wk.m>>} ELSE {})

(* The new server that the worker is about to record is on no record yet.  *)
FreshOrder ==
  wk.pc = "patchMeta" /\ wk.obj.id # wk.base.id =>
    \A m \in Machines : api[m].id # wk.obj.id /\ cache[m].id # wk.obj.id

(* No more is owed than there were mishaps: the inductive invariant behind *)
(* LeakBound and KeepsLedger.                                              *)
OwedBound ==
  /\ FreshOrder
  /\ IsFiniteSet(Owed)
  /\ Cardinality(Owed) <= mishaps
=============================================================================
