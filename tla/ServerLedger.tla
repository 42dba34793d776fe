---------------------------- MODULE ServerLedger ----------------------------
(***************************************************************************)
(* What the BMCMachine controller promises whoever pays for the servers,   *)
(* without its caches, patches and retries: a machine is given a server    *)
(* once, it is given another one only at the price of a fault, and a server*)
(* that runs is on record unless a fault took it off.                      *)
(***************************************************************************)
EXTENDS Naturals, FiniteSets

CONSTANTS
  Servers,   \* servers that BMC may build
  Machines,  \* machines that servers are built for
  NoMachine  \* no machine

VARIABLES
  phase,   \* what has become of each server
  owner,   \* the machine that it was built for
  faults   \* faults so far

(* A held server is on record; nobody knows of a lost one; both run.       *)
Phase == {"unborn", "held", "lost", "gone"}

RunningFor(m) == {s \in Servers : phase[s] \in {"held", "lost"} /\ owner[s] = m}

Lost == {s \in Servers : phase[s] = "lost"}

LedgerType ==
  /\ phase \in [Servers -> Phase]
  /\ owner \in [Servers -> Machines \cup {NoMachine}]
  /\ faults \in Nat

Init ==
  /\ phase = [s \in Servers |-> "unborn"]
  /\ owner = [s \in Servers |-> NoMachine]
  /\ faults = 0

(* Server s is built for m; all the servers m still has are due to faults. *)
Order(s, m) ==
  /\ phase[s] = "unborn"
  /\ Cardinality(RunningFor(m)) <= faults'
  /\ \E p \in {"held", "lost"} : phase' = [phase EXCEPT ![s] = p]
  /\ owner' = [owner EXCEPT ![s] = m]

(* The record of s gets lost. It is never found again. *)
Lose(s) ==
  /\ phase[s] = "held"
  /\ phase' = [phase EXCEPT ![s] = "lost"]
  /\ UNCHANGED owner

(* Server s is deprovisioned, by the controller or by somebody else. *)
End(s) ==
  /\ phase[s] \in {"held", "lost"}
  /\ phase' = [phase EXCEPT ![s] = "gone"]
  /\ UNCHANGED owner

(* A fault may come with any step, and alone.                              *)
Fault == faults' = faults + 1

(* There is at most one lost server per fault. *)
Next ==
  /\ Fault \/ UNCHANGED faults
  /\ \/ UNCHANGED <<phase, owner>>
     \/ /\ \E s \in Servers : Lose(s) \/ End(s) \/ \E m \in Machines : Order(s, m)
        /\ Cardinality(Lost') <= faults'

Spec == Init /\ [][Next]_<<phase, owner, faults>>

-----------------------------------------------------------------------------
(* What a machine costs: one server, and one more for every fault. *)
CostBound == \A m \in Machines : Cardinality(RunningFor(m)) <= 1 + faults

(* That set is finite however many servers BMC has, which makes it an      *)
(* inductive invariant.                                                    *)
CostInv == CostBound /\ \A m \in Machines : IsFiniteSet(RunningFor(m))
=============================================================================
