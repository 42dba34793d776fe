------------------------- MODULE ServerLedgerProofs -------------------------
(***************************************************************************)
(* What the ledger itself guarantees, whoever keeps it and however many    *)
(* servers there are.                                                      *)
(***************************************************************************)
EXTENDS ServerLedger, FiniteSetTheorems, TLAPS

LEMMA LedgerInit == Init => LedgerType /\ CostInv
<1>. SUFFICES ASSUME Init PROVE LedgerType /\ CostInv
  OBVIOUS
<1>1. \A m \in Machines : RunningFor(m) = {}
  BY DEF Init, RunningFor
<1>. QED  BY <1>1, FS_EmptySet DEF Init, LedgerType, Phase, CostInv, CostBound

(* An order adds one server to those of a machine that has no more of them *)
(* than there were faults; nothing else adds any.                          *)
LEMMA LedgerStep ==
  LedgerType /\ CostInv /\ [Next]_<<phase, owner, faults>> => LedgerType' /\ CostInv'
<1>. SUFFICES ASSUME LedgerType, CostInv, [Next]_<<phase, owner, faults>>
              PROVE  LedgerType' /\ CostInv'
  OBVIOUS
<1>1. faults \in Nat /\ faults' \in {faults, faults + 1}
  BY DEF LedgerType, Next, Fault
<1>2. ASSUME NEW m \in Machines
      PROVE  /\ IsFiniteSet(RunningFor(m)) /\ Cardinality(RunningFor(m)) \in Nat
             /\ Cardinality(RunningFor(m)) <= 1 + faults
  BY FS_CardinalityType DEF CostInv, CostBound
<1>3. ASSUME \A m \in Machines : RunningFor(m)' \subseteq RunningFor(m)
      PROVE  CostInv'
  <2>1. ASSUME NEW m \in Machines
        PROVE  /\ IsFiniteSet(RunningFor(m)')
               /\ Cardinality(RunningFor(m)') <= 1 + faults'
    <3>1. /\ IsFiniteSet(RunningFor(m)')
          /\ Cardinality(RunningFor(m)') <= Cardinality(RunningFor(m))
      BY <1>2, <1>3, FS_Subset
    <3>2. Cardinality(RunningFor(m)') \in Nat
      BY <3>1, FS_CardinalityType
    <3>. QED  BY <1>1, <1>2, <3>1, <3>2
  <2>. QED  BY <2>1 DEF CostInv, CostBound
<1>4. CASE UNCHANGED <<phase, owner>>
  BY <1>1, <1>3, <1>4 DEF LedgerType, RunningFor
<1>5. ASSUME NEW s \in Servers, Lose(s) \/ End(s) PROVE LedgerType' /\ CostInv'
  <2>1. LedgerType'
    BY <1>1, <1>5 DEF LedgerType, Phase, Lose, End
  <2>2. \A m \in Machines : RunningFor(m)' \subseteq RunningFor(m)
    BY <1>5 DEF LedgerType, RunningFor, Lose, End
  <2>. QED  BY <1>3, <2>1, <2>2
<1>6. ASSUME NEW s \in Servers, NEW m \in Machines, Order(s, m)
      PROVE  LedgerType' /\ CostInv'
  <2>1. LedgerType'
    BY <1>1, <1>6 DEF LedgerType, Phase, Order
  <2>2. ASSUME NEW n \in Machines
        PROVE  /\ IsFiniteSet(RunningFor(n)')
               /\ Cardinality(RunningFor(n)') <= 1 + faults'
    <3>0. PICK p \in {"held", "lost"} :
            /\ phase' = [phase EXCEPT ![s] = p] /\ owner' = [owner EXCEPT ![s] = m]
            /\ phase[s] = "unborn"
      BY <1>6 DEF Order
    <3>1. /\ n # m => RunningFor(n)' \subseteq RunningFor(n)
          /\ RunningFor(m)' = RunningFor(m) \cup {s} /\ s \notin RunningFor(m)
      BY <3>0 DEF LedgerType, RunningFor
    <3>2. Cardinality(RunningFor(m)) <= faults'
      BY <1>6 DEF Order
    <3>3. /\ IsFiniteSet(RunningFor(m)')
          /\ Cardinality(RunningFor(m)') = Cardinality(RunningFor(m)) + 1
      BY <1>2, <3>1, FS_AddElement
    <3>4. CASE n = m
      BY <1>1, <1>2, <3>2, <3>3, <3>4
    <3>5. CASE n # m
      <4>1. /\ IsFiniteSet(RunningFor(n)')
            /\ Cardinality(RunningFor(n)') <= Cardinality(RunningFor(n))
        BY <1>2, <3>1, <3>5, FS_Subset
      <4>2. Cardinality(RunningFor(n)') \in Nat
        BY <4>1, FS_CardinalityType
      <4>. QED  BY <1>1, <1>2, <4>1, <4>2
    <3>. QED  BY <3>4, <3>5
  <2>. QED  BY <2>1, <2>2 DEF CostInv, CostBound
<1>. QED  BY <1>4, <1>5, <1>6 DEF Next

(* A machine never has more servers than one, and one more for every fault.*)
THEOREM CostIsBounded == Spec => []CostBound
<1>1. LedgerType /\ CostInv => CostBound
  BY DEF CostInv
<1>. QED  BY <1>1, LedgerInit, LedgerStep, PTL DEF Spec
=============================================================================
