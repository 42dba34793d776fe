---------------------------- MODULE MCBMCMachine ----------------------------
EXTENDS BMCMachineLedger, TLC

Symmetry == Permutations(Machines) \cup Permutations(Servers)
=============================================================================
