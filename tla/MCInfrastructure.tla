-------------------------- MODULE MCInfrastructure --------------------------
EXTENDS Infrastructure, TLC

LastBlock == [b \in Blocks |-> 254]
=============================================================================
