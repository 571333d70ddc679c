---------------------------- MODULE MCSimulation ----------------------------
(* Instances of Simulation for TLC; the values are in the configurations.   *)
EXTENDS Simulation
=============================================================================
