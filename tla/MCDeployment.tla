---------------------------- MODULE MCDeployment ----------------------------
(***************************************************************************)
(* Small instances of Deployment for TLC.  Processes are alike, and names. *)
(***************************************************************************)
EXTENDS Deployment, TLC

Symmetry == Permutations(Brokers) \cup Permutations(Names)
=============================================================================
