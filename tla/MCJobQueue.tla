----------------------------- MODULE MCJobQueue -----------------------------
(* Model values for JobQueue: see the .cfg files for the sizes.            *)
EXTENDS JobQueue, TLC

InstanceSymmetry == Permutations(Instances)
=============================================================================
