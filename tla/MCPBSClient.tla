---------------------------- MODULE MCPBSClient ----------------------------
(***************************************************************************)
(* Small instances of PBSClient for TLC: see the configurations.           *)
(***************************************************************************)
EXTENDS PBSClient, TLC

\* An inspection may find any number of the jobs running.
JobCounts == 0 .. Cardinality(Jobs)

\* Nothing tells one job from another.
JobSymmetry == Permutations(Jobs)
=============================================================================
