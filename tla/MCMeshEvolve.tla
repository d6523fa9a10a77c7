---------------------------- MODULE MCMeshEvolve ----------------------------
(* An instance of MeshEvolve for TLC: steps that gain the margin (20), and *)
(* that gain less (1), a step down, and a threshold that falls or rises.   *)
EXTENDS MeshEvolve

MCJitters == {-20, 1, 20}
MCQuorumJitters == {-30, 0, 10}
=============================================================================
