------------------------------ MODULE MCMeshTcp ------------------------------
(* An instance of MeshTcp for TLC: a child process and an HTTP backend.    *)
EXTENDS MeshTcp

MCBackend == [x \in ExpertSet |-> IF x = "x" THEN "command" ELSE "openrouter"]
MCExperts == <<"x", "y">>
=============================================================================
