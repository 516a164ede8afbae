---------------------------- MODULE MCMeshServer ----------------------------
(* A small super-peer: two connections.                                     *)
EXTENDS MeshServer

CONSTANTS c1, c2
=============================================================================
