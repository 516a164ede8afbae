-------------------------- MODULE MCHypercubeServer -------------------------
(* Small super-peers: two connections, IDs of no, one or two bits.          *)
EXTENDS HypercubeServer

CONSTANTS c1, c2
=============================================================================
