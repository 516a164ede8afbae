------------------------- MODULE MCHypercubeClient -------------------------
(* A small client: two connections, lists of one or two neighbours.         *)
EXTENDS HypercubeClient

CONSTANTS k1, k2
=============================================================================
