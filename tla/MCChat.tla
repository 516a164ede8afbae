------------------------------- MODULE MCChat -------------------------------
(* A small chat: two connections that may outlive each other.               *)
EXTENDS Chat

CONSTANTS c1, c2

OneEach == [c \in Conns |-> 1]
=============================================================================
