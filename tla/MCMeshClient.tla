---------------------------- MODULE MCMeshClient ----------------------------
(* A small client of the mesh: a peer that was there and one that comes, of  *)
(* which one leaves; two that were there and may both leave; and three, of   *)
(* which one leaves, among others while main is greeting the rest.  Listed   *)
(* peers are read in any order, so that it does not matter which one leaves. *)
EXTENDS MeshClient

CONSTANTS p1, p2, p3

SmallLists  == {{p1}, {p1, p2}, {p1, p2, p3}}

SmallBounds == [l \in SmallLists |->
    CASE l = {p1}     -> [come |-> {p2}, leave |-> {{p1}, {p2}}, texts |-> 1]
      [] l = {p1, p2} -> [come |-> {}, leave |-> {{p1}, {p1, p2}}, texts |-> 1]
      [] OTHER        -> [come |-> {}, leave |-> {{p1}}, texts |-> 0]]
=============================================================================
