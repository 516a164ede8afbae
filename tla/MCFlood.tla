------------------------------ MODULE MCFlood ------------------------------
(* Small networks for Flood: the hypercubes of dimension 1 and 2 and one of *)
(* dimension 2 that lacks a client, neighbours in the order getNeighbors    *)
(* lists them.                                                              *)
EXTENDS Flood, TLC

CONSTANTS m1, m2, m3, m4, m5, m6

SquareClients == 0 .. 3
SquarePeers   == 0 :> <<1, 2>> @@ 1 :> <<0, 3>> @@ 2 :> <<3, 0>> @@ 3 :> <<2, 1>>

PathClients == {0, 1, 3}
PathPeers   == 0 :> <<1>> @@ 1 :> <<0, 3>> @@ 3 :> <<1>>

PairClients == 0 .. 1
PairPeers   == 0 :> <<1>> @@ 1 :> <<0>>

(* One message of client 0; two of different clients; three of each of two. *)
OneSender  == m1 :> 0
OneID      == m1 :> "t1-c0"
TwoSenders == m1 :> 0 @@ m2 :> 1
TwoIDs     == m1 :> "t1-c0" @@ m2 :> "t1-c1"
SixSenders == m1 :> 0 @@ m2 :> 0 @@ m3 :> 0 @@ m4 :> 1 @@ m5 :> 1 @@ m6 :> 1
SixIDs     == m1 :> "t1-c0" @@ m2 :> "t2-c0" @@ m3 :> "t3-c0" @@
              m4 :> "t1-c1" @@ m5 :> "t2-c1" @@ m6 :> "t3-c1"
=============================================================================
