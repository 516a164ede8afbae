------------------------------- MODULE Gossip -------------------------------
(***************************************************************************)
(* What a flooding chat network promises, without threads, packets, logs or *)
(* connections: an ID is heard first by a client that sends it, and after   *)
(* that only by a neighbour of a client that has heard it; and whatever a   *)
(* neighbour has heard is heard in the end.                                 *)
(***************************************************************************)
CONSTANTS Clients,  \* the running client processes
          Nbrs,     \* Nbrs[n]: the neighbours of n
          IDs,      \* message IDs
          Authors   \* Authors[id]: the clients that may send a message with this ID

VARIABLE heard      \* heard[n]: the IDs client n has sent or shown

Init == heard = [n \in Clients |-> {}]

Say(n, id) ==
    /\ n \in Authors[id]
    /\ heard' = [heard EXCEPT ![n] = @ \cup {id}]

Hear(n, id) ==
    /\ \E k \in Nbrs[n] : id \in heard[k]
    /\ heard' = [heard EXCEPT ![n] = @ \cup {id}]

Next == \E n \in Clients, id \in IDs : Say(n, id) \/ Hear(n, id)

Spec == Init /\ [][Next]_heard

FairSpec == Spec /\ \A n \in Clients, id \in IDs : WF_heard(Hear(n, id))
=============================================================================
