------------------------------- MODULE Flood -------------------------------
(***************************************************************************)
(* Chat messages flooding a network of hypercube clients                    *)
(* (source/hypercube/client.c).                                             *)
(*                                                                          *)
(* Each client runs one receive thread per neighbour (MSGReceiveWrapper)    *)
(* and one send thread (MSGSendWrapper); they share the log of message IDs  *)
(* and the array of neighbours under one mutex.  A thread of client n is    *)
(* named by the neighbour it reads from, and the send thread by n itself.   *)
(*                                                                          *)
(* A receive thread looks the ID up in one critical section and logs,       *)
(* shows and forwards the message in a later one, and a sender logs its own *)
(* message only after it has sent it: the two windows in which a copy can   *)
(* slip past the duplicate check are steps of their own here.  A forward    *)
(* holds the mutex across every blocking send().                            *)
(***************************************************************************)
EXTENDS Naturals, Sequences, FiniteSets

CONSTANTS Clients,    \* the running client processes
          Peers,      \* Peers[n]: clients[0 .. peer_count-1] of n, in array order
          Msgs,       \* the chat lines users enter
          Sender,     \* Sender[m]: the client whose user enters m
          MsgID,      \* MsgID[m]: "YYYYMMDD-HHMMSS-name", as createMSGID builds it
          MSGLOGMAX,  \* slots of the message log
          SockBuf,    \* messages a TCP connection buffers before send() blocks
          HopMod,     \* 2^8: hop_count is a tsize_t
          NoThread    \* the mutex is free

Nbr(n) == {Peers[n][i] : i \in DOMAIN Peers[n]}
IDs    == {MsgID[m] : m \in Msgs}

ASSUME GraphAssumption ==
    /\ IsFiniteSet(Clients)
    /\ Peers \in [Clients -> Seq(Clients)]
    /\ \A n \in Clients : n \notin Nbr(n)
    /\ \A n, k \in Clients : k \in Nbr(n) => n \in Nbr(k)

ASSUME MsgAssumption ==
    /\ Msgs # {}
    /\ Sender \in [Msgs -> Clients]
    /\ MsgID \in [Msgs -> IDs]

ASSUME SizeAssumption ==
    /\ MSGLOGMAX \in Nat \ {0}
    /\ SockBuf \in Nat \ {0}
    /\ HopMod \in Nat \ {0}
    /\ NoThread \notin Clients

Packets == [msg : Msgs, hop : 0 .. HopMod - 1]
PCs     == {"idle", "received", "fresh", "sending", "logging"}
Blank   == [msg |-> CHOOSE m \in Msgs : TRUE, hop |-> 0]

VARIABLES
    chan,    \* chan[n][k]: packets on the connection from n to k, oldest first
    msgLog,  \* msgLog[n]: MSGIDLOG[0 .. log_count-1] of n
    mutex,   \* mutex[n]: the thread of n that holds the mutex across its sends
    pc,      \* pc[n][t]: where thread t of client n is
    pkt,     \* pkt[n][t]: the packet thread t of n works on
    nxt,     \* nxt[n][t]: the index into Peers[n] thread t sends to next
    posted,  \* the messages whose sender has begun to send them
    shown    \* shown[n][k]: messages n displayed after reading them from k

vars == <<chan, msgLog, mutex, pc, pkt, nxt, posted, shown>>

Init ==
    /\ chan   = [n \in Clients |-> [k \in Clients |-> <<>>]]
    /\ msgLog = [n \in Clients |-> <<>>]
    /\ mutex  = [n \in Clients |-> NoThread]
    /\ pc     = [n \in Clients |-> [t \in Clients |-> "idle"]]
    /\ pkt    = [n \in Clients |-> [t \in Clients |-> Blank]]
    /\ nxt    = [n \in Clients |-> [t \in Clients |-> 1]]
    /\ posted = {}
    /\ shown  = [n \in Clients |-> [k \in Clients |-> {}]]

-----------------------------------------------------------------------------

PktID(n, t) == MsgID[pkt[n][t].msg]

(* Mutant: the search stops one slot short of log_count.                    *)
InLogShort(n, id) == \E i \in DOMAIN msgLog[n] : i < Len(msgLog[n]) /\ msgLog[n][i] = id

InLog(n, id) == \E i \in DOMAIN msgLog[n] : msgLog[n][i] = id

(* A full log is emptied, and the message that found it full is not logged. *)
AddMessageToLog(n, id) ==
    msgLog' = [msgLog EXCEPT ![n] =
                  IF Len(@) < MSGLOGMAX THEN Append(@, id) ELSE <<>>]

Goto(n, t, label) == pc' = [pc EXCEPT ![n][t] = label]

(* The memset()s at the end of a thread's turn.                             *)
Idle(n, t) ==
    /\ Goto(n, t, "idle")
    /\ pkt' = [pkt EXCEPT ![n][t] = Blank]

(* The user of Sender[m] enters m: the send thread takes the mutex and      *)
(* starts its loop over the neighbours.                                     *)
Post(m) ==
    LET n == Sender[m] IN
    /\ m \notin posted
    /\ pc[n][n] = "idle"
    /\ mutex[n] = NoThread
    /\ mutex'  = [mutex EXCEPT ![n] = n]
    /\ pkt'    = [pkt EXCEPT ![n][n] = [msg |-> m, hop |-> 0]]
    /\ posted' = posted \cup {m}
    /\ Goto(n, n, "sending")
    /\ UNCHANGED <<chan, msgLog, nxt, shown>>

(* Mutant: the loop ends at the neighbour it should skip.                   *)
SendNextBreaks(n, t) ==
    /\ pc[n][t] = "sending"
    /\ nxt[n][t] \in DOMAIN Peers[n]
    /\ LET k == Peers[n][nxt[n][t]] IN
         \/ /\ k = t
            /\ nxt' = [nxt EXCEPT ![n][t] = Len(Peers[n]) + 1]
            /\ UNCHANGED chan
         \/ /\ k # t
            /\ Len(chan[n][k]) < SockBuf
            /\ chan' = [chan EXCEPT ![n][k] = Append(@, pkt[n][t])]
            /\ nxt' = [nxt EXCEPT ![n][t] = @ + 1]
    /\ UNCHANGED <<msgLog, mutex, pc, pkt, posted, shown>>

(* Mutant: the comparison with the source is the wrong way round.           *)
SendNextBack(n, t) ==
    /\ pc[n][t] = "sending"
    /\ nxt[n][t] \in DOMAIN Peers[n]
    /\ LET k == Peers[n][nxt[n][t]] IN
         \/ k # t /\ UNCHANGED chan
         \/ /\ k = t
            /\ Len(chan[n][k]) < SockBuf
            /\ chan' = [chan EXCEPT ![n][k] = Append(@, pkt[n][t])]
    /\ nxt' = [nxt EXCEPT ![n][t] = @ + 1]
    /\ UNCHANGED <<msgLog, mutex, pc, pkt, posted, shown>>

(* One turn of the loop over clients[]: skip the neighbour the packet came  *)
(* from, else send, which blocks while the connection is full.              *)
SendNext(n, t) ==
    /\ pc[n][t] = "sending"
    /\ nxt[n][t] \in DOMAIN Peers[n]
    /\ LET k == Peers[n][nxt[n][t]] IN
         \/ k = t /\ UNCHANGED chan
         \/ /\ k # t
            /\ Len(chan[n][k]) < SockBuf
            /\ chan' = [chan EXCEPT ![n][k] = Append(@, pkt[n][t])]
    /\ nxt' = [nxt EXCEPT ![n][t] = @ + 1]
    /\ UNCHANGED <<msgLog, mutex, pc, pkt, posted, shown>>

(* Mutant: the loop ends without releasing the mutex.                       *)
SendDoneLocked(n, t) ==
    /\ pc[n][t] = "sending"
    /\ nxt[n][t] \notin DOMAIN Peers[n]
    /\ nxt' = [nxt EXCEPT ![n][t] = 1]
    /\ \/ t = n /\ Goto(n, t, "logging") /\ UNCHANGED pkt
       \/ t # n /\ Idle(n, t)
    /\ UNCHANGED <<chan, msgLog, mutex, posted, shown>>

(* The loop is over: the mutex is released.                                 *)
SendDone(n, t) ==
    /\ pc[n][t] = "sending"
    /\ nxt[n][t] \notin DOMAIN Peers[n]
    /\ mutex' = [mutex EXCEPT ![n] = NoThread]
    /\ nxt'   = [nxt EXCEPT ![n][t] = 1]
    /\ \/ t = n /\ Goto(n, t, "logging") /\ UNCHANGED pkt
       \/ t # n /\ Idle(n, t)
    /\ UNCHANGED <<chan, msgLog, posted, shown>>

(* processSendMSG: the sender logs its own message, in a critical section   *)
(* of its own.                                                              *)
LogOwn(n) ==
    /\ pc[n][n] = "logging"
    /\ mutex[n] = NoThread
    /\ AddMessageToLog(n, PktID(n, n))
    /\ Idle(n, n)
    /\ UNCHANGED <<chan, mutex, nxt, posted, shown>>

(* MSGReceive returns 1: a whole packet has been read, without the mutex.   *)
Receive(n, k) ==
    /\ k # n
    /\ pc[n][k] = "idle"
    /\ chan[k][n] # <<>>
    /\ pkt'  = [pkt EXCEPT ![n][k] = Head(chan[k][n])]
    /\ chan' = [chan EXCEPT ![k][n] = Tail(@)]
    /\ Goto(n, k, "received")
    /\ UNCHANGED <<msgLog, mutex, nxt, posted, shown>>

(* checkIDFromLog, in a critical section of its own.                        *)
CheckID(n, k) ==
    /\ k # n
    /\ pc[n][k] = "received"
    /\ mutex[n] = NoThread
    /\ \/ InLog(n, PktID(n, k)) /\ Idle(n, k)
       \/ ~InLog(n, PktID(n, k)) /\ Goto(n, k, "fresh") /\ UNCHANGED pkt
    /\ UNCHANGED <<chan, msgLog, mutex, nxt, posted, shown>>

(* Mutants of the next action: the critical section of the check is trusted *)
(* to cover this one too; the message is not logged; the hop count does not *)
(* wrap.                                                                    *)
AcceptUnlocked(n, k) ==
    /\ k # n
    /\ pc[n][k] = "fresh"
    /\ mutex' = [mutex EXCEPT ![n] = k]
    /\ AddMessageToLog(n, PktID(n, k))
    /\ shown' = [shown EXCEPT ![n][k] = @ \cup {pkt[n][k].msg}]
    /\ pkt'   = [pkt EXCEPT ![n][k].hop = (@ + 1) % HopMod]
    /\ Goto(n, k, "sending")
    /\ UNCHANGED <<chan, nxt, posted>>

AcceptUnlogged(n, k) ==
    /\ k # n
    /\ pc[n][k] = "fresh"
    /\ mutex[n] = NoThread
    /\ mutex' = [mutex EXCEPT ![n] = k]
    /\ shown' = [shown EXCEPT ![n][k] = @ \cup {pkt[n][k].msg}]
    /\ pkt'   = [pkt EXCEPT ![n][k].hop = (@ + 1) % HopMod]
    /\ Goto(n, k, "sending")
    /\ UNCHANGED <<chan, msgLog, nxt, posted>>

AcceptWide(n, k) ==
    /\ k # n
    /\ pc[n][k] = "fresh"
    /\ mutex[n] = NoThread
    /\ mutex' = [mutex EXCEPT ![n] = k]
    /\ AddMessageToLog(n, PktID(n, k))
    /\ shown' = [shown EXCEPT ![n][k] = @ \cup {pkt[n][k].msg}]
    /\ pkt'   = [pkt EXCEPT ![n][k].hop = @ + 1]
    /\ Goto(n, k, "sending")
    /\ UNCHANGED <<chan, nxt, posted>>

(* The second critical section of processReceivedMSG: log, show, count the  *)
(* hop, and start forwarding with the mutex held.                           *)
Accept(n, k) ==
    /\ k # n
    /\ pc[n][k] = "fresh"
    /\ mutex[n] = NoThread
    /\ mutex' = [mutex EXCEPT ![n] = k]
    /\ AddMessageToLog(n, PktID(n, k))
    /\ shown' = [shown EXCEPT ![n][k] = @ \cup {pkt[n][k].msg}]
    /\ pkt'   = [pkt EXCEPT ![n][k].hop = (@ + 1) % HopMod]
    /\ Goto(n, k, "sending")
    /\ UNCHANGED <<chan, nxt, posted>>

ReceiveStep(n, k) ==
    \/ Receive(n, k) \/ CheckID(n, k) \/ Accept(n, k)
    \/ SendNext(n, k) \/ SendDone(n, k)

SendThreadStep(n) == SendNext(n, n) \/ SendDone(n, n) \/ LogOwn(n)

Next ==
    \/ \E m \in Msgs : Post(m)
    \/ \E n, t \in Clients :
          \/ SendNext(n, t) \/ SendDone(n, t)
          \/ Receive(n, t) \/ CheckID(n, t) \/ Accept(n, t)
    \/ \E n \in Clients : LogOwn(n)

Spec == Init /\ [][Next]_vars

(* The scheduler runs every thread that can move, and the kernel delivers   *)
(* what it buffered; nobody is obliged to type a message.                   *)
FairSpec ==
    /\ Spec
    /\ \A n, k \in Clients : k # n => WF_vars(ReceiveStep(n, k))
    /\ \A n \in Clients : WF_vars(SendThreadStep(n))

-----------------------------------------------------------------------------
(* Properties *)

TypeOK ==
    /\ chan   \in [Clients -> [Clients -> Seq(Packets)]]
    /\ msgLog \in [Clients -> Seq(IDs)]
    /\ mutex  \in [Clients -> Clients \cup {NoThread}]
    /\ pc     \in [Clients -> [Clients -> PCs]]
    /\ pkt    \in [Clients -> [Clients -> Packets]]
    /\ nxt    \in [Clients -> [Clients -> Nat \ {0}]]
    /\ posted \in SUBSET Msgs
    /\ shown  \in [Clients -> [Clients -> SUBSET Msgs]]

(* The IDs client n has shown, or has itself sent.                          *)
Heard(n) ==
    {MsgID[m] : m \in {p \in posted : Sender[p] = n}
                        \cup UNION {shown[n][k] : k \in Clients}}

(* The connection from n to k holds a packet with this ID.                  *)
OnWire(n, k, id) == \E i \in DOMAIN chan[n][k] : MsgID[chan[n][k][i].msg] = id

(* A packet with this ID is on its way from n to k, in the connection or in *)
(* the hands of the thread of k that reads it.                              *)
InFlight(n, k, id) ==
    \/ OnWire(n, k, id)
    \/ pc[k][n] \in {"received", "fresh"} /\ PktID(k, n) = id

(* Some thread of n is in its forwarding loop with this ID and has not yet  *)
(* reached k.                                                               *)
StillToSend(n, k, id) ==
    \E t \in Clients :
        /\ pc[n][t] = "sending"
        /\ PktID(n, t) = id
        /\ \E j \in DOMAIN Peers[n] : j >= nxt[n][t] /\ Peers[n][j] = k

(* The flood leaves no gap: whatever n has heard, each neighbour of n has   *)
(* heard too, or a copy is on its way there, or n is about to send it one,  *)
(* however the check, log and send steps of all the threads interleave and  *)
(* even if full logs have been cleared (processReceivedMSG, forwardMSG).    *)
NoGap ==
    \A n \in Clients : \A k \in Nbr(n) : \A id \in Heard(n) :
        id \in Heard(k) \/ InFlight(n, k, id) \/ StillToSend(n, k, id)

(* MSGSend writes a packet in six pieces; what keeps two packets from       *)
(* mixing on one connection is that only the mutex holder is in the loop    *)
(* over clients[].                                                          *)
OneSenderAtATime ==
    \A n, t \in Clients : pc[n][t] = "sending" => mutex[n] = t

(* No thread is working, and no packet is on the wire.                      *)
Quiet ==
    /\ \A n, k \in Clients : chan[n][k] = <<>>
    /\ \A n, t \in Clients : pc[n][t] = "idle"

(* No proper, nonempty set of clients is closed under the neighbour lists.  *)
Connected ==
    \A S \in SUBSET Clients :
        (S # {} /\ \A n \in S : Nbr(n) \subseteq S) => S = Clients

(* When the flood has ended in a connected network, every client has heard  *)
(* every ID that anybody sent.                                              *)
EverybodyHeard ==
    (Connected /\ Quiet) => \A m \in posted, n \in Clients : MsgID[m] \in Heard(n)

(* The hop count of a packet is at most the number of clients: a path may   *)
(* come back to the sender once, while it has not logged its own message,   *)
(* and otherwise never visits a client twice.                               *)
HopBound ==
    \A n, k \in Clients : \A i \in DOMAIN chan[n][k] :
        chan[n][k][i].hop <= Cardinality(Clients)

(* The thread that reads one connection never shows the same ID twice, so   *)
(* the copies that slip past the duplicate check are bounded by the number  *)
(* of neighbours.  This needs a log that is never cleared.                  *)
OncePerLink ==
    [][\A n, k \in Clients :
          Accept(n, k) => \A m \in shown[n][k] : MsgID[m] # PktID(n, k)]_vars

(* The flood ends, instead of circling in the hypercube for ever.           *)
FloodEnds == <>[]Quiet

(* A client that is sending gets its mutex back: MSGSend returns (cs87talk.h*)
(* documents only returning results for it).                                *)
SendReturns == \A n \in Clients : mutex[n] # NoThread ~> mutex[n] = NoThread

(* The flood implements the gossip network: an ID spreads only along links, *)
(* from a client that has heard it, and in the end to every neighbour.      *)
G == INSTANCE Gossip WITH
        heard   <- [n \in Clients |-> Heard(n)],
        Nbrs    <- [n \in Clients |-> Nbr(n)],
        Authors <- [id \in IDs |-> {Sender[m] : m \in {p \in Msgs : MsgID[p] = id}}]

GossipSpec == G!FairSpec

=============================================================================
