-------------------------- MODULE HypercubeClient --------------------------
(***************************************************************************)
(* The life of one hypercube client (source/hypercube/client.c): it         *)
(* registers with the super-peer, connects to the neighbours it is told of, *)
(* accepts others, relocates when the super-peer asks it to, and quits.     *)
(*                                                                          *)
(* Its threads are Main, SP (SPReceiveWrapper), Send (MSGSendWrapper),      *)
(* Listen (addNewClientWrapper) and one receive thread per neighbour, named *)
(* by its connection.  They share clients[], listen_threads[] and the start *)
(* flags under one mutex.  A critical section is one step, except where the *)
(* mutex is kept across steps; a thread that is cancelled inside one leaves *)
(* the mutex locked.                                                        *)
(*                                                                          *)
(* What the super-peer and the neighbours send is chosen freely.  reconnect *)
(* is set and reset in one critical section, so no thread ever reads 1: it  *)
(* has no variable here.  What the send thread sends is the matter of       *)
(* module Flood.                                                            *)
(***************************************************************************)
EXTENDS Integers, FiniteSets

CONSTANTS Conns,        \* connections with neighbours, each used once
          Main, SP, Send, Listen,
          NoThread,     \* the mutex is free
          NoConn,       \* an entry of clients[] never written
          MAX_CLIENTS,  \* entries of clients[]: 256, where peer_count wraps
          ListMax,      \* bound: neighbours in the first list
          RelistMax,    \* bound: neighbours in a list after a relocation
          MaxAsks       \* bound: relocations the super-peer asks for

Own     == {Main, SP, Send, Listen}
Threads == Own \cup Conns
Index   == 0 .. MAX_CLIENTS - 1

ASSUME ThreadAssumption ==
    /\ Cardinality(Own) = 4
    /\ Own \cap Conns = {}
    /\ NoThread \notin Threads
    /\ NoConn \notin Conns

ASSUME BoundAssumption ==
    /\ MAX_CLIENTS \in Nat \ {0}
    /\ ListMax \in Index
    /\ RelistMax \in Index
    /\ MaxAsks \in Nat

PCs == {"none", "count", "entries", "lock", "connect", "wait", "spawn",
        "joinSend", "joinListen", "joinSP",
        "tag", "relocate", "redial", "waitzero",
        "input", "quit", "accept", "add",
        "called", "born", "parked", "check", "recv", "got", "leave",
        "gone", "dead"}

VARIABLES
    up,         \* the process runs
    pc,         \* pc[t]: where thread t is; "dead" if it was cancelled
    mutex,      \* the thread that keeps the mutex across steps
    asleep,     \* threads blocked in pthread_cond_wait: receive threads on
                \* cond_var, the others on cond_var_main
    clients,    \* clients[i].socket_fd
    peer_count,
    listed,     \* listen_threads[0 .. listen_count-1]
    waiting_threads,
    ready_to_start,
    cancelled,  \* threads with a pending pthread_cancel
    idx,        \* the loop index of receiveClients
    unread,     \* entries of the neighbour list not yet read from the super-peer
    sp,         \* the connection with the super-peer: "up", "told" once QUIT was
                \* sent and it was closed here, "over" once it ended
    asks,       \* a RECONNECT is on its way
    asked,      \* how often the super-peer has asked
    sendSP      \* the descriptor the send thread copied is the super-peer's

shared == <<clients, peer_count, listed, waiting_threads, ready_to_start>>
link   == <<unread, sp, asks, asked, sendSP>>
vars   == <<up, pc, mutex, asleep, shared, cancelled, idx, link>>

Init ==
    /\ up = TRUE
    /\ pc = [t \in Threads |-> IF t = Main THEN "count" ELSE "none"]
    /\ mutex  = NoThread
    /\ asleep = {}
    /\ clients = [i \in Index |-> NoConn]
    /\ peer_count = 0
    /\ listed = {}
    /\ waiting_threads = 0
    /\ ready_to_start  = FALSE
    /\ cancelled = {}
    /\ idx = 0
    /\ unread = 0
    /\ sp = "up"
    /\ asks = FALSE
    /\ asked = 0
    /\ sendSP = TRUE

Goto(t, label) == pc' = [pc EXCEPT ![t] = label]

(* exit(): the whole process is gone.                                       *)
Exit == up' = FALSE /\ UNCHANGED <<pc, mutex, asleep, shared, cancelled, idx, link>>

-----------------------------------------------------------------------------
(* The super-peer *)

SPAsks ==
    /\ sp = "up" /\ ~asks /\ asked < MaxAsks
    /\ asks'  = TRUE
    /\ asked' = asked + 1
    /\ UNCHANGED <<up, pc, mutex, asleep, shared, cancelled, idx, unread, sp, sendSP>>

SPCloses ==
    /\ sp \in {"up", "told"}
    /\ sp' = "over"
    /\ UNCHANGED <<up, pc, mutex, asleep, shared, cancelled, idx, unread, asks, asked, sendSP>>

-----------------------------------------------------------------------------
(* receiveClients, run by main, and again by the SP thread after a          *)
(* relocation.  The list is read without the mutex, straight into           *)
(* peer_count; an entry that cannot be read is connected to all the same.   *)

Longest(a) == IF a = Main THEN ListMax ELSE RelistMax

RecvCount(a) ==
    /\ pc[a] = "count"
    /\ \/ sp # "up" /\ Exit
       \/ /\ sp \in {"up", "told"}
          /\ \E n \in 0 .. Longest(a) : peer_count' = n /\ unread' = n
          /\ idx' = 0
          /\ Goto(a, "entries")
          /\ UNCHANGED <<up, mutex, asleep, clients, listed, waiting_threads, ready_to_start,
                         cancelled, sp, asks, asked, sendSP>>

RecvEntry(a) ==
    /\ pc[a] = "entries" /\ idx < peer_count
    /\ \/ unread > 0 /\ unread' = unread - 1
       \/ sp # "up" /\ unread' = 0
    /\ idx' = idx + 1
    /\ UNCHANGED <<up, pc, mutex, asleep, shared, cancelled, sp, asks, asked, sendSP>>

EntriesRead(a) ==
    /\ pc[a] = "entries" /\ idx >= peer_count
    /\ Goto(a, "lock")
    /\ UNCHANGED <<up, mutex, asleep, shared, cancelled, idx, link>>

LockClients(a) ==
    /\ pc[a] = "lock" /\ mutex = NoThread
    /\ mutex' = a
    /\ idx'   = 0
    /\ Goto(a, "connect")
    /\ UNCHANGED <<up, asleep, shared, cancelled, link>>

(* A neighbour that cannot be reached ends the process.                     *)
ConnectNext(a) ==
    /\ pc[a] = "connect" /\ idx < peer_count
    /\ \/ Exit
       \/ \E c \in Conns :
             /\ pc[c] = "none"
             /\ clients' = [clients EXCEPT ![idx] = c]
             /\ listed'  = listed \cup {c}
             /\ Goto(c, "born")
             /\ idx' = idx + 1
             /\ UNCHANGED <<up, mutex, asleep, peer_count, waiting_threads, ready_to_start,
                            cancelled, link>>

(* Thread a is at the test of its waiting loop, and has the mutex.          *)
Testing(a) ==
    \/ pc[a] = "connect" /\ idx >= peer_count
    \/ pc[a] = "wait" /\ a \notin asleep /\ mutex = NoThread

AwaitThreads(a) ==
    /\ Testing(a)
    /\ waiting_threads < peer_count
    /\ asleep' = asleep \cup {a}
    /\ mutex'  = NoThread
    /\ Goto(a, "wait")
    /\ UNCHANGED <<up, shared, cancelled, idx, link>>

(* Mutant: the test is off by one.                                          *)
StartEarly(a) ==
    /\ Testing(a)
    /\ waiting_threads + 1 >= peer_count
    /\ ready_to_start' = TRUE
    /\ asleep' = asleep \ Conns
    /\ mutex'  = NoThread
    /\ Goto(a, IF a = Main THEN "spawn" ELSE "tag")
    /\ UNCHANGED <<up, clients, peer_count, listed, waiting_threads, cancelled, idx, link>>

StartThreads(a) ==
    /\ Testing(a)
    /\ waiting_threads >= peer_count
    /\ ready_to_start' = TRUE
    /\ asleep' = asleep \ Conns
    /\ mutex'  = NoThread
    /\ Goto(a, IF a = Main THEN "spawn" ELSE "tag")
    /\ UNCHANGED <<up, clients, peer_count, listed, waiting_threads, cancelled, idx, link>>

ReceiveClients(a) ==
    \/ RecvCount(a) \/ RecvEntry(a) \/ EntriesRead(a) \/ LockClients(a)
    \/ ConnectNext(a) \/ AwaitThreads(a) \/ StartThreads(a)

-----------------------------------------------------------------------------
(* main: a thread that has not yet run is as good as not created.           *)

Spawn ==
    /\ pc[Main] = "spawn"
    /\ pc' = [pc EXCEPT ![Main] = "joinSend", ![SP] = "tag", ![Send] = "input",
                        ![Listen] = "accept"]
    /\ UNCHANGED <<up, mutex, asleep, shared, cancelled, idx, link>>


JoinSend ==
    /\ pc[Main] = "joinSend" /\ pc[Send] = "gone"
    /\ cancelled' = cancelled \cup {Listen}
    /\ Goto(Main, "joinListen")
    /\ UNCHANGED <<up, mutex, asleep, shared, idx, link>>

JoinListen ==
    /\ pc[Main] = "joinListen" /\ pc[Listen] = "dead"
    /\ Goto(Main, "joinSP")
    /\ UNCHANGED <<up, mutex, asleep, shared, cancelled, idx, link>>

JoinSP ==
    /\ pc[Main] = "joinSP" /\ pc[SP] = "gone"
    /\ Exit

-----------------------------------------------------------------------------
(* MSGSendWrapper: the user quits.  The send thread uses the descriptor it  *)
(* copied when it started.                                                  *)

QuitSP ==
    /\ pc[Send] = "input"
    /\ sp' = IF sendSP /\ sp = "up" THEN "told" ELSE sp
    /\ Goto(Send, "quit")
    /\ UNCHANGED <<up, mutex, asleep, shared, cancelled, idx, unread, asks, asked, sendSP>>

QuitPeers ==
    /\ pc[Send] = "quit" /\ mutex = NoThread
    /\ peer_count' = 0
    /\ cancelled'  = cancelled \cup listed
    /\ listed'     = {}
    /\ Goto(Send, "gone")
    /\ UNCHANGED <<up, mutex, asleep, clients, waiting_threads, ready_to_start, idx, link>>

-----------------------------------------------------------------------------
(* addNewClientWrapper *)

AcceptPeer ==
    /\ pc[Listen] = "accept" /\ Listen \notin cancelled
    /\ \E c \in Conns :
          /\ pc[c] = "none"
          /\ pc' = [pc EXCEPT ![c] = "called", ![Listen] = "add"]
    /\ UNCHANGED <<up, mutex, asleep, shared, cancelled, idx, link>>

(* A cancelled thread may die where it prints, before it lists the thread   *)
(* it created.                                                              *)
AddPeer(c) ==
    /\ pc[Listen] = "add" /\ pc[c] = "called" /\ mutex = NoThread
    /\ clients'    = [clients EXCEPT ![peer_count] = c]
    /\ peer_count' = (peer_count + 1) % MAX_CLIENTS
    /\ \/ /\ listed' = listed \cup {c}
          /\ pc' = [pc EXCEPT ![c] = "born", ![Listen] = "accept"]
          /\ UNCHANGED mutex
       \/ /\ Listen \in cancelled
          /\ mutex' = Listen
          /\ pc' = [pc EXCEPT ![c] = "born", ![Listen] = "dead"]
          /\ UNCHANGED listed
    /\ UNCHANGED <<up, asleep, waiting_threads, ready_to_start, cancelled, idx, link>>

ListenDies ==
    /\ pc[Listen] = "accept" /\ Listen \in cancelled
    /\ Goto(Listen, "dead")
    /\ UNCHANGED <<up, mutex, asleep, shared, cancelled, idx, link>>

-----------------------------------------------------------------------------
(* SPReceiveWrapper *)

(* Bytes of a neighbour list that was not read to its end pass for tags.    *)
SPTag ==
    /\ pc[SP] = "tag"
    /\ \/ /\ unread > 0
          /\ unread' = unread - 1
          /\ \E label \in {"tag", "relocate"} : Goto(SP, label)
          /\ UNCHANGED asks
       \/ /\ unread = 0 /\ asks
          /\ asks' = FALSE
          /\ Goto(SP, "relocate")
          /\ UNCHANGED unread
       \/ /\ sp # "up"
          /\ Goto(SP, "gone")
          /\ UNCHANGED <<unread, asks>>
    /\ UNCHANGED <<up, mutex, asleep, shared, cancelled, idx, sp, asked, sendSP>>

(* The neighbours and the super-peer are told; the receive threads are not. *)
Relocate ==
    /\ pc[SP] = "relocate" /\ mutex = NoThread
    /\ sp' = "over"
    /\ asks' = FALSE
    /\ unread' = 0
    /\ peer_count' = 0
    /\ asleep' = asleep \cap Conns
    /\ Goto(SP, "redial")
    /\ UNCHANGED <<up, mutex, clients, listed, waiting_threads, ready_to_start, cancelled, idx,
                   asked, sendSP>>

(* A new connection and HELLO; its descriptor may have the old number, or   *)
(* another thread may have taken that meanwhile.                            *)
Redial ==
    /\ pc[SP] = "redial"
    /\ \/ /\ sp' = "up"
          /\ sendSP' \in {FALSE, sendSP}
          /\ Goto(SP, "waitzero")
          /\ UNCHANGED <<up, mutex, asleep, shared, cancelled, idx, unread, asks, asked>>
       \/ /\ Goto(SP, "gone")
          /\ UNCHANGED <<up, mutex, asleep, shared, cancelled, idx, link>>
       \/ Exit

AwaitZero ==
    /\ pc[SP] = "waitzero" /\ SP \notin asleep /\ mutex = NoThread
    /\ \/ /\ listed # {} \/ peer_count # 0
          /\ asleep' = asleep \cup {SP}
          /\ UNCHANGED pc
       \/ /\ listed = {} /\ peer_count = 0
          /\ Goto(SP, "count")
          /\ UNCHANGED asleep
    /\ UNCHANGED <<up, mutex, shared, cancelled, idx, link>>

-----------------------------------------------------------------------------
(* MSGReceiveWrapper, for the neighbour at connection c *)

(* Mutant: main is not signalled.                                           *)
BornSilent(c) ==
    /\ pc[c] = "born" /\ mutex = NoThread
    /\ waiting_threads' = waiting_threads + 1
    /\ IF ready_to_start
       THEN Goto(c, "check") /\ UNCHANGED asleep
       ELSE Goto(c, "parked") /\ asleep' = asleep \cup {c}
    /\ UNCHANGED <<up, mutex, clients, peer_count, listed, ready_to_start, cancelled, idx, link>>

(* One thread that waits on cond_var_main is signalled, if there is one.    *)
Born(c) ==
    LET sleepers == asleep \ Conns IN
    /\ pc[c] = "born" /\ mutex = NoThread
    /\ waiting_threads' = waiting_threads + 1
    /\ \E woken \in IF sleepers = {} THEN {{}} ELSE {{s} : s \in sleepers} :
          IF ready_to_start
          THEN Goto(c, "check") /\ asleep' = asleep \ woken
          ELSE Goto(c, "parked") /\ asleep' = (asleep \ woken) \cup {c}
    /\ UNCHANGED <<up, mutex, clients, peer_count, listed, ready_to_start, cancelled, idx, link>>

(* A thread cancelled in pthread_cond_wait takes the mutex before it dies.  *)
Wake(c) ==
    /\ pc[c] = "parked" /\ c \notin asleep /\ mutex = NoThread
    /\ \/ ready_to_start /\ Goto(c, "check") /\ UNCHANGED <<asleep, mutex>>
       \/ ~ready_to_start /\ asleep' = asleep \cup {c} /\ UNCHANGED <<pc, mutex>>
       \/ c \in cancelled /\ Goto(c, "dead") /\ mutex' = c /\ UNCHANGED asleep
    /\ UNCHANGED <<up, shared, cancelled, idx, link>>

(* The loop's look at reconnect, which is 0.                                *)
Check(c) ==
    /\ pc[c] = "check" /\ mutex = NoThread
    /\ Goto(c, "recv")
    /\ UNCHANGED <<up, mutex, asleep, shared, cancelled, idx, link>>

(* MSGReceive: a message, another tag, or the end of the connection.        *)
Recv(c) ==
    /\ pc[c] = "recv" /\ c \notin cancelled
    /\ \E label \in {"got", "check", "leave"} : Goto(c, label)
    /\ UNCHANGED <<up, mutex, asleep, shared, cancelled, idx, link>>

(* processReceivedMSG prints and sends with the mutex held: a cancelled     *)
(* thread may die there.                                                    *)
Forward(c) ==
    /\ pc[c] = "got" /\ mutex = NoThread
    /\ \/ Goto(c, "check") /\ UNCHANGED mutex
       \/ c \in cancelled /\ Goto(c, "dead") /\ mutex' = c
    /\ UNCHANGED <<up, asleep, shared, cancelled, idx, link>>

(* Mutant: the count is decremented whether the client was found or not.    *)
UpdateClientListAlways(c) ==
    /\ clients' = clients
    /\ peer_count' = peer_count - 1

(* updateClientList: the entries behind the first one for c move up.        *)
UpdateClientList(c) ==
    LET at == {i \in Index : i < peer_count /\ clients[i] = c} IN
    IF at = {}
    THEN UNCHANGED <<clients, peer_count>>
    ELSE LET first == CHOOSE i \in at : \A j \in at : i <= j IN
         /\ clients' = [i \in Index |-> IF first <= i /\ i < peer_count - 1
                                        THEN clients[i + 1] ELSE clients[i]]
         /\ peer_count' = peer_count - 1

(* Mutants: the list of threads is not updated; the list of clients is not. *)
LeaveListed(c) ==
    /\ pc[c] = "leave" /\ mutex = NoThread
    /\ UpdateClientList(c)
    /\ IF c \in cancelled
       THEN Goto(c, "dead") /\ mutex' = c
       ELSE Goto(c, "gone") /\ UNCHANGED mutex
    /\ UNCHANGED <<up, asleep, listed, waiting_threads, ready_to_start, cancelled, idx, link>>

LeaveInClients(c) ==
    /\ pc[c] = "leave" /\ mutex = NoThread
    /\ listed' = listed \ {c}
    /\ IF c \in cancelled
       THEN Goto(c, "dead") /\ mutex' = c
       ELSE Goto(c, "gone") /\ UNCHANGED mutex
    /\ UNCHANGED <<up, asleep, clients, peer_count, waiting_threads, ready_to_start, cancelled,
                   idx, link>>

(* Both lists are updated and the connection is closed in one critical      *)
(* section; close() is where a cancelled thread dies.                       *)
Leave(c) ==
    /\ pc[c] = "leave" /\ mutex = NoThread
    /\ UpdateClientList(c)
    /\ listed' = listed \ {c}
    /\ IF c \in cancelled
       THEN Goto(c, "dead") /\ mutex' = c
       ELSE Goto(c, "gone") /\ UNCHANGED mutex
    /\ UNCHANGED <<up, asleep, waiting_threads, ready_to_start, cancelled, idx, link>>

(* recv() is a cancellation point, and so is printing that a connection has *)
(* ended, before the mutex is taken.                                        *)
RecvDies(c) ==
    /\ pc[c] \in {"recv", "leave"} /\ c \in cancelled
    /\ Goto(c, "dead")
    /\ UNCHANGED <<up, mutex, asleep, shared, cancelled, idx, link>>

-----------------------------------------------------------------------------

MainStep == ReceiveClients(Main) \/ Spawn \/ JoinSend \/ JoinListen \/ JoinSP
SPStep   == ReceiveClients(SP) \/ SPTag \/ Relocate \/ Redial \/ AwaitZero
PeerStep(c) == Born(c) \/ Wake(c) \/ Check(c) \/ Forward(c) \/ Leave(c) \/ RecvDies(c)

Next ==
    /\ up
    /\ \/ MainStep \/ SPStep
       \/ QuitSP \/ QuitPeers
       \/ AcceptPeer \/ ListenDies \/ (\E c \in Conns : AddPeer(c))
       \/ \E c \in Conns : PeerStep(c) \/ Recv(c)
       \/ SPAsks \/ SPCloses

Spec == Init /\ [][Next]_vars

(* Every thread that can move does, and the super-peer closes a connection  *)
(* on which it was sent QUIT; users, newcomers and neighbours need do       *)
(* nothing.                                                                 *)
FairSpec ==
    /\ Spec
    /\ WF_vars(up /\ MainStep)
    /\ WF_vars(up /\ SPStep)
    /\ WF_vars(up /\ QuitPeers)
    /\ WF_vars(up /\ (ListenDies \/ \E c \in Conns : AddPeer(c)))
    /\ \A c \in Conns : WF_vars(up /\ PeerStep(c))
    /\ WF_vars(up /\ sp = "told" /\ SPCloses)

-----------------------------------------------------------------------------
(* Properties *)

TypeOK ==
    /\ up \in BOOLEAN
    /\ pc \in [Threads -> PCs]
    /\ mutex \in Threads \cup {NoThread}
    /\ asleep \subseteq Threads
    /\ clients \in [Index -> Conns \cup {NoConn}]
    /\ peer_count \in Index
    /\ listed \subseteq Conns
    /\ waiting_threads \in Nat
    /\ ready_to_start \in BOOLEAN
    /\ cancelled \subseteq Threads
    /\ idx \in Nat
    /\ unread \in Nat
    /\ sp \in {"up", "told", "over"}
    /\ asks \in BOOLEAN
    /\ asked \in 0 .. MaxAsks
    /\ sendSP \in BOOLEAN

(* pthread_cancel is called on threads that still run: listen_threads holds *)
(* no thread that has exited, also during a relocation.                     *)
ListedRun ==
    \A c \in listed : pc[c] \in {"born", "parked", "check", "recv", "got", "leave"}

(* Until the client is asked to relocate, and until it quits, the clients a *)
(* message is forwarded to are exactly those it listens to, each once.      *)
ForwardsToListened ==
    (/\ mutex = NoThread /\ asked = 0 /\ pc[Send] # "gone"
     /\ pc[Main] \notin {"count", "entries", "lock"}) =>
        /\ {clients[i] : i \in 0 .. peer_count - 1} = listed
        /\ Cardinality(listed) = peer_count

(* "Wait until all worker threads are ready and waiting" (receiveClients):  *)
(* when main starts them, every thread in listen_threads waits.  After a    *)
(* relocation ready_to_start is still set, and no new thread waits for the  *)
(* SP thread.                                                               *)
AllWait ==
    [][StartThreads(Main) => \A c \in listed : pc[c] = "parked"]_vars

(* A cancelled thread has left the mutex locked.                            *)
Orphaned == mutex # NoThread /\ pc[mutex] = "dead"

(* A receive thread is never left waiting for a start that has happened,    *)
(* nor main for threads that are ready, unless a cancelled thread leaves    *)
(* the mutex locked.                                                        *)
EverybodyStarts ==
    /\ pc[Main] = "wait" ~> pc[Main] # "wait" \/ ~up
    /\ \A c \in Conns : pc[c] = "parked" ~> pc[c] # "parked" \/ ~up \/ Orphaned

(* "Wait until listen_count and peer_count are both 0": once they are, the  *)
(* SP thread wakes up, unless a cancelled thread leaves the mutex locked.   *)
RelocationGoesOn ==
    (SP \in asleep /\ listed = {} /\ peer_count = 0) ~> (SP \notin asleep \/ ~up \/ Orphaned)

Quitting == pc[Send] = "quit"

=============================================================================
