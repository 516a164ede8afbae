----------------------- MODULE HypercubeClientProofs -----------------------
(***************************************************************************)
(* Proofs about HypercubeClient, for any number of neighbours, of           *)
(* relocations and of entries in a list.                                    *)
(***************************************************************************)
EXTENDS HypercubeClient, Counting, TLAPS

(* A thread that was cancelled has run, and is no longer listed.            *)
CancelledLeft ==
    \A c \in Conns \cap cancelled : c \notin listed /\ pc[c] \notin {"none", "called"}

(* The inductive invariant: ListedRun survives a pthread_cancel only because *)
(* the cancelled threads are taken off the list.                            *)
CInv == TypeOK /\ ListedRun /\ CancelledLeft

-----------------------------------------------------------------------------

(* The client's own threads are none of the receive threads.                *)
LEMMA OwnThreads ==
    /\ Main \in Threads /\ SP \in Threads /\ Send \in Threads /\ Listen \in Threads
    /\ Main \notin Conns /\ SP \notin Conns /\ Send \notin Conns /\ Listen \notin Conns
    /\ Conns \subseteq Threads
BY ThreadAssumption DEF Threads, Own

(* A step of one thread changes the pc of that thread only.                 *)
LEMMA GotoType ==
    ASSUME pc \in [Threads -> PCs], NEW t \in Threads, NEW label \in PCs, Goto(t, label)
    PROVE  /\ pc' \in [Threads -> PCs]
           /\ \A u \in Threads : pc'[u] = IF u = t THEN label ELSE pc[u]
BY DEF Goto

(* A step of one of the client's own threads that cancels nobody and lists  *)
(* nobody.                                                                  *)
LEMMA OwnGoto ==
    ASSUME CInv, NEW t \in Own, NEW label \in PCs, Goto(t, label),
           UNCHANGED <<listed, cancelled>>
    PROVE  pc' \in [Threads -> PCs] /\ ListedRun' /\ CancelledLeft'
<1>1. t \in Threads /\ t \notin Conns
      BY ThreadAssumption DEF Threads
<1>2. pc' \in [Threads -> PCs] /\ \A c \in Conns : pc'[c] = pc[c]
      BY <1>1, GotoType, OwnThreads DEF CInv, TypeOK
<1>3. listed \subseteq Conns
      BY DEF CInv, TypeOK
<1> QED BY <1>2, <1>3 DEF CInv, ListedRun, CancelledLeft

(* A step that leaves the threads and their lists alone.                    *)
LEMMA SameThreads ==
    ASSUME CInv, UNCHANGED <<pc, listed, cancelled>>
    PROVE  ListedRun' /\ CancelledLeft'
BY DEF CInv, ListedRun, CancelledLeft

(* It holds when main starts.                                               *)
LEMMA CInit == Init => CInv
<1> SUFFICES ASSUME Init PROVE CInv
    OBVIOUS
<1>1. pc \in [Threads -> PCs]
      BY DEF Init, PCs
<1>2. 0 \in Index /\ 0 \in 0 .. MaxAsks
      BY BoundAssumption DEF Index
<1>3. clients \in [Index -> Conns \cup {NoConn}]
      BY DEF Init
<1>4. TypeOK
      BY <1>1, <1>2, <1>3 DEF Init, TypeOK
<1> QED BY <1>4 DEF Init, CInv, ListedRun, CancelledLeft

-----------------------------------------------------------------------------
(* Steps *)

(* The super-peer.                                                          *)
LEMMA SuperPeerInv ==
    ASSUME CInv, SPAsks \/ SPCloses
    PROVE  CInv'
<1>1. UNCHANGED <<pc, listed, cancelled>>
      BY DEF SPAsks, SPCloses, shared
<1>2. asked' \in 0 .. MaxAsks
      BY BoundAssumption DEF CInv, TypeOK, SPAsks, SPCloses
<1>3. asks' \in BOOLEAN /\ sp' \in {"up", "told", "over"}
      BY DEF CInv, TypeOK, SPAsks, SPCloses
<1>4. UNCHANGED <<up, mutex, asleep, shared, idx, unread, sendSP>>
      BY DEF SPAsks, SPCloses
<1>5. TypeOK'
      BY <1>1, <1>2, <1>3, <1>4 DEF CInv, TypeOK, shared
<1> QED BY <1>1, <1>5, SameThreads DEF CInv

(* The end of the process.                                                  *)
LEMMA ExitInv ==
    ASSUME CInv, Exit
    PROVE  CInv'
<1>1. UNCHANGED <<pc, listed, cancelled>>
      BY DEF Exit, shared
<1>2. TypeOK'
      BY DEF CInv, TypeOK, Exit, shared, link
<1> QED BY <1>1, <1>2, SameThreads DEF CInv

(* receiveClients.                                                          *)
LEMMA ReceiveClientsInv ==
    ASSUME CInv, NEW a \in {Main, SP}, ReceiveClients(a)
    PROVE  CInv'
<1>0. a \in Own /\ a \in Threads /\ {"entries", "lock", "connect", "wait", "spawn", "tag"} \subseteq PCs
      BY OwnThreads DEF Own, PCs
<1>1. CASE Exit
      BY <1>1, ExitInv
<1>2. CASE RecvCount(a) /\ ~Exit
  <2>1. ListedRun' /\ CancelledLeft' /\ pc' \in [Threads -> PCs]
        BY <1>0, <1>2, OwnGoto DEF RecvCount
  <2>2. peer_count' \in Index /\ unread' \in Nat /\ idx' \in Nat
    <3>1. PICK n \in 0 .. Longest(a) : peer_count' = n /\ unread' = n
          BY <1>2 DEF RecvCount
    <3>2. n \in Index
          BY BoundAssumption DEF Longest, Index
    <3> QED BY <1>2, <3>1, <3>2 DEF RecvCount, Index
  <2>3. UNCHANGED <<up, mutex, asleep, clients, listed, waiting_threads, ready_to_start,
                    cancelled, sp, asks, asked, sendSP>>
        BY <1>2 DEF RecvCount
  <2>4. TypeOK'
        BY <2>1, <2>2, <2>3 DEF CInv, TypeOK
  <2> QED BY <2>1, <2>4 DEF CInv
<1>3. CASE RecvEntry(a)
  <2>1. UNCHANGED <<pc, listed, cancelled>>
        BY <1>3 DEF RecvEntry, shared
  <2>2. idx' \in Nat /\ unread' \in Nat
        BY <1>3 DEF CInv, TypeOK, RecvEntry
  <2>3. TypeOK'
        BY <1>3, <2>2 DEF CInv, TypeOK, RecvEntry, shared
  <2> QED BY <2>1, <2>3, SameThreads DEF CInv
<1>4. CASE EntriesRead(a) \/ LockClients(a)
  <2>1. ListedRun' /\ CancelledLeft' /\ pc' \in [Threads -> PCs]
        BY <1>0, <1>4, OwnGoto DEF EntriesRead, LockClients, shared
  <2>2. TypeOK'
        BY <1>0, <1>4, <2>1 DEF CInv, TypeOK, EntriesRead, LockClients, shared, link
  <2> QED BY <2>1, <2>2 DEF CInv
<1>5. CASE AwaitThreads(a) \/ StartThreads(a)
  <2>1. ListedRun' /\ CancelledLeft' /\ pc' \in [Threads -> PCs]
        BY <1>0, <1>5, OwnGoto DEF AwaitThreads, StartThreads, shared
  <2>2. TypeOK'
        BY <1>0, <1>5, <2>1 DEF CInv, TypeOK, AwaitThreads, StartThreads, shared, link
  <2> QED BY <2>1, <2>2 DEF CInv
<1>6. CASE ConnectNext(a) /\ ~Exit
  <2>1. PICK c \in Conns :
            /\ pc[c] = "none"
            /\ clients' = [clients EXCEPT ![idx] = c]
            /\ listed'  = listed \cup {c}
            /\ Goto(c, "born")
            /\ idx' = idx + 1
        BY <1>6 DEF ConnectNext
  <2>2. UNCHANGED <<up, mutex, asleep, peer_count, waiting_threads, ready_to_start, cancelled, link>>
        BY <1>6 DEF ConnectNext
  <2>3. pc' \in [Threads -> PCs] /\ \A u \in Threads : pc'[u] = IF u = c THEN "born" ELSE pc[u]
        BY <2>1, GotoType, OwnThreads DEF CInv, TypeOK, PCs
  <2>4. c \notin cancelled
        BY <2>1 DEF CInv, CancelledLeft
  <2>5. ListedRun' /\ CancelledLeft'
        BY <2>1, <2>2, <2>3, <2>4, OwnThreads DEF CInv, TypeOK, ListedRun, CancelledLeft
  <2>6. clients' \in [Index -> Conns \cup {NoConn}] /\ idx' \in Nat
    <3>1. clients \in [Index -> Conns \cup {NoConn}] /\ idx \in Nat
          BY DEF CInv, TypeOK
    <3>2. clients' \in [Index -> Conns \cup {NoConn}]
          BY <2>1, <3>1
    <3> QED BY <2>1, <3>1, <3>2
  <2>7. TypeOK'
        BY <2>1, <2>2, <2>3, <2>6 DEF CInv, TypeOK, link
  <2> QED BY <2>5, <2>7 DEF CInv
<1> QED BY <1>1, <1>2, <1>3, <1>4, <1>5, <1>6 DEF ReceiveClients

(* main and the send thread.                                                *)
LEMMA MainSendInv ==
    ASSUME CInv, Spawn \/ JoinSend \/ JoinListen \/ JoinSP \/ QuitSP \/ QuitPeers
    PROVE  CInv'
<1>0. {Main, SP, Send, Listen} \subseteq Own
      BY DEF Own
<1>1. CASE JoinSP
      BY <1>1, ExitInv DEF JoinSP
<1>2. CASE Spawn
  <2>1. /\ pc' \in [Threads -> PCs]
        /\ \A c \in Conns : pc'[c] = pc[c]
        BY <1>2, OwnThreads DEF CInv, TypeOK, Spawn, PCs
  <2>2. UNCHANGED <<up, mutex, asleep, shared, cancelled, idx, link>>
        BY <1>2 DEF Spawn
  <2>3. TypeOK'
        BY <2>1, <2>2 DEF CInv, TypeOK, shared, link
  <2>4. ListedRun' /\ CancelledLeft'
        BY <2>1, <2>2 DEF CInv, TypeOK, ListedRun, CancelledLeft, shared
  <2> QED BY <2>3, <2>4 DEF CInv
<1>3. CASE JoinSend
  <2>1. pc' \in [Threads -> PCs] /\ \A u \in Threads : pc'[u] = IF u = Main THEN "joinListen" ELSE pc[u]
        BY <1>3, GotoType, OwnThreads DEF CInv, TypeOK, JoinSend, PCs
  <2>2. UNCHANGED <<up, mutex, asleep, shared, idx, link>> /\ cancelled' = cancelled \cup {Listen}
        BY <1>3 DEF JoinSend
  <2>3. cancelled' \subseteq Threads
        BY <2>2, OwnThreads DEF CInv, TypeOK
  <2>4. TypeOK'
        BY <2>1, <2>2, <2>3 DEF CInv, TypeOK, shared, link
  <2>5. ListedRun' /\ CancelledLeft'
        BY <2>1, <2>2, OwnThreads DEF CInv, TypeOK, ListedRun, CancelledLeft, shared
  <2> QED BY <2>4, <2>5 DEF CInv
<1>4. CASE JoinListen \/ QuitSP
  <2>1. ListedRun' /\ CancelledLeft' /\ pc' \in [Threads -> PCs]
        BY <1>0, <1>4, OwnGoto DEF JoinListen, QuitSP, shared, PCs
  <2>2. TypeOK'
        BY <1>4, <2>1 DEF CInv, TypeOK, JoinListen, QuitSP, shared, link
  <2> QED BY <2>1, <2>2 DEF CInv
<1>5. CASE QuitPeers
  <2>1. pc' \in [Threads -> PCs] /\ \A u \in Threads : pc'[u] = IF u = Send THEN "gone" ELSE pc[u]
        BY <1>5, GotoType, OwnThreads DEF CInv, TypeOK, QuitPeers, PCs
  <2>2. /\ listed' = {} /\ cancelled' = cancelled \cup listed /\ peer_count' = 0
        /\ UNCHANGED <<up, mutex, asleep, clients, waiting_threads, ready_to_start, idx, link>>
        BY <1>5 DEF QuitPeers
  <2>3. cancelled' \subseteq Threads /\ 0 \in Index
        BY <2>2, OwnThreads, BoundAssumption DEF CInv, TypeOK, Index
  <2>4. TypeOK'
        BY <2>1, <2>2, <2>3 DEF CInv, TypeOK, link
  <2>5. ListedRun' /\ CancelledLeft'
        BY <2>1, <2>2, OwnThreads DEF CInv, TypeOK, ListedRun, CancelledLeft
  <2> QED BY <2>4, <2>5 DEF CInv
<1> QED BY <1>1, <1>2, <1>3, <1>4, <1>5

(* The listening thread.                                                    *)
LEMMA ListenInv ==
    ASSUME CInv, AcceptPeer \/ ListenDies \/ \E c \in Conns : AddPeer(c)
    PROVE  CInv'
<1>0. pc \in [Threads -> PCs] /\ listed \subseteq Conns
      BY DEF CInv, TypeOK
<1>1. CASE AcceptPeer
  <2>1. PICK c \in Conns : pc[c] = "none" /\ pc' = [pc EXCEPT ![c] = "called", ![Listen] = "add"]
        BY <1>1 DEF AcceptPeer
  <2>2. UNCHANGED <<up, mutex, asleep, shared, cancelled, idx, link>>
        BY <1>1 DEF AcceptPeer
  <2>3. /\ pc' \in [Threads -> PCs]
        /\ \A d \in Conns : pc'[d] = IF d = c THEN "called" ELSE pc[d]
        BY <1>0, <2>1, OwnThreads DEF PCs
  <2>4. c \notin cancelled /\ c \notin listed
        BY <2>1 DEF CInv, CancelledLeft, ListedRun
  <2>5. TypeOK'
        BY <2>2, <2>3 DEF CInv, TypeOK, shared, link
  <2>6. ListedRun' /\ CancelledLeft'
        BY <1>0, <2>2, <2>3, <2>4 DEF CInv, ListedRun, CancelledLeft, shared
  <2> QED BY <2>5, <2>6 DEF CInv
<1>2. CASE ListenDies
  <2>1. ListedRun' /\ CancelledLeft' /\ pc' \in [Threads -> PCs]
        BY <1>2, OwnGoto DEF ListenDies, shared, PCs, Own
  <2>2. TypeOK'
        BY <1>2, <2>1 DEF CInv, TypeOK, ListenDies, shared, link
  <2> QED BY <2>1, <2>2 DEF CInv
<1>3. ASSUME NEW c \in Conns, AddPeer(c) PROVE CInv'
  <2>1. /\ pc[c] = "called"
        /\ clients' = [clients EXCEPT ![peer_count] = c]
        /\ peer_count' = (peer_count + 1) % MAX_CLIENTS
        /\ UNCHANGED <<up, asleep, waiting_threads, ready_to_start, cancelled, idx, link>>
        BY <1>3 DEF AddPeer
  <2>2. \E label \in {"accept", "dead"} : pc' = [pc EXCEPT ![c] = "born", ![Listen] = label]
        BY <1>3 DEF AddPeer
  <2>3. listed' \subseteq listed \cup {c} /\ (mutex' = mutex \/ mutex' = Listen)
        BY <1>3 DEF AddPeer
  <2>4. /\ pc' \in [Threads -> PCs]
        /\ \A d \in Conns : pc'[d] = IF d = c THEN "born" ELSE pc[d]
        BY <1>0, <2>2, OwnThreads DEF PCs
  <2>5. c \notin cancelled
        BY <2>1 DEF CInv, CancelledLeft
  <2>6. ListedRun' /\ CancelledLeft'
        BY <1>0, <2>1, <2>3, <2>4, <2>5 DEF CInv, ListedRun, CancelledLeft
  <2>7. clients' \in [Index -> Conns \cup {NoConn}]
    <3>1. clients \in [Index -> Conns \cup {NoConn}]
          BY DEF CInv, TypeOK
    <3> QED BY <2>1, <3>1
  <2>8. peer_count' \in Index
    <3>1. peer_count \in Nat /\ MAX_CLIENTS \in Nat \ {0}
          BY BoundAssumption DEF CInv, TypeOK, Index
    <3> QED BY <2>1, <3>1 DEF Index
  <2>9. mutex' \in Threads \cup {NoThread}
        BY <2>3, OwnThreads DEF CInv, TypeOK
  <2>10. TypeOK'
        BY <1>0, <2>1, <2>3, <2>4, <2>7, <2>8, <2>9 DEF CInv, TypeOK, link
  <2> QED BY <2>6, <2>10 DEF CInv
<1> QED BY <1>1, <1>2, <1>3

(* The SP thread, outside receiveClients.                                   *)
LEMMA SPInv ==
    ASSUME CInv, SPTag \/ Relocate \/ Redial \/ AwaitZero
    PROVE  CInv'
<1>0. SP \in Own /\ SP \in Threads
      BY OwnThreads DEF Own
<1>1. CASE SPTag
  <2>1. PICK label \in {"tag", "relocate", "gone"} : Goto(SP, label)
        BY <1>1 DEF SPTag
  <2>2. UNCHANGED <<up, mutex, asleep, shared, cancelled, idx, sp, asked, sendSP>>
        BY <1>1 DEF SPTag
  <2>3. ListedRun' /\ CancelledLeft' /\ pc' \in [Threads -> PCs]
        BY <1>0, <2>1, <2>2, OwnGoto DEF shared, PCs
  <2>4. unread' \in Nat /\ asks' \in BOOLEAN
    <3>1. unread \in Nat /\ asks \in BOOLEAN
          BY DEF CInv, TypeOK
    <3>2. (unread > 0 /\ unread' = unread - 1) \/ unread' = unread
          BY <1>1 DEF SPTag
    <3>3. asks' = FALSE \/ asks' = asks
          BY <1>1 DEF SPTag
    <3>4. unread' \in Nat
          BY <3>1, <3>2
    <3> QED BY <3>1, <3>3, <3>4
  <2>5. TypeOK'
        BY <2>2, <2>3, <2>4 DEF CInv, TypeOK, shared
  <2> QED BY <2>3, <2>5 DEF CInv
<1>2. CASE Relocate
  <2>1. ListedRun' /\ CancelledLeft' /\ pc' \in [Threads -> PCs]
        BY <1>0, <1>2, OwnGoto DEF Relocate, PCs
  <2>2. 0 \in Index
        BY BoundAssumption DEF Index
  <2>3. TypeOK'
        BY <1>2, <2>1, <2>2 DEF CInv, TypeOK, Relocate
  <2> QED BY <2>1, <2>3 DEF CInv
<1>3. CASE Redial /\ ~Exit
  <2>1. PICK label \in {"waitzero", "gone"} : Goto(SP, label)
        BY <1>3 DEF Redial
  <2>2. UNCHANGED <<up, mutex, asleep, shared, cancelled, idx, unread, asks, asked>>
        BY <1>3 DEF Redial, link
  <2>3. sp' \in {"up", "told", "over"} /\ sendSP' \in BOOLEAN
        BY <1>3 DEF CInv, TypeOK, Redial, link
  <2>4. ListedRun' /\ CancelledLeft' /\ pc' \in [Threads -> PCs]
        BY <1>0, <2>1, <2>2, OwnGoto DEF shared, PCs
  <2>5. TypeOK'
        BY <2>2, <2>3, <2>4 DEF CInv, TypeOK, shared
  <2> QED BY <2>4, <2>5 DEF CInv
<1>4. CASE Exit
      BY <1>4, ExitInv
<1>5. CASE AwaitZero
  <2>1. asleep' \subseteq Threads /\ UNCHANGED <<up, mutex, shared, cancelled, idx, link>>
        BY <1>0, <1>5 DEF CInv, TypeOK, AwaitZero
  <2>2. CASE UNCHANGED pc
    <3>1. TypeOK'
          BY <2>1, <2>2 DEF CInv, TypeOK, shared, link
    <3> QED BY <2>1, <2>2, <3>1, SameThreads DEF CInv, shared
  <2>3. CASE Goto(SP, "count")
    <3>1. ListedRun' /\ CancelledLeft' /\ pc' \in [Threads -> PCs]
          BY <1>0, <2>1, <2>3, OwnGoto DEF shared, PCs
    <3>2. TypeOK'
          BY <2>1, <3>1 DEF CInv, TypeOK, shared, link
    <3> QED BY <3>1, <3>2 DEF CInv
  <2> QED BY <1>5, <2>2, <2>3 DEF AwaitZero
<1> QED BY <1>1, <1>2, <1>3, <1>4, <1>5

(* updateClientList keeps clients[] and peer_count within their bounds.     *)
LEMMA UpdateType ==
    ASSUME TypeOK, NEW c \in Conns, UpdateClientList(c)
    PROVE  clients' \in [Index -> Conns \cup {NoConn}] /\ peer_count' \in Index
<1> DEFINE at == {i \in Index : i < peer_count /\ clients[i] = c}
           first == CHOOSE i \in at : \A j \in at : i <= j
<1>0. /\ clients \in [Index -> Conns \cup {NoConn}]
      /\ peer_count \in Nat /\ peer_count < MAX_CLIENTS /\ MAX_CLIENTS \in Nat
      /\ peer_count \in Index
      BY BoundAssumption DEF TypeOK, Index
<1>1. CASE at = {}
      BY <1>0, <1>1 DEF UpdateClientList
<1>2. CASE at # {}
  <2>1. /\ clients' = [i \in Index |-> IF first <= i /\ i < peer_count - 1
                                       THEN clients[i + 1] ELSE clients[i]]
        /\ peer_count' = peer_count - 1
        BY <1>2 DEF UpdateClientList
  <2>2. PICK k \in Index : k < peer_count
        BY <1>2
  <2>3. peer_count - 1 \in Index
        BY <1>0, <2>2 DEF Index
  <2>4. \A i \in Index : i < peer_count - 1 => i + 1 \in Index
        BY <1>0 DEF Index
  <2>5. \A i \in Index :
            (IF first <= i /\ i < peer_count - 1 THEN clients[i + 1] ELSE clients[i])
                \in Conns \cup {NoConn}
    <3> HIDE DEF first
    <3> QED BY <1>0, <2>4
  <2> HIDE DEF first
  <2> QED BY <2>1, <2>3, <2>5
<1> QED BY <1>1, <1>2

(* A receive thread moves on, with or without the mutex, and stays one that *)
(* may be listed, or leaves the list as it ends.                            *)
LEMMA PeerGoto ==
    ASSUME CInv, NEW c \in Conns, NEW label \in PCs, Goto(c, label),
           label \notin {"none", "called"},
           UNCHANGED cancelled,
           listed' \subseteq listed,
           c \in listed' => label \in {"born", "parked", "check", "recv", "got", "leave"}
    PROVE  pc' \in [Threads -> PCs] /\ ListedRun' /\ CancelledLeft'
<1>1. pc' \in [Threads -> PCs] /\ \A u \in Threads : pc'[u] = IF u = c THEN label ELSE pc[u]
      BY GotoType, OwnThreads DEF CInv, TypeOK
<1>2. listed \subseteq Conns /\ Conns \subseteq Threads
      BY OwnThreads DEF CInv, TypeOK
<1>3. ListedRun'
      BY <1>1, <1>2 DEF CInv, ListedRun
<1>4. CancelledLeft'
      BY <1>1, <1>2 DEF CInv, CancelledLeft
<1> QED BY <1>1, <1>3, <1>4

(* A receive thread.                                                        *)
LEMMA PeerInv ==
    ASSUME CInv, NEW c \in Conns, PeerStep(c) \/ Recv(c)
    PROVE  CInv'
<1>0. /\ c \in Threads
      /\ {"check", "parked", "recv", "got", "leave", "gone", "dead"} \subseteq PCs
      BY OwnThreads DEF PCs
<1>1. CASE Born(c)
  <2>1. PICK label \in {"check", "parked"} : Goto(c, label)
        BY <1>1 DEF Born
  <2>2. UNCHANGED <<up, mutex, clients, peer_count, listed, ready_to_start, cancelled, idx, link>>
        BY <1>1 DEF Born
  <2>3. ListedRun' /\ CancelledLeft' /\ pc' \in [Threads -> PCs]
        BY <1>0, <2>1, <2>2, PeerGoto
  <2>4. waiting_threads' \in Nat
        BY <1>1 DEF Born, CInv, TypeOK
  <2>5. asleep' \subseteq Threads
    <3>1. asleep' \subseteq asleep \cup {c}
          BY <1>1 DEF Born
    <3> QED BY <1>0, <3>1 DEF CInv, TypeOK
  <2>6. TypeOK'
        BY <2>2, <2>3, <2>4, <2>5 DEF CInv, TypeOK, link
  <2> QED BY <2>3, <2>6 DEF CInv
<1>2. CASE Wake(c)
  <2>1. UNCHANGED <<up, shared, cancelled, idx, link>>
        BY <1>2 DEF Wake
  <2>2. asleep' \subseteq Threads /\ mutex' \in Threads \cup {NoThread}
        BY <1>0, <1>2 DEF Wake, CInv, TypeOK
  <2>3. CASE UNCHANGED pc
    <3>1. ListedRun' /\ CancelledLeft'
          BY <2>1, <2>3, SameThreads DEF shared
    <3>2. TypeOK'
          BY <2>1, <2>2, <2>3 DEF CInv, TypeOK, shared, link
    <3> QED BY <3>1, <3>2 DEF CInv
  <2>4. CASE Goto(c, "check")
    <3>1. ListedRun' /\ CancelledLeft' /\ pc' \in [Threads -> PCs]
          BY <1>0, <2>1, <2>4, PeerGoto DEF shared
    <3>2. TypeOK'
          BY <2>1, <2>2, <3>1 DEF CInv, TypeOK, shared, link
    <3> QED BY <3>1, <3>2 DEF CInv
  <2>5. CASE c \in cancelled /\ Goto(c, "dead")
    <3>1. c \notin listed
          BY <2>5 DEF CInv, CancelledLeft
    <3>2. ListedRun' /\ CancelledLeft' /\ pc' \in [Threads -> PCs]
          BY <1>0, <2>1, <2>5, <3>1, PeerGoto DEF shared
    <3>3. TypeOK'
          BY <2>1, <2>2, <3>2 DEF CInv, TypeOK, shared, link
    <3> QED BY <3>2, <3>3 DEF CInv
  <2> QED BY <1>2, <2>3, <2>4, <2>5 DEF Wake
<1>3. CASE Check(c) \/ Recv(c)
  <2>1. PICK label \in {"recv", "got", "check", "leave"} : Goto(c, label)
        BY <1>3 DEF Check, Recv
  <2>2. UNCHANGED <<up, mutex, asleep, shared, cancelled, idx, link>>
        BY <1>3 DEF Check, Recv
  <2>3. ListedRun' /\ CancelledLeft' /\ pc' \in [Threads -> PCs]
        BY <1>0, <2>1, <2>2, PeerGoto DEF shared
  <2>4. TypeOK'
        BY <2>2, <2>3 DEF CInv, TypeOK, shared, link
  <2> QED BY <2>3, <2>4 DEF CInv
<1>4. CASE Forward(c) \/ RecvDies(c)
  <2>1. UNCHANGED <<up, asleep, shared, cancelled, idx, link>>
        BY <1>4 DEF Forward, RecvDies
  <2>2. mutex' \in Threads \cup {NoThread}
        BY <1>0, <1>4 DEF Forward, RecvDies, CInv, TypeOK
  <2>3. Goto(c, "check") \/ (c \in cancelled /\ Goto(c, "dead"))
        BY <1>4 DEF Forward, RecvDies
  <2>4. ListedRun' /\ CancelledLeft' /\ pc' \in [Threads -> PCs]
    <3>1. CASE Goto(c, "check")
          BY <1>0, <2>1, <3>1, PeerGoto DEF shared
    <3>2. CASE c \in cancelled /\ Goto(c, "dead")
      <4>1. c \notin listed
            BY <3>2 DEF CInv, CancelledLeft
      <4> QED BY <1>0, <2>1, <3>2, <4>1, PeerGoto DEF shared
    <3> QED BY <2>3, <3>1, <3>2
  <2>5. TypeOK'
        BY <2>1, <2>2, <2>4 DEF CInv, TypeOK, shared, link
  <2> QED BY <2>4, <2>5 DEF CInv
<1>5. CASE Leave(c)
  <2>1. PICK label \in {"gone", "dead"} : Goto(c, label)
        BY <1>5 DEF Leave
  <2>2. /\ UNCHANGED <<up, asleep, waiting_threads, ready_to_start, cancelled, idx, link>>
        /\ listed' = listed \ {c}
        BY <1>5 DEF Leave
  <2>3. ListedRun' /\ CancelledLeft' /\ pc' \in [Threads -> PCs]
        BY <1>0, <2>1, <2>2, PeerGoto
  <2>4. mutex' \in Threads \cup {NoThread}
        BY <1>0, <1>5 DEF Leave, CInv, TypeOK
  <2>5. clients' \in [Index -> Conns \cup {NoConn}] /\ peer_count' \in Index
        BY <1>5, UpdateType DEF Leave, CInv
  <2>6. TypeOK'
        BY <2>2, <2>3, <2>4, <2>5 DEF CInv, TypeOK, link
  <2> QED BY <2>3, <2>6 DEF CInv
<1> QED BY <1>1, <1>2, <1>3, <1>4, <1>5 DEF PeerStep

(* Every step preserves the invariant.                                      *)
LEMMA CStep == CInv /\ [Next]_vars => CInv'
<1> SUFFICES ASSUME CInv, [Next]_vars PROVE CInv'
    OBVIOUS
<1>1. CASE MainStep
      BY <1>1, ReceiveClientsInv, MainSendInv DEF MainStep
<1>2. CASE SPStep
      BY <1>2, ReceiveClientsInv, SPInv DEF SPStep
<1>3. CASE QuitSP \/ QuitPeers
      BY <1>3, MainSendInv
<1>4. CASE AcceptPeer \/ ListenDies \/ \E c \in Conns : AddPeer(c)
      BY <1>4, ListenInv
<1>5. CASE \E c \in Conns : PeerStep(c) \/ Recv(c)
      BY <1>5, PeerInv
<1>6. CASE SPAsks \/ SPCloses
      BY <1>6, SuperPeerInv
<1>7. CASE UNCHANGED vars
  <2>1. UNCHANGED <<pc, listed, cancelled>>
        BY <1>7 DEF vars, shared
  <2>2. TypeOK'
        BY <1>7 DEF CInv, TypeOK, vars, shared, link
  <2> QED BY <2>1, <2>2, SameThreads DEF CInv
<1> QED BY <1>1, <1>2, <1>3, <1>4, <1>5, <1>6, <1>7 DEF Next

-----------------------------------------------------------------------------
(* Theorems *)

(* Every variable keeps its type: in particular peer_count, which wraps in  *)
(* addNewClientWrapper and is decremented by updateClientList, never goes   *)
(* below 0 and always indexes clients[].                                    *)
THEOREM TypeCorrect == Spec => []TypeOK
<1>1. CInv => TypeOK
      BY DEF CInv
<1> QED BY <1>1, CInit, CStep, PTL DEF Spec

(* listen_threads holds no thread that has exited, so that the send thread  *)
(* calls pthread_cancel only on threads that still run, whatever the order  *)
(* of newcomers, departures, relocations and quitting.                      *)
THEOREM ListedRunCorrect == Spec => []ListedRun
<1>1. CInv => ListedRun
      BY DEF CInv
<1> QED BY <1>1, CInit, CStep, PTL DEF Spec

-----------------------------------------------------------------------------
(* Starting: until main starts the receive threads it is alone with them.   *)

BootPCs == {"count", "entries", "lock", "connect", "wait"}

(* The other threads of the client are created when main has started the    *)
(* receive threads.                                                         *)
NotYet ==
    pc[Main] \in BootPCs \cup {"spawn"} =>
        pc[SP] = "none" /\ pc[Send] = "none" /\ pc[Listen] = "none"

Parked == {c \in Conns : pc[c] = "parked"}

(* Every receive thread so far is listed, has been born or waits, and is    *)
(* counted when it waits; main has created one for every entry it has       *)
(* passed.                                                                  *)
BootBody ==
    /\ ~ready_to_start /\ cancelled = {}
    /\ \A c \in Conns : /\ pc[c] \in {"none", "born", "parked"}
                        /\ c \in listed <=> pc[c] # "none"
    /\ IsFiniteSet(listed)
    /\ waiting_threads = Cardinality(Parked)
    /\ pc[Main] \in {"count", "entries", "lock"} => listed = {}
    /\ pc[Main] = "connect" =>
          mutex = Main /\ idx <= peer_count /\ Cardinality(listed) = idx
    /\ pc[Main] = "wait" => Cardinality(listed) = peer_count

Boot == pc[Main] \in BootPCs => BootBody

(* The client's own threads are four.                                       *)
LEMMA FourThreads ==
    /\ Main # SP /\ Main # Send /\ Main # Listen
    /\ SP # Send /\ SP # Listen /\ Send # Listen
<1>1. \A x, y, z : Cardinality({x, y, z}) # 4
  <2> TAKE x, y, z
  <2>1. IsFiniteSet({}) /\ Cardinality({}) = 0
        BY FS_EmptySet
  <2>2. IsFiniteSet({x}) /\ Cardinality({x}) = 1
        BY FS_Singleton
  <2>3. {x} \cup {y} = {x, y} /\ {x, y} \cup {z} = {x, y, z}
        OBVIOUS
  <2>4. IsFiniteSet({x, y}) /\ Cardinality({x, y}) \in {1, 2}
        BY <2>2, <2>3, FS_AddElement
  <2>5. Cardinality({x, y, z}) \in {1, 2, 3}
        BY <2>3, <2>4, FS_AddElement
  <2> QED BY <2>5
<1>2. Main = SP => Own = {SP, Send, Listen}
      BY DEF Own
<1>3. Main = Send => Own = {SP, Send, Listen}
      BY DEF Own
<1>4. Main = Listen => Own = {SP, Send, Listen}
      BY DEF Own
<1>5. SP = Send \/ SP = Listen => Own = {Main, Send, Listen}
      BY DEF Own
<1>6. Send = Listen => Own = {Main, SP, Listen}
      BY DEF Own
<1> QED BY <1>1, <1>2, <1>3, <1>4, <1>5, <1>6, ThreadAssumption

(* A thread changes its pc in a step of its own: main, the SP thread and    *)
(* the other two.                                                           *)
Others == QuitSP \/ QuitPeers \/ AcceptPeer \/ ListenDies \/ \E c \in Conns : AddPeer(c)

(* Every own thread moves only when it, or main, takes a step.              *)
LEMMA OwnMoves ==
    ASSUME TypeOK, [Next]_vars
    PROVE  /\ pc'[Main] = pc[Main] \/ MainStep
           /\ pc'[SP] = pc[SP] \/ SPStep \/ Spawn
           /\ pc'[Send] = pc[Send] \/ QuitSP \/ QuitPeers \/ Spawn
           /\ pc'[Listen] = pc[Listen] \/ Spawn \/ AcceptPeer \/ ListenDies
                \/ \E c \in Conns : AddPeer(c)
<1>0. pc \in [Threads -> PCs]
      BY DEF TypeOK
<1>1. ASSUME NEW t \in Threads, NEW label, Goto(t, label) \/ UNCHANGED pc
      PROVE  \A u \in Threads : u # t => pc'[u] = pc[u]
      BY <1>0, <1>1 DEF Goto
<1>2. ASSUME MainStep, ~Spawn
      PROVE  \A u \in Threads : u # Main => pc'[u] = pc[u] \/ \E c \in Conns : u = c
  <2>1. \/ UNCHANGED pc
        \/ \E label : Goto(Main, label)
        \/ \E c \in Conns : Goto(c, "born")
        BY <1>2 DEF MainStep, ReceiveClients, RecvCount, RecvEntry, EntriesRead, LockClients,
                    ConnectNext, AwaitThreads, StartThreads, JoinSend, JoinListen, JoinSP, Exit
  <2> QED BY <1>1, <2>1, OwnThreads
<1>3. ASSUME SPStep
      PROVE  \A u \in Threads : u # SP => pc'[u] = pc[u] \/ \E c \in Conns : u = c
  <2>1. \/ UNCHANGED pc
        \/ \E label : Goto(SP, label)
        \/ \E c \in Conns : Goto(c, "born")
        BY <1>3 DEF SPStep, ReceiveClients, RecvCount, RecvEntry, EntriesRead, LockClients,
                    ConnectNext, AwaitThreads, StartThreads, SPTag, Relocate, Redial, AwaitZero, Exit
  <2> QED BY <1>1, <2>1, OwnThreads
<1>4. ASSUME QuitSP \/ QuitPeers
      PROVE  \A u \in Threads : u # Send => pc'[u] = pc[u]
      BY <1>1, <1>4, OwnThreads DEF QuitSP, QuitPeers
<1>5. ASSUME AcceptPeer \/ ListenDies \/ \E c \in Conns : AddPeer(c)
      PROVE  \A u \in Threads : u # Listen => pc'[u] = pc[u] \/ \E c \in Conns : u = c
  <2>1. CASE ListenDies
        BY <1>1, <2>1, OwnThreads DEF ListenDies
  <2>2. ASSUME NEW c \in Conns, NEW k, NEW l, pc' = [pc EXCEPT ![c] = k, ![Listen] = l]
        PROVE  \A u \in Threads : u # Listen => pc'[u] = pc[u] \/ \E d \in Conns : u = d
        BY <1>0, <2>2
  <2>3. AcceptPeer => \E c \in Conns : pc' = [pc EXCEPT ![c] = "called", ![Listen] = "add"]
        BY DEF AcceptPeer
  <2>4. ASSUME NEW c \in Conns, AddPeer(c)
        PROVE  \/ pc' = [pc EXCEPT ![c] = "born", ![Listen] = "accept"]
               \/ pc' = [pc EXCEPT ![c] = "born", ![Listen] = "dead"]
        BY <2>4 DEF AddPeer
  <2> QED BY <1>5, <2>1, <2>2, <2>3, <2>4
<1>6. ASSUME NEW c \in Conns, PeerStep(c) \/ Recv(c)
      PROVE  \A u \in Threads : u # c => pc'[u] = pc[u]
  <2>1. UNCHANGED pc \/ \E label : Goto(c, label)
        BY <1>6 DEF PeerStep, Born, Wake, Check, Forward, Leave, RecvDies, Recv
  <2> QED BY <1>1, <2>1, OwnThreads
<1>7. SPAsks \/ SPCloses \/ UNCHANGED vars => UNCHANGED pc
      BY DEF SPAsks, SPCloses, vars
<1>8. Spawn => MainStep
      BY DEF MainStep
<1> QED BY <1>2, <1>3, <1>4, <1>5, <1>6, <1>7, <1>8, OwnThreads, FourThreads DEF Next

(* Main does not go back to its start.                                      *)
LEMMA Starting ==
    ASSUME TypeOK, [Next]_vars, pc'[Main] \in BootPCs \cup {"spawn"}
    PROVE  /\ ~Spawn
           /\ pc[Main] \in BootPCs \cup {"spawn"}
           /\ pc'[Main] \in BootPCs => pc[Main] \in BootPCs
<1>1. ~Spawn
  <2>1. Spawn => pc'[Main] = "joinSend"
        BY OwnThreads, FourThreads DEF TypeOK, Spawn
  <2> QED BY <2>1 DEF BootPCs
<1>2. CASE pc'[Main] = pc[Main]
      BY <1>1, <1>2
<1>3. CASE ReceiveClients(Main)
  <2>1. pc[Main] \in BootPCs
        BY <1>3 DEF ReceiveClients, RecvCount, RecvEntry, EntriesRead, LockClients,
                    ConnectNext, AwaitThreads, StartThreads, Testing, BootPCs
  <2> QED BY <1>1, <2>1
<1>4. CASE JoinSend \/ JoinListen \/ JoinSP
  <2>1. pc'[Main] \in {"joinListen", "joinSP"} \/ pc' = pc
        BY <1>4, OwnThreads DEF TypeOK, JoinSend, JoinListen, JoinSP, Goto, Exit
  <2>2. pc' = pc
        BY <2>1 DEF BootPCs
  <2> QED BY <1>1, <2>2
<1> QED BY <1>1, <1>2, <1>3, <1>4, OwnMoves DEF MainStep

(* The other own threads begin with Spawn.                                  *)
LEMMA NotYetStep ==
    ASSUME TypeOK, NotYet, [Next]_vars
    PROVE  NotYet'
<1> SUFFICES ASSUME pc'[Main] \in BootPCs \cup {"spawn"}
             PROVE  pc'[SP] = "none" /\ pc'[Send] = "none" /\ pc'[Listen] = "none"
    BY DEF NotYet
<1>1. ~Spawn
      BY Starting
<1>2. pc[Main] \in BootPCs \cup {"spawn"}
      BY Starting
<1>3. pc[SP] = "none" /\ pc[Send] = "none" /\ pc[Listen] = "none"
      BY <1>2 DEF NotYet
<1>4. ~SPStep
      BY <1>3 DEF SPStep, ReceiveClients, RecvCount, RecvEntry, EntriesRead, LockClients,
                  ConnectNext, AwaitThreads, StartThreads, Testing, SPTag, Relocate, Redial, AwaitZero
<1>5. ~QuitSP /\ ~QuitPeers /\ ~AcceptPeer /\ ~ListenDies /\ ~\E c \in Conns : AddPeer(c)
      BY <1>3 DEF QuitSP, QuitPeers, AcceptPeer, ListenDies, AddPeer
<1> QED BY <1>1, <1>3, <1>4, <1>5, OwnMoves

(* While main starts, only main, the new receive threads and the super-peer *)
(* act.                                                                     *)
LEMMA BootSteps ==
    ASSUME TypeOK, NotYet, Boot, [Next]_vars, pc'[Main] \in BootPCs
    PROVE  /\ pc[Main] \in BootPCs
           /\ \/ ReceiveClients(Main) /\ ~StartThreads(Main)
              \/ \E c \in Conns : Born(c) \/ (Wake(c) /\ UNCHANGED <<pc, mutex>>)
              \/ UNCHANGED <<pc, mutex, shared, cancelled, idx>>
<1>1. ~Spawn /\ ~StartThreads(Main)
  <2>1. StartThreads(Main) => pc'[Main] = "spawn"
        BY OwnThreads DEF TypeOK, StartThreads, Goto
  <2> QED BY <2>1, Starting DEF BootPCs
<1>2. (JoinSend \/ JoinListen \/ JoinSP) => pc[Main] \notin BootPCs
      BY DEF JoinSend, JoinListen, JoinSP, BootPCs
<1>3. pc[Main] \in BootPCs
      BY Starting
<1>4. pc[SP] = "none" /\ pc[Send] = "none" /\ pc[Listen] = "none"
      BY <1>3 DEF NotYet
<1>5. ~SPStep
      BY <1>4 DEF SPStep, ReceiveClients, RecvCount, RecvEntry, EntriesRead, LockClients,
                  ConnectNext, AwaitThreads, StartThreads, Testing, SPTag, Relocate, Redial, AwaitZero
<1>6. ~QuitSP /\ ~QuitPeers /\ ~AcceptPeer /\ ~ListenDies /\ ~\E c \in Conns : AddPeer(c)
      BY <1>4 DEF QuitSP, QuitPeers, AcceptPeer, ListenDies, AddPeer
<1>7. BootBody
      BY <1>3 DEF Boot
<1>8. ASSUME NEW c \in Conns, PeerStep(c) \/ Recv(c)
      PROVE  Born(c) \/ (Wake(c) /\ UNCHANGED <<pc, mutex>>)
  <2>1. pc[c] \in {"none", "born", "parked"} /\ ~ready_to_start /\ cancelled = {}
        BY <1>7 DEF BootBody
  <2>2. ~Check(c) /\ ~Forward(c) /\ ~Leave(c) /\ ~RecvDies(c) /\ ~Recv(c)
        BY <2>1 DEF Check, Forward, Leave, RecvDies, Recv
  <2>3. Wake(c) => UNCHANGED <<pc, mutex>>
        BY <2>1 DEF Wake
  <2> QED BY <1>8, <2>2, <2>3 DEF PeerStep
<1>9. SPAsks \/ SPCloses \/ UNCHANGED vars => UNCHANGED <<pc, mutex, shared, cancelled, idx>>
      BY DEF SPAsks, SPCloses, vars
<1>10. MainStep => ReceiveClients(Main)
       BY <1>1, <1>2, <1>3 DEF MainStep
<1> QED BY <1>1, <1>3, <1>5, <1>6, <1>8, <1>9, <1>10 DEF Next

(* A step that leaves the threads and what Boot says of them alone.         *)
LEMMA BootSame ==
    ASSUME BootBody, UNCHANGED <<mutex, shared, cancelled, idx>>,
           \A c \in Conns : pc'[c] = pc[c], pc'[Main] = pc[Main]
    PROVE  BootBody'
<1>1. Parked' = Parked
      BY DEF Parked
<1> QED BY <1>1 DEF BootBody, shared

(* Boot is preserved.                                                       *)
LEMMA BootStep ==
    ASSUME CInv, NotYet, Boot, [Next]_vars
    PROVE  Boot'
<1> SUFFICES ASSUME pc'[Main] \in BootPCs
             PROVE  BootBody'
    BY DEF Boot
<1>1. TypeOK /\ BootBody
      BY BootSteps DEF CInv, Boot
<1>2. pc \in [Threads -> PCs] /\ listed \subseteq Conns /\ peer_count \in Nat /\ idx \in Nat
      BY <1>1, BoundAssumption DEF TypeOK, Index
<1>3. Cardinality(Parked) \in Nat /\ IsFiniteSet(Parked) /\ IsFiniteSet(listed)
  <2>1. Parked \subseteq listed
        BY <1>1 DEF Parked, BootBody
  <2>2. IsFiniteSet(listed)
        BY <1>1 DEF BootBody
  <2> QED BY <2>1, <2>2, FS_Subset, FS_CardinalityType
<1>4. CASE UNCHANGED <<pc, mutex, shared, cancelled, idx>>
      BY <1>1, <1>4, BootSame
<1>5. ASSUME NEW t \in Own, NEW label, Goto(t, label)
      PROVE  /\ \A c \in Conns : pc'[c] = pc[c]
             /\ pc'[t] = label
             /\ Parked' = Parked
      BY <1>2, <1>5, ThreadAssumption DEF Goto, Threads, Parked
<1>6. Main \in Own
      BY DEF Own
<1>7. CASE Exit
      BY <1>1, <1>7, BootSame DEF Exit
<1>8. CASE RecvCount(Main) /\ ~Exit
  <2>1. /\ pc[Main] = "count" /\ Goto(Main, "entries")
        /\ UNCHANGED <<mutex, listed, waiting_threads, ready_to_start, cancelled>>
        BY <1>8 DEF RecvCount
  <2>2. pc'[Main] = "entries" /\ Parked' = Parked /\ \A c \in Conns : pc'[c] = pc[c]
        BY <1>5, <1>6, <2>1
  <2> QED BY <1>1, <2>1, <2>2 DEF BootBody
<1>9. CASE RecvEntry(Main)
  <2>1. pc[Main] = "entries" /\ pc' = pc /\ UNCHANGED <<mutex, shared, cancelled>>
        BY <1>9 DEF RecvEntry
  <2>2. Parked' = Parked
        BY <2>1 DEF Parked
  <2> QED BY <1>1, <2>1, <2>2 DEF BootBody, shared
<1>10. CASE EntriesRead(Main)
  <2>1. /\ pc[Main] = "entries" /\ Goto(Main, "lock")
        /\ UNCHANGED <<mutex, shared, cancelled>>
        BY <1>10 DEF EntriesRead
  <2>2. pc'[Main] = "lock" /\ Parked' = Parked /\ \A c \in Conns : pc'[c] = pc[c]
        BY <1>5, <1>6, <2>1
  <2> QED BY <1>1, <2>1, <2>2 DEF BootBody, shared
<1>11. CASE LockClients(Main)
  <2>1. /\ pc[Main] = "lock" /\ Goto(Main, "connect") /\ mutex' = Main /\ idx' = 0
        /\ UNCHANGED <<shared, cancelled>>
        BY <1>11 DEF LockClients
  <2>2. pc'[Main] = "connect" /\ Parked' = Parked /\ \A c \in Conns : pc'[c] = pc[c]
        BY <1>5, <1>6, <2>1
  <2>3. listed' = {} /\ Cardinality({}) = 0 /\ 0 <= peer_count /\ peer_count' = peer_count
        BY <1>1, <1>2, <2>1, FS_EmptySet DEF BootBody, shared
  <2> QED BY <1>1, <2>1, <2>2, <2>3 DEF BootBody, shared
<1>12. CASE ConnectNext(Main) /\ ~Exit
  <2>1. PICK c \in Conns : /\ pc[c] = "none" /\ Goto(c, "born")
                           /\ listed' = listed \cup {c} /\ idx' = idx + 1
        BY <1>12 DEF ConnectNext
  <2>2. /\ pc[Main] = "connect" /\ idx < peer_count
        /\ UNCHANGED <<mutex, peer_count, waiting_threads, ready_to_start, cancelled>>
        BY <1>12 DEF ConnectNext
  <2>3. \A u \in Threads : pc'[u] = IF u = c THEN "born" ELSE pc[u]
        BY <1>2, <2>1 DEF Goto
  <2>4. Parked' = Parked
        BY <2>1, <2>3, OwnThreads DEF Parked
  <2>5. c \notin listed
        BY <1>1, <2>1 DEF BootBody
  <2>6. IsFiniteSet(listed') /\ Cardinality(listed') = Cardinality(listed) + 1
        BY <1>3, <2>1, <2>5, OneMore
  <2>7. pc'[Main] = "connect"
        BY <2>2, <2>3, OwnThreads
  <2>8. idx + 1 <= peer_count
        BY <1>2, <2>2
  <2>9. \A d \in Conns : /\ pc'[d] \in {"none", "born", "parked"}
                         /\ d \in listed' <=> pc'[d] # "none"
        BY <1>1, <2>1, <2>3, OwnThreads DEF BootBody
  <2> QED BY <1>1, <2>1, <2>2, <2>4, <2>6, <2>7, <2>8, <2>9 DEF BootBody
<1>13. CASE AwaitThreads(Main)
  <2>1. Goto(Main, "wait") /\ UNCHANGED <<shared, cancelled>> /\ Testing(Main)
        BY <1>13 DEF AwaitThreads
  <2>2. pc'[Main] = "wait" /\ Parked' = Parked /\ \A c \in Conns : pc'[c] = pc[c]
        BY <1>5, <1>6, <2>1
  <2>3. Cardinality(listed) = peer_count
        BY <1>1, <1>2, <2>1 DEF Testing, BootBody
  <2> QED BY <1>1, <2>1, <2>2, <2>3 DEF BootBody, shared
<1>14. ASSUME NEW c \in Conns, Born(c) PROVE BootBody'
  <2>1. /\ pc[c] = "born" /\ Goto(c, "parked") /\ waiting_threads' = waiting_threads + 1
        /\ UNCHANGED <<mutex, peer_count, listed, ready_to_start, cancelled, idx>>
        BY <1>1, <1>14 DEF Born, BootBody
  <2>2. \A u \in Threads : pc'[u] = IF u = c THEN "parked" ELSE pc[u]
        BY <1>2, <2>1 DEF Goto
  <2>3. Parked' = Parked \cup {c} /\ c \notin Parked
        BY <2>1, <2>2, OwnThreads DEF Parked
  <2>4. Cardinality(Parked') = Cardinality(Parked) + 1
        BY <1>3, <2>3, OneMore
  <2>5. pc'[Main] = pc[Main]
        BY <2>2, OwnThreads
  <2>6. \A d \in Conns : /\ pc'[d] \in {"none", "born", "parked"}
                         /\ d \in listed' <=> pc'[d] # "none"
        BY <1>1, <2>1, <2>2, OwnThreads DEF BootBody
  <2> QED BY <1>1, <2>1, <2>4, <2>5, <2>6 DEF BootBody
<1>15. ASSUME NEW c \in Conns, Wake(c), UNCHANGED <<pc, mutex>> PROVE BootBody'
  <2>1. UNCHANGED <<pc, mutex, shared, cancelled, idx>>
        BY <1>15 DEF Wake
  <2> QED BY <1>4, <2>1
<1> QED BY <1>1, <1>4, <1>7, <1>8, <1>9, <1>10, <1>11, <1>12, <1>13, <1>14, <1>15, BootSteps
        DEF ReceiveClients

(* Both hold when main starts.                                              *)
LEMMA BootInit == Init => NotYet /\ Boot
<1> SUFFICES ASSUME Init PROVE NotYet /\ Boot
    OBVIOUS
<1>1. pc[Main] = "count" /\ \A t \in Threads : t # Main => pc[t] = "none"
      BY OwnThreads DEF Init
<1>2. NotYet
      BY <1>1, OwnThreads, FourThreads DEF NotYet
<1>3. Parked = {} /\ Cardinality({}) = 0 /\ IsFiniteSet({})
      BY <1>1, OwnThreads, FS_EmptySet DEF Parked
<1>4. BootBody
      BY <1>1, <1>3, OwnThreads DEF Init, BootBody
<1> QED BY <1>2, <1>4 DEF Boot

(* "Wait until all worker threads are ready and waiting": when main starts  *)
(* the receive threads, each of them waits, however many neighbours the     *)
(* list has and whatever the order in which the threads come to life.       *)
THEOREM AllWaitCorrect == Spec => AllWait
<1>1. Init => NotYet /\ Boot
      BY BootInit
<1>2. ASSUME CInv, Boot, StartThreads(Main), NEW c \in listed
      PROVE  pc[c] = "parked"
  <2>1. pc[Main] \in BootPCs
        BY <1>2 DEF StartThreads, Testing, BootPCs
  <2>2. BootBody
        BY <1>2, <2>1 DEF Boot
  <2>3. Parked \in SUBSET listed /\ IsFiniteSet(listed) /\ waiting_threads = Cardinality(Parked)
        BY <2>2 DEF Parked, BootBody
  <2>4. Cardinality(listed) = peer_count
    <3>1. idx \in Nat /\ peer_count \in Nat
          BY <1>2, BoundAssumption DEF CInv, TypeOK, Index
    <3> QED BY <1>2, <2>2, <3>1 DEF StartThreads, Testing, BootBody
  <2>5. /\ Cardinality(Parked) <= Cardinality(listed)
        /\ Cardinality(Parked) \in Nat /\ Cardinality(listed) \in Nat
        BY <2>3, FS_Subset, FS_CardinalityType
  <2>6. Cardinality(listed) <= Cardinality(Parked)
        BY <1>2, <2>3, <2>4 DEF StartThreads
  <2>7. Cardinality(listed) = Cardinality(Parked)
        BY <2>5, <2>6
  <2>8. Parked = listed
        BY <2>3, <2>7, FS_Subset
  <2> QED BY <2>8 DEF Parked
<1>3. CInv /\ Boot => [StartThreads(Main) => \A c \in listed : pc[c] = "parked"]_vars
      BY <1>2
<1>4. CInv /\ NotYet /\ Boot /\ [Next]_vars => NotYet' /\ Boot'
      BY NotYetStep, BootStep DEF CInv
<1> QED BY <1>1, <1>3, <1>4, CInit, CStep, PTL DEF Spec, AllWait

-----------------------------------------------------------------------------
(* The two lists of neighbours, until the client is asked to relocate or    *)
(* quits.                                                                   *)

(* The first n entries of clients[] are the listed neighbours, each once.   *)
Match(n) ==
    /\ {clients[i] : i \in 0 .. n - 1} = listed
    /\ \A i, j \in 0 .. n - 1 : clients[i] = clients[j] => i = j
    /\ IsFiniteSet(listed) /\ Cardinality(listed) = n

Settled == asked = 0 /\ pc[Send] # "gone"

(* Nothing of the neighbour list is left over that the SP thread could take *)
(* for a request to relocate, and the lists match as far as main has come.  *)
Matched ==
    /\ ~asks /\ cancelled = {} /\ pc[SP] \in {"none", "tag", "gone"}
    /\ pc[Main] \notin {"count", "entries"} => unread = 0
    /\ pc[Main] = "entries" => unread <= peer_count - idx
    /\ pc[Main] = "connect" => Match(idx)
    /\ pc[Main] \notin {"count", "entries", "lock", "connect"} => Match(peer_count)

Undisturbed == Settled => Matched

(* Fewer neighbours at a time than clients[] has entries.                   *)
RoomLeft == Cardinality(listed) < MAX_CLIENTS

(* One entry more: the next one of clients[], and the same one listed.      *)
LEMMA MatchAdd ==
    ASSUME TypeOK, NEW n \in Index, Match(n), NEW c \in Conns \ listed,
           clients' = [clients EXCEPT ![n] = c], listed' = listed \cup {c}
    PROVE  /\ {clients'[i] : i \in 0 .. n} = listed'
           /\ \A i, j \in 0 .. n : clients'[i] = clients'[j] => i = j
           /\ IsFiniteSet(listed') /\ Cardinality(listed') = n + 1
<1>1. n \in Nat /\ MAX_CLIENTS \in Nat /\ n < MAX_CLIENTS
      BY BoundAssumption DEF Index
<1>2. 0 .. n \subseteq Index /\ 0 .. n = (0 .. n - 1) \cup {n} /\ n \notin 0 .. n - 1
      BY <1>1 DEF Index
<1>3. \A i \in 0 .. n : clients'[i] = IF i = n THEN c ELSE clients[i]
      BY <1>2 DEF TypeOK
<1>4. {clients[i] : i \in 0 .. n - 1} = listed
      BY DEF Match
<1>5. \A i \in 0 .. n - 1 : clients[i] # c
      BY <1>4
<1>6. {clients'[i] : i \in 0 .. n} = listed'
  <2>1. {clients'[i] : i \in 0 .. n} = {clients[i] : i \in 0 .. n - 1} \cup {c}
        BY <1>2, <1>3
  <2> QED BY <1>4, <2>1
<1>7. \A i, j \in 0 .. n : clients'[i] = clients'[j] => i = j
      BY <1>2, <1>3, <1>5 DEF Match
<1>8. IsFiniteSet(listed') /\ Cardinality(listed') = n + 1
      BY OneMore DEF Match
<1> QED BY <1>6, <1>7, <1>8

(* updateClientList and updating listen_threads take the same one away.     *)
LEMMA MatchRemove ==
    ASSUME TypeOK, Match(peer_count), NEW c \in Conns,
           UpdateClientList(c), listed' = listed \ {c}
    PROVE  Match(peer_count)'
<1> DEFINE n == peer_count
           at == {i \in Index : i < peer_count /\ clients[i] = c}
           first == CHOOSE i \in at : \A j \in at : i <= j
<1>1. n \in Nat /\ n < MAX_CLIENTS /\ MAX_CLIENTS \in Nat /\ 0 .. n - 1 \subseteq Index
      BY BoundAssumption DEF TypeOK, Index
<1>2. at = {i \in 0 .. n - 1 : clients[i] = c}
      BY <1>1 DEF Index
<1>3. CASE at = {}
  <2>1. clients' = clients /\ peer_count' = peer_count
        BY <1>3 DEF UpdateClientList
  <2>2. c \notin listed
        BY <1>2, <1>3 DEF Match
  <2>3. listed' = listed
        BY <2>2
  <2> QED BY <2>1, <2>3 DEF Match
<1>4. CASE at # {}
  <2>1. PICK f \in 0 .. n - 1 : clients[f] = c
        BY <1>2, <1>4
  <2>2. at = {f}
        BY <1>2, <2>1 DEF Match
  <2>3. f <= f
        BY <1>1, <2>1
  <2>4. first = f
        BY <2>2, <2>3
  <2>5. /\ clients' = [i \in Index |-> IF first <= i /\ i < peer_count - 1
                                       THEN clients[i + 1] ELSE clients[i]]
        /\ peer_count' = peer_count - 1
        BY <1>4 DEF UpdateClientList
  <2> HIDE DEF first, at
  <2>6. n - 1 \in Nat /\ f \in Nat /\ f <= n - 1 /\ 0 .. n - 2 \subseteq Index
        BY <1>1, <2>1
  <2> DEFINE g(i) == IF f <= i THEN i + 1 ELSE i
  <2>7. \A i \in 0 .. n - 2 : /\ clients'[i] = clients[g(i)]
                              /\ g(i) \in 0 .. n - 1 /\ g(i) # f
    <3> TAKE i \in 0 .. n - 2
    <3>1. clients'[i] = IF f <= i THEN clients[i + 1] ELSE clients[i]
      <4>1. i \in Index
            BY <2>6
      <4>2. i < peer_count - 1
            BY <1>1
      <4> QED BY <2>4, <2>5, <4>1, <4>2
    <3>2. g(i) \in 0 .. n - 1 /\ g(i) # f
          BY <1>1, <2>6
    <3> QED BY <3>1, <3>2
  <2>8. \A i, j \in 0 .. n - 2 : g(i) = g(j) => i = j
        BY <1>1, <2>6
  <2>9. \A k \in 0 .. n - 1 : k # f => \E i \in 0 .. n - 2 : g(i) = k
    <3> SUFFICES ASSUME NEW k \in 0 .. n - 1, k # f
                 PROVE  \E i \in 0 .. n - 2 : g(i) = k
        OBVIOUS
    <3>1. CASE k < f
      <4>1. k \in 0 .. n - 2 /\ ~(f <= k)
            BY <1>1, <2>6, <3>1
      <4> QED BY <4>1
    <3>2. CASE ~(k < f)
      <4>1. k - 1 \in 0 .. n - 2 /\ f <= k - 1 /\ k - 1 + 1 = k
            BY <1>1, <2>6, <3>2
      <4> QED BY <4>1
    <3> QED BY <3>1, <3>2
  <2> HIDE DEF g
  <2>10. \A k \in 0 .. n - 1 : k # f <=> clients[k] # c
         BY <2>1 DEF Match
  <2>11. {clients'[i] : i \in 0 .. n - 2} = listed \ {c}
    <3>1. ASSUME NEW x \in listed \ {c}
          PROVE  \E i \in 0 .. n - 2 : clients'[i] = x
      <4>1. PICK k \in 0 .. n - 1 : clients[k] = x
            BY DEF Match
      <4>2. PICK i \in 0 .. n - 2 : g(i) = k
            BY <2>9, <2>10, <4>1
      <4> QED BY <2>7, <4>1, <4>2
    <3>2. ASSUME NEW i \in 0 .. n - 2
          PROVE  clients'[i] \in listed \ {c}
      <4>1. g(i) \in 0 .. n - 1 /\ g(i) # f /\ clients'[i] = clients[g(i)]
            BY <2>7
      <4>2. clients[g(i)] \in listed
            BY <4>1 DEF Match
      <4> QED BY <2>10, <4>1, <4>2
    <3> QED BY <3>1, <3>2
  <2>12. \A i, j \in 0 .. n - 2 : clients'[i] = clients'[j] => i = j
    <3> SUFFICES ASSUME NEW i \in 0 .. n - 2, NEW j \in 0 .. n - 2, clients'[i] = clients'[j]
                 PROVE  i = j
        OBVIOUS
    <3>1. clients[g(i)] = clients[g(j)] /\ g(i) \in 0 .. n - 1 /\ g(j) \in 0 .. n - 1
          BY <2>7
    <3>2. g(i) = g(j)
          BY <3>1 DEF Match
    <3> QED BY <2>8, <3>2
  <2>13. c \in listed
         BY <2>1 DEF Match
  <2>14. IsFiniteSet(listed') /\ Cardinality(listed') = n - 1
         BY <2>13, OneLess DEF Match
  <2>15. n - 1 - 1 = n - 2
         BY <1>1
  <2> QED BY <2>5, <2>11, <2>12, <2>14, <2>15 DEF Match
<1> QED BY <1>3, <1>4

(* A client that is settled was so before, and the step is not the one that *)
(* asks it to relocate or that quits.                                       *)
LEMMA SettledBefore ==
    ASSUME TypeOK, NotYet, [Next]_vars, Settled'
    PROVE  Settled /\ ~SPAsks /\ ~QuitPeers
<1>1. ~QuitPeers
  <2>1. QuitPeers => pc'[Send] = "gone"
        BY OwnThreads DEF TypeOK, QuitPeers, Goto
  <2> QED BY <2>1 DEF Settled
<1>2. asked \in Nat /\ asked' = 0
      BY BoundAssumption DEF TypeOK, Settled
<1>3. ~SPAsks
      BY <1>2 DEF SPAsks
<1>4. asked' = asked
  <2>1. ReceiveClients(Main) \/ ReceiveClients(SP) => asked' = asked
        BY DEF ReceiveClients, RecvCount, RecvEntry, EntriesRead, LockClients,
               ConnectNext, AwaitThreads, StartThreads, Exit, link
  <2>2. Spawn \/ JoinSend \/ JoinListen \/ JoinSP \/ QuitSP => asked' = asked
        BY DEF Spawn, JoinSend, JoinListen, JoinSP, QuitSP, Exit, link
  <2>3. SPTag \/ Relocate \/ Redial \/ AwaitZero => asked' = asked
        BY DEF SPTag, Relocate, Redial, AwaitZero, Exit, link
  <2>4. AcceptPeer \/ ListenDies \/ (\E c \in Conns : AddPeer(c)) => asked' = asked
        BY DEF AcceptPeer, ListenDies, AddPeer, link
  <2>5. (\E c \in Conns : PeerStep(c) \/ Recv(c)) => asked' = asked
        BY DEF PeerStep, Born, Wake, Check, Forward, Leave, RecvDies, Recv, link
  <2>6. SPCloses \/ UNCHANGED vars => asked' = asked
        BY DEF SPCloses, vars, link
  <2> QED BY <1>1, <1>3, <2>1, <2>2, <2>3, <2>4, <2>5, <2>6 DEF Next, MainStep, SPStep
<1>5. pc[Send] # "gone"
  <2>1. pc'[Send] # "gone"
        BY DEF Settled
  <2>2. QuitSP => pc[Send] = "input"
        BY DEF QuitSP
  <2>3. Spawn => pc[Send] = "none"
        BY DEF Spawn, NotYet
  <2> QED BY <1>1, <2>1, <2>2, <2>3, OwnMoves
<1> QED BY <1>1, <1>2, <1>3, <1>4, <1>5 DEF Settled

Early == {"count", "entries", "lock", "connect"}

(* A step that leaves the lists alone, with main where it was or past its   *)
(* list on both sides of the step.                                          *)
LEMMA MatchedSame ==
    ASSUME Matched,
           UNCHANGED <<clients, peer_count, listed, asks, cancelled, unread, idx>>,
           pc'[Main] = pc[Main] \/ (pc[Main] \notin Early /\ pc'[Main] \notin Early),
           pc'[SP] \in {"none", "tag", "gone"}
    PROVE  Matched'
<1>1. CASE pc'[Main] = pc[Main]
      BY <1>1 DEF Matched, Match
<1>2. CASE pc[Main] \notin Early /\ pc'[Main] \notin Early
      BY <1>2 DEF Matched, Match, Early
<1> QED BY <1>1, <1>2

(* receiveClients, run by main: it reads as many entries as were announced, *)
(* then enters each in both lists.                                          *)
LEMMA MatchedReceive ==
    ASSUME CInv, NotYet, Boot, Matched, ReceiveClients(Main)
    PROVE  Matched'
<1>0. /\ pc \in [Threads -> PCs] /\ idx \in Nat /\ unread \in Nat
      /\ peer_count \in Nat /\ peer_count \in Index
      BY BoundAssumption DEF CInv, TypeOK, Index
<1>1. pc[Main] \in BootPCs
      BY DEF ReceiveClients, RecvCount, RecvEntry, EntriesRead, LockClients,
             ConnectNext, AwaitThreads, StartThreads, Testing, BootPCs
<1>2. BootBody /\ pc[SP] = "none"
      BY <1>1 DEF Boot, NotYet
<1>3. CASE Exit
      BY <1>2, <1>3, MatchedSame DEF Exit, shared, link
<1>4. ASSUME NEW label, Goto(Main, label)
      PROVE  pc'[Main] = label /\ pc'[SP] = "none"
      BY <1>0, <1>2, <1>4, OwnThreads, FourThreads DEF Goto
<1>5. CASE RecvCount(Main) /\ ~Exit
  <2>1. PICK n \in 0 .. Longest(Main) : peer_count' = n /\ unread' = n
        BY <1>5 DEF RecvCount
  <2>2. /\ idx' = 0 /\ Goto(Main, "entries")
        /\ UNCHANGED <<clients, listed, cancelled, asks>>
        BY <1>5 DEF RecvCount
  <2>3. unread' <= peer_count' - idx'
    <3>1. n \in Nat
          BY BoundAssumption DEF Index, Longest
    <3> QED BY <2>1, <2>2, <3>1
  <2> QED BY <1>4, <2>2, <2>3 DEF Matched
<1>6. CASE RecvEntry(Main)
  <2>1. /\ pc[Main] = "entries" /\ idx < peer_count /\ idx' = idx + 1
        /\ UNCHANGED <<pc, shared, cancelled, asks>>
        BY <1>6 DEF RecvEntry
  <2>2. unread' = unread - 1 \/ unread' = 0
        BY <1>6 DEF RecvEntry
  <2>3. unread <= peer_count - idx
        BY <2>1 DEF Matched
  <2>4. unread' <= peer_count - idx'
        BY <1>0, <2>1, <2>2, <2>3
  <2> QED BY <2>1, <2>4 DEF Matched, shared
<1>7. CASE EntriesRead(Main)
  <2>1. /\ pc[Main] = "entries" /\ idx >= peer_count /\ Goto(Main, "lock")
        /\ UNCHANGED <<shared, cancelled, unread, asks>>
        BY <1>7 DEF EntriesRead, link
  <2>2. unread = 0
    <3>1. unread <= peer_count - idx
          BY <2>1 DEF Matched
    <3> QED BY <1>0, <2>1, <3>1
  <2> QED BY <1>4, <2>1, <2>2 DEF Matched, shared
<1>8. CASE LockClients(Main)
  <2>1. /\ pc[Main] = "lock" /\ Goto(Main, "connect") /\ idx' = 0
        /\ UNCHANGED <<shared, cancelled, unread, asks>>
        BY <1>8 DEF LockClients, link
  <2>2. listed' = {}
        BY <1>2, <2>1 DEF BootBody, shared
  <2>3. 0 .. 0 - 1 = {}
        OBVIOUS
  <2>4. IsFiniteSet({}) /\ Cardinality({}) = 0
        BY FS_EmptySet
  <2>5. Match(idx)'
        BY <2>1, <2>2, <2>3, <2>4 DEF Match
  <2> QED BY <1>4, <2>1, <2>5 DEF Matched
<1>9. CASE ConnectNext(Main) /\ ~Exit
  <2>1. PICK c \in Conns : /\ pc[c] = "none"
                           /\ clients' = [clients EXCEPT ![idx] = c]
                           /\ listed' = listed \cup {c}
                           /\ Goto(c, "born") /\ idx' = idx + 1
        BY <1>9 DEF ConnectNext
  <2>2. /\ pc[Main] = "connect" /\ idx < peer_count
        /\ UNCHANGED <<peer_count, cancelled, unread, asks>>
        BY <1>9 DEF ConnectNext, link
  <2>3. idx \in Index
        BY <1>0, <2>2, BoundAssumption DEF Index
  <2>4. c \in Conns \ listed
        BY <1>2, <2>1 DEF BootBody
  <2>5. Match(idx)
        BY <2>2 DEF Matched
  <2>6. /\ {clients'[i] : i \in 0 .. idx} = listed'
        /\ \A i, j \in 0 .. idx : clients'[i] = clients'[j] => i = j
        /\ IsFiniteSet(listed') /\ Cardinality(listed') = idx + 1
        BY <2>1, <2>3, <2>4, <2>5, MatchAdd DEF CInv
  <2>7. idx' - 1 = idx
        BY <1>0, <2>1
  <2>8. Match(idx)'
        BY <2>1, <2>6, <2>7 DEF Match
  <2>9. pc'[Main] = "connect" /\ pc'[SP] = "none"
        BY <1>0, <1>2, <2>1, <2>2, OwnThreads DEF Goto
  <2> QED BY <2>2, <2>8, <2>9 DEF Matched
<1>10. CASE AwaitThreads(Main) \/ StartThreads(Main)
  <2>1. /\ Testing(Main) /\ (Goto(Main, "wait") \/ Goto(Main, "spawn"))
        /\ UNCHANGED <<clients, peer_count, listed, cancelled, unread, asks>>
        BY <1>10 DEF AwaitThreads, StartThreads, shared, link
  <2>2. Match(peer_count)
    <3>1. CASE pc[Main] = "wait"
          BY <3>1 DEF Matched
    <3>2. CASE pc[Main] = "connect" /\ idx >= peer_count
      <4>1. idx = peer_count
            BY <1>0, <1>2, <3>2 DEF BootBody
      <4> QED BY <3>2, <4>1 DEF Matched
    <3> QED BY <2>1, <3>1, <3>2 DEF Testing
  <2>3. Match(peer_count)'
        BY <2>1, <2>2 DEF Match
  <2>4. pc'[Main] \in {"wait", "spawn"} /\ pc'[SP] = "none"
        BY <1>4, <2>1
  <2>5. unread = 0
        BY <2>1 DEF Testing, Matched
  <2> QED BY <2>1, <2>3, <2>4, <2>5 DEF Matched
<1> QED BY <1>3, <1>5, <1>6, <1>7, <1>8, <1>9, <1>10 DEF ReceiveClients

(* addNewClientWrapper: a newcomer is entered in both lists.                *)
LEMMA MatchedAdd ==
    ASSUME CInv, NotYet, Matched, RoomLeft', NEW c \in Conns, AddPeer(c)
    PROVE  Matched'
<1>0. pc \in [Threads -> PCs] /\ peer_count \in Index /\ listed \subseteq Conns
      BY DEF CInv, TypeOK
<1>1. /\ pc[Listen] = "add" /\ pc[c] = "called" /\ cancelled = {}
      /\ clients' = [clients EXCEPT ![peer_count] = c]
      /\ peer_count' = (peer_count + 1) % MAX_CLIENTS
      /\ UNCHANGED <<cancelled, unread, asks>>
      BY DEF AddPeer, Matched, link
<1>2. /\ listed' = listed \cup {c}
      /\ pc' = [pc EXCEPT ![c] = "born", ![Listen] = "accept"]
      BY <1>1 DEF AddPeer
<1>3. pc[Main] \notin BootPCs
      BY <1>1 DEF NotYet
<1>4. pc[Main] \notin Early /\ unread = 0 /\ Match(peer_count)
      BY <1>3 DEF BootPCs, Early, Matched
<1>5. c \in Conns \ listed
      BY <1>1 DEF CInv, ListedRun
<1>6. /\ {clients'[i] : i \in 0 .. peer_count} = listed'
      /\ \A i, j \in 0 .. peer_count : clients'[i] = clients'[j] => i = j
      /\ IsFiniteSet(listed') /\ Cardinality(listed') = peer_count + 1
      BY <1>0, <1>1, <1>2, <1>4, <1>5, MatchAdd DEF CInv
<1>7. peer_count' = peer_count + 1 /\ peer_count \in Nat
  <2>1. peer_count + 1 < MAX_CLIENTS /\ peer_count \in Nat /\ MAX_CLIENTS \in Nat \ {0}
        BY <1>0, <1>6, BoundAssumption DEF RoomLeft, Index
  <2> QED BY <1>1, <2>1
<1>8. peer_count' - 1 = peer_count
      BY <1>7
<1>9. Match(peer_count)'
      BY <1>6, <1>7, <1>8 DEF Match
<1>10. pc'[Main] = pc[Main] /\ pc'[SP] = pc[SP]
       BY <1>0, <1>2, OwnThreads, FourThreads
<1> QED BY <1>1, <1>4, <1>9, <1>10 DEF Matched, Early

(* The receive thread of a neighbour that left takes it off both lists; its *)
(* other steps touch neither.                                               *)
LEMMA MatchedPeer ==
    ASSUME CInv, NotYet, Boot, Matched, NEW c \in Conns, PeerStep(c) \/ Recv(c)
    PROVE  Matched'
<1>1. pc'[Main] = pc[Main] /\ pc'[SP] = pc[SP]
  <2>1. UNCHANGED pc \/ \E label : Goto(c, label)
        BY DEF PeerStep, Born, Wake, Check, Forward, Leave, RecvDies, Recv
  <2> QED BY <2>1, OwnThreads DEF CInv, TypeOK, Goto
<1>2. CASE Leave(c)
  <2>1. /\ pc[c] = "leave" /\ UpdateClientList(c) /\ listed' = listed \ {c}
        /\ UNCHANGED <<cancelled, unread, asks>>
        BY <1>2 DEF Leave, link
  <2>2. pc[Main] \notin BootPCs
        BY <2>1 DEF Boot, BootBody
  <2>3. pc[Main] \notin Early /\ unread = 0 /\ Match(peer_count)
        BY <2>2 DEF BootPCs, Early, Matched
  <2>4. Match(peer_count)'
        BY <2>1, <2>3, MatchRemove DEF CInv
  <2> QED BY <1>1, <2>1, <2>3, <2>4 DEF Matched, Early
<1>3. CASE Born(c) \/ Wake(c) \/ Check(c) \/ Forward(c) \/ RecvDies(c) \/ Recv(c)
  <2>1. UNCHANGED <<clients, peer_count, listed, asks, cancelled, unread, idx>>
        BY <1>3 DEF Born, Wake, Check, Forward, RecvDies, Recv, shared, link
  <2> QED BY <1>1, <2>1, MatchedSame DEF Matched
<1> QED BY <1>2, <1>3 DEF PeerStep

(* The lists stay matched as long as there is room.                         *)
LEMMA UndisturbedStep ==
    ASSUME CInv, NotYet, Boot, Undisturbed, RoomLeft', [Next]_vars
    PROVE  Undisturbed'
<1> SUFFICES ASSUME Settled' PROVE Matched'
    BY DEF Undisturbed
<1>1. Settled /\ Matched /\ ~SPAsks /\ ~QuitPeers
      BY SettledBefore DEF CInv, Undisturbed
<1>2. pc \in [Threads -> PCs] /\ pc[SP] \in {"none", "tag", "gone"} /\ pc[Send] # "gone"
      BY <1>1 DEF CInv, TypeOK, Matched, Settled
<1>3. ASSUME NEW t \in Threads, NEW label, Goto(t, label)
      PROVE  \A u \in Threads : pc'[u] = IF u = t THEN label ELSE pc[u]
      BY <1>2, <1>3 DEF Goto
<1>4. CASE SPStep
  <2>1. SPTag
        BY <1>2, <1>4 DEF SPStep, ReceiveClients, RecvCount, RecvEntry, EntriesRead, LockClients,
                          ConnectNext, AwaitThreads, StartThreads, Testing, Relocate, Redial,
                          AwaitZero
  <2>2. pc[SP] = "tag"
        BY <2>1 DEF SPTag
  <2>3. unread = 0 /\ ~asks
        BY <1>1, <2>2 DEF NotYet, BootPCs, Matched
  <2>4. Goto(SP, "gone") /\ UNCHANGED <<shared, cancelled, idx, unread, asks>>
        BY <2>1, <2>3 DEF SPTag
  <2>5. pc'[SP] = "gone" /\ pc'[Main] = pc[Main]
        BY <1>3, <2>4, OwnThreads, FourThreads
  <2> QED BY <1>1, <2>4, <2>5, MatchedSame DEF shared
<1>5. CASE Spawn
  <2>1. /\ pc[Main] = "spawn" /\ pc'[Main] = "joinSend" /\ pc'[SP] = "tag"
        /\ UNCHANGED <<shared, cancelled, idx, link>>
        BY <1>2, <1>5, OwnThreads, FourThreads DEF Spawn
  <2> QED BY <1>1, <2>1, MatchedSame DEF shared, link, Early
<1>6. CASE JoinSend \/ JoinListen \/ JoinSP
  <2>1. ~JoinSend
        BY <1>2 DEF JoinSend
  <2>2. CASE JoinSP
        BY <1>1, <1>2, <2>2, MatchedSame DEF JoinSP, Exit, shared, link
  <2>3. CASE JoinListen
    <3>1. /\ pc[Main] = "joinListen" /\ Goto(Main, "joinSP")
          /\ UNCHANGED <<shared, cancelled, idx, link>>
          BY <2>3 DEF JoinListen
    <3>2. pc'[Main] = "joinSP" /\ pc'[SP] = pc[SP]
          BY <1>3, <3>1, OwnThreads, FourThreads
    <3> QED BY <1>1, <1>2, <3>1, <3>2, MatchedSame DEF shared, link, Early
  <2> QED BY <1>6, <2>1, <2>2, <2>3
<1>7. CASE QuitSP \/ ListenDies
  <2>1. Goto(Send, "quit") \/ Goto(Listen, "dead")
        BY <1>7 DEF QuitSP, ListenDies
  <2>2. UNCHANGED <<shared, cancelled, idx, unread, asks>>
        BY <1>7 DEF QuitSP, ListenDies, link
  <2>3. pc'[Main] = pc[Main] /\ pc'[SP] = pc[SP]
        BY <1>3, <2>1, OwnThreads, FourThreads
  <2> QED BY <1>1, <1>2, <2>2, <2>3, MatchedSame DEF shared
<1>8. CASE AcceptPeer
  <2>1. PICK c \in Conns : pc' = [pc EXCEPT ![c] = "called", ![Listen] = "add"]
        BY <1>8 DEF AcceptPeer
  <2>2. UNCHANGED <<shared, cancelled, idx, link>>
        BY <1>8 DEF AcceptPeer
  <2>3. pc'[Main] = pc[Main] /\ pc'[SP] = pc[SP]
        BY <1>2, <2>1, OwnThreads, FourThreads
  <2> QED BY <1>1, <1>2, <2>2, <2>3, MatchedSame DEF shared, link
<1>9. CASE SPCloses \/ UNCHANGED vars
  <2>1. UNCHANGED <<pc, clients, peer_count, listed, asks, cancelled, unread, idx>>
        BY <1>9 DEF SPCloses, vars, shared, link
  <2> QED BY <1>1, <1>2, <2>1, MatchedSame
<1>10. CASE ReceiveClients(Main)
       BY <1>1, <1>10, MatchedReceive
<1>11. ASSUME NEW c \in Conns, AddPeer(c) PROVE Matched'
       BY <1>1, <1>11, MatchedAdd
<1>12. ASSUME NEW c \in Conns, PeerStep(c) \/ Recv(c) PROVE Matched'
       BY <1>1, <1>12, MatchedPeer
<1> QED BY <1>1, <1>4, <1>5, <1>6, <1>7, <1>8, <1>9, <1>10, <1>11, <1>12 DEF Next, MainStep

(* Before any relocation and before quitting, a message is forwarded to     *)
(* exactly the neighbours listened to (clients[] against listen_threads[]), *)
(* as long as there are never MAX_CLIENTS of them: peer_count wraps there.  *)
THEOREM ForwardsToListenedCorrect == Spec /\ []RoomLeft => []ForwardsToListened
<1>1. Init => NotYet /\ Boot
      BY BootInit
<1>2. Init => Undisturbed
  <2> SUFFICES ASSUME Init PROVE Matched
      BY DEF Undisturbed
  <2>1. pc[Main] = "count" /\ pc[SP] = "none"
        BY OwnThreads, FourThreads DEF Init
  <2> QED BY <2>1 DEF Init, Matched
<1>3. CInv /\ NotYet /\ Boot /\ [Next]_vars => NotYet' /\ Boot'
      BY NotYetStep, BootStep DEF CInv
<1>4. CInv /\ NotYet /\ Boot /\ Undisturbed /\ RoomLeft' /\ [Next]_vars => Undisturbed'
      BY UndisturbedStep
<1>5. CInv /\ Boot /\ Undisturbed => ForwardsToListened
  <2> SUFFICES ASSUME CInv, Boot, Undisturbed, mutex = NoThread, Settled,
                      pc[Main] \notin {"count", "entries", "lock"}
               PROVE  /\ {clients[i] : i \in 0 .. peer_count - 1} = listed
                      /\ Cardinality(listed) = peer_count
      BY DEF ForwardsToListened, Settled
  <2>1. Matched
        BY DEF Undisturbed
  <2>2. pc[Main] # "connect"
        BY ThreadAssumption, OwnThreads DEF Boot, BootPCs, BootBody
  <2> QED BY <2>1, <2>2 DEF Matched, Match
<1> QED BY <1>1, <1>2, <1>3, <1>4, <1>5, CInit, CStep, PTL DEF Spec
=============================================================================
