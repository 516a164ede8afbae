-------------------------- MODULE HypercubeServer --------------------------
(***************************************************************************)
(* The super-peer of the hypercube (source/hypercube/server.c): it accepts  *)
(* clients, hands out IDs and neighbour lists, and is to close the gap a    *)
(* leaving client makes by relocating the client with the highest ID.       *)
(*                                                                          *)
(* main() accepts connections and starts one thread for each, to which it   *)
(* passes the address of its variable confd.  The thread reads confd later, *)
(* when main may have accepted the next connection: two threads may then    *)
(* serve one connection, and the first connection none.  A thread is named  *)
(* by the connection it was started for.                                    *)
(*                                                                          *)
(* A connection carries units, each what one socketRecv of the protocol     *)
(* reads.  Descriptors are numbers: close() frees one, the next accept()    *)
(* takes the least free one, and a thread whose recv() is under way stays   *)
(* with its connection until that recv() returns.  An accept() that fails   *)
(* ends the process.                                                        *)
(***************************************************************************)
EXTENDS Integers, Sequences, FiniteSets

CONSTANTS Conns,          \* the connections clients open
          NoConn,         \* no connection
          MAX_CLIENTS,    \* slots of clientMap: 256
          MAX_NEIGHBORS,  \* bits of an ID: 8
          FIELDS          \* units of a HELLO after its tag: 6 (name, ip, port, and lengths)

Slots == 0 .. MAX_CLIENTS - 1
Bits  == 0 .. MAX_NEIGHBORS - 1

ASSUME ServerAssumption ==
    /\ IsFiniteSet(Conns)
    /\ NoConn \notin Conns
    /\ MAX_CLIENTS \in Nat \ {0}
    /\ MAX_NEIGHBORS \in Nat
    /\ \A i \in Bits : 2^i \in 1 .. MAX_CLIENTS - 1
    /\ FIELDS \in Nat \ {0}

Fds     == 1 .. Cardinality(Conns)
NoFd    == 0
Failed  == -1            \* what accept() returns when it fails

Tags    == {"HELLO_MSG", "QUIT", "RECONNECT", "other"}
Units   == Tags \cup {"field"}
Replies == [what : {"HELLO_OK", "HELLO_ERROR", "RECONNECT"}]
             \cup [what : {"id", "count", "neighbor"}, val : Nat]
Clients == {"new", "up", "closed", "reset"}
Receiving == {"tag", "fields", "check"}
PCs     == Receiving \cup {"none", "start", "limit", "reject", "close", "ok", "register",
            "id", "drop", "hangup", "count", "list", "relocate", "leave", "remove", "repair",
            "refused", "gone"}

VARIABLES
    client,       \* client[c]: the client's end of connection c
    hello,        \* hello[c]: units of its HELLO the client has sent
    in,           \* in[c]: units on the way to the server
    out,          \* out[c]: what the server has sent to the client
    file,         \* file[f]: the connection descriptor f is open on, or NoConn
    confd,        \* main's variable; Failed once the process has ended
    pc,           \* pc[t]: where thread t is
    sock,         \* sock[t]: current_client.socket_fd
    at,           \* at[t]: the connection its recv() is under way on
    id,           \* id[t]: current_client.id
    left,         \* left[t]: HELLO fields to read, or neighbours to look at
    found,        \* found[t]: num_neighbors
    check_tag,    \* check_tag[t], "none" while nothing was read into it
    occupied,     \* occupied[i]: clientMap[i].occupied # -1
    mapSock,      \* mapSock[i]: clientMap[i].socket_fd
    minID, maxID, num_clients,
    shared        \* history: connections whose descriptor had several users

env    == <<client, hello>>
kernel == <<in, out, file, confd>>
locals == <<sock, at, id, left, found, check_tag>>
map    == <<occupied, mapSock, minID, maxID, num_clients>>
vars   == <<env, kernel, pc, locals, map, shared>>

Init ==
    /\ client = [c \in Conns |-> "new"]
    /\ hello  = [c \in Conns |-> 0]
    /\ in     = [c \in Conns |-> <<>>]
    /\ out    = [c \in Conns |-> <<>>]
    /\ file   = [f \in Fds |-> NoConn]
    /\ confd  = NoFd
    /\ pc     = [t \in Conns |-> "none"]
    /\ sock   = [t \in Conns |-> NoFd]
    /\ at     = [t \in Conns |-> NoConn]
    /\ id     = [t \in Conns |-> 0]
    /\ left   = [t \in Conns |-> 0]
    /\ found  = [t \in Conns |-> 0]
    /\ check_tag = [t \in Conns |-> "none"]
    /\ occupied  = [i \in Slots |-> FALSE]
    /\ mapSock   = [i \in Slots |-> NoFd]
    /\ minID = 0
    /\ maxID = 0
    /\ num_clients = 0
    /\ shared = {}

-----------------------------------------------------------------------------
(* The client's side (client.c as the server sees it).                      *)

Connect(c) ==
    /\ client[c] = "new"
    /\ client' = [client EXCEPT ![c] = "up"]
    /\ UNCHANGED <<hello, kernel, pc, locals, map, shared>>

SendHello(c) ==
    /\ client[c] = "up"
    /\ hello[c] <= FIELDS
    /\ in'    = [in EXCEPT ![c] = Append(@, IF hello[c] = 0 THEN "HELLO_MSG" ELSE "field")]
    /\ hello' = [hello EXCEPT ![c] = @ + 1]
    /\ UNCHANGED <<client, out, file, confd, pc, locals, map, shared>>

Told(c, what) == \E i \in DOMAIN out[c] : out[c][i].what = what

(* A user quits, or the client answers a RECONNECT; it closes the socket.   *)
SayGoodbye(c) ==
    /\ client[c] = "up"
    /\ Told(c, "count")
    /\ \E tag \in {"QUIT", "RECONNECT"} :
          /\ tag = "RECONNECT" => Told(c, "RECONNECT")
          /\ in' = [in EXCEPT ![c] = Append(@, tag)]
    /\ client' = [client EXCEPT ![c] = "closed"]
    /\ UNCHANGED <<hello, out, file, confd, pc, locals, map, shared>>

(* The client exits without a goodbye; the kernel closes or resets.         *)
Die(c) ==
    /\ client[c] = "up"
    /\ \E how \in {"closed", "reset"} : client' = [client EXCEPT ![c] = how]
    /\ UNCHANGED <<hello, kernel, pc, locals, map, shared>>

-----------------------------------------------------------------------------
(* Sockets *)

Goto(t, label) == pc' = [pc EXCEPT ![t] = label]

Close(t) == file' = [file EXCEPT ![sock[t]] = NoConn]

(* socketSend of one unit to the connection the descriptor is open on now:  *)
(* writing to a client that has gone may fail or not.                       *)
Send(f, reply, ret) ==
    LET c == IF f = NoFd THEN NoConn ELSE file[f] IN
    \/ /\ c # NoConn /\ client[c] = "up"
       /\ ret = 1
       /\ out' = [out EXCEPT ![c] = Append(@, reply)]
    \/ /\ c # NoConn /\ client[c] # "up"
       /\ ret \in {1, -1}
       /\ UNCHANGED out
    \/ /\ c = NoConn
       /\ ret = -1
       /\ UNCHANGED out

(* recv() begins: it finds the connection its descriptor is open on.        *)
Call(t) ==
    /\ pc[t] \in Receiving
    /\ at[t] = NoConn
    /\ file[sock[t]] # NoConn
    /\ at' = [at EXCEPT ![t] = file[sock[t]]]
    /\ UNCHANGED <<env, kernel, pc, sock, id, left, found, check_tag, map, shared>>

(* socketRecv of one unit returns: what was sent comes before the end or    *)
(* the error, and on a closed descriptor recv() fails at once.              *)
Recv(t, unit, ret) ==
    LET c == at[t] IN
    /\ \/ c # NoConn /\ in[c] # <<>> /\ ret = 1 /\ unit = Head(in[c])
          /\ in' = [in EXCEPT ![c] = Tail(@)]
       \/ c # NoConn /\ in[c] = <<>> /\ client[c] = "closed" /\ ret = 0 /\ unit = "none"
          /\ UNCHANGED in
       \/ c # NoConn /\ in[c] = <<>> /\ client[c] = "reset" /\ ret = -1 /\ unit = "none"
          /\ UNCHANGED in
       \/ c = NoConn /\ file[sock[t]] = NoConn /\ ret = -1 /\ unit = "none"
          /\ UNCHANGED in
    /\ at' = [at EXCEPT ![t] = NoConn]

(* A byte of a field, read where a tag is expected, may have any value, and *)
(* so may memory that nothing was read into.                                *)
Values(unit) == IF unit \in {"field", "none"} THEN Tags ELSE {unit}

-----------------------------------------------------------------------------
(* main *)

FreeFds == {f \in Fds : file[f] = NoConn}

(* The threads that may still receive from, send to or close a descriptor's *)
(* number, open or not.                                                     *)
Users(f) == {t \in Conns : sock[t] = f /\ pc[t] \notin {"remove", "repair", "refused", "gone"}}

Accept(c) ==
    /\ client[c] # "new"
    /\ pc[c] = "none"
    /\ confd' = CHOOSE f \in FreeFds : \A g \in FreeFds : f <= g
    /\ file'  = [file EXCEPT ![confd'] = c]
    /\ shared' = IF Users(confd') = {} THEN shared ELSE shared \cup {c}
    /\ Goto(c, "start")
    /\ UNCHANGED <<env, in, out, locals, map>>

AcceptFails ==
    /\ confd' = Failed
    /\ UNCHANGED <<env, in, out, file, pc, locals, map, shared>>

-----------------------------------------------------------------------------
(* clientWrapper and helloCheck *)

ReadArg(t) ==
    /\ pc[t] = "start"
    /\ sock' = [sock EXCEPT ![t] = confd]
    /\ shared' = IF file[confd] = t THEN shared ELSE shared \cup ({t, file[confd]} \ {NoConn})
    /\ Goto(t, "limit")
    /\ UNCHANGED <<env, kernel, at, id, left, found, check_tag, map>>

CheckLimit(t) ==
    /\ pc[t] = "limit"
    /\ Goto(t, IF num_clients >= MAX_CLIENTS THEN "reject" ELSE "tag")
    /\ UNCHANGED <<env, kernel, locals, map, shared>>

(* A tag that could not be read is compared all the same.                   *)
RecvTag(t) ==
    /\ pc[t] = "tag"
    /\ \E unit \in Units \cup {"none"}, ret \in {1, 0, -1} :
          /\ Recv(t, unit, ret)
          /\ \E tag \in Values(unit) :
                \/ /\ ret = -1 \/ tag # "HELLO_MSG"
                   /\ Goto(t, "reject")
                   /\ UNCHANGED left
                \/ /\ ret = 0 /\ tag = "HELLO_MSG"
                   /\ Goto(t, "close")
                   /\ UNCHANGED left
                \/ /\ ret = 1 /\ tag = "HELLO_MSG"
                   /\ left' = [left EXCEPT ![t] = FIELDS]
                   /\ Goto(t, "fields")
    /\ UNCHANGED <<env, out, file, confd, sock, id, found, check_tag, map, shared>>

RecvField(t) ==
    /\ pc[t] = "fields"
    /\ \E unit \in Units \cup {"none"}, ret \in {1, 0, -1} :
          /\ Recv(t, unit, ret)
          /\ \/ /\ ret # 1
                /\ Goto(t, IF ret = -1 THEN "reject" ELSE "close")
                /\ UNCHANGED left
             \/ /\ ret = 1
                /\ left' = [left EXCEPT ![t] = @ - 1]
                /\ Goto(t, IF left[t] = 1 THEN "ok" ELSE "fields")
    /\ UNCHANGED <<env, out, file, confd, sock, id, found, check_tag, map, shared>>

Reject(t) ==
    /\ pc[t] = "reject"
    /\ \E ret \in {1, -1} : Send(sock[t], [what |-> "HELLO_ERROR"], ret)
    /\ Goto(t, "close")
    /\ UNCHANGED <<env, in, file, confd, locals, map, shared>>

(* close() and pthread_exit() of a thread that has registered nobody.       *)
Refuse(t) ==
    /\ pc[t] = "close"
    /\ Close(t)
    /\ Goto(t, "refused")
    /\ UNCHANGED <<env, in, out, confd, locals, map, shared>>

(* A failed send is reported, and the client registered all the same.       *)
ReplyOK(t) ==
    /\ pc[t] = "ok"
    /\ \E ret \in {1, -1} : Send(sock[t], [what |-> "HELLO_OK"], ret)
    /\ Goto(t, "register")
    /\ UNCHANGED <<env, in, file, confd, locals, map, shared>>

-----------------------------------------------------------------------------
(* The client map *)

Least(S)    == CHOOSE i \in S : \A j \in S : i <= j
Greatest(S) == CHOOSE i \in S : \A j \in S : i >= j

(* updateMINID, on the map that addClient leaves.                           *)
UpdateMINID(occ) ==
    LET free == {i \in Slots : i < num_clients /\ ~occ[i]} IN
    minID' = IF free = {} THEN minID ELSE Least(free)

(* Mutant: the loop leaves its counter behind when it finds no slot.        *)
LastOccupiedNone(occ, max) ==
    LET below == {i \in Slots : i < max /\ occ[i]} IN
    IF below = {} THEN -1 ELSE Greatest(below)

(* updateMAXID: the last occupied slot below max, if there is one.          *)
LastOccupied(occ, max) ==
    LET below == {i \in Slots : i < max /\ occ[i]} IN
    IF below = {} THEN max ELSE Greatest(below)

(* addClient, in one critical section.                                      *)
Register(t) ==
    /\ pc[t] = "register"
    /\ id'       = [id EXCEPT ![t] = minID]
    /\ occupied' = [occupied EXCEPT ![minID] = TRUE]
    /\ mapSock'  = [mapSock EXCEPT ![minID] = sock[t]]
    /\ maxID'    = IF minID > maxID THEN minID ELSE maxID
    /\ UpdateMINID(occupied')
    /\ Goto(t, "id")
    /\ UNCHANGED <<env, kernel, sock, at, left, found, check_tag, num_clients, shared>>

(* removeClient.                                                            *)
RemoveClient(i) ==
    /\ occupied'    = [occupied EXCEPT ![i] = FALSE]
    /\ num_clients' = num_clients - 1
    /\ minID'       = IF i < minID THEN i ELSE minID
    /\ UNCHANGED mapSock

MaxAfterRemoving(i) ==
    IF i = maxID THEN LastOccupied([occupied EXCEPT ![i] = FALSE], maxID) ELSE maxID

(* removeClient and, unless the client relocates, repairTopology, in one    *)
(* critical section; the client was closed before it.                       *)
RemoveAndRepair(t) ==
    LET i   == id[t]
        max == MaxAfterRemoving(i)
    IN
    /\ pc[t] \in {"remove", "repair"}
    /\ RemoveClient(i)
    /\ IF pc[t] = "remove" \/ i > max \/ i = 0
       THEN maxID' = max /\ UNCHANGED out
       ELSE /\ maxID' = LastOccupied([occupied EXCEPT ![i] = FALSE], max)
            /\ \E ret \in {1, -1} : Send(mapSock[max], [what |-> "RECONNECT"], ret)
    /\ Goto(t, "gone")
    /\ UNCHANGED <<env, in, file, confd, locals, shared>>

SendID(t) ==
    /\ pc[t] = "id"
    /\ \E ret \in {1, -1} :
          /\ Send(sock[t], [what |-> "id", val |-> id[t]], ret)
          /\ Goto(t, IF ret = 1 THEN "count" ELSE "drop")
    /\ left'  = [left EXCEPT ![t] = MAX_NEIGHBORS]
    /\ found' = [found EXCEPT ![t] = 0]
    /\ UNCHANGED <<env, in, file, confd, sock, at, id, check_tag, map, shared>>

(* Mutants of the next action: the client is not removed; or it is removed  *)
(* and its thread goes on.                                                  *)
DropOnly(t) ==
    /\ pc[t] = "drop"
    /\ Goto(t, "hangup")
    /\ UNCHANGED <<env, kernel, locals, map, shared>>

DropGoesOn(t) ==
    /\ pc[t] = "drop"
    /\ RemoveClient(id[t])
    /\ maxID' = MaxAfterRemoving(id[t])
    /\ Goto(t, "count")
    /\ UNCHANGED <<env, kernel, locals, shared>>

(* socketCheck in mode 2: the client is removed, without a repair, and then *)
(* closed.                                                                  *)
Drop(t) ==
    /\ pc[t] = "drop"
    /\ RemoveClient(id[t])
    /\ maxID' = MaxAfterRemoving(id[t])
    /\ Goto(t, "hangup")
    /\ UNCHANGED <<env, kernel, locals, shared>>

HangUp(t) ==
    /\ pc[t] = "hangup"
    /\ Close(t)
    /\ Goto(t, "gone")
    /\ UNCHANGED <<env, in, out, confd, locals, map, shared>>

-----------------------------------------------------------------------------
(* sendClients reads the map without the mutex, one neighbour at a time and *)
(* in two passes; its sends are checked in mode 0, which ignores failures.  *)

(* getNeighbors: the ID with one bit flipped.                               *)
Flip(i, b) == IF (i \div 2^b) % 2 = 0 THEN i + 2^b ELSE i - 2^b

Looked(t) == Flip(id[t], MAX_NEIGHBORS - left[t])

CountNeighbor(t) ==
    /\ pc[t] = "count" /\ left[t] > 0
    /\ found' = [found EXCEPT ![t] = IF occupied[Looked(t)] THEN @ + 1 ELSE @]
    /\ left'  = [left EXCEPT ![t] = @ - 1]
    /\ UNCHANGED <<env, kernel, pc, sock, at, id, check_tag, map, shared>>

SendCount(t) ==
    /\ pc[t] = "count" /\ left[t] = 0
    /\ \E ret \in {1, -1} : Send(sock[t], [what |-> "count", val |-> found[t]], ret)
    /\ left' = [left EXCEPT ![t] = MAX_NEIGHBORS]
    /\ Goto(t, "list")
    /\ UNCHANGED <<env, in, file, confd, sock, at, id, found, check_tag, map, shared>>

SendNeighbor(t) ==
    /\ pc[t] = "list" /\ left[t] > 0
    /\ IF occupied[Looked(t)]
       THEN \E ret \in {1, -1} :
               Send(sock[t], [what |-> "neighbor", val |-> Looked(t)], ret)
       ELSE UNCHANGED out
    /\ left' = [left EXCEPT ![t] = @ - 1]
    /\ UNCHANGED <<env, in, file, confd, pc, sock, at, id, found, check_tag, map, shared>>

ListDone(t) ==
    /\ pc[t] = "list" /\ left[t] = 0
    /\ Goto(t, "check")
    /\ UNCHANGED <<env, kernel, locals, map, shared>>

(* Mutant: the end of the stream is taken for an unknown tag.               *)
WatchOn(t) ==
    /\ pc[t] = "check"
    /\ \E unit \in Units \cup {"none"}, ret \in {1, 0, -1} :
          /\ Recv(t, unit, ret)
          /\ \E tag \in Values(IF ret = 1 THEN unit ELSE check_tag[t]) :
                /\ check_tag' = [check_tag EXCEPT ![t] = tag]
                /\ \/ tag = "RECONNECT" /\ Goto(t, "relocate")
                   \/ (tag = "QUIT" \/ (ret = -1 /\ tag # "RECONNECT")) /\ Goto(t, "leave")
                   \/ tag \notin {"RECONNECT", "QUIT"} /\ ret # -1 /\ UNCHANGED pc
    /\ UNCHANGED <<env, out, file, confd, sock, id, left, found, map, shared>>

(* The loop of clientWrapper: check_tag keeps its last value, or garbage,   *)
(* when nothing is read; it is compared before the result is.               *)
Watch(t) ==
    /\ pc[t] = "check"
    /\ \E unit \in Units \cup {"none"}, ret \in {1, 0, -1} :
          /\ Recv(t, unit, ret)
          /\ \E tag \in Values(IF ret = 1 THEN unit ELSE check_tag[t]) :
                /\ check_tag' = [check_tag EXCEPT ![t] = tag]
                /\ \/ tag = "RECONNECT" /\ Goto(t, "relocate")
                   \/ tag # "RECONNECT" /\ (ret # 1 \/ tag = "QUIT") /\ Goto(t, "leave")
                   \/ tag \notin {"RECONNECT", "QUIT"} /\ ret = 1 /\ UNCHANGED pc
    /\ UNCHANGED <<env, out, file, confd, sock, id, left, found, map, shared>>

(* The client is closed before it is removed.                               *)
CloseSession(t) ==
    /\ pc[t] \in {"relocate", "leave"}
    /\ Close(t)
    /\ Goto(t, IF pc[t] = "relocate" THEN "remove" ELSE "repair")
    /\ UNCHANGED <<env, in, out, confd, locals, map, shared>>

-----------------------------------------------------------------------------

ThreadStep(t) ==
    \/ ReadArg(t) \/ CheckLimit(t) \/ Call(t) \/ RecvTag(t) \/ RecvField(t)
    \/ Reject(t) \/ Refuse(t) \/ ReplyOK(t)
    \/ Register(t) \/ SendID(t) \/ Drop(t) \/ HangUp(t)
    \/ CountNeighbor(t) \/ SendCount(t) \/ SendNeighbor(t) \/ ListDone(t)
    \/ Watch(t) \/ CloseSession(t) \/ RemoveAndRepair(t)

ClientStep(c) == Connect(c) \/ SendHello(c) \/ SayGoodbye(c) \/ Die(c)

Running == confd # Failed

Next ==
    /\ Running
    /\ \/ AcceptFails
       \/ \E c \in Conns : ClientStep(c) \/ Accept(c) \/ ThreadStep(c)

Spec == Init /\ [][Next]_vars

(* Every thread of the server runs; clients need not do anything.           *)
FairSpec ==
    /\ Spec
    /\ \A c \in Conns : WF_vars(Running /\ Accept(c)) /\ WF_vars(Running /\ ThreadStep(c))

-----------------------------------------------------------------------------
(* Properties *)

TypeOK ==
    /\ client \in [Conns -> Clients]
    /\ hello \in [Conns -> 0 .. FIELDS + 1]
    /\ in \in [Conns -> Seq(Units)]
    /\ out \in [Conns -> Seq(Replies)]
    /\ file \in [Fds -> Conns \cup {NoConn}]
    /\ confd \in Fds \cup {NoFd, Failed}
    /\ pc \in [Conns -> PCs]
    /\ sock \in [Conns -> Fds \cup {NoFd}]
    /\ at \in [Conns -> Conns \cup {NoConn}]
    /\ id \in [Conns -> Slots]
    /\ left \in [Conns -> Nat]
    /\ found \in [Conns -> Nat]
    /\ check_tag \in [Conns -> Tags \cup {"none"}]
    /\ occupied \in [Slots -> BOOLEAN]
    /\ mapSock \in [Slots -> Fds \cup {NoFd}]
    /\ minID \in Slots
    /\ maxID \in Slots
    /\ num_clients \in Int
    /\ shared \in SUBSET Conns

(* The threads that have registered a client and not yet removed it.        *)
Registered(t) ==
    pc[t] \in {"id", "drop", "count", "list", "check", "relocate", "leave", "remove", "repair"}

(* Every registration is removed exactly once, whichever way its thread     *)
(* ends and even if two threads serve one connection: num_clients counts    *)
(* the removals, downwards.  Nothing in server.c counts upwards.            *)
Books == num_clients + Cardinality({t \in Conns : pc[t] \in {"hangup", "gone"}}) = 0

(* No entry of clientMap outlives its client: the thread of some registered *)
(* client is there to remove it (addClient, removeClient, socketCheck).     *)
NoStaleEntry ==
    \A i \in Slots : occupied[i] => \E t \in Conns : Registered(t) /\ id[t] = i

(* A thread whose client has gone ends, if nobody else ever used its        *)
(* descriptor.  A thread that shares one may be left with the number of     *)
(* a connection that was accepted later; but when all clients have gone,    *)
(* all threads end.                                                         *)
Gone(c)  == client[c] \in {"closed", "reset"}
Ended(t) == pc[t] \in {"refused", "gone"}

ThreadsEnd ==
    /\ \A t \in Conns : Gone(t) /\ t \notin shared ~> Ended(t) \/ t \in shared \/ ~Running
    /\ (\A c \in Conns : Gone(c)) ~> (\A t \in Conns : Ended(t)) \/ ~Running

(* README.md:20-22 has supernodes assist the maintenance of a hypercube and *)
(* updateMINID is to "check the first empty spot" (server.c:434): two       *)
(* clients that are registered and connected at once, each served by its    *)
(* own thread, have two places in the hypercube.                            *)
OwnPlaces ==
    \A s, t \in Conns \ shared :
        /\ s # t
        /\ Registered(s) /\ Registered(t)
        /\ client[s] = "up" /\ client[t] = "up"
        => id[s] # id[t]

=============================================================================
