----------------------------- MODULE MeshServer -----------------------------
(***************************************************************************)
(* The super-peer of the full mesh (source/mesh-p2p/server.c): it sends a   *)
(* new client the list of the clients it knows, registers it, and removes   *)
(* it when it leaves.  The list is sent without the mutex.                  *)
(*                                                                          *)
(* A thread is named by the connection main() started it for, but serves    *)
(* the descriptor that main's confd holds when it gets round to reading it. *)
(* Descriptors are numbers: close() frees one, the next accept() takes the  *)
(* least free one, and a thread that another thread's close() meets inside  *)
(* recv() stays with its old connection until that recv() returns.          *)
(*                                                                          *)
(* The units of a connection are its tags and the fields of a HELLO or of a *)
(* list entry, each what one socketRecv or socketSend moves.  Several       *)
(* threads can pass the test of MAX_CLIENTS before one of them is counted;  *)
(* what a write past the end of clients destroys is not modelled: with at   *)
(* least as many slots as connections there is no such write.               *)
(***************************************************************************)
EXTENDS Integers, Sequences, FiniteSets

CONSTANTS Conns,          \* the connections clients open
          NoConn,         \* no connection
          MAX_CLIENTS,    \* slots of clients: 256
          FIELDS          \* fields of a HELLO and of a list entry: 6

ASSUME MeshServerAssumption ==
    /\ IsFiniteSet(Conns)
    /\ NoConn \notin Conns
    /\ MAX_CLIENTS \in Nat
    /\ MAX_CLIENTS >= Cardinality(Conns)
    /\ FIELDS \in Nat \ {0}

Fds   == 1 .. Cardinality(Conns)
NoFd  == 0
Failed == -1                        \* what a failing accept() returns
Slots == 0 .. Cardinality(Conns)    \* with one entry past the last write

Tags    == {"HELLO_MSG", "MSG_DATA", "QUIT", "other"}
Units   == {"HELLO_MSG", "QUIT", "field"}
Replies == [what : {"HELLO_OK", "HELLO_ERROR"}]
             \cup [what : {"count"}, val : 0 .. 255]
             \cup [what : {"field"}, val : Conns \cup {NoConn}]
Entries == [socket_fd : Fds \cup {NoFd}, who : Conns \cup {NoConn}]

Receiving == {"tag", "fields", "serve", "message"}
PCs == Receiving \cup {"none", "start", "limit", "reject", "ok", "count", "look", "entry",
                       "register", "added", "close", "find", "shift", "refused", "gone"}

VARIABLES
    client,       \* client[c]: "new", "up", or how it ended: "closed", "reset"
    hello,        \* hello[c]: units of its HELLO the client has sent
    in, out,      \* in[c], out[c]: units to and from the server
    file,         \* file[f]: the connection descriptor f is open on, or NoConn
    confd,        \* main's variable
    pc,           \* pc[t]: where thread t is
    fd,           \* fd[t]: its confd, and current_client.socket_fd
    at,           \* at[t]: the connection its recv() is under way on
    who,          \* who[t]: whose HELLO filled current_client
    left,         \* left[t]: fields to receive or to send
    pos,          \* pos[t]: the loop counter, of the list or of the removal
    clients, num_clients,
    mutex,        \* the thread that holds it, or NoConn
    shared        \* history: connections whose descriptor had several users

env     == <<client, hello>>
kernel  == <<in, out, file, confd>>
thread  == <<fd, at, who, left, pos>>
array   == <<clients, num_clients>>
vars    == <<env, kernel, pc, thread, array, mutex, shared>>

Init ==
    /\ client = [c \in Conns |-> "new"]
    /\ hello  = [c \in Conns |-> 0]
    /\ in     = [c \in Conns |-> <<>>]
    /\ out    = [c \in Conns |-> <<>>]
    /\ file   = [f \in Fds |-> NoConn]
    /\ confd  = NoFd
    /\ pc     = [t \in Conns |-> "none"]
    /\ fd     = [t \in Conns |-> NoFd]
    /\ at     = [t \in Conns |-> NoConn]
    /\ who    = [t \in Conns |-> NoConn]
    /\ left   = [t \in Conns |-> 0]
    /\ pos    = [t \in Conns |-> 0]
    /\ clients = [i \in Slots |-> [socket_fd |-> NoFd, who |-> NoConn]]
    /\ num_clients = 0
    /\ mutex  = NoConn
    /\ shared = {}

-----------------------------------------------------------------------------
(* The client's side (client.c as the server sees it).                      *)

Connect(c) ==
    /\ client[c] = "new"
    /\ client' = [client EXCEPT ![c] = "up"]
    /\ UNCHANGED <<hello, kernel, pc, thread, array, mutex, shared>>

SendHello(c) ==
    /\ client[c] = "up"
    /\ hello[c] <= FIELDS
    /\ in'    = [in EXCEPT ![c] = Append(@, IF hello[c] = 0 THEN "HELLO_MSG" ELSE "field")]
    /\ hello' = [hello EXCEPT ![c] = @ + 1]
    /\ UNCHANGED <<client, out, file, confd, pc, thread, array, mutex, shared>>

(* What the client takes for its list has arrived.                          *)
HasList(c) ==
    /\ Len(out[c]) >= 2
    /\ out[c][1].what = "HELLO_OK"
    /\ out[c][2].what = "count" => Len(out[c]) >= 2 + FIELDS * out[c][2].val

SayGoodbye(c) ==
    /\ client[c] = "up"
    /\ HasList(c)
    /\ in'     = [in EXCEPT ![c] = Append(@, "QUIT")]
    /\ client' = [client EXCEPT ![c] = "closed"]
    /\ UNCHANGED <<hello, out, file, confd, pc, thread, array, mutex, shared>>

(* The client exits without a goodbye; the kernel closes or resets.         *)
Die(c) ==
    /\ client[c] = "up"
    /\ \E how \in {"closed", "reset"} : client' = [client EXCEPT ![c] = how]
    /\ UNCHANGED <<hello, kernel, pc, thread, array, mutex, shared>>

-----------------------------------------------------------------------------
(* Sockets *)

Goto(t, label) == pc' = [pc EXCEPT ![t] = label]

Close(t) == file' = [file EXCEPT ![fd[t]] = NoConn]

(* socketSend of one unit to the connection the descriptor is open on now.  *)
Send(t, reply, ret) ==
    LET c == file[fd[t]] IN
    IF c # NoConn /\ client[c] = "up"
    THEN ret = 1 /\ out' = [out EXCEPT ![c] = Append(@, reply)]
    ELSE ret \in (IF c = NoConn THEN {-1} ELSE {1, -1}) /\ UNCHANGED out

(* recv() begins: it finds the connection its descriptor is open on.        *)
Call(t) ==
    /\ pc[t] \in Receiving
    /\ at[t] = NoConn
    /\ file[fd[t]] # NoConn
    /\ at' = [at EXCEPT ![t] = file[fd[t]]]
    /\ UNCHANGED <<env, kernel, pc, fd, who, left, pos, array, mutex, shared>>

(* socketRecv of one unit returns: what was sent comes before the end or    *)
(* the error, and on a closed descriptor recv() fails at once.              *)
Recv(t, unit, ret) ==
    LET c == at[t] IN
    /\ \/ c # NoConn /\ in[c] # <<>> /\ ret = 1 /\ unit = Head(in[c])
          /\ in' = [in EXCEPT ![c] = Tail(@)]
       \/ c # NoConn /\ in[c] = <<>> /\ client[c] = "closed" /\ ret = 0 /\ unit = "none"
          /\ UNCHANGED in
       \/ c # NoConn /\ in[c] = <<>> /\ client[c] = "reset" /\ ret = -1 /\ unit = "none"
          /\ UNCHANGED in
       \/ c = NoConn /\ file[fd[t]] = NoConn /\ ret = -1 /\ unit = "none"
          /\ UNCHANGED in
    /\ at' = [at EXCEPT ![t] = NoConn]

(* A field read as a tag may have any value, and so may a variable into     *)
(* which nothing was read.                                                  *)
Values(unit) == IF unit \in {"field", "none"} THEN Tags ELSE {unit}

-----------------------------------------------------------------------------
(* main *)

FreeFds == {f \in Fds : file[f] = NoConn}

(* The threads that may still receive from or send to a descriptor's        *)
(* number, open or not.                                                     *)
Users(f) == {t \in Conns : fd[t] = f /\ pc[t] \notin {"find", "shift", "refused", "gone"}}

Accept(c) ==
    /\ client[c] # "new"
    /\ pc[c] = "none"
    /\ confd' = CHOOSE f \in FreeFds : \A g \in FreeFds : f <= g
    /\ file'  = [file EXCEPT ![confd'] = c]
    /\ shared' = IF Users(confd') = {} THEN shared ELSE shared \cup {c}
    /\ Goto(c, "start")
    /\ UNCHANGED <<env, in, out, thread, array, mutex>>

(* A failing accept() ends the process.                                     *)
AcceptFails ==
    /\ confd' = Failed
    /\ UNCHANGED <<env, in, out, file, pc, thread, array, mutex, shared>>

-----------------------------------------------------------------------------
(* CommunicationWrapper and helloCheck *)

ReadArg(t) ==
    /\ pc[t] = "start"
    /\ fd' = [fd EXCEPT ![t] = confd]
    /\ shared' = shared \cup ({file[confd]} \ {t, NoConn})
    /\ Goto(t, "limit")
    /\ UNCHANGED <<env, kernel, at, who, left, pos, array, mutex>>

CheckLimit(t) ==
    /\ pc[t] = "limit"
    /\ mutex = NoConn
    /\ Goto(t, IF num_clients >= MAX_CLIENTS THEN "reject" ELSE "tag")
    /\ UNCHANGED <<env, kernel, thread, array, mutex, shared>>

RecvTag(t) ==
    /\ pc[t] = "tag"
    /\ \E unit \in Units \cup {"none"}, ret \in {1, 0, -1} :
          /\ Recv(t, unit, ret)
          /\ \E tag \in Values(unit) :
                \/ /\ ret = -1 \/ tag # "HELLO_MSG"
                   /\ Goto(t, "reject")
                   /\ UNCHANGED <<file, left>>
                \/ /\ ret = 0 /\ tag = "HELLO_MSG"
                   /\ Close(t)
                   /\ Goto(t, "refused")
                   /\ UNCHANGED left
                \/ /\ ret = 1 /\ tag = "HELLO_MSG"
                   /\ left' = [left EXCEPT ![t] = FIELDS]
                   /\ Goto(t, "fields")
                   /\ UNCHANGED file
    /\ UNCHANGED <<env, out, confd, fd, who, pos, array, mutex, shared>>

RecvField(t) ==
    /\ pc[t] = "fields"
    /\ \E unit \in Units \cup {"none"}, ret \in {1, 0, -1} :
          /\ Recv(t, unit, ret)
          /\ \/ /\ ret = -1
                /\ Goto(t, "reject")
                /\ UNCHANGED <<file, left, who>>
             \/ /\ ret = 0
                /\ Close(t)
                /\ Goto(t, "refused")
                /\ UNCHANGED <<left, who>>
             \/ /\ ret = 1
                /\ who'  = [who EXCEPT ![t] = at[t]]
                /\ left' = [left EXCEPT ![t] = @ - 1]
                /\ Goto(t, IF left[t] = 1 THEN "ok" ELSE "fields")
                /\ UNCHANGED file
    /\ UNCHANGED <<env, out, confd, fd, pos, array, mutex, shared>>

Reject(t) ==
    /\ pc[t] = "reject"
    /\ \E ret \in {1, -1} : Send(t, [what |-> "HELLO_ERROR"], ret)
    /\ Close(t)
    /\ Goto(t, "refused")
    /\ UNCHANGED <<env, in, confd, thread, array, mutex, shared>>

(* A failed send is reported, and the client registered all the same.       *)
(* Mutant: it is registered before its list is sent, too.                   *)
ReplyOKRegisters(t) ==
    /\ pc[t] = "ok"
    /\ mutex = NoConn
    /\ num_clients < Cardinality(Conns)
    /\ \E ret \in {1, -1} : Send(t, [what |-> "HELLO_OK"], ret)
    /\ clients' = [clients EXCEPT ![num_clients] = [socket_fd |-> fd[t], who |-> who[t]]]
    /\ num_clients' = num_clients + 1
    /\ Goto(t, "count")
    /\ UNCHANGED <<env, in, file, confd, thread, mutex, shared>>

ReplyOK(t) ==
    /\ pc[t] = "ok"
    /\ \E ret \in {1, -1} : Send(t, [what |-> "HELLO_OK"], ret)
    /\ Goto(t, "count")
    /\ UNCHANGED <<env, in, file, confd, thread, array, mutex, shared>>

-----------------------------------------------------------------------------
(* The list, sent without the mutex: the count is announced once, and the   *)
(* loop compares with num_clients again before every entry.                 *)

SendCount(t) ==
    /\ pc[t] = "count"
    /\ \E ret \in {1, -1} : Send(t, [what |-> "count", val |-> num_clients % 256], ret)
    /\ pos' = [pos EXCEPT ![t] = 0]
    /\ Goto(t, "look")
    /\ UNCHANGED <<env, in, file, confd, fd, at, who, left, array, mutex, shared>>

(* Mutants: the entry after the last one is sent, too; the field counter is *)
(* not set for the next entry.                                              *)
LookPast(t) ==
    /\ pc[t] = "look"
    /\ left' = [left EXCEPT ![t] = FIELDS]
    /\ Goto(t, IF pos[t] <= num_clients THEN "entry" ELSE "register")
    /\ UNCHANGED <<env, kernel, fd, at, who, pos, array, mutex, shared>>

LookOn(t) ==
    /\ pc[t] = "look"
    /\ Goto(t, IF pos[t] < num_clients THEN "entry" ELSE "register")
    /\ UNCHANGED <<env, kernel, thread, array, mutex, shared>>

Look(t) ==
    /\ pc[t] = "look"
    /\ left' = [left EXCEPT ![t] = FIELDS]
    /\ Goto(t, IF pos[t] < num_clients THEN "entry" ELSE "register")
    /\ UNCHANGED <<env, kernel, fd, at, who, pos, array, mutex, shared>>

(* Every field of the entry is read when it is sent.                        *)
SendField(t) ==
    /\ pc[t] = "entry"
    /\ \E ret \in {1, -1} : Send(t, [what |-> "field", val |-> clients[pos[t]].who], ret)
    /\ left' = [left EXCEPT ![t] = @ - 1]
    /\ IF left[t] = 1
       THEN pos' = [pos EXCEPT ![t] = @ + 1] /\ Goto(t, "look")
       ELSE UNCHANGED <<pos, pc>>
    /\ UNCHANGED <<env, in, file, confd, fd, at, who, array, mutex, shared>>

-----------------------------------------------------------------------------
(* addClient and removeClient hold the mutex; the threads that send a list  *)
(* see their single stores.                                                 *)

Add(t) ==
    /\ pc[t] = "register"
    /\ mutex = NoConn
    /\ mutex' = t
    /\ clients' = [clients EXCEPT ![num_clients] = [socket_fd |-> fd[t], who |-> who[t]]]
    /\ Goto(t, "added")
    /\ UNCHANGED <<env, kernel, thread, num_clients, shared>>

Added(t) ==
    /\ pc[t] = "added"
    /\ num_clients' = num_clients + 1
    /\ mutex' = NoConn
    /\ Goto(t, "serve")
    /\ UNCHANGED <<env, kernel, thread, clients, shared>>

(* MSGReceive: the end, QUIT, an error and an unknown tag end the session.   *)
(* A message is thrown away, whose units are as many as its lengths say.     *)
RecvMessage(t) ==
    /\ pc[t] \in {"serve", "message"}
    /\ \E unit \in Units \cup {"none"}, ret \in {1, 0, -1} :
          /\ Recv(t, unit, ret)
          /\ \E tag \in Values(unit), next \in {"serve", "message"} :
                LET goes_on == ret = 1 /\ (pc[t] = "message" \/ tag = "MSG_DATA") IN
                Goto(t, IF goes_on THEN next ELSE "close")
    /\ UNCHANGED <<env, out, file, confd, fd, who, left, pos, array, mutex, shared>>

(* Mutant: the client is not removed.                                       *)
CloseOnly(t) ==
    /\ pc[t] = "close"
    /\ Close(t)
    /\ Goto(t, "gone")
    /\ UNCHANGED <<env, in, out, confd, thread, array, mutex, shared>>

CloseSession(t) ==
    /\ pc[t] = "close"
    /\ Close(t)
    /\ Goto(t, "find")
    /\ UNCHANGED <<env, in, out, confd, thread, array, mutex, shared>>

(* The first entry with this descriptor.                                    *)
Found(t) == {i \in Slots : i < num_clients /\ clients[i].socket_fd = fd[t]}

FindEntry(t) ==
    /\ pc[t] = "find"
    /\ mutex = NoConn
    /\ IF Found(t) = {}
       THEN Goto(t, "gone") /\ UNCHANGED <<pos, mutex>>
       ELSE /\ pos' = [pos EXCEPT ![t] = CHOOSE i \in Found(t) : \A j \in Found(t) : i <= j]
            /\ mutex' = t
            /\ Goto(t, "shift")
    /\ UNCHANGED <<env, kernel, fd, at, who, left, array, shared>>

Shift(t) ==
    /\ pc[t] = "shift"
    /\ pos[t] < num_clients - 1
    /\ clients' = [clients EXCEPT ![pos[t]] = clients[pos[t] + 1]]
    /\ pos' = [pos EXCEPT ![t] = @ + 1]
    /\ UNCHANGED <<env, kernel, pc, fd, at, who, left, num_clients, mutex, shared>>

(* Mutant: the mutex stays locked.                                          *)
RemovedLocked(t) ==
    /\ pc[t] = "shift"
    /\ pos[t] >= num_clients - 1
    /\ num_clients' = num_clients - 1
    /\ Goto(t, "gone")
    /\ UNCHANGED <<env, kernel, thread, clients, mutex, shared>>

Removed(t) ==
    /\ pc[t] = "shift"
    /\ pos[t] >= num_clients - 1
    /\ num_clients' = num_clients - 1
    /\ mutex' = NoConn
    /\ Goto(t, "gone")
    /\ UNCHANGED <<env, kernel, thread, clients, shared>>

-----------------------------------------------------------------------------

ThreadStep(t) ==
    \/ ReadArg(t) \/ CheckLimit(t) \/ Call(t) \/ RecvTag(t) \/ RecvField(t)
    \/ Reject(t) \/ ReplyOK(t) \/ SendCount(t) \/ Look(t) \/ SendField(t)
    \/ Add(t) \/ Added(t) \/ RecvMessage(t)
    \/ CloseSession(t) \/ FindEntry(t) \/ Shift(t) \/ Removed(t)

ClientStep(c) == Connect(c) \/ SendHello(c) \/ SayGoodbye(c) \/ Die(c)

Running == confd # Failed

Next ==
    /\ Running
    /\ \/ AcceptFails
       \/ \E c \in Conns : ClientStep(c) \/ Accept(c) \/ ThreadStep(c)

Spec == Init /\ [][Next]_vars

(* Every thread of the server runs; clients need not do anything.           *)
FairSpec ==
    /\ Spec
    /\ \A c \in Conns : WF_vars(Running /\ Accept(c)) /\ WF_vars(Running /\ ThreadStep(c))

-----------------------------------------------------------------------------
(* Properties *)

TypeOK ==
    /\ client \in [Conns -> {"new", "up", "closed", "reset"}]
    /\ hello \in [Conns -> 0 .. FIELDS + 1]
    /\ in \in [Conns -> Seq(Units)]
    /\ out \in [Conns -> Seq(Replies)]
    /\ file \in [Fds -> Conns \cup {NoConn}]
    /\ confd \in Fds \cup {NoFd, Failed}
    /\ pc \in [Conns -> PCs]
    /\ fd \in [Conns -> Fds \cup {NoFd}]
    /\ at \in [Conns -> Conns \cup {NoConn}]
    /\ who \in [Conns -> Conns \cup {NoConn}]
    /\ left \in [Conns -> 0 .. FIELDS]
    /\ pos \in [Conns -> Slots]
    /\ clients \in [Slots -> Entries]
    /\ num_clients \in 0 .. Cardinality(Conns)
    /\ mutex \in Conns \cup {NoConn}
    /\ shared \in SUBSET Conns

(* The threads that have registered a client and not yet removed one.       *)
Registered == {t \in Conns : pc[t] \in {"serve", "message", "close", "find", "shift"}}

(* A descriptor has as many entries as threads that will remove one: no     *)
(* removal finds nothing and no entry stays behind, although descriptors    *)
(* are reused before their entries are removed (server.c closes first) and  *)
(* may be shared by the threads of two connections.                         *)
Books ==
    mutex = NoConn =>
        \A f \in Fds : Cardinality({i \in Slots : i < num_clients /\ clients[i].socket_fd = f})
                     = Cardinality({t \in Registered : fd[t] = f})

(* Although the list is read without the mutex, while entries are added and *)
(* shifted, every field sent comes from an entry that was filled.           *)
ListsAreFilled ==
    \A c \in Conns : \A n \in DOMAIN out[c] :
        out[c][n].what = "field" => out[c][n].val # NoConn

(* When all clients have gone every thread ends and the list is empty, if   *)
(* no accept() fails first.                                                 *)
AllEnd ==
    (\A c \in Conns : client[c] \in {"closed", "reset"}) ~>
        \/ num_clients = 0 /\ \A t \in Conns : pc[t] \in {"refused", "gone"}
        \/ ~Running

(* README.md calls this program the "full mesh topology": of two clients    *)
(* that are up and registered, one was told of the other (and connects).    *)
Settled(c)    == client[c] = "up" /\ pc[c] = "serve" /\ who[c] = c /\ HasList(c)
ToldOf(c, d)  == \E n \in DOMAIN out[c] : out[c][n].what = "field" /\ out[c][n].val = d
FullMesh      == \A c, d \in Conns :
                     c # d /\ Settled(c) /\ Settled(d) => ToldOf(c, d) \/ ToldOf(d, c)

(* Who is told of a client connects to it.  Among clients whose descriptor  *)
(* nobody else has used, none is told of itself, and no two of each other:  *)
(* they would show every message twice.  The list is read, and the client   *)
(* added later, without a mutex around.                                     *)
OneDials ==
    \A c, d \in Conns \ shared : ToldOf(c, d) => c # d /\ ~ToldOf(d, c)

=============================================================================
