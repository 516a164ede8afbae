-------------------------------- MODULE Chat --------------------------------
(***************************************************************************)
(* The client-server chat (source/client-server): server.c with one thread  *)
(* per connection, client.c at the other end of each, over cs87talk.c.      *)
(*                                                                          *)
(* The units of a connection are tags, names and texts; a length travels    *)
(* with what it counts.  Descriptors are numbers: close() frees one, the    *)
(* next accept() takes the least free one.  A thread is named by the        *)
(* connection main() started it for, but serves the descriptor that main's  *)
(* confd holds when it gets round to reading it, and a recv() under way     *)
(* stays with its connection when another thread closes the descriptor.     *)
(*                                                                          *)
(* clients and num_clients are used in the mutex only, so that adding and   *)
(* removing are single steps; a broadcast sends with the mutex held.        *)
(***************************************************************************)
EXTENDS Integers, Sequences, FiniteSets

CONSTANTS Conns,          \* the connections clients open
          NoConn,         \* no connection
          Says,           \* Says[c]: texts the user of client c types
          Leavers,        \* the clients that may end by themselves
          Faults,         \* whether accept() may fail
          MAX_CLIENTS,    \* slots of clients: 256
          SockBuf         \* units a connection buffers for a client

ASSUME ChatAssumption ==
    /\ IsFiniteSet(Conns)
    /\ NoConn \notin Conns
    /\ Says \in [Conns -> Nat]
    /\ Leavers \subseteq Conns
    /\ Faults \in BOOLEAN
    /\ MAX_CLIENTS \in Nat
    /\ MAX_CLIENTS >= Cardinality(Conns)
    /\ SockBuf \in Nat \ {0}

Fds  == 1 .. Cardinality(Conns)
NoFd == 0

Unit(tag)     == [what |-> tag, n |-> 0]
Text(n)       == [what |-> "text", n |-> n]
Tags          == {"HELLO_MSG", "MSG_DATA", "QUIT", "HELLO_OK", "HELLO_ERROR"}
Units         == [what : Tags \cup {"name", "text"}, n : Nat]
Nothing       == [from |-> NoConn, n |-> 0]

Receiving == {"tag", "name", "serve", "text"}
Sending   == {"sendtag", "sendtext"}
PCs == Receiving \cup Sending
         \cup {"none", "start", "limit", "reject", "ok", "register", "broadcast",
               "close", "remove", "refused", "gone"}

VARIABLES
    life,         \* life[c]: the client process: "new", "up" or "gone"
    sent,         \* sent[c]: units the client has sent
    got,          \* got[c]: units the client has read
    reads,        \* reads[c]: what it takes the next unit for
    in,           \* in[c]: units to the server
    out,          \* out[c]: all units the server ever sent on c
    file,         \* file[f]: the connection descriptor f is open on, or NoConn
    confd,        \* main's variable
    pc,           \* pc[t]: where thread t of the server is
    fd,           \* fd[t]: its confd, and current_client.socket_fd
    at,           \* at[t]: the connection its recv() is under way on
    who,          \* who[t]: whose name is in current_client
    msg,          \* msg[t]: the text it has received
    pos,          \* pos[t]: its loop index in broadcast
    clients,      \* the descriptors in clients[0 .. num_clients-1]
    mutex,        \* the thread that holds it, or NoConn
    log,          \* history: what was broadcast
    shared        \* history: connections whose descriptor had several users

proc   == <<life, sent, got, reads>>
wire   == <<in, out>>
kernel == <<file, confd>>
thread == <<fd, at, who, msg, pos>>
hist   == <<log, shared>>
vars   == <<proc, wire, kernel, pc, thread, clients, mutex, hist>>

Init ==
    /\ life    = [c \in Conns |-> "new"]
    /\ sent    = [c \in Conns |-> 0]
    /\ got     = [c \in Conns |-> 0]
    /\ reads   = [c \in Conns |-> "reply"]
    /\ in      = [c \in Conns |-> <<>>]
    /\ out     = [c \in Conns |-> <<>>]
    /\ file    = [f \in Fds \cup {NoFd} |-> NoConn]
    /\ confd   = NoFd
    /\ pc      = [t \in Conns |-> "none"]
    /\ fd      = [t \in Conns |-> NoFd]
    /\ at      = [t \in Conns |-> NoConn]
    /\ who     = [t \in Conns |-> NoConn]
    /\ msg     = [t \in Conns |-> Nothing]
    /\ pos     = [t \in Conns |-> 0]
    /\ clients = <<>>
    /\ mutex   = NoConn
    /\ log     = <<>>
    /\ shared  = {}

-----------------------------------------------------------------------------
(* client.c *)

Connected(c) == reads[c] # "reply"

(* The k-th unit a client sends: tag and name, then tag and text in turn.   *)
ClientUnit(k) ==
    IF k = 1 THEN Unit("HELLO_MSG") ELSE
    IF k = 2 THEN Unit("name") ELSE
    IF k % 2 = 1 THEN Unit("MSG_DATA") ELSE Text(k \div 2 - 1)

Connect(c) ==
    /\ life[c] = "new"
    /\ life' = [life EXCEPT ![c] = "up"]
    /\ UNCHANGED <<sent, got, reads, wire, kernel, pc, thread, clients, mutex, hist>>

SendNext(c) ==
    /\ sent' = [sent EXCEPT ![c] = @ + 1]
    /\ in'   = [in EXCEPT ![c] = Append(@, ClientUnit(sent'[c]))]
    /\ UNCHANGED <<life, got, reads, out, kernel, pc, thread, clients, mutex, hist>>

SendHello(c) ==
    /\ life[c] = "up"
    /\ sent[c] < 2
    /\ SendNext(c)

(* MSGSendWrapper.  A send that fails ends the process, as does the end of  *)
(* input: see Die.                                                          *)
Say(c) ==
    /\ life[c] = "up"
    /\ Connected(c)
    /\ sent[c] < 2 + 2 * Says[c]
    /\ SendNext(c)

SayGoodbye(c) ==
    /\ life[c] = "up"
    /\ c \in Leavers
    /\ Connected(c)
    /\ sent[c] % 2 = 0
    /\ in'   = [in EXCEPT ![c] = Append(@, Unit("QUIT"))]
    /\ life' = [life EXCEPT ![c] = "gone"]
    /\ UNCHANGED <<sent, got, reads, out, kernel, pc, thread, clients, mutex, hist>>

Die(c) ==
    /\ life[c] = "up"
    /\ c \in Leavers
    /\ life' = [life EXCEPT ![c] = "gone"]
    /\ UNCHANGED <<sent, got, reads, wire, kernel, pc, thread, clients, mutex, hist>>

(* The server has closed the connection and the client has read it all.     *)
Ended(c) ==
    /\ pc[c] # "none"
    /\ \A f \in Fds : file[f] # c
    /\ got[c] = Len(out[c])

(* The client takes the byte for what it expects, whatever it is: a text    *)
(* may look like anything, and so may a reply_tag that recv() did not fill, *)
(* since main does not look at what recv() returned.                        *)
Looks(unit) == IF unit \in {"name", "text"} THEN Tags ELSE {unit}

Exit(c) == life' = [life EXCEPT ![c] = "gone"] /\ UNCHANGED reads

Expect(c, next) == reads' = [reads EXCEPT ![c] = next] /\ UNCHANGED life

RecvReply(c) ==
    /\ life[c] = "up"
    /\ reads[c] = "reply"
    /\ sent[c] = 2
    /\ \E reply_tag \in Tags :
          /\ \/ /\ got[c] < Len(out[c])
                /\ reply_tag \in Looks(out[c][got[c] + 1].what)
                /\ got' = [got EXCEPT ![c] = @ + 1]
             \/ Ended(c) /\ UNCHANGED got
          /\ IF reply_tag = "HELLO_OK" THEN Expect(c, "tag") ELSE Exit(c)
    /\ UNCHANGED <<sent, wire, kernel, pc, thread, clients, mutex, hist>>

(* MSGReceiveWrapper and MSGReceive.  What is read for a text and is none   *)
(* has a length of its own: more of the stream, or less, may go with it.    *)
RecvShow(c) ==
    /\ life[c] = "up"
    /\ Connected(c)
    /\ \/ Ended(c) /\ Exit(c) /\ UNCHANGED got
       \/ /\ got[c] < Len(out[c])
          /\ got' = [got EXCEPT ![c] = @ + 1]
          /\ LET unit == out[c][got[c] + 1].what IN
             \/ reads[c] = "tag" /\ "MSG_DATA" \in Looks(unit) /\ Expect(c, "text")
             \/ reads[c] = "tag" /\ unit # "MSG_DATA" /\ Exit(c)
             \/ reads[c] = "text" /\ Expect(c, "tag")
             \/ reads[c] = "text" /\ unit # "text" /\ Expect(c, "text")
    /\ UNCHANGED <<sent, wire, kernel, pc, thread, clients, mutex, hist>>

-----------------------------------------------------------------------------
(* server.c: sockets *)

Goto(t, label) == pc' = [pc EXCEPT ![t] = label]

Close(t) == file' = [file EXCEPT ![fd[t]] = NoConn]

(* One unit to the connection descriptor f is open on now: it waits for     *)
(* room, and to a client that has gone it may still succeed once.           *)
Send(f, unit, ret) ==
    LET c == file[f] IN
    \/ /\ c # NoConn /\ life[c] = "up"
       /\ Len(out[c]) - got[c] < SockBuf
       /\ ret = 1
       /\ out' = [out EXCEPT ![c] = Append(@, unit)]
    \/ c # NoConn /\ life[c] = "gone" /\ ret \in {1, -1} /\ UNCHANGED out
    \/ c = NoConn /\ ret = -1 /\ UNCHANGED out

(* recv() begins: it finds the connection its descriptor is open on.        *)
Call(t) ==
    /\ pc[t] \in Receiving
    /\ at[t] = NoConn
    /\ file[fd[t]] # NoConn
    /\ at' = [at EXCEPT ![t] = file[fd[t]]]
    /\ UNCHANGED <<proc, wire, kernel, pc, fd, who, msg, pos, clients, mutex, hist>>

(* recv() returns a unit.                                                   *)
Receives(t) ==
    /\ pc[t] \in Receiving
    /\ at[t] # NoConn
    /\ in[at[t]] # <<>>
    /\ in' = [in EXCEPT ![at[t]] = Tail(@)]
    /\ at' = [at EXCEPT ![t] = NoConn]

Arrived(t) == Head(in[at[t]])

(* recv() returns 0 or -1: the client has gone and nothing of it is left,   *)
(* or the descriptor was closed before the call.                            *)
Fails(t, ret) ==
    /\ pc[t] \in Receiving
    /\ IF at[t] # NoConn
       THEN in[at[t]] = <<>> /\ life[at[t]] = "gone" /\ ret \in {0, -1}
       ELSE file[fd[t]] = NoConn /\ ret = -1
    /\ at' = [at EXCEPT ![t] = NoConn]
    /\ UNCHANGED in

-----------------------------------------------------------------------------
(* main *)

FreeFds == {f \in Fds : file[f] = NoConn}

(* The descriptor's number may still be in use by threads that have not yet *)
(* noticed that it was closed, or that share it.                            *)
Users(f) == {t \in Conns : fd[t] = f /\ pc[t] \notin {"refused", "gone"}}

Accept(c) ==
    /\ life[c] # "new"
    /\ pc[c] = "none"
    /\ confd'  = CHOOSE f \in FreeFds : \A g \in FreeFds : f <= g
    /\ file'   = [file EXCEPT ![confd'] = c]
    /\ shared' = IF Users(confd') = {} THEN shared ELSE shared \cup {c}
    /\ Goto(c, "start")
    /\ UNCHANGED <<proc, wire, thread, clients, mutex, log>>

(* accept fails: confd is -1 until the next one.                            *)
AcceptFails ==
    /\ Faults
    /\ confd' = NoFd
    /\ UNCHANGED <<proc, wire, file, pc, thread, clients, mutex, hist>>

-----------------------------------------------------------------------------
(* CommunicationWrapper and helloMSGCheck *)

ReadArg(t) ==
    /\ pc[t] = "start"
    /\ fd' = [fd EXCEPT ![t] = confd]
    /\ shared' = shared \cup ({file[confd]} \ {t, NoConn})
    /\ Goto(t, "limit")
    /\ UNCHANGED <<proc, wire, kernel, at, who, msg, pos, clients, mutex, log>>

CheckLimit(t) ==
    /\ pc[t] = "limit"
    /\ mutex = NoConn
    /\ Goto(t, IF Len(clients) >= MAX_CLIENTS THEN "reject" ELSE "tag")
    /\ UNCHANGED <<proc, wire, kernel, thread, clients, mutex, hist>>

RecvTag(t) ==
    /\ pc[t] = "tag"
    /\ Receives(t)
    /\ \/ "HELLO_MSG" \in Looks(Arrived(t).what) /\ Goto(t, "name")
       \/ Arrived(t).what # "HELLO_MSG" /\ Goto(t, "reject")
    /\ UNCHANGED <<proc, out, kernel, fd, who, msg, pos, clients, mutex, hist>>

(* Mutant: current_client is shared by all threads.                         *)
RecvNameStatic(t) ==
    /\ pc[t] = "name"
    /\ Receives(t)
    /\ who' = [u \in Conns |-> at[t]]
    /\ \/ Goto(t, "ok")
       \/ Arrived(t).what # "name" /\ UNCHANGED pc
    /\ UNCHANGED <<proc, out, kernel, fd, msg, pos, clients, mutex, hist>>

(* A name that is none has a length of its own.                             *)
RecvName(t) ==
    /\ pc[t] = "name"
    /\ Receives(t)
    /\ who' = [who EXCEPT ![t] = at[t]]
    /\ \/ Goto(t, "ok")
       \/ Arrived(t).what # "name" /\ UNCHANGED pc
    /\ UNCHANGED <<proc, out, kernel, fd, msg, pos, clients, mutex, hist>>

(* On an error the reply is HELLO_ERROR; at the end of the connection there *)
(* is none, unless the tag left in the variable is not HELLO_MSG.           *)
HelloFails(t) ==
    /\ pc[t] \in {"tag", "name"}
    /\ \E ret \in {0, -1} :
          /\ Fails(t, ret)
          /\ \/ (ret = -1 \/ pc[t] = "tag") /\ Goto(t, "reject") /\ UNCHANGED file
             \/ ret = 0 /\ Close(t) /\ Goto(t, "refused")
    /\ UNCHANGED <<proc, out, confd, fd, who, msg, pos, clients, mutex, hist>>

Reject(t) ==
    /\ pc[t] = "reject"
    /\ \E ret \in {1, -1} : Send(fd[t], Unit("HELLO_ERROR"), ret)
    /\ Close(t)
    /\ Goto(t, "refused")
    /\ UNCHANGED <<proc, in, confd, thread, clients, mutex, hist>>

(* A failed send is reported, and the client registered all the same.       *)
ReplyOK(t) ==
    /\ pc[t] = "ok"
    /\ \E ret \in {1, -1} : Send(fd[t], Unit("HELLO_OK"), ret)
    /\ Goto(t, "register")
    /\ UNCHANGED <<proc, in, kernel, thread, clients, mutex, hist>>

AddClient(t) ==
    /\ pc[t] = "register"
    /\ mutex = NoConn
    /\ clients' = Append(clients, fd[t])
    /\ Goto(t, "serve")
    /\ UNCHANGED <<proc, wire, kernel, thread, mutex, hist>>

-----------------------------------------------------------------------------
(* MSGReceive and broadcast *)

RecvMsgTag(t) ==
    /\ pc[t] = "serve"
    /\ Receives(t)
    /\ \/ "MSG_DATA" \in Looks(Arrived(t).what) /\ Goto(t, "text")
       \/ Arrived(t).what # "MSG_DATA" /\ Goto(t, "close")
    /\ UNCHANGED <<proc, out, kernel, fd, who, msg, pos, clients, mutex, hist>>

RecvText(t) ==
    /\ pc[t] = "text"
    /\ Receives(t)
    /\ msg' = [msg EXCEPT ![t] = [from |-> at[t], n |-> Arrived(t).n]]
    /\ \/ Goto(t, "broadcast")
       \/ Arrived(t).what # "text" /\ UNCHANGED pc
    /\ UNCHANGED <<proc, out, kernel, fd, who, pos, clients, mutex, hist>>

SessionEnds(t) ==
    /\ pc[t] \in {"serve", "text"}
    /\ \E ret \in {0, -1} : Fails(t, ret)
    /\ Goto(t, "close")
    /\ UNCHANGED <<proc, out, kernel, fd, who, msg, pos, clients, mutex, hist>>

(* Mutant: the mutex is not taken.                                          *)
BroadcastUnlocked(t) ==
    /\ pc[t] = "broadcast"
    /\ log' = Append(log, [name |-> who[t], from |-> msg[t].from, n |-> msg[t].n])
    /\ pos' = [pos EXCEPT ![t] = 1]
    /\ Goto(t, "sendtag")
    /\ UNCHANGED <<proc, wire, kernel, fd, at, who, msg, clients, mutex, shared>>

Broadcast(t) ==
    /\ pc[t] = "broadcast"
    /\ mutex = NoConn
    /\ mutex' = t
    /\ log' = Append(log, [name |-> who[t], from |-> msg[t].from, n |-> msg[t].n])
    /\ pos' = [pos EXCEPT ![t] = 1]
    /\ Goto(t, "sendtag")
    /\ UNCHANGED <<proc, wire, kernel, fd, at, who, msg, clients, shared>>

(* Mutant: the loop ends at the first client that fails.                    *)
SendTagStops(t) ==
    /\ pc[t] = "sendtag"
    /\ pos[t] <= Len(clients)
    /\ \E ret \in {1, -1} :
          /\ Send(clients[pos[t]], Unit("MSG_DATA"), ret)
          /\ IF ret = 1
             THEN Goto(t, "sendtext") /\ UNCHANGED pos
             ELSE pos' = [pos EXCEPT ![t] = Len(clients) + 1] /\ UNCHANGED pc
    /\ UNCHANGED <<proc, in, kernel, fd, at, who, msg, clients, mutex, hist>>

(* MSGSend gives up at the first unit that fails; the loop goes on.         *)
SendTag(t) ==
    /\ pc[t] = "sendtag"
    /\ pos[t] <= Len(clients)
    /\ \E ret \in {1, -1} :
          /\ Send(clients[pos[t]], Unit("MSG_DATA"), ret)
          /\ IF ret = 1
             THEN Goto(t, "sendtext") /\ UNCHANGED pos
             ELSE pos' = [pos EXCEPT ![t] = @ + 1] /\ UNCHANGED pc
    /\ UNCHANGED <<proc, in, kernel, fd, at, who, msg, clients, mutex, hist>>

SendText(t) ==
    /\ pc[t] = "sendtext"
    /\ \E ret \in {1, -1} : Send(clients[pos[t]], Text(Len(log)), ret)
    /\ pos' = [pos EXCEPT ![t] = @ + 1]
    /\ Goto(t, "sendtag")
    /\ UNCHANGED <<proc, in, kernel, fd, at, who, msg, clients, mutex, hist>>

(* Mutant: the mutex stays locked.                                          *)
BroadcastLocked(t) ==
    /\ pc[t] = "sendtag"
    /\ pos[t] > Len(clients)
    /\ Goto(t, "serve")
    /\ UNCHANGED <<proc, wire, kernel, thread, clients, mutex, hist>>

BroadcastDone(t) ==
    /\ pc[t] = "sendtag"
    /\ pos[t] > Len(clients)
    /\ mutex' = NoConn
    /\ Goto(t, "serve")
    /\ UNCHANGED <<proc, wire, kernel, thread, clients, hist>>

(* Mutant: the client is not removed.                                       *)
CloseOnly(t) ==
    /\ pc[t] = "close"
    /\ Close(t)
    /\ Goto(t, "gone")
    /\ UNCHANGED <<proc, wire, confd, thread, clients, mutex, hist>>

(* The descriptor is closed first, and its entry removed afterwards.        *)
CloseSession(t) ==
    /\ pc[t] = "close"
    /\ Close(t)
    /\ Goto(t, "remove")
    /\ UNCHANGED <<proc, wire, confd, thread, clients, mutex, hist>>

(* removeClient takes out the first entry with this descriptor, if any.     *)
Places(f) == {i \in DOMAIN clients : clients[i] = f}

(* Mutants: the loop goes on after it has removed an entry; it does not     *)
(* wait for the mutex.                                                      *)
RemoveAll(t) ==
    /\ pc[t] = "remove"
    /\ mutex = NoConn
    /\ clients' = SelectSeq(clients, LAMBDA f : f # fd[t])
    /\ Goto(t, "gone")
    /\ UNCHANGED <<proc, wire, kernel, thread, mutex, hist>>

RemoveUnlocked(t) ==
    /\ pc[t] = "remove"
    /\ clients' = SelectSeq(clients, LAMBDA f : f # fd[t])
    /\ Goto(t, "gone")
    /\ UNCHANGED <<proc, wire, kernel, thread, mutex, hist>>

RemoveClient(t) ==
    /\ pc[t] = "remove"
    /\ mutex = NoConn
    /\ clients' = IF Places(fd[t]) = {} THEN clients
                  ELSE LET i == CHOOSE p \in Places(fd[t]) : \A q \in Places(fd[t]) : p <= q
                       IN  SubSeq(clients, 1, i - 1) \o SubSeq(clients, i + 1, Len(clients))
    /\ Goto(t, "gone")
    /\ UNCHANGED <<proc, wire, kernel, thread, mutex, hist>>

-----------------------------------------------------------------------------

ThreadStep(t) ==
    \/ ReadArg(t) \/ CheckLimit(t) \/ Call(t) \/ RecvTag(t) \/ RecvName(t) \/ HelloFails(t)
    \/ Reject(t) \/ ReplyOK(t) \/ AddClient(t) \/ RecvMsgTag(t) \/ RecvText(t)
    \/ SessionEnds(t) \/ Broadcast(t) \/ SendTag(t) \/ SendText(t) \/ BroadcastDone(t)
    \/ CloseSession(t) \/ RemoveClient(t)

(* What a user does, or fails to do.                                        *)
UserStep(c) == Connect(c) \/ Say(c) \/ SayGoodbye(c) \/ Die(c)

(* What the client process does by itself.                                  *)
ClientStep(c) == SendHello(c) \/ RecvReply(c) \/ RecvShow(c)

Next ==
    \/ AcceptFails
    \/ \E c \in Conns : UserStep(c) \/ ClientStep(c) \/ Accept(c) \/ ThreadStep(c)

Spec == Init /\ [][Next]_vars

(* Every thread of the server and of the clients runs, main accepts in the  *)
(* end; users need not do anything.                                         *)
FairSpec ==
    /\ Spec
    /\ \A c \in Conns : WF_vars(Accept(c)) /\ WF_vars(ThreadStep(c)) /\ WF_vars(ClientStep(c))

-----------------------------------------------------------------------------
(* Properties *)

TypeOK ==
    /\ life \in [Conns -> {"new", "up", "gone"}]
    /\ sent \in [Conns -> Nat]
    /\ \A c \in Conns : sent[c] <= 2 + 2 * Says[c]
    /\ out \in [Conns -> Seq(Units)]
    /\ got \in [Conns -> Nat]
    /\ \A c \in Conns : got[c] <= Len(out[c])
    /\ reads \in [Conns -> {"reply", "tag", "text"}]
    /\ in \in [Conns -> Seq(Units)]
    /\ file \in [Fds \cup {NoFd} -> Conns \cup {NoConn}]
    /\ file[NoFd] = NoConn
    /\ confd \in Fds \cup {NoFd}
    /\ pc \in [Conns -> PCs]
    /\ fd \in [Conns -> Fds \cup {NoFd}]
    /\ at \in [Conns -> Conns \cup {NoConn}]
    /\ who \in [Conns -> Conns \cup {NoConn}]
    /\ msg \in [Conns -> [from : Conns \cup {NoConn}, n : Nat]]
    /\ pos \in [Conns -> Nat]
    /\ \A t \in Conns : pc[t] = "sendtext" => pos[t] \in DOMAIN clients
    /\ clients \in Seq(Fds \cup {NoFd})
    /\ mutex \in Conns \cup {NoConn}
    /\ log \in Seq([name : Conns, from : Conns, n : Nat])
    /\ shared \in SUBSET Conns

(* The threads that have registered a client and not yet removed one.       *)
Registered == {t \in Conns : pc[t] \in Sending \cup {"serve", "text", "broadcast", "close", "remove"}}

(* A descriptor has as many entries as threads that will remove one,        *)
(* although descriptors are reused before their entries are removed         *)
(* (server.c closes first) and may be shared by two threads.                *)
Books ==
    \A f \in Fds \cup {NoFd} :
        Cardinality(Places(f)) = Cardinality({t \in Registered : fd[t] = f})

(* What a client whose descriptor nobody else has used is sent: one reply,  *)
(* then whole messages, every broadcast from its first one on and in the    *)
(* order of the broadcasts.  So no two such clients see two messages in     *)
(* different orders.  The reply is not sent in the mutex, and every server  *)
(* thread writes to every client.                                           *)
InOrder ==
    \A c \in Conns \ shared : \A i \in DOMAIN out[c] :
        /\ i = 1 <=> out[c][i].what \in {"HELLO_OK", "HELLO_ERROR"}
        /\ i > 1 /\ i % 2 = 0 => out[c][i].what = "MSG_DATA"
        /\ i > 1 /\ i % 2 = 1 => out[c][i].what = "text"
        /\ i > 3 /\ i % 2 = 1 => out[c][i].n = out[c][i - 2].n + 1

(* When no broadcast is under way, a client that is still there and has     *)
(* been sent a message has been sent the last one.                          *)
UpToDate ==
    mutex = NoConn =>
        \A c \in Conns \ shared :
            (life[c] = "up" /\ c \in Registered /\ pc[c] \notin {"close", "remove"} /\ Len(out[c]) > 1)
                => out[c][Len(out[c])] = Text(Len(log))

(* What such a client typed appears under its own name, each text once, in  *)
(* the order in which it was typed and without a gap.                       *)
Authentic ==
    \A c \in Conns \ shared : \A i \in DOMAIN log :
        log[i].from = c => /\ log[i].name = c
                           /\ log[i].n = Cardinality({j \in 1 .. i : log[j].from = c})

(* Every broadcast ends and gives the mutex back, although it sends with    *)
(* the mutex held to clients that may be slow, gone or not yet ready.       *)
BroadcastEnds == \A t \in Conns : pc[t] = "broadcast" ~> pc[t] = "serve"

(* When all clients have gone every thread ends and the list is empty.      *)
AllEnd ==
    (\A c \in Conns : life[c] = "gone") ~>
        /\ clients = <<>>
        /\ \A t \in Conns : pc[t] \in {"refused", "gone"}

=============================================================================
