----------------------------- MODULE MeshClient -----------------------------
(***************************************************************************)
(* A client of the full mesh (source/mesh-p2p/client.c): main reads the     *)
(* super-peer's list straight into clients[] and connects to each peer on   *)
(* it, then takes newcomers; one receive thread per peer; the send thread   *)
(* sends what the user types to every entry of clients[].                   *)
(*                                                                          *)
(* Only removals take the mutex.  Main stores entries and counts them, and  *)
(* the send thread reads them, while a removal shifts the array: each of    *)
(* their accesses is a step.  peer_count is loaded and stored in two steps, *)
(* as in code built without optimisation.  Receive threads are handed the   *)
(* address of a slot.  Descriptors are numbers, 0 is standard input, and    *)
(* an entry nobody filled holds descriptor 0.                               *)
(*                                                                          *)
(* A thread is named by the connection main started it for.  What a peer    *)
(* sends is shown, or kills it: a receive thread matters by when it ends.   *)
(***************************************************************************)
EXTENDS Integers, Sequences, FiniteSets

CONSTANTS Conns,          \* the connections to other clients
          Lists,          \* the sets of them that the super-peer may list
          Bounds,         \* bounds, by the list: the peers that come, the sets of
                          \* peers that may have left, the number of texts typed
          NoConn,         \* no connection
          Other,          \* an open file that is not connected
          Sender,         \* the send thread
          FIELDS,         \* the sends that make up a HELLO to a peer: 6
          TSIZE           \* values of a tsize_t, and slots of clients: 256

Threads == Conns \cup {Sender}

ASSUME MeshClientAssumption ==
    /\ IsFiniteSet(Conns)
    /\ Lists \subseteq SUBSET Conns
    /\ Cardinality({NoConn, Other, Sender}) = 3
    /\ Conns \cap {NoConn, Other, Sender} = {}
    /\ Bounds \in [Lists -> [come : SUBSET Conns, leave : SUBSET SUBSET Conns, texts : Nat]]
    /\ FIELDS \in Nat \ {0}
    /\ TSIZE \in Nat
    /\ TSIZE > Cardinality(Conns)

Fds     == 0 .. Cardinality(Conns)
Slots   == 0 .. TSIZE - 1
Empty   == [fd |-> 0, who |-> NoConn]
Entries == [fd : Fds, who : Conns \cup {NoConn}]
Units   == [what : {"hello", "tag", "text"}, n : Nat]

MainPCs == {"count", "list", "socket", "connect", "greet", "spawn",
            "accept", "greeting", "store", "start", "load", "add", "exited"}
PCs     == {"none", "begin", "recv", "close", "find", "shift", "dec", "done",
            "idle", "loop", "tag", "text", "fail", "lock"}

VARIABLES
    listed,       \* the connections on the list; the others are newcomers
    link,         \* link[c]: "new", "up" or "gone", as the peer's end is
    greeted,      \* the newcomers that have sent their HELLO
    out,          \* out[c]: the units sent to c
    full,         \* the connections that have no room for more until c reads
    file,         \* file[f]: what descriptor f is open on
    clients, peer_count,
    mutex,        \* the thread that holds it, or NoConn
    main,         \* where main is
    cur,          \* the connection main is about
    i,            \* main's loop index
    field,        \* the field of a HELLO that main sends next
    tmp,          \* tmp[t]: peer_count as loaded by t; tmp[NoConn] is main's
    pc,           \* pc[t]: where thread t is
    arg,          \* arg[t]: the slot t was handed; the send thread's loop index
    fd,           \* fd[t]: the descriptor t has read from a slot
    at,           \* at[t]: the connection t waits on, in recv() or in send();
                  \* at[NoConn] is main's
    pos,          \* pos[t]: its index in a removal
    posted,       \* texts typed
    due,          \* history: whom the loop of the send thread has to serve
    shared,       \* history: connections whose descriptor had several users
    moved,        \* history: those whose entry a removal took from main's slot
                  \* between two fields of their HELLO
    wrapped,      \* history: the count has gone below zero, or past the array
    crossed       \* history: main stored an entry of the list in a removal

env    == <<listed, link, greeted>>
marks  == <<moved, wrapped, crossed>>
hist   == <<due, shared, marks>>
net    == <<out, full>>
array  == <<clients, peer_count>>
mainv  == <<main, cur, i, field>>
thread == <<arg, fd, at, pos>>
vars   == <<env, net, file, array, mutex, mainv, tmp, pc, thread, posted, hist>>

Init ==
    /\ listed \in Lists
    /\ link    = [c \in Conns |-> IF c \in listed THEN "up" ELSE "new"]
    /\ greeted = {}
    /\ out     = [c \in Conns |-> <<>>]
    /\ full    = {}
    /\ file    = [f \in Fds |-> IF f = 0 THEN Other ELSE NoConn]
    /\ clients = [s \in Slots |-> Empty]
    /\ peer_count = 0
    /\ mutex   = NoConn
    /\ main    = "count"
    /\ cur     = NoConn
    /\ i       = 0
    /\ field   = 1
    /\ tmp     = [t \in Threads \cup {NoConn} |-> 0]
    /\ pc      = [t \in Threads |-> "none"]
    /\ arg     = [t \in Threads |-> 0]
    /\ fd      = [t \in Threads |-> 0]
    /\ at      = [t \in Threads \cup {NoConn} |-> NoConn]
    /\ pos     = [t \in Threads |-> 0]
    /\ posted  = 0
    /\ due     = {}
    /\ shared  = {}
    /\ moved   = {}
    /\ wrapped = FALSE
    /\ crossed = FALSE

-----------------------------------------------------------------------------
(* The peers *)

Knock(c) ==
    /\ link[c] = "new"
    /\ c \in Bounds[listed].come
    /\ link' = [link EXCEPT ![c] = "up"]
    /\ UNCHANGED <<listed, greeted, net, file, array, mutex, mainv, tmp, pc, thread, posted, hist>>

PeerGreets(c) ==
    /\ c \notin listed \cup greeted
    /\ link[c] = "up"
    /\ greeted' = greeted \cup {c}
    /\ UNCHANGED <<listed, link, net, file, array, mutex, mainv, tmp, pc, thread, posted, hist>>

(* It quits, dies, or the network does; a send to it need not wait.         *)
PeerLeaves(c) ==
    /\ link[c] = "up"
    /\ {d \in Conns : link[d] = "gone"} \cup {c} \in Bounds[listed].leave
    /\ link' = [link EXCEPT ![c] = "gone"]
    /\ full' = full \ {c}
    /\ UNCHANGED <<listed, greeted, out, file, array, mutex, mainv, tmp, pc, thread, posted, hist>>

(* Its receive threads take what has come in.                               *)
PeerReads(c) ==
    /\ c \in full
    /\ full' = full \ {c}
    /\ UNCHANGED <<env, out, file, array, mutex, mainv, tmp, pc, thread, posted, hist>>

-----------------------------------------------------------------------------
(* Sockets *)

Running == main # "exited"

Step(label) == main' = label

Goto(t, label) == pc' = [pc EXCEPT ![t] = label]

LeastFree == CHOOSE f \in Fds : file[f] = NoConn /\ \A g \in Fds : file[g] = NoConn => f <= g

(* A send() that finds no room waits, on the connection it has found, until *)
(* the peer has read; main waits as NoConn.  The buffers may be full at any *)
(* time.                                                                    *)
Waits(t, f) ==
    /\ at[t] = NoConn
    /\ file[f] \in Conns
    /\ link[file[f]] = "up"
    /\ at' = [at EXCEPT ![t] = file[f]]
    /\ full' = full \cup {file[f]}
    /\ UNCHANGED out

Target(t, f) == IF at[t] = NoConn THEN file[f] ELSE at[t]

Send(t, f, unit, ret) ==
    /\ LET c == Target(t, f) IN
       /\ c \notin full
       /\ \/ /\ c \in Conns /\ link[c] = "up" /\ ret = 1
             /\ out' = [out EXCEPT ![c] = Append(@, unit)]
          \/ c \in Conns /\ link[c] = "gone" /\ ret \in {1, -1} /\ UNCHANGED out
          \/ c \notin Conns /\ ret = -1 /\ UNCHANGED out
    /\ at' = [at EXCEPT ![t] = NoConn]
    /\ UNCHANGED full

(* The threads that hold the number of a descriptor, open or not.           *)
Users(f) == {t \in Conns : pc[t] \notin {"none", "begin", "done"} /\ fd[t] = f}
              \cup {t \in {Sender} : pc[t] \in {"tag", "text"} /\ fd[t] = f}

Opens(f, c) ==
    /\ file' = [file EXCEPT ![f] = c]
    /\ UNCHANGED marks
    /\ shared' = IF Users(f) = {} THEN shared ELSE shared \cup {c}

(* The connection a descriptor is open on, as a set.                        *)
On(f) == Conns \cap {file[f]}

-----------------------------------------------------------------------------
(* receiveClients: the super-peer's count goes straight into peer_count,    *)
(* which receive threads decrement while the loop compares with it.         *)

RecvCount ==
    /\ main = "count"
    /\ peer_count' = Cardinality(listed)
    /\ Step("list")
    /\ UNCHANGED <<env, net, file, clients, mutex, cur, i, field, tmp, pc, thread, posted, hist>>

(* The list breaks off: a count that cannot be read ends the process, and   *)
(* so does the connect to an address that could not.                        *)
ListBreaks ==
    /\ main = "count" \/ (main = "list" /\ i < peer_count)
    /\ Step("exited")
    /\ UNCHANGED <<env, net, file, array, mutex, cur, i, field, tmp, pc, thread, posted, hist>>

(* The thread of a connection is started in the turn that reads its entry.  *)
RecvEntry(c) ==
    /\ main = "list"
    /\ i < peer_count
    /\ c \in listed
    /\ pc[c] = "none"
    /\ clients' = [clients EXCEPT ![i].who = c]
    /\ cur' = c
    /\ crossed' = (crossed \/ mutex # NoConn)
    /\ Step("socket")
    /\ UNCHANGED <<env, net, file, peer_count, mutex, i, field, tmp, pc, thread, posted, due, shared, moved, wrapped>>

OpenSocket ==
    /\ main = "socket"
    /\ clients' = [clients EXCEPT ![i].fd = LeastFree]
    /\ file' = [file EXCEPT ![LeastFree] = Other]
    /\ crossed' = (crossed \/ mutex # NoConn)
    /\ Step("connect")
    /\ UNCHANGED <<env, net, peer_count, mutex, cur, i, field, tmp, pc, thread, posted, due, shared, moved, wrapped>>

(* A connect that fails ends the process.                                   *)
Dial ==
    /\ main = "connect"
    /\ LET f == clients[i].fd
           c == clients[i].who
       IN  \/ /\ c \in Conns /\ link[c] = "up" /\ file[f] = Other
              /\ Opens(f, c)
              /\ Step("greet")
           \/ /\ ~(c \in Conns /\ link[c] = "up" /\ file[f] = Other)
              /\ Step("exited")
              /\ UNCHANGED <<file, shared, marks>>
    /\ UNCHANGED <<env, net, array, mutex, cur, i, field, tmp, pc, thread, posted, due>>

(* The HELLO goes out field by field, each to the descriptor that the slot  *)
(* holds by then; a field that cannot be sent closes that descriptor, and   *)
(* main goes on with the next.                                              *)
GreetWaits ==
    /\ main = "greet"
    /\ Waits(NoConn, clients[i].fd)
    /\ shared' = shared \cup (On(clients[i].fd) \ {cur})
    /\ UNCHANGED <<env, file, array, mutex, mainv, tmp, pc, arg, fd, pos, posted, due, marks>>

Greet ==
    LET f == clients[i].fd IN
    /\ main = "greet"
    /\ \E ret \in {1, -1} :
          /\ Send(NoConn, f, [what |-> "hello", n |-> field], ret)
          /\ file' = IF ret = 1 THEN file ELSE [file EXCEPT ![f] = NoConn]
    /\ shared' = shared \cup (On(f) \ {cur})
    /\ field' = IF field < FIELDS THEN field + 1 ELSE 1
    /\ Step(IF field < FIELDS THEN "greet" ELSE "spawn")
    /\ UNCHANGED <<env, array, mutex, cur, i, tmp, pc, arg, fd, pos, posted, due, marks>>

Spawn ==
    /\ main = "spawn"
    /\ Goto(cur, "begin")
    /\ arg' = [arg EXCEPT ![cur] = i]
    /\ i' = i + 1
    /\ Step("list")
    /\ UNCHANGED <<env, net, file, array, mutex, cur, field, tmp, fd, at, pos, posted, hist>>

ListDone ==
    /\ main = "list"
    /\ i >= peer_count
    /\ Goto(Sender, "idle")
    /\ Step("accept")
    /\ UNCHANGED <<env, net, file, array, mutex, cur, i, field, tmp, thread, posted, hist>>

-----------------------------------------------------------------------------
(* addNewClientWrapper *)

Accept(c) ==
    /\ main = "accept"
    /\ c \notin listed
    /\ link[c] # "new"
    /\ pc[c] = "none"
    /\ Opens(LeastFree, c)
    /\ tmp' = [tmp EXCEPT ![NoConn] = LeastFree]
    /\ cur' = c
    /\ Step("greeting")
    /\ UNCHANGED <<env, net, array, mutex, i, field, pc, thread, posted, due>>

(* A newcomer that ends before it has sent its HELLO, or whose descriptor   *)
(* another thread has closed, is closed and stored all the same.            *)
RecvGreeting ==
    LET f == tmp[NoConn] IN
    /\ main = "greeting"
    /\ \/ file[f] = cur /\ cur \in greeted /\ UNCHANGED file
       \/ /\ (file[f] = cur => link[cur] = "gone" /\ cur \notin greeted)
          /\ file' = [file EXCEPT ![f] = NoConn]
    /\ Step("store")
    /\ UNCHANGED <<env, net, array, mutex, cur, i, field, tmp, pc, thread, posted, hist>>

Store ==
    /\ main = "store"
    /\ clients' = [clients EXCEPT ![peer_count] = [fd |-> tmp[NoConn], who |-> cur]]
    /\ Step("start")
    /\ UNCHANGED <<env, net, file, peer_count, mutex, cur, i, field, tmp, pc, thread, posted, hist>>

StartThread ==
    /\ main = "start"
    /\ Goto(cur, "begin")
    /\ arg' = [arg EXCEPT ![cur] = peer_count]
    /\ Step("load")
    /\ UNCHANGED <<env, net, file, array, mutex, cur, i, field, tmp, fd, at, pos, posted, hist>>

LoadCount ==
    /\ main = "load"
    /\ tmp' = [tmp EXCEPT ![NoConn] = peer_count]
    /\ Step("add")
    /\ UNCHANGED <<env, net, file, array, mutex, cur, i, field, pc, thread, posted, hist>>

StoreCount ==
    /\ main = "add"
    /\ peer_count' = (tmp[NoConn] + 1) % TSIZE
    /\ tmp' = [tmp EXCEPT ![NoConn] = 0]
    /\ wrapped' = (wrapped \/ tmp[NoConn] + 1 = TSIZE)
    /\ Step("accept")
    /\ UNCHANGED <<env, net, file, clients, mutex, cur, i, field, pc, thread, posted, due, shared, moved, crossed>>

-----------------------------------------------------------------------------
(* MSGReceiveWrapper *)

Begin(t) ==
    /\ Running
    /\ pc[t] = "begin"
    /\ fd' = [fd EXCEPT ![t] = clients[arg[t]].fd]
    /\ shared' = shared \cup (On(fd'[t]) \ {t})
    /\ Goto(t, "recv")
    /\ UNCHANGED <<env, net, file, array, mutex, mainv, tmp, arg, at, pos, posted, due, marks>>

(* recv() begins, and stays with the connection it finds.                   *)
Call(t) ==
    /\ Running
    /\ pc[t] = "recv"
    /\ at[t] = NoConn
    /\ file[fd[t]] \in Conns
    /\ at' = [at EXCEPT ![t] = file[fd[t]]]
    /\ UNCHANGED <<env, net, file, array, mutex, mainv, tmp, pc, arg, fd, pos, posted, hist>>

(* A message with the command \kill ends the process; others are shown.     *)
Killed(t) ==
    /\ Running
    /\ pc[t] = "recv"
    /\ at[t] # NoConn
    /\ Step("exited")
    /\ UNCHANGED <<env, net, file, array, mutex, cur, i, field, tmp, pc, thread, posted, hist>>

(* MSGReceive returns 0 or -1: the peer has ended, the descriptor is closed *)
(* or not connected, or a reader beside this one has left half a message.   *)
RecvEnds(t) ==
    /\ Running
    /\ pc[t] = "recv"
    /\ IF at[t] = NoConn THEN file[fd[t]] \notin Conns
                         ELSE link[at[t]] = "gone" \/ at[t] \in shared
    /\ at' = [at EXCEPT ![t] = NoConn]
    /\ Goto(t, "close")
    /\ UNCHANGED <<env, net, file, array, mutex, mainv, tmp, arg, fd, pos, posted, hist>>

CloseConn(t) ==
    /\ Running
    /\ pc[t] = "close"
    /\ file' = [file EXCEPT ![fd[t]] = NoConn]
    /\ Goto(t, "find")
    /\ UNCHANGED <<env, net, array, mutex, mainv, tmp, thread, posted, hist>>

Found(t) == {s \in Slots : s < peer_count /\ clients[s].fd = fd[t]}

FindEntry(t) ==
    /\ Running
    /\ pc[t] = "find"
    /\ mutex = NoConn
    /\ IF Found(t) = {}
       THEN Goto(t, "done") /\ UNCHANGED <<pos, mutex>>
       ELSE /\ pos' = [pos EXCEPT ![t] = CHOOSE s \in Found(t) : \A r \in Found(t) : s <= r]
            /\ mutex' = t
            /\ Goto(t, "shift")
    /\ UNCHANGED <<env, net, file, array, mainv, tmp, arg, fd, at, posted, hist>>

(* The slot that the loop of the send thread looks at next.                 *)
NextIndex == IF pc[Sender] = "loop" THEN arg[Sender] ELSE arg[Sender] + 1

(* The removal, by a receive thread or by the send thread.  The shift over  *)
(* the slot where the loop goes on has moved its entry where the loop has   *)
(* been.                                                                    *)
Shift(t) ==
    /\ Running
    /\ pc[t] = "shift"
    /\ pos[t] < peer_count - 1
    /\ clients' = [clients EXCEPT ![pos[t]] = clients[pos[t] + 1]]
    /\ pos' = [pos EXCEPT ![t] = @ + 1]
    /\ due' = IF pos[t] = NextIndex THEN due \ On(clients[NextIndex].fd) ELSE due
    /\ moved' = IF main = "greet" /\ pos[t] = i THEN moved \cup {cur} ELSE moved
    /\ UNCHANGED <<env, net, file, peer_count, mutex, mainv, tmp, pc, arg, fd, at, posted, shared, wrapped, crossed>>

LoadToDrop(t) ==
    /\ Running
    /\ pc[t] = "shift"
    /\ pos[t] >= peer_count - 1
    /\ tmp' = [tmp EXCEPT ![t] = peer_count]
    /\ Goto(t, "dec")
    /\ UNCHANGED <<env, net, file, array, mutex, mainv, thread, posted, hist>>

(* The peers whose entries the new count leaves out: those that were        *)
(* counted since it was loaded, and that where the loop goes on.            *)
Cut(t) ==
    LET Left(s) == s < peer_count /\ (s >= tmp[t] \/ (s = tmp[t] - 1 /\ s = NextIndex))
    IN  UNION {On(clients[s].fd) : s \in {r \in Slots : Left(r)}}

(* Mutants: the count does not wrap; the mutex stays locked.                *)
DropWide(t) ==
    /\ Running
    /\ pc[t] = "dec"
    /\ peer_count' = tmp[t] - 1
    /\ tmp' = [tmp EXCEPT ![t] = 0]
    /\ pos' = [pos EXCEPT ![t] = 0]
    /\ mutex' = NoConn
    /\ IF t = Sender
       THEN arg' = [arg EXCEPT ![t] = @ + 1] /\ Goto(t, "loop")
       ELSE UNCHANGED arg /\ Goto(t, "done")
    /\ due' = due \ Cut(t)
    /\ wrapped' = (wrapped \/ tmp[t] = 0)
    /\ UNCHANGED <<env, net, file, clients, mainv, fd, at, posted, shared, moved, crossed>>

DropLocked(t) ==
    /\ Running
    /\ pc[t] = "dec"
    /\ peer_count' = (tmp[t] - 1) % TSIZE
    /\ tmp' = [tmp EXCEPT ![t] = 0]
    /\ pos' = [pos EXCEPT ![t] = 0]
    /\ IF t = Sender
       THEN arg' = [arg EXCEPT ![t] = @ + 1] /\ Goto(t, "loop")
       ELSE UNCHANGED arg /\ Goto(t, "done")
    /\ due' = due \ Cut(t)
    /\ wrapped' = (wrapped \/ tmp[t] = 0)
    /\ UNCHANGED <<env, net, file, clients, mutex, mainv, fd, at, posted, shared, moved, crossed>>

Drop(t) ==
    /\ Running
    /\ pc[t] = "dec"
    /\ peer_count' = (tmp[t] - 1) % TSIZE
    /\ tmp' = [tmp EXCEPT ![t] = 0]
    /\ pos' = [pos EXCEPT ![t] = 0]
    /\ mutex' = NoConn
    /\ IF t = Sender
       THEN arg' = [arg EXCEPT ![t] = @ + 1] /\ Goto(t, "loop")
       ELSE UNCHANGED arg /\ Goto(t, "done")
    /\ due' = due \ Cut(t)
    /\ wrapped' = (wrapped \/ tmp[t] = 0)
    /\ UNCHANGED <<env, net, file, clients, mainv, fd, at, posted, shared, moved, crossed>>

-----------------------------------------------------------------------------
(* MSGSendWrapper: the loop over clients[] holds no mutex.                  *)

Type ==
    /\ Running
    /\ pc[Sender] = "idle"
    /\ posted < Bounds[listed].texts
    /\ posted' = posted + 1
    /\ due' = UNION {On(clients[s].fd) : s \in {r \in Slots : r < peer_count}}
    /\ Goto(Sender, "loop")
    /\ UNCHANGED <<env, net, file, array, mutex, mainv, tmp, thread, shared, marks>>

Look ==
    /\ Running
    /\ pc[Sender] = "loop"
    /\ IF arg[Sender] < peer_count
       THEN /\ fd' = [fd EXCEPT ![Sender] = clients[arg[Sender]].fd]
            /\ Goto(Sender, "tag")
            /\ UNCHANGED arg
       ELSE /\ fd' = [fd EXCEPT ![Sender] = 0]
            /\ arg' = [arg EXCEPT ![Sender] = 0]
            /\ Goto(Sender, "idle")
    /\ UNCHANGED <<env, net, file, array, mutex, mainv, tmp, at, pos, posted, hist>>

SendWaits ==
    /\ Running
    /\ pc[Sender] \in {"tag", "text"}
    /\ Waits(Sender, fd[Sender])
    /\ UNCHANGED <<env, file, array, mutex, mainv, tmp, pc, arg, fd, pos, posted, hist>>

SendTag ==
    /\ Running
    /\ pc[Sender] = "tag"
    /\ \E ret \in {1, -1} :
          /\ Send(Sender, fd[Sender], [what |-> "tag", n |-> 0], ret)
          /\ Goto(Sender, IF ret = 1 THEN "text" ELSE "fail")
    /\ UNCHANGED <<env, file, array, mutex, mainv, tmp, arg, fd, pos, posted, hist>>

(* Mutants: the text goes to whatever the slot holds by now; the loop goes  *)
(* on behind the next entry.                                                *)
SendTextAnew ==
    /\ Running
    /\ pc[Sender] = "text"
    /\ \E ret \in {1, -1} :
          /\ Send(Sender, clients[arg[Sender]].fd, [what |-> "text", n |-> posted], ret)
          /\ Goto(Sender, IF ret = 1 THEN "loop" ELSE "fail")
          /\ arg' = IF ret = 1 THEN [arg EXCEPT ![Sender] = @ + 1] ELSE arg
    /\ UNCHANGED <<env, file, array, mutex, mainv, tmp, fd, pos, posted, hist>>

SendTextSkips ==
    /\ Running
    /\ pc[Sender] = "text"
    /\ \E ret \in {1, -1} :
          /\ Send(Sender, fd[Sender], [what |-> "text", n |-> posted], ret)
          /\ Goto(Sender, IF ret = 1 THEN "loop" ELSE "fail")
          /\ arg' = IF ret = 1 THEN [arg EXCEPT ![Sender] = @ + 2] ELSE arg
    /\ UNCHANGED <<env, file, array, mutex, mainv, tmp, fd, pos, posted, hist>>

SendText ==
    /\ Running
    /\ pc[Sender] = "text"
    /\ \E ret \in {1, -1} :
          /\ Send(Sender, fd[Sender], [what |-> "text", n |-> posted], ret)
          /\ Goto(Sender, IF ret = 1 THEN "loop" ELSE "fail")
          /\ arg' = IF ret = 1 THEN [arg EXCEPT ![Sender] = @ + 1] ELSE arg
    /\ UNCHANGED <<env, file, array, mutex, mainv, tmp, fd, pos, posted, hist>>

(* What is closed and removed is what the slot holds by now.                *)
SendFails ==
    /\ Running
    /\ pc[Sender] = "fail"
    /\ file' = [file EXCEPT ![clients[arg[Sender]].fd] = NoConn]
    /\ due' = due \ On(clients[arg[Sender]].fd)
    /\ Goto(Sender, "lock")
    /\ UNCHANGED <<env, net, array, mutex, mainv, tmp, thread, posted, shared, marks>>

(* Mutant: it removes without the mutex.                                    *)
RemoveUnlocked ==
    /\ Running
    /\ pc[Sender] = "lock"
    /\ mutex' = Sender
    /\ pos' = [pos EXCEPT ![Sender] = arg[Sender]]
    /\ Goto(Sender, "shift")
    /\ UNCHANGED <<env, net, file, array, mainv, tmp, arg, fd, at, posted, hist>>

LockToDrop ==
    /\ Running
    /\ pc[Sender] = "lock"
    /\ mutex = NoConn
    /\ mutex' = Sender
    /\ pos' = [pos EXCEPT ![Sender] = arg[Sender]]
    /\ Goto(Sender, "shift")
    /\ UNCHANGED <<env, net, file, array, mainv, tmp, arg, fd, at, posted, hist>>

(* Every peer sees a goodbye or the end of the connection.                  *)
Quit ==
    /\ Running
    /\ pc[Sender] = "idle"
    /\ Step("exited")
    /\ UNCHANGED <<env, net, file, array, mutex, cur, i, field, tmp, pc, thread, posted, hist>>

-----------------------------------------------------------------------------

PeerStep(c) == Knock(c) \/ PeerGreets(c) \/ PeerLeaves(c) \/ PeerReads(c)

MainStep ==
    \/ RecvCount \/ ListBreaks \/ OpenSocket \/ Dial \/ GreetWaits \/ Greet \/ Spawn \/ ListDone
    \/ RecvGreeting \/ Store \/ StartThread \/ LoadCount \/ StoreCount
    \/ \E c \in Conns : RecvEntry(c) \/ Accept(c)

ReceiveStep(t) ==
    \/ Begin(t) \/ Call(t) \/ RecvEnds(t) \/ CloseConn(t) \/ FindEntry(t)
    \/ Shift(t) \/ LoadToDrop(t) \/ Drop(t)

SendStep ==
    \/ Look \/ SendWaits \/ SendTag \/ SendText \/ SendFails \/ LockToDrop
    \/ Shift(Sender) \/ LoadToDrop(Sender) \/ Drop(Sender)

Next ==
    \/ MainStep \/ SendStep \/ Type \/ Quit
    \/ \E c \in Conns : PeerStep(c) \/ Killed(c) \/ ReceiveStep(c)

Spec == Init /\ [][Next]_vars

(* The threads of the client run, and a peer that stays reads what it is    *)
(* sent: its receive threads wait for nothing else.  Peers and user need    *)
(* not do anything more.                                                    *)
FairSpec ==
    /\ Spec
    /\ WF_vars(MainStep)
    /\ WF_vars(SendStep)
    /\ \A c \in Conns : WF_vars(ReceiveStep(c)) /\ WF_vars(PeerReads(c))

-----------------------------------------------------------------------------
(* Properties *)

TypeOK ==
    /\ link \in [Conns -> {"new", "up", "gone"}]
    /\ listed \in Lists
    /\ greeted \in SUBSET (Conns \ listed)
    /\ out \in [Conns -> Seq(Units)]
    /\ full \in SUBSET Conns
    /\ file \in [Fds -> Conns \cup {NoConn, Other}]
    /\ clients \in [Slots -> Entries]
    /\ peer_count \in 0 .. TSIZE - 1
    /\ mutex \in Threads \cup {NoConn}
    /\ main \in MainPCs
    /\ cur \in Conns \cup {NoConn}
    /\ i \in 0 .. Cardinality(listed)
    /\ field \in 1 .. FIELDS
    /\ tmp \in [Threads \cup {NoConn} -> 0 .. TSIZE - 1]
    /\ pc \in [Threads -> PCs]
    /\ arg \in [Threads -> 0 .. TSIZE]
    /\ fd \in [Threads -> Fds]
    /\ at \in [Threads \cup {NoConn} -> Conns \cup {NoConn}]
    /\ pos \in [Threads -> 0 .. TSIZE]
    /\ posted \in 0 .. Bounds[listed].texts
    /\ due \in SUBSET Conns
    /\ shared \in SUBSET Conns
    /\ moved \in SUBSET Conns
    /\ wrapped \in BOOLEAN
    /\ crossed \in BOOLEAN

(* A receive thread looks for its entry under the mutex, and main counts    *)
(* newcomers without it: unless the count has wrapped before, the removal   *)
(* stays within the entries that are listed and never takes the count below *)
(* zero.                                                                    *)
RemovalInBounds ==
    ~wrapped => \A t \in Conns : /\ pc[t] = "shift" => pos[t] < peer_count
                                 /\ pc[t] = "dec" => tmp[t] \in 1 .. peer_count

(* When the loop over clients[] is through, every peer that was listed when *)
(* it began has been sent the text, whatever is added, removed and shifted  *)
(* meanwhile -- except for a peer whose entry is shifted from the slot      *)
(* where the loop goes on to the one before, one whose entry a lost update  *)
(* of the count leaves out, and one that the send thread closes in place of *)
(* the one that failed; and as long as the count has not wrapped nor main   *)
(* read the list while an entry of it was removed.                          *)
Delivered ==
    pc[Sender] = "idle" /\ ~wrapped /\ ~crossed =>
        \A c \in due \ shared :
            link[c] = "up" => /\ out[c] # <<>>
                              /\ out[c][Len(out[c])] = [what |-> "text", n |-> posted]

(* A peer whose descriptor nobody else has used is sent a whole HELLO if    *)
(* main connects to it, and then whole messages in the order they were      *)
(* typed, whatever leaves and is removed meanwhile -- unless a removal      *)
(* moves its entry from under main in the middle of the HELLO.              *)
Hellos(c) == IF c \in listed THEN FIELDS ELSE 0

WholeMessages ==
    \A c \in Conns \ (shared \cup moved) :
        /\ \A n \in DOMAIN out[c] :
              IF n <= Hellos(c) THEN out[c][n] = [what |-> "hello", n |-> n]
              ELSE out[c][n].what = IF (n - Hellos(c)) % 2 = 1 THEN "tag" ELSE "text"
        /\ \A m, n \in DOMAIN out[c] :
              m < n /\ out[c][m].what = "text" /\ out[c][n].what = "text" => out[c][m].n <= out[c][n].n
        /\ pc[c] # "none" /\ link[c] = "up" => Len(out[c]) >= Hellos(c)

(* Sending a text ends, if every peer reads what it is sent or leaves.      *)
SendEnds == (pc[Sender] = "loop") ~> (pc[Sender] = "idle" \/ ~Running)

=============================================================================
