-------------------------- MODULE MeshServerProofs --------------------------
(***************************************************************************)
(* Proofs about MeshServer, for every number of connections and of fields.  *)
(***************************************************************************)
EXTENDS MeshServer, Counting

N == Cardinality(Conns)

(* The places in which a thread has read its descriptor and may still       *)
(* receive from it or send to it, has the client's HELLO, and has written   *)
(* its entry.                                                               *)
Active  == PCs \ {"none", "start", "find", "shift", "refused", "gone"}
Greeted == {"ok", "count", "look", "entry", "register", "added"}
Past    == {"added", "serve", "message", "close", "find", "shift", "gone"}

(* Every connection is open on one descriptor at most, and none before its  *)
(* thread was started; while main runs, a thread has a descriptor.          *)
Kernel ==
    /\ \A f \in Fds : file[f] # NoConn => pc[file[f]] # "none"
    /\ \A f, g \in Fds : file[f] = file[g] /\ file[f] # NoConn => f = g
    /\ Running => \A t \in Conns : pc[t] # "none" => confd \in Fds
    /\ \A t \in Conns : IF pc[t] \in {"none", "start"} THEN fd[t] = NoFd ELSE fd[t] \in Fds

(* The mutex is held by the thread that adds or removes, and a removal      *)
(* stays within the list.                                                   *)
Locked ==
    /\ \A t \in Conns : pc[t] \in {"added", "shift"} <=> mutex = t
    /\ \A t \in Conns : pc[t] = "shift" => pos[t] < num_clients

(* The loops over fields and entries stay within their bounds, although     *)
(* the list may shrink under them.                                          *)
InBounds ==
    \A t \in Conns :
       /\ pc[t] \in {"fields", "entry"} => left[t] > 0
       /\ pc[t] = "entry" => pos[t] < N

(* An entry is filled when it is counted, and what a thread reads of it     *)
(* stays filled when the list is shifted or shrinks.                        *)
Filled ==
    /\ \A t \in Conns : pc[t] \in Greeted => who[t] # NoConn
    /\ \A i \in Slots : i < num_clients => clients[i].who # NoConn
    /\ \A t \in Conns : pc[t] = "added" => clients[num_clients] = [socket_fd |-> fd[t], who |-> who[t]]
    /\ \A t \in Conns : pc[t] = "entry" => clients[pos[t]].who # NoConn
    /\ ListsAreFilled

(* The entries of a descriptor without the one that is being overwritten,   *)
(* and the threads registered for it without the one that removes it.       *)
Kept(f)   == {i \in Slots : /\ i < num_clients /\ clients[i].socket_fd = f
                            /\ \A t \in Conns : pc[t] = "shift" => pos[t] # i}
Owners(f) == {t \in Registered : fd[t] = f /\ pc[t] # "shift"}

Counted ==
    /\ num_clients = Cardinality(Registered)
    /\ \A f \in Fds : Cardinality(Kept(f)) = Cardinality(Owners(f))

MInv == TypeOK /\ Kernel /\ Locked /\ InBounds /\ Filled /\ Counted

-----------------------------------------------------------------------------
(* Lemmas about the operators *)

LEMMA Sizes ==
    /\ IsFiniteSet(Conns) /\ NoConn \notin Conns
    /\ N \in Nat /\ MAX_CLIENTS \in Nat /\ FIELDS \in Nat /\ FIELDS > 0
    /\ Fds = 1 .. N /\ Slots = 0 .. N /\ Fds \subseteq Nat
BY MeshServerAssumption, FS_CardinalityType DEF N, Fds, Slots

(* A thread that moves changes its own pc only.                             *)
LEMMA GotoType ==
    ASSUME TypeOK, NEW t \in Conns, NEW label \in PCs, Goto(t, label)
    PROVE  /\ pc' \in [Conns -> PCs]
           /\ \A u \in Conns : pc'[u] = IF u = t THEN label ELSE pc[u]
BY DEF TypeOK, Goto

(* Sending adds the reply behind what the client at the other end of the    *)
(* descriptor was sent, or nothing.                                         *)
LEMMA SendType ==
    ASSUME TypeOK, NEW t \in Conns, fd[t] \in Fds, NEW reply \in Replies, NEW ret, Send(t, reply, ret)
    PROVE  /\ out' \in [Conns -> Seq(Replies)]
           /\ \A c \in Conns : \A n \in DOMAIN out'[c] :
                 \/ n \in DOMAIN out[c] /\ out'[c][n] = out[c][n]
                 \/ out'[c][n] = reply /\ file[fd[t]] = c
<1>1. CASE UNCHANGED out
      BY <1>1 DEF TypeOK
<1> DEFINE d == file[fd[t]]
<1>2. CASE d # NoConn /\ out' = [out EXCEPT ![d] = Append(@, reply)]
  <2>1. d \in Conns /\ out \in [Conns -> Seq(Replies)]
        BY <1>2 DEF TypeOK
  <2>2. out' \in [Conns -> Seq(Replies)]
        BY <1>2, <2>1
  <2>3. ASSUME NEW c \in Conns, NEW n \in DOMAIN out'[c]
        PROVE  \/ n \in DOMAIN out[c] /\ out'[c][n] = out[c][n]
               \/ out'[c][n] = reply /\ d = c
    <3>1. CASE c = d
          BY <1>2, <2>1, <2>3, <3>1
    <3>2. CASE c # d
          BY <1>2, <2>1, <2>3, <3>2
    <3> QED BY <3>1, <3>2
  <2> QED BY <2>2, <2>3
<1> QED BY <1>1, <1>2 DEF Send

(* Receiving takes a unit of the connection recv() was under way on.        *)
LEMMA RecvType ==
    ASSUME TypeOK, NEW t \in Conns, NEW unit, NEW ret, Recv(t, unit, ret)
    PROVE  /\ in' \in [Conns -> Seq(Units)]
           /\ at' = [at EXCEPT ![t] = NoConn]
           /\ at' \in [Conns -> Conns \cup {NoConn}]
           /\ ret = 1 => at[t] \in Conns
<1>1. at \in [Conns -> Conns \cup {NoConn}] /\ in \in [Conns -> Seq(Units)]
      BY DEF TypeOK
<1>2. at[t] # NoConn /\ in[at[t]] # <<>> => at[t] \in Conns /\ Tail(in[at[t]]) \in Seq(Units)
      BY <1>1
<1>3. at' = [at EXCEPT ![t] = NoConn]
      BY DEF Recv
<1>4. at' \in [Conns -> Conns \cup {NoConn}]
      BY <1>1, <1>3
<1>5. \/ UNCHANGED in /\ ret # 1
      \/ /\ at[t] # NoConn /\ in[at[t]] # <<>>
         /\ in' = [in EXCEPT ![at[t]] = Tail(in[at[t]])]
      BY DEF Recv
<1>6. in' \in [Conns -> Seq(Units)]
      BY <1>1, <1>2, <1>5
<1> QED BY <1>2, <1>3, <1>4, <1>5, <1>6

(* A step that neither registers nor removes keeps the counts.              *)
LEMMA CountsKept ==
    ASSUME Counted, UNCHANGED array,
           \A t \in Conns : /\ t \in Registered' <=> t \in Registered
                            /\ pc'[t] = "shift" <=> pc[t] = "shift"
                            /\ pc[t] = "shift" => pos'[t] = pos[t]
                            /\ t \in Registered => fd'[t] = fd[t]
    PROVE  Counted'
<1>1. Registered' = Registered
      BY DEF Registered
<1>2. ASSUME NEW f \in Fds
      PROVE  Kept(f)' = Kept(f) /\ Owners(f)' = Owners(f)
      BY <1>1 DEF Kept, Owners, array, Registered
<1> QED BY <1>1, <1>2 DEF Counted, array

(* There is a free descriptor for a connection that has not been accepted,  *)
(* and accept() takes one.                                                  *)
LEMMA FreeFd ==
    ASSUME TypeOK, Kernel, NEW c \in Conns, pc[c] = "none"
    PROVE  LET f == CHOOSE g \in FreeFds : \A h \in FreeFds : g <= h
           IN  f \in Fds /\ file[f] = NoConn
<1>1. \A f \in DOMAIN file : file[f] # c
      BY Sizes DEF TypeOK, Kernel
<1>2. \E f \in DOMAIN file : file[f] = NoConn
  <2>1. file \in [1 .. Cardinality(Conns) -> Conns \cup {NoConn}]
        BY DEF TypeOK, Fds
  <2>2. \A f, g \in DOMAIN file : file[f] = file[g] /\ file[f] # NoConn => f = g
        BY <2>1 DEF Kernel, Fds
  <2> QED BY <1>1, <2>1, <2>2, Sizes, FreePlace
<1>3. FreeFds # {} /\ FreeFds \in SUBSET Nat
      BY <1>2, Sizes DEF FreeFds, TypeOK
<1>4. \E g \in FreeFds : \A h \in FreeFds : g <= h
      BY <1>3, LeastExists
<1> QED BY <1>4 DEF FreeFds

(* The invariant holds initially.                                           *)
LEMMA MInit == Init => MInv
<1> SUFFICES ASSUME Init PROVE MInv
    OBVIOUS
<1>1. TypeOK
      BY Sizes DEF Init, TypeOK, PCs, Entries, N
<1>2. Kernel /\ Locked /\ InBounds
      BY Sizes DEF Init, Kernel, Locked, InBounds
<1>3. Filled
      BY Sizes DEF Init, Filled, ListsAreFilled, Greeted
<1>4. Registered = {} /\ \A f \in Fds : Kept(f) = {} /\ Owners(f) = {}
      BY Sizes DEF Init, Registered, Kept, Owners
<1>5. Counted
      BY <1>4, FS_EmptySet DEF Init, Counted
<1> QED BY <1>1, <1>2, <1>3, <1>5 DEF MInv

-----------------------------------------------------------------------------
(* The steps.  Most of them move one thread, which may change its own       *)
(* variables and close its descriptor, and touch neither the list nor the   *)
(* mutex.                                                                   *)

Outside == {"none", "start", "added", "shift"}
Serving == {"serve", "message", "close", "find"}

LEMMA Moves ==
    ASSUME MInv, NEW t \in Conns, NEW label \in PCs, Goto(t, label),
           pc[t] \notin Outside, label \notin Outside,
           pc[t] \in Serving <=> label \in Serving,
           UNCHANGED <<confd, fd, array, mutex>>,
           UNCHANGED file \/ Close(t),
           \A u \in Conns : u # t => pos'[u] = pos[u] /\ left'[u] = left[u] /\ who'[u] = who[u],
           label \in {"fields", "entry"} => left'[t] > 0,
           label = "entry" => pos'[t] < N /\ clients[pos'[t]].who # NoConn,
           label \in Greeted => who'[t] # NoConn,
           ListsAreFilled'
    PROVE  Kernel' /\ Locked' /\ InBounds' /\ Filled' /\ Counted'
<1>1. \A u \in Conns : pc'[u] = IF u = t THEN label ELSE pc[u]
      BY GotoType DEF MInv
<1>2. Kernel'
  <2>1. \A f \in Fds : file'[f] # NoConn => file'[f] = file[f] /\ file[f] \in Conns
        BY DEF Close, MInv, TypeOK
  <2>2. \A u \in Conns : pc'[u] \in {"none", "start"} <=> pc[u] \in {"none", "start"}
        BY <1>1 DEF Outside
  <2>3. \A u \in Conns : pc'[u] = "none" <=> pc[u] = "none"
        BY <1>1 DEF Outside
  <2> QED BY <2>1, <2>2, <2>3 DEF MInv, Kernel, Running
<1>3. \A u \in Conns : /\ pc'[u] = "shift" <=> pc[u] = "shift"
                       /\ pc'[u] = "added" <=> pc[u] = "added"
                       /\ u \in Registered' <=> u \in Registered
      BY <1>1 DEF Outside, Serving, Registered
<1>4. Locked'
      BY <1>3, <1>1 DEF MInv, Locked, array, Outside
<1>5. InBounds'
      BY <1>1 DEF MInv, InBounds
<1>6. Filled'
      BY <1>1, <1>3 DEF MInv, Filled, array, Outside
<1>7. Counted'
      BY <1>3, <1>1, CountsKept DEF MInv, Outside
<1> QED BY <1>2, <1>4, <1>5, <1>6, <1>7

(* What is sent of an entry was filled, and so every list stays filled.     *)
LEMMA SendFilled ==
    ASSUME MInv, NEW t \in Conns, fd[t] \in Fds, NEW reply \in Replies,
           reply.what = "field" => reply.val # NoConn,
           NEW ret, Send(t, reply, ret)
    PROVE  ListsAreFilled'
BY SendType DEF MInv, Filled, ListsAreFilled

LEMMA KeepsLists ==
    ASSUME MInv, UNCHANGED out
    PROVE  ListsAreFilled'
BY DEF MInv, Filled, ListsAreFilled

(* A thread past "start" has a descriptor.                                  *)
LEMMA HasFd ==
    ASSUME MInv, NEW t \in Conns, pc[t] \notin {"none", "start"}
    PROVE  fd[t] \in Fds
BY DEF MInv, Kernel

LEMMA MClient ==
    ASSUME MInv, NEW c \in Conns, ClientStep(c)
    PROVE  MInv'
<1>1. UNCHANGED <<out, file, confd, pc, thread, array, mutex, shared>>
      BY DEF ClientStep, Connect, SendHello, SayGoodbye, Die, kernel
<1>2. TypeOK'
  <2>1. UNCHANGED <<out, file, confd, pc, fd, at, who, left, pos, clients, num_clients, mutex, shared>>
        BY <1>1 DEF thread, array
  <2>2. client' \in [Conns -> {"new", "up", "closed", "reset"}]
        BY DEF ClientStep, Connect, SendHello, SayGoodbye, Die, MInv, TypeOK
  <2>3. hello' \in [Conns -> 0 .. FIELDS + 1]
    <3>1. hello \in [Conns -> 0 .. FIELDS + 1]
          BY DEF MInv, TypeOK
    <3>2. \/ UNCHANGED hello
          \/ hello[c] <= FIELDS /\ hello' = [hello EXCEPT ![c] = @ + 1]
          BY DEF ClientStep, Connect, SendHello, SayGoodbye, Die
    <3>3. hello[c] \in Nat /\ (hello[c] <= FIELDS => hello[c] + 1 \in 0 .. FIELDS + 1)
          BY <3>1, Sizes
    <3> QED BY <3>1, <3>2, <3>3
  <2>4. in' \in [Conns -> Seq(Units)]
    <3>1. in \in [Conns -> Seq(Units)]
          BY DEF MInv, TypeOK
    <3>2. \/ UNCHANGED in
          \/ \E unit \in Units : in' = [in EXCEPT ![c] = Append(@, unit)]
          BY DEF ClientStep, Connect, SendHello, SayGoodbye, Die, kernel, Units
    <3>3. ASSUME NEW unit \in Units, in' = [in EXCEPT ![c] = Append(@, unit)]
          PROVE  in' \in [Conns -> Seq(Units)]
          BY <3>1, <3>3
    <3> QED BY <3>1, <3>2, <3>3
  <2> QED BY <2>1, <2>2, <2>3, <2>4 DEF MInv, TypeOK
<1>3. Kernel' /\ Locked' /\ InBounds'
      BY <1>1 DEF MInv, Kernel, Locked, InBounds, thread, array, Running
<1>4. Filled'
      BY <1>1 DEF MInv, Filled, ListsAreFilled, thread, array
<1>5. Counted'
      BY <1>1, CountsKept DEF MInv, Registered, thread
<1> QED BY <1>2, <1>3, <1>4, <1>5 DEF MInv

LEMMA MAccept ==
    ASSUME MInv, NEW c \in Conns, Accept(c)
    PROVE  MInv'
<1>1. confd' \in Fds /\ file[confd'] = NoConn
      BY FreeFd DEF Accept, MInv
<1>2. /\ pc[c] = "none" /\ pc' = [pc EXCEPT ![c] = "start"]
      /\ file' = [file EXCEPT ![confd'] = c]
      /\ UNCHANGED <<client, hello, in, out, fd, at, who, left, pos, clients, num_clients, mutex>>
      BY DEF Accept, Goto, env, thread, array
<1>3. \A u \in Conns : pc'[u] = IF u = c THEN "start" ELSE pc[u]
      BY <1>2 DEF MInv, TypeOK
<1>4. TypeOK'
  <2>1. shared' \in SUBSET Conns
        BY DEF Accept, MInv, TypeOK
  <2>2. pc' \in [Conns -> PCs]
        BY <1>2 DEF MInv, TypeOK, PCs
  <2>3. file' \in [Fds -> Conns \cup {NoConn}]
        BY <1>1, <1>2 DEF MInv, TypeOK
  <2> QED BY <1>1, <1>2, <2>1, <2>2, <2>3 DEF MInv, TypeOK
<1>5. Kernel'
  <2>1. \A f \in Fds : file'[f] = IF f = confd' THEN c ELSE file[f]
        BY <1>1, <1>2 DEF MInv, TypeOK
  <2>2. \A f \in Fds : file[f] # c
        BY <1>2, Sizes DEF MInv, Kernel
  <2> QED BY <1>1, <1>2, <1>3, <2>1, <2>2 DEF MInv, Kernel
<1>6. Locked' /\ InBounds'
      BY <1>2, <1>3 DEF MInv, Locked, InBounds
<1>7. Filled'
      BY <1>2, <1>3 DEF MInv, Filled, ListsAreFilled, Greeted
<1>8. Counted'
      BY <1>2, <1>3, CountsKept DEF MInv, Registered, array
<1> QED BY <1>4, <1>5, <1>6, <1>7, <1>8 DEF MInv

LEMMA MAcceptFails ==
    ASSUME MInv, AcceptFails
    PROVE  MInv'
<1>1. /\ UNCHANGED <<client, hello, in, out, file, pc, fd, at, who, left, pos, clients, num_clients, mutex, shared>>
      /\ confd' = Failed
      BY DEF AcceptFails, env, thread, array
<1>2. TypeOK'
      BY <1>1 DEF MInv, TypeOK
<1>3. Kernel' /\ Locked' /\ InBounds' /\ Filled'
      BY <1>1 DEF MInv, Kernel, Locked, InBounds, Filled, ListsAreFilled, Running
<1>4. Counted'
      BY <1>1, CountsKept DEF MInv, Registered, array
<1> QED BY <1>2, <1>3, <1>4 DEF MInv

LEMMA MReadArg ==
    ASSUME MInv, Running, NEW t \in Conns, ReadArg(t)
    PROVE  MInv'
<1>1. /\ pc[t] = "start" /\ Goto(t, "limit") /\ fd' = [fd EXCEPT ![t] = confd]
      /\ UNCHANGED <<client, hello, in, out, file, confd, at, who, left, pos, array, mutex>>
      BY DEF ReadArg, env, kernel
<1>2. \A u \in Conns : pc'[u] = IF u = t THEN "limit" ELSE pc[u]
      BY <1>1 DEF MInv, TypeOK, Goto
<1>3. confd \in Fds
      BY <1>1 DEF MInv, Kernel, Running
<1>4. TypeOK'
  <2>1. shared' \in SUBSET Conns
        BY <1>3 DEF ReadArg, MInv, TypeOK
  <2>2. fd' \in [Conns -> Fds \cup {NoFd}]
        BY <1>1, <1>3 DEF MInv, TypeOK
  <2>3. pc' \in [Conns -> PCs]
        BY <1>1 DEF MInv, TypeOK, Goto, PCs
  <2> QED BY <1>1, <2>1, <2>2, <2>3 DEF MInv, TypeOK, array
<1>5. \A u \in Conns : fd'[u] = IF u = t THEN confd ELSE fd[u]
      BY <1>1 DEF MInv, TypeOK
<1>6. Kernel'
      BY <1>1, <1>2, <1>3, <1>5 DEF MInv, Kernel, TypeOK
<1>7. Locked' /\ InBounds'
      BY <1>1, <1>2 DEF MInv, Locked, InBounds, array
<1>8. Filled'
      BY <1>1, <1>2, <1>5 DEF MInv, Filled, ListsAreFilled, Greeted, array
<1>9. Counted'
      BY <1>1, <1>2, <1>5, CountsKept DEF MInv, Registered
<1> QED BY <1>4, <1>6, <1>7, <1>8, <1>9 DEF MInv

LEMMA MCheckLimit ==
    ASSUME MInv, NEW t \in Conns, CheckLimit(t)
    PROVE  MInv'
<1>1. /\ pc[t] = "limit"
      /\ UNCHANGED <<client, hello, in, out, file, confd, fd, at, who, left, pos,
                     clients, num_clients, mutex, shared>>
      BY DEF CheckLimit, env, kernel, thread, array
<1>2. PICK label \in {"reject", "tag"} : Goto(t, label)
      BY DEF CheckLimit
<1>3. TypeOK'
      BY <1>1, <1>2, GotoType DEF MInv, TypeOK, PCs, Receiving
<1>4. Kernel' /\ Locked' /\ InBounds' /\ Filled' /\ Counted'
      BY <1>1, <1>2, KeepsLists, Moves
         DEF PCs, Receiving, Outside, Serving, Greeted, array
<1> QED BY <1>3, <1>4 DEF MInv

LEMMA MCall ==
    ASSUME MInv, NEW t \in Conns, Call(t)
    PROVE  MInv'
<1>1. /\ pc[t] \in Receiving /\ at' = [at EXCEPT ![t] = file[fd[t]]]
      /\ UNCHANGED <<client, hello, in, out, file, confd, pc, fd, who, left, pos,
                     clients, num_clients, mutex, shared>>
      BY DEF Call, env, kernel, array
<1>2. TypeOK'
  <2>1. file[fd[t]] \in Conns \cup {NoConn}
        BY <1>1 DEF MInv, TypeOK, Kernel, Receiving
  <2> QED BY <1>1, <2>1 DEF MInv, TypeOK
<1>3. Kernel' /\ Locked' /\ InBounds'
      BY <1>1 DEF MInv, Kernel, Locked, InBounds, Running
<1>4. Filled'
      BY <1>1 DEF MInv, Filled, ListsAreFilled
<1>5. Counted'
      BY <1>1, CountsKept DEF MInv, Registered, array
<1> QED BY <1>2, <1>3, <1>4, <1>5 DEF MInv

LEMMA MRecvTag ==
    ASSUME MInv, NEW t \in Conns, RecvTag(t)
    PROVE  MInv'
<1>1. /\ pc[t] = "tag"
      /\ UNCHANGED <<client, hello, out, confd, fd, who, pos, clients, num_clients, mutex, shared>>
      BY DEF RecvTag, env, array
<1>2. PICK unit, ret : Recv(t, unit, ret)
      BY DEF RecvTag
<1>3. PICK label \in {"reject", "refused", "fields"} :
         /\ Goto(t, label)
         /\ UNCHANGED file \/ Close(t)
         /\ IF label = "fields" THEN left' = [left EXCEPT ![t] = FIELDS] ELSE UNCHANGED left
      BY DEF RecvTag
<1>4. left' \in [Conns -> 0 .. FIELDS] /\ \A u \in Conns : u # t => left'[u] = left[u]
  <2>1. left \in [Conns -> 0 .. FIELDS] /\ FIELDS \in 0 .. FIELDS
        BY Sizes DEF MInv, TypeOK
  <2> QED BY <1>3, <2>1
<1>5. TypeOK'
  <2>1. file' \in [Fds -> Conns \cup {NoConn}]
        BY <1>3 DEF Close, MInv, TypeOK
  <2>2. pc' \in [Conns -> PCs]
        BY <1>3, GotoType DEF MInv, PCs, Receiving
  <2>3. in' \in [Conns -> Seq(Units)] /\ at' \in [Conns -> Conns \cup {NoConn}]
        BY <1>2, RecvType DEF MInv
  <2> QED BY <1>1, <1>4, <2>1, <2>2, <2>3 DEF MInv, TypeOK
<1>6. label = "fields" => left'[t] > 0
      BY <1>3, Sizes DEF MInv, TypeOK
<1>7. Kernel' /\ Locked' /\ InBounds' /\ Filled' /\ Counted'
      BY <1>1, <1>3, <1>4, <1>6, KeepsLists, Moves
         DEF PCs, Receiving, Outside, Serving, Greeted, array
<1> QED BY <1>5, <1>7 DEF MInv

LEMMA MRecvField ==
    ASSUME MInv, NEW t \in Conns, RecvField(t)
    PROVE  MInv'
<1>1. /\ pc[t] = "fields" /\ left[t] \in 1 .. FIELDS
      /\ UNCHANGED <<client, hello, out, confd, fd, pos, clients, num_clients, mutex, shared>>
      BY Sizes DEF RecvField, env, array, MInv, TypeOK, InBounds
<1>2. PICK unit, ret :
         /\ Recv(t, unit, ret)
         /\ \/ /\ Goto(t, "reject") /\ UNCHANGED <<file, left, who>>
            \/ /\ Close(t) /\ Goto(t, "refused") /\ UNCHANGED <<left, who>>
            \/ /\ ret = 1
               /\ who'  = [who EXCEPT ![t] = at[t]]
               /\ left' = [left EXCEPT ![t] = @ - 1]
               /\ Goto(t, IF left[t] = 1 THEN "ok" ELSE "fields")
               /\ UNCHANGED file
      BY DEF RecvField
<1>3. PICK label \in {"reject", "refused", "ok", "fields"} :
         /\ Goto(t, label)
         /\ UNCHANGED file \/ Close(t)
         /\ IF label \in {"ok", "fields"}
            THEN /\ ret = 1
                 /\ who'  = [who EXCEPT ![t] = at[t]]
                 /\ left' = [left EXCEPT ![t] = left[t] - 1]
            ELSE UNCHANGED <<left, who>>
         /\ label = "fields" => left[t] # 1
      BY <1>2
<1>4. ret = 1 => at[t] \in Conns
      BY <1>2, RecvType DEF MInv
<1>5. /\ left' \in [Conns -> 0 .. FIELDS]
      /\ \A u \in Conns : u # t => left'[u] = left[u]
      /\ label = "fields" => left'[t] > 0
  <2>1. left \in [Conns -> 0 .. FIELDS]
        BY DEF MInv, TypeOK
  <2>2. left[t] - 1 \in 0 .. FIELDS /\ (label = "fields" => left[t] - 1 > 0)
        BY <1>1, <1>3, Sizes
  <2> QED BY <1>3, <2>1, <2>2
<1>6. /\ who' \in [Conns -> Conns \cup {NoConn}]
      /\ \A u \in Conns : u # t => who'[u] = who[u]
      /\ label = "ok" => who'[t] # NoConn
  <2>1. who \in [Conns -> Conns \cup {NoConn}] /\ NoConn \notin Conns
        BY Sizes DEF MInv, TypeOK
  <2> QED BY <1>3, <1>4, <2>1
<1>7. TypeOK'
  <2>1. file' \in [Fds -> Conns \cup {NoConn}]
        BY <1>3 DEF Close, MInv, TypeOK
  <2>2. pc' \in [Conns -> PCs]
        BY <1>3, GotoType DEF MInv, PCs, Receiving
  <2>3. in' \in [Conns -> Seq(Units)] /\ at' \in [Conns -> Conns \cup {NoConn}]
        BY <1>2, RecvType DEF MInv
  <2> QED BY <1>1, <1>5, <1>6, <2>1, <2>2, <2>3 DEF MInv, TypeOK
<1>8. Kernel' /\ Locked' /\ InBounds' /\ Filled' /\ Counted'
      BY <1>1, <1>3, <1>5, <1>6, KeepsLists, Moves
         DEF PCs, Receiving, Outside, Serving, Greeted, array
<1> QED BY <1>7, <1>8 DEF MInv

LEMMA MReject ==
    ASSUME MInv, NEW t \in Conns, Reject(t)
    PROVE  MInv'
<1>1. /\ pc[t] = "reject" /\ Close(t) /\ Goto(t, "refused")
      /\ UNCHANGED <<client, hello, in, confd, fd, at, who, left, pos, clients, num_clients, mutex, shared>>
      BY DEF Reject, env, thread, array
<1>2. PICK ret : Send(t, [what |-> "HELLO_ERROR"], ret)
      BY DEF Reject
<1>3. fd[t] \in Fds
      BY <1>1, HasFd
<1>4. [what |-> "HELLO_ERROR"] \in Replies
      BY DEF Replies
<1>5. TypeOK'
  <2>1. file' \in [Fds -> Conns \cup {NoConn}]
        BY <1>1 DEF Close, MInv, TypeOK
  <2>2. pc' \in [Conns -> PCs]
        BY <1>1, GotoType DEF MInv, PCs
  <2>3. out' \in [Conns -> Seq(Replies)]
        BY <1>2, <1>3, <1>4, SendType DEF MInv
  <2> QED BY <1>1, <2>1, <2>2, <2>3 DEF MInv, TypeOK
<1>6. ListsAreFilled'
      BY <1>2, <1>3, <1>4, SendFilled
<1>7. Kernel' /\ Locked' /\ InBounds' /\ Filled' /\ Counted'
      BY <1>1, <1>6, Moves DEF PCs, Outside, Serving, Greeted, array
<1> QED BY <1>5, <1>7 DEF MInv

LEMMA MReplyOK ==
    ASSUME MInv, NEW t \in Conns, ReplyOK(t)
    PROVE  MInv'
<1>1. /\ pc[t] = "ok" /\ Goto(t, "count")
      /\ UNCHANGED <<client, hello, in, file, confd, fd, at, who, left, pos,
                     clients, num_clients, mutex, shared>>
      BY DEF ReplyOK, env, thread, array
<1>2. PICK ret : Send(t, [what |-> "HELLO_OK"], ret)
      BY DEF ReplyOK
<1>3. fd[t] \in Fds
      BY <1>1, HasFd
<1>4. [what |-> "HELLO_OK"] \in Replies
      BY DEF Replies
<1>5. TypeOK'
  <2>1. pc' \in [Conns -> PCs]
        BY <1>1, GotoType DEF MInv, PCs
  <2>2. out' \in [Conns -> Seq(Replies)]
        BY <1>2, <1>3, <1>4, SendType DEF MInv
  <2> QED BY <1>1, <2>1, <2>2 DEF MInv, TypeOK
<1>6. ListsAreFilled'
      BY <1>2, <1>3, <1>4, SendFilled
<1>7. who[t] # NoConn
      BY <1>1 DEF MInv, Filled, Greeted
<1>8. Kernel' /\ Locked' /\ InBounds' /\ Filled' /\ Counted'
      BY <1>1, <1>6, <1>7, Moves DEF PCs, Outside, Serving, Greeted, array
<1> QED BY <1>5, <1>8 DEF MInv

LEMMA MSendCount ==
    ASSUME MInv, NEW t \in Conns, SendCount(t)
    PROVE  MInv'
<1> DEFINE reply == [what |-> "count", val |-> num_clients % 256]
<1>1. /\ pc[t] = "count" /\ Goto(t, "look") /\ pos' = [pos EXCEPT ![t] = 0]
      /\ UNCHANGED <<client, hello, in, file, confd, fd, at, who, left,
                     clients, num_clients, mutex, shared>>
      BY DEF SendCount, env, array
<1>2. PICK ret : Send(t, reply, ret)
      BY DEF SendCount
<1>3. fd[t] \in Fds
      BY <1>1, HasFd
<1>4. reply \in Replies
  <2>1. num_clients \in Nat
        BY Sizes DEF MInv, TypeOK, N
  <2>2. num_clients % 256 \in 0 .. 255
        BY <2>1
  <2> QED BY <2>2 DEF Replies
<1>5. pos' \in [Conns -> Slots] /\ \A u \in Conns : u # t => pos'[u] = pos[u]
  <2>1. pos \in [Conns -> Slots] /\ 0 \in Slots
        BY Sizes DEF MInv, TypeOK
  <2> QED BY <1>1, <2>1
<1>6. TypeOK'
  <2>1. pc' \in [Conns -> PCs]
        BY <1>1, GotoType DEF MInv, PCs
  <2>2. out' \in [Conns -> Seq(Replies)]
        BY <1>2, <1>3, <1>4, SendType DEF MInv
  <2> QED BY <1>1, <1>5, <2>1, <2>2 DEF MInv, TypeOK
<1>7. ListsAreFilled'
      BY <1>2, <1>3, <1>4, SendFilled
<1>8. who[t] # NoConn
      BY <1>1 DEF MInv, Filled, Greeted
<1>9. Kernel' /\ Locked' /\ InBounds' /\ Filled' /\ Counted'
      BY <1>1, <1>5, <1>7, <1>8, Moves DEF PCs, Outside, Serving, Greeted, array
<1> QED BY <1>6, <1>9 DEF MInv

(* The entry that Look finds in the list was counted, and is filled.        *)
LEMMA MLook ==
    ASSUME MInv, NEW t \in Conns, Look(t)
    PROVE  MInv'
<1>1. /\ pc[t] = "look" /\ left' = [left EXCEPT ![t] = FIELDS]
      /\ UNCHANGED <<client, hello, in, out, file, confd, fd, at, who, pos,
                     clients, num_clients, mutex, shared>>
      BY DEF Look, env, kernel, array
<1>2. PICK label \in {"entry", "register"} : /\ Goto(t, label)
                                             /\ label = "entry" => pos[t] < num_clients
      BY DEF Look
<1>3. /\ left' \in [Conns -> 0 .. FIELDS]
      /\ \A u \in Conns : u # t => left'[u] = left[u]
      /\ left'[t] > 0
  <2>1. left \in [Conns -> 0 .. FIELDS] /\ FIELDS \in 0 .. FIELDS /\ FIELDS > 0
        BY Sizes DEF MInv, TypeOK
  <2> QED BY <1>1, <2>1
<1>4. label = "entry" => pos[t] < N /\ clients[pos[t]].who # NoConn
  <2>1. pos[t] \in Slots /\ pos[t] \in Nat /\ num_clients \in 0 .. N
        BY Sizes DEF MInv, TypeOK, N
  <2> QED BY <1>2, <2>1, Sizes DEF MInv, Filled
<1>5. who[t] # NoConn
      BY <1>1 DEF MInv, Filled, Greeted
<1>6. TypeOK'
  <2>1. pc' \in [Conns -> PCs]
        BY <1>2, GotoType DEF MInv, PCs
  <2> QED BY <1>1, <1>3, <2>1 DEF MInv, TypeOK
<1>7. Kernel' /\ Locked' /\ InBounds' /\ Filled' /\ Counted'
      BY <1>1, <1>2, <1>3, <1>4, <1>5, KeepsLists, Moves DEF PCs, Outside, Serving, Greeted, array
<1> QED BY <1>6, <1>7 DEF MInv

LEMMA MSendField ==
    ASSUME MInv, NEW t \in Conns, SendField(t)
    PROVE  MInv'
<1> DEFINE reply == [what |-> "field", val |-> clients[pos[t]].who]
<1>1. /\ pc[t] = "entry" /\ left' = [left EXCEPT ![t] = @ - 1]
      /\ UNCHANGED <<client, hello, in, file, confd, fd, at, who,
                     clients, num_clients, mutex, shared>>
      BY DEF SendField, env, array
<1>2. PICK ret : Send(t, reply, ret)
      BY DEF SendField
<1>3. fd[t] \in Fds
      BY <1>1, HasFd
<1>4. /\ left[t] \in 1 .. FIELDS /\ pos[t] \in 0 .. N - 1 /\ pos[t] \in Slots
      /\ clients[pos[t]].who # NoConn /\ clients[pos[t]] \in Entries /\ who[t] # NoConn
  <2>1. left[t] \in 1 .. FIELDS
        BY <1>1, Sizes DEF MInv, TypeOK, InBounds
  <2>2. pos[t] \in 0 .. N - 1 /\ pos[t] \in Slots
        BY <1>1, Sizes DEF MInv, TypeOK, InBounds
  <2>3. clients[pos[t]].who # NoConn /\ clients[pos[t]] \in Entries /\ who[t] # NoConn
        BY <1>1, <2>2 DEF MInv, TypeOK, Filled, Greeted
  <2> QED BY <2>1, <2>2, <2>3
<1>5. reply \in Replies /\ reply.val # NoConn
      BY <1>4 DEF Replies, Entries
<1>6. PICK label \in {"look", "entry"} :
         /\ Goto(t, label)
         /\ label = "look"  => pos' = [pos EXCEPT ![t] = @ + 1]
         /\ label = "entry" => left[t] # 1 /\ UNCHANGED pos
  <2>1. CASE left[t] = 1
        BY <2>1 DEF SendField
  <2>2. CASE left[t] # 1
    <3>1. UNCHANGED <<pos, pc>>
          BY <2>2 DEF SendField
    <3>2. pc = [pc EXCEPT ![t] = "entry"]
          BY <1>1 DEF MInv, TypeOK
    <3> QED BY <2>2, <3>1, <3>2 DEF Goto
  <2> QED BY <2>1, <2>2
<1>7. /\ left' \in [Conns -> 0 .. FIELDS]
      /\ \A u \in Conns : u # t => left'[u] = left[u]
      /\ label = "entry" => left'[t] > 0
  <2>1. left \in [Conns -> 0 .. FIELDS]
        BY DEF MInv, TypeOK
  <2>2. left[t] - 1 \in 0 .. FIELDS /\ (label = "entry" => left[t] - 1 > 0)
        BY <1>4, <1>6, Sizes
  <2> QED BY <1>1, <2>1, <2>2
<1>8. /\ pos' \in [Conns -> Slots]
      /\ \A u \in Conns : u # t => pos'[u] = pos[u]
      /\ label = "entry" => pos'[t] < N /\ clients[pos'[t]].who # NoConn
  <2>1. pos \in [Conns -> Slots]
        BY DEF MInv, TypeOK
  <2>2. pos[t] + 1 \in Slots /\ pos[t] < N
        BY <1>4, Sizes
  <2> QED BY <1>4, <1>6, <2>1, <2>2
<1>9. TypeOK'
  <2>1. pc' \in [Conns -> PCs]
        BY <1>6, GotoType DEF MInv, PCs
  <2>2. out' \in [Conns -> Seq(Replies)]
        BY <1>2, <1>3, <1>5, SendType DEF MInv
  <2> QED BY <1>1, <1>7, <1>8, <2>1, <2>2 DEF MInv, TypeOK
<1>10. ListsAreFilled'
      BY <1>2, <1>3, <1>5, SendFilled
<1>11. Kernel' /\ Locked' /\ InBounds' /\ Filled' /\ Counted'
      BY <1>1, <1>4, <1>6, <1>7, <1>8, <1>10, Moves DEF PCs, Outside, Serving, Greeted, array
<1> QED BY <1>9, <1>11 DEF MInv

LEMMA MRecvMessage ==
    ASSUME MInv, NEW t \in Conns, RecvMessage(t)
    PROVE  MInv'
<1>1. /\ pc[t] \in {"serve", "message"}
      /\ UNCHANGED <<client, hello, out, file, confd, fd, who, left, pos,
                     clients, num_clients, mutex, shared>>
      BY DEF RecvMessage, env, array
<1>2. PICK unit, ret : Recv(t, unit, ret)
      BY DEF RecvMessage
<1>3. PICK label \in {"serve", "message", "close"} : Goto(t, label)
      BY DEF RecvMessage
<1>4. TypeOK'
  <2>1. pc' \in [Conns -> PCs]
        BY <1>3, GotoType DEF MInv, PCs, Receiving
  <2>2. in' \in [Conns -> Seq(Units)] /\ at' \in [Conns -> Conns \cup {NoConn}]
        BY <1>2, RecvType DEF MInv
  <2> QED BY <1>1, <2>1, <2>2 DEF MInv, TypeOK
<1>5. Kernel' /\ Locked' /\ InBounds' /\ Filled' /\ Counted'
      BY <1>1, <1>3, KeepsLists, Moves
         DEF PCs, Receiving, Outside, Serving, Greeted, array
<1> QED BY <1>4, <1>5 DEF MInv

LEMMA MCloseSession ==
    ASSUME MInv, NEW t \in Conns, CloseSession(t)
    PROVE  MInv'
<1>1. /\ pc[t] = "close" /\ Close(t) /\ Goto(t, "find")
      /\ UNCHANGED <<client, hello, in, out, confd, fd, at, who, left, pos,
                     clients, num_clients, mutex, shared>>
      BY DEF CloseSession, env, thread, array
<1>2. TypeOK'
  <2>1. file' \in [Fds -> Conns \cup {NoConn}]
        BY <1>1 DEF Close, MInv, TypeOK
  <2>2. pc' \in [Conns -> PCs]
        BY <1>1, GotoType DEF MInv, PCs
  <2> QED BY <1>1, <2>1, <2>2 DEF MInv, TypeOK
<1>3. Kernel' /\ Locked' /\ InBounds' /\ Filled' /\ Counted'
      BY <1>1, KeepsLists, Moves DEF PCs, Outside, Serving, Greeted, array
<1> QED BY <1>2, <1>3 DEF MInv

-----------------------------------------------------------------------------
(* The steps on the list                                                    *)

LEMMA FiniteSets ==
    /\ IsFiniteSet(Registered) /\ Cardinality(Registered) \in Nat
    /\ \A f \in Fds : /\ IsFiniteSet(Kept(f)) /\ Cardinality(Kept(f)) \in Nat
                      /\ IsFiniteSet(Owners(f)) /\ Cardinality(Owners(f)) \in Nat
<1>1. IsFiniteSet(Slots)
      BY Sizes, FS_Interval
<1>2. IsFiniteSet(Registered) /\ \A f \in Fds : IsFiniteSet(Kept(f)) /\ IsFiniteSet(Owners(f))
  <2>1. Registered \subseteq Conns
        BY DEF Registered
  <2>2. ASSUME NEW f \in Fds
        PROVE  Kept(f) \subseteq Slots /\ Owners(f) \subseteq Conns
        BY DEF Kept, Owners, Registered
  <2> QED BY <1>1, <2>1, <2>2, Sizes, FS_Subset
<1> QED BY <1>2, FS_CardinalityType

(* A thread that has not registered leaves room for its entry.              *)
LEMMA HasRoom ==
    ASSUME MInv, NEW t \in Conns, t \notin Registered
    PROVE  num_clients < N
<1>1. Registered \subseteq Conns \ {t}
      BY DEF Registered
<1>2. Cardinality(Conns \ {t}) = N - 1 /\ IsFiniteSet(Conns \ {t})
      BY Sizes, OneLess DEF N
<1>3. Cardinality(Registered) <= N - 1
      BY <1>1, <1>2, FS_Subset
<1> QED BY <1>3, Sizes, FiniteSets DEF MInv, Counted

LEMMA MAdd ==
    ASSUME MInv, NEW t \in Conns, Add(t)
    PROVE  MInv'
<1> DEFINE entry == [socket_fd |-> fd[t], who |-> who[t]]
<1>1. /\ pc[t] = "register" /\ mutex = NoConn /\ mutex' = t /\ Goto(t, "added")
      /\ clients' = [clients EXCEPT ![num_clients] = entry]
      /\ UNCHANGED <<client, hello, in, out, file, confd, fd, at, who, left, pos, num_clients, shared>>
      BY DEF Add, env, kernel, thread
<1>2. \A u \in Conns : pc'[u] = IF u = t THEN "added" ELSE pc[u]
      BY <1>1 DEF MInv, TypeOK, Goto
<1>3. num_clients \in Slots /\ num_clients \in Nat
      BY Sizes DEF MInv, TypeOK, N
<1>4. entry \in Entries /\ who[t] # NoConn
      BY <1>1, HasFd DEF MInv, TypeOK, Filled, Greeted, Entries
<1>5. \A i \in Slots : clients'[i] = IF i = num_clients THEN entry ELSE clients[i]
      BY <1>1, <1>3 DEF MInv, TypeOK
<1>6. \A u \in Conns : pc[u] \notin {"added", "shift"}
      BY <1>1, Sizes DEF MInv, Locked
<1>7. TypeOK'
  <2>1. clients' \in [Slots -> Entries]
        BY <1>1, <1>3, <1>4 DEF MInv, TypeOK
  <2>2. pc' \in [Conns -> PCs]
        BY <1>1, GotoType DEF MInv, PCs
  <2> QED BY <1>1, <2>1, <2>2 DEF MInv, TypeOK
<1>8. Kernel' /\ Locked' /\ InBounds'
  <2>1. Kernel'
        BY <1>1, <1>2 DEF MInv, TypeOK, Kernel, Running
  <2>2. Locked'
        BY <1>1, <1>2, <1>6 DEF Locked
  <2>3. InBounds'
        BY <1>1, <1>2 DEF MInv, InBounds
  <2> QED BY <2>1, <2>2, <2>3
<1>9. Filled'
  <2>1. \A u \in Conns : pc'[u] \in Greeted => who'[u] # NoConn
        BY <1>1, <1>2, <1>4 DEF MInv, Filled
  <2>2. \A i \in Slots : i < num_clients' => clients'[i].who # NoConn
        BY <1>1, <1>4, <1>5 DEF MInv, Filled
  <2>3. \A u \in Conns : pc'[u] = "added" =>
           clients'[num_clients'] = [socket_fd |-> fd'[u], who |-> who'[u]]
        BY <1>1, <1>2, <1>3, <1>5, <1>6
  <2>4. \A u \in Conns : pc'[u] = "entry" => clients'[pos'[u]].who # NoConn
        BY <1>1, <1>2, <1>4, <1>5 DEF MInv, Filled, TypeOK
  <2>5. ListsAreFilled'
        BY <1>1, KeepsLists
  <2> QED BY <2>1, <2>2, <2>3, <2>4, <2>5 DEF Filled
<1>10. Counted'
  <2>1. Registered' = Registered
        BY <1>1, <1>2 DEF Registered
  <2>2. ASSUME NEW f \in Fds
        PROVE  Kept(f)' = Kept(f)
    <3>1. \A i \in Slots : i < num_clients => clients'[i] = clients[i]
          BY <1>3, <1>5, Sizes
    <3>2. \A u \in Conns : pc'[u] # "shift" /\ pc[u] # "shift"
          BY <1>2, <1>6
    <3> QED BY <1>1, <3>1, <3>2 DEF Kept
  <2>3. ASSUME NEW f \in Fds
        PROVE  Owners(f)' = Owners(f)
        BY <1>1, <1>2, <2>1 DEF Owners, Registered
  <2> QED BY <1>1, <2>1, <2>2, <2>3 DEF MInv, Counted
<1> QED BY <1>7, <1>8, <1>9, <1>10 DEF MInv

LEMMA MAdded ==
    ASSUME MInv, NEW t \in Conns, Added(t)
    PROVE  MInv'
<1>1. /\ pc[t] = "added" /\ num_clients' = num_clients + 1 /\ mutex' = NoConn /\ Goto(t, "serve")
      /\ UNCHANGED <<client, hello, in, out, file, confd, fd, at, who, left, pos, clients, shared>>
      BY DEF Added, env, kernel, thread
<1>2. \A u \in Conns : pc'[u] = IF u = t THEN "serve" ELSE pc[u]
      BY <1>1 DEF MInv, TypeOK, Goto
<1>3. mutex = t /\ \A u \in Conns : u # t => pc[u] \notin {"added", "shift"}
      BY <1>1 DEF MInv, Locked
<1>4. num_clients \in Slots /\ num_clients \in Nat /\ num_clients < N
  <2>1. t \notin Registered
        BY <1>1 DEF Registered
  <2>2. num_clients < N
        BY <2>1, HasRoom
  <2>3. num_clients \in 0 .. N
        BY DEF MInv, TypeOK, N
  <2> QED BY <2>2, <2>3, Sizes
<1>5. clients[num_clients] = [socket_fd |-> fd[t], who |-> who[t]] /\ who[t] # NoConn /\ fd[t] \in Fds
      BY <1>1, HasFd DEF MInv, Filled, Greeted
<1>6. TypeOK'
  <2>1. num_clients' \in 0 .. Cardinality(Conns)
        BY <1>1, <1>4, Sizes DEF N
  <2>2. pc' \in [Conns -> PCs]
        BY <1>1, GotoType DEF MInv, PCs, Receiving
  <2> QED BY <1>1, <2>1, <2>2 DEF MInv, TypeOK
<1>7. Kernel' /\ Locked' /\ InBounds'
  <2>1. Kernel'
        BY <1>1, <1>2 DEF MInv, TypeOK, Kernel, Running
  <2>2. Locked'
        BY <1>1, <1>2, <1>3, Sizes DEF Locked
  <2>3. InBounds'
        BY <1>1, <1>2 DEF MInv, InBounds
  <2> QED BY <2>1, <2>2, <2>3
<1>8. Filled'
  <2>1. \A i \in Slots : i < num_clients' => clients'[i].who # NoConn
        BY <1>1, <1>4, <1>5, Sizes DEF MInv, Filled
  <2>2. ListsAreFilled'
        BY <1>1, KeepsLists
  <2>3. \A u \in Conns : pc'[u] # "added"
        BY <1>2, <1>3
  <2> QED BY <1>1, <1>2, <2>1, <2>2, <2>3 DEF MInv, Filled, Greeted
<1>9. Counted'
  <2>1. Registered' = Registered \cup {t} /\ t \notin Registered
        BY <1>1, <1>2 DEF Registered
  <2>2. num_clients' = Cardinality(Registered')
        BY <1>1, <2>1, FiniteSets, OneMore DEF MInv, Counted
  <2>3. ASSUME NEW f \in Fds, f # fd[t]
        PROVE  Kept(f)' = Kept(f) /\ Owners(f)' = Owners(f)
    <3>1. Kept(f)' = Kept(f)
      <4>1. \A u \in Conns : pc'[u] # "shift" /\ pc[u] # "shift"
            BY <1>1, <1>2, <1>3
      <4>2. \A i \in Slots : i < num_clients' <=> i < num_clients \/ i = num_clients
            BY <1>1, <1>4, Sizes
      <4>3. clients[num_clients].socket_fd # f
            BY <1>5, <2>3
      <4> QED BY <1>1, <4>1, <4>2, <4>3 DEF Kept
    <3>2. Owners(f)' = Owners(f)
          BY <1>1, <1>2, <2>1, <2>3 DEF Owners, Registered
    <3> QED BY <3>1, <3>2
  <2>4. ASSUME NEW f \in Fds, f = fd[t]
        PROVE  Cardinality(Kept(f)') = Cardinality(Owners(f)')
    <3>1. Kept(f)' = Kept(f) \cup {num_clients} /\ num_clients \notin Kept(f)
          BY <1>1, <1>2, <1>3, <1>4, <1>5, <2>4, Sizes DEF Kept
    <3>2. Owners(f)' = Owners(f) \cup {t} /\ t \notin Owners(f)
          BY <1>1, <1>2, <2>1, <2>4 DEF Owners, Registered
    <3>3. Cardinality(Kept(f) \cup {num_clients}) = Cardinality(Kept(f)) + 1
          BY <3>1, FiniteSets, OneMore
    <3>4. Cardinality(Owners(f) \cup {t}) = Cardinality(Owners(f)) + 1
          BY <3>2, FiniteSets, OneMore
    <3> QED BY <3>1, <3>2, <3>3, <3>4 DEF MInv, Counted
  <2>5. ASSUME NEW f \in Fds
        PROVE  Cardinality(Kept(f)') = Cardinality(Owners(f)')
        BY <2>3, <2>4 DEF MInv, Counted
  <2> QED BY <2>2, <2>5 DEF Counted
<1> QED BY <1>6, <1>7, <1>8, <1>9 DEF MInv

(* A thread that ended its session always finds an entry to remove: the     *)
(* books say that there are as many as there are threads to remove them.    *)
LEMMA MFindEntry ==
    ASSUME MInv, NEW t \in Conns, FindEntry(t)
    PROVE  MInv'
<1>1. /\ pc[t] = "find" /\ mutex = NoConn
      /\ UNCHANGED <<client, hello, in, out, file, confd, fd, at, who, left,
                     clients, num_clients, shared>>
      BY DEF FindEntry, env, kernel, array
<1>2. \A u \in Conns : pc[u] \notin {"added", "shift"}
      BY <1>1, Sizes DEF MInv, Locked
<1>3. fd[t] \in Fds
      BY <1>1, HasFd
<1>4. Kept(fd[t]) = Found(t)
      BY <1>2 DEF Kept, Found
<1>5. Found(t) # {}
  <2>1. t \in Owners(fd[t])
        BY <1>1 DEF Owners, Registered
  <2>2. Cardinality(Owners(fd[t])) # 0
        BY <1>3, <2>1, FiniteSets, FS_EmptySet
  <2>3. Cardinality(Kept(fd[t])) # 0
        BY <1>3, <2>2 DEF MInv, Counted
  <2> QED BY <1>4, <2>3, FS_EmptySet
<1> DEFINE p == CHOOSE i \in Found(t) : \A j \in Found(t) : i <= j
<1>6. p \in Found(t)
  <2>1. Found(t) \in SUBSET Nat
        BY Sizes DEF Found
  <2>2. \E i \in Found(t) : \A j \in Found(t) : i <= j
        BY <1>5, <2>1, LeastExists
  <2> QED BY <2>2
<1>7. pos' = [pos EXCEPT ![t] = p] /\ mutex' = t /\ Goto(t, "shift")
      BY <1>5 DEF FindEntry
<1>8. \A u \in Conns : /\ pc'[u]  = IF u = t THEN "shift" ELSE pc[u]
                       /\ pos'[u] = IF u = t THEN p ELSE pos[u]
      BY <1>7 DEF MInv, TypeOK, Goto
<1>9. p \in Slots /\ p < num_clients /\ clients[p].socket_fd = fd[t]
      BY <1>6 DEF Found
<1> HIDE DEF p
<1>10. TypeOK'
  <2>1. pos' \in [Conns -> Slots]
        BY <1>7, <1>9 DEF MInv, TypeOK
  <2>2. pc' \in [Conns -> PCs]
        BY <1>7, GotoType DEF MInv, PCs
  <2> QED BY <1>1, <1>7, <2>1, <2>2 DEF MInv, TypeOK
<1>11. Kernel' /\ Locked' /\ InBounds'
  <2>1. Kernel'
        BY <1>1, <1>8 DEF MInv, TypeOK, Kernel, Running
  <2>2. Locked'
        BY <1>1, <1>2, <1>7, <1>8, <1>9 DEF Locked
  <2>3. InBounds'
        BY <1>1, <1>8 DEF MInv, InBounds
  <2> QED BY <2>1, <2>2, <2>3
<1>12. Filled'
  <2>1. ListsAreFilled'
        BY <1>1, KeepsLists
  <2> QED BY <1>1, <1>2, <1>8, <2>1 DEF MInv, Filled, Greeted
<1>13. Counted'
  <2>1. Registered' = Registered
        BY <1>1, <1>8 DEF Registered
  <2>2. ASSUME NEW f \in Fds, f # fd[t]
        PROVE  Kept(f)' = Kept(f) /\ Owners(f)' = Owners(f)
    <3>1. Kept(f)' = Kept(f)
          BY <1>1, <1>2, <1>8, <1>9, <2>2 DEF Kept
    <3>2. Owners(f)' = Owners(f)
          BY <1>1, <1>8, <2>1, <2>2 DEF Owners, Registered
    <3> QED BY <3>1, <3>2
  <2>3. ASSUME NEW f \in Fds, f = fd[t]
        PROVE  Cardinality(Kept(f)') = Cardinality(Owners(f)')
    <3>1. Kept(f)' = Kept(f) \ {p} /\ p \in Kept(f)
          BY <1>1, <1>2, <1>8, <1>9, <2>3 DEF Kept
    <3>2. Owners(f)' = Owners(f) \ {t} /\ t \in Owners(f)
          BY <1>1, <1>8, <2>1, <2>3 DEF Owners, Registered
    <3>3. Cardinality(Kept(f) \ {p}) = Cardinality(Kept(f)) - 1
          BY <3>1, FiniteSets, OneLess
    <3>4. Cardinality(Owners(f) \ {t}) = Cardinality(Owners(f)) - 1
          BY <3>2, FiniteSets, OneLess
    <3> QED BY <3>1, <3>2, <3>3, <3>4 DEF MInv, Counted
  <2> QED BY <1>1, <2>1, <2>2, <2>3 DEF MInv, Counted
<1> QED BY <1>10, <1>11, <1>12, <1>13 DEF MInv

(* The entry that is overwritten moves up by one.                           *)
LEMMA MShift ==
    ASSUME MInv, NEW t \in Conns, Shift(t)
    PROVE  MInv'
<1> DEFINE p == pos[t]
<1>1. /\ pc[t] = "shift" /\ p < num_clients - 1
      /\ clients' = [clients EXCEPT ![p] = clients[p + 1]]
      /\ pos' = [pos EXCEPT ![t] = p + 1]
      /\ UNCHANGED <<client, hello, in, out, file, confd, pc, fd, at, who, left,
                     num_clients, mutex, shared>>
      BY DEF Shift, env, kernel
<1>2. mutex = t /\ \A u \in Conns : u # t => pc[u] \notin {"added", "shift"}
      BY <1>1 DEF MInv, Locked
<1>3. /\ p \in Slots /\ p \in Nat /\ p + 1 \in Slots
      /\ num_clients \in Nat /\ num_clients <= N
      BY <1>1, Sizes DEF MInv, TypeOK, N
<1>4. \A i \in Slots : clients'[i] = IF i = p THEN clients[p + 1] ELSE clients[i]
      BY <1>1, <1>3 DEF MInv, TypeOK
<1>5. \A u \in Conns : pos'[u] = IF u = t THEN p + 1 ELSE pos[u]
      BY <1>1 DEF MInv, TypeOK
<1>6. TypeOK'
  <2>1. clients' \in [Slots -> Entries] /\ pos' \in [Conns -> Slots]
        BY <1>1, <1>3 DEF MInv, TypeOK
  <2> QED BY <1>1, <2>1 DEF MInv, TypeOK
<1>7. Kernel' /\ Locked' /\ InBounds'
  <2>1. Kernel'
        BY <1>1 DEF MInv, TypeOK, Kernel, Running
  <2>2. Locked'
        BY <1>1, <1>2, <1>3, <1>5 DEF MInv, Locked
  <2>3. InBounds'
        BY <1>1, <1>5 DEF MInv, InBounds
  <2> QED BY <2>1, <2>2, <2>3
<1>8. Filled'
  <2>1. clients[p + 1].who # NoConn
        BY <1>1, <1>3 DEF MInv, Filled
  <2>2. \A i \in Slots : i < num_clients' => clients'[i].who # NoConn
        BY <1>1, <1>4, <2>1 DEF MInv, Filled
  <2>3. \A u \in Conns : pc'[u] = "entry" => clients'[pos'[u]].who # NoConn
        BY <1>1, <1>4, <1>5, <2>1 DEF MInv, Filled, TypeOK
  <2>4. ListsAreFilled'
        BY <1>1, KeepsLists
  <2> QED BY <1>1, <1>2, <2>2, <2>3, <2>4 DEF MInv, Filled, Greeted
<1>9. Counted'
  <2>1. Registered' = Registered
        BY <1>1 DEF Registered
  <2>2. ASSUME NEW f \in Fds
        PROVE  Owners(f)' = Owners(f)
        BY <1>1, <2>1 DEF Owners
  <2>3. ASSUME NEW f \in Fds
        PROVE  Cardinality(Kept(f)') = Cardinality(Kept(f))
    <3> DEFINE A == {i \in Slots : i < num_clients /\ clients[i].socket_fd = f /\ i \notin {p, p + 1}}
    <3>1. IsFiniteSet(A)
      <4>1. IsFiniteSet(Slots) /\ A \subseteq Slots
            BY Sizes, FS_Interval
      <4> QED BY <4>1, FS_Subset
    <3>2. Kept(f) = IF clients[p + 1].socket_fd = f THEN A \cup {p + 1} ELSE A
          BY <1>1, <1>2, <1>3 DEF Kept
    <3>3. Kept(f)' = IF clients[p + 1].socket_fd = f THEN A \cup {p} ELSE A
          BY <1>1, <1>2, <1>3, <1>4, <1>5 DEF Kept
    <3>4. /\ Cardinality(A \cup {p + 1}) = Cardinality(A) + 1
          /\ Cardinality(A \cup {p}) = Cardinality(A) + 1
          BY <3>1, OneMore
    <3> HIDE DEF A
    <3> QED BY <3>2, <3>3, <3>4
  <2> QED BY <1>1, <2>1, <2>2, <2>3 DEF MInv, Counted
<1> QED BY <1>6, <1>7, <1>8, <1>9 DEF MInv

LEMMA MRemoved ==
    ASSUME MInv, NEW t \in Conns, Removed(t)
    PROVE  MInv'
<1>1. /\ pc[t] = "shift" /\ pos[t] >= num_clients - 1
      /\ num_clients' = num_clients - 1 /\ mutex' = NoConn /\ Goto(t, "gone")
      /\ UNCHANGED <<client, hello, in, out, file, confd, fd, at, who, left, pos, clients, shared>>
      BY DEF Removed, env, kernel, thread
<1>2. \A u \in Conns : pc'[u] = IF u = t THEN "gone" ELSE pc[u]
      BY <1>1 DEF MInv, TypeOK, Goto
<1>3. mutex = t /\ \A u \in Conns : u # t => pc[u] \notin {"added", "shift"}
      BY <1>1 DEF MInv, Locked
<1>4. /\ pos[t] = num_clients - 1 /\ num_clients - 1 \in Nat
      /\ num_clients \in Nat /\ num_clients <= N
  <2>1. pos[t] \in Nat /\ num_clients \in 0 .. N
        BY Sizes DEF MInv, TypeOK, N
  <2>2. pos[t] < num_clients
        BY <1>1 DEF MInv, Locked
  <2> QED BY <1>1, <2>1, <2>2, Sizes
<1>5. TypeOK'
  <2>1. num_clients' \in 0 .. Cardinality(Conns)
        BY <1>1, <1>4, Sizes DEF N
  <2>2. pc' \in [Conns -> PCs]
        BY <1>1, GotoType DEF MInv, PCs
  <2> QED BY <1>1, <2>1, <2>2 DEF MInv, TypeOK
<1>6. Kernel' /\ Locked' /\ InBounds'
  <2>1. Kernel'
        BY <1>1, <1>2 DEF MInv, TypeOK, Kernel, Running
  <2>2. Locked'
        BY <1>1, <1>2, <1>3, Sizes DEF Locked
  <2>3. InBounds'
        BY <1>1, <1>2 DEF MInv, InBounds
  <2> QED BY <2>1, <2>2, <2>3
<1>7. Filled'
  <2>1. ListsAreFilled'
        BY <1>1, KeepsLists
  <2>2. \A i \in Slots : i < num_clients' => clients'[i].who # NoConn
        BY <1>1, <1>4, Sizes DEF MInv, Filled
  <2>3. \A u \in Conns : pc'[u] # "added"
        BY <1>2, <1>3
  <2> QED BY <1>1, <1>2, <2>1, <2>2, <2>3 DEF MInv, Filled, Greeted
<1>8. Counted'
  <2>1. Registered' = Registered \ {t} /\ t \in Registered
        BY <1>1, <1>2 DEF Registered
  <2>2. num_clients' = Cardinality(Registered')
        BY <1>1, <2>1, FiniteSets, OneLess DEF MInv, Counted
  <2>3. ASSUME NEW f \in Fds
        PROVE  Kept(f)' = Kept(f) /\ Owners(f)' = Owners(f)
    <3>1. Kept(f)' = Kept(f)
          BY <1>1, <1>2, <1>3, <1>4, Sizes DEF Kept
    <3>2. Owners(f)' = Owners(f)
          BY <1>1, <1>2 DEF Owners, Registered
    <3> QED BY <3>1, <3>2
  <2> QED BY <2>2, <2>3 DEF MInv, Counted
<1> QED BY <1>5, <1>6, <1>7, <1>8 DEF MInv

(* One step of the system keeps the invariant.                              *)
LEMMA MNext == MInv /\ [Next]_vars => MInv'
<1> SUFFICES ASSUME MInv, [Next]_vars PROVE MInv'
    OBVIOUS
<1>1. CASE UNCHANGED vars
  <2>1. UNCHANGED <<client, hello, in, out, file, confd, pc, fd, at, who, left, pos,
                    clients, num_clients, mutex, shared>>
        BY <1>1 DEF vars, env, kernel, thread, array
  <2>2. TypeOK'
        BY <2>1 DEF MInv, TypeOK
  <2>3. Kernel' /\ Locked' /\ InBounds'
        BY <2>1 DEF MInv, Kernel, Locked, InBounds, Running
  <2>4. Filled'
        BY <2>1 DEF MInv, Filled, ListsAreFilled
  <2>5. Counted'
        BY <2>1, CountsKept DEF MInv, Registered, array
  <2> QED BY <2>2, <2>3, <2>4, <2>5 DEF MInv
<1>2. ASSUME NEW c \in Conns, ClientStep(c) PROVE MInv'
      BY <1>2, MClient
<1>3. ASSUME NEW c \in Conns, Accept(c) PROVE MInv'
      BY <1>3, MAccept
<1>4. CASE AcceptFails
      BY <1>4, MAcceptFails
<1>5. ASSUME Running, NEW t \in Conns, ThreadStep(t) PROVE MInv'
      BY <1>5, MReadArg, MCheckLimit, MCall, MRecvTag, MRecvField, MReject, MReplyOK,
         MSendCount, MLook, MSendField, MAdd, MAdded, MRecvMessage,
         MCloseSession, MFindEntry, MShift, MRemoved DEF ThreadStep
<1> QED BY <1>1, <1>2, <1>3, <1>4, <1>5 DEF Next

LEMMA MInvariant == Spec => []MInv
BY MInit, MNext, PTL DEF Spec

-----------------------------------------------------------------------------
(* Every variable of the server keeps its type: no thread walks past the    *)
(* list, and the list never grows past the connections there are.           *)
THEOREM TypeCorrect == Spec => []TypeOK
<1>1. MInv => TypeOK
      BY DEF MInv
<1> QED BY <1>1, MInvariant, PTL

(* A descriptor has as many entries as threads that will remove one,        *)
(* whatever the order in which its connections come and go.                 *)
THEOREM BooksCorrect == Spec => []Books
<1>1. MInv => Books
  <2> SUFFICES ASSUME MInv, mutex = NoConn, NEW f \in Fds
               PROVE  Cardinality({i \in Slots : i < num_clients /\ clients[i].socket_fd = f})
                    = Cardinality({t \in Registered : fd[t] = f})
      BY DEF Books
  <2>1. \A u \in Conns : pc[u] # "shift"
        BY Sizes DEF MInv, Locked
  <2>2. Kept(f) = {i \in Slots : i < num_clients /\ clients[i].socket_fd = f}
        BY <2>1 DEF Kept
  <2>3. Owners(f) = {t \in Registered : fd[t] = f}
        BY <2>1 DEF Owners, Registered
  <2> QED BY <2>2, <2>3 DEF MInv, Counted
<1> QED BY <1>1, MInvariant, PTL

(* Every field sent of a list comes from an entry that was filled, although *)
(* the list is read without the mutex while it grows and shrinks.           *)
THEOREM ListsAreFilledCorrect == Spec => []ListsAreFilled
<1>1. MInv => ListsAreFilled
      BY DEF MInv, Filled
<1> QED BY <1>1, MInvariant, PTL

-----------------------------------------------------------------------------
(* Who is told of whom.  As long as nobody else uses the descriptor of a    *)
(* connection, only its own thread receives from it and sends to it, and    *)
(* the list comes before the entry: who is told of a client comes after it. *)

Own ==
    \A t \in Conns, c \in Conns \ shared :
       /\ pc[t] \in Active /\ file[fd[t]] = c => t = c
       /\ at[t] = c => t = c
       /\ who[t] = c => t = c

Entered == \A i \in Slots : clients[i].who \in Conns \ shared => pc[clients[i].who] \in Past

Listed == Past \cup {"look", "entry", "register"}

Told == \A c, d \in Conns \ shared : ToldOf(c, d) => pc[c] \in Listed /\ pc[d] \in Past

OInv == Own /\ Entered /\ Told /\ OneDials

(* What a step of a thread past "start" does, as far as OInv is concerned.  *)
LEMMA ThreadMoves ==
    ASSUME MInv, NEW t \in Conns, ThreadStep(t), ~ReadArg(t)
    PROVE  /\ \E label \in PCs : /\ Goto(t, label)
                                 /\ pc[t] \in Past => label \in Past
                                 /\ pc[t] \in Listed => label \in Listed
                                 /\ label \in Active => pc[t] \in Active
           /\ UNCHANGED file \/ Close(t)
           /\ UNCHANGED <<fd, shared>>
           /\ \/ UNCHANGED at
              \/ at' = [at EXCEPT ![t] = NoConn]
              \/ pc[t] \in Active /\ at' = [at EXCEPT ![t] = file[fd[t]]]
           /\ UNCHANGED who \/ who' = [who EXCEPT ![t] = at[t]]
<1> USE DEF Past, Listed, Active, PCs, Receiving, Goto, env, kernel, thread, array
<1>0. pc[t] \in PCs /\ pc = [pc EXCEPT ![t] = pc[t]]
      BY DEF MInv, TypeOK
<1>1. CASE CheckLimit(t)    BY <1>1 DEF CheckLimit
<1>2. CASE Call(t)          BY <1>0, <1>2 DEF Call
<1>3. CASE RecvTag(t)       BY <1>3 DEF RecvTag, Recv
<1>4. CASE RecvField(t)     BY <1>4 DEF RecvField, Recv
<1>5. CASE Reject(t)        BY <1>5 DEF Reject
<1>6. CASE ReplyOK(t)       BY <1>6 DEF ReplyOK
<1>7. CASE SendCount(t)     BY <1>7 DEF SendCount
<1>8. CASE Look(t)          BY <1>8 DEF Look
<1>9. CASE SendField(t)     BY <1>0, <1>9 DEF SendField
<1>10. CASE Add(t)          BY <1>10 DEF Add
<1>11. CASE Added(t)        BY <1>11 DEF Added
<1>12. CASE RecvMessage(t)  BY <1>12 DEF RecvMessage, Recv
<1>13. CASE CloseSession(t) BY <1>13 DEF CloseSession
<1>14. CASE FindEntry(t)    BY <1>14 DEF FindEntry
<1>15. CASE Shift(t)        BY <1>0, <1>15 DEF Shift
<1>16. CASE Removed(t)      BY <1>16 DEF Removed
<1> QED BY <1>1, <1>2, <1>3, <1>4, <1>5, <1>6, <1>7, <1>8, <1>9, <1>10, <1>11,
           <1>12, <1>13, <1>14, <1>15, <1>16 DEF ThreadStep

(* A thread that has written its entry stays past it.                       *)
LEMMA Onward ==
    ASSUME MInv, [Next]_vars
    PROVE  /\ shared \subseteq shared'
           /\ \A u \in Conns : /\ pc[u] \in Past => pc'[u] \in Past
                               /\ pc[u] \in Listed => pc'[u] \in Listed
<1>1. CASE UNCHANGED vars \/ AcceptFails
      BY <1>1 DEF vars, AcceptFails
<1>2. ASSUME NEW c \in Conns, ClientStep(c)
      PROVE  UNCHANGED <<pc, shared>>
      BY <1>2 DEF ClientStep, Connect, SendHello, SayGoodbye, Die
<1>3. ASSUME NEW t \in Conns, Accept(t) \/ ReadArg(t)
      PROVE  /\ pc[t] \notin Listed /\ shared \subseteq shared'
             /\ \A u \in Conns : u # t => pc'[u] = pc[u]
      BY <1>3 DEF Accept, ReadArg, Goto, Listed, Past, MInv, TypeOK
<1>4. ASSUME NEW t \in Conns, ThreadStep(t), ~ReadArg(t)
      PROVE  /\ UNCHANGED shared
             /\ \A u \in Conns : /\ pc[u] \in Past => pc'[u] \in Past
                                 /\ pc[u] \in Listed => pc'[u] \in Listed
      BY <1>4, ThreadMoves, GotoType DEF MInv
<1> QED BY <1>1, <1>2, <1>3, <1>4 DEF Next, Listed

LEMMA OwnStep ==
    ASSUME MInv, Own, [Next]_vars
    PROVE  Own'
<1>1. CASE UNCHANGED vars \/ AcceptFails
      BY <1>1 DEF vars, AcceptFails, kernel, thread, Own
<1>2. ASSUME NEW c \in Conns, ClientStep(c)
      PROVE  Own'
      BY <1>2 DEF ClientStep, Connect, SendHello, SayGoodbye, Die, kernel, thread, Own
<1>3. ASSUME NEW c \in Conns, Accept(c)
      PROVE  Own'
  <2>1. confd' \in Fds
        BY <1>3, FreeFd DEF Accept, MInv
  <2>2. /\ pc' = [pc EXCEPT ![c] = "start"] /\ file' = [file EXCEPT ![confd'] = c]
        /\ shared' = IF Users(confd') = {} THEN shared ELSE shared \cup {c}
        /\ UNCHANGED <<fd, at, who>>
        BY <1>3 DEF Accept, Goto, thread
  <2>3. \A u \in Conns : pc'[u] \in Active => pc[u] \in Active
        BY <2>2 DEF Active, MInv, TypeOK
  <2>4. ASSUME NEW t \in Conns, NEW d \in Conns \ shared', pc'[t] \in Active, file'[fd'[t]] = d
        PROVE  t = d
    <3>1. pc[t] \in Active /\ fd[t] \in Fds
          BY <2>3, <2>4, HasFd DEF Active
    <3>2. CASE fd[t] # confd'
      <4>1. file[fd[t]] = d
            BY <2>1, <2>2, <2>4, <3>1, <3>2 DEF MInv, TypeOK
      <4>2. d \in Conns \ shared
            BY <2>2
      <4> QED BY <3>1, <4>1, <4>2 DEF Own
    <3>3. CASE fd[t] = confd'
      <4>1. t \in Users(confd')
            BY <3>1, <3>3 DEF Users, Active
      <4>2. d = c
            BY <2>1, <2>2, <2>4, <3>1, <3>3 DEF MInv, TypeOK
      <4> QED BY <2>2, <4>1, <4>2
    <3> QED BY <3>2, <3>3
  <2> QED BY <2>2, <2>4 DEF Own
<1>4. ASSUME NEW t \in Conns, ReadArg(t)
      PROVE  Own'
  <2>1. /\ fd' = [fd EXCEPT ![t] = confd] /\ pc' = [pc EXCEPT ![t] = "limit"]
        /\ shared' = shared \cup ({file[confd]} \ {t, NoConn})
        /\ UNCHANGED <<file, at, who>>
        BY <1>4 DEF ReadArg, Goto, kernel
  <2>2. ASSUME NEW u \in Conns, NEW d \in Conns \ shared', pc'[u] \in Active, file'[fd'[u]] = d
        PROVE  u = d
    <3>1. CASE u = t
          BY <2>1, <2>2, <3>1, Sizes DEF MInv, TypeOK
    <3>2. CASE u # t
          BY <2>1, <2>2, <3>2 DEF MInv, TypeOK, Own
    <3> QED BY <3>1, <3>2
  <2> QED BY <2>1, <2>2 DEF Own
<1>5. ASSUME NEW t \in Conns, ThreadStep(t), ~ReadArg(t)
      PROVE  Own'
  <2>1. PICK label \in PCs : Goto(t, label) /\ (label \in Active => pc[t] \in Active)
        BY <1>5, ThreadMoves
  <2>2. /\ UNCHANGED file \/ Close(t)
        /\ UNCHANGED <<fd, shared>>
        /\ \/ UNCHANGED at
           \/ at' = [at EXCEPT ![t] = NoConn]
           \/ pc[t] \in Active /\ at' = [at EXCEPT ![t] = file[fd[t]]]
        /\ UNCHANGED who \/ who' = [who EXCEPT ![t] = at[t]]
        BY <1>5, ThreadMoves
  <2> SUFFICES ASSUME NEW u \in Conns, NEW d \in Conns \ shared
               PROVE  /\ pc'[u] \in Active /\ file'[fd'[u]] = d => u = d
                      /\ at'[u] = d => u = d
                      /\ who'[u] = d => u = d
      BY <2>2 DEF Own
  <2>3. pc'[u] \in Active => pc[u] \in Active
        BY <2>1, GotoType DEF MInv
  <2>4. \A f \in Fds : file'[f] \in {file[f], NoConn}
        BY <2>2 DEF Close, MInv, TypeOK
  <2>5. pc[u] \in Active => fd[u] \in Fds
        BY HasFd DEF Active
  <2>6. at'[u] \in {at[u], NoConn} \/ (pc[u] \in Active /\ at'[u] = file[fd[u]])
        BY <2>2 DEF MInv, TypeOK
  <2>7. who'[u] \in {who[u], at[u]}
        BY <2>2 DEF MInv, TypeOK
  <2> QED BY <2>2, <2>3, <2>4, <2>5, <2>6, <2>7, Sizes DEF Own
<1> QED BY <1>1, <1>2, <1>3, <1>4, <1>5 DEF Next

(* A list entry appears with its thread's place behind it, and moves.       *)
LEMMA EnteredStep ==
    ASSUME MInv, Own, Entered, [Next]_vars
    PROVE  Entered'
<1>1. /\ shared \subseteq shared'
      /\ \A u \in Conns : pc[u] \in Past => pc'[u] \in Past
      BY Onward
<1>2. ASSUME \A i \in Slots : \E j \in Slots : clients'[i].who = clients[j].who
      PROVE  Entered'
      BY <1>1, <1>2 DEF Entered
<1>3. CASE UNCHANGED clients
      BY <1>2, <1>3
<1>4. ASSUME NEW t \in Conns, Shift(t)
      PROVE  Entered'
  <2>1. pos[t] \in Slots /\ pos[t] + 1 \in Slots
        BY <1>4, Sizes DEF Shift, MInv, TypeOK, N
  <2>2. clients' = [clients EXCEPT ![pos[t]] = clients[pos[t] + 1]]
        BY <1>4 DEF Shift
  <2> QED BY <1>2, <2>1, <2>2 DEF MInv, TypeOK
<1>5. ASSUME NEW t \in Conns, Add(t)
      PROVE  Entered'
  <2>1. /\ clients' = [clients EXCEPT ![num_clients] = [socket_fd |-> fd[t], who |-> who[t]]]
        /\ pc' = [pc EXCEPT ![t] = "added"] /\ UNCHANGED shared
        BY <1>5 DEF Add, Goto
  <2>2. who[t] \in Conns \ shared => who[t] = t
        BY DEF Own, MInv, TypeOK
  <2>3. pc'[t] \in Past
        BY <2>1 DEF Past, MInv, TypeOK
  <2>4. \A i \in Slots : clients'[i].who \in {clients[i].who, who[t]}
        BY <2>1 DEF MInv, TypeOK
  <2> QED BY <1>1, <2>1, <2>2, <2>3, <2>4 DEF Entered
<1>6. ASSUME NEW c \in Conns, ClientStep(c) \/ Accept(c)
      PROVE  UNCHANGED clients
      BY <1>6 DEF ClientStep, Connect, SendHello, SayGoodbye, Die, Accept, array
<1>7. ASSUME NEW t \in Conns, ThreadStep(t), ~Shift(t), ~Add(t)
      PROVE  UNCHANGED clients
  <2>1. CASE ReadArg(t) \/ CheckLimit(t) \/ Call(t) \/ RecvTag(t) \/ RecvField(t) \/ Reject(t)
        BY <2>1 DEF ReadArg, CheckLimit, Call, RecvTag, RecvField, Reject, array
  <2>2. CASE ReplyOK(t) \/ SendCount(t) \/ Look(t) \/ SendField(t) \/ Added(t)
        BY <2>2 DEF ReplyOK, SendCount, Look, SendField, Added, array
  <2>3. CASE RecvMessage(t) \/ CloseSession(t) \/ FindEntry(t) \/ Removed(t)
        BY <2>3 DEF RecvMessage, CloseSession, FindEntry, Removed, array
  <2> QED BY <1>7, <2>1, <2>2, <2>3 DEF ThreadStep
<1> QED BY <1>3, <1>4, <1>5, <1>6, <1>7 DEF Next, AcceptFails, vars, array

(* A client is told of another by its own thread, from an entry that the    *)
(* other's thread has written.                                              *)
LEMMA Tells ==
    ASSUME MInv, Own, Entered, [Next]_vars,
           NEW c \in Conns \ shared, NEW d \in Conns \ shared, ToldOf(c, d)'
    PROVE  ToldOf(c, d) \/ (pc[c] = "entry" /\ pc[d] \in Past)
<1>1. CASE UNCHANGED out
      BY <1>1 DEF ToldOf
<1>2. ASSUME NEW t \in Conns, NEW reply \in Replies, NEW ret, Send(t, reply, ret),
             pc[t] \in {"reject", "ok", "count", "entry"}
      PROVE  ToldOf(c, d) \/ (c = t /\ reply.what = "field" /\ reply.val = d)
  <2>1. fd[t] \in Fds /\ pc[t] \in Active
        BY <1>2, HasFd DEF Active, PCs
  <2>2. file[fd[t]] = c => t = c
        BY <2>1 DEF Own
  <2>3. \A n \in DOMAIN out'[c] :
           \/ n \in DOMAIN out[c] /\ out'[c][n] = out[c][n]
           \/ out'[c][n] = reply /\ file[fd[t]] = c
        BY <1>2, <2>1, SendType DEF MInv
  <2> QED BY <2>2, <2>3 DEF ToldOf
<1>3. ASSUME NEW t \in Conns, Reject(t)
      PROVE  ToldOf(c, d)
  <2>1. PICK ret : Send(t, [what |-> "HELLO_ERROR"], ret) /\ pc[t] = "reject"
        BY <1>3 DEF Reject
  <2>2. [what |-> "HELLO_ERROR"] \in Replies
        BY DEF Replies
  <2> QED BY <2>1, <2>2, <1>2
<1>4. ASSUME NEW t \in Conns, ReplyOK(t)
      PROVE  ToldOf(c, d)
  <2>1. PICK ret : Send(t, [what |-> "HELLO_OK"], ret) /\ pc[t] = "ok"
        BY <1>4 DEF ReplyOK
  <2>2. [what |-> "HELLO_OK"] \in Replies
        BY DEF Replies
  <2> QED BY <2>1, <2>2, <1>2
<1>5. ASSUME NEW t \in Conns, SendCount(t)
      PROVE  ToldOf(c, d)
  <2> DEFINE reply == [what |-> "count", val |-> num_clients % 256]
  <2>1. PICK ret : Send(t, reply, ret) /\ pc[t] = "count"
        BY <1>5 DEF SendCount
  <2>2. reply \in Replies
    <3>1. num_clients % 256 \in 0 .. 255
          BY Sizes DEF MInv, TypeOK, N
    <3> QED BY <3>1 DEF Replies
  <2> QED BY <2>1, <2>2, <1>2
<1>6. ASSUME NEW t \in Conns, SendField(t)
      PROVE  ToldOf(c, d) \/ (pc[c] = "entry" /\ pc[d] \in Past)
  <2> DEFINE entry == clients[pos[t]]
             reply == [what |-> "field", val |-> entry.who]
  <2>1. PICK ret : Send(t, reply, ret) /\ pc[t] = "entry"
        BY <1>6 DEF SendField
  <2>2. pos[t] \in Slots /\ entry \in Entries
        BY DEF MInv, TypeOK
  <2>3. reply \in Replies
        BY <2>2 DEF Replies, Entries
  <2>4. entry.who = d => pc[d] \in Past
        BY <2>2 DEF Entered
  <2> QED BY <2>1, <2>3, <2>4, <1>2
<1>7. ASSUME NEW e \in Conns, ClientStep(e) \/ Accept(e)
      PROVE  UNCHANGED out
      BY <1>7 DEF ClientStep, Connect, SendHello, SayGoodbye, Die, Accept, kernel
<1>8. ASSUME NEW t \in Conns, ThreadStep(t),
             ~Reject(t), ~ReplyOK(t), ~SendCount(t), ~SendField(t)
      PROVE  UNCHANGED out
  <2>1. CASE ReadArg(t) \/ CheckLimit(t) \/ Call(t) \/ RecvTag(t) \/ RecvField(t) \/ Look(t)
        BY <2>1 DEF ReadArg, CheckLimit, Call, RecvTag, RecvField, Look, kernel
  <2>2. CASE Add(t) \/ Added(t) \/ RecvMessage(t)
        BY <2>2 DEF Add, Added, RecvMessage, kernel
  <2>3. CASE CloseSession(t) \/ FindEntry(t) \/ Shift(t) \/ Removed(t)
        BY <2>3 DEF CloseSession, FindEntry, Shift, Removed, kernel
  <2> QED BY <1>8, <2>1, <2>2, <2>3 DEF ThreadStep
<1> QED BY <1>1, <1>3, <1>4, <1>5, <1>6, <1>7, <1>8 DEF Next, AcceptFails, vars, kernel

LEMMA OInit == Init => OInv
<1> SUFFICES ASSUME Init PROVE OInv
    OBVIOUS
<1>1. Own /\ Entered
      BY Sizes DEF Init, Own, Entered, Active
<1>2. \A c, d \in Conns : ~ToldOf(c, d)
      BY DEF Init, ToldOf
<1> QED BY <1>1, <1>2 DEF OInv, Told, OneDials

LEMMA ONext == MInv /\ OInv /\ [Next]_vars => OInv'
<1> SUFFICES ASSUME MInv, OInv, [Next]_vars PROVE OInv'
    OBVIOUS
<1>1. Own' /\ Entered'
      BY OwnStep, EnteredStep DEF OInv
<1>2. /\ shared \subseteq shared'
      /\ \A u \in Conns : /\ pc[u] \in Past => pc'[u] \in Past
                          /\ pc[u] \in Listed => pc'[u] \in Listed
      BY Onward
<1>3. \A c, d \in Conns \ shared' :
         ToldOf(c, d)' => ToldOf(c, d) \/ (pc[c] = "entry" /\ pc[d] \in Past)
      BY <1>2, Tells DEF OInv
<1>4. "entry" \in Listed \ Past
      BY DEF Listed, Past
<1>5. Told'
      BY <1>2, <1>3, <1>4 DEF OInv, Told
<1>6. OneDials'
  <2> SUFFICES ASSUME NEW c \in Conns \ shared', NEW d \in Conns \ shared', ToldOf(c, d)'
               PROVE  c # d /\ ~ToldOf(d, c)'
      BY DEF OneDials
  <2>1. c \in Conns \ shared /\ d \in Conns \ shared
        BY <1>2
  <2>2. CASE ToldOf(c, d)
        BY <1>3, <1>4, <2>1, <2>2 DEF OInv, Told, OneDials
  <2>3. CASE pc[c] = "entry" /\ pc[d] \in Past
        BY <1>3, <1>4, <2>1, <2>3 DEF OInv, Told
  <2> QED BY <1>3, <2>2, <2>3
<1> QED BY <1>1, <1>5, <1>6 DEF OInv

(* Of two clients whose descriptors nobody else has used at most one is     *)
(* told of the other, however registering, listing and leaving overlap.     *)
THEOREM OneDialsCorrect == Spec => []OneDials
<1>1. OInv => OneDials
      BY DEF OInv
<1>2. Spec => []OInv
      BY MInvariant, OInit, ONext, PTL DEF Spec
<1> QED BY <1>1, <1>2, PTL
=============================================================================
