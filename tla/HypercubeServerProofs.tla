----------------------- MODULE HypercubeServerProofs -----------------------
(***************************************************************************)
(* Proofs about HypercubeServer, for every number of connections, of slots  *)
(* and of bits.                                                             *)
(***************************************************************************)
EXTENDS HypercubeServer, Counting

(* A thread has the descriptor that confd named when it read it, and main   *)
(* has accepted something before a thread reads it.                         *)
Served ==
    \A t \in Conns :
        /\ pc[t] # "none" => confd # NoFd
        /\ pc[t] \notin {"none", "start"} => sock[t] \in Fds

(* A connection is open on one descriptor at most, and on none before its   *)
(* thread was started.                                                      *)
Kernel ==
    /\ \A f \in Fds : file[f] # NoConn => pc[file[f]] # "none"
    /\ \A f, g \in Fds : file[f] = file[g] /\ file[f] # NoConn => f = g

(* The loops over fields and neighbours stay within their bounds.           *)
InBounds ==
    \A t \in Conns :
        /\ pc[t] = "fields" => left[t] # 0
        /\ pc[t] \in {"count", "list"} => left[t] <= MAX_NEIGHBORS

(* num_clients never becomes positive, so minID stays 0, and so do maxID,   *)
(* every ID handed out and the only slot ever used.                         *)
AllZero ==
    /\ num_clients <= 0 /\ minID = 0 /\ maxID = 0
    /\ \A t \in Conns : id[t] = 0 /\ found[t] = 0
    /\ \A i \in Slots : occupied[i] => i = 0

(* What the clients are sent: IDs and counts of 0, and never a neighbour    *)
(* nor the order to relocate.                                               *)
AllStrangers ==
    \A c \in Conns : \A n \in DOMAIN out[c] :
        /\ out[c][n].what \notin {"neighbor", "RECONNECT"}
        /\ out[c][n].what \in {"id", "count"} => out[c][n].val = 0

SInv == TypeOK /\ Served /\ Kernel /\ InBounds /\ AllZero /\ AllStrangers

-----------------------------------------------------------------------------

Harmless(r) ==
    /\ r \in Replies
    /\ r.what \notin {"neighbor", "RECONNECT"}
    /\ r.what \in {"id", "count"} => r.val = 0

(* Sending a reply that names no neighbour tells nobody of one.             *)
LEMMA SendHarmless ==
    ASSUME TypeOK, AllStrangers, NEW f \in Fds \cup {NoFd}, NEW r, Harmless(r), NEW ret,
           Send(f, r, ret)
    PROVE  /\ out' \in [Conns -> Seq(Replies)]
           /\ AllStrangers'
<1>1. CASE UNCHANGED out
      BY <1>1 DEF TypeOK, AllStrangers
<1> DEFINE c == file[f]
<1>2. CASE f # NoFd /\ c # NoConn /\ out' = [out EXCEPT ![c] = Append(@, r)]
  <2>1. c \in Conns /\ r \in Replies /\ out \in [Conns -> Seq(Replies)]
        BY <1>2 DEF TypeOK, Harmless
  <2>2. out' \in [Conns -> Seq(Replies)]
        BY <1>2, <2>1
  <2>3. ASSUME NEW d \in Conns, NEW n \in DOMAIN out'[d]
        PROVE  out'[d][n] = r \/ (n \in DOMAIN out[d] /\ out'[d][n] = out[d][n])
        BY <1>2, <2>1, <2>3
  <2> QED BY <2>2, <2>3 DEF AllStrangers, Harmless
<1> QED BY <1>1, <1>2 DEF Send

(* What is left to read keeps its type.                                     *)
LEMMA RecvType ==
    ASSUME TypeOK, NEW t \in Conns, NEW unit, NEW ret, Recv(t, unit, ret)
    PROVE  in' \in [Conns -> Seq(Units)] /\ at' \in [Conns -> Conns \cup {NoConn}]
<1>1. at' \in [Conns -> Conns \cup {NoConn}]
      BY DEF Recv, TypeOK
<1>2. CASE UNCHANGED in
      BY <1>1, <1>2 DEF TypeOK
<1>3. CASE at[t] # NoConn /\ in[at[t]] # <<>> /\ in' = [in EXCEPT ![at[t]] = Tail(@)]
  <2>1. at[t] \in Conns /\ in[at[t]] \in Seq(Units)
        BY <1>3 DEF TypeOK
  <2>2. Tail(in[at[t]]) \in Seq(Units)
        BY <1>3, <2>1
  <2> QED BY <1>1, <1>3, <2>2 DEF TypeOK
<1> QED BY <1>2, <1>3 DEF Recv

(* A step of one thread changes the pc of that thread only.                 *)
LEMMA GotoType ==
    ASSUME TypeOK, NEW t \in Conns, NEW label \in PCs, Goto(t, label)
    PROVE  /\ pc' \in [Conns -> PCs]
           /\ \A u \in Conns : pc'[u] = IF u = t THEN label ELSE pc[u]
BY DEF TypeOK, Goto

(* Nothing is opened, and no thread starts over.                            *)
LEMMA KernelStep ==
    ASSUME TypeOK, Kernel, UNCHANGED file \/ (\E t \in Conns : sock[t] \in Fds /\ Close(t)),
           \A u \in Conns : pc'[u] = "none" => pc[u] = "none"
    PROVE  Kernel' /\ file' \in [Fds -> Conns \cup {NoConn}]
<1>1. file' \in [Fds -> Conns \cup {NoConn}] /\ \A f \in Fds : file'[f] \in {NoConn, file[f]}
      BY DEF Close, TypeOK
<1>2. NoConn \notin Conns /\ \A f \in Fds : file'[f] # NoConn => file[f] \in Conns
      BY <1>1, ServerAssumption DEF TypeOK
<1> QED BY <1>1, <1>2 DEF Kernel

(* 0 is no descriptor of a connection.                                      *)
LEMMA NoFdType == NoFd \notin Fds
BY DEF NoFd, Fds

(* There is a free descriptor for a connection that has not been accepted,  *)
(* and accept() takes one.                                                  *)
LEMMA FreeFd ==
    ASSUME TypeOK, Kernel, NEW c \in Conns, pc[c] = "none"
    PROVE  LET f == CHOOSE g \in FreeFds : \A h \in FreeFds : g <= h
           IN  f \in Fds /\ file[f] = NoConn
<1>1. \A f \in DOMAIN file : file[f] # c
      BY ServerAssumption DEF TypeOK, Kernel
<1>2. \E f \in DOMAIN file : file[f] = NoConn
  <2>1. file \in [1 .. Cardinality(Conns) -> Conns \cup {NoConn}]
        BY DEF TypeOK, Fds
  <2>2. \A f, g \in DOMAIN file : file[f] = file[g] /\ file[f] # NoConn => f = g
        BY <2>1 DEF Kernel, Fds
  <2>3. IsFiniteSet(Conns) /\ NoConn \notin Conns
        BY ServerAssumption
  <2> QED BY <1>1, <2>1, <2>2, <2>3, FreePlace
<1>3. Cardinality(Conns) \in Nat
      BY ServerAssumption, FS_CardinalityType
<1>4. FreeFds # {} /\ FreeFds \in SUBSET Nat
  <2>1. DOMAIN file = Fds /\ Fds \in SUBSET Nat
        BY <1>3 DEF TypeOK, Fds
  <2> QED BY <1>2, <2>1 DEF FreeFds
<1>5. \E g \in FreeFds : \A h \in FreeFds : g <= h
      BY <1>4, LeastExists
<1> QED BY <1>5 DEF FreeFds

(* The neighbours of ID 0 are the powers of two, never 0 itself.            *)
LEMMA FlipZero ==
    ASSUME NEW b \in Bits
    PROVE  Flip(0, b) \in Slots /\ Flip(0, b) # 0
<1> DEFINE w == 2^b
<1>1. w \in 1 .. MAX_CLIENTS - 1 /\ MAX_CLIENTS \in Nat
      BY ServerAssumption
<1> HIDE DEF w
<1>2. (0 \div w) % 2 = 0
      BY <1>1
<1>3. Flip(0, b) = w
      BY <1>1, <1>2 DEF Flip, w
<1> QED BY <1>1, <1>3 DEF Slots

(* While every ID is 0 and there is at most slot 0 occupied, the slot of a  *)
(* neighbour is empty.                                                      *)
LEMMA LookedAt ==
    ASSUME SInv, NEW t \in Conns, pc[t] \in {"count", "list"}, left[t] > 0
    PROVE  ~occupied[Looked(t)]
<1>1. MAX_NEIGHBORS - left[t] \in Bits
      BY ServerAssumption DEF SInv, InBounds, TypeOK, Bits
<1> QED BY <1>1, FlipZero DEF SInv, AllZero, Looked

(* The inductive invariant holds initially.                                 *)
LEMMA SInit == Init => SInv
<1> SUFFICES ASSUME Init PROVE SInv
    OBVIOUS
<1>1. TypeOK
      BY ServerAssumption DEF Init, TypeOK, PCs, Receiving, Clients, Slots, Units, Replies
<1> QED BY <1>1 DEF Init, SInv, Served, Kernel, InBounds, AllZero, AllStrangers

-----------------------------------------------------------------------------
(* Steps *)

(* A step that leaves the map, the IDs and what was sent alone.             *)
LEMMA QuietStep ==
    ASSUME SInv, UNCHANGED <<map, id, found, out>>
    PROVE  /\ AllZero' /\ AllStrangers'
           /\ occupied' \in [Slots -> BOOLEAN] /\ mapSock' \in [Slots -> Fds \cup {NoFd}]
           /\ minID' \in Slots /\ maxID' \in Slots /\ num_clients' \in Int
           /\ id' \in [Conns -> Slots] /\ found' \in [Conns -> Nat] /\ out' \in [Conns -> Seq(Replies)]
BY DEF SInv, TypeOK, AllZero, AllStrangers, map

(* The clients and main.                                                    *)
LEMMA ClientStepInv ==
    ASSUME SInv, NEW c \in Conns, ClientStep(c) \/ Accept(c)
    PROVE  SInv'
<1>1. CASE Connect(c)
  <2>1. TypeOK'
        BY <1>1 DEF SInv, TypeOK, Connect, kernel, locals, map, Clients
  <2> QED BY <1>1, <2>1, QuietStep
             DEF SInv, Served, Kernel, InBounds, Connect, kernel, locals, map
<1>2. CASE SendHello(c)
  <2>1. in[c] \in Seq(Units) /\ {"HELLO_MSG", "field"} \subseteq Units
        BY DEF SInv, TypeOK, Units, Tags
  <2>2. hello[c] + 1 \in 0 .. FIELDS + 1
        BY <1>2, ServerAssumption DEF SInv, TypeOK, SendHello
  <2>3. TypeOK'
        BY <1>2, <2>1, <2>2 DEF SInv, TypeOK, SendHello, locals, map
  <2> QED BY <1>2, <2>3, QuietStep DEF SInv, Served, Kernel, InBounds, SendHello, locals, map
<1>3. CASE SayGoodbye(c)
  <2>1. in[c] \in Seq(Units) /\ {"QUIT", "RECONNECT"} \subseteq Units
        BY DEF SInv, TypeOK, Units, Tags
  <2>2. TypeOK'
        BY <1>3, <2>1 DEF SInv, TypeOK, SayGoodbye, locals, map, Clients
  <2> QED BY <1>3, <2>2, QuietStep DEF SInv, Served, Kernel, InBounds, SayGoodbye, locals, map
<1>4. CASE Die(c)
  <2>1. TypeOK'
        BY <1>4 DEF SInv, TypeOK, Die, kernel, locals, map, Clients
  <2> QED BY <1>4, <2>1, QuietStep DEF SInv, Served, Kernel, InBounds, Die, kernel, locals, map
<1>5. CASE Accept(c)
  <2>1. /\ pc' \in [Conns -> PCs]
        /\ \A u \in Conns : pc'[u] = IF u = c THEN "start" ELSE pc[u]
        BY <1>5, GotoType DEF SInv, Accept, PCs
  <2>2. confd' \in Fds /\ file[confd'] = NoConn
        BY <1>5, FreeFd DEF SInv, Accept
  <2>3. file' \in [Fds -> Conns \cup {NoConn}] /\ shared' \in SUBSET Conns
        BY <1>5, <2>2 DEF SInv, TypeOK, Accept
  <2>4. TypeOK'
        BY <1>5, <2>1, <2>2, <2>3 DEF SInv, TypeOK, Accept, env, locals, map
  <2>5. Served'
        BY <1>5, <2>1, <2>2, NoFdType DEF SInv, Served, Accept, locals
  <2>6. Kernel'
    <3>1. \A f \in Fds : file'[f] = IF f = confd' THEN c ELSE file[f]
          BY <1>5, <2>2 DEF SInv, TypeOK, Accept
    <3>2. \A f \in Fds : file[f] # c
          BY <1>5, ServerAssumption DEF SInv, Kernel, Accept
    <3>3. ASSUME NEW f \in Fds, file'[f] # NoConn PROVE pc'[file'[f]] # "none"
      <4>1. CASE f = confd'
            BY <2>1, <3>1, <4>1
      <4>2. CASE f # confd'
        <5>1. file'[f] = file[f] /\ file[f] \in Conns
              BY <3>1, <3>3, <4>2 DEF SInv, TypeOK
        <5>2. pc[file[f]] # "none"
              BY <3>3, <5>1 DEF SInv, Kernel
        <5> QED BY <2>1, <5>1, <5>2
      <4> QED BY <4>1, <4>2
    <3>4. ASSUME NEW f \in Fds, NEW g \in Fds, file'[f] = file'[g], file'[f] # NoConn
          PROVE  f = g
          BY <3>1, <3>2, <3>4 DEF SInv, Kernel
    <3> QED BY <3>3, <3>4 DEF Kernel
  <2> QED BY <1>5, <2>1, <2>4, <2>5, <2>6, QuietStep DEF SInv, InBounds, Accept, locals, map
<1> QED BY <1>1, <1>2, <1>3, <1>4, <1>5 DEF ClientStep

(* A failing accept() ends the process.                                     *)
LEMMA AcceptFailsInv == SInv /\ AcceptFails => SInv'
<1> SUFFICES ASSUME SInv, AcceptFails PROVE SInv'
    OBVIOUS
<1>1. TypeOK'
      BY DEF SInv, TypeOK, AcceptFails, env, locals, map
<1> QED BY <1>1, QuietStep
           DEF SInv, Served, Kernel, InBounds, AcceptFails, Failed, NoFd, locals, map

(* The steps of a thread up to the registration of its client.              *)
LEMMA HelloStepInv ==
    ASSUME SInv, Running, NEW t \in Conns,
           ReadArg(t) \/ CheckLimit(t) \/ Call(t) \/ RecvTag(t) \/ RecvField(t)
    PROVE  SInv'
<1>1. CASE ReadArg(t)
  <2>1. /\ pc' \in [Conns -> PCs]
        /\ \A u \in Conns : pc'[u] = IF u = t THEN "limit" ELSE pc[u]
        BY <1>1, GotoType DEF SInv, ReadArg, PCs
  <2>2. confd \in Fds
        BY <1>1 DEF SInv, TypeOK, Served, ReadArg, Running
  <2>3. shared' \in SUBSET Conns
        BY <1>1, <2>2 DEF SInv, TypeOK, ReadArg
  <2>4. TypeOK'
        BY <1>1, <2>1, <2>2, <2>3 DEF SInv, TypeOK, ReadArg, env, kernel, map
  <2>5. \A u \in Conns : sock'[u] = IF u = t THEN confd ELSE sock[u]
        BY <1>1 DEF SInv, TypeOK, ReadArg
  <2>6. Kernel'
        BY <1>1, <2>1, KernelStep DEF SInv, ReadArg, kernel
  <2> QED BY <1>1, <2>1, <2>2, <2>4, <2>5, <2>6, QuietStep
             DEF SInv, Served, InBounds, ReadArg, env, kernel, map
<1>2. CASE CheckLimit(t)
  <2>1. /\ pc' \in [Conns -> PCs]
        /\ \A u \in Conns : u # t => pc'[u] = pc[u]
        /\ pc'[t] \in {"reject", "tag"}
        BY <1>2, GotoType DEF SInv, CheckLimit, PCs, Receiving
  <2>2. TypeOK'
        BY <1>2, <2>1 DEF SInv, TypeOK, CheckLimit, env, kernel, locals, map
  <2>3. Kernel'
        BY <1>2, <2>1, KernelStep DEF SInv, CheckLimit, kernel
  <2> QED BY <1>2, <2>1, <2>2, <2>3, QuietStep
             DEF SInv, Served, InBounds, CheckLimit, env, kernel, locals, map
<1>3. CASE Call(t)
  <2>1. sock[t] \in Fds
        BY <1>3 DEF SInv, Served, Call, Receiving
  <2>2. at' \in [Conns -> Conns \cup {NoConn}]
        BY <1>3, <2>1 DEF SInv, TypeOK, Call
  <2>3. TypeOK'
        BY <1>3, <2>2 DEF SInv, TypeOK, Call, env, kernel, map
  <2> QED BY <1>3, <2>3, QuietStep DEF SInv, Served, Kernel, InBounds, Call, env, kernel, map
<1>4. CASE RecvTag(t) \/ RecvField(t)
  <2>1. pc[t] \in {"tag", "fields"}
        BY <1>4 DEF RecvTag, RecvField
  <2>2. in' \in [Conns -> Seq(Units)] /\ at' \in [Conns -> Conns \cup {NoConn}]
        BY <1>4, RecvType DEF SInv, RecvTag, RecvField
  <2>3. /\ pc' \in [Conns -> PCs]
        /\ \A u \in Conns : u # t => pc'[u] = pc[u]
        /\ pc'[t] \in {"reject", "close", "fields", "ok"}
    <3>1. PICK label \in {"reject", "close", "fields", "ok"} : Goto(t, label)
          BY <1>4 DEF RecvTag, RecvField
    <3>2. label \in PCs
          BY DEF PCs, Receiving
    <3> QED BY <3>1, <3>2, GotoType DEF SInv
  <2>4. /\ left' \in [Conns -> Nat]
        /\ \A u \in Conns : u # t => left'[u] = left[u]
        /\ pc'[t] = "fields" => left'[t] # 0
    <3>1. left[t] \in Nat /\ FIELDS \in Nat \ {0} /\ (pc[t] = "fields" => left[t] # 0)
          BY ServerAssumption DEF SInv, TypeOK, InBounds
    <3>2. \/ left' = left /\ pc'[t] # "fields"
          \/ left' = [left EXCEPT ![t] = FIELDS]
          \/ /\ pc[t] = "fields" /\ left' = [left EXCEPT ![t] = @ - 1]
             /\ pc' = [pc EXCEPT ![t] = IF left[t] = 1 THEN "ok" ELSE "fields"]
      <4>1. pc \in [Conns -> PCs]
            BY DEF SInv, TypeOK
      <4>2. CASE RecvTag(t)
            BY <4>1, <4>2 DEF RecvTag, Goto
      <4>3. CASE RecvField(t)
            BY <4>1, <4>3 DEF RecvField, Goto
      <4> QED BY <1>4, <4>2, <4>3
    <3>3. left \in [Conns -> Nat] /\ pc \in [Conns -> PCs]
          BY DEF SInv, TypeOK
    <3> QED BY <3>1, <3>2, <3>3
  <2>5. UNCHANGED <<client, hello, out, file, confd, sock, id, found, check_tag, map, shared>>
        BY <1>4 DEF RecvTag, RecvField, env
  <2>6. TypeOK'
        BY <2>2, <2>3, <2>4, <2>5 DEF SInv, TypeOK, map
  <2>7. Kernel'
        BY <2>1, <2>3, <2>5, KernelStep DEF SInv
  <2>8. Served' /\ InBounds'
        BY <2>1, <2>3, <2>4, <2>5 DEF SInv, Served, InBounds
  <2> QED BY <2>5, <2>6, <2>7, <2>8, QuietStep DEF SInv
<1> QED BY <1>1, <1>2, <1>3, <1>4

(* A step that leaves the map and the IDs alone and sends, if anything, one *)
(* harmless reply.                                                          *)
LEMMA SendingStep ==
    ASSUME SInv, UNCHANGED <<map, id, found>>,
           NEW f \in Fds \cup {NoFd}, NEW r, Harmless(r), NEW ret, Send(f, r, ret)
    PROVE  /\ AllZero' /\ AllStrangers'
           /\ occupied' \in [Slots -> BOOLEAN] /\ mapSock' \in [Slots -> Fds \cup {NoFd}]
           /\ minID' \in Slots /\ maxID' \in Slots /\ num_clients' \in Int
           /\ id' \in [Conns -> Slots] /\ found' \in [Conns -> Nat] /\ out' \in [Conns -> Seq(Replies)]
<1>1. AllStrangers' /\ out' \in [Conns -> Seq(Replies)]
      BY SendHarmless DEF SInv
<1> QED BY <1>1 DEF SInv, TypeOK, AllZero, map

(* The replies to a HELLO.                                                  *)
LEMMA ReplyStepInv ==
    ASSUME SInv, NEW t \in Conns, Reject(t) \/ ReplyOK(t)
    PROVE  SInv'
<1>1. sock[t] \in Fds \cup {NoFd}
      BY DEF SInv, TypeOK
<1>2. CASE Reject(t)
  <2>1. /\ pc' \in [Conns -> PCs]
        /\ \A u \in Conns : pc'[u] = IF u = t THEN "close" ELSE pc[u]
        BY <1>2, GotoType DEF SInv, Reject, PCs
  <2>2. Harmless([what |-> "HELLO_ERROR"])
        BY DEF Harmless, Replies
  <2>3. PICK ret \in {1, -1} : Send(sock[t], [what |-> "HELLO_ERROR"], ret)
        BY <1>2 DEF Reject
  <2>4. UNCHANGED <<client, hello, in, file, confd, sock, at, id, left, found, check_tag, map, shared>>
        BY <1>2 DEF Reject, env, locals
  <2>5. /\ AllZero' /\ AllStrangers'
        /\ occupied' \in [Slots -> BOOLEAN] /\ mapSock' \in [Slots -> Fds \cup {NoFd}]
        /\ minID' \in Slots /\ maxID' \in Slots /\ num_clients' \in Int
        /\ id' \in [Conns -> Slots] /\ found' \in [Conns -> Nat] /\ out' \in [Conns -> Seq(Replies)]
        BY <1>1, <2>2, <2>3, <2>4, SendingStep
  <2>6. TypeOK'
        BY <2>1, <2>4, <2>5 DEF SInv, TypeOK
  <2>7. pc[t] \notin {"none", "start"}
        BY <1>2 DEF Reject
  <2>8. Kernel'
        BY <2>1, <2>4, KernelStep DEF SInv
  <2> QED BY <2>1, <2>4, <2>5, <2>6, <2>7, <2>8 DEF SInv, Served, InBounds
<1>3. CASE ReplyOK(t)
  <2>1. /\ pc' \in [Conns -> PCs]
        /\ \A u \in Conns : pc'[u] = IF u = t THEN "register" ELSE pc[u]
        BY <1>3, GotoType DEF SInv, ReplyOK, PCs
  <2>2. Harmless([what |-> "HELLO_OK"])
        BY DEF Harmless, Replies
  <2>3. PICK ret \in {1, -1} : Send(sock[t], [what |-> "HELLO_OK"], ret)
        BY <1>3 DEF ReplyOK
  <2>4. UNCHANGED <<client, hello, in, file, confd, sock, at, id, left, found, check_tag, map, shared>>
        BY <1>3 DEF ReplyOK, env, locals
  <2>5. /\ AllZero' /\ AllStrangers'
        /\ occupied' \in [Slots -> BOOLEAN] /\ mapSock' \in [Slots -> Fds \cup {NoFd}]
        /\ minID' \in Slots /\ maxID' \in Slots /\ num_clients' \in Int
        /\ id' \in [Conns -> Slots] /\ found' \in [Conns -> Nat] /\ out' \in [Conns -> Seq(Replies)]
        BY <1>1, <2>2, <2>3, <2>4, SendingStep
  <2>6. TypeOK'
        BY <2>1, <2>4, <2>5 DEF SInv, TypeOK
  <2>7. pc[t] \notin {"none", "start"}
        BY <1>3 DEF ReplyOK
  <2>8. Kernel'
        BY <2>1, <2>4, KernelStep DEF SInv
  <2> QED BY <2>1, <2>4, <2>5, <2>6, <2>7, <2>8 DEF SInv, Served, InBounds
<1> QED BY <1>2, <1>3

(* A thread closes its descriptor.                                          *)
LEMMA CloseInv ==
    ASSUME SInv, NEW t \in Conns, Refuse(t) \/ HangUp(t) \/ CloseSession(t)
    PROVE  SInv'
<1>1. /\ pc' \in [Conns -> PCs]
      /\ \A u \in Conns : u # t => pc'[u] = pc[u]
      /\ pc'[t] \in {"refused", "gone", "remove", "repair"}
  <2>1. PICK label \in {"refused", "gone", "remove", "repair"} : Goto(t, label)
        BY DEF Refuse, HangUp, CloseSession
  <2>2. label \in PCs
        BY DEF PCs
  <2> QED BY <2>1, <2>2, GotoType DEF SInv
<1>2. /\ pc[t] \notin {"none", "start"}
      /\ Close(t)
      /\ UNCHANGED <<client, hello, in, out, confd, sock, at, id, left, found, check_tag, map, shared>>
      BY DEF Refuse, HangUp, CloseSession, env, locals
<1>3. sock[t] \in Fds
      BY <1>2 DEF SInv, Served
<1>4. Kernel' /\ file' \in [Fds -> Conns \cup {NoConn}]
      BY <1>1, <1>2, <1>3, KernelStep DEF SInv
<1>5. TypeOK'
      BY <1>1, <1>2, <1>4, QuietStep DEF SInv, TypeOK
<1>6. Served' /\ InBounds'
      BY <1>1, <1>2 DEF SInv, Served, InBounds
<1> QED BY <1>2, <1>4, <1>5, <1>6, QuietStep DEF SInv

(* addClient gives the client ID 0, and slot 0.                             *)
LEMMA RegisterInv ==
    ASSUME SInv, NEW t \in Conns, Register(t)
    PROVE  SInv'
<1>1. /\ pc' \in [Conns -> PCs]
      /\ \A u \in Conns : pc'[u] = IF u = t THEN "id" ELSE pc[u]
      BY GotoType DEF SInv, Register, PCs
<1>2. 0 \in Slots /\ minID = 0 /\ maxID = 0 /\ num_clients <= 0 /\ num_clients \in Int
      BY DEF SInv, TypeOK, AllZero
<1>3. sock[t] \in Fds
      BY DEF SInv, Served, Register
<1>4. {i \in Slots : i < num_clients /\ ~occupied'[i]} = {}
      BY <1>2 DEF Slots
<1>5. minID' = 0
  <2>1. UpdateMINID(occupied')
        BY DEF Register
  <2> QED BY <1>2, <1>4, <2>1 DEF UpdateMINID
<1>6. maxID' = 0
      BY <1>2 DEF Register
<1>7. /\ occupied' \in [Slots -> BOOLEAN]
      /\ \A i \in Slots : occupied'[i] => occupied[i] \/ i = 0
      BY <1>2 DEF SInv, TypeOK, Register
<1>8. id' \in [Conns -> Slots] /\ \A u \in Conns : id'[u] = IF u = t THEN 0 ELSE id[u]
      BY <1>2 DEF SInv, TypeOK, Register
<1>9. mapSock' \in [Slots -> Fds \cup {NoFd}]
      BY <1>2, <1>3 DEF SInv, TypeOK, Register
<1>10. UNCHANGED <<client, hello, in, out, file, confd, sock, at, left, found, check_tag,
                   num_clients, shared>>
      BY DEF Register, env, kernel
<1>11. TypeOK'
      BY <1>1, <1>2, <1>5, <1>6, <1>7, <1>8, <1>9, <1>10 DEF SInv, TypeOK
<1>12. AllZero'
      BY <1>2, <1>5, <1>6, <1>7, <1>8, <1>10 DEF SInv, AllZero
<1>13. AllStrangers'
      BY <1>10 DEF SInv, AllStrangers
<1>14. Served' /\ InBounds'
      BY <1>1, <1>10 DEF SInv, Served, InBounds, Register
<1>15. Kernel'
      BY <1>1, <1>10, KernelStep DEF SInv
<1> QED BY <1>11, <1>12, <1>13, <1>14, <1>15 DEF SInv

(* Without occupied slots other than 0, removing client 0 leaves maxID at 0.*)
LEMMA RemoveZero ==
    ASSUME SInv, NEW t \in Conns
    PROVE  /\ id[t] = 0 /\ 0 \in Slots
           /\ MaxAfterRemoving(id[t]) = 0
           /\ LastOccupied([occupied EXCEPT ![id[t]] = FALSE], 0) = 0
<1>1. id[t] = 0 /\ maxID = 0 /\ 0 \in Slots
      BY DEF SInv, TypeOK, AllZero
<1>2. LastOccupied([occupied EXCEPT ![id[t]] = FALSE], 0) = 0
  <2>1. {i \in Slots : i < 0 /\ [occupied EXCEPT ![id[t]] = FALSE][i]} = {}
        BY DEF Slots
  <2> QED BY <2>1 DEF LastOccupied
<1> QED BY <1>1, <1>2 DEF MaxAfterRemoving

(* removeClient empties slot 0, the only one in use.                        *)
LEMMA RemoveInv ==
    ASSUME SInv, NEW t \in Conns, RemoveClient(id[t]), maxID' = 0, UNCHANGED <<id, found>>
    PROVE  /\ AllZero'
           /\ occupied' = [i \in Slots |-> FALSE]
           /\ mapSock' \in [Slots -> Fds \cup {NoFd}]
           /\ minID' \in Slots /\ maxID' \in Slots /\ num_clients' \in Int
<1>1. id[t] = 0 /\ 0 \in Slots
      BY RemoveZero
<1>2. occupied' = [i \in Slots |-> FALSE]
      BY <1>1 DEF SInv, TypeOK, AllZero, RemoveClient
<1>3. minID' = 0 /\ num_clients' <= 0 /\ num_clients' \in Int
      BY <1>1 DEF SInv, TypeOK, AllZero, RemoveClient
<1> QED BY <1>1, <1>2, <1>3 DEF SInv, TypeOK, AllZero, RemoveClient

(* socketCheck in mode 2.                                                   *)
LEMMA DropInv ==
    ASSUME SInv, NEW t \in Conns, Drop(t)
    PROVE  SInv' /\ occupied' = [i \in Slots |-> FALSE]
<1>1. /\ pc' \in [Conns -> PCs]
      /\ \A u \in Conns : pc'[u] = IF u = t THEN "hangup" ELSE pc[u]
      BY GotoType DEF SInv, Drop, PCs
<1>2. UNCHANGED <<client, hello, in, out, file, confd, sock, at, id, left, found, check_tag, shared>>
      BY DEF Drop, env, kernel, locals
<1>3. RemoveClient(id[t]) /\ maxID' = 0
      BY RemoveZero DEF Drop
<1>4. /\ AllZero'
      /\ occupied' = [i \in Slots |-> FALSE]
      /\ mapSock' \in [Slots -> Fds \cup {NoFd}]
      /\ minID' \in Slots /\ maxID' \in Slots /\ num_clients' \in Int
      BY <1>2, <1>3, RemoveInv
<1>5. TypeOK'
      BY <1>1, <1>2, <1>3, <1>4 DEF SInv, TypeOK
<1>6. pc[t] = "drop"
      BY DEF Drop
<1>7. Kernel'
      BY <1>1, <1>2, KernelStep DEF SInv
<1> QED BY <1>1, <1>2, <1>4, <1>5, <1>6, <1>7 DEF SInv, Served, InBounds, AllStrangers

(* The end of clientWrapper: repairTopology asks nobody to relocate.        *)
LEMMA RemoveAndRepairInv ==
    ASSUME SInv, NEW t \in Conns, RemoveAndRepair(t)
    PROVE  SInv' /\ occupied' = [i \in Slots |-> FALSE]
<1>1. /\ pc' \in [Conns -> PCs]
      /\ \A u \in Conns : pc'[u] = IF u = t THEN "gone" ELSE pc[u]
      BY GotoType DEF SInv, RemoveAndRepair, PCs
<1>2. id[t] = 0 /\ MaxAfterRemoving(id[t]) = 0
      BY RemoveZero
<1>3. maxID' = 0 /\ UNCHANGED out
      BY <1>2 DEF RemoveAndRepair
<1>4. UNCHANGED <<client, hello, in, file, confd, sock, at, id, left, found, check_tag, shared>>
      BY DEF RemoveAndRepair, env, locals
<1>5. /\ AllZero'
      /\ occupied' = [i \in Slots |-> FALSE]
      /\ mapSock' \in [Slots -> Fds \cup {NoFd}]
      /\ minID' \in Slots /\ maxID' \in Slots /\ num_clients' \in Int
  <2>1. RemoveClient(id[t])
        BY DEF RemoveAndRepair
  <2> QED BY <1>3, <1>4, <2>1, RemoveInv
<1>6. TypeOK'
      BY <1>1, <1>3, <1>4, <1>5 DEF SInv, TypeOK
<1>7. pc[t] \in {"remove", "repair"}
      BY DEF RemoveAndRepair
<1>8. Kernel'
      BY <1>1, <1>4, KernelStep DEF SInv
<1> QED BY <1>1, <1>3, <1>4, <1>5, <1>6, <1>7, <1>8 DEF SInv, Served, InBounds, AllStrangers

(* sendClients: it counts, and sends, no neighbour.                         *)
LEMMA SendClientsInv ==
    ASSUME SInv, NEW t \in Conns,
           CountNeighbor(t) \/ SendCount(t) \/ SendNeighbor(t) \/ ListDone(t)
    PROVE  SInv'
<1>1. left[t] \in Nat /\ found[t] = 0 /\ MAX_NEIGHBORS \in Nat /\ sock[t] \in Fds \cup {NoFd}
      BY ServerAssumption DEF SInv, TypeOK, AllZero
<1>2. CASE CountNeighbor(t) \/ SendNeighbor(t)
  <2>1. pc[t] \in {"count", "list"} /\ left[t] > 0
        BY <1>2 DEF CountNeighbor, SendNeighbor
  <2>2. ~occupied[Looked(t)]
        BY <2>1, LookedAt
  <2>3. /\ left' \in [Conns -> Nat]
        /\ \A u \in Conns : left'[u] = IF u = t THEN left[t] - 1 ELSE left[u]
    <3>1. left' = [left EXCEPT ![t] = @ - 1] /\ left \in [Conns -> Nat]
          BY <1>2 DEF SInv, TypeOK, CountNeighbor, SendNeighbor
    <3>2. left[t] - 1 \in Nat
          BY <1>1, <2>1
    <3> QED BY <3>1, <3>2
  <2>4. found' = found
        BY <1>2, <2>2 DEF SInv, TypeOK, CountNeighbor, SendNeighbor
  <2>5. UNCHANGED <<client, hello, in, out, file, confd, pc, sock, at, id, check_tag, map, shared>>
        BY <1>2, <2>2 DEF CountNeighbor, SendNeighbor, env, kernel
  <2>6. TypeOK'
        BY <2>3, <2>4, <2>5, QuietStep DEF SInv, TypeOK
  <2>7. Served' /\ InBounds'
    <3>1. Served'
          BY <2>5 DEF SInv, Served
    <3>2. ASSUME NEW u \in Conns
          PROVE  /\ pc[u] = "fields" => left'[u] # 0
                 /\ pc[u] \in {"count", "list"} => left'[u] <= MAX_NEIGHBORS
      <4>1. CASE u = t
            BY <1>1, <2>1, <2>3, <4>1 DEF SInv, InBounds
      <4>2. CASE u # t
            BY <2>3, <4>2 DEF SInv, InBounds
      <4> QED BY <4>1, <4>2
    <3> QED BY <2>5, <3>1, <3>2 DEF InBounds
  <2>8. Kernel'
        BY <2>5, KernelStep DEF SInv
  <2> QED BY <2>4, <2>5, <2>6, <2>7, <2>8, QuietStep DEF SInv
<1>3. CASE SendCount(t)
  <2>1. /\ pc' \in [Conns -> PCs]
        /\ \A u \in Conns : pc'[u] = IF u = t THEN "list" ELSE pc[u]
        BY <1>3, GotoType DEF SInv, SendCount, PCs
  <2>2. Harmless([what |-> "count", val |-> found[t]])
        BY <1>1 DEF Harmless, Replies
  <2>3. PICK ret \in {1, -1} : Send(sock[t], [what |-> "count", val |-> found[t]], ret)
        BY <1>3 DEF SendCount
  <2>4. UNCHANGED <<client, hello, in, file, confd, sock, at, id, found, check_tag, map, shared>>
        BY <1>3 DEF SendCount, env
  <2>5. /\ AllZero' /\ AllStrangers'
        /\ occupied' \in [Slots -> BOOLEAN] /\ mapSock' \in [Slots -> Fds \cup {NoFd}]
        /\ minID' \in Slots /\ maxID' \in Slots /\ num_clients' \in Int
        /\ id' \in [Conns -> Slots] /\ found' \in [Conns -> Nat] /\ out' \in [Conns -> Seq(Replies)]
        BY <1>1, <2>2, <2>3, <2>4, SendingStep
  <2>6. /\ left' \in [Conns -> Nat]
        /\ \A u \in Conns : left'[u] = IF u = t THEN MAX_NEIGHBORS ELSE left[u]
        BY <1>1, <1>3 DEF SInv, TypeOK, SendCount
  <2>7. TypeOK'
        BY <2>1, <2>4, <2>5, <2>6 DEF SInv, TypeOK
  <2>8. Served' /\ InBounds'
        BY <1>1, <1>3, <2>1, <2>4, <2>6 DEF SInv, Served, InBounds, SendCount
  <2>9. Kernel'
        BY <2>1, <2>4, KernelStep DEF SInv
  <2> QED BY <2>5, <2>7, <2>8, <2>9 DEF SInv
<1>4. CASE ListDone(t)
  <2>1. /\ pc' \in [Conns -> PCs]
        /\ \A u \in Conns : pc'[u] = IF u = t THEN "check" ELSE pc[u]
        BY <1>4, GotoType DEF SInv, ListDone, PCs, Receiving
  <2>2. UNCHANGED <<client, hello, in, out, file, confd, sock, at, id, left, found, check_tag, map, shared>>
        BY <1>4 DEF ListDone, env, kernel, locals
  <2>3. TypeOK'
        BY <2>1, <2>2, QuietStep DEF SInv, TypeOK
  <2>4. Served' /\ InBounds'
        BY <1>4, <2>1, <2>2 DEF SInv, Served, InBounds, ListDone
  <2>5. Kernel'
        BY <2>1, <2>2, KernelStep DEF SInv
  <2> QED BY <2>2, <2>3, <2>4, <2>5, QuietStep DEF SInv
<1> QED BY <1>2, <1>3, <1>4

(* The ID is sent, or the send fails.                                       *)
LEMMA SendIDInv ==
    ASSUME SInv, NEW t \in Conns, SendID(t)
    PROVE  SInv'
<1>1. PICK ret \in {1, -1} :
          /\ Send(sock[t], [what |-> "id", val |-> id[t]], ret)
          /\ Goto(t, IF ret = 1 THEN "count" ELSE "drop")
      BY DEF SendID
<1>2. /\ pc' \in [Conns -> PCs]
      /\ \A u \in Conns : u # t => pc'[u] = pc[u]
      /\ pc'[t] \in {"count", "drop"}
      BY <1>1, GotoType DEF SInv, PCs
<1>3. MAX_NEIGHBORS \in Nat /\ id[t] = 0 /\ sock[t] \in Fds \cup {NoFd}
      BY ServerAssumption DEF SInv, AllZero, TypeOK
<1>4. Harmless([what |-> "id", val |-> id[t]])
      BY <1>3 DEF Harmless, Replies
<1>5. found' = found
      BY DEF SInv, TypeOK, AllZero, SendID
<1>6. UNCHANGED <<client, hello, in, file, confd, sock, at, id, check_tag, map, shared>>
      BY DEF SendID, env
<1>7. /\ AllZero' /\ AllStrangers'
      /\ occupied' \in [Slots -> BOOLEAN] /\ mapSock' \in [Slots -> Fds \cup {NoFd}]
      /\ minID' \in Slots /\ maxID' \in Slots /\ num_clients' \in Int
      /\ id' \in [Conns -> Slots] /\ found' \in [Conns -> Nat] /\ out' \in [Conns -> Seq(Replies)]
      BY <1>1, <1>3, <1>4, <1>5, <1>6, SendingStep
<1>8. /\ left' \in [Conns -> Nat]
      /\ \A u \in Conns : left'[u] = IF u = t THEN MAX_NEIGHBORS ELSE left[u]
      BY <1>3 DEF SInv, TypeOK, SendID
<1>9. TypeOK'
      BY <1>2, <1>6, <1>7, <1>8 DEF SInv, TypeOK
<1>10. Served' /\ InBounds'
      BY <1>2, <1>3, <1>6, <1>8 DEF SInv, Served, InBounds, SendID
<1>11. Kernel'
      BY <1>2, <1>6, KernelStep DEF SInv, SendID
<1> QED BY <1>7, <1>9, <1>10, <1>11 DEF SInv

(* A tag, garbage or the end of the stream.                                 *)
LEMMA WatchInv ==
    ASSUME SInv, NEW t \in Conns, Watch(t)
    PROVE  SInv'
<1>1. PICK unit \in Units \cup {"none"}, ret \in {1, 0, -1} :
          /\ Recv(t, unit, ret)
          /\ \E tag \in Values(IF ret = 1 THEN unit ELSE check_tag[t]) :
                /\ check_tag' = [check_tag EXCEPT ![t] = tag]
                /\ Goto(t, "relocate") \/ Goto(t, "leave") \/ UNCHANGED pc
      BY DEF Watch
<1>2. /\ pc[t] = "check"
      /\ UNCHANGED <<client, hello, out, file, confd, sock, id, left, found, map, shared>>
      BY DEF Watch, env
<1>3. in' \in [Conns -> Seq(Units)] /\ at' \in [Conns -> Conns \cup {NoConn}]
      BY <1>1, RecvType DEF SInv
<1>4. Values(IF ret = 1 THEN unit ELSE check_tag[t]) \subseteq Tags
      BY <1>1 DEF SInv, TypeOK, Values, Units
<1>5. check_tag' \in [Conns -> Tags \cup {"none"}]
      BY <1>1, <1>4 DEF SInv, TypeOK
<1>6. /\ pc' \in [Conns -> PCs]
      /\ \A u \in Conns : u # t => pc'[u] = pc[u]
      /\ pc'[t] \in {"check", "relocate", "leave"}
  <2>1. CASE UNCHANGED pc
        BY <1>2, <2>1 DEF SInv, TypeOK
  <2>2. CASE Goto(t, "relocate")
        BY <2>2, GotoType DEF SInv, PCs
  <2>3. CASE Goto(t, "leave")
        BY <2>3, GotoType DEF SInv, PCs
  <2> QED BY <1>1, <2>1, <2>2, <2>3
<1>7. TypeOK'
      BY <1>2, <1>3, <1>5, <1>6, QuietStep DEF SInv, TypeOK
<1>8. Kernel'
      BY <1>2, <1>6, KernelStep DEF SInv
<1>9. Served' /\ InBounds'
      BY <1>2, <1>6 DEF SInv, Served, InBounds
<1> QED BY <1>2, <1>7, <1>8, <1>9, QuietStep DEF SInv

(* Every step preserves the inductive invariant.                            *)
LEMMA SStep == SInv /\ [Next]_vars => SInv'
<1> SUFFICES ASSUME SInv, [Next]_vars PROVE SInv'
    OBVIOUS
<1>1. ASSUME NEW c \in Conns, ClientStep(c) \/ Accept(c) PROVE SInv'
      BY <1>1, ClientStepInv
<1>2. ASSUME Running, NEW t \in Conns, ThreadStep(t) PROVE SInv'
      BY <1>2, HelloStepInv, ReplyStepInv, RegisterInv, SendIDInv, DropInv, CloseInv,
         SendClientsInv, WatchInv, RemoveAndRepairInv DEF ThreadStep
<1>3. CASE UNCHANGED vars
  <2>1. TypeOK'
        BY <1>3 DEF SInv, TypeOK, vars, env, kernel, locals, map
  <2> QED BY <1>3, <2>1 DEF SInv, Served, Kernel, InBounds, AllZero, AllStrangers, vars, kernel,
                            locals, map
<1>4. CASE AcceptFails
      BY <1>4, AcceptFailsInv
<1> QED BY <1>1, <1>2, <1>3, <1>4 DEF Next

(* It always holds.                                                         *)
LEMMA SInvAlways == Spec => []SInv
BY SInit, SStep, PTL DEF Spec

(* Every variable has its type: IDs, and with them every index into the     *)
(* map, stay within it, and so do the neighbours looked up.                 *)
THEOREM TypeCorrect == Spec => []TypeOK
<1>1. SInv => TypeOK
      BY DEF SInv
<1> QED BY <1>1, SInvAlways, PTL

(* Whatever clients come and go, and for every size of the map: as          *)
(* committed, no client is ever given an ID but 0, a neighbour, or the      *)
(* order to relocate.                                                       *)
THEOREM AllStrangersCorrect == Spec => []AllStrangers
<1>1. SInv => AllStrangers
      BY DEF SInv
<1> QED BY <1>1, SInvAlways, PTL

(* The first thread to remove its client empties slot 0, also for the       *)
(* others: an entry of the map never outlives its client, because entries   *)
(* only ever die too early.                                                 *)
THEOREM NoStaleEntryCorrect == Spec => []NoStaleEntry
<1>1. Init => NoStaleEntry
      BY DEF Init, NoStaleEntry
<1>2. SInv /\ NoStaleEntry /\ [Next]_vars => NoStaleEntry'
  <2> SUFFICES ASSUME SInv, NoStaleEntry, [Next]_vars PROVE NoStaleEntry'
      OBVIOUS
  <2>1. SInv' 
        BY SStep
  <2>2. ASSUME occupied' = [i \in Slots |-> FALSE] PROVE NoStaleEntry'
        BY <2>2 DEF NoStaleEntry
  <2>3. ASSUME UNCHANGED <<occupied, id>>, \A u \in Conns : Registered(u) => Registered(u)'
        PROVE  NoStaleEntry'
        BY <2>3 DEF NoStaleEntry
  <2>4. ASSUME NEW c \in Conns, ClientStep(c) PROVE NoStaleEntry'
        BY <2>3, <2>4 DEF ClientStep, Connect, SendHello, SayGoodbye, Die, kernel, locals,
                            map, Registered
  <2>5. ASSUME NEW t \in Conns,
               Accept(t) \/ ReadArg(t) \/ CheckLimit(t) \/ Call(t) \/ RecvTag(t) \/ RecvField(t)
                 \/ Reject(t) \/ Refuse(t) \/ ReplyOK(t) \/ SendID(t) \/ CountNeighbor(t)
                 \/ SendCount(t) \/ SendNeighbor(t) \/ ListDone(t) \/ Watch(t)
                 \/ CloseSession(t)
        PROVE  NoStaleEntry'
    <3>1. UNCHANGED <<occupied, id>>
          BY <2>5 DEF Accept, ReadArg, CheckLimit, Call, RecvTag, RecvField, Reject, Refuse,
                      ReplyOK, SendID, CountNeighbor, SendCount, SendNeighbor, ListDone, Watch,
                      CloseSession, locals, map
    <3>2. ASSUME NEW u \in Conns, Registered(u) PROVE Registered(u)'
      <4>1. pc \in [Conns -> PCs]
            BY DEF SInv, TypeOK
      <4>2. u # t => pc'[u] = pc[u]
            BY <2>5, <4>1 DEF Accept, ReadArg, CheckLimit, Call, RecvTag, RecvField, Reject,
               Refuse, ReplyOK, SendID, CountNeighbor, SendCount, SendNeighbor, ListDone, Watch,
               CloseSession, Goto, kernel
      <4>3. u = t => SendID(t) \/ CountNeighbor(t) \/ SendCount(t) \/ SendNeighbor(t)
                       \/ ListDone(t) \/ Watch(t) \/ CloseSession(t) \/ Call(t)
            BY <2>5, <3>2 DEF Registered, Accept, ReadArg, CheckLimit, RecvTag, RecvField,
               Reject, Refuse, ReplyOK
      <4>4. CASE u = t /\ Call(t)
            BY <3>2, <4>4 DEF Call, kernel, Registered
      <4>5. u = t /\ ~Call(t) => pc'[u] \in {"count", "drop", "list", "check", "relocate", "leave",
                                           "remove", "repair"}
            BY <3>2, <4>1, <4>3 DEF SendID, CountNeighbor, SendCount, SendNeighbor, ListDone,
               Watch, CloseSession, Goto
      <4> QED BY <3>2, <4>2, <4>4, <4>5 DEF Registered
    <3> QED BY <2>3, <3>1, <3>2
  <2>6. ASSUME NEW t \in Conns, Drop(t) \/ RemoveAndRepair(t) PROVE NoStaleEntry'
        BY <2>2, <2>6, DropInv, RemoveAndRepairInv
  <2>7. ASSUME NEW t \in Conns, Register(t) PROVE NoStaleEntry'
    <3>1. Registered(t)' /\ id'[t] = 0
          BY <2>1, <2>7 DEF SInv, AllZero, TypeOK, Register, Goto, Registered
    <3> QED BY <2>1, <3>1 DEF NoStaleEntry, SInv, AllZero
  <2>8. ASSUME NEW t \in Conns, HangUp(t) PROVE NoStaleEntry'
    <3>1. /\ UNCHANGED <<occupied, id>> /\ ~Registered(t)
          /\ \A u \in Conns : u # t => pc'[u] = pc[u]
          BY <2>8 DEF SInv, TypeOK, HangUp, Goto, locals, map, Registered
    <3> QED BY <2>3, <3>1 DEF Registered
  <2>9. CASE UNCHANGED vars \/ AcceptFails
        BY <2>3, <2>9 DEF vars, AcceptFails, locals, map, Registered
  <2> QED BY <2>4, <2>5, <2>6, <2>7, <2>8, <2>9 DEF Next, ThreadStep
<1> QED BY <1>1, <1>2, SInvAlways, PTL DEF Spec

(* Every client is removed at most once and all that were registered are,   *)
(* but for those still served: num_clients counts these removals downwards. *)
THEOREM BooksCorrect == Spec => []Books
<1> DEFINE Removed == {t \in Conns : pc[t] \in {"hangup", "gone"}}
<1>1. Init => Books
  <2> SUFFICES ASSUME Init PROVE Books
      OBVIOUS
  <2>1. Removed = {}
        BY DEF Init
  <2>2. Cardinality({}) = 0
        BY FS_EmptySet
  <2>3. Cardinality(Removed) = 0
        BY <2>1, <2>2, Zenon
  <2>4. num_clients = 0
        BY DEF Init
  <2>5. num_clients + Cardinality(Removed) = 0
        BY <2>3, <2>4
  <2> QED BY <2>5 DEF Books
<1>2. SInv /\ Books /\ [Next]_vars => Books'
  <2> SUFFICES ASSUME SInv, Books, [Next]_vars PROVE Books'
      OBVIOUS
  <2>0. pc \in [Conns -> PCs] /\ num_clients \in Int
        BY DEF SInv, TypeOK
  <2>1. IsFiniteSet(Removed) /\ Cardinality(Removed) \in Nat
        BY ServerAssumption, FS_Subset, FS_CardinalityType
  <2>2. ASSUME num_clients' = num_clients, Removed' = Removed PROVE Books'
        BY <2>2 DEF Books
  <2>3. ASSUME NEW c \in Conns, ClientStep(c) PROVE Books'
        BY <2>2, <2>3 DEF ClientStep, Connect, SendHello, SayGoodbye, Die, kernel, map
  <2>4. ASSUME NEW t \in Conns,
               Accept(t) \/ ReadArg(t) \/ CheckLimit(t) \/ Call(t) \/ RecvTag(t) \/ RecvField(t)
                 \/ Reject(t) \/ Refuse(t) \/ ReplyOK(t) \/ Register(t) \/ SendID(t)
                 \/ CountNeighbor(t) \/ SendCount(t) \/ SendNeighbor(t) \/ ListDone(t)
                 \/ Watch(t) \/ CloseSession(t) \/ HangUp(t)
        PROVE  Books'
    <3>1. num_clients' = num_clients
          BY <2>4 DEF Accept, ReadArg, CheckLimit, Call, RecvTag, RecvField, Reject, Refuse,
                      ReplyOK, Register, SendID, CountNeighbor, SendCount, SendNeighbor, ListDone,
                      Watch, CloseSession, HangUp, map
    <3>2. CASE HangUp(t)
          BY <2>0, <2>2, <3>1, <3>2 DEF HangUp, Goto
    <3>3. /\ pc[t] \notin {"hangup", "gone"} \/ HangUp(t)
          /\ pc' = pc \/ HangUp(t) \/ \E l \in PCs \ {"hangup", "gone"} : Goto(t, l)
      <4>1. CASE Accept(t) \/ ReadArg(t) \/ CheckLimit(t) \/ Reject(t) \/ ReplyOK(t)
                   \/ Register(t) \/ Refuse(t) \/ CloseSession(t) \/ Call(t)
            BY <4>1 DEF Accept, ReadArg, CheckLimit, Reject, ReplyOK, Register, Refuse,
               CloseSession, Call, kernel, PCs, Receiving
      <4>2. CASE RecvTag(t) \/ RecvField(t)
            BY <4>2 DEF RecvTag, RecvField, PCs, Receiving
      <4>3. CASE SendID(t) \/ CountNeighbor(t) \/ SendCount(t) \/ SendNeighbor(t) \/ ListDone(t)
            BY <4>3 DEF SendID, CountNeighbor, SendCount, SendNeighbor, ListDone, PCs, Receiving
      <4>4. CASE Watch(t)
            BY <4>4 DEF Watch, PCs
      <4> QED BY <2>4, <4>1, <4>2, <4>3, <4>4
    <3>4. CASE ~HangUp(t)
          BY <2>0, <2>2, <3>1, <3>3, <3>4 DEF Goto
    <3> QED BY <3>2, <3>4
  <2>5. ASSUME NEW t \in Conns, Drop(t) \/ RemoveAndRepair(t) PROVE Books'
    <3>1. num_clients' = num_clients - 1 /\ pc[t] \notin {"hangup", "gone"}
          /\ (Goto(t, "hangup") \/ Goto(t, "gone"))
          BY <2>5 DEF Drop, RemoveAndRepair, RemoveClient
    <3>2. Removed' = Removed \cup {t} /\ t \notin Removed
          BY <2>0, <3>1 DEF Goto
    <3>3. Cardinality(Removed') = Cardinality(Removed) + 1
          BY <2>1, <3>2, FS_AddElement
    <3>4. num_clients + Cardinality(Removed) = 0
          BY DEF Books
    <3>5. num_clients' + Cardinality(Removed') = 0
          BY <2>0, <2>1, <3>1, <3>3, <3>4
    <3> QED BY <3>5 DEF Books
  <2>6. CASE UNCHANGED vars \/ AcceptFails
        BY <2>2, <2>6 DEF vars, AcceptFails, map
  <2> QED BY <2>3, <2>4, <2>5, <2>6 DEF Next, ThreadStep
<1> QED BY <1>1, <1>2, SInvAlways, PTL DEF Spec
=============================================================================
