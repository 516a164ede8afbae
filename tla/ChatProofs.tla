----------------------------- MODULE ChatProofs -----------------------------
(***************************************************************************)
(* Proofs about Chat, for every number of connections and of texts.         *)
(***************************************************************************)
EXTENDS Chat, Counting

Numbers == Fds \cup {NoFd}

(* The places of a thread that uses its descriptor, and of one that has     *)
(* received a name.                                                         *)
Live    == PCs \ {"none", "start", "refused", "gone"}
Serving == Sending \cup {"serve", "text", "broadcast", "close", "remove"}
Named   == Serving \cup {"ok", "register"}

(* Every connection is open on one descriptor at most, and none before its  *)
(* thread was started; a thread closes its descriptor before it removes its *)
(* entry; recv() is under way only where a thread receives.                 *)
Kernel ==
    /\ \A f \in Numbers : file[f] # NoConn => pc[file[f]] # "none"
    /\ \A f, g \in Numbers : file[f] = file[g] /\ file[f] # NoConn => f = g
    /\ \A t \in Conns : pc[t] \in {"none", "start"} => fd[t] = NoFd
    /\ \A t \in Conns : pc[t] = "remove" => file[fd[t]] # t
    /\ \A t \in Conns : at[t] # NoConn => pc[t] \in Receiving

(* The mutex is held by the thread that broadcasts, whose index starts at 1.*)
Locked ==
    \A t \in Conns : /\ pc[t] \in Sending <=> mutex = t
                     /\ pc[t] \in Sending => pos[t] >= 1

Filled ==
    \A t \in Conns : /\ pc[t] \in Named => who[t] # NoConn
                     /\ pc[t] = "broadcast" => msg[t].from # NoConn

AInv == TypeOK /\ Kernel /\ Locked /\ Filled /\ Books

-----------------------------------------------------------------------------
(* Lemmas about the operators *)

LEMMA Sizes ==
    /\ IsFiniteSet(Conns) /\ NoConn \notin Conns /\ Cardinality(Conns) \in Nat
    /\ Fds = 1 .. Cardinality(Conns) /\ NoFd = 0 /\ NoFd \notin Fds /\ NoFd \in Numbers
    /\ Numbers \subseteq Nat /\ Says \in [Conns -> Nat]
BY ChatAssumption, FS_CardinalityType DEF Fds, NoFd, Numbers

LEMMA GotoType ==
    ASSUME TypeOK, NEW t \in Conns, NEW label \in PCs, Goto(t, label)
    PROVE  /\ pc' \in [Conns -> PCs]
           /\ \A u \in Conns : pc'[u] = IF u = t THEN label ELSE pc[u]
BY DEF TypeOK, Goto

(* Sending adds the unit behind what was sent on the connection that the    *)
(* descriptor is open on, if its client is up, or nothing.                  *)
LEMMA SendType ==
    ASSUME TypeOK, NEW f \in Numbers, NEW unit \in Units, NEW ret, Send(f, unit, ret)
    PROVE  /\ out' \in [Conns -> Seq(Units)]
           /\ \A c \in Conns :
                 \/ out'[c] = out[c]
                 \/ out'[c] = Append(out[c], unit) /\ file[f] = c /\ life[c] = "up" /\ ret = 1
           /\ \A c \in Conns : Len(out'[c]) >= Len(out[c])
           /\ \A c \in Conns : file[f] = c /\ life[c] = "up" => out'[c] = Append(out[c], unit)
<1>1. out \in [Conns -> Seq(Units)]
      BY DEF TypeOK
<1>2. CASE UNCHANGED out /\ ~(file[f] # NoConn /\ life[file[f]] = "up")
      BY <1>1, <1>2, Sizes
<1> DEFINE d == file[f]
<1>3. CASE /\ d # NoConn /\ life[d] = "up" /\ ret = 1
           /\ out' = [out EXCEPT ![d] = Append(@, unit)]
  <2>1. d \in Conns
        BY <1>3 DEF TypeOK, Numbers
  <2>2. out' \in [Conns -> Seq(Units)]
        BY <1>1, <1>3, <2>1
  <2>3. \A c \in Conns : out'[c] = IF c = d THEN Append(out[c], unit) ELSE out[c]
        BY <1>1, <1>3, <2>1
  <2>4. \A c \in Conns : Len(Append(out[c], unit)) = Len(out[c]) + 1 /\ Len(out[c]) \in Nat
        BY <1>1
  <2> QED BY <1>3, <2>2, <2>3, <2>4
<1> QED BY <1>2, <1>3 DEF Send

(* A received unit is taken from the front.                                 *)
LEMMA ReceivesType ==
    ASSUME TypeOK, NEW t \in Conns, Receives(t)
    PROVE  /\ at[t] \in Conns /\ Arrived(t) \in Units
           /\ in' \in [Conns -> Seq(Units)]
           /\ at' = [at EXCEPT ![t] = NoConn]
           /\ in[at[t]] # <<>> /\ in' = [in EXCEPT ![at[t]] = Tail(@)]
<1>1. at \in [Conns -> Conns \cup {NoConn}] /\ in \in [Conns -> Seq(Units)]
      BY DEF TypeOK
<1>2. at[t] \in Conns /\ in[at[t]] # <<>> /\ in' = [in EXCEPT ![at[t]] = Tail(@)]
      BY <1>1 DEF Receives
<1>3. in[at[t]] \in Seq(Units)
      BY <1>1, <1>2
<1>4. Head(in[at[t]]) \in Units /\ Tail(in[at[t]]) \in Seq(Units)
      BY <1>2, <1>3
<1>5. in' \in [Conns -> Seq(Units)]
      BY <1>1, <1>2, <1>4
<1>6. at' = [at EXCEPT ![t] = NoConn]
      BY DEF Receives
<1> QED BY <1>2, <1>4, <1>5, <1>6 DEF Arrived

(* There is a free descriptor for a connection that has not been accepted,  *)
(* and accept() takes one.                                                  *)
LEMMA FreeFd ==
    ASSUME TypeOK, Kernel, NEW c \in Conns, pc[c] = "none"
    PROVE  LET f == CHOOSE g \in FreeFds : \A h \in FreeFds : g <= h
           IN  f \in Fds /\ file[f] = NoConn
<1> DEFINE place == [f \in Fds |-> file[f]]
<1>1. place \in [1 .. Cardinality(Conns) -> Conns \cup {NoConn}]
      BY DEF TypeOK, Fds
<1>2. \A f, g \in DOMAIN place : place[f] = place[g] /\ place[f] # NoConn => f = g
      BY DEF Kernel, Numbers
<1>3. \A f \in DOMAIN place : place[f] # c
      BY Sizes DEF Kernel, Numbers
<1>4. \E f \in Fds : file[f] = NoConn
  <2> HIDE DEF place
  <2>1. \E f \in DOMAIN place : place[f] = NoConn
        BY <1>1, <1>2, <1>3, Sizes, FreePlace
  <2> QED BY <2>1 DEF place
<1>5. FreeFds # {} /\ FreeFds \in SUBSET Nat
      BY <1>4, Sizes DEF FreeFds
<1>6. \E g \in FreeFds : \A h \in FreeFds : g <= h
      BY <1>5, LeastExists
<1> QED BY <1>6 DEF FreeFds

(* A step that neither registers nor removes keeps the books.               *)
LEMMA BooksKept ==
    ASSUME Books, UNCHANGED clients,
           \A t \in Conns : /\ t \in Registered' <=> t \in Registered
                            /\ t \in Registered => fd'[t] = fd[t]
    PROVE  Books'
<1>1. ASSUME NEW f \in Numbers
      PROVE  /\ Places(f)' = Places(f)
             /\ {t \in Registered : fd[t] = f}' = {t \in Registered : fd[t] = f}
      BY DEF Places, Registered
<1> QED BY <1>1 DEF Books, Numbers

LEMMA AInit == Init => AInv
<1> SUFFICES ASSUME Init PROVE AInv
    OBVIOUS
<1>1. TypeOK
      BY Sizes DEF Init, TypeOK, PCs, Numbers, Nothing
<1>2. Kernel /\ Locked /\ Filled
      BY Sizes DEF Init, Kernel, Locked, Filled, Numbers, Named, Serving, Sending
<1>3. Registered = {} /\ \A f \in Numbers : Places(f) = {}
      BY DEF Init, Registered, Places, Sending
<1>4. Books
      BY <1>3, FS_EmptySet DEF Books, Numbers
<1> QED BY <1>1, <1>2, <1>4 DEF AInv

-----------------------------------------------------------------------------
(* The steps.  Most of them move one thread between places where it does    *)
(* not hold the mutex; it may close its descriptor, send and receive.       *)

LEMMA Moves ==
    ASSUME AInv, NEW t \in Conns, NEW label \in PCs, Goto(t, label),
           pc[t] \notin Sending \cup {"none", "start"},
           label \notin Sending \cup {"none", "start"},
           pc[t] \in Serving <=> label \in Serving,
           UNCHANGED <<proc, confd, fd, pos, clients, mutex, hist>>,
           UNCHANGED file \/ Close(t),
           label = "remove" => Close(t),
           in' \in [Conns -> Seq(Units)],
           out' \in [Conns -> Seq(Units)],
           \A c \in Conns : Len(out'[c]) >= Len(out[c]),
           who' \in [Conns -> Conns \cup {NoConn}],
           msg' \in [Conns -> [from : Conns \cup {NoConn}, n : Nat]],
           \A u \in Conns : u # t => who'[u] = who[u] /\ msg'[u] = msg[u],
           \/ at' = [at EXCEPT ![t] = NoConn]
           \/ UNCHANGED at /\ pc[t] \notin Receiving,
           label \in Named => who'[t] # NoConn,
           label = "broadcast" => msg'[t].from # NoConn
    PROVE  AInv'
<1>1. pc' \in [Conns -> PCs] /\ \A u \in Conns : pc'[u] = IF u = t THEN label ELSE pc[u]
      BY GotoType DEF AInv
<1>2. at' \in [Conns -> Conns \cup {NoConn}] /\ \A u \in Conns : at'[u] \in {at[u], NoConn}
      BY DEF AInv, TypeOK
<1>3. /\ file' \in [Numbers -> Conns \cup {NoConn}]
      /\ \A f \in Numbers : file'[f] \in {file[f], NoConn}
      BY DEF AInv, TypeOK, Numbers, Close
<1>4. UNCHANGED <<life, sent, got, reads, confd, fd, pos, clients, mutex, log, shared>>
      BY DEF proc, hist
<1>5. \A c \in Conns : got'[c] <= Len(out'[c])
  <2> SUFFICES ASSUME NEW c \in Conns PROVE got'[c] <= Len(out'[c])
      OBVIOUS
  <2>1. got[c] \in Nat /\ out[c] \in Seq(Units) /\ out'[c] \in Seq(Units)
        BY DEF AInv, TypeOK
  <2>2. got[c] <= Len(out[c]) /\ Len(out[c]) <= Len(out'[c])
        BY DEF AInv, TypeOK
  <2>3. Len(out[c]) \in Nat /\ Len(out'[c]) \in Nat
        BY <2>1
  <2> QED BY <1>4, <2>1, <2>2, <2>3
<1>6. TypeOK'
  <2>1. \A u \in Conns : pc'[u] = "sendtext" => pos'[u] \in DOMAIN clients'
        BY <1>1, <1>4 DEF AInv, TypeOK, Sending
  <2>2. file'[NoFd] = NoConn
        BY <1>3, Sizes DEF AInv, TypeOK
  <2> QED BY <1>1, <1>2, <1>3, <1>4, <1>5, <2>1, <2>2 DEF AInv, TypeOK, Numbers
<1>7. Kernel'
  <2>1. \A f \in Numbers : file'[f] # NoConn => file'[f] = file[f] /\ file[f] \in Conns
        BY <1>3 DEF AInv, TypeOK, Numbers
  <2>2. \A u \in Conns : /\ pc'[u] = "none" <=> pc[u] = "none"
                         /\ pc'[u] \in {"none", "start"} <=> pc[u] \in {"none", "start"}
        BY <1>1
  <2>3. \A u \in Conns : pc'[u] = "remove" => file'[fd'[u]] # u
    <3>1. \A u \in Conns : fd[u] \in Numbers /\ u # NoConn
          BY Sizes DEF AInv, TypeOK, Numbers
    <3>2. label = "remove" => file'[fd[t]] = NoConn
          BY <3>1 DEF Close, AInv, TypeOK, Numbers
    <3>3. \A u \in Conns : u # t /\ pc'[u] = "remove" => file[fd[u]] # u
          BY <1>1 DEF AInv, Kernel
    <3>4. \A u \in Conns : file'[fd[u]] \in {file[fd[u]], NoConn}
          BY <1>3, <3>1
    <3> QED BY <1>1, <1>4, <3>1, <3>2, <3>3, <3>4
  <2>4. \A u \in Conns : at'[u] # NoConn => pc'[u] \in Receiving
    <3>1. \A u \in Conns : u # t /\ at'[u] # NoConn => pc'[u] \in Receiving
          BY <1>1, <1>2 DEF AInv, Kernel
    <3>2. at'[t] = NoConn
          BY DEF AInv, Kernel, TypeOK
    <3> QED BY <3>1, <3>2
  <2>5. \A f, g \in Numbers : file'[f] = file'[g] /\ file'[f] # NoConn => f = g
        BY <2>1 DEF AInv, Kernel
  <2>6. \A f \in Numbers : file'[f] # NoConn => pc'[file'[f]] # "none"
    <3>1. \A f \in Numbers : file[f] # NoConn => pc[file[f]] # "none"
          BY DEF AInv, Kernel
    <3> QED BY <2>1, <2>2, <3>1
  <2>7. \A u \in Conns : pc'[u] \in {"none", "start"} => fd'[u] = NoFd
        BY <1>4, <2>2 DEF AInv, Kernel
  <2> QED BY <2>3, <2>4, <2>5, <2>6, <2>7 DEF Kernel
<1>8. Locked'
      BY <1>1, <1>4 DEF AInv, Locked
<1>9. Filled'
      BY <1>1 DEF AInv, Filled
<1>10. Books'
      BY <1>1, <1>4, BooksKept DEF AInv, Registered, Serving
<1> QED BY <1>6, <1>7, <1>8, <1>9, <1>10 DEF AInv

LEMMA HasFd ==
    ASSUME TypeOK, NEW t \in Conns
    PROVE  fd[t] \in Numbers
BY DEF TypeOK, Numbers

(* What the clients do.                                                     *)
LEMMA ClientUnitType ==
    ASSUME NEW k \in Nat \ {0}
    PROVE  ClientUnit(k) \in Units
<1>1. k % 2 \in {0, 1} /\ k = 2 * (k \div 2) + (k % 2) /\ k \div 2 \in Nat
      OBVIOUS
<1>2. k # 1 /\ k # 2 /\ k % 2 # 1 => k \div 2 - 1 \in Nat
      BY <1>1
<1> QED BY <1>2 DEF ClientUnit, Units, Unit, Text, Tags

LEMMA ClientType ==
    ASSUME AInv, NEW c \in Conns, UserStep(c) \/ ClientStep(c)
    PROVE  /\ UNCHANGED <<out, file, confd, pc, fd, at, who, msg, pos, clients, mutex, log, shared>>
           /\ TypeOK'
<1>1. UNCHANGED <<out, file, confd, pc, fd, at, who, msg, pos, clients, mutex, log, shared>>
      BY DEF UserStep, ClientStep, Connect, Say, SayGoodbye, Die, SendHello, SendNext,
             RecvReply, RecvShow, wire, kernel, thread, hist
<1>2. /\ life \in [Conns -> {"new", "up", "gone"}] /\ sent \in [Conns -> Nat]
      /\ got \in [Conns -> Nat] /\ reads \in [Conns -> {"reply", "tag", "text"}]
      /\ in \in [Conns -> Seq(Units)] /\ out \in [Conns -> Seq(Units)]
      /\ \A d \in Conns : sent[d] <= 2 + 2 * Says[d] /\ got[d] <= Len(out[d])
      BY DEF AInv, TypeOK
<1>3. /\ life' \in [Conns -> {"new", "up", "gone"}]
      /\ reads' \in [Conns -> {"reply", "tag", "text"}]
  <2>1. CASE UserStep(c)
        BY <1>2, <2>1 DEF UserStep, Connect, Say, SayGoodbye, Die, SendNext
  <2>2. CASE ClientStep(c)
        BY <1>2, <2>2 DEF ClientStep, SendHello, SendNext, RecvReply, RecvShow, Expect, Exit
  <2> QED BY <2>1, <2>2
<1>4. got' \in [Conns -> Nat] /\ \A d \in Conns : got'[d] <= Len(out[d])
  <2>1. \/ UNCHANGED got
        \/ got[c] < Len(out[c]) /\ got' = [got EXCEPT ![c] = @ + 1]
        BY DEF UserStep, ClientStep, Connect, Say, SayGoodbye, Die, SendHello, SendNext,
               RecvReply, RecvShow
  <2>2. \A d \in Conns : got[d] \in Nat /\ Len(out[d]) \in Nat
        BY <1>2
  <2>3. CASE got[c] < Len(out[c]) /\ got' = [got EXCEPT ![c] = @ + 1]
    <3>1. got[c] + 1 \in Nat /\ got[c] + 1 <= Len(out[c])
          BY <2>2, <2>3
    <3> QED BY <1>2, <2>3, <3>1
  <2> QED BY <1>2, <2>1, <2>3
<1>5. /\ sent' \in [Conns -> Nat] /\ in' \in [Conns -> Seq(Units)]
      /\ \A d \in Conns : sent'[d] <= 2 + 2 * Says[d]
  <2>1. CASE UNCHANGED <<sent, in>>
        BY <1>2, <2>1
  <2>2. CASE UNCHANGED sent /\ in' = [in EXCEPT ![c] = Append(@, Unit("QUIT"))]
    <3>1. Unit("QUIT") \in Units
          BY DEF Unit, Units, Tags
    <3> QED BY <1>2, <2>2, <3>1
  <2>3. CASE SendNext(c) /\ sent[c] < 2 + 2 * Says[c]
    <3>1. sent' = [sent EXCEPT ![c] = sent[c] + 1] /\ sent'[c] = sent[c] + 1
          BY <1>2, <2>3 DEF SendNext
    <3>2. sent[c] \in Nat /\ sent[c] + 1 \in Nat \ {0} /\ sent[c] + 1 <= 2 + 2 * Says[c]
      <4>1. sent[c] \in Nat /\ Says[c] \in Nat
            BY <1>2, Sizes
      <4> QED BY <2>3, <4>1
    <3>3. ClientUnit(sent[c] + 1) \in Units
          BY <3>2, ClientUnitType
    <3>4. in' = [in EXCEPT ![c] = Append(@, ClientUnit(sent[c] + 1))]
          BY <2>3, <3>1 DEF SendNext
    <3>5. in' \in [Conns -> Seq(Units)]
          BY <1>2, <3>3, <3>4
    <3>6. \A d \in Conns : sent'[d] <= 2 + 2 * Says[d]
          BY <1>2, <3>1, <3>2
    <3> QED BY <1>2, <3>1, <3>2, <3>5, <3>6
  <2>4. sent[c] < 2 => sent[c] < 2 + 2 * Says[c]
        BY <1>2, Sizes
  <2> QED BY <2>1, <2>2, <2>3, <2>4
          DEF UserStep, ClientStep, Connect, Say, SayGoodbye, Die, SendHello, RecvReply, RecvShow, wire
<1> QED BY <1>1, <1>3, <1>4, <1>5 DEF AInv, TypeOK

LEMMA AClient ==
    ASSUME AInv, NEW c \in Conns, UserStep(c) \/ ClientStep(c)
    PROVE  AInv'
<1>1. /\ UNCHANGED <<out, file, confd, pc, fd, at, who, msg, pos, clients, mutex, log, shared>>
      /\ TypeOK'
      BY ClientType
<1>2. Kernel' /\ Locked' /\ Filled'
      BY <1>1 DEF AInv, Kernel, Locked, Filled
<1>3. Books'
      BY <1>1, BooksKept DEF AInv, Registered
<1> QED BY <1>1, <1>2, <1>3 DEF AInv

(* What main does, and a thread that reads its descriptor.                  *)
LEMMA AAccept ==
    ASSUME AInv, NEW c \in Conns, Accept(c)
    PROVE  AInv'
<1>1. confd' \in Fds /\ file[confd'] = NoConn
      BY FreeFd DEF Accept, AInv
<1>2. /\ pc[c] = "none" /\ pc' = [pc EXCEPT ![c] = "start"]
      /\ file' = [file EXCEPT ![confd'] = c]
      /\ UNCHANGED <<life, sent, got, reads, in, out, fd, at, who, msg, pos, clients, mutex, log>>
      BY DEF Accept, Goto, proc, wire, thread
<1>3. \A u \in Conns : pc'[u] = IF u = c THEN "start" ELSE pc[u]
      BY <1>2 DEF AInv, TypeOK
<1>4. \A f \in Numbers : file'[f] = IF f = confd' THEN c ELSE file[f]
      BY <1>1, <1>2 DEF AInv, TypeOK, Numbers
<1>5. TypeOK'
  <2>1. shared' \in SUBSET Conns
        BY DEF Accept, AInv, TypeOK
  <2>2. pc' \in [Conns -> PCs]
        BY <1>2 DEF AInv, TypeOK, PCs
  <2>3. file' \in [Numbers -> Conns \cup {NoConn}] /\ file'[NoFd] = NoConn
        BY <1>1, <1>2, Sizes DEF AInv, TypeOK, Numbers
  <2>4. \A u \in Conns : pc'[u] = "sendtext" => pos'[u] \in DOMAIN clients'
        BY <1>2, <1>3 DEF AInv, TypeOK
  <2> QED BY <1>1, <1>2, <2>1, <2>2, <2>3, <2>4 DEF AInv, TypeOK, Numbers
<1>6. Kernel'
  <2>1. \A f \in Numbers : file[f] # c
        BY <1>2, Sizes DEF AInv, Kernel
  <2>2. \A f, g \in Numbers : file'[f] = file'[g] /\ file'[f] # NoConn => f = g
        BY <1>4, <2>1 DEF AInv, Kernel
  <2>3. \A f \in Numbers : file'[f] # NoConn => pc'[file'[f]] # "none"
    <3> SUFFICES ASSUME NEW f \in Numbers, file'[f] # NoConn PROVE pc'[file'[f]] # "none"
        OBVIOUS
    <3>1. CASE f = confd'
          BY <1>3, <1>4, <3>1
    <3>2. CASE f # confd'
      <4>1. file'[f] = file[f] /\ file[f] \in Conns /\ pc[file[f]] # "none"
            BY <1>4, <3>2 DEF AInv, Kernel, TypeOK, Numbers
      <4> QED BY <1>3, <4>1
    <3> QED BY <3>1, <3>2
  <2>4. \A u \in Conns : pc'[u] = "remove" => file'[fd'[u]] # u
        BY <1>2, <1>3, <1>4, HasFd DEF AInv, Kernel
  <2> QED BY <1>2, <1>3, <2>2, <2>3, <2>4 DEF AInv, Kernel, Receiving
<1>7. Locked' /\ Filled'
      BY <1>2, <1>3 DEF AInv, Locked, Filled, Sending, Named, Serving
<1>8. Books'
      BY <1>2, <1>3, BooksKept DEF AInv, Registered, Sending
<1> QED BY <1>5, <1>6, <1>7, <1>8 DEF AInv

LEMMA AAcceptFails ==
    ASSUME AInv, AcceptFails
    PROVE  AInv'
<1>1. /\ confd' = NoFd
      /\ UNCHANGED <<life, sent, got, reads, in, out, file, pc, fd, at, who, msg, pos,
                     clients, mutex, log, shared>>
      BY DEF AcceptFails, proc, wire, thread, hist
<1>2. TypeOK'
      BY <1>1 DEF AInv, TypeOK
<1>3. Kernel' /\ Locked' /\ Filled'
      BY <1>1 DEF AInv, Kernel, Locked, Filled
<1>4. Books'
      BY <1>1, BooksKept DEF AInv, Registered
<1> QED BY <1>2, <1>3, <1>4 DEF AInv

LEMMA AReadArg ==
    ASSUME AInv, NEW t \in Conns, ReadArg(t)
    PROVE  AInv'
<1>1. /\ pc[t] = "start" /\ pc' = [pc EXCEPT ![t] = "limit"] /\ fd' = [fd EXCEPT ![t] = confd]
      /\ UNCHANGED <<life, sent, got, reads, in, out, file, confd, at, who, msg, pos,
                     clients, mutex, log>>
      BY DEF ReadArg, Goto, proc, wire, kernel
<1>2. \A u \in Conns : /\ pc'[u] = IF u = t THEN "limit" ELSE pc[u]
                       /\ fd'[u] = IF u = t THEN confd ELSE fd[u]
      BY <1>1 DEF AInv, TypeOK
<1>3. TypeOK'
  <2>1. shared' \in SUBSET Conns
        BY DEF ReadArg, AInv, TypeOK
  <2>2. pc' \in [Conns -> PCs] /\ fd' \in [Conns -> Fds \cup {NoFd}]
        BY <1>1 DEF AInv, TypeOK, PCs
  <2>3. \A u \in Conns : pc'[u] = "sendtext" => pos'[u] \in DOMAIN clients'
        BY <1>1, <1>2 DEF AInv, TypeOK
  <2> QED BY <1>1, <2>1, <2>2, <2>3 DEF AInv, TypeOK
<1>4. Kernel'
      BY <1>1, <1>2 DEF AInv, Kernel, Receiving
<1>5. Locked' /\ Filled'
      BY <1>1, <1>2 DEF AInv, Locked, Filled, Sending, Named, Serving
<1>6. Books'
      BY <1>1, <1>2, BooksKept DEF AInv, Registered, Sending
<1> QED BY <1>3, <1>4, <1>5, <1>6 DEF AInv

(* The steps before and after the broadcasts.                               *)
LEMMA AReceive ==
    ASSUME AInv, NEW t \in Conns,
           RecvTag(t) \/ RecvName(t) \/ RecvMsgTag(t) \/ RecvText(t)
    PROVE  AInv'
<1>1. /\ Receives(t)
      /\ UNCHANGED <<proc, out, confd, fd, pos, clients, mutex, hist, file>>
      BY DEF RecvTag, RecvName, RecvMsgTag, RecvText, kernel
<1>2. /\ at[t] \in Conns /\ Arrived(t) \in Units
      /\ in' \in [Conns -> Seq(Units)] /\ at' = [at EXCEPT ![t] = NoConn]
      BY <1>1, ReceivesType DEF AInv
<1>3. /\ out' \in [Conns -> Seq(Units)] /\ \A c \in Conns : Len(out'[c]) >= Len(out[c])
      BY <1>1 DEF AInv, TypeOK
<1>4. pc = [pc EXCEPT ![t] = pc[t]] /\ who \in [Conns -> Conns \cup {NoConn}]
      /\ msg \in [Conns -> [from : Conns \cup {NoConn}, n : Nat]]
      BY DEF AInv, TypeOK
<1>5. at[t] # NoConn /\ Arrived(t).n \in Nat
      BY <1>2, Sizes DEF Units
<1>6. CASE RecvTag(t)
  <2>1. PICK label \in {"name", "reject"} : Goto(t, label)
        BY <1>6 DEF RecvTag
  <2>2. pc[t] = "tag" /\ UNCHANGED <<who, msg>>
        BY <1>6 DEF RecvTag
  <2> QED BY <1>1, <1>2, <1>3, <1>4, <2>1, <2>2, Moves DEF PCs, Receiving, Sending, Serving, Named
<1>7. CASE RecvName(t)
  <2>1. PICK label \in {"ok", "name"} : Goto(t, label)
        BY <1>4, <1>7 DEF RecvName, Goto
  <2>2. pc[t] = "name" /\ who' = [who EXCEPT ![t] = at[t]] /\ UNCHANGED msg
        BY <1>7 DEF RecvName
  <2>3. who' \in [Conns -> Conns \cup {NoConn}] /\ who'[t] # NoConn
        /\ \A u \in Conns : u # t => who'[u] = who[u]
        BY <1>2, <1>4, <1>5, <2>2
  <2> QED BY <1>1, <1>2, <1>3, <1>4, <2>1, <2>2, <2>3, Moves
          DEF PCs, Receiving, Sending, Serving, Named
<1>8. CASE RecvMsgTag(t)
  <2>1. PICK label \in {"text", "close"} : Goto(t, label)
        BY <1>8 DEF RecvMsgTag
  <2>2. pc[t] = "serve" /\ UNCHANGED <<who, msg>>
        BY <1>8 DEF RecvMsgTag
  <2>3. who[t] # NoConn
        BY <2>2 DEF AInv, Filled, Named, Serving
  <2> QED BY <1>1, <1>2, <1>3, <1>4, <2>1, <2>2, <2>3, Moves
          DEF PCs, Receiving, Sending, Serving, Named
<1>9. CASE RecvText(t)
  <2>1. PICK label \in {"broadcast", "text"} : Goto(t, label)
        BY <1>4, <1>9 DEF RecvText, Goto
  <2>2. pc[t] = "text" /\ UNCHANGED who
        /\ msg' = [msg EXCEPT ![t] = [from |-> at[t], n |-> Arrived(t).n]]
        BY <1>9 DEF RecvText
  <2>3. msg' \in [Conns -> [from : Conns \cup {NoConn}, n : Nat]] /\ msg'[t].from # NoConn
        /\ \A u \in Conns : u # t => msg'[u] = msg[u]
        BY <1>2, <1>4, <1>5, <2>2
  <2>4. who[t] # NoConn
        BY <2>2 DEF AInv, Filled, Named, Serving
  <2> QED BY <1>1, <1>2, <1>3, <1>4, <2>1, <2>2, <2>3, <2>4, Moves
          DEF PCs, Receiving, Sending, Serving, Named
<1> QED BY <1>6, <1>7, <1>8, <1>9

LEMMA AFail ==
    ASSUME AInv, NEW t \in Conns, HelloFails(t) \/ SessionEnds(t)
    PROVE  AInv'
<1>1. /\ at' = [at EXCEPT ![t] = NoConn]
      /\ UNCHANGED <<proc, in, out, confd, fd, who, msg, pos, clients, mutex, hist>>
      BY DEF HelloFails, SessionEnds, Fails, kernel
<1>2. /\ in' \in [Conns -> Seq(Units)] /\ out' \in [Conns -> Seq(Units)]
      /\ \A c \in Conns : Len(out'[c]) >= Len(out[c])
      /\ who' \in [Conns -> Conns \cup {NoConn}]
      /\ msg' \in [Conns -> [from : Conns \cup {NoConn}, n : Nat]]
  <2>1. /\ in \in [Conns -> Seq(Units)] /\ out \in [Conns -> Seq(Units)]
        /\ who \in [Conns -> Conns \cup {NoConn}]
        /\ msg \in [Conns -> [from : Conns \cup {NoConn}, n : Nat]]
        BY DEF AInv, TypeOK
  <2>2. \A c \in Conns : Len(out[c]) >= Len(out[c])
        BY <2>1
  <2> QED BY <1>1, <2>1, <2>2
<1>3. CASE HelloFails(t)
  <2>1. PICK label \in {"reject", "refused"} : Goto(t, label)
        BY <1>3 DEF HelloFails
  <2>2. pc[t] \in {"tag", "name"} /\ (UNCHANGED file \/ Close(t))
        BY <1>3 DEF HelloFails
  <2> QED BY <1>1, <1>2, <2>1, <2>2, Moves DEF PCs, Receiving, Sending, Serving, Named
<1>4. CASE SessionEnds(t)
  <2>1. pc[t] \in {"serve", "text"} /\ Goto(t, "close") /\ UNCHANGED file
        BY <1>4 DEF SessionEnds, kernel
  <2>2. who[t] # NoConn
        BY <2>1 DEF AInv, Filled, Named, Serving
  <2> QED BY <1>1, <1>2, <2>1, <2>2, Moves DEF PCs, Receiving, Sending, Serving, Named
<1> QED BY <1>3, <1>4

LEMMA AReply ==
    ASSUME AInv, NEW t \in Conns, Reject(t) \/ ReplyOK(t) \/ CheckLimit(t) \/ CloseSession(t)
    PROVE  AInv'
<1>1. UNCHANGED <<proc, in, confd, fd, at, who, msg, pos, clients, mutex, hist>>
      BY DEF Reject, ReplyOK, CheckLimit, CloseSession, thread, wire, kernel
<1>2. /\ in' \in [Conns -> Seq(Units)]
      /\ who' \in [Conns -> Conns \cup {NoConn}]
      /\ msg' \in [Conns -> [from : Conns \cup {NoConn}, n : Nat]]
      BY <1>1 DEF AInv, TypeOK
<1>3. ASSUME NEW unit \in Units, NEW ret, Send(fd[t], unit, ret)
      PROVE  out' \in [Conns -> Seq(Units)] /\ \A c \in Conns : Len(out'[c]) >= Len(out[c])
      BY <1>3, HasFd, SendType DEF AInv
<1>4. ASSUME UNCHANGED out
      PROVE  out' \in [Conns -> Seq(Units)] /\ \A c \in Conns : Len(out'[c]) >= Len(out[c])
      BY <1>4 DEF AInv, TypeOK
<1>5. Unit("HELLO_OK") \in Units /\ Unit("HELLO_ERROR") \in Units
      BY DEF Unit, Units, Tags
<1>6. CASE Reject(t)
  <2>1. pc[t] = "reject" /\ Goto(t, "refused") /\ Close(t)
        BY <1>6 DEF Reject
  <2>2. out' \in [Conns -> Seq(Units)] /\ \A c \in Conns : Len(out'[c]) >= Len(out[c])
        BY <1>3, <1>5, <1>6 DEF Reject
  <2> QED BY <1>1, <1>2, <2>1, <2>2, Moves DEF PCs, Receiving, Sending, Serving, Named
<1>7. CASE ReplyOK(t)
  <2>1. pc[t] = "ok" /\ Goto(t, "register") /\ UNCHANGED file
        BY <1>7 DEF ReplyOK, kernel
  <2>2. out' \in [Conns -> Seq(Units)] /\ \A c \in Conns : Len(out'[c]) >= Len(out[c])
        BY <1>3, <1>5, <1>7 DEF ReplyOK
  <2>3. who[t] # NoConn
        BY <2>1 DEF AInv, Filled, Named
  <2> QED BY <1>1, <1>2, <2>1, <2>2, <2>3, Moves DEF PCs, Receiving, Sending, Serving, Named
<1>8. CASE CheckLimit(t)
  <2>1. PICK label \in {"reject", "tag"} : Goto(t, label)
        BY <1>8 DEF CheckLimit
  <2>2. pc[t] = "limit" /\ UNCHANGED <<out, file>>
        BY <1>8 DEF CheckLimit, wire, kernel
  <2> QED BY <1>1, <1>2, <1>4, <2>1, <2>2, Moves DEF PCs, Receiving, Sending, Serving, Named
<1>9. CASE CloseSession(t)
  <2>1. pc[t] = "close" /\ Goto(t, "remove") /\ Close(t) /\ UNCHANGED out
        BY <1>9 DEF CloseSession, wire
  <2>2. who[t] # NoConn
        BY <2>1 DEF AInv, Filled, Named, Serving
  <2> QED BY <1>1, <1>2, <1>4, <2>1, <2>2, Moves DEF PCs, Receiving, Sending, Serving, Named
<1> QED BY <1>6, <1>7, <1>8, <1>9

LEMMA ACall ==
    ASSUME AInv, NEW t \in Conns, Call(t)
    PROVE  AInv'
<1>1. /\ pc[t] \in Receiving /\ at' = [at EXCEPT ![t] = file[fd[t]]]
      /\ UNCHANGED <<life, sent, got, reads, in, out, file, confd, pc, fd, who, msg, pos,
                     clients, mutex, log, shared>>
      BY DEF Call, proc, wire, kernel, hist
<1>2. TypeOK'
  <2>1. file[fd[t]] \in Conns \cup {NoConn}
        BY HasFd DEF AInv, TypeOK, Numbers
  <2> QED BY <1>1, <2>1 DEF AInv, TypeOK
<1>3. Kernel'
  <2>1. \A u \in Conns : at'[u] # NoConn => pc'[u] \in Receiving
        BY <1>1 DEF AInv, Kernel, TypeOK
  <2> QED BY <1>1, <2>1 DEF AInv, Kernel
<1>4. Locked' /\ Filled'
      BY <1>1 DEF AInv, Locked, Filled
<1>5. Books'
      BY <1>1, BooksKept DEF AInv, Registered
<1> QED BY <1>2, <1>3, <1>4, <1>5 DEF AInv

(* A step between places that keeps the descriptors as they are.            *)
LEMMA KernelKept ==
    ASSUME AInv, NEW t \in Conns, NEW label \in PCs, Goto(t, label), UNCHANGED <<file, fd, at>>,
           pc[t] \notin {"none", "start"} \cup Receiving,
           label \notin {"none", "start", "remove"}
    PROVE  Kernel'
<1>1. \A u \in Conns : pc'[u] = IF u = t THEN label ELSE pc[u]
      BY GotoType DEF AInv
<1>2. at[t] = NoConn
      BY DEF AInv, Kernel
<1>3. \A f \in Numbers : file[f] \in Conns \cup {NoConn}
      BY DEF AInv, TypeOK, Numbers
<1>4. \A u \in Conns : pc'[u] = "none" => pc[u] = "none"
      BY <1>1
<1> QED BY <1>1, <1>2, <1>3, <1>4 DEF AInv, Kernel

(* The steps of a broadcast: they hold the mutex, and leave the list alone. *)
LEMMA ABroadcast ==
    ASSUME AInv, NEW t \in Conns, Broadcast(t)
    PROVE  AInv'
<1> DEFINE entry == [name |-> who[t], from |-> msg[t].from, n |-> msg[t].n]
<1>1. /\ pc[t] = "broadcast" /\ mutex = NoConn /\ mutex' = t /\ Goto(t, "sendtag")
      /\ log' = Append(log, entry) /\ pos' = [pos EXCEPT ![t] = 1]
      /\ UNCHANGED <<life, sent, got, reads, in, out, file, confd, fd, at, who, msg,
                     clients, shared>>
      BY DEF Broadcast, proc, wire, kernel
<1>2. "sendtag" \in PCs
      BY DEF PCs, Sending
<1>3. pc' \in [Conns -> PCs] /\ \A u \in Conns : pc'[u] = IF u = t THEN "sendtag" ELSE pc[u]
      BY <1>1, <1>2, GotoType DEF AInv
<1>4. \A u \in Conns : pc[u] \notin Sending
      BY <1>1, Sizes DEF AInv, Locked
<1>5. TypeOK'
  <2>1. entry \in [name : Conns, from : Conns, n : Nat]
        BY <1>1, Sizes DEF AInv, TypeOK, Filled, Named, Serving
  <2>2. log' \in Seq([name : Conns, from : Conns, n : Nat])
        BY <1>1, <2>1 DEF AInv, TypeOK
  <2>3. pos' \in [Conns -> Nat]
        BY <1>1 DEF AInv, TypeOK
  <2>4. \A u \in Conns : pc'[u] = "sendtext" => pos'[u] \in DOMAIN clients'
        BY <1>3, <1>4 DEF Sending
  <2> QED BY <1>1, <1>3, <2>2, <2>3, <2>4 DEF AInv, TypeOK
<1>6. Kernel'
      BY <1>1, <1>2, KernelKept DEF Receiving
<1>7. Locked'
  <2>1. pos'[t] = 1
        BY <1>1 DEF AInv, TypeOK
  <2> QED BY <1>1, <1>3, <1>4, <2>1 DEF Locked, Sending
<1>8. Filled'
      BY <1>1, <1>3 DEF AInv, Filled, Named, Serving, Sending
<1>9. Books'
      BY <1>1, <1>3, BooksKept DEF AInv, Registered, Sending
<1> QED BY <1>5, <1>6, <1>7, <1>8, <1>9 DEF AInv

LEMMA ASend ==
    ASSUME AInv, NEW t \in Conns, SendTag(t) \/ SendText(t)
    PROVE  AInv'
<1>1. /\ pc[t] \in Sending
      /\ UNCHANGED <<life, sent, got, reads, in, file, confd, fd, at, who, msg,
                     clients, mutex, log, shared>>
      BY DEF SendTag, SendText, proc, kernel, hist, Sending
<1>2. /\ pos \in [Conns -> Nat] /\ pos[t] >= 1 /\ clients \in Seq(Numbers)
      /\ log \in Seq([name : Conns, from : Conns, n : Nat])
      BY <1>1 DEF AInv, TypeOK, Locked, Numbers
<1>3. PICK label \in Sending : /\ Goto(t, label)
                               /\ \/ pos' = [pos EXCEPT ![t] = @ + 1] /\ label = "sendtag"
                                  \/ UNCHANGED pos /\ pos[t] \in DOMAIN clients
  <2>1. pc = [pc EXCEPT ![t] = pc[t]]
        BY DEF AInv, TypeOK
  <2>2. CASE SendText(t)
        BY <2>2 DEF SendText, Sending
  <2>3. CASE SendTag(t)
    <3>1. pc[t] = "sendtag"
          BY <2>3 DEF SendTag
    <3>2. \/ Goto(t, "sendtext") /\ UNCHANGED pos
          \/ pos' = [pos EXCEPT ![t] = @ + 1] /\ UNCHANGED pc
          BY <2>3 DEF SendTag
    <3>3. pos[t] \in DOMAIN clients
          BY <1>2, <2>3 DEF SendTag
    <3> QED BY <2>1, <3>1, <3>2, <3>3 DEF Goto, Sending
  <2> QED BY <2>2, <2>3
<1>4. label \in PCs /\ pc' \in [Conns -> PCs] /\ \A u \in Conns : pc'[u] = IF u = t THEN label ELSE pc[u]
      BY <1>3, GotoType DEF AInv, PCs
<1>5. pos' \in [Conns -> Nat] /\ pos'[t] >= 1 /\ \A u \in Conns : u # t => pos'[u] = pos[u]
  <2>1. CASE UNCHANGED pos
        BY <1>2, <2>1
  <2>2. CASE pos' = [pos EXCEPT ![t] = @ + 1]
        BY <1>2, <2>2
  <2> QED BY <1>3, <2>1, <2>2
<1>6. out' \in [Conns -> Seq(Units)] /\ \A c \in Conns : got[c] <= Len(out'[c])
  <2>1. PICK unit \in {Unit("MSG_DATA"), Text(Len(log))} : \E ret : Send(clients[pos[t]], unit, ret)
        BY DEF SendTag, SendText
  <2>2. unit \in Units
        BY <1>2 DEF Unit, Text, Units, Tags
  <2>3. clients[pos[t]] \in Numbers
    <3>1. CASE SendText(t)
          BY <1>2, <3>1 DEF SendText, AInv, TypeOK
    <3>2. CASE SendTag(t)
          BY <1>2, <3>2 DEF SendTag
    <3> QED BY <3>1, <3>2
  <2>4. out' \in [Conns -> Seq(Units)] /\ \A c \in Conns : Len(out'[c]) >= Len(out[c])
        BY <2>1, <2>2, <2>3, SendType DEF AInv
  <2>5. ASSUME NEW c \in Conns
        PROVE  got[c] <= Len(out'[c])
    <3>1. got[c] \in Nat /\ out[c] \in Seq(Units) /\ got[c] <= Len(out[c])
          BY DEF AInv, TypeOK
    <3>2. Len(out[c]) \in Nat /\ Len(out'[c]) \in Nat /\ Len(out[c]) <= Len(out'[c])
          BY <2>4, <3>1
    <3> QED BY <3>1, <3>2
  <2> QED BY <2>4, <2>5
<1>7. TypeOK'
  <2>1. \A u \in Conns : pc'[u] = "sendtext" => pos'[u] \in DOMAIN clients'
        BY <1>1, <1>3, <1>4, <1>5 DEF AInv, TypeOK
  <2> QED BY <1>1, <1>4, <1>5, <1>6, <2>1 DEF AInv, TypeOK
<1>8. Kernel'
      BY <1>1, <1>3, <1>4, KernelKept DEF Sending, Receiving
<1>9. Locked'
      BY <1>1, <1>3, <1>4, <1>5 DEF AInv, Locked
<1>10. Filled'
      BY <1>1, <1>3, <1>4 DEF AInv, Filled, Named, Serving, Sending
<1>11. Books'
      BY <1>1, <1>3, <1>4, BooksKept DEF AInv, Registered
<1> QED BY <1>7, <1>8, <1>9, <1>10, <1>11 DEF AInv

LEMMA ADone ==
    ASSUME AInv, NEW t \in Conns, BroadcastDone(t)
    PROVE  AInv'
<1>1. /\ pc[t] = "sendtag" /\ mutex' = NoConn /\ Goto(t, "serve")
      /\ UNCHANGED <<life, sent, got, reads, in, out, file, confd, fd, at, who, msg, pos,
                     clients, log, shared>>
      BY DEF BroadcastDone, proc, wire, kernel, thread, hist
<1>2. "serve" \in PCs
      BY DEF PCs, Receiving
<1>3. pc' \in [Conns -> PCs] /\ \A u \in Conns : pc'[u] = IF u = t THEN "serve" ELSE pc[u]
      BY <1>1, <1>2, GotoType DEF AInv
<1>4. \A u \in Conns : pc'[u] \notin Sending
      BY <1>1, <1>3 DEF AInv, Locked, Sending
<1>5. TypeOK'
      BY <1>1, <1>3 DEF AInv, TypeOK
<1>6. Kernel'
      BY <1>1, <1>2, KernelKept DEF Receiving
<1>7. Locked'
      BY <1>1, <1>4, Sizes DEF Locked
<1>8. Filled'
      BY <1>1, <1>3 DEF AInv, Filled, Named, Serving, Sending
<1>9. Books'
      BY <1>1, <1>3, BooksKept DEF AInv, Registered, Sending
<1> QED BY <1>5, <1>6, <1>7, <1>8, <1>9 DEF AInv

(* The steps on the list                                                    *)
LEMMA RegisteredFinite ==
    \A f \in Numbers : /\ IsFiniteSet({u \in Registered : fd[u] = f})
                       /\ Cardinality({u \in Registered : fd[u] = f}) \in Nat
<1>1. ASSUME NEW f \in Numbers
      PROVE  {u \in Registered : fd[u] = f} \subseteq Conns
      BY DEF Registered
<1> QED BY <1>1, Sizes, FS_Subset, FS_CardinalityType

LEMMA AAdd ==
    ASSUME AInv, NEW t \in Conns, AddClient(t)
    PROVE  AInv'
<1>1. /\ pc[t] = "register" /\ mutex = NoConn /\ clients' = Append(clients, fd[t]) /\ Goto(t, "serve")
      /\ UNCHANGED <<life, sent, got, reads, in, out, file, confd, fd, at, who, msg, pos,
                     mutex, log, shared>>
      BY DEF AddClient, proc, wire, kernel, thread, hist
<1>2. "serve" \in PCs
      BY DEF PCs, Receiving
<1>3. pc' \in [Conns -> PCs] /\ \A u \in Conns : pc'[u] = IF u = t THEN "serve" ELSE pc[u]
      BY <1>1, <1>2, GotoType DEF AInv
<1>4. \A u \in Conns : pc[u] \notin Sending
      BY <1>1, Sizes DEF AInv, Locked
<1>5. fd[t] \in Numbers /\ clients \in Seq(Numbers)
      BY DEF AInv, TypeOK, Numbers
<1>6. TypeOK'
  <2>1. clients' \in Seq(Fds \cup {NoFd})
        BY <1>1, <1>5 DEF Numbers
  <2>2. \A u \in Conns : pc'[u] # "sendtext"
        BY <1>3, <1>4 DEF Sending
  <2> QED BY <1>1, <1>3, <2>1, <2>2 DEF AInv, TypeOK
<1>7. Kernel'
      BY <1>1, <1>2, KernelKept DEF Receiving
<1>8. Locked'
      BY <1>1, <1>3, <1>4, Sizes DEF Locked, Sending
<1>9. Filled'
      BY <1>1, <1>3 DEF AInv, Filled, Named, Serving
<1>10. Books'
  <2>1. Registered' = Registered \cup {t} /\ t \notin Registered
        BY <1>1, <1>3 DEF Registered, Sending
  <2>2. ASSUME NEW f \in Numbers
        PROVE  Cardinality(Places(f)') = Cardinality({u \in Registered : fd[u] = f}')
    <3> DEFINE R == {u \in Registered : fd[u] = f}
    <3>1. Cardinality(At(clients, f)) = Cardinality(R)
          BY DEF AInv, Books, At, Places, Numbers
    <3>2. Places(f)' = At(Append(clients, fd[t]), f)
          BY <1>1 DEF Places, At
    <3>3. R' = IF fd[t] = f THEN R \cup {t} ELSE R
          BY <1>1, <2>1
    <3>4. Cardinality(R') = IF fd[t] = f THEN Cardinality(R) + 1 ELSE Cardinality(R)
      <4>1. IsFiniteSet(R) /\ t \notin R
            BY <2>1, RegisteredFinite
      <4> QED BY <3>3, <4>1, OneMore
    <3>5. Cardinality(At(Append(clients, fd[t]), f))
             = IF fd[t] = f THEN Cardinality(At(clients, f)) + 1 ELSE Cardinality(At(clients, f))
          BY <1>5, AppendAt
    <3> QED BY <3>1, <3>2, <3>4, <3>5
  <2> QED BY <2>2 DEF Books, Numbers
<1> QED BY <1>6, <1>7, <1>8, <1>9, <1>10 DEF AInv

(* A thread that ended its session finds an entry of its descriptor, by the *)
(* books, and takes out the first.                                          *)
LEMMA RemoveEffect ==
    ASSUME AInv, NEW t \in Conns, RemoveClient(t)
    PROVE  \E i \in DOMAIN clients : clients[i] = fd[t] /\ clients' = Without(clients, i)
<1>1. pc[t] = "remove"
      BY DEF RemoveClient
<1>2. t \in {u \in Registered : fd[u] = fd[t]} /\ fd[t] \in Numbers
      BY <1>1, HasFd DEF Registered, AInv
<1>3. Places(fd[t]) # {}
  <2>1. Cardinality({u \in Registered : fd[u] = fd[t]}) # 0
        BY <1>2, RegisteredFinite, FS_EmptySet
  <2>2. Cardinality(Places(fd[t])) # 0
        BY <1>2, <2>1 DEF AInv, Books, Numbers
  <2> QED BY <2>2, FS_EmptySet
<1>4. Places(fd[t]) \in SUBSET Nat
      BY DEF Places, AInv, TypeOK
<1>5. \E p \in Places(fd[t]) : \A q \in Places(fd[t]) : p <= q
      BY <1>3, <1>4, LeastExists
<1> DEFINE i == CHOOSE p \in Places(fd[t]) : \A q \in Places(fd[t]) : p <= q
<1>6. i \in Places(fd[t])
      BY <1>5
<1>7. clients' = Without(clients, i)
      BY <1>3 DEF RemoveClient, Without
<1> QED BY <1>6, <1>7 DEF Places

LEMMA ARemove ==
    ASSUME AInv, NEW t \in Conns, RemoveClient(t)
    PROVE  AInv'
<1>1. /\ pc[t] = "remove" /\ mutex = NoConn /\ Goto(t, "gone")
      /\ UNCHANGED <<life, sent, got, reads, in, out, file, confd, fd, at, who, msg, pos,
                     mutex, log, shared>>
      BY DEF RemoveClient, proc, wire, kernel, thread, hist
<1>2. PICK i \in DOMAIN clients : clients[i] = fd[t] /\ clients' = Without(clients, i)
      BY RemoveEffect
<1>3. "gone" \in PCs
      BY DEF PCs
<1>4. pc' \in [Conns -> PCs] /\ \A u \in Conns : pc'[u] = IF u = t THEN "gone" ELSE pc[u]
      BY <1>1, <1>3, GotoType DEF AInv
<1>5. \A u \in Conns : pc[u] \notin Sending
      BY <1>1, Sizes DEF AInv, Locked
<1>6. clients \in Seq(Numbers)
      BY DEF AInv, TypeOK, Numbers
<1>7. TypeOK'
  <2>1. clients' \in Seq(Fds \cup {NoFd})
        BY <1>2, <1>6, WithoutType DEF Numbers
  <2>2. \A u \in Conns : pc'[u] # "sendtext"
        BY <1>4, <1>5 DEF Sending
  <2> QED BY <1>1, <1>4, <2>1, <2>2 DEF AInv, TypeOK
<1>8. Kernel'
      BY <1>1, <1>3, KernelKept DEF Receiving
<1>9. Locked'
      BY <1>1, <1>4, <1>5, Sizes DEF Locked, Sending
<1>10. Filled'
      BY <1>1, <1>4 DEF AInv, Filled, Named, Serving, Sending
<1>11. Books'
  <2>1. Registered' = Registered \ {t} /\ t \in Registered
        BY <1>1, <1>4 DEF Registered, Sending
  <2>2. ASSUME NEW f \in Numbers
        PROVE  Cardinality(Places(f)') = Cardinality({u \in Registered : fd[u] = f}')
    <3> DEFINE R == {u \in Registered : fd[u] = f}
    <3>1. Cardinality(At(clients, f)) = Cardinality(R)
          BY DEF AInv, Books, At, Places, Numbers
    <3>2. Places(f)' = At(Without(clients, i), f)
          BY <1>2 DEF Places, At
    <3>3. R' = IF fd[t] = f THEN R \ {t} ELSE R
          BY <1>1, <2>1
    <3>4. Cardinality(R') = IF fd[t] = f THEN Cardinality(R) - 1 ELSE Cardinality(R)
      <4>1. IsFiniteSet(R) /\ (fd[t] = f => t \in R)
            BY <2>1, RegisteredFinite
      <4> QED BY <3>3, <4>1, OneLess
    <3>5. Cardinality(At(Without(clients, i), f))
             = IF clients[i] = f THEN Cardinality(At(clients, f)) - 1 ELSE Cardinality(At(clients, f))
          BY <1>6, WithoutAt
    <3> QED BY <1>2, <3>1, <3>2, <3>4, <3>5
  <2> QED BY <2>2 DEF Books, Numbers
<1> QED BY <1>7, <1>8, <1>9, <1>10, <1>11 DEF AInv

LEMMA ANext == AInv /\ [Next]_vars => AInv'
<1> SUFFICES ASSUME AInv, [Next]_vars PROVE AInv'
    OBVIOUS
<1>1. CASE UNCHANGED vars
  <2>1. UNCHANGED <<life, sent, got, reads, in, out, file, confd, pc, fd, at, who, msg, pos,
                    clients, mutex, log, shared>>
        BY <1>1 DEF vars, proc, wire, kernel, thread, hist
  <2>2. TypeOK'
        BY <2>1 DEF AInv, TypeOK
  <2>3. Kernel' /\ Locked' /\ Filled'
        BY <2>1 DEF AInv, Kernel, Locked, Filled
  <2>4. Books'
        BY <2>1, BooksKept DEF AInv, Registered
  <2> QED BY <2>2, <2>3, <2>4 DEF AInv
<1>2. CASE AcceptFails
      BY <1>2, AAcceptFails
<1>3. ASSUME NEW c \in Conns, UserStep(c) \/ ClientStep(c) \/ Accept(c)
      PROVE  AInv'
      BY <1>3, AClient, AAccept
<1>4. ASSUME NEW t \in Conns, ThreadStep(t)
      PROVE  AInv'
      BY <1>4, AReadArg, ACall, AReceive, AFail, AReply, AAdd, ABroadcast, ASend, ADone, ARemove
         DEF ThreadStep
<1> QED BY <1>1, <1>2, <1>3, <1>4 DEF Next

LEMMA AInvariant == Spec => []AInv
BY AInit, ANext, PTL DEF Spec

(* Every variable keeps its type: a broadcast never looks past the list,    *)
(* and no client reads what it was not sent.                                *)
THEOREM TypeCorrect == Spec => []TypeOK
<1>1. AInv => TypeOK
      BY DEF AInv
<1> QED BY <1>1, AInvariant, PTL

(* A descriptor has as many entries as threads that will remove one.        *)
THEOREM BooksCorrect == Spec => []Books
<1>1. AInv => Books
      BY DEF AInv
<1> QED BY <1>1, AInvariant, PTL

-----------------------------------------------------------------------------
(* Whose descriptor it is.  As long as nobody else uses the descriptor of a *)
(* connection, its own thread alone receives from it, broadcasts what came  *)
(* from it, and closes it.                                                  *)

Serves(c) == pc[c] \in Live /\ file[fd[c]] = c

Own ==
    \A c \in Conns \ shared :
       /\ \A t \in Conns :
             /\ pc[t] \in Live /\ file[fd[t]] = c => t = c
             /\ at[t] = c => t = c /\ Serves(c)
             /\ pc[t] = "broadcast" /\ msg[t].from = c => t = c /\ Serves(c)
       /\ Serves(c) => at[c] \in {NoConn, c}
       /\ Serves(c) /\ pc[c] \in Named => who[c] = c

(* What a step of a thread past "start" does, as far as Own is concerned.   *)
LEMMA ThreadMoves ==
    ASSUME AInv, NEW t \in Conns, ThreadStep(t), ~ReadArg(t)
    PROVE  /\ pc[t] \in Live
           /\ UNCHANGED <<fd, shared, confd>>
           /\ \A u \in Conns : u # t => who'[u] = who[u] /\ msg'[u] = msg[u]
           /\ pc'[t] \in PCs \ {"none", "start"} /\ \A u \in Conns : u # t => pc'[u] = pc[u]
           /\ \/ UNCHANGED file /\ (pc'[t] \in Live \/ pc[t] = "remove")
              \/ Close(t) /\ pc'[t] \in {"refused", "remove"} /\ at'[t] = NoConn
           /\ \/ UNCHANGED at
              \/ at' = [at EXCEPT ![t] = NoConn]
              \/ at' = [at EXCEPT ![t] = file[fd[t]]] /\ UNCHANGED <<pc, file>>
           /\ pc'[t] \in Named => \/ pc[t] \in Named /\ UNCHANGED who
                                  \/ who'[t] = at[t] /\ at[t] # NoConn
           /\ pc'[t] = "broadcast" => msg'[t].from = at[t] /\ at[t] # NoConn
<1> USE DEF Live, Named, Serving, PCs, Receiving, Sending, Goto, wire, kernel, thread, hist
<1>0. /\ pc \in [Conns -> PCs]
      /\ at \in [Conns -> Conns \cup {NoConn}] /\ who \in [Conns -> Conns \cup {NoConn}]
      /\ msg \in [Conns -> [from : Conns \cup {NoConn}, n : Nat]]
      /\ at[t] # NoConn => pc[t] \in Receiving
      BY DEF AInv, TypeOK, Kernel
<1>1. CASE CheckLimit(t)    BY <1>0, <1>1 DEF CheckLimit
<1>2. CASE Call(t)          BY <1>0, <1>2 DEF Call
<1>3. CASE RecvTag(t)       BY <1>0, <1>3 DEF RecvTag, Receives
<1>4. CASE RecvName(t)      BY <1>0, <1>4 DEF RecvName, Receives
<1>5. CASE HelloFails(t)
  <2>1. at' = [at EXCEPT ![t] = NoConn] /\ at'[t] = NoConn
        BY <1>0, <1>5 DEF HelloFails, Fails
  <2> QED BY <1>0, <1>5, <2>1 DEF HelloFails
<1>6. CASE Reject(t)        BY <1>0, <1>6 DEF Reject
<1>7. CASE ReplyOK(t)       BY <1>0, <1>7 DEF ReplyOK
<1>8. CASE AddClient(t)     BY <1>0, <1>8 DEF AddClient
<1>9. CASE RecvMsgTag(t)    BY <1>0, <1>9 DEF RecvMsgTag, Receives
<1>10. CASE RecvText(t)
  <2>1. at' = [at EXCEPT ![t] = NoConn] /\ at[t] # NoConn
        BY <1>0, <1>10 DEF RecvText, Receives
  <2>2. msg'[t].from = at[t] /\ \A u \in Conns : u # t => msg'[u] = msg[u]
        BY <1>0, <1>10 DEF RecvText
  <2> QED BY <1>0, <1>10, <2>1, <2>2 DEF RecvText
<1>11. CASE SessionEnds(t)  BY <1>0, <1>11 DEF SessionEnds, Fails
<1>12. CASE Broadcast(t)    BY <1>0, <1>12 DEF Broadcast
<1>13. CASE SendTag(t)      BY <1>0, <1>13 DEF SendTag
<1>14. CASE SendText(t)     BY <1>0, <1>14 DEF SendText
<1>15. CASE BroadcastDone(t) BY <1>0, <1>15 DEF BroadcastDone
<1>16. CASE CloseSession(t) BY <1>0, <1>16 DEF CloseSession
<1>17. CASE RemoveClient(t) BY <1>0, <1>17 DEF RemoveClient
<1> QED BY <1>1, <1>2, <1>3, <1>4, <1>5, <1>6, <1>7, <1>8, <1>9, <1>10, <1>11,
           <1>12, <1>13, <1>14, <1>15, <1>16, <1>17 DEF ThreadStep

(* A thread past "start" serves its connection until it closes it.          *)
LEMMA KeepsServing ==
    ASSUME AInv, Own, NEW t \in Conns, ThreadStep(t), ~ReadArg(t), NEW c \in Conns \ shared
    PROVE  /\ Serves(c)' => Serves(c)
           /\ Serves(c) => Serves(c)' \/ (t = c /\ pc'[c] \in {"refused", "remove"} /\ at'[c] = NoConn)
<1>1. /\ pc[t] \in Live /\ UNCHANGED fd
      /\ pc'[t] \in PCs \ {"none", "start"} /\ \A u \in Conns : u # t => pc'[u] = pc[u]
      /\ \/ UNCHANGED file /\ (pc'[t] \in Live \/ pc[t] = "remove")
         \/ Close(t) /\ pc'[t] \in {"refused", "remove"} /\ at'[t] = NoConn
      BY ThreadMoves
<1>2. /\ file \in [Numbers -> Conns \cup {NoConn}] /\ fd \in [Conns -> Numbers]
      /\ \A f \in Numbers : file'[f] = IF UNCHANGED file \/ f # fd[t] THEN file[f] ELSE NoConn
      BY <1>1, HasFd DEF AInv, TypeOK, Numbers, Close
<1>3. c # NoConn
      BY Sizes
<1>4. Serves(c)' => Serves(c)
      BY <1>1, <1>2, <1>3 DEF Serves
<1>5. ASSUME Serves(c)
      PROVE  Serves(c)' \/ (t = c /\ pc'[c] \in {"refused", "remove"} /\ at'[c] = NoConn)
  <2>1. CASE t = c
    <3>1. CASE UNCHANGED file /\ (pc'[t] \in Live \/ pc[t] = "remove")
          BY <1>1, <1>5, <2>1, <3>1 DEF Serves, Kernel, AInv
    <3>2. CASE pc'[t] \in {"refused", "remove"} /\ at'[t] = NoConn
          BY <2>1, <3>2
    <3> QED BY <1>1, <3>1, <3>2
  <2>2. CASE t # c
    <3>1. file[fd[t]] # c
          BY <1>1, <2>2 DEF Own
    <3>2. fd[t] # fd[c]
          BY <1>5, <3>1 DEF Serves
    <3> QED BY <1>1, <1>2, <1>5, <2>2, <3>2 DEF Serves
  <2> QED BY <2>1, <2>2
<1> QED BY <1>4, <1>5

LEMMA OwnAccept ==
    ASSUME AInv, Own, NEW c \in Conns, Accept(c)
    PROVE  Own'
<1>1. confd' \in Fds /\ file[confd'] = NoConn /\ confd' \in Numbers
      BY FreeFd DEF Accept, AInv, Numbers
<1>2. /\ pc[c] = "none" /\ \A u \in Conns : pc'[u] = IF u = c THEN "start" ELSE pc[u]
      /\ \A f \in Numbers : file'[f] = IF f = confd' THEN c ELSE file[f]
      /\ shared' = IF Users(confd') = {} THEN shared ELSE shared \cup {c}
      /\ UNCHANGED <<fd, at, who, msg>>
      BY DEF Accept, Goto, thread, AInv, TypeOK, Numbers
<1>3. \A u \in Conns : fd[u] \in Numbers /\ (pc'[u] \in Live => pc[u] \in Live)
      BY <1>2, HasFd DEF AInv, Live
<1>4. ASSUME NEW d \in Conns \ shared, Serves(d)
      PROVE  Serves(d)'
  <2>1. pc[d] \in Live /\ file[fd[d]] = d /\ fd[d] \in Numbers /\ d # NoConn
        BY <1>3, <1>4, Sizes DEF Serves
  <2>2. d # c /\ pc'[d] = pc[d]
        BY <1>2, <2>1 DEF Live
  <2>3. fd[d] # confd'
        BY <1>1, <2>1
  <2>4. file'[fd[d]] = d /\ fd'[d] = fd[d]
        BY <1>2, <2>1, <2>3
  <2> QED BY <2>1, <2>2, <2>4 DEF Serves
<1>5. \A d \in Conns \ shared' : Serves(d)' => Serves(d)
  <2> SUFFICES ASSUME NEW d \in Conns \ shared', Serves(d)' PROVE Serves(d)
      OBVIOUS
  <2>1. pc[d] \in Live /\ d # c
        BY <1>2, <1>3 DEF Serves, Live
  <2> QED BY <1>2, <1>3, <2>1 DEF Serves
<1>6. ASSUME NEW d \in Conns \ shared', NEW t \in Conns, pc'[t] \in Live, file'[fd'[t]] = d
      PROVE  t = d
  <2>1. CASE fd[t] = confd'
    <3>1. t \in Users(confd')
          BY <1>3, <1>6, <2>1 DEF Users, Live
    <3>2. d = c
          BY <1>2, <1>3, <1>6, <2>1
    <3> QED BY <1>2, <3>1, <3>2
  <2>2. CASE fd[t] # confd'
        BY <1>2, <1>3, <1>6, <2>2 DEF Own
  <2> QED BY <2>1, <2>2
<1>7. ASSUME NEW t \in Conns, pc'[t] = "broadcast" \/ pc'[t] \in Named
      PROVE  pc'[t] = pc[t]
      BY <1>2, <1>7 DEF Named, Serving, Sending
<1>8. shared \subseteq shared'
      BY <1>2
<1> QED BY <1>2, <1>4, <1>5, <1>6, <1>7, <1>8 DEF Own

LEMMA OwnReadArg ==
    ASSUME AInv, Own, NEW t \in Conns, ReadArg(t)
    PROVE  Own'
<1>1. /\ pc[t] = "start"
      /\ \A u \in Conns : pc'[u] = IF u = t THEN "limit" ELSE pc[u]
      /\ \A u \in Conns : fd'[u] = IF u = t THEN confd ELSE fd[u]
      /\ shared' = shared \cup ({file[confd]} \ {t, NoConn})
      /\ UNCHANGED <<file, at, who, msg>>
      BY DEF ReadArg, Goto, kernel, AInv, TypeOK
<1>2. at[t] = NoConn
      BY <1>1 DEF AInv, Kernel, Receiving
<1>3. \A d \in Conns : d # t => (Serves(d)' <=> Serves(d))
      BY <1>1 DEF Serves
<1>4. ~Serves(t)
      BY <1>1 DEF Serves, Live
<1>5. \A d \in Conns \ shared', u \in Conns : pc'[u] \in Live /\ file'[fd'[u]] = d => u = d
      BY <1>1, Sizes DEF Own
<1>6. ~(pc'[t] = "broadcast" \/ pc'[t] \in Named)
      BY <1>1 DEF Named, Serving, Sending
<1> QED BY <1>1, <1>2, <1>3, <1>4, <1>5, <1>6 DEF Own

LEMMA OwnThread ==
    ASSUME AInv, Own, NEW t \in Conns, ThreadStep(t), ~ReadArg(t)
    PROVE  Own'
<1>1. /\ pc[t] \in Live /\ UNCHANGED <<fd, shared>>
      /\ \A u \in Conns : u # t => who'[u] = who[u] /\ msg'[u] = msg[u] /\ pc'[u] = pc[u]
      /\ \/ UNCHANGED file
         \/ Close(t)
      /\ \/ UNCHANGED at
         \/ at' = [at EXCEPT ![t] = NoConn]
         \/ at' = [at EXCEPT ![t] = file[fd[t]]] /\ UNCHANGED <<pc, file>>
      BY ThreadMoves
<1>2. /\ pc'[t] \in Named => \/ pc[t] \in Named /\ UNCHANGED who
                             \/ who'[t] = at[t] /\ at[t] # NoConn
      /\ pc'[t] = "broadcast" => msg'[t].from = at[t] /\ at[t] # NoConn
      /\ UNCHANGED file \/ pc'[t] \in {"refused", "remove"}
      BY ThreadMoves
<1>3. /\ \A f \in Numbers : file'[f] \in {file[f], NoConn}
      /\ \A u \in Conns : fd[u] \in Numbers /\ at[u] \in Conns \cup {NoConn}
      /\ \A u \in Conns : u # t => at'[u] = at[u]
      /\ \/ at'[t] \in {at[t], NoConn}
         \/ at'[t] = file[fd[t]] /\ UNCHANGED <<pc, file>>
      BY <1>1, HasFd DEF AInv, TypeOK, Close, Numbers
<1> SUFFICES ASSUME NEW c \in Conns \ shared
             PROVE  /\ \A u \in Conns :
                          /\ pc'[u] \in Live /\ file'[fd'[u]] = c => u = c
                          /\ at'[u] = c => u = c /\ Serves(c)'
                          /\ pc'[u] = "broadcast" /\ msg'[u].from = c => u = c /\ Serves(c)'
                    /\ Serves(c)' => at'[c] \in {NoConn, c}
                    /\ Serves(c)' /\ pc'[c] \in Named => who'[c] = c
    BY <1>1 DEF Own
<1>4. /\ Serves(c)' => Serves(c)
      /\ Serves(c) => Serves(c)' \/ (t = c /\ pc'[c] \in {"refused", "remove"} /\ at'[c] = NoConn)
      BY KeepsServing
<1>5. c # NoConn
      BY Sizes
<1>6. ASSUME NEW u \in Conns, pc'[u] \in Live, file'[fd'[u]] = c
      PROVE  u = c
  <2>1. pc[u] \in Live /\ file[fd[u]] = c
        BY <1>1, <1>3, <1>5, <1>6
  <2> QED BY <2>1 DEF Own
<1>7. ASSUME NEW u \in Conns, at'[u] = c
      PROVE  u = c /\ Serves(c)'
  <2>1. CASE at[u] = c
        BY <1>4, <1>5, <1>7, <2>1 DEF Own
  <2>2. CASE at[u] # c
    <3>1. u = t /\ file[fd[t]] = c /\ UNCHANGED <<pc, file, fd>>
          BY <1>1, <1>3, <1>5, <1>7, <2>2
    <3>2. t = c /\ Serves(c)
          BY <1>1, <3>1 DEF Own, Serves
    <3> QED BY <3>1, <3>2 DEF Serves
  <2> QED BY <2>1, <2>2
<1>8. ASSUME NEW u \in Conns, pc'[u] = "broadcast", msg'[u].from = c
      PROVE  u = c /\ Serves(c)'
  <2>1. u = c /\ Serves(c)
    <3>1. CASE u = t
          BY <1>2, <1>8, <3>1 DEF Own
    <3>2. CASE u # t
          BY <1>1, <1>8, <3>2 DEF Own
    <3> QED BY <3>1, <3>2
  <2> QED BY <1>4, <1>8, <2>1
<1>9. ASSUME Serves(c)'
      PROVE  /\ at'[c] \in {NoConn, c}
             /\ pc'[c] \in Named => who'[c] = c
  <2>1. Serves(c) /\ at[c] \in {NoConn, c}
        BY <1>4, <1>9 DEF Own
  <2>2. at'[c] \in {NoConn, c}
        BY <1>3, <2>1 DEF Serves
  <2>3. ASSUME pc'[c] \in Named
        PROVE  who'[c] = c
    <3>1. CASE c = t
          BY <1>2, <2>1, <2>3, <3>1 DEF Own
    <3>2. CASE c # t
          BY <1>1, <2>1, <2>3, <3>2 DEF Own
    <3> QED BY <3>1, <3>2
  <2> QED BY <2>2, <2>3
<1> QED BY <1>6, <1>7, <1>8, <1>9

LEMMA OwnNext ==
    ASSUME AInv, Own, [Next]_vars
    PROVE  Own'
<1>1. CASE UNCHANGED vars
      BY <1>1 DEF vars, kernel, thread, hist, Own, Serves
<1>2. CASE AcceptFails
      BY <1>2 DEF AcceptFails, thread, hist, Own, Serves
<1>3. ASSUME NEW c \in Conns, UserStep(c) \/ ClientStep(c)
      PROVE  Own'
      BY <1>3, ClientType DEF Own, Serves
<1>4. ASSUME NEW c \in Conns, Accept(c) \/ ThreadStep(c)
      PROVE  Own'
      BY <1>4, OwnAccept, OwnReadArg, OwnThread
<1> QED BY <1>1, <1>2, <1>3, <1>4 DEF Next

LEMMA OwnInit == Init => Own
BY Sizes DEF Init, Own, Serves, Live

-----------------------------------------------------------------------------
(* What a client is sent                                                    *)

(* A session before its reply, and the reply before the registration.       *)
Early == {"none", "start", "limit", "tag", "name", "reject", "ok"}

Stopped == {"reject", "close", "remove", "refused", "gone"}

Opened(c) ==
    /\ pc[c] \in Early => out[c] = <<>>
    /\ pc[c] = "register" => Len(out[c]) <= 1
    /\ out[c] # <<>> /\ pc[c] \in Live => pc[c] = "remove" \/ Serves(c)
    /\ Serves(c) /\ pc[c] \notin Early /\ life[c] = "up" => out[c] # <<>>

(* InOrder, for what one client was sent.                                   *)
Shape(s) ==
    \A i \in DOMAIN s :
        /\ i = 1 <=> s[i].what \in {"HELLO_OK", "HELLO_ERROR"}
        /\ i > 1 /\ i % 2 = 0 => s[i].what = "MSG_DATA"
        /\ i > 1 /\ i % 2 = 1 => s[i].what = "text"
        /\ i > 3 /\ i % 2 = 1 => s[i].n = s[i - 2].n + 1

Last(c) == out[c][Len(out[c])]

(* How far the broadcast under way has come for a registered client, by the *)
(* place of its entry.                                                      *)
Current(c) ==
    Serves(c) /\ c \in Registered /\ life[c] = "up" =>
       /\ mutex = NoConn /\ Len(out[c]) > 1 => Last(c) = Text(Len(log))
       /\ \A t \in Conns, i \in Places(fd[c]) :
             pc[t] \in Sending =>
                IF i = pos[t] /\ pc[t] = "sendtext"
                THEN /\ Len(out[c]) > 1 /\ Last(c) = Unit("MSG_DATA")
                     /\ Len(out[c]) > 2 => out[c][Len(out[c]) - 1] = Text(Len(log) - 1)
                ELSE Len(out[c]) > 1 =>
                        Last(c) = Text(IF i < pos[t] THEN Len(log) ELSE Len(log) - 1)

Started == \A c \in Conns : life[c] = "new" => pc[c] = "none"

CInv == Started /\ \A c \in Conns \ shared : Opened(c) /\ Shape(out[c]) /\ Current(c)

(* An entry with the descriptor of a connection is that of its thread, and  *)
(* there is one.                                                            *)
LEMMA Entry ==
    ASSUME AInv, Own, NEW c \in Conns \ shared, NEW i \in DOMAIN clients, file[clients[i]] = c
    PROVE  c \in Registered /\ Serves(c) /\ fd[c] = clients[i]
<1> DEFINE f == clients[i]
           R == {t \in Registered : fd[t] = f}
<1>1. f \in Numbers /\ i \in Places(f)
      BY DEF AInv, TypeOK, Numbers, Places
<1>2. Cardinality(Places(f)) = Cardinality(R)
      BY <1>1 DEF AInv, Books, Numbers
<1>3. R # {}
  <2>1. At(clients, f) = Places(f) /\ clients \in Seq(Numbers)
        BY DEF At, Places, AInv, TypeOK, Numbers
  <2>2. IsFiniteSet(Places(f))
        BY <2>1, AppendAt, <1>1
  <2>3. Cardinality(Places(f)) # 0
        BY <1>1, <2>2, FS_EmptySet
  <2> QED BY <1>2, <2>3, FS_EmptySet
<1>4. PICK u \in Registered : fd[u] = f
      BY <1>3
<1>5. u \in Conns /\ pc[u] \in Live
      BY DEF Registered, Live, PCs, Receiving, Sending
<1>6. u = c
      BY <1>4, <1>5 DEF Own
<1> QED BY <1>4, <1>5, <1>6 DEF Serves

LEMMA OnePlace ==
    ASSUME AInv, Own, NEW c \in Conns \ shared, Serves(c), c \in Registered
    PROVE  \E i : Places(fd[c]) = {i}
<1> DEFINE R == {t \in Registered : fd[t] = fd[c]}
<1>1. ASSUME NEW u \in R
      PROVE  u = c
  <2>1. u \in Conns /\ pc[u] \in Live /\ file[fd[u]] = c
        BY DEF Registered, Live, PCs, Receiving, Sending, Serves
  <2> QED BY <2>1 DEF Own
<1>2. R = {c}
      BY <1>1
<1>3. Cardinality(R) = 1
      BY <1>2, FS_Singleton
<1>4. Cardinality(Places(fd[c])) = 1
      BY <1>3, HasFd DEF AInv, Books, Numbers
<1>5. IsFiniteSet(Places(fd[c]))
  <2>1. At(clients, fd[c]) = Places(fd[c]) /\ clients \in Seq(Numbers) /\ fd[c] \in Numbers
        BY HasFd DEF At, Places, AInv, TypeOK, Numbers
  <2> QED BY <2>1, AppendAt
<1> QED BY <1>4, <1>5, FS_Singleton

(* The course of a session.                                                 *)
LEMMA Labels ==
    ASSUME AInv, NEW t \in Conns, ThreadStep(t)
    PROVE  /\ pc[t] \in Live \cup {"start"} /\ pc'[t] \notin {"none", "start"}
           /\ \A u \in Conns : u # t => pc'[u] = pc[u]
           /\ pc'[t] \in Early => pc[t] \in Early
           /\ pc'[t] = "register" => pc[t] = "ok"
           /\ pc[t] = "remove" => pc'[t] = "gone"
           /\ pc[t] \in Stopped => pc'[t] \in Stopped
           /\ pc[t] \in Early /\ pc'[t] \notin Early => pc'[t] = "refused" \/ ReplyOK(t)
           /\ UNCHANGED life
<1> USE DEF Early, Live, Stopped, PCs, Receiving, Sending, Goto, proc
<1>0. pc \in [Conns -> PCs]
      BY DEF AInv, TypeOK
<1>1. CASE CheckLimit(t) \/ Call(t) \/ ReadArg(t)
      BY <1>0, <1>1 DEF CheckLimit, Call, ReadArg, kernel, wire
<1>2. CASE RecvTag(t) \/ RecvName(t) \/ HelloFails(t)
      BY <1>0, <1>2 DEF RecvTag, RecvName, HelloFails
<1>3. CASE Reject(t) \/ ReplyOK(t)
      BY <1>0, <1>3 DEF Reject, ReplyOK
<1>4. CASE AddClient(t) \/ RemoveClient(t) \/ CloseSession(t)
      BY <1>0, <1>4 DEF AddClient, RemoveClient, CloseSession
<1>5. CASE RecvMsgTag(t) \/ RecvText(t) \/ SessionEnds(t)
      BY <1>0, <1>5 DEF RecvMsgTag, RecvText, SessionEnds
<1>6. CASE Broadcast(t) \/ BroadcastDone(t)
      BY <1>0, <1>6 DEF Broadcast, BroadcastDone
<1>7. CASE SendTag(t) \/ SendText(t)
      BY <1>0, <1>7 DEF SendTag, SendText
<1> QED BY <1>1, <1>2, <1>3, <1>4, <1>5, <1>6, <1>7 DEF ThreadStep

LEMMA Course ==
    ASSUME AInv, Own, Started, [Next]_vars, NEW c \in Conns \ shared'
    PROVE  /\ c \in Conns \ shared
           /\ pc'[c] \in Early => pc[c] \in Early
           /\ pc'[c] = "register" => pc[c] \in {"ok", "register"}
           /\ pc[c] = "remove" => pc'[c] \in {"remove", "gone"}
           /\ pc'[c] \in Live => pc[c] \in Live \cup {"start"}
           /\ pc[c] \in Early /\ pc'[c] \notin Early => pc'[c] = "refused" \/ ReplyOK(c)
           /\ Serves(c)' => Serves(c) \/ (pc[c] = "start" /\ pc'[c] = "limit")
           /\ Serves(c) => Serves(c)' \/ pc'[c] \in {"refused", "remove"}
           /\ pc[c] \in Live /\ life'[c] = "up" => life[c] = "up"
<1> USE DEF Early, Live
<1>1. CASE UNCHANGED vars
      BY <1>1 DEF vars, proc, kernel, thread, hist, Serves
<1>2. CASE AcceptFails
      BY <1>2 DEF AcceptFails, proc, thread, hist, Serves
<1>3. ASSUME NEW d \in Conns, UserStep(d) \/ ClientStep(d)
      PROVE  /\ UNCHANGED <<pc, file, fd, shared>>
             /\ life[c] # "new" /\ life'[c] = "up" => life[c] = "up"
  <2>1. UNCHANGED <<pc, file, fd, shared>>
        BY <1>3, ClientType
  <2>2. life[c] # "new" /\ life'[c] = "up" => life[c] = "up"
        BY <1>3 DEF UserStep, ClientStep, Connect, Say, SayGoodbye, Die, SendHello, SendNext,
                    RecvReply, RecvShow, Expect, Exit, AInv, TypeOK
  <2> QED BY <2>1, <2>2
<1>4. ASSUME NEW d \in Conns, Accept(d)
      PROVE  /\ pc[d] = "none" /\ \A u \in Conns : pc'[u] = IF u = d THEN "start" ELSE pc[u]
             /\ UNCHANGED <<fd, life>> /\ shared \subseteq shared'
             /\ c # d => (Serves(c)' <=> Serves(c))
  <2>1. confd' \in Numbers /\ file[confd'] = NoConn /\ file' = [file EXCEPT ![confd'] = d]
        BY <1>4, FreeFd DEF Accept, AInv, Numbers
  <2>2. /\ pc[d] = "none" /\ \A u \in Conns : pc'[u] = IF u = d THEN "start" ELSE pc[u]
        /\ UNCHANGED <<fd, life>> /\ shared \subseteq shared'
        BY <1>4 DEF Accept, Goto, proc, thread, AInv, TypeOK
  <2>3. ASSUME c # d
        PROVE  Serves(c)' <=> Serves(c)
    <3>1. fd[c] \in Numbers /\ c # NoConn
          BY HasFd, Sizes DEF AInv
    <3>2. \A f \in Numbers : file'[f] = IF f = confd' THEN d ELSE file[f]
          BY <2>1 DEF AInv, TypeOK, Numbers
    <3> QED BY <2>1, <2>2, <2>3, <3>1, <3>2 DEF Serves
  <2> QED BY <2>2, <2>3
<1>5. ASSUME NEW t \in Conns, ReadArg(t)
      PROVE  /\ pc[t] = "start" /\ \A u \in Conns : pc'[u] = IF u = t THEN "limit" ELSE pc[u]
             /\ UNCHANGED <<life, file>> /\ shared \subseteq shared'
             /\ \A u \in Conns : u # t => fd'[u] = fd[u]
      BY <1>5 DEF ReadArg, Goto, proc, kernel, AInv, TypeOK
<1>6. ASSUME NEW t \in Conns, ThreadStep(t), ~ReadArg(t), c \in Conns \ shared
      PROVE  /\ Serves(c)' => Serves(c)
             /\ Serves(c) => Serves(c)' \/ (t = c /\ pc'[c] \in {"refused", "remove"})
             /\ UNCHANGED shared
      BY <1>6, KeepsServing, ThreadMoves
<1>7. CASE \E d \in Conns : UserStep(d) \/ ClientStep(d)
      BY <1>3, <1>7 DEF Serves, Started
<1>8. CASE \E d \in Conns : Accept(d)
      BY <1>4, <1>8 DEF Serves
<1>9. CASE \E t \in Conns : ReadArg(t)
      BY <1>5, <1>9 DEF Serves
<1>10. CASE \E t \in Conns : ThreadStep(t) /\ ~ReadArg(t)
  <2>1. PICK t \in Conns : ThreadStep(t) /\ ~ReadArg(t)
        BY <1>10
  <2>2. c \in Conns \ shared
        BY <2>1, ThreadMoves
  <2>3. /\ pc[t] \in Live \cup {"start"} /\ pc'[t] \notin {"none", "start"}
        /\ \A u \in Conns : u # t => pc'[u] = pc[u]
        /\ pc'[t] \in Early => pc[t] \in Early
        /\ pc'[t] = "register" => pc[t] = "ok"
        /\ pc[t] = "remove" => pc'[t] = "gone"
        /\ pc[t] \in Early /\ pc'[t] \notin Early => pc'[t] = "refused" \/ ReplyOK(t)
        /\ UNCHANGED life
        BY <2>1, Labels
  <2>4. /\ Serves(c)' => Serves(c)
        /\ Serves(c) => Serves(c)' \/ (t = c /\ pc'[c] \in {"refused", "remove"})
        BY <1>6, <2>1, <2>2
  <2> HIDE DEF Early, Live
  <2> QED BY <2>2, <2>3, <2>4
<1> QED BY <1>1, <1>2, <1>7, <1>8, <1>9, <1>10 DEF Next

LEMMA UnitTypes ==
    ASSUME AInv
    PROVE  /\ Unit("HELLO_OK") \in Units /\ Unit("HELLO_ERROR") \in Units
           /\ Unit("MSG_DATA") \in Units /\ Text(Len(log)) \in Units
<1>1. Len(log) \in Nat
      BY DEF AInv, TypeOK
<1> QED BY <1>1 DEF Unit, Text, Units, Tags

LEMMA Replies ==
    ASSUME AInv, Own, NEW t \in Conns, Reject(t) \/ ReplyOK(t), NEW c \in Conns \ shared
    PROVE  /\ \/ out'[c] = out[c]
              \/ Reject(t) /\ t = c /\ Serves(c) /\ out'[c] = Append(out[c], Unit("HELLO_ERROR"))
              \/ ReplyOK(t) /\ t = c /\ Serves(c) /\ out'[c] = Append(out[c], Unit("HELLO_OK"))
           /\ ReplyOK(t) /\ t = c /\ Serves(c) /\ life[c] = "up"
                 => out'[c] = Append(out[c], Unit("HELLO_OK"))
<1>1. PICK unit \in Units :
         /\ \E ret : Send(fd[t], unit, ret)
         /\ \/ Reject(t) /\ unit = Unit("HELLO_ERROR")
            \/ ReplyOK(t) /\ unit = Unit("HELLO_OK")
      BY UnitTypes DEF Reject, ReplyOK
<1>2. pc[t] \in Live /\ (ReplyOK(t) => ~Reject(t))
      BY DEF Reject, ReplyOK, Live, PCs
<1>3. /\ out'[c] = out[c] \/ (file[fd[t]] = c /\ out'[c] = Append(out[c], unit))
      /\ file[fd[t]] = c /\ life[c] = "up" => out'[c] = Append(out[c], unit)
      BY <1>1, HasFd, SendType DEF AInv
<1>4. file[fd[t]] = c => t = c /\ Serves(c)
      BY <1>2 DEF Own, Serves
<1> QED BY <1>1, <1>2, <1>3, <1>4 DEF Serves

LEMMA Broadcasts ==
    ASSUME AInv, Own, NEW t \in Conns, SendTag(t) \/ SendText(t), NEW c \in Conns \ shared
    PROVE  \/ /\ out'[c] = out[c]
              /\ Serves(c) /\ life[c] = "up" => pos[t] \notin Places(fd[c])
           \/ /\ c \in Registered /\ Serves(c) /\ life[c] = "up" /\ pos[t] \in Places(fd[c])
              /\ \/ /\ SendTag(t) /\ out'[c] = Append(out[c], Unit("MSG_DATA"))
                    /\ Goto(t, "sendtext") /\ UNCHANGED pos
                 \/ SendText(t) /\ out'[c] = Append(out[c], Text(Len(log)))
<1>1. pos[t] \in DOMAIN clients /\ clients[pos[t]] \in Numbers
  <2>1. clients \in Seq(Numbers) /\ pos[t] \in Nat
        BY DEF AInv, TypeOK, Numbers
  <2>2. pos[t] \in DOMAIN clients
    <3>1. CASE SendText(t)
          BY <3>1 DEF SendText, AInv, TypeOK
    <3>2. CASE SendTag(t)
      <4>1. pos[t] >= 1 /\ pos[t] <= Len(clients)
            BY <3>2 DEF SendTag, AInv, Locked, Sending
      <4> QED BY <2>1, <4>1
    <3> QED BY <3>1, <3>2
  <2> QED BY <2>1, <2>2
<1>2. PICK unit \in Units, ret \in {1, -1} :
         /\ Send(clients[pos[t]], unit, ret)
         /\ \/ /\ SendTag(t) /\ unit = Unit("MSG_DATA")
               /\ ret = 1 => Goto(t, "sendtext") /\ UNCHANGED pos
            \/ SendText(t) /\ unit = Text(Len(log))
      BY UnitTypes DEF SendTag, SendText
<1>3. /\ \/ out'[c] = out[c]
         \/ out'[c] = Append(out[c], unit) /\ file[clients[pos[t]]] = c /\ life[c] = "up" /\ ret = 1
      /\ file[clients[pos[t]]] = c /\ life[c] = "up" => out'[c] = Append(out[c], unit)
      BY <1>1, <1>2, SendType DEF AInv
<1>4. out'[c] = Append(out[c], unit) => out'[c] # out[c]
  <2>1. out[c] \in Seq(Units)
        BY DEF AInv, TypeOK
  <2>2. Len(Append(out[c], unit)) = Len(out[c]) + 1 /\ Len(out[c]) \in Nat
        BY <2>1
  <2> QED BY <2>2
<1>5. file[clients[pos[t]]] = c => c \in Registered /\ Serves(c) /\ fd[c] = clients[pos[t]]
      BY <1>1, Entry
<1>6. Serves(c) /\ pos[t] \in Places(fd[c]) => file[clients[pos[t]]] = c
      BY DEF Serves, Places
<1> QED BY <1>1, <1>2, <1>3, <1>4, <1>5, <1>6 DEF Places

(* Who sends what to a connection whose descriptor nobody else has used:    *)
(* its own thread the reply, and the broadcasting thread, at its entry.     *)
LEMMA Sends ==
    ASSUME AInv, Own, [Next]_vars, NEW c \in Conns \ shared
    PROVE  \/ out'[c] = out[c]
           \/ Reject(c) /\ Serves(c) /\ out'[c] = Append(out[c], Unit("HELLO_ERROR"))
           \/ ReplyOK(c) /\ Serves(c) /\ out'[c] = Append(out[c], Unit("HELLO_OK"))
           \/ \E t \in Conns :
                 /\ c \in Registered /\ Serves(c) /\ life[c] = "up"
                 /\ pos[t] \in Places(fd[c])
                 /\ \/ SendTag(t) /\ out'[c] = Append(out[c], Unit("MSG_DATA"))
                    \/ SendText(t) /\ out'[c] = Append(out[c], Text(Len(log)))
<1>1. ASSUME NEW d \in Conns, UserStep(d) \/ ClientStep(d) \/ Accept(d)
      PROVE  UNCHANGED out
      BY <1>1, ClientType DEF Accept, wire
<1>2. CASE AcceptFails \/ UNCHANGED vars
      BY <1>2 DEF AcceptFails, vars, wire
<1>3. ASSUME NEW t \in Conns, Reject(t) \/ ReplyOK(t)
      PROVE  \/ out'[c] = out[c]
             \/ Reject(c) /\ Serves(c) /\ out'[c] = Append(out[c], Unit("HELLO_ERROR"))
             \/ ReplyOK(c) /\ Serves(c) /\ out'[c] = Append(out[c], Unit("HELLO_OK"))
      BY <1>3, Replies
<1>4. ASSUME NEW t \in Conns, SendTag(t) \/ SendText(t)
      PROVE  \/ out'[c] = out[c]
             \/ /\ c \in Registered /\ Serves(c) /\ life[c] = "up" /\ pos[t] \in Places(fd[c])
                /\ \/ SendTag(t) /\ out'[c] = Append(out[c], Unit("MSG_DATA"))
                   \/ SendText(t) /\ out'[c] = Append(out[c], Text(Len(log)))
      BY <1>4, Broadcasts
<1>5. ASSUME NEW t \in Conns, ThreadStep(t), ~Reject(t), ~ReplyOK(t), ~SendTag(t), ~SendText(t)
      PROVE  UNCHANGED out
  <2>1. CASE ReadArg(t) \/ CheckLimit(t) \/ Call(t) \/ RecvTag(t) \/ RecvName(t) \/ HelloFails(t)
        BY <2>1 DEF ReadArg, CheckLimit, Call, RecvTag, RecvName, HelloFails, wire
  <2>2. CASE AddClient(t) \/ RecvMsgTag(t) \/ RecvText(t) \/ SessionEnds(t)
        BY <2>2 DEF AddClient, RecvMsgTag, RecvText, SessionEnds, wire
  <2>3. CASE Broadcast(t) \/ BroadcastDone(t) \/ CloseSession(t) \/ RemoveClient(t)
        BY <2>3 DEF Broadcast, BroadcastDone, CloseSession, RemoveClient, wire
  <2> QED BY <1>5, <2>1, <2>2, <2>3 DEF ThreadStep
<1> QED BY <1>1, <1>2, <1>3, <1>4, <1>5 DEF Next

LEMMA OpenedStep ==
    ASSUME AInv, Own, CInv, [Next]_vars, NEW c \in Conns \ shared'
    PROVE  Opened(c)'
<1>1. /\ c \in Conns \ shared
      /\ pc'[c] \in Early => pc[c] \in Early
      /\ pc'[c] = "register" => pc[c] \in {"ok", "register"}
      /\ pc[c] = "remove" => pc'[c] \in {"remove", "gone"}
      /\ pc'[c] \in Live => pc[c] \in Live \cup {"start"}
      /\ pc[c] \in Early /\ pc'[c] \notin Early => pc'[c] = "refused" \/ ReplyOK(c)
      /\ Serves(c)' => Serves(c) \/ pc'[c] = "limit"
      /\ Serves(c) => Serves(c)' \/ pc'[c] \in {"refused", "remove"}
      /\ pc[c] \in Live /\ life'[c] = "up" => life[c] = "up"
      BY Course DEF CInv
<1>2. Opened(c)
      BY <1>1 DEF CInv
<1>3. out[c] \in Seq(Units)
      BY DEF AInv, TypeOK
<1>4. /\ out'[c] = out[c] \/ \E unit \in Units : out'[c] = Append(out[c], unit)
      /\ \/ out'[c] = out[c]
         \/ Serves(c) /\ pc[c] = "reject" /\ pc'[c] = "refused"
         \/ Serves(c) /\ pc[c] = "ok" /\ pc'[c] = "register"
         \/ Serves(c) /\ c \in Registered
  <2>1. Reject(c) => pc[c] = "reject" /\ pc'[c] = "refused"
        BY DEF Reject, Goto, AInv, TypeOK
  <2>2. ReplyOK(c) => pc[c] = "ok" /\ pc'[c] = "register"
        BY DEF ReplyOK, Goto, AInv, TypeOK
  <2> QED BY <1>1, <2>1, <2>2, Sends, UnitTypes
<1>5. c \in Registered => pc[c] \notin Early \cup {"register"}
      BY DEF Registered, Sending, Early
<1>6. {"refused", "gone"} \cap Live = {} /\ {"refused", "remove", "register"} \cap Early = {}
      /\ {"reject", "ok", "start", "limit"} \subseteq Early
      BY DEF Live, Early
<1>7. \A unit \in Units : /\ Append(out[c], unit) # <<>>
                          /\ Len(Append(out[c], unit)) = Len(out[c]) + 1
      BY <1>3
<1>8. pc'[c] \in Early => out'[c] = <<>>
      BY <1>1, <1>2, <1>4, <1>5, <1>6 DEF Opened
<1>9. pc'[c] = "register" => Len(out'[c]) <= 1
  <2>1. pc[c] = "ok" /\ pc'[c] = "register" => Len(out'[c]) <= 1
    <3>1. Len(<<>>) = 0
          OBVIOUS
    <3> QED BY <1>2, <1>4, <1>6, <1>7, <3>1 DEF Opened
  <2>2. pc[c] = "register" /\ pc'[c] = "register" => Len(out'[c]) <= 1
        BY <1>2, <1>4, <1>5 DEF Opened
  <2> QED BY <1>1, <2>1, <2>2
<1>10. out'[c] # <<>> /\ pc'[c] \in Live => pc'[c] = "remove" \/ Serves(c)'
  <2>1. out'[c] # <<>> /\ pc'[c] \in Live => Serves(c) \/ pc[c] = "remove"
        BY <1>1, <1>2, <1>4, <1>6 DEF Opened
  <2> QED BY <1>1, <1>6, <2>1
<1>11. Serves(c)' /\ pc'[c] \notin Early /\ life'[c] = "up" => out'[c] # <<>>
  <2> SUFFICES ASSUME Serves(c)', pc'[c] \notin Early, life'[c] = "up" PROVE out'[c] # <<>>
      OBVIOUS
  <2>1. Serves(c) /\ life[c] = "up"
        BY <1>1, <1>6 DEF Serves
  <2>2. CASE pc[c] \in Early
    <3>1. ReplyOK(c)
          BY <1>1, <1>6, <2>2 DEF Serves
    <3>2. out'[c] = Append(out[c], Unit("HELLO_OK"))
          BY <1>1, <2>1, <3>1, Replies
    <3> QED BY <1>7, <3>2, UnitTypes
  <2>3. CASE pc[c] \notin Early
        BY <1>2, <1>4, <1>7, <2>1, <2>3 DEF Opened
  <2> QED BY <2>2, <2>3
<1> QED BY <1>8, <1>9, <1>10, <1>11 DEF Opened

LEMMA Parity == \A k \in Nat : k % 2 \in {0, 1}
OBVIOUS

LEMMA ShapeAppend ==
    ASSUME NEW s \in Seq(Units), Shape(s), NEW u \in Units, NEW k \in Nat, k = Len(s),
           k = 0 <=> u.what \in {"HELLO_OK", "HELLO_ERROR"},
           k > 0 /\ k % 2 = 1 => u.what = "MSG_DATA",
           k > 0 /\ k % 2 = 0 => u.what = "text",
           k > 2 /\ k % 2 = 0 => u.n = s[k - 1].n + 1
    PROVE  Shape(Append(s, u))
<1> DEFINE r == Append(s, u)
           n == k + 1
<1>1. n \in Nat \ {0} /\ DOMAIN r = 1 .. n /\ DOMAIN s = 1 .. n - 1 /\ k = n - 1
      OBVIOUS
<1>2. r[n] = u /\ \A i \in 1 .. n - 1 : r[i] = s[i]
      OBVIOUS
<1> HIDE DEF r, n
<1>3. /\ n = 1 <=> u.what \in {"HELLO_OK", "HELLO_ERROR"}
      /\ n > 1 /\ n % 2 = 0 => u.what = "MSG_DATA"
      /\ n > 1 /\ n % 2 = 1 => u.what = "text"
      /\ n > 3 /\ n % 2 = 1 => u.n = s[n - 2].n + 1
      BY <1>1
<1>4. n > 3 => n - 2 \in 1 .. n - 1
      BY <1>1
<1>5. Shape(r)
  <2> SUFFICES ASSUME NEW i \in 1 .. n
               PROVE  /\ i = 1 <=> r[i].what \in {"HELLO_OK", "HELLO_ERROR"}
                      /\ i > 1 /\ i % 2 = 0 => r[i].what = "MSG_DATA"
                      /\ i > 1 /\ i % 2 = 1 => r[i].what = "text"
                      /\ i > 3 /\ i % 2 = 1 => r[i].n = r[i - 2].n + 1
      BY <1>1 DEF Shape
  <2>1. CASE i = n
        BY <1>2, <1>3, <1>4, <2>1
  <2>2. CASE i # n
    <3>1. i \in 1 .. n - 1 /\ (i > 3 => i - 2 \in 1 .. n - 1)
          BY <1>1, <2>2
    <3> QED BY <1>1, <1>2, <3>1 DEF Shape
  <2> QED BY <2>1, <2>2
<1> QED BY <1>5 DEF r

LEMMA ShapeStep ==
    ASSUME AInv, Own, CInv, [Next]_vars, NEW c \in Conns \ shared'
    PROVE  Shape(out[c])'
<1>1. c \in Conns \ shared
      BY Course DEF CInv
<1>2. Opened(c) /\ Shape(out[c]) /\ Current(c)
      BY <1>1 DEF CInv
<1>3. out[c] \in Seq(Units) /\ Len(out[c]) \in Nat
      BY DEF AInv, TypeOK
<1>0. PICK k \in Nat : k = Len(out[c])
      BY <1>3
<1>4. ASSUME NEW unit \in {Unit("HELLO_OK"), Unit("HELLO_ERROR")}, pc[c] \in Early,
             out'[c] = Append(out[c], unit)
      PROVE  Shape(out'[c])
  <2>1. Len(out[c]) = 0
        BY <1>2, <1>4 DEF Opened
  <2>2. unit \in Units /\ unit.what \in {"HELLO_OK", "HELLO_ERROR"}
        BY UnitTypes DEF Unit
  <2> QED BY <1>2, <1>3, <1>4, <2>1, <2>2, ShapeAppend
<1>5. ASSUME NEW t \in Conns, c \in Registered, Serves(c), life[c] = "up", pos[t] \in Places(fd[c]),
             SendTag(t), out'[c] = Append(out[c], Unit("MSG_DATA"))
      PROVE  Shape(out'[c])
  <2>1. out[c] # <<>>
        BY <1>0, <1>2, <1>5 DEF Opened, Registered, Sending, Early
  <2>2. k > 1 => Last(c).what = "text"
    <3>1. pc[t] \in Sending /\ pc[t] # "sendtext"
          BY <1>0, <1>5 DEF SendTag, Sending
    <3> QED BY <1>0, <1>2, <1>5, <3>1 DEF Current, Text
  <2>3. k > 0 /\ k % 2 = 1
    <3>1. k > 0
          BY <1>0, <1>3, <2>1
    <3>2. k \in DOMAIN out[c]
          BY <1>0, <1>3, <3>1
    <3>3. k > 1 => k % 2 # 0
          BY <1>0, <1>2, <2>2, <3>2 DEF Shape, Last
    <3>4. k % 2 \in {0, 1}
          BY <1>0, Parity
    <3> QED BY <3>1, <3>3, <3>4
  <2> DEFINE u == Unit("MSG_DATA")
  <2>4. u.what = "MSG_DATA" /\ u \in Units
        BY <1>0, UnitTypes DEF Unit
  <2> HIDE DEF u
  <2>5. /\ k = 0 <=> u.what \in {"HELLO_OK", "HELLO_ERROR"}
        /\ k > 0 /\ k % 2 = 1 => u.what = "MSG_DATA"
        /\ k > 0 /\ k % 2 = 0 => u.what = "text"
        /\ k > 2 /\ k % 2 = 0 => u.n = out[c][k - 1].n + 1
        BY <2>3, <2>4
  <2>6. Shape(Append(out[c], u))
        BY <1>0, <1>2, <1>3, <2>4, <2>5, ShapeAppend
  <2> QED BY <1>5, <2>6 DEF u
<1>6. ASSUME NEW t \in Conns, c \in Registered, Serves(c), life[c] = "up", pos[t] \in Places(fd[c]),
             SendText(t), out'[c] = Append(out[c], Text(Len(log)))
      PROVE  Shape(out'[c])
  <2>1. pc[t] = "sendtext" /\ pc[t] \in Sending
        BY <1>0, <1>6 DEF SendText, Sending
  <2>2. /\ k > 1 /\ Last(c) = Unit("MSG_DATA")
        /\ k > 2 => out[c][k - 1] = Text(Len(log) - 1)
        BY <1>0, <1>2, <1>6, <2>1 DEF Current
  <2>3. k % 2 = 0
    <3>1. k \in DOMAIN out[c]
          BY <1>0, <1>3, <2>2
    <3>2. Last(c).what # "text"
          BY <1>0, <2>2 DEF Unit
    <3>3. k % 2 # 1
          BY <1>0, <1>2, <2>2, <3>1, <3>2 DEF Shape, Last
    <3>4. k % 2 \in {0, 1}
          BY <1>0, Parity
    <3> QED BY <1>0, <3>3, <3>4
  <2> DEFINE u == Text(Len(log))
  <2>4. u.what = "text" /\ u.n = Len(log) /\ u \in Units
        BY <1>0, UnitTypes DEF Text
  <2>5. k > 2 => out[c][k - 1].n + 1 = Len(log)
    <3>1. Len(log) \in Nat
          BY <1>0 DEF AInv, TypeOK
    <3> QED BY <1>0, <2>2, <3>1 DEF Text
  <2> HIDE DEF u
  <2>6. /\ k = 0 <=> u.what \in {"HELLO_OK", "HELLO_ERROR"}
        /\ k > 0 /\ k % 2 = 1 => u.what = "MSG_DATA"
        /\ k > 0 /\ k % 2 = 0 => u.what = "text"
        /\ k > 2 /\ k % 2 = 0 => u.n = out[c][k - 1].n + 1
        BY <2>2, <2>3, <2>4, <2>5
  <2>7. Shape(Append(out[c], u))
        BY <1>0, <1>2, <1>3, <2>4, <2>6, ShapeAppend
  <2> QED BY <1>6, <2>7 DEF u
<1>7. (Reject(c) => pc[c] \in Early) /\ (ReplyOK(c) => pc[c] \in Early)
      BY DEF Reject, ReplyOK, Early
<1> QED BY <1>1, <1>2, <1>4, <1>5, <1>6, <1>7, Sends

(* The steps that leave the broadcast under way as it is.                   *)
LEMMA CurrentKept ==
    ASSUME NEW c \in Conns, Current(c), Serves(c), c \in Registered, life[c] = "up",
           UNCHANGED <<mutex, log, pos, clients>>, fd'[c] = fd[c], out'[c] = out[c],
           \A t \in Conns : pc[t] \in Sending \/ pc'[t] \in Sending => pc'[t] = pc[t]
    PROVE  Current(c)'
<1>1. Places(fd[c])' = Places(fd[c])
      BY DEF Places
<1> QED BY <1>1 DEF Current, Last

(* The steps of the broadcast itself.                                       *)
LEMMA CurrentBegins ==
    ASSUME AInv, NEW c \in Conns, Current(c), Serves(c), c \in Registered, life[c] = "up",
           NEW t \in Conns, Broadcast(t)
    PROVE  Current(c)'
<1>1. /\ mutex = NoConn /\ mutex' = t
      /\ \A u \in Conns : pc'[u] = IF u = t THEN "sendtag" ELSE pc[u]
      /\ \A u \in Conns : pos'[u] = IF u = t THEN 1 ELSE pos[u]
      /\ UNCHANGED <<fd, clients, out>>
      BY DEF Broadcast, Goto, wire, AInv, TypeOK
<1>2. Len(log') - 1 = Len(log)
  <2>1. log \in Seq([name : Conns, from : Conns, n : Nat]) /\ Len(log) \in Nat
        BY DEF AInv, TypeOK
  <2>2. \E entry : log' = Append(log, entry)
        BY DEF Broadcast
  <2>3. \A entry : Len(Append(log, entry)) = Len(log) + 1
        BY <2>1
  <2> QED BY <2>1, <2>2, <2>3
<1>3. \A u \in Conns : pc[u] \notin Sending
      BY <1>1, Sizes DEF AInv, Locked
<1>4. Len(out[c]) > 1 => Last(c) = Text(Len(log))
      BY <1>1 DEF Current
<1>5. \A i \in Places(fd[c])' : i \in Nat /\ ~(i < 1)
      BY <1>1 DEF Places, AInv, TypeOK
<1>6. t # NoConn
      BY Sizes
<1>7. \A u \in Conns : pc'[u] \in Sending => u = t /\ pc'[u] # "sendtext"
      BY <1>1, <1>3
<1> QED BY <1>1, <1>2, <1>4, <1>5, <1>6, <1>7 DEF Current, Last

LEMMA CurrentSends ==
    ASSUME AInv, Own, NEW c \in Conns \ shared, Current(c), Opened(c),
           Serves(c), c \in Registered, life[c] = "up",
           NEW t \in Conns, SendTag(t) \/ SendText(t)
    PROVE  Current(c)'
<1>1. /\ UNCHANGED <<fd, clients, mutex, log>> /\ pc[t] \in Sending
      /\ \A u \in Conns : u # t => pc'[u] = pc[u]
      /\ SendTag(t) => pc[t] = "sendtag"
      /\ SendText(t) => pc[t] = "sendtext"
      /\ \/ UNCHANGED pos
         \/ pos'[t] = pos[t] + 1 /\ pc'[t] = "sendtag"
      BY DEF SendTag, SendText, Goto, hist, Sending, AInv, TypeOK
<1>2. mutex = t /\ \A u \in Conns : pc'[u] \in Sending => u = t
      BY <1>1, Sizes DEF AInv, Locked
<1>3. Places(fd[c])' = Places(fd[c])
      BY <1>1 DEF Places
<1>4. PICK i \in Nat : Places(fd[c]) = {i}
  <2>1. Places(fd[c]) \subseteq Nat
    <3>1. clients \in Seq(Numbers)
          BY DEF AInv, TypeOK, Numbers
    <3> QED BY <3>1 DEF Places
  <2> QED BY <2>1, OnePlace
<1>5. IF i = pos[t] /\ pc[t] = "sendtext"
      THEN /\ Len(out[c]) > 1 /\ Last(c) = Unit("MSG_DATA")
           /\ Len(out[c]) > 2 => out[c][Len(out[c]) - 1] = Text(Len(log) - 1)
      ELSE Len(out[c]) > 1 => Last(c) = Text(IF i < pos[t] THEN Len(log) ELSE Len(log) - 1)
      BY <1>1, <1>4 DEF Current
<1>6. out[c] \in Seq(Units) /\ Len(out[c]) \in Nat /\ out[c] # <<>> /\ Len(out[c]) > 0
  <2>1. out[c] \in Seq(Units) /\ Len(out[c]) \in Nat
        BY DEF AInv, TypeOK
  <2>2. out[c] # <<>>
        BY DEF Opened, Registered, Sending, Early
  <2> QED BY <2>1, <2>2
<1>7. \A unit \in Units : /\ Len(Append(out[c], unit)) = Len(out[c]) + 1
                          /\ Append(out[c], unit)[Len(out[c]) + 1] = unit
                          /\ Append(out[c], unit)[Len(out[c])] = out[c][Len(out[c])]
      BY <1>6
<1> SUFFICES IF i = pos'[t] /\ pc'[t] = "sendtext"
             THEN /\ Len(out'[c]) > 1 /\ Last(c)' = Unit("MSG_DATA")
                  /\ Len(out'[c]) > 2 => out'[c][Len(out'[c]) - 1] = Text(Len(log) - 1)
             ELSE Len(out'[c]) > 1 => Last(c)' = Text(IF i < pos'[t] THEN Len(log) ELSE Len(log) - 1)
    BY <1>1, <1>2, <1>3, <1>4, Sizes DEF Current
<1>8. CASE out'[c] = out[c] /\ i # pos[t]
  <2>1. Last(c)' = Last(c) /\ pos[t] \in Nat
        BY <1>8 DEF Last, AInv, TypeOK
  <2>2. i # pos'[t] \/ pc'[t] # "sendtext"
        BY <1>1, <1>8, <2>1
  <2>3. i < pos'[t] <=> i < pos[t]
        BY <1>1, <1>8, <2>1
  <2> QED BY <1>5, <1>8, <2>1, <2>2, <2>3
<1>9. CASE i = pos[t] /\ SendTag(t) /\ out'[c] = Append(out[c], Unit("MSG_DATA"))
           /\ Goto(t, "sendtext") /\ UNCHANGED pos
  <2>1. pc'[t] = "sendtext" /\ pc[t] # "sendtext"
        BY <1>1, <1>9 DEF Goto, AInv, TypeOK
  <2>2. Len(out'[c]) = Len(out[c]) + 1 /\ Last(c)' = Unit("MSG_DATA")
        /\ out'[c][Len(out[c])] = Last(c)
        BY <1>7, <1>9, UnitTypes DEF Last
  <2>3. Len(out[c]) > 1 => Last(c) = Text(Len(log) - 1)
        BY <1>5, <1>9, <2>1
  <2>4. Len(out'[c]) - 1 = Len(out[c])
        BY <1>6, <2>2
  <2> QED BY <1>6, <1>9, <2>1, <2>2, <2>3, <2>4
<1>10. CASE i = pos[t] /\ SendText(t) /\ out'[c] = Append(out[c], Text(Len(log)))
  <2>1. pos[t] \in Nat /\ pos'[t] = pos[t] + 1 /\ pc'[t] = "sendtag"
        BY <1>10 DEF SendText, Goto, AInv, TypeOK
  <2>2. Last(c)' = Text(Len(log))
        BY <1>7, <1>10, UnitTypes DEF Last
  <2> QED BY <1>10, <2>1, <2>2
<1> QED BY <1>4, <1>8, <1>9, <1>10, Broadcasts

LEMMA CurrentEnds ==
    ASSUME AInv, Own, NEW c \in Conns \ shared, Current(c), Serves(c), c \in Registered, life[c] = "up",
           NEW t \in Conns, BroadcastDone(t)
    PROVE  Current(c)'
<1>1. /\ pc[t] = "sendtag" /\ pos[t] > Len(clients)
      /\ \A u \in Conns : pc'[u] = IF u = t THEN "serve" ELSE pc[u]
      /\ UNCHANGED <<out, log>>
      BY DEF BroadcastDone, Goto, wire, hist, AInv, TypeOK
<1>2. \A u \in Conns : pc'[u] \notin Sending
      BY <1>1 DEF AInv, Locked, Sending
<1>3. PICK i : Places(fd[c]) = {i}
      BY OnePlace
<1>4. i < pos[t]
  <2>1. i \in DOMAIN clients
        BY <1>3 DEF Places
  <2>2. clients \in Seq(Numbers) /\ pos[t] \in Nat
        BY DEF AInv, TypeOK, Numbers
  <2> QED BY <1>1, <2>1, <2>2
<1>5. Len(out[c]) > 1 => Last(c) = Text(Len(log))
      BY <1>1, <1>3, <1>4 DEF Current, Sending
<1> QED BY <1>1, <1>2, <1>5 DEF Current, Last

LEMMA CurrentStep ==
    ASSUME AInv, Own, CInv, [Next]_vars, NEW c \in Conns \ shared'
    PROVE  Current(c)'
<1> SUFFICES ASSUME Serves(c)', c \in Registered', life'[c] = "up"
             PROVE  Current(c)'
    BY DEF Current
<1>1. c \in Conns \ shared /\ Serves(c) /\ life[c] = "up" /\ Opened(c) /\ Current(c)
  <2>1. c \in Conns \ shared /\ (Serves(c)' => Serves(c) \/ pc'[c] = "limit")
        /\ (pc[c] \in Live /\ life'[c] = "up" => life[c] = "up")
        BY Course DEF CInv
  <2>2. pc'[c] # "limit"
        BY DEF Registered, Sending
  <2> QED BY <2>1, <2>2 DEF CInv, Serves
<1>2. c \in Registered \/ pc[c] = "register"
  <2>1. pc[c] \in Early /\ pc'[c] \notin Early => pc'[c] = "refused" \/ ReplyOK(c)
        BY Course DEF CInv
  <2>2. ReplyOK(c) => pc'[c] = "register"
        BY DEF ReplyOK, Goto, AInv, TypeOK
  <2>3. pc'[c] \notin Early \cup {"refused", "register"}
        BY DEF Registered, Sending, Early
  <2>4. pc[c] \in Live
        BY <1>1 DEF Serves
  <2>5. pc[c] \notin Early
        BY <2>1, <2>2, <2>3
  <2> QED BY <2>4, <2>5 DEF Registered, Sending, Early, Live, PCs, Receiving
<1>3. pc'[c] = pc[c] => c \in Registered
      BY DEF Registered
<1>4. CASE UNCHANGED vars \/ AcceptFails
      BY <1>1, <1>3, <1>4, CurrentKept
         DEF vars, AcceptFails, proc, wire, kernel, thread, hist
<1>5. ASSUME NEW d \in Conns, UserStep(d) \/ ClientStep(d)
      PROVE  Current(c)'
      BY <1>1, <1>3, <1>5, ClientType, CurrentKept
<1>6. ASSUME NEW d \in Conns, Accept(d) \/ ReadArg(d)
      PROVE  Current(c)'
  <2>1. /\ UNCHANGED <<out, mutex, log, pos, clients>>
        /\ pc[d] \notin Sending /\ pc'[d] \notin Sending /\ pc'[d] \in {"start", "limit"}
        /\ \A u \in Conns : u # d => pc'[u] = pc[u] /\ fd'[u] = fd[u]
        BY <1>6 DEF Accept, ReadArg, Goto, Sending, wire, thread, AInv, TypeOK
  <2>2. c # d
        BY <2>1 DEF Registered, Sending
  <2> QED BY <1>1, <1>3, <2>1, <2>2, CurrentKept
<1>7. ASSUME NEW t \in Conns, ThreadStep(t), pc[t] \notin Sending \cup {"start", "register", "broadcast", "remove"}
      PROVE  Current(c)'
  <2>1. c \in Registered /\ \A u \in Conns : u # t => pc'[u] = pc[u]
        BY <1>2, <1>3, <1>7, Labels
  <2>2. /\ UNCHANGED <<fd, mutex, log, pos, clients>> /\ pc'[t] \notin Sending
        /\ UNCHANGED out \/ Reject(t) \/ ReplyOK(t)
    <3> USE DEF Sending, Goto, wire, thread, hist
    <3>1. CASE CheckLimit(t) \/ Call(t) \/ RecvTag(t) \/ RecvName(t) \/ HelloFails(t)
          BY <1>7, <3>1 DEF CheckLimit, Call, RecvTag, RecvName, HelloFails, AInv, TypeOK
    <3>2. CASE Reject(t) \/ ReplyOK(t) \/ CloseSession(t)
          BY <1>7, <3>2 DEF Reject, ReplyOK, CloseSession, AInv, TypeOK
    <3>3. CASE RecvMsgTag(t) \/ RecvText(t) \/ SessionEnds(t)
          BY <1>7, <3>3 DEF RecvMsgTag, RecvText, SessionEnds, AInv, TypeOK
    <3> QED BY <1>7, <3>1, <3>2, <3>3 DEF ThreadStep, ReadArg, AddClient, Broadcast, SendTag,
               SendText, BroadcastDone, RemoveClient
  <2>3. out'[c] = out[c]
    <3>1. Reject(t) \/ ReplyOK(t) => t # c
          BY <2>1 DEF Reject, ReplyOK, Registered, Sending
    <3> QED BY <1>1, <2>2, <3>1, Replies
  <2> QED BY <1>1, <1>7, <2>1, <2>2, <2>3, CurrentKept
<1>8. ASSUME NEW t \in Conns, AddClient(t) \/ RemoveClient(t)
      PROVE  Current(c)'
  <2>1. /\ mutex = NoConn /\ UNCHANGED <<out, log, mutex>>
        /\ \A u \in Conns : pc'[u] = IF u = t THEN pc'[t] ELSE pc[u]
        /\ pc'[t] \in {"serve", "gone"}
        BY <1>8 DEF AddClient, RemoveClient, Goto, wire, hist, AInv, TypeOK
  <2>2. \A u \in Conns : pc'[u] \notin Sending
        BY <2>1, Sizes DEF AInv, Locked, Sending
  <2>3. c \in Registered => (Len(out[c]) > 1 => Last(c) = Text(Len(log)))
        BY <1>1, <2>1 DEF Current
  <2>4. pc[c] = "register" => ~(Len(out[c]) > 1)
    <3>1. Len(out[c]) \in Nat
          BY DEF AInv, TypeOK
    <3> QED BY <1>1, <3>1 DEF Opened
  <2> QED BY <1>2, <2>1, <2>2, <2>3, <2>4 DEF Current, Last
<1>9. ASSUME NEW t \in Conns, Broadcast(t) \/ SendTag(t) \/ SendText(t) \/ BroadcastDone(t)
      PROVE  Current(c)'
  <2>1. c \in Registered
    <3>1. \A u \in Conns : u # t => pc'[u] = pc[u]
          BY <1>9, Labels DEF ThreadStep
    <3> QED BY <1>2, <1>3, <1>9, <3>1 DEF Broadcast, SendTag, SendText, BroadcastDone
  <2> QED BY <1>1, <1>9, <2>1, CurrentBegins, CurrentSends, CurrentEnds
<1>10. ASSUME NEW t \in Conns, ThreadStep(t)
       PROVE  Current(c)'
  <2>1. CASE pc[t] \in Sending \cup {"start", "register", "broadcast", "remove"}
    <3>1. ReadArg(t) \/ AddClient(t) \/ RemoveClient(t) \/ Broadcast(t) \/ SendTag(t) \/ SendText(t)
             \/ BroadcastDone(t)
          BY <1>10, <2>1 DEF ThreadStep, CheckLimit, Call, RecvTag, RecvName, HelloFails, Reject,
             ReplyOK, RecvMsgTag, RecvText, SessionEnds, CloseSession, Sending, Receiving
    <3> QED BY <1>6, <1>8, <1>9, <3>1
  <2> QED BY <1>7, <1>10, <2>1
<1> QED BY <1>4, <1>5, <1>6, <1>10 DEF Next

LEMMA CInit == Init => CInv
<1> SUFFICES ASSUME Init PROVE CInv
    OBVIOUS
<1>1. Started
      BY DEF Init, Started
<1>2. \A c \in Conns : Opened(c) /\ Shape(out[c]) /\ Current(c)
      BY DEF Init, Opened, Shape, Current, Serves, Live
<1> QED BY <1>1, <1>2 DEF CInv

LEMMA StartedStep ==
    ASSUME AInv, Started, [Next]_vars
    PROVE  Started'
<1> USE DEF Started
<1>1. CASE UNCHANGED vars \/ AcceptFails
      BY <1>1 DEF vars, AcceptFails, proc
<1>2. ASSUME NEW d \in Conns, UserStep(d) \/ ClientStep(d)
      PROVE  Started'
  <2>1. UNCHANGED pc
        BY <1>2, ClientType
  <2>2. \A c \in Conns : life'[c] = "new" => life[c] = "new"
        BY <1>2 DEF UserStep, ClientStep, Connect, Say, SayGoodbye, Die, SendHello, SendNext,
                    RecvReply, RecvShow, Expect, Exit, AInv, TypeOK
  <2> QED BY <2>1, <2>2
<1>3. ASSUME NEW c \in Conns, Accept(c)
      PROVE  Started'
      BY <1>3 DEF Accept, Goto, proc, AInv, TypeOK
<1>4. ASSUME NEW t \in Conns, ThreadStep(t)
      PROVE  Started'
      BY <1>4, Labels DEF Live
<1> QED BY <1>1, <1>2, <1>3, <1>4 DEF Next

LEMMA CNext == AInv /\ Own /\ CInv /\ [Next]_vars => CInv'
BY StartedStep, OpenedStep, ShapeStep, CurrentStep DEF CInv

LEMMA CInvariant == Spec => [](AInv /\ Own /\ CInv)
<1>1. Init => AInv /\ Own /\ CInv
      BY AInit, OwnInit, CInit
<1>2. AInv /\ Own /\ CInv /\ [Next]_vars => (AInv /\ Own /\ CInv)'
      BY ANext, OwnNext, CNext
<1> QED BY <1>1, <1>2, PTL DEF Spec

(* What a client whose descriptor nobody else has used is sent is one reply *)
(* and then whole messages, the broadcasts in their order without a gap.    *)
THEOREM InOrderCorrect == Spec => []InOrder
<1>1. CInv => InOrder
      BY DEF CInv, Shape, InOrder
<1> QED BY <1>1, CInvariant, PTL

(* Between broadcasts, such a client has been sent the last one.            *)
THEOREM UpToDateCorrect == Spec => []UpToDate
<1>1. ASSUME CInv
      PROVE  UpToDate
  <2> SUFFICES ASSUME mutex = NoConn, NEW c \in Conns \ shared, life[c] = "up", c \in Registered,
                      pc[c] \notin {"close", "remove"}, Len(out[c]) > 1
               PROVE  out[c][Len(out[c])] = Text(Len(log))
      BY DEF UpToDate
  <2>1. pc[c] \in Live /\ out[c] # <<>>
        BY DEF Registered, Live, PCs, Receiving, Sending
  <2>2. Serves(c)
        BY <1>1, <2>1 DEF CInv, Opened
  <2> QED BY <1>1, <2>2 DEF CInv, Current, Last
<1> QED BY <1>1, CInvariant, PTL

-----------------------------------------------------------------------------
(* What a client typed                                                      *)

(* The texts of a client that were broadcast.                               *)
UpTo(c, i) == {j \in 1 .. i : log[j].from = c}
Shown(c)   == Cardinality(UpTo(c, Len(log)))

(* Authentic, for one client.                                               *)
Signed(c) ==
    \A i \in DOMAIN log :
        log[i].from = c => log[i].name = c /\ log[i].n = Cardinality(UpTo(c, i))

(* How many units of a client its thread has received.                      *)
Taken(c) ==
    IF pc[c] = "name" THEN 1 ELSE
    IF pc[c] \in {"ok", "register"} THEN 2 ELSE
    IF pc[c] \in {"serve"} \cup Sending THEN 2 + 2 * Shown(c) ELSE
    IF pc[c] = "text" THEN 3 + 2 * Shown(c) ELSE
    IF pc[c] = "broadcast" THEN 4 + 2 * Shown(c) ELSE 0

(* The units under way are those that the client sends from the k-th on;    *)
(* the last may be QUIT, where a tag is due.                                *)
Follows(c, k) ==
    /\ life[c] # "gone" => Len(in[c]) + k = sent[c]
    /\ \A j \in DOMAIN in[c] :
          \/ k + j <= sent[c] /\ in[c][j] = ClientUnit(k + j)
          \/ k + j = sent[c] + 1 /\ in[c][j] = Unit("QUIT") /\ sent[c] % 2 = 0 /\ sent[c] >= 2

Attended(c) == pc[c] \in {"none", "start"} \/ (Serves(c) /\ pc[c] \notin Stopped)

Typed(c) ==
    /\ Connected(c) => sent[c] >= 2
    /\ Shown(c) # 0 => pc[c] \notin Early \cup {"register"}
    /\ pc[c] = "broadcast" /\ Serves(c) => msg[c] = [from |-> c, n |-> Shown(c) + 1]
    /\ Attended(c) => Follows(c, Taken(c))

TInv == \A c \in Conns \ shared : Typed(c) /\ Signed(c)

LEMMA LogType ==
    ASSUME AInv, NEW c
    PROVE  /\ Len(log) \in Nat /\ DOMAIN log = 1 .. Len(log)
           /\ \A i \in Nat : IsFiniteSet(UpTo(c, i)) /\ Cardinality(UpTo(c, i)) \in Nat
           /\ Shown(c) \in Nat
<1>1. Len(log) \in Nat /\ DOMAIN log = 1 .. Len(log)
      BY DEF AInv, TypeOK
<1>2. ASSUME NEW i \in Nat
      PROVE  IsFiniteSet(UpTo(c, i)) /\ Cardinality(UpTo(c, i)) \in Nat
  <2>1. UpTo(c, i) \subseteq 1 .. i /\ IsFiniteSet(1 .. i)
        BY FS_Interval DEF UpTo
  <2> QED BY <2>1, FS_Subset, FS_CardinalityType
<1> QED BY <1>1, <1>2 DEF Shown

LEMMA TakenType ==
    ASSUME AInv, NEW c
    PROVE  Taken(c) \in Nat
<1>1. PICK n \in Nat : n = Shown(c)
      BY LogType
<1>2. 2 + 2 * n \in Nat /\ 3 + 2 * n \in Nat /\ 4 + 2 * n \in Nat
      OBVIOUS
<1> QED BY <1>1, <1>2 DEF Taken

(* What a broadcast adds.                                                   *)
LEMMA Shows ==
    ASSUME AInv, NEW t \in Conns, Broadcast(t), NEW c, NEW n \in Nat, n = Len(log) + 1
    PROVE  /\ Shown(c)' = IF msg[t].from = c THEN Shown(c) + 1 ELSE Shown(c)
           /\ Len(log') = n
           /\ log'[n] = [name |-> who[t], from |-> msg[t].from, n |-> msg[t].n]
           /\ \A i \in 1 .. Len(log) : log'[i] = log[i] /\ UpTo(c, i)' = UpTo(c, i)
           /\ UpTo(c, n)' = IF msg[t].from = c THEN UpTo(c, Len(log)) \cup {n} ELSE UpTo(c, Len(log))
<1> DEFINE entry == [name |-> who[t], from |-> msg[t].from, n |-> msg[t].n]
<1>1. n - 1 = Len(log) /\ log' = Append(log, entry)
      BY LogType DEF Broadcast
<1>2. Len(log') = n /\ log'[n] = entry /\ \A i \in 1 .. Len(log) : log'[i] = log[i]
      BY <1>1 DEF AInv, TypeOK
<1>3. ASSUME NEW i \in 1 .. Len(log)
      PROVE  UpTo(c, i)' = UpTo(c, i)
  <2>1. 1 .. i \subseteq 1 .. Len(log)
        BY LogType
  <2> QED BY <1>2, <2>1 DEF UpTo
<1>4. UpTo(c, n)' = IF msg[t].from = c THEN UpTo(c, Len(log)) \cup {n} ELSE UpTo(c, Len(log))
  <2>1. 1 .. n = 1 .. Len(log) \cup {n}
        BY <1>1
  <2>2. UpTo(c, n)' = {j \in 1 .. n : log'[j].from = c}
        BY DEF UpTo
  <2>3. UpTo(c, Len(log)) = {j \in 1 .. Len(log) : log[j].from = c}
        BY DEF UpTo
  <2>4. \A j \in 1 .. Len(log) : log'[j].from = log[j].from
        BY <1>2
  <2>5. log'[n].from = msg[t].from
        BY <1>2
  <2> QED BY <2>1, <2>2, <2>3, <2>4, <2>5
<1>5. Shown(c)' = IF msg[t].from = c THEN Shown(c) + 1 ELSE Shown(c)
  <2>1. Shown(c)' = Cardinality(UpTo(c, n)')
        BY <1>2 DEF Shown
  <2>2. n \notin UpTo(c, Len(log)) /\ IsFiniteSet(UpTo(c, Len(log)))
    <3>1. Len(log) \in Nat /\ n \notin 1 .. Len(log)
          BY <1>1, LogType
    <3>2. IsFiniteSet(UpTo(c, Len(log)))
          BY <3>1, LogType
    <3> QED BY <3>1, <3>2 DEF UpTo
  <2> QED BY <1>4, <2>1, <2>2, OneMore DEF Shown
<1> QED BY <1>2, <1>3, <1>4, <1>5

(* Receiving, sending and ending keep the order of the units under way.     *)
LEMMA FollowsTail ==
    ASSUME AInv, NEW c \in Conns, NEW k \in Nat, Follows(c, k),
           in[c] # <<>>, in'[c] = Tail(in[c]), UNCHANGED <<sent, life>>
    PROVE  /\ Follows(c, k + 1)'
           /\ \/ Head(in[c]) = ClientUnit(k + 1)
              \/ Head(in[c]) = Unit("QUIT") /\ k = sent[c] /\ sent[c] % 2 = 0
<1>1. in[c] \in Seq(Units) /\ sent[c] \in Nat /\ sent'[c] = sent[c] /\ life'[c] = life[c]
      BY DEF AInv, TypeOK
<1>2. PICK n \in Nat : n = Len(in[c]) /\ DOMAIN in[c] = 1 .. n /\ n >= 1
      BY <1>1
<1>3. /\ Len(in'[c]) = n - 1 /\ DOMAIN in'[c] = 1 .. n - 1
      /\ \A j \in 1 .. n - 1 : in'[c][j] = in[c][j + 1]
      /\ Head(in[c]) = in[c][1]
      BY <1>1, <1>2
<1>4. Head(in[c]) = ClientUnit(k + 1) \/ (Head(in[c]) = Unit("QUIT") /\ k = sent[c] /\ sent[c] % 2 = 0)
  <2>1. 1 \in DOMAIN in[c]
        BY <1>2
  <2>2. k + 1 = sent[c] + 1 => k = sent[c]
        BY <1>1
  <2> QED BY <1>3, <2>1, <2>2 DEF Follows
<1>5. life'[c] # "gone" => Len(in'[c]) + (k + 1) = sent'[c]
  <2>1. life[c] # "gone" => n + k = sent[c]
        BY <1>2 DEF Follows
  <2>2. Len(in'[c]) + (k + 1) = n + k
    <3>1. (n - 1) + (k + 1) = n + k
          OBVIOUS
    <3>2. Len(in'[c]) = n - 1
          BY <1>3
    <3> QED BY <3>1, <3>2, Zenon
  <2> QED BY <1>1, <2>1, <2>2
<1>6. ASSUME NEW j \in DOMAIN in'[c]
      PROVE  \/ (k + 1) + j <= sent'[c] /\ in'[c][j] = ClientUnit((k + 1) + j)
             \/ /\ (k + 1) + j = sent'[c] + 1 /\ in'[c][j] = Unit("QUIT")
                /\ sent'[c] % 2 = 0 /\ sent'[c] >= 2
  <2>1. j \in 1 .. n - 1 /\ j + 1 \in DOMAIN in[c] /\ (k + 1) + j = k + (j + 1)
        BY <1>2, <1>3
  <2>2. in'[c][j] = in[c][j + 1]
        BY <1>3, <2>1
  <2> QED BY <1>1, <2>1, <2>2 DEF Follows
<1> QED BY <1>4, <1>5, <1>6 DEF Follows

LEMMA FollowsSend ==
    ASSUME AInv, NEW c \in Conns, NEW k \in Nat, Follows(c, k), life[c] # "gone",
           in'[c] = Append(in[c], ClientUnit(sent[c] + 1)), sent'[c] = sent[c] + 1
    PROVE  Follows(c, k)'
<1>1. in[c] \in Seq(Units) /\ sent[c] \in Nat
      BY DEF AInv, TypeOK
<1>2. PICK n \in Nat : n = Len(in[c]) /\ DOMAIN in[c] = 1 .. n /\ n + k = sent[c]
      BY <1>1 DEF Follows
<1>3. /\ Len(in'[c]) = n + 1 /\ DOMAIN in'[c] = 1 .. n + 1
      /\ in'[c][n + 1] = ClientUnit(k + (n + 1))
      /\ \A j \in 1 .. n : in'[c][j] = in[c][j]
  <2>1. sent[c] + 1 = k + (n + 1)
        BY <1>2
  <2> QED BY <1>1, <1>2, <2>1
<1>4. ASSUME NEW j \in DOMAIN in'[c]
      PROVE  k + j <= sent'[c] /\ in'[c][j] = ClientUnit(k + j)
  <2>1. CASE j = n + 1
    <3>1. k + j = sent[c] + 1 /\ sent'[c] = sent[c] + 1 /\ sent[c] \in Nat
          BY <1>1, <1>2, <2>1
    <3>2. in'[c][j] = ClientUnit(k + j)
          BY <1>3, <2>1
    <3>3. k + j <= sent'[c]
          BY <3>1
    <3> QED BY <3>2, <3>3
  <2>2. CASE j # n + 1
    <3>1. j \in 1 .. n /\ k + j <= sent[c] /\ k + j # sent[c] + 1
          BY <1>1, <1>2, <1>3, <2>2
    <3>2. in'[c][j] = in[c][j] /\ j \in DOMAIN in[c] /\ k + j <= sent'[c]
          BY <1>1, <1>2, <1>3, <3>1
    <3>3. in[c][j] = ClientUnit(k + j)
          BY <3>1, <3>2 DEF Follows
    <3> QED BY <3>2, <3>3, Zenon
  <2> QED BY <2>1, <2>2
<1>5. Len(in'[c]) + k = sent'[c]
      BY <1>2, <1>3
<1> QED BY <1>4, <1>5 DEF Follows

LEMMA FollowsQuit ==
    ASSUME AInv, NEW c \in Conns, NEW k \in Nat, Follows(c, k), life[c] # "gone", life'[c] = "gone",
           in'[c] = Append(in[c], Unit("QUIT")), sent'[c] = sent[c], sent[c] % 2 = 0, sent[c] >= 2
    PROVE  Follows(c, k)'
<1>1. in[c] \in Seq(Units) /\ sent[c] \in Nat
      BY DEF AInv, TypeOK
<1>2. PICK n \in Nat : n = Len(in[c]) /\ DOMAIN in[c] = 1 .. n /\ n + k = sent[c]
      BY <1>1 DEF Follows
<1>3. /\ DOMAIN in'[c] = 1 .. n + 1 /\ in'[c][n + 1] = Unit("QUIT")
      /\ \A j \in 1 .. n : in'[c][j] = in[c][j]
      BY <1>1, <1>2
<1>4. ASSUME NEW j \in DOMAIN in'[c]
      PROVE  \/ k + j <= sent'[c] /\ in'[c][j] = ClientUnit(k + j)
             \/ /\ k + j = sent'[c] + 1 /\ in'[c][j] = Unit("QUIT")
                /\ sent'[c] % 2 = 0 /\ sent'[c] >= 2
  <2>1. CASE j = n + 1
    <3>1. k + (n + 1) = (n + k) + 1
          BY <1>2
    <3>2. k + j = sent'[c] + 1
          BY <1>2, <2>1, <3>1, Zenon
    <3> QED BY <1>3, <2>1, <3>2
  <2>2. CASE j # n + 1
    <3>1. j \in 1 .. n
          BY <1>2, <1>3, <2>2
    <3>2. k + j <= n + k /\ k + j # (n + k) + 1
          BY <1>2, <3>1
    <3>3. k + j <= sent[c] /\ k + j # sent[c] + 1
          BY <1>2, <3>2, Zenon
    <3> QED BY <1>1, <1>2, <1>3, <3>1, <3>3 DEF Follows
  <2> QED BY <2>1, <2>2
<1> QED BY <1>4 DEF Follows

LEMMA ClientUnits ==
    /\ ClientUnit(2) = Unit("name")
    /\ \A k \in Nat : ClientUnit(2 * k + 4) = Text(k + 1)
<1>1. ASSUME NEW k \in Nat
      PROVE  /\ 2 * k + 4 \notin {1, 2} /\ (2 * k + 4) % 2 # 1
             /\ (2 * k + 4) \div 2 - 1 = k + 1
      OBVIOUS
<1> QED BY <1>1 DEF ClientUnit

LEMMA TypedClient ==
    ASSUME AInv, TInv, NEW d \in Conns, UserStep(d) \/ ClientStep(d)
    PROVE  TInv'
<1>1. UNCHANGED <<out, file, confd, pc, fd, at, who, msg, pos, clients, mutex, log, shared>>
      BY ClientType
<1>2. \A c, i : UpTo(c, i)' = UpTo(c, i)
      BY <1>1 DEF UpTo
<1>3. \A c : /\ Shown(c)' = Shown(c) /\ Taken(c)' = Taken(c) /\ Attended(c)' = Attended(c)
             /\ Serves(c)' = Serves(c)
      BY <1>1, <1>2 DEF Shown, Taken, Attended, Serves
<1> SUFFICES ASSUME NEW c \in Conns \ shared
             PROVE  Typed(c)' /\ Signed(c)'
    BY <1>1 DEF TInv
<1>4. Typed(c) /\ Signed(c)
      BY DEF TInv
<1>5. Signed(c)'
      BY <1>1, <1>2, <1>4 DEF Signed
<1>6. /\ sent[c] \in Nat /\ sent \in [Conns -> Nat] /\ in \in [Conns -> Seq(Units)]
      /\ reads \in [Conns -> {"reply", "tag", "text"}]
      /\ life \in [Conns -> {"new", "up", "gone"}]
      BY DEF AInv, TypeOK
<1>7. Connected(c)' => sent'[c] >= 2
  <2>1. \/ sent'[c] = sent[c]
        \/ sent'[c] = sent[c] + 1
        BY <1>6 DEF UserStep, ClientStep, Connect, Say, SayGoodbye, Die, SendHello, SendNext,
                    RecvReply, RecvShow
  <2>2. \/ reads'[c] = reads[c]
        \/ sent[c] = 2 \/ Connected(c)
        BY <1>6 DEF UserStep, ClientStep, Connect, Say, SayGoodbye, Die, SendHello, SendNext,
                    RecvReply, RecvShow, Exit, Expect, Connected
  <2>3. Connected(c) => sent[c] >= 2
        BY <1>4 DEF Typed
  <2> QED BY <1>6, <2>1, <2>2, <2>3 DEF Connected
<1>8. \/ /\ in'[c] = in[c] /\ sent'[c] = sent[c]
         /\ life'[c] # "gone" => life[c] # "gone"
      \/ /\ life[c] # "gone" /\ in'[c] = Append(in[c], ClientUnit(sent[c] + 1)) /\ sent'[c] = sent[c] + 1
      \/ /\ life[c] # "gone" /\ life'[c] = "gone" /\ in'[c] = Append(in[c], Unit("QUIT"))
         /\ sent'[c] = sent[c] /\ sent[c] % 2 = 0 /\ Connected(c)
  <2>1. CASE Connect(d) \/ Die(d)
        BY <1>6, <2>1 DEF Connect, Die, wire
  <2>2. CASE SayGoodbye(d)
        BY <1>6, <2>2 DEF SayGoodbye
  <2>3. CASE Say(d) \/ SendHello(d)
        BY <1>6, <2>3 DEF Say, SendHello, SendNext
  <2>4. CASE RecvReply(d) \/ RecvShow(d)
        BY <1>6, <2>4 DEF RecvReply, RecvShow, Exit, Expect, wire
  <2> QED BY <2>1, <2>2, <2>3, <2>4 DEF UserStep, ClientStep
<1>9. PICK k \in Nat : k = Taken(c)
      BY TakenType
<1>10. Follows(c, k) => Follows(c, k)'
  <2>1. CASE /\ in'[c] = in[c] /\ sent'[c] = sent[c]
             /\ life'[c] # "gone" => life[c] # "gone"
        BY <2>1 DEF Follows
  <2>2. CASE /\ life[c] # "gone" /\ in'[c] = Append(in[c], ClientUnit(sent[c] + 1))
             /\ sent'[c] = sent[c] + 1
        BY <2>2, FollowsSend
  <2>3. CASE /\ life[c] # "gone" /\ life'[c] = "gone" /\ in'[c] = Append(in[c], Unit("QUIT"))
             /\ sent'[c] = sent[c] /\ sent[c] % 2 = 0 /\ Connected(c)
    <3>1. sent[c] >= 2
          BY <1>4, <2>3 DEF Typed
    <3> QED BY <2>3, <3>1, FollowsQuit
  <2> QED BY <1>8, <2>1, <2>2, <2>3
<1>11. Attended(c)' => Follows(c, Taken(c))'
  <2>1. Attended(c)' => Follows(c, k)'
        BY <1>3, <1>4, <1>9, <1>10 DEF Typed
  <2>2. Taken(c)' = k
        BY <1>3, <1>9
  <2> QED BY <2>1, <2>2 DEF Follows
<1>12. Typed(c)'
      BY <1>1, <1>3, <1>4, <1>7, <1>11 DEF Typed
<1> QED BY <1>5, <1>12

(* The log grows by the broadcasts, each in the name of its connection.     *)
LEMMA SignedStep ==
    ASSUME AInv, Own, TInv, NEW t \in Conns, ThreadStep(t), NEW c \in Conns \ shared
    PROVE  /\ \/ Broadcast(t) /\ t = c /\ Serves(c) /\ Shown(c)' = Shown(c) + 1
              \/ Shown(c)' = Shown(c) /\ (Broadcast(t) => msg[t].from # c)
           /\ Signed(c)'
<1>1. Signed(c) /\ Typed(c)
      BY DEF TInv
<1>2. CASE ~Broadcast(t)
  <2>1. UNCHANGED log
    <3> USE DEF hist
    <3>1. CASE ReadArg(t) \/ CheckLimit(t) \/ Call(t) \/ RecvTag(t) \/ RecvName(t) \/ HelloFails(t)
          BY <3>1 DEF ReadArg, CheckLimit, Call, RecvTag, RecvName, HelloFails
    <3>2. CASE Reject(t) \/ ReplyOK(t) \/ AddClient(t) \/ RecvMsgTag(t) \/ RecvText(t) \/ SessionEnds(t)
          BY <3>2 DEF Reject, ReplyOK, AddClient, RecvMsgTag, RecvText, SessionEnds
    <3>3. CASE SendTag(t) \/ SendText(t) \/ BroadcastDone(t) \/ CloseSession(t) \/ RemoveClient(t)
          BY <3>3 DEF SendTag, SendText, BroadcastDone, CloseSession, RemoveClient
    <3> QED BY <1>2, <3>1, <3>2, <3>3 DEF ThreadStep
  <2>2. \A i : UpTo(c, i)' = UpTo(c, i)
        BY <2>1 DEF UpTo
  <2> QED BY <1>1, <1>2, <2>1, <2>2 DEF Signed, Shown
<1>3. CASE Broadcast(t)
  <2>1. PICK n \in Nat : n = Len(log) + 1
        BY LogType
  <2>2. /\ Shown(c)' = IF msg[t].from = c THEN Shown(c) + 1 ELSE Shown(c)
        /\ Len(log') = n
        /\ log'[n] = [name |-> who[t], from |-> msg[t].from, n |-> msg[t].n]
        /\ \A i \in 1 .. Len(log) : log'[i] = log[i] /\ UpTo(c, i)' = UpTo(c, i)
        BY <1>3, <2>1, Shows
  <2>3. pc[t] = "broadcast"
        BY <1>3 DEF Broadcast
  <2>4. msg[t].from = c => t = c /\ Serves(c)
        BY <2>3 DEF Own
  <2>5. msg[t].from = c => who[t] = c /\ msg[t].n = Shown(c) + 1
        BY <1>1, <2>3, <2>4 DEF Own, Typed, Named, Serving
  <2>6. DOMAIN log' = 1 .. n /\ DOMAIN log = 1 .. n - 1 /\ Len(log) = n - 1
    <3>1. DOMAIN log' = 1 .. Len(log')
          BY <1>3 DEF Broadcast, AInv, TypeOK
    <3> QED BY <2>1, <2>2, <3>1, LogType
  <2>7. Shown(c)' = Cardinality(UpTo(c, n)')
        BY <2>2 DEF Shown
  <2>8. ASSUME NEW i \in 1 .. n, log'[i].from = c
        PROVE  log'[i].name = c /\ log'[i].n = Cardinality(UpTo(c, i)')
    <3>1. CASE i = n
          BY <2>2, <2>5, <2>7, <2>8, <3>1
    <3>2. CASE i # n
      <4>1. i \in 1 .. Len(log) /\ i \in DOMAIN log
            BY <2>6, <3>2
      <4> QED BY <1>1, <2>2, <2>8, <4>1 DEF Signed
    <3> QED BY <3>1, <3>2
  <2>9. Signed(c)'
        BY <2>6, <2>8 DEF Signed
  <2> QED BY <1>3, <2>2, <2>4, <2>9
<1> QED BY <1>2, <1>3

(* Only its own thread receives from a connection.                          *)
LEMMA Takes ==
    ASSUME AInv, Own, NEW t \in Conns, ThreadStep(t), NEW c \in Conns \ shared
    PROVE  /\ UNCHANGED <<life, sent, reads>>
           /\ \/ in'[c] = in[c]
              \/ t = c /\ Serves(c) /\ in[c] # <<>> /\ in'[c] = Tail(in[c])
           /\ Receives(t) /\ t = c /\ Serves(c) =>
                 at[c] = c /\ in[c] # <<>> /\ in'[c] = Tail(in[c]) /\ Arrived(c) = Head(in[c])
<1>1. UNCHANGED <<life, sent, reads>> /\ (Receives(t) \/ UNCHANGED in)
  <2> USE DEF proc, wire
  <2>1. CASE ReadArg(t) \/ CheckLimit(t) \/ Call(t) \/ RecvTag(t) \/ RecvName(t) \/ HelloFails(t)
        BY <2>1 DEF ReadArg, CheckLimit, Call, RecvTag, RecvName, HelloFails, Fails
  <2>2. CASE Reject(t) \/ ReplyOK(t) \/ AddClient(t) \/ RecvMsgTag(t) \/ RecvText(t) \/ SessionEnds(t)
        BY <2>2 DEF Reject, ReplyOK, AddClient, RecvMsgTag, RecvText, SessionEnds, Fails
  <2>3. CASE Broadcast(t) \/ SendTag(t) \/ SendText(t) \/ BroadcastDone(t) \/ CloseSession(t)
             \/ RemoveClient(t)
        BY <2>3 DEF Broadcast, SendTag, SendText, BroadcastDone, CloseSession, RemoveClient
  <2> QED BY <2>1, <2>2, <2>3 DEF ThreadStep
<1>2. ASSUME Receives(t)
      PROVE  \/ in'[c] = in[c] /\ ~(t = c /\ Serves(c))
             \/ t = c /\ Serves(c) /\ at[c] = c /\ in[c] # <<>> /\ in'[c] = Tail(in[c])
  <2>1. at[t] \in Conns /\ in[at[t]] # <<>> /\ in' = [in EXCEPT ![at[t]] = Tail(@)]
        BY <1>2, ReceivesType DEF AInv
  <2>2. in'[c] = IF c = at[t] THEN Tail(in[c]) ELSE in[c]
        BY <2>1 DEF AInv, TypeOK
  <2>3. at[t] = c => t = c /\ Serves(c)
        BY DEF Own
  <2>4. t = c /\ Serves(c) => at[c] = c
        BY <2>1, Sizes DEF Own
  <2> QED BY <2>1, <2>2, <2>3, <2>4
<1> QED BY <1>1, <1>2 DEF Arrived

LEMMA TypedOthers ==
    ASSUME AInv, Own, TInv, NEW t \in Conns, ThreadStep(t), NEW c \in Conns \ shared, t # c
    PROVE  Typed(c)'
<1>1. /\ pc'[c] = pc[c]
      /\ Serves(c)' = Serves(c) /\ msg'[c] = msg[c]
  <2>1. pc'[c] = pc[c]
        BY Labels
  <2>2. CASE ReadArg(t)
        BY <2>1, <2>2 DEF ReadArg, Serves, kernel, AInv, TypeOK
  <2>3. CASE ~ReadArg(t)
    <3>1. Serves(c)' <=> Serves(c)
          BY <2>3, KeepsServing
    <3>2. msg'[c] = msg[c]
          BY <2>3, ThreadMoves
    <3> QED BY <2>1, <3>1, <3>2 DEF Serves
  <2> QED BY <2>1, <2>2, <2>3
<1>2. in'[c] = in[c] /\ UNCHANGED <<life, sent, reads>>
      BY Takes
<1>3. Shown(c)' = Shown(c)
      BY SignedStep
<1>4. Typed(c)
      BY DEF TInv
<1>5. Taken(c)' = Taken(c) /\ Attended(c)' = Attended(c)
      BY <1>1, <1>3 DEF Taken, Attended
<1>6. PICK k \in Nat : k = Taken(c) /\ k = Taken(c)'
      BY <1>5, TakenType
<1>7. Follows(c, k)' = Follows(c, k)
      BY <1>2 DEF Follows
<1>8. Attended(c)' => Follows(c, Taken(c))'
      BY <1>4, <1>5, <1>6, <1>7 DEF Typed
<1> QED BY <1>1, <1>2, <1>3, <1>4, <1>8 DEF Typed, Connected

LEMMA TypedSelf ==
    ASSUME AInv, Own, TInv, NEW c \in Conns \ shared, ThreadStep(c)
    PROVE  Typed(c)'
<1>1. /\ pc[c] \in Live \cup {"start"} /\ pc'[c] \notin {"none", "start"}
      /\ pc'[c] \in Early => pc[c] \in Early
      /\ pc'[c] = "register" => pc[c] = "ok"
      /\ pc[c] \in Stopped => pc'[c] \in Stopped
      BY Labels
<1>2. Typed(c)
      BY DEF TInv
<1>3. /\ UNCHANGED <<life, sent, reads>>
      /\ in'[c] = in[c] \/ (Serves(c) /\ in[c] # <<>> /\ in'[c] = Tail(in[c]))
      /\ Receives(c) /\ Serves(c) =>
            at[c] = c /\ in[c] # <<>> /\ in'[c] = Tail(in[c]) /\ Arrived(c) = Head(in[c])
      BY Takes
<1>4. \/ Broadcast(c) /\ Serves(c) /\ Shown(c)' = Shown(c) + 1
      \/ Shown(c)' = Shown(c) /\ (Broadcast(c) => msg[c].from # c)
      BY SignedStep
<1>5. pc \in [Conns -> PCs] /\ Shown(c) \in Nat
      BY LogType DEF AInv, TypeOK
<1>6. Serves(c)' => Serves(c) \/ ReadArg(c)
      BY KeepsServing
<1>7. ReadArg(c) => pc[c] = "start" /\ pc'[c] = "limit" /\ in'[c] = in[c]
      BY <1>5 DEF ReadArg, Goto, wire
<1>8. Attended(c)' => /\ Attended(c) /\ pc'[c] \notin Stopped
                      /\ ReadArg(c) \/ Serves(c)
      BY <1>1, <1>6, <1>7 DEF Attended
<1>9. Connected(c)' => sent'[c] >= 2
      BY <1>2, <1>3 DEF Typed, Connected
<1>10. Shown(c)' # 0 => pc'[c] \notin Early \cup {"register"}
  <2>1. Broadcast(c) => pc'[c] = "sendtag"
        BY <1>5 DEF Broadcast, Goto
  <2>2. "ok" \in Early /\ "sendtag" \notin Early
        BY DEF Early
  <2> QED BY <1>1, <1>2, <1>4, <2>1, <2>2 DEF Typed
<1>11. PICK k \in Nat : k = Taken(c)
      BY TakenType
<1>12. ASSUME Attended(c)'
       PROVE  Follows(c, k) /\ UNCHANGED <<sent, life>>
      BY <1>2, <1>3, <1>8, <1>11, <1>12 DEF Typed
<1>13. ASSUME Attended(c)', in'[c] = in[c], Taken(c)' = k
       PROVE  Follows(c, Taken(c))'
      BY <1>12, <1>13 DEF Follows
<1>14. ASSUME Attended(c)', Receives(c), Serves(c)
       PROVE  /\ Taken(c)' = k + 1 => Follows(c, Taken(c))'
              /\ at[c] = c
              /\ \/ Arrived(c) = ClientUnit(k + 1)
                 \/ Arrived(c) = Unit("QUIT") /\ k % 2 = 0
  <2>1. at[c] = c /\ in[c] # <<>> /\ in'[c] = Tail(in[c]) /\ Arrived(c) = Head(in[c])
        BY <1>3, <1>14
  <2>2. /\ Follows(c, k + 1)'
        /\ \/ Head(in[c]) = ClientUnit(k + 1)
           \/ Head(in[c]) = Unit("QUIT") /\ k = sent[c] /\ sent[c] % 2 = 0
        BY <1>12, <1>14, <2>1, FollowsTail
  <2>3. Taken(c)' = k + 1 => Follows(c, Taken(c))'
        BY <2>2 DEF Follows
  <2> QED BY <2>1, <2>2, <2>3
<1> DEFINE Rest == /\ pc'[c] = "broadcast" /\ Serves(c)' => msg'[c] = [from |-> c, n |-> Shown(c)' + 1]
                   /\ Attended(c)' => Follows(c, Taken(c))'
<1>15. CASE RecvTag(c)
  <2>1. pc[c] = "tag" /\ Receives(c) /\ pc'[c] \in {"name", "reject"}
        BY <1>5, <1>15 DEF RecvTag, Goto
  <2>2. Attended(c)' => Serves(c) /\ pc'[c] = "name"
        BY <1>7, <1>8, <2>1 DEF Stopped
  <2>3. k = 0 /\ (pc'[c] = "name" => Taken(c)' = k + 1)
        BY <1>11, <2>1 DEF Taken, Sending
  <2>4. Rest
        BY <1>14, <2>1, <2>2, <2>3
  <2> QED BY <2>4, <1>9, <1>10 DEF Typed
<1>16. CASE RecvName(c)
  <2>1. pc[c] = "name" /\ Receives(c) /\ pc'[c] \in {"ok", "name"}
        /\ (Arrived(c).what = "name" => pc'[c] = "ok")
        BY <1>5, <1>16 DEF RecvName, Goto
  <2>2. k = 1 /\ (pc'[c] = "ok" => Taken(c)' = k + 1)
        BY <1>11, <2>1 DEF Taken
  <2>3. Attended(c)' => Serves(c) /\ pc'[c] = "ok"
    <3>1. Attended(c)' => Serves(c)
          BY <1>7, <1>8, <2>1
    <3>2. k + 1 = 2 /\ k % 2 # 0
          BY <2>2
    <3>3. Attended(c)' => Arrived(c) = Unit("name")
          BY <1>14, <2>1, <3>1, <3>2, ClientUnits
    <3> QED BY <2>1, <3>1, <3>3 DEF Unit
  <2>4. Rest
        BY <1>14, <2>1, <2>2, <2>3
  <2> QED BY <2>4, <1>9, <1>10 DEF Typed
<1>17. CASE RecvMsgTag(c)
  <2>1. pc[c] = "serve" /\ Receives(c) /\ pc'[c] \in {"text", "close"}
        BY <1>5, <1>17 DEF RecvMsgTag, Goto
  <2>2. Attended(c)' => Serves(c) /\ pc'[c] = "text"
        BY <1>7, <1>8, <2>1 DEF Stopped
  <2>3. pc'[c] = "text" => Taken(c)' = k + 1
    <3>1. Shown(c)' = Shown(c)
          BY <1>4, <2>1 DEF Broadcast
    <3>2. k = 2 + 2 * Shown(c)
          BY <1>11, <2>1 DEF Taken
    <3>3. pc'[c] = "text" => Taken(c)' = 3 + 2 * Shown(c)
          BY <3>1 DEF Taken, Sending
    <3> QED BY <1>5, <3>2, <3>3
  <2>4. Rest
        BY <1>14, <2>1, <2>2, <2>3
  <2> QED BY <2>4, <1>9, <1>10 DEF Typed
<1>18. CASE RecvText(c)
  <2>1. pc[c] = "text" /\ Receives(c) /\ pc'[c] \in {"broadcast", "text"}
        /\ (Arrived(c).what = "text" => pc'[c] = "broadcast")
        /\ msg'[c] = [from |-> at[c], n |-> Arrived(c).n]
        BY <1>5, <1>18 DEF RecvText, Goto, AInv, TypeOK
  <2>2. PICK n \in Nat : n = Shown(c) /\ n = Shown(c)'
        BY <1>4, <1>5, <2>1 DEF Broadcast
  <2>3. k = 3 + 2 * n /\ (pc'[c] = "broadcast" => Taken(c)' = 4 + 2 * n)
        BY <1>11, <2>1, <2>2 DEF Taken, Sending
  <2>4. Attended(c)' => Serves(c) /\ at[c] = c /\ Arrived(c) = Text(n + 1)
    <3>1. Attended(c)' => Serves(c)
          BY <1>7, <1>8, <2>1
    <3>2. k + 1 = 2 * n + 4 /\ k % 2 # 0
          BY <2>3
    <3> QED BY <1>14, <2>1, <3>1, <3>2, ClientUnits
  <2>5. Attended(c)' => pc'[c] = "broadcast" /\ msg'[c] = [from |-> c, n |-> Shown(c)' + 1]
        BY <2>1, <2>2, <2>4 DEF Text
  <2>6. 4 + 2 * n = (3 + 2 * n) + 1
        OBVIOUS
  <2>7. Attended(c)' => Follows(c, Taken(c))'
        BY <1>14, <2>1, <2>3, <2>4, <2>5, <2>6
  <2>8. pc'[c] = "broadcast" /\ Serves(c)' => Attended(c)'
        BY DEF Attended, Stopped
  <2>9. Rest
        BY <2>5, <2>7, <2>8
  <2> QED BY <2>9, <1>9, <1>10 DEF Typed
<1>19. CASE Broadcast(c)
  <2>1. pc[c] = "broadcast" /\ pc'[c] = "sendtag" /\ in'[c] = in[c]
        BY <1>5, <1>19 DEF Broadcast, Goto, wire
  <2>2. Attended(c)' => Serves(c)
        BY <1>7, <1>8, <2>1
  <2>3. Attended(c)' => Shown(c)' = Shown(c) + 1
        BY <1>2, <1>4, <1>19, <2>1, <2>2 DEF Typed
  <2>4. k = 4 + 2 * Shown(c) /\ Taken(c)' = 2 + 2 * Shown(c)'
        BY <1>11, <2>1 DEF Taken, Sending
  <2>5. Attended(c)' => Taken(c)' = k
        BY <1>5, <2>3, <2>4
  <2>6. Rest
        BY <1>13, <2>1, <2>5
  <2> QED BY <2>6, <1>9, <1>10 DEF Typed
<1>20. CASE \/ ReadArg(c) \/ CheckLimit(c) \/ Call(c) \/ ReplyOK(c)
            \/ AddClient(c) \/ SendTag(c) \/ SendText(c) \/ BroadcastDone(c)
  <2>1. in'[c] = in[c] /\ pc[c] # "broadcast"
        BY <1>20 DEF ReadArg, CheckLimit, Call, ReplyOK, AddClient, SendTag, SendText, BroadcastDone,
           wire, Receiving
  <2>2. Shown(c)' = Shown(c)
        BY <1>4, <2>1 DEF Broadcast
  <2>3. \/ pc'[c] = pc[c]
        \/ pc[c] \in {"start", "limit"} /\ pc'[c] \in {"limit", "tag", "reject"}
        \/ pc[c] = "ok" /\ pc'[c] = "register"
        \/ pc[c] = "register" /\ pc'[c] = "serve"
        \/ pc[c] \in Sending /\ pc'[c] \in Sending \cup {"serve"}
        BY <1>5, <1>20 DEF ReadArg, CheckLimit, Call, ReplyOK, AddClient, SendTag, SendText,
           BroadcastDone, Goto, Sending
  <2>4. pc[c] = "register" => 2 + 2 * Shown(c) = 2
        BY <1>2 DEF Typed
  <2>5. Taken(c)' = Taken(c)
        BY <2>2, <2>3, <2>4 DEF Taken, Sending
  <2>6. Rest
        BY <1>11, <1>13, <2>1, <2>3, <2>5 DEF Sending
  <2> QED BY <2>6, <1>9, <1>10 DEF Typed
<1>21. CASE HelloFails(c) \/ Reject(c) \/ SessionEnds(c) \/ CloseSession(c) \/ RemoveClient(c)
  <2>1. pc'[c] \in Stopped
        BY <1>5, <1>21 DEF HelloFails, Reject, SessionEnds, CloseSession, RemoveClient, Goto, Stopped
  <2>2. Rest
        BY <1>8, <2>1 DEF Stopped
  <2> QED BY <2>2, <1>9, <1>10 DEF Typed
<1> QED BY <1>15, <1>16, <1>17, <1>18, <1>19, <1>20, <1>21 DEF ThreadStep

LEMMA TypedNext ==
    ASSUME AInv, Own, Started, TInv, [Next]_vars
    PROVE  TInv'
<1>1. CASE UNCHANGED vars \/ AcceptFails
  <2>1. UNCHANGED <<life, sent, reads, in, file, pc, fd, msg, log, shared>>
        BY <1>1 DEF vars, AcceptFails, proc, wire, kernel, thread, hist
  <2>2. ASSUME NEW c \in Conns
        PROVE  Typed(c)' = Typed(c) /\ Signed(c)' = Signed(c)
        BY <2>1 DEF Typed, Signed, Shown, UpTo, Taken, Follows, Attended, Serves, Connected
  <2> QED BY <2>1, <2>2 DEF TInv
<1>2. ASSUME NEW d \in Conns, UserStep(d) \/ ClientStep(d)
      PROVE  TInv'
      BY <1>2, TypedClient
<1>3. ASSUME NEW t \in Conns, ThreadStep(t)
      PROVE  TInv'
  <2>1. shared \subseteq shared'
        BY <1>3, ThreadMoves DEF ReadArg
  <2>2. ASSUME NEW c \in Conns \ shared
        PROVE  Typed(c)' /\ Signed(c)'
        BY <1>3, SignedStep, TypedOthers, TypedSelf
  <2> QED BY <2>1, <2>2 DEF TInv
<1>4. ASSUME NEW d \in Conns, Accept(d)
      PROVE  TInv'
  <2>1. /\ UNCHANGED <<life, sent, reads, in, msg, log>> /\ shared \subseteq shared'
        /\ pc[d] = "none" /\ \A u \in Conns : pc'[u] = IF u = d THEN "start" ELSE pc[u]
        BY <1>4 DEF Accept, Goto, proc, wire, thread, AInv, TypeOK
  <2> SUFFICES ASSUME NEW c \in Conns \ shared'
               PROVE  Typed(c)' /\ Signed(c)'
      BY DEF TInv
  <2>2. /\ Typed(c) /\ Signed(c)
        /\ Serves(c)' => Serves(c) \/ (pc[c] = "start" /\ pc'[c] = "limit")
        BY <2>1, Course DEF TInv
  <2>3. Shown(c)' = Shown(c) /\ Signed(c)'
        BY <2>1, <2>2 DEF Shown, UpTo, Signed
  <2>4. Taken(c)' = Taken(c)
        BY <2>1, <2>3 DEF Taken, Sending
  <2>5. Attended(c)' => Attended(c)
    <3>1. CASE c = d
          BY <2>1, <3>1 DEF Attended
    <3>2. CASE c # d
      <4>1. pc'[c] = pc[c]
            BY <2>1, <3>2
      <4>2. pc[c] = "start" /\ pc'[c] = "limit" => FALSE
            BY <4>1
      <4>3. Serves(c)' => Serves(c)
            BY <2>2, <4>2
      <4> QED BY <4>1, <4>3 DEF Attended
    <3> QED BY <3>1, <3>2
  <2>6. PICK k \in Nat : k = Taken(c) /\ k = Taken(c)'
        BY <2>4, TakenType
  <2>7. Follows(c, k)' = Follows(c, k)
        BY <2>1 DEF Follows
  <2>8. Attended(c)' => Follows(c, Taken(c))'
        BY <2>2, <2>5, <2>6, <2>7 DEF Typed
  <2> QED BY <2>1, <2>2, <2>3, <2>8 DEF Typed, Connected, Early
<1> QED BY <1>1, <1>2, <1>3, <1>4 DEF Next

LEMMA TypedInit == Init => TInv
<1> SUFFICES ASSUME Init, NEW c \in Conns PROVE Typed(c) /\ Signed(c)
    BY DEF TInv
<1>1. log = <<>> /\ pc[c] = "none" /\ in[c] = <<>> /\ sent[c] = 0 /\ reads[c] = "reply"
      BY DEF Init
<1>2. Shown(c) = 0
  <2>1. UpTo(c, Len(log)) = {}
        BY <1>1 DEF UpTo
  <2> QED BY <2>1, FS_EmptySet DEF Shown
<1>3. Taken(c) = 0
      BY <1>1 DEF Taken, Sending
<1>4. Follows(c, 0)
      BY <1>1 DEF Follows
<1> QED BY <1>1, <1>2, <1>3, <1>4 DEF Typed, Signed, Connected

(* What such a client typed appears under its own name, each text once and  *)
(* in the order in which it was typed.                                      *)
THEOREM AuthenticCorrect == Spec => []Authentic
<1>1. Init => TInv
      BY TypedInit
<1>2. AInv /\ Own /\ CInv /\ TInv /\ [Next]_vars => TInv'
      BY TypedNext DEF CInv
<1>3. TInv => Authentic
      BY DEF TInv, Signed, UpTo, Authentic
<1> QED BY <1>1, <1>2, <1>3, CInvariant, PTL DEF Spec
=============================================================================
