-------------------------- MODULE MeshClientProofs --------------------------
(***************************************************************************)
(* Proofs about MeshClient, for every number of peers, list and texts.      *)
(***************************************************************************)
EXTENDS MeshClient, Counting

(* The places of main while it reads the list, while it is about a          *)
(* connection that has no thread yet, and while that one is open.           *)
Listing == {"count", "list", "socket", "connect", "greet", "spawn"}
Dialled == {"greet", "spawn", "greeting", "store", "start"}
Making  == Dialled \cup {"socket", "connect"}

ReceiverPCs == {"none", "begin", "recv", "close", "find", "shift", "dec", "done"}
Entered     == {"tag", "text", "fail", "lock", "shift", "dec"}
SenderPCs   == {"none", "idle", "loop"} \cup Entered

Started == {c \in Conns : pc[c] # "none"}

(* Every index a thread uses is one of clients[], and so is the next one    *)
(* while the send thread is in the middle of a turn.                        *)
Places ==
    /\ \A t \in Conns : pc[t] \in ReceiverPCs
    /\ pc[Sender] \in SenderPCs
    /\ \A t \in Threads : arg[t] \in Slots
    /\ pc[Sender] \in Entered => arg[Sender] + 1 \in Slots
    /\ main \in {"greeting", "store"} => tmp[NoConn] \in Fds

(* Every connection is open on one descriptor at most, and none before main *)
(* was about it.  Beside a socket to be connected, one other file at most   *)
(* is open, unless the entry of that socket has been removed.               *)
Opening ==
    Running =>
       /\ main \in Making => cur \in Conns /\ pc[cur] = "none"
       /\ \A f \in Fds : file[f] \in Conns => pc[file[f]] # "none" \/ (main \in Dialled /\ file[f] = cur)
       /\ \A f, g \in Fds : file[f] = file[g] /\ file[f] \in Conns => f = g
       /\ (main = "connect" => clients[i].who # NoConn) =>
             \A f, g \in Fds : file[f] = Other /\ file[g] = Other =>
                f = g \/ (main = "connect" /\ clients[i].fd \in {f, g})

(* A peer that has not called yet has no descriptor and no thread.          *)
Strangers ==
    \A c \in Conns : link[c] = "new" => /\ c \notin listed /\ c # cur /\ pc[c] = "none"
                                       /\ \A f \in Fds : file[f] # c

(* The list is read entry by entry, whatever is removed meanwhile; behind   *)
(* the entry being read nothing is filled yet.                              *)
Reading ==
    main \in Listing =>
       /\ Started \subseteq listed /\ i = Cardinality(Started) /\ pc[Sender] = "none"
       /\ main \in Making => cur \in listed /\ clients[i].who \in {cur, NoConn}
       /\ \A s \in Slots : s > i \/ (s = i /\ main \notin Making) => clients[s] = Empty

AInv == TypeOK /\ Places /\ Opening /\ Strangers /\ Reading

-----------------------------------------------------------------------------
(* Lemmas about the operators *)

LEMMA Sizes ==
    /\ IsFiniteSet(Conns) /\ Cardinality(Conns) \in Nat /\ TSIZE \in Nat /\ TSIZE > Cardinality(Conns)
    /\ NoConn \notin Conns /\ Other \notin Conns /\ Sender \notin Conns
    /\ NoConn # Other /\ NoConn # Sender /\ Other # Sender
    /\ Fds = 0 .. Cardinality(Conns) /\ Fds \subseteq Slots /\ Slots = 0 .. TSIZE - 1
    /\ Fds \subseteq Nat /\ Slots \subseteq Nat /\ 0 \in Fds /\ 0 \in Slots
    /\ Empty \in Entries /\ Empty.fd = 0 /\ Empty.who = NoConn
<1>1. IsFiniteSet(Conns) /\ Cardinality(Conns) \in Nat /\ TSIZE \in Nat /\ TSIZE > Cardinality(Conns)
      BY MeshClientAssumption, FS_CardinalityType
<1>2. NoConn # Other /\ NoConn # Sender /\ Other # Sender
  <2>1. Cardinality({NoConn, Other, Sender}) = 3
        BY MeshClientAssumption
  <2>2. ASSUME NEW a, NEW b
        PROVE  Cardinality({a, b}) # 3
    <3>1. IsFiniteSet({a}) /\ Cardinality({a}) = 1
          BY FS_Singleton
    <3>2. Cardinality({a} \cup {b}) = IF b \in {a} THEN 1 ELSE 2
          BY <3>1, FS_AddElement
    <3>3. {a, b} = {a} \cup {b} /\ (IF b \in {a} THEN 1 ELSE 2) # 3
          OBVIOUS
    <3> QED BY <3>2, <3>3
  <2>4. NoConn = Other => {NoConn, Other, Sender} = {Other, Sender}
        OBVIOUS
  <2>5. NoConn = Sender => {NoConn, Other, Sender} = {Other, Sender}
        OBVIOUS
  <2>6. Other = Sender => {NoConn, Other, Sender} = {NoConn, Sender}
        OBVIOUS
  <2> QED BY <2>1, <2>2, <2>4, <2>5, <2>6
<1>3. NoConn \notin Conns /\ Other \notin Conns /\ Sender \notin Conns
      BY MeshClientAssumption
<1> QED BY <1>1, <1>2, <1>3 DEF Fds, Slots, Empty, Entries

(* As long as a connection is not open, there is a free descriptor: one     *)
(* other file is open at most.                                              *)
LEMMA FreeFd ==
    ASSUME file \in [Fds -> Conns \cup {NoConn, Other}], NEW c \in Conns,
           \A f \in Fds : file[f] # c,
           \A f, g \in Fds : file[f] = file[g] /\ file[f] # NoConn => f = g
    PROVE  LeastFree \in Fds /\ file[LeastFree] = NoConn
<1> DEFINE T == Conns \cup {Other}
           n == Cardinality(T)
           place == [k \in 1 .. n |-> file[k - 1]]
<1>1. IsFiniteSet(T) /\ n = Cardinality(Conns) + 1 /\ Cardinality(Conns) \in Nat
      BY Sizes, FS_AddElement
<1>2. \A k \in 1 .. n : k - 1 \in Fds
      BY <1>1, Sizes
<1>3. place \in [1 .. n -> T \cup {NoConn}]
      BY <1>2
<1>4. \A j, k \in DOMAIN place : place[j] = place[k] /\ place[j] # NoConn => j = k
  <2> SUFFICES ASSUME NEW j \in 1 .. n, NEW k \in 1 .. n, file[j - 1] = file[k - 1], file[j - 1] # NoConn
               PROVE  j = k
      OBVIOUS
  <2>1. j - 1 = k - 1
        BY <1>2
  <2> QED BY <2>1, <1>1
<1>5. \A k \in DOMAIN place : place[k] # c
      BY <1>2
<1>6. \E f \in Fds : file[f] = NoConn
  <2>1. NoConn \notin T /\ c \in T
        BY Sizes
  <2>2. \E k \in DOMAIN place : place[k] = NoConn
    <3> HIDE DEF place, T
    <3> QED BY <1>1, <1>3, <1>4, <1>5, <2>1, FreePlace
  <2> QED BY <2>2, <1>2
<1> DEFINE S == {f \in Fds : file[f] = NoConn}
<1>7. S \in SUBSET Nat /\ S # {}
      BY <1>6, Sizes
<1>8. \E f \in S : \A g \in S : f <= g
  <2> HIDE DEF S
  <2> QED BY <1>7, LeastExists
<1> QED BY <1>8 DEF LeastFree

LEMMA ListedSize ==
    ASSUME TypeOK
    PROVE  /\ listed \subseteq Conns /\ IsFiniteSet(listed) /\ Cardinality(listed) \in Nat
           /\ Cardinality(listed) <= Cardinality(Conns)
           /\ i \in Nat /\ i \in Slots /\ i <= Cardinality(listed)
<1>1. listed \subseteq Conns
      BY MeshClientAssumption DEF TypeOK
<1>2. IsFiniteSet(listed) /\ Cardinality(listed) \in Nat /\ Cardinality(listed) <= Cardinality(Conns)
      BY <1>1, Sizes, FS_Subset, FS_CardinalityType
<1>3. i \in 0 .. Cardinality(listed)
      BY DEF TypeOK
<1> QED BY <1>1, <1>2, <1>3, Sizes

LEMMA Posted ==
    ASSUME TypeOK
    PROVE  Bounds[listed].texts \in Nat /\ posted \in Nat /\ posted \in 0 .. Bounds[listed].texts
<1>1. listed \in Lists /\ posted \in 0 .. Bounds[listed].texts
      BY DEF TypeOK
<1>2. Bounds[listed].texts \in Nat
      BY <1>1, MeshClientAssumption
<1> QED BY <1>1, <1>2

LEMMA GotoType ==
    ASSUME pc \in [Threads -> PCs], NEW t \in Threads, NEW label \in PCs, Goto(t, label)
    PROVE  pc' \in [Threads -> PCs] /\ \A u \in Threads : pc'[u] = IF u = t THEN label ELSE pc[u]
BY DEF Goto

(* A send() puts its unit on the connection it goes to, or nowhere; one that *)
(* waits for room has put nothing anywhere.                                 *)
LEMMA SendType ==
    ASSUME TypeOK, NEW t \in Threads \cup {NoConn}, NEW f, NEW unit \in Units, NEW ret \in {1, -1},
           Send(t, f, unit, ret)
    PROVE  /\ out' \in [Conns -> Seq(Units)] /\ full' = full
           /\ at' \in [Threads \cup {NoConn} -> Conns \cup {NoConn}]
           /\ \A u \in Threads \cup {NoConn} : at'[u] = IF u = t THEN NoConn ELSE at[u]
           /\ \A c \in Conns : out'[c] = IF Target(t, f) = c /\ link[c] = "up" THEN Append(out[c], unit) ELSE out[c]
           /\ Target(t, f) \in Conns /\ link[Target(t, f)] = "up" => ret = 1
<1>1. out \in [Conns -> Seq(Units)] /\ at \in [Threads \cup {NoConn} -> Conns \cup {NoConn}]
      BY DEF TypeOK
<1> DEFINE d == Target(t, f)
<1>2. full' = full /\ at' = [at EXCEPT ![t] = NoConn]
      BY DEF Send
<1>3. \/ d \in Conns /\ link[d] = "up" /\ ret = 1 /\ out' = [out EXCEPT ![d] = Append(@, unit)]
      \/ ~(d \in Conns /\ link[d] = "up") /\ UNCHANGED out
  <2>1. \A c \in Conns : link[c] = "gone" => link[c] # "up"
        OBVIOUS
  <2> QED BY <2>1 DEF Send
<1> HIDE DEF d
<1>4. /\ out' \in [Conns -> Seq(Units)]
      /\ \A c \in Conns : out'[c] = IF d = c /\ link[c] = "up" THEN Append(out[c], unit) ELSE out[c]
      /\ d \in Conns /\ link[d] = "up" => ret = 1
  <2>1. CASE d \in Conns /\ link[d] = "up" /\ ret = 1 /\ out' = [out EXCEPT ![d] = Append(@, unit)]
    <3>1. out[d] \in Seq(Units)
          BY <1>1, <2>1
    <3>2. Append(out[d], unit) \in Seq(Units)
          BY <3>1
    <3> QED BY <1>1, <2>1, <3>2
  <2>2. CASE ~(d \in Conns /\ link[d] = "up") /\ UNCHANGED out
        BY <1>1, <2>2
  <2> QED BY <1>3, <2>1, <2>2
<1> QED BY <1>1, <1>2, <1>4 DEF d

LEMMA WaitsType ==
    ASSUME TypeOK, NEW t \in Threads \cup {NoConn}, NEW f, Waits(t, f)
    PROVE  /\ out' = out /\ full' \in SUBSET Conns
           /\ at' \in [Threads \cup {NoConn} -> Conns \cup {NoConn}]
           /\ \A u \in Threads \cup {NoConn} : at'[u] = IF u = t THEN file[f] ELSE at[u]
           /\ at[t] = NoConn /\ file[f] \in Conns /\ link[file[f]] = "up"
BY DEF Waits, TypeOK

-----------------------------------------------------------------------------
(* What a step of a thread leaves to main: a descriptor may be closed under *)
(* it, and an entry overwritten with the next one.                          *)
LeavesToMain ==
    /\ Running /\ UNCHANGED <<listed, link, greeted, main, cur, i>> /\ tmp'[NoConn] = tmp[NoConn]
    /\ \A u \in Threads : pc'[u] = "none" <=> pc[u] = "none"
    /\ \A f \in Fds : file'[f] \in {file[f], NoConn}
    /\ \A s \in Slots : clients'[s] = clients[s] \/ (s + 1 \in Slots /\ clients'[s] = clients[s + 1])

LEMMA RemovalMoves ==
    ASSUME AInv, NEW t \in Threads, Shift(t) \/ LoadToDrop(t) \/ Drop(t)
    PROVE  LeavesToMain
<1>1. /\ pc \in [Threads -> PCs] /\ clients \in [Slots -> Entries]
      /\ tmp \in [Threads \cup {NoConn} -> 0 .. TSIZE - 1]
      /\ peer_count \in 0 .. TSIZE - 1 /\ pos \in [Threads -> 0 .. TSIZE]
      /\ NoConn \notin Threads
      BY Sizes DEF AInv, TypeOK, Threads
<1>2. CASE Shift(t)
  <2>1. pos[t] \in Slots /\ pos[t] + 1 \in Slots
        BY <1>1, <1>2, Sizes DEF Shift
  <2> QED BY <1>1, <1>2, <2>1 DEF Shift, LeavesToMain, env, net, mainv
<1>3. CASE LoadToDrop(t)
      BY <1>1, <1>3 DEF LoadToDrop, LeavesToMain, Goto, env, net, mainv, array
<1>4. CASE Drop(t)
      BY <1>1, <1>4 DEF Drop, LeavesToMain, Goto, env, net, mainv
<1> QED BY <1>2, <1>3, <1>4

LEMMA ThreadMoves ==
    ASSUME AInv, SendStep \/ Type \/ \E t \in Conns : ReceiveStep(t)
    PROVE  LeavesToMain
<1>1. /\ pc \in [Threads -> PCs] /\ file \in [Fds -> Conns \cup {NoConn, Other}]
      /\ Sender \in Threads /\ \A t \in Conns : t \in Threads
      BY DEF AInv, TypeOK, Threads
<1>2. ASSUME NEW t \in Conns, Begin(t) \/ Call(t) \/ RecvEnds(t) \/ FindEntry(t)
      PROVE  LeavesToMain
      BY <1>1, <1>2 DEF Begin, Call, RecvEnds, FindEntry, LeavesToMain, Goto, env, net, mainv, array
<1>3. ASSUME NEW t \in Conns, CloseConn(t)
      PROVE  LeavesToMain
      BY <1>1, <1>3 DEF CloseConn, LeavesToMain, Goto, env, net, mainv, array
<1>4. CASE Look \/ SendWaits \/ SendTag \/ SendText
      BY <1>1, <1>4 DEF Look, SendWaits, SendTag, SendText, LeavesToMain, Goto, env, net, mainv, array
<1>5. CASE SendFails
      BY <1>1, <1>5 DEF SendFails, LeavesToMain, Goto, env, net, mainv, array
<1>6. CASE LockToDrop \/ Type
      BY <1>1, <1>6 DEF LockToDrop, Type, LeavesToMain, Goto, env, net, mainv, array
<1> QED BY <1>1, <1>2, <1>3, <1>4, <1>5, <1>6, RemovalMoves DEF ReceiveStep, SendStep

(* Such a step keeps what main relies on.                                   *)
LEMMA MainUndisturbed ==
    ASSUME AInv, LeavesToMain
    PROVE  Opening' /\ Strangers' /\ Reading'
<1>1. /\ file \in [Fds -> Conns \cup {NoConn, Other}] /\ clients \in [Slots -> Entries]
      /\ i \in Nat /\ i \in Slots /\ Conns \subseteq Threads /\ Sender \in Threads /\ NoConn \notin Conns
      /\ NoConn # Other
  <2>1. TypeOK
        BY DEF AInv
  <2> QED BY <2>1, ListedSize, Sizes DEF TypeOK, Threads
<1>2. UNCHANGED <<listed, link, main, cur, i>> /\ Running /\ Running'
      BY DEF LeavesToMain, Running
<1>3. \A c \in Conns : pc'[c] = "none" <=> pc[c] = "none"
      BY <1>1 DEF LeavesToMain
<1>4. \A f \in Fds : file'[f] = file[f] \/ file'[f] = NoConn
      BY DEF LeavesToMain
<1>5. ASSUME main \in Listing
      PROVE  /\ clients'[i] = clients[i] \/ clients'[i] = Empty
             /\ \A s \in Slots : s > i \/ (s = i /\ main \notin Making) => clients'[s] = Empty
  <2>1. \A s \in Slots : s > i \/ (s = i /\ main \notin Making) => clients[s] = Empty
        BY <1>5 DEF AInv, Reading
  <2>2. \A s \in Slots : s \in Nat /\ (s >= i => s + 1 > i)
        BY <1>1, Sizes
  <2> QED BY <1>1, <2>1, <2>2 DEF LeavesToMain
<1>6. Opening'
  <2>1. main \in Making => cur \in Conns /\ pc'[cur] = "none"
        BY <1>2, <1>3 DEF AInv, Opening
  <2>2. \A f \in Fds : file'[f] \in Conns =>
           file'[f] = file[f] /\ (pc'[file[f]] # "none" \/ (main \in Dialled /\ file[f] = cur))
        BY <1>1, <1>2, <1>3, <1>4 DEF AInv, Opening
  <2>3. \A f, g \in Fds : file'[f] = file'[g] /\ file'[f] \in Conns => f = g
        BY <1>1, <1>2, <1>4 DEF AInv, Opening
  <2>4. main = "connect" /\ clients'[i].who # NoConn => clients'[i] = clients[i]
        BY <1>5, Sizes DEF Listing
  <2>5. \A f \in Fds : file'[f] = Other => file[f] = Other
        BY <1>1, <1>4
  <2>6. ASSUME main = "connect" => clients'[i].who # NoConn
        PROVE  \A f, g \in Fds : file'[f] = Other /\ file'[g] = Other =>
                  f = g \/ (main = "connect" /\ clients'[i].fd \in {f, g})
        BY <1>2, <2>4, <2>5, <2>6 DEF AInv, Opening
  <2> QED BY <1>2, <2>1, <2>2, <2>3, <2>6 DEF Opening
<1>7. Strangers'
      BY <1>1, <1>2, <1>3, <1>4 DEF AInv, Strangers
<1>8. Reading'
  <2>1. Started' = Started
        BY <1>3 DEF Started
  <2>2. pc'[Sender] = "none" <=> pc[Sender] = "none"
        BY <1>1 DEF LeavesToMain
  <2>3. Empty.who = NoConn
        BY Sizes
  <2> QED BY <1>2, <1>5, <2>1, <2>2, <2>3 DEF AInv, Reading
<1> QED BY <1>6, <1>7, <1>8

-----------------------------------------------------------------------------
(* Types *)

LEMMA RemovalTypes ==
    ASSUME AInv, NEW t \in Threads, Shift(t) \/ LoadToDrop(t) \/ Drop(t)
    PROVE  TypeOK' /\ Places'
<1>0. TypeOK /\ Places
      BY DEF AInv
<1>1. /\ peer_count \in Slots /\ pos[t] \in Nat /\ arg[t] \in Slots /\ tmp[t] \in Slots
      /\ tmp[t] - 1 \in Int /\ \A k \in Int : k % TSIZE \in Slots
  <2>1. \A k \in Int : k % TSIZE \in Slots
    <3>1. TSIZE \in Nat /\ TSIZE > 0
          BY Sizes
    <3> QED BY <3>1, Sizes
  <2>2. Slots = 0 .. TSIZE - 1 /\ Slots \subseteq Nat /\ 0 .. TSIZE \subseteq Nat
        BY Sizes
  <2>3. peer_count \in Slots /\ tmp[t] \in Slots
        BY <1>0, <2>2 DEF TypeOK
  <2>4. pos[t] \in Nat /\ arg[t] \in Slots
        BY <1>0, <2>2 DEF TypeOK, Places
  <2>5. tmp[t] - 1 \in Int
        BY <2>2, <2>3
  <2> QED BY <2>1, <2>3, <2>4, <2>5
<1>2. CASE Shift(t)
  <2>1. pos[t] \in Slots /\ pos[t] + 1 \in Slots
        BY <1>1, <1>2, Sizes DEF Shift
  <2>2. clients' \in [Slots -> Entries] /\ pos' \in [Threads -> 0 .. TSIZE]
    <3>1. clients \in [Slots -> Entries] /\ pos \in [Threads -> 0 .. TSIZE]
          BY <1>0 DEF TypeOK
    <3>2. /\ clients' = [clients EXCEPT ![pos[t]] = clients[pos[t] + 1]]
          /\ pos' = [pos EXCEPT ![t] = pos[t] + 1]
          BY <1>2 DEF Shift
    <3>3. pos[t] + 1 \in 0 .. TSIZE
          BY <2>1, Sizes
    <3>4. clients[pos[t] + 1] \in Entries
          BY <2>1, <3>1
    <3>5. clients' \in [Slots -> Entries]
          BY <3>1, <3>2, <3>4
    <3> QED BY <3>1, <3>2, <3>3, <3>5
  <2>3. due' \in SUBSET Conns /\ moved' \in SUBSET Conns
        BY <1>0, <1>2 DEF Shift, TypeOK, AInv, Opening, Making, Dialled
  <2> QED BY <1>0, <1>2, <2>2, <2>3 DEF Shift, TypeOK, Places, env, net, mainv
<1>3. CASE LoadToDrop(t)
  <2>1. tmp' \in [Threads \cup {NoConn} -> 0 .. TSIZE - 1] /\ tmp'[NoConn] = tmp[NoConn]
        BY <1>0, <1>1, <1>3, Sizes DEF LoadToDrop, TypeOK, Threads
  <2>2. pc' \in [Threads -> PCs] /\ \A u \in Threads : pc'[u] = IF u = t THEN "dec" ELSE pc[u]
        BY <1>0, <1>3, GotoType DEF LoadToDrop, TypeOK, PCs
  <2>3. pc[t] = "shift"
        BY <1>3 DEF LoadToDrop
  <2> QED BY <1>0, <1>3, <2>1, <2>2, <2>3, Sizes
          DEF LoadToDrop, TypeOK, Places, env, net, mainv, array, thread, hist, marks, Threads, ReceiverPCs, SenderPCs, Entered
<1>4. CASE Drop(t)
  <2>1. pc[t] = "dec"
        BY <1>4 DEF Drop
  <2>2. /\ tmp' \in [Threads \cup {NoConn} -> 0 .. TSIZE - 1] /\ tmp'[NoConn] = tmp[NoConn]
        /\ pos' \in [Threads -> 0 .. TSIZE] /\ peer_count' \in 0 .. TSIZE - 1
    <3>1. peer_count' \in Slots
          BY <1>1, <1>4 DEF Drop
    <3>2. tmp' = [tmp EXCEPT ![t] = 0] /\ pos' = [pos EXCEPT ![t] = 0]
          BY <1>4 DEF Drop
    <3>3. 0 \in 0 .. TSIZE - 1 /\ 0 \in 0 .. TSIZE /\ Slots = 0 .. TSIZE - 1 /\ NoConn # t
          BY Sizes DEF Threads
    <3> QED BY <1>0, <3>1, <3>2, <3>3 DEF TypeOK
  <2>5. due' \in SUBSET Conns /\ wrapped' \in BOOLEAN
        BY <1>0, <1>4 DEF Drop, TypeOK
  <2>3. CASE t = Sender
    <3>1. arg[Sender] + 1 \in Slots
          BY <1>0, <2>1, <2>3 DEF Places, Entered
    <3>2. arg' \in [Threads -> 0 .. TSIZE] /\ \A u \in Threads : arg'[u] \in Slots
      <4>1. arg' = [arg EXCEPT ![Sender] = @ + 1] /\ arg \in [Threads -> 0 .. TSIZE]
            BY <1>0, <1>4, <2>3 DEF Drop, TypeOK
      <4>2. Slots \subseteq 0 .. TSIZE
            BY Sizes
      <4> QED BY <1>0, <3>1, <4>1, <4>2 DEF Places
    <3>3. pc' \in [Threads -> PCs] /\ \A u \in Threads : pc'[u] = IF u = t THEN "loop" ELSE pc[u]
          BY <1>0, <1>4, <2>3, GotoType DEF Drop, TypeOK, PCs
    <3> QED BY <1>0, <1>4, <2>2, <2>3, <2>5, <3>2, <3>3, Sizes
            DEF Drop, TypeOK, Places, env, net, mainv, Threads, SenderPCs, Entered
  <2>4. CASE t # Sender
    <3>1. pc' \in [Threads -> PCs] /\ \A u \in Threads : pc'[u] = IF u = t THEN "done" ELSE pc[u]
          BY <1>0, <1>4, <2>4, GotoType DEF Drop, TypeOK, PCs
    <3> QED BY <1>0, <1>4, <2>2, <2>4, <2>5, <3>1, Sizes
            DEF Drop, TypeOK, Places, env, net, mainv, Threads, ReceiverPCs
  <2> QED BY <2>3, <2>4
<1> QED BY <1>2, <1>3, <1>4

LEMMA ReceiveTypes ==
    ASSUME AInv, NEW t \in Conns, ReceiveStep(t)
    PROVE  TypeOK' /\ Places'
<1>0. TypeOK /\ Places /\ t \in Threads /\ t # Sender
      BY Sizes DEF AInv, Threads
<1> DEFINE Moves(label) == pc' \in [Threads -> PCs] /\ \A u \in Threads : pc'[u] = IF u = t THEN label ELSE pc[u]
<1>1. \A label \in PCs : Goto(t, label) => Moves(label)
      BY <1>0, GotoType DEF TypeOK
<1>2. ASSUME NEW label \in ReceiverPCs, Moves(label), UNCHANGED <<arg, main, tmp>>
      PROVE  Places'
      BY <1>0, <1>2 DEF Places, Threads
<1> HIDE DEF Moves
<1>3. {"none", "begin", "recv", "close", "find", "shift", "dec", "done"} \subseteq PCs
      BY DEF PCs
<1>4. CASE Begin(t)
  <2>1. Moves("recv")
        BY <1>1, <1>3, <1>4 DEF Begin
  <2>2. Places'
        BY <1>2, <1>4, <2>1 DEF Begin, mainv, ReceiverPCs
  <2>3. fd' \in [Threads -> Fds]
        BY <1>0, <1>4 DEF Begin, TypeOK, Places, Entries
  <2>4. shared' \in SUBSET Conns
        BY <1>0, <1>4 DEF Begin, On, TypeOK
  <2> QED BY <1>0, <1>4, <2>1, <2>2, <2>3, <2>4 DEF Begin, TypeOK, env, net, mainv, array, marks, Moves
<1>5. CASE Call(t)
      BY <1>0, <1>5 DEF Call, TypeOK, Places, env, net, mainv, array, hist, marks
<1>6. CASE RecvEnds(t)
  <2>1. Moves("close")
        BY <1>1, <1>3, <1>6 DEF RecvEnds
  <2>2. Places'
        BY <1>2, <1>6, <2>1 DEF RecvEnds, mainv, ReceiverPCs
  <2> QED BY <1>0, <1>6, <2>1, <2>2 DEF RecvEnds, TypeOK, env, net, mainv, array, hist, marks, Moves
<1>7. CASE CloseConn(t)
  <2>1. Moves("find")
        BY <1>1, <1>3, <1>7 DEF CloseConn
  <2>2. Places'
        BY <1>2, <1>7, <2>1 DEF CloseConn, mainv, ReceiverPCs, thread
  <2> QED BY <1>0, <1>7, <2>1, <2>2 DEF CloseConn, TypeOK, env, net, mainv, array, hist, marks, thread, Moves
<1>8. CASE FindEntry(t)
  <2>1. UNCHANGED <<env, net, file, array, mainv, tmp, arg, fd, at, posted, hist>>
        BY <1>8 DEF FindEntry
  <2>2. CASE Found(t) = {}
    <3>1. Moves("done") /\ UNCHANGED <<pos, mutex>>
          BY <1>1, <1>3, <1>8, <2>2 DEF FindEntry
    <3>2. Places'
          BY <1>2, <2>1, <3>1 DEF mainv, ReceiverPCs
    <3> QED BY <1>0, <2>1, <3>1, <3>2 DEF TypeOK, env, net, mainv, array, hist, marks, Moves
  <2>3. CASE Found(t) # {}
    <3>1. Moves("shift") /\ mutex' = t
          BY <1>1, <1>3, <1>8, <2>3 DEF FindEntry
    <3>2. Places'
          BY <1>2, <2>1, <3>1 DEF mainv, ReceiverPCs
    <3>3. Found(t) \in SUBSET Nat /\ Found(t) \subseteq Slots
          BY Sizes DEF Found
    <3>4. \E s \in Found(t) : \A r \in Found(t) : s <= r
          BY <2>3, <3>3, LeastExists
    <3>5. pos' = [pos EXCEPT ![t] = CHOOSE s \in Found(t) : \A r \in Found(t) : s <= r]
          BY <1>8, <2>3 DEF FindEntry
    <3>6. pos' \in [Threads -> 0 .. TSIZE]
          BY <1>0, <3>3, <3>4, <3>5, Sizes DEF TypeOK
    <3> QED BY <1>0, <2>1, <3>1, <3>2, <3>6 DEF TypeOK, env, net, mainv, array, hist, marks, Moves
  <2> QED BY <2>2, <2>3
<1> QED BY <1>0, <1>4, <1>5, <1>6, <1>7, <1>8, RemovalTypes DEF ReceiveStep

LEMMA SendTypes ==
    ASSUME AInv, SendStep \/ Type
    PROVE  TypeOK' /\ Places'
<1>0. TypeOK /\ Places /\ Sender \in Threads /\ Sender \notin Conns /\ arg[Sender] \in Slots
      BY Sizes DEF AInv, Threads, Places
<1> DEFINE Moves(label) == pc' \in [Threads -> PCs] /\ \A u \in Threads : pc'[u] = IF u = Sender THEN label ELSE pc[u]
<1>1. \A label \in PCs : Goto(Sender, label) => Moves(label)
      BY <1>0, GotoType DEF TypeOK
<1>2. ASSUME NEW label \in SenderPCs, Moves(label), UNCHANGED <<main, tmp>>, arg' \in [Threads -> Slots],
             label \in Entered => arg'[Sender] + 1 \in Slots
      PROVE  Places'
      BY <1>0, <1>2 DEF Places, Threads
<1> HIDE DEF Moves
<1>3. {"idle", "loop", "tag", "text", "fail", "lock", "shift", "dec"} \subseteq PCs
      BY DEF PCs
<1>4. arg \in [Threads -> Slots] /\ Slots \subseteq 0 .. TSIZE /\ 0 \in Slots
  <2>1. Slots \subseteq 0 .. TSIZE /\ 0 \in Slots
        BY Sizes
  <2> QED BY <1>0, <2>1 DEF TypeOK, Places
<1>5. CASE Type
  <2>1. Moves("loop")
        BY <1>1, <1>3, <1>5 DEF Type
  <2>2. Places'
        BY <1>2, <1>4, <1>5, <2>1 DEF Type, mainv, thread, SenderPCs, Entered
  <2>3. posted' \in 0 .. Bounds[listed].texts
    <3>1. posted < Bounds[listed].texts /\ posted' = posted + 1
          BY <1>5 DEF Type
    <3> QED BY <1>0, <3>1, Posted
  <2>4. due' \in SUBSET Conns
        BY <1>5 DEF Type, On
  <2> QED BY <1>0, <1>5, <2>1, <2>2, <2>3, <2>4 DEF Type, TypeOK, env, net, mainv, array, thread, marks, Moves
<1>6. CASE Look
  <2>1. CASE arg[Sender] < peer_count
    <3>1. Moves("tag") /\ UNCHANGED arg
          BY <1>1, <1>3, <1>6, <2>1 DEF Look
    <3>2. arg' \in [Threads -> Slots] /\ arg'[Sender] + 1 \in Slots
      <4>1. peer_count \in 0 .. TSIZE - 1
            BY <1>0 DEF TypeOK
      <4>2. arg[Sender] + 1 \in Slots
            BY <1>0, <2>1, <4>1, Sizes
      <4> QED BY <1>4, <3>1, <4>2
    <3>3. Places'
          BY <1>2, <1>6, <3>1, <3>2 DEF Look, mainv, SenderPCs, Entered
    <3>4. fd' \in [Threads -> Fds]
          BY <1>0, <1>6, <2>1 DEF Look, TypeOK, Entries
    <3> QED BY <1>0, <1>6, <3>1, <3>3, <3>4 DEF Look, TypeOK, env, net, mainv, array, hist, marks, Moves
  <2>2. CASE ~(arg[Sender] < peer_count)
    <3>1. Moves("idle") /\ arg' = [arg EXCEPT ![Sender] = 0] /\ fd' = [fd EXCEPT ![Sender] = 0]
          BY <1>1, <1>3, <1>6, <2>2 DEF Look
    <3>2. arg' \in [Threads -> Slots]
          BY <1>4, <3>1
    <3>3. Places'
          BY <1>2, <1>6, <3>1, <3>2 DEF Look, mainv, SenderPCs, Entered
    <3>4. fd' \in [Threads -> Fds] /\ arg' \in [Threads -> 0 .. TSIZE]
          BY <1>0, <1>4, <3>1, <3>2, Sizes DEF TypeOK
    <3> QED BY <1>0, <1>6, <3>1, <3>3, <3>4 DEF Look, TypeOK, env, net, mainv, array, hist, marks, Moves
  <2> QED BY <2>1, <2>2
<1>7. CASE SendTag
  <2>1. PICK ret \in {1, -1} : /\ Send(Sender, fd[Sender], [what |-> "tag", n |-> 0], ret)
                               /\ Goto(Sender, IF ret = 1 THEN "text" ELSE "fail")
        BY <1>7 DEF SendTag
  <2>2. PICK label \in {"text", "fail"} : Moves(label)
        BY <1>1, <1>3, <2>1
  <2>3. [what |-> "tag", n |-> 0] \in Units
        BY Sizes DEF Units
  <2>4. /\ out' \in [Conns -> Seq(Units)] /\ full' = full
        /\ at' \in [Threads \cup {NoConn} -> Conns \cup {NoConn}]
        BY <1>0, <2>1, <2>3, SendType
  <2>5. arg[Sender] + 1 \in Slots
        BY <1>0, <1>7 DEF SendTag, Places, Entered
  <2>6. Places'
        BY <1>2, <1>4, <1>7, <2>2, <2>5 DEF SendTag, mainv, thread, SenderPCs, Entered
  <2> QED BY <1>0, <1>7, <2>2, <2>4, <2>6 DEF SendTag, TypeOK, env, net, mainv, array, thread, hist, marks, Moves
<1>8. CASE SendText
  <2>1. PICK ret \in {1, -1} : /\ Send(Sender, fd[Sender], [what |-> "text", n |-> posted], ret)
                               /\ Goto(Sender, IF ret = 1 THEN "loop" ELSE "fail")
                               /\ arg' = IF ret = 1 THEN [arg EXCEPT ![Sender] = @ + 1] ELSE arg
        BY <1>8 DEF SendText
  <2>2. [what |-> "text", n |-> posted] \in Units
        BY Posted DEF Units, AInv
  <2>3. /\ out' \in [Conns -> Seq(Units)] /\ full' = full
        /\ at' \in [Threads \cup {NoConn} -> Conns \cup {NoConn}]
        BY <1>0, <2>1, <2>2, SendType
  <2>4. arg[Sender] + 1 \in Slots
        BY <1>0, <1>8 DEF SendText, Places, Entered
  <2>5. arg' \in [Threads -> Slots] /\ (ret # 1 => arg' = arg)
        BY <1>4, <2>1, <2>4
  <2>6. PICK label \in {"loop", "fail"} : Moves(label) /\ (label = "fail" => ret # 1)
        BY <1>1, <1>3, <2>1
  <2>7. label \in SenderPCs /\ (label \in Entered => label = "fail")
        BY DEF SenderPCs, Entered
  <2>8. Places'
        BY <1>2, <1>8, <2>4, <2>5, <2>6, <2>7 DEF SendText, mainv
  <2>9. arg' \in [Threads -> 0 .. TSIZE]
        BY <1>4, <2>5
  <2> QED BY <1>0, <1>8, <2>3, <2>6, <2>8, <2>9 DEF SendText, TypeOK, env, net, mainv, array, hist, marks, Moves
<1>11. CASE SendWaits
  <2>1. /\ out' = out /\ full' \in SUBSET Conns /\ at' \in [Threads \cup {NoConn} -> Conns \cup {NoConn}]
        BY <1>0, <1>11, WaitsType DEF SendWaits
  <2> QED BY <1>0, <1>11, <2>1 DEF SendWaits, TypeOK, Places, env, array, mainv, hist, marks
<1>9. CASE SendFails
  <2>1. Moves("lock")
        BY <1>1, <1>3, <1>9 DEF SendFails
  <2>2. arg[Sender] + 1 \in Slots
        BY <1>0, <1>9 DEF SendFails, Places, Entered
  <2>3. Places'
        BY <1>2, <1>4, <1>9, <2>1, <2>2 DEF SendFails, mainv, thread, SenderPCs, Entered
  <2> QED BY <1>0, <1>9, <2>1, <2>3 DEF SendFails, TypeOK, env, net, mainv, array, thread, hist, marks, Moves
<1>10. CASE LockToDrop
  <2>1. Moves("shift")
        BY <1>1, <1>3, <1>10 DEF LockToDrop
  <2>2. arg[Sender] + 1 \in Slots
        BY <1>0, <1>10 DEF LockToDrop, Places, Entered
  <2>3. Places'
        BY <1>2, <1>4, <1>10, <2>1, <2>2 DEF LockToDrop, mainv, SenderPCs, Entered
  <2>4. pos' \in [Threads -> 0 .. TSIZE]
        BY <1>0, <1>4, <1>10 DEF LockToDrop, TypeOK
  <2> QED BY <1>0, <1>10, <2>1, <2>3, <2>4 DEF LockToDrop, TypeOK, env, net, mainv, array, hist, marks, Moves
<1> QED BY <1>0, <1>5, <1>6, <1>7, <1>8, <1>9, <1>10, <1>11, RemovalTypes DEF SendStep

LEMMA AThread ==
    ASSUME AInv, SendStep \/ Type \/ \E t \in Conns : ReceiveStep(t)
    PROVE  AInv'
BY ThreadMoves, MainUndisturbed, ReceiveTypes, SendTypes DEF AInv

-----------------------------------------------------------------------------
(* The steps of the peers, and the ends of the process.                     *)

LEMMA APeer ==
    ASSUME AInv, NEW c \in Conns, PeerStep(c)
    PROVE  AInv'
<1>1. /\ UNCHANGED <<listed, out, file, array, mutex, mainv, tmp, pc, thread, posted, hist>>
      /\ full' \in SUBSET Conns
      /\ link' \in [Conns -> {"new", "up", "gone"}] /\ greeted' \in SUBSET (Conns \ listed)
      /\ \A d \in Conns : link'[d] = "new" => link[d] = "new"
      BY DEF PeerStep, Knock, PeerGreets, PeerLeaves, PeerReads, env, net, AInv, TypeOK
<1>2. TypeOK' /\ Places'
      BY <1>1 DEF AInv, TypeOK, Places, array, mainv, thread, hist, marks
<1>3. Opening' /\ Strangers' /\ Reading'
      BY <1>1 DEF AInv, Opening, Strangers, Reading, Started, Running, array, mainv, thread, hist, marks
<1> QED BY <1>2, <1>3 DEF AInv

LEMMA AExit ==
    ASSUME AInv, Quit \/ ListBreaks \/ \E c \in Conns : Killed(c)
    PROVE  AInv'
<1>1. main' = "exited" /\ UNCHANGED <<env, net, file, array, mutex, cur, i, field, tmp, pc, thread, posted, hist>>
      BY DEF Quit, ListBreaks, Killed, Step
<1>2. TypeOK' /\ Places'
      BY <1>1 DEF AInv, TypeOK, Places, env, net, array, thread, hist, marks, MainPCs
<1>3. Opening' /\ Strangers' /\ Reading'
      BY <1>1 DEF AInv, Opening, Strangers, Reading, Running, Listing, env, net
<1> QED BY <1>2, <1>3 DEF AInv

-----------------------------------------------------------------------------
(* The steps of main *)

LEMMA ARecvEntry ==
    ASSUME AInv, NEW c \in Conns, RecvEntry(c)
    PROVE  AInv'
<1>1. /\ main = "list" /\ main' = "socket" /\ cur' = c /\ c \in listed /\ pc[c] = "none"
      /\ clients' = [clients EXCEPT ![i].who = c]
      /\ UNCHANGED <<listed, link, greeted, out, full, file, peer_count, mutex, i, field, tmp, pc, arg, fd, at, pos,
                     posted, due, shared, moved, wrapped>>
      /\ crossed' = (crossed \/ mutex # NoConn)
      BY DEF RecvEntry, Step, env, net, thread, hist, marks
<1>2. i \in Slots /\ TypeOK
      BY ListedSize DEF AInv
<1>3. /\ clients' \in [Slots -> Entries] /\ clients'[i].who = c
      /\ \A s \in Slots : s # i => clients'[s] = clients[s]
      BY <1>1, <1>2 DEF TypeOK, Entries
<1>4. TypeOK'
      BY <1>1, <1>2, <1>3 DEF TypeOK, MainPCs
<1>5. Places'
      BY <1>1 DEF AInv, Places
<1>6. Opening'
      BY <1>1 DEF AInv, Opening, Making, Dialled, Running
<1>7. Strangers'
      BY <1>1 DEF AInv, Strangers
<1>8. Reading'
  <2>1. \A s \in Slots : s > i => s # i
        BY <1>2, Sizes
  <2>2. Started' = Started
        BY <1>1 DEF Started
  <2> QED BY <1>1, <1>3, <2>1, <2>2 DEF AInv, Reading, Listing, Making
<1> QED BY <1>4, <1>5, <1>6, <1>7, <1>8 DEF AInv

LEMMA AOpenSocket ==
    ASSUME AInv, OpenSocket
    PROVE  /\ AInv' /\ LeastFree \in Fds /\ file[LeastFree] = NoConn
<1>0. TypeOK
      BY DEF AInv
<1>1. /\ main = "socket" /\ main' = "connect"
      /\ clients' = [clients EXCEPT ![i].fd = LeastFree] /\ file' = [file EXCEPT ![LeastFree] = Other]
      /\ UNCHANGED <<listed, link, greeted, out, full, peer_count, mutex, cur, i, field, tmp, pc, arg, fd, at, pos,
                     posted, due, shared, moved, wrapped>>
      /\ crossed' = (crossed \/ mutex # NoConn)
      BY DEF OpenSocket, Step, env, net, thread, hist, marks
<1>2. i \in Slots
      BY ListedSize, <1>0
<1>3. /\ cur \in Conns /\ pc[cur] = "none" /\ \A f \in Fds : file[f] \in Conns => pc[file[f]] # "none"
      /\ \A f, g \in Fds : file[f] = file[g] /\ file[f] \in {Other} \cup Conns => f = g
      BY <1>1 DEF AInv, Opening, Making, Dialled, Running
<1>4. LeastFree \in Fds /\ file[LeastFree] = NoConn
  <2>1. file \in [Fds -> Conns \cup {NoConn, Other}]
        BY <1>0 DEF TypeOK
  <2>2. \A f \in Fds : file[f] # cur
        BY <1>3
  <2>3. \A f, g \in Fds : file[f] = file[g] /\ file[f] # NoConn => f = g
        BY <1>3, <2>1
  <2> QED BY <1>3, <2>1, <2>2, <2>3, FreeFd
<1>5. /\ clients' \in [Slots -> Entries] /\ clients'[i].who = clients[i].who /\ clients'[i].fd = LeastFree
      /\ \A s \in Slots : s # i => clients'[s] = clients[s]
      BY <1>0, <1>1, <1>2, <1>4 DEF TypeOK, Entries
<1>6. file' \in [Fds -> Conns \cup {NoConn, Other}] /\ \A f \in Fds : file'[f] = IF f = LeastFree THEN Other ELSE file[f]
      BY <1>0, <1>1 DEF TypeOK
<1>7. TypeOK'
      BY <1>0, <1>1, <1>5, <1>6 DEF TypeOK, MainPCs
<1>8. Places'
      BY <1>1 DEF AInv, Places
<1>9. Opening'
      BY <1>1, <1>3, <1>5, <1>6, Sizes DEF Opening, Making, Dialled
<1>10. Strangers'
      BY <1>1, <1>6, Sizes DEF AInv, Strangers
<1>11. Reading'
  <2>1. \A s \in Slots : s > i => s # i
        BY <1>2, Sizes
  <2>2. Started' = Started
        BY <1>1 DEF Started
  <2> QED BY <1>1, <1>5, <2>1, <2>2 DEF AInv, Reading, Listing, Making
<1> QED BY <1>4, <1>7, <1>8, <1>9, <1>10, <1>11 DEF AInv

LEMMA ADial ==
    ASSUME AInv, Dial
    PROVE  AInv'
<1>0. TypeOK /\ i \in Slots
      BY ListedSize DEF AInv
<1>1. /\ main = "connect"
      /\ UNCHANGED <<listed, link, greeted, out, full, clients, peer_count, mutex, cur, i, field, tmp, pc, arg, fd, at, pos,
                     posted, due, moved, wrapped, crossed>>
      BY DEF Dial, Opens, env, net, thread, array, marks
<1>2. CASE main' = "exited"
  <2>1. UNCHANGED <<file, shared>>
        BY <1>2 DEF Dial, Step
  <2>2. TypeOK'
        BY <1>0, <1>1, <1>2, <2>1 DEF TypeOK, MainPCs
  <2>3. Places'
        BY <1>1, <1>2 DEF AInv, Places
  <2> QED BY <1>1, <1>2, <2>1, <2>2, <2>3 DEF AInv, Opening, Strangers, Reading, Listing, Running
<1>3. CASE main' # "exited"
  <2>1. /\ main' = "greet" /\ clients[i].who \in Conns /\ link[clients[i].who] = "up"
        /\ file' = [file EXCEPT ![clients[i].fd] = clients[i].who]
        /\ shared' \in {shared, shared \cup {clients[i].who}}
        BY <1>3 DEF Dial, Step, Opens
  <2>2. clients[i].who = cur /\ cur \in Conns /\ pc[cur] = "none" /\ clients[i].fd \in Fds
        BY <1>0, <1>1, <2>1, Sizes DEF AInv, Reading, Opening, Listing, Making, Running, TypeOK, Entries
  <2>3. /\ file' \in [Fds -> Conns \cup {NoConn, Other}]
        /\ \A f \in Fds : file'[f] = IF f = clients[i].fd THEN cur ELSE file[f]
        BY <1>0, <2>1, <2>2 DEF TypeOK
  <2>4. TypeOK'
        BY <1>0, <1>1, <2>1, <2>3 DEF TypeOK, MainPCs
  <2>5. Places'
        BY <1>1, <2>1 DEF AInv, Places
  <2>6. Opening'
    <3>1. \A f \in Fds : file[f] \in Conns => pc[file[f]] # "none"
          BY <1>1 DEF AInv, Opening, Dialled, Running
    <3>2. \A f, g \in Fds : file[f] = file[g] /\ file[f] \in Conns => f = g
          BY <1>1 DEF AInv, Opening, Running
    <3>3. \A f, g \in Fds : file[f] = Other /\ file[g] = Other => f = g \/ clients[i].fd \in {f, g}
          BY <1>1, <2>1, <2>2, Sizes DEF AInv, Opening, Running
    <3>4. cur # Other
          BY <2>2, Sizes
    <3> QED BY <1>1, <2>1, <2>2, <2>3, <3>1, <3>2, <3>3, <3>4 DEF Opening, Making, Dialled
  <2>7. Strangers'
        BY <1>1, <2>1, <2>2, <2>3 DEF AInv, Strangers
  <2>8. Reading'
    <3>1. Started' = Started
          BY <1>1 DEF Started
    <3> QED BY <1>1, <2>1, <3>1 DEF AInv, Reading, Listing, Making, Dialled
  <2> QED BY <2>4, <2>5, <2>6, <2>7, <2>8 DEF AInv
<1> QED BY <1>2, <1>3

LEMMA AGreet ==
    ASSUME AInv, Greet \/ GreetWaits
    PROVE  AInv'
<1> DEFINE f == clients[i].fd
           unit == [what |-> "hello", n |-> field]
<1>0. TypeOK /\ unit \in Units
  <2>1. TypeOK
        BY DEF AInv
  <2>2. field \in Nat
        BY <2>1, MeshClientAssumption DEF TypeOK
  <2> QED BY <2>1, <2>2 DEF Units
<1>1. /\ main = "greet" /\ main' \in {"greet", "spawn"}
      /\ UNCHANGED <<listed, link, greeted, clients, peer_count, mutex, cur, i, tmp, pc, arg, fd, pos,
                     posted, due, moved, wrapped, crossed>>
      BY DEF Greet, GreetWaits, Step, env, net, array, mainv, hist, marks
<1>2. /\ out' \in [Conns -> Seq(Units)] /\ full' \in SUBSET Conns
      /\ at' \in [Threads \cup {NoConn} -> Conns \cup {NoConn}]
      /\ file' \in {file, [file EXCEPT ![f] = NoConn]}
      /\ field' \in 1 .. FIELDS /\ shared' \in SUBSET Conns
  <2>1. CASE Greet
    <3>1. PICK ret \in {1, -1} :
             /\ Send(NoConn, f, unit, ret)
             /\ file' = IF ret = 1 THEN file ELSE [file EXCEPT ![f] = NoConn]
          BY <2>1 DEF Greet
    <3>2. /\ out' \in [Conns -> Seq(Units)] /\ full' = full
          /\ at' \in [Threads \cup {NoConn} -> Conns \cup {NoConn}]
      <4> HIDE DEF f, unit
      <4> QED BY <1>0, <3>1, SendType
    <3>3. field' \in 1 .. FIELDS
          BY <1>0, <2>1, MeshClientAssumption DEF Greet, TypeOK
    <3>4. shared' \in SUBSET Conns
          BY <1>0, <2>1 DEF Greet, On, TypeOK
    <3> QED BY <1>0, <3>1, <3>2, <3>3, <3>4 DEF TypeOK
  <2>2. CASE GreetWaits
    <3>1. /\ out' = out /\ full' \in SUBSET Conns
          /\ at' \in [Threads \cup {NoConn} -> Conns \cup {NoConn}]
          BY <1>0, <2>2, WaitsType DEF GreetWaits
    <3>2. shared' \in SUBSET Conns
          BY <1>0, <2>2 DEF GreetWaits, On, TypeOK
    <3> QED BY <1>0, <2>2, <3>1, <3>2 DEF GreetWaits, TypeOK, mainv
  <2> QED BY <2>1, <2>2
<1>4. /\ file' \in [Fds -> Conns \cup {NoConn, Other}]
      /\ \A g \in Fds : file'[g] = file[g] \/ file'[g] = NoConn
  <2>0. file \in [Fds -> Conns \cup {NoConn, Other}]
        BY <1>0 DEF TypeOK
  <2>1. CASE file' = file
        BY <2>0, <2>1
  <2>2. CASE file' = [file EXCEPT ![f] = NoConn]
    <3> HIDE DEF f, unit
    <3> QED BY <2>0, <2>2
  <2> QED BY <1>2, <2>1, <2>2
<1>6. TypeOK'
      BY <1>0, <1>1, <1>2, <1>4 DEF TypeOK, MainPCs
<1>7. Places'
      BY <1>1 DEF AInv, Places
<1>8. Opening'
      BY <1>1, <1>4, Sizes DEF AInv, Opening, Making, Dialled, Running
<1>9. Strangers'
      BY <1>1, <1>4, Sizes DEF AInv, Strangers
<1>10. Reading'
  <2>1. Started' = Started
        BY <1>1 DEF Started
  <2> QED BY <1>1, <2>1 DEF AInv, Reading, Listing, Making, Dialled
<1> QED BY <1>6, <1>7, <1>8, <1>9, <1>10 DEF AInv

LEMMA ASpawn ==
    ASSUME AInv, Spawn
    PROVE  AInv'
<1>0. TypeOK /\ i \in Slots /\ i \in Nat /\ listed \subseteq Conns /\ IsFiniteSet(listed) /\ Cardinality(listed) \in Nat
      BY ListedSize DEF AInv
<1>1. /\ main = "spawn" /\ main' = "list" /\ Goto(cur, "begin") /\ arg' = [arg EXCEPT ![cur] = i] /\ i' = i + 1
      /\ UNCHANGED <<listed, link, greeted, out, full, file, clients, peer_count, mutex, cur, field, tmp, fd, at, pos,
                     posted, due, shared, moved, wrapped, crossed>>
      BY DEF Spawn, Step, env, net, array, hist, marks
<1>2. /\ cur \in listed /\ cur \in Conns /\ pc[cur] = "none" /\ Started \subseteq listed /\ i = Cardinality(Started)
      /\ pc[Sender] = "none" /\ \A s \in Slots : s > i => clients[s] = Empty
      BY <1>1 DEF AInv, Opening, Reading, Listing, Making, Dialled, Running
<1>3. cur \in Threads /\ cur # Sender
      BY <1>2, Sizes DEF Threads
<1>4. pc' \in [Threads -> PCs] /\ \A u \in Threads : pc'[u] = IF u = cur THEN "begin" ELSE pc[u]
      BY <1>0, <1>1, <1>3, GotoType DEF TypeOK, PCs
<1>5. /\ arg' \in [Threads -> 0 .. TSIZE]
      /\ \A u \in Threads : arg'[u] \in Slots /\ (u # cur => arg'[u] = arg[u])
  <2>1. arg \in [Threads -> 0 .. TSIZE] /\ \A u \in Threads : arg[u] \in Slots
        BY DEF AInv, TypeOK, Places
  <2>2. i \in 0 .. TSIZE
        BY <1>0, Sizes
  <2> QED BY <1>0, <1>1, <2>1, <2>2
<1>6. Started' = Started \cup {cur} /\ cur \notin Started /\ Started' \subseteq listed
  <2>1. \A c \in Conns : c \in Threads
        BY DEF Threads
  <2> QED BY <1>2, <1>4, <2>1 DEF Started
<1>7. i' = Cardinality(Started') /\ i' \in 0 .. Cardinality(listed)
  <2>1. IsFiniteSet(Started)
        BY <1>0, <1>2, FS_Subset
  <2>2. Cardinality(Started \cup {cur}) = Cardinality(Started) + 1
        BY <1>6, <2>1, FS_AddElement
  <2>3. Cardinality(Started') <= Cardinality(listed)
        BY <1>0, <1>6, FS_Subset
  <2>4. i' = Cardinality(Started')
        BY <1>1, <1>2, <1>6, <2>2
  <2> QED BY <1>0, <1>1, <2>3, <2>4
<1>8. TypeOK'
      BY <1>0, <1>1, <1>4, <1>5, <1>7 DEF TypeOK, MainPCs
<1>9. Places'
  <2>1. Sender \in Threads /\ \A c \in Conns : c \in Threads
        BY DEF Threads
  <2> QED BY <1>1, <1>3, <1>4, <1>5, <2>1 DEF AInv, Places, ReceiverPCs
<1>10. Opening'
      BY <1>1, <1>4, Sizes DEF AInv, Opening, Making, Dialled, Running, Threads
<1>11. Strangers'
      BY <1>1, <1>3, <1>4 DEF AInv, Strangers, Threads
<1>12. Reading'
  <2>1. \A s \in Slots : s > i' \/ s = i' => s > i
        BY <1>0, <1>1, Sizes
  <2>2. pc'[Sender] = "none"
        BY <1>2, <1>3, <1>4 DEF Threads
  <2> QED BY <1>1, <1>2, <1>6, <1>7, <2>1, <2>2 DEF Reading, Making, Dialled
<1> QED BY <1>8, <1>9, <1>10, <1>11, <1>12 DEF AInv

LEMMA AListDone ==
    ASSUME AInv, ListDone
    PROVE  AInv'
<1>1. /\ main = "list" /\ main' = "accept" /\ Goto(Sender, "idle")
      /\ UNCHANGED <<listed, link, greeted, out, full, file, clients, peer_count, mutex, cur, i, field, tmp, arg, fd, at, pos,
                     posted, due, shared, moved, wrapped, crossed>>
      BY DEF ListDone, Step, env, net, array, thread, hist, marks
<1>2. /\ pc' \in [Threads -> PCs] /\ \A u \in Threads : pc'[u] = IF u = Sender THEN "idle" ELSE pc[u]
      /\ Sender \in Threads /\ \A c \in Conns : c \in Threads /\ c # Sender
  <2>1. Sender \in Threads /\ \A c \in Conns : c \in Threads /\ c # Sender
        BY Sizes DEF Threads
  <2> QED BY <1>1, <2>1, GotoType DEF AInv, TypeOK, PCs
<1>3. TypeOK'
      BY <1>1, <1>2 DEF AInv, TypeOK, MainPCs
<1>4. Places'
      BY <1>1, <1>2 DEF AInv, Places, SenderPCs, Entered
<1>5. Opening'
      BY <1>1, <1>2 DEF AInv, Opening, Making, Dialled, Running
<1>6. Strangers'
      BY <1>1, <1>2 DEF AInv, Strangers
<1>7. Reading'
      BY <1>1 DEF Reading, Listing
<1> QED BY <1>3, <1>4, <1>5, <1>6, <1>7 DEF AInv

LEMMA AAccept ==
    ASSUME AInv, NEW c \in Conns, Accept(c)
    PROVE  AInv' /\ LeastFree \in Fds /\ file[LeastFree] = NoConn
<1>0. TypeOK
      BY DEF AInv
<1>1. /\ main = "accept" /\ main' = "greeting" /\ c \notin listed /\ link[c] # "new" /\ pc[c] = "none"
      /\ file' = [file EXCEPT ![LeastFree] = c] /\ shared' \in {shared, shared \cup {c}}
      /\ tmp' = [tmp EXCEPT ![NoConn] = LeastFree] /\ cur' = c
      /\ UNCHANGED <<listed, link, greeted, out, full, clients, peer_count, mutex, i, field, pc, arg, fd, at, pos,
                     posted, due, moved, wrapped, crossed>>
      BY DEF Accept, Opens, Step, env, net, array, thread, marks
<1>2. /\ \A f \in Fds : file[f] \in Conns => pc[file[f]] # "none"
      /\ \A f, g \in Fds : file[f] = file[g] /\ file[f] \in {Other} \cup Conns => f = g
      BY <1>1 DEF AInv, Opening, Making, Dialled, Running
<1>3. LeastFree \in Fds /\ file[LeastFree] = NoConn
  <2>1. file \in [Fds -> Conns \cup {NoConn, Other}]
        BY <1>0 DEF TypeOK
  <2>2. \A f \in Fds : file[f] # c
        BY <1>1, <1>2
  <2>3. \A f, g \in Fds : file[f] = file[g] /\ file[f] # NoConn => f = g
        BY <1>2, <2>1
  <2> QED BY <2>1, <2>2, <2>3, FreeFd
<1>4. file' \in [Fds -> Conns \cup {NoConn, Other}] /\ \A f \in Fds : file'[f] = IF f = LeastFree THEN c ELSE file[f]
      BY <1>0, <1>1 DEF TypeOK
<1>5. tmp' \in [Threads \cup {NoConn} -> 0 .. TSIZE - 1] /\ tmp'[NoConn] \in Fds
      BY <1>0, <1>1, <1>3, Sizes DEF TypeOK
<1>6. TypeOK'
      BY <1>0, <1>1, <1>4, <1>5 DEF TypeOK, MainPCs
<1>7. Places'
      BY <1>1, <1>5 DEF AInv, Places
<1>8. Opening'
      BY <1>1, <1>2, <1>4, Sizes DEF Opening, Making, Dialled
<1>9. Strangers'
      BY <1>1, <1>4 DEF AInv, Strangers
<1>10. Reading'
      BY <1>1 DEF Reading, Listing
<1> QED BY <1>3, <1>6, <1>7, <1>8, <1>9, <1>10 DEF AInv

LEMMA ARecvGreeting ==
    ASSUME AInv, RecvGreeting
    PROVE  AInv'
<1>1. /\ main = "greeting" /\ main' = "store" /\ file' \in {file, [file EXCEPT ![tmp[NoConn]] = NoConn]}
      /\ UNCHANGED <<listed, link, greeted, out, full, clients, peer_count, mutex, cur, i, field, tmp, pc, arg, fd, at, pos,
                     posted, due, shared, moved, wrapped, crossed>>
      BY DEF RecvGreeting, Step, env, net, array, thread, hist, marks
<1>2. /\ file' \in [Fds -> Conns \cup {NoConn, Other}]
      /\ \A f \in Fds : file'[f] = file[f] \/ file'[f] = NoConn
      BY <1>1 DEF AInv, TypeOK
<1>3. TypeOK'
      BY <1>1, <1>2 DEF AInv, TypeOK, MainPCs
<1>4. Places'
      BY <1>1 DEF AInv, Places
<1>5. Opening'
      BY <1>1, <1>2, Sizes DEF AInv, Opening, Making, Dialled, Running
<1>6. Strangers'
      BY <1>1, <1>2, Sizes DEF AInv, Strangers
<1>7. Reading'
      BY <1>1 DEF Reading, Listing
<1> QED BY <1>3, <1>4, <1>5, <1>6, <1>7 DEF AInv

LEMMA AStore ==
    ASSUME AInv, Store
    PROVE  AInv'
<1>1. /\ main = "store" /\ main' = "start"
      /\ clients' = [clients EXCEPT ![peer_count] = [fd |-> tmp[NoConn], who |-> cur]]
      /\ UNCHANGED <<listed, link, greeted, out, full, file, peer_count, mutex, cur, i, field, tmp, pc, arg, fd, at, pos,
                     posted, due, shared, moved, wrapped, crossed>>
      BY DEF Store, Step, env, net, thread, hist, marks
<1>2. tmp[NoConn] \in Fds /\ cur \in Conns
      BY <1>1 DEF AInv, Places, Opening, Making, Dialled, Running
<1>3. clients' \in [Slots -> Entries]
      BY <1>1, <1>2 DEF AInv, TypeOK, Entries
<1>4. TypeOK'
      BY <1>1, <1>3 DEF AInv, TypeOK, MainPCs
<1>5. Places'
      BY <1>1 DEF AInv, Places
<1>6. Opening'
      BY <1>1 DEF AInv, Opening, Making, Dialled, Running
<1>7. Strangers' /\ Reading'
      BY <1>1 DEF AInv, Strangers, Reading, Listing
<1> QED BY <1>4, <1>5, <1>6, <1>7 DEF AInv

LEMMA AStartThread ==
    ASSUME AInv, StartThread
    PROVE  AInv'
<1>1. /\ main = "start" /\ main' = "load" /\ Goto(cur, "begin") /\ arg' = [arg EXCEPT ![cur] = peer_count]
      /\ UNCHANGED <<listed, link, greeted, out, full, file, clients, peer_count, mutex, cur, i, field, tmp, fd, at, pos,
                     posted, due, shared, moved, wrapped, crossed>>
      BY DEF StartThread, Step, env, net, array, hist, marks
<1>2. cur \in Conns /\ cur \in Threads /\ cur # Sender /\ Sender \in Threads /\ \A c \in Conns : c \in Threads
      BY <1>1, Sizes DEF AInv, Opening, Making, Dialled, Running, Threads
<1>3. pc' \in [Threads -> PCs] /\ \A u \in Threads : pc'[u] = IF u = cur THEN "begin" ELSE pc[u]
  <2>1. pc \in [Threads -> PCs] /\ "begin" \in PCs
        BY DEF AInv, TypeOK, PCs
  <2> QED BY <1>1, <1>2, <2>1, GotoType
<1>4. /\ arg' \in [Threads -> 0 .. TSIZE]
      /\ \A u \in Threads : arg'[u] \in Slots /\ (u # cur => arg'[u] = arg[u])
  <2>1. arg \in [Threads -> 0 .. TSIZE] /\ (\A u \in Threads : arg[u] \in Slots) /\ peer_count \in 0 .. TSIZE - 1
        BY DEF AInv, TypeOK, Places
  <2>2. peer_count \in 0 .. TSIZE /\ peer_count \in Slots
        BY <2>1, Sizes
  <2> QED BY <1>1, <2>1, <2>2
<1>5. TypeOK'
      BY <1>1, <1>3, <1>4 DEF AInv, TypeOK, MainPCs
<1>6. Places'
      BY <1>1, <1>2, <1>3, <1>4 DEF AInv, Places, ReceiverPCs
<1>7. Opening'
      BY <1>1, <1>2, <1>3, Sizes DEF AInv, Opening, Making, Dialled, Running
<1>8. Strangers' /\ Reading'
      BY <1>1, <1>2, <1>3 DEF AInv, Strangers, Reading, Listing
<1> QED BY <1>5, <1>6, <1>7, <1>8 DEF AInv

LEMMA ACounts ==
    ASSUME AInv, RecvCount \/ LoadCount \/ StoreCount
    PROVE  AInv'
<1>0. wrapped \in BOOLEAN
      BY DEF AInv, TypeOK
<1>1. /\ main \in {"count", "load", "add"}
      /\ main' = IF main = "count" THEN "list" ELSE IF main = "load" THEN "add" ELSE "accept"
      /\ UNCHANGED <<listed, link, greeted, out, full, file, clients, mutex, cur, i, field, pc, arg, fd, at, pos,
                     posted, due, shared, moved, crossed>>
      /\ wrapped' \in {wrapped, TRUE, tmp[NoConn] + 1 = TSIZE}
      BY <1>0 DEF RecvCount, LoadCount, StoreCount, Step, env, net, thread, array, hist, marks
<1>2. peer_count' \in 0 .. TSIZE - 1 /\ tmp' \in [Threads \cup {NoConn} -> 0 .. TSIZE - 1]
  <2>1. /\ peer_count \in 0 .. TSIZE - 1 /\ tmp \in [Threads \cup {NoConn} -> 0 .. TSIZE - 1]
        /\ NoConn \in Threads \cup {NoConn} /\ TypeOK
        BY DEF AInv, TypeOK
  <2>2. CASE RecvCount
        BY <2>1, <2>2, ListedSize, Sizes DEF RecvCount
  <2>3. CASE LoadCount
        BY <2>1, <2>3 DEF LoadCount, array
  <2>4. CASE StoreCount
    <3>1. TSIZE \in Nat /\ TSIZE > 0 /\ tmp[NoConn] + 1 \in Int
          BY <2>1, Sizes
    <3>2. (tmp[NoConn] + 1) % TSIZE \in 0 .. TSIZE - 1 /\ 0 \in 0 .. TSIZE - 1
          BY <3>1
    <3> QED BY <2>1, <2>4, <3>2 DEF StoreCount
  <2> QED BY <2>2, <2>3, <2>4
<1>3. TypeOK'
      BY <1>0, <1>1, <1>2 DEF AInv, TypeOK, MainPCs
<1>4. Places'
      BY <1>1 DEF AInv, Places
<1>5. Opening'
      BY <1>1 DEF AInv, Opening, Making, Dialled, Running
<1>6. Strangers' /\ Reading'
      BY <1>1 DEF AInv, Strangers, Reading, Listing, Making, Dialled, Started
<1> QED BY <1>3, <1>4, <1>5, <1>6 DEF AInv

LEMMA ANext == AInv /\ [Next]_vars => AInv'
<1> SUFFICES ASSUME AInv, [Next]_vars PROVE AInv'
    OBVIOUS
<1>1. CASE UNCHANGED vars
  <2>1. TypeOK' /\ Places'
        BY <1>1 DEF AInv, TypeOK, Places, vars, env, net, array, mainv, thread, hist, marks
  <2>2. Opening' /\ Strangers' /\ Reading'
        BY <1>1 DEF AInv, Opening, Strangers, Reading, Started, Running, vars, env, net, array, mainv, thread, hist, marks
  <2> QED BY <2>1, <2>2 DEF AInv
<1>2. CASE MainStep
      BY <1>2, AExit, ARecvEntry, AOpenSocket, ADial, AGreet, ASpawn, AListDone, AAccept, ARecvGreeting, AStore,
         AStartThread, ACounts DEF MainStep
<1>3. CASE SendStep \/ Type
      BY <1>3, AThread
<1>4. CASE Quit \/ ListBreaks \/ \E c \in Conns : Killed(c)
      BY <1>4, AExit
<1>5. ASSUME NEW c \in Conns, PeerStep(c)
      PROVE  AInv'
      BY <1>5, APeer
<1>6. ASSUME NEW c \in Conns, ReceiveStep(c)
      PROVE  AInv'
      BY <1>6, AThread
<1> QED BY <1>1, <1>2, <1>3, <1>4, <1>5, <1>6 DEF Next

LEMMA AInit == Init => AInv
<1> SUFFICES ASSUME Init PROVE AInv
    OBVIOUS
<1>1. listed \in Lists /\ listed \subseteq Conns /\ IsFiniteSet(listed) /\ Cardinality(listed) \in Nat
      BY Sizes, MeshClientAssumption, FS_Subset, FS_CardinalityType DEF Init
<1>8. Bounds[listed].texts \in Nat /\ FIELDS \in Nat \ {0}
      BY <1>1, MeshClientAssumption
<1>9. out \in [Conns -> Seq(Units)]
      BY DEF Init
<1>10. i \in 0 .. Cardinality(listed) /\ field \in 1 .. FIELDS /\ posted \in 0 .. Bounds[listed].texts
      BY <1>1, <1>8 DEF Init
<1>11. clients \in [Slots -> Entries] /\ file \in [Fds -> Conns \cup {NoConn, Other}] /\ peer_count \in 0 .. TSIZE - 1
      BY Sizes DEF Init
<1>12. /\ tmp \in [Threads \cup {NoConn} -> 0 .. TSIZE - 1] /\ arg \in [Threads -> 0 .. TSIZE]
       /\ pos \in [Threads -> 0 .. TSIZE] /\ fd \in [Threads -> Fds]
      BY Sizes DEF Init
<1>13. link \in [Conns -> {"new", "up", "gone"}] /\ greeted \in SUBSET (Conns \ listed) /\ pc \in [Threads -> PCs]
      BY <1>1 DEF Init, PCs
<1>2. TypeOK
      BY <1>1, <1>9, <1>10, <1>11, <1>12, <1>13 DEF Init, TypeOK, MainPCs
<1>3. Places
      BY Sizes DEF Init, Places, Threads, ReceiverPCs, SenderPCs, Entered
<1>4. Started = {} /\ Cardinality(Started) = 0
  <2>1. Started = {}
        BY DEF Init, Started, Threads
  <2> QED BY <2>1, FS_EmptySet
<1>5. Opening
      BY Sizes DEF Init, Opening, Making, Dialled
<1>6. Strangers
      BY Sizes DEF Init, Strangers, Threads
<1>7. Reading
      BY <1>1, <1>4, Sizes DEF Init, Reading, Making, Dialled, Threads
<1> QED BY <1>2, <1>3, <1>5, <1>6, <1>7 DEF AInv

LEMMA AInvariant == Spec => []AInv
BY AInit, ANext, PTL DEF Spec

(* Every variable of a mesh client keeps its type, whatever the overlap of  *)
(* joining, removing and sending: no index leaves clients[].                *)
THEOREM TypeCorrect == Spec => []TypeOK
<1>1. AInv => TypeOK
      BY DEF AInv
<1> QED BY <1>1, AInvariant, PTL

-----------------------------------------------------------------------------
(* Removals.  The mutex is held exactly from the search to the new count,   *)
(* and what a removal has loaded of the count can only have grown since,    *)
(* while what main has loaded can only have shrunk.                         *)

Guarded == \A t \in Threads : pc[t] \in {"shift", "dec"} <=> mutex = t

Counted ==
    ~wrapped =>
       /\ main = "add" => peer_count <= tmp[NoConn]
       /\ \A t \in Threads : pc[t] = "dec" => tmp[t] <= peer_count
       /\ \A t \in Conns : pc[t] = "dec" => tmp[t] >= 1
       /\ \A t \in Conns : pc[t] = "shift" => pos[t] < peer_count

Fresh == main = "count" => i = 0

RInv == Guarded /\ Counted /\ Fresh

LEMMA Kinds ==
    ASSUME AInv
    PROVE  /\ \A t \in Conns : t \in Threads /\ t # Sender /\ t # NoConn /\ fd[t] \in Fds /\ pc[t] \in ReceiverPCs
           /\ Sender \in Threads /\ fd[Sender] \in Fds /\ pc[Sender] \in SenderPCs /\ NoConn \notin Threads
           /\ file \in [Fds -> Conns \cup {NoConn, Other}] /\ pc \in [Threads -> PCs]
           /\ fd \in [Threads -> Fds] /\ at \in [Threads \cup {NoConn} -> Conns \cup {NoConn}]
BY Sizes DEF AInv, TypeOK, Places, Threads

LEMMA Indices ==
    ASSUME AInv
    PROVE  /\ peer_count \in Nat /\ peer_count \in Slots /\ peer_count < TSIZE /\ TSIZE \in Nat
           /\ \A t \in Threads \cup {NoConn} : tmp[t] \in Nat /\ tmp[t] < TSIZE
           /\ \A t \in Threads : pos[t] \in Nat /\ arg[t] \in Nat
           /\ tmp \in [Threads \cup {NoConn} -> 0 .. TSIZE - 1] /\ pos \in [Threads -> 0 .. TSIZE]
           /\ arg \in [Threads -> 0 .. TSIZE]
           /\ clients \in [Slots -> Entries]
           /\ \A s \in Slots : s \in Nat /\ s < TSIZE /\ clients[s].fd \in Fds
<1>1. /\ peer_count \in 0 .. TSIZE - 1 /\ tmp \in [Threads \cup {NoConn} -> 0 .. TSIZE - 1]
      /\ pos \in [Threads -> 0 .. TSIZE] /\ arg \in [Threads -> 0 .. TSIZE] /\ clients \in [Slots -> Entries]
      BY DEF AInv, TypeOK
<1>2. TSIZE \in Nat /\ Slots = 0 .. TSIZE - 1
      BY Sizes
<1>3. peer_count \in Nat /\ peer_count \in Slots /\ peer_count < TSIZE
      BY <1>1, <1>2
<1>4. \A t \in Threads \cup {NoConn} : tmp[t] \in Nat /\ tmp[t] < TSIZE
  <2>1. \A t \in Threads \cup {NoConn} : tmp[t] \in 0 .. TSIZE - 1
        BY <1>1
  <2> QED BY <2>1, <1>2
<1>5. \A t \in Threads : pos[t] \in Nat /\ arg[t] \in Nat
  <2>1. \A t \in Threads : pos[t] \in 0 .. TSIZE /\ arg[t] \in 0 .. TSIZE
        BY <1>1
  <2> QED BY <2>1, <1>2
<1>6. \A s \in Slots : s \in Nat /\ s < TSIZE /\ clients[s].fd \in Fds
      BY <1>1, <1>2 DEF Entries
<1> QED BY <1>1, <1>2, <1>3, <1>4, <1>5, <1>6

(* Most steps count nothing and remove nothing.                             *)
LEMMA RKept ==
    ASSUME AInv, RInv, UNCHANGED <<peer_count, mutex, tmp, pos, wrapped>>,
           main' = "add" => main = "add", main' = "count" => main = "count" /\ i' = i,
           \A t \in Threads : \/ pc'[t] = pc[t]
                              \/ pc[t] \notin {"shift", "dec"} /\ pc'[t] \notin {"shift", "dec"}
    PROVE  RInv'
<1>1. \A t \in Threads : /\ pc'[t] = "dec" => pc[t] = "dec"
                         /\ pc'[t] = "shift" => pc[t] = "shift"
                         /\ pc'[t] \in {"shift", "dec"} <=> pc[t] \in {"shift", "dec"}
      OBVIOUS
<1>2. Guarded'
      BY <1>1 DEF RInv, Guarded
<1>3. Counted'
      BY <1>1, Kinds DEF RInv, Counted
<1> QED BY <1>2, <1>3 DEF RInv, Fresh

LEMMA RRemoval ==
    ASSUME AInv, RInv, NEW t \in Threads, Shift(t) \/ LoadToDrop(t) \/ Drop(t)
    PROVE  RInv'
<1>1. /\ mutex = t /\ UNCHANGED <<main, i>> /\ t # NoConn /\ pc \in [Threads -> PCs]
      BY Kinds DEF RInv, Guarded, Shift, LoadToDrop, Drop, mainv
<1>2. /\ peer_count \in Nat /\ tmp[t] \in Nat /\ tmp[NoConn] \in Nat /\ pos[t] \in Nat /\ peer_count < TSIZE
      /\ tmp[t] < TSIZE /\ TSIZE \in Nat
      BY Indices
<1>3. \A u \in Threads : u # t => pc[u] \notin {"shift", "dec"}
      BY <1>1 DEF RInv, Guarded
<1>4. CASE Shift(t)
  <2>1. /\ UNCHANGED <<peer_count, mutex, tmp, pc, wrapped>> /\ pos' = [pos EXCEPT ![t] = @ + 1]
        /\ pos[t] < peer_count - 1
        BY <1>4 DEF Shift
  <2>2. pos'[t] < peer_count /\ \A u \in Threads : u # t => pos'[u] = pos[u]
    <3>1. pos'[t] = pos[t] + 1 /\ \A u \in Threads : u # t => pos'[u] = pos[u]
          BY <2>1, Indices
    <3> QED BY <1>2, <2>1, <3>1
  <2>3. Counted'
        BY <2>1, <2>2, <1>1, Kinds DEF RInv, Counted
  <2> QED BY <1>1, <2>1, <2>3 DEF RInv, Guarded, Fresh
<1>5. CASE LoadToDrop(t)
  <2>1. /\ UNCHANGED <<peer_count, mutex, pos, wrapped>> /\ tmp' = [tmp EXCEPT ![t] = peer_count] /\ pc[t] = "shift"
        /\ \A u \in Threads : pc'[u] = IF u = t THEN "dec" ELSE pc[u]
        BY <1>1, <1>5 DEF LoadToDrop, Goto, array, thread, hist, marks
  <2>2. tmp'[t] = peer_count /\ tmp'[NoConn] = tmp[NoConn]
        BY <1>1, <2>1, Indices
  <2>3. ~wrapped /\ t \in Conns => peer_count >= 1
    <3>1. ~wrapped /\ t \in Conns => pos[t] < peer_count
          BY <2>1 DEF RInv, Counted
    <3> QED BY <1>2, <3>1
  <2>4. Guarded'
        BY <1>1, <2>1 DEF RInv, Guarded
  <2>5. Counted'
    <3>1. \A u \in Threads : pc'[u] = "dec" => u = t
          BY <1>3, <2>1
    <3>2. \A u \in Threads : pc'[u] # "shift"
          BY <1>3, <2>1
    <3> QED BY <1>1, <1>2, <2>1, <2>2, <2>3, <3>1, <3>2, Kinds DEF RInv, Counted
  <2> QED BY <1>1, <2>4, <2>5 DEF RInv, Fresh
<1>6. CASE Drop(t)
  <2>1. /\ pc[t] = "dec" /\ peer_count' = (tmp[t] - 1) % TSIZE /\ tmp' = [tmp EXCEPT ![t] = 0] /\ mutex' = NoConn
        /\ wrapped' = (wrapped \/ tmp[t] = 0)
        /\ pc'[t] \in {"loop", "done"} /\ \A u \in Threads : u # t => pc'[u] = pc[u]
        BY <1>1, <1>6 DEF Drop, Goto
  <2>2. \A u \in Threads : pc'[u] \notin {"shift", "dec"}
        BY <1>3, <2>1
  <2>3. ~wrapped' => peer_count' <= peer_count
    <3>1. ASSUME NEW k \in Nat, NEW m \in Nat, k < m, k >= 1
          PROVE  (k - 1) % m = k - 1
          BY <3>1
    <3>2. ~wrapped' => tmp[t] >= 1 /\ tmp[t] <= peer_count
      <4>1. ~wrapped' => ~wrapped /\ tmp[t] # 0
            BY <2>1
      <4>2. \A k \in Nat : k # 0 => k >= 1
            OBVIOUS
      <4> QED BY <1>2, <2>1, <4>1, <4>2 DEF RInv, Counted
    <3>3. tmp[t] >= 1 => (tmp[t] - 1) % TSIZE = tmp[t] - 1
          BY <1>2, <3>1
    <3>4. \A k \in Nat : k >= 1 /\ k <= peer_count => k - 1 <= peer_count
          BY <1>2
    <3> QED BY <1>2, <2>1, <3>2, <3>3, <3>4
  <2>4. peer_count' \in Nat
    <3>1. \A k \in Nat, m \in Nat : m > 0 => (k - 1) % m \in Nat
          OBVIOUS
    <3> QED BY <1>2, <2>1, <3>1
  <2>5. tmp'[NoConn] = tmp[NoConn]
        BY <1>1, <2>1, Indices
  <2>6. Guarded'
        BY <2>1, <2>2, Kinds DEF Guarded
  <2>7. Counted'
    <3>1. ~wrapped' /\ main = "add" => peer_count <= tmp[NoConn]
          BY <2>1 DEF RInv, Counted
    <3>2. ~wrapped' /\ main' = "add" => peer_count' <= tmp'[NoConn]
          BY <1>1, <1>2, <2>3, <2>4, <2>5, <3>1
    <3> QED BY <2>2, <3>2, Kinds DEF Counted
  <2> QED BY <1>1, <2>6, <2>7 DEF RInv, Fresh
<1> QED BY <1>4, <1>5, <1>6

LEMMA RThread ==
    ASSUME AInv, RInv, SendStep \/ Type \/ \E t \in Conns : ReceiveStep(t)
    PROVE  RInv'
<1>1. ASSUME NEW t \in Conns, Begin(t) \/ Call(t) \/ RecvEnds(t) \/ CloseConn(t)
      PROVE  RInv'
      BY <1>1, Kinds, RKept DEF Begin, Call, RecvEnds, CloseConn, Goto, mainv, array, thread, hist, marks
<1>2. CASE Look \/ SendWaits \/ SendTag \/ SendText \/ SendFails \/ Type
      BY <1>2, Kinds, RKept DEF Look, SendWaits, SendTag, SendText, SendFails, Type, Goto, mainv, array, thread, hist, marks
<1>3. ASSUME NEW t \in Conns, FindEntry(t)
      PROVE  RInv'
  <2>1. /\ UNCHANGED <<peer_count, tmp, wrapped, main, i>> /\ mutex = NoConn /\ t \in Threads /\ pc[t] = "find"
        BY <1>3, Kinds DEF FindEntry, mainv, array, hist, marks
  <2>2. \A u \in Threads : pc[u] \notin {"shift", "dec"}
        BY <2>1, Kinds DEF RInv, Guarded
  <2>3. CASE Found(t) = {}
        BY <1>3, <2>1, <2>3, Kinds, RKept DEF FindEntry, Goto, array, hist, marks
  <2>4. CASE Found(t) # {}
    <3> DEFINE s == CHOOSE s \in Found(t) : \A r \in Found(t) : s <= r
    <3>1. pos' = [pos EXCEPT ![t] = s] /\ mutex' = t /\ Goto(t, "shift")
          BY <1>3, <2>4 DEF FindEntry
    <3>2. s < peer_count
      <4>1. Found(t) \in SUBSET Nat
            BY Sizes DEF Found
      <4>2. \E r \in Found(t) : \A q \in Found(t) : r <= q
            BY <2>4, <4>1, LeastExists
      <4>3. s \in Found(t)
            BY <4>2
      <4> QED BY <4>3 DEF Found
    <3>3. \A u \in Threads : pc'[u] = IF u = t THEN "shift" ELSE pc[u]
          BY <2>1, <3>1, Kinds DEF Goto
    <3>4. pos'[t] < peer_count
          BY <2>1, <3>1, <3>2, Indices
    <3>5. Guarded'
          BY <2>1, <2>2, <3>1, <3>3 DEF Guarded
    <3>6. Counted'
          BY <2>1, <2>2, <3>3, <3>4, Kinds DEF RInv, Counted
    <3> QED BY <2>1, <3>5, <3>6 DEF RInv, Fresh
  <2> QED BY <2>3, <2>4
<1>4. CASE LockToDrop
  <2>1. /\ UNCHANGED <<peer_count, tmp, wrapped, main, i>> /\ mutex = NoConn /\ mutex' = Sender
        /\ \A u \in Threads : pc'[u] = IF u = Sender THEN "shift" ELSE pc[u]
        BY <1>4, Kinds DEF LockToDrop, Goto, mainv, array, hist, marks
  <2>2. \A u \in Threads : pc[u] \notin {"shift", "dec"}
        BY <2>1, Kinds DEF RInv, Guarded
  <2>3. Guarded'
        BY <2>1, <2>2 DEF Guarded
  <2>4. Counted'
        BY <2>1, <2>2, Kinds DEF RInv, Counted
  <2> QED BY <2>1, <2>3, <2>4 DEF RInv, Fresh
<1> QED BY <1>1, <1>2, <1>3, <1>4, RRemoval, Kinds DEF ReceiveStep, SendStep

(* Main counts a newcomer: the count it has loaded is no less than that is. *)
LEMMA CountGrows ==
    ASSUME AInv, RInv, StoreCount
    PROVE  peer_count' \in Nat /\ (~wrapped' => peer_count < peer_count' /\ peer_count <= peer_count')
<1>1. /\ main = "add" /\ peer_count' = (tmp[NoConn] + 1) % TSIZE /\ wrapped' = (wrapped \/ tmp[NoConn] + 1 = TSIZE)
      BY DEF StoreCount
<1>2. tmp[NoConn] \in Nat /\ peer_count \in Nat /\ tmp[NoConn] < TSIZE /\ TSIZE \in Nat
      BY Indices
<1>3. ASSUME NEW k \in Nat, NEW m \in Nat, k < m, k + 1 # m
      PROVE  (k + 1) % m = k + 1
      BY <1>3
<1>4. ~wrapped' => peer_count <= tmp[NoConn] /\ tmp[NoConn] + 1 # TSIZE
      BY <1>1 DEF RInv, Counted
<1>5. ~wrapped' => peer_count' = tmp[NoConn] + 1
      BY <1>1, <1>2, <1>3, <1>4
<1>6. \A k, m \in Nat : m <= k => k + 1 \in Nat /\ m < k + 1 /\ m <= k + 1
      OBVIOUS
<1>7. peer_count' \in Nat
  <2>1. \A k, m \in Nat : m > 0 => (k + 1) % m \in Nat
        OBVIOUS
  <2> QED BY <1>1, <1>2, <2>1
<1> QED BY <1>2, <1>4, <1>5, <1>6, <1>7

LEMMA RMain ==
    ASSUME AInv, RInv, MainStep
    PROVE  RInv'
<1>1. CASE \/ ListBreaks \/ OpenSocket \/ Dial \/ GreetWaits \/ Greet \/ RecvGreeting \/ Store
           \/ \E c \in Conns : RecvEntry(c)
  <2>1. UNCHANGED <<peer_count, mutex, tmp, pos, wrapped, pc>> /\ main' \notin {"add", "count"}
    <3>1. CASE ListBreaks \/ OpenSocket \/ RecvGreeting \/ Store \/ \E c \in Conns : RecvEntry(c)
          BY <3>1 DEF ListBreaks, OpenSocket, RecvGreeting, Store, RecvEntry, Step, array, thread, hist, marks
    <3>2. CASE GreetWaits \/ Greet
          BY <3>2 DEF GreetWaits, Greet, Step, array, mainv, marks
    <3>3. CASE Dial
          BY <3>3 DEF Dial, Opens, Step, array, thread, marks
    <3> QED BY <1>1, <3>1, <3>2, <3>3
  <2> QED BY <2>1, RKept
<1>2. ASSUME NEW c \in Conns, Accept(c)
      PROVE  RInv'
  <2>1. /\ UNCHANGED <<peer_count, mutex, pos, pc, wrapped>> /\ main' = "greeting"
        /\ tmp' = [tmp EXCEPT ![NoConn] = LeastFree]
        BY <1>2 DEF Accept, Opens, Step, array, thread, marks
  <2>2. \A u \in Threads : tmp'[u] = tmp[u]
        BY <2>1, Kinds, Indices
  <2> QED BY <2>1, <2>2, Kinds DEF RInv, Guarded, Counted, Fresh
<1>3. CASE Spawn \/ StartThread
  <2>1. cur \in Conns /\ pc[cur] = "none"
        BY <1>3 DEF Spawn, StartThread, AInv, Opening, Making, Dialled, Running
  <2> QED BY <1>3, <2>1, RKept, Kinds DEF Spawn, StartThread, Step, Goto, array, hist, marks
<1>4. CASE ListDone
  <2>1. pc[Sender] = "none"
        BY <1>4 DEF ListDone, AInv, Reading, Listing
  <2> QED BY <1>4, <2>1, RKept, Kinds DEF ListDone, Step, Goto, array, thread, hist, marks
<1>5. CASE RecvCount
  <2>1. /\ UNCHANGED <<mutex, tmp, pos, pc, wrapped>> /\ main = "count" /\ main' = "list"
        BY <1>5 DEF RecvCount, Step, thread, hist, marks
  <2>2. \A u \in Threads : pc[u] = "none"
    <3>1. Cardinality(Started) = 0 /\ Started \subseteq listed /\ pc[Sender] = "none"
          BY <2>1 DEF AInv, Reading, RInv, Fresh, Listing
    <3>2. IsFiniteSet(Started)
      <4>1. TypeOK
            BY DEF AInv
      <4> QED BY <3>1, <4>1, ListedSize, FS_Subset
    <3>3. Started = {}
          BY <3>1, <3>2, FS_EmptySet
    <3> QED BY <3>1, <3>3 DEF Started, Threads
  <2> QED BY <2>1, <2>2, Kinds DEF RInv, Guarded, Counted, Fresh
<1>6. CASE LoadCount
  <2>1. /\ UNCHANGED <<peer_count, mutex, pos, pc, wrapped>> /\ main' = "add" /\ tmp' = [tmp EXCEPT ![NoConn] = peer_count]
        BY <1>6 DEF LoadCount, Step, array, thread, hist, marks
  <2>2. tmp'[NoConn] = peer_count /\ \A u \in Threads : tmp'[u] = tmp[u]
        BY <2>1, Kinds, Indices
  <2>3. peer_count <= peer_count
        BY Indices
  <2> QED BY <2>1, <2>2, <2>3, Kinds DEF RInv, Guarded, Counted, Fresh
<1>7. CASE StoreCount
  <2>1. /\ UNCHANGED <<mutex, pos, pc>> /\ main = "add" /\ main' = "accept"
        /\ peer_count' = (tmp[NoConn] + 1) % TSIZE /\ wrapped' = (wrapped \/ tmp[NoConn] + 1 = TSIZE)
        /\ tmp' = [tmp EXCEPT ![NoConn] = 0]
        BY <1>7 DEF StoreCount, Step, thread
  <2>2. \A u \in Threads : tmp'[u] = tmp[u]
        BY <2>1, Kinds, Indices
  <2>3. tmp[NoConn] \in Nat /\ peer_count \in Nat /\ tmp[NoConn] < TSIZE /\ TSIZE \in Nat
        BY Indices
  <2>4. ~wrapped' => peer_count' \in Nat /\ peer_count < peer_count'
        BY <1>7, CountGrows
  <2>5. ~wrapped' => \A k \in Nat : /\ k <= peer_count => k <= peer_count'
                                    /\ k < peer_count => k < peer_count'
        BY <2>3, <2>4
  <2>6. Counted'
    <3>1. \A u \in Threads : tmp'[u] \in Nat /\ pos'[u] \in Nat
          BY <2>1, <2>2, Indices
    <3>2. ~wrapped' => Counted /\ ~wrapped
          BY <2>1 DEF RInv
    <3> SUFFICES ASSUME ~wrapped'
                 PROVE  /\ \A t \in Threads : pc[t] = "dec" => tmp'[t] <= peer_count'
                        /\ \A t \in Conns : pc[t] = "dec" => tmp'[t] >= 1
                        /\ \A t \in Conns : pc[t] = "shift" => pos'[t] < peer_count'
        BY <2>1 DEF Counted
    <3>3. \A t \in Threads : pc[t] = "dec" => tmp'[t] <= peer_count'
          BY <2>2, <2>5, <3>1, <3>2 DEF Counted
    <3>4. \A t \in Conns : pc[t] = "dec" => tmp'[t] >= 1
          BY <2>2, <3>2, Kinds DEF Counted
    <3>5. \A t \in Conns : pc[t] = "shift" => pos'[t] < peer_count'
          BY <2>1, <2>5, <3>1, <3>2, Kinds DEF Counted
    <3> QED BY <3>3, <3>4, <3>5
  <2> QED BY <2>1, <2>6 DEF RInv, Guarded, Fresh
<1> QED BY <1>1, <1>2, <1>3, <1>4, <1>5, <1>6, <1>7 DEF MainStep

LEMMA RNext == AInv /\ RInv /\ [Next]_vars => RInv'
<1> SUFFICES ASSUME AInv, RInv, [Next]_vars PROVE RInv'
    OBVIOUS
<1>1. CASE UNCHANGED vars
      BY <1>1, RKept DEF vars, array, mainv, thread, hist, marks
<1>2. CASE Quit \/ \E c \in Conns : Killed(c)
      BY <1>2, RKept DEF Quit, Killed, Step, array, thread, hist, marks
<1>3. ASSUME NEW c \in Conns, PeerStep(c)
      PROVE  RInv'
      BY <1>3, RKept DEF PeerStep, Knock, PeerGreets, PeerLeaves, PeerReads, array, mainv, thread, hist, marks
<1> QED BY <1>1, <1>2, <1>3, RMain, RThread DEF Next

LEMMA RInit == Init => RInv
<1> SUFFICES ASSUME Init PROVE RInv
    OBVIOUS
<1>1. \A t \in Threads : pc[t] = "none" /\ t # NoConn
      BY Sizes DEF Init, Threads
<1>2. mutex = NoConn /\ i = 0 /\ main = "count"
      BY DEF Init
<1> QED BY <1>1, <1>2 DEF RInv, Guarded, Counted, Fresh, Threads

(* Main counts newcomers without the mutex that the removals take; yet, as  *)
(* long as the count has not wrapped, a receive thread removes one of the   *)
(* entries that are listed, and never takes the count below zero.           *)
THEOREM RemovalInBoundsCorrect == Spec => []RemovalInBounds
<1>1. AInv /\ RInv => RemovalInBounds
  <2> SUFFICES ASSUME AInv, RInv, ~wrapped, NEW t \in Conns
               PROVE  /\ pc[t] = "shift" => pos[t] < peer_count
                      /\ pc[t] = "dec" => tmp[t] \in 1 .. peer_count
      BY DEF RemovalInBounds
  <2>1. pc[t] = "dec" => tmp[t] <= peer_count /\ tmp[t] >= 1
        BY Kinds DEF RInv, Counted
  <2>2. tmp[t] \in Nat /\ peer_count \in Nat
        BY Kinds, Indices
  <2>3. pc[t] = "dec" => tmp[t] \in 1 .. peer_count
        BY <2>1, <2>2
  <2> QED BY <2>3 DEF RInv, Counted
<1>2. Spec => []RInv
      BY RInit, RNext, AInvariant, PTL DEF Spec
<1> QED BY <1>1, <1>2, AInvariant, PTL

-----------------------------------------------------------------------------
(* Who uses a descriptor.  As long as a connection has had one user, its    *)
(* own thread is the only receive thread with its descriptor, receives from *)
(* it and closes it when the peer has gone; main closes nobody else's.      *)

Holds(t) == pc[t] \notin {"none", "begin", "done"}

Leaving == {"close", "find", "shift", "dec"}

Own ==
    /\ \A t \in Conns : at[t] # NoConn => pc[t] = "recv"
    /\ main = "greeting" => file[tmp[NoConn]] \in {cur, NoConn}
    /\ \A c \in Conns \ shared :
          /\ \A t \in Conns : Holds(t) /\ file[fd[t]] = c => t = c
          /\ file[fd[c]] = c /\ at[c] # NoConn => at[c] = c
          /\ file[fd[c]] = c /\ pc[c] \in Leaving => link[c] = "gone"

(* Most steps open nothing and give no thread a descriptor.                 *)
LEMMA OwnKept ==
    ASSUME AInv, Own, shared \subseteq shared',
           \A t \in Conns : /\ Holds(t)' => Holds(t) /\ fd'[t] = fd[t]
                            /\ at'[t] \in {at[t], NoConn} /\ (at'[t] # NoConn => pc'[t] = "recv")
                            /\ pc'[t] \in Leaving => pc[t] \in Leaving
                            /\ link[t] = "gone" => link'[t] = "gone",
           \A f \in Fds : file'[f] \in Conns => file'[f] = file[f],
           main' = "greeting" => /\ main = "greeting" /\ cur' = cur /\ tmp'[NoConn] = tmp[NoConn]
                                 /\ \A f \in Fds : file'[f] \in {file[f], NoConn}
    PROVE  Own'
<1>1. main' = "greeting" => file'[tmp'[NoConn]] \in {cur', NoConn}
      BY DEF Own, AInv, Places
<1>2. ASSUME NEW c \in Conns \ shared'
      PROVE  /\ \A t \in Conns : Holds(t)' /\ file'[fd'[t]] = c => t = c
             /\ file'[fd'[c]] = c /\ at'[c] # NoConn => at'[c] = c
             /\ file'[fd'[c]] = c /\ pc'[c] \in Leaving => link'[c] = "gone"
  <2>1. c \in Conns \ shared
        OBVIOUS
  <2>2. \A t \in Conns : Holds(t)' /\ file'[fd'[t]] = c => t = c
        BY <2>1, Kinds DEF Own
  <2>3. pc'[c] \in {"recv"} \cup Leaving => Holds(c)'
        BY DEF Holds, Leaving
  <2>4. file'[fd'[c]] = c /\ pc'[c] \in {"recv"} \cup Leaving => file[fd[c]] = c
        BY <2>1, <2>3, Kinds
  <2>5. file'[fd'[c]] = c /\ at'[c] # NoConn => at'[c] = c
        BY <2>1, <2>4 DEF Own
  <2>6. file'[fd'[c]] = c /\ pc'[c] \in Leaving => link'[c] = "gone"
        BY <2>1, <2>4 DEF Own
  <2> QED BY <2>2, <2>5, <2>6
<1> QED BY <1>1, <1>2 DEF Own

LEMMA OwnRemoval ==
    ASSUME AInv, Own, NEW t \in Threads, Shift(t) \/ LoadToDrop(t) \/ Drop(t)
    PROVE  Own'
<1>1. /\ UNCHANGED <<link, main, cur, file, fd, at, shared>> /\ tmp'[NoConn] = tmp[NoConn]
      /\ \A u \in Threads : pc'[u] = pc[u] \/ (pc[u] \in {"shift", "dec"} /\ pc'[u] \in {"dec", "done", "loop"})
  <2>1. tmp'[NoConn] = tmp[NoConn]
        BY RemovalMoves DEF LeavesToMain
  <2> QED BY <2>1, Kinds DEF Shift, LoadToDrop, Drop, Goto, env, net, mainv, array, thread, hist, marks
<1>2. \A u \in Conns : /\ Holds(u)' => Holds(u)
                       /\ at[u] # NoConn => pc'[u] = "recv"
                       /\ pc'[u] \in Leaving => pc[u] \in Leaving
      BY <1>1, Kinds DEF Holds, Leaving, Own
<1> QED BY <1>1, <1>2, OwnKept

LEMMA OwnSend ==
    ASSUME AInv, Own, SendStep \/ Type
    PROVE  Own'
<1>1. CASE Shift(Sender) \/ LoadToDrop(Sender) \/ Drop(Sender)
      BY <1>1, Kinds, OwnRemoval
<1>2. CASE Type \/ Look \/ SendWaits \/ SendTag \/ SendText \/ SendFails \/ LockToDrop
  <2>1. /\ UNCHANGED <<link, main, cur, shared>> /\ tmp'[NoConn] = tmp[NoConn]
        /\ \A t \in Conns : pc'[t] = pc[t] /\ fd'[t] = fd[t] /\ at'[t] = at[t]
    <3>1. CASE Type \/ Look \/ SendFails \/ LockToDrop
          BY <3>1, Kinds DEF Type, Look, SendFails, LockToDrop, Goto, env, net, mainv, array, thread, hist, marks
    <3>2. CASE SendWaits \/ SendTag \/ SendText
          BY <3>2, Kinds DEF SendWaits, Waits, SendTag, SendText, Send, Goto, env, mainv, array, hist, marks
    <3> QED BY <1>2, <3>1, <3>2
  <2>2. \A f \in Fds : file'[f] \in {file[f], NoConn}
        BY <1>2, ThreadMoves DEF SendStep, LeavesToMain
  <2>3. \A t \in Conns : (Holds(t)' => Holds(t)) /\ (at[t] # NoConn => pc'[t] = "recv")
        BY <2>1 DEF Holds, Leaving, Own
  <2> QED BY <2>1, <2>2, <2>3, OwnKept, Kinds
<1> QED BY <1>1, <1>2 DEF SendStep

LEMMA OwnReceive ==
    ASSUME AInv, Own, NEW t \in Conns, ReceiveStep(t)
    PROVE  Own'
<1>0. t \in Threads /\ LeavesToMain
      BY Kinds, ThreadMoves
<1>1. UNCHANGED <<link, main, cur>> /\ tmp'[NoConn] = tmp[NoConn] /\ \A f \in Fds : file'[f] \in {file[f], NoConn}
      BY <1>0 DEF LeavesToMain
<1>2. CASE Shift(t) \/ LoadToDrop(t) \/ Drop(t)
      BY <1>0, <1>2, OwnRemoval
<1>3. CASE CloseConn(t) \/ FindEntry(t)
  <2>1. /\ UNCHANGED <<fd, at, shared>> /\ pc[t] \in {"close", "find"} /\ pc'[t] \in {"find", "shift", "done"}
        /\ \A u \in Conns : u # t => pc'[u] = pc[u]
        BY <1>3, Kinds DEF CloseConn, FindEntry, Goto, thread, hist, marks
  <2>2. \A u \in Conns : /\ Holds(u)' => Holds(u)
                         /\ at[u] # NoConn => pc'[u] = "recv"
                         /\ pc'[u] \in Leaving => pc[u] \in Leaving
        BY <2>1 DEF Holds, Leaving, Own
  <2> QED BY <1>1, <2>1, <2>2, OwnKept, Kinds
<1>4. CASE Begin(t)
  <2>1. /\ UNCHANGED <<file, at>> /\ pc[t] = "begin" /\ shared' = shared \cup ((Conns \cap {file[fd'[t]]}) \ {t})
        /\ \A u \in Conns : pc'[u] = (IF u = t THEN "recv" ELSE pc[u]) /\ (u # t => fd'[u] = fd[u])
        BY <1>4, Kinds DEF Begin, Goto, On
  <2>2. \A u \in Conns : at'[u] # NoConn => u # t /\ pc'[u] = "recv"
        BY <2>1 DEF Own
  <2>3. ASSUME NEW c \in Conns \ shared'
        PROVE  /\ \A u \in Conns : Holds(u)' /\ file'[fd'[u]] = c => u = c
               /\ file'[fd'[c]] = c /\ at'[c] # NoConn => at'[c] = c
               /\ file'[fd'[c]] = c /\ pc'[c] \in Leaving => link'[c] = "gone"
    <3>1. file[fd'[t]] = c => t = c
          BY <2>1
    <3>2. \A u \in Conns : u # t => (Holds(u)' <=> Holds(u)) /\ file'[fd'[u]] = file[fd[u]]
          BY <2>1 DEF Holds
    <3>3. c \in Conns \ shared
          BY <2>1
    <3>4. \A u \in Conns : Holds(u)' /\ file'[fd'[u]] = c => u = c
          BY <2>1, <3>1, <3>2, <3>3 DEF Own, Leaving
    <3>5. c # t => pc'[c] = pc[c] /\ at'[c] = at[c] /\ file'[fd'[c]] = file[fd[c]]
          BY <2>1
    <3>6. c = t => at'[c] = NoConn /\ pc'[c] \notin Leaving
          BY <2>1, <2>2 DEF Leaving
    <3> QED BY <1>1, <3>3, <3>4, <3>5, <3>6 DEF Own
  <2> QED BY <1>1, <2>1, <2>2, <2>3 DEF Own
<1>5. CASE Call(t)
  <2>1. /\ UNCHANGED <<file, pc, fd, shared>> /\ pc[t] = "recv" /\ file[fd[t]] \in Conns
        /\ \A u \in Conns : at'[u] = IF u = t THEN file[fd[t]] ELSE at[u]
        BY <1>5, Kinds DEF Call, hist, marks
  <2> QED BY <1>1, <2>1 DEF Own, Holds
<1>6. CASE RecvEnds(t)
  <2>1. /\ UNCHANGED <<file, fd, shared>> /\ pc[t] = "recv"
        /\ \A u \in Conns : pc'[u] = (IF u = t THEN "close" ELSE pc[u]) /\ at'[u] = (IF u = t THEN NoConn ELSE at[u])
        /\ IF at[t] = NoConn THEN file[fd[t]] \notin Conns ELSE link[at[t]] = "gone" \/ at[t] \in shared
        BY <1>6, Kinds DEF RecvEnds, Goto, hist, marks
  <2>2. t \notin shared /\ file[fd[t]] = t => link[t] = "gone"
        BY <2>1 DEF Own
  <2>3. \A u \in Conns : Holds(u)' <=> Holds(u)
        BY <2>1 DEF Holds
  <2>4. ASSUME NEW c \in Conns \ shared'
        PROVE  /\ \A u \in Conns : Holds(u)' /\ file'[fd'[u]] = c => u = c
               /\ file'[fd'[c]] = c /\ at'[c] # NoConn => at'[c] = c
               /\ file'[fd'[c]] = c /\ pc'[c] \in Leaving => link'[c] = "gone"
    <3>1. c \in Conns \ shared
          BY <2>1
    <3>2. \A u \in Conns : Holds(u)' /\ file'[fd'[u]] = c => u = c
          BY <2>1, <2>3, <3>1 DEF Own
    <3>3. file'[fd'[c]] = c /\ at'[c] # NoConn => at'[c] = c
          BY <2>1, <3>1 DEF Own
    <3>4. file'[fd'[c]] = c /\ pc'[c] \in Leaving => link'[c] = "gone"
          BY <1>1, <2>1, <2>2, <3>1 DEF Own
    <3> QED BY <3>2, <3>3, <3>4
  <2>5. \A u \in Conns : at'[u] # NoConn => pc'[u] = "recv"
        BY <2>1 DEF Own
  <2>6. main' = "greeting" => file'[tmp'[NoConn]] \in {cur', NoConn}
        BY <1>1, <2>1 DEF Own
  <2> QED BY <2>4, <2>5, <2>6 DEF Own
<1> QED BY <1>2, <1>3, <1>4, <1>5, <1>6 DEF ReceiveStep

(* A connection is opened on a descriptor that no thread has, or is shared. *)
LEMMA OwnOpens ==
    ASSUME AInv, Own, NEW f \in Fds, NEW c \in Conns, pc[c] = "none",
           \A g \in Fds : file'[g] = IF g = f THEN c ELSE file[g],
           shared' = IF Users(f) = {} THEN shared ELSE shared \cup {c},
           UNCHANGED <<link, pc, fd>>, \A t \in Conns : at'[t] = at[t],
           main' = "greeting" => tmp'[NoConn] = f /\ cur' = c
    PROVE  Own'
<1>1. \A t \in Conns : Holds(t)' <=> Holds(t)
      BY DEF Holds
<1>2. \A t \in Conns : Holds(t) /\ fd[t] = f => t \in Users(f)
      BY DEF Holds, Users
<1>3. at[c] = NoConn /\ pc[c] \notin Leaving
      BY DEF Own, Leaving
<1>4. ASSUME NEW d \in Conns \ shared'
      PROVE  /\ \A t \in Conns : Holds(t)' /\ file'[fd'[t]] = d => t = d
             /\ file'[fd'[d]] = d /\ at'[d] # NoConn => at'[d] = d
             /\ file'[fd'[d]] = d /\ pc'[d] \in Leaving => link'[d] = "gone"
  <2>1. d \in Conns \ shared
        OBVIOUS
  <2>2. CASE d = c
    <3>1. Users(f) = {}
          BY <2>2
    <3>2. ASSUME NEW t \in Conns, Holds(t)', file'[fd'[t]] = d
          PROVE  t = d
      <4>1. Holds(t) /\ fd[t] # f /\ fd[t] \in Fds
            BY <1>1, <1>2, <3>1, <3>2, Kinds
      <4>2. file[fd[t]] = d
            BY <3>2, <4>1
      <4> QED BY <2>1, <4>1, <4>2 DEF Own
    <3> QED BY <1>3, <2>2, <3>2
  <2>3. CASE d # c
    <3>1. \A t \in Conns : file'[fd'[t]] = d => file[fd[t]] = d
          BY <2>3, Kinds
    <3> QED BY <1>1, <2>1, <3>1 DEF Own
  <2> QED BY <2>2, <2>3
<1> QED BY <1>4 DEF Own

LEMMA OwnMain ==
    ASSUME AInv, Own, MainStep
    PROVE  Own'
<1>1. CASE RecvCount \/ ListBreaks \/ OpenSocket \/ GreetWaits \/ Greet \/ Spawn \/ ListDone \/ RecvGreeting \/ Store \/ StartThread
           \/ LoadCount \/ StoreCount \/ \E c \in Conns : RecvEntry(c)
  <2>1. /\ UNCHANGED <<link, fd>> /\ main' # "greeting" /\ shared \subseteq shared'
        /\ \A t \in Conns : at'[t] = at[t] /\ (pc'[t] # pc[t] => pc[t] = "none" /\ pc'[t] = "begin")
    <3>1. CASE RecvCount \/ ListBreaks \/ OpenSocket \/ RecvGreeting \/ Store \/ LoadCount \/ StoreCount \/ \E c \in Conns : RecvEntry(c)
          BY <3>1 DEF RecvCount, ListBreaks, OpenSocket, RecvGreeting, Store, LoadCount, StoreCount, RecvEntry,
                      Step, env, net, thread, hist, marks
    <3>2. CASE GreetWaits \/ Greet
          BY <3>2, Kinds DEF GreetWaits, Greet, Waits, Send, Step, env, mainv
    <3>3. CASE Spawn \/ StartThread
          BY <3>3, Kinds DEF Spawn, StartThread, Step, Goto, env, net, hist, marks, AInv, Opening, Making, Dialled, Running
    <3>4. CASE ListDone
          BY <3>4, Kinds DEF ListDone, Step, Goto, env, net, thread, hist, marks
    <3> QED BY <1>1, <3>1, <3>2, <3>3, <3>4
  <2>2. \A f \in Fds : file'[f] \in Conns => file'[f] = file[f]
    <3>1. CASE RecvCount \/ ListBreaks \/ GreetWaits \/ Spawn \/ ListDone \/ Store \/ StartThread \/ LoadCount \/ StoreCount \/ \E c \in Conns : RecvEntry(c)
          BY <3>1 DEF RecvCount, ListBreaks, GreetWaits, Spawn, ListDone, Store, StartThread, LoadCount, StoreCount, RecvEntry
    <3>2. CASE OpenSocket
          BY <3>2, Kinds, Sizes DEF OpenSocket
    <3>3. CASE Greet \/ RecvGreeting
      <4>1. PICK g : file' = file \/ file' = [file EXCEPT ![g] = NoConn]
            BY <3>3 DEF Greet, RecvGreeting
      <4>2. NoConn \notin Conns
            BY Kinds
      <4>3. CASE file' = file
            BY <4>3
      <4>4. CASE file' = [file EXCEPT ![g] = NoConn]
            BY <4>2, <4>4, Sizes
      <4> QED BY <4>1, <4>3, <4>4
    <3> QED BY <1>1, <3>1, <3>2, <3>3
  <2>3. \A t \in Conns : (Holds(t)' => Holds(t)) /\ (at[t] # NoConn => pc'[t] = "recv") /\ (pc'[t] \in Leaving => pc[t] \in Leaving)
        BY <2>1 DEF Holds, Leaving, Own
  <2> QED BY <2>1, <2>2, <2>3, OwnKept
<1>2. CASE Dial
  <2>1. CASE main' = "exited"
    <3>1. UNCHANGED <<link, file, pc, fd, at, shared>>
          BY <1>2, <2>1 DEF Dial, Step, env, net, thread
    <3>2. \A t \in Conns : (Holds(t)' <=> Holds(t)) /\ (at[t] # NoConn => pc'[t] = "recv")
          BY <3>1 DEF Holds, Leaving, Own
    <3> QED BY <2>1, <3>1, <3>2, OwnKept
  <2>2. CASE main' # "exited"
    <3> DEFINE f == clients[i].fd
               c == clients[i].who
    <3>1. /\ main = "connect" /\ main' = "greet" /\ c \in Conns /\ Opens(f, c) /\ UNCHANGED <<link, pc, fd, at>>
          BY <1>2, <2>2 DEF Dial, Step, env, net, thread
    <3>2. f \in Fds /\ c = cur /\ pc[c] = "none"
          BY <3>1, ListedSize, Sizes DEF AInv, TypeOK, Entries, Reading, Opening, Listing, Making, Running
    <3>3. \A g \in Fds : file'[g] = IF g = f THEN c ELSE file[g]
          BY <3>1, <3>2, Kinds DEF Opens
    <3>4. shared' = IF Users(f) = {} THEN shared ELSE shared \cup {c}
          BY <3>1 DEF Opens
    <3> HIDE DEF f, c
    <3> QED BY <3>1, <3>2, <3>3, <3>4, OwnOpens
  <2> QED BY <2>1, <2>2
<1>3. ASSUME NEW c \in Conns, Accept(c)
      PROVE  Own'
  <2>1. /\ pc[c] = "none" /\ Opens(LeastFree, c) /\ UNCHANGED <<link, pc, fd, at>>
        /\ tmp' = [tmp EXCEPT ![NoConn] = LeastFree] /\ cur' = c /\ main' = "greeting"
        BY <1>3 DEF Accept, Step, env, net, thread
  <2>2. LeastFree \in Fds /\ tmp'[NoConn] = LeastFree
        BY <1>3, <2>1, AAccept DEF AInv, TypeOK
  <2>3. \A g \in Fds : file'[g] = IF g = LeastFree THEN c ELSE file[g]
        BY <2>1, <2>2, Kinds DEF Opens
  <2>4. PICK f \in Fds : f = LeastFree
        BY <2>2
  <2>5. shared' = IF Users(f) = {} THEN shared ELSE shared \cup {c}
        BY <2>1, <2>4 DEF Opens
  <2> QED BY <2>1, <2>2, <2>3, <2>4, <2>5, OwnOpens
<1> QED BY <1>1, <1>2, <1>3 DEF MainStep

LEMMA OwnNext == AInv /\ Own /\ [Next]_vars => Own'
<1> SUFFICES ASSUME AInv, Own, [Next]_vars PROVE Own'
    OBVIOUS
<1>1. CASE UNCHANGED vars
      BY <1>1 DEF Own, Holds, vars, env, net, mainv, thread, hist, marks
<1>2. CASE Quit \/ \E c \in Conns : Killed(c)
  <2>1. main' = "exited" /\ UNCHANGED <<link, file, tmp, pc, fd, at, shared>>
        BY <1>2 DEF Quit, Killed, Step, env, net, thread, hist, marks
  <2> QED BY <2>1 DEF Own, Holds
<1>3. ASSUME NEW c \in Conns, PeerStep(c)
      PROVE  Own'
  <2>1. /\ UNCHANGED <<file, main, cur, tmp, pc, fd, at, shared>>
        /\ \A d \in Conns : link[d] = "gone" => link'[d] = "gone"
        BY <1>3 DEF PeerStep, Knock, PeerGreets, PeerLeaves, PeerReads, env, mainv, thread, hist, marks, AInv, TypeOK
  <2> QED BY <2>1 DEF Own, Holds
<1> QED BY <1>1, <1>2, <1>3, OwnMain, OwnSend, OwnReceive DEF Next

LEMMA OwnInit == Init => Own
BY Sizes DEF Init, Own, Holds, Leaving, Threads, Dialled

-----------------------------------------------------------------------------
(* Who waits in send().  As long as a connection has had one user, a thread *)
(* that waits on it sends to the descriptor it is open on, and main greets  *)
(* it through the slot it has filled.                                       *)

Wait ==
    /\ at[Sender] # NoConn => pc[Sender] \in {"tag", "text"}
    /\ at[NoConn] # NoConn /\ Running => main = "greet" /\ at[NoConn] \in shared \cup {cur}
    /\ \A c \in Conns \ shared : at[Sender] # NoConn =>
          /\ file[fd[Sender]] = c => at[Sender] = c
          /\ at[Sender] = c /\ link[c] # "gone" => file[fd[Sender]] = c
    /\ \A c \in Conns \ (shared \cup moved) : main = "greet" /\ cur = c =>
          /\ at[NoConn] \in {NoConn, c}
          /\ file[clients[i].fd] \in {c, NoConn}
          /\ link[c] # "gone" => file[clients[i].fd] = c

LEMMA Greeting ==
    ASSUME AInv, main = "greet"
    PROVE  /\ cur \in Conns /\ cur \in listed /\ pc[cur] = "none" /\ pc[Sender] = "none" /\ Running
           /\ i \in Slots /\ clients[i].fd \in Fds
<1>1. i \in Slots
  <2>1. TypeOK
        BY DEF AInv
  <2> QED BY <2>1, ListedSize
<1> QED BY <1>1, Indices DEF AInv, Reading, Opening, Listing, Making, Dialled, Running

LEMMA Dialling ==
    ASSUME AInv, Dial, main' # "exited"
    PROVE  /\ main = "connect" /\ main' = "greet" /\ cur \in Conns /\ pc[cur] = "none" /\ Running
           /\ clients[i].fd \in Fds /\ file[clients[i].fd] = Other /\ link[cur] = "up"
           /\ \A g \in Fds : file'[g] = IF g = clients[i].fd THEN cur ELSE file[g]
           /\ shared' = IF Users(clients[i].fd) = {} THEN shared ELSE shared \cup {cur}
           /\ UNCHANGED <<env, net, array, mutex, cur, i, field, tmp, pc, thread, posted, due, marks>>
<1>1. i \in Slots
  <2>1. TypeOK
        BY DEF AInv
  <2> QED BY <2>1, ListedSize
<1>2. main = "connect" /\ main' = "greet"
      BY DEF Dial, Step
<1>3. clients[i].fd \in Fds
      BY <1>1, Indices
<1>4. clients[i].who \in {cur, NoConn} /\ pc[cur] = "none" /\ cur \in Conns /\ Running
      BY <1>2 DEF AInv, Reading, Opening, Listing, Making, Running
<1>5. /\ clients[i].who \in Conns /\ link[clients[i].who] = "up" /\ file[clients[i].fd] = Other
      /\ Opens(clients[i].fd, clients[i].who)
      BY DEF Dial, Step
<1>6. clients[i].who = cur
      BY <1>4, <1>5, Sizes
<1>7. UNCHANGED <<env, net, array, mutex, cur, i, field, tmp, pc, thread, posted, due, marks>>
      BY <1>5 DEF Dial, Opens
<1> QED BY <1>2, <1>3, <1>4, <1>5, <1>6, <1>7, Kinds DEF Opens

(* Who has gone does not come back.                                         *)
LEMMA Leaves ==
    ASSUME AInv, [Next]_vars, NEW c \in Conns, link'[c] # "gone"
    PROVE  link[c] # "gone"
<1>0. link \in [Conns -> {"new", "up", "gone"}]
      BY DEF AInv, TypeOK
<1>1. CASE SendStep \/ Type \/ \E t \in Conns : ReceiveStep(t)
      BY <1>1, ThreadMoves DEF LeavesToMain
<1>2. CASE MainStep
      BY <1>2 DEF MainStep, RecvCount, ListBreaks, OpenSocket, Dial, GreetWaits, Greet, Spawn, ListDone, RecvGreeting,
                  Store, StartThread, LoadCount, StoreCount, RecvEntry, Accept, env
<1>3. ASSUME NEW d \in Conns, PeerStep(d)
      PROVE  link[c] # "gone"
      BY <1>0, <1>3 DEF PeerStep, Knock, PeerGreets, PeerLeaves, PeerReads, env
<1>4. CASE Quit \/ UNCHANGED vars \/ \E d \in Conns : Killed(d)
      BY <1>4 DEF Quit, Killed, vars, env
<1> QED BY <1>1, <1>2, <1>3, <1>4 DEF Next

(* Only the threads that close what fails close a connection that is up.    *)
LEMMA StaysOpen ==
    ASSUME AInv, Own, Wait, [Next]_vars, NEW c \in Conns \ shared', NEW f \in Fds,
           file[f] = c, link'[c] # "gone", ~SendFails, main = "greet" => c \notin moved
    PROVE  file'[f] = c
<1>0. c # NoConn /\ c # Other /\ link[c] # "gone"
      BY Sizes, Leaves
<1>1. ASSUME NEW t \in Conns, ReceiveStep(t)
      PROVE  file'[f] = c
  <2>1. CASE CloseConn(t)
    <3>1. Holds(t) /\ pc[t] \in Leaving /\ file' = [file EXCEPT ![fd[t]] = NoConn] /\ shared' = shared
          BY <2>1 DEF CloseConn, Holds, Leaving, hist
    <3>2. fd[t] # f
          BY <1>0, <3>1 DEF Own
    <3> QED BY <3>1, <3>2, Kinds
  <2>2. CASE ~CloseConn(t)
        BY <1>1, <2>2 DEF ReceiveStep, Begin, Call, RecvEnds, FindEntry, Shift, LoadToDrop, Drop
  <2> QED BY <2>1, <2>2
<1>2. CASE SendStep \/ Type
      BY <1>2 DEF SendStep, Type, Look, SendWaits, SendTag, SendText, LockToDrop, Shift, LoadToDrop, Drop
<1>3. CASE Greet
  <2> DEFINE g == clients[i].fd
             unit == [what |-> "hello", n |-> field]
  <2>1. PICK ret \in {1, -1} : Send(NoConn, g, unit, ret) /\ file' = IF ret = 1 THEN file ELSE [file EXCEPT ![g] = NoConn]
        BY <1>3 DEF Greet
  <2>2. shared' = shared \cup (On(g) \ {cur}) /\ main = "greet"
        BY <1>3 DEF Greet
  <2>3. CASE f = g
    <3>1. c = cur
          BY <2>2, <2>3 DEF On
    <3>2. c \notin shared \cup moved
          BY <2>2
    <3>3. Target(NoConn, g) = c
          BY <2>2, <2>3, <3>1, <3>2 DEF Target, Wait
    <3>4. link[c] # "gone" /\ c \in Conns
          BY <1>0
    <3>5. ret = 1
      <4> HIDE DEF g, unit
      <4> QED BY <2>1, <3>3, <3>4 DEF Send
    <3> QED BY <2>1, <3>5
  <2>4. CASE f # g
        BY <2>1, <2>4, Kinds
  <2> QED BY <2>3, <2>4
<1>4. CASE RecvGreeting
  <2>1. CASE file' = file
        BY <2>1
  <2>2. CASE file' = [file EXCEPT ![tmp[NoConn]] = NoConn] /\ (file[tmp[NoConn]] = cur => link[cur] = "gone")
    <3>1. tmp[NoConn] # f
          BY <1>0, <1>4, <2>2 DEF Own, RecvGreeting
    <3> QED BY <2>2, <3>1, Kinds
  <2> QED BY <1>4, <2>1, <2>2 DEF RecvGreeting
<1>5. CASE Dial
  <2>1. CASE main' = "exited"
        BY <1>5, <2>1 DEF Dial, Step
  <2>2. CASE main' # "exited"
    <3>1. file[clients[i].fd] = Other /\ \A g \in Fds : file'[g] = IF g = clients[i].fd THEN cur ELSE file[g]
          BY <1>5, <2>2, Dialling
    <3> QED BY <1>0, <3>1
  <2> QED BY <2>1, <2>2
<1>6. CASE OpenSocket \/ \E d \in Conns : Accept(d)
  <2>1. PICK g \in Fds : g = LeastFree /\ file[g] = NoConn
        BY <1>6, AOpenSocket, AAccept
  <2>2. \E d : file' = [file EXCEPT ![g] = d]
        BY <1>6, <2>1 DEF OpenSocket, Accept, Opens
  <2>3. g # f
        BY <1>0, <2>1
  <2> QED BY <2>2, <2>3, Kinds
<1>7. CASE \/ RecvCount \/ ListBreaks \/ GreetWaits \/ Spawn \/ ListDone \/ Store \/ StartThread \/ LoadCount \/ StoreCount
           \/ \E d \in Conns : RecvEntry(d) \/ PeerStep(d) \/ Killed(d)
           \/ Quit \/ UNCHANGED vars
  <2>1. file' = file
    <3>1. CASE RecvCount \/ ListBreaks \/ GreetWaits \/ Spawn \/ ListDone \/ Store \/ StartThread \/ LoadCount \/ StoreCount
          BY <3>1 DEF RecvCount, ListBreaks, GreetWaits, Spawn, ListDone, Store, StartThread, LoadCount, StoreCount
    <3>2. CASE \E d \in Conns : RecvEntry(d) \/ PeerStep(d) \/ Killed(d)
          BY <3>2 DEF RecvEntry, PeerStep, Knock, PeerGreets, PeerLeaves, PeerReads, Killed
    <3>3. CASE Quit \/ UNCHANGED vars
          BY <3>3 DEF Quit, vars
    <3> QED BY <1>7, <3>1, <3>2, <3>3
  <2> QED BY <2>1
<1> QED BY <1>1, <1>2, <1>3, <1>4, <1>5, <1>6, <1>7 DEF Next, MainStep

(* Histories only grow.                                                     *)
LEMMA Grows ==
    ASSUME [Next]_vars
    PROVE  shared \subseteq shared' /\ moved \subseteq moved'
<1>1. CASE MainStep
  <2>1. CASE Dial \/ \E c \in Conns : Accept(c)
        BY <2>1 DEF Dial, Accept, Opens, marks
  <2>2. CASE GreetWaits \/ Greet \/ StoreCount \/ OpenSocket \/ \E c \in Conns : RecvEntry(c)
        BY <2>2 DEF GreetWaits, Greet, StoreCount, OpenSocket, RecvEntry, marks
  <2>3. CASE RecvCount \/ ListBreaks \/ Spawn \/ ListDone \/ RecvGreeting \/ Store \/ StartThread \/ LoadCount
        BY <2>3 DEF RecvCount, ListBreaks, Spawn, ListDone, RecvGreeting, Store, StartThread, LoadCount, hist, marks
  <2> QED BY <1>1, <2>1, <2>2, <2>3 DEF MainStep
<1>2. ASSUME NEW t \in Threads, Shift(t) \/ LoadToDrop(t) \/ Drop(t)
      PROVE  shared \subseteq shared' /\ moved \subseteq moved'
      BY <1>2 DEF Shift, LoadToDrop, Drop, hist, marks
<1>3. CASE SendStep \/ Type
  <2>1. CASE Look \/ SendWaits \/ SendTag \/ SendText \/ SendFails \/ LockToDrop \/ Type
        BY <2>1 DEF Look, SendWaits, SendTag, SendText, SendFails, LockToDrop, Type, hist, marks
  <2>2. Sender \in Threads
        BY DEF Threads
  <2> QED BY <1>2, <1>3, <2>1, <2>2 DEF SendStep
<1>4. ASSUME NEW t \in Conns, ReceiveStep(t)
      PROVE  shared \subseteq shared' /\ moved \subseteq moved'
  <2>1. CASE Begin(t) \/ Call(t) \/ RecvEnds(t) \/ CloseConn(t) \/ FindEntry(t)
        BY <2>1 DEF Begin, Call, RecvEnds, CloseConn, FindEntry, hist, marks
  <2>2. t \in Threads
        BY DEF Threads
  <2> QED BY <1>2, <1>4, <2>1, <2>2 DEF ReceiveStep
<1>5. CASE Quit \/ UNCHANGED vars \/ \E c \in Conns : PeerStep(c) \/ Killed(c)
      BY <1>5 DEF Quit, vars, PeerStep, Knock, PeerGreets, PeerLeaves, PeerReads, Killed, hist, marks
<1> QED BY <1>1, <1>3, <1>4, <1>5 DEF Next

(* What main leaves to the send thread, and the other way round.            *)
LEMMA SenderApart ==
    ASSUME AInv, [Next]_vars, ~(SendStep \/ Type)
    PROVE  /\ at'[Sender] = at[Sender] /\ fd'[Sender] = fd[Sender] /\ arg'[Sender] = arg[Sender]
           /\ pc'[Sender] = pc[Sender] \/ ListDone
<1>1. CASE MainStep
  <2>1. CASE GreetWaits \/ Greet
        BY <2>1, Kinds, Sizes DEF GreetWaits, Greet, Waits, Send
  <2>2. CASE Dial \/ OpenSocket \/ StoreCount \/ \E c \in Conns : RecvEntry(c) \/ Accept(c)
        BY <2>2 DEF Dial, OpenSocket, StoreCount, RecvEntry, Accept, thread
  <2>3. CASE RecvCount \/ ListBreaks \/ ListDone \/ RecvGreeting \/ Store \/ LoadCount
        BY <2>3 DEF RecvCount, ListBreaks, ListDone, RecvGreeting, Store, LoadCount, thread
  <2>4. CASE Spawn \/ StartThread
    <3>1. cur \in Conns
          BY <2>4 DEF Spawn, StartThread, AInv, Opening, Making, Dialled, Running
    <3> QED BY <2>4, <3>1, Kinds, Indices DEF Spawn, StartThread, Goto
  <2> QED BY <1>1, <2>1, <2>2, <2>3, <2>4 DEF MainStep
<1>2. ASSUME NEW t \in Conns, ReceiveStep(t)
      PROVE  at'[Sender] = at[Sender] /\ fd'[Sender] = fd[Sender] /\ pc'[Sender] = pc[Sender] /\ arg'[Sender] = arg[Sender]
      BY <1>2, Kinds DEF ReceiveStep, Begin, Call, RecvEnds, CloseConn, FindEntry, Shift, LoadToDrop, Drop, Goto, thread
<1>3. CASE Quit \/ UNCHANGED vars \/ \E c \in Conns : PeerStep(c) \/ Killed(c)
      BY <1>3 DEF Quit, vars, PeerStep, Knock, PeerGreets, PeerLeaves, PeerReads, Killed, thread
<1> QED BY <1>1, <1>2, <1>3 DEF Next

LEMMA MainApart ==
    ASSUME AInv, [Next]_vars, ~MainStep, main' # "exited"
    PROVE  /\ at'[NoConn] = at[NoConn] /\ UNCHANGED <<main, cur, i, field>>
           /\ \A s \in Slots : clients'[s] = clients[s] \/ (\E t \in Threads : Shift(t) /\ pos[t] = s)
<1>1. ASSUME NEW t \in Threads, Shift(t) \/ LoadToDrop(t) \/ Drop(t)
      PROVE  /\ at'[NoConn] = at[NoConn] /\ UNCHANGED <<main, cur, i, field>>
             /\ \A s \in Slots : clients'[s] = clients[s] \/ (Shift(t) /\ pos[t] = s)
      BY <1>1, Indices DEF Shift, LoadToDrop, Drop, mainv, array, thread
<1>2. CASE SendStep \/ Type
  <2>1. CASE Look \/ SendFails \/ LockToDrop \/ Type
        BY <2>1 DEF Look, SendFails, LockToDrop, Type, mainv, array, thread
  <2>2. CASE SendWaits \/ SendTag \/ SendText
        BY <2>2, Kinds DEF SendWaits, SendTag, SendText, Send, Waits, mainv, array
  <2> QED BY <1>1, <1>2, <2>1, <2>2, Kinds DEF SendStep
<1>3. ASSUME NEW t \in Conns, ReceiveStep(t)
      PROVE  /\ at'[NoConn] = at[NoConn] /\ UNCHANGED <<main, cur, i, field>>
             /\ \A s \in Slots : clients'[s] = clients[s] \/ (\E u \in Threads : Shift(u) /\ pos[u] = s)
  <2>1. CASE Begin(t) \/ Call(t) \/ RecvEnds(t) \/ CloseConn(t) \/ FindEntry(t)
        BY <2>1, Kinds DEF Begin, Call, RecvEnds, CloseConn, FindEntry, mainv, array, thread
  <2> QED BY <1>1, <1>3, <2>1, Kinds DEF ReceiveStep
<1>4. CASE Quit \/ UNCHANGED vars \/ \E c \in Conns : PeerStep(c) \/ Killed(c)
      BY <1>4 DEF Quit, vars, PeerStep, Knock, PeerGreets, PeerLeaves, PeerReads, Killed, Step, mainv, array, thread
<1> QED BY <1>2, <1>3, <1>4 DEF Next

(* A connection that a step opens and leaves with one user is opened on a   *)
(* descriptor that nobody holds.                                            *)
LEMMA OpensFree ==
    ASSUME AInv, [Next]_vars, NEW c \in Conns \ shared', NEW f \in Fds, file'[f] = c, file[f] # c
    PROVE  /\ Users(f) = {} /\ pc[c] = "none" /\ pc' = pc
           /\ \/ Dial /\ main' # "exited" /\ c = cur /\ f = clients[i].fd
              \/ Accept(c)
<1>1. CASE Dial
  <2>1. main' # "exited"
        BY <1>1 DEF Dial, Step
  <2>2. c = cur /\ f = clients[i].fd
        BY <1>1, <2>1, Dialling
  <2> QED BY <1>1, <2>1, <2>2, Dialling
<1>2. ASSUME NEW d \in Conns, Accept(d)
      PROVE  Users(f) = {} /\ pc[c] = "none" /\ pc' = pc /\ Accept(c)
  <2>1. PICK g \in Fds : g = LeastFree
        BY <1>2, AAccept
  <2>2. file' = [file EXCEPT ![g] = d] /\ shared' = (IF Users(g) = {} THEN shared ELSE shared \cup {d})
        BY <1>2, <2>1 DEF Accept, Opens
  <2>3. f = g /\ c = d
        BY <2>2, Kinds
  <2> QED BY <1>2, <2>2, <2>3 DEF Accept
<1>3. CASE OpenSocket \/ Greet \/ RecvGreeting
  <2>1. \A g \in Fds : file'[g] \in {file[g], NoConn, Other}
        BY <1>3, Kinds DEF OpenSocket, Greet, RecvGreeting
  <2> QED BY <2>1, Sizes
<1>4. CASE SendStep \/ Type \/ \E t \in Conns : ReceiveStep(t)
      BY <1>4, ThreadMoves, Sizes DEF LeavesToMain
<1>5. CASE RecvCount \/ ListBreaks \/ GreetWaits \/ Spawn \/ ListDone \/ Store \/ StartThread \/ LoadCount \/ StoreCount
      BY <1>5 DEF RecvCount, ListBreaks, GreetWaits, Spawn, ListDone, Store, StartThread, LoadCount, StoreCount
<1>6. CASE \E d \in Conns : RecvEntry(d) \/ PeerStep(d) \/ Killed(d)
      BY <1>6 DEF RecvEntry, PeerStep, Knock, PeerGreets, PeerLeaves, PeerReads, Killed
<1>7. CASE Quit \/ UNCHANGED vars
      BY <1>7 DEF Quit, vars
<1> QED BY <1>1, <1>2, <1>3, <1>4, <1>5, <1>6, <1>7 DEF Next, MainStep

LEMMA WaitNext == AInv /\ Own /\ Wait /\ [Next]_vars => Wait'
<1> SUFFICES ASSUME AInv, Own, Wait, [Next]_vars PROVE Wait'
    OBVIOUS
<1>0. shared \subseteq shared' /\ moved \subseteq moved'
      BY Grows
<1>1. /\ at'[Sender] # NoConn => pc'[Sender] \in {"tag", "text"}
      /\ \A c \in Conns \ shared' : at'[Sender] # NoConn =>
            /\ file'[fd'[Sender]] = c => at'[Sender] = c
            /\ at'[Sender] = c /\ link'[c] # "gone" => file'[fd'[Sender]] = c
  <2>1. CASE SendWaits
        BY <2>1, Kinds DEF SendWaits, Waits
  <2>2. CASE (SendStep \/ Type) /\ ~SendWaits
    <3>1. CASE SendTag \/ SendText
          BY <3>1, Kinds DEF SendTag, SendText, Send
    <3>2. CASE Look \/ SendFails \/ LockToDrop \/ Type \/ Shift(Sender) \/ LoadToDrop(Sender) \/ Drop(Sender)
          BY <3>2 DEF Look, SendFails, LockToDrop, Type, Shift, LoadToDrop, Drop, Wait, thread
    <3> QED BY <2>2, <3>1, <3>2 DEF SendStep
  <2>3. CASE ~(SendStep \/ Type)
    <3>1. at'[Sender] = at[Sender] /\ fd'[Sender] = fd[Sender] /\ (pc'[Sender] = pc[Sender] \/ ListDone)
          BY <2>3, SenderApart
    <3> SUFFICES ASSUME at[Sender] # NoConn
                 PROVE  /\ pc'[Sender] \in {"tag", "text"}
                        /\ \A c \in Conns \ shared' :
                              /\ file'[fd[Sender]] = c => at[Sender] = c
                              /\ at[Sender] = c /\ link'[c] # "gone" => file'[fd[Sender]] = c
        BY <3>1
    <3>2. pc[Sender] \in {"tag", "text"} /\ fd[Sender] \in Fds /\ main # "greet"
          BY Kinds, Greeting DEF Wait
    <3>3. ~ListDone
          BY <3>2 DEF ListDone, AInv, Reading, Listing
    <3>4. Sender \in Users(fd[Sender])
          BY <3>2 DEF Users
    <3>5. ASSUME NEW c \in Conns \ shared', file'[fd[Sender]] = c
          PROVE  at[Sender] = c
          BY <1>0, <3>2, <3>4, <3>5, OpensFree DEF Wait
    <3>6. ASSUME NEW c \in Conns \ shared', at[Sender] = c, link'[c] # "gone"
          PROVE  file'[fd[Sender]] = c
      <4>1. ~SendFails
            BY <2>3 DEF SendStep
      <4>2. link[c] # "gone"
            BY <3>6, Leaves
      <4> QED BY <1>0, <3>2, <3>6, <4>1, <4>2, StaysOpen DEF Wait
    <3> QED BY <3>1, <3>2, <3>3, <3>5, <3>6
  <2> QED BY <2>1, <2>2, <2>3
<1>2. /\ at'[NoConn] # NoConn /\ Running' => main' = "greet" /\ at'[NoConn] \in shared' \cup {cur'}
      /\ \A c \in Conns \ (shared' \cup moved') : main' = "greet" /\ cur' = c =>
            /\ at'[NoConn] \in {NoConn, c}
            /\ file'[clients'[i'].fd] \in {c, NoConn}
            /\ link'[c] # "gone" => file'[clients'[i'].fd] = c
  <2>1. CASE Dial
    <3>1. CASE main' = "exited"
          BY <3>1 DEF Running
    <3>2. CASE main' # "exited"
      <4>1. /\ clients[i].fd \in Fds /\ UNCHANGED <<cur, i, clients, at>> /\ Running /\ main = "connect"
            /\ file'[clients[i].fd] = cur
            BY <2>1, <3>2, Dialling DEF array, thread
      <4>2. at[NoConn] = NoConn
            BY <4>1 DEF Wait
      <4> QED BY <4>1, <4>2
    <3> QED BY <3>1, <3>2
  <2>2. CASE main = "greet" /\ main' = "greet"
    <3>1. /\ cur \in Conns /\ i \in Slots /\ clients[i].fd \in Fds /\ ~(SendStep \/ Type) /\ UNCHANGED <<cur, i>>
      <4>1. cur \in Conns /\ i \in Slots /\ clients[i].fd \in Fds /\ pc[Sender] = "none"
            BY <2>2, Greeting
      <4>2. ~(SendStep \/ Type)
            BY <4>1 DEF SendStep, Type, Look, SendWaits, SendTag, SendText, SendFails, LockToDrop, Shift, LoadToDrop, Drop
      <4>3. MainStep => Greet \/ GreetWaits
            BY <2>2 DEF MainStep, RecvCount, ListBreaks, OpenSocket, Dial, Spawn, ListDone, RecvGreeting,
                        Store, StartThread, LoadCount, StoreCount, RecvEntry, Accept
      <4>4. Greet \/ GreetWaits => UNCHANGED <<cur, i>>
            BY DEF Greet, GreetWaits, mainv
      <4>5. ~MainStep => UNCHANGED <<cur, i>>
            BY <2>2, MainApart
      <4> QED BY <4>1, <4>2, <4>3, <4>4, <4>5
    <3>2. CASE MainStep
      <4>1. Greet \/ GreetWaits
            BY <2>2, <3>2 DEF MainStep, RecvCount, ListBreaks, OpenSocket, Dial, Spawn, ListDone, RecvGreeting,
                        Store, StartThread, LoadCount, StoreCount, RecvEntry, Accept
      <4>2. clients' = clients
            BY <4>1 DEF Greet, GreetWaits, array
      <4>3. at'[NoConn] \in {NoConn, file[clients[i].fd]} /\ shared' = shared \cup (On(clients[i].fd) \ {cur})
            BY <4>1, Kinds DEF Greet, GreetWaits, Send, Waits
      <4>4. at'[NoConn] # NoConn => file[clients[i].fd] \in Conns
            BY <4>1, <4>3, Kinds DEF Greet, GreetWaits, Send, Waits
      <4>5. at'[NoConn] # NoConn => at'[NoConn] \in shared' \cup {cur}
            BY <4>3, <4>4 DEF On
      <4>6. \A g \in Fds : file'[g] \in {file[g], NoConn}
            BY <4>1, Kinds DEF Greet, GreetWaits
      <4>7. ASSUME cur \notin shared' \cup moved'
            PROVE  /\ at'[NoConn] \in {NoConn, cur}
                   /\ file'[clients[i].fd] \in {cur, NoConn}
                   /\ link'[cur] # "gone" => file'[clients[i].fd] = cur
        <5>1. file[clients[i].fd] \in {cur, NoConn} /\ (link[cur] # "gone" => file[clients[i].fd] = cur)
              BY <1>0, <2>2, <3>1, <4>7 DEF Wait
        <5>2. link'[cur] # "gone" => file'[clients[i].fd] = cur
          <6>1. ~SendFails
                BY <3>1 DEF SendStep
          <6> QED BY <1>0, <3>1, <4>7, <5>1, <6>1, Leaves, StaysOpen
        <5> QED BY <3>1, <4>3, <4>4, <4>6, <5>1, <5>2, Sizes
      <4> QED BY <2>2, <3>1, <4>2, <4>5, <4>7
    <3>3. CASE ~MainStep
      <4>1. at'[NoConn] = at[NoConn] /\ (clients'[i] = clients[i] \/ \E t \in Threads : Shift(t) /\ pos[t] = i)
            BY <2>2, <3>1, <3>3, MainApart
      <4>2. (\E t \in Threads : Shift(t) /\ pos[t] = i) => cur \in moved'
            BY <2>2, <3>1 DEF Shift
      <4>3. at[NoConn] # NoConn => at[NoConn] \in shared \cup {cur}
            BY <2>2 DEF Wait, Running
      <4>4. \A g \in Fds : file'[g] \in {file[g], NoConn}
        <5>1. CASE \E t \in Conns : ReceiveStep(t)
              BY <5>1, ThreadMoves DEF LeavesToMain
        <5>2. CASE ~ \E t \in Conns : ReceiveStep(t)
              BY <3>1, <3>3, <5>2 DEF Next, vars, Quit, Killed, PeerStep, Knock, PeerGreets, PeerLeaves, PeerReads
        <5> QED BY <5>1, <5>2
      <4>5. ASSUME cur \notin shared' \cup moved'
            PROVE  /\ at'[NoConn] \in {NoConn, cur}
                   /\ file'[clients'[i].fd] \in {cur, NoConn}
                   /\ link'[cur] # "gone" => file'[clients'[i].fd] = cur
        <5>1. /\ file[clients[i].fd] \in {cur, NoConn} /\ (link[cur] # "gone" => file[clients[i].fd] = cur)
              /\ at[NoConn] \in {NoConn, cur}
              BY <1>0, <2>2, <3>1, <4>5 DEF Wait
        <5>2. link'[cur] # "gone" => file'[clients[i].fd] = cur
          <6>1. ~SendFails
                BY <3>1 DEF SendStep
          <6> QED BY <1>0, <3>1, <4>5, <5>1, <6>1, Leaves, StaysOpen
        <5>3. clients'[i] = clients[i]
              BY <4>1, <4>2, <4>5
        <5> QED BY <3>1, <4>1, <4>4, <5>1, <5>2, <5>3
      <4> QED BY <1>0, <2>2, <3>1, <4>1, <4>3, <4>5
    <3> QED BY <3>2, <3>3
  <2>3. CASE main' # "greet"
    <3>1. CASE MainStep
      <4>1. CASE Greet
        <5>1. at' = [at EXCEPT ![NoConn] = NoConn]
              BY <4>1 DEF Greet, Send
        <5>2. at'[NoConn] = NoConn
              BY <5>1, Kinds
        <5> QED BY <2>3, <5>2
      <4>2. CASE ~Greet
        <5>1. ~GreetWaits /\ (~ListBreaks => main \notin {"greet", "exited"})
              BY <2>3, <3>1, <4>2 DEF GreetWaits, mainv, MainStep, RecvCount, OpenSocket, Dial, Spawn, ListDone, RecvGreeting,
                         Store, StartThread, LoadCount, StoreCount, RecvEntry, Accept
        <5>2. at' = at
              BY <3>1, <4>2, <5>1 DEF MainStep, RecvCount, ListBreaks, OpenSocket, Dial, Spawn, ListDone, RecvGreeting,
                         Store, StartThread, LoadCount, StoreCount, RecvEntry, Accept, thread
        <5>3. ListBreaks => ~Running'
              BY DEF ListBreaks, Step, Running
        <5> QED BY <2>3, <5>1, <5>2, <5>3 DEF Wait, Running
      <4> QED BY <4>1, <4>2
    <3>2. CASE ~MainStep
      <4>1. main' # "exited" => at'[NoConn] = at[NoConn] /\ main' = main
            BY <3>2, MainApart
      <4> QED BY <2>3, <4>1 DEF Wait, Running
    <3> QED BY <2>3, <3>1, <3>2
  <2>4. CASE main # "greet" /\ main' = "greet" /\ ~Dial
    <3>1. CASE MainStep
          BY <2>4, <3>1 DEF MainStep, RecvCount, ListBreaks, OpenSocket, GreetWaits, Greet, Spawn, ListDone, RecvGreeting,
                         Store, StartThread, LoadCount, StoreCount, RecvEntry, Accept, Step, mainv
    <3> QED BY <2>4, <3>1, MainApart
  <2> QED BY <2>1, <2>2, <2>3, <2>4
<1> QED BY <1>1, <1>2 DEF Wait

LEMMA WaitInit == Init => Wait
BY Sizes DEF Init, Wait, Threads

LEMMA OwnInvariant == Spec => [](Own /\ Wait)
BY OwnInit, OwnNext, WaitInit, WaitNext, AInvariant, PTL DEF Spec

-----------------------------------------------------------------------------
(* Whole messages.  What a connection with one user has been sent: main     *)
(* sends the fields of its HELLO one by one before it has a thread, and a   *)
(* message is begun exactly while the send thread is between its tag and    *)
(* its text.                                                                *)

Odd(c) == Len(out[c]) > Hellos(c) /\ (Len(out[c]) - Hellos(c)) % 2 = 1

Shape(c) ==
    /\ \A n \in DOMAIN out[c] :
          IF n <= Hellos(c) THEN out[c][n] = [what |-> "hello", n |-> n]
          ELSE out[c][n].what = IF (n - Hellos(c)) % 2 = 1 THEN "tag" ELSE "text"
    /\ \A m, n \in DOMAIN out[c] :
          m < n /\ out[c][m].what = "text" /\ out[c][n].what = "text" => out[c][m].n <= out[c][n].n
    /\ \A n \in DOMAIN out[c] : out[c][n].what = "text" => out[c][n].n <= posted

Progress(c) ==
    /\ Running /\ pc[c] = "none" /\ ~(main \in Dialled /\ cur = c) => out[c] = <<>>
    /\ main = "greet" /\ cur = c /\ link[c] # "gone" => Len(out[c]) = field - 1
    /\ (pc[c] # "none" \/ (main = "spawn" /\ cur = c)) /\ link[c] # "gone" => Len(out[c]) >= Hellos(c)

Begun(c) == \A f \in Fds : file[f] = c /\ link[c] # "gone" => (Odd(c) <=> pc[Sender] = "text" /\ fd[Sender] = f)

WInv ==
    /\ main \in {"greeting", "store", "start"} => cur \notin listed
    /\ Running /\ main # "greet" => field = 1
    /\ \A c \in Conns \ (shared \cup moved) : Shape(c) /\ Progress(c) /\ Begun(c)

LEMMA Parity ==
    ASSUME NEW k \in Nat, NEW g \in Nat
    PROVE  ((k - g) % 2 = 1) <=> ~((k + 1 - g) % 2 = 1)
<1>1. \A j \in Int : (j % 2 = 1) <=> ~((j + 1) % 2 = 1)
      OBVIOUS
<1>2. k - g \in Int /\ (k - g) + 1 = k + 1 - g
      OBVIOUS
<1> QED BY <1>1, <1>2

LEMMA Sent ==
    ASSUME TypeOK, NEW c \in Conns
    PROVE  /\ out[c] \in Seq(Units) /\ Len(out[c]) \in Nat /\ DOMAIN out[c] = 1 .. Len(out[c])
           /\ \A n \in DOMAIN out[c] : out[c][n].n \in Nat
           /\ posted \in Nat /\ field \in 1 .. FIELDS /\ FIELDS \in Nat
           /\ Hellos(c) \in Nat /\ (out[c] = <<>> <=> Len(out[c]) = 0)
<1>1. out[c] \in Seq(Units) /\ posted \in Nat /\ field \in 1 .. FIELDS /\ FIELDS \in Nat
      BY Posted, MeshClientAssumption DEF TypeOK
<1>2. \A n \in DOMAIN out[c] : out[c][n] \in Units
      BY <1>1
<1>3. \A u \in Units : u.n \in Nat
      BY DEF Units
<1>4. Hellos(c) \in Nat
      BY <1>1 DEF Hellos
<1> QED BY <1>1, <1>2, <1>3, <1>4

LEMMA ShapeKept ==
    ASSUME TypeOK, NEW c \in Conns, Shape(c), out'[c] = out[c], UNCHANGED listed,
           posted' \in Nat, posted <= posted'
    PROVE  Shape(c)' /\ (Odd(c)' <=> Odd(c))
<1>1. Hellos(c)' = Hellos(c)
      BY DEF Hellos
<1> QED BY <1>1, Sent DEF Shape, Odd

(* A field of the HELLO goes behind those before it, a message begins       *)
(* behind whole ones, and its text goes behind its tag.                     *)
LEMMA ShapeAppend ==
    ASSUME TypeOK, NEW c \in Conns, Shape(c), UNCHANGED <<listed, posted>>,
           NEW unit \in Units, out'[c] = Append(out[c], unit),
           \/ unit.what = "tag" /\ ~Odd(c) /\ Len(out[c]) >= Hellos(c)
           \/ unit.what = "text" /\ unit.n = posted /\ Odd(c)
           \/ unit = [what |-> "hello", n |-> Len(out[c]) + 1] /\ Len(out[c]) < Hellos(c)
    PROVE  Shape(c)' /\ (Odd(c)' <=> unit.what = "tag") /\ Len(out'[c]) = Len(out[c]) + 1
<1>1. PICK L \in Nat : L = Len(out[c])
      BY Sent
<1>2. PICK h \in Nat : h = Hellos(c)
      BY Sent
<1>3. /\ out[c] \in Seq(Units) /\ DOMAIN out[c] = 1 .. L /\ posted \in Nat
      /\ DOMAIN out'[c] = 1 .. L + 1 /\ Len(out'[c]) = L + 1
      /\ \A n \in 1 .. L : out'[c][n] = out[c][n] /\ out[c][n].n \in Nat
      /\ out'[c][L + 1] = unit
      BY <1>1, Sent
<1>4. Hellos(c)' = h
      BY <1>2 DEF Hellos
<1> DEFINE odd(n) == (n - h) % 2 = 1
<1>5. Odd(c) <=> L > h /\ odd(L)
      BY <1>1, <1>2 DEF Odd
<1>6. Odd(c)' <=> L + 1 > h /\ odd(L + 1)
      BY <1>3, <1>4 DEF Odd
<1>7. odd(L) <=> ~odd(L + 1)
      BY Parity
<1>8. ~odd(h)
      BY <1>2
<1>9. \A n \in DOMAIN out'[c] : n \in 1 .. L \/ n = L + 1
      BY <1>3
<1>10. \A n \in 1 .. L : IF n <= h THEN out[c][n] = [what |-> "hello", n |-> n]
                         ELSE out[c][n].what = IF odd(n) THEN "tag" ELSE "text"
       BY <1>2, <1>3 DEF Shape
<1>11. \A n \in 1 .. L : out[c][n].what = "text" => out[c][n].n <= posted
       BY <1>3 DEF Shape
<1>12. \A m, n \in 1 .. L :
          m < n /\ out[c][m].what = "text" /\ out[c][n].what = "text" => out[c][m].n <= out[c][n].n
       BY <1>3 DEF Shape
<1>13. /\ IF L + 1 <= h THEN unit = [what |-> "hello", n |-> L + 1]
          ELSE unit.what = IF odd(L + 1) THEN "tag" ELSE "text"
       /\ unit.what = "text" => unit.n = posted
       /\ Odd(c)' <=> unit.what = "tag"
  <2>1. CASE unit.what = "tag" /\ ~Odd(c) /\ L >= h
    <3>1. ~odd(L)
      <4>1. L = h \/ L > h
            BY <2>1
      <4> HIDE DEF odd
      <4> QED BY <1>5, <1>8, <2>1, <4>1
    <3>2. L + 1 > h /\ ~(L + 1 <= h)
          BY <2>1
    <3> HIDE DEF odd
    <3> QED BY <1>6, <1>7, <2>1, <3>1, <3>2
  <2>2. CASE unit.what = "text" /\ unit.n = posted /\ Odd(c)
    <3>1. odd(L) /\ L > h
          BY <1>5, <2>2
    <3>2. ~(L + 1 <= h)
          BY <3>1
    <3> HIDE DEF odd
    <3> QED BY <1>6, <1>7, <2>2, <3>1, <3>2
  <2>3. CASE unit = [what |-> "hello", n |-> L + 1] /\ L < h
    <3>1. L + 1 <= h /\ ~(L + 1 > h)
          BY <2>3
    <3> HIDE DEF odd
    <3> QED BY <1>6, <2>3, <3>1
  <2> QED BY <1>1, <1>2, <2>1, <2>2, <2>3
<1>14. \A n \in DOMAIN out'[c] : IF n <= h THEN out'[c][n] = [what |-> "hello", n |-> n]
                                ELSE out'[c][n].what = IF odd(n) THEN "tag" ELSE "text"
  <2> HIDE DEF odd
  <2> QED BY <1>3, <1>9, <1>10, <1>13
<1>15. \A n \in DOMAIN out'[c] : out'[c][n].what = "text" => out'[c][n].n <= posted
       BY <1>3, <1>9, <1>11, <1>13
<1>16. \A m, n \in DOMAIN out'[c] :
          m < n /\ out'[c][m].what = "text" /\ out'[c][n].what = "text" => out'[c][m].n <= out'[c][n].n
  <2> SUFFICES ASSUME NEW k \in DOMAIN out'[c], NEW n \in DOMAIN out'[c],
                      k < n, out'[c][k].what = "text", out'[c][n].what = "text"
               PROVE  out'[c][k].n <= out'[c][n].n
      OBVIOUS
  <2>1. k \in 1 .. L
        BY <1>3
  <2>2. CASE n \in 1 .. L
        BY <1>3, <1>12, <2>1, <2>2
  <2>3. CASE n = L + 1
        BY <1>3, <1>13, <1>15, <2>1, <2>3
  <2> QED BY <1>9, <2>2, <2>3
<1> QED BY <1>1, <1>3, <1>4, <1>13, <1>14, <1>15, <1>16 DEF Shape

(* A step that sends nothing.                                               *)
LEMMA WQuiet ==
    ASSUME AInv, WInv, [Next]_vars, UNCHANGED <<out, listed>>, posted' \in Nat, posted <= posted',
           pc'[Sender] = "text" <=> pc[Sender] = "text",
           pc[Sender] = "text" => fd'[Sender] = fd[Sender],
           NEW c \in Conns \ (shared' \cup moved')
    PROVE  Shape(c)' /\ Begun(c)'
<1>1. Shape(c) /\ Progress(c) /\ Begun(c)
      BY Grows DEF WInv
<1>2. Shape(c)' /\ (Odd(c)' <=> Odd(c))
  <2>1. TypeOK
        BY DEF AInv
  <2> QED BY <1>1, <2>1, ShapeKept
<1>3. ASSUME NEW f \in Fds, file'[f] = c, link'[c] # "gone"
      PROVE  Odd(c) <=> pc[Sender] = "text" /\ fd[Sender] = f
  <2>1. CASE file[f] = c
        BY <1>1, <1>3, <2>1, Leaves DEF Begun
  <2>2. CASE file[f] # c
    <3>1. Users(f) = {} /\ pc[c] = "none" /\ main \in {"connect", "accept"}
          BY <1>3, <2>2, OpensFree DEF Dial, Accept
    <3>2. ~(pc[Sender] = "text" /\ fd[Sender] = f)
          BY <3>1 DEF Users
    <3>3. out[c] = <<>>
          BY <1>1, <3>1 DEF Progress, Running, Dialled
    <3>4. Len(out[c]) = 0 /\ Hellos(c) \in Nat
      <4>1. TypeOK
            BY DEF AInv
      <4> QED BY <3>3, <4>1, Sent
    <3> QED BY <3>2, <3>4 DEF Odd
  <2> QED BY <2>1, <2>2
<1> QED BY <1>2, <1>3 DEF Begun

(* What a thread, a peer or the end of the process leaves to the greeting.  *)
LEMMA WThread ==
    ASSUME AInv, WInv, [Next]_vars, UNCHANGED <<out, listed>>, posted' \in Nat, posted <= posted',
           pc'[Sender] = "text" <=> pc[Sender] = "text",
           pc[Sender] = "text" => fd'[Sender] = fd[Sender],
           \A t \in Conns : pc'[t] = "none" <=> pc[t] = "none",
           main' = "exited" \/ UNCHANGED <<main, cur, field>>
    PROVE  WInv'
<1>1. ASSUME NEW c \in Conns \ (shared' \cup moved')
      PROVE  Shape(c)' /\ Progress(c)' /\ Begun(c)'
  <2>1. Progress(c)
        BY Grows DEF WInv
  <2>2. Hellos(c)' = Hellos(c) /\ (link'[c] # "gone" => link[c] # "gone")
        BY Leaves DEF Hellos
  <2>3. /\ Running' /\ pc'[c] = "none" /\ ~(main' \in Dialled /\ cur' = c) => out'[c] = <<>>
        /\ main' = "greet" /\ cur' = c /\ link'[c] # "gone" => Len(out'[c]) = field' - 1
        BY <2>1, <2>2 DEF Progress, Running
  <2>4. (pc'[c] # "none" \/ (main' = "spawn" /\ cur' = c)) /\ link'[c] # "gone" => Len(out'[c]) >= Hellos(c)
        BY <2>1, <2>2 DEF Progress
  <2> QED BY <2>2, <2>3, <2>4, WQuiet DEF Progress
<1> QED BY <1>1 DEF WInv, Running

LEMMA WReceive ==
    ASSUME AInv, WInv, NEW t \in Conns, ReceiveStep(t)
    PROVE  WInv'
<1>1. t \in Threads /\ LeavesToMain /\ posted \in Nat /\ Next
  <2>1. TypeOK
        BY DEF AInv
  <2> QED BY <2>1, Posted, Kinds, ThreadMoves DEF Next
<1>2. UNCHANGED <<out, posted, field>> /\ pc'[Sender] = pc[Sender] /\ fd'[Sender] = fd[Sender]
  <2>1. CASE Begin(t) \/ Call(t) \/ RecvEnds(t) \/ CloseConn(t)
        BY <1>1, <2>1, Kinds DEF Begin, Call, RecvEnds, CloseConn, Goto, net, mainv, thread, hist
  <2>2. CASE FindEntry(t) \/ LoadToDrop(t)
        BY <1>1, <2>2, Kinds DEF FindEntry, LoadToDrop, Goto, net, mainv, thread
  <2>3. CASE Shift(t) \/ Drop(t)
        BY <1>1, <2>3, Kinds DEF Shift, Drop, Goto, net, mainv
  <2> QED BY <2>1, <2>2, <2>3 DEF ReceiveStep
<1>3. UNCHANGED <<main, cur, listed>> /\ \A u \in Conns : pc'[u] = "none" <=> pc[u] = "none"
      BY <1>1, Kinds DEF LeavesToMain
<1> QED BY <1>1, <1>2, <1>3, WThread

(* Where the send thread sends, if it does not send to a connection that    *)
(* has gone or had several users.                                           *)
LEMMA TargetIs ==
    ASSUME Wait, NEW c \in Conns \ shared, link[c] # "gone"
    PROVE  Target(Sender, fd[Sender]) = c <=> file[fd[Sender]] = c
BY DEF Wait, Target

(* A unit that the send thread sends: a tag begins a message, a text ends   *)
(* the one that was begun on the same descriptor.                           *)
LEMMA WSends ==
    ASSUME AInv, Wait, WInv, NEW ret \in {1, -1}, NEW unit \in Units, Send(Sender, fd[Sender], unit, ret),
           UNCHANGED <<listed, link, file, main, cur, field, posted, shared, moved, fd>>,
           Running, pc[Sender] # "none", \A c \in Conns : pc'[c] = pc[c],
           \/ pc[Sender] = "tag" /\ unit.what = "tag" /\ pc'[Sender] = IF ret = 1 THEN "text" ELSE "fail"
           \/ pc[Sender] = "text" /\ unit.what = "text" /\ unit.n = posted /\ pc'[Sender] # "text"
    PROVE  WInv'
<1> DEFINE f == fd[Sender]
<1>1. TypeOK /\ f \in Fds /\ Sender \in Threads \cup {NoConn}
      BY Kinds DEF AInv
<1>2. /\ \A c \in Conns : out'[c] = IF Target(Sender, f) = c /\ link[c] = "up" THEN Append(out[c], unit) ELSE out[c]
      /\ Target(Sender, f) \in Conns /\ link[Target(Sender, f)] = "up" => ret = 1
      BY <1>1, SendType
<1>3. posted \in Nat
      BY <1>1, Posted
<1>4. main \notin Listing
      BY DEF AInv, Reading
<1>5. ASSUME NEW c \in Conns \ (shared \cup moved)
      PROVE  Shape(c)' /\ Progress(c)' /\ Begun(c)'
  <2>1. c \in Conns \ shared /\ Shape(c) /\ Progress(c) /\ Begun(c) /\ Hellos(c)' = Hellos(c)
        BY <1>5 DEF WInv, Hellos
  <2>2. CASE file[f] = c /\ link[c] = "up"
    <3>1. Target(Sender, f) = c
          BY <2>1, <2>2, TargetIs
    <3>2. ret = 1 /\ out'[c] = Append(out[c], unit)
          BY <1>2, <2>2, <3>1
    <3>3. Odd(c) <=> pc[Sender] = "text"
          BY <1>1, <2>1, <2>2 DEF Begun
    <3>4. Len(out[c]) \in Nat /\ Hellos(c) \in Nat
          BY <1>1, Sent
    <3>5. (pc[c] # "none" \/ (main \in Dialled /\ cur = c)) /\ Len(out[c]) >= Hellos(c)
      <4>1. pc[c] # "none" \/ (main \in Dialled /\ cur = c)
            BY <1>1, <2>2 DEF AInv, Opening
      <4>2. CASE pc[c] # "none"
            BY <2>1, <2>2, <4>2 DEF Progress
      <4>3. CASE main \in Dialled /\ cur = c
        <5>1. c \notin listed
              BY <1>4, <4>3 DEF WInv, Dialled, Listing
        <5> QED BY <3>4, <4>1, <5>1 DEF Hellos
      <4> QED BY <4>1, <4>2, <4>3
    <3>6. Shape(c)' /\ (Odd(c)' <=> unit.what = "tag") /\ Len(out'[c]) = Len(out[c]) + 1
          BY <1>1, <2>1, <3>2, <3>3, <3>5, ShapeAppend
    <3>7. Begun(c)'
      <4>1. \A g \in Fds : file[g] = c => g = f
            BY <1>1, <2>2 DEF AInv, Opening
      <4> QED BY <3>2, <3>6, <4>1 DEF Begun
    <3>8. Progress(c)'
      <4>1. Len(out'[c]) >= Hellos(c)
            BY <3>4, <3>5, <3>6
      <4>2. main' # "greet" /\ (pc'[c] = "none" => main' \in Dialled /\ cur' = c)
            BY <1>4, <3>5 DEF Listing
      <4> QED BY <2>1, <4>1, <4>2 DEF Progress
    <3> QED BY <3>6, <3>7, <3>8
  <2>3. CASE ~(file[f] = c /\ link[c] = "up")
    <3>1. out'[c] = out[c]
      <4>1. link[c] = "up" => link[c] # "gone"
            OBVIOUS
      <4> QED BY <1>2, <2>1, <2>3, <4>1, TargetIs
    <3>2. Shape(c)' /\ (Odd(c)' <=> Odd(c))
          BY <1>1, <1>3, <2>1, <3>1, ShapeKept
    <3>3. Progress(c)'
          BY <2>1, <3>1 DEF Progress, Running
    <3>4. \A g \in Fds : file[g] = c /\ link[c] # "gone" => g # f /\ link[c] = "up"
      <4>1. \A g \in Fds : file[g] = c => link[c] # "new"
            BY DEF AInv, Strangers
      <4>2. link[c] \in {"new", "up", "gone"}
            BY <1>1 DEF TypeOK
      <4> QED BY <2>3, <4>1, <4>2
    <3>5. Begun(c)'
          BY <2>1, <3>2, <3>4 DEF Begun
    <3> QED BY <3>2, <3>3, <3>5
  <2> QED BY <2>2, <2>3
<1> QED BY <1>5 DEF WInv, Running

LEMMA WSend ==
    ASSUME AInv, Wait, WInv, SendStep \/ Type
    PROVE  WInv'
<1>1. LeavesToMain /\ posted \in Nat /\ TypeOK /\ Running /\ Next
  <2>1. TypeOK
        BY DEF AInv
  <2> QED BY <2>1, Posted, ThreadMoves DEF LeavesToMain, Next
<1>2. UNCHANGED <<main, cur, listed, link>> /\ \A u \in Conns : pc'[u] = "none" <=> pc[u] = "none"
      BY <1>1, Kinds DEF LeavesToMain
<1>3. CASE Look \/ SendFails \/ LockToDrop \/ Type \/ SendWaits
  <2>1. CASE Look \/ SendFails \/ LockToDrop \/ Type
    <3>1. UNCHANGED <<out, field>> /\ posted' \in Nat /\ posted <= posted' /\ pc[Sender] # "text" /\ pc'[Sender] # "text"
          BY <1>1, <2>1, Kinds DEF Look, SendFails, LockToDrop, Type, Goto, net, mainv
    <3> QED BY <1>1, <1>2, <3>1, WThread
  <2>2. CASE SendWaits
    <3>1. UNCHANGED <<out, field, posted, pc, fd>>
          BY <2>2 DEF SendWaits, Waits, mainv
    <3> QED BY <1>1, <1>2, <3>1, WThread
  <2> QED BY <1>3, <2>1, <2>2
<1>4. CASE Shift(Sender) \/ LoadToDrop(Sender) \/ Drop(Sender)
  <2>1. UNCHANGED <<out, posted, field>> /\ pc[Sender] # "text" /\ pc'[Sender] # "text"
        BY <1>1, <1>4, Kinds DEF Shift, LoadToDrop, Drop, Goto, net, mainv
  <2> QED BY <1>1, <1>2, <2>1, WThread
<1>5. CASE SendTag
  <2> DEFINE unit == [what |-> "tag", n |-> 0]
  <2>1. PICK ret \in {1, -1} : Send(Sender, fd[Sender], unit, ret) /\ Goto(Sender, IF ret = 1 THEN "text" ELSE "fail")
        BY <1>5 DEF SendTag
  <2>2. unit \in Units /\ unit.what = "tag"
        BY DEF Units
  <2>3. /\ pc[Sender] = "tag" /\ UNCHANGED <<listed, link, file, main, cur, field, posted, shared, moved, fd>>
        BY <1>5 DEF SendTag, env, mainv, hist, marks
  <2>4. pc'[Sender] = (IF ret = 1 THEN "text" ELSE "fail") /\ \A c \in Conns : pc'[c] = pc[c]
        BY <2>1, Kinds DEF Goto
  <2> HIDE DEF unit
  <2> QED BY <1>1, <2>1, <2>2, <2>3, <2>4, WSends
<1>6. CASE SendText
  <2> DEFINE unit == [what |-> "text", n |-> posted]
  <2>1. PICK ret \in {1, -1} : Send(Sender, fd[Sender], unit, ret) /\ Goto(Sender, IF ret = 1 THEN "loop" ELSE "fail")
        BY <1>6 DEF SendText
  <2>2. unit \in Units /\ unit.what = "text" /\ unit.n = posted
        BY <1>1 DEF Units, TypeOK
  <2>3. /\ pc[Sender] = "text" /\ UNCHANGED <<listed, link, file, main, cur, field, posted, shared, moved, fd>>
        BY <1>6 DEF SendText, env, mainv, hist, marks
  <2>4. pc'[Sender] # "text" /\ \A c \in Conns : pc'[c] = pc[c]
        BY <2>1, Kinds DEF Goto
  <2> HIDE DEF unit
  <2> QED BY <1>1, <2>1, <2>2, <2>3, <2>4, WSends
<1> QED BY <1>3, <1>4, <1>5, <1>6 DEF SendStep

(* A field of a HELLO.                                                      *)
LEMMA WGreet ==
    ASSUME AInv, Own, Wait, WInv, Greet
    PROVE  WInv'
<1> DEFINE f == clients[i].fd
           unit == [what |-> "hello", n |-> field]
<1>1. PICK ret \in {1, -1} : Send(NoConn, f, unit, ret) /\ file' = IF ret = 1 THEN file ELSE [file EXCEPT ![f] = NoConn]
      BY DEF Greet
<1>2. /\ main = "greet" /\ UNCHANGED <<listed, link, cur, pc, fd, posted, moved>>
      /\ shared' = shared \cup (On(f) \ {cur})
      /\ field' = (IF field < FIELDS THEN field + 1 ELSE 1)
      /\ main' = (IF field < FIELDS THEN "greet" ELSE "spawn")
      BY DEF Greet, Step, env, marks
<1>3. TypeOK /\ unit \in Units /\ posted \in Nat /\ unit.what = "hello" /\ field \in 1 .. FIELDS /\ FIELDS \in Nat
  <2>1. TypeOK
        BY DEF AInv
  <2>2. field \in 1 .. FIELDS /\ FIELDS \in Nat
        BY <2>1, MeshClientAssumption DEF TypeOK
  <2> QED BY <2>1, <2>2, Posted DEF Units
<1>4. cur \in Conns /\ cur \in listed /\ pc[cur] = "none" /\ pc[Sender] = "none" /\ Running /\ f \in Fds
      BY <1>2, Greeting
<1>5. \A c \in Conns : out'[c] = IF Target(NoConn, f) = c /\ link[c] = "up" THEN Append(out[c], unit) ELSE out[c]
  <2> HIDE DEF f, unit
  <2> QED BY <1>1, <1>3, SendType
<1>6. \A g \in Fds : file'[g] \in {file[g], NoConn}
      BY <1>1, Kinds
<1>7. ASSUME NEW c \in Conns \ (shared' \cup moved')
      PROVE  Shape(c)' /\ Progress(c)' /\ Begun(c)'
  <2>1. c \in Conns \ (shared \cup moved) /\ Shape(c) /\ Progress(c) /\ Begun(c) /\ Hellos(c)' = Hellos(c)
        BY <1>2 DEF WInv, Hellos
  <2>2. Target(NoConn, f) = c => c = cur
        BY <1>2, <1>4, <2>1, Sizes DEF Wait, Target, On
  <2>3. \A g \in Fds : file[g] = c /\ link[c] # "gone" => ~Odd(c)
        BY <1>4, <2>1 DEF Begun
  <2>4. CASE c = cur /\ link[c] = "up"
    <3>1. Target(NoConn, f) = c
          BY <1>2, <1>4, <2>1, <2>4, Sizes DEF Wait, Target
    <3>2. out'[c] = Append(out[c], unit)
          BY <1>5, <2>4, <3>1
    <3>3. Hellos(c) = FIELDS /\ Len(out[c]) = field - 1 /\ Len(out[c]) \in Nat
      <4>1. Len(out[c]) \in Nat
            BY <1>3, Sent
      <4> QED BY <1>2, <1>4, <2>1, <2>4, <4>1 DEF Hellos, Progress
    <3>4. unit = [what |-> "hello", n |-> Len(out[c]) + 1] /\ Len(out[c]) < Hellos(c)
          BY <1>3, <3>3
    <3>5. Shape(c)' /\ ~Odd(c)' /\ Len(out'[c]) = field
      <4> HIDE DEF unit
      <4>1. UNCHANGED <<listed, posted>>
            BY <1>2
      <4>2. Shape(c)' /\ (Odd(c)' <=> unit.what = "tag") /\ Len(out'[c]) = Len(out[c]) + 1
            BY <1>3, <2>1, <3>2, <3>4, <4>1, ShapeAppend
      <4> QED BY <1>3, <3>3, <4>2
    <3>6. Progress(c)'
      <4>1. main' = "greet" => Len(out'[c]) = field' - 1
            BY <1>2, <1>3, <3>5
      <4>2. main' # "greet" => Len(out'[c]) >= Hellos(c)
            BY <1>2, <1>3, <3>3, <3>5
      <4> QED BY <1>2, <1>4, <2>1, <2>4, <4>1, <4>2 DEF Progress, Dialled
    <3> QED BY <1>2, <1>4, <3>5, <3>6 DEF Begun
  <2>5. CASE ~(c = cur /\ link[c] = "up")
    <3>1. out'[c] = out[c]
          BY <1>5, <2>2, <2>5
    <3>2. Shape(c)' /\ (Odd(c)' <=> Odd(c))
      <4>1. posted' \in Nat /\ posted <= posted' /\ UNCHANGED listed
            BY <1>2, <1>3
      <4> QED BY <1>3, <2>1, <3>1, <4>1, ShapeKept
    <3>3. \A g \in Fds : file'[g] = c => file[g] = c
          BY <1>6, Sizes
    <3>4. c = cur => link[c] = "gone"
      <4>1. link[c] # "new" \/ c # cur
            BY DEF AInv, Strangers
      <4>2. link[c] \in {"new", "up", "gone"}
            BY <1>3 DEF TypeOK
      <4> QED BY <2>5, <4>1, <4>2
    <3>5. Progress(c)'
          BY <1>2, <1>4, <2>1, <3>1, <3>4 DEF Progress, Running, Dialled
    <3> QED BY <1>2, <1>4, <2>3, <3>2, <3>3, <3>5 DEF Begun
  <2> QED BY <2>4, <2>5
<1>8. Running' /\ main' # "greet" => field' = 1
      BY <1>2
<1> QED BY <1>2, <1>7, <1>8 DEF WInv

LEMMA WMain ==
    ASSUME AInv, Own, Wait, WInv, MainStep
    PROVE  WInv'
<1>0. posted \in Nat /\ TypeOK /\ Next
  <2>1. TypeOK
        BY DEF AInv
  <2> QED BY <2>1, Posted DEF Next
<1>1. CASE Greet
      BY <1>1, WGreet
<1>2. CASE GreetWaits \/ ListBreaks
  <2>1. CASE GreetWaits
    <3>1. UNCHANGED <<out, listed, posted, pc, fd, main, cur, field>>
          BY <2>1 DEF GreetWaits, Waits, env, mainv
    <3> QED BY <1>0, <3>1, WThread
  <2>2. CASE ListBreaks
    <3>1. UNCHANGED <<out, listed, posted, pc, fd>> /\ main' = "exited"
          BY <2>2 DEF ListBreaks, Step, env, net, thread
    <3> QED BY <1>0, <3>1, WThread
  <2> QED BY <1>2, <2>1, <2>2
<1>3. CASE ~Greet /\ ~GreetWaits /\ ~ListBreaks
  <2>1. /\ UNCHANGED <<out, listed, link, posted, fd, field>> /\ main \notin {"greet", "exited"}
        /\ pc'[Sender] = "text" <=> pc[Sender] = "text"
    <3>1. CASE RecvCount \/ OpenSocket \/ RecvGreeting \/ Store \/ LoadCount \/ StoreCount
               \/ \E c \in Conns : RecvEntry(c) \/ Accept(c)
          BY <3>1 DEF RecvCount, OpenSocket, RecvGreeting, Store, LoadCount, StoreCount, RecvEntry, Accept,
                      env, net, thread
    <3>2. CASE Dial
          BY <3>2 DEF Dial, env, net, thread
    <3>3. CASE Spawn \/ StartThread
      <4>1. cur \in Conns
            BY <3>3 DEF Spawn, StartThread, AInv, Opening, Making, Dialled, Running
      <4> QED BY <3>3, <4>1, Kinds DEF Spawn, StartThread, Goto, env, net
    <3>4. CASE ListDone
          BY <3>4, Kinds DEF ListDone, Goto, env, net, thread, AInv, Reading, Listing
    <3> QED BY <1>3, <3>1, <3>2, <3>3, <3>4 DEF MainStep
  <2>2. field = 1
        BY <2>1 DEF WInv, Running
  <2>3. ASSUME NEW c \in Conns \ (shared' \cup moved')
        PROVE  Progress(c)'
    <3>1. /\ Progress(c) /\ Hellos(c)' = Hellos(c) /\ Hellos(c) \in Nat /\ Len(out[c]) \in Nat
          /\ (out[c] = <<>> => Len(out[c]) = 0)
          BY <1>0, <2>1, Grows, Sent DEF WInv, Hellos
    <3>2. CASE Spawn \/ StartThread
      <4>1. /\ cur \in Conns /\ pc[cur] = "none" /\ cur' = cur /\ main' \in {"list", "load"}
            /\ \A d \in Conns : pc'[d] = IF d = cur THEN "begin" ELSE pc[d]
            BY <3>2, Kinds DEF Spawn, StartThread, Step, Goto, AInv, Opening, Making, Dialled, Running
      <4>2. main' # "greet" /\ main' # "spawn" /\ main' \notin Dialled
            BY <4>1 DEF Dialled
      <4>3. c = cur /\ link[c] # "gone" => Len(out[c]) >= Hellos(c)
        <5>1. CASE Spawn
              BY <3>1, <5>1 DEF Spawn, Progress
        <5>2. CASE StartThread
          <6>1. cur \notin listed
                BY <5>2 DEF StartThread, WInv
          <6> QED BY <3>1, <6>1 DEF Hellos
        <5> QED BY <3>2, <5>1, <5>2
      <4>4. Running /\ (c # cur /\ pc[c] = "none" => out[c] = <<>>)
            BY <2>1, <3>1 DEF Progress, Running
      <4>5. /\ pc'[c] = "none" => out[c] = <<>>
            /\ pc'[c] # "none" /\ link[c] # "gone" => Len(out[c]) >= Hellos(c)
            BY <3>1, <4>1, <4>3, <4>4 DEF Progress
      <4> QED BY <2>1, <3>1, <4>2, <4>5 DEF Progress
    <3>3. CASE Dial
      <4>1. CASE main' = "exited"
        <5>1. pc' = pc
              BY <3>3 DEF Dial
        <5> QED BY <2>1, <3>1, <4>1, <5>1 DEF Progress, Running
      <4>2. CASE main' # "exited"
        <5>1. main = "connect" /\ main' = "greet" /\ pc[cur] = "none" /\ Running /\ UNCHANGED <<pc, cur>>
              BY <3>3, <4>2, Dialling
        <5>2. pc[c] = "none" => out[c] = <<>>
              BY <3>1, <5>1 DEF Progress, Dialled
        <5>3. Len(out[c]) = 0 \/ c # cur
              BY <3>1, <5>1, <5>2
        <5> QED BY <2>1, <2>2, <3>1, <5>1, <5>2, <5>3 DEF Progress, Dialled
      <4> QED BY <4>1, <4>2
    <3>4. CASE RecvCount \/ OpenSocket \/ ListDone \/ LoadCount \/ StoreCount \/ \E d \in Conns : RecvEntry(d)
      <4>1. main \notin Dialled /\ main' \notin Dialled /\ main' # "exited"
            BY <3>4 DEF RecvCount, OpenSocket, ListDone, LoadCount, StoreCount, RecvEntry, Step, Dialled
      <4>2. pc'[c] = pc[c]
            BY <3>4, Kinds DEF RecvCount, OpenSocket, ListDone, LoadCount, StoreCount, RecvEntry, Goto
      <4> QED BY <2>1, <3>1, <4>1, <4>2 DEF Progress, Dialled, Running
    <3>5. CASE RecvGreeting \/ Store \/ \E d \in Conns : Accept(d)
      <4>1. /\ pc' = pc /\ main' \in Dialled \ {"greet", "spawn"} /\ main \notin {"greet", "spawn"}
            /\ (cur' = cur /\ main \in Dialled) \/ main \notin Dialled
            BY <3>5 DEF RecvGreeting, Store, Accept, Step, Dialled
      <4> QED BY <2>1, <3>1, <4>1 DEF Progress, Dialled, Running
    <3> QED BY <1>3, <3>2, <3>3, <3>4, <3>5 DEF MainStep
  <2>4. main' \in {"greeting", "store", "start"} => cur' \notin listed'
    <3>1. CASE \E d \in Conns : Accept(d)
          BY <2>1, <3>1 DEF Accept
    <3>2. CASE RecvGreeting \/ Store
          BY <2>1, <3>2 DEF RecvGreeting, Store, WInv
    <3>3. CASE main' \notin {"greeting", "store", "start"}
          BY <3>3
    <3> QED BY <1>3, <3>1, <3>2, <3>3 DEF MainStep, RecvCount, OpenSocket, Dial, Spawn, ListDone, StartThread, LoadCount,
                  StoreCount, RecvEntry, Step
  <2>5. \A c \in Conns \ (shared' \cup moved') : Shape(c)' /\ Begun(c)'
        BY <1>0, <2>1, WQuiet
  <2> QED BY <2>1, <2>2, <2>3, <2>4, <2>5 DEF WInv
<1> QED BY <1>1, <1>2, <1>3

LEMMA WNext == AInv /\ Own /\ Wait /\ WInv /\ [Next]_vars => WInv'
<1> SUFFICES ASSUME AInv, Own, Wait, WInv, [Next]_vars PROVE WInv'
    OBVIOUS
<1>0. posted \in Nat
  <2>1. TypeOK
        BY DEF AInv
  <2> QED BY <2>1, Posted
<1>1. CASE Quit \/ UNCHANGED vars \/ \E c \in Conns : PeerStep(c) \/ Killed(c)
  <2>1. UNCHANGED <<out, listed, posted, pc, fd>> /\ (main' = "exited" \/ UNCHANGED <<main, cur, field>>)
    <3>1. CASE Quit \/ \E c \in Conns : Killed(c)
          BY <3>1 DEF Quit, Killed, Step, env, net, thread
    <3>2. CASE UNCHANGED vars \/ \E c \in Conns : PeerStep(c)
          BY <3>2 DEF PeerStep, Knock, PeerGreets, PeerLeaves, PeerReads, vars, env, net, mainv, thread
    <3> QED BY <1>1, <3>1, <3>2
  <2> QED BY <1>0, <2>1, WThread
<1> QED BY <1>1, WMain, WSend, WReceive DEF Next

LEMMA WInit == Init => WInv
<1> SUFFICES ASSUME Init PROVE WInv
    OBVIOUS
<1>1. main = "count" /\ field = 1
      BY DEF Init
<1>2. ASSUME NEW c \in Conns
      PROVE  Shape(c) /\ Progress(c) /\ Begun(c)
  <2>1. out[c] = <<>> /\ pc[c] = "none" /\ \A f \in Fds : file[f] \in {Other, NoConn}
        BY DEF Init, Threads
  <2>2. DOMAIN <<>> = {}
        OBVIOUS
  <2>3. Shape(c)
        BY <2>1, <2>2 DEF Shape
  <2> QED BY <1>1, <2>1, <2>3, Sizes DEF Progress, Begun
<1> QED BY <1>1, <1>2 DEF WInv

(* Whatever leaves and is removed meanwhile: neither main between the       *)
(* fields of a HELLO nor the send thread between the tag and the text of a  *)
(* message holds a mutex, yet a peer whose descriptor had one user is sent  *)
(* the whole HELLO, then whole messages in their order, unless a removal    *)
(* moves its entry while main is greeting it.                               *)
THEOREM WholeMessagesCorrect == Spec => []WholeMessages
<1>1. AInv /\ WInv => WholeMessages
  <2> SUFFICES ASSUME AInv, WInv, NEW c \in Conns \ (shared \cup moved)
               PROVE  Shape(c) /\ (pc[c] # "none" /\ link[c] = "up" => Len(out[c]) >= Hellos(c))
      BY DEF Shape, WholeMessages
  <2> QED BY DEF WInv, Progress
<1>2. Spec => []WInv
      BY WInit, WNext, OwnInvariant, AInvariant, PTL DEF Spec
<1> QED BY <1>1, <1>2, AInvariant, PTL

-----------------------------------------------------------------------------
(* Delivery.  What a removal has done so far: it has started at the entry   *)
(* it is to remove, and every slot it has left holds what the next one did. *)

Removing(t) ==
    pc[t] \in {"shift", "dec"} =>
       /\ pos[t] < peer_count \/ (t = Sender /\ pos[t] = arg[t])
       /\ \/ t = Sender /\ pos[t] = arg[t]
          \/ t \in Conns /\ clients[pos[t]].fd = fd[t]
          \/ pos[t] >= 1 /\ clients[pos[t] - 1] = clients[pos[t]]
       /\ pc[t] = "dec" => pos[t] = tmp[t] - 1 \/ (t = Sender /\ pos[t] = arg[t] /\ tmp[t] <= pos[t])

Regular == ~wrapped /\ ~crossed

PInv == Regular => \A t \in Threads : Removing(t)

(* A step that leaves the entries that are listed alone.                    *)
LEMMA PKept ==
    ASSUME AInv, PInv, Regular' => Regular, Regular' => peer_count <= peer_count', peer_count' \in Nat,
           \A s \in Slots : s < peer_count => clients'[s] = clients[s],
           \A t \in Threads : pc'[t] \in {"shift", "dec"} =>
              /\ pc'[t] = pc[t] /\ pos'[t] = pos[t] /\ fd'[t] = fd[t] /\ tmp'[t] = tmp[t]
              /\ t = Sender => arg'[t] = arg[t]
    PROVE  PInv'
<1> SUFFICES ASSUME Regular', NEW t \in Threads, pc'[t] \in {"shift", "dec"}
             PROVE  Removing(t)'
    BY DEF PInv, Removing
<1>1. /\ pc'[t] = pc[t] /\ pos'[t] = pos[t] /\ fd'[t] = fd[t] /\ tmp'[t] = tmp[t] /\ (t = Sender => arg'[t] = arg[t])
      /\ Removing(t) /\ peer_count <= peer_count'
      BY DEF PInv
<1>2. pos[t] \in Nat /\ peer_count \in Nat /\ peer_count < TSIZE /\ TSIZE \in Nat /\ Slots = 0 .. TSIZE - 1
      BY Indices, Sizes
<1>3. CASE t = Sender /\ pos[t] = arg[t]
      BY <1>1, <1>3 DEF Removing
<1>4. CASE ~(t = Sender /\ pos[t] = arg[t])
  <2>1. pos[t] < peer_count /\ pos[t] < peer_count'
    <3>1. \A k, m, n \in Nat : k < m /\ m <= n => k < n
          OBVIOUS
    <3> QED BY <1>1, <1>2, <1>4, <3>1 DEF Removing
  <2>2. clients'[pos[t]] = clients[pos[t]] /\ (pos[t] >= 1 => clients'[pos[t] - 1] = clients[pos[t] - 1])
    <3>1. pos[t] \in Slots /\ (pos[t] >= 1 => pos[t] - 1 \in Slots /\ pos[t] - 1 < peer_count)
          BY <1>2, <2>1
    <3> QED BY <2>1, <3>1
  <2> QED BY <1>1, <1>4, <2>1, <2>2 DEF Removing
<1> QED BY <1>3, <1>4

LEMMA PRemoval ==
    ASSUME AInv, RInv, PInv, NEW t \in Threads, Shift(t) \/ LoadToDrop(t) \/ Drop(t)
    PROVE  PInv'
<1>1. /\ \A u \in Threads : u # t => pc'[u] = pc[u] /\ pc[u] \notin {"shift", "dec"}
      /\ mutex = t /\ (Regular' => Regular)
  <2>1. mutex = t
        BY DEF RInv, Guarded, Shift, LoadToDrop, Drop
  <2>2. Regular' => Regular
        BY DEF Regular, Shift, LoadToDrop, Drop, hist, marks
  <2> QED BY <2>1, <2>2, Kinds DEF RInv, Guarded, Shift, LoadToDrop, Drop, Goto
<1>2. pos[t] \in Nat /\ peer_count \in Nat /\ peer_count < TSIZE /\ TSIZE \in Nat /\ Slots = 0 .. TSIZE - 1 /\ arg[t] \in Nat
      BY Indices, Sizes
<1> SUFFICES ASSUME Regular', pc'[t] \in {"shift", "dec"}
             PROVE  Removing(t)'
    BY <1>1 DEF PInv, Removing
<1>3. Removing(t)
  <2>1. Regular
        BY <1>1
  <2> QED BY <2>1 DEF PInv
<1>4. CASE Shift(t)
  <2>1. /\ pc[t] = "shift" /\ UNCHANGED <<peer_count, tmp, pc, arg, fd>> /\ pos' = [pos EXCEPT ![t] = @ + 1]
        /\ clients' = [clients EXCEPT ![pos[t]] = clients[pos[t] + 1]] /\ pos[t] < peer_count - 1
        BY <1>4 DEF Shift
  <2>2. pos'[t] = pos[t] + 1
        BY <2>1, Indices
  <2>3. pos[t] \in Slots /\ pos[t] + 1 \in Slots /\ pos[t] + 1 < peer_count
        BY <1>2, <2>1
  <2>4. clients'[pos[t]] = clients[pos[t] + 1] /\ clients'[pos[t] + 1] = clients[pos[t] + 1]
        BY <1>2, <2>1, <2>3, Indices
  <2>5. pos'[t] >= 1 /\ pos'[t] - 1 = pos[t]
        BY <1>2, <2>2
  <2> QED BY <2>1, <2>2, <2>3, <2>4, <2>5 DEF Removing
<1>5. CASE LoadToDrop(t)
  <2>1. /\ pc[t] = "shift" /\ UNCHANGED <<peer_count, clients, pos, arg, fd>> /\ tmp' = [tmp EXCEPT ![t] = peer_count]
        /\ pos[t] >= peer_count - 1
        BY <1>5 DEF LoadToDrop, array, thread
  <2>2. tmp'[t] = peer_count
        BY <2>1, Indices
  <2>3. /\ pos[t] < peer_count => pos[t] = peer_count - 1
        /\ ~(pos[t] < peer_count) => peer_count <= pos[t]
        BY <1>2, <2>1
  <2>4. pos[t] = tmp'[t] - 1 \/ (t = Sender /\ pos[t] = arg[t] /\ tmp'[t] <= pos[t])
        BY <1>3, <2>1, <2>2, <2>3 DEF Removing
  <2> QED BY <1>3, <2>1, <2>4 DEF Removing
<1>6. CASE Drop(t)
      BY <1>6, Kinds DEF Drop, Goto
<1> QED BY <1>4, <1>5, <1>6

LEMMA PNext == AInv /\ RInv /\ PInv /\ [Next]_vars => PInv'
<1> SUFFICES ASSUME AInv, RInv, PInv, [Next]_vars PROVE PInv'
    OBVIOUS
<1>0. peer_count \in Nat /\ peer_count <= peer_count /\ \A s \in Slots : s < peer_count => clients[s] = clients[s]
      BY Indices
<1>1. CASE Quit \/ UNCHANGED vars \/ \E c \in Conns : PeerStep(c) \/ Killed(c)
  <2>1. UNCHANGED <<peer_count, clients, pc, pos, fd, tmp, arg, wrapped, crossed>>
        BY <1>1 DEF Quit, Killed, PeerStep, Knock, PeerGreets, PeerLeaves, PeerReads, vars, array, thread, hist, marks
  <2> QED BY <1>0, <2>1, PKept DEF Regular
<1>2. CASE SendStep \/ Type
  <2>1. CASE Look \/ SendWaits \/ SendTag \/ SendText \/ SendFails \/ Type
    <3>1. /\ UNCHANGED <<peer_count, clients, pos, tmp, wrapped, crossed>> /\ pc'[Sender] \notin {"shift", "dec"}
          /\ \A t \in Conns : pc'[t] = pc[t] /\ fd'[t] = fd[t] /\ arg'[t] = arg[t]
          BY <2>1, Kinds, Indices DEF Look, SendWaits, SendTag, SendText, SendFails, Type, Goto, array, thread, hist, marks
    <3>2. \A t \in Threads : pc'[t] \in {"shift", "dec"} => t \in Conns /\ t # Sender
          BY <3>1, Kinds DEF Threads
    <3> QED BY <1>0, <3>1, <3>2, PKept DEF Regular
  <2>2. CASE LockToDrop
    <3>1. /\ mutex = NoConn /\ pos' = [pos EXCEPT ![Sender] = arg[Sender]] /\ UNCHANGED arg
          /\ pc'[Sender] = "shift" /\ \A t \in Conns : pc'[t] = pc[t]
          BY <2>2, Kinds DEF LockToDrop, Goto
    <3>2. \A t \in Conns : pc[t] \notin {"shift", "dec"}
          BY <3>1, Kinds DEF RInv, Guarded
    <3>3. pos'[Sender] = arg'[Sender]
          BY <3>1, Kinds, Indices
    <3>4. Removing(Sender)'
          BY <3>1, <3>3 DEF Removing
    <3> QED BY <3>1, <3>2, <3>4 DEF PInv, Removing, Threads
  <2> QED BY <1>2, <2>1, <2>2, PRemoval, Kinds DEF SendStep
<1>3. ASSUME NEW t \in Conns, ReceiveStep(t)
      PROVE  PInv'
  <2>1. CASE Begin(t) \/ Call(t) \/ RecvEnds(t) \/ CloseConn(t) \/ (FindEntry(t) /\ Found(t) = {})
    <3>1. /\ UNCHANGED <<peer_count, clients, pos, tmp, wrapped, crossed, arg>> /\ pc'[t] \notin {"shift", "dec"}
          /\ \A u \in Threads : u # t => pc'[u] = pc[u] /\ fd'[u] = fd[u]
          BY <2>1, Kinds DEF Begin, Call, RecvEnds, CloseConn, FindEntry, Goto, array, thread, hist, marks
    <3> QED BY <1>0, <3>1, PKept DEF Regular
  <2>2. CASE FindEntry(t) /\ Found(t) # {}
    <3> DEFINE s == CHOOSE s \in Found(t) : \A r \in Found(t) : s <= r
    <3>1. /\ mutex = NoConn /\ pos' = [pos EXCEPT ![t] = s] /\ UNCHANGED <<peer_count, clients, fd>>
          /\ \A u \in Threads : pc'[u] = IF u = t THEN "shift" ELSE pc[u]
          BY <2>2, Kinds DEF FindEntry, Goto, array
    <3>2. \A u \in Threads : pc[u] \notin {"shift", "dec"}
          BY <3>1, Kinds DEF RInv, Guarded
    <3>3. s < peer_count /\ clients[s].fd = fd[t]
      <4>1. Found(t) \in SUBSET Nat
            BY Sizes DEF Found
      <4>2. \E r \in Found(t) : \A q \in Found(t) : r <= q
            BY <2>2, <4>1, LeastExists
      <4>3. s \in Found(t)
            BY <4>2
      <4> QED BY <4>3 DEF Found
    <3>4. pos'[t] = s /\ t \in Threads
          BY <3>1, Kinds, Indices
    <3> HIDE DEF s
    <3>5. Removing(t)'
          BY <3>1, <3>3, <3>4 DEF Removing
    <3> QED BY <3>1, <3>2, <3>5 DEF PInv, Removing
  <2> QED BY <1>3, <2>1, <2>2, PRemoval, Kinds DEF ReceiveStep
<1>4. CASE ListBreaks \/ Dial \/ GreetWaits \/ Greet \/ Spawn \/ ListDone \/ RecvGreeting \/ StartThread \/ LoadCount
           \/ \E c \in Conns : Accept(c)
  <2>1. /\ UNCHANGED <<peer_count, clients, pos, wrapped, crossed, fd>>
        /\ \A t \in Threads : /\ tmp'[t] = tmp[t]
                              /\ pc'[t] \in {"shift", "dec"} => pc'[t] = pc[t] /\ (t = Sender => arg'[t] = arg[t])
    <3>1. CASE ListBreaks \/ RecvGreeting
          BY <3>1 DEF ListBreaks, RecvGreeting, array, thread, hist, marks
    <3>2. CASE GreetWaits \/ Greet
          BY <3>2 DEF GreetWaits, Greet, array, marks
    <3>3. CASE Dial
          BY <3>3 DEF Dial, Opens, array, thread, marks
    <3>4. CASE Spawn \/ StartThread
      <4>1. cur \in Conns
            BY <3>4 DEF Spawn, StartThread, AInv, Opening, Making, Dialled, Running
      <4> QED BY <3>4, <4>1, Kinds, Indices DEF Spawn, StartThread, Goto, array, hist, marks
    <3>5. CASE ListDone
          BY <3>5, Kinds DEF ListDone, Goto, array, thread, hist, marks
    <3>6. CASE LoadCount
          BY <3>6, Kinds, Indices DEF LoadCount, array, thread, hist, marks
    <3>7. CASE \E c \in Conns : Accept(c)
          BY <3>7, Kinds, Indices DEF Accept, Opens, array, thread, marks
    <3> QED BY <1>4, <3>1, <3>2, <3>3, <3>4, <3>5, <3>6, <3>7
  <2> QED BY <1>0, <2>1, PKept DEF Regular
<1>5. CASE RecvCount \/ OpenSocket \/ \E c \in Conns : RecvEntry(c)
  <2>1. /\ UNCHANGED <<mutex, pc>> /\ (mutex # NoConn => RecvCount \/ crossed')
        BY <1>5 DEF RecvCount, OpenSocket, RecvEntry
  <2>2. CASE mutex = NoConn
    <3>1. \A u \in Threads : pc[u] \notin {"shift", "dec"}
          BY <2>2, Kinds DEF RInv, Guarded
    <3> QED BY <2>1, <3>1 DEF PInv, Removing
  <2>3. CASE RecvCount
    <3>1. \A u \in Threads : pc[u] = "none"
      <4>1. Cardinality(Started) = 0 /\ Started \subseteq listed /\ pc[Sender] = "none" /\ IsFiniteSet(listed)
        <5>1. TypeOK
              BY DEF AInv
        <5> QED BY <2>3, <5>1, ListedSize DEF RecvCount, AInv, Reading, RInv, Fresh, Listing
      <4>2. Started = {}
            BY <4>1, FS_Subset, FS_EmptySet
      <4> QED BY <4>1, <4>2 DEF Started, Threads
    <3> QED BY <2>1, <3>1 DEF PInv, Removing
  <2> QED BY <2>1, <2>2, <2>3 DEF PInv, Regular
<1>6. CASE Store
  <2>1. /\ UNCHANGED <<peer_count, pc, pos, fd, tmp, arg, wrapped, crossed>>
        /\ \A s \in Slots : s < peer_count => clients'[s] = clients[s]
        BY <1>6, Indices DEF Store, thread, hist, marks
  <2> QED BY <1>0, <2>1, PKept DEF Regular
<1>7. CASE StoreCount
  <2>1. /\ UNCHANGED <<clients, pc, pos, fd, arg, crossed>> /\ (wrapped => wrapped')
        /\ \A t \in Threads : tmp'[t] = tmp[t]
        BY <1>7, Kinds, Indices DEF StoreCount, thread
  <2>2. peer_count' \in Nat /\ (~wrapped' => peer_count <= peer_count')
        BY <1>7, CountGrows
  <2> QED BY <2>1, <2>2, PKept DEF Regular
<1> QED BY <1>1, <1>2, <1>3, <1>4, <1>5, <1>6, <1>7 DEF Next, MainStep

LEMMA PInit == Init => PInv
BY DEF Init, PInv, Removing

(* A peer that the loop of the send thread has to serve has been sent the   *)
(* text, is being sent it, or has an entry where the loop has yet to go.    *)

Served(c) == out[c] # <<>> /\ out[c][Len(out[c])] = [what |-> "text", n |-> posted]

Ahead(c) == \E s \in Slots : NextIndex <= s /\ s < peer_count /\ file[clients[s].fd] = c

Pending(c) ==
    \/ Served(c)
    \/ pc[Sender] \in {"tag", "text"} /\ file[fd[Sender]] = c
    \/ pc[Sender] # "idle" /\ Ahead(c)

DInv ==
    /\ pc[Sender] = "none" => due = {}
    /\ pc[Sender] \in {"none", "idle"} => arg[Sender] = 0
    /\ Regular => \A c \in due \ shared : link[c] # "gone" => Pending(c)

LEMMA Next0 ==
    ASSUME AInv
    PROVE  NextIndex \in Nat /\ due \subseteq Conns
<1>1. \A k \in Nat : k + 1 \in Nat
      OBVIOUS
<1> QED BY <1>1, Indices, Kinds DEF NextIndex, AInv, TypeOK

(* A step that neither sends, nor moves the loop or an entry.               *)
LEMMA DQuiet ==
    ASSUME AInv, DInv, UNCHANGED <<out, posted>>, due' \subseteq due, shared \subseteq shared', Regular' => Regular,
           pc'[Sender] = pc[Sender], arg'[Sender] = arg[Sender], fd'[Sender] = fd[Sender],
           \A c \in Conns : link'[c] # "gone" => link[c] # "gone",
           pc[Sender] # "none" =>
              /\ peer_count' \in Nat /\ (Regular' => peer_count <= peer_count')
              /\ \A s \in Slots : s < peer_count => clients'[s] = clients[s]
              /\ \A c \in Conns \ shared' : \A f \in Fds : file[f] = c /\ link'[c] # "gone" => file'[f] = c
    PROVE  DInv'
<1>1. ASSUME Regular', NEW c \in due' \ shared', link'[c] # "gone"
      PROVE  Pending(c)'
  <2>1. c \in Conns \ shared' /\ c \in due \ shared /\ pc[Sender] # "none" /\ Pending(c)
        BY <1>1, Next0 DEF DInv
  <2>2. NextIndex' = NextIndex
        BY DEF NextIndex
  <2>3. Served(c) => Served(c)'
        BY DEF Served
  <2>4. file[fd[Sender]] = c => file'[fd'[Sender]] = c
        BY <1>1, <2>1, Kinds
  <2>5. Ahead(c) => Ahead(c)'
    <3> SUFFICES ASSUME NEW s \in Slots, NextIndex <= s, s < peer_count, file[clients[s].fd] = c
                 PROVE  Ahead(c)'
        BY DEF Ahead
    <3>1. clients'[s] = clients[s] /\ file'[clients[s].fd] = c
          BY <1>1, <2>1, Indices
    <3>2. \A k, m, n \in Nat : k < m /\ m <= n => k < n
          OBVIOUS
    <3>3. s < peer_count'
          BY <1>1, <2>1, <3>2, Indices
    <3> QED BY <2>2, <3>1, <3>3 DEF Ahead
  <2> QED BY <2>1, <2>3, <2>4, <2>5 DEF Pending
<1> QED BY <1>1 DEF DInv

(* A removal: what it overwrites or leaves out is the entry it removes, or  *)
(* it is in the slot before as well.                                        *)
LEMMA Doubled ==
    ASSUME AInv, Own, PInv, Regular, NEW t \in Threads, pc[t] \in {"shift", "dec"}, NEW c \in Conns \ shared,
           link[c] # "gone", NextIndex < pos[t], file[clients[pos[t]].fd] = c
    PROVE  pos[t] >= 1 /\ clients[pos[t] - 1] = clients[pos[t]]
<1>1. Removing(t)
      BY DEF PInv
<1>2. ~(t = Sender /\ pos[t] = arg[t])
  <2>1. t = Sender => NextIndex = arg[Sender] + 1
        BY DEF NextIndex
  <2>2. \A k \in Nat : ~(k + 1 < k)
        OBVIOUS
  <2> QED BY <2>1, <2>2, Indices
<1>3. ~(t \in Conns /\ clients[pos[t]].fd = fd[t])
      BY DEF Own, Holds, Leaving
<1> QED BY <1>1, <1>2, <1>3 DEF Removing

LEMMA DShift ==
    ASSUME AInv, Own, PInv, DInv, NEW t \in Threads, Shift(t)
    PROVE  DInv'
<1>1. /\ UNCHANGED <<out, posted, shared, link, file, peer_count, pc, arg, fd, wrapped, crossed>> /\ due' \subseteq due
      /\ pc[t] = "shift" /\ clients' = [clients EXCEPT ![pos[t]] = clients[pos[t] + 1]]
      /\ due' = IF pos[t] = NextIndex THEN due \ On(clients[NextIndex].fd) ELSE due
      BY DEF Shift, env, net, thread
<1>2. NextIndex' = NextIndex /\ Regular' = Regular
      BY <1>1 DEF NextIndex, Regular
<1>3. ASSUME Regular', NEW c \in due' \ shared', link'[c] # "gone"
      PROVE  Pending(c)'
  <2>1. c \in Conns \ shared /\ c \in due /\ link[c] # "gone" /\ Regular /\ Pending(c)
        BY <1>1, <1>2, <1>3, Next0 DEF DInv
  <2>2. Served(c) => Served(c)'
        BY <1>1 DEF Served
  <2>3. Ahead(c) => Ahead(c)'
    <3> SUFFICES ASSUME NEW s \in Slots, NextIndex <= s, s < peer_count, file[clients[s].fd] = c
                 PROVE  Ahead(c)'
        BY DEF Ahead
    <3>1. CASE s # pos[t]
      <4>1. clients'[s] = clients[s]
            BY <1>1, <3>1, Indices
      <4> QED BY <1>1, <1>2, <4>1 DEF Ahead
    <3>2. CASE s = pos[t]
      <4>1. s # NextIndex
            BY <1>1, <1>3, <2>1, <3>2 DEF On
      <4>2. NextIndex \in Nat /\ s \in Nat /\ peer_count \in Nat /\ TSIZE \in Nat /\ Slots = 0 .. TSIZE - 1
            BY Next0, Indices, Sizes
      <4>3. NextIndex < s
            BY <4>1, <4>2
      <4>4. s >= 1 /\ clients[s - 1] = clients[s]
            BY <1>1, <2>1, <3>2, <4>3, Doubled
      <4>5. \A k, m \in Nat : k < m => k <= m - 1
            OBVIOUS
      <4>6. s - 1 \in Slots /\ s - 1 < peer_count /\ s - 1 # s
            BY <4>2, <4>4
      <4>7. NextIndex <= s - 1
            BY <4>2, <4>3, <4>5
      <4>8. clients'[s - 1] = clients[s - 1]
            BY <1>1, <3>2, <4>6, Indices
      <4> QED BY <1>1, <1>2, <4>4, <4>6, <4>7, <4>8 DEF Ahead
    <3> QED BY <3>1, <3>2
  <2> QED BY <1>1, <2>1, <2>2, <2>3 DEF Pending
<1> QED BY <1>1, <1>3 DEF DInv

LEMMA DDrop ==
    ASSUME AInv, Own, PInv, DInv, NEW t \in Threads, Drop(t)
    PROVE  DInv'
<1>1. /\ UNCHANGED <<out, posted, shared, link, file, clients, fd, crossed>>
      /\ pc[t] = "dec" /\ due' = due \ Cut(t) /\ peer_count' = (tmp[t] - 1) % TSIZE
      /\ wrapped' = (wrapped \/ tmp[t] = 0)
      BY DEF Drop, env, net
<1>2. /\ NextIndex' = NextIndex
      /\ pc[Sender] \in {"tag", "text", "idle", "none"} => pc'[Sender] = pc[Sender] /\ arg'[Sender] = arg[Sender]
      /\ pc[Sender] \notin {"idle", "none"} => pc'[Sender] \notin {"idle", "none"}
  <2>1. CASE t = Sender
        BY <1>1, <2>1, Kinds, Indices DEF Drop, Goto, NextIndex
  <2>2. CASE t # Sender
        BY <2>2, Kinds DEF Drop, Goto, NextIndex
  <2> QED BY <2>1, <2>2
<1>3. ASSUME Regular', NEW c \in due' \ shared', link'[c] # "gone"
      PROVE  Pending(c)'
  <2>0. Regular /\ tmp[t] # 0
        BY <1>1, <1>3 DEF Regular
  <2>1. c \in Conns \ shared /\ c \in due /\ link[c] # "gone" /\ Pending(c) /\ c \notin Cut(t)
        BY <1>1, <1>3, <2>0, Next0 DEF DInv
  <2>2. Served(c) => Served(c)'
        BY <1>1 DEF Served
  <2>3. /\ NextIndex \in Nat /\ tmp[t] \in Nat /\ tmp[t] < TSIZE /\ TSIZE \in Nat /\ pos[t] \in Nat
        /\ Slots = 0 .. TSIZE - 1
        BY Next0, Indices, Sizes
  <2>4. peer_count' = tmp[t] - 1
    <3>1. \A k, m \in Nat : k < m /\ k # 0 => (k - 1) % m = k - 1
          OBVIOUS
    <3> QED BY <1>1, <2>0, <2>3, <3>1
  <2>5. Ahead(c) => Ahead(c)'
    <3> SUFFICES ASSUME NEW s \in Slots, NextIndex <= s, s < peer_count, file[clients[s].fd] = c
                 PROVE  Ahead(c)'
        BY DEF Ahead
    <3>1. s \in Nat
          BY Indices
    <3>2. ~(s >= tmp[t]) /\ ~(s = tmp[t] - 1 /\ s = NextIndex)
          BY <2>1 DEF Cut, On
    <3>3. CASE s < tmp[t] - 1
          BY <1>1, <1>2, <2>4, <3>3 DEF Ahead
    <3>4. CASE ~(s < tmp[t] - 1)
      <4>1. s = tmp[t] - 1 /\ NextIndex < s
            BY <2>3, <3>1, <3>2, <3>4
      <4>2. pos[t] = s
        <5>1. pos[t] = tmp[t] - 1 \/ (t = Sender /\ pos[t] = arg[t] /\ tmp[t] <= pos[t])
              BY <1>1, <2>0 DEF PInv, Removing
        <5>2. t = Sender => NextIndex = arg[Sender] + 1
              BY <1>1 DEF NextIndex
        <5>3. \A k, m \in Nat : ~(m <= k /\ k + 1 < m - 1)
              OBVIOUS
        <5>4. ~(t = Sender /\ pos[t] = arg[t] /\ tmp[t] <= pos[t])
              BY <2>3, <4>1, <5>2, <5>3
        <5> QED BY <4>1, <5>1, <5>4
      <4>3. s >= 1 /\ clients[s - 1] = clients[s]
            BY <1>1, <2>0, <2>1, <4>1, <4>2, Doubled
      <4>4. s - 1 \in Slots /\ s - 1 < tmp[t] - 1
            BY <2>3, <3>1, <4>1, <4>3
      <4>5. \A k, m \in Nat : k < m => k <= m - 1
            OBVIOUS
      <4>6. NextIndex <= s - 1
            BY <2>3, <3>1, <4>1, <4>5
      <4> QED BY <1>1, <1>2, <2>4, <4>3, <4>4, <4>6 DEF Ahead
    <3> QED BY <3>3, <3>4
  <2> QED BY <1>1, <1>2, <2>1, <2>2, <2>5 DEF Pending
<1>4. pc'[Sender] \in {"none", "idle"} => pc'[Sender] = pc[Sender] /\ arg'[Sender] = arg[Sender]
      BY <1>2
<1> QED BY <1>1, <1>3, <1>4 DEF DInv

(* The send thread is at an entry, and sends to the descriptor it has read. *)
LEMMA DSends ==
    ASSUME AInv, Wait, DInv, NEW ret \in {1, -1}, NEW unit \in Units, Send(Sender, fd[Sender], unit, ret),
           UNCHANGED <<link, file, clients, peer_count, due, shared, posted, fd, wrapped, crossed>>,
           \/ /\ pc[Sender] = "tag" /\ pc'[Sender] = (IF ret = 1 THEN "text" ELSE "fail")
              /\ arg'[Sender] = arg[Sender]
           \/ /\ pc[Sender] = "text" /\ pc'[Sender] = (IF ret = 1 THEN "loop" ELSE "fail")
              /\ unit = [what |-> "text", n |-> posted]
              /\ arg'[Sender] = IF ret = 1 THEN arg[Sender] + 1 ELSE arg[Sender]
    PROVE  DInv'
<1> DEFINE f == fd[Sender]
<1>1. TypeOK /\ f \in Fds /\ Sender \in Threads \cup {NoConn}
      BY Kinds DEF AInv
<1>2. /\ \A c \in Conns : out'[c] = IF Target(Sender, f) = c /\ link[c] = "up" THEN Append(out[c], unit) ELSE out[c]
      /\ Target(Sender, f) \in Conns /\ link[Target(Sender, f)] = "up" => ret = 1
  <2>1. Send(Sender, f, unit, ret)
        OBVIOUS
  <2> HIDE DEF f
  <2> QED BY <1>1, <2>1, SendType
<1>3. NextIndex' = NextIndex /\ Regular' = Regular
      BY DEF NextIndex, Regular
<1>4. pc'[Sender] \notin {"none", "idle"} /\ pc[Sender] \notin {"none", "idle"}
      OBVIOUS
<1>5. ASSUME Regular', NEW c \in due' \ shared', link'[c] # "gone"
      PROVE  Pending(c)'
  <2>1. c \in Conns \ shared /\ c \in due /\ link[c] # "gone" /\ Pending(c)
        BY <1>3, <1>5, Next0 DEF DInv
  <2>2. Ahead(c) => Ahead(c)'
        BY <1>3 DEF Ahead
  <2>3. CASE file[fd[Sender]] = c
    <3>1. Target(Sender, fd[Sender]) = c
          BY <2>1, <2>3, TargetIs
    <3>2. link[c] = "up"
      <4>1. link \in [Conns -> {"new", "up", "gone"}]
            BY <1>1 DEF TypeOK
      <4>2. link[c] # "new"
            BY <1>1, <2>1, <2>3 DEF AInv, Strangers
      <4> QED BY <2>1, <4>1, <4>2
    <3>3. ret = 1
          BY <1>2, <2>1, <3>1, <3>2
    <3>4. CASE pc[Sender] = "tag"
          BY <2>3, <3>3, <3>4 DEF Pending
    <3>5. CASE pc[Sender] = "text"
      <4>1. out'[c] = Append(out[c], unit) /\ out[c] \in Seq(Units)
            BY <1>2, <2>1, <3>1, <3>2, <1>1 DEF TypeOK
      <4>2. out'[c] # <<>> /\ out'[c][Len(out'[c])] = unit
            BY <4>1
      <4>3. unit = [what |-> "text", n |-> posted]
            BY <3>5
      <4> QED BY <4>2, <4>3 DEF Served, Pending
    <3> QED BY <3>4, <3>5
  <2>4. CASE file[fd[Sender]] # c
    <3>1. Target(Sender, fd[Sender]) # c
          BY <2>1, <2>4, TargetIs
    <3>2. Served(c) => Served(c)'
          BY <1>2, <2>1, <3>1 DEF Served
    <3> QED BY <1>4, <2>1, <2>2, <2>4, <3>2 DEF Pending
  <2> QED BY <2>3, <2>4
<1> QED BY <1>4, <1>5 DEF DInv

LEMMA DFiles ==
    ASSUME AInv, Own, Wait, [Next]_vars, ~SendFails, pc[Sender] # "none", NEW c \in Conns \ shared', NEW f \in Fds,
           file[f] = c, link'[c] # "gone"
    PROVE  file'[f] = c
BY Greeting, StaysOpen

LEMMA DLoad ==
    ASSUME AInv, DInv, NEW t \in Threads, LoadToDrop(t)
    PROVE  DInv'
<1>1. /\ UNCHANGED <<out, posted, due, shared, file, link, clients, peer_count, arg, fd, wrapped, crossed>>
      /\ pc[t] = "shift" /\ \A u \in Threads : pc'[u] = IF u = t THEN "dec" ELSE pc[u]
      BY Kinds DEF LoadToDrop, Goto, env, net, array, thread, hist, marks
<1>2. NextIndex' = NextIndex /\ Regular' = Regular
      BY <1>1, Kinds DEF NextIndex, Regular
<1>3. /\ pc'[Sender] \in {"tag", "text", "idle", "none"} <=> pc[Sender] \in {"tag", "text", "idle", "none"}
      /\ pc[Sender] \in {"tag", "text", "idle", "none"} => pc'[Sender] = pc[Sender]
      BY <1>1, Kinds
<1>4. \A c : Pending(c) => Pending(c)'
  <2>1. \A c : (Served(c) => Served(c)') /\ (Ahead(c) => Ahead(c)')
        BY <1>1, <1>2 DEF Served, Ahead
  <2> QED BY <1>1, <1>3, <2>1 DEF Pending
<1> QED BY <1>1, <1>2, <1>3, <1>4 DEF DInv

LEMMA DSend ==
    ASSUME AInv, Own, Wait, PInv, DInv, SendStep \/ Type
    PROVE  DInv'
<1>1. UNCHANGED link /\ Sender \in Threads
      BY ThreadMoves, Kinds DEF LeavesToMain
<1>2. CASE SendTag
  <2> DEFINE unit == [what |-> "tag", n |-> 0]
  <2>1. PICK ret \in {1, -1} : Send(Sender, fd[Sender], unit, ret) /\ Goto(Sender, IF ret = 1 THEN "text" ELSE "fail")
        BY <1>2 DEF SendTag
  <2>2. unit \in Units
        BY DEF Units
  <2>3. /\ pc[Sender] = "tag" /\ arg'[Sender] = arg[Sender]
        /\ UNCHANGED <<link, file, clients, peer_count, due, shared, posted, fd, wrapped, crossed>>
        BY <1>1, <1>2 DEF SendTag, array, hist, marks
  <2>4. pc'[Sender] = IF ret = 1 THEN "text" ELSE "fail"
        BY <2>1, Kinds DEF Goto
  <2> HIDE DEF unit
  <2> QED BY <2>1, <2>2, <2>3, <2>4, DSends
<1>3. CASE SendText
  <2> DEFINE unit == [what |-> "text", n |-> posted]
  <2>1. PICK ret \in {1, -1} : /\ Send(Sender, fd[Sender], unit, ret) /\ Goto(Sender, IF ret = 1 THEN "loop" ELSE "fail")
                               /\ arg' = IF ret = 1 THEN [arg EXCEPT ![Sender] = @ + 1] ELSE arg
        BY <1>3 DEF SendText
  <2>2. unit \in Units
    <3>1. posted \in Nat
          BY Posted DEF AInv
    <3> QED BY <3>1 DEF Units
  <2>3. /\ pc[Sender] = "text"
        /\ UNCHANGED <<link, file, clients, peer_count, due, shared, posted, fd, wrapped, crossed>>
        BY <1>1, <1>3 DEF SendText, array, hist, marks
  <2>4. pc'[Sender] = (IF ret = 1 THEN "loop" ELSE "fail")
        BY <2>1, Kinds DEF Goto
  <2>5. arg'[Sender] = IF ret = 1 THEN arg[Sender] + 1 ELSE arg[Sender]
        BY <2>1, Kinds, Indices
  <2>6. unit = [what |-> "text", n |-> posted]
        OBVIOUS
  <2> HIDE DEF unit
  <2> QED BY <2>1, <2>2, <2>3, <2>4, <2>5, <2>6, DSends
<1>4. CASE SendWaits
  <2>1. /\ UNCHANGED <<out, posted, due, shared, file, clients, peer_count, pc, arg, fd, wrapped, crossed>>
        BY <1>4 DEF SendWaits, Waits, array, hist, marks
  <2>2. peer_count' \in Nat /\ peer_count <= peer_count'
        BY <2>1, Indices
  <2> QED BY <1>1, <2>1, <2>2, DQuiet DEF Regular
<1>5. CASE SendFails
  <2>1. /\ UNCHANGED <<out, posted, shared, clients, peer_count, arg, fd, wrapped, crossed>> /\ pc[Sender] = "fail"
        /\ pc'[Sender] = "lock" /\ due' = due \ On(clients[arg[Sender]].fd)
        /\ file' = [file EXCEPT ![clients[arg[Sender]].fd] = NoConn]
        BY <1>5, Kinds DEF SendFails, Goto, net, array, thread, marks
  <2>2. NextIndex' = NextIndex /\ Regular' = Regular
        BY <2>1 DEF NextIndex, Regular
  <2>3. ASSUME Regular', NEW c \in due' \ shared', link'[c] # "gone"
        PROVE  Pending(c)'
    <3>1. c \in Conns \ shared /\ c \in due /\ link[c] # "gone" /\ Pending(c) /\ c \notin On(clients[arg[Sender]].fd)
          BY <1>1, <2>1, <2>2, <2>3, Next0 DEF DInv
    <3>2. Served(c) => Served(c)'
          BY <2>1 DEF Served
    <3>3. Ahead(c) => Ahead(c)'
      <4>1. \A f \in Fds : file[f] = c => file'[f] = c
            BY <2>1, <3>1, Kinds DEF On
      <4>2. \A s \in Slots : clients[s].fd \in Fds
            BY Indices
      <4> QED BY <2>1, <2>2, <4>1, <4>2 DEF Ahead
    <3> QED BY <2>1, <3>1, <3>2, <3>3 DEF Pending
  <2> QED BY <2>1, <2>3 DEF DInv
<1>6. CASE LockToDrop
  <2>1. /\ UNCHANGED <<out, posted, due, shared, file, clients, peer_count, arg, fd, wrapped, crossed>>
        /\ pc[Sender] = "lock" /\ pc'[Sender] = "shift"
        BY <1>6, Kinds DEF LockToDrop, Goto, net, array, hist, marks
  <2>2. NextIndex' = NextIndex /\ Regular' = Regular
        BY <2>1 DEF NextIndex, Regular
  <2> QED BY <1>1, <2>1, <2>2 DEF DInv, Pending, Served, Ahead
<1>7. CASE Look
  <2>1. UNCHANGED <<out, posted, due, shared, file, clients, peer_count, wrapped, crossed>> /\ pc[Sender] = "loop"
        BY <1>7 DEF Look, net, array, hist, marks
  <2>2. NextIndex = arg[Sender] /\ Regular' = Regular
        BY <2>1 DEF NextIndex, Regular
  <2>3. CASE arg[Sender] < peer_count
    <3>1. fd'[Sender] = clients[arg[Sender]].fd /\ pc'[Sender] = "tag" /\ arg' = arg
          BY <1>7, <2>3, Kinds DEF Look, Goto
    <3>2. NextIndex' = arg[Sender] + 1
          BY <3>1 DEF NextIndex
    <3>3. ASSUME Regular', NEW c \in due' \ shared', link'[c] # "gone"
          PROVE  Pending(c)'
      <4>1. Served(c) \/ Ahead(c)
            BY <1>1, <2>1, <2>2, <3>3 DEF DInv, Pending
      <4>2. Served(c) => Served(c)'
            BY <2>1 DEF Served
      <4>3. ASSUME NEW s \in Slots, NextIndex <= s, s < peer_count, file[clients[s].fd] = c
            PROVE  Pending(c)'
        <5>1. CASE s = arg[Sender]
              BY <2>1, <3>1, <4>3, <5>1 DEF Pending
        <5>2. CASE s # arg[Sender]
          <6>1. \A k, m \in Nat : k <= m /\ m # k => k + 1 <= m
                OBVIOUS
          <6>2. arg[Sender] + 1 <= s
                BY <2>2, <4>3, <5>2, <6>1, <1>1, Indices
          <6> QED BY <2>1, <3>1, <3>2, <4>3, <6>2 DEF Pending, Ahead
        <5> QED BY <5>1, <5>2
      <4> QED BY <4>1, <4>2, <4>3 DEF Pending, Ahead
    <3> QED BY <3>1, <3>3 DEF DInv
  <2>4. CASE ~(arg[Sender] < peer_count)
    <3>1. pc'[Sender] = "idle" /\ arg'[Sender] = 0
          BY <1>7, <2>4, Kinds, Indices DEF Look, Goto
    <3>2. \A c : ~Ahead(c)
      <4>1. \A k, m, n \in Nat : ~(k < n) /\ k <= m => ~(m < n)
            OBVIOUS
      <4> QED BY <1>1, <2>2, <2>4, <4>1, Indices DEF Ahead
    <3> QED BY <1>1, <2>1, <2>2, <3>1, <3>2 DEF DInv, Pending, Served
  <2> QED BY <2>3, <2>4
<1>8. CASE Type
  <2>1. /\ UNCHANGED <<file, clients, peer_count, arg>> /\ pc[Sender] = "idle" /\ pc'[Sender] = "loop"
        /\ due' = UNION {On(clients[s].fd) : s \in {r \in Slots : r < peer_count}}
        BY <1>8, Kinds DEF Type, Goto, array, thread
  <2>2. NextIndex' = 0
        BY <2>1 DEF NextIndex, DInv
  <2>3. ASSUME NEW c \in due'
        PROVE  Ahead(c)'
    <3>1. PICK s \in Slots : s < peer_count /\ file[clients[s].fd] = c
          BY <2>1 DEF On
    <3>2. 0 <= s
          BY Indices
    <3> QED BY <2>1, <2>2, <3>1, <3>2 DEF Ahead
  <2> QED BY <2>1, <2>3 DEF DInv, Pending
<1> QED BY <1>1, <1>2, <1>3, <1>4, <1>5, <1>6, <1>7, <1>8, DShift, DDrop, DLoad DEF SendStep

LEMMA DReceive ==
    ASSUME AInv, Own, Wait, PInv, DInv, [Next]_vars, NEW t \in Conns, ReceiveStep(t)
    PROVE  DInv'
<1>1. t \in Threads /\ t # Sender /\ link' = link
      BY Kinds, ThreadMoves DEF LeavesToMain
<1>2. CASE Begin(t) \/ Call(t) \/ RecvEnds(t) \/ CloseConn(t) \/ FindEntry(t)
  <2>1. /\ UNCHANGED <<out, posted, due, clients, peer_count, wrapped, crossed>>
        /\ ~SendFails
        /\ pc'[Sender] = pc[Sender] /\ arg'[Sender] = arg[Sender] /\ fd'[Sender] = fd[Sender]
    <3>1. /\ UNCHANGED <<out, posted, due, clients, peer_count, wrapped, crossed>>
          /\ pc'[Sender] = pc[Sender] /\ arg'[Sender] = arg[Sender] /\ fd'[Sender] = fd[Sender]
          BY <1>1, <1>2, Kinds DEF Begin, Call, RecvEnds, CloseConn, FindEntry, Goto, net, array, thread, hist, marks
    <3>2. ~SendFails
          BY <3>1, Kinds DEF SendFails, Goto
    <3> QED BY <3>1, <3>2
  <2>2. peer_count' \in Nat /\ peer_count <= peer_count'
        BY <2>1, Indices
  <2> QED BY <1>1, <2>1, <2>2, DQuiet, DFiles, Grows DEF Regular
<1> QED BY <1>1, <1>2, DShift, DDrop, DLoad DEF ReceiveStep

LEMMA DMain ==
    ASSUME AInv, RInv, Own, Wait, DInv, [Next]_vars, MainStep
    PROVE  DInv'
<1>0. shared \subseteq shared' /\ \A c \in Conns : link'[c] # "gone" => link[c] # "gone"
      BY Grows, Leaves
<1>1. CASE RecvCount \/ OpenSocket \/ Dial \/ GreetWaits \/ Greet \/ Spawn \/ ListDone \/ \E c \in Conns : RecvEntry(c)
  <2>1. /\ due' = due /\ arg'[Sender] = arg[Sender] /\ pc'[Sender] \in {pc[Sender], "idle"} /\ main \in Listing
    <3>1. CASE RecvCount \/ OpenSocket \/ Dial \/ GreetWaits \/ Greet \/ \E c \in Conns : RecvEntry(c)
          BY <3>1 DEF RecvCount, OpenSocket, Dial, GreetWaits, Greet, RecvEntry, hist, thread, Listing
    <3>2. CASE Spawn
      <4>1. cur \in Conns
            BY <3>2 DEF Spawn, AInv, Opening, Making, Dialled, Running
      <4> QED BY <3>2, <4>1, Kinds, Indices DEF Spawn, Goto, hist, Listing
    <3>3. CASE ListDone
          BY <3>3, Kinds DEF ListDone, Goto, hist, thread, Listing
    <3> QED BY <1>1, <3>1, <3>2, <3>3
  <2>2. pc[Sender] = "none"
        BY <2>1 DEF AInv, Reading
  <2> QED BY <2>1, <2>2 DEF DInv
<1>2. CASE ListBreaks \/ RecvGreeting \/ Store \/ StartThread \/ LoadCount \/ StoreCount \/ \E c \in Conns : Accept(c)
  <2>1. ~SendFails
    <3>1. ListBreaks \/ RecvGreeting \/ Store \/ LoadCount \/ StoreCount \/ (\E c \in Conns : Accept(c)) => pc' = pc
          BY DEF ListBreaks, RecvGreeting, Store, LoadCount, StoreCount, Accept, thread
    <3>2. StartThread => pc'[Sender] = pc[Sender]
      <4>1. StartThread => cur \in Conns
            BY DEF StartThread, AInv, Opening, Making, Dialled, Running
      <4> QED BY <4>1, Kinds DEF StartThread, Goto
    <3>3. SendFails => pc[Sender] = "fail" /\ pc'[Sender] = "lock"
          BY Kinds DEF SendFails, Goto
    <3> QED BY <1>2, <3>1, <3>2, <3>3
  <2>2. /\ UNCHANGED <<out, posted, due>> /\ pc'[Sender] = pc[Sender] /\ arg'[Sender] = arg[Sender] /\ fd'[Sender] = fd[Sender]
        /\ Regular' => Regular
    <3>1. CASE ListBreaks \/ RecvGreeting \/ Store \/ LoadCount
          BY <3>1 DEF ListBreaks, RecvGreeting, Store, LoadCount, net, thread, hist, marks, Regular
    <3>4. CASE StoreCount
      <4>1. UNCHANGED <<out, posted, due, pc, arg, fd, crossed>> /\ (~wrapped' => ~wrapped)
            BY <3>4 DEF StoreCount, net, thread
      <4> QED BY <4>1 DEF Regular
    <3>2. CASE StartThread
      <4>1. cur \in Conns
            BY <3>2 DEF StartThread, AInv, Opening, Making, Dialled, Running
      <4> QED BY <3>2, <4>1, Kinds, Indices DEF StartThread, Goto, net, hist, marks, Regular
    <3>3. CASE \E c \in Conns : Accept(c)
          BY <3>3 DEF Accept, Opens, net, thread, marks, Regular
    <3> QED BY <1>2, <3>1, <3>2, <3>3, <3>4
  <2>3. peer_count' \in Nat /\ (Regular' => peer_count <= peer_count')
    <3>1. CASE StoreCount
          BY <3>1, CountGrows DEF Regular
    <3>2. CASE ~StoreCount
      <4>1. peer_count' = peer_count
            BY <1>2, <3>2 DEF ListBreaks, RecvGreeting, Store, StartThread, LoadCount, Accept, array
      <4> QED BY <4>1, Indices
    <3> QED BY <3>1, <3>2
  <2>4. \A s \in Slots : s < peer_count => clients'[s] = clients[s]
    <3>1. CASE Store
          BY <3>1, Indices DEF Store
    <3>2. CASE ~Store
          BY <1>2, <3>2 DEF ListBreaks, RecvGreeting, StartThread, LoadCount, StoreCount, Accept, array
    <3> QED BY <3>1, <3>2
  <2> QED BY <1>0, <2>1, <2>2, <2>3, <2>4, DQuiet, DFiles
<1> QED BY <1>1, <1>2 DEF MainStep

LEMMA DNext == AInv /\ RInv /\ Own /\ Wait /\ PInv /\ DInv /\ [Next]_vars => DInv'
<1> SUFFICES ASSUME AInv, RInv, Own, Wait, PInv, DInv, [Next]_vars PROVE DInv'
    OBVIOUS
<1>1. CASE Quit \/ UNCHANGED vars \/ \E c \in Conns : PeerStep(c) \/ Killed(c)
  <2>1. UNCHANGED <<out, posted, due, clients, peer_count, file, pc, arg, fd, wrapped, crossed>>
        BY <1>1 DEF Quit, Killed, PeerStep, Knock, PeerGreets, PeerLeaves, PeerReads, vars, net, array, thread, hist, marks
  <2>2. peer_count' \in Nat /\ peer_count <= peer_count'
        BY <2>1, Indices
  <2>3. shared \subseteq shared' /\ \A c \in Conns : link'[c] # "gone" => link[c] # "gone"
        BY Grows, Leaves
  <2> QED BY <2>1, <2>2, <2>3, DQuiet DEF Regular
<1> QED BY <1>1, DMain, DSend, DReceive DEF Next

LEMMA DInit == Init => DInv
BY DEF Init, DInv, Threads

(* The loop over the array has no mutex; newcomers come, peers leave and    *)
(* are removed and entries are shifted meanwhile.  Yet no peer that was     *)
(* listed when the loop began is passed over, but those it names.           *)
THEOREM DeliveredCorrect == Spec => []Delivered
<1>1. AInv /\ DInv => Delivered
  <2> SUFFICES ASSUME AInv, DInv, pc[Sender] = "idle", ~wrapped, ~crossed, NEW c \in due \ shared, link[c] = "up"
               PROVE  out[c] # <<>> /\ out[c][Len(out[c])] = [what |-> "text", n |-> posted]
      BY DEF Delivered
  <2> QED BY DEF DInv, Regular, Pending, Served
<1>2. Spec => [](PInv /\ DInv)
  <2>1. Spec => []RInv
        BY RInit, RNext, AInvariant, PTL DEF Spec
  <2> QED BY <2>1, PInit, PNext, DInit, DNext, OwnInvariant, AInvariant, PTL DEF Spec
<1> QED BY <1>1, <1>2, AInvariant, PTL

=============================================================================
