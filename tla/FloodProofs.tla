---------------------------- MODULE FloodProofs ----------------------------
(***************************************************************************)
(* Proofs about Flood, for every graph of clients, every set of messages    *)
(* and IDs (equal IDs included), every log size and every socket buffer.    *)
(***************************************************************************)
EXTENDS Flood, FiniteSetTheorems, TLAPS

(* Whatever is on the wire from n, or in the hands of the thread that read  *)
(* it from n, n itself has heard; and n is a neighbour of its reader.       *)
Carried ==
    \A n, k \in Clients :
        /\ \A id \in IDs : OnWire(n, k, id) => n \in Nbr(k) /\ id \in Heard(n)
        /\ (k # n /\ pc[k][n] # "idle") => n \in Nbr(k) /\ PktID(k, n) \in Heard(n)

(* A log holds only IDs its client has heard, so a copy that checkIDFromLog *)
(* drops is never the only one.                                             *)
LogSound ==
    \A n \in Clients, id \in IDs : InLog(n, id) => id \in Heard(n)

(* A client has heard what it is sending, and a loop starts at the first    *)
(* neighbour.                                                               *)
Working ==
    \A n, t \in Clients :
        /\ pc[n][t] \in {"sending", "logging"} => PktID(n, t) \in Heard(n)
        /\ pc[n][t] # "sending" => nxt[n][t] = 1

IInv == TypeOK /\ Carried /\ LogSound /\ Working /\ NoGap

-----------------------------------------------------------------------------

(* An entry of a client's list is one of its neighbours.                    *)
LEMMA PeerType ==
    ASSUME NEW n \in Clients, NEW i \in DOMAIN Peers[n]
    PROVE  Peers[n][i] \in Clients /\ Peers[n][i] \in Nbr(n)
<1>1. Peers[n] \in Seq(Clients)
      BY GraphAssumption
<1> QED BY <1>1 DEF Nbr

(* The memory a thread starts with is a packet.                             *)
LEMMA BlankType == Blank \in Packets
BY MsgAssumption, SizeAssumption DEF Blank, Packets

(* Every message's ID is an ID.                                             *)
LEMMA IDType == \A m \in Msgs : MsgID[m] \in IDs
BY DEF IDs

(* The type invariant holds initially.                                      *)
LEMMA TypeInit == Init => TypeOK
BY BlankType, SizeAssumption DEF Init, TypeOK, PCs

(* Emptying or appending to a log keeps its type.                           *)
LEMMA LogType ==
    ASSUME TypeOK, NEW n \in Clients, NEW id \in IDs, AddMessageToLog(n, id)
    PROVE  msgLog' \in [Clients -> Seq(IDs)]
BY DEF TypeOK, AddMessageToLog

(* Replacing one entry of a table over pairs of clients keeps its type.     *)
LEMMA TableType ==
    ASSUME NEW R, NEW f \in [Clients -> [Clients -> R]],
           NEW n \in Clients, NEW k \in Clients, NEW e \in R
    PROVE  [f EXCEPT ![n][k] = e] \in [Clients -> [Clients -> R]]
OBVIOUS

(* A thread that goes idle holds a packet again.                            *)
LEMMA IdleType ==
    ASSUME TypeOK, NEW n \in Clients, NEW t \in Clients, Idle(n, t)
    PROVE  /\ pc'  \in [Clients -> [Clients -> PCs]]
           /\ pkt' \in [Clients -> [Clients -> Packets]]
BY BlankType DEF TypeOK, Idle, Goto, PCs

(* Every step keeps the type invariant.                                     *)
LEMMA TypeStep == TypeOK /\ [Next]_vars => TypeOK'
<1> SUFFICES ASSUME TypeOK, [Next]_vars PROVE TypeOK'
    OBVIOUS
<1>1. CASE UNCHANGED vars
      BY <1>1 DEF TypeOK, vars
<1>2. ASSUME NEW m \in Msgs, Post(m) PROVE TypeOK'
  <2>1. Sender[m] \in Clients
        BY MsgAssumption
  <2>2. [msg |-> m, hop |-> 0] \in Packets
        BY SizeAssumption DEF Packets
  <2>3. /\ pkt' \in [Clients -> [Clients -> Packets]]
        /\ pc'  \in [Clients -> [Clients -> PCs]]
        BY <1>2, <2>1, <2>2 DEF TypeOK, Post, Goto, PCs
  <2> QED BY <1>2, <2>1, <2>3 DEF TypeOK, Post
<1>3. ASSUME NEW n \in Clients, NEW t \in Clients, SendNext(n, t) PROVE TypeOK'
  <2> DEFINE k == Peers[n][nxt[n][t]]
  <2>1. k \in Clients
    <3>1. nxt[n][t] \in DOMAIN Peers[n]
          BY <1>3 DEF SendNext
    <3> QED BY <3>1, PeerType
  <2>2. chan' = chan \/ chan' = [chan EXCEPT ![n][k] = Append(@, pkt[n][t])]
        BY <1>3 DEF SendNext
  <2> HIDE DEF k
  <2>3. Append(chan[n][k], pkt[n][t]) \in Seq(Packets)
        BY <2>1 DEF TypeOK
  <2>4. chan' \in [Clients -> [Clients -> Seq(Packets)]]
    <3>1. CASE UNCHANGED chan
          BY <3>1 DEF TypeOK
    <3>2. CASE chan' = [chan EXCEPT ![n][k] = Append(chan[n][k], pkt[n][t])]
          BY <2>1, <2>3, <3>2 DEF TypeOK
    <3> QED BY <2>2, <3>1, <3>2
  <2>5. nxt[n][t] + 1 \in Nat \ {0}
    <3>1. nxt[n][t] \in Nat
          BY DEF TypeOK
    <3> QED BY <3>1
  <2>6. nxt' \in [Clients -> [Clients -> Nat \ {0}]]
        BY <1>3, <2>5 DEF TypeOK, SendNext
  <2> QED BY <1>3, <2>4, <2>6 DEF TypeOK, SendNext
<1>4. ASSUME NEW n \in Clients, NEW t \in Clients, SendDone(n, t) PROVE TypeOK'
  <2>1. /\ pc'  \in [Clients -> [Clients -> PCs]]
        /\ pkt' \in [Clients -> [Clients -> Packets]]
    <3>1. CASE Goto(n, t, "logging") /\ UNCHANGED pkt
          BY <3>1 DEF TypeOK, Goto, PCs
    <3>2. CASE Idle(n, t)
          BY <3>2, IdleType
    <3> QED BY <1>4, <3>1, <3>2 DEF SendDone
  <2>2. nxt' \in [Clients -> [Clients -> Nat \ {0}]]
        BY <1>4 DEF TypeOK, SendDone
  <2> QED BY <1>4, <2>1, <2>2 DEF TypeOK, SendDone
<1>5. ASSUME NEW n \in Clients, LogOwn(n) PROVE TypeOK'
  <2>1. PktID(n, n) \in IDs
        BY IDType DEF PktID, TypeOK, Packets
  <2>2. msgLog' \in [Clients -> Seq(IDs)]
        BY <1>5, <2>1, LogType DEF LogOwn
  <2> QED BY <1>5, <2>2, IdleType DEF TypeOK, LogOwn
<1>6. ASSUME NEW n \in Clients, NEW k \in Clients, Receive(n, k) PROVE TypeOK'
  <2>1. /\ Head(chan[k][n]) \in Packets
        /\ Tail(chan[k][n]) \in Seq(Packets)
        BY <1>6 DEF TypeOK, Receive
  <2>2. chan' \in [Clients -> [Clients -> Seq(Packets)]]
        BY <1>6, <2>1 DEF TypeOK, Receive
  <2>3. pkt' \in [Clients -> [Clients -> Packets]]
        BY <1>6, <2>1 DEF TypeOK, Receive
  <2>4. pc' \in [Clients -> [Clients -> PCs]]
        BY <1>6 DEF TypeOK, Receive, Goto, PCs
  <2> QED BY <1>6, <2>2, <2>3, <2>4 DEF TypeOK, Receive
<1>7. ASSUME NEW n \in Clients, NEW k \in Clients, CheckID(n, k) PROVE TypeOK'
  <2>1. /\ pc'  \in [Clients -> [Clients -> PCs]]
        /\ pkt' \in [Clients -> [Clients -> Packets]]
    <3>1. CASE Idle(n, k)
          BY <3>1, IdleType
    <3>2. CASE Goto(n, k, "fresh") /\ UNCHANGED pkt
          BY <3>2 DEF TypeOK, Goto, PCs
    <3> QED BY <1>7, <3>1, <3>2 DEF CheckID
  <2> QED BY <1>7, <2>1 DEF TypeOK, CheckID
<1>8. ASSUME NEW n \in Clients, NEW k \in Clients, Accept(n, k) PROVE TypeOK'
  <2>1. PktID(n, k) \in IDs
        BY IDType DEF PktID, TypeOK, Packets
  <2>2. msgLog' \in [Clients -> Seq(IDs)]
        BY <1>8, <2>1, LogType DEF Accept
  <2>3. /\ (pkt[n][k].hop + 1) % HopMod \in 0 .. HopMod - 1
        /\ pkt[n][k].msg \in Msgs
    <3>1. pkt[n][k] \in Packets
          BY DEF TypeOK
    <3>2. pkt[n][k].hop \in Nat /\ pkt[n][k].msg \in Msgs
          BY <3>1 DEF Packets
    <3> QED BY <3>2, SizeAssumption
  <2>4. pkt' \in [Clients -> [Clients -> Packets]]
    <3>1. [pkt[n][k] EXCEPT !.hop = (pkt[n][k].hop + 1) % HopMod] \in Packets
      <4>1. pkt[n][k] \in Packets
            BY DEF TypeOK
      <4> QED BY <2>3, <4>1 DEF Packets
    <3>2. pkt' = [pkt EXCEPT ![n][k] =
                     [pkt[n][k] EXCEPT !.hop = (pkt[n][k].hop + 1) % HopMod]]
          BY <1>8 DEF Accept
    <3> QED BY <3>1, <3>2 DEF TypeOK
  <2>5. shown[n][k] \cup {pkt[n][k].msg} \in SUBSET Msgs
        BY <2>3 DEF TypeOK
  <2>6. shown' \in [Clients -> [Clients -> SUBSET Msgs]]
        BY <1>8, <2>5 DEF TypeOK, Accept
  <2>7. pc' \in [Clients -> [Clients -> PCs]]
        BY <1>8 DEF TypeOK, Accept, Goto, PCs
  <2> QED BY <1>8, <2>2, <2>4, <2>6, <2>7 DEF TypeOK, Accept
<1> QED BY <1>1, <1>2, <1>3, <1>4, <1>5, <1>6, <1>7, <1>8 DEF Next

(* Every state of the flood is well typed.                                  *)
THEOREM TypeCorrect == Spec => []TypeOK
BY TypeInit, TypeStep, PTL DEF Spec

-----------------------------------------------------------------------------

(* What it means to have heard an ID.                                       *)
LEMMA HeardDef ==
    ASSUME TypeOK, NEW n \in Clients, NEW id
    PROVE  id \in Heard(n) <=>
              \E m \in Msgs : /\ MsgID[m] = id
                              /\ \/ m \in posted /\ Sender[m] = n
                                 \/ \E k \in Clients : m \in shown[n][k]
BY DEF TypeOK, Heard

(* Only Post and Accept touch what was posted and shown.                    *)
LEMMA HistoryChange ==
    ASSUME [Next]_vars
    PROVE  \/ UNCHANGED <<posted, shown>>
           \/ \E m \in Msgs : Post(m)
           \/ \E n, k \in Clients : Accept(n, k)
<1>1. CASE UNCHANGED vars
      BY <1>1 DEF vars
<1>2. ASSUME NEW n \in Clients, NEW k \in Clients, SendNext(n, k)
      PROVE  UNCHANGED <<posted, shown>>
      BY <1>2 DEF SendNext
<1>3. ASSUME NEW n \in Clients, NEW k \in Clients, SendDone(n, k)
      PROVE  UNCHANGED <<posted, shown>>
      BY <1>3 DEF SendDone
<1>4. ASSUME NEW n \in Clients, NEW k \in Clients, Receive(n, k) \/ CheckID(n, k)
      PROVE  UNCHANGED <<posted, shown>>
      BY <1>4 DEF Receive, CheckID
<1>5. ASSUME NEW n \in Clients, LogOwn(n)
      PROVE  UNCHANGED <<posted, shown>>
      BY <1>5 DEF LogOwn
<1> QED BY <1>1, <1>2, <1>3, <1>4, <1>5 DEF Next

(* No step forgets a posted or a shown message.                             *)
LEMMA Grows ==
    ASSUME TypeOK, [Next]_vars
    PROVE  /\ posted \subseteq posted'
           /\ \A n, k \in Clients : shown[n][k] \subseteq shown'[n][k]
<1>1. ASSUME NEW n \in Clients, NEW k \in Clients, Accept(n, k)
      PROVE  \A x, y \in Clients : shown[x][y] \subseteq shown'[x][y]
      BY <1>1 DEF Accept, TypeOK
<1>2. ASSUME NEW n \in Clients, NEW k \in Clients, Accept(n, k)
      PROVE  posted' = posted
      BY <1>2 DEF Accept
<1>3. ASSUME NEW m \in Msgs, Post(m)
      PROVE  posted \subseteq posted' /\ shown' = shown
      BY <1>3 DEF Post
<1> QED BY <1>1, <1>2, <1>3, HistoryChange

(* So a client never forgets an ID.                                         *)
LEMMA HeardGrows ==
    ASSUME TypeOK, TypeOK', [Next]_vars, NEW n \in Clients
    PROVE  Heard(n) \subseteq Heard(n)'
<1> SUFFICES ASSUME NEW id, id \in Heard(n) PROVE id \in Heard(n)'
    OBVIOUS
<1>1. PICK m \in Msgs : /\ MsgID[m] = id
                        /\ \/ m \in posted /\ Sender[m] = n
                           \/ \E k \in Clients : m \in shown[n][k]
      BY HeardDef
<1>2. \/ m \in posted' /\ Sender[m] = n
      \/ \E k \in Clients : m \in shown'[n][k]
      BY <1>1, Grows
<1>3. (id \in Heard(n) <=>
              \E p \in Msgs : /\ MsgID[p] = id
                              /\ \/ p \in posted /\ Sender[p] = n
                                 \/ \E k \in Clients : p \in shown[n][k])'
  <2>1. /\ posted' \in SUBSET Msgs
        /\ shown' \in [Clients -> [Clients -> SUBSET Msgs]]
        BY DEF TypeOK
  <2> QED BY <2>1 DEF Heard
<1> QED BY <1>1, <1>2, <1>3

(* A step puts p on the wire from n to k, or takes the head off that wire.  *)
Puts(n, k, p) == chan' = [chan EXCEPT ![n][k] = Append(@, p)]
Takes(n, k)   == chan[n][k] # <<>> /\ chan' = [chan EXCEPT ![n][k] = Tail(@)]

(* A packet put on a connection is on that wire, and on no other.           *)
LEMMA WireAppend ==
    ASSUME TypeOK, NEW n \in Clients, NEW k \in Clients, NEW p \in Packets, Puts(n, k, p)
    PROVE  \A x, y \in Clients : \A id : OnWire(x, y, id)' <=>
              OnWire(x, y, id) \/ (x = n /\ y = k /\ MsgID[p.msg] = id)
<1> TAKE x, y \in Clients
<1> TAKE id
<1>1. chan[n][k] \in Seq(Packets)
      BY DEF TypeOK
<1>2. CASE x = n /\ y = k
  <2>1. chan'[x][y] = Append(chan[x][y], p)
        BY <1>2 DEF TypeOK, Puts
  <2> DEFINE s == chan[x][y]
             u == chan'[x][y]
  <2>2. s \in Seq(Packets) /\ u = Append(s, p)
        BY <1>1, <1>2, <2>1
  <2> HIDE DEF s, u
  <2>3. /\ DOMAIN u = DOMAIN s \cup {Len(s) + 1}
        /\ u[Len(s) + 1] = p
        /\ \A i \in DOMAIN s : u[i] = s[i]
        BY <2>2
  <2>4. (\E i \in DOMAIN u : MsgID[u[i].msg] = id)
          <=> (\E i \in DOMAIN s : MsgID[s[i].msg] = id) \/ MsgID[p.msg] = id
        BY <2>3
  <2> QED BY <1>2, <2>4 DEF OnWire, s, u
<1>3. CASE ~(x = n /\ y = k)
  <2>1. chan'[x][y] = chan[x][y]
        BY <1>3 DEF TypeOK, Puts
  <2> QED BY <1>3, <2>1 DEF OnWire
<1> QED BY <1>2, <1>3

(* Reading takes one packet off one wire.                                   *)
LEMMA WireTail ==
    ASSUME TypeOK, NEW n \in Clients, NEW k \in Clients, Takes(n, k)
    PROVE  \A x, y \in Clients : \A id : OnWire(x, y, id) <=>
              \/ OnWire(x, y, id)'
              \/ x = n /\ y = k /\ MsgID[Head(chan[n][k]).msg] = id
<1> TAKE x, y \in Clients
<1> TAKE id
<1>1. chan[n][k] \in Seq(Packets)
      BY DEF TypeOK
<1>2. CASE x = n /\ y = k
  <2>1. chan'[x][y] = Tail(chan[x][y])
        BY <1>2 DEF TypeOK, Takes
  <2>2. /\ Head(chan[x][y]) = chan[x][y][1]
        /\ 1 \in DOMAIN chan[x][y]
        /\ DOMAIN chan[x][y] = 1 .. Len(chan[x][y])
        /\ DOMAIN chan'[x][y] = 1 .. Len(chan[x][y]) - 1
        /\ \A i \in DOMAIN chan'[x][y] : chan'[x][y][i] = chan[x][y][i + 1]
    <3> DEFINE s == chan[x][y]
    <3>1. s \in Seq(Packets) /\ s # <<>> /\ chan'[x][y] = Tail(s)
          BY <1>1, <1>2, <2>1 DEF Takes
    <3> HIDE DEF s
    <3>2. /\ Head(s) = s[1]
          /\ 1 \in DOMAIN s
          /\ DOMAIN s = 1 .. Len(s)
          /\ DOMAIN Tail(s) = 1 .. Len(s) - 1
          /\ \A i \in DOMAIN Tail(s) : Tail(s)[i] = s[i + 1]
          BY <3>1
    <3> QED BY <3>1, <3>2 DEF s
  <2>3. ASSUME NEW i \in DOMAIN chan[x][y], i # 1
        PROVE  i - 1 \in DOMAIN chan'[x][y] /\ chan'[x][y][i - 1] = chan[x][y][i]
    <3>1. Len(chan[x][y]) \in Nat
          BY <1>1, <1>2
    <3>2. i \in Nat /\ i - 1 \in 1 .. Len(chan[x][y]) - 1 /\ i = i - 1 + 1
          BY <2>2, <2>3, <3>1
    <3>3. i - 1 \in DOMAIN chan'[x][y]
          BY <2>2, <3>2
    <3>4. chan'[x][y][i - 1] = chan[x][y][i - 1 + 1]
          BY <2>2, <3>3
    <3> QED BY <3>2, <3>3, <3>4
  <2>4. ASSUME NEW i \in DOMAIN chan'[x][y]
        PROVE  i + 1 \in DOMAIN chan[x][y]
        BY <1>1, <1>2, <2>2
  <2>5. ASSUME OnWire(x, y, id)
        PROVE  OnWire(x, y, id)' \/ MsgID[Head(chan[x][y]).msg] = id
    <3>1. PICK i \in DOMAIN chan[x][y] : MsgID[chan[x][y][i].msg] = id
          BY <2>5 DEF OnWire
    <3>2. CASE i = 1
          BY <2>2, <3>1, <3>2
    <3>3. CASE i # 1
      <4>1. i - 1 \in DOMAIN chan'[x][y] /\ MsgID[chan'[x][y][i - 1].msg] = id
            BY <2>3, <3>1, <3>3
      <4> QED BY <4>1 DEF OnWire
    <3> QED BY <3>2, <3>3
  <2>6. ASSUME OnWire(x, y, id)'
        PROVE  OnWire(x, y, id)
        BY <2>2, <2>4, <2>6 DEF OnWire
  <2>7. ASSUME MsgID[Head(chan[x][y]).msg] = id
        PROVE  OnWire(x, y, id)
        BY <2>2, <2>7 DEF OnWire
  <2> QED BY <1>2, <2>5, <2>6, <2>7
<1>3. CASE ~(x = n /\ y = k)
  <2>1. chan'[x][y] = chan[x][y]
        BY <1>3 DEF TypeOK, Takes
  <2> QED BY <1>3, <2>1 DEF OnWire
<1> QED BY <1>2, <1>3

-----------------------------------------------------------------------------
(* What each action does to the thread that takes it, and that it leaves    *)
(* every other thread alone.                                                *)

(* The send thread takes up m.                                              *)
LEMMA PostEffect ==
    ASSUME TypeOK, NEW m \in Msgs, Post(m)
    PROVE  \A x, y \in Clients :
              /\ pc'[x][y] = IF x = Sender[m] /\ y = x THEN "sending" ELSE pc[x][y]
              /\ PktID(x, y)' = IF x = Sender[m] /\ y = x THEN MsgID[m] ELSE PktID(x, y)
<1> DEFINE n == Sender[m]
           p == [msg |-> m, hop |-> 0]
<1>1. n \in Clients
      BY MsgAssumption
<1>2. /\ pc'  = [pc EXCEPT ![n][n] = "sending"]
      /\ pkt' = [pkt EXCEPT ![n][n] = p]
      BY DEF Post, Goto
<1>3. p.msg = m
      OBVIOUS
<1> HIDE DEF n, p
<1>4. \A x, y \in Clients :
         /\ pc'[x][y] = IF x = n /\ y = n THEN "sending" ELSE pc[x][y]
         /\ pkt'[x][y] = IF x = n /\ y = n THEN p ELSE pkt[x][y]
      BY <1>1, <1>2 DEF TypeOK
<1> QED BY <1>3, <1>4 DEF PktID, n

(* A thread that goes idle: no other thread moves.                          *)
LEMMA IdleEffect ==
    ASSUME TypeOK, NEW n \in Clients, NEW t \in Clients, Idle(n, t)
    PROVE  \A x, y \in Clients :
              /\ pc'[x][y] = IF x = n /\ y = t THEN "idle" ELSE pc[x][y]
              /\ ~(x = n /\ y = t) => PktID(x, y)' = PktID(x, y)
BY DEF TypeOK, Idle, Goto, PktID

(* A thread moves to a label: no other thread moves.                        *)
LEMMA GotoEffect ==
    ASSUME TypeOK, NEW n \in Clients, NEW t \in Clients, NEW label, Goto(n, t, label)
    PROVE  \A x, y \in Clients :
              pc'[x][y] = IF x = n /\ y = t THEN label ELSE pc[x][y]
BY DEF TypeOK, Goto

(* The thread that receives takes up the ID of the first packet.            *)
LEMMA ReceiveEffect ==
    ASSUME TypeOK, NEW n \in Clients, NEW k \in Clients, Receive(n, k)
    PROVE  \A x, y \in Clients :
              PktID(x, y)' = IF x = n /\ y = k THEN MsgID[Head(chan[k][n]).msg]
                                               ELSE PktID(x, y)
BY DEF TypeOK, Receive, PktID

(* Counting the hop does not change which ID a thread works on.             *)
LEMMA AcceptEffect ==
    ASSUME TypeOK, NEW n \in Clients, NEW k \in Clients, Accept(n, k)
    PROVE  \A x, y \in Clients : PktID(x, y)' = PktID(x, y)
<1> DEFINE p == [pkt[n][k] EXCEPT !.hop = (@ + 1) % HopMod]
<1>1. pkt' = [pkt EXCEPT ![n][k] = p]
      BY DEF Accept
<1>2. p.msg = pkt[n][k].msg
  <2>1. pkt[n][k] \in Packets
        BY DEF TypeOK
  <2> QED BY <2>1 DEF Packets
<1> HIDE DEF p
<1>3. \A x, y \in Clients : pkt'[x][y].msg = pkt[x][y].msg
      BY <1>1, <1>2 DEF TypeOK
<1> QED BY <1>3 DEF PktID

(* A loop index changes: no other index does.                               *)
LEMMA NxtEffect ==
    ASSUME TypeOK, NEW n \in Clients, NEW t \in Clients, NEW e,
           nxt' = [nxt EXCEPT ![n][t] = e]
    PROVE  \A x, y \in Clients :
              nxt'[x][y] = IF x = n /\ y = t THEN e ELSE nxt[x][y]
BY DEF TypeOK

(* A step that leaves the connections alone leaves every wire alone.        *)
LEMMA WireSame ==
    ASSUME UNCHANGED chan, NEW x, NEW y, NEW id
    PROVE  OnWire(x, y, id)' <=> OnWire(x, y, id)
BY DEF OnWire

(* The new ID of a sender, and of a receiver that accepts.                  *)
LEMMA PostHeard ==
    ASSUME TypeOK, TypeOK', NEW m \in Msgs, Post(m)
    PROVE  /\ MsgID[m] \in Heard(Sender[m])'
           /\ \A x \in Clients : \A id \in Heard(x)' :
                 id \in Heard(x) \/ (x = Sender[m] /\ id = MsgID[m])
<1>1. /\ posted' = posted \cup {m}
      /\ shown' = shown
      BY DEF Post
<1> QED BY <1>1 DEF Heard

(* Accepting an ID is hearing it, and nothing else is heard.                *)
LEMMA AcceptHeard ==
    ASSUME TypeOK, TypeOK', NEW n \in Clients, NEW k \in Clients, Accept(n, k)
    PROVE  /\ PktID(n, k) \in Heard(n)'
           /\ \A x \in Clients : \A id \in Heard(x)' :
                 id \in Heard(x) \/ (x = n /\ id = PktID(n, k))
<1> DEFINE S == shown[n][k] \cup {pkt[n][k].msg}
<1>1. posted' = posted /\ shown' = [shown EXCEPT ![n][k] = S]
      BY DEF Accept
<1> HIDE DEF S
<1>2. \A x, y \in Clients :
         shown'[x][y] = IF x = n /\ y = k THEN S ELSE shown[x][y]
      BY <1>1 DEF TypeOK
<1>3. PktID(n, k) \in Heard(n)'
      BY <1>2 DEF Heard, PktID, S
<1>4. ASSUME NEW x \in Clients, NEW id \in Heard(x)'
      PROVE  id \in Heard(x) \/ (x = n /\ id = PktID(n, k))
  <2>1. PICK m : /\ MsgID[m] = id
                 /\ \/ m \in posted /\ Sender[m] = x
                    \/ \E y \in Clients : m \in shown'[x][y]
        BY <1>1 DEF Heard
  <2>2. CASE m \in posted /\ Sender[m] = x
        BY <2>1, <2>2 DEF Heard
  <2>3. ASSUME NEW y \in Clients, m \in shown'[x][y]
        PROVE  id \in Heard(x) \/ (x = n /\ id = PktID(n, k))
    <3>1. m \in shown[x][y] \/ (x = n /\ m = pkt[n][k].msg)
          BY <1>2, <2>3 DEF S
    <3> QED BY <2>1, <3>1 DEF Heard, PktID
  <2> QED BY <2>1, <2>2, <2>3
<1> QED BY <1>3, <1>4

(* Every other step leaves what clients have heard alone.                   *)
LEMMA HeardSame ==
    ASSUME UNCHANGED <<posted, shown>>, NEW n
    PROVE  Heard(n)' = Heard(n)
BY DEF Heard

-----------------------------------------------------------------------------

(* A packet appears on a wire only because a forwarding loop put it there.  *)
LEMMA WireChange ==
    ASSUME TypeOK, [Next]_vars, NEW x \in Clients, NEW y \in Clients, NEW id,
           OnWire(x, y, id)'
    PROVE  \/ OnWire(x, y, id)
           \/ \E t \in Clients : /\ pc[x][t] = "sending" /\ id = PktID(x, t)
                              /\ x \in Nbr(y)
<1>1. CASE UNCHANGED chan
      BY <1>1, WireSame
<1>2. ASSUME NEW n \in Clients, NEW t \in Clients, SendNext(n, t), chan' # chan
      PROVE  \/ OnWire(x, y, id)
             \/ \E u \in Clients : /\ pc[x][u] = "sending" /\ id = PktID(x, u)
                                   /\ x \in Nbr(y)
  <2> DEFINE k == Peers[n][nxt[n][t]]
             p == pkt[n][t]
  <2>1. k \in Clients /\ pc[n][t] = "sending" /\ n \in Nbr(k)
    <3>1. nxt[n][t] \in DOMAIN Peers[n] /\ pc[n][t] = "sending"
          BY <1>2 DEF SendNext
    <3>2. k \in Clients /\ k \in Nbr(n)
          BY <3>1, PeerType
    <3>3. n \in Nbr(k)
          BY <3>2, GraphAssumption
    <3> QED BY <3>1, <3>2, <3>3
  <2>2. p \in Packets
        BY DEF TypeOK
  <2>3. Puts(n, k, p)
        BY <1>2 DEF SendNext, Puts
  <2> HIDE DEF k, p
  <2>4. \A a, b \in Clients : \A i :
           OnWire(a, b, i)' <=> OnWire(a, b, i) \/ (a = n /\ b = k /\ MsgID[p.msg] = i)
        BY <2>1, <2>2, <2>3, WireAppend
  <2>5. OnWire(x, y, id) \/ (x = n /\ y = k /\ id = MsgID[p.msg])
        BY <2>4
  <2> QED BY <2>1, <2>5 DEF p, PktID
<1>3. ASSUME NEW n \in Clients, NEW k \in Clients, Receive(n, k)
      PROVE  OnWire(x, y, id)
  <2>1. Takes(k, n)
        BY <1>3 DEF Receive, Takes
  <2> QED BY <2>1, WireTail
<1> QED BY <1>1, <1>2, <1>3
        DEF Next, vars, Post, SendDone, LogOwn, CheckID, Accept

(* A thread changes only by a step of its own.                              *)
OwnStep(x, y) ==
    \/ SendNext(x, y) \/ SendDone(x, y) \/ Receive(x, y) \/ CheckID(x, y) \/ Accept(x, y)
    \/ y = x /\ LogOwn(x)
    \/ y = x /\ \E m \in Msgs : x = Sender[m] /\ Post(m)

Unmoved(x, y) ==
    /\ pc'[x][y] = pc[x][y]
    /\ PktID(x, y)' = PktID(x, y)
    /\ nxt'[x][y] = nxt[x][y]

(* A thread changes only in a step of its own.                              *)
LEMMA ThreadChange ==
    ASSUME TypeOK, [Next]_vars, NEW x \in Clients, NEW y \in Clients
    PROVE  OwnStep(x, y) \/ Unmoved(x, y)
<1>1. CASE UNCHANGED vars
      BY <1>1 DEF vars, Unmoved, PktID
<1>2. ASSUME NEW m \in Msgs, Post(m), ~OwnStep(x, y)
      PROVE  Unmoved(x, y)
  <2>1. nxt' = nxt
        BY <1>2 DEF Post
  <2>2. ~(x = Sender[m] /\ y = x)
        BY <1>2 DEF OwnStep
  <2> QED BY <1>2, <2>1, <2>2, PostEffect DEF Unmoved
<1>3. ASSUME NEW n \in Clients, NEW t \in Clients, Idle(n, t), ~(x = n /\ y = t)
      PROVE  pc'[x][y] = pc[x][y] /\ PktID(x, y)' = PktID(x, y)
      BY <1>3, IdleEffect
<1>4. ASSUME NEW n \in Clients, NEW t \in Clients, NEW label, Goto(n, t, label),
             ~(x = n /\ y = t)
      PROVE  pc'[x][y] = pc[x][y]
      BY <1>4, GotoEffect
<1>5. ASSUME UNCHANGED pkt PROVE PktID(x, y)' = PktID(x, y)
      BY <1>5 DEF PktID
<1>6. ASSUME NEW n \in Clients, NEW t \in Clients, SendNext(n, t), ~(x = n /\ y = t)
      PROVE  Unmoved(x, y)
  <2>1. nxt'[x][y] = nxt[x][y]
        BY <1>6 DEF SendNext, TypeOK
  <2> QED BY <1>5, <1>6, <2>1 DEF SendNext, Unmoved
<1>7. ASSUME NEW n \in Clients, NEW t \in Clients, SendDone(n, t), ~(x = n /\ y = t)
      PROVE  Unmoved(x, y)
  <2>1. nxt'[x][y] = nxt[x][y]
        BY <1>7 DEF SendDone, TypeOK
  <2> QED BY <1>3, <1>4, <1>5, <1>7, <2>1 DEF SendDone, Unmoved
<1>8. ASSUME NEW n \in Clients, LogOwn(n), ~(x = n /\ y = n)
      PROVE  Unmoved(x, y)
      BY <1>3, <1>8 DEF LogOwn, Unmoved
<1>9. ASSUME NEW n \in Clients, NEW t \in Clients, Receive(n, t), ~(x = n /\ y = t)
      PROVE  Unmoved(x, y)
  <2>1. PktID(x, y)' = PktID(x, y)
        BY <1>9, ReceiveEffect
  <2> QED BY <1>4, <1>9, <2>1 DEF Receive, Unmoved
<1>10. ASSUME NEW n \in Clients, NEW t \in Clients, CheckID(n, t), ~(x = n /\ y = t)
       PROVE  Unmoved(x, y)
       BY <1>3, <1>4, <1>5, <1>10 DEF CheckID, Unmoved
<1>11. ASSUME NEW n \in Clients, NEW t \in Clients, Accept(n, t), ~(x = n /\ y = t)
       PROVE  Unmoved(x, y)
  <2>1. PktID(x, y)' = PktID(x, y)
        BY <1>11, AcceptEffect
  <2> QED BY <1>4, <1>11, <2>1 DEF Accept, Unmoved
<1> QED BY <1>1, <1>2, <1>6, <1>7, <1>8, <1>9, <1>10, <1>11 DEF Next, OwnStep

(* A thread that is busy after a step was busy with the same ID before, or  *)
(* has just read the packet, or has just taken it from its user.            *)
LEMMA PktChange ==
    ASSUME TypeOK, [Next]_vars, NEW x \in Clients, NEW y \in Clients,
           pc'[x][y] # "idle"
    PROVE  \/ pc[x][y] # "idle" /\ PktID(x, y)' = PktID(x, y)
           \/ x # y /\ Receive(x, y)
           \/ \E m \in Msgs : x = Sender[m] /\ y = x /\ Post(m)
<1>1. CASE Unmoved(x, y)
      BY <1>1 DEF Unmoved
<1>2. ASSUME Idle(x, y) PROVE FALSE
      BY <1>2, IdleEffect
<1>3. CASE SendNext(x, y) \/ SendDone(x, y) \/ CheckID(x, y)
      BY <1>2, <1>3 DEF SendNext, SendDone, CheckID, PktID
<1>4. CASE Accept(x, y)
      BY <1>4, AcceptEffect DEF Accept
<1>5. CASE Receive(x, y)
      BY <1>5 DEF Receive
<1>6. CASE LogOwn(x) /\ y = x
      BY <1>2, <1>6 DEF LogOwn
<1> QED BY <1>1, <1>3, <1>4, <1>5, <1>6, ThreadChange DEF OwnStep

(* A thread that sends or is about to log after a step did so before, or    *)
(* has just accepted the packet, or has just taken it from its user.        *)
LEMMA SendStarts ==
    ASSUME TypeOK, [Next]_vars, NEW x \in Clients, NEW y \in Clients,
           pc'[x][y] \in {"sending", "logging"}
    PROVE  \/ pc[x][y] \in {"sending", "logging"}
           \/ Accept(x, y)
           \/ \E m \in Msgs : x = Sender[m] /\ y = x /\ Post(m)
<1>1. CASE Unmoved(x, y)
      BY <1>1 DEF Unmoved
<1>2. CASE SendNext(x, y) \/ SendDone(x, y) \/ (LogOwn(x) /\ y = x)
      BY <1>2 DEF SendNext, SendDone, LogOwn
<1>3. CASE Receive(x, y) \/ CheckID(x, y)
      BY <1>3, IdleEffect, GotoEffect DEF Receive, CheckID
<1> QED BY <1>1, <1>2, <1>3, ThreadChange DEF OwnStep

(* An ID appears in a log only because its client accepts or has sent it.   *)
LEMMA LogChange ==
    ASSUME TypeOK, [Next]_vars, NEW n \in Clients, NEW id, InLog(n, id)'
    PROVE  \/ InLog(n, id)
           \/ \E k \in Clients : Accept(n, k) /\ id = PktID(n, k)
           \/ pc[n][n] = "logging" /\ id = PktID(n, n)
<1>1. CASE UNCHANGED msgLog
      BY <1>1 DEF InLog
<1>2. ASSUME NEW x \in Clients, NEW new \in IDs, AddMessageToLog(x, new)
      PROVE  InLog(n, id) \/ (n = x /\ id = new)
  <2>1. CASE n # x
        BY <1>2, <2>1 DEF AddMessageToLog, InLog, TypeOK
  <2>2. CASE n = x
    <3>1. msgLog[n] \in Seq(IDs)
          BY DEF TypeOK
    <3>2. msgLog'[n] = Append(msgLog[n], new) \/ msgLog'[n] = <<>>
          BY <1>2, <2>2 DEF AddMessageToLog, TypeOK
    <3> QED BY <2>2, <3>1, <3>2 DEF InLog
  <2> QED BY <2>1, <2>2
<1>3. \A x, y \in Clients : PktID(x, y) \in IDs
      BY IDType DEF PktID, TypeOK, Packets
<1>4. ASSUME NEW x \in Clients, NEW k \in Clients, Accept(x, k)
      PROVE  InLog(n, id) \/ (n = x /\ id = PktID(x, k))
      BY <1>2, <1>3, <1>4 DEF Accept
<1>5. ASSUME NEW x \in Clients, LogOwn(x)
      PROVE  InLog(n, id) \/ (n = x /\ id = PktID(x, x) /\ pc[x][x] = "logging")
      BY <1>2, <1>3, <1>5 DEF LogOwn
<1>6. ASSUME NEW x \in Clients, NEW y \in Clients, SendNext(x, y) \/ SendDone(x, y)
      PROVE  UNCHANGED msgLog
      BY <1>6 DEF SendNext, SendDone
<1>7. ASSUME NEW x \in Clients, NEW y \in Clients, Receive(x, y) \/ CheckID(x, y)
      PROVE  UNCHANGED msgLog
      BY <1>7 DEF Receive, CheckID
<1>8. ASSUME NEW m \in Msgs, Post(m)
      PROVE  UNCHANGED msgLog
      BY <1>8 DEF Post
<1>9. CASE UNCHANGED vars
      BY <1>1, <1>9 DEF vars
<1> QED BY <1>1, <1>4, <1>5, <1>6, <1>7, <1>8, <1>9 DEF Next

-----------------------------------------------------------------------------
(* The parts of the inductive invariant, step by step.                      *)

(* Carried is preserved.                                                    *)
LEMMA CarriedStep ==
    ASSUME TypeOK, TypeOK', Carried, Working, [Next]_vars
    PROVE  Carried'
<1>1. ASSUME NEW n \in Clients, NEW k \in Clients, NEW id \in IDs, OnWire(n, k, id)'
      PROVE  n \in Nbr(k) /\ id \in Heard(n)'
  <2>1. CASE OnWire(n, k, id)
        BY <2>1, HeardGrows DEF Carried
  <2>2. ASSUME NEW t \in Clients, pc[n][t] = "sending", id = PktID(n, t)
        PROVE  id \in Heard(n)'
        BY <2>2, HeardGrows DEF Working
  <2> QED BY <1>1, <2>1, <2>2, WireChange
<1>2. ASSUME NEW n \in Clients, NEW k \in Clients, k # n, pc'[k][n] # "idle"
      PROVE  n \in Nbr(k) /\ PktID(k, n)' \in Heard(n)'
  <2>1. CASE pc[k][n] # "idle" /\ PktID(k, n)' = PktID(k, n)
        BY <1>2, <2>1, HeardGrows DEF Carried
  <2>2. CASE Receive(k, n)
    <3> DEFINE id == MsgID[Head(chan[n][k]).msg]
    <3>1. chan[n][k] \in Seq(Packets) /\ chan[n][k] # <<>>
          BY <2>2 DEF Receive, TypeOK
    <3>2. Head(chan[n][k]) \in Packets
          BY <3>1
    <3>3. id \in IDs
          BY <3>2, IDType DEF Packets
    <3>4. PktID(k, n)' = id
          BY <2>2, ReceiveEffect
    <3>5. OnWire(n, k, id)
          BY <3>1 DEF OnWire
    <3> QED BY <3>3, <3>4, <3>5, HeardGrows DEF Carried
  <2> QED BY <1>2, <2>1, <2>2, PktChange
<1> QED BY <1>1, <1>2 DEF Carried, Nbr

(* Working is preserved.                                                    *)
LEMMA WorkingStep ==
    ASSUME TypeOK, TypeOK', Working, Carried, [Next]_vars
    PROVE  Working'
<1>1. ASSUME NEW n \in Clients, NEW t \in Clients, pc'[n][t] \in {"sending", "logging"}
      PROVE  PktID(n, t)' \in Heard(n)'
  <2>1. CASE pc[n][t] \in {"sending", "logging"}
    <3>1. PktID(n, t)' = PktID(n, t)
      <4>1. pc'[n][t] # "idle"
            BY <1>1
      <4>2. \A m \in Msgs : ~(n = Sender[m] /\ t = n /\ Post(m))
            BY <2>1 DEF Post
      <4>3. ~Receive(n, t)
            BY <2>1 DEF Receive
      <4> QED BY <4>1, <4>2, <4>3, PktChange
    <3> QED BY <2>1, <3>1, HeardGrows DEF Working
  <2>2. CASE Accept(n, t)
        BY <2>2, AcceptEffect, AcceptHeard
  <2>3. ASSUME NEW m \in Msgs, n = Sender[m], t = n, Post(m)
        PROVE  PktID(n, t)' \in Heard(n)'
        BY <2>3, PostEffect, PostHeard
  <2> QED BY <1>1, <2>1, <2>2, <2>3, SendStarts
<1>2. ASSUME NEW n \in Clients, NEW t \in Clients, pc'[n][t] # "sending"
      PROVE  nxt'[n][t] = 1
  <2>1. CASE Unmoved(n, t)
        BY <1>2, <2>1 DEF Working, Unmoved
  <2>2. CASE SendNext(n, t)
        BY <1>2, <2>2 DEF SendNext
  <2>3. CASE SendDone(n, t)
        BY <2>3 DEF SendDone, TypeOK
  <2>4. CASE OwnStep(n, t) /\ ~SendNext(n, t) /\ ~SendDone(n, t)
    <3>1. pc[n][t] # "sending" /\ nxt' = nxt
          BY <2>4 DEF OwnStep, Receive, CheckID, Accept, LogOwn, Post
    <3> QED BY <3>1 DEF Working
  <2> QED BY <2>1, <2>2, <2>3, <2>4, ThreadChange
<1> QED BY <1>1, <1>2 DEF Working

(* LogSound is preserved.                                                   *)
LEMMA LogSoundStep ==
    ASSUME TypeOK, TypeOK', LogSound, Working, [Next]_vars
    PROVE  LogSound'
<1> SUFFICES ASSUME NEW n \in Clients, NEW id \in IDs, InLog(n, id)'
             PROVE  id \in Heard(n)'
    BY DEF LogSound
<1>1. CASE InLog(n, id)
      BY <1>1, HeardGrows DEF LogSound
<1>2. ASSUME NEW k \in Clients, Accept(n, k), id = PktID(n, k)
      PROVE  id \in Heard(n)'
      BY <1>2, AcceptHeard
<1>3. CASE pc[n][n] = "logging" /\ id = PktID(n, n)
      BY <1>3, HeardGrows DEF Working
<1> QED BY <1>1, <1>2, <1>3, LogChange

(* A copy on its way stays on its way until its reader has heard it.        *)
LEMMA InFlightStep ==
    ASSUME TypeOK, TypeOK', LogSound, [Next]_vars,
           NEW n \in Clients, NEW k \in Clients, k # n, NEW id \in IDs,
           InFlight(n, k, id)
    PROVE  InFlight(n, k, id)' \/ id \in Heard(k)'
<1>1. CASE OnWire(n, k, id)
  <2>1. CASE UNCHANGED chan
        BY <1>1, <2>1, WireSame DEF InFlight
  <2>2. ASSUME NEW x \in Clients, NEW t \in Clients, SendNext(x, t), chan' # chan
        PROVE  OnWire(n, k, id)'
    <3> DEFINE y == Peers[x][nxt[x][t]]
               p == pkt[x][t]
    <3>1. y \in Clients
      <4>1. nxt[x][t] \in DOMAIN Peers[x]
            BY <2>2 DEF SendNext
      <4> QED BY <4>1, PeerType
    <3>2. p \in Packets
          BY DEF TypeOK
    <3>3. Puts(x, y, p)
          BY <2>2 DEF SendNext, Puts
    <3> HIDE DEF y, p
    <3> QED BY <1>1, <3>1, <3>2, <3>3, WireAppend
  <2>3. ASSUME NEW x \in Clients, NEW y \in Clients, Receive(x, y)
        PROVE  InFlight(n, k, id)'
    <3>1. OnWire(n, k, id)' \/ (y = n /\ x = k /\ MsgID[Head(chan[y][x]).msg] = id)
      <4>1. Takes(y, x)
            BY <2>3 DEF Receive, Takes
      <4>2. \A a, b \in Clients : \A i : OnWire(a, b, i) <=>
               \/ OnWire(a, b, i)'
               \/ a = y /\ b = x /\ MsgID[Head(chan[y][x]).msg] = i
            BY <4>1, WireTail
      <4> QED BY <1>1, <4>2
    <3>2. ASSUME y = n, x = k, MsgID[Head(chan[y][x]).msg] = id
          PROVE  pc'[k][n] = "received" /\ PktID(k, n)' = id
      <4>1. Goto(k, n, "received")
            BY <2>3, <3>2 DEF Receive
      <4>2. pc'[k][n] = "received"
            BY <4>1, GotoEffect
      <4> QED BY <2>3, <3>2, <4>2, ReceiveEffect
    <3> QED BY <3>1, <3>2 DEF InFlight
  <2>4. \/ UNCHANGED chan
        \/ \E x, t \in Clients : SendNext(x, t) \/ Receive(x, t)
        BY DEF Next, vars, Post, SendDone, LogOwn, CheckID, Accept
  <2> QED BY <2>1, <2>2, <2>3, <2>4 DEF InFlight
<1>2. CASE pc[k][n] \in {"received", "fresh"} /\ PktID(k, n) = id
  <2>1. CASE Unmoved(k, n)
        BY <1>2, <2>1 DEF Unmoved, InFlight
  <2>2. CASE CheckID(k, n)
    <3>1. CASE InLog(k, id)
          BY <3>1, HeardGrows DEF LogSound
    <3>2. CASE ~InLog(k, id)
      <4>1. Goto(k, n, "fresh") /\ UNCHANGED pkt
            BY <1>2, <2>2, <3>2 DEF CheckID
      <4>2. pc'[k][n] = "fresh"
            BY <4>1, GotoEffect
      <4>3. PktID(k, n)' = id
            BY <1>2, <4>1 DEF PktID
      <4> QED BY <4>2, <4>3 DEF InFlight
    <3> QED BY <3>1, <3>2
  <2>3. CASE Accept(k, n)
        BY <1>2, <2>3, AcceptHeard
  <2> QED BY <1>2, <2>1, <2>2, <2>3, ThreadChange
          DEF OwnStep, SendNext, SendDone, Receive, LogOwn
<1> QED BY <1>1, <1>2 DEF InFlight

(* A loop that has still to reach k sends to k, or skips k because the      *)
(* packet came from there.                                                  *)
LEMMA StillStep ==
    ASSUME TypeOK, TypeOK', Carried, [Next]_vars,
           NEW n \in Clients, NEW k \in Clients, k # n, NEW id \in IDs,
           StillToSend(n, k, id)
    PROVE  StillToSend(n, k, id)' \/ InFlight(n, k, id)' \/ id \in Heard(k)'
<1>1. PICK t \in Clients :
         /\ pc[n][t] = "sending"
         /\ PktID(n, t) = id
         /\ \E j \in DOMAIN Peers[n] : j >= nxt[n][t] /\ Peers[n][j] = k
      BY DEF StillToSend
<1>2. PICK j \in DOMAIN Peers[n] : j >= nxt[n][t] /\ Peers[n][j] = k
      BY <1>1
<1>3. CASE Unmoved(n, t)
      BY <1>1, <1>2, <1>3 DEF Unmoved, StillToSend
<1>4. CASE SendNext(n, t)
  <2>1. CASE j = nxt[n][t] /\ k = t
    <3>1. id \in Heard(k)
          BY <1>1, <2>1 DEF Carried
    <3> QED BY <3>1, HeardGrows
  <2>2. CASE j = nxt[n][t] /\ k # t
    <3> DEFINE p == pkt[n][t]
    <3>1. p \in Packets
          BY DEF TypeOK
    <3>2. Puts(n, k, p)
          BY <1>2, <1>4, <2>2 DEF SendNext, Puts
    <3>3. MsgID[p.msg] = id
          BY <1>1 DEF PktID
    <3> HIDE DEF p
    <3>4. OnWire(n, k, id)' <=> OnWire(n, k, id) \/ MsgID[p.msg] = id
          BY <3>1, <3>2, WireAppend
    <3> QED BY <3>3, <3>4 DEF InFlight
  <2>3. CASE j # nxt[n][t]
    <3>1. nxt'[n][t] = nxt[n][t] + 1
      <4>1. nxt' = [nxt EXCEPT ![n][t] = nxt[n][t] + 1]
            BY <1>4 DEF SendNext
      <4>2. nxt \in [Clients -> [Clients -> Nat \ {0}]]
            BY DEF TypeOK
      <4> QED BY <4>1, <4>2
    <3>2. nxt[n][t] \in Nat /\ j \in Nat
      <4>1. nxt[n][t] \in Nat \ {0}
            BY DEF TypeOK
      <4>2. Peers[n] \in Seq(Clients)
            BY GraphAssumption
      <4> QED BY <4>1, <4>2
    <3>3. j >= nxt'[n][t]
          BY <1>2, <2>3, <3>1, <3>2
    <3>4. pc'[n][t] = "sending" /\ PktID(n, t)' = id
          BY <1>1, <1>4 DEF SendNext, PktID
    <3> QED BY <1>2, <3>3, <3>4 DEF StillToSend
  <2> QED BY <2>1, <2>2, <2>3
<1>5. ~SendDone(n, t)
  <2>1. nxt[n][t] \in Nat \ {0}
        BY DEF TypeOK
  <2>2. DOMAIN Peers[n] = 1 .. Len(Peers[n]) /\ Len(Peers[n]) \in Nat
        BY GraphAssumption
  <2>3. nxt[n][t] \in DOMAIN Peers[n]
        BY <1>2, <2>1, <2>2
  <2> QED BY <2>3 DEF SendDone
<1> QED BY <1>1, <1>3, <1>4, <1>5, ThreadChange
        DEF OwnStep, Receive, CheckID, Accept, LogOwn, Post

(* NoGap is preserved: dropping a duplicate opens no gap, because a logged  *)
(* ID has been heard.                                                       *)
LEMMA NoGapStep ==
    ASSUME TypeOK, TypeOK', Carried, LogSound, Working, NoGap, [Next]_vars
    PROVE  NoGap'
<1> SUFFICES ASSUME NEW n \in Clients, NEW k \in Nbr(n), NEW id \in Heard(n)'
             PROVE  \/ id \in Heard(k)'
                    \/ InFlight(n, k, id)'
                    \/ StillToSend(n, k, id)'
    BY DEF NoGap
<1>1. k \in Clients /\ k # n
      BY GraphAssumption DEF Nbr
<1>2. id \in IDs
  <2>1. /\ posted' \in SUBSET Msgs
        /\ shown' \in [Clients -> [Clients -> SUBSET Msgs]]
        BY DEF TypeOK
  <2> QED BY <2>1 DEF Heard, IDs
<1>3. CASE id \in Heard(n)
  <2>1. id \in Heard(k) \/ InFlight(n, k, id) \/ StillToSend(n, k, id)
        BY <1>3 DEF NoGap
  <2>2. CASE id \in Heard(k)
        BY <1>1, <2>2, HeardGrows
  <2>3. CASE InFlight(n, k, id)
        BY <1>1, <1>2, <2>3, InFlightStep
  <2>4. CASE StillToSend(n, k, id)
        BY <1>1, <1>2, <2>4, StillStep
  <2> QED BY <2>1, <2>2, <2>3, <2>4
<1>4. ASSUME NEW t \in Clients, pc'[n][t] = "sending", nxt'[n][t] = 1, PktID(n, t)' = id
      PROVE  StillToSend(n, k, id)'
  <2>1. PICK j \in DOMAIN Peers[n] : Peers[n][j] = k
        BY DEF Nbr
  <2>2. j >= 1
        BY GraphAssumption
  <2> QED BY <1>4, <2>1, <2>2 DEF StillToSend
<1>5. ASSUME NEW m \in Msgs, Post(m), id \notin Heard(n)
      PROVE  StillToSend(n, k, id)'
  <2>1. n = Sender[m] /\ id = MsgID[m]
        BY <1>5, PostHeard
  <2>2. pc'[n][n] = "sending" /\ PktID(n, n)' = id
        BY <1>5, <2>1, PostEffect
  <2>3. nxt'[n][n] = 1
        BY <1>5, <2>1 DEF Post, Working
  <2> QED BY <1>4, <2>2, <2>3
<1>6. ASSUME NEW x \in Clients, NEW y \in Clients, Accept(x, y), id \notin Heard(n)
      PROVE  StillToSend(n, k, id)'
  <2>1. n = x /\ id = PktID(n, y)
        BY <1>6, AcceptHeard
  <2>2. Goto(n, y, "sending")
        BY <1>6, <2>1 DEF Accept
  <2>3. pc'[n][y] = "sending"
        BY <2>2, GotoEffect
  <2>4. PktID(n, y)' = id
        BY <1>6, <2>1, AcceptEffect
  <2>5. nxt'[n][y] = 1
        BY <1>6, <2>1 DEF Accept, Working
  <2> QED BY <1>4, <2>3, <2>4, <2>5
<1>7. \/ UNCHANGED <<posted, shown>>
      \/ \E m \in Msgs : Post(m)
      \/ \E x, y \in Clients : Accept(x, y)
      BY HistoryChange
<1> QED BY <1>3, <1>5, <1>6, <1>7, HeardSame

(* The inductive invariant holds initially.                                 *)
LEMMA InvInit == Init => IInv
<1> SUFFICES ASSUME Init PROVE IInv
    OBVIOUS
<1>1. TypeOK
      BY TypeInit
<1>2. \A n \in Clients : Heard(n) = {}
      BY DEF Init, Heard
<1>3. Carried
      BY DEF Init, Carried, OnWire
<1>4. LogSound
      BY DEF Init, LogSound, InLog
<1>5. Working
      BY DEF Init, Working
<1>6. NoGap
      BY <1>2 DEF NoGap
<1> QED BY <1>1, <1>3, <1>4, <1>5, <1>6 DEF IInv

(* Every step preserves the inductive invariant.                            *)
LEMMA InvStep == IInv /\ [Next]_vars => IInv'
BY TypeStep, CarriedStep, LogSoundStep, WorkingStep, NoGapStep DEF IInv

(* The flood leaves no gap (processReceivedMSG and forwardMSG), for every   *)
(* network, however many copies pass the duplicate check and however often  *)
(* a full log is cleared.                                                   *)
THEOREM NoGapCorrect == Spec => []NoGap
BY InvInit, InvStep, PTL DEF Spec, IInv

(* When the flood has ended in a connected network, everybody has heard     *)
(* every message: the clients that have heard an ID are closed under the    *)
(* neighbour lists, because a quiet network with no gap has nothing left    *)
(* to deliver.                                                              *)
THEOREM EverybodyHeardCorrect == Spec => []EverybodyHeard
<1>1. TypeOK /\ NoGap => EverybodyHeard
  <2> SUFFICES ASSUME TypeOK, NoGap, Connected, Quiet, NEW m \in posted
               PROVE  \A n \in Clients : MsgID[m] \in Heard(n)
      BY DEF EverybodyHeard
  <2> DEFINE id == MsgID[m]
             S == {n \in Clients : id \in Heard(n)}
  <2>1. Sender[m] \in S
        BY MsgAssumption DEF TypeOK, Heard
  <2>2. ASSUME NEW n \in S, NEW k \in Nbr(n) PROVE k \in S
    <3>1. k \in Clients
          BY GraphAssumption DEF Nbr
    <3>2. ~InFlight(n, k, id)
          BY <3>1 DEF Quiet, InFlight, OnWire
    <3>3. ~StillToSend(n, k, id)
          BY DEF Quiet, StillToSend
    <3> QED BY <3>1, <3>2, <3>3 DEF NoGap
  <2> HIDE DEF S
  <2>3. S \subseteq Clients
        BY DEF S
  <2>4. S = Clients
        BY <2>1, <2>2, <2>3 DEF Connected
  <2> QED BY <2>4 DEF S
<1> QED BY <1>1, InvInit, InvStep, PTL DEF Spec, IInv

(* Only the thread that holds a client's mutex is in a forwarding loop of   *)
(* that client (forwardMSG and processSendMSG), so the six pieces MSGSend   *)
(* writes are never mixed with another packet's.                            *)
THEOREM OneSenderCorrect == Spec => []OneSenderAtATime
<1>1. Init => OneSenderAtATime
      BY DEF Init, OneSenderAtATime
<1>2. TypeOK /\ OneSenderAtATime /\ [Next]_vars => OneSenderAtATime'
  <2> SUFFICES ASSUME TypeOK, OneSenderAtATime, [Next]_vars,
                      NEW n \in Clients, NEW t \in Clients, pc'[n][t] = "sending"
               PROVE  mutex'[n] = t
      BY DEF OneSenderAtATime
  <2>1. CASE UNCHANGED <<pc, mutex>>
        BY <2>1 DEF OneSenderAtATime
  <2>2. ASSUME NEW m \in Msgs, Post(m) PROVE mutex'[n] = t
    <3>1. Sender[m] \in Clients /\ NoThread \notin Clients
          BY MsgAssumption, SizeAssumption
    <3>2. pc'[n][t] = IF n = Sender[m] /\ t = n THEN "sending" ELSE pc[n][t]
          BY <2>2, PostEffect
    <3>3. CASE n = Sender[m]
      <4>1. mutex[n] = NoThread /\ mutex'[n] = n
            BY <2>2, <3>1, <3>3 DEF Post, TypeOK
      <4> QED BY <3>1, <3>2, <4>1 DEF OneSenderAtATime
    <3>4. CASE n # Sender[m]
      <4>1. mutex'[n] = mutex[n]
            BY <2>2, <3>4 DEF Post, TypeOK
      <4> QED BY <3>2, <3>4, <4>1 DEF OneSenderAtATime
    <3> QED BY <3>3, <3>4
  <2>3. ASSUME NEW x \in Clients, NEW y \in Clients, Accept(x, y) PROVE mutex'[n] = t
    <3>1. Goto(x, y, "sending") /\ mutex[x] = NoThread /\ mutex' = [mutex EXCEPT ![x] = y]
          BY <2>3 DEF Accept
    <3>2. ~(n = x /\ t = y) => pc[n][t] = "sending"
          BY <3>1, GotoEffect
    <3> QED BY <3>1, <3>2, SizeAssumption DEF OneSenderAtATime, TypeOK
  <2>4. ASSUME NEW x \in Clients, NEW y \in Clients, SendDone(x, y) PROVE mutex'[n] = t
    <3>1. pc[x][y] = "sending" /\ mutex' = [mutex EXCEPT ![x] = NoThread]
          BY <2>4 DEF SendDone
    <3>2. pc'[n][t] = IF n = x /\ t = y THEN pc'[x][y] ELSE pc[n][t]
          BY <2>4, IdleEffect, GotoEffect DEF SendDone
    <3>3. pc'[x][y] # "sending"
      <4>1. CASE Idle(x, y)
            BY <4>1, IdleEffect
      <4>2. CASE Goto(x, y, "logging")
            BY <4>2, GotoEffect
      <4> QED BY <2>4, <4>1, <4>2 DEF SendDone
    <3>4. pc[n][t] = "sending"
          BY <3>2, <3>3
    <3> QED BY <3>1, <3>2, <3>3, <3>4 DEF OneSenderAtATime, TypeOK
  <2>5. ASSUME NEW x \in Clients, NEW y \in Clients,
               Receive(x, y) \/ CheckID(x, y) \/ (LogOwn(x) /\ y = x)
        PROVE  mutex'[n] = t
    <3>1. mutex' = mutex
          BY <2>5 DEF Receive, CheckID, LogOwn
    <3>2. Idle(x, y) \/ Goto(x, y, "received") \/ Goto(x, y, "fresh")
          BY <2>5 DEF Receive, CheckID, LogOwn
    <3>3. pc[n][t] = "sending"
          BY <3>2, IdleEffect, GotoEffect
    <3> QED BY <3>1, <3>3 DEF OneSenderAtATime
  <2>6. \/ UNCHANGED <<pc, mutex>>
        \/ \E m \in Msgs : Post(m)
        \/ \E x, y \in Clients : \/ Receive(x, y) \/ CheckID(x, y) \/ (LogOwn(x) /\ y = x)
                                 \/ SendDone(x, y) \/ Accept(x, y)
        BY DEF Next, vars, SendNext
  <2> QED BY <2>1, <2>2, <2>3, <2>4, <2>5, <2>6
<1> QED BY <1>1, <1>2, TypeInit, TypeStep, PTL DEF Spec

(* The flood implements the gossip network: a client says only its own      *)
(* messages, and hears only what a neighbour has heard.                     *)
THEOREM FloodIsGossip == Spec => G!Spec
<1> DEFINE heard == [n \in Clients |-> Heard(n)]
<1>1. Init => G!Init
      BY DEF Init, G!Init, Heard
<1>2. IInv /\ IInv' /\ [Next]_vars => G!Next \/ heard' = heard
  <2> SUFFICES ASSUME IInv, IInv', [Next]_vars PROVE G!Next \/ heard' = heard
      OBVIOUS
  <2>1. TypeOK /\ TypeOK' /\ Carried
        BY DEF IInv
  <2>2. CASE UNCHANGED <<posted, shown>>
        BY <2>2, HeardSame
  <2>3. ASSUME NEW m \in Msgs, Post(m) PROVE G!Next
    <3> DEFINE n == Sender[m]
    <3>1. n \in Clients /\ MsgID[m] \in IDs
          BY MsgAssumption DEF IDs
    <3>2. n \in {Sender[p] : p \in {q \in Msgs : MsgID[q] = MsgID[m]}}
          OBVIOUS
    <3>3. \A x \in Clients : Heard(x)' =
             IF x = n THEN Heard(x) \cup {MsgID[m]} ELSE Heard(x)
          BY <2>1, <2>3, PostHeard, HeardGrows
    <3>4. heard' = [heard EXCEPT ![n] = @ \cup {MsgID[m]}]
          BY <3>1, <3>3
    <3>5. G!Say(n, MsgID[m])
          BY <3>1, <3>2, <3>4 DEF G!Say
    <3> QED BY <3>1, <3>5 DEF G!Next
  <2>4. ASSUME NEW n \in Clients, NEW k \in Clients, Accept(n, k) PROVE G!Next \/ heard' = heard
    <3>1. PktID(n, k) \in IDs
      <4>1. pkt[n][k] \in Packets
            BY <2>1 DEF TypeOK
      <4> QED BY <4>1, IDType DEF PktID, Packets
    <3>2. k \in Nbr(n) /\ PktID(n, k) \in Heard(k)
          BY <2>1, <2>4 DEF Accept, Carried
    <3>3. \A x \in Clients : Heard(x)' =
             IF x = n THEN Heard(x) \cup {PktID(n, k)} ELSE Heard(x)
          BY <2>1, <2>4, AcceptHeard, HeardGrows
    <3>4. heard' = [heard EXCEPT ![n] = @ \cup {PktID(n, k)}]
          BY <3>3
    <3>5. G!Hear(n, PktID(n, k))
          BY <3>2, <3>4 DEF G!Hear
    <3> QED BY <3>1, <3>5 DEF G!Next
  <2>5. \/ UNCHANGED <<posted, shown>>
        \/ \E m \in Msgs : Post(m)
        \/ \E x, y \in Clients : Accept(x, y)
        BY HistoryChange
  <2> QED BY <2>2, <2>3, <2>4, <2>5
<1>3. IInv /\ IInv' /\ [Next]_vars => [G!Next]_[n \in Clients |-> Heard(n)]
      BY <1>2
<1> HIDE DEF heard
<1> QED BY <1>1, <1>3, InvInit, InvStep, PTL DEF Spec, G!Spec

-----------------------------------------------------------------------------
(* What a log that is never cleared gives: the last two properties hold as  *)
(* long as no step empties a full log (addMessageToLog's memset()).         *)

LogKept == \A n \in Clients : Len(msgLog[n]) <= Len(msgLog'[n])

(* The clients whose log holds an ID.                                       *)
Held(id) == {n \in Clients : InLog(n, id)}

(* Where nothing is cleared, logging appends: the log keeps its IDs and     *)
(* gains the new one.                                                       *)
LEMMA Appended ==
    ASSUME TypeOK, LogKept, NEW n \in Clients, NEW id \in IDs, AddMessageToLog(n, id)
    PROVE  /\ InLog(n, id)'
           /\ \A x \in Clients : \A i : InLog(x, i) => InLog(x, i)'
<1> DEFINE s == msgLog[n]
           u == msgLog'[n]
<1>1. /\ s \in Seq(IDs)
      /\ u = IF Len(s) < MSGLOGMAX THEN Append(s, id) ELSE <<>>
      /\ Len(s) <= Len(u)
      BY DEF TypeOK, AddMessageToLog, LogKept
<1>2. \A x \in Clients : x # n => msgLog'[x] = msgLog[x]
      BY DEF TypeOK, AddMessageToLog
<1> HIDE DEF s, u
<1>3. u = Append(s, id)
  <2>1. Len(s) \in Nat /\ MSGLOGMAX \in Nat \ {0} /\ Len(<<>>) = 0
        BY <1>1, SizeAssumption
  <2> QED BY <1>1, <2>1
<1>4. /\ \E j \in DOMAIN u : u[j] = id
      /\ \A i : (\E j \in DOMAIN s : s[j] = i) => (\E j \in DOMAIN u : u[j] = i)
  <2>1. /\ Len(s) + 1 \in DOMAIN u
        /\ u[Len(s) + 1] = id
        /\ \A j \in DOMAIN s : j \in DOMAIN u /\ u[j] = s[j]
        BY <1>1, <1>3
  <2> QED BY <2>1
<1>5. InLog(n, id)'
      BY <1>4 DEF InLog, u
<1>6. ASSUME NEW x \in Clients, NEW i, InLog(x, i) PROVE InLog(x, i)'
  <2>1. CASE x = n
        BY <1>4, <1>6, <2>1 DEF InLog, s, u
  <2>2. CASE x # n
        BY <1>2, <1>6, <2>2 DEF InLog
  <2> QED BY <2>1, <2>2
<1> QED BY <1>5, <1>6

(* So no client forgets an ID it has logged.                                *)
LEMMA LogGrows ==
    ASSUME TypeOK, LogKept, [Next]_vars, NEW n \in Clients, NEW id, InLog(n, id)
    PROVE  InLog(n, id)'
<1>1. CASE UNCHANGED msgLog
      BY <1>1 DEF InLog
<1>2. \A x, y \in Clients : PktID(x, y) \in IDs
      BY IDType DEF PktID, TypeOK, Packets
<1>3. ASSUME NEW x \in Clients, NEW k \in Clients, Accept(x, k) \/ (k = x /\ LogOwn(x))
      PROVE  InLog(n, id)'
      BY <1>2, <1>3, Appended DEF Accept, LogOwn
<1>4. ASSUME NEW x \in Clients, NEW k \in Clients,
             SendNext(x, k) \/ SendDone(x, k) \/ Receive(x, k) \/ CheckID(x, k)
      PROVE  UNCHANGED msgLog
      BY <1>4 DEF SendNext, SendDone, Receive, CheckID
<1>5. ASSUME NEW m \in Msgs, Post(m) PROVE UNCHANGED msgLog
      BY <1>5 DEF Post
<1>6. UNCHANGED vars => UNCHANGED msgLog
      BY DEF vars
<1> QED BY <1>1, <1>3, <1>4, <1>5, <1>6 DEF Next

(* What a client accepts is in its log.                                     *)
LEMMA AcceptLogs ==
    ASSUME TypeOK, LogKept, NEW n \in Clients, NEW k \in Clients, Accept(n, k)
    PROVE  InLog(n, PktID(n, k))'
<1>1. PktID(n, k) \in IDs
      BY IDType DEF PktID, TypeOK, Packets
<1>2. PktID(n, k)' = PktID(n, k)
      BY AcceptEffect
<1>3. InLog(n, PktID(n, k)) => TRUE
      OBVIOUS
<1> DEFINE id == PktID(n, k)
<1>4. id' = id /\ id \in IDs /\ AddMessageToLog(n, id)
      BY <1>1, <1>2 DEF Accept
<1> HIDE DEF id
<1>5. \E j \in DOMAIN msgLog'[n] : msgLog'[n][j] = id
      BY <1>4, Appended DEF InLog
<1> QED BY <1>2, <1>5 DEF InLog, id

(* What a receive thread has shown is in its client's log, so a packet that *)
(* has passed the check has an ID its thread has not shown.                 *)
Once ==
    \A n, k \in Clients : \A m \in shown[n][k] :
        /\ InLog(n, MsgID[m])
        /\ pc[n][k] = "fresh" => MsgID[m] # PktID(n, k)

(* What a thread has shown changes only when it accepts a packet.           *)
LEMMA ShownChange ==
    ASSUME TypeOK, [Next]_vars, NEW n \in Clients, NEW k \in Clients
    PROVE  shown'[n][k] = shown[n][k] \/ Accept(n, k)
<1>1. ASSUME NEW x \in Clients, NEW y \in Clients, Accept(x, y), ~(x = n /\ y = k)
      PROVE  shown'[n][k] = shown[n][k]
      BY <1>1 DEF Accept, TypeOK
<1>2. ASSUME NEW m \in Msgs, Post(m) PROVE shown' = shown
      BY <1>2 DEF Post
<1> QED BY <1>1, <1>2, HistoryChange

(* Once is preserved while no log is cleared.                               *)
LEMMA OnceStep ==
    ASSUME TypeOK, Once, LogKept, [Next]_vars
    PROVE  Once'
<1> SUFFICES ASSUME NEW n \in Clients, NEW k \in Clients, NEW m \in shown'[n][k]
             PROVE  /\ InLog(n, MsgID[m])'
                    /\ pc'[n][k] = "fresh" => MsgID[m] # PktID(n, k)'
    BY DEF Once
<1>1. CASE Accept(n, k)
  <2>1. pc'[n][k] = "sending"
        BY <1>1, GotoEffect DEF Accept
  <2>2. m \in shown[n][k] \/ m = pkt[n][k].msg
        BY <1>1 DEF Accept, TypeOK
  <2>3. CASE m \in shown[n][k]
        BY <2>1, <2>3, LogGrows DEF Once
  <2>4. CASE m = pkt[n][k].msg
    <3>1. MsgID[m] = PktID(n, k)
          BY <2>4 DEF PktID
    <3>2. PktID(n, k)' = PktID(n, k)
          BY <1>1, AcceptEffect
    <3>3. InLog(n, PktID(n, k))'
          BY <1>1, AcceptLogs
    <3> QED BY <2>1, <3>1, <3>2, <3>3 DEF InLog
  <2> QED BY <2>2, <2>3, <2>4
<1>2. CASE m \in shown[n][k] /\ ~Accept(n, k)
  <2>1. InLog(n, MsgID[m]) /\ InLog(n, MsgID[m])'
        BY <1>2, LogGrows DEF Once
  <2>2. ASSUME pc'[n][k] = "fresh" PROVE MsgID[m] # PktID(n, k)'
    <3>1. CASE Unmoved(n, k)
          BY <1>2, <2>2, <3>1 DEF Once, Unmoved
    <3>2. CASE CheckID(n, k)
      <4>1. pc[n][k] = "received"
            BY <3>2 DEF CheckID
      <4>2. ~Idle(n, k)
            BY <2>2, IdleEffect
      <4>3. ~InLog(n, PktID(n, k)) /\ pkt' = pkt
            BY <3>2, <4>2 DEF CheckID
      <4>4. PktID(n, k)' = PktID(n, k)
            BY <4>3 DEF PktID
      <4> QED BY <2>1, <4>3, <4>4
    <3>3. CASE OwnStep(n, k) /\ ~CheckID(n, k)
      <4>1. ~Idle(n, k)
            BY <2>2, IdleEffect
      <4>2. \A label : Goto(n, k, label) => label = "fresh"
            BY <2>2, GotoEffect
      <4>3. ~Goto(n, k, "logging") /\ ~Goto(n, k, "received") /\ ~Goto(n, k, "sending")
            BY <4>2
      <4>4. ~SendDone(n, k)
            BY <4>1, <4>3 DEF SendDone
      <4>5. ~Receive(n, k)
            BY <4>3 DEF Receive
      <4>6. ~(k = n /\ LogOwn(n))
            BY <4>1 DEF LogOwn
      <4>7. ~SendNext(n, k)
            BY <2>2 DEF SendNext
      <4>8. ~(k = n /\ \E p \in Msgs : n = Sender[p] /\ Post(p))
            BY <4>3 DEF Post
      <4> QED BY <1>2, <3>3, <4>4, <4>5, <4>6, <4>7, <4>8 DEF OwnStep
    <3> QED BY <3>1, <3>2, <3>3, ThreadChange
  <2> QED BY <2>1, <2>2
<1> QED BY <1>1, <1>2, ShownChange

(* As long as no full log is cleared, the thread that reads one connection  *)
(* never shows the same ID twice (checkIDFromLog and processReceivedMSG).   *)
THEOREM OncePerLinkCorrect == Spec /\ [][LogKept]_vars => OncePerLink
<1>1. Init => Once
      BY DEF Init, Once
<1>2. TypeOK /\ Once /\ [Next]_vars /\ [LogKept]_vars => Once'
  <2>1. CASE UNCHANGED vars
    <3>1. ASSUME UNCHANGED vars, Once PROVE Once'
          BY <3>1 DEF Once, vars, InLog, PktID
    <3> QED BY <2>1, <3>1
  <2>2. CASE LogKept
        BY <2>2, OnceStep
  <2> QED BY <2>1, <2>2
<1>3. Once => [\A n, k \in Clients :
                  Accept(n, k) => \A m \in shown[n][k] : MsgID[m] # PktID(n, k)]_vars
      BY DEF Once, Accept
<1> QED BY <1>1, <1>2, <1>3, TypeInit, TypeStep, PTL DEF Spec, OncePerLink

-----------------------------------------------------------------------------
(* The hop count of a packet is at most the number of clients whose log     *)
(* holds its ID; between the check and the second critical section the      *)
(* client that is about to log it does not count.                           *)
HopsOnWire ==
    \A n, k \in Clients : \A i \in DOMAIN chan[n][k] :
        chan[n][k][i].hop <= Cardinality(Held(MsgID[chan[n][k][i].msg]))

HopsInHand ==
    \A n, t \in Clients :
        /\ pc[n][t] \in {"received", "sending"} =>
              pkt[n][t].hop <= Cardinality(Held(PktID(n, t)))
        /\ pc[n][t] = "fresh" =>
              pkt[n][t].hop <= Cardinality(Held(PktID(n, t)) \ {n})

(* Sets of clients are finite, and a larger one counts more.                *)
LEMMA HeldCard ==
    ASSUME NEW S \in SUBSET Clients, NEW T \in SUBSET S
    PROVE  /\ Cardinality(S) \in Nat /\ Cardinality(T) \in Nat
           /\ Cardinality(T) <= Cardinality(S)
           /\ Cardinality(S) <= Cardinality(Clients)
           /\ Cardinality(Clients) \in Nat
<1>1. IsFiniteSet(Clients)
      BY GraphAssumption
<1>2. IsFiniteSet(S) /\ Cardinality(S) <= Cardinality(Clients)
      BY <1>1, FS_Subset
<1>3. IsFiniteSet(T) /\ Cardinality(T) <= Cardinality(S)
      BY <1>2, FS_Subset
<1> QED BY <1>1, <1>2, <1>3, FS_CardinalityType

(* The clients whose log holds an ID after a step.                          *)
HeldThen(id) ==
    {n \in Clients : \E i \in DOMAIN msgLog'[n] : msgLog'[n][i] = id}

(* The clients that hold an ID grow in number, some of them R aside.        *)
LEMMA HeldGrows ==
    ASSUME TypeOK, LogKept, [Next]_vars, NEW id, NEW R
    PROVE  /\ Held(id) \subseteq HeldThen(id)
           /\ HeldThen(id) \subseteq Clients
           /\ Cardinality(Held(id) \ R) <= Cardinality(HeldThen(id) \ R)
           /\ Cardinality(Held(id) \ R) \in Nat
           /\ Cardinality(HeldThen(id) \ R) \in Nat
<1>1. HeldThen(id) \in SUBSET Clients
      BY DEF HeldThen
<1>2. Held(id) \subseteq HeldThen(id)
  <2>1. ASSUME NEW n \in Clients, InLog(n, id)
        PROVE  \E i \in DOMAIN msgLog'[n] : msgLog'[n][i] = id
    <3>1. InLog(n, id)'
          BY <2>1, LogGrows
    <3> QED BY <3>1 DEF InLog
  <2> QED BY <2>1 DEF Held, HeldThen
<1>3. HeldThen(id) \ R \in SUBSET Clients /\ Held(id) \ R \in SUBSET (HeldThen(id) \ R)
      BY <1>1, <1>2
<1> QED BY <1>1, <1>2, <1>3, HeldCard

(* So a packet that keeps its count keeps the bound.                        *)
LEMMA HopLifts ==
    ASSUME TypeOK, LogKept, [Next]_vars, NEW q \in Packets, NEW R,
           q.hop <= Cardinality(Held(MsgID[q.msg]) \ R)
    PROVE  q.hop <= Cardinality(HeldThen(MsgID[q.msg]) \ R)
<1> DEFINE a == Cardinality(Held(MsgID[q.msg]) \ R)
           b == Cardinality(HeldThen(MsgID[q.msg]) \ R)
<1>1. a \in Nat /\ b \in Nat /\ a <= b
      BY HeldGrows
<1>2. q.hop \in Nat
      BY SizeAssumption DEF Packets
<1>3. q.hop <= a
      OBVIOUS
<1> HIDE DEF a, b
<1>4. q.hop <= b
      BY <1>1, <1>2, <1>3
<1> QED BY <1>4 DEF b

(* A packet on a wire was there before, or a forwarding loop puts it there. *)
LEMMA PacketChange ==
    ASSUME TypeOK, [Next]_vars,
           NEW x \in Clients, NEW y \in Clients, NEW i \in DOMAIN chan'[x][y]
    PROVE  \/ \E j \in DOMAIN chan[x][y] : chan'[x][y][i] = chan[x][y][j]
           \/ \E t \in Clients : pc[x][t] = "sending" /\ chan'[x][y][i] = pkt[x][t]
<1> DEFINE s == chan[x][y]
           u == chan'[x][y]
<1>1. s \in Seq(Packets)
      BY DEF TypeOK
<1>2. ASSUME NEW n \in Clients, NEW t \in Clients, SendNext(n, t), chan' # chan
      PROVE  u = s \/ (n = x /\ pc[x][t] = "sending" /\ u = Append(s, pkt[x][t]))
  <2>1. PICK k : /\ chan' = [chan EXCEPT ![n][k] = Append(@, pkt[n][t])]
                 /\ k = Peers[n][nxt[n][t]]
                 /\ nxt[n][t] \in DOMAIN Peers[n]
                 /\ pc[n][t] = "sending"
        BY <1>2 DEF SendNext
  <2>2. k \in Clients
        BY <2>1, PeerType
  <2> QED BY <2>1, <2>2 DEF TypeOK
<1>3. ASSUME NEW n \in Clients, NEW k \in Clients, Receive(n, k)
      PROVE  u = s \/ (s # <<>> /\ u = Tail(s))
  <2>1. chan[k][n] # <<>> /\ chan' = [chan EXCEPT ![k][n] = Tail(@)]
        BY <1>3 DEF Receive
  <2> QED BY <2>1 DEF TypeOK
<1>4. CASE UNCHANGED chan
      BY <1>4
<1>5. chan' = chan \/ \E n, t \in Clients : SendNext(n, t) \/ Receive(n, t)
      BY DEF Next, vars, Post, SendDone, LogOwn, CheckID, Accept
<1> HIDE DEF s, u
<1>6. ASSUME s # <<>>, u = Tail(s), i \in DOMAIN u
      PROVE  \E j \in DOMAIN s : u[i] = s[j]
  <2>1. i + 1 \in DOMAIN s /\ u[i] = s[i + 1]
        BY <1>1, <1>6
  <2> QED BY <2>1
<1>7. ASSUME NEW p, u = Append(s, p), i \in DOMAIN u
      PROVE  u[i] = p \/ \E j \in DOMAIN s : u[i] = s[j]
  <2>1. i \in 1 .. Len(s) + 1 /\ Len(s) \in Nat
        BY <1>1, <1>7
  <2>2. CASE i = Len(s) + 1
        BY <1>1, <1>7, <2>2
  <2>3. CASE i # Len(s) + 1
    <3>1. i \in DOMAIN s /\ u[i] = s[i]
          BY <1>1, <1>7, <2>1, <2>3
    <3> QED BY <3>1
  <2> QED BY <2>2, <2>3
<1>8. i \in DOMAIN u
      BY DEF u
<1>9. CASE u = s
      BY <1>8, <1>9 DEF s, u
<1>10. ASSUME NEW n \in Clients, NEW t \in Clients, SendNext(n, t), chan' # chan
       PROVE  \/ \E j \in DOMAIN s : u[i] = s[j]
              \/ \E v \in Clients : pc[x][v] = "sending" /\ u[i] = pkt[x][v]
  <2>1. CASE u = s
        BY <1>8, <2>1
  <2>2. CASE pc[x][t] = "sending" /\ u = Append(s, pkt[x][t])
        BY <1>7, <1>8, <2>2
  <2> QED BY <1>2, <1>10, <2>1, <2>2
<1>11. ASSUME NEW n \in Clients, NEW t \in Clients, Receive(n, t)
       PROVE  \E j \in DOMAIN s : u[i] = s[j]
  <2>1. CASE u = s
        BY <1>8, <2>1
  <2>2. CASE s # <<>> /\ u = Tail(s)
        BY <1>6, <1>8, <2>2
  <2> QED BY <1>3, <1>11, <2>1, <2>2
<1>12. \/ \E j \in DOMAIN s : u[i] = s[j]
       \/ \E v \in Clients : pc[x][v] = "sending" /\ u[i] = pkt[x][v]
  <2>1. CASE u = s
        BY <1>8, <2>1
  <2>2. CASE u # s
    <3>1. chan' # chan
          BY <2>2 DEF s, u
    <3> QED BY <1>5, <1>10, <1>11, <3>1
  <2> QED BY <2>1, <2>2
<1> QED BY <1>12 DEF s, u

(* The packets on the wires keep the bound.                                 *)
LEMMA HopsOnWireStep ==
    ASSUME TypeOK, TypeOK', LogKept, [Next]_vars, HopsOnWire, HopsInHand
    PROVE  HopsOnWire'
<1> SUFFICES ASSUME NEW x \in Clients, NEW y \in Clients, NEW i \in DOMAIN chan'[x][y]
             PROVE  chan'[x][y][i].hop <= Cardinality(HeldThen(MsgID[chan'[x][y][i].msg]))
    BY DEF HopsOnWire, Held, HeldThen, InLog
<1> DEFINE p == chan'[x][y][i]
<1>1. ASSUME NEW q \in Packets, q.hop <= Cardinality(Held(MsgID[q.msg]))
      PROVE  q.hop <= Cardinality(HeldThen(MsgID[q.msg]))
  <2>1. \A S : S \ {} = S
        OBVIOUS
  <2> QED BY <1>1, <2>1, HopLifts
<1>2. ASSUME NEW j \in DOMAIN chan[x][y], p = chan[x][y][j]
      PROVE  p.hop <= Cardinality(HeldThen(MsgID[p.msg]))
  <2>1. chan[x][y][j] \in Packets
    <3>1. chan[x][y] \in Seq(Packets)
          BY DEF TypeOK
    <3> QED BY <3>1
  <2>2. chan[x][y][j].hop <= Cardinality(Held(MsgID[chan[x][y][j].msg]))
        BY DEF HopsOnWire
  <2>3. chan[x][y][j].hop <= Cardinality(HeldThen(MsgID[chan[x][y][j].msg]))
        BY <1>1, <2>1, <2>2
  <2> QED BY <1>2, <2>3
<1>3. ASSUME NEW t \in Clients, pc[x][t] = "sending", p = pkt[x][t]
      PROVE  p.hop <= Cardinality(HeldThen(MsgID[p.msg]))
  <2>1. pkt[x][t] \in Packets
        BY DEF TypeOK
  <2>2. pkt[x][t].hop <= Cardinality(Held(MsgID[pkt[x][t].msg]))
        BY <1>3 DEF HopsInHand, PktID
  <2>3. pkt[x][t].hop <= Cardinality(HeldThen(MsgID[pkt[x][t].msg]))
        BY <1>1, <2>1, <2>2
  <2> QED BY <1>3, <2>3
<1> HIDE DEF p
<1>4. \/ \E j \in DOMAIN chan[x][y] : p = chan[x][y][j]
      \/ \E t \in Clients : pc[x][t] = "sending" /\ p = pkt[x][t]
      BY PacketChange DEF p
<1>5. p.hop <= Cardinality(HeldThen(MsgID[p.msg]))
      BY <1>2, <1>3, <1>4
<1> QED BY <1>5 DEF p

(* A thread's packet changes only in a step of its own.                     *)
LEMMA PktKept ==
    ASSUME TypeOK, [Next]_vars, NEW x \in Clients, NEW y \in Clients, ~OwnStep(x, y)
    PROVE  pc'[x][y] = pc[x][y] /\ pkt'[x][y] = pkt[x][y]
<1>1. pc'[x][y] = pc[x][y]
      BY ThreadChange DEF Unmoved
<1>2. CASE UNCHANGED pkt
      BY <1>1, <1>2
<1>3. ASSUME NEW n \in Clients, NEW t \in Clients, NEW e,
             pkt' = [pkt EXCEPT ![n][t] = e], ~(x = n /\ y = t)
      PROVE  pkt'[x][y] = pkt[x][y]
      BY <1>3 DEF TypeOK
<1>4. ASSUME NEW m \in Msgs, Post(m) PROVE pkt'[x][y] = pkt[x][y]
  <2>1. Sender[m] \in Clients
        BY MsgAssumption
  <2>2. ~(x = Sender[m] /\ y = Sender[m])
        BY <1>4 DEF OwnStep
  <2>3. pkt' = [pkt EXCEPT ![Sender[m]][Sender[m]] = [msg |-> m, hop |-> 0]]
        BY <1>4 DEF Post
  <2> QED BY <1>3, <2>1, <2>2, <2>3
<1>5. ASSUME NEW n \in Clients, NEW t \in Clients, pkt' # pkt,
             \/ SendDone(n, t) \/ Receive(n, t) \/ CheckID(n, t)
             \/ Accept(n, t) \/ (t = n /\ LogOwn(n))
      PROVE  pkt'[x][y] = pkt[x][y]
  <2>1. ~(x = n /\ y = t)
        BY <1>5 DEF OwnStep
  <2>2. \E e : pkt' = [pkt EXCEPT ![n][t] = e]
    <3>1. CASE SendDone(n, t) \/ CheckID(n, t) \/ (t = n /\ LogOwn(n))
          BY <1>5, <3>1 DEF SendDone, CheckID, LogOwn, Idle
    <3>2. CASE Receive(n, t)
          BY <3>2 DEF Receive
    <3>3. CASE Accept(n, t)
      <4>1. pkt' = [pkt EXCEPT ![n][t] = [pkt[n][t] EXCEPT !.hop = (@ + 1) % HopMod]]
            BY <3>3 DEF Accept
      <4> QED BY <4>1
    <3> QED BY <1>5, <3>1, <3>2, <3>3
  <2> QED BY <1>3, <2>1, <2>2
<1>6. \/ UNCHANGED pkt
      \/ \E m \in Msgs : Post(m)
      \/ \E n, t \in Clients : \/ SendDone(n, t) \/ Receive(n, t) \/ CheckID(n, t)
                               \/ Accept(n, t) \/ (t = n /\ LogOwn(n))
      BY DEF Next, vars, SendNext
<1> QED BY <1>1, <1>2, <1>4, <1>5, <1>6

(* Logging the ID of an accepted packet pays for the hop it adds.           *)
LEMMA HopPaid ==
    ASSUME TypeOK, LogKept, [Next]_vars, HopsInHand,
           NEW n \in Clients, NEW k \in Clients, Accept(n, k)
    PROVE  /\ pkt'[n][k].msg = pkt[n][k].msg
           /\ pkt'[n][k].hop <= Cardinality(HeldThen(PktID(n, k)))
<1> DEFINE id == PktID(n, k)
           h == pkt[n][k].hop
           S == Held(id) \ {n}
<1>1. /\ pkt[n][k] \in Packets
      /\ pkt'[n][k] = [pkt[n][k] EXCEPT !.hop = (h + 1) % HopMod]
      BY DEF Accept, TypeOK
<1>2. /\ pkt'[n][k].msg = pkt[n][k].msg
      /\ pkt'[n][k].hop = (h + 1) % HopMod
      /\ h \in Nat
      BY <1>1, SizeAssumption DEF Packets
<1>3. pc[n][k] = "fresh"
      BY DEF Accept
<1>4. h <= Cardinality(S)
      BY <1>3 DEF HopsInHand
<1>5. n \in HeldThen(id)
  <2>1. InLog(n, PktID(n, k))'
        BY AcceptLogs
  <2>2. PktID(n, k)' = PktID(n, k)
        BY AcceptEffect
  <2> QED BY <2>1, <2>2 DEF InLog, HeldThen
<1> HIDE DEF id, h
<1>6. Held(id) \subseteq HeldThen(id) /\ HeldThen(id) \subseteq Clients
      BY HeldGrows
<1>7. HeldThen(id) \in SUBSET Clients /\ S \cup {n} \in SUBSET HeldThen(id) /\ n \notin S
      BY <1>5, <1>6
<1>8. S \in SUBSET Clients
      BY <1>6
<1> HIDE DEF S
<1>9. Cardinality(S \cup {n}) = Cardinality(S) + 1
  <2>1. IsFiniteSet(S)
        BY <1>8, GraphAssumption, FS_Subset
  <2> QED BY <1>7, <2>1, FS_AddElement
<1>10. /\ Cardinality(S) \in Nat
       /\ Cardinality(HeldThen(id)) \in Nat
       /\ Cardinality(S \cup {n}) <= Cardinality(HeldThen(id))
       BY <1>7, <1>8, HeldCard
<1>11. (h + 1) % HopMod <= h + 1 /\ (h + 1) % HopMod \in Nat
       BY <1>2, SizeAssumption
<1>12. (h + 1) % HopMod <= Cardinality(HeldThen(id))
       BY <1>2, <1>4, <1>9, <1>10, <1>11
<1> QED BY <1>2, <1>12 DEF id

(* The packets in hand keep the bound: the check makes sure that its own    *)
(* client is not among those that hold the ID.                              *)
LEMMA HopsInHandStep ==
    ASSUME TypeOK, TypeOK', LogKept, [Next]_vars, HopsOnWire, HopsInHand
    PROVE  HopsInHand'
<1> DEFINE Bounded(n, t, R) ==
               pkt'[n][t].hop <= Cardinality(HeldThen(MsgID[pkt'[n][t].msg]) \ R)
<1> SUFFICES ASSUME NEW n \in Clients, NEW t \in Clients
             PROVE  /\ pc'[n][t] \in {"received", "sending"} => Bounded(n, t, {})
                    /\ pc'[n][t] = "fresh" => Bounded(n, t, {n})
  <2>1. \A S : S \ {} = S
        OBVIOUS
  <2> QED BY <2>1 DEF HopsInHand, Held, HeldThen, InLog, PktID
<1>1. ASSUME NEW q \in Packets, NEW R, pkt'[n][t] = q,
             q.hop <= Cardinality(Held(MsgID[q.msg]) \ R)
      PROVE  Bounded(n, t, R)
      BY <1>1, HopLifts
<1>2. /\ pkt[n][t] \in Packets
      /\ Held(PktID(n, t)) \ {} = Held(PktID(n, t))
      BY DEF TypeOK
<1>3. CASE pc'[n][t] = pc[n][t] /\ pkt'[n][t] = pkt[n][t]
  <2>1. CASE pc[n][t] \in {"received", "sending"}
    <3>1. pkt[n][t].hop <= Cardinality(Held(PktID(n, t)) \ {})
          BY <1>2, <2>1 DEF HopsInHand
    <3>2. Bounded(n, t, {})
          BY <1>1, <1>2, <1>3, <3>1 DEF PktID
    <3> QED BY <1>3, <2>1, <3>2
  <2>2. CASE pc[n][t] = "fresh"
    <3>1. pkt[n][t].hop <= Cardinality(Held(PktID(n, t)) \ {n})
          BY <2>2 DEF HopsInHand
    <3>2. Bounded(n, t, {n})
          BY <1>1, <1>2, <1>3, <3>1 DEF PktID
    <3> QED BY <1>3, <2>2, <3>2
  <2> QED BY <1>3, <2>1, <2>2
<1>4. CASE Receive(n, t)
  <2> DEFINE q == Head(chan[t][n])
  <2>1. chan[t][n] \in Seq(Packets) /\ chan[t][n] # <<>>
        BY <1>4 DEF Receive, TypeOK
  <2>2. q \in Packets /\ q = chan[t][n][1] /\ 1 \in DOMAIN chan[t][n]
        BY <2>1
  <2>3. pkt'[n][t] = q
        BY <1>4 DEF Receive, TypeOK
  <2>4. q.hop <= Cardinality(Held(MsgID[q.msg]))
        BY <2>2 DEF HopsOnWire
  <2> HIDE DEF q
  <2>5. Held(MsgID[q.msg]) \ {} = Held(MsgID[q.msg])
        OBVIOUS
  <2>6. Bounded(n, t, {})
        BY <1>1, <2>2, <2>3, <2>4, <2>5
  <2>7. pc'[n][t] = "received"
        BY <1>4, GotoEffect DEF Receive
  <2> QED BY <2>6, <2>7
<1>5. CASE CheckID(n, t)
  <2>1. CASE Idle(n, t)
    <3>1. pc'[n][t] = "idle"
          BY <2>1, IdleEffect
    <3> QED BY <3>1
  <2>2. CASE ~InLog(n, PktID(n, t)) /\ Goto(n, t, "fresh") /\ pkt' = pkt
    <3>1. pc'[n][t] = "fresh" /\ pkt'[n][t] = pkt[n][t]
          BY <2>2, GotoEffect
    <3>2. Held(PktID(n, t)) \ {n} = Held(PktID(n, t))
          BY <2>2 DEF Held
    <3>3. pkt[n][t].hop <= Cardinality(Held(PktID(n, t)) \ {n})
          BY <1>5, <3>2 DEF CheckID, HopsInHand
    <3>4. Bounded(n, t, {n})
          BY <1>1, <1>2, <3>1, <3>3 DEF PktID
    <3> QED BY <3>1, <3>4
  <2> QED BY <1>5, <2>1, <2>2 DEF CheckID
<1>6. CASE Accept(n, t)
  <2>1. pc'[n][t] = "sending"
        BY <1>6, GotoEffect DEF Accept
  <2>2. Bounded(n, t, {})
    <3>1. \A S : S \ {} = S
          OBVIOUS
    <3> QED BY <1>6, <3>1, HopPaid DEF PktID
  <2> QED BY <2>1, <2>2
<1>7. ASSUME NEW m \in Msgs, n = Sender[m], t = n, Post(m)
      PROVE  pc'[n][t] = "sending" /\ Bounded(n, t, {})
  <2>1. pkt'[n][t] = [msg |-> m, hop |-> 0]
        BY <1>7 DEF Post, TypeOK
  <2>2. pkt'[n][t].hop = 0
        BY <2>1
  <2>3. Cardinality(HeldThen(MsgID[pkt'[n][t].msg]) \ {}) \in Nat
        BY HeldGrows
  <2>4. pc'[n][t] = "sending"
        BY <1>7, PostEffect
  <2>5. \A c \in Nat : 0 <= c
        OBVIOUS
  <2> QED BY <2>2, <2>3, <2>4, <2>5
<1>8. CASE SendDone(n, t) \/ (t = n /\ LogOwn(n))
  <2>1. pc'[n][t] \in {"idle", "logging"}
        BY <1>8, IdleEffect, GotoEffect DEF SendDone, LogOwn
  <2> QED BY <2>1
<1>9. CASE SendNext(n, t)
  <2>1. pc'[n][t] = pc[n][t] /\ pkt'[n][t] = pkt[n][t]
        BY <1>9 DEF SendNext
  <2> QED BY <1>3, <2>1
<1>10. CASE ~OwnStep(n, t)
       BY <1>3, <1>10, PktKept
<1> HIDE DEF Bounded
<1> QED BY <1>4, <1>5, <1>6, <1>7, <1>8, <1>9, <1>10 DEF OwnStep

(* As long as no full log is cleared, no hop count exceeds the number of    *)
(* clients (hop_count++ in processReceivedMSG): every hop was counted by a  *)
(* client that then held the ID and had not held it at its check.           *)
THEOREM HopBoundCorrect == Spec /\ [][LogKept]_vars => []HopBound
<1>1. Init => HopsOnWire /\ HopsInHand
      BY DEF Init, HopsOnWire, HopsInHand
<1>2. TypeOK /\ HopsOnWire /\ HopsInHand /\ [Next]_vars /\ [LogKept]_vars
         => HopsOnWire' /\ HopsInHand'
  <2>1. ASSUME UNCHANGED vars, HopsOnWire, HopsInHand PROVE HopsOnWire' /\ HopsInHand'
    <3>1. \A id : Held(id)' = Held(id)
          BY <2>1 DEF vars, Held, InLog
    <3>2. \A n, t \in Clients : PktID(n, t)' = PktID(n, t)
          BY <2>1 DEF vars, PktID
    <3>3. HopsOnWire'
          BY <2>1, <3>1 DEF HopsOnWire, vars
    <3>4. HopsInHand'
          BY <2>1, <3>1, <3>2 DEF HopsInHand, vars
    <3> QED BY <3>3, <3>4
  <2>2. ASSUME TypeOK, HopsOnWire, HopsInHand, [Next]_vars, LogKept
        PROVE  HopsOnWire' /\ HopsInHand'
    <3>1. TypeOK'
          BY <2>2, TypeStep
    <3> QED BY <2>2, <3>1, HopsOnWireStep, HopsInHandStep
  <2> QED BY <2>1, <2>2
<1>3. TypeOK /\ HopsOnWire => HopBound
  <2> SUFFICES ASSUME TypeOK, HopsOnWire,
                      NEW n \in Clients, NEW k \in Clients, NEW i \in DOMAIN chan[n][k]
               PROVE  chan[n][k][i].hop <= Cardinality(Clients)
      BY DEF HopBound
  <2> DEFINE S == Held(MsgID[chan[n][k][i].msg])
             h == chan[n][k][i].hop
  <2>1. S \in SUBSET Clients
        BY DEF Held
  <2>2. h <= Cardinality(S)
        BY DEF HopsOnWire
  <2>3. h \in Nat
    <3>1. chan[n][k] \in Seq(Packets)
          BY DEF TypeOK
    <3>2. chan[n][k][i] \in Packets
          BY <3>1
    <3> QED BY <3>2, SizeAssumption DEF Packets
  <2> HIDE DEF S, h
  <2>4. /\ Cardinality(S) \in Nat /\ Cardinality(Clients) \in Nat
        /\ Cardinality(S) <= Cardinality(Clients)
        BY <2>1, HeldCard
  <2>5. h <= Cardinality(Clients)
        BY <2>2, <2>3, <2>4
  <2> QED BY <2>5 DEF h
<1> QED BY <1>1, <1>2, <1>3, TypeInit, TypeStep, PTL DEF Spec
=============================================================================
