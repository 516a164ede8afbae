--------------------------- MODULE SocketIOProofs ---------------------------
(***************************************************************************)
(* Proofs about the framing: its type invariant, and how much socketRecv    *)
(* reads, for every layout of a message, every set of messages and every    *)
(* width of a tsize_t.                                                      *)
(***************************************************************************)
EXTENDS SocketIO, SequenceTheorems, TLAPS

(* The ranges of what a call of socketRecv keeps.                           *)
CallOK == len \in Byte /\ curr \in Byte /\ buf \in [Byte -> Byte] /\ took \in Nat

(* The widths and tags, as the proofs use them.                             *)
LEMMA Width == TSIZE \in Nat /\ TSIZE > 1 /\ 0 \in Byte /\ 1 \in Byte /\ MSG_DATA \in Byte /\ QUIT \in Byte
BY SocketIOAssumption DEF Byte

(* A new call of socketRecv starts in range.                                *)
LEMMA BeginOK ==
  ASSUME NEW n \in Byte, Begin(n)
  PROVE  CallOK'
BY Width DEF Begin, CallOK

(* A field that is read is a sequence of bytes.                             *)
LEMMA BytesOK ==
  ASSUME len \in Byte, buf \in [Byte -> Byte]
  PROVE  Bytes \in Seq(Byte)
<1>1. \A i \in 1 .. len : buf[i - 1] \in Byte
  BY Width DEF Byte
<1>2. len \in Nat
  BY Width DEF Byte
<1> QED
  BY <1>1, <1>2 DEF Bytes

(* What recv() writes into the buffer are bytes of the stream.              *)
LEMMA WriteOK ==
  ASSUME wire \in Seq(Byte), buf \in [Byte -> Byte], curr \in Byte, NEW n \in Nat, n <= Len(wire)
  PROVE  Write(n) \in [Byte -> Byte]
<1>1. ASSUME NEW i \in Byte, i \in curr .. curr + n - 1
      PROVE  wire[i - curr + 1] \in Byte
  <2>1. i - curr + 1 \in 1 .. Len(wire)
    BY <1>1, Width DEF Byte
  <2> QED
    BY <2>1, ElementOfSeq
<1> QED
  BY <1>1 DEF Write

(* The fields still to be sent are sequences of bytes.                      *)
LEMMA MessageOK ==
  ASSUME NEW p \in Packets
  PROVE  <<<<MSG_DATA>>>> \o p \in Seq(Seq(Byte))
<1>1. p \in Seq(Seq(Byte))
  BY SocketIOAssumption
<1>2. <<MSG_DATA>> \in Seq(Byte)
  BY Width
<1>3. <<<<MSG_DATA>>>> \in Seq(Seq(Byte))
  BY <1>2
<1> QED
  BY <1>1, <1>3, ConcatProperties

-----------------------------------------------------------------------------
(* Type correctness, by groups of variables.                                *)

StreamOK == wire \in Seq(Byte) /\ link \in {"up", "broken"} /\ rest \in Seq(Seq(Byte)) /\ begun \in Seq(Packets)

ReceiverOK ==
    /\ status \in {"on", "over"}
    /\ field \in 0 .. Len(Fields)
    /\ msg \in Seq(Seq(Byte))
    /\ returned \in Seq(Seq(Seq(Byte)))
    /\ short \in BOOLEAN

LEMMA TypeParts ==
  /\ TypeOK <=> StreamOK /\ CallOK /\ ReceiverOK
  /\ TypeOK' <=> StreamOK' /\ CallOK' /\ ReceiverOK'
BY DEF TypeOK, StreamOK, CallOK, ReceiverOK

(* Initially every variable has its type.                                   *)
LEMMA InitType == Init => TypeOK
<1> SUFFICES ASSUME Init PROVE TypeOK
  OBVIOUS
<1>1. Len(Fields) \in Nat
  BY SocketIOAssumption
<1>2. StreamOK
  BY DEF Init, StreamOK
<1>3. CallOK
  BY Width DEF Init, CallOK
<1>4. ReceiverOK
  <2>1. status \in {"on", "over"} /\ short \in BOOLEAN
    BY DEF Init
  <2>2. field \in 0 .. Len(Fields)
    BY <1>1 DEF Init
  <2>3. msg \in Seq(Seq(Byte)) /\ returned \in Seq(Seq(Seq(Byte)))
    BY EmptySeq DEF Init
  <2> QED
    BY <2>1, <2>2, <2>3 DEF ReceiverOK
<1> QED
  BY <1>2, <1>3, <1>4, TypeParts

(* The sender leaves the receiver alone, and keeps what is written typed.   *)
LEMMA SendType ==
  ASSUME TypeOK, SendStep
  PROVE  TypeOK'
<1> USE DEF StreamOK
<1>0. StreamOK /\ CallOK /\ ReceiverOK
  BY TypeParts
<1> SUFFICES StreamOK'
  <2>1. CallOK' /\ ReceiverOK'
    BY <1>0 DEF SendStep, BeginMessage, SendField, SendBreaks, SayQuit, call, CallOK, ReceiverOK
  <2> QED
    BY <2>1, TypeParts
<1>1. ASSUME NEW p \in Packets, BeginMessage(p)
      PROVE  StreamOK'
  <2>1. begun' \in Seq(Packets)
    BY <1>0, <1>1 DEF BeginMessage
  <2>2. rest' \in Seq(Seq(Byte))
    BY <1>1, MessageOK DEF BeginMessage
  <2> QED
    BY <1>0, <1>1, <2>1, <2>2 DEF BeginMessage
<1>2. CASE SendField
  <2>1. Head(rest) \in Seq(Byte) /\ Tail(rest) \in Seq(Seq(Byte))
    BY <1>0, <1>2, HeadTailProperties DEF SendField
  <2>2. wire \o Head(rest) \in Seq(Byte)
    BY <1>0, <2>1, ConcatProperties
  <2> QED
    BY <1>0, <1>2, <2>1, <2>2 DEF SendField
<1>3. CASE SendBreaks
  <2>1. CASE rest = <<>>
    BY <1>0, <1>3, <2>1 DEF SendBreaks
  <2>2. CASE rest # <<>>
    <3>1. Head(rest) \in Seq(Byte)
      BY <1>0, <2>2, HeadTailProperties
    <3>2. PICK n \in 0 .. Len(Head(rest)) : wire' = wire \o SubSeq(Head(rest), 1, n)
      BY <1>3, <2>2 DEF SendBreaks
    <3>3. SubSeq(Head(rest), 1, n) \in Seq(Byte)
      <4>1. \A i \in 1 .. n : Head(rest)[i] \in Byte
        BY <3>1, ElementOfSeq
      <4> QED
        BY <4>1, SubSeqProperties
    <3>4. wire' \in Seq(Byte)
      BY <1>0, <3>2, <3>3, ConcatProperties
    <3> QED
      BY <1>0, <1>3, <3>4 DEF SendBreaks
  <2> QED
    BY <2>1, <2>2
<1>4. CASE SayQuit
  <2>1. wire' \in Seq(Byte)
    BY <1>0, <1>4, Width, AppendProperties DEF SayQuit
  <2> QED
    BY <1>0, <1>4, <2>1 DEF SayQuit, sender
<1> QED
  BY <1>1, <1>2, <1>3, <1>4 DEF SendStep

(* One recv() keeps the index in the range of a tsize_t.                    *)
LEMMA RecvType ==
  ASSUME TypeOK, Recv
  PROVE  TypeOK'
<1>0. StreamOK /\ CallOK /\ ReceiverOK
  BY TypeParts
<1>1. PICK n \in 1 .. len :
         /\ n <= Len(wire)
         /\ buf' = Write(n)
         /\ wire' = SubSeq(wire, n + 1, Len(wire))
         /\ curr' = (curr + n) % TSIZE
         /\ took' = took + n
         /\ short' = (short \/ n < len)
  BY DEF Recv
<1>2. n \in Nat /\ len \in Nat /\ curr \in Nat
  BY <1>0, Width DEF CallOK, Byte
<1>3. buf' \in [Byte -> Byte]
  BY <1>0, <1>1, <1>2, WriteOK DEF StreamOK, CallOK
<1>4. wire' \in Seq(Byte)
  <2>1. \A i \in n + 1 .. Len(wire) : wire[i] \in Byte
    BY <1>0, <1>2, ElementOfSeq DEF StreamOK
  <2> QED
    BY <1>0, <1>1, <1>2, <2>1, SubSeqProperties DEF StreamOK
<1>5. curr' \in Byte
  <2>1. (curr + n) % TSIZE \in 0 .. TSIZE - 1
    BY <1>2, Width
  <2> QED
    BY <1>1, <2>1 DEF Byte
<1>6. took' \in Nat /\ short' \in BOOLEAN
  BY <1>0, <1>1, <1>2 DEF CallOK
<1>7. StreamOK'
  BY <1>0, <1>4 DEF Recv, sender, StreamOK
<1>8. CallOK'
  BY <1>0, <1>3, <1>5, <1>6 DEF Recv, CallOK
<1>9. ReceiverOK'
  BY <1>0, <1>6 DEF Recv, ReceiverOK
<1> QED
  BY <1>7, <1>8, <1>9, TypeParts

(* MSGReceive goes from field to field, and its caller from message to      *)
(* message.                                                                 *)
LEMMA ReceiveType ==
  ASSUME TypeOK, ReceiveStep
  PROVE  TypeOK'
<1>0. StreamOK /\ CallOK /\ ReceiverOK
  BY TypeParts
<1>1. Len(Fields) \in Nat /\ Len(Fields) > 0
  BY SocketIOAssumption
<1>2. Bytes \in Seq(Byte)
  BY <1>0, BytesOK DEF CallOK
<1>3. buf[0] \in Byte
  BY <1>0, Width DEF CallOK
<1>4. CASE Recv
  BY <1>4, RecvType
<1>5. CASE RecvFails
  BY <1>0, <1>5, TypeParts DEF RecvFails, sender, call, StreamOK, CallOK, ReceiverOK
<1>6. CASE TagRead
  <2>1. StreamOK'
    BY <1>0, <1>6 DEF TagRead, sender, StreamOK
  <2>2. CallOK'
    <3>1. CASE Begin(1)
      BY <3>1, BeginOK, Width
    <3>2. CASE UNCHANGED call
      BY <1>0, <3>2 DEF call, CallOK
    <3> QED
      BY <1>6, <3>1, <3>2 DEF TagRead
  <2>3. ReceiverOK'
    BY <1>0, <1>1, <1>6 DEF TagRead, ReceiverOK
  <2> QED
    BY <2>1, <2>2, <2>3, TypeParts
<1>7. CASE FieldRead
  <2>1. StreamOK'
    BY <1>0, <1>7 DEF FieldRead, sender, StreamOK
  <2>2. CallOK'
    BY <1>3, <1>7, BeginOK, Width DEF FieldRead
  <2>3. msg' \in Seq(Seq(Byte))
    BY <1>0, <1>2, <1>7, AppendProperties DEF FieldRead, ReceiverOK
  <2>4. ReceiverOK'
    BY <1>0, <1>1, <1>7, <2>3 DEF FieldRead, ReceiverOK
  <2> QED
    BY <2>1, <2>2, <2>4, TypeParts
<1>8. CASE MessageRead
  <2>1. StreamOK'
    BY <1>0, <1>8 DEF MessageRead, sender, StreamOK
  <2>2. CallOK'
    BY <1>8, BeginOK, Width DEF MessageRead
  <2>3. Append(msg, Bytes) \in Seq(Seq(Byte))
    BY <1>0, <1>2, AppendProperties DEF ReceiverOK
  <2>4. returned' \in Seq(Seq(Seq(Byte)))
    BY <1>0, <1>8, <2>3, AppendProperties DEF MessageRead, ReceiverOK
  <2>5. ReceiverOK'
    BY <1>0, <1>1, <1>8, <2>4 DEF MessageRead, ReceiverOK
  <2> QED
    BY <2>1, <2>2, <2>5, TypeParts
<1> QED
  BY <1>4, <1>5, <1>6, <1>7, <1>8 DEF ReceiveStep

(* Every variable keeps its type: the index of socketRecv and the lengths   *)
(* that come over the network stay in the range of a tsize_t.               *)
THEOREM TypeCorrect == Spec => []TypeOK
<1>1. TypeOK /\ [Next]_vars => TypeOK'
  <2> SUFFICES ASSUME TypeOK, [Next]_vars PROVE TypeOK'
    OBVIOUS
  <2>1. CASE Next
    BY <2>1, SendType, ReceiveType DEF Next
  <2>2. CASE UNCHANGED vars
    BY <2>2 DEF vars, sender, call, TypeOK
  <2> QED
    BY <2>1, <2>2
<1> QED
  BY <1>1, InitType, PTL DEF Spec

-----------------------------------------------------------------------------
(* How much a call of socketRecv reads.                                     *)

(* A step of the loop: below the end of a short field the index does not    *)
(* wrap, and one recv() adds at most the field.                             *)
LEMMA RecvHalf ==
  ASSUME TypeOK, HalfIsSafe, Recv
  PROVE  HalfIsSafe'
<1>1. PICK n \in 1 .. len : curr' = (curr + n) % TSIZE /\ took' = took + n
  BY DEF Recv
<1>2. len' = len /\ curr < len
  BY DEF Recv
<1>3. TSIZE \in Nat /\ len \in Nat /\ curr \in Nat /\ took \in Nat /\ n \in Nat
  BY Width DEF TypeOK, Byte
<1>4. ASSUME 2 * len <= TSIZE
      PROVE  took' = curr' /\ took' < 2 * len
  <2>1. took = curr
    BY <1>4 DEF HalfIsSafe
  <2>2. curr + n < 2 * len
    BY <1>1, <1>2, <1>3
  <2>3. (curr + n) % TSIZE = curr + n
    BY <1>3, <1>4, <2>2, Width
  <2> QED
    BY <1>1, <1>3, <2>1, <2>2, <2>3
<1> QED
  BY <1>2, <1>4 DEF HalfIsSafe

(* For any width of a tsize_t: a field of at most half its range is read    *)
(* with an index that does not wrap, and less than twice its length is      *)
(* taken from the connection; a field of one byte is read exactly.          *)
THEOREM HalfIsSafeCorrect == Spec => []HalfIsSafe
<1>1. Init => HalfIsSafe
  BY DEF Init, HalfIsSafe
<1>2. TypeOK /\ HalfIsSafe /\ [Next]_vars => HalfIsSafe'
  <2> SUFFICES ASSUME TypeOK, HalfIsSafe, [Next]_vars PROVE HalfIsSafe'
    OBVIOUS
  <2>1. CASE Recv
    BY <2>1, RecvHalf
  <2>2. ASSUME NEW n, Begin(n)
        PROVE  HalfIsSafe'
    BY <2>2 DEF Begin, HalfIsSafe
  <2>3. CASE UNCHANGED call
    BY <2>3 DEF call, HalfIsSafe
  <2>4. CASE SendStep
    BY <2>3, <2>4 DEF SendStep, BeginMessage, SendField, SendBreaks, SayQuit
  <2>5. CASE RecvFails
    BY <2>3, <2>5 DEF RecvFails
  <2>6. CASE TagRead
    BY <2>2, <2>3, <2>6 DEF TagRead
  <2>7. CASE FieldRead
    BY <2>2, <2>7 DEF FieldRead
  <2>8. CASE MessageRead
    BY <2>2, <2>8 DEF MessageRead
  <2>9. CASE UNCHANGED vars
    BY <2>3, <2>9 DEF vars
  <2> QED
    BY <2>1, <2>4, <2>5, <2>6, <2>7, <2>8, <2>9 DEF Next, ReceiveStep
<1> QED
  BY <1>1, <1>2, TypeCorrect, PTL DEF Spec

-----------------------------------------------------------------------------
(* The receiver in step with the sender.  A place <<m, f>> is field f of    *)
(* the m-th message, its tag for f = 0; a unit is what is written there.    *)
(* Off gives each place up to the sender's its offset in the stream since   *)
(* the connection was made, and R is the offset of the first byte of wire.  *)

Last == Len(Fields)

Unit(m, f) == IF f = 0 THEN <<MSG_DATA>> ELSE begun[m][f]

NextM(m, f) == IF f = Last THEN m + 1 ELSE m
NextF(f)    == IF f = Last THEN 0 ELSE f + 1

Before(m, f, M, F) == m < M \/ (m = M /\ f < F)

Offsets == [Nat -> [0 .. Last -> Nat]]

(* The place <<M, F>> is the sender's: nothing of it is written, or, when   *)
(* the connection has broken there, not all of it.                          *)
Sending(M, F) ==
    /\ M <= Len(begun) \/ (M = Len(begun) + 1 /\ F = 0)
    /\ link = "up" =>
          IF rest = <<>>
          THEN M = Len(begun) + 1
          ELSE /\ M = Len(begun) /\ F + Len(rest) = Last + 1
               /\ \A i \in 1 .. Len(rest) : rest[i] = Unit(M, F + i - 1)

(* Units follow each other without a gap.                                   *)
Laid(M, F, Off) ==
    \A m \in 1 .. M, f \in 0 .. Last : Before(m, f, M, F) =>
        /\ Off[NextM(m, f)][NextF(f)] = Off[m][f] + Len(Unit(m, f))
        /\ Off[NextM(m, f)][NextF(f)] <= Off[M][F]

(* The bytes on the wire are those of the units that are not read.          *)
OnWire(M, F, Off, R) ==
    \A m \in 1 .. M, f \in 0 .. Last : Before(m, f, M, F) =>
        \A j \in 1 .. Len(Unit(m, f)), i \in Nat \ {0} :
            R + i = Off[m][f] + j => wire[i] = Unit(m, f)[j]

(* Behind them is nothing, a part of a unit, or QUIT.                       *)
Ending(M, F, Off, R) ==
    \/ R + Len(wire) = Off[M][F]
    \/ /\ link = "broken" /\ M <= Len(begun)
       /\ Off[M][F] < R + Len(wire) /\ R + Len(wire) < Off[M][F] + Len(Unit(M, F))
    \/ /\ link = "broken" /\ M = Len(begun) + 1
       /\ R + Len(wire) = Off[M][F] + 1 /\ wire[Len(wire)] = QUIT

(* The receiver reads, or will read next, what the wire begins with.  It    *)
(* may be one place ahead of the sender, who has an empty text to send.     *)
At(m, f, M, F, Off, R) ==
    \/ Before(m, f, M, F) /\ R = Off[m][f]
    \/ m = M /\ f = F /\ R = Off[M][F]
    \/ /\ M <= Len(begun) /\ Unit(M, F) = <<>>
       /\ m = NextM(M, F) /\ f = NextF(F) /\ R = Off[M][F]

Reading(M, F, Off, R) ==
    LET m == Len(returned) + 1
    IN IF curr < len THEN At(m, field, M, F, Off, R)
                     ELSE At(NextM(m, field), NextF(field), M, F, Off, R)

Track(M, F, Off, R) ==
    Sending(M, F) /\ Laid(M, F, Off) /\ OnWire(M, F, Off, R) /\ Ending(M, F, Off, R) /\ Reading(M, F, Off, R)

Tracked == \E M \in Nat \ {0}, F \in 0 .. Last, Off \in Offsets, R \in Nat : Track(M, F, Off, R)

(* What the receiver has of the message it is in.                           *)
Current ==
    LET m == Len(returned) + 1
    IN /\ field # 0 \/ curr >= len => m <= Len(begun)
       /\ len = Len(Unit(m, field))
       /\ curr = 0 \/ curr = len
       /\ curr >= len => \A j \in 1 .. len : buf[j - 1] = Unit(m, field)[j]
       /\ Len(msg) = IF field = 0 THEN 0 ELSE field - 1
       /\ \A i \in 1 .. Len(msg) : msg[i] = begun[m][i]

Prefix ==
    /\ Len(returned) <= Len(begun)
    /\ \A n \in 1 .. Len(returned) : returned[n] = begun[n]

(* The receiver has ended, or is about to, having read QUIT.                *)
Over ==
    /\ link = "broken"
    /\ status = "over" \/ (field = 0 /\ curr >= len /\ buf[0] = QUIT)

Whole == ~short => Prefix /\ (Over \/ (status = "on" /\ Current /\ Tracked))

(* The places are numbers.                                                  *)
LEMMA LastIs == Last \in Nat /\ Last > 0 /\ DOMAIN Fields = 1 .. Last
BY SocketIOAssumption DEF Last

(* A text stands behind its length, so it is not the first field.           *)
LEMMA TextIs ==
  ASSUME NEW f \in 1 .. Last, Fields[f] = "text"
  PROVE  f - 1 \in 1 .. Last /\ Fields[f - 1] = "len"
BY LastIs, SocketIOAssumption

(* The fields of a message that was begun.                                  *)
LEMMA BegunIs ==
  ASSUME TypeOK, NEW m \in 1 .. Len(begun)
  PROVE  begun[m] \in Packets /\ begun[m] \in Seq(Seq(Byte)) /\ Len(begun[m]) = Last /\ Len(begun) \in Nat
<1>1. begun \in Seq(Packets)
  BY DEF TypeOK
<1>2. begun[m] \in Packets
  BY <1>1, ElementOfSeq
<1> QED
  BY <1>1, <1>2, SocketIOAssumption DEF Last

(* A unit is bytes, one of them unless it is a text; a text is as long as   *)
(* the field before it says.                                                *)
LEMMA UnitIs ==
  ASSUME TypeOK, NEW m \in 1 .. Len(begun), NEW f \in 1 .. Last
  PROVE  /\ Unit(m, f) = begun[m][f] /\ Unit(m, f) \in Seq(Byte) /\ Len(Unit(m, f)) \in Nat
         /\ Fields[f] # "text" => Len(Unit(m, f)) = 1
         /\ Fields[f] = "len" => f < Last /\ Fields[f + 1] = "text" /\ Unit(m, f)[1] = Len(Unit(m, f + 1))
<1>1. begun[m] \in Packets /\ begun[m] \in Seq(Seq(Byte)) /\ Len(begun[m]) = Last
  BY BegunIs
<1>2. DOMAIN begun[m] = 1 .. Last
  BY <1>1, LenProperties
<1>3. begun[m][f] \in Seq(Byte)
  BY <1>1, ElementOfSeq
<1>4. Unit(m, f) = begun[m][f]
  BY LastIs DEF Unit
<1>5. Fields[f] # "text" => Len(begun[m][f]) = 1
  BY <1>1, <1>2, SocketIOAssumption
<1>6. ASSUME Fields[f] = "len"
      PROVE  f < Last /\ Fields[f + 1] = "text" /\ begun[m][f][1] = Len(begun[m][f + 1])
  <2>1. f + 1 \in DOMAIN begun[m] /\ Fields[f + 1] = "text" /\ begun[m][f][1] = Len(begun[m][f + 1])
    BY <1>1, <1>2, <1>6, SocketIOAssumption
  <2> QED
    BY <1>2, <2>1, LastIs
<1>7. Unit(m, f + 1) = begun[m][f + 1]
  BY LastIs DEF Unit
<1> QED
  BY <1>3, <1>4, <1>5, <1>6, <1>7, LenProperties

(* The tag and the units of messages that were begun.                       *)
LEMMA UnitLen ==
  ASSUME TypeOK, NEW m \in Nat \ {0}, NEW f \in 0 .. Last, m <= Len(begun) \/ f = 0
  PROVE  Unit(m, f) \in Seq(Byte) /\ Len(Unit(m, f)) \in Nat
<1>1. CASE f = 0
  <2>1. Unit(m, f) = <<MSG_DATA>>
    BY <1>1 DEF Unit
  <2> QED
    BY <2>1, Width
<1>2. CASE f # 0
  <2>1. m \in 1 .. Len(begun) /\ f \in 1 .. Last
    BY <1>2, LastIs DEF TypeOK
  <2> QED
    BY <2>1, UnitIs
<1> QED
  BY <1>1, <1>2

(* Initially the receiver waits for the first tag.                          *)
LEMMA InitWhole == Init => Whole
<1> SUFFICES ASSUME Init PROVE Prefix /\ status = "on" /\ Current /\ Tracked
  BY DEF Whole
<1>1. Prefix /\ status = "on"
  BY DEF Init, Prefix
<1>2. Current
  BY DEF Init, Current, Unit
<1>3. Tracked
  <2> DEFINE Off == [m \in Nat |-> [f \in 0 .. Last |-> 0]]
  <2>1. Off \in Offsets /\ Off[1][0] = 0
    BY LastIs DEF Offsets
  <2>2. Sending(1, 0) /\ Reading(1, 0, Off, 0)
    BY <2>1 DEF Init, Sending, Reading, At
  <2>3. \A m \in 1 .. 1, f \in 0 .. Last : ~ Before(m, f, 1, 0)
    BY LastIs DEF Before
  <2>4. Laid(1, 0, Off) /\ OnWire(1, 0, Off, 0)
    BY <2>3 DEF Laid, OnWire
  <2>5. Ending(1, 0, Off, 0)
    BY <2>1 DEF Init, Ending
  <2>6. Track(1, 0, Off, 0)
    BY <2>2, <2>4, <2>5 DEF Track
  <2> HIDE DEF Off
  <2> QED
    BY <2>1, <2>6, LastIs DEF Tracked
<1> QED
  BY <1>1, <1>2, <1>3

(* In step, the property holds: when all is read and the receiver waits,    *)
(* it waits at the sender's place.                                          *)
LEMMA WholeInStep == TypeOK /\ Whole => InStep
<1> SUFFICES ASSUME TypeOK, Whole, ~short PROVE InStep
  BY DEF InStep
<1>1. Len(returned) \in Nat /\ Len(begun) \in Nat /\ DOMAIN returned = 1 .. Len(returned)
  BY DEF TypeOK
<1>2. Prefix
  BY DEF Whole
<1>3. status = "over" => link = "broken"
  BY DEF Whole, Over
<1>4. ASSUME wire = <<>>, rest = <<>>, link = "up", curr < len
      PROVE  returned = begun
  <2>1. Current /\ Tracked
    BY <1>4 DEF Whole, Over
  <2>2. PICK M \in Nat \ {0}, F \in 0 .. Last, Off \in Offsets, R \in Nat : Track(M, F, Off, R)
    BY <2>1 DEF Tracked
  <2>3. M = Len(begun) + 1 /\ F = 0
    BY <1>1, <1>4, <2>2, LastIs DEF Track, Sending
  <2>4. R = Off[M][F]
    <3>1. Ending(M, F, Off, R) /\ link # "broken"
      BY <1>4, <2>2 DEF Track
    <3>2. R + Len(wire) = Off[M][F] /\ Len(wire) = 0
      BY <1>4, <3>1 DEF Ending
    <3> QED
      BY <3>2
  <2> DEFINE m == Len(returned) + 1
  <2>5. m \in Nat \ {0} /\ field \in 0 .. Last /\ curr \in Nat /\ len \in Nat
    BY <1>1, Width DEF TypeOK, Byte, Last
  <2>6. At(m, field, M, F, Off, R)
    BY <1>4, <2>2 DEF Track, Reading
  <2>7. ~ Before(m, field, M, F)
    <3> SUFFICES ASSUME Before(m, field, M, F) PROVE FALSE
      OBVIOUS
    <3>1. m <= Len(begun) /\ m \in 1 .. M
      BY <1>1, <2>3, <2>5 DEF Before
    <3>2. R = Off[m][field]
      BY <1>1, <2>3, <2>5, <2>6, <3>1 DEF At, Before
    <3>3. Off[m][field] + Len(Unit(m, field)) <= Off[M][F]
      BY <2>2, <2>5, <3>1 DEF Track, Laid
    <3>4. len = Len(Unit(m, field))
      BY <2>1 DEF Current
    <3> QED
      BY <1>4, <2>4, <2>5, <3>2, <3>3, <3>4
  <2>8. m = M
    BY <1>1, <2>3, <2>6, <2>7 DEF At
  <2>9. Len(returned) = Len(begun)
    BY <1>1, <2>3, <2>8
  <2>10. returned \in Seq(Seq(Seq(Byte))) /\ begun \in Seq(Packets) /\ Packets \subseteq Seq(Seq(Byte))
    BY SocketIOAssumption DEF TypeOK
  <2>11. begun \in Seq(Seq(Seq(Byte)))
    BY <2>10
  <2>12. \A i \in 1 .. Len(returned) : returned[i] = begun[i]
    BY <1>2 DEF Prefix
  <2> HIDE DEF m
  <2> QED
    BY ONLY <2>9, <2>10, <2>11, <2>12, SeqEqual
<1> QED
  BY <1>1, <1>2, <1>3, <1>4 DEF InStep, Prefix

-----------------------------------------------------------------------------
(* The steps of the sender.                                                 *)

(* The order of the places.                                                 *)
LEMMA PlacesIs ==
  ASSUME NEW M \in Nat \ {0}, NEW F \in 0 .. Last
  PROVE  /\ NextM(M, F) \in Nat \ {0} /\ NextF(F) \in 0 .. Last
         /\ \A m \in Nat, f \in 0 .. Last :
               /\ Before(m, f, NextM(M, F), NextF(F)) <=> Before(m, f, M, F) \/ (m = M /\ f = F)
               /\ Before(m, f, M, F) => Before(NextM(m, f), NextF(f), M, F) \/ (NextM(m, f) = M /\ NextF(f) = F)
BY LastIs DEF NextM, NextF, Before

(* The ranges of what the wire is described with.                           *)
LEMMA StreamIs ==
  ASSUME TypeOK, NEW Off \in Offsets
  PROVE  /\ wire \in Seq(Byte) /\ Len(wire) \in Nat
         /\ begun \in Seq(Packets) /\ Len(begun) \in Nat /\ Len(returned) \in Nat
         /\ \A m \in Nat, f \in 0 .. Last : Off[m][f] \in Nat
<1>1. wire \in Seq(Byte) /\ begun \in Seq(Packets) /\ returned \in Seq(Seq(Seq(Byte)))
  BY DEF TypeOK
<1>2. \A m \in Nat, f \in 0 .. Last : Off[m][f] \in Nat
  BY DEF Offsets
<1> QED
  BY <1>1, <1>2, LenProperties

(* A byte of a unit lies where the offsets say.                             *)
LEMMA Lies ==
  ASSUME NEW r \in Nat, NEW w \in Nat, NEW i \in Nat, NEW o \in Nat, NEW j \in Nat, NEW l \in Nat, NEW e \in Nat,
         r + i = o + j, j <= l, o + l <= e, e <= r + w
  PROVE  i <= w
OBVIOUS

(* A unit that is written before the sender's place is on the wire, as far  *)
(* as it is not read.                                                       *)
LEMMA UnitOnWire ==
  ASSUME TypeOK, NEW M \in Nat \ {0}, NEW F \in 0 .. Last, NEW Off \in Offsets, NEW R \in Nat,
         Track(M, F, Off, R),
         NEW m \in Nat \ {0}, NEW f \in 0 .. Last, Before(m, f, M, F)
  PROVE  /\ m <= Len(begun) /\ Unit(m, f) \in Seq(Byte) /\ Len(Unit(m, f)) \in Nat
         /\ Off[NextM(m, f)][NextF(f)] = Off[m][f] + Len(Unit(m, f))
         /\ Off[m][f] + Len(Unit(m, f)) <= Off[M][F]
         /\ \A j \in 1 .. Len(Unit(m, f)), i \in Nat \ {0} :
               R + i = Off[m][f] + j => i \in 1 .. Len(wire) /\ wire[i] = Unit(m, f)[j]
<1>1. Len(wire) \in Nat /\ Len(begun) \in Nat /\ Off[m][f] \in Nat /\ Off[M][F] \in Nat
  BY StreamIs
<1>2. m \in 1 .. M /\ m <= Len(begun)
  <2>1. M <= Len(begun) \/ (M = Len(begun) + 1 /\ F = 0)
    BY DEF Track, Sending
  <2> QED
    BY <1>1, <2>1, LastIs DEF Before
<1>3. Unit(m, f) \in Seq(Byte) /\ Len(Unit(m, f)) \in Nat
  BY <1>2, UnitLen
<1>4. Off[NextM(m, f)][NextF(f)] = Off[m][f] + Len(Unit(m, f)) /\ Off[m][f] + Len(Unit(m, f)) <= Off[M][F]
  <2>1. Laid(M, F, Off)
    BY DEF Track
  <2>2. Off[NextM(m, f)][NextF(f)] = Off[m][f] + Len(Unit(m, f)) /\ Off[NextM(m, f)][NextF(f)] <= Off[M][F]
    BY <1>2, <2>1 DEF Laid
  <2> QED
    BY <2>2
<1>5. Off[M][F] <= R + Len(wire)
  <2>1. Ending(M, F, Off, R)
    BY DEF Track
  <2> QED
    BY <1>1, <2>1 DEF Ending
<1>6. ASSUME NEW j \in 1 .. Len(Unit(m, f)), NEW i \in Nat \ {0}, R + i = Off[m][f] + j
      PROVE  i \in 1 .. Len(wire) /\ wire[i] = Unit(m, f)[j]
  <2>1. i \in Nat /\ j \in Nat /\ j <= Len(Unit(m, f)) /\ Len(Unit(m, f)) \in Nat
    BY <1>3
  <2>2. i <= Len(wire)
    <3> DEFINE w == Len(wire)
               l == Len(Unit(m, f))
               o == Off[m][f]
               e == Off[M][F]
    <3>1. w \in Nat /\ l \in Nat /\ o \in Nat /\ e \in Nat
      BY <1>1, <2>1
    <3>2. R + i = o + j /\ j <= l /\ o + l <= e /\ e <= R + w
      BY <1>4, <1>5, <1>6, <2>1
    <3> HIDE DEF w, l, o, e
    <3>3. i <= w
      BY <2>1, <3>1, <3>2, Lies
    <3> QED
      BY <3>3 DEF w
  <2>3. OnWire(M, F, Off, R)
    BY DEF Track
  <2>4. wire[i] = Unit(m, f)[j]
    BY <1>2, <1>6, <2>3 DEF OnWire
  <2> QED
    BY <1>1, <2>1, <2>2, <2>4
<1> QED
  BY <1>2, <1>3, <1>4, <1>6

LEMMA BytesOnWire ==
  ASSUME TypeOK, NEW M \in Nat \ {0}, NEW F \in 0 .. Last, NEW Off \in Offsets, NEW R \in Nat,
         Track(M, F, Off, R)
  PROVE  \A m \in 1 .. M, f \in 0 .. Last : Before(m, f, M, F) =>
           \A j \in 1 .. Len(Unit(m, f)), i \in Nat \ {0} :
               R + i = Off[m][f] + j => i \in 1 .. Len(wire) /\ wire[i] = Unit(m, f)[j]
<1> SUFFICES ASSUME NEW m \in 1 .. M, NEW f \in 0 .. Last, Before(m, f, M, F)
             PROVE  \A j \in 1 .. Len(Unit(m, f)), i \in Nat \ {0} :
                      R + i = Off[m][f] + j => i \in 1 .. Len(wire) /\ wire[i] = Unit(m, f)[j]
  OBVIOUS
<1>1. m \in Nat \ {0}
  OBVIOUS
<1> QED
  BY <1>1, UnitOnWire

(* A message that is begun changes no unit of an earlier one.               *)
LEMMA UnitStays ==
  ASSUME TypeOK, NEW p \in Packets, begun' = Append(begun, p) \/ begun' = begun,
         NEW m \in Nat \ {0}, NEW f, m <= Len(begun) \/ f = 0
  PROVE  Unit(m, f)' = Unit(m, f) /\ (m <= Len(begun) => begun'[m] = begun[m])
<1>1. ASSUME m <= Len(begun)
      PROVE  begun'[m] = begun[m]
  <2>1. begun \in Seq(Packets) /\ m \in 1 .. Len(begun)
    BY <1>1 DEF TypeOK
  <2> QED
    BY <2>1, AppendProperties
<1> QED
  BY <1>1 DEF Unit

(* The receiver keeps what it has.                                          *)
LEMMA CurrentStays ==
  ASSUME TypeOK, Current, Prefix, UNCHANGED <<call, field, msg, returned>>,
         NEW p \in Packets, begun' = Append(begun, p) \/ begun' = begun
  PROVE  Current' /\ Prefix'
<1> DEFINE m == Len(returned) + 1
<1>1. m \in Nat \ {0} /\ Len(returned) \in Nat /\ Len(begun) \in Nat
  BY DEF TypeOK
<1>2. len' = len /\ curr' = curr /\ buf' = buf /\ field' = field /\ msg' = msg /\ returned' = returned
  BY DEF call
<1>3. m <= Len(begun) \/ field = 0
  BY DEF Current
<1>4. Unit(m, field)' = Unit(m, field)
  BY <1>1, <1>2, <1>3, UnitStays
<1>5. Len(begun') >= Len(begun)
  BY AppendProperties DEF TypeOK
<1>6. \A i \in 1 .. Len(msg) : begun'[m][i] = begun[m][i]
  <2>1. CASE m <= Len(begun)
    BY <1>1, <2>1, UnitStays
  <2>2. CASE field = 0
    BY <2>2 DEF Current
  <2> QED
    BY <1>3, <2>1, <2>2
<1>7. Current'
  <2>1. (field # 0 \/ curr >= len => m <= Len(begun'))
    BY <1>1, <1>5 DEF Current, TypeOK
  <2>2. len = Len(Unit(m, field)')
    BY <1>4 DEF Current
  <2>3. curr >= len => \A j \in 1 .. len : buf[j - 1] = Unit(m, field)'[j]
    BY <1>4 DEF Current
  <2>4. \A i \in 1 .. Len(msg) : msg[i] = begun'[m][i]
    BY <1>6 DEF Current
  <2> QED
    BY <1>2, <2>1, <2>2, <2>3, <2>4 DEF Current
<1>8. \A n \in 1 .. Len(returned) : n \in Nat \ {0} /\ n <= Len(begun)
  BY <1>1 DEF Prefix
<1>9. \A n \in 1 .. Len(returned) : begun'[n] = begun[n]
  BY <1>8, UnitStays
<1>10. Prefix'
  <2>1. Len(returned) <= Len(begun')
    BY <1>1, <1>5, AppendProperties DEF Prefix, TypeOK
  <2> QED
    BY <1>2, <1>9, <2>1 DEF Prefix
<1> QED
  BY <1>7, <1>10

(* A message is begun at the sender's place.                                *)
LEMMA BeginWhole ==
  ASSUME TypeOK, Whole, NEW p \in Packets, BeginMessage(p)
  PROVE  Whole'
<1> SUFFICES ASSUME ~short PROVE Prefix' /\ status' = "on" /\ Current' /\ Tracked'
  BY DEF Whole, BeginMessage
<1>1. Prefix /\ status = "on" /\ Current /\ Tracked
  BY DEF Whole, Over, BeginMessage
<1>2. Prefix' /\ Current'
  BY <1>1, CurrentStays DEF BeginMessage
<1>3. PICK M \in Nat \ {0}, F \in 0 .. Last, Off \in Offsets, R \in Nat : Track(M, F, Off, R)
  BY <1>1 DEF Tracked
<1>4. Len(begun) \in Nat /\ Len(returned) \in Nat /\ M = Len(begun) + 1 /\ F = 0
  BY <1>3, LastIs DEF Track, Sending, BeginMessage, TypeOK
<1>5. Len(begun') = Len(begun) + 1 /\ begun'[M] = p
  BY <1>4, AppendProperties DEF BeginMessage, TypeOK
<1>6. wire' = wire /\ returned' = returned /\ curr' = curr /\ len' = len /\ field' = field /\ link' = link /\ link = "up"
  BY DEF BeginMessage, call
<1>7. \A m \in 1 .. M, f \in 0 .. Last : Before(m, f, M, F) => m <= Len(begun) /\ Unit(m, f)' = Unit(m, f)
  <2> SUFFICES ASSUME NEW m \in 1 .. M, NEW f \in 0 .. Last, Before(m, f, M, F)
               PROVE  m <= Len(begun) /\ Unit(m, f)' = Unit(m, f)
    OBVIOUS
  <2>1. m \in Nat \ {0} /\ m <= Len(begun)
    BY <1>4, LastIs DEF Before
  <2> QED
    BY <2>1, UnitStays DEF BeginMessage
<1>8. Sending(M, F)'
  <2>1. p \in Seq(Seq(Byte)) /\ Len(p) = Last
    BY SocketIOAssumption DEF Last
  <2>2. rest' = <<<<MSG_DATA>>>> \o p /\ Len(rest') = Last + 1
    BY <2>1, ConcatProperties, LastIs DEF BeginMessage
  <2>3. \A i \in 1 .. Len(rest') : rest'[i] = Unit(M, i - 1)'
    <3> SUFFICES ASSUME NEW i \in 1 .. Last + 1 PROVE rest'[i] = Unit(M, i - 1)'
      BY <2>2
    <3>1. CASE i = 1
      BY <2>1, <2>2, <3>1 DEF Unit
    <3>2. CASE i # 1
      BY <1>5, <2>1, <2>2, <3>2, LastIs DEF Unit
    <3> QED
      BY <3>1, <3>2
  <2>4. rest' # <<>>
    BY <2>2, LastIs
  <2>5. F + Len(rest') = Last + 1
    BY <1>4, <2>2, LastIs
  <2>6. \A i \in 1 .. Len(rest') : rest'[i] = Unit(M, F + i - 1)'
    BY <1>4, <2>2, <2>3, LastIs
  <2> QED
    BY <1>4, <1>5, <2>4, <2>5, <2>6 DEF Sending
<1>9. Laid(M, F, Off)'
  BY <1>3, <1>7 DEF Track, Laid
<1>10. OnWire(M, F, Off, R)'
  <2> SUFFICES ASSUME NEW m \in 1 .. M, NEW f \in 0 .. Last, Before(m, f, M, F),
                      NEW j \in 1 .. Len(Unit(m, f)'), NEW i \in Nat \ {0}, R + i = Off[m][f] + j
               PROVE  wire[i] = Unit(m, f)'[j]
    BY <1>6 DEF OnWire
  <2>1. Unit(m, f)' = Unit(m, f)
    BY <1>7
  <2> QED
    BY <1>3, <2>1 DEF Track, OnWire
<1>11. Ending(M, F, Off, R)'
  BY <1>3, <1>6 DEF Track, Ending
<1>12. Reading(M, F, Off, R)'
  <2>1. ASSUME NEW m, NEW f, At(m, f, M, F, Off, R)
        PROVE  At(m, f, M, F, Off, R)'
    BY <1>4, <2>1 DEF At
  <2> QED
    BY <1>3, <1>6, <2>1 DEF Track, Reading
<1>13. Tracked'
  BY <1>8, <1>9, <1>10, <1>11, <1>12 DEF Track, Tracked
<1> QED
  BY <1>1, <1>2, <1>13 DEF BeginMessage

(* The unit at the sender's place is written as a whole: the place after it *)
(* becomes the sender's.                                                    *)
Writes(M, F) == wire' = wire \o Unit(M, F) /\ UNCHANGED <<begun, call, field, returned>>

LEMMA UnitWritten ==
  ASSUME TypeOK, NEW M \in Nat \ {0}, NEW F \in 0 .. Last, NEW Off \in Offsets, NEW R \in Nat,
         Track(M, F, Off, R), M <= Len(begun), link = "up",
         Writes(M, F), Sending(NextM(M, F), NextF(F))'
  PROVE  Tracked'
<1> DEFINE M2 == NextM(M, F)
           F2 == NextF(F)
<1>1. M2 \in Nat \ {0} /\ F2 \in 0 .. Last
  BY PlacesIs
<1>2. Unit(M, F) \in Seq(Byte) /\ Len(Unit(M, F)) \in Nat
  BY UnitLen
<1>3. wire \in Seq(Byte) /\ Len(wire) \in Nat /\ Len(begun) \in Nat /\ Len(returned) \in Nat
  BY DEF TypeOK
<1>4. /\ Len(wire') = Len(wire) + Len(Unit(M, F))
      /\ \A i \in 1 .. Len(wire) : wire'[i] = wire[i]
      /\ \A i \in 1 .. Len(Unit(M, F)) : wire'[Len(wire) + i] = Unit(M, F)[i]
  BY <1>2, <1>3, ConcatProperties DEF Writes
<1>5. \A m \in Nat, f \in 0 .. Last : Off[m][f] \in Nat
  BY DEF Offsets
<1>6. PICK Off2 \in Offsets :
         /\ Off2[M2][F2] = Off[M][F] + Len(Unit(M, F))
         /\ \A m \in Nat, f \in 0 .. Last : m # M2 \/ f # F2 => Off2[m][f] = Off[m][f]
  <2> DEFINE New == [m \in Nat |-> [f \in 0 .. Last |->
                        IF m = M2 /\ f = F2 THEN Off[M][F] + Len(Unit(M, F)) ELSE Off[m][f]]]
  <2>1. \A m \in Nat, f \in 0 .. Last :
          (IF m = M2 /\ f = F2 THEN Off[M][F] + Len(Unit(M, F)) ELSE Off[m][f]) \in Nat
    BY <1>2, <1>5
  <2>2. New \in Offsets
    BY <2>1 DEF Offsets
  <2>3. New[M2][F2] = Off[M][F] + Len(Unit(M, F))
    BY <1>1
  <2>4. \A m \in Nat, f \in 0 .. Last : m # M2 \/ f # F2 => New[m][f] = Off[m][f]
    OBVIOUS
  <2> HIDE DEF New
  <2> QED
    BY <2>2, <2>3, <2>4
<1>7. \A m \in Nat, f \in 0 .. Last :
         /\ Before(m, f, M2, F2) <=> Before(m, f, M, F) \/ (m = M /\ f = F)
         /\ Before(m, f, M, F) => Before(NextM(m, f), NextF(f), M, F) \/ (NextM(m, f) = M /\ NextF(f) = F)
  BY PlacesIs
<1>8. \A m \in Nat, f \in 0 .. Last : Before(m, f, M2, F2) => Off2[m][f] = Off[m][f]
  BY <1>1, <1>6 DEF Before
<1>9. R + Len(wire) = Off[M][F]
  <2>1. Ending(M, F, Off, R) /\ link # "broken"
    BY DEF Track
  <2> QED
    BY <2>1 DEF Ending
<1>10. \A m, f : Unit(m, f)' = Unit(m, f)
  BY DEF Unit, Writes
<1>11. ASSUME NEW m \in 1 .. M2, NEW f \in 0 .. Last, Before(m, f, M, F)
       PROVE  /\ m \in 1 .. M /\ Unit(m, f) \in Seq(Byte) /\ Len(Unit(m, f)) \in Nat
              /\ Off2[m][f] = Off[m][f]
              /\ Off[m][f] + Len(Unit(m, f)) <= Off[M][F]
              /\ Off2[NextM(m, f)][NextF(f)] = Off[m][f] + Len(Unit(m, f))
  <2>1. m \in Nat \ {0} /\ m \in 1 .. M
    BY <1>1, <1>11 DEF Before
  <2>2. /\ Unit(m, f) \in Seq(Byte) /\ Len(Unit(m, f)) \in Nat
        /\ Off[m][f] + Len(Unit(m, f)) <= Off[M][F]
    BY <1>11, <2>1, UnitOnWire
  <2>3. Off[NextM(m, f)][NextF(f)] = Off[m][f] + Len(Unit(m, f))
    BY <1>11, <2>1, UnitOnWire
  <2>4. NextM(m, f) \in Nat /\ NextF(f) \in 0 .. Last
    BY <2>1, PlacesIs
  <2>5. Before(NextM(m, f), NextF(f), M2, F2)
    BY <1>7, <1>11, <2>1, <2>4
  <2>6. Off2[NextM(m, f)][NextF(f)] = Off[NextM(m, f)][NextF(f)]
    BY <1>8, <2>4, <2>5
  <2>7. Off2[m][f] = Off[m][f]
    BY <1>7, <1>8, <1>11, <2>1
  <2> QED
    BY <2>1, <2>2, <2>3, <2>6, <2>7
<1>12. M \in 1 .. M2 /\ Off2[M][F] = Off[M][F]
  BY <1>1, <1>7, <1>8 DEF NextM
<1>13. Laid(M2, F2, Off2)'
  <2> SUFFICES ASSUME NEW m \in 1 .. M2, NEW f \in 0 .. Last, Before(m, f, M2, F2)
               PROVE  /\ Off2[NextM(m, f)][NextF(f)] = Off2[m][f] + Len(Unit(m, f))
                      /\ Off2[NextM(m, f)][NextF(f)] <= Off2[M2][F2]
    <3>1. \A m \in 1 .. M2, f \in 0 .. Last : Len(Unit(m, f)') = Len(Unit(m, f))
      BY <1>1, <1>10
    <3> QED
      BY <3>1 DEF Laid
  <2>0. Off[M][F] \in Nat
    BY <1>5
  <2>1. CASE Before(m, f, M, F)
    <3>1. /\ Off2[m][f] = Off[m][f] /\ Off[m][f] + Len(Unit(m, f)) <= Off[M][F]
          /\ Off2[NextM(m, f)][NextF(f)] = Off[m][f] + Len(Unit(m, f))
          /\ Len(Unit(m, f)) \in Nat /\ m \in Nat
      BY <1>11, <2>1
    <3>2. Off[m][f] \in Nat
      BY <1>5, <3>1
    <3>3. Off[M][F] <= Off2[M2][F2]
      BY <1>2, <1>6, <2>0
    <3>4. \A a, b, c, l \in Nat : a + l <= b /\ b <= c => a + l <= c
      OBVIOUS
    <3>5. Off2[M2][F2] \in Nat
      BY <1>2, <1>6, <2>0
    <3>6. Off[m][f] + Len(Unit(m, f)) <= Off2[M2][F2]
      BY <2>0, <3>1, <3>2, <3>3, <3>4, <3>5
    <3> QED
      BY <3>1, <3>6
  <2>2. CASE m = M /\ f = F
    BY <1>2, <1>6, <1>12, <2>0, <2>2
  <2>3. m \in Nat
    BY <1>1
  <2> QED
    BY <1>7, <2>1, <2>2, <2>3
<1>14. OnWire(M2, F2, Off2, R)'
  <2> SUFFICES ASSUME NEW m \in 1 .. M2, NEW f \in 0 .. Last, Before(m, f, M2, F2),
                      NEW j \in 1 .. Len(Unit(m, f)), NEW i \in Nat \ {0}, R + i = Off2[m][f] + j
               PROVE  wire'[i] = Unit(m, f)[j]
    <3>1. \A m \in 1 .. M2, f \in 0 .. Last : Unit(m, f)' = Unit(m, f)
      BY <1>1, <1>10
    <3> QED
      BY <3>1 DEF OnWire
  <2>0. m \in Nat /\ Off[M][F] \in Nat
    BY <1>1, <1>5
  <2>1. CASE Before(m, f, M, F)
    <3>1. Off2[m][f] = Off[m][f] /\ Off[m][f] + Len(Unit(m, f)) <= Off[M][F] /\ m \in 1 .. M /\ Len(Unit(m, f)) \in Nat
      BY <1>11, <2>1
    <3>2. R + i = Off[m][f] + j /\ m \in Nat \ {0}
      BY <3>1
    <3>3. i \in 1 .. Len(wire) /\ wire[i] = Unit(m, f)[j]
      BY <2>1, <3>2, UnitOnWire
    <3> QED
      BY <1>4, <3>3
  <2>2. CASE m = M /\ f = F
    <3>1. R + i = (R + Len(wire)) + j /\ j \in 1 .. Len(Unit(M, F))
      BY <1>9, <1>12, <2>2
    <3>2. \A r, k, l, h \in Nat : r + k = (r + l) + h => k = l + h
      OBVIOUS
    <3>3. i = Len(wire) + j
      BY <1>2, <1>3, <3>1, <3>2
    <3> QED
      BY <1>4, <2>2, <3>1, <3>3
  <2> QED
    BY <1>7, <2>0, <2>1, <2>2
<1>15. Ending(M2, F2, Off2, R)'
  BY <1>2, <1>3, <1>4, <1>5, <1>6, <1>9 DEF Ending
<1>16. Reading(M2, F2, Off2, R)'
  <2>1. ASSUME NEW m \in Nat \ {0}, NEW f \in 0 .. Last, At(m, f, M, F, Off, R)
        PROVE  At(m, f, M2, F2, Off2, R)'
    <3>1. CASE Before(m, f, M, F) /\ R = Off[m][f]
      BY <1>7, <1>8, <3>1 DEF At
    <3>2. CASE m = M /\ f = F /\ R = Off[M][F]
      BY <1>7, <1>8, <3>2 DEF At
    <3>3. CASE Unit(M, F) = <<>> /\ m = M2 /\ f = F2 /\ R = Off[M][F]
      <4>1. Off2[M2][F2] = Off[M][F]
        BY <1>5, <1>6, <3>3
      <4> QED
        BY <3>3, <4>1 DEF At
    <3> QED
      BY <2>1, <3>1, <3>2, <3>3 DEF At
  <2>2. field \in 0 .. Last /\ Len(returned) + 1 \in Nat \ {0}
    BY <1>3 DEF TypeOK, Last
  <2>3. NextM(Len(returned) + 1, field) \in Nat \ {0} /\ NextF(field) \in 0 .. Last
    BY <2>2, PlacesIs
  <2> QED
    BY <2>1, <2>2, <2>3 DEF Track, Reading, call, Writes
<1>17. Track(M2, F2, Off2, R)'
  BY <1>13, <1>14, <1>15, <1>16 DEF Track
<1> QED
  BY <1>1, <1>6, <1>17 DEF Tracked

(* One field is sent.                                                       *)
LEMMA SendWhole ==
  ASSUME TypeOK, Whole, SendField
  PROVE  Whole'
<1> SUFFICES ASSUME ~short PROVE Prefix' /\ status' = "on" /\ Current' /\ Tracked'
  BY DEF Whole, SendField
<1>1. Prefix /\ status = "on" /\ Current /\ Tracked
  BY DEF Whole, Over, SendField
<1>2. PICK M \in Nat \ {0}, F \in 0 .. Last, Off \in Offsets, R \in Nat : Track(M, F, Off, R)
  BY <1>1 DEF Tracked
<1>3. M = Len(begun) /\ F + Len(rest) = Last + 1 /\ \A i \in 1 .. Len(rest) : rest[i] = Unit(M, F + i - 1)
  BY <1>2 DEF Track, Sending, SendField
<1>4. Prefix' /\ Current'
  <2>1. M \in 1 .. Len(begun)
    BY <1>3
  <2>2. begun[M] \in Packets
    BY <2>1, BegunIs
  <2> QED
    BY <1>1, <2>2, CurrentStays DEF SendField
<1>5. Tracked'
  <2>1. /\ rest \in Seq(Seq(Byte)) /\ Len(rest) \in Nat \ {0} /\ Head(rest) = rest[1]
        /\ Len(Tail(rest)) = Len(rest) - 1 /\ \A i \in 1 .. Len(rest) - 1 : Tail(rest)[i] = rest[i + 1]
    BY HeadTailProperties, EmptySeq DEF TypeOK, SendField
  <2>2. Head(rest) = Unit(M, F)
    BY <1>3, <2>1, LastIs
  <2>3. ASSUME NEW m \in Nat, NEW f
        PROVE  Unit(m, f)' = Unit(m, f)
    BY DEF Unit, SendField
  <2>4. Sending(NextM(M, F), NextF(F))'
    <3>1. rest' = Tail(rest) /\ begun' = begun /\ Len(begun) \in Nat
      BY DEF SendField, TypeOK
    <3>2. CASE F = Last
      <4>1. rest' = <<>>
        BY <1>3, <2>1, <3>1, <3>2, EmptySeq, LastIs
      <4>2. NextM(M, F) = Len(begun) + 1 /\ NextF(F) = 0
        BY <1>3, <3>2 DEF NextM, NextF
      <4> QED
        BY <3>1, <4>1, <4>2 DEF Sending
    <3>3. CASE F # Last
      <4>1. Len(rest') = Len(rest) - 1 /\ Len(rest') > 0 /\ rest' # <<>>
        <5>1. Len(rest') = Len(rest) - 1 /\ Len(rest) = Last + 1 - F /\ F < Last
          BY <1>3, <2>1, <3>1, <3>3, LastIs
        <5>2. Len(rest') > 0
          BY <5>1, <2>1, LastIs
        <5> QED
          BY <5>1, <5>2, EmptySeq
      <4>2. NextM(M, F) = Len(begun) /\ NextF(F) = F + 1
        BY <1>3, <3>3 DEF NextM, NextF
      <4>3. \A i \in 1 .. Len(rest') : rest'[i] = Unit(M, F + i)
        <5> SUFFICES ASSUME NEW i \in 1 .. Len(rest') PROVE rest'[i] = Unit(M, F + i)
          OBVIOUS
        <5>1. i \in 1 .. Len(rest) - 1 /\ i + 1 \in 1 .. Len(rest)
          BY <2>1, <4>1
        <5>2. rest'[i] = rest[i + 1] /\ rest[i + 1] = Unit(M, F + (i + 1) - 1)
          BY <1>3, <2>1, <3>1, <5>1
        <5>3. F + (i + 1) - 1 = F + i
          BY <5>1, LastIs
        <5> QED
          BY <5>2, <5>3
      <4>4. \A i \in 1 .. Len(rest') : rest'[i] = Unit(NextM(M, F), NextF(F) + i - 1)'
        BY <1>3, <2>3, <4>2, <4>3, LastIs
      <4>5. NextF(F) + Len(rest') = Last + 1
        <5>1. F \in Nat /\ Len(rest) \in Nat
          BY <2>1, LastIs
        <5>2. \A l \in Nat : (F + 1) + (l - 1) = F + l
          BY <5>1
        <5> QED
          BY <1>3, <4>1, <4>2, <5>1, <5>2
      <4>6. Len(begun') = Len(begun) /\ NextM(M, F) <= Len(begun)
        BY <3>1, <4>2
      <4> QED
        BY <4>1, <4>2, <4>4, <4>5, <4>6 DEF Sending
    <3> QED
      BY <3>2, <3>3
  <2>5. wire' = wire \o Unit(M, F) /\ link = "up" /\ UNCHANGED <<begun, call, field, returned>>
    BY <2>2 DEF SendField
  <2>6. M <= Len(begun) /\ Writes(M, F)
    BY <1>3, <2>5 DEF Writes
  <2> QED
    BY <1>2, <2>4, <2>5, <2>6, UnitWritten
<1> QED
  BY <1>1, <1>4, <1>5 DEF SendField

(* The connection breaks behind a whole unit, or within one.                *)
LEMMA BreakWhole ==
  ASSUME TypeOK, Whole, SendBreaks
  PROVE  Whole'
<1> SUFFICES ASSUME ~short PROVE Prefix' /\ status' = "on" /\ Current' /\ Tracked'
  BY DEF Whole, SendBreaks
<1>1. Prefix /\ status = "on" /\ Current /\ Tracked
  BY DEF Whole, Over, SendBreaks
<1>2. PICK M \in Nat \ {0}, F \in 0 .. Last, Off \in Offsets, R \in Nat : Track(M, F, Off, R)
  BY <1>1 DEF Tracked
<1>3. begun' = begun /\ UNCHANGED <<call, field, msg, returned>>
  BY DEF SendBreaks
<1>4. Prefix' /\ Current'
  <2>1. Prefix'
    BY <1>1, <1>3 DEF Prefix
  <2>2. \A m, f : Unit(m, f)' = Unit(m, f)
    BY <1>3 DEF Unit
  <2> QED
    BY <1>1, <1>3, <2>1, <2>2 DEF Current, call
<1>5. /\ wire \in Seq(Byte) /\ Len(wire) \in Nat /\ Len(begun) \in Nat
      /\ \A m \in Nat, f \in 0 .. Last : Off[m][f] \in Nat
  BY StreamIs
<1>6. R + Len(wire) = Off[M][F]
  BY <1>2 DEF Track, Ending, SendBreaks
<1>7. ASSUME wire' = wire
      PROVE  Track(M, F, Off, R)'
  <2>1. \A m, f : Unit(m, f)' = Unit(m, f)
    BY <1>3 DEF Unit
  <2>2. Sending(M, F)'
    BY <1>2, <1>3 DEF Track, Sending, SendBreaks
  <2>3. Laid(M, F, Off)'
    BY <1>2, <2>1 DEF Track, Laid
  <2>6. OnWire(M, F, Off, R)'
    BY <1>2, <1>7, <2>1 DEF Track, OnWire
  <2>4. Ending(M, F, Off, R)'
    BY <1>6, <1>7 DEF Ending
  <2>5. Reading(M, F, Off, R)'
    BY <1>2, <1>3, <2>1 DEF Track, Reading, At, call
  <2> QED
    BY <2>2, <2>3, <2>4, <2>5, <2>6 DEF Track
<1>10. \A m \in 1 .. M, f \in 0 .. Last : Before(m, f, M, F) =>
         \A j \in 1 .. Len(Unit(m, f)), i \in Nat \ {0} :
             R + i = Off[m][f] + j => i \in 1 .. Len(wire) /\ wire[i] = Unit(m, f)[j]
  BY <1>2, BytesOnWire
<1>8. CASE rest = <<>>
  <2>1. wire' = wire
    BY <1>8 DEF SendBreaks
  <2> QED
    BY <1>1, <1>4, <1>7, <2>1 DEF Tracked, SendBreaks
<1>9. CASE rest # <<>>
  <2>1. M = Len(begun) /\ F + Len(rest) = Last + 1 /\ \A i \in 1 .. Len(rest) : rest[i] = Unit(M, F + i - 1)
    BY <1>2, <1>9 DEF Track, Sending, SendBreaks
  <2>2. Head(rest) = Unit(M, F)
    <3>1. Len(rest) \in Nat \ {0} /\ Head(rest) = rest[1]
      BY <1>9, HeadTailProperties, EmptySeq DEF TypeOK
    <3> QED
      BY <2>1, <3>1, LastIs
  <2>3. Unit(M, F) \in Seq(Byte) /\ Len(Unit(M, F)) \in Nat /\ M <= Len(begun)
    BY <1>5, <2>1, UnitLen
  <2>4. PICK n \in 0 .. Len(Unit(M, F)) : wire' = wire \o SubSeq(Unit(M, F), 1, n)
    BY <1>9, <2>2 DEF SendBreaks
  <2>5. CASE n = Len(Unit(M, F))
    <3>1. SubSeq(Unit(M, F), 1, n) = Unit(M, F)
      BY <2>3, <2>5, SubSeqProperties, LenProperties
    <3>2. Writes(M, F)
      BY <1>3, <2>4, <3>1 DEF Writes
    <3>3. Sending(NextM(M, F), NextF(F))'
      <4>1. link' = "broken" /\ Len(begun') = M
        BY <1>3, <2>1 DEF SendBreaks
      <4>2. NextM(M, F) <= M \/ (NextM(M, F) = M + 1 /\ NextF(F) = 0)
        BY DEF NextM, NextF
      <4> QED
        BY <4>1, <4>2 DEF Sending
    <3>4. Tracked'
      BY <1>2, <2>3, <3>2, <3>3, UnitWritten DEF SendBreaks
    <3> QED
      BY <1>1, <1>4, <3>4 DEF SendBreaks
  <2>6. CASE n < Len(Unit(M, F))
    <3> DEFINE x == SubSeq(Unit(M, F), 1, n)
    <3>0. wire' = wire \o x
      BY <2>4
    <3>1. x \in Seq(Byte) /\ Len(x) = n /\ n \in Nat
      <4>1. \A i \in 1 .. n : Unit(M, F)[i] \in Byte
        BY <2>3, <2>6, ElementOfSeq
      <4> QED
        BY <2>3, <4>1, SubSeqProperties
    <3> HIDE DEF x
    <3>2. Len(wire') = Len(wire) + n /\ \A i \in 1 .. Len(wire) : wire'[i] = wire[i]
      <4>1. Len(wire \o x) = Len(wire) + Len(x) /\ \A i \in 1 .. Len(wire) + Len(x) :
               (wire \o x)[i] = IF i <= Len(wire) THEN wire[i] ELSE x[i - Len(wire)]
        BY <1>5, <3>1, ConcatProperties
      <4> QED
        BY <3>0, <3>1, <4>1
    <3>3. \A m, f : Unit(m, f)' = Unit(m, f)
      BY <1>3 DEF Unit
    <3>4. Sending(M, F)'
      BY <1>3, <2>3 DEF Sending, SendBreaks
    <3>5. Laid(M, F, Off)'
      BY <1>2, <3>3 DEF Track, Laid
    <3>6. OnWire(M, F, Off, R)'
      <4> SUFFICES ASSUME NEW m \in 1 .. M, NEW f \in 0 .. Last, Before(m, f, M, F),
                          NEW j \in 1 .. Len(Unit(m, f)), NEW i \in Nat \ {0}, R + i = Off[m][f] + j
                   PROVE  wire'[i] = Unit(m, f)[j]
        BY <3>3 DEF OnWire
      <4>1. \A y \in 1 .. Len(Unit(m, f)), k \in Nat \ {0} :
               R + k = Off[m][f] + y => k \in 1 .. Len(wire) /\ wire[k] = Unit(m, f)[y]
        BY <1>10, Zenon
      <4>2. i \in 1 .. Len(wire) /\ wire[i] = Unit(m, f)[j]
        BY <4>1, Zenon
      <4> QED
        BY <3>2, <4>2
    <3>7. Ending(M, F, Off, R)'
      <4>1. R + Len(wire') = Off[M][F] + n /\ Off[M][F] \in Nat
        BY <1>5, <1>6, <3>1, <3>2
      <4>2. R + Len(wire') < Off[M][F] + Len(Unit(M, F))
        BY <2>3, <2>6, <3>1, <4>1
      <4>3. R + Len(wire') = Off[M][F] \/ Off[M][F] < R + Len(wire')
        BY <3>1, <4>1
      <4>4. link' = "broken" /\ M <= Len(begun') /\ Len(Unit(M, F)') = Len(Unit(M, F))
        BY <1>3, <2>3, <3>3 DEF SendBreaks
      <4> QED
        BY <4>2, <4>3, <4>4 DEF Ending
    <3>8. Reading(M, F, Off, R)'
      BY <1>2, <1>3, <3>3 DEF Track, Reading, At, call
    <3>9. Tracked'
      BY <3>4, <3>5, <3>6, <3>7, <3>8 DEF Track, Tracked
    <3> QED
      BY <1>1, <1>4, <3>9 DEF SendBreaks
  <2> QED
    BY <2>3, <2>4, <2>5, <2>6
<1> QED
  BY <1>8, <1>9

(* QUIT comes where the next message would begin.                           *)
LEMMA QuitWhole ==
  ASSUME TypeOK, Whole, SayQuit
  PROVE  Whole'
<1> SUFFICES ASSUME ~short PROVE Prefix' /\ status' = "on" /\ Current' /\ Tracked'
  BY DEF Whole, SayQuit
<1>1. Prefix /\ status = "on" /\ Current /\ Tracked
  BY DEF Whole, Over, SayQuit
<1>2. PICK M \in Nat \ {0}, F \in 0 .. Last, Off \in Offsets, R \in Nat : Track(M, F, Off, R)
  BY <1>1 DEF Tracked
<1>3. begun' = begun /\ UNCHANGED <<call, field, msg, returned>> /\ \A m, f : Unit(m, f)' = Unit(m, f)
  BY DEF SayQuit, sender, Unit
<1>4. Prefix' /\ Current'
  <2>1. Prefix'
    BY <1>1, <1>3 DEF Prefix
  <2> QED
    BY <1>1, <1>3, <2>1 DEF Current, call
<1>5. /\ wire \in Seq(Byte) /\ Len(wire) \in Nat /\ Len(begun) \in Nat
      /\ \A m \in Nat, f \in 0 .. Last : Off[m][f] \in Nat
  BY StreamIs
<1>6. R + Len(wire) = Off[M][F]
  BY <1>2 DEF Track, Ending, SayQuit
<1>7. M = Len(begun) + 1 /\ F = 0
  BY <1>2, <1>5, LastIs DEF Track, Sending, SayQuit
<1>8. /\ Len(wire') = Len(wire) + 1 /\ wire'[Len(wire')] = QUIT
      /\ \A i \in 1 .. Len(wire) : wire'[i] = wire[i]
  BY <1>5, Width, AppendProperties DEF SayQuit
<1>9. Sending(M, F)' /\ Laid(M, F, Off)' /\ Reading(M, F, Off, R)'
  <2>1. Sending(M, F)'
    BY <1>3, <1>7 DEF Sending, SayQuit
  <2>2. Laid(M, F, Off)'
    BY <1>2, <1>3 DEF Track, Laid
  <2>3. Reading(M, F, Off, R)'
    BY <1>2, <1>3 DEF Track, Reading, At, call
  <2> QED
    BY <2>1, <2>2, <2>3
<1>10. OnWire(M, F, Off, R)'
  <2> SUFFICES ASSUME NEW m \in 1 .. M, NEW f \in 0 .. Last, Before(m, f, M, F),
                      NEW j \in 1 .. Len(Unit(m, f)), NEW i \in Nat \ {0}, R + i = Off[m][f] + j
               PROVE  wire'[i] = Unit(m, f)[j]
    BY <1>3 DEF OnWire
  <2>1. i \in 1 .. Len(wire) /\ wire[i] = Unit(m, f)[j]
    BY <1>2, BytesOnWire
  <2> QED
    BY <1>8, <2>1
<1>11. Ending(M, F, Off, R)'
  <2>1. R + Len(wire') = Off[M][F] + 1
    BY <1>5, <1>6, <1>8
  <2>2. link' = "broken" /\ M = Len(begun') + 1
    BY <1>3, <1>7 DEF SayQuit
  <2> QED
    BY <1>8, <2>1, <2>2 DEF Ending
<1>12. Tracked'
  BY <1>9, <1>10, <1>11 DEF Track, Tracked
<1> QED
  BY <1>1, <1>4, <1>12 DEF SayQuit

-----------------------------------------------------------------------------
(* The steps of the receiver.                                               *)

(* Once the receiver has ended, or has read QUIT, it returns nothing more.  *)
LEMMA OverStays ==
  ASSUME TypeOK, Over, Prefix, ReceiveStep
  PROVE  Over' /\ Prefix'
<1>1. status = "on" => field = 0 /\ curr >= len /\ buf[0] = QUIT
  BY DEF Over
<1>2. MSG_DATA # QUIT /\ Len(Fields) # 0
  BY SocketIOAssumption
<1>3. curr \in Nat /\ len \in Nat
  BY Width DEF TypeOK, Byte
<1>4. ~ Recv /\ ~ RecvFails
  BY <1>1, <1>3 DEF Recv, RecvFails
<1>5. ~ FieldRead /\ ~ MessageRead
  BY <1>1, <1>2 DEF FieldRead, MessageRead, Returned
<1>6. TagRead
  BY <1>4, <1>5 DEF ReceiveStep
<1>7. status' = "over" /\ link' = link /\ returned' = returned /\ begun' = begun
  BY <1>1, <1>2, <1>6 DEF TagRead, Returned, sender
<1> QED
  BY <1>7 DEF Over, Prefix

(* The receiver's place.                                                    *)
LEMMA PlaceIs ==
  ASSUME TypeOK
  PROVE  /\ Len(returned) \in Nat /\ Len(begun) \in Nat /\ Len(returned) + 1 \in Nat \ {0}
         /\ field \in 0 .. Last /\ field \in Nat
         /\ curr \in Nat /\ len \in Nat /\ len < TSIZE /\ (curr < len \/ curr >= len)
<1>1. returned \in Seq(Seq(Seq(Byte))) /\ begun \in Seq(Packets) /\ field \in 0 .. Last /\ curr \in Byte /\ len \in Byte
  BY DEF TypeOK, Last
<1> QED
  BY <1>1, LastIs, Width DEF Byte

(* What has been read of a unit is that unit.                               *)
LEMMA BytesAre ==
  ASSUME TypeOK, Current, curr >= len
  PROVE  /\ Len(returned) + 1 \in 1 .. Len(begun)
         /\ Bytes = Unit(Len(returned) + 1, field)
<1> DEFINE m == Len(returned) + 1
<1>1. m \in Nat \ {0} /\ m \in 1 .. Len(begun) /\ m <= Len(begun)
  BY PlaceIs DEF Current
<1>2. Unit(m, field) \in Seq(Byte) /\ field \in 0 .. Last
  BY <1>1, PlaceIs, UnitLen
<1>3. len = Len(Unit(m, field)) /\ \A j \in 1 .. len : buf[j - 1] = Unit(m, field)[j]
  BY DEF Current
<1>4. Bytes \in Seq(Byte) /\ Len(Bytes) = len
  <2>1. Bytes \in Seq(Byte)
    BY BytesOK DEF TypeOK
  <2> QED
    BY <2>1, PlaceIs DEF Bytes
<1>5. \A j \in 1 .. Len(Bytes) : Bytes[j] = Unit(m, field)[j]
  BY <1>3, <1>4 DEF Bytes
<1> HIDE DEF m
<1>6. Bytes = Unit(m, field)
  BY <1>2, <1>3, <1>4, <1>5, SeqEqual
<1> QED
  BY <1>1, <1>6 DEF m

(* A step of MSGReceive leaves the stream, and the sender, alone.           *)
LEMMA TrackStays ==
  ASSUME UNCHANGED <<wire, link, sender>>,
         NEW M, NEW F, NEW Off, NEW R, Track(M, F, Off, R), Reading(M, F, Off, R)'
  PROVE  Track(M, F, Off, R)'
<1>1. \A m, f : Unit(m, f)' = Unit(m, f)
  BY DEF Unit, sender
<1>2. Sending(M, F)'
  BY <1>1 DEF Track, Sending, sender
<1>3. Laid(M, F, Off)'
  BY <1>1 DEF Track, Laid
<1>4. OnWire(M, F, Off, R)'
  BY <1>1 DEF Track, OnWire
<1>5. Ending(M, F, Off, R)'
  BY <1>1 DEF Track, Ending, sender
<1> QED
  BY <1>2, <1>3, <1>4, <1>5 DEF Track

(* Nor does it change what a place means.                                   *)
LEMMA ReadingIs ==
  ASSUME begun' = begun, NEW M, NEW F, NEW Off, NEW R, NEW a, NEW b, At(a, b, M, F, Off, R),
         IF curr' < len'
         THEN a = Len(returned') + 1 /\ b = field'
         ELSE a = NextM(Len(returned') + 1, field') /\ b = NextF(field')
  PROVE  Reading(M, F, Off, R)'
<1>1. At(a, b, M, F, Off, R)'
  BY DEF At, Unit
<1>2. CASE curr' < len'
  BY <1>1, <1>2 DEF Reading
<1>3. CASE ~ (curr' < len')
  BY <1>1, <1>3 DEF Reading
<1> QED
  BY <1>2, <1>3

(* The tag has been read.                                                   *)
LEMMA TagWhole ==
  ASSUME TypeOK, Prefix, status = "on", Current, Tracked, TagRead
  PROVE  Prefix' /\ status' = "on" /\ Current' /\ Tracked'
<1> DEFINE m == Len(returned) + 1
<1>1. PICK M \in Nat \ {0}, F \in 0 .. Last, Off \in Offsets, R \in Nat : Track(M, F, Off, R)
  BY DEF Tracked
<1>2. curr >= len /\ field = 0 /\ m \in 1 .. Len(begun)
  BY BytesAre DEF TagRead, Returned
<1>3. buf[0] = MSG_DATA
  <2>1. Unit(m, 0) = <<MSG_DATA>> /\ len = 1
    BY <1>2 DEF Unit, Current
  <2>2. buf[1 - 1] = <<MSG_DATA>>[1]
    BY <1>2, <2>1 DEF Current
  <2> QED
    BY <2>2
<1>4. field' = 1 /\ status' = status /\ len' = 1 /\ curr' = 0
  BY <1>3 DEF TagRead, Begin
<1>5. UNCHANGED <<wire, link, begun, rest, msg, returned>>
  BY DEF TagRead, sender
<1>6. 1 \in 1 .. Last /\ Len(Unit(m, 1)) = 1
  <2>1. 1 \in 1 .. Last /\ Fields[1] # "text"
    BY LastIs, TextIs
  <2> QED
    BY <1>2, <2>1, UnitIs
<1>7. \A a, b : Unit(a, b)' = Unit(a, b)
  BY <1>5 DEF Unit
<1>8. Current'
  <2>1. Len(msg) = 0
    BY <1>2 DEF Current
  <2> QED
    BY <1>2, <1>4, <1>5, <1>6, <1>7, <2>1 DEF Current
<1>9. Reading(M, F, Off, R)'
  <2>1. NextM(m, 0) = m /\ NextF(0) = 1
    BY LastIs DEF NextM, NextF
  <2>2. ~ (curr < len)
    BY <1>2, PlaceIs
  <2>3. At(m, 1, M, F, Off, R)
    BY <1>1, <1>2, <2>1, <2>2 DEF Track, Reading
  <2> QED
    BY <1>4, <1>5, <2>3, ReadingIs
<1>10. Tracked'
  BY <1>1, <1>5, <1>9, TrackStays DEF Tracked, sender
<1> QED
  BY <1>4, <1>5, <1>8, <1>10 DEF Prefix

(* A field has been read.  If the next is an empty text, the receiver has   *)
(* it already, and waits for the field behind it.                           *)
LEMMA FieldWhole ==
  ASSUME TypeOK, Prefix, status = "on", Current, Tracked, FieldRead
  PROVE  Prefix' /\ status' = "on" /\ Current' /\ Tracked'
<1> DEFINE m == Len(returned) + 1
           f == field
<1>1. PICK M \in Nat \ {0}, F \in 0 .. Last, Off \in Offsets, R \in Nat : Track(M, F, Off, R)
  BY DEF Tracked
<1>2. curr >= len /\ m \in 1 .. Len(begun) /\ Bytes = Unit(m, f)
  BY BytesAre DEF FieldRead, Returned
<1>3. f \in 1 .. Last /\ f + 1 \in 1 .. Last /\ f < Last /\ f \in Nat /\ m \in Nat \ {0} /\ m <= Len(begun)
  BY <1>2, LastIs, PlaceIs DEF FieldRead, Last
<1>4. /\ field' = f + 1 /\ curr' = 0 /\ len' = (IF Fields[f] = "len" THEN buf[0] ELSE 1)
      /\ msg' = Append(msg, Bytes)
      /\ UNCHANGED <<wire, link, begun, rest, status, returned>>
  BY DEF FieldRead, Begin, sender
<1>5. \A a, b : Unit(a, b)' = Unit(a, b)
  BY <1>4 DEF Unit
<1>6. len' = Len(Unit(m, f + 1)) /\ len' \in Nat
  <2>1. CASE Fields[f] = "len"
    <3>1. Len(Unit(m, f)) = 1 /\ Unit(m, f)[1] = Len(Unit(m, f + 1))
      BY <1>2, <1>3, <2>1, UnitIs
    <3>2. buf[1 - 1] = Unit(m, f)[1]
      BY <1>2, <3>1 DEF Current
    <3> QED
      BY <1>2, <1>3, <1>4, <2>1, <3>1, <3>2, UnitIs
  <2>2. CASE Fields[f] # "len"
    <3>1. Fields[f + 1] # "text"
      <4>1. Fields[f + 1] = "text" => Fields[f + 1 - 1] = "len"
        BY <1>3, TextIs
      <4>2. f + 1 - 1 = f
        BY <1>3
      <4> QED
        BY <2>2, <4>1, <4>2
    <3>2. Len(Unit(m, f + 1)) = 1
      BY <1>2, <1>3, <3>1, UnitIs
    <3> QED
      BY <1>4, <2>2, <3>2
  <2> QED
    BY <2>1, <2>2
<1>7. Current'
  <2>1. msg \in Seq(Seq(Byte)) /\ Bytes \in Seq(Byte) /\ Len(msg) = f - 1
    BY <1>3, BytesOK DEF TypeOK, Current
  <2>2. /\ Len(msg') = f
        /\ \A i \in 1 .. f - 1 : msg'[i] = msg[i]
        /\ msg'[f] = Bytes
    BY <1>3, <1>4, <2>1, AppendProperties
  <2>3. \A i \in 1 .. f : msg'[i] = begun[m][i]
    <3>1. \A i \in 1 .. f - 1 : msg[i] = begun[m][i]
      BY <2>1 DEF Current
    <3>2. Bytes = begun[m][f]
      BY <1>2, <1>3 DEF Unit
    <3> QED
      BY <1>3, <2>2, <3>1, <3>2
  <2>4. \A j \in 1 .. 0 : FALSE
    OBVIOUS
  <2>5. curr' >= len' => len' = 0
    BY <1>4, <1>6
  <2>6. Len(msg') = (IF field' = 0 THEN 0 ELSE field' - 1)
    BY <1>3, <1>4, <2>2
  <2>7. curr' >= len' => \A j \in 1 .. len' : buf'[j - 1] = Unit(m, f + 1)[j]
    BY <2>4, <2>5
  <2> QED
    BY <1>3, <1>4, <1>5, <1>6, <2>2, <2>3, <2>6, <2>7 DEF Current
<1>8. Reading(M, F, Off, R)'
  <2>1. NextM(m, f) = m /\ NextF(f) = f + 1
    BY <1>3 DEF NextM, NextF
  <2>2. At(m, f + 1, M, F, Off, R)
    <3>1. ~ (curr < len)
      BY <1>2, PlaceIs
    <3> QED
      BY <1>1, <2>1, <3>1 DEF Track, Reading
  <2>3. CASE curr' < len'
    BY <1>4, <2>2, <2>3, ReadingIs
  <2>4. CASE ~ (curr' < len')
    <3>1. len' = 0 /\ Len(Unit(m, f + 1)) = 0
      BY <1>4, <1>6, <2>4
    <3>2. At(NextM(m, f + 1), NextF(f + 1), M, F, Off, R)
      <4>1. CASE Before(m, f + 1, M, F) /\ R = Off[m][f + 1]
        <5>1. Off[m][f + 1] \in Nat
          BY <1>3, LastIs, StreamIs
        <5>2. Off[NextM(m, f + 1)][NextF(f + 1)] = R
          BY <1>1, <1>3, <3>1, <4>1, <5>1, UnitOnWire
        <5>3. \/ Before(NextM(m, f + 1), NextF(f + 1), M, F)
              \/ NextM(m, f + 1) = M /\ NextF(f + 1) = F
          <6>1. m \in Nat /\ f + 1 \in 0 .. Last
            BY <1>3, LastIs
          <6> QED
            BY <4>1, <6>1, PlacesIs
        <5> QED
          BY <5>2, <5>3 DEF At
      <4>2. CASE m = M /\ f + 1 = F /\ R = Off[M][F]
        <5>1. Unit(M, F) = <<>>
          BY <1>2, <1>3, <3>1, <4>2, UnitIs, EmptySeq
        <5> QED
          BY <1>3, <4>2, <5>1 DEF At
      <4>3. CASE Unit(M, F) = <<>> /\ m = NextM(M, F) /\ f + 1 = NextF(F)
        <5>1. m = M /\ f = F
          BY <1>3, <4>3, LastIs DEF NextM, NextF
        <5>2. Len(Unit(m, f)) = 0
          BY <4>3, <5>1
        <5>3. Fields[f] = "text"
          BY <1>2, <1>3, <5>2, UnitIs
        <5> QED
          BY <1>4, <3>1, <5>3
      <4> QED
        BY <2>2, <4>1, <4>2, <4>3 DEF At
    <3> QED
      BY <1>4, <2>4, <3>2, ReadingIs
  <2> QED
    BY <2>3, <2>4
<1>9. Tracked'
  BY <1>1, <1>4, <1>8, TrackStays DEF Tracked, sender
<1> QED
  BY <1>4, <1>7, <1>9 DEF Prefix

(* The last field has been read: the message is the one that was sent.      *)
LEMMA MessageWhole ==
  ASSUME TypeOK, Prefix, status = "on", Current, Tracked, MessageRead
  PROVE  Prefix' /\ status' = "on" /\ Current' /\ Tracked'
<1> DEFINE m == Len(returned) + 1
           f == field
           p == Append(msg, Bytes)
<1>1. PICK M \in Nat \ {0}, F \in 0 .. Last, Off \in Offsets, R \in Nat : Track(M, F, Off, R)
  BY DEF Tracked
<1>2. curr >= len /\ m \in 1 .. Len(begun) /\ Bytes = Unit(m, f) /\ f = Last
  BY BytesAre DEF MessageRead, Returned, Last
<1>3. /\ field' = 0 /\ curr' = 0 /\ len' = 1 /\ msg' = <<>> /\ returned' = Append(returned, p)
      /\ UNCHANGED <<wire, link, begun, rest, status>>
  BY DEF MessageRead, Begin, sender
<1>4. \A a, b : Unit(a, b)' = Unit(a, b)
  BY <1>3 DEF Unit
<1>5. p = begun[m]
  <2>1. msg \in Seq(Seq(Byte)) /\ Bytes \in Seq(Byte) /\ Len(msg) = Last - 1
    BY <1>2, BytesOK, LastIs DEF TypeOK, Current
  <2>2. p \in Seq(Seq(Byte)) /\ Len(p) = Last /\ (\A i \in 1 .. Last - 1 : p[i] = msg[i]) /\ p[Last] = Bytes
    BY <2>1, LastIs, AppendProperties
  <2>3. begun[m] \in Seq(Seq(Byte)) /\ Len(begun[m]) = Last
    BY <1>2, BegunIs
  <2>4. \A i \in 1 .. Last : p[i] = begun[m][i]
    <3>1. \A i \in 1 .. Last - 1 : msg[i] = begun[m][i]
      BY <2>1 DEF Current
    <3>2. Bytes = begun[m][Last]
      BY <1>2, LastIs DEF Unit
    <3> QED
      BY <2>2, <3>1, <3>2, LastIs
  <2> HIDE DEF m, p
  <2> QED
    BY <2>2, <2>3, <2>4, SeqEqual
<1> HIDE DEF p
<1>6. Len(returned') = m /\ returned'[m] = p /\ \A n \in 1 .. m - 1 : returned'[n] = returned[n]
  <2>1. returned \in Seq(Seq(Seq(Byte))) /\ p \in Seq(Seq(Byte))
    BY <1>2, <1>5, BegunIs DEF TypeOK
  <2> QED
    BY <1>3, <2>1, AppendProperties
<1>7. Prefix'
  BY <1>2, <1>3, <1>5, <1>6, PlaceIs DEF Prefix
<1>8. Current'
  BY <1>3, <1>4, LastIs DEF Current, Unit
<1>9. Reading(M, F, Off, R)'
  <2>1. NextM(m, f) = m + 1 /\ NextF(f) = 0
    BY <1>2 DEF NextM, NextF
  <2>2. ~ (curr < len)
    BY <1>2, PlaceIs
  <2>3. At(m + 1, 0, M, F, Off, R)
    BY <1>1, <2>1, <2>2 DEF Track, Reading
  <2> QED
    BY <1>3, <1>6, <2>3, ReadingIs
<1>10. Tracked'
  BY <1>1, <1>3, <1>9, TrackStays DEF Tracked, sender
<1> QED
  BY <1>3, <1>7, <1>8, <1>10

(* What is left when b of a bytes are taken.                                *)
LEMMA Rest ==
  ASSUME NEW a \in Nat, NEW b \in Nat, NEW c, b <= a, c = a - b
  PROVE  c \in Nat /\ c + b = a
OBVIOUS

(* A recv() that does not come short takes the unit at the receiver's       *)
(* place, or QUIT.                                                          *)
LEMMA RecvWhole ==
  ASSUME TypeOK, ~ short', Prefix, status = "on", Current, Tracked, Recv
  PROVE  Prefix' /\ (Over' \/ (status' = "on" /\ Current' /\ Tracked'))
<1> DEFINE m == Len(returned) + 1
           f == field
<1>1. PICK M \in Nat \ {0}, F \in 0 .. Last, Off \in Offsets, R \in Nat : Track(M, F, Off, R)
  BY DEF Tracked
<1>0. wire \in Seq(Byte) /\ len < TSIZE /\ short \in BOOLEAN
  BY PlaceIs, StreamIs DEF TypeOK
<1>2. /\ m \in Nat \ {0} /\ f \in 0 .. Last /\ len \in Nat /\ Len(begun) \in Nat
      /\ Len(wire) \in Nat /\ Off[M][F] \in Nat /\ Off[m][f] \in Nat
  BY PlaceIs, StreamIs
<1>3. curr < len /\ curr = 0 /\ len = Len(Unit(m, f))
  BY <1>2 DEF Recv, Current
<1>4. /\ len <= Len(wire)
      /\ buf' = Write(len)
      /\ wire' = SubSeq(wire, len + 1, Len(wire))
      /\ curr' = len
  <2>1. PICK n \in 1 .. len :
           /\ n <= Len(wire)
           /\ buf' = Write(n)
           /\ wire' = SubSeq(wire, n + 1, Len(wire))
           /\ curr' = (curr + n) % TSIZE
           /\ short' = (short \/ n < len)
    BY DEF Recv
  <2>2. n = len
    <3>1. ~ (n < len)
      BY <2>1, Zenon
    <3>2. n \in Nat /\ n <= len
      BY <1>2
    <3> QED
      BY <1>2, <3>1, <3>2
  <2>3. (0 + len) % TSIZE = len
    BY <1>0, <1>2, Width
  <2> QED
    BY <1>3, <2>1, <2>2, <2>3
<1>5. UNCHANGED <<link, begun, rest, len, status, field, msg, returned>>
  BY DEF Recv, sender
<1>6. Len(wire') = Len(wire) - len /\ \A i \in 1 .. Len(wire) - len : wire'[i] = wire[i + len]
  <2>1. \A i \in len + 1 .. Len(wire) : wire[i] \in Byte
    BY <1>0, <1>2, ElementOfSeq
  <2> QED
    BY <1>0, <1>2, <1>4, <2>1, SubSeqProperties
<1>7. \A j \in 1 .. len : buf'[j - 1] = wire[j]
  <2> SUFFICES ASSUME NEW j \in 1 .. len PROVE Write(len)[j - 1] = wire[j]
    BY <1>4
  <2>1. j - 1 \in Byte /\ j - 1 \in 0 .. 0 + len - 1 /\ (j - 1) - 0 + 1 = j
    BY <1>0, <1>2, Width DEF Byte
  <2> QED
    BY <1>3, <2>1 DEF Write
<1>8. At(m, f, M, F, Off, R)
  BY <1>1, <1>3 DEF Track, Reading
<1>9. Ending(M, F, Off, R)
  BY <1>1 DEF Track
<1>10. Prefix'
  BY <1>5 DEF Prefix
<1>11. \A a, b : Unit(a, b)' = Unit(a, b)
  BY <1>5 DEF Unit
<1>12. CASE Before(m, f, M, F) /\ R = Off[m][f]
  <2>2. PICK R2 \in Nat : R2 = R + len
    BY <1>2
  <2>1. /\ m <= Len(begun) /\ Off[NextM(m, f)][NextF(f)] = R2 /\ R2 <= Off[M][F]
        /\ \A j \in 1 .. len, i \in Nat \ {0} : R + i = R + j => i \in 1 .. Len(wire) /\ wire[i] = Unit(m, f)[j]
    <3>1. /\ m <= Len(begun)
          /\ Off[NextM(m, f)][NextF(f)] = Off[m][f] + Len(Unit(m, f))
          /\ Off[m][f] + Len(Unit(m, f)) <= Off[M][F]
      BY <1>1, <1>2, <1>12, UnitOnWire
    <3>2. \A j \in 1 .. Len(Unit(m, f)), i \in Nat \ {0} :
            R + i = Off[m][f] + j => i \in 1 .. Len(wire) /\ wire[i] = Unit(m, f)[j]
      <4>1. m \in Nat \ {0} /\ f \in 0 .. Last /\ Before(m, f, M, F)
        BY <1>2, <1>12
      <4> HIDE DEF m, f
      <4> QED
        BY <1>1, <4>1, UnitOnWire
    <3>3. R2 = Off[m][f] + Len(Unit(m, f))
      BY <1>3, <1>12, <2>2
    <3>4. \A j \in 1 .. len, i \in Nat \ {0} : R + i = R + j => i \in 1 .. Len(wire) /\ wire[i] = Unit(m, f)[j]
      BY <1>3, <1>12, <3>2
    <3> QED
      BY <3>1, <3>3, <3>4
  <2>3. Current'
    <3>1. \A j \in 1 .. len : buf'[j - 1] = Unit(m, f)[j]
      <4> SUFFICES ASSUME NEW j \in 1 .. len PROVE buf'[j - 1] = Unit(m, f)[j]
        OBVIOUS
      <4>1. j \in Nat \ {0} /\ R + j = R + j
        BY <1>2
      <4>2. wire[j] = Unit(m, f)[j]
        BY <2>1, <4>1
      <4> QED
        BY <1>7, <4>2
    <3> QED
      BY <1>3, <1>4, <1>5, <1>11, <2>1, <3>1 DEF Current
  <2>4. Sending(M, F)'
    BY <1>1, <1>5, <1>11 DEF Track, Sending
  <2>5. Laid(M, F, Off)'
    BY <1>1, <1>11 DEF Track, Laid
  <2>6. OnWire(M, F, Off, R2)'
    <3> SUFFICES ASSUME NEW a \in 1 .. M, NEW b \in 0 .. Last, Before(a, b, M, F),
                        NEW j \in 1 .. Len(Unit(a, b)), NEW i \in Nat \ {0}, R2 + i = Off[a][b] + j
                 PROVE  wire'[i] = Unit(a, b)[j]
      BY <1>5, <1>11 DEF OnWire
    <3>1. i + len \in Nat \ {0} /\ R + (i + len) = Off[a][b] + j
      <4>1. \A l \in Nat : (R + l) + i = R + (i + l) /\ i + l \in Nat \ {0}
        OBVIOUS
      <4> QED
        BY <1>2, <2>2, <4>1
    <3>2. i + len \in 1 .. Len(wire) /\ wire[i + len] = Unit(a, b)[j]
      <4>1. a \in Nat \ {0}
        OBVIOUS
      <4>2. \A k \in Nat \ {0} : R + k = Off[a][b] + j => k \in 1 .. Len(wire) /\ wire[k] = Unit(a, b)[j]
        BY <1>1, <4>1, UnitOnWire
      <4> QED
        BY <3>1, <4>2
    <3>3. i \in 1 .. Len(wire) - len
      <4>1. \A w, l \in Nat : i + l \in 1 .. w => i \in 1 .. w - l
        OBVIOUS
      <4> QED
        BY <1>2, <3>2, <4>1
    <3> QED
      BY <1>6, <3>2, <3>3
  <2>7. R2 + Len(wire') = R + Len(wire)
    BY <1>2, <1>6, <2>2
  <2>8. Ending(M, F, Off, R2)'
    <3>1. CASE R + Len(wire) = Off[M][F]
      BY <2>7, <3>1 DEF Ending
    <3>2. CASE /\ link = "broken" /\ M <= Len(begun)
               /\ Off[M][F] < R + Len(wire) /\ R + Len(wire) < Off[M][F] + Len(Unit(M, F))
      BY <1>5, <1>11, <2>7, <3>2 DEF Ending
    <3>3. CASE /\ link = "broken" /\ M = Len(begun) + 1
               /\ R + Len(wire) = Off[M][F] + 1 /\ wire[Len(wire)] = QUIT
      <4>1. Len(wire') \in Nat /\ Len(wire') + len = Len(wire)
        BY <1>2, <1>4, <1>6, Rest
      <4>2. Len(wire') # 0
        <5>1. R2 + Len(wire') = Off[M][F] + 1 /\ R2 <= Off[M][F]
          BY <2>1, <2>7, <3>3
        <5>2. Len(wire') = 0 => R2 = Off[M][F] + 1
          BY <5>1
        <5> QED
          BY <1>2, <5>1, <5>2
      <4>3. Len(wire') \in 1 .. Len(wire) - len
        BY <1>2, <4>1, <4>2
      <4>4. wire'[Len(wire')] = wire[Len(wire') + len]
        BY <1>6, <4>3
      <4> QED
        BY <1>5, <2>7, <3>3, <4>1, <4>4 DEF Ending
    <3> QED
      BY <1>9, <3>1, <3>2, <3>3 DEF Ending
  <2>9. Reading(M, F, Off, R2)'
    <3>1. At(NextM(m, f), NextF(f), M, F, Off, R2)
      <4>1. \/ Before(NextM(m, f), NextF(f), M, F)
            \/ NextM(m, f) = M /\ NextF(f) = F
        <5>1. m \in Nat /\ f \in 0 .. Last /\ Before(m, f, M, F)
          BY <1>2, <1>12
        <5> HIDE DEF m, f
        <5> QED
          BY <5>1, PlacesIs
      <4> QED
        BY <2>1, <4>1 DEF At
    <3>2. ~ (curr' < len')
      BY <1>2, <1>4, <1>5
    <3> QED
      BY <1>5, <3>1, <3>2, ReadingIs
  <2>10. Tracked'
    BY <2>2, <2>4, <2>5, <2>6, <2>8, <2>9 DEF Track, Tracked
  <2> QED
    BY <1>5, <1>10, <2>3, <2>10
<1>13. CASE m = M /\ f = F /\ R = Off[M][F]
  <2>1. R + Len(wire) # Off[M][F]
    BY <1>2, <1>3, <1>4, <1>13
  <2>2. ~ (R + Len(wire) < Off[M][F] + Len(Unit(M, F)))
    BY <1>2, <1>3, <1>4, <1>13
  <2>3. link = "broken" /\ M = Len(begun) + 1 /\ R + Len(wire) = Off[M][F] + 1 /\ wire[Len(wire)] = QUIT
    BY <1>9, <2>1, <2>2 DEF Ending
  <2>4. field = 0
    BY <1>1, <1>2, <1>13, <2>3 DEF Track, Sending
  <2>5. Len(wire) = 1 /\ len = 1
    <3>1. R + Len(wire) = R + 1
      BY <1>13, <2>3
    <3>2. Len(wire) = 1
      <4>1. \A w \in Nat : R + w = R + 1 => w = 1
        OBVIOUS
      <4> QED
        BY <1>2, <3>1, <4>1
    <3>3. len <= 1 /\ 0 < len
      BY <1>3, <1>4, <3>2
    <3> QED
      BY <1>2, <3>2, <3>3
  <2>6. buf'[1 - 1] = wire[1]
    BY <1>7, <2>5
  <2>7. buf'[0] = QUIT
    BY <2>3, <2>5, <2>6
  <2>8. curr' >= len'
    BY <1>2, <1>4, <1>5
  <2> QED
    BY <1>5, <1>10, <2>3, <2>4, <2>7, <2>8 DEF Over
<1>14. CASE M <= Len(begun) /\ Unit(M, F) = <<>> /\ R = Off[M][F]
  <2>1. R + Len(wire) # Off[M][F]
    BY <1>2, <1>3, <1>4, <1>14
  <2>2. Len(Unit(M, F)) = 0
    BY <1>14
  <2>3. ~ (Off[M][F] < R + Len(wire) /\ R + Len(wire) < Off[M][F] + Len(Unit(M, F)))
    BY <1>2, <1>14, <2>2
  <2>4. M # Len(begun) + 1
    BY <1>2, <1>14
  <2> QED
    BY <1>9, <2>1, <2>3, <2>4 DEF Ending
<1> QED
  BY <1>8, <1>12, <1>13, <1>14 DEF At

(* Being in step is kept by every step.                                     *)
LEMMA StepWhole == TypeOK /\ Whole /\ [Next]_vars => Whole'
<1> SUFFICES ASSUME TypeOK, Whole, [Next]_vars PROVE Whole'
  OBVIOUS
<1>1. CASE SendStep
  BY <1>1, BeginWhole, SendWhole, BreakWhole, QuitWhole DEF SendStep
<1>2. CASE ReceiveStep
  <2> SUFFICES ASSUME ~ short' PROVE Prefix' /\ (Over' \/ (status' = "on" /\ Current' /\ Tracked'))
    BY DEF Whole
  <2>1. ~ short
    BY <1>2 DEF ReceiveStep, Recv, RecvFails, TagRead, FieldRead, MessageRead
  <2>2. Prefix /\ (Over \/ (status = "on" /\ Current /\ Tracked))
    BY <2>1 DEF Whole
  <2>3. CASE Over
    BY <1>2, <2>2, <2>3, OverStays
  <2>4. CASE status = "on" /\ Current /\ Tracked
    <3>1. CASE Recv
      BY <2>2, <2>4, <3>1, RecvWhole
    <3>2. CASE RecvFails
      BY <2>2, <3>2 DEF RecvFails, Over, Prefix, sender
    <3>3. CASE TagRead
      BY <2>2, <2>4, <3>3, TagWhole
    <3>4. CASE FieldRead
      BY <2>2, <2>4, <3>4, FieldWhole
    <3>5. CASE MessageRead
      BY <2>2, <2>4, <3>5, MessageWhole
    <3> QED
      BY <1>2, <3>1, <3>2, <3>3, <3>4, <3>5 DEF ReceiveStep
  <2> QED
    BY <2>2, <2>3, <2>4
<1>3. CASE UNCHANGED vars
  <2>1. UNCHANGED <<wire, link, begun, rest, status, field, len, curr, buf, msg, returned, short>>
    BY <1>3 DEF vars, sender, call
  <2>2. Prefix' = Prefix /\ Over' = Over
    BY <2>1 DEF Prefix, Over
  <2>3. Current' = Current
    BY <2>1 DEF Current, Unit
  <2>4. Tracked => Tracked'
    <3> SUFFICES ASSUME Tracked PROVE Tracked'
      OBVIOUS
    <3>1. PICK M \in Nat \ {0}, F \in 0 .. Last, Off \in Offsets, R \in Nat : Track(M, F, Off, R)
      BY DEF Tracked
    <3>2. Reading(M, F, Off, R)
      BY <3>1 DEF Track
    <3>3. Reading(M, F, Off, R)'
      BY <2>1, <3>2 DEF Reading, At, Unit
    <3>4. Track(M, F, Off, R)'
      BY <2>1, <3>1, <3>3, TrackStays DEF sender
    <3> QED
      BY <3>4 DEF Tracked
  <2> QED
    BY <2>1, <2>2, <2>3, <2>4 DEF Whole
<1> QED
  BY <1>1, <1>2, <1>3 DEF Next

(* For any layout and messages: as long as no recv() comes short,           *)
(* MSGReceive returns the messages that were sent, in order, whatever is    *)
(* in them and wherever the connection breaks; it gives up only when the    *)
(* sender has, and waits only when it has returned everything.              *)
THEOREM InStepCorrect == Spec => []InStep
<1>1. TypeOK /\ Whole => InStep
  BY WholeInStep
<1> QED
  BY <1>1, InitWhole, StepWhole, TypeCorrect, PTL DEF Spec
=============================================================================
