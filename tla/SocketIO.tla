------------------------------ MODULE SocketIO ------------------------------
(***************************************************************************)
(* The framing that the three programs share (cs87talk.c): socketSend and   *)
(* socketRecv (send_msg and recv_msg in client-server) move one field with  *)
(* a loop over send() or recv(); MSGSend and MSGReceive move a message, a   *)
(* tag and the Fields behind it.  One direction of one connection: a sender *)
(* in MSGSend and a receive thread in MSGReceive.                           *)
(*                                                                          *)
(* The connection is a stream.  A recv() may come short; the loop then asks *)
(* for the whole length again, with an index of type tsize_t that wraps.    *)
(* What it writes behind the field is not modelled.  The programs catch no  *)
(* signal and set no timeout, so that a send() is only short when the       *)
(* connection breaks: the loop of socketSend is one step.                   *)
(***************************************************************************)
EXTENDS Integers, Sequences

CONSTANTS Fields,         \* of a message behind its tag: "len", "text", "byte"
          SKIPS,          \* an unknown tag is skipped (hypercube), or the end
          Packets,        \* the messages that may be sent, field by field
          MAX_PACKETS,    \* how many of them are
          MSG_DATA, QUIT, \* tags
          TSIZE           \* values of a tsize_t: 256

Byte == 0 .. TSIZE - 1

(* A text stands behind its length; the other fields are one byte.          *)
ASSUME SocketIOAssumption ==
    /\ TSIZE \in Nat /\ TSIZE > 1
    /\ MSG_DATA \in Byte /\ QUIT \in Byte /\ MSG_DATA # QUIT
    /\ MAX_PACKETS \in Nat
    /\ SKIPS \in BOOLEAN
    /\ Fields \in Seq({"len", "text", "byte"}) /\ Fields # <<>>
    /\ \A f \in DOMAIN Fields :
          Fields[f] = "text" => f - 1 \in DOMAIN Fields /\ Fields[f - 1] = "len"
    /\ Packets \subseteq Seq(Seq(Byte))
    /\ \A p \in Packets :
          /\ Len(p) = Len(Fields)
          /\ \A f \in DOMAIN p :
                /\ Fields[f] # "text" => Len(p[f]) = 1
                /\ Fields[f] = "len" =>
                      f + 1 \in DOMAIN p /\ Fields[f + 1] = "text" /\ p[f][1] = Len(p[f + 1])

VARIABLES
    wire,         \* bytes written and not yet read
    link,         \* "up", or "broken": closed or lost
    rest,         \* sender: the fields of its message not yet written
    status,       \* receiver: "on", or "over"
    field,        \* receiver: the field it reads, 0 for the tag
    len, curr,    \* socketRecv: its argument and its index
    buf,          \* the first bytes of the buffer of that field
    msg,          \* receiver: the fields of its message so far
    begun,        \* history: messages the sender began to send
    returned,     \* history: messages for which MSGReceive returned 1
    took,         \* history: bytes that this call of socketRecv has read
    short         \* history: whether a recv() has come short

sender == <<rest, begun>>
call   == <<len, curr, buf, took>>
vars   == <<wire, link, sender, call, status, field, msg, returned, short>>

Init ==
    /\ wire = <<>>
    /\ link = "up"
    /\ rest = <<>>
    /\ status = "on"
    /\ field = 0
    /\ len = 1
    /\ curr = 0
    /\ buf = [i \in Byte |-> 0]
    /\ msg = <<>>
    /\ begun = <<>>
    /\ returned = <<>>
    /\ took = 0
    /\ short = FALSE

-----------------------------------------------------------------------------
(* The sender *)

BeginMessage(p) ==
    /\ link = "up"
    /\ rest = <<>>
    /\ Len(begun) < MAX_PACKETS
    /\ begun' = Append(begun, p)
    /\ rest' = <<<<MSG_DATA>>>> \o p
    /\ UNCHANGED <<wire, link, call, status, field, msg, returned, short>>

(* A field of length 0 is not sent at all.                                  *)
SendField ==
    /\ link = "up"
    /\ rest # <<>>
    /\ wire' = wire \o Head(rest)
    /\ rest' = Tail(rest)
    /\ UNCHANGED <<link, begun, call, status, field, msg, returned, short>>

(* The connection breaks within a field, or the sender dies.                *)
SendBreaks ==
    /\ link = "up"
    /\ IF rest = <<>>
       THEN UNCHANGED wire
       ELSE \E n \in 0 .. Len(Head(rest)) : wire' = wire \o SubSeq(Head(rest), 1, n)
    /\ link' = "broken"
    /\ rest' = <<>>
    /\ UNCHANGED <<begun, call, status, field, msg, returned, short>>

SayQuit ==
    /\ link = "up"
    /\ rest = <<>>
    /\ wire' = Append(wire, QUIT)
    /\ link' = "broken"
    /\ UNCHANGED <<sender, call, status, field, msg, returned, short>>

-----------------------------------------------------------------------------
(* socketRecv *)

Begin(n) ==
    /\ len' = n
    /\ curr' = 0
    /\ took' = 0
    /\ buf' = [i \in Byte |-> 0]

Write(n) == [i \in Byte |-> IF i \in curr .. curr + n - 1 THEN wire[i - curr + 1] ELSE buf[i]]

(* Mutants: the index does not wrap; the loop goes on at curr = len.        *)
RecvWide ==
    /\ status = "on"
    /\ curr < len
    /\ \E n \in 1 .. len :
          /\ n <= Len(wire)
          /\ buf' = Write(n)
          /\ wire' = SubSeq(wire, n + 1, Len(wire))
          /\ curr' = curr + n
          /\ took' = took + n
          /\ short' = (short \/ n < len)
    /\ UNCHANGED <<link, sender, len, status, field, msg, returned>>

RecvOnceMore ==
    /\ status = "on"
    /\ curr <= len
    /\ \E n \in 1 .. len :
          /\ n <= Len(wire)
          /\ buf' = Write(n)
          /\ wire' = SubSeq(wire, n + 1, Len(wire))
          /\ curr' = (curr + n) % TSIZE
          /\ took' = took + n
          /\ short' = (short \/ n < len)
    /\ UNCHANGED <<link, sender, len, status, field, msg, returned>>

Recv ==
    /\ status = "on"
    /\ curr < len
    /\ \E n \in 1 .. len :
          /\ n <= Len(wire)
          /\ buf' = Write(n)
          /\ wire' = SubSeq(wire, n + 1, Len(wire))
          /\ curr' = (curr + n) % TSIZE
          /\ took' = took + n
          /\ short' = (short \/ n < len)
    /\ UNCHANGED <<link, sender, len, status, field, msg, returned>>

(* 0 or -1: a reset may come before all that was written is read.           *)
(* Mutant: the end of the stream is not noticed.                            *)
RecvFailsOn ==
    /\ status = "on"
    /\ curr < len
    /\ link = "broken"
    /\ UNCHANGED vars

RecvFails ==
    /\ status = "on"
    /\ curr < len
    /\ link = "broken"
    /\ status' = "over"
    /\ UNCHANGED <<wire, link, sender, call, field, msg, returned, short>>

-----------------------------------------------------------------------------
(* MSGReceive, and its caller, which closes or calls again *)

Returned == status = "on" /\ curr >= len

TagRead ==
    /\ Returned
    /\ field = 0
    /\ \/ buf[0] = MSG_DATA /\ field' = 1 /\ Begin(1) /\ UNCHANGED status
       \/ buf[0] \notin {MSG_DATA, QUIT} /\ SKIPS /\ Begin(1) /\ UNCHANGED <<field, status>>
       \/ /\ buf[0] # MSG_DATA /\ (buf[0] = QUIT \/ ~SKIPS)
          /\ status' = "over"
          /\ UNCHANGED <<field, call>>
    /\ UNCHANGED <<wire, link, sender, msg, returned, short>>

Bytes == [i \in 1 .. len |-> buf[i - 1]]

(* Mutant: the length is taken to count the terminator.                     *)
FieldReadShort ==
    /\ Returned
    /\ field \in 1 .. Len(Fields) - 1
    /\ msg' = Append(msg, Bytes)
    /\ field' = field + 1
    /\ Begin(IF Fields[field] = "len" THEN (buf[0] - 1) % TSIZE ELSE 1)
    /\ UNCHANGED <<wire, link, sender, status, returned, short>>

FieldRead ==
    /\ Returned
    /\ field \in 1 .. Len(Fields) - 1
    /\ msg' = Append(msg, Bytes)
    /\ field' = field + 1
    /\ Begin(IF Fields[field] = "len" THEN buf[0] ELSE 1)
    /\ UNCHANGED <<wire, link, sender, status, returned, short>>

MessageRead ==
    /\ Returned
    /\ field = Len(Fields)
    /\ returned' = Append(returned, Append(msg, Bytes))
    /\ msg' = <<>>
    /\ field' = 0
    /\ Begin(1)
    /\ UNCHANGED <<wire, link, sender, status, short>>

-----------------------------------------------------------------------------

SendStep == (\E p \in Packets : BeginMessage(p)) \/ SendField \/ SendBreaks \/ SayQuit

ReceiveStep == Recv \/ RecvFails \/ TagRead \/ FieldRead \/ MessageRead

Next == SendStep \/ ReceiveStep

Spec == Init /\ [][Next]_vars

(* The receive thread runs; nothing need be sent.                           *)
FairSpec == Spec /\ WF_vars(ReceiveStep)

-----------------------------------------------------------------------------
(* Properties *)

TypeOK ==
    /\ wire \in Seq(Byte)
    /\ link \in {"up", "broken"}
    /\ rest \in Seq(Seq(Byte))
    /\ status \in {"on", "over"}
    /\ field \in 0 .. Len(Fields)
    /\ len \in Byte
    /\ curr \in Byte
    /\ buf \in [Byte -> Byte]
    /\ msg \in Seq(Seq(Byte))
    /\ begun \in Seq(Packets)
    /\ returned \in Seq(Seq(Seq(Byte)))
    /\ took \in Nat
    /\ short \in BOOLEAN

(* The index of socketRecv: for a field of at most half the range of a      *)
(* tsize_t it counts what has been read, and the loop ends with less than   *)
(* twice the field taken; a field of one byte is read exactly, however the  *)
(* bytes arrive.  A longer field can wrap the index and be read on.         *)
HalfIsSafe ==
    2 * len <= TSIZE => /\ took = curr
                        /\ took < 2 * len \/ took = 0

(* As long as no recv() has come short, MSGReceive returns the messages     *)
(* that were sent, in order, and gives up only when the sender has; when    *)
(* all that was written is read, it has returned all of them.               *)
InStep ==
    ~short =>
        /\ Len(returned) <= Len(begun)
        /\ \A n \in DOMAIN returned : returned[n] = begun[n]
        /\ status = "over" => link = "broken"
        /\ (wire = <<>> /\ rest = <<>> /\ link = "up" /\ curr < len) => returned = begun

(* A receive thread whose sender is gone ends, wherever in a message it is. *)
ReceiverEnds == (link = "broken") ~> (status = "over")

=============================================================================
