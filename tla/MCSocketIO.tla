----------------------------- MODULE MCSocketIO -----------------------------
(* The hypercube's messages over bytes of three bits.                       *)
EXTENDS SocketIO

HypercubeFields == <<"len", "text", "len", "text", "byte">>

(* An ID, which is sent as a field of the greatest length whatever is in it *)
(* (client.c:340), a text, and a hop count.  Bytes may look like a tag or a *)
(* length; one text is empty.                                               *)
HypercubePackets ==
    { << <<7>>, <<2, 1, 2, 5, 3, 0, 4>>, <<3>>, <<1, 2, 3>>, <<6>> >>,
      << <<7>>, <<2, 1, 6, 2, 0, 0, 0>>, <<0>>, <<>>, <<0>> >> }
=============================================================================
