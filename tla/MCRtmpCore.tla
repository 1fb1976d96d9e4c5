----------------------------- MODULE MCRtmpCore -----------------------------
(* RtmpCore with a queue of two and two connects: enough for a full queue,  *)
(* for messages left over from the first session, and for every race of the *)
(* I/O thread with a call.                                                  *)
EXTENDS RtmpCore

CONSTANT p1

OneProducer == {p1}
NoProducer  == {}
=============================================================================
