---------------------------- MODULE MCRtmpCamera ----------------------------
(* RtmpCamera with two pixel buffers (one is stored while the other is made), *)
(* one frame beside the one being processed, and two blocks that wait beside  *)
(* the set-up under way: enough for a set-up that a stop and a second start   *)
(* overtake.                                                                  *)
EXTENDS RtmpCamera

CONSTANTS f1, f2

MCFrame == {f1, f2}
=============================================================================
