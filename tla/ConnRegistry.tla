---------------------------- MODULE ConnRegistry ----------------------------
(***************************************************************************)
(* What the RTMP server promises about the connections it registers, with  *)
(* no threads, no mutex and no list: a connection object is allocated and  *)
(* listed, then detached from the list, then its memory is returned; and   *)
(* the server reports that it is down only when nothing is listed.         *)
(* RtmpServer implements this specification (its Registry instance).       *)
(***************************************************************************)
CONSTANT Conn              \* the connection objects (calloc'ed addresses)

VARIABLES phase,           \* "down", "up" or "draining"
          life             \* Conn -> "absent", "listed" or "detached"

vars == <<phase, life>>

Phases == {"down", "up", "draining"}
Lives  == {"absent", "listed", "detached"}

Init == /\ phase = "down"
        /\ life = [c \in Conn |-> "absent"]

\* The server comes up.
Up == /\ phase = "down"
      /\ phase' = "up"
      /\ UNCHANGED life

\* The server begins to stop; a client accepted just before may still be listed.
Drain == /\ phase = "up"
         /\ phase' = "draining"
         /\ UNCHANGED life

\* The server is down, which it may be only once nothing is listed; a start that
\* gives up at once gets here from "up".
Down == /\ phase # "down"
        /\ \A c \in Conn : life[c] # "listed"
        /\ phase' = "down"
        /\ UNCHANGED life

Register(c) == /\ phase # "down"
               /\ life[c] = "absent"
               /\ life' = [life EXCEPT ![c] = "listed"]
               /\ UNCHANGED phase

Detach(c) == /\ life[c] = "listed"
             /\ life' = [life EXCEPT ![c] = "detached"]
             /\ UNCHANGED phase

Release(c) == /\ life[c] = "detached"
              /\ life' = [life EXCEPT ![c] = "absent"]
              /\ UNCHANGED phase

Next == \/ Up \/ Drain \/ Down
        \/ \E c \in Conn : Register(c) \/ Detach(c) \/ Release(c)

Spec == Init /\ [][Next]_vars
=============================================================================
