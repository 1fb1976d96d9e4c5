--------------------------- MODULE RtmpHandshake ---------------------------
(***************************************************************************)
(* The digest handshake of src/rtmp_handshake.c, from a client's side: it  *)
(* sends C1, takes any packets of full size the connection hands it, and   *)
(* is done when S1 carried a server's digest and S2 repeated C1.  The      *)
(* server is this file's own rtmp_handshake_server, another one that puts  *)
(* the digest where it likes, or one that sends none.                      *)
(***************************************************************************)
EXTENDS Integers

CONSTANTS LastOffset,  \* the last offset a digest fits at: RTMP_HANDSHAKE_SIZE
                       \* less RTMP_HANDSHAKE_DIGEST_SIZE
          Nonce        \* what random bytes tell apart

\* What is assumed of the constants.
HandshakeConstants == LastOffset \in Nat \ {0}

Offset   == 0..LastOffset
NoDigest == -1
None     == [random |-> "none", digest |-> NoDigest]

\* A packet of RTMP_HANDSHAKE_SIZE bytes: its random part and the offset at which
\* it holds the server key's digest of what is before.
Packet == [random : Nonce, digest : Offset \cup {NoDigest}]
Server == {"own", "other", "plain"}

VARIABLES
  server,  \* who answers
  shake,   \* the handshake context: made, state, c1, s1, c2 (sent), s2
  refused  \* packets rtmp_handshake_process returned 0 for, up to two

handshakeVars == <<server, shake, refused>>

HandshakeInit ==
  /\ server \in Server
  /\ shake = [made |-> FALSE, state |-> 0, c1 |-> None, s1 |-> None,
              c2 |-> None, s2 |-> None]
  /\ refused = 0

\* rtmp_handshake_server: init_packet, and the digest in the last bytes.
S1From(who) ==
  CASE who = "own"   -> [random : Nonce, digest : {LastOffset}]
    [] who = "other" -> [random : Nonce, digest : Offset]
    [] who = "plain" -> [random : Nonce, digest : {NoDigest}]

\* rtmp_handshake_find_digest looks at every offset but the last.
MutFindDigest(p) == IF p.digest = NoDigest THEN 0 ELSE p.digest
FindDigest(p) ==
  LET hit == {i \in Offset \ {LastOffset} : p.digest = i}
  IN  IF hit = {} THEN -1 ELSE CHOOSE i \in hit : \A j \in hit : i <= j

\* rtmp_handshake_client; a failed send leaves no context.  C1 holds a digest of
\* the client's key, which is none of the server's.
HandshakeClient ==
  /\ ~shake.made
  /\ \E r \in Nonce :
       shake' = [shake EXCEPT !.made = TRUE,
                              !.c1 = [random |-> r, digest |-> NoDigest]]
  /\ UNCHANGED <<server, refused>>

\* rtmp_handshake_process in state 0, for S1: the digest must be found and C2, a
\* copy of S1, must be sent; S1 is kept either way.
ProcessS1(p, sent) ==
  /\ shake.made /\ shake.state = 0
  /\ IF FindDigest(p) >= 0 /\ sent
     THEN /\ shake' = [shake EXCEPT !.s1 = p, !.c2 = p, !.state = 1]
          /\ UNCHANGED refused
     ELSE /\ shake' = [shake EXCEPT !.s1 = p]
          /\ refused' = refused + 1
  /\ UNCHANGED server

\* In state 1, for S2.
ProcessS2(p) ==
  /\ shake.made /\ shake.state = 1
  /\ shake' = [shake EXCEPT !.s2 = p, !.state = IF p = shake.c1 THEN 2 ELSE 1]
  /\ refused' = refused + IF p = shake.c1 THEN 0 ELSE 1
  /\ UNCHANGED server

\* The server's packets; rtmp_handshake_server sends S1 only.
Answer ==
  /\ refused < 2
  /\ \/ \E p \in S1From(server), sent \in BOOLEAN : ProcessS1(p, sent)
     \/ server # "own" /\ \E p \in Packet : ProcessS2(p)

HandshakeNext == HandshakeClient \/ Answer

HandshakeSpec == HandshakeInit /\ [][HandshakeNext]_handshakeVars

-----------------------------------------------------------------------------
HandshakeTypeOK ==
  /\ server \in Server
  /\ LET Kept == Packet \cup {None}
     IN  shake \in [made : BOOLEAN, state : 0..2,
                    c1 : Kept, s1 : Kept, c2 : Kept, s2 : Kept]
  /\ refused \in 0..2

\* The handshake is done (rtmp_handshake.c:234) only with a server whose S1 held
\* the digest, got that S1 back and repeated C1, although refused packets come in
\* between.  A digest in the last bytes is never found (rtmp_handshake.c:71), and
\* there the client's own server puts it (159): with it the handshake never ends.
DoneIsGenuine ==
  /\ shake.state >= 1 =>
       /\ shake.s1.digest \in Offset \ {LastOffset}
       /\ shake.c2 = shake.s1
       /\ server = "other"
  /\ shake.state = 2 => shake.s2 = shake.c1
=============================================================================
