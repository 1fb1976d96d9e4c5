----------------------------- MODULE RtmpClient -----------------------------
(***************************************************************************)
(* The parts of the client library that share no state with one another:   *)
(* session, handshake, stream, chunk writer, AMF decoder, quality          *)
(* controller and diagnostics.  As a property of each speaks of its own    *)
(* variables only, it holds of any interleaving of the parts if it holds   *)
(* when one of them moves and the others stand still: `part' says which,   *)
(* for good.  So the state spaces add up and do not multiply.              *)
(***************************************************************************)
EXTENDS RtmpSession, RtmpStream, RtmpDiagnostics, RtmpQuality, RtmpHandshake,
        RtmpChunk, RtmpAmf

VARIABLE part

\* What is assumed of the parts' constants.
ClientConstants ==
  /\ StreamConstants /\ DiagConstants /\ QualityConstants
  /\ HandshakeConstants /\ ChunkConstants /\ AmfConstants

vars == <<part, sessionVars, streamVars, diagVars, qualityVars, handshakeVars,
          chunkVars, amfVars>>

Init ==
  /\ part \in {"session", "stream", "diagnostics", "quality", "handshake",
               "chunk", "amf"}
  /\ SessionInit /\ StreamInit /\ DiagnosticsInit /\ QualityInit /\ ChunkInit /\ AmfInit
  /\ HandshakeInit /\ (part # "handshake" => server = "own")

\* The variables of the other parts.
Still(p) ==
  /\ UNCHANGED part
  /\ p # "session"     => UNCHANGED sessionVars
  /\ p # "stream"      => UNCHANGED streamVars
  /\ p # "diagnostics" => UNCHANGED diagVars
  /\ p # "quality"     => UNCHANGED qualityVars
  /\ p # "handshake"   => UNCHANGED handshakeVars
  /\ p # "chunk"       => UNCHANGED chunkVars
  /\ p # "amf"         => UNCHANGED amfVars

Next ==
  \/ part = "session"     /\ SessionNext /\ Still("session")
  \/ part = "stream"      /\ StreamNext /\ Still("stream")
  \/ part = "diagnostics" /\ DiagnosticsNext /\ Still("diagnostics")
  \/ part = "quality"     /\ QualityNext /\ Still("quality")
  \/ part = "handshake"   /\ HandshakeNext /\ Still("handshake")
  \/ part = "chunk"       /\ ChunkNext /\ Still("chunk")
  \/ part = "amf"         /\ AmfNext /\ Still("amf")

\* Only the session promises that its calls return.
FairSpec == Init /\ [][Next]_vars /\ (part = "session" => SessionFairness)

-----------------------------------------------------------------------------
\* Every part's variables have their types.
TypeOK ==
  /\ SessionTypeOK /\ StreamTypeOK /\ DiagnosticsTypeOK /\ QualityTypeOK
  /\ HandshakeTypeOK /\ ChunkTypeOK /\ AmfTypeOK

\* rtmp_session.c: disconnect and get_state return while the peer stays.
CallsReturn == part = "session" => SessionCallsReturn
=============================================================================
