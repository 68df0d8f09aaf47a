----------------------------- MODULE RtdEngine -----------------------------
(***************************************************************************)
(* RtdEngineImpl and RtdSignaling: the signaling thread of one session,    *)
(* from the offer to the ICE callbacks.  A task of that thread runs to its *)
(* end; the two that leave it for a while are steps of their own: the HTTP *)
(* request of OnSdpOffer, which blocks the thread, and media_info_callback *)
(* (in RtdDec), which takes a mutex of the player.                         *)
(*                                                                         *)
(* The peer connection and its ICE agent are WebRTC's and external: the    *)
(* agent moves as the library's documentation of the states allows.        *)
(***************************************************************************)
EXTENDS Naturals

VARIABLES peer_connection_,    \* the peer connection exists
          sig_pc,              \* what the signaling thread does
          stream_info_parsed_, \* ParseStreamInfo has run
          media_conn_status_,  \* what OnIceConnectionChange recorded
          ice                  \* the state of the ICE agent (external)

evars == <<peer_connection_, sig_pc, stream_info_parsed_, media_conn_status_, ice>>

SigPC == {"idle", "offer", "http", "write_audio", "write_video", "flag", "signal"}
ConnStatus == {"NONE", "SUCCESS", "FAILED"}
IceState == {"new", "checking", "connected", "completed", "disconnected", "failed"}

EngineInit ==
  /\ peer_connection_ = FALSE
  /\ sig_pc = "idle"
  /\ stream_info_parsed_ = FALSE
  /\ media_conn_status_ = "NONE"
  /\ ice = "new"

\* Open creates the peer connection and posts the creation of the offer.
OpenSucceeds ==
  /\ peer_connection_' = TRUE
  /\ sig_pc' = "offer"
  /\ UNCHANGED <<stream_info_parsed_, media_conn_status_, ice>>

\* A thread does not start, or the connection or a transceiver is not created.
OpenFails == UNCHANGED evars

\* The observer of CreateOffer: an error is logged and nothing else happens;
\* an offer is set as local description and sent to the signaling server.
OfferCreated ==
  /\ sig_pc = "offer"
  /\ sig_pc' \in {"idle", "http"}
  /\ UNCHANGED <<peer_connection_, stream_info_parsed_, media_conn_status_, ice>>

\* OnSdpOffer ignores what ConnectAndWaitResponse returns.  Without an answer
\* (no connection, no JSON, a code other than 200) SetAnswer cannot parse the
\* empty string and returns; with one the remote description starts ICE, or
\* its observer logs an error.
SignalingFails ==
  /\ sig_pc = "http"
  /\ sig_pc' = "idle"
  /\ UNCHANGED <<peer_connection_, stream_info_parsed_, media_conn_status_, ice>>

AnswerReceived ==
  /\ sig_pc = "http"
  /\ sig_pc' = "idle"
  /\ stream_info_parsed_' = TRUE
  /\ ice' \in {"new", "checking"}
  /\ UNCHANGED <<peer_connection_, media_conn_status_>>

IceNext(s) ==
  CASE s = "checking"     -> {"connected", "failed"}
    [] s = "connected"    -> {"completed", "disconnected", "failed"}
    [] s = "completed"    -> {"connected", "disconnected", "failed"}
    [] s = "disconnected" -> {"connected", "failed"}
    [] s = "failed"       -> {"connected"}
    [] OTHER              -> {}

StatusAfter(s) ==
  CASE s \in {"failed", "disconnected"} -> "FAILED"
    [] s = "completed"                  -> "SUCCESS"
    [] OTHER                            -> media_conn_status_

\* OnIceConnectionChange.  When connected it calls media_info_callback if the
\* stream info is known, which is the next thing the thread does.
OnIceConnectionChange ==
  /\ peer_connection_ /\ sig_pc = "idle"
  /\ ice' \in IceNext(ice)
  /\ media_conn_status_' = StatusAfter(ice')
  /\ sig_pc' = IF ice' = "connected" /\ stream_info_parsed_ THEN "write_audio" ELSE "idle"
  /\ UNCHANGED <<peer_connection_, stream_info_parsed_>>

EngineCloseAtOnce ==
  /\ peer_connection_' = FALSE
  /\ UNCHANGED <<sig_pc, stream_info_parsed_, media_conn_status_, ice>>

\* Close releases the peer connection.  The release waits until the signaling
\* thread has run the tasks posted before, and after it none is left.
EngineClose ==
  /\ sig_pc = "idle"
  /\ peer_connection_' = FALSE
  /\ UNCHANGED <<sig_pc, stream_info_parsed_, media_conn_status_, ice>>

Signaling == OfferCreated \/ SignalingFails \/ AnswerReceived

=============================================================================
