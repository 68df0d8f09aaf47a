-------------------------- MODULE VideoSendStream --------------------------
(***************************************************************************)
(* WebRtcVideoSendStream (webrtc_video_engine.cc): what a video channel    *)
(* keeps of a stream it sends, a record s, and the VideoSendStream that    *)
(* Call makes of it, s.stream.  That one is made when there is a codec,    *)
(* and made anew whenever what it was made from changes, so that source    *)
(* and state have to be given to it again.                                 *)
(*                                                                         *)
(* A stream has one SSRC and perhaps one for retransmissions, and one      *)
(* encoding, which is active or not.                                       *)
(***************************************************************************)
EXTENDS VideoCodecs

NoCodec == <<>>          \* codec_settings is not set, otherwise it is <<settings>>
NoStream == <<>>         \* stream_ is null, otherwise it is <<stream>>
NoChange == [negotiated |-> <<>>, send_codec |-> <<>>, rtcp |-> <<>>]

\* It is started or stopped whenever one of the conditions may have changed.
UpdateSendState(s) ==
  IF s.stream = NoStream THEN s ELSE [s EXCEPT !.stream[1].started = s.sending /\ s.active]

RecreateWebRtcStream(s) ==
  UpdateSendState(
    [s EXCEPT !.stream = <<[codec |-> s.codec, rtx |-> s.rtx, reduced_size |-> s.reduced_size,
                            screencast |-> s.screencast, source |-> s.source, started |-> FALSE]>>])

\* With a codec that has none for retransmissions their SSRCs are forgotten, for good.
SetCodec(s, settings) ==
  RecreateWebRtcStream([s EXCEPT !.codec = <<settings>>,
                                 !.rtx = IF settings.rtx = None THEN {} ELSE @])

WebRtcVideoSendStream(sp, codec, reduced_size) ==
  LET s == [params |-> sp, rtx |-> sp.rtx, codec |-> NoCodec, reduced_size |-> reduced_size,
            screencast |-> FALSE, source |-> "none", sending |-> FALSE, active |-> TRUE,
            stream |-> NoStream]
  IN  IF codec = NoCodec THEN s ELSE SetCodec(s, codec[1])

\* A change to or from screen content makes the encoder anew, before the source is given.
SetVideoSend(s, screencast, source) ==
  LET set  == [s EXCEPT !.screencast = screencast]
      made == IF screencast # s.screencast /\ s.codec # NoCodec THEN SetCodec(set, s.codec[1]) ELSE set
  IN  [made EXCEPT !.source = source,
                   !.stream = IF @ = NoStream THEN @ ELSE <<[@[1] EXCEPT !.source = source]>>]

\* SetCodec has made the stream anew already.
SetSendParameters(s, changed) ==
  LET set == IF changed.rtcp = <<>> THEN s ELSE [s EXCEPT !.reduced_size = changed.rtcp[1]]
  IN  CASE changed.send_codec # <<>> -> SetCodec(set, changed.send_codec[1])
        [] changed.send_codec = <<>> /\ changed.rtcp # <<>> -> RecreateWebRtcStream(set)
        [] OTHER -> s

SetRtpParameters(s, active) ==
  IF active = s.active THEN s ELSE UpdateSendState([s EXCEPT !.active = active])

SetSend(s, send) == UpdateSendState([s EXCEPT !.sending = send])

-----------------------------------------------------------------------------
\* The stream in Call is what was last set, and it sends when it is to.
IsInCall(s) ==
  IF s.codec = NoCodec THEN s.stream = NoStream
  ELSE s.stream = <<[codec |-> s.codec, rtx |-> s.rtx, reduced_size |-> s.reduced_size,
                     screencast |-> s.screencast, source |-> s.source,
                     started |-> s.sending /\ s.active]>>
=============================================================================
