-------------------------- MODULE MCVideoChannel --------------------------
(* The instance of VideoChannel that TLC checks. *)
EXTENDS VideoChannel

Stream(ssrcs, rtx) == [ssrcs |-> ssrcs, rtx |-> rtx]
Content(send, recv, codecs, rtcp, streams) ==
  [direction |-> [send |-> send, recv |-> recv], codecs |-> codecs, reduced_size |-> rtcp,
   streams |-> streams]

\* A profile of H.264 with retransmissions and one without; both, with FEC, and the
\* second one first; and a list that is refused: it names a payload type twice.
High == Codec(96, "video", "H264-high")
Base == [Codec(98, "video", "H264-base") EXCEPT !.feedback = {}]
HighList == <<High, [CreateRtxCodec(97, 96) EXCEPT !.rtx_time = 2]>>
BothList == <<Base, High, CreateRtxCodec(97, 96), Codec(99, "red", "red"), CreateRtxCodec(100, 99),
              Codec(101, "ulpfec", "ulpfec")>>
WrongList == <<High, Codec(96, "video", "H264-base")>>

MCDecoderFormats == <<"H264-high", "H264-base">>

\* One stream with retransmissions, streams that are not signalled, and a sender that
\* stops.
MCRemoteContents ==
  {Content(TRUE, TRUE, HighList, FALSE, <<Stream(<<1, 2>>, {2})>>),
   Content(TRUE, FALSE, BothList, TRUE, <<Stream(<<>>, {})>>),
   Content(FALSE, FALSE, HighList, FALSE, <<>>)}

\* A player, which sends nothing, a side that also sends, and one that is refused.
MCLocalContents ==
  {Content(FALSE, TRUE, HighList, FALSE, <<>>),
   Content(TRUE, TRUE, BothList, FALSE, <<Stream(<<4>>, {})>>),
   Content(FALSE, TRUE, WrongList, FALSE, <<>>)}

\* The descriptions satisfy what the theorems suppose of them.
ASSUME OrdinaryDescriptions == CommonCodecs /\ ProperStreams

\* The engine's own list is one that a channel accepts, for as many formats as there
\* are payload types.
ASSUME DefaultCodecsMap ==
  \A n \in 1..40 :
    LET list == GetPayloadTypesAndDefaultCodecs([i \in 1..n |-> IF i % 4 = 0 THEN "AV1" ELSE "H264-high"])
    IN  ValidateCodecFormats(list) /\ ~Refused(list)

\* What the application, the session descriptions and the encoder ask of the sending
\* side, which the state machine has only in part.
SendCalls ==
  [do : {"add"}, sp : {Stream(<<4, 5>>, {5}), Stream(<<6>>, {}), Stream(<<5, 6>>, {6})}]
  \cup [do : {"remove"}, ssrc : {4, 6}]
  \cup [do : {"parameters"}, params : MCRemoteContents]
  \cup [do : {"send"}, to : BOOLEAN]
  \cup [do : {"source"}, screencast : BOOLEAN, source : {"none", "camera"}]
  \cup [do : {"active"}, to : BOOLEAN]
  \cup [do : {"fallback"}]
  \cup [do : {"switch"}, format : {"H264-high", "H264-base"}]
  \cup [do : {"allow"}, to : BOOLEAN]

Did(c, call) ==
  CASE call.do = "add" -> AddSendStream(c, call.sp)
    [] call.do = "remove" -> RemoveSendStream(c, call.ssrc)
    [] call.do = "parameters" -> SetSendParameters(c, call.params)
    [] call.do = "send" -> SetSend(c, call.to)
    [] call.do = "source" -> SetVideoSend(c, 4, call.screencast, call.source)
    [] call.do = "active" -> SetRtpSendParameters(c, 4, call.to)
    [] call.do = "fallback" -> RequestEncoderFallback(c)
    [] call.do = "switch" -> RequestEncoderSwitch(c, call.format)
    [] OTHER -> SetVideoCodecSwitchingEnabled(c, call.to)

MaxSendCalls == 5

\* The channels that n calls can make of a new one that receives one stream.
Made[n \in 0..MaxSendCalls] ==
  IF n = 0 THEN {AddRecvStream(WebRtcVideoChannel(FALSE), Stream(<<1, 2>>, {2}))}
  ELSE Made[n - 1] \cup {Did(c, call) : c \in Made[n - 1], call \in SendCalls}

\* Whatever the order of the calls, every stream that Call sends is what was last asked
\* for, with the codec, the source and the state of its channel, and the receive stream
\* has the mode of RTCP that goes with it and a local SSRC that is not its own.
ASSUME SendStreamsFollowChannel ==
  \A c \in Made[MaxSendCalls] :
    /\ \A s \in DOMAIN c.send_streams_ :
         LET t == c.send_streams_[s]
         IN  /\ t.codec = c.send_codec_ /\ t.sending = c.sending_ /\ t.reduced_size = c.reduced_size
             /\ Sender!IsInCall(t)
    /\ c.send_ssrcs_ = UNION {Ssrcs(c.send_streams_[s].params) : s \in DOMAIN c.send_streams_}
    /\ c.receive_streams_[1].reduced_size = c.reduced_size
    /\ c.receive_streams_[1].local_ssrc = c.rtcp_receiver_report_ssrc_
    /\ c.send_codec_ # NoCodec => c.receive_streams_[1].config.nack = NackOf(c.send_codec_[1])
=============================================================================
