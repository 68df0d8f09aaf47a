------------------------- MODULE VideoMediaChannel -------------------------
(***************************************************************************)
(* WebRtcVideoChannel (webrtc_video_engine.cc), which owns the video       *)
(* receive and send streams of one media section.  Every method runs on    *)
(* the worker thread, so a method is an operator from the state of the     *)
(* channel, a record ch, to its next state; ch.ok is what it returns.      *)
(*                                                                         *)
(* A receive stream is registered in Call under its first SSRC and its RTX *)
(* SSRC.  A packet with an SSRC that Call does not know either waits in a  *)
(* buffer (when the field trial asks for it), or makes a default stream,   *)
(* of which the next unknown SSRC takes the place.                         *)
(*                                                                         *)
(* StreamParams sp: sp.ssrcs is a sequence, sp.rtx those of them that are  *)
(* for retransmissions.  A packet has an ssrc, an id, and rtx tells        *)
(* whether its payload type is one for retransmissions or FEC.             *)
(***************************************************************************)
EXTENDS UnhandledPackets, VideoCodecs, FiniteSets

CONSTANT DefaultReportSsrc  \* kDefaultRtcpReceiverReportSsrc

Sender == INSTANCE VideoSendStream

NoCodec == Sender!NoCodec   \* send_codec_ is not set, otherwise it is <<settings>>
NoParams == [ssrcs |-> <<>>, rtx |-> {}]

WebRtcVideoChannel(bufferUnknown) ==
  LET codecs == MapCodecs(GetPayloadTypesAndDefaultCodecs(DecoderFormats)) IN
  [receive_streams_ |-> <<>>, receive_ssrcs_ |-> {},
   send_streams_ |-> <<>>, send_ssrcs_ |-> {}, sending_ |-> FALSE,
   rtcp_receiver_report_ssrc_ |-> DefaultReportSsrc,
   negotiated_codecs_ |-> <<>>, send_codec_ |-> NoCodec,
   allow_codec_switching_ |-> FALSE, requested_encoder_switch_ |-> <<>>, reduced_size |-> FALSE, recv_codecs_ |-> codecs,
   recv_flexfec_payload_type_ |-> IF codecs = <<>> THEN 0 ELSE codecs[1].flexfec,
   unsignaled_stream_params_ |-> NoParams,
   default_sink_ |-> "none", default_delay |-> 0,
   pending_criteria |-> 0,              \* demuxer_criteria_id_ - demuxer_criteria_completed_id_
   cooldown |-> FALSE,                  \* a default stream was made less than 500 ms ago
   buffered |-> bufferUnknown, unknown_ssrc_packet_buffer_ |-> EmptyBuffer,
   delivered |-> <<>>, ok |-> TRUE]

Ok(ch, b) == [ch EXCEPT !.ok = b]
Ssrcs(sp) == Range(sp.ssrcs)
First(sp) == Head(sp.ssrcs)
Without(f, x) == [y \in DOMAIN f \ {x} |-> f[y]]
With(f, x, v) == [y \in DOMAIN f \cup {x} |-> IF y = x THEN v ELSE f[y]]
EachStream(ch, Op(_)) == [ch EXCEPT !.receive_streams_ = [s \in DOMAIN @ |-> Op(@[s])]]

-----------------------------------------------------------------------------
\* What Call delivers: the first SSRC of a stream and its RTX SSRC.
CallKnows(ch, ssrc) ==
  \E s \in DOMAIN ch.receive_streams_ : ssrc \in {s} \cup ch.receive_streams_[s].params.rtx

DeliverPacket(ch, packet) ==
  IF CallKnows(ch, packet.ssrc) THEN [ch EXCEPT !.delivered = Append(@, packet.id)] ELSE ch

\* Packets that waited for these SSRCs, in the order they came.
BackfillBufferedPackets(ch, ssrcs) ==
  IF ~ch.buffered THEN ch
  ELSE LET fill == BackfillPackets(ch.unknown_ssrc_packet_buffer_, ssrcs)
       IN  FoldLeft(DeliverPacket, [ch EXCEPT !.unknown_ssrc_packet_buffer_ = fill.left], fill.given)

\* The stream in Call is destroyed and created anew with the configuration it has now.
RecreateWebRtcVideoStream(ch, first) ==
  BackfillBufferedPackets(ch, Ssrcs(ch.receive_streams_[first].params))

RecreateAll(ch, before) ==
  IF ~ch.buffered THEN ch
  ELSE FoldLeft(RecreateWebRtcVideoStream, ch,
                SetToSeq({s \in DOMAIN ch.receive_streams_ :
                            ch.receive_streams_[s] # before.receive_streams_[s]}))

SetLocalSsrcOnAll(ch, ssrc) ==
  RecreateAll(EachStream(ch, LAMBDA r : [r EXCEPT !.local_ssrc = ssrc]), ch)

SetFeedbackParametersOnAll(ch) ==
  RecreateAll(EachStream(ch, LAMBDA r : [r EXCEPT !.reduced_size = ch.reduced_size,
                                                  !.config.nack = NackOf(ch.send_codec_[1])]), ch)

-----------------------------------------------------------------------------
ValidateStreamParams(sp) ==
  /\ sp.ssrcs # <<>>
  /\ sp.rtx \subseteq Ssrcs(sp)
  /\ sp.rtx # {} => 2 * Cardinality(sp.rtx) = Cardinality(Ssrcs(sp))

ValidateReceiveSsrcAvailability(ch, sp) == Ssrcs(sp) \cap ch.receive_ssrcs_ = {}
ValidateSendSsrcAvailability(ch, sp) == Ssrcs(sp) \cap ch.send_ssrcs_ = {}

\* Mutant: the SSRCs of a stream that goes stay taken.
DeleteReceiveStreamKeepsSsrcs(ch, first) ==
  [ch EXCEPT !.receive_streams_ = Without(@, first),
             !.receive_ssrcs_ = @ \ {first}]

DeleteReceiveStream(ch, first) ==
  [ch EXCEPT !.receive_streams_ = Without(@, first),
             !.receive_ssrcs_ = @ \ Ssrcs(ch.receive_streams_[first].params)]

DeleteReceiveStreams(ch, firsts) ==
  [ch EXCEPT !.receive_streams_ = [s \in DOMAIN @ \ firsts |-> @[s]],
             !.receive_ssrcs_ = @ \ UNION {Ssrcs(ch.receive_streams_[s].params) : s \in firsts}]

\* ConfigureReceiverRtp: the local SSRC must not be the remote one.
LocalSsrcFor(ch, ssrc) ==
  IF ssrc # ch.rtcp_receiver_report_ssrc_ THEN ch.rtcp_receiver_report_ssrc_
  ELSE IF ssrc # DefaultReportSsrc THEN DefaultReportSsrc ELSE DefaultReportSsrc + 1

ConfigureReceiverRtp(ch, sp) == [local_ssrc |-> LocalSsrcFor(ch, First(sp)), reduced_size |-> ch.reduced_size]

WebRtcVideoReceiveStream(ch, sp, default) ==
  LET rtp == ConfigureReceiverRtp(ch, sp)
  IN  [params |-> sp, default |-> default, config |-> ConfigureCodecs(ch.recv_codecs_),
       flexfec |-> ch.recv_flexfec_payload_type_, sink |-> "none", delay |-> 0,
       local_ssrc |-> rtp.local_ssrc, reduced_size |-> rtp.reduced_size]

\* A default stream on the same SSRC goes before the other SSRCs are looked at.
AddRecvStreamAs(ch, sp, default) ==
  LET first == First(sp)
      taken == sp.ssrcs # <<>> /\ first \in DOMAIN ch.receive_streams_
      freed == IF taken THEN DeleteReceiveStream(ch, first) ELSE ch
      added == [freed EXCEPT !.receive_ssrcs_ = @ \cup Ssrcs(sp),
                             !.receive_streams_ = With(@, first, WebRtcVideoReceiveStream(freed, sp, default))]
  IN  CASE sp.ssrcs = <<>> -> Ok([ch EXCEPT !.unsignaled_stream_params_ = sp], TRUE)
        [] sp.ssrcs # <<>> /\ ~ValidateStreamParams(sp) -> Ok(ch, FALSE)
        [] ValidateStreamParams(sp) /\ taken /\ (default \/ ~ch.receive_streams_[first].default) -> Ok(ch, FALSE)
        [] OTHER -> IF ValidateReceiveSsrcAvailability(freed, sp)
                    THEN Ok(RecreateWebRtcVideoStream(added, first), TRUE)
                    ELSE Ok(freed, FALSE)

AddRecvStream(ch, sp) == AddRecvStreamAs(ch, sp, FALSE)

RemoveRecvStream(ch, ssrc) ==
  IF ssrc \in DOMAIN ch.receive_streams_ THEN Ok(DeleteReceiveStream(ch, ssrc), TRUE) ELSE Ok(ch, FALSE)

Defaults(ch) == {s \in DOMAIN ch.receive_streams_ : ch.receive_streams_[s].default}

ResetUnsignaledRecvStream(ch) ==
  DeleteReceiveStreams([ch EXCEPT !.unsignaled_stream_params_ = NoParams, !.cooldown = FALSE], Defaults(ch))

-----------------------------------------------------------------------------
SetSink(ch, ssrc, sink) ==
  IF ssrc \in DOMAIN ch.receive_streams_
  THEN Ok([ch EXCEPT !.receive_streams_[ssrc].sink = sink], TRUE) ELSE Ok(ch, FALSE)

SetDefaultSink(ch, sink) ==
  LET set == [ch EXCEPT !.default_sink_ = sink]
  IN  IF Defaults(ch) = {} THEN set ELSE SetSink(set, CHOOSE s \in Defaults(ch) : TRUE, sink)

\* SSRC 0 stands for the streams that are not signalled, now or later.
SetBaseMinimumPlayoutDelayMs(ch, ssrc, delay) ==
  LET set == IF ssrc = 0 THEN [ch EXCEPT !.default_delay = delay] ELSE ch
      to  == IF ssrc = 0 THEN Defaults(ch) ELSE {ssrc} \cap DOMAIN ch.receive_streams_
  IN  Ok([set EXCEPT !.receive_streams_ = [s \in DOMAIN @ |-> IF s \in to THEN [@[s] EXCEPT !.delay = delay]
                                                              ELSE @[s]]],
         ssrc = 0 \/ to # {})

OnUnsignalledSsrc(ch, ssrc) ==
  LET freed == IF Defaults(ch) = {} THEN ch ELSE RemoveRecvStream(ch, CHOOSE s \in Defaults(ch) : TRUE)
      made  == AddRecvStreamAs(freed, [ch.unsignaled_stream_params_ EXCEPT !.ssrcs = <<ssrc>>], TRUE)
  IN  SetSink(SetBaseMinimumPlayoutDelayMs(made, ssrc, made.default_delay), ssrc, made.default_sink_)

\* Mutant: a change of the demuxing that is on its way is not looked at.
MakesDefaultWhilePending(ch, packet) ==
  ~CallKnows(ch, packet.ssrc) /\ ~ch.buffered /\ ~packet.rtx /\ ~ch.cooldown

\* A packet that makes a default stream: its SSRC is unknown, it is neither for
\* retransmission nor FEC, no change of the demuxing is on its way, and the last
\* such stream is not too young.
MakesDefault(ch, packet) ==
  /\ ~CallKnows(ch, packet.ssrc)
  /\ ~ch.buffered
  /\ ~packet.rtx
  /\ ch.pending_criteria = 0
  /\ ~ch.cooldown

OnPacketReceived(ch, packet) ==
  CASE CallKnows(ch, packet.ssrc) -> DeliverPacket(ch, packet)
    [] ~CallKnows(ch, packet.ssrc) /\ ch.buffered ->
         [ch EXCEPT !.unknown_ssrc_packet_buffer_ = AddPacket(@, packet)]
    [] MakesDefault(ch, packet) ->
         [DeliverPacket(OnUnsignalledSsrc(ch, packet.ssrc), packet) EXCEPT !.cooldown = TRUE]
    [] OTHER -> ch

-----------------------------------------------------------------------------
\* A send stream exists in Call once it has a codec.
AddSendStream(ch, sp) ==
  LET first == First(sp)
      new   == Sender!WebRtcVideoSendStream(sp, ch.send_codec_, ch.reduced_size)
      added == [ch EXCEPT !.send_ssrcs_ = @ \cup Ssrcs(sp),
                          !.send_streams_ = With(@, first, Sender!SetSend(new, ch.sending_))]
  IN  CASE ~(ValidateStreamParams(sp) /\ ValidateSendSsrcAvailability(ch, sp)) -> Ok(ch, FALSE)
        [] OTHER -> IF ch.rtcp_receiver_report_ssrc_ = DefaultReportSsrc
                    THEN Ok(SetLocalSsrcOnAll([added EXCEPT !.rtcp_receiver_report_ssrc_ = first], first), TRUE)
                    ELSE Ok(added, TRUE)

RemoveSendStream(ch, ssrc) ==
  LET left   == [ch EXCEPT !.send_streams_ = Without(@, ssrc),
                           !.send_ssrcs_ = @ \ Ssrcs(ch.send_streams_[ssrc].params)]
      report == IF DOMAIN left.send_streams_ = {} THEN DefaultReportSsrc
                ELSE CHOOSE s \in DOMAIN left.send_streams_ : \A t \in DOMAIN left.send_streams_ : s <= t
  IN  CASE ssrc \notin DOMAIN ch.send_streams_ -> Ok(ch, FALSE)
        [] OTHER -> IF ch.rtcp_receiver_report_ssrc_ = ssrc
                    THEN Ok(SetLocalSsrcOnAll([left EXCEPT !.rtcp_receiver_report_ssrc_ = report], report), TRUE)
                    ELSE Ok(left, TRUE)

SetSend(ch, send) ==
  IF send /\ ch.send_codec_ = NoCodec THEN Ok(ch, FALSE)
  ELSE Ok([ch EXCEPT !.sending_ = send,
                     !.send_streams_ = [s \in DOMAIN @ |-> Sender!SetSend(@[s], send)]], TRUE)

\* What is different from before.  The codec to send is the first that both sides have;
\* when there is none, or the list is the one there was, the last one stays.
GetChangedSendParameters(ch, params) ==
  LET both  == SelectSendVideoCodecs(MapCodecs(params.codecs))
      codecs == [i \in DOMAIN both |-> [both[i] EXCEPT !.flexfec = None]]
      new   == codecs # ch.negotiated_codecs_
  IN  [negotiated |-> IF new THEN <<codecs>> ELSE <<>>,
       send_codec |-> IF new /\ codecs # <<>> /\ ch.send_codec_ # <<codecs[1]>> THEN <<codecs[1]>> ELSE <<>>,
       rtcp |-> IF params.reduced_size # ch.reduced_size THEN <<params.reduced_size>> ELSE <<>>]

\* The send streams take the changes; the receive streams take the feedback that goes
\* with the codec, and the RTCP mode.
ApplyChangedParams(ch, changed) ==
  LET set == [ch EXCEPT !.negotiated_codecs_ = IF changed.negotiated = <<>> THEN @ ELSE changed.negotiated[1],
                        !.send_codec_ = IF changed.send_codec = <<>> THEN @ ELSE changed.send_codec,
                        !.send_streams_ = [s \in DOMAIN @ |-> Sender!SetSendParameters(@[s], changed)]]
  IN  IF changed.send_codec # <<>> \/ changed.rtcp # <<>> THEN SetFeedbackParametersOnAll(set) ELSE set

SetSendParameters(ch, params) ==
  IF /\ ValidateCodecFormats(params.codecs)
     /\ params.direction.recv => SelectSendVideoCodecs(MapCodecs(params.codecs)) # <<>>
  THEN Ok(ApplyChangedParams([ch EXCEPT !.reduced_size = params.reduced_size],
                             GetChangedSendParameters(ch, params)), TRUE)
  ELSE Ok(ch, FALSE)

\* The encoder does not work: the next codec that both sides have takes its place.
RequestEncoderFallback(ch) ==
  LET left == Tail(ch.negotiated_codecs_)
  IN  IF Len(ch.negotiated_codecs_) <= 1 THEN ch
      ELSE ApplyChangedParams(ch, [Sender!NoChange EXCEPT !.negotiated = <<left>>, !.send_codec = <<left[1]>>])

\* The encoder asks for another codec, which the other side must have.
SwitchTo(ch, format) ==
  LET such == SelectSeq(ch.negotiated_codecs_, LAMBDA c : c.codec.format = format)
  IN  IF such = <<>> THEN ch
      ELSE IF ch.send_codec_ = <<such[1]>> THEN ch
      ELSE ApplyChangedParams(ch, [Sender!NoChange EXCEPT !.send_codec = <<such[1]>>])

\* The request waits until switching is allowed.
RequestEncoderSwitch(ch, format) ==
  IF ch.allow_codec_switching_ THEN SwitchTo(ch, format)
  ELSE [ch EXCEPT !.requested_encoder_switch_ = <<format>>]

SetVideoCodecSwitchingEnabled(ch, enabled) ==
  LET set == [ch EXCEPT !.allow_codec_switching_ = enabled]
  IN  IF enabled /\ ch.requested_encoder_switch_ # <<>>
      THEN SwitchTo([set EXCEPT !.requested_encoder_switch_ = <<>>], ch.requested_encoder_switch_[1])
      ELSE set

SetVideoSend(ch, ssrc, screencast, source) ==
  IF ssrc \in DOMAIN ch.send_streams_
  THEN Ok([ch EXCEPT !.send_streams_[ssrc] = Sender!SetVideoSend(@, screencast, source)], TRUE)
  ELSE Ok(ch, FALSE)

SetRtpSendParameters(ch, ssrc, active) ==
  IF ssrc \in DOMAIN ch.send_streams_
  THEN Ok([ch EXCEPT !.send_streams_[ssrc] = Sender!SetRtpParameters(@, active)], TRUE)
  ELSE Ok(ch, FALSE)

\* GetChangedRecvParameters: the list maps to settings, each of which the decoders have
\* when the section is to receive.
Acceptable(params) ==
  LET mapped == MapCodecs(params.codecs)
  IN  /\ ValidateCodecFormats(params.codecs)
      /\ mapped # <<>>
      /\ params.direction.recv => \A i \in DOMAIN mapped : mapped[i].codec.format \in Range(DecoderFormats)

\* What the channel keeps of a list: the settings it has, when the list changes nothing.
RecvCodecs(ch, params) ==
  LET mapped == MapCodecs(params.codecs)
  IN  [ch EXCEPT !.recv_codecs_ = IF NonFlexfecReceiveCodecsHaveChanged(@, mapped) THEN mapped ELSE @,
                 !.recv_flexfec_payload_type_ = mapped[1].flexfec]

\* Mutant: the codecs are kept for streams to come, those that exist keep theirs.
SetRecvParametersNewOnly(ch, params) ==
  IF Acceptable(params) THEN Ok(RecvCodecs(ch, params), TRUE) ELSE Ok(ch, FALSE)

SetRecvParameters(ch, params) ==
  LET set == RecvCodecs(ch, params)
      Configure(r) == [r EXCEPT !.config = IF set.recv_codecs_ # ch.recv_codecs_
                                           THEN ConfigureCodecs(set.recv_codecs_) ELSE @,
                                !.flexfec = set.recv_flexfec_payload_type_]
  IN  IF Acceptable(params) THEN Ok(RecreateAll(EachStream(set, Configure), ch), TRUE) ELSE Ok(ch, FALSE)
=============================================================================
