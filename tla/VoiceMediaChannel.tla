------------------------- MODULE VoiceMediaChannel -------------------------
(***************************************************************************)
(* WebRtcVoiceMediaChannel (webrtc_voice_engine.cc), which owns the audio  *)
(* receive and send streams of one media section, with what its calls do   *)
(* to AudioReceiveStream and ChannelReceive.  Every method runs on the     *)
(* worker thread, so a method is an operator from the state of the         *)
(* channel, a record vc, to its next state; vc.ok is what it returns.      *)
(*                                                                         *)
(* A packet whose SSRC Call does not know makes an unsignalled stream.     *)
(* There may be several; the newest one gets the default sink.             *)
(*                                                                         *)
(* A codec has a payload type id, a name and params, a function; a decoder *)
(* map gives each payload type a name and params.  A packet has an ssrc,   *)
(* an id, a payload type pt, and inner, the payload type of the audio in   *)
(* it (pt, unless pt is that of RED).                                      *)
(***************************************************************************)
EXTENDS Naturals, Sequences, FiniteSets, SequencesExt, TLC

CONSTANTS MaxUnsignaled,     \* kMaxUnsignaledRecvStreams
          DefaultReportSsrc  \* the SSRC of receiver reports while nothing is sent

ASSUME VoiceAssumption == MaxUnsignaled \in Nat \ {0}

NoSink == "no sink"
NoDecoders == <<>>

WebRtcVoiceMediaChannel ==
  [recv_streams_ |-> <<>>, send_streams_ |-> <<>>, unsignaled_recv_ssrcs_ |-> <<>>,
   unsignaled_group |-> "none",       \* unsignaled_stream_params_
   default_sink_ |-> NoSink, default_recv_volume_ |-> 1, default_recv_base_minimum_delay_ms_ |-> 0,
   recv_codecs_ |-> <<>>, decoder_map_ |-> NoDecoders,
   receiver_reports_ssrc_ |-> DefaultReportSsrc,
   playout_ |-> FALSE, send_ |-> FALSE, inserted |-> <<>>, ok |-> TRUE]

Ok(vc, b) == [vc EXCEPT !.ok = b]
First(sp) == Head(sp.ssrcs)
Without(f, x) == [y \in DOMAIN f \ {x} |-> f[y]]
EachStream(vc, Op(_)) == [vc EXCEPT !.recv_streams_ = [s \in DOMAIN @ |-> Op(@[s])]]
Unsignalled(vc) == Range(vc.unsignaled_recv_ssrcs_)

-----------------------------------------------------------------------------
\* AudioReceiveStream and ChannelReceive.  payload_type_frequencies_ only grows.
SetReceiveCodecs(stream, map) ==
  [stream EXCEPT !.decoders = map, !.frequencies = @ \cup DOMAIN map]

StartPlayout(stream) == [stream EXCEPT !.playing = TRUE]
StopPlayout(stream) == [stream EXCEPT !.playing = FALSE]

SetPlayoutOf(stream, playout) == IF playout THEN StartPlayout(stream) ELSE StopPlayout(stream)

AudioReceiveStream(vc, group) ==
  SetReceiveCodecs([sync_group |-> group, local_ssrc |-> vc.receiver_reports_ssrc_,
                    decoders |-> NoDecoders, frequencies |-> {}, playing |-> FALSE,
                    sink |-> NoSink, gain |-> 1, delay |-> 0,
                    promoted |-> FALSE], vc.decoder_map_)   \* promoted is a history

\* AcmReceiver wants a decoder for the audio, which is inside if the packet is RED.
InsertPacket(stream, packet) ==
  LET red == packet.pt \in DOMAIN stream.decoders /\ stream.decoders[packet.pt].name = "red"
  IN  (IF red THEN packet.inner ELSE packet.pt) \in DOMAIN stream.decoders

\* What comes while the stream does not play is lost.
OnReceivedPayloadData(stream, packet) == stream.playing /\ InsertPacket(stream, packet)

\* ChannelReceive drops a payload type that it never saw in a map.
OnRtpPacket(stream, packet) ==
  packet.pt \in stream.frequencies /\ OnReceivedPayloadData(stream, packet)

DeliverPacket(vc, packet) ==
  IF packet.ssrc \in DOMAIN vc.recv_streams_ /\ OnRtpPacket(vc.recv_streams_[packet.ssrc], packet)
  THEN [vc EXCEPT !.inserted = Append(@, packet.id)] ELSE vc

-----------------------------------------------------------------------------
SetPlayout(vc, playout) ==
  IF playout = vc.playout_ THEN vc
  ELSE [EachStream(vc, LAMBDA r : SetPlayoutOf(r, playout)) EXCEPT !.playout_ = playout]

\* WebRtcAudioSendStream: the stream in Call runs when it has a source and is to send.
UpdateSendState(t) == [t EXCEPT !.started = t.send_ /\ t.source_]
SetSendOf(t, send) == UpdateSendState([t EXCEPT !.send_ = send])
SetSource(t) == IF t.source_ THEN t ELSE UpdateSendState([t EXCEPT !.source_ = TRUE])
ClearSource(t) == UpdateSendState([t EXCEPT !.source_ = FALSE])
SetMuted(t, muted) == [t EXCEPT !.muted_ = muted]

SetSend(vc, send) ==
  IF send = vc.send_ THEN vc
  ELSE [vc EXCEPT !.send_ = send,
                  !.send_streams_ = [s \in DOMAIN @ |-> SetSendOf(@[s], send)]]

VerifyUniquePayloadTypes(codecs) ==
  \A i, j \in DOMAIN codecs : i # j => codecs[i].id # codecs[j].id

Format(codec) == [name |-> codec.name, params |-> codec.params]

\* The payload type is free, or already used for this codec.
MayUse(map, codec) == codec.id \in DOMAIN map => map[codec.id].name = codec.name

SetDecoderMap(vc) == EachStream(vc, LAMBDA r : SetReceiveCodecs(r, vc.decoder_map_))

\* Playout is paused while the codecs change.
SetRecvCodecs(vc, codecs) ==
  LET map == [id \in {codecs[i].id : i \in DOMAIN codecs} |->
                Format(codecs[CHOOSE i \in DOMAIN codecs : codecs[i].id = id])]
      set == SetDecoderMap([SetPlayout(vc, FALSE) EXCEPT !.decoder_map_ = map, !.recv_codecs_ = codecs])
  IN  CASE ~VerifyUniquePayloadTypes(codecs) -> Ok(vc, FALSE)
        [] VerifyUniquePayloadTypes(codecs)
             /\ \E i \in DOMAIN codecs : ~MayUse(vc.decoder_map_, codecs[i]) -> Ok(vc, FALSE)
        [] OTHER -> IF map = vc.decoder_map_ THEN Ok(vc, TRUE)
                    ELSE Ok(SetPlayout(set, vc.playout_), TRUE)

\* One codec of an answer.  std::map::insert: a parameter that is there keeps its value.
UpdateRecvCodec(vc, codec) ==
  LET same   == {i \in DOMAIN vc.recv_codecs_ : vc.recv_codecs_[i].name = codec.name}
      codecs == IF same = {} THEN Append(vc.recv_codecs_, codec)
                ELSE [i \in DOMAIN vc.recv_codecs_ |->
                        IF i \in same
                        THEN [vc.recv_codecs_[i] EXCEPT !.params = @ @@ codec.params]
                        ELSE vc.recv_codecs_[i]]
      map    == IF codec.id \in DOMAIN vc.decoder_map_
                THEN [vc.decoder_map_ EXCEPT ![codec.id].params = @ @@ codec.params]
                ELSE vc.decoder_map_ @@ (codec.id :> Format(codec))
      listed == [vc EXCEPT !.recv_codecs_ = codecs]
  IN  CASE ~vc.ok -> vc
        [] vc.ok /\ ~MayUse(vc.decoder_map_, codec) -> Ok(listed, FALSE)
        [] OTHER -> [listed EXCEPT !.decoder_map_ = map]

\* A codec that is refused leaves those before it in the channel, not in its streams.
UpdateRecvCodecs(vc, codecs) ==
  LET updated == FoldLeft(UpdateRecvCodec, Ok(vc, TRUE), codecs)
  IN  IF ~VerifyUniquePayloadTypes(codecs) THEN Ok(vc, FALSE)
      ELSE IF updated.ok THEN SetDecoderMap(updated) ELSE updated

SetRecvParameters(vc, codecs, update) ==
  IF update THEN UpdateRecvCodecs(vc, codecs) ELSE SetRecvCodecs(vc, codecs)

-----------------------------------------------------------------------------
NewSendStream(vc) == SetSendOf([send_ |-> FALSE, source_ |-> FALSE, muted_ |-> FALSE, started |-> FALSE], vc.send_)

\* Mutant: the receive streams keep the SSRC of their reports.
AddSendStreamSilently(vc, sp) ==
  LET s     == First(sp)
      added == [vc EXCEPT !.send_streams_ = @ @@ (s :> NewSendStream(vc))]
  IN  CASE s \in DOMAIN vc.send_streams_ -> Ok(vc, FALSE)
        [] OTHER -> Ok([added EXCEPT !.receiver_reports_ssrc_ =
                          IF vc.send_streams_ = <<>> THEN s ELSE @], TRUE)

\* The first send stream gives its SSRC to the receiver reports.
AddSendStream(vc, sp) ==
  LET s     == First(sp)
      added == [vc EXCEPT !.send_streams_ = @ @@ (s :> NewSendStream(vc))]
  IN  CASE s \in DOMAIN vc.send_streams_ -> Ok(vc, FALSE)
        [] s \notin DOMAIN vc.send_streams_ /\ DOMAIN vc.send_streams_ # {} -> Ok(added, TRUE)
        [] OTHER -> Ok([EachStream(added, LAMBDA r : [r EXCEPT !.local_ssrc = s])
                          EXCEPT !.receiver_reports_ssrc_ = s], TRUE)

\* The receiver reports keep the SSRC of a stream that goes.
RemoveSendStream(vc, ssrc) ==
  LET left == [vc EXCEPT !.send_streams_ = Without(@, ssrc)]
  IN  CASE ssrc \notin DOMAIN vc.send_streams_ -> Ok(vc, FALSE)
        [] OTHER -> Ok(IF DOMAIN left.send_streams_ = {} THEN SetSend(left, FALSE) ELSE left, TRUE)

\* No source for a stream that is not there is no error.
SetLocalSource(vc, ssrc, source) ==
  IF ssrc \in DOMAIN vc.send_streams_
  THEN Ok([vc EXCEPT !.send_streams_[ssrc] = IF source THEN SetSource(@) ELSE ClearSource(@)], TRUE)
  ELSE Ok(vc, ~source)

MuteStream(vc, ssrc, muted) ==
  IF ssrc \in DOMAIN vc.send_streams_
  THEN Ok([vc EXCEPT !.send_streams_[ssrc] = SetMuted(@, muted)], TRUE) ELSE Ok(vc, FALSE)

\* What was set stays set when a later part fails.
SetAudioSend(vc, ssrc, enable, source) ==
  LET set == SetLocalSource(vc, ssrc, source)
  IN  IF set.ok THEN MuteStream(set, ssrc, ~enable) ELSE set

-----------------------------------------------------------------------------
MaybeDeregisterUnsignaledRecvStream(vc, ssrc) ==
  [vc EXCEPT !.unsignaled_recv_ssrcs_ = SelectSeq(@, LAMBDA s : s # ssrc)]

ValidateStreamParams(sp) == Len(sp.ssrcs) = 1

\* A stream that was made for a packet is promoted; only its sync group changes, it
\* keeps its sink.
AddRecvStream(vc, sp) ==
  LET s == First(sp)
  IN  CASE sp.ssrcs = <<>> -> Ok([vc EXCEPT !.unsignaled_group = sp.group], TRUE)
        [] sp.ssrcs # <<>> /\ ~ValidateStreamParams(sp) -> Ok(vc, FALSE)
        [] ValidateStreamParams(sp) /\ s \in Unsignalled(vc) ->
             Ok([MaybeDeregisterUnsignaledRecvStream(vc, s)
                   EXCEPT !.recv_streams_[s].sync_group = sp.group,
                          !.recv_streams_[s].promoted = TRUE], TRUE)
        [] ValidateStreamParams(sp) /\ s \in DOMAIN vc.recv_streams_ \ Unsignalled(vc) -> Ok(vc, FALSE)
        [] OTHER ->
             Ok([vc EXCEPT !.recv_streams_ =
                   @ @@ (s :> SetPlayoutOf(AudioReceiveStream(vc, sp.group), vc.playout_))], TRUE)

RemoveRecvStream(vc, ssrc) ==
  IF ssrc \notin DOMAIN vc.recv_streams_ THEN Ok(vc, FALSE)
  ELSE Ok([MaybeDeregisterUnsignaledRecvStream(vc, ssrc) EXCEPT !.recv_streams_ = Without(@, ssrc)], TRUE)

ResetUnsignaledRecvStream(vc) ==
  FoldLeft(RemoveRecvStream, [vc EXCEPT !.unsignaled_group = "none"], vc.unsignaled_recv_ssrcs_)

SetOnStreams(vc, ssrcs, Op(_)) ==
  [vc EXCEPT !.recv_streams_ = [s \in DOMAIN @ |-> IF s \in ssrcs THEN Op(@[s]) ELSE @[s]]]

SetOutputVolume(vc, ssrcs, volume) ==
  SetOnStreams(vc, ssrcs, LAMBDA r : [r EXCEPT !.gain = volume])

SetDefaultOutputVolume(vc, volume) ==
  SetOutputVolume([vc EXCEPT !.default_recv_volume_ = volume], Unsignalled(vc), volume)

\* SSRC 0 stands for the streams that are not signalled, now or later.
SetBaseMinimumPlayoutDelayMs(vc, ssrc, delay) ==
  LET set == IF ssrc = 0 THEN [vc EXCEPT !.default_recv_base_minimum_delay_ms_ = delay] ELSE vc
  IN  SetOnStreams(set, IF ssrc = 0 THEN Unsignalled(vc) ELSE {ssrc},
                   LAMBDA r : [r EXCEPT !.delay = delay])

SetRawAudioSink(vc, ssrcs, sink) ==
  SetOnStreams(vc, ssrcs, LAMBDA r : [r EXCEPT !.sink = sink])

\* The sink there was is destroyed.
SetDefaultRawAudioSink(vc, sink) ==
  [SetRawAudioSink(vc, IF Unsignalled(vc) = {} THEN {} ELSE {Last(vc.unsignaled_recv_ssrcs_)}, sink)
     EXCEPT !.default_sink_ = sink]

\* Mutant: the streams before the new one keep the default sink.
TakeDefaultSinkToo(vc, ssrc) ==
  IF vc.default_sink_ = NoSink THEN vc ELSE SetRawAudioSink(vc, {ssrc}, vc.default_sink_)

TakeDefaultSink(vc, ssrc) ==
  IF vc.default_sink_ = NoSink THEN vc
  ELSE SetRawAudioSink(SetRawAudioSink(vc, Unsignalled(vc), NoSink), {ssrc}, vc.default_sink_)

\* The stream made for a packet, at the price of the oldest such stream.
AddUnsignalled(vc, ssrc) ==
  LET added  == AddRecvStream(vc, [ssrcs |-> <<ssrc>>, group |-> vc.unsignaled_group])
      listed == [added EXCEPT !.unsignaled_recv_ssrcs_ = Append(@, ssrc)]
      room   == IF Len(listed.unsignaled_recv_ssrcs_) <= MaxUnsignaled THEN listed
                ELSE RemoveRecvStream(listed, Head(listed.unsignaled_recv_ssrcs_))
      loud   == SetOutputVolume(room, {ssrc}, vc.default_recv_volume_)
      late   == SetBaseMinimumPlayoutDelayMs(loud, ssrc, vc.default_recv_base_minimum_delay_ms_)
  IN  TakeDefaultSink(late, ssrc)

\* Mutant: the packet the stream was made for is not given to it.
OnPacketReceivedOnce(vc, packet) ==
  IF packet.ssrc \in DOMAIN vc.recv_streams_ THEN DeliverPacket(vc, packet)
  ELSE AddUnsignalled(vc, packet.ssrc)

OnPacketReceived(vc, packet) ==
  DeliverPacket(IF packet.ssrc \in DOMAIN vc.recv_streams_ THEN vc
                ELSE AddUnsignalled(vc, packet.ssrc), packet)

\* ~WebRtcVoiceMediaChannel
Destroyed(vc) ==
  FoldLeft(RemoveRecvStream,
           FoldLeft(RemoveSendStream, vc, SetToSeq(DOMAIN vc.send_streams_)),
           SetToSeq(DOMAIN vc.recv_streams_))
=============================================================================
