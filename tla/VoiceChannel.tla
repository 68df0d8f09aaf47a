---------------------------- MODULE VoiceChannel ----------------------------
(***************************************************************************)
(* The audio section of the session: VoiceChannel (pc/channel.cc) with     *)
(* WebRtcVoiceMediaChannel, as descriptions are negotiated and             *)
(* renegotiated while packets arrive.                                      *)
(*                                                                         *)
(* The signaling thread posts its calls to the worker and, but for Enable, *)
(* waits; the network thread posts packets and the first writable state.   *)
(* A task of the worker is one step: what it invokes on the network thread *)
(* only changes what is posted after it (VideoChannel has these steps      *)
(* apart), and this media channel ignores word of a change under way.      *)
(* The registration of the demuxer sink may fail.                          *)
(***************************************************************************)
EXTENDS VoiceMediaChannel

CONSTANTS LocalContents, RemoteContents, \* session descriptions of this section
          Ssrcs, Payloads,               \* of the packets of the sender
          Media,                         \* what the other calls set: see MediaCall
          MaxDescriptions, MaxCalls, MaxPackets, MaxTasks  \* bounds

VARIABLES
  tasks,            \* posted to the worker
  caller,           \* the signaling thread: "free" or "waits"
  calls,            \* how many calls it has made, but for descriptions
  descriptions,     \* how many descriptions it has set
  sdp,              \* "stable", "local-offer", "remote-offer", "closed"
  enabled_s_,
  \* worker
  vc, enabled_, local_direction, remote_direction, was_ever_writable_,
  local_streams_, remote_streams_,
  payload_type_demuxing_enabled_, payload_types_,
  criteria,         \* demuxer_criteria_: mid, ssrcs and pts, payload types
  refused,          \* a description has been refused
  answered,         \* codecs of the remote answer that was applied last, <<>> otherwise
  \* network
  sink,             \* criteria of this channel in the demuxer, NoCriteria when it has none
  was_ever_writable_n_,
  sent              \* how many packets have come

signaling == <<caller, calls, descriptions, sdp, enabled_s_>>
media == <<enabled_, local_direction, remote_direction, was_ever_writable_>>
streams == <<local_streams_, remote_streams_>>
demuxing == <<payload_type_demuxing_enabled_, payload_types_, criteria, sink>>
outcome == <<refused, answered>>
network == <<was_ever_writable_n_, sent>>
vars == <<tasks, signaling, vc, media, streams, demuxing, outcome, network>>

NoCriteria == [mid |-> FALSE, ssrcs |-> {}, pts |-> {}]
Inactive == [send |-> FALSE, recv |-> FALSE]

Init ==
  /\ tasks = <<>> /\ caller = "free" /\ calls = 0 /\ descriptions = 0
  /\ sdp = "stable" /\ enabled_s_ = FALSE
  /\ vc = WebRtcVoiceMediaChannel
  /\ enabled_ = FALSE /\ local_direction = Inactive /\ remote_direction = Inactive
  /\ was_ever_writable_ = FALSE /\ local_streams_ = <<>> /\ remote_streams_ = <<>>
  /\ payload_type_demuxing_enabled_ = TRUE /\ payload_types_ = {}
  /\ criteria = [NoCriteria EXCEPT !.mid = TRUE] /\ sink = criteria
  /\ refused = FALSE /\ answered = <<>>
  /\ was_ever_writable_n_ = FALSE /\ sent = 0

-----------------------------------------------------------------------------
\* The signaling thread.
Post(task) == tasks' = Append(tasks, task)

Call(task) ==
  /\ caller = "free" /\ sdp # "closed"
  /\ Post(task) /\ caller' = "waits"
  /\ UNCHANGED <<enabled_s_, vc, media, streams, demuxing, outcome, network>>

\* Bound: none follows one that was refused.
Describe(task) ==
  /\ ~refused /\ descriptions < MaxDescriptions /\ descriptions' = descriptions + 1
  /\ Call(task) /\ UNCHANGED calls

CallSetLocalContent ==
  /\ sdp \in {"stable", "remote-offer"}
  /\ \E c \in LocalContents : Describe([do |-> "local", content |-> c])
  /\ sdp' = IF sdp = "stable" THEN "local-offer" ELSE "stable"

CallSetRemoteContent ==
  /\ sdp \in {"stable", "local-offer"}
  /\ \E c \in RemoteContents :
       Describe([do |-> "remote", content |-> c, answer |-> sdp = "local-offer"])
  /\ sdp' = IF sdp = "stable" THEN "remote-offer" ELSE "stable"

CallMedia ==
  /\ calls < MaxCalls /\ calls' = calls + 1
  /\ \E m \in Media : Call([do |-> "media", call |-> m])
  /\ UNCHANGED <<descriptions, sdp>>

CallSetPayloadTypeDemuxingEnabled ==
  /\ calls < MaxCalls /\ calls' = calls + 1
  /\ \E b \in BOOLEAN : Call([do |-> "demuxing", to |-> b])
  /\ UNCHANGED <<descriptions, sdp>>

CallClose == Call([do |-> "close"]) /\ sdp' = "closed" /\ UNCHANGED <<calls, descriptions>>

Enable ==
  /\ caller = "free" /\ sdp # "closed"
  /\ calls < MaxCalls /\ calls' = calls + 1
  /\ enabled_s_' = ~enabled_s_
  /\ Post([do |-> "enable", to |-> ~enabled_s_])
  /\ UNCHANGED <<caller, descriptions, sdp, vc, media, streams, demuxing, outcome, network>>

-----------------------------------------------------------------------------
\* The worker.
Start(task) == tasks # <<>> /\ Head(tasks).do = task /\ tasks' = Tail(tasks)
Return == caller' = "free" /\ UNCHANGED <<calls, descriptions, sdp, enabled_s_>>

HasNoSsrcs(sps) == \E i \in DOMAIN sps : sps[i].ssrcs = <<>>
Known(sps, sp) == sp.ssrcs # <<>> /\ \E i \in DOMAIN sps : First(sp) \in Range(sps[i].ssrcs)
AllSsrcs(sps) == UNION {Range(sps[i].ssrcs) : i \in DOMAIN sps}

IsReadyToReceiveMedia_w == enabled_ /\ local_direction.recv
IsReadyToSendMedia_w == enabled_ /\ remote_direction.recv /\ local_direction.send /\ was_ever_writable_

\* Mutant: what it needs is looked at before it changes.
UpdateMediaSendRecvStateEarly(c) ==
  vc' = SetSend(SetPlayout(c, IsReadyToReceiveMedia_w), IsReadyToSendMedia_w)

UpdateMediaSendRecvState_w(c) ==
  vc' = SetSend(SetPlayout(c, IsReadyToReceiveMedia_w'), IsReadyToSendMedia_w')

\* RegisterRtpDemuxerSink_w: what the demuxer has afterwards, and whether it could be done.
Registered(crit, before, ok) == IF crit = before \/ ok THEN crit ELSE NoCriteria
CanRegister(crit, before, ok) == crit = before => ok

\* UpdateLocalStreams_w; the parameters of a stream that exists do not change.
UpdateLocalStreams(c, sps) ==
  LET gone == SelectSeq(local_streams_, LAMBDA sp : sp.ssrcs # <<>> /\ ~Known(sps, sp))
      new  == SelectSeq(sps, LAMBDA sp : sp.ssrcs # <<>> /\ ~Known(local_streams_, sp))
      Do(acc, r) == Ok(r, acc.ok /\ r.ok)
  IN  FoldLeft(LAMBDA acc, sp : Do(acc, AddSendStream(acc, sp)),
               FoldLeft(LAMBDA acc, sp : Do(acc, RemoveSendStream(acc, First(sp))), Ok(c, TRUE), gone),
               new)

\* UpdateRemoteStreams_w but for its registration.
UpdateRemoteStreams(c, sps) ==
  LET Do(acc, r) == Ok(r, acc.ok /\ r.ok)
      Drop(acc, old) ==
        CASE old.ssrcs = <<>> /\ ~HasNoSsrcs(sps) -> Do(acc, Ok(ResetUnsignaledRecvStream(acc), TRUE))
          [] old.ssrcs # <<>> /\ ~Known(sps, old) -> Do(acc, RemoveRecvStream(acc, First(old)))
          [] OTHER -> acc
      Take(acc, new) == IF Known(remote_streams_, new) THEN acc ELSE Do(acc, AddRecvStream(acc, new))
  IN  FoldLeft(Take, FoldLeft(Drop, Ok(c, TRUE), remote_streams_), sps)

SetLocalContent_w ==
  /\ Start("local") /\ Return
  /\ \E ok \in BOOLEAN :
       LET c     == Head(tasks).content
           recv  == SetRecvParameters(vc, c.codecs, FALSE)
           pts   == {c.codecs[i].id : i \in DOMAIN c.codecs}
           asked == recv.ok /\ c.direction.recv
           crit  == [criteria EXCEPT !.pts = IF asked /\ payload_type_demuxing_enabled_ THEN @ \cup pts ELSE @]
           set   == UpdateLocalStreams(recv, c.streams)
           taken == recv.ok /\ ok
       IN  /\ CanRegister(IF asked THEN crit ELSE sink, sink, ok)
           /\ payload_types_' = IF asked THEN payload_types_ \cup pts ELSE payload_types_
           /\ criteria' = crit
           /\ sink' = IF asked THEN Registered(crit, sink, ok) ELSE sink
           /\ local_streams_' = IF taken THEN c.streams ELSE local_streams_
           /\ refused' = (refused \/ ~taken \/ ~set.ok)
           /\ answered' = <<>>
           /\ local_direction' = IF taken /\ set.ok THEN c.direction ELSE local_direction
           /\ UNCHANGED <<enabled_, remote_direction, was_ever_writable_>>
           /\ CASE ~taken -> vc' = recv
                [] taken /\ ~set.ok -> vc' = set
                [] OTHER -> UpdateMediaSendRecvState_w(set)
  /\ UNCHANGED <<remote_streams_, payload_type_demuxing_enabled_, network>>

\* An answer of a side that sends AAC-LATM brings the parameters of the decoders.
SetRemoteContent_w ==
  /\ Start("remote") /\ Return
  /\ \E ok, ok2 \in BOOLEAN :
       LET c     == Head(tasks).content
           latm  == \E i \in DOMAIN c.codecs : c.codecs[i].name = "latm"
           recv  == IF Head(tasks).answer /\ c.direction.send /\ latm
                    THEN SetRecvParameters(vc, c.codecs, TRUE) ELSE Ok(vc, TRUE)
           none  == recv.ok /\ ~c.direction.send
           crit  == [criteria EXCEPT !.pts = IF none THEN {} ELSE @]
           first == IF none THEN Registered(crit, sink, ok) ELSE sink
           went  == recv.ok /\ ok
           set   == UpdateRemoteStreams(recv, c.streams)
           crit2 == [crit EXCEPT !.ssrcs = AllSsrcs(c.streams)]
           taken == went /\ set.ok /\ ok2
       IN  /\ CanRegister(IF none THEN crit ELSE sink, sink, ok)
           /\ CanRegister(IF went THEN crit2 ELSE first, first, ok2)
           /\ payload_types_' = IF none THEN {} ELSE payload_types_
           /\ criteria' = IF went THEN crit2 ELSE crit
           /\ sink' = IF went THEN Registered(crit2, first, ok2) ELSE first
           /\ remote_streams_' = IF went THEN c.streams ELSE remote_streams_
           /\ refused' = (refused \/ ~taken)
           /\ answered' = IF taken /\ Head(tasks).answer /\ c.direction.send /\ latm THEN c.codecs ELSE <<>>
           /\ remote_direction' = IF taken THEN c.direction ELSE remote_direction
           /\ UNCHANGED <<enabled_, local_direction, was_ever_writable_>>
           /\ CASE ~went -> vc' = recv
                [] went /\ ~taken -> vc' = set
                [] OTHER -> UpdateMediaSendRecvState_w(set)
  /\ UNCHANGED <<local_streams_, payload_type_demuxing_enabled_, network>>

SetPayloadTypeDemuxingEnabled_w ==
  /\ Start("demuxing") /\ Return
  /\ \E ok \in BOOLEAN :
       LET to    == Head(tasks).to
           new   == to # payload_type_demuxing_enabled_
           crit  == [criteria EXCEPT !.pts = IF ~new THEN @ ELSE IF to THEN @ \cup payload_types_ ELSE {}]
           asked == new /\ (to => payload_types_ # {})
       IN  /\ CanRegister(IF asked THEN crit ELSE sink, sink, ok)
           /\ payload_type_demuxing_enabled_' = to
           /\ criteria' = crit
           /\ sink' = IF asked THEN Registered(crit, sink, ok) ELSE sink
           /\ vc' = IF new /\ ~to THEN ResetUnsignaledRecvStream(vc) ELSE vc
  /\ UNCHANGED <<media, streams, payload_types_, outcome, network>>

MediaCall ==
  /\ Start("media") /\ Return
  /\ LET m == Head(tasks).call
     IN  vc' = CASE m.set = "sink"   -> SetDefaultRawAudioSink(vc, m.to)
                 [] m.set = "volume" -> SetDefaultOutputVolume(vc, m.to)
                 [] m.set = "delay"  -> SetBaseMinimumPlayoutDelayMs(vc, 0, m.to)
                 [] m.set = "send"   -> SetAudioSend(vc, m.ssrc, m.to, m.to)
  /\ UNCHANGED <<media, streams, demuxing, outcome, network>>

EnableMedia_w ==
  /\ Start("enable")
  /\ enabled_' = Head(tasks).to
  /\ UNCHANGED <<local_direction, remote_direction, was_ever_writable_>>
  /\ UpdateMediaSendRecvState_w(vc)
  /\ UNCHANGED <<signaling, streams, demuxing, outcome, network>>

FirstWritable ==
  /\ Start("writable")
  /\ was_ever_writable_' = TRUE
  /\ UNCHANGED <<local_direction, remote_direction, enabled_>>
  /\ UpdateMediaSendRecvState_w(vc)
  /\ UNCHANGED <<signaling, streams, demuxing, outcome, network>>

ReceivePacket ==
  /\ Start("packet")
  /\ vc' = OnPacketReceived(vc, Head(tasks).packet)
  /\ UNCHANGED <<signaling, media, streams, demuxing, outcome, network>>

\* ~VoiceChannel: what was posted before and not run is dropped.
Close ==
  /\ Start("close") /\ Return
  /\ enabled_' = FALSE
  /\ sink' = NoCriteria
  /\ vc' = [Destroyed(SetSend(SetPlayout(vc, FALSE), FALSE)) EXCEPT !.ok = TRUE]
  /\ UNCHANGED <<local_direction, remote_direction, was_ever_writable_, streams,
                 payload_type_demuxing_enabled_, payload_types_, criteria, outcome, network>>

-----------------------------------------------------------------------------
\* The network thread.
Routed(packet) == packet.ssrc \in sink.ssrcs \/ packet.pt \in sink.pts

DemuxPacket ==
  /\ sent < MaxPackets /\ Len(tasks) < MaxTasks
  /\ \E s \in Ssrcs, p \in Payloads :
       LET packet == [ssrc |-> s, id |-> sent + 1, pt |-> p.pt, inner |-> p.inner]
       IN  Routed(packet) /\ Post([do |-> "packet", packet |-> packet])
  /\ sent' = sent + 1
  /\ UNCHANGED <<signaling, vc, media, streams, demuxing, outcome, was_ever_writable_n_>>

Writable ==
  /\ sdp # "closed" /\ ~was_ever_writable_n_
  /\ was_ever_writable_n_' = TRUE
  /\ Post([do |-> "writable"])
  /\ UNCHANGED <<signaling, vc, media, streams, demuxing, outcome, sent>>

-----------------------------------------------------------------------------
Signaling == \/ CallSetLocalContent \/ CallSetRemoteContent \/ CallMedia
             \/ CallSetPayloadTypeDemuxingEnabled \/ CallClose \/ Enable
Worker == \/ SetLocalContent_w \/ SetRemoteContent_w \/ SetPayloadTypeDemuxingEnabled_w
          \/ MediaCall \/ EnableMedia_w \/ FirstWritable \/ ReceivePacket \/ Close
Network == DemuxPacket \/ Writable

Next == Signaling \/ Worker \/ Network

Spec == Init /\ [][Next]_vars
-----------------------------------------------------------------------------
TypeOK ==
  /\ caller \in {"free", "waits"} /\ calls \in 0..MaxCalls
  /\ descriptions \in 0..MaxDescriptions /\ sent \in 0..MaxPackets
  /\ sdp \in {"stable", "local-offer", "remote-offer", "closed"}
  /\ {enabled_s_, enabled_, was_ever_writable_, was_ever_writable_n_, refused,
      payload_type_demuxing_enabled_, vc.playout_, vc.send_} \subseteq BOOLEAN
  /\ criteria.pts \subseteq payload_types_
  /\ Unsignalled(vc) \subseteq DOMAIN vc.recv_streams_
  /\ DOMAIN vc.send_streams_ \subseteq Nat
  /\ \A s \in DOMAIN vc.recv_streams_ : DOMAIN vc.recv_streams_[s].decoders \subseteq
                                          vc.recv_streams_[s].frequencies

\* The streams that are not signalled are listed once and are never more than the limit;
\* unless a description was refused, the others are those of the last description
\* (webrtc_voice_engine.cc:2284).
UnsignalledApart ==
  /\ IsInjective(vc.unsignaled_recv_ssrcs_) /\ Len(vc.unsignaled_recv_ssrcs_) <= MaxUnsignaled
  /\ (~refused /\ sdp # "closed") =>
       DOMAIN vc.recv_streams_ \ Unsignalled(vc) = AllSsrcs(remote_streams_)

\* "Only one stream at a time will use the sink" (webrtc_voice_engine.h:221-222).  Of the
\* streams that are not signalled it is so: at most the newest has a sink, the present
\* one.  A stream that a description makes has none.  But one that a description promotes
\* (webrtc_voice_engine.cc:2052-2058) keeps the sink it had, next to the newest stream
\* and also when that sink has been replaced: the comment does not hold of it.
DefaultSinkOnce ==
  \A s \in DOMAIN vc.recv_streams_ : LET r == vc.recv_streams_[s]
    IN  r.sink # NoSink =>
          \/ r.promoted
          \/ s \in Unsignalled(vc) /\ s = Last(vc.unsignaled_recv_ssrcs_) /\ r.sink = vc.default_sink_

\* The types, the streams apart, and who uses the default sink.
VoiceInv == TypeOK /\ UnsignalledApart /\ DefaultSinkOnce

\* Every stream, whenever and however it was made, plays when the channel does, sends
\* its reports from the SSRC of the channel and has its decoders (unless a description
\* was refused half way); one that is not signalled has the volume and the delay that
\* were set for such streams.  A stream that is sent runs when the channel sends and it
\* has a source, whichever came first.
StreamsFollowChannel ==
  /\ \A s \in DOMAIN vc.recv_streams_ :
       LET r == vc.recv_streams_[s]
       IN  /\ r.playing = vc.playout_ /\ r.local_ssrc = vc.receiver_reports_ssrc_
           /\ ~refused => r.decoders = vc.decoder_map_
           /\ s \in Unsignalled(vc) => /\ r.gain = vc.default_recv_volume_
                                       /\ r.delay = vc.default_recv_base_minimum_delay_ms_
  /\ \A s \in DOMAIN vc.send_streams_ :
       LET t == vc.send_streams_[s]
       IN  t.send_ = vc.send_ /\ t.started = (vc.send_ /\ t.source_)

\* Between two tasks the channel plays and sends exactly when it is enabled and the two
\* directions allow it: the pause around a change of codecs, and the stop when the last
\* send stream goes, do not outlive the task that made them.
PlaysWhenReady ==
  ~refused => vc.playout_ = IsReadyToReceiveMedia_w /\ vc.send_ = IsReadyToSendMedia_w

\* While an answer with AAC-LATM is in force, the decoders of every stream have what it
\* says, but for a parameter the offer had given (channel.cc:931).
AnswerInForce ==
  ~refused =>
    \A i \in DOMAIN answered : LET c == answered[i]
      IN  \A map \in {vc.decoder_map_} \cup {vc.recv_streams_[s].decoders : s \in DOMAIN vc.recv_streams_} :
            c.id \in DOMAIN map /\ DOMAIN c.params \subseteq DOMAIN map[c.id].params

\* Between two tasks the negotiation has its effect.
PlaysAsAnswered == PlaysWhenReady /\ AnswerInForce

\* While an answer is in force and the channel plays, a packet with a payload type of the
\* answer is heard, on whatever SSRC it comes, RED included when the audio in it has one.
NegotiatedIsInserted ==
  [][LET p == Head(tasks).packet
         negotiated == {answered[i].id : i \in DOMAIN answered}
     IN  (ReceivePacket /\ vc.playout_ /\ ~refused /\ {p.pt, p.inner} \subseteq negotiated)
         => vc'.inserted = Append(vc.inserted, p.id)]_vars
=============================================================================
