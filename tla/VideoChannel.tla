---------------------------- MODULE VideoChannel ----------------------------
(***************************************************************************)
(* The video section of the session: VideoChannel (pc/channel.cc) between  *)
(* RtpTransport (pc/rtp_transport.cc) and WebRtcVideoChannel.              *)
(*                                                                         *)
(*   - The signaling thread applies session descriptions and other calls:  *)
(*     it posts them to the worker and, but for Enable, waits.             *)
(*   - The worker runs its tasks in order.  To change what the transport   *)
(*     gives to the channel it invokes the network thread and waits.       *)
(*   - The network thread gives packets to the sinks whose criteria match, *)
(*     keeps those that no sink wants, and posts to the worker.            *)
(*                                                                         *)
(* The other media section is a second sink of the transport.  Packet n of *)
(* the sender has the SSRC sent[n].                                        *)
(***************************************************************************)
EXTENDS VideoMediaChannel

CONSTANTS VideoSsrcs, OtherSsrc,  \* what the sender sends on
          RtxSsrcs,               \* those it uses for retransmissions
          LocalContents, RemoteContents, \* session descriptions of this section
          BufferUnknown,          \* field trial WebRTC-Video-BufferPacketsWithUnknownSsrc
          MaxPackets, MaxCalls, MaxInputs \* bounds: of each, and of both together

\* Descriptions hold the parameters of streams.
StreamParams == [ssrcs : Seq(Int), rtx : SUBSET Int]

ASSUME ContentAssumption ==
  \A c \in LocalContents \cup RemoteContents : c.streams \in Seq(StreamParams)

VARIABLES
  tasks,            \* posted to the worker
  wpc,              \* the worker: at "idle", "register" (it waits), "run" (then) or "closed"
  caller,           \* the signaling thread: "free" or "waits"
  calls,            \* how many calls it has made
  sdp,              \* signaling state: "stable", "local-offer", "remote-offer", "closed"
  enabled_s_,
  \* worker
  ch, enabled_, local_direction, remote_direction, was_ever_writable_,
  local_streams_, remote_streams_, payload_type_demuxing_enabled_,
  payload_types_,   \* whether there are any
  criteria,         \* demuxer_criteria_: ssrcs, and whether payload types are among them
  \* network
  previous,         \* previous_demuxer_criteria_, NoCriteria after a failure
  sink,             \* criteria of this channel in the demuxer, NoCriteria when it has none
  other_sink,       \* the other section is registered
  was_ever_writable_n_,
  stash,            \* unhander_packets_
  sent              \* SSRCs of the packets the transport has received

signaling == <<caller, calls, sdp, enabled_s_>>
section == <<enabled_, local_direction, remote_direction, was_ever_writable_,
             local_streams_, remote_streams_, payload_type_demuxing_enabled_, payload_types_>>
network == <<sink, other_sink, was_ever_writable_n_, stash, sent>>
vars == <<tasks, wpc, signaling, ch, section, criteria, previous, network>>

\* Criteria name the section (mid) always; NoCriteria is what a sink that is out has.
NoCriteria == [mid |-> FALSE, ssrcs |-> {}, pts |-> FALSE]
OnlyMid == [NoCriteria EXCEPT !.mid = TRUE]
Inactive == [send |-> FALSE, recv |-> FALSE]

Idle == [at |-> "idle"]

Packet(n) == [ssrc |-> sent[n], id |-> n, rtx |-> sent[n] \in RtxSsrcs]

Init ==
  /\ tasks = <<>> /\ wpc = Idle
  /\ caller = "free" /\ calls = 0 /\ sdp = "stable" /\ enabled_s_ = FALSE
  /\ ch = WebRtcVideoChannel(BufferUnknown)
  /\ enabled_ = FALSE /\ local_direction = Inactive /\ remote_direction = Inactive
  /\ was_ever_writable_ = FALSE /\ local_streams_ = <<>> /\ remote_streams_ = <<>>
  /\ payload_type_demuxing_enabled_ = TRUE /\ payload_types_ = FALSE
  /\ criteria = OnlyMid /\ previous = OnlyMid /\ sink = OnlyMid
  /\ other_sink = FALSE /\ was_ever_writable_n_ = FALSE
  /\ stash = EmptyBuffer /\ sent = <<>>

\* The bound on the packets and the calls together.
Within == calls + Len(sent) < MaxInputs

-----------------------------------------------------------------------------
\* The signaling thread.
Post(task) == tasks' = Append(tasks, task)

Call(task) ==
  /\ caller = "free" /\ Within /\ calls < MaxCalls /\ sdp # "closed"
  /\ Post(task)
  /\ caller' = "waits" /\ calls' = calls + 1
  /\ UNCHANGED <<wpc, enabled_s_, ch, section, criteria, previous, network>>

CallSetLocalContent ==
  \E c \in LocalContents :
    /\ sdp \in {"stable", "remote-offer"}
    /\ Call([do |-> "local", content |-> c])
    /\ sdp' = IF sdp = "stable" THEN "local-offer" ELSE "stable"

CallSetRemoteContent ==
  \E c \in RemoteContents :
    /\ sdp \in {"stable", "local-offer"}
    /\ Call([do |-> "remote", content |-> c])
    /\ sdp' = IF sdp = "stable" THEN "remote-offer" ELSE "stable"

CallSetPayloadTypeDemuxingEnabled ==
  \E b \in BOOLEAN : Call([do |-> "demuxing", to |-> b]) /\ UNCHANGED sdp

CallSetDefaultSink == Call([do |-> "sink"]) /\ UNCHANGED sdp
CallSetDefaultDelay == Call([do |-> "delay"]) /\ UNCHANGED sdp

\* The channel is destroyed on the worker.
CallClose == Call([do |-> "close"]) /\ sdp' = "closed"

Enable ==
  /\ caller = "free" /\ Within /\ calls < MaxCalls /\ sdp # "closed"
  /\ enabled_s_' = ~enabled_s_
  /\ Post([do |-> "enable", to |-> ~enabled_s_])
  /\ calls' = calls + 1
  /\ UNCHANGED <<caller, sdp, wpc, ch, section, criteria, previous, network>>

-----------------------------------------------------------------------------
\* The worker.
Closed == wpc.at = "closed"
Runs(then) == wpc.at = "run" /\ wpc.then.do = then
Return == caller' = "free"

HasNoSsrcs(streams) == \E i \in DOMAIN streams : streams[i].ssrcs = <<>>
BySsrc(streams, ssrc) == \E i \in DOMAIN streams : ssrc \in Ssrcs(streams[i])
Known(streams, sp) == sp.ssrcs # <<>> /\ BySsrc(streams, First(sp))

IsReadyToSendMedia_w ==
  enabled_' /\ remote_direction'.recv /\ local_direction'.send /\ was_ever_writable_'

\* UpdateMediaSendRecvState_w, at the end of what may change it.
UpdateMediaSendRecvState_w(c) == ch' = SetSend(c, IsReadyToSendMedia_w)

\* RegisterRtpDemuxerSink_w, when asked: the network thread is invoked only when the
\* criteria differ from the last ones, and the media channel c hears of it before.
RegisterRtpDemuxerSink_w(asked, c, crit, then) ==
  /\ criteria' = crit
  /\ wpc' = [at |-> IF asked /\ crit # previous THEN "register" ELSE "run", then |-> then, result |-> TRUE]
  /\ ch' = IF asked /\ crit # previous THEN [c EXCEPT !.pending_criteria = @ + 1] ELSE c

Start(task) ==
  /\ tasks # <<>> /\ wpc.at = "idle" /\ Head(tasks).do = task
  /\ tasks' = Tail(tasks)

\* A description that the media channel refuses.
Refuse(c) == ch' = c /\ wpc' = Idle /\ Return /\ UNCHANGED <<criteria, payload_types_>>

\* SetLocalContent_w up to RegisterRtpDemuxerSink_w: the receive parameters, and
\* the payload types when the section receives.
BeginLocal ==
  /\ Start("local")
  /\ LET t    == Head(tasks)
         crit == IF t.content.direction.recv /\ payload_type_demuxing_enabled_
                 THEN [criteria EXCEPT !.pts = TRUE] ELSE criteria
         set  == SetRecvParameters(ch, t.content)
     IN  IF ~set.ok THEN Refuse(set)
         ELSE /\ RegisterRtpDemuxerSink_w(t.content.direction.recv, set, crit,
                                          [do |-> "local", content |-> t.content])
              /\ payload_types_' = (payload_types_ \/ t.content.direction.recv)
              /\ UNCHANGED caller
  /\ UNCHANGED <<calls, sdp, enabled_s_, enabled_, local_direction, remote_direction, was_ever_writable_,
                 local_streams_, remote_streams_, payload_type_demuxing_enabled_, previous, network>>

\* The rest of it: UpdateLocalStreams_w, the direction and the state of the media.
RemoveOldLocal(c, old, streams) ==
  IF old.ssrcs = <<>> \/ Known(streams, old) THEN c
  ELSE LET r == RemoveSendStream(c, First(old)) IN Ok(r, r.ok /\ c.ok)

AddNewLocal(c, new) ==
  IF new.ssrcs = <<>> \/ Known(local_streams_, new) THEN c
  ELSE LET r == AddSendStream(c, new) IN Ok(r, r.ok /\ c.ok)

UpdateLocalStreams(c, streams) ==
  FoldLeft(AddNewLocal,
           FoldLeft(LAMBDA acc, sp : RemoveOldLocal(acc, sp, streams), Ok(c, TRUE), local_streams_),
           streams)

\* The parameters of a stream that exists do not change.
LocalStreamsFor(streams) ==
  [i \in DOMAIN streams |->
     IF Known(local_streams_, streams[i])
     THEN local_streams_[CHOOSE j \in DOMAIN local_streams_ : First(streams[i]) \in Ssrcs(local_streams_[j])]
     ELSE streams[i]]

FinishLocal ==
  /\ Runs("local")
  /\ wpc' = Idle /\ Return
  /\ LET c == wpc.then.content
         u == UpdateLocalStreams(ch, c.streams)
     IN  /\ local_streams_' = IF wpc.result THEN LocalStreamsFor(c.streams) ELSE local_streams_
         /\ local_direction' = IF wpc.result /\ u.ok THEN c.direction ELSE local_direction
         /\ UNCHANGED <<enabled_, remote_direction, was_ever_writable_>>
         /\ IF ~wpc.result THEN ch' = ch
            ELSE IF u.ok THEN UpdateMediaSendRecvState_w(u) ELSE ch' = u
  /\ UNCHANGED <<tasks, calls, sdp, enabled_s_, remote_streams_, payload_type_demuxing_enabled_,
                 payload_types_, criteria, previous, network>>

\* SetRemoteContent_w: the send parameters; when the remote side will not send, the
\* payload types go, which is a registration of its own.
BeginRemote ==
  /\ Start("remote")
  /\ LET c    == Head(tasks).content
         crit == IF c.direction.send THEN criteria ELSE [criteria EXCEPT !.pts = FALSE]
         set  == SetSendParameters(ch, c)
     IN  IF ~set.ok THEN Refuse(set)
         ELSE /\ RegisterRtpDemuxerSink_w(~c.direction.send, set, crit, [do |-> "streams", content |-> c])
              /\ payload_types_' = (payload_types_ /\ c.direction.send)
              /\ UNCHANGED caller
  /\ UNCHANGED <<calls, sdp, enabled_s_, enabled_, local_direction, remote_direction, was_ever_writable_,
                 local_streams_, remote_streams_, payload_type_demuxing_enabled_, previous, network>>

\* UpdateRemoteStreams_w up to its registration.
RemoveOld(c, old, streams) ==
  CASE old.ssrcs = <<>> /\ ~HasNoSsrcs(streams) -> Ok(ResetUnsignaledRecvStream(c), c.ok)
    [] old.ssrcs # <<>> /\ ~Known(streams, old) ->
         LET r == RemoveRecvStream(c, First(old)) IN Ok(r, r.ok /\ c.ok)
    [] OTHER -> c

AddNew(c, new) ==
  IF Known(remote_streams_, new) THEN c
  ELSE LET r == AddRecvStream(c, new) IN Ok(r, r.ok /\ c.ok)

\* Mutant: the streams that the new description does not have stay.
UpdateRemoteStreamsKeepsOld(c, streams) ==
  FoldLeft(AddNew, Ok(c, TRUE), streams)

UpdateRemoteStreams(c, streams) ==
  FoldLeft(AddNew,
           FoldLeft(LAMBDA acc, sp : RemoveOld(acc, sp, streams), Ok(c, TRUE), remote_streams_),
           streams)

BeginStreams ==
  /\ Runs("streams")
  /\ LET c    == wpc.then.content
         u    == UpdateRemoteStreams(ch, c.streams)
         crit == [criteria EXCEPT !.ssrcs = UNION {Ssrcs(c.streams[i]) : i \in DOMAIN c.streams}]
     IN  IF wpc.result
         THEN /\ RegisterRtpDemuxerSink_w(TRUE, u, crit, [do |-> "remote", content |-> c])
              /\ remote_streams_' = c.streams
              /\ UNCHANGED caller
         ELSE /\ wpc' = Idle /\ Return
              /\ UNCHANGED <<ch, criteria, remote_streams_>>
  /\ UNCHANGED <<tasks, calls, sdp, enabled_s_, enabled_, local_direction, remote_direction,
                 was_ever_writable_, local_streams_, payload_type_demuxing_enabled_,
                 payload_types_, previous, network>>

FinishRemote ==
  /\ Runs("remote")
  /\ wpc' = Idle /\ Return
  /\ LET ok == wpc.result /\ ch.ok
     IN  /\ remote_direction' = IF ok THEN wpc.then.content.direction ELSE remote_direction
         /\ UNCHANGED <<enabled_, local_direction, was_ever_writable_>>
         /\ IF ok THEN UpdateMediaSendRecvState_w(ch) ELSE ch' = ch
  /\ UNCHANGED <<tasks, calls, sdp, enabled_s_, local_streams_, remote_streams_,
                 payload_type_demuxing_enabled_, payload_types_, criteria, previous, network>>

\* SetPayloadTypeDemuxingEnabled_w
SetPayloadTypeDemuxingEnabled ==
  /\ Start("demuxing")
  /\ LET to   == Head(tasks).to
         crit == [criteria EXCEPT !.pts = to /\ (@ \/ payload_types_)]
     IN  /\ payload_type_demuxing_enabled_' = to
         /\ IF to = payload_type_demuxing_enabled_ \/ (to /\ ~payload_types_)
            THEN wpc' = Idle /\ Return /\ UNCHANGED <<ch, criteria>>
            ELSE /\ RegisterRtpDemuxerSink_w(TRUE, IF to THEN ch ELSE ResetUnsignaledRecvStream(ch),
                                             crit, [do |-> "demuxing"])
                 /\ UNCHANGED caller
  /\ UNCHANGED <<calls, sdp, enabled_s_, enabled_, local_direction, remote_direction,
                 was_ever_writable_, local_streams_, remote_streams_, payload_types_, previous, network>>

FinishDemuxing ==
  /\ Runs("demuxing")
  /\ wpc' = Idle /\ Return
  /\ UNCHANGED <<tasks, calls, sdp, enabled_s_, ch, section, criteria, previous, network>>

SetDefault ==
  /\ \/ Start("sink") /\ ch' = SetDefaultSink(ch, "sink")
     \/ Start("delay") /\ ch' = SetBaseMinimumPlayoutDelayMs(ch, 0, 1)
  /\ Return
  /\ UNCHANGED <<wpc, calls, sdp, enabled_s_, section, criteria, previous, network>>

EnableMedia ==
  /\ Start("enable")
  /\ enabled_' = Head(tasks).to
  /\ UNCHANGED <<local_direction, remote_direction, was_ever_writable_>>
  /\ UpdateMediaSendRecvState_w(ch)
  /\ UNCHANGED <<wpc, signaling, local_streams_, remote_streams_, payload_type_demuxing_enabled_,
                 payload_types_, criteria, previous, network>>

FirstWritable ==
  /\ Start("writable")
  /\ was_ever_writable_' = TRUE
  /\ UNCHANGED <<local_direction, remote_direction, enabled_>>
  /\ UpdateMediaSendRecvState_w(ch)
  /\ UNCHANGED <<wpc, signaling, local_streams_, remote_streams_, payload_type_demuxing_enabled_,
                 payload_types_, criteria, previous, network>>

ReceivePacket ==
  /\ Start("packet")
  /\ ch' = OnPacketReceived(ch, Packet(Head(tasks).id))
  /\ UNCHANGED <<wpc, signaling, section, criteria, previous, network>>

\* OnDemuxerCriteriaUpdateComplete
CriteriaComplete ==
  /\ Start("complete")
  /\ ch' = [ch EXCEPT !.pending_criteria = @ - 1]
  /\ UNCHANGED <<wpc, signaling, section, criteria, previous, network>>

\* ~VideoChannel: DisableMedia_w, then Deinit on the network thread; what was posted
\* does not run any more, and the media channel deletes its streams.
BeginClose ==
  /\ Start("close")
  /\ enabled_' = FALSE
  /\ UNCHANGED <<local_direction, remote_direction, was_ever_writable_>>
  /\ UpdateMediaSendRecvState_w(ch)
  /\ wpc' = [at |-> "register", then |-> [do |-> "close"], result |-> TRUE]
  /\ UNCHANGED <<signaling, local_streams_, remote_streams_, payload_type_demuxing_enabled_,
                 payload_types_, criteria, previous, network>>

FinishClose ==
  /\ Runs("close")
  /\ wpc' = [at |-> "closed"] /\ tasks' = <<>> /\ Return
  /\ ch' = [ch EXCEPT !.receive_streams_ = <<>>, !.receive_ssrcs_ = {},
                      !.send_streams_ = <<>>, !.send_ssrcs_ = {}]
  /\ UNCHANGED <<calls, sdp, enabled_s_, section, criteria, previous, network>>

\* The 500 ms after the creation of a default stream are over.
Cooled ==
  /\ ~Closed /\ ch.cooldown
  /\ ch' = [ch EXCEPT !.cooldown = FALSE]
  /\ UNCHANGED <<tasks, wpc, signaling, section, criteria, previous, network>>

-----------------------------------------------------------------------------

\* The network thread.  RegisterRtpDemuxerSink takes the sink out and adds it with its
\* new criteria, which may fail; the media channel hears of it either way.
Register(ok) ==
  /\ sink' = IF ok THEN criteria ELSE NoCriteria
  /\ previous' = sink'
  /\ Post([do |-> "complete"])
  /\ UNCHANGED ch

RegisterRtpDemuxerSink ==
  /\ wpc.at = "register"
  /\ IF wpc.then.do = "close"
     THEN sink' = NoCriteria /\ wpc' = [wpc EXCEPT !.at = "run"] /\ UNCHANGED <<tasks, previous, ch>>
     ELSE \E ok \in BOOLEAN : /\ Register(ok)
                              /\ wpc' = [wpc EXCEPT !.at = "run", !.result = ok]
  /\ UNCHANGED <<signaling, section, criteria, other_sink, was_ever_writable_n_, stash, sent>>

RegisterOther ==
  /\ ~other_sink /\ other_sink' = TRUE
  /\ UNCHANGED <<tasks, wpc, signaling, ch, section, criteria, previous, sink,
                 was_ever_writable_n_, stash, sent>>

Routed(p) ==
  \/ p.ssrc = OtherSsrc /\ other_sink
  \/ p.ssrc # OtherSsrc /\ (p.ssrc \in sink.ssrcs \/ sink.pts)

\* Mutant: the new packet is given before those that are kept.
InOrderNewFirst(kept, new) == new \o kept

InOrder(kept, new) == kept \o new

\* What the transport gives to this channel is posted to the worker, with the
\* criteria that it was given under.
OnRtpPacket(posted, q) ==
  IF q.ssrc = OtherSsrc THEN posted
  ELSE Append(posted, [do |-> "packet", id |-> q.id, under |-> sink])

\* DemuxPacket: first what is kept, then this packet, which is kept when no sink wants it.
DemuxPacket ==
  /\ Within /\ Len(sent) < MaxPackets
  /\ \E ssrc \in VideoSsrcs \cup {OtherSsrc} :
       LET p    == [ssrc |-> ssrc, id |-> Len(sent) + 1, rtx |-> ssrc \in RtxSsrcs]
           fill == MaybeBackfillPackets(stash, {q \in Range(stash.buffer_) : Routed(q)})
       IN  /\ sent' = Append(sent, ssrc)
           /\ stash' = IF Routed(p) THEN fill.left ELSE AddPacket(fill.left, p)
           /\ tasks' = FoldLeft(OnRtpPacket, tasks, InOrder(fill.given, IF Routed(p) THEN <<p>> ELSE <<>>))
  /\ UNCHANGED <<wpc, signaling, ch, section, criteria, previous, sink, other_sink, was_ever_writable_n_>>

\* ChannelWritable_n for the first time; what writable_ does later only reaches the log.
Writable ==
  /\ ~Closed /\ ~was_ever_writable_n_
  /\ was_ever_writable_n_' = TRUE
  /\ Post([do |-> "writable"])
  /\ UNCHANGED <<wpc, signaling, ch, section, criteria, previous, sink, other_sink, stash, sent>>

-----------------------------------------------------------------------------
Signaling == \/ CallSetLocalContent \/ CallSetRemoteContent \/ CallSetPayloadTypeDemuxingEnabled
             \/ CallSetDefaultSink \/ CallSetDefaultDelay \/ CallClose \/ Enable
Worker == \/ BeginLocal \/ FinishLocal \/ BeginRemote \/ BeginStreams \/ FinishRemote
          \/ SetPayloadTypeDemuxingEnabled \/ FinishDemuxing \/ SetDefault \/ EnableMedia
          \/ FirstWritable \/ ReceivePacket \/ CriteriaComplete \/ BeginClose \/ FinishClose
Network == RegisterRtpDemuxerSink \/ RegisterOther \/ DemuxPacket \/ Writable

Next == Signaling \/ Worker \/ Cooled \/ Network

Spec == Init /\ [][Next]_vars
-----------------------------------------------------------------------------
\* What the descriptions of the other side satisfy when they are those of one sender:
\* hypotheses of theorems, which the code does not check.

\* Each has a codec that this side can send.
CommonCodecs ==
  \A c \in RemoteContents : 1 \in DOMAIN SelectSendVideoCodecs(MapCodecs(c.codecs))

Described == {sp \in UNION {Range(c.streams) : c \in RemoteContents} : sp.ssrcs # <<>>}

\* The SSRCs of the packets that can make a default stream.
MediaSsrcs == (VideoSsrcs \cup {OtherSsrc}) \ RtxSsrcs

\* The streams are valid, those of one description share no SSRC, the first SSRC of a
\* stream names it in every description, and the sender has no use for the others but
\* for retransmissions.
ProperStreams ==
  /\ \A c \in RemoteContents : \A i, j \in DOMAIN c.streams :
       LET a == c.streams[i]
           b == c.streams[j]
       IN  a.ssrcs # <<>> /\ b.ssrcs # <<>> => First(a) = First(b) \/ Ssrcs(a) \cap Ssrcs(b) = {}
  /\ \A a, b \in Described :
       First(a) \in Ssrcs(b) => First(a) = First(b) /\ Ssrcs(a) = Ssrcs(b)
  /\ \A a \in Described : ValidateStreamParams(a) /\ Ssrcs(a) \cap MediaSsrcs \subseteq {First(a)}
-----------------------------------------------------------------------------
TypeOK ==
  /\ wpc.at \in {"idle", "register", "run", "closed"}
  /\ caller \in {"free", "waits"} /\ calls \in 0..MaxCalls
  /\ sdp \in {"stable", "local-offer", "remote-offer", "closed"}
  /\ {enabled_s_, enabled_, was_ever_writable_, was_ever_writable_n_, other_sink,
      payload_type_demuxing_enabled_, payload_types_} \subseteq BOOLEAN
  /\ {criteria, previous, sink} \subseteq [mid : BOOLEAN, ssrcs : SUBSET VideoSsrcs, pts : BOOLEAN]
  /\ Len(sent) <= MaxPackets /\ Len(stash.buffer_) <= MaxStashedPackets
  /\ stash.insert_pos_ \in 0..MaxStashedPackets - 1
  /\ ch.pending_criteria \in Nat

\* ssrcs holds what the streams use, each under its first SSRC, and no SSRC twice.
Exact(streams, ssrcs) ==
  /\ ssrcs = UNION {Ssrcs(streams[s].params) : s \in DOMAIN streams}
  /\ \A s \in DOMAIN streams :
       /\ First(streams[s].params) = s
       /\ \A t \in DOMAIN streams \ {s} : Ssrcs(streams[s].params) \cap Ssrcs(streams[t].params) = {}

\* receive_ssrcs_ and send_ssrcs_ are exactly the SSRCs of the streams there are, which
\* share none: what every check of availability relies on (webrtc_video_engine.cc:1313).
SsrcBookkeeping == Exact(ch.receive_streams_, ch.receive_ssrcs_) /\ Exact(ch.send_streams_, ch.send_ssrcs_)

\* There is at most one default stream, and it has the sink and the delay that were set
\* for such streams, whether before or after it was made; all streams have the
\* configuration the channel has now, whatever order they and it came in.  (The length
\* of the NACK history is not part of it: the last of the two directions decides it.)
StreamsFollowChannel ==
  /\ Cardinality(Defaults(ch)) <= 1
  /\ \A s \in Defaults(ch) : LET r == ch.receive_streams_[s]
                             IN  r.sink = ch.default_sink_ /\ r.delay = ch.default_delay
  /\ \A s \in DOMAIN ch.receive_streams_ :
       LET r == ch.receive_streams_[s]
       IN  /\ [r.config EXCEPT !.nack = 0] = [ConfigureCodecs(ch.recv_codecs_) EXCEPT !.nack = 0]
           /\ r.reduced_size = ch.reduced_size /\ r.flexfec = ch.recv_flexfec_payload_type_
  /\ \A s \in DOMAIN ch.send_streams_ :
       LET t == ch.send_streams_[s]
       IN  /\ t.codec = ch.send_codec_ /\ t.sending = ch.sending_
           /\ t.reduced_size = ch.reduced_size /\ Sender!IsInCall(t)

\* A default stream is made only for a packet that the demuxer gave to this channel
\* under the criteria that are in force now: a packet that was on its way while they
\* changed makes none (webrtc_video_engine.cc:1773).
NoStaleDefault ==
  [][\A s \in Defaults(ch)' \ Defaults(ch) : tasks # <<>> /\ Head(tasks).under = sink]_vars

\* Default streams are held back while the demuxing changes (channel.cc:507), and never
\* for good: the network thread is at the change or word of it is on its way.
PendingIsUnderWay ==
  wpc.at # "closed" =>
    ch.pending_criteria = Cardinality({i \in DOMAIN tasks : tasks[i].do = "complete"})
                          + IF wpc.at = "register" /\ wpc.then.do # "close" THEN 1 ELSE 0

\* Between two descriptions the signalled streams are those of the last one, and no
\* stream of an earlier one is left, whatever the packets made of streams meanwhile;
\* and a change of the demuxing ends, made or not.
SignalledStreams ==
  /\ PendingIsUnderWay
  /\ wpc.at = "idle" =>
       DOMAIN ch.receive_streams_ \ Defaults(ch)
         = {First(remote_streams_[i]) : i \in {j \in DOMAIN remote_streams_ :
                                                 remote_streams_[j].ssrcs # <<>>}}

\* The packets of one SSRC reach their stream once and in the order they came.  The one
\* exception: a packet was kept behind an older one of another SSRC, and newer ones passed
\* it, because a backfill ends at a first packet that no sink wants
\* (unhandled_packets_buffer.cc:82).
DeliveredInOrder ==
  \A i, j \in DOMAIN ch.delivered :
    LET p == ch.delivered[i]
        q == ch.delivered[j]
    IN  i < j /\ sent[p] = sent[q] /\ q <= p =>
          q < p /\ \E k \in 1..(q - 1) : /\ sent[k] # sent[q]
                                       /\ \A n \in 1..i : ch.delivered[n] # k

=============================================================================
