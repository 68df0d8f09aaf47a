------------------------------- MODULE AvSync -------------------------------
(***************************************************************************)
(* The loop that keeps audio and video together.  Once a second            *)
(* RtpStreamsSynchronizer::UpdateDelay (rtp_streams_synchronizer2.cc, the  *)
(* worker thread) compares the streams and asks one of them for another    *)
(* minimum delay: the audio channel through NetEq's DelayManager, the      *)
(* video stream through VCMTiming.  Both may disregard or lose what was    *)
(* asked: the manager refuses a minimum its buffer cannot hold and acts on *)
(* it only when the next packet comes, and a frame with bad timing makes   *)
(* the frame buffer reset VCMTiming (the decode queue).                    *)
(*                                                                         *)
(* Times are in a common unit (the configuration uses 10 ms).  offset is   *)
(* how much earlier the video is received than the audio captured with it; *)
(* an RTCP sender report and a packet of both streams are needed to know.  *)
(***************************************************************************)
EXTENDS Integers, FiniteSetsExt

CONSTANTS
  StartDelay, DefaultBase, MinBase, MaxBase, MaxPacketsInBuffer,
  RenderDelay,       \* kDefaultRenderDelayMs and the decode time
  DefaultMinPlayout, DefaultMaxPlayout,
  BaseTarget, MaxChange, MaxDeltaDelay, FilterLength, MinDelta,
  MaxMinPlayout,     \* kVoiceEngineMaxMinPlayoutDelayMs
  MaxVideoDelay,     \* kMaxVideoDelayMs of the frame buffer
  PacketLength,      \* the length of an audio packet
  Offsets, Levels, Jitters,  \* offsets, levels of the histogram, jitter estimates
  Lateness,          \* how late frames are decoded
  PlayoutDelays,     \* the playout-delay extensions of frames: <<min, max>>
  BaseMinimums,      \* arguments of SetBaseMinimumPlayoutDelayMs
  MaxUpsets,         \* bound: changes of the network, frames, calls and resets
  MaxLag             \* bound: ticks before the time stretching has caught up

ASSUME AvSyncAssumption ==
  /\ {StartDelay, DefaultBase, MinBase, MaxBase, MaxPacketsInBuffer, RenderDelay,
      DefaultMinPlayout, DefaultMaxPlayout, BaseTarget, MaxChange, MaxDeltaDelay,
      MaxMinPlayout, MaxVideoDelay, PacketLength, MaxUpsets, MaxLag} \subseteq Nat
  /\ {FilterLength, MinDelta} \subseteq Nat \ {0}
  /\ {StartDelay, DefaultBase, PacketLength} \cup Levels \subseteq 0 .. MaxBase
  /\ Jitters \subseteq Nat
  /\ Offsets \cup Lateness \cup BaseMinimums \subseteq Int
  /\ \A d \in PlayoutDelays : {d[1], d[2]} \subseteq Int

VARIABLES
  sync,        \* sync_ of the synchronizer
  configured,  \* syncable_audio_ # nullptr
  fresh,       \* the streams with a packet newer than the last measurement
  net,         \* [offset, level, jitter]: what the network does
  dm,          \* the DelayManager of the audio stream
  buffered,    \* FilteredCurrentDelayMs(), what the audio stream really delays
  lag,         \* ticks since buffered followed the target
  asked,       \* [frame, base, syncable]: the minimum delays the video stream knows
  timing,      \* the VCMTiming of the video stream
  upsets

vars == <<sync, configured, fresh, net, dm, buffered, lag, asked, timing, upsets>>
video == <<asked, timing>>
audio == <<dm, buffered, lag>>

M == INSTANCE DelayManager
S == INSTANCE StreamSync

Streams == {"audio", "video"}

-----------------------------------------------------------------------------
(* The delays of VCMTiming (timing.cc): an operator from its state, t, to the *)
(* next one for each method.  The decode time that the codec timer expects    *)
(* is part of RenderDelay.                                                    *)

NewTiming == [min |-> DefaultMinPlayout, max |-> DefaultMaxPlayout, jitter |-> 0, current |-> 0]

TargetDelayInternal(t) == Max({t.min, t.jitter + RenderDelay})

ResetTiming(t) == [t EXCEPT !.min = 0, !.jitter = 0, !.current = 0]

SetJitterDelay(t, jitter) ==
  [t EXCEPT !.jitter = jitter, !.current = IF jitter # t.jitter /\ @ = 0 THEN jitter ELSE @]

\* delayed: how much later than planned the frame is decoded.
UpdateCurrentDelay(t, delayed) ==
  IF delayed < 0 THEN t
  ELSE [t EXCEPT !.current = Min({@ + delayed, TargetDelayInternal(t)})]

-----------------------------------------------------------------------------
Init ==
  /\ sync = S!NewStreamSync /\ configured = FALSE /\ fresh = {}
  /\ net \in [offset : Offsets, level : Levels, jitter : Jitters]
  /\ dm = M!NewDelayManager /\ buffered = 0 /\ lag = 0
  /\ asked = [frame |-> -1, base |-> -1, syncable |-> -1]
  /\ timing = NewTiming /\ upsets = 0

Upset == upsets < MaxUpsets /\ upsets' = upsets + 1

-----------------------------------------------------------------------------
(* The video stream. *)

\* UpdatePlayoutDelays: the largest of the three requests, and the maximum, go to timing_.
UpdatePlayoutDelays(t, a, max) ==
  LET min == Max({a.frame, a.base, a.syncable})
  IN [t EXCEPT !.min = IF min >= 0 THEN min ELSE @, !.max = IF max >= 0 THEN max ELSE @]

\* OnCompleteFrame of a frame with the playout-delay extension.
OnCompleteFrame ==
  /\ Upset
  /\ \E d \in PlayoutDelays :
       /\ asked' = [asked EXCEPT !.frame = d[1]]
       /\ timing' = UpdatePlayoutDelays(timing, asked', d[2])
  /\ UNCHANGED <<sync, configured, fresh, net, audio>>

SetBaseMinimumPlayoutDelayMs ==
  /\ Upset
  /\ \E d \in BaseMinimums :
       \/ /\ asked' = [asked EXCEPT !.base = d]
          /\ timing' = UpdatePlayoutDelays(timing, asked', -1)
          /\ dm' = dm
       \/ /\ dm' = M!SetBaseMinimumDelay(dm, d)
          /\ UNCHANGED video
  /\ UNCHANGED <<sync, configured, fresh, net, buffered, lag>>

\* GetNextFrame hands a frame to the decoder, late by delayed.  Bad timing resets
\* timing_, and with it the minimum, which nobody sets again until the next request.
\* A frame that was delayed by a retransmission (nacked) says nothing of the jitter.
GetNextFrame(delayed, nacked, bad) ==
  LET t == IF bad \/ TargetDelayInternal(timing) > MaxVideoDelay THEN ResetTiming(timing) ELSE timing
  IN /\ timing' = IF nacked THEN t ELSE UpdateCurrentDelay(SetJitterDelay(t, net.jitter), delayed)
     /\ UNCHANGED <<sync, configured, fresh, net, audio, asked>>

DecodeFrame ==
  \/ \E delayed \in Lateness, nacked \in BOOLEAN :
       GetNextFrame(delayed, nacked, FALSE) /\ UNCHANGED upsets
  \/ \E nacked \in BOOLEAN : GetNextFrame(0, nacked, TRUE) /\ Upset

-----------------------------------------------------------------------------
(* The audio stream. *)

\* A packet reaches NetEq: DecisionLogic::PacketArrived, after which the target of the
\* delay manager follows its minimum.
Arrived(d) == M!Update(M!SetPacketAudioLength(d, PacketLength), net.level)

ReceiveAudio ==
  /\ fresh' = fresh \cup {"audio"}
  /\ dm' = Arrived(dm)
  /\ UNCHANGED <<sync, configured, net, buffered, lag, video, upsets>>

ReceiveVideo ==
  /\ fresh' = fresh \cup {"video"}
  /\ UNCHANGED <<sync, configured, net, audio, video, upsets>>

\* Time stretching brings the delay of the buffer to the target.
Stretch ==
  /\ buffered' = dm.target /\ lag' = 0
  /\ UNCHANGED <<sync, configured, fresh, net, dm, video, upsets>>

\* Another codec: DecisionLogic::SoftReset.
ChangeCodec ==
  /\ Upset
  /\ dm' = M!Reset(dm)
  /\ UNCHANGED <<sync, configured, fresh, net, buffered, lag, video>>

\* ChannelReceive::SetMinimumPlayoutDelay clamps the delay, then asks NetEq.
Clamped(delay) == Min({Max({delay, 0}), MaxMinPlayout})

NetworkChanges ==
  /\ Upset
  /\ \E o \in Offsets, l \in Levels, j \in Jitters : net' = [offset |-> o, level |-> l, jitter |-> j]
  /\ UNCHANGED <<sync, configured, fresh, audio, video>>

-----------------------------------------------------------------------------
(* The synchronizer. *)

\* ConfigureSync of another audio stream, or none.  The delays asked of the streams stay.
ConfigureSync ==
  /\ Upset \/ (~configured /\ UNCHANGED upsets)
  /\ configured' = ~configured
  /\ sync' = S!NewStreamSync
  /\ UNCHANGED <<fresh, net, audio, video>>

\* The two Info::current_delay_ms (the audio device adds nothing).
AudioDelay == buffered
VideoDelay == TargetDelayInternal(timing)

\* How far the video target is ahead of the audio delay: ComputeDelays' current_diff_ms.
Diff == VideoDelay - AudioDelay + net.offset

\* Mutant: the request is noted and not passed on.
AskVideoSilently(delay) == asked' = [asked EXCEPT !.syncable = delay] /\ UNCHANGED timing

\* VideoReceiveStream2::SetMinimumPlayoutDelay never refuses, and sets the minimum of
\* timing_ again even when delay is no news.
AskVideo(delay) ==
  /\ asked' = [asked EXCEPT !.syncable = delay]
  /\ timing' = UpdatePlayoutDelays(timing, asked', -1)

\* When both streams hold nothing they start with kAudioStartDelayMs and kVideoStartDelayMs.
AskStart(empty) ==
  IF empty THEN dm' = M!SetMinimumDelay(dm, Clamped(BaseTarget)) /\ AskVideo(BaseTarget)
  ELSE UNCHANGED <<dm, video>>

\* The requests with the delays of s, after those of the start.
Ask(s, empty) ==
  LET d == IF empty THEN M!SetMinimumDelay(dm, Clamped(BaseTarget)) ELSE dm
      delay == Clamped(s.audio.last)
  IN /\ dm' = M!SetMinimumDelay(d, delay)
     /\ sync' = IF M!IsValidMinimumDelay(d, delay) THEN s ELSE S!ReduceAudioDelay(s)
     /\ AskVideo(s.video.last)

\* UpdateDelay.  Reading the news of a stream uses them up, whatever comes of it, and
\* those of the video are read only after those of the audio.  The delays of both are
\* read before the first request.  (A stream of which nothing is known yet is one
\* without news; both are empty only when the audio is.)
UpdateDelay ==
  /\ configured /\ "audio" \in fresh /\ lag < MaxLag
  /\ fresh' = {}
  /\ lag' = lag + 1
  /\ \E empty \in IF AudioDelay = 0 THEN BOOLEAN ELSE {FALSE} :
       IF "video" \in fresh /\ S!IsRelativeDelay(net.offset) /\ S!Moves(sync, Diff)
         THEN Ask(S!ComputeDelays(sync, Diff), empty)
         ELSE /\ AskStart(empty)
              /\ sync' = IF "video" \in fresh /\ S!IsRelativeDelay(net.offset)
                           THEN S!ComputeDelays(sync, Diff) ELSE sync
  /\ UNCHANGED <<configured, net, buffered, upsets>>

-----------------------------------------------------------------------------
Next ==
  \/ OnCompleteFrame \/ SetBaseMinimumPlayoutDelayMs \/ DecodeFrame
  \/ ReceiveAudio \/ ReceiveVideo \/ Stretch \/ ChangeCodec \/ NetworkChanges
  \/ ConfigureSync \/ UpdateDelay

\* The same as weak fairness of ReceiveAudio, ReceiveVideo, Stretch, DecodeFrame and
\* UpdateDelay, in terms of what they bring about: packets keep coming and reach NetEq,
\* NetEq plays, frames are decoded, and the repeating task runs while it is configured.
Fairness ==
  /\ []<>("audio" \in fresh) /\ []<>("video" \in fresh)
  /\ []<>(dm = Arrived(dm)) /\ []<>(lag = 0 /\ buffered = dm.target)
  /\ []<>(timing.jitter = net.jitter)
  /\ <>[]configured => []<>(fresh = {})

Spec == Init /\ [][Next]_vars /\ Fairness

-----------------------------------------------------------------------------
\* The types of the variables; the numbers that stay within limits have them.
TypeOK ==
  /\ configured \in BOOLEAN /\ fresh \subseteq Streams
  /\ sync.avg \in -MinDelta + 1 .. MinDelta - 1
  /\ \A s \in Streams : sync[s].last \in 0 .. BaseTarget + MaxDeltaDelay /\ sync[s].extra \in Int
  /\ net \in [offset : Offsets, level : Levels, jitter : Jitters]
  /\ dm.minimum \in 0 .. MaxBase /\ dm.effective \in 0 .. MaxBase
  /\ buffered \in 0 .. MaxBase /\ lag \in 0 .. MaxLag
  /\ timing.min >= 0 /\ timing.max >= 0
  /\ upsets \in 0 .. MaxUpsets

\* "Make sure we don't move too fast": after the first correction, which takes both
\* streams to their base, a target moves by at most kMaxChangeMs, or by the tenth that a
\* refused audio delay loses in addition.
SmallSteps ==
  \A s \in Streams :
    sync'[s].last # sync[s].last /\ sync[s].last >= BaseTarget
      => LET slack == IF s = "audio" THEN (BaseTarget + MaxDeltaDelay + 9) \div 10 ELSE 0
         IN sync'[s].last - sync[s].last \in -MaxChange - slack .. MaxChange

\* "We only allow to change one at the time": no correction moves the targets of both
\* streams, once the first ones have taken them to their base.
OneAtATime ==
  (\A s \in Streams : sync[s].last >= BaseTarget)
    => sync'.audio.last = sync.audio.last \/ sync'.video.last = sync.video.last

\* The loop never makes the picture or the sound jump while it is configured.
CarefulSteps ==
  []TypeOK /\ [][configured /\ configured' => SmallSteps /\ OneAtATime]_vars

\* The delay that the video has whatever the synchronizer asks.
VideoFloor == Max({asked.frame, asked.base, BaseTarget, net.jitter + RenderDelay})
AudioFloor == Max({dm.base, BaseTarget, net.level})
Attainable ==
  /\ S!IsRelativeDelay(net.offset)
  /\ VideoFloor + net.offset =< M!ThreeQuarters(dm)
  /\ AudioFloor - net.offset =< MaxVideoDelay

\* However the network, the frames and the codecs upset it, and whatever timing_ lost,
\* the loop brings the streams back: once nothing changes, and if the buffers can hold
\* what it takes, they are apart by less than the filter notices, and stay so.
Converges ==
  <>[](configured /\ Attainable => Diff \in -(MinDelta + FilterLength - 2) .. MinDelta + FilterLength - 2)

=============================================================================
