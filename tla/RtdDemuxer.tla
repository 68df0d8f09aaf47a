----------------------------- MODULE RtdDemuxer -----------------------------
(***************************************************************************)
(* The demuxer (rtd_demuxer.cpp) between three threads:                    *)
(*   - the video decode thread calls OnVideoFrame,                         *)
(*   - the audio device thread calls OnAudioFrame,                         *)
(*   - the player thread runs rtd_read_packet (ffmpeg/rtd_dec.c), which    *)
(*     calls ReadFrame, copies the payload and calls FreeFrame.            *)
(* One action is one critical section of a queue together with the thread- *)
(* local code around it, so a callback that locks twice (WriteBack and     *)
(* then Clear) or a read that looks at both queues is interleaved with the *)
(* other threads in between.                                               *)
(*                                                                         *)
(* A frame is its kind, its number in the order the engine produced it     *)
(* (for the pts and the payload) and whether it is a key frame.  The       *)
(* numbers come round again, so that a stream never has to end.            *)
(***************************************************************************)
EXTENDS RtdFrameQueue

CONSTANT Numbers   \* bound: how many numbers tell the frames of a kind apart;
                   \* the next frame has the first one again

ASSUME KindAssumption == Kind = {"audio", "video"}
ASSUME NumbersAssumption == Numbers \in [Kind -> Nat \ {0}]

VARIABLES made,                   \* number of the last frame produced, per kind
          iframe_requested_,      \* drop delta frames until the next key frame
          last_receive_failed_,   \* last_audio_/last_video_receive_failed_
          video_pc,               \* where OnVideoFrame is: "idle" or "clear"
          rtd_engine_,            \* the engine exists (false after Close)
          current_frame_buffer_,  \* the buffer ReadFrame took, 0 for nullptr
          is_audio,               \* frame_->is_audio of the one RtdFrame that
                                  \* every read hands out; its other fields
                                  \* describe current_frame_buffer_
          player_pc,              \* where rtd_read_packet is
          ret,                    \* what the last ReadFrame returned
          last_read               \* history: the last frame read, per kind

producer == <<made, iframe_requested_, last_receive_failed_, video_pc>>
reader == <<current_frame_buffer_, is_audio, player_pc, ret, last_read>>
vars == <<qvars, producer, reader, rtd_engine_>>

Frame == [kind: Kind, seq: Nat, key: BOOLEAN]

Init ==
  /\ QueueInit
  /\ made = [k \in Kind |-> 0]
  /\ iframe_requested_ = FALSE
  /\ last_receive_failed_ = [k \in Kind |-> FALSE]
  /\ video_pc = "idle"
  /\ rtd_engine_ = TRUE
  /\ current_frame_buffer_ = 0
  /\ is_audio = FALSE
  /\ player_pc = "idle"
  /\ ret = 0
  /\ last_read = [k \in Kind |-> 0]

-----------------------------------------------------------------------------
(* The callbacks of the engine.                                            *)

NextNumber(k) == IF made[k] = Numbers[k] THEN 1 ELSE made[k] + 1

Produce(f) ==
  /\ rtd_engine_
  /\ f.seq = NextNumber(f.kind)
  /\ made' = [made EXCEPT ![f.kind] = f.seq]

\* A full audio queue drops the newest frame.
OnAudioFrame(f) ==
  /\ f.kind = "audio"
  /\ Produce(f)
  /\ \/ /\ WriteBack("audio", f)
        /\ last_receive_failed_' = [last_receive_failed_ EXCEPT !["audio"] = FALSE]
     \/ /\ IsFull("audio")
        /\ last_receive_failed_' = [last_receive_failed_ EXCEPT !["audio"] = TRUE]
        /\ UNCHANGED qvars
  /\ UNCHANGED <<iframe_requested_, video_pc, reader, rtd_engine_>>

\* OnVideoFrame of a delta frame while the demuxer waits for a key frame.
DiscardDelta(f) ==
  /\ iframe_requested_ /\ ~f.key
  /\ UNCHANGED <<qvars, iframe_requested_, last_receive_failed_, video_pc>>

\* The WriteBack of OnVideoFrame succeeds.
PushVideo(f) ==
  /\ iframe_requested_ => f.key
  /\ WriteBack("video", f)
  /\ iframe_requested_' = FALSE
  /\ last_receive_failed_' = [last_receive_failed_ EXCEPT !["video"] = FALSE]
  /\ UNCHANGED video_pc

\* Mutant of RejectVideo: no key frame is awaited after the overflow.
RejectAndGoOn(f) ==
  /\ iframe_requested_ => f.key
  /\ IsFull("video")
  /\ iframe_requested_' = FALSE
  /\ video_pc' = "clear"
  /\ UNCHANGED <<qvars, last_receive_failed_>>

\* It fails: the frame is lost.  After a first failure the queue is to be
\* cleared and a key frame awaited; a repeated failure just returns.
RejectVideo(f) ==
  /\ iframe_requested_ => f.key
  /\ IsFull("video")
  /\ iframe_requested_' = ~last_receive_failed_["video"]
  /\ video_pc' = IF last_receive_failed_["video"] THEN "idle" ELSE "clear"
  /\ UNCHANGED <<qvars, last_receive_failed_>>

OnVideoFrame(f) ==
  /\ f.kind = "video"
  /\ video_pc = "idle"
  /\ Produce(f)
  /\ DiscardDelta(f) \/ PushVideo(f) \/ RejectVideo(f)
  /\ UNCHANGED <<reader, rtd_engine_>>

\* The second critical section of a failed OnVideoFrame.
ClearVideo ==
  /\ video_pc = "clear"
  /\ Clear("video")
  /\ last_receive_failed_' = [last_receive_failed_ EXCEPT !["video"] = TRUE]
  /\ video_pc' = "idle"
  /\ UNCHANGED <<made, iframe_requested_, reader, rtd_engine_>>

-----------------------------------------------------------------------------
(* The player.                                                             *)

\* ReadFrame found a buffer in queue k: it becomes the current buffer and
\* frame_ describes it.
TakeFrame(k) ==
  /\ ReadFront(k)
  /\ current_frame_buffer_' = Oldest(k)
  /\ is_audio' = (k = "audio")
  /\ ret' = 0
  /\ last_read' = [last_read EXCEPT ![k] = heap[Oldest(k)].frame.seq]
  /\ player_pc' = "holding"

\* Mutant of ReadVideo: without a video frame the read is over.
ReadVideoOnly ==
  /\ player_pc = "idle" /\ rtd_engine_
  /\ \/ TakeFrame("video")
     \/ /\ queue["video"] = << >>
        /\ ret' = 1
        /\ UNCHANGED <<qvars, current_frame_buffer_, is_audio, player_pc, last_read>>
  /\ UNCHANGED <<producer, rtd_engine_>>

\* ReadFrame looks at the video queue first ...
ReadVideo ==
  /\ player_pc = "idle" /\ rtd_engine_
  /\ \/ TakeFrame("video")
     \/ /\ queue["video"] = << >>
        /\ player_pc' = "read_audio"
        /\ UNCHANGED <<qvars, current_frame_buffer_, is_audio, ret, last_read>>
  /\ UNCHANGED <<producer, rtd_engine_>>

\* ... and at the audio queue only when there was no video frame.
ReadAudio ==
  /\ player_pc = "read_audio"
  /\ \/ TakeFrame("audio")
     \/ /\ queue["audio"] = << >>
        /\ ret' = 1
        /\ player_pc' = "idle"
        /\ UNCHANGED <<qvars, current_frame_buffer_, is_audio, last_read>>
  /\ UNCHANGED <<producer, rtd_engine_>>

\* Mutant of FreeCurrent: current_frame_buffer_ is not reset.
FreeKeepsCurrent ==
  IF current_frame_buffer_ = 0
  THEN UNCHANGED <<qvars, current_frame_buffer_>>
  ELSE /\ FreeBuffer(IF is_audio THEN "audio" ELSE "video", current_frame_buffer_)
       /\ UNCHANGED current_frame_buffer_

FreeCurrent ==
  IF current_frame_buffer_ = 0
  THEN UNCHANGED <<qvars, current_frame_buffer_>>
  ELSE /\ FreeBuffer(IF is_audio THEN "audio" ELSE "video", current_frame_buffer_)
       /\ current_frame_buffer_' = 0

\* Every path of rtd_read_packet from a frame in hand ends in free_frame: it
\* has copied the payload before, or there was no such stream or no memory.
FreeFrame ==
  /\ player_pc = "holding"
  /\ FreeCurrent
  /\ player_pc' = "idle"
  /\ UNCHANGED <<producer, rtd_engine_, is_audio, ret, last_read>>

\* rtd_read_close.  Deleting the peer connection joins the threads that call
\* back, so no callback is under way when it returns and none comes later.
Close ==
  /\ player_pc = "idle" /\ video_pc = "idle"
  /\ rtd_engine_' = FALSE
  /\ UNCHANGED <<qvars, producer, reader>>

-----------------------------------------------------------------------------
\* The decoder delivers from a key frame on, and every delta frame after the
\* frame it depends on.  Audio is written without a flag.
Callback(k) ==
  \E key \in BOOLEAN :
    /\ k = "video" /\ made["video"] = 0 => key
    /\ k = "audio" => ~key
    /\ LET f == [kind |-> k, seq |-> NextNumber(k), key |-> key]
       IN  OnAudioFrame(f) \/ OnVideoFrame(f)

Player == ReadVideo \/ ReadAudio \/ FreeFrame

Next == Callback("audio") \/ Callback("video") \/ ClearVideo \/ Player \/ Close

Spec == Init /\ [][Next]_vars

\* The player's read loop and a callback that has begun go on.
Fairness == WF_vars(Player) /\ WF_vars(ClearVideo)
FairSpec == Spec /\ Fairness

-----------------------------------------------------------------------------
(* A program that uses the C API directly may read again without freeing   *)
(* the frame it has, and free a frame it has freed.                        *)

ReadAgain ==
  /\ player_pc = "holding"
  /\ player_pc' = "idle"
  /\ UNCHANGED <<qvars, producer, rtd_engine_,
                 current_frame_buffer_, is_audio, ret, last_read>>

FreeAgain ==
  /\ player_pc = "idle" /\ rtd_engine_
  /\ FreeCurrent
  /\ UNCHANGED <<producer, rtd_engine_, is_audio, player_pc, ret, last_read>>

AnyCallerNext == Next \/ ReadAgain \/ FreeAgain
AnyCallerSpec == Init /\ [][AnyCallerNext]_vars

-----------------------------------------------------------------------------
(* Properties.                                                             *)

\* Every variable has its type.
TypeOK ==
  /\ heap \in Seq([frame: Frame, home: Kind])
  /\ queue \in [Kind -> Seq(1..Len(heap))]
  /\ free_list \in [Kind -> Seq(1..Len(heap))]
  /\ made \in [Kind -> Nat]
  /\ iframe_requested_ \in BOOLEAN
  /\ last_receive_failed_ \in [Kind -> BOOLEAN]
  /\ video_pc \in {"idle", "clear"}
  /\ rtd_engine_ \in BOOLEAN
  /\ current_frame_buffer_ \in 0..Len(heap)
  /\ is_audio \in BOOLEAN
  /\ player_pc \in {"idle", "read_audio", "holding"}
  /\ ret \in {0, 1}
  /\ last_read \in [Kind -> Nat]

HeldKind == IF is_audio THEN "audio" ELSE "video"
Held(k) == IF current_frame_buffer_ # 0 /\ HeldKind = k THEN 1 ELSE 0

\* A buffer is in one place at a time: twice in no queue and no free list, in
\* no queue and free list at once, and in neither while the player holds it,
\* whatever the caller does (also when it reads twice or frees twice).  So the
\* engine's threads never write into a frame that is queued or being read.
OwnedOnce ==
  /\ \A k \in Kind : IsInjective(queue[k]) /\ IsInjective(free_list[k])
  /\ \A k \in Kind : ToSet(queue[k]) \cap ToSet(free_list[k]) = {}
  /\ current_frame_buffer_ # 0 =>
       current_frame_buffer_ \notin ToSet(queue[HeldKind]) \cup ToSet(free_list[HeldKind])

\* A buffer goes back to the queue that allocated it: FreeFrame chooses the
\* queue by the flag of the shared RtdFrame, and the flag always describes the
\* buffer that is freed.
HomeKept ==
  /\ \A k \in Kind : \A b \in ToSet(queue[k]) \cup ToSet(free_list[k]) : heap[b].home = k
  /\ current_frame_buffer_ # 0 => heap[current_frame_buffer_].home = HeldKind

\* With the calls rtd_read_packet makes no buffer is ever lost: each is queued,
\* free or in the player's hand, so that the destructors of the queues, which
\* delete what is queued or free, delete everything once the player is idle.
NoLeak ==
  /\ Len(heap) = Len(queue["audio"]) + Len(free_list["audio"]) + Held("audio")
               + Len(queue["video"]) + Len(free_list["video"]) + Held("video")
  /\ player_pc \in {"idle", "read_audio"} => current_frame_buffer_ = 0

\* The memory of a queue is bounded: it never owns more buffers than it may
\* queue and one that the player holds, although free_list_ has no limit.
PoolBounded ==
  \A k \in Kind :
    Len(queue[k]) + Len(free_list[k]) + Held(k) <= Capacity[k] + 1

\* While a frame is handed out its buffer still holds that frame: the pts that
\* ReadFrame copied and the payload that rtd_read_packet copies next belong
\* together.
FrameIntact ==
  player_pc = "holding" =>
    /\ heap[current_frame_buffer_].frame.kind = HeldKind
    /\ heap[current_frame_buffer_].frame.seq = last_read[HeldKind]

\* The buffers of the demuxer, as rtd_read_packet uses them: none is lost, none is
\* allocated without need, and none changes under the reader's hand.
PoolInv == TypeOK /\ NoLeak /\ PoolBounded /\ FrameIntact

IsQueued(k, n) == \E b \in ToSet(queue[k]) : heap[b].frame.seq = n
Leaves(k) == \A n \in 1..Numbers[k] : IsQueued(k, n) ~> (~rtd_engine_ \/ ~IsQueued(k, n))

\* A queued frame does not stay queued for ever, unless the stream is closed,
\* over a video and an audio stream without end.  A video frame is read or, when
\* the queue overflows, cleared.  An audio frame is only looked for when a read
\* finds no video frame: it leaves if that happens again and again.  ReadFrame
\* gives no more than that: while every read finds a video frame the audio waits
\* and its queue drops what is new.
QueuedFramesLeave ==
  /\ Leaves("video")
  /\ []<><<ReadVideo /\ queue["video"] = << >> >>_vars => Leaves("audio")

\* The video path of the demuxer implements the bounded channel VideoStream: in
\* particular a frame is lost only to an overflow or to a lost reference.
VideoFrame(b) == [seq |-> heap[b].frame.seq, key |-> heap[b].frame.key]

Stream == INSTANCE VideoStream
  WITH Capacity <- Capacity["video"],
       Numbers <- Numbers["video"],
       sent <- made["video"],
       chan <- [i \in 1..Len(queue["video"]) |-> VideoFrame(queue["video"][i])],
       got <- last_read["video"],
       broken <- iframe_requested_

ImplementsVideoStream == Stream!Spec

=============================================================================
