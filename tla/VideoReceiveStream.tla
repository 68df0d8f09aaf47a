------------------------- MODULE VideoReceiveStream -------------------------
(***************************************************************************)
(* VideoReceiveStream2 (video_receive_stream2.cc): the decode loop around  *)
(* the frame buffer, and the key frame requests.                           *)
(*                                                                         *)
(*   - The worker thread takes complete frames from the reference finder,  *)
(*     runs what the decode queue has posted to it, and stops the stream.  *)
(*   - The decode queue asks the frame buffer for a frame and decodes it,  *)
(*     again and again.                                                    *)
(*                                                                         *)
(* Frame n of the sender has the id Ids[n]; ids that fall back are those   *)
(* of an encoder that began anew.  Every delta frame refers to the frame   *)
(* before it, and the reference finder hands it on only after that one.    *)
(* A frame may come late, again (a key frame), or never.                   *)
(***************************************************************************)
EXTENDS FrameBuffer, Sequences

CONSTANT Ids

\* The frames that can come are those of this stream.
ASSUME IdsAssumption ==
  /\ Ids \in Seq(Nat \ {0})
  /\ \A n \in 1..Len(Ids) :
       /\ [id |-> Ids[n], refs |-> {}, ts |-> n] \in Frames
       /\ n > 1 /\ Ids[n] = Ids[n - 1] + 1 =>
            [id |-> Ids[n], refs |-> {Ids[n - 1]}, ts |-> n] \in Frames

VARIABLES
  sent,                     \* which of the frames sent are key frames, in order
  complete,                 \* the frames the reference finder has handed on
  lately,                   \* what came lately: "keyframe" packets, "packets", "nothing"
  worker_pc,                \* "idle", "insert", "stopping" or "stopped"
  arrived,                  \* the frame to insert after a clear, 0 for none
  decode_pc,                \* "next" to call NextFrame, or "wait"
  frame_decoded_,
  required,                 \* keyframe_required_ of the receive stream
  decoder_stopped_,
  tasks,                    \* what the decode queue has posted to the worker
  keyframe_requested,       \* a request is on its way to the sender
  last_frame,               \* history: the last frame handed to the decoder
  failed                    \* history: it could not be decoded

sender == <<sent, complete>>
worker == <<worker_pc, arrived>>
decoding == <<decode_pc, frame_decoded_, required, decoder_stopped_>>
seen == <<last_frame, failed>>
vars == <<bufferVars, sender, lately, worker, decoding, tasks, keyframe_requested, seen>>

FrameAt(n) == [id |-> Ids[n], refs |-> IF sent[n] THEN {} ELSE {Ids[n - 1]}, ts |-> n]

Init ==
  /\ BufferInit
  /\ sent = << >> /\ complete = {}
  /\ lately = "nothing"
  /\ worker_pc = "idle" /\ arrived = 0
  /\ decode_pc = "next"
  /\ frame_decoded_ = FALSE
  /\ required = TRUE
  /\ decoder_stopped_ = FALSE
  /\ tasks = {}
  /\ keyframe_requested = FALSE
  /\ last_frame = NoFrame /\ failed = FALSE

-----------------------------------------------------------------------------
(* The sender, and time.                                                   *)

\* A key frame comes first, after a restart, when one is requested, and when the
\* sender likes.  Packets of it arrive, perhaps not those by which a key frame
\* is known.
Send ==
  LET n == Len(sent) + 1
  IN /\ worker_pc = "idle" /\ n <= Len(Ids)
     /\ \E key \in BOOLEAN :
          /\ n = 1 \/ keyframe_requested => key
          /\ n > 1 /\ Ids[n] # Ids[n - 1] + 1 => key
          /\ sent' = Append(sent, key)
          /\ \/ key /\ lately' = "keyframe"
             \/ lately' = IF lately = "keyframe" THEN lately ELSE "packets"
     /\ keyframe_requested' = FALSE
     /\ UNCHANGED <<bufferVars, complete, worker, decoding, tasks, seen>>

\* No packet of a key frame for max_wait_for_keyframe_ms_; no packet at all for
\* the longer kInactiveStreamThresholdMs.
PacketsAge ==
  /\ worker_pc = "idle" /\ lately # "nothing"
  /\ lately' = IF lately = "keyframe" THEN "packets" ELSE "nothing"
  /\ UNCHANGED <<bufferVars, sender, worker, decoding, tasks, keyframe_requested, seen>>

-----------------------------------------------------------------------------
(* The worker thread.                                                      *)

\* OnCompleteFrame: after ten minutes without a frame the buffer is cleared, and
\* the decode queue may come in before the frame is inserted.
OnCompleteFrame(n) ==
  /\ worker_pc = "idle"
  /\ sent[n] \/ (n - 1 \in complete /\ n \notin complete)
  /\ complete' = complete \cup {n}
  /\ \/ InsertFrame(FrameAt(n)) /\ UNCHANGED worker
     \/ complete # {} /\ ClearFramesAndHistory /\ worker_pc' = "insert" /\ arrived' = n
  /\ UNCHANGED <<sent, lately, decoding, tasks, keyframe_requested, seen>>

Insert ==
  /\ worker_pc = "insert"
  /\ InsertFrame(FrameAt(arrived))
  /\ worker_pc' = "idle" /\ arrived' = 0
  /\ UNCHANGED <<sender, lately, decoding, tasks, keyframe_requested, seen>>

\* HandleFrameBufferTimeout.
HandleTimeout ==
  /\ worker_pc = "idle" /\ "timeout" \in tasks
  /\ keyframe_requested' = (keyframe_requested \/ lately = "packets")
  /\ tasks' = tasks \ {"timeout"}
  /\ UNCHANGED <<bufferVars, sender, lately, worker, decoding, seen>>

\* HandleKeyFrameGeneration for a frame after which a key frame is needed.
HandleKeyFrameGeneration ==
  /\ worker_pc = "idle" /\ "request" \in tasks
  /\ keyframe_requested' = TRUE
  /\ tasks' = tasks \ {"request"}
  /\ UNCHANGED <<bufferVars, sender, lately, worker, decoding, seen>>

\* StopReceive: no packet comes any more, and nothing is asked for.
NoMorePackets == lately' = "nothing" /\ keyframe_requested' = FALSE

\* Mutant of Stop: it does not wait for the decode queue.
StopAtOnce ==
  /\ worker_pc = "idle"
  /\ worker_pc' = "stopped"
  /\ NoMorePackets
  /\ UNCHANGED <<bufferVars, sender, arrived, decoding, tasks, seen>>

\* Stop posts two tasks to the decode queue and waits for the second.
Stop ==
  /\ worker_pc = "idle"
  /\ worker_pc' = "stopping"
  /\ NoMorePackets
  /\ UNCHANGED <<bufferVars, sender, arrived, decoding, tasks, seen>>

-----------------------------------------------------------------------------
(* The decode queue.                                                       *)

\* StartNextDecode.
StartNextDecode ==
  /\ decode_pc = "next"
  /\ NextFrame(required)
  /\ decode_pc' = "wait"
  /\ UNCHANGED <<sender, lately, worker, frame_decoded_, required, decoder_stopped_,
                 tasks, keyframe_requested, seen>>

Search ==
  /\ decode_pc = "wait"
  /\ SearchPosted \/ WaitOn
  /\ UNCHANGED <<sender, lately, worker, decoding, tasks, keyframe_requested, seen>>

\* Mutant of HandleEncodedFrame: a failure is not remembered.
HandleWithoutFailure(result, due) ==
  /\ required' = (required /\ result = "error")
  /\ frame_decoded_' = (frame_decoded_ \/ result # "error")
  /\ tasks' = IF result = "ok" THEN tasks ELSE tasks \cup {"request"}

\* HandleEncodedFrame: due says that the last request is old enough.
HandleEncodedFrame(result, due) ==
  LET request == result = "error" /\ (~frame_decoded_ \/ ~required \/ due)
  IN /\ required' = IF result = "error" THEN required \/ request ELSE FALSE
     /\ frame_decoded_' = (frame_decoded_ \/ result # "error")
     /\ tasks' = IF request \/ result = "request" THEN tasks \cup {"request"} ELSE tasks

\* DecodeAndMaybeDispatchEncodedFrame: nobody records the encoded frames.
Decode(frame, result) == last_frame' = frame /\ failed' = (result = "error")

\* The delayed task hands a frame to the handler.
FrameFound ==
  /\ decode_pc = "wait"
  /\ Deliver
  /\ decode_pc' = "next"
  /\ IF decoder_stopped_ THEN UNCHANGED <<required, frame_decoded_, tasks, seen>>
     ELSE \E result \in {"ok", "request", "error"}, due \in BOOLEAN :
            /\ Decode(frames_[frames_to_decode_].frame, result)
            /\ HandleEncodedFrame(result, due)
  /\ UNCHANGED <<sender, lately, worker, decoder_stopped_, keyframe_requested>>

\* Mutant of FrameTimeout: the loop ends.
FrameTimeoutEnds ==
  /\ decode_pc = "wait"
  /\ Timeout
  /\ UNCHANGED <<sender, lately, worker, decoding, tasks, keyframe_requested, seen>>

FrameTimeout ==
  /\ decode_pc = "wait"
  /\ Timeout
  /\ decode_pc' = "next"
  /\ tasks' = tasks \cup {"timeout"}
  /\ UNCHANGED <<sender, lately, worker, frame_decoded_, required, decoder_stopped_,
                 keyframe_requested, seen>>

\* The two tasks of Stop.
StopFrameBuffer ==
  /\ worker_pc = "stopping" /\ decode_pc = "wait" /\ ~stopped_
  /\ StopBuffer
  /\ UNCHANGED <<sender, lately, worker, decoding, tasks, keyframe_requested, seen>>

StopDecoder ==
  /\ worker_pc = "stopping" /\ stopped_
  /\ decoder_stopped_' = TRUE
  /\ worker_pc' = "stopped"
  /\ UNCHANGED <<bufferVars, sender, arrived, lately, decode_pc, frame_decoded_, required, tasks,
                 keyframe_requested, seen>>

DecodeQueue == StartNextDecode \/ Search \/ FrameFound \/ FrameTimeout
Worker == Insert \/ HandleTimeout \/ HandleKeyFrameGeneration

Next ==
  \/ Send \/ PacketsAge
  \/ \E n \in DOMAIN sent : OnCompleteFrame(n)
  \/ Worker \/ Stop
  \/ DecodeQueue
  \/ StopFrameBuffer \/ StopDecoder

Spec == Init /\ [][Next]_vars

\* The delayed task runs, a wait ends, and what is posted to a queue runs in its
\* turn, whatever frames come meanwhile.  The network promises nothing.
Fairness ==
  /\ WF_vars(StartNextDecode) /\ WF_vars(FrameFound) /\ WF_vars(FrameTimeout)
  /\ WF_vars(Insert) /\ SF_vars(HandleTimeout) /\ SF_vars(HandleKeyFrameGeneration)
  /\ WF_vars(StopFrameBuffer) /\ WF_vars(StopDecoder)

FairSpec == Spec /\ Fairness

-----------------------------------------------------------------------------
\* A delta frame goes to the decoder directly after the frame it refers to, and only
\* if that one could be decoded, also when frames come late or twice, the buffer is
\* cleared while the decode queue waits, or the encoder begins anew.  It never falls
\* back in the stream.
DecoderInSync ==
  [][last_frame' # last_frame /\ ~Key(last_frame')
       => /\ last_frame'.refs = {last_frame.id} /\ ~failed
          /\ last_frame.ts < last_frame'.ts]_vars

\* The frame it refers to is known by its id alone.  When the encoder begins anew it
\* may use an id again; when it does not, the frame is the one sent just before.
IdsUnique == \A m, n \in DOMAIN Ids : Ids[m] = Ids[n] => m = n

DecoderFollowsSender ==
  [][last_frame' # last_frame /\ ~Key(last_frame') => last_frame'.ts = last_frame.ts + 1]_vars

\* When Stop has returned no frame reaches the decoder, which is destroyed then.
NoDecodeAfterStop ==
  [][worker_pc = "stopped" => last_frame' = last_frame]_vars

\* A decoder that gets nothing although packets come does not stay so: a frame
\* becomes decodable or a key frame is requested.
Starved ==
  /\ \A id \in Buffered : ~Decodable(id, required)
  /\ lately = "packets"
  /\ worker_pc = "idle"

StarvedAsksForKeyFrame == Starved ~> (~Starved \/ keyframe_requested)

=============================================================================
