---------------------------- MODULE FrameBuffer ----------------------------
(***************************************************************************)
(* FrameBuffer (frame_buffer2.cc): complete frames wait here until they    *)
(* are continuous and decodable.  The worker thread inserts and clears,    *)
(* the decode queue asks for the next frame and gets it, later, from a     *)
(* delayed task.  mutex_ makes each of these one atomic step.              *)
(*                                                                         *)
(* A frame is its id (the unwrapped number of its last packet), the ids it *)
(* refers to and its timestamp.  A frame without references is a key       *)
(* frame.  H.264 has one spatial layer, so a superframe is one frame.      *)
(* Render times are left out: any decodable frame may be the one that is   *)
(* not too late, and a wait may end at any time.                           *)
(***************************************************************************)
EXTENDS Integers, FiniteSets

CONSTANTS Frames,             \* the frames that can come
          MaxFramesBuffered,  \* kMaxFramesBuffered
          HistorySize         \* kMaxFramesHistory

None == -1

ASSUME FrameBufferAssumption ==
  /\ Frames \subseteq [id : Nat, refs : SUBSET Nat, ts : Nat]
  /\ \A f \in Frames : IsFiniteSet(f.refs)
  /\ MaxFramesBuffered \in Nat \ {0}
  /\ HistorySize \in Nat

VARIABLES
  frames_,                \* id -> FrameInfo
  last_continuous_frame_,
  frames_to_decode_,      \* the id of the frame found for decoding, or None
  decoded,                \* decoded_frames_history_: the ids decoded ...
  last_decoded,           \* ... the last of them ...
  last_decoded_ts,        \* ... and its timestamp
  frame_handler_,         \* NextFrame has a handler that waits for its frame
  keyframe_required_,
  searches,               \* a task that searches again has been posted
  stopped_

bufferVars == <<frames_, last_continuous_frame_, frames_to_decode_, decoded, last_decoded,
                last_decoded_ts, frame_handler_, keyframe_required_, searches, stopped_>>

history == <<decoded, last_decoded, last_decoded_ts>>
waiting == <<frame_handler_, keyframe_required_, stopped_>>

\* An entry of frames_ whose frame has not come: others refer to it.
NoFrame == [id |-> None, refs |-> {}, ts |-> None]
NewInfo == [frame |-> NoFrame, continuous |-> FALSE, num_missing_continuous |-> 0,
            num_missing_decodable |-> 0, dependent_frames |-> {}]

Key(f) == f.refs = {}
Buffered == DOMAIN frames_
Info(id) == IF id \in Buffered THEN frames_[id] ELSE NewInfo
HasFrame(id) == Info(id).frame # NoFrame

BufferInit ==
  /\ frames_ = [id \in {} |-> NewInfo]
  /\ last_continuous_frame_ = None
  /\ frames_to_decode_ = None
  /\ decoded = {} /\ last_decoded = None /\ last_decoded_ts = None
  /\ frame_handler_ = FALSE /\ keyframe_required_ = FALSE
  /\ searches = FALSE
  /\ stopped_ = FALSE

-----------------------------------------------------------------------------
(* InsertFrame, on the worker thread.                                      *)

ValidReferences(f) == \A r \in f.refs : r < f.id

\* The history ends at the last decoded frame and reaches HistorySize back.
Passed(r) == last_decoded # None /\ r <= last_decoded
WasDecoded(r) == r \in decoded /\ last_decoded - r < HistorySize

IsFull == Cardinality(Buffered) >= MaxFramesBuffered

\* An id that was passed already, with a newer timestamp: the ids have jumped.
Jumped(f) == Passed(f.id) /\ f.ts > last_decoded_ts /\ Key(f)

\* The frame is dropped, or it is here already.
IsDropped(f) ==
  \/ ~ValidReferences(f)
  \/ IsFull /\ ~Key(f)
  \/ ~IsFull /\ Passed(f.id) /\ ~Jumped(f)
  \/ ~IsFull /\ ~Passed(f.id) /\ HasFrame(f.id)

\* A key frame for which the buffer is cleared first.
Restarts(f) == ~IsDropped(f) /\ (IsFull \/ Jumped(f))

\* It refers to a frame that will not be decoded any more, or is not known to
\* have been.
NeverDecodable(f) == \E r \in f.refs : Passed(r) /\ ~WasDecoded(r)

Unfulfilled(f) == {r \in f.refs : ~Passed(r)}

\* Mutant of WithDependency: what f depends on is not told of it.
WithoutDependency(f) ==
  [id \in Buffered \cup {f.id} |->
     IF id = f.id
     THEN [Info(id) EXCEPT !.frame = f, !.continuous = TRUE]
     ELSE Info(id)]

\* The entry of f, and of the frames that it depends on.
WithDependency(f) ==
  LET missing == Cardinality({r \in Unfulfilled(f) : ~Info(r).continuous})
  IN [id \in Buffered \cup {f.id} \cup Unfulfilled(f) |->
        IF id = f.id
        THEN [Info(id) EXCEPT !.frame = f,
                              !.num_missing_continuous = missing,
                              !.num_missing_decodable = Cardinality(Unfulfilled(f)),
                              !.continuous = (missing = 0)]
        ELSE IF id \in Unfulfilled(f)
        THEN [Info(id) EXCEPT !.dependent_frames = @ \cup {f.id}]
        ELSE Info(id)]

\* PropagateContinuity: the frames of `frames' that become continuous with start
\* are the fewest that hold start and whatever has no other frame to wait for.
Waits(frames, C, d) == {c \in C : d \in frames[c].dependent_frames}

IsClosed(frames, C) ==
  \A d \in DOMAIN frames :
    Waits(frames, C, d) # {}
      /\ Cardinality(Waits(frames, C, d)) >= frames[d].num_missing_continuous => d \in C

ContinuousWith(frames, start) ==
  {d \in DOMAIN frames :
     \A C \in SUBSET DOMAIN frames : start \in C /\ IsClosed(frames, C) => d \in C}

PropagateContinuity(frames, start) ==
  LET C == ContinuousWith(frames, start)
  IN [id \in DOMAIN frames |->
        [frames[id] EXCEPT
           !.num_missing_continuous =
              @ - Cardinality(Waits(frames, C, id)),
           !.continuous = @ \/ id \in C]]

Newest(S) == CHOOSE x \in S : \A y \in S : y <= x

\* Frames that are continuous now may be better ones to return.
SearchAgain == searches' = (searches \/ frame_handler_)

DropFrame(f) == IsDropped(f) /\ UNCHANGED bufferVars

RestartFrom(f) ==
  /\ Restarts(f)
  /\ frames_' = [id \in {f.id} |-> [NewInfo EXCEPT !.frame = f, !.continuous = TRUE]]
  /\ last_continuous_frame_' = f.id
  /\ frames_to_decode_' = None
  /\ decoded' = {} /\ last_decoded' = None /\ last_decoded_ts' = None
  /\ SearchAgain
  /\ UNCHANGED waiting

\* The entry stays, without a frame.
RefuseFrame(f) ==
  /\ ~IsDropped(f) /\ ~Restarts(f) /\ NeverDecodable(f)
  /\ frames_' = [id \in Buffered \cup {f.id} |-> Info(id)]
  /\ UNCHANGED <<last_continuous_frame_, frames_to_decode_, history, waiting, searches>>

StoreFrame(f) ==
  LET stored == WithDependency(f)
      found  == ContinuousWith(stored, f.id)
  IN /\ ~IsDropped(f) /\ ~Restarts(f) /\ ~NeverDecodable(f)
     /\ IF stored[f.id].continuous
        THEN /\ frames_' = PropagateContinuity(stored, f.id)
             /\ last_continuous_frame_' = Newest(found \cup {last_continuous_frame_})
             /\ SearchAgain
        ELSE /\ frames_' = stored
             /\ UNCHANGED <<last_continuous_frame_, searches>>
     /\ UNCHANGED <<frames_to_decode_, history, waiting>>

InsertFrame(f) == DropFrame(f) \/ RestartFrom(f) \/ RefuseFrame(f) \/ StoreFrame(f)

ClearFramesAndHistory ==
  /\ frames_' = [id \in {} |-> NewInfo]
  /\ last_continuous_frame_' = None
  /\ frames_to_decode_' = None
  /\ decoded' = {} /\ last_decoded' = None /\ last_decoded_ts' = None
  /\ UNCHANGED <<waiting, searches>>

-----------------------------------------------------------------------------
(* NextFrame and its callback, on the decode queue.                        *)

\* Mutant of Decodable: what a frame refers to need not be decoded.
DecodableIfContinuous(id, key_required) ==
  /\ id \in Buffered /\ id <= last_continuous_frame_
  /\ frames_[id].continuous
  /\ key_required => Key(frames_[id].frame)

\* FindNextFrame: what it may find for a decoder that needs a key frame or not.
Decodable(id, key_required) ==
  /\ id \in Buffered /\ id <= last_continuous_frame_
  /\ frames_[id].continuous
  /\ frames_[id].num_missing_decodable = 0
  /\ key_required => Key(frames_[id].frame)
  /\ last_decoded_ts # None => frames_[id].frame.ts >= last_decoded_ts

FindNextFrame(key_required) ==
  LET found == {id \in Buffered : Decodable(id, key_required)}
  IN frames_to_decode_' \in (IF found = {} THEN {None} ELSE found)

NextFrame(key_required) ==
  /\ ~frame_handler_
  /\ IF stopped_ THEN UNCHANGED bufferVars
     ELSE /\ frame_handler_' = TRUE
          /\ keyframe_required_' = key_required
          /\ FindNextFrame(key_required)
          /\ UNCHANGED <<frames_, last_continuous_frame_, history, searches, stopped_>>

\* The task posted by InsertFrame: it does nothing when nobody waits.
SearchPosted ==
  /\ searches
  /\ searches' = FALSE
  /\ IF frame_handler_ THEN FindNextFrame(keyframe_required_) ELSE UNCHANGED frames_to_decode_
  /\ UNCHANGED <<frames_, last_continuous_frame_, history, waiting>>

\* The delayed task runs, nothing is found and there is time left.
WaitOn ==
  /\ frame_handler_ /\ frames_to_decode_ = None
  /\ FindNextFrame(keyframe_required_)
  /\ UNCHANGED <<frames_, last_continuous_frame_, history, waiting, searches>>

\* There is no time left: the handler is called without a frame.
Timeout ==
  /\ frame_handler_ /\ frames_to_decode_ = None
  /\ frame_handler_' = FALSE
  /\ UNCHANGED <<frames_, last_continuous_frame_, frames_to_decode_, history,
                 keyframe_required_, searches, stopped_>>

\* GetNextFrame: the frame and all before it leave.
AfterDecoding(id) ==
  [i \in {j \in Buffered : j > id} |->
     [frames_[i] EXCEPT !.num_missing_decodable =
        IF i \in frames_[id].dependent_frames THEN @ - 1 ELSE @]]

Deliver ==
  LET id == frames_to_decode_
  IN /\ frame_handler_ /\ id # None
     /\ frames_' = AfterDecoding(id)
     /\ decoded' = decoded \cup {id}
     /\ last_decoded' = id
     /\ last_decoded_ts' = frames_[id].frame.ts
     /\ frames_to_decode_' = None
     /\ frame_handler_' = FALSE
     /\ UNCHANGED <<last_continuous_frame_, keyframe_required_, searches, stopped_>>

StopBuffer ==
  /\ stopped_' = TRUE
  /\ frame_handler_' = FALSE
  /\ UNCHANGED <<frames_, last_continuous_frame_, frames_to_decode_, history,
                 keyframe_required_, searches>>

BufferNext ==
  \/ \E f \in Frames : InsertFrame(f)
  \/ ClearFramesAndHistory
  \/ \E key_required \in BOOLEAN : NextFrame(key_required)
  \/ SearchPosted
  \/ WaitOn
  \/ Timeout
  \/ Deliver
  \/ StopBuffer

BufferSpec == BufferInit /\ [][BufferNext]_bufferVars

-----------------------------------------------------------------------------
FrameInfo ==
  [frame : Frames \cup {NoFrame}, continuous : BOOLEAN, num_missing_continuous : Nat,
   num_missing_decodable : Nat, dependent_frames : SUBSET Nat]

\* Every variable of the frame buffer has its type.
BufferTypeOK ==
  /\ Buffered \subseteq Nat /\ IsFiniteSet(Buffered)
  /\ frames_ \in [Buffered -> FrameInfo]
  /\ last_continuous_frame_ \in Nat \cup {None}
  /\ frames_to_decode_ \in Nat \cup {None}
  /\ decoded \subseteq Nat
  /\ last_decoded \in Nat \cup {None} /\ last_decoded_ts \in Nat \cup {None}
  /\ {frame_handler_, keyframe_required_, searches, stopped_} \subseteq BOOLEAN

\* A frame is handed out only after every frame it refers to has been, since the
\* buffer was last cleared: num_missing_decodable counts exactly those that have
\* not, in whatever order frames come, are skipped, or are passed by.
ReferencesDecoded ==
  [][Deliver => frames_[frames_to_decode_].frame.refs \subseteq decoded]_bufferVars

\* The bookkeeping of dependencies is exact: what has not been decoded is counted,
\* whoever counts on a frame is told when it comes, and what is not continuous is
\* counted too (frame_buffer2.h:95-110), unless a reference was passed by without
\* being decoded: that frame tells nobody, and the one that waits for it waits on.
CountsMatch ==
  \A id \in Buffered : HasFrame(id) =>
    LET info == frames_[id]
        undecoded == {r \in info.frame.refs : r \notin decoded}
    IN /\ info.num_missing_decodable = Cardinality(undecoded)
       /\ \A r \in undecoded : r \in Buffered => id \in frames_[r].dependent_frames
       /\ info.continuous <=> info.num_missing_continuous = 0
       /\ undecoded \subseteq Buffered =>
            info.num_missing_continuous = Cardinality({r \in undecoded : ~frames_[r].continuous})

\* What the decisions of the buffer rest on, whatever frames are late, lost or cleared.
BufferInv == BufferTypeOK /\ CountsMatch

=============================================================================
