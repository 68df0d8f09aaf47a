--------------------- MODULE VideoReceiveStream_proofs ---------------------
(***************************************************************************)
(* Proofs about the frame buffer and the receive stream around it.         *)
(*                                                                         *)
(* The frame buffer hands out no frame before the frames it refers to, and *)
(* its counts of what is missing are exact, for every set of frames, every *)
(* size of the buffer and every length of the history.                     *)
(*                                                                         *)
(* The first is not inductive: that num_missing_decodable is 0 says        *)
(* nothing by itself.  WellFormed adds that it counts the references not   *)
(* decoded yet, and that each of them which may still come has an entry    *)
(* that knows of the frame, so that the count goes down with it.  The      *)
(* parts are stated of a table g, to use them of frames_ before and after  *)
(* a step and of the tables in between.                                    *)
(*                                                                         *)
(* The receive stream uses the frame buffer as the frame buffer is         *)
(* specified, so that what is proved there holds here, and Stop leaves     *)
(* nothing behind that decodes.                                            *)
(***************************************************************************)
EXTENDS VideoReceiveStream, FiniteSetTheorems, SequenceTheorems, SequenceFacts

-----------------------------------------------------------------------------
(* The frame buffer.                                                        *)

InfoShape ==
  [frame : Frames \cup {NoFrame}, continuous : BOOLEAN, num_missing_continuous : Int,
   num_missing_decodable : Int, dependent_frames : SUBSET Nat]

Shape(g) ==
  /\ DOMAIN g \subseteq Nat /\ IsFiniteSet(DOMAIN g)
  /\ g \in [DOMAIN g -> InfoShape]

\* An entry is that of its frame, which refers to older frames.
Named(g) ==
  \A id \in DOMAIN g : g[id].frame # NoFrame =>
    g[id].frame.id = id /\ \A r \in g[id].frame.refs : r < id

\* Who is told of a frame is here and refers to it.
Linked(g) ==
  \A r \in DOMAIN g : \A d \in g[r].dependent_frames :
    d \in DOMAIN g /\ g[d].frame # NoFrame /\ r \in g[d].frame.refs

Filled(g) == \A id \in DOMAIN g : g[id].continuous => g[id].frame # NoFrame

\* What is here has not been passed, what was decoded has.
Ahead(g, last, dec) ==
  /\ last \in Nat \cup {None} /\ dec \subseteq Nat
  /\ \A id \in DOMAIN g : last < id
  /\ \A r \in dec : r <= last

Counted(g, last, dec) ==
  \A id \in DOMAIN g : g[id].frame # NoFrame =>
    /\ g[id].num_missing_decodable = Cardinality(g[id].frame.refs \ dec)
    /\ \A r \in g[id].frame.refs \ dec :
         last < r => r \in DOMAIN g /\ id \in g[r].dependent_frames

WellFormed(g, last, dec) ==
  Shape(g) /\ Named(g) /\ Linked(g) /\ Filled(g) /\ Ahead(g, last, dec) /\ Counted(g, last, dec)

\* The frame found can be decoded.
Ready(g, found) ==
  found # None =>
    /\ found \in DOMAIN g
    /\ g[found].frame # NoFrame
    /\ g[found].num_missing_decodable = 0

IInv == WellFormed(frames_, last_decoded, decoded) /\ Ready(frames_, frames_to_decode_)

-----------------------------------------------------------------------------
\* What is assumed of a frame.
LEMMA FrameType ==
  ASSUME NEW f \in Frames
  PROVE  /\ f.id \in Nat /\ f.refs \subseteq Nat /\ IsFiniteSet(f.refs) /\ f.ts \in Nat
         /\ f # NoFrame
BY FrameBufferAssumption DEF NoFrame, None

LEMMA NewInfoType == NewInfo \in InfoShape
BY DEF InfoShape, NewInfo

\* The empty table, and one with a key frame only.
LEMMA EmptyWellFormed == WellFormed([id \in {} |-> NewInfo], None, {})
BY FS_EmptySet DEF WellFormed, Shape, Named, Linked, Filled, Ahead, Counted, None

LEMMA KeyFrameWellFormed ==
  ASSUME NEW f \in Frames, Key(f)
  PROVE  WellFormed([id \in {f.id} |-> [NewInfo EXCEPT !.frame = f, !.continuous = TRUE]],
                    None, {})
<1> DEFINE i == [NewInfo EXCEPT !.frame = f, !.continuous = TRUE]
<1> DEFINE g == [id \in {f.id} |-> i]
<1>1. f.id \in Nat /\ f.refs = {} /\ f # NoFrame
  BY FrameType DEF Key
<1>2. /\ i \in InfoShape
      /\ i.frame = f /\ i.num_missing_decodable = 0 /\ i.dependent_frames = {}
  BY NewInfoType DEF NewInfo, InfoShape
<1> HIDE DEF i
<1>3. Shape(g)
  <2>1. DOMAIN g = {f.id}
    OBVIOUS
  <2> QED
    BY <1>1, <1>2, <2>1, FS_Singleton DEF Shape
<1>4. Named(g) /\ Linked(g) /\ Filled(g)
  BY <1>1, <1>2 DEF Named, Linked, Filled
<1>5. Ahead(g, None, {})
  BY <1>1 DEF Ahead, None
<1>6. Counted(g, None, {})
  BY <1>1, <1>2, FS_EmptySet DEF Counted
<1> QED
  BY <1>3, <1>4, <1>5, <1>6 DEF WellFormed, i

-----------------------------------------------------------------------------
\* Propagating continuity changes no frame, no dependency and no count of
\* frames to decode, and reaches only frames that are here.
LEMMA ContinuousWithPresent ==
  ASSUME NEW g, Shape(g), Linked(g),
         NEW start \in DOMAIN g, g[start].frame # NoFrame,
         NEW d \in ContinuousWith(g, start)
  PROVE  g[d].frame # NoFrame
<1> DEFINE C == {c \in DOMAIN g : g[c].frame # NoFrame}
<1>1. start \in C /\ C \in SUBSET DOMAIN g
  OBVIOUS
<1>2. IsClosed(g, C)
  BY DEF IsClosed, Waits, Linked
<1> QED
  BY <1>1, <1>2 DEF ContinuousWith

LEMMA WaitsFinite ==
  ASSUME NEW g, IsFiniteSet(DOMAIN g), NEW start, NEW d
  PROVE  Cardinality(Waits(g, ContinuousWith(g, start), d)) \in Nat
<1>1. Waits(g, ContinuousWith(g, start), d) \in SUBSET DOMAIN g
  BY DEF Waits, ContinuousWith
<1> QED
  BY <1>1, FS_Subset, FS_CardinalityType

LEMMA PropagateWellFormed ==
  ASSUME NEW g, NEW last, NEW dec, WellFormed(g, last, dec),
         NEW start \in DOMAIN g, g[start].frame # NoFrame
  PROVE  /\ WellFormed(PropagateContinuity(g, start), last, dec)
         /\ \A found : Ready(g, found) => Ready(PropagateContinuity(g, start), found)
<1> DEFINE h == PropagateContinuity(g, start)
<1>1. Shape(g) /\ Named(g) /\ Linked(g) /\ Filled(g) /\ Ahead(g, last, dec)
        /\ Counted(g, last, dec)
  BY DEF WellFormed
<1>2. DOMAIN h = DOMAIN g
  BY DEF PropagateContinuity
<1>3. ASSUME NEW id \in DOMAIN g
      PROVE  /\ h[id] \in InfoShape
             /\ h[id].frame = g[id].frame
             /\ h[id].num_missing_decodable = g[id].num_missing_decodable
             /\ h[id].dependent_frames = g[id].dependent_frames
             /\ h[id].continuous => g[id].continuous \/ id \in ContinuousWith(g, start)
  <2>1. g[id] \in InfoShape
    BY <1>1 DEF Shape
  <2> DEFINE n == Cardinality(Waits(g, ContinuousWith(g, start), id))
             m == g[id].num_missing_continuous - n
             c == g[id].continuous \/ id \in ContinuousWith(g, start)
  <2>2. m \in Int
    <3>1. n \in Nat
      BY <1>1, WaitsFinite DEF Shape
    <3>2. g[id].num_missing_continuous \in Int
      BY <2>1 DEF InfoShape
    <3> QED
      BY <3>1, <3>2
  <2>3. h[id] = [g[id] EXCEPT !.num_missing_continuous = m, !.continuous = c]
    BY DEF PropagateContinuity
  <2>4. c \in BOOLEAN
    BY <2>1 DEF InfoShape
  <2> HIDE DEF m, c, h
  <2>5. /\ h[id] \in InfoShape
        /\ h[id].frame = g[id].frame
        /\ h[id].num_missing_decodable = g[id].num_missing_decodable
        /\ h[id].dependent_frames = g[id].dependent_frames
        /\ h[id].continuous = c
    BY <2>1, <2>2, <2>3, <2>4 DEF InfoShape
  <2> QED
    BY <2>5 DEF c
<1>4. h = [id \in DOMAIN g |-> h[id]]
  BY DEF PropagateContinuity
<1> HIDE DEF h
<1>5. Shape(h)
  BY <1>1, <1>2, <1>3, <1>4 DEF Shape
<1>6. Named(h) /\ Linked(h)
  BY <1>1, <1>2, <1>3 DEF Named, Linked
<1>7. Filled(h)
  BY <1>1, <1>2, <1>3, ContinuousWithPresent DEF Filled
<1>8. Ahead(h, last, dec) /\ Counted(h, last, dec)
  BY <1>1, <1>2, <1>3 DEF Ahead, Counted
<1>9. \A found : Ready(g, found) => Ready(h, found)
  BY <1>2, <1>3 DEF Ready
<1> QED
  BY <1>5, <1>6, <1>7, <1>8, <1>9 DEF WellFormed, h
-----------------------------------------------------------------------------
(* The steps.                                                              *)

LEMMA InitIInv == BufferInit => IInv
BY EmptyWellFormed DEF BufferInit, IInv, Ready

\* What the guards of an insertion that keeps the table say of f.
LEMMA Inserted ==
  ASSUME IInv, NEW f \in Frames, ~IsDropped(f), ~Restarts(f)
  PROVE  /\ last_decoded < f.id
         /\ \A r \in f.refs : r < f.id
         /\ Info(f.id).frame = NoFrame
<1>1. ~IsFull /\ ~Jumped(f)
  BY DEF Restarts
<1>2. ~Passed(f.id)
  BY <1>1 DEF IsDropped
<1> QED
  BY <1>1, <1>2, FrameType DEF IsDropped, ValidReferences, HasFrame, Passed, IInv, WellFormed,
     Ahead, None

\* An entry for f, without its frame.
LEMMA Refused ==
  ASSUME IInv, NEW f \in Frames, ~IsDropped(f), ~Restarts(f)
  PROVE  LET g == [id \in Buffered \cup {f.id} |-> Info(id)]
         IN WellFormed(g, last_decoded, decoded) /\ Ready(g, frames_to_decode_)
<1> DEFINE g == [id \in Buffered \cup {f.id} |-> Info(id)]
<1>1. /\ Shape(frames_) /\ Named(frames_) /\ Linked(frames_) /\ Filled(frames_)
      /\ Ahead(frames_, last_decoded, decoded) /\ Counted(frames_, last_decoded, decoded)
      /\ Ready(frames_, frames_to_decode_)
  BY DEF IInv, WellFormed
<1>2. f.id \in Nat /\ last_decoded < f.id
  BY FrameType, Inserted
<1>3. DOMAIN g = Buffered \cup {f.id}
  OBVIOUS
<1>4. \A id \in Buffered : g[id] = frames_[id]
  BY DEF Info
<1>5. f.id \notin Buffered => g[f.id] = NewInfo
  BY DEF Info
<1>6. /\ NewInfo \in InfoShape /\ NewInfo.frame = NoFrame /\ NewInfo.dependent_frames = {}
      /\ NewInfo.continuous = FALSE
  BY NewInfoType DEF NewInfo
<1>7. Shape(g)
  <2>1. IsFiniteSet(Buffered \cup {f.id})
    BY <1>1, FS_AddElement DEF Shape, Buffered
  <2>2. \A id \in DOMAIN g : g[id] \in InfoShape
    BY <1>1, <1>3, <1>4, <1>5, <1>6 DEF Shape, Buffered
  <2> QED
    BY <1>1, <1>2, <1>3, <2>1, <2>2 DEF Shape, Buffered
<1> HIDE DEF g
<1>8. Named(g) /\ Linked(g) /\ Filled(g)
  BY <1>1, <1>3, <1>4, <1>5, <1>6 DEF Named, Linked, Filled, Buffered
<1>9. Ahead(g, last_decoded, decoded)
  BY <1>1, <1>2, <1>3 DEF Ahead, Buffered
<1>10. Counted(g, last_decoded, decoded)
  BY <1>1, <1>3, <1>4, <1>5, <1>6 DEF Counted, Buffered
<1>11. Ready(g, frames_to_decode_)
  BY <1>1, <1>3, <1>4 DEF Ready, Buffered
<1> QED
  BY <1>7, <1>8, <1>9, <1>10, <1>11 DEF WellFormed, g

\* What f waits for is what it refers to and has not been decoded.
LEMMA UnfulfilledUndecoded ==
  ASSUME IInv, NEW f \in Frames, ~NeverDecodable(f)
  PROVE  Unfulfilled(f) = f.refs \ decoded
<1>1. Ahead(frames_, last_decoded, decoded)
  BY DEF IInv, WellFormed
<1>2. \A r \in f.refs : Passed(r) => r \in decoded
  BY DEF NeverDecodable, WasDecoded
<1>3. \A r \in decoded : Passed(r)
  BY <1>1 DEF Ahead, Passed, None
<1> QED
  BY <1>2, <1>3 DEF Unfulfilled

LEMMA Stored ==
  ASSUME IInv, NEW f \in Frames, ~IsDropped(f), ~Restarts(f), ~NeverDecodable(f)
  PROVE  LET g == WithDependency(f)
         IN /\ WellFormed(g, last_decoded, decoded) /\ Ready(g, frames_to_decode_)
            /\ f.id \in DOMAIN g /\ g[f.id].frame # NoFrame
<1> DEFINE U == Unfulfilled(f)
           g == WithDependency(f)
<1>1. /\ Shape(frames_) /\ Named(frames_) /\ Linked(frames_) /\ Filled(frames_)
      /\ Ahead(frames_, last_decoded, decoded) /\ Counted(frames_, last_decoded, decoded)
      /\ Ready(frames_, frames_to_decode_)
  BY DEF IInv, WellFormed
<1>2. f.id \in Nat /\ f.refs \subseteq Nat /\ IsFiniteSet(f.refs) /\ f # NoFrame
  BY FrameType
<1>3. last_decoded < f.id /\ (\A r \in f.refs : r < f.id) /\ Info(f.id).frame = NoFrame
  BY Inserted
<1>4. U = f.refs \ decoded
  BY UnfulfilledUndecoded
<1>5. IsFiniteSet(U) /\ Cardinality(U) \in Nat /\ f.id \notin U
  BY <1>2, <1>3, <1>4, FS_Subset, FS_CardinalityType
<1>6. \A r \in U : last_decoded < r /\ r \in Nat
  BY <1>1, <1>2 DEF Unfulfilled, Passed, Ahead, None
<1>7. DOMAIN g = Buffered \cup {f.id} \cup U
  BY DEF WithDependency
<1>8. \A id : Info(id) \in InfoShape
  BY <1>1, NewInfoType DEF Info, Shape, Buffered
<1>9. /\ g[f.id] \in InfoShape
      /\ g[f.id].frame = f
      /\ g[f.id].num_missing_decodable = Cardinality(U)
      /\ g[f.id].dependent_frames = Info(f.id).dependent_frames
  <2> DEFINE M == {r \in U : ~Info(r).continuous}
             m == Cardinality(M)
             n == Cardinality(U)
             c == (m = 0)
  <2>1. m \in Int /\ n \in Int
    BY <1>5, FS_Subset, FS_CardinalityType, M \in SUBSET U
  <2>2. g[f.id] = [Info(f.id) EXCEPT !.frame = f, !.num_missing_continuous = m,
                                     !.num_missing_decodable = n, !.continuous = c]
    BY DEF WithDependency
  <2>3. c \in BOOLEAN
    OBVIOUS
  <2> HIDE DEF m, n, c, g
  <2>4. Info(f.id) \in InfoShape
    BY <1>8
  <2>5. /\ g[f.id] \in InfoShape /\ g[f.id].frame = f /\ g[f.id].num_missing_decodable = n
        /\ g[f.id].dependent_frames = Info(f.id).dependent_frames
    BY <2>1, <2>2, <2>3, <2>4 DEF InfoShape
  <2> QED
    BY <2>5 DEF n
<1>10. ASSUME NEW r \in U
       PROVE  /\ g[r] \in InfoShape
              /\ g[r].frame = Info(r).frame /\ g[r].continuous = Info(r).continuous
              /\ g[r].num_missing_decodable = Info(r).num_missing_decodable
              /\ g[r].dependent_frames = Info(r).dependent_frames \cup {f.id}
  <2> DEFINE D == Info(r).dependent_frames \cup {f.id}
  <2>1. g[r] = [Info(r) EXCEPT !.dependent_frames = D]
    BY <1>5 DEF WithDependency
  <2>2. Info(r) \in InfoShape
    BY <1>8
  <2>3. D \in SUBSET Nat
    BY <1>2, <2>2 DEF InfoShape
  <2> HIDE DEF D, g
  <2>4. /\ g[r] \in InfoShape
        /\ g[r].frame = Info(r).frame /\ g[r].continuous = Info(r).continuous
        /\ g[r].num_missing_decodable = Info(r).num_missing_decodable
        /\ g[r].dependent_frames = D
    BY <2>1, <2>2, <2>3 DEF InfoShape
  <2> QED
    BY <2>4 DEF D
<1>11. \A id \in Buffered : id # f.id /\ id \notin U => g[id] = frames_[id]
  BY DEF WithDependency, Info
<1>12. /\ \A id \in Buffered : Info(id) = frames_[id]
       /\ \A id : id \notin Buffered => Info(id) = NewInfo
  BY DEF Info
<1>13. NewInfo.frame = NoFrame /\ NewInfo.dependent_frames = {} /\ NewInfo.continuous = FALSE
  BY DEF NewInfo
<1>14. g = [id \in DOMAIN g |-> g[id]]
  BY DEF WithDependency
<1> HIDE DEF g, U
<1>15. \A id \in Buffered : frames_[id].frame # NoFrame =>
         /\ id # f.id
         /\ g[id].frame = frames_[id].frame
         /\ g[id].num_missing_decodable = frames_[id].num_missing_decodable
  BY <1>3, <1>10, <1>11, <1>12
<1>16. Shape(g)
  <2>1. IsFiniteSet(DOMAIN g)
    <3>1. IsFiniteSet(Buffered \cup {f.id})
      BY <1>1, FS_AddElement DEF Shape, Buffered
    <3>2. IsFiniteSet((Buffered \cup {f.id}) \cup U)
      BY <1>5, <3>1, FS_Union
    <3> QED
      BY <3>2, <1>7
  <2>2. DOMAIN g \subseteq Nat
    BY <1>1, <1>2, <1>6, <1>7 DEF Shape, Buffered
  <2>3. \A id \in DOMAIN g : g[id] \in InfoShape
    BY <1>1, <1>7, <1>9, <1>10, <1>11 DEF Shape, Buffered
  <2> QED
    BY <1>14, <2>1, <2>2, <2>3 DEF Shape
<1>17. \A id \in DOMAIN g : g[id].frame # NoFrame /\ id # f.id =>
         id \in Buffered /\ frames_[id].frame # NoFrame /\ g[id].frame = frames_[id].frame
  BY <1>7, <1>10, <1>11, <1>12, <1>13
<1>18. Named(g)
  BY <1>1, <1>3, <1>9, <1>17 DEF Named, Buffered
<1>19. Linked(g)
  <2> SUFFICES ASSUME NEW r \in DOMAIN g, NEW d \in g[r].dependent_frames
               PROVE  d \in DOMAIN g /\ g[d].frame # NoFrame /\ r \in g[d].frame.refs
    BY DEF Linked
  <2>1. CASE r \in U /\ d = f.id
    BY <2>1, <1>2, <1>4, <1>7, <1>9
  <2>2. CASE ~(r \in U /\ d = f.id)
    <3>1. r \in Buffered /\ d \in frames_[r].dependent_frames
      BY <2>2, <1>7, <1>9, <1>10, <1>11, <1>12, <1>13
    <3> QED
      BY <3>1, <1>1, <1>7, <1>15 DEF Linked, Buffered
  <2> QED
    BY <2>1, <2>2
<1>20. Filled(g)
  BY <1>1, <1>2, <1>7, <1>9, <1>10, <1>11, <1>12, <1>13 DEF Filled, Buffered
<1>21. Ahead(g, last_decoded, decoded)
  BY <1>1, <1>3, <1>6, <1>7 DEF Ahead, Buffered
<1>22. Counted(g, last_decoded, decoded)
  <2> SUFFICES ASSUME NEW id \in DOMAIN g, g[id].frame # NoFrame
               PROVE  /\ g[id].num_missing_decodable = Cardinality(g[id].frame.refs \ decoded)
                      /\ \A r \in g[id].frame.refs \ decoded : last_decoded < r =>
                           r \in DOMAIN g /\ id \in g[r].dependent_frames
    BY DEF Counted
  <2>1. CASE id = f.id
    BY <2>1, <1>4, <1>7, <1>9, <1>10
  <2>2. CASE id # f.id
    <3>1. /\ id \in Buffered /\ frames_[id].frame # NoFrame /\ g[id].frame = frames_[id].frame
          /\ g[id].num_missing_decodable = frames_[id].num_missing_decodable
      BY <2>2, <1>15, <1>17
    <3>2. \A r \in Buffered : frames_[r].dependent_frames \subseteq g[r].dependent_frames
      BY <1>9, <1>10, <1>11, <1>12
    <3> QED
      BY <3>1, <3>2, <1>1, <1>7 DEF Counted, Buffered
  <2> QED
    BY <2>1, <2>2
<1>23. Ready(g, frames_to_decode_)
  BY <1>1, <1>7, <1>15 DEF Ready, Buffered
<1> QED
  BY <1>2, <1>7, <1>9, <1>16, <1>18, <1>19, <1>20, <1>21, <1>22, <1>23 DEF WellFormed, g

-----------------------------------------------------------------------------
\* What refers to the frame that is decoded waits for one frame less.
LEMMA Decoded ==
  ASSUME IInv, NEW id \in Buffered, Ready(frames_, id)
  PROVE  WellFormed(AfterDecoding(id), id, decoded \cup {id})
<1> DEFINE g == AfterDecoding(id)
           dec == decoded \cup {id}
<1>1. /\ Shape(frames_) /\ Named(frames_) /\ Linked(frames_) /\ Filled(frames_)
      /\ Ahead(frames_, last_decoded, decoded) /\ Counted(frames_, last_decoded, decoded)
  BY DEF IInv, WellFormed
<1>2. id \in Nat /\ last_decoded < id /\ last_decoded \in Int
  BY <1>1 DEF Shape, Ahead, Buffered, None
<1>3. DOMAIN g = {j \in Buffered : j > id} /\ g = [j \in DOMAIN g |-> g[j]]
  BY DEF AfterDecoding
<1>4. ASSUME NEW j \in DOMAIN g
      PROVE  /\ g[j] \in InfoShape
             /\ g[j].frame = frames_[j].frame /\ g[j].continuous = frames_[j].continuous
             /\ g[j].dependent_frames = frames_[j].dependent_frames
             /\ g[j].num_missing_decodable =
                  IF j \in frames_[id].dependent_frames
                  THEN frames_[j].num_missing_decodable - 1
                  ELSE frames_[j].num_missing_decodable
  <2> DEFINE m == IF j \in frames_[id].dependent_frames
                  THEN frames_[j].num_missing_decodable - 1
                  ELSE frames_[j].num_missing_decodable
  <2>1. frames_[j] \in InfoShape
    BY <1>1, <1>3 DEF Shape, Buffered
  <2>2. m \in Int
    BY <2>1 DEF InfoShape
  <2>3. g[j] = [frames_[j] EXCEPT !.num_missing_decodable = m]
    BY <1>3 DEF AfterDecoding
  <2> HIDE DEF m, g
  <2>4. /\ g[j] \in InfoShape
        /\ g[j].frame = frames_[j].frame /\ g[j].continuous = frames_[j].continuous
        /\ g[j].dependent_frames = frames_[j].dependent_frames
        /\ g[j].num_missing_decodable = m
    BY <2>1, <2>2, <2>3 DEF InfoShape
  <2> QED
    BY <2>4 DEF m
<1> HIDE DEF g
<1>5. Shape(g)
  <2>1. IsFiniteSet(DOMAIN g)
    BY <1>1, <1>3, FS_Subset DEF Shape, Buffered
  <2> QED
    BY <1>1, <1>3, <1>4, <2>1 DEF Shape, Buffered
<1>6. Named(g) /\ Filled(g)
  BY <1>1, <1>3, <1>4 DEF Named, Filled, Buffered
<1>7. Linked(g)
  <2> SUFFICES ASSUME NEW r \in DOMAIN g, NEW d \in g[r].dependent_frames
               PROVE  d \in DOMAIN g /\ g[d].frame # NoFrame /\ r \in g[d].frame.refs
    BY DEF Linked
  <2>1. d \in Buffered /\ frames_[d].frame # NoFrame /\ r \in frames_[d].frame.refs
    BY <1>1, <1>3, <1>4 DEF Linked, Buffered
  <2>2. r < d
    BY <1>1, <2>1 DEF Named, Buffered
  <2>3. d \in DOMAIN g
    BY <1>1, <1>2, <1>3, <2>1, <2>2 DEF Shape, Buffered
  <2> QED
    BY <1>4, <2>1, <2>3
<1>8. Ahead(g, id, dec)
  BY <1>1, <1>2, <1>3 DEF Ahead, Shape, Buffered
<1>9. Counted(g, id, dec)
  <2> SUFFICES ASSUME NEW j \in DOMAIN g, g[j].frame # NoFrame
               PROVE  /\ g[j].num_missing_decodable = Cardinality(g[j].frame.refs \ dec)
                      /\ \A r \in g[j].frame.refs \ dec :
                           id < r => r \in DOMAIN g /\ j \in g[r].dependent_frames
    BY DEF Counted
  <2> DEFINE R == frames_[j].frame.refs \ decoded
  <2>1. /\ j \in Buffered /\ frames_[j].frame # NoFrame
        /\ frames_[j].num_missing_decodable = Cardinality(R)
        /\ \A r \in R : last_decoded < r => r \in Buffered /\ j \in frames_[r].dependent_frames
    BY <1>1, <1>3, <1>4 DEF Counted, Buffered
  <2>2. frames_[j].frame \in Frames
    BY <1>1, <2>1 DEF Shape, InfoShape, Buffered
  <2>3. IsFiniteSet(R) /\ R \subseteq Nat
    BY <2>2, FrameType, FS_Subset
  <2>4. id \in R <=> j \in frames_[id].dependent_frames
    <3>1. id \notin decoded
      BY <1>1, <1>2 DEF Ahead
    <3>2. j \in frames_[id].dependent_frames => id \in frames_[j].frame.refs
      BY <1>1 DEF Linked, Buffered
    <3> QED
      BY <1>2, <2>1, <3>1, <3>2
  <2>5. g[j].frame.refs \ dec = R \ {id}
    BY <1>4
  <2>6. g[j].num_missing_decodable = Cardinality(R \ {id})
    <3> HIDE DEF R
    <3>1. Cardinality(R \ {id}) = IF id \in R THEN Cardinality(R) - 1 ELSE Cardinality(R)
      BY <2>3, FS_RemoveElement
    <3> QED
      BY <1>4, <2>1, <2>4, <3>1
  <2>7. \A r \in R \ {id} : id < r => r \in DOMAIN g /\ j \in g[r].dependent_frames
    BY <1>2, <1>3, <1>4, <2>1, <2>3
  <2> QED
    BY <2>5, <2>6, <2>7
<1> QED
  BY <1>5, <1>6, <1>7, <1>8, <1>9 DEF WellFormed, g

\* A frame found can be decoded.
LEMMA FoundReady ==
  ASSUME IInv, NEW key_required, FindNextFrame(key_required), frames_' = frames_
  PROVE  Ready(frames_, frames_to_decode_')
BY DEF FindNextFrame, Decodable, Ready, IInv, WellFormed, Filled, Buffered

-----------------------------------------------------------------------------
LEMMA NextIInv == IInv /\ [BufferNext]_bufferVars => IInv'
<1> SUFFICES ASSUME IInv, [BufferNext]_bufferVars
             PROVE  IInv'
  OBVIOUS
<1>1. IInv' <=> WellFormed(frames_', last_decoded', decoded') /\ Ready(frames_', frames_to_decode_')
  BY DEF IInv, WellFormed, Shape, Named, Linked, Filled, Ahead, Counted, Ready
<1>2. ASSUME NEW f \in Frames, InsertFrame(f)
      PROVE  IInv'
  <2>1. CASE DropFrame(f)
    BY <2>1, <1>1 DEF DropFrame, bufferVars, history, waiting, IInv
  <2>2. CASE RestartFrom(f)
    <3>1. Key(f)
      BY <2>2 DEF RestartFrom, Restarts, IsDropped, Jumped
    <3> QED
      BY <2>2, <3>1, <1>1, KeyFrameWellFormed DEF RestartFrom, Ready
  <2>3. CASE RefuseFrame(f)
    BY <2>3, <1>1, Refused DEF RefuseFrame, history
  <2>4. CASE StoreFrame(f)
    <3> DEFINE g == WithDependency(f)
    <3>1. /\ WellFormed(g, last_decoded, decoded) /\ Ready(g, frames_to_decode_)
          /\ f.id \in DOMAIN g /\ g[f.id].frame # NoFrame
      BY <2>4, Stored DEF StoreFrame
    <3>2. /\ WellFormed(PropagateContinuity(g, f.id), last_decoded, decoded)
          /\ Ready(PropagateContinuity(g, f.id), frames_to_decode_)
      BY <3>1, PropagateWellFormed
    <3>3. /\ frames_' = g \/ frames_' = PropagateContinuity(g, f.id)
          /\ UNCHANGED <<frames_to_decode_, last_decoded, decoded>>
      BY <2>4 DEF StoreFrame, history
    <3> QED
      BY <1>1, <3>1, <3>2, <3>3
  <2> QED
    BY <1>2, <2>1, <2>2, <2>3, <2>4 DEF InsertFrame
<1>3. CASE ClearFramesAndHistory
  BY <1>1, <1>3, EmptyWellFormed DEF ClearFramesAndHistory, Ready
<1>4. ASSUME NEW key_required \in BOOLEAN, NextFrame(key_required)
      PROVE  IInv'
  BY <1>1, <1>4, FoundReady DEF NextFrame, bufferVars, history, IInv
<1>5. CASE SearchPosted
  BY <1>1, <1>5, FoundReady DEF SearchPosted, history, IInv
<1>6. CASE WaitOn
  BY <1>1, <1>6, FoundReady DEF WaitOn, history, IInv
<1>7. CASE Timeout \/ StopBuffer
  BY <1>1, <1>7 DEF Timeout, StopBuffer, history, IInv
<1>8. CASE Deliver
  <2>1. frames_to_decode_ \in Buffered /\ Ready(frames_, frames_to_decode_)
    BY <1>8 DEF Deliver, IInv, Ready, Buffered
  <2> QED
    BY <1>1, <1>8, <2>1, Decoded DEF Deliver, Ready
<1>9. CASE UNCHANGED bufferVars
  BY <1>1, <1>9 DEF bufferVars, history, IInv
<1> QED
  BY <1>2, <1>3, <1>4, <1>5, <1>6, <1>7, <1>8, <1>9 DEF BufferNext

\* What is handed out waits for nothing that has not been decoded.
LEMMA DeliveredDecodable ==
  ASSUME IInv, Deliver
  PROVE  /\ frames_to_decode_ \in Buffered /\ frames_[frames_to_decode_].frame # NoFrame
         /\ frames_[frames_to_decode_].frame \in Frames
         /\ frames_[frames_to_decode_].frame.refs \subseteq decoded
<1> DEFINE i == frames_[frames_to_decode_]
<1>1. i.frame # NoFrame /\ i.num_missing_decodable = 0 /\ frames_to_decode_ \in Buffered
  BY DEF Deliver, IInv, Ready, Buffered
<1>2. i.frame \in Frames /\ i.num_missing_decodable = Cardinality(i.frame.refs \ decoded)
  BY <1>1 DEF IInv, WellFormed, Shape, InfoShape, Counted, Buffered
<1> HIDE DEF i
<1>3. IsFiniteSet(i.frame.refs \ decoded)
  BY <1>2, FrameType, FS_Subset
<1>4. i.frame.refs \ decoded = {}
  BY <1>1, <1>2, <1>3, FS_EmptySet
<1> QED
  BY <1>1, <1>2, <1>4 DEF i

\* Whatever frames come, in whatever order, and whoever asks and clears when: what
\* is handed out refers only to frames handed out since the last clear.
THEOREM DeliversDecodable == BufferSpec => ReferencesDecoded
<1>1. IInv /\ [BufferNext]_bufferVars =>
        [Deliver => frames_[frames_to_decode_].frame.refs \subseteq decoded]_bufferVars
  BY DeliveredDecodable
<1> QED
  BY <1>1, InitIInv, NextIInv, PTL DEF BufferSpec, ReferencesDecoded

-----------------------------------------------------------------------------
(* Continuity.  num_missing_continuous counts at least what is still here  *)
(* and not continuous, exactly that when no reference was skipped, and is 0 *)
(* exactly when the frame is continuous.                                    *)

\* What d still waits for: entries that know of it and are not continuous, or have
\* just become so (`fresh') and have not told.
Owed(g, fresh, d) ==
  {r \in DOMAIN g : d \in g[r].dependent_frames /\ (~g[r].continuous \/ r \in fresh)}

\* It may be more than what is still here: a frame that was skipped never tells.
SettledEntry(g, fresh, d) ==
  /\ g[d].frame = NoFrame =>
       g[d].num_missing_continuous = 0 /\ g[d].num_missing_decodable = 0
  /\ g[d].frame # NoFrame =>
       /\ Cardinality(Owed(g, fresh, d)) <= g[d].num_missing_continuous
       /\ g[d].continuous <=> g[d].num_missing_continuous = 0

Settled(g, fresh) == \A d \in DOMAIN g : SettledEntry(g, fresh, d)

\* It is no more for a frame none of whose references was skipped.
Whole(g, dec, d) == g[d].frame # NoFrame /\ g[d].frame.refs \ dec \subseteq DOMAIN g

TightEntry(g, dec, fresh, d) ==
  Whole(g, dec, d) => g[d].num_missing_continuous = Cardinality(Owed(g, fresh, d))

Tight(g, dec, fresh) == \A d \in DOMAIN g : TightEntry(g, dec, fresh, d)

LEMMA OwedFinite ==
  ASSUME NEW g, IsFiniteSet(DOMAIN g), NEW fresh, NEW d
  PROVE  IsFiniteSet(Owed(g, fresh, d)) /\ Cardinality(Owed(g, fresh, d)) \in Nat
<1>1. Owed(g, fresh, d) \in SUBSET DOMAIN g
  BY DEF Owed
<1> QED
  BY <1>1, FS_Subset, FS_CardinalityType

LEMMA WaitsBound ==
  ASSUME NEW g, IsFiniteSet(DOMAIN g), NEW B, NEW A \in SUBSET B, B \subseteq DOMAIN g, NEW d
  PROVE  /\ Waits(g, A, d) \subseteq Waits(g, B, d)
         /\ IsFiniteSet(Waits(g, B, d))
         /\ Cardinality(Waits(g, A, d)) \in Nat /\ Cardinality(Waits(g, B, d)) \in Nat
         /\ Cardinality(Waits(g, A, d)) <= Cardinality(Waits(g, B, d))
<1>1. Waits(g, A, d) \in SUBSET Waits(g, B, d) /\ Waits(g, B, d) \in SUBSET DOMAIN g
  BY DEF Waits
<1>2. IsFiniteSet(Waits(g, B, d))
  BY <1>1, FS_Subset
<1>3. IsFiniteSet(Waits(g, A, d)) /\ Cardinality(Waits(g, A, d)) <= Cardinality(Waits(g, B, d))
  BY <1>1, <1>2, FS_Subset
<1> QED
  BY <1>1, <1>2, <1>3, FS_CardinalityType

\* The frames that become continuous with start are closed, hold start, and are
\* in every closed set that does.
LEMMA ContinuousWithClosed ==
  ASSUME NEW g, Shape(g), NEW start \in DOMAIN g
  PROVE  LET C == ContinuousWith(g, start)
         IN /\ C \in SUBSET DOMAIN g /\ start \in C /\ IsClosed(g, C)
            /\ \A B \in SUBSET DOMAIN g : start \in B /\ IsClosed(g, B) => C \subseteq B
<1> DEFINE C == ContinuousWith(g, start)
<1>1. C \in SUBSET DOMAIN g /\ start \in C
  BY DEF ContinuousWith
<1>2. \A B \in SUBSET DOMAIN g : start \in B /\ IsClosed(g, B) => C \subseteq B
  BY DEF ContinuousWith
<1> HIDE DEF C
<1>3. ASSUME NEW d \in DOMAIN g, Waits(g, C, d) # {},
             Cardinality(Waits(g, C, d)) >= g[d].num_missing_continuous
      PROVE  d \in C
  <2>1. ASSUME NEW B \in SUBSET DOMAIN g, start \in B, IsClosed(g, B)
        PROVE  d \in B
    <3>1. C \in SUBSET B
      BY <1>2, <2>1
    <3>2. /\ Waits(g, C, d) \subseteq Waits(g, B, d)
          /\ Cardinality(Waits(g, C, d)) \in Nat /\ Cardinality(Waits(g, B, d)) \in Nat
          /\ Cardinality(Waits(g, C, d)) <= Cardinality(Waits(g, B, d))
      BY <3>1, WaitsBound DEF Shape
    <3>3. g[d].num_missing_continuous \in Int
      BY DEF Shape, InfoShape
    <3>4. Cardinality(Waits(g, B, d)) >= g[d].num_missing_continuous
      BY <1>3, <3>2, <3>3
    <3> QED
      BY <1>3, <2>1, <3>2, <3>4 DEF IsClosed
  <2> QED
    BY <2>1 DEF C, ContinuousWith
<1>4. IsClosed(g, C)
  BY <1>3 DEF IsClosed
<1> QED
  BY <1>1, <1>2, <1>4 DEF C

\* None of them but start was continuous already.
LEMMA ContinuousWithFresh ==
  ASSUME NEW g, Shape(g), Linked(g), NEW start \in DOMAIN g, Settled(g, {start})
  PROVE  /\ \A c \in ContinuousWith(g, start) : c = start \/ ~g[c].continuous
         /\ \A d : Waits(g, ContinuousWith(g, start), d) \subseteq Owed(g, {start}, d)
<1> DEFINE B == {c \in DOMAIN g : c = start \/ ~g[c].continuous}
<1>1. \A d : Waits(g, B, d) = Owed(g, {start}, d)
  BY DEF Waits, Owed
<1>2. ASSUME NEW d \in DOMAIN g, Waits(g, B, d) # {}, d \notin B
      PROVE  FALSE
  <2>1. g[d].frame # NoFrame
    BY <1>2 DEF Waits, Linked
  <2>2. g[d].num_missing_continuous = 0
    BY <1>2, <2>1 DEF Settled, SettledEntry, Shape, InfoShape
  <2>3. Cardinality(Owed(g, {start}, d)) <= 0
    BY <2>1, <2>2 DEF Settled, SettledEntry
  <2>4. IsFiniteSet(Owed(g, {start}, d)) /\ Cardinality(Owed(g, {start}, d)) \in Nat
    BY OwedFinite DEF Shape
  <2>5. Cardinality(Owed(g, {start}, d)) = 0
    BY <2>3, <2>4
  <2> QED
    BY <1>1, <1>2, <2>4, <2>5, FS_EmptySet
<1>3. IsClosed(g, B)
  BY <1>2 DEF IsClosed
<1>4. ContinuousWith(g, start) \subseteq B
  BY <1>3, ContinuousWithClosed
<1> QED
  BY <1>1, <1>4 DEF Waits

\* And each of them but start waits for no frame outside.
LEMMA ContinuousWithLeast ==
  ASSUME NEW g, Shape(g), NEW start \in DOMAIN g,
         NEW d \in ContinuousWith(g, start), d # start
  PROVE  LET C == ContinuousWith(g, start)
         IN Waits(g, C, d) # {} /\ Cardinality(Waits(g, C, d)) >= g[d].num_missing_continuous
<1> DEFINE C == ContinuousWith(g, start)
           B == C \ {d}
<1>1. /\ C \in SUBSET DOMAIN g /\ start \in C /\ IsClosed(g, C)
      /\ \A S \in SUBSET DOMAIN g : start \in S /\ IsClosed(g, S) => C \subseteq S
  BY ContinuousWithClosed
<1> HIDE DEF C
<1>2. d \in C
  BY DEF C
<1> SUFFICES ASSUME ~(/\ Waits(g, C, d) # {}
                      /\ Cardinality(Waits(g, C, d)) >= g[d].num_missing_continuous)
             PROVE  FALSE
  BY DEF C
<1>3. ASSUME NEW e \in DOMAIN g, Waits(g, B, e) # {},
             Cardinality(Waits(g, B, e)) >= g[e].num_missing_continuous
      PROVE  e \in B
  <2>1. /\ Waits(g, B, e) \subseteq Waits(g, C, e)
        /\ Cardinality(Waits(g, B, e)) \in Nat /\ Cardinality(Waits(g, C, e)) \in Nat
        /\ Cardinality(Waits(g, B, e)) <= Cardinality(Waits(g, C, e))
    BY <1>1, WaitsBound DEF Shape
  <2>2. g[e].num_missing_continuous \in Int
    BY DEF Shape, InfoShape
  <2>3. Waits(g, C, e) # {}
    BY <1>3, <2>1
  <2>4. Cardinality(Waits(g, C, e)) >= g[e].num_missing_continuous
    BY <1>3, <2>1, <2>2
  <2> QED
    BY <1>1, <2>3, <2>4 DEF IsClosed
<1>4. IsClosed(g, B)
  BY <1>3 DEF IsClosed
<1> QED
  BY <1>1, <1>2, <1>4

\* Those that become continuous tell the frames that count them, each once.
LEMMA PropagateSettled ==
  ASSUME NEW g, Shape(g), Linked(g), NEW start \in DOMAIN g,
         g[start].frame # NoFrame, g[start].continuous, Settled(g, {start}),
         NEW dec, Tight(g, dec, {start})
  PROVE  /\ Settled(PropagateContinuity(g, start), {})
         /\ Tight(PropagateContinuity(g, start), dec, {})
<1> DEFINE C == ContinuousWith(g, start)
           h == PropagateContinuity(g, start)
<1> SUFFICES ASSUME NEW d \in DOMAIN g
             PROVE  SettledEntry(h, {}, d) /\ TightEntry(h, dec, {}, d)
  BY DEF Settled, Tight, PropagateContinuity
<1> DEFINE W == Waits(g, C, d)
           n == Cardinality(W)
           O == Owed(g, {start}, d)
<1>1. g[d] \in InfoShape /\ g[start] \in InfoShape
  BY DEF Shape
<1>2. \A i \in DOMAIN g :
        /\ h[i].frame = g[i].frame /\ h[i].dependent_frames = g[i].dependent_frames
        /\ h[i].continuous = (g[i].continuous \/ i \in C)
        /\ h[i].num_missing_decodable = g[i].num_missing_decodable
        /\ h[i].num_missing_continuous =
             g[i].num_missing_continuous - Cardinality(Waits(g, C, i))
  <2> SUFFICES ASSUME NEW i \in DOMAIN g
               PROVE  /\ h[i].frame = g[i].frame
                      /\ h[i].dependent_frames = g[i].dependent_frames
                      /\ h[i].continuous = (g[i].continuous \/ i \in C)
                      /\ h[i].num_missing_decodable = g[i].num_missing_decodable
                      /\ h[i].num_missing_continuous =
                           g[i].num_missing_continuous - Cardinality(Waits(g, C, i))
    OBVIOUS
  <2> DEFINE m == g[i].num_missing_continuous - Cardinality(Waits(g, C, i))
             c == g[i].continuous \/ i \in C
  <2>1. h[i] = [g[i] EXCEPT !.num_missing_continuous = m, !.continuous = c]
    BY DEF PropagateContinuity
  <2>2. g[i] \in InfoShape
    BY DEF Shape
  <2> HIDE DEF m, c, h, C
  <2>3. /\ h[i].frame = g[i].frame /\ h[i].dependent_frames = g[i].dependent_frames
        /\ h[i].continuous = c /\ h[i].num_missing_decodable = g[i].num_missing_decodable
        /\ h[i].num_missing_continuous = m
    BY <2>1, <2>2 DEF InfoShape
  <2> QED
    BY <2>3 DEF m, c
<1>3. DOMAIN h = DOMAIN g
  BY DEF PropagateContinuity
<1>4. /\ C \in SUBSET DOMAIN g /\ start \in C /\ IsClosed(g, C)
      /\ W \subseteq O
  BY ContinuousWithClosed, ContinuousWithFresh
<1>5. d \in C /\ d # start => W # {} /\ n >= g[d].num_missing_continuous
  BY ContinuousWithLeast
<1>6. /\ IsFiniteSet(O) /\ Cardinality(O) \in Nat
      /\ IsFiniteSet(W) /\ n \in Nat /\ n <= Cardinality(O)
  <2>1. IsFiniteSet(O) /\ Cardinality(O) \in Nat
    BY OwedFinite DEF Shape
  <2>2. IsFiniteSet(W) /\ n <= Cardinality(O)
    BY <1>4, <2>1, FS_Subset
  <2> QED
    BY <2>1, <2>2, FS_CardinalityType
<1>7. SettledEntry(g, {start}, d) /\ SettledEntry(g, {start}, start)
  BY DEF Settled
<1>8. /\ g[d].num_missing_continuous \in Int /\ g[d].continuous \in BOOLEAN
  BY <1>1 DEF InfoShape
<1> HIDE DEF h, C, W, n, O
<1>9. ASSUME g[d].frame = NoFrame
      PROVE  SettledEntry(h, {}, d)
  <2>1. W = {}
    BY <1>9, <1>4 DEF W, Waits, Linked
  <2>2. n = 0
    BY <2>1, FS_EmptySet DEF n
  <2>3. g[d].num_missing_continuous = 0 /\ g[d].num_missing_decodable = 0
    BY <1>7, <1>9 DEF SettledEntry
  <2> QED
    BY <1>2, <1>9, <2>2, <2>3 DEF SettledEntry, n, W
<1>10. ASSUME g[d].frame # NoFrame
       PROVE  SettledEntry(h, {}, d)
  <2>1. /\ Cardinality(O) <= g[d].num_missing_continuous
        /\ g[d].continuous <=> g[d].num_missing_continuous = 0
    BY <1>7, <1>10 DEF SettledEntry, O
  <2>2. h[d].num_missing_continuous = g[d].num_missing_continuous - n
    BY <1>2 DEF n, W
  <2>3. Cardinality(Owed(h, {}, d)) <= Cardinality(O) - n
    <3>1. Owed(h, {}, d) \in SUBSET (O \ W)
      BY <1>2, <1>3 DEF Owed, O, W, Waits
    <3>2. O \cap W = W
      BY <1>4
    <3>3. IsFiniteSet(O \ W) /\ Cardinality(O \ W) = Cardinality(O) - n
      BY <1>6, <3>2, FS_Difference DEF n
    <3>4. Cardinality(Owed(h, {}, d)) <= Cardinality(O \ W)
      BY <3>1, <3>3, FS_Subset
    <3> QED
      BY <3>3, <3>4
  <2>4. Cardinality(Owed(h, {}, d)) <= h[d].num_missing_continuous
    <3>1. Cardinality(Owed(h, {}, d)) \in Nat
      <4>1. IsFiniteSet(DOMAIN h)
        BY <1>3 DEF Shape
      <4> QED
        BY <4>1, OwedFinite
    <3> QED
      BY <1>6, <1>8, <2>1, <2>2, <2>3, <3>1
  <2>5. g[d].continuous => n = 0
    <3>1. g[d].num_missing_continuous = 0 => n = 0
      BY <1>6, <2>1
    <3> QED
      BY <2>1, <3>1
  <2>6. g[d].continuous => h[d].continuous /\ h[d].num_missing_continuous = 0
    <3>1. g[d].continuous => g[d].num_missing_continuous = 0
      BY <2>1
    <3>2. g[d].num_missing_continuous = 0 /\ n = 0 => h[d].num_missing_continuous = 0
      BY <2>2
    <3> QED
      BY <1>2, <2>5, <3>1, <3>2
  <2>7. ~g[d].continuous /\ d \in C => h[d].continuous /\ h[d].num_missing_continuous = 0
    <3>1. ~g[d].continuous => d # start
      OBVIOUS
    <3>2. ~g[d].continuous /\ d \in C => n >= g[d].num_missing_continuous
      BY <1>5, <3>1
    <3>3. n >= g[d].num_missing_continuous => h[d].num_missing_continuous = 0
      BY <1>6, <1>8, <2>1, <2>2
    <3> QED
      BY <1>2, <3>2, <3>3
  <2>8. ~g[d].continuous /\ d \notin C => ~h[d].continuous /\ h[d].num_missing_continuous # 0
    <3>1. ~g[d].continuous => g[d].num_missing_continuous # 0
      BY <2>1
    <3>2. d \notin C => W = {} \/ ~(n >= g[d].num_missing_continuous)
      BY <1>4 DEF IsClosed, W, n
    <3>3. W = {} => n = 0
      BY FS_EmptySet DEF n
    <3>4. n = 0 /\ g[d].num_missing_continuous # 0 => h[d].num_missing_continuous # 0
      BY <1>8, <2>2
    <3>5. ~(n >= g[d].num_missing_continuous) => h[d].num_missing_continuous # 0
      BY <1>6, <1>8, <2>2
    <3> QED
      BY <1>2, <3>1, <3>2, <3>3, <3>4, <3>5
  <2>9. h[d].continuous <=> h[d].num_missing_continuous = 0
    BY <1>2, <2>6, <2>7, <2>8
  <2>10. h[d].frame # NoFrame
    BY <1>2, <1>10
  <2> QED
    BY <2>4, <2>9, <2>10 DEF SettledEntry
<1>11. TightEntry(h, dec, {}, d)
  <2> SUFFICES ASSUME Whole(h, dec, d)
               PROVE  h[d].num_missing_continuous = Cardinality(Owed(h, {}, d))
    BY DEF TightEntry
  <2>1. Whole(g, dec, d)
    BY <1>2, <1>3 DEF Whole
  <2>2. g[d].num_missing_continuous = Cardinality(O)
    BY <2>1 DEF Tight, TightEntry, O
  <2>3. Owed(h, {}, d) = O \ W
    BY <1>2, <1>3, <1>4 DEF Owed, O, W, Waits
  <2>4. O \cap W = W
    BY <1>4
  <2>5. Cardinality(O \ W) = Cardinality(O) - n
    BY <1>6, <2>4, FS_Difference DEF n
  <2> QED
    BY <1>2, <2>2, <2>3, <2>5 DEF n, W
<1> QED
  BY <1>9, <1>10, <1>11

\* An entry that comes now was not a reference skipped before.
LEMMA StayWhole ==
  ASSUME IInv, NEW d \in Buffered, frames_[d].frame # NoFrame,
         NEW S, \A r \in S : ~(r <= last_decoded),
         frames_[d].frame.refs \ decoded \subseteq Buffered \cup S
  PROVE  frames_[d].frame.refs \ decoded \subseteq Buffered
<1>1. /\ Shape(frames_) /\ Ahead(frames_, last_decoded, decoded)
      /\ Counted(frames_, last_decoded, decoded)
  BY DEF IInv, WellFormed
<1>2. frames_[d].frame \in Frames
  BY <1>1 DEF Shape, InfoShape, Buffered
<1>3. frames_[d].frame.refs \subseteq Nat
  BY <1>2, FrameType
<1>4. \A r \in Nat : ~(r <= last_decoded) => last_decoded < r
  BY <1>1 DEF Ahead, None
<1> QED
  BY <1>1, <1>3, <1>4 DEF Counted, Buffered

\* A frame counts what it waits for when it is stored.
LEMMA StoredSettled ==
  ASSUME IInv, Settled(frames_, {}), Tight(frames_, decoded, {}),
         NEW f \in Frames, ~IsDropped(f), ~Restarts(f), ~NeverDecodable(f)
  PROVE  LET g == WithDependency(f)
         IN /\ Settled(g, {f.id}) /\ Tight(g, decoded, {f.id})
            /\ ~g[f.id].continuous => Settled(g, {}) /\ Tight(g, decoded, {})
<1> DEFINE U == Unfulfilled(f)
           M == {r \in U : ~Info(r).continuous}
           g == WithDependency(f)
<1>1. /\ Shape(frames_) /\ Named(frames_) /\ Linked(frames_) /\ Filled(frames_)
  BY DEF IInv, WellFormed
<1>2. f.id \in Nat /\ f.refs \subseteq Nat /\ IsFiniteSet(f.refs) /\ f # NoFrame
  BY FrameType
<1>3. (\A r \in f.refs : r < f.id) /\ Info(f.id).frame = NoFrame
  BY Inserted
<1>4. IsFiniteSet(U) /\ f.id \notin U /\ U \subseteq f.refs
  <2>1. U \in SUBSET f.refs
    BY DEF Unfulfilled
  <2> QED
    BY <1>2, <1>3, <2>1, FS_Subset
<1>5. Cardinality(M) \in Nat /\ Cardinality(U) \in Nat
  BY <1>4, FS_Subset, FS_CardinalityType, M \in SUBSET U
<1>6. DOMAIN g = Buffered \cup {f.id} \cup U
  BY DEF WithDependency
<1>7. \A id : Info(id) \in InfoShape
  BY <1>1, NewInfoType DEF Info, Shape, Buffered
<1>8. /\ g[f.id].frame = f
      /\ g[f.id].continuous = (Cardinality(M) = 0)
      /\ g[f.id].num_missing_continuous = Cardinality(M)
      /\ g[f.id].dependent_frames = Info(f.id).dependent_frames
  <2> DEFINE m == Cardinality(M)
             n == Cardinality(U)
             c == (m = 0)
  <2>1. g[f.id] = [Info(f.id) EXCEPT !.frame = f, !.num_missing_continuous = m,
                                     !.num_missing_decodable = n, !.continuous = c]
    BY DEF WithDependency
  <2>2. Info(f.id) \in InfoShape
    BY <1>7
  <2> HIDE DEF m, n, c, g
  <2>3. /\ g[f.id].frame = f /\ g[f.id].continuous = c /\ g[f.id].num_missing_continuous = m
        /\ g[f.id].dependent_frames = Info(f.id).dependent_frames
    BY <2>1, <2>2 DEF InfoShape
  <2> QED
    BY <2>3 DEF c, m
<1>9. ASSUME NEW r \in U
      PROVE  /\ g[r].frame = Info(r).frame /\ g[r].continuous = Info(r).continuous
             /\ g[r].num_missing_decodable = Info(r).num_missing_decodable
             /\ g[r].num_missing_continuous = Info(r).num_missing_continuous
             /\ g[r].dependent_frames = Info(r).dependent_frames \cup {f.id}
  <2> DEFINE D == Info(r).dependent_frames \cup {f.id}
  <2>1. g[r] = [Info(r) EXCEPT !.dependent_frames = D]
    BY <1>4 DEF WithDependency
  <2>2. Info(r) \in InfoShape
    BY <1>7
  <2> HIDE DEF D, g
  <2>3. /\ g[r].frame = Info(r).frame /\ g[r].continuous = Info(r).continuous
        /\ g[r].num_missing_decodable = Info(r).num_missing_decodable
        /\ g[r].num_missing_continuous = Info(r).num_missing_continuous
        /\ g[r].dependent_frames = D
    BY <2>1, <2>2 DEF InfoShape
  <2> QED
    BY <2>3 DEF D
<1>10. \A id \in Buffered : id # f.id /\ id \notin U => g[id] = frames_[id]
  BY DEF WithDependency, Info
<1>11. /\ \A id \in Buffered : Info(id) = frames_[id]
       /\ \A id : id \notin Buffered => Info(id) = NewInfo
  BY DEF Info
<1>12. /\ NewInfo.frame = NoFrame /\ NewInfo.dependent_frames = {} /\ NewInfo.continuous = FALSE
       /\ NewInfo.num_missing_decodable = 0 /\ NewInfo.num_missing_continuous = 0
  BY DEF NewInfo
<1>13. Info(f.id).continuous = FALSE
  <2>1. Info(f.id).continuous \in BOOLEAN
    BY <1>7 DEF InfoShape
  <2> QED
    BY <1>1, <1>3, <1>11, <1>12, <2>1 DEF Filled, Buffered
<1> HIDE DEF g, U
<1>14. \A d : d # f.id => Owed(g, {f.id}, d) = Owed(frames_, {}, d)
  <2> SUFFICES ASSUME NEW d, d # f.id
               PROVE  Owed(g, {f.id}, d) = Owed(frames_, {}, d)
    OBVIOUS
  <2>1. ASSUME NEW r \in DOMAIN g
        PROVE  /\ d \in g[r].dependent_frames <=> d \in Info(r).dependent_frames
               /\ (~g[r].continuous \/ r = f.id) <=> ~Info(r).continuous
    BY <1>6, <1>8, <1>9, <1>10, <1>11, <1>13
  <2>2. \A r \in DOMAIN g : d \in Info(r).dependent_frames => r \in Buffered
    BY <1>11, <1>12
  <2> QED
    BY <1>6, <1>11, <2>1, <2>2 DEF Owed, Buffered
<1>15. Owed(g, {f.id}, f.id) = M
  <2>1. \A r \in DOMAIN g : f.id \notin Info(r).dependent_frames
    BY <1>1, <1>3, <1>11, <1>12 DEF Linked, Buffered
  <2>2. ASSUME NEW r \in DOMAIN g
        PROVE  f.id \in g[r].dependent_frames <=> r \in U
    BY <1>6, <1>8, <1>9, <1>10, <1>11, <2>1
  <2> QED
    BY <1>4, <1>6, <1>9, <2>2 DEF Owed
<1>16. ASSUME NEW d \in DOMAIN g
       PROVE  SettledEntry(g, {f.id}, d)
  <2>1. CASE d = f.id
    <3>1. g[d].frame # NoFrame /\ g[d].num_missing_continuous = Cardinality(M)
      BY <1>2, <1>8, <2>1
    <3>2. Owed(g, {f.id}, d) = M /\ Cardinality(M) <= Cardinality(M)
      <4>1. \A n \in Nat : n <= n
        OBVIOUS
      <4> QED
        BY <1>5, <1>15, <2>1, <4>1, Zenon
    <3>3. g[d].continuous <=> Cardinality(M) = 0
      BY <1>8, <2>1
    <3> QED
      BY <3>1, <3>2, <3>3 DEF SettledEntry
  <2>2. CASE d # f.id
    <3>1. /\ g[d].frame = Info(d).frame /\ g[d].continuous = Info(d).continuous
          /\ g[d].num_missing_decodable = Info(d).num_missing_decodable
          /\ g[d].num_missing_continuous = Info(d).num_missing_continuous
      BY <1>6, <1>9, <1>10, <1>11, <2>2
    <3>2. CASE d \in Buffered
      <4>1. SettledEntry(frames_, {}, d)
        BY <3>2 DEF Settled, Buffered
      <4> QED
        BY <1>11, <1>14, <2>2, <3>1, <3>2, <4>1 DEF SettledEntry
    <3>3. CASE d \notin Buffered
      BY <1>11, <1>12, <3>1, <3>3 DEF SettledEntry
    <3> QED
      BY <3>2, <3>3
  <2> QED
    BY <2>1, <2>2
<1>17. ~g[f.id].continuous => \A d : Owed(g, {f.id}, d) = Owed(g, {}, d)
  BY DEF Owed
<1>18. \A r \in U \cup {f.id} : ~(r <= last_decoded)
  <2>1. last_decoded < f.id /\ last_decoded \in Nat \cup {None}
    BY Inserted DEF IInv, WellFormed, Ahead
  <2>2. \A r \in U : ~Passed(r) /\ r \in Nat
    BY <1>2, <1>4 DEF U, Unfulfilled
  <2> QED
    BY <1>2, <2>1, <2>2 DEF Passed, None
<1>19. ASSUME NEW d \in DOMAIN g
       PROVE  TightEntry(g, decoded, {f.id}, d)
  <2> SUFFICES ASSUME Whole(g, decoded, d)
               PROVE  g[d].num_missing_continuous = Cardinality(Owed(g, {f.id}, d))
    BY DEF TightEntry
  <2>1. CASE d = f.id
    BY <1>8, <1>15, <2>1
  <2>2. CASE d # f.id
    <3>1. /\ g[d].frame = Info(d).frame
          /\ g[d].num_missing_continuous = Info(d).num_missing_continuous
      BY <1>6, <1>9, <1>10, <1>11, <2>2
    <3>2. d \in Buffered /\ Info(d) = frames_[d]
      BY <1>11, <1>12, <3>1 DEF Whole
    <3>3. frames_[d].frame.refs \ decoded \subseteq Buffered
      BY <1>6, <1>18, <3>1, <3>2, StayWhole DEF Whole
    <3>4. TightEntry(frames_, decoded, {}, d)
      BY <3>2 DEF Tight, Buffered
    <3> QED
      BY <1>14, <2>2, <3>1, <3>2, <3>3, <3>4 DEF TightEntry, Whole, Buffered
  <2> QED
    BY <2>1, <2>2
<1> QED
  BY <1>16, <1>17, <1>19 DEF Settled, SettledEntry, Tight, TightEntry, g

LEMMA RefusedSettled ==
  ASSUME IInv, Settled(frames_, {}), Tight(frames_, decoded, {}), NEW id, ~(id <= last_decoded)
  PROVE  /\ Settled([i \in Buffered \cup {id} |-> Info(i)], {})
         /\ Tight([i \in Buffered \cup {id} |-> Info(i)], decoded, {})
<1> DEFINE g == [i \in Buffered \cup {id} |-> Info(i)]
<1>1. DOMAIN g = Buffered \cup {id} /\ \A i \in DOMAIN g : g[i] = Info(i)
  OBVIOUS
<1>2. /\ \A i \in Buffered : Info(i) = frames_[i]
      /\ \A i : i \notin Buffered => Info(i) = NewInfo
      /\ NewInfo.frame = NoFrame /\ NewInfo.dependent_frames = {}
      /\ NewInfo.num_missing_decodable = 0 /\ NewInfo.num_missing_continuous = 0
  BY DEF Info, NewInfo
<1> HIDE DEF g
<1>3. \A d : Owed(g, {}, d) = Owed(frames_, {}, d)
  BY <1>1, <1>2 DEF Owed, Buffered
<1>4. ASSUME NEW d \in DOMAIN g
      PROVE  SettledEntry(g, {}, d)
  BY <1>1, <1>2, <1>3 DEF Settled, SettledEntry, Buffered
<1>5. ASSUME NEW d \in DOMAIN g
      PROVE  TightEntry(g, decoded, {}, d)
  <2> SUFFICES ASSUME Whole(g, decoded, d)
               PROVE  g[d].num_missing_continuous = Cardinality(Owed(g, {}, d))
    BY DEF TightEntry
  <2>1. d \in Buffered /\ g[d] = frames_[d]
    BY <1>1, <1>2 DEF Whole
  <2>2. frames_[d].frame.refs \ decoded \subseteq Buffered
    <3>1. frames_[d].frame.refs \ decoded \subseteq Buffered \cup {id}
      BY <1>1, <2>1 DEF Whole
    <3>2. frames_[d].frame # NoFrame /\ \A r \in {id} : ~(r <= last_decoded)
      BY <2>1 DEF Whole
    <3> QED
      BY <2>1, <3>1, <3>2, StayWhole
  <2>3. TightEntry(frames_, decoded, {}, d)
    BY <2>1 DEF Tight, Buffered
  <2> QED
    BY <1>3, <2>1, <2>2, <2>3 DEF TightEntry, Whole, Buffered
<1> QED
  BY <1>4, <1>5 DEF Settled, Tight, g

\* Entries that are passed owe nothing any more; what waits for them goes on waiting.
LEMMA DecodedSettled ==
  ASSUME IInv, Settled(frames_, {}), Tight(frames_, decoded, {}),
         NEW id \in Buffered, frames_[id].frame # NoFrame, frames_[id].num_missing_decodable = 0
  PROVE  Settled(AfterDecoding(id), {}) /\ Tight(AfterDecoding(id), decoded \cup {id}, {})
<1> DEFINE g == AfterDecoding(id)
<1>1. Shape(frames_) /\ Linked(frames_)
  BY DEF IInv, WellFormed
<1>2. DOMAIN g \subseteq Buffered
  BY DEF AfterDecoding
<1>3. ASSUME NEW j \in DOMAIN g
      PROVE  /\ g[j].frame = frames_[j].frame /\ g[j].continuous = frames_[j].continuous
             /\ g[j].num_missing_continuous = frames_[j].num_missing_continuous
             /\ g[j].dependent_frames = frames_[j].dependent_frames
             /\ j \notin frames_[id].dependent_frames =>
                  g[j].num_missing_decodable = frames_[j].num_missing_decodable
  <2> DEFINE m == IF j \in frames_[id].dependent_frames
                  THEN frames_[j].num_missing_decodable - 1
                  ELSE frames_[j].num_missing_decodable
  <2>1. frames_[j] \in InfoShape
    BY <1>1, <1>2 DEF Shape, Buffered
  <2>2. g[j] = [frames_[j] EXCEPT !.num_missing_decodable = m]
    BY DEF AfterDecoding
  <2> HIDE DEF m, g
  <2>3. /\ g[j].frame = frames_[j].frame /\ g[j].continuous = frames_[j].continuous
        /\ g[j].num_missing_continuous = frames_[j].num_missing_continuous
        /\ g[j].dependent_frames = frames_[j].dependent_frames
        /\ g[j].num_missing_decodable = m
    BY <2>1, <2>2 DEF InfoShape
  <2> QED
    BY <2>3 DEF m
<1> HIDE DEF g
<1>4. ASSUME NEW d \in DOMAIN g
      PROVE  SettledEntry(g, {}, d)
  <2>1. d \in Buffered /\ SettledEntry(frames_, {}, d)
    BY <1>2 DEF Settled, Buffered
  <2>2. CASE g[d].frame = NoFrame
    <3>1. frames_[d].frame = NoFrame
      BY <1>3, <2>2
    <3>2. d \notin frames_[id].dependent_frames
      BY <1>1, <3>1 DEF Linked, Buffered
    <3> QED
      BY <1>3, <2>1, <2>2, <3>1, <3>2 DEF SettledEntry
  <2>3. CASE g[d].frame # NoFrame
    <3>1. Owed(g, {}, d) \in SUBSET Owed(frames_, {}, d)
      BY <1>2, <1>3 DEF Owed, Buffered
    <3>2. /\ IsFiniteSet(Owed(frames_, {}, d)) /\ Cardinality(Owed(frames_, {}, d)) \in Nat
      BY <1>1, OwedFinite DEF Shape
    <3>3. /\ Cardinality(Owed(g, {}, d)) \in Nat
          /\ Cardinality(Owed(g, {}, d)) <= Cardinality(Owed(frames_, {}, d))
      BY <3>1, <3>2, FS_Subset, FS_CardinalityType
    <3>4. frames_[d].frame # NoFrame
      BY <1>3, <2>3
    <3>5. /\ Cardinality(Owed(frames_, {}, d)) <= frames_[d].num_missing_continuous
          /\ frames_[d].continuous <=> frames_[d].num_missing_continuous = 0
      BY <2>1, <3>4 DEF SettledEntry
    <3>6. frames_[d].num_missing_continuous \in Int
      BY <1>1, <2>1 DEF Shape, InfoShape, Buffered
    <3>7. Cardinality(Owed(g, {}, d)) <= frames_[d].num_missing_continuous
      BY <3>2, <3>3, <3>5, <3>6
    <3>8. /\ g[d].num_missing_continuous = frames_[d].num_missing_continuous
          /\ g[d].continuous = frames_[d].continuous
      BY <1>3
    <3> QED
      BY <2>3, <3>5, <3>7, <3>8 DEF SettledEntry
  <2> QED
    BY <2>2, <2>3
\* The frame decoded was continuous.
<1>5. frames_[id].continuous
  <2>1. frames_[id].frame \in Frames
    BY <1>1 DEF Shape, InfoShape, Buffered
  <2>2. frames_[id].frame.refs \ decoded = {}
    <3>1. IsFiniteSet(frames_[id].frame.refs \ decoded)
      BY <2>1, FrameType, FS_Difference
    <3>2. Cardinality(frames_[id].frame.refs \ decoded) = 0
      BY DEF IInv, WellFormed, Counted, Buffered
    <3> QED
      BY <3>1, <3>2, FS_EmptySet
  <2>3. Whole(frames_, decoded, id)
    BY <2>2 DEF Whole
  <2>4. Owed(frames_, {}, id) = {}
    <3>1. ASSUME NEW r \in Owed(frames_, {}, id)
          PROVE  FALSE
      <4>1. r \in Buffered /\ r \in frames_[id].frame.refs
        BY <1>1, <3>1 DEF Owed, Linked, Buffered
      <4>2. r \in decoded
        BY <2>2, <4>1
      <4> QED
        BY <4>1, <4>2 DEF IInv, WellFormed, Shape, Ahead, Buffered, None
    <3> QED
      BY <3>1
  <2>5. frames_[id].num_missing_continuous = 0
    BY <2>3, <2>4, FS_EmptySet DEF Tight, TightEntry, Buffered
  <2> QED
    BY <2>5 DEF Settled, SettledEntry, Buffered
<1>6. ASSUME NEW d \in DOMAIN g
      PROVE  TightEntry(g, decoded \cup {id}, {}, d)
  <2> SUFFICES ASSUME Whole(g, decoded \cup {id}, d)
               PROVE  g[d].num_missing_continuous = Cardinality(Owed(g, {}, d))
    BY DEF TightEntry
  <2>1. d \in Buffered /\ g[d].frame = frames_[d].frame
    BY <1>2, <1>3
  <2>2. Whole(frames_, decoded, d)
    BY <1>2, <2>1 DEF Whole, Buffered
  <2>3. frames_[d].num_missing_continuous = Cardinality(Owed(frames_, {}, d))
    BY <2>1, <2>2 DEF Tight, TightEntry, Buffered
  <2>4. ASSUME NEW r \in Owed(frames_, {}, d)
        PROVE  r \in Owed(g, {}, d)
    <3>1. r \in Buffered /\ r \in frames_[d].frame.refs /\ ~frames_[r].continuous
      BY <1>1, <2>4 DEF Owed, Linked, Buffered
    <3>2. r \notin decoded
      BY <3>1 DEF IInv, WellFormed, Shape, Ahead, Buffered, None
    <3>3. r # id
      BY <1>5, <3>1
    <3>4. r \in DOMAIN g
      BY <2>1, <3>1, <3>2, <3>3 DEF Whole
    <3> QED
      BY <1>3, <2>4, <3>4 DEF Owed
  <2>5. ASSUME NEW r \in Owed(g, {}, d)
        PROVE  r \in Owed(frames_, {}, d)
    BY <1>2, <1>3, <2>5 DEF Owed, Buffered
  <2>6. Owed(g, {}, d) = Owed(frames_, {}, d)
    BY <2>4, <2>5
  <2> QED
    BY <1>3, <2>3, <2>6
<1> QED
  BY <1>4, <1>6 DEF Settled, Tight, g

-----------------------------------------------------------------------------
\* The newest of some frames is one of them.
LEMMA NewestOf ==
  ASSUME NEW S \in SUBSET Int, IsFiniteSet(S), S # {}
  PROVE  Newest(S) \in S /\ \A y \in S : y <= Newest(S)
BY HasGreatest DEF Newest

-----------------------------------------------------------------------------
\* The other variables.
Kept ==
  /\ last_continuous_frame_ \in Nat \cup {None} /\ last_decoded_ts \in Nat \cup {None}
  /\ frame_handler_ \in BOOLEAN /\ keyframe_required_ \in BOOLEAN
  /\ searches \in BOOLEAN /\ stopped_ \in BOOLEAN

Bookkeeping == IInv /\ Settled(frames_, {}) /\ Tight(frames_, decoded, {}) /\ Kept

LEMMA BookkeepingImpliesInv == Bookkeeping => BufferInv
<1> SUFFICES ASSUME Bookkeeping
             PROVE  BufferInv
  OBVIOUS
<1>1. /\ Shape(frames_) /\ Ahead(frames_, last_decoded, decoded)
      /\ Counted(frames_, last_decoded, decoded) /\ Ready(frames_, frames_to_decode_)
      /\ Settled(frames_, {}) /\ Tight(frames_, decoded, {}) /\ Kept /\ Linked(frames_)
  BY DEF Bookkeeping, IInv, WellFormed
<1>2. ASSUME NEW id \in Buffered
      PROVE  /\ frames_[id] \in FrameInfo
             /\ HasFrame(id) <=> frames_[id].frame # NoFrame
  <2>1. frames_[id] \in InfoShape
    BY <1>1 DEF Shape, Buffered
  <2>2. SettledEntry(frames_, {}, id)
    BY <1>1 DEF Settled, Buffered
  <2>3. frames_[id].num_missing_continuous \in Nat
    <3>1. Cardinality(Owed(frames_, {}, id)) \in Nat
      BY <1>1, OwedFinite DEF Shape
    <3>2. frames_[id].num_missing_continuous \in Int
      BY <2>1 DEF InfoShape
    <3> QED
      BY <2>2, <3>1, <3>2 DEF SettledEntry
  <2>4. frames_[id].num_missing_decodable \in Nat
    <3>1. CASE frames_[id].frame = NoFrame
      BY <2>2, <3>1 DEF SettledEntry
    <3>2. CASE frames_[id].frame # NoFrame
      <4>1. frames_[id].frame \in Frames
        BY <2>1, <3>2 DEF InfoShape
      <4>2. IsFiniteSet(frames_[id].frame.refs \ decoded)
        BY <4>1, FrameType, FS_Difference
      <4> QED
        BY <1>1, <3>2, <4>2, FS_CardinalityType DEF Counted, Buffered
    <3> QED
      BY <3>1, <3>2
  <2>5. frames_[id] \in FrameInfo
    BY <2>1, <2>3, <2>4 DEF InfoShape, FrameInfo
  <2> QED
    BY <2>5 DEF HasFrame, Info
<1>3. BufferTypeOK
  <2>1. Buffered \subseteq Nat /\ IsFiniteSet(Buffered) /\ frames_ = [i \in Buffered |-> frames_[i]]
    BY <1>1 DEF Shape, Buffered
  <2>2. frames_ \in [Buffered -> FrameInfo]
    BY <1>2, <2>1
  <2>3. frames_to_decode_ \in Nat \cup {None}
    BY <1>1, <2>1 DEF Ready, Buffered
  <2>4. decoded \subseteq Nat /\ last_decoded \in Nat \cup {None}
    BY <1>1 DEF Ahead
  <2> QED
    BY <1>1, <2>1, <2>2, <2>3, <2>4 DEF BufferTypeOK, Kept
<1>4. CountsMatch
  <2> SUFFICES ASSUME NEW id \in Buffered, HasFrame(id)
               PROVE  LET info == frames_[id]
                          undecoded == {r \in info.frame.refs : r \notin decoded}
                      IN /\ info.num_missing_decodable = Cardinality(undecoded)
                         /\ \A r \in undecoded :
                              r \in Buffered => id \in frames_[r].dependent_frames
                         /\ info.continuous <=> info.num_missing_continuous = 0
                         /\ undecoded \subseteq Buffered =>
                              info.num_missing_continuous =
                                Cardinality({r \in undecoded : ~frames_[r].continuous})
    BY DEF CountsMatch
  <2> DEFINE undecoded == {r \in frames_[id].frame.refs : r \notin decoded}
  <2>1. frames_[id].frame # NoFrame
    BY <1>2
  <2>2. undecoded = frames_[id].frame.refs \ decoded
    OBVIOUS
  <2>3. frames_[id].num_missing_decodable = Cardinality(undecoded)
    BY <1>1, <2>1, <2>2 DEF Counted, Buffered
  <2>4. \A r \in undecoded : r \in Buffered => id \in frames_[r].dependent_frames
    BY <1>1, <2>1, <2>2 DEF Counted, Ahead, Buffered
  <2>5. frames_[id].continuous <=> frames_[id].num_missing_continuous = 0
    BY <1>1, <2>1 DEF Settled, SettledEntry, Buffered
  <2>6. ASSUME undecoded \subseteq Buffered
        PROVE  frames_[id].num_missing_continuous =
                 Cardinality({r \in undecoded : ~frames_[r].continuous})
    <3>1. Whole(frames_, decoded, id)
      BY <2>1, <2>2, <2>6 DEF Whole, Buffered
    <3>2. \A r \in Buffered : id \in frames_[r].dependent_frames =>
            r \in frames_[id].frame.refs /\ r \notin decoded
      BY <1>1 DEF Linked, Shape, Ahead, Buffered, None
    <3>3. Owed(frames_, {}, id) = {r \in undecoded : ~frames_[r].continuous}
      BY <2>4, <2>6, <3>2 DEF Owed, Buffered
    <3> QED
      BY <1>1, <3>1, <3>3 DEF Tight, TightEntry, Buffered
  <2> QED
    BY <2>3, <2>4, <2>5, <2>6
<1> QED
  BY <1>3, <1>4 DEF BufferInv

LEMMA InitBookkeeping == BufferInit => Bookkeeping
<1> SUFFICES ASSUME BufferInit
             PROVE  Bookkeeping
  OBVIOUS
<1>1. IInv
  BY InitIInv
<1>2. Settled(frames_, {}) /\ Tight(frames_, decoded, {})
  BY DEF BufferInit, Settled, Tight
<1>3. Kept
  BY DEF BufferInit, Kept
<1> QED
  BY <1>1, <1>2, <1>3 DEF Bookkeeping

\* The newest continuous frame stays a frame.
LEMMA NewestContinuous ==
  ASSUME NEW g, Shape(g), NEW start, NEW last \in Nat \cup {None}
  PROVE  Newest(ContinuousWith(g, start) \cup {last}) \in Nat \cup {None}
<1> DEFINE S == ContinuousWith(g, start) \cup {last}
<1>1. ContinuousWith(g, start) \in SUBSET DOMAIN g
  BY DEF ContinuousWith
<1>2. IsFiniteSet(S)
  BY <1>1, FS_Subset, FS_AddElement DEF Shape
<1>3. S \in SUBSET Int /\ S # {} /\ S \subseteq Nat \cup {None}
  BY <1>1 DEF Shape, None
<1> HIDE DEF S
<1>4. Newest(S) \in S
  BY <1>2, <1>3, NewestOf
<1> QED
  BY <1>3, <1>4 DEF S

LEMMA NextBookkeeping == Bookkeeping /\ [BufferNext]_bufferVars => Bookkeeping'
<1> SUFFICES ASSUME Bookkeeping, [BufferNext]_bufferVars
             PROVE  Bookkeeping'
  OBVIOUS
<1>1. IInv /\ Settled(frames_, {}) /\ Tight(frames_, decoded, {}) /\ Kept
  BY DEF Bookkeeping
<1>2. IInv'
  BY <1>1, NextIInv
<1> DEFINE Good == Settled(frames_', {}) /\ Tight(frames_', decoded', {})
<1>3. SUFFICES Good /\ Kept'
  BY <1>2 DEF Bookkeeping, Settled, SettledEntry, Tight, TightEntry, Whole, Owed
<1>4. ASSUME NEW f \in Frames, InsertFrame(f)
      PROVE  Good /\ Kept'
  <2>1. CASE DropFrame(f)
    BY <1>1, <2>1 DEF DropFrame, bufferVars, Kept
  <2>2. CASE RestartFrom(f)
    <3> DEFINE i == [NewInfo EXCEPT !.frame = f, !.continuous = TRUE]
    <3>1. f.id \in Nat /\ f # NoFrame
      BY FrameType
    <3>2. i.frame = f /\ i.continuous = TRUE /\ i.num_missing_continuous = 0
          /\ i.dependent_frames = {}
      BY DEF NewInfo
    <3> HIDE DEF i
    <3>3. frames_' = [id \in {f.id} |-> i]
      BY <2>2 DEF RestartFrom, i
    <3>4. \A d : Owed(frames_', {}, d) = {}
      BY <3>2, <3>3 DEF Owed
    <3>5. Good
      <4> SUFFICES ASSUME NEW d \in DOMAIN frames_'
                   PROVE  SettledEntry(frames_', {}, d) /\ TightEntry(frames_', decoded', {}, d)
        BY DEF Settled, Tight
      <4>1. frames_'[d] = i
        BY <3>3
      <4>2. Cardinality(Owed(frames_', {}, d)) = 0
        BY <3>4, FS_EmptySet
      <4> QED
        BY <3>1, <3>2, <4>1, <4>2 DEF SettledEntry, TightEntry
    <3>6. Kept'
      BY <1>1, <2>2, <3>1 DEF Kept, RestartFrom, SearchAgain, waiting
    <3> QED
      BY <3>5, <3>6
  <2>3. CASE RefuseFrame(f)
    <3>1. Good
      <4>1. last_decoded < f.id /\ f.id \in Nat /\ last_decoded \in Int
        BY <1>1, <2>3, Inserted, FrameType DEF RefuseFrame, IInv, WellFormed, Ahead, None
      <4>2. ~(f.id <= last_decoded)
        BY <4>1
      <4> QED
        BY <1>1, <2>3, <4>2, RefusedSettled DEF RefuseFrame, history
    <3>2. Kept'
      BY <1>1, <2>3 DEF Kept, RefuseFrame, history, waiting
    <3> QED
      BY <3>1, <3>2
  <2>4. CASE StoreFrame(f)
    <3> DEFINE g == WithDependency(f)
    <3>1. /\ Shape(g) /\ Linked(g) /\ f.id \in DOMAIN g /\ g[f.id].frame # NoFrame
      BY <1>1, <2>4, Stored DEF StoreFrame, WellFormed
    <3>2. /\ Settled(g, {f.id}) /\ Tight(g, decoded, {f.id})
          /\ ~g[f.id].continuous => Settled(g, {}) /\ Tight(g, decoded, {})
          /\ decoded' = decoded
      BY <1>1, <2>4, StoredSettled DEF StoreFrame, history
    <3>3. CASE g[f.id].continuous
      <4>1. frames_' = PropagateContinuity(g, f.id)
        BY <2>4, <3>3 DEF StoreFrame
      <4>2. Good
        BY <3>1, <3>2, <3>3, <4>1, PropagateSettled
      <4>3. last_continuous_frame_' \in Nat \cup {None}
        BY <1>1, <2>4, <3>1, <3>3, NewestContinuous DEF StoreFrame, Kept
      <4>4. Kept'
        BY <1>1, <2>4, <3>3, <4>3 DEF StoreFrame, Kept, SearchAgain, history, waiting
      <4> QED
        BY <4>2, <4>4
    <3>4. CASE ~g[f.id].continuous
      <4>1. Good
        BY <2>4, <3>2, <3>4 DEF StoreFrame
      <4>2. Kept'
        BY <1>1, <2>4, <3>4 DEF StoreFrame, Kept, history, waiting
      <4> QED
        BY <4>1, <4>2
    <3> QED
      BY <3>3, <3>4
  <2> QED
    BY <1>4, <2>1, <2>2, <2>3, <2>4 DEF InsertFrame
<1>5. CASE ClearFramesAndHistory
  <2>1. Good
    BY <1>5 DEF ClearFramesAndHistory, Settled, Tight
  <2>2. Kept'
    BY <1>1, <1>5 DEF ClearFramesAndHistory, Kept, waiting
  <2> QED
    BY <2>1, <2>2
<1>6. ASSUME NEW key_required \in BOOLEAN, NextFrame(key_required)
      PROVE  Good /\ Kept'
  <2>1. frames_' = frames_ /\ last_continuous_frame_' = last_continuous_frame_
        /\ decoded' = decoded /\ last_decoded_ts' = last_decoded_ts /\ searches' = searches /\ stopped_' = stopped_
    BY <1>6 DEF NextFrame, bufferVars, history
  <2>2. frame_handler_' \in BOOLEAN /\ keyframe_required_' \in BOOLEAN
    BY <1>1, <1>6 DEF NextFrame, bufferVars, Kept
  <2> QED
    BY <1>1, <2>1, <2>2 DEF Kept
<1>7. CASE SearchPosted
  BY <1>1, <1>7 DEF SearchPosted, Kept, history, waiting
<1>8. CASE WaitOn
  BY <1>1, <1>8 DEF WaitOn, Kept, history, waiting
<1>9. CASE Timeout
  BY <1>1, <1>9 DEF Timeout, Kept, history
<1>10. CASE StopBuffer
  BY <1>1, <1>10 DEF StopBuffer, Kept, history
<1>11. CASE Deliver
  <2>1. frames_to_decode_ \in Buffered /\ frames_[frames_to_decode_].frame # NoFrame
    BY <1>1, <1>11 DEF Deliver, IInv, Ready, Buffered
  <2>2. Good
    BY <1>1, <1>11, <2>1, DecodedSettled DEF Deliver, IInv, Ready
  <2>3. frames_[frames_to_decode_].frame \in Frames
    BY <1>1, <2>1 DEF IInv, WellFormed, Shape, InfoShape, Buffered
  <2>4. last_decoded_ts' \in Nat
    BY <1>11, <2>3, FrameType DEF Deliver
  <2>5. Kept'
    BY <1>1, <1>11, <2>4 DEF Deliver, Kept
  <2> QED
    BY <2>2, <2>5
<1>12. CASE UNCHANGED bufferVars
  BY <1>1, <1>12 DEF bufferVars, Kept
<1> QED
  BY <1>4, <1>5, <1>6, <1>7, <1>8, <1>9, <1>10, <1>11, <1>12 DEF BufferNext

\* Whatever frames are late, lost, skipped or cleared: the references not yet decoded
\* are counted exactly, so are those not yet continuous unless one was skipped, whoever
\* counts on a frame is told when it comes, and a frame is continuous as soon as, and
\* only when, nothing it counts is missing.
THEOREM BookkeepingIsExact == BufferSpec => []BufferInv
<1>1. BufferSpec => []Bookkeeping
  BY InitBookkeeping, NextBookkeeping, PTL DEF BufferSpec
<1> QED
  BY <1>1, BookkeepingImpliesInv, PTL

-----------------------------------------------------------------------------
(* The receive stream.                                                      *)

\* What is sent is a stream of Ids, and what is being inserted was sent.
SentInv ==
  /\ sent \in Seq(BOOLEAN) /\ Len(sent) <= Len(Ids)
  /\ \A n \in 1..Len(sent) : ~sent[n] => n > 1 /\ Ids[n] = Ids[n - 1] + 1
  /\ worker_pc = "insert" => arrived \in 1..Len(sent)

StopInv ==
  /\ required \in BOOLEAN
  /\ worker_pc = "stopped" => decoder_stopped_

-----------------------------------------------------------------------------
LEMMA FrameAtInFrames ==
  ASSUME SentInv, NEW n \in 1..Len(sent)
  PROVE  FrameAt(n) \in Frames
<1>1. n \in 1..Len(Ids)
  BY IdsAssumption DEF SentInv
<1> QED
  BY <1>1, IdsAssumption DEF SentInv, FrameAt

LEMMA InitSentInv == Init => SentInv /\ StopInv
<1> SUFFICES ASSUME Init
             PROVE  SentInv /\ StopInv
  OBVIOUS
<1>1. sent = << >> /\ worker_pc = "idle"
  BY DEF Init
<1>2. Len(sent) = 0 /\ Len(Ids) \in Nat
  BY <1>1, IdsAssumption
<1> QED
  BY <1>1, <1>2 DEF Init, SentInv, StopInv

LEMMA NextSentInv == SentInv /\ [Next]_vars => SentInv'
<1> SUFFICES ASSUME SentInv, [Next]_vars
             PROVE  SentInv'
  OBVIOUS
<1>1. CASE Send
  <2> DEFINE n == Len(sent) + 1
  <2>1. PICK key \in BOOLEAN :
          /\ n = 1 \/ keyframe_requested => key
          /\ n > 1 /\ Ids[n] # Ids[n - 1] + 1 => key
          /\ sent' = Append(sent, key)
    BY <1>1 DEF Send
  <2>2. worker_pc' = "idle" /\ n <= Len(Ids)
    BY <1>1 DEF Send, worker
  <2>3. /\ sent' \in Seq(BOOLEAN) /\ Len(sent') = n
        /\ \A i \in 1..Len(sent) : sent'[i] = sent[i]
        /\ sent'[n] = key
    BY <2>1 DEF SentInv
  <2>4. \A i \in 1..n : i \in 1..Len(sent) \/ i = n
    BY DEF SentInv
  <2>5. ~key => n > 1 /\ Ids[n] = Ids[n - 1] + 1
    <3>1. n \in Nat \ {0}
      BY DEF SentInv
    <3> QED
      BY <2>1, <3>1
  <2> QED
    BY <2>2, <2>3, <2>4, <2>5 DEF SentInv
<1>2. ASSUME NEW n \in DOMAIN sent, OnCompleteFrame(n)
      PROVE  SentInv'
  BY <1>2 DEF OnCompleteFrame, SentInv, worker
<1>3. CASE Insert \/ Stop \/ StopDecoder
  BY <1>3 DEF Insert, Stop, StopDecoder, sender, SentInv
<1>4. CASE PacketsAge \/ HandleTimeout \/ HandleKeyFrameGeneration \/ DecodeQueue
           \/ StopFrameBuffer \/ UNCHANGED vars
  BY <1>4 DEF PacketsAge, HandleTimeout, HandleKeyFrameGeneration, DecodeQueue, StartNextDecode,
     Search, FrameFound, FrameTimeout, StopFrameBuffer, vars, sender, worker, SentInv
<1> QED
  BY <1>1, <1>2, <1>3, <1>4 DEF Next, Worker

\* A step of the stream is a step of the frame buffer or leaves it alone.
LEMMA NextBuffer == SentInv /\ StopInv /\ [Next]_vars => [BufferNext]_bufferVars
<1> SUFFICES ASSUME SentInv, StopInv, [Next]_vars
             PROVE  [BufferNext]_bufferVars
  OBVIOUS
<1>1. ASSUME NEW n \in DOMAIN sent, OnCompleteFrame(n)
      PROVE  BufferNext
  <2>1. FrameAt(n) \in Frames
    BY FrameAtInFrames DEF SentInv
  <2> QED
    BY <1>1, <2>1 DEF OnCompleteFrame, BufferNext
<1>2. CASE Insert
  BY <1>2, FrameAtInFrames DEF Insert, SentInv, BufferNext
<1>3. CASE DecodeQueue
  <2>1. CASE StartNextDecode
    <3>1. NextFrame(required)
      BY <2>1 DEF StartNextDecode
    <3> QED
      BY <3>1 DEF StopInv, BufferNext
  <2> QED
    BY <1>3, <2>1 DEF DecodeQueue, Search, FrameFound, FrameTimeout, BufferNext
<1>4. CASE StopFrameBuffer
  BY <1>4 DEF StopFrameBuffer, BufferNext
<1>5. CASE Send \/ PacketsAge \/ HandleTimeout \/ HandleKeyFrameGeneration \/ Stop \/ StopDecoder
           \/ UNCHANGED vars
  BY <1>5 DEF Send, PacketsAge, HandleTimeout, HandleKeyFrameGeneration, Stop, StopDecoder, vars
<1> QED
  BY <1>1, <1>2, <1>3, <1>4, <1>5 DEF Next, Worker

LEMMA NextStopInv == StopInv /\ [Next]_vars => StopInv'
<1> SUFFICES ASSUME StopInv, [Next]_vars
             PROVE  StopInv'
  OBVIOUS
<1>1. CASE FrameFound
  <2>1. CASE decoder_stopped_
    BY <1>1, <2>1 DEF FrameFound, StopInv, worker
  <2>2. CASE ~decoder_stopped_
    <3>1. required' \in BOOLEAN
      BY <1>1, <2>2 DEF FrameFound, HandleEncodedFrame, StopInv
    <3> QED
      BY <1>1, <3>1 DEF FrameFound, StopInv, worker
  <2> QED
    BY <2>1, <2>2
<1>2. CASE Stop \/ Insert \/ StopDecoder
  BY <1>2 DEF Stop, Insert, StopDecoder, decoding, StopInv
<1>3. CASE \E n \in DOMAIN sent : OnCompleteFrame(n)
  BY <1>3 DEF OnCompleteFrame, decoding, worker, StopInv
<1>4. CASE Send \/ PacketsAge \/ HandleTimeout \/ HandleKeyFrameGeneration \/ StartNextDecode
           \/ Search \/ FrameTimeout \/ StopFrameBuffer \/ UNCHANGED vars
  BY <1>4 DEF Send, PacketsAge, HandleTimeout, HandleKeyFrameGeneration, StartNextDecode, Search,
     FrameTimeout, StopFrameBuffer, vars, decoding, worker, StopInv
<1> QED
  BY <1>1, <1>2, <1>3, <1>4 DEF Next, Worker, DecodeQueue

-----------------------------------------------------------------------------
\* The receive stream uses the frame buffer as its specification allows.
THEOREM UsesFrameBuffer == Spec => BufferSpec
<1>1. Init => BufferInit
  BY DEF Init
<1> QED
  BY <1>1, InitSentInv, NextSentInv, NextStopInv, NextBuffer, PTL DEF Spec, BufferSpec

\* The decode loop, the worker thread and Stop in any order: no frame is taken
\* from the buffer before those it refers to.
THEOREM StreamDeliversDecodable == Spec => ReferencesDecoded
BY UsesFrameBuffer, DeliversDecodable

\* Stop waits for the decode queue, so nothing is decoded after it.
THEOREM NothingAfterStop == Spec => NoDecodeAfterStop
<1>1. StopInv /\ [Next]_vars => [worker_pc = "stopped" => last_frame' = last_frame]_vars
  <2> SUFFICES ASSUME StopInv, Next, worker_pc = "stopped"
               PROVE  last_frame' = last_frame
    OBVIOUS
  <2>1. CASE FrameFound
    BY <2>1 DEF FrameFound, StopInv, seen
  <2>2. CASE \E n \in DOMAIN sent : OnCompleteFrame(n)
    BY <2>2 DEF OnCompleteFrame, seen
  <2>3. CASE ~FrameFound /\ ~(\E n \in DOMAIN sent : OnCompleteFrame(n))
    BY <2>3 DEF Next, Worker, DecodeQueue, Send, PacketsAge, Insert, HandleTimeout,
       HandleKeyFrameGeneration, Stop, StartNextDecode, Search, FrameTimeout, StopFrameBuffer,
       StopDecoder, seen
  <2> QED
    BY <2>1, <2>2, <2>3
<1> QED
  BY <1>1, InitSentInv, NextStopInv, PTL DEF Spec, NoDecodeAfterStop

-----------------------------------------------------------------------------
(* What the decoder gets.  A frame in the buffer was sent; a frame that    *)
(* failed makes the next search look for a key frame; and what was decoded *)
(* last is what the decoder got last, as long as nothing was cleared.      *)

AllSent ==
  /\ \A id \in Buffered : frames_[id].frame # NoFrame =>
       \E n \in 1..Len(sent) : frames_[id].frame = FrameAt(n)
  /\ last_frame # NoFrame => \E n \in 1..Len(sent) : last_frame = FrameAt(n)

FailureKept ==
  /\ required \in BOOLEAN
  /\ failed => required
  /\ decode_pc = "wait" /\ frame_handler_ => keyframe_required_ = required

\* The frame found is what was asked for.
FoundAsAsked ==
  frame_handler_ /\ frames_to_decode_ # None =>
    /\ keyframe_required_ => Key(frames_[frames_to_decode_].frame)
    /\ last_decoded_ts # None => frames_[frames_to_decode_].frame.ts >= last_decoded_ts

LastDecoded ==
  ~decoder_stopped_ /\ last_decoded # None =>
    /\ last_frame # NoFrame /\ last_frame.id = last_decoded
    /\ last_frame.ts = last_decoded_ts

SyncInv == SentInv /\ StopInv /\ IInv /\ AllSent /\ FailureKept /\ FoundAsAsked /\ LastDecoded

\* An insertion changes no frame that is here, nor what was found.
LEMMA InsertKeepsFrames ==
  ASSUME IInv, NEW f \in Frames, InsertFrame(f)
  PROVE  /\ \A id \in DOMAIN frames_' : frames_'[id].frame # NoFrame =>
              \/ frames_'[id].frame = f
              \/ id \in Buffered /\ frames_'[id].frame = frames_[id].frame
         /\ frames_to_decode_' # None =>
              /\ frames_to_decode_' = frames_to_decode_
              /\ frames_'[frames_to_decode_].frame = frames_[frames_to_decode_].frame
              /\ last_decoded_ts' = last_decoded_ts
         /\ last_decoded' # None =>
              last_decoded' = last_decoded /\ last_decoded_ts' = last_decoded_ts
         /\ UNCHANGED waiting
<1>1. CASE DropFrame(f)
  BY <1>1 DEF DropFrame, bufferVars, history, waiting, Buffered
<1>2. CASE RestartFrom(f)
  <2>1. [NewInfo EXCEPT !.frame = f, !.continuous = TRUE].frame = f
    BY DEF NewInfo
  <2> QED
    BY <1>2, <2>1 DEF RestartFrom, waiting
<1>3. CASE RefuseFrame(f) \/ StoreFrame(f)
  <2>1. ~IsDropped(f) /\ ~Restarts(f)
    BY <1>3 DEF RefuseFrame, StoreFrame
  <2>2. Info(f.id).frame = NoFrame /\ NewInfo.frame = NoFrame
    BY <2>1, Inserted DEF NewInfo
  <2>3. UNCHANGED <<frames_to_decode_, history, waiting>>
    BY <1>3 DEF RefuseFrame, StoreFrame
  <2>4. frames_to_decode_ # None =>
          frames_to_decode_ \in Buffered /\ frames_[frames_to_decode_].frame # NoFrame
    BY DEF IInv, Ready, Buffered
  <2>5. \A id \in DOMAIN frames_' :
          frames_'[id].frame = Info(id).frame \/ (id = f.id /\ frames_'[id].frame = f)
    <3>1. CASE RefuseFrame(f)
      BY <3>1 DEF RefuseFrame
    <3>2. CASE StoreFrame(f)
      <4> DEFINE g == WithDependency(f)
                 h == PropagateContinuity(g, f.id)
      <4>1. \A id \in DOMAIN g : g[id].frame = Info(id).frame \/ (id = f.id /\ g[id].frame = f)
        <5> SUFFICES ASSUME NEW id \in DOMAIN g
                     PROVE  g[id].frame = Info(id).frame \/ (id = f.id /\ g[id].frame = f)
          OBVIOUS
        <5>1. Info(id) \in InfoShape
          BY NewInfoType DEF IInv, WellFormed, Shape, Info, Buffered
        <5>2. /\ id # f.id /\ id \notin Unfulfilled(f) => g[id] = Info(id)
              /\ id # f.id /\ id \in Unfulfilled(f) =>
                   g[id] = [Info(id) EXCEPT
                              !.dependent_frames = Info(id).dependent_frames \cup {f.id}]
          BY DEF WithDependency
        <5>3. id = f.id => g[id].frame = f
          <6> DEFINE m == Cardinality({r \in Unfulfilled(f) : ~Info(r).continuous})
                     n == Cardinality(Unfulfilled(f))
                     c == (m = 0)
          <6>1. id = f.id =>
                  g[id] = [Info(id) EXCEPT !.frame = f, !.num_missing_continuous = m,
                                           !.num_missing_decodable = n, !.continuous = c]
            BY DEF WithDependency
          <6> HIDE DEF m, n, c, g
          <6> QED
            BY <5>1, <6>1 DEF InfoShape
        <5> HIDE DEF g
        <5> QED
          BY <5>1, <5>2, <5>3 DEF InfoShape
      <4>2. DOMAIN h = DOMAIN g
        BY DEF PropagateContinuity
      <4>3. WellFormed(g, last_decoded, decoded)
        BY <3>2, Stored DEF StoreFrame
      <4>4. \A id \in DOMAIN g : h[id].frame = g[id].frame
        <5> SUFFICES ASSUME NEW id \in DOMAIN g
                     PROVE  h[id].frame = g[id].frame
          OBVIOUS
        <5> DEFINE m == g[id].num_missing_continuous
                          - Cardinality(Waits(g, ContinuousWith(g, f.id), id))
                   c == g[id].continuous \/ id \in ContinuousWith(g, f.id)
        <5>1. g[id] \in InfoShape
          BY <4>3 DEF WellFormed, Shape
        <5>2. h[id] = [g[id] EXCEPT !.num_missing_continuous = m, !.continuous = c]
          BY DEF PropagateContinuity
        <5> HIDE DEF g, h, m, c
        <5> QED
          BY <5>1, <5>2 DEF InfoShape
      <4>5. frames_' = g \/ frames_' = h
        BY <3>2 DEF StoreFrame
      <4> HIDE DEF g, h
      <4> QED
        BY <4>1, <4>2, <4>4, <4>5
    <3> QED
      BY <1>3, <3>1, <3>2
  <2>6. Buffered \subseteq DOMAIN frames_'
    <3>1. CASE RefuseFrame(f)
      BY <3>1 DEF RefuseFrame
    <3>2. CASE StoreFrame(f)
      <4>1. Buffered \subseteq DOMAIN WithDependency(f)
        BY DEF WithDependency
      <4>2. DOMAIN PropagateContinuity(WithDependency(f), f.id) = DOMAIN WithDependency(f)
        BY DEF PropagateContinuity
      <4>3. \/ frames_' = WithDependency(f)
            \/ frames_' = PropagateContinuity(WithDependency(f), f.id)
        BY <3>2 DEF StoreFrame
      <4> QED
        BY <4>1, <4>2, <4>3
    <3> QED
      BY <1>3, <3>1, <3>2
  <2>7. \A id \in DOMAIN frames_' : frames_'[id].frame # NoFrame =>
          frames_'[id].frame = f \/ (id \in Buffered /\ frames_'[id].frame = frames_[id].frame)
    BY <2>2, <2>5 DEF Info
  <2>8. frames_to_decode_ # None =>
          frames_'[frames_to_decode_].frame = frames_[frames_to_decode_].frame
    BY <2>2, <2>4, <2>5, <2>6 DEF Info
  <2> QED
    BY <2>3, <2>7, <2>8 DEF history
<1> QED
  BY <1>1, <1>2, <1>3 DEF InsertFrame

-----------------------------------------------------------------------------
LEMMA InitSync == Init => SyncInv
<1> SUFFICES ASSUME Init
             PROVE  SyncInv
  OBVIOUS
<1>1. SentInv /\ StopInv /\ IInv
  BY InitSentInv, InitIInv DEF Init
<1>2. AllSent /\ FailureKept /\ FoundAsAsked /\ LastDecoded
  BY DEF Init, BufferInit, Buffered, AllSent, FailureKept, FoundAsAsked, LastDecoded
<1> QED
  BY <1>1, <1>2 DEF SyncInv

\* What was sent stays what it was.
LEMMA SentStays ==
  ASSUME SentInv, [Next]_vars
  PROVE  \A n \in 1..Len(sent) : n \in 1..Len(sent') /\ FrameAt(n)' = FrameAt(n)
<1>1. CASE Send
  <2>1. PICK key \in BOOLEAN : sent' = Append(sent, key)
    BY <1>1 DEF Send
  <2>2. Len(sent') = Len(sent) + 1 /\ \A n \in 1..Len(sent) : sent'[n] = sent[n]
    BY <2>1 DEF SentInv
  <2>3. Len(sent) \in Nat
    BY DEF SentInv
  <2>4. ASSUME NEW n \in 1..Len(sent)
        PROVE  FrameAt(n)' = FrameAt(n)
    <3>1. FrameAt(n)' = [id |-> Ids[n], refs |-> IF sent'[n] THEN {} ELSE {Ids[n - 1]},
                         ts |-> n]
      BY DEF FrameAt
    <3> QED
      BY <2>2, <3>1 DEF FrameAt
  <2>5. \A n \in 1..Len(sent) : n \in 1..Len(sent')
    BY <2>2, <2>3
  <2> QED
    BY <2>4, <2>5
<1>2. CASE ~Send
  <2>1. sent' = sent
    BY <1>2 DEF Next, Worker, DecodeQueue, OnCompleteFrame, Insert, Stop, StopDecoder, sender,
       PacketsAge, HandleTimeout, HandleKeyFrameGeneration, StartNextDecode, Search, FrameFound,
       FrameTimeout, StopFrameBuffer, vars
  <2> QED
    BY <2>1 DEF FrameAt
<1> QED
  BY <1>1, <1>2

SyncParts == AllSent /\ FailureKept /\ FoundAsAsked /\ LastDecoded

\* Steps that leave the buffer and the decoder alone.
LEMMA QuietSync ==
  ASSUME SyncInv, [Next]_vars, UNCHANGED <<bufferVars, decoding, seen>>
  PROVE  SyncParts'
<1>1. AllSent'
  <2>1. frames_' = frames_ /\ last_frame' = last_frame
    BY DEF bufferVars, seen
  <2>2. AllSent
    BY DEF SyncInv
  <2> QED
    BY <2>1, <2>2, SentStays DEF SyncInv, AllSent, Buffered
<1>2. FailureKept' /\ FoundAsAsked' /\ LastDecoded'
  BY DEF SyncInv, FailureKept, FoundAsAsked, LastDecoded, bufferVars, history, decoding, seen
<1> QED
  BY <1>1, <1>2 DEF SyncParts

\* The worker inserts a frame that was sent.
LEMMA InsertSync ==
  ASSUME SyncInv, [Next]_vars, UNCHANGED <<sent, decoding, seen>>,
         NEW n \in 1..Len(sent), InsertFrame(FrameAt(n))
  PROVE  SyncParts'
<1> DEFINE f == FrameAt(n)
<1>1. IInv /\ SentInv /\ AllSent /\ FailureKept /\ FoundAsAsked /\ LastDecoded
  BY DEF SyncInv
<1>2. f \in Frames
  BY <1>1, FrameAtInFrames
<1>3. /\ \A id \in DOMAIN frames_' : frames_'[id].frame # NoFrame =>
           frames_'[id].frame = f \/ (id \in Buffered /\ frames_'[id].frame = frames_[id].frame)
      /\ frames_to_decode_' # None =>
           /\ frames_to_decode_' = frames_to_decode_
           /\ frames_'[frames_to_decode_].frame = frames_[frames_to_decode_].frame
           /\ last_decoded_ts' = last_decoded_ts
      /\ last_decoded' # None =>
           last_decoded' = last_decoded /\ last_decoded_ts' = last_decoded_ts
      /\ UNCHANGED waiting
  BY <1>1, <1>2, InsertKeepsFrames
<1>4. \A i \in 1..Len(sent) : i \in 1..Len(sent') /\ FrameAt(i)' = FrameAt(i)
  BY <1>1, SentStays
<1> HIDE DEF f
<1>5. AllSent'
  <2>1. last_frame' = last_frame
    BY DEF seen
  <2>2. \A id \in DOMAIN frames_' : frames_'[id].frame # NoFrame =>
          \E i \in 1..Len(sent) : frames_'[id].frame = FrameAt(i)
    BY <1>1, <1>3 DEF AllSent, Buffered, f
  <2> QED
    BY <1>1, <1>4, <2>1, <2>2 DEF AllSent, Buffered
<1>6. FailureKept'
  BY <1>1, <1>3 DEF FailureKept, waiting, decoding, seen
<1>7. FoundAsAsked'
  BY <1>1, <1>3 DEF FoundAsAsked, waiting
<1>8. LastDecoded'
  BY <1>1, <1>3 DEF LastDecoded, decoding, seen
<1> QED
  BY <1>5, <1>6, <1>7, <1>8 DEF SyncParts

\* After a clear nothing is known to have been decoded.
LEMMA ClearSync ==
  ASSUME SyncInv, [Next]_vars, UNCHANGED <<sent, decoding, seen>>, ClearFramesAndHistory
  PROVE  SyncParts'
<1>1. AllSent'
  <2>1. last_frame' = last_frame /\ AllSent
    BY DEF seen, SyncInv
  <2> QED
    BY <2>1, SentStays DEF SyncInv, AllSent, Buffered, ClearFramesAndHistory
<1>2. FailureKept' /\ FoundAsAsked' /\ LastDecoded'
  BY DEF SyncInv, FailureKept, FoundAsAsked, LastDecoded, ClearFramesAndHistory, waiting,
     decoding, seen
<1> QED
  BY <1>1, <1>2 DEF SyncParts

\* A search finds what is asked for.
LEMMA FoundAsked ==
  ASSUME NEW key_required, FindNextFrame(key_required), frames_to_decode_' # None
  PROVE  /\ key_required => Key(frames_[frames_to_decode_'].frame)
         /\ last_decoded_ts # None => frames_[frames_to_decode_'].frame.ts >= last_decoded_ts
BY DEF FindNextFrame, Decodable

LEMMA SearchSync ==
  ASSUME SyncInv, [Next]_vars, Search \/ StartNextDecode
  PROVE  SyncParts'
<1>1. FailureKept /\ FoundAsAsked /\ LastDecoded /\ AllSent /\ SentInv
  BY DEF SyncInv
<1>2. /\ frames_' = frames_ /\ last_frame' = last_frame /\ failed' = failed
      /\ last_decoded' = last_decoded /\ last_decoded_ts' = last_decoded_ts
      /\ required' = required /\ decoder_stopped_' = decoder_stopped_
  BY DEF Search, StartNextDecode, SearchPosted, WaitOn, NextFrame, bufferVars, history, decoding,
     seen
<1>3. AllSent' /\ LastDecoded'
  BY <1>1, <1>2, SentStays DEF AllSent, LastDecoded, Buffered
<1>4. CASE Search
  <2>1. UNCHANGED <<decode_pc, frame_handler_, keyframe_required_>>
    BY <1>4 DEF Search, SearchPosted, WaitOn, waiting, decoding
  <2>2. FailureKept'
    BY <1>1, <1>2, <2>1 DEF FailureKept
  <2>3. FoundAsAsked'
    <3>1. CASE frame_handler_
      <4>1. FindNextFrame(keyframe_required_)
        BY <1>4, <3>1 DEF Search, SearchPosted, WaitOn
      <4> QED
        BY <1>2, <2>1, <4>1, FoundAsked DEF FoundAsAsked
    <3>2. CASE ~frame_handler_
      BY <2>1, <3>2 DEF FoundAsAsked
    <3> QED
      BY <3>1, <3>2
  <2> QED
    BY <1>3, <2>2, <2>3 DEF SyncParts
<1>5. CASE StartNextDecode
  <2>1. NextFrame(required) /\ ~frame_handler_
    BY <1>5 DEF StartNextDecode, NextFrame
  <2>2. CASE stopped_
    <3>1. ~frame_handler_'
      BY <2>1, <2>2 DEF NextFrame, bufferVars
    <3> QED
      BY <1>1, <1>2, <1>3, <3>1 DEF SyncParts, FailureKept, FoundAsAsked
  <2>3. CASE ~stopped_
    <3>1. keyframe_required_' = required /\ FindNextFrame(required)
      BY <2>1, <2>3 DEF NextFrame
    <3>2. FailureKept'
      BY <1>1, <1>2, <3>1 DEF FailureKept
    <3>3. FoundAsAsked'
      BY <1>2, <3>1, FoundAsked DEF FoundAsAsked
    <3> QED
      BY <1>3, <3>2, <3>3 DEF SyncParts
  <2> QED
    BY <2>2, <2>3
<1> QED
  BY <1>4, <1>5

\* After an error a key frame is required, asked for or not.
LEMMA FrameFoundSync ==
  ASSUME SyncInv, [Next]_vars, FrameFound
  PROVE  SyncParts'
<1> DEFINE F == frames_[frames_to_decode_].frame
<1>1. FailureKept /\ LastDecoded /\ AllSent /\ SentInv /\ IInv
  BY DEF SyncInv
<1>2. Deliver
  BY DEF FrameFound
<1>3. frames_to_decode_ \in Buffered /\ F # NoFrame /\ F \in Frames
  BY <1>1, <1>2, DeliveredDecodable
<1>4. F.id = frames_to_decode_
  BY <1>1, <1>3 DEF IInv, WellFormed, Named, Buffered
<1>5. PICK n \in 1..Len(sent) : F = FrameAt(n)
  BY <1>1, <1>3 DEF AllSent
<1>6. /\ ~decoder_stopped_ => last_frame' = F /\ required' \in BOOLEAN /\ (failed' => required')
      /\ decoder_stopped_ => UNCHANGED <<required, seen>>
  <2>1. CASE decoder_stopped_
    BY <2>1 DEF FrameFound
  <2>2. CASE ~decoder_stopped_
    BY <1>1, <2>2 DEF FrameFound, Decode, HandleEncodedFrame, FailureKept
  <2> QED
    BY <2>1, <2>2
<1>7. ~frame_handler_' /\ last_decoded' = frames_to_decode_ /\ last_decoded_ts' = F.ts
      /\ decoder_stopped_' = decoder_stopped_
  BY <1>2 DEF Deliver, FrameFound
<1>8. \A id \in DOMAIN frames_' : id \in Buffered /\ frames_'[id].frame = frames_[id].frame
  <2> SUFFICES ASSUME NEW id \in DOMAIN frames_'
               PROVE  id \in Buffered /\ frames_'[id].frame = frames_[id].frame
    OBVIOUS
  <2> DEFINE m == IF id \in frames_[frames_to_decode_].dependent_frames
                  THEN frames_[id].num_missing_decodable - 1
                  ELSE frames_[id].num_missing_decodable
  <2>1. /\ id \in Buffered
        /\ frames_'[id] = [frames_[id] EXCEPT !.num_missing_decodable = m]
    BY <1>2 DEF Deliver, AfterDecoding
  <2>2. frames_[id] \in InfoShape
    BY <1>1, <2>1 DEF IInv, WellFormed, Shape, Buffered
  <2> HIDE DEF m
  <2> QED
    BY <2>1, <2>2 DEF InfoShape
<1> HIDE DEF F
<1>9. AllSent'
  <2>1. \A id \in DOMAIN frames_' : frames_'[id].frame # NoFrame =>
          \E i \in 1..Len(sent) : frames_'[id].frame = FrameAt(i)
    BY <1>1, <1>8 DEF AllSent, Buffered
  <2>2. last_frame' # NoFrame => \E i \in 1..Len(sent) : last_frame' = FrameAt(i)
    BY <1>1, <1>5, <1>6 DEF AllSent, seen
  <2> QED
    BY <1>1, <2>1, <2>2, SentStays DEF AllSent, Buffered
<1>10. FailureKept'
  BY <1>1, <1>6, <1>7 DEF FailureKept, seen
<1>11. FoundAsAsked'
  BY <1>7 DEF FoundAsAsked
<1>12. LastDecoded'
  BY <1>3, <1>4, <1>6, <1>7 DEF LastDecoded
<1> QED
  BY <1>9, <1>10, <1>11, <1>12 DEF SyncParts

\* Nobody waits for a frame any more, or nothing is decoded any more.
LEMMA EndSync ==
  ASSUME SyncInv, [Next]_vars, FrameTimeout \/ StopFrameBuffer \/ StopDecoder
  PROVE  SyncParts'
<1>1. FailureKept /\ FoundAsAsked /\ LastDecoded /\ AllSent /\ SentInv
  BY DEF SyncInv
<1>2. /\ frames_' = frames_ /\ last_frame' = last_frame /\ failed' = failed
      /\ last_decoded' = last_decoded /\ last_decoded_ts' = last_decoded_ts
      /\ required' = required /\ frames_to_decode_' = frames_to_decode_
      /\ decoder_stopped_' = decoder_stopped_ \/ decoder_stopped_'
      /\ ~frame_handler_' \/ UNCHANGED <<frame_handler_, keyframe_required_, decode_pc>>
  BY DEF FrameTimeout, StopFrameBuffer, StopDecoder, Timeout, StopBuffer, bufferVars, history,
     decoding, seen
<1>3. AllSent'
  BY <1>1, <1>2, SentStays DEF AllSent, Buffered
<1>4. FailureKept' /\ FoundAsAsked' /\ LastDecoded'
  BY <1>1, <1>2 DEF FailureKept, FoundAsAsked, LastDecoded
<1> QED
  BY <1>3, <1>4 DEF SyncParts

LEMMA NextSync == SyncInv /\ [Next]_vars => SyncInv'
<1> SUFFICES ASSUME SyncInv, [Next]_vars
             PROVE  SyncInv'
  OBVIOUS
<1>1. SentInv' /\ StopInv' /\ IInv'
  BY NextSentInv, NextStopInv, NextBuffer, NextIInv DEF SyncInv
<1>2. SyncParts'
  <2>1. CASE Send \/ PacketsAge \/ HandleTimeout \/ HandleKeyFrameGeneration \/ Stop
             \/ UNCHANGED vars
    BY <2>1, QuietSync DEF Send, PacketsAge, HandleTimeout, HandleKeyFrameGeneration, Stop, vars
  <2>2. ASSUME NEW n \in DOMAIN sent, OnCompleteFrame(n)
        PROVE  SyncParts'
    <3>1. n \in 1..Len(sent)
      BY DEF SyncInv, SentInv
    <3> QED
      BY <2>2, <3>1, InsertSync, ClearSync DEF OnCompleteFrame
  <2>3. CASE Insert
    BY <2>3, InsertSync DEF Insert, SyncInv, SentInv, sender
  <2>4. CASE DecodeQueue \/ StopFrameBuffer \/ StopDecoder
    BY <2>4, SearchSync, FrameFoundSync, EndSync DEF DecodeQueue
  <2> QED
    BY <2>1, <2>2, <2>3, <2>4 DEF Next, Worker
<1> QED
  BY <1>1, <1>2 DEF SyncInv, SyncParts

\* A delta frame that is found refers to what the decoder got last.
LEMMA DecodedInSync ==
  ASSUME SyncInv, FrameFound, last_frame' # last_frame, ~Key(last_frame')
  PROVE  /\ last_frame'.refs = {last_frame.id} /\ ~failed
         /\ last_frame.ts < last_frame'.ts
         /\ IdsUnique => last_frame'.ts = last_frame.ts + 1
<1> DEFINE F == frames_[frames_to_decode_].frame
<1>1. FailureKept /\ FoundAsAsked /\ LastDecoded /\ AllSent /\ SentInv /\ IInv
  BY DEF SyncInv
<1>2. Deliver /\ decode_pc = "wait" /\ frame_handler_ /\ frames_to_decode_ # None
  BY DEF FrameFound, Deliver
<1>3. ~decoder_stopped_
  BY DEF FrameFound, seen
<1>4. last_frame' = F
  BY <1>3 DEF FrameFound, Decode
<1>5. frames_to_decode_ \in Buffered /\ F # NoFrame /\ F \in Frames /\ F.refs \subseteq decoded
  BY <1>1, <1>2, DeliveredDecodable
<1>6. F.id = frames_to_decode_
  BY <1>1, <1>5 DEF IInv, WellFormed, Named, Buffered
<1>7. PICK n \in 1..Len(sent) : F = FrameAt(n)
  BY <1>1, <1>5 DEF AllSent
<1>8. ~sent[n] /\ F.id = Ids[n] /\ F.refs = {Ids[n - 1]} /\ F.ts = n
  BY <1>4, <1>7 DEF FrameAt, Key
<1>9. n > 1 /\ Ids[n] = Ids[n - 1] + 1
  BY <1>1, <1>8 DEF SentInv
<1>10. n \in 1..Len(Ids) /\ n - 1 \in 1..Len(Ids) /\ Ids[n - 1] \in Nat
  <2>1. Len(Ids) \in Nat /\ Len(sent) \in Nat /\ Len(sent) <= Len(Ids)
    BY <1>1, IdsAssumption DEF SentInv
  <2>2. n \in 1..Len(Ids) /\ n - 1 \in 1..Len(Ids)
    BY <1>9, <2>1
  <2> QED
    BY <2>2, IdsAssumption
<1>11. last_decoded = Ids[n - 1]
  <2>1. Ids[n - 1] \in decoded
    BY <1>5, <1>8
  <2>2. Ahead(frames_, last_decoded, decoded)
    BY <1>1 DEF IInv, WellFormed
  <2>3. last_decoded < frames_to_decode_ /\ last_decoded \in Int
    BY <1>5, <2>2 DEF Ahead, Buffered, None
  <2>4. Ids[n - 1] <= last_decoded
    BY <2>1, <2>2 DEF Ahead
  <2> HIDE DEF F
  <2> QED
    BY <1>6, <1>8, <1>9, <1>10, <2>3, <2>4
<1>12. last_frame # NoFrame /\ last_frame.id = Ids[n - 1] /\ last_frame.ts = last_decoded_ts
  BY <1>1, <1>3, <1>10, <1>11 DEF LastDecoded, None
<1>13. PICK m \in 1..Len(sent) : last_frame = FrameAt(m)
  BY <1>1, <1>12 DEF AllSent
<1>14. last_frame.ts = m /\ Ids[m] = Ids[n - 1]
  BY <1>12, <1>13 DEF FrameAt
<1>15. n >= m
  BY <1>1, <1>2, <1>8, <1>12, <1>14 DEF FoundAsAsked, None
<1>16. m # n
  BY <1>9, <1>10, <1>14
<1>17. m < n
  BY <1>15, <1>16
<1>18. ~failed
  BY <1>1, <1>2, <1>4 DEF FailureKept, FoundAsAsked
<1>19. IdsUnique => m = n - 1
  <2>1. m \in 1..Len(Ids)
    BY <1>1, <1>10, <1>17
  <2> QED
    BY <1>10, <1>14, <2>1, IdsAssumption DEF IdsUnique
<1>20. IdsUnique => n = m + 1
  BY <1>19
<1> HIDE DEF F
<1> QED
  BY <1>4, <1>8, <1>12, <1>14, <1>17, <1>18, <1>20

\* Only a frame that is found goes to the decoder.
LEMMA OnlyFrameFound ==
  ASSUME [Next]_vars, last_frame' # last_frame
  PROVE  FrameFound
<1>1. CASE \E n \in DOMAIN sent : OnCompleteFrame(n)
  BY <1>1 DEF OnCompleteFrame, seen
<1>2. CASE ~(\E n \in DOMAIN sent : OnCompleteFrame(n))
  BY <1>2 DEF Next, Worker, DecodeQueue, Send, PacketsAge, Insert, HandleTimeout,
     HandleKeyFrameGeneration, Stop, StartNextDecode, Search, FrameTimeout, StopFrameBuffer,
     StopDecoder, seen, vars
<1> QED
  BY <1>1, <1>2

\* Frames late, lost or twice, clears and errors in any order: a delta frame goes to
\* the decoder directly after a frame with the id it refers to, sent earlier, that
\* could be decoded.
THEOREM StaysInSync == Spec => DecoderInSync
<1>1. SyncInv /\ [Next]_vars =>
        [last_frame' # last_frame /\ ~Key(last_frame')
           => /\ last_frame'.refs = {last_frame.id} /\ ~failed
              /\ last_frame.ts < last_frame'.ts]_vars
  BY OnlyFrameFound, DecodedInSync
<1> QED
  BY <1>1, InitSync, NextSync, PTL DEF Spec, DecoderInSync

\* When no id is used again, that frame is the one the sender sent just before.
THEOREM FollowsSender ==
  ASSUME IdsUnique
  PROVE  Spec => DecoderFollowsSender
<1>1. SyncInv /\ [Next]_vars =>
        [last_frame' # last_frame /\ ~Key(last_frame') => last_frame'.ts = last_frame.ts + 1]_vars
  BY OnlyFrameFound, DecodedInSync
<1> QED
  BY <1>1, InitSync, NextSync, PTL DEF Spec, DecoderFollowsSender
=============================================================================
