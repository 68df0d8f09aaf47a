-------------------------- MODULE RtdDemuxer_proofs --------------------------
(***************************************************************************)
(* Proofs about RtdDemuxer for all capacities and any number of frames.    *)
(* They are carried out for AnyCallerSpec, the demuxer under any sequence  *)
(* of reads and frees; Spec, with the calls of rtd_read_packet only,       *)
(* implies it.                                                             *)
(***************************************************************************)
EXTENDS RtdDemuxer, SequenceTheorems, SequenceFacts

-----------------------------------------------------------------------------
(* What the sequence operators the queues use do to the elements.          *)

\* The elements of a sequence, and that it has no duplicates, by position.
Elems(s) == {s[i] : i \in 1..Len(s)}
NoDups(s) == \A i, j \in 1..Len(s) : s[i] = s[j] => i = j

\* ToSet and IsInjective of a sequence, by position.
LEMMA SeqElems ==
  ASSUME NEW S, NEW s \in Seq(S)
  PROVE  ToSet(s) = Elems(s) /\ (IsInjective(s) <=> NoDups(s))
BY DEF ToSet, IsInjective, Elems, NoDups

\* Append adds one element at the end.
LEMMA AppendElems ==
  ASSUME NEW S, NEW s \in Seq(S), NEW x \in S
  PROVE  /\ Append(s, x) \in Seq(S)
         /\ Len(Append(s, x)) = Len(s) + 1
         /\ ToSet(Append(s, x)) = ToSet(s) \cup {x}
         /\ IsInjective(s) /\ x \notin ToSet(s) => IsInjective(Append(s, x))
<1>1. Append(s, x) \in Seq(S) /\ Len(Append(s, x)) = Len(s) + 1
  OBVIOUS
<1>2. Elems(Append(s, x)) = Elems(s) \cup {x}
  BY DEF Elems
<1>3. NoDups(s) /\ x \notin Elems(s) => NoDups(Append(s, x))
  BY DEF Elems, NoDups
<1>4. /\ ToSet(s) = Elems(s) /\ (IsInjective(s) <=> NoDups(s))
      /\ ToSet(Append(s, x)) = Elems(Append(s, x))
      /\ (IsInjective(Append(s, x)) <=> NoDups(Append(s, x)))
  BY <1>1, SeqElems
<1> QED
  BY <1>1, <1>2, <1>3, <1>4

\* Tail takes the head away.
LEMMA TailElems ==
  ASSUME NEW S, NEW s \in Seq(S), s # << >>
  PROVE  /\ Head(s) \in S /\ Tail(s) \in Seq(S)
         /\ Len(s) \in Nat \ {0} /\ Len(Tail(s)) = Len(s) - 1
         /\ Head(s) \in ToSet(s)
         /\ ToSet(s) = ToSet(Tail(s)) \cup {Head(s)}
         /\ IsInjective(s) => IsInjective(Tail(s)) /\ Head(s) \notin ToSet(Tail(s))
<1>1. /\ Head(s) = s[1] /\ Head(s) \in S /\ Tail(s) \in Seq(S)
      /\ Len(s) \in Nat \ {0} /\ Len(Tail(s)) = Len(s) - 1
      /\ \A i \in 1..Len(Tail(s)) : Tail(s)[i] = s[i + 1]
  BY HeadTailProperties, EmptySeq
<1>2. \A i \in 1..Len(s) : i = 1 \/ (i - 1 \in 1..Len(Tail(s)) /\ s[i] = Tail(s)[i - 1])
  BY <1>1
<1>3. Elems(s) = Elems(Tail(s)) \cup {Head(s)}
  <2>1. ASSUME NEW i \in 1..Len(s)
        PROVE  s[i] \in Elems(Tail(s)) \cup {Head(s)}
    BY <1>1, <1>2 DEF Elems
  <2>2. ASSUME NEW i \in 1..Len(Tail(s))
        PROVE  Tail(s)[i] \in Elems(s)
    <3>1. i + 1 \in 1..Len(s) /\ Tail(s)[i] = s[i + 1]
      BY <1>1
    <3> QED BY <3>1 DEF Elems
  <2>3. Head(s) \in Elems(s)
    BY <1>1 DEF Elems
  <2> QED BY <2>1, <2>2, <2>3 DEF Elems
<1>4. NoDups(s) => NoDups(Tail(s)) /\ Head(s) \notin Elems(Tail(s))
  BY <1>1 DEF NoDups, Elems
<1>5. /\ ToSet(s) = Elems(s) /\ (IsInjective(s) <=> NoDups(s))
      /\ ToSet(Tail(s)) = Elems(Tail(s)) /\ (IsInjective(Tail(s)) <=> NoDups(Tail(s)))
  BY <1>1, SeqElems
<1> QED
  BY <1>1, <1>3, <1>4, <1>5

\* Front takes the last element away.
LEMMA FrontElems ==
  ASSUME NEW S, NEW s \in Seq(S), s # << >>
  PROVE  /\ Last(s) \in S /\ Front(s) \in Seq(S)
         /\ Len(s) \in Nat \ {0} /\ Len(Front(s)) = Len(s) - 1
         /\ ToSet(s) = ToSet(Front(s)) \cup {Last(s)}
         /\ IsInjective(s) => IsInjective(Front(s)) /\ Last(s) \notin ToSet(Front(s))
<1> DEFINE t == SubSeq(s, 1, Len(s) - 1)
           n == Len(s)
<1>1. n \in Nat \ {0}
  BY EmptySeq
<1>2. \A i \in 1..n : s[i] \in S
  BY <1>1, ElementOfSeq
<1>3. t \in Seq(S) /\ Len(t) = n - 1 /\ \A i \in 1..Len(t) : t[i] = s[i]
  <2>1. 1 \in Int /\ n - 1 \in Int /\ \A i \in 1..n - 1 : s[i] \in S
    BY <1>1, <1>2
  <2>2. /\ t \in Seq(S)
        /\ Len(t) = IF 1 <= n - 1 THEN (n - 1) - 1 + 1 ELSE 0
        /\ \A i \in 1..(n - 1) - 1 + 1 : t[i] = s[1 + i - 1]
    BY <2>1, SubSeqProperties
  <2> HIDE DEF t, n
  <2> QED BY <1>1, <2>2
<1>4. Last(s) = s[n] /\ Front(s) = t
  BY DEF Last, Front
<1>5. ToSet(s) = Elems(s) /\ (IsInjective(s) <=> NoDups(s))
  BY SeqElems
<1>6. ToSet(t) = Elems(t) /\ (IsInjective(t) <=> NoDups(t))
  BY <1>3, SeqElems
<1>7. Elems(s) = {s[i] : i \in 1..n} /\ (NoDups(s) <=> \A i, j \in 1..n : s[i] = s[j] => i = j)
  BY DEF Elems, NoDups
<1> HIDE DEF t, n
<1>8. Elems(s) = Elems(t) \cup {s[n]}
  <2>1. \A i \in 1..n : i = n \/ i \in 1..Len(t)
    BY <1>1, <1>3
  <2>2. ASSUME NEW x \in Elems(s) PROVE x \in Elems(t) \cup {s[n]}
    <3>1. PICK i \in 1..n : x = s[i]
      BY <1>7
    <3>2. i = n \/ (i \in 1..Len(t) /\ x = t[i])
      BY <1>3, <2>1, <3>1
    <3> QED BY <3>1, <3>2 DEF Elems
  <2>3. ASSUME NEW x \in Elems(t) PROVE x \in Elems(s)
    <3>1. PICK i \in 1..Len(t) : x = t[i]
      BY DEF Elems
    <3>2. i \in 1..n /\ x = s[i]
      BY <1>1, <1>3, <3>1
    <3> QED BY <1>7, <3>2
  <2>4. s[n] \in Elems(s)
    BY <1>1, <1>7
  <2> QED BY <2>2, <2>3, <2>4
<1>9. ASSUME NoDups(s) PROVE NoDups(t) /\ s[n] \notin Elems(t)
  <2>1. \A i \in 1..Len(t) : i \in 1..n /\ i # n /\ t[i] = s[i]
    BY <1>1, <1>3
  <2>2. \A i, j \in 1..n : s[i] = s[j] => i = j
    BY <1>7, <1>9
  <2>3. n \in 1..n
    BY <1>1
  <2>4. NoDups(t)
    BY <2>1, <2>2, Zenon DEF NoDups
  <2>5. s[n] \notin Elems(t)
    BY <2>1, <2>2, <2>3, Zenon DEF Elems
  <2> QED
    BY <2>4, <2>5
<1> QED
  BY <1>1, <1>2, <1>3, <1>4, <1>5, <1>6, <1>8, <1>9 DEF n

\* Concatenation joins the elements.
LEMMA ConcatElems ==
  ASSUME NEW S, NEW s \in Seq(S), NEW t \in Seq(S)
  PROVE  /\ s \o t \in Seq(S)
         /\ Len(s \o t) = Len(s) + Len(t)
         /\ ToSet(s \o t) = ToSet(s) \cup ToSet(t)
         /\ IsInjective(s) /\ IsInjective(t) /\ ToSet(s) \cap ToSet(t) = {}
              => IsInjective(s \o t)
<1>1. /\ s \o t \in Seq(S) /\ Len(s \o t) = Len(s) + Len(t)
      /\ Len(s) \in Nat /\ Len(t) \in Nat
      /\ \A i \in 1..Len(s) + Len(t) :
            (s \o t)[i] = IF i <= Len(s) THEN s[i] ELSE t[i - Len(s)]
  BY ConcatProperties, LenProperties
<1>2. \A i \in 1..Len(s) : i \in 1..Len(s) + Len(t) /\ (s \o t)[i] = s[i]
  BY <1>1
<1>3. \A i \in 1..Len(t) : Len(s) + i \in 1..Len(s) + Len(t) /\ (s \o t)[Len(s) + i] = t[i]
  BY <1>1
<1>4. \A i \in 1..Len(s) + Len(t) : i \in 1..Len(s) \/ i - Len(s) \in 1..Len(t)
  BY <1>1
<1>5. Elems(s \o t) = Elems(s) \cup Elems(t)
  <2>1. Elems(s \o t) \subseteq Elems(s) \cup Elems(t)
    BY <1>1, <1>4 DEF Elems
  <2>2. Elems(s) \subseteq Elems(s \o t)
    BY <1>1, <1>2 DEF Elems
  <2>3. Elems(t) \subseteq Elems(s \o t)
    <3>1. ASSUME NEW i \in 1..Len(t)
          PROVE  t[i] \in Elems(s \o t)
      BY <1>1, <1>3 DEF Elems
    <3> QED BY <3>1 DEF Elems
  <2> QED BY <2>1, <2>2, <2>3
<1>6. ASSUME NoDups(s), NoDups(t), Elems(s) \cap Elems(t) = {},
             NEW i \in 1..Len(s \o t), NEW j \in 1..Len(s \o t),
             (s \o t)[i] = (s \o t)[j]
      PROVE  i = j
  <2>1. CASE i <= Len(s) /\ j <= Len(s)
    BY <1>1, <1>6, <2>1 DEF NoDups
  <2>2. CASE i > Len(s) /\ j > Len(s)
    <3>1. i - Len(s) = j - Len(s)
      BY <1>1, <1>6, <2>2 DEF NoDups
    <3> QED BY <1>1, <3>1
  <2>3. CASE i <= Len(s) /\ j > Len(s)
    <3>1. (s \o t)[i] \in Elems(s) /\ (s \o t)[j] \in Elems(t)
      BY <1>1, <2>3 DEF Elems
    <3> QED BY <1>6, <3>1
  <2>4. CASE i > Len(s) /\ j <= Len(s)
    <3>1. (s \o t)[i] \in Elems(t) /\ (s \o t)[j] \in Elems(s)
      BY <1>1, <2>4 DEF Elems
    <3> QED BY <1>6, <3>1
  <2> QED BY <1>1, <2>1, <2>2, <2>3, <2>4
<1>7. /\ ToSet(s) = Elems(s) /\ (IsInjective(s) <=> NoDups(s))
      /\ ToSet(t) = Elems(t) /\ (IsInjective(t) <=> NoDups(t))
      /\ ToSet(s \o t) = Elems(s \o t) /\ (IsInjective(s \o t) <=> NoDups(s \o t))
  BY <1>1, SeqElems
<1>8. NoDups(s) /\ NoDups(t) /\ Elems(s) \cap Elems(t) = {} => NoDups(s \o t)
  BY <1>6 DEF NoDups
<1> QED
  BY <1>1, <1>5, <1>7, <1>8

\* A sequence known by its elements is the tail of the other.
LEMMA IsTail ==
  ASSUME NEW S, NEW s \in Seq(S), s # << >>, NEW t \in Seq(S),
         Len(t) = Len(s) - 1, \A i \in 1..Len(t) : t[i] = s[i + 1]
  PROVE  t = Tail(s)
<1>1. /\ Tail(s) \in Seq(S) /\ Len(Tail(s)) = Len(s) - 1
      /\ \A i \in 1..Len(Tail(s)) : Tail(s)[i] = s[i + 1]
  BY HeadTailProperties
<1> QED BY <1>1, SeqEqual

-----------------------------------------------------------------------------
(* Type correctness of the queues.                                         *)

Cell == [frame: Frame, home: Kind]

QueueTypes ==
  /\ heap \in Seq(Cell)
  /\ queue \in [Kind -> Seq(1..Len(heap))]
  /\ free_list \in [Kind -> Seq(1..Len(heap))]

\* Writing a frame into a buffer leaves the others and every home alone.
LEMMA HeapWrite ==
  ASSUME heap \in Seq(Cell), NEW b \in 1..Len(heap), NEW f \in Frame
  PROVE  LET h == [heap EXCEPT ![b].frame = f]
         IN  /\ h \in Seq(Cell) /\ Len(h) = Len(heap)
             /\ \A c \in 1..Len(heap) : h[c].home = heap[c].home
             /\ \A c \in 1..Len(heap) : c # b => h[c] = heap[c]
             /\ h[b].frame = f
<1> DEFINE h == [heap EXCEPT ![b] = [heap[b] EXCEPT !.frame = f]]
<1>0. heap[b] \in Cell
  BY ElementOfSeq
<1>1. [heap[b] EXCEPT !.frame = f] \in Cell
  BY <1>0 DEF Cell
<1>2. /\ h \in Seq(Cell) /\ Len(h) = Len(heap)
      /\ \A c \in 1..Len(heap) : h[c] = IF c = b THEN [heap[b] EXCEPT !.frame = f] ELSE heap[c]
  BY <1>1, ExceptSeq
<1>3. /\ [heap[b] EXCEPT !.frame = f].home = heap[b].home
      /\ [heap[b] EXCEPT !.frame = f].frame = f
  BY <1>0 DEF Cell
<1> QED
  BY <1>2, <1>3

\* Allocating adds a cell at the end.
LEMMA HeapAppend ==
  ASSUME heap \in Seq(Cell), NEW f \in Frame, NEW k \in Kind
  PROVE  LET h == Append(heap, [frame |-> f, home |-> k])
         IN  /\ h \in Seq(Cell) /\ Len(h) = Len(heap) + 1
             /\ \A c \in 1..Len(heap) : h[c] = heap[c]
             /\ h[Len(heap) + 1] = [frame |-> f, home |-> k]
<1>1. [frame |-> f, home |-> k] \in Cell
  BY DEF Cell
<1> QED
  BY <1>1

LEMMA WriteBackTypes ==
  ASSUME QueueTypes, NEW k \in Kind, NEW f \in Frame, WriteBack(k, f)
  PROVE  QueueTypes' /\ Len(heap) \in Nat /\ Len(heap') \in Nat /\ Len(heap) <= Len(heap')
<1>1. CASE Reuse(k, f)
  <2> DEFINE b == Last(free_list[k])
  <2>1. /\ free_list[k] \in Seq(1..Len(heap)) /\ queue[k] \in Seq(1..Len(heap))
        /\ free_list[k] # << >>
        /\ free_list' = [free_list EXCEPT ![k] = Front(@)]
        /\ heap' = [heap EXCEPT ![b].frame = f]
        /\ queue' = [queue EXCEPT ![k] = Append(@, b)]
    BY <1>1 DEF Reuse, QueueTypes
  <2>2. b \in 1..Len(heap) /\ Front(free_list[k]) \in Seq(1..Len(heap))
    BY <2>1, FrontElems
  <2>3. Append(queue[k], b) \in Seq(1..Len(heap))
    BY <2>1, <2>2, AppendElems
  <2>4. heap' \in Seq(Cell) /\ Len(heap') = Len(heap) /\ Len(heap) \in Nat
    BY <2>1, <2>2, HeapWrite DEF QueueTypes
  <2> QED
    BY <2>1, <2>2, <2>3, <2>4 DEF QueueTypes
<1>2. CASE Allocate(k, f)
  <2>1. /\ heap' = Append(heap, [frame |-> f, home |-> k])
        /\ queue' = [queue EXCEPT ![k] = Append(@, Len(heap) + 1)]
        /\ free_list' = free_list
    BY <1>2 DEF Allocate
  <2>2. heap' \in Seq(Cell) /\ Len(heap') = Len(heap) + 1 /\ Len(heap) \in Nat
    BY <2>1, HeapAppend DEF QueueTypes
  <2>3. 1..Len(heap) \subseteq 1..Len(heap') /\ Len(heap) + 1 \in 1..Len(heap')
    BY <2>2
  <2>4. \A j \in Kind : queue[j] \in Seq(1..Len(heap')) /\ free_list[j] \in Seq(1..Len(heap'))
    BY <2>3, SeqMonotonic DEF QueueTypes
  <2>5. Append(queue[k], Len(heap) + 1) \in Seq(1..Len(heap'))
    BY <2>3, <2>4, AppendElems
  <2> QED
    BY <2>1, <2>2, <2>4, <2>5 DEF QueueTypes
<1> QED
  BY <1>1, <1>2 DEF WriteBack

LEMMA ReadFrontTypes ==
  ASSUME QueueTypes, NEW k \in Kind, ReadFront(k)
  PROVE  QueueTypes' /\ heap' = heap /\ Oldest(k) \in 1..Len(heap)
<1>1. queue[k] \in Seq(1..Len(heap)) /\ queue[k] # << >>
  BY DEF QueueTypes, ReadFront
<1>2. Head(queue[k]) \in 1..Len(heap) /\ Tail(queue[k]) \in Seq(1..Len(heap))
  BY <1>1, TailElems
<1> QED
  BY <1>2 DEF QueueTypes, ReadFront, Oldest

LEMMA FreeBufferTypes ==
  ASSUME QueueTypes, NEW k \in Kind, NEW b \in 1..Len(heap), FreeBuffer(k, b)
  PROVE  QueueTypes' /\ heap' = heap
<1>1. Append(free_list[k], b) \in Seq(1..Len(heap))
  BY AppendElems DEF QueueTypes
<1> QED
  BY <1>1 DEF QueueTypes, FreeBuffer

LEMMA ClearTypes ==
  ASSUME QueueTypes, NEW k \in Kind, Clear(k)
  PROVE  QueueTypes' /\ heap' = heap
<1>1. free_list[k] \o queue[k] \in Seq(1..Len(heap)) /\ << >> \in Seq(1..Len(heap))
  BY ConcatElems DEF QueueTypes
<1> QED
  BY <1>1 DEF QueueTypes, Clear

-----------------------------------------------------------------------------
(* Type correctness.                                                       *)

\* What a callback passes to the demuxer is a frame with the next number.
LEMMA CallbackFrame ==
  ASSUME TypeOK, NEW k \in Kind, Callback(k)
  PROVE  \E f \in Frame : /\ f.kind = k /\ f.seq = NextNumber(k)
                          /\ k = "video" /\ made["video"] = 0 => f.key
                          /\ OnAudioFrame(f) \/ OnVideoFrame(f)
<1>1. PICK key \in BOOLEAN :
        LET f == [kind |-> k, seq |-> NextNumber(k), key |-> key]
        IN  /\ k = "video" /\ made["video"] = 0 => key
            /\ OnAudioFrame(f) \/ OnVideoFrame(f)
  BY DEF Callback
<1> DEFINE f == [kind |-> k, seq |-> NextNumber(k), key |-> key]
<1>2. f \in Frame /\ f.kind = k /\ f.seq = NextNumber(k) /\ f.key = key
  BY DEF NextNumber, TypeOK, Frame
<1> QED
  BY <1>1, <1>2

\* The demuxer's steps, in terms of what they do to the queues.
LEMMA TypeOKStep ==
  ASSUME TypeOK, [AnyCallerNext]_vars
  PROVE  TypeOK'
<1> USE KindAssumption
<1>0. QueueTypes /\ Len(heap) \in Nat
  BY DEF TypeOK, QueueTypes, Cell
<1>1. ASSUME NEW f \in Frame, OnAudioFrame(f)
      PROVE  TypeOK'
  <2>1. QueueTypes' /\ Len(heap') \in Nat /\ Len(heap) <= Len(heap')
    BY <1>0, <1>1, WriteBackTypes DEF OnAudioFrame, qvars, QueueTypes
  <2>2. made' \in [Kind -> Nat] /\ last_receive_failed_' \in [Kind -> BOOLEAN]
    BY <1>1 DEF OnAudioFrame, Produce, TypeOK, Frame
  <2> QED
    BY <1>1, <2>1, <2>2 DEF OnAudioFrame, TypeOK, QueueTypes, Cell, reader
<1>2. ASSUME NEW f \in Frame, OnVideoFrame(f)
      PROVE  TypeOK'
  <2>1. QueueTypes' /\ Len(heap') \in Nat /\ Len(heap) <= Len(heap')
    BY <1>0, <1>2, WriteBackTypes
       DEF OnVideoFrame, DiscardDelta, PushVideo, RejectVideo, qvars, QueueTypes
  <2>2. /\ made' \in [Kind -> Nat]
        /\ iframe_requested_' \in BOOLEAN /\ last_receive_failed_' \in [Kind -> BOOLEAN]
        /\ video_pc' \in {"idle", "clear"}
    BY <1>2 DEF OnVideoFrame, Produce, DiscardDelta, PushVideo, RejectVideo, TypeOK, Frame
  <2> QED
    BY <1>2, <2>1, <2>2 DEF OnVideoFrame, TypeOK, QueueTypes, Cell, reader
<1>3. CASE Callback("audio") \/ Callback("video")
  BY <1>1, <1>2, <1>3, CallbackFrame
<1>4. CASE ClearVideo
  <2>1. QueueTypes' /\ heap' = heap
    BY <1>0, <1>4, ClearTypes DEF ClearVideo
  <2> QED
    BY <1>4, <2>1 DEF ClearVideo, TypeOK, QueueTypes, Cell, reader
<1>5. ASSUME NEW k \in Kind, TakeFrame(k), UNCHANGED <<producer, rtd_engine_>>
      PROVE  TypeOK'
  <2>1. QueueTypes' /\ heap' = heap /\ Oldest(k) \in 1..Len(heap)
    BY <1>0, <1>5, ReadFrontTypes DEF TakeFrame
  <2>2. heap[Oldest(k)] \in [frame: Frame, home: Kind]
    BY <2>1, ElementOfSeq DEF TypeOK
  <2>3. heap[Oldest(k)].frame.seq \in Nat
    BY <2>2 DEF Frame
  <2> QED
    BY <1>0, <1>5, <2>1, <2>3 DEF TakeFrame, TypeOK, QueueTypes, Cell, producer
<1>6. CASE ReadVideo \/ ReadAudio
  <2>1. CASE \E k \in Kind : TakeFrame(k)
    BY <1>5, <1>6, <2>1 DEF ReadVideo, ReadAudio
  <2>2. CASE \A k \in Kind : ~TakeFrame(k)
    BY <1>6, <2>2 DEF ReadVideo, ReadAudio, TypeOK, qvars, producer
  <2> QED BY <2>1, <2>2
<1>7. CASE FreeFrame \/ FreeAgain
  <2>1. QueueTypes' /\ heap' = heap /\ current_frame_buffer_' \in 0..Len(heap)
    <3>1. CASE current_frame_buffer_ = 0
      BY <1>0, <1>7, <3>1 DEF FreeFrame, FreeAgain, FreeCurrent, QueueTypes, qvars
    <3>2. CASE current_frame_buffer_ # 0
      <4>1. current_frame_buffer_ \in 1..Len(heap)
        BY <1>0, <3>2 DEF TypeOK
      <4> QED
        BY <1>0, <1>7, <3>2, <4>1, FreeBufferTypes DEF FreeFrame, FreeAgain, FreeCurrent
    <3> QED BY <3>1, <3>2
  <2> QED
    BY <1>7, <2>1 DEF FreeFrame, FreeAgain, TypeOK, QueueTypes, Cell, producer
<1>8. CASE ReadAgain \/ Close \/ UNCHANGED vars
  BY <1>8 DEF ReadAgain, Close, vars, qvars, producer, reader, TypeOK
<1> QED
  BY <1>3, <1>4, <1>6, <1>7, <1>8 DEF AnyCallerNext, Next, Player

LEMMA TypeOKInit == Init => TypeOK
<1> SUFFICES ASSUME Init PROVE TypeOK
  OBVIOUS
<1>1. << >> \in Seq([frame: Frame, home: Kind]) /\ << >> \in Seq(1..Len(heap)) /\ Len(heap) = 0
  BY DEF Init, QueueInit
<1>2. queue \in [Kind -> Seq(1..Len(heap))] /\ free_list \in [Kind -> Seq(1..Len(heap))]
  BY <1>1 DEF Init, QueueInit
<1>3. made \in [Kind -> Nat] /\ last_receive_failed_ \in [Kind -> BOOLEAN] /\ last_read \in [Kind -> Nat]
  BY DEF Init
<1>4. heap \in Seq([frame: Frame, home: Kind])
  BY <1>1 DEF Init, QueueInit
<1>5. current_frame_buffer_ \in 0..Len(heap)
  BY <1>1 DEF Init
<1> QED
  BY <1>2, <1>3, <1>4, <1>5 DEF Init, TypeOK

\* Whatever the caller of the C API does, every variable keeps its type.
THEOREM TypeCorrect == AnyCallerSpec => []TypeOK
<1>1. TypeOK /\ [AnyCallerNext]_vars => TypeOK'
  BY TypeOKStep
<1> QED
  BY <1>1, TypeOKInit, PTL DEF AnyCallerSpec

-----------------------------------------------------------------------------
(* Ownership of the buffers.                                               *)

Owned == OwnedOnce /\ HomeKept

LEMMA WriteBackOwned ==
  ASSUME TypeOK, Owned, NEW k \in Kind, NEW f \in Frame, WriteBack(k, f),
         UNCHANGED <<current_frame_buffer_, is_audio>>
  PROVE  Owned'
<1> USE KindAssumption
<1> DEFINE q == queue[k]
           l == free_list[k]
<1>0. /\ QueueTypes /\ Len(heap) \in Nat
      /\ q \in Seq(1..Len(heap)) /\ l \in Seq(1..Len(heap))
      /\ HeldKind \in Kind /\ HeldKind' = HeldKind
  BY DEF TypeOK, QueueTypes, Cell, HeldKind
<1>1. CASE Reuse(k, f)
  <2> DEFINE b == Last(l)
  <2>1. /\ l # << >>
        /\ queue' = [queue EXCEPT ![k] = Append(q, b)]
        /\ free_list' = [free_list EXCEPT ![k] = Front(l)]
        /\ heap' = [heap EXCEPT ![b].frame = f]
    BY <1>1 DEF Reuse
  <2>2. /\ b \in 1..Len(heap) /\ ToSet(l) = ToSet(Front(l)) \cup {b}
        /\ IsInjective(Front(l)) /\ b \notin ToSet(Front(l))
    BY <1>0, <2>1, FrontElems DEF Owned, OwnedOnce
  <2>3. ToSet(Append(q, b)) = ToSet(q) \cup {b} /\ IsInjective(Append(q, b))
    BY <1>0, <2>2, AppendElems DEF Owned, OwnedOnce
  <2>4. \A c \in 1..Len(heap) : heap'[c].home = heap[c].home
    BY <1>0, <2>1, <2>2, HeapWrite DEF QueueTypes
  <2>5. \A j \in Kind : ToSet(queue[j]) \cup ToSet(free_list[j]) \subseteq 1..Len(heap)
    BY <1>0 DEF QueueTypes, ToSet
  <2>6. /\ queue'[k] = Append(q, b) /\ free_list'[k] = Front(l)
        /\ \A j \in Kind \ {k} : queue'[j] = queue[j] /\ free_list'[j] = free_list[j]
    BY <1>0, <2>1 DEF QueueTypes
  <2>7. \A j \in Kind : ToSet(queue'[j]) \cup ToSet(free_list'[j])
                          = ToSet(queue[j]) \cup ToSet(free_list[j])
    BY <2>2, <2>3, <2>6
  <2> HIDE DEF q, l, b
  <2>8. OwnedOnce'
    <3>1. \A j \in Kind : IsInjective(queue'[j]) /\ IsInjective(free_list'[j])
      BY <2>2, <2>3, <2>6 DEF Owned, OwnedOnce
    <3>2. \A j \in Kind : ToSet(queue'[j]) \cap ToSet(free_list'[j]) = {}
      <4>1. ToSet(q) \cap ToSet(l) = {}
        BY DEF Owned, OwnedOnce, q, l
      <4>2. (ToSet(q) \cup {b}) \cap ToSet(Front(l)) = {}
        BY <2>2, <4>1
      <4>3. ToSet(queue'[k]) \cap ToSet(free_list'[k]) = {}
        BY <2>3, <2>6, <4>2
      <4>4. \A j \in Kind \ {k} : ToSet(queue'[j]) \cap ToSet(free_list'[j]) = {}
        BY <2>6 DEF Owned, OwnedOnce
      <4> QED
        BY <4>3, <4>4
    <3> QED
      BY <1>0, <2>7, <3>1, <3>2 DEF Owned, OwnedOnce
  <2>9. HomeKept'
    <3>1. \A j \in Kind : \A c \in ToSet(queue'[j]) \cup ToSet(free_list'[j]) : heap'[c].home = j
      BY <2>4, <2>5, <2>7 DEF Owned, HomeKept
    <3>2. current_frame_buffer_ # 0 => current_frame_buffer_ \in 1..Len(heap)
      BY <1>0 DEF TypeOK
    <3> QED
      BY <1>0, <2>4, <3>1, <3>2 DEF Owned, HomeKept
  <2> QED BY <2>8, <2>9 DEF Owned
<1>2. CASE Allocate(k, f)
  <2> DEFINE b == Len(heap) + 1
  <2>1. /\ queue' = [queue EXCEPT ![k] = Append(q, b)]
        /\ free_list' = free_list
        /\ heap' = Append(heap, [frame |-> f, home |-> k])
    BY <1>2 DEF Allocate
  <2>2. \A j \in Kind : ToSet(queue[j]) \cup ToSet(free_list[j]) \subseteq 1..Len(heap)
    BY <1>0 DEF QueueTypes, ToSet
  <2>3. b \notin 1..Len(heap) /\ 1..Len(heap) \subseteq 1..b /\ b \in 1..b
    BY <1>0
  <2>4. q \in Seq(1..b)
    BY <1>0, <2>3, SeqMonotonic
  <2>5. ToSet(Append(q, b)) = ToSet(q) \cup {b} /\ IsInjective(Append(q, b))
    BY <2>2, <2>3, <2>4, AppendElems DEF Owned, OwnedOnce
  <2>6. (\A c \in 1..Len(heap) : heap'[c] = heap[c]) /\ heap'[b].home = k
    BY <1>0, <2>1, HeapAppend DEF QueueTypes
  <2>7. /\ queue'[k] = Append(q, b)
        /\ \A j \in Kind \ {k} : queue'[j] = queue[j]
    BY <1>0, <2>1 DEF QueueTypes
  <2> HIDE DEF q, l, b
  <2>8. OwnedOnce'
    <3>1. \A j \in Kind : IsInjective(queue'[j]) /\ IsInjective(free_list'[j])
      BY <2>1, <2>5, <2>7 DEF Owned, OwnedOnce
    <3>2. \A j \in Kind : ToSet(queue'[j]) \cap ToSet(free_list'[j]) = {}
      BY <2>1, <2>2, <2>3, <2>5, <2>7 DEF Owned, OwnedOnce, q
    <3>3. current_frame_buffer_ # 0 => current_frame_buffer_ \in 1..Len(heap)
      BY <1>0 DEF TypeOK
    <3> QED
      BY <1>0, <2>1, <2>3, <2>5, <2>7, <3>1, <3>2, <3>3 DEF Owned, OwnedOnce, q
  <2>9. HomeKept'
    <3>1. \A j \in Kind : \A c \in ToSet(queue'[j]) \cup ToSet(free_list'[j]) : heap'[c].home = j
      <4>1. \A j \in Kind : \A c \in ToSet(queue[j]) \cup ToSet(free_list[j]) : heap'[c].home = j
        BY <2>2, <2>6 DEF Owned, HomeKept
      <4>2. \A j \in Kind : \A c \in ToSet(queue'[j]) \cup ToSet(free_list'[j]) :
              c \in ToSet(queue[j]) \cup ToSet(free_list[j]) \/ (j = k /\ c = b)
        BY <2>1, <2>5, <2>7 DEF q
      <4> QED BY <2>6, <4>1, <4>2
    <3>2. current_frame_buffer_ # 0 => current_frame_buffer_ \in 1..Len(heap)
      BY <1>0 DEF TypeOK
    <3> QED
      BY <1>0, <2>6, <3>1, <3>2 DEF Owned, HomeKept
  <2> QED BY <2>8, <2>9 DEF Owned
<1> QED
  BY <1>1, <1>2 DEF WriteBack

LEMMA TakeFrameOwned ==
  ASSUME TypeOK, Owned, NEW k \in Kind, TakeFrame(k)
  PROVE  Owned'
<1> USE KindAssumption
<1>1. /\ queue[k] \in Seq(1..Len(heap)) /\ queue[k] # << >>
      /\ queue \in [Kind -> Seq(1..Len(heap))]
      /\ queue' = [queue EXCEPT ![k] = Tail(@)]
      /\ heap' = heap /\ free_list' = free_list
      /\ current_frame_buffer_' = Head(queue[k]) /\ HeldKind' = k
  BY DEF TakeFrame, ReadFront, Oldest, HeldKind, TypeOK
<1>2. /\ ToSet(queue[k]) = ToSet(Tail(queue[k])) \cup {Head(queue[k])}
      /\ IsInjective(Tail(queue[k])) /\ Head(queue[k]) \notin ToSet(Tail(queue[k]))
  BY <1>1, TailElems DEF Owned, OwnedOnce
<1>3. queue'[k] = Tail(queue[k]) /\ \A j \in Kind \ {k} : queue'[j] = queue[j]
  BY <1>1
<1>4. OwnedOnce'
  BY <1>1, <1>2, <1>3 DEF Owned, OwnedOnce
<1>5. HomeKept'
  BY <1>1, <1>2, <1>3 DEF Owned, HomeKept
<1> QED
  BY <1>4, <1>5 DEF Owned

LEMMA FreeCurrentOwned ==
  ASSUME TypeOK, Owned, FreeCurrent, UNCHANGED is_audio
  PROVE  Owned'
<1> USE KindAssumption
<1> DEFINE b == current_frame_buffer_
           k == HeldKind
<1>0. k \in Kind /\ HeldKind' = k /\ Len(heap) \in Nat /\ free_list \in [Kind -> Seq(1..Len(heap))]
  BY DEF HeldKind, TypeOK
<1>1. CASE b = 0
  BY <1>0, <1>1 DEF FreeCurrent, qvars, Owned, OwnedOnce, HomeKept
<1>2. CASE b # 0
  <2>1. /\ b \in 1..Len(heap) /\ b' = 0
        /\ free_list' = [free_list EXCEPT ![k] = Append(@, b)]
        /\ heap' = heap /\ queue' = queue
    BY <1>0, <1>2 DEF FreeCurrent, FreeBuffer, HeldKind, TypeOK
  <2>2. /\ ToSet(Append(free_list[k], b)) = ToSet(free_list[k]) \cup {b}
        /\ IsInjective(Append(free_list[k], b))
    BY <1>0, <1>2, <2>1, AppendElems DEF Owned, OwnedOnce
  <2>3. /\ free_list'[k] = Append(free_list[k], b)
        /\ \A j \in Kind \ {k} : free_list'[j] = free_list[j]
    BY <1>0, <2>1
  <2>4. OwnedOnce'
    BY <1>0, <1>2, <2>1, <2>2, <2>3 DEF Owned, OwnedOnce
  <2>5. HomeKept'
    BY <1>0, <1>2, <2>1, <2>2, <2>3 DEF Owned, HomeKept
  <2> QED BY <2>4, <2>5 DEF Owned
<1> QED
  BY <1>1, <1>2

LEMMA ClearOwned ==
  ASSUME TypeOK, Owned, NEW k \in Kind, Clear(k),
         UNCHANGED <<current_frame_buffer_, is_audio>>
  PROVE  Owned'
<1> USE KindAssumption
<1> DEFINE all == free_list[k] \o queue[k]
<1>0. /\ HeldKind \in Kind /\ HeldKind' = HeldKind
      /\ free_list[k] \in Seq(1..Len(heap)) /\ queue[k] \in Seq(1..Len(heap))
  BY DEF HeldKind, TypeOK
<1>1. ToSet(all) = ToSet(free_list[k]) \cup ToSet(queue[k]) /\ IsInjective(all)
  BY <1>0, ConcatElems DEF Owned, OwnedOnce
<1>2. /\ heap' = heap
      /\ free_list'[k] = all /\ queue'[k] = << >>
      /\ \A j \in Kind \ {k} : queue'[j] = queue[j] /\ free_list'[j] = free_list[j]
  BY DEF Clear, TypeOK
<1>3. ToSet(<< >>) = {} /\ IsInjective(<< >>)
  BY DEF ToSet, IsInjective
<1> HIDE DEF all
<1>4. OwnedOnce'
  BY <1>0, <1>1, <1>2, <1>3 DEF Owned, OwnedOnce
<1>5. HomeKept'
  BY <1>0, <1>1, <1>2, <1>3 DEF Owned, HomeKept
<1> QED
  BY <1>4, <1>5 DEF Owned

LEMMA OwnedStep ==
  ASSUME TypeOK, Owned, [AnyCallerNext]_vars
  PROVE  Owned'
<1> USE KindAssumption
<1>0. ASSUME UNCHANGED <<qvars, current_frame_buffer_, is_audio>>
      PROVE  Owned'
  BY <1>0 DEF qvars, Owned, OwnedOnce, HomeKept, HeldKind
<1>1. ASSUME NEW f \in Frame, OnAudioFrame(f) \/ OnVideoFrame(f)
      PROVE  Owned'
  <2>1. UNCHANGED <<current_frame_buffer_, is_audio>>
    BY <1>1 DEF OnAudioFrame, OnVideoFrame, reader
  <2>2. CASE \E k \in Kind : WriteBack(k, f)
    BY <2>1, <2>2, WriteBackOwned
  <2>3. CASE ~\E k \in Kind : WriteBack(k, f)
    BY <1>0, <1>1, <2>1, <2>3
       DEF OnAudioFrame, OnVideoFrame, DiscardDelta, PushVideo, RejectVideo
  <2> QED BY <2>2, <2>3
<1>2. CASE Callback("audio") \/ Callback("video")
  BY <1>1, <1>2, CallbackFrame
<1>3. CASE ClearVideo
  BY <1>3, ClearOwned DEF ClearVideo, reader
<1>4. CASE ReadVideo \/ ReadAudio
  BY <1>0, <1>4, TakeFrameOwned DEF ReadVideo, ReadAudio
<1>5. CASE FreeFrame \/ FreeAgain
  BY <1>5, FreeCurrentOwned DEF FreeFrame, FreeAgain
<1>6. CASE ReadAgain \/ Close \/ UNCHANGED vars
  BY <1>0, <1>6 DEF ReadAgain, Close, vars, reader
<1> QED
  BY <1>2, <1>3, <1>4, <1>5, <1>6 DEF AnyCallerNext, Next, Player

LEMMA OwnedInit == Init => Owned
<1>1. ToSet(<< >>) = {} /\ IsInjective(<< >>)
  BY DEF ToSet, IsInjective
<1> QED
  BY <1>1 DEF Init, QueueInit, Owned, OwnedOnce, HomeKept

\* No sequence of API calls makes a buffer reachable from two places, and a
\* buffer always returns to the queue that allocated it.
THEOREM BuffersOwned == AnyCallerSpec => [](OwnedOnce /\ HomeKept)
<1>1. TypeOK /\ Owned /\ [AnyCallerNext]_vars => Owned'
  BY OwnedStep
<1>2. AnyCallerSpec => []Owned
  BY <1>1, OwnedInit, TypeCorrect, PTL DEF AnyCallerSpec
<1> QED
  BY <1>2, PTL DEF Owned

-----------------------------------------------------------------------------
(* The pool of buffers, with the calls rtd_read_packet makes.              *)

Queued(k) == Len(queue[k])
Free(k) == Len(free_list[k])
Owns(k) == Queued(k) + Free(k) + Held(k)

\* The player holds a buffer exactly between ReadFrame and FreeFrame.
InHand == current_frame_buffer_ = 0 <=> player_pc # "holding"

Counts ==
  /\ Len(heap) = Owns("audio") + Owns("video")
  /\ \A k \in Kind : Owns(k) <= Capacity[k] + 1 /\ Queued(k) <= Capacity[k]

\* A queued buffer holds a frame of the queue's kind.
QueuedKinds == \A k \in Kind : \A b \in ToSet(queue[k]) : heap[b].frame.kind = k

Contents == QueuedKinds /\ FrameIntact

Pool == InHand /\ Counts /\ Contents

CountTypes ==
  /\ Len(heap) \in Nat
  /\ \A k \in Kind : Queued(k) \in Nat /\ Free(k) \in Nat /\ Held(k) \in 0..1 /\ Owns(k) \in Nat

LEMMA AreCounts == TypeOK => CountTypes
<1> SUFFICES ASSUME TypeOK PROVE CountTypes
  OBVIOUS
<1>1. Len(heap) \in Nat
  BY DEF TypeOK
<1>2. \A k \in Kind : Queued(k) \in Nat
  BY DEF TypeOK, Queued
<1>3. \A k \in Kind : Free(k) \in Nat
  BY DEF TypeOK, Free
<1>4. \A k \in Kind : Held(k) \in 0..1
  BY DEF Held
<1>5. \A k \in Kind : Owns(k) \in Nat
  BY <1>2, <1>3, <1>4 DEF Owns
<1> QED BY <1>1, <1>2, <1>3, <1>4, <1>5 DEF CountTypes

LEMMA CapacityTypes == \A k \in Kind : Capacity[k] \in Nat /\ Capacity[k] > 0
BY CapacityAssumption

\* WriteBack adds one queued buffer, from the free list or, when that is
\* empty, a new one.
LEMMA WriteBackCounts ==
  ASSUME TypeOK, NEW k \in Kind, NEW f \in Frame, WriteBack(k, f)
  PROVE  /\ Queued(k) # Capacity[k] /\ Queued(k)' = Queued(k) + 1
         /\ \/ Len(heap') = Len(heap) /\ Free(k)' = Free(k) - 1
            \/ Len(heap') = Len(heap) + 1 /\ Free(k) = 0 /\ Free(k)' = 0
         /\ \A j \in Kind \ {k} : Queued(j)' = Queued(j) /\ Free(j)' = Free(j)
<1>0. /\ Len(heap) \in Nat /\ heap \in Seq(Cell)
      /\ \A j \in Kind : queue[j] \in Seq(1..Len(heap)) /\ free_list[j] \in Seq(1..Len(heap))
      /\ queue \in [Kind -> Seq(1..Len(heap))] /\ free_list \in [Kind -> Seq(1..Len(heap))]
  BY DEF TypeOK, Cell
<1>9. Queued(k) # Capacity[k]
  BY DEF WriteBack, IsFull, Queued
<1>1. CASE Reuse(k, f)
  <2> DEFINE b == Last(free_list[k])
  <2>1. /\ free_list[k] # << >>
        /\ free_list' = [free_list EXCEPT ![k] = Front(free_list[k])]
        /\ heap' = [heap EXCEPT ![b].frame = f]
        /\ queue' = [queue EXCEPT ![k] = Append(queue[k], b)]
    BY <1>1 DEF Reuse
  <2>2. b \in 1..Len(heap) /\ Len(Front(free_list[k])) = Len(free_list[k]) - 1
    BY <1>0, <2>1, FrontElems
  <2>3. Len(heap') = Len(heap)
    BY <1>0, <2>1, <2>2, HeapWrite
  <2>4. Len(Append(queue[k], b)) = Len(queue[k]) + 1
    BY <1>0, <2>2, AppendElems
  <2>5. /\ queue'[k] = Append(queue[k], b) /\ free_list'[k] = Front(free_list[k])
        /\ \A j \in Kind \ {k} : queue'[j] = queue[j] /\ free_list'[j] = free_list[j]
    BY <1>0, <2>1
  <2>6. Queued(k)' = Queued(k) + 1 /\ Free(k)' = Free(k) - 1
    BY <2>2, <2>4, <2>5 DEF Queued, Free
  <2>7. \A j \in Kind \ {k} : Queued(j)' = Queued(j) /\ Free(j)' = Free(j)
    BY <2>5 DEF Queued, Free
  <2> QED
    BY <1>9, <2>3, <2>6, <2>7
<1>2. CASE Allocate(k, f)
  <2>1. /\ free_list[k] = << >> /\ free_list' = free_list
        /\ heap' = Append(heap, [frame |-> f, home |-> k])
        /\ queue' = [queue EXCEPT ![k] = Append(queue[k], Len(heap) + 1)]
    BY <1>2 DEF Allocate
  <2>2. Len(heap') = Len(heap) + 1
    BY <1>0, <2>1, HeapAppend
  <2>3. queue[k] \in Seq(Nat) /\ Len(heap) + 1 \in Nat
    BY <1>0, SeqMonotonic
  <2>4. Len(Append(queue[k], Len(heap) + 1)) = Len(queue[k]) + 1
    BY <2>3, AppendElems
  <2>5. /\ queue'[k] = Append(queue[k], Len(heap) + 1)
        /\ \A j \in Kind \ {k} : queue'[j] = queue[j]
    BY <1>0, <2>1
  <2>6. Queued(k)' = Queued(k) + 1 /\ Free(k)' = 0 /\ Free(k) = 0
    BY <1>0, <2>1, <2>4, <2>5, EmptySeq DEF Queued, Free
  <2>7. \A j \in Kind \ {k} : Queued(j)' = Queued(j) /\ Free(j)' = Free(j)
    BY <2>1, <2>5 DEF Queued, Free
  <2> QED
    BY <1>9, <2>2, <2>6, <2>7
<1> QED BY <1>1, <1>2 DEF WriteBack

\* A callback writes into no buffer that is queued or in the player's hand.
LEMMA WriteBackKeeps ==
  ASSUME TypeOK, Owned, NEW k \in Kind, NEW f \in Frame, WriteBack(k, f)
  PROVE  \E n \in 1..Len(heap') :
           /\ queue' = [queue EXCEPT ![k] = Append(queue[k], n)]
           /\ heap'[n].frame = f
           /\ \A j \in Kind : \A b \in ToSet(queue[j]) : heap'[b] = heap[b]
           /\ current_frame_buffer_ # 0 => heap'[current_frame_buffer_] = heap[current_frame_buffer_]
<1>0. /\ Len(heap) \in Nat /\ heap \in Seq(Cell)
      /\ \A j \in Kind : queue[j] \in Seq(1..Len(heap)) /\ free_list[j] \in Seq(1..Len(heap))
      /\ current_frame_buffer_ # 0 => current_frame_buffer_ \in 1..Len(heap)
      /\ HeldKind \in Kind
  BY KindAssumption DEF TypeOK, Cell, HeldKind
<1>1. \A j \in Kind : ToSet(queue[j]) \subseteq 1..Len(heap)
  BY <1>0 DEF ToSet
<1>2. CASE Reuse(k, f)
  <2> DEFINE n == Last(free_list[k])
  <2>1. /\ free_list[k] # << >>
        /\ heap' = [heap EXCEPT ![n].frame = f]
        /\ queue' = [queue EXCEPT ![k] = Append(queue[k], n)]
    BY <1>2 DEF Reuse
  <2>2. n \in 1..Len(heap) /\ n \in ToSet(free_list[k])
    BY <1>0, <2>1, FrontElems
  <2>3. /\ Len(heap') = Len(heap) /\ heap'[n].frame = f
        /\ \A c \in 1..Len(heap) : c # n => heap'[c] = heap[c]
    BY <1>0, <2>1, <2>2, HeapWrite
  <2>4. ASSUME NEW j \in Kind, NEW b \in ToSet(queue[j])
        PROVE  b # n
    <3>1. CASE j = k
      BY <2>2, <2>4, <3>1 DEF Owned, OwnedOnce
    <3>2. CASE j # k
      BY <2>2, <2>4, <3>2 DEF Owned, HomeKept
    <3> QED BY <3>1, <3>2
  <2>5. current_frame_buffer_ # 0 => current_frame_buffer_ # n
    <3>1. CASE HeldKind = k
      BY <2>2, <3>1 DEF Owned, OwnedOnce
    <3>2. CASE HeldKind # k
      BY <2>2, <3>2 DEF Owned, HomeKept
    <3> QED BY <3>1, <3>2
  <2> HIDE DEF n
  <2> QED BY <1>0, <1>1, <2>1, <2>2, <2>3, <2>4, <2>5
<1>3. CASE Allocate(k, f)
  <2> DEFINE n == Len(heap) + 1
  <2>1. /\ heap' = Append(heap, [frame |-> f, home |-> k])
        /\ queue' = [queue EXCEPT ![k] = Append(queue[k], n)]
    BY <1>3 DEF Allocate
  <2>2. /\ Len(heap') = n /\ heap'[n] = [frame |-> f, home |-> k]
        /\ \A c \in 1..Len(heap) : heap'[c] = heap[c]
    BY <1>0, <2>1, HeapAppend
  <2>3. n \in 1..Len(heap') /\ heap'[n].frame = f
    BY <1>0, <2>2
  <2>4. /\ \A j \in Kind : \A b \in ToSet(queue[j]) : heap'[b] = heap[b]
        /\ current_frame_buffer_ # 0 => heap'[current_frame_buffer_] = heap[current_frame_buffer_]
    BY <1>0, <1>1, <2>2
  <2> HIDE DEF n
  <2> QED BY <2>1, <2>3, <2>4
<1> QED BY <1>2, <1>3 DEF WriteBack

LEMMA InHandStep ==
  ASSUME TypeOK, InHand, [Next]_vars
  PROVE  InHand'
<1>0. ASSUME UNCHANGED reader PROVE InHand'
  BY <1>0 DEF reader, InHand
<1>1. CASE Callback("audio") \/ Callback("video") \/ ClearVideo \/ Close \/ UNCHANGED vars
  BY <1>0, <1>1 DEF Callback, OnAudioFrame, OnVideoFrame, ClearVideo, Close, vars, reader
<1>2. ASSUME NEW k \in Kind, TakeFrame(k) PROVE InHand'
  <2>1. Oldest(k) \in 1..Len(heap)
    <3>1. QueueTypes
      BY DEF TypeOK, QueueTypes, Cell
    <3> QED BY <1>2, <3>1, ReadFrontTypes DEF TakeFrame
  <2> QED BY <1>2, <2>1 DEF TakeFrame, InHand
<1>3. CASE ReadVideo \/ ReadAudio
  BY <1>2, <1>3, KindAssumption DEF ReadVideo, ReadAudio, InHand
<1>4. CASE FreeFrame
  BY <1>4 DEF FreeFrame, FreeCurrent, InHand
<1> QED BY <1>1, <1>3, <1>4 DEF Next, Player

\* A step that moves the buffers of one kind, and allocates one at most.
LEMMA Balanced ==
  ASSUME NEW total \in Nat, NEW total2 \in Nat, NEW mine \in Nat, NEW mine2 \in Nat, NEW other \in Nat,
         total = mine + other, mine2 + total = mine + total2
  PROVE  total2 = mine2 + other /\ total2 = other + mine2
OBVIOUS

LEMMA CountsMoved ==
  ASSUME TypeOK, TypeOK', Counts, NEW k \in Kind,
         Owns(k)' + Len(heap) = Owns(k) + Len(heap'),
         Owns(k)' <= Capacity[k] + 1, Queued(k)' <= Capacity[k],
         \A j \in Kind \ {k} : Owns(j)' = Owns(j) /\ Queued(j)' = Queued(j)
  PROVE  Counts'
<1> USE KindAssumption
<1>1. CountTypes /\ CountTypes'
  BY AreCounts, PTL
<1>2. /\ Len(heap) \in Nat /\ Owns("audio") \in Nat /\ Owns("video") \in Nat
      /\ Len(heap') \in Nat /\ Owns("audio")' \in Nat /\ Owns("video")' \in Nat
  BY <1>1 DEF CountTypes
<1>3. Len(heap) = Owns("audio") + Owns("video") /\ Len(heap) = Owns("video") + Owns("audio")
  BY <1>2 DEF Counts
<1>4. Len(heap') = Owns("audio")' + Owns("video")'
  <2>1. CASE k = "audio"
    <3>1. Owns("video")' = Owns("video") /\ Owns("audio")' + Len(heap) = Owns("audio") + Len(heap')
      BY <2>1
    <3> QED BY <1>2, <1>3, <3>1, Balanced
  <2>2. CASE k = "video"
    <3>1. Owns("audio")' = Owns("audio") /\ Owns("video")' + Len(heap) = Owns("video") + Len(heap')
      BY <2>2
    <3> QED BY <1>2, <1>3, <3>1, Balanced
  <2> QED BY <2>1, <2>2
<1>5. ASSUME NEW j \in Kind
      PROVE  Owns(j)' <= Capacity[j] + 1 /\ Queued(j)' <= Capacity[j]
  BY DEF Counts
<1> QED BY <1>4, <1>5 DEF Counts

\* A buffer that is allocated when none is free, and one that is read.
LEMMA Allocated ==
  ASSUME NEW c \in Nat, NEW q \in Nat, NEW h \in Nat, NEW n \in Nat, q # c, q <= c, h <= 1
  PROVE  q + 1 <= c /\ q + 1 + 0 + h <= c + 1 /\ (q + 1 + 0 + h) + n = (q + 0 + h) + (n + 1)
OBVIOUS

LEMMA Taken ==
  ASSUME NEW c \in Nat, NEW q \in Nat, NEW f \in Nat, q <= c, q + f + 0 <= c + 1
  PROVE  q - 1 <= c /\ (q - 1) + f + 1 = q + f + 0
OBVIOUS

LEMMA CountsStep ==
  ASSUME TypeOK, InHand, Counts, [Next]_vars
  PROVE  Counts'
<1> USE KindAssumption
<1>1. CountTypes /\ TypeOK'
  BY AreCounts, TypeOKStep DEF AnyCallerNext
<1>2. ASSUME NEW k \in Kind
      PROVE  /\ Len(heap) \in Nat /\ Queued(k) \in Nat /\ Free(k) \in Nat
             /\ Held(k) \in Nat /\ Held(k) <= 1
             /\ Owns(k) = Queued(k) + Free(k) + Held(k) /\ Owns(k)' = Queued(k)' + Free(k)' + Held(k)'
             /\ Owns(k) <= Capacity[k] + 1 /\ Queued(k) <= Capacity[k]
             /\ Capacity[k] \in Nat /\ Capacity[k] > 0
  <2>1. Owns(k) = Queued(k) + Free(k) + Held(k) /\ Owns(k)' = Queued(k)' + Free(k)' + Held(k)'
    BY DEF Owns
  <2>2. /\ Len(heap) \in Nat /\ Queued(k) \in Nat /\ Free(k) \in Nat
        /\ Held(k) \in Nat /\ Held(k) <= 1
    BY <1>1 DEF CountTypes
  <2>3. Owns(k) <= Capacity[k] + 1 /\ Queued(k) <= Capacity[k]
    BY DEF Counts
  <2> QED BY <2>1, <2>2, <2>3, CapacityTypes
<1>3. ASSUME UNCHANGED <<qvars, current_frame_buffer_, is_audio>>
      PROVE  Counts'
  BY <1>3 DEF qvars, Counts, Owns, Queued, Free, Held, HeldKind
<1>4. ASSUME UNCHANGED <<current_frame_buffer_, is_audio>>, NEW k \in Kind
      PROVE  Held(k)' = Held(k)
  BY <1>4 DEF Held, HeldKind
<1>5. ASSUME NEW k \in Kind, NEW f \in Frame, WriteBack(k, f),
             UNCHANGED <<current_frame_buffer_, is_audio>>
      PROVE  Counts'
  <2>1. \A j \in Kind : Held(j)' = Held(j)
    BY <1>4, <1>5
  <2>2. /\ Queued(k) # Capacity[k] /\ Queued(k)' = Queued(k) + 1
        /\ \/ Len(heap') = Len(heap) /\ Free(k)' = Free(k) - 1
           \/ Len(heap') = Len(heap) + 1 /\ Free(k) = 0 /\ Free(k)' = 0
        /\ \A j \in Kind \ {k} : Queued(j)' = Queued(j) /\ Free(j)' = Free(j)
    BY <1>5, WriteBackCounts
  <2>3. \A j \in Kind \ {k} : Owns(j)' = Owns(j) /\ Queued(j)' = Queued(j)
    BY <2>1, <2>2 DEF Owns
  <2>4. Queued(k)' <= Capacity[k]
    <3>1. /\ Capacity[k] \in Nat /\ Queued(k) \in Nat /\ Queued(k) <= Capacity[k]
          /\ Queued(k) # Capacity[k] /\ Queued(k)' = Queued(k) + 1
      BY <1>2, <2>2
    <3> QED
      BY <3>1
  <2>5. Owns(k)' + Len(heap) = Owns(k) + Len(heap') /\ Owns(k)' <= Capacity[k] + 1
    <3>0. Owns(k) = Queued(k) + Free(k) + Held(k) /\ Owns(k)' = Queued(k)' + Free(k)' + Held(k)'
      BY <1>2
    <3>1. CASE Len(heap') = Len(heap) /\ Free(k)' = Free(k) - 1
      <4>1. Owns(k)' = (Queued(k) + 1) + (Free(k) - 1) + Held(k)
        BY <2>1, <2>2, <3>0, <3>1
      <4>2. Queued(k) \in Nat /\ Free(k) \in Nat /\ Held(k) \in Nat /\ Owns(k) <= Capacity[k] + 1
        BY <1>2
      <4>3. Owns(k)' = Owns(k)
        BY <3>0, <4>1, <4>2
      <4> QED
        BY <3>1, <4>2, <4>3
    <3>2. CASE Len(heap') = Len(heap) + 1 /\ Free(k) = 0 /\ Free(k)' = 0
      <4>1. Owns(k) = Queued(k) + 0 + Held(k) /\ Owns(k)' = Queued(k) + 1 + 0 + Held(k)
        BY <2>1, <2>2, <3>0, <3>2
      <4>2. /\ Capacity[k] \in Nat /\ Queued(k) \in Nat /\ Held(k) \in Nat /\ Len(heap) \in Nat
            /\ Queued(k) # Capacity[k] /\ Queued(k) <= Capacity[k] /\ Held(k) <= 1
        BY <1>2, <2>2
      <4> QED BY <3>2, <4>1, <4>2, Allocated
    <3> QED BY <2>2, <3>1, <3>2
  <2> QED BY <1>1, <2>3, <2>4, <2>5, CountsMoved
<1>6. CASE Callback("audio") \/ Callback("video")
  <2>1. PICK k \in Kind, f \in Frame : OnAudioFrame(f) \/ OnVideoFrame(f)
    BY <1>6, CallbackFrame
  <2>2. UNCHANGED <<current_frame_buffer_, is_audio>>
    BY <2>1 DEF OnAudioFrame, OnVideoFrame, reader
  <2>3. UNCHANGED qvars \/ \E j \in Kind : WriteBack(j, f)
    BY <2>1 DEF OnAudioFrame, OnVideoFrame, DiscardDelta, PushVideo, RejectVideo
  <2> QED BY <1>3, <1>5, <2>2, <2>3
<1>7. CASE ClearVideo
  <2>1. /\ queue["video"] \in Seq(1..Len(heap)) /\ free_list["video"] \in Seq(1..Len(heap))
        /\ queue'["video"] = << >> /\ free_list'["video"] = free_list["video"] \o queue["video"]
        /\ queue'["audio"] = queue["audio"] /\ free_list'["audio"] = free_list["audio"]
        /\ heap' = heap /\ UNCHANGED <<current_frame_buffer_, is_audio>>
    BY <1>7 DEF ClearVideo, Clear, TypeOK, reader
  <2>2. /\ Queued("video")' = 0 /\ Free("video")' = Free("video") + Queued("video")
        /\ Queued("audio")' = Queued("audio") /\ Free("audio")' = Free("audio")
    BY <2>1, ConcatElems, EmptySeq DEF Queued, Free
  <2>3. Held("video")' = Held("video") /\ Held("audio")' = Held("audio")
    BY <1>4, <2>1
  <2>4. /\ Owns("video")' + Len(heap) = Owns("video") + Len(heap')
        /\ Owns("video")' <= Capacity["video"] + 1 /\ Queued("video")' <= Capacity["video"]
    BY <1>2, <2>1, <2>2, <2>3
  <2>5. \A j \in Kind \ {"video"} : Owns(j)' = Owns(j) /\ Queued(j)' = Queued(j)
    BY <2>2, <2>3 DEF Owns
  <2> QED BY <1>1, <2>4, <2>5, CountsMoved
<1>8. ASSUME NEW k \in Kind, TakeFrame(k), player_pc # "holding"
      PROVE  Counts'
  <2>1. /\ queue[k] \in Seq(1..Len(heap)) /\ queue[k] # << >>
        /\ queue'[k] = Tail(queue[k]) /\ free_list' = free_list /\ heap' = heap
        /\ \A j \in Kind \ {k} : queue'[j] = queue[j]
    BY <1>8 DEF TakeFrame, ReadFront, TypeOK
  <2>2. Queued(k)' = Queued(k) - 1 /\ Free(k)' = Free(k)
    BY <2>1, TailElems DEF Queued, Free
  <2>3. \A j \in Kind \ {k} : Queued(j)' = Queued(j) /\ Free(j)' = Free(j)
    BY <2>1 DEF Queued, Free
  <2>4. Oldest(k) # 0
    BY <2>1, TailElems DEF Oldest
  <2>5. Held(k) = 0 /\ Held(k)' = 1 /\ \A j \in Kind \ {k} : Held(j)' = Held(j)
    BY <1>8, <2>4 DEF TakeFrame, Held, HeldKind, InHand
  <2>6. /\ Owns(k)' + Len(heap) = Owns(k) + Len(heap')
        /\ Owns(k)' <= Capacity[k] + 1 /\ Queued(k)' <= Capacity[k]
    <3>1. Owns(k) = Queued(k) + Free(k) + 0 /\ Owns(k)' = Queued(k) - 1 + Free(k) + 1
      BY <1>2, <2>2, <2>5
    <3>2. /\ Capacity[k] \in Nat /\ Queued(k) \in Nat /\ Free(k) \in Nat
          /\ Queued(k) <= Capacity[k] /\ Owns(k) <= Capacity[k] + 1
      BY <1>2
    <3>3. Queued(k) - 1 <= Capacity[k] /\ Owns(k)' = Owns(k)
      BY <3>1, <3>2, Taken
    <3> QED BY <2>1, <2>2, <3>2, <3>3
  <2>7. \A j \in Kind \ {k} : Owns(j)' = Owns(j) /\ Queued(j)' = Queued(j)
    BY <2>3, <2>5 DEF Owns
  <2> QED BY <1>1, <2>6, <2>7, CountsMoved
<1>9. CASE ReadVideo \/ ReadAudio
  BY <1>3, <1>8, <1>9 DEF ReadVideo, ReadAudio
<1>10. CASE FreeFrame
  <2> DEFINE k == HeldKind
             b == current_frame_buffer_
  <2>1. k \in Kind /\ b # 0 /\ b \in 1..Len(heap)
    BY <1>10 DEF FreeFrame, InHand, TypeOK, HeldKind
  <2>2. /\ free_list[k] \in Seq(1..Len(heap)) /\ free_list'[k] = Append(free_list[k], b)
        /\ \A j \in Kind \ {k} : free_list'[j] = free_list[j]
        /\ heap' = heap /\ queue' = queue /\ b' = 0 /\ is_audio' = is_audio
    BY <1>10, <2>1 DEF FreeFrame, FreeCurrent, FreeBuffer, HeldKind, TypeOK
  <2>3. Held(k) = 1 /\ \A j \in Kind : Held(j)' = 0 /\ (j # k => Held(j) = 0)
    BY <2>1, <2>2 DEF Held
  <2>4. PICK j \in Kind : j = k
    BY <2>1
  <2> HIDE DEF k
  <2>5. /\ Free(j)' = Free(j) + 1 /\ Queued(j)' = Queued(j)
        /\ \A i \in Kind \ {j} : Queued(i)' = Queued(i) /\ Free(i)' = Free(i)
    BY <2>1, <2>2, <2>4, AppendElems DEF Queued, Free
  <2>6. /\ Owns(j)' + Len(heap) = Owns(j) + Len(heap')
        /\ Owns(j)' <= Capacity[j] + 1 /\ Queued(j)' <= Capacity[j]
    BY <1>2, <2>2, <2>3, <2>4, <2>5
  <2>7. \A i \in Kind \ {j} : Owns(i)' = Owns(i) /\ Queued(i)' = Queued(i)
    BY <2>3, <2>4, <2>5 DEF Owns
  <2> QED BY <1>1, <2>6, <2>7, CountsMoved
<1>11. CASE Close \/ UNCHANGED vars
  BY <1>3, <1>11 DEF Close, vars, reader
<1> QED
  BY <1>6, <1>7, <1>9, <1>10, <1>11 DEF Next, Player

\* The payload under the player's hand stays, and only frames of its kind
\* come into a queue.
LEMMA ContentsStep ==
  ASSUME TypeOK, Owned, InHand, Contents, [Next]_vars
  PROVE  Contents'
<1> USE KindAssumption
<1>1. HeldKind \in Kind
  BY DEF HeldKind
<1>2. ASSUME NEW k \in Kind, NEW f \in Frame, f.kind = k, WriteBack(k, f), UNCHANGED reader
      PROVE  Contents'
  <2>1. PICK n \in 1..Len(heap') :
          /\ queue' = [queue EXCEPT ![k] = Append(queue[k], n)]
          /\ heap'[n].frame = f
          /\ \A j \in Kind : \A b \in ToSet(queue[j]) : heap'[b] = heap[b]
          /\ current_frame_buffer_ # 0 => heap'[current_frame_buffer_] = heap[current_frame_buffer_]
    BY <1>2, WriteBackKeeps
  <2>2. queue[k] \in Seq(1..Len(heap')) /\ queue \in [Kind -> Seq(1..Len(heap))]
    <3>1. QueueTypes
      BY DEF TypeOK, QueueTypes, Cell
    <3>2. Len(heap) \in Nat /\ Len(heap') \in Nat /\ Len(heap) <= Len(heap')
      BY <1>2, <3>1, WriteBackTypes
    <3>3. 1..Len(heap) \subseteq 1..Len(heap') /\ queue[k] \in Seq(1..Len(heap))
      BY <3>1, <3>2 DEF QueueTypes
    <3> QED BY <3>1, <3>3, SeqMonotonic DEF QueueTypes
  <2>3. ToSet(queue'[k]) = ToSet(queue[k]) \cup {n} /\ \A j \in Kind \ {k} : queue'[j] = queue[j]
    <3>1. ToSet(Append(queue[k], n)) = ToSet(queue[k]) \cup {n}
      BY <2>1, <2>2, AppendElems
    <3>2. queue'[k] = Append(queue[k], n) /\ \A j \in Kind \ {k} : queue'[j] = queue[j]
      BY <2>1, <2>2
    <3> QED BY <3>1, <3>2
  <2>4. QueuedKinds'
    BY <1>2, <2>1, <2>3 DEF Contents, QueuedKinds
  <2>5. FrameIntact'
    BY <1>2, <2>1 DEF Contents, FrameIntact, InHand, HeldKind, reader
  <2> QED BY <2>4, <2>5 DEF Contents
<1>3. ASSUME UNCHANGED <<qvars, reader>>
      PROVE  Contents'
  BY <1>3 DEF qvars, reader, Contents, QueuedKinds, FrameIntact, HeldKind
<1>4. CASE Callback("audio") \/ Callback("video")
  <2>1. PICK k \in Kind, f \in Frame : OnAudioFrame(f) \/ OnVideoFrame(f)
    BY <1>4, CallbackFrame
  <2>2. UNCHANGED reader
    BY <2>1 DEF OnAudioFrame, OnVideoFrame
  <2>3. UNCHANGED qvars \/ WriteBack(f.kind, f)
    BY <2>1 DEF OnAudioFrame, OnVideoFrame, DiscardDelta, PushVideo, RejectVideo
  <2>4. f.kind \in Kind
    BY DEF Frame
  <2> QED BY <1>2, <1>3, <2>2, <2>3, <2>4
<1>5. CASE ClearVideo
  <2>1. /\ queue'["video"] = << >> /\ queue'["audio"] = queue["audio"]
        /\ heap' = heap /\ UNCHANGED reader
    BY <1>5 DEF ClearVideo, Clear, TypeOK
  <2>2. ToSet(<< >>) = {}
    BY DEF ToSet
  <2>3. QueuedKinds'
    BY <2>1, <2>2 DEF Contents, QueuedKinds
  <2> QED BY <2>1, <2>3 DEF Contents, FrameIntact, HeldKind, reader
<1>6. ASSUME NEW k \in Kind, TakeFrame(k)
      PROVE  Contents'
  <2>1. /\ queue[k] \in Seq(1..Len(heap)) /\ queue[k] # << >>
        /\ queue'[k] = Tail(queue[k]) /\ heap' = heap
        /\ \A j \in Kind \ {k} : queue'[j] = queue[j]
    BY <1>6 DEF TakeFrame, ReadFront, TypeOK
  <2>2. Head(queue[k]) \in ToSet(queue[k]) /\ ToSet(Tail(queue[k])) \subseteq ToSet(queue[k])
    BY <2>1, TailElems
  <2>3. QueuedKinds'
    BY <2>1, <2>2 DEF Contents, QueuedKinds
  <2>4. /\ HeldKind' = k /\ current_frame_buffer_' = Head(queue[k])
        /\ last_read'[k] = heap[Head(queue[k])].frame.seq
    BY <1>6 DEF TakeFrame, Oldest, HeldKind, TypeOK
  <2>5. FrameIntact'
    BY <2>1, <2>2, <2>4 DEF Contents, QueuedKinds, FrameIntact
  <2> QED BY <2>3, <2>5 DEF Contents
<1>7. CASE ReadVideo \/ ReadAudio
  <2>1. CASE UNCHANGED qvars /\ player_pc' # "holding"
    BY <2>1 DEF qvars, Contents, QueuedKinds, FrameIntact
  <2> QED BY <1>6, <1>7, <2>1 DEF ReadVideo, ReadAudio
<1>8. CASE FreeFrame
  BY <1>8 DEF FreeFrame, FreeCurrent, FreeBuffer, qvars, Contents, QueuedKinds, FrameIntact
<1>9. CASE Close \/ UNCHANGED vars
  BY <1>3, <1>9 DEF Close, vars
<1> QED
  BY <1>4, <1>5, <1>7, <1>8, <1>9 DEF Next, Player

LEMMA PoolInit == Init => Pool
<1> SUFFICES ASSUME Init PROVE Pool
  OBVIOUS
<1> USE KindAssumption
<1>1. /\ Len(heap) = 0
      /\ \A k \in Kind : queue[k] = << >> /\ free_list[k] = << >>
      /\ current_frame_buffer_ = 0 /\ player_pc = "idle"
  BY DEF Init, QueueInit
<1>2. Queued("audio") = 0 /\ Free("audio") = 0 /\ Queued("video") = 0 /\ Free("video") = 0
  BY <1>1 DEF Queued, Free
<1>3. Held("audio") = 0 /\ Held("video") = 0
  BY <1>1 DEF Held
<1>4. Owns("audio") = 0 /\ Owns("video") = 0
  BY <1>2, <1>3 DEF Owns
<1>5. Counts
  <2>1. ASSUME NEW k \in Kind PROVE Owns(k) <= Capacity[k] + 1 /\ Queued(k) <= Capacity[k]
    BY <1>2, <1>4, CapacityTypes
  <2> QED BY <1>1, <1>4, <2>1 DEF Counts
<1>6. Contents
  BY <1>1 DEF Contents, QueuedKinds, FrameIntact, ToSet
<1> QED BY <1>1, <1>5, <1>6 DEF Pool, InHand

LEMMA SpecIsAnyCallerSpec == Spec => AnyCallerSpec
<1>1. [Next]_vars => [AnyCallerNext]_vars
  BY DEF AnyCallerNext
<1> QED BY <1>1, PTL DEF Spec, AnyCallerSpec

LEMMA SumOfSix ==
  ASSUME NEW a \in Nat, NEW b \in Nat, NEW c \in Nat, NEW d \in Nat, NEW e \in Nat, NEW f \in Nat
  PROVE  (a + b + c) + (d + e + f) = a + b + c + d + e + f
OBVIOUS

LEMMA AlwaysPool == Spec => [](TypeOK /\ Owned /\ Pool)
<1>1. TypeOK /\ Owned /\ Pool /\ [Next]_vars => Pool'
  BY InHandStep, CountsStep, ContentsStep DEF Pool
<1>2. Spec => [](TypeOK /\ Owned)
  BY SpecIsAnyCallerSpec, TypeCorrect, BuffersOwned, PTL DEF Owned
<1> QED
  BY <1>1, <1>2, PoolInit, PTL DEF Spec

\* With the calls of rtd_read_packet: no buffer is lost, a queue owns no more
\* buffers than it may queue and one, and none changes under the reader's hand.
THEOREM PoolIsSound == Spec => []PoolInv
<1>1. TypeOK /\ Pool => PoolInv
  <2> SUFFICES ASSUME TypeOK, Pool PROVE NoLeak /\ PoolBounded /\ FrameIntact
    BY DEF PoolInv
  <2>1. CountTypes
    BY AreCounts
  <2>2. /\ Queued("audio") \in Nat /\ Free("audio") \in Nat /\ Held("audio") \in Nat
        /\ Queued("video") \in Nat /\ Free("video") \in Nat /\ Held("video") \in Nat
    BY <2>1, KindAssumption DEF CountTypes
  <2>3. Len(heap) = Queued("audio") + Free("audio") + Held("audio")
                    + Queued("video") + Free("video") + Held("video")
    BY <2>2, SumOfSix DEF Pool, Counts, Owns
  <2>4. player_pc \in {"idle", "read_audio"} => current_frame_buffer_ = 0
    BY DEF Pool, InHand
  <2>5. PoolBounded
    BY DEF Pool, Counts, Owns, Queued, Free, PoolBounded
  <2> QED BY <2>3, <2>4, <2>5 DEF NoLeak, Queued, Free, Pool, Contents
<1> QED
  BY <1>1, AlwaysPool, PTL

-----------------------------------------------------------------------------
(* The video path implements VideoStream.                                  *)

\* After an overflow the demuxer waits for a key frame until one is queued,
\* and the queue stays empty till then.
Overflow ==
  /\ last_receive_failed_["video"] => iframe_requested_ /\ queue["video"] = << >>
  /\ video_pc = "clear" => iframe_requested_ /\ ~last_receive_failed_["video"]

LEMMA OverflowInit == Init => Overflow
BY KindAssumption DEF Init, QueueInit, Overflow

LEMMA OverflowStep ==
  ASSUME TypeOK, Overflow, [Next]_vars
  PROVE  Overflow'
<1> USE KindAssumption
<1>0. ASSUME UNCHANGED <<last_receive_failed_, iframe_requested_, video_pc>>,
             queue'["video"] = queue["video"] \/ queue["video"] # << >>
      PROVE  Overflow'
  BY <1>0 DEF Overflow
<1>1. ASSUME NEW f \in Frame, OnAudioFrame(f) PROVE Overflow'
  <2>1. queue'["video"] = queue["video"]
    BY <1>1 DEF OnAudioFrame, WriteBack, Reuse, Allocate, qvars, TypeOK
  <2>2. last_receive_failed_'["video"] = last_receive_failed_["video"]
    BY <1>1 DEF OnAudioFrame, TypeOK
  <2> QED BY <1>1, <2>1, <2>2 DEF OnAudioFrame, Overflow
<1>2. ASSUME NEW f \in Frame, OnVideoFrame(f) PROVE Overflow'
  <2>1. CASE DiscardDelta(f)
    BY <1>0, <2>1 DEF DiscardDelta, qvars
  <2>2. CASE PushVideo(f)
    BY <1>2, <2>2 DEF OnVideoFrame, PushVideo, Overflow, TypeOK
  <2>3. CASE RejectVideo(f)
    <3>1. Capacity["video"] # 0
      BY CapacityTypes
    <3>2. ~last_receive_failed_["video"]
      BY <2>3, <3>1 DEF RejectVideo, IsFull, Overflow
    <3> QED BY <2>3, <3>2 DEF RejectVideo, Overflow
  <2> QED BY <1>2, <2>1, <2>2, <2>3 DEF OnVideoFrame
<1>3. CASE Callback("audio") \/ Callback("video")
  BY <1>1, <1>2, <1>3, CallbackFrame
<1>4. CASE ClearVideo
  BY <1>4 DEF ClearVideo, Clear, Overflow, TypeOK
<1>5. ASSUME NEW k \in Kind, TakeFrame(k), UNCHANGED producer PROVE Overflow'
  BY <1>0, <1>5 DEF TakeFrame, ReadFront, producer, TypeOK
<1>6. CASE ReadVideo \/ ReadAudio
  BY <1>0, <1>5, <1>6 DEF ReadVideo, ReadAudio, qvars, producer
<1>7. CASE FreeFrame
  BY <1>0, <1>7 DEF FreeFrame, FreeCurrent, FreeBuffer, qvars, producer
<1>8. CASE Close \/ UNCHANGED vars
  BY <1>0, <1>8 DEF Close, vars, qvars, producer
<1> QED
  BY <1>3, <1>4, <1>6, <1>7, <1>8 DEF Next, Player

\* The frames of the video queue, which are the channel's.
Chan == [i \in 1..Len(queue["video"]) |-> VideoFrame(queue["video"][i])]

ChanFrame == [seq: Nat, key: BOOLEAN]

LEMMA ChanTypes == TypeOK => Chan \in Seq(ChanFrame) /\ Len(Chan) = Len(queue["video"])
<1> SUFFICES ASSUME TypeOK PROVE Chan \in Seq(ChanFrame) /\ Len(Chan) = Len(queue["video"])
  OBVIOUS
<1> DEFINE n == Len(queue["video"])
<1>1. queue["video"] \in Seq(1..Len(heap)) /\ n \in Nat
  BY KindAssumption DEF TypeOK
<1>2. ASSUME NEW i \in 1..n PROVE VideoFrame(queue["video"][i]) \in ChanFrame
  <2>1. queue["video"][i] \in 1..Len(heap)
    BY <1>1, ElementOfSeq
  <2>2. heap[queue["video"][i]] \in Cell
    BY <2>1, ElementOfSeq DEF TypeOK, Cell
  <2> QED BY <2>2 DEF VideoFrame, ChanFrame, Cell, Frame
<1>3. Chan = [i \in 1..n |-> VideoFrame(queue["video"][i])]
  BY DEF Chan
<1> DEFINE e(i) == VideoFrame(queue["video"][i])
<1>4. \A i \in 1..n : e(i) \in ChanFrame
  BY <1>2
<1>5. [i \in 1..n |-> e(i)] \in Seq(ChanFrame) /\ Len([i \in 1..n |-> e(i)]) = n
  <2> HIDE DEF n, e
  <2> QED BY <1>1, <1>4, SMT
<1> QED BY <1>3, <1>5

\* A step that touches no queued video frame leaves the channel as it is.
LEMMA ChanKept ==
  ASSUME TypeOK, queue'["video"] = queue["video"],
         \A b \in ToSet(queue["video"]) : heap'[b] = heap[b]
  PROVE  Chan' = Chan
<1>1. \A i \in 1..Len(queue["video"]) : queue["video"][i] \in ToSet(queue["video"])
  BY KindAssumption, SeqElems DEF Elems, TypeOK
<1> QED BY <1>1 DEF Chan, VideoFrame

\* Appending to the queue and taking its head are the channel's Append and Tail.
LEMMA ChanAppend ==
  ASSUME TypeOK, TypeOK', NEW n, queue'["video"] = Append(queue["video"], n),
         \A b \in ToSet(queue["video"]) : heap'[b] = heap[b]
  PROVE  Chan' = Append(Chan, [seq |-> heap'[n].frame.seq, key |-> heap'[n].frame.key])
<1> DEFINE q == queue["video"]
           N == Len(q)
           x == [seq |-> heap'[n].frame.seq, key |-> heap'[n].frame.key]
<1>1. q \in Seq(1..Len(heap)) /\ N \in Nat /\ Chan \in Seq(ChanFrame) /\ Len(Chan) = N
  BY KindAssumption, ChanTypes DEF TypeOK
<1>2. /\ Len(queue'["video"]) = N + 1
      /\ \A i \in 1..N : queue'["video"][i] = q[i]
      /\ queue'["video"][N + 1] = n
  BY <1>1
<1>3. Chan' \in Seq(ChanFrame) /\ Len(Chan') = N + 1
  <2>1. (Chan \in Seq(ChanFrame) /\ Len(Chan) = Len(queue["video"]))'
    BY ChanTypes, PTL
  <2> QED BY <1>2, <2>1
<1>4. \A i \in 1..N : Chan'[i] = Chan[i]
  <2>1. \A i \in 1..N : q[i] \in ToSet(q)
    BY <1>1, SeqElems DEF Elems
  <2>2. \A i \in 1..N : i \in 1..(N + 1)
    BY <1>1
  <2> QED BY <1>2, <2>1, <2>2 DEF Chan, VideoFrame
<1>5. Chan'[N + 1] = x
  <2>1. N + 1 \in 1..(N + 1)
    BY <1>1
  <2> QED BY <1>2, <2>1 DEF Chan, VideoFrame
<1>6. x \in ChanFrame
  <2>1. Chan'[N + 1] \in ChanFrame
    BY <1>1, <1>3, ElementOfSeq
  <2> QED BY <1>5, <2>1
<1> HIDE DEF q, N, x
<1>7. Chan' = Append(Chan, x)
  BY <1>1, <1>3, <1>4, <1>5, <1>6, IsAppend
<1> QED BY <1>7 DEF x

LEMMA ChanTail ==
  ASSUME TypeOK, TypeOK', queue["video"] # << >>, queue'["video"] = Tail(queue["video"]), heap' = heap
  PROVE  Chan # << >> /\ Chan' = Tail(Chan) /\ Head(Chan) = VideoFrame(Head(queue["video"]))
<1> DEFINE q == queue["video"]
           N == Len(q)
<1>1. q \in Seq(1..Len(heap)) /\ N \in Nat \ {0} /\ Chan \in Seq(ChanFrame) /\ Len(Chan) = N
  BY KindAssumption, ChanTypes, EmptySeq DEF TypeOK
<1>2. /\ Len(queue'["video"]) = N - 1 /\ Head(q) = q[1]
      /\ \A i \in 1..(N - 1) : queue'["video"][i] = q[i + 1]
  BY <1>1, HeadTailProperties
<1>3. Chan' \in Seq(ChanFrame) /\ Len(Chan') = N - 1
  <2>1. (Chan \in Seq(ChanFrame) /\ Len(Chan) = Len(queue["video"]))'
    BY ChanTypes, PTL
  <2> QED BY <1>2, <2>1
<1>4. \A i \in 1..(N - 1) : Chan'[i] = Chan[i + 1]
  <2>1. \A i \in 1..(N - 1) : i + 1 \in 1..N
    BY <1>1
  <2> QED BY <1>2, <2>1 DEF Chan, VideoFrame
<1>5. Chan # << >> /\ Head(Chan) = Chan[1]
  BY <1>1
<1>6. Chan[1] = VideoFrame(q[1])
  <2>1. 1 \in 1..N
    BY <1>1
  <2> QED BY <2>1 DEF Chan
<1>7. Chan' = Tail(Chan)
  BY <1>1, <1>3, <1>4, <1>5, IsTail
<1> QED BY <1>2, <1>5, <1>6, <1>7

LEMMA StreamInit == Init => Stream!Init
<1> SUFFICES ASSUME Init PROVE Stream!Init
  OBVIOUS
<1>1. queue["video"] = << >> /\ made["video"] = 0 /\ last_read["video"] = 0
  BY KindAssumption DEF Init, QueueInit
<1>2. Chan = << >>
  <2>1. TypeOK
    BY TypeOKInit
  <2>2. Chan \in Seq(ChanFrame) /\ Len(Chan) = 0
    BY <1>1, <2>1, ChanTypes
  <2> QED BY <2>2, EmptySeq
<1> QED BY <1>1, <1>2 DEF Init, Stream!Init, Chan

LEMMA StreamStep ==
  ASSUME TypeOK, Owned, Counts, Overflow, [Next]_vars
  PROVE  [Stream!Next]_(Stream!vars)
<1> USE KindAssumption
<1>0. /\ TypeOK' /\ Chan \in Seq(ChanFrame) /\ Len(Chan) = Len(queue["video"])
      /\ queue["video"] \in Seq(1..Len(heap)) /\ Len(queue["video"]) \in Nat
  BY TypeOKStep, ChanTypes DEF AnyCallerNext, TypeOK
<1>1. ASSUME Chan' = Chan, made'["video"] = made["video"], last_read'["video"] = last_read["video"],
             iframe_requested_' = iframe_requested_
      PROVE  UNCHANGED Stream!vars
  BY <1>1 DEF Stream!vars, Chan
<1>2. ASSUME NEW f \in Frame, OnAudioFrame(f) PROVE UNCHANGED Stream!vars
  <2>1. /\ queue'["video"] = queue["video"] /\ made'["video"] = made["video"]
        /\ last_read' = last_read /\ iframe_requested_' = iframe_requested_
    BY <1>2 DEF OnAudioFrame, Produce, WriteBack, Reuse, Allocate, qvars, reader, TypeOK
  <2>2. \A b \in ToSet(queue["video"]) : heap'[b] = heap[b]
    <3>1. CASE WriteBack("audio", f)
      BY <3>1, WriteBackKeeps
    <3> QED BY <1>2, <3>1 DEF OnAudioFrame, qvars
  <2> QED BY <1>1, <2>1, <2>2, ChanKept
<1>3. ASSUME NEW f \in Frame, OnVideoFrame(f) PROVE Stream!Next
  <2>1. /\ f.key \in BOOLEAN /\ f.seq = Stream!Following
        /\ made'["video"] = Stream!Following /\ last_read' = last_read
    BY <1>3 DEF OnVideoFrame, Produce, NextNumber, Stream!Following, Frame, TypeOK, reader
  <2>2. CASE DiscardDelta(f)
    <3>1. Chan' = Chan
      BY <2>2, ChanKept DEF DiscardDelta, qvars
    <3>2. Stream!Lose(f.key)
      BY <2>1, <2>2, <3>1 DEF DiscardDelta, Stream!Lose, Chan
    <3> QED BY <2>1, <3>2 DEF Stream!Next
  <2>3. CASE PushVideo(f)
    <3>1. PICK n \in 1..Len(heap') :
            /\ queue' = [queue EXCEPT !["video"] = Append(queue["video"], n)]
            /\ heap'[n].frame = f
            /\ \A b \in ToSet(queue["video"]) : heap'[b] = heap[b]
      BY <2>3, WriteBackKeeps DEF PushVideo
    <3>2. queue'["video"] = Append(queue["video"], n)
      BY <3>1 DEF TypeOK
    <3>3. Chan' = Append(Chan, [seq |-> Stream!Following, key |-> f.key])
      BY <1>0, <2>1, <3>1, <3>2, ChanAppend
    <3>4. Len(Chan) < Capacity["video"]
      <4>1. Queued("video") <= Capacity["video"] /\ Queued("video") # Capacity["video"]
        BY <2>3 DEF PushVideo, WriteBack, IsFull, Queued, Counts
      <4>2. Capacity["video"] \in Nat /\ Queued("video") = Len(Chan) /\ Len(Chan) \in Nat
        BY <1>0, CapacityTypes DEF Queued
      <4> QED BY <4>1, <4>2
    <3>5. Stream!Keep(f.key)
      BY <2>1, <2>3, <3>3, <3>4 DEF PushVideo, Stream!Keep, Chan
    <3> QED BY <2>1, <3>5 DEF Stream!Next
  <2>4. CASE RejectVideo(f)
    <3>1. Chan' = Chan
      BY <2>4, ChanKept DEF RejectVideo, qvars
    <3>2. Len(Chan) = Capacity["video"] /\ Capacity["video"] # 0
      BY <1>0, <2>4, CapacityTypes DEF RejectVideo, IsFull
    <3>3. iframe_requested_' = TRUE
      BY <1>0, <2>4, <3>2 DEF RejectVideo, Overflow
    <3>4. Stream!Lose(f.key)
      BY <2>1, <3>1, <3>2, <3>3 DEF Stream!Lose, Chan
    <3> QED BY <2>1, <3>4 DEF Stream!Next
  <2> QED BY <1>3, <2>2, <2>3, <2>4 DEF OnVideoFrame
<1>4. CASE Callback("audio") \/ Callback("video")
  BY <1>2, <1>3, <1>4, CallbackFrame
<1>5. CASE ClearVideo
  <2>1. queue'["video"] = << >> /\ iframe_requested_ /\ UNCHANGED <<made, last_read, iframe_requested_>>
    BY <1>5 DEF ClearVideo, Clear, TypeOK, Overflow, reader
  <2>2. (Chan \in Seq(ChanFrame) /\ Len(Chan) = Len(queue["video"]))'
    BY <1>0, ChanTypes, PTL
  <2>3. Chan' = << >>
    BY <2>1, <2>2, EmptySeq
  <2> QED BY <2>1, <2>3 DEF Stream!Next, Stream!Flush, Chan
<1>6. ASSUME NEW k \in Kind, TakeFrame(k), UNCHANGED producer
      PROVE  [Stream!Next]_(Stream!vars)
  <2>1. CASE k = "audio"
    <3>1. /\ queue'["video"] = queue["video"] /\ heap' = heap
          /\ last_read'["video"] = last_read["video"] /\ UNCHANGED <<made, iframe_requested_>>
      BY <1>6, <2>1 DEF TakeFrame, ReadFront, TypeOK, producer
    <3> QED BY <1>1, <3>1, ChanKept
  <2>2. CASE k = "video"
    <3>1. /\ queue["video"] # << >> /\ queue'["video"] = Tail(queue["video"]) /\ heap' = heap
          /\ last_read'["video"] = VideoFrame(Head(queue["video"])).seq
          /\ UNCHANGED <<made, iframe_requested_>>
      BY <1>6, <2>2 DEF TakeFrame, ReadFront, Oldest, VideoFrame, TypeOK, producer
    <3>2. Chan # << >> /\ Chan' = Tail(Chan) /\ Head(Chan) = VideoFrame(Head(queue["video"]))
      BY <1>0, <3>1, ChanTail
    <3> QED BY <3>1, <3>2 DEF Stream!Next, Stream!Read, Chan
  <2> QED BY <2>1, <2>2
<1>7. ASSUME UNCHANGED <<heap, queue, made, last_read, iframe_requested_>>
      PROVE  UNCHANGED Stream!vars
  BY <1>1, <1>7, ChanKept
<1>8. CASE ReadVideo \/ ReadAudio
  BY <1>6, <1>7, <1>8 DEF ReadVideo, ReadAudio, qvars, producer
<1>9. CASE FreeFrame \/ Close \/ UNCHANGED vars
  BY <1>7, <1>9 DEF FreeFrame, FreeCurrent, FreeBuffer, Close, vars, qvars, producer, reader
<1> QED
  BY <1>4, <1>5, <1>8, <1>9 DEF Next, Player

\* The demuxer loses a video frame only when the queue overflows or the frame
\* it depends on was lost, and hands the others out in order.
THEOREM VideoPathIsAStream == Spec => ImplementsVideoStream
<1>1. TypeOK /\ Overflow /\ [Next]_vars => Overflow'
  BY OverflowStep
<1>2. TypeOK /\ Owned /\ Pool /\ Overflow /\ [Next]_vars => [Stream!Next]_(Stream!vars)
  BY StreamStep DEF Pool
<1> QED
  BY <1>1, <1>2, AlwaysPool, OverflowInit, StreamInit, PTL
     DEF Spec, ImplementsVideoStream, Stream!Spec

=============================================================================
