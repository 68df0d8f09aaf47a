---------------------------- MODULE PacketBuffer ----------------------------
(***************************************************************************)
(* PacketBuffer (packet_buffer.cc): the ring in which the packets of the   *)
(* video stream wait until their frame is complete.  The packets of frames *)
(* leave it in InsertResult; frames that are decoded clear it up to their  *)
(* last packet.                                                            *)
(*                                                                         *)
(* The sender's stream is a constant: FrameOf says of each sequence number *)
(* to which frame its packet belongs.  The same number always stands for   *)
(* the same packet.  The first packets of a frame (heads of them) are      *)
(* "real first" packets: those with parameter sets and the one that begins *)
(* with the first slice, which also shows that a key frame is IDR.  The    *)
(* last has the marker.  A frame of kind "padding" is one empty packet.    *)
(* The parameter sets are in the heads before the first slice.  A Crowded  *)
(* packet has kMaxNalusPerPacket NAL units or more.  The player offers     *)
(* H.264 only; of another codec a frame has one head.                      *)
(*                                                                         *)
(* Packets come in any order and more than once, at most MaxBack behind    *)
(* and MaxJump ahead of the newest one.                                    *)
(***************************************************************************)
EXTENDS SeqNum, SequencesExt, FiniteSetsExt

CONSTANTS StartSize, MaxSize,   \* start_buffer_size and max_buffer_size
          PaddingAge,           \* kMaxPaddingAge
          FrameOf,              \* the frame of each number: [start, end, heads, kind, codec]
          Crowded,              \* the packets with as many NAL units as are kept
          FirstSeqs,            \* the packets that may come first
          MaxBack, MaxJump

SizesFrom(n) == {n * 2^k : k \in 0..MaxSize} \cap 1..MaxSize

ASSUME PacketBufferAssumption ==
  /\ {StartSize, MaxSize, PaddingAge, MaxBack, MaxJump} \subseteq Nat \ {0}
  /\ MaxSize \in SizesFrom(StartSize)
  /\ Modulus \in {n * MaxSize : n \in 1..Modulus}
  /\ \A s \in SeqNums : LET f == FrameOf[s]
                        IN /\ s \in f.start..f.end
                           /\ \A t \in f.start..f.end : FrameOf[t] = f
                           /\ f.heads \in 0..(f.end - f.start + 1)
                           /\ f.kind \in {"key", "delta", "padding"}
                           /\ f.codec # "h264" => f.heads = 1
  /\ MaxBack + MaxJump + PaddingAge < Half
  /\ FirstSeqs \cup Crowded \subseteq SeqNums

VARIABLES
  sps_pps_idr_is_h264_keyframe_,   \* set by the description, before the first packet
  buffer_,                \* slot -> [seq, continuous], or NoPacket
  first_seq_num_,
  first_packet_received_,
  is_cleared_to_first_seq_num_,
  newest_inserted_seq_num_,
  missing_packets_,
  result,                 \* the InsertResult of the last call
  top,                    \* the newest packet that has come, or none
  seen,                   \* history: the packets that have come, of the last ones
  came,                   \* history: the packet of the last step
  base,                   \* history: where the present search for gaps began
  handed                  \* last packets of frames handed out and not yet decoded

vars == <<sps_pps_idr_is_h264_keyframe_, buffer_, first_seq_num_, first_packet_received_,
          is_cleared_to_first_seq_num_, newest_inserted_seq_num_, missing_packets_, result,
          top, seen, came, base, handed>>

None == -1
NoPacket == [seq |-> None, continuous |-> FALSE]

-----------------------------------------------------------------------------
(* The sender's packets.                                                   *)

SameTimestamp(s, t) == FrameOf[s] = FrameOf[t]
RealFirst(s) == s < FrameOf[s].start + FrameOf[s].heads
IsH264(s) == FrameOf[s].codec = "h264"
LastInFrame(s) == s = FrameOf[s].end
HasIdr(s) == FrameOf[s].kind = "key" /\ s = FrameOf[s].start + FrameOf[s].heads - 1

\* The packets of H.264 hold an SPS and a PPS: all heads before the first slice.
HasSpsPps(packets) ==
  \E p \in packets : p = FrameOf[p].start /\ FrameOf[p].kind = "key" /\ FrameOf[p].heads > 1

IsKeyframe(packets) ==
  /\ \E p \in packets : HasIdr(p)
  /\ sps_pps_idr_is_h264_keyframe_ => \A p \in packets : IsH264(p) => HasSpsPps(packets)

-----------------------------------------------------------------------------
(* The ring.                                                               *)

Size == Cardinality(DOMAIN buffer_)
Slot(buf, s) == s % Cardinality(DOMAIN buf)
Empty(n) == [i \in 0..(n - 1) |-> NoPacket]
Stored(buf) == {buf[i].seq : i \in {j \in DOMAIN buf : buf[j] # NoPacket}}
Holds(buf, s) == s \in Stored(buf)

\* The slot before that of s holds a packet of the same frame.
JoinsBefore(buf, s) ==
  LET before == buf[Slot(buf, Minus(s, 1))]
  IN before # NoPacket /\ SameTimestamp(before.seq, s)

\* ExpandBufferSize: every packet moves to its slot of the larger ring.
Rehash(buf, n) ==
  [i \in 0..(n - 1) |->
     IF \E s \in Stored(buf) : s % n = i
     THEN buf[CHOOSE j \in DOMAIN buf : buf[j] # NoPacket /\ buf[j].seq % n = i]
     ELSE NoPacket]

\* The ring doubles until the slot of s is free, or up to its limit.
Expanded(buf, s) ==
  LET sizes == SizesFrom(Cardinality(DOMAIN buf))
      enough == {n \in sizes : Rehash(buf, n)[s % n] = NoPacket}
  IN Rehash(buf, IF enough # {} THEN Min(enough) ELSE MaxSize)

\* UpdateMissingPackets.
MissingAfter(s) ==
  LET old  == Minus(s, PaddingAge)
      from == IF AheadOf(old, newest_inserted_seq_num_) THEN old ELSE newest_inserted_seq_num_
  IN IF newest_inserted_seq_num_ # None /\ AheadOf(s, newest_inserted_seq_num_)
     THEN FromLowerBound(missing_packets_, old)
            \cup {m \in SeqNums : AheadOf(m, from) /\ AheadOf(s, m)}
     ELSE missing_packets_ \ {s}

NewestAfter(s) ==
  IF newest_inserted_seq_num_ = None \/ AheadOf(s, newest_inserted_seq_num_)
  THEN s ELSE newest_inserted_seq_num_

-----------------------------------------------------------------------------
(* FindFrames.  A search state holds the ring, the missing packets and the *)
(* frames found; go is FALSE once the loop has ended.                      *)

PotentialNewFrameAnyStart(buf, s) == Holds(buf, s)

PotentialNewFrame(buf, s) ==
  /\ Holds(buf, s)
  /\ \/ RealFirst(s)
     \/ JoinsBefore(buf, s) /\ LET before == buf[Slot(buf, Minus(s, 1))]
                               IN before.seq = Minus(s, 1) /\ before.continuous

\* How many packets before s the backward walk reaches: for H.264 it ends at the first
\* slot that is empty or of another frame, and does not look at the numbers; for another
\* codec at the packet that says it is the first.
WalkBack(buf, s) ==
  Max({n \in 0..(Cardinality(DOMAIN buf) - 1) :
         \A i \in 0..(n - 1) :
           IF IsH264(s)
           THEN LET before == buf[Slot(buf, Minus(s, i + 1))]
                IN before # NoPacket /\ SameTimestamp(before.seq, s)
           ELSE ~RealFirst(Minus(s, i))})

SeqRange(a, b) == {Plus(a, i) : i \in 0..ForwardDiff(a, b)}

\* The backward walk ends without a frame at a packet that has too many NAL units.
TooManyNalus(packets) == \E p \in packets : IsH264(p) /\ p \in Crowded

\* A gap before start: a delta frame of H.264 has to wait, a key frame does not.
Waits(missing, start, is_keyframe) ==
  IsH264(start) /\ ~is_keyframe /\ \E m \in missing : ~AheadOf(m, start)

HandOut(st, start, end, is_keyframe) ==
  LET slots == {Slot(st.buf, s) : s \in SeqRange(start, end)}
  IN [st EXCEPT !.frames = Append(@, [start |-> start, end |-> end, key |-> is_keyframe,
                                      packets |-> {st.buf[i] : i \in slots}]),
                !.buf = [i \in DOMAIN @ |-> IF i \in slots THEN NoPacket ELSE @[i]],
                !.missing = {m \in @ : AheadOf(m, end)}]

Search(st, s) ==
  LET marked == [st EXCEPT !.buf[Slot(st.buf, s)].continuous = TRUE]
      start  == Minus(s, WalkBack(st.buf, s))
      walked == SeqRange(start, s)
      is_key == IsKeyframe(walked)
  IN CASE ~(st.go /\ PotentialNewFrame(st.buf, s)) -> [st EXCEPT !.go = FALSE]
       [] /\ st.go /\ PotentialNewFrame(st.buf, s)
          /\ ~LastInFrame(s) -> marked
       [] /\ st.go /\ PotentialNewFrame(st.buf, s)
          /\ LastInFrame(s) -> IF TooManyNalus(walked) \/ Waits(st.missing, start, is_key)
                               THEN [marked EXCEPT !.go = FALSE]
                               ELSE HandOut(marked, start, s, is_key)

FindFrames(buf, missing, s) ==
  LET n == Cardinality(DOMAIN buf)
  IN FoldLeft(Search, [buf |-> buf, missing |-> missing, frames |-> <<>>, go |-> TRUE],
              [i \in 1..n |-> Plus(s, i - 1)])

-----------------------------------------------------------------------------
Init ==
  /\ sps_pps_idr_is_h264_keyframe_ \in BOOLEAN
  /\ buffer_ = Empty(StartSize)
  /\ first_seq_num_ = 0
  /\ first_packet_received_ = FALSE
  /\ is_cleared_to_first_seq_num_ = FALSE
  /\ newest_inserted_seq_num_ = None
  /\ missing_packets_ = {}
  /\ result = [frames |-> <<>>, buffer_cleared |-> FALSE]
  /\ top = None
  /\ seen = {}
  /\ came = None
  /\ base = None
  /\ handed = {}

\* Any packet of FirstSeqs may come first.  A frame is decoded, or the ring
\* cleared, before the stream is a quarter of a turn beyond first_seq_num_.
Arrives(s) ==
  /\ IF top = None THEN s \in FirstSeqs
     ELSE ForwardDiff(s, top) <= MaxBack \/ ForwardDiff(top, s) <= MaxJump
  /\ first_packet_received_ /\ AheadOf(s, first_seq_num_)
       => ForwardDiff(first_seq_num_, s) <= Half \div 2

TopAfter(s) == IF top = None \/ AheadOf(s, top) THEN s ELSE top

\* The histories after packet s has come, and what no packet changes.
Remember(s) ==
  /\ top' = TopAfter(s)
  /\ seen' = {p \in seen \cup {s} : ForwardDiff(p, TopAfter(s)) <= PaddingAge}
  /\ came' = s
  /\ UNCHANGED sps_pps_idr_is_h264_keyframe_

NoResult == result' = [frames |-> <<>>, buffer_cleared |-> FALSE]

\* The end of an insertion: the frames found leave, and the search for gaps
\* begins anew behind a frame that waits for no gap.
Finish(buf, s, from) ==
  LET found == FindFrames(buf, MissingAfter(s), from)
      ends  == {found.frames[i].end : i \in DOMAIN found.frames}
      free  == {f \in ToSet(found.frames) : /\ f.key \/ ~IsH264(f.end)
                                            /\ base = None \/ AheadOf(f.end, base)}
  IN /\ buffer_' = found.buf
     /\ missing_packets_' = found.missing
     /\ newest_inserted_seq_num_' = NewestAfter(s)
     /\ result' = [frames |-> found.frames, buffer_cleared |-> FALSE]
     /\ base' = IF free # {} THEN (CHOOSE f \in free : \A g \in free : ~AheadOf(g.end, f.end)).end
                ELSE IF base = None THEN s
                ELSE IF ForwardDiff(base, TopAfter(s)) > PaddingAge
                THEN Minus(TopAfter(s), PaddingAge) ELSE base
     /\ handed' = {e \in handed \cup ends : ForwardDiff(e, TopAfter(s)) <= MaxBack}
     /\ Remember(s)

\* A packet behind the first one of the ring.
Older(s) == first_packet_received_ /\ AheadOf(first_seq_num_, s)

FirstAfter(s) == IF ~first_packet_received_ \/ Older(s) THEN s ELSE first_seq_num_

\* It was cleared past already, or a packet with its number is in the slot.
Ignored(s) ==
  \/ Older(s) /\ is_cleared_to_first_seq_num_
  \/ Holds(buffer_, s)

IgnorePacket(s) ==
  /\ Ignored(s)
  /\ first_seq_num_' = IF Older(s) /\ is_cleared_to_first_seq_num_ THEN first_seq_num_
                       ELSE FirstAfter(s)
  /\ first_packet_received_' = TRUE
  /\ NoResult
  /\ handed' = {e \in handed : ForwardDiff(e, TopAfter(s)) <= MaxBack}
  /\ Remember(s)
  /\ UNCHANGED <<buffer_, is_cleared_to_first_seq_num_, newest_inserted_seq_num_,
                 missing_packets_, base>>

RingFor(s) == IF buffer_[Slot(buffer_, s)] = NoPacket THEN buffer_ ELSE Expanded(buffer_, s)

StorePacket(s) ==
  LET ring == RingFor(s)
  IN /\ ~Ignored(s)
     /\ ring[Slot(ring, s)] = NoPacket
     /\ first_seq_num_' = FirstAfter(s)
     /\ first_packet_received_' = TRUE
     /\ Finish([ring EXCEPT ![Slot(ring, s)] = [seq |-> s, continuous |-> FALSE]], s, s)
     /\ UNCHANGED is_cleared_to_first_seq_num_

\* The ring is full: everything in it goes, and a key frame is requested.
FullRing(s) ==
  LET ring == RingFor(s)
  IN /\ ~Ignored(s)
     /\ ring[Slot(ring, s)] # NoPacket
     /\ buffer_' = Empty(Cardinality(DOMAIN ring))
     /\ first_seq_num_' = FirstAfter(s)
     /\ first_packet_received_' = FALSE
     /\ is_cleared_to_first_seq_num_' = FALSE
     /\ newest_inserted_seq_num_' = None
     /\ missing_packets_' = {}
     /\ result' = [frames |-> <<>>, buffer_cleared |-> TRUE]
     /\ base' = None
     /\ handed' = {e \in handed : ForwardDiff(e, TopAfter(s)) <= MaxBack}
     /\ Remember(s)

InsertPacket(s) ==
  /\ Arrives(s)
  /\ FrameOf[s].kind # "padding"
  /\ IgnorePacket(s) \/ StorePacket(s) \/ FullRing(s)

InsertPaddingOnly(s) ==
  /\ Arrives(s)
  /\ FrameOf[s].kind = "padding"
  /\ Finish(buffer_, s, s)
  /\ UNCHANGED <<first_seq_num_, first_packet_received_, is_cleared_to_first_seq_num_>>

InsertPadding(s) ==
  /\ Arrives(s)
  /\ FrameOf[s].kind = "padding"
  /\ Finish(buffer_, s, Plus(s, 1))
  /\ UNCHANGED <<first_seq_num_, first_packet_received_, is_cleared_to_first_seq_num_>>

\* The missing packets that stay when the ring is cleared up to s: those after
\* s + 1, and the newest of the others.
MissingBeyond(s) ==
  LET passed == {m \in missing_packets_ : ~AheadOf(m, Plus(s, 1))}
  IN (missing_packets_ \ passed)
       \cup {m \in passed : \A p \in passed : ~AheadOf(p, m)}

\* ClearTo, called with the last packet of a frame that is decoded.
Clears(s, dropped) ==
  /\ buffer_' = [i \in DOMAIN buffer_ |->
                   IF buffer_[i].seq \in dropped THEN NoPacket ELSE buffer_[i]]
  /\ first_seq_num_' = Plus(s, 1)
  /\ is_cleared_to_first_seq_num_' = TRUE
  /\ missing_packets_' = MissingBeyond(s)
  /\ UNCHANGED <<first_packet_received_, newest_inserted_seq_num_>>

\* The slots that the loop over the cleared numbers visits.
VisitedSlots(s) ==
  LET diff == ForwardDiff(first_seq_num_, Plus(s, 1))
  IN {Slot(buffer_, Plus(first_seq_num_, i)) : i \in 0..(Min({diff, Size}) - 1)}

ClearsVisited(s) ==
  Clears(s, {p \in Stored(buffer_) : AheadOf(Plus(s, 1), p) /\ Slot(buffer_, p) \in VisitedSlots(s)})

ClearTo(s) ==
  IF \/ is_cleared_to_first_seq_num_ /\ AheadOf(first_seq_num_, s)
     \/ ~first_packet_received_
  THEN UNCHANGED <<buffer_, first_seq_num_, is_cleared_to_first_seq_num_, missing_packets_,
                   first_packet_received_, newest_inserted_seq_num_>>
  ELSE ClearsVisited(s)

FrameDecoded(s) ==
  /\ s \in handed
  /\ ClearTo(s)
  /\ handed' = {e \in handed : AheadOf(e, s)}
  /\ base' = IF base # None /\ AheadOf(s, base) THEN s ELSE base
  /\ came' = None
  /\ NoResult
  /\ UNCHANGED <<sps_pps_idr_is_h264_keyframe_, top, seen>>

Next ==
  \/ \E s \in SeqNums : InsertPacket(s)
  \/ \E s \in SeqNums : InsertPadding(s)
  \/ \E s \in SeqNums : FrameDecoded(s)

Spec == Init /\ [][Next]_vars

-----------------------------------------------------------------------------
\* Every variable has its type, and every packet is in its slot.
TypeOK ==
  /\ Size \in SizesFrom(StartSize) /\ DOMAIN buffer_ = 0..(Size - 1)
  /\ \A i \in DOMAIN buffer_ :
       buffer_[i] = NoPacket \/ (/\ buffer_[i] \in [seq : SeqNums, continuous : BOOLEAN]
                            /\ buffer_[i].seq % Size = i)
  /\ first_seq_num_ \in SeqNums
  /\ {sps_pps_idr_is_h264_keyframe_, first_packet_received_, is_cleared_to_first_seq_num_}
       \subseteq BOOLEAN
  /\ {newest_inserted_seq_num_, top, came, base} \subseteq SeqNums \cup {None}
  /\ UNION {missing_packets_, seen, handed} \subseteq SeqNums
  /\ result.buffer_cleared \in BOOLEAN

\* A key frame of H.264 has to bring its parameter sets.
Demanding(s) == sps_pps_idr_is_h264_keyframe_ /\ IsH264(s)

\* What is handed out as a frame is one frame of the sender from its first
\* slice to its last packet, each packet in its place, whatever came before
\* it, was cleared or moved (the assertions of FindFrames).
FramesWhole ==
  \A i \in DOMAIN result.frames :
    LET f == result.frames[i]
        sent == FrameOf[f.end]
    IN /\ f.end = sent.end
       /\ f.start \in sent.start..(sent.start + sent.heads - 1)
       /\ f.key <=> sent.kind = "key" /\ (Demanding(f.end) => f.start = sent.start /\ sent.heads > 1)
       /\ NoPacket \notin f.packets
       /\ {p.seq : p \in f.packets} = SeqRange(f.start, f.end)

\* A delta frame of H.264 is handed out only when every packet since the last key frame or
\* frame of another codec handed out, the last frame decoded or the last time the ring
\* was cleared has come, as far back as kMaxPaddingAge.
DeltaFramesGapless ==
  \A i \in DOMAIN result.frames :
    LET f == result.frames[i]
    IN IsH264(f.start) /\ ~f.key => \A s \in SeqNums :
                   /\ AheadOf(f.start, s) /\ AheadOf(s, base)
                   /\ ForwardDiff(s, top) <= PaddingAge
                   => s \in seen

\* After a ClearTo, and until the ring is cleared, no packet older than the last
\* decoded frame is in the ring: it would be handed out in a frame for the past.
ClearedStaysCleared ==
  is_cleared_to_first_seq_num_ => \A s \in Stored(buffer_) : ~AheadOf(first_seq_num_, s)

\* A packet leaves the ring in a frame or because a frame after it is decoded;
\* otherwise the caller learns that the ring was cleared and requests a key
\* frame.  Growing the ring loses nothing.
NoPacketLost ==
  [][ \A s \in Stored(buffer_) \ Stored(buffer_') :
        \/ \E i \in DOMAIN result'.frames : s \in {p.seq : p \in result'.frames[i].packets}
        \/ AheadOf(first_seq_num_', s)
        \/ result'.buffer_cleared ]_vars

Packets(f) == f.start..f.end

Complete(f) == Packets(f) \subseteq Stored(buffer_)

Frames == {FrameOf[s] : s \in SeqNums}

\* Frame f has a gap before it that a delta frame waits for.
Waiting(f) == Waits(missing_packets_, f.start, IsKeyframe(Packets(f)))

\* Between packet s and frame f is padding, which never has a slot of the ring.
PaddingBetween(s, f) ==
  \E p \in SeqRange(s, f.start) \ {s, f.start} : FrameOf[p].kind = "padding"

\* A frame with all its packets in the ring is handed out when nothing is missing before
\* it any more, whatever the order in which the packets came, except that it stays
\*  - for good, if one of its packets has too many NAL units;
\*  - if what it waited for was given up (too old, cleared, before a later key frame);
\*  - if between the packet it waited for and the frame is padding that came earlier:
\*    the search that the packet begins ends there (PotentialNewFrame, packet_buffer.cc:223),
\*    where packet_buffer.h:98-103 has all frames found of which every packet has arrived.
\* In the last two cases it stays until it is cleared or the padding comes again, and the
\* frames behind it leave without it.
CompletedFramesLeave ==
  [][ \A f \in Frames :
        Complete(f)' /\ ~Waiting(f)' =>
          \/ TooManyNalus(Packets(f))
          \/ Complete(f) /\ ~Waiting(f)
          \/ /\ Complete(f)
             /\ came' \in missing_packets_ /\ AheadOf(f.start, came') => PaddingBetween(came', f) ]_vars

=============================================================================
