----------------------------- MODULE MCReceiver -----------------------------
(***************************************************************************)
(* RtpVideoStreamReceiver on a stream that begins with a delta frame, wraps *)
(* and changes the codec after that; and H264Depacketizer on small payloads. *)
(***************************************************************************)
EXTENDS RtpVideoStreamReceiver

Frame(a, b, heads, kind, codec) ==
  [start |-> a, end |-> b, heads |-> heads, kind |-> kind, codec |-> codec]

Stream ==
  {Frame(27, 27, 1, "delta", "h264"), Frame(28, 29, 2, "key", "h264"),
   Frame(30, 30, 1, "delta", "h264"), Frame(31, 31, 0, "padding", "h264"),
   Frame(0, 0, 1, "delta", "h264"), Frame(1, 1, 1, "key", "h264"),
   Frame(2, 2, 1, "delta", "h264"), Frame(3, 3, 1, "key", "h265"),
   Frame(4, 5, 1, "delta", "h265"), Frame(6, 26, 1, "delta", "h265")}

MCFrameOf == [s \in SeqNums |-> CHOOSE f \in Stream : s \in f.start..f.end]

MCFirstSeqs == {27}

MCCrowded == {2}

\* Nothing but an action property about the last step looks at came.
MCView == <<sps_pps_idr_is_h264_keyframe_, buffer_, first_seq_num_, first_packet_received_,
            is_cleared_to_first_seq_num_, newest_inserted_seq_num_, missing_packets_, result,
            top, seen, base, handed, rvars>>

-----------------------------------------------------------------------------
(* What the depacketizer reads, for the NAL units below.                    *)

Depacketizer == INSTANCE H264Depacketizer WITH MaxNalusPerPacket <- 3

FirstSlice == <<65, 129>>
FirstSliceLow == <<65, 129, 5>>
LaterSlice == <<65, 40, 200>>
IdrSlice == <<101, 136, 7>>
SpsToRewrite == <<103, 1, 7>>
PlainSps == <<103, 3>>
PlainPps == <<104, 9>>
Units == {FirstSlice, FirstSliceLow, LaterSlice, IdrSlice, SpsToRewrite, PlainSps, PlainPps}

TypeIn(nalu) == Depacketizer!TypeOf(nalu[1])
HasType(nalus, types) == \E i \in DOMAIN nalus : TypeIn(nalus[i]) \in types

\* What a sender makes of NAL units.
Aggregate(nalus) ==
  <<56>> \o FlattenSeq([i \in DOMAIN nalus |-> <<0, Len(nalus[i])>> \o nalus[i]])

Fragments(nalu, n) ==
  LET indicator == nalu[1] - TypeIn(nalu) + 28
  IN  <<<<indicator, 128 + TypeIn(nalu)>> \o SubSeq(nalu, 2, n),
        <<indicator, 64 + TypeIn(nalu)>> \o SubSeq(nalu, n + 1, Len(nalu))>>

\* The last SPS that has to be rewritten is.
LastRewritten(nalus) ==
  LET rewritten == {i \in DOMAIN nalus : nalus[i] = SpsToRewrite}
  IN  IF rewritten = {} THEN nalus ELSE [nalus EXCEPT ![Max(rewritten)] = <<103, 2, 2, 7>>]

Groups == UNION {[1..n -> Units] : n \in 1..4}

(* A STAP-A is cut into the units the sender put in, one SPS rewritten with  *)
(* its length (ProcessStapAOrSingleNalu).                                    *)
ASSUME AggregatesAreParsed ==
  \A nalus \in Groups :
    LET parsed == Depacketizer!Parse(Aggregate(nalus))
    IN  /\ Len(parsed) = 1
        /\ parsed[1].video_payload = Aggregate(LastRewritten(nalus))
        /\ parsed[1].nalus = [i \in 1..Min({3, Len(nalus)}) |-> TypeIn(nalus[i])]
        /\ parsed[1].frame_type = "key" <=> HasType(nalus, {5, 7})

(* The lengths of a STAP-A are taken when they fill it exactly, and no read  *)
(* leaves it (ParseStapAStartOffsets).                                       *)
ASSUME LengthsFillThePacket ==
  \A body \in UNION {[1..n -> 0..2] : n \in 0..6} :
    LET cuts(c)   == c \cup {0, Len(body)}
        Following(c, a) == Min({b \in cuts(c) : b > a})
        Fills(c)  == \A a \in cuts(c) \ {Len(body)} :
                       a + 2 <= Len(body) /\ body[a + 1] = 0 /\ body[a + 2] = Following(c, a) - a - 2
        found == Depacketizer!ParseStapAStartOffsets(body)
    IN  /\ found.ok <=> \E c \in SUBSET (1..Len(body)) : Fills(c)
        /\ found.ok => Fills({o - 3 : o \in Range(found.offsets)})

(* Two fragments join to the unit, which only the first begins (ParseFuaNalu). *)
ASSUME FragmentsJoin ==
  \A nalu \in Units : \A n \in 1..(Len(nalu) - 1) :
    LET parts  == Fragments(nalu, n)
        first  == Depacketizer!Parse(parts[1])[1]
        second == Depacketizer!Parse(parts[2])[1]
    IN  /\ first.video_payload \o second.video_payload = nalu
        /\ first.is_first_packet_in_frame /\ ~second.is_first_packet_in_frame
        /\ ~second.is_real_first_packet_in_frame

(* A slice at the head of a STAP-A is judged by its second byte, since its   *)
(* header is left out once too often: the first slice of a frame may pass    *)
(* for a later one, and a later one for the first.                           *)
ASSUME AggregatedSlicesAreMisjudged ==
  LET Begins(payload) == Depacketizer!Parse(payload)[1].is_real_first_packet_in_frame
  IN  /\ Begins(FirstSliceLow) /\ ~Begins(Aggregate(<<FirstSliceLow>>))
      /\ ~Begins(LaterSlice) /\ Begins(Aggregate(<<LaterSlice>>))

\* The H.264 packets of the stream.
Payload ==
  27 :> FirstSlice @@ 28 :> Aggregate(<<SpsToRewrite, PlainPps>>) @@ 29 :> IdrSlice
    @@ 30 :> FirstSlice @@ 0 :> FirstSliceLow @@ 1 :> IdrSlice
    @@ 2 :> Aggregate(<<LaterSlice, FirstSlice, FirstSlice>>)

(* The packet buffer sees of these packets what the depacketizer says.       *)
ASSUME StreamIsParsed ==
  \A s \in DOMAIN Payload :
    LET parsed == Depacketizer!Parse(Payload[s])[1]
    IN  /\ parsed.is_real_first_packet_in_frame <=> RealFirst(s)
        /\ HasIdr(s) <=> Depacketizer!Idr \in Range(parsed.nalus)
        /\ TooManyNalus({s}) <=> Len(parsed.nalus) >= 3

=============================================================================
