--------------------------- MODULE H264Depacketizer ---------------------------
(***************************************************************************)
(* VideoRtpDepacketizerH264 (video_rtp_depacketizer_h264.cc): what is read *)
(* from the payload of an RTP packet, a sequence of bytes.  The payload is *)
(* one NAL unit, a STAP-A of several, each after two bytes of length, or a *)
(* fragment (FU-A) of one.  Offsets count from 0, as in the code.          *)
(*                                                                         *)
(* Parse gives a sequence of at most one result; an empty one stands for   *)
(* absl::nullopt.  Of parameter sets only their types are kept.            *)
(***************************************************************************)
EXTENDS Naturals, Sequences, SequencesExt, FiniteSetsExt

CONSTANT MaxNalusPerPacket   \* kMaxNalusPerPacket

Slice == 1
Idr == 5
Sps == 7
StapA == 24
FuA == 28

NalHeaderSize == 1
FuAHeaderSize == 2
LengthFieldSize == 2
StapAHeaderSize == NalHeaderSize + LengthFieldSize

TypeOf(byte) == byte % 32
FirstFragment(byte) == byte >= 128
From(data, offset) == SubSeq(data, offset + 1, Len(data))
Between(data, start, end) == SubSeq(data, start + 1, end)

\* The byte after the header begins with the bit 1: first_mb_in_slice is 0.
IsFirstSliceInFrame(data) == Len(data) > NalHeaderSize /\ data[NalHeaderSize + 1] >= 128

\* Where the units of a STAP-A begin in the payload; body is what follows its header.
ParseStapAStartOffsets(body) ==
  LET size  == Len(body)
      Size(o) == 256 * body[o + 1] + body[o + 2]
      After(o) == o + LengthFieldSize + Size(o)
      rest[o \in 0..size] ==
        CASE o = size -> [ok |-> TRUE, offsets |-> <<>>]
          [] o < size /\ (o + LengthFieldSize > size \/ After(o) > size) -> [ok |-> FALSE, offsets |-> <<>>]
          [] OTHER -> [rest[After(o)] EXCEPT !.offsets = <<o + StapAHeaderSize>> \o @]
  IN  rest[0]

\* SpsVuiRewriter: a body that begins with 1 has a VUI to rewrite, and grows.
NeedsRewriting(sps) == Len(sps) > 1 /\ sps[2] = 1
Rewritten(sps) == <<sps[1], 2, 2>> \o From(sps, 2)

Refused == <<>>

\* Each SPS is rewritten in the payload as it came, so that the last one wins.
WithSps(payload, start, end, aggregated) ==
  LET sps    == Rewritten(Between(payload, start, end))
      length == <<Len(sps) \div 256, Len(sps) % 256>>
      before == IF aggregated THEN Between(payload, 0, start - LengthFieldSize) \o length
                ELSE Between(payload, 0, start)
  IN  before \o sps \o From(payload, end)

\* In a STAP-A the first slice is looked at without its header.
BeginsFrame(nalu, aggregated) ==
  TypeOf(nalu[1]) \in {Idr, Slice} =>
    IsFirstSliceInFrame(IF aggregated THEN From(nalu, NalHeaderSize) ELSE nalu)

Expected(type) == type \notin {StapA, FuA}

\* The types of the first units; of the others the packet buffer learns nothing.
Kept(types) == SubSeq(types, 1, Min({Len(types), MaxNalusPerPacket}))

ProcessStapAOrSingleNalu(payload) ==
  LET aggregated == TypeOf(payload[1]) = StapA
      found   == ParseStapAStartOffsets(From(payload, NalHeaderSize))
      starts  == IF aggregated THEN found.offsets ELSE <<0>>
      End(i)  == IF i < Len(starts) THEN starts[i + 1] - LengthFieldSize ELSE Len(payload)
      nalus   == [i \in DOMAIN starts |-> Between(payload, starts[i], End(i))]
      types   == [i \in DOMAIN starts |-> TypeOf(nalus[i][1])]
      rewrite == {i \in DOMAIN starts : types[i] = Sps /\ NeedsRewriting(nalus[i])}
  IN  IF \/ aggregated /\ (Len(payload) <= StapAHeaderSize \/ ~found.ok)
         \/ \E i \in DOMAIN nalus : nalus[i] = <<>> \/ ~Expected(types[i])
      THEN Refused
      ELSE <<[video_payload |-> IF rewrite = {} THEN payload
                                ELSE WithSps(payload, starts[Max(rewrite)], End(Max(rewrite)), aggregated),
              frame_type |-> IF Range(types) \cap {Sps, Idr} # {} THEN "key" ELSE "delta",
              is_first_packet_in_frame |-> TRUE,
              is_real_first_packet_in_frame |-> BeginsFrame(nalus[1], aggregated),
              nalus |-> Kept(types)]>>

\* The first fragment gets the header of the unit back, the others lose theirs.
ParseFuaNalu(payload) ==
  LET type  == TypeOf(payload[2])
      first == FirstFragment(payload[2])
      nalu  == <<(payload[1] - TypeOf(payload[1])) + type>> \o From(payload, FuAHeaderSize)
  IN  IF Len(payload) < FuAHeaderSize THEN Refused
      ELSE <<[video_payload |-> IF first THEN nalu ELSE From(payload, FuAHeaderSize),
              frame_type |-> IF type = Idr THEN "key" ELSE "delta",
              is_first_packet_in_frame |-> first,
              is_real_first_packet_in_frame |-> first /\ BeginsFrame(nalu, FALSE),
              nalus |-> IF first THEN <<type>> ELSE <<>>]>>

Parse(payload) ==
  IF payload = <<>> THEN Refused
  ELSE IF TypeOf(payload[1]) = FuA THEN ParseFuaNalu(payload) ELSE ProcessStapAOrSingleNalu(payload)

=============================================================================
