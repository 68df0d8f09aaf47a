---------------------------- MODULE VideoCodecs ----------------------------
(***************************************************************************)
(* The codec lists of a video section (webrtc_video_engine.cc): the one    *)
(* the engine offers, what a negotiated list means for the streams, and    *)
(* the configuration of a receive stream that follows from it.             *)
(*                                                                         *)
(* A codec of a list is a record: its payload type id, its type, its       *)
(* format (name and parameters), its feedback, and for a codec of          *)
(* retransmissions the payload type apt it belongs to and its rtx_time.    *)
(* A number that is not given is None.                                     *)
(***************************************************************************)
EXTENDS Integers, SequencesExt

CONSTANTS DecoderFormats,   \* what the decoder factory supports, in order
          EncoderFormats,   \* what the encoder factory supports
          LowerFormats,     \* those that prefer the lower payload types (AV1)
          NackHistoryMs     \* kNackHistoryMs

ASSUME CodecAssumption == NackHistoryMs \in Nat \ {0}

None == -1
FirstUpper == 96
LastUpper == 127
FirstLower == 35
LastLower == 63

-----------------------------------------------------------------------------
AddDefaultFeedbackParams(type) ==
  CASE type \in {"red", "ulpfec", "rtx"} -> {}
    [] type = "flexfec" -> {"remb", "transport-cc"}
    [] OTHER -> {"remb", "transport-cc", "ccm fir", "nack", "nack pli"}

Codec(id, type, format) ==
  [id |-> id, type |-> type, format |-> format, feedback |-> AddDefaultFeedbackParams(type),
   apt |-> None, rtx_time |-> None]
CreateRtxCodec(id, apt) == [Codec(id, "rtx", "rtx") EXCEPT !.apt = apt]

HasNack(codec) == "nack" \in codec.feedback

\* One codec of the list the engine makes, which takes the next payload type of its
\* range; the list ends where the lower range does.
AddCodec(list, codec, prefersLower) ==
  CASE list.full \/ list.lower > LastLower -> [list EXCEPT !.full = TRUE]
    [] OTHER -> IF prefersLower \/ list.upper >= LastUpper
                THEN [list EXCEPT !.codecs = Append(@, [codec EXCEPT !.id = list.lower]), !.lower = @ + 1]
                ELSE [list EXCEPT !.codecs = Append(@, [codec EXCEPT !.id = list.upper]), !.upper = @ + 1]

\* A codec, then its codec for retransmissions, which prefers the same range.
AddFormat(list, codec) ==
  LET prefersLower == codec.type = "flexfec" \/ codec.format \in LowerFormats
      added == AddCodec(list, codec, prefersLower)
  IN  IF codec.type = "flexfec" \/ added.full THEN added
      ELSE AddCodec(added, CreateRtxCodec(None, Last(added.codecs).id), prefersLower)

\* The default list of formats.  FlexFEC is the last of them on the receiving side.
GetPayloadTypesAndDefaultCodecs(formats) ==
  LET all == [i \in DOMAIN formats |-> Codec(None, "video", formats[i])]
             \o <<Codec(None, "flexfec", "flexfec-03")>>
  IN  IF formats = <<>> THEN <<>>
      ELSE FoldLeft(AddFormat, [upper |-> FirstUpper, lower |-> FirstLower, codecs |-> <<>>,
                                full |-> FALSE], all).codecs

-----------------------------------------------------------------------------
ValidateCodecFormats(codecs) ==
  /\ \A i \in DOMAIN codecs : codecs[i].id \in 0..127
  /\ \E i \in DOMAIN codecs : codecs[i].type = "video"

\* MapCodecs refuses a list (and then returns none): a payload type comes twice, or a
\* codec for retransmissions has no codec of video or RED.
Refused(codecs) ==
  \/ \E i, j \in DOMAIN codecs : i # j /\ codecs[i].id = codecs[j].id
  \/ \E i \in DOMAIN codecs :
       /\ codecs[i].type = "rtx"
       /\ \A j \in DOMAIN codecs : codecs[j].id = codecs[i].apt => codecs[j].type \notin {"video", "red"}

FirstOf(codecs, type) ==
  LET such == SelectSeq(codecs, LAMBDA c : c.type = type)
  IN  IF such = <<>> THEN None ELSE Head(such).id

\* The last of the codecs for retransmissions of a payload type, and of their times.
RtxFor(codecs, pt) ==
  LET such == SelectSeq(codecs, LAMBDA c : c.type = "rtx" /\ c.apt = pt)
  IN  IF such = <<>> THEN None ELSE Last(such).id

RtxTimeFor(codecs, pt) ==
  LET such == SelectSeq(codecs, LAMBDA c : c.type = "rtx" /\ c.apt = pt /\ c.rtx_time > 0)
  IN  CASE such = <<>> -> None
        [] OTHER -> IF Last(such).rtx_time < NackHistoryMs THEN Last(such).rtx_time ELSE NackHistoryMs

\* Settings: one record per video codec, with what the other codecs add to it.
MapCodecs(codecs) ==
  LET red == FirstOf(codecs, "red")
      Settings(c) == [codec |-> c, red |-> red, ulpfec |-> FirstOf(codecs, "ulpfec"),
                      red_rtx |-> IF red = None THEN None ELSE RtxFor(codecs, red),
                      flexfec |-> FirstOf(codecs, "flexfec"),
                      rtx |-> RtxFor(codecs, c.id), rtx_time |-> RtxTimeFor(codecs, c.id)]
      video == SelectSeq(codecs, LAMBDA c : c.type = "video")
  IN  IF Refused(codecs) THEN <<>> ELSE [i \in DOMAIN video |-> Settings(video[i])]

\* Neither the order of the codecs nor FlexFEC counts.
NonFlexfecReceiveCodecsHaveChanged(before, after) ==
  LET Plain(list) == {[s EXCEPT !.flexfec = None] : s \in Range(list)}
  IN  Plain(before) # Plain(after)

\* One settings record per format the encoder factory has, in the order of the list.
SelectSendVideoCodecs(mapped) ==
  FoldLeft(LAMBDA acc, s : IF /\ s.codec.format \in EncoderFormats
                              /\ \A i \in DOMAIN acc : acc[i].codec.format # s.codec.format
                           THEN Append(acc, s) ELSE acc,
           <<>>, mapped)

-----------------------------------------------------------------------------
NackOf(settings) ==
  IF ~HasNack(settings.codec) THEN 0
  ELSE IF settings.rtx_time = None THEN NackHistoryMs ELSE settings.rtx_time

\* What a stream takes from the list: FEC and NACK from its first codec, a decoder for
\* each, and by payload type for retransmissions the payload type it repeats.  Codecs
\* without one share the entry None, which the first of them has.
ConfigureCodecs(list) ==
  LET first == list[1]
      Of(rtx) == IF rtx = first.red_rtx /\ rtx # None THEN first.red
                 ELSE SelectSeq(list, LAMBDA s : s.rtx = rtx)[1].codec.id
  IN  [decoders |-> [i \in DOMAIN list |-> list[i].codec.id],
       red |-> first.red, ulpfec |-> first.ulpfec, nack |-> NackOf(first),
       rtx_associated |-> [rtx \in {s.rtx : s \in Range(list)} \cup ({first.red_rtx} \ {None}) |-> Of(rtx)]]
=============================================================================
