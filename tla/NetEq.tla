-------------------------------- MODULE NetEq --------------------------------
(***************************************************************************)
(* NetEqImpl (neteq_impl.cc) with AcmReceiver's calls into it: the audio   *)
(* packet buffer and the production of 10 ms of audio per call, from the   *)
(* packets when they are there and from expansion when they are not.  The  *)
(* network thread inserts packets, the audio thread asks for audio and the *)
(* worker sets the codecs, in any order, each call under NetEq's lock.     *)
(*                                                                         *)
(* Timestamps count samples modulo Modulus (2^32 in the code); the overlap *)
(* that the sync buffer keeps is taken as zero samples.  The DSP objects,  *)
(* NetEq's packet list and FFmpeg are external; so is DTMF.                *)
(*                                                                         *)
(* An RTP packet has pt, ts, seq, sid (a DTX packet, after which the       *)
(* decoder makes noise), its payload as Latm sees it and, when its type is *)
(* RED, the blocks in it (type and timestamp offset) and sound: whether    *)
(* their headers can be parsed.                                            *)
(***************************************************************************)
EXTENDS DecoderDatabase, DecisionLogic, Latm, SequencesExt

CONSTANTS CodecMaps,        \* the maps SetCodecs is called with
          Packets,          \* the RTP packets that the network may bring
          Rate,             \* of a format: its sample rate and channels, a name
          LatmFormat,       \* what the session description says of a format of LATM
          FrameLength,      \* samples of a decoded frame
          ExpandLength,     \* samples that one expansion makes
          MergeLength,      \* RequiredFutureSamples of a merge
          StretchLength,    \* samples removed or added by time stretching
          MaxPacketsInBuffer,
          MaxLead,          \* bounds how far the playout timestamp is reckoned ahead
          MaxCalls          \* bounds the packets and codec changes of a behaviour

VARIABLES db,     \* decoder_database_
          buf,    \* packet_buffer_: a set of packets with different timestamps
          sync,   \* end_timestamp and left (FutureLength) of sync_buffer_
          net,    \* the scalar members
          ctl,    \* controller_
          did,    \* history: what the last call did, and a turn for each GetAudio
          calls   \* how many packets and codec maps came

vars == <<db, buf, sync, net, ctl, did, calls>>

NoTicks == -1     \* no generated_noise_stopwatch_
MaxTicks == 3     \* where the stopwatch saturates
Nothing == [decoded |-> <<>>, resync |-> FALSE, heard |-> -1, noise |-> FALSE, short |-> FALSE,
            turn |-> 0]

NewNetEq ==
  [first_packet_ |-> TRUE, new_codec_ |-> FALSE, reset_decoder_ |-> FALSE,
   timestamp_ |-> 0, playout_timestamp_ |-> 0, last_mode_ |-> "normal",
   current_rtp_payload_type_ |-> NoType, decoder_frame_length_ |-> 3 * OutputSize,
   noise_ticks |-> NoTicks, timestamp_interval_ |-> FrameLength,
   seq_timestamp_ |-> {}, set_timestamp_interval_ |-> FALSE, actual_fs_hz_set_ |-> FALSE, rate |-> "default"]

\* The channel sets the codecs of its configuration before the first packet.
Init ==
  /\ \E codecs \in CodecMaps : db = SetCodecs(EmptyDatabase, codecs)
  /\ buf = {} /\ sync = [end |-> 0, left |-> 0]
  /\ net = NewNetEq /\ ctl = NewDecisionLogic /\ did = Nothing /\ calls = 0

-----------------------------------------------------------------------------
(* The packet buffer (external): in order of timestamps, one packet for    *)
(* each, the better of two; a full buffer is flushed before an insertion,  *)
(* and so is one that holds another payload type.                          *)
Before(p, q) == p.ts # q.ts /\ AheadOf(q.ts, p.ts)
NextPacket(b) == IF b = {} THEN NoPacket
                 ELSE CHOOSE p \in b : \A q \in b \ {p} : ~Before(q, p)
LastPacket(b) == CHOOSE p \in b : \A q \in b \ {p} : ~Before(p, q)
Better(p, q) == p.level < q.level

InsertInBuffer(b, p) ==
  LET same == {q \in b : q.ts = p.ts}
  IN  CASE Cardinality(b) >= MaxPacketsInBuffer -> {p}
        [] Cardinality(b) < MaxPacketsInBuffer /\ same = {} -> b \cup {p}
        [] OTHER -> IF \E q \in same : ~Better(p, q) THEN b ELSE (b \ same) \cup {p}

\* InsertPacketList, of packets with their payload types: st is [buf, pt, flushed].
InsertOne(st, p) ==
  LET changes == st.pt \notin {NoType, p.pt}
      b == IF changes THEN {} ELSE st.buf
  IN  [buf |-> InsertInBuffer(b, p), pt |-> p.pt,
       flushed |-> st.flushed \/ changes \/ Cardinality(b) >= MaxPacketsInBuffer]

\* Mutant: packets stay until they are decoded.
DiscardNone(b, limit, horizon) == b

DiscardOldPackets(b, limit, horizon) == {p \in b : ~IsObsoleteTimestamp(p.ts, limit, horizon)}

-----------------------------------------------------------------------------
(* Redundancy (red_payload_splitter.cc): the primary block comes first, the *)
(* sequence numbers of the others are guessed from their timestamps, and    *)
(* once any packet was of another rate, all blocks are taken to be of       *)
(* 44.1 kHz.                                                                *)
SplitRed(n, p) ==
  LET size == Len(p.blocks)
      Block(i) == p.blocks[size + 1 - i]
      Ts(i) == (p.ts - Block(i).offset) % Modulus
  IN  [i \in 1..size |->
         [pt |-> Block(i).pt,
          ts |-> IF n.actual_fs_hz_set_ THEN ScaleTo48k(Ts(i), 44100) % Modulus ELSE Ts(i),
          sid |-> FALSE, seq |-> p.seq - Block(i).offset \div n.timestamp_interval_, level |-> i - 1]]

\* RED within RED goes, and so do blocks of another type than the first that stays.
CheckRedPayloads(d, packets) ==
  LET plain == SelectSeq(packets, LAMBDA p : ~IsRed(d, p.pt))
  IN  SelectSeq(plain, LAMBDA p : p.pt = plain[1].pt)

\* Of the first two sequence numbers that came, the samples per number.
CalcRtpTimestampInterval(n, p) ==
  IF n.set_timestamp_interval_ THEN n
  ELSE IF Cardinality(n.seq_timestamp_) < 2
  THEN [n EXCEPT !.seq_timestamp_ =
          IF \E e \in @ : e[1] = p.seq THEN @ ELSE @ \cup {<<p.seq, p.ts>>}]
  ELSE LET a == CHOOSE e \in n.seq_timestamp_ : \A f \in n.seq_timestamp_ : e[1] <= f[1]
           b == CHOOSE e \in n.seq_timestamp_ : e # a
           interval == (IF b[2] > a[2] THEN b[2] - a[2] ELSE a[2] - b[2]) \div (b[1] - a[1])
       IN  IF interval = 0 THEN n
           ELSE [n EXCEPT !.timestamp_interval_ = interval, !.seq_timestamp_ = {},
                          !.set_timestamp_interval_ = TRUE]

-----------------------------------------------------------------------------
(* AcmReceiver::InsertPacket and NetEqImpl::InsertPacket.                  *)

\* A new sync buffer, and the modes and lengths that go with it.
SetSampleRateAndChannels(s, rate) ==
  IF s.net.rate = rate THEN s ELSE
  [s EXCEPT !.sync = [end |-> 0, left |-> 0], !.net.rate = rate,
            !.net.decoder_frame_length_ = 3 * OutputSize, !.net.last_mode_ = "normal"]

\* The first packet, or the first since a flush: the end moves by as much as the start.
Reinitialize(s, ts) ==
  IF ~s.net.first_packet_ THEN s
  ELSE [s EXCEPT !.buf = {},
                 !.sync.end = (@ + ts - s.net.timestamp_) % Modulus,
                 !.net.timestamp_ = ts]

\* What is inserted: the packet, with its timestamp at 48 kHz, or the blocks of it.
Info(d, p) == IF IsAac(d, p.pt) THEN LatmInfo(LatmFormat[d.format[p.pt]], p.payload)
              ELSE [ok |-> TRUE, rate |-> DefaultRate]
Timestamp(d, p) == ScaleTo48k(p.ts, Info(d, p).rate) % Modulus

Incoming(d, n, p) ==
  IF IsRed(d, p.pt) THEN CheckRedPayloads(d, SplitRed(n, p))
  ELSE <<[pt |-> p.pt, ts |-> Timestamp(d, p),
          sid |-> p.sid, seq |-> p.seq, level |-> 0]>>

\* ParsePayload: the frame of a packet belongs to the decoder object that made it.
Parse(s, packets) ==
  LET made == FoldLeft(LAMBDA d, p : GetDecoder(d, p.pt), s.db, packets)
  IN  [db |-> made,
       packets |-> [i \in DOMAIN packets |->
                      packets[i] @@ [obj |-> made.decoder[packets[i].pt]]]]

InsertPackets(s, packets) ==
  LET parsed == Parse(s, packets)
      list == FoldLeft(InsertOne, [buf |-> s.buf, pt |-> s.net.current_rtp_payload_type_, flushed |-> FALSE],
                       parsed.packets)
      restarts == list.flushed \/ s.net.first_packet_
      t == [s EXCEPT !.db = parsed.db, !.buf = list.buf,
                     !.net.current_rtp_payload_type_ = list.pt,
                     !.net.new_codec_ = @ \/ restarts, !.net.first_packet_ = FALSE]
  IN  IF restarts THEN SetSampleRateAndChannels(t, Rate[t.db.format[NextPacket(list.buf).pt]]) ELSE t

State == [db |-> db, buf |-> buf, sync |-> sync, net |-> net, ctl |-> ctl]

Becomes(s) ==
  db' = s.db /\ buf' = s.buf /\ sync' = s.sync /\ net' = s.net /\ ctl' = s.ctl

\* The type whose format AcmReceiver looks for: of RED, the type of the first block.
LookedUp(d, p) == IF IsRed(d, p.pt) THEN p.blocks[1].pt ELSE p.pt

InsertPacket(p) ==
  LET s0 == [State EXCEPT !.db = GetDecoder(db, LookedUp(db, p)),
                          !.net = CalcRtpTimestampInterval(net, p)]
      red == IsRed(db, p.pt)
      info == Info(db, p)
      s1 == Reinitialize([s0 EXCEPT !.net.actual_fs_hz_set_ = @ \/ info.rate # DefaultRate],
                         Timestamp(db, p))
      packets == Incoming(db, s1.net, p)
  IN  /\ calls < MaxCalls /\ calls' = calls + 1
      /\ Knows(db, p.pt) /\ Knows(db, LookedUp(db, p))
      /\ Becomes(CASE ~info.ok -> s0
                   [] info.ok /\ red /\ ~p.sound -> s1
                   [] OTHER -> IF packets = <<>> \/ ~CheckPayloadTypes(db, packets) THEN s1
                               ELSE InsertPackets(s1, packets))
      /\ did' = [did EXCEPT !.decoded = <<>>, !.resync = FALSE]

-----------------------------------------------------------------------------
(* NetEqImpl::SetCodecs.                                  *)

\* Mutant: the packets of a changed payload type stay.
SetCodecsKeepsPackets(codecs) ==
  /\ calls < MaxCalls /\ calls' = calls + 1
  /\ db' = SetCodecs(db, codecs)
  /\ did' = [did EXCEPT !.decoded = <<>>, !.resync = FALSE]
  /\ UNCHANGED <<buf, sync, net, ctl>>

SetNetEqCodecs(codecs) ==
  /\ calls < MaxCalls /\ calls' = calls + 1
  /\ db' = SetCodecs(db, codecs)
  /\ buf' = {p \in buf : p.pt \notin Changed(db, codecs)}
  /\ did' = [did EXCEPT !.decoded = <<>>, !.resync = FALSE]
  /\ UNCHANGED <<sync, net, ctl>>

-----------------------------------------------------------------------------
(* NetEqImpl::GetDecision: s has, besides the state, the operation op, the *)
(* packets pkts to decode, and history.                                    *)
Span(s) == IF s.buf = {} THEN 0
           ELSE ForwardDiff(NextPacket(s.buf).ts, LastPacket(s.buf).ts) + FrameLength

Status(s, e) ==
  [last_mode |-> s.net.last_mode_, next |-> NextPacket(s.buf), target_timestamp |-> s.sync.end,
   noise |-> IF s.net.noise_ticks = NoTicks THEN 0 ELSE s.net.noise_ticks * OutputSize,
   span |-> Span(s), dtx_or_cng |-> \E p \in s.buf : p.sid, level |-> e.level,
   faded |-> e.faded]

Stretches == {"accelerate", "preemptiveexpand"}

\* DTX packets are not stretched.
Chosen(s, e) ==
  LET op == GetDecision(NoteMode(s.ctl, s.net.last_mode_), Status(s, e))
      next == NextPacket(s.buf)
  IN  IF next # NoPacket /\ next.sid /\ op \in Stretches \cup {"merge"} THEN "normal" ELSE op

\* Starts over at the next packet; the decoder may be another one.
Resync(s) ==
  LET ts == NextPacket(s.buf).ts
  IN  [s EXCEPT !.op = "normal", !.resync = TRUE, !.sync.end = ts, !.net.timestamp_ = ts,
                !.net.new_codec_ = FALSE]

\* Packets that follow each other are taken until there are enough samples.
Duration(s, p) == IF IsAac(s.db, p.pt) THEN s.net.decoder_frame_length_ ELSE FrameLength

Extracted(s, required) ==
  LET list == SetToSortSeq(s.buf, Before)
      Samples(k) == ForwardDiff(list[1].ts, list[k].ts) + Duration(s, list[k])
      Follows(k) == /\ k < Len(list)
                    /\ list[k + 1].pt = list[1].pt
                    /\ list[k + 1].seq - list[k].seq \in {0, 1}
                    /\ ForwardDiff(list[k].ts, list[k + 1].ts) <= Duration(s, list[k])
      Stops(k) == Samples(k) >= required \/ ~Follows(k)
      n == CHOOSE k \in DOMAIN list : Stops(k) /\ \A j \in 1..(k - 1) : ~Stops(j)
  IN  [packets |-> SubSeq(list, 1, n), samples |-> Samples(n), last |-> list[n].ts]

ExtractPackets(s, required) ==
  LET x == Extracted(s, required)
  IN  [s EXCEPT !.pkts = x.packets,
                !.samples = x.samples,
                !.buf = DiscardOldPackets(@ \ Range(x.packets), x.last, 0),
                !.sync.end = x.packets[1].ts,
                !.ctl = SetCngOff(@)]

\* The samples to extract (0: none) and the operation they are for.
Requirement(s) ==
  LET left == s.sync.left
      long == s.net.decoder_frame_length_ >= 3 * OutputSize
      Need(n, op) == [samples |-> n, op |-> op]
  IN  CASE s.op \in {"expand", "codecinternalcng"} -> Need(0, s.op)
        [] s.op \in Stretches /\ left >= 3 * OutputSize -> Need(0, s.op)
        [] s.op \in Stretches /\ left \in OutputSize..(3 * OutputSize - 1) /\ long ->
             Need(0, IF s.op = "accelerate" THEN "normal" ELSE s.op)
        [] s.op \in Stretches /\ left < 2 * OutputSize /\ ~long ->
             Need(2 * OutputSize, IF s.op = "accelerate" THEN "normal" ELSE s.op)
        [] s.op = "merge" -> Need(IF MergeLength > OutputSize THEN MergeLength ELSE OutputSize, s.op)
        [] OTHER -> Need(OutputSize, s.op)

\* With too little to accelerate, the operation is a normal one.
Settled(t, need) ==
  [t EXCEPT !.op = IF need.samples > 0 /\ @ = "accelerate" /\ t.samples + t.sync.left < 3 * OutputSize
                   THEN "normal" ELSE @]

Fetched(s, need) ==
  LET started == [s EXCEPT !.op = need.op,
                           !.net.timestamp_ = IF need.samples = 0 /\ s.op # "expand" THEN @
                                              ELSE s.sync.end]
  IN  IF need.samples = 0 \/ s.buf = {} THEN Settled(started, need)
      ELSE Settled(ExtractPackets(started, need.samples), need)

FetchPackets(s) ==
  Fetched(s, Requirement(s))

\* Enough samples are left to play, so that nothing is to be decoded.
PlaysWhatIsLeft(s) == s.sync.left >= OutputSize /\ s.op \notin Stretches \cup {"merge"}

\* Packets that are too old to be played go, unless a new codec begins.
WithoutOldPackets(s) ==
  [s EXCEPT !.buf = IF s.net.new_codec_ THEN @
                    ELSE DiscardOldPackets(@, (s.sync.end - Tolerance) % Modulus, FiveSeconds)]

\* The operation that the controller chooses, and what it keeps of the last one.
Asked(s, e) ==
  [s EXCEPT !.op = Chosen(s, e), !.ctl = NoteMode(@, s.net.last_mode_),
            !.net.reset_decoder_ = @ \/ ReinitDue(NoteMode(s.ctl, s.net.last_mode_), Status(s, e))]

Counted(s) == [s EXCEPT !.ctl = ExpandDecision(@, s.op)]

Followed(s) ==
  CASE PlaysWhatIsLeft(s) -> [s EXCEPT !.op = "normal"]
    [] ~PlaysWhatIsLeft(s) /\ (s.net.new_codec_ \/ s.op = "undefined") ->
         IF s.buf = {} THEN [Counted(s) EXCEPT !.op = "error"]
         ELSE FetchPackets(Resync(Counted(s)))
    [] OTHER -> FetchPackets(Counted(s))

Decided(s, e) == Followed(Asked(WithoutOldPackets(s), e))

-----------------------------------------------------------------------------
(* NetEqImpl::Decode, and what each operation then does with the samples.  *)

\* The decoder of the packets becomes the active one; a new one restarts the clock.
Activate(s) ==
  IF s.pkts = <<>> THEN s
  ELSE LET pt == s.pkts[1].pt
           d == GetDecoder(s.db, pt)
           t == [s EXCEPT !.db = SetActiveDecoder(d, pt)]
           u == SetSampleRateAndChannels(t, Rate[d.format[pt]])
       IN  IF ~DecoderChanges(d, pt) THEN t
           ELSE [u EXCEPT !.sync.end = s.net.timestamp_, !.resync = TRUE,
                          !.net.playout_timestamp_ = s.net.timestamp_]

ResetIfAsked(s) ==
  LET active == s.db.active_decoder_type_
  IN  IF ~s.net.reset_decoder_ THEN s
      ELSE [s EXCEPT !.net.reset_decoder_ = FALSE,
                     !.db = IF active = NoType THEN @ ELSE ResetDecoder(@, active)]

\* Mutant: the operation stays what it was.
DecodeFailsQuietly(s) ==
  [s EXCEPT !.length = 0, !.sid = FALSE,
            !.decoded = [i \in DOMAIN s.pkts |-> s.pkts[i].ts],
            !.sync.end = (@ + s.net.decoder_frame_length_) % Modulus]

\* A decoder that fails, or none to make noise: expansion instead of what was decoded.
DecodeFails(s) ==
  [s EXCEPT !.op = "expand", !.length = 0, !.sid = FALSE,
            !.decoded = [i \in DOMAIN s.pkts |-> s.pkts[i].ts],
            !.sync.end = (@ + s.net.decoder_frame_length_) % Modulus]

DecodeLoop(s) ==
  LET sid == s.pkts # <<>> /\ Last(s.pkts).sid
      length == Len(s.pkts) * FrameLength
  IN  [s EXCEPT !.length = length, !.sid = sid,
                !.decoded = [i \in DOMAIN s.pkts |-> s.pkts[i].ts],
                !.net.decoder_frame_length_ = IF s.pkts = <<>> THEN @ ELSE FrameLength,
                !.net.noise_ticks = IF sid THEN 0 ELSE @,
                !.sync.end = IF sid THEN @ ELSE (@ + length) % Modulus]

Decode(s0, ok) ==
  LET s == ResetIfAsked(Activate(s0))
  IN  IF s.op = "codecinternalcng"
      THEN IF s.db.active_decoder_type_ = NoType THEN DecodeFails(s)
           ELSE [s EXCEPT !.length = FrameLength, !.sid = TRUE]
      ELSE IF s.pkts # <<>> /\ ~ok /\ ~IsAac(s.db, s.pkts[1].pt) THEN DecodeFails(s)
           ELSE DecodeLoop(s)

\* As many expansions as it takes.
Expansions(left) == CHOOSE n \in 0..OutputSize :
                      /\ left + n * ExpandLength >= OutputSize
                      /\ \A m \in 0..(n - 1) : left + m * ExpandLength < OutputSize

\* The mode that is left, unless the decoder made the samples as comfort noise.
Made(s, samples, mode) ==
  [s EXCEPT !.sync.left = @ + samples,
            !.net.last_mode_ = IF s.sid THEN "codecinternalcng" ELSE mode]

DoNormal(s) == Made(s, s.length, IF s.length # 0 THEN "normal" ELSE s.net.last_mode_)

DoMerge(s) == Made(s, s.length, "merge")

DoExpand(s) ==
  LET n == Expansions(s.sync.left)
  IN  [Made(s, n * ExpandLength, IF n > 0 THEN "expand" ELSE s.net.last_mode_) EXCEPT
         !.net.noise_ticks = IF @ = NoTicks THEN 0 ELSE @]

DoAccelerate(s, stretched) ==
  IF stretched /\ s.sync.left + s.length >= StretchLength
  THEN Made(s, s.length - StretchLength, "stretched") ELSE Made(s, s.length, "notstretched")

DoPreemptiveExpand(s, stretched) ==
  IF stretched THEN Made(s, s.length + StretchLength, "stretched") ELSE Made(s, s.length, "notstretched")

DoCodecInternalCng(s) == Made(s, s.length, "codecinternalcng")

Perform(s, stretched) ==
  CASE s.op = "normal" -> DoNormal(s)
    [] s.op = "merge" -> DoMerge(s)
    [] s.op = "expand" -> DoExpand(s)
    [] s.op = "accelerate" -> DoAccelerate(s, stretched)
    [] s.op = "preemptiveexpand" -> DoPreemptiveExpand(s, stretched)
    [] s.op = "codecinternalcng" -> DoCodecInternalCng(s)

\* While there is only expansion the playout timestamp is reckoned, here up to MaxLead
\* ahead of the audio.
Reckoned(s) ==
  IF ForwardDiff(s.sync.end, s.net.playout_timestamp_) \in MaxLead..Half THEN s
  ELSE [s EXCEPT !.net.playout_timestamp_ = (@ + OutputSize) % Modulus]

\* Ten milliseconds leave the sync buffer.  The playout timestamp follows it, except
\* that it never goes back.  Noise stops when something else is heard.
Output(s) ==
  LET left == IF s.sync.left < OutputSize THEN 0 ELSE s.sync.left - OutputSize
      heard == (s.sync.end - left) % Modulus
      t == [s EXCEPT !.sync.left = left, !.short = s.sync.left < OutputSize]
      moves == s.net.last_mode_ # "expand" /\ AheadOf(heard, s.net.playout_timestamp_)
  IN  IF s.net.last_mode_ = "expand" THEN Reckoned(t)
      ELSE [t EXCEPT !.net.playout_timestamp_ = IF moves THEN heard ELSE @,
                     !.net.noise_ticks = IF s.net.last_mode_ = "codecinternalcng" THEN @ ELSE NoTicks]

-----------------------------------------------------------------------------
Ticked == [State EXCEPT !.net.noise_ticks = IF @ \in {NoTicks, MaxTicks} THEN @ ELSE @ + 1]

Call == [op |-> "none", pkts |-> <<>>, samples |-> 0, length |-> 0, sid |-> FALSE, decoded |-> <<>>,
         resync |-> FALSE, short |-> FALSE]

Report(s) ==
  did' = [decoded |-> s.decoded, resync |-> s.resync, short |-> s.short, turn |-> 1 - did.turn,
          heard |-> IF s.decoded = <<>> THEN did.heard ELSE Last(s.decoded),
          noise |-> IF s.decoded = <<>> THEN did.noise ELSE s.sid]

\* All that is left of a long expansion is silence.
Muted ==
  /\ net.last_mode_ = "expand" /\ buf = {}
  /\ Becomes(Reckoned(Ticked)) /\ Report(Call)

\* The environment decides the level of the buffer, whether the expansion has faded,
\* and whether the decoder and the time stretching succeed.
Produce ==
  \E level \in (IF buf = {} THEN {"over"} ELSE Levels),
     faded \in (IF net.last_mode_ = "expand" /\ buf # {} THEN BOOLEAN ELSE {FALSE}) :
    \E s \in {Decided(Ticked @@ Call, [level |-> level, faded |-> faded])} :
      IF s.op = "error" THEN Becomes([s EXCEPT !.net.last_mode_ = "error"]) /\ Report(s)
      ELSE \E ok \in (IF s.pkts = <<>> THEN {TRUE} ELSE BOOLEAN),
              stretched \in (IF s.op \in Stretches THEN BOOLEAN ELSE {TRUE}) :
             \E t \in {Output(Perform(Decode(s, ok), stretched))} : Becomes(t) /\ Report(t)

GetAudio == (Muted \/ Produce) /\ UNCHANGED calls

Next ==
  \/ \E p \in Packets : InsertPacket(p)
  \/ \E codecs \in CodecMaps : SetNetEqCodecs(codecs)
  \/ GetAudio

\* The audio device asks for audio for ever (GetAudio can always be taken, and turns
\* did.turn); nobody promises a packet.
Spec == Init /\ [][Next]_vars /\ []<><<did'.turn # did.turn>>_vars

-----------------------------------------------------------------------------
TypeOK ==
  /\ DOMAIN db.decoder = DOMAIN db.format
  /\ db.active_decoder_type_ \in DOMAIN db.format \cup {NoType}
  /\ \A p \in buf : p.ts \in SeqNums /\ p.pt \in DOMAIN db.format
  /\ Cardinality(buf) <= MaxPacketsInBuffer
  /\ sync.end \in SeqNums /\ sync.left \in Nat
  /\ {net.timestamp_, net.playout_timestamp_} \subseteq SeqNums
  /\ ctl.num_consecutive_expands_ \in 0..(ReinitAfterExpands + 1)

\* A packet was parsed, on the network thread, into a frame that points to a decoder
\* object; it is decoded much later, by the audio thread.  No packet outlives its
\* decoder object, neither when the codecs are set (SetCodecs removes the packets of
\* the changed types) nor when the active decoder changes and the old one is deleted.
FramesAreLive == \A p \in buf : p.obj = db.decoder[p.pt] /\ p.obj # 0

\* The types, and the packets that are buffered.
NetEqInv == TypeOK /\ FramesAreLive

\* No packet is played twice or after a later one (a duplicate, a late packet, a
\* redundant block of what was played), except when NetEq starts over or the packet is
\* five seconds behind, which counts as new, and except for the packet that made the
\* decoder's noise: its timestamp stays the expected one.
NothingHeardTwice ==
  [][did'.decoded # <<>> /\ ~did'.resync /\ did.heard # -1
       => /\ IsObsoleteTimestamp(did'.decoded[1], did.heard, 0)
               => ~IsObsoleteTimestamp(did'.decoded[1], sync.end, FiveSeconds - Tolerance)
          /\ did'.decoded[1] = did.heard => did.noise]_vars

\* Whatever was decided, extracted, lost by a decoder that failed or cut by the time
\* stretching: when ten milliseconds are to leave the sync buffer they are there.  With
\* fewer the samples of the overlap would be played now and once more later, or the call
\* would under-run (neteq_impl.cc:1123-1147).
NeverShort == ~did.short

\* A packet does not stay in the buffer for ever, whatever is lost before it, unless
\* the decoder makes noise of its own: it is decoded, or too old, or flushed.
NoPacketStarves == buf # {} ~> (buf = {} \/ net.last_mode_ = "codecinternalcng")

\* Said by the names of the decoder objects and by SetCodecs, which replaces the set of
\* decoders with the given one: an AAC decoder object can decode.
AacDecodersDecode ==
  (\E pt \in DOMAIN db.format : IsAac(db, pt) /\ db.decoder[pt] # 0) => CanDecode(db.aac)
=============================================================================
