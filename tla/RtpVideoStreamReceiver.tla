----------------------- MODULE RtpVideoStreamReceiver -----------------------
(***************************************************************************)
(* RtpVideoStreamReceiver2 (rtp_video_stream_receiver2.cc): packets enter  *)
(* the packet buffer, the frames that leave it pass the reference finder,  *)
(* and what the finder hands off goes to the frame buffer.  The receiver    *)
(* keeps an info of every packet until its frame is decoded, the last      *)
(* packet of every frame handed off, and the codec: a newer frame of        *)
(* another codec gets a new finder, whose picture ids begin above the old. *)
(*                                                                         *)
(* All calls are made on the worker thread; one call is a step.  Positions *)
(* are sequence numbers unwrapped: where two maps of the code unwrap the    *)
(* same number they agree as long as packets come within half a turn.  The *)
(* NACK module has its own model; decryption, transformation and generic    *)
(* descriptors are not used by the player.                                  *)
(***************************************************************************)
EXTENDS PacketBuffer

CONSTANTS
  MaxStashedFrames, MaxPaddingAge, GopAge, GopAdvance,   \* of RefFinder
  OutOfBand,      \* the description carries the parameter sets (sprop)
  IdGap,          \* numeric_limits<uint16_t>::max(): ids left free at a switch
  LastPosition,   \* bound: the stream ends here
  StopsAt         \* bound: the newest packets after which it is stopped

ASSUME ReceiverAssumption ==
  /\ OutOfBand \in BOOLEAN
  /\ IdGap = Modulus - 1
  /\ LastPosition < Modulus + Half

VARIABLES
  receiving_,
  tracked,        \* tracker_ has the parameter sets
  packet_infos_,  \* the positions of packets with an info
  position,       \* history: the position of the newest packet
  frames,         \* what OnAssembledFrame and OnCompleteFrames keep, and the finder
  out,            \* the frames handed to the frame buffer by the last step
  delivered,      \* history: the ids handed out, with their positions
  asked           \* history: a key frame was requested

rvars == <<receiving_, tracked, packet_infos_, position, frames, out, delivered, asked>>

Finder == INSTANCE RefFinder
  WITH last_seq_num_gop_ <- frames.finder.gop, stashed_frames_ <- frames.finder.stash,
       stashed_padding_ <- frames.finder.padding, Gapless <- TRUE,
       pending <- {}, padding <- {}, renamed <- FALSE

\* Where number s is, near the newest packet.
PositionFrom(newest, at, s) ==
  IF AheadOf(s, newest) THEN at + ForwardDiff(newest, s) ELSE at - ForwardDiff(s, newest)

At(s) == PositionFrom(top, position, s)

PositionAfter(s) == IF top = None THEN s ELSE IF AheadOf(s, top) THEN At(s) ELSE position

-----------------------------------------------------------------------------
(* RtpFrameReferenceFinder (external) puts the offset on the ids and drops  *)
(* frames from before the last ClearTo.  The unwrapper of the finder begins *)
(* with the number of its first frame: shift is what it is off by.          *)

NewFinder(offset) ==
  [gop |-> <<>>, padding |-> {}, stash |-> <<>>, cleared |-> None,
   offset |-> offset, shift |-> None, begun |-> FALSE]

After(finder, r) == [finder EXCEPT !.gop = r.st.gop, !.padding = r.st.padding, !.stash = r.kept]

Maps(finder) == [gop |-> finder.gop, padding |-> finder.padding]

PastCleared(finder, f) == finder.cleared # None /\ AheadOf(finder.cleared, f.start)

PictureId(finder, at, s) == finder.offset + at[s] + finder.shift

\* Mutant: the offset is put on the id of the frame, not on its reference.
ReferenceNoOffset(finder, at, s) == at[s] + finder.shift

Reference(finder, at, s) == PictureId(finder, at, s)

-----------------------------------------------------------------------------
(* What becomes of a frame.  st is the record frames with the frames handed  *)
(* out so far and whether a key frame was requested; at(s) is the position   *)
(* of number s.                                                              *)

InitialFrames ==
  [finder |-> NewFinder(0), has_received |-> FALSE, codec |-> "none", last_assembled |-> 0,
   pics |-> <<>>, last_completed |-> 0, out |-> <<>>, ask |-> FALSE]

\* OnCompleteFrames for what the finder hands off.
OnCompleteFrames(st, r, at) ==
  LET first  == at[r.out[1].frame.end]
      begun  == IF r.out = <<>> \/ st.finder.begun THEN st.finder
                ELSE [st.finder EXCEPT !.begun = TRUE, !.shift = (first % Modulus) - first]
      Id(s)  == PictureId(begun, at, s)
      given  == [i \in DOMAIN r.out |->
                   [id |-> Id(r.out[i].frame.end), at |-> at[r.out[i].frame.end],
                    end |-> r.out[i].frame.end, kind |-> r.out[i].frame.kind,
                    ref |-> Reference(begun, at, r.out[i].ref), codec |-> FrameOf[r.out[i].frame.end].codec]]
      ids    == {given[i].id : i \in DOMAIN given}
  IN [st EXCEPT !.finder = After(begun, r),
                !.pics = [id \in DOMAIN @ \cup ids |->
                            IF id \in ids THEN (CHOOSE g \in ToSet(given) : g.id = id).end
                            ELSE @[id]],
                !.last_completed = Max(ids \cup {@}),
                !.out = @ \o given]

ManageFrame(st, f, at) ==
  IF PastCleared(st.finder, f) THEN st
  ELSE OnCompleteFrames(st, Finder!Managed(Maps(st.finder), st.finder.stash, f), at)

\* Mutant: the picture ids begin anew with the finder.
NextFinderFromZero(st) == NewFinder(0)

\* The finder after a change of the codec.
NextFinder(st) == NewFinder(st.last_completed + IdGap)

\* An old frame from before the codec switch.
IsLateOfOtherCodec(st, f, at) ==
  st.codec # "none" /\ FrameOf[f.end].codec # st.codec /\ at[FrameOf[f.end].end] <= st.last_assembled

\* The first frame should be a key frame.
FirstFrame(st, f) ==
  [st EXCEPT !.has_received = TRUE, !.ask = @ \/ (~st.has_received /\ f.kind # "key")]

OnAssembledFrame(st, f, at) ==
  LET begun == FirstFrame(st, f)
      codec == FrameOf[f.end].codec
      when  == at[FrameOf[f.end].end]
      newer == st.codec = "none" \/ when > st.last_assembled
      taken == IF newer THEN [begun EXCEPT !.codec = codec, !.last_assembled = when] ELSE begun
  IN CASE IsLateOfOtherCodec(st, f, at) -> begun
       [] newer /\ st.codec \notin {"none", codec} ->
            ManageFrame([taken EXCEPT !.finder = NextFinder(st)], f, at)
       [] OTHER -> ManageFrame(taken, f, at)

\* A frame of packets: what the packet buffer found.
Assembled(r) == [start |-> r.start, end |-> r.end, kind |-> IF r.key THEN "key" ELSE "delta"]

\* OnInsertedPacket: the frames in turn; a cleared buffer asks for a key frame.
OnInsertedPacket(st, inserted, at) ==
  LET done == FoldLeft(LAMBDA acc, r : OnAssembledFrame(acc, Assembled(r), at), st, inserted.frames)
  IN [done EXCEPT !.ask = @ \/ inserted.buffer_cleared]

Begin == [frames EXCEPT !.out = <<>>, !.ask = FALSE]

\* The variables after a call that leaves st.
Take(st) ==
  /\ frames' = [st EXCEPT !.out = <<>>, !.ask = FALSE]
  /\ out' = st.out
  /\ delivered' = delivered \cup {[id |-> o.id, at |-> o.at] : o \in ToSet(st.out)}
  /\ asked' = (asked \/ st.ask)

-----------------------------------------------------------------------------
ReceiverInit ==
  /\ Init
  /\ receiving_ = FALSE
  /\ tracked = OutOfBand
  /\ packet_infos_ = {}
  /\ position = 0
  /\ frames = InitialFrames
  /\ out = <<>>
  /\ delivered = {}
  /\ asked = FALSE

\* Positions of all numbers once s has come.
Positions(s) ==
  LET newest == TopAfter(s) IN [t \in SeqNums |-> PositionFrom(newest, PositionAfter(s), t)]

Comes(s) ==
  /\ receiving_
  /\ top # None => At(s) <= LastPosition
  /\ position' = PositionAfter(s)

\* What the tracker of H.264 looks at: the first slice of a key frame needs parameter
\* sets, those before it carry them.
NeedsParameterSets(s) == IsH264(s) /\ HasIdr(s)
HasParameterSets(s) ==
  IsH264(s) /\ FrameOf[s].kind = "key" /\ RealFirst(s) /\ ~HasIdr(s)

\* OnReceivedPayloadData for a packet that the tracker lets pass.
InsertPayload(s) ==
  /\ Comes(s)
  /\ NeedsParameterSets(s) => tracked
  /\ InsertPacket(s)
  /\ tracked' = (tracked \/ HasParameterSets(s))
  /\ LET infos == packet_infos_ \cup {Positions(s)[s]}
     IN packet_infos_' = IF result'.buffer_cleared THEN {} ELSE infos
  /\ Take(OnInsertedPacket(Begin, result', Positions(s)))
  /\ UNCHANGED receiving_

\* OnReceivedPayloadData for the first slice of a key frame whose parameter
\* sets have not come: it is dropped, its info stays, a key frame is requested.
RejectPayload(s) ==
  /\ Comes(s)
  /\ NeedsParameterSets(s) /\ ~tracked
  /\ Arrives(s)
  /\ packet_infos_' = packet_infos_ \cup {Positions(s)[s]}
  /\ asked' = TRUE
  /\ out' = <<>>
  /\ Remember(s)
  /\ NoResult
  /\ UNCHANGED <<buffer_, first_seq_num_, first_packet_received_, is_cleared_to_first_seq_num_,
                 newest_inserted_seq_num_, missing_packets_, base, handed,
                 receiving_, tracked, frames, delivered>>

\* NotifyReceiverOfEmptyPacket: the finder learns of it, then the buffer.
EmptyPacket(s) ==
  /\ Comes(s)
  /\ InsertPadding(s)
  /\ LET padded == Finder!Padded(Maps(frames.finder), frames.finder.stash, s)
     IN Take(OnInsertedPacket(OnCompleteFrames(Begin, padded, Positions(s)),
                              result', Positions(s)))
  /\ packet_infos_' = IF result'.buffer_cleared THEN {} ELSE packet_infos_
  /\ UNCHANGED <<receiving_, tracked>>

InfosAfter(at) == {p \in packet_infos_ : p > at}

\* FrameDecoded, for a frame whose last packet is still known.
DecodedPicture(id) ==
  LET last == frames.pics[id]
  IN /\ FrameDecoded(last)
     /\ packet_infos_' = InfosAfter(At(last))
     /\ frames' = [frames EXCEPT
          !.pics = [p \in {q \in DOMAIN @ : q > id} |-> @[p]],
          !.finder.stash = Finder!NotBefore(@, last),
          !.finder.cleared = last]
     /\ out' = <<>>
     /\ UNCHANGED <<receiving_, tracked, position, delivered, asked>>

StartReceive ==
  /\ ~receiving_
  /\ receiving_' = TRUE
  /\ out' = <<>>
  /\ UNCHANGED <<vars, tracked, packet_infos_, position, frames, delivered, asked>>

StopReceive ==
  /\ receiving_
  /\ top \in StopsAt
  /\ receiving_' = FALSE
  /\ out' = <<>>
  /\ UNCHANGED <<vars, tracked, packet_infos_, position, frames, delivered, asked>>

ReceiverNext ==
  \/ \E s \in SeqNums : InsertPayload(s)
  \/ \E s \in SeqNums : RejectPayload(s)
  \/ \E s \in SeqNums : EmptyPacket(s)
  \/ \E id \in DOMAIN frames.pics : DecodedPicture(id)
  \/ StartReceive
  \/ StopReceive

ReceiverSpec == ReceiverInit /\ [][ReceiverNext]_<<vars, rvars>>

-----------------------------------------------------------------------------
(* A frame is handed out whole and without a gap behind it, and nothing that *)
(* was cleared comes back, in the ring between the depacketizer and the      *)
(* finders.                                                                   *)
HandedOutWhole == TypeOK /\ FramesWhole /\ DeltaFramesGapless /\ ClearedStaysCleared

(* A packet leaves the packet buffer in a frame, behind a decoded one or told *)
(* of as cleared; a complete frame stays in it only for a gap before it and   *)
(* in the three cases that CompletedFramesLeave names.                        *)
PacketsLeaveInFrames == NoPacketLost /\ CompletedFramesLeave

(* Whatever is in the packet buffer has an info when its frame is assembled  *)
(* (the RTC_DCHECK of OnInsertedPacket): the two are cleared alike.          *)
InfoForEveryPacket == \A s \in Stored(buffer_) : At(s) \in packet_infos_

(* Picture ids grow with the stream, so that none is used twice: not across  *)
(* the wrap of the numbers, not across a change of the codec after it.       *)
IdsFollowStream == \A a, b \in delivered : a.at < b.at => a.id < b.id

(* After a newer frame of another codec no frame of the old one follows.      *)
CodecNeverReturns == [][\A o \in ToSet(out') : o.codec = frames'.codec]_<<vars, rvars>>

(* A delta frame refers to a frame handed out before it, by the id that one  *)
(* has.                                                                       *)
ReferencesDelivered ==
  [][\A i \in DOMAIN out' : out'[i].kind = "delta" =>
        \/ \E d \in delivered : d.id = out'[i].ref
        \/ \E j \in 1..(i - 1) : out'[j].id = out'[i].ref]_<<vars, rvars>>

(* Frames that cannot be decoded because no key frame came before them lead  *)
(* to a key frame request.                                                    *)
FirstDeltaAsks == frames.has_received /\ delivered = {} => asked

(* The infos, the ids and the key frame requests agree with the buffer and   *)
(* the finders, also across a change of the codec.                            *)
ReceiverInv == InfoForEveryPacket /\ IdsFollowStream /\ FirstDeltaAsks

(* A frame goes on only with what it refers to, and none of an older codec.   *)
FramesDelivered == CodecNeverReturns /\ ReferencesDelivered

=============================================================================
