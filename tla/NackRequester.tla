--------------------------- MODULE NackRequester ---------------------------
(***************************************************************************)
(* NackRequester (nack_requester.cc): which packets of the video stream    *)
(* are asked for again, and when it gives up and asks for a key frame.     *)
(* All calls run on the worker thread; ClearUpTo posts its work there.     *)
(*                                                                         *)
(* Time is counted in intervals of NackPeriodicProcessor.  With the field  *)
(* trials of the code at their defaults a nack is sent when its packet is  *)
(* found missing (no send delay, and the reordering histogram that could   *)
(* delay it never receives a value) and then once per round trip.          *)
(*                                                                         *)
(* Packets arrive in any order, late, duplicated or never.  MaxJump bounds *)
(* how far a packet may be ahead of the newest one.                        *)
(***************************************************************************)
EXTENDS SeqNum, FiniteSetsExt, Functions, Sequences

CONSTANTS MaxPacketAge, MaxNackPackets, MaxNackRetries,
          FirstBack,    \* how far OnReceivedFirstSequence goes back (10)
          DefaultRtt,   \* kDefaultRttMs, in intervals
          Rtts,         \* round trip times that UpdateRtt may report
          MaxJump,
          MaxPosted,    \* bound on the posted ClearUpTo calls
          Fec           \* recovered packets may be ahead of the newest one

ASSUME NackAssumption ==
  /\ {MaxPacketAge, MaxNackPackets, MaxNackRetries, FirstBack, DefaultRtt, MaxJump}
       \subseteq Nat \ {0}
  /\ MaxNackPackets <= MaxPacketAge
  /\ Rtts \subseteq Nat /\ IsFiniteSet(Rtts) /\ MaxPosted \in Nat
  /\ MaxPacketAge + Max({MaxJump, FirstBack}) < Half
  /\ Fec \in BOOLEAN

VARIABLES
  initialized_,
  newest_seq_num_,
  first_seq_num_received_,
  nack_list_,      \* a function from sequence numbers to [retries, age]
  keyframe_list_,
  recovered_list_,
  rtt_ms_,
  clears,          \* the ClearUpTo calls posted and not yet run
  batch,           \* the nacks sent by the last step
  key_requested,   \* the last step requested a key frame
  got,             \* history: the packets received, of those still in reach
  asked            \* history: how often each packet in reach was asked for

lists == <<nack_list_, keyframe_list_, recovered_list_>>
vars == <<initialized_, newest_seq_num_, first_seq_num_received_, lists, rtt_ms_,
          clears, batch, key_requested, got, asked>>

Listed == DOMAIN nack_list_

\* Everything a received packet changes, as one record.
State == [init |-> initialized_, newest |-> newest_seq_num_, nack |-> nack_list_,
          keys |-> keyframe_list_, recovered |-> recovered_list_,
          batch |-> {}, key_requested |-> FALSE]

MaxRtt == Max(Rtts \cup {DefaultRtt})

Init ==
  /\ initialized_ = FALSE
  /\ newest_seq_num_ = 0
  /\ first_seq_num_received_ = FALSE
  /\ nack_list_ = <<>>
  /\ keyframe_list_ = {}
  /\ recovered_list_ = {}
  /\ rtt_ms_ = DefaultRtt
  /\ clears = <<>>
  /\ batch = {}
  /\ key_requested = FALSE
  /\ got = {}
  /\ asked = [s \in SeqNums |-> 0]

-----------------------------------------------------------------------------
(* OnReceivedPacket.                                                       *)

\* The packets strictly between two numbers.
Between(a, b) ==
  {s \in SeqNums : s # a /\ ForwardDiff(a, s) < ForwardDiff(a, b)}

\* RemovePacketsUntilKeyFrame, called until room is left for the new packets:
\* the oldest key frame that is newer than some listed packet and leaves room.
Frees(st, k, room) ==
  /\ \E s \in DOMAIN st.nack : AheadOf(k, s)
  /\ Cardinality(FromLowerBound(DOMAIN st.nack, k)) <= room

FirstThatFrees(st, room) ==
  CHOOSE k \in st.keys : /\ Frees(st, k, room)
                         /\ \A j \in st.keys : Frees(st, j, room) => ~AheadOf(k, j)

RemovePacketsUntilKeyFrame(st, room) ==
  LET k == FirstThatFrees(st, room)
  IN [st EXCEPT !.nack = Restrict(@, FromLowerBound(DOMAIN @, k)),
                !.keys = FromLowerBound(@, k)]

\* The new packets enter the list and are asked for: GetNackBatch(kSeqNumOnly)
\* takes exactly those that were never sent.
Enlist(st, missing) ==
  LET kept == IF MaxNackRetries = 1 THEN {} ELSE missing
  IN [st EXCEPT !.nack = [s \in DOMAIN @ \cup kept |->
                            IF s \in kept THEN [retries |-> 1, age |-> 0] ELSE @[s]],
                !.batch = missing]

\* Mutant: no key frame is requested instead.
GiveUpSilently(st) == [st EXCEPT !.nack = <<>>, !.keys = {}]

GiveUp(st) == [st EXCEPT !.nack = <<>>, !.keys = {}, !.key_requested = TRUE]

\* AddPacketsToNack for the packets between the newest one and seq.
AddPacketsToNack(st, seq) ==
  LET young   == [st EXCEPT !.nack = Restrict(@, FromLowerBound(DOMAIN @, Minus(seq, MaxPacketAge)))]
      gap     == Between(st.newest, seq)
      missing == gap \ st.recovered
      room    == MaxNackPackets - Cardinality(gap)
  IN CASE Cardinality(DOMAIN young.nack) <= room -> Enlist(young, missing)
       [] /\ Cardinality(DOMAIN young.nack) > room
          /\ \E k \in st.keys : Frees(young, k, room) ->
            Enlist(RemovePacketsUntilKeyFrame(young, room), missing)
       [] OTHER -> GiveUp(young)

\* Mutant: a late packet stays on the list.
OutOfOrderKept(st, seq) == st

\* A packet behind the newest one leaves the list.
OutOfOrder(st, seq) == [st EXCEPT !.nack = Restrict(@, DOMAIN @ \ {seq})]

InOrder(st, seq, is_keyframe, is_recovered) ==
  LET keyed == [st EXCEPT !.keys = FromLowerBound(@ \cup (IF is_keyframe THEN {seq} ELSE {}),
                                                  Minus(seq, MaxPacketAge))]
  IN IF is_recovered
     THEN [keyed EXCEPT !.recovered = FromLowerBound(@ \cup {seq}, Minus(seq, MaxPacketAge))]
     ELSE [AddPacketsToNack(keyed, seq) EXCEPT !.newest = seq]

Received(st, seq, is_keyframe, is_recovered) ==
  CASE ~st.init -> [st EXCEPT !.init = TRUE, !.newest = seq,
                              !.keys = IF is_keyframe THEN {seq} ELSE {}]
    [] st.init /\ seq = st.newest -> st
    [] st.init /\ AheadOf(st.newest, seq) -> OutOfOrder(st, seq)
    [] st.init /\ AheadOf(seq, st.newest) -> InOrder(st, seq, is_keyframe, is_recovered)

\* OnReceivedFirstSequence: pretends that a packet before the first one came.
FirstSequence(st, first_seq) ==
  Received(st, IF first_seq > FirstBack THEN first_seq - FirstBack ELSE 0, FALSE, FALSE)

\* A number is in reach while it is not too old for the lists and not too far
\* ahead; outside it stands for a packet of another turn.
InReach(newest, s) ==
  \/ ForwardDiff(s, newest) <= MaxPacketAge
  \/ ForwardDiff(newest, s) <= MaxJump

\* One request more; the history need not count past one too many.
Once(n) == Min({n + 1, MaxNackRetries + 1})

\* The variables take the values of st after seq has come.
Take(st, seq) ==
  /\ initialized_' = st.init
  /\ newest_seq_num_' = st.newest
  /\ nack_list_' = st.nack
  /\ keyframe_list_' = st.keys
  /\ recovered_list_' = st.recovered
  /\ batch' = st.batch
  /\ key_requested' = st.key_requested
  /\ got' = {s \in got \cup {seq} : InReach(st.newest, s)}
  /\ asked' = [s \in SeqNums |->
                 IF ~InReach(st.newest, s) THEN 0
                 ELSE IF s \in st.batch THEN Once(asked[s]) ELSE asked[s]]

-----------------------------------------------------------------------------
(* What the receiver calls.                                                *)

\* Any packet may come first; later ones are at most MaxJump ahead.
Arrives(seq) == initialized_ => InReach(newest_seq_num_, seq)

\* A retransmission that came over RTX was asked for; a packet that FEC has
\* recovered may also be ahead of everything received.
Recoverable(seq) ==
  /\ initialized_
  /\ asked[seq] > 0 \/ (Fec /\ AheadOf(seq, newest_seq_num_))
  /\ seq \notin got

\* OnReceivedPayloadData, called for a packet with payload: the first one also
\* starts the list some packets back.
OnReceivedPayloadData(seq, is_keyframe, is_recovered) ==
  /\ Arrives(seq)
  /\ is_recovered => Recoverable(seq)
  /\ first_seq_num_received_' = TRUE
  /\ LET first == IF first_seq_num_received_ THEN State ELSE FirstSequence(State, seq)
         last  == Received([first EXCEPT !.batch = {}, !.key_requested = FALSE],
                           seq, is_keyframe, is_recovered)
     IN Take([last EXCEPT !.batch = @ \cup first.batch,
                          !.key_requested = @ \/ first.key_requested], seq)
  /\ UNCHANGED <<rtt_ms_, clears>>

\* NotifyReceiverOfEmptyPacket, called for padding.
NotifyReceiverOfEmptyPacket(seq) ==
  /\ Arrives(seq)
  /\ Take(Received(State, seq, FALSE, FALSE), seq)
  /\ UNCHANGED <<first_seq_num_received_, rtt_ms_, clears>>

Quiet == batch' = {} /\ key_requested' = FALSE

\* FrameDecoded posts ClearUpTo with the last packet of the frame.
FrameDecoded(seq) ==
  /\ seq \in got
  /\ Len(clears) < MaxPosted
  /\ clears' = Append(clears, seq)
  /\ Quiet
  /\ UNCHANGED <<initialized_, newest_seq_num_, first_seq_num_received_, lists, rtt_ms_,
                 got, asked>>

ClearUpTo ==
  /\ clears # <<>>
  /\ clears' = Tail(clears)
  /\ nack_list_' = Restrict(nack_list_, FromLowerBound(Listed, Head(clears)))
  /\ keyframe_list_' = FromLowerBound(keyframe_list_, Head(clears))
  /\ recovered_list_' = FromLowerBound(recovered_list_, Head(clears))
  /\ Quiet
  /\ UNCHANGED <<initialized_, newest_seq_num_, first_seq_num_received_, rtt_ms_, got, asked>>

UpdateRtt(rtt) ==
  /\ rtt_ms_' = Max({rtt, DefaultRtt})
  /\ Quiet
  /\ UNCHANGED <<initialized_, newest_seq_num_, first_seq_num_received_, lists, clears,
                 got, asked>>

\* ProcessNacks at the end of an interval: GetNackBatch(kTimeOnly) sends what was
\* sent a round trip ago.  A nack sent within the interval counts as sent at
\* its beginning or at its end.
Due(s) == nack_list_[s].age + 1 > rtt_ms_
MaybeDue(s) == nack_list_[s].age + 1 = rtt_ms_

SendBatch(due, counted) ==
  LET spent == {s \in due : nack_list_[s].retries + counted >= MaxNackRetries}
  IN /\ nack_list_' = [s \in Listed \ spent |->
                         IF s \in due
                         THEN [retries |-> nack_list_[s].retries + counted, age |-> 0]
                         ELSE [nack_list_[s] EXCEPT !.age = @ + 1]]
     /\ batch' = due
     /\ asked' = [s \in SeqNums |-> IF s \in due THEN Once(asked[s]) ELSE asked[s]]

\* Mutant: what was asked for on time is not counted.
GetNackBatchUncounted(due) == SendBatch(due, 0)

GetNackBatch(due) == SendBatch(due, 1)

ProcessNacks ==
  /\ Listed # {} \/ batch # {} \/ key_requested
  /\ \E due \in SUBSET {s \in Listed : Due(s) \/ MaybeDue(s)} :
       /\ {s \in Listed : Due(s)} \subseteq due
       /\ GetNackBatch(due)
  /\ key_requested' = FALSE
  /\ UNCHANGED <<initialized_, newest_seq_num_, first_seq_num_received_, keyframe_list_,
                 recovered_list_, rtt_ms_, clears, got>>

Next ==
  \/ \E seq \in SeqNums, is_keyframe, is_recovered \in BOOLEAN :
       OnReceivedPayloadData(seq, is_keyframe, is_recovered)
  \/ \E seq \in SeqNums : NotifyReceiverOfEmptyPacket(seq)
  \/ \E seq \in SeqNums : FrameDecoded(seq)
  \/ ClearUpTo
  \/ \E rtt \in Rtts : UpdateRtt(rtt)
  \/ ProcessNacks

Spec == Init /\ [][Next]_vars

\* The periodic processor keeps running.
FairSpec == Spec /\ WF_vars(ProcessNacks)

-----------------------------------------------------------------------------
\* Every variable has its type.
TypeOK ==
  /\ initialized_ \in BOOLEAN
  /\ newest_seq_num_ \in SeqNums
  /\ first_seq_num_received_ \in BOOLEAN
  /\ Listed \subseteq SeqNums
  /\ \A s \in Listed : /\ nack_list_[s].retries \in 1..(MaxNackRetries - 1)
                       /\ nack_list_[s].age \in 0..MaxRtt
  /\ keyframe_list_ \subseteq SeqNums
  /\ recovered_list_ \subseteq SeqNums
  /\ rtt_ms_ \in DefaultRtt..MaxRtt
  /\ clears \in Seq(SeqNums) /\ Len(clears) <= MaxPosted
  /\ batch \subseteq SeqNums
  /\ key_requested \in BOOLEAN
  /\ got \subseteq SeqNums
  /\ asked \in [SeqNums -> 0..(MaxNackRetries + 1)]

\* The lists stay bounded, whatever is lost, and hold only packets that the
\* comparator of the lists can order, across the wrap of the numbers.
ListsBounded ==
  /\ Cardinality(Listed) <= MaxNackPackets
  /\ \A s \in Listed : /\ AheadOf(newest_seq_num_, s)
                       /\ ForwardDiff(s, newest_seq_num_) <= MaxPacketAge
  /\ Ordered(Listed \cup {newest_seq_num_})

\* The requester never overwhelms the sender: its lists are bounded, a packet that
\* has arrived is not asked for (nack_requester.cc:234), and no packet is asked for
\* more often than kMaxNackRetries times: none comes back to the list after it was
\* given up, whatever the order of losses, retransmissions and decoded frames.
NacksAreSound ==
  /\ TypeOK
  /\ ListsBounded
  /\ batch \cap got = {}
  /\ \A s \in SeqNums : asked[s] <= MaxNackRetries

\* When a packet is ahead of the newest one, each packet between them is here, is
\* asked for, or a key frame is requested.
NoGapIgnored ==
  newest_seq_num_' # newest_seq_num_ =>
    \A s \in Between(newest_seq_num_, newest_seq_num_') :
      s \in got' \/ s \in batch' \/ key_requested'

\* A missing packet leaves the list only when it was asked for often enough, is too
\* old, was decoded past, or a key frame is at hand or requested.
GivenUp ==
  clears' = clears =>
    \A s \in Listed \ DOMAIN nack_list_' :
      \/ s \in got'
      \/ asked'[s] >= MaxNackRetries
      \/ ForwardDiff(s, newest_seq_num_') > MaxPacketAge
      \/ key_requested'
      \/ \E k \in keyframe_list_' : AheadOf(k, s)

\* After the first packet with payload the decoder is never left with a loss nobody
\* mends: no gap is passed over, and none is given up without a key frame.
MissingIsAsked == [][first_seq_num_received_ => NoGapIgnored /\ GivenUp]_vars

\* A packet does not stay on the list for ever, also if it never comes.
NacksEnd == \A s \in SeqNums : s \in Listed ~> s \notin Listed
=============================================================================
