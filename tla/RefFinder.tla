----------------------------- MODULE RefFinder -----------------------------
(***************************************************************************)
(* RtpSeqNumOnlyRefFinder (rtp_seq_num_only_ref_finder.cc): frames that    *)
(* have no dependency information refer to the frame before them, which is *)
(* the one whose last packet precedes their first.  A frame whose          *)
(* predecessor is not known waits in a stash.  Per group of pictures (gop),*)
(* which a key frame begins, the finder keeps the last frame, and the last *)
(* packet when the padding behind that frame counts.                       *)
(*                                                                         *)
(* The packet buffer hands a key frame out without the frames before it,   *)
(* and a delta frame after what is missing before it has come (Gapless) or *)
(* is so old that it is no longer waited for; what was handed out may come *)
(* again when its packets do.  The sender's frames are given by FrameOf;   *)
(* padding is a frame of kind "padding" and takes one number.              *)
(***************************************************************************)
EXTENDS SeqNum, SequencesExt

CONSTANTS FrameOf,            \* the frame of the sender that a packet belongs to
          MaxStashedFrames,   \* kMaxStashedFrames
          MaxPaddingAge,      \* kMaxPaddingAge
          GopAge,             \* how old the last packet of a key frame gets (100)
          GopAdvance,         \* how long a gop gets before it is renamed (10000)
          Gapless,            \* the packet buffer waits for what is missing
          MaxBack, MaxJump    \* bound: how far behind and ahead of the newest packet one comes

ASSUME RefFinderAssumption ==
  /\ \A s \in SeqNums : {FrameOf[s].start, FrameOf[s].end} \subseteq SeqNums
  /\ {MaxStashedFrames, MaxPaddingAge, GopAge, GopAdvance, MaxBack, MaxJump} \subseteq 1..Half
  /\ Gapless \in BOOLEAN

VARIABLES
  last_seq_num_gop_,   \* last packet of the key frame -> last frame, and with padding
  stashed_frames_,     \* the latest first
  stashed_padding_,
  result,              \* the frames handed off by the last call, with what they refer to
  top,                 \* history: the newest packet that has come
  base,                \* history: the newest frame handed off
  handed,              \* history: the frames handed off
  pending,             \* history: the frames that came and neither left nor were given up
  padding,             \* history: the padding that has come
  renamed              \* history: a gop was renamed after a packet that it does not hold

finder == <<last_seq_num_gop_, stashed_frames_, stashed_padding_>>
vars == <<finder, result, top, base, handed, pending, padding, renamed>>

None == -1
Frames == {FrameOf[s] : s \in SeqNums}
Pictures == {f \in Frames : f.kind # "padding"}
Before(f) == Minus(f.start, 1)

\* The numbers between f and the frame before it are those of padding.
PaddingBefore(f) ==
  {p \in SeqNums : \A d \in 1..ForwardDiff(p, f.start) :
                     FrameOf[Minus(f.start, d)].kind = "padding"} \ {f.start}

Predecessor(f) == FrameOf[Minus(f.start, Cardinality(PaddingBefore(f)) + 1)]

-----------------------------------------------------------------------------
\* The gop that packet s belongs to: the newest key frame that is not ahead of it.
GopsUpTo(gop, s) == {k \in DOMAIN gop : ~AheadOf(k, s)}
GopOf(gop, s) == CHOOSE k \in GopsUpTo(gop, s) : \A j \in GopsUpTo(gop, s) : ~AheadOf(j, k)

\* A key frame begins a gop.
WithKeyFrame(gop, f) ==
  IF f.kind = "key" /\ f.end \notin DOMAIN gop
  THEN (f.end :> [last |-> f.end, padded |-> f.end]) @@ gop
  ELSE gop

\* Old gops go; two stay.
WithoutOld(gop, s) ==
  Restrict(gop, {k \in DOMAIN gop :
                   \/ ~AheadOf(Minus(s, GopAge), k)
                   \/ Cardinality({j \in DOMAIN gop : AheadOf(j, k)}) < 2})

\* The padding directly behind s.
RunBehind(pads, s) ==
  {p \in pads \ {s} : \A d \in 1..ForwardDiff(s, p) : Plus(s, d) \in pads}

\* A long gop is renamed after packet s; all others are forgotten.
Rename(gop, g, s) == IF ForwardDiff(g, s) > GopAdvance THEN s :> gop[g] ELSE gop

\* UpdateLastPictureIdWithPadding.
UpdateLastPictureIdWithPadding(st, s) ==
  IF GopsUpTo(st.gop, s) = {} THEN st
  ELSE LET g   == GopOf(st.gop, s)
           run == RunBehind(st.padding, st.gop[g].padded)
       IN [st EXCEPT !.gop = Rename([@ EXCEPT ![g].padded = Plus(@, Cardinality(run))], g, s),
                     !.padding = @ \ run]

\* Mutant of IsGap: what the gop holds must only not be too old.
IsGapIfAhead(gop, g, f) == f.kind = "delta" /\ AheadOf(Before(f), gop[g].padded)

\* Packets are missing between f and what the gop holds.
IsGap(gop, g, f) == f.kind = "delta" /\ Before(f) # gop[g].padded

\* ManageFrameInternal: what becomes of f, and of the finder.
ManageFrameInternal(st, f) ==
  LET gop == WithoutOld(WithKeyFrame(st.gop, f), f.end)
      g   == GopOf(gop, f.end)
      new == [st EXCEPT !.gop = gop]
  IN IF WithKeyFrame(st.gop, f) = << >> THEN [decision |-> "stash", ref |-> None, st |-> st]
     ELSE IF GopsUpTo(gop, f.end) = {} THEN [decision |-> "drop", ref |-> None, st |-> new]
     ELSE IF IsGap(gop, g, f) THEN [decision |-> "stash", ref |-> None, st |-> new]
     ELSE [decision |-> "hand_off",
           ref |-> gop[g].last,
           st |-> UpdateLastPictureIdWithPadding(
                    IF AheadOf(f.end, gop[g].last)
                    THEN [new EXCEPT !.gop[g] = [last |-> f.end, padded |-> f.end]]
                    ELSE new,
                    f.end)]

\* One pass over the stash.
TryStashed(acc, f) ==
  LET m == ManageFrameInternal(acc.st, f)
  IN [st   |-> m.st,
      kept |-> IF m.decision = "stash" THEN Append(acc.kept, f) ELSE acc.kept,
      out  |-> IF m.decision = "hand_off" THEN Append(acc.out, [frame |-> f, ref |-> m.ref])
               ELSE acc.out,
      more |-> acc.more \/ m.decision = "hand_off"]

\* Mutant of RetryStashedFrames: one pass must do.
RetryOnce(st, stash, out) ==
  FoldLeft(TryStashed, [st |-> st, kept |-> << >>, out |-> out, more |-> FALSE], stash)

\* RetryStashedFrames: passes are made until one hands nothing off.
RetryStashedFrames(st, stash, out) ==
  LET after[n \in 0..(Len(stash) + 1)] ==
        IF n = 0 THEN [st |-> st, kept |-> stash, out |-> out, more |-> TRUE]
        ELSE LET p == after[n - 1]
             IN IF p.more
                THEN FoldLeft(TryStashed, [p EXCEPT !.kept = << >>, !.more = FALSE], p.kept)
                ELSE p
  IN after[Len(stash) + 1]

State == [gop |-> last_seq_num_gop_, padding |-> stashed_padding_]

-----------------------------------------------------------------------------
Init ==
  /\ last_seq_num_gop_ = << >>
  /\ stashed_frames_ = << >>
  /\ stashed_padding_ = {}
  /\ result = << >>
  /\ top = None /\ base = None
  /\ handed = {} /\ pending = {} /\ padding = {}
  /\ renamed = FALSE

\* A packet comes near the newest one, and before the stream is a quarter of a turn
\* further a frame is handed off, and half a turn further ClearTo empties the stash.
Arrives(s) ==
  /\ top # None => ForwardDiff(s, top) <= MaxBack \/ ForwardDiff(top, s) <= MaxJump
  /\ base # None => ~AheadOf(s, base) \/ ForwardDiff(base, s) <= Half \div 2
  /\ \A f \in ToSet(stashed_frames_) :
       ForwardDiff(f.end, s) < Half \/ ForwardDiff(s, f.end) <= MaxBack + MaxJump

\* The frame and the padding before f have come.
Follows(f) ==
  /\ Predecessor(f) \in pending \/ Predecessor(f).end \in handed
  /\ PaddingBefore(f) \subseteq padding

InReach(S) == {s \in S : ForwardDiff(s, top') <= MaxBack + Half \div 2}

Newer(a, b) == IF a = None \/ AheadOf(b, a) THEN b ELSE a

\* A gop has the name of a packet that comes after its last frame.
Misnamed(gop) == \E k \in DOMAIN gop : AheadOf(k, gop[k].padded)

BeginsNewest(gop, s) == \A k \in DOMAIN gop : ~AheadOf(k, s)

\* The finder after a call that made out of st, and the histories: what left is
\* handed off, what was given up is not waited for.
Take(st, stash, out, s, given_up) ==
  /\ last_seq_num_gop_' = st.gop
  /\ stashed_frames_' = stash
  /\ stashed_padding_' = st.padding
  /\ result' = out
  /\ top' = Newer(top, s)
  /\ base' = FoldLeft(LAMBDA b, o : Newer(b, o.frame.end),
                      IF base = None THEN Before(FrameOf[s]) ELSE base, out)
  /\ handed' = InReach(handed \cup {o.frame.end : o \in ToSet(out)})
  /\ pending' = {f \in pending \cup ({FrameOf[s]} \cap Pictures) :
                   f.end \notin handed' /\ f \notin given_up
                     /\ ForwardDiff(f.end, top') <= Half \div 2}
  /\ renamed' = /\ renamed \/ Misnamed(st.gop)
                            \/ \E k \in DOMAIN last_seq_num_gop_ \ DOMAIN st.gop : AheadOf(k, s)
                /\ ~\E o \in ToSet(out) :
                     /\ o.frame.kind = "key" /\ BeginsNewest(st.gop, o.frame.end)
                     /\ base = None \/ AheadOf(o.frame.end, base)

\* The stash takes f; a full one gives its oldest frame up.
Stash(stash, f) ==
  <<f>> \o (IF Len(stash) > MaxStashedFrames THEN SubSeq(stash, 1, Len(stash) - 1) ELSE stash)

\* What ManageFrame makes of the maps, the stash and f.
Managed(st, stash, f) ==
  LET m == ManageFrameInternal(st, f)
      r == RetryStashedFrames(m.st, stash, <<[frame |-> f, ref |-> m.ref]>>)
  IN CASE m.decision = "hand_off" -> [st |-> r.st, kept |-> r.kept, out |-> r.out]
       [] m.decision = "stash" -> [st |-> m.st, kept |-> Stash(stash, f), out |-> << >>]
       [] m.decision = "drop" -> [st |-> m.st, kept |-> stash, out |-> << >>]

ManageFrame(f) ==
  LET r == Managed(State, stashed_frames_, f)
  IN /\ Arrives(f.end)
     /\ Gapless /\ f.kind = "delta" => top = None \/ Follows(f)
     /\ Take(r.st, r.kept, r.out, f.end,
             IF r.out = << >> THEN ToSet(stashed_frames_) \ ToSet(r.kept) ELSE {})
     /\ UNCHANGED padding

\* What PaddingReceived makes of the maps and the stash.
Padded(st, stash, s) ==
  LET kept == FromLowerBound(st.padding, Minus(s, MaxPaddingAge)) \cup {s}
  IN RetryStashedFrames(UpdateLastPictureIdWithPadding([st EXCEPT !.padding = kept], s),
                        stash, << >>)

PaddingReceived(s) ==
  LET r == Padded(State, stashed_frames_, s)
  IN /\ FrameOf[s].kind = "padding" /\ Arrives(s)
     /\ padding' = FromLowerBound(padding, Minus(s, MaxPaddingAge)) \cup {s}
     /\ Take(r.st, r.kept, r.out, s, {})

\* What stays in the stash when it is cleared up to s.
NotBefore(stash, s) == SelectSeq(stash, LAMBDA f : ~AheadOf(s, f.start))

\* ClearTo, for a frame that was decoded.
ClearTo(s) ==
  /\ stashed_frames_' = NotBefore(stashed_frames_, s)
  /\ pending' = pending \ {f \in pending : AheadOf(s, f.start)}
  /\ result' = << >>
  /\ UNCHANGED <<last_seq_num_gop_, stashed_padding_, top, base, handed, padding, renamed>>

Next ==
  \/ \E f \in Pictures : ManageFrame(f)
  \/ \E s \in SeqNums : PaddingReceived(s)
  \/ \E s \in handed : ClearTo(s)

Spec == Init /\ [][Next]_vars

-----------------------------------------------------------------------------
\* Every variable has its type, and the maps are in the order their comparator
\* can give them.
TypeOK ==
  /\ DOMAIN last_seq_num_gop_ \subseteq SeqNums /\ Ordered(DOMAIN last_seq_num_gop_)
  /\ \A k \in DOMAIN last_seq_num_gop_ :
       last_seq_num_gop_[k] \in [last : SeqNums, padded : SeqNums]
  /\ stashed_frames_ \in Seq(Pictures) /\ Len(stashed_frames_) <= MaxStashedFrames + 1
  /\ stashed_padding_ \subseteq SeqNums /\ Ordered(stashed_padding_)
  /\ result \in Seq([frame : Pictures, ref : SeqNums])
  /\ {top, base} \subseteq SeqNums \cup {None}
  /\ handed \subseteq SeqNums /\ pending \subseteq Pictures /\ padding \subseteq SeqNums
  /\ renamed \in BOOLEAN

\* A delta frame refers to the frame the sender sent before it, and that one was
\* handed off earlier, across lost, late and repeated frames, padding, new gops
\* and the wrap of the numbers.
RefersToPredecessor ==
  [][\A i \in DOMAIN result' :
       LET o == result'[i]
           earlier == handed \cup {result'[j].frame.end : j \in 1..(i - 1)}
       IN o.frame.kind = "delta" =>
            o.ref = Predecessor(o.frame).end /\ o.ref \in earlier]_vars

\* Nothing is missing between f and a frame handed off.
Continuous(f) ==
  f.kind = "delta" /\ Predecessor(f).end \in handed /\ PaddingBefore(f) \subseteq padding

\* A frame leaves as soon as the frame before it has left and the padding between
\* them has come, until a gop is renamed after a packet that it does not hold.
NothingLeftBehind == ~renamed => \A f \in pending : ~Continuous(f)

\* The finder's maps are ordered by the comparator that keeps them, and hold nothing
\* that could go on.
FinderInv == TypeOK /\ NothingLeftBehind

=============================================================================
