---------------------------- MODULE VideoStream ----------------------------
(***************************************************************************)
(* What a demuxer promises of its video: a bounded channel of frames that  *)
(* loses a frame only when it overflows or when the frame it depends on is *)
(* lost, and that hands the frames it keeps out in order.  RtdDemuxer      *)
(* implements it; how buffers are pooled and which locks are taken is      *)
(* left out here.                                                          *)
(***************************************************************************)
EXTENDS Naturals, Sequences

CONSTANTS Capacity,
          Numbers   \* how many numbers tell frames apart

VARIABLES sent,     \* the number of the last frame the decoder delivered
          chan,     \* the frames kept and not yet read
          got,      \* the number of the last frame read
          broken    \* a frame was lost: wait for a key frame

vars == <<sent, chan, got, broken>>

Init == sent = 0 /\ chan = << >> /\ got = 0 /\ broken = FALSE

Following == IF sent = Numbers THEN 1 ELSE sent + 1

Keep(key) ==
  /\ Len(chan) < Capacity
  /\ broken => key
  /\ chan' = Append(chan, [seq |-> Following, key |-> key])
  /\ sent' = Following
  /\ broken' = FALSE
  /\ UNCHANGED got

Lose(key) ==
  /\ Len(chan) = Capacity \/ (broken /\ ~key)
  /\ sent' = Following
  /\ broken' = TRUE
  /\ UNCHANGED <<chan, got>>

\* Frames before the lost one may be given up too.
Flush ==
  /\ broken
  /\ chan' = << >>
  /\ UNCHANGED <<sent, got, broken>>

Read ==
  /\ chan # << >>
  /\ got' = Head(chan).seq
  /\ chan' = Tail(chan)
  /\ UNCHANGED <<sent, broken>>

Next == (\E key \in BOOLEAN : Keep(key) \/ Lose(key)) \/ Flush \/ Read

Spec == Init /\ [][Next]_vars

=============================================================================
