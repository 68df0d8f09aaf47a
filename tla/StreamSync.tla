----------------------------- MODULE StreamSync -----------------------------
(***************************************************************************)
(* StreamSynchronization (stream_synchronization.cc): from how far audio   *)
(* and video are apart, the delays to ask of each.  Its state is           *)
(*   [avg, audio |-> [extra, last], video |-> [extra, last]]               *)
(* and ComputeDelays moves at most one of the two streams at a time.       *)
(***************************************************************************)
EXTENDS Integers, FiniteSetsExt

CONSTANTS BaseTarget,      \* base_target_delay_ms_ = kBaseTargetDelayMs
          MaxChange,       \* kMaxChangeMs
          MaxDeltaDelay,   \* kMaxDeltaDelayMs
          FilterLength,    \* kFilterLength
          MinDelta         \* kMinDeltaMs

\* The division of C++, which drops the fraction.
Quotient(n, d) == IF n >= 0 THEN n \div d ELSE -((-n) \div d)

\* SetTargetBufferingDelay(kBaseTargetDelayMs) adds the difference to a base that is
\* already that, so both streams start from 0.
NewStreamSync == [avg |-> 0, audio |-> [extra |-> 0, last |-> 0], video |-> [extra |-> 0, last |-> 0]]

IsRelativeDelay(relative) == -MaxDeltaDelay =< relative /\ relative =< MaxDeltaDelay

Average(s, diff) == Quotient((FilterLength - 1) * s.avg + diff, FilterLength)

Moves(s, diff) == Average(s, diff) >= MinDelta \/ Average(s, diff) =< -MinDelta

\* Mutant: the correction is not cut.
CorrectionUncut(s, diff) == Quotient(Average(s, diff), 2)

\* diff_ms: half of the average, cut at MaxChange.
Correction(s, diff) == Max({Min({Quotient(Average(s, diff), 2), MaxChange}), -MaxChange})

\* The extra delay of each stream after the correction c: what one stream has in
\* excess goes first, then the other gets more.
AudioExtra(s, c) ==
  IF c > 0 THEN IF s.video.extra > BaseTarget THEN BaseTarget ELSE s.audio.extra + c
  ELSE IF s.audio.extra > BaseTarget THEN s.audio.extra + c ELSE BaseTarget

VideoExtra(s, c) ==
  Max({BaseTarget,
       IF c > 0 THEN IF s.video.extra > BaseTarget THEN s.video.extra - c ELSE BaseTarget
       ELSE IF s.audio.extra > BaseTarget THEN BaseTarget ELSE s.video.extra - c})

NewDelay(extra, last) ==
  LET delay == IF extra > BaseTarget THEN extra ELSE last
  IN [extra |-> extra, last |-> Min({Max({delay, extra}), BaseTarget + MaxDeltaDelay})]

\* ComputeDelays: the targets are the new audio.last and video.last.
ComputeDelays(s, diff) ==
  LET c == Correction(s, diff)
  IN IF Moves(s, diff)
       THEN [avg   |-> 0,
             audio |-> NewDelay(AudioExtra(s, c), s.audio.last),
             video |-> NewDelay(VideoExtra(s, c), s.video.last)]
       ELSE [s EXCEPT !.avg = Average(s, diff)]

ReduceAudioDelay(s) == [s EXCEPT !.audio.extra = Quotient(@ * 9, 10)]

=============================================================================
