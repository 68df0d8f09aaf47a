--------------------------- MODULE AvSync_proofs ---------------------------
(***************************************************************************)
(* Proofs about the loop that keeps audio and video together.              *)
(*                                                                         *)
(* That a correction is small and moves one stream is no property of one   *)
(* call: it holds because at most one stream has an extra delay above its  *)
(* base, because the target of that stream is this delay, up to the cap    *)
(* and the tenth that a refusal takes, and because the target of a stream  *)
(* without one has come back to within a correction of the base.           *)
(***************************************************************************)
EXTENDS AvSync, TLAPS

\* The cap of the targets, and what a refused audio delay loses of one.
Cap == BaseTarget + MaxDeltaDelay
Tenth == (Cap + 9) \div 10

OneExtra(s) == s.audio.extra <= BaseTarget \/ s.video.extra <= BaseTarget

\* d.last follows d.extra, but for what a refusal has taken.
Follows(d, taken) ==
  IF d.extra > BaseTarget
  THEN /\ d.last <= d.extra + taken
       /\ d.extra <= d.last \/ d.last = Cap
  ELSE d.last <= BaseTarget + MaxChange + taken

Delay == [extra : Int, last : 0 .. Cap]
Averages == -MinDelta + 1 .. MinDelta - 1
Synchronizers == [avg : Averages, audio : Delay, video : Delay]

InStep(s) == OneExtra(s) /\ Follows(s.audio, Tenth) /\ Follows(s.video, 0)

Manager == [received : BOOLEAN, len : 0 .. MaxBase, target : 0 .. MaxBase,
            base : 0 .. MaxBase, effective : 0 .. MaxBase, minimum : 0 .. MaxBase]
Requests == [frame : Int, base : Int, syncable : Int]
Timings == [min : Nat, max : Nat, jitter : Nat, current : Int]

Types ==
  /\ configured \in BOOLEAN /\ fresh \subseteq Streams
  /\ sync \in Synchronizers
  /\ net \in [offset : Offsets, level : Levels, jitter : Jitters]
  /\ dm \in Manager
  /\ buffered \in 0 .. MaxBase /\ lag \in 0 .. MaxLag
  /\ asked \in Requests
  /\ timing \in Timings
  /\ upsets \in 0 .. MaxUpsets

IInv == Types /\ InStep(sync)

-----------------------------------------------------------------------------
(* The greatest and the least of two. *)

LEMMA PairMax ==
  ASSUME NEW a \in Int, NEW b \in Int
  PROVE  Max({a, b}) = IF a >= b THEN a ELSE b
<1>1. PICK x \in {a, b} : \A y \in {a, b} : x >= y
  OBVIOUS
<1>2. Max({a, b}) \in {a, b} /\ \A y \in {a, b} : Max({a, b}) >= y
  BY <1>1 DEF Max
<1> QED
  BY <1>2

LEMMA PairMin ==
  ASSUME NEW a \in Int, NEW b \in Int
  PROVE  Min({a, b}) = IF a <= b THEN a ELSE b
<1>1. PICK x \in {a, b} : \A y \in {a, b} : x <= y
  OBVIOUS
<1>2. Min({a, b}) \in {a, b} /\ \A y \in {a, b} : Min({a, b}) <= y
  BY <1>1 DEF Min
<1> QED
  BY <1>2

\* The instances have operators of their own of the same name.
LEMMA InstancePairs ==
  ASSUME NEW a \in Int, NEW b \in Int
  PROVE  /\ S!Max({a, b}) = IF a >= b THEN a ELSE b
         /\ S!Min({a, b}) = IF a <= b THEN a ELSE b
         /\ M!Max({a, b}) = IF a >= b THEN a ELSE b
         /\ M!Min({a, b}) = IF a <= b THEN a ELSE b
<1>1. S!Max({a, b}) = Max({a, b}) /\ M!Max({a, b}) = Max({a, b})
  BY DEF S!Max, M!Max, Max
<1>2. S!Min({a, b}) = Min({a, b}) /\ M!Min({a, b}) = Min({a, b})
  BY DEF S!Min, M!Min, Min
<1> QED
  BY <1>1, <1>2, PairMax, PairMin

LEMMA TripleMax ==
  ASSUME NEW a \in Int, NEW b \in Int, NEW c \in Int
  PROVE  Max({a, b, c}) \in Int
<1>1. PICK x \in {a, b, c} : \A y \in {a, b, c} : x >= y
  OBVIOUS
<1>2. Max({a, b, c}) \in {a, b, c}
  BY <1>1 DEF Max
<1> QED
  BY <1>2

-----------------------------------------------------------------------------
(* The constants. *)

LEMMA Limits ==
  /\ BaseTarget \in Nat /\ MaxChange \in Nat /\ MaxDeltaDelay \in Nat
  /\ FilterLength \in Nat \ {0} /\ MinDelta \in Nat \ {0}
  /\ MaxBase \in Nat /\ StartDelay \in 0 .. MaxBase /\ DefaultBase \in 0 .. MaxBase
  /\ MinBase \in Nat /\ MaxPacketsInBuffer \in Nat /\ RenderDelay \in Nat
  /\ DefaultMinPlayout \in Nat /\ DefaultMaxPlayout \in Nat /\ MaxMinPlayout \in Nat
  /\ MaxVideoDelay \in Nat /\ PacketLength \in 0 .. MaxBase /\ MaxUpsets \in Nat /\ MaxLag \in Nat
  /\ Levels \subseteq 0 .. MaxBase /\ Jitters \subseteq Nat
  /\ Offsets \subseteq Int /\ Lateness \subseteq Int /\ BaseMinimums \subseteq Int
  BY AvSyncAssumption

LEMMA CapIs ==
  /\ Cap \in Nat /\ Cap = BaseTarget + MaxDeltaDelay
  /\ Tenth \in Nat /\ 10 * Tenth >= Cap /\ Tenth = (BaseTarget + MaxDeltaDelay + 9) \div 10
  BY Limits DEF Cap, Tenth

LEMMA QuotientInt ==
  ASSUME NEW n \in Int, NEW d \in Nat \ {0}
  PROVE  S!Quotient(n, d) \in Int
<1>1. n \div d \in Int /\ (-n) \div d \in Int
  OBVIOUS
<1> QED
  BY <1>1 DEF S!Quotient

-----------------------------------------------------------------------------
(* The synchronizer: what a correction does to each stream. *)

LEMMA AverageInt ==
  ASSUME NEW s, s.avg \in Int, NEW diff \in Int
  PROVE  S!Average(s, diff) \in Int
<1>1. (FilterLength - 1) * s.avg + diff \in Int
  BY Limits
<1> QED
  BY <1>1, QuotientInt, Limits DEF S!Average

LEMMA CorrectionIsSmall ==
  ASSUME NEW s, s.avg \in Int, NEW diff \in Int
  PROVE  S!Correction(s, diff) \in -MaxChange .. MaxChange
<1> DEFINE half == S!Quotient(S!Average(s, diff), 2)
           least == S!Min({half, MaxChange})
<1>1. half \in Int
  BY AverageInt, QuotientInt
<1>2. least \in Int /\ least <= MaxChange
  <2>1. S!Min({half, MaxChange}) = IF half <= MaxChange THEN half ELSE MaxChange
    <3> HIDE DEF half
    <3>1. MaxChange \in Int
      BY Limits
    <3> QED
      BY <1>1, <3>1, InstancePairs
  <2> QED
    BY <1>1, <2>1, Limits
<1>3. S!Correction(s, diff) = IF least >= -MaxChange THEN least ELSE -MaxChange
  <2>1. S!Correction(s, diff) = S!Max({least, -MaxChange})
    BY DEF S!Correction
  <2>2. -MaxChange \in Int
    BY Limits
  <2> HIDE DEF least
  <2> QED
    BY <1>2, <2>1, <2>2, InstancePairs
<1> QED
  BY <1>2, <1>3, Limits

LEMMA NewDelayIs ==
  ASSUME NEW extra \in Int, NEW last \in 0 .. Cap
  PROVE  LET d == S!NewDelay(extra, last)
         IN /\ d \in Delay /\ d.extra = extra
            /\ extra > BaseTarget => d.last = IF extra > Cap THEN Cap ELSE extra
            /\ extra <= BaseTarget => d.last = IF extra > last THEN extra ELSE last
<1> DEFINE delay == IF extra > BaseTarget THEN extra ELSE last
           most == IF delay >= extra THEN delay ELSE extra
           capped == IF most <= Cap THEN most ELSE Cap
<1>1. delay \in Int /\ most \in Int /\ last \in Int
  BY CapIs
<1>2. S!Max({delay, extra}) = most
  <2> HIDE DEF delay
  <2> QED
    BY <1>1, InstancePairs
<1>3. S!Min({most, Cap}) = capped
  <2>1. Cap \in Int
    BY CapIs
  <2> HIDE DEF most
  <2> QED
    BY <1>1, <2>1, InstancePairs
<1>4. S!NewDelay(extra, last) = [extra |-> extra, last |-> capped]
  BY <1>2, <1>3, CapIs DEF S!NewDelay
<1>5. capped \in 0 .. Cap
  BY CapIs, Limits
<1>6. extra > BaseTarget => capped = IF extra > Cap THEN Cap ELSE extra
  BY CapIs
<1>7. extra <= BaseTarget => capped = IF extra > last THEN extra ELSE last
  BY CapIs, Limits
<1> HIDE DEF capped
<1> QED
  BY <1>4, <1>5, <1>6, <1>7 DEF Delay

\* A correction c of the audio, or of the video, whose target follows its extra delay.
LEMMA StepIsSmall ==
  ASSUME NEW d \in Delay, NEW taken \in Nat, Follows(d, taken),
         NEW c \in -MaxChange .. MaxChange, NEW extra \in Int,
         \/ extra = d.extra + c
         \/ extra = BaseTarget /\ (d.extra <= BaseTarget \/ d.extra + c <= BaseTarget)
  PROVE  LET e == S!NewDelay(extra, d.last)
         IN /\ e \in Delay /\ e.extra = extra
            /\ Follows(e, taken)
            /\ e.extra > BaseTarget => e.last <= e.extra
            /\ d.last >= BaseTarget
                 => /\ e.last - d.last \in -MaxChange - taken .. MaxChange
                    /\ e.last # d.last => e.extra > BaseTarget
<1> DEFINE e == S!NewDelay(extra, d.last)
<1>1. d.last \in 0 .. Cap /\ d.extra \in Int
  BY DEF Delay
<1>2. /\ e \in Delay /\ e.extra = extra
      /\ extra > BaseTarget => e.last = IF extra > Cap THEN Cap ELSE extra
      /\ extra <= BaseTarget => e.last = IF extra > d.last THEN extra ELSE d.last
  BY <1>1, NewDelayIs
<1>3. e.last \in 0 .. Cap
  BY <1>2 DEF Delay
<1> HIDE DEF e
<1>4. Follows(e, taken)
  BY <1>1, <1>2, <1>3, CapIs, Limits DEF Follows
<1>5. e.extra > BaseTarget => e.last <= e.extra
  BY <1>2, <1>3, CapIs, Limits
<1>6. d.last >= BaseTarget => e.last - d.last \in -MaxChange - taken .. MaxChange
  BY <1>1, <1>2, <1>3, CapIs, Limits DEF Follows
<1>7. d.last >= BaseTarget => (e.last # d.last => e.extra > BaseTarget)
  BY <1>1, <1>2, <1>3, CapIs, Limits
<1> QED
  BY <1>2, <1>4, <1>5, <1>6, <1>7 DEF e

\* A move from s to t that SmallSteps and OneAtATime allow.
Careful(s, t) ==
  /\ s.audio.last >= BaseTarget => t.audio.last - s.audio.last \in -MaxChange - Tenth .. MaxChange
  /\ s.video.last >= BaseTarget => t.video.last - s.video.last \in -MaxChange .. MaxChange
  /\ s.audio.last >= BaseTarget /\ s.video.last >= BaseTarget
       => t.audio.last = s.audio.last \/ t.video.last = s.video.last

\* The correction goes to one stream, and the other comes back to the base.
LEMMA CorrectionOfOne ==
  ASSUME NEW s \in Synchronizers, InStep(s), NEW c \in -MaxChange .. MaxChange
  PROVE  LET audioTo == S!AudioExtra(s, c)
             videoTo == S!VideoExtra(s, c)
         IN /\ audioTo \in Int /\ videoTo \in Int
            /\ audioTo <= BaseTarget \/ videoTo <= BaseTarget
            /\ \/ audioTo = s.audio.extra + c
               \/ audioTo = BaseTarget /\ s.audio.extra <= BaseTarget
            /\ \/ videoTo = s.video.extra - c
               \/ videoTo = BaseTarget /\ (s.video.extra <= BaseTarget \/ s.video.extra - c <= BaseTarget)
<1> DEFINE a == s.audio.extra
           v == s.video.extra
           wanted == IF c > 0 THEN IF v > BaseTarget THEN v - c ELSE BaseTarget
                     ELSE IF a > BaseTarget THEN BaseTarget ELSE v - c
<1>1. a \in Int /\ v \in Int /\ c \in Int /\ BaseTarget \in Int
  BY Limits DEF Synchronizers, Delay
<1>2. a <= BaseTarget \/ v <= BaseTarget
  BY DEF InStep, OneExtra
<1>3. S!AudioExtra(s, c) = IF c > 0 THEN IF v > BaseTarget THEN BaseTarget ELSE a + c
                           ELSE IF a > BaseTarget THEN a + c ELSE BaseTarget
  BY DEF S!AudioExtra
<1>4. S!VideoExtra(s, c) = IF BaseTarget >= wanted THEN BaseTarget ELSE wanted
  <2>1. wanted \in Int
    BY <1>1
  <2>2. S!VideoExtra(s, c) = S!Max({BaseTarget, wanted})
    BY DEF S!VideoExtra
  <2> HIDE DEF wanted
  <2> QED
    BY <1>1, <2>1, <2>2, InstancePairs
<1> HIDE DEF a, v
<1>5. S!AudioExtra(s, c) \in Int /\ S!VideoExtra(s, c) \in Int
  BY <1>1, <1>3, <1>4
<1>6. S!AudioExtra(s, c) <= BaseTarget \/ S!VideoExtra(s, c) <= BaseTarget
  BY <1>1, <1>2, <1>3, <1>4
<1>7. \/ S!AudioExtra(s, c) = a + c
      \/ S!AudioExtra(s, c) = BaseTarget /\ a <= BaseTarget
  BY <1>1, <1>2, <1>3
<1>8. \/ S!VideoExtra(s, c) = v - c
      \/ S!VideoExtra(s, c) = BaseTarget /\ (v <= BaseTarget \/ v - c <= BaseTarget)
  BY <1>1, <1>2, <1>4
<1> QED
  BY <1>5, <1>6, <1>7, <1>8 DEF a, v

LEMMA ComputeKeeps ==
  ASSUME NEW s \in Synchronizers, InStep(s), NEW diff \in Int
  PROVE  LET t == S!ComputeDelays(s, diff)
         IN /\ t \in Synchronizers /\ InStep(t) /\ Careful(s, t)
            /\ S!Moves(s, diff) => (t.audio.extra > BaseTarget => t.audio.last <= t.audio.extra)
<1>1. s.avg \in Int /\ S!Average(s, diff) \in Int
  <2>1. s.avg \in Int
    BY Limits DEF Synchronizers, Averages
  <2> QED
    BY <2>1, AverageInt
<1>2. CASE S!Moves(s, diff)
  <2> DEFINE c == S!Correction(s, diff)
             a == S!NewDelay(S!AudioExtra(s, c), s.audio.last)
             v == S!NewDelay(S!VideoExtra(s, c), s.video.last)
             t == [avg |-> 0, audio |-> a, video |-> v]
  <2>1. c \in -MaxChange .. MaxChange /\ -c \in -MaxChange .. MaxChange
    BY <1>1, CorrectionIsSmall, Limits
  <2> HIDE DEF c
  <2>2. S!ComputeDelays(s, diff) = t
    BY <1>2 DEF S!ComputeDelays, c
  <2>3. /\ S!AudioExtra(s, c) \in Int /\ S!VideoExtra(s, c) \in Int
        /\ S!AudioExtra(s, c) <= BaseTarget \/ S!VideoExtra(s, c) <= BaseTarget
        /\ \/ S!AudioExtra(s, c) = s.audio.extra + c
           \/ S!AudioExtra(s, c) = BaseTarget /\ s.audio.extra <= BaseTarget
        /\ \/ S!VideoExtra(s, c) = s.video.extra - c
           \/ /\ S!VideoExtra(s, c) = BaseTarget
              /\ s.video.extra <= BaseTarget \/ s.video.extra - c <= BaseTarget
    BY <2>1, CorrectionOfOne
  <2>4. s.audio \in Delay /\ s.video \in Delay /\ Follows(s.audio, Tenth) /\ Follows(s.video, 0)
    BY DEF Synchronizers, InStep
  <2>5. Tenth \in Nat
    BY CapIs
  <2>6. /\ a \in Delay /\ a.extra = S!AudioExtra(s, c)
        /\ Follows(a, Tenth)
        /\ a.extra > BaseTarget => a.last <= a.extra
        /\ s.audio.last >= BaseTarget
             => /\ a.last - s.audio.last \in -MaxChange - Tenth .. MaxChange
                /\ a.last # s.audio.last => a.extra > BaseTarget
    BY <2>1, <2>3, <2>4, <2>5, StepIsSmall
  <2>7. s.video.extra + (-c) = s.video.extra - c
    BY <2>1, <2>4, Limits DEF Delay
  <2>8. /\ v \in Delay /\ v.extra = S!VideoExtra(s, c)
        /\ Follows(v, 0)
        /\ v.extra > BaseTarget => v.last <= v.extra
        /\ s.video.last >= BaseTarget
             => /\ v.last - s.video.last \in -MaxChange - 0 .. MaxChange
                /\ v.last # s.video.last => v.extra > BaseTarget
    BY <2>1, <2>3, <2>4, <2>7, StepIsSmall
  <2>9. -MaxChange - 0 = -MaxChange
    BY Limits
  <2> HIDE DEF a, v
  <2>10. t \in Synchronizers
    BY <2>6, <2>8, Limits DEF Synchronizers, Averages
  <2>11. a.extra <= BaseTarget \/ v.extra <= BaseTarget
    BY <2>3, <2>6, <2>8
  <2>12. InStep(t)
    BY <2>6, <2>8, <2>11 DEF InStep, OneExtra
  <2>13. ~(a.extra > BaseTarget /\ v.extra > BaseTarget)
    BY <2>3, <2>6, <2>8, <2>11, Limits
  <2>14. Careful(s, t)
    BY <2>6, <2>8, <2>9, <2>13 DEF Careful
  <2> QED
    BY <2>2, <2>6, <2>10, <2>12, <2>14
<1>3. CASE ~S!Moves(s, diff)
  <2> DEFINE t == [s EXCEPT !.avg = S!Average(s, diff)]
  <2>1. S!ComputeDelays(s, diff) = t
    BY <1>3 DEF S!ComputeDelays
  <2>2. S!Average(s, diff) \in Averages
    BY <1>1, <1>3, Limits DEF S!Moves, Averages
  <2>3. t \in Synchronizers /\ t.audio = s.audio /\ t.video = s.video
    BY <2>2 DEF Synchronizers
  <2>4. InStep(t)
    BY <2>3 DEF InStep, OneExtra
  <2>5. s.audio.last \in Int /\ s.video.last \in Int
    BY CapIs DEF Synchronizers, Delay
  <2> HIDE DEF t
  <2>6. Careful(s, t)
    BY <2>3, <2>5, Limits, CapIs DEF Careful
  <2> QED
    BY <1>3, <2>1, <2>3, <2>4, <2>6
<1> QED
  BY <1>2, <1>3

\* A refused delay loses a tenth; its target does not, until the next correction.
LEMMA ReduceKeeps ==
  ASSUME NEW s \in Synchronizers, InStep(s), s.audio.extra > BaseTarget => s.audio.last <= s.audio.extra
  PROVE  LET t == S!ReduceAudioDelay(s)
         IN /\ t \in Synchronizers /\ InStep(t)
            /\ t.audio.last = s.audio.last /\ t.video.last = s.video.last
<1> DEFINE e == s.audio.extra
           l == s.audio.last
           f == S!Quotient(e * 9, 10)
           d == [extra |-> f, last |-> l]
           t == S!ReduceAudioDelay(s)
<1>1. e \in Int /\ l \in 0 .. Cap /\ l \in Int
  BY CapIs DEF Synchronizers, Delay
<1> HIDE DEF e, l
<1>2. f \in Int /\ (e >= 0 => 10 * f <= 9 * e /\ 9 * e < 10 * f + 10) /\ (e < 0 => f <= 0)
  BY <1>1 DEF S!Quotient
<1> HIDE DEF f
<1>3. t = [s EXCEPT !.audio = d]
  BY DEF S!ReduceAudioDelay, Synchronizers, Delay, d, e, l, f
<1>4. d \in Delay
  BY <1>1, <1>2 DEF Delay
<1> HIDE DEF t
<1>5. t \in Synchronizers /\ t.audio = d /\ t.video = s.video
  BY <1>3, <1>4 DEF Synchronizers
<1>6. f <= BaseTarget \/ s.video.extra <= BaseTarget
  <2>1. CASE e <= BaseTarget
    BY <1>1, <1>2, <2>1, Limits
  <2>2. CASE ~(e <= BaseTarget)
    BY <2>2 DEF InStep, OneExtra, e
  <2> QED
    BY <2>1, <2>2
<1>7. Follows([extra |-> e, last |-> l], Tenth) /\ (e > BaseTarget => l <= e)
  BY DEF InStep, Follows, e, l
<1>8. Follows(d, Tenth)
  BY <1>1, <1>2, <1>7, CapIs, Limits DEF Follows
<1>9. InStep(t)
  BY <1>5, <1>6, <1>8 DEF InStep, OneExtra
<1> QED
  BY <1>5, <1>9 DEF t, l

-----------------------------------------------------------------------------
(* The delay manager of the audio keeps its delays within its limits. *)

LEMMA BoundType ==
  ASSUME NEW d \in Manager
  PROVE  M!ThreeQuarters(d) \in Nat /\ M!MinimumDelayUpperBound(d) \in 0 .. MaxBase
<1> DEFINE product == MaxPacketsInBuffer * d.len
<1>1. product \in Nat
  <2>1. d.len \in Nat /\ MaxPacketsInBuffer \in Nat
    BY Limits DEF Manager
  <2> QED
    BY <2>1
<1>2. M!ThreeQuarters(d) = (product * 3) \div 4
  BY DEF M!ThreeQuarters
<1> HIDE DEF product
<1>3. M!ThreeQuarters(d) \in Nat
  BY <1>1, <1>2
<1>4. M!Min({MaxBase, M!ThreeQuarters(d)}) \in 0 .. MaxBase
  <2>1. MaxBase \in Int /\ M!ThreeQuarters(d) \in Int
    BY <1>3, Limits
  <2>2. M!Min({MaxBase, M!ThreeQuarters(d)})
          = IF MaxBase <= M!ThreeQuarters(d) THEN MaxBase ELSE M!ThreeQuarters(d)
    BY <2>1, InstancePairs
  <2> QED
    BY <1>3, <2>2, Limits
<1> QED
  BY <1>3, <1>4, Limits DEF M!MinimumDelayUpperBound

LEMMA EffectiveKeeps ==
  ASSUME NEW d \in Manager
  PROVE  M!UpdateEffectiveMinimumDelay(d) \in Manager
<1> DEFINE bound == M!MinimumDelayUpperBound(d)
           least == M!Min({d.base, bound})
           effective == M!Max({d.minimum, least})
<1>1. /\ d.base \in 0 .. MaxBase /\ d.minimum \in 0 .. MaxBase
      /\ d.base \in Int /\ d.minimum \in Int
  BY Limits DEF Manager
<1>2. bound \in 0 .. MaxBase /\ bound \in Int
  BY BoundType, Limits
<1> HIDE DEF bound
<1>3. least = IF d.base <= bound THEN d.base ELSE bound
  BY <1>1, <1>2, InstancePairs
<1>4. least \in 0 .. MaxBase /\ least \in Int
  BY <1>1, <1>2, <1>3
<1> HIDE DEF least
<1>5. effective = IF d.minimum >= least THEN d.minimum ELSE least
  BY <1>1, <1>4, InstancePairs
<1>6. effective \in 0 .. MaxBase
  BY <1>1, <1>4, <1>5
<1>7. M!UpdateEffectiveMinimumDelay(d) = [d EXCEPT !.effective = effective]
  BY DEF M!UpdateEffectiveMinimumDelay, least, bound
<1> HIDE DEF effective
<1> QED
  BY <1>6, <1>7 DEF Manager

LEMMA MinimumKeeps ==
  ASSUME NEW d \in Manager, NEW delay \in Int
  PROVE  M!SetMinimumDelay(d, delay) \in Manager
<1>1. CASE M!IsValidMinimumDelay(d, delay)
  <2> DEFINE minimum == M!Max({delay, d.base})
             e == [d EXCEPT !.minimum = minimum]
  <2>1. delay \in 0 .. MaxBase /\ d.base \in 0 .. MaxBase /\ d.base \in Int
    BY <1>1, BoundType, Limits DEF M!IsValidMinimumDelay, Manager
  <2>2. minimum = IF delay >= d.base THEN delay ELSE d.base
    BY <2>1, InstancePairs
  <2>3. minimum \in 0 .. MaxBase
    BY <2>1, <2>2
  <2>4. M!SetMinimumDelay(d, delay) = M!UpdateEffectiveMinimumDelay(e)
    BY <1>1 DEF M!SetMinimumDelay
  <2> HIDE DEF minimum
  <2>5. e \in Manager
    BY <2>3 DEF Manager
  <2> HIDE DEF e
  <2> QED
    BY <2>4, <2>5, EffectiveKeeps
<1>2. CASE ~M!IsValidMinimumDelay(d, delay)
  BY <1>2 DEF M!SetMinimumDelay
<1> QED
  BY <1>1, <1>2

LEMMA BaseMinimumKeeps ==
  ASSUME NEW d \in Manager, NEW delay \in Int
  PROVE  M!SetBaseMinimumDelay(d, delay) \in Manager
<1> DEFINE e == [d EXCEPT !.base = delay]
<1>1. CASE M!IsValidBaseMinimumDelay(delay)
  <2>1. delay \in 0 .. MaxBase
    BY <1>1, Limits DEF M!IsValidBaseMinimumDelay
  <2>2. e \in Manager
    BY <2>1 DEF Manager
  <2>3. M!SetBaseMinimumDelay(d, delay) = M!UpdateEffectiveMinimumDelay(e)
    BY <1>1 DEF M!SetBaseMinimumDelay
  <2> HIDE DEF e
  <2> QED
    BY <2>2, <2>3, EffectiveKeeps
<1>2. CASE ~M!IsValidBaseMinimumDelay(delay)
  BY <1>2 DEF M!SetBaseMinimumDelay
<1> QED
  BY <1>1, <1>2

LEMMA UpdateKeeps ==
  ASSUME NEW d \in Manager, NEW level \in 0 .. MaxBase
  PROVE  M!Update(d, level) \in Manager
<1> DEFINE wanted == M!Max({level, d.effective})
           longest == M!Max({wanted, d.len})
           held == M!Min({longest, M!ThreeQuarters(d)})
           target == IF d.len > 0 THEN held ELSE wanted
<1>1. /\ d.effective \in 0 .. MaxBase /\ d.len \in 0 .. MaxBase /\ MaxBase \in Nat
      /\ level \in Int /\ d.effective \in Int /\ d.len \in Int
      /\ M!ThreeQuarters(d) \in Nat /\ M!ThreeQuarters(d) \in Int
  BY BoundType, Limits DEF Manager
<1>2. wanted \in 0 .. MaxBase /\ wanted \in Int
  <2>1. wanted = IF level >= d.effective THEN level ELSE d.effective
    BY <1>1, InstancePairs
  <2> QED
    BY <1>1, <2>1
<1> HIDE DEF wanted
<1>3. longest \in 0 .. MaxBase /\ longest \in Int
  <2>1. longest = IF wanted >= d.len THEN wanted ELSE d.len
    BY <1>1, <1>2, InstancePairs
  <2> QED
    BY <1>1, <1>2, <2>1
<1> HIDE DEF longest
<1>4. held \in 0 .. MaxBase
  <2>1. held = IF longest <= M!ThreeQuarters(d) THEN longest ELSE M!ThreeQuarters(d)
    BY <1>1, <1>3, InstancePairs
  <2> QED
    BY <1>1, <1>3, <2>1
<1>5. d.received => M!Update(d, level) = [d EXCEPT !.target = target]
  BY DEF M!Update, wanted, longest
<1> HIDE DEF held
<1>6. target \in 0 .. MaxBase
  BY <1>2, <1>4
<1> HIDE DEF target
<1>7. CASE d.received
  BY <1>5, <1>6, <1>7 DEF Manager
<1>8. CASE ~d.received
  <2>1. M!Update(d, level) = [d EXCEPT !.received = TRUE]
    BY <1>8 DEF M!Update
  <2> QED
    BY <2>1 DEF Manager
<1> QED
  BY <1>7, <1>8

LEMMA ArrivedKeeps ==
  ASSUME NEW d \in Manager, net.level \in 0 .. MaxBase
  PROVE  Arrived(d) \in Manager
<1> DEFINE e == M!SetPacketAudioLength(d, PacketLength)
<1>1. e \in Manager
  BY Limits DEF M!SetPacketAudioLength, Manager
<1> HIDE DEF e
<1>2. Arrived(d) = M!Update(e, net.level)
  BY DEF Arrived, e
<1> QED
  BY <1>1, <1>2, UpdateKeeps

LEMMA ResetKeeps ==
  ASSUME NEW d \in Manager
  PROVE  M!Reset(d) \in Manager
<1>1. StartDelay \in 0 .. MaxBase /\ 0 \in 0 .. MaxBase
  BY Limits
<1> QED
  BY <1>1 DEF M!Reset, Manager

-----------------------------------------------------------------------------
(* The delays of the video and the requests. *)

LEMMA TargetInt ==
  ASSUME NEW t \in Timings
  PROVE  TargetDelayInternal(t) \in Int
<1>1. t.min \in Int /\ t.jitter + RenderDelay \in Int
  BY Limits DEF Timings
<1> QED
  BY <1>1, PairMax DEF TargetDelayInternal

LEMMA PlayoutKeeps ==
  ASSUME NEW t \in Timings, NEW a \in Requests, NEW max \in Int
  PROVE  UpdatePlayoutDelays(t, a, max) \in Timings
<1> DEFINE min == Max({a.frame, a.base, a.syncable})
<1>1. min \in Int
  BY TripleMax DEF Requests
<1> DEFINE least == IF min >= 0 THEN min ELSE t.min
           most == IF max >= 0 THEN max ELSE t.max
<1>2. UpdatePlayoutDelays(t, a, max) = [t EXCEPT !.min = least, !.max = most]
  BY DEF UpdatePlayoutDelays
<1>3. least \in Nat /\ most \in Nat
  <2> HIDE DEF min
  <2> QED
    BY <1>1 DEF Timings
<1> HIDE DEF least, most
<1> QED
  BY <1>2, <1>3 DEF Timings

LEMMA ResetTimingKeeps ==
  ASSUME NEW t \in Timings
  PROVE  ResetTiming(t) \in Timings
<1>1. 0 \in Nat /\ 0 \in Int
  OBVIOUS
<1>2. [t EXCEPT !.min = 0, !.jitter = 0, !.current = 0] \in Timings
  BY <1>1, Zenon DEF Timings
<1> QED
  BY <1>2 DEF ResetTiming

LEMMA FrameKeeps ==
  ASSUME NEW t \in Timings, NEW jitter \in Nat, NEW delayed \in Int
  PROVE  UpdateCurrentDelay(SetJitterDelay(t, jitter), delayed) \in Timings
<1> DEFINE u == SetJitterDelay(t, jitter)
           current == Min({u.current + delayed, TargetDelayInternal(u)})
<1>1. u \in Timings
  <2> DEFINE c == IF jitter # t.jitter /\ t.current = 0 THEN jitter ELSE t.current
  <2>1. u = [t EXCEPT !.jitter = jitter, !.current = c]
    BY DEF SetJitterDelay
  <2>2. c \in Int
    BY DEF Timings
  <2> HIDE DEF c
  <2> QED
    BY <2>1, <2>2 DEF Timings
<1> HIDE DEF u
<1>2. current \in Int
  <2>1. u.current + delayed \in Int /\ TargetDelayInternal(u) \in Int
    BY <1>1, TargetInt DEF Timings
  <2> QED
    BY <2>1, PairMin
<1>3. UpdateCurrentDelay(u, delayed) = IF delayed < 0 THEN u ELSE [u EXCEPT !.current = current]
  BY DEF UpdateCurrentDelay
<1> HIDE DEF current
<1> QED
  BY <1>1, <1>2, <1>3 DEF Timings, u

LEMMA ClampedInt ==
  ASSUME NEW delay \in Int
  PROVE  Clamped(delay) \in Int
<1>1. Max({delay, 0}) \in Int /\ MaxMinPlayout \in Int
  BY PairMax, Limits
<1> HIDE DEF Max
<1> QED
  BY <1>1, PairMin DEF Clamped

-----------------------------------------------------------------------------
(* The invariant. *)

LEMMA InitKeeps == Init => IInv
<1> SUFFICES ASSUME Init PROVE IInv
  OBVIOUS
<1>1. 0 \in Averages /\ 0 \in 0 .. Cap /\ 0 \in Int /\ BaseTarget \in Nat /\ MaxChange \in Nat
  BY CapIs, Limits DEF Averages
<1>2. sync = [avg |-> 0, audio |-> [extra |-> 0, last |-> 0], video |-> [extra |-> 0, last |-> 0]]
  BY DEF Init, S!NewStreamSync
<1>3. sync \in Synchronizers
  BY <1>1, <1>2 DEF Synchronizers, Delay
<1>4. InStep(sync)
  <2>1. sync.audio = [extra |-> 0, last |-> 0] /\ sync.video = [extra |-> 0, last |-> 0]
    BY <1>2
  <2>2. Follows([extra |-> 0, last |-> 0], 0) /\ Follows([extra |-> 0, last |-> 0], Tenth)
    BY <1>1, CapIs DEF Follows
  <2> QED
    BY <1>1, <2>1, <2>2 DEF InStep, OneExtra
<1>5. dm \in Manager
  <2>1. StartDelay \in 0 .. MaxBase /\ DefaultBase \in 0 .. MaxBase /\ 0 \in 0 .. MaxBase
    BY Limits
  <2> QED
    BY <2>1 DEF Init, M!NewDelayManager, Manager
<1>6. timing \in Timings
  BY Limits DEF Init, NewTiming, Timings
<1>7. asked \in Requests
  BY DEF Init, Requests
<1>8. /\ configured \in BOOLEAN /\ fresh \subseteq Streams
      /\ net \in [offset : Offsets, level : Levels, jitter : Jitters]
  BY DEF Init
<1>9. buffered \in 0 .. MaxBase /\ lag \in 0 .. MaxLag /\ upsets \in 0 .. MaxUpsets
  BY Limits DEF Init
<1> QED
  BY <1>3, <1>4, <1>5, <1>6, <1>7, <1>8, <1>9 DEF IInv, Types

LEMMA NetType ==
  ASSUME IInv
  PROVE  net.offset \in Int /\ net.level \in 0 .. MaxBase /\ net.jitter \in Nat
<1>1. net.offset \in Offsets /\ net.level \in Levels /\ net.jitter \in Jitters
  BY DEF IInv, Types
<1> QED
  BY <1>1, Limits

LEMMA UpsetCounts ==
  ASSUME IInv, upsets' = upsets \/ Upset
  PROVE  upsets' \in 0 .. MaxUpsets
<1>1. upsets \in 0 .. MaxUpsets
  BY DEF IInv, Types
<1> QED
  BY <1>1, Limits DEF Upset

LEMMA StandingIsCareful ==
  ASSUME NEW s \in Synchronizers
  PROVE  Careful(s, s)
<1>1. s.audio.last \in Int /\ s.video.last \in Int
  BY CapIs DEF Synchronizers, Delay
<1> QED
  BY <1>1, CapIs, Limits DEF Careful

\* What every step keeps, and what it may do to the targets.
Kept == IInv' /\ (configured /\ configured' => Careful(sync, sync'))

\* A step that leaves the synchronizer alone.
LEMMA Elsewhere ==
  ASSUME IInv, sync' = sync, configured' = configured, Types'
  PROVE  Kept
<1>1. sync \in Synchronizers /\ InStep(sync)
  BY DEF IInv, Types
<1>2. Careful(sync, sync) /\ sync' = sync
  BY <1>1, StandingIsCareful
<1>3. Careful(sync, sync') /\ InStep(sync')
  BY <1>1, <1>2
<1>4. InStep(sync)'
  BY <1>3
<1> QED
  BY <1>3, <1>4 DEF Kept, IInv

LEMMA FramesKeep ==
  ASSUME IInv, OnCompleteFrame
  PROVE  Kept
<1>1. PICK d \in PlayoutDelays :
        /\ asked' = [asked EXCEPT !.frame = d[1]]
        /\ timing' = UpdatePlayoutDelays(timing, asked', d[2])
  BY DEF OnCompleteFrame
<1>2. d[1] \in Int /\ d[2] \in Int
  BY AvSyncAssumption
<1>3. asked' \in Requests
  BY <1>1, <1>2 DEF IInv, Types, Requests
<1>4. timing' \in Timings
  BY <1>1, <1>2, <1>3, PlayoutKeeps DEF IInv, Types
<1>5. upsets' \in 0 .. MaxUpsets
  BY UpsetCounts DEF OnCompleteFrame
<1> QED
  BY <1>3, <1>4, <1>5, Elsewhere DEF OnCompleteFrame, IInv, Types, audio

LEMMA BaseMinimumsKeep ==
  ASSUME IInv, SetBaseMinimumPlayoutDelayMs
  PROVE  Kept
<1>1. PICK d \in BaseMinimums :
       \/ /\ asked' = [asked EXCEPT !.base = d]
          /\ timing' = UpdatePlayoutDelays(timing, asked', -1)
          /\ dm' = dm
       \/ /\ dm' = M!SetBaseMinimumDelay(dm, d)
          /\ UNCHANGED video
  BY DEF SetBaseMinimumPlayoutDelayMs
<1>2. d \in Int /\ -1 \in Int
  BY Limits
<1>3. dm \in Manager /\ asked \in Requests /\ timing \in Timings
  BY DEF IInv, Types
<1>4. asked' \in Requests
  BY <1>1, <1>2, <1>3 DEF Requests, video
<1>5. timing' \in Timings
  BY <1>1, <1>2, <1>3, <1>4, PlayoutKeeps DEF video
<1>6. dm' \in Manager
  BY <1>1, <1>2, <1>3, BaseMinimumKeeps
<1>7. upsets' \in 0 .. MaxUpsets
  BY UpsetCounts DEF SetBaseMinimumPlayoutDelayMs
<1> QED
  BY <1>4, <1>5, <1>6, <1>7, Elsewhere DEF SetBaseMinimumPlayoutDelayMs, IInv, Types

LEMMA NextFrameKeeps ==
  ASSUME IInv, NEW delayed \in Int, NEW nacked \in BOOLEAN, NEW bad \in BOOLEAN,
         GetNextFrame(delayed, nacked, bad), upsets' \in 0 .. MaxUpsets
  PROVE  Kept
<1> DEFINE t == IF bad \/ TargetDelayInternal(timing) > MaxVideoDelay
                THEN ResetTiming(timing) ELSE timing
<1>1. timing \in Timings
  BY DEF IInv, Types
<1>2. t \in Timings
  <2>1. ResetTiming(timing) \in Timings
    BY <1>1, ResetTimingKeeps
  <2> QED
    BY <1>1, <2>1
<1> HIDE DEF t
<1>3. UpdateCurrentDelay(SetJitterDelay(t, net.jitter), delayed) \in Timings
  BY <1>2, NetType, FrameKeeps
<1>4. timing' = IF nacked THEN t ELSE UpdateCurrentDelay(SetJitterDelay(t, net.jitter), delayed)
  BY DEF GetNextFrame, t
<1>5. timing' \in Timings
  BY <1>2, <1>3, <1>4
<1> QED
  BY <1>5, Elsewhere DEF GetNextFrame, IInv, Types, audio

LEMMA DecodingKeeps ==
  ASSUME IInv, DecodeFrame
  PROVE  Kept
<1>1. ASSUME NEW delayed \in Lateness, NEW nacked \in BOOLEAN,
             GetNextFrame(delayed, nacked, FALSE), UNCHANGED upsets
      PROVE  Kept
  <2>1. delayed \in Int /\ FALSE \in BOOLEAN
    BY Limits
  <2>2. upsets' \in 0 .. MaxUpsets
    BY <1>1, UpsetCounts
  <2> QED
    BY <1>1, <2>1, <2>2, NextFrameKeeps
<1>2. ASSUME NEW nacked \in BOOLEAN, GetNextFrame(0, nacked, TRUE), Upset
      PROVE  Kept
  <2>1. upsets' \in 0 .. MaxUpsets
    BY <1>2, UpsetCounts
  <2>2. 0 \in Int /\ TRUE \in BOOLEAN
    OBVIOUS
  <2> QED
    BY <1>2, <2>1, <2>2, NextFrameKeeps
<1> QED
  BY <1>1, <1>2 DEF DecodeFrame

LEMMA AudioKeeps ==
  ASSUME IInv, ReceiveAudio \/ ReceiveVideo \/ Stretch \/ ChangeCodec
  PROVE  Kept
<1>1. dm \in Manager /\ dm.target \in 0 .. MaxBase /\ fresh \subseteq Streams
  BY DEF IInv, Types, Manager
<1>2. CASE ReceiveAudio
  <2>1. dm' \in Manager
    BY <1>1, <1>2, NetType, ArrivedKeeps DEF ReceiveAudio
  <2>2. fresh' \subseteq Streams
    BY <1>1, <1>2 DEF ReceiveAudio, Streams
  <2> QED
    BY <1>2, <2>1, <2>2, Elsewhere DEF ReceiveAudio, IInv, Types, video
<1>3. CASE ReceiveVideo
  <2>1. fresh' \subseteq Streams
    BY <1>1, <1>3 DEF ReceiveVideo, Streams
  <2> QED
    BY <1>3, <2>1, Elsewhere DEF ReceiveVideo, IInv, Types, audio, video
<1>4. CASE Stretch
  <2>1. buffered' \in 0 .. MaxBase
    BY <1>1, <1>4 DEF Stretch
  <2>2. lag' \in 0 .. MaxLag
    BY <1>4, Limits DEF Stretch
  <2> QED
    BY <1>4, <2>1, <2>2, Elsewhere DEF Stretch, IInv, Types, video
<1>5. CASE ChangeCodec
  <2>1. dm' \in Manager
    BY <1>1, <1>5, ResetKeeps DEF ChangeCodec
  <2>2. upsets' \in 0 .. MaxUpsets
    BY <1>5, UpsetCounts DEF ChangeCodec
  <2> QED
    BY <1>5, <2>1, <2>2, Elsewhere DEF ChangeCodec, IInv, Types, video
<1> QED
  BY <1>2, <1>3, <1>4, <1>5

LEMMA NetworkKeeps ==
  ASSUME IInv, NetworkChanges
  PROVE  Kept
<1>1. net' \in [offset : Offsets, level : Levels, jitter : Jitters]
  BY DEF NetworkChanges
<1>2. upsets' \in 0 .. MaxUpsets
  BY UpsetCounts DEF NetworkChanges
<1> QED
  BY <1>1, <1>2, Elsewhere DEF NetworkChanges, IInv, Types, audio, video

LEMMA ConfigureKeeps ==
  ASSUME IInv, ConfigureSync
  PROVE  Kept
<1>1. sync' = S!NewStreamSync /\ configured' = ~configured
  BY DEF ConfigureSync
<1>2. upsets' \in 0 .. MaxUpsets
  BY UpsetCounts DEF ConfigureSync
<1>3. sync' \in Synchronizers /\ InStep(sync')
  <2> DEFINE new == [extra |-> 0, last |-> 0]
  <2>1. 0 \in Averages /\ 0 \in 0 .. Cap /\ 0 \in Int /\ BaseTarget \in Nat /\ MaxChange \in Nat
    BY CapIs, Limits DEF Averages
  <2>2. sync' = [avg |-> 0, audio |-> new, video |-> new]
    BY <1>1 DEF S!NewStreamSync
  <2>3. new \in Delay
    BY <2>1 DEF Delay
  <2>4. Follows(new, 0) /\ Follows(new, Tenth) /\ new.extra <= BaseTarget
    BY <2>1, CapIs DEF Follows
  <2> HIDE DEF new
  <2>5. sync' \in Synchronizers /\ sync'.audio = new /\ sync'.video = new
    BY <2>1, <2>2, <2>3 DEF Synchronizers
  <2> QED
    BY <2>4, <2>5 DEF InStep, OneExtra
<1>4. InStep(sync)'
  BY <1>3
<1>5. Types'
  BY <1>1, <1>2, <1>3 DEF ConfigureSync, IInv, Types, audio, video
<1> QED
  BY <1>1, <1>4, <1>5 DEF Kept, IInv, Types

LEMMA DiffInt ==
  ASSUME IInv
  PROVE  Diff \in Int
<1>1. VideoDelay \in Int
  BY TargetInt DEF VideoDelay, IInv, Types
<1>2. buffered \in Int
  BY Limits DEF IInv, Types
<1> QED
  BY <1>1, <1>2, NetType DEF Diff, AudioDelay

LEMMA AskVideoKeeps ==
  ASSUME IInv, NEW delay \in Int, AskVideo(delay)
  PROVE  asked' \in Requests /\ timing' \in Timings
<1>1. asked' \in Requests
  BY DEF AskVideo, IInv, Types, Requests
<1>2. -1 \in Int
  OBVIOUS
<1> QED
  BY <1>1, <1>2, PlayoutKeeps DEF AskVideo, IInv, Types

\* Where the audio is refused, its delay loses a tenth, and the target stays.
LEMMA AskKeeps ==
  ASSUME IInv, S!Moves(sync, Diff), NEW empty \in BOOLEAN,
         Ask(S!ComputeDelays(sync, Diff), empty)
  PROVE  /\ dm' \in Manager /\ asked' \in Requests /\ timing' \in Timings
         /\ sync' \in Synchronizers /\ InStep(sync') /\ Careful(sync, sync')
<1> DEFINE s == S!ComputeDelays(sync, Diff)
           d == IF empty THEN M!SetMinimumDelay(dm, Clamped(BaseTarget)) ELSE dm
           delay == Clamped(s.audio.last)
<1>1. /\ s \in Synchronizers /\ InStep(s) /\ Careful(sync, s)
      /\ s.audio.extra > BaseTarget => s.audio.last <= s.audio.extra
  BY DiffInt, ComputeKeeps DEF IInv, Types
<1>2. d \in Manager
  <2>1. dm \in Manager
    BY DEF IInv, Types
  <2>2. Clamped(BaseTarget) \in Int
    BY ClampedInt, Limits
  <2> QED
    BY <2>1, <2>2, MinimumKeeps
<1>3. s.audio.last \in Int /\ s.video.last \in Int
  BY <1>1, CapIs DEF Synchronizers, Delay
<1>4. /\ dm' = M!SetMinimumDelay(d, delay)
      /\ sync' = IF M!IsValidMinimumDelay(d, delay) THEN s ELSE S!ReduceAudioDelay(s)
      /\ AskVideo(s.video.last)
  BY DEF Ask
<1> HIDE DEF s, d
<1>5. delay \in Int
  BY <1>3, ClampedInt
<1>6. dm' \in Manager
  BY <1>2, <1>4, <1>5, MinimumKeeps
<1>7. asked' \in Requests /\ timing' \in Timings
  BY <1>3, <1>4, AskVideoKeeps
<1> DEFINE t == S!ReduceAudioDelay(s)
<1>8. /\ t \in Synchronizers /\ InStep(t)
      /\ t.audio.last = s.audio.last /\ t.video.last = s.video.last
  BY <1>1, ReduceKeeps
<1>9. Careful(sync, t)
  BY <1>1, <1>8 DEF Careful
<1>10. sync' = s \/ sync' = t
  BY <1>4
<1> HIDE DEF t
<1> QED
  BY <1>1, <1>6, <1>7, <1>8, <1>9, <1>10

LEMMA UpdateDelayKeeps ==
  ASSUME IInv, UpdateDelay
  PROVE  Kept
<1>1. sync \in Synchronizers /\ InStep(sync) /\ dm \in Manager
  BY DEF IInv, Types
<1>2. PICK empty \in IF AudioDelay = 0 THEN BOOLEAN ELSE {FALSE} :
        IF "video" \in fresh /\ S!IsRelativeDelay(net.offset) /\ S!Moves(sync, Diff)
          THEN Ask(S!ComputeDelays(sync, Diff), empty)
          ELSE /\ AskStart(empty)
               /\ sync' = IF "video" \in fresh /\ S!IsRelativeDelay(net.offset)
                            THEN S!ComputeDelays(sync, Diff) ELSE sync
  BY DEF UpdateDelay
<1>3. empty \in BOOLEAN
  OBVIOUS
<1>4. /\ dm' \in Manager /\ asked' \in Requests /\ timing' \in Timings
      /\ sync' \in Synchronizers /\ InStep(sync') /\ Careful(sync, sync')
  <2>1. CASE "video" \in fresh /\ S!IsRelativeDelay(net.offset) /\ S!Moves(sync, Diff)
    BY <1>2, <1>3, <2>1, AskKeeps
  <2>2. CASE ~("video" \in fresh /\ S!IsRelativeDelay(net.offset) /\ S!Moves(sync, Diff))
    <3>1. /\ AskStart(empty)
          /\ sync' = S!ComputeDelays(sync, Diff) \/ sync' = sync
      BY <1>2, <2>2
    <3>2. sync' \in Synchronizers /\ InStep(sync') /\ Careful(sync, sync')
      <4>1. /\ S!ComputeDelays(sync, Diff) \in Synchronizers
            /\ InStep(S!ComputeDelays(sync, Diff))
            /\ Careful(sync, S!ComputeDelays(sync, Diff))
        BY <1>1, DiffInt, ComputeKeeps
      <4>2. Careful(sync, sync)
        BY <1>1, StandingIsCareful
      <4> QED
        BY <1>1, <3>1, <4>1, <4>2
    <3>3. dm' \in Manager /\ asked' \in Requests /\ timing' \in Timings
      <4>1. CASE empty
        <5>1. dm' = M!SetMinimumDelay(dm, Clamped(BaseTarget)) /\ AskVideo(BaseTarget)
          BY <3>1, <4>1 DEF AskStart
        <5>2. BaseTarget \in Int /\ Clamped(BaseTarget) \in Int
          BY Limits, ClampedInt
        <5> QED
          BY <1>1, <5>1, <5>2, MinimumKeeps, AskVideoKeeps
      <4>2. CASE ~empty
        BY <3>1, <4>2 DEF AskStart, video, IInv, Types
      <4> QED
        BY <4>1, <4>2
    <3> QED
      BY <3>2, <3>3
  <2> QED
    BY <2>1, <2>2
<1>5. lag' \in 0 .. MaxLag
  <2>1. lag \in 0 .. MaxLag /\ lag < MaxLag /\ lag' = lag + 1
    BY DEF UpdateDelay, IInv, Types
  <2> QED
    BY <2>1, Limits
<1>6. fresh' \subseteq Streams
  BY DEF UpdateDelay
<1>7. Types'
  BY <1>4, <1>5, <1>6 DEF UpdateDelay, IInv, Types
<1>8. InStep(sync)'
  BY <1>4
<1> QED
  BY <1>4, <1>7, <1>8 DEF Kept, IInv

LEMMA StepKeeps ==
  ASSUME IInv, [Next]_vars
  PROVE  Kept
<1>1. CASE Next
  BY <1>1, FramesKeep, BaseMinimumsKeep, DecodingKeeps, AudioKeeps, NetworkKeeps,
     ConfigureKeeps, UpdateDelayKeeps DEF Next
<1>2. CASE UNCHANGED vars
  <2>1. Types'
    BY <1>2 DEF vars, IInv, Types
  <2> QED
    BY <1>2, <2>1, Elsewhere DEF vars
<1> QED
  BY <1>1, <1>2

-----------------------------------------------------------------------------
(* The theorem. *)

LEMMA InvariantTypes == IInv => TypeOK
<1> SUFFICES ASSUME IInv PROVE TypeOK
  OBVIOUS
<1>1. sync.avg \in -MinDelta + 1 .. MinDelta - 1
  BY DEF IInv, Types, Synchronizers, Averages
<1>2. \A s \in Streams : sync[s].last \in 0 .. BaseTarget + MaxDeltaDelay /\ sync[s].extra \in Int
  BY CapIs DEF IInv, Types, Synchronizers, Delay, Streams
<1>3. dm.minimum \in 0 .. MaxBase /\ dm.effective \in 0 .. MaxBase
  BY DEF IInv, Types, Manager
<1>4. timing.min >= 0 /\ timing.max >= 0
  BY DEF IInv, Types, Timings
<1> QED
  BY <1>1, <1>2, <1>3, <1>4 DEF IInv, Types, TypeOK

LEMMA CarefulIsSmall ==
  ASSUME IInv, Careful(sync, sync')
  PROVE  SmallSteps /\ OneAtATime
<1>1. Tenth = (BaseTarget + MaxDeltaDelay + 9) \div 10 /\ MaxChange \in Nat
  BY CapIs, Limits
<1>2. ASSUME sync'.audio.last # sync.audio.last, sync.audio.last >= BaseTarget
      PROVE  sync'.audio.last - sync.audio.last \in -MaxChange - Tenth .. MaxChange
  BY <1>2 DEF Careful
<1>3. ASSUME sync'.video.last # sync.video.last, sync.video.last >= BaseTarget
      PROVE  sync'.video.last - sync.video.last \in -MaxChange - 0 .. MaxChange
  <2>1. -MaxChange - 0 = -MaxChange
    BY <1>1
  <2> QED
    BY <1>3, <2>1 DEF Careful
<1>4. SmallSteps
  BY <1>1, <1>2, <1>3 DEF SmallSteps, Streams
<1>5. OneAtATime
  BY DEF OneAtATime, Careful, Streams
<1> QED
  BY <1>4, <1>5

\* While the loop is configured it never makes the sound or the picture jump, whatever
\* the network measures, the buffers refuse and the codecs reset: a target moves by at
\* most a correction and what a refusal takes, and one at a time.
THEOREM NothingJumps == Spec => CarefulSteps
<1>1. Init => IInv
  BY InitKeeps
<1>2. IInv /\ [Next]_vars => IInv'
  BY StepKeeps DEF Kept
<1>3. IInv /\ [Next]_vars => [configured /\ configured' => SmallSteps /\ OneAtATime]_vars
  BY StepKeeps, CarefulIsSmall DEF Kept
<1>4. IInv => TypeOK
  BY InvariantTypes
<1> QED
  BY <1>1, <1>2, <1>3, <1>4, PTL DEF Spec, CarefulSteps

=============================================================================
