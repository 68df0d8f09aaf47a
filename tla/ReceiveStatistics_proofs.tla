---------------------- MODULE ReceiveStatistics_proofs ----------------------
(***************************************************************************)
(* Proofs about the receive statistics, for any number of streams, any     *)
(* thresholds and any numbers that the packets carry.                      *)
(*                                                                         *)
(* That no stream starves: the turns a stream has waited and those that    *)
(* are before it in the round are together fewer than the streams.  That a *)
(* report loses no more than it expects: a packet adds to the packets lost *)
(* less than to those expected, except at a restart, which the report after *)
(* it forgets.  That the loss of a stream that never starts anew is exact:  *)
(* every packet lies within half a turn of the latest received, so that it   *)
(* is counted under its own number.                                          *)
(***************************************************************************)
EXTENDS ReceiveStatistics, SequencesExt, FiniteSetTheorems, SequenceTheorems, SequenceFacts

Statistician ==
  [threshold : Nat \ {0}, active : BOOLEAN, unwrapped : Int,
   loss : Int, offset : Nat, first : Int, max : Int, outOfOrder : SeqNums \cup {None},
   reportLoss : Int, reportMax : Int, periodLoss : Int, periodMax : Int]

\* A statistician that has no packet yet has counted nothing.
Sound(s) ==
  /\ s.reportMax <= s.max
  /\ s.first = None =>
       /\ s.unwrapped = None /\ s.max = None /\ s.reportMax = None
       /\ s.outOfOrder = None /\ ~s.active

SaneReport(s) == s.loss - s.reportLoss <= s.max - s.reportMax
SanePeriod(s) == s.loss - s.periodLoss <= s.max - s.periodMax

\* A stream of which nothing comes out of order.
Orderly(s) ==
  /\ s.outOfOrder = None
  /\ s.first # None => s.unwrapped = s.max /\ s.max \in Nat

Packets == [id : Nat, number : SeqNums]
Histories ==
  [first : Nat, top : Nat, last : Nat, received : Nat, lost : Nat, tooEarly : Nat,
   sameReport : BOOLEAN, samePeriod : BOOLEAN, waited : [SSRCs -> Nat]]

Types ==
  /\ DOMAIN statisticians \subseteq SSRCs
  /\ statisticians \in [DOMAIN statisticians -> Statistician]
  /\ threshold \in Nat \ {0}
  /\ sender \in [number : SeqNums, sent : Nat, restarts : Nat, settings : Nat]
  /\ flight \in Seq(Packets)
  /\ history \in Histories

\* What the statisticians of, with the history h, have counted.
Counts(of, h) ==
  /\ \A ssrc \in DOMAIN of :
       /\ Sound(of[ssrc])
       /\ ssrc # Media => Orderly(of[ssrc]) /\ SaneReport(of[ssrc])
  /\ Media \in DOMAIN of =>
       /\ h.sameReport => SaneReport(of[Media])
       /\ h.samePeriod => SanePeriod(of[Media])
  /\ Media \notin DOMAIN of => ~h.samePeriod

\* Of len streams, those that are asked before the one at p when last was the last.
Before(p, last, len) == IF p > last + 1 THEN p - 2 - last ELSE p - 2 - last + len

\* The streams D are in order, and have waited for waited reports.
Round(D, order, last, waited) ==
  /\ order \in Seq(SSRCs)
  /\ ToSet(order) = D
  /\ Len(order) = Cardinality(D)
  /\ last \in Nat
  /\ IF order = <<>> THEN last = 0 ELSE last < Len(order)
  /\ \A p \in 1..Len(order) : waited[order[p]] + Before(p, last, Len(order)) < Len(order)
  /\ \A ssrc \in SSRCs \ D : waited[ssrc] = 0

IInv ==
  /\ Types
  /\ Counts(statisticians, history)
  /\ Round(DOMAIN statisticians, all_ssrcs, last_returned, history.waited)

-----------------------------------------------------------------------------
(* The numbers. *)

LEMMA Circle ==
  /\ Modulus \in Nat /\ Modulus > 2
  /\ Half \in Nat /\ 2 * Half = Modulus
BY ModulusAssumption DEF Half

LEMMA Remainder ==
  ASSUME NEW n \in Int
  PROVE  n % Modulus \in SeqNums
BY Circle DEF SeqNums

\* The remainder of a number less than two turns.
LEMMA SmallRemainder ==
  ASSUME NEW m \in Nat \ {0}, NEW n \in 0 .. (2 * m - 1)
  PROVE  n % m = IF n < m THEN n ELSE n - m
<1>1. CASE n < m
  BY <1>1
<1>2. CASE ~(n < m)
  <2>1. n - m \in 0 .. (m - 1) /\ n = 1 * m + (n - m)
    BY <1>2
  <2> QED
    BY <1>2, <2>1
<1> QED
  BY <1>1, <1>2

LEMMA ProductGrows ==
  ASSUME NEW m \in Nat \ {0}, NEW d \in Nat \ {0}
  PROVE  m * d >= m
<1>1. m * d = m * (d - 1) + m /\ d - 1 \in Nat
  OBVIOUS
<1>2. m * (d - 1) \in Nat
  BY <1>1
<1> QED
  BY <1>1, <1>2

\* The remainder is the only one.
LEMMA RemainderIs ==
  ASSUME NEW m \in Nat \ {0}, NEW n \in Int, NEW q \in Int, NEW r \in 0 .. (m - 1), n = m * q + r
  PROVE  n % m = r
<1> DEFINE k == n \div m
           s == n % m
<1>1. k \in Int /\ s \in 0 .. (m - 1) /\ n = m * k + s
  OBVIOUS
<1> HIDE DEF k, s
<1>2. CASE k = q
  BY <1>1, <1>2 DEF s
<1>3. CASE k < q
  <2>1. q - k \in Nat \ {0} /\ m * (q - k) = m * q - m * k
    BY <1>1, <1>3
  <2>2. m * (q - k) >= m
    BY <2>1, ProductGrows
  <2>3. m * q \in Int /\ m * k \in Int
    BY <1>1
  <2> QED
    BY <1>1, <2>1, <2>2, <2>3
<1>4. CASE k > q
  <2>1. k - q \in Nat \ {0} /\ m * (k - q) = m * k - m * q
    BY <1>1, <1>4
  <2>2. m * (k - q) >= m
    BY <2>1, ProductGrows
  <2>3. m * q \in Int /\ m * k \in Int
    BY <1>1
  <2> QED
    BY <1>1, <2>1, <2>2, <2>3
<1> QED
  BY <1>1, <1>2, <1>3, <1>4

\* The remainder of the next number.
LEMMA NextRemainder ==
  ASSUME NEW n \in Int
  PROVE  (n + 1) % Modulus = IF (n % Modulus) + 1 = Modulus THEN 0 ELSE (n % Modulus) + 1
<1> DEFINE q == n \div Modulus
           r == n % Modulus
<1>1. q \in Int /\ r \in 0 .. (Modulus - 1) /\ n = Modulus * q + r /\ Modulus \in Nat \ {0}
  BY Circle
<1> HIDE DEF q, r
<1>2. Modulus * q \in Int /\ Modulus * (q + 1) = Modulus * q + Modulus
  BY <1>1
<1>3. CASE r + 1 = Modulus
  <2>1. n + 1 = Modulus * (q + 1) + 0 /\ q + 1 \in Int /\ 0 \in 0 .. (Modulus - 1) /\ n + 1 \in Int
    BY <1>1, <1>2, <1>3
  <2> QED
    BY <1>1, <1>3, <2>1, RemainderIs DEF r
<1>4. CASE ~(r + 1 = Modulus)
  <2>1. n + 1 = Modulus * q + (r + 1) /\ r + 1 \in 0 .. (Modulus - 1) /\ n + 1 \in Int
    BY <1>1, <1>2, <1>4
  <2> QED
    BY <1>1, <1>4, <2>1, RemainderIs DEF r
<1> QED
  BY <1>3, <1>4

LEMMA UnwrapInt ==
  ASSUME NEW s \in Statistician, NEW number \in SeqNums
  PROVE  /\ Unwrap(s, number) \in Int
         /\ s.unwrapped = None => Unwrap(s, number) = number
<1> DEFINE last == s.unwrapped % Modulus
           diff == number - last
           ahead == AheadOf(number, last)
           more == CASE ahead /\ diff < 0 -> diff + Modulus
                     [] ~ahead /\ diff > 0 /\ s.unwrapped + diff - Modulus >= 0 -> diff - Modulus
                     [] OTHER -> diff
<1>1. s.unwrapped \in Int /\ number \in Int
  BY DEF Statistician, SeqNums
<1>2. diff \in Int
  BY <1>1, Remainder DEF SeqNums
<1>3. Unwrap(s, number) = IF s.unwrapped = None THEN number ELSE s.unwrapped + more
  BY DEF Unwrap
<1> HIDE DEF diff, ahead
<1>4. more = diff + Modulus \/ more = diff - Modulus \/ more = diff
  OBVIOUS
<1> HIDE DEF more
<1>5. more \in Int
  BY <1>2, <1>4, Circle
<1> QED
  BY <1>1, <1>3, <1>5

\* The packet after the last one is one further.
LEMMA UnwrapNext ==
  ASSUME NEW s \in Statistician, s.unwrapped \in Nat
  PROVE  /\ (s.unwrapped + 1) % Modulus \in SeqNums
         /\ Unwrap(s, (s.unwrapped + 1) % Modulus) = s.unwrapped + 1
<1> DEFINE n == s.unwrapped
           last == n % Modulus
           number == (n + 1) % Modulus
           diff == number - last
           ahead == AheadOf(number, last)
<1>1. last \in SeqNums /\ number \in SeqNums /\ n \in Nat /\ n # None
  BY Remainder DEF None
<1>2. number = IF last + 1 = Modulus THEN 0 ELSE last + 1
  BY <1>1, NextRemainder
<1> HIDE DEF last, number
<1>3. ahead
  BY <1>1, <1>2, Circle DEF AheadOf, AheadOrAt, ForwardDiff, SeqNums
<1>4. Unwrap(s, number) = n + CASE ahead /\ diff < 0 -> diff + Modulus
                                [] ~ahead /\ diff > 0 /\ n + diff - Modulus >= 0 -> diff - Modulus
                                [] OTHER -> diff
  BY <1>1 DEF Unwrap, last
<1>5. CASE diff < 0
  <2>1. diff = 1 - Modulus
    BY <1>1, <1>2, <1>5, Circle DEF SeqNums
  <2>2. Unwrap(s, number) = n + (diff + Modulus)
    BY <1>3, <1>4, <1>5
  <2> QED
    BY <1>1, <2>1, <2>2, Circle DEF number
<1>6. CASE ~(diff < 0)
  <2>1. diff = 1
    BY <1>1, <1>2, <1>6, Circle DEF SeqNums
  <2>2. Unwrap(s, number) = n + diff
    BY <1>3, <1>4, <1>6
  <2> QED
    BY <1>1, <2>1, <2>2 DEF number
<1> QED
  BY <1>5, <1>6

-----------------------------------------------------------------------------
(* One statistician. *)

LEMMA NewIsSound ==
  ASSUME NEW t \in Nat \ {0}, NEW garbage \in Garbage
  PROVE  LET s == NewStatistician(t, garbage)
         IN /\ s \in Statistician /\ Sound(s) /\ Orderly(s) /\ SaneReport(s)
            /\ s.threshold = t /\ s.first = None
<1> DEFINE s == NewStatistician(t, garbage)
<1>1. garbage \in Int /\ None \in Int /\ 0 \in Nat /\ 0 \in Int
  BY StatisticsAssumption DEF None
<1>2. s = [threshold |-> t, active |-> FALSE, unwrapped |-> None,
           loss |-> 0, offset |-> 0, first |-> None, max |-> None, outOfOrder |-> None,
           reportLoss |-> 0, reportMax |-> None,
           periodLoss |-> garbage, periodMax |-> garbage]
  BY DEF NewStatistician
<1>3. s \in Statistician
  BY <1>1, <1>2 DEF Statistician
<1>4. Sound(s) /\ Orderly(s)
  BY <1>1, <1>2 DEF Sound, Orderly
<1>5. SaneReport(s)
  BY <1>1, <1>2 DEF SaneReport
<1> QED
  BY <1>2, <1>3, <1>4, <1>5

LEMMA InOrderIs ==
  ASSUME NEW s \in Statistician, NEW seq \in Int
  PROVE  LET u == InOrder(s, seq)
         IN /\ u \in Statistician
            /\ u.loss = s.loss + seq - s.max /\ u.max = seq /\ u.unwrapped = seq
            /\ u.first = s.first /\ u.outOfOrder = s.outOfOrder /\ u.threshold = s.threshold
            /\ u.reportLoss = s.reportLoss /\ u.reportMax = s.reportMax
            /\ u.periodLoss = s.periodLoss /\ u.periodMax = s.periodMax
<1> DEFINE loss == s.loss + seq - s.max
<1>1. loss \in Int
  BY DEF Statistician
<1>2. InOrder(s, seq) = [s EXCEPT !.loss = loss, !.max = seq, !.unwrapped = seq, !.active = TRUE]
  BY DEF InOrder
<1>3. TRUE \in BOOLEAN
  OBVIOUS
<1> HIDE DEF loss
<1>4. InOrder(s, seq) \in Statistician
  BY <1>1, <1>2, <1>3 DEF Statistician
<1> QED
  BY <1>2, <1>4 DEF loss, Statistician

LEMMA SettledIs ==
  ASSUME NEW s \in Statistician
  PROVE  LET u == Settled(s)
         IN /\ u \in Statistician
            /\ u.loss \in s.loss - 1 .. s.loss /\ u.max = s.max /\ u.unwrapped = s.unwrapped
            /\ s.outOfOrder = None => u = s
            /\ u.first = s.first /\ u.outOfOrder = None /\ u.threshold = s.threshold
            /\ u.active = s.active
            /\ u.reportLoss = s.reportLoss /\ u.reportMax = s.reportMax
            /\ u.periodLoss = s.periodLoss /\ u.periodMax = s.periodMax
<1>1. CASE s.outOfOrder = None
  BY <1>1 DEF Settled, Statistician
<1>2. CASE s.outOfOrder # None
  <2> DEFINE loss == s.loss - 1
  <2>1. loss \in Int /\ loss \in s.loss - 1 .. s.loss
    BY DEF Statistician
  <2>2. Settled(s) = [s EXCEPT !.loss = loss, !.outOfOrder = None]
    BY <1>2 DEF Settled
  <2> HIDE DEF loss
  <2>3. Settled(s) \in Statistician
    BY <2>1, <2>2 DEF Statistician
  <2> QED
    BY <1>2, <2>1, <2>2, <2>3 DEF Statistician
<1> QED
  BY <1>1, <1>2

LEMMA RestartIs ==
  ASSUME NEW s \in Statistician, NEW seq \in Int
  PROVE  LET u == Restart(s, seq)
         IN /\ u \in Statistician
            /\ u.max = seq - 2 /\ u.reportMax = seq - 2
            /\ u.first = s.first
<1> DEFINE max == seq - 2
           r == Settled(s)
<1>1. max \in Int
  OBVIOUS
<1>2. Restart(s, seq) = [r EXCEPT !.reportMax = max, !.max = max]
  BY DEF Restart
<1>3. r \in Statistician /\ r.first = s.first
  BY SettledIs
<1> HIDE DEF max, r
<1>4. Restart(s, seq) \in Statistician
  BY <1>1, <1>2, <1>3 DEF Statistician
<1> QED
  BY <1>2, <1>3, <1>4 DEF max, Statistician

\* A packet that is kept back counts as lost until it is clear whether it is.
LEMMA KeptBackIs ==
  ASSUME NEW s \in Statistician, NEW number \in SeqNums
  PROVE  LET u == [Settled(s) EXCEPT !.outOfOrder = number, !.loss = @ + 1]
         IN /\ u \in Statistician
            /\ u.loss \in s.loss .. s.loss + 1 /\ u.max = s.max /\ u.first = s.first
            /\ u.reportLoss = s.reportLoss /\ u.reportMax = s.reportMax
            /\ u.periodLoss = s.periodLoss /\ u.periodMax = s.periodMax
<1> DEFINE r == Settled(s)
           loss == r.loss + 1
           u == [r EXCEPT !.outOfOrder = number, !.loss = loss]
<1>1. /\ r \in Statistician /\ r.loss \in s.loss - 1 .. s.loss /\ r.max = s.max /\ r.first = s.first
      /\ r.reportLoss = s.reportLoss /\ r.reportMax = s.reportMax
      /\ r.periodLoss = s.periodLoss /\ r.periodMax = s.periodMax
  BY SettledIs
<1> HIDE DEF r
<1>2. loss \in Int /\ loss \in s.loss .. s.loss + 1
  BY <1>1 DEF Statistician
<1>3. number \in SeqNums \cup {None}
  OBVIOUS
<1>4. u = [Settled(s) EXCEPT !.outOfOrder = number, !.loss = @ + 1]
  BY DEF r
<1> HIDE DEF loss
<1>5. u \in Statistician
  BY <1>1, <1>2, <1>3 DEF Statistician
<1>6. u.loss = loss /\ u.max = r.max /\ u.first = r.first
      /\ u.reportLoss = r.reportLoss /\ u.reportMax = r.reportMax
      /\ u.periodLoss = r.periodLoss /\ u.periodMax = r.periodMax
  BY <1>1 DEF Statistician
<1> HIDE DEF u
<1> QED
  BY <1>1, <1>2, <1>4, <1>5, <1>6

\* A step of the counters that adds no more to the packets lost than to those expected.
Fair(s, u) ==
  /\ u.loss - s.loss <= u.max - s.max
  /\ u.reportLoss = s.reportLoss /\ u.reportMax = s.reportMax
  /\ u.periodLoss = s.periodLoss /\ u.periodMax = s.periodMax

LEMMA OutOfOrderKeeps ==
  ASSUME NEW s \in Statistician, s.reportMax <= s.max, NEW number \in SeqNums, NEW seq \in Int
  PROVE  LET u == UpdateOutOfOrder(s, number, seq)
         IN /\ u \in Statistician
            /\ u.reportMax <= u.max
            /\ u.first = s.first
            /\ ~IsRestart(s, number) => Fair([s EXCEPT !.loss = @ + 1], u)
<1> DEFINE u == UpdateOutOfOrder(s, number, seq)
           far == AbsDiff(seq, s.max) > s.threshold
           more == [s EXCEPT !.loss = @ + 1]
<1>1. /\ s.loss \in Int /\ s.max \in Int /\ s.reportMax \in Int /\ s.reportLoss \in Int
      /\ s.periodLoss \in Int /\ s.periodMax \in Int
  BY DEF Statistician
<1>2. /\ more.loss = s.loss + 1 /\ more.max = s.max
      /\ more.reportLoss = s.reportLoss /\ more.reportMax = s.reportMax
      /\ more.periodLoss = s.periodLoss /\ more.periodMax = s.periodMax
  BY DEF Statistician
<1> HIDE DEF more
<1>3. CASE IsRestart(s, number)
  <2> DEFINE r == Restart(s, seq)
  <2>1. u = InOrder(r, seq)
    BY <1>3 DEF UpdateOutOfOrder
  <2>2. r \in Statistician /\ r.reportMax = seq - 2 /\ r.first = s.first
    BY RestartIs
  <2> HIDE DEF r, u
  <2>3. u \in Statistician /\ u.max = seq /\ u.reportMax = seq - 2 /\ u.first = s.first
    BY <2>1, <2>2, InOrderIs
  <2> QED
    BY <1>3, <2>3 DEF u
<1>4. CASE ~IsRestart(s, number) /\ far
  <2>1. u = [Settled(s) EXCEPT !.outOfOrder = number, !.loss = @ + 1]
    BY <1>4 DEF UpdateOutOfOrder
  <2> HIDE DEF u
  <2>2. /\ u \in Statistician
        /\ u.loss \in s.loss .. s.loss + 1 /\ u.max = s.max /\ u.first = s.first
        /\ u.reportLoss = s.reportLoss /\ u.reportMax = s.reportMax
        /\ u.periodLoss = s.periodLoss /\ u.periodMax = s.periodMax
    BY <2>1, KeptBackIs
  <2>4. Fair(more, u)
    BY <1>1, <1>2, <2>2 DEF Fair
  <2>5. u.reportMax <= u.max
    BY <1>1, <2>2
  <2> QED
    BY <2>2, <2>4, <2>5 DEF u, more
<1>5. CASE ~IsRestart(s, number) /\ ~far /\ seq > s.max
  <2> DEFINE r == Settled(s)
  <2>1. u = InOrder(r, seq)
    BY <1>5 DEF UpdateOutOfOrder
  <2>2. /\ r \in Statistician /\ r.loss \in s.loss - 1 .. s.loss /\ r.max = s.max /\ r.first = s.first
        /\ r.reportLoss = s.reportLoss /\ r.reportMax = s.reportMax
        /\ r.periodLoss = s.periodLoss /\ r.periodMax = s.periodMax
    BY SettledIs
  <2> HIDE DEF r, u
  <2>3. /\ u \in Statistician
        /\ u.loss = r.loss + seq - r.max /\ u.max = seq /\ u.first = r.first
        /\ u.reportLoss = r.reportLoss /\ u.reportMax = r.reportMax
        /\ u.periodLoss = r.periodLoss /\ u.periodMax = r.periodMax
    BY <2>1, <2>2, InOrderIs
  <2>6. Fair(more, u)
    BY <1>1, <1>2, <2>2, <2>3 DEF Fair
  <2>7. u.reportMax <= u.max
    BY <1>1, <1>5, <2>2, <2>3
  <2> QED
    BY <2>2, <2>3, <2>6, <2>7 DEF u, more
<1>6. CASE ~IsRestart(s, number) /\ ~far /\ ~(seq > s.max)
  <2>1. u = Settled(s)
    BY <1>6 DEF UpdateOutOfOrder
  <2> HIDE DEF u
  <2>2. /\ u \in Statistician /\ u.loss \in s.loss - 1 .. s.loss /\ u.max = s.max /\ u.first = s.first
        /\ u.reportLoss = s.reportLoss /\ u.reportMax = s.reportMax
        /\ u.periodLoss = s.periodLoss /\ u.periodMax = s.periodMax
    BY <2>1, SettledIs
  <2>3. u.reportMax <= u.max
    BY <1>1, <2>2
  <2>4. Fair(more, u)
    BY <1>1, <1>2, <2>2 DEF Fair
  <2> QED
    BY <2>2, <2>3, <2>4 DEF u, more
<1> QED
  BY <1>3, <1>4, <1>5, <1>6

\* Every packet but one of a restart is fair, and of an orderly stream only the next
\* packet comes.
LEMMA CountersKeep ==
  ASSUME NEW s \in Statistician, Sound(s), NEW number \in SeqNums
  PROVE  LET u == UpdateCounters(s, number)
         IN /\ u \in Statistician /\ Sound(u) /\ u.first # None
            /\ ~(ReceivedRtpPacket(s) /\ IsRestart(s, number)) =>
                 /\ SaneReport(s) => SaneReport(u)
                 /\ SanePeriod(s) => SanePeriod(u)
<1> DEFINE u == UpdateCounters(s, number)
           seq == Unwrap(s, number)
           counted == [s EXCEPT !.loss = @ - 1]
<1>1. /\ s.loss \in Int /\ s.max \in Int /\ s.reportMax \in Int /\ s.reportLoss \in Int
      /\ s.periodLoss \in Int /\ s.periodMax \in Int /\ s.first \in Int
  BY DEF Statistician
<1>2. /\ counted \in Statistician
      /\ counted.loss = s.loss - 1 /\ counted.max = s.max /\ counted.first = s.first
      /\ counted.outOfOrder = s.outOfOrder
      /\ counted.reportLoss = s.reportLoss /\ counted.reportMax = s.reportMax
      /\ counted.periodLoss = s.periodLoss /\ counted.periodMax = s.periodMax
  <2>1. s.loss - 1 \in Int
    BY <1>1
  <2> QED
    BY <2>1 DEF Statistician
<1>3. seq \in Int /\ (s.unwrapped = None => seq = number)
  BY UnwrapInt
<1>4. CASE s.first = None
  <2> DEFINE before == seq - 1
             started == [counted EXCEPT !.first = seq, !.reportMax = before, !.max = before]
  <2>1. u = InOrder(started, seq)
    BY <1>4 DEF UpdateCounters, ReceivedRtpPacket
  <2>2. seq = number /\ s.max = -1 /\ s.reportMax = -1 /\ seq \in Nat /\ before \in Int
    BY <1>3, <1>4 DEF Sound, SeqNums, None
  <2> HIDE DEF seq, before, counted
  <2>3. /\ started \in Statistician
        /\ started.loss = s.loss - 1 /\ started.max = before /\ started.first = seq
        /\ started.reportLoss = s.reportLoss /\ started.reportMax = before
        /\ started.periodLoss = s.periodLoss /\ started.periodMax = s.periodMax
    BY <1>2, <1>3, <2>2 DEF Statistician
  <2> HIDE DEF started, u
  <2>4. /\ u \in Statistician
        /\ u.loss = started.loss + seq - started.max /\ u.max = seq /\ u.first = started.first
        /\ u.reportLoss = started.reportLoss /\ u.reportMax = started.reportMax
        /\ u.periodLoss = started.periodLoss /\ u.periodMax = started.periodMax
    BY <1>3, <2>1, <2>3, InOrderIs
  <2>5. u.loss = s.loss /\ u.reportMax = seq - 1 /\ u.first # None
    BY <1>1, <2>2, <2>3, <2>4 DEF before, None
  <2>6. Sound(u)
    BY <2>2, <2>4, <2>5 DEF Sound
  <2>7. SaneReport(s) => SaneReport(u)
    BY <1>1, <2>2, <2>3, <2>4, <2>5 DEF SaneReport
  <2>8. SanePeriod(s) => SanePeriod(u)
    BY <1>1, <2>2, <2>3, <2>4, <2>5 DEF SanePeriod
  <2> QED
    BY <2>4, <2>5, <2>6, <2>7, <2>8 DEF u
<1>5. CASE s.first # None
  <2> DEFINE more == [counted EXCEPT !.loss = @ + 1]
  <2>1. u = UpdateOutOfOrder(counted, number, seq)
    BY <1>5 DEF UpdateCounters, ReceivedRtpPacket
  <2>2. counted.reportMax <= counted.max
    BY <1>2 DEF Sound
  <2>3. IsRestart(counted, number) <=> IsRestart(s, number)
    BY <1>2 DEF IsRestart
  <2> HIDE DEF counted, seq, u
  <2>4. /\ u \in Statistician
        /\ u.reportMax <= u.max
        /\ u.first = counted.first
        /\ ~IsRestart(counted, number) => Fair(more, u)
    BY <1>2, <1>3, <2>1, <2>2, OutOfOrderKeeps
  <2>5. /\ more.loss = s.loss /\ more.max = s.max
        /\ more.reportLoss = s.reportLoss /\ more.reportMax = s.reportMax
        /\ more.periodLoss = s.periodLoss /\ more.periodMax = s.periodMax
    <3>1. counted.loss + 1 = s.loss
      BY <1>1, <1>2
    <3> QED
      BY <1>2, <3>1 DEF Statistician
  <2> HIDE DEF more
  <2>6. Sound(u) /\ u.first # None
    BY <1>2, <1>5, <2>4 DEF Sound
  <2>7. u.loss \in Int /\ u.max \in Int
    BY <2>4 DEF Statistician
  <2>8. Fair(more, u) /\ SaneReport(s) => SaneReport(u)
    BY <1>1, <2>5, <2>7 DEF Fair, SaneReport
  <2>9. Fair(more, u) /\ SanePeriod(s) => SanePeriod(u)
    BY <1>1, <2>5, <2>7 DEF Fair, SanePeriod
  <2> QED
    BY <1>5, <2>3, <2>4, <2>6, <2>8, <2>9 DEF u, ReceivedRtpPacket
<1> QED
  BY <1>4, <1>5

LEMMA OrderlyKeeps ==
  ASSUME NEW s \in Statistician, Sound(s), Orderly(s)
  PROVE  /\ (s.max + 1) % Modulus \in SeqNums
         /\ Orderly(UpdateCounters(s, (s.max + 1) % Modulus))
<1> DEFINE number == (s.max + 1) % Modulus
           u == UpdateCounters(s, number)
           seq == Unwrap(s, number)
           counted == [s EXCEPT !.loss = @ - 1]
<1>1. number \in SeqNums /\ s.max \in Int /\ s.threshold \in Nat \ {0}
  BY Remainder DEF Statistician
<1>2. /\ counted \in Statistician
      /\ counted.max = s.max /\ counted.outOfOrder = None /\ counted.threshold = s.threshold
  <2>1. s.loss - 1 \in Int
    BY DEF Statistician
  <2> QED
    BY <2>1 DEF Statistician, Orderly
<1>3. seq \in Int /\ (s.unwrapped = None => seq = number)
  BY <1>1, UnwrapInt
<1>4. CASE s.first = None
  <2> DEFINE before == seq - 1
             started == [counted EXCEPT !.first = seq, !.reportMax = before, !.max = before]
  <2>1. u = InOrder(started, seq)
    BY <1>4 DEF UpdateCounters, ReceivedRtpPacket
  <2>2. seq \in Nat
    BY <1>1, <1>3, <1>4 DEF Sound, SeqNums
  <2>3. before \in Int
    BY <1>3
  <2> HIDE DEF seq, before, counted
  <2>4. started \in Statistician /\ started.outOfOrder = None
    BY <1>2, <1>3, <2>3 DEF Statistician
  <2> HIDE DEF started, u
  <2>5. u.max = seq /\ u.unwrapped = seq /\ u.outOfOrder = None
    BY <1>3, <2>1, <2>4, InOrderIs
  <2> QED
    BY <1>1, <2>2, <2>5 DEF Orderly, u, number
<1>5. CASE s.first # None
  <2> DEFINE r == Settled(counted)
  <2>1. s.unwrapped = s.max /\ s.max \in Nat
    BY <1>5 DEF Orderly
  <2>2. seq = s.max + 1
    BY <2>1, UnwrapNext
  <2>3. u = UpdateOutOfOrder(counted, number, seq)
    BY <1>5 DEF UpdateCounters, ReceivedRtpPacket
  <2> HIDE DEF counted, seq, u, number
  <2>4. ~IsRestart(counted, number)
    BY <1>2 DEF IsRestart
  <2>5. ~(AbsDiff(seq, counted.max) > counted.threshold) /\ seq > counted.max
    BY <1>1, <1>2, <2>1, <2>2 DEF AbsDiff
  <2>6. u = InOrder(r, seq)
    BY <2>3, <2>4, <2>5 DEF UpdateOutOfOrder
  <2>7. r \in Statistician /\ r.outOfOrder = None
    BY <1>2, SettledIs
  <2> HIDE DEF r
  <2>8. u.max = seq /\ u.unwrapped = seq /\ u.outOfOrder = None
    BY <1>3, <2>6, <2>7, InOrderIs
  <2>9. seq \in Nat
    BY <2>1, <2>2
  <2> QED
    BY <1>1, <2>8, <2>9 DEF Orderly, u, number
<1> QED
  BY <1>4, <1>5

LEMMA ReportKeeps ==
  ASSUME NEW s \in Statistician, Sound(s)
  PROVE  LET u == AppendReportBlock(s)
         IN /\ u \in Statistician /\ Sound(u) /\ SaneReport(u)
            /\ SanePeriod(s) => SanePeriod(u)
            /\ Orderly(s) => Orderly(u)
<1> DEFINE u == AppendReportBlock(s)
           offset == IF s.loss + s.offset < 0 THEN -s.loss ELSE s.offset
<1>1. s.loss \in Int /\ s.max \in Int /\ s.offset \in Nat
  BY DEF Statistician
<1>2. offset \in Nat
  BY <1>1
<1>3. u = [s EXCEPT !.offset = offset, !.reportLoss = s.loss, !.reportMax = s.max]
  BY DEF AppendReportBlock
<1> HIDE DEF offset, u
<1>4. u \in Statistician
  BY <1>1, <1>2, <1>3 DEF Statistician
<1>5. /\ u.loss = s.loss /\ u.max = s.max /\ u.reportLoss = s.loss /\ u.reportMax = s.max
      /\ u.first = s.first /\ u.unwrapped = s.unwrapped /\ u.outOfOrder = s.outOfOrder
      /\ u.active = s.active /\ u.periodLoss = s.periodLoss /\ u.periodMax = s.periodMax
  BY <1>3 DEF Statistician
<1>6. Sound(u)
  BY <1>1, <1>5 DEF Sound
<1>7. SaneReport(u)
  BY <1>1, <1>5 DEF SaneReport
<1>8. SanePeriod(s) => SanePeriod(u)
  BY <1>5 DEF SanePeriod
<1>9. Orderly(s) => Orderly(u)
  BY <1>5 DEF Orderly
<1> QED
  BY <1>4, <1>6, <1>7, <1>8, <1>9 DEF u

LEMMA PeriodKeeps ==
  ASSUME NEW s \in Statistician, Sound(s)
  PROVE  LET u == GetPeriodFractionLostInPercent(s)
         IN /\ u \in Statistician /\ Sound(u)
            /\ SaneReport(s) => SaneReport(u)
            /\ u # s \/ SanePeriod(s) => SanePeriod(u)
            /\ Orderly(s) => Orderly(u)
<1> DEFINE u == GetPeriodFractionLostInPercent(s)
<1>1. s.loss \in Int /\ s.max \in Int
  BY DEF Statistician
<1>2. CASE u = s
  BY <1>2
<1>3. CASE u # s
  <2>1. u = [s EXCEPT !.periodLoss = s.loss, !.periodMax = s.max]
    BY <1>3 DEF GetPeriodFractionLostInPercent
  <2> HIDE DEF u
  <2>2. u \in Statistician
    BY <1>1, <2>1 DEF Statistician
  <2>3. /\ u.loss = s.loss /\ u.max = s.max /\ u.periodLoss = s.loss /\ u.periodMax = s.max
        /\ u.first = s.first /\ u.unwrapped = s.unwrapped /\ u.outOfOrder = s.outOfOrder
        /\ u.active = s.active /\ u.reportLoss = s.reportLoss /\ u.reportMax = s.reportMax
    BY <2>1 DEF Statistician
  <2>4. Sound(u)
    BY <2>3 DEF Sound
  <2>5. SaneReport(s) => SaneReport(u)
    BY <2>3 DEF SaneReport
  <2>6. SanePeriod(u)
    BY <1>1, <2>3 DEF SanePeriod
  <2>7. Orderly(s) => Orderly(u)
    BY <2>3 DEF Orderly
  <2> QED
    BY <2>2, <2>4, <2>5, <2>6, <2>7 DEF u
<1> QED
  BY <1>2, <1>3

\* Neither the threshold nor the time matters to what was counted.
LEMMA SettingsKeep ==
  ASSUME NEW s \in Statistician, Sound(s), NEW t \in Nat \ {0}
  PROVE  \A u \in {[s EXCEPT !.threshold = t], [s EXCEPT !.active = FALSE]} :
           /\ u \in Statistician /\ Sound(u)
           /\ SaneReport(s) => SaneReport(u)
           /\ SanePeriod(s) => SanePeriod(u)
           /\ Orderly(s) => Orderly(u)
<1> SUFFICES ASSUME NEW u \in {[s EXCEPT !.threshold = t], [s EXCEPT !.active = FALSE]}
             PROVE  /\ u \in Statistician /\ Sound(u)
                    /\ SaneReport(s) => SaneReport(u)
                    /\ SanePeriod(s) => SanePeriod(u)
                    /\ Orderly(s) => Orderly(u)
  OBVIOUS
<1>1. u \in Statistician
  <2>1. FALSE \in BOOLEAN
    OBVIOUS
  <2> QED
    BY <2>1 DEF Statistician
<1>2. /\ u.loss = s.loss /\ u.max = s.max /\ u.periodLoss = s.periodLoss /\ u.periodMax = s.periodMax
      /\ u.first = s.first /\ u.unwrapped = s.unwrapped /\ u.outOfOrder = s.outOfOrder
      /\ u.reportLoss = s.reportLoss /\ u.reportMax = s.reportMax
  BY DEF Statistician
<1>3. u.active => s.active
  BY DEF Statistician
<1>4. Sound(u)
  BY <1>2, <1>3 DEF Sound
<1> QED
  BY <1>1, <1>2, <1>4 DEF SaneReport, SanePeriod, Orderly

-----------------------------------------------------------------------------
(* The round. *)

LEMMA StreamsFinite ==
  /\ IsFiniteSet(SSRCs)
  /\ \A D \in SUBSET SSRCs :
       IsFiniteSet(D) /\ Cardinality(D) \in Nat /\ Cardinality(D) <= Cardinality(SSRCs)
  /\ Cardinality(SSRCs) \in Nat \ {0}
<1>1. IsFiniteSet(SSRCs)
  <2>1. IsFiniteSet(OtherStreams \cup {Media})
    BY StatisticsAssumption, FS_AddElement
  <2>2. OtherStreams \cup {Media} = SSRCs
    BY DEF SSRCs
  <2> QED
    BY <2>1, <2>2
<1>2. ASSUME NEW D \in SUBSET SSRCs
      PROVE  IsFiniteSet(D) /\ Cardinality(D) \in Nat /\ Cardinality(D) <= Cardinality(SSRCs)
  BY <1>1, FS_Subset, FS_CardinalityType
<1>3. Cardinality(SSRCs) \in Nat /\ Cardinality(SSRCs) # 0
  BY <1>1, FS_CardinalityType, FS_EmptySet DEF SSRCs
<1> QED
  BY <1>1, <1>2, <1>3

LEMMA RoundGrows ==
  ASSUME NEW D \in SUBSET SSRCs, NEW order, NEW last, NEW waited \in [SSRCs -> Nat],
         Round(D, order, last, waited), NEW ssrc \in SSRCs, ssrc \notin D
  PROVE  Round(D \cup {ssrc}, Append(order, ssrc), last, waited)
<1> DEFINE next == Append(order, ssrc)
           n == Len(order)
<1>1. order \in Seq(SSRCs) /\ ToSet(order) = D /\ n = Cardinality(D) /\ last \in Nat /\ n \in Nat
  BY DEF Round
<1>2. /\ next \in Seq(SSRCs) /\ Len(next) = n + 1 /\ ToSet(next) = D \cup {ssrc}
  <2>1. next \in Seq(SSRCs) /\ Len(next) = n + 1
    BY <1>1
  <2>2. \A p \in 1..(n + 1) : next[p] = IF p = n + 1 THEN ssrc ELSE order[p]
    BY <1>1
  <2>3. ToSet(order) = {order[p] : p \in 1..n}
    BY <1>1 DEF ToSet
  <2>4. ToSet(next) = {next[p] : p \in 1..(n + 1)}
    BY <2>1 DEF ToSet
  <2>5. {next[p] : p \in 1..(n + 1)} = {order[p] : p \in 1..n} \cup {ssrc}
    <3> HIDE DEF next, n
    <3>1. \A p \in 1..(n + 1) : p = n + 1 \/ p \in 1..n
      BY <1>1
    <3>2. \A p \in 1..n : p \in 1..(n + 1) /\ p # n + 1
      BY <1>1
    <3>3. n + 1 \in 1..(n + 1)
      BY <1>1
    <3> QED
      BY <2>2, <3>1, <3>2, <3>3
  <2> QED
    BY <1>1, <2>1, <2>3, <2>4, <2>5
<1>3. (\A p \in 1..n : next[p] = order[p]) /\ next[n + 1] = ssrc
  BY <1>1
<1>4. Cardinality(D \cup {ssrc}) = n + 1
  <2>1. IsFiniteSet(D)
    BY StreamsFinite
  <2> QED
    BY <1>1, <2>1, FS_AddElement
<1>5. next # <<>>
  BY <1>1, <1>2
<1>6. last < n + 1
  BY <1>1 DEF Round
<1> HIDE DEF next
<1>7. ASSUME NEW p \in 1..(n + 1)
      PROVE  waited[next[p]] + Before(p, last, n + 1) < n + 1
  <2>1. CASE p \in 1..n
    <3>1. waited[order[p]] + Before(p, last, n) < n
      BY <2>1 DEF Round
    <3>2. order[p] \in SSRCs /\ waited[order[p]] \in Nat
      BY <1>1, <2>1
    <3>3. next[p] = order[p]
      BY <1>3, <2>1
    <3> DEFINE w == waited[order[p]]
    <3>4. w \in Nat /\ w + Before(p, last, n) < n
      BY <3>1, <3>2
    <3> HIDE DEF n, w
    <3>5. w + Before(p, last, n + 1) < n + 1
      BY <1>1, <2>1, <3>4 DEF Before
    <3> QED
      BY <3>3, <3>5 DEF w
  <2>2. CASE p = n + 1
    <3>1. waited[next[p]] = 0
      BY <1>3, <2>2 DEF Round
    <3> QED
      BY <1>1, <1>6, <2>2, <3>1 DEF Before
  <2> QED
    BY <1>1, <2>1, <2>2
<1>8. \A t \in SSRCs \ (D \cup {ssrc}) : waited[t] = 0
  BY DEF Round
<1> QED
  BY <1>1, <1>2, <1>4, <1>5, <1>6, <1>7, <1>8 DEF Round, next

LEMMA RoundResets ==
  ASSUME NEW D \in SUBSET SSRCs, NEW order, NEW last, NEW waited \in [SSRCs -> Nat],
         Round(D, order, last, waited), NEW less \in [SSRCs -> Nat],
         \A t \in SSRCs : less[t] = waited[t] \/ less[t] = 0
  PROVE  Round(D, order, last, less)
<1> DEFINE n == Len(order)
<1>1. order \in Seq(SSRCs) /\ n \in Nat /\ last \in Nat
  BY DEF Round
<1>2. ASSUME NEW p \in 1..n
      PROVE  less[order[p]] + Before(p, last, n) < n
  <2>1. waited[order[p]] + Before(p, last, n) < n
    BY DEF Round
  <2>2. order[p] \in SSRCs
    BY <1>1
  <2>3. waited[order[p]] \in Nat /\ less[order[p]] \in Nat /\ less[order[p]] <= waited[order[p]]
    BY <2>2
  <2>4. Before(p, last, n) \in Int
    BY <1>1 DEF Before
  <2> QED
    BY <1>1, <2>1, <2>3, <2>4
<1>3. \A t \in SSRCs \ D : less[t] = 0
  BY DEF Round
<1> QED
  BY <1>2, <1>3 DEF Round

\* As many streams are asked as it takes to fill the report, or all.
LEMMA SomeAreAsked ==
  ASSUME IInv, all_ssrcs # <<>>
  PROVE  AskedStreams \in 1..Len(all_ssrcs)
<1> DEFINE len == Len(all_ssrcs)
           Few(n) == \A m \in 1..(n - 1) : Cardinality(Asked(m)) < MaxBlocks
           Possible == {n \in 1..len : Few(n)}
<1>1. len \in Nat \ {0} /\ MaxBlocks \in Nat \ {0}
  BY StatisticsAssumption DEF IInv, Round
<1>2. ASSUME NEW n \in Nat
      PROVE  IsFiniteSet(Asked(n)) /\ Cardinality(Asked(n)) \in Nat
  <2>1. IsFiniteSet(1..n)
    BY FS_Interval
  <2>2. Asked(n) \subseteq 1..n
    BY DEF Asked
  <2> QED
    BY <2>1, <2>2, FS_Subset, FS_CardinalityType
<1>3. PICK n \in Possible : \A m \in Possible : m <= n
  <2>1. IsFiniteSet(1..len)
    BY <1>1, FS_Interval
  <2>2. IsFiniteSet(Possible) /\ Possible \in SUBSET Int
    BY <2>1, FS_Subset
  <2>3. 1 \in Possible
    <3>1. 1..(1 - 1) = {} /\ 1 \in 1..len
      BY <1>1
    <3> QED
      BY <3>1
  <2> HIDE DEF Possible
  <2> QED
    BY <2>2, <2>3, HasGreatest
<1>4. n \in 1..len /\ Few(n)
  OBVIOUS
<1>5. n = len \/ Cardinality(Asked(n)) = MaxBlocks
  <2> SUFFICES ASSUME n # len PROVE Cardinality(Asked(n)) = MaxBlocks
    OBVIOUS
  <2>1. n + 1 \in 1..len /\ n \in Nat /\ n \in 1..n
    BY <1>1, <1>4
  <2>2. ~Few(n + 1)
    <3>1. n + 1 \notin Possible
      BY <1>3, <2>1
    <3> QED
      BY <2>1, <3>1
  <2>3. PICK m \in 1..n : ~(Cardinality(Asked(m)) < MaxBlocks)
    <3>1. (n + 1) - 1 = n
      BY <2>1
    <3> QED
      BY <2>2, <3>1
  <2>4. m = n
    <3>1. m \notin 1..(n - 1)
      BY <1>4, <2>3
    <3> QED
      BY <2>1, <3>1
  <2>5. Cardinality(Asked(n)) \in Nat /\ ~(Cardinality(Asked(n)) < MaxBlocks)
    BY <1>2, <2>1, <2>3, <2>4
  <2>6. Cardinality(Asked(n)) <= MaxBlocks
    <3> DEFINE before == Asked(n - 1)
    <3>1. n - 1 \in Nat
      BY <2>1
    <3>2. IsFiniteSet(before) /\ Cardinality(before) \in Nat
      BY <1>2, <3>1
    <3>3. Asked(n) \subseteq before \cup {n}
      BY <2>1 DEF Asked
    <3>4. IsFiniteSet(before \cup {n}) /\ Cardinality(before \cup {n}) <= Cardinality(before) + 1
      <4>1. n \notin before
        BY <2>1 DEF Asked
      <4> HIDE DEF before
      <4>2. IsFiniteSet(before \cup {n}) /\ Cardinality(before \cup {n}) = Cardinality(before) + 1
        BY <3>2, <4>1, FS_AddElement
      <4> QED
        BY <3>2, <4>2
    <3>5. Cardinality(before \cup {n}) \in Nat /\ Cardinality(Asked(n)) <= Cardinality(before \cup {n})
      <4> HIDE DEF before
      <4> QED
        BY <3>3, <3>4, FS_Subset, FS_CardinalityType
    <3>6. Cardinality(before) + 1 <= MaxBlocks
      <4>1. CASE n = 1
        <5>1. before = {}
          BY <4>1 DEF Asked
        <5>2. Cardinality(before) = 0
          BY <5>1, FS_EmptySet
        <5> QED
          BY <1>1, <5>2
      <4>2. CASE n # 1
        <5>1. n - 1 \in 1..(n - 1)
          BY <2>1, <4>2
        <5>2. Cardinality(before) < MaxBlocks
          BY <1>4, <5>1
        <5> HIDE DEF before
        <5> QED
          BY <1>1, <3>2, <5>2
      <4> QED
        BY <4>1, <4>2
    <3> HIDE DEF before
    <3> QED
      BY <1>1, <2>5, <3>2, <3>4, <3>5, <3>6
  <2> QED
    BY <1>1, <2>5, <2>6
<1>6. \E k \in 1..Len(all_ssrcs) :
        /\ k = Len(all_ssrcs) \/ Cardinality(Asked(k)) = MaxBlocks
        /\ \A m \in 1..(k - 1) : Cardinality(Asked(m)) < MaxBlocks
  BY <1>4, <1>5
<1> QED
  BY <1>6 DEF AskedStreams

\* The stream at p is asked when those before it have been.
LEMMA TurnComes ==
  ASSUME IInv, NEW p \in 1..Len(all_ssrcs)
  PROVE  LET i == Before(p, last_returned, Len(all_ssrcs)) + 1
         IN i \in 1..Len(all_ssrcs) /\ Turn(i) = all_ssrcs[p]
<1> DEFINE len == Len(all_ssrcs)
           i == Before(p, last_returned, len) + 1
<1>1. len \in Nat \ {0} /\ last_returned \in Nat /\ last_returned < len
  BY DEF IInv, Round
<1> HIDE DEF len
<1>2. p \in 1..len
  BY DEF len
<1>3. i \in 1..len /\ last_returned + i \in 0..(2 * len - 1)
  BY <1>1, <1>2 DEF Before
<1> DEFINE k == last_returned + i
<1> HIDE DEF k
<1>4. k % len = IF k < len THEN k ELSE k - len
  <2>1. k \in 0..(2 * len - 1)
    BY <1>3 DEF k
  <2> HIDE DEF i
  <2> QED
    BY <1>1, <2>1, SmallRemainder
<1>5. ((last_returned + i) % len) + 1 = p
  <2>1. (IF k < len THEN k ELSE k - len) + 1 = p
    BY <1>1, <1>2, <1>3 DEF Before, k
  <2> HIDE DEF i
  <2> QED
    BY <1>4, <2>1 DEF k
<1> HIDE DEF i
<1>6. Turn(i) = all_ssrcs[p]
  BY <1>5 DEF Turn, len
<1> QED
  BY <1>3, <1>6 DEF len, i

\* After asked turns the stream at p is nearer, or was among them.
LEMMA NextIsNearer ==
  ASSUME NEW len \in Nat \ {0}, NEW last \in 0..(len - 1), NEW asked \in 1..len, NEW p \in 1..len
  PROVE  LET next == (last + asked) % len
         IN /\ next \in 0..(len - 1)
            /\ Before(p, next, len) \in 0..(len - 1)
            /\ Before(p, last, len) >= asked => Before(p, next, len) = Before(p, last, len) - asked
<1> DEFINE next == (last + asked) % len
<1> DEFINE k == last + asked
<1>1. k \in 0..(2 * len - 1)
  OBVIOUS
<1>2. next = IF k < len THEN k ELSE k - len
  <2>1. next = k % len
    OBVIOUS
  <2> HIDE DEF k, next
  <2> QED
    BY <1>1, <2>1, SmallRemainder
<1> HIDE DEF next
<1>3. next \in 0..(len - 1)
  BY <1>1, <1>2
<1>4. Before(p, next, len) \in 0..(len - 1)
  BY <1>3 DEF Before
<1>5. Before(p, last, len) >= asked => Before(p, next, len) = Before(p, last, len) - asked
  BY <1>2, <1>3 DEF Before
<1> QED
  BY <1>3, <1>4, <1>5 DEF next

-----------------------------------------------------------------------------
(* The statisticians together. *)

LEMMA Replaced ==
  ASSUME NEW D \in SUBSET SSRCs, NEW of \in [D -> Statistician],
         NEW h \in Histories, NEW g \in Histories, Counts(of, h),
         NEW ssrc \in D, NEW u \in Statistician, Sound(u),
         ssrc # Media => /\ Orderly(u) /\ SaneReport(u)
                         /\ g.sameReport = h.sameReport /\ g.samePeriod = h.samePeriod,
         ssrc = Media => /\ g.sameReport => SaneReport(u)
                         /\ g.samePeriod => SanePeriod(u)
  PROVE  LET new == [of EXCEPT ![ssrc] = u]
         IN new \in [D -> Statistician] /\ DOMAIN new = D /\ Counts(new, g)
<1> DEFINE new == [of EXCEPT ![ssrc] = u]
<1>1. new \in [D -> Statistician] /\ DOMAIN new = D /\ DOMAIN of = D
  OBVIOUS
<1>2. new[ssrc] = u /\ \A t \in D \ {ssrc} : new[t] = of[t]
  OBVIOUS
<1> HIDE DEF new
<1>3. ASSUME NEW t \in D
      PROVE  Sound(new[t]) /\ (t # Media => Orderly(new[t]) /\ SaneReport(new[t]))
  <2>1. CASE t = ssrc
    BY <1>2, <2>1
  <2>2. CASE t # ssrc
    BY <1>1, <1>2, <2>2 DEF Counts
  <2> QED
    BY <2>1, <2>2
<1>4. Media \in D => /\ g.sameReport => SaneReport(new[Media])
                     /\ g.samePeriod => SanePeriod(new[Media])
  <2>1. CASE ssrc = Media
    BY <1>2, <2>1
  <2>2. CASE ssrc # Media
    BY <1>1, <1>2, <2>2 DEF Counts
  <2> QED
    BY <2>1, <2>2
<1>5. Media \notin D => ~g.samePeriod
  BY <1>1 DEF Counts
<1> QED
  BY <1>1, <1>3, <1>4, <1>5 DEF Counts, new

\* What GetOrCreateStatistician leaves when a packet or a setting is the first one.
LEMMA Created ==
  ASSUME IInv, NEW ssrc \in SSRCs, NEW garbage \in Garbage
  PROVE  LET got == GetOrCreateStatistician(ssrc, garbage)
             D == DOMAIN statisticians \cup {ssrc}
         IN /\ D \in SUBSET SSRCs
            /\ got.of \in [D -> Statistician]
            /\ \A t \in DOMAIN statisticians : got.of[t] = statisticians[t]
            /\ ssrc \notin DOMAIN statisticians => got.of[ssrc] = NewStatistician(threshold, garbage)
            /\ Counts(got.of, history)
            /\ Round(D, got.order, last_returned, history.waited)
<1> DEFINE got == GetOrCreateStatistician(ssrc, garbage)
           D == DOMAIN statisticians \cup {ssrc}
           s == NewStatistician(threshold, garbage)
<1>1. /\ DOMAIN statisticians \subseteq SSRCs
      /\ statisticians \in [DOMAIN statisticians -> Statistician]
      /\ Counts(statisticians, history)
      /\ Round(DOMAIN statisticians, all_ssrcs, last_returned, history.waited)
      /\ history.waited \in [SSRCs -> Nat]
      /\ threshold \in Nat \ {0}
  BY DEF IInv, Types, Histories
<1>2. CASE ssrc \in DOMAIN statisticians
  <2>1. got = [of |-> statisticians, order |-> all_ssrcs] /\ D = DOMAIN statisticians
    BY <1>2 DEF GetOrCreateStatistician
  <2>2. got.of = statisticians /\ got.order = all_ssrcs
    BY <2>1
  <2> HIDE DEF got, D
  <2>3. Counts(got.of, history)
    BY <1>1, <2>2
  <2>4. Round(D, got.order, last_returned, history.waited)
    BY <1>1, <2>1, <2>2
  <2>5. got.of \in [D -> Statistician] /\ D \in SUBSET SSRCs
    BY <1>1, <2>1, <2>2
  <2>6. \A t \in DOMAIN statisticians : got.of[t] = statisticians[t]
    BY <2>2
  <2> QED
    BY <1>2, <2>3, <2>4, <2>5, <2>6 DEF got, D
<1>3. CASE ssrc \notin DOMAIN statisticians
  <2> DEFINE of == [t \in D |-> IF t = ssrc THEN s ELSE statisticians[t]]
  <2>1. got = [of |-> of, order |-> Append(all_ssrcs, ssrc)]
    BY <1>3 DEF GetOrCreateStatistician
  <2>2. /\ s \in Statistician /\ Sound(s) /\ Orderly(s) /\ SaneReport(s)
    BY <1>1, NewIsSound
  <2> HIDE DEF s
  <2>3. of \in [D -> Statistician] /\ DOMAIN of = D
    BY <1>1, <2>2
  <2>4. of[ssrc] = s /\ \A t \in DOMAIN statisticians : of[t] = statisticians[t]
    BY <1>3
  <2> HIDE DEF of, got
  <2>5. got.of = of /\ got.order = Append(all_ssrcs, ssrc)
    BY <2>1
  <2>6. Round(D, got.order, last_returned, history.waited)
    BY <1>1, <1>3, <2>5, RoundGrows
  <2>7. ASSUME NEW t \in D
        PROVE  Sound(of[t]) /\ (t # Media => Orderly(of[t]) /\ SaneReport(of[t]))
    <3>1. CASE t = ssrc
      BY <2>2, <2>4, <3>1
    <3>2. CASE t \in DOMAIN statisticians
      BY <1>1, <2>4, <3>2 DEF Counts
    <3> QED
      BY <3>1, <3>2
  <2>8. Media \in D => /\ history.sameReport => SaneReport(of[Media])
                       /\ history.samePeriod => SanePeriod(of[Media])
    <3>1. CASE Media \in DOMAIN statisticians
      BY <1>1, <2>4, <3>1 DEF Counts
    <3>2. CASE Media \notin DOMAIN statisticians
      <4>1. ~history.samePeriod
        BY <1>1, <3>2 DEF Counts
      <4>2. Media \in D => Media = ssrc
        BY <3>2
      <4> QED
        BY <2>2, <2>4, <4>1, <4>2
    <3> QED
      BY <3>1, <3>2
  <2>9. Media \notin D => ~history.samePeriod
    BY <1>1 DEF Counts
  <2>10. Counts(of, history)
    BY <2>3, <2>7, <2>8, <2>9 DEF Counts
  <2>11. D \in SUBSET SSRCs
    BY <1>1
  <2> HIDE DEF D
  <2> QED
    BY <2>3, <2>4, <2>5, <2>6, <2>10, <2>11 DEF got, D, s
<1> QED
  BY <1>2, <1>3

LEMMA PacketKeeps ==
  ASSUME IInv, NEW ssrc \in SSRCs, NEW number \in SeqNums, OnRtpPacket(ssrc, number),
         NEW g \in Histories, g.waited = history.waited,
         ssrc # Media => /\ g.sameReport = history.sameReport /\ g.samePeriod = history.samePeriod
                         /\ number = IF ssrc \in DOMAIN statisticians
                                     THEN (statisticians[ssrc].max + 1) % Modulus ELSE 0,
         ssrc = Media => /\ g.sameReport => history.sameReport
                         /\ g.samePeriod => history.samePeriod
                         /\ (g.sameReport \/ g.samePeriod) /\ Media \in DOMAIN statisticians
                              => ~IsRestart(statisticians[Media], number)
  PROVE  /\ DOMAIN statisticians' \subseteq SSRCs
         /\ statisticians' \in [DOMAIN statisticians' -> Statistician]
         /\ Counts(statisticians', g)
         /\ Round(DOMAIN statisticians', all_ssrcs', last_returned', g.waited)
<1>1. PICK garbage \in Garbage :
        LET got == GetOrCreateStatistician(ssrc, garbage)
        IN /\ statisticians' = [got.of EXCEPT ![ssrc] = UpdateCounters(@, number)]
           /\ all_ssrcs' = got.order
           /\ UNCHANGED <<last_returned, threshold>>
  BY DEF OnRtpPacket
<1> DEFINE got == GetOrCreateStatistician(ssrc, garbage)
           D == DOMAIN statisticians \cup {ssrc}
           s == got.of[ssrc]
           u == UpdateCounters(s, number)
<1>2. /\ D \in SUBSET SSRCs
      /\ got.of \in [D -> Statistician]
      /\ \A t \in DOMAIN statisticians : got.of[t] = statisticians[t]
      /\ ssrc \notin DOMAIN statisticians => got.of[ssrc] = NewStatistician(threshold, garbage)
      /\ Counts(got.of, history)
      /\ Round(D, got.order, last_returned, history.waited)
  BY Created
<1>3. statisticians' = [got.of EXCEPT ![ssrc] = u] /\ all_ssrcs' = got.order /\ last_returned' = last_returned
  BY <1>1
<1> HIDE DEF got
<1>4. ssrc \in D /\ s \in Statistician /\ DOMAIN got.of = D
  BY <1>2
<1>5. Sound(s) /\ (ssrc # Media => Orderly(s) /\ SaneReport(s))
  BY <1>2, <1>4 DEF Counts
<1> DEFINE restart == ReceivedRtpPacket(s) /\ IsRestart(s, number)
<1>6. /\ u \in Statistician /\ Sound(u)
      /\ ~restart => (SaneReport(s) => SaneReport(u)) /\ (SanePeriod(s) => SanePeriod(u))
  BY <1>4, <1>5, CountersKeep
<1>7. ssrc \notin DOMAIN statisticians => s.first = None /\ s.max = -1
  <2>1. threshold \in Nat \ {0}
    BY DEF IInv, Types
  <2>2. ssrc \notin DOMAIN statisticians => s.first = None
    BY <1>2, <2>1, NewIsSound
  <2> QED
    BY <1>5, <2>2 DEF Sound, None
<1>8. ssrc # Media => Orderly(u) /\ SaneReport(u)
  <2> SUFFICES ASSUME ssrc # Media PROVE Orderly(u) /\ SaneReport(u)
    OBVIOUS
  <2>1. number = (s.max + 1) % Modulus
    <3>1. CASE ssrc \in DOMAIN statisticians
      BY <1>2, <3>1
    <3>2. CASE ssrc \notin DOMAIN statisticians
      <4>1. (-1 + 1) % Modulus = 0
        <5>1. 0 = Modulus * 0 + 0 /\ 0 \in 0..(Modulus - 1) /\ Modulus \in Nat \ {0}
          BY Circle
        <5>2. 0 % Modulus = 0
          BY <5>1, RemainderIs
        <5> QED
          BY <5>2
      <4> QED
        BY <1>7, <3>2, <4>1
    <3> QED
      BY <3>1, <3>2
  <2>2. Orderly(u)
    BY <1>4, <1>5, <2>1, OrderlyKeeps
  <2>3. ~restart
    BY <1>5 DEF Orderly, IsRestart
  <2> QED
    BY <1>5, <1>6, <2>2, <2>3
<1>9. ssrc = Media => /\ g.sameReport => SaneReport(u)
                      /\ g.samePeriod => SanePeriod(u)
  <2> SUFFICES ASSUME ssrc = Media PROVE /\ g.sameReport => SaneReport(u)
                                         /\ g.samePeriod => SanePeriod(u)
    OBVIOUS
  <2>1. g.sameReport \/ g.samePeriod => ~restart
    <3>1. CASE Media \in DOMAIN statisticians
      <4>1. s = statisticians[Media]
        BY <1>2, <3>1
      <4> QED
        BY <3>1, <4>1
    <3>2. CASE Media \notin DOMAIN statisticians
      BY <1>7, <3>2 DEF ReceivedRtpPacket
    <3> QED
      BY <3>1, <3>2
  <2>2. (history.sameReport => SaneReport(s)) /\ (history.samePeriod => SanePeriod(s))
    BY <1>2, <1>4 DEF Counts
  <2> QED
    BY <1>6, <2>1, <2>2
<1> HIDE DEF u, s, D, restart
<1>10. history \in Histories
  BY DEF IInv, Types
<1>11. /\ statisticians' \in [D -> Statistician] /\ DOMAIN statisticians' = D
       /\ Counts(statisticians', g)
  BY <1>2, <1>3, <1>4, <1>6, <1>8, <1>9, <1>10, Replaced
<1>12. Round(D, all_ssrcs', last_returned', g.waited)
  BY <1>2, <1>3
<1> QED
  BY <1>2, <1>11, <1>12

LEMMA DeliverKeeps ==
  ASSUME IInv, NEW i \in DOMAIN flight, Deliver(i)
  PROVE  IInv'
<1> DEFINE packet == flight[i]
           restart == Media \in DOMAIN statisticians /\ IsRestart(statisticians[Media], packet.number)
           g == [history EXCEPT
                   !.first = IF @ = 0 THEN packet.id ELSE @,
                   !.top = IF packet.id > @ THEN packet.id ELSE @,
                   !.last = packet.id,
                   !.received = @ + 1,
                   !.tooEarly = IF restart /\ packet.id # history.last + 1 THEN @ + 1 ELSE @,
                   !.sameReport = @ /\ ~restart,
                   !.samePeriod = @ /\ ~restart]
<1>1. /\ OnRtpPacket(Media, packet.number)
      /\ flight' = Without(i) /\ history' = g /\ sender' = sender
  BY DEF Deliver
<1>2. flight \in Seq(Packets) /\ packet \in Packets /\ history \in Histories /\ threshold \in Nat \ {0}
  BY DEF IInv, Types
<1>3. packet.id \in Nat /\ packet.number \in SeqNums
  BY <1>2 DEF Packets
<1>4. flight' \in Seq(Packets)
  <2> DEFINE n == Len(flight)
  <2>1. n \in Nat \ {0} /\ i \in 1..n
    BY <1>2
  <2>2. \A j \in 1..(n - 1) : (IF j < i THEN flight[j] ELSE flight[j + 1]) \in Packets
    BY <1>2, <2>1
  <2>3. n - 1 \in Nat
    BY <2>1
  <2> QED
    BY <1>1, <2>2, <2>3 DEF Without
<1> DEFINE first == IF history.first = 0 THEN packet.id ELSE history.first
           top == IF packet.id > history.top THEN packet.id ELSE history.top
           received == history.received + 1
           tooEarly == IF restart /\ packet.id # history.last + 1
                         THEN history.tooEarly + 1 ELSE history.tooEarly
           sameReport == history.sameReport /\ ~restart
           samePeriod == history.samePeriod /\ ~restart
<1>5. first \in Nat /\ top \in Nat /\ received \in Nat /\ tooEarly \in Nat
  BY <1>2, <1>3 DEF Histories
<1>6. sameReport \in BOOLEAN /\ samePeriod \in BOOLEAN
  OBVIOUS
<1>7. g = [history EXCEPT !.first = first, !.top = top, !.last = packet.id,
                          !.received = received, !.tooEarly = tooEarly, !.sameReport = sameReport, !.samePeriod = samePeriod]
  OBVIOUS
<1> HIDE DEF g, first, top, received, tooEarly, sameReport, samePeriod
<1>8. /\ g \in Histories /\ g.waited = history.waited
      /\ g.sameReport = sameReport /\ g.samePeriod = samePeriod
  BY <1>2, <1>3, <1>5, <1>6, <1>7 DEF Histories
<1>9. Media \in SSRCs
  BY DEF SSRCs
<1>10. /\ g.sameReport => history.sameReport
       /\ g.samePeriod => history.samePeriod
       /\ (g.sameReport \/ g.samePeriod) /\ Media \in DOMAIN statisticians
            => ~IsRestart(statisticians[Media], packet.number)
  BY <1>8 DEF sameReport, samePeriod
<1> HIDE DEF packet, restart
<1>11. /\ DOMAIN statisticians' \subseteq SSRCs
       /\ statisticians' \in [DOMAIN statisticians' -> Statistician]
       /\ Counts(statisticians', g)
       /\ Round(DOMAIN statisticians', all_ssrcs', last_returned', g.waited)
  BY <1>1, <1>3, <1>8, <1>9, <1>10, PacketKeeps
<1>12. threshold' = threshold
  BY <1>1 DEF OnRtpPacket
<1> QED
  BY <1>1, <1>2, <1>4, <1>8, <1>11, <1>12 DEF IInv, Types

LEMMA ReceiveOtherKeeps ==
  ASSUME IInv, NEW ssrc \in OtherStreams, ReceiveOther(ssrc)
  PROVE  IInv'
<1> DEFINE number == IF ssrc \in DOMAIN statisticians
                     THEN (statisticians[ssrc].max + 1) % Modulus ELSE 0
<1>1. /\ OnRtpPacket(ssrc, number)
      /\ sender' = sender /\ flight' = flight /\ history' = history
  BY DEF ReceiveOther
<1>2. ssrc \in SSRCs /\ ssrc # Media
  BY StatisticsAssumption DEF SSRCs
<1>3. number \in SeqNums
  <2>1. CASE ssrc \in DOMAIN statisticians
    <3>1. statisticians[ssrc].max + 1 \in Int
      BY <2>1 DEF IInv, Types, Statistician
    <3> QED
      BY <2>1, <3>1, Remainder
  <2>2. CASE ssrc \notin DOMAIN statisticians
    BY <2>2, Circle DEF SeqNums
  <2> QED
    BY <2>1, <2>2
<1>4. history \in Histories
  BY DEF IInv, Types
<1>5. /\ DOMAIN statisticians' \subseteq SSRCs
      /\ statisticians' \in [DOMAIN statisticians' -> Statistician]
      /\ Counts(statisticians', history)
      /\ Round(DOMAIN statisticians', all_ssrcs', last_returned', history.waited)
  BY <1>1, <1>2, <1>3, <1>4, PacketKeeps
<1>6. threshold' = threshold
  BY <1>1 DEF OnRtpPacket
<1> QED
  BY <1>1, <1>5, <1>6 DEF IInv, Types

LEMMA ReportsKeep ==
  ASSUME IInv, SendReport
  PROVE  IInv'
<1> DEFINE D == DOMAIN statisticians
           len == Len(all_ssrcs)
<1>1. /\ D \in SUBSET SSRCs /\ statisticians \in [D -> Statistician]
      /\ Counts(statisticians, history)
      /\ Round(D, all_ssrcs, last_returned, history.waited)
      /\ history \in Histories /\ history.waited \in [SSRCs -> Nat]
  BY DEF IInv, Types, Histories
<1>2. CASE all_ssrcs = <<>>
  <2>1. last_returned' = 0 /\ UNCHANGED <<statisticians, history>>
    BY <1>2 DEF SendReport, RtcpReportBlocks
  <2>2. last_returned' = last_returned
    BY <1>1, <1>2, <2>1 DEF Round
  <2> QED
    BY <2>1, <2>2 DEF SendReport, IInv, Types
<1>3. CASE all_ssrcs # <<>>
  <2> DEFINE asked == AskedStreams
             served == {Turn(i) : i \in Asked(asked)}
             waited == [ssrc \in SSRCs |->
                          IF ssrc \in D \ served /\ Reports(statisticians[ssrc])
                            THEN history.waited[ssrc] + 1 ELSE 0]
             of == [ssrc \in D |-> IF ssrc \in served THEN AppendReportBlock(statisticians[ssrc])
                                   ELSE statisticians[ssrc]]
             sameReport == history.sameReport \/ Media \in served
  <2>1. /\ statisticians' = of
        /\ last_returned' = (last_returned + asked) % len
        /\ history' = [history EXCEPT !.sameReport = sameReport, !.waited = waited]
    BY <1>3 DEF SendReport, RtcpReportBlocks, NextTurn
  <2>2. asked \in 1..len
    BY <1>3, SomeAreAsked
  <2>4. waited \in [SSRCs -> Nat] /\ sameReport \in BOOLEAN
    BY <1>1
  <2>5. /\ history' \in Histories /\ history'.waited = waited
        /\ history'.sameReport = sameReport /\ history'.samePeriod = history.samePeriod
    <3> HIDE DEF waited, sameReport
    <3> QED
      BY <1>1, <2>1, <2>4 DEF Histories
  <2>6. ASSUME NEW t \in D
        PROVE  /\ of[t] \in Statistician /\ Sound(of[t])
               /\ t # Media => Orderly(of[t]) /\ SaneReport(of[t])
               /\ SaneReport(statisticians[t]) \/ t \in served => SaneReport(of[t])
               /\ SanePeriod(statisticians[t]) => SanePeriod(of[t])
    <3>1. /\ statisticians[t] \in Statistician /\ Sound(statisticians[t])
          /\ t # Media => Orderly(statisticians[t]) /\ SaneReport(statisticians[t])
      BY <1>1 DEF Counts
    <3>2. CASE t \in served
      <4>1. of[t] = AppendReportBlock(statisticians[t])
        BY <3>2
      <4> HIDE DEF of
      <4> QED
        BY <3>1, <4>1, ReportKeeps
    <3>3. CASE t \notin served
      <4>1. of[t] = statisticians[t]
        BY <3>3
      <4> HIDE DEF of
      <4> QED
        BY <3>1, <3>3, <4>1
    <3> QED
      BY <3>2, <3>3
  <2>7. of \in [D -> Statistician] /\ DOMAIN of = D
    <3>1. \A t \in D : of[t] \in Statistician
      BY <2>6
    <3> QED
      BY <3>1
  <2>8. Counts(of, history')
    <3>1. Media \in D => /\ history'.sameReport => SaneReport(of[Media])
                         /\ history'.samePeriod => SanePeriod(of[Media])
      <4>1. Media \in D => /\ history.sameReport => SaneReport(statisticians[Media])
                           /\ history.samePeriod => SanePeriod(statisticians[Media])
        BY <1>1 DEF Counts
      <4> HIDE DEF of, served
      <4> QED
        BY <2>5, <2>6, <4>1
    <3>2. Media \notin D => ~history'.samePeriod
      BY <1>1, <2>5 DEF Counts
    <3> HIDE DEF of
    <3> QED
      BY <2>6, <2>7, <3>1, <3>2 DEF Counts
  <2>9. len \in Nat \ {0} /\ last_returned \in 0..(len - 1)
    BY <1>1, <1>3 DEF Round
  <2> DEFINE next == (last_returned + asked) % len
  <2>10. ASSUME NEW p \in 1..len
         PROVE  /\ next \in 0..(len - 1)
                /\ Before(p, next, len) \in 0..(len - 1)
                /\ Before(p, last_returned, len) >= asked
                     => Before(p, next, len) = Before(p, last_returned, len) - asked
    <3> HIDE DEF asked, len
    <3> QED
      BY <2>2, <2>9, NextIsNearer
  <2>11. ASSUME NEW p \in 1..len
         PROVE  waited[all_ssrcs[p]] + Before(p, next, len) < len
    <3> DEFINE ssrc == all_ssrcs[p]
               i == Before(p, last_returned, len) + 1
    <3>1. ssrc \in D /\ ssrc \in SSRCs
      <4>1. all_ssrcs \in Seq(SSRCs) /\ ToSet(all_ssrcs) = D
        BY <1>1 DEF Round
      <4> QED
        BY <4>1 DEF ToSet
    <3>2. CASE ssrc \in served \/ ~Reports(statisticians[ssrc])
      <4>1. waited[ssrc] = 0
        BY <3>1, <3>2
      <4> HIDE DEF waited, next, len
      <4> QED
        BY <2>9, <2>10, <4>1
    <3>3. CASE ssrc \notin served /\ Reports(statisticians[ssrc])
      <4>1. i \in 1..len /\ Turn(i) = ssrc
        BY TurnComes
      <4>2. i \notin 1..asked
        <5>1. i \in 1..asked => i \in Asked(asked)
          BY <3>3, <4>1 DEF Asked
        <5>2. i \in Asked(asked) => ssrc \in served
          BY <4>1
        <5> QED
          BY <3>3, <5>1, <5>2
      <4>3. waited[ssrc] = history.waited[ssrc] + 1
        BY <3>1, <3>3
      <4>4. history.waited[ssrc] + Before(p, last_returned, len) < len
        BY <1>1 DEF Round
      <4>5. history.waited[ssrc] \in Nat
        BY <1>1, <3>1
      <4> HIDE DEF waited, len, asked, ssrc
      <4>6. Before(p, last_returned, len) \in Int
        BY <2>9 DEF Before
      <4>7. Before(p, last_returned, len) >= asked
        BY <2>2, <2>9, <4>1, <4>2, <4>6
      <4>8. Before(p, next, len) = Before(p, last_returned, len) - asked
        BY <2>10, <4>7
      <4> HIDE DEF next
      <4>9. waited[ssrc] + Before(p, next, len) < len
        BY <2>2, <2>9, <4>3, <4>4, <4>5, <4>6, <4>8
      <4> QED
        BY <4>9 DEF ssrc
    <3> QED
      BY <3>2, <3>3
  <2>12. \A t \in SSRCs \ D : waited[t] = 0
    OBVIOUS
  <2>13. next \in Nat /\ next < len
    <3>1. 1 \in 1..len
      BY <2>9
    <3>2. next \in 0..(len - 1)
      BY <2>10, <3>1
    <3> HIDE DEF next, len
    <3> QED
      BY <2>9, <3>2
  <2>14. Round(D, all_ssrcs, next, waited)
    <3> HIDE DEF next, waited, D
    <3> QED
      BY <1>1, <1>3, <2>11, <2>12, <2>13 DEF Round
  <2> HIDE DEF of, waited, sameReport, D, next
  <2>15. last_returned' = next
    BY <2>1 DEF next
  <2>16. DOMAIN statisticians' = D
    BY <2>1, <2>7
  <2>17. Types'
    BY <1>1, <2>1, <2>5, <2>7, <2>16 DEF SendReport, IInv, Types
  <2>18. Counts(statisticians', history')
    BY <2>1, <2>8
  <2>19. Round(DOMAIN statisticians', all_ssrcs', last_returned', history'.waited)
    BY <2>5, <2>14, <2>15, <2>16 DEF SendReport
  <2> QED
    BY <2>17, <2>18, <2>19 DEF IInv
<1> QED
  BY <1>2, <1>3

LEMMA StatsKeep ==
  ASSUME IInv, GetStats
  PROVE  IInv'
<1> DEFINE D == DOMAIN statisticians
           s == statisticians[Media]
           u == GetPeriodFractionLostInPercent(s)
           samePeriod == history.samePeriod \/ statisticians'[Media] # statisticians[Media]
           g == [history EXCEPT !.samePeriod = samePeriod]
<1>1. /\ D \in SUBSET SSRCs /\ statisticians \in [D -> Statistician]
      /\ Counts(statisticians, history)
      /\ Round(D, all_ssrcs, last_returned, history.waited)
      /\ history \in Histories
  BY DEF IInv, Types
<1>2. Media \in D /\ statisticians' = [statisticians EXCEPT ![Media] = u] /\ history' = g
  BY DEF GetStats
<1>3. s \in Statistician /\ Sound(s)
  BY <1>1, <1>2 DEF Counts
<1>4. /\ u \in Statistician /\ Sound(u)
      /\ SaneReport(s) => SaneReport(u)
      /\ u # s \/ SanePeriod(s) => SanePeriod(u)
  BY <1>3, PeriodKeeps
<1>5. /\ g \in Histories /\ g.waited = history.waited /\ g.sameReport = history.sameReport
      /\ g.samePeriod = samePeriod
  <2>1. samePeriod \in BOOLEAN
    BY <1>1 DEF Histories
  <2> HIDE DEF samePeriod
  <2> QED
    BY <1>1, <2>1 DEF Histories
<1>6. statisticians'[Media] = u
  BY <1>1, <1>2
<1>7. g.sameReport => SaneReport(u)
  <2>1. history.sameReport => SaneReport(s)
    BY <1>1, <1>2 DEF Counts
  <2> QED
    BY <1>4, <1>5, <2>1
<1>8. g.samePeriod => SanePeriod(u)
  <2>1. history.samePeriod => SanePeriod(s)
    BY <1>1, <1>2 DEF Counts
  <2> QED
    BY <1>4, <1>5, <1>6, <2>1
<1> HIDE DEF D, u, s, g, samePeriod
<1>9. /\ statisticians' \in [D -> Statistician] /\ DOMAIN statisticians' = D
      /\ Counts(statisticians', g)
  BY <1>1, <1>2, <1>4, <1>5, <1>7, <1>8, Replaced
<1> QED
  BY <1>1, <1>2, <1>5, <1>9 DEF GetStats, IInv, Types

LEMMA TimeoutKeeps ==
  ASSUME IInv, NEW ssrc \in SSRCs, TimesOut(ssrc)
  PROVE  IInv'
<1> DEFINE D == DOMAIN statisticians
           s == statisticians[ssrc]
           u == [s EXCEPT !.active = FALSE]
           less == [history.waited EXCEPT ![ssrc] = 0]
           g == [history EXCEPT !.waited = less]
<1>1. /\ D \in SUBSET SSRCs /\ statisticians \in [D -> Statistician]
      /\ Counts(statisticians, history)
      /\ Round(D, all_ssrcs, last_returned, history.waited)
      /\ history \in Histories /\ history.waited \in [SSRCs -> Nat]
  BY DEF IInv, Types, Histories
<1>2. ssrc \in D /\ statisticians' = [statisticians EXCEPT ![ssrc] = u] /\ history' = g
  BY DEF TimesOut
<1>3. /\ s \in Statistician /\ Sound(s)
      /\ ssrc # Media => Orderly(s) /\ SaneReport(s)
      /\ ssrc = Media => /\ history.sameReport => SaneReport(s)
                         /\ history.samePeriod => SanePeriod(s)
  BY <1>1, <1>2 DEF Counts
<1>4. /\ u \in Statistician /\ Sound(u)
      /\ SaneReport(s) => SaneReport(u)
      /\ SanePeriod(s) => SanePeriod(u)
      /\ Orderly(s) => Orderly(u)
  <2>1. 1 \in Nat \ {0}
    OBVIOUS
  <2> HIDE DEF s
  <2> QED
    BY <1>3, <2>1, SettingsKeep
<1>5. less \in [SSRCs -> Nat] /\ \A t \in SSRCs : less[t] = history.waited[t] \/ less[t] = 0
  BY <1>1
<1> HIDE DEF less
<1>6. /\ g \in Histories /\ g.waited = less /\ g.sameReport = history.sameReport
      /\ g.samePeriod = history.samePeriod
  BY <1>1, <1>5 DEF Histories
<1> HIDE DEF D, u, s, g
<1>7. /\ statisticians' \in [D -> Statistician] /\ DOMAIN statisticians' = D
      /\ Counts(statisticians', g)
  <2>1. ssrc # Media => /\ Orderly(u) /\ SaneReport(u)
                        /\ g.sameReport = history.sameReport /\ g.samePeriod = history.samePeriod
    BY <1>3, <1>4, <1>6
  <2>2. ssrc = Media => /\ g.sameReport => SaneReport(u)
                        /\ g.samePeriod => SanePeriod(u)
    BY <1>3, <1>4, <1>6
  <2> QED
    BY <1>1, <1>2, <1>4, <1>6, <2>1, <2>2, Replaced
<1>8. Round(D, all_ssrcs, last_returned, less)
  BY <1>1, <1>5, RoundResets
<1> QED
  BY <1>1, <1>2, <1>6, <1>7, <1>8 DEF TimesOut, IInv, Types

LEMMA CountKeeps ==
  ASSUME IInv, sender' = [sender EXCEPT !.settings = @ + 1]
  PROVE  sender' \in [number : SeqNums, sent : Nat, restarts : Nat, settings : Nat]
<1>1. sender \in [number : SeqNums, sent : Nat, restarts : Nat, settings : Nat]
  BY DEF IInv, Types
<1>2. sender.settings + 1 \in Nat
  BY <1>1
<1> QED
  BY <1>1, <1>2

LEMMA ThresholdKeeps ==
  ASSUME IInv, NEW t \in Thresholds, SetMaxReorderingThreshold(t)
  PROVE  IInv'
<1> DEFINE D == DOMAIN statisticians
           of == [ssrc \in D |-> [statisticians[ssrc] EXCEPT !.threshold = t]]
<1>1. /\ D \in SUBSET SSRCs /\ statisticians \in [D -> Statistician]
      /\ Counts(statisticians, history)
  BY DEF IInv, Types
<1>2. statisticians' = of
  BY DEF SetMaxReorderingThreshold
<1>3. t \in Nat \ {0}
  BY StatisticsAssumption
<1>4. ASSUME NEW ssrc \in D
      PROVE  /\ of[ssrc] \in Statistician /\ Sound(of[ssrc])
             /\ ssrc # Media => Orderly(of[ssrc]) /\ SaneReport(of[ssrc])
             /\ SaneReport(statisticians[ssrc]) => SaneReport(of[ssrc])
             /\ SanePeriod(statisticians[ssrc]) => SanePeriod(of[ssrc])
  <2> DEFINE s == statisticians[ssrc]
             u == [s EXCEPT !.threshold = t]
  <2>1. /\ s \in Statistician /\ Sound(s)
        /\ ssrc # Media => Orderly(s) /\ SaneReport(s)
    BY <1>1 DEF Counts
  <2>2. of[ssrc] = u
    OBVIOUS
  <2>3. /\ u \in Statistician /\ Sound(u)
        /\ SaneReport(s) => SaneReport(u)
        /\ SanePeriod(s) => SanePeriod(u)
        /\ Orderly(s) => Orderly(u)
    <3> HIDE DEF s
    <3> QED
      BY <1>3, <2>1, SettingsKeep
  <2> HIDE DEF u, of
  <2> QED
    BY <2>1, <2>2, <2>3
<1>5. of \in [D -> Statistician] /\ DOMAIN of = D
  <2>1. \A ssrc \in D : of[ssrc] \in Statistician
    BY <1>4
  <2> QED
    BY <2>1
<1> HIDE DEF of
<1>6. Counts(of, history)
  <2>1. Media \in D => /\ history.sameReport => SaneReport(statisticians[Media])
                       /\ history.samePeriod => SanePeriod(statisticians[Media])
    BY <1>1 DEF Counts
  <2>2. Media \notin D => ~history.samePeriod
    BY <1>1 DEF Counts
  <2> HIDE DEF D
  <2> QED
    BY <1>4, <1>5, <2>1, <2>2 DEF Counts
<1>7. sender' \in [number : SeqNums, sent : Nat, restarts : Nat, settings : Nat]
  BY CountKeeps DEF SetMaxReorderingThreshold
<1> QED
  BY <1>1, <1>2, <1>3, <1>5, <1>6, <1>7 DEF SetMaxReorderingThreshold, IInv, Types

LEMMA StreamThresholdKeeps ==
  ASSUME IInv, NEW ssrc \in SSRCs, NEW t \in Thresholds, SetStreamThreshold(ssrc, t)
  PROVE  IInv'
<1>1. PICK garbage \in Garbage :
        LET got == GetOrCreateStatistician(ssrc, garbage)
        IN /\ statisticians' = [got.of EXCEPT ![ssrc].threshold = t]
           /\ all_ssrcs' = got.order
  BY DEF SetStreamThreshold
<1> DEFINE got == GetOrCreateStatistician(ssrc, garbage)
           D == DOMAIN statisticians \cup {ssrc}
           s == got.of[ssrc]
           u == [s EXCEPT !.threshold = t]
<1>2. /\ D \in SUBSET SSRCs
      /\ got.of \in [D -> Statistician]
      /\ Counts(got.of, history)
      /\ Round(D, got.order, last_returned, history.waited)
  BY Created
<1>3. statisticians' = [got.of EXCEPT ![ssrc] = u] /\ all_ssrcs' = got.order
  BY <1>1
<1> HIDE DEF got
<1>4. /\ ssrc \in D /\ s \in Statistician /\ Sound(s)
      /\ ssrc # Media => Orderly(s) /\ SaneReport(s)
      /\ ssrc = Media => /\ history.sameReport => SaneReport(s)
                         /\ history.samePeriod => SanePeriod(s)
  BY <1>2 DEF Counts
<1>5. t \in Nat \ {0}
  BY StatisticsAssumption
<1>6. /\ u \in Statistician /\ Sound(u)
      /\ SaneReport(s) => SaneReport(u)
      /\ SanePeriod(s) => SanePeriod(u)
      /\ Orderly(s) => Orderly(u)
  <2> HIDE DEF s
  <2> QED
    BY <1>4, <1>5, SettingsKeep
<1>7. history \in Histories
  BY DEF IInv, Types
<1> HIDE DEF D, u, s
<1>8. /\ statisticians' \in [D -> Statistician] /\ DOMAIN statisticians' = D
      /\ Counts(statisticians', history)
  <2>1. ssrc # Media => Orderly(u) /\ SaneReport(u)
    BY <1>4, <1>6
  <2>2. ssrc = Media => /\ history.sameReport => SaneReport(u)
                        /\ history.samePeriod => SanePeriod(u)
    BY <1>4, <1>6
  <2> QED
    BY <1>2, <1>3, <1>4, <1>6, <1>7, <2>1, <2>2, Replaced
<1>9. sender' \in [number : SeqNums, sent : Nat, restarts : Nat, settings : Nat]
  BY CountKeeps DEF SetStreamThreshold
<1> QED
  BY <1>2, <1>3, <1>8, <1>9 DEF SetStreamThreshold, IInv, Types

\* What the network does touches no statistician.
LEMMA NetworkKeeps ==
  ASSUME IInv, Send \/ Jump \/ (\E i \in DOMAIN flight : Lose(i))
  PROVE  IInv'
<1> DEFINE Senders == [number : SeqNums, sent : Nat, restarts : Nat, settings : Nat]
<1>1. sender \in Senders /\ flight \in Seq(Packets) /\ history \in Histories
  BY DEF IInv, Types
<1>2. ASSUME NEW d \in SeqNums
      PROVE  Plus(sender.number, d) \in SeqNums
  BY <1>1, Circle DEF Plus, SeqNums
<1>3. CASE Send
  <2>1. [id |-> sender.sent + 1, number |-> sender.number] \in Packets
    BY <1>1 DEF Packets
  <2>2. flight' \in Seq(Packets)
    BY <1>1, <1>3, <2>1 DEF Send
  <2>3. Plus(sender.number, 1) \in SeqNums /\ sender.sent + 1 \in Nat
    <3>1. 1 \in SeqNums
      BY Circle DEF SeqNums
    <3> QED
      BY <1>1, <1>2, <3>1
  <2>4. sender' \in Senders
    BY <1>1, <1>3, <2>3 DEF Send
  <2> QED
    BY <1>3, <2>2, <2>4 DEF Send, IInv, Types
<1>4. CASE Jump
  <2>1. PICK jump \in Jumps : sender' = [sender EXCEPT !.restarts = @ + 1, !.number = Plus(@, jump)]
    BY <1>4 DEF Jump
  <2>2. Plus(sender.number, jump) \in SeqNums /\ sender.restarts + 1 \in Nat
    BY <1>1, <1>2, StatisticsAssumption
  <2>3. sender' \in Senders
    BY <1>1, <2>1, <2>2
  <2> QED
    BY <1>4, <2>3 DEF Jump, IInv, Types
<1>5. ASSUME NEW i \in DOMAIN flight, Lose(i)
      PROVE  IInv'
  <2>1. flight' = Without(i) /\ history' = [history EXCEPT !.lost = @ + 1]
    BY <1>5 DEF Lose
  <2>2. flight' \in Seq(Packets)
    <3> DEFINE n == Len(flight)
    <3>1. n \in Nat \ {0} /\ i \in 1..n
      BY <1>1
    <3>2. \A j \in 1..(n - 1) : (IF j < i THEN flight[j] ELSE flight[j + 1]) \in Packets
      BY <1>1, <3>1
    <3>3. n - 1 \in Nat
      BY <3>1
    <3> QED
      BY <2>1, <3>2, <3>3 DEF Without
  <2>3. history.lost + 1 \in Nat
    BY <1>1 DEF Histories
  <2>4. history' \in Histories
    BY <1>1, <2>1, <2>3 DEF Histories
  <2>5. /\ history'.waited = history.waited /\ history'.sameReport = history.sameReport
        /\ history'.samePeriod = history.samePeriod
    BY <1>1, <2>1 DEF Histories
  <2>6. Counts(statisticians, history')
    BY <2>5 DEF IInv, Counts
  <2> QED
    BY <1>5, <2>2, <2>4, <2>5, <2>6 DEF Lose, IInv, Types
<1> QED
  BY <1>3, <1>4, <1>5

LEMMA InitKeeps == Init => IInv
<1> SUFFICES ASSUME Init PROVE IInv
  OBVIOUS
<1>1. statisticians = <<>> /\ DOMAIN statisticians = {} /\ all_ssrcs = <<>> /\ last_returned = 0
  BY DEF Init
<1>2. statisticians \in [DOMAIN statisticians -> Statistician]
  BY <1>1
<1>3. threshold \in Nat \ {0}
  BY StatisticsAssumption DEF Init
<1>4. sender \in [number : SeqNums, sent : Nat, restarts : Nat, settings : Nat]
  BY StatisticsAssumption DEF Init
<1>5. flight \in Seq(Packets)
  BY DEF Init
<1>6. /\ history \in Histories /\ ~history.samePeriod
      /\ history.waited = [ssrc \in SSRCs |-> 0]
  BY DEF Init, Histories
<1>7. Counts(statisticians, history)
  BY <1>1, <1>6 DEF Counts
<1>8. Round(DOMAIN statisticians, all_ssrcs, last_returned, history.waited)
  <2>1. all_ssrcs \in Seq(SSRCs) /\ Len(all_ssrcs) = 0 /\ ToSet(all_ssrcs) = {}
    BY <1>1 DEF ToSet
  <2>2. Cardinality(DOMAIN statisticians) = 0
    BY <1>1, FS_EmptySet
  <2> QED
    BY <1>1, <1>6, <2>1, <2>2 DEF Round
<1> QED
  BY <1>1, <1>2, <1>3, <1>4, <1>5, <1>6, <1>7, <1>8 DEF IInv, Types

LEMMA StepKeeps == IInv /\ [Next]_vars => IInv'
<1> SUFFICES ASSUME IInv, [Next]_vars PROVE IInv'
  OBVIOUS
<1>1. ASSUME NEW i \in DOMAIN flight, Lose(i) \/ Deliver(i)
      PROVE  IInv'
  BY <1>1, NetworkKeeps, DeliverKeeps
<1>2. ASSUME NEW ssrc \in SSRCs, TimesOut(ssrc)
      PROVE  IInv'
  BY <1>2, TimeoutKeeps
<1>3. ASSUME NEW t \in Thresholds, NEW ssrc \in SSRCs, SetStreamThreshold(ssrc, t)
      PROVE  IInv'
  BY <1>3, StreamThresholdKeeps
<1>4. CASE Send \/ Jump
  BY <1>4, NetworkKeeps
<1>5. CASE SendReport
  BY <1>5, ReportsKeep
<1>6. CASE GetStats
  BY <1>6, StatsKeep
<1>7. CASE UNCHANGED vars
  BY <1>7 DEF vars, IInv, Types
<1> QED
  BY <1>1, <1>2, <1>3, <1>4, <1>5, <1>6, <1>7, ReceiveOtherKeeps, ThresholdKeeps DEF Next

-----------------------------------------------------------------------------
(* The theorem. *)

LEMMA InvariantIsSane == IInv => ReportsAreSane
<1> SUFFICES ASSUME IInv PROVE ReportsAreSane
  OBVIOUS
<1> DEFINE D == DOMAIN statisticians
<1>1. /\ D \in SUBSET SSRCs /\ statisticians \in [D -> Statistician]
      /\ Counts(statisticians, history)
      /\ Round(D, all_ssrcs, last_returned, history.waited)
      /\ history \in Histories /\ history.waited \in [SSRCs -> Nat]
  BY DEF IInv, Types, Histories
<1>2. /\ Cardinality(D) \in Nat /\ Cardinality(D) <= Cardinality(SSRCs)
      /\ Cardinality(SSRCs) \in Nat \ {0}
  BY <1>1, StreamsFinite
<1>3. /\ all_ssrcs \in Seq(SSRCs) /\ ToSet(all_ssrcs) = D
      /\ Len(all_ssrcs) = Cardinality(D) /\ last_returned \in Nat
      /\ IF all_ssrcs = <<>> THEN last_returned = 0 ELSE last_returned < Len(all_ssrcs)
  BY <1>1 DEF Round
<1>4. TypeOK
  <2>1. {all_ssrcs[i] : i \in DOMAIN all_ssrcs} = D
    BY <1>3 DEF ToSet
  <2>2. last_returned \in 0..Cardinality(SSRCs)
    BY <1>2, <1>3
  <2>3. ASSUME NEW ssrc \in D
        PROVE  LET s == statisticians[ssrc]
               IN /\ s.loss \in Int /\ s.offset \in Nat /\ s.max \in Int
                  /\ s.outOfOrder \in SeqNums \cup {None}
                  /\ s.active => ReceivedRtpPacket(s)
    <3>1. statisticians[ssrc] \in Statistician /\ Sound(statisticians[ssrc])
      BY <1>1 DEF Counts
    <3> QED
      BY <3>1 DEF Statistician, Sound, ReceivedRtpPacket
  <2> QED
    BY <1>1, <1>3, <2>1, <2>2, <2>3 DEF TypeOK
<1>5. RatesAreSane
  <2> SUFFICES ASSUME NEW ssrc \in D
               PROVE  LET s == statisticians[ssrc]
                      IN /\ ExpectedSinceReport(s) >= 0
                         /\ history.sameReport => LostSinceReport(s) <= ExpectedSinceReport(s)
                         /\ ssrc = Media /\ history.samePeriod => LostInPeriod(s) <= ExpectedInPeriod(s)
    BY DEF RatesAreSane
  <2> DEFINE s == statisticians[ssrc]
  <2>1. /\ s \in Statistician /\ Sound(s)
        /\ ssrc # Media => SaneReport(s)
        /\ ssrc = Media => /\ history.sameReport => SaneReport(s)
                           /\ history.samePeriod => SanePeriod(s)
    BY <1>1 DEF Counts
  <2> HIDE DEF s
  <2>2. ExpectedSinceReport(s) >= 0
    BY <2>1 DEF Sound, Statistician, ExpectedSinceReport
  <2>3. history.sameReport => LostSinceReport(s) <= ExpectedSinceReport(s)
    BY <2>1 DEF SaneReport, LostSinceReport, ExpectedSinceReport
  <2>4. ssrc = Media /\ history.samePeriod => LostInPeriod(s) <= ExpectedInPeriod(s)
    BY <2>1 DEF SanePeriod, LostInPeriod, ExpectedInPeriod
  <2> QED
    BY <2>2, <2>3, <2>4 DEF s
<1>6. NoStreamStarves
  <2> SUFFICES ASSUME NEW ssrc \in SSRCs
               PROVE  history.waited[ssrc] < Cardinality(SSRCs)
    BY DEF NoStreamStarves
  <2>1. CASE ssrc \in D
    <3>1. PICK p \in 1..Len(all_ssrcs) : all_ssrcs[p] = ssrc
      BY <1>3, <2>1 DEF ToSet
    <3>2. history.waited[ssrc] + Before(p, last_returned, Len(all_ssrcs)) < Len(all_ssrcs)
      BY <1>1, <3>1 DEF Round
    <3>3. Before(p, last_returned, Len(all_ssrcs)) \in Nat
      <4>1. last_returned < Len(all_ssrcs) /\ Len(all_ssrcs) \in Nat
        BY <1>3, <3>1
      <4> QED
        BY <1>3, <3>1, <4>1 DEF Before
    <3>4. history.waited[ssrc] \in Nat
      BY <1>1
    <3> QED
      BY <1>2, <1>3, <3>2, <3>3, <3>4
  <2>2. CASE ssrc \notin D
    <3>1. history.waited[ssrc] = 0
      BY <1>1, <2>2 DEF Round
    <3> QED
      BY <1>2, <3>1
  <2> QED
    BY <2>1, <2>2
<1> QED
  BY <1>4, <1>5, <1>6 DEF ReportsAreSane

\* Whatever packets come, in any order and with any numbers, however many streams there
\* are and however few blocks fit: no report expects less than nothing or, unless the
\* stream began anew, loses more than it expects, and every stream with something to
\* report is asked after at most as many reports as there are other streams.
THEOREM StatisticsAreSane == Spec => []ReportsAreSane
<1>1. Init => IInv
  BY InitKeeps
<1>2. IInv /\ [Next]_vars => IInv'
  BY StepKeeps
<1>3. IInv => ReportsAreSane
  BY InvariantIsSane
<1> QED
  BY <1>1, <1>2, <1>3, PTL DEF Spec

-----------------------------------------------------------------------------
(* The loss of a stream that never starts anew.  The packet with the index k *)
(* has the number k + b of the unwrapped numbers, and the statistician's     *)
(* greatest number is that of the latest packet received.                    *)

Num(k, b) == (k + b) % Modulus

\* The packets under way are of those sent, none is the latest received, and of two
\* the one sent last is the second.
UnderWay(packets, from, top, b) ==
  /\ Len(packets) <= 2
  /\ from.number = Num(from.sent + 1, b)
  /\ \A i \in DOMAIN packets :
       /\ packets[i].id \in 1 .. from.sent /\ packets[i].id # top
       /\ packets[i].number = Num(packets[i].id, b)
  /\ Len(packets) = 2 => packets[1].id < packets[2].id /\ packets[2].id = from.sent
  /\ top <= from.sent

\* A packet kept back came late, and the one after it is not under way: no packet to
\* come makes it the beginning of a restart.
KeptBack(kept, packets, top, b) ==
  kept # None =>
    \E k \in 1 .. (top - 1) :
      /\ kept = Num(k, b) /\ top - k < Half
      /\ \A i \in DOMAIN packets : packets[i].id # k + 1

Kept(s) == IF s.outOfOrder = None THEN 0 ELSE 1
Missing(h) == h.top - h.first + 1 - h.received

Tallied(s, packets, h, b) ==
  /\ h.top > 0 /\ h.first > 0
  /\ s.first # None /\ s.unwrapped = s.max /\ s.max = h.top + b /\ s.max >= 0
  /\ s.loss = Missing(h) + Kept(s)
  /\ KeptBack(s.outOfOrder, packets, h.top, b)

Untallied(of, h) ==
  /\ h.top = 0 /\ h.first = 0
  /\ Media \in DOMAIN of => of[Media].loss = 0 /\ of[Media].first = None

ExactFrom(of, packets, from, h, b) ==
  /\ UnderWay(packets, from, h.top, b)
  /\ h.received = 0 => Untallied(of, h)
  /\ h.received > 0 => Media \in DOMAIN of /\ Tallied(of[Media], packets, h, b)

Exact ==
  sender.restarts = 0 => \E b \in Int : ExactFrom(statisticians, flight, sender, history, b)

\* What the exact count needs of the network: a packet under way is less than half a
\* turn from the latest received, and not so far ahead that it is kept back.
NearEnough ==
  sender.restarts = 0 /\ history.received > 0 =>
    /\ statisticians[Media].threshold <= Half
    /\ \A i \in DOMAIN flight :
         LET d == flight[i].id - history.top
         IN d < Half /\ -d < Half /\ d <= statisticians[Media].threshold

LEMMA Congruent ==
  ASSUME NEW m \in Int, NEW n \in Int, m % Modulus = n % Modulus
  PROVE  /\ \A k \in Int : (m + k) % Modulus = (n + k) % Modulus
         /\ m - n < Modulus /\ n - m < Modulus => m = n
<1> DEFINE M == Modulus
           p == m \div M
           q == n \div M
           r == n % M
<1>1. M \in Nat \ {0}
  BY Circle
<1>2. p \in Int /\ q \in Int /\ r \in 0 .. (M - 1) /\ m = M * p + r /\ n = M * q + r
  BY <1>1
<1> HIDE DEF p, q, r, M
<1>3. M * p \in Int /\ M * q \in Int
  BY <1>1, <1>2
<1>4. ASSUME NEW k \in Int
      PROVE  (m + k) % M = (n + k) % M
  <2> DEFINE a == (n + k) \div M
             c == (n + k) % M
             e == p - q + a
  <2>1. a \in Int /\ c \in 0 .. (M - 1) /\ n + k = M * a + c
    <3>1. n + k \in Int
      OBVIOUS
    <3> QED
      BY <1>1, <3>1
  <2> HIDE DEF a, c
  <2>2. e \in Int /\ M * e = M * p - M * q + M * a
    BY <1>1, <1>2, <2>1
  <2>3. M * a \in Int /\ M * e \in Int
    BY <1>1, <2>1, <2>2
  <2> HIDE DEF e
  <2>4. m + k = M * e + c /\ m + k \in Int
    BY <1>2, <1>3, <2>1, <2>2, <2>3
  <2>5. (m + k) % M = c
    BY <1>1, <2>1, <2>2, <2>4, RemainderIs
  <2> QED
    BY <2>5 DEF c
<1>5. ASSUME m - n < M, n - m < M
      PROVE  m = n
  <2>1. CASE p = q
    BY <1>2, <2>1
  <2>2. CASE p > q
    <3>1. p - q \in Nat \ {0} /\ M * (p - q) = M * p - M * q
      BY <1>1, <1>2, <2>2
    <3>2. M * (p - q) >= M
      BY <1>1, <3>1, ProductGrows
    <3> QED
      BY <1>1, <1>2, <1>3, <1>5, <3>1, <3>2
  <2>3. CASE p < q
    <3>1. q - p \in Nat \ {0} /\ M * (q - p) = M * q - M * p
      BY <1>1, <1>2, <2>3
    <3>2. M * (q - p) >= M
      BY <1>1, <3>1, ProductGrows
    <3> QED
      BY <1>1, <1>2, <1>3, <1>5, <3>1, <3>2
  <2> QED
    BY <1>2, <2>1, <2>2, <2>3
<1> QED
  BY <1>4, <1>5 DEF M

\* The remainder of a number less than a turn from n.
LEMMA NearRemainder ==
  ASSUME NEW n \in Int, NEW d \in Int, d < Modulus, -d < Modulus
  PROVE  LET last == n % Modulus
         IN (n + d) % Modulus = IF last + d >= Modulus THEN last + d - Modulus
                                ELSE IF last + d < 0 THEN last + d + Modulus ELSE last + d
<1> DEFINE M == Modulus
           q == n \div M
           last == n % M
<1>1. M \in Nat \ {0}
  BY Circle
<1>2. q \in Int /\ last \in 0 .. (M - 1) /\ n = M * q + last
  BY <1>1
<1> HIDE DEF q, last, M
<1>3. /\ M * q \in Int
      /\ M * (q + 1) = M * q + M /\ M * (q - 1) = M * q - M
      /\ q + 1 \in Int /\ q - 1 \in Int /\ n + d \in Int
  BY <1>1, <1>2
<1>4. d < M /\ -d < M
  BY DEF M
<1>5. CASE last + d >= M
  <2>1. n + d = M * (q + 1) + (last + d - M) /\ last + d - M \in 0 .. (M - 1)
    BY <1>1, <1>2, <1>3, <1>4, <1>5
  <2>2. (n + d) % M = last + d - M
    BY <1>1, <1>3, <2>1, RemainderIs
  <2> QED
    BY <1>5, <2>2 DEF M, last
<1>6. CASE last + d < 0
  <2>1. n + d = M * (q - 1) + (last + d + M) /\ last + d + M \in 0 .. (M - 1)
    BY <1>1, <1>2, <1>3, <1>4, <1>6
  <2>2. (n + d) % M = last + d + M
    BY <1>1, <1>3, <2>1, RemainderIs
  <2>3. ~(last + d >= M)
    BY <1>1, <1>2, <1>6
  <2> QED
    BY <1>6, <2>2, <2>3 DEF M, last
<1>7. CASE ~(last + d >= M) /\ ~(last + d < 0)
  <2>1. n + d = M * q + (last + d) /\ last + d \in 0 .. (M - 1)
    BY <1>1, <1>2, <1>3, <1>7
  <2>2. (n + d) % M = last + d
    BY <1>1, <1>2, <1>3, <2>1, RemainderIs
  <2> QED
    BY <1>7, <2>2 DEF M, last
<1> QED
  BY <1>5, <1>6, <1>7

\* A packet less than half a turn away is unwrapped to its own number; a late one may
\* come out a turn too far, when its own number would be below zero.
LEMMA UnwrapNear ==
  ASSUME NEW s \in Statistician, s.unwrapped \in Nat,
         NEW d \in Int, d < Half, -d < Half
  PROVE  LET seq == Unwrap(s, (s.unwrapped + d) % Modulus)
         IN seq = s.unwrapped + d \/ (d < 0 /\ seq = s.unwrapped + d + Modulus)
<1> DEFINE n == s.unwrapped
           last == n % Modulus
           number == (n + d) % Modulus
           diff == number - last
           ahead == AheadOf(number, last)
<1>1. last \in SeqNums /\ number \in SeqNums /\ n \in Nat /\ n # None
  BY Remainder DEF None
<1>2. number = IF last + d >= Modulus THEN last + d - Modulus
               ELSE IF last + d < 0 THEN last + d + Modulus ELSE last + d
  <2>1. d < Modulus /\ -d < Modulus
    BY Circle
  <2>2. n \in Int
    BY <1>1
  <2> HIDE DEF n
  <2> QED
    BY <2>1, <2>2, NearRemainder
<1> HIDE DEF last, number
<1>3. Unwrap(s, number) = n + CASE ahead /\ diff < 0 -> diff + Modulus
                                [] ~ahead /\ diff > 0 /\ n + diff - Modulus >= 0 -> diff - Modulus
                                [] OTHER -> diff
  BY <1>1 DEF Unwrap, last
<1>4. CASE d > 0
  <2>1. ahead
    BY <1>1, <1>2, <1>4, Circle DEF AheadOf, AheadOrAt, ForwardDiff, SeqNums
  <2>2. CASE diff < 0
    <3>1. diff = d - Modulus
      BY <1>1, <1>2, <1>4, <2>2, Circle DEF SeqNums
    <3>2. Unwrap(s, number) = n + (diff + Modulus)
      BY <1>3, <2>1, <2>2
    <3> QED
      BY <1>1, <3>1, <3>2, Circle DEF number
  <2>3. CASE ~(diff < 0)
    <3>1. diff = d
      BY <1>1, <1>2, <1>4, <2>3, Circle DEF SeqNums
    <3>2. Unwrap(s, number) = n + diff
      BY <1>3, <2>1, <2>3
    <3> QED
      BY <1>1, <3>1, <3>2 DEF number
  <2> QED
    BY <2>2, <2>3
<1>5. CASE d = 0
  <2>1. ~ahead /\ diff = 0
    BY <1>1, <1>2, <1>5, Circle DEF AheadOf, SeqNums
  <2>2. Unwrap(s, number) = n + diff
    BY <1>3, <2>1
  <2> QED
    BY <1>1, <1>5, <2>1, <2>2 DEF number
<1>6. CASE d < 0
  <2>1. ~ahead
    BY <1>1, <1>2, <1>6, Circle DEF AheadOf, AheadOrAt, ForwardDiff, SeqNums
  <2>2. CASE diff > 0
    <3>1. diff = d + Modulus
      BY <1>1, <1>2, <1>6, <2>2, Circle DEF SeqNums
    <3>2. Unwrap(s, number) = n + (diff - Modulus) \/ Unwrap(s, number) = n + diff
      BY <1>3, <2>1, <2>2
    <3> QED
      BY <1>1, <1>6, <3>1, <3>2, Circle DEF number
  <2>3. CASE ~(diff > 0)
    <3>1. diff = d
      BY <1>1, <1>2, <1>6, <2>3, Circle DEF SeqNums
    <3>2. Unwrap(s, number) = n + diff
      BY <1>3, <2>1, <2>3
    <3> QED
      BY <1>1, <3>1, <3>2 DEF number
  <2> QED
    BY <2>2, <2>3
<1> QED
  BY <1>4, <1>5, <1>6

LEMMA SettledCounts ==
  ASSUME NEW s \in Statistician
  PROVE  LET u == Settled(s)
         IN /\ u \in Statistician
            /\ u.loss = s.loss - Kept(s) /\ u.max = s.max /\ u.unwrapped = s.unwrapped
            /\ u.first = s.first /\ u.outOfOrder = None
<1>1. CASE s.outOfOrder = None
  <2>1. s.loss \in Int
    BY DEF Statistician
  <2> QED
    BY <1>1, <2>1 DEF Settled, Kept
<1>2. CASE s.outOfOrder # None
  <2> DEFINE loss == s.loss - 1
  <2>1. loss \in Int /\ loss = s.loss - Kept(s)
    BY <1>2 DEF Statistician, Kept
  <2>2. Settled(s) = [s EXCEPT !.loss = loss, !.outOfOrder = None]
    BY <1>2 DEF Settled
  <2> HIDE DEF loss
  <2>3. Settled(s) \in Statistician
    BY SettledIs
  <2> QED
    BY <2>1, <2>2, <2>3 DEF Statistician
<1> QED
  BY <1>1, <1>2

\* What a packet counts that is the d-th after the latest in order, or before it.
LEMMA NearCounts ==
  ASSUME NEW s \in Statistician, s.first # None, s.unwrapped = s.max, s.max \in Nat,
         NEW d \in Int, d # 0, d < Half, -d < Half, d <= s.threshold, s.threshold <= Half,
         ~IsRestart(s, (s.max + d) % Modulus)
  PROVE  LET u == UpdateCounters(s, (s.max + d) % Modulus)
         IN /\ u.first = s.first
            /\ d > 0 => /\ u.max = s.max + d /\ u.unwrapped = u.max /\ u.outOfOrder = None
                        /\ u.loss = s.loss - 1 - Kept(s) + d
            /\ d < 0 => /\ u.max = s.max /\ u.unwrapped = u.max
                        /\ u.outOfOrder \in {None, (s.max + d) % Modulus}
                        /\ u.loss = s.loss - 1 - Kept(s) + Kept(u)
<1> DEFINE number == (s.max + d) % Modulus
           u == UpdateCounters(s, number)
           seq == Unwrap(s, number)
           counted == [s EXCEPT !.loss = @ - 1]
           r == Settled(counted)
           far == AbsDiff(seq, s.max) > s.threshold
<1>1. /\ s.loss \in Int /\ s.max \in Int /\ s.threshold \in Nat
      /\ s.outOfOrder \in SeqNums \cup {None}
  BY DEF Statistician
<1>2. /\ counted \in Statistician
      /\ counted.loss = s.loss - 1 /\ counted.max = s.max /\ counted.first = s.first
      /\ counted.unwrapped = s.unwrapped /\ counted.threshold = s.threshold
      /\ counted.outOfOrder = s.outOfOrder
  <2>1. s.loss - 1 \in Int
    BY <1>1
  <2> QED
    BY <2>1 DEF Statistician
<1>3. number \in SeqNums
  BY <1>1, Remainder
<1>4. seq = s.max + d \/ (d < 0 /\ seq = s.max + d + Modulus)
  BY UnwrapNear
<1>5. seq \in Int
  BY <1>1, <1>4, Circle
<1>6. u = UpdateOutOfOrder(counted, number, seq)
  BY DEF UpdateCounters, ReceivedRtpPacket
<1>7. ~IsRestart(counted, number)
  BY <1>2 DEF IsRestart
<1> HIDE DEF number, seq, counted, u
<1>8. /\ r \in Statistician
      /\ r.loss = s.loss - 1 - Kept(s) /\ r.max = s.max /\ r.unwrapped = s.max
      /\ r.first = s.first /\ r.outOfOrder = None
  <2>1. Kept(counted) = Kept(s)
    BY <1>2 DEF Kept
  <2> QED
    BY <1>2, <2>1, SettledCounts
<1> HIDE DEF r
<1>9. CASE d > 0
  <2>1. ~far /\ seq > s.max /\ seq = s.max + d
    BY <1>1, <1>4, <1>9 DEF AbsDiff
  <2>2. u = InOrder(r, seq)
    BY <1>2, <1>6, <1>7, <2>1 DEF UpdateOutOfOrder, r
  <2>3. /\ u.loss = r.loss + seq - r.max /\ u.max = seq /\ u.unwrapped = seq
        /\ u.first = r.first /\ u.outOfOrder = r.outOfOrder
    BY <1>5, <1>8, <2>2, InOrderIs
  <2>4. Kept(s) \in Int
    BY DEF Kept
  <2>5. u.loss = s.loss - 1 - Kept(s) + d
    BY <1>1, <1>8, <2>1, <2>3, <2>4
  <2> QED
    BY <1>8, <1>9, <2>1, <2>3, <2>5 DEF u, number
<1>10. CASE d < 0 /\ far
  <2> DEFINE loss == r.loss + 1
             v == [r EXCEPT !.outOfOrder = number, !.loss = loss]
  <2>1. u = v
    BY <1>2, <1>6, <1>7, <1>10 DEF UpdateOutOfOrder, r
  <2>2. /\ v.loss = loss /\ v.max = r.max /\ v.unwrapped = r.unwrapped /\ v.first = r.first
        /\ v.outOfOrder = number
    <3> HIDE DEF loss
    <3> QED
      BY <1>8 DEF Statistician
  <2> HIDE DEF v
  <2>3. Kept(u) = 1
    BY <1>3, <2>1, <2>2 DEF Kept, None, SeqNums
  <2>4. u.loss = s.loss - 1 - Kept(s) + Kept(u)
    BY <1>8, <2>1, <2>2, <2>3
  <2> QED
    BY <1>8, <1>10, <2>1, <2>2, <2>4 DEF u, number
<1>11. CASE d < 0 /\ ~far
  <2>1. seq = s.max + d
    BY <1>1, <1>4, <1>11, Circle DEF AbsDiff
  <2>2. u = r
    BY <1>1, <1>2, <1>6, <1>7, <1>11, <2>1 DEF UpdateOutOfOrder, r
  <2>3. Kept(u) = 0
    BY <1>8, <2>2 DEF Kept
  <2>4. r.loss \in Int /\ r.loss = r.loss + 0
    BY <1>8 DEF Statistician
  <2> QED
    BY <1>8, <1>11, <2>2, <2>3, <2>4 DEF u, number
<1> QED
  BY <1>9, <1>10, <1>11

\* What the first packet counts.
LEMMA FirstCounts ==
  ASSUME NEW s \in Statistician, Sound(s), s.first = None, s.loss = 0, NEW number \in SeqNums
  PROVE  LET u == UpdateCounters(s, number)
         IN /\ u.first = number /\ u.max = number /\ u.unwrapped = number
            /\ u.outOfOrder = None /\ u.loss = 0
<1> DEFINE u == UpdateCounters(s, number)
           counted == [s EXCEPT !.loss = @ - 1]
           before == number - 1
           started == [counted EXCEPT !.first = number, !.reportMax = before, !.max = before]
<1>1. Unwrap(s, number) = number
  BY UnwrapInt DEF Sound
<1>2. u = InOrder(started, number)
  BY <1>1 DEF UpdateCounters, ReceivedRtpPacket
<1>3. /\ counted \in Statistician /\ counted.loss = -1 /\ counted.outOfOrder = None
  BY DEF Statistician, Sound
<1>4. number \in Int /\ before \in Int
  BY DEF SeqNums
<1> HIDE DEF counted, before
<1>5. /\ started \in Statistician /\ started.loss = -1 /\ started.max = before
      /\ started.first = number /\ started.outOfOrder = None
  BY <1>3, <1>4 DEF Statistician
<1> HIDE DEF started, u
<1>6. /\ u.loss = started.loss + number - started.max /\ u.max = number /\ u.unwrapped = number
      /\ u.first = started.first /\ u.outOfOrder = started.outOfOrder
  BY <1>2, <1>4, <1>5, InOrderIs
<1>7. u.loss = 0
  BY <1>4, <1>5, <1>6 DEF before
<1> QED
  BY <1>5, <1>6, <1>7 DEF u

\* Steps that leave what is counted of Media as it is.
LEMMA CountStays ==
  ASSUME NEW of, NEW new, NEW packets, NEW from, NEW h, NEW g, NEW b \in Int,
         h.received \in Nat, ExactFrom(of, packets, from, h, b),
         g.top = h.top, g.first = h.first, g.received = h.received,
         Media \in DOMAIN of =>
           /\ Media \in DOMAIN new
           /\ new[Media].loss = of[Media].loss /\ new[Media].first = of[Media].first
           /\ new[Media].unwrapped = of[Media].unwrapped /\ new[Media].max = of[Media].max
           /\ new[Media].outOfOrder = of[Media].outOfOrder,
         Media \in DOMAIN new \ DOMAIN of => new[Media].loss = 0 /\ new[Media].first = None
  PROVE  ExactFrom(new, packets, from, g, b)
<1>1. UnderWay(packets, from, g.top, b)
  BY DEF ExactFrom
<1>2. ASSUME g.received = 0
      PROVE  Untallied(new, g)
  BY <1>2 DEF ExactFrom, Untallied
<1>3. ASSUME g.received > 0
      PROVE  Media \in DOMAIN new /\ Tallied(new[Media], packets, g, b)
  <2>1. Media \in DOMAIN of /\ Tallied(of[Media], packets, h, b)
    BY <1>3 DEF ExactFrom
  <2>2. Missing(g) = Missing(h) /\ Kept(new[Media]) = Kept(of[Media])
    BY <2>1 DEF Missing, Kept
  <2> QED
    BY <2>1, <2>2 DEF Tallied
<1> QED
  BY <1>1, <1>2, <1>3 DEF ExactFrom

Senders == [number : SeqNums, sent : Nat, restarts : Nat, settings : Nat]

LEMMA SendStays ==
  ASSUME NEW of, NEW packets \in Seq(Packets), NEW from \in Senders, NEW h \in Histories,
         NEW b \in Int, ExactFrom(of, packets, from, h, b), Len(packets) < 2,
         NEW more, more = Append(packets, [id |-> from.sent + 1, number |-> from.number]),
         NEW next, next = [from EXCEPT !.sent = @ + 1, !.number = Plus(@, 1)]
  PROVE  ExactFrom(of, more, next, h, b)
<1> DEFINE n == from.sent + 1 + b
           packet == [id |-> from.sent + 1, number |-> from.number]
           last == Len(packets) + 1
<1>1. from.sent \in Nat /\ from.number \in SeqNums /\ h.top \in Nat
  BY DEF Senders, Histories
<1>2. next.sent = from.sent + 1 /\ next.number = Plus(from.number, 1)
  BY DEF Senders
<1>3. UnderWay(packets, from, h.top, b)
  BY DEF ExactFrom
<1>4. next.number = Num(next.sent + 1, b)
  <2>1. n \in Int /\ from.number = n % Modulus
    BY <1>1, <1>3 DEF UnderWay, Num
  <2>2. next.sent + 1 + b = n + 1
    BY <1>1, <1>2
  <2> HIDE DEF n
  <2>3. (n + 1) % Modulus = IF (n % Modulus) + 1 = Modulus THEN 0 ELSE (n % Modulus) + 1
    BY <2>1, NextRemainder
  <2>4. Plus(from.number, 1) = IF from.number + 1 = Modulus THEN 0 ELSE from.number + 1
    BY <1>1, Circle DEF Plus, SeqNums
  <2> QED
    BY <1>2, <2>1, <2>2, <2>3, <2>4 DEF Num
<1>5. /\ Len(packets) \in {0, 1} /\ Len(more) = last /\ DOMAIN more = 1 .. last
      /\ DOMAIN packets = 1 .. Len(packets)
      /\ more[last] = packet /\ \A i \in DOMAIN packets : more[i] = packets[i]
  <2>1. packet \in Packets
    BY <1>1 DEF Packets
  <2>2. more = Append(packets, packet)
    OBVIOUS
  <2>3. Len(packets) \in Nat /\ DOMAIN packets = 1 .. Len(packets)
    OBVIOUS
  <2>4. Len(packets) \in {0, 1}
    BY <2>3
  <2> HIDE DEF packet
  <2>5. Len(more) = last
    BY <2>1, <2>2, AppendProperties
  <2>6. DOMAIN more = 1 .. last
    <3>1. more \in Seq(Packets)
      BY <2>1, <2>2, AppendProperties
    <3> QED
      BY <2>5, <3>1
  <2>7. more[last] = packet /\ \A i \in 1 .. Len(packets) : more[i] = packets[i]
    BY <2>1, <2>2, AppendProperties
  <2> QED
    BY <2>3, <2>4, <2>5, <2>6, <2>7
<1>6. packet.id = from.sent + 1 /\ packet.number = from.number
  OBVIOUS
<1> HIDE DEF packet
<1>7. UnderWay(more, next, h.top, b)
  <2>1. ASSUME NEW i \in DOMAIN more
        PROVE  /\ more[i].id \in 1 .. next.sent /\ more[i].id # h.top
               /\ more[i].number = Num(more[i].id, b)
    <3>1. CASE i \in DOMAIN packets
      BY <1>1, <1>2, <1>3, <1>5, <3>1 DEF UnderWay
    <3>2. CASE i \notin DOMAIN packets
      <4>1. i = last
        BY <1>5, <3>2
      <4> QED
        BY <1>1, <1>2, <1>3, <1>5, <1>6, <4>1 DEF UnderWay
    <3> QED
      BY <3>1, <3>2
  <2>2. Len(more) = 2 => more[1].id < more[2].id /\ more[2].id = next.sent
    <3> SUFFICES ASSUME Len(more) = 2 PROVE more[1].id < more[2].id /\ more[2].id = next.sent
      OBVIOUS
    <3>1. last = 2 /\ 1 \in DOMAIN packets
      BY <1>5
    <3>2. packets[1].id \in 1 .. from.sent
      BY <1>3, <3>1 DEF UnderWay
    <3> QED
      BY <1>1, <1>2, <1>5, <1>6, <3>1, <3>2
  <2>3. Len(more) <= 2 /\ h.top <= next.sent
    BY <1>1, <1>2, <1>3, <1>5 DEF UnderWay
  <2> QED
    BY <1>4, <2>1, <2>2, <2>3 DEF UnderWay
<1>8. ASSUME NEW kept, KeptBack(kept, packets, h.top, b)
      PROVE  KeptBack(kept, more, h.top, b)
  <2> SUFFICES ASSUME kept # None PROVE KeptBack(kept, more, h.top, b)
    BY DEF KeptBack
  <2>1. PICK k \in 1 .. (h.top - 1) :
          /\ kept = Num(k, b) /\ h.top - k < Half
          /\ \A i \in DOMAIN packets : packets[i].id # k + 1
    BY <1>8 DEF KeptBack
  <2>2. ASSUME NEW i \in DOMAIN more
        PROVE  more[i].id # k + 1
    <3>1. CASE i \in DOMAIN packets
      BY <1>5, <2>1, <3>1
    <3>2. CASE i \notin DOMAIN packets
      <4>1. i = last
        BY <1>5, <3>2
      <4>2. k + 1 < from.sent + 1
        BY <1>1, <1>3 DEF UnderWay
      <4> QED
        BY <1>1, <1>5, <1>6, <4>1, <4>2
    <3> QED
      BY <3>1, <3>2
  <2> QED
    BY <2>1, <2>2 DEF KeptBack
<1> QED
  BY <1>7, <1>8 DEF ExactFrom, Tallied

\* A packet lost or delivered is not under way any more; the rest is.
LEMMA RestOfFlight ==
  ASSUME NEW i \in DOMAIN flight, flight \in Seq(Packets), NEW from \in Senders,
         NEW top \in Nat, NEW b \in Int, UnderWay(flight, from, top, b),
         NEW new \in {top, flight[i].id}
  PROVE  /\ UnderWay(Without(i), from, new, b)
         /\ \A kept : KeptBack(kept, flight, top, b) => KeptBack(kept, Without(i), top, b)
         /\ flight[i].id < top =>
              \A j \in DOMAIN Without(i) : Without(i)[j].id # flight[i].id + 1
<1> DEFINE rest == Without(i)
           n == Len(flight)
           At(j) == IF j < i THEN flight[j] ELSE flight[j + 1]
<1>1. n \in {1, 2} /\ i \in 1 .. n /\ DOMAIN flight = 1 .. n
  <2>1. n \in Nat /\ DOMAIN flight = 1 .. n
    OBVIOUS
  <2>2. n <= 2
    BY DEF UnderWay
  <2> HIDE DEF n
  <2> QED
    BY <2>1, <2>2
<1>2. DOMAIN rest = 1 .. (n - 1) /\ Len(rest) = n - 1 /\ \A j \in DOMAIN rest : rest[j] = At(j)
  <2>1. rest = [j \in 1 .. (n - 1) |-> At(j)]
    BY DEF Without
  <2>2. n - 1 \in Nat
    BY <1>1
  <2> HIDE DEF rest, n, At
  <2> QED
    BY <2>1, <2>2
<1>3. ASSUME NEW j \in DOMAIN rest
      PROVE  /\ rest[j] = flight[3 - i] /\ 3 - i \in DOMAIN flight /\ n = 2
             /\ flight[3 - i].id # flight[i].id
  <2> HIDE DEF rest
  <2>1. n = 2 /\ j = 1
    BY <1>1, <1>2
  <2>2. 3 - i \in DOMAIN flight /\ At(j) = flight[3 - i]
    BY <1>1, <2>1
  <2>3. flight[1].id \in Nat /\ flight[2].id \in Nat /\ flight[1].id < flight[2].id
    BY <1>1, <2>1 DEF UnderWay, Packets
  <2> QED
    BY <1>1, <1>2, <2>1, <2>2, <2>3
<1>4. flight[i].id \in 1 .. from.sent /\ top <= from.sent /\ from.sent \in Nat
  BY DEF UnderWay, Senders
<1> HIDE DEF rest
<1>5. UnderWay(rest, from, new, b)
  <2>1. \A j \in DOMAIN rest : /\ rest[j].id \in 1 .. from.sent /\ rest[j].id # new
                               /\ rest[j].number = Num(rest[j].id, b)
    BY <1>3 DEF UnderWay
  <2>2. new <= from.sent
    BY <1>4
  <2>3. Len(rest) <= 2 /\ Len(rest) # 2
    <3> HIDE DEF n
    <3> QED
      BY <1>1, <1>2
  <2> QED
    BY <2>1, <2>2, <2>3 DEF UnderWay
<1>6. ASSUME NEW kept, KeptBack(kept, flight, top, b)
      PROVE  KeptBack(kept, rest, top, b)
  BY <1>3, <1>6 DEF KeptBack
<1>7. ASSUME flight[i].id < top, NEW j \in DOMAIN rest
      PROVE  rest[j].id # flight[i].id + 1
  <2>1. /\ rest[j] = flight[3 - i] /\ 3 - i \in DOMAIN flight /\ n = 2
    BY <1>3
  <2>2. flight[2].id = from.sent /\ flight[2].id # top
    BY <1>1, <2>1 DEF UnderWay
  <2>3. i = 1
    BY <1>1, <1>4, <1>7, <2>1, <2>2
  <2> QED
    BY <1>4, <1>7, <2>1, <2>2, <2>3
<1> QED
  BY <1>5, <1>6, <1>7 DEF rest

\* No packet under way follows the one kept back.
LEMMA NoRestart ==
  ASSUME NEW s \in Statistician, NEW i \in DOMAIN flight, flight \in Seq(Packets),
         NEW top \in Nat, NEW b \in Int, KeptBack(s.outOfOrder, flight, top, b),
         flight[i].number = Num(flight[i].id, b),
         flight[i].id - top < Half, -(flight[i].id - top) < Half
  PROVE  ~IsRestart(s, flight[i].number)
<1> SUFFICES ASSUME IsRestart(s, flight[i].number) PROVE FALSE
  OBVIOUS
<1> DEFINE id == flight[i].id
<1>1. id \in Nat /\ flight[i].number \in SeqNums
  <2>1. flight[i] \in Packets
    OBVIOUS
  <2> QED
    BY <2>1 DEF Packets
<1>2. s.outOfOrder # None /\ flight[i].number = Plus(s.outOfOrder, 1)
  BY DEF IsRestart
<1>3. PICK k \in 1 .. (top - 1) : /\ s.outOfOrder = Num(k, b) /\ top - k < Half
                                  /\ \A j \in DOMAIN flight : flight[j].id # k + 1
  BY <1>2 DEF KeptBack
<1> HIDE DEF id
<1>4. k \in Nat /\ id # k + 1
  BY <1>3 DEF id
<1> DEFINE n == k + b
           m == id + b
<1>5. n \in Int /\ m \in Int /\ n + 1 \in Int
  BY <1>1, <1>4
<1>6. Num(k, b) = n % Modulus /\ Num(id, b) = m % Modulus
  BY DEF Num
<1>7. m - (n + 1) < Modulus /\ (n + 1) - m < Modulus /\ m # n + 1
  <2>1. id - top < Half /\ -(id - top) < Half
    BY DEF id
  <2> QED
    BY <1>1, <1>3, <1>4, <2>1, Circle
<1> HIDE DEF n, m
<1>8. m % Modulus = (n + 1) % Modulus
  <2>1. (n + 1) % Modulus = IF (n % Modulus) + 1 = Modulus THEN 0 ELSE (n % Modulus) + 1
    BY <1>5, NextRemainder
  <2>2. n % Modulus \in SeqNums
    BY <1>5, Remainder
  <2>3. Plus(n % Modulus, 1) = IF (n % Modulus) + 1 = Modulus THEN 0 ELSE (n % Modulus) + 1
    BY <2>2, Circle DEF Plus, SeqNums
  <2>4. m % Modulus = Plus(n % Modulus, 1)
    BY <1>2, <1>3, <1>6 DEF id
  <2> QED
    BY <2>1, <2>3, <2>4
<1> QED
  BY <1>5, <1>7, <1>8, Congruent

LEMMA DeliverExact ==
  ASSUME IInv, NearEnough, sender.restarts = 0, NEW b \in Int,
         ExactFrom(statisticians, flight, sender, history, b),
         NEW i \in DOMAIN flight, Deliver(i)
  PROVE  \E c \in Int : ExactFrom(statisticians', flight', sender', history', c)
<1> DEFINE packet == flight[i]
           id == packet.id
           number == packet.number
           got(garbage) == GetOrCreateStatistician(Media, garbage)
<1>1. /\ DOMAIN statisticians \subseteq SSRCs
      /\ statisticians \in [DOMAIN statisticians -> Statistician]
      /\ flight \in Seq(Packets) /\ packet \in Packets
      /\ sender \in Senders /\ history \in Histories /\ threshold \in Nat \ {0}
  BY DEF IInv, Types, Senders
<1>2. /\ id \in Nat /\ number \in SeqNums
      /\ history.top \in Nat /\ history.first \in Nat /\ history.received \in Nat
  BY <1>1 DEF Packets, Histories
<1>3. PICK garbage \in Garbage :
        statisticians' = [got(garbage).of EXCEPT ![Media] = UpdateCounters(@, number)]
  BY DEF Deliver, OnRtpPacket
<1> DEFINE of == got(garbage).of
           s == of[Media]
           u == UpdateCounters(s, number)
<1>4. Media \in SSRCs
  BY DEF SSRCs
<1>5. /\ of \in [DOMAIN statisticians \cup {Media} -> Statistician]
      /\ \A t \in DOMAIN statisticians : of[t] = statisticians[t]
      /\ Media \notin DOMAIN statisticians => s = NewStatistician(threshold, garbage)
      /\ Counts(of, history)
  BY <1>4, Created
<1>6. statisticians' = [of EXCEPT ![Media] = u]
  BY <1>3
<1> HIDE DEF got
<1>7. s \in Statistician /\ Sound(s)
  BY <1>5 DEF Counts
<1>8. Media \in DOMAIN statisticians' /\ statisticians'[Media] = u
  BY <1>5, <1>6
<1> HIDE DEF of
<1> DEFINE first == IF history.first = 0 THEN id ELSE history.first
           top == IF id > history.top THEN id ELSE history.top
<1>9. /\ history'.first = first /\ history'.top = top
      /\ history'.received = history.received + 1
  <2> DEFINE received == history.received + 1
             restart == Media \in DOMAIN statisticians /\ IsRestart(statisticians[Media], number)
             tooEarly == IF restart /\ id # history.last + 1
                           THEN history.tooEarly + 1 ELSE history.tooEarly
             sameReport == history.sameReport /\ ~restart
             samePeriod == history.samePeriod /\ ~restart
  <2>1. history' = [history EXCEPT !.first = first, !.top = top, !.last = id,
                                   !.received = received, !.tooEarly = tooEarly, !.sameReport = sameReport, !.samePeriod = samePeriod]
    BY DEF Deliver
  <2> HIDE DEF first, top, received, tooEarly, sameReport, samePeriod
  <2>2. history'.first = first /\ history'.top = top /\ history'.received = received
    BY <1>1, <2>1 DEF Histories
  <2> QED
    BY <2>2 DEF received
<1>10. sender' = sender /\ flight' = Without(i)
  BY DEF Deliver
<1>11. UnderWay(flight, sender, history.top, b)
  BY DEF ExactFrom
<1>12. id \in 1 .. sender.sent /\ id # history.top /\ number = Num(id, b)
  BY <1>11 DEF UnderWay
<1>13. /\ UnderWay(flight', sender', top, b)
       /\ \A kept : KeptBack(kept, flight, history.top, b) => KeptBack(kept, flight', history.top, b)
       /\ id < history.top => \A j \in DOMAIN flight' : flight'[j].id # id + 1
  <2>1. top \in {history.top, flight[i].id}
    OBVIOUS
  <2> HIDE DEF top
  <2> QED
    BY <1>1, <1>2, <1>10, <1>11, <2>1, RestOfFlight
<1>14. CASE history.received = 0
  <2> DEFINE c == number - id
  <2>1. history.top = 0 /\ history.first = 0 /\ s.loss = 0 /\ s.first = None
    <3>1. Untallied(statisticians, history)
      BY <1>14 DEF ExactFrom
    <3>2. CASE Media \in DOMAIN statisticians
      BY <1>5, <3>1, <3>2 DEF Untallied
    <3>3. CASE Media \notin DOMAIN statisticians
      BY <1>5, <3>1, <3>3 DEF Untallied, NewStatistician
    <3> QED
      BY <3>2, <3>3
  <2>2. /\ u.first = number /\ u.max = number /\ u.unwrapped = number
        /\ u.outOfOrder = None /\ u.loss = 0
    <3> HIDE DEF s
    <3> QED
      BY <1>2, <1>7, <2>1, FirstCounts
  <2> HIDE DEF u
  <2>3. number \in Int /\ c \in Int
    BY <1>2 DEF SeqNums
  <2>4. ASSUME NEW k \in Int
        PROVE  Num(k, b) = Num(k, c)
    <3> DEFINE m == id + b
    <3>1. m \in Int /\ k - id \in Int
      BY <1>2
    <3>2. m % Modulus = number % Modulus
      <4>1. number % Modulus = number
        <5>1. number = Modulus * 0 + number /\ number \in 0 .. (Modulus - 1) /\ Modulus \in Nat \ {0}
          BY <1>2, Circle DEF SeqNums
        <5> QED
          BY <5>1, RemainderIs
      <4> QED
        BY <1>12, <4>1 DEF Num
    <3>3. m + (k - id) = k + b /\ number + (k - id) = k + c
      BY <1>2, <2>3
    <3> HIDE DEF m, c
    <3>4. (m + (k - id)) % Modulus = (number + (k - id)) % Modulus
      BY <2>3, <3>1, <3>2, Congruent
    <3> QED
      BY <3>3, <3>4 DEF Num
  <2>5. UnderWay(flight', sender', top, c)
    <3>1. sender.sent + 1 \in Int
      BY <1>1 DEF Senders
    <3>2. \A j \in DOMAIN flight' : flight'[j].id \in Int
      BY <1>13 DEF UnderWay
    <3> HIDE DEF c, top
    <3> QED
      BY <1>10, <1>13, <2>4, <3>1, <3>2 DEF UnderWay
  <2>6. top = id /\ first = id /\ id > 0
    BY <1>2, <1>12, <2>1
  <2>7. Tallied(u, flight', history', c)
    <3>1. u.max = history'.top + c /\ u.max >= 0 /\ u.first # None
      BY <1>2, <1>9, <2>2, <2>6 DEF SeqNums, None
    <3>2. u.loss = Missing(history') + Kept(u)
      BY <1>2, <1>9, <1>14, <2>2, <2>6 DEF Missing, Kept
    <3>3. KeptBack(u.outOfOrder, flight', history'.top, c)
      BY <2>2 DEF KeptBack
    <3> QED
      BY <1>9, <2>2, <2>6, <3>1, <3>2, <3>3 DEF Tallied
  <2>8. history'.received > 0
    BY <1>2, <1>9
  <2>9. ExactFrom(statisticians', flight', sender', history', c)
    BY <1>8, <1>9, <2>5, <2>7, <2>8 DEF ExactFrom
  <2> QED
    BY <2>3, <2>9
<1>15. CASE history.received > 0
  <2> DEFINE d == id - history.top
  <2>1. Media \in DOMAIN statisticians /\ Tallied(statisticians[Media], flight, history, b)
    BY <1>15 DEF ExactFrom
  <2>2. s = statisticians[Media]
    BY <1>5, <2>1
  <2>3. s.threshold <= Half /\ d < Half /\ -d < Half /\ d <= s.threshold
    BY <1>15, <2>2 DEF NearEnough
  <2>4. d \in Int /\ d # 0
    BY <1>2, <1>12
  <2> HIDE DEF s
  <2>5. /\ history.top > 0 /\ history.first > 0
        /\ s.first # None /\ s.unwrapped = s.max /\ s.max = history.top + b /\ s.max >= 0
        /\ s.loss = Missing(history) + Kept(s)
        /\ KeptBack(s.outOfOrder, flight, history.top, b)
    BY <2>1, <2>2 DEF Tallied
  <2>6. s.max \in Nat
    BY <1>7, <2>5 DEF Statistician
  <2>7. number = (s.max + d) % Modulus
    <3>1. s.max + d = id + b
      BY <1>2, <2>5
    <3> QED
      BY <1>12, <3>1 DEF Num
  <2>8. ~IsRestart(s, number)
    BY <1>1, <1>2, <1>7, <1>12, <2>3, <2>5, NoRestart
  <2>9. /\ u.first = s.first
        /\ d > 0 => /\ u.max = s.max + d /\ u.unwrapped = u.max /\ u.outOfOrder = None
                    /\ u.loss = s.loss - 1 - Kept(s) + d
        /\ d < 0 => /\ u.max = s.max /\ u.unwrapped = u.max
                    /\ u.outOfOrder \in {None, number}
                    /\ u.loss = s.loss - 1 - Kept(s) + Kept(u)
    <3> HIDE DEF d, number
    <3>1. ~IsRestart(s, (s.max + d) % Modulus)
      BY <2>7, <2>8
    <3> QED
      BY <1>7, <2>3, <2>4, <2>5, <2>6, <2>7, <3>1, NearCounts
  <2> HIDE DEF u
  <2>10. Kept(s) \in {0, 1} /\ Kept(u) \in {0, 1}
    BY DEF Kept
  <2>11. first = history.first
    BY <2>5
  <2>12. Tallied(u, flight', history', b)
    <3>1. CASE d > 0
      <4>1. top = id
        BY <1>2, <3>1
      <4>2. u.max = history'.top + b /\ u.max >= 0
        BY <1>2, <1>9, <2>5, <2>6, <2>9, <3>1, <4>1
      <4>3. u.loss = Missing(history') + Kept(u)
        <5>1. Kept(u) = 0
          BY <2>9, <3>1 DEF Kept
        <5> QED
          BY <1>2, <1>9, <2>5, <2>9, <2>10, <2>11, <3>1, <4>1, <5>1 DEF Missing
      <4>4. KeptBack(u.outOfOrder, flight', history'.top, b)
        BY <2>9, <3>1 DEF KeptBack
      <4>5. history'.top > 0 /\ history'.first > 0
        BY <1>2, <1>9, <1>12, <2>5, <2>11, <4>1
      <4> QED
        BY <2>5, <2>9, <3>1, <4>2, <4>3, <4>4, <4>5 DEF Tallied
    <3>2. CASE d < 0
      <4>1. top = history.top
        BY <1>2, <3>2
      <4>2. u.max = history'.top + b /\ u.max >= 0
        BY <1>9, <2>5, <2>9, <3>2, <4>1
      <4>3. u.loss = Missing(history') + Kept(u)
        BY <1>2, <1>9, <2>5, <2>9, <2>10, <2>11, <3>2, <4>1 DEF Missing
      <4>4. KeptBack(u.outOfOrder, flight', history'.top, b)
        <5> SUFFICES ASSUME u.outOfOrder # None
                     PROVE  KeptBack(u.outOfOrder, flight', history'.top, b)
          BY DEF KeptBack
        <5>1. u.outOfOrder = Num(id, b)
          BY <1>12, <2>9, <3>2
        <5>2. id \in 1 .. (history.top - 1) /\ history.top - id < Half
          BY <1>2, <1>12, <2>3, <3>2, Circle
        <5>3. \A j \in DOMAIN flight' : flight'[j].id # id + 1
          BY <1>2, <1>13, <3>2
        <5> QED
          BY <1>9, <4>1, <5>1, <5>2, <5>3 DEF KeptBack
      <4>5. history'.top > 0 /\ history'.first > 0
        BY <1>9, <2>5, <2>11, <4>1
      <4> QED
        BY <2>5, <2>9, <3>2, <4>2, <4>3, <4>4, <4>5 DEF Tallied
    <3> QED
      BY <2>4, <3>1, <3>2
  <2>13. history'.received > 0
    BY <1>2, <1>9
  <2>14. ExactFrom(statisticians', flight', sender', history', b)
    BY <1>8, <1>9, <1>13, <2>12, <2>13 DEF ExactFrom
  <2> QED
    BY <2>14
<1> QED
  BY <1>2, <1>14, <1>15

LEMMA ReportExact ==
  ASSUME IInv, SendReport, NEW b \in Int, ExactFrom(statisticians, flight, sender, history, b)
  PROVE  ExactFrom(statisticians', flight', sender', history', b)
<1>1. statisticians \in [DOMAIN statisticians -> Statistician] /\ history \in Histories
  BY DEF IInv, Types
<1>2. flight' = flight /\ sender' = sender
  BY DEF SendReport
<1>3. CASE all_ssrcs = <<>>
  BY <1>2, <1>3 DEF SendReport, RtcpReportBlocks
<1>4. CASE all_ssrcs # <<>>
  <2> DEFINE served == {Turn(i) : i \in Asked(AskedStreams)}
             sameReport == history.sameReport \/ Media \in served
             waited == [ssrc \in SSRCs |->
                          IF ssrc \in DOMAIN statisticians \ served /\ Reports(statisticians[ssrc])
                            THEN history.waited[ssrc] + 1 ELSE 0]
  <2>1. /\ statisticians' = [ssrc \in DOMAIN statisticians |->
                               IF ssrc \in served THEN AppendReportBlock(statisticians[ssrc])
                               ELSE statisticians[ssrc]]
        /\ history' = [history EXCEPT !.sameReport = sameReport, !.waited = waited]
    BY <1>4 DEF SendReport, RtcpReportBlocks
  <2> HIDE DEF served, sameReport, waited
  <2>2. /\ history'.top = history.top /\ history'.first = history.first
        /\ history'.received = history.received /\ history.received \in Nat
    BY <1>1, <2>1 DEF Histories
  <2>3. DOMAIN statisticians' = DOMAIN statisticians
    BY <2>1
  <2>4. ASSUME Media \in DOMAIN statisticians
        PROVE  LET s == statisticians[Media]
                   u == statisticians'[Media]
               IN /\ u.loss = s.loss /\ u.first = s.first /\ u.unwrapped = s.unwrapped
                  /\ u.max = s.max /\ u.outOfOrder = s.outOfOrder
    <3> DEFINE s == statisticians[Media]
    <3>1. s \in Statistician
      BY <1>1, <2>4
    <3>2. statisticians'[Media] \in {s, AppendReportBlock(s)}
      BY <2>1, <2>4
    <3> HIDE DEF s
    <3> QED
      BY <3>1, <3>2 DEF AppendReportBlock, Statistician, s
  <2> QED
    BY <1>2, <2>2, <2>3, <2>4, CountStays
<1> QED
  BY <1>3, <1>4

LEMMA StatsExact ==
  ASSUME IInv, GetStats, NEW b \in Int, ExactFrom(statisticians, flight, sender, history, b)
  PROVE  ExactFrom(statisticians', flight', sender', history', b)
<1> DEFINE s == statisticians[Media]
           u == GetPeriodFractionLostInPercent(s)
           samePeriod == history.samePeriod \/ statisticians'[Media] # statisticians[Media]
<1>1. /\ statisticians \in [DOMAIN statisticians -> Statistician] /\ history \in Histories
      /\ Media \in DOMAIN statisticians
  BY DEF IInv, Types, GetStats
<1>2. /\ statisticians' = [statisticians EXCEPT ![Media] = u]
      /\ history' = [history EXCEPT !.samePeriod = samePeriod]
      /\ flight' = flight /\ sender' = sender
  BY DEF GetStats
<1>3. s \in Statistician
  BY <1>1
<1> HIDE DEF s, samePeriod
<1>4. /\ u.loss = s.loss /\ u.first = s.first /\ u.unwrapped = s.unwrapped
      /\ u.max = s.max /\ u.outOfOrder = s.outOfOrder
  BY <1>3 DEF GetPeriodFractionLostInPercent, Statistician
<1> HIDE DEF u
<1>5. DOMAIN statisticians' = DOMAIN statisticians /\ statisticians'[Media] = u
  BY <1>1, <1>2
<1>6. /\ history'.top = history.top /\ history'.first = history.first
      /\ history'.received = history.received /\ history.received \in Nat
  BY <1>1, <1>2 DEF Histories
<1> QED
  BY <1>2, <1>4, <1>5, <1>6, CountStays DEF s

LEMMA TimeoutExact ==
  ASSUME IInv, NEW ssrc \in SSRCs, TimesOut(ssrc),
         NEW b \in Int, ExactFrom(statisticians, flight, sender, history, b)
  PROVE  ExactFrom(statisticians', flight', sender', history', b)
<1> DEFINE waited == [history.waited EXCEPT ![ssrc] = 0]
<1>1. statisticians \in [DOMAIN statisticians -> Statistician] /\ history \in Histories
  BY DEF IInv, Types
<1>2. /\ statisticians' = [statisticians EXCEPT ![ssrc].active = FALSE]
      /\ history' = [history EXCEPT !.waited = waited]
      /\ flight' = flight /\ sender' = sender
  BY DEF TimesOut
<1>3. DOMAIN statisticians' = DOMAIN statisticians
  BY <1>2
<1>4. ASSUME Media \in DOMAIN statisticians
      PROVE  LET s == statisticians[Media]
                 u == statisticians'[Media]
             IN /\ u.loss = s.loss /\ u.first = s.first /\ u.unwrapped = s.unwrapped
                /\ u.max = s.max /\ u.outOfOrder = s.outOfOrder
  <2> DEFINE s == statisticians[Media]
  <2>1. s \in Statistician
    BY <1>1, <1>4
  <2>2. statisticians'[Media] \in {s, [s EXCEPT !.active = FALSE]}
    BY <1>2, <1>4
  <2> HIDE DEF s
  <2> QED
    BY <2>1, <2>2 DEF Statistician, s
<1> HIDE DEF waited
<1>5. /\ history'.top = history.top /\ history'.first = history.first
      /\ history'.received = history.received /\ history.received \in Nat
  BY <1>1, <1>2 DEF Histories
<1> QED
  BY <1>2, <1>3, <1>4, <1>5, CountStays

LEMMA ThresholdExact ==
  ASSUME IInv, NEW t \in Thresholds, SetMaxReorderingThreshold(t),
         NEW b \in Int, ExactFrom(statisticians, flight, sender, history, b)
  PROVE  ExactFrom(statisticians', flight', sender', history', b)
<1> DEFINE settings == sender.settings + 1
<1>1. /\ statisticians \in [DOMAIN statisticians -> Statistician] /\ history \in Histories
      /\ sender \in Senders
  BY DEF IInv, Types, Senders
<1>2. /\ statisticians' = [ssrc \in DOMAIN statisticians |->
                             [statisticians[ssrc] EXCEPT !.threshold = t]]
      /\ sender' = [sender EXCEPT !.settings = settings]
      /\ history' = history /\ flight' = flight
  BY DEF SetMaxReorderingThreshold
<1>3. DOMAIN statisticians' = DOMAIN statisticians
  BY <1>2
<1>4. ASSUME Media \in DOMAIN statisticians
      PROVE  LET s == statisticians[Media]
                 u == statisticians'[Media]
             IN /\ u.loss = s.loss /\ u.first = s.first /\ u.unwrapped = s.unwrapped
                /\ u.max = s.max /\ u.outOfOrder = s.outOfOrder
  <2> DEFINE s == statisticians[Media]
  <2>1. s \in Statistician
    BY <1>1, <1>4
  <2>2. statisticians'[Media] = [s EXCEPT !.threshold = t]
    BY <1>2, <1>4
  <2> HIDE DEF s
  <2> QED
    BY <2>1, <2>2 DEF Statistician, s
<1>5. history.received \in Nat
  BY <1>1 DEF Histories
<1>6. ExactFrom(statisticians', flight, sender, history, b)
  BY <1>3, <1>4, <1>5, CountStays
<1> HIDE DEF settings
<1>7. sender'.sent = sender.sent /\ sender'.number = sender.number
  BY <1>1, <1>2 DEF Senders
<1> QED
  BY <1>2, <1>6, <1>7 DEF ExactFrom, UnderWay

LEMMA StreamThresholdExact ==
  ASSUME IInv, NEW ssrc \in SSRCs, NEW t \in Thresholds, SetStreamThreshold(ssrc, t),
         NEW b \in Int, ExactFrom(statisticians, flight, sender, history, b)
  PROVE  ExactFrom(statisticians', flight', sender', history', b)
<1> DEFINE settings == sender.settings + 1
           got(garbage) == GetOrCreateStatistician(ssrc, garbage)
<1>1. history \in Histories /\ sender \in Senders /\ threshold \in Nat \ {0}
  BY DEF IInv, Types, Senders
<1>2. /\ sender' = [sender EXCEPT !.settings = settings]
      /\ history' = history /\ flight' = flight
      /\ ssrc \notin DOMAIN statisticians
  BY DEF SetStreamThreshold
<1>3. PICK garbage \in Garbage : statisticians' = [got(garbage).of EXCEPT ![ssrc].threshold = t]
  BY DEF SetStreamThreshold
<1> DEFINE of == got(garbage).of
           u == [of[ssrc] EXCEPT !.threshold = t]
<1>4. /\ of \in [DOMAIN statisticians \cup {ssrc} -> Statistician]
      /\ \A q \in DOMAIN statisticians : of[q] = statisticians[q]
      /\ of[ssrc] = NewStatistician(threshold, garbage)
  BY <1>2, Created
<1>5. statisticians' = [of EXCEPT ![ssrc] = u]
  BY <1>3
<1>6. u.loss = 0 /\ u.first = None
  BY <1>4 DEF NewStatistician
<1> HIDE DEF got, of, u, settings
<1>7. /\ DOMAIN statisticians' = DOMAIN statisticians \cup {ssrc}
      /\ statisticians'[ssrc] = u
      /\ \A q \in DOMAIN statisticians : statisticians'[q] = statisticians[q]
  BY <1>2, <1>4, <1>5
<1>8. history.received \in Nat
  BY <1>1 DEF Histories
<1>9. ExactFrom(statisticians', flight, sender, history, b)
  BY <1>6, <1>7, <1>8, CountStays
<1>10. sender'.sent = sender.sent /\ sender'.number = sender.number
  BY <1>1, <1>2 DEF Senders
<1> QED
  BY <1>2, <1>9, <1>10 DEF ExactFrom, UnderWay

LEMMA ReceiveOtherExact ==
  ASSUME IInv, NEW ssrc \in OtherStreams, ReceiveOther(ssrc),
         NEW b \in Int, ExactFrom(statisticians, flight, sender, history, b)
  PROVE  ExactFrom(statisticians', flight', sender', history', b)
<1> DEFINE number == IF ssrc \in DOMAIN statisticians
                     THEN (statisticians[ssrc].max + 1) % Modulus ELSE 0
           got(garbage) == GetOrCreateStatistician(ssrc, garbage)
<1>1. OnRtpPacket(ssrc, number) /\ sender' = sender /\ flight' = flight /\ history' = history
  BY DEF ReceiveOther
<1>2. ssrc \in SSRCs /\ ssrc # Media
  BY StatisticsAssumption DEF SSRCs
<1>3. PICK garbage \in Garbage :
        statisticians' = [got(garbage).of EXCEPT ![ssrc] = UpdateCounters(@, number)]
  BY <1>1 DEF OnRtpPacket
<1> DEFINE of == got(garbage).of
           u == UpdateCounters(of[ssrc], number)
<1>4. /\ of \in [DOMAIN statisticians \cup {ssrc} -> Statistician]
      /\ \A q \in DOMAIN statisticians : of[q] = statisticians[q]
  BY <1>2, Created
<1>5. statisticians' = [of EXCEPT ![ssrc] = u]
  BY <1>3
<1> HIDE DEF got, of, u
<1>6. /\ Media \in DOMAIN statisticians' <=> Media \in DOMAIN statisticians
      /\ Media \in DOMAIN statisticians => statisticians'[Media] = statisticians[Media]
  BY <1>2, <1>4, <1>5
<1>7. history.received \in Nat
  BY DEF IInv, Types, Histories
<1> QED
  BY <1>1, <1>6, <1>7, CountStays

LEMMA LoseExact ==
  ASSUME IInv, NEW i \in DOMAIN flight, Lose(i),
         NEW b \in Int, ExactFrom(statisticians, flight, sender, history, b)
  PROVE  ExactFrom(statisticians', flight', sender', history', b)
<1> DEFINE lost == history.lost + 1
<1>1. history \in Histories /\ sender \in Senders /\ flight \in Seq(Packets)
  BY DEF IInv, Types, Senders
<1>2. /\ flight' = Without(i) /\ history' = [history EXCEPT !.lost = lost]
      /\ statisticians' = statisticians /\ sender' = sender
  BY DEF Lose
<1> HIDE DEF lost
<1>3. /\ history'.top = history.top /\ history'.first = history.first
      /\ history'.received = history.received /\ history.received \in Nat /\ history.top \in Nat
  BY <1>1, <1>2 DEF Histories
<1>4. UnderWay(flight, sender, history.top, b)
  BY DEF ExactFrom
<1>5. /\ UnderWay(flight', sender, history.top, b)
      /\ \A kept : KeptBack(kept, flight, history.top, b) => KeptBack(kept, flight', history.top, b)
  BY <1>1, <1>2, <1>3, <1>4, RestOfFlight
<1>6. ExactFrom(statisticians, flight', sender, history, b)
  BY <1>5 DEF ExactFrom, Tallied
<1> QED
  BY <1>2, <1>3, <1>6, CountStays

LEMMA InitExact == Init => Exact
<1> SUFFICES ASSUME Init PROVE Exact
  OBVIOUS
<1> DEFINE b == sender.number - 1
<1>1. sender \in Senders /\ sender.sent = 0
  BY InitKeeps DEF Init, IInv, Types, Senders
<1>2. sender.number \in SeqNums /\ sender.number \in Int
  BY <1>1 DEF Senders, SeqNums
<1>3. b \in Int /\ (sender.sent + 1) + b = sender.number
  BY <1>1, <1>2
<1>4. sender.number % Modulus = sender.number
  <2>1. /\ sender.number = Modulus * 0 + sender.number
        /\ sender.number \in 0 .. (Modulus - 1) /\ Modulus \in Nat \ {0}
    BY <1>2, Circle DEF SeqNums
  <2> QED
    BY <1>2, <2>1, RemainderIs
<1> HIDE DEF b
<1>5. /\ flight = <<>> /\ statisticians = <<>>
      /\ history.top = 0 /\ history.first = 0 /\ history.received = 0
  BY DEF Init
<1>6. UnderWay(flight, sender, history.top, b)
  BY <1>1, <1>3, <1>4, <1>5 DEF UnderWay, Num
<1>7. ExactFrom(statisticians, flight, sender, history, b)
  BY <1>5, <1>6 DEF ExactFrom, Untallied
<1> QED
  BY <1>3, <1>7 DEF Exact

\* A stream that has not started anew did not do so before.
LEMMA NoJump ==
  ASSUME IInv, [Next]_vars, sender'.restarts = 0
  PROVE  sender.restarts = 0 /\ ~Jump
<1>0. sender \in Senders
  BY DEF IInv, Types, Senders
<1>1. sender.restarts \in Nat
  BY <1>0 DEF Senders
<1>2. CASE Jump
  <2>1. PICK n : sender' = [sender EXCEPT !.restarts = @ + 1, !.number = n]
    BY <1>2 DEF Jump
  <2>2. sender'.restarts = sender.restarts + 1
    BY <1>0, <2>1 DEF Senders
  <2> QED
    BY <1>1, <2>2
<1>3. CASE ~Jump
  <2>1. \/ \E n, m : sender' = [sender EXCEPT !.sent = n, !.number = m]
        \/ \E n : sender' = [sender EXCEPT !.settings = n]
        \/ sender' = sender
    BY <1>3 DEF Next, vars, Send, Lose, Deliver, ReceiveOther, SendReport, GetStats, TimesOut,
                SetMaxReorderingThreshold, SetStreamThreshold
  <2>2. sender'.restarts = sender.restarts
    BY <1>0, <2>1 DEF Senders
  <2> QED
    BY <1>3, <2>2
<1> QED
  BY <1>2, <1>3

LEMMA StepExact == IInv /\ NearEnough /\ Exact /\ [Next]_vars => Exact'
<1> SUFFICES ASSUME IInv, NearEnough, Exact, [Next]_vars, sender'.restarts = 0
             PROVE  \E c \in Int : ExactFrom(statisticians', flight', sender', history', c)
  BY DEF Exact
<1>1. /\ sender \in Senders /\ flight \in Seq(Packets) /\ history \in Histories
  BY DEF IInv, Types, Senders
<1>2. sender.restarts = 0 /\ ~Jump
  BY NoJump
<1>3. PICK b \in Int : ExactFrom(statisticians, flight, sender, history, b)
  BY <1>2 DEF Exact
<1> DEFINE After(c) == ExactFrom(statisticians', flight', sender', history', c)
<1>4. ASSUME Send
      PROVE  After(b)
  <2>1. /\ Len(flight) < 2
        /\ flight' = Append(flight, [id |-> sender.sent + 1, number |-> sender.number])
        /\ sender' = [sender EXCEPT !.sent = @ + 1, !.number = Plus(@, 1)]
        /\ statisticians' = statisticians /\ history' = history
    BY <1>4 DEF Send
  <2>2. ExactFrom(statisticians, flight', sender', history, b)
    BY <1>1, <1>3, <2>1, SendStays
  <2> QED
    BY <2>1, <2>2
<1>5. ASSUME NEW i \in DOMAIN flight, Lose(i) \/ Deliver(i)
      PROVE  \E c \in Int : After(c)
  BY <1>2, <1>3, <1>5, LoseExact, DeliverExact
<1>6. ASSUME NEW ssrc \in OtherStreams, ReceiveOther(ssrc)
      PROVE  After(b)
  BY <1>3, <1>6, ReceiveOtherExact
<1>7. ASSUME SendReport
      PROVE  After(b)
  BY <1>3, <1>7, ReportExact
<1>8. ASSUME GetStats
      PROVE  After(b)
  BY <1>3, <1>8, StatsExact
<1>9. ASSUME NEW ssrc \in SSRCs, TimesOut(ssrc)
      PROVE  After(b)
  BY <1>3, <1>9, TimeoutExact
<1>10. ASSUME NEW t \in Thresholds, SetMaxReorderingThreshold(t)
       PROVE  After(b)
  BY <1>3, <1>10, ThresholdExact
<1>11. ASSUME NEW t \in Thresholds, NEW ssrc \in SSRCs, SetStreamThreshold(ssrc, t)
       PROVE  After(b)
  BY <1>3, <1>11, StreamThresholdExact
<1>12. ASSUME UNCHANGED vars
       PROVE  After(b)
  BY <1>3, <1>12 DEF vars
<1> HIDE DEF After
<1>13. \E c \in Int : After(c)
  BY <1>2, <1>4, <1>5, <1>6, <1>7, <1>8, <1>9, <1>10, <1>11, <1>12 DEF Next
<1> QED
  BY <1>13 DEF After

LEMMA ExactIsCounted == IInv /\ Exact => (sender.restarts = 0 => LossIsCounted)
<1> SUFFICES ASSUME IInv, Exact, sender.restarts = 0,
                    Media \in DOMAIN statisticians, history.received > 0
             PROVE  LET s == statisticians[Media]
                        missing == history.top - history.first + 1 - history.received
                        keptBack == IF s.outOfOrder = None THEN 0 ELSE 1
                    IN /\ s.loss <= missing + keptBack + history.tooEarly
                       /\ s.loss = missing + keptBack
  BY DEF LossIsCounted
<1> DEFINE s == statisticians[Media]
<1>1. PICK b \in Int : ExactFrom(statisticians, flight, sender, history, b)
  BY DEF Exact
<1>2. s.loss = Missing(history) + Kept(s)
  BY <1>1 DEF ExactFrom, Tallied
<1>3. s.loss \in Int /\ history.tooEarly \in Nat
  BY DEF IInv, Types, Statistician, Histories
<1> QED
  BY <1>2, <1>3 DEF Missing, Kept

\* What a delivery leaves of the history, and the latest packet.
LEMMA DeliverChanges ==
  ASSUME NEW i \in DOMAIN flight, Deliver(i), history \in Histories
  PROVE  /\ history'.top = IF flight[i].id > history.top THEN flight[i].id ELSE history.top
         /\ history'.lost = history.lost
<1> DEFINE packet == flight[i]
           restart == Media \in DOMAIN statisticians /\ IsRestart(statisticians[Media], packet.number)
           first == IF history.first = 0 THEN packet.id ELSE history.first
           top == IF packet.id > history.top THEN packet.id ELSE history.top
           received == history.received + 1
           tooEarly == IF restart /\ packet.id # history.last + 1
                         THEN history.tooEarly + 1 ELSE history.tooEarly
           sameReport == history.sameReport /\ ~restart
           samePeriod == history.samePeriod /\ ~restart
<1>1. history' = [history EXCEPT !.first = first, !.top = top, !.last = packet.id,
                                 !.received = received, !.tooEarly = tooEarly,
                                 !.sameReport = sameReport, !.samePeriod = samePeriod]
  BY DEF Deliver
<1>2. top = IF flight[i].id > history.top THEN flight[i].id ELSE history.top
  OBVIOUS
<1> HIDE DEF first, top, received, tooEarly, sameReport, samePeriod
<1>3. history'.top = top /\ history'.lost = history.lost
  BY <1>1 DEF Histories
<1> QED
  BY <1>2, <1>3

\* As long as the sender does not start anew and no packet comes from farther than it is
\* told from, the loss counted is that of RFC 3550, through every reordering and wrap.
THEOREM LossIsExact ==
  Spec /\ []NearEnough => [](sender.restarts = 0 => LossIsCounted)
<1>1. Init => IInv /\ Exact
  BY InitKeeps, InitExact
<1>2. IInv /\ Exact /\ NearEnough /\ [Next]_vars => IInv' /\ Exact'
  BY StepKeeps, StepExact
<1>3. IInv /\ Exact => (sender.restarts = 0 => LossIsCounted)
  BY ExactIsCounted
<1> QED
  BY <1>1, <1>2, <1>3, PTL DEF Spec

-----------------------------------------------------------------------------
(* A stream shorter than half a turn that loses few packets stays near enough. *)

Limits == Thresholds \cup {DefaultThreshold}

ShortStream ==
  /\ MaxSent \in Nat /\ MaxSent < Half
  /\ MaxLosses \in Nat /\ \A t \in Limits : MaxLosses + 2 <= t /\ t <= Half

\* The packets sent after the latest received are lost or under way.
Gap(packets, from, h) ==
  /\ from.sent - h.top <= h.lost + Len(packets)
  /\ Len(packets) > 0 =>
       IF packets[1].id > h.top THEN from.sent - packets[1].id <= h.lost + Len(packets) - 1
       ELSE from.sent - h.top <= h.lost + Len(packets) - 1

Limited(of) == Media \in DOMAIN of => of[Media].threshold \in Limits

Short ==
  /\ sender.sent <= MaxSent /\ history.lost <= MaxLosses
  /\ threshold \in Limits /\ Limited(statisticians)
  /\ sender.restarts = 0 => Gap(flight, sender, history)

LEMMA ShortIsNear ==
  ASSUME ShortStream, IInv, Exact, Short
  PROVE  NearEnough
<1> SUFFICES ASSUME sender.restarts = 0, history.received > 0
             PROVE  /\ statisticians[Media].threshold <= Half
                    /\ \A i \in DOMAIN flight :
                         LET d == flight[i].id - history.top
                         IN d < Half /\ -d < Half /\ d <= statisticians[Media].threshold
  BY DEF NearEnough
<1>1. PICK b \in Int : ExactFrom(statisticians, flight, sender, history, b)
  BY DEF Exact
<1>2. Media \in DOMAIN statisticians /\ UnderWay(flight, sender, history.top, b)
  BY <1>1 DEF ExactFrom
<1>3. /\ sender.sent \in Nat /\ history.top \in Nat /\ history.lost \in Nat
      /\ Len(flight) \in Nat /\ Half \in Nat
      /\ statisticians[Media].threshold \in Nat
  <2>1. sender \in Senders /\ history \in Histories /\ statisticians[Media] \in Statistician
    BY <1>2 DEF IInv, Types, Senders
  <2>2. flight \in Seq(Packets)
    BY DEF IInv, Types
  <2> QED
    BY <2>1, <2>2, Circle DEF Senders, Histories, Statistician
<1> DEFINE t == statisticians[Media].threshold
<1>4. MaxLosses + 2 <= t /\ t <= Half /\ MaxLosses \in Nat /\ MaxSent \in Nat /\ MaxSent < Half
  BY <1>2 DEF Short, Limited, ShortStream
<1>5. /\ sender.sent <= MaxSent /\ history.lost <= MaxLosses
      /\ sender.sent - history.top <= history.lost + Len(flight)
  BY DEF Short, Gap
<1>6. Len(flight) <= 2 /\ \A i \in DOMAIN flight : flight[i].id \in 1 .. sender.sent
  BY <1>2 DEF UnderWay
<1>7. history.top <= sender.sent
  BY <1>2 DEF UnderWay
<1> HIDE DEF t
<1>8. ASSUME NEW i \in DOMAIN flight
      PROVE  LET d == flight[i].id - history.top
             IN d < Half /\ -d < Half /\ d <= t
  <2> DEFINE id == flight[i].id
  <2>1. id \in Nat /\ id <= sender.sent
    <3>1. id \in 1 .. sender.sent
      BY <1>6
    <3> HIDE DEF id
    <3> QED
      BY <1>3, <3>1
  <2>2. t \in Nat
    BY <1>3 DEF t
  <2> HIDE DEF id
  <2>3. sender.sent - history.top <= MaxLosses + 2
    BY <1>3, <1>4, <1>5, <1>6
  <2>4. id - history.top <= t
    BY <1>3, <1>4, <2>1, <2>2, <2>3
  <2>5. id - history.top < Half /\ -(id - history.top) < Half
    BY <1>3, <1>4, <1>5, <1>7, <2>1
  <2> QED
    BY <2>4, <2>5 DEF id
<1> QED
  BY <1>4, <1>8 DEF t

LEMMA SettingStays ==
  ASSUME NEW s \in Statistician, NEW number \in SeqNums
  PROVE  UpdateCounters(s, number).threshold = s.threshold
<1> DEFINE seq == Unwrap(s, number)
           loss == s.loss - 1
           counted == [s EXCEPT !.loss = loss]
           u == UpdateCounters(s, number)
<1>1. seq \in Int
  BY UnwrapInt
<1>2. loss \in Int
  BY DEF Statistician
<1>3. counted = [s EXCEPT !.loss = @ - 1]
  OBVIOUS
<1> HIDE DEF seq, loss
<1>4. counted \in Statistician /\ counted.threshold = s.threshold
  BY <1>2 DEF Statistician
<1>5. CASE ~ReceivedRtpPacket(s)
  <2> DEFINE before == seq - 1
             started == [counted EXCEPT !.first = seq, !.reportMax = before, !.max = before]
  <2>1. u = InOrder(started, seq)
    BY <1>3, <1>5 DEF UpdateCounters, seq
  <2>2. before \in Int
    BY <1>1
  <2> HIDE DEF before, counted
  <2>3. started \in Statistician /\ started.threshold = s.threshold
    BY <1>1, <1>4, <2>2 DEF Statistician
  <2> HIDE DEF started, u
  <2>4. u.threshold = s.threshold
    BY <1>1, <2>1, <2>3, InOrderIs
  <2> QED
    BY <2>4 DEF u
<1>6. CASE ReceivedRtpPacket(s)
  <2> DEFINE r == Settled(counted)
  <2>1. u = UpdateOutOfOrder(counted, number, seq)
    BY <1>3, <1>6 DEF UpdateCounters, seq
  <2> HIDE DEF counted, u
  <2>2. r \in Statistician /\ r.threshold = s.threshold
    BY <1>4, SettledIs
  <2>3. u \in {InOrder(Restart(counted, seq), seq), InOrder(r, seq), r,
               [r EXCEPT !.outOfOrder = number, !.loss = @ + 1]}
    BY <2>1 DEF UpdateOutOfOrder
  <2>4. CASE u = InOrder(Restart(counted, seq), seq)
    <3> DEFINE max == seq - 2
               v == Restart(counted, seq)
    <3>1. v = [r EXCEPT !.reportMax = max, !.max = max]
      BY DEF Restart
    <3>2. v \in Statistician
      BY <1>1, <1>4, RestartIs
    <3> HIDE DEF r, max
    <3>3. v.threshold = s.threshold
      BY <2>2, <3>1 DEF Statistician
    <3> HIDE DEF v
    <3>4. u = InOrder(v, seq)
      BY <2>4 DEF v
    <3>5. u.threshold = s.threshold
      BY <1>1, <3>2, <3>3, <3>4, InOrderIs
    <3> QED
      BY <3>5 DEF u
  <2> HIDE DEF r
  <2>5. CASE u = InOrder(r, seq)
    <3>1. u.threshold = s.threshold
      BY <1>1, <2>2, <2>5, InOrderIs
    <3> QED
      BY <3>1 DEF u
  <2>6. CASE u = r
    BY <2>2, <2>6 DEF u
  <2>7. CASE u = [r EXCEPT !.outOfOrder = number, !.loss = @ + 1]
    <3>1. u.threshold = s.threshold
      BY <2>2, <2>7 DEF Statistician
    <3> QED
      BY <3>1 DEF u
  <2> QED
    BY <2>3, <2>4, <2>5, <2>6, <2>7
<1> QED
  BY <1>5, <1>6

LEMMA GapStays ==
  ASSUME IInv, NEW b \in Int, UnderWay(flight, sender, history.top, b),
         Gap(flight, sender, history), [Next]_vars, ~Jump
  PROVE  Gap(flight', sender', history')
<1> DEFINE n == Len(flight)
           sent == sender.sent
           top == history.top
           lost == history.lost
<1>1. /\ sender \in Senders /\ flight \in Seq(Packets) /\ history \in Histories
  BY DEF IInv, Types, Senders
<1>2. /\ sent \in Nat /\ top \in Nat /\ lost \in Nat /\ n \in {0, 1, 2}
      /\ DOMAIN flight = 1 .. n
  <2>1. n \in Nat /\ n <= 2 /\ DOMAIN flight = 1 .. n
    BY <1>1 DEF UnderWay
  <2>2. sent \in Nat /\ top \in Nat /\ lost \in Nat
    BY <1>1 DEF Senders, Histories
  <2> HIDE DEF n, sent, top, lost
  <2> QED
    BY <2>1, <2>2
<1>3. \A i \in 1 .. n : flight[i].id \in Nat /\ flight[i].id <= sent /\ flight[i].id # top
  <2>1. \A i \in 1 .. n : flight[i].id \in 1 .. sent /\ flight[i].id # top
    BY <1>2 DEF UnderWay
  <2> HIDE DEF n, sent, top
  <2> QED
    BY <1>2, <2>1
<1>4. n = 2 => flight[1].id < flight[2].id /\ flight[2].id = sent
  BY DEF UnderWay
<1>5. /\ sent - top <= lost + n
      /\ n > 0 => IF flight[1].id > top THEN sent - flight[1].id <= lost + n - 1
                  ELSE sent - top <= lost + n - 1
  BY DEF Gap
<1>6. CASE Send
  <2> DEFINE packet == [id |-> sent + 1, number |-> sender.number]
             number == Plus(sender.number, 1)
             more == sent + 1
  <2>1. n < 2 /\ flight' = Append(flight, packet) /\ history' = history
        /\ sender' = [sender EXCEPT !.sent = more, !.number = number]
    BY <1>6 DEF Send
  <2>2. packet \in Packets /\ packet.id = sent + 1
    BY <1>1, <1>2 DEF Packets, Senders
  <2> HIDE DEF packet, number, more
  <2>3. /\ Len(flight') = n + 1 /\ flight'[n + 1] = packet
        /\ \A i \in 1 .. n : flight'[i] = flight[i]
    BY <1>1, <2>1, <2>2, AppendProperties
  <2>4. sender'.sent = sent + 1 /\ history'.top = top /\ history'.lost = lost
    BY <1>1, <2>1 DEF Senders, more
  <2> HIDE DEF n, sent, top, lost
  <2>5. CASE n = 0
    BY <1>2, <1>5, <2>2, <2>3, <2>4, <2>5 DEF Gap
  <2>6. CASE n = 1
    <3>1. flight'[1] = flight[1] /\ flight[1].id \in Nat
      BY <1>3, <2>3, <2>6
    <3> QED
      BY <1>2, <1>5, <2>3, <2>4, <2>6, <3>1 DEF Gap
  <2> QED
    BY <1>2, <2>1, <2>5, <2>6
<1>7. ASSUME NEW i \in DOMAIN flight, flight' = Without(i)
      PROVE  /\ Len(flight') = n - 1
             /\ n = 2 => flight'[1] = flight[3 - i]
  <2> DEFINE At(j) == IF j < i THEN flight[j] ELSE flight[j + 1]
  <2>1. flight' = [j \in 1 .. (n - 1) |-> At(j)]
    BY <1>7 DEF Without
  <2>2. n - 1 \in Nat /\ i \in 1 .. n
    BY <1>2
  <2>3. n = 2 => At(1) = flight[3 - i]
    BY <2>2
  <2> HIDE DEF n, At
  <2> QED
    BY <2>1, <2>2, <2>3
<1>8. ASSUME NEW i \in DOMAIN flight, Lose(i)
      PROVE  Gap(flight', sender', history')
  <2> DEFINE more == lost + 1
  <2>1. flight' = Without(i) /\ sender' = sender /\ history' = [history EXCEPT !.lost = more]
    BY <1>8 DEF Lose
  <2> HIDE DEF more
  <2>2. sender'.sent = sent /\ history'.top = top /\ history'.lost = lost + 1
    BY <1>1, <2>1 DEF Histories, more
  <2>3. Len(flight') = n - 1 /\ (n = 2 => flight'[1] = flight[3 - i]) /\ i \in 1 .. n
    BY <1>2, <1>7, <2>1
  <2> HIDE DEF n, sent, top, lost
  <2>4. CASE n = 1
    BY <1>2, <1>3, <1>5, <2>2, <2>3, <2>4 DEF Gap
  <2>5. CASE n = 2
    <3>1. /\ flight[1].id \in Nat /\ flight[2].id = sent /\ sent # top
          /\ flight'[1] = flight[1] \/ flight'[1] = flight[2]
      BY <1>3, <1>4, <2>3, <2>5
    <3> QED
      BY <1>2, <1>5, <2>2, <2>3, <2>5, <3>1 DEF Gap
  <2> QED
    BY <1>2, <2>3, <2>4, <2>5
<1>9. ASSUME NEW i \in DOMAIN flight, Deliver(i)
      PROVE  Gap(flight', sender', history')
  <2> DEFINE id == flight[i].id
             latest == IF id > top THEN id ELSE top
  <2>1. flight' = Without(i) /\ sender' = sender
    BY <1>9 DEF Deliver
  <2>2. sender'.sent = sent /\ history'.top = latest /\ history'.lost = lost
    BY <1>1, <1>9, <2>1, DeliverChanges
  <2> HIDE DEF latest
  <2>3. Len(flight') = n - 1 /\ (n = 2 => flight'[1] = flight[3 - i]) /\ i \in 1 .. n
    BY <1>2, <1>7, <2>1
  <2>4. id \in Nat /\ id <= sent /\ id # top
    BY <1>3, <2>3
  <2>5. latest = IF id > top THEN id ELSE top
    BY DEF latest
  <2> HIDE DEF n, sent, top, lost
  <2>6. CASE n = 1
    BY <1>2, <1>5, <2>2, <2>3, <2>4, <2>5, <2>6 DEF Gap
  <2>7. CASE n = 2
    <3>1. flight[1].id \in Nat /\ flight[2].id = sent /\ sent # top /\ flight[1].id < sent
      BY <1>3, <1>4, <2>7
    <3>2. CASE i = 1
      BY <1>2, <1>5, <2>2, <2>3, <2>4, <2>5, <2>7, <3>1, <3>2 DEF Gap
    <3>3. CASE i = 2
      <4>1. latest = sent \/ sent < top
        BY <1>2, <2>4, <2>5, <3>1, <3>3
      <4> QED
        BY <1>2, <1>5, <2>2, <2>3, <2>4, <2>5, <2>7, <3>1, <3>3, <4>1 DEF Gap
    <3> QED
      BY <2>3, <2>7, <3>2, <3>3
  <2> QED
    BY <1>2, <2>3, <2>6, <2>7
<1>10. ASSUME flight' = flight, sender'.sent = sent, history'.top = top, history'.lost = lost
       PROVE  Gap(flight', sender', history')
  BY <1>10 DEF Gap
<1> HIDE DEF sent, top, lost
<1>11. ASSUME NEW ssrc \in OtherStreams, ReceiveOther(ssrc)
       PROVE  Gap(flight', sender', history')
  BY <1>10, <1>11 DEF ReceiveOther, sent, top, lost
<1>12. ASSUME SendReport
       PROVE  Gap(flight', sender', history')
  <2>1. /\ flight' = flight /\ sender' = sender
        /\ \/ history' = history
           \/ \E v, w : history' = [history EXCEPT !.sameReport = v, !.waited = w]
    BY <1>12 DEF SendReport, RtcpReportBlocks
  <2> QED
    BY <1>1, <1>10, <2>1 DEF Histories, sent, top, lost
<1>13. ASSUME GetStats
       PROVE  Gap(flight', sender', history')
  <2>1. flight' = flight /\ sender' = sender /\ \E v : history' = [history EXCEPT !.samePeriod = v]
    BY <1>13 DEF GetStats
  <2> QED
    BY <1>1, <1>10, <2>1 DEF Histories, sent, top, lost
<1>14. ASSUME NEW ssrc \in SSRCs, TimesOut(ssrc)
       PROVE  Gap(flight', sender', history')
  <2>1. flight' = flight /\ sender' = sender /\ \E v : history' = [history EXCEPT !.waited = v]
    <3> DEFINE waited == [history.waited EXCEPT ![ssrc] = 0]
    <3>1. history' = [history EXCEPT !.waited = waited]
      BY <1>14 DEF TimesOut
    <3> HIDE DEF waited
    <3> QED
      BY <1>14, <3>1 DEF TimesOut
  <2> QED
    BY <1>1, <1>10, <2>1 DEF Histories, sent, top, lost
<1>15. ASSUME \/ \E t \in Thresholds : SetMaxReorderingThreshold(t)
              \/ \E t \in Thresholds, ssrc \in SSRCs : SetStreamThreshold(ssrc, t)
       PROVE  Gap(flight', sender', history')
  <2>1. flight' = flight /\ history' = history /\ \E v : sender' = [sender EXCEPT !.settings = v]
    BY <1>15 DEF SetMaxReorderingThreshold, SetStreamThreshold
  <2> QED
    BY <1>1, <1>10, <2>1 DEF Senders, sent, top, lost
<1>16. CASE UNCHANGED vars
  BY <1>10, <1>16 DEF vars, sent, top, lost
<1> QED
  BY <1>6, <1>8, <1>9, <1>11, <1>12, <1>13, <1>14, <1>15, <1>16 DEF Next

LEMMA LimitStays ==
  ASSUME IInv, threshold \in Limits, Limited(statisticians), [Next]_vars
  PROVE  threshold' \in Limits /\ Limited(statisticians')
<1>1. /\ statisticians \in [DOMAIN statisticians -> Statistician]
      /\ threshold \in Nat \ {0} /\ flight \in Seq(Packets)
  BY DEF IInv, Types
<1>2. ASSUME NEW ssrc \in SSRCs, NEW number \in SeqNums, OnRtpPacket(ssrc, number)
      PROVE  threshold' \in Limits /\ Limited(statisticians')
  <2> DEFINE got(garbage) == GetOrCreateStatistician(ssrc, garbage)
  <2>1. PICK garbage \in Garbage :
          statisticians' = [got(garbage).of EXCEPT ![ssrc] = UpdateCounters(@, number)]
    BY <1>2 DEF OnRtpPacket
  <2> DEFINE of == got(garbage).of
             u == UpdateCounters(of[ssrc], number)
  <2>2. /\ of \in [DOMAIN statisticians \cup {ssrc} -> Statistician]
        /\ \A q \in DOMAIN statisticians : of[q] = statisticians[q]
        /\ ssrc \notin DOMAIN statisticians => of[ssrc] = NewStatistician(threshold, garbage)
    BY Created
  <2>3. of[ssrc].threshold \in Limits \/ ssrc # Media
    BY <2>2 DEF Limited, NewStatistician
  <2>4. statisticians' = [of EXCEPT ![ssrc] = u]
    BY <2>1
  <2> HIDE DEF got, of
  <2>5. u.threshold = of[ssrc].threshold
    BY <2>2, SettingStays
  <2> HIDE DEF u
  <2>6. Limited(statisticians')
    BY <2>2, <2>3, <2>4, <2>5 DEF Limited
  <2>7. threshold' = threshold
    BY <1>2 DEF OnRtpPacket
  <2> QED
    BY <2>6, <2>7
<1>3. ASSUME NEW i \in DOMAIN flight, Deliver(i)
      PROVE  threshold' \in Limits /\ Limited(statisticians')
  <2>1. flight[i] \in Packets
    BY <1>1
  <2>2. flight[i].number \in SeqNums /\ Media \in SSRCs
    BY <2>1 DEF Packets, SSRCs
  <2> QED
    BY <1>2, <1>3, <2>2 DEF Deliver
<1>4. ASSUME NEW ssrc \in OtherStreams, ReceiveOther(ssrc)
      PROVE  threshold' \in Limits /\ Limited(statisticians')
  <2> DEFINE number == IF ssrc \in DOMAIN statisticians
                       THEN (statisticians[ssrc].max + 1) % Modulus ELSE 0
  <2>1. OnRtpPacket(ssrc, number) /\ ssrc \in SSRCs
    BY <1>4 DEF ReceiveOther, SSRCs
  <2>2. number \in SeqNums
    <3>1. CASE ssrc \in DOMAIN statisticians
      <4>1. statisticians[ssrc].max + 1 \in Int
        BY <1>1, <3>1 DEF Statistician
      <4> QED
        BY <3>1, <4>1, Remainder
    <3>2. CASE ssrc \notin DOMAIN statisticians
      BY <3>2, Circle DEF SeqNums
    <3> QED
      BY <3>1, <3>2
  <2> HIDE DEF number
  <2> QED
    BY <1>2, <2>1, <2>2
<1>5. ASSUME UNCHANGED <<threshold, statisticians>>
      PROVE  threshold' \in Limits /\ Limited(statisticians')
  BY <1>5
<1>6. ASSUME Send \/ Jump \/ (\E i \in DOMAIN flight : Lose(i)) \/ UNCHANGED vars
      PROVE  threshold' \in Limits /\ Limited(statisticians')
  BY <1>5, <1>6 DEF Send, Jump, Lose, vars
<1>7. ASSUME SendReport
      PROVE  threshold' \in Limits /\ Limited(statisticians')
  <2>1. CASE all_ssrcs = <<>>
    BY <1>5, <1>7, <2>1 DEF SendReport, RtcpReportBlocks
  <2>2. CASE all_ssrcs # <<>>
    <3> DEFINE served == {Turn(i) : i \in Asked(AskedStreams)}
               s == statisticians[Media]
    <3>1. statisticians' = [ssrc \in DOMAIN statisticians |->
                              IF ssrc \in served THEN AppendReportBlock(statisticians[ssrc])
                              ELSE statisticians[ssrc]]
      BY <1>7, <2>2 DEF SendReport, RtcpReportBlocks
    <3> HIDE DEF served
    <3>2. SUFFICES ASSUME Media \in DOMAIN statisticians
                   PROVE  statisticians'[Media].threshold \in Limits
      BY <1>7, <3>1 DEF SendReport, Limited
    <3>3. s \in Statistician /\ s.threshold \in Limits
      BY <1>1, <3>2 DEF Limited
    <3>4. statisticians'[Media] \in {s, AppendReportBlock(s)}
      BY <3>1, <3>2
    <3> HIDE DEF s
    <3> QED
      BY <3>3, <3>4 DEF AppendReportBlock, Statistician
  <2> QED
    BY <2>1, <2>2
<1>8. ASSUME GetStats
      PROVE  threshold' \in Limits /\ Limited(statisticians')
  <2> DEFINE s == statisticians[Media]
             u == GetPeriodFractionLostInPercent(s)
  <2>1. statisticians' = [statisticians EXCEPT ![Media] = u] /\ Media \in DOMAIN statisticians
        /\ threshold' = threshold
    BY <1>8 DEF GetStats
  <2>2. s \in Statistician /\ s.threshold \in Limits
    BY <1>1, <2>1 DEF Limited
  <2> HIDE DEF s
  <2>3. u.threshold = s.threshold
    BY <2>2 DEF GetPeriodFractionLostInPercent, Statistician
  <2> HIDE DEF u
  <2> QED
    BY <2>1, <2>2, <2>3 DEF Limited
<1>9. ASSUME NEW ssrc \in SSRCs, TimesOut(ssrc)
      PROVE  threshold' \in Limits /\ Limited(statisticians')
  <2> DEFINE s == statisticians[ssrc]
             u == [s EXCEPT !.active = FALSE]
  <2>1. statisticians' = [statisticians EXCEPT ![ssrc] = u] /\ ssrc \in DOMAIN statisticians
        /\ threshold' = threshold
    BY <1>9 DEF TimesOut
  <2>2. s \in Statistician /\ (ssrc = Media => s.threshold \in Limits)
    BY <1>1, <2>1 DEF Limited
  <2> HIDE DEF s
  <2>3. u.threshold = s.threshold
    BY <2>2 DEF Statistician
  <2> HIDE DEF u
  <2> QED
    BY <2>1, <2>2, <2>3 DEF Limited
<1>10. ASSUME NEW t \in Thresholds, SetMaxReorderingThreshold(t)
       PROVE  threshold' \in Limits /\ Limited(statisticians')
  <2>1. /\ threshold' = t
        /\ statisticians' = [ssrc \in DOMAIN statisticians |->
                               [statisticians[ssrc] EXCEPT !.threshold = t]]
    BY <1>10 DEF SetMaxReorderingThreshold
  <2>2. Media \in DOMAIN statisticians => statisticians'[Media].threshold = t
    <3> DEFINE s == statisticians[Media]
    <3>1. Media \in DOMAIN statisticians => s \in Statistician /\ statisticians'[Media] = [s EXCEPT !.threshold = t]
      BY <1>1, <2>1
    <3> HIDE DEF s
    <3> QED
      BY <3>1 DEF Statistician
  <2> QED
    BY <2>1, <2>2 DEF Limited, Limits
<1>11. ASSUME NEW t \in Thresholds, NEW ssrc \in SSRCs, SetStreamThreshold(ssrc, t)
       PROVE  threshold' \in Limits /\ Limited(statisticians')
  <2> DEFINE got(garbage) == GetOrCreateStatistician(ssrc, garbage)
  <2>1. /\ threshold' = threshold
        /\ \E garbage \in Garbage : statisticians' = [got(garbage).of EXCEPT ![ssrc].threshold = t]
    BY <1>11 DEF SetStreamThreshold
  <2>2. PICK garbage \in Garbage : statisticians' = [got(garbage).of EXCEPT ![ssrc].threshold = t]
    BY <2>1
  <2> DEFINE of == got(garbage).of
             u == [of[ssrc] EXCEPT !.threshold = t]
  <2>3. /\ of \in [DOMAIN statisticians \cup {ssrc} -> Statistician]
        /\ \A q \in DOMAIN statisticians : of[q] = statisticians[q]
    BY Created
  <2>4. statisticians' = [of EXCEPT ![ssrc] = u]
    BY <2>2
  <2> HIDE DEF got, of
  <2>5. u.threshold = t
    <3> DEFINE s == of[ssrc]
    <3>1. s \in Statistician
      BY <2>3
    <3> HIDE DEF s
    <3>2. [s EXCEPT !.threshold = t].threshold = t
      BY <3>1 DEF Statistician
    <3> QED
      BY <3>2 DEF s
  <2> HIDE DEF u
  <2> QED
    BY <2>1, <2>3, <2>4, <2>5 DEF Limited, Limits
<1> QED
  BY <1>3, <1>4, <1>6, <1>7, <1>8, <1>9, <1>10, <1>11 DEF Next

LEMMA ShortStays ==
  ASSUME ShortStream, IInv, Exact, Short, [Next]_vars
  PROVE  Short'
<1>1. sender \in Senders /\ history \in Histories
  BY DEF IInv, Types, Senders
<1>2. threshold' \in Limits /\ Limited(statisticians')
  BY LimitStays DEF Short
<1>3. /\ sender.sent \in Nat /\ sender.sent <= MaxSent /\ MaxSent \in Nat
      /\ history.lost \in Nat /\ history.lost <= MaxLosses /\ MaxLosses \in Nat
  BY <1>1 DEF Short, ShortStream, Senders, Histories
<1>4. sender'.sent <= MaxSent
  <2>1. \/ sender.sent < MaxSent /\ \E n : sender' = [sender EXCEPT !.sent = @ + 1, !.number = n]
        \/ \E n, m : sender' = [sender EXCEPT !.restarts = n, !.number = m]
        \/ \E n : sender' = [sender EXCEPT !.settings = n]
        \/ sender' = sender
    BY DEF Next, vars, Send, Jump, Lose, Deliver, ReceiveOther, SendReport, GetStats, TimesOut,
           SetMaxReorderingThreshold, SetStreamThreshold
  <2>2. sender'.sent = sender.sent \/ (sender.sent < MaxSent /\ sender'.sent = sender.sent + 1)
    BY <1>1, <2>1 DEF Senders
  <2> QED
    BY <1>3, <2>2
<1>5. history'.lost <= MaxLosses
  <2>1. \/ history.lost < MaxLosses /\ history' = [history EXCEPT !.lost = @ + 1]
        \/ history'.lost = history.lost
        \/ \E v, w : history' = [history EXCEPT !.sameReport = v, !.waited = w]
        \/ \E v : history' = [history EXCEPT !.samePeriod = v]
        \/ \E v : history' = [history EXCEPT !.waited = v]
        \/ history' = history
    <3>1. ASSUME NEW ssrc \in SSRCs, TimesOut(ssrc)
          PROVE  \E v : history' = [history EXCEPT !.waited = v]
      <4> DEFINE waited == [history.waited EXCEPT ![ssrc] = 0]
      <4>1. history' = [history EXCEPT !.waited = waited]
        BY <3>1 DEF TimesOut
      <4> HIDE DEF waited
      <4> QED
        BY <4>1
    <3>2. ASSUME NEW i \in DOMAIN flight, Deliver(i)
          PROVE  history'.lost = history.lost
      BY <1>1, <3>2, DeliverChanges
    <3>3. ASSUME SendReport
          PROVE  history' = history
                 \/ \E v, w : history' = [history EXCEPT !.sameReport = v, !.waited = w]
      BY <3>3 DEF SendReport, RtcpReportBlocks
    <3>4. ASSUME GetStats
          PROVE  \E v : history' = [history EXCEPT !.samePeriod = v]
      BY <3>4 DEF GetStats
    <3>5. ASSUME NEW i \in DOMAIN flight, Lose(i)
          PROVE  history.lost < MaxLosses /\ history' = [history EXCEPT !.lost = @ + 1]
      BY <3>5 DEF Lose
    <3>6. ASSUME \/ Send \/ Jump \/ UNCHANGED vars
                 \/ \E ssrc \in OtherStreams : ReceiveOther(ssrc)
                 \/ \E t \in Thresholds : SetMaxReorderingThreshold(t)
                 \/ \E t \in Thresholds, ssrc \in SSRCs : SetStreamThreshold(ssrc, t)
          PROVE  history' = history
      BY <3>6 DEF vars, Send, Jump, ReceiveOther, SetMaxReorderingThreshold, SetStreamThreshold
    <3> QED
      BY <3>1, <3>2, <3>3, <3>4, <3>5, <3>6 DEF Next
  <2>2. history'.lost = history.lost \/ (history.lost < MaxLosses /\ history'.lost = history.lost + 1)
    BY <1>1, <2>1 DEF Histories
  <2> QED
    BY <1>3, <2>2
<1>6. sender'.restarts = 0 => Gap(flight', sender', history')
  <2> SUFFICES ASSUME sender'.restarts = 0 PROVE Gap(flight', sender', history')
    OBVIOUS
  <2>1. sender.restarts = 0 /\ ~Jump
    BY NoJump
  <2>2. PICK b \in Int : UnderWay(flight, sender, history.top, b)
    BY <2>1 DEF Exact, ExactFrom
  <2> QED
    BY <2>1, <2>2, GapStays DEF Short
<1> QED
  BY <1>2, <1>4, <1>5, <1>6 DEF Short

LEMMA ShortAtFirst == ASSUME ShortStream, Init PROVE Short
<1>1. /\ sender.sent = 0 /\ history.lost = 0 /\ history.top = 0 /\ flight = <<>>
      /\ statisticians = <<>> /\ threshold = DefaultThreshold
  BY DEF Init
<1> QED
  BY <1>1 DEF Short, ShortStream, Limited, Limits, Gap

\* A stream shorter than half a turn, of which fewer packets are lost than the threshold
\* lets pass: until it starts anew, its loss is counted without error.
THEOREM ShortStreamsAreExact ==
  ASSUME ShortStream
  PROVE  Spec => [](sender.restarts = 0 => LossIsCounted)
<1>1. Init => IInv /\ Exact /\ Short
  BY InitKeeps, InitExact, ShortAtFirst
<1>2. IInv /\ Exact /\ Short /\ [Next]_vars => IInv' /\ Exact' /\ Short'
  BY StepKeeps, StepExact, ShortStays, ShortIsNear
<1>3. IInv /\ Exact => (sender.restarts = 0 => LossIsCounted)
  BY ExactIsCounted
<1> QED
  BY <1>1, <1>2, <1>3, PTL DEF Spec

=============================================================================
