------------------------- MODULE StreamStatistician -------------------------
(***************************************************************************)
(* What one StreamStatisticianImpl counts of the packets of one SSRC: the  *)
(* loss of RFC 3550, the reports made of it for RTCP, and the loss of the   *)
(* last period that the statistics show.  Every call holds stream_lock_     *)
(* (StreamStatisticianLocked), so a call is one function of the record.     *)
(*                                                                         *)
(* Sequence numbers are unwrapped; loss is the number of packets expected   *)
(* minus the number received.  Bit rate, byte counters and jitter are left  *)
(* out.                                                                     *)
(***************************************************************************)
EXTENDS SeqNum

CONSTANT MaxLost   \* 0x7fffff: what the report's field holds

None == -1         \* nullopt, and received_seq_first_ before the first packet

AbsDiff(a, b) == IF a < b THEN b - a ELSE a - b

\* The constructor sets neither last_cumulative_loss_ nor last_seq_max_:
\* garbage is what the two hold.
NewStatistician(threshold, garbage) ==
  [threshold |-> threshold, active |-> FALSE, unwrapped |-> None,
   loss |-> 0, offset |-> 0, first |-> None, max |-> None, outOfOrder |-> None,
   reportLoss |-> 0, reportMax |-> None,
   periodLoss |-> garbage, periodMax |-> garbage]

ReceivedRtpPacket(s) == s.first # None

\* SequenceNumberUnwrapper (external): the number nearest to the last one, but
\* never one below zero.
Unwrap(s, number) ==
  LET last == s.unwrapped % Modulus
      diff == number - last
  IN IF s.unwrapped = None THEN number
     ELSE s.unwrapped +
          CASE AheadOf(number, last) /\ diff < 0 -> diff + Modulus
            [] /\ ~AheadOf(number, last) /\ diff > 0
               /\ s.unwrapped + diff - Modulus >= 0 -> diff - Modulus
            [] OTHER -> diff

InOrder(s, seq) ==
  [s EXCEPT !.loss = @ + seq - s.max, !.max = seq, !.unwrapped = seq, !.active = TRUE]

\* Two packets in sequence far from the others: the sender has started anew.
IsRestart(s, number) == s.outOfOrder # None /\ number = Plus(s.outOfOrder, 1)

\* Mutant: the packet kept back is forgotten.
SettledUncounted(s) == [s EXCEPT !.outOfOrder = None]

\* The packet kept back is counted after all.
Settled(s) ==
  IF s.outOfOrder = None THEN s ELSE [s EXCEPT !.loss = @ - 1, !.outOfOrder = None]

\* Mutant: the restart leaves the numbers of the last report.
RestartKeepsReport(s, seq) == [Settled(s) EXCEPT !.max = seq - 2]

\* The gap of a restart is no loss: the numbers go on from before the pair.
Restart(s, seq) == [Settled(s) EXCEPT !.reportMax = seq - 2, !.max = seq - 2]

UpdateOutOfOrder(s, number, seq) ==
  IF IsRestart(s, number) THEN InOrder(Restart(s, seq), seq)
  ELSE IF AbsDiff(seq, s.max) > s.threshold
    THEN [Settled(s) EXCEPT !.outOfOrder = number, !.loss = @ + 1]
  ELSE IF seq > s.max THEN InOrder(Settled(s), seq) ELSE Settled(s)

UpdateCounters(s, number) ==
  LET seq == Unwrap(s, number)
      counted == [s EXCEPT !.loss = @ - 1]
  IN IF ~ReceivedRtpPacket(s)
       THEN InOrder([counted EXCEPT !.first = seq, !.reportMax = seq - 1, !.max = seq - 1], seq)
       ELSE UpdateOutOfOrder(counted, number, seq)

\* A stream is in the report when a packet of it came in order of late.
Reports(s) == s.active /\ ReceivedRtpPacket(s)

\* The loss since the last report over the packets expected since then.
ExpectedSinceReport(s) == s.max - s.reportMax
LostSinceReport(s) == s.loss - s.reportLoss

\* What the report says was lost: never less than nothing, at most MaxLost.
CumulativeLost(s) ==
  CASE s.loss + s.offset < 0 -> 0
    [] s.loss + s.offset > MaxLost -> MaxLost
    [] OTHER -> s.loss + s.offset

AppendReportBlock(s) ==
  [s EXCEPT !.offset = IF s.loss + s.offset < 0 THEN -s.loss ELSE @,
            !.reportLoss = s.loss, !.reportMax = s.max]

ExpectedInPeriod(s) == s.max - s.periodMax
LostInPeriod(s) == s.loss - s.periodLoss

\* A period without loss goes on.
GetPeriodFractionLostInPercent(s) ==
  IF ExpectedInPeriod(s) <= 0 \/ LostInPeriod(s) <= 0 THEN s
  ELSE [s EXCEPT !.periodLoss = s.loss, !.periodMax = s.max]

=============================================================================
