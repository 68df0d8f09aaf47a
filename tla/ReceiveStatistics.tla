-------------------------- MODULE ReceiveStatistics --------------------------
(***************************************************************************)
(* ReceiveStatisticsImpl: a statistician for every SSRC, made at the first  *)
(* packet or setting, and the round of report blocks for RTCP.  The network *)
(* carries the packets of one stream, Media: it loses some, lets one        *)
(* overtake another, and the sender may start anew at a distant number.  Of *)
(* the other streams a packet comes now and then.                           *)
(***************************************************************************)
EXTENDS StreamStatistician, Sequences, FiniteSets

CONSTANTS
  Media, OtherStreams,       \* SSRCs
  DefaultThreshold,          \* kDefaultMaxReorderingThreshold
  Thresholds,                \* what SetNACKStatus and the video receiver ask for
  Garbage,                   \* what an unset member may hold
  MaxBlocks,                 \* blocks that fit into a report
  FirstNumbers, Jumps,       \* where the sender starts, and starts anew
  MaxSent, MaxLosses, MaxRestarts, MaxSettings, MaxOther   \* bounds

SSRCs == {Media} \cup OtherStreams

ASSUME StatisticsAssumption ==
  /\ Media \notin OtherStreams /\ IsFiniteSet(OtherStreams)
  /\ MaxBlocks \in Nat \ {0}
  /\ Thresholds \cup {DefaultThreshold} \subseteq Nat \ {0}
  /\ Garbage \subseteq Int
  /\ FirstNumbers \subseteq SeqNums /\ Jumps \subseteq SeqNums

VARIABLES
  statisticians,             \* statisticians_: SSRCs without one are not in the domain
  all_ssrcs, last_returned,  \* all_ssrcs_, last_returned_ssrc_idx_
  threshold,                 \* max_reordering_threshold_
  sender,                    \* the number and the index of the next packet of Media
  flight,                    \* the packets of Media under way, oldest first
  history                    \* what happened to them, and who waits for a report

vars == <<statisticians, all_ssrcs, last_returned, threshold, sender, flight, history>>

Init ==
  /\ statisticians = <<>>
  /\ all_ssrcs = <<>>
  /\ last_returned = 0
  /\ threshold = DefaultThreshold
  /\ sender \in [number : FirstNumbers, sent : {0}, restarts : {0}, settings : {0}]
  /\ flight = <<>>
  /\ history = [first |-> 0, top |-> 0, last |-> 0, received |-> 0, lost |-> 0,
                tooEarly |-> 0,
                sameReport |-> TRUE, samePeriod |-> FALSE,
                waited |-> [ssrc \in SSRCs |-> 0]]

\* The statisticians and their order, ssrc's among them.
GetOrCreateStatistician(ssrc, garbage) ==
  IF ssrc \in DOMAIN statisticians
    THEN [of |-> statisticians, order |-> all_ssrcs]
    ELSE [of |-> [t \in DOMAIN statisticians \cup {ssrc} |->
                    IF t = ssrc THEN NewStatistician(threshold, garbage) ELSE statisticians[t]],
          order |-> Append(all_ssrcs, ssrc)]

OnRtpPacket(ssrc, number) ==
  \E garbage \in Garbage :
    LET got == GetOrCreateStatistician(ssrc, garbage)
    IN /\ statisticians' = [got.of EXCEPT ![ssrc] = UpdateCounters(@, number)]
       /\ all_ssrcs' = got.order
       /\ UNCHANGED <<last_returned, threshold>>

\* SetMaxReorderingThreshold for every stream, those to come included.
SetMaxReorderingThreshold(t) ==
  /\ sender.settings < MaxSettings
  /\ sender' = [sender EXCEPT !.settings = @ + 1]
  /\ threshold' = t
  /\ statisticians' = [ssrc \in DOMAIN statisticians |->
                         [statisticians[ssrc] EXCEPT !.threshold = t]]
  /\ UNCHANGED <<all_ssrcs, last_returned, flight, history>>

\* SetMaxReorderingThreshold for one stream: the video receiver's constructor,
\* before any packet.
SetStreamThreshold(ssrc, t) ==
  /\ ssrc \notin DOMAIN statisticians
  /\ sender.settings < MaxSettings
  /\ sender' = [sender EXCEPT !.settings = @ + 1]
  /\ \E garbage \in Garbage :
       LET got == GetOrCreateStatistician(ssrc, garbage)
       IN /\ statisticians' = [got.of EXCEPT ![ssrc].threshold = t]
          /\ all_ssrcs' = got.order
  /\ UNCHANGED <<last_returned, threshold, flight, history>>

-----------------------------------------------------------------------------
(* RtcpReportBlocks asks the streams in turn, from the one after the last it *)
(* asked, until the report is full.                                          *)

Turn(i) == all_ssrcs[((last_returned + i) % Len(all_ssrcs)) + 1]

\* How many streams are asked, and which of them report.
Asked(n) == {i \in 1..n : Reports(statisticians[Turn(i)])}
AskedStreams ==
  CHOOSE n \in 1..Len(all_ssrcs) :
    /\ n = Len(all_ssrcs) \/ Cardinality(Asked(n)) = MaxBlocks
    /\ \A m \in 1..(n - 1) : Cardinality(Asked(m)) < MaxBlocks

NextTurn(asked) == (last_returned + asked) % Len(all_ssrcs)

RtcpReportBlocks ==
  IF all_ssrcs = <<>> THEN last_returned' = 0 /\ UNCHANGED <<statisticians, history>>
  ELSE
  LET asked == AskedStreams
      served == {Turn(i) : i \in Asked(asked)}
  IN /\ statisticians' = [ssrc \in DOMAIN statisticians |->
                            IF ssrc \in served THEN AppendReportBlock(statisticians[ssrc])
                            ELSE statisticians[ssrc]]
     /\ last_returned' = NextTurn(asked)
     /\ history' = [history EXCEPT
          !.sameReport = @ \/ Media \in served,
          !.waited = [ssrc \in SSRCs |->
             IF ssrc \in DOMAIN statisticians \ served /\ Reports(statisticians[ssrc])
               THEN @[ssrc] + 1 ELSE 0]]

\* ModuleRtpRtcpImpl2 sends a report.
SendReport ==
  /\ RtcpReportBlocks
  /\ UNCHANGED <<all_ssrcs, threshold, sender, flight>>

\* The statistics of Media are read; that starts its next period.
GetStats ==
  /\ Media \in DOMAIN statisticians
  /\ statisticians' = [statisticians EXCEPT ![Media] = GetPeriodFractionLostInPercent(@)]
  /\ history' = [history EXCEPT !.samePeriod = @ \/ statisticians'[Media] # statisticians[Media]]
  /\ UNCHANGED <<all_ssrcs, last_returned, threshold, sender, flight>>

\* kStatisticsTimeoutMs since the last packet in order.
TimesOut(ssrc) ==
  /\ ssrc \in DOMAIN statisticians /\ statisticians[ssrc].active
  /\ statisticians' = [statisticians EXCEPT ![ssrc].active = FALSE]
  /\ history' = [history EXCEPT !.waited[ssrc] = 0]
  /\ UNCHANGED <<all_ssrcs, last_returned, threshold, sender, flight>>

-----------------------------------------------------------------------------
(* The network (external).                                                   *)

\* The sender sends the next packet of Media.  Two are under way at most, so a
\* packet overtakes one other.
Send ==
  /\ sender.sent < MaxSent
  /\ Len(flight) < 2
  /\ flight' = Append(flight, [id |-> sender.sent + 1, number |-> sender.number])
  /\ sender' = [sender EXCEPT !.sent = @ + 1, !.number = Plus(@, 1)]
  /\ UNCHANGED <<statisticians, all_ssrcs, last_returned, threshold, history>>

\* The sender starts anew at another number.  No jump is so short a step
\* forward that its gap is one of packets lost.
Jump ==
  /\ sender.restarts < MaxRestarts
  /\ flight = <<>>
  /\ \E jump \in Jumps :
       sender' = [sender EXCEPT !.restarts = @ + 1, !.number = Plus(@, jump)]
  /\ UNCHANGED <<statisticians, all_ssrcs, last_returned, threshold, flight, history>>

Without(i) == [j \in 1..(Len(flight) - 1) |-> IF j < i THEN flight[j] ELSE flight[j + 1]]

Lose(i) ==
  /\ history.lost < MaxLosses
  /\ flight' = Without(i)
  /\ history' = [history EXCEPT !.lost = @ + 1]
  /\ UNCHANGED <<statisticians, all_ssrcs, last_returned, threshold, sender>>

Deliver(i) ==
  LET packet == flight[i]
      restart == Media \in DOMAIN statisticians /\ IsRestart(statisticians[Media], packet.number)
  IN /\ OnRtpPacket(Media, packet.number)
     /\ flight' = Without(i)
     /\ history' = [history EXCEPT
          !.first = IF @ = 0 THEN packet.id ELSE @,
          !.top = IF packet.id > @ THEN packet.id ELSE @,
          !.last = packet.id,
          !.received = @ + 1,
          !.tooEarly = IF restart /\ packet.id # history.last + 1 THEN @ + 1 ELSE @,
          !.sameReport = @ /\ ~restart,
          !.samePeriod = @ /\ ~restart]
     /\ UNCHANGED sender

\* A packet of another stream, the first one or one in order.
ReceiveOther(ssrc) ==
  /\ ssrc \in DOMAIN statisticians =>
       ~statisticians[ssrc].active /\ statisticians[ssrc].max < MaxOther
  /\ OnRtpPacket(ssrc, IF ssrc \in DOMAIN statisticians
                         THEN (statisticians[ssrc].max + 1) % Modulus ELSE 0)
  /\ UNCHANGED <<sender, flight, history>>

Next ==
  \/ Send \/ Jump
  \/ \E i \in DOMAIN flight : Lose(i) \/ Deliver(i)
  \/ \E ssrc \in OtherStreams : ReceiveOther(ssrc)
  \/ SendReport
  \/ GetStats
  \/ \E ssrc \in SSRCs : TimesOut(ssrc)
  \/ \E t \in Thresholds : SetMaxReorderingThreshold(t)
  \/ \E t \in Thresholds, ssrc \in SSRCs : SetStreamThreshold(ssrc, t)

Spec == Init /\ [][Next]_vars

-----------------------------------------------------------------------------
(* Every stream with a statistician has one turn in the round, and what is   *)
(* counted of each is a number of its kind.                                  *)
TypeOK ==
  /\ DOMAIN statisticians \subseteq SSRCs
  /\ {all_ssrcs[i] : i \in DOMAIN all_ssrcs} = DOMAIN statisticians
  /\ Len(all_ssrcs) = Cardinality(DOMAIN statisticians)
  /\ last_returned \in 0..Cardinality(SSRCs)
  /\ \A ssrc \in DOMAIN statisticians :
       LET s == statisticians[ssrc]
       IN /\ s.loss \in Int /\ s.offset \in Nat /\ s.max \in Int
          /\ s.outOfOrder \in SeqNums \cup {None}
          /\ s.active => ReceivedRtpPacket(s)

(* The loss counted is what RFC 3550 says, the packets sent from the first   *)
(* received to the last minus those received, through reordering and the     *)
(* wrap of the numbers; a packet kept back until a restart is clear counts   *)
(* as lost.  A restart of the sender adds none, the "net zero change" of      *)
(* UpdateOutOfOrder (receive_statistics_impl.cc:75-78), with one exception:   *)
(* when the sender goes on right behind a late packet that is kept back, the   *)
(* two are taken for the beginning of the new numbers, and the late packet,    *)
(* expected once before, stays counted as lost.                               *)
LossIsCounted ==
  Media \in DOMAIN statisticians /\ history.received > 0 =>
    LET s == statisticians[Media]
        missing == history.top - history.first + 1 - history.received
        keptBack == IF s.outOfOrder = None THEN 0 ELSE 1
    IN /\ s.loss <= missing + keptBack + history.tooEarly
       /\ sender.restarts = 0 => s.loss = missing + keptBack

(* A report never expects less than no packets (the RTC_DCHECK of            *)
(* MaybeAppendReportBlockAndReset), and unless the stream started anew since *)
(* the last one it reports no more packets lost than expected: the fraction  *)
(* fits into its eight bits.  The same of the period the statistics show.     *)
RatesAreSane ==
  \A ssrc \in DOMAIN statisticians :
    LET s == statisticians[ssrc]
    IN /\ ExpectedSinceReport(s) >= 0
       /\ history.sameReport => LostSinceReport(s) <= ExpectedSinceReport(s)
       /\ ssrc = Media /\ history.samePeriod => LostInPeriod(s) <= ExpectedInPeriod(s)

(* However few blocks fit, a stream that has something to report waits for  *)
(* no more reports than there are other streams.                             *)
NoStreamStarves ==
  \A ssrc \in SSRCs : history.waited[ssrc] < Cardinality(SSRCs)

(* What a report says of the streams is sane, and every stream has its turn. *)
ReportsAreSane == TypeOK /\ RatesAreSane /\ NoStreamStarves

=============================================================================
