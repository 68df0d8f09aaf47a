---------------------------- MODULE DecisionLogic ----------------------------
(***************************************************************************)
(* DecisionLogic (decision_logic.cc): what NetEq shall do to produce the   *)
(* next block of OutputSize samples.  A method is an operator from the     *)
(* state of the controller, ctl, to its next one.  The filtered level of   *)
(* the buffer (an external filter) is an input, of which only its place    *)
(* between the limits of ExpectedPacketAvailable matters:                  *)
(*   "low" < low limit <= "under" < target <= "over" < high limit <= "high"*)
(* so the bookkeeping that only feeds that filter is not kept.  The codecs *)
(* of the player run at 44.1 and 48 kHz, for which no comfort noise codec  *)
(* (RFC 3389) is offered, so no packet is one.                             *)
(*                                                                         *)
(* A status st has last_mode, next (a packet or NoPacket), target_timestamp,*)
(* noise (generated_noise_samples), span, dtx_or_cng, level and faded (the *)
(* expansion is below half its volume).  While the countdown of            *)
(* TimescaleAllowed lasts, "low" acts as "under" and "high" as "over".     *)
(***************************************************************************)
EXTENDS SeqNum

CONSTANTS OutputSize,       \* samples of 10 ms
          Tolerance,        \* 50 samples: a packet this near is the expected one
          FiveSeconds,      \* samples after which an old timestamp is a new one
          TargetLevel,      \* TargetDelayMs() in samples
          NoiseWindow,      \* target_level_window_ms_ / 2, in samples
          ReinitAfterExpands, MaxWaitForPacket   \* kReinitAfterExpands, kMaxWaitForPacket

Levels == {"low", "under", "over", "high"}
NoPacket == [ts |-> -1]

NewDecisionLogic == [cng_state_ |-> "off", num_consecutive_expands_ |-> 0]

\* A timestamp that is older than limit, but not by more than the horizon (0: none).
IsObsoleteTimestamp(ts, limit, horizon) ==
  AheadOf(limit, ts) /\ (horizon = 0 \/ AheadOf(ts, (limit - horizon) % Modulus))

-----------------------------------------------------------------------------
NoPacketOperation(ctl) ==
  IF ctl.cng_state_ = "internal" THEN "codecinternalcng" ELSE "expand"

ExpectedPacketAvailable(st) ==
  IF st.last_mode = "expand" THEN "normal"
  ELSE CASE st.level = "high" -> "accelerate"
         [] st.level = "low" -> "preemptiveexpand"
         [] OTHER -> "normal"

UnderTargetLevel(st) == st.level \in {"low", "under"}

\* The ongoing expansion goes on, because the packet is too far in the future.
KeepExpanding(ctl, st, leap) ==
  /\ st.last_mode = "expand"
  /\ leap < OutputSize * ReinitAfterExpands
  /\ ctl.num_consecutive_expands_ < MaxWaitForPacket
  /\ leap > OutputSize * ctl.num_consecutive_expands_
  /\ UnderTargetLevel(st)

\* After comfort noise the packet is played when enough noise was, within the window.
PlayAfterNoise(st) ==
  LET enough == (st.noise + st.target_timestamp) % Modulus >= st.next.ts
      above  == st.span > TargetLevel + NoiseWindow
      below  == TargetLevel > NoiseWindow /\ st.span < TargetLevel - NoiseWindow
  IN  (enough /\ ~below) \/ above

FuturePacketAvailable(ctl, st) ==
  LET keeps == KeepExpanding(ctl, st, ForwardDiff(st.target_timestamp, st.next.ts))
  IN  CASE st.last_mode = "expand" /\ ~keeps -> "merge"
        [] st.last_mode = "codecinternalcng" ->
             IF PlayAfterNoise(st) THEN "normal" ELSE "codecinternalcng"
        [] OTHER -> "expand"

\* Audio does not start again too soon after an expansion that was heard to fade.
PostponeDecoding(st) ==
  /\ st.last_mode = "expand"
  /\ st.faded
  /\ 2 * st.span < TargetLevel
  /\ ~st.dtx_or_cng

\* A very long expansion: the sender probably restarted, so the decoder is reset.
ReinitDue(ctl, st) ==
  /\ st.last_mode # "error" /\ st.next # NoPacket
  /\ ctl.num_consecutive_expands_ > ReinitAfterExpands

Expected(st) == \/ ForwardDiff(st.target_timestamp, st.next.ts) < Tolerance
                \/ ForwardDiff(st.next.ts, st.target_timestamp) < Tolerance

SpeechOperation(ctl, st) ==
  CASE ReinitDue(ctl, st) -> "normal"
    [] ~ReinitDue(ctl, st) /\ PostponeDecoding(st) -> "expand"
    [] OTHER ->
         CASE Expected(st) -> ExpectedPacketAvailable(st)
           [] ~Expected(st) /\ ~IsObsoleteTimestamp(st.next.ts, st.target_timestamp, FiveSeconds) ->
                FuturePacketAvailable(ctl, st)
           [] OTHER -> "undefined"     \* a new stream: asks for a reset

GetDecision(ctl, st) ==
  CASE st.last_mode = "error" -> IF st.next = NoPacket THEN "expand" ELSE "undefined"
    [] st.last_mode # "error" /\ st.next = NoPacket -> NoPacketOperation(ctl)
    [] OTHER -> SpeechOperation(ctl, st)

\* What the decision leaves in the controller: that codec-internal noise is on.
NoteMode(ctl, last_mode) ==
  IF last_mode = "codecinternalcng" THEN [ctl EXCEPT !.cng_state_ = "internal"] ELSE ctl

\* Mutant: expansions are not counted.
ExpandDecisionForgets(ctl, op) == ctl

\* The count saturates just above what it is compared with.
ExpandDecision(ctl, op) ==
  [ctl EXCEPT !.num_consecutive_expands_ =
     IF op # "expand" THEN 0 ELSE IF @ > ReinitAfterExpands THEN @ ELSE @ + 1]

SetCngOff(ctl) == [ctl EXCEPT !.cng_state_ = "off"]
=============================================================================
