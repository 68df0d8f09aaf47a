---------------------------- MODULE DelayManager ----------------------------
(***************************************************************************)
(* DelayManager (delay_manager.cc): how much audio NetEq tries to keep in  *)
(* its buffer.  A method is an operator from the state of the manager, d,  *)
(* to its next one.  The histogram of relative arrival delays is external: *)
(* the level it asks for is an input of Update.  The maximum is 15 s       *)
(* (neteq.h:132, set at neteq_impl.cc:180) and left out: no delay above    *)
(* MaxBase, 10 s, gets past NetEqImpl::SetMinimumDelay, and no level of    *)
(* the histogram comes near it.                                            *)
(***************************************************************************)
EXTENDS Integers, FiniteSetsExt

CONSTANTS StartDelay,          \* kStartDelayMs
          DefaultBase,         \* the base_minimum_delay_ms_ of the constructor
          MinBase, MaxBase,    \* kMinBaseMinimumDelayMs, kMaxBaseMinimumDelayMs
          MaxPacketsInBuffer   \* max_packets_in_buffer_

NewDelayManager ==
  [received |-> FALSE, len |-> 0, target |-> StartDelay,
   base |-> DefaultBase, effective |-> DefaultBase, minimum |-> 0]

ThreeQuarters(d) == (MaxPacketsInBuffer * d.len * 3) \div 4

MinimumDelayUpperBound(d) == IF ThreeQuarters(d) > 0 THEN Min({MaxBase, ThreeQuarters(d)}) ELSE MaxBase

UpdateEffectiveMinimumDelay(d) ==
  [d EXCEPT !.effective = Max({d.minimum, Min({d.base, MinimumDelayUpperBound(d)})})]

IsValidMinimumDelay(d, delay) == 0 =< delay /\ delay =< MinimumDelayUpperBound(d)

SetMinimumDelay(d, delay) ==
  IF IsValidMinimumDelay(d, delay)
    THEN UpdateEffectiveMinimumDelay([d EXCEPT !.minimum = Max({delay, d.base})])
    ELSE d

IsValidBaseMinimumDelay(delay) == MinBase =< delay /\ delay =< MaxBase

SetBaseMinimumDelay(d, delay) ==
  IF IsValidBaseMinimumDelay(delay) THEN UpdateEffectiveMinimumDelay([d EXCEPT !.base = delay]) ELSE d

\* The effective minimum is not computed again, though its bound follows the length.
SetPacketAudioLength(d, length) == IF length > 0 THEN [d EXCEPT !.len = length] ELSE d

Reset(d) == [d EXCEPT !.received = FALSE, !.len = 0, !.target = StartDelay]

\* The first packet only starts the measurements.  level is the quantile of the
\* histogram after this one.
Update(d, level) ==
  LET wanted == Max({level, d.effective})
  IN IF d.received
       THEN [d EXCEPT !.target =
               IF d.len > 0 THEN Min({Max({wanted, d.len}), ThreeQuarters(d)}) ELSE wanted]
       ELSE [d EXCEPT !.received = TRUE]

=============================================================================
