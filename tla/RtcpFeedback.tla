---------------------------- MODULE RtcpFeedback ----------------------------
(***************************************************************************)
(* RtcpFeedbackBuffer (rtp_video_stream_receiver2.cc): between the         *)
(* NackRequester and the RTCP module.  What the requester asks for while a *)
(* packet is handled waits until the packet was handled, so that nacks and *)
(* a key frame request leave together; a key frame request replaces the    *)
(* nacks.  A packet that is not media, or that the parameter set tracker   *)
(* drops, leaves the buffer as it is; a nack of the timer sends at once.    *)
(*                                                                         *)
(* Loss notifications are off in the player, the order of the numbers in   *)
(* a nack is left out.                                                     *)
(***************************************************************************)
EXTENDS NackRequester

CONSTANTS
  Stream,        \* bound: the numbers that the sender uses
  MaxBuffered    \* bound on the nacks that wait

ASSUME FeedbackAssumption == Stream \subseteq SeqNums /\ MaxBuffered \in Nat

VARIABLES
  nack_sequence_numbers_,
  request_key_frame_

buffered == <<nack_sequence_numbers_, request_key_frame_>>
fvars == <<vars, buffered>>

\* What the requester has handed over in this step joins what waits.
Nacks == nack_sequence_numbers_ \cup batch'
WantsKey == request_key_frame_ \/ key_requested'

Hold ==
  /\ Cardinality(Nacks) <= MaxBuffered
  /\ nack_sequence_numbers_' = Nacks
  /\ request_key_frame_' = WantsKey

\* A nack is sent, or a request for a key frame instead of it.
SendBufferedRtcpFeedback ==
  /\ nack_sequence_numbers_' = {}
  /\ request_key_frame_' = FALSE

\* What the tracker does with the packet decides how it ends: it is dropped, or
\* it is the first slice of a key frame whose parameter sets have not come.
PacketHandled(fate) ==
  IF fate = "drop" THEN Hold ELSE SendBufferedRtcpFeedback

-----------------------------------------------------------------------------
FeedbackInit ==
  /\ Init
  /\ nack_sequence_numbers_ = {}
  /\ request_key_frame_ = FALSE

MediaPacket(seq, is_keyframe, is_recovered, fate) ==
  /\ OnReceivedPayloadData(seq, is_keyframe, is_recovered)
  /\ fate # "insert" => ~is_recovered
  /\ fate = "request_key_frame" => is_keyframe
  /\ PacketHandled(fate)

\* Padding, or a RED packet with FEC: nothing is sent.
EmptyPacket(seq) ==
  /\ NotifyReceiverOfEmptyPacket(seq)
  /\ Hold

\* An empty payload behind a header that was parsed goes through the requester
\* a second time, which finds nothing new, and sends.
EmptyPayload(seq) ==
  /\ OnReceivedPayloadData(seq, FALSE, FALSE)
  /\ SendBufferedRtcpFeedback

\* Mutant: a nack of the timer waits for a packet as the others do.
PeriodicHeld == ProcessNacks /\ Hold

\* What the timer asks for is sent at once, and what waits with it.
Periodic ==
  /\ ProcessNacks
  /\ IF batch' # {} THEN SendBufferedRtcpFeedback ELSE Hold

Other ==
  /\ (\E seq \in SeqNums : FrameDecoded(seq)) \/ ClearUpTo \/ (\E rtt \in Rtts : UpdateRtt(rtt))
  /\ Hold

Fates == {"insert", "drop", "request_key_frame"}

FeedbackNext ==
  \/ \E seq \in Stream, is_keyframe, is_recovered \in BOOLEAN, fate \in Fates :
       MediaPacket(seq, is_keyframe, is_recovered, fate)
  \/ \E seq \in Stream : EmptyPacket(seq)
  \/ \E seq \in Stream : EmptyPayload(seq)
  \/ Periodic
  \/ Other

\* The periodic processor keeps running; packets need not come.
FeedbackSpec == FeedbackInit /\ [][FeedbackNext]_fvars /\ WF_fvars(Periodic)

-----------------------------------------------------------------------------
\* A nack that was left behind, by padding or by a packet that is dropped, leaves
\* the buffer even if no further packet comes: the timer asks for the packet again
\* and sends what waits too, so that the retries are not used up in the buffer.  It
\* may stay only when it is useless: the packet left the list before it had been
\* asked for often enough.  A request for a key frame that is left behind has no
\* timer: while nothing is missing it waits for a packet that is handled to its end.
HeldNacksLeave ==
  \A s \in Stream :
    s \in nack_sequence_numbers_ /\ s \in Listed ~>
      s \notin nack_sequence_numbers_ \/ (s \notin Listed /\ asked[s] < MaxNackRetries)

=============================================================================
