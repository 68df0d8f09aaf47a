---------------------------- MODULE MCRtdDemuxer ----------------------------
(***************************************************************************)
(* A demuxer with small queues for TLC.  The source's capacities are 120   *)
(* video and 800 audio frames; what matters is that the producers can run  *)
(* a queue full several times over and that a queue of one and one of more *)
(* than one frame both occur.                                              *)
(***************************************************************************)
EXTENDS RtdDemuxer

CONSTANTS VideoCapacity, AudioCapacity, VideoNumbers, AudioNumbers

PerKind(a, v) == [k \in {"audio", "video"} |-> IF k = "audio" THEN a ELSE v]

MCKind == {"audio", "video"}
MCCapacity == PerKind(AudioCapacity, VideoCapacity)
MCNumbers == PerKind(AudioNumbers, VideoNumbers)

(***************************************************************************)
(* The view.  As long as every buffer is in one place, which one it is and *)
(* what a free one held make no difference to any step or property: the    *)
(* states that differ in nothing else are one.  A state in which an        *)
(* invariant fails is seen as it is.                                       *)
(***************************************************************************)
Contents(k) == [i \in DOMAIN queue[k] |-> heap[queue[k][i]].frame]
InHand == IF current_frame_buffer_ = 0 THEN << >> ELSE <<heap[current_frame_buffer_].frame>>

MCView ==
  IF OwnedOnce /\ HomeKept /\ PoolInv
  THEN <<[k \in MCKind |-> <<Contents(k), Len(free_list[k])>>], InHand,
         producer, is_audio, player_pc, ret, last_read, rtd_engine_>>
  ELSE <<vars>>
=============================================================================
