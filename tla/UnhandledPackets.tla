-------------------------- MODULE UnhandledPackets --------------------------
(***************************************************************************)
(* UnhandledPacketsBuffer (unhandled_packets_buffer.cc): packets that no   *)
(* receiver is known for yet.  A vector that fills up and then is a ring:  *)
(* insert_pos_ is the slot to write next, and the oldest one when the      *)
(* vector is full.  A packet is a record with its ssrc and its number.     *)
(***************************************************************************)
EXTENDS Integers, SequencesExt

CONSTANT MaxStashedPackets    \* kMaxStashedPackets

ASSUME StashAssumption == MaxStashedPackets \in Nat \ {0}

EmptyBuffer == [buffer_ |-> <<>>, insert_pos_ |-> 0]

Full(b) == Len(b.buffer_) = MaxStashedPackets

AddPacket(b, packet) ==
  [buffer_ |-> IF Full(b) THEN [b.buffer_ EXCEPT ![b.insert_pos_ + 1] = packet]
                          ELSE Append(b.buffer_, packet),
   insert_pos_ |-> (b.insert_pos_ + 1) % MaxStashedPackets]

\* The packets in the order the two loops visit them.
Stored(b) ==
  LET start == IF Full(b) THEN b.insert_pos_ ELSE 0
  IN  [i \in 1..Len(b.buffer_) |-> b.buffer_[((i - 1 + start) % MaxStashedPackets) + 1]]

\* The stored packets that are wanted, in that order.
Those(b, wanted) ==
  FoldLeft(LAMBDA given, p : IF p \in wanted THEN Append(given, p) ELSE given, <<>>, Stored(b))

\* BackfillPackets: those with one of ssrcs go to the consumer, the others stay.
BackfillPackets(b, ssrcs) ==
  LET consumed == {p \in Range(b.buffer_) : p.ssrc \in ssrcs}
  IN  [given |-> Those(b, consumed),
       left  |-> [buffer_ |-> Those(b, Range(b.buffer_) \ consumed), insert_pos_ |-> 0]]

\* MaybeBackfillPackets: the consumer takes the packets of taken.  When it refuses the
\* first, nothing changes; when it refuses a later one, that is lost.
MaybeBackfillPackets(b, taken) ==
  IF b.buffer_ # <<>> /\ Stored(b)[1] \notin taken
  THEN [given |-> <<>>, left |-> b]
  ELSE [given |-> Those(b, taken), left |-> EmptyBuffer]
=============================================================================
