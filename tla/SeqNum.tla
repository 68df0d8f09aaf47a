------------------------------- MODULE SeqNum -------------------------------
(***************************************************************************)
(* Cyclic numbers and their order, as WebRTC's sequence_number_util.h has  *)
(* them (external): RTP sequence numbers are numbers modulo Modulus, 65536  *)
(* in the code, and a number is ahead of those of the half circle behind   *)
(* it.  Of two opposite numbers the greater one is ahead.                  *)
(***************************************************************************)
EXTENDS Integers

CONSTANT Modulus

ASSUME ModulusAssumption == Modulus \in Nat /\ Modulus > 2 /\ Modulus % 2 = 0

SeqNums == 0..(Modulus - 1)

Half == Modulus \div 2

\* The number that is d behind or ahead of s, for d up to one turn.
Plus(s, d) == IF s + d >= Modulus THEN s + d - Modulus ELSE s + d
Minus(s, d) == IF s - d < 0 THEN s - d + Modulus ELSE s - d

\* How far b is ahead of a.
ForwardDiff(a, b) == IF a <= b THEN b - a ELSE Modulus - a + b

AheadOrAt(a, b) ==
  IF ForwardDiff(b, a) = Half THEN b < a ELSE ForwardDiff(b, a) < Half

AheadOf(a, b) == a # b /\ AheadOrAt(a, b)

\* What a set ordered by DescendingSeqNumComp keeps of S when everything before
\* lower_bound(s) is erased.
FromLowerBound(S, s) == {e \in S : ~AheadOf(s, e)}

\* The comparator orders S: it is a strict order only on a set that covers less
\* than half of the circle.
Ordered(S) == \E oldest \in SeqNums : \A e \in S : ForwardDiff(oldest, e) < Half

=============================================================================
