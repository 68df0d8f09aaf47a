--------------------------- MODULE SequenceFacts ---------------------------
(***************************************************************************)
(* That a sequence known by its elements is an Append, that a finite set   *)
(* of integers has a greatest element, and that a fold goes through the    *)
(* values of its steps and keeps what each of them keeps, for the proofs.  *)
(* The fold is written out below, as FoldLeft of the community modules     *)
(* unfolds, and few modules are extended, so that a module with several    *)
(* instances of this one does not get a copy of all the others each time.  *)
(***************************************************************************)
EXTENDS Integers, Sequences, FiniteSets, WellFoundedInduction, TLAPS

CONSTANT FoldStep(_, _)  \* what is folded

\* A sequence is a function of its places.
LEMMA SeqIsFunction ==
  ASSUME NEW S, NEW s \in Seq(S)
  PROVE  s = [i \in 1..Len(s) |-> s[i]]
OBVIOUS

\* A sequence known by its elements is the other with one more.
LEMMA IsAppend ==
  ASSUME NEW S, NEW s \in Seq(S), NEW t \in Seq(S), NEW x \in S,
         Len(t) = Len(s) + 1, \A i \in 1..Len(s) : t[i] = s[i], t[Len(s) + 1] = x
  PROVE  t = Append(s, x)
<1>1. /\ Append(s, x) \in Seq(S) /\ Len(Append(s, x)) = Len(s) + 1 /\ Len(s) \in Nat
      /\ \A i \in 1..Len(s) : Append(s, x)[i] = s[i]
      /\ Append(s, x)[Len(s) + 1] = x
  OBVIOUS
<1>2. \A i \in 1..(Len(s) + 1) : i \in 1..Len(s) \/ i = Len(s) + 1
  BY <1>1
<1>3. \A i \in 1..Len(t) : t[i] = Append(s, x)[i]
  BY <1>1, <1>2
<1>4. Append(s, x) = [i \in 1..Len(Append(s, x)) |-> Append(s, x)[i]]
  BY <1>1, SeqIsFunction
<1>5. t = [i \in 1..Len(t) |-> t[i]]
  BY SeqIsFunction
<1>6. [i \in 1..Len(t) |-> t[i]] = [i \in 1..Len(Append(s, x)) |-> Append(s, x)[i]]
  BY <1>1, <1>3
<1> QED
  BY <1>4, <1>5, <1>6, Zenon

-----------------------------------------------------------------------------
\* Induction up to n, for a set: a least place that is not in it has one before it that
\* is not either.
LEMMA UpTo ==
  ASSUME NEW n \in Nat, NEW G \in SUBSET (0..n), 0 \in G,
         \A k \in 0..(n - 1) : k \in G => k + 1 \in G
  PROVE  n \in G
<1> DEFINE S == {m \in 0..n : m \notin G}
<1>1. SUFFICES ASSUME n \notin G
               PROVE  FALSE
  OBVIOUS
<1>2. S \subseteq Nat /\ S # {}
  <2>1. n \in S
    BY <1>1
  <2> QED
    BY <2>1
<1>3. PICK x \in S : \A y \in S : <<y, x>> \notin OpToRel(<, Nat)
  <2> HIDE DEF S
  <2> QED
    BY <1>2, WFMin, NatLessThanWellFounded
<1>4. x \in 0..n /\ x \notin G
  OBVIOUS
<1>5. x # 0 /\ x - 1 \in 0..(n - 1) /\ x - 1 < x /\ (x - 1) + 1 = x /\ x \in Nat /\ x - 1 \in Nat
  BY <1>4
<1>6. x - 1 \notin G
  BY <1>4, <1>5
<1>7. x - 1 \in S
  BY <1>5, <1>6
<1>8. <<x - 1, x>> \in OpToRel(<, Nat)
  BY <1>5 DEF OpToRel
<1> QED
  BY <1>3, <1>7, <1>8

\* A finite set of integers has a greatest element, that of a list of its elements.
LEMMA HasGreatest ==
  ASSUME NEW S \in SUBSET Int, IsFiniteSet(S), S # {}
  PROVE  \E x \in S : \A y \in S : y <= x
<1>1. PICK list \in Seq(S) : \A s \in S : \E i \in 1..Len(list) : list[i] = s
  BY DEF IsFiniteSet
<1> DEFINE n == Len(list)
           Top(k, x) == \A i \in 1..k : list[i] <= x
           G == {k \in 0..n : \E x \in S : Top(k, x)}
<1>2. n \in Nat /\ \A i \in 1..n : list[i] \in S
  OBVIOUS
<1>3. 0 \in G
  <2>1. \A x \in S : Top(0, x)
    OBVIOUS
  <2>2. 0 \in 0..n
    BY <1>2
  <2> HIDE DEF Top, n
  <2> QED
    BY <2>1, <2>2
<1>4. ASSUME NEW k \in 0..(n - 1), k \in G
      PROVE  k + 1 \in G
  <2>1. PICK x \in S : Top(k, x)
    BY <1>4
  <2> HIDE DEF n
  <2>2. k + 1 \in 1..n /\ k + 1 \in 0..n /\ \A i \in 1..(k + 1) : i \in 1..k \/ i = k + 1
    BY <1>2
  <2>3. list[k + 1] \in S /\ x \in Int /\ list[k + 1] \in Int /\ \A i \in 1..k : list[i] \in Int
    <3>1. \A i \in 1..k : i \in 1..n
      BY <1>2, <2>2
    <3> QED
      BY <1>2, <2>2, <3>1
  <2>4. CASE list[k + 1] <= x
    BY <2>1, <2>2, <2>4
  <2>5. CASE ~(list[k + 1] <= x)
    <3>1. \A i \in 1..k : list[i] <= list[k + 1]
      BY <2>1, <2>3, <2>5
    <3>2. Top(k + 1, list[k + 1])
      BY <2>2, <2>3, <3>1
    <3> QED
      BY <2>2, <2>3, <3>2
  <2> QED
    BY <2>4, <2>5
<1>5. n \in G
  <2> HIDE DEF G, n
  <2>1. G \in SUBSET (0..n)
    BY DEF G
  <2> QED
    BY <1>2, <1>3, <1>4, <2>1, UpTo
<1> QED
  BY <1>1, <1>5

\* The greatest element of a set, and of what is chosen from 1..n.
Greatest(S) == CHOOSE x \in S : \A y \in S : x >= y

LEMMA MaxOf ==
  ASSUME NEW n \in Nat, NEW s \in SUBSET (1..n), s # {}
  PROVE  Greatest(s) \in s /\ Greatest(s) \in 1..n /\ \A y \in s : y <= Greatest(s)
<1> DEFINE G == {k \in 0..n : \A t \in SUBSET (1..k) : t # {} => \E x \in t : \A y \in t : y <= x}
<1>1. 0 \in G
  <2>1. \A t \in SUBSET (1..0) : t = {}
    OBVIOUS
  <2>2. 0 \in 0..n
    OBVIOUS
  <2> QED
    BY <2>1, <2>2, Zenon
<1>2. ASSUME NEW k \in 0..(n - 1), k \in G
      PROVE  k + 1 \in G
  <2>1. ASSUME NEW t \in SUBSET (1..(k + 1)), t # {}
        PROVE  \E x \in t : \A y \in t : y <= x
    <3>1. CASE k + 1 \in t
      BY <3>1
    <3>2. CASE k + 1 \notin t
      <4>1. t \in SUBSET (1..k)
        BY <3>2
      <4> QED
        BY <1>2, <2>1, <4>1
    <3> QED
      BY <3>1, <3>2
  <2>2. k + 1 \in 0..n
    OBVIOUS
  <2> QED
    BY <2>1, <2>2
<1>3. n \in G
  <2> HIDE DEF G
  <2>1. G \in SUBSET (0..n)
    BY DEF G
  <2> QED
    BY <1>1, <1>2, <2>1, UpTo
<1>4. PICK x \in s : \A y \in s : y <= x
  BY <1>3
<1>5. x \in s /\ \A y \in s : x >= y
  BY <1>4
<1>6. Greatest(s) \in s /\ \A y \in s : Greatest(s) >= y
  BY <1>5, Zenon DEF Greatest
<1> QED
  BY <1>6

\* One step of the recursion by which a fold is defined.
FoldAt(base, seq, g, s) ==
  IF s = {} THEN base ELSE LET x == Greatest(s) IN FoldStep(g[s \ {x}], seq[x])

\* The recursion itself.
Folded(base, seq) ==
  LET iter[s \in SUBSET DOMAIN seq] ==
        IF s = {} THEN base
        ELSE LET x == Greatest(s) IN FoldStep(iter[s \ {x}], seq[x])
  IN  iter[DOMAIN seq]

IsFold(base, seq, n, g) == g = [s \in SUBSET (1..n) |-> FoldAt(base, seq, g, s)]

\* There is a function that the definition describes.
LEMMA FoldExists ==
  ASSUME NEW base, NEW seq, NEW n \in Nat
  PROVE  \E g : IsFold(base, seq, n, g)
<1> DEFINE G == {k \in 0..n : \E g : IsFold(base, seq, k, g)}
<1>1. 0 \in G
  <2> DEFINE g == [s \in SUBSET (1..0) |-> base]
  <2>1. \A s \in SUBSET (1..0) : s = {}
    OBVIOUS
  <2>2. \A h : [s \in SUBSET (1..0) |-> FoldAt(base, seq, h, s)] = g
    BY <2>1 DEF FoldAt
  <2>3. IsFold(base, seq, 0, g)
    BY <2>2 DEF IsFold
  <2> QED
    BY <2>3
<1>2. ASSUME NEW k \in 0..(n - 1), k \in G
      PROVE  k + 1 \in G
  <2>1. PICK g : IsFold(base, seq, k, g)
    BY <1>2
  <2> DEFINE h == [s \in SUBSET (1..(k + 1)) |->
                     IF k + 1 \in s THEN FoldStep(g[s \ {k + 1}], seq[k + 1]) ELSE g[s]]
  <2>2. ASSUME NEW s \in SUBSET (1..(k + 1))
        PROVE  h[s] = FoldAt(base, seq, h, s)
    <3>1. CASE k + 1 \in s
      <4>1. Greatest(s) = k + 1
        <5>1. k + 1 \in Nat /\ s # {}
          BY <3>1
        <5>2. Greatest(s) \in 1..(k + 1) /\ k + 1 <= Greatest(s)
          BY <3>1, <5>1, MaxOf
        <5> QED
          BY <5>2
      <4>2. s \ {k + 1} \in SUBSET (1..k) /\ s \ {k + 1} \in SUBSET (1..(k + 1))
        OBVIOUS
      <4>3. h[s \ {k + 1}] = g[s \ {k + 1}]
        BY <4>2
      <4>4. s # {} /\ h[s] = FoldStep(g[s \ {k + 1}], seq[k + 1])
        BY <3>1
      <4> QED
        BY <4>1, <4>3, <4>4, Zenon DEF FoldAt
    <3>2. CASE k + 1 \notin s
      <4>1. s \in SUBSET (1..k)
        BY <3>2
      <4>2. h[s] = g[s] /\ g[s] = FoldAt(base, seq, g, s)
        BY <2>1, <3>2, <4>1 DEF IsFold
      <4>3. CASE s = {}
        BY <4>2, <4>3 DEF FoldAt
      <4>4. CASE s # {}
        <5>1. Greatest(s) \in s
          <6>1. k \in Nat
            OBVIOUS
          <6> QED
            BY <4>1, <4>4, <6>1, MaxOf
        <5>2. s \ {Greatest(s)} \in SUBSET (1..(k + 1)) /\ k + 1 \notin s \ {Greatest(s)}
          BY <3>2
        <5>3. h[s \ {Greatest(s)}] = g[s \ {Greatest(s)}]
          BY <5>2
        <5> QED
          BY <4>2, <4>4, <5>3, Zenon DEF FoldAt
      <4> QED
        BY <4>3, <4>4
    <3> QED
      BY <3>1, <3>2
  <2>3. IsFold(base, seq, k + 1, h)
    <3>1. h = [s \in SUBSET (1..(k + 1)) |-> h[s]]
      OBVIOUS
    <3> HIDE DEF h
    <3>2. [s \in SUBSET (1..(k + 1)) |-> h[s]] = [s \in SUBSET (1..(k + 1)) |-> FoldAt(base, seq, h, s)]
      BY <2>2
    <3> QED
      BY <3>1, <3>2, Zenon DEF IsFold
  <2> HIDE DEF h
  <2> QED
    BY <2>3
<1>3. n \in G
  <2> HIDE DEF G
  <2>1. G \in SUBSET (0..n)
    BY DEF G
  <2> QED
    BY <1>1, <1>2, <2>1, UpTo
<1> QED
  BY <1>3

\* The fold is the value of such a function on all places of the sequence.
LEMMA FoldIs ==
  ASSUME NEW S, NEW seq \in Seq(S), NEW base
  PROVE  \E g : IsFold(base, seq, Len(seq), g) /\ Folded(base, seq) = g[1..Len(seq)]
<1>1. DOMAIN seq = 1..Len(seq) /\ Len(seq) \in Nat
  OBVIOUS
<1> DEFINE g == CHOOSE h : IsFold(base, seq, Len(seq), h)
<1>2. IsFold(base, seq, Len(seq), g)
  BY <1>1, FoldExists
<1>3. Folded(base, seq) = g[1..Len(seq)]
  BY <1>1, Zenon DEF Folded, IsFold, FoldAt
<1> HIDE DEF g
<1> QED
  BY <1>2, <1>3

\* A fold goes through the values h[0], h[1], ... of its steps.
Trace(base, seq, h) ==
  /\ h[0] = base /\ Folded(base, seq) = h[Len(seq)]
  /\ \A k \in 0..(Len(seq) - 1) : h[k + 1] = FoldStep(h[k], seq[k + 1])

LEMMA FoldTrace ==
  ASSUME NEW S, NEW seq \in Seq(S), NEW base
  PROVE  \E h : Trace(base, seq, h)
<1>1. PICK g : IsFold(base, seq, Len(seq), g) /\ Folded(base, seq) = g[1..Len(seq)]
  BY FoldIs
<1> DEFINE n == Len(seq)
           h == [k \in 0..n |-> g[1..k]]
<1>2. n \in Nat
  OBVIOUS
<1>3. h[0] = base
  <2>1. 1..0 = {} /\ 1..0 \in SUBSET (1..n)
    BY <1>2
  <2>2. g[1..0] = base
    BY <1>1, <2>1 DEF IsFold, FoldAt
  <2>3. 0 \in 0..n
    BY <1>2
  <2> QED
    BY <2>2, <2>3
<1>4. ASSUME NEW k \in 0..(n - 1)
      PROVE  h[k + 1] = FoldStep(h[k], seq[k + 1])
  <2> HIDE DEF n
  <2>1. k \in Nat /\ k + 1 \in Nat /\ k + 1 <= n
    BY <1>2
  <2>2. 1..(k + 1) \in SUBSET (1..n) /\ 1..(k + 1) # {} /\ k + 1 \in 0..n /\ k \in 0..n
    <3>1. \A i \in 1..(k + 1) : i \in 1..n
      BY <1>2, <2>1
    <3>2. k + 1 \in 1..(k + 1) /\ k + 1 \in 0..n /\ k \in 0..n
      BY <1>2, <2>1
    <3> QED
      BY <3>1, <3>2
  <2>3. Greatest(1..(k + 1)) = k + 1
    <3>1. Greatest(1..(k + 1)) \in 1..(k + 1) /\ \A y \in 1..(k + 1) : y <= Greatest(1..(k + 1))
      BY <2>1, <2>2, MaxOf
    <3> QED
      BY <2>1, <3>1
  <2>4. 1..(k + 1) \ {k + 1} = 1..k
    BY <2>1
  <2>5. g[1..(k + 1)] = FoldAt(base, seq, g, 1..(k + 1))
    BY <1>1, <2>2 DEF IsFold, n
  <2>6. g[1..(k + 1)] = FoldStep(g[1..k], seq[k + 1])
    BY <2>2, <2>3, <2>4, <2>5, Zenon DEF FoldAt
  <2>7. h[k + 1] = g[1..(k + 1)] /\ h[k] = g[1..k]
    BY <2>2
  <2> QED
    BY <2>6, <2>7, Zenon
<1>5. h[n] = g[1..n]
  BY <1>2
<1> HIDE DEF h
<1> QED
  BY <1>1, <1>3, <1>4, <1>5 DEF Trace

\* The values a fold goes through.
Visited(base, seq) ==
  LET h == CHOOSE g : Trace(base, seq, g) IN {h[k] : k \in 0..Len(seq)}

\* What every step preserves, among the values it goes through, the fold preserves.
LEMMA FoldPreserves ==
  ASSUME NEW S, NEW seq \in Seq(S), NEW base, NEW Good,
         base \in Visited(base, seq) => base \in Good,
         \A c \in Good : \A x \in S :
           FoldStep(c, x) \in Visited(base, seq) => FoldStep(c, x) \in Good
  PROVE  Folded(base, seq) \in Good
<1> DEFINE n == Len(seq)
           h == CHOOSE g : Trace(base, seq, g)
           G == {k \in 0..n : h[k] \in Good}
<1>1. Trace(base, seq, h)
  BY FoldTrace
<1>2. n \in Nat /\ \A i \in 1..n : seq[i] \in S
  OBVIOUS
<1>3. Visited(base, seq) = {h[k] : k \in 0..n}
  BY DEF Visited
<1> HIDE DEF h
<1>4. 0 \in G
  <2>1. h[0] = base /\ h[0] \in Visited(base, seq)
    BY <1>1, <1>2, <1>3 DEF Trace
  <2> QED
    BY <1>2, <2>1
<1>5. ASSUME NEW k \in 0..(n - 1), k \in G
      PROVE  k + 1 \in G
  <2>1. h[k + 1] = FoldStep(h[k], seq[k + 1])
    BY <1>1 DEF Trace
  <2> HIDE DEF n
  <2>2. k + 1 \in 1..n /\ k + 1 \in 0..n
    BY <1>2
  <2>3. h[k] \in Good /\ seq[k + 1] \in S
    BY <1>2, <1>5, <2>2
  <2>4. h[k + 1] \in Visited(base, seq)
    BY <1>3, <2>2
  <2>5. h[k + 1] \in Good
    BY <2>1, <2>3, <2>4
  <2> QED
    BY <2>2, <2>5
<1>6. n \in G
  <2> HIDE DEF G, n
  <2>1. G \in SUBSET (0..n)
    BY DEF G
  <2> QED
    BY <1>2, <1>4, <1>5, <2>1, UpTo
<1> QED
  BY <1>1, <1>6 DEF Trace
=============================================================================
