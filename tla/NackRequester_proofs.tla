------------------------ MODULE NackRequester_proofs ------------------------
(***************************************************************************)
(* Proofs about the nack lists over the wrap of the numbers.               *)
(*                                                                         *)
(* All that the requester remembers lies in a window behind the newest     *)
(* packet that is shorter than half a turn (InWindow), so that there       *)
(* "older" is an order and every comparison of the code means what it      *)
(* says.  A listed packet was asked for as often as its entry has retries, *)
(* and what was ever asked for, in reach, is not ahead of the newest one   *)
(* (Counted): a gap never lists a packet again.  The first packet makes    *)
(* two calls, one of them for a packet that never came.                    *)
(***************************************************************************)
EXTENDS RtcpFeedback, FiniteSetTheorems, SequenceTheorems, SequenceFacts

-----------------------------------------------------------------------------
(* The circle of the numbers.                                              *)

LEMMA HalfFact == /\ Modulus \in Nat /\ Half \in Nat /\ Half > 1 /\ 2 * Half = Modulus
BY ModulusAssumption DEF Half

\* ForwardDiff is a distance around the circle.
LEMMA DiffType ==
  ASSUME NEW a \in SeqNums, NEW b \in SeqNums
  PROVE  /\ ForwardDiff(a, b) \in Nat /\ ForwardDiff(a, b) < Modulus
         /\ ForwardDiff(a, b) = 0 <=> a = b
         /\ a # b => ForwardDiff(b, a) = Modulus - ForwardDiff(a, b)
BY HalfFact DEF SeqNums, ForwardDiff

\* Distances add up until they make a turn.
LEMMA DiffAdds ==
  ASSUME NEW a \in SeqNums, NEW b \in SeqNums, NEW c \in SeqNums,
         ForwardDiff(a, b) + ForwardDiff(b, c) < Modulus
  PROVE  ForwardDiff(a, c) = ForwardDiff(a, b) + ForwardDiff(b, c)
BY HalfFact DEF SeqNums, ForwardDiff

\* Of two numbers on the way from a the nearer one is passed first.
LEMMA DiffSubtracts ==
  ASSUME NEW a \in SeqNums, NEW b \in SeqNums, NEW c \in SeqNums,
         ForwardDiff(a, b) <= ForwardDiff(a, c)
  PROVE  ForwardDiff(b, c) = ForwardDiff(a, c) - ForwardDiff(a, b)
BY HalfFact DEF SeqNums, ForwardDiff

LEMMA DiffSubtractsEnd ==
  ASSUME NEW a \in SeqNums, NEW b \in SeqNums, NEW c \in SeqNums,
         ForwardDiff(b, c) <= ForwardDiff(a, c)
  PROVE  ForwardDiff(a, b) = ForwardDiff(a, c) - ForwardDiff(b, c)
BY HalfFact DEF SeqNums, ForwardDiff

\* A number is ahead of those less than half a turn behind it.
LEMMA AheadWhen ==
  ASSUME NEW a \in SeqNums, NEW b \in SeqNums
  PROVE  /\ ForwardDiff(b, a) < Half => (AheadOf(a, b) <=> a # b) /\ ~AheadOf(b, a)
         /\ AheadOf(a, b) => a # b /\ ForwardDiff(b, a) <= Half
         /\ AheadOf(a, b) \/ AheadOf(b, a) \/ a = b
         /\ ~(AheadOf(a, b) /\ AheadOf(b, a))
BY HalfFact DEF SeqNums, ForwardDiff, AheadOf, AheadOrAt

\* Going back from a.
LEMMA MinusAt ==
  ASSUME NEW a \in SeqNums, NEW d \in Nat, d < Modulus
  PROVE  Minus(a, d) \in SeqNums /\ ForwardDiff(Minus(a, d), a) = d
BY HalfFact DEF SeqNums, ForwardDiff, Minus

LEMMA PlusAt ==
  ASSUME NEW a \in SeqNums, NEW d \in Nat, d < Modulus
  PROVE  Plus(a, d) \in SeqNums /\ ForwardDiff(a, Plus(a, d)) = d
BY HalfFact DEF SeqNums, ForwardDiff, Plus

\* Of the numbers that are less than half a turn behind seq or a little ahead of it,
\* those more than d behind it are before the one d behind it.
LEMMA OlderThan ==
  ASSUME NEW s \in SeqNums, NEW seq \in SeqNums, NEW d \in Nat, d < Half
  PROVE  /\ AheadOf(Minus(seq, d), s) => ForwardDiff(s, seq) > d
         /\ ForwardDiff(s, seq) > d /\ ForwardDiff(s, seq) < Half
              => AheadOf(Minus(seq, d), s)
BY HalfFact DEF SeqNums, ForwardDiff, AheadOf, AheadOrAt, Minus

-----------------------------------------------------------------------------
(* The numbers between two numbers.                                        *)

LEMMA SeqNumsFinite == IsFiniteSet(SeqNums)
BY FS_Interval, HalfFact DEF SeqNums

LEMMA FiniteNums ==
  ASSUME NEW S \in SUBSET SeqNums
  PROVE  IsFiniteSet(S) /\ Cardinality(S) \in Nat
BY SeqNumsFinite, FS_Subset, FS_CardinalityType

LEMMA BetweenAt ==
  ASSUME NEW a \in SeqNums, NEW b \in SeqNums, NEW s \in Between(a, b)
  PROVE  /\ s \in SeqNums
         /\ ForwardDiff(a, s) \in 1..(ForwardDiff(a, b) - 1)
         /\ ForwardDiff(s, b) = ForwardDiff(a, b) - ForwardDiff(a, s)
<1>1. s \in SeqNums /\ s # a /\ ForwardDiff(a, s) < ForwardDiff(a, b)
  BY DEF Between
<1>2. ForwardDiff(s, b) = ForwardDiff(a, b) - ForwardDiff(a, s)
  BY <1>1, DiffSubtracts, DiffType
<1> QED
  BY <1>1, <1>2, DiffType

\* There are as many as the distance says.
LEMMA BetweenCount ==
  ASSUME NEW a \in SeqNums, NEW b \in SeqNums
  PROVE  ForwardDiff(a, b) <= Cardinality(Between(a, b)) + 1
<1> DEFINE n == ForwardDiff(a, b) - 1
           f == [i \in 1..n |-> Plus(a, i)]
<1>1. CASE ForwardDiff(a, b) = 0
  BY <1>1, FiniteNums DEF Between
<1>2. CASE ForwardDiff(a, b) > 0
  <2>1. n \in Nat /\ n < Modulus
    BY <1>2, DiffType, HalfFact
  <2>2. \A i \in 1..n : f[i] \in Between(a, b) /\ ForwardDiff(a, f[i]) = i
    <3> SUFFICES ASSUME NEW i \in 1..n
                 PROVE  f[i] \in Between(a, b) /\ ForwardDiff(a, f[i]) = i
      OBVIOUS
    <3>1. i \in Nat /\ i < Modulus /\ i > 0 /\ i < ForwardDiff(a, b)
      BY <2>1, DiffType, HalfFact
    <3>2. Plus(a, i) \in SeqNums /\ ForwardDiff(a, Plus(a, i)) = i
      BY <3>1, PlusAt
    <3> QED
      BY <3>1, <3>2, DiffType DEF Between
  <2> HIDE DEF f
  <2>3. f \in [1..n -> Between(a, b)]
    BY <2>2 DEF f
  <2>4. f \in Injection(1..n, Between(a, b))
    BY <2>2, <2>3 DEF Injection, IsInjective
  <2>5. IsFiniteSet(Between(a, b)) /\ Cardinality(Between(a, b)) \in Nat
    BY FiniteNums DEF Between
  <2>6. Cardinality(1..n) <= Cardinality(Between(a, b))
    BY <2>4, <2>5, FS_Injection
  <2>7. Cardinality(1..n) = n
    BY <2>1, FS_Interval
  <2> QED
    BY <2>1, <2>5, <2>6, <2>7, DiffType
<1> QED
  BY <1>1, <1>2, DiffType

-----------------------------------------------------------------------------
(* The constants.                                                          *)

LEMMA PairFinite ==
  ASSUME NEW x, NEW y
  PROVE  IsFiniteSet({x, y})
<1>1. IsFiniteSet({x} \cup {y})
  BY FS_Singleton, FS_AddElement
<1>2. {x} \cup {y} = {x, y}
  OBVIOUS
<1> QED
  BY <1>1, <1>2

LEMMA MaxIs ==
  ASSUME NEW S \in SUBSET Int, IsFiniteSet(S), S # {}
  PROVE  Max(S) \in S /\ \A y \in S : y <= Max(S)
<1>1. PICK x \in S : \A y \in S : y <= x
  BY HasGreatest
<1>2. \A y \in S : x >= y
  BY <1>1
<1>3. Max(S) \in S /\ \A y \in S : Max(S) >= y
  BY <1>2 DEF Max
<1> QED
  BY <1>3

\* How far ahead of the newest packet one can come, a made-up one included.
Ahead == Max({MaxJump, FirstBack})

LEMMA Bounds ==
  /\ MaxPacketAge \in Nat \ {0} /\ MaxNackPackets \in Nat \ {0} /\ MaxNackRetries \in Nat \ {0}
  /\ FirstBack \in Nat \ {0} /\ DefaultRtt \in Nat \ {0} /\ MaxJump \in Nat \ {0}
  /\ Ahead \in Nat /\ MaxJump <= Ahead /\ FirstBack <= Ahead
  /\ MaxPacketAge + Ahead < Half
  /\ MaxNackPackets <= MaxPacketAge
<1>1. /\ MaxPacketAge \in Nat \ {0} /\ MaxNackPackets \in Nat \ {0} /\ MaxNackRetries \in Nat \ {0}
      /\ FirstBack \in Nat \ {0} /\ DefaultRtt \in Nat \ {0} /\ MaxJump \in Nat \ {0}
  BY NackAssumption
<1>2. IsFiniteSet({MaxJump, FirstBack})
  BY PairFinite
<1>3. Ahead \in {MaxJump, FirstBack} /\ \A y \in {MaxJump, FirstBack} : y <= Ahead
  BY <1>1, <1>2, MaxIs DEF Ahead
<1> QED
  BY <1>1, <1>3, NackAssumption DEF Ahead

LEMMA RttBound ==
  /\ MaxRtt \in Nat /\ DefaultRtt <= MaxRtt
  /\ \A rtt \in Rtts : Max({rtt, DefaultRtt}) \in DefaultRtt..MaxRtt
<1>1. IsFiniteSet(Rtts \cup {DefaultRtt}) /\ Rtts \cup {DefaultRtt} \subseteq Nat
  BY FS_AddElement, NackAssumption
<1>2. MaxRtt \in Rtts \cup {DefaultRtt} /\ \A y \in Rtts \cup {DefaultRtt} : y <= MaxRtt
  BY <1>1, MaxIs DEF MaxRtt
<1>3. ASSUME NEW rtt \in Rtts
      PROVE  Max({rtt, DefaultRtt}) \in DefaultRtt..MaxRtt
  <2>1. IsFiniteSet({rtt, DefaultRtt})
    BY PairFinite
  <2>2. /\ Max({rtt, DefaultRtt}) \in {rtt, DefaultRtt}
        /\ \A y \in {rtt, DefaultRtt} : y <= Max({rtt, DefaultRtt})
    BY <1>1, <2>1, MaxIs
  <2> QED
    BY <1>1, <1>2, <2>2
<1> QED
  BY <1>1, <1>2, <1>3

\* Once counts one more, up to one too many.
LEMMA OnceIs ==
  ASSUME NEW n \in Nat, n <= MaxNackRetries
  PROVE  Once(n) = n + 1
<1>1. n + 1 <= MaxNackRetries + 1 /\ n + 1 \in Int /\ MaxNackRetries + 1 \in Int
  BY Bounds
<1> QED
  BY <1>1 DEF Once, Min

-----------------------------------------------------------------------------
(* The invariant.  It is stated of records like State, to use it also of    *)
(* what the first made-up packet leaves.                                    *)

Entry == [retries : 1..(MaxNackRetries - 1), age : 0..MaxRtt]
NackLists == UNION {[D -> Entry] : D \in SUBSET SeqNums}

Shape == [init : BOOLEAN, newest : SeqNums, nack : NackLists, keys : SUBSET SeqNums,
          recovered : SUBSET SeqNums, batch : SUBSET SeqNums, key_requested : BOOLEAN]

\* A packet before the newest one that is not too old.
Recent(newest, s) == ForwardDiff(s, newest) \in 1..MaxPacketAge

\* What the lists hold lies in a window around the newest packet that is less than
\* half a turn wide, so that the comparator orders it.
NacksInWindow(newest, listed) ==
  /\ Cardinality(listed) <= MaxNackPackets
  /\ \A s \in listed : Recent(newest, s)

KeysInWindow(newest, keys) ==
  \A k \in keys : ForwardDiff(k, newest) <= MaxPacketAge \/ ForwardDiff(newest, k) <= Ahead

InWindow(st) ==
  /\ NacksInWindow(st.newest, DOMAIN st.nack)
  /\ KeysInWindow(st.newest, st.keys)
  /\ ~st.init => DOMAIN st.nack = {} /\ st.recovered = {}

Typed ==
  /\ State \in Shape
  /\ first_seq_num_received_ \in BOOLEAN
  /\ rtt_ms_ \in DefaultRtt..MaxRtt
  /\ clears \in Seq(SeqNums) /\ Len(clears) <= MaxPosted
  /\ batch \subseteq SeqNums /\ key_requested \in BOOLEAN
  /\ got \subseteq SeqNums
  /\ asked \in [SeqNums -> 0..MaxNackRetries]

\* Before the first packet nothing was asked for.
NothingBefore ==
  ~initialized_ => /\ ~first_seq_num_received_
                   /\ batch = {} /\ got = {} /\ \A s \in SeqNums : asked[s] = 0

\* What was asked for is behind the newest packet, so no later gap has it again,
\* and a listed packet was asked for as often as its entry says.
Counted ==
  /\ \A s \in Listed : asked[s] = nack_list_[s].retries
  /\ \A s \in SeqNums : asked[s] > 0 => Recent(newest_seq_num_, s)

IInv == Typed /\ InWindow(State) /\ NothingBefore /\ Counted

\* Without packets from FEC: what has come is not listed and not ahead of the newest.
Arrived ==
  /\ recovered_list_ = {}
  /\ \A s \in got : ForwardDiff(s, newest_seq_num_) <= MaxPacketAge
  /\ Listed \cap got = {} /\ batch \cap got = {}

-----------------------------------------------------------------------------
(* The parts of OnReceivedPacket.                                          *)

LEMMA ListType ==
  ASSUME NEW f \in NackLists
  PROVE  /\ DOMAIN f \subseteq SeqNums /\ f \in [DOMAIN f -> Entry]
         /\ IsFiniteSet(DOMAIN f) /\ Cardinality(DOMAIN f) \in Nat
<1>1. DOMAIN f \subseteq SeqNums /\ f \in [DOMAIN f -> Entry]
  BY DEF NackLists
<1> QED
  BY <1>1, FiniteNums

\* The functions that the operators make are lists again.
LEMMA ListMade ==
  ASSUME NEW D \in SUBSET SeqNums, NEW f \in [D -> Entry]
  PROVE  f \in NackLists /\ DOMAIN f = D
BY DEF NackLists

LEMMA ShortenedList ==
  ASSUME NEW f \in NackLists, NEW D \in SUBSET DOMAIN f
  PROVE  /\ Restrict(f, D) \in NackLists /\ DOMAIN Restrict(f, D) = D
         /\ \A s \in D : Restrict(f, D)[s] = f[s]
<1>1. DOMAIN f \subseteq SeqNums /\ f \in [DOMAIN f -> Entry]
  BY ListType
<1>2. Restrict(f, D) = [s \in D |-> f[s]]
  BY DEF Restrict
<1>3. Restrict(f, D) \in [D -> Entry]
  BY <1>1, <1>2
<1> QED
  BY <1>1, <1>2, <1>3, ListMade

LEMMA EmptyList == <<>> \in NackLists /\ DOMAIN <<>> = {} /\ Cardinality({}) = 0
<1>1. <<>> \in [{} -> Entry]
  OBVIOUS
<1> QED
  BY <1>1, ListMade, FS_EmptySet

LEMMA ShapeType ==
  ASSUME NEW st \in Shape
  PROVE  /\ st.init \in BOOLEAN /\ st.newest \in SeqNums /\ st.nack \in NackLists
         /\ st.keys \subseteq SeqNums /\ st.recovered \subseteq SeqNums
         /\ st.batch \subseteq SeqNums /\ st.key_requested \in BOOLEAN
BY DEF Shape

\* The key frame that RemovePacketsUntilKeyFrame stops at exists: within a window the
\* comparator has a first one.
LEMMA FirstFrees ==
  ASSUME NEW st \in Shape, NEW seq \in SeqNums, NEW room \in Int,
         KeysInWindow(seq, st.keys), \E k \in st.keys : Frees(st, k, room)
  PROVE  /\ FirstThatFrees(st, room) \in st.keys
         /\ Frees(st, FirstThatFrees(st, room), room)
<1> DEFINE base == Minus(seq, MaxPacketAge)
           K == {k \in st.keys : Frees(st, k, room)}
           T == {-ForwardDiff(base, k) : k \in K}
<1>1. base \in SeqNums /\ ForwardDiff(base, seq) = MaxPacketAge
  BY Bounds, HalfFact, MinusAt
<1> HIDE DEF base
<1>2. \A k \in st.keys : k \in SeqNums /\ ForwardDiff(base, k) < Half
  <2> SUFFICES ASSUME NEW k \in st.keys
               PROVE  k \in SeqNums /\ ForwardDiff(base, k) < Half
    OBVIOUS
  <2>1. k \in SeqNums
    BY ShapeType
  <2>2. CASE ForwardDiff(k, seq) <= MaxPacketAge
    <3>1. ForwardDiff(base, k) = MaxPacketAge - ForwardDiff(k, seq)
      BY <1>1, <2>1, <2>2, DiffSubtractsEnd
    <3>2. ForwardDiff(k, seq) \in Nat
      BY <2>1, DiffType
    <3> QED
      BY <2>1, <3>1, <3>2, Bounds, HalfFact
  <2>3. CASE ForwardDiff(seq, k) <= Ahead
    BY <1>1, <2>1, <2>3, DiffAdds, DiffType, Bounds, HalfFact
  <2> QED
    BY <2>1, <2>2, <2>3 DEF KeysInWindow
<1>3. T \in SUBSET ((-Modulus)..0)
  BY <1>1, <1>2, DiffType, HalfFact
<1>4. IsFiniteSet(T) /\ T \subseteq Int /\ T # {}
  <2>1. IsFiniteSet((-Modulus)..0)
    BY FS_Interval, HalfFact
  <2>2. K # {}
    OBVIOUS
  <2> HIDE DEF K
  <2>3. T # {}
    BY <2>2
  <2> HIDE DEF T
  <2>4. IsFiniteSet(T)
    BY <1>3, <2>1, FS_Subset
  <2>5. T \subseteq Int
    BY <1>3
  <2> QED
    BY <2>3, <2>4, <2>5
<1>5. PICK m \in T : \A y \in T : y <= m
  BY <1>4, HasGreatest
<1>6. PICK k \in K : m = -ForwardDiff(base, k)
  OBVIOUS
<1>7. ASSUME NEW j \in K
      PROVE  ~AheadOf(k, j)
  <2>1. k \in SeqNums /\ j \in SeqNums /\ ForwardDiff(base, j) < Half
    BY <1>2
  <2>2. -ForwardDiff(base, j) <= -ForwardDiff(base, k)
    BY <1>5, <1>6
  <2>3. ForwardDiff(base, j) \in Nat /\ ForwardDiff(base, k) \in Nat
    BY <1>1, <2>1, DiffType
  <2>4. ForwardDiff(k, j) = ForwardDiff(base, j) - ForwardDiff(base, k)
    BY <1>1, <2>1, <2>2, <2>3, DiffSubtracts
  <2> QED
    BY <2>1, <2>3, <2>4, AheadWhen, HalfFact
<1>8. \E k2 \in st.keys : /\ Frees(st, k2, room)
                          /\ \A j \in st.keys : Frees(st, j, room) => ~AheadOf(k2, j)
  BY <1>7
<1> QED
  BY <1>8 DEF FirstThatFrees

\* Enlist adds the missing packets and leaves the others as they are.
LEMMA Enlisted ==
  ASSUME NEW st \in Shape, NEW missing \in SUBSET SeqNums
  PROVE  LET new == Enlist(st, missing)
         IN /\ new \in Shape
            /\ new.init = st.init /\ new.newest = st.newest /\ new.keys = st.keys
            /\ new.recovered = st.recovered /\ new.key_requested = st.key_requested
            /\ new.batch = missing
            /\ DOMAIN st.nack \subseteq DOMAIN new.nack
            /\ DOMAIN new.nack \subseteq DOMAIN st.nack \cup missing
            /\ \A s \in DOMAIN new.nack :
                 \/ s \in missing /\ new.nack[s].retries = 1
                 \/ s \in DOMAIN st.nack /\ new.nack[s] = st.nack[s]
<1> DEFINE new == Enlist(st, missing)
           kept == IF MaxNackRetries = 1 THEN {} ELSE missing
           list == [s \in DOMAIN st.nack \cup kept |->
                      IF s \in kept THEN [retries |-> 1, age |-> 0] ELSE st.nack[s]]
<1>1. new = [st EXCEPT !.nack = list, !.batch = missing]
  BY Zenon DEF Enlist
<1>2. list \in [DOMAIN st.nack \cup kept -> Entry]
  <2>1. st.nack \in [DOMAIN st.nack -> Entry]
    BY ShapeType, ListType
  <2>2. kept # {} => [retries |-> 1, age |-> 0] \in Entry
    BY Bounds, RttBound DEF Entry
  <2> QED
    BY <2>1, <2>2
<1>3. list \in NackLists /\ DOMAIN list = DOMAIN st.nack \cup kept
  <2>1. DOMAIN st.nack \cup kept \in SUBSET SeqNums
    BY ShapeType, ListType
  <2> QED
    BY <1>2, <2>1, ListMade
<1>4. \A s \in DOMAIN st.nack \cup kept : \/ s \in missing /\ list[s].retries = 1
                                          \/ s \in DOMAIN st.nack /\ list[s] = st.nack[s]
  OBVIOUS
<1> HIDE DEF list, new
<1>5. new \in Shape
  BY <1>1, <1>3, ShapeType DEF Shape
<1>6. /\ new.init = st.init /\ new.newest = st.newest /\ new.keys = st.keys
      /\ new.recovered = st.recovered /\ new.key_requested = st.key_requested
      /\ new.batch = missing /\ new.nack = list
  BY <1>1 DEF Shape
<1> QED
  BY <1>3, <1>4, <1>5, <1>6 DEF new

\* A new newest packet: what is too old leaves the list, the gap is asked for or a
\* key frame is, and what else leaves the list has a key frame after it.
LEMMA Added ==
  ASSUME NEW st \in Shape, NEW seq \in SeqNums, ForwardDiff(st.newest, seq) \in 1..Ahead,
         NacksInWindow(st.newest, DOMAIN st.nack), KeysInWindow(seq, st.keys)
  PROVE  LET new == AddPacketsToNack(st, seq)
         IN /\ new \in Shape /\ new.init = st.init /\ new.recovered = st.recovered
            /\ NacksInWindow(seq, DOMAIN new.nack) /\ KeysInWindow(seq, new.keys)
            /\ \/ new.batch = Between(st.newest, seq) \ st.recovered
               \/ new.batch = st.batch /\ new.key_requested /\ DOMAIN new.nack = {}
            /\ \A s \in DOMAIN new.nack :
                 \/ s \in new.batch /\ new.nack[s].retries = 1
                 \/ s \in DOMAIN st.nack /\ new.nack[s] = st.nack[s]
            /\ \A s \in DOMAIN st.nack \ DOMAIN new.nack :
                 \/ ForwardDiff(s, seq) > MaxPacketAge
                 \/ new.key_requested
                 \/ \E k \in new.keys : AheadOf(k, s)
<1> DEFINE d == ForwardDiff(st.newest, seq)
           Y == FromLowerBound(DOMAIN st.nack, Minus(seq, MaxPacketAge))
           young == [st EXCEPT !.nack = Restrict(@, Y)]
           gap == Between(st.newest, seq)
           missing == gap \ st.recovered
           room == MaxNackPackets - Cardinality(gap)
           new == AddPacketsToNack(st, seq)
<1>1. st.newest \in SeqNums /\ d \in Nat /\ d > 0 /\ d <= Ahead /\ d < Half
  <2>1. st.newest \in SeqNums
    BY ShapeType
  <2>2. d \in Nat
    BY <2>1, DiffType
  <2>3. d \in 1..Ahead
    OBVIOUS
  <2> HIDE DEF d
  <2> QED
    BY <2>1, <2>2, <2>3, Bounds, HalfFact
<1>2. \A s \in DOMAIN st.nack : /\ s \in SeqNums /\ ForwardDiff(s, seq) \in Nat
                                /\ 1 <= ForwardDiff(s, seq) /\ ForwardDiff(s, seq) < Half
  <2> SUFFICES ASSUME NEW s \in DOMAIN st.nack
               PROVE  /\ s \in SeqNums /\ ForwardDiff(s, seq) \in Nat
                      /\ 1 <= ForwardDiff(s, seq) /\ ForwardDiff(s, seq) < Half
    OBVIOUS
  <2>1. s \in SeqNums
    BY ShapeType, ListType
  <2>2. ForwardDiff(s, st.newest) \in 1..MaxPacketAge
    BY DEF NacksInWindow, Recent
  <2>3. ForwardDiff(s, seq) = ForwardDiff(s, st.newest) + d
    BY <1>1, <2>1, <2>2, DiffAdds, Bounds, HalfFact
  <2> HIDE DEF d
  <2> QED
    BY <1>1, <2>1, <2>2, <2>3, Bounds, HalfFact
<1>3. /\ Y \subseteq DOMAIN st.nack /\ \A s \in Y : Recent(seq, s)
      /\ \A s \in DOMAIN st.nack \ Y : ForwardDiff(s, seq) > MaxPacketAge
  <2>1. Y \subseteq DOMAIN st.nack
    BY DEF FromLowerBound
  <2>2. ASSUME NEW s \in DOMAIN st.nack, ForwardDiff(s, seq) > MaxPacketAge
        PROVE  s \notin Y
    BY <1>2, <2>2, OlderThan, Bounds, HalfFact DEF FromLowerBound
  <2>3. ASSUME NEW s \in DOMAIN st.nack \ Y
        PROVE  ForwardDiff(s, seq) > MaxPacketAge
    BY <1>2, OlderThan, Bounds, HalfFact DEF FromLowerBound
  <2> HIDE DEF Y
  <2>4. ASSUME NEW s \in Y
        PROVE  Recent(seq, s)
    BY <1>2, <2>1, <2>2, Bounds DEF Recent
  <2> QED
    BY <2>1, <2>3, <2>4
<1> HIDE DEF Y
<1>4. /\ young \in Shape /\ young.init = st.init /\ young.newest = st.newest
      /\ young.keys = st.keys /\ young.recovered = st.recovered /\ young.batch = st.batch
      /\ DOMAIN young.nack = Y /\ \A s \in Y : young.nack[s] = st.nack[s]
  <2>1. /\ Restrict(st.nack, Y) \in NackLists /\ DOMAIN Restrict(st.nack, Y) = Y
        /\ \A s \in Y : Restrict(st.nack, Y)[s] = st.nack[s]
    BY <1>3, ShapeType, ShortenedList
  <2>2. young \in Shape
    BY <2>1 DEF Shape
  <2>3. /\ young.init = st.init /\ young.newest = st.newest /\ young.keys = st.keys
        /\ young.recovered = st.recovered /\ young.batch = st.batch
        /\ young.nack = Restrict(st.nack, Y)
    BY DEF Shape
  <2> QED
    BY <2>1, <2>2, <2>3
<1> HIDE DEF young
<1>5. /\ gap \subseteq SeqNums /\ Cardinality(gap) \in Nat /\ d <= Cardinality(gap) + 1
      /\ \A s \in gap : ForwardDiff(s, seq) \in Nat /\ 1 <= ForwardDiff(s, seq)
                                                   /\ ForwardDiff(s, seq) < d
  <2>1. gap \subseteq SeqNums
    BY DEF Between
  <2>2. ASSUME NEW s \in gap
        PROVE  ForwardDiff(s, seq) \in Nat /\ 1 <= ForwardDiff(s, seq)
                                           /\ ForwardDiff(s, seq) < d
    BY <1>1, BetweenAt
  <2> QED
    BY <1>1, <2>1, <2>2, FiniteNums, BetweenCount
<1> HIDE DEF gap, d
<1>6. room \in Int
  BY <1>5, Bounds
<1>7. ASSUME NEW st1 \in Shape, st1.init = st.init, st1.newest = st.newest,
             st1.recovered = st.recovered, st1.keys \subseteq st.keys,
             DOMAIN st1.nack \subseteq Y, \A s \in DOMAIN st1.nack : st1.nack[s] = st.nack[s],
             Cardinality(DOMAIN st1.nack) <= room,
             new = Enlist(st1, missing)
      PROVE  /\ new \in Shape /\ new.init = st.init /\ new.recovered = st.recovered
             /\ NacksInWindow(seq, DOMAIN new.nack) /\ KeysInWindow(seq, new.keys)
             /\ new.batch = missing /\ new.keys = st1.keys
             /\ \A s \in DOMAIN new.nack :
                 \/ s \in new.batch /\ new.nack[s].retries = 1
                 \/ s \in DOMAIN st.nack /\ new.nack[s] = st.nack[s]
             /\ DOMAIN st1.nack \subseteq DOMAIN new.nack
  <2>1. missing \subseteq SeqNums /\ missing \subseteq gap
    BY <1>5
  <2> HIDE DEF missing, new
  <2>2. /\ new \in Shape
        /\ new.init = st1.init /\ new.keys = st1.keys
        /\ new.recovered = st1.recovered
        /\ new.batch = missing
        /\ DOMAIN st1.nack \subseteq DOMAIN new.nack
        /\ DOMAIN new.nack \subseteq DOMAIN st1.nack \cup missing
        /\ \A s \in DOMAIN new.nack :
             \/ s \in missing /\ new.nack[s].retries = 1
             \/ s \in DOMAIN st1.nack /\ new.nack[s] = st1.nack[s]
    BY <1>7, <2>1, Enlisted
  <2>3. Cardinality(DOMAIN new.nack) <= MaxNackPackets
    <3>1. IsFiniteSet(DOMAIN st1.nack) /\ IsFiniteSet(missing) /\ IsFiniteSet(gap)
      BY <1>5, <1>7, <2>1, ShapeType, ListType, FiniteNums
    <3>2. /\ IsFiniteSet(DOMAIN st1.nack \cup missing)
          /\ Cardinality(DOMAIN st1.nack \cup missing)
               = Cardinality(DOMAIN st1.nack) + Cardinality(missing)
                   - Cardinality(DOMAIN st1.nack \cap missing)
      BY <3>1, FS_Union
    <3>3. /\ Cardinality(DOMAIN st1.nack) \in Nat /\ Cardinality(missing) \in Nat
          /\ Cardinality(DOMAIN st1.nack \cap missing) \in Nat
          /\ Cardinality(missing) <= Cardinality(gap)
      <4>1. IsFiniteSet(DOMAIN st1.nack \cap missing)
        BY <3>1, FS_Intersection
      <4> QED
        BY <2>1, <3>1, <4>1, FS_CardinalityType, FS_Subset
    <3>4. Cardinality(DOMAIN new.nack) <= Cardinality(DOMAIN st1.nack \cup missing)
      BY <2>2, <3>2, FS_Subset
    <3>5. Cardinality(DOMAIN new.nack) \in Nat
      BY <2>2, ShapeType, ListType
    <3>6. Cardinality(DOMAIN st1.nack) + Cardinality(gap) <= MaxNackPackets
      BY <1>5, <1>7, <3>3, Bounds
    <3> QED
      BY <1>5, <3>2, <3>3, <3>4, <3>5, <3>6, Bounds
  <2>4. \A s \in gap : Recent(seq, s)
    <3>1. Cardinality(DOMAIN st1.nack) \in Nat
      BY <1>7, ShapeType, ListType
    <3>2. Cardinality(gap) <= MaxNackPackets
      BY <1>5, <1>7, <3>1, Bounds
    <3>3. d <= MaxPacketAge + 1
      BY <1>1, <1>5, <3>2, Bounds
    <3> QED
      BY <1>1, <1>5, <3>3, Bounds DEF Recent
  <2>5. NacksInWindow(seq, DOMAIN new.nack)
    <3>1. \A s \in DOMAIN new.nack : Recent(seq, s)
      BY <1>3, <1>7, <2>1, <2>2, <2>4
    <3> QED
      BY <2>3, <3>1 DEF NacksInWindow
  <2>6. KeysInWindow(seq, new.keys)
    BY <1>7, <2>2 DEF KeysInWindow
  <2>7. \A s \in DOMAIN st1.nack : s \in DOMAIN st.nack
    BY <1>3, <1>7
  <2> QED
    BY <1>7, <2>2, <2>5, <2>6, <2>7
<1>8. CASE Cardinality(Y) <= room
  <2>1. new = Enlist(young, missing)
    <3>1. Cardinality(Y) \in Int
      BY <1>3, ShapeType, ListType, FiniteNums
    <3>2. Cardinality(DOMAIN young.nack) <= room /\ ~(Cardinality(DOMAIN young.nack) > room)
      BY <1>4, <1>6, <1>8, <3>1
    <3> QED
      BY <3>2 DEF AddPacketsToNack, young, Y, gap
  <2> HIDE DEF new, missing, room
  <2>2. /\ new \in Shape /\ new.init = st.init /\ new.recovered = st.recovered
        /\ NacksInWindow(seq, DOMAIN new.nack) /\ KeysInWindow(seq, new.keys)
        /\ new.batch = missing
        /\ \A s \in DOMAIN new.nack :
            \/ s \in new.batch /\ new.nack[s].retries = 1
            \/ s \in DOMAIN st.nack /\ new.nack[s] = st.nack[s]
        /\ DOMAIN young.nack \subseteq DOMAIN new.nack
    BY <1>4, <1>7, <1>8, <2>1
  <2> QED
    BY <1>3, <1>4, <2>2 DEF new, missing, gap
<1>9. CASE Cardinality(Y) > room /\ \E k \in st.keys : Frees(young, k, room)
  <2> DEFINE k == FirstThatFrees(young, room)
             Z == FromLowerBound(Y, k)
             rest == RemovePacketsUntilKeyFrame(young, room)
  <2>1. k \in st.keys /\ Frees(young, k, room)
    BY <1>4, <1>6, <1>9, FirstFrees
  <2>2. new = Enlist(rest, missing)
    <3>1. ~(Cardinality(DOMAIN young.nack) <= room)
      <4>1. Cardinality(Y) \in Int
        BY <1>3, ShapeType, ListType, FiniteNums
      <4> QED
        BY <1>4, <1>6, <1>9, <4>1
    <3>2. \E k0 \in st.keys : Frees(young, k0, room)
      BY <1>9
    <3>3. Cardinality(DOMAIN young.nack) > room
      BY <1>4, <1>9
    <3> QED
      BY <3>1, <3>2, <3>3 DEF AddPacketsToNack, young, Y, gap
  <2> HIDE DEF new, missing, room
  <2>3. rest = [young EXCEPT !.nack = Restrict(@, Z), !.keys = FromLowerBound(@, k)]
    BY <1>4 DEF RemovePacketsUntilKeyFrame
  <2>4. Z \subseteq Y /\ Cardinality(Z) <= room
    BY <1>4, <2>1 DEF Frees, FromLowerBound
  <2>5. k \in FromLowerBound(st.keys, k) /\ FromLowerBound(st.keys, k) \subseteq st.keys
    BY <2>1 DEF FromLowerBound, AheadOf
  <2>6. \A s \in Y \ Z : AheadOf(k, s)
    BY DEF FromLowerBound
  <2> HIDE DEF k, Z
  <2>7. /\ Restrict(young.nack, Z) \in NackLists /\ DOMAIN Restrict(young.nack, Z) = Z
        /\ \A s \in Z : Restrict(young.nack, Z)[s] = young.nack[s]
    BY <1>4, <2>4, ShapeType, ShortenedList
  <2>8. /\ rest \in Shape /\ rest.init = young.init /\ rest.newest = young.newest
        /\ rest.recovered = young.recovered /\ rest.keys = FromLowerBound(young.keys, k)
        /\ rest.nack = Restrict(young.nack, Z)
    <3>1. FromLowerBound(young.keys, k) \subseteq SeqNums
      BY <1>4, <2>5, ShapeType
    <3> HIDE DEF rest
    <3>2. rest \in Shape
      BY <1>4, <2>3, <2>7, <3>1 DEF Shape
    <3> QED
      BY <1>4, <2>3, <3>2 DEF Shape
  <2> HIDE DEF rest
  <2>9. /\ new \in Shape /\ new.init = st.init /\ new.recovered = st.recovered
        /\ NacksInWindow(seq, DOMAIN new.nack) /\ KeysInWindow(seq, new.keys)
        /\ new.batch = missing /\ new.keys = rest.keys
        /\ \A s \in DOMAIN new.nack :
            \/ s \in new.batch /\ new.nack[s].retries = 1
            \/ s \in DOMAIN st.nack /\ new.nack[s] = st.nack[s]
        /\ DOMAIN rest.nack \subseteq DOMAIN new.nack
    BY <1>3, <1>4, <1>7, <2>2, <2>4, <2>5, <2>7, <2>8
  <2>10. ASSUME NEW s \in DOMAIN st.nack \ DOMAIN new.nack
         PROVE  ForwardDiff(s, seq) > MaxPacketAge \/ \E j \in new.keys : AheadOf(j, s)
    BY <1>3, <1>4, <2>5, <2>6, <2>7, <2>8, <2>9
  <2> QED
    BY <2>9, <2>10 DEF new, missing, gap
<1>10. CASE ~(Cardinality(Y) <= room) /\ ~\E k \in st.keys : Frees(young, k, room)
  <2>1. new = GiveUp(young)
    <3>1. ~(Cardinality(DOMAIN young.nack) <= room)
      BY <1>4, <1>10
    <3>2. ~\E k0 \in st.keys : Frees(young, k0, room)
      BY <1>10
    <3> QED
      BY <3>1, <3>2 DEF AddPacketsToNack, young, Y, gap
  <2> HIDE DEF new
  <2>2. new \in Shape
    BY <1>4, <2>1, EmptyList DEF Shape, GiveUp
  <2>3. /\ new.init = young.init /\ new.recovered = young.recovered /\ new.batch = young.batch
        /\ new.nack = <<>> /\ new.keys = {} /\ new.key_requested
    BY <1>4, <2>1 DEF Shape, GiveUp
  <2>4. NacksInWindow(seq, DOMAIN new.nack) /\ KeysInWindow(seq, new.keys)
    BY <2>3, EmptyList, Bounds DEF NacksInWindow, KeysInWindow
  <2> QED
    BY <1>4, <2>2, <2>3, <2>4, EmptyList DEF new
<1> HIDE DEF room
<1>11. \/ Cardinality(Y) <= room
       \/ Cardinality(Y) > room /\ \E k \in st.keys : Frees(young, k, room)
       \/ ~(Cardinality(Y) <= room) /\ ~\E k \in st.keys : Frees(young, k, room)
  <2>1. Cardinality(Y) \in Int
    BY <1>3, ShapeType, ListType, FiniteNums
  <2>2. Cardinality(Y) <= room \/ Cardinality(Y) > room
    BY <1>6, <2>1
  <2>3. Cardinality(Y) > room => ~(Cardinality(Y) <= room)
    BY <1>6, <2>1
  <2> QED
    BY <2>2, <2>3, Zenon
<1> QED
  BY <1>8, <1>9, <1>10, <1>11

-----------------------------------------------------------------------------
(* OnReceivedPacket.                                                       *)

\* A packet comes at most half a turn behind the newest one, or a little ahead.
Near(st, seq) ==
  st.init => \/ ForwardDiff(st.newest, seq) <= Ahead
             \/ ForwardDiff(seq, st.newest) <= MaxPacketAge + Ahead

\* What becomes of the lists: the packet itself is not listed, and what is newly
\* listed was just asked for and lies between the old newest packet and the new one.
Listing(st, new, seq) ==
  /\ new.newest \in {st.newest, seq}
  /\ st.init => /\ ForwardDiff(st.newest, new.newest) <= Ahead
                /\ new.batch \subseteq Between(st.newest, new.newest)
  /\ ~st.init => new.newest = seq /\ new.batch = {} /\ DOMAIN new.nack = {}
  /\ seq \notin DOMAIN new.nack
  /\ \A s \in DOMAIN new.nack : \/ s \in new.batch /\ new.nack[s].retries = 1
                                \/ s \in DOMAIN st.nack /\ new.nack[s] = st.nack[s]

\* Without recovered packets each packet of a gap is asked for.
Asking(st, new, seq) ==
  /\ new.recovered = {}
  /\ new.newest = seq \/ ForwardDiff(seq, new.newest) <= MaxPacketAge + Ahead
  /\ st.init /\ new.newest # st.newest =>
       Between(st.newest, new.newest) = new.batch \/ new.key_requested

\* What leaves the list has come, is too old or has a key frame after it.
Leaving(st, new, seq) ==
  \A s \in DOMAIN st.nack \ DOMAIN new.nack :
    \/ s = seq
    \/ ForwardDiff(s, new.newest) > MaxPacketAge
    \/ new.key_requested
    \/ \E k \in new.keys : AheadOf(k, s)

\* A packet that is not ahead of the newest one.
LEMMA OutOfOrderListed ==
  ASSUME NEW st \in Shape, InWindow(st), st.init, st.batch = {}, NEW seq \in SeqNums,
         AheadOf(st.newest, seq), Near(st, seq)
  PROVE  LET new == OutOfOrder(st, seq)
         IN /\ new \in Shape /\ InWindow(new) /\ new.init /\ Listing(st, new, seq)
            /\ st.recovered = {} => Asking(st, new, seq)
            /\ Leaving(st, new, seq)
<1> DEFINE new == OutOfOrder(st, seq)
           D == DOMAIN st.nack \ {seq}
<1>1. /\ Restrict(st.nack, D) \in NackLists /\ DOMAIN Restrict(st.nack, D) = D
      /\ \A s \in D : Restrict(st.nack, D)[s] = st.nack[s]
  BY ShapeType, ShortenedList
<1>2. new = [st EXCEPT !.nack = Restrict(st.nack, D)]
  BY DEF OutOfOrder, Shape
<1> HIDE DEF new
<1>3. new \in Shape
  BY <1>1, <1>2 DEF Shape
<1>4. /\ new.init = st.init /\ new.newest = st.newest /\ new.keys = st.keys
      /\ new.recovered = st.recovered /\ new.batch = {} /\ new.nack = Restrict(st.nack, D)
  BY <1>2 DEF Shape
<1>5. InWindow(new)
  <2>1. Cardinality(D) <= Cardinality(DOMAIN st.nack) /\ Cardinality(D) \in Nat
        /\ Cardinality(DOMAIN st.nack) \in Nat
    <3>1. IsFiniteSet(DOMAIN st.nack) /\ Cardinality(DOMAIN st.nack) \in Nat
      BY ShapeType, ListType
    <3> QED
      BY <3>1, FS_Subset, FS_CardinalityType
  <2>2. Cardinality(D) <= MaxNackPackets
    BY <2>1, Bounds DEF InWindow, NacksInWindow
  <2> QED
    BY <1>1, <1>4, <2>2 DEF InWindow, NacksInWindow
<1>6. st.newest \in SeqNums /\ ForwardDiff(st.newest, st.newest) = 0
  BY ShapeType, DiffType
<1>7. ForwardDiff(seq, st.newest) <= MaxPacketAge + Ahead
  <2>1. ~(ForwardDiff(st.newest, seq) <= Ahead)
    <3>1. ForwardDiff(st.newest, seq) \in Nat
      BY <1>6, DiffType
    <3>2. ~(ForwardDiff(st.newest, seq) < Half)
      BY <1>6, AheadWhen
    <3> QED
      BY <3>1, <3>2, Bounds, HalfFact
  <2> QED
    BY <2>1 DEF Near
<1>8. Listing(st, new, seq)
  <2>1. ForwardDiff(st.newest, new.newest) <= Ahead
    BY <1>4, <1>6, Bounds
  <2>2. seq \notin DOMAIN new.nack /\ \A s \in DOMAIN new.nack : s \in DOMAIN st.nack
                                                            /\ new.nack[s] = st.nack[s]
    BY <1>1, <1>4
  <2> QED
    BY <1>4, <2>1, <2>2 DEF Listing
<1>9. st.recovered = {} => Asking(st, new, seq)
  BY <1>4, <1>7 DEF Asking
<1>10. Leaving(st, new, seq)
  BY <1>1, <1>4 DEF Leaving
<1> QED
  BY <1>3, <1>4, <1>5, <1>8, <1>9, <1>10 DEF new

\* A packet ahead of the newest one.
LEMMA InOrderListed ==
  ASSUME NEW st \in Shape, InWindow(st), st.init, st.batch = {}, NEW seq \in SeqNums,
         ForwardDiff(st.newest, seq) \in 1..Ahead,
         NEW is_keyframe \in BOOLEAN, NEW is_recovered \in BOOLEAN
  PROVE  LET new == InOrder(st, seq, is_keyframe, is_recovered)
         IN /\ new \in Shape /\ InWindow(new) /\ new.init /\ Listing(st, new, seq)
            /\ st.recovered = {} /\ ~is_recovered => Asking(st, new, seq)
            /\ Leaving(st, new, seq)
<1> DEFINE low == Minus(seq, MaxPacketAge)
           keys == FromLowerBound(st.keys \cup (IF is_keyframe THEN {seq} ELSE {}), low)
           keyed == [st EXCEPT !.keys = keys]
           new == InOrder(st, seq, is_keyframe, is_recovered)
<1>1. st.newest \in SeqNums /\ ForwardDiff(st.newest, seq) \in Nat
      /\ ForwardDiff(seq, seq) = 0 /\ st.newest # seq
  <2>1. st.newest \in SeqNums
    BY ShapeType
  <2> QED
    BY <2>1, DiffType
<1>2. keys \subseteq st.keys \cup {seq} /\ keys \subseteq SeqNums
  BY ShapeType DEF FromLowerBound
<1>3. \A k \in keys : ForwardDiff(k, seq) <= MaxPacketAge \/ ForwardDiff(seq, k) <= Ahead
  <2> SUFFICES ASSUME NEW k \in keys, k # seq
               PROVE  ForwardDiff(k, seq) <= MaxPacketAge \/ ForwardDiff(seq, k) <= Ahead
    BY <1>1, Bounds
  <2>1. k \in st.keys /\ k \in SeqNums /\ ~AheadOf(low, k)
    BY <1>2 DEF FromLowerBound
  <2>2. ForwardDiff(k, seq) \in Nat
    BY <2>1, DiffType
  <2>3. ~(ForwardDiff(k, seq) > MaxPacketAge /\ ForwardDiff(k, seq) < Half)
    BY <2>1, OlderThan, Bounds, HalfFact
  <2>4. CASE ForwardDiff(k, st.newest) <= MaxPacketAge
    <3>1. ForwardDiff(k, st.newest) \in Nat
      BY <1>1, <2>1, DiffType
    <3>2. ForwardDiff(k, st.newest) + ForwardDiff(st.newest, seq) < Half
      BY <1>1, <2>4, <3>1, Bounds, HalfFact
    <3>3. ForwardDiff(k, seq) < Half
      BY <1>1, <2>1, <3>1, <3>2, DiffAdds, HalfFact
    <3> QED
      BY <2>2, <2>3, <3>3, Bounds
  <2>5. CASE ForwardDiff(st.newest, k) <= Ahead
    <3>1. ForwardDiff(st.newest, k) \in Nat
      BY <1>1, <2>1, DiffType
    <3>2. CASE ForwardDiff(st.newest, k) <= ForwardDiff(st.newest, seq)
      <4>1. ForwardDiff(k, seq) = ForwardDiff(st.newest, seq) - ForwardDiff(st.newest, k)
        BY <1>1, <2>1, <3>2, DiffSubtracts
      <4>2. ForwardDiff(k, seq) < Half
        BY <1>1, <3>1, <4>1, Bounds, HalfFact
      <4> QED
        BY <2>2, <2>3, <4>2, Bounds
    <3>3. CASE ForwardDiff(st.newest, seq) <= ForwardDiff(st.newest, k)
      <4>1. ForwardDiff(seq, k) = ForwardDiff(st.newest, k) - ForwardDiff(st.newest, seq)
        BY <1>1, <2>1, <3>3, DiffSubtracts
      <4> QED
        BY <1>1, <2>5, <3>1, <4>1, Bounds
    <3> QED
      BY <1>1, <3>1, <3>2, <3>3
  <2> QED
    BY <2>1, <2>4, <2>5 DEF InWindow, KeysInWindow
<1>4. KeysInWindow(seq, keys)
  BY <1>3 DEF KeysInWindow
<1>5. \A k \in keys : ForwardDiff(k, st.newest) <= MaxPacketAge
                        \/ ForwardDiff(st.newest, k) <= Ahead
  BY <1>2 DEF InWindow, KeysInWindow
<1>6. ~AheadOf(low, seq)
  <2>1. ~(0 > MaxPacketAge)
    BY Bounds
  <2> QED
    BY <1>1, <2>1, OlderThan, Bounds, HalfFact
<1> HIDE DEF keys, low
<1>7. keyed \in Shape
  BY <1>2 DEF Shape
<1>8. /\ keyed.init = st.init /\ keyed.newest = st.newest /\ keyed.nack = st.nack
      /\ keyed.recovered = st.recovered /\ keyed.batch = st.batch /\ keyed.keys = keys
  BY DEF Shape
<1> HIDE DEF keyed
<1>9. CASE is_recovered
  <2> DEFINE rec == FromLowerBound(keyed.recovered \cup {seq}, low)
  <2>1. new = [keyed EXCEPT !.recovered = rec]
    BY <1>9 DEF InOrder, keyed, keys, low
  <2>2. rec \subseteq SeqNums
    BY <1>7, ShapeType DEF FromLowerBound
  <2> HIDE DEF rec, new
  <2>3. new \in Shape
    BY <1>7, <2>1, <2>2 DEF Shape
  <2>4. /\ new.init = st.init /\ new.newest = st.newest /\ new.nack = st.nack
        /\ new.batch = {} /\ new.keys = keys
    BY <1>7, <1>8, <2>1 DEF Shape
  <2>5. InWindow(new)
    BY <1>5, <2>4 DEF InWindow, KeysInWindow
  <2>6. seq \notin DOMAIN st.nack
    <3>1. ASSUME seq \in DOMAIN st.nack
          PROVE  FALSE
      <4>1. ForwardDiff(seq, st.newest) \in 1..MaxPacketAge
        BY <3>1 DEF InWindow, NacksInWindow, Recent
      <4>2. ForwardDiff(seq, st.newest) = Modulus - ForwardDiff(st.newest, seq)
        BY <1>1, DiffType
      <4> QED
        BY <1>1, <4>1, <4>2, Bounds, HalfFact
    <3> QED
      BY <3>1
  <2>7. ForwardDiff(st.newest, st.newest) <= Ahead
    <3>1. ForwardDiff(st.newest, st.newest) = 0
      BY <1>1, DiffType
    <3> QED
      BY <3>1, Bounds
  <2>8. Listing(st, new, seq) /\ Leaving(st, new, seq)
    BY <2>4, <2>6, <2>7 DEF Listing, Leaving
  <2> QED
    BY <1>9, <2>3, <2>4, <2>5, <2>8 DEF new
<1>10. CASE ~is_recovered
  <2> DEFINE add == AddPacketsToNack(keyed, seq)
  <2>1. new = [add EXCEPT !.newest = seq]
    BY <1>10 DEF InOrder, keyed, keys, low
  <2>2. /\ add \in Shape /\ add.init = st.init /\ add.recovered = st.recovered
        /\ NacksInWindow(seq, DOMAIN add.nack) /\ KeysInWindow(seq, add.keys)
        /\ \/ add.batch = Between(st.newest, seq) \ st.recovered
           \/ add.batch = {} /\ add.key_requested /\ DOMAIN add.nack = {}
        /\ \A s \in DOMAIN add.nack :
             \/ s \in add.batch /\ add.nack[s].retries = 1
             \/ s \in DOMAIN st.nack /\ add.nack[s] = st.nack[s]
        /\ \A s \in DOMAIN st.nack \ DOMAIN add.nack :
             \/ ForwardDiff(s, seq) > MaxPacketAge
             \/ add.key_requested
             \/ \E k \in add.keys : AheadOf(k, s)
    <3>1. NacksInWindow(keyed.newest, DOMAIN keyed.nack) /\ KeysInWindow(seq, keyed.keys)
          /\ ForwardDiff(keyed.newest, seq) \in 1..Ahead
      BY <1>4, <1>8 DEF InWindow
    <3> HIDE DEF add
    <3>2. LET new0 == AddPacketsToNack(keyed, seq)
         IN /\ new0 \in Shape /\ new0.init = keyed.init /\ new0.recovered = keyed.recovered
            /\ NacksInWindow(seq, DOMAIN new0.nack) /\ KeysInWindow(seq, new0.keys)
            /\ \/ new0.batch = Between(keyed.newest, seq) \ keyed.recovered
               \/ new0.batch = keyed.batch /\ new0.key_requested /\ DOMAIN new0.nack = {}
            /\ \A s \in DOMAIN new0.nack :
                 \/ s \in new0.batch /\ new0.nack[s].retries = 1
                 \/ s \in DOMAIN keyed.nack /\ new0.nack[s] = keyed.nack[s]
            /\ \A s \in DOMAIN keyed.nack \ DOMAIN new0.nack :
                 \/ ForwardDiff(s, seq) > MaxPacketAge
                 \/ new0.key_requested
                 \/ \E k \in new0.keys : AheadOf(k, s)
      BY <1>7, <3>1, Added
    <3> QED
      BY <1>8, <3>2 DEF add
  <2> HIDE DEF new, add
  <2>3. new \in Shape
    BY <2>1, <2>2 DEF Shape
  <2>4. /\ new.init = add.init /\ new.newest = seq /\ new.nack = add.nack
        /\ new.batch = add.batch /\ new.keys = add.keys
        /\ new.recovered = add.recovered /\ new.key_requested = add.key_requested
    BY <2>1, <2>2 DEF Shape
  <2>5. InWindow(new)
    BY <2>2, <2>4 DEF InWindow
  <2>6. seq \notin DOMAIN new.nack
    <3>1. \A s \in DOMAIN new.nack : ForwardDiff(s, seq) \in 1..MaxPacketAge
      BY <2>2, <2>4 DEF NacksInWindow, Recent
    <3>2. ~(0 \in 1..MaxPacketAge)
      OBVIOUS
    <3> QED
      BY <1>1, <3>1, <3>2
  <2>7. ForwardDiff(st.newest, new.newest) <= Ahead
    BY <1>1, <2>4, Bounds
  <2>8. new.batch \subseteq Between(st.newest, new.newest)
    BY <2>2, <2>4
  <2>9. Listing(st, new, seq)
    BY <2>2, <2>4, <2>6, <2>7, <2>8 DEF Listing
  <2>10. Leaving(st, new, seq)
    BY <2>2, <2>4 DEF Leaving
  <2>11. st.recovered = {} => Asking(st, new, seq)
    BY <2>2, <2>4 DEF Asking
  <2> QED
    BY <2>2, <2>3, <2>4, <2>5, <2>9, <2>10, <2>11 DEF new
<1> QED
  BY <1>9, <1>10

LEMMA Receives ==
  ASSUME NEW st \in Shape, InWindow(st), st.batch = {}, NEW seq \in SeqNums, Near(st, seq),
         NEW is_keyframe \in BOOLEAN, NEW is_recovered \in BOOLEAN, is_recovered => st.init
  PROVE  LET new == Received(st, seq, is_keyframe, is_recovered)
         IN /\ new \in Shape /\ InWindow(new) /\ new.init /\ Listing(st, new, seq)
            /\ st.recovered = {} /\ (is_recovered => ~AheadOf(seq, st.newest))
                 => Asking(st, new, seq)
            /\ Leaving(st, new, seq)
<1> DEFINE new == Received(st, seq, is_keyframe, is_recovered)
<1>1. st.newest \in SeqNums /\ st.init \in BOOLEAN /\ ForwardDiff(seq, seq) = 0
  BY ShapeType, DiffType
<1>2. CASE ~st.init
  <2> DEFINE keys == IF is_keyframe THEN {seq} ELSE {}
  <2>1. new = [st EXCEPT !.init = TRUE, !.newest = seq, !.keys = keys]
    BY <1>2 DEF Received
  <2>2. keys \subseteq {seq}
    OBVIOUS
  <2> HIDE DEF new, keys
  <2>3. new \in Shape
    BY <2>1, <2>2 DEF Shape
  <2>4. /\ new.init /\ new.newest = seq /\ new.keys = keys /\ new.nack = st.nack
        /\ new.recovered = st.recovered /\ new.batch = {}
    BY <2>1 DEF Shape
  <2>5. DOMAIN new.nack = {} /\ new.recovered = {}
    BY <1>2, <2>4 DEF InWindow
  <2>6. KeysInWindow(seq, keys)
    BY <1>1, <2>2, Bounds DEF KeysInWindow
  <2>7. NacksInWindow(seq, {})
    BY EmptyList, Bounds DEF NacksInWindow
  <2>8. InWindow(new)
    BY <2>4, <2>5, <2>6, <2>7 DEF InWindow
  <2>9. Listing(st, new, seq) /\ Asking(st, new, seq) /\ Leaving(st, new, seq)
    BY <1>2, <2>4, <2>5 DEF Listing, Asking, Leaving, InWindow
  <2> QED
    BY <2>3, <2>4, <2>8, <2>9 DEF new
<1>3. CASE st.init /\ seq = st.newest
  <2>1. ~AheadOf(seq, st.newest) /\ ~AheadOf(st.newest, seq)
    BY <1>3 DEF AheadOf
  <2>2. new = st
    BY <1>3, <2>1 DEF Received
  <2>3. seq \notin DOMAIN st.nack
    <3>1. \A s \in DOMAIN st.nack : ForwardDiff(s, seq) \in 1..MaxPacketAge
      BY <1>3 DEF InWindow, NacksInWindow, Recent
    <3>2. ~(0 \in 1..MaxPacketAge)
      OBVIOUS
    <3> QED
      BY <1>1, <3>1, <3>2
  <2>4. ForwardDiff(seq, seq) <= Ahead
    BY <1>1, Bounds
  <2>5. Listing(st, st, seq) /\ Leaving(st, st, seq)
    BY <1>3, <2>3, <2>4 DEF Listing, Leaving
  <2>6. st.recovered = {} => Asking(st, st, seq)
    BY <1>3 DEF Asking
  <2> QED
    BY <1>3, <2>2, <2>5, <2>6
<1>4. CASE st.init /\ AheadOf(st.newest, seq)
  <2>1. ~AheadOf(seq, st.newest) /\ seq # st.newest
    BY <1>1, <1>4, AheadWhen
  <2>2. new = OutOfOrder(st, seq)
    BY <1>4, <2>1 DEF Received
  <2> QED
    BY <1>4, <2>2, OutOfOrderListed
<1>5. CASE st.init /\ AheadOf(seq, st.newest)
  <2>1. ~AheadOf(st.newest, seq) /\ seq # st.newest
    BY <1>1, <1>5, AheadWhen
  <2>2. new = InOrder(st, seq, is_keyframe, is_recovered)
    BY <1>5, <2>1 DEF Received
  <2>3. ForwardDiff(st.newest, seq) \in 1..Ahead
    <3>1. ForwardDiff(st.newest, seq) \in Nat /\ ForwardDiff(st.newest, seq) # 0
          /\ ForwardDiff(seq, st.newest) \in Nat
      BY <1>1, <2>1, DiffType
    <3>2. ~(ForwardDiff(seq, st.newest) < Half)
      BY <1>1, <1>5, AheadWhen
    <3>3. ~(ForwardDiff(seq, st.newest) <= MaxPacketAge + Ahead)
      BY <3>1, <3>2, Bounds, HalfFact
    <3>4. ForwardDiff(st.newest, seq) <= Ahead
      BY <1>5, <3>3 DEF Near
    <3> QED
      BY <3>1, <3>4, Bounds
  <2> HIDE DEF new
  <2>4. /\ new \in Shape /\ InWindow(new) /\ new.init /\ Listing(st, new, seq)
        /\ st.recovered = {} /\ ~is_recovered => Asking(st, new, seq)
        /\ Leaving(st, new, seq)
    BY <1>5, <2>2, <2>3, InOrderListed
  <2> QED
    BY <1>5, <2>4 DEF new
<1> HIDE DEF new
<1>6. st.newest = seq \/ AheadOf(st.newest, seq) \/ AheadOf(seq, st.newest)
  BY <1>1, AheadWhen
<1> QED
  BY <1>1, <1>2, <1>3, <1>4, <1>5, <1>6 DEF new

-----------------------------------------------------------------------------
(* What a packet makes of the variables, the made-up first one included.   *)

Outcome(new, seq) ==
  /\ new \in Shape /\ InWindow(new) /\ new.init /\ seq \notin DOMAIN new.nack
  /\ initialized_ => /\ ForwardDiff(newest_seq_num_, new.newest) <= Ahead
                     /\ new.batch \subseteq Between(newest_seq_num_, new.newest)
  /\ \A s \in new.batch : ForwardDiff(s, new.newest) \in 1..Ahead
  /\ \A s \in DOMAIN new.nack : \/ s \in new.batch /\ new.nack[s].retries = 1
                                \/ s \in Listed /\ new.nack[s] = nack_list_[s]

\* Without recovered packets none is ahead of the newest, and none is asked for when
\* it comes.
Passed(new, seq) ==
  /\ new.recovered = {} /\ seq \notin new.batch
  /\ new.newest = seq \/ ForwardDiff(seq, new.newest) <= MaxPacketAge + Ahead

LEMMA StateIs ==
  ASSUME IInv
  PROVE  /\ State \in Shape /\ InWindow(State)
         /\ State.init = initialized_ /\ State.newest = newest_seq_num_
         /\ State.nack = nack_list_ /\ State.keys = keyframe_list_
         /\ State.recovered = recovered_list_ /\ State.batch = {} /\ State.key_requested = FALSE
         /\ newest_seq_num_ \in SeqNums /\ initialized_ \in BOOLEAN
<1>1. State \in Shape /\ InWindow(State)
  BY DEF IInv, Typed
<1>2. /\ State.init = initialized_ /\ State.newest = newest_seq_num_
      /\ State.nack = nack_list_ /\ State.keys = keyframe_list_
      /\ State.recovered = recovered_list_ /\ State.batch = {} /\ State.key_requested = FALSE
  BY DEF State
<1> QED
  BY <1>1, <1>2, ShapeType

LEMMA BetweenRange ==
  ASSUME NEW a \in SeqNums, NEW b \in SeqNums, ForwardDiff(a, b) <= Ahead,
         NEW s \in Between(a, b)
  PROVE  s \in SeqNums /\ ForwardDiff(s, b) \in 1..Ahead
<1>1. /\ s \in SeqNums /\ ForwardDiff(a, s) \in 1..(ForwardDiff(a, b) - 1)
      /\ ForwardDiff(s, b) = ForwardDiff(a, b) - ForwardDiff(a, s)
  BY BetweenAt
<1>2. ForwardDiff(a, b) \in Nat
  BY DiffType
<1> QED
  BY <1>1, <1>2, Bounds

LEMMA NearState ==
  ASSUME IInv, NEW seq \in SeqNums, Arrives(seq)
  PROVE  Near(State, seq)
<1>1. initialized_ => ForwardDiff(seq, newest_seq_num_) <= MaxPacketAge
                        \/ ForwardDiff(newest_seq_num_, seq) <= MaxJump
  BY DEF Arrives, InReach
<1>2. newest_seq_num_ \in SeqNums
  BY StateIs
<1>3. ForwardDiff(seq, newest_seq_num_) \in Nat /\ ForwardDiff(newest_seq_num_, seq) \in Nat
  BY <1>2, DiffType
<1>4. /\ ForwardDiff(seq, newest_seq_num_) <= MaxPacketAge
           => ForwardDiff(seq, newest_seq_num_) <= MaxPacketAge + Ahead
      /\ ForwardDiff(newest_seq_num_, seq) <= MaxJump
           => ForwardDiff(newest_seq_num_, seq) <= Ahead
  BY <1>3, Bounds
<1> QED
  BY <1>1, <1>4, StateIs DEF Near

\* One call of OnReceivedPacket.
LEMMA OneOutcome ==
  ASSUME IInv, NEW seq \in SeqNums, Arrives(seq),
         NEW is_keyframe \in BOOLEAN, NEW is_recovered \in BOOLEAN,
         is_recovered => Recoverable(seq)
  PROVE  LET new == Received(State, seq, is_keyframe, is_recovered)
         IN /\ Outcome(new, seq)
            /\ recovered_list_ = {} /\ ~Fec =>
                 /\ Passed(new, seq)
                 /\ initialized_ => Asking(State, new, seq)
            /\ Listing(State, new, seq) /\ Leaving(State, new, seq)
<1> DEFINE new == Received(State, seq, is_keyframe, is_recovered)
<1>1. Near(State, seq)
  BY NearState
<1>2. is_recovered => State.init
  BY StateIs DEF Recoverable
<1>3. /\ new \in Shape /\ InWindow(new) /\ new.init /\ Listing(State, new, seq)
      /\ State.recovered = {} /\ (is_recovered => ~AheadOf(seq, State.newest))
           => Asking(State, new, seq)
      /\ Leaving(State, new, seq)
  <2> HIDE DEF new
  <2>1. LET new0 == Received(State, seq, is_keyframe, is_recovered)
         IN /\ new0 \in Shape /\ InWindow(new0) /\ new0.init /\ Listing(State, new0, seq)
            /\ State.recovered = {} /\ (is_recovered => ~AheadOf(seq, State.newest))
                 => Asking(State, new0, seq)
            /\ Leaving(State, new0, seq)
    BY <1>1, <1>2, StateIs, Receives
  <2> QED
    BY <2>1 DEF new
<1> HIDE DEF new
<1>4. \A s \in new.batch : ForwardDiff(s, new.newest) \in 1..Ahead
  <2>1. new.newest \in SeqNums
    BY <1>3, ShapeType
  <2> QED
    BY <1>3, <2>1, StateIs, BetweenRange DEF Listing
<1>5. Outcome(new, seq)
  <2>1. initialized_ => /\ ForwardDiff(newest_seq_num_, new.newest) <= Ahead
                        /\ new.batch \subseteq Between(newest_seq_num_, new.newest)
    BY <1>3, StateIs, Zenon DEF Listing
  <2>2. \A s \in DOMAIN new.nack : \/ s \in new.batch /\ new.nack[s].retries = 1
                                   \/ s \in Listed /\ new.nack[s] = nack_list_[s]
    BY <1>3, StateIs DEF Listing, Listed
  <2>3. seq \notin DOMAIN new.nack
    BY <1>3 DEF Listing
  <2> QED
    BY <1>3, <1>4, <2>1, <2>2, <2>3 DEF Outcome
<1>6. ASSUME recovered_list_ = {}, ~Fec
      PROVE  Passed(new, seq) /\ Asking(State, new, seq)
  <2>1. is_recovered => ~AheadOf(seq, newest_seq_num_)
    <3> SUFFICES ASSUME is_recovered
                 PROVE  ~AheadOf(seq, newest_seq_num_)
      OBVIOUS
    <3>1. asked[seq] > 0
      BY <1>6 DEF Recoverable
    <3>2. ForwardDiff(seq, newest_seq_num_) \in 1..MaxPacketAge
      BY <3>1 DEF IInv, Counted, Recent
    <3>3. ForwardDiff(seq, newest_seq_num_) < Half
      BY <3>2, Bounds, HalfFact
    <3> QED
      BY <3>3, StateIs, AheadWhen
  <2>2. Asking(State, new, seq)
    BY <1>3, <1>6, <2>1, StateIs
  <2>3. ASSUME seq \in new.batch
        PROVE  FALSE
    <3>1. ForwardDiff(seq, new.newest) \in 1..Ahead
      BY <1>4, <2>3
    <3>2. ForwardDiff(seq, seq) = 0
      BY DiffType
    <3>3. new.newest = newest_seq_num_ /\ initialized_
      BY <1>3, <2>3, <3>1, <3>2, StateIs DEF Listing
    <3>4. seq \in Between(newest_seq_num_, newest_seq_num_)
      BY <1>3, <2>3, <3>3, StateIs DEF Listing
    <3>5. seq \in SeqNums /\ ForwardDiff(newest_seq_num_, seq)
                               \in 1..(ForwardDiff(newest_seq_num_, newest_seq_num_) - 1)
      BY <3>4, StateIs, BetweenAt
    <3>6. ForwardDiff(newest_seq_num_, newest_seq_num_) = 0
      BY StateIs, DiffType
    <3> QED
      BY <3>5, <3>6
  <2> QED
    BY <2>2, <2>3 DEF Asking, Passed
<1> QED
  BY <1>3, <1>5, <1>6 DEF new

\* The packet that OnReceivedFirstSequence makes up is a little behind the first one.
LEMMA FirstTarget ==
  ASSUME NEW seq \in SeqNums
  PROVE  LET t == IF seq > FirstBack THEN seq - FirstBack ELSE 0
         IN t \in SeqNums /\ ForwardDiff(t, seq) \in 0..FirstBack
BY Bounds, HalfFact DEF SeqNums, ForwardDiff

\* Both calls together: the made-up packet moves the newest one only when the real
\* one is ahead of it.
LEMMA TwoOutcome ==
  ASSUME IInv, NEW seq \in SeqNums, Arrives(seq),
         NEW is_keyframe \in BOOLEAN, NEW is_recovered \in BOOLEAN,
         is_recovered => Recoverable(seq)
  PROVE  LET first == FirstSequence(State, seq)
             last == Received([first EXCEPT !.batch = {}, !.key_requested = FALSE],
                              seq, is_keyframe, is_recovered)
             new == [last EXCEPT !.batch = @ \cup first.batch,
                                 !.key_requested = @ \/ first.key_requested]
         IN /\ Outcome(new, seq)
            /\ recovered_list_ = {} /\ ~Fec => Passed(new, seq)
<1> DEFINE t == IF seq > FirstBack THEN seq - FirstBack ELSE 0
           first == FirstSequence(State, seq)
           mid == [first EXCEPT !.batch = {}, !.key_requested = FALSE]
           last == Received(mid, seq, is_keyframe, is_recovered)
           new == [last EXCEPT !.batch = @ \cup first.batch,
                               !.key_requested = @ \/ first.key_requested]
           n0 == newest_seq_num_
<1>1. t \in SeqNums /\ ForwardDiff(t, seq) \in Nat /\ ForwardDiff(t, seq) <= FirstBack
  <2>1. t \in SeqNums /\ ForwardDiff(t, seq) \in 0..FirstBack
    BY FirstTarget
  <2> HIDE DEF t
  <2> QED
    BY <2>1, Bounds
<1>2. n0 \in SeqNums /\ initialized_ \in BOOLEAN
  BY StateIs
<1>3. first = Received(State, t, FALSE, FALSE)
  BY DEF FirstSequence
<1> HIDE DEF t, first, n0
<1>4. /\ ForwardDiff(n0, seq) \in Nat /\ ForwardDiff(seq, n0) \in Nat
      /\ ForwardDiff(n0, t) \in Nat /\ ForwardDiff(t, n0) \in Nat
      /\ n0 # t => ForwardDiff(t, n0) = Modulus - ForwardDiff(n0, t)
      /\ n0 # seq => ForwardDiff(seq, n0) = Modulus - ForwardDiff(n0, seq)
      /\ n0 = seq <=> ForwardDiff(n0, seq) = 0
      /\ n0 = t <=> ForwardDiff(n0, t) = 0
      /\ ForwardDiff(t, t) = 0
  BY <1>1, <1>2, DiffType
<1>5. initialized_ => \/ ForwardDiff(seq, n0) <= MaxPacketAge
                      \/ ForwardDiff(n0, seq) <= MaxJump
  BY DEF Arrives, InReach, n0
\* A real packet behind the newest one has the made-up one behind it too.
<1>6. ASSUME ForwardDiff(seq, n0) <= MaxPacketAge
      PROVE  ForwardDiff(t, n0) <= MaxPacketAge + Ahead
  <2>1. ForwardDiff(t, seq) + ForwardDiff(seq, n0) < Modulus
    BY <1>1, <1>4, <1>6, Bounds, HalfFact
  <2>2. ForwardDiff(t, n0) = ForwardDiff(t, seq) + ForwardDiff(seq, n0)
    BY <1>1, <1>2, <2>1, DiffAdds
  <2> QED
    BY <1>1, <1>4, <1>6, <2>2, Bounds
<1>7. ASSUME ForwardDiff(n0, seq) <= MaxJump
      PROVE  ForwardDiff(t, n0) <= MaxPacketAge + Ahead \/ ForwardDiff(n0, t) <= Ahead
  <2>1. CASE ForwardDiff(t, seq) <= ForwardDiff(n0, seq)
    <3>1. ForwardDiff(n0, t) = ForwardDiff(n0, seq) - ForwardDiff(t, seq)
      BY <1>1, <1>2, <2>1, DiffSubtractsEnd
    <3> QED
      BY <1>1, <1>4, <1>7, <3>1, Bounds
  <2>2. CASE ForwardDiff(n0, seq) <= ForwardDiff(t, seq)
    <3>1. ForwardDiff(t, n0) = ForwardDiff(t, seq) - ForwardDiff(n0, seq)
      BY <1>1, <1>2, <2>2, DiffSubtractsEnd
    <3> QED
      BY <1>1, <1>4, <3>1, Bounds
  <2> QED
    BY <1>1, <1>4, <2>1, <2>2
<1>8. Near(State, t)
  BY <1>5, <1>6, <1>7, StateIs DEF Near, n0
<1>9. /\ first \in Shape /\ InWindow(first) /\ first.init /\ Listing(State, first, t)
      /\ recovered_list_ = {} => first.recovered = {}
  <2>1. LET new0 == Received(State, t, FALSE, FALSE)
        IN /\ new0 \in Shape /\ InWindow(new0) /\ new0.init /\ Listing(State, new0, t)
           /\ State.recovered = {} /\ (FALSE => ~AheadOf(t, State.newest))
                 => Asking(State, new0, t)
           /\ Leaving(State, new0, t)
    BY <1>1, <1>8, StateIs, Receives
  <2> QED
    BY <1>3, <2>1, StateIs DEF Asking
<1> DEFINE n1 == first.newest
<1>10. /\ n1 \in {n0, t} /\ n1 \in SeqNums /\ first.batch \subseteq SeqNums
       /\ initialized_ => ForwardDiff(n0, n1) <= Ahead /\ first.batch \subseteq Between(n0, n1)
       /\ ~initialized_ => n1 = t /\ first.batch = {}
       /\ \A s \in DOMAIN first.nack : \/ s \in first.batch /\ first.nack[s].retries = 1
                                       \/ s \in Listed /\ first.nack[s] = nack_list_[s]
  <2>1. n1 \in SeqNums /\ first.batch \subseteq SeqNums
    BY <1>9, ShapeType
  <2>2. n1 \in {n0, t}
    BY <1>9, StateIs DEF Listing, n0
  <2>3. initialized_ => ForwardDiff(n0, n1) <= Ahead /\ first.batch \subseteq Between(n0, n1)
    BY <1>9, StateIs, Zenon DEF Listing, n0
  <2>4. ~initialized_ => n1 = t /\ first.batch = {}
    BY <1>9, StateIs, Zenon DEF Listing
  <2>5. \A s \in DOMAIN first.nack : \/ s \in first.batch /\ first.nack[s].retries = 1
                                     \/ s \in Listed /\ first.nack[s] = nack_list_[s]
    BY <1>9, StateIs DEF Listing, Listed
  <2> HIDE DEF n1
  <2> QED
    BY <2>1, <2>2, <2>3, <2>4, <2>5
<1>11. /\ mid \in Shape /\ InWindow(mid) /\ mid.init /\ mid.batch = {}
       /\ mid.newest = n1 /\ mid.nack = first.nack /\ mid.recovered = first.recovered
  <2>1. mid \in Shape
    BY <1>9 DEF Shape
  <2>2. /\ mid.init = first.init /\ mid.batch = {} /\ mid.keys = first.keys
        /\ mid.newest = n1 /\ mid.nack = first.nack /\ mid.recovered = first.recovered
    BY <1>9 DEF Shape
  <2> QED
    BY <1>9, <2>1, <2>2 DEF InWindow
<1> HIDE DEF mid, n1
\* When the newest packet has moved, the made-up packet was ahead of it.
<1>12. ASSUME initialized_, n1 # n0
       PROVE  n1 = t /\ ForwardDiff(n0, t) \in 1..Ahead
              /\ ~(ForwardDiff(seq, n0) <= MaxPacketAge)
  <2>1. n1 = t /\ ForwardDiff(n0, t) <= Ahead /\ ForwardDiff(n0, t) # 0
    BY <1>4, <1>10, <1>12
  <2>2. ForwardDiff(t, n0) = Modulus - ForwardDiff(n0, t)
    BY <1>4, <1>12, <2>1
  <2>3. ~(ForwardDiff(t, n0) <= MaxPacketAge + Ahead)
    BY <1>4, <2>1, <2>2, Bounds, HalfFact
  <2>4. ~(ForwardDiff(seq, n0) <= MaxPacketAge)
    BY <1>6, <2>3
  <2> QED
    BY <1>4, <2>1, <2>4, Bounds
<1>13. Near(mid, seq)
  <2>1. CASE n1 = t
    BY <1>1, <1>11, <2>1, Bounds DEF Near
  <2>2. CASE initialized_ /\ n1 = n0
    BY <1>4, <1>5, <1>11, <2>2, Bounds DEF Near
  <2> QED
    BY <1>10, <2>1, <2>2
<1>14. is_recovered => mid.init
  BY <1>11
<1>15. /\ last \in Shape /\ InWindow(last) /\ last.init /\ Listing(mid, last, seq)
       /\ mid.recovered = {} /\ (is_recovered => ~AheadOf(seq, n1)) => Asking(mid, last, seq)
  <2> HIDE DEF last
  <2>1. LET new0 == Received(mid, seq, is_keyframe, is_recovered)
        IN /\ new0 \in Shape /\ InWindow(new0) /\ new0.init /\ Listing(mid, new0, seq)
           /\ mid.recovered = {} /\ (is_recovered => ~AheadOf(seq, mid.newest))
                 => Asking(mid, new0, seq)
           /\ Leaving(mid, new0, seq)
    BY <1>11, <1>13, <1>14, Receives
  <2> QED
    BY <1>11, <2>1 DEF last
<1> HIDE DEF last
<1> DEFINE n2 == last.newest
<1>16. /\ n2 \in {n1, seq} /\ n2 \in SeqNums /\ last.batch \subseteq SeqNums
       /\ ForwardDiff(n1, n2) <= Ahead /\ last.batch \subseteq Between(n1, n2)
       /\ seq \notin DOMAIN last.nack
       /\ \A s \in DOMAIN last.nack : \/ s \in last.batch /\ last.nack[s].retries = 1
                                      \/ s \in DOMAIN first.nack /\ last.nack[s] = first.nack[s]
  BY <1>11, <1>15, ShapeType DEF Listing
<1>17. /\ new \in Shape /\ new.init = last.init /\ new.newest = n2 /\ new.nack = last.nack
       /\ new.keys = last.keys /\ new.recovered = last.recovered
       /\ new.batch = last.batch \cup first.batch
  <2>1. last.batch \cup first.batch \subseteq SeqNums
    BY <1>10, <1>16
  <2>2. (last.key_requested \/ first.key_requested) \in BOOLEAN
    OBVIOUS
  <2>3. new \in Shape
    BY <1>15, <2>1, <2>2 DEF Shape
  <2> QED
    BY <1>15, <2>3 DEF Shape
<1> HIDE DEF new, n2
<1>18. InWindow(new)
  BY <1>15, <1>17 DEF InWindow, n2
\* Both gaps lie in the gap of the step.
<1>19. ASSUME initialized_
       PROVE  /\ ForwardDiff(n0, n2) <= Ahead
              /\ Between(n0, n1) \subseteq Between(n0, n2)
              /\ Between(n1, n2) \subseteq Between(n0, n2)
  <2>1. CASE n1 = n0
    <3>1. Between(n0, n1) = {}
      <4>1. ForwardDiff(n0, n0) = 0
        BY <1>2, DiffType
      <4>2. \A s \in SeqNums : ForwardDiff(n0, s) \in Nat
        BY <1>2, DiffType
      <4>3. \A s \in SeqNums : ~(ForwardDiff(n0, s) < 0)
        BY <4>2
      <4> QED
        BY <2>1, <4>1, <4>3 DEF Between
    <3> QED
      BY <1>16, <2>1, <3>1
  <2>2. CASE n1 # n0 /\ n2 = n1
    <3>1. Between(n1, n2) = {}
      <4>1. ForwardDiff(n1, n1) = 0
        BY <1>10, DiffType
      <4>2. \A s \in SeqNums : ForwardDiff(n1, s) \in Nat
        BY <1>10, DiffType
      <4>3. \A s \in SeqNums : ~(ForwardDiff(n1, s) < 0)
        BY <4>2
      <4> QED
        BY <2>2, <4>1, <4>3 DEF Between
    <3> QED
      BY <1>10, <1>19, <2>2, <3>1
  <2>3. CASE n1 # n0 /\ n2 = seq
    <3>1. n1 = t /\ ForwardDiff(n0, t) \in Nat /\ 1 <= ForwardDiff(n0, t)
          /\ ForwardDiff(n0, t) <= Ahead
          /\ ForwardDiff(n0, seq) <= MaxJump
      BY <1>4, <1>5, <1>12, <1>19, <2>3
    <3>2. ForwardDiff(n0, t) + ForwardDiff(t, seq) < Modulus
      BY <1>1, <3>1, Bounds, HalfFact
    <3>3. ForwardDiff(n0, seq) = ForwardDiff(n0, t) + ForwardDiff(t, seq)
      BY <1>1, <1>2, <3>2, DiffAdds
    <3>4. ForwardDiff(n0, seq) <= Ahead
      BY <1>4, <3>1, Bounds
    <3>5. ASSUME NEW s \in Between(n0, t)
          PROVE  s \in Between(n0, seq)
      <4>1. s \in SeqNums /\ s # n0 /\ ForwardDiff(n0, s) < ForwardDiff(n0, t)
        BY <3>5 DEF Between
      <4>2. ForwardDiff(n0, s) \in Nat
        BY <1>2, <4>1, DiffType
      <4>3. ForwardDiff(n0, s) < ForwardDiff(n0, seq)
        BY <1>1, <3>1, <3>3, <4>1, <4>2
      <4> QED
        BY <4>1, <4>3 DEF Between
    <3>6. ASSUME NEW s \in Between(t, seq)
          PROVE  s \in Between(n0, seq)
      <4>1. s \in SeqNums /\ ForwardDiff(t, s) < ForwardDiff(t, seq)
        BY <3>6 DEF Between
      <4>2. ForwardDiff(t, s) \in Nat
        BY <1>1, <4>1, DiffType
      <4>3. ForwardDiff(n0, t) + ForwardDiff(t, s) < Modulus
        BY <1>1, <3>1, <3>2, <4>1, <4>2, HalfFact
      <4>4. ForwardDiff(n0, s) = ForwardDiff(n0, t) + ForwardDiff(t, s)
        BY <1>1, <1>2, <4>1, <4>3, DiffAdds
      <4>5. ForwardDiff(n0, s) < ForwardDiff(n0, seq) /\ ForwardDiff(n0, s) # 0
        BY <1>1, <3>1, <3>3, <4>1, <4>2, <4>4
      <4>6. s # n0
        BY <1>2, <4>5, DiffType
      <4> QED
        BY <4>1, <4>5, <4>6 DEF Between
    <3> QED
      BY <2>3, <3>1, <3>4, <3>5, <3>6
  <2> QED
    BY <1>16, <2>1, <2>2, <2>3
<1>20. \A s \in new.batch : ForwardDiff(s, new.newest) \in 1..Ahead
  <2> SUFFICES ASSUME NEW s \in new.batch
               PROVE  ForwardDiff(s, n2) \in 1..Ahead
    BY <1>17
  <2>1. CASE initialized_
    <3>1. s \in Between(n0, n2)
      BY <1>10, <1>16, <1>17, <1>19, <2>1
    <3> QED
      BY <1>2, <1>16, <1>19, <2>1, <3>1, BetweenRange
  <2>2. CASE ~initialized_
    <3>1. s \in Between(n1, n2)
      BY <1>10, <1>16, <1>17, <2>2
    <3> QED
      BY <1>10, <1>16, <3>1, BetweenRange
  <2> QED
    BY <1>2, <2>1, <2>2
<1>21. Outcome(new, seq)
  <2>1. initialized_ => /\ ForwardDiff(n0, new.newest) <= Ahead
                        /\ new.batch \subseteq Between(n0, new.newest)
    BY <1>10, <1>16, <1>17, <1>19
  <2>2. \A s \in DOMAIN new.nack : \/ s \in new.batch /\ new.nack[s].retries = 1
                                   \/ s \in Listed /\ new.nack[s] = nack_list_[s]
    BY <1>10, <1>16, <1>17
  <2> QED
    BY <1>15, <1>16, <1>17, <1>18, <1>20, <2>1, <2>2 DEF Outcome, n0
<1>22. ASSUME recovered_list_ = {}, ~Fec
       PROVE  Passed(new, seq)
  <2>1. is_recovered => ~AheadOf(seq, n1)
    <3> SUFFICES ASSUME is_recovered
                 PROVE  ~AheadOf(seq, n1)
      OBVIOUS
    <3>1. initialized_ /\ asked[seq] > 0
      BY <1>22 DEF Recoverable
    <3>2. ForwardDiff(seq, n0) \in 1..MaxPacketAge
      BY <3>1 DEF IInv, Counted, Recent, n0
    <3>3. ForwardDiff(seq, n0) < Half /\ ForwardDiff(seq, n0) <= MaxPacketAge
      BY <3>2, Bounds, HalfFact
    <3>4. n1 = n0
      BY <1>12, <3>1, <3>3
    <3> QED
      BY <1>2, <3>3, <3>4, AheadWhen
  <2>2. Asking(mid, last, seq)
    BY <1>9, <1>11, <1>15, <1>22, <2>1
  <2>3. ASSUME seq \in new.batch
        PROVE  FALSE
    <3>1. ForwardDiff(seq, n2) \in 1..Ahead
      BY <1>17, <1>20, <2>3
    <3>2. ForwardDiff(seq, seq) = 0
      BY DiffType
    <3>3. n2 = n1
      BY <1>16, <3>1, <3>2
    <3>4. \A a \in SeqNums : seq \notin Between(a, a)
      <4>1. \A a \in SeqNums : ForwardDiff(a, a) = 0 /\ ~(ForwardDiff(a, seq) < 0)
        BY DiffType
      <4> QED
        BY <4>1 DEF Between
    <3>5. initialized_ => n1 # n0
      BY <1>2, <1>10, <1>16, <1>17, <2>3, <3>3, <3>4
    <3>6. n1 = t /\ t # seq
      BY <1>10, <3>1, <3>2, <3>3, <3>5
    <3>7. ForwardDiff(seq, t) = Modulus - ForwardDiff(t, seq)
      BY <1>1, <3>6, DiffType
    <3>8. ForwardDiff(seq, t) \in 1..Ahead
      BY <3>1, <3>3, <3>6
    <3> QED
      BY <1>1, <3>7, <3>8, Bounds, HalfFact
  <2> QED
    BY <1>17, <2>2, <2>3 DEF Asking, Passed, n2
<1> QED
  BY <1>21, <1>22 DEF new, last, mid, first

-----------------------------------------------------------------------------
(* The steps keep the invariant.                                           *)

\* A number in reach that is behind the newest one is not too old.
LEMMA ReachBehind ==
  ASSUME NEW n \in SeqNums, NEW s \in SeqNums, InReach(n, s),
         ForwardDiff(s, n) <= MaxPacketAge + Ahead
  PROVE  ForwardDiff(s, n) <= MaxPacketAge
<1>1. /\ ForwardDiff(s, n) \in Nat /\ ForwardDiff(n, s) \in Nat
      /\ ForwardDiff(s, n) = 0 <=> s = n
      /\ s # n => ForwardDiff(n, s) = Modulus - ForwardDiff(s, n)
  BY DiffType
<1>2. CASE s = n
  BY <1>1, <1>2, Bounds
<1>3. CASE s # n
  <2>1. ~(ForwardDiff(n, s) <= MaxJump)
    BY <1>1, <1>3, Bounds, HalfFact
  <2> QED
    BY <2>1 DEF InReach
<1> QED
  BY <1>2, <1>3

\* As the newest packet moves on, what was behind it stays behind it.
LEMMA StaysBehind ==
  ASSUME NEW n \in SeqNums, NEW m \in SeqNums, NEW s \in SeqNums,
         ForwardDiff(n, m) <= Ahead, ForwardDiff(s, n) <= MaxPacketAge
  PROVE  /\ ForwardDiff(s, m) <= MaxPacketAge + Ahead
         /\ ForwardDiff(s, m) >= ForwardDiff(s, n)
<1>1. ForwardDiff(n, m) \in Nat /\ ForwardDiff(s, n) \in Nat
  BY DiffType
<1>2. ForwardDiff(s, n) + ForwardDiff(n, m) < Modulus
  BY <1>1, Bounds, HalfFact
<1>3. ForwardDiff(s, m) = ForwardDiff(s, n) + ForwardDiff(n, m)
  BY <1>2, DiffAdds
<1> QED
  BY <1>1, <1>3, Bounds

\* What lies in a gap was not behind the newest packet before.
LEMMA GapIsAhead ==
  ASSUME NEW n \in SeqNums, NEW m \in SeqNums, ForwardDiff(n, m) <= Ahead,
         NEW s \in Between(n, m)
  PROVE  s \in SeqNums /\ ~(ForwardDiff(s, n) <= MaxPacketAge)
<1>1. s \in SeqNums /\ ForwardDiff(n, s) \in 1..(ForwardDiff(n, m) - 1)
  BY BetweenAt
<1>2. ForwardDiff(n, s) \in Nat /\ ForwardDiff(n, m) \in Nat
      /\ (n # s => ForwardDiff(s, n) = Modulus - ForwardDiff(n, s))
      /\ (ForwardDiff(n, s) = 0 <=> n = s)
  BY <1>1, DiffType
<1>3. ForwardDiff(s, n) = Modulus - ForwardDiff(n, s)
  BY <1>1, <1>2
<1>4. ~(ForwardDiff(s, n) <= MaxPacketAge)
  BY <1>1, <1>2, <1>3, Bounds, HalfFact
<1> QED
  BY <1>1, <1>4

LEMMA AskedType ==
  ASSUME IInv, NEW s \in SeqNums
  PROVE  asked[s] \in Nat /\ asked[s] <= MaxNackRetries
<1>1. asked[s] \in 0..MaxNackRetries
  BY DEF IInv, Typed
<1> QED
  BY <1>1, Bounds

LEMMA ListedType ==
  ASSUME IInv, NEW s \in Listed
  PROVE  /\ s \in SeqNums /\ nack_list_[s] \in Entry
         /\ nack_list_[s].retries \in Nat /\ nack_list_[s].retries >= 1
         /\ nack_list_[s].retries < MaxNackRetries
         /\ nack_list_[s].age \in 0..MaxRtt
         /\ Recent(newest_seq_num_, s)
         /\ asked[s] = nack_list_[s].retries
<1>1. nack_list_ \in NackLists
  BY StateIs, ShapeType
<1>2. s \in SeqNums /\ nack_list_[s] \in Entry
  BY <1>1, ListType DEF Listed
<1>3. nack_list_[s].retries \in 1..(MaxNackRetries - 1) /\ nack_list_[s].age \in 0..MaxRtt
  BY <1>2 DEF Entry
<1>4. Recent(newest_seq_num_, s)
  BY StateIs DEF InWindow, NacksInWindow, Listed
<1>5. asked[s] = nack_list_[s].retries
  BY DEF IInv, Counted
<1> QED
  BY <1>2, <1>3, <1>4, <1>5, Bounds

\* What a packet asks for was not asked for before.
LEMMA AskedAnew ==
  ASSUME IInv, NEW seq \in SeqNums, NEW new, Outcome(new, seq), NEW s \in new.batch
  PROVE  s \in SeqNums /\ asked[s] = 0
<1>1. new.newest \in SeqNums /\ s \in SeqNums
  BY ShapeType DEF Outcome
<1>2. CASE initialized_
  <2>1. ~(ForwardDiff(s, newest_seq_num_) <= MaxPacketAge)
    BY <1>1, <1>2, StateIs, GapIsAhead DEF Outcome
  <2>2. ~Recent(newest_seq_num_, s)
    BY <2>1, Bounds DEF Recent
  <2>3. ~(asked[s] > 0)
    BY <1>1, <2>2 DEF IInv, Counted
  <2> QED
    BY <1>1, <2>3, AskedType
<1>3. CASE ~initialized_
  BY <1>1, <1>3 DEF IInv, NothingBefore
<1> QED
  BY <1>2, <1>3

LEMMA TakeCounts ==
  ASSUME IInv, NEW seq \in SeqNums, NEW new, Outcome(new, seq), Take(new, seq)
  PROVE  /\ asked' \in [SeqNums -> 0..MaxNackRetries]
         /\ \A s \in DOMAIN new.nack : asked'[s] = new.nack[s].retries
         /\ \A s \in SeqNums : asked'[s] > 0 => Recent(new.newest, s)
<1>1. new \in Shape /\ new.newest \in SeqNums /\ new.nack \in NackLists
  BY ShapeType DEF Outcome
<1>2. asked' = [s \in SeqNums |-> IF ~InReach(new.newest, s) THEN 0
                                  ELSE IF s \in new.batch THEN Once(asked[s]) ELSE asked[s]]
  BY DEF Take
<1>3. \A s \in new.batch : s \in SeqNums /\ Once(asked[s]) = 1 /\ asked[s] = 0
  BY AskedAnew, OnceIs, Bounds
<1>4. \A s \in SeqNums : /\ ~InReach(new.newest, s) => asked'[s] = 0
                         /\ InReach(new.newest, s) /\ s \in new.batch => asked'[s] = 1
                         /\ InReach(new.newest, s) /\ s \notin new.batch => asked'[s] = asked[s]
  BY <1>2, <1>3
<1>5. asked' \in [SeqNums -> 0..MaxNackRetries]
  <2>1. 0 \in 0..MaxNackRetries /\ 1 \in 0..MaxNackRetries
    BY Bounds
  <2>2. asked \in [SeqNums -> 0..MaxNackRetries]
    BY DEF IInv, Typed
  <2>3. \A s \in SeqNums : asked'[s] \in 0..MaxNackRetries
    BY <1>4, <2>1, <2>2
  <2> QED
    BY <1>2, <2>3
<1>6. ASSUME NEW s \in DOMAIN new.nack
      PROVE  asked'[s] = new.nack[s].retries
  <2>1. s \in SeqNums
    BY <1>1, ListType
  <2>2. ForwardDiff(s, new.newest) \in 1..MaxPacketAge
    BY DEF Outcome, InWindow, NacksInWindow, Recent
  <2>3. InReach(new.newest, s)
    BY <2>2, Bounds DEF InReach
  <2>4. CASE s \in new.batch /\ new.nack[s].retries = 1
    BY <1>4, <2>1, <2>3, <2>4
  <2>5. CASE s \in Listed /\ new.nack[s] = nack_list_[s]
    <3>1. asked[s] = nack_list_[s].retries /\ asked[s] # 0
      BY <2>5, ListedType
    <3>2. s \notin new.batch
      BY <1>3, <3>1
    <3> QED
      BY <1>4, <2>1, <2>3, <2>5, <3>1, <3>2
  <2> QED
    BY <2>4, <2>5 DEF Outcome
<1>7. ASSUME NEW s \in SeqNums, asked'[s] > 0
      PROVE  Recent(new.newest, s)
  <2>1. InReach(new.newest, s) /\ (s \in new.batch \/ asked[s] > 0)
    <3>1. ~(0 > 0)
      OBVIOUS
    <3> QED
      BY <1>4, <1>7, <3>1
  <2>2. ForwardDiff(s, new.newest) \in Nat
    BY <1>1, DiffType
  <2>3. /\ ForwardDiff(s, new.newest) >= 1
        /\ ForwardDiff(s, new.newest) <= MaxPacketAge + Ahead
    <3>1. CASE s \in new.batch
      <4>1. ForwardDiff(s, new.newest) \in 1..Ahead
        BY <3>1 DEF Outcome
      <4> QED
        BY <4>1, Bounds
    <3>2. CASE asked[s] > 0
      <4>1. Recent(newest_seq_num_, s)
        BY <3>2 DEF IInv, Counted
      <4>2. initialized_
        BY <3>2, <2>1 DEF IInv, NothingBefore
      <4>3. ForwardDiff(s, newest_seq_num_) \in Nat /\ 1 <= ForwardDiff(s, newest_seq_num_)
            /\ ForwardDiff(s, newest_seq_num_) <= MaxPacketAge
        BY <4>1, Bounds DEF Recent
      <4>4. /\ ForwardDiff(s, new.newest) <= MaxPacketAge + Ahead
            /\ ForwardDiff(s, new.newest) >= ForwardDiff(s, newest_seq_num_)
        BY <1>1, <4>2, <4>3, StateIs, StaysBehind DEF Outcome
      <4> QED
        BY <2>2, <4>3, <4>4
    <3> QED
      BY <2>1, <3>1, <3>2
  <2>4. ForwardDiff(s, new.newest) <= MaxPacketAge
    BY <1>1, <2>1, <2>3, ReachBehind
  <2> QED
    BY <2>2, <2>3, <2>4, Bounds DEF Recent
<1> QED
  BY <1>5, <1>6, <1>7

LEMMA TakeKeeps ==
  ASSUME IInv, NEW seq \in SeqNums, NEW new, Outcome(new, seq), Take(new, seq),
         UNCHANGED <<rtt_ms_, clears>>, first_seq_num_received_' \in BOOLEAN
  PROVE  IInv'
<1>1. /\ new \in Shape /\ InWindow(new) /\ new.init
  BY DEF Outcome
<1>2. /\ initialized_' = new.init /\ newest_seq_num_' = new.newest /\ nack_list_' = new.nack
      /\ keyframe_list_' = new.keys /\ recovered_list_' = new.recovered
      /\ batch' = new.batch /\ key_requested' = new.key_requested
      /\ got' \subseteq got \cup {seq}
  BY DEF Take
<1>3. State' = [init |-> new.init, newest |-> new.newest, nack |-> new.nack,
                keys |-> new.keys, recovered |-> new.recovered,
                batch |-> {}, key_requested |-> FALSE]
  BY <1>2 DEF State
<1>4. State' \in Shape
  BY <1>1, <1>3 DEF Shape
<1>5. InWindow(State')
  BY <1>1, <1>3 DEF InWindow
<1>6. Typed'
  <2>1. got' \subseteq SeqNums
    BY <1>2 DEF IInv, Typed
  <2>2. batch' \subseteq SeqNums /\ key_requested' \in BOOLEAN
    BY <1>1, <1>2, ShapeType
  <2>3. asked' \in [SeqNums -> 0..MaxNackRetries]
    BY TakeCounts
  <2>4. rtt_ms_' \in DefaultRtt..MaxRtt /\ clears' \in Seq(SeqNums) /\ Len(clears') <= MaxPosted
    BY DEF IInv, Typed
  <2> QED
    BY <1>4, <2>1, <2>2, <2>3, <2>4 DEF Typed
<1>7. NothingBefore'
  BY <1>1, <1>2 DEF NothingBefore
<1>8. Counted'
  <2>1. \A s \in DOMAIN new.nack : asked'[s] = new.nack[s].retries
    BY TakeCounts
  <2>2. \A s \in SeqNums : asked'[s] > 0 => Recent(new.newest, s)
    BY TakeCounts
  <2> QED
    BY <1>2, <2>1, <2>2 DEF Counted, Listed
<1> QED
  BY <1>5, <1>6, <1>7, <1>8 DEF IInv

LEMMA TakeArrives ==
  ASSUME IInv, Arrived, NEW seq \in SeqNums, NEW new, Outcome(new, seq), Passed(new, seq),
         Take(new, seq)
  PROVE  Arrived'
<1>1. new.newest \in SeqNums /\ seq \notin DOMAIN new.nack
  BY ShapeType DEF Outcome
<1>2. /\ newest_seq_num_' = new.newest /\ nack_list_' = new.nack
      /\ recovered_list_' = {} /\ batch' = new.batch
      /\ got' = {s \in got \cup {seq} : InReach(new.newest, s)}
  BY DEF Take, Passed
<1>3. \A s \in got : s \in SeqNums /\ initialized_
  BY DEF IInv, Typed, NothingBefore
<1>4. ASSUME NEW s \in got'
      PROVE  ForwardDiff(s, new.newest) <= MaxPacketAge
  <2>1. s \in SeqNums /\ InReach(new.newest, s)
    BY <1>2, <1>3
  <2>2. ForwardDiff(s, new.newest) <= MaxPacketAge + Ahead
    <3>1. CASE s = seq
      <4>1. ForwardDiff(seq, seq) = 0
        BY DiffType
      <4>2. 0 <= MaxPacketAge + Ahead
        BY Bounds
      <4> QED
        BY <3>1, <4>1, <4>2 DEF Passed
    <3>2. CASE s \in got
      BY <1>1, <1>3, <2>1, <3>2, StateIs, StaysBehind DEF Arrived, Outcome
    <3> QED
      BY <1>2, <3>1, <3>2
  <2> QED
    BY <1>1, <2>1, <2>2, ReachBehind
<1>5. \A s \in new.batch : s # seq /\ s \notin got
  <2> SUFFICES ASSUME NEW s \in new.batch, s \in got
               PROVE  FALSE
    BY DEF Passed
  <2>1. ~(ForwardDiff(s, newest_seq_num_) <= MaxPacketAge)
    BY <1>1, <1>3, StateIs, GapIsAhead DEF Outcome
  <2> QED
    BY <2>1 DEF Arrived
<1>6. \A s \in DOMAIN new.nack : s # seq /\ s \notin got
  BY <1>1, <1>5 DEF Outcome, Arrived
<1> QED
  BY <1>2, <1>4, <1>5, <1>6 DEF Arrived, Listed

\* One call without the made-up packet loses no gap and gives nothing up in silence.
Mended(new, seq) ==
  /\ Listing(State, new, seq) /\ Leaving(State, new, seq)
  /\ recovered_list_ = {} /\ ~Fec /\ initialized_ => Asking(State, new, seq)

LEMMA PayloadTaken ==
  ASSUME IInv, NEW seq \in SeqNums, NEW is_keyframe \in BOOLEAN, NEW is_recovered \in BOOLEAN,
         OnReceivedPayloadData(seq, is_keyframe, is_recovered)
  PROVE  \E new : /\ Outcome(new, seq) /\ Take(new, seq)
                  /\ recovered_list_ = {} /\ ~Fec => Passed(new, seq)
                  /\ first_seq_num_received_ => Mended(new, seq)
<1> DEFINE first == IF first_seq_num_received_ THEN State ELSE FirstSequence(State, seq)
           last == Received([first EXCEPT !.batch = {}, !.key_requested = FALSE],
                            seq, is_keyframe, is_recovered)
           new == [last EXCEPT !.batch = @ \cup first.batch,
                               !.key_requested = @ \/ first.key_requested]
<1>1. Arrives(seq) /\ (is_recovered => Recoverable(seq)) /\ Take(new, seq)
  BY Zenon DEF OnReceivedPayloadData
<1>2. CASE first_seq_num_received_
  <2> DEFINE one == Received(State, seq, is_keyframe, is_recovered)
  <2>1. [State EXCEPT !.batch = {}, !.key_requested = FALSE] = State
    <3>1. [State EXCEPT !.batch = {}, !.key_requested = FALSE]
             = [State EXCEPT !.batch = State.batch, !.key_requested = State.key_requested]
      BY StateIs
    <3> QED
      BY <3>1, StateIs DEF Shape
  <2>2. /\ Outcome(one, seq)
        /\ recovered_list_ = {} /\ ~Fec =>
             /\ Passed(one, seq)
             /\ initialized_ => Asking(State, one, seq)
        /\ Listing(State, one, seq) /\ Leaving(State, one, seq)
    BY <1>1, OneOutcome
  <2>3. last = one /\ first = State
    BY <1>2, <2>1
  <2> HIDE DEF one, last, first
  <2>4. first.batch = {} /\ first.key_requested = FALSE
    BY <2>3, StateIs
  <2>5. one \in Shape
    BY <2>2 DEF Outcome
  <2>6. new = [one EXCEPT !.batch = @ \cup {}, !.key_requested = @ \/ FALSE]
    BY <2>3, <2>4
  <2>7. [one EXCEPT !.batch = @ \cup {}, !.key_requested = @ \/ FALSE] = one
    <3>1. one.batch \cup {} = one.batch /\ (one.key_requested \/ FALSE) = one.key_requested
      BY <2>5, ShapeType
    <3>2. [one EXCEPT !.batch = @ \cup {}, !.key_requested = @ \/ FALSE]
             = [one EXCEPT !.batch = one.batch, !.key_requested = one.key_requested]
      BY <3>1
    <3> QED
      BY <2>5, <3>2 DEF Shape
  <2> QED
    BY <1>1, <2>2, <2>6, <2>7 DEF Mended
<1>3. CASE ~first_seq_num_received_
  <2>1. first = FirstSequence(State, seq)
    BY <1>3
  <2>2. LET first0 == FirstSequence(State, seq)
            last0 == Received([first0 EXCEPT !.batch = {}, !.key_requested = FALSE],
                              seq, is_keyframe, is_recovered)
            new0 == [last0 EXCEPT !.batch = @ \cup first0.batch,
                                  !.key_requested = @ \/ first0.key_requested]
        IN /\ Outcome(new0, seq)
           /\ recovered_list_ = {} /\ ~Fec => Passed(new0, seq)
    BY <1>1, TwoOutcome
  <2>3. Outcome(new, seq) /\ (recovered_list_ = {} /\ ~Fec => Passed(new, seq))
    BY <2>1, <2>2
  <2> QED
    BY <1>1, <1>3, <2>3
<1> QED
  BY <1>2, <1>3

LEMMA PaddingTaken ==
  ASSUME IInv, NEW seq \in SeqNums, NotifyReceiverOfEmptyPacket(seq)
  PROVE  \E new : /\ Outcome(new, seq) /\ Take(new, seq)
                  /\ recovered_list_ = {} /\ ~Fec => Passed(new, seq)
                  /\ Mended(new, seq)
<1> DEFINE new == Received(State, seq, FALSE, FALSE)
<1>1. Arrives(seq) /\ Take(new, seq)
  BY DEF NotifyReceiverOfEmptyPacket
<1>2. /\ Outcome(new, seq)
      /\ recovered_list_ = {} /\ ~Fec =>
           /\ Passed(new, seq)
           /\ initialized_ => Asking(State, new, seq)
      /\ Listing(State, new, seq) /\ Leaving(State, new, seq)
  BY <1>1, OneOutcome
<1> QED
  BY <1>1, <1>2 DEF Mended

\* A step that leaves the lists and the histories alone.
LEMMA QuietKeeps ==
  ASSUME IInv, Quiet, UNCHANGED <<initialized_, newest_seq_num_, first_seq_num_received_,
                                  lists, got, asked>>,
         rtt_ms_' \in DefaultRtt..MaxRtt, clears' \in Seq(SeqNums), Len(clears') <= MaxPosted
  PROVE  IInv' /\ (Arrived => Arrived')
<1>1. State' = State /\ batch' = {} /\ key_requested' = FALSE
  BY DEF State, Quiet, lists
<1>2. Typed'
  BY <1>1 DEF IInv, Typed
<1>3. InWindow(State')
  BY <1>1 DEF IInv
<1>4. NothingBefore' /\ Counted'
  BY <1>1 DEF IInv, NothingBefore, Counted, Listed, lists
<1>5. Arrived => Arrived'
  BY <1>1 DEF Arrived, Listed, lists
<1> QED
  BY <1>2, <1>3, <1>4, <1>5 DEF IInv

LEMMA ClearKeeps ==
  ASSUME IInv, ClearUpTo
  PROVE  IInv' /\ (Arrived => Arrived')
<1> DEFINE n == Head(clears)
           D == FromLowerBound(Listed, n)
<1>1. clears \in Seq(SeqNums) /\ clears # <<>> /\ Len(clears) <= MaxPosted
  BY DEF IInv, Typed, ClearUpTo
<1>2. clears' \in Seq(SeqNums) /\ Len(clears') <= MaxPosted
  BY <1>1, NackAssumption DEF ClearUpTo
<1>3. D \subseteq Listed
  BY DEF FromLowerBound
<1>4. /\ nack_list_' = Restrict(nack_list_, D) /\ keyframe_list_' \subseteq keyframe_list_
      /\ recovered_list_' \subseteq recovered_list_ /\ batch' = {} /\ key_requested' = FALSE
  BY DEF ClearUpTo, Quiet, FromLowerBound
<1>5. UNCHANGED <<initialized_, newest_seq_num_, first_seq_num_received_, rtt_ms_, got, asked>>
  BY DEF ClearUpTo
<1> HIDE DEF D
<1>6. /\ nack_list_' \in NackLists /\ Listed' = D /\ \A s \in D : nack_list_'[s] = nack_list_[s]
  <2>1. nack_list_ \in NackLists /\ D \in SUBSET DOMAIN nack_list_
    BY <1>3, StateIs, ShapeType DEF Listed
  <2>2. /\ Restrict(nack_list_, D) \in NackLists /\ DOMAIN Restrict(nack_list_, D) = D
        /\ \A s \in D : Restrict(nack_list_, D)[s] = nack_list_[s]
    BY <2>1, ShortenedList
  <2>3. Listed' = DOMAIN nack_list_'
    BY DEF Listed
  <2> QED
    BY <1>4, <2>2, <2>3
<1>7. State' \in Shape
  <2>1. /\ initialized_' \in BOOLEAN /\ newest_seq_num_' \in SeqNums
        /\ keyframe_list_' \subseteq SeqNums /\ recovered_list_' \subseteq SeqNums
    BY <1>4, <1>5, StateIs, ShapeType
  <2> QED
    BY <1>6, <2>1 DEF State, Shape
<1>8. /\ State'.newest = newest_seq_num_ /\ State'.nack = nack_list_'
      /\ State'.keys = keyframe_list_' /\ State'.init = initialized_
      /\ State'.recovered = recovered_list_'
  BY <1>5 DEF State
<1>9. InWindow(State')
  <2>1. Cardinality(D) <= MaxNackPackets
    <3>1. IsFiniteSet(Listed) /\ Cardinality(Listed) \in Nat
      BY StateIs, ShapeType, ListType DEF Listed
    <3>2. Cardinality(D) <= Cardinality(Listed) /\ Cardinality(D) \in Nat
      BY <1>3, <3>1, FS_Subset, FS_CardinalityType
    <3>3. Cardinality(Listed) <= MaxNackPackets
      BY StateIs DEF InWindow, NacksInWindow, Listed
    <3> QED
      BY <3>1, <3>2, <3>3, Bounds
  <2>2. NacksInWindow(newest_seq_num_, D)
    BY <1>3, <2>1, ListedType DEF NacksInWindow
  <2>3. KeysInWindow(newest_seq_num_, keyframe_list_')
    BY <1>4, StateIs DEF InWindow, KeysInWindow
  <2>4. ~initialized_ => D = {} /\ recovered_list_' = {}
    BY <1>3, <1>4, StateIs DEF InWindow, Listed
  <2>5. DOMAIN nack_list_' = D
    BY <1>6 DEF Listed
  <2> QED
    BY <1>8, <2>2, <2>3, <2>4, <2>5 DEF InWindow
<1>10. Typed'
  BY <1>2, <1>4, <1>5, <1>7 DEF IInv, Typed
<1>11. NothingBefore'
  BY <1>4, <1>5 DEF IInv, NothingBefore
<1>12. Counted'
  BY <1>3, <1>5, <1>6 DEF IInv, Counted
<1>13. Arrived => Arrived'
  BY <1>3, <1>4, <1>5, <1>6 DEF Arrived
<1> QED
  BY <1>9, <1>10, <1>11, <1>12, <1>13 DEF IInv

LEMMA ProcessKeeps ==
  ASSUME IInv, ProcessNacks
  PROVE  /\ IInv' /\ (Arrived => Arrived')
         /\ \A s \in Listed \ Listed' : asked'[s] >= MaxNackRetries
<1>1. PICK due \in SUBSET {s \in Listed : Due(s) \/ MaybeDue(s)} :
        {s \in Listed : Due(s)} \subseteq due /\ GetNackBatch(due)
  BY DEF ProcessNacks
<1> DEFINE spent == {s \in due : nack_list_[s].retries + 1 >= MaxNackRetries}
           D == Listed \ spent
           list == [s \in D |-> IF s \in due
                                THEN [retries |-> nack_list_[s].retries + 1, age |-> 0]
                                ELSE [nack_list_[s] EXCEPT !.age = @ + 1]]
<1>2. /\ nack_list_' = list /\ batch' = due
      /\ asked' = [s \in SeqNums |-> IF s \in due THEN Once(asked[s]) ELSE asked[s]]
  BY <1>1, Zenon DEF GetNackBatch, SendBatch
<1>3. /\ UNCHANGED <<initialized_, newest_seq_num_, first_seq_num_received_, keyframe_list_,
                     recovered_list_, rtt_ms_, clears, got>>
      /\ key_requested' = FALSE
  BY DEF ProcessNacks
<1>4. due \subseteq Listed /\ D \subseteq Listed /\ D \subseteq SeqNums
  BY ListedType
<1>5. rtt_ms_ \in Nat /\ rtt_ms_ <= MaxRtt
  BY Bounds, RttBound DEF IInv, Typed
<1>6. ASSUME NEW s \in D
      PROVE  /\ list[s] \in Entry
             /\ s \in due => list[s].retries = nack_list_[s].retries + 1
             /\ s \notin due => list[s].retries = nack_list_[s].retries
  <2>1. /\ nack_list_[s] \in Entry /\ nack_list_[s].retries \in Nat
        /\ nack_list_[s].retries >= 1 /\ nack_list_[s].retries < MaxNackRetries
        /\ nack_list_[s].age \in 0..MaxRtt
    BY <1>4, ListedType
  <2>2. CASE s \in due
    <3>1. list[s] = [retries |-> nack_list_[s].retries + 1, age |-> 0]
      BY <2>2
    <3>2. ~(nack_list_[s].retries + 1 >= MaxNackRetries)
      BY <2>2
    <3> HIDE DEF list
    <3>3. nack_list_[s].retries + 1 \in 1..(MaxNackRetries - 1) /\ 0 \in 0..MaxRtt
      BY <2>1, <3>2, Bounds, RttBound
    <3> QED
      BY <2>2, <3>1, <3>3 DEF Entry
  <2>3. CASE s \notin due
    <3>1. list[s] = [nack_list_[s] EXCEPT !.age = @ + 1]
      BY <2>3
    <3>2. ~(nack_list_[s].age + 1 > rtt_ms_)
      BY <1>1, <1>4, <2>3 DEF Due
    <3> HIDE DEF list
    <3>3. nack_list_[s].age + 1 \in 0..MaxRtt
      BY <1>5, <2>1, <3>2, RttBound
    <3>4. list[s] \in Entry /\ list[s].retries = nack_list_[s].retries
      BY <2>1, <3>1, <3>3 DEF Entry
    <3> QED
      BY <2>3, <3>4
  <2> QED
    BY <2>2, <2>3
<1>7. list \in NackLists /\ DOMAIN list = D
  <2>1. list \in [D -> Entry]
    BY <1>6
  <2> HIDE DEF list, D
  <2> QED
    BY <1>4, <2>1, ListMade
<1>8. \A s \in Listed : /\ s \in due => asked'[s] = asked[s] + 1
                        /\ s \notin due => asked'[s] = asked[s]
                        /\ asked'[s] \in 0..MaxNackRetries
  <2> SUFFICES ASSUME NEW s \in Listed
               PROVE  /\ s \in due => asked'[s] = asked[s] + 1
                      /\ s \notin due => asked'[s] = asked[s]
                      /\ asked'[s] \in 0..MaxNackRetries
    OBVIOUS
  <2>1. /\ s \in SeqNums /\ asked[s] = nack_list_[s].retries
        /\ nack_list_[s].retries \in Nat /\ nack_list_[s].retries < MaxNackRetries
    BY ListedType
  <2>2. asked[s] <= MaxNackRetries /\ asked[s] \in Nat
    BY <2>1, Bounds
  <2>3. Once(asked[s]) = asked[s] + 1
    BY <2>2, OnceIs
  <2>4. asked'[s] = IF s \in due THEN asked[s] + 1 ELSE asked[s]
    BY <1>2, <2>1, <2>3
  <2> QED
    BY <2>1, <2>4, Bounds
<1>9. \A s \in SeqNums \ Listed : asked'[s] = asked[s]
  BY <1>2, <1>4
<1>10. asked' \in [SeqNums -> 0..MaxNackRetries]
  <2>1. asked \in [SeqNums -> 0..MaxNackRetries]
    BY DEF IInv, Typed
  <2>2. \A s \in SeqNums : asked'[s] \in 0..MaxNackRetries
    BY <1>8, <1>9, <2>1
  <2> QED
    BY <1>2, <2>2
<1> HIDE DEF list
<1>11. Listed' = D /\ \A s \in D : nack_list_'[s] = list[s]
  BY <1>2, <1>7 DEF Listed
<1>12. State' \in Shape
  <2>1. /\ initialized_' \in BOOLEAN /\ newest_seq_num_' \in SeqNums
        /\ keyframe_list_' \subseteq SeqNums /\ recovered_list_' \subseteq SeqNums
        /\ nack_list_' \in NackLists
    BY <1>2, <1>3, <1>7, StateIs, ShapeType
  <2> QED
    BY <2>1 DEF State, Shape
<1>13. /\ State'.newest = newest_seq_num_ /\ DOMAIN State'.nack = D
       /\ State'.keys = keyframe_list_ /\ State'.init = initialized_
       /\ State'.recovered = recovered_list_
  BY <1>2, <1>3, <1>7 DEF State
<1> HIDE DEF D
<1>14. InWindow(State')
  <2>1. Cardinality(D) <= MaxNackPackets
    <3>1. IsFiniteSet(Listed) /\ Cardinality(Listed) \in Nat
      BY StateIs, ShapeType, ListType DEF Listed
    <3>2. Cardinality(D) <= Cardinality(Listed) /\ Cardinality(D) \in Nat
      BY <1>4, <3>1, FS_Subset, FS_CardinalityType
    <3>3. Cardinality(Listed) <= MaxNackPackets
      BY StateIs DEF InWindow, NacksInWindow, Listed
    <3> QED
      BY <3>1, <3>2, <3>3, Bounds
  <2>2. NacksInWindow(newest_seq_num_, D)
    BY <1>4, <2>1, ListedType DEF NacksInWindow
  <2>3. KeysInWindow(newest_seq_num_, keyframe_list_)
    BY StateIs DEF InWindow
  <2>4. ~initialized_ => D = {} /\ recovered_list_ = {}
    BY <1>4, StateIs DEF InWindow, Listed
  <2> QED
    BY <1>13, <2>2, <2>3, <2>4 DEF InWindow
<1>15. Typed'
  <2>1. batch' \subseteq SeqNums
    BY <1>2, <1>4, ListedType
  <2>2. got' \subseteq SeqNums /\ key_requested' \in BOOLEAN
        /\ first_seq_num_received_' \in BOOLEAN
        /\ rtt_ms_' \in DefaultRtt..MaxRtt /\ clears' \in Seq(SeqNums)
        /\ Len(clears') <= MaxPosted
    BY <1>3 DEF IInv, Typed
  <2> QED
    BY <1>10, <1>12, <2>1, <2>2 DEF Typed
<1>16. NothingBefore'
  <2> SUFFICES ASSUME ~initialized_
               PROVE  due = {} /\ ~first_seq_num_received_ /\ got = {}
                      /\ \A s \in SeqNums : asked'[s] = 0
    BY <1>2, <1>3 DEF NothingBefore
  <2>1. Listed = {}
    BY StateIs DEF InWindow, Listed
  <2> QED
    BY <1>4, <1>9, <2>1 DEF IInv, NothingBefore
<1>17. Counted'
  <2>1. ASSUME NEW s \in D
        PROVE  asked'[s] = list[s].retries
    BY <1>4, <1>6, <1>8, <2>1, ListedType DEF list
  <2>2. ASSUME NEW s \in SeqNums, asked'[s] > 0
        PROVE  Recent(newest_seq_num_, s)
    <3>1. CASE s \in Listed
      BY <3>1, ListedType
    <3>2. CASE s \notin Listed
      BY <1>9, <2>2, <3>2 DEF IInv, Counted
    <3> QED
      BY <3>1, <3>2
  <2> QED
    BY <1>3, <1>11, <2>1, <2>2 DEF Counted
<1>18. Arrived => Arrived'
  BY <1>2, <1>3, <1>4, <1>11 DEF Arrived
<1>19. ASSUME NEW s \in Listed \ Listed'
       PROVE  asked'[s] >= MaxNackRetries
  <2>1. s \in due /\ nack_list_[s].retries + 1 >= MaxNackRetries
    BY <1>11, <1>19 DEF D
  <2> QED
    BY <1>8, <2>1, ListedType
<1> QED
  BY <1>14, <1>15, <1>16, <1>17, <1>18, <1>19 DEF IInv

-----------------------------------------------------------------------------
(* The theorems.                                                           *)

LEMMA InitInv ==
  ASSUME Init
  PROVE  IInv /\ Arrived
<1>1. State = [init |-> FALSE, newest |-> 0, nack |-> <<>>, keys |-> {}, recovered |-> {},
               batch |-> {}, key_requested |-> FALSE]
  BY DEF Init, State
<1>2. 0 \in SeqNums
  BY HalfFact DEF SeqNums
<1>3. State \in Shape
  BY <1>1, <1>2, EmptyList DEF Shape
<1>4. NacksInWindow(0, {}) /\ KeysInWindow(0, {})
  BY EmptyList, Bounds DEF NacksInWindow, KeysInWindow
<1>5. InWindow(State)
  BY <1>1, <1>4, EmptyList DEF InWindow
<1>6. Typed
  <2>1. asked \in [SeqNums -> 0..MaxNackRetries]
    <3>1. 0 \in 0..MaxNackRetries
      BY Bounds
    <3> QED
      BY <3>1 DEF Init
  <2>2. rtt_ms_ \in DefaultRtt..MaxRtt
    BY Bounds, RttBound DEF Init
  <2>3. clears \in Seq(SeqNums) /\ Len(clears) <= MaxPosted
    BY NackAssumption DEF Init
  <2> QED
    BY <1>3, <2>1, <2>2, <2>3 DEF Init, Typed
<1>7. Listed = {}
  BY EmptyList DEF Init, Listed
<1>8. NothingBefore /\ Counted
  <2>1. ~(0 > 0)
    OBVIOUS
  <2> QED
    BY <1>7, <2>1 DEF Init, NothingBefore, Counted
<1> QED
  BY <1>5, <1>6, <1>7, <1>8 DEF IInv, Arrived, Init

\* Each action keeps the invariant, and without packets from FEC the other one too.
LEMMA NextKeeps ==
  ASSUME IInv, [Next]_vars
  PROVE  IInv' /\ (~Fec /\ Arrived => Arrived')
<1>1. ASSUME NEW seq \in SeqNums, NEW is_keyframe \in BOOLEAN, NEW is_recovered \in BOOLEAN,
             OnReceivedPayloadData(seq, is_keyframe, is_recovered)
      PROVE  IInv' /\ (~Fec /\ Arrived => Arrived')
  <2>1. PICK new : /\ Outcome(new, seq) /\ Take(new, seq)
                   /\ recovered_list_ = {} /\ ~Fec => Passed(new, seq)
    BY <1>1, PayloadTaken
  <2>2. UNCHANGED <<rtt_ms_, clears>> /\ first_seq_num_received_' \in BOOLEAN
    BY <1>1, Zenon DEF OnReceivedPayloadData
  <2>3. IInv'
    BY <2>1, <2>2, TakeKeeps
  <2>4. ASSUME ~Fec, Arrived
        PROVE  Arrived'
    <3>1. Passed(new, seq)
      BY <2>1, <2>4 DEF Arrived
    <3> QED
      BY <2>1, <2>4, <3>1, TakeArrives
  <2> QED
    BY <2>3, <2>4
<1>2. ASSUME NEW seq \in SeqNums, NotifyReceiverOfEmptyPacket(seq)
      PROVE  IInv' /\ (~Fec /\ Arrived => Arrived')
  <2>1. PICK new : /\ Outcome(new, seq) /\ Take(new, seq)
                   /\ recovered_list_ = {} /\ ~Fec => Passed(new, seq)
    BY <1>2, PaddingTaken
  <2>2. UNCHANGED <<rtt_ms_, clears>> /\ first_seq_num_received_' \in BOOLEAN
    BY <1>2 DEF NotifyReceiverOfEmptyPacket, IInv, Typed
  <2>3. IInv'
    BY <2>1, <2>2, TakeKeeps
  <2>4. ASSUME ~Fec, Arrived
        PROVE  Arrived'
    <3>1. Passed(new, seq)
      BY <2>1, <2>4 DEF Arrived
    <3> QED
      BY <2>1, <2>4, <3>1, TakeArrives
  <2> QED
    BY <2>3, <2>4
<1>3. ASSUME NEW seq \in SeqNums, FrameDecoded(seq)
      PROVE  IInv' /\ (Arrived => Arrived')
  <2>1. clears' \in Seq(SeqNums) /\ Len(clears') <= MaxPosted
    BY <1>3, NackAssumption DEF FrameDecoded, IInv, Typed
  <2>2. rtt_ms_' \in DefaultRtt..MaxRtt
    BY <1>3 DEF FrameDecoded, IInv, Typed
  <2> QED
    BY <1>3, <2>1, <2>2, QuietKeeps DEF FrameDecoded
<1>4. ASSUME NEW rtt \in Rtts, UpdateRtt(rtt)
      PROVE  IInv' /\ (Arrived => Arrived')
  <2>1. clears' \in Seq(SeqNums) /\ Len(clears') <= MaxPosted
    BY <1>4 DEF UpdateRtt, IInv, Typed
  <2>2. rtt_ms_' \in DefaultRtt..MaxRtt
    BY <1>4, RttBound DEF UpdateRtt
  <2> QED
    BY <1>4, <2>1, <2>2, QuietKeeps DEF UpdateRtt
<1>5. CASE UNCHANGED vars
  <2>1. State' = State
    BY <1>5 DEF vars, lists, State
  <2>2. IInv'
    BY <1>5, <2>1 DEF vars, lists, IInv, Typed, NothingBefore, Counted, Listed
  <2>3. Arrived => Arrived'
    BY <1>5 DEF vars, lists, Arrived, Listed
  <2> QED
    BY <2>2, <2>3
<1> QED
  BY <1>1, <1>2, <1>3, <1>4, <1>5, ClearKeeps, ProcessKeeps DEF Next

LEMMA InvImplies ==
  ASSUME IInv
  PROVE  TypeOK /\ ListsBounded /\ \A s \in SeqNums : asked[s] <= MaxNackRetries
<1>1. TypeOK
  <2>1. \A s \in Listed : /\ s \in SeqNums
                          /\ nack_list_[s].retries \in 1..(MaxNackRetries - 1)
                          /\ nack_list_[s].age \in 0..MaxRtt
    BY ListedType DEF Entry
  <2>2. asked \in [SeqNums -> 0..(MaxNackRetries + 1)]
    <3>1. asked \in [SeqNums -> 0..MaxNackRetries]
      BY DEF IInv, Typed
    <3>2. 0..MaxNackRetries \subseteq 0..(MaxNackRetries + 1)
      BY Bounds
    <3> QED
      BY <3>1, <3>2
  <2>3. keyframe_list_ \subseteq SeqNums /\ recovered_list_ \subseteq SeqNums
    BY StateIs, ShapeType
  <2> QED
    BY <2>1, <2>2, <2>3, StateIs DEF TypeOK, IInv, Typed
<1>2. ListsBounded
  <2> DEFINE oldest == Minus(newest_seq_num_, MaxPacketAge)
  <2>1. oldest \in SeqNums /\ ForwardDiff(oldest, newest_seq_num_) = MaxPacketAge
    BY StateIs, MinusAt, Bounds, HalfFact
  <2> HIDE DEF oldest
  <2>2. Cardinality(Listed) <= MaxNackPackets
    BY StateIs DEF InWindow, NacksInWindow, Listed
  <2>3. \A s \in Listed : /\ AheadOf(newest_seq_num_, s)
                          /\ ForwardDiff(s, newest_seq_num_) <= MaxPacketAge
                          /\ ForwardDiff(oldest, s) < Half
    <3> SUFFICES ASSUME NEW s \in Listed
                 PROVE  /\ AheadOf(newest_seq_num_, s)
                        /\ ForwardDiff(s, newest_seq_num_) <= MaxPacketAge
                        /\ ForwardDiff(oldest, s) < Half
      OBVIOUS
    <3>1. s \in SeqNums /\ ForwardDiff(s, newest_seq_num_) \in 1..MaxPacketAge
      BY ListedType DEF Recent
    <3>2. /\ ForwardDiff(s, newest_seq_num_) <= MaxPacketAge
          /\ ForwardDiff(s, newest_seq_num_) < Half /\ ForwardDiff(s, newest_seq_num_) # 0
          /\ ForwardDiff(s, newest_seq_num_) \in Nat
      BY <3>1, Bounds, HalfFact
    <3>3. AheadOf(newest_seq_num_, s)
      BY <3>1, <3>2, StateIs, AheadWhen, DiffType
    <3>4. ForwardDiff(oldest, s) = MaxPacketAge - ForwardDiff(s, newest_seq_num_)
      BY <2>1, <3>1, <3>2, StateIs, DiffSubtractsEnd
    <3>5. ForwardDiff(oldest, s) < Half
      BY <3>2, <3>4, Bounds, HalfFact
    <3> QED
      BY <3>2, <3>3, <3>5
  <2>4. ForwardDiff(oldest, newest_seq_num_) < Half
    BY <2>1, Bounds, HalfFact
  <2> QED
    BY <2>1, <2>2, <2>3, <2>4 DEF ListsBounded, Ordered
<1> QED
  BY <1>1, <1>2, AskedType

\* The lists stay bounded and in an order their comparator can give them, over any
\* number of turns of the sequence numbers, and no packet is asked for too often:
\* also when FEC recovers packets, and whatever comes, is lost or is decoded when.
THEOREM NackListsAreBounded ==
  Spec => [](TypeOK /\ ListsBounded /\ \A s \in SeqNums : asked[s] <= MaxNackRetries)
<1>1. Init => IInv
  BY InitInv
<1>2. IInv /\ [Next]_vars => IInv'
  BY NextKeeps
<1>3. IInv => TypeOK /\ ListsBounded /\ \A s \in SeqNums : asked[s] <= MaxNackRetries
  BY InvImplies
<1> QED
  BY <1>1, <1>2, <1>3, PTL DEF Spec

\* Without FEC, moreover, nothing that has come is asked for.
THEOREM NothingAskedInVain ==
  ASSUME ~Fec
  PROVE  Spec => []NacksAreSound
<1>1. Init => IInv /\ Arrived
  BY InitInv
<1>2. IInv /\ Arrived /\ [Next]_vars => IInv' /\ Arrived'
  BY NextKeeps
<1>3. IInv /\ Arrived => NacksAreSound
  BY InvImplies DEF NacksAreSound, Arrived
<1> QED
  BY <1>1, <1>2, <1>3, PTL DEF Spec

\* Behind the feedback buffer the requester takes only its own steps.
LEMMA BufferUsesRequester == FeedbackSpec => Spec
<1>1. FeedbackInit => Init
  BY DEF FeedbackInit
<1>2. [FeedbackNext]_fvars => [Next]_vars
  <2> SUFFICES ASSUME [FeedbackNext]_fvars
               PROVE  [Next]_vars
    OBVIOUS
  <2>1. ASSUME NEW seq \in Stream, NEW is_keyframe \in BOOLEAN, NEW is_recovered \in BOOLEAN,
               NEW fate \in Fates, MediaPacket(seq, is_keyframe, is_recovered, fate)
        PROVE  Next
    <3>1. seq \in SeqNums
      BY FeedbackAssumption
    <3> QED
      BY <2>1, <3>1 DEF MediaPacket, Next
  <2>2. ASSUME NEW seq \in Stream, EmptyPacket(seq) \/ EmptyPayload(seq)
        PROVE  Next
    <3>1. seq \in SeqNums
      BY FeedbackAssumption
    <3> QED
      BY <2>2, <3>1 DEF EmptyPacket, EmptyPayload, Next
  <2>3. Periodic \/ Other => Next
    BY DEF Periodic, Other, Next
  <2>4. UNCHANGED fvars => UNCHANGED vars
    BY DEF fvars
  <2> QED
    BY <2>1, <2>2, <2>3, <2>4 DEF FeedbackNext
<1> QED
  BY <1>1, <1>2, PTL DEF FeedbackSpec, Spec

\* The same of the requester where it is used.
THEOREM FeedbackIsSound ==
  ASSUME ~Fec
  PROVE  FeedbackSpec => []NacksAreSound
BY BufferUsesRequester, NothingAskedInVain, PTL

-----------------------------------------------------------------------------
(* Each loss is mended.                                                    *)

\* A packet that is taken without a made-up one before it.
LEMMA TakeMends ==
  ASSUME IInv, Arrived, ~Fec, initialized_, NEW seq \in SeqNums, NEW new,
         Outcome(new, seq), Take(new, seq), Mended(new, seq)
  PROVE  NoGapIgnored /\ GivenUp
<1>1. /\ newest_seq_num_' = new.newest /\ nack_list_' = new.nack /\ keyframe_list_' = new.keys
      /\ batch' = new.batch /\ key_requested' = new.key_requested
      /\ got' = {s \in got \cup {seq} : InReach(new.newest, s)}
  BY DEF Take
<1>2. Asking(State, new, seq) /\ Leaving(State, new, seq) /\ Listing(State, new, seq)
  BY DEF Mended, Arrived
<1>3. NoGapIgnored
  BY <1>1, <1>2, StateIs DEF NoGapIgnored, Asking
<1>4. ASSUME NEW s \in Listed \ DOMAIN new.nack
      PROVE  \/ s \in got'
             \/ ForwardDiff(s, new.newest) > MaxPacketAge
             \/ new.key_requested
             \/ \E k \in new.keys : AheadOf(k, s)
  <2>1. CASE s = seq
    <3>1. new.newest = newest_seq_num_ \/ new.newest = seq
      BY <1>2, StateIs DEF Listing
    <3>2. ForwardDiff(seq, newest_seq_num_) \in 1..MaxPacketAge
      BY <2>1, ListedType DEF Recent
    <3>3. ForwardDiff(seq, seq) = 0
      BY DiffType
    <3>4. ForwardDiff(seq, new.newest) <= MaxPacketAge
      BY <3>1, <3>2, <3>3, Bounds
    <3> QED
      BY <1>1, <2>1, <3>4 DEF InReach
  <2>2. CASE s # seq
    BY <1>2, <2>2, StateIs DEF Leaving, Listed
  <2> QED
    BY <2>1, <2>2
<1>5. GivenUp
  BY <1>1, <1>4 DEF GivenUp
<1> QED
  BY <1>3, <1>5

LEMMA StepMends ==
  ASSUME IInv, Arrived, ~Fec, first_seq_num_received_, [Next]_vars
  PROVE  NoGapIgnored /\ GivenUp
<1>1. initialized_
  BY StateIs DEF IInv, NothingBefore
<1>2. ASSUME NEW seq \in SeqNums, NEW is_keyframe \in BOOLEAN, NEW is_recovered \in BOOLEAN,
             OnReceivedPayloadData(seq, is_keyframe, is_recovered)
      PROVE  NoGapIgnored /\ GivenUp
  <2>1. PICK new : Outcome(new, seq) /\ Take(new, seq) /\ Mended(new, seq)
    BY <1>2, PayloadTaken
  <2> QED
    BY <1>1, <2>1, TakeMends
<1>3. ASSUME NEW seq \in SeqNums, NotifyReceiverOfEmptyPacket(seq)
      PROVE  NoGapIgnored /\ GivenUp
  <2>1. PICK new : Outcome(new, seq) /\ Take(new, seq) /\ Mended(new, seq)
    BY <1>3, PaddingTaken
  <2> QED
    BY <1>1, <2>1, TakeMends
<1>4. ASSUME UNCHANGED nack_list_, UNCHANGED newest_seq_num_
      PROVE  NoGapIgnored /\ GivenUp
  BY <1>4 DEF NoGapIgnored, GivenUp, Listed
<1>5. CASE ClearUpTo
  <2>1. clears \in Seq(SeqNums) /\ clears # <<>> /\ clears' = Tail(clears)
    BY <1>5 DEF ClearUpTo, IInv, Typed
  <2>2. clears' # clears
    <3>1. Len(Tail(clears)) = Len(clears) - 1 /\ Len(clears) \in Nat
      BY <2>1
    <3>2. Len(Tail(clears)) # Len(clears)
      BY <3>1
    <3>3. Tail(clears) # clears
      BY <3>2, Zenon
    <3> QED
      BY <2>1, <3>3, Zenon
  <2> QED
    BY <1>5, <2>2 DEF ClearUpTo, NoGapIgnored, GivenUp
<1>6. CASE ProcessNacks
  <2>1. \A s \in Listed \ Listed' : asked'[s] >= MaxNackRetries
    BY <1>6, ProcessKeeps
  <2> QED
    BY <1>6, <2>1 DEF ProcessNacks, NoGapIgnored, GivenUp, Listed
<1>7. ASSUME (\E seq \in SeqNums : FrameDecoded(seq)) \/ (\E rtt \in Rtts : UpdateRtt(rtt))
             \/ UNCHANGED vars
      PROVE  UNCHANGED nack_list_ /\ UNCHANGED newest_seq_num_
  BY <1>7 DEF FrameDecoded, UpdateRtt, vars, lists
<1> QED
  BY <1>2, <1>3, <1>4, <1>5, <1>6, <1>7 DEF Next

\* After the first packet with payload every gap is asked for or mended by a key frame,
\* and no packet leaves the list in silence, over any number of turns.
THEOREM LossesAreMended ==
  ASSUME ~Fec
  PROVE  Spec => MissingIsAsked
<1>1. Init => IInv /\ Arrived
  BY InitInv
<1>2. IInv /\ Arrived /\ [Next]_vars => IInv' /\ Arrived'
  BY NextKeeps
<1>3. IInv /\ Arrived /\ [Next]_vars
        => [first_seq_num_received_ => NoGapIgnored /\ GivenUp]_vars
  BY StepMends
<1> QED
  BY <1>1, <1>2, <1>3, PTL DEF Spec, MissingIsAsked

\* The same behind the feedback buffer.
THEOREM FeedbackMends ==
  ASSUME ~Fec
  PROVE  FeedbackSpec => MissingIsAsked
BY BufferUsesRequester, LossesAreMended, PTL

=============================================================================
