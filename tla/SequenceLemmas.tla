--------------------------- MODULE SequenceLemmas ---------------------------
(***************************************************************************)
(* Facts about sequences, sets of their elements, enumerations of finite   *)
(* sets and sets of numbers that the proofs about the components share.    *)
(***************************************************************************)
EXTENDS Integers, SequencesExt, FiniteSetTheorems, SequenceTheorems, TLAPS

LEMMA ElementsOf ==
  ASSUME NEW S, NEW s \in Seq(S)
  PROVE  /\ ToSet(s) \subseteq S
         /\ IsFiniteSet(ToSet(s))
         /\ \A x : x \in ToSet(s) <=> \E i \in 1 .. Len(s) : s[i] = x
<1>1. s \in [1 .. Len(s) -> S] /\ Len(s) \in Nat
  OBVIOUS
<1>2. ToSet(s) = {s[i] : i \in 1 .. Len(s)}
  BY <1>1 DEF ToSet
<1>3. IsFiniteSet(1 .. Len(s))
  BY <1>1, FS_Interval
<1>4. s \in Surjection(1 .. Len(s), ToSet(s))
  BY <1>1, <1>2, Zenon DEF Surjection
<1>5. IsFiniteSet(ToSet(s))
  BY <1>3, <1>4, FS_Surjection
<1> QED BY <1>1, <1>2, <1>5

LEMMA ElementsOfTail ==
  ASSUME NEW S, NEW s \in Seq(S), s # <<>>
  PROVE  /\ Head(s) \in S /\ Head(s) \in ToSet(s)
         /\ Tail(s) \in Seq(S)
         /\ ToSet(Tail(s)) \subseteq ToSet(s)
         /\ ToSet(s) = {Head(s)} \cup ToSet(Tail(s))
<1>1. /\ Len(s) \in Nat \ {0}
      /\ Tail(s) \in Seq(S)
      /\ Len(Tail(s)) = Len(s) - 1
      /\ \A i \in 1 .. Len(Tail(s)) : Tail(s)[i] = s[i + 1]
      /\ Head(s) = s[1] /\ Head(s) \in S
  BY EmptySeq, HeadTailProperties
<1>2. \A x : x \in ToSet(Tail(s)) <=> \E i \in 1 .. Len(s) - 1 : s[i + 1] = x
  <2> DEFINE rest == Tail(s)
  <2>1. /\ rest \in Seq(S) /\ Len(rest) = Len(s) - 1
        /\ \A i \in 1 .. Len(rest) : rest[i] = s[i + 1]
    BY <1>1
  <2> HIDE DEF rest
  <2>2. \A x : x \in ToSet(rest) <=> \E i \in 1 .. Len(rest) : rest[i] = x
    BY <2>1, ElementsOf
  <2>3. \A x : x \in ToSet(rest) <=> \E i \in 1 .. Len(s) - 1 : s[i + 1] = x
    BY <2>1, <2>2
  <2> QED BY <2>3 DEF rest
<1>3. \A x : x \in ToSet(s) <=> \E i \in 1 .. Len(s) : s[i] = x
  BY ElementsOf
<1>4. \A i \in 1 .. Len(s) : i = 1 \/ i - 1 \in 1 .. Len(s) - 1
  BY <1>1
<1>5. \A x : x \in ToSet(s) <=> x = s[1] \/ x \in ToSet(Tail(s))
  <2> SUFFICES ASSUME NEW x PROVE x \in ToSet(s) <=> x = s[1] \/ x \in ToSet(Tail(s))
    OBVIOUS
  <2>1. ASSUME x \in ToSet(s), x # s[1] PROVE x \in ToSet(Tail(s))
    <3>1. PICK i \in 1 .. Len(s) : s[i] = x
      BY <2>1, <1>3
    <3>2. i - 1 \in 1 .. Len(s) - 1 /\ s[(i - 1) + 1] = x
      BY <3>1, <2>1, <1>1
    <3> QED BY <3>2, <1>2
  <2>2. x \in ToSet(Tail(s)) => x \in ToSet(s)
    BY <1>1, <1>2, <1>3
  <2>3. s[1] \in ToSet(s)
    BY <1>1, <1>3
  <2> QED BY <2>1, <2>2, <2>3
<1> QED BY <1>1, <1>5

LEMMA EmptyIs ==
  /\ \A S : <<>> \in Seq(S)
  /\ Len(<<>>) = 0 /\ ToSet(<<>>) = {} /\ IsInjective(<<>>)
<1>1. <<>> \in Seq({}) /\ Len(<<>>) = 0 /\ DOMAIN <<>> = {}
      /\ \A S : <<>> \in Seq(S)
  OBVIOUS
<1> PICK e : e = <<>>
  OBVIOUS
<1>2. ToSet(e) \subseteq {}
  BY <1>1, ElementsOf
<1>3. DOMAIN e = {}
  BY <1>1
<1>4. IsInjective(e)
  BY <1>3 DEF IsInjective
<1> QED BY <1>1, <1>2, <1>4

LEMMA AppendedSeq ==
  ASSUME NEW S, NEW s \in Seq(S), NEW e \in S
  PROVE  /\ Append(s, e) \in Seq(S)
         /\ Len(Append(s, e)) = Len(s) + 1
         /\ \A i \in 1 .. Len(s) : Append(s, e)[i] = s[i]
         /\ Append(s, e)[Len(s) + 1] = e
         /\ ToSet(Append(s, e)) = ToSet(s) \cup {e}
<1>1. /\ Append(s, e) \in Seq(S)
      /\ Len(Append(s, e)) = Len(s) + 1
      /\ \A i \in 1 .. Len(s) : Append(s, e)[i] = s[i]
      /\ Append(s, e)[Len(s) + 1] = e
      /\ Len(s) \in Nat
  OBVIOUS
<1>2. \A x : x \in ToSet(Append(s, e)) <=>
               \E i \in 1 .. Len(s) + 1 : Append(s, e)[i] = x
  <2> DEFINE longer == Append(s, e)
  <2>1. longer \in Seq(S) /\ Len(longer) = Len(s) + 1
    BY <1>1
  <2> HIDE DEF longer
  <2>2. \A x : x \in ToSet(longer) <=> \E i \in 1 .. Len(s) + 1 : longer[i] = x
    BY <2>1, ElementsOf
  <2> QED BY <2>2 DEF longer
<1>3. \A x : x \in ToSet(s) <=> \E i \in 1 .. Len(s) : s[i] = x
  BY ElementsOf
<1>4. \A x : x \in ToSet(Append(s, e)) <=> x \in ToSet(s) \/ x = e
  <2>1. 1 .. Len(s) + 1 = 1 .. Len(s) \cup {Len(s) + 1}
    BY <1>1
  <2> QED BY <1>1, <1>2, <1>3, <2>1
<1> QED BY <1>1, <1>4

\* An enumeration of a finite set is a sequence of its elements.
LEMMA EnumerationIsSeq ==
  ASSUME NEW S, IsFiniteSet(S), NEW s \in SetToSeqs(S)
  PROVE  s \in Seq(S) /\ ToSet(s) \subseteq S
<1>1. Cardinality(S) \in Nat
  BY FS_CardinalityType
<1>2. s \in [1 .. Cardinality(S) -> S]
  BY DEF SetToSeqs
<1>3. s \in Seq(S)
  BY <1>1, <1>2, SeqDef
<1> QED BY <1>3, ElementsOf

\* What is left of a sequence without repetitions has none and lacks the first.
LEMMA TailOfDistinct ==
  ASSUME NEW S, NEW s \in Seq(S), s # <<>>,
         \A i, j \in DOMAIN s : s[i] = s[j] => i = j
  PROVE  /\ Head(s) \notin ToSet(Tail(s))
         /\ \A i, j \in DOMAIN Tail(s) : Tail(s)[i] = Tail(s)[j] => i = j
<1>1. /\ Tail(s) \in Seq(S) /\ Len(Tail(s)) = Len(s) - 1 /\ Len(s) \in Nat
      /\ Len(s) > 0 /\ Head(s) = s[1] /\ DOMAIN s = 1 .. Len(s)
      /\ DOMAIN Tail(s) = 1 .. Len(s) - 1
      /\ \A i \in 1 .. Len(s) - 1 : Tail(s)[i] = s[i + 1]
  BY HeadTailProperties, EmptySeq
<1>2. \A i \in 1 .. Len(s) - 1 : s[i + 1] # s[1]
  BY <1>1
<1> QED BY <1>1, <1>2 DEF ToSet

Rank(S, i) == Cardinality({j \in S : j <= i})

\* The rank of a member is its place, and grows from member to member.
LEMMA RankIncreases ==
  ASSUME NEW S \in SUBSET Int, IsFiniteSet(S)
  PROVE  /\ Cardinality(S) \in Nat
         /\ \A i \in S : Rank(S, i) \in 1 .. Cardinality(S)
         /\ \A i, j \in S : i < j => Rank(S, i) < Rank(S, j)
<1> DEFINE Below(i) == {j \in S : j <= i}
<1>1. ASSUME NEW i \in S
      PROVE  /\ IsFiniteSet(Below(i)) /\ Cardinality(Below(i)) \in Nat
             /\ Cardinality(Below(i)) <= Cardinality(S)
             /\ Cardinality(Below(i)) # 0
  <2>1. Below(i) \in SUBSET S /\ i \in Below(i)
    BY <1>1
  <2> HIDE DEF Below
  <2>2. IsFiniteSet(Below(i)) /\ Cardinality(Below(i)) <= Cardinality(S)
    BY <2>1, FS_Subset
  <2> QED BY <2>1, <2>2, FS_CardinalityType, FS_EmptySet
<1>2. Cardinality(S) \in Nat
  BY FS_CardinalityType
<1>3. ASSUME NEW i \in S, NEW j \in S, i < j
      PROVE  Cardinality(Below(i)) < Cardinality(Below(j))
  <2>1. Below(i) \in SUBSET Below(j) /\ Below(i) # Below(j)
    <3>1. \A k \in S : k \in Int
      OBVIOUS
    <3>2. j \in Below(j) /\ j \notin Below(i)
      BY <1>3, <3>1
    <3>3. ASSUME NEW x \in S, x <= i PROVE x <= j
      <4>1. x \in Int /\ i \in Int /\ j \in Int
        BY <3>1
      <4> QED BY <4>1, <3>3, <1>3
    <3> QED BY <3>2, <3>3
  <2>2. IsFiniteSet(Below(j))
    BY <1>1
  <2> HIDE DEF Below
  <2>3. /\ Cardinality(Below(i)) <= Cardinality(Below(j))
        /\ Cardinality(Below(i)) # Cardinality(Below(j))
    BY <2>1, <2>2, FS_Subset
  <2> QED BY <1>1, <2>3
<1> QED BY <1>1, <1>2, <1>3 DEF Rank

\* A set of numbers up to L that is not empty has a least member.
LEMMA LeastElement ==
  ASSUME NEW L \in Nat, NEW S, S \subseteq 0 .. L, S # {}
  PROVE  \E m \in S : \A n \in S : m <= n
<1> DEFINE c == Cardinality(S)
           rank == [i \in S |-> Rank(S, i)]
<1>1. IsFiniteSet(S) /\ S \in SUBSET Int
  <2>1. IsFiniteSet(0 .. L)
    BY FS_Interval
  <2>2. S \in SUBSET (0 .. L) /\ 0 .. L \subseteq Int
    OBVIOUS
  <2>3. IsFiniteSet(S)
    BY <2>1, <2>2, FS_Subset
  <2> QED BY <2>2, <2>3
<1>2. /\ c \in Nat
      /\ \A i \in S : Rank(S, i) \in 1 .. c
      /\ \A i, j \in S : i < j => Rank(S, i) < Rank(S, j)
  BY <1>1, RankIncreases
<1>3. \A i, j \in S : Rank(S, i) = Rank(S, j) => i = j
  <2> SUFFICES ASSUME NEW i \in S, NEW j \in S, i # j
               PROVE  Rank(S, i) # Rank(S, j)
    OBVIOUS
  <2>1. i \in Int /\ j \in Int /\ (i < j \/ j < i)
    BY <1>1
  <2>2. Rank(S, i) \in Int /\ Rank(S, j) \in Int
    BY <1>2
  <2> QED BY <2>1, <2>2, <1>2
<1>4. \E i \in S : Rank(S, i) = 1
  <2>1. rank \in Injection(S, 1 .. c)
    BY <1>2, <1>3 DEF Injection, IsInjective
  <2>2. IsFiniteSet(1 .. c) /\ Cardinality(1 .. c) = c
    BY <1>2, FS_Interval
  <2>3. rank \in Surjection(S, 1 .. c)
    BY <1>1, <2>1, <2>2, FS_Injection
  <2>4. 1 \in 1 .. c
    <3>1. PICK i : i \in S
      OBVIOUS
    <3>2. Rank(S, i) \in 1 .. c
      BY <1>2, <3>1
    <3> QED BY <1>2, <3>2
  <2> QED BY <2>3, <2>4 DEF Surjection
<1>5. PICK m \in S : Rank(S, m) = 1
  BY <1>4
<1>6. ASSUME NEW n \in S PROVE m <= n
  <2>1. m \in Int /\ n \in Int /\ Rank(S, n) \in 1 .. c
    BY <1>1, <1>2
  <2>2. n < m => Rank(S, n) < 1
    BY <1>2, <1>5
  <2> QED BY <1>2, <2>1, <2>2
<1> QED BY <1>6
=============================================================================
