--------------------------- MODULE DistinctLemmas ---------------------------
(***************************************************************************)
(* What Ascending and DistinctValues return, for every finite set of       *)
(* integers and every sequence of instances.  Ascending(S) is the one      *)
(* increasing enumeration of S: what it does to the union of two sets      *)
(* follows from putting their enumerations one after the other.            *)
(***************************************************************************)
EXTENDS Distinct, SequenceLemmas

\* Ascending enumerates its set from the least member to the greatest.
LEMMA AscendingEnumerates ==
  ASSUME NEW S \in SUBSET Int, IsFiniteSet(S)
  PROVE  LET q == Ascending(S) IN
         /\ Cardinality(S) \in Nat
         /\ q \in [1 .. Cardinality(S) -> S]
         /\ \A m, n \in 1 .. Cardinality(S) : m < n => q[m] < q[n]
         /\ \A i \in S : \E n \in 1 .. Cardinality(S) : q[n] = i
<1> DEFINE c == Cardinality(S)
           q == Ascending(S)
           rank == [i \in S |-> Rank(S, i)]
<1>1. /\ c \in Nat
      /\ \A i \in S : Rank(S, i) \in 1 .. c
      /\ \A i, j \in S : i < j => Rank(S, i) < Rank(S, j)
  BY RankIncreases
<1>2. \A i, j \in S : Rank(S, i) = Rank(S, j) => i = j
  <2> SUFFICES ASSUME NEW i \in S, NEW j \in S, i # j
               PROVE  Rank(S, i) # Rank(S, j)
    OBVIOUS
  <2>1. i < j \/ j < i
    OBVIOUS
  <2>2. Rank(S, i) \in Int /\ Rank(S, j) \in Int
    BY <1>1
  <2> QED BY <2>1, <2>2, <1>1
<1>3. \A n \in 1 .. c : \E i \in S : Rank(S, i) = n
  <2>1. rank \in Injection(S, 1 .. c)
    BY <1>1, <1>2 DEF Injection, IsInjective
  <2>2. IsFiniteSet(1 .. c) /\ Cardinality(1 .. c) = c
    BY <1>1, FS_Interval
  <2>3. rank \in Surjection(S, 1 .. c)
    BY <2>1, <2>2, FS_Injection
  <2> QED BY <2>3 DEF Surjection
<1>4. q = [n \in 1 .. c |-> CHOOSE i \in S : Rank(S, i) = n]
  BY DEF Ascending, Rank
<1> HIDE DEF c, q
<1>5. \A n \in 1 .. c : q[n] \in S /\ Rank(S, q[n]) = n
  BY <1>3, <1>4
<1>6. ASSUME NEW m \in 1 .. c, NEW n \in 1 .. c, m < n PROVE q[m] < q[n]
  <2>1. q[m] \in S /\ q[n] \in S /\ Rank(S, q[m]) = m /\ Rank(S, q[n]) = n
    BY <1>5
  <2>2. q[m] \in Int /\ q[n] \in Int
    BY <2>1
  <2>3. q[n] < q[m] => n < m
    BY <1>1, <2>1
  <2>4. q[m] # q[n]
    BY <2>1, <1>6
  <2> QED BY <1>6, <2>2, <2>3, <2>4
<1>7. ASSUME NEW i \in S PROVE \E n \in 1 .. c : q[n] = i
  BY <1>1, <1>2, <1>5
<1> QED BY <1>1, <1>4, <1>5, <1>6, <1>7 DEF c, q

\* A sequence of integers that grows at each place grows throughout; and it is
\* the only one with these members.
LEMMA AscendingUnique ==
  ASSUME NEW S \in SUBSET Int, NEW n \in Nat, NEW q \in [1 .. n -> S],
         \A k, m \in 1 .. n : k < m => q[k] < q[m],
         \A i \in S : \E k \in 1 .. n : q[k] = i
  PROVE  /\ IsFiniteSet(S)
         /\ Cardinality(S) = n
         /\ Ascending(S) = q
<1>0. \A k \in 1 .. n : q[k] \in Int
  OBVIOUS
<1>1. \A k, m \in 1 .. n : q[k] <= q[m] => k <= m
  <2> SUFFICES ASSUME NEW k \in 1 .. n, NEW m \in 1 .. n, m < k
               PROVE  ~(q[k] <= q[m])
    OBVIOUS
  <2>1. q[m] < q[k] /\ q[m] \in Int /\ q[k] \in Int
    OBVIOUS
  <2> QED BY <2>1
<1>2. \A k, m \in 1 .. n : q[k] = q[m] => k = m
  <2> SUFFICES ASSUME NEW k \in 1 .. n, NEW m \in 1 .. n, q[k] = q[m]
               PROVE  k = m
    OBVIOUS
  <2>1. q[k] \in Int /\ q[m] \in Int
    OBVIOUS
  <2>2. q[k] <= q[m] /\ q[m] <= q[k]
    BY <2>1
  <2> QED BY <2>2, <1>1
<1>3. IsFiniteSet(S) /\ Cardinality(S) = n
  <2>1. IsFiniteSet(1 .. n) /\ Cardinality(1 .. n) = n
    BY FS_Interval
  <2>2. q \in Bijection(1 .. n, S)
    BY <1>2 DEF Bijection, Injection, Surjection, IsInjective
  <2> QED BY <2>1, <2>2, FS_Bijection DEF ExistsBijection
<1>4. ASSUME NEW k \in 1 .. n PROVE Rank(S, q[k]) = k
  <2> DEFINE T == {j \in S : j <= q[k]}
             f == [m \in 1 .. k |-> q[m]]
  <2>1. \A m \in 1 .. k : q[m] \in T
    <3> SUFFICES ASSUME NEW m \in 1 .. k PROVE q[m] <= q[k]
      OBVIOUS
    <3>1. m \in 1 .. n /\ (m = k \/ m < k)
      OBVIOUS
    <3>2. m = k \/ q[m] < q[k]
      BY <3>1
    <3>3. q[m] \in Int /\ q[k] \in Int
      BY <3>1, <1>0
    <3> QED BY <3>2, <3>3
  <2>2. \A j \in T : \E m \in 1 .. k : q[m] = j
    <3> SUFFICES ASSUME NEW j \in T PROVE \E m \in 1 .. k : q[m] = j
      OBVIOUS
    <3>1. PICK m \in 1 .. n : q[m] = j
      OBVIOUS
    <3>2. m <= k
      BY <3>1, <1>1
    <3> QED BY <3>1, <3>2
  <2>3. f \in [1 .. k -> T] /\ \A m \in 1 .. k : f[m] = q[m]
    BY <2>1
  <2>4. 1 .. k \subseteq 1 .. n
    OBVIOUS
  <2> HIDE DEF T, f
  <2>5. f \in Bijection(1 .. k, T)
    BY <1>2, <2>2, <2>3, <2>4 DEF Bijection, Injection, Surjection, IsInjective
  <2>6. IsFiniteSet(1 .. k) /\ Cardinality(1 .. k) = k
    BY FS_Interval
  <2>7. Cardinality(T) = k
    BY <2>5, <2>6, FS_Bijection DEF ExistsBijection
  <2> QED BY <2>7 DEF T, Rank
<1>5. ASSUME NEW k \in 1 .. n
      PROVE  (CHOOSE i \in S : Rank(S, i) = k) = q[k]
  <2>1. \A i \in S : Rank(S, i) = k => i = q[k]
    <3> SUFFICES ASSUME NEW i \in S, Rank(S, i) = k PROVE i = q[k]
      OBVIOUS
    <3>1. PICK m \in 1 .. n : q[m] = i
      OBVIOUS
    <3> QED BY <3>1, <1>4
  <2>2. q[k] \in S /\ Rank(S, q[k]) = k
    BY <1>4
  <2> QED BY <2>1, <2>2
<1>6. Ascending(S) = [k \in 1 .. n |-> CHOOSE i \in S : Rank(S, i) = k]
  BY <1>3 DEF Ascending, Rank
<1> QED BY <1>3, <1>5, <1>6

\* The first n instances, and some of them.
LEMMA SomeInstances ==
  ASSUME NEW n \in Nat, NEW S \in SUBSET (1 .. n)
  PROVE  /\ IsFiniteSet(S)
         /\ S \in SUBSET Int
         /\ \A x \in S : x \in Int /\ 1 <= x /\ x <= n
<1>1. \A x \in S : x \in 1 .. n
  OBVIOUS
<1>2. IsFiniteSet(1 .. n)
  BY FS_Interval
<1>3. IsFiniteSet(S)
  BY <1>2, FS_Subset
<1> QED BY <1>1, <1>3

Shifted(B, m) == {m + k : k \in B}

\* The enumeration of A with, beyond it, the members of B moved up by m is that
\* of A followed by that of B, moved up.
Joined(A, B, m) ==
  LET a  == Ascending(A)
      b  == Ascending(B)
      ca == Cardinality(A)
      cb == Cardinality(B)
      S  == A \cup Shifted(B, m)
      q  == Ascending(S)
  IN  /\ ca \in Nat /\ cb \in Nat
      /\ a \in [1 .. ca -> A]
      /\ b \in [1 .. cb -> B]
      /\ Cardinality(S) = ca + cb
      /\ q \in [1 .. ca + cb -> S]
      /\ \A n \in 1 .. ca + cb : q[n] = IF n <= ca THEN a[n] ELSE m + b[n - ca]

\* Ascending of a set and of one beyond it.
LEMMA AscendingAppend ==
  ASSUME NEW m \in Nat, NEW A \in SUBSET (1 .. m),
         NEW d \in Nat, NEW B \in SUBSET (1 .. d)
  PROVE  Joined(A, B, m)
<1> DEFINE a == Ascending(A)
           b == Ascending(B)
           ca == Cardinality(A)
           cb == Cardinality(B)
           S == A \cup Shifted(B, m)
           q == [n \in 1 .. ca + cb |-> IF n <= ca THEN a[n] ELSE m + b[n - ca]]
<1>1. /\ IsFiniteSet(A) /\ A \in SUBSET Int
      /\ IsFiniteSet(B) /\ B \in SUBSET Int
      /\ \A x \in A : x \in Int /\ x <= m
      /\ \A x \in B : x \in Int /\ x >= 1
  <2>1. IsFiniteSet(A) /\ A \in SUBSET Int /\ \A x \in A : x \in Int /\ x <= m
    BY SomeInstances
  <2>2. IsFiniteSet(B) /\ B \in SUBSET Int /\ \A x \in B : x \in Int /\ 1 <= x
    BY SomeInstances
  <2> QED BY <2>1, <2>2
<1>2. /\ ca \in Nat /\ a \in [1 .. ca -> A]
      /\ \A k, n \in 1 .. ca : k < n => a[k] < a[n]
      /\ \A i \in A : \E n \in 1 .. ca : a[n] = i
  BY <1>1, AscendingEnumerates
<1>3. /\ cb \in Nat /\ b \in [1 .. cb -> B]
      /\ \A k, n \in 1 .. cb : k < n => b[k] < b[n]
      /\ \A i \in B : \E n \in 1 .. cb : b[n] = i
  BY <1>1, AscendingEnumerates
<1> USE DEF Shifted
<1>4. S \in SUBSET Int
  <2>1. \A k \in B : m + k \in Int
    BY <1>1
  <2> QED BY <1>1, <2>1
<1> HIDE DEF a, b, ca, cb
<1>5. \A n \in 1 .. ca : a[n] \in A /\ a[n] \in Int /\ a[n] <= m
  BY <1>1, <1>2
<1>6. \A n \in 1 .. cb : b[n] \in B /\ b[n] \in Int /\ b[n] >= 1
  BY <1>1, <1>3
<1>7. ASSUME NEW n \in 1 .. ca + cb
      PROVE  \/ n \in 1 .. ca /\ q[n] = a[n]
             \/ n - ca \in 1 .. cb /\ ~(n <= ca) /\ q[n] = m + b[n - ca]
  BY <1>2, <1>3
<1>8. q \in [1 .. ca + cb -> S]
  BY <1>5, <1>6, <1>7
<1>9. ASSUME NEW k \in 1 .. ca + cb, NEW n \in 1 .. ca + cb, k < n
      PROVE  q[k] < q[n]
  <2>1. CASE n <= ca
    <3>1. k \in 1 .. ca /\ n \in 1 .. ca /\ q[k] = a[k] /\ q[n] = a[n]
      BY <1>2, <1>9, <2>1
    <3> QED BY <3>1, <1>2, <1>9
  <2>2. CASE ~(n <= ca) /\ k <= ca
    <3>1. /\ k \in 1 .. ca /\ q[k] = a[k]
          /\ n - ca \in 1 .. cb /\ q[n] = m + b[n - ca]
      BY <1>2, <1>3, <2>2
    <3> QED BY <3>1, <1>5, <1>6
  <2>3. CASE ~(n <= ca) /\ ~(k <= ca)
    <3>1. /\ k - ca \in 1 .. cb /\ q[k] = m + b[k - ca]
          /\ n - ca \in 1 .. cb /\ q[n] = m + b[n - ca]
          /\ k - ca < n - ca
      BY <1>2, <1>3, <1>9, <2>3
    <3>2. b[k - ca] < b[n - ca] /\ b[k - ca] \in Int /\ b[n - ca] \in Int
      BY <3>1, <1>3, <1>6
    <3> QED BY <3>1, <3>2
  <2> QED BY <2>1, <2>2, <2>3
<1>10. ASSUME NEW i \in S PROVE \E n \in 1 .. ca + cb : q[n] = i
  <2>1. CASE i \in A
    <3>1. PICK n \in 1 .. ca : a[n] = i
      BY <2>1, <1>2
    <3>2. n \in 1 .. ca + cb /\ q[n] = i
      BY <3>1, <1>2, <1>3
    <3> QED BY <3>2
  <2>2. CASE i \notin A
    <3>1. PICK k \in B : i = m + k
      BY <2>2
    <3>2. PICK n \in 1 .. cb : b[n] = k
      BY <3>1, <1>3
    <3>3. ca + n \in 1 .. ca + cb /\ ~(ca + n <= ca) /\ (ca + n) - ca = n
      BY <1>2, <1>3
    <3>4. q[ca + n] = i
      BY <3>1, <3>2, <3>3
    <3> QED BY <3>3, <3>4
  <2> QED BY <2>1, <2>2
<1>11. ca + cb \in Nat
  BY <1>2, <1>3
<1> DEFINE c == ca + cb
<1>13. /\ c \in Nat /\ q \in [1 .. c -> S]
       /\ \A k, n \in 1 .. c : k < n => q[k] < q[n]
       /\ \A i \in S : \E n \in 1 .. c : q[n] = i
  BY <1>8, <1>9, <1>10, <1>11
<1> HIDE DEF S, q, c
<1>14. Cardinality(S) = c /\ Ascending(S) = q
  BY <1>4, <1>13, AscendingUnique
<1>12. Cardinality(S) = ca + cb /\ Ascending(S) = q
  BY <1>14 DEF c
<1>15. q \in [1 .. ca + cb -> S]
       /\ \A n \in 1 .. ca + cb : q[n] = IF n <= ca THEN a[n] ELSE m + b[n - ca]
  BY <1>8 DEF q
<1> HIDE DEF Shifted
<1> QED BY <1>2, <1>3, <1>12, <1>15 DEF a, b, ca, cb, S, Joined

-----------------------------------------------------------------------------
(* The values of instances.                                                *)

\* The values of no instance.
LEMMA DistinctValuesNone ==
  ASSUME NEW val
  PROVE  DistinctValues(val, 0) = <<>>
<1>1. Firsts(val, 0) = {}
  BY DEF Firsts
<1>2. Cardinality({}) = 0
  BY FS_EmptySet
<1>3. DOMAIN Ascending({}) = 1 .. 0
  BY <1>2 DEF Ascending
<1>4. 1 .. 0 = {}
  OBVIOUS
<1>5. DistinctValues(val, 0) = [k \in {} |-> val[Ascending({})[k]]]
  BY <1>1, <1>3, <1>4 DEF DistinctValues
<1> QED BY <1>5

\* Only the values of the first n instances count.
LEMMA DistinctValuesSame ==
  ASSUME NEW n \in Nat, NEW val, NEW w, \A i \in 1 .. n : val[i] = w[i]
  PROVE  DistinctValues(val, n) = DistinctValues(w, n)
<1>1. Firsts(val, n) = Firsts(w, n)
  BY DEF Firsts
<1> DEFINE F == Firsts(w, n)
           places == Ascending(F)
<1>2. F \in SUBSET (1 .. n)
  BY DEF Firsts
<1>3. IsFiniteSet(F) /\ F \in SUBSET Int
  BY <1>2, FS_Interval, FS_Subset
<1> HIDE DEF F
<1>4. places \in [1 .. Cardinality(F) -> F]
  BY <1>3, AscendingEnumerates
<1> HIDE DEF places
<1>5. \A k \in DOMAIN places : val[places[k]] = w[places[k]]
  BY <1>2, <1>4
<1>6. /\ DistinctValues(val, n) = [k \in DOMAIN places |-> val[places[k]]]
      /\ DistinctValues(w, n) = [k \in DOMAIN places |-> w[places[k]]]
  BY <1>1 DEF DistinctValues, places, F
<1> QED BY <1>5, <1>6

\* DistinctValues returns a sequence with the values of the first n instances,
\* all of them and no others.
LEMMA DistinctValuesHas ==
  ASSUME NEW n \in Nat, NEW V, NEW val, \A i \in 1 .. n : val[i] \in V
  PROVE  /\ DistinctValues(val, n) \in Seq(V)
         /\ Len(DistinctValues(val, n)) = Cardinality(Firsts(val, n))
         /\ \A v : v \in ToSet(DistinctValues(val, n))
                     <=> \E i \in 1 .. n : val[i] = v
<1> DEFINE F == Firsts(val, n)
           places == Ascending(F)
           c == Cardinality(F)
           s == DistinctValues(val, n)
<1>1. F \in SUBSET (1 .. n)
  BY DEF Firsts
<1>2. IsFiniteSet(F) /\ F \in SUBSET Int
  BY <1>1, FS_Interval, FS_Subset
<1>3. s = [k \in DOMAIN places |-> val[places[k]]]
  BY DEF DistinctValues
<1>4. \A i \in 1 .. n : i \in F <=> \A j \in 1 .. i - 1 : val[j] # val[i]
  BY DEF Firsts
<1> HIDE DEF F, s
<1>5. /\ c \in Nat /\ places \in [1 .. c -> F]
      /\ \A i \in F : \E k \in 1 .. c : places[k] = i
  BY <1>2, AscendingEnumerates
<1> HIDE DEF c, places
<1>6. s = [k \in 1 .. c |-> val[places[k]]] /\ \A k \in 1 .. c : places[k] \in 1 .. n
  BY <1>1, <1>3, <1>5
<1>7. s \in Seq(V) /\ Len(s) = c
  BY <1>5, <1>6
<1>8. \A i \in 1 .. n : \E f \in F : val[f] = val[i]
  <2> SUFFICES ASSUME NEW i \in 1 .. n PROVE \E f \in F : val[f] = val[i]
    OBVIOUS
  <2> DEFINE T == {j \in 1 .. n : val[j] = val[i]}
             t == Ascending(T)
             ct == Cardinality(T)
  <2>1. IsFiniteSet(T) /\ T \in SUBSET Int
    <3>1. T \in SUBSET (1 .. n)
      OBVIOUS
    <3> HIDE DEF T
    <3> QED BY <3>1, SomeInstances
  <2>2. /\ i \in T /\ T \subseteq 1 .. n
        /\ \A j \in 1 .. n : j \in T <=> val[j] = val[i]
    OBVIOUS
  <2> HIDE DEF T
  <2>3. /\ ct \in Nat /\ t \in [1 .. ct -> T]
        /\ \A k, m \in 1 .. ct : k < m => t[k] < t[m]
        /\ \A j \in T : \E k \in 1 .. ct : t[k] = j
    BY <2>1, AscendingEnumerates
  <2> HIDE DEF t, ct
  <2>4. 1 \in 1 .. ct
    BY <2>2, <2>3
  <2>5. t[1] \in T /\ t[1] \in 1 .. n
    BY <2>2, <2>3, <2>4
  <2>6. ASSUME NEW j \in T PROVE t[1] <= j
    <3>1. PICK k \in 1 .. ct : t[k] = j
      BY <2>3
    <3>2. k = 1 \/ 1 < k
      OBVIOUS
    <3>3. t[1] = j \/ t[1] < j
      BY <2>3, <2>4, <3>1, <3>2
    <3> QED BY <3>3, <2>2, <2>5
  <2>7. ASSUME NEW j \in 1 .. t[1] - 1 PROVE val[j] # val[t[1]]
    <3>1. j \in 1 .. n /\ ~(t[1] <= j)
      BY <2>5
    <3> QED BY <2>2, <2>5, <2>6, <3>1
  <2> QED BY <1>4, <2>2, <2>5, <2>7
<1>9. \A v : v \in ToSet(s) <=> \E k \in 1 .. c : val[places[k]] = v
  <2>1. \A v : v \in ToSet(s) <=> \E k \in 1 .. Len(s) : s[k] = v
    BY <1>7, ElementsOf
  <2> QED BY <1>6, <1>7, <2>1
<1>10. \A v : v \in ToSet(s) <=> \E i \in 1 .. n : val[i] = v
  <2> SUFFICES ASSUME NEW v
               PROVE  (\E k \in 1 .. c : val[places[k]] = v)
                        <=> \E i \in 1 .. n : val[i] = v
    BY <1>9
  <2>1. ASSUME NEW i \in 1 .. n, val[i] = v PROVE \E k \in 1 .. c : val[places[k]] = v
    BY <2>1, <1>5, <1>8
  <2> QED BY <1>6, <2>1
<1> QED BY <1>7, <1>10 DEF c, F, s

\* Those of the d instances after the first m whose value is new, and the values.
NewAfter(val, m, d) ==
  {k \in 1 .. d : \A j \in 1 .. m + k - 1 : val[j] # val[m + k]}

NewValues(val, m, d) ==
  LET new == Ascending(NewAfter(val, m, d))
  IN  [n \in DOMAIN new |-> val[m + new[n]]]

\* The values of m + d instances are those of the first m, followed by those of
\* the next d that are new, in order.
LEMMA DistinctValuesAppend ==
  ASSUME NEW m \in Nat, NEW d \in Nat, NEW V, NEW val,
         \A i \in 1 .. m + d : val[i] \in V
  PROVE  /\ NewValues(val, m, d) \in Seq(V)
         /\ DistinctValues(val, m + d)
              = DistinctValues(val, m) \o NewValues(val, m, d)
<1> DEFINE A == Firsts(val, m)
           B == NewAfter(val, m, d)
           S == A \cup Shifted(B, m)
           a == Ascending(A)
           b == Ascending(B)
           ca == Cardinality(A)
           cb == Cardinality(B)
           q == Ascending(S)
           seq == NewValues(val, m, d)
           one == DistinctValues(val, m)
           both == DistinctValues(val, m + d)
<1>1. A \in SUBSET (1 .. m) /\ B \in SUBSET (1 .. d)
  BY DEF Firsts, NewAfter
<1>2. Firsts(val, m + d) = S
  <2> USE DEF Shifted, NewAfter
  <2>1. ASSUME NEW i \in S PROVE i \in Firsts(val, m + d)
    <3>1. CASE i \in A
      BY <3>1 DEF Firsts
    <3>2. CASE \E k \in B : i = m + k
      BY <3>2 DEF Firsts
    <3> QED BY <3>1, <3>2
  <2>2. ASSUME NEW i \in Firsts(val, m + d), i \notin A
        PROVE  \E k \in B : i = m + k
    <3>1. i \in 1 .. m + d /\ ~(i <= m) /\ \A j \in 1 .. i - 1 : val[j] # val[i]
      BY <2>2 DEF Firsts
    <3>2. i - m \in 1 .. d /\ m + (i - m) = i
      BY <3>1
    <3>3. i - m \in B
      BY <3>1, <3>2
    <3> QED BY <3>2, <3>3
  <2> QED BY <2>1, <2>2
<1>3. both = [k \in DOMAIN q |-> val[q[k]]] /\ one = [k \in DOMAIN a |-> val[a[k]]]
  BY <1>2 DEF DistinctValues
<1>4. seq = [n \in DOMAIN b |-> val[m + b[n]]]
  BY DEF NewValues
<1> HIDE DEF A, B, seq, one, both
<1>5. /\ ca \in Nat /\ cb \in Nat
      /\ a \in [1 .. ca -> A]
      /\ b \in [1 .. cb -> B]
      /\ q \in [1 .. ca + cb -> S]
      /\ \A n \in 1 .. ca + cb : q[n] = IF n <= ca THEN a[n] ELSE m + b[n - ca]
  <2>1. Joined(A, B, m)
    BY <1>1, AscendingAppend
  <2> QED BY <2>1, Zenon DEF Joined
<1> HIDE DEF a, b, ca, cb, q
<1>6. \A n \in 1 .. cb : m + b[n] \in 1 .. m + d
  <2> SUFFICES ASSUME NEW n \in 1 .. cb PROVE m + b[n] \in 1 .. m + d
    OBVIOUS
  <2>1. b[n] \in 1 .. d
    BY <1>1, <1>5
  <2> QED BY <2>1
<1>7. \A n \in 1 .. ca : a[n] \in 1 .. m
  BY <1>1, <1>5
<1>8. seq = [n \in 1 .. cb |-> val[m + b[n]]] /\ one = [n \in 1 .. ca |-> val[a[n]]]
  BY <1>3, <1>4, <1>5
<1>9. seq \in Seq(V) /\ Len(seq) = cb
  BY <1>5, <1>6, <1>8
<1>10. one \in Seq(V) /\ Len(one) = ca
  <2>1. \A n \in 1 .. ca : val[a[n]] \in V
    BY <1>7
  <2> QED BY <1>5, <1>8, <2>1
<1>11. /\ one \o seq \in Seq(V) /\ Len(one \o seq) = ca + cb
       /\ \A n \in 1 .. ca + cb :
            (one \o seq)[n] = IF n <= ca THEN one[n] ELSE seq[n - ca]
  BY <1>9, <1>10, ConcatProperties
<1>12. both = [n \in 1 .. ca + cb |-> val[q[n]]]
  BY <1>3, <1>5
<1>13. \A n \in 1 .. ca + cb : val[q[n]] = (one \o seq)[n]
  <2> SUFFICES ASSUME NEW n \in 1 .. ca + cb PROVE val[q[n]] = (one \o seq)[n]
    OBVIOUS
  <2>1. CASE n <= ca
    BY <2>1, <1>5, <1>8, <1>11
  <2>2. CASE ~(n <= ca)
    <3>1. n - ca \in 1 .. cb
      BY <2>2, <1>5
    <3> QED BY <2>2, <3>1, <1>5, <1>8, <1>11
  <2> QED BY <2>1, <2>2
<1> DEFINE both2 == one \o seq
<1>14. \A n \in 1 .. ca + cb : both2[n] \in V /\ both[n] = both2[n]
  BY <1>11, <1>12, <1>13
<1>15. both2 \in Seq(V) /\ Len(both2) = ca + cb
  BY <1>11
<1> HIDE DEF both2
<1>16. both \in Seq(V) /\ Len(both) = ca + cb
  <2> DEFINE c == ca + cb
  <2>1. c \in Nat /\ both = [n \in 1 .. c |-> val[q[n]]]
    BY <1>5, <1>12
  <2>2. \A n \in 1 .. c : both[n] \in V
    BY <1>14
  <2> HIDE DEF c
  <2>3. both \in [1 .. c -> V]
    BY <2>1, <2>2
  <2>4. both \in Seq(V) /\ Len(both) = c
    BY <2>1, <2>3
  <2> QED BY <2>4 DEF c
<1>17. both = both2
  BY <1>14, <1>15, <1>16, SeqEqual
<1> QED BY <1>9, <1>17 DEF B, b, seq, one, both, both2

=============================================================================
