---------------------------- MODULE AgencyProofs ----------------------------
(***************************************************************************)
(* Proofs about agency servers and their storage servers: the types, the   *)
(* server that is called for a user, and the seats that the list of a      *)
(* user stands for, for any numbers of servers, users, flights and         *)
(* requests.                                                               *)
(***************************************************************************)
EXTENDS Agency, SequenceLemmas

USE RingAssumption, AgencyAssumption, AsksAssumption

-----------------------------------------------------------------------------
(* The nearest server.                                                     *)

\* The places in nodes that the search may return.
Counting(nodes, key) ==
  LET large == {i \in DOMAIN nodes : NodeID[nodes[i]] >= key}
  IN IF large = {} THEN DOMAIN nodes ELSE large

FirstFound(nodes, key) ==
  LET large == {i \in DOMAIN nodes : NodeID[nodes[i]] >= key}
  IN IF large = {} THEN 1 ELSE Max(large)

\* f gives the places found while nodes 1 to m are looked at.
Searches(f, nodes, key, m) ==
  f = [i \in 0 .. m |->
         IF i = 0 THEN FirstFound(nodes, key)
         ELSE IF i \in Counting(nodes, key)
                 /\ NodeID[nodes[i]] < NodeID[nodes[f[i - 1]]] THEN i
         ELSE f[i - 1]]

LEMMA SearchExists ==
  ASSUME NEW nodes, NEW key, NEW L \in Nat
  PROVE  \E f : Searches(f, nodes, key, L)
<1> DEFINE Lacks(m) == ~\E f : Searches(f, nodes, key, m)
           Missing == {m \in 0 .. L : Lacks(m)}
           Found(x, i) == IF i \in Counting(nodes, key)
                             /\ NodeID[nodes[i]] < NodeID[nodes[x]] THEN i
                          ELSE x
           d == FirstFound(nodes, key)
<1>0. \A f, m : Searches(f, nodes, key, m) <=>
                f = [i \in 0 .. m |-> IF i = 0 THEN d ELSE Found(f[i - 1], i)]
  BY Zenon DEF Searches
<1> HIDE DEF Found, d
<1>1. SUFFICES ASSUME Lacks(L) PROVE FALSE
  OBVIOUS
<1> HIDE DEF Lacks
<1>2. PICK m \in Missing : \A n \in Missing : m <= n
  <2>1. Missing \subseteq 0 .. L /\ Missing # {}
    BY <1>1
  <2> HIDE DEF Missing
  <2> QED BY <2>1, LeastElement
<1>3. m \in 0 .. L /\ Lacks(m)
  BY <1>2
<1>4. m # 0
  <2>1. SUFFICES ASSUME m = 0 PROVE FALSE
    OBVIOUS
  <2> DEFINE f == [i \in 0 .. 0 |-> d]
  <2>2. f = [i \in 0 .. 0 |-> IF i = 0 THEN d ELSE Found(f[i - 1], i)]
    OBVIOUS
  <2> HIDE DEF f
  <2>3. Searches(f, nodes, key, 0)
    BY <1>0, <2>2, Zenon
  <2> QED BY <1>3, <2>1, <2>3 DEF Lacks
<1>5. m - 1 \notin Missing /\ m - 1 \in 0 .. L
  BY <1>2, <1>3, <1>4
<1>6. PICK g : Searches(g, nodes, key, m - 1)
  BY <1>5 DEF Lacks
<1> DEFINE f == [i \in 0 .. m |-> IF i = m THEN Found(g[m - 1], m) ELSE g[i]]
<1>7. \A i \in 0 .. m : f[i] = IF i = 0 THEN d ELSE Found(f[i - 1], i)
  <2>1. \A i \in 0 .. m - 1 : g[i] = IF i = 0 THEN d ELSE Found(g[i - 1], i)
    <3>1. g = [i \in 0 .. m - 1 |-> IF i = 0 THEN d ELSE Found(g[i - 1], i)]
      BY <1>0, <1>6, Zenon
    <3> QED BY <3>1
  <2>2. \A i \in 0 .. m - 1 : f[i] = g[i]
    BY <1>3
  <2>3. f[m] = Found(g[m - 1], m)
    BY <1>3
  <2> HIDE DEF f
  <2> TAKE i \in 0 .. m
  <2>4. CASE i = m
    BY <1>3, <1>4, <2>2, <2>3, <2>4
  <2>5. CASE i = 0
    BY <1>3, <1>4, <2>1, <2>2, <2>5
  <2>6. CASE i # m /\ i # 0
    <3>1. i \in 0 .. m - 1 /\ i - 1 \in 0 .. m - 1
      BY <1>3, <2>6
    <3> QED BY <2>1, <2>2, <2>6, <3>1
  <2> QED BY <2>4, <2>5, <2>6
<1>8. f = [i \in 0 .. m |-> IF i = 0 THEN d ELSE Found(f[i - 1], i)]
  BY <1>7
<1> HIDE DEF f
<1>9. Searches(f, nodes, key, m)
  BY <1>0, <1>8, Zenon
<1> QED BY <1>3, <1>9 DEF Lacks

LEMMA LookupSearches ==
  ASSUME NEW nodes, NEW key, Len(nodes) \in Nat
  PROVE  \E f : /\ Searches(f, nodes, key, Len(nodes))
                /\ Lookup(nodes, key) = nodes[f[Len(nodes)]]
<1>1. \E f : Searches(f, nodes, key, Len(nodes))
  BY SearchExists
<1> DEFINE large == {i \in DOMAIN nodes : NodeID[nodes[i]] >= key}
           S(f) == f = [i \in 0 .. Len(nodes) |->
              IF i = 0 THEN IF large = {} THEN 1 ELSE Max(large)
              ELSE IF (i \in large \/ large = {})
                      /\ NodeID[nodes[i]] < NodeID[nodes[f[i - 1]]] THEN i
              ELSE f[i - 1]]
<1>2. Lookup(nodes, key) = nodes[(CHOOSE f : S(f))[Len(nodes)]]
  BY Zenon DEF Lookup
<1>3. ASSUME NEW f PROVE S(f) <=> Searches(f, nodes, key, Len(nodes))
  <2>1. \A i \in 0 .. Len(nodes) :
          i # 0 => (i \in Counting(nodes, key) <=> i \in large \/ large = {})
    <3>1. CASE large = {}
      BY <3>1 DEF Counting
    <3>2. CASE large # {}
      BY <3>2 DEF Counting
    <3> QED BY <3>1, <3>2
  <2>2. FirstFound(nodes, key) = IF large = {} THEN 1 ELSE Max(large)
    BY DEF FirstFound
  <2> HIDE DEF large
  <2>3. [i \in 0 .. Len(nodes) |->
              IF i = 0 THEN IF large = {} THEN 1 ELSE Max(large)
              ELSE IF (i \in large \/ large = {})
                      /\ NodeID[nodes[i]] < NodeID[nodes[f[i - 1]]] THEN i
              ELSE f[i - 1]]
        = [i \in 0 .. Len(nodes) |->
              IF i = 0 THEN FirstFound(nodes, key)
              ELSE IF i \in Counting(nodes, key)
                      /\ NodeID[nodes[i]] < NodeID[nodes[f[i - 1]]] THEN i
              ELSE f[i - 1]]
    BY <2>1, <2>2
  <2> QED BY <2>3, Zenon DEF Searches
<1> HIDE DEF S
<1>4. S(CHOOSE f : S(f))
  BY <1>1, <1>3
<1> QED BY <1>2, <1>3, <1>4

LEMMA GreatestElement ==
  ASSUME NEW L \in Nat, NEW S, S \subseteq 0 .. L, S # {}
  PROVE  Max(S) \in S /\ \A i \in S : i <= Max(S)
<1> DEFINE T == {L - i : i \in S}
<1>1. T \subseteq 0 .. L /\ T # {}
  <2>1. PICK i \in S : TRUE
    OBVIOUS
  <2>2. L - i \in T
    BY <2>1
  <2>3. \A j \in 0 .. L : L - j \in 0 .. L
    OBVIOUS
  <2> QED BY <2>2, <2>3
<1>2. PICK t \in T : \A u \in T : t <= u
  <2> HIDE DEF T
  <2> QED BY <1>1, LeastElement
<1>3. PICK m \in S : t = L - m
  BY <1>2
<1>4. \A i \in S : m >= i
  <2> TAKE i \in S
  <2>1. L - i \in T
    OBVIOUS
  <2>2. L - m <= L - i /\ i \in 0 .. L /\ m \in 0 .. L
    BY <1>2, <1>3, <2>1
  <2> QED BY <2>2
<1>5. Max(S) \in S /\ \A i \in S : Max(S) >= i
  BY <1>4, Zenon DEF Max
<1>6. \A i \in S : i \in Int
  OBVIOUS
<1> QED BY <1>5, <1>6

\* A number less than n above or below zero is no multiple of n plus m but for
\* the factors 0 and -1.
LEMMA FewMultiples ==
  ASSUME NEW n \in Int, NEW a \in Int, NEW m \in Int, NEW p \in Int,
         a = p + m, 0 <= m, m < n, a < n, a + n > 0
  PROVE  ~(p >= n) /\ ~(p <= 0 - n - n)
OBVIOUS

\* The remainder of a number less than n above or below zero.
LEMMA NearZero ==
  ASSUME NEW n \in Nat, n > 0, NEW a \in Int, a < n, a + n > 0
  PROVE  a % n = IF a >= 0 THEN a ELSE a + n
<1> DEFINE q == a \div n
           m == a % n
           p == n * q
<1>1. q \in Int /\ m \in 0 .. n - 1 /\ a = n * q + m
  OBVIOUS
<1> HIDE DEF q, m
<1>2. p \in Int /\ m \in Int /\ 0 <= m /\ m < n /\ a = p + m
  BY <1>1
<1>3. q >= 1 => p >= n
  BY <1>1
<1>4. q <= -2 => p <= 0 - n - n
  <2>1. q + 1 <= -1 => n * (q + 1) <= -n
    BY <1>1
  <2>2. n * (q + 1) = n * q + n
    BY <1>1
  <2> QED BY <1>1, <1>2, <2>1, <2>2
<1>5. q = 0 => p = 0
  BY <1>1
<1>6. q = -1 => p = -n
  BY <1>1
<1> HIDE DEF p
<1>7. ~(p >= n) /\ ~(p <= 0 - n - n)
  BY <1>2, FewMultiples
<1>8. q = 0 \/ q = -1
  BY <1>1, <1>3, <1>4, <1>7
<1>9. m = IF a >= 0 THEN a ELSE a + n
  BY <1>2, <1>5, <1>6, <1>8
<1> QED BY <1>9 DEF m

\* A place of the ring that is not before the key is reached without going
\* round, one before it by going round once.
LEMMA DistanceIs ==
  ASSUME NEW s \in StorageServers, NEW key \in 0 .. RingSize - 1
  PROVE  Distance(s, key) = IF NodeID[s] >= key THEN NodeID[s] - key
                            ELSE NodeID[s] - key + RingSize
<1>1. NodeID[s] \in 0 .. RingSize - 1 /\ RingSize \in Nat \ {0}
  OBVIOUS
<1> PICK n \in Nat : n = RingSize /\ n > 0
  BY <1>1
<1> PICK a \in Int : a = NodeID[s] - key
  BY <1>1
<1>2. a < n /\ a + n > 0 /\ (a >= 0 <=> NodeID[s] >= key)
  BY <1>1
<1>3. a % n = IF a >= 0 THEN a ELSE a + n
  BY <1>2, NearZero
<1> QED BY <1>2, <1>3 DEF Distance

\* Lookup finds a nearest server.
LEMMA LookupNearest ==
  ASSUME NEW nodes \in Seq(StorageServers), nodes # <<>>,
         NEW key \in 0 .. RingSize - 1
  PROVE  /\ Lookup(nodes, key) \in ToSet(nodes)
         /\ \A t \in ToSet(nodes) :
              Distance(Lookup(nodes, key), key) <= Distance(t, key)
<1> DEFINE L == Len(nodes)
           D == 1 .. L
           large == {i \in D : NodeID[nodes[i]] >= key}
           C == Counting(nodes, key)
<1>1. /\ L \in Nat \ {0} /\ DOMAIN nodes = D
      /\ \A i \in D : nodes[i] \in StorageServers
      /\ \A i \in D : NodeID[nodes[i]] \in 0 .. RingSize - 1
  BY EmptySeq
<1> HIDE DEF L
<1>2. /\ C = IF large = {} THEN D ELSE large
      /\ FirstFound(nodes, key) \in C
  <2>1. C = IF large = {} THEN D ELSE large
    BY <1>1 DEF Counting
  <2>2. CASE large = {}
    BY <1>1, <2>1, <2>2 DEF FirstFound
  <2>3. CASE large # {}
    <3>1. large \subseteq 0 .. L
      BY <1>1
    <3> HIDE DEF large
    <3>2. Max(large) \in large
      BY <1>1, <2>3, <3>1, GreatestElement
    <3>3. FirstFound(nodes, key) = Max(large)
      BY <1>1, <2>3 DEF FirstFound, large
    <3> QED BY <2>1, <2>3, <3>2, <3>3
  <2> QED BY <2>1, <2>2, <2>3
<1>3. C \subseteq D
  BY <1>2
<1> HIDE DEF large, C
<1>4. PICK f : Searches(f, nodes, key, L) /\ Lookup(nodes, key) = nodes[f[L]]
  BY <1>1, LookupSearches DEF L
<1>5. \A i \in 0 .. L :
        f[i] = IF i = 0 THEN FirstFound(nodes, key)
               ELSE IF i \in C /\ NodeID[nodes[i]] < NodeID[nodes[f[i - 1]]]
                    THEN i ELSE f[i - 1]
  <2>1. f = [i \in 0 .. L |->
               IF i = 0 THEN FirstFound(nodes, key)
               ELSE IF i \in C /\ NodeID[nodes[i]] < NodeID[nodes[f[i - 1]]]
                    THEN i ELSE f[i - 1]]
    BY <1>4, Zenon DEF Searches, C
  <2> QED BY <2>1
<1> DEFINE Good(m) == /\ f[m] \in C
                      /\ \A j \in C : j <= m
                           => NodeID[nodes[f[m]]] <= NodeID[nodes[j]]
           Bad == {m \in 0 .. L : ~Good(m)}
<1>6. Bad = {}
  <2>1. SUFFICES ASSUME Bad # {} PROVE FALSE
    OBVIOUS
  <2>2. PICK m \in Bad : \A n \in Bad : m <= n
    <3>1. Bad \subseteq 0 .. L
      OBVIOUS
    <3> HIDE DEF Bad
    <3> QED BY <1>1, <2>1, <3>1, LeastElement
  <2>3. m \in 0 .. L /\ ~Good(m)
    BY <2>2
  <2>4. m # 0
    <3>1. f[0] = FirstFound(nodes, key) /\ \A j \in C : ~(j <= 0)
      BY <1>1, <1>3, <1>5
    <3> QED BY <1>2, <2>3, <3>1
  <2>5. Good(m - 1)
    <3> HIDE DEF Good
    <3>1. m - 1 \in 0 .. L /\ ~(m <= m - 1)
      BY <1>1, <2>3, <2>4
    <3> QED BY <2>2, <3>1
  <2>6. \A j \in C : j <= m => j <= m - 1 \/ j = m
    BY <1>1, <1>3, <2>3
  <2>7. f[m] = IF m \in C /\ NodeID[nodes[m]] < NodeID[nodes[f[m - 1]]]
               THEN m ELSE f[m - 1]
    BY <1>5, <2>3, <2>4
  <2>8. \A j \in C : NodeID[nodes[j]] \in Int
    BY <1>1, <1>3
  <2>9. Good(m)
    <3>1. CASE m \in C /\ NodeID[nodes[m]] < NodeID[nodes[f[m - 1]]]
      <4>1. f[m] = m /\ NodeID[nodes[m]] \in Int
            /\ NodeID[nodes[f[m - 1]]] \in Int
        BY <2>5, <2>7, <2>8, <3>1
      <4>2. ASSUME NEW j \in C, j <= m
            PROVE  NodeID[nodes[m]] <= NodeID[nodes[j]]
        <5>1. CASE j = m
          BY <4>1, <5>1
        <5>2. CASE j <= m - 1
          <6>1. NodeID[nodes[f[m - 1]]] <= NodeID[nodes[j]]
            BY <2>5, <5>2
          <6>2. NodeID[nodes[j]] \in Int
            BY <2>8
          <6> QED BY <3>1, <4>1, <6>1, <6>2, SMTT(30)
        <5> QED BY <2>6, <4>2, <5>1, <5>2
      <4> QED BY <3>1, <4>1, <4>2
    <3>2. CASE ~(m \in C /\ NodeID[nodes[m]] < NodeID[nodes[f[m - 1]]])
      <4>1. f[m] = f[m - 1] /\ f[m - 1] \in C
        BY <2>5, <2>7, <3>2
      <4>2. ASSUME NEW j \in C, j <= m
            PROVE  NodeID[nodes[f[m - 1]]] <= NodeID[nodes[j]]
        <5>1. CASE j = m
          <6>1. NodeID[nodes[m]] \in Int /\ NodeID[nodes[f[m - 1]]] \in Int
            BY <2>8, <4>1, <5>1
          <6> QED BY <3>2, <5>1, <6>1
        <5>2. CASE j <= m - 1
          BY <2>5, <5>2
        <5> QED BY <2>6, <4>2, <5>1, <5>2
      <4> QED BY <4>1, <4>2
    <3> QED BY <3>1, <3>2
  <2> QED BY <2>3, <2>9
<1> PICK s : s = Lookup(nodes, key)
  OBVIOUS
<1>7. /\ \E i \in C : s = nodes[i]
      /\ \A j \in C : NodeID[s] <= NodeID[nodes[j]]
  <2>1. Good(L)
    <3>1. L \in 0 .. L
      BY <1>1
    <3> HIDE DEF Good
    <3> QED BY <1>6, <3>1
  <2>2. \A j \in C : j <= L
    BY <1>1, <1>3
  <2> QED BY <1>4, <2>1, <2>2
<1>8. s \in ToSet(nodes) /\ s \in StorageServers
  BY <1>1, <1>3, <1>7, ElementsOf DEF L
<1>9. ASSUME NEW t \in ToSet(nodes)
      PROVE  Distance(s, key) <= Distance(t, key)
  <2>1. PICK j \in D : t = nodes[j]
    BY ElementsOf DEF L
  <2>2. t \in StorageServers
    BY <1>1, <2>1
  <2>3. /\ NodeID[s] \in 0 .. RingSize - 1 /\ NodeID[t] \in 0 .. RingSize - 1
        /\ Distance(s, key) = IF NodeID[s] >= key THEN NodeID[s] - key
                              ELSE NodeID[s] - key + RingSize
        /\ Distance(t, key) = IF NodeID[t] >= key THEN NodeID[t] - key
                              ELSE NodeID[t] - key + RingSize
    BY <1>8, <2>2, DistanceIs
  <2>4. CASE large = {}
    <3>1. ~(NodeID[t] >= key) /\ NodeID[s] <= NodeID[t] /\ ~(NodeID[s] >= key)
      BY <1>2, <1>7, <2>1, <2>4 DEF large
    <3>2. /\ Distance(s, key) = NodeID[s] - key + RingSize
          /\ Distance(t, key) = NodeID[t] - key + RingSize
      BY <2>3, <3>1
    <3> QED BY <2>3, <3>1, <3>2
  <2>5. CASE large # {}
    <3>1. NodeID[s] >= key /\ (NodeID[t] >= key => NodeID[s] <= NodeID[t])
      BY <1>2, <1>7, <2>1, <2>5 DEF large
    <3>2. Distance(s, key) = NodeID[s] - key
      BY <2>3, <3>1
    <3>3. CASE NodeID[t] >= key
      BY <2>3, <3>1, <3>2, <3>3
    <3>4. CASE ~(NodeID[t] >= key)
      <4>1. Distance(t, key) = NodeID[t] - key + RingSize
        BY <2>3, <3>4
      <4> QED BY <2>3, <3>2, <4>1
    <3> QED BY <3>3, <3>4
  <2> QED BY <2>4, <2>5
<1> QED BY <1>8, <1>9

-----------------------------------------------------------------------------
(* The ring.                                                               *)

\* Servers hear of a ring only when the master's slots are taken, and those do
\* not change any more.
RingOK ==
  /\ slots \in Seq(StorageServers) /\ Len(slots) \in 1 .. NumNodes
  /\ ring = [s \in Slaves |-> ring[s]]
  /\ nodelist = [m \in Agencies |-> nodelist[m]]
  /\ \A s \in Slaves : ring[s] = <<>> \/ (Ready /\ ring[s] = slots)
  /\ \A m \in Agencies : nodelist[m] = <<>> \/ (Ready /\ nodelist[m] = slots)

LEMMA RingInitially == Init => RingOK
<1> SUFFICES ASSUME Init PROVE RingOK
  OBVIOUS
<1>1. Master \in StorageServers /\ NumNodes \in Nat \ {0}
  OBVIOUS
<1>2. slots = <<Master>>
  BY DEF Init, RingInit
<1>3. slots \in Seq(StorageServers) /\ Len(slots) = 1
  BY <1>1, <1>2
<1> QED BY <1>1, <1>3 DEF Init, RingInit, RingOK

LEMMA RingStep ==
  ASSUME RingOK, [Next]_vars
  PROVE  RingOK'
<1>1. CASE UNCHANGED <<slots, ring, nodelist>>
  BY <1>1 DEF RingOK, Ready
<1>2. ASSUME NEW s \in Slaves, Join(s)
      PROVE  RingOK'
  <2>1. /\ ring[s] = <<>>
        /\ slots' = IF FreeSlot THEN Append(slots, s) ELSE slots
        /\ ring' = [ring EXCEPT ![s] = IF Ready' THEN slots' ELSE <<>>]
        /\ UNCHANGED nodelist
    BY <1>2 DEF Join, Register, agencyVars
  <2>2. s \in StorageServers
    BY DEF Slaves
  <2>3. slots' \in Seq(StorageServers) /\ Len(slots') \in 1 .. NumNodes
    <3>1. CASE FreeSlot
      <4>1. /\ Append(slots, s) \in Seq(StorageServers)
            /\ Len(Append(slots, s)) = Len(slots) + 1
        BY <2>2, AppendedSeq DEF RingOK
      <4> QED BY <2>1, <3>1, <4>1 DEF RingOK, FreeSlot
    <3>2. CASE ~FreeSlot
      BY <2>1, <3>2 DEF RingOK
    <3> QED BY <3>1, <3>2
  <2>4. Ready => slots' = slots /\ Ready'
    BY <2>1 DEF Ready, FreeSlot, RingOK
  <2>5. \A t \in Slaves : ring'[t] = <<>> \/ (Ready' /\ ring'[t] = slots')
    BY <2>1, <2>4 DEF RingOK
  <2>6. \A m \in Agencies :
          nodelist'[m] = <<>> \/ (Ready' /\ nodelist'[m] = slots')
    BY <2>1, <2>4 DEF RingOK
  <2> QED BY <2>1, <2>3, <2>5, <2>6 DEF RingOK
<1>3. ASSUME NEW m \in Agencies, Connect(m)
      PROVE  RingOK'
  <2>1. /\ Ready /\ nodelist' = [nodelist EXCEPT ![m] = slots]
        /\ UNCHANGED <<slots, ring>>
    BY <1>3 DEF Connect, ringVars
  <2> QED BY <2>1 DEF RingOK, Ready
<1>4. ASSUME NEW a \in Airlines, StartAirline(a)
      PROVE  UNCHANGED <<slots, ring, nodelist>>
  BY <1>4 DEF StartAirline, ringVars, agencyVars
<1>5. ASSUME NEW m \in Agencies, Declare(m) \/ Crash(m)
      PROVE  UNCHANGED <<slots, ring, nodelist>>
  <2>1. CASE Declare(m)
    BY <2>1 DEF Declare, ringVars
  <2>2. CASE Crash(m)
    BY <2>2 DEF Crash, Stop, ringVars
  <2> QED BY <1>5, <2>1, <2>2
<1>6. ASSUME NEW r \in Requests, Begin(r) \/ Serve(r) \/ ViewFlights(r)
      PROVE  UNCHANGED <<slots, ring, nodelist>>
  <2>1. CASE Begin(r)
    BY <2>1 DEF Begin, ringVars
  <2>2. CASE Serve(r)
    BY <2>2 DEF Serve, ringVars
  <2>3. CASE ViewFlights(r)
    <3>1. Stop(At[r]) => UNCHANGED <<slots, ring, nodelist>>
      BY DEF Stop, ringVars
    <3> QED BY <2>3, <3>1 DEF ViewFlights, ringVars
  <2> QED BY <1>6, <2>1, <2>2, <2>3
<1>7. CASE UNCHANGED vars
  BY <1>1, <1>7 DEF vars, ringVars, agencyVars
<1> QED BY <1>1, <1>2, <1>3, <1>4, <1>5, <1>6, <1>7 DEF Next

LEMMA RingAlways == Spec => []RingOK
BY RingInitially, RingStep, PTL DEF Spec

\* No two storage servers hear of different rings.
LEMMA OneRingOnly ==
  Spec => [](\A s \in Slaves : ring[s] \in {<<>>, slots})
<1>1. RingOK => \A s \in Slaves : ring[s] \in {<<>>, slots}
  BY DEF RingOK
<1> QED BY <1>1, RingAlways, PTL

\* getServer of a client and isKeyInRange of the server it calls agree, and the
\* server is the next one on the ring.
THEOREM ServersAgree == Spec => []RightServer
<1>1. RingOK => RightServer
  <2> SUFFICES ASSUME RingOK, NEW m \in Agencies, NEW u \in Users,
                      nodelist[m] # <<>>
               PROVE  LET s == Lookup(nodelist[m], Storehash[u]) IN
                      /\ ViewOf(s) # <<>> => IsKeyInRange(s, Storehash[u])
                      /\ \A t \in ToSet(nodelist[m]) :
                           Distance(s, Storehash[u]) <= Distance(t, Storehash[u])
    BY DEF RightServer
  <2> DEFINE key == Storehash[u]
             s == Lookup(nodelist[m], key)
  <2>1. /\ nodelist[m] = slots /\ slots \in Seq(StorageServers)
        /\ key \in 0 .. RingSize - 1
    BY DEF RingOK
  <2> HIDE DEF key, s
  <2>2. /\ s \in ToSet(nodelist[m])
        /\ \A t \in ToSet(nodelist[m]) : Distance(s, key) <= Distance(t, key)
    BY <2>1, LookupNearest DEF s
  <2>3. ASSUME ViewOf(s) # <<>> PROVE IsKeyInRange(s, key)
    <3>1. s \in StorageServers
      BY <2>1, <2>2, ElementsOf
    <3>2. ViewOf(s) = nodelist[m]
      <4>1. CASE s = Master
        BY <2>1, <4>1 DEF ViewOf
      <4>2. CASE s # Master
        BY <2>1, <2>3, <3>1, <4>2 DEF ViewOf, RingOK, Slaves
      <4> QED BY <4>1, <4>2
    <3> QED BY <3>2 DEF IsKeyInRange, s
  <2> QED BY <2>2, <2>3 DEF key, s
<1> QED BY <1>1, RingAlways, PTL

-----------------------------------------------------------------------------
(* The invariant of the requests.                                          *)

IsList(v) == /\ v = ListOf(v.items)
             /\ v.items \in Seq(Flights) /\ IsInjective(v.items)

\* Flight f is in the list of u.
Has(u, f) == Listed(store[u].b, f)

ServersOK ==
  /\ directory = [n \in Names |-> directory[n]] /\ DirectoryTypeOK
  /\ agency \in [Agencies -> {"down", "starting", "up"}]

StoreOK ==
  /\ store = [u \in Users |-> [n |-> store[u].n, b |-> store[u].b]]
  /\ \A u \in Users :
       /\ store[u].n \in {Nothing, Text("new_user")}
       /\ store[u].b \in {Nothing, NoBookings} \/ IsList(store[u].b)

SlotsOK ==
  /\ slot = [f \in DOMAIN slot |-> slot[f]]
  /\ DOMAIN slot \subseteq Flights /\ \A f \in DOMAIN slot : slot[f] \in Nat
  /\ taken \in [Users -> [Flights -> Int]]
  /\ disturbed \subseteq Users

\* A request that asks op may get to stage p.
Passes(op, p) ==
  /\ p = "user" => op \in Edits
  /\ p \in {"putUser", "putBookings"} => op = "CreateUser"
  /\ p \in {"flights", "book", "edit"} => op \in {"AddBooking", "RemoveBooking"}
  /\ p = "list" => op \in {"AddBooking", "RemoveBooking", "GetBookings"}
  /\ p = "dial" => op = "ViewFlights"
  /\ p = "create" => op = "AddFlight"

\* How calls and requests end.
Statuses == {"none", "called", "failed", "OK", "error", "EEXISTS", "ENOSUCHUSER",
             "EBOOKINGFAILED", "ENOTBOOKED", "ENOAIRLINE"}

RequestType == [at : Stages, todo : Seq(Flights), status : Statuses]

RequestsOK ==
  /\ request \in [Requests -> RequestType]
  /\ \A r \in Requests :
       /\ request[r].todo # <<>> <=> request[r].at = "edit"
       /\ IsInjective(request[r].todo)
       /\ Passes(Asks[r].op, request[r].at)

\* Who books is a user.
UsersBook ==
  \A r \in Requests :
    /\ request[r].at \in {"flights", "list", "book", "edit"}
    /\ Asks[r].op \in Edits
    => store[Asks[r].user].n # Nothing

\* Who is not a user has no bookings.
NoUserNoBookings ==
  \A u \in Users : store[u].n = Nothing => \A f \in Flights : ~Has(u, f)

\* The requests of a user that is not disturbed come one after the other.
OneByOne ==
  \A r, x \in Requests :
    /\ Busy(r) /\ Asks[r].op \in Edits /\ Busy(x) /\ Asks[x].op \in Edits
    /\ Asks[r].user = Asks[x].user /\ Asks[r].user \notin disturbed
    => r = x

\* Such a user is created before any booking is listed.
CreatedEmpty ==
  \A r \in Requests :
    request[r].at \in {"putUser", "putBookings"} /\ Asks[r].user \notin disturbed
      => \A f \in Flights : ~Has(Asks[r].user, f)

\* A booking is made of flights that are not in the list, a cancellation of
\* flights that are.
BooksTheOthers ==
  \A r \in Requests :
    request[r].at = "book" /\ Asks[r].user \notin disturbed
      => \A f \in ToSet(Asks[r].flights) :
           Has(Asks[r].user, f) <=> Asks[r].op = "RemoveBooking"

Seat(b) == IF b THEN 1 ELSE 0

\* The seats of such a user are those of the list but for the edits to come.
SeatsButEdits ==
  \A u \in Users \ disturbed, f \in Flights :
    /\ (\A r \in Requests : Asks[r].user = u => f \notin ToSet(request[r].todo))
         => taken[u][f] = Seat(Has(u, f))
    /\ \A r \in Requests :
         Asks[r].user = u /\ f \in ToSet(request[r].todo)
           => /\ Has(u, f) <=> Asks[r].op = "RemoveBooking"
              /\ taken[u][f] = Seat(Asks[r].op = "AddBooking")

BookingsOK ==
  /\ StoreOK /\ RequestsOK
  /\ UsersBook /\ NoUserNoBookings
  /\ OneByOne /\ CreatedEmpty /\ BooksTheOthers /\ SeatsButEdits

AgencyInv == RingOK /\ ServersOK /\ SlotsOK /\ BookingsOK

-----------------------------------------------------------------------------
(* Lists of bookings.                                                      *)

LEMMA ContainsIs ==
  ASSUME NEW S, NEW s \in Seq(S), NEW x
  PROVE  Contains(s, x) <=> x \in ToSet(s)
BY ElementsOf DEF Contains

LEMMA AppendedInjective ==
  ASSUME NEW S, NEW s \in Seq(S), NEW x \in S, IsInjective(s), x \notin ToSet(s)
  PROVE  IsInjective(Append(s, x))
<1> DEFINE t == Append(s, x)
<1>1. /\ t \in Seq(S) /\ Len(t) = Len(s) + 1 /\ Len(s) \in Nat
      /\ \A i \in 1 .. Len(s) : t[i] = s[i]
      /\ t[Len(s) + 1] = x
  BY AppendedSeq
<1>2. \A i \in 1 .. Len(s) : s[i] # x
  BY ElementsOf
<1> HIDE DEF t
<1>3. DOMAIN t = 1 .. Len(s) + 1 /\ DOMAIN s = 1 .. Len(s)
  BY <1>1
<1>4. \A i \in 1 .. Len(s) + 1 : i \in 1 .. Len(s) \/ i = Len(s) + 1
  BY <1>1
<1>5. ASSUME NEW i \in DOMAIN t, NEW j \in DOMAIN t, t[i] = t[j]
      PROVE  i = j
  <2>1. CASE i \in 1 .. Len(s) /\ j \in 1 .. Len(s)
    BY <1>1, <1>3, <1>5, <2>1 DEF IsInjective
  <2>2. CASE i = Len(s) + 1 \/ j = Len(s) + 1
    BY <1>1, <1>2, <1>3, <1>4, <1>5, <2>2
  <2> QED BY <1>3, <1>4, <2>1, <2>2
<1>6. IsInjective(t)
  BY <1>5 DEF IsInjective
<1> QED BY <1>6 DEF t

LEMMA RemovedSeq ==
  ASSUME NEW S, NEW s \in Seq(S), IsInjective(s), NEW k \in 1 .. Len(s)
  PROVE  /\ RemoveAt(s, k) \in Seq(S) /\ IsInjective(RemoveAt(s, k))
         /\ ToSet(RemoveAt(s, k)) = ToSet(s) \ {s[k]}
<1> DEFINE L == Len(s)
           a == SubSeq(s, 1, k - 1)
           b == SubSeq(s, k + 1, L)
           t == RemoveAt(s, k)
<1>1. /\ L \in Nat /\ k \in Int /\ 1 <= k /\ k <= L
      /\ DOMAIN s = 1 .. L /\ \A i \in 1 .. L : s[i] \in S
  OBVIOUS
<1> HIDE DEF L
<1>2. a \in Seq(S) /\ Len(a) = k - 1 /\ \A i \in 1 .. k - 1 : a[i] = s[i]
  <2>1. \A i \in 1 .. k - 1 : s[i] \in S
    BY <1>1
  <2>2. /\ a \in Seq(S) /\ Len(a) = IF 1 <= k - 1 THEN (k - 1) - 1 + 1 ELSE 0
        /\ \A i \in 1 .. (k - 1) - 1 + 1 : a[i] = s[1 + i - 1]
    BY <1>1, <2>1, SubSeqProperties
  <2> HIDE DEF a
  <2> QED BY <1>1, <2>2
<1>3. b \in Seq(S) /\ Len(b) = L - k /\ \A i \in 1 .. L - k : b[i] = s[k + i]
  <2>1. \A i \in k + 1 .. L : s[i] \in S
    BY <1>1
  <2>2. /\ b \in Seq(S) /\ Len(b) = IF k + 1 <= L THEN L - (k + 1) + 1 ELSE 0
        /\ \A i \in 1 .. L - (k + 1) + 1 : b[i] = s[(k + 1) + i - 1]
    BY <1>1, <2>1, SubSeqProperties
  <2> HIDE DEF b
  <2> QED BY <1>1, <2>2
<1>4. t = a \o b
  BY DEF RemoveAt, L
<1> HIDE DEF a, b, t
<1>5. /\ t \in Seq(S) /\ Len(t) = L - 1
      /\ \A i \in 1 .. L - 1 : t[i] = IF i <= k - 1 THEN s[i] ELSE s[i + 1]
  <2>1. /\ t \in Seq(S) /\ Len(t) = (k - 1) + (L - k)
        /\ \A i \in 1 .. (k - 1) + (L - k) :
             t[i] = IF i <= k - 1 THEN a[i] ELSE b[i - (k - 1)]
    BY <1>2, <1>3, <1>4, ConcatProperties
  <2>2. ASSUME NEW i \in 1 .. L - 1
        PROVE  t[i] = IF i <= k - 1 THEN s[i] ELSE s[i + 1]
    <3>0. i \in 1 .. (k - 1) + (L - k) /\ i \in Int
      BY <1>1
    <3>1. CASE i <= k - 1
      <4>1. i \in 1 .. k - 1
        BY <1>1, <3>0, <3>1
      <4> QED BY <1>2, <2>1, <3>0, <3>1, <4>1
    <3>2. CASE ~(i <= k - 1)
      <4>1. i - (k - 1) \in 1 .. L - k /\ k + (i - (k - 1)) = i + 1
        BY <1>1, <3>0, <3>2
      <4>2. t[i] = b[i - (k - 1)]
        BY <2>1, <3>0, <3>2
      <4> QED BY <1>3, <3>2, <4>1, <4>2
    <3> QED BY <3>1, <3>2
  <2> QED BY <1>1, <2>1, <2>2
<1> DEFINE at(i) == IF i <= k - 1 THEN i ELSE i + 1
<1>6. /\ DOMAIN t = 1 .. L - 1
      /\ \A i \in 1 .. L - 1 : t[i] = s[at(i)] /\ at(i) \in 1 .. L /\ at(i) # k
      /\ \A i, j \in 1 .. L - 1 : at(i) = at(j) => i = j
  BY <1>1, <1>5
<1>7. \A j \in 1 .. L : j # k => \E i \in 1 .. L - 1 : at(i) = j
  <2> TAKE j \in 1 .. L
  <2>1. CASE j < k
    <3>1. j \in 1 .. L - 1 /\ at(j) = j
      BY <1>1, <2>1
    <3> QED BY <3>1
  <2>2. CASE j > k
    <3>1. j - 1 \in 1 .. L - 1 /\ at(j - 1) = j
      BY <1>1, <2>2
    <3> QED BY <3>1
  <2> QED BY <1>1, <2>1, <2>2
<1> HIDE DEF at
<1>8. IsInjective(t)
  BY <1>1, <1>6 DEF IsInjective
<1>9. ASSUME NEW x PROVE x \in ToSet(t) <=> x \in ToSet(s) /\ x # s[k]
  <2>1. x \in ToSet(t) <=> \E i \in 1 .. L - 1 : t[i] = x
    BY <1>5, ElementsOf
  <2>2. x \in ToSet(s) <=> \E i \in 1 .. L : s[i] = x
    BY ElementsOf DEF L
  <2>3. \A i, j \in 1 .. L : s[i] = s[j] => i = j
    BY <1>1 DEF IsInjective
  <2> QED BY <1>1, <1>6, <1>7, <2>1, <2>2, <2>3
<1> QED BY <1>5, <1>8, <1>9 DEF t

LEMMA ListIs ==
  ASSUME NEW s \in Seq(Flights), IsInjective(s)
  PROVE  /\ IsList(ListOf(s)) /\ ListOf(s).kind = "list"
         /\ \A f : Listed(ListOf(s), f) <=> f \in ToSet(s)
<1>1. ListOf(s).kind = "list" /\ ListOf(s).items = s
  BY DEF ListOf
<1> QED BY <1>1, ContainsIs, Zenon DEF IsList, Listed

LEMMA NoListIs ==
  ASSUME NEW v \in {Nothing, NoBookings}
  PROVE  v.kind \in {"none", "string"} /\ \A f : ~Listed(v, f)
<1>1. Nothing.kind = "none"
  BY DEF Nothing
<1>2. NoBookings.kind = "string"
  BY Zenon DEF NoBookings, Text
<1>3. v.kind \in {"none", "string"}
  BY <1>1, <1>2
<1> QED BY <1>3 DEF Listed

\* What one edit does to the list of bookings of a user.
LEMMA EditDoes ==
  ASSUME NEW v, v \in {Nothing, NoBookings} \/ IsList(v), NEW x \in Flights, NEW u
  PROVE  LET add == [op |-> "Append", key |-> u, arg |-> x]
             remove == [op |-> "Remove", key |-> u, arg |-> x]
         IN
         /\ After(v, add) \in {Nothing, NoBookings} \/ IsList(After(v, add))
         /\ After(v, remove) \in {Nothing, NoBookings} \/ IsList(After(v, remove))
         /\ \A f : Listed(After(v, add), f) <=> Listed(v, f) \/ f = x
         /\ \A f : Listed(After(v, remove), f) <=> Listed(v, f) /\ f # x
<1> DEFINE add == [op |-> "Append", key |-> u, arg |-> x]
           remove == [op |-> "Remove", key |-> u, arg |-> x]
<1>1. /\ After(v, add) = IF v.kind # "list" THEN ListOf(<<x>>)
                         ELSE IF Listed(v, x) THEN v
                         ELSE ListOf(Append(v.items, x))
      /\ After(v, remove) =
           IF ~Listed(v, x) THEN v
           ELSE ListOf(RemoveAt(v.items, Place(v.items, x)))
  BY DEF After
<1> HIDE DEF add, remove
<1>2. CASE v \in {Nothing, NoBookings}
  <2>1. v.kind # "list" /\ \A f : ~Listed(v, f)
    BY <1>2, NoListIs
  <2> PICK s : s = <<x>>
    OBVIOUS
  <2>2. s \in Seq(Flights) /\ IsInjective(s) /\ ToSet(s) = {x}
    <3>1. s \in Seq(Flights) /\ Len(s) = 1 /\ s[1] = x /\ DOMAIN s = {1}
      OBVIOUS
    <3>2. IsInjective(s)
      BY <3>1 DEF IsInjective
    <3>3. ToSet(s) = {x}
      BY <3>1 DEF ToSet
    <3> QED BY <3>1, <3>2, <3>3
  <2>3. After(v, add) = ListOf(s) /\ After(v, remove) = v
    BY <1>1, <2>1
  <2> QED BY <1>2, <2>1, <2>2, <2>3, ListIs, Zenon DEF add, remove
<1>3. CASE IsList(v)
  <2> PICK s : s = v.items
    OBVIOUS
  <2>1. s \in Seq(Flights) /\ IsInjective(s) /\ v = ListOf(s)
    BY <1>3 DEF IsList
  <2>2. v.kind = "list" /\ \A f : Listed(v, f) <=> f \in ToSet(s)
    BY <2>1, ListIs
  <2>3. CASE Listed(v, x)
    <3>1. x \in ToSet(s)
      BY <2>2, <2>3
    <3> PICK k : k = Place(s, x)
      OBVIOUS
    <3>2. k \in 1 .. Len(s) /\ s[k] = x
      <4>1. \E i \in DOMAIN s : s[i] = x
        BY <3>1 DEF ToSet
      <4>2. k \in DOMAIN s /\ s[k] = x
        BY <4>1 DEF Place
      <4> QED BY <2>1, <4>2
    <3> PICK t : t = RemoveAt(s, k)
      OBVIOUS
    <3>3. t \in Seq(Flights) /\ IsInjective(t) /\ ToSet(t) = ToSet(s) \ {x}
      BY <2>1, <3>2, RemovedSeq
    <3>4. After(v, add) = v /\ After(v, remove) = ListOf(t)
      BY <1>1, <2>2, <2>3
    <3>5. IsList(ListOf(t)) /\ \A f : Listed(ListOf(t), f) <=> f \in ToSet(t)
      BY <3>3, ListIs
    <3> QED BY <1>3, <2>2, <3>1, <3>3, <3>4, <3>5, Zenon DEF add, remove
  <2>4. CASE ~Listed(v, x)
    <3>1. x \notin ToSet(s)
      BY <2>2, <2>4
    <3> PICK t : t = Append(s, x)
      OBVIOUS
    <3>2. t \in Seq(Flights) /\ IsInjective(t) /\ ToSet(t) = ToSet(s) \cup {x}
      BY <2>1, <3>1, AppendedSeq, AppendedInjective
    <3>3. After(v, add) = ListOf(t) /\ After(v, remove) = v
      BY <1>1, <2>2, <2>4
    <3>4. IsList(ListOf(t)) /\ \A f : Listed(ListOf(t), f) <=> f \in ToSet(t)
      BY <3>2, ListIs
    <3>5. \A f : (f \in ToSet(t)) <=> (f \in ToSet(s) \/ f = x)
      BY <3>2
    <3>6. \A f : Listed(After(v, add), f) <=> Listed(v, f) \/ f = x
      BY <2>2, <3>3, <3>4, <3>5, Zenon
    <3>7. \A f : Listed(v, f) => f # x
      BY <2>4
    <3> QED BY <1>3, <3>3, <3>4, <3>6, <3>7, Zenon DEF add, remove
  <2> QED BY <2>3, <2>4
<1> QED BY <1>2, <1>3

-----------------------------------------------------------------------------
(* What keeps the invariant of the requests.                               *)

\* Request r gets to stage p with the edits t to make, no other request moves.
Turns(r, p, t) ==
  /\ request' \in [Requests -> RequestType]
  /\ request'[r].at = p /\ request'[r].todo = t
  /\ \A x \in Requests \ {r} : request'[x] = request[x]

LEMMA TurnsIs ==
  ASSUME RequestsOK, NEW r \in Requests, NEW p \in Stages, NEW s \in Statuses,
         NEW t \in Seq(Flights)
  PROVE  /\ Goes(r, p) => Turns(r, p, request[r].todo)
         /\ Ends(r, s) => Turns(r, "done", <<>>)
         /\ request' = [request EXCEPT ![r].at = p, ![r].status = s]
              => Turns(r, p, request[r].todo)
         /\ request' = [request EXCEPT ![r].at = p, ![r].todo = t]
              => Turns(r, p, t)
         /\ request' = [request EXCEPT ![r].todo = t]
              => Turns(r, request[r].at, t)
<1>1. request \in [Requests -> RequestType]
  BY Zenon DEF RequestsOK, RequestType
<1>2. /\ request[r] \in RequestType
      /\ request[r].at \in Stages /\ request[r].todo \in Seq(Flights)
      /\ request[r].status \in Statuses
  BY <1>1 DEF RequestType
<1>3. ASSUME NEW q \in RequestType, request' = [request EXCEPT ![r] = q]
      PROVE  Turns(r, q.at, q.todo)
  BY <1>1, <1>3 DEF Turns
<1>4. ASSUME Goes(r, p) PROVE Turns(r, p, request[r].todo)
  <2> DEFINE q == [request[r] EXCEPT !.at = p]
  <2>1. q \in RequestType /\ q.at = p /\ q.todo = request[r].todo
    BY <1>2 DEF RequestType
  <2>2. request' = [request EXCEPT ![r] = q]
    BY <1>4 DEF Goes
  <2> HIDE DEF q
  <2>3. Turns(r, q.at, q.todo)
    BY <1>3, <2>1, <2>2
  <2> QED BY <2>1, <2>3
<1>5. ASSUME Ends(r, s) PROVE Turns(r, "done", <<>>)
  <2> DEFINE q == [at |-> "done", todo |-> <<>>, status |-> s]
  <2>1. q \in RequestType /\ q.at = "done" /\ q.todo = <<>>
    <3>1. "done" \in Stages
      BY DEF Stages
    <3>2. <<>> \in Seq(Flights)
      BY EmptyIs
    <3> QED BY <3>1, <3>2 DEF RequestType
  <2>2. request' = [request EXCEPT ![r] = q]
    BY <1>5 DEF Ends
  <2> HIDE DEF q
  <2>3. Turns(r, q.at, q.todo)
    BY <1>3, <2>1, <2>2
  <2> QED BY <2>1, <2>3
<1>6. ASSUME request' = [request EXCEPT ![r].at = p, ![r].status = s]
      PROVE  Turns(r, p, request[r].todo)
  <2> DEFINE q == [request[r] EXCEPT !.at = p, !.status = s]
  <2>1. q \in RequestType /\ q.at = p /\ q.todo = request[r].todo
    BY <1>2 DEF RequestType
  <2>2. request' = [request EXCEPT ![r] = q]
    BY <1>1, <1>6
  <2> HIDE DEF q
  <2>3. Turns(r, q.at, q.todo)
    BY <1>3, <2>1, <2>2
  <2> QED BY <2>1, <2>3
<1>7. ASSUME request' = [request EXCEPT ![r].at = p, ![r].todo = t]
      PROVE  Turns(r, p, t)
  <2> DEFINE q == [request[r] EXCEPT !.at = p, !.todo = t]
  <2>1. q \in RequestType /\ q.at = p /\ q.todo = t
    BY <1>2 DEF RequestType
  <2>2. request' = [request EXCEPT ![r] = q]
    BY <1>1, <1>7
  <2> HIDE DEF q
  <2>3. Turns(r, q.at, q.todo)
    BY <1>3, <2>1, <2>2
  <2> QED BY <2>1, <2>3
<1>8. ASSUME request' = [request EXCEPT ![r].todo = t]
      PROVE  Turns(r, request[r].at, t)
  <2> DEFINE q == [request[r] EXCEPT !.todo = t]
  <2>1. q \in RequestType /\ q.at = request[r].at /\ q.todo = t
    BY <1>2 DEF RequestType
  <2>2. request' = [request EXCEPT ![r] = q]
    BY <1>8
  <2> HIDE DEF q
  <2>3. Turns(r, q.at, q.todo)
    BY <1>3, <2>1, <2>2
  <2> QED BY <2>1, <2>3
<1> QED BY <1>4, <1>5, <1>6, <1>7, <1>8

\* Nothing that the seats of an undisturbed user depend on changes.
LEMMA SeatsKept ==
  ASSUME SeatsButEdits, disturbed \subseteq disturbed', UNCHANGED taken,
         \A u \in Users \ disturbed', f \in Flights : Has(u, f)' <=> Has(u, f),
         \A x \in Requests : Asks[x].user \notin disturbed'
                               => request'[x].todo = request[x].todo
  PROVE  SeatsButEdits'
<1> SUFFICES ASSUME NEW u \in Users \ disturbed', NEW f \in Flights
             PROVE  /\ (\A r \in Requests :
                          Asks[r].user = u => f \notin ToSet(request'[r].todo))
                         => taken'[u][f] = Seat(Has(u, f)')
                    /\ \A r \in Requests :
                         Asks[r].user = u /\ f \in ToSet(request'[r].todo)
                           => /\ Has(u, f)' <=> Asks[r].op = "RemoveBooking"
                              /\ taken'[u][f] = Seat(Asks[r].op = "AddBooking")
  BY DEF SeatsButEdits, Seat
<1>1. u \in Users \ disturbed
  OBVIOUS
<1>2. \A x \in Requests : Asks[x].user = u => request'[x].todo = request[x].todo
  OBVIOUS
<1>3. Seat(Has(u, f)') = Seat(Has(u, f)) /\ taken'[u][f] = taken[u][f]
  BY DEF Seat
<1>4. /\ (\A r \in Requests : Asks[r].user = u => f \notin ToSet(request[r].todo))
           => taken[u][f] = Seat(Has(u, f))
      /\ \A r \in Requests :
           Asks[r].user = u /\ f \in ToSet(request[r].todo)
             => /\ Has(u, f) <=> Asks[r].op = "RemoveBooking"
                /\ taken[u][f] = Seat(Asks[r].op = "AddBooking")
  BY <1>1, Zenon DEF SeatsButEdits
<1> HIDE DEF Seat
<1> QED BY <1>2, <1>3, <1>4


\* Request r leaves its stage for one with no edits to make, and no list of an
\* undisturbed user changes.
LEMMA RequestMoves ==
  ASSUME BookingsOK, disturbed \subseteq disturbed',
         NEW r \in Requests, NEW p \in Stages \ {"edit"}, Turns(r, p, <<>>),
         Passes(Asks[r].op, p), StoreOK', UNCHANGED taken,
         \A u \in Users : store'[u].n = Nothing => store[u].n = Nothing,
         \A u \in Users, f \in Flights : Has(u, f)' => Has(u, f),
         \A u \in Users \ disturbed', f \in Flights : Has(u, f)' <=> Has(u, f),
         request[r].at = "edit" => Asks[r].user \in disturbed',
         p \in {"flights", "list", "book"} /\ Asks[r].op \in Edits
           => store[Asks[r].user].n # Nothing,
         \/ p \in {"new", "done", "lost"} \/ Asks[r].op \notin Edits \/ Busy(r)
         \/ Asks[r].user \in disturbed'
         \/ \A x \in Requests : Busy(x) /\ Asks[x].op \in Edits
              => Asks[x].user # Asks[r].user,
         p \in {"putUser", "putBookings"} /\ Asks[r].user \notin disturbed'
           => \A f \in Flights : ~Has(Asks[r].user, f),
         p = "book" /\ Asks[r].user \notin disturbed'
           => \A f \in ToSet(Asks[r].flights) :
                Has(Asks[r].user, f) <=> Asks[r].op = "RemoveBooking"
  PROVE  BookingsOK'
<1>1. /\ request'[r].at = p /\ request'[r].todo = <<>>
      /\ \A x \in Requests \ {r} : request'[x] = request[x]
      /\ request' \in [Requests -> RequestType]
  BY DEF Turns
<1>2. /\ RequestsOK /\ UsersBook /\ NoUserNoBookings /\ OneByOne
      /\ CreatedEmpty /\ BooksTheOthers /\ SeatsButEdits
  BY DEF BookingsOK
<1>3. \A x \in Requests : Asks[x].user \in Users /\ ToSet(Asks[x].flights) \subseteq Flights
  BY ElementsOf
<1>4. RequestsOK'
  <2>1. ASSUME NEW x \in Requests
        PROVE  /\ request'[x].todo # <<>> <=> request'[x].at = "edit"
               /\ IsInjective(request'[x].todo)
               /\ Passes(Asks[x].op, request'[x].at)
    <3>1. CASE x = r
      BY <1>1, <3>1, EmptyIs
    <3>2. CASE x # r
      BY <1>1, <1>2, <3>2 DEF RequestsOK
    <3> QED BY <3>1, <3>2
  <2> QED BY <1>1, <2>1 DEF RequestsOK, RequestType
<1>5. UsersBook'
  <2> SUFFICES ASSUME NEW x \in Requests,
                      request'[x].at \in {"flights", "list", "book", "edit"},
                      Asks[x].op \in Edits
               PROVE  store'[Asks[x].user].n # Nothing
    BY DEF UsersBook
  <2>1. store[Asks[x].user].n # Nothing
    <3>1. CASE x = r
      BY <1>1, <3>1
    <3>2. CASE x # r
      BY <1>1, <1>2, <3>2 DEF UsersBook
    <3> QED BY <3>1, <3>2
  <2> QED BY <1>3, <2>1
<1>6. NoUserNoBookings'
  BY <1>2, Zenon DEF NoUserNoBookings
<1>7. OneByOne'
  <2> SUFFICES ASSUME NEW x \in Requests, NEW y \in Requests,
                      Busy(x)', Busy(y)', Asks[x].op \in Edits,
                      Asks[y].op \in Edits, Asks[x].user = Asks[y].user,
                      Asks[x].user \notin disturbed', x # y
               PROVE  FALSE
    BY DEF OneByOne
  <2>1. ASSUME NEW z \in Requests, z # r, Busy(z)' PROVE Busy(z)
    BY <1>1, <2>1 DEF Busy
  <2>2. \A z, w \in Requests :
          /\ Busy(z) /\ Asks[z].op \in Edits /\ Busy(w) /\ Asks[w].op \in Edits
          /\ Asks[z].user = Asks[w].user /\ Asks[z].user \notin disturbed'
          => z = w
    BY <1>2 DEF OneByOne
  <2>3. CASE x # r /\ y # r
    BY <2>1, <2>2, <2>3
  <2>4. Busy(r)' => p \notin {"new", "done", "lost"}
    BY <1>1 DEF Busy
  <2>5. CASE x = r
    BY <2>1, <2>2, <2>4, <2>5
  <2>6. CASE y = r
    BY <2>1, <2>2, <2>4, <2>6
  <2> QED BY <2>3, <2>5, <2>6
<1>8. CreatedEmpty'
  <2> SUFFICES ASSUME NEW x \in Requests,
                      request'[x].at \in {"putUser", "putBookings"},
                      Asks[x].user \notin disturbed', NEW f \in Flights
               PROVE  ~Has(Asks[x].user, f)'
    BY Zenon DEF CreatedEmpty
  <2>1. ~Has(Asks[x].user, f)
    <3>1. CASE x = r
      BY <1>1, <3>1
    <3>2. CASE x # r
      BY <1>1, <1>2, <3>2 DEF CreatedEmpty
    <3> QED BY <3>1, <3>2
  <2> QED BY <1>3, <2>1
<1>9. BooksTheOthers'
  <2> SUFFICES ASSUME NEW x \in Requests, request'[x].at = "book",
                      Asks[x].user \notin disturbed',
                      NEW f \in ToSet(Asks[x].flights)
               PROVE  Has(Asks[x].user, f)' <=> Asks[x].op = "RemoveBooking"
    BY Zenon DEF BooksTheOthers
  <2>1. Has(Asks[x].user, f) <=> Asks[x].op = "RemoveBooking"
    <3>1. CASE x = r
      BY <1>1, <3>1
    <3>2. CASE x # r
      BY <1>1, <1>2, <3>2 DEF BooksTheOthers
    <3> QED BY <3>1, <3>2
  <2>2. f \in Flights /\ Asks[x].user \in Users \ disturbed'
    BY <1>3
  <2> QED BY <2>1, <2>2
<1>10. SeatsButEdits'
  <2>1. ASSUME NEW x \in Requests, Asks[x].user \notin disturbed'
        PROVE  request'[x].todo = request[x].todo
    <3>1. CASE x = r
      BY <1>1, <1>2, <2>1, <3>1 DEF RequestsOK
    <3>2. CASE x # r
      BY <1>1, <3>2
    <3> QED BY <3>1, <3>2
  <2> QED BY <1>2, <2>1, SeatsKept
<1> QED BY <1>4, <1>5, <1>6, <1>7, <1>8, <1>9, <1>10 DEF BookingsOK

\* Requests are lost, and who waited for edits is disturbed.
LEMMA RequestsStop ==
  ASSUME BookingsOK, disturbed \subseteq disturbed', UNCHANGED <<store, taken>>,
         request' \in [Requests -> RequestType],
         \A x \in Requests :
           \/ request'[x] = request[x]
           \/ /\ request'[x].at = "lost" /\ request'[x].todo = <<>>
              /\ request[x].at = "edit" => Asks[x].user \in disturbed'
  PROVE  BookingsOK'
<1>1. /\ RequestsOK /\ UsersBook /\ NoUserNoBookings /\ OneByOne /\ StoreOK
      /\ CreatedEmpty /\ BooksTheOthers /\ SeatsButEdits
  BY DEF BookingsOK
<1>2. StoreOK' /\ NoUserNoBookings'
  BY <1>1 DEF StoreOK, NoUserNoBookings, Has
<1>3. \A u, f : Has(u, f)' <=> Has(u, f)
  BY DEF Has
<1>4. RequestsOK'
  <2>1. ASSUME NEW x \in Requests
        PROVE  /\ request'[x].todo # <<>> <=> request'[x].at = "edit"
               /\ IsInjective(request'[x].todo)
               /\ Passes(Asks[x].op, request'[x].at)
    <3>1. CASE request'[x] = request[x]
      BY <1>1, <3>1 DEF RequestsOK
    <3>2. CASE request'[x].at = "lost" /\ request'[x].todo = <<>>
      BY <3>2, EmptyIs DEF Passes
    <3> QED BY <3>1, <3>2
  <2> QED BY <2>1 DEF RequestsOK, RequestType
<1>5. \A x \in Requests : request'[x].at # "lost" => request'[x] = request[x]
  OBVIOUS
<1>6. UsersBook'
  BY <1>1, <1>5 DEF UsersBook
<1>7. OneByOne'
  <2>1. \A x \in Requests : Busy(x)' => Busy(x)
    BY <1>5 DEF Busy
  <2> QED BY <1>1, <2>1, Zenon DEF OneByOne
<1>8. CreatedEmpty'
  BY <1>1, <1>3, <1>5 DEF CreatedEmpty
<1>9. BooksTheOthers'
  BY <1>1, <1>3, <1>5 DEF BooksTheOthers
<1>10. SeatsButEdits'
  <2>1. ASSUME NEW x \in Requests, Asks[x].user \notin disturbed'
        PROVE  request'[x].todo = request[x].todo
    BY <1>1, <2>1 DEF RequestsOK
  <2> QED BY <1>1, <1>3, <2>1, SeatsKept
<1> QED BY <1>2, <1>4, <1>6, <1>7, <1>8, <1>9, <1>10 DEF BookingsOK


\* While a request of an undisturbed user is under way, no other one is.
LEMMA OthersWait ==
  ASSUME BookingsOK, NEW r \in Requests, Busy(r), Asks[r].op \in Edits,
         Asks[r].user \notin disturbed,
         NEW x \in Requests, x # r, Asks[x].user = Asks[r].user
  PROVE  /\ request[x].at \notin {"putUser", "putBookings", "book", "edit"}
         /\ request[x].todo = <<>> /\ \A f : f \notin ToSet(request[x].todo)
<1>1. RequestsOK /\ OneByOne
  BY DEF BookingsOK
<1>2. ~(Busy(x) /\ Asks[x].op \in Edits)
  BY <1>1 DEF OneByOne
<1>3. request[x].at \notin {"putUser", "putBookings", "book", "edit"}
  <2>1. Passes(Asks[x].op, request[x].at)
    BY <1>1 DEF RequestsOK
  <2> QED BY <1>2, <2>1 DEF Passes, Busy, Edits
<1>4. request[x].todo = <<>>
  BY <1>1, <1>3 DEF RequestsOK
<1> QED BY <1>3, <1>4, EmptyIs

\* The first of the edits to come is made.
LEMMA EditMade ==
  ASSUME BookingsOK, NEW r \in Requests, request[r].at = "edit",
         NEW edit,
         edit = [op  |-> IF Asks[r].op = "AddBooking" THEN "Append" ELSE "Remove",
                 key |-> Asks[r].user, arg |-> Head(request[r].todo)],
         store' = [store EXCEPT ![Asks[r].user].b = After(@, edit)],
         NEW p \in {"edit", "done"},
         p = "edit" <=> Tail(request[r].todo) # <<>>,
         Turns(r, p, Tail(request[r].todo)),
         UNCHANGED <<taken, disturbed>>
  PROVE  BookingsOK'
<1>1. /\ RequestsOK /\ UsersBook /\ NoUserNoBookings /\ OneByOne /\ StoreOK
      /\ CreatedEmpty /\ BooksTheOthers /\ SeatsButEdits
  BY DEF BookingsOK
<1> PICK u \in Users : u = Asks[r].user
  OBVIOUS
<1> PICK todo : todo = request[r].todo
  OBVIOUS
<1> PICK fl : fl = Head(todo)
  OBVIOUS
<1> PICK rest : rest = Tail(todo)
  OBVIOUS
<1>2. todo \in Seq(Flights) /\ todo # <<>> /\ IsInjective(todo)
  BY <1>1 DEF RequestsOK, RequestType
<1>3. /\ fl \in Flights /\ rest \in Seq(Flights)
      /\ ToSet(todo) = {fl} \cup ToSet(rest)
      /\ fl \notin ToSet(rest) /\ IsInjective(rest)
  <2>1. \A i, j \in DOMAIN todo : todo[i] = todo[j] => i = j
    BY <1>2 DEF IsInjective
  <2>2. fl \notin ToSet(rest)
        /\ \A i, j \in DOMAIN rest : rest[i] = rest[j] => i = j
    <3>1. Head(todo) \notin ToSet(Tail(todo))
          /\ \A i, j \in DOMAIN Tail(todo) : Tail(todo)[i] = Tail(todo)[j] => i = j
      <4> HIDE DEF ToSet
      <4> QED BY ONLY <1>2, <2>1, TailOfDistinct, Zenon
    <3> QED BY <3>1, Zenon
  <2>3. IsInjective(rest)
    BY <2>2 DEF IsInjective
  <2> QED BY <1>2, <2>2, <2>3, ElementsOfTail
<1>4. /\ request'[r].at = p /\ request'[r].todo = rest
      /\ \A x \in Requests \ {r} : request'[x] = request[x]
      /\ request' \in [Requests -> RequestType]
  BY DEF Turns
<1>5. /\ Asks[r].op \in {"AddBooking", "RemoveBooking"} /\ Asks[r].op \in Edits
      /\ Busy(r)
  <2>1. Passes(Asks[r].op, request[r].at)
    BY <1>1 DEF RequestsOK
  <2> QED BY <2>1 DEF Passes, Edits, Busy
<1>6. /\ store' = [v \in Users |-> [n |-> store'[v].n, b |-> store'[v].b]]
      /\ \A v \in Users : store'[v].n = store[v].n
      /\ \A v \in Users \ {u} : store'[v].b = store[v].b
      /\ store'[u].b = After(store[u].b, edit)
  <2>1. store = [v \in Users |-> [n |-> store[v].n, b |-> store[v].b]]
    BY <1>1 DEF StoreOK
  <2>2. store' = [store EXCEPT ![u] = [store[u] EXCEPT !.b = After(store[u].b, edit)]]
    OBVIOUS
  <2>3. store[u] = [n |-> store[u].n, b |-> store[u].b]
    BY <2>1
  <2> DEFINE w == [store[u] EXCEPT !.b = After(store[u].b, edit)]
  <2>4. /\ w = [n |-> w.n, b |-> w.b] /\ w.n = store[u].n
        /\ w.b = After(store[u].b, edit)
    <3>1. \A q, c : q = [n |-> q.n, b |-> q.b]
                      => [q EXCEPT !.b = c] = [n |-> q.n, b |-> c]
      OBVIOUS
    <3>2. w = [n |-> store[u].n, b |-> After(store[u].b, edit)]
      BY <2>3, <3>1, Zenon
    <3> HIDE DEF w
    <3> QED BY <3>2
  <2>5. store' = [store EXCEPT ![u] = w]
    BY <2>2
  <2> HIDE DEF w
  <2>6. \A v \in Users : store'[v] = IF v = u THEN w ELSE store[v]
    BY <2>1, <2>5
  <2>7. \A v \in Users : store[v] = [n |-> store[v].n, b |-> store[v].b]
    BY <2>1
  <2>8. \A v \in Users : store'[v] = [n |-> store'[v].n, b |-> store'[v].b]
    <3>1. ASSUME NEW v \in Users
          PROVE  store'[v] = [n |-> store'[v].n, b |-> store'[v].b]
      <4>1. CASE v = u
        <5>1. store'[v] = w
          BY <2>6, <4>1
        <5> QED BY <2>4, <5>1
      <4>2. CASE v # u
        <5>1. store'[v] = store[v]
          BY <2>6, <4>2
        <5> QED BY <2>7, <5>1
      <4> QED BY <4>1, <4>2
    <3> QED BY <3>1
  <2>9. store' = [v \in Users |-> store'[v]]
    BY <2>1, <2>5
  <2> QED BY <2>4, <2>6, <2>8, <2>9
<1>7. /\ store'[u].b \in {Nothing, NoBookings} \/ IsList(store'[u].b)
      /\ \A f : Has(u, f)' <=> IF Asks[r].op = "AddBooking"
                               THEN Has(u, f) \/ f = fl
                               ELSE Has(u, f) /\ f # fl
  <2> PICK b : b = store[u].b
    OBVIOUS
  <2> DEFINE add == [op |-> "Append", key |-> u, arg |-> fl]
             remove == [op |-> "Remove", key |-> u, arg |-> fl]
  <2>1. b \in {Nothing, NoBookings} \/ IsList(b)
    BY <1>1 DEF StoreOK
  <2>2. /\ After(b, add) \in {Nothing, NoBookings} \/ IsList(After(b, add))
        /\ After(b, remove) \in {Nothing, NoBookings} \/ IsList(After(b, remove))
        /\ \A f : Listed(After(b, add), f) <=> Listed(b, f) \/ f = fl
        /\ \A f : Listed(After(b, remove), f) <=> Listed(b, f) /\ f # fl
    <3>1. fl \in Flights
      BY <1>3
    <3> QED BY ONLY <2>1, <3>1, EditDoes, Zenon
  <2>3. edit = IF Asks[r].op = "AddBooking" THEN add ELSE remove
    BY <1>5
  <2> HIDE DEF add, remove
  <2>4. \A f : Has(u, f) <=> Listed(b, f)
    BY DEF Has
  <2>5. \A f : Has(u, f)' <=> Listed(After(b, edit), f)
    BY <1>6 DEF Has
  <2>6. CASE Asks[r].op = "AddBooking"
    BY <1>6, <2>2, <2>3, <2>4, <2>5, <2>6, SMTT(30)
  <2>7. CASE Asks[r].op # "AddBooking"
    BY <1>6, <2>2, <2>3, <2>4, <2>5, <2>7, SMTT(30)
  <2> QED BY <2>6, <2>7
<1>8. \A v \in Users \ {u} : \A f : Has(v, f)' <=> Has(v, f)
  BY <1>6 DEF Has
<1>9. StoreOK'
  <2>1. \A v \in Users :
          /\ store'[v].n \in {Nothing, Text("new_user")}
          /\ store'[v].b \in {Nothing, NoBookings} \/ IsList(store'[v].b)
    <3>1. \A v \in Users :
            /\ store[v].n \in {Nothing, Text("new_user")}
            /\ store[v].b \in {Nothing, NoBookings} \/ IsList(store[v].b)
      BY <1>1, Zenon DEF StoreOK
    <3>2. \A v \in Users :
            store'[v].b \in {Nothing, NoBookings} \/ IsList(store'[v].b)
      <4> SUFFICES ASSUME NEW v \in Users
                   PROVE  store'[v].b \in {Nothing, NoBookings} \/ IsList(store'[v].b)
        OBVIOUS
      <4>1. CASE v = u
        BY <1>7, <4>1
      <4>2. CASE v # u
        BY <1>6, <3>1, <4>2
      <4> QED BY <4>1, <4>2
    <3> QED BY <1>6, <3>1, <3>2
  <2> QED BY <1>6, <2>1 DEF StoreOK
<1>10. RequestsOK'
  <2>1. ASSUME NEW x \in Requests
        PROVE  /\ request'[x].todo # <<>> <=> request'[x].at = "edit"
               /\ IsInjective(request'[x].todo)
               /\ Passes(Asks[x].op, request'[x].at)
    <3>1. CASE x = r
      BY <1>3, <1>4, <1>5, <3>1 DEF Passes
    <3>2. CASE x # r
      BY <1>1, <1>4, <3>2 DEF RequestsOK
    <3> QED BY <3>1, <3>2
  <2> QED BY <1>4, <2>1 DEF RequestsOK, RequestType
<1>11. UsersBook'
  <2>1. \A x \in Requests : request'[x].at \in {"flights", "list", "book", "edit"}
          => request[x].at \in {"flights", "list", "book", "edit"}
    BY <1>4
  <2> QED BY <1>1, <1>6, <2>1 DEF UsersBook
<1>12. NoUserNoBookings'
  <2>1. store[u].n # Nothing
    BY <1>1, <1>5 DEF UsersBook
  <2>2. ASSUME NEW v \in Users, store'[v].n = Nothing, NEW f \in Flights
        PROVE  ~Has(v, f)'
    <3>1. v # u /\ store[v].n = Nothing
      BY <1>6, <2>1, <2>2
    <3>2. ~Has(v, f)
      BY <1>1, <3>1 DEF NoUserNoBookings
    <3> QED BY <1>8, <3>1, <3>2
  <2> QED BY <2>2, Zenon DEF NoUserNoBookings
<1>13. OneByOne'
  <2>1. \A x \in Requests : Busy(x)' => Busy(x)
    BY <1>4 DEF Busy
  <2> QED BY <1>1, <2>1, Zenon DEF OneByOne
<1>14. ASSUME u \notin disturbed, NEW x \in Requests, x # r, Asks[x].user = u
       PROVE  /\ request[x].at \notin {"putUser", "putBookings", "book", "edit"}
              /\ \A f : f \notin ToSet(request[x].todo)
  BY <1>5, <1>14, OthersWait
<1>15. CreatedEmpty'
  <2> SUFFICES ASSUME NEW x \in Requests,
                      request'[x].at \in {"putUser", "putBookings"},
                      Asks[x].user \notin disturbed, NEW f \in Flights
               PROVE  ~Has(Asks[x].user, f)'
    BY Zenon DEF CreatedEmpty
  <2>1. x # r /\ request[x].at \in {"putUser", "putBookings"}
    BY <1>4
  <2>2. Asks[x].user # u
    BY <1>14, <2>1
  <2> QED BY <1>1, <1>8, <2>1, <2>2 DEF CreatedEmpty
<1>16. BooksTheOthers'
  <2> SUFFICES ASSUME NEW x \in Requests, request'[x].at = "book",
                      Asks[x].user \notin disturbed,
                      NEW f \in ToSet(Asks[x].flights)
               PROVE  Has(Asks[x].user, f)' <=> Asks[x].op = "RemoveBooking"
    BY Zenon DEF BooksTheOthers
  <2>1. x # r /\ request[x].at = "book"
    BY <1>4
  <2>2. Asks[x].user # u
    BY <1>14, <2>1
  <2> QED BY <1>1, <1>8, <2>1, <2>2 DEF BooksTheOthers
<1>17. SeatsButEdits'
  <2> DEFINE Good(v, f) ==
        /\ (\A x \in Requests :
              Asks[x].user = v => f \notin ToSet(request'[x].todo))
             => taken'[v][f] = Seat(Has(v, f)')
        /\ \A x \in Requests :
             Asks[x].user = v /\ f \in ToSet(request'[x].todo)
               => /\ Has(v, f)' <=> Asks[x].op = "RemoveBooking"
                  /\ taken'[v][f] = Seat(Asks[x].op = "AddBooking")
  <2>1. SUFFICES ASSUME NEW v \in Users \ disturbed, NEW f \in Flights
                 PROVE  Good(v, f)
    BY Zenon DEF SeatsButEdits, Seat
  <2>2. /\ (\A x \in Requests :
              Asks[x].user = v => f \notin ToSet(request[x].todo))
             => taken[v][f] = Seat(Has(v, f))
        /\ \A x \in Requests :
             Asks[x].user = v /\ f \in ToSet(request[x].todo)
               => /\ Has(v, f) <=> Asks[x].op = "RemoveBooking"
                  /\ taken[v][f] = Seat(Asks[x].op = "AddBooking")
    BY <1>1, Zenon DEF SeatsButEdits
  <2>3. taken' = taken
    OBVIOUS
  <2>4. CASE v # u
    <3>1. \A x \in Requests : Asks[x].user = v => request'[x] = request[x]
      BY <1>4, <2>4
    <3>2. Seat(Has(v, f)') = Seat(Has(v, f)) /\ (Has(v, f)' <=> Has(v, f))
      BY <1>8, <2>4 DEF Seat
    <3> QED BY <2>2, <2>3, <3>1, <3>2
  <2>5. CASE v = u
    <3>1. \A x \in Requests \ {r} : Asks[x].user = u
            => f \notin ToSet(request[x].todo) /\ f \notin ToSet(request'[x].todo)
      BY <1>4, <1>14, <2>5
    <3>2. CASE f = fl
      <4>1. f \in ToSet(request[r].todo) /\ f \notin ToSet(request'[r].todo)
        BY <1>3, <1>4, <3>2
      <4>2. taken[u][f] = Seat(Asks[r].op = "AddBooking")
            /\ (Has(u, f) <=> Asks[r].op = "RemoveBooking")
        BY <2>2, <2>5, <4>1
      <4>3. Has(u, f)' <=> Asks[r].op = "AddBooking"
        BY <1>5, <1>7, <3>2, <4>2
      <4>4. Seat(Has(u, f)') = Seat(Asks[r].op = "AddBooking")
        BY <4>3 DEF Seat
      <4>5. \A x \in Requests : Asks[x].user = u => f \notin ToSet(request'[x].todo)
        BY <3>1, <4>1
      <4> QED BY <2>3, <2>5, <4>2, <4>4, <4>5
    <3>3. CASE f # fl
      <4>1. f \in ToSet(request'[r].todo) <=> f \in ToSet(request[r].todo)
        BY <1>3, <1>4, <3>3
      <4>2. Has(u, f)' <=> Has(u, f)
        BY <1>7, <3>3
      <4>3. Seat(Has(u, f)') = Seat(Has(u, f))
        BY <4>2 DEF Seat
      <4>4. \A x \in Requests : Asks[x].user = u
              => (f \in ToSet(request'[x].todo) <=> f \in ToSet(request[x].todo))
        BY <3>1, <4>1
      <4> QED BY <2>2, <2>3, <2>5, <4>2, <4>3, <4>4
    <3> QED BY <3>2, <3>3
  <2> QED BY <2>4, <2>5
<1> QED BY <1>9, <1>10, <1>11, <1>12, <1>13, <1>15, <1>16, <1>17 DEF BookingsOK

\* The airlines took the seats of a booking, or those of a cancellation back.
LEMMA SeatsMove ==
  ASSUME BookingsOK,
         NEW r \in Requests, request[r].at = "book",
         NEW quantity,
         quantity = IF Asks[r].op = "RemoveBooking" THEN -1 ELSE 1,
         \A v \in Users : v # Asks[r].user => taken'[v] = taken[v],
         \A f \in Flights : taken'[Asks[r].user][f] =
           IF f \in ToSet(Asks[r].flights) THEN taken[Asks[r].user][f] + quantity
                                           ELSE taken[Asks[r].user][f],
         Turns(r, "edit", Asks[r].flights),
         UNCHANGED <<store, disturbed>>
  PROVE  BookingsOK'
<1>1. /\ RequestsOK /\ UsersBook /\ NoUserNoBookings /\ OneByOne /\ StoreOK
      /\ CreatedEmpty /\ BooksTheOthers /\ SeatsButEdits
  BY DEF BookingsOK
<1>2. StoreOK' /\ NoUserNoBookings'
  BY <1>1 DEF StoreOK, NoUserNoBookings, Has
<1>3. \A v, f : Has(v, f)' <=> Has(v, f)
  BY DEF Has
<1> PICK u \in Users : u = Asks[r].user
  OBVIOUS
<1>4. /\ request'[r].at = "edit" /\ request'[r].todo = Asks[r].flights
      /\ \A x \in Requests \ {r} : request'[x] = request[x]
      /\ request' \in [Requests -> RequestType]
  BY DEF Turns
<1>5. /\ Asks[r].op \in {"AddBooking", "RemoveBooking"} /\ Asks[r].op \in Edits
      /\ Busy(r) /\ request[r].todo = <<>>
  <2>1. Passes(Asks[r].op, request[r].at) /\ request[r].todo = <<>>
    BY <1>1 DEF RequestsOK
  <2> QED BY <2>1 DEF Passes, Edits, Busy
<1>6. RequestsOK'
  <2>1. ASSUME NEW x \in Requests
        PROVE  /\ request'[x].todo # <<>> <=> request'[x].at = "edit"
               /\ IsInjective(request'[x].todo)
               /\ Passes(Asks[x].op, request'[x].at)
    <3>1. CASE x = r
      <4>1. Asks[r].flights # <<>> /\ IsInjective(Asks[r].flights)
        BY <1>5
      <4> QED BY <1>4, <1>5, <3>1, <4>1 DEF Passes
    <3>2. CASE x # r
      BY <1>1, <1>4, <3>2 DEF RequestsOK
    <3> QED BY <3>1, <3>2
  <2> QED BY <1>4, <2>1 DEF RequestsOK, RequestType
<1>7. UsersBook'
  <2>1. \A x \in Requests : request'[x].at \in {"flights", "list", "book", "edit"}
          => request[x].at \in {"flights", "list", "book", "edit"}
    BY <1>4
  <2> QED BY <1>1, <2>1 DEF UsersBook
<1>8. OneByOne'
  <2>1. \A x \in Requests : Busy(x)' => Busy(x)
    BY <1>4, <1>5 DEF Busy
  <2> QED BY <1>1, <2>1, Zenon DEF OneByOne
<1>9. CreatedEmpty'
  <2>1. \A x \in Requests : request'[x].at \in {"putUser", "putBookings"}
          => request[x].at \in {"putUser", "putBookings"}
    BY <1>4
  <2> QED BY <1>1, <1>3, <2>1 DEF CreatedEmpty
<1>10. BooksTheOthers'
  <2>1. \A x \in Requests : request'[x].at = "book" => request[x].at = "book"
    BY <1>4
  <2> QED BY <1>1, <1>3, <2>1 DEF BooksTheOthers
<1>11. SeatsButEdits'
  <2> DEFINE Good(v, f) ==
        /\ (\A x \in Requests :
              Asks[x].user = v => f \notin ToSet(request'[x].todo))
             => taken'[v][f] = Seat(Has(v, f)')
        /\ \A x \in Requests :
             Asks[x].user = v /\ f \in ToSet(request'[x].todo)
               => /\ Has(v, f)' <=> Asks[x].op = "RemoveBooking"
                  /\ taken'[v][f] = Seat(Asks[x].op = "AddBooking")
  <2>1. SUFFICES ASSUME NEW v \in Users \ disturbed, NEW f \in Flights
                 PROVE  Good(v, f)
    BY Zenon DEF SeatsButEdits, Seat
  <2>2. /\ (\A x \in Requests :
              Asks[x].user = v => f \notin ToSet(request[x].todo))
             => taken[v][f] = Seat(Has(v, f))
        /\ \A x \in Requests :
             Asks[x].user = v /\ f \in ToSet(request[x].todo)
               => /\ Has(v, f) <=> Asks[x].op = "RemoveBooking"
                  /\ taken[v][f] = Seat(Asks[x].op = "AddBooking")
    BY <1>1, Zenon DEF SeatsButEdits
  <2>3. Seat(Has(v, f)') = Seat(Has(v, f)) /\ (Has(v, f)' <=> Has(v, f))
    BY <1>3 DEF Seat
  <2>4. CASE v # u
    <3>1. \A x \in Requests : Asks[x].user = v => request'[x] = request[x]
      BY <1>4, <2>4
    <3>2. taken'[v] = taken[v]
      BY <2>4
    <3> QED BY <2>2, <2>3, <3>1, <3>2
  <2>5. CASE v = u
    <3>1. \A x \in Requests \ {r} : Asks[x].user = u
            => f \notin ToSet(request[x].todo) /\ f \notin ToSet(request'[x].todo)
      BY <1>4, <1>5, <2>5, OthersWait
    <3>2. f \notin ToSet(request[r].todo)
      BY <1>5, EmptyIs
    <3>3. taken[u][f] = Seat(Has(u, f))
      BY <2>2, <2>5, <3>1, <3>2
    <3>4. taken'[u][f] = IF f \in ToSet(Asks[r].flights)
                         THEN taken[u][f] + quantity ELSE taken[u][f]
      OBVIOUS
    <3>5. CASE f \in ToSet(Asks[r].flights)
      <4>1. Has(u, f) <=> Asks[r].op = "RemoveBooking"
        BY <1>1, <2>5, <3>5 DEF BooksTheOthers
      <4>2. taken'[u][f] = Seat(Asks[r].op = "AddBooking")
        <5>1. CASE Asks[r].op = "RemoveBooking"
          BY <3>3, <3>4, <3>5, <4>1, <5>1 DEF Seat
        <5>2. CASE Asks[r].op = "AddBooking"
          BY <3>3, <3>4, <3>5, <4>1, <5>2 DEF Seat
        <5> QED BY <1>5, <5>1, <5>2
      <4>3. f \in ToSet(request'[r].todo)
        BY <1>4, <3>5
      <4>4. \A x \in Requests : Asks[x].user = u /\ f \in ToSet(request'[x].todo)
              => x = r
        BY <3>1
      <4> QED BY <2>3, <2>5, <4>1, <4>2, <4>3, <4>4
    <3>6. CASE f \notin ToSet(Asks[r].flights)
      <4>1. taken'[u][f] = Seat(Has(u, f))
        BY <3>3, <3>4, <3>6
      <4>2. \A x \in Requests : Asks[x].user = u => f \notin ToSet(request'[x].todo)
        BY <1>4, <3>1, <3>6
      <4> QED BY <2>3, <2>5, <4>1, <4>2
    <3> QED BY <3>5, <3>6
  <2> QED BY <2>4, <2>5
<1> QED BY <1>2, <1>6, <1>7, <1>8, <1>9, <1>10, <1>11 DEF BookingsOK


\* The same for a request that writes nothing.
LEMMA RequestGoes ==
  ASSUME BookingsOK, disturbed \subseteq disturbed', UNCHANGED <<store, taken>>,
         NEW r \in Requests, NEW p \in Stages \ {"edit"}, Turns(r, p, <<>>),
         Passes(Asks[r].op, p),
         request[r].at = "edit" => Asks[r].user \in disturbed',
         p \in {"flights", "list", "book"} /\ Asks[r].op \in Edits
           => store[Asks[r].user].n # Nothing,
         \/ p \in {"new", "done", "lost"} \/ Asks[r].op \notin Edits \/ Busy(r)
         \/ Asks[r].user \in disturbed'
         \/ \A x \in Requests : Busy(x) /\ Asks[x].op \in Edits
              => Asks[x].user # Asks[r].user,
         p \in {"putUser", "putBookings"} /\ Asks[r].user \notin disturbed'
           => \A f \in Flights : ~Has(Asks[r].user, f),
         p = "book" /\ Asks[r].user \notin disturbed'
           => \A f \in ToSet(Asks[r].flights) :
                Has(Asks[r].user, f) <=> Asks[r].op = "RemoveBooking"
  PROVE  BookingsOK'
<1>1. StoreOK'
  BY DEF BookingsOK, StoreOK
<1>2. \A u, f : Has(u, f)' <=> Has(u, f)
  BY DEF Has
<1>3. \A u \in Users : store'[u].n = store[u].n
  OBVIOUS
<1> QED BY <1>1, <1>2, <1>3, RequestMoves

LEMMA RequestEnds ==
  ASSUME BookingsOK, disturbed \subseteq disturbed', UNCHANGED <<store, taken>>,
         NEW r \in Requests, NEW s \in Statuses, Ends(r, s),
         request[r].at = "edit" => Asks[r].user \in disturbed'
  PROVE  BookingsOK'
<1>1. RequestsOK
  BY DEF BookingsOK
<1>2. "done" \in Stages \ {"edit"}
  BY DEF Stages
<1>3. Turns(r, "done", <<>>)
  <2>1. <<>> \in Seq(Flights)
    BY EmptyIs
  <2> QED BY <1>1, <1>2, <2>1, TurnsIs
<1>4. Passes(Asks[r].op, "done")
  BY DEF Passes
<1> QED BY <1>2, <1>3, <1>4, RequestGoes

LEMMA DisturbsIs ==
  ASSUME disturbed \subseteq Users, NEW r \in Requests, NEW b, Disturbs(r, b)
  PROVE  /\ disturbed \subseteq disturbed' /\ disturbed' \subseteq Users
         /\ b => Asks[r].user \in disturbed'
BY DEF Disturbs

LEMMA SlotsKept ==
  ASSUME SlotsOK, UNCHANGED <<slot, taken>>, disturbed' \subseteq Users
  PROVE  SlotsOK'
BY DEF SlotsOK

\* All orders together have the flights asked for.
LEMMA OrderedIs ==
  ASSUME NEW fs
  PROVE  UNION {Orders(fs)[a] : a \in DOMAIN Orders(fs)} = ToSet(fs)
<1> DEFINE orders == Orders(fs)
           ordered == UNION {orders[a] : a \in DOMAIN orders}
<1> PICK S : S = ToSet(fs)
  OBVIOUS
<1>1. orders = [a \in {AirlineOf[f] : f \in S} |-> {f \in S : AirlineOf[f] = a}]
  BY Zenon DEF Orders
<1> HIDE DEF orders
<1>2. ASSUME NEW f \in ordered PROVE f \in S
  <2>1. PICK a \in DOMAIN orders : f \in orders[a]
    OBVIOUS
  <2> QED BY <1>1, <2>1
<1>3. ASSUME NEW f \in S PROVE f \in ordered
  <2> PICK a : a = AirlineOf[f]
    OBVIOUS
  <2>1. a \in DOMAIN orders /\ f \in orders[a]
    BY <1>1
  <2> QED BY <2>1
<1> HIDE DEF ordered
<1>4. ordered = S
  BY <1>2, <1>3
<1> QED BY <1>4, Zenon DEF ordered, orders

LEMMA UserChecked ==
  ASSUME SlotsOK, BookingsOK, NEW r \in Requests, CheckUser(r)
  PROVE  SlotsOK' /\ BookingsOK'
<1>1. PICK outcome \in Outcomes :
        LET there == store[Asks[r].user].n # Nothing
            exists == there /\ outcome = "called"
        IN
        /\ IF Asks[r].op = "CreateUser"
           THEN IF exists THEN Ends(r, "EEXISTS") ELSE Goes(r, "putUser")
           ELSE IF exists THEN Goes(r, "flights") ELSE Ends(r, "ENOSUCHUSER")
        /\ Disturbs(r, Asks[r].op = "CreateUser" /\ there /\ ~exists)
  BY DEF CheckUser
<1> DEFINE there == store[Asks[r].user].n # Nothing
           exists == there /\ outcome = "called"
<1>2. request[r].at = "user" /\ UNCHANGED <<store, slot, taken>>
  BY DEF CheckUser
<1>3. /\ RequestsOK /\ NoUserNoBookings /\ request[r].todo = <<>>
      /\ Passes(Asks[r].op, "user") /\ Asks[r].user \in Users
  BY <1>2 DEF BookingsOK, RequestsOK
<1>4. Asks[r].op \in Edits /\ Busy(r)
  BY <1>2, <1>3 DEF Passes, Busy
<1>5. /\ disturbed \subseteq disturbed' /\ disturbed' \subseteq Users
      /\ Asks[r].op = "CreateUser" /\ there /\ ~exists
           => Asks[r].user \in disturbed'
  BY <1>1, DisturbsIs DEF SlotsOK
<1>6. SlotsOK'
  BY <1>2, <1>5, SlotsKept
<1>7. CASE Ends(r, "EEXISTS") \/ Ends(r, "ENOSUCHUSER")
  <2>1. "EEXISTS" \in Statuses /\ "ENOSUCHUSER" \in Statuses
    BY DEF Statuses
  <2>2. PICK s \in Statuses : Ends(r, s)
    BY <1>7, <2>1
  <2>3. request[r].at # "edit"
    BY <1>2
  <2> QED BY <1>2, <1>5, <1>6, <2>2, <2>3, RequestEnds
<1>8. CASE Asks[r].op = "CreateUser" /\ ~exists /\ Goes(r, "putUser")
  <2>1. "putUser" \in Stages \ {"edit"}
    BY DEF Stages
  <2>2. Turns(r, "putUser", <<>>)
    <3>1. Goes(r, "putUser") => Turns(r, "putUser", request[r].todo)
      <4>1. <<>> \in Seq(Flights)
        BY EmptyIs
      <4>2. "OK" \in Statuses
        BY DEF Statuses
      <4> QED BY <1>3, <2>1, <4>1, <4>2, TurnsIs
    <3> QED BY <1>3, <1>8, <3>1
  <2>3. Passes(Asks[r].op, "putUser")
    BY <1>8 DEF Passes
  <2>4. Asks[r].user \notin disturbed'
          => \A f \in Flights : ~Has(Asks[r].user, f)
    BY <1>3, <1>5, <1>8 DEF NoUserNoBookings
  <2> HIDE DEF there, exists
  <2> QED BY <1>2, <1>4, <1>5, <1>6, <2>1, <2>2, <2>3, <2>4, RequestGoes
<1>9. CASE Asks[r].op # "CreateUser" /\ exists /\ Goes(r, "flights")
  <2>1. "flights" \in Stages \ {"edit"}
    BY DEF Stages
  <2>2. Turns(r, "flights", <<>>)
    <3>1. Goes(r, "flights") => Turns(r, "flights", request[r].todo)
      <4>1. <<>> \in Seq(Flights)
        BY EmptyIs
      <4>2. "OK" \in Statuses
        BY DEF Statuses
      <4> QED BY <1>3, <2>1, <4>1, <4>2, TurnsIs
    <3> QED BY <1>3, <1>9, <3>1
  <2>3. Passes(Asks[r].op, "flights")
    BY <1>4, <1>9 DEF Passes, Edits
  <2>4. store[Asks[r].user].n # Nothing
    BY <1>9
  <2> HIDE DEF there, exists
  <2> QED BY <1>2, <1>4, <1>5, <1>6, <2>1, <2>2, <2>3, <2>4, RequestGoes
<1> QED BY <1>1, <1>7, <1>8, <1>9

LEMMA UserPut ==
  ASSUME SlotsOK, BookingsOK, NEW r \in Requests, PutUser(r)
  PROVE  SlotsOK' /\ BookingsOK'
<1>1. PICK outcome \in Outcomes :
        /\ store' = IF outcome = "failed" THEN store
                    ELSE [store EXCEPT ![Asks[r].user].n = Text("new_user")]
        /\ request' = [request EXCEPT ![r].at = "putBookings",
                                      ![r].status = outcome]
  BY DEF PutUser
<1>2. request[r].at = "putUser" /\ UNCHANGED <<slot, taken, disturbed>>
  BY DEF PutUser
<1>3. /\ RequestsOK /\ NoUserNoBookings /\ StoreOK /\ CreatedEmpty
      /\ request[r].todo = <<>>
      /\ Passes(Asks[r].op, "putUser") /\ Asks[r].user \in Users
  BY <1>2 DEF BookingsOK, RequestsOK
<1>4. Asks[r].op = "CreateUser" /\ Asks[r].op \in Edits /\ Busy(r)
  BY <1>2, <1>3 DEF Passes, Busy, Edits
<1>5. SlotsOK'
  BY <1>2 DEF SlotsOK
<1> PICK u \in Users : u = Asks[r].user
  OBVIOUS
<1> PICK new : new = Text("new_user")
  OBVIOUS
<1>6. Nothing # new
  BY DEF Nothing, Text
<1>7. /\ store' = [v \in Users |-> [n |-> store'[v].n, b |-> store'[v].b]]
      /\ \A v \in Users : /\ store'[v].n \in {store[v].n, new}
                          /\ store'[v].b = store[v].b
  <2>1. store = [v \in Users |-> [n |-> store[v].n, b |-> store[v].b]]
    BY <1>3 DEF StoreOK
  <2>2. CASE outcome = "failed"
    BY <1>1, <2>1, <2>2
  <2>3. CASE outcome # "failed"
    <3> PICK w : w = [n |-> new, b |-> store[u].b]
      OBVIOUS
    <3>1. w = [store[u] EXCEPT !.n = new]
      <4>1. \A q, c : q = [n |-> q.n, b |-> q.b]
                        => [q EXCEPT !.n = c] = [n |-> c, b |-> q.b]
        OBVIOUS
      <4>2. store[u] = [n |-> store[u].n, b |-> store[u].b]
        BY <2>1
      <4> QED BY <4>1, <4>2, Zenon
    <3>2. store' = [store EXCEPT ![u] = w]
      BY <1>1, <2>3, <3>1
    <3>3. w.n = new /\ w.b = store[u].b /\ w = [n |-> w.n, b |-> w.b]
      OBVIOUS
    <3>4. \A v \in Users : store'[v] = IF v = u THEN w ELSE store[v]
      BY <2>1, <3>2
    <3>5. \A v \in Users : store[v] = [n |-> store[v].n, b |-> store[v].b]
      BY <2>1
    <3>6. \A v \in Users : store'[v] = [n |-> store'[v].n, b |-> store'[v].b]
      <4>1. ASSUME NEW v \in Users
            PROVE  store'[v] = [n |-> store'[v].n, b |-> store'[v].b]
        <5>1. CASE v = u
          <6>1. store'[v] = w
            BY <3>4, <5>1
          <6> QED BY <3>3, <6>1
        <5>2. CASE v # u
          <6>1. store'[v] = store[v]
            BY <3>4, <5>2
          <6> QED BY <3>5, <6>1
        <5> QED BY <5>1, <5>2
      <4> QED BY <4>1, Zenon
    <3>7. store' = [v \in Users |-> store'[v]]
      BY <2>1, <3>2
    <3> QED BY <3>3, <3>4, <3>6, <3>7
  <2> QED BY <2>2, <2>3
<1>8. StoreOK'
  BY <1>3, <1>7 DEF StoreOK
<1>9. \A v \in Users, f \in Flights : Has(v, f)' <=> Has(v, f)
  BY <1>7 DEF Has
<1>10. \A v \in Users : store'[v].n = Nothing => store[v].n = Nothing
  BY <1>6, <1>7
<1>11. "putBookings" \in Stages \ {"edit"}
  BY DEF Stages
<1>12. Turns(r, "putBookings", <<>>)
  <2>0. outcome \in Statuses
    BY DEF Outcomes, Statuses
  <2>1. outcome \in Statuses /\ <<>> \in Seq(Flights)
    BY <2>0, EmptyIs
  <2>2. request' = [request EXCEPT ![r].at = "putBookings", ![r].status = outcome]
          => Turns(r, "putBookings", request[r].todo)
    BY <1>3, <1>11, <2>1, TurnsIs
  <2> QED BY <1>1, <1>3, <2>2
<1>13. Passes(Asks[r].op, "putBookings")
  BY <1>4 DEF Passes
<1>14. Asks[r].user \notin disturbed' => \A f \in Flights : ~Has(Asks[r].user, f)
  BY <1>2, <1>3 DEF CreatedEmpty
<1> QED
  BY <1>2, <1>4, <1>5, <1>8, <1>9, <1>10, <1>11, <1>12, <1>13, <1>14, RequestMoves

LEMMA BookingsPut ==
  ASSUME SlotsOK, BookingsOK, NEW r \in Requests, PutBookings(r)
  PROVE  SlotsOK' /\ BookingsOK'
<1>1. PICK outcome \in Outcomes :
        /\ store' = IF outcome = "failed" THEN store
                    ELSE [store EXCEPT ![Asks[r].user].b = NoBookings]
        /\ Ends(r, IF "failed" \in {outcome, request[r].status}
                   THEN "error" ELSE "OK")
  BY DEF PutBookings
<1>2. request[r].at = "putBookings" /\ UNCHANGED <<slot, taken, disturbed>>
  BY DEF PutBookings
<1>3. /\ RequestsOK /\ NoUserNoBookings /\ StoreOK /\ CreatedEmpty
      /\ request[r].todo = <<>> /\ Asks[r].user \in Users
  BY <1>2 DEF BookingsOK, RequestsOK
<1>4. SlotsOK'
  BY <1>2 DEF SlotsOK
<1> PICK u \in Users : u = Asks[r].user
  OBVIOUS
<1>5. /\ store' = [v \in Users |-> [n |-> store'[v].n, b |-> store'[v].b]]
      /\ \A v \in Users : /\ store'[v].n = store[v].n
                          /\ \/ store'[v].b = store[v].b
                             \/ v = u /\ store'[v].b = NoBookings
  <2>1. store = [v \in Users |-> [n |-> store[v].n, b |-> store[v].b]]
    BY <1>3 DEF StoreOK
  <2>2. CASE outcome = "failed"
    BY <1>1, <2>1, <2>2
  <2>3. CASE outcome # "failed"
    <3> PICK w : w = [n |-> store[u].n, b |-> NoBookings]
      OBVIOUS
    <3>1. w = [store[u] EXCEPT !.b = NoBookings]
      <4>1. \A q, c : q = [n |-> q.n, b |-> q.b]
                        => [q EXCEPT !.b = c] = [n |-> q.n, b |-> c]
        OBVIOUS
      <4>2. store[u] = [n |-> store[u].n, b |-> store[u].b]
        BY <2>1
      <4> QED BY <4>1, <4>2, Zenon
    <3>2. store' = [store EXCEPT ![u] = w]
      BY <1>1, <2>3, <3>1
    <3>3. w.n = store[u].n /\ w.b = NoBookings /\ w = [n |-> w.n, b |-> w.b]
      OBVIOUS
    <3>4. \A v \in Users : store'[v] = IF v = u THEN w ELSE store[v]
      BY <2>1, <3>2
    <3>5. \A v \in Users : store[v] = [n |-> store[v].n, b |-> store[v].b]
      BY <2>1
    <3>6. \A v \in Users : store'[v] = [n |-> store'[v].n, b |-> store'[v].b]
      <4>1. ASSUME NEW v \in Users
            PROVE  store'[v] = [n |-> store'[v].n, b |-> store'[v].b]
        <5>1. CASE v = u
          <6>1. store'[v] = w
            BY <3>4, <5>1
          <6> QED BY <3>3, <6>1
        <5>2. CASE v # u
          <6>1. store'[v] = store[v]
            BY <3>4, <5>2
          <6> QED BY <3>5, <6>1
        <5> QED BY <5>1, <5>2
      <4> QED BY <4>1, Zenon
    <3>7. store' = [v \in Users |-> store'[v]]
      BY <2>1, <3>2
    <3> QED BY <3>3, <3>4, <3>6, <3>7
  <2> QED BY <2>2, <2>3
<1>6. StoreOK'
  <2>1. \A v \in Users :
          /\ store[v].n \in {Nothing, Text("new_user")}
          /\ store[v].b \in {Nothing, NoBookings} \/ IsList(store[v].b)
    BY <1>3, Zenon DEF StoreOK
  <2>2. \A v \in Users :
          /\ store'[v].n \in {Nothing, Text("new_user")}
          /\ store'[v].b \in {Nothing, NoBookings} \/ IsList(store'[v].b)
    BY <1>5, <2>1
  <2> QED BY <1>5, <2>2 DEF StoreOK
<1>7. \A v \in Users, f \in Flights :
        (Has(v, f)' <=> Has(v, f)) \/ (v = u /\ ~Has(v, f)')
  <2>1. \A f : ~Listed(NoBookings, f)
    BY NoListIs
  <2> QED BY <1>5, <2>1 DEF Has
<1>8. u \notin disturbed => \A f \in Flights : ~Has(u, f)
  BY <1>2, <1>3 DEF CreatedEmpty
<1>9. "done" \in Stages \ {"edit"}
  BY DEF Stages
<1>10. Turns(r, "done", <<>>)
  <2>1. <<>> \in Seq(Flights)
    BY EmptyIs
  <2>2. \A s \in Statuses : Ends(r, s) => Turns(r, "done", <<>>)
    BY <1>3, <1>9, <2>1, TurnsIs
  <2>3. "error" \in Statuses /\ "OK" \in Statuses
    BY DEF Statuses
  <2>4. \E s \in Statuses : Ends(r, s)
    BY <1>1, <2>3
  <2> QED BY <2>2, <2>4
<1>11. Passes(Asks[r].op, "done")
  BY DEF Passes
<1>12. /\ \A v \in Users, f \in Flights : Has(v, f)' => Has(v, f)
       /\ \A v \in Users \ disturbed', f \in Flights : Has(v, f)' <=> Has(v, f)
       /\ \A v \in Users : store'[v].n = Nothing => store[v].n = Nothing
  BY <1>2, <1>5, <1>7, <1>8
<1> QED
  BY <1>2, <1>4, <1>6, <1>9, <1>10, <1>11, <1>12, RequestMoves


LEMMA FlightsChecked ==
  ASSUME SlotsOK, BookingsOK, NEW r \in Requests, CheckFlights(r)
  PROVE  SlotsOK' /\ BookingsOK'
<1>1. request[r].at = "flights" /\ UNCHANGED <<store, slot, taken, disturbed>>
  BY DEF CheckFlights
<1>2. Goes(r, "list") \/ Ends(r, "EBOOKINGFAILED")
  BY DEF CheckFlights
<1>3. /\ RequestsOK /\ UsersBook /\ request[r].todo = <<>>
      /\ Passes(Asks[r].op, "flights")
  BY <1>1 DEF BookingsOK, RequestsOK
<1>4. SlotsOK'
  BY <1>1 DEF SlotsOK
<1>5. CASE Ends(r, "EBOOKINGFAILED")
  <2>1. "EBOOKINGFAILED" \in Statuses
    BY DEF Statuses
  <2> QED BY <1>1, <1>4, <1>5, <2>1, RequestEnds
<1>6. CASE Goes(r, "list")
  <2>1. "list" \in Stages \ {"edit"}
    BY DEF Stages
  <2>2. Turns(r, "list", <<>>)
    <3>1. <<>> \in Seq(Flights)
      BY EmptyIs
    <3>2. "OK" \in Statuses
      BY DEF Statuses
    <3>3. Goes(r, "list") => Turns(r, "list", request[r].todo)
      BY <1>3, <2>1, <3>1, <3>2, TurnsIs
    <3> QED BY <1>3, <1>6, <3>3
  <2>3. Passes(Asks[r].op, "list") /\ Busy(r) /\ Asks[r].op \in Edits
    BY <1>1, <1>3 DEF Passes, Busy, Edits
  <2>4. store[Asks[r].user].n # Nothing
    BY <1>1, <1>3, <2>3 DEF UsersBook
  <2> QED BY <1>1, <1>4, <2>1, <2>2, <2>3, <2>4, RequestGoes
<1> QED BY <1>2, <1>5, <1>6

LEMMA BookingsGot ==
  ASSUME SlotsOK, BookingsOK, NEW r \in Requests, GetBookings(r)
  PROVE  SlotsOK' /\ BookingsOK'
<1>1. request[r].at = "list" /\ UNCHANGED <<store, slot, taken, disturbed>>
  BY DEF GetBookings
<1>2. Ends(r, "ENOSUCHUSER") \/ Ends(r, "error") \/ Ends(r, "OK")
  BY DEF GetBookings
<1>3. SlotsOK'
  BY <1>1 DEF SlotsOK
<1>4. PICK s \in Statuses : Ends(r, s)
  BY <1>2 DEF Statuses
<1> QED BY <1>1, <1>3, <1>4, RequestEnds

\* What GetList of the bookings of a user answers.
LEMMA GetListIs ==
  ASSUME NEW v, v \in {Nothing, NoBookings} \/ IsList(v)
  PROVE  LET list == Reading(v, "GetList") IN
         list # Nothing => \A f : f \in ToSet(list.items) <=> Listed(v, f)
<1> PICK list : list = Reading(v, "GetList")
  OBVIOUS
<1>1. list = IF v.kind = "string" THEN ListOf(<<>>) ELSE v
  BY DEF Reading
<1>2. CASE v = Nothing
  <2>1. v.kind = "none"
    BY <1>2 DEF Nothing
  <2> QED BY <1>1, <1>2, <2>1
<1>3. CASE v = NoBookings
  <2>1. NoBookings.kind = "string"
    BY Zenon DEF NoBookings, Text
  <2>2. list = ListOf(<<>>) /\ \A f : ~Listed(v, f)
    BY <1>1, <1>3, <2>1, NoListIs
  <2>3. ListOf(<<>>).items = <<>>
    BY DEF ListOf
  <2>4. \A f : f \notin ToSet(<<>>)
    BY EmptyIs
  <2> QED BY <2>2, <2>3, <2>4, Zenon
<1>4. CASE IsList(v)
  <2> PICK s : s = v.items
    OBVIOUS
  <2>1. s \in Seq(Flights) /\ IsInjective(s) /\ v = ListOf(s)
    BY <1>4 DEF IsList
  <2>2. v.kind = "list" /\ \A f : Listed(v, f) <=> f \in ToSet(s)
    BY <2>1, ListIs
  <2>3. list = v
    BY <1>1, <2>2
  <2> QED BY <2>2, <2>3
<1> QED BY <1>2, <1>3, <1>4

LEMMA ListRead ==
  ASSUME SlotsOK, BookingsOK, NEW r \in Requests, ReadList(r)
  PROVE  SlotsOK' /\ BookingsOK'
<1> PICK list : list = Bookings(Asks[r].user)
  OBVIOUS
<1> DEFINE fs == Asks[r].flights
           adds == Asks[r].op = "AddBooking"
<1>1. /\ request[r].at = "list" /\ Asks[r].op # "GetBookings"
      /\ UNCHANGED <<store, slot, taken>>
      /\ \E outcome \in Outcomes :
           IF outcome = "failed" \/ list = Nothing
           THEN Ends(r, "EBOOKINGFAILED") /\ UNCHANGED disturbed
           ELSE /\ IF Exist(fs, list) # adds
                   THEN Goes(r, "book")
                   ELSE Ends(r, IF adds THEN "EEXISTS" ELSE "ENOTBOOKED")
                /\ Disturbs(r, /\ ~adds /\ Exist(fs, list)
                               /\ ~(ToSet(fs) \subseteq ToSet(list.items)))
  BY DEF ReadList
<1>2. /\ RequestsOK /\ UsersBook /\ StoreOK /\ request[r].todo = <<>>
      /\ Passes(Asks[r].op, "list") /\ Asks[r].user \in Users
  BY <1>1 DEF BookingsOK, RequestsOK
<1>3. /\ Busy(r) /\ Asks[r].op \in {"AddBooking", "RemoveBooking"}
      /\ Asks[r].op \in Edits
  BY <1>1, <1>2 DEF Passes, Busy, Edits
<1>4. list # Nothing
        => \A f : f \in ToSet(list.items) <=> Has(Asks[r].user, f)
  <2> PICK b : b = store[Asks[r].user].b
    OBVIOUS
  <2>1. b \in {Nothing, NoBookings} \/ IsList(b)
    BY <1>2 DEF StoreOK
  <2>2. list = Reading(b, "GetList")
    BY DEF Bookings
  <2>3. list # Nothing => \A f : f \in ToSet(list.items) <=> Listed(b, f)
    BY <2>1, <2>2, GetListIs
  <2> QED BY <2>3 DEF Has
<1>5. \/ UNCHANGED disturbed /\ \E s \in Statuses : Ends(r, s)
      \/ /\ \E s \in Statuses : Ends(r, s)
         /\ \E b : Disturbs(r, b)
      \/ /\ list # Nothing /\ Exist(fs, list) # adds /\ Goes(r, "book")
         /\ Disturbs(r, /\ ~adds /\ Exist(fs, list)
                        /\ ~(ToSet(fs) \subseteq ToSet(list.items)))
  <2>1. /\ "EBOOKINGFAILED" \in Statuses /\ "EEXISTS" \in Statuses
        /\ "ENOTBOOKED" \in Statuses
    BY DEF Statuses
  <2> QED BY <1>1, <2>1
<1>6. CASE /\ \E s \in Statuses : Ends(r, s)
           /\ UNCHANGED disturbed \/ \E b : Disturbs(r, b)
  <2>1. disturbed \subseteq disturbed' /\ disturbed' \subseteq Users
    <3>1. CASE UNCHANGED disturbed
      BY <3>1 DEF SlotsOK
    <3>2. CASE \E b : Disturbs(r, b)
      BY <3>2, DisturbsIs DEF SlotsOK
    <3> QED BY <1>6, <3>1, <3>2
  <2>2. SlotsOK'
    BY <1>1, <2>1, SlotsKept
  <2>3. PICK s \in Statuses : Ends(r, s)
    BY <1>6
  <2> QED BY <1>1, <2>1, <2>2, <2>3, RequestEnds
<1>7. CASE /\ list # Nothing /\ Exist(fs, list) # adds /\ Goes(r, "book")
           /\ Disturbs(r, /\ ~adds /\ Exist(fs, list)
                          /\ ~(ToSet(fs) \subseteq ToSet(list.items)))
  <2>1. /\ disturbed \subseteq disturbed' /\ disturbed' \subseteq Users
        /\ ~adds /\ Exist(fs, list) /\ ~(ToSet(fs) \subseteq ToSet(list.items))
             => Asks[r].user \in disturbed'
    BY <1>7, DisturbsIs DEF SlotsOK
  <2>2. SlotsOK'
    BY <1>1, <2>1, SlotsKept
  <2>3. "book" \in Stages \ {"edit"}
    BY DEF Stages
  <2>4. Turns(r, "book", <<>>)
    <3>1. <<>> \in Seq(Flights)
      BY EmptyIs
    <3>2. "OK" \in Statuses
      BY DEF Statuses
    <3>3. Goes(r, "book") => Turns(r, "book", request[r].todo)
      BY <1>2, <2>3, <3>1, <3>2, TurnsIs
    <3> QED BY <1>2, <1>7, <3>3
  <2>5. Passes(Asks[r].op, "book")
    BY <1>3 DEF Passes
  <2>6. store[Asks[r].user].n # Nothing
    BY <1>1, <1>2, <1>3 DEF UsersBook
  <2>7. ASSUME Asks[r].user \notin disturbed', NEW f \in ToSet(fs)
        PROVE  Has(Asks[r].user, f) <=> Asks[r].op = "RemoveBooking"
    <3>1. Has(Asks[r].user, f) <=> f \in ToSet(list.items)
      BY <1>4, <1>7
    <3>2. CASE adds
      <4>1. ~Exist(fs, list)
        BY <1>7, <3>2
      <4> QED BY <2>7, <3>1, <3>2, <4>1 DEF Exist
    <3>3. CASE ~adds
      <4>1. Exist(fs, list)
        BY <1>7, <3>3 DEF Exist
      <4>2. f \in ToSet(list.items)
        BY <2>1, <2>7, <3>3, <4>1
      <4> QED BY <1>3, <3>1, <3>3, <4>2
    <3> QED BY <3>2, <3>3
  <2> HIDE DEF adds
  <2> QED BY <1>1, <1>3, <2>1, <2>2, <2>3, <2>4, <2>5, <2>6, <2>7, RequestGoes
<1> QED BY <1>5, <1>6, <1>7

LEMMA BookingMade ==
  ASSUME SlotsOK, BookingsOK, NEW r \in Requests, MakeBooking(r)
  PROVE  SlotsOK' /\ BookingsOK'
<1> PICK quantity : quantity = IF Asks[r].op = "RemoveBooking" THEN -1 ELSE 1
  OBVIOUS
<1> PICK ordered : ordered = ToSet(Asks[r].flights)
  OBVIOUS
<1>1. /\ request[r].at = "book" /\ UNCHANGED <<store, disturbed>>
      /\ \/ Ends(r, "EBOOKINGFAILED") /\ UNCHANGED <<slot, taken>>
         \/ /\ \A f \in ordered : slot[f] - quantity >= 0
            /\ slot' = [f \in DOMAIN slot |->
                          IF f \in ordered THEN slot[f] - quantity ELSE slot[f]]
            /\ taken' = [taken EXCEPT ![Asks[r].user] = [f \in Flights |->
                           IF f \in ordered THEN @[f] + quantity ELSE @[f]]]
            /\ request' = [request EXCEPT ![r].at = "edit",
                                          ![r].todo = Asks[r].flights]
  <2>1. UNION {Orders(Asks[r].flights)[a] : a \in DOMAIN Orders(Asks[r].flights)}
          = ordered
    BY OrderedIs
  <2> HIDE DEF Orders
  <2> QED BY <2>1, ZenonT(40) DEF MakeBooking
<1>2. CASE Ends(r, "EBOOKINGFAILED") /\ UNCHANGED <<slot, taken>>
  <2>1. "EBOOKINGFAILED" \in Statuses
    BY DEF Statuses
  <2>2. SlotsOK'
    BY <1>1, <1>2 DEF SlotsOK
  <2> QED BY <1>1, <1>2, <2>1, <2>2, RequestEnds
<1>3. CASE /\ \A f \in ordered : slot[f] - quantity >= 0
           /\ slot' = [f \in DOMAIN slot |->
                         IF f \in ordered THEN slot[f] - quantity ELSE slot[f]]
           /\ taken' = [taken EXCEPT ![Asks[r].user] = [f \in Flights |->
                          IF f \in ordered THEN @[f] + quantity ELSE @[f]]]
           /\ request' = [request EXCEPT ![r].at = "edit",
                                         ![r].todo = Asks[r].flights]
  <2>1. Turns(r, "edit", Asks[r].flights)
    <3>1. "OK" \in Statuses
      BY DEF Statuses
    <3>2. "edit" \in Stages
      BY DEF Stages
    <3>3. RequestsOK /\ Asks[r].flights \in Seq(Flights)
      BY DEF BookingsOK
    <3> QED BY <1>3, <3>1, <3>2, <3>3, TurnsIs
  <2>2. taken \in [Users -> [Flights -> Int]]
    BY DEF SlotsOK
  <2>3. BookingsOK'
    <3> DEFINE g == [f \in Flights |-> IF f \in ordered
                       THEN taken[Asks[r].user][f] + quantity
                       ELSE taken[Asks[r].user][f]]
    <3>1. Asks[r].user \in Users
      OBVIOUS
    <3>2. taken' = [taken EXCEPT ![Asks[r].user] = g]
      BY <1>3
    <3>3. \A f \in Flights : g[f] = IF f \in ordered
                                    THEN taken[Asks[r].user][f] + quantity
                                    ELSE taken[Asks[r].user][f]
      OBVIOUS
    <3> HIDE DEF g
    <3>4. /\ \A v \in Users : v # Asks[r].user => taken'[v] = taken[v]
          /\ taken'[Asks[r].user] = g
      BY <2>2, <3>1, <3>2
    <3>5. \A f \in Flights : taken'[Asks[r].user][f] =
            IF f \in ToSet(Asks[r].flights) THEN taken[Asks[r].user][f] + quantity
                                            ELSE taken[Asks[r].user][f]
      BY <3>3, <3>4
    <3>6. quantity = IF Asks[r].op = "RemoveBooking" THEN -1 ELSE 1
      OBVIOUS
    <3>7. UNCHANGED <<store, disturbed>> /\ request[r].at = "book"
      BY <1>1
    <3> QED BY ONLY BookingsOK, <2>1, <3>4, <3>5, <3>6, <3>7, SeatsMove, Zenon
  <2>4. quantity \in {-1, 1}
    OBVIOUS
  <2>5. taken' \in [Users -> [Flights -> Int]]
    <3> DEFINE g == [f \in Flights |-> IF f \in ordered
                       THEN taken[Asks[r].user][f] + quantity
                       ELSE taken[Asks[r].user][f]]
    <3>1. Asks[r].user \in Users
      OBVIOUS
    <3>2. taken[Asks[r].user] \in [Flights -> Int]
      BY <2>2, <3>1
    <3>3. g \in [Flights -> Int]
      BY <2>4, <3>2
    <3>4. taken' = [taken EXCEPT ![Asks[r].user] = g]
      BY <1>3
    <3> HIDE DEF g
    <3> QED BY <2>2, <3>3, <3>4
  <2>6. /\ slot' = [f \in DOMAIN slot' |-> slot'[f]] /\ DOMAIN slot' \subseteq Flights
        /\ \A f \in DOMAIN slot' : slot'[f] \in Nat
    <3>1. \A f \in DOMAIN slot : slot[f] \in Nat
      BY DEF SlotsOK
    <3>2. /\ DOMAIN slot' = DOMAIN slot
          /\ \A f \in DOMAIN slot :
               slot'[f] = IF f \in ordered THEN slot[f] - quantity ELSE slot[f]
      BY <1>3
    <3>3. slot' = [f \in DOMAIN slot' |-> slot'[f]]
      BY <1>3
    <3>4. \A f \in DOMAIN slot : slot'[f] \in Nat
      BY <1>3, <2>4, <3>1, <3>2
    <3>5. DOMAIN slot \subseteq Flights
      BY DEF SlotsOK
    <3> QED BY <3>2, <3>3, <3>4, <3>5
  <2>7. SlotsOK'
    BY <1>1, <2>5, <2>6 DEF SlotsOK
  <2> QED BY <2>3, <2>7
<1> QED BY <1>1, <1>2, <1>3

LEMMA ListEdited ==
  ASSUME SlotsOK, BookingsOK, NEW r \in Requests, EditList(r)
  PROVE  SlotsOK' /\ BookingsOK'
<1> PICK edit :
      edit = [op  |-> IF Asks[r].op = "AddBooking" THEN "Append" ELSE "Remove",
              key |-> Asks[r].user, arg |-> Head(request[r].todo)]
  OBVIOUS
<1> PICK rest : rest = Tail(request[r].todo)
  OBVIOUS
<1>1. /\ request[r].at = "edit" /\ UNCHANGED <<slot, taken>>
      /\ \/ /\ Ends(r, "EBOOKINGFAILED") /\ Disturbs(r, TRUE)
            /\ UNCHANGED store
         \/ /\ store' = [store EXCEPT ![Asks[r].user].b = After(@, edit)]
            /\ IF rest = <<>> THEN Ends(r, "OK")
                              ELSE request' = [request EXCEPT ![r].todo = rest]
            /\ UNCHANGED disturbed
  BY DEF EditList
<1>2. RequestsOK /\ disturbed \subseteq Users
  BY DEF BookingsOK, SlotsOK
<1>3. CASE /\ Ends(r, "EBOOKINGFAILED") /\ Disturbs(r, TRUE)
           /\ UNCHANGED store
  <2>1. "EBOOKINGFAILED" \in Statuses
    BY DEF Statuses
  <2>2. /\ disturbed \subseteq disturbed' /\ disturbed' \subseteq Users
        /\ Asks[r].user \in disturbed'
    BY <1>2, <1>3, DisturbsIs
  <2>3. SlotsOK'
    BY <1>1, <2>2, SlotsKept
  <2> QED BY <1>1, <1>3, <2>1, <2>2, <2>3, RequestEnds
<1>4. CASE /\ store' = [store EXCEPT ![Asks[r].user].b = After(@, edit)]
           /\ IF rest = <<>> THEN Ends(r, "OK")
                             ELSE request' = [request EXCEPT ![r].todo = rest]
           /\ UNCHANGED disturbed
  <2>1. SlotsOK'
    BY <1>1, <1>4 DEF SlotsOK
  <2>2. rest \in Seq(Flights)
    <3>1. request[r].todo \in Seq(Flights) /\ request[r].todo # <<>>
      BY <1>1, <1>2 DEF RequestsOK, RequestType
    <3> QED BY <3>1, ElementsOfTail
  <2>3. "OK" \in Statuses /\ "edit" \in Stages
    BY DEF Statuses, Stages
  <2>4. /\ Ends(r, "OK") => Turns(r, "done", <<>>)
        /\ request' = [request EXCEPT ![r].todo = rest]
             => Turns(r, request[r].at, rest)
    BY <1>2, <2>2, <2>3, TurnsIs
  <2> PICK p : p = IF rest = <<>> THEN "done" ELSE "edit"
    OBVIOUS
  <2>5. p \in {"edit", "done"} /\ (p = "edit" <=> rest # <<>>)
    OBVIOUS
  <2>6. Turns(r, p, rest)
    BY <1>1, <1>4, <2>4
  <2> QED BY <1>1, <1>4, <2>1, <2>5, <2>6, EditMade
<1> QED BY <1>1, <1>3, <1>4

LEMMA FlightAdded ==
  ASSUME SlotsOK, BookingsOK, NEW r \in Requests, AddFlight(r)
  PROVE  SlotsOK' /\ BookingsOK'
<1> PICK f : f = Asks[r].flights[1]
  OBVIOUS
<1>1. /\ request[r].at = "create" /\ UNCHANGED <<store, taken, disturbed>>
      /\ slot' = Opened(f) \/ slot' = slot
      /\ Ends(r, "ENOAIRLINE") \/ Ends(r, "EEXISTS") \/ Ends(r, "OK")
  <2>1. /\ request[r].at = "create" /\ UNCHANGED <<store, taken, disturbed>>
        /\ \E dial, rpc \in Outcomes : \E err : err = CreateFlight(f, dial, rpc)
             /\ Ends(r, CASE err = "NoAirline" -> "ENOAIRLINE"
                          [] err = "FlightExists" -> "EEXISTS"
                          [] OTHER -> "OK")
             /\ slot' = IF err = "nil" THEN Opened(f) ELSE slot
    BY DEF AddFlight
  <2> QED BY <2>1
<1>2. PICK s \in Statuses : Ends(r, s)
  BY <1>1 DEF Statuses
<1>3. BookingsOK'
  BY <1>1, <1>2, RequestEnds
<1>4. f \in Flights
  <2>1. Asks[r].op = "AddFlight"
    BY <1>1 DEF BookingsOK, RequestsOK, Passes
  <2>2. Asks[r].flights \in Seq(Flights) /\ Asks[r].flights # <<>>
    BY <2>1
  <2>3. Asks[r].flights[1] \in Flights
    BY <2>2, EmptySeq
  <2> QED BY <2>3
<1>5. SlotsOK'
  <2>1. CASE slot' = slot
    BY <1>1, <2>1 DEF SlotsOK
  <2>2. CASE slot' = Opened(f)
    <3>1. /\ DOMAIN slot' = DOMAIN slot \cup {f}
          /\ \A g \in DOMAIN slot' : slot'[g] = IF g = f THEN Seats[f] ELSE slot[g]
          /\ slot' = [g \in DOMAIN slot' |-> slot'[g]]
      BY <2>2 DEF Opened
    <3>2. \A g \in DOMAIN slot' : slot'[g] \in Nat
      BY <1>4, <3>1 DEF SlotsOK
    <3> QED BY <1>1, <1>4, <3>1, <3>2 DEF SlotsOK
  <2> QED BY <1>1, <2>1, <2>2
<1> QED BY <1>3, <1>5


-----------------------------------------------------------------------------
(* The invariant of the requests holds.                                    *)

LEMMA RequestBegins ==
  ASSUME SlotsOK, BookingsOK, NEW r \in Requests, Begin(r)
  PROVE  SlotsOK' /\ BookingsOK'
<1> PICK p : p = First[Asks[r].op]
  OBVIOUS
<1>1. /\ request[r].at = "new" /\ UNCHANGED <<store, slot, taken>>
      /\ request' = [request EXCEPT ![r].at = p]
      /\ disturbed' = IF Overlaps(r) THEN disturbed \cup {Asks[r].user}
                                     ELSE disturbed
  BY DEF Begin
<1>2. RequestsOK /\ request[r].todo = <<>> /\ disturbed \subseteq Users
  BY <1>1 DEF BookingsOK, RequestsOK, SlotsOK
<1>3. /\ p \in {"user", "list", "dial", "create"} /\ Passes(Asks[r].op, p)
      /\ Asks[r].op \in Edits => p = "user"
  <2>1. Asks[r].op \in {"CreateUser", "AddBooking", "RemoveBooking",
                        "GetBookings", "ViewFlights", "AddFlight"}
    OBVIOUS
  <2>2. CASE Asks[r].op \in Edits
    <3>1. p = "user"
      BY <2>2 DEF First, Edits
    <3> QED BY <2>2, <3>1 DEF Passes
  <2>3. CASE Asks[r].op = "GetBookings"
    BY <2>3 DEF First, Passes, Edits
  <2>4. CASE Asks[r].op = "ViewFlights"
    BY <2>4 DEF First, Passes, Edits
  <2>5. CASE Asks[r].op = "AddFlight"
    BY <2>5 DEF First, Passes, Edits
  <2> QED BY <2>1, <2>2, <2>3, <2>4, <2>5 DEF Edits
<1>4. p \in Stages \ {"edit"}
  BY <1>3 DEF Stages
<1>5. Turns(r, p, <<>>)
  <2>1. <<>> \in Seq(Flights)
    BY EmptyIs
  <2>2. "OK" \in Statuses
    BY DEF Statuses
  <2>3. Goes(r, p) => Turns(r, p, request[r].todo)
    BY <1>2, <1>4, <2>1, <2>2, TurnsIs
  <2> QED BY <1>1, <1>2, <2>3 DEF Goes
<1>6. disturbed \subseteq disturbed' /\ disturbed' \subseteq Users
  BY <1>1, <1>2
<1>7. SlotsOK'
  BY <1>1, <1>6, SlotsKept
<1>8. \/ Asks[r].op \notin Edits \/ Asks[r].user \in disturbed'
      \/ \A x \in Requests : Busy(x) /\ Asks[x].op \in Edits
           => Asks[x].user # Asks[r].user
  BY <1>1 DEF Overlaps
<1>9. /\ request[r].at # "edit"
      /\ ~(p \in {"flights", "list", "book"} /\ Asks[r].op \in Edits)
      /\ p \notin {"putUser", "putBookings"} /\ p # "book"
  BY <1>1, <1>3
<1> QED BY <1>1, <1>3, <1>4, <1>5, <1>6, <1>7, <1>8, <1>9, RequestGoes

LEMMA AgencyStops ==
  ASSUME ServersOK, SlotsOK, BookingsOK, NEW m \in Agencies, Stop(m)
  PROVE  ServersOK' /\ SlotsOK' /\ BookingsOK'
<1> DEFINE lost == {r \in Requests : At[r] = m /\ Busy(r)}
           Gone(q) == [q EXCEPT !.at = "lost", !.todo = <<>>]
<1>0. \A q \in RequestType :
        Gone(q) \in RequestType /\ Gone(q).at = "lost" /\ Gone(q).todo = <<>>
  <2> PICK e : e = <<>>
    OBVIOUS
  <2>1. "lost" \in Stages
    BY DEF Stages
  <2>2. e \in Seq(Flights)
    BY EmptyIs
  <2> DEFINE WithEdits(q) == [q EXCEPT !.at = "lost", !.todo = e]
  <2>3. \A q \in RequestType : /\ WithEdits(q) \in RequestType
                               /\ WithEdits(q).at = "lost"
                               /\ WithEdits(q).todo = e
    BY <2>1, <2>2 DEF RequestType
  <2>4. \A q : Gone(q) = WithEdits(q)
    BY Zenon
  <2> HIDE DEF Gone, WithEdits
  <2> QED BY <2>3, <2>4
<1>1. /\ agency' = [agency EXCEPT ![m] = "down"]
      /\ request' = [r \in Requests |->
                       IF r \in lost THEN Gone(request[r]) ELSE request[r]]
      /\ disturbed' = disturbed \cup
           {Asks[r].user : r \in {x \in lost : request[x].at = "edit"}}
      /\ UNCHANGED <<directory, airline, nodelist, store, slot, taken>>
  BY Zenon DEF Stop, directoryVars
<1> HIDE DEF lost, Gone
<1>2. lost \subseteq Requests
  BY DEF lost
<1>3. ServersOK'
  BY <1>1 DEF ServersOK, DirectoryTypeOK
<1>4. /\ disturbed \subseteq disturbed' /\ disturbed' \subseteq Users
      /\ \A x \in lost : request[x].at = "edit" => Asks[x].user \in disturbed'
  BY <1>1, <1>2 DEF SlotsOK
<1>5. SlotsOK'
  BY <1>1, <1>4, SlotsKept
<1>6. request \in [Requests -> RequestType]
  BY DEF BookingsOK, RequestsOK
<1>7. ASSUME NEW x \in Requests
      PROVE  /\ request'[x] \in RequestType
             /\ \/ request'[x] = request[x]
                \/ /\ request'[x].at = "lost" /\ request'[x].todo = <<>>
                   /\ request[x].at = "edit" => Asks[x].user \in disturbed'
  <2>1. CASE x \notin lost
    BY <1>1, <1>6, <2>1
  <2>2. CASE x \in lost
    <3>1. request'[x] = Gone(request[x])
      BY <1>1, <2>2
    <3>2. request[x] \in RequestType
      BY <1>6
    <3> QED BY <1>0, <1>4, <2>2, <3>1, <3>2
  <2> QED BY <2>1, <2>2
<1>8. request' \in [Requests -> RequestType]
  BY <1>1, <1>7
<1>9. BookingsOK'
  BY <1>1, <1>4, <1>7, <1>8, RequestsStop
<1> QED BY <1>3, <1>5, <1>9

LEMMA DirectoryGrows ==
  ASSUME ServersOK, NEW n \in Names, NEW x,
         directory' = Appended(directory, Entry(n, x))
  PROVE  /\ directory' = [k \in Names |-> directory'[k]]
         /\ \A k \in Names : directory'[k].kind \in {"none", "list"}
<1>1. /\ directory = [k \in Names |-> directory[k]]
      /\ \A k \in Names : directory[k].kind \in {"none", "list"}
  BY DEF ServersOK, DirectoryTypeOK
<1> PICK r : r = Entry(n, x)
  OBVIOUS
<1>2. r.op = "Append" /\ r.key = n
  BY DEF Entry
<1>3. directory' = [directory EXCEPT ![n] = After(directory[n], r)]
  BY <1>2 DEF Appended
<1>4. After(directory[n], r).kind = "list"
  BY <1>2 DEF After, ListOf, Listed
<1> PICK v : v = After(directory[n], r)
  OBVIOUS
<1>5. v.kind = "list" /\ directory' = [directory EXCEPT ![n] = v]
  BY <1>3, <1>4
<1>6. \A k \in Names : directory'[k] = IF k = n THEN v ELSE directory[k]
  BY ONLY <1>1, <1>5
<1>7. directory' = [k \in Names |-> directory'[k]]
  BY ONLY <1>1, <1>5
<1> QED BY ONLY <1>1, <1>5, <1>6, <1>7

LEMMA AgencyInitially == Init => AgencyInv
<1> SUFFICES ASSUME Init PROVE AgencyInv
  OBVIOUS
<1>1. RingOK
  BY RingInitially
<1>2. /\ directory = [n \in Names |-> Nothing]
      /\ airline = [a \in Airlines |-> "down"]
      /\ agency = [m \in Agencies |-> "down"]
      /\ store = [u \in Users |-> [n |-> Nothing, b |-> Nothing]]
      /\ slot = <<>>
      /\ request = [r \in Requests |-> [at |-> "new", todo |-> <<>>,
                                        status |-> "none"]]
      /\ taken = [u \in Users |-> [f \in Flights |-> 0]]
      /\ disturbed = {}
  BY DEF Init, DirectoryInit
<1>3. ServersOK
  <2>1. Nothing.kind = "none"
    BY DEF Nothing
  <2> QED BY <1>2, <2>1 DEF ServersOK, DirectoryTypeOK
<1>4. SlotsOK
  <2> PICK e : e = <<>>
    OBVIOUS
  <2>1. DOMAIN e = {} /\ e = [f \in DOMAIN e |-> e[f]]
    OBVIOUS
  <2>2. slot = e
    BY <1>2
  <2> QED BY <1>2, <2>1, <2>2 DEF SlotsOK
<1>5. \A r \in Requests : request[r].at = "new" /\ request[r].todo = <<>>
  BY <1>2
<1>6. /\ \A u \in Users : store[u].n = Nothing /\ store[u].b = Nothing
      /\ store = [u \in Users |-> [n |-> store[u].n, b |-> store[u].b]]
  BY <1>2
<1>7. StoreOK
  BY <1>6 DEF StoreOK
<1>8. RequestsOK
  <2>1. "new" \in Stages
    BY DEF Stages
  <2>2. "none" \in Statuses
    BY DEF Statuses
  <2> PICK e : e = <<>>
    OBVIOUS
  <2>3. e \in Seq(Flights) /\ IsInjective(e)
    BY EmptyIs
  <2>4. [at |-> "new", todo |-> e, status |-> "none"] \in RequestType
    BY <2>1, <2>2, <2>3 DEF RequestType
  <2>5. request \in [Requests -> RequestType]
    BY <1>2, <2>4
  <2>6. \A r \in Requests : Passes(Asks[r].op, request[r].at)
    BY <1>5 DEF Passes
  <2> QED BY <1>5, <2>3, <2>5, <2>6 DEF RequestsOK
<1>9. \A u \in Users, f \in Flights : ~Has(u, f)
  BY <1>6, NoListIs DEF Has
<1>10. UsersBook /\ CreatedEmpty /\ BooksTheOthers
  BY <1>5 DEF UsersBook, CreatedEmpty, BooksTheOthers
<1>11. NoUserNoBookings
  BY <1>9 DEF NoUserNoBookings
<1>12. OneByOne
  BY <1>5 DEF OneByOne, Busy
<1>13. SeatsButEdits
  <2>1. \A r \in Requests, f \in Flights : f \notin ToSet(request[r].todo)
    BY <1>5, EmptyIs
  <2>2. \A u \in Users, f \in Flights : taken[u][f] = 0 /\ Seat(Has(u, f)) = 0
    BY <1>2, <1>9 DEF Seat
  <2> QED BY <2>1, <2>2, Zenon DEF SeatsButEdits
<1> QED BY <1>1, <1>3, <1>4, <1>7, <1>8, <1>10, <1>11, <1>12, <1>13
        DEF AgencyInv, BookingsOK

LEMMA AgencyStep ==
  ASSUME AgencyInv, [Next]_vars
  PROVE  AgencyInv'
<1>1. RingOK /\ ServersOK /\ SlotsOK /\ BookingsOK
  BY DEF AgencyInv
<1>2. RingOK'
  BY <1>1, RingStep
<1>3. ASSUME UNCHANGED <<store, slot, request, taken, disturbed>>
      PROVE  SlotsOK' /\ BookingsOK'
  <2>1. SlotsOK'
    BY <1>1, <1>3 DEF SlotsOK
  <2>2. request' \in [Requests -> RequestType]
    BY <1>1, <1>3 DEF BookingsOK, RequestsOK
  <2>3. BookingsOK'
    BY <1>1, <1>3, <2>2, RequestsStop
  <2> QED BY <2>1, <2>3
<1>4. UNCHANGED <<directory, airline, agency>> => ServersOK'
  BY <1>1 DEF ServersOK, DirectoryTypeOK
<1>5. ASSUME NEW s \in Slaves, Join(s)
      PROVE  ServersOK' /\ SlotsOK' /\ BookingsOK'
  BY <1>3, <1>4, <1>5 DEF Join, directoryVars, agencyVars
<1>6. ASSUME NEW a \in Airlines, StartAirline(a)
      PROVE  ServersOK' /\ SlotsOK' /\ BookingsOK'
  <2>1. UNCHANGED agencyVars /\ (PublishAirline(a) \/ DeclareAirline(a))
    BY <1>6 DEF StartAirline
  <2>2. /\ a \in Names /\ AllAirline \in Names
        /\ airline \in [Airlines -> {"down", "published", "up"}]
    BY <1>1 DEF Names, ServersOK, DirectoryTypeOK
  <2>3. airline' \in [Airlines -> {"down", "published", "up"}]
    BY <2>1, <2>2 DEF PublishAirline, DeclareAirline
  <2>4. PICK n \in Names : directory' = Appended(directory, Entry(n, a))
    BY <2>1, <2>2 DEF PublishAirline, DeclareAirline
  <2>5. /\ directory' = [k \in Names |-> directory'[k]]
        /\ \A k \in Names : directory'[k].kind \in {"none", "list"}
    BY <1>1, <2>4, DirectoryGrows
  <2>6. ServersOK'
    BY <1>1, <2>1, <2>3, <2>5 DEF ServersOK, DirectoryTypeOK, agencyVars
  <2> QED BY <1>3, <2>1, <2>6 DEF agencyVars
<1>7. ASSUME NEW m \in Agencies, Connect(m)
      PROVE  ServersOK' /\ SlotsOK' /\ BookingsOK'
  <2>1. /\ agency' = [agency EXCEPT ![m] = "starting"]
        /\ UNCHANGED <<directory, airline, store, slot, request, taken, disturbed>>
    BY <1>7 DEF Connect, directoryVars
  <2>2. ServersOK'
    BY <1>1, <2>1 DEF ServersOK, DirectoryTypeOK
  <2> QED BY <1>3, <2>1, <2>2
<1>8. ASSUME NEW m \in Agencies, Declare(m)
      PROVE  ServersOK' /\ SlotsOK' /\ BookingsOK'
  <2>1. /\ agency' \in [Agencies -> {"down", "starting", "up"}]
        /\ directory' = Appended(directory, Entry(IDOf[m], m))
        /\ UNCHANGED <<airline, store, slot, request, taken, disturbed>>
    BY <1>1, <1>8 DEF Declare, ServersOK
  <2>2. IDOf[m] \in Names
    BY DEF Names
  <2>3. /\ directory' = [k \in Names |-> directory'[k]]
        /\ \A k \in Names : directory'[k].kind \in {"none", "list"}
    BY <1>1, <2>1, <2>2, DirectoryGrows
  <2>4. ServersOK'
    BY <1>1, <2>1, <2>3 DEF ServersOK, DirectoryTypeOK
  <2> QED BY <1>3, <2>1, <2>4
<1>9. ASSUME NEW m \in Agencies, Crash(m)
      PROVE  ServersOK' /\ SlotsOK' /\ BookingsOK'
  BY <1>1, <1>9, AgencyStops DEF Crash
<1>10. ASSUME NEW r \in Requests, Begin(r)
       PROVE  ServersOK' /\ SlotsOK' /\ BookingsOK'
  <2>1. ServersOK'
    BY <1>4, <1>10 DEF Begin, directoryVars
  <2> QED BY <1>1, <1>10, <2>1, RequestBegins
<1>11. ASSUME NEW r \in Requests, Serve(r)
       PROVE  ServersOK' /\ SlotsOK' /\ BookingsOK'
  <2>1. ServersOK'
    BY <1>4, <1>11 DEF Serve, directoryVars
  <2>2. \/ CheckUser(r) \/ PutUser(r) \/ PutBookings(r) \/ CheckFlights(r)
        \/ GetBookings(r) \/ ReadList(r) \/ MakeBooking(r) \/ EditList(r)
        \/ AddFlight(r)
    BY <1>11 DEF Serve
  <2>3. SlotsOK' /\ BookingsOK'
    BY <1>1, <2>2, UserChecked, UserPut, BookingsPut, FlightsChecked,
       BookingsGot, ListRead, BookingMade, ListEdited, FlightAdded
  <2> QED BY <2>1, <2>3
<1>12. ASSUME NEW r \in Requests, ViewFlights(r)
       PROVE  ServersOK' /\ SlotsOK' /\ BookingsOK'
  <2>1. At[r] \in Agencies
    OBVIOUS
  <2>2. CASE Stop(At[r])
    BY <1>1, <2>1, <2>2, AgencyStops
  <2>3. CASE /\ Ends(r, "OK") \/ Ends(r, "error")
             /\ UNCHANGED <<directory, airline, agency, store, slot, taken,
                            disturbed>>
    <3>1. PICK s \in Statuses : Ends(r, s)
      BY <2>3 DEF Statuses
    <3>2. request[r].at # "edit"
      BY <1>12 DEF ViewFlights
    <3>3. BookingsOK'
      BY <1>1, <2>3, <3>1, <3>2, RequestEnds
    <3>4. SlotsOK'
      BY <1>1, <2>3 DEF SlotsOK
    <3> QED BY <1>4, <2>3, <3>3, <3>4
  <2>4. \/ Stop(At[r])
        \/ /\ Ends(r, "OK") \/ Ends(r, "error")
           /\ UNCHANGED <<directory, airline, agency, store, slot, taken,
                          disturbed>>
    BY <1>12 DEF ViewFlights, directoryVars
  <2> QED BY <2>2, <2>3, <2>4
<1>13. ASSUME UNCHANGED vars
       PROVE  ServersOK' /\ SlotsOK' /\ BookingsOK'
  BY <1>3, <1>4, <1>13 DEF vars, directoryVars, agencyVars
<1>14. ServersOK' /\ SlotsOK' /\ BookingsOK'
  <2>1. ASSUME Next PROVE ServersOK' /\ SlotsOK' /\ BookingsOK'
    BY <1>5, <1>6, <1>7, <1>8, <1>9, <1>10, <1>11, <1>12, <2>1, Zenon DEF Next
  <2> QED BY <1>13, <2>1
<1> QED BY <1>2, <1>14, Zenon DEF AgencyInv

LEMMA AgencyAlways == Spec => []AgencyInv
BY AgencyInitially, AgencyStep, PTL DEF Spec

\* The variables of agencies have their types: in particular no flight ever has
\* fewer seats than none, and requests have edits to make exactly while they
\* are at that.
THEOREM AgencyTypes == Spec => []TypeOK
<1>1. AgencyInv => TypeOK
  <2> SUFFICES ASSUME AgencyInv PROVE TypeOK
    OBVIOUS
  <2>1. RingOK /\ ServersOK /\ SlotsOK /\ StoreOK /\ RequestsOK
    BY DEF AgencyInv, BookingsOK
  <2>2. RingTypeOK
    BY <2>1 DEF RingOK, RingTypeOK, Ready
  <2>3. /\ DirectoryTypeOK /\ agency \in [Agencies -> {"down", "starting", "up"}]
    BY <2>1 DEF ServersOK
  <2>4. ASSUME NEW u \in Users
        PROVE  /\ store[u].n.kind \in {"none", "string"}
               /\ store[u].b.kind \in {"none", "string", "list"}
    <3>1. store[u].n \in {Nothing, Text("new_user")}
      BY <2>1 DEF StoreOK
    <3>2. store[u].n.kind \in {"none", "string"}
      BY <3>1 DEF Nothing, Text
    <3>3. CASE IsList(store[u].b)
      BY <3>2, <3>3 DEF IsList, ListOf
    <3>4. CASE store[u].b \in {Nothing, NoBookings}
      BY <3>2, <3>4, NoListIs
    <3> QED BY <2>1, <3>3, <3>4 DEF StoreOK
  <2>5. /\ DOMAIN slot \subseteq Flights /\ \A f \in DOMAIN slot : slot[f] \in Nat
        /\ disturbed \subseteq Users
    BY <2>1 DEF SlotsOK
  <2>6. \A r \in Requests : /\ request[r].at \in Stages
                            /\ (request[r].todo # <<>>) <=> (request[r].at = "edit")
    BY <2>1 DEF RequestsOK, RequestType
  <2> QED BY <2>2, <2>3, <2>4, <2>5, <2>6 DEF TypeOK
<1> QED BY <1>1, AgencyAlways, PTL

\* The list of a user that nothing disturbed stands for the seats of the user,
\* however the requests of others and the steps of the airlines interleave.
THEOREM ListsMatchSeats == Spec => []SeatForEntry
<1>1. AgencyInv => SeatForEntry
  <2> SUFFICES ASSUME AgencyInv, NEW u \in Users \ disturbed,
                      \A r \in Requests : Asks[r].user = u => request[r].at # "edit",
                      NEW f \in Flights
               PROVE  taken[u][f] = IF Listed(store[u].b, f) THEN 1 ELSE 0
    BY DEF SeatForEntry
  <2>1. RequestsOK /\ SeatsButEdits
    BY DEF AgencyInv, BookingsOK
  <2>2. \A r \in Requests : Asks[r].user = u => f \notin ToSet(request[r].todo)
    BY <2>1, EmptyIs DEF RequestsOK
  <2>3. taken[u][f] = Seat(Has(u, f))
    BY <2>1, <2>2 DEF SeatsButEdits
  <2> QED BY <2>3 DEF Seat, Has
<1> QED BY <1>1, AgencyAlways, PTL
=============================================================================
