--------------------------- MODULE StorageProofs ---------------------------
(***************************************************************************)
(* Proofs about the storage server and its clients: the types, the queue   *)
(* of deferred writes and the coherence of the caches, for any numbers of  *)
(* clients, callers and keys and any writes.                               *)
(***************************************************************************)
EXTENDS Storage, SequenceLemmas

USE CallsAssumption, ClientsAssumption, QueryThreshAssumption

-----------------------------------------------------------------------------
(* The inductive invariant.                                                *)

KindOf(op) == IF op = "Get" THEN "string" ELSE "list"

Kinds == {"none", "string", "hashlist"}

\* c is a state of a call of p: only what was found goes with a lease, and a
\* lease is only given with a reply.
CallOK(p, c) ==
  /\ c = [at |-> c.at, req |-> c.req, want |-> c.want, answer |-> c.answer,
          granted |-> c.granted]
  /\ c.at \in Stages \cup {"idle"}
  /\ c.req \in Calls[p] \cup {Absent}
  /\ c.want \in BOOLEAN /\ c.granted \in BOOLEAN
  /\ (c.req = Absent) <=> (c.at = "idle")
  /\ (c.answer # Absent) <=> (c.at \in {"lease", "answered"})
  /\ c.at = "deferred" => c.req.op \in Writes
  /\ c.granted => c.at = "answered"
  /\ c.granted \/ c.at = "lease" =>
       c.req.op \in Reads /\ c.answer.kind = KindOf(c.req.op)

CallsOK ==
  /\ call = [p \in Callers |-> call[p]]
  /\ \A p \in Callers : CallOK(p, call[p])

ValuesOK ==
  /\ cacheMap = [k \in Keys |-> cacheMap[k]]
  /\ \A k \in Keys : cacheMap[k].kind \in Kinds

EntriesOK ==
  /\ cacheEntry = [c \in Clients |-> [k \in Keys |-> cacheEntry[c][k]]]
  /\ \A c \in Clients, k \in Keys :
       cacheEntry[c][k] = Absent \/ cacheEntry[c][k].kind \in {"string", "list"}

NumbersOK ==
  /\ writes \in [Callers -> Nat]
  /\ \A p \in Callers : writes[p] \in 0 .. MaxWrites[p]
  /\ asked \in [Keys -> [Clients -> Nat]]
  /\ agreed \in [Keys -> [Clients -> Nat]]
  /\ queryMap \in [Clients -> [Keys -> Nat]]

LeasesOK ==
  /\ leaseMap \in [Keys -> SUBSET Clients]
  /\ banLeaseMap \in [Keys -> Nat]
  /\ defReqMap \in [Keys -> Seq(Callers)]
  /\ unprotected \subseteq Clients \X Keys

Shapes == CallsOK /\ ValuesOK /\ EntriesOK /\ NumbersOK /\ LeasesOK

\* The entry of c for k is under a lease and is what the server would answer.
Covered(c, k) ==
  /\ Usable(c, k)
  /\ <<c, k>> \notin unprotected
  => c \in leaseMap[k] /\ Coherent(c, k)

\* So is the answer that brings a lease to p.
GrantCovered(p) ==
  LET r == call[p].req IN
  /\ call[p].granted
  /\ <<ClientOf[p], r.key>> \notin unprotected
  => /\ ClientOf[p] \in leaseMap[r.key]
     /\ call[p].answer = Fetch(cacheMap[r.key], r.op)

AllCovered ==
  /\ \A c \in Clients, k \in Keys : Covered(c, k)
  /\ \A p \in Callers : GrantCovered(p)

IInv == Shapes /\ WaitForLeases /\ AllCovered

-----------------------------------------------------------------------------
(* Requests, values and answers.                                           *)

LEMMA RequestIs ==
  ASSUME NEW p \in Callers, NEW r \in Calls[p]
  PROVE  /\ r.op \in Reads \cup Writes /\ r.key \in Keys
         /\ r # Absent
<1>1. r \in [op : Reads \cup Writes, key : Keys, arg : STRING]
  OBVIOUS
<1>2. r # Absent
  <2>1. DOMAIN r = {"op", "key", "arg"}
    BY <1>1
  <2>2. DOMAIN Absent = {"kind"}
    BY DEF Absent
  <2> QED BY <2>1, <2>2
<1> QED BY <1>1, <1>2

LEMMA RequestOf ==
  ASSUME NEW p \in Callers, CallOK(p, call[p]), call[p].at # "idle"
  PROVE  /\ call[p].req \in Calls[p]
         /\ call[p].req.op \in Reads \cup Writes /\ call[p].req.key \in Keys
BY RequestIs DEF CallOK

\* What a read finds has the kind it asks for.
LEMMA FetchIs ==
  ASSUME NEW v, NEW op \in Reads
  PROVE  /\ Fetch(v, op) # Absent
         /\ Fetch(v, op) # Nothing => Fetch(v, op).kind = KindOf(op)
<1>1. CASE op = "Get"
  BY <1>1 DEF Fetch, Absent, Nothing, KindOf
<1>2. CASE op = "GetList"
  <2>1. CASE IsList(v)
    BY <1>2, <2>1 DEF Fetch, Absent, Nothing, KindOf, ListOf, IsList
  <2>2. CASE ~IsList(v)
    BY <1>2, <2>2 DEF Fetch, Absent, Nothing, KindOf, ListOf, IsList
  <2> QED BY <2>1, <2>2
<1> QED BY <1>1, <1>2 DEF Reads

LEMMA WrittenIs ==
  ASSUME NEW v, NEW r, v.kind \in Kinds, r.op \in Writes
  PROVE  /\ Written(v, r).kind \in Kinds
         /\ Futile(v, r) => Written(v, r) = v
         /\ WriteStatus(v, r) # Absent
<1>1. WriteStatus(v, r) # Absent
  BY DEF WriteStatus, Ok, Failed, Absent
<1>2. CASE r.op = "Put"
  BY <1>1, <1>2 DEF Written, Futile, Text, Kinds
<1>3. CASE r.op = "Append"
  BY <1>1, <1>3 DEF Written, Futile, Stored, Kinds
<1>4. CASE r.op = "Remove"
  BY <1>1, <1>4 DEF Written, Futile, Stored, Kinds
<1> QED BY <1>2, <1>3, <1>4 DEF Writes

-----------------------------------------------------------------------------
(* The values that a key has while its deferred writes are processed.      *)

\* f gives the values from v on while the writes 1 to m of todo are processed.
Goes(f, v, todo, m) ==
  f = [n \in 0 .. m |-> IF n = 0 THEN v
                        ELSE Written(f[n - 1], call[todo[n]].req)]

\* The least number without such a function would be one after a number that
\* has one.
LEMMA ValuesExist ==
  ASSUME NEW v, NEW todo, NEW L \in Nat
  PROVE  \E f : Goes(f, v, todo, L)
<1> DEFINE Lacks(m) == ~\E f : Goes(f, v, todo, m)
           Missing == {m \in 0 .. L : Lacks(m)}
<1>1. SUFFICES ASSUME Missing # {} PROVE FALSE
  OBVIOUS
<1>2. PICK m \in Missing : \A n \in Missing : m <= n
  <2>1. Missing \subseteq 0 .. L
    OBVIOUS
  <2> HIDE DEF Missing
  <2> QED BY <1>1, <2>1, LeastElement
<1>3. m \in 0 .. L /\ Lacks(m)
  BY <1>2
<1>4. m # 0
  <2>1. SUFFICES ASSUME m = 0 PROVE FALSE
    OBVIOUS
  <2> DEFINE f == [n \in 0 .. 0 |-> v]
  <2>2. f = [n \in 0 .. 0 |-> IF n = 0 THEN v
                              ELSE Written(f[n - 1], call[todo[n]].req)]
    OBVIOUS
  <2>3. Goes(f, v, todo, 0)
    BY <2>2, Zenon DEF Goes
  <2> QED BY <1>3, <2>1, <2>3
<1>5. m - 1 \notin Missing /\ m - 1 \in 0 .. L
  BY <1>2, <1>3, <1>4
<1>6. PICK g : Goes(g, v, todo, m - 1)
  BY <1>5
<1> DEFINE f == [n \in 0 .. m |->
                   IF n = m THEN Written(g[m - 1], call[todo[m]].req) ELSE g[n]]
<1>7. \A n \in 0 .. m : f[n] = IF n = 0 THEN v
                               ELSE Written(f[n - 1], call[todo[n]].req)
  <2>1. \A n \in 0 .. m - 1 : g[n] = IF n = 0 THEN v
                                ELSE Written(g[n - 1], call[todo[n]].req)
    BY <1>6 DEF Goes
  <2>2. \A n \in 0 .. m - 1 : f[n] = g[n]
    BY <1>3
  <2>3. f[m] = Written(g[m - 1], call[todo[m]].req)
    BY <1>3
  <2> HIDE DEF f
  <2> TAKE n \in 0 .. m
  <2>4. CASE n = m
    BY <1>3, <1>4, <2>2, <2>3, <2>4
  <2>5. CASE n = 0
    BY <1>3, <1>4, <2>1, <2>2, <2>5
  <2>6. CASE n # m /\ n # 0
    <3>1. n \in 0 .. m - 1 /\ n - 1 \in 0 .. m - 1
      BY <1>3, <2>6
    <3> QED BY <2>1, <2>2, <2>6, <3>1
  <2> QED BY <2>4, <2>5, <2>6
<1>8. f = [n \in 0 .. m |-> IF n = 0 THEN v
                            ELSE Written(f[n - 1], call[todo[n]].req)]
  BY <1>7
<1>9. Goes(f, v, todo, m)
  <2> HIDE DEF f
  <2> QED BY <1>8, Zenon DEF Goes
<1> QED BY <1>3, <1>9

LEMMA ValuesGo ==
  ASSUME NEW v, NEW todo, Len(todo) \in Nat
  PROVE  Goes(Values(v, todo), v, todo, Len(todo))
<1>1. \E f : Goes(f, v, todo, Len(todo))
  BY ValuesExist
<1>2. Values(v, todo) = CHOOSE f : Goes(f, v, todo, Len(todo))
  BY Zenon DEF Values, Goes
<1> QED BY <1>1, <1>2

LEMMA ValuesKinds ==
  ASSUME NEW v, v.kind \in Kinds, NEW todo \in Seq(Callers),
         \A n \in 1 .. Len(todo) : call[todo[n]].req.op \in Writes
  PROVE  /\ Values(v, todo)[Len(todo)].kind \in Kinds
         /\ Values(v, todo)[0] = v
<1> DEFINE value == Values(v, todo)
           L == Len(todo)
<1>0. L \in Nat
  OBVIOUS
<1>1. /\ value[0] = v
      /\ \A n \in 1 .. L :
           value[n] = Written(value[n - 1], call[todo[n]].req)
  <2>1. value = [n \in 0 .. L |->
                   IF n = 0 THEN v
                   ELSE Written(value[n - 1], call[todo[n]].req)]
    BY <1>0, ValuesGo DEF Goes
  <2> HIDE DEF value, L
  <2> QED BY <1>0, <2>1
<1> HIDE DEF value, L
<1> DEFINE Wrong == {n \in 0 .. L : value[n].kind \notin Kinds}
<1>2. Wrong = {}
  <2>1. SUFFICES ASSUME Wrong # {} PROVE FALSE
    OBVIOUS
  <2>2. PICK m \in Wrong : \A n \in Wrong : m <= n
    <3>1. Wrong \subseteq 0 .. L
      OBVIOUS
    <3> HIDE DEF Wrong
    <3> QED BY <1>0, <2>1, <3>1, LeastElement
  <2>3. m \in 1 .. L
    BY <1>0, <1>1, <2>2
  <2>4. value[m - 1].kind \in Kinds
    BY <1>0, <2>2, <2>3
  <2>5. value[m].kind \in Kinds
    <3>1. call[todo[m]].req.op \in Writes
      BY <2>3 DEF L
    <3>2. value[m] = Written(value[m - 1], call[todo[m]].req)
      BY <1>1, <2>3
    <3> QED BY <2>4, <3>1, <3>2, WrittenIs
  <2> QED BY <2>2, <2>5
<1>3. value[L].kind \in Kinds
  BY <1>0, <1>2
<1> QED BY <1>1, <1>3 DEF value, L

-----------------------------------------------------------------------------
(* The calls.                                                              *)

LEMMA IdleOK ==
  ASSUME NEW p \in Callers
  PROVE  CallOK(p, NoCall)
BY DEF CallOK, NoCall, Stages

LEMMA SentOK ==
  ASSUME NEW p \in Callers, NEW r \in Calls[p], NEW want \in BOOLEAN
  PROVE  /\ CallOK(p, Sent(r, want))
         /\ ~Sent(r, want).granted /\ Sent(r, want).at = "sent"
<1>1. r # Absent
  BY RequestIs
<1> QED BY <1>1 DEF CallOK, Sent, Stages

LEMMA DeferredOK ==
  ASSUME NEW p \in Callers, NEW c, CallOK(p, c),
         c.at = "sent", c.req.op \in Writes
  PROVE  CallOK(p, [c EXCEPT !.at = "deferred"])
BY DEF CallOK, Stages

LEMMA LeasedOK ==
  ASSUME NEW p \in Callers, NEW c, CallOK(p, c),
         c.at = "sent", c.req.op \in Reads,
         NEW v, v # Absent, v.kind = KindOf(c.req.op)
  PROVE  CallOK(p, [c EXCEPT !.at = "lease", !.answer = v])
<1> DEFINE d == [c EXCEPT !.at = "lease", !.answer = v]
<1>1. c = [at |-> c.at, req |-> c.req, want |-> c.want, answer |-> c.answer,
           granted |-> c.granted]
  BY DEF CallOK
<1>2. d = [at |-> "lease", req |-> c.req, want |-> c.want, answer |-> v,
           granted |-> c.granted]
  <2> DEFINE a == [c EXCEPT !.at = "lease"]
  <2>1. a = [at |-> "lease", req |-> c.req, want |-> c.want,
             answer |-> c.answer, granted |-> c.granted]
    BY <1>1
  <2>2. d = [a EXCEPT !.answer = v]
    BY Zenon
  <2> HIDE DEF a, d
  <2> QED BY <2>1, <2>2
<1> HIDE DEF d
<1>3. /\ d.at = "lease" /\ d.req = c.req /\ d.want = c.want
      /\ d.answer = v /\ d.granted = c.granted
  BY <1>2
<1>4. d = [at |-> d.at, req |-> d.req, want |-> d.want, answer |-> d.answer,
           granted |-> d.granted]
  BY <1>2, <1>3
<1>5. CallOK(p, d)
  BY <1>3, <1>4 DEF CallOK, Stages
<1> QED BY <1>5 DEF d

LEMMA ReplyIs ==
  ASSUME NEW p \in Callers, NEW c, CallOK(p, c), NEW v, NEW g \in BOOLEAN
  PROVE  LET d == Reply(c, v, g) IN
         /\ d.at = "answered" /\ d.req = c.req /\ d.want = c.want
         /\ d.answer = v /\ d.granted = g
         /\ d = [at |-> d.at, req |-> d.req, want |-> d.want,
                 answer |-> d.answer, granted |-> d.granted]
<1> DEFINE d == Reply(c, v, g)
<1>1. c = [at |-> c.at, req |-> c.req, want |-> c.want, answer |-> c.answer,
           granted |-> c.granted]
  BY DEF CallOK
<1>2. d = [at |-> "answered", req |-> c.req, want |-> c.want, answer |-> v,
           granted |-> g]
  <2> DEFINE a == [c EXCEPT !.at = "answered"]
             b == [a EXCEPT !.answer = v]
  <2>1. a = [at |-> "answered", req |-> c.req, want |-> c.want,
             answer |-> c.answer, granted |-> c.granted]
    BY <1>1
  <2>2. d = [b EXCEPT !.granted = g]
    BY Zenon DEF Reply
  <2> HIDE DEF a, d
  <2>3. b = [at |-> "answered", req |-> c.req, want |-> c.want,
             answer |-> v, granted |-> c.granted]
    BY <2>1
  <2> HIDE DEF b
  <2> QED BY <2>2, <2>3
<1> HIDE DEF d
<1>3. /\ d.at = "answered" /\ d.req = c.req /\ d.want = c.want
      /\ d.answer = v /\ d.granted = g
  BY <1>2
<1>4. d = [at |-> d.at, req |-> d.req, want |-> d.want, answer |-> d.answer,
           granted |-> d.granted]
  BY <1>2, <1>3
<1> QED BY <1>3, <1>4 DEF d

LEMMA RepliedOK ==
  ASSUME NEW p \in Callers, NEW c, CallOK(p, c), c.at # "idle",
         NEW v, v # Absent
  PROVE  /\ CallOK(p, Reply(c, v, FALSE))
         /\ Reply(c, v, FALSE).at = "answered"
         /\ ~Reply(c, v, FALSE).granted
         /\ Reply(c, v, FALSE).req = c.req
<1> DEFINE d == Reply(c, v, FALSE)
<1>1. /\ d.at = "answered" /\ d.req = c.req /\ d.want = c.want
      /\ d.answer = v /\ d.granted = FALSE
      /\ d = [at |-> d.at, req |-> d.req, want |-> d.want,
              answer |-> d.answer, granted |-> d.granted]
  BY ReplyIs
<1> HIDE DEF d
<1>2. CallOK(p, d)
  BY <1>1 DEF CallOK, Stages
<1> QED BY <1>1, <1>2 DEF d

LEMMA GrantedOK ==
  ASSUME NEW p \in Callers, NEW c, CallOK(p, c), c.at = "lease",
         NEW g \in BOOLEAN
  PROVE  LET d == Reply(c, c.answer, g) IN
         /\ CallOK(p, d)
         /\ d.at = "answered" /\ d.granted = g
         /\ d.req = c.req /\ d.answer = c.answer
<1> DEFINE d == Reply(c, c.answer, g)
<1>1. /\ d.at = "answered" /\ d.req = c.req /\ d.want = c.want
      /\ d.answer = c.answer /\ d.granted = g
      /\ d = [at |-> d.at, req |-> d.req, want |-> d.want,
              answer |-> d.answer, granted |-> d.granted]
  BY ReplyIs
<1> HIDE DEF d
<1>2. CallOK(p, d)
  BY <1>1 DEF CallOK, Stages
<1> QED BY <1>1, <1>2 DEF d

LEMMA DoneOK ==
  ASSUME NEW p \in Callers, NEW c, CallOK(p, c), c.at # "idle", NEW v
  PROVE  /\ CallOK(p, Done(v, c))
         /\ Done(v, c).at = "answered" /\ ~Done(v, c).granted
         /\ Done(v, c).req = c.req
<1>1. WriteStatus(v, c.req) # Absent
  BY DEF WriteStatus, Ok, Failed, Absent
<1> QED BY <1>1, RepliedOK DEF Done

\* The calls stay well-formed when the one of p becomes d.
LEMMA OneCall ==
  ASSUME CallsOK, NEW p \in Callers, NEW d, CallOK(p, d),
         call' = [call EXCEPT ![p] = d]
  PROVE  /\ CallsOK'
         /\ call'[p] = d
         /\ \A q \in Callers : q # p => call'[q] = call[q]
<1>1. /\ call'[p] = d
      /\ \A q \in Callers : q # p => call'[q] = call[q]
      /\ call' = [q \in Callers |-> call'[q]]
  BY DEF CallsOK
<1>2. \A q \in Callers : CallOK(q, call'[q])
  BY <1>1 DEF CallsOK
<1> QED BY <1>1, <1>2 DEF CallsOK

-----------------------------------------------------------------------------
(* The pairs whose reads no lease covers.                                  *)

LEMMA NotedOnly ==
  ASSUME NEW more, Note(more), NEW c \in Clients, NEW k \in Keys,
         Holding(c, k)', <<c, k>> \notin unprotected'
  PROVE  <<c, k>> \notin unprotected /\ <<c, k>> \notin more
<1>1. ~Gone(<<c, k>>)
  BY DEF Gone
<1> QED BY <1>1 DEF Note

LEMMA NotedType ==
  ASSUME NEW more, Note(more), more \subseteq Clients \X Keys, LeasesOK
  PROVE  unprotected' \subseteq Clients \X Keys
BY DEF Note, LeasesOK

\* Entries, and leases on their way, stay covered when no lease is lost, and no
\* value of a leased key changed, except where it is noted.
LEMMA CoverKept ==
  ASSUME Shapes, AllCovered, NEW more, Note(more),
         \A c \in Clients, k \in Keys :
           cacheEntry'[c][k] \in {cacheEntry[c][k], Absent} \/ Covered(c, k)',
         \A p \in Callers :
           \/ call'[p].granted => call[p].granted /\ call'[p] = call[p]
           \/ GrantCovered(p)',
         \A c \in Clients, k \in Keys :
           \/ <<c, k>> \in more
           \/ c \notin leaseMap[k]
           \/ cacheMap'[k] = cacheMap[k] /\ c \in leaseMap'[k]
  PROVE  AllCovered'
<1>1. ASSUME NEW c \in Clients, NEW k \in Keys, ~Covered(c, k)',
             Usable(c, k)', <<c, k>> \notin unprotected'
      PROVE  c \in leaseMap'[k] /\ Coherent(c, k)'
  <2>1. <<c, k>> \notin unprotected /\ <<c, k>> \notin more
    BY <1>1, NotedOnly DEF Holding
  <2>2. cacheEntry'[c][k] = cacheEntry[c][k] /\ Usable(c, k)
    BY <1>1 DEF Usable
  <2>3. c \in leaseMap[k] /\ Coherent(c, k)
    BY <2>1, <2>2 DEF AllCovered, Covered
  <2>4. cacheMap'[k] = cacheMap[k] /\ c \in leaseMap'[k]
    BY <2>1, <2>3
  <2> QED BY <2>2, <2>3, <2>4 DEF Coherent
<1>2. ASSUME NEW p \in Callers, ~GrantCovered(p)', call'[p].granted,
             <<ClientOf[p], call'[p].req.key>> \notin unprotected'
      PROVE  /\ ClientOf[p] \in leaseMap'[call'[p].req.key]
             /\ call'[p].answer = Fetch(cacheMap'[call'[p].req.key],
                                        call'[p].req.op)
  <2> DEFINE c == ClientOf[p]
             k == call[p].req.key
  <2>1. call[p].granted /\ call'[p] = call[p]
    BY <1>2
  <2>2. c \in Clients /\ k \in Keys
    BY <2>1, RequestOf DEF Shapes, CallsOK, CallOK
  <2>3. Holding(c, k)'
    BY <1>2, <2>1 DEF Holding
  <2>4. <<c, k>> \notin unprotected /\ <<c, k>> \notin more
    BY <1>2, <2>1, <2>2, <2>3, NotedOnly
  <2>5. c \in leaseMap[k] /\ call[p].answer = Fetch(cacheMap[k], call[p].req.op)
    BY <2>1, <2>4 DEF AllCovered, GrantCovered
  <2>6. cacheMap'[k] = cacheMap[k] /\ c \in leaseMap'[k]
    BY <2>2, <2>4, <2>5
  <2> QED BY <2>1, <2>5, <2>6
<1> QED BY <1>1, <1>2 DEF AllCovered, Covered, GrantCovered

-----------------------------------------------------------------------------
(* The steps that leave the leases and the deferred writes alone.          *)

LEMMA WaitsKept ==
  ASSUME WaitForLeases, UNCHANGED <<banLeaseMap, defReqMap>>,
         \A k \in Keys : leaseMap[k] # {} => leaseMap'[k] # {},
         \A p \in Callers :
           /\ call'[p].at = "deferred" <=> call[p].at = "deferred"
           /\ call[p].at = "deferred" => call'[p].req = call[p].req
  PROVE  WaitForLeases'
<1>1. ASSUME NEW k \in Keys
      PROVE  {p \in Callers : call'[p].at = "deferred" /\ call'[p].req.key = k}
               = {p \in Callers : call[p].at = "deferred" /\ call[p].req.key = k}
  OBVIOUS
<1> QED BY <1>1 DEF WaitForLeases

LEMMA EntryGone ==
  ASSUME EntriesOK, NEW c \in Clients, NEW k \in Keys,
         cacheEntry' = [cacheEntry EXCEPT ![c][k] = Absent]
  PROVE  /\ EntriesOK'
         /\ \A d \in Clients, l \in Keys :
              cacheEntry'[d][l] \in {cacheEntry[d][l], Absent}
<1>1. \A d \in Clients, l \in Keys :
        cacheEntry'[d][l] = IF d = c /\ l = k THEN Absent ELSE cacheEntry[d][l]
  BY DEF EntriesOK
<1>2. cacheEntry' = [d \in Clients |-> [l \in Keys |-> cacheEntry'[d][l]]]
  BY DEF EntriesOK
<1> QED BY <1>1, <1>2 DEF EntriesOK

LEMMA CallMade ==
  ASSUME IInv, NEW p \in Callers, MakeCall(p)
  PROVE  IInv'
<1>1. PICK r \in Calls[p] : Read(p, r) \/ Write(p, r)
  BY DEF MakeCall
<1>2. /\ r.key \in Keys /\ ClientOf[p] \in Clients
      /\ call[p].at = "idle" /\ CallOK(p, call[p])
  BY <1>1, RequestIs DEF Read, Write, MayCall, IInv, Shapes, CallsOK
<1>3. /\ UNCHANGED <<serverVars, cacheEntry, asked, agreed>>
      /\ Note({})
  BY <1>1 DEF MakeCall, Read, Write, libstoreVars
<1>4. \/ UNCHANGED call
      \/ \E want \in BOOLEAN : Send(p, r, want)
  <2>1. CASE Read(p, r)
    <3>1. (queryMap[ClientOf[p]][r.key] + 1 >= QueryThresh) \in BOOLEAN
      OBVIOUS
    <3> QED BY <2>1, <3>1 DEF Read
  <2>2. CASE Write(p, r)
    BY <2>2 DEF Write
  <2> QED BY <1>1, <2>1, <2>2
<1>5. /\ CallsOK'
      /\ \A q \in Callers : q # p => call'[q] = call[q]
      /\ \/ call'[p] = call[p]
         \/ call'[p].at = "sent" /\ ~call'[p].granted
  <2>1. CASE UNCHANGED call
    BY <2>1 DEF IInv, Shapes, CallsOK
  <2>2. ASSUME NEW want \in BOOLEAN, Send(p, r, want)
        PROVE  /\ CallsOK'
               /\ \A q \in Callers : q # p => call'[q] = call[q]
               /\ call'[p].at = "sent" /\ ~call'[p].granted
    <3>1. CallOK(p, Sent(r, want)) /\ call' = [call EXCEPT ![p] = Sent(r, want)]
      BY <2>2, SentOK DEF Send
    <3>2. ~Sent(r, want).granted /\ Sent(r, want).at = "sent"
      BY SentOK
    <3> QED BY <3>1, <3>2, OneCall DEF IInv, Shapes
  <2> QED BY <1>4, <2>1, <2>2
<1>6. NumbersOK'
  <2>1. CASE Read(p, r)
    <3>1. /\ queryMap' = [queryMap EXCEPT ![ClientOf[p]][r.key] =
                            queryMap[ClientOf[p]][r.key] + 1]
          /\ UNCHANGED <<writes, asked, agreed>>
      BY <2>1 DEF Read
    <3>2. queryMap' \in [Clients -> [Keys -> Nat]]
      BY <1>2, <3>1 DEF IInv, Shapes, NumbersOK
    <3> QED BY <3>1, <3>2 DEF IInv, Shapes, NumbersOK
  <2>2. CASE Write(p, r)
    <3>1. /\ writes' = [writes EXCEPT ![p] = writes[p] + 1]
          /\ writes[p] < MaxWrites[p]
          /\ UNCHANGED <<queryMap, asked, agreed>>
      BY <2>2 DEF Write, libstoreVars
    <3>2. MaxWrites[p] \in Nat /\ writes[p] \in Nat
      BY DEF IInv, Shapes, NumbersOK
    <3>3. writes' \in [Callers -> Nat]
      BY <3>1, <3>2 DEF IInv, Shapes, NumbersOK
    <3>4. \A q \in Callers : writes'[q] \in 0 .. MaxWrites[q]
      BY <3>1, <3>2 DEF IInv, Shapes, NumbersOK
    <3> QED BY <3>1, <3>3, <3>4 DEF IInv, Shapes, NumbersOK
  <2> QED BY <1>1, <2>1, <2>2
<1>7. ValuesOK' /\ EntriesOK'
  BY <1>3 DEF IInv, Shapes, ValuesOK, EntriesOK, serverVars
<1>8. LeasesOK'
  BY <1>3, NotedType DEF IInv, Shapes, LeasesOK, serverVars
<1>9. WaitForLeases'
  <2>1. \A q \in Callers :
          /\ call'[q].at = "deferred" <=> call[q].at = "deferred"
          /\ call[q].at = "deferred" => call'[q].req = call[q].req
    BY <1>2, <1>5
  <2> QED BY <1>3, <2>1, WaitsKept DEF IInv, serverVars
<1>10. AllCovered'
  <2>1. \A q \in Callers :
          call'[q].granted => call[q].granted /\ call'[q] = call[q]
    BY <1>5
  <2>2. UNCHANGED <<cacheMap, leaseMap, cacheEntry>>
    BY <1>3 DEF serverVars
  <2> QED BY <1>3, <2>1, <2>2, CoverKept DEF IInv
<1> QED BY <1>5, <1>6, <1>7, <1>8, <1>9, <1>10 DEF IInv, Shapes

LEMMA RevocationTaken ==
  ASSUME IInv, NEW k \in Keys, NEW c \in Clients, Revocation(k, c)
  PROVE  IInv'
<1>1. /\ asked[k][c] > 0
      /\ asked' = [asked EXCEPT ![k][c] = @ - 1]
      /\ agreed' = [agreed EXCEPT ![k][c] = @ + 1]
      /\ cacheEntry' = [cacheEntry EXCEPT ![c][k] = Absent]
      /\ UNCHANGED <<call, writes, queryMap, serverVars>>
      /\ Note({})
  BY DEF Revocation, RevokeLease
<1>2. asked[k][c] \in Nat /\ agreed[k][c] \in Nat
  BY DEF IInv, Shapes, NumbersOK
<1>3. asked' \in [Keys -> [Clients -> Nat]]
  BY <1>1, <1>2 DEF IInv, Shapes, NumbersOK
<1>4. agreed' \in [Keys -> [Clients -> Nat]]
  BY <1>1, <1>2 DEF IInv, Shapes, NumbersOK
<1>5. NumbersOK' /\ CallsOK' /\ ValuesOK'
  BY <1>1, <1>3, <1>4
     DEF IInv, Shapes, NumbersOK, CallsOK, ValuesOK, serverVars
<1>6. /\ \A d \in Clients, l \in Keys :
           cacheEntry'[d][l] \in {cacheEntry[d][l], Absent}
      /\ EntriesOK'
  BY <1>1, EntryGone DEF IInv, Shapes
<1>7. LeasesOK'
  BY <1>1, NotedType DEF IInv, Shapes, LeasesOK, serverVars
<1>8. WaitForLeases'
  BY <1>1, WaitsKept DEF IInv, serverVars
<1>9. AllCovered'
  BY <1>1, <1>6, CoverKept DEF IInv, serverVars
<1> QED BY <1>5, <1>6, <1>7, <1>8, <1>9 DEF IInv, Shapes

LEMMA Collected ==
  ASSUME IInv, NEW c \in Clients, Collect(c)
  PROVE  IInv'
<1>1. UNCHANGED <<netVars, serverVars>> /\ Note({})
  BY DEF Collect, QueryCollect, EntryExpires
<1>2. /\ queryMap' \in [Clients -> [Keys -> Nat]]
      /\ EntriesOK'
      /\ \A d \in Clients, l \in Keys :
           cacheEntry'[d][l] \in {cacheEntry[d][l], Absent}
  <2>1. CASE QueryCollect(c)
    <3>1. /\ queryMap' = [queryMap EXCEPT ![c] =
               [k \in Keys |-> IF queryMap[c][k] = 0 THEN 0
                               ELSE queryMap[c][k] - 1]]
          /\ UNCHANGED cacheEntry
      BY <2>1 DEF QueryCollect
    <3>2. [k \in Keys |-> IF queryMap[c][k] = 0 THEN 0 ELSE queryMap[c][k] - 1]
            \in [Keys -> Nat]
      BY DEF IInv, Shapes, NumbersOK
    <3>3. queryMap' \in [Clients -> [Keys -> Nat]]
      BY <3>1, <3>2 DEF IInv, Shapes, NumbersOK
    <3> QED BY <3>1, <3>3 DEF IInv, Shapes, EntriesOK
  <2>2. ASSUME NEW k \in Keys, EntryExpires(c, k)
        PROVE  /\ queryMap' \in [Clients -> [Keys -> Nat]]
               /\ EntriesOK'
               /\ \A d \in Clients, l \in Keys :
                    cacheEntry'[d][l] \in {cacheEntry[d][l], Absent}
    <3>1. /\ cacheEntry' = [cacheEntry EXCEPT ![c][k] = Absent]
          /\ UNCHANGED queryMap
      BY <2>2 DEF EntryExpires
    <3> QED BY <3>1, EntryGone DEF IInv, Shapes, NumbersOK
  <2> QED BY <2>1, <2>2 DEF Collect
<1>3. NumbersOK' /\ CallsOK' /\ ValuesOK'
  BY <1>1, <1>2
     DEF IInv, Shapes, NumbersOK, CallsOK, ValuesOK, serverVars, netVars
<1>4. LeasesOK'
  BY <1>1, NotedType DEF IInv, Shapes, LeasesOK, serverVars
<1>5. WaitForLeases'
  BY <1>1, WaitsKept DEF IInv, serverVars, netVars
<1>6. AllCovered'
  BY <1>1, <1>2, CoverKept DEF IInv, serverVars, netVars
<1> QED BY <1>2, <1>3, <1>4, <1>5, <1>6 DEF IInv, Shapes

-----------------------------------------------------------------------------
(* The requests.                                                           *)

LEMMA ReadServed ==
  ASSUME IInv, NEW p \in Callers, HandleRead(p), UNCHANGED libstoreVars,
         NEW more, Note(more), more \subseteq Clients \X Keys
  PROVE  IInv'
<1> DEFINE v == Fetch(cacheMap[call[p].req.key], call[p].req.op)
<1>1. /\ CallOK(p, call[p]) /\ call[p].at = "sent" /\ call[p].req.op \in Reads
      /\ UNCHANGED <<writes, asked, agreed, serverVars, libstoreVars>>
  BY DEF HandleRead, IInv, Shapes, CallsOK
<1>2. v # Absent /\ (v # Nothing => v.kind = KindOf(call[p].req.op))
  BY <1>1, FetchIs
<1>3. PICK d : /\ CallOK(p, d) /\ ~d.granted /\ d.at \in {"lease", "answered"}
               /\ call' = [call EXCEPT ![p] = d]
  <2>1. CASE call[p].want /\ v # Nothing
    <3> DEFINE d == [call[p] EXCEPT !.at = "lease", !.answer = v]
    <3>1. CallOK(p, d)
      <4> HIDE DEF v
      <4> QED BY <1>1, <1>2, <2>1, LeasedOK, Zenon
    <3>2. d.at = "lease" /\ d.granted = call[p].granted
      BY <1>1 DEF CallOK
    <3>3. call' = [call EXCEPT ![p] = d]
      BY <2>1 DEF HandleRead
    <3>4. ~call[p].granted
      BY <1>1 DEF CallOK
    <3> QED BY <3>1, <3>2, <3>3, <3>4
  <2>2. CASE ~(call[p].want /\ v # Nothing)
    <3> DEFINE d == Reply(call[p], v, FALSE)
    <3>1. CallOK(p, d) /\ d.at = "answered" /\ ~d.granted
      BY <1>1, <1>2, RepliedOK
    <3>2. call' = [call EXCEPT ![p] = d]
      BY <2>2 DEF HandleRead
    <3> QED BY <3>1, <3>2
  <2> QED BY <2>1, <2>2
<1>4. /\ CallsOK' /\ call'[p] = d
      /\ \A q \in Callers : q # p => call'[q] = call[q]
  BY <1>3, OneCall DEF IInv, Shapes
<1>5. NumbersOK' /\ ValuesOK' /\ EntriesOK' /\ LeasesOK'
  BY <1>1, NotedType DEF IInv, Shapes, NumbersOK, ValuesOK, EntriesOK, LeasesOK,
                         serverVars, libstoreVars
<1>6. WaitForLeases'
  <2>1. \A q \in Callers :
          /\ call'[q].at = "deferred" <=> call[q].at = "deferred"
          /\ call[q].at = "deferred" => call'[q].req = call[q].req
    BY <1>1, <1>3, <1>4
  <2> QED BY <1>1, <2>1, WaitsKept DEF IInv, serverVars
<1>7. AllCovered'
  <2>1. \A q \in Callers :
          call'[q].granted => call[q].granted /\ call'[q] = call[q]
    BY <1>3, <1>4
  <2>2. UNCHANGED <<cacheMap, leaseMap, cacheEntry>>
    BY <1>1 DEF serverVars, libstoreVars
  <2> QED BY <2>1, <2>2, CoverKept DEF IInv
<1> QED BY <1>4, <1>5, <1>6, <1>7 DEF IInv, Shapes

\* A lease is given for a value that is still the one of the key, or the pair
\* is noted.
LEMMA LeaseServed ==
  ASSUME IInv, NEW p \in Callers, HandlePutLease(p), UNCHANGED libstoreVars,
         Note(IF Overtaken(p) THEN {<<ClientOf[p], call[p].req.key>>} ELSE {})
  PROVE  IInv'
<1>0. /\ CallOK(p, call[p]) /\ call[p].at = "lease"
      /\ call[p].req.key \in Keys /\ ClientOf[p] \in Clients
  BY RequestOf DEF HandlePutLease, IInv, Shapes, CallsOK
<1> PICK k \in Keys, c \in Clients : k = call[p].req.key /\ c = ClientOf[p]
  BY <1>0
<1> DEFINE g == banLeaseMap[k] = 0
           d == Reply(call[p], call[p].answer, g)
           more == IF Overtaken(p) THEN {<<c, k>>} ELSE {}
<1>1. /\ CallOK(p, call[p]) /\ call[p].at = "lease"
      /\ k = call[p].req.key /\ c = ClientOf[p]
      /\ call' = [call EXCEPT ![p] = d]
      /\ UNCHANGED <<writes, asked, agreed, cacheMap, banLeaseMap, defReqMap,
                     libstoreVars>>
  BY <1>0 DEF HandlePutLease
<1>2. g \in BOOLEAN
  OBVIOUS
<1>3. /\ CallOK(p, d) /\ d.at = "answered" /\ d.granted = g
      /\ d.req = call[p].req /\ d.answer = call[p].answer
  <2> HIDE DEF g
  <2> QED BY <1>1, <1>2, GrantedOK
<1>4. /\ leaseMap' \in [Keys -> SUBSET Clients]
      /\ \A l \in Keys : leaseMap[l] \subseteq leaseMap'[l]
      /\ g => c \in leaseMap'[k]
  <2>1. leaseMap' = [leaseMap EXCEPT ![k] = IF g THEN leaseMap[k] \cup {c}
                                                  ELSE leaseMap[k]]
    BY DEF HandlePutLease
  <2>2. leaseMap \in [Keys -> SUBSET Clients]
    BY DEF IInv, Shapes, LeasesOK
  <2> HIDE DEF g
  <2> QED BY <1>1, <2>1, <2>2
<1> HIDE DEF d, g
<1>5. /\ CallsOK' /\ call'[p] = d
      /\ \A q \in Callers : q # p => call'[q] = call[q]
  BY <1>1, <1>3, OneCall DEF IInv, Shapes
<1>6. more \subseteq Clients \X Keys /\ Note(more)
  BY <1>1
<1>7. NumbersOK' /\ ValuesOK' /\ EntriesOK' /\ LeasesOK'
  <2>1. unprotected' \subseteq Clients \X Keys
    BY <1>6, NotedType DEF IInv, Shapes
  <2> QED BY <1>1, <1>4, <2>1 DEF IInv, Shapes, NumbersOK, ValuesOK, EntriesOK,
                                  LeasesOK, libstoreVars
<1>8. WaitForLeases'
  <2>1. \A q \in Callers :
          /\ call'[q].at = "deferred" <=> call[q].at = "deferred"
          /\ call[q].at = "deferred" => call'[q].req = call[q].req
    BY <1>1, <1>3, <1>5
  <2>2. \A l \in Keys : leaseMap[l] # {} => leaseMap'[l] # {}
    BY <1>4
  <2> QED BY <1>1, <2>1, <2>2, WaitsKept DEF IInv
<1>9. GrantCovered(p)'
  <2>1. SUFFICES ASSUME d.granted, <<c, k>> \notin unprotected'
                 PROVE  c \in leaseMap'[k]
                        /\ call[p].answer = Fetch(cacheMap[k], call[p].req.op)
    BY <1>1, <1>3, <1>5 DEF GrantCovered
  <2>2. Holding(c, k)'
    BY <1>3, <1>5, <2>1 DEF Holding
  <2>3. <<c, k>> \notin more
    BY <1>1, <1>6, <2>1, <2>2, NotedOnly
  <2>4. ~Overtaken(p)
    BY <2>3
  <2> QED BY <1>3, <1>4, <1>5, <2>1, <2>4 DEF Overtaken
<1>10. AllCovered'
  <2>1. \A q \in Callers :
          \/ call'[q].granted => call[q].granted /\ call'[q] = call[q]
          \/ GrantCovered(q)'
    BY <1>5, <1>9
  <2>2. UNCHANGED <<cacheMap, cacheEntry>>
    BY <1>1 DEF libstoreVars
  <2> HIDE DEF more
  <2> QED BY <1>4, <1>6, <2>1, <2>2, CoverKept DEF IInv
<1> QED BY <1>5, <1>7, <1>8, <1>10 DEF IInv, Shapes

\* The reply that brings a lease fills the cache.
LEMMA ReplyTaken ==
  ASSUME IInv, NEW p \in Callers, TakeReply(p)
  PROVE  IInv'
<1>0. /\ CallOK(p, call[p]) /\ call[p].at = "answered"
      /\ call[p].req.key \in Keys /\ ClientOf[p] \in Clients
  BY RequestOf DEF TakeReply, Receive, IInv, Shapes, CallsOK
<1> PICK i : i = call[p]
  OBVIOUS
<1> PICK k \in Keys, c \in Clients : k = i.req.key /\ c = ClientOf[p]
  BY <1>0
<1>1. /\ CallOK(p, i) /\ i.at = "answered" /\ i = call[p]
      /\ k = i.req.key /\ c = ClientOf[p]
      /\ call' = [call EXCEPT ![p] = NoCall]
      /\ cacheEntry' = IF i.granted
                       THEN [cacheEntry EXCEPT ![c][k] = i.answer]
                       ELSE cacheEntry
      /\ UNCHANGED <<writes, asked, agreed, queryMap, serverVars>>
      /\ Note({})
  BY <1>0 DEF TakeReply, Receive, Caches
<1>2. /\ CallsOK' /\ call'[p] = NoCall
      /\ \A q \in Callers : q # p => call'[q] = call[q]
  BY <1>1, IdleOK, OneCall DEF IInv, Shapes
<1>3. ~NoCall.granted /\ NoCall.at = "idle"
  BY DEF NoCall
<1>4. \A d \in Clients, l \in Keys :
        cacheEntry'[d][l] = IF i.granted /\ d = c /\ l = k THEN i.answer
                                                         ELSE cacheEntry[d][l]
  BY <1>1 DEF IInv, Shapes, EntriesOK
<1>5. i.granted => /\ i.req.op \in Reads
                   /\ i.answer.kind = KindOf(i.req.op)
  BY <1>1 DEF CallOK
<1>6. EntriesOK'
  <2>1. cacheEntry' = [d \in Clients |-> [l \in Keys |-> cacheEntry'[d][l]]]
    BY <1>1 DEF IInv, Shapes, EntriesOK
  <2>2. \A d \in Clients, l \in Keys :
          \/ cacheEntry'[d][l] = Absent
          \/ cacheEntry'[d][l].kind \in {"string", "list"}
    <3>1. i.granted => i.answer.kind \in {"string", "list"}
      BY <1>5 DEF KindOf
    <3> QED BY <1>4, <3>1 DEF IInv, Shapes, EntriesOK
  <2> QED BY <2>1, <2>2 DEF EntriesOK
<1>7. NumbersOK' /\ ValuesOK' /\ LeasesOK'
  BY <1>1, NotedType DEF IInv, Shapes, NumbersOK, ValuesOK, LeasesOK, serverVars
<1>8. WaitForLeases'
  <2>1. \A q \in Callers :
          /\ call'[q].at = "deferred" <=> call[q].at = "deferred"
          /\ call[q].at = "deferred" => call'[q].req = call[q].req
    BY <1>1, <1>2, <1>3
  <2> QED BY <1>1, <2>1, WaitsKept DEF IInv, serverVars
<1>9. ASSUME i.granted PROVE Covered(c, k)'
  <2>1. SUFFICES ASSUME Usable(c, k)', <<c, k>> \notin unprotected'
                 PROVE  c \in leaseMap'[k] /\ Coherent(c, k)'
    BY DEF Covered
  <2>2. <<c, k>> \notin unprotected
    BY <1>1, <2>1, NotedOnly DEF Holding
  <2>3. c \in leaseMap[k] /\ i.answer = Fetch(cacheMap[k], i.req.op)
    BY <1>9, <2>2 DEF IInv, AllCovered, GrantCovered
  <2>4. cacheEntry'[c][k] = i.answer
    BY <1>1, <1>4, <1>9
  <2>5. i.req.op = IF i.answer.kind = "string" THEN "Get" ELSE "GetList"
    BY <1>5, <1>9 DEF KindOf, Reads
  <2> QED BY <1>1, <2>3, <2>4, <2>5 DEF Coherent, serverVars
<1>10. AllCovered'
  <2>1. \A q \in Callers :
          call'[q].granted => call[q].granted /\ call'[q] = call[q]
    BY <1>2, <1>3
  <2>2. \A d \in Clients, l \in Keys :
          cacheEntry'[d][l] \in {cacheEntry[d][l], Absent} \/ Covered(d, l)'
    BY <1>4, <1>9
  <2> QED BY <1>1, <2>1, <2>2, CoverKept DEF IInv, serverVars
<1> QED BY <1>2, <1>6, <1>7, <1>8, <1>10 DEF IInv, Shapes

LEMMA WriteDeferred ==
  ASSUME IInv, NEW p \in Callers, NEW k \in Keys, k = call[p].req.key,
         call[p].at = "sent", call[p].req.op \in Writes, MustWait(p, k),
         Defer(p, k), UNCHANGED libstoreVars, Note({})
  PROVE  IInv'
<1> PICK d : d = [call[p] EXCEPT !.at = "deferred"]
  OBVIOUS
<1>1. CallOK(p, call[p]) /\ ~call[p].granted
  BY DEF IInv, Shapes, CallsOK, CallOK
<1>2. CallOK(p, d)
  BY <1>1, DeferredOK, Zenon
<1>3. d.at = "deferred" /\ d.req = call[p].req /\ d.granted = call[p].granted
  BY <1>1 DEF CallOK
<1>4. /\ call' = [call EXCEPT ![p] = d]
      /\ asked' = [asked EXCEPT ![k] =
                     [c \in Clients |-> IF c \in leaseMap[k] THEN asked[k][c] + 1
                                                       ELSE asked[k][c]]]
      /\ banLeaseMap' = [banLeaseMap EXCEPT ![k] = banLeaseMap[k] + 1]
      /\ defReqMap' = [defReqMap EXCEPT ![k] = Append(defReqMap[k], p)]
      /\ UNCHANGED <<writes, agreed, cacheMap, leaseMap, libstoreVars>>
  BY DEF Defer
<1>5. /\ CallsOK' /\ call'[p] = d
      /\ \A q \in Callers : q # p => call'[q] = call[q]
  BY <1>2, <1>4, OneCall DEF IInv, Shapes
<1>6. NumbersOK'
  <2>1. asked' \in [Keys -> [Clients -> Nat]]
    <3>1. [c \in Clients |-> IF c \in leaseMap[k] THEN asked[k][c] + 1
                             ELSE asked[k][c]] \in [Clients -> Nat]
      BY DEF IInv, Shapes, NumbersOK
    <3> QED BY <1>4, <3>1 DEF IInv, Shapes, NumbersOK
  <2> QED BY <1>4, <2>1 DEF IInv, Shapes, NumbersOK, libstoreVars
<1>7. ValuesOK' /\ EntriesOK'
  BY <1>4 DEF IInv, Shapes, ValuesOK, EntriesOK, libstoreVars
<1>8. /\ defReqMap' \in [Keys -> Seq(Callers)]
      /\ banLeaseMap' \in [Keys -> Nat]
      /\ \A l \in Keys : l # k => /\ defReqMap'[l] = defReqMap[l]
                                  /\ banLeaseMap'[l] = banLeaseMap[l]
      /\ defReqMap'[k] = Append(defReqMap[k], p)
      /\ banLeaseMap'[k] = banLeaseMap[k] + 1
  <2>1. defReqMap[k] \in Seq(Callers)
    BY DEF IInv, Shapes, LeasesOK
  <2>2. Append(defReqMap[k], p) \in Seq(Callers)
    BY <2>1, AppendedSeq
  <2> QED BY <1>4, <2>2, SMTT(30) DEF IInv, Shapes, LeasesOK
<1>9. LeasesOK'
  BY <1>4, <1>8, NotedType DEF IInv, Shapes, LeasesOK
<1>10. ASSUME NEW l \in Keys, l # k
       PROVE  /\ banLeaseMap'[l] = Len(defReqMap'[l])
              /\ banLeaseMap'[l] > 0 => leaseMap'[l] # {}
              /\ {q \in Callers : call'[q].at = "deferred" /\ call'[q].req.key = l}
                   = ToSet(defReqMap'[l])
              /\ IsInjective(defReqMap'[l])
  <2>1. {q \in Callers : call'[q].at = "deferred" /\ call'[q].req.key = l}
          = {q \in Callers : call[q].at = "deferred" /\ call[q].req.key = l}
    <3>1. \A q \in Callers :
            call'[q].at = "deferred" /\ call'[q].req.key = l
              <=> call[q].at = "deferred" /\ call[q].req.key = l
      <4>1. d.req.key # l /\ call[p].at # "deferred"
        BY <1>3, <1>10
      <4> QED BY <1>5, <4>1
    <3> QED BY <3>1
  <2> QED BY <1>4, <1>8, <1>10, <2>1 DEF IInv, WaitForLeases
<1>11. /\ banLeaseMap'[k] = Len(defReqMap'[k])
       /\ banLeaseMap'[k] > 0 => leaseMap'[k] # {}
       /\ {q \in Callers : call'[q].at = "deferred" /\ call'[q].req.key = k}
            = ToSet(defReqMap'[k])
       /\ IsInjective(defReqMap'[k])
  <2> DEFINE todo == defReqMap[k]
             more == Append(todo, p)
  <2>1. todo \in Seq(Callers)
    BY DEF IInv, Shapes, LeasesOK
  <2>2. /\ banLeaseMap[k] = Len(todo) /\ IsInjective(todo)
        /\ {q \in Callers : call[q].at = "deferred" /\ call[q].req.key = k}
             = ToSet(todo)
    BY DEF IInv, WaitForLeases
  <2> HIDE DEF todo
  <2>3. /\ more \in Seq(Callers) /\ Len(more) = Len(todo) + 1
        /\ \A i \in 1 .. Len(todo) : more[i] = todo[i]
        /\ more[Len(todo) + 1] = p
        /\ ToSet(more) = ToSet(todo) \cup {p}
    BY <2>1, AppendedSeq
  <2>4. p \notin ToSet(todo)
    BY <2>2
  <2>5. {q \in Callers : call'[q].at = "deferred" /\ call'[q].req.key = k}
          = ToSet(more)
    <3>1. \A q \in Callers :
            call'[q].at = "deferred" /\ call'[q].req.key = k
              <=> q = p \/ (call[q].at = "deferred" /\ call[q].req.key = k)
      BY <1>3, <1>5
    <3> QED BY <2>2, <2>3, <3>1
  <2>6. IsInjective(more)
    <3>1. \A i \in 1 .. Len(todo) : todo[i] \in ToSet(todo)
      BY <2>1, ElementsOf
    <3>2. Len(todo) \in Nat /\ DOMAIN todo = 1 .. Len(todo)
          /\ DOMAIN more = 1 .. Len(todo) + 1
      BY <2>1, <2>3
    <3> HIDE DEF more
    <3>3. \A i \in 1 .. Len(todo) : more[i] # p
      BY <2>3, <2>4, <3>1
    <3>4. \A i, j \in 1 .. Len(todo) : more[i] = more[j] => i = j
      BY <2>2, <2>3, <3>2 DEF IsInjective
    <3>5. \A i \in 1 .. Len(todo) + 1 : i \in 1 .. Len(todo) \/ i = Len(todo) + 1
      BY <3>2
    <3> QED BY <2>3, <3>2, <3>3, <3>4, <3>5 DEF IsInjective
  <2>7. leaseMap'[k] # {}
    BY <1>4 DEF MustWait
  <2>8. defReqMap'[k] = more /\ banLeaseMap'[k] = Len(todo) + 1
    BY <1>8, <2>2 DEF todo
  <2> HIDE DEF more
  <2> QED BY <2>3, <2>5, <2>6, <2>7, <2>8
<1>12. WaitForLeases'
  BY <1>10, <1>11 DEF WaitForLeases
<1>13. AllCovered'
  <2>1. \A q \in Callers :
          call'[q].granted => call[q].granted /\ call'[q] = call[q]
    BY <1>1, <1>3, <1>5
  <2> QED BY <1>4, <2>1, CoverKept DEF IInv, libstoreVars
<1> QED BY <1>5, <1>6, <1>7, <1>9, <1>12, <1>13 DEF IInv, Shapes

\* A write that is done at once changes nothing, or there is no lease.
LEMMA WriteApplied ==
  ASSUME IInv, NEW p \in Callers, NEW k \in Keys, k = call[p].req.key,
         call[p].at = "sent", call[p].req.op \in Writes,
         Futile(cacheMap[k], call[p].req) \/ leaseMap[k] = {},
         Apply(p, k), UNCHANGED libstoreVars, Note({})
  PROVE  IInv'
<1> PICK d : d = Done(cacheMap[k], call[p])
  OBVIOUS
<1> PICK v : v = Written(cacheMap[k], call[p].req)
  OBVIOUS
<1>1. /\ CallOK(p, call[p])
      /\ call' = [call EXCEPT ![p] = d]
      /\ cacheMap' = [cacheMap EXCEPT ![k] = v]
      /\ UNCHANGED <<writes, asked, agreed, leaseMap, banLeaseMap, defReqMap,
                     libstoreVars>>
  BY DEF Apply, IInv, Shapes, CallsOK
<1>2. /\ CallOK(p, d) /\ d.at = "answered" /\ ~d.granted
      /\ d.req = call[p].req
  BY <1>1, DoneOK
<1>3. /\ v.kind \in Kinds
      /\ Futile(cacheMap[k], call[p].req) => v = cacheMap[k]
  BY WrittenIs DEF IInv, Shapes, ValuesOK
<1>4. /\ CallsOK' /\ call'[p] = d
      /\ \A q \in Callers : q # p => call'[q] = call[q]
  BY <1>1, <1>2, OneCall DEF IInv, Shapes
<1>5. /\ \A l \in Keys : cacheMap'[l] = IF l = k THEN v ELSE cacheMap[l]
      /\ ValuesOK'
  <2>1. \A l \in Keys : cacheMap'[l] = IF l = k THEN v ELSE cacheMap[l]
    BY <1>1 DEF IInv, Shapes, ValuesOK
  <2>2. cacheMap' = [l \in Keys |-> cacheMap'[l]]
    BY <1>1 DEF IInv, Shapes, ValuesOK
  <2> QED BY <1>3, <2>1, <2>2 DEF IInv, Shapes, ValuesOK
<1>6. NumbersOK' /\ EntriesOK' /\ LeasesOK'
  BY <1>1, NotedType DEF IInv, Shapes, NumbersOK, EntriesOK, LeasesOK,
                         libstoreVars
<1>7. WaitForLeases'
  <2>1. \A q \in Callers :
          /\ call'[q].at = "deferred" <=> call[q].at = "deferred"
          /\ call[q].at = "deferred" => call'[q].req = call[q].req
    BY <1>2, <1>4
  <2> QED BY <1>1, <2>1, WaitsKept DEF IInv
<1>8. AllCovered'
  <2>1. \A q \in Callers :
          call'[q].granted => call[q].granted /\ call'[q] = call[q]
    BY <1>2, <1>4
  <2>2. \A c \in Clients, l \in Keys :
          c \in leaseMap[l] => cacheMap'[l] = cacheMap[l] /\ c \in leaseMap'[l]
    BY <1>1, <1>3, <1>5
  <2> QED BY <1>1, <2>1, <2>2, CoverKept DEF IInv, libstoreVars
<1> QED BY <1>4, <1>5, <1>6, <1>7, <1>8 DEF IInv, Shapes

LEMMA CallServed ==
  ASSUME IInv, NEW p \in Callers, ServeCall(p)
  PROVE  IInv'
<1>1. /\ UNCHANGED libstoreVars
      /\ Note(IF call[p].at = "lease" /\ Overtaken(p)
              THEN {<<ClientOf[p], call[p].req.key>>} ELSE {})
  BY DEF ServeCall
<1>2. CASE HandleRead(p)
  <2>1. call[p].at = "sent"
    BY <1>2 DEF HandleRead
  <2> QED BY <1>1, <1>2, <2>1, ReadServed
<1>3. CASE HandlePutLease(p)
  <2>1. call[p].at = "lease"
    BY <1>3 DEF HandlePutLease
  <2>2. Note(IF Overtaken(p) THEN {<<ClientOf[p], call[p].req.key>>} ELSE {})
    BY <1>1, <2>1
  <2> QED BY <1>1, <1>3, <2>2, LeaseServed
<1>4. CASE HandleWrite(p)
  <2>1. call[p].at = "sent" /\ call[p].req.op \in Writes
    BY <1>4 DEF HandleWrite
  <2>2. Note({})
    BY <1>1, <2>1
  <2>3. CallOK(p, call[p])
    BY DEF IInv, Shapes, CallsOK
  <2> PICK k \in Keys : k = call[p].req.key
    BY <2>1, <2>3, RequestOf
  <2>4. \/ MustWait(p, k) /\ Defer(p, k)
        \/ /\ Futile(cacheMap[k], call[p].req) \/ ~MustWait(p, k)
           /\ Apply(p, k)
    BY <1>4 DEF HandleWrite
  <2>5. CASE MustWait(p, k) /\ Defer(p, k)
    BY <1>1, <2>1, <2>2, <2>5, WriteDeferred
  <2>6. CASE /\ Futile(cacheMap[k], call[p].req) \/ ~MustWait(p, k)
             /\ Apply(p, k)
    BY <1>1, <2>1, <2>2, <2>6, WriteApplied DEF MustWait
  <2> QED BY <2>4, <2>5, <2>6
<1> QED BY <1>2, <1>3, <1>4 DEF ServeCall

-----------------------------------------------------------------------------
(* A lease is dropped.                                                     *)

\* The deferred writes of k are done when the last lease of k goes, and each
\* caller in the queue has its answer then; other calls are as they were.
LEMMA DropDoes ==
  ASSUME IInv, NEW k \in Keys, NEW c \in Clients, DropLease(k, c)
  PROVE  /\ leaseMap' = [leaseMap EXCEPT ![k] = leaseMap[k] \ {c}]
         /\ ValuesOK'
         /\ \A l \in Keys : leaseMap'[k] # {} \/ l # k
                              => /\ cacheMap'[l] = cacheMap[l]
                                 /\ banLeaseMap'[l] = banLeaseMap[l]
                                 /\ defReqMap'[l] = defReqMap[l]
         /\ leaseMap'[k] = {} => banLeaseMap'[k] = 0 /\ defReqMap'[k] = <<>>
         /\ banLeaseMap' \in [Keys -> Nat]
         /\ defReqMap' \in [Keys -> Seq(Callers)]
         /\ CallsOK'
         /\ \A q \in Callers :
              IF leaseMap'[k] = {} /\ q \in ToSet(defReqMap[k])
              THEN /\ call'[q].at = "answered" /\ ~call'[q].granted
                   /\ call'[q].req = call[q].req
              ELSE call'[q] = call[q]
<1> PICK rest : rest = leaseMap[k] \ {c}
  OBVIOUS
<1> PICK todo : todo = IF rest = {} THEN defReqMap[k] ELSE <<>>
  OBVIOUS
<1> PICK value : value = Values(cacheMap[k], todo)
  OBVIOUS
<1> DEFINE place(q) == CHOOSE n \in DOMAIN todo : todo[n] = q
           after(q) == Done(value[place(q) - 1], call[q])
<1>1. /\ leaseMap' = [leaseMap EXCEPT ![k] = rest]
      /\ cacheMap' = [cacheMap EXCEPT ![k] = value[Len(todo)]]
      /\ banLeaseMap' = [banLeaseMap EXCEPT ![k] = IF rest = {} THEN 0
                                                   ELSE banLeaseMap[k]]
      /\ defReqMap' = [defReqMap EXCEPT ![k] = IF rest = {} THEN <<>>
                                               ELSE defReqMap[k]]
  BY DEF DropLease
<1>2. call' = [q \in Callers |-> IF q \in ToSet(todo) THEN after(q) ELSE call[q]]
  BY DEF DropLease
<1> HIDE DEF after
<1>3. /\ leaseMap \in [Keys -> SUBSET Clients]
      /\ banLeaseMap \in [Keys -> Nat]
      /\ defReqMap \in [Keys -> Seq(Callers)]
      /\ cacheMap = [l \in Keys |-> cacheMap[l]]
      /\ \A l \in Keys : cacheMap[l].kind \in Kinds
      /\ \A q \in Callers : CallOK(q, call[q])
  BY DEF IInv, Shapes, CallsOK, ValuesOK, LeasesOK
<1>4. /\ ToSet(defReqMap[k]) \subseteq Callers
      /\ \A q \in ToSet(defReqMap[k]) :
           call[q].at = "deferred" /\ call[q].req.op \in Writes
  <2>1. \A q \in ToSet(defReqMap[k]) : q \in Callers /\ call[q].at = "deferred"
    BY DEF IInv, WaitForLeases
  <2> QED BY <1>3, <2>1 DEF CallOK
<1>5. /\ todo \in Seq(Callers) /\ ToSet(todo) \subseteq ToSet(defReqMap[k])
      /\ rest # {} => ToSet(todo) = {} /\ Len(todo) = 0
      /\ \A n \in 1 .. Len(todo) : todo[n] \in ToSet(todo)
  <2>1. CASE rest = {}
    BY <1>3, <2>1, ElementsOf
  <2>2. CASE rest # {}
    BY <2>2, EmptyIs
  <2> QED BY <2>1, <2>2
<1>6. value[Len(todo)].kind \in Kinds /\ value[0] = cacheMap[k]
  <2>1. \A n \in 1 .. Len(todo) : call[todo[n]].req.op \in Writes
    BY <1>4, <1>5
  <2> QED BY <1>3, <1>5, <2>1, ValuesKinds
<1>7. rest # {} => value[Len(todo)] = cacheMap[k]
  BY <1>5, <1>6
<1>8. /\ \A l \in Keys : cacheMap'[l] = IF l = k THEN value[Len(todo)]
                                               ELSE cacheMap[l]
      /\ cacheMap' = [l \in Keys |-> cacheMap'[l]]
  BY <1>1, <1>3
<1>9. ValuesOK'
  BY <1>3, <1>6, <1>8 DEF ValuesOK
<1>10. /\ leaseMap'[k] = rest
       /\ \A l \in Keys : leaseMap'[k] # {} \/ l # k
                            => /\ cacheMap'[l] = cacheMap[l]
                               /\ banLeaseMap'[l] = banLeaseMap[l]
                               /\ defReqMap'[l] = defReqMap[l]
       /\ rest = {} => banLeaseMap'[k] = 0 /\ defReqMap'[k] = <<>>
  BY <1>1, <1>3, <1>7, <1>8
<1>11. /\ banLeaseMap' \in [Keys -> Nat]
       /\ defReqMap' \in [Keys -> Seq(Callers)]
  BY <1>1, <1>3
<1>12. \A q \in Callers :
         q \in ToSet(todo) => /\ CallOK(q, after(q))
                              /\ after(q).at = "answered" /\ ~after(q).granted
                              /\ after(q).req = call[q].req
  <2> TAKE q \in Callers
  <2>1. SUFFICES ASSUME q \in ToSet(todo)
                 PROVE  /\ CallOK(q, after(q))
                        /\ after(q).at = "answered" /\ ~after(q).granted
                        /\ after(q).req = call[q].req
    OBVIOUS
  <2>2. CallOK(q, call[q]) /\ call[q].at # "idle"
    BY <1>3, <1>4, <1>5, <2>1
  <2> PICK v : v = value[place(q) - 1]
    OBVIOUS
  <2>3. after(q) = Done(v, call[q])
    BY DEF after
  <2> QED BY <2>2, <2>3, DoneOK
<1>13. /\ \A q \in Callers : call'[q] = IF q \in ToSet(todo) THEN after(q)
                                                           ELSE call[q]
       /\ call' = [q \in Callers |-> call'[q]]
  BY <1>2
<1>14. CallsOK'
  BY <1>3, <1>12, <1>13 DEF CallsOK
<1>15. \A q \in Callers :
         IF leaseMap'[k] = {} /\ q \in ToSet(defReqMap[k])
         THEN /\ call'[q].at = "answered" /\ ~call'[q].granted
              /\ call'[q].req = call[q].req
         ELSE call'[q] = call[q]
  <2> TAKE q \in Callers
  <2>1. q \in ToSet(todo) <=> leaseMap'[k] = {} /\ q \in ToSet(defReqMap[k])
    BY <1>5, <1>10
  <2> QED BY <1>12, <1>13, <2>1
<1> QED BY <1>1, <1>9, <1>10, <1>11, <1>14, <1>15

LEMMA LeaseDropped ==
  ASSUME IInv, NEW k \in Keys, NEW c \in Clients, DropLease(k, c),
         UNCHANGED <<writes, asked, libstoreVars>>,
         agreed' \in [Keys -> [Clients -> Nat]],
         Note(Dropped(k, c))
  PROVE  IInv'
<1>1. /\ leaseMap' = [leaseMap EXCEPT ![k] = leaseMap[k] \ {c}]
      /\ ValuesOK'
      /\ \A l \in Keys : leaseMap'[k] # {} \/ l # k
                           => /\ cacheMap'[l] = cacheMap[l]
                              /\ banLeaseMap'[l] = banLeaseMap[l]
                              /\ defReqMap'[l] = defReqMap[l]
      /\ leaseMap'[k] = {} => banLeaseMap'[k] = 0 /\ defReqMap'[k] = <<>>
      /\ banLeaseMap' \in [Keys -> Nat]
      /\ defReqMap' \in [Keys -> Seq(Callers)]
      /\ CallsOK'
      /\ \A q \in Callers :
           IF leaseMap'[k] = {} /\ q \in ToSet(defReqMap[k])
           THEN /\ call'[q].at = "answered" /\ ~call'[q].granted
                /\ call'[q].req = call[q].req
           ELSE call'[q] = call[q]
  BY DropDoes
<1>2. /\ leaseMap' \in [Keys -> SUBSET Clients]
      /\ \A l \in Keys, d \in Clients :
           d \in leaseMap'[l] <=> d \in leaseMap[l] /\ ~(l = k /\ d = c)
      /\ \A l \in Keys : l # k => leaseMap'[l] = leaseMap[l]
  BY <1>1 DEF IInv, Shapes, LeasesOK
<1>3. NumbersOK' /\ EntriesOK'
  BY DEF IInv, Shapes, NumbersOK, EntriesOK, libstoreVars
<1>4. LeasesOK'
  <2>1. Dropped(k, c) \subseteq Clients \X Keys
    BY DEF Dropped
  <2>2. unprotected' \subseteq Clients \X Keys
    BY <2>1, NotedType DEF IInv, Shapes
  <2> QED BY <1>1, <1>2, <2>2 DEF LeasesOK
<1>5. \A l \in Keys :
        {q \in Callers : call[q].at = "deferred" /\ call[q].req.key = l}
          = ToSet(defReqMap[l])
  BY DEF IInv, WaitForLeases
<1>6. ASSUME NEW l \in Keys
      PROVE  /\ banLeaseMap'[l] = Len(defReqMap'[l])
             /\ banLeaseMap'[l] > 0 => leaseMap'[l] # {}
             /\ {q \in Callers : call'[q].at = "deferred" /\ call'[q].req.key = l}
                  = ToSet(defReqMap'[l])
             /\ IsInjective(defReqMap'[l])
  <2>1. CASE leaseMap'[k] # {} \/ l # k
    <3>1. \A q \in Callers :
            call'[q].at = "deferred" /\ call'[q].req.key = l
              <=> call[q].at = "deferred" /\ call[q].req.key = l
      <4> TAKE q \in Callers
      <4>1. CASE leaseMap'[k] = {} /\ q \in ToSet(defReqMap[k])
        BY <1>1, <1>5, <2>1, <4>1
      <4>2. CASE ~(leaseMap'[k] = {} /\ q \in ToSet(defReqMap[k]))
        BY <1>1, <4>2
      <4> QED BY <4>1, <4>2
    <3>2. {q \in Callers : call'[q].at = "deferred" /\ call'[q].req.key = l}
            = ToSet(defReqMap[l])
      BY <1>5, <3>1
    <3> QED BY <1>1, <1>2, <2>1, <3>2 DEF IInv, WaitForLeases
  <2>2. CASE leaseMap'[k] = {} /\ l = k
    <3>1. banLeaseMap'[l] = 0 /\ defReqMap'[l] = <<>>
      BY <1>1, <2>2
    <3>2. ToSet(<<>>) = {} /\ Len(<<>>) = 0 /\ IsInjective(<<>>)
      BY EmptyIs
    <3>3. ASSUME NEW q \in Callers
          PROVE  ~(call'[q].at = "deferred" /\ call'[q].req.key = k)
      <4>1. CASE q \in ToSet(defReqMap[k])
        BY <1>1, <2>2, <4>1
      <4>2. CASE q \notin ToSet(defReqMap[k])
        <5>1. call'[q] = call[q]
          BY <1>1, <4>2
        <5>2. ~(call[q].at = "deferred" /\ call[q].req.key = k)
          BY <1>5, <4>2
        <5> QED BY <5>1, <5>2
      <4> QED BY <4>1, <4>2
    <3> QED BY <2>2, <3>1, <3>2, <3>3
  <2> QED BY <2>1, <2>2
<1>7. WaitForLeases'
  BY <1>6 DEF WaitForLeases
<1>8. AllCovered'
  <2>1. \A q \in Callers :
          call'[q].granted => call[q].granted /\ call'[q] = call[q]
    BY <1>1
  <2>2. ASSUME NEW d \in Clients, NEW l \in Keys
        PROVE  \/ <<d, l>> \in Dropped(k, c)
               \/ d \notin leaseMap[l]
               \/ cacheMap'[l] = cacheMap[l] /\ d \in leaseMap'[l]
    <3>1. CASE l = k /\ d = c
      BY <3>1 DEF Dropped
    <3>2. CASE ~(l = k /\ d = c) /\ d \in leaseMap[l]
      <4>1. d \in leaseMap'[l]
        BY <1>2, <3>2
      <4> QED BY <1>1, <4>1
    <3>3. CASE d \notin leaseMap[l]
      BY <3>3
    <3> QED BY <3>1, <3>2, <3>3
  <2>3. UNCHANGED cacheEntry
    BY DEF libstoreVars
  <2> QED BY <2>1, <2>2, <2>3, CoverKept DEF IInv
<1> QED BY <1>1, <1>3, <1>4, <1>7, <1>8 DEF IInv, Shapes

LEMMA LeaseReturned ==
  ASSUME IInv, NEW k \in Keys, NEW c \in Clients,
         LeaseRevoked(k, c) \/ LeaseExpires(k, c)
  PROVE  IInv'
<1>1. CASE LeaseRevoked(k, c)
  <2>1. /\ agreed[k][c] > 0
        /\ agreed' = [agreed EXCEPT ![k][c] = @ - 1]
        /\ UNCHANGED <<writes, asked, libstoreVars>>
        /\ Note(Dropped(k, c))
    BY <1>1 DEF LeaseRevoked, HandleRevokeLease
  <2>2. agreed' \in [Keys -> [Clients -> Nat]]
    <3>1. agreed[k][c] \in Nat
      BY DEF IInv, Shapes, NumbersOK
    <3> QED BY <2>1, <3>1 DEF IInv, Shapes, NumbersOK
  <2>3. CASE c \in leaseMap[k]
    <3>1. DropLease(k, c)
      BY <1>1, <2>3 DEF LeaseRevoked, HandleRevokeLease
    <3> QED BY <2>1, <2>2, <3>1, LeaseDropped
  <2>4. CASE c \notin leaseMap[k]
    <3>1. UNCHANGED <<call, serverVars>> /\ Note({})
      BY <1>1, <2>1, <2>4 DEF LeaseRevoked, HandleRevokeLease, Dropped
    <3>2. Shapes'
      <4>1. CallsOK' /\ ValuesOK' /\ EntriesOK'
        BY <2>1, <3>1 DEF IInv, Shapes, CallsOK, ValuesOK, EntriesOK,
             serverVars, libstoreVars
      <4>2. NumbersOK'
        BY <2>1, <2>2 DEF IInv, Shapes, NumbersOK, libstoreVars
      <4>3. LeasesOK'
        BY <3>1, NotedType DEF IInv, Shapes, LeasesOK, serverVars
      <4> QED BY <4>1, <4>2, <4>3 DEF Shapes
    <3>3. WaitForLeases'
      BY <3>1, WaitsKept DEF IInv, serverVars
    <3>4. AllCovered'
      BY <2>1, <3>1, CoverKept DEF IInv, serverVars, libstoreVars
    <3> QED BY <3>2, <3>3, <3>4 DEF IInv
  <2> QED BY <2>3, <2>4
<1>2. CASE LeaseExpires(k, c)
  <2>1. /\ DropLease(k, c) /\ UNCHANGED <<writes, asked, agreed, libstoreVars>>
        /\ Note(Dropped(k, c))
    BY <1>2 DEF LeaseExpires, HandleRemoveLease
  <2>2. agreed' \in [Keys -> [Clients -> Nat]]
    BY <2>1 DEF IInv, Shapes, NumbersOK
  <2> QED BY <2>1, <2>2, LeaseDropped
<1> QED BY <1>1, <1>2

-----------------------------------------------------------------------------
(* The theorems.                                                           *)

LEMMA InitiallyIInv == Init => IInv
<1> SUFFICES ASSUME Init PROVE IInv
  OBVIOUS
<1> USE DEF Init, NetInit, ServerInit, LibstoreInit
<1>1. CallsOK
  BY IdleOK DEF CallsOK
<1>2. ValuesOK
  <2>1. \A k \in Keys : Kept(Before[k]).kind \in Kinds
    BY DEF Kept, Stored, Kinds
  <2> QED BY <2>1 DEF ValuesOK
<1>3. EntriesOK
  BY DEF EntriesOK
<1>4. NumbersOK
  BY DEF NumbersOK
<1>5. LeasesOK
  BY DEF LeasesOK
<1>6. \A p \in Callers : call[p].at = "idle" /\ ~call[p].granted
  BY DEF NoCall
<1>7. WaitForLeases
  <2>1. ToSet(<<>>) = {} /\ Len(<<>>) = 0 /\ IsInjective(<<>>)
    BY EmptyIs
  <2>2. \A k \in Keys :
          {p \in Callers : call[p].at = "deferred" /\ call[p].req.key = k} = {}
    BY <1>6
  <2> QED BY <2>1, <2>2 DEF WaitForLeases
<1>8. AllCovered
  BY <1>6 DEF AllCovered, Covered, GrantCovered, Usable
<1> QED BY <1>1, <1>2, <1>3, <1>4, <1>5, <1>7, <1>8 DEF IInv, Shapes

LEMMA IInvKept ==
  ASSUME IInv, [Next]_vars
  PROVE  IInv'
<1>1. CASE UNCHANGED vars
  BY <1>1 DEF vars, netVars, serverVars, libstoreVars, IInv, Shapes, CallsOK,
       ValuesOK, EntriesOK, NumbersOK, LeasesOK, WaitForLeases, AllCovered,
       Covered, GrantCovered, Usable, Coherent
<1>2. CASE Next
  BY <1>2, CallMade, CallServed, ReplyTaken, LeaseReturned, RevocationTaken,
     Collected DEF Next
<1> QED BY <1>1, <1>2

LEMMA AlwaysIInv == Spec => []IInv
BY InitiallyIInv, IInvKept, PTL DEF Spec

\* Calls, values, entries, queues and numbers keep their types through every
\* step of appHandler and cacheHandler.
THEOREM StorageTypes == Spec => []TypeOK
<1>1. IInv => TypeOK
  BY DEF IInv, Shapes, CallsOK, CallOK, ValuesOK, EntriesOK, NumbersOK,
         LeasesOK, TypeOK, NetTypeOK, ServerTypeOK, LibstoreTypeOK, Kinds
<1> QED BY <1>1, AlwaysIInv, PTL

\* The queue of a key, its counter in banLeaseMap, the goroutines that wait and
\* the leases that are out never disagree.
THEOREM WritesWaitForLeases == Spec => []WaitForLeases
<1>1. IInv => WaitForLeases
  BY DEF IInv
<1> QED BY <1>1, AlwaysIInv, PTL

\* A cache answers as the server would, however clients read and write, unless
\* its pair of client and key is noted.
THEOREM CachesAreCoherent == Spec => []CoherentIfProtected
<1>1. IInv => CoherentIfProtected
  BY DEF IInv, AllCovered, Covered, CoherentIfProtected
<1> QED BY <1>1, AlwaysIInv, PTL

=============================================================================
