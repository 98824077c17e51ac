---------------------------- MODULE BookingProofs ----------------------------
(***************************************************************************)
(* Proofs about Booking, for any numbers of agencies, airlines, servers,   *)
(* bookings and flights.  Each part of the invariant rests on those above  *)
(* it:                                                                     *)
(*   Enlisted    who is asked, by which calls and commands, and once       *)
(*   Polled, Awaited  a vote that is still to come is one the TM waits for *)
(*   Decided     a COMMIT under way was agreed to by everybody asked, or   *)
(*               the TM's timer sent it                                    *)
(*   Books(s)    the flights of a prepared transaction are locked for it   *)
(*               alone, so a new Slot is still right when it is written    *)
(*   Replicas    what a server of an airline holds is a function of the    *)
(*               commands that it carried out                              *)
(*   TwoPhase    without timers: an ABORT under way was voted for too, so  *)
(*               that each step is one of AtomicCommit or a stutter        *)
(***************************************************************************)
EXTENDS Booking, SequenceLemmas

-----------------------------------------------------------------------------
(* The inductive invariant, part by part.                                  *)

InitCmd(t, s) == [op |-> "INIT", tran |-> t, own |-> s]

\* The TM of t has taken the BookingFlights call.
Started(t) == client[t] \notin {"new", "calling"}

\* t goes to one server of each of its airlines.
OneServerEach ==
  \A t \in Trans :
    /\ \A i \in DOMAIN pptList[t] : AirlineOf[pptList[t][i]] \in DOMAIN Legs[t]
    /\ \A i, j \in DOMAIN pptList[t] :
         AirlineOf[pptList[t][i]] = AirlineOf[pptList[t][j]] => i = j

\* The TM knows nothing of t before, and those it asked afterwards.
KnownIfStarted ==
  \A t \in Trans :
    /\ client[t] = "new" => pptList[t] = <<>>
    /\ ~Started(t) => /\ orderList[t] = <<>>
                      /\ commitGrp[t] = <<>>
                      /\ t \notin activeTransMap
                      /\ t \notin tmTimers
                      /\ decision[t] = "NOT_DECIDED"
    /\ Started(t) => DOMAIN commitGrp[t] = ToSet(pptList[t])

\* The orders not sent yet go to servers asked, one to each.
OrdersLeftOnce ==
  \A t \in Trans :
    /\ ToSet(orderList[t]) \subseteq ToSet(pptList[t])
    /\ \A i, j \in DOMAIN orderList[t] : orderList[t][i] = orderList[t][j] => i = j

\* The order of t for server s has not got to s.
Unsent(t, s) ==
  \/ s \in ToSet(orderList[t])
  \/ LET c == call[TM[t]] IN
     c.why = "init" /\ c.tran = t /\ s \in ToSet(c.todo)

\* A TM calls for its own bookings, the servers asked, with an order once.
CallsToParticipants ==
  \A m \in Agencies :
    call[m] \notin {Idle, Blocked} =>
      LET c == call[m] IN
      /\ TM[c.tran] = m
      /\ Started(c.tran)
      /\ ToSet(c.todo) \subseteq ToSet(pptList[c.tran])
      /\ c.why = "init" => /\ Len(c.todo) = 1
                           /\ Head(c.todo) \notin ToSet(orderList[c.tran])

\* Commands come from servers of a that were asked, those for INIT by their
\* order.
CommandsOfParticipants ==
  \A a \in Airlines : \A c \in proposed[a] :
    /\ AirlineOf[c.own] = a
    /\ c.op # "CREATE" => Started(c.tran) /\ c.own \in ToSet(pptList[c.tran])
    /\ c.op = "INIT" => ~Unsent(c.tran, c.own)

\* The commands that s carried out are such.
Handed(s) == ToSet(executed[s])

HandedProposed == \A s \in Servers : Handed(s) \subseteq proposed[AirlineOf[s]]

Enlisted ==
  /\ OneServerEach
  /\ KnownIfStarted
  /\ OrdersLeftOnce
  /\ CallsToParticipants
  /\ CommandsOfParticipants
  /\ HandedProposed

\* The vote of s in t is still to come.
Outstanding(t, s) ==
  \/ Unsent(t, s)
  \/ InitCmd(t, s) \in Pending(s)
  \/ Voting(s) /\ storeHandler[s].tran = t

\* It is one that the TM waits for.
Awaited ==
  \A t \in Trans, s \in Servers :
    Outstanding(t, s) => /\ t \in activeTransMap
                         /\ s \in ToSet(pptList[t])
                         /\ commitGrp[t][s] = "NOT_DECIDED"

\* Who votes has carried out an order.
Polled ==
  \A s \in Servers :
    Voting(s) => InitCmd(storeHandler[s].tran, s) \in Handed(s)

\* The decision is what the votes so far make of it.
DecisionOfVotes ==
  \A t \in Trans :
    /\ decision[t] = "ABORT" <=>
         \E s \in DOMAIN commitGrp[t] : commitGrp[t][s] = "ABORT"
    /\ decision[t] = "NOT_DECIDED" <=>
         \A s \in DOMAIN commitGrp[t] : commitGrp[t][s] = "NOT_DECIDED"

\* All those asked in t voted for it, and t is over.
Agreed(t) ==
  /\ t \notin activeTransMap
  /\ \A s \in DOMAIN commitGrp[t] : commitGrp[t][s] = "COMMIT"

\* Decisions are sent when all have voted, or by the timer.
CallsAfterVotes ==
  \A m \in Agencies :
    call[m] \notin {Idle, Blocked} =>
      LET c == call[m] IN
      /\ c.why = "complete" => /\ c.tran \notin activeTransMap
                               /\ AllVoted(commitGrp[c.tran])
      /\ c.why = "expire" => c.tran \in expired

\* A COMMIT that is proposed, under way or carried out was agreed to, unless the
\* timer sent it.
CommitAgreed ==
  /\ \A a \in Airlines : \A c \in proposed[a] :
       c.op = "RESPONSE" /\ c.vote = "COMMIT" =>
         c.tran \in expired \/ Agreed(c.tran)
  /\ \A s \in Servers, t \in Trans :
       oldLog[s][t] = "COMMIT" => Started(t) /\ (t \in expired \/ Agreed(t))

\* What s has logged of t or will when its vote is taken.
Prepared(s, t) ==
  IF Voting(s) /\ storeHandler[s].tran = t /\ storeHandler[s].vote = "COMMIT"
  THEN storeHandler[s].log ELSE logBuf[s][t]

\* s took part in t only if it has carried out an order for it.
PartAfterInit(s) ==
  \A t \in Trans :
    \/ logBuf[s][t] # <<>>
    \/ oldLog[s][t] # "NOT_DECIDED"
    \/ Voting(s) /\ storeHandler[s].tran = t
    => \E c \in Handed(s) : c.op = "INIT" /\ c.tran = t

\* Who votes in a transaction has neither logged nor carried it out before.
VotingIsNew(s) ==
  Voting(s) => /\ logBuf[s][storeHandler[s].tran] = <<>>
               /\ oldLog[s][storeHandler[s].tran] = "NOT_DECIDED"

\* The flights of a prepared transaction are locked, for it alone, and its new
\* Slots are those of now less what it takes.
PreparedLocked(s) ==
  \A t \in Trans :
    /\ DOMAIN Prepared(s, t) # {} =>
         /\ DOMAIN Prepared(s, t) = ToSet(Order(s, t))
         /\ oldLog[s][t] # "COMMIT"
    /\ \A f \in DOMAIN Prepared(s, t) :
         /\ f \in lockBuf[s]
         /\ f \in DOMAIN slot[s]
         /\ Prepared(s, t)[f] = slot[s][f] - Amount[t]
         /\ Prepared(s, t)[f] >= 0
         /\ \A u \in Trans : f \in DOMAIN Prepared(s, u) => u = t

\* Transactions are carried out on flights that are there.
CommittedKnown(s) ==
  \A t \in Trans :
    oldLog[s][t] = "COMMIT" => ToSet(Order(s, t)) \subseteq DOMAIN slot[s]

\* Each Slot is what SeatsConserved says.
SeatsRight(s) ==
  \A f \in DOMAIN slot[s] :
    /\ slot[s][f] >= 0
    /\ slot[s][f] = Seats[f] - Cardinality(CommittedFor(s, f, 1))
                             + Cardinality(CommittedFor(s, f, -1))

Accounts(s) == PreparedLocked(s) /\ CommittedKnown(s) /\ SeatsRight(s)

Books(s) == PartAfterInit(s) /\ VotingIsNew(s) /\ Accounts(s)

-----------------------------------------------------------------------------
(* Types.                                                                  *)

\* The airline of s is one of those of t.
Flies(s, t) == AirlineOf[s] \in DOMAIN Legs[t]

LEMMA OrderType ==
  ASSUME NEW t \in Trans, NEW s \in Servers, Flies(s, t)
  PROVE  /\ Order(s, t) \in Seq(Flights)
         /\ ToSet(Order(s, t)) # {}
         /\ Amount[t] \in {1, -1}
<1>1. Order(s, t) \in Seq(Flights) \ {<<>>} /\ Amount[t] \in {1, -1}
  BY TransAssumption DEF Order, Flies
<1>2. Len(Order(s, t)) \in Nat \ {0}
  BY <1>1, EmptySeq
<1>3. Order(s, t)[1] \in ToSet(Order(s, t))
  BY <1>1, <1>2, ElementsOf
<1> QED BY <1>1, <1>3

\* What a claim is: the vote is COMMIT if all flights are there, unlocked and
\* have the seats, and then all of them are taken.
LEMMA ClaimType ==
  ASSUME AirlineTypeOK, NEW t \in Trans, NEW s \in Servers, Flies(s, t)
  PROVE  /\ Taken(s, t) \subseteq DOMAIN slot[s]
         /\ \A f \in Taken(s, t) : f \notin lockBuf[s] /\ slot[s][f] >= Amount[t]
         /\ Claim(s, t).vote \in {"COMMIT", "ABORT"}
         /\ Claim(s, t).vote = "COMMIT" => Taken(s, t) = ToSet(Order(s, t))
         /\ Claim(s, t).locks = lockBuf[s] \cup Taken(s, t)
         /\ Claim(s, t).log = [f \in Taken(s, t) |-> slot[s][f] - Amount[t]]
         /\ \A f \in Taken(s, t) : slot[s][f] - Amount[t] \in Int
<1> DEFINE o == Order(s, t)
<1>1. o \in Seq(Flights) /\ Amount[t] \in {1, -1}
  BY OrderType
<1>2. slot[s] \in [DOMAIN slot[s] -> Int]
  BY DEF AirlineTypeOK
<1>3. Taken(s, t) = {o[i] : i \in {j \in DOMAIN o : \A k \in 1 .. j : ~Refused(s, t, k)}}
  BY DEF Taken
<1>4. DOMAIN o = 1 .. Len(o) /\ Len(o) \in Nat
  BY <1>1
<1>5. ASSUME NEW i \in DOMAIN o, ~Refused(s, t, i)
      PROVE  o[i] \in DOMAIN slot[s] /\ slot[s][o[i]] >= Amount[t]
             /\ o[i] \notin lockBuf[s]
  <2>1. ~(slot[s][o[i]] < Amount[t]) /\ o[i] \in DOMAIN slot[s] /\ o[i] \notin lockBuf[s]
    BY <1>5, Zenon DEF Refused
  <2>2. slot[s][o[i]] \in Int
    BY <2>1, <1>2
  <2> QED BY <2>1, <2>2, <1>1
<1>6. ASSUME NEW f \in Taken(s, t)
      PROVE  f \in DOMAIN slot[s] /\ slot[s][f] >= Amount[t] /\ f \notin lockBuf[s]
  <2>1. PICK i \in DOMAIN o : f = o[i] /\ \A k \in 1 .. i : ~Refused(s, t, k)
    BY <1>3
  <2>2. ~Refused(s, t, i)
    BY <2>1, <1>4
  <2> QED BY <2>1, <2>2, <1>5
<1>7. /\ Claim(s, t).vote = IF \E i \in DOMAIN o : Refused(s, t, i)
                            THEN "ABORT" ELSE "COMMIT"
      /\ Claim(s, t).locks = lockBuf[s] \cup Taken(s, t)
      /\ Claim(s, t).log = [f \in Taken(s, t) |-> slot[s][f] - Amount[t]]
  BY DEF Claim, ClaimFrom
<1>8. ASSUME Claim(s, t).vote = "COMMIT"
      PROVE  Taken(s, t) = ToSet(o)
  <2>1. \A i \in DOMAIN o : ~Refused(s, t, i)
    BY <1>7, <1>8
  <2>2. \A i \in DOMAIN o : \A k \in 1 .. i : ~Refused(s, t, k)
    BY <2>1, <1>4
  <2> QED BY <2>2, <1>3 DEF ToSet
<1>9. \A f \in Taken(s, t) : slot[s][f] - Amount[t] \in Int
  BY <1>6, <1>2, <1>1
<1> QED BY <1>6, <1>7, <1>8, <1>9

LEMMA TypeInit == Init => TypeOK
<1> SUFFICES ASSUME Init PROVE TypeOK
  OBVIOUS
<1>1. NetTypeOK
  BY DEF Init, NetInit, NetTypeOK
<1>2. TranLayerTypeOK
  BY DEF Init, TranLayerInit, TranLayerTypeOK, Decisions, Idle
<1>3. AirlineTypeOK
  <2> USE DEF Init, AirlineInit
  <2>1. ASSUME NEW s \in Servers
        PROVE  /\ slot[s] \in [DOMAIN slot[s] -> Int]
               /\ DOMAIN slot[s] \subseteq Flights
    BY ServersAssumption
  <2>2. \A s \in Servers : ~Voting(s) /\ storeHandler[s] = Waiting
    BY DEF Voting, Waiting
  <2>4. DOMAIN <<>> = {} /\ <<>> \in [{} -> Int]
    OBVIOUS
  <2>5. \A s \in Servers : /\ DOMAIN logBuf[s] = Trans
                           /\ \A t \in Trans : logBuf[s][t] = <<>>
    OBVIOUS
  <2>6. lockBuf \in [Servers -> SUBSET Flights] /\ oldLog \in [Servers -> [Trans -> Decisions]]
        /\ timers \in [Servers -> SUBSET Trans]
    BY DEF Decisions
  <2> QED BY <2>1, <2>2, <2>4, <2>5, <2>6 DEF AirlineTypeOK
<1> QED BY <1>1, <1>2, <1>3 DEF TypeOK

LEMMA AirlineTypeFrame ==
  ASSUME AirlineTypeOK, UNCHANGED airlineVars
  PROVE  AirlineTypeOK'
BY DEF AirlineTypeOK, airlineVars, Voting

\* Only server s changes, and what it changes to has the right type.
LEMMA AirlineTypeStep ==
  ASSUME AirlineTypeOK, NEW s \in Servers,
         DOMAIN slot' = Servers, DOMAIN logBuf' = Servers,
         DOMAIN storeHandler' = Servers,
         \A r \in Servers \ {s} :
           /\ slot'[r] = slot[r] /\ logBuf'[r] = logBuf[r]
           /\ storeHandler'[r] = storeHandler[r],
         slot'[s] \in [DOMAIN slot'[s] -> Int],
         DOMAIN slot'[s] \subseteq Flights,
         DOMAIN logBuf'[s] = Trans,
         \A t \in Trans : /\ logBuf'[s][t] \in [DOMAIN logBuf'[s][t] -> Int]
                          /\ DOMAIN logBuf'[s][t] \subseteq DOMAIN slot'[s],
         \/ storeHandler'[s] \in {Waiting, Asking}
         \/ /\ storeHandler'[s].at = "initTrans"
            /\ storeHandler'[s].tran \in Trans
            /\ storeHandler'[s].vote \in {"COMMIT", "ABORT"}
            /\ storeHandler'[s].log \in [DOMAIN storeHandler'[s].log -> Int]
            /\ DOMAIN storeHandler'[s].log \subseteq DOMAIN slot'[s],
         lockBuf' \in [Servers -> SUBSET Flights],
         oldLog' \in [Servers -> [Trans -> Decisions]],
         timers' \in [Servers -> SUBSET Trans]
  PROVE  AirlineTypeOK'
<1>1. storeHandler'[s] \in {Waiting, Asking} => storeHandler'[s].at # "initTrans"
  BY DEF Waiting, Asking
<1> QED BY <1>1 DEF AirlineTypeOK, Voting

LEMMA LogVoteType ==
  ASSUME AirlineTypeOK, NEW s \in Servers, NEW t \in Trans, NEW vote, NEW new,
         new \in [DOMAIN new -> Int], DOMAIN new \subseteq DOMAIN slot[s],
         LogVote(s, t, vote, new)
  PROVE  /\ DOMAIN logBuf' = Servers
         /\ \A r \in Servers \ {s} : logBuf'[r] = logBuf[r]
         /\ DOMAIN logBuf'[s] = Trans
         /\ \A u \in Trans : /\ logBuf'[s][u] \in [DOMAIN logBuf'[s][u] -> Int]
                             /\ DOMAIN logBuf'[s][u] \subseteq DOMAIN slot[s]
                             /\ logBuf'[s][u] = IF vote = "COMMIT" /\ u = t
                                                THEN new ELSE logBuf[s][u]
         /\ timers' \in [Servers -> SUBSET Trans]
<1>1. CASE vote = "COMMIT"
  <2>1. /\ logBuf' = [logBuf EXCEPT ![s][t] = new]
        /\ timers' = [timers EXCEPT ![s] = @ \cup {t}]
    BY <1>1 DEF LogVote
  <2> QED BY <2>1, <1>1 DEF AirlineTypeOK
<1>2. CASE vote # "COMMIT"
  BY <1>2 DEF LogVote, AirlineTypeOK
<1> QED BY <1>1, <1>2

LEMMA TypeInitTransaction ==
  ASSUME AirlineTypeOK, NEW s \in Servers, NEW t \in Trans, NEW own,
         Flies(s, t), storeHandler[s] = Waiting,
         InitTransaction(s, t, own)
  PROVE  AirlineTypeOK'
<1> DEFINE c == Claim(s, t)
<1>1. /\ c.locks = lockBuf[s] \cup Taken(s, t)
      /\ c.vote \in {"COMMIT", "ABORT"}
      /\ c.log \in [DOMAIN c.log -> Int] /\ DOMAIN c.log \subseteq DOMAIN slot[s]
      /\ Taken(s, t) \subseteq DOMAIN slot[s]
  <2>1. /\ c.locks = lockBuf[s] \cup Taken(s, t)
        /\ c.vote \in {"COMMIT", "ABORT"}
        /\ Taken(s, t) \subseteq DOMAIN slot[s]
        /\ c.log = [f \in Taken(s, t) |-> slot[s][f] - Amount[t]]
        /\ \A f \in Taken(s, t) : slot[s][f] - Amount[t] \in Int
    BY ClaimType
  <2> HIDE DEF c
  <2>2. c.log \in [Taken(s, t) -> Int] /\ DOMAIN c.log = Taken(s, t)
    BY <2>1
  <2> QED BY <2>1, <2>2
<1>2. /\ lockBuf' = [lockBuf EXCEPT ![s] = c.locks]
      /\ UNCHANGED <<slot, oldLog>>
  BY DEF InitTransaction
<1>3. /\ UNCHANGED <<logBuf, timers, storeHandler>>
      \/ /\ storeHandler' = [storeHandler EXCEPT
                               ![s] = [at |-> "initTrans", tran |-> t,
                                       vote |-> c.vote, log |-> c.log]]
         /\ UNCHANGED <<logBuf, timers>>
      \/ /\ LogVote(s, t, c.vote, c.log)
         /\ UNCHANGED storeHandler
  BY DEF InitTransaction
<1> HIDE DEF c
<1>4. lockBuf' \in [Servers -> SUBSET Flights]
  BY <1>1, <1>2 DEF AirlineTypeOK
<1>6. CASE UNCHANGED <<logBuf, timers, storeHandler>>
  <2>1. storeHandler'[s] \in {Waiting, Asking}
    BY <1>6
  <2> QED BY <1>2, <1>4, <1>6, <2>1, AirlineTypeStep DEF AirlineTypeOK
<1>7. CASE /\ storeHandler' = [storeHandler EXCEPT
                               ![s] = [at |-> "initTrans", tran |-> t,
                                       vote |-> c.vote, log |-> c.log]]
           /\ UNCHANGED <<logBuf, timers>>
  <2>1. /\ DOMAIN storeHandler' = Servers
        /\ storeHandler'[s] = [at |-> "initTrans", tran |-> t,
                               vote |-> c.vote, log |-> c.log]
        /\ \A r \in Servers \ {s} : storeHandler'[r] = storeHandler[r]
    BY <1>7 DEF AirlineTypeOK
  <2>2. /\ storeHandler'[s].at = "initTrans"
        /\ storeHandler'[s].tran \in Trans
        /\ storeHandler'[s].vote \in {"COMMIT", "ABORT"}
        /\ storeHandler'[s].log \in [DOMAIN storeHandler'[s].log -> Int]
        /\ DOMAIN storeHandler'[s].log \subseteq DOMAIN slot[s]
    BY <2>1, <1>1
  <2> QED BY <1>2, <1>4, <1>7, <2>1, <2>2, AirlineTypeStep DEF AirlineTypeOK
<1>8. CASE LogVote(s, t, c.vote, c.log) /\ UNCHANGED storeHandler
  <2>1. /\ DOMAIN logBuf' = Servers
        /\ \A r \in Servers \ {s} : logBuf'[r] = logBuf[r]
        /\ DOMAIN logBuf'[s] = Trans
        /\ \A u \in Trans : /\ logBuf'[s][u] \in [DOMAIN logBuf'[s][u] -> Int]
                            /\ DOMAIN logBuf'[s][u] \subseteq DOMAIN slot[s]
        /\ timers' \in [Servers -> SUBSET Trans]
    BY <1>1, <1>8, LogVoteType
  <2>2. storeHandler'[s] \in {Waiting, Asking}
    BY <1>8
  <2>3. /\ slot' = slot /\ DOMAIN slot = Servers /\ DOMAIN storeHandler = Servers
        /\ slot[s] \in [DOMAIN slot[s] -> Int] /\ DOMAIN slot[s] \subseteq Flights
        /\ oldLog' \in [Servers -> [Trans -> Decisions]]
    BY <1>2 DEF AirlineTypeOK
  <2> QED BY <1>4, <1>8, <2>1, <2>2, <2>3, AirlineTypeStep
<1> QED BY <1>3, <1>6, <1>7, <1>8

LEMMA TypeResponseTransaction ==
  ASSUME AirlineTypeOK, NEW s \in Servers, NEW t \in Trans,
         NEW vote \in Decisions, storeHandler[s] = Waiting,
         ResponseTransaction(s, t, vote)
  PROVE  AirlineTypeOK'
<1> DEFINE new == logBuf[s][t]
           after == [f \in DOMAIN slot[s] |-> IF f \in DOMAIN new THEN new[f]
                                              ELSE slot[s][f]]
<1>1. /\ new \in [DOMAIN new -> Int] /\ DOMAIN new \subseteq DOMAIN slot[s]
      /\ slot[s] \in [DOMAIN slot[s] -> Int] /\ DOMAIN slot[s] \subseteq Flights
  BY DEF AirlineTypeOK
<1>2. after \in [DOMAIN slot[s] -> Int]
  BY <1>1
<1>3. /\ slot' = IF vote = "COMMIT" THEN [slot EXCEPT ![s] = after] ELSE slot
      /\ lockBuf' = [lockBuf EXCEPT ![s] = @ \ DOMAIN new]
      /\ logBuf' = [logBuf EXCEPT ![s][t] = <<>>]
      /\ oldLog' = IF DOMAIN new # {} THEN [oldLog EXCEPT ![s][t] = vote] ELSE oldLog
      /\ UNCHANGED <<timers, storeHandler>>
  BY DEF ResponseTransaction
<1> HIDE DEF after
<1>4. /\ DOMAIN slot' = Servers /\ \A r \in Servers \ {s} : slot'[r] = slot[r]
      /\ slot'[s] \in [DOMAIN slot[s] -> Int]
  BY <1>1, <1>2, <1>3 DEF AirlineTypeOK
<1>5. /\ DOMAIN logBuf' = Servers /\ \A r \in Servers \ {s} : logBuf'[r] = logBuf[r]
      /\ DOMAIN logBuf'[s] = Trans
      /\ \A u \in Trans : logBuf'[s][u] = IF u = t THEN <<>> ELSE logBuf[s][u]
  BY <1>3 DEF AirlineTypeOK
<1>6. \A u \in Trans : /\ logBuf'[s][u] \in [DOMAIN logBuf'[s][u] -> Int]
                       /\ DOMAIN logBuf'[s][u] \subseteq DOMAIN slot[s]
  <2>1. DOMAIN <<>> = {} /\ <<>> \in [{} -> Int]
    OBVIOUS
  <2>2. \A u \in Trans : /\ logBuf[s][u] \in [DOMAIN logBuf[s][u] -> Int]
                         /\ DOMAIN logBuf[s][u] \subseteq DOMAIN slot[s]
    BY DEF AirlineTypeOK
  <2> QED BY <1>5, <2>1, <2>2, Zenon
<1>7. /\ lockBuf' \in [Servers -> SUBSET Flights]
      /\ oldLog' \in [Servers -> [Trans -> Decisions]]
  BY <1>3 DEF AirlineTypeOK
<1>9. /\ storeHandler'[s] \in {Waiting, Asking} /\ timers' \in [Servers -> SUBSET Trans]
      /\ DOMAIN storeHandler' = Servers
  BY <1>3 DEF AirlineTypeOK
<1>8. /\ DOMAIN slot'[s] = DOMAIN slot[s] /\ slot'[s] \in [DOMAIN slot'[s] -> Int]
      /\ DOMAIN slot'[s] \subseteq Flights
      /\ \A r \in Servers \ {s} : storeHandler'[r] = storeHandler[r]
  BY <1>1, <1>3, <1>4
<1> QED BY <1>4, <1>5, <1>6, <1>7, <1>8, <1>9, AirlineTypeStep

LEMMA TypeCreateFlight ==
  ASSUME AirlineTypeOK, NEW s \in Servers, NEW f \in Flights,
         storeHandler[s] = Waiting, CreateFlight(s, f)
  PROVE  AirlineTypeOK'
<1> DEFINE after == [g \in DOMAIN slot[s] \cup {f} |->
                       IF g \in DOMAIN slot[s] THEN slot[s][g] ELSE Seats[f]]
<1>1. slot[s] \in [DOMAIN slot[s] -> Int] /\ DOMAIN slot[s] \subseteq Flights
  BY DEF AirlineTypeOK
<1>2. Seats[f] \in Int
  BY ServersAssumption
<1>3. after \in [DOMAIN slot[s] \cup {f} -> Int]
  BY <1>1, <1>2
<1>4. /\ slot' = [slot EXCEPT ![s] = after]
      /\ UNCHANGED <<lockBuf, logBuf, oldLog, timers, storeHandler>>
  BY DEF CreateFlight
<1> HIDE DEF after
<1>5. /\ DOMAIN slot' = Servers /\ \A r \in Servers \ {s} : slot'[r] = slot[r]
      /\ slot'[s] \in [DOMAIN slot[s] \cup {f} -> Int]
  BY <1>3, <1>4 DEF AirlineTypeOK
<1>6. \A u \in Trans : DOMAIN logBuf[s][u] \subseteq DOMAIN slot[s] \cup {f}
  BY DEF AirlineTypeOK
<1>9. /\ storeHandler'[s] \in {Waiting, Asking}
      /\ DOMAIN slot'[s] = DOMAIN slot[s] \cup {f}
      /\ slot'[s] \in [DOMAIN slot'[s] -> Int] /\ DOMAIN slot'[s] \subseteq Flights
  BY <1>1, <1>4, <1>5
<1>10. /\ DOMAIN logBuf = Servers /\ DOMAIN storeHandler = Servers
       /\ DOMAIN logBuf[s] = Trans
       /\ \A u \in Trans : logBuf[s][u] \in [DOMAIN logBuf[s][u] -> Int]
       /\ lockBuf \in [Servers -> SUBSET Flights]
       /\ oldLog \in [Servers -> [Trans -> Decisions]]
       /\ timers \in [Servers -> SUBSET Trans]
  BY DEF AirlineTypeOK
<1> QED BY <1>4, <1>5, <1>6, <1>9, <1>10, AirlineTypeStep

LEMMA TypeVoted ==
  ASSUME AirlineTypeOK, NEW s \in Servers, Voting(s), Voted(s)
  PROVE  AirlineTypeOK'
<1> DEFINE h == storeHandler[s]
<1>1. /\ h.tran \in Trans /\ h.log \in [DOMAIN h.log -> Int]
      /\ DOMAIN h.log \subseteq DOMAIN slot[s]
  BY DEF AirlineTypeOK
<1>2. /\ storeHandler' = [storeHandler EXCEPT ![s] = Waiting]
      /\ LogVote(s, h.tran, h.vote, h.log)
      /\ UNCHANGED <<slot, lockBuf, oldLog>>
  BY DEF Voted
<1> HIDE DEF h
<1>3. /\ DOMAIN logBuf' = Servers
      /\ \A r \in Servers \ {s} : logBuf'[r] = logBuf[r]
      /\ DOMAIN logBuf'[s] = Trans
      /\ \A u \in Trans : /\ logBuf'[s][u] \in [DOMAIN logBuf'[s][u] -> Int]
                          /\ DOMAIN logBuf'[s][u] \subseteq DOMAIN slot[s]
      /\ timers' \in [Servers -> SUBSET Trans]
  BY <1>1, <1>2, LogVoteType
<1>4. /\ DOMAIN storeHandler' = Servers /\ storeHandler'[s] = Waiting
      /\ \A r \in Servers \ {s} : storeHandler'[r] = storeHandler[r]
  BY <1>2 DEF AirlineTypeOK
<1> QED BY <1>2, <1>3, <1>4, AirlineTypeStep DEF AirlineTypeOK

LEMMA TypeExpireTransaction ==
  ASSUME AirlineTypeOK, NEW s \in Servers, NEW t \in Trans,
         ExpireTransaction(s, t)
  PROVE  AirlineTypeOK'
<1>1. /\ timers' = [timers EXCEPT ![s] = @ \ {t}]
      /\ UNCHANGED <<slot, lockBuf, logBuf, oldLog>>
      /\ storeHandler' = storeHandler \/ storeHandler' = [storeHandler EXCEPT ![s] = Asking]
      /\ storeHandler[s] = Waiting
  BY DEF ExpireTransaction
<1>2. /\ DOMAIN storeHandler' = Servers /\ storeHandler'[s] \in {Waiting, Asking}
      /\ \A r \in Servers \ {s} : storeHandler'[r] = storeHandler[r]
  BY <1>1 DEF AirlineTypeOK
<1>3. timers' \in [Servers -> SUBSET Trans]
  BY <1>1 DEF AirlineTypeOK
<1>4. /\ DOMAIN slot = Servers /\ DOMAIN logBuf = Servers
      /\ slot[s] \in [DOMAIN slot[s] -> Int] /\ DOMAIN slot[s] \subseteq Flights
      /\ DOMAIN logBuf[s] = Trans
      /\ \A u \in Trans : /\ logBuf[s][u] \in [DOMAIN logBuf[s][u] -> Int]
                          /\ DOMAIN logBuf[s][u] \subseteq DOMAIN slot[s]
      /\ lockBuf \in [Servers -> SUBSET Flights]
      /\ oldLog \in [Servers -> [Trans -> Decisions]]
  BY DEF AirlineTypeOK
<1> QED BY <1>1, <1>2, <1>3, <1>4, AirlineTypeStep

\* A call that has a next server, or none.
AnyCall == [why : {"init", "complete", "expire"}, tran : Trans,
            todo : Seq(Servers)]

LEMMA CallFields ==
  ASSUME TranLayerTypeOK, NEW m \in Agencies, call[m] \notin {Idle, Blocked}
  PROVE  /\ call[m] \in Calls /\ call[m] \in AnyCall
         /\ call[m].tran \in Trans
         /\ call[m].why \in {"init", "complete", "expire"}
         /\ call[m].todo \in Seq(Servers) /\ call[m].todo # <<>>
         /\ Head(call[m].todo) \in Servers
         /\ Tail(call[m].todo) \in Seq(Servers)
         /\ call[m].tran \in Trans =>
              [call[m] EXCEPT !.todo = Tail(@)]
                 = [why |-> call[m].why, tran |-> call[m].tran,
                    todo |-> Tail(call[m].todo)]
<1>1. call[m] \in Calls
  BY DEF TranLayerTypeOK
<1>2. /\ call[m].tran \in Trans
      /\ call[m].why \in {"init", "complete", "expire"}
      /\ call[m].todo \in Seq(Servers) /\ call[m].todo # <<>>
      /\ call[m] = [why |-> call[m].why, tran |-> call[m].tran, todo |-> call[m].todo]
  BY <1>1 DEF Calls
<1>3. Head(call[m].todo) \in Servers /\ Tail(call[m].todo) \in Seq(Servers)
  BY <1>2, ElementsOfTail
<1>4. call[m] \in AnyCall
  BY <1>2 DEF AnyCall
<1>5. [call[m] EXCEPT !.todo = Tail(@)]
        = [why |-> call[m].why, tran |-> call[m].tran, todo |-> Tail(call[m].todo)]
  BY <1>2
<1> QED BY <1>1, <1>2, <1>3, <1>4, <1>5

LEMMA ContinueType ==
  ASSUME TranLayerTypeOK, NEW m \in Agencies, NEW c \in AnyCall,
         NEW d \in Decisions, Continue(m, c, d)
  PROVE  /\ client' \in [Trans -> {"new", "calling", "waiting"} \cup Answers]
         /\ call' \in [Agencies -> Calls \cup {Idle, Blocked}]
         /\ tmTimers' \subseteq Trans /\ tmTimers \subseteq tmTimers'
<1>1. c.todo # <<>> => c \in Calls
  BY DEF AnyCall, Calls
<1>2. c.tran \in Trans
  BY DEF AnyCall
<1>3. /\ tmTimers' \subseteq Trans /\ tmTimers \subseteq tmTimers'
  BY <1>2 DEF Continue, TranLayerTypeOK
<1>4. \/ c.todo # <<>> /\ call' = [call EXCEPT ![m] = c] /\ UNCHANGED client
      \/ call' = [call EXCEPT ![m] = Idle] /\ UNCHANGED client
      \/ Reply(m, c.tran, d)
  BY DEF Continue
<1>5. CASE Reply(m, c.tran, d)
  <2>1. \/ /\ client' = [client EXCEPT ![c.tran] = IF d = "COMMIT" THEN "booked"
                                                                  ELSE "failed"]
           /\ call' = [call EXCEPT ![m] = Idle]
        \/ UNCHANGED client /\ call' = [call EXCEPT ![m] = Blocked]
    BY <1>5 DEF Reply
  <2> QED BY <2>1, <1>2, <1>3 DEF TranLayerTypeOK, Answers
<1> QED BY <1>1, <1>3, <1>4, <1>5 DEF TranLayerTypeOK

LEMMA NetTypePropose ==
  ASSUME NetTypeOK, NEW c \in Command, ProposeCommand(c)
  PROVE  /\ NetTypeOK' /\ UNCHANGED executed
         /\ c.own \in Servers /\ AirlineOf[c.own] \in Airlines
         /\ \A a \in Airlines :
              proposed'[a] = proposed[a] \cup (IF a = AirlineOf[c.own] THEN {c} ELSE {})
<1>1. c.own \in Servers
  BY DEF Command
<1>2. AirlineOf[c.own] \in Airlines
  BY <1>1, ServersAssumption
<1> QED BY <1>1, <1>2 DEF NetTypeOK, ProposeCommand

LEMMA NetTypeHandOver ==
  ASSUME NetTypeOK, NEW s \in Servers, NEW c, HandOver(s, c)
  PROVE  /\ NetTypeOK' /\ UNCHANGED proposed
         /\ AirlineOf[s] \in Airlines
         /\ c \in proposed[AirlineOf[s]] /\ c \in Command
         /\ c \notin Handed(s)
         /\ executed[s] \in Seq(Command) /\ executed'[s] = Append(executed[s], c)
         /\ Handed(s)' = Handed(s) \cup {c}
         /\ \A r \in Servers \ {s} : /\ executed'[r] = executed[r]
                                     /\ Handed(r)' = Handed(r)
<1>1. AirlineOf[s] \in Airlines
  BY ServersAssumption
<1>2. /\ c \in proposed[AirlineOf[s]] /\ c \notin Handed(s)
      /\ executed' = [executed EXCEPT ![s] = Append(@, c)]
      /\ UNCHANGED proposed
  BY DEF HandOver, Pending, Handed
<1>3. c \in Command /\ executed[s] \in Seq(Command)
  BY <1>1, <1>2 DEF NetTypeOK
<1>4. Append(executed[s], c) \in Seq(Command)
  BY <1>3
<1>5. /\ executed'[s] = Append(executed[s], c)
      /\ \A r \in Servers \ {s} : executed'[r] = executed[r]
  BY <1>2 DEF NetTypeOK
<1>6. NetTypeOK'
  BY <1>2, <1>4 DEF NetTypeOK
<1>7. Handed(s)' = Handed(s) \cup {c}
  BY <1>3, <1>5, AppendedSeq DEF Handed
<1> QED BY <1>1, <1>2, <1>3, <1>5, <1>6, <1>7 DEF Handed

LEMMA TransFacts ==
  ASSUME NEW t \in Trans
  PROVE  /\ TM[t] \in Agencies /\ Amount[t] \in {1, -1}
         /\ DOMAIN Legs[t] \subseteq Airlines /\ DOMAIN Legs[t] # {}
         /\ IsFiniteSet(DOMAIN Legs[t]) /\ Cardinality(DOMAIN Legs[t]) \in Nat
<1>1. DOMAIN Legs[t] \subseteq Airlines
  BY TransAssumption
<1>2. IsFiniteSet(DOMAIN Legs[t])
  BY <1>1, ServersAssumption, FS_Subset
<1>3. Cardinality(DOMAIN Legs[t]) \in Nat
  BY <1>2, FS_CardinalityType
<1> QED BY <1>1, <1>2, <1>3, TransAssumption

LEMMA TypeBookingFlights ==
  ASSUME TypeOK, Enlisted, NEW t \in Trans, BookingFlights(t)
  PROVE  TranLayerTypeOK'
<1> DEFINE n == Cardinality(DOMAIN Legs[t])
<1>1. PICK servers \in [1 .. n -> Servers] :
        pptList' = [pptList EXCEPT ![t] = servers]
  BY DEF BookingFlights
<1>2. /\ client[t] = "new" /\ client' = [client EXCEPT ![t] = "calling"]
      /\ UNCHANGED <<orderList, activeTransMap, decision, commitGrp,
                     tmTimers, expired, call>>
  BY DEF BookingFlights
<1>3. servers \in Seq(Servers)
  BY TransFacts, SeqDef
<1>4. commitGrp[t] = <<>>
  BY <1>2 DEF Enlisted, KnownIfStarted, Started
<1>5. pptList' \in [Trans -> Seq(Servers)] /\ client' \in [Trans -> {"new", "calling", "waiting"} \cup Answers]
  BY <1>1, <1>2, <1>3 DEF TypeOK, TranLayerTypeOK
<1>6. \A u \in Trans : u # t => pptList'[u] = pptList[u]
  BY <1>1 DEF TypeOK, TranLayerTypeOK
<1> HIDE DEF n
<1> QED BY <1>2, <1>4, <1>5, <1>6 DEF TypeOK, TranLayerTypeOK

LEMMA TypeInitTrans ==
  ASSUME TypeOK, Enlisted, NEW t \in Trans, InitTrans(t)
  PROVE  TranLayerTypeOK'
<1> DEFINE grp == [s \in ToSet(pptList[t]) |-> "NOT_DECIDED"]
<1>1. /\ client' = [client EXCEPT ![t] = "waiting"]
      /\ orderList' = [orderList EXCEPT ![t] = pptList[t]]
      /\ activeTransMap' = activeTransMap \cup {t}
      /\ commitGrp' = [commitGrp EXCEPT ![t] = grp]
      /\ UNCHANGED <<pptList, decision, tmTimers, expired, call>>
  BY DEF InitTrans
<1>2. grp \in [ToSet(pptList[t]) -> Decisions]
  BY DEF Decisions
<1> HIDE DEF grp
<1> QED BY <1>1, <1>2 DEF TypeOK, TranLayerTypeOK

LEMMA TypeSendOrder ==
  ASSUME TypeOK, NEW t \in Trans, SendOrder(t)
  PROVE  TranLayerTypeOK'
<1> DEFINE c == [why |-> "init", tran |-> t, todo |-> <<Head(orderList[t])>>]
<1>1. /\ orderList[t] # <<>>
      /\ call' = [call EXCEPT ![TM[t]] = c]
      /\ orderList' = [orderList EXCEPT ![t] = Tail(@)]
      /\ UNCHANGED <<client, pptList, activeTransMap, decision, commitGrp,
                     tmTimers, expired>>
  BY DEF SendOrder, OrdersLeft
<1>2. orderList[t] \in Seq(Servers)
  BY DEF TypeOK, TranLayerTypeOK
<1>3. Head(orderList[t]) \in Servers /\ Tail(orderList[t]) \in Seq(Servers)
  BY <1>1, <1>2, ElementsOfTail
<1>4. c \in Calls
  BY <1>3 DEF Calls
<1> HIDE DEF c
<1> QED BY <1>1, <1>3, <1>4, TransFacts DEF TypeOK, TranLayerTypeOK

LEMMA TypeExpireTrans ==
  ASSUME TypeOK, NEW t \in Trans, ExpireTrans(t)
  PROVE  TranLayerTypeOK'
<1>0. /\ TranLayerTypeOK /\ TM[t] \in Agencies /\ t \in tmTimers \ expired
      /\ UNCHANGED <<pptList, orderList, activeTransMap, decision, commitGrp>>
  BY TransFacts DEF TypeOK, ExpireTrans
<1>1. CASE /\ expired' = expired \cup {t}
           /\ \E todo \in SetToSeqs(CommitVoters(commitGrp[t])) :
                Continue(TM[t], [why |-> "expire", tran |-> t, todo |-> todo],
                         decision[t])
  <2>1. PICK todo \in SetToSeqs(CommitVoters(commitGrp[t])) :
          Continue(TM[t], [why |-> "expire", tran |-> t, todo |-> todo], decision[t])
    BY <1>1
  <2>2. CommitVoters(commitGrp[t]) \subseteq Servers
    <3>1. ToSet(pptList[t]) \subseteq Servers
      BY ElementsOf DEF TypeOK, TranLayerTypeOK
    <3>2. DOMAIN commitGrp[t] \subseteq Servers
      <4>1. DOMAIN <<>> = {}
        OBVIOUS
      <4> QED BY <3>1, <4>1 DEF TypeOK, TranLayerTypeOK
    <3> QED BY <3>2 DEF CommitVoters
  <2>3. todo \in Seq(Servers)
    <3>1. IsFiniteSet(CommitVoters(commitGrp[t]))
      BY <2>2, ServersAssumption, FS_Subset
    <3>2. todo \in Seq(CommitVoters(commitGrp[t]))
      BY <3>1, EnumerationIsSeq
    <3> QED BY <2>2, <3>2, SeqMonotonic
  <2>4. [why |-> "expire", tran |-> t, todo |-> todo] \in AnyCall
    BY <2>3 DEF AnyCall
  <2>5. decision[t] \in Decisions
    BY DEF TypeOK, TranLayerTypeOK
  <2>6. /\ client' \in [Trans -> {"new", "calling", "waiting"} \cup Answers]
        /\ call' \in [Agencies -> Calls \cup {Idle, Blocked}]
        /\ tmTimers' \subseteq Trans /\ tmTimers \subseteq tmTimers'
    BY <1>0, <2>1, <2>4, <2>5, ContinueType
  <2> QED BY <1>0, <1>1, <2>6 DEF TranLayerTypeOK
<1>2. CASE /\ tmTimers' = tmTimers \ {t}
           /\ UNCHANGED <<client, expired, call>>
  BY <1>0, <1>2 DEF TranLayerTypeOK
<1> QED BY <1>1, <1>2 DEF ExpireTrans

LEMMA TypeReturned ==
  ASSUME TypeOK, NEW m \in Agencies, call[m] \notin {Idle, Blocked}, Returned(m)
  PROVE  TranLayerTypeOK'
<1>1. [call[m] EXCEPT !.todo = Tail(@)] \in AnyCall
  BY CallFields DEF AnyCall, TypeOK
<1>2. decision[call[m].tran] \in Decisions
  BY CallFields DEF TypeOK, TranLayerTypeOK
<1>3. /\ Continue(m, [call[m] EXCEPT !.todo = Tail(@)], decision[call[m].tran])
      /\ UNCHANGED <<pptList, orderList, activeTransMap, decision, commitGrp, expired>>
  BY DEF Returned
<1>4. /\ client' \in [Trans -> {"new", "calling", "waiting"} \cup Answers]
      /\ call' \in [Agencies -> Calls \cup {Idle, Blocked}]
      /\ tmTimers' \subseteq Trans /\ tmTimers \subseteq tmTimers'
  <2> DEFINE c == [call[m] EXCEPT !.todo = Tail(@)]
  <2> HIDE DEF c
  <2> QED BY <1>1, <1>2, <1>3, ContinueType DEF TypeOK, c
<1> QED BY <1>3, <1>4 DEF TypeOK, TranLayerTypeOK

LEMMA TypeResponseTrans ==
  ASSUME TypeOK, NEW t \in Trans, NEW s \in Servers,
         NEW vote \in {"COMMIT", "ABORT"}, ResponseTrans(t, s, vote)
  PROVE  TranLayerTypeOK'
<1>0. TranLayerTypeOK /\ TM[t] \in Agencies
  BY TransFacts DEF TypeOK
<1>1. CASE /\ s \in DOMAIN commitGrp[t]
           /\ CountVote(TM[t], t, s, vote)
  <2> DEFINE grp == [commitGrp[t] EXCEPT ![s] = vote]
             d   == AfterVote(decision[t], vote)
  <2>1. /\ commitGrp' = [commitGrp EXCEPT ![t] = grp]
        /\ decision' = [decision EXCEPT ![t] = d]
        /\ UNCHANGED <<pptList, orderList, expired>>
    BY <1>1 DEF CountVote
  <2>2. \/ UNCHANGED <<client, activeTransMap, tmTimers, call>>
        \/ /\ activeTransMap' = activeTransMap \ {t}
           /\ \E todo \in SetToSeqs(CommitVoters(grp)) :
                Continue(TM[t], [why |-> "complete", tran |-> t, todo |-> todo], d)
    BY <1>1 DEF CountVote
  <2>3. /\ d \in Decisions
        /\ grp \in [DOMAIN commitGrp[t] -> Decisions]
        /\ commitGrp[t] \in [ToSet(pptList[t]) -> Decisions]
        /\ grp \in [ToSet(pptList[t]) -> Decisions]
    <3>1. commitGrp[t] \in [ToSet(pptList[t]) -> Decisions]
      BY <1>1 DEF TypeOK, TranLayerTypeOK
    <3>2. d \in Decisions /\ vote \in Decisions
      BY DEF AfterVote, TypeOK, TranLayerTypeOK, Decisions
    <3> QED BY <3>1, <3>2
  <2>4. CommitVoters(grp) \subseteq Servers
    BY <2>3, ElementsOf DEF CommitVoters, TypeOK, TranLayerTypeOK
  <2> HIDE DEF grp, d
  <2>5. /\ client' \in [Trans -> {"new", "calling", "waiting"} \cup Answers]
        /\ call' \in [Agencies -> Calls \cup {Idle, Blocked}]
        /\ tmTimers' \subseteq Trans /\ tmTimers \subseteq tmTimers'
        /\ activeTransMap' \subseteq Trans
    <3>1. CASE UNCHANGED <<client, activeTransMap, tmTimers, call>>
      BY <3>1 DEF TypeOK, TranLayerTypeOK
    <3>2. CASE /\ activeTransMap' = activeTransMap \ {t}
               /\ \E todo \in SetToSeqs(CommitVoters(grp)) :
                    Continue(TM[t], [why |-> "complete", tran |-> t, todo |-> todo], d)
      <4>1. PICK todo \in SetToSeqs(CommitVoters(grp)) :
              Continue(TM[t], [why |-> "complete", tran |-> t, todo |-> todo], d)
        BY <3>2
      <4>2. todo \in Seq(Servers)
        <5>1. IsFiniteSet(CommitVoters(grp))
          BY <2>4, ServersAssumption, FS_Subset
        <5>2. todo \in Seq(CommitVoters(grp))
          BY <5>1, EnumerationIsSeq
        <5> QED BY <2>4, <5>2, SeqMonotonic
      <4>3. [why |-> "complete", tran |-> t, todo |-> todo] \in AnyCall
        BY <4>2 DEF AnyCall
      <4>4. /\ client' \in [Trans -> {"new", "calling", "waiting"} \cup Answers]
            /\ call' \in [Agencies -> Calls \cup {Idle, Blocked}]
            /\ tmTimers' \subseteq Trans /\ tmTimers \subseteq tmTimers'
        BY <1>0, <2>3, <4>1, <4>3, ContinueType
      <4> QED BY <3>2, <4>4 DEF TypeOK, TranLayerTypeOK
    <3> QED BY <2>2, <3>1, <3>2
  <2> QED BY <1>0, <2>1, <2>3, <2>5 DEF TranLayerTypeOK
<1>2. CASE IgnoreVote
  BY <1>0, <1>2 DEF IgnoreVote, tranLayerVars, TranLayerTypeOK
<1> QED BY <1>1, <1>2 DEF ResponseTrans

LEMMA AskedType ==
  ASSUME TypeOK, NEW m \in Agencies, call[m] \notin {Idle, Blocked},
         NEW s \in Servers
  PROVE  /\ Asked(m, s) \in Command
         /\ Asked(m, s).own = s /\ Asked(m, s).tran = call[m].tran
         /\ call[m].why = "init" => Asked(m, s) = InitCmd(call[m].tran, s)
         /\ call[m].why # "init" =>
              /\ Asked(m, s).op = "RESPONSE"
              /\ Asked(m, s).vote = decision[call[m].tran]
<1> DEFINE t == call[m].tran
           v == decision[t]
<1>1. t \in Trans
  BY CallFields DEF TypeOK
<1>2. v \in Decisions
  BY <1>1 DEF TypeOK, TranLayerTypeOK
<1>3. CASE call[m].why = "init"
  <2>1. Asked(m, s) = InitCmd(t, s)
    BY <1>3 DEF Asked, InitCmd
  <2> HIDE DEF t
  <2>2. InitCmd(t, s) \in Command /\ InitCmd(t, s).own = s /\ InitCmd(t, s).tran = t
    BY <1>1 DEF InitCmd, Command
  <2> QED BY <1>3, <2>1, <2>2 DEF t
<1>4. CASE call[m].why # "init"
  <2>1. Asked(m, s) = [op |-> "RESPONSE", tran |-> t, own |-> s, vote |-> v,
                       why |-> call[m].why]
    BY <1>4 DEF Asked
  <2>2. call[m].why \in {"complete", "expire"}
    BY <1>4, CallFields DEF TypeOK
  <2>3. Asked(m, s) \in Command
    <3> HIDE DEF t, v
    <3> QED BY <1>1, <1>2, <2>1, <2>2 DEF Command
  <2> QED BY <1>4, <2>1, <2>3
<1> QED BY <1>3, <1>4

\* The command that s is handed over.
LEMMA NextCommand ==
  ASSUME TypeOK, Enlisted, NEW s \in Servers, NEW c, HandOver(s, c)
  PROVE  /\ c \in Command
         /\ c.op = "CREATE" => c.flight \in Flights
         /\ c.op # "CREATE" => c.tran \in Trans /\ Flies(s, c.tran)
         /\ c.op = "RESPONSE" => c.vote \in Decisions
<1> DEFINE a == AirlineOf[s]
<1>1. a \in Airlines /\ c \in Command /\ c \in proposed[a]
  BY NetTypeHandOver DEF TypeOK
<1>2. ASSUME c.op # "CREATE" PROVE c.tran \in Trans /\ Flies(s, c.tran)
  <2>1. c.tran \in Trans
    BY <1>1, <1>2 DEF Command
  <2>2. AirlineOf[c.own] = a /\ c.own \in ToSet(pptList[c.tran])
    BY <1>1, <1>2 DEF Enlisted, CommandsOfParticipants
  <2>3. PICK i \in DOMAIN pptList[c.tran] : pptList[c.tran][i] = c.own
    BY <2>2 DEF ToSet
  <2>4. AirlineOf[pptList[c.tran][i]] \in DOMAIN Legs[c.tran]
    BY <2>1, <2>3 DEF Enlisted, OneServerEach
  <2> QED BY <2>1, <2>2, <2>3, <2>4 DEF Flies
<1>3. c.op = "CREATE" => c.flight \in Flights
  BY <1>1 DEF Command
<1>4. c.op = "RESPONSE" => c.vote \in Decisions
  BY <1>1 DEF Command
<1> QED BY <1>1, <1>2, <1>3, <1>4

LEMMA TypeStep == TypeOK /\ Enlisted /\ [Next]_vars => TypeOK'
<1> SUFFICES ASSUME TypeOK, Enlisted, [Next]_vars PROVE TypeOK'
  OBVIOUS
<1>0. NetTypeOK /\ TranLayerTypeOK /\ AirlineTypeOK
  BY DEF TypeOK
<1>a. UNCHANGED netVars => NetTypeOK'
  BY <1>0 DEF NetTypeOK, netVars
<1>b. UNCHANGED tranLayerVars => TranLayerTypeOK'
  BY <1>0 DEF TranLayerTypeOK, tranLayerVars
<1>c. UNCHANGED airlineVars => AirlineTypeOK'
  BY <1>0, AirlineTypeFrame
<1>1. ASSUME NEW t \in Trans, ManageTransaction(t) PROVE TypeOK'
  <2>1. UNCHANGED netVars /\ UNCHANGED airlineVars
    BY <1>1 DEF ManageTransaction
  <2>2. TranLayerTypeOK'
    BY <1>1, TypeBookingFlights, TypeInitTrans, TypeSendOrder, TypeExpireTrans
       DEF ManageTransaction
  <2> QED BY <1>a, <1>c, <2>1, <2>2 DEF TypeOK, netVars
<1>2. ASSUME NEW f \in Flights, RequestFlight(f) PROVE TypeOK'
  <2>1. PICK s \in Servers :
          /\ ProposeCommand([op |-> "CREATE", flight |-> f, own |-> s])
          /\ UNCHANGED <<tranLayerVars, airlineVars>>
    BY <1>2 DEF RequestFlight
  <2>2. [op |-> "CREATE", flight |-> f, own |-> s] \in Command
    BY DEF Command
  <2>3. NetTypeOK'
    BY <1>0, <2>1, <2>2, NetTypePropose
  <2> QED BY <1>b, <1>c, <2>1, <2>3 DEF TypeOK
<1>3. ASSUME NEW m \in Agencies, NEW s \in Servers, RequestTransaction(m, s)
      PROVE  TypeOK'
  <2>1. /\ call[m] \notin {Idle, Blocked}
        /\ ProposeCommand(Asked(m, s)) /\ Returned(m) /\ UNCHANGED airlineVars
    BY <1>3 DEF RequestTransaction
  <2>2. NetTypeOK'
    BY <1>0, <2>1, AskedType, NetTypePropose
  <2> QED BY <1>c, <2>1, <2>2, TypeReturned DEF TypeOK
<1>4. ASSUME NEW s \in Servers, Vote(s) PROVE TypeOK'
  <2>1. /\ Voting(s) /\ Voted(s) /\ UNCHANGED netVars
        /\ ResponseTrans(storeHandler[s].tran, s, storeHandler[s].vote)
    BY <1>4 DEF Vote
  <2>2. storeHandler[s].tran \in Trans /\ storeHandler[s].vote \in {"COMMIT", "ABORT"}
    BY <1>0, <2>1 DEF AirlineTypeOK
  <2>3. TranLayerTypeOK'
    BY <2>1, <2>2, TypeResponseTrans
  <2> QED BY <1>a, <1>0, <2>1, <2>3, TypeVoted DEF TypeOK, netVars
<1>5. ASSUME NEW s \in Servers, ApplyCommand(s) PROVE TypeOK'
  <2>1. PICK c \in Pending(s) : Execute(s, c)
    BY <1>5 DEF ApplyCommand
  <2>2. /\ storeHandler[s] = Waiting
        /\ HandOver(s, c)
        /\ \/ c.op = "CREATE" /\ CreateFlight(s, c.flight)
           \/ c.op = "INIT" /\ InitTransaction(s, c.tran, c.own)
           \/ c.op = "RESPONSE" /\ ResponseTransaction(s, c.tran, c.vote)
        /\ UNCHANGED tranLayerVars
    BY <1>5, <2>1 DEF ApplyCommand, Execute
  <2>3. /\ c.op = "CREATE" => c.flight \in Flights
        /\ c.op # "CREATE" => c.tran \in Trans /\ Flies(s, c.tran)
        /\ c.op = "RESPONSE" => c.vote \in Decisions
        /\ NetTypeOK'
    BY <1>0, <2>2, NextCommand, NetTypeHandOver
  <2>4. AirlineTypeOK'
    <3>1. CASE c.op = "CREATE" /\ CreateFlight(s, c.flight)
      BY <1>0, <2>2, <2>3, <3>1, TypeCreateFlight
    <3>2. CASE c.op = "INIT" /\ InitTransaction(s, c.tran, c.own)
      BY <1>0, <2>2, <2>3, <3>2, TypeInitTransaction
    <3>3. CASE c.op = "RESPONSE" /\ ResponseTransaction(s, c.tran, c.vote)
      BY <1>0, <2>2, <2>3, <3>3, TypeResponseTransaction
    <3> QED BY <2>2, <3>1, <3>2, <3>3
  <2> QED BY <1>b, <2>2, <2>3, <2>4 DEF TypeOK
<1>6. ASSUME NEW s \in Servers, NEW t \in Trans, Expire(s, t) PROVE TypeOK'
  <2>1. ExpireTransaction(s, t) /\ UNCHANGED <<netVars, tranLayerVars>>
    BY <1>6 DEF Expire
  <2> QED BY <1>0, <1>a, <1>b, <2>1, TypeExpireTransaction DEF TypeOK
<1>7. CASE UNCHANGED vars
  BY <1>7, <1>a, <1>b, <1>c DEF TypeOK, vars
<1> QED BY <1>1, <1>2, <1>3, <1>4, <1>5, <1>6, <1>7 DEF Next

-----------------------------------------------------------------------------
(* Who takes part.                                                         *)

LEMMA EnlistedInit == Init => Enlisted
<1> SUFFICES ASSUME Init PROVE Enlisted
  OBVIOUS
<1>1. \A t \in Trans : /\ client[t] = "new" /\ pptList[t] = <<>>
                       /\ orderList[t] = <<>> /\ commitGrp[t] = <<>>
                       /\ decision[t] = "NOT_DECIDED"
  BY DEF Init, TranLayerInit
<1>2. activeTransMap = {} /\ tmTimers = {} /\ \A m \in Agencies : call[m] = Idle
  BY DEF Init, TranLayerInit
<1>3. /\ \A a \in Airlines : proposed[a] = {}
      /\ \A s \in Servers : executed[s] = <<>>
  BY DEF Init, NetInit
<1>4. DOMAIN <<>> = {} /\ ToSet(<<>>) = {}
  BY DEF ToSet
<1>5. OneServerEach /\ OrdersLeftOnce
  BY <1>1, <1>4 DEF OneServerEach, OrdersLeftOnce
<1>6. KnownIfStarted
  BY <1>1, <1>2 DEF KnownIfStarted, Started
<1>7. CallsToParticipants
  BY <1>2 DEF CallsToParticipants
<1>8. CommandsOfParticipants /\ HandedProposed
  BY <1>3, <1>4 DEF CommandsOfParticipants, HandedProposed, Handed
<1> QED BY <1>5, <1>6, <1>7, <1>8 DEF Enlisted

LEMMA EnlistedFrame ==
  ASSUME Enlisted, UNCHANGED netVars, UNCHANGED tranLayerVars
  PROVE  Enlisted'
<1> USE DEF netVars, tranLayerVars, Started, Unsent
<1>1. OneServerEach' /\ OrdersLeftOnce'
  BY DEF Enlisted, OneServerEach, OrdersLeftOnce
<1>2. KnownIfStarted'
  BY DEF Enlisted, KnownIfStarted
<1>3. CallsToParticipants'
  BY DEF Enlisted, CallsToParticipants
<1>4. CommandsOfParticipants'
  BY DEF Enlisted, CommandsOfParticipants
<1>5. HandedProposed'
  BY DEF Enlisted, HandedProposed, Handed
<1> QED BY <1>1, <1>2, <1>3, <1>4, <1>5 DEF Enlisted

LEMMA EnlistedHandOver ==
  ASSUME TypeOK, Enlisted, NEW s \in Servers, NEW c, HandOver(s, c),
         UNCHANGED tranLayerVars
  PROVE  Enlisted'
<1> USE DEF tranLayerVars, Started, Unsent
<1>1. /\ UNCHANGED proposed
      /\ c \in proposed[AirlineOf[s]] /\ Handed(s)' = Handed(s) \cup {c}
      /\ \A r \in Servers \ {s} : Handed(r)' = Handed(r)
  BY NetTypeHandOver DEF TypeOK
<1>2. OneServerEach' /\ OrdersLeftOnce'
  BY DEF Enlisted, OneServerEach, OrdersLeftOnce
<1>3. KnownIfStarted' /\ CallsToParticipants'
  BY DEF Enlisted, KnownIfStarted, CallsToParticipants
<1>4. CommandsOfParticipants'
  BY <1>1 DEF Enlisted, CommandsOfParticipants
<1>5. HandedProposed'
  BY <1>1 DEF Enlisted, HandedProposed
<1> QED BY <1>2, <1>3, <1>4, <1>5 DEF Enlisted

\* Servers of all airlines of t, as many as airlines: one of each.
LEMMA ServersDiffer ==
  ASSUME NEW t \in Trans, NEW servers \in [1 .. Cardinality(DOMAIN Legs[t]) -> Servers],
         {AirlineOf[servers[k]] : k \in 1 .. Cardinality(DOMAIN Legs[t])} = DOMAIN Legs[t]
  PROVE  \A i, j \in DOMAIN servers :
           AirlineOf[servers[i]] = AirlineOf[servers[j]] => i = j
<1> DEFINE n == Cardinality(DOMAIN Legs[t])
           f == [k \in 1 .. n |-> AirlineOf[servers[k]]]
<1>1. n \in Nat /\ IsFiniteSet(DOMAIN Legs[t])
  BY TransFacts
<1>2. f \in Surjection(1 .. n, DOMAIN Legs[t])
  BY DEF Surjection
<1>3. IsFiniteSet(1 .. n) /\ Cardinality(1 .. n) = n
  BY <1>1, FS_Interval
<1>4. f \in Injection(1 .. n, DOMAIN Legs[t])
  <2> HIDE DEF f
  <2> QED BY <1>1, <1>2, <1>3, FS_SurjSameCardinalityImpliesInj DEF n
<1>5. \A i, j \in 1 .. n : f[i] = f[j] => i = j
  BY <1>4 DEF Injection, IsInjective
<1> QED BY <1>5

\* The handler's call goes on with no one else's, and answers only a client
\* that waits.
LEMMA ContinueEffect ==
  ASSUME TranLayerTypeOK, NEW m \in Agencies, NEW c \in AnyCall,
         NEW d \in Decisions, Continue(m, c, d)
  PROVE  /\ \A k \in Agencies \ {m} : call'[k] = call[k]
         /\ call'[m] \in {c, Idle, Blocked}
         /\ call'[m] = c => c.todo # <<>>
         /\ \A u \in Trans : /\ client'[u] = "new" <=> client[u] = "new"
                             /\ Started(u)' <=> Started(u)
         /\ tmTimers' \subseteq tmTimers \cup {c.tran}
<1>1. c.tran \in Trans /\ c.why \in {"init", "complete", "expire"}
  BY DEF AnyCall
<1>2. c \notin {Idle, Blocked}
  BY <1>1 DEF Idle, Blocked
<1>3. tmTimers' \subseteq tmTimers \cup {c.tran}
  BY DEF Continue
<1>4. \/ c.todo # <<>> /\ call' = [call EXCEPT ![m] = c] /\ UNCHANGED client
      \/ call' = [call EXCEPT ![m] = Idle] /\ UNCHANGED client
      \/ Reply(m, c.tran, d)
  BY DEF Continue
<1>5. CASE Reply(m, c.tran, d)
  <2>1. \/ /\ client[c.tran] = "waiting"
           /\ client' = [client EXCEPT ![c.tran] = IF d = "COMMIT" THEN "booked"
                                                                  ELSE "failed"]
           /\ call' = [call EXCEPT ![m] = Idle]
        \/ UNCHANGED client /\ call' = [call EXCEPT ![m] = Blocked]
    BY <1>5 DEF Reply
  <2> QED BY <2>1, <1>1, <1>2, <1>3 DEF TranLayerTypeOK, Started
<1> QED BY <1>1, <1>2, <1>3, <1>4, <1>5 DEF TranLayerTypeOK, Started

LEMMA EnlistedBookingFlights ==
  ASSUME TypeOK, Enlisted, NEW t \in Trans, BookingFlights(t), UNCHANGED netVars
  PROVE  Enlisted'
<1>1. PICK servers \in [1 .. Cardinality(DOMAIN Legs[t]) -> Servers] :
        /\ {AirlineOf[servers[k]] : k \in 1 .. Cardinality(DOMAIN Legs[t])} = DOMAIN Legs[t]
        /\ pptList' = [pptList EXCEPT ![t] = servers]
  BY DEF BookingFlights
<1>2. /\ client[t] = "new" /\ client' = [client EXCEPT ![t] = "calling"]
      /\ UNCHANGED <<orderList, activeTransMap, decision, commitGrp,
                     tmTimers, expired, call>>
  BY DEF BookingFlights
<1>3. \A u \in Trans : /\ u # t => pptList'[u] = pptList[u] /\ client'[u] = client[u]
                       /\ u = t => pptList'[u] = servers /\ client'[u] = "calling"
                       /\ Started(u)' <=> Started(u)
  BY <1>1, <1>2 DEF TypeOK, TranLayerTypeOK, Started
<1>4. OneServerEach'
  <2>1. \A i \in DOMAIN servers : AirlineOf[servers[i]] \in DOMAIN Legs[t]
    BY <1>1
  <2>2. \A i, j \in DOMAIN servers :
          AirlineOf[servers[i]] = AirlineOf[servers[j]] => i = j
    BY <1>1, ServersDiffer
  <2> SUFFICES ASSUME NEW u \in Trans
               PROVE  /\ \A i \in DOMAIN pptList'[u] :
                           AirlineOf[pptList'[u][i]] \in DOMAIN Legs[u]
                      /\ \A i, j \in DOMAIN pptList'[u] :
                           AirlineOf[pptList'[u][i]] = AirlineOf[pptList'[u][j]] => i = j
    BY DEF OneServerEach
  <2>3. CASE u = t
    <3>1. pptList'[u] = servers
      BY <1>3, <2>3
    <3> QED BY <2>1, <2>2, <2>3, <3>1
  <2>4. CASE u # t
    <3>1. pptList'[u] = pptList[u]
      BY <1>3, <2>4
    <3> QED BY <3>1 DEF Enlisted, OneServerEach
  <2> QED BY <2>3, <2>4
<1>5. KnownIfStarted'
  BY <1>2, <1>3 DEF Enlisted, KnownIfStarted, Started
<1>6. OrdersLeftOnce'
  <2>1. orderList[t] = <<>> /\ ToSet(<<>>) = {} /\ DOMAIN <<>> = {}
    BY <1>2 DEF Enlisted, KnownIfStarted, Started, ToSet
  <2> SUFFICES ASSUME NEW u \in Trans
               PROVE  /\ ToSet(orderList[u]) \subseteq ToSet(pptList'[u])
                      /\ \A i, j \in DOMAIN orderList[u] :
                           orderList[u][i] = orderList[u][j] => i = j
    BY <1>2 DEF OrdersLeftOnce
  <2> QED BY <1>2, <1>3, <2>1 DEF Enlisted, OrdersLeftOnce
<1>7. ~Started(t) /\ \A u \in Trans, s \in Servers : Unsent(u, s)' <=> Unsent(u, s)
  BY <1>2 DEF Unsent, Started
<1>8. CallsToParticipants'
  <2> SUFFICES ASSUME NEW m \in Agencies, call[m] \notin {Idle, Blocked}
               PROVE  /\ TM[call[m].tran] = m
                      /\ client'[call[m].tran] \notin {"new", "calling"}
                      /\ ToSet(call[m].todo) \subseteq ToSet(pptList'[call[m].tran])
                      /\ call[m].why = "init" =>
                           /\ Len(call[m].todo) = 1
                           /\ Head(call[m].todo) \notin ToSet(orderList[call[m].tran])
    BY <1>2 DEF CallsToParticipants, Started
  <2>1. call[m].tran \in Trans /\ call[m].tran # t
    BY <1>7, CallFields DEF Enlisted, CallsToParticipants, TypeOK
  <2>2. /\ TM[call[m].tran] = m /\ Started(call[m].tran)
        /\ ToSet(call[m].todo) \subseteq ToSet(pptList[call[m].tran])
        /\ call[m].why = "init" =>
             /\ Len(call[m].todo) = 1
             /\ Head(call[m].todo) \notin ToSet(orderList[call[m].tran])
    BY DEF Enlisted, CallsToParticipants
  <2>3. /\ pptList'[call[m].tran] = pptList[call[m].tran]
        /\ client'[call[m].tran] \notin {"new", "calling"}
    BY <1>3, <2>1, <2>2 DEF Started
  <2> QED BY <2>2, <2>3
<1>9. CommandsOfParticipants'
  <2> SUFFICES ASSUME NEW a \in Airlines, NEW c \in proposed[a]
               PROVE  /\ AirlineOf[c.own] = a
                      /\ c.op # "CREATE" => Started(c.tran)' /\ c.own \in ToSet(pptList'[c.tran])
                      /\ c.op = "INIT" => ~Unsent(c.tran, c.own)'
    BY DEF CommandsOfParticipants, netVars
  <2>1. c \in Command
    BY DEF TypeOK, NetTypeOK
  <2>2. /\ AirlineOf[c.own] = a
        /\ c.op # "CREATE" => Started(c.tran) /\ c.own \in ToSet(pptList[c.tran])
        /\ c.op = "INIT" => ~Unsent(c.tran, c.own)
    BY DEF Enlisted, CommandsOfParticipants
  <2>3. c.op # "CREATE" => c.tran \in Trans /\ c.tran # t /\ c.own \in Servers
    BY <1>7, <2>1, <2>2 DEF Command
  <2> QED BY <1>3, <1>7, <2>2, <2>3
<1>10. HandedProposed'
  BY DEF Enlisted, HandedProposed, Handed, netVars
<1> QED BY <1>4, <1>5, <1>6, <1>8, <1>9, <1>10 DEF Enlisted

\* What changes when m's handler, busy with t and with no order left, goes on,
\* counts a vote or gives up waiting for one.
Handling(m, t) ==
  /\ UNCHANGED <<pptList, orderList>>
  /\ \A u \in Trans :
       /\ client'[u] = "new" <=> client[u] = "new"
       /\ client'[u] \notin {"new", "calling"} <=> Started(u)
       /\ DOMAIN commitGrp'[u] = DOMAIN commitGrp[u]
       /\ ~Started(u) => commitGrp'[u] = commitGrp[u] /\ decision'[u] = decision[u]
  /\ activeTransMap' \subseteq activeTransMap
  /\ tmTimers' \subseteq tmTimers \cup {t}
  /\ \A k \in Agencies \ {m} : call'[k] = call[k]
  /\ \/ call'[m] \in {call[m], Idle, Blocked}
     \/ /\ call'[m].why # "init" /\ call'[m].tran = t
        /\ ToSet(call'[m].todo) \subseteq ToSet(pptList[t])

LEMMA EnlistedHandling ==
  ASSUME TypeOK, Enlisted, NEW m \in Agencies, NEW t \in Trans, TM[t] = m,
         Started(t), Handling(m, t)
  PROVE  /\ OneServerEach' /\ KnownIfStarted' /\ OrdersLeftOnce'
         /\ CallsToParticipants'
         /\ \A u \in Trans, s \in Servers : Unsent(u, s)' => Unsent(u, s)
<1>1. OneServerEach' /\ OrdersLeftOnce'
  BY DEF Enlisted, OneServerEach, OrdersLeftOnce, Handling
<1>2. KnownIfStarted'
  <2> SUFFICES ASSUME NEW u \in Trans
               PROVE  /\ client'[u] = "new" => pptList'[u] = <<>>
                      /\ client'[u] \in {"new", "calling"} =>
                           /\ orderList'[u] = <<>> /\ commitGrp'[u] = <<>>
                           /\ u \notin activeTransMap' /\ u \notin tmTimers'
                           /\ decision'[u] = "NOT_DECIDED"
                      /\ client'[u] \notin {"new", "calling"} =>
                           DOMAIN commitGrp'[u] = ToSet(pptList'[u])
    BY DEF KnownIfStarted, Started
  <2>1. /\ pptList' = pptList /\ orderList' = orderList
        /\ client'[u] = "new" <=> client[u] = "new"
        /\ client'[u] \notin {"new", "calling"} <=> Started(u)
        /\ DOMAIN commitGrp'[u] = DOMAIN commitGrp[u]
        /\ ~Started(u) => /\ commitGrp'[u] = commitGrp[u] /\ decision'[u] = decision[u]
                          /\ u # t
        /\ u \in activeTransMap' => u \in activeTransMap
        /\ u \in tmTimers' => u \in tmTimers \/ u = t
    BY DEF Handling
  <2> QED BY <2>1 DEF Enlisted, KnownIfStarted
<1>3. CallsToParticipants'
  <2> SUFFICES ASSUME NEW k \in Agencies, call'[k] \notin {Idle, Blocked}
               PROVE  /\ TM[call'[k].tran] = k
                      /\ client'[call'[k].tran] \notin {"new", "calling"}
                      /\ ToSet(call'[k].todo) \subseteq ToSet(pptList[call'[k].tran])
                      /\ call'[k].why = "init" =>
                           /\ Len(call'[k].todo) = 1
                           /\ Head(call'[k].todo) \notin ToSet(orderList[call'[k].tran])
    BY DEF CallsToParticipants, Started, Handling
  <2>1. \A u \in Trans : client'[u] \notin {"new", "calling"} <=> Started(u)
    BY DEF Handling
  <2>2. CASE call'[k] = call[k]
    <3>1. call[k] \notin {Idle, Blocked}
      BY <2>2
    <3>2. call[k].tran \in Trans
      BY <3>1, CallFields DEF TypeOK
    <3>3. /\ TM[call[k].tran] = k /\ Started(call[k].tran)
          /\ ToSet(call[k].todo) \subseteq ToSet(pptList[call[k].tran])
          /\ call[k].why = "init" =>
               /\ Len(call[k].todo) = 1
               /\ Head(call[k].todo) \notin ToSet(orderList[call[k].tran])
      BY <3>1 DEF Enlisted, CallsToParticipants
    <3> QED BY <2>1, <2>2, <3>2, <3>3
  <2>3. CASE /\ k = m
             /\ call'[m].why # "init" /\ call'[m].tran = t
             /\ ToSet(call'[m].todo) \subseteq ToSet(pptList[t])
    BY <2>1, <2>3
  <2> QED BY <2>2, <2>3 DEF Handling
<1>4. ASSUME NEW u \in Trans, NEW s \in Servers, Unsent(u, s)' PROVE Unsent(u, s)
  <2>1. orderList' = orderList /\ TM[u] \in Agencies
    BY TransFacts DEF Handling
  <2>2. CASE s \in ToSet(orderList'[u])
    BY <2>1, <2>2 DEF Unsent
  <2>3. CASE call'[TM[u]].why = "init" /\ call'[TM[u]].tran = u /\ s \in ToSet(call'[TM[u]].todo)
    <3>1. call'[TM[u]] = call[TM[u]]
      BY <2>1, <2>3 DEF Handling, Idle, Blocked
    <3> QED BY <2>3, <3>1 DEF Unsent
  <2> QED BY <1>4, <2>2, <2>3 DEF Unsent
<1> QED BY <1>1, <1>2, <1>3, <1>4

\* Commands remain what they are while orders are sent and not taken back.
LEMMA EnlistedCommands ==
  ASSUME TypeOK, Enlisted, UNCHANGED netVars,
         \A u \in Trans : Started(u) => client'[u] \notin {"new", "calling"}
                                        /\ pptList'[u] = pptList[u],
         \A u \in Trans, s \in Servers :
           Unsent(u, s)' /\ Started(u) => Unsent(u, s)
  PROVE  CommandsOfParticipants' /\ HandedProposed'
<1>1. CommandsOfParticipants'
  <2> SUFFICES ASSUME NEW a \in Airlines, NEW c \in proposed[a]
               PROVE  /\ AirlineOf[c.own] = a
                      /\ c.op # "CREATE" => /\ client'[c.tran] \notin {"new", "calling"}
                                            /\ c.own \in ToSet(pptList'[c.tran])
                      /\ c.op = "INIT" => ~Unsent(c.tran, c.own)'
    BY DEF CommandsOfParticipants, netVars, Started
  <2>1. c \in Command
    BY DEF TypeOK, NetTypeOK
  <2>2. /\ AirlineOf[c.own] = a
        /\ c.op # "CREATE" => Started(c.tran) /\ c.own \in ToSet(pptList[c.tran])
        /\ c.op = "INIT" => ~Unsent(c.tran, c.own)
    BY DEF Enlisted, CommandsOfParticipants
  <2>3. c.op # "CREATE" => c.tran \in Trans /\ c.own \in Servers
    BY <2>1 DEF Command
  <2> QED BY <2>2, <2>3
<1>2. HandedProposed'
  BY DEF Enlisted, HandedProposed, Handed, netVars
<1> QED BY <1>1, <1>2

\* The voters for COMMIT are called, in some order.
LEMMA VotersCalled ==
  ASSUME TypeOK, Enlisted, NEW t \in Trans, NEW grp, Started(t),
         DOMAIN grp = DOMAIN commitGrp[t],
         NEW todo \in SetToSeqs(CommitVoters(grp)),
         NEW why \in {"complete", "expire"}
  PROVE  /\ [why |-> why, tran |-> t, todo |-> todo] \in AnyCall
         /\ ToSet(todo) \subseteq ToSet(pptList[t])
         /\ ToSet(todo) \subseteq CommitVoters(grp)
<1>1. CommitVoters(grp) \subseteq ToSet(pptList[t])
  BY DEF CommitVoters, Enlisted, KnownIfStarted
<1>2. ToSet(pptList[t]) \subseteq Servers
  BY ElementsOf DEF TypeOK, TranLayerTypeOK
<1>3. IsFiniteSet(CommitVoters(grp))
  BY <1>1, <1>2, ServersAssumption, FS_Subset
<1>4. todo \in Seq(CommitVoters(grp)) /\ ToSet(todo) \subseteq CommitVoters(grp)
  BY <1>3, EnumerationIsSeq
<1>5. todo \in Seq(Servers)
  BY <1>1, <1>2, <1>4, SeqMonotonic
<1> QED BY <1>1, <1>4, <1>5 DEF AnyCall

LEMMA ExpireTransHandles ==
  ASSUME TypeOK, Enlisted, NEW t \in Trans, ExpireTrans(t)
  PROVE  Started(t) /\ Handling(TM[t], t)
<1>1. /\ Started(t) /\ TM[t] \in Agencies
      /\ UNCHANGED <<pptList, orderList, activeTransMap, decision, commitGrp>>
  BY TransFacts DEF ExpireTrans, Enlisted, KnownIfStarted
<1>2. ASSUME NEW todo \in SetToSeqs(CommitVoters(commitGrp[t])),
             Continue(TM[t], [why |-> "expire", tran |-> t, todo |-> todo],
                      decision[t])
      PROVE  Handling(TM[t], t)
  <2> DEFINE c == [why |-> "expire", tran |-> t, todo |-> todo]
  <2>1. c \in AnyCall /\ ToSet(todo) \subseteq ToSet(pptList[t])
    BY <1>1, VotersCalled
  <2>2. c.why = "expire" /\ c.tran = t /\ c.todo = todo
    OBVIOUS
  <2>3. decision[t] \in Decisions /\ TranLayerTypeOK
    BY DEF TypeOK, TranLayerTypeOK
  <2> HIDE DEF c
  <2>4. Continue(TM[t], c, decision[t])
    BY <1>2 DEF c
  <2>5. /\ \A k \in Agencies \ {TM[t]} : call'[k] = call[k]
        /\ call'[TM[t]] \in {c, Idle, Blocked}
        /\ \A u \in Trans : /\ client'[u] = "new" <=> client[u] = "new"
                            /\ client'[u] \notin {"new", "calling"} <=> Started(u)
        /\ tmTimers' \subseteq tmTimers \cup {t}
    BY <1>1, <2>1, <2>2, <2>3, <2>4, ContinueEffect DEF Started
  <2> QED BY <1>1, <2>1, <2>2, <2>5 DEF Handling
<1>3. CASE /\ tmTimers' = tmTimers \ {t}
           /\ UNCHANGED <<client, expired, call>>
  BY <1>1, <1>3 DEF Handling, Started
<1> QED BY <1>1, <1>2, <1>3 DEF ExpireTrans

\* A vote comes from a server that was asked, when no order is left.
LEMMA ResponseTransHandles ==
  ASSUME TypeOK, Enlisted, NEW t \in Trans, NEW s \in Servers,
         NEW vote \in {"COMMIT", "ABORT"}, ResponseTrans(t, s, vote),
         s \in ToSet(pptList[t]), Started(t)
  PROVE  Handling(TM[t], t)
<1>1. TM[t] \in Agencies /\ TranLayerTypeOK
  BY TransFacts DEF TypeOK
<1>2. CASE /\ s \in DOMAIN commitGrp[t]
           /\ CountVote(TM[t], t, s, vote)
  <2> DEFINE grp == [commitGrp[t] EXCEPT ![s] = vote]
             d   == AfterVote(decision[t], vote)
  <2>1. /\ commitGrp' = [commitGrp EXCEPT ![t] = grp]
        /\ decision' = [decision EXCEPT ![t] = d]
        /\ UNCHANGED <<pptList, orderList, expired>>
    BY <1>2 DEF CountVote
  <2>2. \/ UNCHANGED <<client, activeTransMap, tmTimers, call>>
        \/ /\ activeTransMap' = activeTransMap \ {t}
           /\ \E todo \in SetToSeqs(CommitVoters(grp)) :
                Continue(TM[t], [why |-> "complete", tran |-> t, todo |-> todo], d)
    BY <1>2 DEF CountVote
  <2>3. DOMAIN grp = DOMAIN commitGrp[t] /\ d \in Decisions
    BY DEF AfterVote, TypeOK, TranLayerTypeOK, Decisions
  <2> HIDE DEF grp, d
  <2>4. \A u \in Trans :
          /\ DOMAIN commitGrp'[u] = DOMAIN commitGrp[u]
          /\ ~Started(u) => commitGrp'[u] = commitGrp[u] /\ decision'[u] = decision[u]
    BY <1>1, <2>1, <2>3 DEF TranLayerTypeOK
  <2>5. CASE UNCHANGED <<client, activeTransMap, tmTimers, call>>
    BY <2>1, <2>4, <2>5 DEF Handling, Started
  <2>6. ASSUME activeTransMap' = activeTransMap \ {t},
               NEW todo \in SetToSeqs(CommitVoters(grp)),
               Continue(TM[t], [why |-> "complete", tran |-> t, todo |-> todo], d)
        PROVE  Handling(TM[t], t)
    <3> DEFINE c == [why |-> "complete", tran |-> t, todo |-> todo]
    <3>1. c \in AnyCall /\ ToSet(todo) \subseteq ToSet(pptList[t])
      BY <2>3, VotersCalled
    <3>2. c.why = "complete" /\ c.tran = t /\ c.todo = todo
      OBVIOUS
    <3> HIDE DEF c
    <3>3. Continue(TM[t], c, d)
      BY <2>6 DEF c
    <3>4. /\ \A k \in Agencies \ {TM[t]} : call'[k] = call[k]
          /\ call'[TM[t]] \in {c, Idle, Blocked}
          /\ \A u \in Trans : /\ client'[u] = "new" <=> client[u] = "new"
                              /\ client'[u] \notin {"new", "calling"} <=> Started(u)
          /\ tmTimers' \subseteq tmTimers \cup {t}
      BY <1>1, <2>3, <3>1, <3>2, <3>3, ContinueEffect DEF Started
    <3> QED BY <2>1, <2>4, <2>6, <3>1, <3>2, <3>4 DEF Handling
  <2> QED BY <2>2, <2>5, <2>6
<1>3. CASE IgnoreVote
  BY <1>3 DEF IgnoreVote, tranLayerVars, Handling, Started
<1> QED BY <1>2, <1>3 DEF ResponseTrans

\* The call that is under way, at its next server.
LEMMA CallUnderWay ==
  ASSUME TypeOK, Enlisted, NEW m \in Agencies, call[m] \notin {Idle, Blocked}
  PROVE  LET t == call[m].tran
             s == Head(call[m].todo) IN
         /\ t \in Trans /\ TM[t] = m /\ Started(t)
         /\ s \in Servers /\ s \in ToSet(call[m].todo) /\ s \in ToSet(pptList[t])
         /\ ToSet(Tail(call[m].todo)) \subseteq ToSet(call[m].todo)
         /\ ToSet(Tail(call[m].todo)) \subseteq ToSet(pptList[t])
         /\ call[m].why = "init" => /\ Tail(call[m].todo) = <<>>
                                    /\ s \notin ToSet(orderList[t])
<1>1. /\ call[m].tran \in Trans /\ TM[call[m].tran] = m /\ Started(call[m].tran)
      /\ ToSet(call[m].todo) \subseteq ToSet(pptList[call[m].tran])
      /\ call[m].why = "init" =>
           /\ Len(call[m].todo) = 1
           /\ Head(call[m].todo) \notin ToSet(orderList[call[m].tran])
  BY CallFields DEF Enlisted, CallsToParticipants, TypeOK
<1>2. call[m].todo \in Seq(Servers) /\ call[m].todo # <<>>
  BY CallFields DEF TypeOK
<1>3. /\ Head(call[m].todo) \in Servers
      /\ Head(call[m].todo) \in ToSet(call[m].todo)
      /\ ToSet(Tail(call[m].todo)) \subseteq ToSet(call[m].todo)
  BY <1>2, ElementsOfTail
<1>4. ASSUME Len(call[m].todo) = 1 PROVE Tail(call[m].todo) = <<>>
  <2>1. Tail(call[m].todo) \in Seq(Servers) /\ Len(Tail(call[m].todo)) = 0
    BY <1>2, <1>4
  <2> QED BY <2>1, EmptySeq
<1> QED BY <1>1, <1>3, <1>4

LEMMA ReturnedHandles ==
  ASSUME TypeOK, Enlisted, NEW m \in Agencies, call[m] \notin {Idle, Blocked},
         Returned(m)
  PROVE  /\ Handling(m, call[m].tran)
         /\ call[m].why = "init" => call'[m] \in {Idle, Blocked}
         /\ call'[m] \in {Idle, Blocked}
            \/ call'[m] = [why |-> call[m].why, tran |-> call[m].tran,
                           todo |-> Tail(call[m].todo)]
<1> DEFINE t == call[m].tran
           c == [why |-> call[m].why, tran |-> t, todo |-> Tail(call[m].todo)]
<1>1. /\ c \in AnyCall
      /\ [call[m] EXCEPT !.todo = Tail(@)] = c
      /\ c.why = call[m].why /\ c.tran = t /\ c.todo = Tail(call[m].todo)
  BY CallFields DEF AnyCall, TypeOK
<1>2. decision[t] \in Decisions /\ TranLayerTypeOK
  BY CallFields DEF TypeOK, TranLayerTypeOK
<1>3. /\ t \in Trans /\ TM[t] = m /\ Started(t)
      /\ ToSet(c.todo) \subseteq ToSet(pptList[t])
      /\ c.why = "init" => c.todo = <<>>
  BY <1>1, CallUnderWay
<1>4. /\ Continue(m, c, decision[t])
      /\ UNCHANGED <<pptList, orderList, activeTransMap, decision, commitGrp, expired>>
  BY <1>1 DEF Returned
<1>5. c.why = call[m].why /\ c = [why |-> call[m].why, tran |-> t, todo |-> Tail(call[m].todo)]
  BY <1>1
<1> HIDE DEF c
<1>6. /\ \A k \in Agencies \ {m} : call'[k] = call[k]
      /\ call'[m] \in {c, Idle, Blocked}
      /\ call'[m] = c => c.todo # <<>>
      /\ \A u \in Trans : /\ client'[u] = "new" <=> client[u] = "new"
                          /\ client'[u] \notin {"new", "calling"} <=> Started(u)
      /\ tmTimers' \subseteq tmTimers \cup {t}
  BY <1>1, <1>2, <1>4, ContinueEffect DEF Started
<1>7. Handling(m, t)
  BY <1>1, <1>3, <1>4, <1>6 DEF Handling
<1> QED BY <1>3, <1>5, <1>6, <1>7

LEMMA EnlistedRequestTransaction ==
  ASSUME TypeOK, Enlisted, NEW m \in Agencies, NEW s \in Servers,
         RequestTransaction(m, s)
  PROVE  Enlisted'
<1> DEFINE t == call[m].tran
           new == Asked(m, s)
<1>1. /\ call[m] \notin {Idle, Blocked} /\ s = Head(call[m].todo)
      /\ ProposeCommand(new) /\ Returned(m)
  BY DEF RequestTransaction
<1>2. /\ t \in Trans /\ TM[t] = m /\ Started(t)
      /\ s \in ToSet(call[m].todo) /\ s \in ToSet(pptList[t])
      /\ call[m].why = "init" => s \notin ToSet(orderList[t])
  BY <1>1, CallUnderWay
<1>3. /\ Handling(m, t)
      /\ call[m].why = "init" => call'[m] \in {Idle, Blocked}
  BY <1>1, ReturnedHandles
<1>4. /\ OneServerEach' /\ KnownIfStarted' /\ OrdersLeftOnce' /\ CallsToParticipants'
      /\ \A u \in Trans, r \in Servers : Unsent(u, r)' => Unsent(u, r)
  BY <1>2, <1>3, EnlistedHandling
<1>5. /\ new \in Command /\ new.own = s /\ new.tran = t
      /\ call[m].why = "init" => new = InitCmd(t, s)
      /\ call[m].why # "init" => new.op = "RESPONSE"
  BY <1>1, AskedType
<1> HIDE DEF new
<1>6. /\ UNCHANGED executed /\ AirlineOf[s] \in Airlines
      /\ \A a \in Airlines :
           proposed'[a] = proposed[a] \cup (IF a = AirlineOf[s] THEN {new} ELSE {})
  BY <1>1, <1>5, NetTypePropose DEF TypeOK
<1>7. ASSUME new.op = "INIT"
      PROVE  \A a \in Airlines : new \notin proposed[a]
  <2>1. call[m].why = "init"
    BY <1>5, <1>7
  <2>2. Unsent(t, s)
    BY <1>2, <2>1 DEF Unsent
  <2> QED BY <1>5, <1>7, <2>2 DEF Enlisted, CommandsOfParticipants
<1>8. CommandsOfParticipants'
  <2> SUFFICES ASSUME NEW a \in Airlines, NEW c \in proposed'[a]
               PROVE  /\ AirlineOf[c.own] = a
                      /\ c.op # "CREATE" => /\ client'[c.tran] \notin {"new", "calling"}
                                            /\ c.own \in ToSet(pptList[c.tran])
                      /\ c.op = "INIT" => ~Unsent(c.tran, c.own)'
    BY <1>3 DEF CommandsOfParticipants, Started, Handling
  <2>1. \A u \in Trans : Started(u) => client'[u] \notin {"new", "calling"}
    BY <1>3 DEF Handling
  <2>2. CASE c \in proposed[a]
    <3>1. c \in Command
      BY <2>2 DEF TypeOK, NetTypeOK
    <3>2. c.op # "CREATE" => c.tran \in Trans /\ c.own \in Servers
      BY <3>1 DEF Command
    <3>3. /\ AirlineOf[c.own] = a
          /\ c.op # "CREATE" => Started(c.tran) /\ c.own \in ToSet(pptList[c.tran])
          /\ c.op = "INIT" => ~Unsent(c.tran, c.own)
      BY <2>2 DEF Enlisted, CommandsOfParticipants
    <3> QED BY <1>4, <2>1, <3>2, <3>3
  <2>3. CASE c = new /\ a = AirlineOf[s]
    <3>1. c.op = "INIT" => ~Unsent(c.tran, c.own)'
      <4> SUFFICES ASSUME c.op = "INIT" PROVE ~Unsent(c.tran, c.own)'
        OBVIOUS
      <4>1. c.tran = t /\ c.own = s
        BY <1>5, <2>3
      <4>2. TM[t] = m /\ ~(s \in ToSet(orderList'[t])) /\ call'[m].why # "init"
        BY <1>2, <1>3, <1>5, <2>3 DEF Idle, Blocked, Handling
      <4> QED BY <4>1, <4>2 DEF Unsent
    <3> QED BY <1>2, <1>5, <2>1, <2>3, <3>1
  <2>4. c \in proposed[a] \/ (c = new /\ a = AirlineOf[s])
    BY <1>6
  <2> QED BY <2>2, <2>3, <2>4
<1>9. HandedProposed'
  BY <1>6, ServersAssumption DEF Enlisted, HandedProposed, Handed
<1> QED BY <1>4, <1>8, <1>9 DEF Enlisted

LEMMA EnlistedInitTrans ==
  ASSUME TypeOK, Enlisted, NEW t \in Trans, InitTrans(t), UNCHANGED netVars
  PROVE  Enlisted'
<1> DEFINE grp == [s \in ToSet(pptList[t]) |-> "NOT_DECIDED"]
<1>1. /\ client[t] = "calling" /\ ~Started(t)
      /\ client' = [client EXCEPT ![t] = "waiting"]
      /\ orderList' = [orderList EXCEPT ![t] = pptList[t]]
      /\ activeTransMap' = activeTransMap \cup {t}
      /\ commitGrp' = [commitGrp EXCEPT ![t] = grp]
      /\ UNCHANGED <<pptList, decision, tmTimers, expired, call>>
  BY DEF InitTrans, Started
<1>2. DOMAIN grp = ToSet(pptList[t])
  OBVIOUS
<1> HIDE DEF grp
<1>3. /\ client'[t] = "waiting" /\ orderList'[t] = pptList[t]
      /\ DOMAIN commitGrp'[t] = ToSet(pptList[t])
      /\ \A u \in Trans \ {t} : /\ client'[u] = client[u]
                                /\ orderList'[u] = orderList[u]
                                /\ commitGrp'[u] = commitGrp[u]
                                /\ u \in activeTransMap' <=> u \in activeTransMap
  BY <1>1, <1>2 DEF TypeOK, TranLayerTypeOK
<1>4. OneServerEach'
  BY <1>1 DEF Enlisted, OneServerEach
<1>5. KnownIfStarted'
  BY <1>1, <1>3 DEF Enlisted, KnownIfStarted, Started
<1>6. OrdersLeftOnce'
  <2> SUFFICES ASSUME NEW u \in Trans
               PROVE  /\ ToSet(orderList'[u]) \subseteq ToSet(pptList[u])
                      /\ \A i, j \in DOMAIN orderList'[u] :
                           orderList'[u][i] = orderList'[u][j] => i = j
    BY <1>1 DEF OrdersLeftOnce
  <2>1. CASE u = t
    <3>1. \A i, j \in DOMAIN pptList[t] : pptList[t][i] = pptList[t][j] => i = j
      BY DEF Enlisted, OneServerEach
    <3> QED BY <1>3, <2>1, <3>1
  <2>2. CASE u # t
    <3>1. orderList'[u] = orderList[u]
      BY <1>3, <2>2
    <3> QED BY <3>1 DEF Enlisted, OrdersLeftOnce
  <2> QED BY <2>1, <2>2
<1>7. CallsToParticipants'
  <2> SUFFICES ASSUME NEW m \in Agencies, call[m] \notin {Idle, Blocked}
               PROVE  /\ TM[call[m].tran] = m
                      /\ client'[call[m].tran] \notin {"new", "calling"}
                      /\ ToSet(call[m].todo) \subseteq ToSet(pptList[call[m].tran])
                      /\ call[m].why = "init" =>
                           /\ Len(call[m].todo) = 1
                           /\ Head(call[m].todo) \notin ToSet(orderList'[call[m].tran])
    BY <1>1 DEF CallsToParticipants, Started
  <2>1. /\ TM[call[m].tran] = m /\ Started(call[m].tran)
        /\ ToSet(call[m].todo) \subseteq ToSet(pptList[call[m].tran])
        /\ call[m].why = "init" =>
             /\ Len(call[m].todo) = 1
             /\ Head(call[m].todo) \notin ToSet(orderList[call[m].tran])
    BY DEF Enlisted, CallsToParticipants
  <2>2. call[m].tran \in Trans \ {t}
    BY <1>1, <2>1, CallFields DEF TypeOK
  <2> QED BY <1>3, <2>1, <2>2 DEF Started
<1>8. \A u \in Trans : Started(u) => /\ client'[u] \notin {"new", "calling"}
                                     /\ pptList'[u] = pptList[u]
  BY <1>1, <1>3 DEF Started
<1>9. ASSUME NEW u \in Trans, NEW s \in Servers, Unsent(u, s)', Started(u)
      PROVE  Unsent(u, s)
  <2>1. orderList'[u] = orderList[u] /\ call' = call
    BY <1>1, <1>3, <1>9
  <2> QED BY <1>9, <2>1 DEF Unsent
<1>10. CommandsOfParticipants' /\ HandedProposed'
  BY <1>8, <1>9, EnlistedCommands
<1> QED BY <1>4, <1>5, <1>6, <1>7, <1>10 DEF Enlisted

LEMMA EnlistedSendOrder ==
  ASSUME TypeOK, Enlisted, NEW t \in Trans, SendOrder(t), UNCHANGED netVars
  PROVE  Enlisted' /\ \A u \in Trans, s \in Servers : Unsent(u, s)' => Unsent(u, s)
<1> DEFINE c == [why |-> "init", tran |-> t, todo |-> <<Head(orderList[t])>>]
           m == TM[t]
<1>1. /\ orderList[t] # <<>> /\ call[m] = Idle /\ m \in Agencies
      /\ call' = [call EXCEPT ![m] = c]
      /\ orderList' = [orderList EXCEPT ![t] = Tail(@)]
      /\ UNCHANGED <<client, pptList, activeTransMap, decision, commitGrp,
                     tmTimers, expired>>
  BY TransFacts DEF SendOrder, OrdersLeft
<1>2. Started(t) /\ orderList[t] \in Seq(Servers)
  BY <1>1 DEF Enlisted, KnownIfStarted, TypeOK, TranLayerTypeOK
<1>3. /\ c.why = "init" /\ c.tran = t /\ ToSet(c.todo) = {Head(orderList[t])}
      /\ Len(c.todo) = 1 /\ Head(c.todo) = Head(orderList[t])
  BY DEF ToSet
<1>4. /\ \A i, j \in DOMAIN orderList[t] : orderList[t][i] = orderList[t][j] => i = j
      /\ ToSet(orderList[t]) \subseteq ToSet(pptList[t])
  BY DEF Enlisted, OrdersLeftOnce
<1>5. /\ Head(orderList[t]) \notin ToSet(Tail(orderList[t]))
      /\ \A i, j \in DOMAIN Tail(orderList[t]) :
           Tail(orderList[t])[i] = Tail(orderList[t])[j] => i = j
      /\ Head(orderList[t]) \in ToSet(orderList[t])
      /\ ToSet(Tail(orderList[t])) \subseteq ToSet(orderList[t])
  BY <1>1, <1>2, <1>4, TailOfDistinct, ElementsOfTail
<1> HIDE DEF c, m
<1>6. /\ orderList'[t] = Tail(orderList[t])
      /\ \A u \in Trans \ {t} : orderList'[u] = orderList[u]
      /\ call'[m] = c /\ \A k \in Agencies \ {m} : call'[k] = call[k]
  BY <1>1 DEF TypeOK, TranLayerTypeOK
<1>7. OneServerEach'
  BY <1>1 DEF Enlisted, OneServerEach
<1>8. KnownIfStarted'
  BY <1>1, <1>2, <1>6 DEF Enlisted, KnownIfStarted, Started
<1>9. OrdersLeftOnce'
  <2> SUFFICES ASSUME NEW u \in Trans
               PROVE  /\ ToSet(orderList'[u]) \subseteq ToSet(pptList[u])
                      /\ \A i, j \in DOMAIN orderList'[u] :
                           orderList'[u][i] = orderList'[u][j] => i = j
    BY <1>1 DEF OrdersLeftOnce
  <2>1. CASE u = t
    BY <1>4, <1>5, <1>6, <2>1
  <2>2. CASE u # t
    <3>1. orderList'[u] = orderList[u]
      BY <1>6, <2>2
    <3> QED BY <3>1 DEF Enlisted, OrdersLeftOnce
  <2> QED BY <2>1, <2>2
<1>10. CallsToParticipants'
  <2> SUFFICES ASSUME NEW k \in Agencies, call'[k] \notin {Idle, Blocked}
               PROVE  /\ TM[call'[k].tran] = k
                      /\ client[call'[k].tran] \notin {"new", "calling"}
                      /\ ToSet(call'[k].todo) \subseteq ToSet(pptList[call'[k].tran])
                      /\ call'[k].why = "init" =>
                           /\ Len(call'[k].todo) = 1
                           /\ Head(call'[k].todo) \notin ToSet(orderList'[call'[k].tran])
    BY <1>1 DEF CallsToParticipants, Started
  <2>1. CASE k = m
    BY <1>2, <1>3, <1>4, <1>5, <1>6, <2>1 DEF m, Started
  <2>2. CASE k # m
    <3>1. call'[k] = call[k]
      BY <1>6, <2>2
    <3>2. /\ TM[call[k].tran] = k /\ Started(call[k].tran)
          /\ ToSet(call[k].todo) \subseteq ToSet(pptList[call[k].tran])
          /\ call[k].why = "init" =>
               /\ Len(call[k].todo) = 1
               /\ Head(call[k].todo) \notin ToSet(orderList[call[k].tran])
      BY <3>1 DEF Enlisted, CallsToParticipants
    <3>3. call[k].tran \in Trans \ {t}
      BY <2>2, <3>1, <3>2, CallFields DEF TypeOK, m
    <3> QED BY <1>6, <3>1, <3>2, <3>3 DEF Started
  <2> QED BY <2>1, <2>2
<1>11. ASSUME NEW u \in Trans, NEW s \in Servers, Unsent(u, s)'
       PROVE  Unsent(u, s)
  <2>1. CASE s \in ToSet(orderList'[u])
    BY <1>5, <1>6, <2>1 DEF Unsent
  <2>2. CASE call'[TM[u]].why = "init" /\ call'[TM[u]].tran = u /\ s \in ToSet(call'[TM[u]].todo)
    <3>1. CASE TM[u] = m
      <4>1. u = t /\ s = Head(orderList[t])
        BY <1>3, <1>6, <2>2, <3>1
      <4> QED BY <1>5, <4>1 DEF Unsent
    <3>2. CASE TM[u] # m
      <4>1. call'[TM[u]] = call[TM[u]]
        BY <1>6, <3>2, TransFacts
      <4> QED BY <2>2, <4>1 DEF Unsent
    <3> QED BY <3>1, <3>2
  <2> QED BY <1>11, <2>1, <2>2 DEF Unsent
<1>12. CommandsOfParticipants' /\ HandedProposed'
  BY <1>1, <1>11, EnlistedCommands DEF Started
<1> QED BY <1>7, <1>8, <1>9, <1>10, <1>11, <1>12 DEF Enlisted

LEMMA EnlistedRequestFlight ==
  ASSUME TypeOK, Enlisted, NEW f \in Flights, RequestFlight(f)
  PROVE  /\ Enlisted' /\ UNCHANGED <<executed, tranLayerVars, airlineVars>>
         /\ \A a \in Airlines : \A c \in proposed'[a] : c \in proposed[a] \/ c.op = "CREATE"
<1>1. PICK s \in Servers :
        /\ ProposeCommand([op |-> "CREATE", flight |-> f, own |-> s])
        /\ UNCHANGED <<tranLayerVars, airlineVars>>
  BY DEF RequestFlight
<1> DEFINE new == [op |-> "CREATE", flight |-> f, own |-> s]
<1>2. new \in Command /\ new.op = "CREATE" /\ new.own = s
  BY DEF Command
<1> HIDE DEF new
<1>3. /\ UNCHANGED executed
      /\ \A a \in Airlines :
           proposed'[a] = proposed[a] \cup (IF a = AirlineOf[s] THEN {new} ELSE {})
  BY <1>1, <1>2, NetTypePropose DEF TypeOK, new
<1> USE DEF tranLayerVars, Started, Unsent
<1>4. OneServerEach' /\ OrdersLeftOnce'
  BY <1>1 DEF Enlisted, OneServerEach, OrdersLeftOnce
<1>5. KnownIfStarted' /\ CallsToParticipants'
  BY <1>1 DEF Enlisted, KnownIfStarted, CallsToParticipants
<1>6. CommandsOfParticipants'
  <2> SUFFICES ASSUME NEW a \in Airlines, NEW c \in proposed'[a]
               PROVE  /\ AirlineOf[c.own] = a
                      /\ c.op # "CREATE" => /\ Started(c.tran)
                                            /\ c.own \in ToSet(pptList[c.tran])
                      /\ c.op = "INIT" => ~Unsent(c.tran, c.own)
    BY <1>1 DEF CommandsOfParticipants
  <2>1. c \in proposed[a] \/ (c = new /\ a = AirlineOf[s])
    BY <1>3
  <2> QED BY <1>2, <2>1 DEF Enlisted, CommandsOfParticipants
<1>7. HandedProposed'
  BY <1>3, ServersAssumption DEF Enlisted, HandedProposed, Handed
<1> QED BY <1>1, <1>2, <1>3, <1>4, <1>5, <1>6, <1>7 DEF Enlisted

\* What a server is voting on was asked of it.
LEMMA VotingEnlisted ==
  ASSUME TypeOK, Enlisted, Polled, NEW s \in Servers, Voting(s)
  PROVE  LET t == storeHandler[s].tran IN
         /\ t \in Trans /\ Started(t) /\ s \in ToSet(pptList[t])
         /\ InitCmd(t, s) \in Handed(s)
         /\ ~Unsent(t, s)
<1> DEFINE t == storeHandler[s].tran
           a == AirlineOf[s]
<1>1. t \in Trans /\ a \in Airlines
  BY ServersAssumption DEF TypeOK, AirlineTypeOK
<1>2. InitCmd(t, s) \in Handed(s)
  BY DEF Polled
<1>3. /\ InitCmd(t, s).op = "INIT" /\ InitCmd(t, s).tran = t /\ InitCmd(t, s).own = s
      /\ InitCmd(t, s) \in proposed[a]
  BY <1>2 DEF InitCmd, Enlisted, HandedProposed
<1> QED BY <1>1, <1>2, <1>3 DEF Enlisted, CommandsOfParticipants

LEMMA EnlistedStep ==
  TypeOK /\ Enlisted /\ Polled /\ [Next]_vars => Enlisted'
<1> SUFFICES ASSUME TypeOK, Enlisted, Polled, [Next]_vars PROVE Enlisted'
  OBVIOUS
<1>1. ASSUME NEW t \in Trans, ManageTransaction(t) PROVE Enlisted'
  <2>1. UNCHANGED netVars
    BY <1>1 DEF ManageTransaction
  <2>2. CASE ExpireTrans(t)
    <3>1. Started(t) /\ Handling(TM[t], t) /\ TM[t] \in Agencies
      BY <2>2, ExpireTransHandles, TransFacts
    <3>2. /\ OneServerEach' /\ KnownIfStarted' /\ OrdersLeftOnce' /\ CallsToParticipants'
          /\ \A u \in Trans, s \in Servers : Unsent(u, s)' => Unsent(u, s)
      BY <3>1, EnlistedHandling
    <3>3. CommandsOfParticipants' /\ HandedProposed'
      BY <2>1, <3>1, <3>2, EnlistedCommands DEF Handling
    <3> QED BY <3>2, <3>3 DEF Enlisted
  <2> QED BY <1>1, <2>1, <2>2, EnlistedBookingFlights, EnlistedInitTrans, EnlistedSendOrder
          DEF ManageTransaction
<1>2. ASSUME NEW f \in Flights, RequestFlight(f) PROVE Enlisted'
  BY <1>2, EnlistedRequestFlight
<1>3. ASSUME NEW m \in Agencies, NEW s \in Servers, RequestTransaction(m, s)
      PROVE  Enlisted'
  BY <1>3, EnlistedRequestTransaction
<1>4. ASSUME NEW s \in Servers, Vote(s) PROVE Enlisted'
  <2> DEFINE t == storeHandler[s].tran
  <2>1. /\ Voting(s) /\ UNCHANGED netVars
        /\ ResponseTrans(t, s, storeHandler[s].vote)
    BY <1>4 DEF Vote
  <2>2. t \in Trans /\ storeHandler[s].vote \in {"COMMIT", "ABORT"}
    BY <2>1 DEF TypeOK, AirlineTypeOK
  <2>3. Started(t) /\ s \in ToSet(pptList[t])
    BY <2>1, VotingEnlisted
  <2>4. Handling(TM[t], t) /\ TM[t] \in Agencies
    <3> HIDE DEF t
    <3> QED BY <2>1, <2>2, <2>3, ResponseTransHandles, TransFacts
  <2>5. /\ OneServerEach' /\ KnownIfStarted' /\ OrdersLeftOnce' /\ CallsToParticipants'
        /\ \A u \in Trans, r \in Servers : Unsent(u, r)' => Unsent(u, r)
    BY <2>2, <2>3, <2>4, EnlistedHandling
  <2>6. CommandsOfParticipants' /\ HandedProposed'
    BY <2>1, <2>4, <2>5, EnlistedCommands DEF Handling
  <2> QED BY <2>5, <2>6 DEF Enlisted
<1>5. ASSUME NEW s \in Servers, ApplyCommand(s) PROVE Enlisted'
  BY <1>5, EnlistedHandOver DEF ApplyCommand, Execute
<1>6. ASSUME NEW s \in Servers, NEW t \in Trans, Expire(s, t) PROVE Enlisted'
  BY <1>6, EnlistedFrame DEF Expire
<1>7. CASE UNCHANGED vars
  BY <1>7, EnlistedFrame DEF vars
<1> QED BY <1>1, <1>2, <1>3, <1>4, <1>5, <1>6, <1>7 DEF Next

-----------------------------------------------------------------------------
(* Votes.                                                                  *)

LEMMA VotesInit == Init => Polled /\ Awaited
<1> SUFFICES ASSUME Init PROVE Polled /\ Awaited
  OBVIOUS
<1>1. \A s \in Servers : ~Voting(s)
  BY DEF Init, AirlineInit, Voting, Waiting
<1>2. \A t \in Trans : orderList[t] = <<>>
  BY DEF Init, TranLayerInit
<1>3. \A m \in Agencies : call[m] = Idle
  BY DEF Init, TranLayerInit
<1>4. \A a \in Airlines : proposed[a] = {}
  BY DEF Init, NetInit
<1>5. ToSet(<<>>) = {}
  BY DEF ToSet
<1>6. ASSUME NEW t \in Trans, NEW s \in Servers PROVE ~Outstanding(t, s)
  <2>1. ~Unsent(t, s)
    BY <1>2, <1>3, <1>5, TransFacts DEF Unsent, Idle
  <2> QED BY <1>1, <1>4, <2>1, ServersAssumption DEF Outstanding, Pending
<1> QED BY <1>1, <1>6 DEF Polled, Awaited

\* The handler of s begins to vote when it carries out the order for it.
LEMMA VoteBegins ==
  ASSUME TypeOK, Enlisted, NEW s \in Servers, ApplyCommand(s)
  PROVE  /\ Handed(s) \subseteq Handed(s)'
         /\ \A r \in Servers \ {s} : /\ executed'[r] = executed[r]
                                     /\ storeHandler'[r] = storeHandler[r]
         /\ ~Voting(s)
         /\ Voting(s)' => /\ storeHandler'[s].tran \in Trans
                          /\ InitCmd(storeHandler'[s].tran, s) \in Pending(s)
                          /\ InitCmd(storeHandler'[s].tran, s) \in Handed(s)'
         /\ UNCHANGED <<proposed, tranLayerVars>>
<1>1. PICK c \in Pending(s) : Execute(s, c)
  BY DEF ApplyCommand
<1>2. /\ storeHandler[s] = Waiting
      /\ HandOver(s, c)
      /\ \/ c.op = "CREATE" /\ CreateFlight(s, c.flight)
         \/ c.op = "INIT" /\ InitTransaction(s, c.tran, c.own)
         \/ c.op = "RESPONSE" /\ ResponseTransaction(s, c.tran, c.vote)
      /\ UNCHANGED tranLayerVars
  BY <1>1 DEF ApplyCommand, Execute
<1>3. /\ c \in Command
      /\ c.op # "CREATE" => c.tran \in Trans
  BY <1>2, NextCommand
<1>4. /\ UNCHANGED proposed /\ Handed(s)' = Handed(s) \cup {c}
      /\ \A r \in Servers \ {s} : executed'[r] = executed[r]
  BY <1>2, NetTypeHandOver DEF TypeOK
<1>5. ~Voting(s) /\ DOMAIN storeHandler = Servers
  BY <1>2 DEF Voting, Waiting, TypeOK, AirlineTypeOK
<1>6. \/ UNCHANGED storeHandler
      \/ /\ c.op = "INIT" /\ c.own = s
         /\ storeHandler' = [storeHandler EXCEPT
                               ![s] = [at |-> "initTrans", tran |-> c.tran,
                                       vote |-> Claim(s, c.tran).vote,
                                       log |-> Claim(s, c.tran).log]]
  BY <1>2 DEF CreateFlight, InitTransaction, ResponseTransaction
<1>7. CASE UNCHANGED storeHandler
  <2>1. ~Voting(s)'
    BY <1>5, <1>7 DEF Voting
  <2> QED BY <1>2, <1>4, <1>5, <1>7, <2>1
<1>8. CASE /\ c.op = "INIT" /\ c.own = s
           /\ storeHandler' = [storeHandler EXCEPT
                                 ![s] = [at |-> "initTrans", tran |-> c.tran,
                                         vote |-> Claim(s, c.tran).vote,
                                         log |-> Claim(s, c.tran).log]]
  <2>1. /\ storeHandler'[s].tran = c.tran
        /\ \A r \in Servers \ {s} : storeHandler'[r] = storeHandler[r]
    BY <1>5, <1>8
  <2>2. c = InitCmd(c.tran, s)
    BY <1>3, <1>8 DEF Command, InitCmd
  <2>3. c.tran \in Trans
    BY <1>3, <1>8
  <2>4. InitCmd(storeHandler'[s].tran, s) = c
    BY <2>1, <2>2
  <2> QED BY <1>1, <1>2, <1>4, <1>5, <2>1, <2>3, <2>4
<1> QED BY <1>6, <1>7, <1>8

LEMMA PolledStep == TypeOK /\ Enlisted /\ Polled /\ [Next]_vars => Polled'
<1> SUFFICES ASSUME TypeOK, Enlisted, Polled, [Next]_vars,
                    NEW s \in Servers, Voting(s)'
             PROVE  (InitCmd(storeHandler[s].tran, s) \in Handed(s))'
  BY DEF Polled
<1> DEFINE Carried == InitCmd(storeHandler'[s].tran, s) \in Handed(s)'
<1> SUFFICES Carried
  BY DEF InitCmd
<1>1. ASSUME storeHandler'[s] = storeHandler[s], executed'[s] = executed[s]
      PROVE  Carried
  BY <1>1 DEF Polled, Voting, Handed
<1>2. ASSUME UNCHANGED airlineVars, UNCHANGED executed PROVE Carried
  BY <1>1, <1>2 DEF airlineVars
<1> HIDE DEF Carried
<1>3. CASE \E t \in Trans : ManageTransaction(t)
  BY <1>2, <1>3 DEF ManageTransaction, netVars
<1>4. CASE \E f \in Flights : RequestFlight(f)
  BY <1>2, <1>4, EnlistedRequestFlight
<1>5. CASE \E m \in Agencies, r \in Servers : RequestTransaction(m, r)
  BY <1>2, <1>5 DEF RequestTransaction, ProposeCommand
<1>6. ASSUME NEW r \in Servers, Vote(r) PROVE Carried
  <2>1. /\ storeHandler' = [storeHandler EXCEPT ![r] = Waiting]
        /\ UNCHANGED executed
    BY <1>6 DEF Vote, Voted, netVars
  <2>2. r # s
    BY <2>1 DEF Voting, Waiting, TypeOK, AirlineTypeOK
  <2>3. storeHandler'[s] = storeHandler[s]
    BY <2>1, <2>2 DEF TypeOK, AirlineTypeOK
  <2> QED BY <1>1, <2>1, <2>3
<1>7. ASSUME NEW r \in Servers, ApplyCommand(r) PROVE Carried
  <2>1. CASE r # s
    <3>1. executed'[s] = executed[s] /\ storeHandler'[s] = storeHandler[s]
      BY <1>7, <2>1, VoteBegins
    <3> QED BY <1>1, <3>1
  <2>2. CASE r = s
    BY <1>7, <2>2, VoteBegins DEF Carried
  <2> QED BY <2>1, <2>2
<1>8. ASSUME NEW r \in Servers, NEW t \in Trans, Expire(r, t) PROVE Carried
  <2>1. /\ UNCHANGED netVars
        /\ storeHandler' = storeHandler \/ storeHandler' = [storeHandler EXCEPT ![r] = Asking]
    BY <1>8 DEF Expire, ExpireTransaction
  <2>2. storeHandler'[s] = storeHandler[s]
    BY <2>1 DEF Voting, Asking, TypeOK, AirlineTypeOK
  <2> QED BY <1>1, <2>1, <2>2 DEF netVars
<1>9. CASE UNCHANGED vars
  BY <1>2, <1>9 DEF vars, netVars
<1> QED BY <1>3, <1>4, <1>5, <1>6, <1>7, <1>8, <1>9 DEF Next

\* When the TM has got the vote of s, it waits for no other of s in t.
LEMMA VoteTaken ==
  ASSUME TypeOK, Enlisted, Polled, NEW s \in Servers, Voting(s), Vote(s),
         NEW t \in Trans, t = storeHandler[s].tran
  PROVE  ~Outstanding(t, s)'
<1>1. /\ s \in ToSet(pptList[t]) /\ Started(t)
      /\ InitCmd(t, s) \in Handed(s) /\ ~Unsent(t, s)
  BY VotingEnlisted
<1>2. /\ UNCHANGED netVars
      /\ storeHandler' = [storeHandler EXCEPT ![s] = Waiting]
      /\ ResponseTrans(t, s, storeHandler[s].vote)
  BY DEF Vote, Voted
<1>3. storeHandler'[s].at # "initTrans"
  BY <1>2 DEF TypeOK, AirlineTypeOK, Waiting
<1>4. ~Unsent(t, s)'
  <2>1. storeHandler[s].vote \in {"COMMIT", "ABORT"} /\ TM[t] \in Agencies
    BY TransFacts DEF TypeOK, AirlineTypeOK
  <2>2. Handling(TM[t], t)
    BY <1>1, <1>2, <2>1, ResponseTransHandles
  <2> QED BY <1>1, <2>1, <2>2, EnlistedHandling
<1> QED BY <1>1, <1>2, <1>3, <1>4 DEF Outstanding, Voting, netVars, Pending, Handed, InitCmd

\* Nothing but the TM's start of t makes votes in t outstanding.
LEMMA OutstandingLess ==
  ASSUME TypeOK, Enlisted, NEW t \in Trans, NEW s \in Servers,
         \/ \E u \in Trans : ManageTransaction(u) /\ ~(InitTrans(u) /\ t = u)
         \/ \E f \in Flights : RequestFlight(f)
         \/ \E m \in Agencies, r \in Servers : RequestTransaction(m, r)
         \/ \E r \in Servers : ApplyCommand(r)
         \/ \E r \in Servers, u \in Trans : Expire(r, u)
         \/ UNCHANGED vars,
         Outstanding(t, s)'
  PROVE  Outstanding(t, s)
<1>0. TM[t] \in Agencies /\ AirlineOf[s] \in Airlines
  BY TransFacts, ServersAssumption
<1>1. ASSUME UNCHANGED <<netVars, airlineVars>>, Unsent(t, s)' => Unsent(t, s)
      PROVE  Outstanding(t, s)
  BY <1>1 DEF Outstanding, Voting, Pending, InitCmd, netVars, airlineVars
<1>2. ASSUME NEW u \in Trans, ManageTransaction(u), ~(InitTrans(u) /\ t = u)
      PROVE  Outstanding(t, s)
  <2>1. UNCHANGED <<netVars, airlineVars>>
    BY <1>2 DEF ManageTransaction
  <2>2. CASE BookingFlights(u)
    BY <1>1, <2>1, <2>2 DEF BookingFlights, Unsent
  <2>3. CASE InitTrans(u)
    <3>1. orderList' = [orderList EXCEPT ![u] = pptList[u]] /\ UNCHANGED call
      BY <2>3 DEF InitTrans
    <3>2. orderList'[t] = orderList[t]
      BY <1>2, <2>3, <3>1 DEF TypeOK, TranLayerTypeOK
    <3> QED BY <1>1, <2>1, <3>1, <3>2 DEF Unsent
  <2>4. CASE SendOrder(u)
    BY <1>1, <2>1, <2>4, EnlistedSendOrder
  <2>5. CASE ExpireTrans(u)
    <3>1. Started(u) /\ Handling(TM[u], u) /\ TM[u] \in Agencies
      BY <2>5, ExpireTransHandles, TransFacts
    <3> QED BY <1>1, <2>1, <3>1, EnlistedHandling
  <2> QED BY <1>2, <2>2, <2>3, <2>4, <2>5 DEF ManageTransaction
<1>3. ASSUME NEW f \in Flights, RequestFlight(f) PROVE Outstanding(t, s)
  <2>1. /\ UNCHANGED <<executed, tranLayerVars, airlineVars>>
        /\ InitCmd(t, s) \in proposed'[AirlineOf[s]] => InitCmd(t, s) \in proposed[AirlineOf[s]]
    BY <1>0, <1>3, EnlistedRequestFlight DEF InitCmd
  <2> QED BY <2>1 DEF Outstanding, Voting, Unsent, Pending, InitCmd, tranLayerVars, airlineVars
<1>4. ASSUME NEW m \in Agencies, NEW r \in Servers, RequestTransaction(m, r)
      PROVE  Outstanding(t, s)
  <2> DEFINE u == call[m].tran
             new == Asked(m, r)
  <2>1. /\ call[m] \notin {Idle, Blocked} /\ r = Head(call[m].todo)
        /\ ProposeCommand(new) /\ Returned(m) /\ UNCHANGED airlineVars
    BY <1>4 DEF RequestTransaction
  <2>2. /\ u \in Trans /\ TM[u] = m /\ Started(u) /\ r \in ToSet(call[m].todo)
    BY <2>1, CallUnderWay
  <2>3. Unsent(t, s)' => Unsent(t, s)
    BY <2>1, <2>2, ReturnedHandles, EnlistedHandling
  <2>4. /\ new \in Command /\ new.own = r
        /\ call[m].why = "init" => new = InitCmd(u, r)
        /\ call[m].why # "init" => new.op = "RESPONSE"
    BY <2>1, AskedType
  <2> HIDE DEF new
  <2>5. /\ UNCHANGED executed
        /\ \A a \in Airlines :
             proposed'[a] = proposed[a] \cup (IF a = AirlineOf[r] THEN {new} ELSE {})
    BY <2>1, <2>4, NetTypePropose DEF TypeOK
  <2>6. ASSUME InitCmd(t, s) = new PROVE Unsent(t, s)
    <3>1. call[m].why = "init"
      BY <2>4, <2>6 DEF InitCmd
    <3>2. u = t /\ r = s
      BY <2>4, <2>6, <3>1 DEF InitCmd
    <3> QED BY <2>2, <3>1, <3>2 DEF Unsent
  <2>7. InitCmd(t, s) \in proposed'[AirlineOf[s]] =>
          InitCmd(t, s) \in proposed[AirlineOf[s]] \/ Unsent(t, s)
    BY <1>0, <2>5, <2>6
  <2> QED BY <2>1, <2>3, <2>5, <2>7 DEF Outstanding, Voting, Pending, InitCmd, airlineVars
<1>5. ASSUME NEW r \in Servers, ApplyCommand(r) PROVE Outstanding(t, s)
  <2>1. /\ UNCHANGED <<proposed, tranLayerVars>>
        /\ Handed(r) \subseteq Handed(r)'
    BY <1>5, VoteBegins
  <2>2. CASE r # s
    <3>1. executed'[s] = executed[s] /\ storeHandler'[s] = storeHandler[s]
      BY <1>5, <2>2, VoteBegins
    <3> QED BY <2>1, <3>1 DEF Outstanding, Voting, Unsent, Pending, InitCmd, tranLayerVars
  <2>3. CASE r = s
    <3>1. Voting(s)' /\ storeHandler'[s].tran = t => InitCmd(t, s) \in Pending(s)
      BY <1>5, <2>3, VoteBegins
    <3>2. (InitCmd(t, s) \in Pending(s))' => InitCmd(t, s) \in Pending(s)
      BY <2>1, <2>3 DEF Pending, Handed, InitCmd
    <3> QED BY <2>1, <3>1, <3>2 DEF Outstanding, Unsent, tranLayerVars
  <2> QED BY <2>2, <2>3
<1>6. ASSUME NEW r \in Servers, NEW u \in Trans, Expire(r, u) PROVE Outstanding(t, s)
  <2>1. /\ UNCHANGED <<netVars, tranLayerVars>>
        /\ storeHandler' = storeHandler \/ storeHandler' = [storeHandler EXCEPT ![r] = Asking]
    BY <1>6 DEF Expire, ExpireTransaction
  <2>2. Voting(s)' => storeHandler'[s] = storeHandler[s]
    BY <2>1 DEF Voting, Asking, TypeOK, AirlineTypeOK
  <2> QED BY <2>1, <2>2 DEF Outstanding, Voting, Unsent, Pending, InitCmd, netVars, tranLayerVars
<1>7. CASE UNCHANGED vars
  BY <1>7 DEF vars, Outstanding, Voting, Unsent, Pending, InitCmd, netVars, tranLayerVars, airlineVars
<1> QED BY <1>2, <1>3, <1>4, <1>5, <1>6, <1>7

\* A vote that is taken is counted; the last one ends the transaction.
LEMMA VoteCounts ==
  ASSUME TypeOK, Enlisted, Polled, Awaited, NEW s \in Servers, Vote(s)
  PROVE  LET t    == storeHandler[s].tran
             vote == storeHandler[s].vote
             grp  == [commitGrp[t] EXCEPT ![s] = vote] IN
         /\ Voting(s) /\ t \in Trans /\ vote \in {"COMMIT", "ABORT"}
         /\ Started(t) /\ s \in ToSet(pptList[t])
         /\ t \in activeTransMap /\ commitGrp[t][s] = "NOT_DECIDED"
         /\ s \in DOMAIN commitGrp[t]
         /\ CountVote(TM[t], t, s, vote)
         /\ Voted(s) /\ UNCHANGED netVars
         /\ commitGrp'[t] = grp
         /\ \A u \in Trans \ {t} : commitGrp'[u] = commitGrp[u]
         /\ activeTransMap' = IF AllVoted(grp) THEN activeTransMap \ {t}
                                               ELSE activeTransMap
<1> DEFINE t    == storeHandler[s].tran
           vote == storeHandler[s].vote
           grp  == [commitGrp[t] EXCEPT ![s] = vote]
<1>1. /\ Voting(s) /\ ResponseTrans(t, s, vote) /\ Voted(s) /\ UNCHANGED netVars
  BY DEF Vote
<1>2. t \in Trans /\ vote \in {"COMMIT", "ABORT"}
  BY <1>1 DEF TypeOK, AirlineTypeOK
<1>3. Outstanding(t, s)
  BY <1>1 DEF Outstanding
<1>4. t \in activeTransMap /\ s \in ToSet(pptList[t]) /\ commitGrp[t][s] = "NOT_DECIDED"
  BY <1>2, <1>3 DEF Awaited
<1>5. Started(t) /\ DOMAIN commitGrp[t] = ToSet(pptList[t])
  BY <1>2, <1>4 DEF Enlisted, KnownIfStarted
<1>6. CountVote(TM[t], t, s, vote)
  BY <1>1, <1>4, <1>5 DEF ResponseTrans
<1>7. /\ commitGrp' = [commitGrp EXCEPT ![t] = grp]
      /\ activeTransMap' = IF AllVoted(grp) THEN activeTransMap \ {t}
                                            ELSE activeTransMap
  BY <1>6 DEF CountVote
<1> HIDE DEF grp
<1>8. commitGrp'[t] = grp /\ \A u \in Trans \ {t} : commitGrp'[u] = commitGrp[u]
  BY <1>2, <1>7 DEF TypeOK, TranLayerTypeOK
<1> QED BY <1>1, <1>2, <1>4, <1>5, <1>6, <1>7, <1>8 DEF grp

LEMMA AwaitedVote ==
  ASSUME TypeOK, Enlisted, Polled, Awaited, NEW r \in Servers, Vote(r)
  PROVE  Awaited'
<1> DEFINE u    == storeHandler[r].tran
           vote == storeHandler[r].vote
           grp  == [commitGrp[u] EXCEPT ![r] = vote]
<1>1. /\ Voting(r) /\ u \in Trans /\ vote \in {"COMMIT", "ABORT"} /\ Started(u)
      /\ r \in ToSet(pptList[u]) /\ CountVote(TM[u], u, r, vote) /\ Voted(r)
      /\ UNCHANGED netVars
      /\ commitGrp'[u] = grp
      /\ \A v \in Trans \ {u} : commitGrp'[v] = commitGrp[v]
      /\ activeTransMap' = IF AllVoted(grp) THEN activeTransMap \ {u}
                                            ELSE activeTransMap
  BY VoteCounts
<1>2. TM[u] \in Agencies /\ Handling(TM[u], u)
  <2>1. ResponseTrans(u, r, vote)
    BY DEF Vote
  <2> HIDE DEF u, vote
  <2> QED BY <1>1, <2>1, ResponseTransHandles, TransFacts
<1>3. /\ UNCHANGED pptList
      /\ \A v \in Trans, q \in Servers : Unsent(v, q)' => Unsent(v, q)
  <2> HIDE DEF u
  <2> QED BY <1>1, <1>2, EnlistedHandling DEF Handling
<1>4. storeHandler' = [storeHandler EXCEPT ![r] = Waiting]
  BY <1>1 DEF Voted
<1> SUFFICES ASSUME NEW t \in Trans, NEW s \in Servers, Outstanding(t, s)'
             PROVE  /\ t \in activeTransMap'
                    /\ s \in ToSet(pptList[t])
                    /\ commitGrp'[t][s] = "NOT_DECIDED"
  BY <1>3 DEF Awaited
<1>5. Outstanding(t, s)
  <2>1. Voting(s)' => storeHandler'[s] = storeHandler[s]
    BY <1>4 DEF Voting, Waiting, TypeOK, AirlineTypeOK
  <2> QED BY <1>1, <1>3, <1>4, <2>1 DEF Outstanding, Voting, Pending, InitCmd, netVars
<1>6. /\ t \in activeTransMap /\ s \in ToSet(pptList[t])
      /\ commitGrp[t][s] = "NOT_DECIDED"
  BY <1>5 DEF Awaited
<1>7. CASE t # u
  BY <1>1, <1>6, <1>7
<1>8. CASE t = u
  <2>1. s # r
    BY <1>1, <1>8, VoteTaken
  <2>2. s \in DOMAIN commitGrp[t]
    BY <1>1, <1>6, <1>8 DEF Enlisted, KnownIfStarted
  <2>3. s \in DOMAIN grp /\ grp[s] = "NOT_DECIDED"
    BY <1>6, <1>8, <2>1, <2>2
  <2>4. ~AllVoted(grp)
    BY <2>3 DEF AllVoted
  <2> QED BY <1>1, <1>6, <1>8, <2>3, <2>4
<1> QED BY <1>7, <1>8

LEMMA AwaitedStep ==
  TypeOK /\ Enlisted /\ Polled /\ Awaited /\ [Next]_vars => Awaited'
<1> SUFFICES ASSUME TypeOK, Enlisted, Polled, Awaited, [Next]_vars
             PROVE  Awaited'
  OBVIOUS
<1>1. CASE \E s \in Servers : Vote(s)
  BY <1>1, AwaitedVote
<1>2. ASSUME NEW u \in Trans, ManageTransaction(u), InitTrans(u) PROVE Awaited'
  <2>1. /\ ~Started(u)
        /\ activeTransMap' = activeTransMap \cup {u}
        /\ commitGrp' = [commitGrp EXCEPT
                           ![u] = [s \in ToSet(pptList[u]) |-> "NOT_DECIDED"]]
        /\ orderList' = [orderList EXCEPT ![u] = pptList[u]]
        /\ UNCHANGED <<pptList, call>>
    BY <1>2 DEF InitTrans, Started
  <2>2. UNCHANGED <<netVars, airlineVars>>
    BY <1>2 DEF ManageTransaction
  <2> SUFFICES ASSUME NEW t \in Trans, NEW s \in Servers, Outstanding(t, s)'
               PROVE  /\ t \in activeTransMap'
                      /\ s \in ToSet(pptList[t])
                      /\ commitGrp'[t][s] = "NOT_DECIDED"
    BY <2>1 DEF Awaited
  <2>3. CASE t # u
    <3>1. Outstanding(t, s)
      BY <1>2, <2>3, OutstandingLess
    <3>2. commitGrp'[t] = commitGrp[t]
      BY <2>1, <2>3 DEF TypeOK, TranLayerTypeOK
    <3> QED BY <2>1, <3>1, <3>2 DEF Awaited
  <2>4. CASE t = u
    <3>1. ~Outstanding(t, s)
      BY <2>1, <2>4 DEF Awaited, Enlisted, KnownIfStarted
    <3>2. s \in ToSet(orderList'[t])
      BY <2>1, <2>2, <3>1 DEF Outstanding, Unsent, Voting, Pending, InitCmd, netVars, airlineVars
    <3>3. s \in ToSet(pptList[t])
      BY <2>1, <2>4, <3>2 DEF TypeOK, TranLayerTypeOK
    <3> QED BY <2>1, <2>4, <3>3 DEF TypeOK, TranLayerTypeOK
  <2> QED BY <2>3, <2>4
<1>3. ASSUME UNCHANGED <<activeTransMap, commitGrp>>,
             \A t \in Trans : Started(t) => pptList'[t] = pptList[t],
             \A t \in Trans, s \in Servers : Outstanding(t, s)' => Outstanding(t, s)
      PROVE  Awaited'
  <2> SUFFICES ASSUME NEW t \in Trans, NEW s \in Servers, Outstanding(t, s)'
               PROVE  /\ t \in activeTransMap
                      /\ s \in ToSet(pptList'[t])
                      /\ commitGrp[t][s] = "NOT_DECIDED"
    BY <1>3 DEF Awaited
  <2>1. /\ t \in activeTransMap /\ s \in ToSet(pptList[t])
        /\ commitGrp[t][s] = "NOT_DECIDED"
    BY <1>3 DEF Awaited
  <2>2. Started(t)
    BY <2>1 DEF Enlisted, KnownIfStarted
  <2> QED BY <1>3, <2>1, <2>2
<1>4. ASSUME NEW u \in Trans, ManageTransaction(u), ~InitTrans(u) PROVE Awaited'
  <2>1. UNCHANGED <<activeTransMap, commitGrp>>
    BY <1>4 DEF ManageTransaction, BookingFlights, SendOrder, ExpireTrans
  <2>2. \A t \in Trans : Started(t) => pptList'[t] = pptList[t]
    BY <1>4 DEF ManageTransaction, BookingFlights, SendOrder, ExpireTrans, Started,
                TypeOK, TranLayerTypeOK
  <2> QED BY <1>3, <1>4, <2>1, <2>2, OutstandingLess
<1>5. ASSUME \/ \E f \in Flights : RequestFlight(f)
             \/ \E m \in Agencies, r \in Servers : RequestTransaction(m, r)
             \/ \E r \in Servers : ApplyCommand(r)
             \/ \E r \in Servers, u \in Trans : Expire(r, u)
             \/ UNCHANGED vars
      PROVE  Awaited'
  <2>1. UNCHANGED <<activeTransMap, commitGrp, pptList>>
    BY <1>5 DEF RequestFlight, RequestTransaction, Returned, ApplyCommand,
                Expire, vars, tranLayerVars
  <2> QED BY <1>3, <1>5, <2>1, OutstandingLess
<1> QED BY <1>1, <1>2, <1>4, <1>5 DEF Next

\* The inductive invariant so far.
LEMMA AwaitedInvariant == Spec => [](TypeOK /\ Enlisted /\ Polled /\ Awaited)
<1>1. Init => TypeOK /\ Enlisted /\ Polled /\ Awaited
  BY TypeInit, EnlistedInit, VotesInit
<1>2. TypeOK /\ Enlisted /\ Polled /\ Awaited /\ [Next]_vars
        => (TypeOK /\ Enlisted /\ Polled /\ Awaited)'
  BY TypeStep, EnlistedStep, PolledStep, AwaitedStep
<1> QED BY <1>1, <1>2, PTL DEF Spec

\* The variables of the TMs and of the airline servers keep their types, however
\* many of them, of flights and of bookings there are.
THEOREM TypesKept == Spec => []TypeOK
BY AwaitedInvariant, PTL

\* A TM gets no vote that it does not wait for: neither twice nor late.
THEOREM VotesAreAwaited == Spec => []VoteAwaited
<1>1. TypeOK /\ Awaited => VoteAwaited
  BY DEF Awaited, Outstanding, VoteAwaited, TypeOK, AirlineTypeOK
<1> QED BY <1>1, AwaitedInvariant, PTL


-----------------------------------------------------------------------------
(* Decisions.                                                              *)

Decided == DecisionOfVotes /\ CallsAfterVotes /\ CommitAgreed

Counted == TypeOK /\ Enlisted /\ Polled /\ Awaited

LEMMA CountedStep == Counted /\ [Next]_vars => Counted'
BY TypeStep, EnlistedStep, PolledStep, AwaitedStep DEF Counted

LEMMA DecidedInit == Init => Decided
<1> SUFFICES ASSUME Init PROVE Decided
  OBVIOUS
<1>1. DecisionOfVotes
  <2>1. \A t \in Trans : commitGrp[t] = <<>> /\ decision[t] = "NOT_DECIDED"
    BY DEF Init, TranLayerInit
  <2>2. DOMAIN <<>> = {}
    OBVIOUS
  <2> QED BY <2>1, <2>2 DEF DecisionOfVotes
<1>2. CallsAfterVotes
  BY DEF Init, TranLayerInit, CallsAfterVotes
<1>3. CommitAgreed
  <2>1. \A a \in Airlines : proposed[a] = {}
    BY DEF Init, NetInit
  <2>2. \A s \in Servers, t \in Trans : oldLog[s][t] = "NOT_DECIDED"
    BY DEF Init, AirlineInit
  <2> QED BY <2>1, <2>2 DEF CommitAgreed
<1> QED BY <1>1, <1>2, <1>3 DEF Decided

\* What the TM knows of a transaction that is over does not change.
LEMMA OverStays ==
  ASSUME Counted, [Next]_vars, NEW t \in Trans, Started(t)
  PROVE  /\ expired \subseteq expired'
         /\ client'[t] \notin {"new", "calling"}
         /\ t \notin activeTransMap =>
              t \notin activeTransMap' /\ commitGrp'[t] = commitGrp[t]
<1> DEFINE P == /\ expired \subseteq expired'
                /\ client'[t] \notin {"new", "calling"}
                /\ t \notin activeTransMap =>
                     t \notin activeTransMap' /\ commitGrp'[t] = commitGrp[t]
<1>0. TypeOK /\ Enlisted /\ Polled /\ Awaited
  BY DEF Counted
<1>1. ASSUME UNCHANGED tranLayerVars PROVE P
  BY <1>1 DEF tranLayerVars, Started
<1>2. ASSUME NEW u \in Trans, ManageTransaction(u) PROVE P
  <2>1. CASE BookingFlights(u) \/ InitTrans(u)
    <3>1. u # t
      BY <2>1 DEF BookingFlights, InitTrans, Started
    <3> QED BY <1>0, <2>1, <3>1
            DEF BookingFlights, InitTrans, Started, TypeOK, TranLayerTypeOK
  <2>2. CASE SendOrder(u)
    BY <2>2 DEF SendOrder, Started
  <2>3. CASE ExpireTrans(u)
    BY <1>0, <2>3, ExpireTransHandles DEF ExpireTrans, Handling
  <2> QED BY <1>2, <2>1, <2>2, <2>3 DEF ManageTransaction
<1>3. ASSUME NEW m \in Agencies, NEW s \in Servers, RequestTransaction(m, s) PROVE P
  BY <1>0, <1>3, ReturnedHandles DEF RequestTransaction, Returned, Handling
<1>4. ASSUME NEW s \in Servers, Vote(s) PROVE P
  <2> DEFINE u == storeHandler[s].tran
  <2>1. /\ u \in Trans /\ storeHandler[s].vote \in {"COMMIT", "ABORT"} /\ Started(u)
        /\ s \in ToSet(pptList[u]) /\ u \in activeTransMap
        /\ \A v \in Trans \ {u} : commitGrp'[v] = commitGrp[v]
        /\ activeTransMap' \in {activeTransMap, activeTransMap \ {u}}
        /\ CountVote(TM[u], u, s, storeHandler[s].vote)
        /\ ResponseTrans(u, s, storeHandler[s].vote)
    BY <1>0, <1>4, VoteCounts DEF Vote
  <2>2. UNCHANGED expired
    BY <2>1 DEF CountVote
  <2>3. client'[t] \notin {"new", "calling"}
    <3> HIDE DEF u
    <3> QED BY <1>0, <2>1, ResponseTransHandles DEF Handling
  <2> QED BY <2>1, <2>2, <2>3
<1>5. CASE \/ \E f \in Flights : RequestFlight(f)
           \/ \E s \in Servers : ApplyCommand(s)
           \/ \E s \in Servers, u \in Trans : Expire(s, u)
           \/ UNCHANGED vars
  BY <1>1, <1>5 DEF RequestFlight, ApplyCommand, Expire, vars
<1> QED BY <1>2, <1>3, <1>4, <1>5 DEF Next

LEMMA DecisionStep ==
  Counted /\ DecisionOfVotes /\ [Next]_vars => DecisionOfVotes'
<1> SUFFICES ASSUME Counted, DecisionOfVotes, [Next]_vars, NEW t \in Trans
             PROVE  /\ decision'[t] = "ABORT" <=>
                         \E s \in DOMAIN commitGrp'[t] : commitGrp'[t][s] = "ABORT"
                    /\ decision'[t] = "NOT_DECIDED" <=>
                         \A s \in DOMAIN commitGrp'[t] : commitGrp'[t][s] = "NOT_DECIDED"
  BY DEF DecisionOfVotes
<1> DEFINE P == /\ decision'[t] = "ABORT" <=>
                     \E s \in DOMAIN commitGrp'[t] : commitGrp'[t][s] = "ABORT"
                /\ decision'[t] = "NOT_DECIDED" <=>
                     \A s \in DOMAIN commitGrp'[t] : commitGrp'[t][s] = "NOT_DECIDED"
<1>0. TypeOK /\ Enlisted /\ Polled /\ Awaited
  BY DEF Counted
<1>1. ASSUME decision'[t] = decision[t], commitGrp'[t] = commitGrp[t] PROVE P
  BY <1>1 DEF DecisionOfVotes
<1>2. ASSUME NEW u \in Trans, ManageTransaction(u) PROVE P
  <2>1. CASE InitTrans(u)
    <3>1. /\ UNCHANGED decision /\ ~Started(u)
          /\ commitGrp' = [commitGrp EXCEPT
                             ![u] = [s \in ToSet(pptList[u]) |-> "NOT_DECIDED"]]
      BY <2>1 DEF InitTrans, Started
    <3>2. CASE t # u
      BY <1>0, <1>1, <3>1, <3>2 DEF TypeOK, TranLayerTypeOK
    <3>3. CASE t = u
      <4>1. decision'[t] = "NOT_DECIDED"
        BY <1>0, <3>1, <3>3 DEF Enlisted, KnownIfStarted
      <4>2. commitGrp'[t] = [s \in ToSet(pptList[u]) |-> "NOT_DECIDED"]
        BY <1>0, <3>1, <3>3 DEF TypeOK, TranLayerTypeOK
      <4> QED BY <4>1, <4>2
    <3> QED BY <3>2, <3>3
  <2>2. CASE BookingFlights(u) \/ SendOrder(u) \/ ExpireTrans(u)
    BY <1>1, <2>2 DEF BookingFlights, SendOrder, ExpireTrans
  <2> QED BY <1>2, <2>1, <2>2 DEF ManageTransaction
<1>3. ASSUME NEW s \in Servers, Vote(s) PROVE P
  <2> DEFINE u    == storeHandler[s].tran
             vote == storeHandler[s].vote
             grp  == [commitGrp[u] EXCEPT ![s] = vote]
  <2>1. /\ u \in Trans /\ vote \in {"COMMIT", "ABORT"}
        /\ s \in DOMAIN commitGrp[u] /\ commitGrp[u][s] = "NOT_DECIDED"
        /\ commitGrp'[u] = grp
        /\ \A v \in Trans \ {u} : commitGrp'[v] = commitGrp[v]
        /\ decision' = [decision EXCEPT ![u] = AfterVote(decision[u], vote)]
    BY <1>0, <1>3, VoteCounts DEF CountVote
  <2>2. decision \in [Trans -> Decisions]
    BY <1>0 DEF TypeOK, TranLayerTypeOK
  <2>3. CASE t # u
    <3>1. decision'[t] = decision[t]
      BY <2>1, <2>2, <2>3
    <3> QED BY <1>1, <2>1, <2>3, <3>1
  <2>4. CASE t = u
    <3>1. /\ decision'[t] = AfterVote(decision[t], vote)
          /\ commitGrp'[t] = [commitGrp[t] EXCEPT ![s] = vote]
      BY <2>1, <2>2, <2>4
    <3>2. /\ DOMAIN commitGrp'[t] = DOMAIN commitGrp[t]
          /\ commitGrp'[t][s] = vote
          /\ \A r \in DOMAIN commitGrp[t] \ {s} : commitGrp'[t][r] = commitGrp[t][r]
      BY <2>1, <2>4, <3>1
    <3>3. decision[t] = "ABORT" <=>
            \E r \in DOMAIN commitGrp[t] : commitGrp[t][r] = "ABORT"
      BY DEF DecisionOfVotes
    <3> HIDE DEF vote
    <3>4. /\ decision'[t] # "NOT_DECIDED"
          /\ decision'[t] = "ABORT" <=> decision[t] = "ABORT" \/ vote = "ABORT"
      BY <2>1, <3>1 DEF AfterVote
    <3> QED BY <2>1, <2>4, <3>2, <3>3, <3>4
  <2> QED BY <2>3, <2>4
<1>4. CASE \/ \E f \in Flights : RequestFlight(f)
           \/ \E m \in Agencies, s \in Servers : RequestTransaction(m, s)
           \/ \E s \in Servers : ApplyCommand(s)
           \/ \E s \in Servers, u \in Trans : Expire(s, u)
           \/ UNCHANGED vars
  BY <1>1, <1>4 DEF RequestFlight, RequestTransaction, Returned, ApplyCommand,
                    Expire, vars, tranLayerVars
<1> QED BY <1>2, <1>3, <1>4 DEF Next

LEMMA CallsStep ==
  Counted /\ CallsAfterVotes /\ [Next]_vars => CallsAfterVotes'
<1> SUFFICES ASSUME Counted, CallsAfterVotes, [Next]_vars,
                    NEW m \in Agencies, call'[m] \notin {Idle, Blocked}
             PROVE  /\ call'[m].why = "complete" =>
                         /\ call'[m].tran \notin activeTransMap'
                         /\ AllVoted(commitGrp'[call'[m].tran])
                    /\ call'[m].why = "expire" => call'[m].tran \in expired'
  BY DEF CallsAfterVotes, AllVoted
<1> DEFINE P == /\ call'[m].why = "complete" =>
                     /\ call'[m].tran \notin activeTransMap'
                     /\ AllVoted(commitGrp'[call'[m].tran])
                /\ call'[m].why = "expire" => call'[m].tran \in expired'
<1>0. TypeOK /\ Enlisted /\ Polled /\ Awaited /\ TranLayerTypeOK
  BY DEF Counted, TypeOK
<1>1. ASSUME call[m] \notin {Idle, Blocked}, call'[m].why = call[m].why,
             call'[m].tran = call[m].tran
      PROVE  P
  <2>1. call[m].tran \in Trans /\ Started(call[m].tran)
    BY <1>0, <1>1, CallUnderWay
  <2>2. /\ call[m].why = "complete" => /\ call[m].tran \notin activeTransMap
                                       /\ AllVoted(commitGrp[call[m].tran])
        /\ call[m].why = "expire" => call[m].tran \in expired
    BY <1>1 DEF CallsAfterVotes
  <2>3. /\ expired \subseteq expired'
        /\ call[m].tran \notin activeTransMap =>
             /\ call[m].tran \notin activeTransMap'
             /\ commitGrp'[call[m].tran] = commitGrp[call[m].tran]
    BY <2>1, OverStays
  <2> QED BY <1>1, <2>2, <2>3
<1>2. ASSUME call'[m] = call[m] PROVE P
  BY <1>1, <1>2
<1>3. ASSUME NEW u \in Trans, ManageTransaction(u) PROVE P
  <2>0. TM[u] \in Agencies
    BY TransFacts
  <2>1. CASE BookingFlights(u) \/ InitTrans(u)
    BY <1>2, <2>1 DEF BookingFlights, InitTrans
  <2>2. CASE SendOrder(u)
    <3>1. call' = [call EXCEPT ![TM[u]] = [why |-> "init", tran |-> u,
                                           todo |-> <<Head(orderList[u])>>]]
      BY <2>2 DEF SendOrder
    <3>2. call'[m] = call[m] \/ call'[m].why = "init"
      BY <1>0, <2>0, <3>1 DEF TranLayerTypeOK
    <3> QED BY <1>2, <3>2
  <2>3. CASE ExpireTrans(u)
    <3>1. CASE UNCHANGED call
      BY <1>2, <3>1
    <3>2. ASSUME u \in expired', NEW todo \in SetToSeqs(CommitVoters(commitGrp[u])),
                 Continue(TM[u], [why |-> "expire", tran |-> u, todo |-> todo],
                          decision[u])
          PROVE  P
      <4> DEFINE c == [why |-> "expire", tran |-> u, todo |-> todo]
      <4>1. Started(u) /\ decision[u] \in Decisions
        BY <1>0, <2>3, ExpireTransHandles DEF TranLayerTypeOK
      <4>2. c \in AnyCall /\ c.why = "expire" /\ c.tran = u
        BY <1>0, <4>1, VotersCalled
      <4> HIDE DEF c
      <4>3. Continue(TM[u], c, decision[u])
        BY <3>2 DEF c
      <4>4. call'[m] = call[m] \/ call'[m] = c
        BY <1>0, <2>0, <4>1, <4>2, <4>3, ContinueEffect
      <4> QED BY <1>2, <3>2, <4>2, <4>4
    <3> QED BY <2>3, <3>1, <3>2 DEF ExpireTrans
  <2> QED BY <1>3, <2>1, <2>2, <2>3 DEF ManageTransaction
<1>4. ASSUME NEW k \in Agencies, NEW s \in Servers, RequestTransaction(k, s) PROVE P
  <2>1. call[k] \notin {Idle, Blocked} /\ Returned(k)
    BY <1>4 DEF RequestTransaction
  <2>2. /\ Handling(k, call[k].tran)
        /\ call'[k] \in {Idle, Blocked}
           \/ call'[k] = [why |-> call[k].why, tran |-> call[k].tran,
                          todo |-> Tail(call[k].todo)]
    BY <1>0, <2>1, ReturnedHandles
  <2>3. CASE m = k
    BY <1>1, <2>1, <2>2, <2>3
  <2>4. CASE m # k
    BY <1>2, <2>2, <2>4 DEF Handling
  <2> QED BY <2>3, <2>4
<1>5. ASSUME NEW s \in Servers, Vote(s) PROVE P
  <2> DEFINE u    == storeHandler[s].tran
             vote == storeHandler[s].vote
             grp  == [commitGrp[u] EXCEPT ![s] = vote]
             d    == AfterVote(decision[u], vote)
  <2>1. /\ u \in Trans /\ vote \in {"COMMIT", "ABORT"} /\ Started(u)
        /\ CountVote(TM[u], u, s, vote) /\ commitGrp'[u] = grp
        /\ DOMAIN grp = DOMAIN commitGrp[u]
    BY <1>0, <1>5, VoteCounts
  <2>2. \/ UNCHANGED call
        \/ /\ AllVoted(grp)
           /\ activeTransMap' = activeTransMap \ {u}
           /\ \E todo \in SetToSeqs(CommitVoters(grp)) :
                Continue(TM[u], [why |-> "complete", tran |-> u, todo |-> todo], d)
    BY <2>1 DEF CountVote
  <2>3. TM[u] \in Agencies /\ d \in Decisions
    BY <1>0, <2>1, TransFacts DEF AfterVote, TranLayerTypeOK, Decisions
  <2> HIDE DEF u, vote, grp, d
  <2>4. ASSUME AllVoted(grp), activeTransMap' = activeTransMap \ {u},
               NEW todo \in SetToSeqs(CommitVoters(grp)),
               Continue(TM[u], [why |-> "complete", tran |-> u, todo |-> todo], d)
        PROVE  P
    <3> DEFINE c == [why |-> "complete", tran |-> u, todo |-> todo]
    <3>1. c \in AnyCall /\ c.why = "complete" /\ c.tran = u
      BY <1>0, <2>1, VotersCalled
    <3> HIDE DEF c
    <3>2. Continue(TM[u], c, d)
      BY <2>4 DEF c
    <3>3. call'[m] = call[m] \/ call'[m] = c
      BY <1>0, <2>3, <3>1, <3>2, ContinueEffect
    <3> QED BY <1>2, <2>1, <2>4, <3>1, <3>3
  <2> QED BY <1>2, <2>2, <2>4
<1>6. CASE \/ \E f \in Flights : RequestFlight(f)
           \/ \E s \in Servers : ApplyCommand(s)
           \/ \E s \in Servers, u \in Trans : Expire(s, u)
           \/ UNCHANGED vars
  BY <1>2, <1>6 DEF RequestFlight, ApplyCommand, Expire, vars, tranLayerVars
<1> QED BY <1>3, <1>4, <1>5, <1>6 DEF Next

LEMMA CommitAgreedStep ==
  Counted /\ Decided /\ [Next]_vars => CommitAgreed'
<1> SUFFICES ASSUME Counted, Decided, [Next]_vars PROVE CommitAgreed'
  OBVIOUS
<1>0. /\ TypeOK /\ Enlisted /\ Polled /\ Awaited
      /\ DecisionOfVotes /\ CallsAfterVotes /\ CommitAgreed
  BY DEF Counted, Decided
<1>1. ASSUME NEW t \in Trans, Started(t), t \in expired \/ Agreed(t)
      PROVE  /\ client'[t] \notin {"new", "calling"}
             /\ t \in expired' \/ Agreed(t)'
  BY <1>1, OverStays DEF Agreed
<1>2. ASSUME NEW a \in Airlines, NEW c \in proposed[a], c.op = "RESPONSE"
      PROVE  c.tran \in Trans /\ Started(c.tran) /\ c.own \in Servers
  <2>1. c \in Command
    BY <1>0 DEF TypeOK, NetTypeOK
  <2> QED BY <1>0, <1>2, <2>1 DEF Enlisted, CommandsOfParticipants, Command
<1>3. ASSUME \A a \in Airlines : \A c \in proposed'[a] :
               c \in proposed[a]
               \/ (c.op = "RESPONSE" /\ c.vote = "COMMIT" =>
                     /\ c.tran \in Trans /\ Started(c.tran)
                     /\ c.tran \in expired \/ Agreed(c.tran)),
             \A s \in Servers, t \in Trans :
               oldLog'[s][t] = "COMMIT" =>
                 Started(t) /\ (t \in expired \/ Agreed(t))
      PROVE  CommitAgreed'
  <2>1. ASSUME NEW a \in Airlines, NEW c \in proposed'[a],
               c.op = "RESPONSE", c.vote = "COMMIT"
        PROVE  c.tran \in expired' \/ Agreed(c.tran)'
    <3>1. /\ c.tran \in Trans /\ Started(c.tran)
          /\ c.tran \in expired \/ Agreed(c.tran)
      BY <1>0, <1>2, <1>3, <2>1 DEF CommitAgreed
    <3> QED BY <1>1, <3>1
  <2>2. ASSUME NEW s \in Servers, NEW t \in Trans, oldLog'[s][t] = "COMMIT"
        PROVE  Started(t)' /\ (t \in expired' \/ Agreed(t)')
    <3>1. Started(t) /\ (t \in expired \/ Agreed(t))
      BY <1>3, <2>2
    <3> QED BY <1>1, <3>1 DEF Started
  <2> QED BY <2>1, <2>2 DEF CommitAgreed
<1>4. \A s \in Servers, t \in Trans :
        oldLog[s][t] = "COMMIT" => Started(t) /\ (t \in expired \/ Agreed(t))
  BY <1>0 DEF CommitAgreed
<1>5. ASSUME UNCHANGED oldLog, \A a \in Airlines : proposed'[a] \subseteq proposed[a]
      PROVE  CommitAgreed'
  BY <1>3, <1>4, <1>5
<1>6. CASE \E t \in Trans : ManageTransaction(t)
  BY <1>5, <1>6 DEF ManageTransaction, netVars, airlineVars
<1>7. ASSUME NEW f \in Flights, RequestFlight(f) PROVE CommitAgreed'
  <2>1. UNCHANGED oldLog
    BY <1>7 DEF RequestFlight, airlineVars
  <2> QED BY <1>0, <1>3, <1>4, <1>7, <2>1, EnlistedRequestFlight
<1>8. ASSUME NEW m \in Agencies, NEW s \in Servers, RequestTransaction(m, s)
      PROVE  CommitAgreed'
  <2> DEFINE new == Asked(m, s)
             u   == call[m].tran
  <2>1. /\ call[m] \notin {Idle, Blocked} /\ ProposeCommand(new) /\ UNCHANGED oldLog
    BY <1>8 DEF RequestTransaction, airlineVars
  <2>2. /\ u \in Trans /\ Started(u)
        /\ new \in Command /\ new.tran = u
        /\ call[m].why = "init" => new = InitCmd(u, s)
        /\ call[m].why # "init" => /\ new.op = "RESPONSE"
                                   /\ new.vote = decision[u]
    BY <1>0, <2>1, AskedType, CallUnderWay
  <2> HIDE DEF new
  <2>3. \A a \in Airlines : \A c \in proposed'[a] : c \in proposed[a] \/ c = new
    BY <1>0, <2>1, <2>2, NetTypePropose DEF TypeOK
  <2>4. ASSUME new.op = "RESPONSE", new.vote = "COMMIT"
        PROVE  u \in expired \/ Agreed(u)
    <3>1. call[m].why \in {"complete", "expire"}
      <4>1. call[m].why \in {"init", "complete", "expire"}
        BY <1>0, <2>1, CallFields DEF TypeOK
      <4>2. call[m].why # "init"
        BY <2>2, <2>4 DEF InitCmd
      <4> QED BY <4>1, <4>2
    <3>2. decision[u] = "COMMIT"
      BY <2>2, <2>4, <3>1
    <3>3. CASE call[m].why = "expire"
      BY <1>0, <2>1, <3>3 DEF CallsAfterVotes
    <3>4. CASE call[m].why = "complete"
      <4>1. u \notin activeTransMap /\ AllVoted(commitGrp[u])
        BY <1>0, <2>1, <3>4 DEF CallsAfterVotes
      <4>2. \A r \in DOMAIN commitGrp[u] : commitGrp[u][r] # "ABORT"
        BY <1>0, <2>2, <3>2 DEF DecisionOfVotes
      <4>3. \A r \in DOMAIN commitGrp[u] : commitGrp[u][r] \in Decisions
        <5>1. DOMAIN <<>> = {}
          OBVIOUS
        <5> QED BY <1>0, <2>2, <5>1 DEF TypeOK, TranLayerTypeOK
      <4> QED BY <4>1, <4>2, <4>3 DEF Agreed, AllVoted, Decisions
    <3> QED BY <3>1, <3>3, <3>4
  <2> QED BY <1>3, <1>4, <2>1, <2>2, <2>3, <2>4
<1>9. CASE \E s \in Servers : Vote(s)
  BY <1>5, <1>9 DEF Vote, Voted, netVars
<1>10. ASSUME NEW s \in Servers, ApplyCommand(s) PROVE CommitAgreed'
  <2>1. PICK c \in Pending(s) : Execute(s, c)
    BY <1>10 DEF ApplyCommand
  <2>2. /\ HandOver(s, c)
        /\ \/ c.op = "CREATE" /\ CreateFlight(s, c.flight)
           \/ c.op = "INIT" /\ InitTransaction(s, c.tran, c.own)
           \/ c.op = "RESPONSE" /\ ResponseTransaction(s, c.tran, c.vote)
    BY <2>1 DEF Execute
  <2>3. /\ AirlineOf[s] \in Airlines /\ c \in proposed[AirlineOf[s]]
        /\ UNCHANGED proposed
    BY <1>0, <2>2, NetTypeHandOver DEF TypeOK
  <2>4. \/ UNCHANGED oldLog
        \/ c.op = "RESPONSE" /\ oldLog' = [oldLog EXCEPT ![s][c.tran] = c.vote]
    BY <2>2 DEF CreateFlight, InitTransaction, ResponseTransaction
  <2>5. ASSUME c.op = "RESPONSE", oldLog' = [oldLog EXCEPT ![s][c.tran] = c.vote],
               NEW r \in Servers, NEW t \in Trans, oldLog'[r][t] = "COMMIT"
        PROVE  Started(t) /\ (t \in expired \/ Agreed(t))
    <3>1. oldLog[r][t] = "COMMIT" \/ (t = c.tran /\ c.vote = "COMMIT")
      BY <1>0, <2>5 DEF TypeOK, AirlineTypeOK
    <3>2. c.tran \in Trans /\ Started(c.tran)
      BY <1>2, <2>3, <2>5
    <3>3. c.vote = "COMMIT" => c.tran \in expired \/ Agreed(c.tran)
      BY <1>0, <2>3, <2>5 DEF CommitAgreed
    <3> QED BY <1>4, <3>1, <3>2, <3>3
  <2> QED BY <1>3, <1>4, <2>3, <2>4, <2>5
<1>11. CASE \E s \in Servers, t \in Trans : Expire(s, t)
  BY <1>5, <1>11 DEF Expire, ExpireTransaction, netVars
<1>12. CASE UNCHANGED vars
  BY <1>5, <1>12 DEF vars, netVars, airlineVars
<1> QED BY <1>6, <1>7, <1>8, <1>9, <1>10, <1>11, <1>12 DEF Next

LEMMA DecidedInvariant == Spec => [](Counted /\ Decided)
<1>1. Init => Counted /\ Decided
  BY TypeInit, EnlistedInit, VotesInit, DecidedInit DEF Counted
<1>2. Counted /\ Decided /\ [Next]_vars => (Counted /\ Decided)'
  BY CountedStep, DecisionStep, CallsStep, CommitAgreedStep DEF Decided
<1> QED BY <1>1, <1>2, PTL DEF Spec

\* No airline commits what another one refuses unless the timer of the TM went
\* off before the votes were in.
THEOREM AtomicBeforeTimeout == Spec => []AtomicUnlessExpired
<1>1. Decided => AtomicUnlessExpired
  BY DEF Decided, CommitAgreed, AtomicUnlessExpired, Torn, Agreed
<1> QED BY <1>1, DecidedInvariant, PTL


-----------------------------------------------------------------------------
(* Seats.                                                                  *)

LEMMA CommittedFinite ==
  ASSUME NEW s \in Servers, NEW f, NEW n
  PROVE  /\ IsFiniteSet(CommittedFor(s, f, n))
         /\ Cardinality(CommittedFor(s, f, n)) \in Nat
<1>1. CommittedFor(s, f, n) \subseteq Trans
  BY DEF CommittedFor
<1> QED BY <1>1, TransAssumption, FS_Subset, FS_CardinalityType

\* What is locked besides makes no difference.
LEMMA AccountsSame ==
  ASSUME NEW s \in Servers, Accounts(s), slot'[s] = slot[s],
         lockBuf[s] \subseteq lockBuf'[s], oldLog'[s] = oldLog[s],
         \A t \in Trans : Prepared(s, t)' = Prepared(s, t)
  PROVE  Accounts(s)'
<1>1. PreparedLocked(s)'
  BY DEF Accounts, PreparedLocked
<1>2. CommittedKnown(s)'
  BY DEF Accounts, CommittedKnown
<1>3. SeatsRight(s)'
  BY DEF Accounts, SeatsRight, CommittedFor
<1> QED BY <1>1, <1>2, <1>3 DEF Accounts

LEMMA AccountsCreate ==
  ASSUME NEW s \in Servers, NEW f \in Flights, Accounts(s),
         slot'[s] = [g \in DOMAIN slot[s] \cup {f} |->
                       IF g \in DOMAIN slot[s] THEN slot[s][g] ELSE Seats[f]],
         lockBuf'[s] = lockBuf[s], oldLog'[s] = oldLog[s],
         \A t \in Trans : Prepared(s, t)' = Prepared(s, t)
  PROVE  Accounts(s)'
<1>1. /\ DOMAIN slot'[s] = DOMAIN slot[s] \cup {f}
      /\ \A g \in DOMAIN slot[s] : slot'[s][g] = slot[s][g]
      /\ f \notin DOMAIN slot[s] => slot'[s][f] = Seats[f]
  OBVIOUS
<1>2. PreparedLocked(s)'
  BY <1>1 DEF Accounts, PreparedLocked
<1>3. CommittedKnown(s)'
  BY <1>1 DEF Accounts, CommittedKnown
<1>4. \A g, n : CommittedFor(s, g, n)' = CommittedFor(s, g, n)
  BY DEF CommittedFor
<1>5. ASSUME f \notin DOMAIN slot[s], NEW n PROVE CommittedFor(s, f, n) = {}
  BY <1>5 DEF Accounts, CommittedKnown, CommittedFor
<1>6. Seats[f] \in Nat /\ Cardinality({}) = 0
  BY ServersAssumption, FS_EmptySet
<1>7. SeatsRight(s)'
  <2> SUFFICES ASSUME NEW g \in DOMAIN slot'[s]
               PROVE  /\ slot'[s][g] >= 0
                      /\ slot'[s][g] = Seats[g] - Cardinality(CommittedFor(s, g, 1))
                                                + Cardinality(CommittedFor(s, g, -1))
    BY <1>4 DEF SeatsRight
  <2>1. CASE g \in DOMAIN slot[s]
    BY <1>1, <2>1 DEF Accounts, SeatsRight
  <2>2. CASE g \notin DOMAIN slot[s]
    <3>1. g = f /\ slot'[s][g] = Seats[f]
      BY <1>1, <2>2
    <3>2. CommittedFor(s, g, 1) = {} /\ CommittedFor(s, g, -1) = {}
      BY <1>5, <2>2, <3>1
    <3>3. /\ slot'[s][g] = Seats[g] /\ Seats[g] \in Nat
          /\ Cardinality(CommittedFor(s, g, 1)) = 0
          /\ Cardinality(CommittedFor(s, g, -1)) = 0
      BY <1>6, <3>1, <3>2
    <3> QED BY <3>3
  <2> QED BY <2>1, <2>2
<1> QED BY <1>2, <1>3, <1>7 DEF Accounts

\* t is prepared: its flights were not locked.
LEMMA AccountsPrepare ==
  ASSUME NEW s \in Servers, NEW t \in Trans, Accounts(s), NEW taken,
         taken = ToSet(Order(s, t)), oldLog[s][t] # "COMMIT",
         \A f \in taken : /\ f \in DOMAIN slot[s] /\ f \notin lockBuf[s]
                          /\ slot[s][f] - Amount[t] >= 0,
         slot'[s] = slot[s], oldLog'[s] = oldLog[s],
         lockBuf'[s] = lockBuf[s] \cup taken,
         Prepared(s, t)' = [f \in taken |-> slot[s][f] - Amount[t]],
         \A u \in Trans \ {t} : Prepared(s, u)' = Prepared(s, u)
  PROVE  Accounts(s)'
<1>1. ASSUME NEW u \in Trans, u # t, NEW f \in DOMAIN Prepared(s, u)
      PROVE  f \notin taken
  BY <1>1 DEF Accounts, PreparedLocked
<1>2. /\ DOMAIN Prepared(s, t)' = taken
      /\ \A f \in taken : Prepared(s, t)'[f] = slot[s][f] - Amount[t]
  OBVIOUS
<1>3. PreparedLocked(s)'
  <2> SUFFICES ASSUME NEW u \in Trans
               PROVE  /\ DOMAIN Prepared(s, u)' # {} =>
                           /\ DOMAIN Prepared(s, u)' = ToSet(Order(s, u))
                           /\ oldLog[s][u] # "COMMIT"
                      /\ \A f \in DOMAIN Prepared(s, u)' :
                           /\ f \in lockBuf'[s]
                           /\ f \in DOMAIN slot[s]
                           /\ Prepared(s, u)'[f] = slot[s][f] - Amount[u]
                           /\ Prepared(s, u)'[f] >= 0
                           /\ \A v \in Trans : f \in DOMAIN Prepared(s, v)' => v = u
    BY DEF PreparedLocked, Order
  <2>1. CASE u = t
    BY <1>1, <1>2, <2>1
  <2>2. CASE u # t
    <3>1. Prepared(s, u)' = Prepared(s, u)
      BY <2>2
    <3>2. ASSUME NEW f \in DOMAIN Prepared(s, u), NEW v \in Trans,
                 f \in DOMAIN Prepared(s, v)'
          PROVE  v = u
      <4>1. v # t
        BY <1>1, <1>2, <2>2, <3>2
      <4>2. f \in DOMAIN Prepared(s, v)
        BY <3>2, <4>1
      <4> QED BY <3>2, <4>2 DEF Accounts, PreparedLocked
    <3>3. /\ DOMAIN Prepared(s, u) # {} =>
               /\ DOMAIN Prepared(s, u) = ToSet(Order(s, u))
               /\ oldLog[s][u] # "COMMIT"
          /\ \A f \in DOMAIN Prepared(s, u) :
               /\ f \in lockBuf[s] /\ f \in DOMAIN slot[s]
               /\ Prepared(s, u)[f] = slot[s][f] - Amount[u]
               /\ Prepared(s, u)[f] >= 0
      BY DEF Accounts, PreparedLocked
    <3> QED BY <3>1, <3>2, <3>3
  <2> QED BY <2>1, <2>2
<1>4. CommittedKnown(s)'
  BY DEF Accounts, CommittedKnown
<1>5. SeatsRight(s)'
  BY DEF Accounts, SeatsRight, CommittedFor
<1> QED BY <1>3, <1>4, <1>5 DEF Accounts

\* t is over: what was prepared takes effect if it is committed, and its
\* flights are free again.
LEMMA AccountsDecide ==
  ASSUME NEW s \in Servers, NEW t \in Trans, NEW vote \in Decisions, Accounts(s),
         TypeOK, NEW new, new = Prepared(s, t),
         slot'[s] = IF vote = "COMMIT"
                    THEN [f \in DOMAIN slot[s] |->
                            IF f \in DOMAIN new THEN new[f] ELSE slot[s][f]]
                    ELSE slot[s],
         lockBuf'[s] = lockBuf[s] \ DOMAIN new,
         oldLog'[s] = IF DOMAIN new # {} THEN [oldLog[s] EXCEPT ![t] = vote]
                                         ELSE oldLog[s],
         DOMAIN Prepared(s, t)' = {},
         \A u \in Trans \ {t} : Prepared(s, u)' = Prepared(s, u)
  PROVE  Accounts(s)'
<1>0. /\ oldLog[s] \in [Trans -> Decisions] /\ slot[s] \in [DOMAIN slot[s] -> Int]
      /\ DOMAIN slot[s] \subseteq Flights /\ Amount[t] \in {1, -1}
  BY TransAssumption DEF TypeOK, AirlineTypeOK
<1>1. /\ DOMAIN new # {} => DOMAIN new = ToSet(Order(s, t)) /\ oldLog[s][t] # "COMMIT"
      /\ \A f \in DOMAIN new :
           /\ f \in DOMAIN slot[s]
           /\ new[f] = slot[s][f] - Amount[t] /\ new[f] >= 0
           /\ \A u \in Trans : f \in DOMAIN Prepared(s, u) => u = t
  BY DEF Accounts, PreparedLocked
<1>2. /\ DOMAIN slot'[s] = DOMAIN slot[s]
      /\ \A f \in DOMAIN slot[s] : f \notin DOMAIN new => slot'[s][f] = slot[s][f]
      /\ \A u \in Trans \ {t} : oldLog'[s][u] = oldLog[s][u]
      /\ oldLog'[s][t] = IF DOMAIN new # {} THEN vote ELSE oldLog[s][t]
  BY <1>0
<1>3. PreparedLocked(s)'
  <2> SUFFICES ASSUME NEW u \in Trans
               PROVE  /\ DOMAIN Prepared(s, u)' # {} =>
                           /\ DOMAIN Prepared(s, u)' = ToSet(Order(s, u))
                           /\ oldLog'[s][u] # "COMMIT"
                      /\ \A f \in DOMAIN Prepared(s, u)' :
                           /\ f \in lockBuf'[s]
                           /\ f \in DOMAIN slot'[s]
                           /\ Prepared(s, u)'[f] = slot'[s][f] - Amount[u]
                           /\ Prepared(s, u)'[f] >= 0
                           /\ \A v \in Trans : f \in DOMAIN Prepared(s, v)' => v = u
    BY DEF PreparedLocked, Order
  <2>1. CASE u = t
    BY <2>1
  <2>2. CASE u # t
    <3>1. Prepared(s, u)' = Prepared(s, u) /\ oldLog'[s][u] = oldLog[s][u]
      BY <1>2, <2>2
    <3>2. ASSUME NEW f \in DOMAIN Prepared(s, u), NEW v \in Trans,
                 f \in DOMAIN Prepared(s, v)'
          PROVE  v = u
      <4>1. f \in DOMAIN Prepared(s, v)
        BY <3>2
      <4> QED BY <3>2, <4>1 DEF Accounts, PreparedLocked
    <3>3. /\ DOMAIN Prepared(s, u) # {} =>
               /\ DOMAIN Prepared(s, u) = ToSet(Order(s, u))
               /\ oldLog[s][u] # "COMMIT"
          /\ \A f \in DOMAIN Prepared(s, u) :
               /\ f \in lockBuf[s] /\ f \in DOMAIN slot[s]
               /\ Prepared(s, u)[f] = slot[s][f] - Amount[u]
               /\ Prepared(s, u)[f] >= 0
      BY DEF Accounts, PreparedLocked
    <3>4. \A f \in DOMAIN Prepared(s, u) : f \notin DOMAIN new
      BY <1>1, <2>2
    <3> QED BY <1>2, <3>1, <3>2, <3>3, <3>4
  <2> QED BY <2>1, <2>2
<1>4. CommittedKnown(s)'
  <2> SUFFICES ASSUME NEW u \in Trans, oldLog'[s][u] = "COMMIT"
               PROVE  ToSet(Order(s, u)) \subseteq DOMAIN slot'[s]
    BY DEF CommittedKnown, Order
  <2> QED BY <1>1, <1>2 DEF Accounts, CommittedKnown
<1>5. ASSUME NEW f, NEW n, n # Amount[t] \/ DOMAIN new = {} \/ vote # "COMMIT" \/ f \notin DOMAIN new
      PROVE  CommittedFor(s, f, n)' = CommittedFor(s, f, n)
  <2>1. \A u \in Trans : Amount[u] = n /\ f \in ToSet(Order(s, u)) =>
                           (oldLog'[s][u] = "COMMIT" <=> oldLog[s][u] = "COMMIT")
    BY <1>1, <1>2, <1>5
  <2> QED BY <2>1 DEF CommittedFor, Order
<1>6. ASSUME NEW f \in DOMAIN new, vote = "COMMIT"
      PROVE  Cardinality(CommittedFor(s, f, Amount[t]))'
               = Cardinality(CommittedFor(s, f, Amount[t])) + 1
  <2>1. /\ f \in ToSet(Order(s, t)) /\ oldLog[s][t] # "COMMIT"
        /\ oldLog'[s][t] = "COMMIT"
    BY <1>1, <1>2, <1>6
  <2>2. CommittedFor(s, f, Amount[t])' = CommittedFor(s, f, Amount[t]) \cup {t}
    BY <1>2, <2>1 DEF CommittedFor, Order
  <2>3. t \notin CommittedFor(s, f, Amount[t])
    BY <2>1 DEF CommittedFor
  <2> QED BY <2>2, <2>3, CommittedFinite, FS_AddElement
<1>7. SeatsRight(s)'
  <2> SUFFICES ASSUME NEW f \in DOMAIN slot[s]
               PROVE  /\ slot'[s][f] >= 0
                      /\ slot'[s][f] = Seats[f] - Cardinality(CommittedFor(s, f, 1))'
                                                + Cardinality(CommittedFor(s, f, -1))'
    BY <1>2 DEF SeatsRight
  <2>1. /\ slot[s][f] >= 0 /\ slot[s][f] \in Int
        /\ slot[s][f] = Seats[f] - Cardinality(CommittedFor(s, f, 1))
                                 + Cardinality(CommittedFor(s, f, -1))
    BY <1>0 DEF Accounts, SeatsRight
  <2>2. /\ Cardinality(CommittedFor(s, f, 1)) \in Nat
        /\ Cardinality(CommittedFor(s, f, -1)) \in Nat
        /\ Seats[f] \in Int
    BY <1>0, CommittedFinite, ServersAssumption
  <2>3. CASE vote = "COMMIT" /\ f \in DOMAIN new
    <3>1. slot'[s][f] = slot[s][f] - Amount[t] /\ slot'[s][f] >= 0
      BY <1>1, <2>3
    <3>2. CASE Amount[t] = 1
      <4>1. /\ Cardinality(CommittedFor(s, f, 1))' = Cardinality(CommittedFor(s, f, 1)) + 1
            /\ CommittedFor(s, f, -1)' = CommittedFor(s, f, -1)
        BY <1>5, <1>6, <2>3, <3>2
      <4> QED BY <2>1, <2>2, <3>1, <3>2, <4>1
    <3>3. CASE Amount[t] = -1
      <4>1. /\ Cardinality(CommittedFor(s, f, -1))' = Cardinality(CommittedFor(s, f, -1)) + 1
            /\ CommittedFor(s, f, 1)' = CommittedFor(s, f, 1)
        BY <1>5, <1>6, <2>3, <3>3
      <4> QED BY <2>1, <2>2, <3>1, <3>3, <4>1
    <3> QED BY <1>0, <3>2, <3>3
  <2>4. CASE ~(vote = "COMMIT" /\ f \in DOMAIN new)
    <3>1. slot'[s][f] = slot[s][f]
      BY <1>2, <2>4
    <3>2. \A n : CommittedFor(s, f, n)' = CommittedFor(s, f, n)
      BY <1>5, <2>4
    <3> QED BY <2>1, <3>1, <3>2
  <2> QED BY <2>3, <2>4
<1> QED BY <1>3, <1>4, <1>7 DEF Accounts

LEMMA BooksInit == Init => \A s \in Servers : Books(s)
<1> SUFFICES ASSUME Init, NEW s \in Servers PROVE Books(s)
  OBVIOUS
<1>1. /\ slot[s] = [f \in Created \cap FlightsOf[AirlineOf[s]] |-> Seats[f]]
      /\ ~Voting(s)
      /\ \A t \in Trans : logBuf[s][t] = <<>> /\ oldLog[s][t] = "NOT_DECIDED"
  BY DEF Init, AirlineInit, Voting, Waiting
<1>2. \A t \in Trans : DOMAIN Prepared(s, t) = {}
  <2>1. DOMAIN <<>> = {}
    OBVIOUS
  <2> QED BY <1>1, <2>1 DEF Prepared
<1>3. PartAfterInit(s) /\ VotingIsNew(s)
  BY <1>1 DEF PartAfterInit, VotingIsNew
<1>4. PreparedLocked(s)
  BY <1>2 DEF PreparedLocked
<1>5. CommittedKnown(s)
  BY <1>1 DEF CommittedKnown
<1>6. SeatsRight(s)
  <2> SUFFICES ASSUME NEW f \in DOMAIN slot[s]
               PROVE  /\ slot[s][f] >= 0
                      /\ slot[s][f] = Seats[f] - Cardinality(CommittedFor(s, f, 1))
                                               + Cardinality(CommittedFor(s, f, -1))
    BY DEF SeatsRight
  <2>1. CommittedFor(s, f, 1) = {} /\ CommittedFor(s, f, -1) = {}
    BY <1>1 DEF CommittedFor
  <2>2. slot[s][f] = Seats[f] /\ Seats[f] \in Nat
    BY <1>1, ServersAssumption
  <2>3. /\ Cardinality(CommittedFor(s, f, 1)) = 0
        /\ Cardinality(CommittedFor(s, f, -1)) = 0
    BY <2>1, FS_EmptySet
  <2> QED BY <2>2, <2>3
<1> QED BY <1>3, <1>4, <1>5, <1>6 DEF Books, Accounts

LEMMA OneOwner ==
  ASSUME Enlisted, NEW t \in Trans, NEW r \in ToSet(pptList[t]),
         NEW q \in ToSet(pptList[t]), AirlineOf[r] = AirlineOf[q]
  PROVE  r = q
BY DEF Enlisted, OneServerEach, ToSet

\* An order is new to a server that carries it out: it has no part in t yet.
LEMMA OrderIsNew ==
  ASSUME TypeOK, Enlisted, NEW s \in Servers, PartAfterInit(s),
         NEW c, HandOver(s, c), c.op = "INIT"
  PROVE  logBuf[s][c.tran] = <<>> /\ oldLog[s][c.tran] = "NOT_DECIDED"
<1> DEFINE a == AirlineOf[s]
<1>1. /\ a \in Airlines /\ c \in proposed[a] /\ c \notin Handed(s)
      /\ c \in Command /\ c.tran \in Trans
  BY NetTypeHandOver, NextCommand DEF TypeOK
<1>2. ASSUME NEW d \in Handed(s), d.op = "INIT", d.tran = c.tran
      PROVE  FALSE
  <2>1. d \in proposed[a]
    BY DEF Enlisted, HandedProposed
  <2>2. d \in Command
    BY <1>1, <2>1 DEF TypeOK, NetTypeOK
  <2>3. /\ AirlineOf[d.own] = AirlineOf[c.own]
        /\ d.own \in ToSet(pptList[c.tran])
        /\ c.own \in ToSet(pptList[c.tran])
    BY <1>1, <1>2, <2>1 DEF Enlisted, CommandsOfParticipants
  <2>4. d.own = c.own
    BY <1>1, <2>3, OneOwner
  <2>5. d = c
    BY <1>1, <1>2, <2>2, <2>4 DEF Command
  <2> QED BY <1>1, <2>5
<1> QED BY <1>1, <1>2 DEF PartAfterInit

LEMMA BooksFrame ==
  ASSUME TypeOK, NEW s \in Servers, Books(s),
         slot'[s] = slot[s], lockBuf'[s] = lockBuf[s], logBuf'[s] = logBuf[s],
         oldLog'[s] = oldLog[s], executed'[s] = executed[s],
         storeHandler'[s] = storeHandler[s] \/ (~Voting(s) /\ ~Voting(s)')
  PROVE  Books(s)'
<1>1. \A t \in Trans : Prepared(s, t)' = Prepared(s, t)
  BY DEF Prepared, Voting
<1>2. Accounts(s)'
  BY <1>1, AccountsSame DEF Books
<1>3. PartAfterInit(s)'
  BY DEF Books, PartAfterInit, Voting, Handed
<1>4. VotingIsNew(s)'
  BY DEF Books, VotingIsNew, Voting
<1> QED BY <1>2, <1>3, <1>4 DEF Books

\* The vote of s is taken: what it was to log it logs.
LEMMA BooksVoted ==
  ASSUME TypeOK, NEW s \in Servers, Books(s), Voting(s), Voted(s),
         UNCHANGED executed
  PROVE  Books(s)'
<1> DEFINE h == storeHandler[s]
<1>1. /\ storeHandler' = [storeHandler EXCEPT ![s] = Waiting]
      /\ UNCHANGED <<slot, lockBuf, oldLog>>
      /\ logBuf' = IF h.vote = "COMMIT" THEN [logBuf EXCEPT ![s][h.tran] = h.log]
                                        ELSE logBuf
  BY DEF Voted, LogVote
<1>2. h.tran \in Trans
  BY DEF TypeOK, AirlineTypeOK
<1>3. ~Voting(s)'
  BY <1>1 DEF Voting, Waiting, TypeOK, AirlineTypeOK
<1>4. \A t \in Trans : logBuf'[s][t] = IF h.vote = "COMMIT" /\ t = h.tran THEN h.log
                                                                    ELSE logBuf[s][t]
  BY <1>1, <1>2 DEF TypeOK, AirlineTypeOK
<1>5. \A t \in Trans : Prepared(s, t)' = Prepared(s, t)
  BY <1>3, <1>4 DEF Prepared
<1>6. Accounts(s)'
  BY <1>1, <1>5, AccountsSame DEF Books
<1>7. PartAfterInit(s)'
  <2> SUFFICES ASSUME NEW t \in Trans,
                      \/ logBuf'[s][t] # <<>>
                      \/ oldLog'[s][t] # "NOT_DECIDED"
                      \/ storeHandler'[s].at = "initTrans" /\ storeHandler'[s].tran = t
               PROVE  \E c \in Handed(s)' : c.op = "INIT" /\ c.tran = t
    BY DEF PartAfterInit, Voting
  <2>1. \/ logBuf[s][t] # <<>>
        \/ oldLog[s][t] # "NOT_DECIDED"
        \/ Voting(s) /\ storeHandler[s].tran = t
    BY <1>1, <1>3, <1>4 DEF Voting
  <2> QED BY <2>1 DEF Books, PartAfterInit, Handed
<1>8. VotingIsNew(s)'
  BY <1>3 DEF VotingIsNew
<1> QED BY <1>6, <1>7, <1>8 DEF Books

\* s carries out an order.
LEMMA BooksInitTransaction ==
  ASSUME TypeOK, NEW s \in Servers, NEW t \in Trans, NEW own, Books(s),
         Flies(s, t), storeHandler[s] = Waiting,
         logBuf[s][t] = <<>>, oldLog[s][t] = "NOT_DECIDED",
         InitTransaction(s, t, own), Handed(s) \subseteq Handed(s)',
         NEW init \in Handed(s)', init.op = "INIT", init.tran = t
  PROVE  Books(s)'
<1> DEFINE c == Claim(s, t)
<1>1. /\ slot'[s] = slot[s] /\ oldLog'[s] = oldLog[s]
      /\ lockBuf' = [lockBuf EXCEPT ![s] = c.locks]
      /\ \/ UNCHANGED <<logBuf, storeHandler>>
         \/ /\ storeHandler' = [storeHandler EXCEPT
                                  ![s] = [at |-> "initTrans", tran |-> t,
                                          vote |-> c.vote, log |-> c.log]]
            /\ UNCHANGED logBuf
         \/ /\ logBuf' = IF c.vote = "COMMIT" THEN [logBuf EXCEPT ![s][t] = c.log]
                                              ELSE logBuf
            /\ UNCHANGED storeHandler
  BY DEF InitTransaction, LogVote
<1>2. /\ c.vote \in {"COMMIT", "ABORT"}
      /\ c.vote = "COMMIT" => Taken(s, t) = ToSet(Order(s, t))
      /\ c.locks = lockBuf[s] \cup Taken(s, t)
      /\ c.log = [f \in Taken(s, t) |-> slot[s][f] - Amount[t]]
      /\ \A f \in Taken(s, t) : /\ f \in DOMAIN slot[s] /\ f \notin lockBuf[s]
                                /\ slot[s][f] - Amount[t] >= 0
  <2>1. /\ Taken(s, t) \subseteq DOMAIN slot[s]
        /\ \A f \in Taken(s, t) : f \notin lockBuf[s] /\ slot[s][f] >= Amount[t]
        /\ c.vote \in {"COMMIT", "ABORT"}
        /\ c.vote = "COMMIT" => Taken(s, t) = ToSet(Order(s, t))
        /\ c.locks = lockBuf[s] \cup Taken(s, t)
        /\ c.log = [f \in Taken(s, t) |-> slot[s][f] - Amount[t]]
    BY ClaimType DEF TypeOK
  <2>2. slot[s] \in [DOMAIN slot[s] -> Int] /\ Amount[t] \in Int
    BY TransAssumption DEF TypeOK, AirlineTypeOK
  <2> HIDE DEF c
  <2>3. \A f \in Taken(s, t) : slot[s][f] - Amount[t] >= 0
    BY <2>1, <2>2
  <2> QED BY <2>1, <2>3
<1> HIDE DEF c
<1>3. /\ lockBuf'[s] = lockBuf[s] \cup Taken(s, t)
      /\ ~Voting(s)
  BY <1>1, <1>2 DEF TypeOK, AirlineTypeOK, Voting, Waiting
<1>4. /\ \A u \in Trans \ {t} : logBuf'[s][u] = logBuf[s][u]
      /\ storeHandler'[s].at = "initTrans" =>
           /\ storeHandler'[s].tran = t /\ storeHandler'[s].vote = c.vote
           /\ storeHandler'[s].log = c.log /\ logBuf'[s][t] = <<>>
      /\ storeHandler'[s].at # "initTrans" =>
           logBuf'[s][t] = <<>> \/ (logBuf'[s][t] = c.log /\ c.vote = "COMMIT")
  <2>0. /\ storeHandler[s].at # "initTrans"
        /\ DOMAIN storeHandler = Servers /\ DOMAIN logBuf = Servers
        /\ DOMAIN logBuf[s] = Trans
    BY <1>3 DEF TypeOK, AirlineTypeOK, Voting
  <2>1. CASE UNCHANGED <<logBuf, storeHandler>>
    BY <2>0, <2>1
  <2>2. CASE /\ storeHandler' = [storeHandler EXCEPT
                                   ![s] = [at |-> "initTrans", tran |-> t,
                                           vote |-> c.vote, log |-> c.log]]
             /\ UNCHANGED logBuf
    BY <2>0, <2>2
  <2>3. CASE /\ logBuf' = IF c.vote = "COMMIT" THEN [logBuf EXCEPT ![s][t] = c.log]
                                               ELSE logBuf
             /\ UNCHANGED storeHandler
    <3>1. CASE c.vote = "COMMIT"
      <4>1. logBuf' = [logBuf EXCEPT ![s][t] = c.log]
        BY <2>3, <3>1
      <4> QED BY <2>0, <2>3, <3>1, <4>1
    <3>2. CASE c.vote # "COMMIT"
      BY <2>0, <2>3, <3>2
    <3> QED BY <3>1, <3>2
  <2> QED BY <1>1, <2>1, <2>2, <2>3
<1>5. PartAfterInit(s)'
  <2> SUFFICES ASSUME NEW u \in Trans,
                      \/ logBuf'[s][u] # <<>>
                      \/ oldLog'[s][u] # "NOT_DECIDED"
                      \/ storeHandler'[s].at = "initTrans" /\ storeHandler'[s].tran = u
               PROVE  \E d \in Handed(s)' : d.op = "INIT" /\ d.tran = u
    BY DEF PartAfterInit, Voting
  <2>1. CASE u = t
    BY <2>1
  <2>2. CASE u # t
    <3>1. logBuf[s][u] # <<>> \/ oldLog[s][u] # "NOT_DECIDED"
      BY <1>1, <1>4, <2>2
    <3>2. \E d \in Handed(s) : d.op = "INIT" /\ d.tran = u
      BY <3>1 DEF Books, PartAfterInit
    <3> QED BY <3>2
  <2> QED BY <2>1, <2>2
<1>6. VotingIsNew(s)'
  BY <1>1, <1>4 DEF VotingIsNew, Voting
<1>7. \A u \in Trans \ {t} : Prepared(s, u)' = Prepared(s, u)
  BY <1>3, <1>4 DEF Prepared, Voting
<1>8. Prepared(s, t)' = <<>> \/ (Prepared(s, t)' = c.log /\ c.vote = "COMMIT")
  <2>1. Prepared(s, t)' = IF /\ storeHandler'[s].at = "initTrans"
                             /\ storeHandler'[s].tran = t
                             /\ storeHandler'[s].vote = "COMMIT"
                          THEN storeHandler'[s].log ELSE logBuf'[s][t]
    BY DEF Prepared, Voting
  <2>2. CASE storeHandler'[s].at = "initTrans"
    BY <1>4, <2>1, <2>2
  <2>3. CASE storeHandler'[s].at # "initTrans"
    BY <1>4, <2>1, <2>3
  <2> QED BY <2>2, <2>3
<1>9. CASE Prepared(s, t)' = <<>>
  <2>1. Prepared(s, t) = <<>>
    BY <1>3 DEF Prepared
  <2> QED BY <1>1, <1>3, <1>5, <1>6, <1>7, <1>9, <2>1, AccountsSame DEF Books
<1>10. CASE Prepared(s, t)' = c.log /\ c.vote = "COMMIT"
  <2>1. Accounts(s)'
    BY <1>1, <1>2, <1>3, <1>7, <1>10, AccountsPrepare DEF Books
  <2> QED BY <1>5, <1>6, <2>1 DEF Books
<1> QED BY <1>8, <1>9, <1>10

LEMMA BooksResponseTransaction ==
  ASSUME TypeOK, NEW s \in Servers, NEW t \in Trans, NEW vote \in Decisions, Books(s),
         storeHandler[s] = Waiting, ResponseTransaction(s, t, vote),
         Handed(s) \subseteq Handed(s)'
  PROVE  Books(s)'
<1> DEFINE new == logBuf[s][t]
<1>1. /\ slot' = IF vote = "COMMIT"
                 THEN [slot EXCEPT ![s] = [f \in DOMAIN slot[s] |->
                         IF f \in DOMAIN new THEN new[f] ELSE slot[s][f]]]
                 ELSE slot
      /\ lockBuf' = [lockBuf EXCEPT ![s] = @ \ DOMAIN new]
      /\ logBuf' = [logBuf EXCEPT ![s][t] = <<>>]
      /\ oldLog' = IF DOMAIN new # {} THEN [oldLog EXCEPT ![s][t] = vote] ELSE oldLog
      /\ UNCHANGED storeHandler
  BY DEF ResponseTransaction
<1>2. ~Voting(s) /\ storeHandler'[s].at # "initTrans"
  BY <1>1 DEF Voting, Waiting, TypeOK, AirlineTypeOK
<1>3. /\ slot'[s] = IF vote = "COMMIT"
                    THEN [f \in DOMAIN slot[s] |->
                            IF f \in DOMAIN new THEN new[f] ELSE slot[s][f]]
                    ELSE slot[s]
      /\ lockBuf'[s] = lockBuf[s] \ DOMAIN new
      /\ oldLog'[s] = IF DOMAIN new # {} THEN [oldLog[s] EXCEPT ![t] = vote]
                                         ELSE oldLog[s]
      /\ logBuf'[s][t] = <<>>
      /\ \A u \in Trans \ {t} : logBuf'[s][u] = logBuf[s][u]
  BY <1>1 DEF TypeOK, AirlineTypeOK
<1>4. /\ Prepared(s, t) = new /\ Prepared(s, t)' = <<>>
      /\ \A u \in Trans \ {t} : Prepared(s, u)' = Prepared(s, u)
  BY <1>2, <1>3 DEF Prepared, Voting
<1> HIDE DEF new
<1>5. Accounts(s)'
  <2>1. DOMAIN Prepared(s, t)' = {}
    BY <1>4
  <2> QED BY <1>3, <1>4, <2>1, AccountsDecide DEF Books
<1>6. PartAfterInit(s)'
  <2> SUFFICES ASSUME NEW u \in Trans,
                      \/ logBuf'[s][u] # <<>>
                      \/ oldLog'[s][u] # "NOT_DECIDED"
                      \/ storeHandler'[s].at = "initTrans" /\ storeHandler'[s].tran = u
               PROVE  \E d \in Handed(s)' : d.op = "INIT" /\ d.tran = u
    BY DEF PartAfterInit, Voting
  <2>1. logBuf[s][u] # <<>> \/ oldLog[s][u] # "NOT_DECIDED"
    <3>1. CASE u # t
      <4>1. oldLog'[s][u] = oldLog[s][u]
        BY <1>3, <3>1 DEF TypeOK, AirlineTypeOK
      <4> QED BY <1>2, <1>3, <3>1, <4>1
    <3>2. CASE u = t
      <4>1. DOMAIN new = {} => oldLog'[s][u] = oldLog[s][u]
        BY <1>3
      <4>2. DOMAIN new # {} => new # <<>>
        OBVIOUS
      <4> QED BY <1>2, <1>3, <3>2, <4>1, <4>2 DEF new
    <3> QED BY <3>1, <3>2
  <2> QED BY <2>1 DEF Books, PartAfterInit
<1>7. VotingIsNew(s)'
  BY <1>2 DEF VotingIsNew, Voting
<1> QED BY <1>5, <1>6, <1>7 DEF Books

LEMMA BooksCreateFlight ==
  ASSUME TypeOK, NEW s \in Servers, NEW f \in Flights, Books(s),
         CreateFlight(s, f), Handed(s) \subseteq Handed(s)'
  PROVE  Books(s)'
<1>1. /\ slot'[s] = [g \in DOMAIN slot[s] \cup {f} |->
                       IF g \in DOMAIN slot[s] THEN slot[s][g] ELSE Seats[f]]
      /\ UNCHANGED <<lockBuf, logBuf, oldLog, timers, storeHandler>>
  BY DEF CreateFlight, TypeOK, AirlineTypeOK
<1>2. \A t \in Trans : Prepared(s, t)' = Prepared(s, t)
  BY <1>1 DEF Prepared, Voting
<1>3. Accounts(s)'
  BY <1>1, <1>2, AccountsCreate DEF Books
<1>4. PartAfterInit(s)' /\ VotingIsNew(s)'
  BY <1>1 DEF Books, PartAfterInit, VotingIsNew, Voting
<1> QED BY <1>3, <1>4 DEF Books

LEMMA BooksStep ==
  ASSUME TypeOK, Enlisted, [Next]_vars, NEW s \in Servers, Books(s)
  PROVE  Books(s)'
<1>1. ASSUME UNCHANGED airlineVars, UNCHANGED executed PROVE Books(s)'
  BY <1>1, BooksFrame DEF airlineVars
<1>2. CASE \E t \in Trans : ManageTransaction(t)
  BY <1>1, <1>2 DEF ManageTransaction, netVars
<1>3. CASE \E f \in Flights : RequestFlight(f)
  BY <1>1, <1>3, EnlistedRequestFlight
<1>4. CASE \E m \in Agencies, r \in Servers : RequestTransaction(m, r)
  BY <1>1, <1>4 DEF RequestTransaction, ProposeCommand
<1>5. ASSUME NEW r \in Servers, Vote(r) PROVE Books(s)'
  <2>1. Voting(r) /\ Voted(r) /\ UNCHANGED executed
    BY <1>5 DEF Vote, netVars
  <2>2. CASE r = s
    BY <2>1, <2>2, BooksVoted
  <2>3. CASE r # s
    <3>1. /\ slot' = slot /\ lockBuf' = lockBuf /\ oldLog' = oldLog
          /\ storeHandler'[s] = storeHandler[s]
      BY <2>1, <2>3 DEF Voted, TypeOK, AirlineTypeOK
    <3>2. logBuf'[s] = logBuf[s]
      BY <2>1, <2>3 DEF Voted, LogVote, TypeOK, AirlineTypeOK
    <3> QED BY <2>1, <3>1, <3>2, BooksFrame
  <2> QED BY <2>2, <2>3
<1>6. ASSUME NEW r \in Servers, ApplyCommand(r) PROVE Books(s)'
  <2>1. PICK c \in Pending(r) : Execute(r, c)
    BY <1>6 DEF ApplyCommand
  <2>2. /\ storeHandler[r] = Waiting /\ HandOver(r, c)
        /\ \/ c.op = "CREATE" /\ CreateFlight(r, c.flight)
           \/ c.op = "INIT" /\ InitTransaction(r, c.tran, c.own)
           \/ c.op = "RESPONSE" /\ ResponseTransaction(r, c.tran, c.vote)
    BY <2>1 DEF Execute
  <2>3. /\ c.op = "CREATE" => c.flight \in Flights
        /\ c.op # "CREATE" => c.tran \in Trans /\ Flies(r, c.tran)
        /\ c.op = "RESPONSE" => c.vote \in Decisions
        /\ Handed(r)' = Handed(r) \cup {c}
        /\ \A q \in Servers \ {r} : executed'[q] = executed[q]
    BY <2>2, NextCommand, NetTypeHandOver DEF TypeOK
  <2>4. CASE r # s
    <3>1. executed'[s] = executed[s]
      BY <2>3, <2>4
    <3>2. /\ slot'[s] = slot[s] /\ lockBuf'[s] = lockBuf[s] /\ logBuf'[s] = logBuf[s]
          /\ oldLog'[s] = oldLog[s] /\ storeHandler'[s] = storeHandler[s]
      <4>1. CASE CreateFlight(r, c.flight)
        BY <2>4, <4>1 DEF CreateFlight, TypeOK, AirlineTypeOK
      <4>2. CASE InitTransaction(r, c.tran, c.own)
        BY <2>4, <4>2 DEF InitTransaction, LogVote, TypeOK, AirlineTypeOK
      <4>3. CASE ResponseTransaction(r, c.tran, c.vote)
        BY <2>4, <4>3 DEF ResponseTransaction, TypeOK, AirlineTypeOK
      <4> QED BY <2>2, <4>1, <4>2, <4>3
    <3> QED BY <3>1, <3>2, BooksFrame
  <2>5. CASE r = s
    <3>1. CASE c.op = "CREATE" /\ CreateFlight(s, c.flight)
      BY <2>3, <2>5, <3>1, BooksCreateFlight
    <3>2. CASE c.op = "INIT" /\ InitTransaction(s, c.tran, c.own)
      <4>1. logBuf[s][c.tran] = <<>> /\ oldLog[s][c.tran] = "NOT_DECIDED"
        BY <2>2, <2>5, <3>2, OrderIsNew DEF Books
      <4> QED BY <2>2, <2>3, <2>5, <3>2, <4>1, BooksInitTransaction
    <3>3. CASE c.op = "RESPONSE" /\ ResponseTransaction(s, c.tran, c.vote)
      BY <2>2, <2>3, <2>5, <3>3, BooksResponseTransaction
    <3> QED BY <2>2, <2>5, <3>1, <3>2, <3>3
  <2> QED BY <2>4, <2>5
<1>7. ASSUME NEW r \in Servers, NEW t \in Trans, Expire(r, t) PROVE Books(s)'
  <2>1. /\ UNCHANGED <<slot, lockBuf, logBuf, oldLog, netVars>>
        /\ storeHandler[r] = Waiting
        /\ storeHandler' = storeHandler \/ storeHandler' = [storeHandler EXCEPT ![r] = Asking]
    BY <1>7 DEF Expire, ExpireTransaction
  <2>2. storeHandler'[s] = storeHandler[s] \/ (~Voting(s) /\ ~Voting(s)')
    BY <2>1 DEF Voting, Waiting, Asking, TypeOK, AirlineTypeOK
  <2> QED BY <2>1, <2>2, BooksFrame DEF netVars
<1>8. CASE UNCHANGED vars
  BY <1>1, <1>8 DEF vars, netVars
<1> QED BY <1>2, <1>3, <1>4, <1>5, <1>6, <1>7, <1>8 DEF Next

LEMMA BooksInvariant == Spec => [](Counted /\ \A s \in Servers : Books(s))
<1>1. Init => Counted /\ \A s \in Servers : Books(s)
  BY TypeInit, EnlistedInit, VotesInit, BooksInit DEF Counted
<1>2. Counted /\ (\A s \in Servers : Books(s)) /\ [Next]_vars
        => (Counted /\ \A s \in Servers : Books(s))'
  BY CountedStep, BooksStep DEF Counted
<1> QED BY <1>1, <1>2, PTL DEF Spec

\* No seat is sold twice and none is lost, whatever the order in which bookings
\* and cancellations reach an airline's servers and whichever timer goes off.
THEOREM SeatsAreConserved == Spec => []SeatsConserved
<1>1. (\A s \in Servers : Books(s)) => SeatsConserved
  BY DEF Books, Accounts, SeatsRight, SeatsConserved
<1> QED BY <1>1, BooksInvariant, PTL


-----------------------------------------------------------------------------
(* Replicas.                                                               *)

\* What a server of an airline has got from the commands it carried out, and
\* what each kind of command makes of it whichever server carries it out.
Replica(s) == [slot |-> slot[s], locks |-> lockBuf[s], old |-> oldLog[s],
               prep |-> [t \in Trans |-> Prepared(s, t)]]

NewReplica(a) ==
  [slot  |-> [f \in Created \cap FlightsOf[a] |-> Seats[f]],
   locks |-> {},
   old   |-> [t \in Trans |-> "NOT_DECIDED"],
   prep  |-> [t \in Trans |-> <<>>]]

AfterCreate(x, f) ==
  [slot  |-> [g \in DOMAIN x.slot \cup {f} |-> IF g \in DOMAIN x.slot THEN x.slot[g]
                                               ELSE Seats[f]],
   locks |-> x.locks, old |-> x.old, prep |-> x.prep]

RefusedIn(x, o, t, i) ==
  \/ o[i] \notin DOMAIN x.slot
  \/ x.slot[o[i]] < Amount[t]
  \/ o[i] \in x.locks
  \/ \E j \in 1 .. i - 1 : o[j] = o[i]

TakenIn(x, o, t) ==
  {o[i] : i \in {j \in DOMAIN o : \A k \in 1 .. j : ~RefusedIn(x, o, t, k)}}

AfterInit(x, t, o) ==
  [slot  |-> x.slot,
   locks |-> x.locks \cup TakenIn(x, o, t),
   old   |-> x.old,
   prep  |-> IF \E i \in DOMAIN o : RefusedIn(x, o, t, i) THEN x.prep
             ELSE [x.prep EXCEPT
                     ![t] = [f \in TakenIn(x, o, t) |-> x.slot[f] - Amount[t]]]]

AfterResponse(x, t, vote) ==
  [slot  |-> IF vote = "COMMIT"
             THEN [f \in DOMAIN x.slot |-> IF f \in DOMAIN x.prep[t] THEN x.prep[t][f]
                                           ELSE x.slot[f]]
             ELSE x.slot,
   locks |-> x.locks \ DOMAIN x.prep[t],
   old   |-> IF DOMAIN x.prep[t] # {} THEN [x.old EXCEPT ![t] = vote] ELSE x.old,
   prep  |-> [x.prep EXCEPT ![t] = <<>>]]

After(a, x, c) ==
  IF c.op = "CREATE" THEN AfterCreate(x, c.flight)
  ELSE IF c.op = "INIT" THEN AfterInit(x, c.tran, Legs[c.tran][a])
  ELSE AfterResponse(x, c.tran, c.vote)

\* h[q] is what a server of a has got from the commands q, for q in Q.
Course(a, Q, h) ==
  /\ Q \subseteq Seq(Command)
  /\ \A q \in Seq(Command), c \in Command :
       Append(q, c) \in Q => q \in Q /\ h[Append(q, c)] = After(a, h[q], c)

OnCourse(a, Q, h) ==
  \A s \in Servers : AirlineOf[s] = a => /\ executed[s] \in Q
                                         /\ Replica(s) = h[executed[s]]

Replicas == \A a \in Airlines : \E Q, h : Course(a, Q, h) /\ OnCourse(a, Q, h)

LEMMA ReplicasInit == Init => Replicas
<1> SUFFICES ASSUME Init, NEW a \in Airlines
             PROVE  \E Q, h : Course(a, Q, h) /\ OnCourse(a, Q, h)
  BY DEF Replicas
<1> DEFINE none == {<<>>}
           h == [q \in none |-> NewReplica(a)]
<1>1. Course(a, none, h)
  <2>1. <<>> \in Seq(Command)
    OBVIOUS
  <2>2. \A q \in Seq(Command), c \in Command : Append(q, c) # <<>>
    BY AppendProperties
  <2> QED BY <2>1, <2>2 DEF Course
<1>2. ASSUME NEW s \in Servers, AirlineOf[s] = a
      PROVE  executed[s] \in none /\ Replica(s) = h[executed[s]]
  <2>1. /\ slot[s] = [f \in Created \cap FlightsOf[a] |-> Seats[f]]
        /\ lockBuf[s] = {} /\ oldLog[s] = [t \in Trans |-> "NOT_DECIDED"]
        /\ executed[s] = <<>>
    BY <1>2 DEF Init, AirlineInit, NetInit
  <2>2. \A t \in Trans : Prepared(s, t) = <<>>
    BY DEF Init, AirlineInit, Prepared, Voting, Waiting
  <2> QED BY <2>1, <2>2 DEF Replica, NewReplica
<1>3. OnCourse(a, none, h)
  BY <1>2 DEF OnCourse
<1> QED BY <1>1, <1>3

LEMMA ReplicaOf ==
  ASSUME TypeOK, NEW s \in Servers
  PROVE  LET x == Replica(s) IN
         /\ x.slot = slot[s] /\ x.locks = lockBuf[s] /\ x.old = oldLog[s]
         /\ x.prep = [t \in Trans |-> Prepared(s, t)]
         /\ \A t \in Trans : \A i : Refused(s, t, i) <=> RefusedIn(x, Order(s, t), t, i)
         /\ \A t \in Trans : Taken(s, t) = TakenIn(x, Order(s, t), t)
<1> DEFINE x == Replica(s)
<1>1. /\ x.slot = slot[s] /\ x.locks = lockBuf[s] /\ x.old = oldLog[s]
      /\ x.prep = [t \in Trans |-> Prepared(s, t)]
  BY DEF Replica
<1> HIDE DEF x
<1>2. \A t \in Trans : \A i : Refused(s, t, i) <=> RefusedIn(x, Order(s, t), t, i)
  BY <1>1 DEF Refused, RefusedIn
<1>3. \A t \in Trans : Taken(s, t) = TakenIn(x, Order(s, t), t)
  BY <1>2 DEF Taken, TakenIn
<1> QED BY <1>1, <1>2, <1>3 DEF x

LEMMA ReplicaCreates ==
  ASSUME TypeOK, NEW s \in Servers, NEW f \in Flights, CreateFlight(s, f)
  PROVE  Replica(s)' = AfterCreate(Replica(s), f)
<1>1. /\ slot'[s] = [g \in DOMAIN slot[s] \cup {f} |->
                       IF g \in DOMAIN slot[s] THEN slot[s][g] ELSE Seats[f]]
      /\ UNCHANGED <<lockBuf, logBuf, oldLog, storeHandler>>
  BY DEF CreateFlight, TypeOK, AirlineTypeOK
<1>2. \A t \in Trans : Prepared(s, t)' = Prepared(s, t)
  BY <1>1 DEF Prepared, Voting
<1> QED BY <1>1, <1>2 DEF Replica, AfterCreate

LEMMA ReplicaOrders ==
  ASSUME TypeOK, NEW s \in Servers, NEW t \in Trans, NEW own, ~DialFails,
         Flies(s, t), storeHandler[s] = Waiting, logBuf[s][t] = <<>>,
         InitTransaction(s, t, own)
  PROVE  Replica(s)' = AfterInit(Replica(s), t, Order(s, t))
<1> DEFINE c == Claim(s, t)
           o == Order(s, t)
           x == Replica(s)
           new == [f \in TakenIn(x, o, t) |-> x.slot[f] - Amount[t]]
           refused == \E i \in DOMAIN o : RefusedIn(x, o, t, i)
<1>1. /\ x.slot = slot[s] /\ x.locks = lockBuf[s] /\ x.old = oldLog[s]
      /\ x.prep = [u \in Trans |-> Prepared(s, u)]
      /\ \A i : Refused(s, t, i) <=> RefusedIn(x, o, t, i)
      /\ Taken(s, t) = TakenIn(x, o, t)
  BY ReplicaOf
<1>2. /\ c.vote = IF refused THEN "ABORT" ELSE "COMMIT"
      /\ c.locks = lockBuf[s] \cup TakenIn(x, o, t)
      /\ c.log = new
  <2>1. /\ c.vote = IF \E i \in DOMAIN o : Refused(s, t, i) THEN "ABORT" ELSE "COMMIT"
        /\ c.locks = lockBuf[s] \cup Taken(s, t)
        /\ c.log = [f \in Taken(s, t) |-> slot[s][f] - Amount[t]]
    BY DEF Claim, ClaimFrom
  <2> HIDE DEF c, o, x
  <2> QED BY <1>1, <2>1
<1>3. /\ slot'[s] = slot[s] /\ oldLog'[s] = oldLog[s]
      /\ lockBuf' = [lockBuf EXCEPT ![s] = c.locks]
      /\ \/ /\ storeHandler' = [storeHandler EXCEPT
                                  ![s] = [at |-> "initTrans", tran |-> t,
                                          vote |-> c.vote, log |-> c.log]]
            /\ UNCHANGED logBuf
         \/ /\ logBuf' = IF c.vote = "COMMIT" THEN [logBuf EXCEPT ![s][t] = c.log]
                                              ELSE logBuf
            /\ UNCHANGED storeHandler
  BY DEF InitTransaction, LogVote
<1> HIDE DEF c, o, x, new, refused
<1>4. /\ lockBuf'[s] = c.locks
      /\ storeHandler[s].at # "initTrans"
      /\ DOMAIN storeHandler = Servers /\ DOMAIN logBuf = Servers
      /\ DOMAIN logBuf[s] = Trans
  BY <1>3 DEF TypeOK, AirlineTypeOK, Waiting
<1>5. \A u \in Trans : Prepared(s, u) = logBuf[s][u]
  BY <1>4 DEF Prepared, Voting
<1>6. \A u \in Trans :
        Prepared(s, u)' = IF u = t /\ c.vote = "COMMIT" THEN c.log ELSE logBuf[s][u]
  <2> SUFFICES ASSUME NEW u \in Trans
               PROVE  (IF /\ storeHandler'[s].at = "initTrans"
                          /\ storeHandler'[s].tran = u
                          /\ storeHandler'[s].vote = "COMMIT"
                       THEN storeHandler'[s].log ELSE logBuf'[s][u])
                        = IF u = t /\ c.vote = "COMMIT" THEN c.log ELSE logBuf[s][u]
    BY DEF Prepared, Voting
  <2>1. CASE /\ storeHandler' = [storeHandler EXCEPT
                                   ![s] = [at |-> "initTrans", tran |-> t,
                                           vote |-> c.vote, log |-> c.log]]
             /\ UNCHANGED logBuf
    <3>1. storeHandler'[s] = [at |-> "initTrans", tran |-> t,
                              vote |-> c.vote, log |-> c.log]
      BY <1>4, <2>1
    <3> QED BY <2>1, <3>1
  <2>2. CASE /\ logBuf' = IF c.vote = "COMMIT" THEN [logBuf EXCEPT ![s][t] = c.log]
                                               ELSE logBuf
             /\ UNCHANGED storeHandler
    <3>1. logBuf'[s][u] = IF u = t /\ c.vote = "COMMIT" THEN c.log ELSE logBuf[s][u]
      BY <1>4, <2>2
    <3> QED BY <1>4, <2>2, <3>1
  <2> QED BY <1>3, <2>1, <2>2
<1>7. [u \in Trans |-> Prepared(s, u)']
        = IF refused THEN x.prep ELSE [x.prep EXCEPT ![t] = new]
  BY <1>1, <1>2, <1>5, <1>6
<1>8. Replica(s)' = [slot |-> slot'[s], locks |-> lockBuf'[s], old |-> oldLog'[s],
                     prep |-> [u \in Trans |-> Prepared(s, u)']]
  BY DEF Replica
<1> QED BY <1>1, <1>2, <1>3, <1>4, <1>7, <1>8 DEF AfterInit, new, refused, o, x

LEMMA ReplicaResponds ==
  ASSUME TypeOK, NEW s \in Servers, NEW t \in Trans, NEW vote \in Decisions,
         storeHandler[s] = Waiting, ResponseTransaction(s, t, vote)
  PROVE  Replica(s)' = AfterResponse(Replica(s), t, vote)
<1> DEFINE new == logBuf[s][t]
           x   == Replica(s)
<1>1. /\ slot' = IF vote = "COMMIT"
                 THEN [slot EXCEPT ![s] = [f \in DOMAIN slot[s] |->
                         IF f \in DOMAIN new THEN new[f] ELSE slot[s][f]]]
                 ELSE slot
      /\ lockBuf' = [lockBuf EXCEPT ![s] = @ \ DOMAIN new]
      /\ logBuf' = [logBuf EXCEPT ![s][t] = <<>>]
      /\ oldLog' = IF DOMAIN new # {} THEN [oldLog EXCEPT ![s][t] = vote] ELSE oldLog
      /\ UNCHANGED storeHandler
  BY DEF ResponseTransaction
<1>2. /\ slot'[s] = IF vote = "COMMIT"
                    THEN [f \in DOMAIN slot[s] |->
                            IF f \in DOMAIN new THEN new[f] ELSE slot[s][f]]
                    ELSE slot[s]
      /\ lockBuf'[s] = lockBuf[s] \ DOMAIN new
      /\ oldLog'[s] = IF DOMAIN new # {} THEN [oldLog[s] EXCEPT ![t] = vote]
                                         ELSE oldLog[s]
      /\ \A u \in Trans : logBuf'[s][u] = IF u = t THEN <<>> ELSE logBuf[s][u]
      /\ storeHandler[s].at # "initTrans" /\ storeHandler'[s].at # "initTrans"
  BY <1>1 DEF TypeOK, AirlineTypeOK, Waiting
<1>3. /\ \A u \in Trans : Prepared(s, u) = logBuf[s][u]
      /\ \A u \in Trans : Prepared(s, u)' = IF u = t THEN <<>> ELSE logBuf[s][u]
  BY <1>2 DEF Prepared, Voting
<1>4. /\ x.slot = slot[s] /\ x.locks = lockBuf[s] /\ x.old = oldLog[s]
      /\ x.prep = [u \in Trans |-> Prepared(s, u)]
  BY ReplicaOf
<1>5. Replica(s)' = [slot |-> slot'[s], locks |-> lockBuf'[s], old |-> oldLog'[s],
                     prep |-> [u \in Trans |-> Prepared(s, u)']]
  BY DEF Replica
<1> HIDE DEF x
<1>6. x.prep[t] = new
  BY <1>3, <1>4
<1>7. [u \in Trans |-> Prepared(s, u)'] = [x.prep EXCEPT ![t] = <<>>]
  BY <1>3, <1>4
<1>8. AfterResponse(x, t, vote) =
        [slot  |-> slot'[s], locks |-> lockBuf'[s], old |-> oldLog'[s],
         prep  |-> [x.prep EXCEPT ![t] = <<>>]]
  <2> HIDE DEF new
  <2>1. slot'[s] = IF vote = "COMMIT"
                   THEN [f \in DOMAIN x.slot |-> IF f \in DOMAIN x.prep[t]
                                                 THEN x.prep[t][f] ELSE x.slot[f]]
                   ELSE x.slot
    BY <1>2, <1>4, <1>6
  <2>2. lockBuf'[s] = x.locks \ DOMAIN x.prep[t]
    BY <1>2, <1>4, <1>6
  <2>3. oldLog'[s] = IF DOMAIN x.prep[t] # {} THEN [x.old EXCEPT ![t] = vote] ELSE x.old
    BY <1>2, <1>4, <1>6
  <2> QED BY <2>1, <2>2, <2>3 DEF AfterResponse
<1> QED BY <1>5, <1>7, <1>8 DEF x

LEMMA ReplicaSame ==
  ASSUME TypeOK, NEW s \in Servers,
         slot'[s] = slot[s], lockBuf'[s] = lockBuf[s], oldLog'[s] = oldLog[s],
         \A t \in Trans : Prepared(s, t)' = Prepared(s, t)
  PROVE  Replica(s)' = Replica(s)
BY DEF Replica

\* A vote that is taken is logged: the replica stays what it was.
LEMMA ReplicaVoted ==
  ASSUME TypeOK, NEW s \in Servers, Voting(s), Voted(s)
  PROVE  Replica(s)' = Replica(s)
<1> DEFINE h == storeHandler[s]
<1>1. /\ storeHandler' = [storeHandler EXCEPT ![s] = Waiting]
      /\ UNCHANGED <<slot, lockBuf, oldLog>>
      /\ logBuf' = IF h.vote = "COMMIT" THEN [logBuf EXCEPT ![s][h.tran] = h.log]
                                        ELSE logBuf
  BY DEF Voted, LogVote
<1>2. h.tran \in Trans
  BY DEF TypeOK, AirlineTypeOK
<1>3. ~Voting(s)'
  BY <1>1 DEF Voting, Waiting, TypeOK, AirlineTypeOK
<1>4. \A t \in Trans : logBuf'[s][t] = IF h.vote = "COMMIT" /\ t = h.tran THEN h.log
                                                                    ELSE logBuf[s][t]
  BY <1>1, <1>2 DEF TypeOK, AirlineTypeOK
<1>5. \A t \in Trans : Prepared(s, t)' = Prepared(s, t)
  BY <1>3, <1>4 DEF Prepared
<1> QED BY <1>1, <1>5, ReplicaSame

\* Any command makes of any replica what it would of the others.
LEMMA ReplicaApplies ==
  ASSUME TypeOK, Enlisted, NEW s \in Servers, NEW c, Execute(s, c), Books(s), ~DialFails
  PROVE  /\ Replica(s)' = After(AirlineOf[s], Replica(s), c)
         /\ \A r \in Servers \ {s} : Replica(r)' = Replica(r)
<1>1. /\ storeHandler[s] = Waiting
      /\ HandOver(s, c)
      /\ \/ c.op = "CREATE" /\ CreateFlight(s, c.flight)
         \/ c.op = "INIT" /\ InitTransaction(s, c.tran, c.own)
         \/ c.op = "RESPONSE" /\ ResponseTransaction(s, c.tran, c.vote)
  BY DEF Execute
<1>2. /\ c.op = "CREATE" => c.flight \in Flights
      /\ c.op # "CREATE" => c.tran \in Trans /\ Flies(s, c.tran)
      /\ c.op = "RESPONSE" => c.vote \in Decisions
  BY <1>1, NextCommand
<1>3. c.op = "INIT" => logBuf[s][c.tran] = <<>>
  BY <1>1, OrderIsNew DEF Books
<1>5. Replica(s)' = After(AirlineOf[s], Replica(s), c)
  <2>1. CASE c.op = "CREATE" /\ CreateFlight(s, c.flight)
    BY <1>2, <2>1, ReplicaCreates DEF After
  <2>2. CASE c.op = "INIT" /\ InitTransaction(s, c.tran, c.own)
    <3>1. Replica(s)' = AfterInit(Replica(s), c.tran, Order(s, c.tran))
      BY <1>1, <1>2, <1>3, <2>2, ReplicaOrders
    <3> QED BY <2>2, <3>1 DEF After, Order
  <2>3. CASE c.op = "RESPONSE" /\ ResponseTransaction(s, c.tran, c.vote)
    <3>1. Replica(s)' = AfterResponse(Replica(s), c.tran, c.vote)
      BY <1>1, <1>2, <2>3, ReplicaResponds
    <3> QED BY <2>3, <3>1 DEF After
  <2> QED BY <1>1, <2>1, <2>2, <2>3
<1>6. ASSUME NEW r \in Servers, r # s PROVE Replica(r)' = Replica(r)
  <2>1. /\ slot'[r] = slot[r] /\ lockBuf'[r] = lockBuf[r] /\ logBuf'[r] = logBuf[r]
        /\ oldLog'[r] = oldLog[r] /\ storeHandler'[r] = storeHandler[r]
    <3>1. CASE CreateFlight(s, c.flight)
      BY <1>6, <3>1 DEF CreateFlight, TypeOK, AirlineTypeOK
    <3>2. CASE InitTransaction(s, c.tran, c.own)
      BY <1>6, <3>2 DEF InitTransaction, LogVote, TypeOK, AirlineTypeOK
    <3>3. CASE ResponseTransaction(s, c.tran, c.vote)
      BY <1>6, <3>3 DEF ResponseTransaction, TypeOK, AirlineTypeOK
    <3> QED BY <1>1, <3>1, <3>2, <3>3
  <2>2. \A t \in Trans : Prepared(r, t)' = Prepared(r, t)
    BY <2>1 DEF Prepared, Voting
  <2> QED BY <2>1, <2>2, ReplicaSame
<1> QED BY <1>5, <1>6

LEMMA ReplicasStep ==
  ASSUME TypeOK, Enlisted, \A s \in Servers : Books(s), ~DialFails, Replicas,
         [Next]_vars
  PROVE  Replicas'
<1> SUFFICES ASSUME NEW a \in Airlines
             PROVE  \E Q, h : Course(a, Q, h) /\ OnCourse(a, Q, h)'
  BY DEF Replicas, Course
<1>1. PICK Q, h : Course(a, Q, h) /\ OnCourse(a, Q, h)
  BY DEF Replicas
<1>2. ASSUME UNCHANGED executed, \A s \in Servers : Replica(s)' = Replica(s)
      PROVE  \E R, g : Course(a, R, g) /\ OnCourse(a, R, g)'
  <2>1. OnCourse(a, Q, h)'
    BY <1>1, <1>2 DEF OnCourse
  <2> QED BY <1>1, <2>1
<1>3. ASSUME UNCHANGED airlineVars, NEW s \in Servers
      PROVE  Replica(s)' = Replica(s)
  <2>1. \A t \in Trans : Prepared(s, t)' = Prepared(s, t)
    BY <1>3 DEF Prepared, Voting, airlineVars
  <2> QED BY <1>3, <2>1, ReplicaSame DEF airlineVars
<1>4. CASE \E t \in Trans : ManageTransaction(t)
  BY <1>2, <1>3, <1>4 DEF ManageTransaction, netVars
<1>5. CASE \E f \in Flights : RequestFlight(f)
  BY <1>2, <1>3, <1>5, EnlistedRequestFlight
<1>6. CASE \E m \in Agencies, r \in Servers : RequestTransaction(m, r)
  BY <1>2, <1>3, <1>6 DEF RequestTransaction, ProposeCommand
<1>7. ASSUME NEW r \in Servers, Vote(r)
      PROVE  \E R, g : Course(a, R, g) /\ OnCourse(a, R, g)'
  <2>1. Voting(r) /\ Voted(r) /\ UNCHANGED executed
    BY <1>7 DEF Vote, netVars
  <2>2. ASSUME NEW s \in Servers PROVE Replica(s)' = Replica(s)
    <3>1. CASE s = r
      BY <2>1, <3>1, ReplicaVoted
    <3>2. CASE s # r
      <4>1. /\ slot' = slot /\ lockBuf' = lockBuf /\ oldLog' = oldLog
            /\ storeHandler'[s] = storeHandler[s] /\ logBuf'[s] = logBuf[s]
        BY <2>1, <3>2 DEF Voted, LogVote, TypeOK, AirlineTypeOK
      <4>2. \A t \in Trans : Prepared(s, t)' = Prepared(s, t)
        BY <4>1 DEF Prepared, Voting
      <4> QED BY <4>1, <4>2, ReplicaSame
    <3> QED BY <3>1, <3>2
  <2> QED BY <1>2, <2>1, <2>2
<1>8. ASSUME NEW r \in Servers, ApplyCommand(r)
      PROVE  \E R, g : Course(a, R, g) /\ OnCourse(a, R, g)'
  <2>1. PICK c \in Pending(r) : Execute(r, c)
    BY <1>8 DEF ApplyCommand
  <2>2. /\ Replica(r)' = After(AirlineOf[r], Replica(r), c)
        /\ \A s \in Servers \ {r} : Replica(s)' = Replica(s)
    BY <2>1, ReplicaApplies
  <2>3. /\ c \in Command /\ executed[r] \in Seq(Command)
        /\ executed'[r] = Append(executed[r], c)
        /\ \A s \in Servers \ {r} : executed'[s] = executed[s]
    <3>1. HandOver(r, c)
      BY <2>1 DEF Execute
    <3> QED BY <3>1, NetTypeHandOver DEF TypeOK
  <2> DEFINE old == executed[r]
             new == Append(old, c)
  <2>4. CASE AirlineOf[r] # a
    <3>1. OnCourse(a, Q, h)'
      BY <1>1, <2>2, <2>3, <2>4 DEF OnCourse
    <3> QED BY <1>1, <3>1
  <2>5. CASE AirlineOf[r] = a /\ new \in Q
    <3>1. h[new] = After(a, h[old], c) /\ Replica(r) = h[old]
      BY <1>1, <2>3, <2>5 DEF Course, OnCourse
    <3>2. OnCourse(a, Q, h)'
      BY <1>1, <2>2, <2>3, <2>5, <3>1 DEF OnCourse
    <3> QED BY <1>1, <3>2
  <2>6. CASE AirlineOf[r] = a /\ new \notin Q
    <3>1. PICK g : /\ \A q \in Q : g[q] = h[q]
                   /\ g[new] = After(a, h[old], c)
      <4> DEFINE next == [q \in Q \cup {new} |-> IF q \in Q THEN h[q]
                                                 ELSE After(a, h[old], c)]
      <4>1. /\ \A q \in Q : next[q] = h[q]
            /\ next[new] = After(a, h[old], c)
        BY <2>6
      <4> HIDE DEF next
      <4> QED BY <4>1
    <3>0. PICK R : R = Q \cup {new}
      OBVIOUS
    <3>2. new \in Seq(Command) /\ old \in Q /\ Replica(r) = h[old]
      BY <1>1, <2>3, <2>6, AppendProperties DEF OnCourse
    <3>3. Course(a, R, g)
      <4>1. ASSUME NEW q \in Seq(Command), NEW d \in Command, Append(q, d) \in R
            PROVE  q \in R /\ g[Append(q, d)] = After(a, g[q], d)
        <5>1. CASE Append(q, d) = new
          <6>1. q = old /\ d = c
            BY <2>3, <5>1, AppendInjective
          <6> QED BY <3>0, <3>1, <3>2, <6>1
        <5>2. CASE Append(q, d) \in Q
          <6>1. q \in Q /\ h[Append(q, d)] = After(a, h[q], d)
            BY <1>1, <5>2 DEF Course
          <6> QED BY <3>0, <3>1, <5>2, <6>1
        <5> QED BY <3>0, <4>1, <5>1, <5>2
      <4>2. R \subseteq Seq(Command)
        BY <1>1, <3>0, <3>2 DEF Course
      <4> QED BY <4>1, <4>2 DEF Course
    <3>4. OnCourse(a, R, g)'
      <4> SUFFICES ASSUME NEW s \in Servers, AirlineOf[s] = a
                   PROVE  executed'[s] \in R /\ Replica(s)' = g[executed'[s]]
        BY DEF OnCourse
      <4>1. executed[s] \in Q /\ Replica(s) = h[executed[s]]
        BY <1>1 DEF OnCourse
      <4>2. CASE s # r
        BY <2>2, <2>3, <3>0, <3>1, <4>1, <4>2
      <4>3. CASE s = r
        BY <2>2, <2>3, <2>6, <3>0, <3>1, <3>2, <4>3
      <4> QED BY <4>2, <4>3
    <3> QED BY <3>3, <3>4
  <2> QED BY <2>4, <2>5, <2>6
<1>9. ASSUME NEW r \in Servers, NEW t \in Trans, Expire(r, t)
      PROVE  \E R, g : Course(a, R, g) /\ OnCourse(a, R, g)'
  <2>1. /\ UNCHANGED <<slot, lockBuf, logBuf, oldLog, executed>>
        /\ storeHandler[r] = Waiting
        /\ storeHandler' = storeHandler \/ storeHandler' = [storeHandler EXCEPT ![r] = Asking]
    BY <1>9 DEF Expire, ExpireTransaction, netVars
  <2>2. ASSUME NEW s \in Servers PROVE Replica(s)' = Replica(s)
    <3>1. storeHandler'[s] = storeHandler[s] \/ (~Voting(s) /\ ~Voting(s)')
      BY <2>1 DEF Voting, Waiting, Asking, TypeOK, AirlineTypeOK
    <3>2. \A u \in Trans : Prepared(s, u)' = Prepared(s, u)
      BY <2>1, <3>1 DEF Prepared, Voting
    <3> QED BY <2>1, <3>2, ReplicaSame
  <2> QED BY <1>2, <2>1, <2>2
<1>10. CASE UNCHANGED vars
  BY <1>2, <1>3, <1>10 DEF vars, netVars
<1> QED BY <1>4, <1>5, <1>6, <1>7, <1>8, <1>9, <1>10 DEF Next

\* Where every airline server can dial every TM, the servers of an airline that
\* carried out the same commands agree, whichever of them votes or is held up,
\* and whether or not Paxos is to give all of them the same.
THEOREM ReplicasDoAgree == ~DialFails => (Spec => []ReplicasAgree)
<1> SUFFICES ASSUME ~DialFails PROVE Spec => []ReplicasAgree
  OBVIOUS
<1> DEFINE IInv == Counted /\ (\A s \in Servers : Books(s)) /\ Replicas
<1>1. Init => IInv
  BY TypeInit, EnlistedInit, VotesInit, BooksInit, ReplicasInit DEF Counted
<1>2. IInv /\ [Next]_vars => IInv'
  BY CountedStep, BooksStep, ReplicasStep DEF Counted
<1>3. IInv => ReplicasAgree
  <2> SUFFICES ASSUME IInv, NEW r \in Servers, NEW s \in Servers,
                      AirlineOf[r] = AirlineOf[s], executed[r] = executed[s]
               PROVE  slot[r] = slot[s] /\ lockBuf[r] = lockBuf[s] /\ oldLog[r] = oldLog[s]
    BY DEF ReplicasAgree
  <2>1. PICK Q, h : OnCourse(AirlineOf[r], Q, h)
    BY ServersAssumption DEF Replicas
  <2>2. Replica(r) = Replica(s)
    BY <2>1 DEF OnCourse
  <2>3. \A s_1 \in Servers : LET x == Replica(s_1) IN
          x.slot = slot[s_1] /\ x.locks = lockBuf[s_1] /\ x.old = oldLog[s_1]
    BY DEF Replica
  <2> QED BY <2>2, <2>3
<1> QED BY <1>1, <1>2, <1>3, PTL DEF Spec

-----------------------------------------------------------------------------
(* A booking as an atomic commitment.                                      *)

\* A booking goes to all of its airlines.
AllAsked ==
  \A t \in Trans :
    client[t] # "new" =>
      \A a \in DOMAIN Legs[t] : \E s \in ToSet(pptList[t]) : AirlineOf[s] = a

\* A decision that is proposed or carried out is COMMIT, or it is the ABORT that
\* a server asked has voted for.
AbortVoted ==
  /\ \A a \in Airlines : \A c \in proposed[a] :
       c.op = "RESPONSE" =>
         c.vote = "COMMIT" \/ (c.vote = "ABORT" /\ decision[c.tran] = "ABORT")
  /\ \A s \in Servers, t \in Trans :
       oldLog[s][t] = "ABORT" => decision[t] = "ABORT"

\* No timer went off, and so every decision is that of all votes.
Voted2PC == AllAsked /\ AbortVoted /\ expired = {}

LEMMA Voted2PCInit == Init => Voted2PC
<1> SUFFICES ASSUME Init PROVE Voted2PC
  OBVIOUS
<1>1. AllAsked
  BY DEF Init, TranLayerInit, AllAsked
<1>2. AbortVoted
  <2>1. \A a \in Airlines : proposed[a] = {}
    BY DEF Init, NetInit
  <2>2. \A s \in Servers, t \in Trans : oldLog[s][t] = "NOT_DECIDED"
    BY DEF Init, AirlineInit
  <2> QED BY <2>1, <2>2 DEF AbortVoted
<1> QED BY <1>1, <1>2 DEF Voted2PC, Init, TranLayerInit

\* Who is asked is settled when the client calls.
LEMMA AllAskedStep == Counted /\ AllAsked /\ [Next]_vars => AllAsked'
<1> SUFFICES ASSUME Counted, AllAsked, [Next]_vars PROVE AllAsked'
  OBVIOUS
<1>0. TypeOK /\ Enlisted /\ Polled /\ Awaited
  BY DEF Counted
<1>1. ASSUME UNCHANGED pptList,
             \A t \in Trans : client'[t] = "new" <=> client[t] = "new"
      PROVE  AllAsked'
  BY <1>1 DEF AllAsked
<1>2. ASSUME NEW t \in Trans, ManageTransaction(t) PROVE AllAsked'
  <2>1. CASE BookingFlights(t)
    <3>1. PICK servers \in [1 .. Cardinality(DOMAIN Legs[t]) -> Servers] :
            /\ {AirlineOf[servers[k]] : k \in 1 .. Cardinality(DOMAIN Legs[t])}
                 = DOMAIN Legs[t]
            /\ pptList' = [pptList EXCEPT ![t] = servers]
      BY <2>1 DEF BookingFlights
    <3>2. client' = [client EXCEPT ![t] = "calling"]
      BY <2>1 DEF BookingFlights
    <3>3. \A u \in Trans \ {t} : pptList'[u] = pptList[u] /\ client'[u] = client[u]
      BY <1>0, <3>1, <3>2 DEF TypeOK, TranLayerTypeOK
    <3>4. pptList'[t] = servers
      BY <1>0, <3>1 DEF TypeOK, TranLayerTypeOK
    <3>5. \A a \in DOMAIN Legs[t] : \E s \in ToSet(servers) : AirlineOf[s] = a
      <4>1. DOMAIN servers = 1 .. Cardinality(DOMAIN Legs[t])
        OBVIOUS
      <4> QED BY <3>1, <4>1 DEF ToSet
    <3> QED BY <3>3, <3>4, <3>5 DEF AllAsked
  <2>2. CASE InitTrans(t)
    BY <1>0, <1>1, <2>2 DEF InitTrans, TypeOK, TranLayerTypeOK
  <2>3. CASE SendOrder(t)
    BY <1>1, <2>3 DEF SendOrder
  <2>4. CASE ExpireTrans(t)
    BY <1>0, <1>1, <2>4, ExpireTransHandles DEF Handling
  <2> QED BY <1>2, <2>1, <2>2, <2>3, <2>4 DEF ManageTransaction
<1>3. ASSUME NEW m \in Agencies, NEW s \in Servers, RequestTransaction(m, s)
      PROVE  AllAsked'
  BY <1>0, <1>1, <1>3, ReturnedHandles DEF RequestTransaction, Handling
<1>4. ASSUME NEW s \in Servers, Vote(s) PROVE AllAsked'
  <2> DEFINE t == storeHandler[s].tran
  <2>1. /\ t \in Trans /\ storeHandler[s].vote \in {"COMMIT", "ABORT"} /\ Started(t)
        /\ s \in ToSet(pptList[t]) /\ ResponseTrans(t, s, storeHandler[s].vote)
    BY <1>0, <1>4, VoteCounts DEF Vote
  <2> HIDE DEF t
  <2> QED BY <1>0, <1>1, <2>1, ResponseTransHandles DEF Handling
<1>5. CASE \/ \E f \in Flights : RequestFlight(f)
           \/ \E s \in Servers : ApplyCommand(s)
           \/ \E s \in Servers, t \in Trans : Expire(s, t)
           \/ UNCHANGED vars
  BY <1>1, <1>5 DEF RequestFlight, ApplyCommand, Expire, vars, tranLayerVars
<1> QED BY <1>2, <1>3, <1>4, <1>5 DEF Next

\* The decision to abort stays.
LEMMA AbortStays ==
  ASSUME Counted, [Next]_vars, NEW t \in Trans, decision[t] = "ABORT"
  PROVE  decision'[t] = "ABORT"
<1>0. TypeOK /\ Enlisted /\ Polled /\ Awaited
  BY DEF Counted
<1>1. ASSUME NEW s \in Servers, Vote(s) PROVE decision'[t] = "ABORT"
  <2> DEFINE u    == storeHandler[s].tran
             vote == storeHandler[s].vote
  <2>1. u \in Trans /\ decision' = [decision EXCEPT ![u] = AfterVote(decision[u], vote)]
    BY <1>0, <1>1, VoteCounts DEF CountVote
  <2> HIDE DEF u, vote
  <2> QED BY <1>0, <2>1 DEF AfterVote, TypeOK, TranLayerTypeOK
<1>2. CASE UNCHANGED decision
  BY <1>2
<1>3. ~(\E s \in Servers : Vote(s)) => UNCHANGED decision
  BY DEF Next, ManageTransaction, BookingFlights, InitTrans, SendOrder, ExpireTrans,
         RequestFlight, RequestTransaction, Returned, ApplyCommand, Expire,
         vars, tranLayerVars
<1> QED BY <1>1, <1>2, <1>3

\* Without a decision that a timer sends, what is sent is what all votes make.
LEMMA AbortVotedStep ==
  Counted /\ Decided /\ Voted2PC /\ [Next]_vars => AbortVoted'
<1> SUFFICES ASSUME Counted, Decided, Voted2PC, [Next]_vars PROVE AbortVoted'
  OBVIOUS
<1>0. /\ TypeOK /\ Enlisted /\ Polled /\ Awaited
      /\ DecisionOfVotes /\ CallsAfterVotes /\ AllAsked /\ AbortVoted /\ expired = {}
  BY DEF Counted, Decided, Voted2PC
<1> DEFINE Right(c) == c.vote = "COMMIT" \/ (c.vote = "ABORT" /\ decision[c.tran] = "ABORT")
<1>1. ASSUME NEW a \in Airlines, NEW c \in proposed[a], c.op = "RESPONSE"
      PROVE  c.tran \in Trans /\ Right(c)
  <2>1. c \in Command
    BY <1>0 DEF TypeOK, NetTypeOK
  <2> QED BY <1>0, <1>1, <2>1 DEF AbortVoted, Command
<1>2. ASSUME \A a \in Airlines : \A c \in proposed'[a] :
               c \in proposed[a] \/ (c.op = "RESPONSE" => c.tran \in Trans /\ Right(c)),
             \A s \in Servers, t \in Trans :
               oldLog'[s][t] = "ABORT" => decision[t] = "ABORT"
      PROVE  AbortVoted'
  BY <1>1, <1>2, AbortStays DEF AbortVoted
<1>3. \A s \in Servers, t \in Trans : oldLog[s][t] = "ABORT" => decision[t] = "ABORT"
  BY <1>0 DEF AbortVoted
<1>4. ASSUME UNCHANGED oldLog, \A a \in Airlines : proposed'[a] \subseteq proposed[a]
      PROVE  AbortVoted'
  BY <1>2, <1>3, <1>4
<1>5. CASE \E t \in Trans : ManageTransaction(t)
  BY <1>4, <1>5 DEF ManageTransaction, netVars, airlineVars
<1>6. ASSUME NEW f \in Flights, RequestFlight(f) PROVE AbortVoted'
  <2>1. UNCHANGED oldLog
    BY <1>6 DEF RequestFlight, airlineVars
  <2> QED BY <1>0, <1>2, <1>3, <1>6, <2>1, EnlistedRequestFlight
<1>7. ASSUME NEW m \in Agencies, NEW s \in Servers, RequestTransaction(m, s)
      PROVE  AbortVoted'
  <2> DEFINE new == Asked(m, s)
             u   == call[m].tran
  <2>1. /\ call[m] \notin {Idle, Blocked} /\ ProposeCommand(new) /\ UNCHANGED oldLog
    BY <1>7 DEF RequestTransaction, airlineVars
  <2>2. /\ u \in Trans /\ Started(u)
        /\ new \in Command /\ new.tran = u
        /\ call[m].why = "init" => new = InitCmd(u, s)
        /\ call[m].why # "init" => /\ new.op = "RESPONSE"
                                   /\ new.vote = decision[u]
    BY <1>0, <2>1, AskedType, CallUnderWay
  <2> HIDE DEF new
  <2>3. \A a \in Airlines : \A c \in proposed'[a] : c \in proposed[a] \/ c = new
    BY <1>0, <2>1, <2>2, NetTypePropose DEF TypeOK
  <2>4. ASSUME new.op = "RESPONSE" PROVE Right(new)
    <3>1. call[m].why \in {"init", "complete", "expire"}
      BY <1>0, <2>1, CallFields DEF TypeOK
    <3>2. call[m].why # "expire"
      BY <1>0, <2>1 DEF CallsAfterVotes
    <3>3. call[m].why # "init"
      BY <2>2, <2>4 DEF InitCmd
    <3>4. call[m].why = "complete" /\ new.vote = decision[u]
      BY <2>2, <3>1, <3>2, <3>3
    <3>5. AllVoted(commitGrp[u])
      BY <1>0, <2>1, <3>4 DEF CallsAfterVotes
    <3>6. DOMAIN commitGrp[u] # {}
      <4>1. DOMAIN Legs[u] # {} /\ client[u] # "new"
        BY <2>2, TransFacts DEF Started
      <4>2. ToSet(pptList[u]) # {}
        BY <1>0, <2>2, <4>1 DEF AllAsked
      <4> QED BY <1>0, <2>2, <4>2 DEF Enlisted, KnownIfStarted
    <3>7. decision[u] # "NOT_DECIDED"
      BY <1>0, <2>2, <3>5, <3>6 DEF DecisionOfVotes, AllVoted
    <3>8. decision[u] \in Decisions
      BY <1>0, <2>2 DEF TypeOK, TranLayerTypeOK
    <3> QED BY <2>2, <3>4, <3>7, <3>8 DEF Decisions
  <2> QED BY <1>2, <1>3, <2>1, <2>2, <2>3, <2>4
<1>8. CASE \E s \in Servers : Vote(s)
  BY <1>4, <1>8 DEF Vote, Voted, netVars
<1>9. ASSUME NEW s \in Servers, ApplyCommand(s) PROVE AbortVoted'
  <2>0. PICK c \in Pending(s) : Execute(s, c)
    BY <1>9 DEF ApplyCommand
  <2>1. /\ HandOver(s, c)
        /\ \/ c.op = "CREATE" /\ CreateFlight(s, c.flight)
           \/ c.op = "INIT" /\ InitTransaction(s, c.tran, c.own)
           \/ c.op = "RESPONSE" /\ ResponseTransaction(s, c.tran, c.vote)
    BY <2>0 DEF Execute
  <2>2. /\ AirlineOf[s] \in Airlines /\ c \in proposed[AirlineOf[s]]
        /\ UNCHANGED proposed
    BY <1>0, <2>1, NetTypeHandOver DEF TypeOK
  <2>3. \/ UNCHANGED oldLog
        \/ c.op = "RESPONSE" /\ oldLog' = [oldLog EXCEPT ![s][c.tran] = c.vote]
    BY <2>1 DEF CreateFlight, InitTransaction, ResponseTransaction
  <2>4. ASSUME c.op = "RESPONSE", oldLog' = [oldLog EXCEPT ![s][c.tran] = c.vote],
               NEW r \in Servers, NEW t \in Trans, oldLog'[r][t] = "ABORT"
        PROVE  decision[t] = "ABORT"
    <3>1. oldLog[r][t] = "ABORT" \/ (t = c.tran /\ c.vote = "ABORT")
      BY <1>0, <2>4 DEF TypeOK, AirlineTypeOK
    <3>2. Right(c)
      BY <1>1, <2>2, <2>4
    <3> QED BY <1>3, <3>1, <3>2
  <2> QED BY <1>2, <1>3, <2>2, <2>3, <2>4
<1>10. CASE \E s \in Servers, t \in Trans : Expire(s, t)
  BY <1>4, <1>10 DEF Expire, ExpireTransaction, netVars
<1>11. CASE UNCHANGED vars
  BY <1>4, <1>11 DEF vars, netVars, airlineVars
<1> QED BY <1>5, <1>6, <1>7, <1>8, <1>9, <1>10, <1>11 DEF Next

LEMMA Voted2PCStep ==
  ASSUME ~Timeouts
  PROVE  Counted /\ Decided /\ Voted2PC /\ [Next]_vars => Voted2PC'
<1> SUFFICES ASSUME Counted, Decided, Voted2PC, [Next]_vars PROVE Voted2PC'
  OBVIOUS
<1>1. AllAsked' /\ AbortVoted'
  BY AllAskedStep, AbortVotedStep DEF Voted2PC
<1>2. UNCHANGED expired
  BY DEF Next, ManageTransaction, BookingFlights, InitTrans, SendOrder, ExpireTrans,
         RequestFlight, RequestTransaction, Returned, Vote, ResponseTrans, CountVote,
         IgnoreVote, ApplyCommand, Expire, vars, tranLayerVars
<1> QED BY <1>1, <1>2 DEF Voted2PC

TwoPhase == Counted /\ Decided /\ (\A s \in Servers : Books(s)) /\ Voted2PC

LEMMA TwoPhaseParts ==
  ASSUME TwoPhase
  PROVE  /\ TypeOK /\ TranLayerTypeOK /\ AirlineTypeOK /\ Counted
         /\ Enlisted /\ Polled /\ Awaited
         /\ DecisionOfVotes /\ CallsAfterVotes /\ CommitAgreed
         /\ AllAsked /\ AbortVoted /\ expired = {}
         /\ \A s \in Servers : PartAfterInit(s) /\ PreparedLocked(s)
BY DEF TwoPhase, Counted, Decided, Voted2PC, Books, Accounts, TypeOK

\* The part of airline a in t, as the mapping has it.
PartState(t, a) ==
  IF commitGrp[t] = <<>> THEN "working" ELSE StateOf(t, Part(t, a))

\* The client's answer, as the mapping has it.
Said(t) == IF client[t] \in Answers THEN client[t] ELSE "none"

\* Each airline of t has one server that was asked.
LEMMA PartIsAsked ==
  ASSUME TwoPhase, NEW t \in Trans, client[t] # "new"
  PROVE  /\ \A a \in DOMAIN Legs[t] : /\ Part(t, a) \in ToSet(pptList[t])
                                      /\ Part(t, a) \in Servers
                                      /\ AirlineOf[Part(t, a)] = a
         /\ \A s \in ToSet(pptList[t]) : /\ AirlineOf[s] \in DOMAIN Legs[t]
                                         /\ Part(t, AirlineOf[s]) = s
         /\ ToSet(pptList[t]) \subseteq Servers
         /\ ToSet(pptList[t]) # {}
         /\ Started(t) => /\ DOMAIN commitGrp[t] = ToSet(pptList[t])
                          /\ commitGrp[t] # <<>>
         /\ ~Started(t) => commitGrp[t] = <<>>
<1>0. TypeOK /\ Enlisted /\ AllAsked /\ TranLayerTypeOK
  BY TwoPhaseParts
<1>1. pptList[t] \in Seq(Servers) /\ ToSet(pptList[t]) \subseteq Servers
  BY <1>0, ElementsOf DEF TranLayerTypeOK
<1>2. ASSUME NEW r \in ToSet(pptList[t]), NEW q \in ToSet(pptList[t]),
             AirlineOf[r] = AirlineOf[q]
      PROVE  r = q
  BY <1>0, <1>2, OneOwner
<1>3. \A s \in ToSet(pptList[t]) : AirlineOf[s] \in DOMAIN Legs[t]
  BY <1>0 DEF Enlisted, OneServerEach, ToSet
<1>4. ASSUME NEW a \in DOMAIN Legs[t]
      PROVE  Part(t, a) \in ToSet(pptList[t]) /\ AirlineOf[Part(t, a)] = a
  <2>1. \E s \in ToSet(pptList[t]) : AirlineOf[s] = a
    BY <1>0 DEF AllAsked
  <2> QED BY <2>1 DEF Part
<1>5. ASSUME NEW s \in ToSet(pptList[t]) PROVE Part(t, AirlineOf[s]) = s
  BY <1>2, <1>3, <1>4
<1>6. ToSet(pptList[t]) # {}
  BY <1>4, TransFacts
<1>7. Started(t) => /\ DOMAIN commitGrp[t] = ToSet(pptList[t])
                    /\ commitGrp[t] # <<>>
  <2>1. DOMAIN <<>> = {}
    OBVIOUS
  <2> QED BY <1>0, <1>6, <2>1 DEF Enlisted, KnownIfStarted
<1>8. ~Started(t) => commitGrp[t] = <<>>
  BY <1>0 DEF Enlisted, KnownIfStarted
<1> QED BY <1>1, <1>3, <1>4, <1>5, <1>6, <1>7, <1>8

LEMMA NotStarted ==
  ASSUME TwoPhase, NEW t \in Trans, ~Started(t)
  PROVE  /\ commitGrp[t] = <<>>
         /\ \A s \in Servers : /\ oldLog[s][t] = "NOT_DECIDED"
                               /\ ~(Voting(s) /\ storeHandler[s].tran = t)
<1>0. TypeOK /\ Enlisted /\ AirlineTypeOK
  BY TwoPhaseParts
<1>1. commitGrp[t] = <<>>
  BY <1>0 DEF Enlisted, KnownIfStarted
<1>2. ASSUME NEW s \in Servers, NEW c \in Handed(s), c.op = "INIT", c.tran = t
      PROVE  FALSE
  <2>1. AirlineOf[s] \in Airlines /\ c \in proposed[AirlineOf[s]]
    BY <1>0, ServersAssumption DEF Enlisted, HandedProposed
  <2>2. Started(c.tran)
    BY <1>0, <1>2, <2>1 DEF Enlisted, CommandsOfParticipants
  <2> QED BY <1>2, <2>2
<1>3. ASSUME NEW s \in Servers
      PROVE  /\ oldLog[s][t] = "NOT_DECIDED"
             /\ ~(Voting(s) /\ storeHandler[s].tran = t)
  <2>1. PartAfterInit(s)
    BY TwoPhaseParts
  <2> QED BY <1>2, <2>1 DEF PartAfterInit
<1> QED BY <1>1, <1>3

\* The state of a part is that of its votes and of what was carried out.
LEMMA StateFrame ==
  ASSUME NEW t, NEW a, NEW p, p = Part(t, a), pptList'[t] = pptList[t],
         commitGrp'[t] = <<>> <=> commitGrp[t] = <<>>,
         oldLog'[p][t] = oldLog[p][t],
         \A vote \in {"COMMIT", "ABORT"} : Votes(t, p, vote)' <=> Votes(t, p, vote)
  PROVE  PartState(t, a)' = PartState(t, a)
<1>1. Part(t, a)' = p
  BY DEF Part
<1>2. CASE commitGrp[t] = <<>>
  BY <1>2 DEF PartState
<1>3. CASE commitGrp[t] # <<>>
  <2>1. PartState(t, a) = StateOf(t, p) /\ PartState(t, a)' = StateOf(t, p)'
    BY <1>1, <1>3 DEF PartState, StateOf, Votes
  <2>2. StateOf(t, p)' = StateOf(t, p)
    BY DEF StateOf
  <2> QED BY <2>1, <2>2
<1> QED BY <1>2, <1>3

\* When all votes are for it, each part is prepared or committed.
AgreedPrepared ==
  \A t \in Trans :
    Started(t) /\ Agreed(t) =>
      \A a \in DOMAIN Legs[t] : PartState(t, a) \in {"prepared", "committed"}

LEMMA AgreedStates == TwoPhase => AgreedPrepared
<1> SUFFICES ASSUME TwoPhase, NEW t \in Trans, Started(t), Agreed(t),
                    NEW a \in DOMAIN Legs[t]
             PROVE  PartState(t, a) \in {"prepared", "committed"}
  BY DEF AgreedPrepared
<1> DEFINE p == Part(t, a)
<1>1. client[t] # "new"
  BY DEF Started
<1>2. /\ p \in Servers /\ p \in DOMAIN commitGrp[t] /\ commitGrp[t] # <<>>
  BY <1>1, PartIsAsked
<1>3. commitGrp[t][p] = "COMMIT"
  BY <1>2 DEF Agreed
<1>4. decision[t] # "ABORT"
  BY TwoPhaseParts DEF DecisionOfVotes, Agreed
<1>5. oldLog[p][t] # "ABORT"
  BY <1>2, <1>4, TwoPhaseParts DEF AbortVoted
<1>6. ~(Voting(p) /\ storeHandler[p].tran = t)
  BY <1>2, TwoPhaseParts DEF Awaited, Outstanding, Agreed
<1> HIDE DEF p
<1>7. Votes(t, p, "COMMIT") /\ ~Votes(t, p, "ABORT")
  BY <1>3, <1>6 DEF Votes
<1>8. StateOf(t, p) \in {"prepared", "committed"}
  BY <1>5, <1>7 DEF StateOf
<1> QED BY <1>2, <1>8 DEF PartState, p

\* When it is to be aborted, some part is.
AbortHasPart ==
  \A t \in Trans :
    Started(t) /\ decision[t] = "ABORT" =>
      \E a \in DOMAIN Legs[t] : PartState(t, a) = "aborted"

LEMMA AbortedState == TwoPhase => AbortHasPart
<1> SUFFICES ASSUME TwoPhase, NEW t \in Trans, Started(t), decision[t] = "ABORT"
             PROVE  \E a \in DOMAIN Legs[t] : PartState(t, a) = "aborted"
  BY DEF AbortHasPart
<1>1. PICK s \in DOMAIN commitGrp[t] : commitGrp[t][s] = "ABORT"
  BY TwoPhaseParts DEF DecisionOfVotes
<1>2. client[t] # "new"
  BY DEF Started
<1>3. /\ s \in Servers /\ AirlineOf[s] \in DOMAIN Legs[t] /\ commitGrp[t] # <<>>
      /\ Part(t, AirlineOf[s]) = s
  BY <1>1, <1>2, PartIsAsked
<1>4. oldLog[s][t] # "COMMIT"
  BY <1>1, <1>3, TwoPhaseParts DEF CommitAgreed, Agreed
<1>5. Votes(t, s, "ABORT")
  BY <1>1 DEF Votes
<1>6. StateOf(t, s) = "aborted"
  BY <1>4, <1>5 DEF StateOf
<1> QED BY <1>3, <1>6 DEF PartState

\* When all have voted the decision is made.
OverDecided ==
  \A t \in Trans :
    Started(t) /\ t \notin activeTransMap /\ AllVoted(commitGrp[t]) =>
      \/ decision[t] = "COMMIT" /\ Agreed(t)
      \/ decision[t] = "ABORT"

LEMMA OverIsDecided == TwoPhase => OverDecided
<1> SUFFICES ASSUME TwoPhase, NEW t \in Trans, Started(t), t \notin activeTransMap,
                    AllVoted(commitGrp[t]), decision[t] # "ABORT"
             PROVE  decision[t] = "COMMIT" /\ Agreed(t)
  BY DEF OverDecided
<1>0. TranLayerTypeOK /\ DecisionOfVotes
  BY TwoPhaseParts
<1>1. DOMAIN commitGrp[t] # {} /\ commitGrp[t] # <<>>
  BY PartIsAsked DEF Started
<1>2. decision[t] # "NOT_DECIDED"
  BY <1>0, <1>1 DEF DecisionOfVotes, AllVoted
<1>3. decision[t] \in Decisions
  BY <1>0 DEF TranLayerTypeOK
<1>4. \A s \in DOMAIN commitGrp[t] : commitGrp[t][s] \in Decisions
  <2>1. commitGrp[t] \in [ToSet(pptList[t]) -> Decisions]
    BY <1>0, <1>1 DEF TranLayerTypeOK
  <2> QED BY <2>1
<1>5. \A s \in DOMAIN commitGrp[t] : commitGrp[t][s] = "COMMIT"
  BY <1>0, <1>4 DEF DecisionOfVotes, AllVoted, Decisions
<1> QED BY <1>2, <1>3, <1>5 DEF Agreed, Decisions

\* What is known after a step.
LEMMA TwoPhaseThen ==
  TwoPhase' => /\ TranLayerTypeOK' /\ AirlineTypeOK' /\ (expired = {})'
               /\ AgreedPrepared' /\ AbortHasPart' /\ OverDecided'
<1>1. TwoPhase => /\ TranLayerTypeOK /\ AirlineTypeOK /\ expired = {}
                  /\ AgreedPrepared /\ AbortHasPart /\ OverDecided
  BY TwoPhaseParts, AgreedStates, AbortedState, OverIsDecided
<1> QED BY <1>1, PTL

\* Only commands that a server carries out change the states.
LEMMA StatesKept ==
  ASSUME TwoPhase, TwoPhase', Next, ~(\E s \in Servers : ApplyCommand(s)),
         NEW t \in Trans, NEW a \in DOMAIN Legs[t]
  PROVE  PartState(t, a)' = PartState(t, a)
<1> PICK p : p = Part(t, a)
  OBVIOUS
<1> DEFINE P == PartState(t, a)' = PartState(t, a)
<1>0. TypeOK /\ TranLayerTypeOK /\ AirlineTypeOK /\ Enlisted /\ Polled /\ Awaited
  BY TwoPhaseParts
<1>1. ASSUME pptList'[t] = pptList[t], commitGrp'[t] = commitGrp[t],
             oldLog'[p][t] = oldLog[p][t], storeHandler'[p] = storeHandler[p]
      PROVE  P
  <2>1. \A vote \in {"COMMIT", "ABORT"} : Votes(t, p, vote)' <=> Votes(t, p, vote)
    BY <1>1 DEF Votes, Voting
  <2> QED BY <1>1, <2>1, StateFrame
<1>2. ASSUME NEW u \in Trans, ManageTransaction(u) PROVE P
  <2>0. UNCHANGED <<oldLog, storeHandler>>
    BY <1>2 DEF ManageTransaction, airlineVars
  <2>1. CASE BookingFlights(u) \/ InitTrans(u)
    <3>1. CASE t # u
      BY <1>0, <1>1, <2>0, <2>1, <3>1
      DEF BookingFlights, InitTrans, TypeOK, TranLayerTypeOK
    <3>2. CASE t = u
      <4>1. ~Started(t)
        BY <2>1, <3>2 DEF BookingFlights, InitTrans, Started
      <4>2. PartState(t, a) = "working"
        BY <4>1, NotStarted DEF PartState
      <4>3. CASE BookingFlights(u)
        <5>1. commitGrp'[t] = <<>>
          BY <4>1, <4>3, NotStarted DEF BookingFlights
        <5> QED BY <4>2, <5>1 DEF PartState
      <4>4. CASE InitTrans(u)
        <5>1. /\ UNCHANGED pptList /\ client[t] # "new"
              /\ commitGrp'[t] = [s \in ToSet(pptList[t]) |-> "NOT_DECIDED"]
          BY <1>0, <3>2, <4>4 DEF InitTrans, TranLayerTypeOK
        <5>2. p \in Servers /\ p \in ToSet(pptList[t])
          BY <5>1, PartIsAsked
        <5>3. oldLog[p][t] = "NOT_DECIDED" /\ ~(Voting(p) /\ storeHandler[p].tran = t)
          BY <4>1, <5>2, NotStarted
        <5>4. Part(t, a)' = p
          BY <5>1 DEF Part
        <5>5. commitGrp'[t] # <<>>
          <6>1. DOMAIN commitGrp'[t] # {}
            BY <5>1, <5>2
          <6>2. DOMAIN <<>> = {}
            OBVIOUS
          <6> QED BY <6>1, <6>2
        <5>6. \A vote \in {"COMMIT", "ABORT"} : ~Votes(t, p, vote)'
          BY <2>0, <5>1, <5>2, <5>3 DEF Votes, Voting
        <5>7. StateOf(t, p)' = "working"
          BY <2>0, <5>3, <5>6 DEF StateOf
        <5>8. PartState(t, a)' = StateOf(t, Part(t, a))'
          BY <5>5 DEF PartState
        <5> QED BY <4>2, <5>4, <5>7, <5>8
      <4> QED BY <2>1, <4>3, <4>4
    <3> QED BY <3>1, <3>2
  <2>2. CASE SendOrder(u) \/ ExpireTrans(u)
    BY <1>1, <2>0, <2>2 DEF SendOrder, ExpireTrans
  <2> QED BY <1>2, <2>1, <2>2 DEF ManageTransaction
<1>3. ASSUME NEW s \in Servers, Vote(s) PROVE P
  <2> DEFINE u    == storeHandler[s].tran
             vote == storeHandler[s].vote
  <2>1. /\ Voting(s) /\ u \in Trans /\ vote \in {"COMMIT", "ABORT"} /\ Started(u)
        /\ s \in DOMAIN commitGrp[u] /\ commitGrp[u][s] = "NOT_DECIDED"
        /\ commitGrp'[u] = [commitGrp[u] EXCEPT ![s] = vote]
        /\ \A v \in Trans \ {u} : commitGrp'[v] = commitGrp[v]
        /\ Voted(s) /\ CountVote(TM[u], u, s, vote)
    BY <1>0, <1>3, VoteCounts
  <2>2. /\ UNCHANGED <<oldLog, pptList>>
        /\ storeHandler' = [storeHandler EXCEPT ![s] = Waiting]
    BY <2>1 DEF Voted, CountVote
  <2>3. /\ \A r \in Servers \ {s} : storeHandler'[r] = storeHandler[r]
        /\ ~Voting(s)'
    <3>1. DOMAIN storeHandler = Servers
      BY <1>0 DEF AirlineTypeOK
    <3>2. storeHandler'[s] = Waiting /\ \A r \in Servers \ {s} : storeHandler'[r] = storeHandler[r]
      BY <2>2, <3>1
    <3> QED BY <3>2 DEF Voting, Waiting
  <2>4. CASE ~Started(t)
    <3>1. commitGrp[t] = <<>> /\ commitGrp'[t] = commitGrp[t]
      BY <2>1, <2>4, NotStarted
    <3> QED BY <3>1 DEF PartState
  <2>5. CASE Started(t)
    <3>1. p \in Servers /\ p \in DOMAIN commitGrp[t] /\ commitGrp[t] # <<>>
      BY <2>5, PartIsAsked DEF Started
    <3>2. Part(t, a)' = p
      BY <2>2 DEF Part
    <3>3. (commitGrp'[t] = <<>>) <=> (commitGrp[t] = <<>>)
      <4>1. DOMAIN commitGrp'[t] = DOMAIN commitGrp[t] /\ DOMAIN <<>> = {}
        BY <2>1
      <4> QED BY <3>1, <4>1
    <3>4. \A v \in {"COMMIT", "ABORT"} : Votes(t, p, v)' <=> Votes(t, p, v)
      <4>1. CASE p = s /\ t = u
        <5>1. /\ commitGrp'[t][p] = vote
          BY <2>1, <4>1
        <5>2. \A v : Votes(t, p, v)' <=> vote = v
          BY <2>3, <4>1, <5>1 DEF Votes
        <5>3. \A v \in {"COMMIT", "ABORT"} : Votes(t, p, v) <=> vote = v
          BY <2>1, <4>1 DEF Votes
        <5> QED BY <5>2, <5>3
      <4>2. CASE p = s /\ t # u
        <5>1. commitGrp'[t] = commitGrp[t]
          BY <2>1, <4>2
        <5>2. ~(Voting(p) /\ storeHandler[p].tran = t) /\ ~Voting(p)'
          BY <2>3, <4>2
        <5> QED BY <5>1, <5>2 DEF Votes
      <4>3. CASE p # s
        <5>1. storeHandler'[p] = storeHandler[p]
          BY <2>3, <3>1, <4>3
        <5>2. commitGrp'[t][p] = commitGrp[t][p]
          BY <2>1, <3>1, <4>3
        <5> QED BY <5>1, <5>2 DEF Votes, Voting
      <4> QED BY <4>1, <4>2, <4>3
    <3> QED BY <2>2, <3>2, <3>3, <3>4, StateFrame
  <2> QED BY <2>4, <2>5
<1>4. ASSUME NEW m \in Agencies, NEW s \in Servers, RequestTransaction(m, s) PROVE P
  BY <1>1, <1>4 DEF RequestTransaction, Returned, airlineVars
<1>5. CASE \E f \in Flights : RequestFlight(f)
  BY <1>1, <1>5 DEF RequestFlight, tranLayerVars, airlineVars
<1>6. ASSUME NEW s \in Servers, NEW u \in Trans, Expire(s, u) PROVE P
  <2>1. UNCHANGED <<oldLog, pptList, commitGrp>> /\ storeHandler[s] = Waiting
    BY <1>6 DEF Expire, ExpireTransaction, tranLayerVars
  <2>2. UNCHANGED storeHandler \/ storeHandler' = [storeHandler EXCEPT ![s] = Asking]
    BY <1>6 DEF Expire, ExpireTransaction
  <2>3. CASE UNCHANGED storeHandler
    BY <1>1, <2>1, <2>3
  <2>4. CASE storeHandler' = [storeHandler EXCEPT ![s] = Asking]
    <3>1. ~Voting(s)
      BY <2>1 DEF Voting, Waiting
    <3>2. \A r : Voting(r)' => Voting(r) /\ storeHandler'[r] = storeHandler[r]
      BY <2>4 DEF Voting, Asking
    <3>3. \A r : Voting(r) => storeHandler'[r] = storeHandler[r] /\ Voting(r)'
      BY <2>4, <3>1 DEF Voting
    <3>4. Part(t, a)' = p
      BY <2>1 DEF Part
    <3>5. \A v \in {"COMMIT", "ABORT"} : Votes(t, p, v)' <=> Votes(t, p, v)
      BY <2>1, <3>2, <3>3 DEF Votes
    <3> QED BY <2>1, <3>4, <3>5, StateFrame
  <2> QED BY <2>2, <2>3, <2>4
<1> QED BY <1>2, <1>3, <1>4, <1>5, <1>6 DEF Next
\* Of the states a command changes only that of the server which carries it out.
LEMMA OthersKept ==
  ASSUME TwoPhase, NEW s \in Servers, NEW c, Execute(s, c), UNCHANGED tranLayerVars,
         NEW t \in Trans, NEW a \in DOMAIN Legs[t],
         \/ s # Part(t, a)
         \/ t # c.tran
         \/ UNCHANGED oldLog /\ ~Voting(s)'
  PROVE  PartState(t, a)' = PartState(t, a)
<1> PICK p : p = Part(t, a)
  OBVIOUS
<1>0. TypeOK /\ Enlisted /\ AirlineTypeOK
  BY TwoPhaseParts
<1>1. /\ HandOver(s, c)
      /\ \/ c.op = "CREATE" /\ CreateFlight(s, c.flight)
         \/ c.op = "INIT" /\ InitTransaction(s, c.tran, c.own)
         \/ c.op = "RESPONSE" /\ ResponseTransaction(s, c.tran, c.vote)
  BY DEF Execute
<1>2. /\ \A r \in Servers \ {s} : storeHandler'[r] = storeHandler[r]
      /\ ~Voting(s)
      /\ Voting(s)' => c = InitCmd(storeHandler'[s].tran, s)
      /\ UNCHANGED <<pptList, commitGrp>>
  <2>1. ApplyCommand(s)
    BY <1>1 DEF HandOver, ApplyCommand
  <2>2. Handed(s)' = Handed(s) \cup {c}
    BY <1>0, <1>1, NetTypeHandOver DEF TypeOK
  <2>3. Voting(s)' => /\ InitCmd(storeHandler'[s].tran, s) \in Pending(s)
                      /\ InitCmd(storeHandler'[s].tran, s) \in Handed(s)'
    BY <1>0, <2>1, VoteBegins
  <2>4. \A d \in Pending(s) : d \notin Handed(s)
    BY DEF Pending, Handed
  <2>5. Voting(s)' => c = InitCmd(storeHandler'[s].tran, s)
    BY <2>2, <2>3, <2>4
  <2> QED BY <1>0, <2>1, <2>5, VoteBegins DEF tranLayerVars
<1>3. \/ UNCHANGED oldLog
      \/ oldLog' = [oldLog EXCEPT ![s][c.tran] = c.vote]
  BY <1>1 DEF CreateFlight, InitTransaction, ResponseTransaction
<1>4. CASE ~Started(t)
  BY <1>2, <1>4, NotStarted DEF PartState
<1>5. CASE Started(t)
  <2>1. p \in Servers
    BY <1>5, PartIsAsked DEF Started
  <2>2. s # p \/ t # c.tran \/ (UNCHANGED oldLog /\ ~Voting(s)')
    OBVIOUS
  <2>3. oldLog'[p][t] = oldLog[p][t]
    BY <1>0, <1>3, <2>1, <2>2 DEF AirlineTypeOK
  <2>4. \A vote \in {"COMMIT", "ABORT"} : Votes(t, p, vote)' <=> Votes(t, p, vote)
    <3>1. CASE s # p
      BY <1>2, <2>1, <3>1 DEF Votes, Voting
    <3>2. CASE s = p
      <4>1. ~(Voting(p)' /\ storeHandler'[p].tran = t)
        BY <1>2, <2>2, <3>2 DEF InitCmd
      <4> QED BY <1>2, <3>2, <4>1 DEF Votes
    <3> QED BY <3>1, <3>2
  <2> QED BY <1>2, <2>3, <2>4, StateFrame
<1> QED BY <1>4, <1>5

\* The moves of the abstract specification.
LEMMA MapMoves ==
  ASSUME NEW t \in Trans, NEW a \in DOMAIN Legs[t], NEW to,
         PartState(t, a)' = to, UNCHANGED client,
         \A u \in Trans : \A b \in DOMAIN Legs[u] :
           u # t \/ b # a => PartState(u, b)' = PartState(u, b)
  PROVE  Commits!Move(t, a, to)
BY DEF Commits!Move, PartState

LEMMA MapStutters ==
  ASSUME \A u \in Trans : \A b \in DOMAIN Legs[u] : PartState(u, b)' = PartState(u, b),
         \A u \in Trans : Said(u)' = Said(u)
  PROVE  UNCHANGED Commits!vars
<1>1. [t \in Trans |-> [a \in DOMAIN Legs[t] |-> PartState(t, a)']]
        = [t \in Trans |-> [a \in DOMAIN Legs[t] |-> PartState(t, a)]]
  OBVIOUS
<1>2. [t \in Trans |-> Said(t)'] = [t \in Trans |-> Said(t)]
  OBVIOUS
<1> QED BY <1>1, <1>2 DEF Commits!vars, PartState, Said
\* A server that carries out its order is prepared, or aborts alone.
LEMMA OrderMoves ==
  ASSUME TwoPhase, TwoPhase', NEW s \in Servers, ApplyCommand(s), Voting(s)'
  PROVE  \E t \in Trans : \E a \in DOMAIN Legs[t] :
           Commits!Prepare(t, a) \/ Commits!Abort(t, a)
<1>0. TypeOK /\ Enlisted /\ Awaited /\ AirlineTypeOK /\ PartAfterInit(s)
  BY TwoPhaseParts
<1> PICK c \in Pending(s) : Execute(s, c) /\ UNCHANGED tranLayerVars
  BY DEF ApplyCommand
<1> PICK t : t = storeHandler'[s].tran
  OBVIOUS
<1>1. /\ t \in Trans /\ c = InitCmd(t, s) /\ ~Voting(s)
      /\ InitCmd(t, s) \in Pending(s)
      /\ HandOver(s, c)
      /\ UNCHANGED <<pptList, commitGrp, client>>
  <2>1. HandOver(s, c)
    BY DEF Execute
  <2>2. Handed(s)' = Handed(s) \cup {c}
    BY <1>0, <2>1, NetTypeHandOver DEF TypeOK
  <2>3. /\ t \in Trans /\ ~Voting(s)
        /\ InitCmd(t, s) \in Pending(s) /\ InitCmd(t, s) \in Handed(s)'
    BY <1>0, VoteBegins
  <2>4. InitCmd(t, s) \notin Handed(s)
    BY <2>3 DEF Pending, Handed
  <2> QED BY <2>1, <2>2, <2>3, <2>4 DEF tranLayerVars
<1>2. c.op = "INIT" /\ c.tran = t /\ c.own = s
  BY <1>1 DEF InitCmd
<1>3. UNCHANGED oldLog
  BY <1>2 DEF Execute, InitTransaction
<1>4. oldLog[s][t] = "NOT_DECIDED"
  BY <1>0, <1>1, <1>2, OrderIsNew
<1>5. Started(t) /\ s \in ToSet(pptList[t])
  <2>1. AirlineOf[s] \in Airlines /\ c \in proposed[AirlineOf[s]]
    BY <1>0, <1>1, NetTypeHandOver DEF TypeOK
  <2> QED BY <1>0, <1>2, <2>1 DEF Enlisted, CommandsOfParticipants
<1>6. Outstanding(t, s)
  BY <1>1 DEF Outstanding
<1>7. commitGrp[t][s] = "NOT_DECIDED"
  BY <1>0, <1>1, <1>6 DEF Awaited
<1> PICK a : a = AirlineOf[s]
  OBVIOUS
<1>8. a \in DOMAIN Legs[t] /\ Part(t, a) = s /\ commitGrp[t] # <<>>
  BY <1>1, <1>5, PartIsAsked DEF Started
<1>9. PartState(t, a) = "working"
  BY <1>1, <1>4, <1>7, <1>8 DEF PartState, StateOf, Votes
<1>10. storeHandler'[s].vote \in {"COMMIT", "ABORT"}
  BY TwoPhaseThen DEF AirlineTypeOK, Voting
<1>11. PartState(t, a)' = IF storeHandler'[s].vote = "ABORT" THEN "aborted" ELSE "prepared"
  <2>1. PartState(t, a)' = StateOf(t, s)'
    BY <1>1, <1>8 DEF PartState, Part, StateOf, Votes
  <2>2. \A vote \in {"COMMIT", "ABORT"} : Votes(t, s, vote)' <=> storeHandler'[s].vote = vote
    BY <1>1, <1>7 DEF Votes
  <2> QED BY <1>3, <1>4, <1>10, <2>1, <2>2 DEF StateOf
<1>12. \A u \in Trans : \A b \in DOMAIN Legs[u] :
         u # t \/ b # a => PartState(u, b)' = PartState(u, b)
  <2> SUFFICES ASSUME NEW u \in Trans, NEW b \in DOMAIN Legs[u], u # t \/ b # a
               PROVE  PartState(u, b)' = PartState(u, b)
    OBVIOUS
  <2>1. CASE ~Started(u)
    BY <1>1, <2>1, NotStarted DEF PartState
  <2>2. CASE Started(u)
    <3>1. AirlineOf[Part(u, b)] = b
      BY <2>2, PartIsAsked DEF Started
    <3> QED BY <1>2, <3>1, OthersKept
  <2> QED BY <2>1, <2>2
<1> PICK to : to = PartState(t, a)'
  OBVIOUS
<1>13. Commits!Move(t, a, to)
  BY <1>1, <1>8, <1>12, MapMoves
<1>14. Commits!Prepare(t, a) \/ Commits!Abort(t, a)
  <2>1. [u \in Trans |-> [b \in DOMAIN Legs[u] |-> PartState(u, b)]][t][a] = "working"
    BY <1>1, <1>8, <1>9
  <2> QED BY <1>8, <1>11, <1>13, <2>1 DEF Commits!Prepare, Commits!Abort, PartState
<1> QED BY <1>1, <1>8, <1>14

\* A server that carries out a decision commits when all are prepared, and
\* aborts when one of them has.
LEMMA DecisionMoves ==
  ASSUME TwoPhase, NEW s \in Servers, ApplyCommand(s), ~(UNCHANGED oldLog)
  PROVE  \/ \A u \in Trans : \A b \in DOMAIN Legs[u] : PartState(u, b)' = PartState(u, b)
         \/ \E t \in Trans : \E a \in DOMAIN Legs[t] :
              Commits!Commit(t, a) \/ Commits!Abort(t, a)
<1> DEFINE Same == \A u \in Trans : \A b \in DOMAIN Legs[u] :
                     PartState(u, b)' = PartState(u, b)
<1>0. /\ TypeOK /\ Enlisted /\ AirlineTypeOK /\ AbortVoted /\ CommitAgreed
      /\ expired = {} /\ PreparedLocked(s)
  BY TwoPhaseParts
<1> PICK c \in Pending(s) : Execute(s, c) /\ UNCHANGED tranLayerVars
  BY DEF ApplyCommand
<1> PICK t : t = c.tran
  OBVIOUS
<1>1. /\ storeHandler[s] = Waiting
      /\ HandOver(s, c)
      /\ c.op = "RESPONSE" /\ ResponseTransaction(s, t, c.vote)
      /\ UNCHANGED <<pptList, commitGrp, client>>
  BY DEF Execute, CreateFlight, InitTransaction, tranLayerVars
<1>2. /\ AirlineOf[s] \in Airlines /\ c \in proposed[AirlineOf[s]]
      /\ t \in Trans /\ Flies(s, t)
  BY <1>0, <1>1, NextCommand, NetTypeHandOver DEF TypeOK
<1>3. /\ c.vote = "COMMIT" \/ (c.vote = "ABORT" /\ decision[t] = "ABORT")
      /\ c.vote = "COMMIT" => Agreed(t)
  BY <1>0, <1>1, <1>2 DEF AbortVoted, CommitAgreed
<1>4. Started(t)
  BY <1>0, <1>1, <1>2 DEF Enlisted, CommandsOfParticipants
<1> PICK vote : vote = c.vote
  OBVIOUS
<1>5. /\ DOMAIN logBuf[s][t] # {} /\ oldLog' = [oldLog EXCEPT ![s][t] = vote]
      /\ UNCHANGED storeHandler
  BY <1>1 DEF ResponseTransaction
<1>6. ~Voting(s) /\ ~Voting(s)' /\ oldLog'[s][t] = vote
  BY <1>0, <1>1, <1>2, <1>5 DEF Voting, Waiting, AirlineTypeOK
<1>7. oldLog[s][t] # "COMMIT"
  BY <1>0, <1>2, <1>5, <1>6 DEF PreparedLocked, Prepared
<1> PICK a : a = AirlineOf[s]
  OBVIOUS
<1>8. a \in DOMAIN Legs[t] /\ commitGrp[t] # <<>>
  BY <1>2, <1>4, PartIsAsked DEF Flies, Started
<1>9. ASSUME NEW u \in Trans, NEW b \in DOMAIN Legs[u], u # t \/ b # a
      PROVE  PartState(u, b)' = PartState(u, b)
  <2>1. CASE ~Started(u)
    BY <1>1, <2>1, NotStarted DEF PartState
  <2>2. CASE Started(u)
    <3>1. AirlineOf[Part(u, b)] = b
      BY <2>2, PartIsAsked DEF Started
    <3> QED BY <1>9, <3>1, OthersKept
  <2> QED BY <2>1, <2>2
<1>10. /\ vote \in {"COMMIT", "ABORT"}
       /\ vote = "COMMIT" => Agreed(t)
       /\ vote # "COMMIT" => decision[t] = "ABORT"
  BY <1>3
<1>11. CASE s # Part(t, a)
  <2>1. PartState(t, a)' = PartState(t, a)
    BY <1>2, <1>8, <1>11, OthersKept
  <2>2. Same
    BY <1>9, <2>1
  <2> QED BY <2>2
<1>12. CASE s = Part(t, a)
  <2>1. PartState(t, a) = StateOf(t, s) /\ PartState(t, a)' = StateOf(t, s)'
    BY <1>1, <1>8, <1>12 DEF PartState, Part, StateOf, Votes
  <2>2. PartState(t, a)' = IF vote = "COMMIT" THEN "committed" ELSE "aborted"
    <3>1. vote = "COMMIT" => ~Votes(t, s, "ABORT")'
      <4>1. s \in DOMAIN commitGrp[t]
        BY <1>2, <1>4, <1>8, <1>12, PartIsAsked DEF Started
      <4> QED BY <1>1, <1>6, <1>10, <4>1 DEF Votes, Agreed
    <3> QED BY <1>6, <1>10, <2>1, <3>1 DEF StateOf
  <2>3. PartState(t, a) \in {"working", "prepared", "aborted"}
    BY <1>7, <2>1 DEF StateOf
  <2> PICK to : to = PartState(t, a)'
    OBVIOUS
  <2>4. Commits!Move(t, a, to)
    BY <1>1, <1>2, <1>8, <1>9, MapMoves
  <2>5. \A b \in DOMAIN Legs[t] :
          [u \in Trans |-> [d \in DOMAIN Legs[u] |-> PartState(u, d)]][t][b]
            = PartState(t, b)
    BY <1>2
  <2>6. CASE vote = "COMMIT"
    <3>1. \A b \in DOMAIN Legs[t] : PartState(t, b) \in {"prepared", "committed"}
      BY <1>2, <1>3, <1>4, <1>10, <2>6, AgreedStates DEF AgreedPrepared
    <3>2. PartState(t, a) = "prepared"
      BY <1>8, <2>3, <3>1
    <3>3. Commits!Commit(t, a)
      BY <1>2, <1>8, <2>2, <2>4, <2>5, <2>6, <3>1, <3>2
      DEF Commits!Commit, Commits!AllIn, PartState
    <3> QED BY <1>2, <1>8, <3>3
  <2>7. CASE vote # "COMMIT"
    <3>1. \E b \in DOMAIN Legs[t] : PartState(t, b) = "aborted"
      BY <1>2, <1>3, <1>4, <1>10, <2>7, AbortedState DEF AbortHasPart
    <3>2. CASE PartState(t, a) = "aborted"
      <4>1. Same
        BY <1>9, <2>2, <2>7, <3>2
      <4> QED BY <4>1
    <3>3. CASE PartState(t, a) # "aborted"
      <4>1. Commits!Abort(t, a)
        BY <1>2, <1>8, <2>2, <2>3, <2>4, <2>5, <2>7, <3>1, <3>3
        DEF Commits!Abort, PartState
      <4> QED BY <1>2, <1>8, <4>1
    <3> QED BY <3>2, <3>3
  <2> QED BY <2>6, <2>7
<1> QED BY <1>11, <1>12
\* Going on with call c, the handler tells its client nothing or decision d.
Told(c, d) ==
  \/ UNCHANGED client
  \/ /\ c.why # "init"
     /\ client[c.tran] = "waiting"
     /\ client' = [client EXCEPT ![c.tran] = IF d = "COMMIT" THEN "booked"
                                                           ELSE "failed"]

LEMMA ContinueTells ==
  ASSUME NEW m, NEW c, NEW d, Continue(m, c, d)
  PROVE  Told(c, d)
BY DEF Continue, Reply, Told

\* t is over, and its client is told so.
Tells(t) ==
  /\ Started(t) /\ t \notin activeTransMap' /\ AllVoted(commitGrp[t])'
  /\ client[t] = "waiting"
  /\ client' = [client EXCEPT ![t] = IF decision'[t] = "COMMIT" THEN "booked"
                                                               ELSE "failed"]

\* A client is told when all have voted.
LEMMA ToldWhenOver ==
  ASSUME TwoPhase, TwoPhase', [Next]_vars
  PROVE  (\A t \in Trans : Said(t)' = Said(t)) \/ (\E t \in Trans : Tells(t))
<1> DEFINE P == (\A t \in Trans : Said(t)' = Said(t)) \/ (\E t \in Trans : Tells(t))
<1>0. /\ TypeOK /\ Enlisted /\ Polled /\ Awaited /\ TranLayerTypeOK
      /\ CallsAfterVotes /\ expired = {}
  BY TwoPhaseParts
<1>1. ASSUME UNCHANGED client PROVE P
  BY <1>1 DEF Said
<1>2. ASSUME NEW u \in Trans, ManageTransaction(u) PROVE P
  <2>1. CASE BookingFlights(u) \/ InitTrans(u)
    <3>1. \A t \in Trans : client'[t] \in Answers \/ client[t] \in Answers
                             => client'[t] = client[t]
      BY <1>0, <2>1 DEF BookingFlights, InitTrans, TranLayerTypeOK, Answers
    <3> QED BY <3>1 DEF Said
  <2>2. CASE SendOrder(u)
    BY <1>1, <2>2 DEF SendOrder
  <2>3. CASE ExpireTrans(u)
    <3>1. expired' = {}
      BY TwoPhaseThen
    <3>2. u \notin expired'
      BY <3>1
    <3> QED BY <1>1, <2>3, <3>2 DEF ExpireTrans
  <2> QED BY <1>2, <2>1, <2>2, <2>3 DEF ManageTransaction
<1>3. ASSUME NEW m \in Agencies, NEW s \in Servers, RequestTransaction(m, s) PROVE P
  <2> PICK c : c = [call[m] EXCEPT !.todo = Tail(@)]
    OBVIOUS
  <2>1. /\ call[m] \notin {Idle, Blocked}
        /\ Continue(m, c, decision[call[m].tran])
        /\ UNCHANGED <<activeTransMap, commitGrp, decision>>
    BY <1>3 DEF RequestTransaction, Returned
  <2>2. c.why = call[m].why /\ c.tran = call[m].tran /\ c.tran \in Trans
    BY <1>0, <2>1, CallFields
  <2>3. Started(c.tran)
    BY <1>0, <2>1, <2>2, CallUnderWay
  <2>4. c.why # "expire"
    BY <1>0, <2>1, <2>2 DEF CallsAfterVotes
  <2>5. c.why = "complete" => c.tran \notin activeTransMap /\ AllVoted(commitGrp[c.tran])
    BY <1>0, <2>1, <2>2 DEF CallsAfterVotes
  <2>6. CASE UNCHANGED client
    BY <1>1, <2>6
  <2> PICK d : d = decision[c.tran]
    OBVIOUS
  <2>7. CASE /\ c.why \in {"complete", "expire"}
             /\ client[c.tran] = "waiting"
             /\ client' = [client EXCEPT ![c.tran] = IF d = "COMMIT" THEN "booked"
                                                                   ELSE "failed"]
    <3>1. Tells(c.tran)
      BY <2>1, <2>3, <2>4, <2>5, <2>7 DEF Tells, AllVoted
    <3> QED BY <2>2, <3>1
  <2>8. Continue(m, c, d)
    BY <2>1, <2>2
  <2>9. Told(c, d)
    BY <2>8, ContinueTells
  <2>10. c.why \in {"init", "complete", "expire"}
    BY <1>0, <2>1, <2>2, CallFields
  <2> QED BY <2>6, <2>7, <2>9, <2>10 DEF Told
<1>4. ASSUME NEW s \in Servers, Vote(s) PROVE P
  <2> PICK u : u = storeHandler[s].tran
    OBVIOUS
  <2> PICK vote : vote = storeHandler[s].vote
    OBVIOUS
  <2> PICK d : d = AfterVote(decision[u], vote)
    OBVIOUS
  <2>1. /\ u \in Trans /\ Started(u) /\ CountVote(TM[u], u, s, vote)
        /\ commitGrp'[u] = [commitGrp[u] EXCEPT ![s] = vote]
    BY <1>0, <1>4, VoteCounts
  <2>2. decision'[u] = d
    BY <1>0, <2>1 DEF CountVote, TranLayerTypeOK
  <2>3. \/ UNCHANGED client
        \/ /\ AllVoted(commitGrp'[u])
           /\ activeTransMap' = activeTransMap \ {u}
           /\ \E todo : Continue(TM[u], [why |-> "complete", tran |-> u, todo |-> todo], d)
    BY <2>1 DEF CountVote
  <2>4. ASSUME AllVoted(commitGrp'[u]), activeTransMap' = activeTransMap \ {u},
               NEW todo,
               Continue(TM[u], [why |-> "complete", tran |-> u, todo |-> todo], d)
        PROVE  P
    <3> PICK c : c = [why |-> "complete", tran |-> u, todo |-> todo]
      OBVIOUS
    <3>1. c.tran = u /\ Continue(TM[u], c, d)
      BY <2>4
    <3>2. \/ UNCHANGED client
          \/ /\ client[u] = "waiting"
             /\ client' = [client EXCEPT ![u] = IF d = "COMMIT" THEN "booked" ELSE "failed"]
      BY <3>1, ContinueTells DEF Told
    <3>3. CASE UNCHANGED client
      BY <1>1, <3>3
    <3>4. CASE ~(UNCHANGED client)
      <4>1. /\ client[u] = "waiting"
            /\ client' = [client EXCEPT ![u] = IF decision'[u] = "COMMIT" THEN "booked"
                                                                         ELSE "failed"]
        BY <2>2, <3>2, <3>4
      <4>2. u \notin activeTransMap' /\ AllVoted(commitGrp[u])'
        BY <2>4 DEF AllVoted
      <4>3. Tells(u)
        BY <2>1, <4>1, <4>2 DEF Tells
      <4> QED BY <2>1, <4>3
    <3> QED BY <3>3, <3>4
  <2> QED BY <1>1, <2>3, <2>4
<1>5. CASE \/ \E f \in Flights : RequestFlight(f)
           \/ \E s \in Servers : ApplyCommand(s)
           \/ \E s \in Servers, t \in Trans : Expire(s, t)
           \/ UNCHANGED vars
  BY <1>1, <1>5 DEF RequestFlight, ApplyCommand, Expire, tranLayerVars, vars
<1> QED BY <1>2, <1>3, <1>4, <1>5 DEF Next

\* It is told what the states of the parts say.
LEMMA TellingAnswers ==
  ASSUME TwoPhase, TwoPhase', NEW t \in Trans, Tells(t),
         \A u \in Trans : \A b \in DOMAIN Legs[u] : PartState(u, b)' = PartState(u, b)
  PROVE  Commits!Answer(t)
<1>0. TranLayerTypeOK
  BY TwoPhaseParts
<1>1. /\ Started(t)' /\ t \notin activeTransMap' /\ AllVoted(commitGrp[t])'
      /\ Said(t) = "none"
      /\ Said(t)' = IF decision'[t] = "COMMIT" THEN "booked" ELSE "failed"
      /\ \A u \in Trans \ {t} : Said(u)' = Said(u)
  BY <1>0 DEF Tells, Said, Answers, Started, TranLayerTypeOK
<1>2. (decision'[t] = "COMMIT" /\ Agreed(t)') \/ decision'[t] = "ABORT"
  BY <1>1, TwoPhaseThen DEF OverDecided
<1>3. decision'[t] = "COMMIT" =>
        \A a \in DOMAIN Legs[t] : PartState(t, a) \in {"prepared", "committed"}
  BY <1>1, <1>2, TwoPhaseThen DEF AgreedPrepared
<1>4. decision'[t] = "ABORT" => \E a \in DOMAIN Legs[t] : PartState(t, a) = "aborted"
  BY <1>1, TwoPhaseThen DEF AbortHasPart
<1>5. [u \in Trans |-> Said(u)'] =
        [[u \in Trans |-> Said(u)] EXCEPT
            ![t] = IF decision'[t] = "COMMIT" THEN "booked" ELSE "failed"]
  BY <1>1
<1>6. [u \in Trans |-> Said(u)][t] = "none"
  BY <1>1
<1>7. \A b \in DOMAIN Legs[t] :
        [u \in Trans |-> [a \in DOMAIN Legs[u] |-> PartState(u, a)]][t][b] = PartState(t, b)
  OBVIOUS
<1>8. [u \in Trans |-> [a \in DOMAIN Legs[u] |-> PartState(u, a)']]
        = [u \in Trans |-> [a \in DOMAIN Legs[u] |-> PartState(u, a)]]
  OBVIOUS
<1>9. CASE decision'[t] = "COMMIT"
  BY <1>3, <1>5, <1>6, <1>7, <1>8, <1>9 DEF Commits!Answer, Commits!AllIn, PartState, Said
<1>10. CASE decision'[t] = "ABORT"
  BY <1>4, <1>5, <1>6, <1>7, <1>8, <1>10 DEF Commits!Answer, PartState, Said
<1> QED BY <1>2, <1>9, <1>10

\* Every step is one of the atomic commitment or a stutter.
LEMMA StepCommits ==
  TwoPhase /\ TwoPhase' /\ [Next]_vars => [Commits!Next]_(Commits!vars)
<1> SUFFICES ASSUME TwoPhase, TwoPhase', [Next]_vars
             PROVE  [Commits!Next]_(Commits!vars)
  OBVIOUS
<1> DEFINE Same == \A u \in Trans : \A b \in DOMAIN Legs[u] :
                     PartState(u, b)' = PartState(u, b)
<1>1. CASE UNCHANGED vars
  <2>1. Same /\ \A t \in Trans : Said(t)' = Said(t)
    BY <1>1 DEF vars, tranLayerVars, airlineVars, PartState, Part, StateOf, Votes, Voting, Said
  <2> QED BY <2>1, MapStutters
<1>2. ASSUME NEW s \in Servers, ApplyCommand(s) PROVE [Commits!Next]_(Commits!vars)
  <2>1. \A t \in Trans : Said(t)' = Said(t)
    BY <1>2 DEF ApplyCommand, tranLayerVars, Said
  <2>2. ASSUME NEW t \in Trans, NEW a \in DOMAIN Legs[t],
               Commits!Prepare(t, a) \/ Commits!Abort(t, a) \/ Commits!Commit(t, a)
        PROVE  Commits!Next
    <3>1. a \in DOMAIN [u \in Trans |-> DOMAIN Legs[u]][t] \/ a \in [u \in Trans |-> DOMAIN Legs[u]][t]
      OBVIOUS
    <3> QED BY <2>2, <3>1 DEF Commits!Next
  <2>3. CASE Voting(s)'
    BY <1>2, <2>2, <2>3, OrderMoves
  <2>4. CASE ~Voting(s)' /\ UNCHANGED oldLog
    <3>1. PICK c \in Pending(s) : Execute(s, c) /\ UNCHANGED tranLayerVars
      BY <1>2 DEF ApplyCommand
    <3>2. Same
      BY <2>4, <3>1, OthersKept
    <3> QED BY <2>1, <3>2, MapStutters
  <2>5. CASE ~(UNCHANGED oldLog)
    BY <1>2, <2>1, <2>2, <2>5, DecisionMoves, MapStutters
  <2> QED BY <2>3, <2>4, <2>5
<1>3. CASE Next /\ ~(\E s \in Servers : ApplyCommand(s))
  <2>1. Same
    BY <1>3, StatesKept
  <2>2. CASE \A t \in Trans : Said(t)' = Said(t)
    BY <2>1, <2>2, MapStutters
  <2>3. ASSUME NEW t \in Trans, Tells(t) PROVE Commits!Next
    <3>1. Commits!Answer(t)
      BY <2>1, <2>3, TellingAnswers
    <3> QED BY <3>1 DEF Commits!Next
  <2> QED BY <1>3, <2>2, <2>3, ToldWhenOver
<1> QED BY <1>1, <1>2, <1>3

\* As long as no timer of a TM goes off too early, a booking is one atomic
\* commitment: to the airlines asked and to the client that waits for it.
THEOREM BookingsAreAtomic == ~Timeouts => (Spec => IsAtomicCommit)
<1> SUFFICES ASSUME ~Timeouts PROVE Spec => IsAtomicCommit
  OBVIOUS
<1>1. Init => TwoPhase
  BY TypeInit, EnlistedInit, VotesInit, DecidedInit, BooksInit, Voted2PCInit
  DEF TwoPhase, Counted
<1>2. TwoPhase /\ [Next]_vars => TwoPhase'
  <2> SUFFICES ASSUME TwoPhase, [Next]_vars PROVE TwoPhase'
    OBVIOUS
  <2>1. Counted' /\ Decided' /\ Voted2PC'
    BY CountedStep, DecisionStep, CallsStep, CommitAgreedStep, Voted2PCStep
    DEF TwoPhase, Decided
  <2>2. \A s \in Servers : Books(s)'
    BY BooksStep DEF TwoPhase, Counted
  <2> QED BY <2>1, <2>2 DEF TwoPhase
<1>3. Init => Commits!Init
  <2> SUFFICES ASSUME Init PROVE Commits!Init
    OBVIOUS
  <2>1. \A t \in Trans : /\ Said(t) = "none"
                         /\ \A a \in DOMAIN Legs[t] : PartState(t, a) = "working"
    BY DEF Init, TranLayerInit, Said, Answers, PartState
  <2>2. [t \in Trans |-> Said(t)] = [t \in Trans |-> "none"]
    BY <2>1
  <2>3. [t \in Trans |-> [a \in DOMAIN Legs[t] |-> PartState(t, a)]]
          = [t \in Trans |-> [a \in [u \in Trans |-> DOMAIN Legs[u]][t] |-> "working"]]
    BY <2>1
  <2> QED BY <2>2, <2>3 DEF Commits!Init, PartState, Said
<1> QED BY <1>1, <1>2, <1>3, StepCommits, PTL DEF Spec, IsAtomicCommit, Commits!Spec

=============================================================================
