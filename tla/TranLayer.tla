------------------------------ MODULE TranLayer ------------------------------
(***************************************************************************)
(* The transaction manager of an agency server, contrib/tranlayer: the     *)
(* requestHandler goroutine with everything it handles.                    *)
(***************************************************************************)
EXTENDS BookingNet

VARIABLES
  client,          \* client[t]: where the BookingFlights call of t is
  pptList,         \* pptList[t]: the servers asked to take part, in order
  orderList,       \* orderList[t]: those not sent TRANS_INIT yet
  activeTransMap,  \* the transactions in the map of that name
  decision,        \* decision[t], commitGrp[t]: fields of the map's entry,
  commitGrp,       \* still readable here when the entry is gone
  tmTimers,        \* transactions whose transTimer runs
  expired,         \* history: those expired when they were active
  call             \* call[m]: the Calls that m's handler is busy with

tranLayerVars == <<client, pptList, orderList, activeTransMap, decision,
                   commitGrp, tmTimers, expired, call>>

Answers == {"booked", "failed"}
Idle == [why |-> "none"]
Blocked == [why |-> "reply"]    \* sending on a replyc that nobody reads

\* A call for tran to the servers in todo, one after the other.
Calls == [why : {"init", "complete", "expire"}, tran : Trans,
          todo : Seq(Servers) \ {<<>>}]

TranLayerTypeOK ==
  /\ client \in [Trans -> {"new", "calling", "waiting"} \cup Answers]
  /\ pptList \in [Trans -> Seq(Servers)]
  /\ orderList \in [Trans -> Seq(Servers)]
  /\ activeTransMap \subseteq Trans
  /\ decision \in [Trans -> Decisions]
  /\ DOMAIN commitGrp = Trans
  /\ \A t \in Trans : commitGrp[t] \in [ToSet(pptList[t]) -> Decisions]
                      \/ commitGrp[t] = <<>>
  /\ tmTimers \subseteq Trans
  /\ expired \subseteq tmTimers
  /\ call \in [Agencies -> Calls \cup {Idle, Blocked}]

TranLayerInit ==
  /\ client = [t \in Trans |-> "new"]
  /\ pptList = [t \in Trans |-> <<>>]
  /\ orderList = [t \in Trans |-> <<>>]
  /\ activeTransMap = {}
  /\ decision = [t \in Trans |-> "NOT_DECIDED"]
  /\ commitGrp = [t \in Trans |-> <<>>]
  /\ tmTimers = {}
  /\ expired = {}
  /\ call = [m \in Agencies |-> Idle]

\* BookingFlights: one server of each airline, the orders in any order.  An
\* agency cancels what was booked only.
BookingFlights(t) ==
  LET n == Cardinality(DOMAIN Legs[t]) IN
  /\ client[t] = "new"
  /\ \A u \in Before[t] :
       client[u] \in IF Amount[t] = 1 THEN Answers ELSE {"booked"}
  /\ client' = [client EXCEPT ![t] = "calling"]
  /\ \E servers \in [1 .. n -> Servers] :
       /\ {AirlineOf[servers[k]] : k \in 1 .. n} = DOMAIN Legs[t]
       /\ pptList' = [pptList EXCEPT ![t] = servers]
  /\ UNCHANGED <<orderList, activeTransMap, decision, commitGrp, tmTimers,
                 expired, call>>

\* requestHandler takes a request only when all orders have been sent.
Ready(m) ==
  /\ call[m] = Idle
  /\ \A t \in Trans : TM[t] = m => orderList[t] = <<>>

InitTrans(t) ==
  /\ client[t] = "calling"
  /\ Ready(TM[t])
  /\ client' = [client EXCEPT ![t] = "waiting"]
  /\ orderList' = [orderList EXCEPT ![t] = pptList[t]]
  /\ activeTransMap' = activeTransMap \cup {t}
  /\ commitGrp' = [commitGrp EXCEPT
                     ![t] = [s \in ToSet(pptList[t]) |-> "NOT_DECIDED"]]
  /\ UNCHANGED <<pptList, decision, tmTimers, expired, call>>

\* Mutation: the rest of the orders is forgotten.
ForgetOrders(orders) == <<>>

OrdersLeft(orders) == Tail(orders)

\* The next order of oldTransactionMap.
SendOrder(t) ==
  /\ call[TM[t]] = Idle
  /\ orderList[t] # <<>>
  /\ call' = [call EXCEPT ![TM[t]] = [why |-> "init", tran |-> t,
                                      todo |-> <<Head(orderList[t])>>]]
  /\ orderList' = [orderList EXCEPT ![t] = OrdersLeft(@)]
  /\ UNCHANGED <<client, pptList, activeTransMap, decision, commitGrp,
                 tmTimers, expired>>

\* What the call under way asks of server s.
Asked(m, s) ==
  LET c == call[m] IN
  IF c.why = "init" THEN [op |-> "INIT", tran |-> c.tran, own |-> s]
  ELSE [op |-> "RESPONSE", tran |-> c.tran, own |-> s,
        vote |-> decision[c.tran], why |-> c.why]

\* The reply to BookingFlights, which receives one and no more.
Reply(m, t, d) ==
  \/ /\ client[t] = "waiting"
     /\ client' = [client EXCEPT ![t] = IF d = "COMMIT" THEN "booked"
                                                        ELSE "failed"]
     /\ call' = [call EXCEPT ![m] = Idle]
  \/ /\ client[t] # "waiting"
     /\ call' = [call EXCEPT ![m] = Blocked]
     /\ UNCHANGED client

\* m's handler goes on with call c: to the next server or, when there is none
\* left, to what follows.  d is decision[t] by now.
Continue(m, c, d) ==
  LET t    == c.tran
      over == c.todo = <<>> IN
  /\ \/ /\ ~over
        /\ call' = [call EXCEPT ![m] = c]
        /\ UNCHANGED client
     \/ /\ over /\ c.why = "init"
        /\ call' = [call EXCEPT ![m] = Idle]
        /\ UNCHANGED client
     \/ /\ over /\ c.why # "init"
        /\ Reply(m, t, d)
  /\ tmTimers' = IF over /\ c.why = "init" /\ orderList[t] = <<>>
                 THEN tmTimers \cup {t} ELSE tmTimers

\* The server called has taken the request.
Returned(m) ==
  /\ Continue(m, [call[m] EXCEPT !.todo = Tail(@)], decision[call[m].tran])
  /\ UNCHANGED <<pptList, orderList, activeTransMap, decision, commitGrp,
                 expired>>

\* Mutation: the last vote is the decision.
AfterLastVote(old, vote) == vote

AfterVote(old, vote) == IF old # "ABORT" THEN vote ELSE old

\* Mutation: an abort is not told to those who voted COMMIT.
CommittedVoters(grp) ==
  {s \in DOMAIN grp : \A r \in DOMAIN grp : grp[r] = "COMMIT"}

CommitVoters(grp) == {s \in DOMAIN grp : grp[s] = "COMMIT"}

\* Mutation: a vote for ABORT is enough.
AllVotedOrAbort(grp) ==
  \/ \E s \in DOMAIN grp : grp[s] = "ABORT"
  \/ \A s \in DOMAIN grp : grp[s] # "NOT_DECIDED"

AllVoted(grp) == \A s \in DOMAIN grp : grp[s] # "NOT_DECIDED"

\* A vote that is waited for; the last one completes the transaction.
CountVote(m, t, s, vote) ==
  LET grp == [commitGrp[t] EXCEPT ![s] = vote]
      d   == AfterVote(decision[t], vote) IN
  /\ commitGrp' = [commitGrp EXCEPT ![t] = grp]
  /\ decision' = [decision EXCEPT ![t] = d]
  /\ \/ /\ ~AllVoted(grp)
        /\ UNCHANGED <<client, activeTransMap, tmTimers, call>>
     \/ /\ AllVoted(grp)
        /\ activeTransMap' = activeTransMap \ {t}
        /\ \E todo \in SetToSeqs(CommitVoters(grp)) :
             Continue(m, [why |-> "complete", tran |-> t, todo |-> todo], d)
  /\ UNCHANGED <<pptList, orderList, expired>>

\* Any other vote changes nothing.  One for a transaction in oldLog makes the
\* TM call AirlineRPC, but at its own address (args is the new one by then),
\* where nobody serves it; so oldLog, which nothing else reads, is left out.
IgnoreVote == UNCHANGED tranLayerVars

\* TransResponse: server s votes in t.
ResponseTrans(t, s, vote) ==
  /\ Ready(TM[t])
  /\ IF /\ t \in activeTransMap
        /\ s \in DOMAIN commitGrp[t]
        /\ commitGrp[t][s] = "NOT_DECIDED"
     THEN CountVote(TM[t], t, s, vote)
     ELSE IgnoreVote

\* TRANS_EXPIRED: the votes so far decide, and t stays active.
ExpireTrans(t) ==
  /\ t \in tmTimers \ expired
  /\ Ready(TM[t])
  /\ \/ /\ t \in activeTransMap
        /\ Timeouts
        /\ expired' = expired \cup {t}
        /\ \E todo \in SetToSeqs(CommitVoters(commitGrp[t])) :
             Continue(TM[t], [why |-> "expire", tran |-> t, todo |-> todo],
                      decision[t])
     \/ /\ t \notin activeTransMap
        /\ tmTimers' = tmTimers \ {t}
        /\ UNCHANGED <<client, expired, call>>
  /\ UNCHANGED <<pptList, orderList, activeTransMap, decision, commitGrp>>

=============================================================================
