---------------------------- MODULE AirlineServer ----------------------------
(***************************************************************************)
(* An airline server, contrib/airlineimpl: the flights it holds and its    *)
(* part in transactions, as its storeHandler goroutine carries them out    *)
(* command by command.  GET_FLIGHT and GET_ALL_FLIGHTS, which change       *)
(* nothing, are left out.                                                  *)
(***************************************************************************)
EXTENDS BookingNet

VARIABLES
  slot,          \* slot[s]: flight -> Slot, for the flights s knows
  lockBuf,       \* lockBuf[s]: the flights locked
  logBuf,        \* logBuf[s][t]: flight -> new Slot, empty when absent
  oldLog,        \* oldLog[s][t]: the decision carried out
  timers,        \* timers[s]: transactions whose transTimer runs
  storeHandler   \* storeHandler[s]: what the goroutine is in the middle of

airlineVars == <<slot, lockBuf, logBuf, oldLog, timers, storeHandler>>

Waiting == [at |-> "reqChan"]
Asking == [at |-> "expireTrans"]

\* In initTrans, in the Call that takes the vote to the TM.
Voting(s) == storeHandler[s].at = "initTrans"

AirlineTypeOK ==
  /\ DOMAIN slot = Servers /\ DOMAIN logBuf = Servers
  /\ DOMAIN storeHandler = Servers
  /\ \A s \in Servers :
       /\ slot[s] \in [DOMAIN slot[s] -> Int]
       /\ DOMAIN slot[s] \subseteq Flights
       /\ DOMAIN logBuf[s] = Trans
       /\ \A t \in Trans : /\ logBuf[s][t] \in [DOMAIN logBuf[s][t] -> Int]
                           /\ DOMAIN logBuf[s][t] \subseteq DOMAIN slot[s]
       /\ Voting(s) =>
            /\ storeHandler[s].tran \in Trans
            /\ storeHandler[s].vote \in {"COMMIT", "ABORT"}
            /\ storeHandler[s].log \in [DOMAIN storeHandler[s].log -> Int]
            /\ DOMAIN storeHandler[s].log \subseteq DOMAIN slot[s]
       /\ Voting(s) \/ storeHandler[s] \in {Waiting, Asking}
  /\ lockBuf \in [Servers -> SUBSET Flights]
  /\ oldLog \in [Servers -> [Trans -> Decisions]]
  /\ timers \in [Servers -> SUBSET Trans]

AirlineInit ==
  /\ slot = [s \in Servers |->
              [f \in Created \cap FlightsOf[AirlineOf[s]] |-> Seats[f]]]
  /\ lockBuf = [s \in Servers |-> {}]
  /\ logBuf = [s \in Servers |-> [t \in Trans |-> <<>>]]
  /\ oldLog = [s \in Servers |-> [t \in Trans |-> "NOT_DECIDED"]]
  /\ timers = [s \in Servers |-> {}]
  /\ storeHandler = [s \in Servers |-> Waiting]

CreateFlight(s, f) ==
  /\ slot' = [slot EXCEPT ![s] =
                 [g \in DOMAIN @ \cup {f} |-> IF g \in DOMAIN @ THEN @[g]
                                              ELSE Seats[f]]]
  /\ UNCHANGED <<lockBuf, logBuf, oldLog, timers, storeHandler>>

\* The flights that t asks of the airline of s.
Order(s, t) == Legs[t][AirlineOf[s]]

\* Mutation: a lock that is taken is given once more.
RefusedUnlocked(s, t, i) ==
  LET f == Order(s, t)[i] IN
  f \notin DOMAIN slot[s] \/ slot[s][f] < Amount[t]

\* initTrans votes ABORT for the sake of the i-th flight.
Refused(s, t, i) ==
  LET f == Order(s, t)[i] IN
  \/ f \notin DOMAIN slot[s]
  \/ slot[s][f] < Amount[t]
  \/ f \in lockBuf[s]
  \/ \E j \in 1 .. i - 1 : Order(s, t)[j] = f

\* The flights before the first that is refused, which s locks one by one.
Taken(s, t) ==
  {Order(s, t)[i] : i \in {j \in DOMAIN Order(s, t) :
                            \A k \in 1 .. j : ~Refused(s, t, k)}}

\* The vote of s, the locks that are taken by then, and the new Slots.
ClaimFrom(s, t, vote) ==
  [vote  |-> IF \E i \in DOMAIN Order(s, t) : Refused(s, t, i)
             THEN "ABORT" ELSE vote,
   locks |-> lockBuf[s] \cup Taken(s, t),
   log   |-> [f \in Taken(s, t) |-> slot[s][f] - Amount[t]]]

\* Mutation: no vote to begin with.
ClaimUndecided(s, t) == ClaimFrom(s, t, "NOT_DECIDED")

Claim(s, t) == ClaimFrom(s, t, "COMMIT")

\* Mutation: only the server that votes logs the transaction.
LogOwnVote(s, t, vote, new) ==
  /\ logBuf' = IF vote = "COMMIT" /\ Voting(s)
               THEN [logBuf EXCEPT ![s][t] = new] ELSE logBuf
  /\ UNCHANGED timers

\* The end of initTrans: a vote for COMMIT is logged and timed.
LogVote(s, t, vote, new) ==
  /\ logBuf' = IF vote = "COMMIT" THEN [logBuf EXCEPT ![s][t] = new]
                                  ELSE logBuf
  /\ timers' = IF vote = "COMMIT" THEN [timers EXCEPT ![s] = @ \cup {t}]
                                  ELSE timers

\* initTrans: only the server that proposed the command votes; a server that
\* cannot dial the TM forgets the transaction but not its locks.
InitTransaction(s, t, own) ==
  LET claim == Claim(s, t) IN
  /\ lockBuf' = [lockBuf EXCEPT ![s] = claim.locks]
  /\ \/ /\ DialFails
        /\ UNCHANGED <<logBuf, timers, storeHandler>>
     \/ /\ own = s
        /\ storeHandler' = [storeHandler EXCEPT
                              ![s] = [at |-> "initTrans", tran |-> t,
                                      vote |-> claim.vote, log |-> claim.log]]
        /\ UNCHANGED <<logBuf, timers>>
     \/ /\ own # s
        /\ LogVote(s, t, claim.vote, claim.log)
        /\ UNCHANGED storeHandler
  /\ UNCHANGED <<slot, oldLog>>

\* responseTrans: carry out the decision on a transaction in logBuf.
ResponseTransaction(s, t, vote) ==
  LET new == logBuf[s][t] IN
  /\ slot' = IF vote = "COMMIT"
             THEN [slot EXCEPT ![s] = [f \in DOMAIN @ |->
                     IF f \in DOMAIN new THEN new[f] ELSE @[f]]]
             ELSE slot
  /\ lockBuf' = [lockBuf EXCEPT ![s] = @ \ DOMAIN new]
  /\ logBuf' = [logBuf EXCEPT ![s][t] = <<>>]
  /\ oldLog' = IF DOMAIN new # {} THEN [oldLog EXCEPT ![s][t] = vote]
                                  ELSE oldLog
  /\ UNCHANGED <<timers, storeHandler>>

\* The next command from Paxos.
Execute(s, c) ==
  /\ storeHandler[s] = Waiting
  /\ HandOver(s, c)
  /\ \/ c.op = "CREATE" /\ CreateFlight(s, c.flight)
     \/ c.op = "INIT" /\ InitTransaction(s, c.tran, c.own)
     \/ c.op = "RESPONSE" /\ ResponseTransaction(s, c.tran, c.vote)

\* The TM has taken the vote that s was calling with.
Voted(s) ==
  LET h == storeHandler[s] IN
  /\ storeHandler' = [storeHandler EXCEPT ![s] = Waiting]
  /\ LogVote(s, h.tran, h.vote, h.log)
  /\ UNCHANGED <<slot, lockBuf, oldLog>>

\* TRANS_EXPIRED: expireTrans asks for the decision until a Call fails with a
\* status other than NOT_DECIDED, which no Call does: it never ends.
ExpireTransaction(s, t) ==
  /\ storeHandler[s] = Waiting
  /\ t \in timers[s]
  /\ timers' = [timers EXCEPT ![s] = @ \ {t}]
  /\ \/ /\ logBuf[s][t] = <<>>
        /\ UNCHANGED storeHandler
     \/ /\ logBuf[s][t] # <<>>
        /\ Timeouts
        /\ storeHandler' = [storeHandler EXCEPT ![s] = Asking]
  /\ UNCHANGED <<slot, lockBuf, logBuf, oldLog>>

=============================================================================
