------------------------------- MODULE Booking -------------------------------
(***************************************************************************)
(* Bookings: clients, the transaction managers of the agency servers and   *)
(* the airline servers that take part.  A step that two handlers make      *)
(* together is a Call of one that the other takes from its channel.        *)
(***************************************************************************)
EXTENDS TranLayer, AirlineServer

vars == <<netVars, tranLayerVars, airlineVars>>

TypeOK == NetTypeOK /\ TranLayerTypeOK /\ AirlineTypeOK

Init == NetInit /\ TranLayerInit /\ AirlineInit

-----------------------------------------------------------------------------
\* The TM's own steps.
ManageTransaction(t) ==
  /\ BookingFlights(t) \/ InitTrans(t) \/ SendOrder(t) \/ ExpireTrans(t)
  /\ UNCHANGED <<netVars, airlineVars>>

\* RPC CreateFlight, once for each flight.
RequestFlight(f) ==
  \E s \in Servers :
    /\ storeHandler[s] = Waiting
    /\ f \in FlightsOf[AirlineOf[s]] \ Created
    /\ \A a \in Airlines : \A c \in proposed[a] :
         c.op = "CREATE" => c.flight # f
    /\ ProposeCommand([op |-> "CREATE", flight |-> f, own |-> s])
    /\ UNCHANGED <<tranLayerVars, airlineVars>>

\* RPC Transaction: server s takes what m's handler asks of it.
RequestTransaction(m, s) ==
  /\ call[m] \notin {Idle, Blocked}
  /\ s = Head(call[m].todo)
  /\ storeHandler[s] = Waiting
  /\ ProposeCommand(Asked(m, s))
  /\ Returned(m)
  /\ UNCHANGED airlineVars

\* RPC TransResponse: the TM takes the vote of server s.
Vote(s) ==
  LET h == storeHandler[s] IN
  /\ Voting(s)
  /\ ResponseTrans(h.tran, s, h.vote)
  /\ Voted(s)
  /\ UNCHANGED netVars

\* Paxos hands a command over to s.
ApplyCommand(s) ==
  /\ \E c \in Pending(s) : Execute(s, c)
  /\ UNCHANGED tranLayerVars

Expire(s, t) == ExpireTransaction(s, t) /\ UNCHANGED <<netVars, tranLayerVars>>

Next ==
  \/ \E t \in Trans : ManageTransaction(t)
  \/ \E f \in Flights : RequestFlight(f)
  \/ \E m \in Agencies, s \in Servers : RequestTransaction(m, s)
  \/ \E s \in Servers : Vote(s)
  \/ \E s \in Servers : ApplyCommand(s)
  \/ \E s \in Servers, t \in Trans : Expire(s, t)

Spec == Init /\ [][Next]_vars

\* Goroutines that can run do: the clients' and timers, the TMs' in their Calls
\* and the airline servers' handlers.  Senders on a channel are served in turn.
FairSpec ==
  /\ Spec
  /\ \A t \in Trans : WF_vars(ManageTransaction(t))
  /\ \A m \in Agencies : WF_vars(\E s \in Servers : RequestTransaction(m, s))
  /\ \A s \in Servers : WF_vars(Vote(s) \/ ApplyCommand(s))

-----------------------------------------------------------------------------
(* What the code promises.                                                 *)

\* The bookings of f that s carried out, or for n = -1 the cancellations.
CommittedFor(s, f, n) ==
  {t \in Trans : /\ Amount[t] = n
                 /\ oldLog[s][t] = "COMMIT"
                 /\ f \in ToSet(Order(s, t))}

\* No booking is lost or counted twice and no seat is sold twice: the Slot of
\* a flight is what it was at first less what was committed, and not negative,
\* though each transaction works its new Slot out before it is decided.
SeatsConserved ==
  \A s \in Servers : \A f \in DOMAIN slot[s] :
    /\ slot[s][f] >= 0
    /\ slot[s][f] = Seats[f] - Cardinality(CommittedFor(s, f, 1))
                             + Cardinality(CommittedFor(s, f, -1))

\* Two servers of an airline that carried out the same commands hold the same
\* flights and locks: nothing that one server does alone, voting, timing or
\* waiting for a TM, makes a difference.
ReplicasAgree ==
  \A r, s \in Servers :
    AirlineOf[r] = AirlineOf[s] /\ executed[r] = executed[s] =>
      slot[r] = slot[s] /\ lockBuf[r] = lockBuf[s] /\ oldLog[r] = oldLog[s]

\* A vote is always one that its TM waits for: none is late, lost or given
\* twice, though the TM forgets a transaction once all have voted.
VoteAwaited ==
  \A s \in Servers :
    Voting(s) =>
      LET t == storeHandler[s].tran IN
      t \in activeTransMap /\ commitGrp[t][s] = "NOT_DECIDED"

\* Some airline server committed t although another one voted ABORT.
Torn(t) ==
  /\ \E s \in Servers : oldLog[s][t] = "COMMIT"
  /\ \E s \in DOMAIN commitGrp[t] : commitGrp[t][s] = "ABORT"

\* The TM's timer is the one thing between this code and atomicity.
AtomicUnlessExpired == \A t \in Trans : Torn(t) => t \in expired

\* An airline takes part in t through the server that was asked, which is
\* prepared or not as soon as it knows its vote.
Part(t, a) == CHOOSE s \in ToSet(pptList[t]) : AirlineOf[s] = a

Votes(t, s, vote) ==
  \/ commitGrp[t][s] = vote
  \/ /\ Voting(s)
     /\ storeHandler[s].tran = t
     /\ storeHandler[s].vote = vote

StateOf(t, s) ==
  CASE oldLog[s][t] = "COMMIT" -> "committed"
    [] oldLog[s][t] = "ABORT" \/ Votes(t, s, "ABORT") -> "aborted"
    [] OTHER -> IF Votes(t, s, "COMMIT") THEN "prepared" ELSE "working"

Commits == INSTANCE AtomicCommit WITH
  Parts  <- [t \in Trans |-> DOMAIN Legs[t]],
  state  <- [t \in Trans |-> [a \in DOMAIN Legs[t] |->
               IF commitGrp[t] = <<>> THEN "working"
               ELSE StateOf(t, Part(t, a))]],
  answer <- [t \in Trans |-> IF client[t] \in Answers THEN client[t]
                                                      ELSE "none"]

\* To its client and to the airlines a booking is one atomic commitment.
IsAtomicCommit == Commits!Spec

\* Every booking that a client makes is answered in the end.
Answered ==
  \A t \in Trans : client[t] = "calling" ~> client[t] \in Answers

\* One of two servers of an airline has carried out what the other has, and in
\* the same order.
Agreeing ==
  \A r, s \in Servers :
    AirlineOf[r] = AirlineOf[s] =>
      IsPrefix(executed[r], executed[s]) \/ IsPrefix(executed[s], executed[r])

\* And every airline server, asked or not, gets to know each decision that it
\* waits for: again and again, unless Paxos gave servers of one airline
\* different orders, all of them are carried out.
Resolved ==
  []<>(Agreeing => \A s \in Servers, t \in Trans : logBuf[s][t] = <<>>)

-----------------------------------------------------------------------------
(* Violated by the code.                                                   *)

\* No booking is half made.
AtomicBooking == \A t \in Trans : ~Torn(t)

=============================================================================
