----------------------------- MODULE BookingNet -----------------------------
(***************************************************************************)
(* Who takes part in booking flights: agency servers, each with one        *)
(* TranLayer (the transaction manager, TM), and airline servers, several   *)
(* of which hold the flights of one airline and carry out the commands     *)
(* that Paxos hands over to them.                                          *)
(*                                                                         *)
(* Both kinds of server handle one request at a time, in one goroutine     *)
(* that takes requests from an unbuffered channel and may itself be in the *)
(* middle of a synchronous Call.  A Call returns once the handler of the   *)
(* server it goes to takes the request from its channel: that is one step  *)
(* of both.                                                                *)
(*                                                                         *)
(* Paxos is here what CommandLog says of it and no more: each server is    *)
(* handed over commands that servers of its airline proposed, each command *)
(* once.  Two servers may get them in different orders, as Libpaxos does   *)
(* not keep them from it.                                                  *)
(***************************************************************************)
EXTENDS Integers, SequencesExt

CONSTANTS
  Agencies, Servers, Airlines, Flights,
  Trans,       \* the bookings that clients make
  AirlineOf,   \* airline server -> airline
  FlightsOf,   \* airline -> its flights
  Seats,       \* flight -> Slot of the flight when it is created
  Created,     \* flights that are there from the start
  TM,          \* transaction -> the agency server it is made at
  Legs,        \* transaction -> airline -> the flights asked of it, in order
  Amount,      \* transaction -> 1 to book, -1 to cancel
  Before,      \* transaction -> those its client waits for first
  Timeouts,    \* whether the 5 seconds of a timer may be too short
  DialFails    \* whether an airline server may fail to dial the TM

ASSUME ServersAssumption ==
  /\ IsFiniteSet(Servers) /\ IsFiniteSet(Airlines)
  /\ AirlineOf \in [Servers -> Airlines]
  /\ FlightsOf \in [Airlines -> SUBSET Flights]
  /\ Seats \in [Flights -> Nat]
  /\ Created \subseteq Flights
  /\ Timeouts \in BOOLEAN
  /\ DialFails \in BOOLEAN

ASSUME TransAssumption ==
  /\ IsFiniteSet(Trans)
  /\ TM \in [Trans -> Agencies]
  /\ Amount \in [Trans -> {1, -1}]
  /\ Before \in [Trans -> SUBSET Trans]
  /\ DOMAIN Legs = Trans
  /\ \A t \in Trans :
       /\ DOMAIN Legs[t] \subseteq Airlines
       /\ DOMAIN Legs[t] # {}
       /\ \A a \in DOMAIN Legs[t] : Legs[t][a] \in Seq(Flights) \ {<<>>}

VARIABLES
  proposed,   \* proposed[a]: commands given to ProposeCommand by servers of a
  executed    \* executed[s]: the commands handed over to s, in order

netVars == <<proposed, executed>>

Decisions == {"NOT_DECIDED", "COMMIT", "ABORT"}

\* own is the airline server that proposed the command.  The code numbers the
\* commands of a server (cmdNO); here they differ anyway, for a TM tells a
\* server a decision once when its timer expires, once when all have voted.
Command ==
       [op : {"CREATE"}, flight : Flights, own : Servers]
  \cup [op : {"INIT"}, tran : Trans, own : Servers]
  \cup [op : {"RESPONSE"}, tran : Trans, own : Servers, vote : Decisions,
        why : {"complete", "expire"}]

NetTypeOK ==
  /\ proposed \in [Airlines -> SUBSET Command]
  /\ executed \in [Servers -> Seq(Command)]

NetInit ==
  /\ proposed = [a \in Airlines |-> {}]
  /\ executed = [s \in Servers |-> <<>>]

\* PAXOS_REQUEST: the command is proposed to Paxos.
ProposeCommand(c) ==
  /\ proposed' = [proposed EXCEPT ![AirlineOf[c.own]] = @ \cup {c}]
  /\ UNCHANGED executed

\* What Paxos may hand over to s next.
Pending(s) == proposed[AirlineOf[s]] \ ToSet(executed[s])

\* PaxosResponse at s.
HandOver(s, c) ==
  /\ c \in Pending(s)
  /\ executed' = [executed EXCEPT ![s] = Append(@, c)]
  /\ UNCHANGED proposed

=============================================================================
