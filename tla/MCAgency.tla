------------------------------ MODULE MCAgency ------------------------------
(***************************************************************************)
(* A small system for TLC: two servers of one agency with three storage    *)
(* servers, an airline with two flights, a user u whose requests may       *)
(* overlap; v is there for its place on the ring.                          *)
(***************************************************************************)
EXTENDS Agency

Three == {"s0", "s1", "s2"}
Places == [s \in StorageServers |->
             CASE s = "s0" -> 3 [] s = "s1" -> 1 [] s = "s2" -> 6]
Hash == [u \in Users |-> IF u = "u" THEN 7 ELSE 2]
AirlineA == {"A"}
Agency1 == {"agency1"}
Servers == {"m1", "m2"}
SameAgency == [m \in Agencies |-> "agency1"]
UV == {"u", "v"}
Routes == [f \in {"A1", "A2"} |-> "A"]
TwoSeats == [f \in Flights |-> 2]

\* What the clients ask, at which server, and what each of them waits for.
Ask(op, fs) == [op |-> op, user |-> "u", flights |-> fs]
Clients ==
  [add1   |-> Ask("AddFlight", <<"A1">>),
   add2   |-> Ask("AddFlight", <<"A2">>),
   create |-> Ask("CreateUser", <<>>),
   book   |-> Ask("AddBooking", <<"A1", "A2">>),
   again  |-> Ask("AddBooking", <<"A1">>),
   cancel |-> Ask("RemoveBooking", <<"A2", "A1">>),
   twice  |-> Ask("CreateUser", <<>>),
   view   |-> Ask("ViewFlights", <<>>),
   list   |-> Ask("GetBookings", <<>>)]
Everything == DOMAIN Clients
Door == [r \in Requests |->
           IF r \in {"again", "cancel", "twice"} THEN "m2" ELSE "m1"]
Flow ==
  [add1 |-> {}, add2 |-> {"add1"}, list |-> {"add2"}, create |-> {"list"},
   book |-> {"create"}, again |-> {"create"}, cancel |-> {"book"},
   twice |-> {"again", "cancel"}, view |-> {"twice"}]

=============================================================================
