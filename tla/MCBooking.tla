------------------------------ MODULE MCBooking ------------------------------
(***************************************************************************)
(* Small systems for TLC: one or two agency servers, airline A with        *)
(* servers a1 and a2, airline B with server b1.                            *)
(***************************************************************************)
EXTENDS Booking

OneAgency == {"m1"}
TwoAgencies == {"m1", "m2"}
Replicated == {"a1", "a2", "b1"}
Single == {"a1"}
Pair == {"a1", "b1"}
Fleet == [s \in Servers |-> IF s = "b1" THEN "B" ELSE "A"]
AirlinesAB == {"A", "B"}
AirlineA == {"A"}
Journey == {"A1", "B1"}
OnlyA1 == {"A1"}
Routes == [a \in Airlines |-> IF a = "B" THEN {"B1"} ELSE {"A1"}]
OneSeat == [f \in Flights |-> 1]

One == {"t1"}
Two == {"t1", "t2"}
Three == {"t1", "t2", "t3"}
AnyTime == [t \in Trans |-> {}]
Afterwards == [t \in Trans |-> IF t = "t3" THEN {"t1"} ELSE {}]
AtM1 == [t \in Trans |-> "m1"]
T2AtM2 == [t \in Trans |-> IF t = "t2" THEN "m2" ELSE "m1"]
Book == [t \in Trans |-> 1]
T3Cancels == [t \in Trans |-> IF t = "t3" THEN -1 ELSE 1]

\* t1 is for a flight of A and one of B, t2 and t3 for the first only.
BothOrA == [t \in Trans |->
  IF t # "t1" THEN [a \in {"A"} |-> <<"A1">>]
              ELSE [a \in {"A", "B"} |-> IF a = "A" THEN <<"A1">>
                                                    ELSE <<"B1">>]]
AllA == [t \in Trans |-> [a \in {"A"} |-> <<"A1">>]]
=============================================================================
