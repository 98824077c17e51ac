------------------------------ MODULE MCStorage ------------------------------
(***************************************************************************)
(* Small systems for TLC: agency servers m1 and m2 of one storage server.  *)
(***************************************************************************)
EXTENDS Storage

AgencyServers == {"m1", "m2"}
Goroutines == {"p", "q"}
Homes == [p \in Callers |-> IF p = "p" THEN "m1" ELSE "m2"]
OneKey == {"u:b"}
BookedBoth == [k \in Keys |-> ListOf(<<"A1", "A2">>)]

Req(op, arg) == [op |-> op, key |-> "u:b", arg |-> arg]

\* The user has booked A1 and A2.  Both read the list as often as they like; p
\* cancels A2, q books A3 or creates the user again.
Requests == [p \in Callers |->
  IF p = "p" THEN {Req("GetList", ""), Req("Remove", "A2")}
             ELSE {Req("GetList", ""), Req("Append", "A3"), Req("Put", "")}]
OneWrite == [p \in Callers |-> 1]

=============================================================================
