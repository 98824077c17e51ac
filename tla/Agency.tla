------------------------------- MODULE Agency -------------------------------
(***************************************************************************)
(* Agency servers, contrib/tribimpl and contrib/libairline: users, their   *)
(* lists of bookings in the storage servers of the agency, and the seats   *)
(* that airlines take for them.  Each request is a goroutine; a step is    *)
(* one call to storage or to airlines, which take effect at one moment.    *)
(***************************************************************************)
EXTENDS Ring, Directory

CONSTANTS
  Agencies,      \* agency servers, by host:port
  IDOf,          \* IDOf[m]: the agency that m is a server of
  Users,
  AirlineOf,     \* AirlineOf[f]: the airline of flight f
  Seats,         \* Seats[f]: the seats of f when it is created
  Requests,
  Asks,          \* Asks[r]: what a client asks, with op, user, flights
  At,            \* At[r]: the agency server it asks
  Before,        \* Before[r]: the requests that are over before it is made
  Faults         \* whether agencies stop and dials fail

Flights == DOMAIN AirlineOf

ASSUME AgencyAssumption ==
  /\ IDOf \in [Agencies -> AgencyIDs] /\ At \in [Requests -> Agencies]
  /\ AirlineOf \in [Flights -> Airlines] /\ Seats \in [Flights -> Nat]
  /\ Users \subseteq DOMAIN Storehash

\* A booking names each of its flights once, and at least one.
ASSUME AsksAssumption ==
  \A r \in Requests :
    /\ Asks[r].op \in {"CreateUser", "AddBooking", "RemoveBooking",
                       "GetBookings", "ViewFlights", "AddFlight"}
    /\ Asks[r].user \in Users
    /\ Asks[r].flights \in Seq(Flights) /\ IsInjective(Asks[r].flights)
    /\ Asks[r].op \in {"AddBooking", "RemoveBooking", "AddFlight"}
         => Asks[r].flights # <<>>

VARIABLES
  agency,      \* agency[m]: down, starting (connected to its storage) or up
  nodelist,    \* nodelist[m]: the storage servers that m knows
  store,       \* store[u]: the values of keys u:n and u:b
  slot,        \* slot[f]: the seats left of each flight created
  request,     \* request[r]: where it is, flights to edit, status
  taken,       \* history: taken[u][f], seats taken for u less those given back
  disturbed    \* history: users for whom a list need not match seats

agencyVars == <<agency, nodelist, store, slot, request, taken, disturbed>>
vars == <<ringVars, directoryVars, agencyVars>>

Stages == {"new", "user", "putUser", "putBookings", "flights", "list",
           "book", "edit", "dial", "create", "done", "lost"}

TypeOK ==
  /\ RingTypeOK /\ DirectoryTypeOK
  /\ agency \in [Agencies -> {"down", "starting", "up"}]
  /\ \A u \in Users : /\ store[u].n.kind \in {"none", "string"}
                      /\ store[u].b.kind \in {"none", "string", "list"}
  /\ DOMAIN slot \subseteq Flights /\ \A f \in DOMAIN slot : slot[f] \in Nat
  /\ \A r \in Requests : /\ request[r].at \in Stages
                         /\ (request[r].todo # <<>>) <=> (request[r].at = "edit")
  /\ disturbed \subseteq Users

Init ==
  /\ RingInit /\ DirectoryInit
  /\ agency = [m \in Agencies |-> "down"]
  /\ nodelist = [m \in Agencies |-> <<>>]
  /\ store = [u \in Users |-> [n |-> Nothing, b |-> Nothing]]
  /\ slot = <<>>
  /\ request = [r \in Requests |-> [at |-> "new", todo |-> <<>>,
                                    status |-> "none"]]
  /\ taken = [u \in Users |-> [f \in Flights |-> 0]]
  /\ disturbed = {}

-----------------------------------------------------------------------------
(* The servers.                                                            *)

\* NewTribserver as far as NewLibstore; not ready, it gives up in the end and
\* is as if not started.
Connect(m) ==
  /\ agency[m] = "down" /\ Ready
  /\ agency' = [agency EXCEPT ![m] = "starting"]
  /\ nodelist' = [nodelist EXCEPT ![m] = slots]
  /\ UNCHANGED <<ringVars, directoryVars, store, slot, request, taken,
                 disturbed>>

\* DeclareExistence; an agency server that is entered already does not start.
Declare(m) ==
  /\ agency[m] = "starting"
  /\ agency' = [agency EXCEPT ![m] = IF AppendFails(IDOf[m], m) THEN "down"
                                                                ELSE "up"]
  /\ directory' = Appended(directory, Entry(IDOf[m], m))
  /\ UNCHANGED <<ringVars, airline, nodelist, store, slot, request, taken,
                 disturbed>>

Busy(r) == request[r].at \notin {"new", "done", "lost"}

\* m stops in the middle of what it does: edits that follow a booking are lost.
Stop(m) ==
  LET lost == {r \in Requests : At[r] = m /\ Busy(r)} IN
  /\ agency' = [agency EXCEPT ![m] = "down"]
  /\ request' = [r \in Requests |->
                   IF r \in lost THEN [request[r] EXCEPT !.at = "lost",
                                                         !.todo = <<>>]
                                 ELSE request[r]]
  /\ disturbed' = disturbed \cup
       {Asks[r].user : r \in {x \in lost : request[x].at = "edit"}}
  /\ UNCHANGED <<ringVars, directoryVars, nodelist, store, slot, taken>>

Crash(m) == Faults /\ agency[m] = "up" /\ Stop(m)

-----------------------------------------------------------------------------
(* The requests.                                                           *)

First ==
  [CreateUser |-> "user", AddBooking |-> "user", RemoveBooking |-> "user",
   GetBookings |-> "list", ViewFlights |-> "dial", AddFlight |-> "create"]

Edits == {"CreateUser", "AddBooking", "RemoveBooking"}

\* A request for a user while another one of the same user is under way.
Overlaps(r) ==
  /\ Asks[r].op \in Edits
  /\ \E x \in Requests : /\ Busy(x) /\ Asks[x].op \in Edits
                         /\ Asks[x].user = Asks[r].user

\* Clients come when the storage servers have found each other.
Settled == \A s \in Slaves : ring[s] # <<>>

Begin(r) ==
  /\ request[r].at = "new" /\ agency[At[r]] = "up" /\ Settled
  /\ \A x \in Before[r] : request[x].at \in {"done", "lost"}
  /\ request' = [request EXCEPT ![r].at = First[Asks[r].op]]
  /\ disturbed' = IF Overlaps(r) THEN disturbed \cup {Asks[r].user}
                                 ELSE disturbed
  /\ UNCHANGED <<ringVars, directoryVars, agency, nodelist, store, slot, taken>>

Goes(r, at) == request' = [request EXCEPT ![r].at = at]
Ends(r, status) ==
  request' = [request EXCEPT ![r] = [at |-> "done", todo |-> <<>>,
                                     status |-> status]]

Disturbs(r, b) == disturbed' = IF b THEN disturbed \cup {Asks[r].user}
                                    ELSE disturbed

\* A call to storage is made, or its server cannot be dialled.
Outcomes == IF Faults THEN {"called", "failed"} ELSE {"called"}

\* doesUserExist, for which a failed call means no.
CheckUser(r) ==
  /\ request[r].at = "user"
  /\ \E outcome \in Outcomes :
       LET there == store[Asks[r].user].n # Nothing
           exists == there /\ outcome = "called"
       IN
       /\ IF Asks[r].op = "CreateUser"
          THEN IF exists THEN Ends(r, "EEXISTS") ELSE Goes(r, "putUser")
          ELSE IF exists THEN Goes(r, "flights") ELSE Ends(r, "ENOSUCHUSER")
       /\ Disturbs(r, Asks[r].op = "CreateUser" /\ there /\ ~exists)
  /\ UNCHANGED <<store, slot, taken>>

\* The first Put of CreateUser; the second one follows whether it fails or not.
PutUser(r) ==
  /\ request[r].at = "putUser"
  /\ \E outcome \in Outcomes :
       /\ store' = IF outcome = "failed" THEN store
                   ELSE [store EXCEPT ![Asks[r].user].n = Text("new_user")]
       /\ request' = [request EXCEPT ![r].at = "putBookings",
                                     ![r].status = outcome]
  /\ UNCHANGED <<slot, taken, disturbed>>

\* What the second Put writes: a string, which GetList takes for an empty list.
NoBookings == Text("")

PutBookings(r) ==
  /\ request[r].at = "putBookings"
  /\ \E outcome \in Outcomes :
       /\ store' = IF outcome = "failed" THEN store
                   ELSE [store EXCEPT ![Asks[r].user].b = NoBookings]
       /\ Ends(r, IF "failed" \in {outcome, request[r].status}
                  THEN "error" ELSE "OK")
  /\ UNCHANGED <<slot, taken, disturbed>>

\* doGetFlightsFromIds: GetFlight for each flight, from its airline's server.
CheckFlights(r) ==
  /\ request[r].at = "flights"
  /\ \E outcome \in Outcomes :
       IF outcome = "called" /\ ToSet(Asks[r].flights) \subseteq DOMAIN slot
       THEN Goes(r, "list") ELSE Ends(r, "EBOOKINGFAILED")
  /\ UNCHANGED <<store, slot, taken, disturbed>>

Bookings(u) == Reading(store[u].b, "GetList")

\* Some flight asked for is in the list.
Exist(fs, list) == ToSet(fs) \cap ToSet(list.items) # {}

\* GetList of the bookings, then GetFlight for each of them.
GetBookings(r) ==
  /\ request[r].at = "list" /\ Asks[r].op = "GetBookings"
  /\ \E called, flown \in Outcomes :
       Ends(r, IF called = "failed" \/ Bookings(Asks[r].user) = Nothing
               THEN "ENOSUCHUSER"
               ELSE IF flown = "failed" THEN "error" ELSE "OK")
  /\ UNCHANGED <<store, slot, taken, disturbed>>

\* GetList of the bookings before a booking or a cancellation.
ReadList(r) ==
  LET list == Bookings(Asks[r].user)
      fs == Asks[r].flights
      adds == Asks[r].op = "AddBooking"
  IN
  /\ request[r].at = "list" /\ Asks[r].op # "GetBookings"
  /\ \E outcome \in Outcomes :
       IF outcome = "failed" \/ list = Nothing
       THEN Ends(r, "EBOOKINGFAILED") /\ UNCHANGED disturbed
       ELSE /\ IF Exist(fs, list) # adds
               THEN Goes(r, "book")
               ELSE Ends(r, IF adds THEN "EEXISTS" ELSE "ENOTBOOKED")
            /\ Disturbs(r, /\ ~adds /\ Exist(fs, list)
                           /\ ~(ToSet(fs) \subseteq ToSet(list.items)))
  /\ UNCHANGED <<store, slot, taken>>

\* Mutation: an order has the last flight of its airline.
OrdersOfLast(fs) ==
  [a \in {AirlineOf[f] : f \in ToSet(fs)} |->
     {Last(SelectSeq(fs, LAMBDA f : AirlineOf[f] = a))}]

\* The flights grouped by airline, an order for each.
Orders(fs) ==
  [a \in {AirlineOf[f] : f \in ToSet(fs)} |->
     {f \in ToSet(fs) : AirlineOf[f] = a}]

\* MakeBooking, a transaction of the airlines concerned: all orders or none.
MakeBooking(r) ==
  LET fs == Asks[r].flights
      orders == Orders(fs)
      ordered == UNION {orders[a] : a \in DOMAIN orders}
      quantity == IF Asks[r].op = "RemoveBooking" THEN -1 ELSE 1
      u == Asks[r].user
  IN
  /\ request[r].at = "book"
  /\ \/ Ends(r, "EBOOKINGFAILED") /\ UNCHANGED <<slot, taken>>
     \/ /\ \A f \in ordered : slot[f] - quantity >= 0
        /\ slot' = [f \in DOMAIN slot |->
                      IF f \in ordered THEN slot[f] - quantity ELSE slot[f]]
        /\ taken' = [taken EXCEPT ![u] = [f \in Flights |->
                       IF f \in ordered THEN @[f] + quantity ELSE @[f]]]
        /\ request' = [request EXCEPT ![r].at = "edit", ![r].todo = fs]
  /\ UNCHANGED <<store, disturbed>>

\* AppendToList or RemoveFromList of one flight; the first failure ends it.
EditList(r) ==
  LET u == Asks[r].user
      edit == [op  |-> IF Asks[r].op = "AddBooking" THEN "Append" ELSE "Remove",
               key |-> u, arg |-> Head(request[r].todo)]
      rest == Tail(request[r].todo)
  IN
  /\ request[r].at = "edit"
  /\ \E outcome \in Outcomes :
       IF outcome = "failed" \/ Status(store[u].b, edit) = Failed
       THEN /\ Ends(r, "EBOOKINGFAILED")
            /\ Disturbs(r, TRUE)
            /\ UNCHANGED store
       ELSE /\ store' = [store EXCEPT ![u].b = After(@, edit)]
            /\ IF rest = <<>> THEN Ends(r, "OK")
                              ELSE request' = [request EXCEPT ![r].todo = rest]
            /\ UNCHANGED disturbed
  /\ UNCHANGED <<slot, taken>>

\* CreateFlight of Libairline: which failure, if any, it returns.  A Call that
\* fails counts as a flight that is there.
CreateFlight(f, dial, rpc) ==
  CASE dial = "failed" \/ ~Known(AirlineOf[f]) -> "NoAirline"
    [] rpc = "failed" \/ f \in DOMAIN slot -> "FlightExists"
    [] OTHER -> "nil"

Opened(f) == [g \in DOMAIN slot \cup {f} |-> IF g = f THEN Seats[f] ELSE slot[g]]

AddFlight(r) ==
  LET f == Asks[r].flights[1] IN
  /\ request[r].at = "create"
  /\ \E dial, rpc \in Outcomes :
       LET err == CreateFlight(f, dial, rpc) IN
       /\ Ends(r, CASE err = "NoAirline" -> "ENOAIRLINE"
                    [] err = "FlightExists" -> "EEXISTS"
                    [] OTHER -> "OK")
       /\ slot' = IF err = "nil" THEN Opened(f) ELSE slot
  /\ UNCHANGED <<store, taken, disturbed>>

-----------------------------------------------------------------------------
Serve(r) ==
  /\ \/ CheckUser(r) \/ PutUser(r) \/ PutBookings(r) \/ CheckFlights(r)
     \/ GetBookings(r) \/ ReadList(r) \/ MakeBooking(r) \/ EditList(r)
     \/ AddFlight(r)
  /\ UNCHANGED <<ringVars, directoryVars, agency, nodelist>>

\* GetAllFlights calls every connection, and a nil one stops the agency.
ViewFlights(r) ==
  /\ request[r].at = "dial"
  /\ \E down \in IF Faults THEN SUBSET Airlines ELSE {{}} :
       IF Known(AllAirline) /\ "nil" \in ToSet(Connections(down))
       THEN Stop(At[r])
       ELSE /\ \E outcome \in Outcomes :
                 Ends(r, IF Known(AllAirline) /\ outcome = "called"
                         THEN "OK" ELSE "error")
            /\ UNCHANGED <<ringVars, directoryVars, agency, nodelist, store,
                           slot, taken, disturbed>>

Join(s) == Register(s) /\ UNCHANGED <<directoryVars, agencyVars>>

StartAirline(a) ==
  /\ PublishAirline(a) \/ DeclareAirline(a)
  /\ UNCHANGED <<ringVars, agencyVars>>

Next ==
  \/ \E s \in Slaves : Join(s)
  \/ \E a \in Airlines : StartAirline(a)
  \/ \E m \in Agencies : Connect(m) \/ Declare(m) \/ Crash(m)
  \/ \E r \in Requests : Begin(r) \/ Serve(r) \/ ViewFlights(r)

Spec == Init /\ [][Next]_vars

\* A slave goes on registering.
FairSpec == Spec /\ \A s \in Slaves : WF_vars(Join(s))

-----------------------------------------------------------------------------
(* What the code promises.                                                 *)

\* A user has one seat on each flight of the list of bookings and none on any
\* other, whatever other users do, unless requests of that user overlapped, a
\* cancellation mixed flights that were booked with others, an agency or its
\* storage failed between a booking and the edits, or a user that a failed
\* read did not find was created again.
SeatForEntry ==
  \A u \in Users \ disturbed :
    (\A r \in Requests : Asks[r].user = u => request[r].at # "edit")
      => \A f \in Flights :
           taken[u][f] = IF Listed(store[u].b, f) THEN 1 ELSE 0

\* Whatever slots storage servers took, the server that an agency calls for a
\* user is the next one on the ring, and takes itself for that one.
RightServer ==
  \A m \in Agencies, u \in Users :
    nodelist[m] # <<>> =>
      LET s == Lookup(nodelist[m], Storehash[u]) IN
      /\ ViewOf(s) # <<>> => IsKeyInRange(s, Storehash[u])
      /\ \A t \in ToSet(nodelist[m]) :
           Distance(s, Storehash[u]) <= Distance(t, Storehash[u])

\* Whoever takes the slots and how often, every storage server hears of a ring
\* in the end, and no two of them of different ones.
OneRing ==
  /\ \A s \in Slaves : <>(ring[s] # <<>>)
  /\ [](\A s \in Slaves : ring[s] \in {<<>>, slots})

=============================================================================
