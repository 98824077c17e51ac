----------------------------- MODULE StorageNet -----------------------------
(***************************************************************************)
(* Agency servers and the storage server they use.  Each RPC to the        *)
(* storage server and each request that waits at a channel is a record of  *)
(* the goroutine that makes it; a goroutine makes one call at a time.      *)
(***************************************************************************)
EXTENDS Integers, FiniteSets, KeyOps

CONSTANTS
  Clients,       \* agency servers, by their host:port
  Callers,       \* goroutines that call their Libstore
  ClientOf,      \* the agency server of a goroutine
  Keys,
  Before,        \* Before[k]: the value of k at first, from earlier calls
  Calls,         \* Calls[p]: the calls p may make, with op, key and arg
  Nil,           \* the nil pointer of the server's lists
  MaxWrites,     \* bound of the model: writes that a goroutine makes
  MaxQueries     \* bound of the model: reads of a key counted by a client

ASSUME ClientsAssumption == ClientOf \in [Callers -> Clients]

ASSUME CallsAssumption ==
  /\ MaxWrites \in [Callers -> Nat] /\ MaxQueries \in Nat
  /\ \A p \in Callers :
       Calls[p] \subseteq [op : Reads \cup Writes, key : Keys, arg : STRING]
  /\ \A k \in Keys : Before[k].kind \in {"none", "string", "list"}

VARIABLES
  call,     \* call[p]: the RPC of p
  writes,   \* writes[p]: how many writes p has made
  asked,    \* asked[k][c]: revocations of k on their way to client c; one that
            \* fails is one that is never taken
  agreed    \* agreed[k][c]: those that c agreed to, on their way back

netVars == <<call, writes, asked, agreed>>

\* Where a call is: on its way to the server; between the two requests of a
\* Get that wants a lease; in the queue of deferred requests; on its way back.
Stages == {"sent", "lease", "deferred", "answered"}

\* No request, no answer yet, no entry of a cache.
Absent == [kind |-> "absent"]

NoCall == [at |-> "idle", req |-> Absent, want |-> FALSE, answer |-> Absent,
           granted |-> FALSE]

NetTypeOK ==
  /\ \A p \in Callers :
       /\ call[p].at \in Stages \cup {"idle"}
       /\ call[p].req \in Calls[p] \cup {Absent}
       /\ call[p].want \in BOOLEAN /\ call[p].granted \in BOOLEAN
       /\ (call[p].req = Absent) <=> (call[p].at = "idle")
       /\ (call[p].answer # Absent) <=> (call[p].at \in {"lease", "answered"})
  /\ \A p \in Callers : writes[p] \in 0 .. MaxWrites[p]
  /\ asked \in [Keys -> [Clients -> Nat]]
  /\ agreed \in [Keys -> [Clients -> Nat]]

NetInit ==
  /\ call = [p \in Callers |-> NoCall]
  /\ writes = [p \in Callers |-> 0]
  /\ asked = [k \in Keys |-> [c \in Clients |-> 0]]
  /\ agreed = [k \in Keys |-> [c \in Clients |-> 0]]

Sent(r, want) == [at |-> "sent", req |-> r, want |-> want, answer |-> Absent,
                  granted |-> FALSE]

\* p makes request r; the reply is to carry a lease if it wants one.
Send(p, r, want) == call' = [call EXCEPT ![p] = Sent(r, want)]

Reply(c, answer, granted) ==
  [c EXCEPT !.at = "answered", !.answer = answer, !.granted = granted]

=============================================================================
