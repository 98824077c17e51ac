----------------------------- MODULE Directory -----------------------------
(***************************************************************************)
(* The master storage server as the directory of airlines and agencies,    *)
(* and Libconn, which each server uses to enter itself and to find others, *)
(* contrib/libconn/libconn.go.                                             *)
(***************************************************************************)
EXTENDS KeyOps, FiniteSets

CONSTANTS Airlines, AgencyIDs, AllAirline

VARIABLES
  directory,   \* directory[n]: the list kept for airline, agency or AllAirline
  airline      \* airline[a]: down, published or up, as far as a's server is

directoryVars == <<directory, airline>>

Names == Airlines \cup AgencyIDs \cup {AllAirline}

DirectoryTypeOK ==
  /\ \A n \in Names : directory[n].kind \in {"none", "list"}
  /\ airline \in [Airlines -> {"down", "published", "up"}]

DirectoryInit ==
  /\ directory = [n \in Names |-> Nothing]
  /\ airline = [a \in Airlines |-> "down"]

Entry(n, x) == [op |-> "Append", key |-> n, arg |-> x]

\* appendList fails if the entry is there already.
AppendFails(n, x) == Status(directory[n], Entry(n, x)) = Failed

Appended(d, r) == [d EXCEPT ![r.key] = After(@, r)]

PublishAirline(a) ==
  /\ airline[a] = "down"
  /\ directory' = Appended(directory, Entry(AllAirline, a))
  /\ airline' = [airline EXCEPT ![a] = "published"]

\* DeclareExistence of the airline's server.
DeclareAirline(a) ==
  /\ airline[a] = "published"
  /\ directory' = Appended(directory, Entry(a, a))
  /\ airline' = [airline EXCEPT ![a] = "up"]

\* GetServer finds a server for n.
Known(n) == directory[n] # Nothing

\* The connections of GetServers when it cannot dial those that are down: one
\* for each airline found, and nil for each of the others at the end.
Connections(down) ==
  LET names == Reading(directory[AllAirline], "GetList").items
      found == SelectSeq(names, LAMBDA a : Known(a) /\ a \notin down)
  IN [i \in DOMAIN names |-> IF i <= Len(found) THEN found[i] ELSE "nil"]

=============================================================================
