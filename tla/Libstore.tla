------------------------------ MODULE Libstore ------------------------------
(***************************************************************************)
(* The storage client of an agency server, contrib/libstore: calls of the  *)
(* storage server, and a cache for the keys that are read often, filled    *)
(* under leases.                                                           *)
(***************************************************************************)
EXTENDS StorageNet

CONSTANT QueryThresh    \* reads of a key that make the next one want a lease

ASSUME QueryThreshAssumption == QueryThresh \in Nat \ {0}

VARIABLES
  cacheEntry,   \* cacheEntry[c][k]: the value in c's cache for k; Absent if
                \* there is no entry or it is revoked or expired, for then no
                \* read uses it any more and GARBAGE_COLLECT deletes it
  queryMap      \* queryMap[c][k]: reads of k that c counts

libstoreVars == <<cacheEntry, queryMap>>

LibstoreTypeOK ==
  /\ \A c \in Clients, k \in Keys :
       \/ cacheEntry[c][k] = Absent
       \/ cacheEntry[c][k].kind \in {"string", "list"}
  /\ queryMap \in [Clients -> [Keys -> Nat]]

LibstoreInit ==
  /\ cacheEntry = [c \in Clients |-> [k \in Keys |-> Absent]]
  /\ queryMap = [c \in Clients |-> [k \in Keys |-> 0]]

Usable(c, k) == cacheEntry[c][k] # Absent

\* A Get finds strings only and a GetList lists only.
Hit(c, r) ==
  /\ Usable(c, r.key)
  /\ cacheEntry[c][r.key].kind =
       (IF r.op = "Get" THEN "string" ELSE "list")

MayCall(p, r) == call[p].at = "idle" /\ r \in Calls[p]

\* Get and GetList: NEW_QUERY, FETCH_CACHE and the RPC if they miss.
Read(p, r) ==
  LET c == ClientOf[p]
      n == queryMap[c][r.key] + 1
  IN
  /\ MayCall(p, r) /\ r.op \in Reads
  /\ n <= MaxQueries
  /\ queryMap' = [queryMap EXCEPT ![c][r.key] = n]
  /\ IF Hit(c, r) THEN UNCHANGED call ELSE Send(p, r, n >= QueryThresh)
  /\ UNCHANGED <<writes, asked, agreed, cacheEntry>>

\* Put, AppendToList and RemoveFromList.
Write(p, r) ==
  /\ MayCall(p, r) /\ r.op \in Writes
  /\ writes[p] < MaxWrites[p]
  /\ writes' = [writes EXCEPT ![p] = @ + 1]
  /\ Send(p, r, FALSE)
  /\ UNCHANGED <<asked, agreed, libstoreVars>>

\* Mutation: every reply is cached.
CachesAll(i) == TRUE

Caches(i) == i.granted

\* The RPC returns; CREATE_CACHE if it brings a lease.
Receive(p) ==
  LET i == call[p]
      c == ClientOf[p]
  IN
  /\ i.at = "answered"
  /\ call' = [call EXCEPT ![p] = NoCall]
  /\ cacheEntry' = IF Caches(i)
                   THEN [cacheEntry EXCEPT ![c][i.req.key] = i.answer]
                   ELSE cacheEntry
  /\ UNCHANGED <<writes, asked, agreed, queryMap>>

\* RPC RevokeLease, which the client always agrees to.
RevokeLease(k, c) ==
  /\ asked[k][c] > 0
  /\ asked' = [asked EXCEPT ![k][c] = @ - 1]
  /\ agreed' = [agreed EXCEPT ![k][c] = @ + 1]
  /\ cacheEntry' = [cacheEntry EXCEPT ![c][k] = Absent]
  /\ UNCHANGED <<call, writes, queryMap>>

\* The entry's expiryTime passes: the next FETCH_CACHE marks it revoked.
EntryExpires(c, k) ==
  /\ Usable(c, k)
  /\ cacheEntry' = [cacheEntry EXCEPT ![c][k] = Absent]
  /\ UNCHANGED <<netVars, queryMap>>

\* QUERY_COLLECT: one read of each key is forgotten.
QueryCollect(c) ==
  /\ \E k \in Keys : queryMap[c][k] > 0
  /\ queryMap' = [queryMap EXCEPT ![c] =
                    [k \in Keys |-> IF @[k] = 0 THEN 0 ELSE @[k] - 1]]
  /\ UNCHANGED <<netVars, cacheEntry>>

=============================================================================
