---------------------------- MODULE StorageServer ----------------------------
(***************************************************************************)
(* The storage server, contrib/storageimpl/storageimpl.go: one goroutine,  *)
(* appHandler, takes the requests one by one.  A write to a key that is    *)
(* leased waits until every lease of the key is given back or has expired. *)
(***************************************************************************)
EXTENDS StorageNet

HL == INSTANCE HashList

VARIABLES
  cacheMap,      \* cacheMap[k]: nothing, a string or a HashList
  leaseMap,      \* leaseMap[k]: the clients with a lease whose timer runs
  banLeaseMap,   \* banLeaseMap[k]: number of deferred writes that ban leases
  defReqMap      \* defReqMap[k]: the callers of the deferred writes

serverVars == <<cacheMap, leaseMap, banLeaseMap, defReqMap>>

Stored(hl) == [kind |-> "hashlist", hl |-> hl]

\* How a value from before is kept.
Kept(v) ==
  IF v.kind = "list" THEN Stored(FoldLeft(HL!Insert, HL!NewHashList, v.items))
                     ELSE v

ServerTypeOK ==
  /\ \A k \in Keys : cacheMap[k].kind \in {"none", "string", "hashlist"}
  /\ leaseMap \in [Keys -> SUBSET Clients]
  /\ banLeaseMap \in [Keys -> Nat]
  /\ \A k \in Keys : defReqMap[k] \in Seq(Callers)

ServerInit ==
  /\ cacheMap = [k \in Keys |-> Kept(Before[k])]
  /\ leaseMap = [k \in Keys |-> {}]
  /\ banLeaseMap = [k \in Keys |-> 0]
  /\ defReqMap = [k \in Keys |-> <<>>]

-----------------------------------------------------------------------------
(* The values.                                                             *)

IsList(v) == v.kind = "hashlist"
HasItem(v, x) == IsList(v) /\ HL!Exist(v.hl, x)

\* What GET_VALUE and GET_LIST_VALUE return; Nothing is the nil reply.
Fetch(v, op) ==
  CASE op = "Get" -> IF v.kind = "string" THEN v ELSE Nothing
    [] op = "GetList" /\ IsList(v) -> ListOf(HL!List(v.hl))
    [] op = "GetList" /\ v.kind = "string" -> ListOf(<<>>)
    [] OTHER -> Nothing

\* A write that changes nothing: answered at once, even while others wait.
Futile(v, r) ==
  CASE r.op = "Put"    -> v = Text(r.arg)
    [] r.op = "Append" -> HasItem(v, r.arg)
    [] r.op = "Remove" -> ~HasItem(v, r.arg)

Written(v, r) ==
  CASE r.op = "Put"    -> Text(r.arg)
    [] r.op = "Append" -> IF HasItem(v, r.arg) THEN v
                          ELSE Stored(HL!Insert(IF IsList(v) THEN v.hl
                                                ELSE HL!NewHashList, r.arg))
    [] r.op = "Remove" -> IF HasItem(v, r.arg)
                          THEN Stored(HL!Remove(v.hl, r.arg)) ELSE v

WriteStatus(v, r) ==
  IF r.op = "Put" \/ ~Futile(v, r) THEN Ok ELSE Failed

-----------------------------------------------------------------------------
(* The requests.                                                           *)

HandleRead(p) ==
  LET c == call[p]
      value == Fetch(cacheMap[c.req.key], c.req.op)
  IN
  /\ c.at = "sent" /\ c.req.op \in Reads
  /\ call' = [call EXCEPT ![p] =
                IF c.want /\ value # Nothing
                THEN [c EXCEPT !.at = "lease", !.answer = value]
                ELSE Reply(c, value, FALSE)]
  /\ UNCHANGED <<writes, asked, agreed, serverVars>>

\* PUT_LEASE: a new lease, or a new timer for an old one.
HandlePutLease(p) ==
  LET c == call[p]
      k == c.req.key
      granted == banLeaseMap[k] = 0
  IN
  /\ c.at = "lease"
  /\ call' = [call EXCEPT ![p] = Reply(c, c.answer, granted)]
  /\ leaseMap' = [leaseMap EXCEPT ![k] = IF granted
                                         THEN @ \cup {ClientOf[p]} ELSE @]
  /\ UNCHANGED <<writes, asked, agreed, cacheMap, banLeaseMap, defReqMap>>

\* Mutation: a write does not wait for the lease of its own client.
MustWaitForOthers(p, k) == leaseMap[k] \ {ClientOf[p]} # {}

\* A lease that is out makes writes wait, those of its holder too.
MustWait(p, k) == leaseMap[k] # {}

Defer(p, k) ==
  /\ call' = [call EXCEPT ![p].at = "deferred"]
  /\ asked' = [asked EXCEPT ![k] =
                 [c \in Clients |-> IF c \in leaseMap[k] THEN @[c] + 1
                                                         ELSE @[c]]]
  /\ banLeaseMap' = [banLeaseMap EXCEPT ![k] = @ + 1]
  /\ defReqMap' = [defReqMap EXCEPT ![k] = Append(@, p)]
  /\ UNCHANGED <<writes, agreed, cacheMap, leaseMap>>

\* The call c is a write that finds v.
Done(v, c) == Reply(c, WriteStatus(v, c.req), FALSE)

Apply(p, k) ==
  /\ cacheMap' = [cacheMap EXCEPT ![k] = Written(@, call[p].req)]
  /\ call' = [call EXCEPT ![p] = Done(cacheMap[k], @)]
  /\ UNCHANGED <<writes, asked, agreed, leaseMap, banLeaseMap, defReqMap>>

HandleWrite(p) ==
  LET c == call[p]
      k == c.req.key
  IN
  /\ c.at = "sent" /\ c.req.op \in Writes
  /\ IF ~Futile(cacheMap[k], c.req) /\ MustWait(p, k) THEN Defer(p, k)
                                                   ELSE Apply(p, k)

\* The values that k has while the writes of the callers in todo are processed:
\* the first is v, and the write of todo[n] finds the one at n - 1.
Values(v, todo) ==
  LET value[n \in 0 .. Len(todo)] ==
        IF n = 0 THEN v ELSE Written(value[n - 1], call[todo[n]].req)
  IN value

\* The lease of c is dropped, and with the last one go the deferred writes.
DropLease(k, c) ==
  LET rest == leaseMap[k] \ {c}
      todo == IF rest = {} THEN defReqMap[k] ELSE <<>>
      value == Values(cacheMap[k], todo)
      place(p) == CHOOSE n \in DOMAIN todo : todo[n] = p
  IN
  /\ leaseMap' = [leaseMap EXCEPT ![k] = rest]
  /\ cacheMap' = [cacheMap EXCEPT ![k] = value[Len(todo)]]
  /\ call' = [p \in Callers |-> IF p \in ToSet(todo)
                                THEN Done(value[place(p) - 1], call[p])
                                ELSE call[p]]
  /\ banLeaseMap' = [banLeaseMap EXCEPT ![k] = IF rest = {} THEN 0 ELSE @]
  /\ defReqMap' = [defReqMap EXCEPT ![k] = IF rest = {} THEN <<>> ELSE @]

\* Mutation: the lease is given back and the writes stay in the queue.
HandleRevokeLeaseOnly(k, c) ==
  /\ agreed[k][c] > 0
  /\ agreed' = [agreed EXCEPT ![k][c] = @ - 1]
  /\ leaseMap' = [leaseMap EXCEPT ![k] = @ \ {c}]
  /\ UNCHANGED <<call, writes, asked, cacheMap, banLeaseMap, defReqMap>>

\* REVOKE_LEASE: a client agreed to a revocation, perhaps of a lease that it
\* has no more, or of an older one than it has now.
HandleRevokeLease(k, c) ==
  /\ agreed[k][c] > 0
  /\ agreed' = [agreed EXCEPT ![k][c] = @ - 1]
  /\ IF c \in leaseMap[k] THEN DropLease(k, c)
                          ELSE UNCHANGED <<call, serverVars>>
  /\ UNCHANGED <<writes, asked>>

\* Mutation: the timer is stopped when the lease is revoked.
HandleRemoveLeaseIfIdle(k, c) ==
  /\ c \in leaseMap[k] /\ defReqMap[k] = <<>>
  /\ DropLease(k, c)
  /\ UNCHANGED <<writes, asked, agreed>>

\* REMOVE_LEASE: the timer of c's lease is over.
HandleRemoveLease(k, c) ==
  /\ c \in leaseMap[k]
  /\ DropLease(k, c)
  /\ UNCHANGED <<writes, asked, agreed>>

=============================================================================
