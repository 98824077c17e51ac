------------------------------ MODULE Storage ------------------------------
(***************************************************************************)
(* A storage server and the Libstores of its clients.                      *)
(***************************************************************************)
EXTENDS StorageServer, Libstore

VARIABLE unprotected   \* history: <<client, key>> whose reads no lease covers

vars == <<netVars, serverVars, libstoreVars, unprotected>>

TypeOK ==
  /\ NetTypeOK /\ ServerTypeOK /\ LibstoreTypeOK
  /\ unprotected \subseteq Clients \X Keys

Init == NetInit /\ ServerInit /\ LibstoreInit /\ unprotected = {}

-----------------------------------------------------------------------------
\* c has a usable entry for k, or one is on its way to it.
Holding(c, k) ==
  \/ Usable(c, k)
  \/ \E p \in Callers : /\ ClientOf[p] = c /\ call[p].granted
                        /\ call[p].req.key = k

\* The lease that p is given comes after its value was overwritten.
Overtaken(p) ==
  call'[p].granted
  /\ Fetch(cacheMap[call[p].req.key], call[p].req.op) # call[p].answer

Gone(ck) == ~Holding(ck[1], ck[2])'

Note(more) == unprotected' = {ck \in unprotected \cup more : ~Gone(ck)}

ServeCall(p) ==
  /\ HandleRead(p) \/ HandlePutLease(p) \/ HandleWrite(p)
  /\ UNCHANGED libstoreVars
  /\ Note(IF call[p].at = "lease" /\ Overtaken(p)
          THEN {<<ClientOf[p], call[p].req.key>>} ELSE {})

Dropped(k, c) == IF c \in leaseMap[k] THEN {<<c, k>>} ELSE {}

LeaseRevoked(k, c) ==
  /\ HandleRevokeLease(k, c)
  /\ UNCHANGED libstoreVars
  /\ Note(Dropped(k, c))

LeaseExpires(k, c) ==
  /\ HandleRemoveLease(k, c)
  /\ UNCHANGED libstoreVars
  /\ Note(Dropped(k, c))

Revocation(k, c) ==
  /\ RevokeLease(k, c)
  /\ UNCHANGED serverVars
  /\ Note({})

MakeCall(p) ==
  /\ \E r \in Calls[p] : Read(p, r) \/ Write(p, r)
  /\ UNCHANGED serverVars
  /\ Note({})

TakeReply(p) == Receive(p) /\ UNCHANGED serverVars /\ Note({})

Collect(c) ==
  /\ QueryCollect(c) \/ \E k \in Keys : EntryExpires(c, k)
  /\ UNCHANGED serverVars
  /\ Note({})

Next ==
  \/ \E p \in Callers : MakeCall(p) \/ ServeCall(p) \/ TakeReply(p)
  \/ \E k \in Keys, c \in Clients :
       LeaseRevoked(k, c) \/ LeaseExpires(k, c) \/ Revocation(k, c)
  \/ \E c \in Clients : Collect(c)

Spec == Init /\ [][Next]_vars

\* The handler takes what waits at its channel, replies arrive, and the timer
\* of a lease is over some time.  Revocations need not get through.
FairSpec ==
  /\ Spec
  /\ \A p \in Callers : WF_vars(ServeCall(p) \/ TakeReply(p))
  /\ \A k \in Keys, c \in Clients : WF_vars(LeaseExpires(k, c))

-----------------------------------------------------------------------------
(* What the code promises.                                                 *)

\* A hit in the cache is what the server would answer.
Coherent(c, k) ==
  LET op == IF cacheEntry[c][k].kind = "string" THEN "Get"
                                                       ELSE "GetList"
  IN cacheEntry[c][k] = Fetch(cacheMap[k], op)

\* A cache answers as the server would, whatever clients write, unless the
\* value was overwritten before the lease for it was given, or the server has
\* taken back a lease (by a timer, or by a revocation meant for an older one)
\* whose entry the client did not yet have or still used.
CoherentIfProtected ==
  \A c \in Clients, k \in Keys :
    Usable(c, k) /\ <<c, k>> \notin unprotected => Coherent(c, k)

\* Writes wait only as long as leases are out, new leases are refused just as
\* long, and no write is lost from the queue or twice in it.
WaitForLeases ==
  \A k \in Keys :
    /\ banLeaseMap[k] = Len(defReqMap[k])
    /\ banLeaseMap[k] > 0 => leaseMap[k] # {}
    /\ {p \in Callers : call[p].at = "deferred" /\ call[p].req.key = k}
         = ToSet(defReqMap[k])
    /\ IsInjective(defReqMap[k])

\* What callers see of the server alone is a store in which each call takes
\* effect at one moment, though some wait in a queue that others overtake.
Value(v) == IF IsList(v) THEN ListOf(HL!List(v.hl)) ELSE v

KV == INSTANCE KeyValue WITH
  data    <- [k \in Keys |-> Value(cacheMap[k])],
  request <- [p \in Callers |-> call[p].req],
  answer  <- [p \in Callers |-> call[p].answer],
  Nil     <- Absent

IsKeyValue == KV!Spec

\* No write waits for ever: the queue of a key is emptied again and again,
\* though clients go on reading and holders of leases need not react.
WritesGoOn == \A k \in Keys : []<>(defReqMap[k] = <<>>)

=============================================================================
