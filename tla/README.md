# Verification of the airline booking system

The repository is a distributed flight booking service in Go. Clients talk to
*agency* servers; flights belong to *airlines*, each served by a group of
replicated *airline servers*; agencies keep their users in *storage servers*
with leases. This directory models it in TLA+, checks the models with TLC on
small systems, and proves theorems about them with TLAPS for systems of any
size.

## 1. Inventory

| Component | Code | State | Operations | Interacts by |
|---|---|---|---|---|
| Libpaxos | `contrib/libpaxos` | per instance: coordinator, acceptor and learner records; counters; unsent values; executed values | `ProposeCommand`, one handler for ten message types, a retry tick each second | RPC `ReceiveMessage` between replicas; callback `PaxosResponse` into the airline server |
| Airline server | `contrib/airlineimpl` | flights (`Slot`), locks, log of prepared transactions, decisions, timers | create / query flights, `initTrans`, `responseTrans`, `expireTrans` | RPC from agencies, turned into Paxos commands; RPC votes to the TM |
| TranLayer (TM) | `contrib/tranlayer` | active transactions with votes, orders to send, decisions, timers | `BookingFlights`, `initTrans`, `responseTrans`, `expireTrans`, `oldTrans` | called by Libairline; synchronous RPC to airline servers and back |
| Storage server | `contrib/storageimpl` | values and lists, leases, bans, deferred writes, ring of servers | get, put, append, remove, leases, registration | RPC from Libstore; revocation RPC back; timers |
| Libstore | `contrib/libstore` | cache with leases, query counts | get, put, list operations, `RevokeLease` | RPC with storage servers, timers |
| Agency | `contrib/tribimpl` | none of its own; user lists in storage | users, add / remove booking, flights | Libstore and Libairline |
| Libairline, Libconn | `contrib/libairline`, `contrib/libconn` | none | group orders by airline; look a server up | RPC |
| bufi, lsplog, RPC wrappers, mains | `official`, `contrib/*rpc` | a queue; none | | |

What is hard in this code:

* **Order.** Every packet of Libpaxos waits in a goroutine of its own, so
  packets are handled in any order and late. Three roles share one handler, and
  learning changes the state of the coordinator.
* **Synchronous calls between single-threaded handlers.** A TM and an airline
  server each have one goroutine, and call each other from it.
* **A decision that is not an instant.** An airline server works the new `Slot`
  out when it votes and writes it when the decision comes, with other commands
  in between; only one server of an airline votes.
* **Timers.** The TM's timer decides with the votes so far. The airline
  server's timer starts a loop that does not end.
* **Partial failure.** A replica that cannot dial, a proposer that stops, a
  flight refused after others were locked.
* **Leases.** A value and its lease are obtained in two requests, the reply
  with both and the revocation travel separately, and the two ends count the
  time of a lease on their own.
* **Three steps where one is meant.** An agency reads the user's list, books
  the seats, and edits the list flight by flight.

What makes each component correct:

* Libpaxos: one value per ballot, promises kept, commits backed by a quorum,
  one value chosen per instance, commands executed in the same order, once,
  and in the end.
* Booking: seats neither lost nor sold twice, replicas of an airline equal, a
  booking atomic over its airlines, every client answered, every lock released.
* Storage and Libstore: no read of a value older than the last write that
  returned; deferred writes applied once and in order.
* Agency: a user's list is what was booked for that user.

`PROJECT.json` lists the hazards line by line with the property that covers
each.

## 2. Modules

```
PaxosNet <- Acceptor, Coordinator, Learner \
                                  Distinct -+- Libpaxos <- MCLibpaxos
                                  Distinct <- CommandLog
            (instantiated by Libpaxos: what a replica promises)
Libpaxos <- LibpaxosProofs <- AgreementProofs <- CommandLogProofs
Distinct <- DistinctLemmas <- CommandLogProofs

BookingNet <- TranLayer, AirlineServer <- Booking <- MCBooking
              AtomicCommit (instantiated by Booking: what two-phase commit promises)
Booking <- BookingProofs

KeyOps <- StorageNet <- StorageServer, Libstore <- Storage <- MCStorage
          HashList (instantiated by StorageServer)
KeyOps <- KeyValue (instantiated by Storage: what a storage server promises)
Storage <- StorageProofs

KeyOps <- Directory, Ring <- Agency <- MCAgency
Agency <- AgencyProofs

SequenceLemmas <- DistinctLemmas, BookingProofs, StorageProofs, AgencyProofs
```

### Libpaxos

* `PaxosNet`: replicas, values, packets; `Exchange` is everything a handler
  does with packets. A packet that is lost is one that is never taken from the
  inbox. `Reach` restricts the broadcasts of a run to replicas that act on
  them.
* `Acceptor`, `Coordinator`, `Learner`: the three files of those names, one
  operator per branch of their `operate`.
* `Libpaxos`: `handleOperate`, one action per message type with everything that
  follows (for a learnt value: `highestLearnt`, `Coordinator.instance`,
  execution or recovery, `unsentValues`); `ProposeCommand`; the `EPOCH` tick;
  `Start` of a replica the others could not dial before. A broadcast half way
  through a handler is part of the step: other replicas see no more than
  packets.
* `Distinct`: instances in ascending order and their distinct values in the
  order in which they first occur, for what a replica hands over; used by
  `Libpaxos` and by `CommandLog`.
* `CommandLog`: the abstract specification. A committed value stays, was
  proposed, and is handed over in order, without a gap, once. It says nothing
  about two replicas, for they may differ (section 4).

History variables (`promises`, `votes`, `accepts`, and the fields `for` and
`answered`) record what was sent; no guard reads them.

### Booking

* `BookingNet`: agencies, airline servers, transactions, and of Paxos what
  `CommandLog` says: a server is handed over commands that servers of its
  airline proposed, one after the other, each once (`Pending`, `HandOver`, for
  `execute` of `libpaxos.go`). Nothing makes two servers of an airline get the
  same commands in the same order, as Libpaxos does not (section 4); what is
  checked and proved about Booking holds for any orders.
* `TranLayer`: `requestHandler` with `initTrans`, the sending of orders,
  `responseTrans`, `expireTrans`; the Call it is in the middle of is the
  variable `call`, with the servers still to be called. A handler that replies
  to a client that has its answer already is `Blocked`. A vote that is not
  waited for changes nothing (`IgnoreVote`): the branch of `responseTrans` that
  would repeat an old decision calls the TM's own address, as its `args`
  shadows the request's (`coordinator.go:111`), where no `AirlineRPC` is
  registered. `VoteAwaited` says that no such vote comes.
* `AirlineServer`: `storeHandler` executing the commands that Paxos hands over
  to the server. `Claim` is what the loop of `initTrans` over the flights of the order comes to: it locks
  the flights before the first that is `Refused` (`Taken`), and votes for COMMIT
  if none is; `Voted` is the end of `initTrans` after the Call with the vote returns.
* `Booking`: the composition. A Call returns when the handler it goes to takes
  the request from its channel, so the two are one step: `RequestTransaction`
  (TM calls airline server) and `Vote` (airline server calls TM). Each is
  enabled only if the callee's handler is at its channel; that is where the
  deadlock comes from.
* `AtomicCommit`: the abstract specification. Airlines prepare or abort alone,
  commit only when all are prepared, and the client's answer matches. The
  refinement mapping takes an airline's state from the server asked, the vote
  in flight and the TM's record.

### Storage

* `KeyOps`: what the calls do to the value of a key and what they answer, seen
  from outside.
* `HashList`: `hashlist.go` with its pointers, index and counter.
* `StorageNet`: the RPCs of the goroutines of the agencies, and revocations on
  their way to a client (`asked`) and back (`agreed`). Channels and connections
  do not keep the order between two goroutines, so anything that is under way
  may be taken next; a revocation that fails is one that is never taken.
* `StorageServer`: `appHandler`, an action per request type. The check for
  writes that change nothing, the deferral and the processing are one step, as
  in the code; a Get with a lease is two (`HandleRead`, `HandlePutLease`).
  `DropLease` is what REVOKE_LEASE and REMOVE_LEASE share, the release of the
  whole queue of deferred writes included.
* `Libstore`: the cache and the calls. An entry that is revoked or expired is
  the same as none, since no read uses it; the clock is left out, so an entry
  may expire at any moment, and a server's timer too, before or after it.
* `Storage`: the composition. The history variable `unprotected` records the
  clients that hold, or are about to get, an entry that the server does not
  protect any more.
* `KeyValue`: the abstract specification, a store in which each call takes
  effect once, at one moment between its beginning and its end. `Serve` lets
  several calls take effect at a time, as the release of the queue does.

### Agency

* `Ring`: registration of the slaves with the master, the servers that each of
  them was told, and the two copies of the loops that find the server of a key.
* `Directory`: the master storage server as Libconn uses it: one list per
  airline and agency with the servers, one with all airlines. It is a single
  server in the scripts of the repository, so its calls are never sent to the
  wrong one.
* `Agency`: start and restart of agency servers, their requests with one step
  for each call of Libstore or Libairline, crashes, and calls that fail. A
  transaction is one step that books all flights or none, which is what
  `Booking` shows of it unless its timer fires. `taken` counts the seats taken
  for a user, and `disturbed` has the users for whom something happened that
  `SeatForEntry` excepts.

## 3. Runs

| Run | Expect | Shows | Bounds |
|---|---|---|---|
| `PaxosTwoCoordinators` | pass | types, one value per ballot, promises, quorums behind commits, execution in order and once, with every packet in every order | 2 replicas, one proposal each, 2 instances |
| `PaxosThreeAcceptors` | pass | two values are chosen only if a coordinator counted PREPARE_OKs that do not answer its proposal | 3 acceptors, 2 coordinators, 1 instance |
| `PaxosLateStart` | pass | refinement of `CommandLog`; recovery of a replica that starts late, with retries; commands are executed in the end where they were heard of from the start; fresh instances | 3 replicas, 1 command proposed three times (2 ticks), 2 instances |
| `PaxosAgreement` | violation | replicas disagree | 2 replicas, one proposal each |
| `PaxosCrash` | violation | a stopped proposer blocks the others | 3 replicas, 2 commands |
| `BookingConcurrent` | pass | seats conserved, replicas equal, refinement of `AtomicCommit`, every booking answered, and carried out unless servers get different orders | 2 agencies, A with 2 servers, B with 1, 2 bookings of one seat |
| `BookingTimeouts` | pass | seats conserved, and torn bookings only when the TM's timer fired, with any timer and any failed dial | 2 agencies, 1 server each, 3 transactions, one a cancellation, a flight created meanwhile |
| `StorageLeases` | pass | refinement of `KeyValue`, coherent caches but for the cases of section 4, writes wait for leases and go on | 2 clients with a goroutine each, 1 key with a list of two, 1 write each out of three kinds, 2 counted reads |
| `AgencyBookings` | pass | lists match seats, keys go where the ring says, one ring | 2 servers of 1 agency, 3 storage servers, 1 airline with 2 flights, 9 requests, with crashes and failed calls |
| `BookingAtomic` | violation | the TM's timer tears a booking | 1 booking, 2 airlines |
| `BookingDivergence` | violation | a failed dial makes replicas differ | 1 booking, 2 servers of A |
| `BookingDeadlock` | violation | two bookings at one agency block each other | 1 agency, 1 server, 2 bookings |

Why the bounds are enough to be interesting. Two coordinators are
what it takes for proposals to compete, and two instances for commands to be
learnt out of order. A replica proposes for an instance twice, and learning
moves its `Coordinator.instance` back before it proposes again, only if it makes
three proposals, as in `PaxosLateStart`: the first tick finds the second
instance, and when the first is learnt the next tick proposes for the second
again. Three
acceptors are the least number with a quorum that is not everybody. Two
bookings on a flight with one seat conflict both when they overlap (lock) and
when they do not (seat); the second airline makes the first one's vote wait; the
second server of A is the one that does not vote, and may get its commands in
another order. In `BookingTimeouts` `B1` is created while the bookings run, so
it may or may not exist when it is asked for. `MaxPropose`,
`MaxInstance`, `MaxEpoch` cap the counters of Libpaxos and `Trans` the
bookings; a `Propose` beyond `MaxInstance` is not taken, which leaves the
PROPOSE waiting like a slow packet. In the run for three acceptors nobody
learns, since what is chosen is a matter of the votes alone.

In `StorageLeases` one client's write finds the other's lease and its own, two
writes wait at once, a write overtakes them, and a client has a second lease
while the revocation of the first is under way; with one key every pair of
calls conflicts. `GetList` stands for both reads (`Get` has the same steps and
is defined too). `MaxWrites` caps the writes, and `MaxQueries` the reads a
client counts, which only have to reach `QueryThresh` (2 for the 3 of the code);
`QueryCollect` makes room for more. `AgencyBookings` has three storage servers
because two slots for one server and none for another need three; users and
servers are placed so that a key is beyond the last server and the master is
not the first on the ring. The requests overlap in part (`book` and `again`),
on different servers of the agency, and are otherwise ordered by `Flow`.

`CHECK_DEADLOCK` is off in the runs of Libpaxos and Booking: each one ends when
its commands or bookings are done, and in some of them handlers do wait for
each other. The other two never stop.

Fairness. Goroutines that can run are run by the Go scheduler, and senders on
an unbuffered channel are served first come, first served, so a packet or
request that waits at a handler that keeps taking requests is taken: weak
fairness of each handler (`FairSpec` in both parts). Bookings and commands are
finitely many in a run, so no request can be overtaken for ever. A replica
outside `Correct` has no fairness: it may stop at any step. In Libpaxos and
Booking timers and dial failures are never required to happen. In Storage the
server goes on and replies arrive (weak fairness of `ServeCall` and
`TakeReply`), and the timer of a lease that stays is over some time
(`LeaseExpires`: `leaseTimer` sleeps a fixed time and then waits at the channel
of the handler); clients need not answer revocations. In Agency only the slaves
go on registering, which they do in a loop that ends with the reply Ready.

Liveness under concurrency: `Answered` and `Resolved` hold in
`BookingConcurrent`, where the two agencies share one airline. `Resolved` speaks
of executions in which the servers of each airline get their commands in the
same order (`Agreeing`): a server that is handed a decision before its order
ignores it, and keeps the locks it takes afterwards. Neither property holds
in general (`BookingDeadlock`; with two airlines also two agencies whose orders
are sent in opposite directions).

## 4. What the code does not keep

* **Agreement** (`PaxosAgreement`). PREPARE_OKs are broadcast and do not say
  which PREPARE they answer, so a coordinator also counts those that answer
  another one. In the run it is the PREPARE of the other replica for the same
  instance; it may as well be an earlier one of its own. `OneChosenIfLed` states
  that no two values are chosen unless some coordinator has counted such a
  PREPARE_OK, and is proved for quorums that overlap.
* **Progress after a crash** (`PaxosCrash`). An instance left unfinished is
  never proposed again by anybody else, and blocks all later ones.
* **Atomicity under timeouts** (`BookingAtomic`). `expireTrans` sends the
  decision so far. `AtomicUnlessExpired` states that this is the only way, and is
  proved; `IsAtomicCommit` is proved without timers.
* **Equal replicas** (`BookingDivergence`). A replica that cannot dial the TM
  forgets the transaction that its replicas carry out. In the run, whose
  transaction is aborted, it keeps the lock and does not record the decision;
  the `Slot` would differ after a COMMIT. Without failed dials `ReplicasAgree` is
  proved.
* **Progress of an agency** (`BookingDeadlock`). Calls in both directions
  between two handlers.

Exceptions that a property names. It holds for everything else and says nothing
of these, so the hazards behind them are listed as modelled and not covered:

* **Stale reads** (`CoherentIfProtected`). A cached value may be older than the
  last write that returned, in four ways: the write was taken between the value
  and the lease (`storageimpl.go:194`, `:203`); the revocation reached the client
  before the reply with the lease did; the second of two revocations drops a
  newer lease; the server's timer, guard included, is over before the client's
  because the reply took long.
* **A seat for each entry** (`SeatForEntry`). It fails for a user whose requests
  overlap, in spite of `trib-impl.go:124` "Do not attempt to decrement count if
  duplicate booking"; when an agency or its storage fails between booking and
  list; when a cancellation lists a flight that is not booked next to one that
  is; and when a read fails and the user is created again.

Seen while modelling, without a run: a storage server may take two slots of the
ring and leave another with none (the ring of the others is still one ring,
`OneRing`, and calls still go right, `RightServer`); an agency server that
starts again finds itself in the directory and gives up; a query of all flights
stops the agency server if some airline cannot be dialled or has not declared
its server yet; failures of a CreateFlight call are told to the client as
EEXISTS; a lease that is revoked leaks the goroutine of its timer; the quorum
of `NewAirlineServer` is no majority for groups of even size; the locks of a
refused order are never released; `expireTrans` of the airline server does not
end; a vote after the TM's timeout blocks the TM for ever. All but the leak and
the quorum are in the models.

## 5. Proofs

Every invariant that a passing run checks is also a theorem, for any number of
replicas, servers, clients, bookings, flights, users and keys and for any
bounds, and so are one action property and two of the three refinements.

| Module | Theorem | Statement |
|---|---|---|
| `LibpaxosProofs` | `Invariance` | `Spec => []IInv` |
| | `TypeCorrect` | `Spec => []TypeOK` |
| | `BallotsHaveOneValue` | `Spec => []OneValuePerBallot` |
| | `PromisesAreKept` | `Spec => []PromiseKept` |
| | `CommitsHaveQuorum` | `Spec => []CommitHasQuorum` |
| `AgreementProofs` | `InstancesAreFresh` | `Spec => FreshInstance` |
| | `OneChosenWhileLed` | `2 * Q > N => (Spec => []OneChosenIfLed)` |
| `CommandLogProofs` | `ExecutesInOrder` | `Spec => []ExecutedInOrder` |
| | `ReplicasAreLogs` | `Spec => IsCommandLog` |
| `BookingProofs` | `TypesKept` | `Spec => []TypeOK` |
| | `VotesAreAwaited` | `Spec => []VoteAwaited` |
| | `AtomicBeforeTimeout` | `Spec => []AtomicUnlessExpired` |
| | `SeatsAreConserved` | `Spec => []SeatsConserved` |
| | `ReplicasDoAgree` | `~DialFails => (Spec => []ReplicasAgree)` |
| | `BookingsAreAtomic` | `~Timeouts => (Spec => IsAtomicCommit)` |
| `StorageProofs` | `StorageTypes` | `Spec => []TypeOK` |
| | `WritesWaitForLeases` | `Spec => []WaitForLeases` |
| | `CachesAreCoherent` | `Spec => []CoherentIfProtected` |
| `AgencyProofs` | `AgencyTypes` | `Spec => []TypeOK` |
| | `ServersAgree` | `Spec => []RightServer` |
| | `ListsMatchSeats` | `Spec => []SeatForEntry` |

The lemma `OneRingOnly` of `AgencyProofs` is the safety half of `OneRing`: no
two storage servers hear of different rings.

**Assumptions.** Those on the constants, each named in the module that declares
them and evaluated by TLC in the runs: `N` positive, `Q` from 1 to `N`, finite
sets of servers, airlines and bookings, a booking with at least one airline and
an order that is not empty for each, requests of agencies that name a flight
once (`AsksAssumption`; section 6), positions on the ring that are below its
size, which may be any (two servers may have the same one). Three theorems need
more, as a hypothesis, and in each case a run shows what happens without it:

* `OneChosenWhileLed` needs quorums that overlap. The quorum of
  `NewAirlineServer` is no majority for groups of even size (section 4); the
  other theorems of Libpaxos hold for it as well.
* `ReplicasDoAgree` needs `~DialFails`: `BookingDivergence`.
* `BookingsAreAtomic` needs `~Timeouts`: `BookingAtomic`. `AtomicBeforeTimeout`
  needs nothing and says what is left with timers.

None of the theorems about Booking assumes that the servers of an airline agree
on the order of their commands; `ReplicasDoAgree` compares servers that carried
out the same ones.

**Libpaxos.** None of the properties is inductive. `IInv` has four layers, each
preserved by every action with the help of those below:

1. `TypeInv`: the types, and that a value is there wherever a number says so
   (a proposal has `pvalue`, a vote reported has a value). Without it `Chosen`
   could be the empty string.
2. `BallotInv`: every proposal number in use is `r + k * N` for its replica `r`
   (`Mine`, `OneOwner`), smaller than the replica's next one
   (`NextProposalMine` is about the loop of `newProposalNumber`), and the
   ACCEPT of a proposal that is still waiting has not been sent. Hence
   `OneValuePerBallot`.
3. `VoteInv`: an acceptor's record bounds its votes and promises, and every
   vote is for an ACCEPT that was sent. Hence `PromiseKept`.
4. `IInv`: the votes a learner counted, the ACCEPT_OKs under way, the values
   committed and the COMMITs under way are all backed by `votes`
   (`BackedStays`: votes are never withdrawn). Hence `CommitHasQuorum`.

There is one lemma per layer and handler; `IInvStep` puts them together by the
disjuncts of `Next`. Three more invariants stand on it:

* `Ahead`: `Coordinator.instance` may move back when something is learnt, but
  not behind `highestLearnt`. Hence `FreshInstance`.
* `Reported` and `Guarded`, the argument of Paxos: a coordinator that counted
  answers to its own PREPARE only knows the last vote of each of those
  acceptors; and as long as all coordinators did so, in each ballot below an
  ACCEPT some quorum is bound to vote for nothing else. Two quorums overlap, so
  a second value cannot be chosen. Hence `OneChosenIfLed`.
* `ValuesProposed` and `Executed`: whatever is under way was proposed, and what
  a replica handed over are the distinct values of its first instances, all of
  them committed. `LearnsOnce` says of each handler that it changes the value
  of one instance that had none, or nothing. Hence `ExecutedInOrder` and the
  step-by-step refinement of `CommandLog`, whose client is told what
  `DistinctLemmas` proves of the enumeration of the instances.

**Booking.** The parts of the invariant, in the order in which they rest on each
other:

1. `Enlisted`: the servers asked, the calls, the orders not sent and the
   commands proposed are about the same servers, one for each airline, and an
   order is not given to Paxos again.
2. `Polled`, `Awaited`: a vote that is still to come, wherever the order for it
   is, is one the TM waits for. Hence `VoteAwaited`.
3. `Decided`: the decision is what the votes make of it (`DecisionOfVotes`), a
   decision is sent when all have voted or by the timer, and a COMMIT that is
   proposed or carried out was agreed to by all or sent by the timer. Hence
   `AtomicUnlessExpired`.
4. `Books(s)`: the flights of a transaction that `s` has prepared are locked for
   it alone, so the new Slot that was worked out at the vote is still the old
   one less the booking when the decision comes. Hence `SeatsConserved`.
5. `Replicas`: what a server of an airline holds is a function of the commands
   that it carried out (`Course` is such a function, extended by one sequence of
   commands when a server is the first to carry out its last one);
   a server in the middle of its vote counts as one that has logged it. Hence
   `ReplicasAgree`.
6. `Voted2PC`: all airlines of a booking are asked and, without timers, an ABORT
   that is under way was voted for by one of those asked. With it each step maps
   to one of `AtomicCommit` or a stutter: the order carried out is `Prepare` or
   `Abort` (`OrderMoves`), the decision carried out is `Commit`, `Abort` or
   nothing new (`DecisionMoves`), the last call of a transaction that is over is
   `Answer` (`TellingAnswers`), and all else keeps the states (`StatesKept`).

**Storage.** `IInv` is `Shapes` (the types and what a call may hold at each
stage), `WaitForLeases`, which is inductive with them, and `AllCovered`: an
entry in use that is not in `unprotected` has a lease and is the value of the
server, and so is a reply under way that brings a lease (`GrantCovered`). A
write changes a value only when no lease is left, so nobody outside
`unprotected` has an entry then.

**Agency.** `RingOK`: a server hears of a ring when all slots of the master are
taken, and those do not change any more. `ServersAgree` also rests on what the
search of `getServer` returns: a function that gives the place found after each
server looked at exists (`SearchExists`) and ends at the nearest one
(`LookupNearest`). `ListsMatchSeats` needs, of each user that is not in
`disturbed`: requests come one after the other (`OneByOne`), the user is created
before anything is listed (`CreatedEmpty`), a booking is made of flights that
are not in the list and a cancellation of such that are (`BooksTheOthers`), and
the seats are those of the list but for the edits to come (`SeatsButEdits`).

**Induction.** Where a fact is about every step of a recursion or every number
(the enumeration of a set, the search on the ring), the proofs take the least
number for which it fails and refute that one, since the provers cannot
instantiate the library's theorems on induction.

**Only model-checked.** Liveness, that is `LearntExecuted`, `ProposedExecuted`,
`Answered`, `Resolved`, `WritesGoOn` and the first half of `OneRing`: fairness
and `ENABLED` are outside the prover. And `IsKeyValue`: its calls take effect by
folds over a queue and by the pointers of a linked list of any length, so that
both sides of the refinement are functions of recursive data.

## 6. Not modelled

* Restart of a Libpaxos replica or an airline server with its memory lost: the
  code persists nothing and has no path for it.
* Crash of an airline server or agency in the middle of a booking; a slow one
  is covered by the timers in `BookingTimeouts`.
* Reads: `GetFlight`, `GetAllFlightIDs`, `oldTrans`. `oldTrans` and
  `oldResponse` of the airline server are never dispatched.
* `GetServerWithAddress` failing: the client gets an error before anything is
  started.
* The map `oldReplycMap`, shared by two goroutines without a lock.
* Crash of a storage server: it keeps its values in memory only, and its slaves
  and clients have no path for its return.
* A storage call of an agency whose reply is lost after it took effect; calls
  that fail have no effect in `Agency`. An agency that stops in the middle of a
  transaction counts as one that did not book; what airlines do then is a matter
  of their timers (`Booking`).
* The caches of Libstore under `Agency`: its reads are those of the store.
  Storage shows when they are not.
* Two occurrences of one flight in a request.
* A get before the ring is complete, when the master judges keys by slots that
  are still zero: requests come when the ring is complete (`Settled`).
* The components marked so in `PROJECT.json`.

## 7. Plan

1. Libpaxos, Booking, Storage with Libstore, and Agency with ring and directory
   are modelled, and every invariant of their runs is proved (done).
2. The refinements of `CommandLog` and `AtomicCommit` are proved (done). What is
   left of the third, `KeyValue`, is to prove it in two parts: for keys that hold
   a string, where a call is one comparison and one assignment; and for lists,
   that each operation of `HashList` keeps pointers, index and counter
   consistent (`ListOf` of its result is what `KeyOps` says), for lists of any
   length by the least place at which the two differ.
3. Safety facts behind the liveness properties, which would say for any number
   of bookings what can be waiting for what: in `Booking`, that a server waits
   with its vote only for the TM's handler, and the TM only for a server that is
   not waiting for it unless both are in the cycle that `BookingDeadlock` shows.
