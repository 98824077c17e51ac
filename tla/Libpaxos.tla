------------------------------ MODULE Libpaxos ------------------------------
(***************************************************************************)
(* A group of replicas running contrib/libpaxos: the three roles of each   *)
(* replica behind its single operateHandler goroutine, the execution of    *)
(* learnt commands in instance order, the recovery of missed instances and *)
(* the retry of commands that were not learnt yet.  One action is one call *)
(* of handleOperate, or of ProposeCommand, whose effects it holds whole.   *)
(*                                                                         *)
(* Nothing a replica does is read by another before it receives a packet,  *)
(* so a handler that broadcasts half way is one atomic step.               *)
(***************************************************************************)
EXTENDS Acceptor, Coordinator, Learner, Distinct, SequencesExt

CONSTANTS
  Proposers,   \* the replicas whose client proposes commands
  Late,        \* the replicas that start when others are running already
  Correct      \* the replicas that never stop

ASSUME ReplicasAssumption ==
  /\ Proposers \subseteq Replicas
  /\ Late \subseteq Replicas
  /\ Correct \subseteq Replicas

VARIABLES
  proposeCounter,        \* commands proposed so far
  unsentValues,          \* proposed, not yet known to be learnt
  ticks,                 \* EPOCHs that proposed again, at most MaxEpoch
  highestLearnt,
  lastCommandExecuted,
  executed               \* the values passed to PaxosResponse, in order

execVars == <<highestLearnt, lastCommandExecuted, executed>>
proposeVars == <<proposeCounter, unsentValues, ticks>>
vars == <<inbox, up, acceptorVars, coordinatorVars, learner, execVars,
          proposeVars>>

\* ExecutedInOrder says what the sequences in executed are.
TypeOK ==
  /\ NetTypeOK
  /\ AcceptorTypeOK
  /\ CoordinatorTypeOK
  /\ LearnerTypeOK
  /\ proposeCounter \in [Replicas -> 0 .. MaxPropose]
  /\ unsentValues \in [Replicas -> SUBSET Values]
  /\ ticks \in [Replicas -> 0 .. MaxEpoch]
  /\ highestLearnt \in [Replicas -> 0 .. MaxInstance]
  /\ lastCommandExecuted \in [Replicas -> 0 .. MaxInstance]

Init ==
  /\ inbox = [r \in Replicas |-> {}]
  /\ up = Replicas \ Late
  /\ AcceptorInit
  /\ CoordinatorInit
  /\ LearnerInit
  /\ proposeCounter = [r \in Replicas |-> 0]
  /\ unsentValues = [r \in Replicas |-> {}]
  /\ ticks = [r \in Replicas |-> 0]
  /\ highestLearnt = [r \in Replicas |-> 0]
  /\ lastCommandExecuted = [r \in Replicas |-> 0]
  /\ executed = [r \in Replicas |-> <<>>]

-----------------------------------------------------------------------------
\* NewLibpaxos at a replica that the others could not dial before.
Start(r) ==
  /\ r \notin up
  /\ up' = up \cup {r}
  /\ UNCHANGED <<inbox, acceptorVars, coordinatorVars, learner, execVars,
                 proposeVars>>

\* ProposeCommand(cmd) at r: a value of its own, queued as a PROPOSE packet.
ProposeCommand(r) ==
  LET v == [node |-> r, counter |-> proposeCounter[r]] IN
  /\ r \in up
  /\ proposeCounter[r] < MaxPropose
  /\ proposeCounter' = [proposeCounter EXCEPT ![r] = @ + 1]
  /\ Exchange(r, {}, {[type |-> "PROPOSE", value |-> v, round |-> 0]}, {})
  /\ UNCHANGED <<up, acceptorVars, coordinatorVars, learner, execVars,
                 unsentValues, ticks>>

\* EPOCH, once a second: propose every unsent value again.  A tick without
\* any changes nothing.
Epoch(r) ==
  /\ r \in up
  /\ unsentValues[r] # {}
  /\ ticks[r] < MaxEpoch
  /\ ticks' = [ticks EXCEPT ![r] = @ + 1]
  /\ Exchange(r, {}, {[type |-> "PROPOSE", value |-> v, round |-> ticks'[r]] :
                        v \in unsentValues[r]}, {})
  /\ UNCHANGED <<up, acceptorVars, coordinatorVars, learner, execVars,
                 proposeCounter, unsentValues>>

HandlePropose(r) ==
  \E p \in Received(r, "PROPOSE") :
    /\ Propose(r, p)
    /\ unsentValues' = [unsentValues EXCEPT ![r] = @ \cup {p.value}]
    /\ UNCHANGED <<up, acceptorVars, learner, execVars, proposeCounter, ticks>>

\* Packets that only the coordinator role acts on.
HandleByCoordinator(r) ==
  /\ \/ \E p \in Received(r, "LEARN") : AskForMissing(r, p)
     \/ \E p \in Received(r, "PREPARE_OK") : HandlePrepareOK(r, p)
     \/ \E p \in Received(r, "PREPARE_REJECT") : HandlePrepareReject(r, p)
  /\ UNCHANGED <<up, acceptorVars, learner, execVars, proposeVars>>

HandleByAcceptor(r) ==
  /\ \/ \E p \in Received(r, "PREPARE") : HandlePrepare(r, p)
     \/ \E p \in Received(r, "ACCEPT") : HandleAccept(r, p)
  /\ UNCHANGED <<up, coordinatorVars, learner, execVars, proposeVars>>

-----------------------------------------------------------------------------
\* Mutation: executeHistory is not looked at.
SkippedNever(ex, vs, k) == FALSE

\* execute skips a value that executeHistory holds: one of those executed
\* before, ex, or of those executed just now.
Skipped(ex, vs, k) == vs[k] \in ToSet(ex) \/ \E j \in 1 .. k - 1 : vs[j] = vs[k]

\* execute, called for each of the values vs.
ExecuteAll(ex, vs) ==
  LET new == Ascending({k \in DOMAIN vs : ~Skipped(ex, vs, k)})
  IN  ex \o [n \in DOMAIN new |-> vs[new[n]]]

\* Mutation: commands are executed as they are learnt.
CompleteAlways(protos, highest) == TRUE

\* No instance up to the highest one learnt is missing, by the number of them.
Complete(protos, highest) == Cardinality(History(protos)) = highest

\* Mutation: the instance just below the highest one is forgotten.
MissingButLast(protos, highest) ==
  {j \in 1 .. highest - 2 : j \notin History(protos)}

Missing(protos, highest) ==
  {j \in 1 .. highest - 1 : j \notin History(protos)}

\* Mutation: any instance that is learnt is the one to go on from.
InstanceLearnt(r, i) == i

\* Coordinator.instance after i was learnt: it can move back.
InstanceAfter(r, i) == IF i > highestLearnt[r] THEN i ELSE instance[r]

\* What handleOperate does once v is learnt for instance i: protos is the
\* learner state by now, out what the learner broadcasts.
Learnt(r, p, i, v, protos, out) ==
  LET highest == IF i > highestLearnt[r] THEN i ELSE highestLearnt[r]
      last    == lastCommandExecuted[r] IN
  /\ learner' = [learner EXCEPT ![r] = protos]
  /\ highestLearnt' = [highestLearnt EXCEPT ![r] = highest]
  /\ instance' = [instance EXCEPT ![r] = InstanceAfter(r, i)]
  /\ unsentValues' = [unsentValues EXCEPT ![r] = @ \ {v}]
  /\ \/ /\ Complete(protos, highest)
        /\ executed' = [executed EXCEPT ![r] = ExecuteAll(@,
                           [k \in 1 .. highest - last |->
                              protos[last + k].value])]
        /\ lastCommandExecuted' = [lastCommandExecuted EXCEPT ![r] = highest]
        /\ Exchange(r, {p}, {}, out)
     \/ /\ ~Complete(protos, highest)
        /\ Exchange(r, {p}, {[type |-> "LEARN", inst |-> j] :
                                j \in Missing(protos, highest)}, out)
        /\ UNCHANGED <<executed, lastCommandExecuted>>
  /\ UNCHANGED <<up, acceptorVars, proto, nextproposal, highproposal, accepts,
                 proposeCounter, ticks>>

\* The learner keeps the packet's effect to itself: nothing is learnt.
NothingLearnt(r, p, protos, out) ==
  /\ learner' = [learner EXCEPT ![r] = protos]
  /\ Exchange(r, {p}, {}, out)
  /\ UNCHANGED <<up, acceptorVars, coordinatorVars, execVars, proposeVars>>

\* ACCEPT_OK: count the vote; Q votes for one value in one ballot commit it.
HandleAcceptOK(r) ==
  \E p \in Received(r, "ACCEPT_OK") :
    LET lp == learner[r][p.inst]
        With(l) == [learner[r] EXCEPT ![p.inst] = l] IN
    \/ /\ Counts(lp, p)
       /\ Reached(WithVote(lp, p), p.value)
       /\ Learnt(r, p, p.inst, p.value,
            With(Committed(WithVote(lp, p), p.value)),
            {[type |-> "COMMIT", value |-> p.value, inst |-> p.inst]})
    \/ /\ Counts(lp, p)
       /\ ~Reached(WithVote(lp, p), p.value)
       /\ NothingLearnt(r, p, With(WithVote(lp, p)), {})
    \/ /\ ~Counts(lp, p)
       /\ NothingLearnt(r, p, learner[r], {})

\* COMMIT: another learner saw the quorum.
HandleCommit(r) ==
  \E p \in Received(r, "COMMIT") :
    LET lp == learner[r][p.inst] IN
    \/ /\ ~lp.commit
       /\ Learnt(r, p, p.inst, p.value,
            [learner[r] EXCEPT ![p.inst] = Committed(lp, p.value)], {})
    \/ /\ lp.commit
       /\ NothingLearnt(r, p, learner[r], {})

\* NOP: tell everybody the value of an instance some replica missed.
HandleNop(r) ==
  \E p \in Received(r, "NOP") :
    LET lp == learner[r][p.inst] IN
    NothingLearnt(r, p, learner[r],
      {m \in {[type |-> "COMMIT", value |-> lp.value, inst |-> p.inst]} :
         lp.commit})

-----------------------------------------------------------------------------
HandleOperate(r) ==
  \/ HandlePropose(r)
  \/ HandleByCoordinator(r)
  \/ HandleByAcceptor(r)
  \/ HandleAcceptOK(r)
  \/ HandleCommit(r)
  \/ HandleNop(r)

Next ==
  \/ \E r \in Late : Start(r)
  \/ \E r \in Proposers : ProposeCommand(r)
  \/ \E r \in Replicas : Epoch(r)
  \/ \E r \in Replicas : HandleOperate(r)

Spec == Init /\ [][Next]_vars

\* The channel a replica's packets wait at is first come, first served, so a
\* replica that runs handles each of them; a replica outside Correct may stop
\* at any time.
FairSpec ==
  /\ Spec
  /\ \A r \in Correct : WF_vars(HandleOperate(r)) /\ WF_vars(Start(r))

-----------------------------------------------------------------------------
(* What the code promises.                                                 *)

\* In one instance, one ballot carries one value: proposal numbers are
\* unique (newProposalNumber), and a coordinator sends one ACCEPT for each.
OneValuePerBallot ==
  \A a, b \in accepts : a.inst = b.inst /\ a.bal = b.bal => a = b

\* An acceptor that answered PREPARE_OK for a ballot, reporting its vote in
\* ballot "prior", never votes between the two, before or after.
PromiseKept ==
  \A m \in promises, v \in votes :
    m.acc = v.acc /\ m.inst = v.inst /\ v.bal < m.bal => v.bal <= m.prior

Voters(i, b, v) ==
  {r \in Replicas : [acc |-> r, inst |-> i, bal |-> b, value |-> v] \in votes}

ChosenIn(i, b, v) == Cardinality(Voters(i, b, v)) >= Q

\* A replica holds a value as committed, by counting votes, by a COMMIT or by
\* recovery, only if Q acceptors voted for it in one and the same ballot.
CommitHasQuorum ==
  \A r \in Replicas, i \in Instances :
    learner[r][i].commit =>
      \E w \in votes : w.inst = i /\ ChosenIn(i, w.bal, learner[r][i].value)

\* At most one value of an instance has Q votes in one ballot.
OneChosen ==
  \A v, w \in votes :
    v.inst = w.inst /\ ChosenIn(v.inst, v.bal, v.value)
                    /\ ChosenIn(w.inst, w.bal, w.value) => v.value = w.value

\* Every ACCEPT so far was backed by answers to its own PREPARE only.
AllLed == \A a \in accepts : a.answered = {a.bal}

\* Counting the PREPARE_OKs that answer other proposals is the one thing
\* between this code and agreement: with quorums that overlap, as long as no
\* coordinator has done so, one value at most is chosen for an instance.
OneChosenIfLed == AllLed => OneChosen

\* The values r holds, by instance.
Learned(r) == [i \in Instances |-> learner[r][i].value]

\* A replica executed exactly the values it committed, in instance order from
\* instance 1 without a gap, a value learnt for two instances only once.
ExecutedInOrder ==
  \A r \in Replicas :
    /\ 1 .. lastCommandExecuted[r] \subseteq History(learner[r])
    /\ executed[r] = DistinctValues(Learned(r), lastCommandExecuted[r])

\* No command is proposed for an instance its replica knows to be committed,
\* even though learning moves Coordinator.instance back as well as forth: with
\* two proposals under way, learning the first moves it back, and the next
\* command goes to the instance of the second once more.
FreshInstance ==
  [][\A r \in Replicas, i \in Instances :
       proto'[r][i].proposal # proto[r][i].proposal
         => ~learner[r][i].commit]_vars

Proposed ==
  {v \in Values : v.counter < proposeCounter[v.node]}

\* To its client each replica is a command log: commands that were proposed,
\* committed once, handed over in order and once.
Log == INSTANCE CommandLog WITH
  None      <- NoValue,
  proposed  <- Proposed,
  committed <- [r \in Replicas |-> Learned(r)],
  applied   <- executed

IsCommandLog == Log!Spec

\* Again and again, a replica that goes on running has executed every instance
\* it learnt a value for: it gets the values of the instances before it, by
\* votes, COMMITs or recovery.
LearntExecuted ==
  \A r \in Correct : []<>(lastCommandExecuted[r] = highestLearnt[r])

\* Again and again, one that was there from the start has executed every
\* command proposed so far.
ProposedExecuted ==
  \A r \in Correct \ Late : []<>(Proposed \subseteq ToSet(executed[r]))

-----------------------------------------------------------------------------
(* Violated by the code.                                                   *)

\* Two replicas hold the same value of an instance.
Agreement ==
  \A r, s \in Replicas, i \in Instances :
    learner[r][i].commit /\ learner[s][i].commit
      => learner[r][i].value = learner[s][i].value

=============================================================================
