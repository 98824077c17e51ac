-------------------------- MODULE CommandLogProofs --------------------------
(***************************************************************************)
(* To its client every replica of libpaxos is a command log: the steps of  *)
(* Libpaxos are steps of CommandLog, or leave its three variables alone.   *)
(*                                                                         *)
(* Three facts carry the mapping.  ValuesProposed: whatever is on its way  *)
(* to be learnt was handed to ProposeCommand.  LearnsOnce: of what a       *)
(* client sees, a step changes the value of one instance that had none, or *)
(* nothing.  Executed: what was executed are the distinct values of the    *)
(* instances up to lastCommandExecuted, all of them committed; the test by *)
(* the number of commands learnt (handleOperate) leaves no gap because no  *)
(* instance above highestLearnt is committed (Ahead).                      *)
(***************************************************************************)
EXTENDS AgreementProofs, DistinctLemmas

-----------------------------------------------------------------------------
(* Where values come from.                                                 *)

ValuesProposed ==
  /\ \A a \in accepts : a.value \in Proposed
  /\ \A r \in Replicas : unsentValues[r] \subseteq Proposed
  /\ \A r \in Replicas : \A p \in inbox[r] : p.type = "PROPOSE" => p.value \in Proposed
  /\ \A r \in Replicas, i \in Instances :
       /\ proto[r][i].proposal # 0 => proto[r][i].pvalue \in Proposed
       /\ proto[r][i].aproposal > 0 => proto[r][i].avalue \in Proposed

\* Acceptors vote for what an ACCEPT carried.
LEMMA VotesProposed ==
  ASSUME IInv, ValuesProposed
  PROVE  \A v \in votes : v.value \in Proposed
BY IInvParts DEF VotesFaithful, ValuesProposed

\* What has a quorum of votes has a vote.
LEMMA BackedProposed ==
  ASSUME IInv, ValuesProposed, NEW i, NEW v, Backed(votes, i, v)
  PROVE  v \in Proposed
<1>1. PICK b : Cardinality(VotersIn(votes, i, b, v)) >= Q
  BY DEF Backed
<1> DEFINE T == VotersIn(votes, i, b, v)
<1>2. T # {}
  <2>1. IsFiniteSet(T)
    BY VotersFinite
  <2> HIDE DEF T
  <2>2. T = {} => Cardinality(T) = 0
    BY FS_EmptySet
  <2>3. Cardinality(T) >= Q
    BY <1>1 DEF T
  <2> QED BY <2>2, <2>3, QAssumption, NAssumption
<1>3. PICK s : [acc |-> s, inst |-> i, bal |-> b, value |-> v] \in votes
  BY <1>2 DEF VotersIn
<1> QED BY <1>3, VotesProposed

\* Nothing but ProposeCommand counts the commands proposed.
LEMMA CommandsCounted ==
  ASSUME [Next]_vars
  PROVE  UNCHANGED proposeCounter \/ \E r \in Proposers : ProposeCommand(r)
<1>1. CASE \/ \E r \in Late : Start(r)
           \/ \E r \in Replicas : Epoch(r)
           \/ UNCHANGED vars
  BY <1>1 DEF Start, Epoch, vars, proposeVars
<1>2. ASSUME NEW r \in Replicas,
             HandlePropose(r) \/ HandleByCoordinator(r) \/ HandleByAcceptor(r)
      PROVE  UNCHANGED proposeCounter
  BY <1>2 DEF HandlePropose, HandleByCoordinator, HandleByAcceptor, proposeVars
<1>3. ASSUME NEW r \in Replicas,
             HandleAcceptOK(r) \/ HandleCommit(r) \/ HandleNop(r)
      PROVE  UNCHANGED proposeCounter
  BY <1>3 DEF HandleAcceptOK, HandleCommit, HandleNop, Learnt, NothingLearnt,
              proposeVars
<1> QED BY <1>1, <1>2, <1>3 DEF Next, HandleOperate

\* ProposeCommand adds a value that nobody proposed before.
LEMMA CommandIsNew ==
  ASSUME TypeInv, NEW r \in Proposers, ProposeCommand(r)
  PROVE  LET v == [node |-> r, counter |-> proposeCounter[r]] IN
         /\ v \in Values
         /\ v \notin Proposed
         /\ Proposed' = Proposed \cup {v}
<1> DEFINE v == [node |-> r, counter |-> proposeCounter[r]]
<1>1. /\ proposeCounter[r] < MaxPropose
      /\ proposeCounter' = [proposeCounter EXCEPT ![r] = @ + 1]
  BY DEF ProposeCommand
<1>2. /\ r \in Replicas /\ MaxPropose \in Nat
      /\ proposeCounter \in [Replicas -> 0 .. MaxPropose]
  BY ReplicasAssumption, BoundsAssumption DEF TypeInv, TypeOK
<1>3. v \in Values /\ v \notin Proposed
  BY <1>1, <1>2 DEF Values, Proposed
<1>4. ASSUME NEW w \in Values PROVE w \in Proposed' <=> w \in Proposed \/ w = v
  <2>1. w = [node |-> w.node, counter |-> w.counter]
        /\ w.node \in Replicas /\ w.counter \in Nat
    BY <1>2 DEF Values
  <2>2. CASE w.node = r
    <3>1. w = v <=> w.counter = proposeCounter[r]
      BY <2>1, <2>2
    <3>2. proposeCounter'[r] = proposeCounter[r] + 1
      BY <1>1, <1>2
    <3> QED BY <1>2, <2>1, <2>2, <3>1, <3>2 DEF Proposed
  <2>3. CASE w.node # r
    <3>1. proposeCounter'[w.node] = proposeCounter[w.node] /\ w # v
      BY <1>1, <1>2, <2>1, <2>3
    <3> QED BY <3>1 DEF Proposed
  <2> QED BY <2>2, <2>3
<1>5. Proposed' \subseteq Values /\ Proposed \subseteq Values
  BY DEF Proposed
<1> HIDE DEF v
<1>6. Proposed' = Proposed \cup {v}
  BY <1>3, <1>4, <1>5
<1> QED BY <1>3, <1>6 DEF v

\* A proposed command stays proposed.
LEMMA ProposedGrows ==
  ASSUME TypeInv, [Next]_vars
  PROVE  Proposed \subseteq Proposed'
<1>1. CASE UNCHANGED proposeCounter
  BY <1>1 DEF Proposed
<1>2. CASE \E r \in Proposers : ProposeCommand(r)
  BY <1>2, CommandIsNew
<1> QED BY <1>1, <1>2, CommandsCounted

\* Steps that make no proposal, send no PROPOSE and no ACCEPT.
LEMMA ProposedStays ==
  ASSUME ValuesProposed, Proposed \subseteq Proposed', UNCHANGED <<accepts, proto>>,
         \A s \in Replicas : unsentValues'[s] \subseteq unsentValues[s],
         \A s \in Replicas : \A q \in inbox'[s] : q.type = "PROPOSE" =>
           q \in inbox[s] \/ q.value \in Proposed'
  PROVE  ValuesProposed'
BY DEF ValuesProposed

\* PROPOSE: its value waits to be learnt and is what the proposal is for.
LEMMA ProposedPropose ==
  ASSUME TypeInv, ValuesProposed, Proposed \subseteq Proposed',
         NEW r \in Replicas, HandlePropose(r)
  PROVE  ValuesProposed'
<1>1. PICK p \in Received(r, "PROPOSE") :
        /\ Propose(r, p)
        /\ unsentValues' = [unsentValues EXCEPT ![r] = @ \cup {p.value}]
  BY DEF HandlePropose
<1> DEFINE m == [type |-> "PREPARE", bal |-> nextproposal[r],
                 inst |-> instance[r] + 1]
           new == FreshProto(p.value, nextproposal[r])
<1>2. /\ Exchange(r, {p}, {}, {m}) /\ UNCHANGED accepts
      /\ proto' = [proto EXCEPT ![r][instance[r] + 1] = new]
  BY <1>1 DEF Propose
<1>3. m.type = "PREPARE" /\ new.pvalue = p.value /\ new.aproposal = 0
  BY DEF FreshProto
<1> HIDE DEF m, new
<1>4. p.value \in Proposed
  BY <1>1 DEF ValuesProposed, Received
<1>5. \A s \in Replicas : \A q \in inbox'[s] : q.type = "PROPOSE" => q \in inbox[s]
  BY <1>2, <1>3, ExchangeNew
<1>6. /\ proto \in [Replicas -> [Instances -> CoordinatorProtocol]]
      /\ unsentValues \in [Replicas -> SUBSET Values]
  BY DEF TypeInv, TypeOK, CoordinatorTypeOK
<1>7. \A s \in Replicas, i \in Instances :
        /\ proto'[s][i].proposal # 0 => proto'[s][i].pvalue \in Proposed'
        /\ proto'[s][i].aproposal > 0 => proto'[s][i].avalue \in Proposed'
  <2> SUFFICES ASSUME NEW s \in Replicas, NEW i \in Instances
               PROVE  /\ proto'[s][i].proposal # 0 => proto'[s][i].pvalue \in Proposed'
                      /\ proto'[s][i].aproposal > 0 => proto'[s][i].avalue \in Proposed'
    OBVIOUS
  <2>1. proto'[s][i] = new \/ proto'[s][i] = proto[s][i]
    BY <1>2, <1>6
  <2>2. CASE proto'[s][i] = new
    BY <1>3, <1>4, <2>2
  <2>3. CASE proto'[s][i] = proto[s][i]
    BY <2>3 DEF ValuesProposed
  <2> QED BY <2>1, <2>2, <2>3
<1>8. \A s \in Replicas : unsentValues'[s] \subseteq Proposed'
  BY <1>1, <1>4, <1>6 DEF ValuesProposed
<1>9. \A a \in accepts' : a.value \in Proposed'
  BY <1>2 DEF ValuesProposed
<1> QED BY <1>5, <1>7, <1>8, <1>9 DEF ValuesProposed

\* PREPARE_OK: an ACCEPT has the coordinator's own value or one of the votes
\* it was told.
LEMMA ProposedPrepareOK ==
  ASSUME IInv, Reported, ValuesProposed, Proposed \subseteq Proposed',
         NEW r \in Replicas, NEW p \in Received(r, "PREPARE_OK"),
         CountPromise(r, p) \/ SendAccept(r, p), UNCHANGED unsentValues
  PROVE  ValuesProposed'
<1> DEFINE old == proto[r][p.inst]
           cp == Counted(old, p)
           done == [cp EXCEPT !.nvalue = Chosen(cp)]
           a == [inst |-> p.inst, bal |-> cp.proposal, value |-> Chosen(cp),
                 answered |-> cp.answered]
           m == [type |-> "ACCEPT", bal |-> cp.proposal, value |-> Chosen(cp),
                 inst |-> p.inst]
<1>1. /\ proto \in [Replicas -> [Instances -> CoordinatorProtocol]]
      /\ p.inst \in Instances /\ p.from \in Replicas /\ p.bal \in Nat
      /\ old \in CoordinatorProtocol
  BY IInvParts, PacketFields
  DEF Received, TypeInv, TypeOK, NetTypeOK, CoordinatorTypeOK
<1>2. old.proposal # 0
  BY DEF CountPromise, SendAccept, Awaited
<1>3. p.bal > 0 => p.value \in Proposed
  <2>1. p \in inbox[r] /\ p.type = "PREPARE_OK"
    BY DEF Received
  <2>2. p.bal > 0 => Vote(p.from, p.inst, p.bal, p.value) \in votes
    BY <2>1 DEF Reported
  <2> QED BY <2>2, VotesProposed DEF Vote
<1>4. /\ cp.proposal = old.proposal
      /\ cp.pvalue = old.pvalue
      /\ cp.aproposal = IF p.bal > old.aproposal THEN p.bal ELSE old.aproposal
      /\ cp.avalue = IF p.bal > old.aproposal THEN p.value ELSE old.avalue
  BY <1>1 DEF Counted, CoordinatorProtocol
<1>5. /\ done.proposal = cp.proposal /\ done.pvalue = cp.pvalue
      /\ done.aproposal = cp.aproposal /\ done.avalue = cp.avalue
  BY <1>1 DEF Counted, CoordinatorProtocol
<1>6. /\ old.pvalue \in Proposed
      /\ old.aproposal > 0 => old.avalue \in Proposed
      /\ old.aproposal \in Nat
  BY <1>1, <1>2 DEF ValuesProposed, CoordinatorProtocol
<1>7. /\ cp.pvalue \in Proposed
      /\ cp.aproposal > 0 => cp.avalue \in Proposed
  BY <1>1, <1>3, <1>4, <1>6
<1>8. Chosen(cp) \in Proposed
  BY <1>7 DEF Chosen
<1>9. \/ /\ proto' = [proto EXCEPT ![r][p.inst] = cp]
         /\ accepts' = accepts
         /\ Exchange(r, {p}, {}, {})
      \/ /\ proto' = [proto EXCEPT ![r][p.inst] = done]
         /\ accepts' = accepts \cup {a}
         /\ Exchange(r, {p}, {}, {m})
  <2>1. CASE CountPromise(r, p)
    BY <2>1 DEF CountPromise
  <2>2. CASE SendAccept(r, p)
    BY <2>2, Zenon DEF SendAccept
  <2> QED BY <2>1, <2>2
<1>10. a.value = Chosen(cp) /\ m.type = "ACCEPT"
  OBVIOUS
<1> HIDE DEF old, cp, done, a, m
<1>11. \A s \in Replicas : \A q \in inbox'[s] : q.type = "PROPOSE" => q \in inbox[s]
  BY <1>9, <1>10, ExchangeNew
<1>12. \A s \in Replicas, i \in Instances :
         \/ proto'[s][i] = proto[s][i]
         \/ proto'[s][i] = cp
         \/ proto'[s][i] = done
  BY <1>1, <1>9
<1>13. \A s \in Replicas, i \in Instances :
         /\ proto'[s][i].proposal # 0 => proto'[s][i].pvalue \in Proposed'
         /\ proto'[s][i].aproposal > 0 => proto'[s][i].avalue \in Proposed'
  BY <1>5, <1>7, <1>12 DEF ValuesProposed
<1>14. \A b \in accepts' : b.value \in Proposed'
  BY <1>8, <1>9, <1>10 DEF ValuesProposed
<1>15. \A s \in Replicas : unsentValues'[s] \subseteq Proposed'
  BY DEF ValuesProposed
<1> QED BY <1>11, <1>13, <1>14, <1>15 DEF ValuesProposed

\* ProposeCommand queues a value that is proposed with it.
LEMMA ProposedCommand ==
  ASSUME TypeInv, ValuesProposed, Proposed \subseteq Proposed',
         NEW r \in Proposers, ProposeCommand(r)
  PROVE  ValuesProposed'
<1> DEFINE v == [node |-> r, counter |-> proposeCounter[r]]
           m == [type |-> "PROPOSE", value |-> v, round |-> 0]
<1>1. /\ Exchange(r, {}, {m}, {})
      /\ UNCHANGED <<accepts, proto, unsentValues>>
  BY DEF ProposeCommand, coordinatorVars
<1>2. r \in Replicas
  BY ReplicasAssumption
<1>3. v \in Proposed'
  BY CommandIsNew
<1>4. m.value = v
  OBVIOUS
<1> HIDE DEF m, v
<1>5. \A s \in Replicas : \A q \in inbox'[s] : q \in inbox[s] \/ q = m
  BY <1>1, <1>2, ExchangeNew
<1> QED BY <1>1, <1>3, <1>4, <1>5, ProposedStays

\* EPOCH queues values that wait to be learnt.
LEMMA ProposedEpoch ==
  ASSUME ValuesProposed, Proposed \subseteq Proposed', NEW r \in Replicas, Epoch(r)
  PROVE  ValuesProposed'
<1> DEFINE local == {[type |-> "PROPOSE", value |-> v, round |-> ticks'[r]] :
                       v \in unsentValues[r]}
<1>1. /\ Exchange(r, {}, local, {})
      /\ UNCHANGED <<accepts, proto, unsentValues>>
  BY DEF Epoch, coordinatorVars
<1>2. \A m \in local : m.value \in Proposed
  BY DEF ValuesProposed
<1> HIDE DEF local
<1>3. \A s \in Replicas : \A q \in inbox'[s] : q \in inbox[s] \/ q \in local
  BY <1>1, ExchangeNew
<1> QED BY <1>1, <1>2, <1>3, ProposedStays

\* An acceptor sends answers only.
LEMMA AcceptorSends ==
  ASSUME NEW r \in Replicas, HandleByAcceptor(r)
  PROVE  \A s \in Replicas : \A q \in inbox'[s] : q \in inbox[s] \/ q.type # "PROPOSE"
<1> DEFINE Answers == \E done, out : /\ Exchange(r, done, {}, out)
                                     /\ \A m \in out : m.type # "PROPOSE"
<1>1. Answers
  <2>1. ASSUME NEW p \in Received(r, "PREPARE"), HandlePrepare(r, p)
        PROVE  Answers
    <3> DEFINE ap == acceptor[r][p.inst]
               ok == [type |-> "PREPARE_OK", bal |-> ap.proposalAccepted,
                      value |-> ap.value, inst |-> p.inst, from |-> r,
                      for |-> p.bal]
               no == [type |-> "PREPARE_REJECT", bal |-> ap.proposal,
                      inst |-> p.inst, from |-> r, for |-> p.bal]
    <3>1. Exchange(r, {p}, {}, {ok}) \/ Exchange(r, {p}, {}, {no})
      BY <2>1 DEF HandlePrepare, Promise, Reject
    <3>2. ok.type # "PROPOSE" /\ no.type # "PROPOSE"
      OBVIOUS
    <3> HIDE DEF ok, no
    <3> QED BY <3>1, <3>2
  <2>2. ASSUME NEW p \in Received(r, "ACCEPT"), HandleAccept(r, p)
        PROVE  Answers
    <3> DEFINE ok == [type |-> "ACCEPT_OK", bal |-> p.bal, value |-> p.value,
                      inst |-> p.inst, from |-> r]
    <3>1. Exchange(r, {p}, {}, {ok}) \/ Exchange(r, {p}, {}, {})
      BY <2>2 DEF HandleAccept, Accept, Ignore
    <3>2. \A m \in {ok} : m.type # "PROPOSE"
      OBVIOUS
    <3>3. \A m \in {} : m.type # "PROPOSE"
      OBVIOUS
    <3> HIDE DEF ok
    <3>4. CASE Exchange(r, {p}, {}, {ok})
      BY <3>2, <3>4
    <3>5. CASE Exchange(r, {p}, {}, {})
      BY <3>3, <3>5
    <3> QED BY <3>1, <3>4, <3>5
  <2> QED BY <2>1, <2>2 DEF HandleByAcceptor
<1> QED BY <1>1, ExchangeNew

\* A learner takes what it learnt out of the values that wait.
LEMMA LearnerUnsent ==
  ASSUME TypeInv, NEW r \in Replicas,
         HandleAcceptOK(r) \/ HandleCommit(r) \/ HandleNop(r)
  PROVE  \A s \in Replicas : unsentValues'[s] \subseteq unsentValues[s]
<1>1. \/ \E v : unsentValues' = [unsentValues EXCEPT ![r] = @ \ {v}]
      \/ UNCHANGED unsentValues
  BY DEF HandleAcceptOK, HandleCommit, HandleNop, Learnt, NothingLearnt, proposeVars
<1>2. unsentValues \in [Replicas -> SUBSET Values]
  BY DEF TypeInv, TypeOK
<1> QED BY <1>1, <1>2

\* Every value on its way was proposed.
LEMMA ProposedStep ==
  IInv /\ Reported /\ ValuesProposed /\ [Next]_vars => ValuesProposed'
<1> SUFFICES ASSUME IInv, Reported, ValuesProposed, [Next]_vars
             PROVE  ValuesProposed'
  OBVIOUS
<1>0. TypeInv /\ Proposed \subseteq Proposed'
  BY IInvParts, ProposedGrows
<1>1. CASE (\E r \in Late : Start(r)) \/ UNCHANGED vars
  <2>1. UNCHANGED <<accepts, proto, unsentValues, inbox>>
    BY <1>1 DEF Start, vars, coordinatorVars, proposeVars
  <2> QED BY <1>0, <2>1, ProposedStays
<1>2. ASSUME NEW r \in Proposers, ProposeCommand(r) PROVE ValuesProposed'
  BY <1>0, <1>2, ProposedCommand
<1>3. ASSUME NEW r \in Replicas, Epoch(r) PROVE ValuesProposed'
  BY <1>0, <1>3, ProposedEpoch
<1>4. ASSUME NEW r \in Replicas, HandlePropose(r) PROVE ValuesProposed'
  BY <1>0, <1>4, ProposedPropose
<1>5. ASSUME NEW r \in Replicas, HandleByCoordinator(r) PROVE ValuesProposed'
  <2>1. UNCHANGED unsentValues
    BY <1>5 DEF HandleByCoordinator, proposeVars
  <2>2. ASSUME NEW p \in Received(r, "PREPARE_OK"), CountPromise(r, p) \/ SendAccept(r, p)
        PROVE  ValuesProposed'
    BY <1>0, <2>1, <2>2, ProposedPrepareOK
  <2>3. CASE \/ \E p \in Received(r, "LEARN") : AskForMissing(r, p)
             \/ \E p \in Received(r, "PREPARE_OK") : IgnorePromise(r, p)
             \/ \E p \in Received(r, "PREPARE_REJECT") : HandlePrepareReject(r, p)
    <3>1. /\ UNCHANGED <<proto, accepts>>
          /\ \A s \in Replicas : \A q \in inbox'[s] :
               q \in inbox[s] \/ q.type = "NOP"
      BY <2>3, OtherCoordinatorSends
    <3> QED BY <1>0, <2>1, <3>1, ProposedStays
  <2> QED BY <1>5, <2>2, <2>3 DEF HandleByCoordinator, HandlePrepareOK
<1>6. ASSUME NEW r \in Replicas, HandleByAcceptor(r) PROVE ValuesProposed'
  <2>1. UNCHANGED <<accepts, proto, unsentValues>>
    BY <1>6 DEF HandleByAcceptor, coordinatorVars, proposeVars
  <2>2. \A s \in Replicas : \A q \in inbox'[s] : q \in inbox[s] \/ q.type # "PROPOSE"
    BY <1>6, AcceptorSends
  <2> QED BY <1>0, <2>1, <2>2, ProposedStays
<1>7. ASSUME NEW r \in Replicas, HandleAcceptOK(r) \/ HandleCommit(r) \/ HandleNop(r)
      PROVE  ValuesProposed'
  <2>1. /\ UNCHANGED <<proto, accepts>>
        /\ \A s \in Replicas : \A q \in inbox'[s] :
             q \in inbox[s] \/ q.type \in {"COMMIT", "LEARN"}
    BY <1>7, LearnerSends
  <2>2. \A s \in Replicas : unsentValues'[s] \subseteq unsentValues[s]
    BY <1>0, <1>7, LearnerUnsent
  <2> QED BY <1>0, <2>1, <2>2, ProposedStays
<1> QED BY <1>1, <1>2, <1>3, <1>4, <1>5, <1>6, <1>7 DEF Next, HandleOperate

\* Nothing is on its way at the start.
LEMMA ProposedInit == Init => ValuesProposed
<1> SUFFICES ASSUME Init PROVE ValuesProposed
  OBVIOUS
<1>1. /\ accepts = {} /\ \A r \in Replicas : unsentValues[r] = {} /\ inbox[r] = {}
      /\ \A r \in Replicas, i \in Instances :
           proto[r][i].proposal = 0 /\ proto[r][i].aproposal = 0
  BY DEF Init, CoordinatorInit, Absent, FreshProto
<1> QED BY <1>1 DEF ValuesProposed

-----------------------------------------------------------------------------
(* What a step lets the client of a replica see.                           *)

\* protos is what r's learner holds with v committed for instance i.
CommitsNow(r, i, v, protos) ==
  /\ protos \in [Instances -> LearnerProtocol]
  /\ ~learner[r][i].commit
  /\ protos[i].commit /\ protos[i].value = v
  /\ \A j \in Instances \ {i} : /\ protos[j].commit = learner[r][j].commit
                                /\ protos[j].value = learner[r][j].value

Learns(r, i, v) ==
  \E p, protos, out :
    /\ p \in inbox[r]
    /\ p.type \in {"ACCEPT_OK", "COMMIT"} /\ p.inst = i /\ p.value = v
    /\ CommitsNow(r, i, v, protos)
    /\ Learnt(r, p, i, v, protos, out)

SameValues(r, protos) ==
  \A i \in Instances : /\ protos[i].commit = learner[r][i].commit
                       /\ protos[i].value = learner[r][i].value

LearnsNothing ==
  /\ UNCHANGED execVars
  /\ \A r \in Replicas : SameValues(r, learner'[r])

\* A vote that reaches no quorum changes no value.
LEMMA CountingIsSilent ==
  ASSUME TypeInv, NEW r \in Replicas, NEW p, NEW protos, NEW out,
         SameValues(r, protos), NothingLearnt(r, p, protos, out)
  PROVE  LearnsNothing
<1>1. learner' = [learner EXCEPT ![r] = protos] /\ UNCHANGED execVars
  BY DEF NothingLearnt
<1>2. learner \in [Replicas -> [Instances -> LearnerProtocol]]
  BY DEF TypeInv, TypeOK, LearnerTypeOK
<1>3. ASSUME NEW s \in Replicas PROVE SameValues(s, learner'[s])
  <2>1. learner'[s] = protos \/ learner'[s] = learner[s]
    BY <1>1, <1>2
  <2>2. CASE s = r
    BY <1>1, <1>2, <2>2
  <2>3. CASE s # r
    <3>1. learner'[s] = learner[s]
      BY <1>1, <1>2, <2>3
    <3> QED BY <3>1 DEF SameValues
  <2> QED BY <2>2, <2>3
<1> QED BY <1>1, <1>3 DEF LearnsNothing

\* Of the values that clients see, a step of the learner commits one, for an
\* instance without a value, or changes none.
LEMMA LearnerLearns ==
  ASSUME TypeInv, NEW r \in Replicas,
         HandleAcceptOK(r) \/ HandleCommit(r) \/ HandleNop(r)
  PROVE  LearnsNothing \/ \E i \in Instances, v \in Values : Learns(r, i, v)
<1>0. /\ learner[r] \in [Instances -> LearnerProtocol]
      /\ SameValues(r, learner[r])
      /\ inbox[r] \subseteq Packet
  BY DEF TypeInv, TypeOK, NetTypeOK, LearnerTypeOK, SameValues
<1>1. ASSUME NEW p \in Received(r, "ACCEPT_OK"),
             LET lp == learner[r][p.inst]
                 With(l) == [learner[r] EXCEPT ![p.inst] = l] IN
             \/ /\ Counts(lp, p)
                /\ Learnt(r, p, p.inst, p.value,
                     With(Committed(WithVote(lp, p), p.value)),
                     {[type |-> "COMMIT", value |-> p.value, inst |-> p.inst]})
             \/ NothingLearnt(r, p, With(WithVote(lp, p)), {})
             \/ NothingLearnt(r, p, learner[r], {})
      PROVE  LearnsNothing \/ \E i \in Instances, v \in Values : Learns(r, i, v)
  <2> DEFINE lp == learner[r][p.inst]
             wv == WithVote(lp, p)
             one == [learner[r] EXCEPT ![p.inst] = Committed(wv, p.value)]
             two == [learner[r] EXCEPT ![p.inst] = wv]
             out == {[type |-> "COMMIT", value |-> p.value, inst |-> p.inst]}
  <2>1. /\ p \in inbox[r] /\ p.type = "ACCEPT_OK"
        /\ p.inst \in Instances /\ p.bal \in Nat
        /\ p.value \in Values /\ p.from \in Replicas
    BY <1>0, PacketFields DEF Received
  <2>2. wv.commit = lp.commit /\ wv.value = lp.value /\ wv \in LearnerProtocol
    BY <1>0, <2>1, WithVoteType
  <2>3. SameValues(r, two)
    BY <1>0, <2>1, <2>2 DEF SameValues
  <2>4. ASSUME Counts(lp, p) PROVE CommitsNow(r, p.inst, p.value, one)
    <3>1. Committed(wv, p.value) \in LearnerProtocol
      BY <2>1, <2>2, CommittedType
    <3>2. Committed(wv, p.value).commit /\ Committed(wv, p.value).value = p.value
      BY <2>2 DEF Committed, LearnerProtocol
    <3>3. ~lp.commit
      BY <2>4 DEF Counts
    <3> QED BY <1>0, <2>1, <3>1, <3>2, <3>3 DEF CommitsNow
  <2>5. \/ Counts(lp, p) /\ Learnt(r, p, p.inst, p.value, one, out)
        \/ NothingLearnt(r, p, two, {})
        \/ NothingLearnt(r, p, learner[r], {})
    BY <1>1
  <2> HIDE DEF lp, one, two, out
  <2>6. CASE Counts(lp, p) /\ Learnt(r, p, p.inst, p.value, one, out)
    BY <2>1, <2>4, <2>6, Zenon DEF Learns
  <2> QED BY <1>0, <2>3, <2>5, <2>6, CountingIsSilent
<1>2. ASSUME NEW p \in Received(r, "COMMIT"),
             \/ /\ ~learner[r][p.inst].commit
                /\ Learnt(r, p, p.inst, p.value, [learner[r] EXCEPT
                     ![p.inst] = Committed(learner[r][p.inst], p.value)], {})
             \/ NothingLearnt(r, p, learner[r], {})
      PROVE  LearnsNothing \/ \E i \in Instances, v \in Values : Learns(r, i, v)
  <2> DEFINE lp == learner[r][p.inst]
             one == [learner[r] EXCEPT ![p.inst] = Committed(lp, p.value)]
  <2>1. /\ p \in inbox[r] /\ p.type = "COMMIT"
        /\ p.inst \in Instances /\ p.value \in Values
    BY <1>0, PacketFields DEF Received
  <2>2. ASSUME ~lp.commit PROVE CommitsNow(r, p.inst, p.value, one)
    <3>1. Committed(lp, p.value) \in LearnerProtocol
      BY <1>0, <2>1, CommittedType
    <3>2. Committed(lp, p.value).commit /\ Committed(lp, p.value).value = p.value
      BY <1>0, <2>1 DEF Committed, LearnerProtocol
    <3> QED BY <1>0, <2>1, <2>2, <3>1, <3>2 DEF CommitsNow
  <2>3. \/ ~lp.commit /\ Learnt(r, p, p.inst, p.value, one, {})
        \/ NothingLearnt(r, p, learner[r], {})
    BY <1>2
  <2> HIDE DEF lp, one
  <2>4. CASE ~lp.commit /\ Learnt(r, p, p.inst, p.value, one, {})
    BY <2>1, <2>2, <2>4, Zenon DEF Learns
  <2> QED BY <1>0, <2>3, <2>4, CountingIsSilent
<1>3. CASE HandleAcceptOK(r)
  BY <1>1, <1>3 DEF HandleAcceptOK
<1>4. CASE HandleCommit(r)
  BY <1>2, <1>4 DEF HandleCommit
<1>5. CASE HandleNop(r)
  BY <1>0, <1>5, CountingIsSilent DEF HandleNop
<1> QED BY <1>3, <1>4, <1>5

\* The other roles change nothing that a client sees.
LEMMA LearnsOnce ==
  ASSUME TypeInv, [Next]_vars
  PROVE  LearnsNothing
           \/ \E r \in Replicas, i \in Instances, v \in Values : Learns(r, i, v)
<1>1. ASSUME UNCHANGED <<learner, execVars>> PROVE LearnsNothing
  BY <1>1 DEF LearnsNothing, SameValues
<1>2. ASSUME NEW r \in Replicas,
             HandlePropose(r) \/ HandleByCoordinator(r) \/ HandleByAcceptor(r)
      PROVE  LearnsNothing
  BY <1>1, <1>2 DEF HandlePropose, HandleByCoordinator, HandleByAcceptor
<1>3. CASE \/ \E r \in Late : Start(r)
           \/ \E r \in Proposers : ProposeCommand(r)
           \/ \E r \in Replicas : Epoch(r)
           \/ UNCHANGED vars
  BY <1>1, <1>3 DEF Start, ProposeCommand, Epoch, vars, execVars
<1>4. ASSUME NEW r \in Replicas,
             HandleAcceptOK(r) \/ HandleCommit(r) \/ HandleNop(r)
      PROVE  LearnsNothing \/ \E i \in Instances, v \in Values : Learns(r, i, v)
  BY <1>4, LearnerLearns
<1> QED BY <1>2, <1>3, <1>4 DEF Next, HandleOperate

-----------------------------------------------------------------------------
(* Execution.                                                              *)

Executed ==
  /\ executed \in [Replicas -> Seq(Values \cup {NoValue})]
  /\ \A r \in Replicas :
       /\ lastCommandExecuted[r] <= highestLearnt[r]
       /\ 1 .. lastCommandExecuted[r] \subseteq History(learner[r])
       /\ executed[r] = DistinctValues(Learned(r), lastCommandExecuted[r])
       /\ \A i \in Instances : ~learner[r][i].commit => learner[r][i].value = NoValue

\* execute, called for the d instances after the first m, whose values were
\* executed already, adds those of their values that are new.
LEMMA ExecuteAllAppends ==
  ASSUME NEW m \in Nat, NEW d \in Nat, NEW V, NEW val,
         \A i \in 1 .. m + d : val[i] \in V
  PROVE  LET ex == DistinctValues(val, m)
             vs == [k \in 1 .. d |-> val[m + k]]
         IN  /\ ExecuteAll(ex, vs) = DistinctValues(val, m + d)
             /\ IsPrefix(ex, DistinctValues(val, m + d))
<1> DEFINE ex == DistinctValues(val, m)
           vs == [k \in 1 .. d |-> val[m + k]]
           B == NewAfter(val, m, d)
           seq == NewValues(val, m, d)
<1>1. seq \in Seq(V) /\ DistinctValues(val, m + d) = ex \o seq
  BY DistinctValuesAppend
<1>2. ex \in Seq(V) /\ \A v : v \in ToSet(ex) <=> \E i \in 1 .. m : val[i] = v
  <2>1. \A i \in 1 .. m : val[i] \in V
    OBVIOUS
  <2> QED BY <2>1, DistinctValuesHas
<1>3. DOMAIN vs = 1 .. d /\ \A k \in 1 .. d : vs[k] = val[m + k]
  OBVIOUS
<1> HIDE DEF ex, vs
<1>4. ASSUME NEW k \in 1 .. d
      PROVE  Skipped(ex, vs, k) <=> \E j \in 1 .. m + k - 1 : val[j] = val[m + k]
  <2>1. ASSUME NEW j \in 1 .. m + k - 1, val[j] = val[m + k] PROVE Skipped(ex, vs, k)
    <3>1. CASE j \in 1 .. m
      BY <1>2, <1>3, <2>1, <3>1 DEF Skipped
    <3>2. CASE j \notin 1 .. m
      <4>1. j - m \in 1 .. k - 1 /\ j - m \in 1 .. d /\ m + (j - m) = j
        BY <3>2
      <4>2. vs[j - m] = vs[k]
        BY <1>3, <2>1, <4>1
      <4> QED BY <4>1, <4>2 DEF Skipped
    <3> QED BY <3>1, <3>2
  <2>2. ASSUME vs[k] \in ToSet(ex) PROVE \E j \in 1 .. m + k - 1 : val[j] = val[m + k]
    <3>1. PICK j \in 1 .. m : val[j] = vs[k]
      BY <1>2, <2>2
    <3>2. j \in 1 .. m + k - 1 /\ val[j] = val[m + k]
      BY <1>3, <3>1
    <3> QED BY <3>2
  <2>3. ASSUME NEW j \in 1 .. k - 1, vs[j] = vs[k]
        PROVE  \E x \in 1 .. m + k - 1 : val[x] = val[m + k]
    <3>1. j \in 1 .. d /\ m + j \in 1 .. m + k - 1
      OBVIOUS
    <3>2. val[m + j] = val[m + k]
      BY <1>3, <2>3, <3>1
    <3> QED BY <3>1, <3>2
  <2> QED BY <2>1, <2>2, <2>3 DEF Skipped
<1>5. {k \in DOMAIN vs : ~Skipped(ex, vs, k)} = B
  BY <1>3, <1>4 DEF NewAfter
<1>6. B \in SUBSET (1 .. d)
  BY DEF NewAfter
<1> HIDE DEF B
<1>7. IsFiniteSet(B) /\ B \in SUBSET Int
  BY <1>6, SomeInstances
<1>8. \A n \in DOMAIN Ascending(B) : Ascending(B)[n] \in 1 .. d
  <2>1. Ascending(B) \in [1 .. Cardinality(B) -> B]
    BY <1>7, AscendingEnumerates
  <2> QED BY <1>6, <2>1
<1>9. seq = [n \in DOMAIN Ascending(B) |-> vs[Ascending(B)[n]]]
  <2>1. seq = [n \in DOMAIN Ascending(B) |-> val[m + Ascending(B)[n]]]
    BY DEF NewValues, B
  <2> QED BY <1>3, <1>8, <2>1
<1>10. ExecuteAll(ex, vs) = ex \o seq
  <2> HIDE DEF seq
  <2> QED BY <1>5, <1>9 DEF ExecuteAll
<1> HIDE DEF seq
<1>11. IsPrefix(ex, ex \o seq)
  <2> DEFINE t == ex \o seq
  <2>1. /\ t \in Seq(V) /\ Len(t) = Len(ex) + Len(seq)
        /\ \A n \in 1 .. Len(ex) + Len(seq) : t[n] = IF n <= Len(ex) THEN ex[n] ELSE seq[n - Len(ex)]
    BY <1>1, <1>2, ConcatProperties
  <2>2. Len(ex) \in Nat /\ Len(seq) \in Nat
    BY <1>1, <1>2
  <2> HIDE DEF t
  <2>3. SubSeq(t, 1, Len(ex)) = SubSeq(ex, 1, Len(ex))
    <3>1. \A n \in 1 .. Len(ex) : t[n] = ex[n]
      BY <2>1, <2>2
    <3> QED BY <1>2, <2>1, <2>2, <3>1
  <2> QED BY <2>1, <2>2, <2>3 DEF IsPrefix, t
<1> QED BY <1>1, <1>10, <1>11 DEF ex, vs

\* As many instances learnt as the number of the highest one: all of them.
LEMMA NoneMissing ==
  ASSUME NEW protos, NEW highest \in Nat, Complete(protos, highest),
         \A i \in Instances : protos[i].commit => i <= highest
  PROVE  1 .. highest = History(protos)
<1> DEFINE H == History(protos)
<1>1. H \in SUBSET (1 .. highest)
  BY BoundsAssumption DEF History, Instances
<1>2. IsFiniteSet(1 .. highest) /\ Cardinality(1 .. highest) = highest
  BY FS_Interval
<1>3. Cardinality(H) = highest
  BY DEF Complete
<1> HIDE DEF H
<1>4. 1 .. highest = H
  BY <1>1, <1>2, <1>3, FS_Subset
<1> QED BY <1>4 DEF H

\* What a replica hands over once it learnt a value: the distinct values of the
\* instances 1 to n, n being those executed before or all that it learnt.
HandsOver(r, i, v, n) ==
  /\ n \in lastCommandExecuted[r] .. MaxInstance
  /\ lastCommandExecuted' = [lastCommandExecuted EXCEPT ![r] = n]
  /\ n <= highestLearnt'[r]
  /\ 1 .. n \subseteq History(learner'[r])
  /\ executed' = [executed EXCEPT ![r] = DistinctValues(Learned(r)', n)]
  /\ IsPrefix(executed[r], DistinctValues(Learned(r)', n))

\* The values executed are those of committed instances, so learning another
\* instance leaves them as they are.
LEMMA LearnsHandsOver ==
  ASSUME TypeInv, Ahead, Executed, NEW r \in Replicas, NEW i \in Instances,
         NEW v \in Values, Learns(r, i, v)
  PROVE  /\ \E n : HandsOver(r, i, v, n)
         /\ \E protos : /\ CommitsNow(r, i, v, protos)
                        /\ learner' = [learner EXCEPT ![r] = protos]
         /\ highestLearnt' = [highestLearnt EXCEPT ![r] = highestLearnt'[r]]
<1>1. PICK p, protos, out :
        CommitsNow(r, i, v, protos) /\ Learnt(r, p, i, v, protos, out)
  BY DEF Learns
<1> DEFINE highest == IF i > highestLearnt[r] THEN i ELSE highestLearnt[r]
           last == lastCommandExecuted[r]
           vs == [k \in 1 .. highest - last |-> protos[last + k].value]
           val == [j \in Instances |-> protos[j].value]
<1>2. /\ learner' = [learner EXCEPT ![r] = protos]
      /\ highestLearnt' = [highestLearnt EXCEPT ![r] = highest]
      /\ \/ /\ Complete(protos, highest)
            /\ executed' = [executed EXCEPT ![r] = ExecuteAll(executed[r], vs)]
            /\ lastCommandExecuted' = [lastCommandExecuted EXCEPT ![r] = highest]
         \/ UNCHANGED <<executed, lastCommandExecuted>>
  BY <1>1 DEF Learnt
<1>3. /\ learner \in [Replicas -> [Instances -> LearnerProtocol]]
      /\ highestLearnt \in [Replicas -> 0 .. MaxInstance]
      /\ lastCommandExecuted \in [Replicas -> 0 .. MaxInstance]
      /\ Instances = 1 .. MaxInstance /\ MaxInstance \in Nat
  BY BoundsAssumption DEF TypeInv, TypeOK, LearnerTypeOK, Instances
<1>4. /\ last \in Nat /\ highest \in 0 .. MaxInstance
      /\ last <= highest /\ highestLearnt[r] <= highest /\ i <= highest
      /\ last <= highestLearnt[r]
  BY <1>3 DEF Executed
<1>5. \A j \in Instances : protos[j].commit => j <= highest
  <2> SUFFICES ASSUME NEW j \in Instances, protos[j].commit PROVE j <= highest
    OBVIOUS
  <2>1. CASE j = i
    BY <1>4, <2>1
  <2>2. CASE j # i
    <3>1. learner[r][j].commit
      BY <1>1, <2>2 DEF CommitsNow
    <3>2. j <= highestLearnt[r]
      BY <3>1 DEF Ahead
    <3> QED BY <1>3, <1>4, <3>2
  <2> QED BY <2>1, <2>2
<1>6. learner'[r] = protos /\ highestLearnt'[r] = highest
  BY <1>2, <1>3
<1>7. Learned(r)' = val
  BY <1>6 DEF Learned
<1>8. /\ 1 .. last \subseteq History(protos)
      /\ \A j \in 1 .. last : Learned(r)[j] = val[j]
  <2> SUFFICES ASSUME NEW j \in 1 .. last
               PROVE  j \in History(protos) /\ Learned(r)[j] = val[j]
    OBVIOUS
  <2>1. j \in Instances /\ learner[r][j].commit
    BY DEF Executed, History
  <2>2. j # i
    BY <1>1, <2>1 DEF CommitsNow
  <2>3. protos[j].commit /\ protos[j].value = learner[r][j].value
    BY <1>1, <2>1, <2>2 DEF CommitsNow
  <2> QED BY <2>1, <2>3 DEF History, Learned
<1>9. executed[r] = DistinctValues(val, last)
  <2>1. DistinctValues(Learned(r), last) = DistinctValues(val, last)
    BY <1>4, <1>8, DistinctValuesSame
  <2> QED BY <2>1 DEF Executed
<1>10. \A j \in 1 .. highest : val[j] \in Values \cup {NoValue}
  <2>1. protos \in [Instances -> LearnerProtocol]
    BY <1>1 DEF CommitsNow
  <2>2. \A j \in Instances : protos[j].value \in Values \cup {NoValue}
    BY <2>1 DEF LearnerProtocol
  <2>3. \A j \in 1 .. highest : j \in Instances
    BY <1>3, <1>4
  <2> QED BY <2>2, <2>3
<1> HIDE DEF highest, val
<1>11. CASE UNCHANGED <<executed, lastCommandExecuted>>
  <2>1. lastCommandExecuted' = [lastCommandExecuted EXCEPT ![r] = last]
    BY <1>3, <1>11
  <2>2. executed' = [executed EXCEPT ![r] = DistinctValues(val, last)]
    BY <1>9, <1>11 DEF Executed
  <2>3. IsPrefix(executed[r], DistinctValues(val, last))
    <3>1. \A j \in 1 .. last : val[j] \in Values \cup {NoValue}
      BY <1>4, <1>10
    <3>2. executed[r] \in Seq(Values \cup {NoValue})
      BY <1>4, <1>9, <3>1, DistinctValuesHas
    <3>3. Len(executed[r]) \in Nat
      BY <3>2
    <3> QED BY <1>9, <3>3 DEF IsPrefix
  <2>4. last \in last .. MaxInstance /\ last <= highest
    BY <1>3, <1>4
  <2>5. HandsOver(r, i, v, last)
    BY <1>6, <1>7, <1>8, <2>1, <2>2, <2>3, <2>4 DEF HandsOver
  <2> QED BY <1>1, <1>2, <1>6, <2>5
<1>12. CASE /\ Complete(protos, highest)
            /\ executed' = [executed EXCEPT ![r] = ExecuteAll(executed[r], vs)]
            /\ lastCommandExecuted' = [lastCommandExecuted EXCEPT ![r] = highest]
  <2> DEFINE d == highest - last
  <2>1. d \in Nat /\ last + d = highest
    BY <1>3, <1>4
  <2>2. vs = [k \in 1 .. d |-> val[last + k]]
    <3>1. \A k \in 1 .. d : last + k \in Instances
      BY <1>3, <1>4
    <3> QED BY <3>1 DEF val
  <2> HIDE DEF vs, d, last
  <2>3. /\ ExecuteAll(DistinctValues(val, last), vs) = DistinctValues(val, last + d)
        /\ IsPrefix(DistinctValues(val, last), DistinctValues(val, last + d))
    <3>1. \A j \in 1 .. last + d : val[j] \in Values \cup {NoValue}
      BY <1>10, <2>1
    <3> QED BY <1>4, <2>1, <2>2, <3>1, ExecuteAllAppends
  <2>4. 1 .. highest = History(protos)
    BY <1>4, <1>5, <1>12, NoneMissing
  <2>5. highest \in lastCommandExecuted[r] .. MaxInstance
    BY <1>3, <1>4 DEF last
  <2>6. /\ executed' = [executed EXCEPT ![r] = DistinctValues(val, highest)]
        /\ IsPrefix(executed[r], DistinctValues(val, highest))
    BY <1>9, <1>12, <2>1, <2>3
  <2>7. highest <= highest
    BY <1>4
  <2>8. HandsOver(r, i, v, highest)
    BY <1>6, <1>7, <1>12, <2>4, <2>5, <2>6, <2>7 DEF HandsOver
  <2> QED BY <1>1, <1>2, <1>6, <2>8
<1> QED BY <1>2, <1>11, <1>12

\* Execution follows the instances.
LEMMA ExecutedStep ==
  TypeInv /\ TypeInv' /\ Ahead /\ Executed /\ [Next]_vars => Executed'
<1> SUFFICES ASSUME TypeInv, TypeInv', Ahead, Executed, [Next]_vars PROVE Executed'
  OBVIOUS
<1>1. CASE LearnsNothing
  <2>1. UNCHANGED <<highestLearnt, lastCommandExecuted, executed>>
    BY <1>1 DEF LearnsNothing, execVars
  <2> SUFFICES ASSUME NEW r \in Replicas
               PROVE  /\ 1 .. lastCommandExecuted[r] \subseteq History(learner'[r])
                      /\ executed[r] = DistinctValues(Learned(r)', lastCommandExecuted[r])
                      /\ \A i \in Instances :
                           ~learner'[r][i].commit => learner'[r][i].value = NoValue
    BY <2>1 DEF Executed
  <2>2. SameValues(r, learner'[r])
    BY <1>1 DEF LearnsNothing
  <2>3. Learned(r)' = Learned(r) /\ History(learner'[r]) = History(learner[r])
    BY <2>2 DEF SameValues, Learned, History
  <2>4. \A i \in Instances : ~learner'[r][i].commit => learner'[r][i].value = NoValue
    BY <2>2 DEF SameValues, Executed
  <2> QED BY <2>3, <2>4 DEF Executed
<1>2. ASSUME NEW r \in Replicas, NEW i \in Instances, NEW v \in Values, Learns(r, i, v)
      PROVE  Executed'
  <2>1. PICK n : HandsOver(r, i, v, n)
    BY <1>2, LearnsHandsOver
  <2>2. PICK protos : CommitsNow(r, i, v, protos) /\ learner' = [learner EXCEPT ![r] = protos]
    BY <1>2, LearnsHandsOver
  <2>3. highestLearnt' = [highestLearnt EXCEPT ![r] = highestLearnt'[r]]
    BY <1>2, LearnsHandsOver
  <2>4. /\ learner \in [Replicas -> [Instances -> LearnerProtocol]]
        /\ learner' \in [Replicas -> [Instances -> LearnerProtocol]]
        /\ highestLearnt \in [Replicas -> 0 .. MaxInstance]
        /\ lastCommandExecuted \in [Replicas -> 0 .. MaxInstance]
        /\ n \in Nat /\ MaxInstance \in Nat
    BY <2>1, BoundsAssumption DEF TypeInv, TypeOK, LearnerTypeOK, HandsOver
  <2>5. DistinctValues(Learned(r)', n) \in Seq(Values \cup {NoValue})
    <3>1. \A j \in 1 .. n : learner'[r][j].value \in Values \cup {NoValue} /\ j \in Instances
      BY <2>1, <2>4 DEF HandsOver, Instances, LearnerProtocol
    <3>2. \A j \in 1 .. n : Learned(r)'[j] \in Values \cup {NoValue}
      BY <3>1 DEF Learned
    <3> QED BY <2>4, <3>2, DistinctValuesHas
  <2>6. /\ executed' \in [Replicas -> Seq(Values \cup {NoValue})]
        /\ executed'[r] = DistinctValues(Learned(r)', n)
        /\ lastCommandExecuted'[r] = n
    BY <2>1, <2>4, <2>5 DEF HandsOver, Executed
  <2>7. \A j \in Instances : ~learner'[r][j].commit => learner'[r][j].value = NoValue
    <3>1. learner'[r] = protos
      BY <2>2, <2>4
    <3> QED BY <2>2, <3>1 DEF CommitsNow, Executed
  <2>8. ASSUME NEW s \in Replicas, s # r
        PROVE  /\ lastCommandExecuted'[s] = lastCommandExecuted[s]
               /\ highestLearnt'[s] = highestLearnt[s]
               /\ executed'[s] = executed[s]
               /\ learner'[s] = learner[s]
               /\ Learned(s)' = Learned(s)
    <3>1. learner'[s] = learner[s]
      BY <2>2, <2>4, <2>8
    <3> QED BY <2>1, <2>3, <2>4, <2>8, <3>1 DEF HandsOver, Executed, Learned
  <2>9. /\ n <= highestLearnt'[r]
        /\ 1 .. n \subseteq History(learner'[r])
    BY <2>1 DEF HandsOver
  <2> DEFINE Fine(s) ==
        /\ lastCommandExecuted'[s] <= highestLearnt'[s]
        /\ 1 .. lastCommandExecuted'[s] \subseteq History(learner'[s])
        /\ executed'[s] = DistinctValues(Learned(s)', lastCommandExecuted'[s])
        /\ \A j \in Instances : ~learner'[s][j].commit => learner'[s][j].value = NoValue
  <2>10. Fine(r)
    BY <2>6, <2>7, <2>9
  <2>11. ASSUME NEW s \in Replicas, s # r PROVE Fine(s)
    BY <2>8, <2>11 DEF Executed
  <2>12. \A s \in Replicas : Fine(s)
    BY <2>10, <2>11
  <2> QED BY <2>6, <2>12 DEF Executed
<1> QED BY <1>1, <1>2, LearnsOnce

\* The values of instances that nobody learnt, and what nobody executed.
LEMMA ExecutedInit == Init => Executed
<1> SUFFICES ASSUME Init PROVE Executed
  OBVIOUS
<1>1. \A r \in Replicas : /\ lastCommandExecuted[r] = 0 /\ highestLearnt[r] = 0
                          /\ executed[r] = <<>>
                          /\ \A i \in Instances : learner[r][i].value = NoValue
  BY DEF Init, LearnerInit
<1>2. executed \in [Replicas -> Seq(Values \cup {NoValue})]
  BY DEF Init
<1> QED BY <1>1, <1>2, DistinctValuesNone DEF Executed

ExecInv == IInv /\ Ahead /\ Executed

LEMMA ExecInvariant == Spec => []ExecInv
<1>1. Init => ExecInv
  BY IInvInit, ExecutedInit DEF ExecInv, Init, Ahead, LearnerInit, CoordinatorInit
<1>2. ExecInv /\ [Next]_vars => ExecInv'
  BY IInvStep, IInvParts, AheadStep, ExecutedStep DEF ExecInv
<1> QED BY <1>1, <1>2, PTL DEF Spec

\* A replica executes exactly what it committed, in instance order from the
\* first one without a gap, and no value twice.
THEOREM ExecutesInOrder == Spec => []ExecutedInOrder
<1>1. ExecInv => ExecutedInOrder
  BY DEF ExecInv, Executed, ExecutedInOrder
<1> QED BY <1>1, ExecInvariant, PTL

-----------------------------------------------------------------------------
(* The command log that a client sees.                                     *)

CommandInv == ExecInv /\ Reported /\ Guarded /\ ValuesProposed

\* The abstract log is described by the same operators.
LEMMA SameOperators ==
  /\ \A val, n : Log!DistinctValues(val, n) = DistinctValues(val, n)
  /\ \A s, t : Log!IsPrefix(s, t) <=> IsPrefix(s, t)
BY DEF Log!DistinctValues, DistinctValues, Log!Ascending, Ascending, Log!Firsts,
       Firsts, Log!IsPrefix, IsPrefix, Log!Cardinality, Cardinality

\* A value is learnt from a vote for it or from a COMMIT that a quorum backs,
\* so it was proposed.
LEMMA LearnsProposed ==
  ASSUME IInv, ValuesProposed, NEW r \in Replicas, NEW i, NEW v, Learns(r, i, v)
  PROVE  v \in Proposed
<1>1. PICK p \in inbox[r] : p.type \in {"ACCEPT_OK", "COMMIT"} /\ p.value = v
  BY DEF Learns
<1>2. CASE p.type = "ACCEPT_OK"
  <2>1. [acc |-> p.from, inst |-> p.inst, bal |-> p.bal, value |-> p.value] \in votes
    BY <1>2, IInvParts DEF BackedInv
  <2> QED BY <1>1, <2>1, VotesProposed
<1>3. CASE p.type = "COMMIT"
  <2>1. Backed(votes, p.inst, p.value)
    BY <1>3, IInvParts DEF BackedInv
  <2> QED BY <1>1, <2>1, BackedProposed
<1> QED BY <1>1, <1>2, <1>3

\* Learning a value is a Commit of the log.
LEMMA LogCommits ==
  ASSUME CommandInv, IInv', NEW r \in Replicas, NEW i \in Instances,
         NEW v \in Values, Learns(r, i, v)
  PROVE  Log!Commit(r, i, v)
<1>0. /\ TypeInv /\ TypeInv' /\ Ahead /\ Executed /\ IInv /\ ValuesProposed
      /\ learner \in [Replicas -> [Instances -> LearnerProtocol]]
  BY IInvParts DEF CommandInv, ExecInv, TypeInv, TypeOK, LearnerTypeOK
<1>1. v \in Proposed
  BY <1>0, LearnsProposed
<1>2. PICK protos : CommitsNow(r, i, v, protos) /\ learner' = [learner EXCEPT ![r] = protos]
  BY <1>0, LearnsHandsOver
<1>3. PICK n : HandsOver(r, i, v, n)
  BY <1>0, LearnsHandsOver
<1> DEFINE committed == [s \in Replicas |-> Learned(s)]
           next == [s \in Replicas |-> Learned(s)']
<1>4. committed[r][i] = NoValue
  BY <1>0, <1>2 DEF CommitsNow, Executed, Learned
<1>5. next = [committed EXCEPT ![r][i] = v]
  <2>1. ASSUME NEW s \in Replicas, s # r PROVE Learned(s)' = Learned(s)
    <3>1. learner'[s] = learner[s]
      BY <1>0, <1>2, <2>1
    <3> QED BY <3>1 DEF Learned
  <2>2. Learned(r)' = [Learned(r) EXCEPT ![i] = v]
    <3>1. learner'[r] = protos
      BY <1>0, <1>2
    <3>2. \A j \in Instances : protos[j].value = IF j = i THEN v ELSE learner[r][j].value
      BY <1>2 DEF CommitsNow
    <3> QED BY <3>1, <3>2 DEF Learned
  <2> QED BY <2>1, <2>2
<1>6. next[r] = Learned(r)'
  OBVIOUS
<1>7. /\ n \in {0} \cup Instances
      /\ \A j \in 1 .. n : next[r][j] # NoValue
      /\ IsPrefix(executed[r], DistinctValues(next[r], n))
      /\ executed' = [executed EXCEPT ![r] = DistinctValues(next[r], n)]
  <2>1. n \in {0} \cup Instances
    BY <1>0, <1>3, BoundsAssumption DEF HandsOver, Instances, TypeInv, TypeOK
  <2>2. \A j \in 1 .. n : learner'[r][j].value \in Values /\ j \in Instances
    BY <1>0, <1>3 DEF HandsOver, History, TypeInv, ValuesPresent
  <2>3. \A j \in 1 .. n : next[r][j] # NoValue
    BY <2>2, NoValueIsNone DEF Learned
  <2> QED BY <1>3, <1>6, <2>1, <2>3 DEF HandsOver
<1>8. UNCHANGED Proposed
  <2>1. UNCHANGED proposeCounter
    BY DEF Learns, Learnt
  <2> QED BY <2>1 DEF Proposed
<1> HIDE DEF committed, next
<1>9. \E k \in {0} \cup Instances :
        /\ \A j \in 1 .. k : next[r][j] # NoValue
        /\ Log!IsPrefix(executed[r], Log!DistinctValues(next[r], k))
        /\ executed' = [executed EXCEPT ![r] = Log!DistinctValues(next[r], k)]
  BY <1>7, SameOperators
<1> QED BY <1>1, <1>4, <1>5, <1>8, <1>9 DEF Log!Commit, committed, next

\* ProposeCommand is a Propose of the log.
LEMMA LogProposes ==
  ASSUME TypeInv, NEW r \in Proposers, ProposeCommand(r)
  PROVE  \E v \in Values : Log!Propose(v)
<1>1. UNCHANGED <<learner, executed>>
  BY DEF ProposeCommand, execVars
<1>2. [s \in Replicas |-> Learned(s)'] = [s \in Replicas |-> Learned(s)]
  BY <1>1 DEF Learned
<1>3. PICK v \in Values : v \notin Proposed /\ Proposed' = Proposed \cup {v}
  BY CommandIsNew
<1>4. Log!Propose(v)
  BY <1>1, <1>2, <1>3 DEF Log!Propose
<1> QED BY <1>4

\* Any other step leaves the log alone.
LEMMA LogStutters ==
  ASSUME LearnsNothing, UNCHANGED proposeCounter
  PROVE  UNCHANGED Log!logVars
<1>1. UNCHANGED <<executed, Proposed>>
  BY DEF LearnsNothing, execVars, Proposed
<1>2. \A s \in Replicas : Learned(s)' = Learned(s)
  BY DEF LearnsNothing, SameValues, Learned
<1>3. [s \in Replicas |-> Learned(s)'] = [s \in Replicas |-> Learned(s)]
  BY <1>2
<1> QED BY <1>1, <1>3 DEF Log!logVars

\* What each client of libpaxos sees is a log of proposed commands: a value
\* committed stays, and commands are handed over in order and once.
THEOREM ReplicasAreLogs == Spec => IsCommandLog
<1>1. Init => CommandInv
  BY IInvInit, ExecutedInit, LedInit, ProposedInit
  DEF CommandInv, ExecInv, Init, Ahead, LearnerInit, CoordinatorInit
<1>2. CommandInv /\ [Next]_vars => CommandInv'
  BY IInvStep, IInvParts, AheadStep, ExecutedStep, LedStep, ProposedStep
  DEF CommandInv, ExecInv
<1>3. Init => Log!Init
  <2> SUFFICES ASSUME Init PROVE Log!Init
    OBVIOUS
  <2>1. Proposed = {}
    BY DEF Init, Proposed, Values
  <2>2. /\ executed = [r \in Replicas |-> <<>>]
        /\ \A r \in Replicas, i \in Instances : learner[r][i].value = NoValue
    BY DEF Init, LearnerInit
  <2>3. [r \in Replicas |-> Learned(r)] = [r \in Replicas |-> [i \in Instances |-> NoValue]]
    BY <2>2 DEF Learned
  <2> QED BY <2>1, <2>2, <2>3 DEF Log!Init
<1>4. CommandInv /\ [Next]_vars => [Log!Next]_(Log!logVars)
  <2> SUFFICES ASSUME CommandInv, [Next]_vars PROVE [Log!Next]_(Log!logVars)
    OBVIOUS
  <2>0. TypeInv /\ IInv'
    BY <1>2, IInvParts DEF CommandInv, ExecInv
  <2>1. CASE \E r \in Proposers : ProposeCommand(r)
    BY <2>0, <2>1, LogProposes DEF Log!Next
  <2>2. ASSUME NEW r \in Replicas, NEW i \in Instances, NEW v \in Values, Learns(r, i, v)
        PROVE  Log!Next
    BY <2>0, <2>2, LogCommits DEF Log!Next
  <2>3. CASE LearnsNothing /\ UNCHANGED proposeCounter
    BY <2>3, LogStutters
  <2> QED BY <2>0, <2>1, <2>2, <2>3, LearnsOnce, CommandsCounted
<1> QED BY <1>1, <1>2, <1>3, <1>4, PTL DEF Spec, IsCommandLog, Log!Spec

=============================================================================
