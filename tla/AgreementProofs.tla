-------------------------- MODULE AgreementProofs --------------------------
(***************************************************************************)
(* What the instances of libpaxos come to, for any number of replicas.     *)
(*                                                                         *)
(* FreshInstance rests on Ahead: Coordinator.instance may move back when   *)
(* something is learnt, but never behind what its replica has learnt.      *)
(*                                                                         *)
(* OneChosenIfLed is the argument of Paxos, with two invariants on top of  *)
(* IInv.  Reported: a PREPARE_OK says what its acceptor voted last, and a  *)
(* coordinator that counted answers to its own PREPARE only knows the last *)
(* vote of each of those acceptors.  Guarded: as long as all coordinators  *)
(* did so, no other value than that of an ACCEPT can get a quorum in any   *)
(* ballot below it, for in each of those ballots some quorum voted for     *)
(* nothing else and has promised to leave it at that.                      *)
(***************************************************************************)
EXTENDS LibpaxosProofs

-----------------------------------------------------------------------------
(* Instances.                                                              *)

Ahead ==
  \A r \in Replicas :
    /\ \A i \in Instances : learner[r][i].commit => i <= highestLearnt[r]
    /\ highestLearnt[r] <= instance[r]

\* protos commits nothing that r had not committed, except for instance i.
CommitsAtMost(r, protos, i) ==
  \A j \in Instances : protos[j].commit => learner[r][j].commit \/ j = i

\* Learning moves Coordinator.instance to the instance learnt or leaves it.
LEMMA AheadLearnt ==
  ASSUME TypeInv, Ahead, NEW r \in Replicas, NEW p, NEW i \in Instances, NEW v,
         NEW protos, NEW out, CommitsAtMost(r, protos, i),
         Learnt(r, p, i, v, protos, out)
  PROVE  Ahead'
<1>1. /\ learner' = [learner EXCEPT ![r] = protos]
      /\ highestLearnt' = [highestLearnt EXCEPT
                             ![r] = IF i > highestLearnt[r] THEN i ELSE highestLearnt[r]]
      /\ instance' = [instance EXCEPT
                        ![r] = IF i > highestLearnt[r] THEN i ELSE instance[r]]
  BY DEF Learnt, InstanceAfter
<1>2. /\ highestLearnt \in [Replicas -> Int] /\ instance \in [Replicas -> Int]
      /\ learner \in [Replicas -> [Instances -> LearnerProtocol]]
      /\ Instances \subseteq Int
  BY DEF TypeInv, TypeOK, CoordinatorTypeOK, LearnerTypeOK, Instances
<1> QED BY <1>1, <1>2 DEF Ahead, CommitsAtMost

LEMMA AheadNothingLearnt ==
  ASSUME TypeInv, Ahead, NEW r \in Replicas, NEW p, NEW protos, NEW out,
         \A j \in Instances : protos[j].commit => learner[r][j].commit,
         NothingLearnt(r, p, protos, out)
  PROVE  Ahead'
<1>1. /\ learner' = [learner EXCEPT ![r] = protos]
      /\ UNCHANGED <<highestLearnt, instance>>
  BY DEF NothingLearnt, execVars, coordinatorVars
<1> QED BY <1>1 DEF Ahead, TypeInv, TypeOK, LearnerTypeOK

\* What r has committed and where its coordinator stands, after any step.
LEMMA AheadStep == IInv /\ Ahead /\ [Next]_vars => Ahead'
<1> SUFFICES ASSUME IInv, Ahead, [Next]_vars PROVE Ahead'
  OBVIOUS
<1>0. TypeInv
  BY IInvParts
<1>1. ASSUME UNCHANGED <<learner, highestLearnt, instance>> PROVE Ahead'
  BY <1>1 DEF Ahead
<1>2. CASE \E r \in Late : Start(r)
  BY <1>1, <1>2 DEF Start, execVars, coordinatorVars
<1>3. CASE \E r \in Proposers : ProposeCommand(r)
  BY <1>1, <1>3 DEF ProposeCommand, execVars, coordinatorVars
<1>4. CASE \E r \in Replicas : Epoch(r)
  BY <1>1, <1>4 DEF Epoch, execVars, coordinatorVars
<1>5. ASSUME NEW r \in Replicas, HandlePropose(r) PROVE Ahead'
  <2>1. /\ instance' = [instance EXCEPT ![r] = instance[r] + 1]
        /\ UNCHANGED <<learner, highestLearnt>>
    BY <1>5 DEF HandlePropose, Propose, execVars
  <2>2. highestLearnt \in [Replicas -> Int] /\ instance \in [Replicas -> Int]
    BY <1>0 DEF TypeInv, TypeOK, CoordinatorTypeOK
  <2> QED BY <2>1, <2>2 DEF Ahead
<1>6. ASSUME NEW r \in Replicas, HandleByCoordinator(r) PROVE Ahead'
  <2>1. UNCHANGED <<learner, highestLearnt, instance>>
    BY <1>6 DEF HandleByCoordinator, AskForMissing, HandlePrepareOK, CountPromise,
                SendAccept, IgnorePromise, HandlePrepareReject, coordinatorVars, execVars
  <2> QED BY <1>1, <2>1
<1>7. ASSUME NEW r \in Replicas, HandleByAcceptor(r) PROVE Ahead'
  BY <1>1, <1>7 DEF HandleByAcceptor, execVars, coordinatorVars
<1>8. ASSUME NEW r \in Replicas, HandleAcceptOK(r) PROVE Ahead'
  <2>1. PICK p \in Received(r, "ACCEPT_OK") :
          LET lp == learner[r][p.inst]
              With(l) == [learner[r] EXCEPT ![p.inst] = l] IN
          \/ Learnt(r, p, p.inst, p.value, With(Committed(WithVote(lp, p), p.value)),
               {[type |-> "COMMIT", value |-> p.value, inst |-> p.inst]})
          \/ NothingLearnt(r, p, With(WithVote(lp, p)), {})
          \/ NothingLearnt(r, p, learner[r], {})
    BY <1>8 DEF HandleAcceptOK
  <2> DEFINE wv == WithVote(learner[r][p.inst], p)
             one == [learner[r] EXCEPT ![p.inst] = Committed(wv, p.value)]
             two == [learner[r] EXCEPT ![p.inst] = wv]
             out == {[type |-> "COMMIT", value |-> p.value, inst |-> p.inst]}
  <2>2. /\ p.inst \in Instances /\ learner[r] \in [Instances -> LearnerProtocol]
        /\ p.bal \in Nat /\ p.value \in Values /\ p.from \in Replicas
    BY <1>0, PacketFields DEF Received, TypeInv, TypeOK, NetTypeOK, LearnerTypeOK
  <2>3. wv.commit = learner[r][p.inst].commit
    BY <2>2, WithVoteType
  <2>4. CommitsAtMost(r, one, p.inst)
    BY <2>2 DEF CommitsAtMost
  <2>5. \A j \in Instances : two[j].commit => learner[r][j].commit
    BY <2>2, <2>3
  <2>6. \/ Learnt(r, p, p.inst, p.value, one, out)
        \/ NothingLearnt(r, p, two, {})
        \/ NothingLearnt(r, p, learner[r], {})
    BY <2>1
  <2> HIDE DEF one, two, out
  <2> QED BY <1>0, <2>2, <2>4, <2>5, <2>6, AheadLearnt, AheadNothingLearnt
<1>9. ASSUME NEW r \in Replicas, HandleCommit(r) PROVE Ahead'
  <2>1. PICK p \in Received(r, "COMMIT") :
          \/ Learnt(r, p, p.inst, p.value,
               [learner[r] EXCEPT ![p.inst] = Committed(learner[r][p.inst], p.value)], {})
          \/ NothingLearnt(r, p, learner[r], {})
    BY <1>9 DEF HandleCommit
  <2>2. p.inst \in Instances /\ learner[r] \in [Instances -> LearnerProtocol]
    BY <1>0, PacketFields DEF Received, TypeInv, TypeOK, NetTypeOK, LearnerTypeOK
  <2>3. CommitsAtMost(r, [learner[r] EXCEPT
          ![p.inst] = Committed(learner[r][p.inst], p.value)], p.inst)
    BY <2>2 DEF CommitsAtMost
  <2> QED BY <1>0, <2>1, <2>2, <2>3, AheadLearnt, AheadNothingLearnt
<1>10. ASSUME NEW r \in Replicas, HandleNop(r) PROVE Ahead'
  <2>1. PICK p, out : NothingLearnt(r, p, learner[r], out)
    BY <1>10 DEF HandleNop
  <2> QED BY <1>0, <2>1, AheadNothingLearnt
<1>11. CASE UNCHANGED vars
  BY <1>1, <1>11 DEF vars, execVars, coordinatorVars
<1> QED BY <1>2, <1>3, <1>4, <1>5, <1>6, <1>7, <1>8, <1>9, <1>10, <1>11
        DEF Next, HandleOperate

\* Only PROPOSE gives an instance a new proposal number, and it takes the one
\* after Coordinator.instance.
LEMMA FreshStep ==
  ASSUME IInv, Ahead, [Next]_vars, NEW r \in Replicas, NEW i \in Instances,
         proto'[r][i].proposal # proto[r][i].proposal
  PROVE  ~learner[r][i].commit
<1>0. /\ TypeInv
      /\ proto \in [Replicas -> [Instances -> CoordinatorProtocol]]
      /\ highestLearnt[r] \in Int /\ instance[r] \in Int /\ i \in Int
  BY IInvParts, SMTT(30) DEF TypeInv, TypeOK, CoordinatorTypeOK, Instances
<1>1. ASSUME NEW s \in Replicas, HandlePropose(s) PROVE ~learner[r][i].commit
  <2>1. PICK new : proto' = [proto EXCEPT ![s][instance[s] + 1] = new]
    BY <1>1 DEF HandlePropose, Propose
  <2>2. s = r /\ i = instance[r] + 1
    BY <1>0, <2>1
  <2> QED BY <1>0, <2>2 DEF Ahead
<1>2. ASSUME NEW s \in Replicas, HandleByCoordinator(s)
      PROVE  proto'[r][i].proposal = proto[r][i].proposal
  <2>1. ASSUME NEW p \in Received(s, "PREPARE_OK"), CountPromise(s, p) \/ SendAccept(s, p)
        PROVE  proto'[r][i].proposal = proto[r][i].proposal
    <3> DEFINE cp == Counted(proto[s][p.inst], p)
    <3>1. /\ p.inst \in Instances /\ cp \in CoordinatorProtocol
          /\ cp.proposal = proto[s][p.inst].proposal
      BY <1>0, <2>1, CountedType DEF CountPromise, SendAccept
    <3> DEFINE sent == [cp EXCEPT !.nvalue = Chosen(cp)]
    <3>2. \/ proto' = [proto EXCEPT ![s][p.inst] = cp]
          \/ proto' = [proto EXCEPT ![s][p.inst] = sent]
      BY <2>1 DEF CountPromise, SendAccept
    <3> HIDE DEF cp
    <3>3. sent.proposal = cp.proposal
      BY <3>1 DEF CoordinatorProtocol
    <3> HIDE DEF sent
    <3> QED BY <1>0, <3>1, <3>2, <3>3
  <2> QED BY <1>2, <2>1 DEF HandleByCoordinator, AskForMissing, HandlePrepareOK,
             IgnorePromise, HandlePrepareReject, coordinatorVars
<1>3. ASSUME NEW s \in Replicas,
             HandleByAcceptor(s) \/ HandleAcceptOK(s) \/ HandleCommit(s) \/ HandleNop(s)
      PROVE  proto' = proto
  BY <1>3 DEF HandleByAcceptor, HandleAcceptOK, HandleCommit, HandleNop, Learnt,
              NothingLearnt, coordinatorVars
<1>4. CASE \/ \E s \in Late : Start(s)
           \/ \E s \in Proposers : ProposeCommand(s)
           \/ \E s \in Replicas : Epoch(s)
           \/ UNCHANGED vars
  BY <1>4 DEF Start, ProposeCommand, Epoch, vars, coordinatorVars
<1> QED BY <1>1, <1>2, <1>3, <1>4 DEF Next, HandleOperate

LEMMA AheadInvariant == Spec => [](IInv /\ Ahead)
<1>1. Init => Ahead
  BY DEF Init, Ahead, LearnerInit, CoordinatorInit
<1> QED BY <1>1, IInvInit, IInvStep, AheadStep, PTL DEF Spec

\* Learning moves Coordinator.instance back as well as forth; a replica yet
\* never begins a proposal for an instance that it holds a value for.
THEOREM InstancesAreFresh == Spec => FreshInstance
<1>1. IInv /\ Ahead /\ [Next]_vars =>
        [\A r \in Replicas, i \in Instances :
           proto'[r][i].proposal # proto[r][i].proposal => ~learner[r][i].commit]_vars
  BY FreshStep
<1> QED BY <1>1, AheadInvariant, PTL DEF Spec, FreshInstance

-----------------------------------------------------------------------------
(* Agreement, as long as coordinators count answers to their own PREPARE.  *)

\* r's vote in ballot b of instance i for v; r's promise of b after prior.
Vote(r, i, b, v) == [acc |-> r, inst |-> i, bal |-> b, value |-> v]
PromiseOf(r, i, b, prior) == [acc |-> r, inst |-> i, bal |-> b, prior |-> prior]

\* What the coordinator that proposed cp for instance i has been told, if its
\* PREPARE_OKs answer this proposal: P are the promises, V the votes.
WellLed(P, V, cp, i) ==
  cp.proposal # 0 /\ cp.answered \subseteq {cp.proposal} =>
    /\ \A s \in cp.responses : \E m \in P :
         m.acc = s /\ m.inst = i /\ m.bal = cp.proposal /\ m.prior <= cp.aproposal
    /\ cp.aproposal > 0 =>
         \E s \in Replicas : Vote(s, i, cp.aproposal, cp.avalue) \in V
    /\ cp.aproposal < cp.proposal

Reported ==
  /\ \A r \in Replicas, i \in Instances :
       LET ap == acceptor[r][i] IN
       ap.proposalAccepted > 0 => Vote(r, i, ap.proposalAccepted, ap.value) \in votes
  /\ \A r \in Replicas : \A p \in inbox[r] : p.type = "PREPARE_OK" =>
       /\ PromiseOf(p.from, p.inst, p.for, p.bal) \in promises
       /\ p.bal > 0 => Vote(p.from, p.inst, p.bal, p.value) \in votes
  /\ \A m \in promises : m.prior < m.bal
  /\ \A r \in Replicas, i \in Instances : WellLed(promises, votes, proto[r][i], i)

\* s votes for nothing but v in ballot c of instance i, now and later.
Bound(s, i, c, v) ==
  /\ acceptor[s][i].proposal > c
  /\ \A w \in votes : w.acc = s /\ w.inst = i /\ w.bal = c => w.value = v

\* No value but v has or gets a quorum in ballot c of instance i.
Closed(i, c, v) ==
  \E S \in SUBSET Replicas : Cardinality(S) >= Q /\ \A s \in S : Bound(s, i, c, v)

Guarded ==
  AllLed => \A a \in accepts : \A c \in 0 .. a.bal - 1 : Closed(a.inst, c, a.value)

\* The types that the argument needs.
LEMMA RolesTyped ==
  ASSUME IInv
  PROVE  /\ acceptor \in [Replicas -> [Instances -> AcceptorProtocol]]
         /\ proto \in [Replicas -> [Instances -> CoordinatorProtocol]]
         /\ \A v \in votes : /\ v.acc \in Replicas /\ v.inst \in Instances
                             /\ v.bal \in Nat /\ v.value \in Values
         /\ \A m \in promises : /\ m.acc \in Replicas /\ m.inst \in Instances
                                /\ m.bal \in Nat /\ m.prior \in Nat
         /\ \A a \in accepts : a.inst \in Instances /\ a.bal \in Nat \ {0}
BY IInvParts DEF TypeInv, TypeOK, AcceptorTypeOK, CoordinatorTypeOK

\* What was told stays true, for promises and votes are never withdrawn.
LEMMA ReportedStays ==
  ASSUME Reported, promises \subseteq promises', votes \subseteq votes',
         \A r \in Replicas, i \in Instances :
           acceptor'[r][i].proposalAccepted > 0 =>
             Vote(r, i, acceptor'[r][i].proposalAccepted, acceptor'[r][i].value)
               \in votes',
         \A s \in Replicas : \A q \in inbox'[s] : q.type = "PREPARE_OK" =>
           \/ q \in inbox[s]
           \/ /\ PromiseOf(q.from, q.inst, q.for, q.bal) \in promises'
              /\ q.bal > 0 => Vote(q.from, q.inst, q.bal, q.value) \in votes',
         \A m \in promises' : m \in promises \/ m.prior < m.bal,
         \A r \in Replicas, i \in Instances :
           proto'[r][i] = proto[r][i] \/ WellLed(promises', votes', proto'[r][i], i)
  PROVE  Reported'
<1>1. \A r \in Replicas, i \in Instances :
        WellLed(promises', votes', proto'[r][i], i)
  BY DEF Reported, WellLed
<1> QED BY <1>1 DEF Reported

\* New votes are for the ballots promised or later ones, so they leave what is
\* closed alone.
LEMMA GuardedStays ==
  ASSUME IInv, Guarded, accepts' = accepts,
         \A s \in Replicas, i \in Instances :
           acceptor'[s][i].proposal \in Nat /\ acceptor'[s][i].proposal >= acceptor[s][i].proposal,
         \A w \in votes' : w \in votes \/ w.bal >= acceptor[w.acc][w.inst].proposal
  PROVE  Guarded'
<1> SUFFICES ASSUME AllLed, NEW a \in accepts, NEW c \in 0 .. a.bal - 1
             PROVE  Closed(a.inst, c, a.value)'
  BY DEF Guarded, AllLed
<1>1. a.inst \in Instances /\ c \in Int
      /\ \A s \in Replicas, i \in Instances : acceptor[s][i].proposal \in Nat
  BY RolesTyped DEF AcceptorProtocol
<1>2. PICK S \in SUBSET Replicas :
        Cardinality(S) >= Q /\ \A s \in S : Bound(s, a.inst, c, a.value)
  BY DEF Guarded, Closed
<1>3. ASSUME NEW s \in S PROVE Bound(s, a.inst, c, a.value)'
  <2>1. acceptor[s][a.inst].proposal > c /\ acceptor'[s][a.inst].proposal > c
    BY <1>1, <1>2 DEF Bound
  <2>2. ASSUME NEW w \in votes', w.acc = s, w.inst = a.inst, w.bal = c
        PROVE  w.value = a.value
    <3>1. w \in votes
      BY <1>1, <2>1, <2>2
    <3> QED BY <1>2, <2>2, <3>1 DEF Bound
  <2> QED BY <2>1, <2>2 DEF Bound
<1> QED BY <1>2, <1>3 DEF Closed

\* PREPARE: the PREPARE_OK reports the promise and the last vote.
LEMMA LedPrepare ==
  ASSUME IInv, Reported, Guarded, NEW r \in Replicas, NEW p \in Received(r, "PREPARE"),
         HandlePrepare(r, p), UNCHANGED coordinatorVars
  PROVE  Reported' /\ Guarded'
<1> DEFINE ap == acceptor[r][p.inst]
           ok == [type |-> "PREPARE_OK", bal |-> ap.proposalAccepted,
                  value |-> ap.value, inst |-> p.inst, from |-> r, for |-> p.bal]
           no == [type |-> "PREPARE_REJECT", bal |-> ap.proposal,
                  inst |-> p.inst, from |-> r, for |-> p.bal]
           new == PromiseOf(r, p.inst, p.bal, ap.proposalAccepted)
<1>1. /\ p.bal \in Nat \ {0} /\ p.inst \in Instances
      /\ acceptor \in [Replicas -> [Instances -> AcceptorProtocol]]
      /\ UNCHANGED <<proto, accepts>>
  BY IInvParts, PacketFields, RolesTyped
  DEF Received, TypeInv, TypeOK, NetTypeOK, coordinatorVars
<1>2. CASE Reject(r, p)
  <2>1. Exchange(r, {p}, {}, {no}) /\ UNCHANGED <<acceptor, promises, votes>>
    BY <1>2 DEF Reject, acceptorVars
  <2>2. no.type # "PREPARE_OK"
    OBVIOUS
  <2> HIDE DEF no
  <2>3. \A s \in Replicas : \A q \in inbox'[s] : q.type = "PREPARE_OK" => q \in inbox[s]
    BY <2>1, <2>2, ExchangeNew
  <2>4. \A s \in Replicas, i \in Instances : acceptor[s][i].proposal \in Nat
    BY <1>1 DEF AcceptorProtocol
  <2>5. Reported'
    BY <1>1, <2>1, <2>3, ReportedStays DEF Reported
  <2>6. Guarded'
    BY <1>1, <2>1, <2>4, GuardedStays
  <2> QED BY <2>5, <2>6
<1>3. CASE Promise(r, p)
  <2>1. /\ p.bal > ap.proposal
        /\ acceptor' = [acceptor EXCEPT ![r][p.inst].proposal = p.bal]
        /\ promises' = promises \cup {new}
        /\ Exchange(r, {p}, {}, {ok})
        /\ votes' = votes
    BY <1>3 DEF Promise, PromiseOf
  <2>2. /\ ok.type = "PREPARE_OK" /\ ok.from = r /\ ok.inst = p.inst /\ ok.for = p.bal
        /\ ok.bal = ap.proposalAccepted /\ ok.value = ap.value
        /\ new = PromiseOf(ok.from, ok.inst, ok.for, ok.bal)
    OBVIOUS
  <2>3. new.prior = ap.proposalAccepted /\ new.bal = p.bal
    BY DEF PromiseOf
  <2> HIDE DEF ok, new
  <2>4. \A s \in Replicas : \A q \in inbox'[s] : q \in inbox[s] \/ q = ok
    BY <2>1, ExchangeNew
  <2>5. \A s \in Replicas, i \in Instances :
          /\ acceptor'[s][i].proposalAccepted = acceptor[s][i].proposalAccepted
          /\ acceptor'[s][i].value = acceptor[s][i].value
          /\ acceptor'[s][i].proposal \in Nat
          /\ acceptor'[s][i].proposal >= acceptor[s][i].proposal
    BY <1>1, <2>1 DEF AcceptorProtocol
  <2>6. new.prior < new.bal
    <3>1. ap.proposalAccepted <= ap.proposal
      BY <1>1, IInvParts DEF VotesFaithful
    <3>2. ap.proposalAccepted \in Nat /\ ap.proposal \in Nat
      BY <1>1 DEF AcceptorProtocol
    <3> QED BY <1>1, <2>1, <2>3, <3>1, <3>2
  <2>7. ok.bal > 0 => Vote(ok.from, ok.inst, ok.bal, ok.value) \in votes
    BY <1>1, <2>2 DEF Reported
  <2>8. Reported'
    <3>1. \A s \in Replicas : \A q \in inbox'[s] : q.type = "PREPARE_OK" =>
            \/ q \in inbox[s]
            \/ /\ PromiseOf(q.from, q.inst, q.for, q.bal) \in promises'
               /\ q.bal > 0 => Vote(q.from, q.inst, q.bal, q.value) \in votes'
      BY <2>1, <2>2, <2>4, <2>7
    <3>2. \A s \in Replicas, i \in Instances :
            acceptor'[s][i].proposalAccepted > 0 =>
              Vote(s, i, acceptor'[s][i].proposalAccepted, acceptor'[s][i].value) \in votes'
      BY <2>1, <2>5 DEF Reported
    <3>3. \A m \in promises' : m \in promises \/ m.prior < m.bal
      BY <2>1, <2>6
    <3> QED BY <1>1, <2>1, <3>1, <3>2, <3>3, ReportedStays
  <2>9. Guarded'
    BY <1>1, <2>1, <2>5, GuardedStays
  <2> QED BY <2>8, <2>9
<1> QED BY <1>2, <1>3 DEF HandlePrepare

\* ACCEPT: a vote is for a ballot that is not below the one promised.
LEMMA LedAccept ==
  ASSUME IInv, Reported, Guarded, NEW r \in Replicas, NEW p \in Received(r, "ACCEPT"),
         HandleAccept(r, p), UNCHANGED coordinatorVars
  PROVE  Reported' /\ Guarded'
<1> DEFINE ok == [type |-> "ACCEPT_OK", bal |-> p.bal, value |-> p.value,
                  inst |-> p.inst, from |-> r]
           new == Vote(r, p.inst, p.bal, p.value)
<1>1. /\ p.bal \in Nat \ {0} /\ p.inst \in Instances
      /\ acceptor \in [Replicas -> [Instances -> AcceptorProtocol]]
      /\ UNCHANGED <<proto, accepts>>
  BY IInvParts, PacketFields, RolesTyped
  DEF Received, TypeInv, TypeOK, NetTypeOK, coordinatorVars
<1>2. CASE Ignore(r, p)
  <2>1. Exchange(r, {p}, {}, {}) /\ UNCHANGED <<acceptor, promises, votes>>
    BY <1>2 DEF Ignore, acceptorVars
  <2>2. \A s \in Replicas : \A q \in inbox'[s] : q \in inbox[s]
    BY <2>1, ExchangeNew
  <2>3. \A s \in Replicas, i \in Instances : acceptor[s][i].proposal \in Nat
    BY <1>1 DEF AcceptorProtocol
  <2>4. Reported'
    BY <1>1, <2>1, <2>2, ReportedStays DEF Reported
  <2>5. Guarded'
    BY <1>1, <2>1, <2>3, GuardedStays
  <2> QED BY <2>4, <2>5
<1>3. CASE Accept(r, p)
  <2>1. /\ p.bal >= acceptor[r][p.inst].proposal
        /\ acceptor' = [acceptor EXCEPT ![r][p.inst] =
              [proposal |-> p.bal, value |-> p.value, proposalAccepted |-> p.bal]]
        /\ votes' = votes \cup {new}
        /\ promises' = promises
        /\ Exchange(r, {p}, {}, {ok})
    BY <1>3 DEF Accept, MayAccept, Vote
  <2>2. ok.type # "PREPARE_OK"
    OBVIOUS
  <2> HIDE DEF ok
  <2>3. \A s \in Replicas : \A q \in inbox'[s] : q.type = "PREPARE_OK" => q \in inbox[s]
    BY <2>1, <2>2, ExchangeNew
  <2>4. \A s \in Replicas, i \in Instances :
          \/ acceptor'[s][i] = acceptor[s][i]
          \/ /\ s = r /\ i = p.inst
             /\ acceptor'[s][i] = [proposal |-> p.bal, value |-> p.value,
                                   proposalAccepted |-> p.bal]
    BY <1>1, <2>1
  <2>5. \A s \in Replicas, i \in Instances :
          acceptor'[s][i].proposal \in Nat /\ acceptor'[s][i].proposal >= acceptor[s][i].proposal
    BY <1>1, <2>1, <2>4 DEF AcceptorProtocol
  <2>6. \A s \in Replicas, i \in Instances :
          acceptor'[s][i].proposalAccepted > 0 =>
            Vote(s, i, acceptor'[s][i].proposalAccepted, acceptor'[s][i].value) \in votes'
    BY <2>1, <2>4 DEF Reported
  <2>7. new.bal = p.bal /\ new.acc = r /\ new.inst = p.inst
    BY DEF Vote
  <2> HIDE DEF new
  <2>8. Reported'
    BY <1>1, <2>1, <2>3, <2>6, ReportedStays DEF Reported
  <2>9. Guarded'
    BY <1>1, <2>1, <2>5, <2>7, GuardedStays
  <2> QED BY <2>8, <2>9
<1> QED BY <1>2, <1>3 DEF HandleAccept

\* A new proposal was told nothing yet.
LEMMA LedPropose ==
  ASSUME IInv, Reported, Guarded, NEW r \in Replicas, HandlePropose(r)
  PROVE  Reported' /\ Guarded'
<1>1. PICK p \in Received(r, "PROPOSE") : Propose(r, p) /\ UNCHANGED acceptorVars
  BY DEF HandlePropose
<1> DEFINE b == nextproposal[r]
           i == instance[r] + 1
           m == [type |-> "PREPARE", bal |-> b, inst |-> i]
           new == FreshProto(p.value, b)
<1>2. /\ i \in Instances
      /\ proto' = [proto EXCEPT ![r][i] = new]
      /\ Exchange(r, {p}, {}, {m})
      /\ UNCHANGED <<accepts, acceptor, promises, votes>>
  BY <1>1 DEF Propose, acceptorVars
<1>3. /\ proto \in [Replicas -> [Instances -> CoordinatorProtocol]]
      /\ b \in Nat \ {0}
      /\ \A s \in Replicas, j \in Instances : acceptor[s][j].proposal \in Nat
  BY RolesTyped, IInvParts DEF TypeInv, TypeOK, CoordinatorTypeOK, AcceptorProtocol
<1>4. WellLed(promises, votes, new, i)
  BY <1>3 DEF WellLed, FreshProto
<1>5. m.type # "PREPARE_OK"
  OBVIOUS
<1> HIDE DEF m, new, b
<1>6. \A s \in Replicas : \A q \in inbox'[s] : q.type = "PREPARE_OK" => q \in inbox[s]
  BY <1>2, <1>5, ExchangeNew
<1>7. \A s \in Replicas, j \in Instances :
        proto'[s][j] = proto[s][j] \/ (j = i /\ proto'[s][j] = new)
  BY <1>2, <1>3
<1>8. Reported'
  BY <1>2, <1>4, <1>6, <1>7, ReportedStays DEF Reported
<1>9. Guarded'
  BY <1>2, <1>3, GuardedStays
<1> QED BY <1>8, <1>9

\* A PREPARE_OK that answers the proposal tells its coordinator the acceptor's
\* last vote.
LEMMA LedCounted ==
  ASSUME IInv, Reported, NEW r \in Replicas, NEW p \in Received(r, "PREPARE_OK")
  PROVE  WellLed(promises, votes, Counted(proto[r][p.inst], p), p.inst)
<1> DEFINE old == proto[r][p.inst]
           cp == Counted(old, p)
           m == PromiseOf(p.from, p.inst, p.for, p.bal)
<1>1. /\ p.inst \in Instances /\ p.bal \in Nat /\ p.for \in Nat /\ p.from \in Replicas
      /\ old \in CoordinatorProtocol
  BY RolesTyped, IInvParts, PacketFields DEF Received, TypeInv, TypeOK, NetTypeOK
<1>2. /\ m \in promises
      /\ p.bal > 0 => Vote(p.from, p.inst, p.bal, p.value) \in votes
      /\ m.prior < m.bal
      /\ WellLed(promises, votes, old, p.inst)
  BY <1>1 DEF Received, Reported
<1>3. m.acc = p.from /\ m.inst = p.inst /\ m.bal = p.for /\ m.prior = p.bal
  BY DEF PromiseOf
<1> HIDE DEF old, m
<1>4. /\ cp.aproposal = IF p.bal > old.aproposal THEN p.bal ELSE old.aproposal
      /\ cp.avalue = IF p.bal > old.aproposal THEN p.value ELSE old.avalue
      /\ cp.proposal = old.proposal
      /\ cp.responses = old.responses \cup {p.from}
      /\ cp.answered = old.answered \cup {p.for}
      /\ old.aproposal \in Nat /\ old.proposal \in Nat
  BY <1>1 DEF Counted, CoordinatorProtocol
<1> HIDE DEF cp
<1> SUFFICES ASSUME cp.proposal # 0, cp.answered \subseteq {cp.proposal}
             PROVE  /\ \A s \in cp.responses : \E n \in promises :
                         /\ n.acc = s /\ n.inst = p.inst /\ n.bal = cp.proposal
                         /\ n.prior <= cp.aproposal
                    /\ cp.aproposal > 0 =>
                         \E s \in Replicas :
                           Vote(s, p.inst, cp.aproposal, cp.avalue) \in votes
                    /\ cp.aproposal < cp.proposal
  BY DEF WellLed, cp, old
<1>5. /\ \A s \in old.responses : \E n \in promises :
           n.acc = s /\ n.inst = p.inst /\ n.bal = old.proposal /\ n.prior <= old.aproposal
      /\ old.aproposal > 0 =>
           \E s \in Replicas : Vote(s, p.inst, old.aproposal, old.avalue) \in votes
      /\ old.aproposal < old.proposal
  BY <1>2, <1>4 DEF WellLed
<1>6. p.for = cp.proposal /\ old.aproposal <= cp.aproposal /\ p.bal <= cp.aproposal
  BY <1>1, <1>4
<1>7. ASSUME NEW s \in cp.responses
      PROVE  \E n \in promises : /\ n.acc = s /\ n.inst = p.inst
                                 /\ n.bal = cp.proposal /\ n.prior <= cp.aproposal
  <2>1. CASE s = p.from
    BY <1>2, <1>3, <1>6, <2>1
  <2>2. CASE s \in old.responses
    <3>1. PICK n \in promises : /\ n.acc = s /\ n.inst = p.inst
                                /\ n.bal = old.proposal /\ n.prior <= old.aproposal
      BY <1>5, <2>2
    <3>2. n.prior \in Nat
      BY RolesTyped
    <3> QED BY <1>1, <1>4, <1>6, <3>1, <3>2
  <2> QED BY <1>4, <2>1, <2>2
<1>8. cp.aproposal < cp.proposal
  BY <1>1, <1>2, <1>3, <1>4, <1>5, <1>6
<1>9. cp.aproposal > 0 =>
        \E s \in Replicas : Vote(s, p.inst, cp.aproposal, cp.avalue) \in votes
  BY <1>1, <1>2, <1>4, <1>5
<1> QED BY <1>7, <1>8, <1>9

\* Votes in one ballot of an instance are for one value.
LEMMA VotesAgree ==
  ASSUME IInv, NEW v \in votes, NEW w \in votes, v.inst = w.inst, v.bal = w.bal
  PROVE  v.value = w.value
<1>1. PICK a \in accepts : a.inst = v.inst /\ a.bal = v.bal /\ a.value = v.value
  BY IInvParts DEF VotesFaithful
<1>2. PICK b \in accepts : b.inst = w.inst /\ b.bal = w.bal /\ b.value = w.value
  BY IInvParts DEF VotesFaithful
<1> QED BY <1>1, <1>2, IInvParts DEF ProposalsUnique, OneValuePerBallot

\* A quorum that answered the proposal of cp closes all ballots below it to
\* any value but the one that cp leads to.
LEMMA LedChoice ==
  ASSUME IInv, Reported, Guarded, AllLed, NEW i \in Instances,
         NEW cp \in CoordinatorProtocol, WellLed(promises, votes, cp, i),
         cp.proposal # 0, cp.answered = {cp.proposal}, Cardinality(cp.responses) >= Q,
         NEW c \in 0 .. cp.proposal - 1
  PROVE  Closed(i, c, Chosen(cp))
<1>1. /\ cp.aproposal \in Nat /\ cp.proposal \in Nat /\ c \in Nat /\ c < cp.proposal
      /\ cp.responses \in SUBSET Replicas
  BY DEF CoordinatorProtocol
<1>2. /\ \A s \in cp.responses : \E m \in promises :
           m.acc = s /\ m.inst = i /\ m.bal = cp.proposal /\ m.prior <= cp.aproposal
      /\ cp.aproposal > 0 =>
           \E s \in Replicas : Vote(s, i, cp.aproposal, cp.avalue) \in votes
  BY DEF WellLed
<1>3. ASSUME NEW s \in cp.responses
      PROVE  /\ acceptor[s][i].proposal > c
             /\ \A w \in votes : w.acc = s /\ w.inst = i /\ w.bal = c => c <= cp.aproposal
  <2>1. PICK m \in promises :
          m.acc = s /\ m.inst = i /\ m.bal = cp.proposal /\ m.prior <= cp.aproposal
    BY <1>2
  <2>2. m.bal <= acceptor[s][i].proposal /\ acceptor[s][i].proposal \in Nat
    BY <1>1, <2>1, IInvParts, RolesTyped DEF VotesFaithful, AcceptorProtocol
  <2>3. ASSUME NEW w \in votes, w.acc = s, w.inst = i, w.bal = c
        PROVE  c <= cp.aproposal
    <3>1. w.bal <= m.prior
      BY <1>1, <2>1, <2>3, IInvParts DEF VotesFaithful, PromiseKept
    <3>2. m.prior \in Nat
      BY RolesTyped
    <3> QED BY <1>1, <2>1, <2>3, <3>1, <3>2
  <2> QED BY <1>1, <2>1, <2>2, <2>3
<1>4. CASE c > cp.aproposal
  <2>1. \A s \in cp.responses : Bound(s, i, c, Chosen(cp))
    BY <1>1, <1>3, <1>4 DEF Bound
  <2> QED BY <1>1, <2>1 DEF Closed
<1>5. CASE c = cp.aproposal
  <2>1. ASSUME NEW w \in votes, w.inst = i, w.bal = c PROVE w.value = Chosen(cp)
    <3>1. w.bal > 0
      BY IInvParts DEF TypeInv, TypeOK, AcceptorTypeOK
    <3>2. PICK s \in Replicas : Vote(s, i, cp.aproposal, cp.avalue) \in votes
      BY <1>2, <1>5, <2>1, <3>1
    <3> DEFINE u == Vote(s, i, cp.aproposal, cp.avalue)
    <3>3. u.inst = i /\ u.bal = c /\ u.value = cp.avalue
      BY <1>5 DEF Vote
    <3> HIDE DEF u
    <3>4. w.value = cp.avalue
      BY <2>1, <3>2, <3>3, VotesAgree DEF u
    <3> QED BY <1>5, <2>1, <3>1, <3>4 DEF Chosen
  <2>2. \A s \in cp.responses : Bound(s, i, c, Chosen(cp))
    BY <1>3, <2>1 DEF Bound
  <2> QED BY <1>1, <2>2 DEF Closed
<1>6. CASE c < cp.aproposal
  <2>1. PICK s \in Replicas : Vote(s, i, cp.aproposal, cp.avalue) \in votes
    BY <1>1, <1>2, <1>6
  <2> DEFINE u == Vote(s, i, cp.aproposal, cp.avalue)
  <2>2. u.inst = i /\ u.bal = cp.aproposal /\ u.value = cp.avalue
    BY DEF Vote
  <2> HIDE DEF u
  <2>3. PICK a \in accepts : a.inst = u.inst /\ a.bal = u.bal /\ a.value = u.value
    BY <2>1, IInvParts DEF VotesFaithful, u
  <2>4. Closed(a.inst, c, a.value)
    BY <1>1, <1>6, <2>2, <2>3 DEF Guarded
  <2> QED BY <1>1, <1>6, <2>2, <2>3, <2>4 DEF Chosen
<1> QED BY <1>1, <1>4, <1>5, <1>6

\* PREPARE_OK: counted, or turned into the ACCEPT of a value that is safe.
LEMMA LedPrepareOK ==
  ASSUME IInv, Reported, Guarded, NEW r \in Replicas,
         NEW p \in Received(r, "PREPARE_OK"), CountPromise(r, p) \/ SendAccept(r, p),
         UNCHANGED acceptorVars
  PROVE  Reported' /\ Guarded'
<1> DEFINE cp == Counted(proto[r][p.inst], p)
           np == [cp EXCEPT !.nvalue = Chosen(cp)]
           new == [inst |-> p.inst, bal |-> cp.proposal,
                   value |-> Chosen(cp), answered |-> cp.answered]
           m == [type |-> "ACCEPT", bal |-> cp.proposal, value |-> Chosen(cp),
                 inst |-> p.inst]
<1>1. /\ p.inst \in Instances /\ cp \in CoordinatorProtocol
      /\ proto \in [Replicas -> [Instances -> CoordinatorProtocol]]
      /\ UNCHANGED <<acceptor, promises, votes>>
      /\ \A s \in Replicas, j \in Instances : acceptor[s][j].proposal \in Nat
  BY CountedType, IInvParts, RolesTyped DEF acceptorVars, AcceptorProtocol
<1>2. WellLed(promises, votes, cp, p.inst)
  BY LedCounted
<1>3. CASE CountPromise(r, p)
  <2>1. /\ proto' = [proto EXCEPT ![r][p.inst] = cp]
        /\ Exchange(r, {p}, {}, {}) /\ accepts' = accepts
    BY <1>3 DEF CountPromise
  <2> HIDE DEF cp
  <2>2. \A s \in Replicas, j \in Instances :
          proto'[s][j] = proto[s][j] \/ (j = p.inst /\ proto'[s][j] = cp)
    BY <1>1, <2>1
  <2>3. \A s \in Replicas : \A q \in inbox'[s] : q \in inbox[s]
    BY <2>1, ExchangeNew
  <2>4. Reported'
    BY <1>1, <1>2, <2>2, <2>3, ReportedStays DEF Reported
  <2>5. Guarded'
    BY <1>1, <2>1, GuardedStays
  <2> QED BY <2>4, <2>5
<1>4. CASE SendAccept(r, p)
  <2>1. /\ proto' = [proto EXCEPT ![r][p.inst] = np]
        /\ Exchange(r, {p}, {}, {m})
        /\ accepts' = accepts \cup {new}
        /\ Cardinality(cp.responses) >= Q
        /\ proto[r][p.inst].proposal # 0
    BY <1>4 DEF SendAccept, Awaited
  <2>2. cp.proposal # 0
    BY <2>1, CountedType, IInvParts
  <2> HIDE DEF cp
  <2>3. /\ np.aproposal = cp.aproposal /\ np.avalue = cp.avalue
        /\ np.proposal = cp.proposal /\ np.responses = cp.responses
        /\ np.answered = cp.answered
    BY <1>1 DEF CoordinatorProtocol
  <2>4. m.type # "PREPARE_OK"
    OBVIOUS
  <2>5. /\ new.inst = p.inst /\ new.bal = cp.proposal
        /\ new.value = Chosen(cp) /\ new.answered = cp.answered
    OBVIOUS
  <2> HIDE DEF np, m, new
  <2>6. WellLed(promises, votes, np, p.inst)
    BY <1>2, <2>3 DEF WellLed
  <2>7. \A s \in Replicas, j \in Instances :
          proto'[s][j] = proto[s][j] \/ (j = p.inst /\ proto'[s][j] = np)
    BY <1>1, <2>1
  <2>8. \A s \in Replicas : \A q \in inbox'[s] : q.type = "PREPARE_OK" => q \in inbox[s]
    BY <2>1, <2>4, ExchangeNew
  <2>9. Reported'
    BY <1>1, <2>6, <2>7, <2>8, ReportedStays DEF Reported
  <2>10. Guarded'
    <3> SUFFICES ASSUME AllLed', NEW a \in accepts', NEW c \in 0 .. a.bal - 1
                 PROVE  Closed(a.inst, c, a.value)'
      BY DEF Guarded
    <3>1. AllLed /\ cp.answered = {cp.proposal}
      BY <2>1, <2>5 DEF AllLed
    <3>2. Closed(a.inst, c, a.value)
      <4>1. CASE a = new
        BY <1>1, <1>2, <2>1, <2>2, <2>5, <3>1, <4>1, LedChoice
      <4>2. CASE a \in accepts
        BY <3>1, <4>2 DEF Guarded
      <4> QED BY <2>1, <4>1, <4>2
    <3> QED BY <1>1, <3>2 DEF Closed, Bound
  <2> QED BY <2>9, <2>10
<1> QED BY <1>3, <1>4

\* Every step keeps what coordinators know and what is closed.
LEMMA LedStep == IInv /\ Reported /\ Guarded /\ [Next]_vars => Reported' /\ Guarded'
<1> SUFFICES ASSUME IInv, Reported, Guarded, [Next]_vars PROVE Reported' /\ Guarded'
  OBVIOUS
<1>1. ASSUME UNCHANGED <<acceptorVars, proto, accepts>>,
             \A s \in Replicas : \A q \in inbox'[s] :
               q.type = "PREPARE_OK" => q \in inbox[s]
      PROVE  Reported' /\ Guarded'
  <2>1. UNCHANGED <<acceptor, promises, votes>>
    BY <1>1 DEF acceptorVars
  <2>2. \A s \in Replicas, i \in Instances : acceptor[s][i].proposal \in Nat
    BY RolesTyped DEF AcceptorProtocol
  <2>3. Reported'
    BY <1>1, <2>1, ReportedStays DEF Reported
  <2>4. Guarded'
    BY <1>1, <2>1, <2>2, GuardedStays
  <2> QED BY <2>3, <2>4
<1>2. CASE \E r \in Late : Start(r)
  BY <1>1, <1>2 DEF Start, coordinatorVars
<1>3. ASSUME NEW r \in Proposers, ProposeCommand(r) PROVE Reported' /\ Guarded'
  <2> DEFINE local == {[type |-> "PROPOSE",
                        value |-> [node |-> r, counter |-> proposeCounter[r]],
                        round |-> 0]}
  <2>1. /\ Exchange(r, {}, local, {}) /\ UNCHANGED <<acceptorVars, proto, accepts>>
        /\ r \in Replicas
    BY <1>3, ReplicasAssumption DEF ProposeCommand, coordinatorVars
  <2>2. \A m \in local : m.type = "PROPOSE"
    OBVIOUS
  <2> HIDE DEF local
  <2>3. \A s \in Replicas : \A q \in inbox'[s] : q.type = "PREPARE_OK" => q \in inbox[s]
    BY <2>1, <2>2, ExchangeNew
  <2> QED BY <1>1, <2>1, <2>3
<1>4. ASSUME NEW r \in Replicas, Epoch(r) PROVE Reported' /\ Guarded'
  <2> DEFINE local == {[type |-> "PROPOSE", value |-> v, round |-> ticks'[r]] :
                         v \in unsentValues[r]}
  <2>1. Exchange(r, {}, local, {}) /\ UNCHANGED <<acceptorVars, proto, accepts>>
    BY <1>4 DEF Epoch, coordinatorVars
  <2>2. \A m \in local : m.type = "PROPOSE"
    OBVIOUS
  <2> HIDE DEF local
  <2>3. \A s \in Replicas : \A q \in inbox'[s] : q.type = "PREPARE_OK" => q \in inbox[s]
    BY <2>1, <2>2, ExchangeNew
  <2> QED BY <1>1, <2>1, <2>3
<1>5. ASSUME NEW r \in Replicas, HandlePropose(r) PROVE Reported' /\ Guarded'
  BY <1>5, LedPropose
<1>6. ASSUME NEW r \in Replicas, HandleByCoordinator(r) PROVE Reported' /\ Guarded'
  <2>1. UNCHANGED acceptorVars
    BY <1>6 DEF HandleByCoordinator
  <2>2. CASE \E p \in Received(r, "PREPARE_OK") : CountPromise(r, p) \/ SendAccept(r, p)
    BY <2>1, <2>2, LedPrepareOK
  <2>3. CASE \/ \E p \in Received(r, "LEARN") : AskForMissing(r, p)
             \/ \E p \in Received(r, "PREPARE_OK") : IgnorePromise(r, p)
             \/ \E p \in Received(r, "PREPARE_REJECT") : HandlePrepareReject(r, p)
    <3>1. /\ UNCHANGED <<proto, accepts>>
          /\ \A s \in Replicas : \A q \in inbox'[s] : q \in inbox[s] \/ q.type = "NOP"
      BY <2>3, OtherCoordinatorSends
    <3> QED BY <1>1, <2>1, <3>1
  <2> QED BY <1>6, <2>2, <2>3 DEF HandleByCoordinator, HandlePrepareOK
<1>7. ASSUME NEW r \in Replicas, HandleByAcceptor(r) PROVE Reported' /\ Guarded'
  BY <1>7, LedPrepare, LedAccept DEF HandleByAcceptor
<1>8. ASSUME NEW r \in Replicas, HandleAcceptOK(r) \/ HandleCommit(r) \/ HandleNop(r)
      PROVE  Reported' /\ Guarded'
  <2>1. /\ UNCHANGED <<acceptorVars, proto, accepts>>
        /\ \A s \in Replicas : \A q \in inbox'[s] :
             q \in inbox[s] \/ q.type \in {"COMMIT", "LEARN"}
    BY <1>8, LearnerSends
  <2> QED BY <1>1, <2>1
<1>9. CASE UNCHANGED vars
  BY <1>1, <1>9 DEF vars, coordinatorVars
<1> QED BY <1>2, <1>3, <1>4, <1>5, <1>6, <1>7, <1>8, <1>9 DEF Next, HandleOperate

\* Nothing is reported, and no ACCEPT sent, at the start.
LEMMA LedInit == Init => Reported /\ Guarded
BY DEF Init, AcceptorInit, CoordinatorInit, Absent, FreshProto, Reported, WellLed, Guarded

\* A value with Q votes meets every quorum that closed its ballot.
LEMMA ChosenIsClosed ==
  ASSUME IInv, 2 * Q > N, NEW v \in votes, NEW x, ChosenIn(v.inst, v.bal, v.value),
         Closed(v.inst, v.bal, x)
  PROVE  v.value = x
<1> DEFINE T == Voters(v.inst, v.bal, v.value)
<1>1. PICK S \in SUBSET Replicas :
        Cardinality(S) >= Q /\ \A s \in S : Bound(s, v.inst, v.bal, x)
  BY DEF Closed
<1>2. IsFiniteSet(Replicas) /\ Cardinality(Replicas) = N
  BY FS_Interval, NAssumption DEF Replicas
<1>3. T \subseteq Replicas /\ Cardinality(T) >= Q
  BY DEF Voters, ChosenIn
<1>4. PICK s : s \in S /\ s \in T
  <2>1. IsFiniteSet(S) /\ IsFiniteSet(T)
    BY <1>2, <1>3, FS_Subset
  <2>2. Cardinality(S) \in Nat /\ Cardinality(T) \in Nat
    BY <2>1, FS_CardinalityType
  <2>3. Cardinality(S) + Cardinality(T) > Cardinality(Replicas)
    <3> HIDE DEF T
    <3> QED BY <1>1, <1>2, <1>3, <2>2, QAssumption, NAssumption
  <2>4. S \cap T # {}
    <3> HIDE DEF T
    <3> QED BY <1>2, <1>3, <2>3, FS_MajoritiesIntersect
  <2> QED BY <2>4
<1> DEFINE w == Vote(s, v.inst, v.bal, v.value)
<1>5. w \in votes
  BY <1>4 DEF Voters, Vote
<1>6. w.acc = s /\ w.inst = v.inst /\ w.bal = v.bal /\ w.value = v.value
  BY DEF Vote
<1> QED BY <1>1, <1>4, <1>5, <1>6 DEF Bound

\* The later of two chosen ballots was led by a quorum that knew the earlier.
LEMMA GuardedChoice ==
  ASSUME IInv, Guarded, 2 * Q > N
  PROVE  OneChosenIfLed
<1> SUFFICES ASSUME AllLed, NEW v \in votes, NEW w \in votes, v.inst = w.inst,
                    ChosenIn(v.inst, v.bal, v.value), ChosenIn(w.inst, w.bal, w.value)
             PROVE  v.value = w.value
  BY DEF OneChosenIfLed, OneChosen
<1>1. v.bal \in Nat /\ w.bal \in Nat
  BY RolesTyped
<1>2. ASSUME NEW x \in votes, NEW y \in votes, x.inst = y.inst, x.bal < y.bal,
             x.bal \in Nat, y.bal \in Nat, ChosenIn(x.inst, x.bal, x.value)
      PROVE  x.value = y.value
  <2>1. PICK a \in accepts : a.inst = y.inst /\ a.bal = y.bal /\ a.value = y.value
    BY IInvParts DEF VotesFaithful
  <2>2. Closed(a.inst, x.bal, a.value)
    BY <1>2, <2>1 DEF Guarded
  <2> QED BY <1>2, <2>1, <2>2, ChosenIsClosed
<1>3. CASE v.bal = w.bal
  BY <1>3, VotesAgree
<1> QED BY <1>1, <1>2, <1>3

\* Among quorums that overlap, the PREPARE_OKs counted for another proposal
\* than the one they answer are the only way to two values for an instance.
THEOREM OneChosenWhileLed == 2 * Q > N => (Spec => []OneChosenIfLed)
<1> SUFFICES ASSUME 2 * Q > N PROVE Spec => []OneChosenIfLed
  OBVIOUS
<1> DEFINE LedInv == IInv /\ Reported /\ Guarded
<1>1. Init => LedInv
  BY IInvInit, LedInit
<1>2. LedInv /\ [Next]_vars => LedInv'
  BY IInvStep, LedStep
<1>3. LedInv => OneChosenIfLed
  BY GuardedChoice
<1> QED BY <1>1, <1>2, <1>3, PTL DEF Spec

=============================================================================
