--------------------------- MODULE LibpaxosProofs ---------------------------
(***************************************************************************)
(* What holds of libpaxos for any number of replicas, any quorum of one to *)
(* N, and any bounds: the types, that a ballot carries one value, that an  *)
(* acceptor keeps what its PREPARE_OKs say of it, and that every committed *)
(* value has a quorum of votes.                                            *)
(*                                                                         *)
(* None of these is inductive alone.  IInv is built in four layers, each   *)
(* of which its lemmas keep with the help of the ones below it:            *)
(*   TypeInv      the types, and a value wherever a number says so         *)
(*   BallotInv    proposal numbers belong to one replica and are used once *)
(*   VoteInv      acceptors against their promises and votes, votes        *)
(*                against the ACCEPTs that were sent                       *)
(*   IInv         learners and packets on their way against the votes      *)
(***************************************************************************)
EXTENDS Libpaxos, FiniteSetTheorems, TLAPS

-----------------------------------------------------------------------------
(* Packets.                                                                *)

\* What a packet of each type carries, for the handlers that read it.
LEMMA PacketFields ==
  ASSUME NEW p \in Packet
  PROVE  /\ p.type = "PROPOSE" => p.value \in Values
         /\ p.type \in {"LEARN", "NOP"} => p.inst \in Instances
         /\ p.type = "PREPARE" => p.bal \in Nat \ {0} /\ p.inst \in Instances
         /\ p.type = "PREPARE_OK" =>
              /\ p.bal \in Nat
              /\ p.value \in Values \cup {NoValue}
              /\ p.inst \in Instances
              /\ p.from \in Replicas
              /\ p.for \in Nat
         /\ p.type = "PREPARE_REJECT" => p.bal \in Nat
         /\ p.type = "ACCEPT" =>
              /\ p.bal \in Nat \ {0}
              /\ p.value \in Values
              /\ p.inst \in Instances
         /\ p.type = "ACCEPT_OK" =>
              /\ p.bal \in Nat \ {0}
              /\ p.value \in Values
              /\ p.inst \in Instances
              /\ p.from \in Replicas
         /\ p.type = "COMMIT" => p.value \in Values /\ p.inst \in Instances
BY DEF Packet

\* The packets that the handlers send are packets.
LEMMA PacketTypes ==
  ASSUME NEW i \in Instances, NEW r \in Replicas, NEW v \in Values,
         NEW b \in Nat \ {0}, NEW c \in Nat, NEW k \in 0 .. MaxEpoch,
         NEW w \in Values \cup {NoValue}
  PROVE  /\ [type |-> "PROPOSE", value |-> v, round |-> k] \in Packet
         /\ [type |-> "LEARN", inst |-> i] \in Packet
         /\ [type |-> "NOP", inst |-> i] \in Packet
         /\ [type |-> "PREPARE", bal |-> b, inst |-> i] \in Packet
         /\ [type |-> "PREPARE_OK", bal |-> c, value |-> w, inst |-> i,
              from |-> r, for |-> b] \in Packet
         /\ [type |-> "PREPARE_REJECT", bal |-> c, inst |-> i, from |-> r,
              for |-> b] \in Packet
         /\ [type |-> "ACCEPT", bal |-> b, value |-> v, inst |-> i] \in Packet
         /\ [type |-> "ACCEPT_OK", bal |-> b, value |-> v, inst |-> i,
              from |-> r] \in Packet
         /\ [type |-> "COMMIT", value |-> v, inst |-> i] \in Packet
BY DEF Packet

\* An exchange of packets keeps every inbox a set of packets.
LEMMA ExchangeType ==
  ASSUME NetTypeOK, NEW r \in Replicas, NEW done, NEW local, NEW out,
         local \subseteq Packet, out \subseteq Packet,
         Exchange(r, done, local, out)
  PROVE  inbox' \in [Replicas -> SUBSET Packet]
BY DEF Exchange, NetTypeOK

\* A packet found after an exchange was there before or has just been sent.
LEMMA ExchangeNew ==
  ASSUME NEW r \in Replicas, NEW done, NEW local, NEW out,
         Exchange(r, done, local, out),
         NEW s \in Replicas, NEW p \in inbox'[s]
  PROVE  p \in inbox[s] \/ p \in local \/ p \in out
BY DEF Exchange

-----------------------------------------------------------------------------
(* Proposal numbers.                                                       *)

\* b is one of the proposal numbers of r.
Mine(r, b) == \E k \in Nat : b = r + k * N

\* No two replicas own one proposal number (newProposalNumber starts at
\* nodepos and adds N).
LEMMA OneOwner ==
  ASSUME NEW r \in Replicas, NEW s \in Replicas, NEW b,
         Mine(r, b), Mine(s, b)
  PROVE  r = s
<1>1. PICK k \in Nat : b = r + k * N
  BY DEF Mine
<1>2. PICK m \in Nat : b = s + m * N
  BY DEF Mine
<1>0. N \in Nat /\ N > 0 /\ r \in 1 .. N /\ s \in 1 .. N
  BY NAssumption DEF Replicas
<1>3. CASE k = m
  BY <1>0, <1>1, <1>2, <1>3
<1>4. CASE k < m
  <2>1. PICK d \in Nat : m = k + 1 + d
    BY <1>4
  <2>2. m * N = k * N + N + d * N
    BY <1>0, <2>1
  <2>3. d * N >= 0 /\ k * N \in Nat /\ d * N \in Nat
    BY <1>0
  <2> QED BY <1>0, <1>1, <1>2, <2>2, <2>3
<1>5. CASE m < k
  <2>1. PICK d \in Nat : k = m + 1 + d
    BY <1>5
  <2>2. k * N = m * N + N + d * N
    BY <1>0, <2>1
  <2>3. d * N >= 0 /\ m * N \in Nat /\ d * N \in Nat
    BY <1>0
  <2> QED BY <1>0, <1>1, <1>2, <2>2, <2>3
<1> QED BY <1>3, <1>4, <1>5

\* newProposalNumber gives a greater number of the same replica, whatever
\* number was rejected before.
LEMMA NextProposalMine ==
  ASSUME NEW r \in Replicas, NEW p \in Nat, NEW high \in Nat, Mine(r, p)
  PROVE  /\ NextProposal(p, high) \in Nat
         /\ NextProposal(p, high) > p
         /\ Mine(r, NextProposal(p, high))
<1>0. N \in Nat /\ N > 0
  BY NAssumption
<1>1. PICK k \in Nat : p = r + k * N
  BY DEF Mine
<1>2. CASE p + N >= high
  <2>1. p + N = r + (k + 1) * N
    BY <1>0, <1>1 DEF Replicas
  <2>2. NextProposal(p, high) = p + N
    BY <1>2 DEF NextProposal
  <2>3. Mine(r, p + N)
    BY <2>1 DEF Mine
  <2> QED BY <1>0, <2>2, <2>3
<1>3. CASE ~(p + N >= high)
  <2> DEFINE d == (high - p - 1) \div N
  <2>1. d \in Nat
    BY <1>0, <1>3
  <2>2. NextProposal(p, high) = p + (1 + d) * N
    BY <1>3 DEF NextProposal
  <2> HIDE DEF d
  <2>3. (1 + d) * N = N + d * N /\ d * N \in Nat
    BY <1>0, <2>1
  <2>4. p + (1 + d) * N = r + (k + (1 + d)) * N
    BY <1>0, <1>1, <2>1 DEF Replicas
  <2>5. k + (1 + d) \in Nat
    BY <2>1
  <2>6. Mine(r, p + (1 + d) * N)
    BY <2>4, <2>5 DEF Mine
  <2> QED BY <1>0, <2>2, <2>3, <2>6
<1> QED BY <1>2, <1>3
-----------------------------------------------------------------------------
(* Types.  A value is present wherever a number says that there is one.    *)

ValuesPresent ==
  /\ \A r \in Replicas, i \in Instances :
       /\ acceptor[r][i].proposalAccepted > 0 => acceptor[r][i].value \in Values
       /\ proto[r][i].proposal # 0 => proto[r][i].pvalue \in Values
       /\ proto[r][i].aproposal > 0 => proto[r][i].avalue \in Values
       /\ learner[r][i].commit => learner[r][i].value \in Values
  /\ \A r \in Replicas : \A p \in inbox[r] :
       p.type = "PREPARE_OK" /\ p.bal > 0 => p.value \in Values

TypeInv == TypeOK /\ ValuesPresent

\* The types, and the values that go with numbers, at the start.
LEMMA TypeInvInit == Init => TypeInv
<1> SUFFICES ASSUME Init PROVE TypeInv
  OBVIOUS
<1> USE DEF Init
<1>1. NetTypeOK
  BY ReplicasAssumption DEF NetTypeOK
<1>2. AcceptorTypeOK
  BY DEF AcceptorInit, AcceptorTypeOK, AcceptorProtocol
<1>3. CoordinatorTypeOK
  BY BoundsAssumption, NAssumption
  DEF CoordinatorInit, CoordinatorTypeOK, CoordinatorProtocol, Absent,
      FreshProto, Replicas
<1>4. LearnerTypeOK
  BY DEF LearnerInit, LearnerTypeOK, LearnerProtocol, NoVotes
<1>5. TypeOK
  BY <1>1, <1>2, <1>3, <1>4, BoundsAssumption DEF TypeOK
<1>6. ValuesPresent
  BY DEF ValuesPresent, AcceptorInit, CoordinatorInit, Absent, FreshProto,
         LearnerInit
<1> QED BY <1>5, <1>6 DEF TypeInv

\* The parts of the type invariant that a handler leaves alone.
LEMMA Frame ==
  /\ AcceptorTypeOK /\ UNCHANGED acceptorVars => AcceptorTypeOK'
  /\ CoordinatorTypeOK /\ UNCHANGED coordinatorVars => CoordinatorTypeOK'
  /\ LearnerTypeOK /\ UNCHANGED learner => LearnerTypeOK'
BY DEF AcceptorTypeOK, acceptorVars, CoordinatorTypeOK, coordinatorVars,
       LearnerTypeOK

\* Start keeps the types.
LEMMA TypeStart ==
  ASSUME TypeInv, NEW r \in Late, Start(r)
  PROVE  TypeInv'
<1> USE DEF Start
<1>1. NetTypeOK'
  BY ReplicasAssumption DEF TypeInv, TypeOK, NetTypeOK
<1>2. TypeOK'
  BY <1>1, Frame DEF TypeInv, TypeOK, execVars, proposeVars
<1>3. ValuesPresent'
  BY DEF TypeInv, ValuesPresent, acceptorVars, coordinatorVars
<1> QED BY <1>2, <1>3 DEF TypeInv

\* The PROPOSE of a command carries a value with the counter's number.
LEMMA TypeProposeCommand ==
  ASSUME TypeInv, NEW r \in Proposers, ProposeCommand(r)
  PROVE  TypeInv'
<1> DEFINE v == [node |-> r, counter |-> proposeCounter[r]]
           local == {[type |-> "PROPOSE", value |-> v, round |-> 0]}
<1>0. r \in Replicas
  BY ReplicasAssumption
<1>1. v \in Values /\ proposeCounter' \in [Replicas -> 0 .. MaxPropose]
  BY <1>0, BoundsAssumption DEF TypeInv, TypeOK, ProposeCommand, Values
<1>2. local \subseteq Packet
  BY <1>1, BoundsAssumption DEF Packet
<1>3. Exchange(r, {}, local, {}) /\ NetTypeOK
  BY DEF ProposeCommand, TypeInv, TypeOK
<1>4. NetTypeOK'
  <2> HIDE DEF local
  <2> QED BY <1>0, <1>2, <1>3, ExchangeType DEF NetTypeOK, ProposeCommand
<1>5. TypeOK'
  BY <1>1, <1>4, Frame DEF TypeInv, TypeOK, ProposeCommand, execVars
<1>6. ValuesPresent'
  BY <1>0, <1>3, ExchangeNew
  DEF TypeInv, ValuesPresent, ProposeCommand, acceptorVars, coordinatorVars
<1> QED BY <1>5, <1>6 DEF TypeInv

\* EPOCH proposes values that are there already.
LEMMA TypeEpoch ==
  ASSUME TypeInv, NEW r \in Replicas, Epoch(r)
  PROVE  TypeInv'
<1> DEFINE local == {[type |-> "PROPOSE", value |-> v, round |-> ticks'[r]] :
                       v \in unsentValues[r]}
<1>1. ticks' \in [Replicas -> 0 .. MaxEpoch]
  BY BoundsAssumption DEF TypeInv, TypeOK, Epoch
<1>2. local \subseteq Packet
  BY <1>1 DEF Packet, TypeInv, TypeOK
<1>3. Exchange(r, {}, local, {}) /\ NetTypeOK
  BY DEF Epoch, TypeInv, TypeOK
<1>4. NetTypeOK'
  <2> HIDE DEF local
  <2> QED BY <1>2, <1>3, ExchangeType DEF NetTypeOK, Epoch
<1>5. TypeOK'
  BY <1>1, <1>4, Frame DEF TypeInv, TypeOK, Epoch, execVars
<1>6. ValuesPresent'
  BY <1>3, ExchangeNew
  DEF TypeInv, ValuesPresent, Epoch, acceptorVars, coordinatorVars
<1> QED BY <1>5, <1>6 DEF TypeInv

-----------------------------------------------------------------------------
(* Types: the packets that the coordinator acts on.                        *)

\* A PROPOSE opens a protocol record with the replica's next number.
LEMMA TypePropose ==
  ASSUME TypeInv, NEW r \in Replicas, NEW p \in Received(r, "PROPOSE"),
         Mine(r, nextproposal[r]), Propose(r, p),
         unsentValues' = [unsentValues EXCEPT ![r] = @ \cup {p.value}],
         UNCHANGED <<up, acceptorVars, learner, execVars, proposeCounter,
                     ticks>>
  PROVE  TypeInv'
<1> DEFINE b == nextproposal[r]
           i == instance[r] + 1
           out == {[type |-> "PREPARE", bal |-> b, inst |-> i]}
<1>1. p \in Packet /\ p.type = "PROPOSE" /\ p.value \in Values
  BY PacketFields DEF Received, TypeInv, TypeOK, NetTypeOK
<1>2. b \in Nat \ {0} /\ i \in Instances /\ highproposal[r] \in Nat
  BY DEF TypeInv, TypeOK, CoordinatorTypeOK, Propose
<1>3. out \subseteq Packet
  BY <1>2 DEF Packet
<1>4. Exchange(r, {p}, {}, out) /\ NetTypeOK
  BY DEF Propose, TypeInv, TypeOK
<1>5. NetTypeOK'
  <2> HIDE DEF out
  <2> QED BY <1>3, <1>4, ExchangeType DEF NetTypeOK
<1>6. CoordinatorTypeOK'
  <2>1. FreshProto(p.value, b) \in CoordinatorProtocol
    BY <1>1, <1>2 DEF FreshProto, CoordinatorProtocol
  <2>2. proto' \in [Replicas -> [Instances -> CoordinatorProtocol]]
    BY <1>2, <2>1 DEF TypeInv, TypeOK, CoordinatorTypeOK, Propose
  <2>3. instance' \in [Replicas -> 0 .. MaxInstance]
    BY <1>2, BoundsAssumption
    DEF TypeInv, TypeOK, CoordinatorTypeOK, Propose, Instances
  <2>4. nextproposal' \in [Replicas -> Nat \ {0}]
    <3>1. NextProposal(b, highproposal[r]) \in Nat \ {0}
      BY <1>2, NextProposalMine
    <3> QED BY <3>1 DEF TypeInv, TypeOK, CoordinatorTypeOK, Propose
  <2> QED BY <2>2, <2>3, <2>4
          DEF TypeInv, TypeOK, CoordinatorTypeOK, Propose
<1>7. TypeOK'
  <2>1. unsentValues' \in [Replicas -> SUBSET Values]
    BY <1>1 DEF TypeInv, TypeOK
  <2> QED BY <1>5, <1>6, <2>1, Frame DEF TypeInv, TypeOK, execVars
<1>8. ValuesPresent'
  <2>1. ASSUME NEW s \in Replicas, NEW j \in Instances
        PROVE  /\ proto'[s][j].proposal # 0 => proto'[s][j].pvalue \in Values
               /\ proto'[s][j].aproposal > 0 => proto'[s][j].avalue \in Values
    <3>1. proto'[s][j] \in {proto[s][j], FreshProto(p.value, b)}
      BY DEF TypeInv, TypeOK, CoordinatorTypeOK, Propose
    <3> QED BY <1>1, <3>1 DEF TypeInv, ValuesPresent, FreshProto
  <2>2. ASSUME NEW s \in Replicas, NEW q \in inbox'[s],
               q.type = "PREPARE_OK", q.bal > 0
        PROVE  q.value \in Values
    BY <1>4, <2>2, ExchangeNew DEF TypeInv, ValuesPresent
  <2> QED BY <2>1, <2>2 DEF TypeInv, ValuesPresent, acceptorVars
<1> QED BY <1>7, <1>8 DEF TypeInv

\* What counting a PREPARE_OK leaves in the protocol record.
LEMMA CountedType ==
  ASSUME TypeInv, NEW r \in Replicas, NEW p \in Received(r, "PREPARE_OK")
  PROVE  LET cp == Counted(proto[r][p.inst], p) IN
         /\ p.inst \in Instances
         /\ cp \in CoordinatorProtocol
         /\ cp.proposal = proto[r][p.inst].proposal
         /\ cp.nvalue = proto[r][p.inst].nvalue
         /\ cp.proposal # 0 => cp.pvalue \in Values
         /\ cp.aproposal > 0 => cp.avalue \in Values
         /\ cp.proposal # 0 => Chosen(cp) \in Values
<1> DEFINE old == proto[r][p.inst]
           cp == Counted(old, p)
<1>1. /\ p.bal \in Nat /\ p.value \in Values \cup {NoValue}
      /\ p.inst \in Instances /\ p.from \in Replicas /\ p.for \in Nat
      /\ p.bal > 0 => p.value \in Values
  BY PacketFields DEF Received, TypeInv, TypeOK, NetTypeOK, ValuesPresent
<1>2. old \in CoordinatorProtocol
  BY <1>1 DEF TypeInv, TypeOK, CoordinatorTypeOK
<1>3. /\ old.proposal # 0 => old.pvalue \in Values
      /\ old.aproposal > 0 => old.avalue \in Values
  BY <1>1 DEF TypeInv, ValuesPresent
<1> HIDE DEF old
<1>4. /\ cp.pvalue = old.pvalue
      /\ cp.aproposal = IF p.bal > old.aproposal THEN p.bal
                                                 ELSE old.aproposal
      /\ cp.avalue = IF p.bal > old.aproposal THEN p.value ELSE old.avalue
      /\ cp.nvalue = old.nvalue
      /\ cp.proposal = old.proposal
  BY <1>2 DEF Counted, CoordinatorProtocol
<1>5. cp \in CoordinatorProtocol
  <2>1. /\ cp.aproposal \in Nat
        /\ cp.avalue \in Values \cup {NoValue}
        /\ cp.responses = old.responses \cup {p.from}
        /\ cp.answered = old.answered \cup {p.for}
    BY <1>1, <1>2 DEF Counted, CoordinatorProtocol
  <2> QED BY <1>1, <1>2, <2>1 DEF Counted, CoordinatorProtocol
<1>6. cp.aproposal > 0 => cp.avalue \in Values
  BY <1>1, <1>2, <1>3, <1>4 DEF CoordinatorProtocol
<1>7. cp.proposal # 0 => Chosen(cp) \in Values
  BY <1>3, <1>4, <1>6 DEF Chosen
<1> QED BY <1>1, <1>3, <1>4, <1>5, <1>6, <1>7 DEF old

\* CountPromise and SendAccept: the record that replaces r's for p.inst.
LEMMA TypeNewProto ==
  ASSUME TypeInv, NEW r \in Replicas, NEW i \in Instances,
         NEW cp \in CoordinatorProtocol,
         cp.proposal # 0 => cp.pvalue \in Values,
         cp.aproposal > 0 => cp.avalue \in Values,
         proto' = [proto EXCEPT ![r][i] = cp],
         accepts' \subseteq [inst : Instances, bal : Nat \ {0},
                             value : Values, answered : SUBSET Nat],
         UNCHANGED <<instance, nextproposal, highproposal, up, acceptorVars,
                     learner, execVars, proposeVars>>,
         inbox' \in [Replicas -> SUBSET Packet],
         \A s \in Replicas : \A q \in inbox'[s] :
           q \in inbox[s] \/ q.type = "ACCEPT"
  PROVE  TypeInv'
<1>1. proto' \in [Replicas -> [Instances -> CoordinatorProtocol]]
  BY DEF TypeInv, TypeOK, CoordinatorTypeOK
<1>2. CoordinatorTypeOK'
  BY <1>1 DEF TypeInv, TypeOK, CoordinatorTypeOK
<1>3. TypeOK'
  BY <1>2, Frame DEF TypeInv, TypeOK, NetTypeOK, execVars, proposeVars
<1>4. ASSUME NEW s \in Replicas, NEW j \in Instances
      PROVE  /\ proto'[s][j].proposal # 0 => proto'[s][j].pvalue \in Values
             /\ proto'[s][j].aproposal > 0 => proto'[s][j].avalue \in Values
  <2>1. proto'[s][j] \in {proto[s][j], cp}
    BY DEF TypeInv, TypeOK, CoordinatorTypeOK
  <2> QED BY <2>1 DEF TypeInv, ValuesPresent
<1>5. ASSUME NEW s \in Replicas, NEW q \in inbox'[s],
             q.type = "PREPARE_OK", q.bal > 0
      PROVE  q.value \in Values
  BY <1>5 DEF TypeInv, ValuesPresent
<1> QED BY <1>3, <1>4, <1>5 DEF TypeInv, ValuesPresent, acceptorVars

\* Counting a PREPARE_OK short of a quorum keeps the types.
LEMMA TypeCountPromise ==
  ASSUME TypeInv, NEW r \in Replicas, NEW p \in Received(r, "PREPARE_OK"),
         CountPromise(r, p),
         UNCHANGED <<up, acceptorVars, learner, execVars, proposeVars>>
  PROVE  TypeInv'
<1> DEFINE cp == Counted(proto[r][p.inst], p)
<1>1. /\ p.inst \in Instances /\ cp \in CoordinatorProtocol
      /\ cp.proposal # 0 => cp.pvalue \in Values
      /\ cp.aproposal > 0 => cp.avalue \in Values
  BY CountedType
<1>2. /\ proto' = [proto EXCEPT ![r][p.inst] = cp]
      /\ Exchange(r, {p}, {}, {})
      /\ UNCHANGED <<instance, nextproposal, highproposal, accepts>>
  BY DEF CountPromise
<1> HIDE DEF cp
<1>3. inbox' \in [Replicas -> SUBSET Packet]
  BY <1>2, ExchangeType DEF TypeInv, TypeOK
<1>4. \A s \in Replicas : \A q \in inbox'[s] : q \in inbox[s]
  BY <1>2, ExchangeNew
<1> QED BY <1>1, <1>2, <1>3, <1>4, TypeNewProto
        DEF TypeInv, TypeOK, CoordinatorTypeOK

\* The ACCEPT carries a value, reported or own.
LEMMA TypeSendAccept ==
  ASSUME TypeInv, NEW r \in Replicas, NEW p \in Received(r, "PREPARE_OK"),
         SendAccept(r, p),
         UNCHANGED <<up, acceptorVars, learner, execVars, proposeVars>>
  PROVE  TypeInv'
<1> DEFINE cp == Counted(proto[r][p.inst], p)
           np == [cp EXCEPT !.nvalue = Chosen(cp)]
           m == [type |-> "ACCEPT", bal |-> cp.proposal,
                 value |-> Chosen(cp), inst |-> p.inst]
           a == [inst |-> p.inst, bal |-> cp.proposal,
                 value |-> Chosen(cp), answered |-> cp.answered]
<1>1. /\ p.inst \in Instances /\ cp \in CoordinatorProtocol
      /\ cp.proposal # 0 => cp.pvalue \in Values
      /\ cp.aproposal > 0 => cp.avalue \in Values
      /\ cp.proposal # 0 /\ Chosen(cp) \in Values
  BY CountedType DEF SendAccept, Awaited
<1>2. /\ proto' = [proto EXCEPT ![r][p.inst] = np]
      /\ accepts' = accepts \cup {a}
      /\ Exchange(r, {p}, {}, {m})
      /\ UNCHANGED <<instance, nextproposal, highproposal>>
  BY DEF SendAccept
<1> HIDE DEF cp
<1>3. m \in Packet /\ m.type = "ACCEPT"
  BY <1>1, PacketTypes DEF CoordinatorProtocol, Packet
<1>4. inbox' \in [Replicas -> SUBSET Packet]
  BY <1>2, <1>3, ExchangeType DEF TypeInv, TypeOK
<1>5. \A s \in Replicas : \A q \in inbox'[s] :
        q \in inbox[s] \/ q.type = "ACCEPT"
  BY <1>2, <1>3, ExchangeNew
<1>6. /\ np \in CoordinatorProtocol
      /\ np.proposal # 0 => np.pvalue \in Values
      /\ np.aproposal > 0 => np.avalue \in Values
  BY <1>1 DEF CoordinatorProtocol
<1>7. accepts' \subseteq [inst : Instances, bal : Nat \ {0},
                          value : Values, answered : SUBSET Nat]
  BY <1>1, <1>2 DEF TypeInv, TypeOK, CoordinatorTypeOK, CoordinatorProtocol
<1> HIDE DEF np
<1> QED BY <1>1, <1>2, <1>4, <1>5, <1>6, <1>7, TypeNewProto

\* LEARN, PREPARE_REJECT and late PREPARE_OKs keep the types.
LEMMA TypeOtherCoordinator ==
  ASSUME TypeInv, NEW r \in Replicas,
         \/ \E p \in Received(r, "LEARN") : AskForMissing(r, p)
         \/ \E p \in Received(r, "PREPARE_OK") : IgnorePromise(r, p)
         \/ \E p \in Received(r, "PREPARE_REJECT") : HandlePrepareReject(r, p),
         UNCHANGED <<up, acceptorVars, learner, execVars, proposeVars>>
  PROVE  TypeInv'
<1>1. PICK out \in SUBSET Packet, p \in inbox[r] :
        /\ Exchange(r, {p}, {}, out)
        /\ \A m \in out : m.type = "NOP"
        /\ UNCHANGED <<proto, instance, nextproposal, accepts>>
        /\ highproposal' \in [Replicas -> Nat]
  <2>0. highproposal \in [Replicas -> Nat]
    BY DEF TypeInv, TypeOK, CoordinatorTypeOK
  <2>1. CASE \E p \in Received(r, "LEARN") : AskForMissing(r, p)
    <3>1. PICK p \in Received(r, "LEARN") : AskForMissing(r, p)
      BY <2>1
    <3> DEFINE m == [type |-> "NOP", inst |-> p.inst]
    <3>2. m \in Packet /\ m.type = "NOP" /\ p \in inbox[r]
      BY PacketFields DEF Received, Packet, TypeInv, TypeOK, NetTypeOK
    <3>3. Exchange(r, {p}, {}, {m}) /\ UNCHANGED coordinatorVars
      BY <3>1 DEF AskForMissing
    <3> HIDE DEF m
    <3>4. {m} \in SUBSET Packet /\ \A x \in {m} : x.type = "NOP"
      BY <3>2
    <3> QED BY <2>0, <3>2, <3>3, <3>4 DEF coordinatorVars
  <2>2. CASE \E p \in Received(r, "PREPARE_OK") : IgnorePromise(r, p)
    <3>1. PICK p \in Received(r, "PREPARE_OK") : IgnorePromise(r, p)
      BY <2>2
    <3>2. Exchange(r, {p}, {}, {}) /\ p \in inbox[r]
      BY <3>1 DEF IgnorePromise, Received
    <3>3. UNCHANGED coordinatorVars /\ {} \in SUBSET Packet
      BY <3>1 DEF IgnorePromise
    <3> QED BY <2>0, <3>2, <3>3 DEF coordinatorVars
  <2>3. CASE \E p \in Received(r, "PREPARE_REJECT") :
               HandlePrepareReject(r, p)
    <3>1. PICK p \in Received(r, "PREPARE_REJECT") :
            HandlePrepareReject(r, p)
      BY <2>3
    <3>2. Exchange(r, {p}, {}, {}) /\ p \in inbox[r] /\ p.bal \in Nat
      BY <3>1, PacketFields
      DEF HandlePrepareReject, Received, TypeInv, TypeOK, NetTypeOK
    <3>3. /\ UNCHANGED <<proto, instance, nextproposal, accepts>>
          /\ highproposal' \in [Replicas -> Nat]
          /\ {} \in SUBSET Packet
      BY <2>0, <3>1, <3>2 DEF HandlePrepareReject
    <3> QED BY <3>2, <3>3
  <2> QED BY <2>1, <2>2, <2>3
<1>2. inbox' \in [Replicas -> SUBSET Packet]
  BY <1>1, ExchangeType DEF TypeInv, TypeOK
<1>3. CoordinatorTypeOK'
  BY <1>1 DEF TypeInv, TypeOK, CoordinatorTypeOK
<1>4. TypeOK'
  BY <1>2, <1>3, Frame DEF TypeInv, TypeOK, NetTypeOK, execVars, proposeVars
<1>5. ASSUME NEW s \in Replicas, NEW q \in inbox'[s],
             q.type = "PREPARE_OK", q.bal > 0
      PROVE  q.value \in Values
  BY <1>1, <1>5, ExchangeNew DEF TypeInv, ValuesPresent
<1> QED BY <1>1, <1>4, <1>5 DEF TypeInv, ValuesPresent, acceptorVars

-----------------------------------------------------------------------------
(* Types: the packets that the acceptor acts on.                           *)

\* PREPARE and ACCEPT keep the types, whichever way they are answered.
LEMMA TypeAcceptor ==
  ASSUME TypeInv, NEW r \in Replicas, HandleByAcceptor(r)
  PROVE  TypeInv'
<1>0. UNCHANGED <<up, coordinatorVars, learner, execVars, proposeVars>>
  BY DEF HandleByAcceptor
<1>1. CASE \E p \in Received(r, "PREPARE") : HandlePrepare(r, p)
  <2>1. PICK p \in Received(r, "PREPARE") : HandlePrepare(r, p)
    BY <1>1
  <2>2. p.bal \in Nat \ {0} /\ p.inst \in Instances
    BY PacketFields DEF Received, TypeInv, TypeOK, NetTypeOK
  <2> DEFINE ap == acceptor[r][p.inst]
             ok == [type |-> "PREPARE_OK", bal |-> ap.proposalAccepted,
                    value |-> ap.value, inst |-> p.inst, from |-> r,
                    for |-> p.bal]
             no == [type |-> "PREPARE_REJECT", bal |-> ap.proposal,
                    inst |-> p.inst, from |-> r, for |-> p.bal]
  <2>3. /\ ap \in AcceptorProtocol
        /\ ap.proposalAccepted > 0 => ap.value \in Values
    BY <2>2 DEF TypeInv, TypeOK, AcceptorTypeOK, ValuesPresent
  <2>4. ok \in Packet /\ no \in Packet
    BY <2>2, <2>3 DEF Packet, AcceptorProtocol
  <2>5. CASE Promise(r, p)
    <3>1. /\ acceptor' = [acceptor EXCEPT ![r][p.inst].proposal = p.bal]
          /\ promises' = promises \cup
               {[acc |-> r, inst |-> p.inst, bal |-> p.bal,
                 prior |-> ap.proposalAccepted]}
          /\ Exchange(r, {p}, {}, {ok}) /\ UNCHANGED votes
      BY <2>5 DEF Promise
    <3>2. AcceptorTypeOK'
      <4>1. acceptor' \in [Replicas -> [Instances -> AcceptorProtocol]]
        <5>1. [ap EXCEPT !.proposal = p.bal] \in AcceptorProtocol
          BY <2>2, <2>3 DEF AcceptorProtocol
        <5>2. acceptor' = [acceptor EXCEPT ![r][p.inst] =
                             [ap EXCEPT !.proposal = p.bal]]
          BY <3>1
        <5> HIDE DEF ap
        <5> QED BY <2>2, <5>1, <5>2 DEF TypeInv, TypeOK, AcceptorTypeOK
      <4>2. promises' \subseteq [acc : Replicas, inst : Instances,
                                 bal : Nat \ {0}, prior : Nat]
        BY <2>2, <2>3, <3>1
        DEF TypeInv, TypeOK, AcceptorTypeOK, AcceptorProtocol
      <4> QED BY <3>1, <4>1, <4>2 DEF TypeInv, TypeOK, AcceptorTypeOK
    <3>3. \A s \in Replicas, i \in Instances :
            acceptor'[s][i].proposalAccepted > 0
              => acceptor'[s][i].value \in Values
      BY <2>2, <3>1
      DEF TypeInv, TypeOK, AcceptorTypeOK, AcceptorProtocol, ValuesPresent
    <3> HIDE DEF ok
    <3>4. inbox' \in [Replicas -> SUBSET Packet]
      BY <2>4, <3>1, ExchangeType DEF TypeInv, TypeOK
    <3>5. TypeOK'
      BY <1>0, <3>2, <3>4, Frame
      DEF TypeInv, TypeOK, NetTypeOK, execVars, proposeVars
    <3>6. ASSUME NEW s \in Replicas, NEW q \in inbox'[s],
                 q.type = "PREPARE_OK", q.bal > 0
          PROVE  q.value \in Values
      <4>1. q \in inbox[s] \/ q = ok
        BY <3>1, ExchangeNew
      <4> QED BY <2>3, <3>6, <4>1 DEF TypeInv, ValuesPresent, ok
    <3> QED BY <1>0, <3>3, <3>5, <3>6
            DEF TypeInv, ValuesPresent, coordinatorVars
  <2>6. CASE Reject(r, p)
    <3>1. Exchange(r, {p}, {}, {no}) /\ UNCHANGED acceptorVars
      BY <2>6 DEF Reject
    <3>2. no.type = "PREPARE_REJECT"
      OBVIOUS
    <3> HIDE DEF no
    <3>3. inbox' \in [Replicas -> SUBSET Packet]
      BY <2>4, <3>1, ExchangeType DEF TypeInv, TypeOK
    <3>4. TypeOK'
      BY <1>0, <3>1, <3>3, Frame
      DEF TypeInv, TypeOK, NetTypeOK, execVars, proposeVars
    <3>5. ASSUME NEW s \in Replicas, NEW q \in inbox'[s],
                 q.type = "PREPARE_OK", q.bal > 0
          PROVE  q.value \in Values
      BY <3>1, <3>2, <3>5, ExchangeNew DEF TypeInv, ValuesPresent
    <3> QED BY <1>0, <3>1, <3>4, <3>5
            DEF TypeInv, ValuesPresent, coordinatorVars, acceptorVars
  <2> QED BY <2>1, <2>5, <2>6 DEF HandlePrepare
<1>2. CASE \E p \in Received(r, "ACCEPT") : HandleAccept(r, p)
  <2>1. PICK p \in Received(r, "ACCEPT") : HandleAccept(r, p)
    BY <1>2
  <2>2. /\ p.bal \in Nat \ {0} /\ p.inst \in Instances
        /\ p.value \in Values
    BY PacketFields DEF Received, TypeInv, TypeOK, NetTypeOK
  <2> DEFINE ok == [type |-> "ACCEPT_OK", bal |-> p.bal, value |-> p.value,
                    inst |-> p.inst, from |-> r]
  <2>3. ok \in Packet /\ ok.type = "ACCEPT_OK"
    BY <2>2 DEF Packet
  <2>4. PICK out \in {{}, {ok}} : Exchange(r, {p}, {}, out)
    BY <2>1 DEF HandleAccept, Accept, Ignore
  <2>5. /\ AcceptorTypeOK'
        /\ \A s \in Replicas, i \in Instances :
             acceptor'[s][i].proposalAccepted > 0
               => acceptor'[s][i].value \in Values
    <3>1. CASE Accept(r, p)
      <4>1. /\ acceptor' = [acceptor EXCEPT ![r][p.inst] =
                  [proposal |-> p.bal, value |-> p.value,
                   proposalAccepted |-> p.bal]]
            /\ votes' = votes \cup {[acc |-> r, inst |-> p.inst,
                                     bal |-> p.bal, value |-> p.value]}
            /\ UNCHANGED promises
        BY <3>1 DEF Accept
      <4> QED BY <2>2, <4>1
              DEF TypeInv, TypeOK, AcceptorTypeOK, AcceptorProtocol,
                  ValuesPresent
    <3>2. CASE Ignore(r, p)
      BY <3>2, Frame DEF Ignore, TypeInv, TypeOK, ValuesPresent, acceptorVars
    <3> QED BY <2>1, <3>1, <3>2 DEF HandleAccept
  <2> HIDE DEF ok
  <2>6. inbox' \in [Replicas -> SUBSET Packet]
    BY <2>3, <2>4, ExchangeType DEF TypeInv, TypeOK
  <2>7. TypeOK'
    BY <1>0, <2>5, <2>6, Frame
    DEF TypeInv, TypeOK, NetTypeOK, execVars, proposeVars
  <2>8. ASSUME NEW s \in Replicas, NEW q \in inbox'[s],
               q.type = "PREPARE_OK", q.bal > 0
        PROVE  q.value \in Values
    BY <2>3, <2>4, <2>8, ExchangeNew DEF TypeInv, ValuesPresent
  <2> QED BY <1>0, <2>5, <2>7, <2>8 DEF TypeInv, ValuesPresent, coordinatorVars
<1> QED BY <1>1, <1>2 DEF HandleByAcceptor

-----------------------------------------------------------------------------
(* Types: the packets that the learner acts on.                            *)

\* Learner state that a handler may leave: typed, and no commit without a
\* value.
LearnerFine(protos) ==
  /\ protos \in [Instances -> LearnerProtocol]
  /\ \A i \in Instances : protos[i].commit => protos[i].value \in Values

\* The learner of a state within the types is fine.
LEMMA LearnerFineNow ==
  ASSUME TypeInv, NEW r \in Replicas
  PROVE  LearnerFine(learner[r])
BY DEF TypeInv, TypeOK, LearnerTypeOK, ValuesPresent, LearnerFine

\* Counting a vote leaves a learner record.
LEMMA WithVoteType ==
  ASSUME NEW lp \in LearnerProtocol, NEW p,
         p.bal \in Nat, p.value \in Values, p.from \in Replicas
  PROVE  /\ WithVote(lp, p) \in LearnerProtocol
         /\ WithVote(lp, p).commit = lp.commit
         /\ WithVote(lp, p).value = lp.value
<1> DEFINE at == AtBallot(lp, p.bal)
<1>1. /\ at \in LearnerProtocol
      /\ at.commit = lp.commit
      /\ at.value = lp.value
  BY DEF AtBallot, LearnerProtocol, NoVotes
<1>2. WithVote(lp, p) = [at EXCEPT !.votes[p.from] = p.value]
  BY DEF WithVote
<1> HIDE DEF at
<1> QED BY <1>1, <1>2 DEF LearnerProtocol

\* Committing a value leaves a learner record.
LEMMA CommittedType ==
  ASSUME NEW lp \in LearnerProtocol, NEW v \in Values
  PROVE  /\ Committed(lp, v) \in LearnerProtocol
         /\ Committed(lp, v).value = v
         /\ Committed(lp, v).commit = TRUE
         /\ Committed(lp, v).votes = lp.votes
         /\ Committed(lp, v).proposal = lp.proposal
BY DEF Committed, LearnerProtocol

\* All that handleOperate does once a value is learnt keeps the types.
LEMMA TypeLearnt ==
  ASSUME TypeInv, NEW r \in Replicas, NEW p, NEW i \in Instances,
         NEW v \in Values, NEW protos, LearnerFine(protos),
         NEW out \in SUBSET Packet,
         \A m \in out : m.type # "PREPARE_OK",
         Learnt(r, p, i, v, protos, out)
  PROVE  TypeInv'
<1> DEFINE highest == IF i > highestLearnt[r] THEN i ELSE highestLearnt[r]
<1>1. highest \in 0 .. MaxInstance
  BY BoundsAssumption DEF TypeInv, TypeOK, Instances
<1>2. /\ learner' = [learner EXCEPT ![r] = protos]
      /\ highestLearnt' = [highestLearnt EXCEPT ![r] = highest]
      /\ instance' = [instance EXCEPT ![r] = InstanceAfter(r, i)]
      /\ unsentValues' = [unsentValues EXCEPT ![r] = @ \ {v}]
      /\ UNCHANGED <<up, acceptorVars, proto, nextproposal, highproposal,
                     accepts, proposeCounter, ticks>>
  BY DEF Learnt
<1>3. CoordinatorTypeOK'
  BY <1>2, BoundsAssumption
  DEF TypeInv, TypeOK, CoordinatorTypeOK, InstanceAfter, Instances
<1>4. LearnerTypeOK'
  BY <1>2 DEF TypeInv, TypeOK, LearnerTypeOK, LearnerFine
<1>5. lastCommandExecuted' \in [Replicas -> 0 .. MaxInstance]
  BY <1>1 DEF Learnt, TypeInv, TypeOK
<1>6. PICK local \in SUBSET Packet :
        /\ Exchange(r, {p}, local, out)
        /\ \A m \in local : m.type # "PREPARE_OK"
  <2> DEFINE asks == {[type |-> "LEARN", inst |-> j] :
                        j \in Missing(protos, highest)}
  <2>1. asks \in SUBSET Packet /\ \A m \in asks : m.type # "PREPARE_OK"
    BY <1>1, BoundsAssumption DEF Missing, Packet, Instances
  <2>2. Exchange(r, {p}, {}, out) \/ Exchange(r, {p}, asks, out)
    BY DEF Learnt
  <2> HIDE DEF asks
  <2> QED BY <2>1, <2>2
<1>7. inbox' \in [Replicas -> SUBSET Packet]
  BY <1>6, ExchangeType DEF TypeInv, TypeOK
<1>8. TypeOK'
  BY <1>1, <1>2, <1>3, <1>4, <1>5, <1>7, Frame DEF TypeInv, TypeOK, NetTypeOK
<1>9. ASSUME NEW s \in Replicas, NEW j \in Instances, learner'[s][j].commit
      PROVE  learner'[s][j].value \in Values
  BY <1>2, <1>9 DEF TypeInv, TypeOK, LearnerTypeOK, ValuesPresent, LearnerFine
<1>10. ASSUME NEW s \in Replicas, NEW q \in inbox'[s],
              q.type = "PREPARE_OK", q.bal > 0
       PROVE  q.value \in Values
  BY <1>6, <1>10, ExchangeNew DEF TypeInv, ValuesPresent
<1> QED BY <1>2, <1>8, <1>9, <1>10 DEF TypeInv, ValuesPresent, acceptorVars

\* A packet from which nothing is learnt keeps the types.
LEMMA TypeNothingLearnt ==
  ASSUME TypeInv, NEW r \in Replicas, NEW p, NEW protos,
         LearnerFine(protos), NEW out \in SUBSET Packet,
         \A m \in out : m.type # "PREPARE_OK",
         NothingLearnt(r, p, protos, out)
  PROVE  TypeInv'
<1>1. /\ learner' = [learner EXCEPT ![r] = protos]
      /\ Exchange(r, {p}, {}, out)
      /\ UNCHANGED <<up, acceptorVars, coordinatorVars, execVars,
                     proposeVars>>
  BY DEF NothingLearnt
<1>2. LearnerTypeOK'
  BY <1>1 DEF TypeInv, TypeOK, LearnerTypeOK, LearnerFine
<1>3. inbox' \in [Replicas -> SUBSET Packet]
  BY <1>1, ExchangeType DEF TypeInv, TypeOK
<1>4. TypeOK'
  BY <1>1, <1>2, <1>3, Frame
  DEF TypeInv, TypeOK, NetTypeOK, execVars, proposeVars
<1>5. ASSUME NEW s \in Replicas, NEW j \in Instances, learner'[s][j].commit
      PROVE  learner'[s][j].value \in Values
  BY <1>1, <1>5 DEF TypeInv, TypeOK, LearnerTypeOK, ValuesPresent, LearnerFine
<1>6. ASSUME NEW s \in Replicas, NEW q \in inbox'[s],
             q.type = "PREPARE_OK", q.bal > 0
      PROVE  q.value \in Values
  BY <1>1, <1>6, ExchangeNew DEF TypeInv, ValuesPresent
<1> QED BY <1>1, <1>4, <1>5, <1>6
        DEF TypeInv, ValuesPresent, acceptorVars, coordinatorVars

\* ACCEPT_OK keeps the types, committing or not.
LEMMA TypeAcceptOK ==
  ASSUME TypeInv, NEW r \in Replicas, HandleAcceptOK(r)
  PROVE  TypeInv'
<1>1. PICK p \in Received(r, "ACCEPT_OK") :
        LET lp == learner[r][p.inst]
            With(l) == [learner[r] EXCEPT ![p.inst] = l] IN
        \/ Learnt(r, p, p.inst, p.value,
             With(Committed(WithVote(lp, p), p.value)),
             {[type |-> "COMMIT", value |-> p.value, inst |-> p.inst]})
        \/ NothingLearnt(r, p, With(WithVote(lp, p)), {})
        \/ NothingLearnt(r, p, learner[r], {})
  BY DEF HandleAcceptOK
<1>2. /\ p.bal \in Nat \ {0} /\ p.inst \in Instances
      /\ p.value \in Values /\ p.from \in Replicas
  BY PacketFields DEF Received, TypeInv, TypeOK, NetTypeOK
<1> DEFINE wv == WithVote(learner[r][p.inst], p)
           cv == Committed(wv, p.value)
           m == [type |-> "COMMIT", value |-> p.value, inst |-> p.inst]
<1>3. LearnerFine(learner[r])
  BY LearnerFineNow
<1>4. /\ wv \in LearnerProtocol
      /\ wv.commit = learner[r][p.inst].commit
      /\ wv.value = learner[r][p.inst].value
  BY <1>2, <1>3, WithVoteType DEF LearnerFine
<1> HIDE DEF wv
<1>5. cv \in LearnerProtocol /\ cv.value = p.value
  BY <1>2, <1>4, CommittedType
<1> HIDE DEF cv
<1>6. /\ LearnerFine([learner[r] EXCEPT ![p.inst] = wv])
      /\ LearnerFine([learner[r] EXCEPT ![p.inst] = cv])
  BY <1>2, <1>3, <1>4, <1>5 DEF LearnerFine
<1>7. {m} \in SUBSET Packet /\ \A x \in {m} : x.type # "PREPARE_OK"
  BY <1>2 DEF Packet
<1> HIDE DEF m
<1>8. \/ Learnt(r, p, p.inst, p.value,
            [learner[r] EXCEPT ![p.inst] = cv], {m})
      \/ NothingLearnt(r, p, [learner[r] EXCEPT ![p.inst] = wv], {})
      \/ NothingLearnt(r, p, learner[r], {})
  BY <1>1 DEF wv, cv, m
<1> QED BY <1>2, <1>3, <1>6, <1>7, <1>8, TypeLearnt, TypeNothingLearnt

\* COMMIT keeps the types.
LEMMA TypeCommit ==
  ASSUME TypeInv, NEW r \in Replicas, HandleCommit(r)
  PROVE  TypeInv'
<1>1. PICK p \in Received(r, "COMMIT") :
        \/ Learnt(r, p, p.inst, p.value,
             [learner[r] EXCEPT
                ![p.inst] = Committed(learner[r][p.inst], p.value)], {})
        \/ NothingLearnt(r, p, learner[r], {})
  BY DEF HandleCommit
<1>2. p.inst \in Instances /\ p.value \in Values
  BY PacketFields DEF Received, TypeInv, TypeOK, NetTypeOK
<1>3. LearnerFine(learner[r])
  BY LearnerFineNow
<1> DEFINE cv == Committed(learner[r][p.inst], p.value)
<1>4. cv \in LearnerProtocol /\ cv.value = p.value
  BY <1>2, <1>3, CommittedType DEF LearnerFine
<1>5. LearnerFine([learner[r] EXCEPT ![p.inst] = cv])
  <2> HIDE DEF cv
  <2> QED BY <1>2, <1>3, <1>4 DEF LearnerFine
<1> QED BY <1>1, <1>2, <1>3, <1>5, TypeLearnt, TypeNothingLearnt

\* NOP keeps the types: only committed values are told.
LEMMA TypeNop ==
  ASSUME TypeInv, NEW r \in Replicas, HandleNop(r)
  PROVE  TypeInv'
<1>1. PICK p \in Received(r, "NOP") :
        NothingLearnt(r, p, learner[r],
          {m \in {[type |-> "COMMIT", value |-> learner[r][p.inst].value,
                   inst |-> p.inst]} : learner[r][p.inst].commit})
  BY DEF HandleNop
<1>2. p.inst \in Instances
  BY PacketFields DEF Received, TypeInv, TypeOK, NetTypeOK
<1>3. LearnerFine(learner[r])
  BY LearnerFineNow
<1> DEFINE out == {m \in {[type |-> "COMMIT",
                           value |-> learner[r][p.inst].value,
                           inst |-> p.inst]} : learner[r][p.inst].commit}
<1>4. out \in SUBSET Packet /\ \A m \in out : m.type # "PREPARE_OK"
  BY <1>2, <1>3 DEF Packet, LearnerFine
<1> HIDE DEF out
<1> QED BY <1>1, <1>3, <1>4, TypeNothingLearnt DEF out

-----------------------------------------------------------------------------
(* Proposal numbers are never used twice.                                  *)

ProposalsUnique ==
  /\ \A r \in Replicas : Mine(r, nextproposal[r])
  /\ \A r \in Replicas, i \in Instances :
       proto[r][i].proposal # 0 =>
         Mine(r, proto[r][i].proposal) /\ proto[r][i].proposal < nextproposal[r]
  /\ \A a \in accepts : \E r \in Replicas :
       /\ Mine(r, a.bal)
       /\ a.bal < nextproposal[r]
       /\ proto[r][a.inst].proposal = a.bal =>
            proto[r][a.inst].nvalue # NoValue
  /\ OneValuePerBallot

BallotInv == TypeInv /\ ProposalsUnique

\* Nothing is proposed at the start.
LEMMA BallotInvInit == Init => BallotInv
<1> SUFFICES ASSUME Init PROVE ProposalsUnique
  BY TypeInvInit DEF BallotInv
<1>1. \A r \in Replicas : Mine(r, nextproposal[r])
  <2> SUFFICES ASSUME NEW r \in Replicas PROVE Mine(r, r)
    BY DEF Init, CoordinatorInit
  <2> QED BY NAssumption DEF Mine, Replicas
<1> QED BY <1>1
        DEF Init, CoordinatorInit, ProposalsUnique, Absent, FreshProto,
            OneValuePerBallot

\* Steps that leave the coordinators alone keep proposals unique.
LEMMA BallotUnchanged ==
  ASSUME ProposalsUnique, UNCHANGED <<proto, nextproposal, accepts>>
  PROVE  ProposalsUnique'
BY DEF ProposalsUnique, OneValuePerBallot

\* A new proposal has a number that none had before.
LEMMA BallotPropose ==
  ASSUME BallotInv, NEW r \in Replicas, NEW p \in Received(r, "PROPOSE"),
         Propose(r, p)
  PROVE  ProposalsUnique'
<1> DEFINE b == nextproposal[r]
           next == NextProposal(b, highproposal[r])
           i == instance[r] + 1
<1>1. /\ b \in Nat \ {0} /\ i \in Instances /\ highproposal[r] \in Nat
      /\ nextproposal \in [Replicas -> Nat \ {0}]
      /\ proto \in [Replicas -> [Instances -> CoordinatorProtocol]]
      /\ \A a \in accepts : a.inst \in Instances /\ a.bal \in Nat
  BY DEF BallotInv, TypeInv, TypeOK, CoordinatorTypeOK, Propose
<1>2. Mine(r, b)
  BY DEF BallotInv, ProposalsUnique
<1>3. next \in Nat /\ next > b /\ Mine(r, next)
  BY <1>1, <1>2, NextProposalMine
<1>4. /\ nextproposal' = [nextproposal EXCEPT ![r] = next]
      /\ proto' = [proto EXCEPT ![r][i] = FreshProto(p.value, b)]
      /\ accepts' = accepts
  BY DEF Propose
<1> HIDE DEF next, i
<1>5. ASSUME NEW s \in Replicas
      PROVE  /\ nextproposal'[s] >= nextproposal[s]
             /\ Mine(s, nextproposal'[s])
  BY <1>1, <1>3, <1>4 DEF BallotInv, ProposalsUnique
<1>6. ASSUME NEW s \in Replicas, NEW j \in Instances,
             proto'[s][j].proposal # 0
      PROVE  /\ Mine(s, proto'[s][j].proposal)
             /\ proto'[s][j].proposal < nextproposal'[s]
  <2>1. CASE s = r /\ j = i
    BY <1>1, <1>2, <1>3, <1>4, <2>1 DEF FreshProto
  <2>2. CASE ~(s = r /\ j = i)
    <3>1. proto'[s][j] = proto[s][j]
      BY <1>1, <1>4, <2>2
    <3>2. proto[s][j].proposal \in Nat
      BY <1>1 DEF CoordinatorProtocol
    <3>3. /\ Mine(s, proto[s][j].proposal)
          /\ proto[s][j].proposal < nextproposal[s]
      BY <1>6, <3>1 DEF BallotInv, ProposalsUnique
    <3> QED BY <1>1, <1>3, <1>4, <3>1, <3>2, <3>3
  <2> QED BY <2>1, <2>2
<1>7. ASSUME NEW a \in accepts
      PROVE  \E s \in Replicas :
               /\ Mine(s, a.bal)
               /\ a.bal < nextproposal'[s]
               /\ proto'[s][a.inst].proposal = a.bal =>
                    proto'[s][a.inst].nvalue # NoValue
  <2>1. PICK s \in Replicas :
          /\ Mine(s, a.bal)
          /\ a.bal < nextproposal[s]
          /\ proto[s][a.inst].proposal = a.bal =>
               proto[s][a.inst].nvalue # NoValue
    BY DEF BallotInv, ProposalsUnique
  <2>2. a.bal < nextproposal'[s]
    BY <1>1, <1>3, <1>4, <2>1
  <2>3. CASE s = r /\ a.inst = i
    BY <1>1, <1>4, <2>1, <2>2, <2>3 DEF FreshProto
  <2>4. CASE ~(s = r /\ a.inst = i)
    BY <1>1, <1>4, <2>1, <2>2, <2>4
  <2> QED BY <2>3, <2>4
<1> QED BY <1>4, <1>5, <1>6, <1>7
        DEF BallotInv, ProposalsUnique, OneValuePerBallot

\* The absent value is not a value.
LEMMA NoValueIsNone == NoValue \notin Values
BY DEF NoValue, Values, Replicas

\* Counting a PREPARE_OK changes no proposal and sends no ACCEPT.
LEMMA BallotCountPromise ==
  ASSUME BallotInv, NEW r \in Replicas, NEW p \in Received(r, "PREPARE_OK"),
         CountPromise(r, p)
  PROVE  ProposalsUnique'
<1> DEFINE cp == Counted(proto[r][p.inst], p)
<1>1. /\ p.inst \in Instances
      /\ cp.proposal = proto[r][p.inst].proposal
      /\ cp.nvalue = proto[r][p.inst].nvalue
  BY CountedType DEF BallotInv
<1>2. /\ proto' = [proto EXCEPT ![r][p.inst] = cp]
      /\ UNCHANGED <<nextproposal, accepts>>
  BY DEF CountPromise
<1> HIDE DEF cp
<1>3. proto \in [Replicas -> [Instances -> CoordinatorProtocol]]
  BY DEF BallotInv, TypeInv, TypeOK, CoordinatorTypeOK
<1>4. \A s \in Replicas, j \in Instances :
        /\ proto'[s][j].proposal = proto[s][j].proposal
        /\ proto'[s][j].nvalue = proto[s][j].nvalue
  BY <1>1, <1>2, <1>3
<1>5. \A a \in accepts : a.inst \in Instances
  BY DEF BallotInv, TypeInv, TypeOK, CoordinatorTypeOK
<1> QED BY <1>2, <1>4, <1>5 DEF BallotInv, ProposalsUnique, OneValuePerBallot

\* The ACCEPT for a proposal is sent once, and nobody else has its number.
LEMMA BallotSendAccept ==
  ASSUME BallotInv, NEW r \in Replicas, NEW p \in Received(r, "PREPARE_OK"),
         SendAccept(r, p)
  PROVE  ProposalsUnique'
<1> DEFINE old == proto[r][p.inst]
           cp == Counted(old, p)
           np == [cp EXCEPT !.nvalue = Chosen(cp)]
           new == [inst |-> p.inst, bal |-> cp.proposal,
                   value |-> Chosen(cp), answered |-> cp.answered]
<1>1. /\ p.inst \in Instances
      /\ cp \in CoordinatorProtocol
      /\ cp.proposal = old.proposal
      /\ cp.proposal # 0
      /\ Chosen(cp) \in Values
  BY CountedType DEF BallotInv, SendAccept, Awaited
<1>2. old.nvalue = NoValue
  BY DEF SendAccept, Awaited
<1>3. /\ proto' = [proto EXCEPT ![r][p.inst] = np]
      /\ accepts' = accepts \cup {new}
      /\ nextproposal' = nextproposal
  BY DEF SendAccept
<1> HIDE DEF cp
<1>4. /\ np.proposal = old.proposal
      /\ np.nvalue # NoValue
      /\ new.inst = p.inst /\ new.bal = old.proposal
  BY <1>1, NoValueIsNone DEF CoordinatorProtocol
<1> HIDE DEF np, new
<1>5. proto \in [Replicas -> [Instances -> CoordinatorProtocol]]
  BY DEF BallotInv, TypeInv, TypeOK, CoordinatorTypeOK
<1>6. /\ \A s \in Replicas, j \in Instances :
           proto'[s][j].proposal = proto[s][j].proposal
      /\ \A s \in Replicas, j \in Instances :
           (s = r /\ j = p.inst) \/ proto'[s][j].nvalue = proto[s][j].nvalue
      /\ proto'[r][p.inst].nvalue # NoValue
  BY <1>1, <1>3, <1>4, <1>5
<1>7. Mine(r, new.bal) /\ new.bal < nextproposal[r]
  BY <1>1, <1>4 DEF BallotInv, ProposalsUnique
<1>8. \A a \in accepts : a.inst \in Instances
  BY DEF BallotInv, TypeInv, TypeOK, CoordinatorTypeOK
<1>9. ASSUME NEW a \in accepts'
      PROVE  \E s \in Replicas :
               /\ Mine(s, a.bal)
               /\ a.bal < nextproposal'[s]
               /\ proto'[s][a.inst].proposal = a.bal =>
                    proto'[s][a.inst].nvalue # NoValue
  <2>1. CASE a = new
    BY <1>3, <1>4, <1>6, <1>7, <2>1
  <2>2. CASE a \in accepts
    BY <1>3, <1>6, <1>8, <2>2 DEF BallotInv, ProposalsUnique
  <2> QED BY <1>3, <2>1, <2>2
<1>10. ASSUME NEW a \in accepts
       PROVE  ~(a.inst = new.inst /\ a.bal = new.bal)
  <2>1. PICK s \in Replicas :
          /\ Mine(s, a.bal)
          /\ proto[s][a.inst].proposal = a.bal =>
               proto[s][a.inst].nvalue # NoValue
    BY DEF BallotInv, ProposalsUnique
  <2>2. a.bal = new.bal => s = r
    BY <1>7, <2>1, OneOwner
  <2> QED BY <1>2, <1>4, <2>1, <2>2
<1>11. OneValuePerBallot'
  BY <1>3, <1>10 DEF BallotInv, ProposalsUnique, OneValuePerBallot
<1> QED BY <1>3, <1>6, <1>9, <1>11 DEF BallotInv, ProposalsUnique

-----------------------------------------------------------------------------
(* Votes.                                                                  *)

\* Every vote, and every ACCEPT on its way, repeats an ACCEPT sent; votes and
\* promises leave their mark on the acceptor.
VotesFaithful ==
  /\ \A r \in Replicas, i \in Instances :
       acceptor[r][i].proposalAccepted <= acceptor[r][i].proposal
  /\ \A v \in votes :
       /\ \E a \in accepts :
            a.inst = v.inst /\ a.bal = v.bal /\ a.value = v.value
       /\ v.bal <= acceptor[v.acc][v.inst].proposalAccepted
  /\ \A m \in promises : m.bal <= acceptor[m.acc][m.inst].proposal
  /\ \A r \in Replicas : \A p \in inbox[r] : p.type = "ACCEPT" =>
       \E a \in accepts :
         a.inst = p.inst /\ a.bal = p.bal /\ a.value = p.value
  /\ PromiseKept

VoteInv == BallotInv /\ VotesFaithful

\* Nobody has promised or voted at the start.
LEMMA VoteInvInit == Init => VoteInv
<1> SUFFICES ASSUME Init PROVE VotesFaithful
  BY BallotInvInit DEF VoteInv
<1> QED BY DEF Init, AcceptorInit, VotesFaithful, PromiseKept

\* Steps of the other roles that send no ACCEPT.
LEMMA VotesUnchanged ==
  ASSUME VotesFaithful, UNCHANGED acceptorVars, accepts \subseteq accepts',
         \A s \in Replicas : \A q \in inbox'[s] : q.type = "ACCEPT" =>
           q \in inbox[s] \/ \E a \in accepts' :
             a.inst = q.inst /\ a.bal = q.bal /\ a.value = q.value
  PROVE  VotesFaithful'
BY DEF VotesFaithful, acceptorVars, PromiseKept

\* PREPARE: a promise reports the acceptor's last vote, and a PREPARE_REJECT
\* promises nothing.
LEMMA VotesPromise ==
  ASSUME VoteInv, NEW r \in Replicas, NEW p \in Received(r, "PREPARE"),
         HandlePrepare(r, p), UNCHANGED coordinatorVars
  PROVE  VotesFaithful'
<1>1. p.bal \in Nat \ {0} /\ p.inst \in Instances
  BY PacketFields DEF Received, VoteInv, BallotInv, TypeInv, TypeOK, NetTypeOK
<1> DEFINE ap == acceptor[r][p.inst]
           ok == [type |-> "PREPARE_OK", bal |-> ap.proposalAccepted,
                  value |-> ap.value, inst |-> p.inst, from |-> r,
                  for |-> p.bal]
           no == [type |-> "PREPARE_REJECT", bal |-> ap.proposal,
                  inst |-> p.inst, from |-> r, for |-> p.bal]
           new == [acc |-> r, inst |-> p.inst, bal |-> p.bal,
                   prior |-> ap.proposalAccepted]
<1>2. CASE Reject(r, p)
  <2>1. Exchange(r, {p}, {}, {no}) /\ UNCHANGED acceptorVars
    BY <1>2 DEF Reject
  <2>2. no.type = "PREPARE_REJECT"
    OBVIOUS
  <2> HIDE DEF no
  <2>3. \A s \in Replicas : \A q \in inbox'[s] :
          q.type = "ACCEPT" => q \in inbox[s]
    BY <2>1, <2>2, ExchangeNew
  <2> QED BY <2>1, <2>3, VotesUnchanged DEF VoteInv, coordinatorVars
<1>3. CASE Promise(r, p)
  <2>1. /\ p.bal > ap.proposal
        /\ acceptor' = [acceptor EXCEPT ![r][p.inst].proposal = p.bal]
        /\ promises' = promises \cup {new}
        /\ Exchange(r, {p}, {}, {ok})
        /\ votes' = votes
    BY <1>3 DEF Promise
  <2>2. acceptor \in [Replicas -> [Instances -> AcceptorProtocol]]
    BY DEF VoteInv, BallotInv, TypeInv, TypeOK, AcceptorTypeOK
  <2>3. ok.type = "PREPARE_OK"
    OBVIOUS
  <2> HIDE DEF ok
  <2>4. \A s \in Replicas : \A q \in inbox'[s] :
          q.type = "ACCEPT" => q \in inbox[s]
    BY <2>1, <2>3, ExchangeNew
  <2>5. \A s \in Replicas, i \in Instances :
          /\ acceptor'[s][i].proposalAccepted = acceptor[s][i].proposalAccepted
          /\ acceptor'[s][i].proposalAccepted \in Nat
          /\ acceptor[s][i].proposal \in Nat
          /\ acceptor'[s][i].proposal =
               IF s = r /\ i = p.inst THEN p.bal ELSE acceptor[s][i].proposal
    BY <1>1, <2>1, <2>2 DEF AcceptorProtocol
  <2>6. /\ \A v \in votes : v.acc \in Replicas /\ v.inst \in Instances
                             /\ v.bal \in Nat
        /\ \A m \in promises : m.acc \in Replicas /\ m.inst \in Instances
                                /\ m.bal \in Nat
    BY DEF VoteInv, BallotInv, TypeInv, TypeOK, AcceptorTypeOK
  <2>7. \A s \in Replicas, i \in Instances :
          acceptor'[s][i].proposalAccepted <= acceptor'[s][i].proposal
    BY <1>1, <2>1, <2>5 DEF VoteInv, VotesFaithful
  <2>8. \A m \in promises' : m.bal <= acceptor'[m.acc][m.inst].proposal
    BY <1>1, <2>1, <2>5, <2>6 DEF VoteInv, VotesFaithful
  <2>9. \A v \in votes : v.acc = r /\ v.inst = p.inst => v.bal <= new.prior
    BY DEF VoteInv, VotesFaithful
  <2>10. PromiseKept'
    BY <2>1, <2>9 DEF VoteInv, VotesFaithful, PromiseKept
  <2>11. \A v \in votes :
           v.bal <= acceptor'[v.acc][v.inst].proposalAccepted
    BY <2>5, <2>6 DEF VoteInv, VotesFaithful
  <2> QED BY <2>1, <2>4, <2>7, <2>8, <2>10, <2>11
          DEF VoteInv, VotesFaithful, coordinatorVars
<1> QED BY <1>2, <1>3 DEF HandlePrepare

\* ACCEPT: a vote is for an ACCEPT that was sent, and against no promise.
LEMMA VotesAccept ==
  ASSUME VoteInv, NEW r \in Replicas, NEW p \in Received(r, "ACCEPT"),
         HandleAccept(r, p), UNCHANGED coordinatorVars
  PROVE  VotesFaithful'
<1>1. /\ p.bal \in Nat \ {0} /\ p.inst \in Instances /\ p.value \in Values
      /\ p \in inbox[r] /\ p.type = "ACCEPT"
  BY PacketFields DEF Received, VoteInv, BallotInv, TypeInv, TypeOK, NetTypeOK
<1> DEFINE ok == [type |-> "ACCEPT_OK", bal |-> p.bal, value |-> p.value,
                  inst |-> p.inst, from |-> r]
           new == [acc |-> r, inst |-> p.inst, bal |-> p.bal,
                   value |-> p.value]
<1>2. CASE Ignore(r, p)
  <2>1. Exchange(r, {p}, {}, {}) /\ UNCHANGED acceptorVars
    BY <1>2 DEF Ignore
  <2>2. \A s \in Replicas : \A q \in inbox'[s] : q \in inbox[s]
    BY <2>1, ExchangeNew
  <2> QED BY <2>1, <2>2, VotesUnchanged DEF VoteInv, coordinatorVars
<1>3. CASE Accept(r, p)
  <2>1. /\ p.bal >= acceptor[r][p.inst].proposal
        /\ acceptor' = [acceptor EXCEPT ![r][p.inst] =
              [proposal |-> p.bal, value |-> p.value,
               proposalAccepted |-> p.bal]]
        /\ votes' = votes \cup {new}
        /\ promises' = promises
        /\ Exchange(r, {p}, {}, {ok})
    BY <1>3 DEF Accept, MayAccept
  <2>2. acceptor \in [Replicas -> [Instances -> AcceptorProtocol]]
    BY DEF VoteInv, BallotInv, TypeInv, TypeOK, AcceptorTypeOK
  <2>3. ok.type = "ACCEPT_OK"
    OBVIOUS
  <2> HIDE DEF ok
  <2>4. \A s \in Replicas : \A q \in inbox'[s] :
          q.type = "ACCEPT" => q \in inbox[s]
    BY <2>1, <2>3, ExchangeNew
  <2>5. \A s \in Replicas, i \in Instances :
          /\ acceptor[s][i].proposalAccepted \in Nat
          /\ acceptor[s][i].proposal \in Nat
          /\ acceptor[s][i].proposalAccepted <= acceptor[s][i].proposal
          /\ acceptor'[s][i].proposalAccepted =
               IF s = r /\ i = p.inst THEN p.bal
                                     ELSE acceptor[s][i].proposalAccepted
          /\ acceptor'[s][i].proposal =
               IF s = r /\ i = p.inst THEN p.bal ELSE acceptor[s][i].proposal
    BY <1>1, <2>1, <2>2 DEF AcceptorProtocol, VoteInv, VotesFaithful
  <2>6. /\ \A v \in votes : v.acc \in Replicas /\ v.inst \in Instances
                             /\ v.bal \in Nat
        /\ \A m \in promises : m.acc \in Replicas /\ m.inst \in Instances
                                /\ m.bal \in Nat
    BY DEF VoteInv, BallotInv, TypeInv, TypeOK, AcceptorTypeOK
  <2>7. \A s \in Replicas, i \in Instances :
          acceptor'[s][i].proposalAccepted <= acceptor'[s][i].proposal
    BY <1>1, <2>5
  <2>8. \A m \in promises : m.bal <= acceptor'[m.acc][m.inst].proposal
    BY <1>1, <2>1, <2>5, <2>6 DEF VoteInv, VotesFaithful
  <2>9. \A v \in votes' :
          /\ \E a \in accepts :
               a.inst = v.inst /\ a.bal = v.bal /\ a.value = v.value
          /\ v.bal <= acceptor'[v.acc][v.inst].proposalAccepted
    <3>1. ASSUME NEW v \in votes
          PROVE  v.bal <= acceptor'[v.acc][v.inst].proposalAccepted
      <4>1. v.bal <= acceptor[v.acc][v.inst].proposalAccepted
        BY DEF VoteInv, VotesFaithful
      <4> QED BY <1>1, <2>1, <2>5, <2>6, <4>1
    <3>2. /\ new.bal <= acceptor'[new.acc][new.inst].proposalAccepted
          /\ \E a \in accepts :
               a.inst = new.inst /\ a.bal = new.bal /\ a.value = new.value
      BY <1>1, <2>5 DEF VoteInv, VotesFaithful
    <3> HIDE DEF new
    <3> QED BY <2>1, <3>1, <3>2 DEF VoteInv, VotesFaithful
  <2>10. PromiseKept'
    <3>1. \A m \in promises :
            m.acc = r /\ m.inst = p.inst => m.bal <= p.bal
      BY <1>1, <2>1, <2>5, <2>6 DEF VoteInv, VotesFaithful
    <3> QED BY <1>1, <2>1, <2>6, <3>1 DEF VoteInv, VotesFaithful, PromiseKept
  <2> QED BY <2>1, <2>4, <2>7, <2>8, <2>9, <2>10
          DEF VoteInv, VotesFaithful, coordinatorVars
<1> QED BY <1>2, <1>3 DEF HandleAccept

-----------------------------------------------------------------------------
(* Learning.                                                               *)

\* Some ballot has Q of the votes V for v in instance i.
VotersIn(V, i, b, v) ==
  {r \in Replicas : [acc |-> r, inst |-> i, bal |-> b, value |-> v] \in V}

Backed(V, i, v) ==
  \E w \in V : w.inst = i /\ Cardinality(VotersIn(V, i, w.bal, v)) >= Q

BackedInv ==
  /\ \A r, s \in Replicas, i \in Instances :
       learner[r][i].votes[s] # NoValue =>
         [acc |-> s, inst |-> i, bal |-> learner[r][i].proposal,
          value |-> learner[r][i].votes[s]] \in votes
  /\ \A r \in Replicas, i \in Instances :
       learner[r][i].commit => Backed(votes, i, learner[r][i].value)
  /\ \A r \in Replicas : \A p \in inbox[r] :
       /\ p.type = "ACCEPT_OK" =>
            [acc |-> p.from, inst |-> p.inst, bal |-> p.bal,
             value |-> p.value] \in votes
       /\ p.type = "COMMIT" => Backed(votes, p.inst, p.value)

IInv == VoteInv /\ BackedInv

\* The voters for a value in a ballot are finitely many replicas.
LEMMA VotersFinite ==
  ASSUME NEW V, NEW i, NEW b, NEW v
  PROVE  IsFiniteSet(VotersIn(V, i, b, v))
<1>1. IsFiniteSet(Replicas)
  BY FS_Interval, NAssumption DEF Replicas
<1>2. VotersIn(V, i, b, v) \subseteq Replicas
  BY DEF VotersIn
<1> QED BY <1>1, <1>2, FS_Subset

\* Votes are never taken back, so what is backed stays backed.
LEMMA BackedStays ==
  ASSUME NEW V, NEW W, V \subseteq W, NEW i, NEW v, Backed(V, i, v)
  PROVE  Backed(W, i, v)
<1>1. PICK w \in V : w.inst = i /\ Cardinality(VotersIn(V, i, w.bal, v)) >= Q
  BY DEF Backed
<1> DEFINE S == VotersIn(V, i, w.bal, v)
           T == VotersIn(W, i, w.bal, v)
<1>2. S \subseteq T /\ IsFiniteSet(S) /\ IsFiniteSet(T)
  BY VotersFinite DEF VotersIn
<1>3. /\ Cardinality(S) <= Cardinality(T)
      /\ Cardinality(S) \in Nat /\ Cardinality(T) \in Nat
      /\ Cardinality(S) >= Q
  BY <1>1, <1>2, FS_Subset, FS_CardinalityType
<1>4. Cardinality(T) >= Q
  <2> HIDE DEF S, T
  <2> QED BY <1>3, QAssumption, NAssumption
<1> QED BY <1>1, <1>4 DEF Backed

\* The inductive invariant at the start.
LEMMA IInvInit == Init => IInv
<1> SUFFICES ASSUME Init PROVE BackedInv
  BY VoteInvInit DEF IInv
<1>1. \A r, s \in Replicas, i \in Instances :
        learner[r][i].votes[s] = NoValue /\ learner[r][i].commit = FALSE
  BY DEF Init, LearnerInit, NoVotes
<1>2. \A r \in Replicas : inbox[r] = {}
  BY DEF Init
<1> QED BY <1>1, <1>2 DEF BackedInv

\* Steps that leave the learners alone and send no COMMIT.
LEMMA BackedUnchanged ==
  ASSUME BackedInv, UNCHANGED learner, votes \subseteq votes',
         \A s \in Replicas : \A q \in inbox'[s] :
           /\ q.type = "ACCEPT_OK" =>
                q \in inbox[s] \/ [acc |-> q.from, inst |-> q.inst,
                                   bal |-> q.bal, value |-> q.value] \in votes'
           /\ q.type = "COMMIT" => q \in inbox[s]
  PROVE  BackedInv'
<1>1. \A r, s \in Replicas, i \in Instances :
        learner'[r][i].votes[s] # NoValue =>
          [acc |-> s, inst |-> i, bal |-> learner'[r][i].proposal,
           value |-> learner'[r][i].votes[s]] \in votes'
  BY DEF BackedInv
<1>2. \A r \in Replicas, i \in Instances :
        learner'[r][i].commit => Backed(votes', i, learner'[r][i].value)
  BY BackedStays DEF BackedInv
<1>3. ASSUME NEW r \in Replicas, NEW q \in inbox'[r]
      PROVE  /\ q.type = "ACCEPT_OK" =>
                  [acc |-> q.from, inst |-> q.inst, bal |-> q.bal,
                   value |-> q.value] \in votes'
             /\ q.type = "COMMIT" => Backed(votes', q.inst, q.value)
  BY BackedStays DEF BackedInv
<1> QED BY <1>1, <1>2, <1>3 DEF BackedInv

\* Votes counted by a learner are votes, all of them in its highest ballot.
LEMMA CountedVotes ==
  ASSUME IInv, NEW r \in Replicas, NEW p \in Received(r, "ACCEPT_OK"),
         Counts(learner[r][p.inst], p)
  PROVE  LET wv == WithVote(learner[r][p.inst], p) IN
         /\ wv.proposal = p.bal
         /\ \A s \in Replicas : wv.votes[s] # NoValue =>
              [acc |-> s, inst |-> p.inst, bal |-> p.bal,
               value |-> wv.votes[s]] \in votes
         /\ Reached(wv, p.value) => Backed(votes, p.inst, p.value)
<1> DEFINE lp == learner[r][p.inst]
           at == AtBallot(lp, p.bal)
           wv == WithVote(lp, p)
<1>1. /\ p.bal \in Nat \ {0} /\ p.inst \in Instances
      /\ p.value \in Values /\ p.from \in Replicas
      /\ [acc |-> p.from, inst |-> p.inst, bal |-> p.bal,
          value |-> p.value] \in votes
  BY PacketFields
  DEF Received, IInv, VoteInv, BallotInv, TypeInv, TypeOK, NetTypeOK, BackedInv
<1>2. lp \in LearnerProtocol /\ p.bal >= lp.proposal
  BY <1>1
  DEF Counts, IInv, VoteInv, BallotInv, TypeInv, TypeOK, LearnerTypeOK
<1>3. /\ at.proposal = p.bal
      /\ at.votes \in [Replicas -> Values \cup {NoValue}]
      /\ at \in LearnerProtocol
      /\ at.votes = NoVotes \/ (at.votes = lp.votes /\ lp.proposal = p.bal)
  <2> HIDE DEF lp
  <2>1. lp.proposal \in Nat
    BY <1>2 DEF LearnerProtocol
  <2>2. CASE p.bal > lp.proposal
    <3>1. at = [lp EXCEPT !.proposal = p.bal, !.votes = NoVotes]
      BY <2>2 DEF AtBallot
    <3> HIDE DEF at
    <3> QED BY <1>1, <1>2, <3>1 DEF LearnerProtocol, NoVotes
  <2>3. CASE ~(p.bal > lp.proposal)
    BY <1>1, <1>2, <2>1, <2>3 DEF AtBallot, LearnerProtocol
  <2> QED BY <2>2, <2>3
<1>4. wv = [at EXCEPT !.votes[p.from] = p.value]
  BY DEF WithVote
<1>5. \A s \in Replicas : at.votes[s] # NoValue =>
        [acc |-> s, inst |-> p.inst, bal |-> p.bal,
         value |-> at.votes[s]] \in votes
  BY <1>1, <1>3 DEF IInv, BackedInv, NoVotes
<1> HIDE DEF at
<1>6. /\ wv.proposal = p.bal
      /\ wv.votes = [at.votes EXCEPT ![p.from] = p.value]
  BY <1>3, <1>4 DEF LearnerProtocol
<1> HIDE DEF wv
<1>7. \A s \in Replicas : wv.votes[s] # NoValue =>
        [acc |-> s, inst |-> p.inst, bal |-> p.bal,
         value |-> wv.votes[s]] \in votes
  BY <1>1, <1>3, <1>5, <1>6
<1>8. ASSUME Reached(wv, p.value) PROVE Backed(votes, p.inst, p.value)
  <2> DEFINE S == VotesFor(wv, p.value)
             T == VotersIn(votes, p.inst, p.bal, p.value)
  <2>1. S \subseteq T
    BY <1>1, <1>7, NoValueIsNone DEF VotesFor, VotersIn
  <2>2. IsFiniteSet(T)
    BY VotersFinite
  <2>3. /\ Cardinality(S) <= Cardinality(T)
        /\ Cardinality(S) \in Nat /\ Cardinality(T) \in Nat
    BY <2>1, <2>2, FS_Subset, FS_CardinalityType
  <2>4. Cardinality(S) >= Q
    BY <1>8 DEF Reached
  <2>5. Cardinality(T) >= Q
    <3> HIDE DEF S, T
    <3> QED BY <2>3, <2>4, QAssumption, NAssumption
  <2> QED BY <1>1, <2>5 DEF Backed
<1> QED BY <1>6, <1>7, <1>8 DEF wv

\* What a learner may turn into: its votes are votes, its values are backed.
BackedLearner(protos) ==
  \A i \in Instances :
    /\ \A s \in Replicas : protos[i].votes[s] # NoValue =>
         [acc |-> s, inst |-> i, bal |-> protos[i].proposal,
          value |-> protos[i].votes[s]] \in votes
    /\ protos[i].commit => Backed(votes, i, protos[i].value)

\* A learner step: r's learner becomes protos, and only backed COMMITs go out.
LEMMA BackedLearnerStep ==
  ASSUME IInv, NEW r \in Replicas, NEW protos, BackedLearner(protos),
         learner' = [learner EXCEPT ![r] = protos], UNCHANGED votes,
         \A s \in Replicas : \A q \in inbox'[s] :
           /\ q.type = "ACCEPT_OK" => q \in inbox[s]
           /\ q.type = "COMMIT" =>
                q \in inbox[s] \/ Backed(votes, q.inst, q.value)
  PROVE  BackedInv'
<1>1. learner \in [Replicas -> [Instances -> LearnerProtocol]]
  BY DEF IInv, VoteInv, BallotInv, TypeInv, TypeOK, LearnerTypeOK
<1>2. \A s \in Replicas :
        \/ s = r /\ learner'[s] = protos
        \/ learner'[s] = learner[s]
  BY <1>1
<1>3. \A s, t \in Replicas, i \in Instances :
        learner'[s][i].votes[t] # NoValue =>
          [acc |-> t, inst |-> i, bal |-> learner'[s][i].proposal,
           value |-> learner'[s][i].votes[t]] \in votes'
  BY <1>2 DEF IInv, BackedInv, BackedLearner
<1>4. \A s \in Replicas, i \in Instances :
        learner'[s][i].commit => Backed(votes', i, learner'[s][i].value)
  BY <1>2 DEF IInv, BackedInv, BackedLearner
<1>5. \A s \in Replicas : \A q \in inbox'[s] :
        /\ q.type = "ACCEPT_OK" =>
             [acc |-> q.from, inst |-> q.inst, bal |-> q.bal,
              value |-> q.value] \in votes'
        /\ q.type = "COMMIT" => Backed(votes', q.inst, q.value)
  BY DEF IInv, BackedInv
<1> QED BY <1>3, <1>4, <1>5 DEF BackedInv

\* Learning a backed value keeps everything backed.
LEMMA BackedLearnt ==
  ASSUME IInv, NEW r \in Replicas, NEW p, NEW i, NEW v, NEW protos, NEW out,
         BackedLearner(protos), Learnt(r, p, i, v, protos, out),
         \A m \in out : m.type = "COMMIT" /\ Backed(votes, m.inst, m.value)
  PROVE  BackedInv'
<1>1. /\ learner' = [learner EXCEPT ![r] = protos]
      /\ UNCHANGED votes
  BY DEF Learnt, acceptorVars
<1>2. PICK local :
        Exchange(r, {p}, local, out) /\ \A m \in local : m.type = "LEARN"
  <2> DEFINE highest == IF i > highestLearnt[r] THEN i ELSE highestLearnt[r]
             asks == {[type |-> "LEARN", inst |-> j] :
                        j \in Missing(protos, highest)}
  <2>1. \A m \in asks : m.type = "LEARN"
    OBVIOUS
  <2>2. Exchange(r, {p}, {}, out) \/ Exchange(r, {p}, asks, out)
    BY DEF Learnt
  <2> HIDE DEF asks
  <2> QED BY <2>1, <2>2
<1>3. \A s \in Replicas : \A q \in inbox'[s] :
        /\ q.type = "ACCEPT_OK" => q \in inbox[s]
        /\ q.type = "COMMIT" =>
             q \in inbox[s] \/ Backed(votes, q.inst, q.value)
  BY <1>2, ExchangeNew
<1> QED BY <1>1, <1>3, BackedLearnerStep

\* So does a packet from which nothing is learnt.
LEMMA BackedNothingLearnt ==
  ASSUME IInv, NEW r \in Replicas, NEW p, NEW protos, NEW out,
         BackedLearner(protos), NothingLearnt(r, p, protos, out),
         \A m \in out : m.type = "COMMIT" /\ Backed(votes, m.inst, m.value)
  PROVE  BackedInv'
<1>1. /\ learner' = [learner EXCEPT ![r] = protos]
      /\ UNCHANGED votes
      /\ Exchange(r, {p}, {}, out)
  BY DEF NothingLearnt, acceptorVars
<1>2. \A s \in Replicas : \A q \in inbox'[s] :
        /\ q.type = "ACCEPT_OK" => q \in inbox[s]
        /\ q.type = "COMMIT" =>
             q \in inbox[s] \/ Backed(votes, q.inst, q.value)
  BY <1>1, ExchangeNew
<1> QED BY <1>1, <1>2, BackedLearnerStep

\* Every learner of a state of the invariant is backed.
LEMMA BackedLearnerNow ==
  ASSUME IInv, NEW r \in Replicas
  PROVE  BackedLearner(learner[r])
BY DEF IInv, BackedInv, BackedLearner

\* ACCEPT_OK: Q votes counted in the highest ballot are a quorum of votes.
LEMMA BackedAcceptOK ==
  ASSUME IInv, NEW r \in Replicas, HandleAcceptOK(r)
  PROVE  BackedInv'
<1>1. PICK p \in Received(r, "ACCEPT_OK") :
        LET lp == learner[r][p.inst]
            With(l) == [learner[r] EXCEPT ![p.inst] = l] IN
        \/ /\ Counts(lp, p) /\ Reached(WithVote(lp, p), p.value)
           /\ Learnt(r, p, p.inst, p.value,
                With(Committed(WithVote(lp, p), p.value)),
                {[type |-> "COMMIT", value |-> p.value, inst |-> p.inst]})
        \/ /\ Counts(lp, p)
           /\ NothingLearnt(r, p, With(WithVote(lp, p)), {})
        \/ NothingLearnt(r, p, learner[r], {})
  BY DEF HandleAcceptOK
<1>2. /\ p.bal \in Nat \ {0} /\ p.inst \in Instances
      /\ p.value \in Values /\ p.from \in Replicas
  BY PacketFields
  DEF Received, IInv, VoteInv, BallotInv, TypeInv, TypeOK, NetTypeOK
<1> DEFINE lp == learner[r][p.inst]
           wv == WithVote(lp, p)
           cv == Committed(wv, p.value)
           m == [type |-> "COMMIT", value |-> p.value, inst |-> p.inst]
<1>3. LearnerFine(learner[r]) /\ BackedLearner(learner[r])
  BY LearnerFineNow, BackedLearnerNow DEF IInv, VoteInv, BallotInv
<1>4. /\ wv \in LearnerProtocol
      /\ wv.commit = lp.commit
      /\ wv.value = lp.value
  BY <1>2, <1>3, WithVoteType DEF LearnerFine
<1>5. Counts(lp, p) =>
        /\ wv.proposal = p.bal
        /\ \A s \in Replicas : wv.votes[s] # NoValue =>
             [acc |-> s, inst |-> p.inst, bal |-> p.bal,
              value |-> wv.votes[s]] \in votes
        /\ Reached(wv, p.value) => Backed(votes, p.inst, p.value)
  BY CountedVotes
<1> HIDE DEF wv
<1>6. /\ cv.value = p.value /\ cv.votes = wv.votes
      /\ cv.proposal = wv.proposal
  BY <1>2, <1>4, CommittedType
<1> HIDE DEF cv, lp
<1>7. Counts(lp, p) => BackedLearner([learner[r] EXCEPT ![p.inst] = wv])
  BY <1>2, <1>3, <1>4, <1>5 DEF BackedLearner, LearnerFine, lp
<1>8. Counts(lp, p) /\ Reached(wv, p.value) =>
        BackedLearner([learner[r] EXCEPT ![p.inst] = cv])
  BY <1>2, <1>3, <1>5, <1>6 DEF BackedLearner, LearnerFine
<1>9. m.type = "COMMIT" /\ m.inst = p.inst /\ m.value = p.value
  OBVIOUS
<1> HIDE DEF m
<1>10. \/ /\ Counts(lp, p) /\ Reached(wv, p.value)
          /\ Learnt(r, p, p.inst, p.value,
               [learner[r] EXCEPT ![p.inst] = cv], {m})
       \/ /\ Counts(lp, p)
          /\ NothingLearnt(r, p, [learner[r] EXCEPT ![p.inst] = wv], {})
       \/ NothingLearnt(r, p, learner[r], {})
  BY <1>1 DEF wv, cv, m, lp
<1>11. CASE /\ Counts(lp, p) /\ Reached(wv, p.value)
            /\ Learnt(r, p, p.inst, p.value,
                 [learner[r] EXCEPT ![p.inst] = cv], {m})
  BY <1>5, <1>8, <1>9, <1>11, BackedLearnt
<1>12. CASE /\ Counts(lp, p)
            /\ NothingLearnt(r, p, [learner[r] EXCEPT ![p.inst] = wv], {})
  BY <1>7, <1>12, BackedNothingLearnt
<1>13. CASE NothingLearnt(r, p, learner[r], {})
  BY <1>3, <1>13, BackedNothingLearnt
<1> QED BY <1>10, <1>11, <1>12, <1>13

\* COMMIT: its value is backed, so the learner that takes it is.
LEMMA BackedCommit ==
  ASSUME IInv, NEW r \in Replicas, HandleCommit(r)
  PROVE  BackedInv'
<1>1. PICK p \in Received(r, "COMMIT") :
        \/ Learnt(r, p, p.inst, p.value,
             [learner[r] EXCEPT
                ![p.inst] = Committed(learner[r][p.inst], p.value)], {})
        \/ NothingLearnt(r, p, learner[r], {})
  BY DEF HandleCommit
<1>2. p.inst \in Instances /\ p.value \in Values
  BY PacketFields
  DEF Received, IInv, VoteInv, BallotInv, TypeInv, TypeOK, NetTypeOK
<1>3. LearnerFine(learner[r]) /\ BackedLearner(learner[r])
  BY LearnerFineNow, BackedLearnerNow DEF IInv, VoteInv, BallotInv
<1>4. Backed(votes, p.inst, p.value)
  BY DEF Received, IInv, BackedInv
<1> DEFINE lp == learner[r][p.inst]
           cv == Committed(lp, p.value)
<1>5. /\ cv.value = p.value /\ cv.votes = lp.votes
      /\ cv.proposal = lp.proposal
  BY <1>2, <1>3, CommittedType DEF LearnerFine
<1>6. BackedLearner([learner[r] EXCEPT ![p.inst] = cv])
  <2> HIDE DEF cv
  <2> QED BY <1>2, <1>3, <1>4, <1>5 DEF BackedLearner, LearnerFine
<1> HIDE DEF cv
<1>7. CASE Learnt(r, p, p.inst, p.value,
             [learner[r] EXCEPT ![p.inst] = cv], {})
  BY <1>6, <1>7, BackedLearnt
<1>8. CASE NothingLearnt(r, p, learner[r], {})
  BY <1>3, <1>8, BackedNothingLearnt
<1> QED BY <1>1, <1>7, <1>8 DEF cv

\* NOP: the COMMIT that answers it tells a value that is backed.
LEMMA BackedNop ==
  ASSUME IInv, NEW r \in Replicas, HandleNop(r)
  PROVE  BackedInv'
<1>1. PICK p \in Received(r, "NOP") :
        NothingLearnt(r, p, learner[r],
          {m \in {[type |-> "COMMIT", value |-> learner[r][p.inst].value,
                   inst |-> p.inst]} : learner[r][p.inst].commit})
  BY DEF HandleNop
<1>2. p.inst \in Instances
  BY PacketFields
  DEF Received, IInv, VoteInv, BallotInv, TypeInv, TypeOK, NetTypeOK
<1>3. BackedLearner(learner[r])
  BY BackedLearnerNow
<1> DEFINE out == {m \in {[type |-> "COMMIT",
                           value |-> learner[r][p.inst].value,
                           inst |-> p.inst]} : learner[r][p.inst].commit}
<1>4. \A m \in out : m.type = "COMMIT" /\ Backed(votes, m.inst, m.value)
  BY <1>2, <1>3 DEF BackedLearner
<1> HIDE DEF out
<1> QED BY <1>1, <1>3, <1>4, BackedNothingLearnt DEF out

-----------------------------------------------------------------------------
(* The inductive step, one lemma for each action of Next.                  *)

\* The inductive invariant taken apart.
LEMMA IInvParts ==
  /\ IInv  <=> TypeInv /\ ProposalsUnique /\ VotesFaithful /\ BackedInv
  /\ IInv' <=> TypeInv' /\ ProposalsUnique' /\ VotesFaithful' /\ BackedInv'
BY DEF IInv, VoteInv, BallotInv

\* Start adds a replica and touches nothing that was there.
LEMMA IInvStart ==
  ASSUME IInv, NEW r \in Late, Start(r)
  PROVE  IInv'
<1>1. TypeInv'
  BY IInvParts, TypeStart
<1>2. /\ UNCHANGED <<proto, nextproposal, accepts, acceptorVars, learner, inbox>>
      /\ UNCHANGED votes
  BY DEF Start, coordinatorVars, acceptorVars
<1>3. ProposalsUnique'
  BY <1>2, IInvParts, BallotUnchanged
<1>4. VotesFaithful'
  BY <1>2, IInvParts, VotesUnchanged
<1>5. BackedInv'
  BY <1>2, IInvParts, BackedUnchanged
<1> QED BY <1>1, <1>3, <1>4, <1>5, IInvParts

\* ProposeCommand and Epoch queue PROPOSE packets, which back nothing.
LEMMA IInvQueue ==
  ASSUME IInv, TypeInv', NEW r \in Replicas, NEW local,
         Exchange(r, {}, local, {}),
         \A m \in local : m.type = "PROPOSE",
         UNCHANGED <<acceptorVars, coordinatorVars, learner>>
  PROVE  IInv'
<1>1. /\ UNCHANGED <<proto, nextproposal, accepts, acceptorVars, learner>>
      /\ UNCHANGED votes
  BY DEF coordinatorVars, acceptorVars
<1>2. \A s \in Replicas : \A q \in inbox'[s] :
        q \in inbox[s] \/ q.type = "PROPOSE"
  BY ExchangeNew
<1>3. ProposalsUnique'
  BY <1>1, IInvParts, BallotUnchanged
<1>4. VotesFaithful'
  BY <1>1, <1>2, IInvParts, VotesUnchanged
<1>5. BackedInv'
  BY <1>1, <1>2, IInvParts, BackedUnchanged
<1> QED BY <1>3, <1>4, <1>5, IInvParts

\* ProposeCommand keeps the invariant.
LEMMA IInvProposeCommand ==
  ASSUME IInv, NEW r \in Proposers, ProposeCommand(r)
  PROVE  IInv'
<1> DEFINE local == {[type |-> "PROPOSE",
                      value |-> [node |-> r, counter |-> proposeCounter[r]],
                      round |-> 0]}
<1>1. /\ Exchange(r, {}, local, {})
      /\ UNCHANGED <<acceptorVars, coordinatorVars, learner>>
  BY DEF ProposeCommand
<1>2. \A m \in local : m.type = "PROPOSE"
  OBVIOUS
<1>3. TypeInv' /\ r \in Replicas
  BY IInvParts, TypeProposeCommand, ReplicasAssumption
<1> HIDE DEF local
<1> QED BY <1>1, <1>2, <1>3, IInvQueue

\* EPOCH keeps the invariant.
LEMMA IInvEpoch ==
  ASSUME IInv, NEW r \in Replicas, Epoch(r)
  PROVE  IInv'
<1> DEFINE local == {[type |-> "PROPOSE", value |-> v, round |-> ticks'[r]] :
                       v \in unsentValues[r]}
<1>1. /\ Exchange(r, {}, local, {})
      /\ UNCHANGED <<acceptorVars, coordinatorVars, learner>>
  BY DEF Epoch
<1>2. \A m \in local : m.type = "PROPOSE"
  OBVIOUS
<1>3. TypeInv'
  BY IInvParts, TypeEpoch
<1> HIDE DEF local
<1> QED BY <1>1, <1>2, <1>3, IInvQueue

\* A new proposal takes the next number of its replica.
LEMMA IInvPropose ==
  ASSUME IInv, NEW r \in Replicas, HandlePropose(r)
  PROVE  IInv'
<1>1. PICK p \in Received(r, "PROPOSE") :
        /\ Propose(r, p)
        /\ unsentValues' = [unsentValues EXCEPT ![r] = @ \cup {p.value}]
        /\ UNCHANGED <<up, acceptorVars, learner, execVars, proposeCounter,
                       ticks>>
  BY DEF HandlePropose
<1> DEFINE m == [type |-> "PREPARE", bal |-> nextproposal[r],
                 inst |-> instance[r] + 1]
<1>2. Exchange(r, {p}, {}, {m}) /\ UNCHANGED accepts
  BY <1>1 DEF Propose
<1>3. m.type = "PREPARE"
  OBVIOUS
<1> HIDE DEF m
<1>4. \A s \in Replicas : \A q \in inbox'[s] :
        q \in inbox[s] \/ q.type = "PREPARE"
  BY <1>2, <1>3, ExchangeNew
<1>5. Mine(r, nextproposal[r])
  BY IInvParts DEF ProposalsUnique
<1>6. TypeInv'
  BY <1>1, <1>5, IInvParts, TypePropose
<1>7. ProposalsUnique'
  BY <1>1, BallotPropose DEF IInv, VoteInv
<1>8. VotesFaithful'
  BY <1>1, <1>2, <1>4, IInvParts, VotesUnchanged
<1>9. BackedInv'
  BY <1>1, <1>4, IInvParts, BackedUnchanged DEF acceptorVars
<1> QED BY <1>6, <1>7, <1>8, <1>9, IInvParts

\* The other packets of the coordinator change no proposal and send NOP at most.
LEMMA OtherCoordinatorSends ==
  ASSUME NEW r \in Replicas,
         \/ \E p \in Received(r, "LEARN") : AskForMissing(r, p)
         \/ \E p \in Received(r, "PREPARE_OK") : IgnorePromise(r, p)
         \/ \E p \in Received(r, "PREPARE_REJECT") : HandlePrepareReject(r, p)
  PROVE  /\ UNCHANGED <<proto, nextproposal, accepts>>
         /\ \A s \in Replicas : \A q \in inbox'[s] :
              q \in inbox[s] \/ q.type = "NOP"
<1>1. UNCHANGED <<proto, nextproposal, accepts>>
  BY DEF AskForMissing, IgnorePromise, HandlePrepareReject, coordinatorVars
<1>2. \A s \in Replicas : \A q \in inbox'[s] :
        q \in inbox[s] \/ q.type = "NOP"
  <2>1. CASE \E p \in Received(r, "LEARN") : AskForMissing(r, p)
    <3>1. PICK p \in Received(r, "LEARN") : AskForMissing(r, p)
      BY <2>1
    <3> DEFINE m == [type |-> "NOP", inst |-> p.inst]
    <3>2. Exchange(r, {p}, {}, {m}) /\ m.type = "NOP"
      BY <3>1 DEF AskForMissing
    <3> HIDE DEF m
    <3> QED BY <3>2, ExchangeNew
  <2>2. CASE \E p \in Received(r, "PREPARE_OK") : IgnorePromise(r, p)
    <3>1. PICK p \in Received(r, "PREPARE_OK") : Exchange(r, {p}, {}, {})
      BY <2>2 DEF IgnorePromise
    <3> QED BY <3>1, ExchangeNew
  <2>3. CASE \E p \in Received(r, "PREPARE_REJECT") :
               HandlePrepareReject(r, p)
    <3>1. PICK p \in Received(r, "PREPARE_REJECT") : Exchange(r, {p}, {}, {})
      BY <2>3 DEF HandlePrepareReject
    <3> QED BY <3>1, ExchangeNew
  <2> QED BY <2>1, <2>2, <2>3
<1> QED BY <1>1, <1>2

\* A PREPARE_OK is counted, turned into the ACCEPT of its proposal or ignored.
LEMMA IInvCoordinator ==
  ASSUME IInv, NEW r \in Replicas, HandleByCoordinator(r)
  PROVE  IInv'
<1>0. UNCHANGED <<up, acceptorVars, learner, execVars, proposeVars>>
  BY DEF HandleByCoordinator
<1>1. ASSUME NEW p \in Received(r, "PREPARE_OK"), CountPromise(r, p)
      PROVE  IInv'
  <2>1. Exchange(r, {p}, {}, {}) /\ UNCHANGED accepts
    BY <1>1 DEF CountPromise
  <2>2. \A s \in Replicas : \A q \in inbox'[s] : q \in inbox[s]
    BY <2>1, ExchangeNew
  <2>3. TypeInv'
    BY <1>0, <1>1, IInvParts, TypeCountPromise
  <2>4. ProposalsUnique'
    BY <1>1, BallotCountPromise DEF IInv, VoteInv
  <2>5. VotesFaithful'
    BY <1>0, <2>1, <2>2, IInvParts, VotesUnchanged
  <2>6. BackedInv'
    BY <1>0, <2>2, IInvParts, BackedUnchanged DEF acceptorVars
  <2> QED BY <2>3, <2>4, <2>5, <2>6, IInvParts
<1>2. ASSUME NEW p \in Received(r, "PREPARE_OK"), SendAccept(r, p)
      PROVE  IInv'
  <2> DEFINE cp == Counted(proto[r][p.inst], p)
             m == [type |-> "ACCEPT", bal |-> cp.proposal,
                   value |-> Chosen(cp), inst |-> p.inst]
             a == [inst |-> p.inst, bal |-> cp.proposal,
                   value |-> Chosen(cp), answered |-> cp.answered]
  <2>1. Exchange(r, {p}, {}, {m}) /\ accepts' = accepts \cup {a}
    BY <1>2 DEF SendAccept
  <2>2. /\ m.type = "ACCEPT"
        /\ a.inst = m.inst /\ a.bal = m.bal /\ a.value = m.value
    OBVIOUS
  <2> HIDE DEF m, a
  <2>3. \A s \in Replicas : \A q \in inbox'[s] : q \in inbox[s] \/ q = m
    BY <2>1, ExchangeNew
  <2>4. TypeInv'
    BY <1>0, <1>2, IInvParts, TypeSendAccept
  <2>5. ProposalsUnique'
    BY <1>2, BallotSendAccept DEF IInv, VoteInv
  <2>6. VotesFaithful'
    BY <1>0, <2>1, <2>2, <2>3, IInvParts, VotesUnchanged
  <2>7. BackedInv'
    BY <1>0, <2>2, <2>3, IInvParts, BackedUnchanged DEF acceptorVars
  <2> QED BY <2>4, <2>5, <2>6, <2>7, IInvParts
<1>3. ASSUME \/ \E p \in Received(r, "LEARN") : AskForMissing(r, p)
             \/ \E p \in Received(r, "PREPARE_OK") : IgnorePromise(r, p)
             \/ \E p \in Received(r, "PREPARE_REJECT") :
                  HandlePrepareReject(r, p)
      PROVE  IInv'
  <2>1. UNCHANGED <<proto, nextproposal, accepts>>
    BY <1>3, OtherCoordinatorSends
  <2>2. \A s \in Replicas : \A q \in inbox'[s] :
          q \in inbox[s] \/ q.type = "NOP"
    BY <1>3, OtherCoordinatorSends
  <2>3. TypeInv'
    BY <1>0, <1>3, IInvParts, TypeOtherCoordinator
  <2>4. ProposalsUnique'
    BY <2>1, IInvParts, BallotUnchanged
  <2>5. VotesFaithful'
    BY <1>0, <2>1, <2>2, IInvParts, VotesUnchanged
  <2>6. BackedInv'
    BY <1>0, <2>2, IInvParts, BackedUnchanged DEF acceptorVars
  <2> QED BY <2>3, <2>4, <2>5, <2>6, IInvParts
<1> QED BY <1>1, <1>2, <1>3 DEF HandleByCoordinator, HandlePrepareOK

\* A vote is recorded before the ACCEPT_OK that reports it goes out.
LEMMA IInvAcceptor ==
  ASSUME IInv, NEW r \in Replicas, HandleByAcceptor(r)
  PROVE  IInv'
<1>0. UNCHANGED <<up, coordinatorVars, learner, execVars, proposeVars>>
  BY DEF HandleByAcceptor
<1>1. TypeInv'
  BY IInvParts, TypeAcceptor
<1>2. ProposalsUnique'
  BY <1>0, IInvParts, BallotUnchanged DEF coordinatorVars
<1>3. ASSUME NEW p \in Received(r, "PREPARE"), HandlePrepare(r, p)
      PROVE  VotesFaithful' /\ BackedInv'
  <2>1. VotesFaithful'
    BY <1>0, <1>3, VotesPromise DEF IInv
  <2>2. PICK m : Exchange(r, {p}, {}, {m}) /\ UNCHANGED votes
                 /\ m.type \in {"PREPARE_OK", "PREPARE_REJECT"}
    <3> DEFINE ap == acceptor[r][p.inst]
               ok == [type |-> "PREPARE_OK", bal |-> ap.proposalAccepted,
                      value |-> ap.value, inst |-> p.inst, from |-> r,
                      for |-> p.bal]
               no == [type |-> "PREPARE_REJECT", bal |-> ap.proposal,
                      inst |-> p.inst, from |-> r, for |-> p.bal]
    <3>1. /\ Exchange(r, {p}, {}, {ok}) \/ Exchange(r, {p}, {}, {no})
          /\ UNCHANGED votes
      BY <1>3 DEF HandlePrepare, Promise, Reject, acceptorVars
    <3>2. ok.type = "PREPARE_OK" /\ no.type = "PREPARE_REJECT"
      OBVIOUS
    <3> HIDE DEF ok, no
    <3> QED BY <3>1, <3>2
  <2>3. \A s \in Replicas : \A q \in inbox'[s] : q \in inbox[s] \/ q = m
    BY <2>2, ExchangeNew
  <2>4. BackedInv'
    BY <1>0, <2>2, <2>3, IInvParts, BackedUnchanged
  <2> QED BY <2>1, <2>4
<1>4. ASSUME NEW p \in Received(r, "ACCEPT"), HandleAccept(r, p)
      PROVE  VotesFaithful' /\ BackedInv'
  <2>1. VotesFaithful'
    BY <1>0, <1>4, VotesAccept DEF IInv
  <2> DEFINE ok == [type |-> "ACCEPT_OK", bal |-> p.bal, value |-> p.value,
                    inst |-> p.inst, from |-> r]
             v == [acc |-> r, inst |-> p.inst, bal |-> p.bal,
                   value |-> p.value]
  <2>2. CASE Ignore(r, p)
    <3>1. Exchange(r, {p}, {}, {}) /\ UNCHANGED votes
      BY <2>2 DEF Ignore, acceptorVars
    <3>2. \A s \in Replicas : \A q \in inbox'[s] : q \in inbox[s]
      BY <3>1, ExchangeNew
    <3>3. BackedInv'
      BY <1>0, <3>1, <3>2, IInvParts, BackedUnchanged
    <3> QED BY <2>1, <3>3
  <2>3. CASE Accept(r, p)
    <3>1. Exchange(r, {p}, {}, {ok}) /\ votes' = votes \cup {v}
      BY <2>3 DEF Accept
    <3>2. /\ ok.type = "ACCEPT_OK"
          /\ v = [acc |-> ok.from, inst |-> ok.inst, bal |-> ok.bal,
                  value |-> ok.value]
      OBVIOUS
    <3> HIDE DEF ok, v
    <3>3. \A s \in Replicas : \A q \in inbox'[s] : q \in inbox[s] \/ q = ok
      BY <3>1, ExchangeNew
    <3>4. BackedInv'
      BY <1>0, <3>1, <3>2, <3>3, IInvParts, BackedUnchanged
    <3> QED BY <2>1, <3>4
  <2> QED BY <1>4, <2>2, <2>3 DEF HandleAccept
<1> QED BY <1>1, <1>2, <1>3, <1>4, IInvParts DEF HandleByAcceptor

\* A learner, with what follows from a value learnt, sends COMMIT and LEARN.
LEMMA LearnerSends ==
  ASSUME NEW r \in Replicas,
         HandleAcceptOK(r) \/ HandleCommit(r) \/ HandleNop(r)
  PROVE  /\ UNCHANGED <<acceptorVars, proto, nextproposal, accepts>>
         /\ \A s \in Replicas : \A q \in inbox'[s] :
              q \in inbox[s] \/ q.type \in {"COMMIT", "LEARN"}
<1>1. PICK p, protos, out :
        /\ \A m \in out : m.type = "COMMIT"
        /\ \/ \E i, v : Learnt(r, p, i, v, protos, out)
           \/ NothingLearnt(r, p, protos, out)
  <2>1. CASE HandleAcceptOK(r)
    <3>1. PICK p, protos :
            /\ p \in Received(r, "ACCEPT_OK")
            /\ \/ Learnt(r, p, p.inst, p.value, protos,
                    {[type |-> "COMMIT", value |-> p.value, inst |-> p.inst]})
               \/ NothingLearnt(r, p, protos, {})
      BY <2>1 DEF HandleAcceptOK
    <3> DEFINE m == [type |-> "COMMIT", value |-> p.value, inst |-> p.inst]
    <3>2. m.type = "COMMIT"
      OBVIOUS
    <3>3. Learnt(r, p, p.inst, p.value, protos, {m})
            \/ NothingLearnt(r, p, protos, {})
      BY <3>1
    <3> HIDE DEF m
    <3> QED BY <3>2, <3>3
  <2>2. CASE HandleCommit(r)
    <3>1. PICK p, protos :
            /\ p \in Received(r, "COMMIT")
            /\ \/ Learnt(r, p, p.inst, p.value, protos, {})
               \/ NothingLearnt(r, p, protos, {})
      BY <2>2 DEF HandleCommit
    <3> QED BY <3>1
  <2>3. CASE HandleNop(r)
    <3>1. PICK p \in Received(r, "NOP") :
            NothingLearnt(r, p, learner[r],
              {m \in {[type |-> "COMMIT", value |-> learner[r][p.inst].value,
                       inst |-> p.inst]} : learner[r][p.inst].commit})
      BY <2>3 DEF HandleNop
    <3> QED BY <3>1
  <2> QED BY <2>1, <2>2, <2>3
<1>2. /\ UNCHANGED <<acceptorVars, proto, nextproposal, accepts>>
      /\ \E local : /\ Exchange(r, {p}, local, out)
                    /\ \A m \in local : m.type = "LEARN"
  <2>1. CASE NothingLearnt(r, p, protos, out)
    BY <2>1 DEF NothingLearnt, coordinatorVars
  <2>2. CASE \E i, v : Learnt(r, p, i, v, protos, out)
    <3>1. PICK i, v : Learnt(r, p, i, v, protos, out)
      BY <2>2
    <3> DEFINE highest == IF i > highestLearnt[r] THEN i
                                                  ELSE highestLearnt[r]
               asks == {[type |-> "LEARN", inst |-> j] :
                          j \in Missing(protos, highest)}
    <3>2. \A m \in asks : m.type = "LEARN"
      OBVIOUS
    <3>3. /\ Exchange(r, {p}, {}, out) \/ Exchange(r, {p}, asks, out)
          /\ UNCHANGED <<acceptorVars, proto, nextproposal, accepts>>
      BY <3>1 DEF Learnt
    <3> HIDE DEF asks
    <3> QED BY <3>2, <3>3
  <2> QED BY <1>1, <2>1, <2>2
<1>3. \A s \in Replicas : \A q \in inbox'[s] :
        q \in inbox[s] \/ q.type \in {"COMMIT", "LEARN"}
  BY <1>1, <1>2, ExchangeNew
<1> QED BY <1>2, <1>3

\* What a learner does keeps the invariant.
LEMMA IInvLearner ==
  ASSUME IInv, NEW r \in Replicas,
         HandleAcceptOK(r) \/ HandleCommit(r) \/ HandleNop(r)
  PROVE  IInv'
<1>1. TypeInv'
  BY IInvParts, TypeAcceptOK, TypeCommit, TypeNop
<1>2. BackedInv'
  BY BackedAcceptOK, BackedCommit, BackedNop
<1>3. /\ UNCHANGED <<acceptorVars, proto, nextproposal, accepts>>
      /\ \A s \in Replicas : \A q \in inbox'[s] :
           q \in inbox[s] \/ q.type \in {"COMMIT", "LEARN"}
  BY LearnerSends
<1>4. ProposalsUnique'
  BY <1>3, IInvParts, BallotUnchanged
<1>5. VotesFaithful'
  BY <1>3, IInvParts, VotesUnchanged
<1> QED BY <1>1, <1>2, <1>4, <1>5, IInvParts

\* Nothing changes in a stuttering step.
LEMMA IInvStutter ==
  ASSUME IInv, UNCHANGED vars
  PROVE  IInv'
<1>1. TypeInv'
  BY IInvParts
  DEF vars, acceptorVars, coordinatorVars, execVars, proposeVars, TypeInv,
      TypeOK, NetTypeOK, AcceptorTypeOK, CoordinatorTypeOK, LearnerTypeOK,
      ValuesPresent
<1>2. /\ UNCHANGED <<proto, nextproposal, accepts, acceptorVars, learner, inbox>>
      /\ UNCHANGED votes
  BY DEF vars, coordinatorVars, acceptorVars
<1>3. ProposalsUnique'
  BY <1>2, IInvParts, BallotUnchanged
<1>4. VotesFaithful'
  BY <1>2, IInvParts, VotesUnchanged
<1>5. BackedInv'
  BY <1>2, IInvParts, BackedUnchanged
<1> QED BY <1>1, <1>3, <1>4, <1>5, IInvParts

\* IInv is inductive.
LEMMA IInvStep == IInv /\ [Next]_vars => IInv'
<1> SUFFICES ASSUME IInv, [Next]_vars PROVE IInv'
  OBVIOUS
<1>1. ASSUME NEW r \in Late, Start(r) PROVE IInv'
  BY <1>1, IInvStart
<1>2. ASSUME NEW r \in Proposers, ProposeCommand(r) PROVE IInv'
  BY <1>2, IInvProposeCommand
<1>3. ASSUME NEW r \in Replicas, Epoch(r) PROVE IInv'
  BY <1>3, IInvEpoch
<1>4. ASSUME NEW r \in Replicas, HandleOperate(r) PROVE IInv'
  BY <1>4, IInvPropose, IInvCoordinator, IInvAcceptor, IInvLearner
  DEF HandleOperate
<1>5. CASE UNCHANGED vars
  BY <1>5, IInvStutter
<1> QED BY <1>1, <1>2, <1>3, <1>4, <1>5 DEF Next

-----------------------------------------------------------------------------
(* What holds in every reachable state, for every number of replicas.      *)

\* The parts of the inductive invariant that the runs check too.
LEMMA IInvImplies ==
  IInv => TypeOK /\ OneValuePerBallot /\ PromiseKept /\ CommitHasQuorum
<1> SUFFICES ASSUME IInv
             PROVE  TypeOK /\ OneValuePerBallot /\ PromiseKept
                    /\ CommitHasQuorum
  OBVIOUS
<1>1. TypeOK /\ OneValuePerBallot /\ PromiseKept
  BY IInvParts DEF TypeInv, ProposalsUnique, VotesFaithful
<1>2. CommitHasQuorum
  BY IInvParts
  DEF BackedInv, Backed, VotersIn, CommitHasQuorum, ChosenIn, Voters
<1> QED BY <1>1, <1>2

\* The invariant holds in every state of every execution.
THEOREM Invariance == Spec => []IInv
BY IInvInit, IInvStep, PTL DEF Spec

\* Every handler leaves the state of all three roles within its types, the
\* proposal numbers of newProposalNumber included.
THEOREM TypeCorrect == Spec => []TypeOK
BY Invariance, IInvImplies, PTL

\* newProposalNumber never gives out a number twice, within or across
\* replicas, and a coordinator sends one ACCEPT for each: a ballot has one
\* value.
THEOREM BallotsHaveOneValue == Spec => []OneValuePerBallot
BY Invariance, IInvImplies, PTL

\* An acceptor that reported its vote in a PREPARE_OK has not voted since in
\* a ballot between that vote and the one it promised.
THEOREM PromisesAreKept == Spec => []PromiseKept
BY Invariance, IInvImplies, PTL

\* Counted, told by a COMMIT or recovered by NOP: no learner holds a value
\* that Q acceptors did not vote for in one ballot.
THEOREM CommitsHaveQuorum == Spec => []CommitHasQuorum
BY Invariance, IInvImplies, PTL

=============================================================================
