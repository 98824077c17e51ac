---------------------------- MODULE Coordinator ----------------------------
(***************************************************************************)
(* The coordinator role of a replica, contrib/libpaxos/coordinator.go.     *)
(***************************************************************************)
EXTENDS PaxosNet

VARIABLES
  proto,         \* proto[r][i]: r's CoordinatorProtocol for instance i
  instance,      \* Coordinator.instance: the last instance number used
  nextproposal,  \* Coordinator.nextproposal
  highproposal,  \* Coordinator.highproposal
  accepts        \* history: the ACCEPTs broadcast

coordinatorVars ==
  <<proto, instance, nextproposal, highproposal, accepts>>

\* nvalue = NoValue until the ACCEPT is sent.  answered is a history field:
\* the proposals that the PREPARE_OKs counted for this one answer.
CoordinatorProtocol ==
  [pvalue : Values \cup {NoValue}, aproposal : Nat,
   avalue : Values \cup {NoValue}, nvalue : Values \cup {NoValue},
   responses : SUBSET Replicas, proposal : Nat, answered : SUBSET Nat]

CoordinatorTypeOK ==
  /\ proto \in [Replicas -> [Instances -> CoordinatorProtocol]]
  /\ instance \in [Replicas -> 0 .. MaxInstance]
  /\ nextproposal \in [Replicas -> Nat \ {0}]
  /\ highproposal \in [Replicas -> Nat]
  /\ accepts \subseteq [inst : Instances, bal : Nat \ {0},
                        value : Values, answered : SUBSET Nat]

FreshProto(v, b) ==
  [pvalue |-> v, aproposal |-> 0, avalue |-> NoValue, nvalue |-> NoValue,
   responses |-> {}, proposal |-> b, answered |-> {}]

\* Proposal numbers start at nodepos >= 1: 0 stands for an absent entry.
Absent == FreshProto(NoValue, 0)

CoordinatorInit ==
  /\ proto = [r \in Replicas |-> [i \in Instances |-> Absent]]
  /\ instance = [r \in Replicas |-> 0]
  /\ nextproposal = [r \in Replicas |-> r]
  /\ highproposal = [r \in Replicas |-> 0]
  /\ accepts = {}

\* newProposalNumber's loop: the first number after p, in steps of N, that
\* is not below high.
NextProposal(p, high) ==
  IF p + N >= high THEN p + N
                   ELSE p + (1 + ((high - p - 1) \div N)) * N

Propose(r, p) ==
  LET b == nextproposal[r]
      i == instance[r] + 1 IN
  /\ i \in Instances
  /\ nextproposal' = [nextproposal EXCEPT
                        ![r] = NextProposal(@, highproposal[r])]
  /\ instance' = [instance EXCEPT ![r] = i]
  /\ proto' = [proto EXCEPT ![r][i] = FreshProto(p.value, b)]
  /\ Exchange(r, {p}, {}, {[type |-> "PREPARE", bal |-> b, inst |-> i]})
  /\ UNCHANGED <<highproposal, accepts>>

\* What a PREPARE_OK adds to the protocol record, before the quorum test.
Counted(cp, p) ==
  [cp EXCEPT !.aproposal = IF p.bal > @ THEN p.bal ELSE @,
             !.avalue    = IF p.bal > cp.aproposal THEN p.value ELSE @,
             !.responses = @ \cup {p.from},
             !.answered  = @ \cup {p.for}]

\* Mutation: the own value, whatever the acceptors voted for before.
ChosenOwn(cp) == cp.pvalue

\* Mutation: always a value reported by an acceptor.
ChosenReported(cp) == cp.avalue

Chosen(cp) == IF cp.aproposal > 0 THEN cp.avalue ELSE cp.pvalue

\* Mutation: an ACCEPT for every PREPARE_OK beyond the quorum.
AwaitedAlways(r, p) == proto[r][p.inst].proposal # 0

\* A PREPARE_OK matters only between the PREPARE and the ACCEPT.
Awaited(r, p) ==
  /\ proto[r][p.inst].proposal # 0
  /\ proto[r][p.inst].nvalue = NoValue

CountPromise(r, p) ==
  LET cp == Counted(proto[r][p.inst], p) IN
  /\ Awaited(r, p)
  /\ Cardinality(cp.responses) < Q
  /\ proto' = [proto EXCEPT ![r][p.inst] = cp]
  /\ Exchange(r, {p}, {}, {})
  /\ UNCHANGED <<instance, nextproposal, highproposal, accepts>>

SendAccept(r, p) ==
  LET cp == Counted(proto[r][p.inst], p) IN
  /\ Awaited(r, p)
  /\ Cardinality(cp.responses) >= Q
  /\ proto' = [proto EXCEPT ![r][p.inst] = [cp EXCEPT !.nvalue = Chosen(cp)]]
  /\ accepts' = accepts \cup {[inst |-> p.inst, bal |-> cp.proposal,
                               value |-> Chosen(cp), answered |-> cp.answered]}
  /\ Exchange(r, {p}, {}, {[type |-> "ACCEPT", bal |-> cp.proposal,
                            value |-> Chosen(cp), inst |-> p.inst]})
  /\ UNCHANGED <<instance, nextproposal, highproposal>>

IgnorePromise(r, p) ==
  /\ ~Awaited(r, p)
  /\ Exchange(r, {p}, {}, {})
  /\ UNCHANGED coordinatorVars

HandlePrepareOK(r, p) ==
  CountPromise(r, p) \/ SendAccept(r, p) \/ IgnorePromise(r, p)

HandlePrepareReject(r, p) ==
  /\ highproposal' = [highproposal EXCEPT ![r] = p.bal]
  /\ Exchange(r, {p}, {}, {})
  /\ UNCHANGED <<proto, instance, nextproposal, accepts>>

\* LEARN: ask every replica for the value of an instance missed here.
AskForMissing(r, p) ==
  /\ Exchange(r, {p}, {}, {[type |-> "NOP", inst |-> p.inst]})
  /\ UNCHANGED coordinatorVars

=============================================================================
