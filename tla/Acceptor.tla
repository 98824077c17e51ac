------------------------------ MODULE Acceptor ------------------------------
(***************************************************************************)
(* The acceptor role of a replica, contrib/libpaxos/acceptor.go.           *)
(***************************************************************************)
EXTENDS PaxosNet

VARIABLES
  acceptor,   \* acceptor[r][i]: r's AcceptorProtocol for instance i
  promises,   \* history: the PREPAREs that were answered by PREPARE_OK
  votes       \* history: the ACCEPTs that were answered by ACCEPT_OK

acceptorVars == <<acceptor, promises, votes>>

AcceptorProtocol == [proposal : Nat, value : Values \cup {NoValue},
                     proposalAccepted : Nat]

AcceptorTypeOK ==
  /\ acceptor \in [Replicas -> [Instances -> AcceptorProtocol]]
  /\ promises \subseteq [acc : Replicas, inst : Instances,
                         bal : Nat \ {0}, prior : Nat]
  /\ votes \subseteq [acc : Replicas, inst : Instances,
                      bal : Nat \ {0}, value : Values]

\* An absent entry of the code's map reads as a fresh AcceptorProtocol.
AcceptorInit ==
  /\ acceptor = [r \in Replicas |-> [i \in Instances |->
                   [proposal |-> 0, value |-> NoValue,
                    proposalAccepted |-> 0]]]
  /\ promises = {}
  /\ votes = {}

Promise(r, p) ==
  LET ap == acceptor[r][p.inst] IN
  /\ p.bal > ap.proposal
  /\ acceptor' = [acceptor EXCEPT ![r][p.inst].proposal = p.bal]
  /\ promises' = promises \cup {[acc |-> r, inst |-> p.inst, bal |-> p.bal,
                                 prior |-> ap.proposalAccepted]}
  /\ Exchange(r, {p}, {},
       {[type |-> "PREPARE_OK", bal |-> ap.proposalAccepted,
         value |-> ap.value, inst |-> p.inst, from |-> r, for |-> p.bal]})
  /\ UNCHANGED votes

Reject(r, p) ==
  LET ap == acceptor[r][p.inst] IN
  /\ p.bal <= ap.proposal
  /\ Exchange(r, {p}, {},
       {[type |-> "PREPARE_REJECT", bal |-> ap.proposal, inst |-> p.inst,
         from |-> r, for |-> p.bal]})
  /\ UNCHANGED acceptorVars

HandlePrepare(r, p) == Promise(r, p) \/ Reject(r, p)

\* Mutation: the promise is not looked at.
MayAcceptAnything(ap, p) == p.bal # ap.proposalAccepted

\* The acceptor votes for p unless it promised more or voted in p's ballot.
MayAccept(ap, p) == p.bal >= ap.proposal /\ p.bal # ap.proposalAccepted

Accept(r, p) ==
  /\ MayAccept(acceptor[r][p.inst], p)
  /\ acceptor' = [acceptor EXCEPT ![r][p.inst] =
                    [proposal |-> p.bal, value |-> p.value,
                     proposalAccepted |-> p.bal]]
  /\ votes' = votes \cup {[acc |-> r, inst |-> p.inst, bal |-> p.bal,
                           value |-> p.value]}
  /\ Exchange(r, {p}, {},
       {[type |-> "ACCEPT_OK", bal |-> p.bal, value |-> p.value,
         inst |-> p.inst, from |-> r]})
  /\ UNCHANGED promises

\* An ACCEPT_REJECT, which nobody reads, or no answer at all.
Ignore(r, p) ==
  /\ ~MayAccept(acceptor[r][p.inst], p)
  /\ Exchange(r, {p}, {}, {})
  /\ UNCHANGED acceptorVars

HandleAccept(r, p) == Accept(r, p) \/ Ignore(r, p)

=============================================================================
