------------------------------ MODULE Learner ------------------------------
(***************************************************************************)
(* The learner role of a replica, contrib/libpaxos/learner.go.             *)
(***************************************************************************)
EXTENDS PaxosNet

VARIABLE learner   \* learner[r][i]: r's LearnerProtocol for instance i

\* votes stands for both maps of the code: responses is the set of replicas
\* it gives a value to, valueCounts[v] the number of those that voted v.
LearnerProtocol ==
  [proposal : Nat, votes : [Replicas -> Values \cup {NoValue}],
   commit : BOOLEAN, value : Values \cup {NoValue}]

LearnerTypeOK == learner \in [Replicas -> [Instances -> LearnerProtocol]]

NoVotes == [s \in Replicas |-> NoValue]

LearnerInit ==
  learner = [r \in Replicas |-> [i \in Instances |->
               [proposal |-> 0, votes |-> NoVotes,
                commit |-> FALSE, value |-> NoValue]]]

\* Libpaxos calls getHistory after every value learnt.
History(protos) == {i \in Instances : protos[i].commit}

VotesFor(lp, v) == {s \in Replicas : lp.votes[s] = v}

\* Mutation: votes of different ballots add up.
AtBallotKeepingVotes(lp, b) ==
  IF b > lp.proposal THEN [lp EXCEPT !.proposal = b] ELSE lp

\* A vote in a higher ballot discards those counted so far.
AtBallot(lp, b) ==
  IF b > lp.proposal
  THEN [lp EXCEPT !.proposal = b, !.votes = NoVotes]
  ELSE lp

\* The first vote of p.from in the highest ballot seen counts.
Counts(lp, p) ==
  /\ ~lp.commit
  /\ p.bal >= lp.proposal
  /\ AtBallot(lp, p.bal).votes[p.from] = NoValue

WithVote(lp, p) ==
  [AtBallot(lp, p.bal) EXCEPT !.votes[p.from] = p.value]

\* Mutation: one vote more than the quorum.
ReachedAbove(lp, v) == Cardinality(VotesFor(lp, v)) > Q

Reached(lp, v) == Cardinality(VotesFor(lp, v)) >= Q

Committed(lp, v) == [lp EXCEPT !.commit = TRUE, !.value = v]

=============================================================================
