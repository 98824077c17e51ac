----------------------------- MODULE CommandLog -----------------------------
(***************************************************************************)
(* What contrib/libpaxos promises to the program on each replica (the      *)
(* PaxosClient): every command handed to PaxosResponse was proposed by     *)
(* somebody; a value committed for an instance stays; commands are handed  *)
(* over in the order of their instances, starting with the first and       *)
(* skipping none, and the same one is not handed over twice.               *)
(*                                                                         *)
(* That two replicas commit the same value is not promised here: it is not *)
(* true of the code (see Libpaxos!Agreement).                              *)
(***************************************************************************)
EXTENDS Distinct, SequencesExt

CONSTANTS
  Replicas, Instances, Values,
  None         \* not one of Values

VARIABLES
  proposed,    \* the values proposed so far
  committed,   \* committed[r][i]: the value r holds for instance i, or None
  applied      \* applied[r]: the values handed over at r, in order

logVars == <<proposed, committed, applied>>

Init ==
  /\ proposed = {}
  /\ committed = [r \in Replicas |-> [i \in Instances |-> None]]
  /\ applied = [r \in Replicas |-> <<>>]

Propose(v) ==
  /\ v \notin proposed
  /\ proposed' = proposed \cup {v}
  /\ UNCHANGED <<committed, applied>>

\* Replica r commits v for instance i, and may hand over what is complete.
Commit(r, i, v) ==
  /\ v \in proposed
  /\ committed[r][i] = None
  /\ committed' = [committed EXCEPT ![r][i] = v]
  /\ \E n \in {0} \cup Instances :
       /\ \A j \in 1 .. n : committed'[r][j] # None
       /\ IsPrefix(applied[r], DistinctValues(committed'[r], n))
       /\ applied' = [applied EXCEPT ![r] = DistinctValues(committed'[r], n)]
  /\ UNCHANGED proposed

Next ==
  \/ \E v \in Values : Propose(v)
  \/ \E r \in Replicas, i \in Instances, v \in Values : Commit(r, i, v)

Spec == Init /\ [][Next]_logVars

=============================================================================
