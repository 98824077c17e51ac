----------------------------- MODULE MCLibpaxos -----------------------------
(***************************************************************************)
(* Small groups of replicas for TLC.  Each Reach leaves out broadcasts to  *)
(* replicas that do not act on them in the run (a replica that proposes    *)
(* nothing ignores PREPARE_OK and PREPARE_REJECT) or whose part the run    *)
(* does not look at.                                                       *)
(***************************************************************************)
EXTENDS Libpaxos

All == 1 .. N
Nobody == {}
Replica1 == {1}
Replica3 == {3}
Replicas12 == {1, 2}

Everywhere == [t \in Broadcasts |-> All]

\* Coordinators 1 and 2, acceptors 1 to 3, nobody learns.
ToAcceptors == [t \in Broadcasts |->
  CASE t = "PREPARE"    -> All
    [] t = "PREPARE_OK" -> {1, 2}
    [] t = "ACCEPT"     -> {2, 3}
    [] OTHER            -> {}]

\* Replica 1 proposes, 2 votes, and 2 and 3 learn by COMMIT only.
LateLearner == [t \in Broadcasts |->
  CASE t \in {"PREPARE", "ACCEPT"} -> {1, 2}
    [] t = "COMMIT"                -> All
    [] OTHER                       -> {1}]

\* Replica 3 proposes, 1 and 2 vote, and 1 learns.
FromReplica3 == [t \in Broadcasts |->
  CASE t = "PREPARE_OK"                   -> {3}
    [] t \in {"PREPARE", "ACCEPT", "NOP"} -> {1, 2}
    [] t \in {"ACCEPT_OK", "COMMIT"}      -> {1}
    [] OTHER                              -> {}]
=============================================================================
