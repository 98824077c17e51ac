------------------------------ MODULE PaxosNet ------------------------------
(***************************************************************************)
(* What the replicas of contrib/libpaxos exchange.  Every packet a replica *)
(* receives, from another replica or from itself, waits in a goroutine of  *)
(* its own (Libpaxos.operate) until the one operateHandler goroutine takes *)
(* it: packets are handled one at a time, in any order, each at most once. *)
(* inbox[r] is the set of packets waiting at replica r.                    *)
(*                                                                         *)
(* A broadcast skips the replicas that cannot be dialled: those that have  *)
(* not started yet, and those that Reach excludes for a type of message in *)
(* the runs that need it.  A packet lost otherwise is one that waits for   *)
(* ever.                                                                   *)
(*                                                                         *)
(* Replicas are named by their nodepos.  A value is the string             *)
(* nodepos$$counter$$command of getModifiedValue: its first two parts      *)
(* identify it, so the command is left out.                                *)
(***************************************************************************)
EXTENDS Integers, FiniteSets

CONSTANTS
  N,            \* number of replicas
  Q,            \* quorum, a parameter of NewLibpaxos
  Reach,        \* message type -> the replicas its broadcasts may get to
  MaxPropose,   \* bound: commands proposed by one replica
  MaxInstance,  \* bound: instance numbers
  MaxEpoch      \* bound: ticks of one replica's retry timer

Replicas == 1 .. N
Instances == 1 .. MaxInstance
Broadcasts == {"PREPARE", "PREPARE_OK", "PREPARE_REJECT",
               "ACCEPT", "ACCEPT_OK", "NOP", "COMMIT"}

ASSUME NAssumption == N \in Nat \ {0}
ASSUME QAssumption == Q \in 1 .. N
ASSUME ReachAssumption == Reach \in [Broadcasts -> SUBSET Replicas]
ASSUME BoundsAssumption ==
  /\ MaxPropose \in Nat
  /\ MaxInstance \in Nat
  /\ MaxEpoch \in Nat

VARIABLES
  inbox,   \* inbox[r]: the packets waiting for r's operateHandler
  up       \* the replicas that have started

Values == [node : Replicas, counter : 0 .. MaxPropose - 1]
NoValue == [node |-> 0, counter |-> 0]    \* the empty string

(***************************************************************************)
(* Packets, with the fields their handlers read.  The code's PREPARE_OK    *)
(* and PREPARE_REJECT do not say which PREPARE they answer: "for" is a     *)
(* history field that no handler reads to decide anything; like "round",   *)
(* the timer tick that repeated a PROPOSE, it also keeps equal packets     *)
(* apart in the set.  ACCEPT_REJECT is left out, for no handler has a case *)
(* for it.                                                                 *)
(***************************************************************************)
Packet ==
       [type : {"PROPOSE"}, value : Values, round : 0 .. MaxEpoch]
  \cup [type : {"LEARN", "NOP"}, inst : Instances]
  \cup [type : {"PREPARE"}, bal : Nat \ {0}, inst : Instances]
  \cup [type : {"PREPARE_OK"}, bal : Nat, value : Values \cup {NoValue},
        inst : Instances, from : Replicas, for : Nat \ {0}]
  \cup [type : {"PREPARE_REJECT"}, bal : Nat, inst : Instances,
        from : Replicas, for : Nat \ {0}]
  \cup [type : {"ACCEPT"}, bal : Nat \ {0}, value : Values, inst : Instances]
  \cup [type : {"ACCEPT_OK"}, bal : Nat \ {0}, value : Values,
        inst : Instances, from : Replicas]
  \cup [type : {"COMMIT"}, value : Values, inst : Instances]

NetTypeOK ==
  /\ inbox \in [Replicas -> SUBSET Packet]
  /\ up \subseteq Replicas

(***************************************************************************)
(* Replica r is done with the packets in "done", queues the packets in     *)
(* "local" for itself and broadcasts the messages in "out" to those it     *)
(* can dial.                                                               *)
(***************************************************************************)
Exchange(r, done, local, out) ==
  inbox' = [s \in Replicas |->
              (IF s = r THEN (inbox[s] \ done) \cup local ELSE inbox[s])
              \cup {m \in out : s \in up \cap Reach[m.type]}]

Received(r, type) == {p \in inbox[r] : p.type = type}

=============================================================================
