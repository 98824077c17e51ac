---------------------------- MODULE AtomicCommit ----------------------------
(***************************************************************************)
(* What two-phase commit promises for each booking: its airlines all       *)
(* commit or none does, an airline commits only when all of them are       *)
(* prepared, and the client is told which way it went.                     *)
(***************************************************************************)
CONSTANTS Trans, Parts   \* Parts[t]: the airlines asked in t

VARIABLES
  state,    \* state[t][a]: working, prepared, aborted or committed
  answer    \* answer[t]: none, booked or failed

vars == <<state, answer>>

Init ==
  /\ state = [t \in Trans |-> [a \in Parts[t] |-> "working"]]
  /\ answer = [t \in Trans |-> "none"]

AllIn(t, S) == \A a \in Parts[t] : state[t][a] \in S

Move(t, a, to) ==
  /\ state' = [state EXCEPT ![t][a] = to]
  /\ UNCHANGED answer

Prepare(t, a) == state[t][a] = "working" /\ Move(t, a, "prepared")

\* Alone as long as a is working, with some other airline afterwards.
Abort(t, a) ==
  /\ \/ state[t][a] = "working"
     \/ state[t][a] = "prepared" /\ \E b \in Parts[t] : state[t][b] = "aborted"
  /\ Move(t, a, "aborted")

Commit(t, a) ==
  /\ state[t][a] = "prepared"
  /\ AllIn(t, {"prepared", "committed"})
  /\ Move(t, a, "committed")

Answer(t) ==
  /\ answer[t] = "none"
  /\ \/ /\ AllIn(t, {"prepared", "committed"})
        /\ answer' = [answer EXCEPT ![t] = "booked"]
     \/ /\ \E a \in Parts[t] : state[t][a] = "aborted"
        /\ answer' = [answer EXCEPT ![t] = "failed"]
  /\ UNCHANGED state

Next ==
  \E t \in Trans :
    \/ \E a \in Parts[t] : Prepare(t, a) \/ Abort(t, a) \/ Commit(t, a)
    \/ Answer(t)

Spec == Init /\ [][Next]_vars

=============================================================================
