------------------------------ MODULE KeyValue ------------------------------
(***************************************************************************)
(* What a storage server promises to the goroutines that call it: each     *)
(* call takes effect once, at one moment between its beginning and its     *)
(* end, and is answered by what it found then.                             *)
(***************************************************************************)
EXTENDS KeyOps

CONSTANTS
  Keys, Callers,
  Calls,    \* Calls[p]: the requests that p makes
  Before,   \* Before[k]: the value of key k at first
  Nil       \* no request, no answer

VARIABLES
  data,      \* data[k]: the value of key k
  request,   \* request[p]: what p asked for and has not got back
  answer     \* answer[p]: the result, once the call took effect

Init ==
  /\ data = Before
  /\ request = [p \in Callers |-> Nil]
  /\ answer = [p \in Callers |-> Nil]

Call(p) ==
  /\ request[p] = Nil
  /\ \E r \in Calls[p] : request' = [request EXCEPT ![p] = r]
  /\ UNCHANGED <<data, answer>>

Pending == {p \in Callers : request[p] # Nil /\ answer[p] = Nil}

\* The call of p takes effect on [data, answer].
Effect(at, p) ==
  LET r == request[p]
      v == at.data[r.key]
  IN [data   |-> [at.data EXCEPT ![r.key] = After(v, r)],
      answer |-> [at.answer EXCEPT ![p] = Answer(v, r)]]

\* Some calls take effect, one after the other.
Serve ==
  \E ps \in SetToAllKPermutations(Pending) :
    LET to == FoldLeft(Effect, [data |-> data, answer |-> answer], ps) IN
    /\ data' = to.data
    /\ answer' = to.answer
    /\ UNCHANGED request

Return(p) ==
  /\ answer[p] # Nil
  /\ request' = [request EXCEPT ![p] = Nil]
  /\ answer' = [answer EXCEPT ![p] = Nil]
  /\ UNCHANGED data

Next == Serve \/ \E p \in Callers : Call(p) \/ Return(p)

Spec == Init /\ [][Next]_<<data, request, answer>>

=============================================================================
