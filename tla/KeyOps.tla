------------------------------- MODULE KeyOps -------------------------------
(***************************************************************************)
(* What the calls of StorageRPC do to the value of a key and what they     *)
(* answer, contrib/storageimpl/storageimpl.go seen from outside.  A value  *)
(* is a string, a list without duplicates, or nothing.                     *)
(***************************************************************************)
EXTENDS Sequences, SequencesExt

Nothing == [kind |-> "none"]
Text(s) == [kind |-> "string", text |-> s]
ListOf(items) == [kind |-> "list", items |-> items]

Reads == {"Get", "GetList"}
Writes == {"Put", "Append", "Remove"}

Listed(v, x) == v.kind = "list" /\ Contains(v.items, x)

Place(items, x) == CHOOSE i \in DOMAIN items : items[i] = x

\* The value that write r leaves when it finds v.
After(v, r) ==
  CASE r.op = "Put"    -> Text(r.arg)
    [] r.op = "Append" -> IF v.kind # "list" THEN ListOf(<<r.arg>>)
                          ELSE IF Listed(v, r.arg) THEN v
                          ELSE ListOf(Append(v.items, r.arg))
    [] r.op = "Remove" -> IF ~Listed(v, r.arg) THEN v
                          ELSE ListOf(RemoveAt(v.items, Place(v.items, r.arg)))
    [] OTHER           -> v

Ok == [kind |-> "ok"]
Failed == [kind |-> "failed"]

\* Put always succeeds, a list operation if it changes the list.
Status(v, r) ==
  IF \/ r.op = "Put"
     \/ r.op = "Append" /\ ~Listed(v, r.arg)
     \/ r.op = "Remove" /\ Listed(v, r.arg)
  THEN Ok ELSE Failed

\* A list is not found by Get; a string is an empty list to GetList.
Reading(v, op) ==
  IF op = "Get"
  THEN IF v.kind = "string" THEN v ELSE Nothing
  ELSE IF v.kind = "string" THEN ListOf(<<>>) ELSE v

Answer(v, r) == IF r.op \in Reads THEN Reading(v, r.op)
                                  ELSE Status(v, r)

=============================================================================
