------------------------------ MODULE HashList ------------------------------
(***************************************************************************)
(* The doubly linked list with an index by value of                        *)
(* contrib/storageimpl/hashlist.go.  An element is named by its value: the *)
(* callers insert a value only if it is not in the list.                   *)
(***************************************************************************)
EXTENDS Naturals, Functions

CONSTANT Nil    \* the nil pointer

\* The listMap is the domain of next and of before.
NewHashList == [head |-> Nil, tail |-> Nil, next |-> <<>>, before |-> <<>>,
                cnt |-> 0]

Exist(hl, val) == val \in DOMAIN hl.next

\* f with x mapped to y, unless x is Nil.
Link(f, x, y) == IF x = Nil THEN f
                 ELSE [z \in DOMAIN f \cup {x} |-> IF z = x THEN y ELSE f[z]]

Insert(hl, val) ==
  [head   |-> IF hl.head = Nil THEN val ELSE hl.head,
   tail   |-> val,
   next   |-> Link(Link(hl.next, hl.tail, val), val, Nil),
   before |-> Link(hl.before, val, hl.tail),
   cnt    |-> hl.cnt + 1]

\* Mutation: the tail is not moved when the last element goes.
RemoveKeepingTail(hl, val) ==
  LET b == hl.before[val]
      n == hl.next[val]
      rest == DOMAIN hl.next \ {val}
  IN [head   |-> IF hl.head = val THEN n ELSE hl.head,
      tail   |-> hl.tail,
      next   |-> Restrict(Link(hl.next, b, n), rest),
      before |-> Restrict(Link(hl.before, n, b), rest),
      cnt    |-> hl.cnt - 1]

Remove(hl, val) ==
  LET b == hl.before[val]
      n == hl.next[val]
      rest == DOMAIN hl.next \ {val}
  IN [head   |-> IF hl.head = val THEN n ELSE hl.head,
      tail   |-> IF hl.tail = val THEN b ELSE hl.tail,
      next   |-> Restrict(Link(hl.next, b, n), rest),
      before |-> Restrict(Link(hl.before, n, b), rest),
      cnt    |-> hl.cnt - 1]

\* The element that lp points to after i steps from the head.
List(hl) ==
  LET lp[i \in 1 .. hl.cnt] == IF i = 1 THEN hl.head ELSE hl.next[lp[i - 1]]
  IN [i \in 1 .. hl.cnt |-> lp[i]]

=============================================================================
