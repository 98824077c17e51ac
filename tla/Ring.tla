-------------------------------- MODULE Ring --------------------------------
(***************************************************************************)
(* The storage servers of an agency: how they find each other, and which   *)
(* of them keeps which key, contrib/storageimpl/storageimpl.go and         *)
(* contrib/libstore/libstore-impl.go.                                      *)
(***************************************************************************)
EXTENDS Integers, Sequences, SequencesExt, FiniteSets, FiniteSetsExt

CONSTANTS
  StorageServers, Master,
  NumNodes,      \* the number of servers that the master waits for
  NodeID,        \* NodeID[s]: the place of s on the ring
  RingSize,      \* the number of places, 2^32 in the code
  Storehash      \* Storehash[u]: the place of what is kept for u

ASSUME RingAssumption ==
  /\ Master \in StorageServers
  /\ NumNodes \in Nat \ {0}
  /\ RingSize \in Nat \ {0}
  /\ NodeID \in [StorageServers -> 0 .. RingSize - 1]
  /\ \A u \in DOMAIN Storehash : Storehash[u] \in 0 .. RingSize - 1

VARIABLES
  slots,    \* the master's servers: the first cntnodes of them
  ring      \* ring[s]: the servers that slave s was told; <<>> at first

ringVars == <<slots, ring>>

Slaves == StorageServers \ {Master}

RingTypeOK ==
  /\ slots \in Seq(StorageServers) /\ Len(slots) \in 1 .. NumNodes
  /\ \A s \in Slaves : ring[s] = <<>> \/ Len(ring[s]) = NumNodes

RingInit ==
  /\ slots = <<Master>>
  /\ ring = [s \in Slaves |-> <<>>]

Ready == Len(slots) = NumNodes

\* Mutation: one slot more than there are.
FreeSlotOrOneMore == Len(slots) <= NumNodes

FreeSlot == Len(slots) < NumNodes

\* Mutation: a slave that has a slot already is not told when they are taken.
RegisterOnce(s) ==
  /\ s \notin ToSet(slots)
  /\ slots' = IF FreeSlot THEN Append(slots, s) ELSE slots
  /\ ring' = [ring EXCEPT ![s] = IF Ready' THEN slots' ELSE <<>>]

\* A slave registers every second until the reply is Ready, and takes a free
\* slot each time.
Register(s) ==
  /\ ring[s] = <<>>
  /\ slots' = IF FreeSlot THEN Append(slots, s) ELSE slots
  /\ ring' = [ring EXCEPT ![s] = IF Ready' THEN slots' ELSE <<>>]

ViewOf(s) == IF s = Master THEN slots ELSE ring[s]

\* Mutation: a key beyond the last server stays with the first one listed.
LookupNoWrap(nodes, key) ==
  LET id(i) == NodeID[nodes[i]]
      large == {i \in DOMAIN nodes : id(i) >= key}
      Better(m, i) == IF i \in large /\ id(i) < id(m) THEN i ELSE m
      first == IF large = {} THEN 1 ELSE Max(large)
  IN nodes[FoldLeft(Better, first, [i \in DOMAIN nodes |-> i])]

\* The two loops of getServer and of isKeyInRange: the last server at or after
\* the key, if there is any, then each one found that is nearer; else the
\* first server, then each one that is smaller.
Lookup(nodes, key) ==
  LET id(i) == NodeID[nodes[i]]
      large == {i \in DOMAIN nodes : id(i) >= key}
      counts(i) == i \in large \/ large = {}
      first == IF large = {} THEN 1 ELSE Max(large)
      current[i \in 0 .. Len(nodes)] ==
        IF i = 0 THEN first
        ELSE IF counts(i) /\ id(i) < id(current[i - 1]) THEN i
        ELSE current[i - 1]
  IN nodes[current[Len(nodes)]]

IsKeyInRange(s, key) == NodeID[Lookup(ViewOf(s), key)] = NodeID[s]

\* How far s is from the key, going round the ring.
Distance(s, key) == (NodeID[s] - key) % RingSize

=============================================================================
