----------------------------- MODULE CacheList -----------------------------
(***************************************************************************)
(* The doubly linked list of the proxy's cache (cache.c), as operators on  *)
(* a memory mem that maps each node to its fields.  HEAD and TAIL are the  *)
(* two empty nodes; a node between them holds one object.  The value of an *)
(* object is what was fetched for its key and is left out.                 *)
(***************************************************************************)
EXTENDS Integers, FiniteSets, SequencesExt

CONSTANTS Slots,       \* what malloc can return for a node
          Keys,        \* the URIs
          HEAD, TAIL,  \* the nodes made by init_cache
          NULL         \* the null pointer, and the key of the empty nodes

Nodes    == Slots \cup {HEAD, TAIL}
Pointers == Nodes \cup {NULL}
Node     == [key : Keys \cup {NULL}, node_size : Nat, next : Pointers, prev : Pointers]

(* init_cache mallocs two nodes of their own; malloc has an end.           *)
ASSUME CacheListAssumption ==
  /\ IsFiniteSet(Slots)
  /\ HEAD # TAIL /\ HEAD \notin Slots /\ TAIL \notin Slots
  /\ NULL \notin Nodes /\ NULL \notin Keys

create_empty_node == [key |-> NULL, node_size |-> 0, next |-> NULL, prev |-> NULL]
create_node(key, size) == [create_empty_node EXCEPT !.key = key, !.node_size = size]

init_cache == [n \in Nodes |->
  IF n = HEAD THEN [create_empty_node EXCEPT !.next = TAIL]
  ELSE IF n = TAIL THEN [create_empty_node EXCEPT !.prev = HEAD]
  ELSE create_empty_node]

(* The nodes from the first to the last, in order.  A list that does not   *)
(* reach TAIL comes out longer than there are slots.                       *)
ListOf(mem) ==
  LET at[i \in 0..Cardinality(Slots)] ==
        LET n == IF i = 0 THEN HEAD ELSE at[i - 1]
        IN  IF n \in {TAIL, NULL} THEN n ELSE mem[n].next
  IN  [i \in 1..Cardinality({i \in DOMAIN at : at[i] \notin {TAIL, NULL}}) |-> at[i - 1]]

(* The objects on the list, without the links.                             *)
ObjectsOf(mem) ==
  LET list == ListOf(mem)
  IN  [i \in DOMAIN list |-> [key |-> mem[list[i]].key, size |-> mem[list[i]].node_size]]

(* The loop of find_node: the first node with the key, or NULL.            *)
NodeWithKey(mem, key) ==
  LET list == ListOf(mem)
      hits == {i \in DOMAIN list : mem[list[i]].key = key}
  IN  IF hits = {} THEN NULL ELSE list[Min(hits)]

Unlink(mem, n) ==
  [mem EXCEPT ![mem[n].next].prev = mem[n].prev,
              ![mem[n].prev].next = mem[n].next]

PushFront_forward(mem, n) ==   \* mutant: the old first node keeps its prev
  [mem EXCEPT ![n].next = mem[HEAD].next, ![n].prev = HEAD, ![HEAD].next = n]
PushFront_swapped(mem, n) ==   \* mutant: head->next is set before it is read
  [mem EXCEPT ![mem[HEAD].next].prev = n, ![n].next = n,
              ![n].prev = HEAD, ![HEAD].next = n]
PushFront(mem, n) ==
  LET first == mem[HEAD].next
  IN  [mem EXCEPT ![first].prev = n,
                  ![n].next = first,
                  ![n].prev = HEAD,
                  ![HEAD].next = n]

(* A freed node keeps nothing that may be read.                            *)
delete_node(mem, n) == [Unlink(mem, n) EXCEPT ![n] = create_empty_node]
-----------------------------------------------------------------------------
(* What a doubly linked list with two sentinels must be: TAIL is reached   *)
(* from HEAD, prev undoes next, and the nodes on the way are S.            *)
WellLinked(m, S) ==
  LET list_nodes == ListOf(m)
      n == Len(list_nodes)
      node(i) == IF i = 0 THEN HEAD ELSE IF i = n + 1 THEN TAIL ELSE list_nodes[i]
  IN  /\ n <= Cardinality(Slots)
      /\ ToSet(list_nodes) = S
      /\ IsInjective(list_nodes)
      /\ \A i \in 0..n : /\ m[node(i)].next = node(i + 1)
                         /\ m[node(i + 1)].prev = node(i)

(* What list_size counts.                                                  *)
SizeOf(m, S) == MapThenSumSet(LAMBDA n : m[n].node_size, S)
=============================================================================
