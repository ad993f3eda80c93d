------------------------------ MODULE LRUCache ------------------------------
(***************************************************************************)
(* What the cache promises: objects in order of use, the most recently     *)
(* used first, their sizes never adding up to more than Capacity; a lookup *)
(* hits exactly when the key is there; an object that does not fit pushes  *)
(* out the least recently used ones, and no more of them than it must.     *)
(* Nothing is promised of copies: an inserted key may be there already.    *)
(***************************************************************************)
EXTENDS Integers, Sequences, SequencesExt

CONSTANTS Keys, Capacity, MaxSize, NULL
VARIABLES objects,  \* sequence of [key, size]
          last      \* what was done last, and with which key

SizeOf(s) == FoldSeq(LAMBDA o, sum : o.size + sum, 0, s)
Places(key) == {i \in DOMAIN objects : objects[i].key = key}
Done(op, key) == last' = [op |-> op, key |-> key]

Init == objects = << >> /\ last = [op |-> NULL, key |-> NULL]

(* A hit makes the first object with the key the most recently used.       *)
Hit(key) ==
  \E i \in Places(key) :
    /\ \A j \in Places(key) : i <= j
    /\ objects' = <<objects[i]>> \o RemoveAt(objects, i)
    /\ Done("hit", key)

Miss(key) ==
  /\ Places(key) = {}
  /\ Done("miss", key)
  /\ UNCHANGED objects

(* The new object comes in front of the longest prefix that fits with it.  *)
Insert(key, size) ==
  \E n \in 0..Len(objects) :
    /\ SizeOf(SubSeq(objects, 1, n)) + size <= Capacity
    /\ n < Len(objects) => SizeOf(SubSeq(objects, 1, n + 1)) + size > Capacity
    /\ objects' = <<[key |-> key, size |-> size]>> \o SubSeq(objects, 1, n)
    /\ Done("insert", key)

Next == \E key \in Keys :
  \/ Hit(key) \/ Miss(key)
  \/ \E size \in 0..MaxSize : Insert(key, size)

Spec == Init /\ [][Next]_<<objects, last>>
=============================================================================
