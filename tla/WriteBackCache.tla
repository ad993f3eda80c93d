--------------------------- MODULE WriteBackCache ---------------------------
(***************************************************************************)
(* A set-associative write-back cache and the statistics a simulator of it *)
(* has to print: which blocks are in it, which of them have been stored to *)
(* since they came in, and how many bytes such blocks had when they were   *)
(* replaced.  Nothing is said of which block is replaced.                  *)
(***************************************************************************)
EXTENDS Integers, FiniteSets

CONSTANTS SetNumbers, Ways, BlockSize, Addresses
VARIABLES NumSets,                 \* chosen once
          resident, dirty,         \* sets of blocks
          hits, misses, evicts,
          cached, evicted          \* dirty bytes: at the end, and replaced

vars == <<NumSets, resident, dirty, hits, misses, evicts, cached, evicted>>

Block(address) == [set |-> (address \div BlockSize) % NumSets,
                   tag |-> address \div (BlockSize * NumSets)]
SameSet(block) == {other \in resident : other.set = block.set}

Init == /\ NumSets \in SetNumbers
        /\ resident = {} /\ dirty = {}
        /\ hits = 0 /\ misses = 0 /\ evicts = 0
        /\ cached = 0 /\ evicted = 0

Stored(block, store) == IF store THEN {block} ELSE {}

Hit(block, store) ==
  /\ block \in resident
  /\ hits' = hits + 1
  /\ dirty' = dirty \cup Stored(block, store)
  /\ UNCHANGED <<NumSets, resident, misses, evicts, cached, evicted>>

Fill(block, store) ==
  /\ block \notin resident
  /\ Cardinality(SameSet(block)) < Ways
  /\ misses' = misses + 1
  /\ resident' = resident \cup {block}
  /\ dirty' = dirty \cup Stored(block, store)
  /\ UNCHANGED <<NumSets, hits, evicts, cached, evicted>>

Replace(block, store, victim) ==
  /\ block \notin resident
  /\ Cardinality(SameSet(block)) = Ways
  /\ victim \in SameSet(block)
  /\ misses' = misses + 1
  /\ evicts' = evicts + 1
  /\ resident' = (resident \ {victim}) \cup {block}
  /\ dirty' = (dirty \ {victim}) \cup Stored(block, store)
  /\ evicted' = IF victim \in dirty THEN evicted + BlockSize ELSE evicted
  /\ UNCHANGED <<NumSets, hits, cached>>

Finish == /\ cached' = BlockSize * Cardinality(dirty)
          /\ UNCHANGED <<NumSets, resident, dirty, hits, misses, evicts, evicted>>

Access(address, store) ==
  LET block == Block(address)
  IN  \/ Hit(block, store) \/ Fill(block, store)
      \/ \E victim \in SameSet(block) : Replace(block, store, victim)

Next == Finish \/ \E address \in Addresses, store \in BOOLEAN : Access(address, store)

Spec == Init /\ [][Next]_vars
=============================================================================
