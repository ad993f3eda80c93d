-------------------------------- MODULE Heap --------------------------------
(***************************************************************************)
(* The heap of the allocator (mm.c): boundary tags and segregated free     *)
(* lists.  Addresses and sizes count words of 8 bytes.  A block at b has   *)
(* its header at b; a free one has next at b + 1 and, if it is larger than *)
(* the minimum, prev at b + 2 and a footer in its last word.               *)
(* A heap is a record of the words, the heads of the lists and the break.  *)
(***************************************************************************)
EXTENDS Integers, FiniteSets, Sequences, SequencesExt

CONSTANTS MaxHeap,      \* words the simulated memory has
          chunksize,    \* words the heap grows by, at least
          list_number   \* segregated lists

ASSUME HeapAssumption ==
  /\ MaxHeap \in Nat \ {0, 1}
  /\ chunksize \in Nat \ {0} /\ chunksize % 2 = 0
  /\ list_number \in Nat /\ list_number > 1

NULL           == 0
dsize          == 2
min_block_size == dsize
heap_start     == 1
Lists          == 0..(list_number - 1)

round_up(size, n) == n * ((size + (n - 1)) \div n)

Bit(flag) == IF flag THEN 1 ELSE 0
pack(size, alloc, prev_alloc, prev_mini) ==
  8 * size + Bit(alloc) + 2 * Bit(prev_alloc) + 4 * Bit(prev_mini)
extract_size(word) == 2 * (word \div 16)
extract_alloc(word) == word % 2 = 1

get_size(mem, b)       == extract_size(mem[b])
get_alloc(mem, b)      == extract_alloc(mem[b])
get_prev_alloc(mem, b) == (mem[b] \div 2) % 2 = 1
get_prev_mini(mem, b)  == (mem[b] \div 4) % 2 = 1
next(b)                == b + 1
prev(b)                == b + 2
header_to_footer(mem, b) == b + get_size(mem, b) - 1
find_next(mem, b)      == b + get_size(mem, b)
(* Used when the previous block is free only: it has no footer otherwise.  *)
find_prev(mem, b) ==
  IF get_prev_mini(mem, b) THEN b - dsize ELSE b - extract_size(mem[b - 1])

write_header(mem, b, size, alloc, prev_alloc, prev_mini) ==
  [mem EXCEPT ![b] = pack(size, alloc, prev_alloc, prev_mini)]
write_footer(mem, b, size, alloc, prev_alloc, prev_mini) ==
  [mem EXCEPT ![header_to_footer(mem, b)] = pack(size, alloc, prev_alloc, prev_mini)]
write_tags(mem, b, size, alloc, prev_alloc, prev_mini) ==
  write_footer(write_header(mem, b, size, alloc, prev_alloc, prev_mini),
               b, size, alloc, prev_alloc, prev_mini)
set_nextblock_prev_alloc(mem, b, prev_alloc, prev_mini) ==
  LET n == find_next(mem, b)
  IN  write_header(mem, n, get_size(mem, n), get_alloc(mem, n), prev_alloc, prev_mini)

get_index(asize) ==
  IF asize <= min_block_size THEN 0
  ELSE IF asize >= dsize * 2^(list_number - 2) THEN list_number - 1
  ELSE CHOOSE j \in 1..(list_number - 2) : dsize * 2^(j - 1) <= asize /\ asize < dsize * 2^j

-----------------------------------------------------------------------------
(* The free lists.  FreeList stops after more blocks than fit in the heap. *)
FreeList(heap, index) ==
  LET follow == [b \in 0..(heap.brk - 2) |-> IF b = NULL THEN NULL ELSE heap.mem[next(b)]]
      at[i \in 0..(heap.brk \div dsize)] ==
        IF i = 0 THEN heap.seg_list[index] ELSE follow[at[i - 1]]
  IN  [i \in 1..Cardinality({i \in DOMAIN at : at[i] # NULL}) |-> at[i - 1]]

insert_block_tail(heap, b) ==   \* mutant: the old first block's prev is not set
  LET index == get_index(get_size(heap.mem, b))
      large == get_size(heap.mem, b) # min_block_size
      first == heap.seg_list[index]
  IN  [heap EXCEPT !.seg_list[index] = b,
                   !.mem = [w \in DOMAIN heap.mem |->
                              IF large /\ w = prev(b) THEN NULL
                              ELSE IF w = next(b) THEN first ELSE heap.mem[w]]]
insert_block(heap, b) ==
  LET index == get_index(get_size(heap.mem, b))
      large == get_size(heap.mem, b) # min_block_size
      first == heap.seg_list[index]
  IN  [heap EXCEPT !.seg_list[index] = b,
                   !.mem = [w \in DOMAIN heap.mem |->
                              IF large /\ first # NULL /\ w = prev(first) THEN b
                              ELSE IF large /\ w = prev(b) THEN NULL
                              ELSE IF w = next(b) THEN first ELSE heap.mem[w]]]

(* The block before b: a minimum block has no prev, its list is searched.  *)
delete_block(heap, b) ==
  LET index  == get_index(get_size(heap.mem, b))
      large  == get_size(heap.mem, b) # min_block_size
      list   == FreeList(heap, index)
      before == IF large THEN heap.mem[prev(b)]
                ELSE IF list[1] = b THEN NULL
                ELSE CHOOSE p \in ToSet(list) : heap.mem[next(p)] = b
      after  == heap.mem[next(b)]
  IN  [heap EXCEPT !.seg_list[index] = IF before = NULL THEN after ELSE @,
                   !.mem = [w \in DOMAIN heap.mem |->
                              IF large /\ after # NULL /\ w = prev(after) THEN before
                              ELSE IF before # NULL /\ w = next(before) THEN after ELSE heap.mem[w]]]

(* The best fit of the first list that has one, the first of equals.       *)
find_fit(heap, asize) ==
  LET size(b) == get_size(heap.mem, b)
      fits(l) == {k \in DOMAIN l : ~get_alloc(heap.mem, l[k]) /\ asize <= size(l[k])}
      lists   == {i \in get_index(asize)..(list_number - 1) : fits(FreeList(heap, i)) # {}}
      list    == FreeList(heap, Min(lists))
      fitting == fits(list)
      least   == Min({size(list[k]) : k \in fitting})
  IN  IF lists = {} THEN NULL ELSE list[Min({k \in fitting : size(list[k]) = least})]
=============================================================================
