----------------------------- MODULE ListedHeap -----------------------------
(* mm_copy_copy.c, the allocator before it had blocks of two words: every  *)
(* free block has prev, next and a footer, an allocated one only its       *)
(* header, and its successor's header says that it is allocated. Addresses *)
(* and sizes count words. A heap is a record of mem, seg_list and brk.     *)
EXTENDS Integers, FiniteSets, Sequences, SequencesExt, TLC

CONSTANTS MaxHeap,      \* words the simulated memory has
          chunksize, list_number,
          Requests,     \* sizes the program asks malloc and realloc for
          Arrays,       \* <<elements, size>> it asks calloc for; 0 elements end the process
          USER          \* what it stores; no tag and no pointer

VARIABLES heap,
          live   \* history: payloads the program owns, their sizes, contents and the words realloc lost
vars == <<heap, live>>

NULL == 0
dsize == 2
min_block_size == 2 * dsize
heap_start == 1
Unwritten == USER - 1   \* no data either
Lists == 0..(list_number - 1)

round_up(size, n) == n * ((size + (n - 1)) \div n)
Bit(flag) == IF flag THEN 1 ELSE 0
pack(size, alloc, prev_alloc) == 8 * size + Bit(alloc) + 2 * Bit(prev_alloc)
extract_size(word)  == 2 * (word \div 16)
extract_alloc(word) == word % 2 = 1
get_size(mem, b)       == extract_size(mem[b])
get_alloc(mem, b)      == extract_alloc(mem[b])
get_prev_alloc(mem, b) == (mem[b] \div 2) % 2 = 1
prev(b) == b + 1
next(b) == b + 2
header_to_footer(mem, b) == b + get_size(mem, b) - 1
get_payload_size(mem, b) == get_size(mem, b) - dsize   \* an allocated block holds a word more
find_next(mem, b) == b + get_size(mem, b)
find_prev(mem, b) == b - extract_size(mem[b - 1])   \* through the footer of a free block

write_header(mem, b, size, alloc, prev_alloc) == [mem EXCEPT ![b] = pack(size, alloc, prev_alloc)]
write_footer(mem, b, size, alloc, prev_alloc) ==
  [mem EXCEPT ![header_to_footer(mem, b)] = pack(size, alloc, prev_alloc)]
write_tags(mem, b, size, prev_alloc) ==
  write_footer(write_header(mem, b, size, FALSE, prev_alloc), b, size, FALSE, prev_alloc)
set_nextblock_prev_alloc(mem, b, prev_alloc) ==
  LET n == find_next(mem, b) IN write_header(mem, n, get_size(mem, n), get_alloc(mem, n), prev_alloc)

-----------------------------------------------------------------------------
get_index(asize) ==
  IF asize < dsize THEN 0
  ELSE IF asize >= dsize * 2^(list_number - 2) THEN list_number - 1
  ELSE CHOOSE j \in 1..(list_number - 2) : dsize * 2^(j - 1) <= asize /\ asize < dsize * 2^j

(* Stops after more blocks than fit in the heap. *)
FreeList(h, index) ==
  LET follow == [b \in 0..(h.brk - 2) |-> IF b = NULL THEN NULL ELSE h.mem[next(b)]]
      at[i \in 0..(h.brk \div dsize)] == IF i = 0 THEN h.seg_list[index] ELSE follow[at[i - 1]]
  IN  [i \in 1..Cardinality({i \in DOMAIN at : at[i] # NULL}) |-> at[i - 1]]

insert_block(h, b) ==
  LET index == get_index(get_size(h.mem, b))
      first == h.seg_list[index]
  IN  [h EXCEPT !.seg_list[index] = b,
                !.mem = (next(b) :> first) @@ (prev(b) :> NULL)
                          @@ (IF first = NULL THEN <<>> ELSE prev(first) :> b) @@ @]

(* Alone, first, last, or in between. *)
delete_block_last(h, b) ==   \* mutant: the next block's prev is not set
  LET index  == get_index(get_size(h.mem, b))
      before == h.mem[prev(b)]
      after  == h.mem[next(b)]
  IN  [h EXCEPT !.seg_list[index] = IF before = NULL THEN after ELSE @,
                !.mem = (IF before = NULL THEN <<>> ELSE next(before) :> after) @@ @]
delete_block(h, b) ==
  LET index  == get_index(get_size(h.mem, b))
      before == h.mem[prev(b)]
      after  == h.mem[next(b)]
  IN  [h EXCEPT !.seg_list[index] = IF before = NULL THEN after ELSE @,
                !.mem = (IF before = NULL THEN <<>> ELSE next(before) :> after)
                          @@ (IF after = NULL THEN <<>> ELSE prev(after) :> before) @@ @]

(* The best fit of the first list that has one, the first of equals. *)
find_fit(h, asize) ==
  LET size(b)   == get_size(h.mem, b)
      fits(l)   == {k \in DOMAIN l : ~get_alloc(h.mem, l[k]) /\ asize <= size(l[k])}
      lists     == {i \in get_index(asize)..(list_number - 1) : fits(FreeList(h, i)) # {}}
      list      == FreeList(h, Min(lists))
      least     == Min({size(list[k]) : k \in fits(list)})
  IN  IF lists = {} THEN NULL ELSE list[Min({k \in fits(list) : size(list[k]) = least})]

-----------------------------------------------------------------------------
FreeBlock(h, b, size) ==
  insert_block([h EXCEPT !.mem = set_nextblock_prev_alloc(write_tags(@, b, size, TRUE), b, FALSE)], b)

(* A merged block is said to follow an allocated one. *)
coalesce_block(h, b) ==
  LET n    == find_next(h.mem, b)
      p    == find_prev(h.mem, b)
      size == get_size(h.mem, b)
  IN  CASE get_prev_alloc(h.mem, b) /\ get_alloc(h.mem, n) ->
             [block |-> b, heap |-> insert_block([h EXCEPT !.mem = set_nextblock_prev_alloc(@, b, FALSE)], b)]
        [] get_prev_alloc(h.mem, b) /\ ~get_alloc(h.mem, n) ->
             [block |-> b, heap |-> FreeBlock(delete_block(h, n), b, size + get_size(h.mem, n))]
        [] ~get_prev_alloc(h.mem, b) /\ get_alloc(h.mem, n) ->
             [block |-> p, heap |-> FreeBlock(delete_block(h, p), p, size + get_size(h.mem, p))]
        [] OTHER ->
             [block |-> p, heap |-> FreeBlock(delete_block(delete_block(h, p), n), p,
                                              size + get_size(h.mem, p) + get_size(h.mem, n))]

(* mem_sbrk; where the system's sbrk refuses, the caller returns NULL and   *)
(* nothing changes, a step [Next]_vars allows anyway.                       *)
mem_sbrk_ok(h, size) == h.brk + size <= MaxHeap
(* The old epilogue becomes the header of the new block. *)
extend_heap(h, size) ==
  LET b   == h.brk - 1
      mem == write_tags(h.mem, b, size, get_prev_alloc(h.mem, b))
  IN  coalesce_block([h EXCEPT !.brk = @ + size, !.mem = write_header(mem, b + size, 0, TRUE, FALSE)], b)

split_block(h, b, asize) ==
  LET size  == get_size(h.mem, b)
      rest  == b + asize
      taken == delete_block(h, b)
      split == write_tags(write_header(taken.mem, b, asize, TRUE, TRUE), rest, size - asize, TRUE)
  IN  IF size - asize >= min_block_size
      THEN insert_block([taken EXCEPT !.mem = set_nextblock_prev_alloc(split, rest, FALSE)], rest)
      ELSE [taken EXCEPT !.mem =
             set_nextblock_prev_alloc(write_header(taken.mem, b, size, TRUE, TRUE), b, TRUE)]

-----------------------------------------------------------------------------
mm_init ==
  LET empty == [mem      |-> [w \in 0..(MaxHeap - 1) |-> IF w < 2 THEN pack(0, TRUE, TRUE) ELSE Unwritten],
                seg_list |-> [i \in Lists |-> NULL],
                brk      |-> 2]
  IN  IF mem_sbrk_ok(empty, chunksize) THEN extend_heap(empty, chunksize).heap ELSE empty

adjusted(size) == LET asize == round_up(size + 1, dsize) IN IF asize < min_block_size THEN min_block_size ELSE asize
Growth_needed(asize) == asize   \* mutant: the heap grows by what is needed only
Growth(asize)  == IF asize > chunksize THEN asize ELSE chunksize
Allocate(h, size) ==
  LET asize == adjusted(size)
      fit   == find_fit(h, asize)
      grown == extend_heap(h, Growth(asize))
  IN  IF fit # NULL THEN [heap |-> split_block(h, fit, asize), block |-> fit]
      ELSE IF ~mem_sbrk_ok(h, Growth(asize)) THEN [heap |-> h, block |-> NULL]
      ELSE [heap |-> split_block(grown.heap, grown.block, asize), block |-> grown.block]

Release(h, b) ==
  LET mem == write_tags(h.mem, b, get_size(h.mem, b), get_prev_alloc(h.mem, b))
  IN  coalesce_block([h EXCEPT !.mem = set_nextblock_prev_alloc(mem, b, FALSE)], b).heap

(* The program fills what it is given, and after a realloc what has been   *)
(* added; calloc fills first.                                              *)
Filled(h, p, size, data) == [h EXCEPT !.mem = [w \in p..(p + size - 1) |-> data] @@ @]
HandOut(got, size, data) ==
  IF got.block = NULL THEN UNCHANGED vars
  ELSE /\ heap' = Filled(got.heap, got.block + 1, size, data)
       /\ live' = live \cup {[at |-> got.block + 1, size |-> size, data |-> data, lost |-> {}]}

malloc(size) == IF size = 0 THEN UNCHANGED vars ELSE HandOut(Allocate(heap, size), size, USER)
free(owned) ==
  /\ owned \in live
  /\ heap' = Release(heap, owned.at - 1) /\ live' = live \ {owned}
(* What realloc should keep is the lesser of the two sizes. It counts the  *)
(* old payload a word short: the last word of a full block is lost, here   *)
(* as the program sees it.                                                 *)
realloc(owned, size) ==
  LET got  == Allocate(heap, size)
      to   == got.block + 1
      old  == get_payload_size(heap.mem, owned.at - 1)
      copy == IF size < old THEN size ELSE old
      kept == IF size < owned.size THEN size ELSE owned.size
      full == get_size(heap.mem, owned.at - 1) = owned.size + 1
      moved == [got.heap EXCEPT !.mem = [w \in to..(to + copy - 1) |-> got.heap.mem[owned.at + (w - to)]] @@ @]
      lost == {w \in owned.lost : w < kept} \cup IF full /\ size >= owned.size THEN {owned.size - 1} ELSE {}
  IN  /\ owned \in live
      /\ IF size = 0 THEN free(owned)
         ELSE IF got.block = NULL THEN UNCHANGED vars
         ELSE /\ heap' = Filled(Release(moved, owned.at - 1), to + kept, size - kept, owned.data)
              /\ live' = (live \ {owned}) \cup {[at |-> to, size |-> size, data |-> owned.data, lost |-> lost]}
calloc(elements, size) == IF elements * size = 0 THEN UNCHANGED vars ELSE HandOut(Allocate(heap, elements * size), elements * size, 0)

Init == heap = mm_init /\ live = {}
Next ==
  \/ \E size \in Requests : malloc(size)
  \/ \E array \in Arrays : calloc(array[1], array[2])
  \/ \E owned \in live : free(owned) \/ \E size \in Requests : realloc(owned, size)

-----------------------------------------------------------------------------
(* The walk of mm_checkheap, and its verdict on the tags. *)
Walk(h) ==
  LET follow == [b \in 0..MaxHeap |-> IF b >= h.brk THEN b ELSE find_next(h.mem, b)]
      at[i \in 0..MaxHeap] == IF i = 0 THEN heap_start ELSE follow[at[i - 1]]
  IN  {at[i] : i \in DOMAIN at}
Blocks(h) == Walk(h) \ {h.brk - 1}
mm_checkheap(h) ==
  /\ extract_size(h.mem[0]) = 0 /\ extract_alloc(h.mem[0])
  /\ h.brk - 1 \in Walk(h) /\ get_size(h.mem, h.brk - 1) = 0 /\ get_alloc(h.mem, h.brk - 1)
  /\ \A b \in Blocks(h) :
       ~get_alloc(h.mem, b) =>
         /\ extract_size(h.mem[header_to_footer(h.mem, b)]) = get_size(h.mem, b)
         /\ ~extract_alloc(h.mem[header_to_footer(h.mem, b)])
         /\ find_next(h.mem, b) < h.brk - 1 => get_alloc(h.mem, find_next(h.mem, b))

Segment(b) == [at |-> b, size |-> get_size(heap.mem, b), used |-> get_alloc(heap.mem, b)]
Asked == (Requests \cup {a[1] * a[2] : a \in Arrays}) \ {0}
SG == INSTANCE Segments WITH
  Start <- heap_start, Limit <- MaxHeap - 1, Chunk <- chunksize, Smallest <- min_block_size, Coalesces <- TRUE,
  Sizes <- {adjusted(size) : size \in Asked},
  segments <- {Segment(b) : b \in Blocks(heap)}

(* The heap checker, and the state of a block's predecessor that           *)
(* coalesce_block reads, hold wherever the debug build asserts the check:  *)
(* between calls, and in the middle of malloc when the heap has grown.     *)
AssertionsHold ==
  LET Sound(h) == /\ mm_checkheap(h)
                  /\ \A b \in Blocks(h) : get_prev_alloc(h.mem, find_next(h.mem, b)) = get_alloc(h.mem, b)
  IN  /\ Sound(heap)
      /\ \A n \in {Growth(adjusted(size)) : size \in Asked} :
           mem_sbrk_ok(heap, n) => Sound(extend_heap(heap, n).heap)

(* The free lists hold every free block once, and the program's blocks are *)
(* the allocated ones, each with what was stored in it, over any number of *)
(* moves, but for the last word of a block that was full when realloc      *)
(* moved it (insert_block, delete_block, split_block, realloc).            *)
NothingLost ==
  LET listed == FlattenSeq([i \in 1..list_number |-> FreeList(heap, i - 1)]) IN
  /\ IsInjective(listed) /\ ToSet(listed) = {b \in Blocks(heap) : ~get_alloc(heap.mem, b)}
  /\ {owned.at - 1 : owned \in live} = {b \in Blocks(heap) : get_alloc(heap.mem, b)}
  /\ \A owned \in live :
       /\ owned.size < get_size(heap.mem, owned.at - 1)
       /\ \A w \in 0..(owned.size - 1) : w \in owned.lost \/ heap.mem[owned.at + w] = owned.data

(* What mdriver.c:1245 asks of realloc, "Check up to min(size, oldsize)    *)
(* for correct copying", and a full block does not keep.                   *)
ReallocKeepsPayload ==
  \A owned \in live :
    \A w \in owned.at..(owned.at + owned.size - 1) : heap.mem[w] = owned.data

(* A call takes, splits, merges and grows segments as Segments says.       *)
ImplementsSegments ==
  /\ SG!Init
  /\ [][LET new == live' \ live
            old == live \ live'
        IN  /\ old = {} => \A p \in new : SG!Malloc(adjusted(p.size))
            /\ \A g \in old :
                 IF new = {} THEN SG!Free(Segment(g.at - 1))
                 ELSE \A p \in new : SG!Realloc(Segment(g.at - 1), adjusted(p.size))]_vars
=============================================================================
