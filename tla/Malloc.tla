------------------------------- MODULE Malloc -------------------------------
(***************************************************************************)
(* malloc, free, realloc and calloc (mm.c) over the simulated memory       *)
(* (memlib.c), and a program that fills what it is given.  A call is one   *)
(* step: nothing runs beside it.  Sizes are size_t and wrap at size_limit. *)
(***************************************************************************)
EXTENDS Heap

CONSTANTS Requests,   \* the sizes the program asks malloc and realloc for, in words
          Arrays,     \* <<elements, size>> it asks calloc for
          size_limit, \* 2^64, in words
          USER        \* what the program stores; no tag and no pointer

ASSUME MallocAssumption ==
  /\ Requests \subseteq 0..(size_limit - 1)
  /\ Arrays \subseteq (0..(size_limit - 1)) \X (0..(size_limit - 1))
  /\ size_limit \in Nat /\ size_limit % dsize = 0 /\ size_limit > MaxHeap
  /\ USER \in Int \ Nat

VARIABLES
  heap,     \* words, list heads and break
  live,     \* history: the payloads the program owns, with the sizes it asked
            \* for and what fills them
  trapped   \* the process died of a division by zero

vars == <<heap, live, trapped>>

(* round_up(size + wsize, dsize), where the sums wrap.                     *)
adjusted(size) ==
  LET needed == (size + 1) % size_limit
  IN  dsize * (((needed + (dsize - 1)) % size_limit) \div dsize)
payload(b)     == b + 1
block(p)       == p - 1
get_payload_size(mem, b) == get_size(mem, b) - 1
Words(p, size) == p..(p + size - 1)

-----------------------------------------------------------------------------
(* Tags of a free block and of the one after it, then into its list.       *)
FreeBlock(heap0, b, size, prev_mini) ==
  LET mem == write_tags(heap0.mem, b, size, FALSE, TRUE, prev_mini)
  IN  insert_block([heap0 EXCEPT !.mem = set_nextblock_prev_alloc(mem, b, FALSE, FALSE)], b)

(* The four cases: neither neighbour is free, the next, the previous, both. *)
coalesce_block(heap0, b) ==
  LET mem        == heap0.mem
      next_block == find_next(mem, b)
      prev_block == find_prev(mem, b)
      prev_alloc == get_prev_alloc(mem, b)
      next_alloc == get_alloc(mem, next_block)
      size       == get_size(mem, b)
  IN  IF prev_alloc /\ next_alloc THEN
        [block |-> b,
         heap  |-> insert_block([heap0 EXCEPT !.mem =
                     set_nextblock_prev_alloc(@, b, FALSE, size = min_block_size)], b)]
      ELSE IF prev_alloc THEN
        [block |-> b,
         heap  |-> FreeBlock(delete_block(heap0, next_block), b,
                             size + get_size(mem, next_block), get_prev_mini(mem, b))]
      ELSE IF next_alloc THEN
        [block |-> prev_block,
         heap  |-> FreeBlock(delete_block(heap0, prev_block), prev_block,
                             size + get_size(mem, prev_block), get_prev_mini(mem, b))]
      ELSE
        [block |-> prev_block,
         heap  |-> FreeBlock(delete_block(delete_block(heap0, prev_block), next_block), prev_block,
                             size + get_size(mem, prev_block) + get_size(mem, next_block),
                             get_prev_mini(mem, prev_block))]

(* mem_sbrk: grow by size words, or not at all. Where the system's sbrk     *)
(* refuses (memlib.c:210), malloc returns NULL and nothing has changed:     *)
(* a step that every behaviour may take anyway, [Next]_vars.                *)
mem_sbrk_ok(heap0, size) == heap0.brk + size <= MaxHeap

(* The old epilogue becomes the header of the new block.                   *)
extend_heap(heap0, size) ==
  LET b   == heap0.brk - 1
      mem == write_tags(heap0.mem, b, size, FALSE,
                        get_prev_alloc(heap0.mem, b), get_prev_mini(heap0.mem, b))
  IN  coalesce_block([heap0 EXCEPT !.brk = @ + size,
                                   !.mem = write_header(mem, b + size, 0, TRUE, FALSE, FALSE)], b)

(* Whether what asize leaves of a block can be a block.                    *)
leaves_block_more(size, asize) == size - asize > min_block_size   \* mutant: off by one
leaves_block(size, asize)      == size - asize >= min_block_size

(* Take a free block out of its list and give back what asize leaves.      *)
split_block(heap0, b, asize) ==
  LET size  == get_size(heap0.mem, b)
      rest  == b + asize
      taken == delete_block(heap0, b)
      mini  == get_prev_mini(taken.mem, b)
      split ==
        LET mem  == write_tags(taken.mem, b, asize, TRUE, TRUE, mini)
            mem2 == write_tags(mem, rest, size - asize, FALSE, TRUE, size = min_block_size)
        IN  set_nextblock_prev_alloc(mem2, rest, FALSE, size - asize = min_block_size)
      whole ==
        LET mem == write_header(taken.mem, b, size, TRUE, TRUE, mini)
        IN  set_nextblock_prev_alloc(mem, b, TRUE, get_prev_mini(mem, find_next(mem, b)))
  IN  IF leaves_block(size, asize)
      THEN insert_block([taken EXCEPT !.mem = split], rest)
      ELSE [taken EXCEPT !.mem = whole]

-----------------------------------------------------------------------------
no_lists       == [i \in Lists |-> NULL]

(* mm_init: prologue, epilogue, and a first free block if there is room.   *)
mm_init ==
  LET empty == [mem      |-> [w \in 0..(MaxHeap - 1) |->
                                IF w < 2 THEN pack(0, TRUE, TRUE, FALSE) ELSE USER],
                seg_list |-> no_lists,
                brk      |-> 2]
  IN  IF mem_sbrk_ok(empty, chunksize) THEN extend_heap(empty, chunksize).heap ELSE empty

(* malloc on a heap: the block it takes, NULL if there is none.            *)
Allocate(heap0, size) ==
  LET asize == adjusted(size)
      fit   == find_fit(heap0, asize)
      more  == IF asize > chunksize THEN asize ELSE chunksize
      grown == extend_heap(heap0, more)
  IN  IF fit # NULL THEN [heap |-> split_block(heap0, fit, asize), block |-> fit]
      ELSE IF ~mem_sbrk_ok(heap0, more) THEN [heap |-> heap0, block |-> NULL]
      ELSE [heap |-> split_block(grown.heap, grown.block, asize), block |-> grown.block]

Release(heap0, b) ==
  LET size == get_size(heap0.mem, b)
      pa   == get_prev_alloc(heap0.mem, b)
      pm   == get_prev_mini(heap0.mem, b)
      mem  == IF size # min_block_size THEN write_tags(heap0.mem, b, size, FALSE, pa, pm)
                                       ELSE write_header(heap0.mem, b, size, FALSE, pa, pm)
  IN  coalesce_block([heap0 EXCEPT !.mem =
        set_nextblock_prev_alloc(mem, b, FALSE, size = min_block_size)], b).heap

(* The program fills its payload; what lies past the memory is not there.  *)
Filled(heap0, p, size, data) ==
  [heap0 EXCEPT !.mem = [w \in DOMAIN heap0.mem |-> IF w \in Words(p, size) THEN data ELSE heap0.mem[w]]]

Init == heap = mm_init /\ live = {} /\ trapped = FALSE

(* A pointer handed out for size words; calloc fills it with zeros.        *)
HandOut(got, size, data) ==
  IF got.block = NULL THEN UNCHANGED vars
  ELSE /\ heap' = Filled(got.heap, payload(got.block), size, data)
       /\ live' = live \cup {[at |-> payload(got.block), size |-> size, data |-> data]}
       /\ UNCHANGED trapped

(* A request of size 0 is ignored.                                         *)
malloc(size) ==
  IF size = 0 THEN UNCHANGED vars ELSE HandOut(Allocate(heap, size), size, USER)

free(owned) ==
  /\ owned \in live
  /\ heap' = Release(heap, block(owned.at))
  /\ live' = live \ {owned}
  /\ UNCHANGED trapped

(* realloc: allocate, copy the smaller of the two sizes, free the old.     *)
Copied_old(heap0, from, to, size) ==   \* mutant: always as much as the old block holds
  LET old == get_payload_size(heap0.mem, block(from))
  IN  [heap0 EXCEPT !.mem = [w \in DOMAIN heap0.mem |->
         IF w \in Words(to, old) THEN heap0.mem[from + (w - to)] ELSE heap0.mem[w]]]
Copied(heap0, from, to, size) ==
  [heap0 EXCEPT !.mem = [w \in DOMAIN heap0.mem |->
     IF w \in Words(to, size) THEN heap0.mem[from + (w - to)] ELSE heap0.mem[w]]]

Resize(owned, size) ==
  LET got  == Allocate(heap, size)
      new  == payload(got.block)
      old  == get_payload_size(heap.mem, block(owned.at))
      copy == IF size < old THEN size ELSE old
      kept == IF size < owned.size THEN size ELSE owned.size
  IN  IF got.block = NULL THEN UNCHANGED vars
      ELSE /\ heap' = Filled(Release(Copied(got.heap, owned.at, new, copy), block(owned.at)),
                             new + kept, size - kept, owned.data)
           /\ live' = (live \ {owned}) \cup {[at |-> new, size |-> size, data |-> owned.data]}
           /\ UNCHANGED trapped

realloc(owned, size) ==
  /\ owned \in live
  /\ IF size = 0 THEN free(owned) ELSE Resize(owned, size)

(* The product wraps; the division that looks for it traps on 0 elements.  *)
product(elements, size)    == (elements * size) % size_limit
overflows(elements, size)  == product(elements, size) \div elements # size
calloc(elements, size) ==
  IF elements = 0 THEN trapped' = TRUE /\ UNCHANGED <<heap, live>>
  ELSE IF overflows(elements, size) THEN UNCHANGED vars
  ELSE LET asize == product(elements, size)
       IN  IF asize = 0 THEN UNCHANGED vars
           ELSE HandOut(Allocate(heap, asize), elements * size, 0)

Next ==
  /\ ~trapped
  /\ \/ \E size \in Requests : malloc(size)
     \/ \E array \in Arrays : calloc(array[1], array[2])
     \/ \E owned \in live : free(owned) \/ \E size \in Requests : realloc(owned, size)

Spec == Init /\ [][Next]_vars

-----------------------------------------------------------------------------
(* The heap checker: one pass over the tags, one over the lists. *)

(* The blocks the checker walks over: it stops at a block of size 0.       *)
CheckedWalk(h) ==
  LET follow == [b \in 0..(MaxHeap - 1) |->
                   IF get_size(h.mem, b) = 0 THEN b ELSE find_next(h.mem, b)]
      at[i \in 0..MaxHeap] == IF i = 0 THEN heap_start ELSE follow[at[i - 1]]
  IN  {at[i] : i \in DOMAIN at}

FooterAgrees(h, b) ==
  LET size == get_size(h.mem, b)
      footer == h.mem[header_to_footer(h.mem, b)]
  IN  size = min_block_size \/ (extract_size(footer) = size /\ ~extract_alloc(footer))

(* pre_alloc_flag is true before the first block.                          *)
NeighboursFree_first(h, b, o) == FALSE   \* mutant: pre_alloc_flag is never updated
NeighboursFree(h, b, o) ==
  find_next(h.mem, b) = o /\ ~get_alloc(h.mem, b) /\ ~get_alloc(h.mem, o)

CheckTags(h) ==
  LET walked == CheckedWalk(h)
      end    == {b \in walked : get_size(h.mem, b) = 0}
      blocks == walked \ end
  IN  /\ extract_size(h.mem[heap_start - 1]) = 0 /\ extract_alloc(h.mem[heap_start - 1])
      /\ \A b \in blocks :
           /\ get_size(h.mem, b) % dsize = 0
           /\ get_alloc(h.mem, b) \/ FooterAgrees(h, b)
      /\ ~ \E b, o \in blocks : NeighboursFree(h, b, o)
      /\ \A b \in end : get_alloc(h.mem, b)

(* The loop returns, or not, at the first block of the first list.         *)
check_freelist(h) ==
  LET used  == {i \in Lists : h.seg_list[i] # NULL}
      after == h.mem[next(h.seg_list[Min(used)])]
  IN  IF used = {} THEN "true"
      ELSE IF after = NULL THEN "crash"
      ELSE IF h.mem[prev(after)] # after THEN "false" ELSE "spins"

mm_checkheap(h) == IF CheckTags(h) THEN check_freelist(h) ELSE "false"
=============================================================================
