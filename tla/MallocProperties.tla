-------------------------- MODULE MallocProperties --------------------------
(***************************************************************************)
(* What the allocator must satisfy, and its refinement of Segments.        *)
(***************************************************************************)
EXTENDS Malloc

(* The blocks, met by adding sizes from heap_start up to the epilogue; the *)
(* walk gives up after more steps than there are words.                    *)
Walk ==
  LET follow == [b \in 0..MaxHeap |-> IF b >= heap.brk THEN b ELSE find_next(heap.mem, b)]
      at[i \in 0..MaxHeap] == IF i = 0 THEN heap_start ELSE follow[at[i - 1]]
  IN  {at[i] : i \in DOMAIN at}
Epilogue == heap.brk - 1
Blocks   == Walk \ {Epilogue}
Free     == {b \in Blocks : ~get_alloc(heap.mem, b)}

(* Blocks tile the heap from prologue to epilogue.  The previous-block     *)
(* bits of each block agree with the block before it as far as coalescing  *)
(* reads them, a free block that is not minimal has its size in the        *)
(* footer, and two free blocks are never neighbours.                       *)
TagsAgree ==
  /\ Walk \subseteq heap_start..Epilogue /\ Epilogue \in Walk
  /\ get_size(heap.mem, Epilogue) = 0 /\ get_alloc(heap.mem, Epilogue)
  /\ \A b \in Blocks :
       LET n == find_next(heap.mem, b)
       IN  /\ get_prev_alloc(heap.mem, n) = get_alloc(heap.mem, b)
           /\ ~get_alloc(heap.mem, b) =>
                /\ get_prev_mini(heap.mem, n) = (get_size(heap.mem, b) = min_block_size)
                /\ get_size(heap.mem, b) # min_block_size =>
                     extract_size(heap.mem[header_to_footer(heap.mem, b)]) = get_size(heap.mem, b)
                /\ get_alloc(heap.mem, n)

(* Each list holds the free blocks of its sizes, each once, and its prev   *)
(* pointers lead back the way its next pointers came.                      *)
ListsHoldFree ==
  LET unused == Free
  IN  \A i \in Lists :
        LET list == FreeList(heap, i)
        IN  /\ ToSet(list) = {b \in unused : get_index(get_size(heap.mem, b)) = i}
            /\ IsInjective(list)
            /\ i # 0 => \A k \in DOMAIN list :
                 heap.mem[prev(list[k])] = IF k = 1 THEN NULL ELSE list[k - 1]

(* What every call relies on and leaves behind: tags that agree and lists  *)
(* that hold the free blocks (malloc, free, realloc, calloc).              *)
HeapConsistent == TagsAgree /\ ListsHoldFree

(* The program owns exactly the allocated blocks, each as large as it was  *)
(* asked to be, and finds in them what it stored, also after realloc, or   *)
(* the zeros of calloc; a product that wraps gets no block.                *)
PayloadIntact ==
  /\ {block(owned.at) : owned \in live} = Blocks \ Free
  /\ \A owned \in live :
       /\ owned.size <= get_payload_size(heap.mem, block(owned.at))
       /\ \A w \in Words(owned.at, owned.size) : heap.mem[w] = owned.data

-----------------------------------------------------------------------------
(* The heap as a set of segments. *)
Segment(b) == [at |-> b, size |-> get_size(heap.mem, b), used |-> get_alloc(heap.mem, b)]

Asked == (Requests \cup {product(a[1], a[2]) : a \in Arrays}) \ {0}
SG == INSTANCE Segments WITH
  Start <- heap_start, Limit <- MaxHeap - 1, Chunk <- chunksize, Smallest <- min_block_size, Coalesces <- TRUE,
  Sizes <- {adjusted(size) : size \in Asked},
  segments <- {Segment(b) : b \in Blocks}

(* A request is refused only when no free block is large enough and the    *)
(* heap has no room to grow, whatever the lists look like (malloc,         *)
(* find_fit, extend_heap).                                                 *)
RefusesOnlyWhenFull ==
  \A size \in Asked :
    Allocate(heap, size).block = NULL => SG!After({Segment(b) : b \in Blocks}, adjusted(size)) = {}

(* Towards the program: what it stored stays, and it gets a block whenever *)
(* there is one (malloc, realloc, calloc).                                 *)
ServesProgram == PayloadIntact /\ RefusesOnlyWhenFull

(* Whatever the tags and lists look like, a call takes, splits, merges and *)
(* grows segments as Segments says for the size it was asked for (mm.h:    *)
(* malloc, free, realloc, calloc).                                         *)
ImplementsSegments ==
  /\ SG!Init
  /\ [][LET new == live' \ live
            old == live \ live'
        IN  /\ old = {} => \A p \in new : SG!Malloc(adjusted(p.size))
            /\ \A g \in old :
                 IF new = {} THEN SG!Free(Segment(block(g.at)))
                 ELSE \A p \in new : SG!Realloc(Segment(block(g.at)), adjusted(p.size))]_vars

(* The tag pass of the checker has no false alarms, and notices a footer   *)
(* that was written over, and a block marked free beside another one       *)
(* (mm_checkheap).                                                         *)
Damaged(b, word) == [heap EXCEPT !.mem[b] = word]
CheckerCatches ==
  /\ CheckTags(heap)
  /\ \A b \in Free : get_size(heap.mem, b) # min_block_size =>
       ~CheckTags(Damaged(header_to_footer(heap.mem, b), USER))
  /\ \A o \in Free : \A b \in Blocks \ Free :
       find_next(heap.mem, o) = b \/ find_next(heap.mem, b) = o =>
         ~CheckTags(Damaged(b, heap.mem[b] - 1))

(* mm.h: "True if the heap is consistent, False otherwise."                *)
(* check_freelist compares a block's next with its own prev, and reads the *)
(* prev of a null next (mm_checkheap).                                     *)
ConsistentHeapPasses == TagsAgree /\ ListsHoldFree => mm_checkheap(heap) = "true"

(* mm.h: "Allocate memory in the heap of at least `size` bytes."  The code *)
(* adds the header to the size in a size_t (malloc).                       *)
AtLeastAsAsked ==
  \A owned \in live : owned.size <= get_payload_size(heap.mem, block(owned.at))

(* mm.h documents calloc for any number of elements; the code divides by   *)
(* that number (calloc).                                                   *)
NeverTraps == ~trapped
=============================================================================
