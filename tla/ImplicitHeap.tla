---------------------------- MODULE ImplicitHeap ----------------------------
(* mm_original.c, the allocator the lab starts from: every block has a     *)
(* header and a footer, the free ones are found by walking over all        *)
(* blocks, and blocks given back are not merged. The copy in rec10e puts   *)
(* the footer elsewhere. Addresses and sizes count words.                  *)
EXTENDS Integers, FiniteSets, FiniteSetsExt, TLC

CONSTANTS MaxHeap, chunksize,
          Requests,     \* sizes the program asks malloc and realloc for
          Arrays,       \* <<elements, size>> it asks calloc for; 0 elements end the process
          USER          \* what it stores

VARIABLES mem, brk,
          live   \* history: payloads the program owns, their sizes and contents
vars == <<mem, brk, live>>

dsize == 2
min_block_size == 2 * dsize
heap_start == 1

pack(size, alloc) == 8 * size + (IF alloc THEN 1 ELSE 0)
extract_size(word)  == 2 * (word \div 16)
extract_alloc(word) == word % 2 = 1
get_size(m, b)  == extract_size(m[b])
get_alloc(m, b) == extract_alloc(m[b])
header_to_footer(m, b) == b + 1 + get_size(m, b) - dsize
get_payload_size(m, b) == get_size(m, b) - dsize
find_next(m, b) == b + get_size(m, b)
write_epilogue(m, b) == [m EXCEPT ![b] = pack(0, TRUE)]
write_block(m, b, size, alloc) ==
  LET headed == [m EXCEPT ![b] = pack(size, alloc)]
  IN  [headed EXCEPT ![header_to_footer(headed, b)] = pack(size, alloc)]

(* The blocks from heap_start to the epilogue. *)
Blocks(m, end) ==
  LET follow == [b \in 0..MaxHeap |-> IF b >= end THEN end ELSE find_next(m, b)]
      at[i \in 0..MaxHeap] == IF i = 0 THEN heap_start ELSE follow[at[i - 1]]
  IN  {at[i] : i \in DOMAIN at} \ {end}

coalesce_block(b) == b

(* mem_sbrk; where the system's sbrk refuses, nothing changes: a stutter. *)
mem_sbrk_ok(size) == brk + size <= MaxHeap
(* The old epilogue becomes the header of the new block. *)
extend_heap(m, end, size) ==
  write_epilogue(write_block(m, coalesce_block(end - 1), size, FALSE), end - 1 + size)

split_block(m, b, asize) ==
  LET size == get_size(m, b) IN
  IF size - asize >= min_block_size
  THEN write_block(write_block(m, b, asize, TRUE), b + asize, size - asize, FALSE) ELSE m

(* First fit; 0 stands for NULL. *)
find_fit(asize) ==
  LET fits == {b \in Blocks(mem, brk - 1) : ~get_alloc(mem, b) /\ asize <= get_size(mem, b)}
  IN  IF fits = {} THEN 0 ELSE Min(fits)

adjusted(size) == dsize * ((size + dsize + (dsize - 1)) \div dsize)
Growth(asize)  == IF asize > chunksize THEN asize ELSE chunksize
Allocate(size) ==
  LET asize == adjusted(size)
      fit   == find_fit(asize)
      more  == Growth(asize)
      grown == extend_heap(mem, brk, more)
      Place(m, b) == split_block(write_block(m, b, get_size(m, b), TRUE), b, asize)
  IN  IF fit # 0 THEN [mem |-> Place(mem, fit), brk |-> brk, block |-> fit]
      ELSE IF ~mem_sbrk_ok(more) THEN [mem |-> mem, brk |-> brk, block |-> 0]
      ELSE [mem |-> Place(grown, brk - 1), brk |-> brk + more, block |-> brk - 1]
Release(m, b) == write_block(m, coalesce_block(b), get_size(m, b), FALSE)

(* The program fills what it is given; realloc and calloc fill first. *)
Filled(m, p, size, data) == [w \in p..(p + size - 1) |-> data] @@ m
HandOut(size, data) ==
  LET got == Allocate(size) IN
  IF got.block = 0 THEN UNCHANGED vars
  ELSE /\ mem' = Filled(got.mem, got.block + 1, size, data) /\ brk' = got.brk
       /\ live' = live \cup {[at |-> got.block + 1, size |-> size, data |-> data]}

malloc(size) == IF size = 0 THEN UNCHANGED vars ELSE HandOut(size, USER)
free(owned) ==
  /\ owned \in live /\ live' = live \ {owned}
  /\ mem' = Release(mem, owned.at - 1) /\ UNCHANGED brk
realloc(owned, size) ==
  LET got  == Allocate(size)
      to   == got.block + 1
      old  == get_payload_size(mem, owned.at - 1)
      copy == IF size < old THEN size ELSE old
      kept == IF size < owned.size THEN size ELSE owned.size
      moved == [w \in to..(to + copy - 1) |-> got.mem[owned.at + (w - to)]] @@ got.mem
  IN  /\ owned \in live
      /\ IF size = 0 THEN free(owned)
         ELSE IF got.block = 0 THEN UNCHANGED vars
         ELSE /\ mem' = Filled(Release(moved, owned.at - 1), to + kept, size - kept, owned.data)
              /\ brk' = got.brk
              /\ live' = (live \ {owned}) \cup {[at |-> to, size |-> size, data |-> owned.data]}
calloc(elements, size) ==
  IF elements * size = 0 THEN UNCHANGED vars ELSE HandOut(elements * size, 0)

(* mm_init *)
Init ==
  LET empty == [w \in 0..(MaxHeap - 1) |-> IF w < 2 THEN pack(0, TRUE) ELSE USER] IN
  /\ mem = extend_heap(empty, 2, chunksize) /\ brk = 2 + chunksize
  /\ live = {}
Next ==
  \/ \E size \in Requests : malloc(size)
  \/ \E array \in Arrays : calloc(array[1], array[2])
  \/ \E owned \in live : free(owned) \/ \E size \in Requests : realloc(owned, size)

-----------------------------------------------------------------------------
Segment(b) == [at |-> b, size |-> get_size(mem, b), used |-> get_alloc(mem, b)]
Asked == (Requests \cup {a[1] * a[2] : a \in Arrays}) \ {0}
SG == INSTANCE Segments WITH
  Start <- heap_start, Limit <- MaxHeap - 1, Chunk <- chunksize, Smallest <- min_block_size, Coalesces <- FALSE,
  Sizes <- {adjusted(size) : size \in Asked},
  segments <- {Segment(b) : b \in Blocks(mem, brk - 1)}

(* No header or footer is written into a payload, and none is lost: the    *)
(* program's blocks are the allocated ones, each with what was stored in   *)
(* it (write_block, split_block, realloc).                                 *)
PayloadIntact ==
  /\ {owned.at - 1 : owned \in live} = {b \in Blocks(mem, brk - 1) : get_alloc(mem, b)}
  /\ \A owned \in live :
       /\ owned.size <= get_payload_size(mem, owned.at - 1)
       /\ \A w \in owned.at..(owned.at + owned.size - 1) : mem[w] = owned.data

(* A call takes, splits and grows segments as Segments says, without ever  *)
(* merging them.                                                           *)
ImplementsSegments ==
  /\ SG!Init
  /\ [][LET new == live' \ live
            old == live \ live'
        IN  /\ old = {} => \A p \in new : SG!Malloc(adjusted(p.size))
            /\ \A g \in old :
                 IF new = {} THEN SG!Free(Segment(g.at - 1))
                 ELSE \A p \in new : SG!Realloc(Segment(g.at - 1), adjusted(p.size))]_vars
=============================================================================
