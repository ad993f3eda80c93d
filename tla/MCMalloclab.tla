----------------------------- MODULE MCMalloclab -----------------------------
(***************************************************************************)
(* Small instances of the malloc lab around mm.c: the driver, the sparse   *)
(* memory, the timing of fcyc.c, and the two older heaps. They share no    *)
(* state; a behaviour runs one of them, the others rest in an initial      *)
(* state.                                                                  *)
(***************************************************************************)
EXTENDS Fcyc, TLC

CONSTANTS Nil, Garbage, NoPage, Unset

VARIABLES part,   \* which of them runs
          (* mdriver.c *)
          pc, pass, setup, i, opnum, heap, blocks, block_sizes, block_rand_base, ranges, allCheck,
          valid, errors, sizes, score, rangesVar, savedVar, alarm, honest, live, spoilt, due,
          (* memlib.c *)
          page_table, page, num_free_pages, mem_brk, checkUB, mem_call, rdata, exited,
          (* mm_copy_copy.c and mm_original.c *)
          listed_heap, listed_live, original_mem, original_brk, original_live

driver  == <<pc, pass, setup, i, opnum, heap, blocks, block_sizes, block_rand_base, ranges, allCheck,
             valid, errors, sizes, score, rangesVar, savedVar, alarm, honest, live, spoilt, due>>
memory  == <<page_table, page, num_free_pages, mem_brk, checkUB, mem_call, rdata, exited>>
listed  == <<listed_heap, listed_live>>
original == <<original_mem, original_brk, original_live>>
labVars == <<part, fcycVars, driver, memory, listed, original>>

-----------------------------------------------------------------------------
(* The driver: trace files with three or four ids, with a realloc of       *)
(* nothing, of nothing to nothing and a free(-1), and a file that is cut   *)
(* short by a timeout.                                                     *)
alloc(k, n)  == [type |-> "a", index |-> k, size |-> n]
resize(k, n) == [type |-> "r", index |-> k, size |-> n]
release(k)   == [type |-> "f", index |-> k]
Three == [num_ids |-> 3, ops |-> <<alloc(0, 2), alloc(1, 2), alloc(2, 2), release(1), release(0), release(2)>>]
Four  == [num_ids |-> 4, ops |-> <<alloc(0, 2), alloc(1, 2), alloc(2, 1), alloc(3, 2),
                                   release(1), release(0), release(3), release(2)>>]
Moves == [num_ids |-> 2, ops |-> <<alloc(0, 2), alloc(1, 1), resize(0, 3), release(-1), release(1), release(0)>>]
Zero  == [num_ids |-> 2, ops |-> <<resize(0, 2), alloc(1, 3), resize(0, 0), release(-1)>>]
DriverRuns ==
  [files : {<<Three>>, <<Four>>}, debug : {"cheap", "expensive"}, timeout : {FALSE}, onetime : {FALSE}]
  \cup [files : {<<Moves>>, <<Zero>>}, debug : {"none", "cheap"}, timeout : {FALSE}, onetime : {TRUE, FALSE}]
  \cup [files : {<<Zero, Zero>>}, debug : {"cheap"}, timeout : {TRUE}, onetime : {FALSE}]

Driver == INSTANCE Mdriver WITH
  HeapSize <- 10, ALIGNMENT <- 2, maxfill <- 2, Runs <- DriverRuns,
  Pointers <- {-2, 0, 1, 2, 4, 6, 8}, Scribbled <- {2, 5}

Sparse == INSTANCE SparseMemory WITH
  SPARSE_PAGE_SIZE <- 4, num_buckets <- 2, num_pages <- 2, word_size <- 3, MAX_SPARSE_HEAP <- 12,
  Words <- {<<0, 1, 0>>, <<1, 1, 1>>}, Accesses <- {<<0, 1>>, <<3, 2>>, <<2, 3>>, <<7, 2>>}, Copies <- {<<6, 1, 4>>}

Listed == INSTANCE ListedHeap WITH
  MaxHeap <- 18, chunksize <- 8, list_number <- 4, Requests <- {0, 2, 5}, Arrays <- {<<1, 7>>}, USER <- -1,
  heap <- listed_heap, live <- listed_live

Original == INSTANCE ImplicitHeap WITH
  MaxHeap <- 22, chunksize <- 6, Requests <- {0, 2, 4}, Arrays <- {<<1, 5>>}, USER <- -1,
  mem <- original_mem, brk <- original_brk, live <- original_live

-----------------------------------------------------------------------------
LabInit ==
  /\ part \in {"fcyc", "driver", "sparse", "listed", "original"}
  /\ FcycInit /\ Driver!DriverInit /\ Sparse!SparseInit /\ Listed!Init /\ Original!Init
  /\ part # "fcyc" => kbest = 1 /\ cache_bytes = 64
  /\ part # "driver" => setup = CHOOSE run \in DriverRuns : TRUE

FcycStep     == part = "fcyc" /\ FcycNext /\ UNCHANGED <<part, driver, memory, listed, original>>
DriverStep   == part = "driver" /\ Driver!DriverNext /\ UNCHANGED <<part, fcycVars, memory, listed, original>>
SparseStep   == part = "sparse" /\ Sparse!SparseNext /\ UNCHANGED <<part, fcycVars, driver, listed, original>>
ListedStep   == part = "listed" /\ Listed!Next /\ UNCHANGED <<part, fcycVars, driver, memory, original>>
OriginalStep == part = "original" /\ Original!Next /\ UNCHANGED <<part, fcycVars, driver, memory, listed>>
LabNext == FcycStep \/ DriverStep \/ SparseStep \/ ListedStep \/ OriginalStep

LabSpec == LabInit /\ [][LabNext]_labVars

-----------------------------------------------------------------------------
(* The driver's record of the ranges in use keeps its shape                *)
(* (Mdriver).                                                              *)
RangesAgree == part = "driver" => Driver!RangesAgree

(* The driver's verdict: an allocator without a mistake is called valid, a *)
(* payload that was written over is noticed, and an index is given only to *)
(* an allocator that passed every trace (Mdriver).                         *)
VerdictIsRight ==
  part = "driver" => Driver!GoodIsValid /\ Driver!SpoiltIsCaught /\ Driver!ScoreMeansValid

(* What mdriver.c:1195 promises of a new block and add_range does not keep. *)
NoOverlapAccepted == Driver!NoOverlapAccepted

(* memlib's pages behave as one flat memory (SparseMemory).                *)
ImplementsFlat ==
  /\ Sparse!Flat!FlatInit
  /\ [][part = "sparse" => Sparse!Flat!FlatNext]_(Sparse!Flat!flatVars)

(* fcyc returns the least of its own samples and clears the cache inside   *)
(* its buffer (Fcyc).                                                      *)
TimingIsSound == part = "fcyc" => BestOfK /\ ClearStaysInBuffer

(* In the two older heaps the blocks of the program keep what was stored,  *)
(* every free block stays on its list, and the debug build's assertions    *)
(* hold. One word is excepted: the last of a full block that               *)
(* mm_copy_copy.c's realloc moved (ListedHeap, ImplicitHeap).              *)
OlderHeapsKeepPayloads ==
  /\ part = "listed" => Listed!AssertionsHold /\ Listed!NothingLost
  /\ part = "original" => Original!PayloadIntact

(* What mdriver.c:1245 checks after a realloc and mm_copy_copy.c does not   *)
(* keep: the last word of a full block is not copied.                      *)
ReallocKeepsPayload == part = "listed" => Listed!ReallocKeepsPayload

(* Each call of the older heaps takes, splits, merges and grows segments   *)
(* as Segments says.                                                       *)
OlderHeapsImplementSegments == Listed!ImplementsSegments /\ Original!ImplementsSegments
=============================================================================
