------------------------------- MODULE Mdriver -------------------------------
(***************************************************************************)
(* The malloc driver (mdriver.c) at work on an allocator that may do       *)
(* anything: it replays traces of requests, keeps the payload ranges in a  *)
(* list and a splay tree, fills each payload with random bytes and looks   *)
(* for them later.  The random bytes of a payload are modelled as distinct *)
(* from all others, and a byte no payload wrote as Garbage.                *)
(***************************************************************************)
EXTENDS Splay, Sequences

CONSTANTS HeapSize, ALIGNMENT,
          maxfill,      \* bytes of a payload that are filled and checked
          Runs,         \* what main may be asked for: [files, debug, timeout]
          Pointers,     \* what the allocator may return, besides Nil
          Scribbled,    \* heap addresses it may overwrite by mistake
          Garbage       \* a byte that no payload wrote

VARIABLES
  pc, pass,       \* where run_tests and main are, and in which evaluation
  setup,          \* the member of Runs
  i,              \* the trace file, the loop's counter
  opnum,          \* the next operation of its trace
  heap,           \* the bytes of the heap
  blocks, block_sizes, block_rand_base,
  ranges,         \* the range set in use: its list, its nodes, its tree
  allCheck,       \* of the evaluation that runs
  valid,          \* of each file's stats
  errors,
  sizes,          \* eval_mm_util: total_size and max_total_size
  score,
  rangesVar,      \* whether run_tests' variable ranges points to a freed set,
  savedVar,       \* and whether its value at setjmp would
  alarm,
  honest,         \* history: the allocator has made no mistake on this trace
  live,           \* history: the indices of the payloads in use
  spoilt,         \* history: those with a byte that something else wrote over
  due             \* history: such a payload was given back

evalVars    == <<opnum, heap, blocks, block_sizes, block_rand_base, ranges, allCheck>>
historyVars == <<honest, live, spoilt, due>>
driverVars  == <<pc, pass, setup, i, evalVars, valid, errors, sizes, score, rangesVar,
                 savedVar, alarm, historyVars>>

trace == setup.files[i]
Ids   == 0..(trace.num_ids - 1)
op    == trace.ops[opnum]
Heap  == 0..(HeapSize - 1)
Payload(lo, size) == lo..(lo + size - 1)

-----------------------------------------------------------------------------
(* The range set: records linked in a list, and a tree keyed by lo.        *)

new_range_set == [list |-> Nil, node |-> <<>>, lo_tree |-> tree_new]

LinkNext(node, p, q) == IF p = Nil THEN node ELSE [node EXCEPT ![p].next = q]
LinkPrev(node, p, q) == IF p = Nil THEN node ELSE [node EXCEPT ![p].prev = q]

Predecessor(rs, lo)  == tree_find_nearest(rs.lo_tree, lo)
Successor(rs, prev) == IF prev = Nil THEN Nil ELSE rs.node[prev].next

refuses(rs, lo, size) ==
  LET prev == Predecessor(rs, lo) next == Successor(rs, prev) IN
  \/ lo % ALIGNMENT # 0 \/ ~(Payload(lo, size) \subseteq Heap)
  \/ setup.debug # "none" /\ prev # Nil /\ lo <= rs.node[prev].hi
  \/ setup.debug # "none" /\ next # Nil /\ lo + size - 1 >= next

(* A record that has no predecessor becomes the head of the list, with no  *)
(* successor either: next is looked up through prev.                       *)
add_range(rs, lo, size, index) ==
  LET prev == Predecessor(rs, lo)
      next == Successor(rs, prev)
      p    == [hi |-> lo + size - 1, index |-> index, prev |-> prev, next |-> next]
  IN  IF setup.debug = "none" THEN rs
      ELSE [list    |-> IF prev = Nil THEN lo ELSE rs.list,
            node    |-> LinkPrev(LinkNext(With(rs.node, lo, p), prev, lo), next, lo),
            lo_tree |-> tree_insert(rs.lo_tree, lo)]

remove_range(rs, lo) ==
  IF lo \notin Keys(rs.lo_tree) THEN rs
  ELSE LET p == rs.node[lo] IN
       [list    |-> IF p.prev = Nil THEN p.next ELSE rs.list,
        node    |-> Less(LinkPrev(LinkNext(rs.node, p.prev, p.next), p.next, p.prev), lo),
        lo_tree |-> tree_remove(rs.lo_tree, lo)]

RECURSIVE Listed(_)
Listed(lo) == IF lo = Nil THEN {} ELSE {lo} \cup Listed(ranges.node[lo].next)

-----------------------------------------------------------------------------
(* Random data.  base stands for random(), new on every call.              *)

Lesser(x, y) == IF x < y THEN x ELSE y
Filled(size) == IF setup.debug = "none" THEN {} ELSE 0..(Lesser(size, maxfill) - 1)

randomize(h, lo, size, base) ==
  [a \in Heap |-> IF a - lo \in Filled(size) THEN <<base, a - lo>> ELSE h[a]]

intact(h, lo, size, base) == \A k \in Filled(size) : h[lo + k] = <<base, k>>

check_index(index) ==
  index < 0 \/ intact(heap, blocks[index], block_sizes[index], block_rand_base[index])

(* DBG_EXPENSIVE: every record on the list, before each operation.         *)
BadListed == IF setup.debug # "expensive" THEN 0
             ELSE Cardinality({lo \in Listed(ranges.list) :
                                  ~check_index(ranges.node[lo].index)})

-----------------------------------------------------------------------------
(* The allocator.  g is an address it overwrites, or Nil.                  *)

Scribble(h, g) == IF g = Nil THEN h ELSE [h EXCEPT ![g] = Garbage]
InUse(except)  == UNION {Payload(blocks[k], block_sizes[k]) : k \in live \ except}
Fits(p, size, except) == /\ p # Nil /\ p % ALIGNMENT = 0
                         /\ Payload(p, size) \subseteq Heap \ InUse(except)

Moved(old, p, size) ==
  [a \in Heap |-> IF a \in Payload(p, size) /\ old + (a - p) \in Heap
                  THEN heap[old + (a - p)] ELSE heap[a]]

FilledBytes(k) == {blocks[k] + n : n \in Filled(block_sizes[k])}
Hit(bytes, except) == {k \in live \ except : FilledBytes(k) \cap bytes # {}}
Struck(g) == IF g = Nil THEN {} ELSE Hit({g}, {})

-----------------------------------------------------------------------------
(* One evaluation: what its return does, and its operations.               *)

InValid == pass \in {"valid1", "valid2"}
EvalReturn_uncounted(result, malloc_errors) ==   \* mutant: errors are only printed
  /\ errors' = errors
  /\ valid' = [valid EXCEPT ![i] = IF pass = "valid1" THEN result ELSE @ /\ result]
  /\ pc' = IF pass = "valid1" THEN "free" ELSE "judge"
EvalReturn(result, malloc_errors) ==
  /\ errors' = errors + malloc_errors
  /\ valid' = [valid EXCEPT ![i] = IF pass = "valid1" THEN result ELSE @ /\ result]
  /\ pc' = IF pass = "valid1" THEN "free" ELSE "judge"

AtOp(type) == /\ pc = "ops" /\ InValid /\ opnum <= Len(trace.ops) /\ op.type = type
Step(malloc_errors) ==
  /\ opnum' = opnum + 1 /\ errors' = errors + malloc_errors
  /\ allCheck' = (allCheck /\ malloc_errors = 0)
  /\ UNCHANGED <<pc, valid>>
GiveUp(malloc_errors) ==
  /\ EvalReturn(FALSE, malloc_errors)
  /\ UNCHANGED <<evalVars, live, spoilt>>

(* mem_reset_brk, reinit_trace and mm_init.                                *)
StartEval ==
  /\ pc = "start"
  /\ heap' = [a \in Heap |-> Garbage]
  /\ blocks' = [k \in Ids |-> Nil] /\ block_sizes' = [k \in Ids |-> 0]
  /\ block_rand_base' = [k \in Ids |-> 0]
  /\ opnum' = 1 /\ allCheck' = TRUE /\ live' = {} /\ spoilt' = {}
  /\ sizes' = [total |-> 0, max |-> 0]
  /\ \/ pc' = "ops" /\ UNCHANGED <<valid, errors, honest>>
     \/ InValid /\ EvalReturn(FALSE, 1) /\ honest' = FALSE
     \/ ~InValid /\ pc' = "exit" /\ honest' = FALSE /\ UNCHANGED <<valid, errors>>
  /\ UNCHANGED <<pass, setup, i, ranges, score, rangesVar, savedVar, alarm, due>>

CheckheapFails ==
  /\ pc = "ops" /\ InValid /\ opnum <= Len(trace.ops) /\ setup.debug = "expensive"
  /\ honest' = FALSE
  /\ GiveUp(1)
  /\ UNCHANGED <<pass, setup, i, sizes, score, rangesVar, savedVar, alarm, due>>

Alloc ==
  /\ AtOp("a")
  /\ \E p \in Pointers \cup {Nil}, g \in Scribbled \cup {Nil} :
       /\ honest' = (honest /\ Fits(p, op.size, {}) /\ (g = Nil \/ g \notin InUse({})))
       /\ IF p = Nil \/ refuses(ranges, p, op.size) THEN GiveUp(BadListed + 1)
          ELSE /\ Step(BadListed)
               /\ ranges' = add_range(ranges, p, op.size, op.index)
               /\ blocks' = [blocks EXCEPT ![op.index] = p]
               /\ block_sizes' = [block_sizes EXCEPT ![op.index] = op.size]
               /\ block_rand_base' = [block_rand_base EXCEPT ![op.index] = opnum]
               /\ heap' = randomize(Scribble(heap, g), p, op.size, opnum)
               /\ live' = live \cup {op.index}
               /\ spoilt' = spoilt \cup Struck(g)
                            \cup Hit({p + n : n \in Filled(op.size)}, {op.index})
  /\ UNCHANGED <<pass, setup, i, sizes, score, rangesVar, savedVar, alarm, due>>

(* The payload is checked where it was, moved, and checked again up to the *)
(* smaller of its sizes.                                                   *)
Realloc ==
  /\ AtOp("r")
  /\ LET k == op.index size == op.size old == blocks[k]
         kept == Lesser(size, block_sizes[k])
         first == IF check_index(k) THEN 0 ELSE 1
     IN  \E p \in Pointers \cup {Nil}, copies \in BOOLEAN :
       LET moved  == IF copies /\ p # Nil /\ old # Nil THEN Moved(old, p, kept) ELSE heap
           without == remove_range(ranges, old)
           second == IF intact(moved, p, kept, block_rand_base[k]) THEN 0 ELSE 1
       IN
       /\ honest' = (honest /\ (IF size = 0 THEN p = Nil ELSE Fits(p, size, {k}))
                            /\ (copies \/ kept = 0 \/ p = old))
       /\ IF (p = Nil) # (size = 0) THEN GiveUp(BadListed + first + 1) /\ UNCHANGED due
          ELSE IF size > 0 /\ refuses(without, p, size)
          THEN /\ EvalReturn(FALSE, BadListed + first + 1)
               /\ ranges' = without
               /\ UNCHANGED <<opnum, heap, blocks, block_sizes, block_rand_base,
                              allCheck, live, spoilt, due>>
          ELSE /\ Step(BadListed + first + second)
               /\ ranges' = IF size > 0 THEN add_range(without, p, size, k) ELSE without
               /\ blocks' = [blocks EXCEPT ![k] = p]
               /\ block_sizes' = [block_sizes EXCEPT ![k] = size]
               /\ block_rand_base' = [block_rand_base EXCEPT ![k] = opnum]
               /\ heap' = IF size > 0 THEN randomize(moved, p, size, opnum) ELSE moved
               /\ live' = IF size > 0 THEN live \cup {k} ELSE live \ {k}
               /\ spoilt' = (spoilt \ {k}) \cup Hit({p + n : n \in Filled(size)}, {k})
               /\ due' = (due \/ k \in spoilt
                              \/ (setup.debug # "none" /\ kept > 0 /\ p # old /\ ~copies))
  /\ UNCHANGED <<pass, setup, i, sizes, score, rangesVar, savedVar, alarm>>

Free ==
  /\ AtOp("f")
  /\ LET k == op.index IN
     /\ Step(BadListed + (IF check_index(k) THEN 0 ELSE 1))
     /\ ranges' = IF k = -1 THEN ranges ELSE remove_range(ranges, blocks[k])
     /\ live' = live \ {k}
     /\ due' = (due \/ k \in spoilt)
     /\ \E g \in Scribbled \cup {Nil} :
          /\ spoilt' = (spoilt \cup Struck(g)) \ {k}
          /\ heap' = Scribble(heap, g)
          /\ honest' = (honest /\ (g = Nil \/ g \notin InUse({k})))
  /\ UNCHANGED <<blocks, block_sizes, block_rand_base, pass, setup, i, sizes, score,
                 rangesVar, savedVar, alarm>>

EndOps ==
  /\ pc = "ops" /\ opnum > Len(trace.ops)
  /\ IF InValid THEN EvalReturn(allCheck, 0)
     ELSE /\ pc' = IF pass = "util" THEN "start" ELSE "close"
          /\ UNCHANGED <<valid, errors>>
  /\ pass' = IF pass = "util" THEN "speed" ELSE pass
  /\ UNCHANGED <<setup, i, evalVars, sizes, score, rangesVar, savedVar, alarm, historyVars>>

(* eval_mm_util and eval_mm_speed replay the trace and check nothing but   *)
(* that there is a block; the first keeps count of the payload bytes.      *)
total_size_after ==
  IF op.index < 0 THEN sizes.total
  ELSE CASE op.type = "a" -> sizes.total + op.size
         [] op.type = "r" -> sizes.total + (op.size - block_sizes[op.index])
         [] op.type = "f" -> sizes.total - block_sizes[op.index]

Replay ==
  /\ pc = "ops" /\ ~InValid /\ opnum <= Len(trace.ops)
  /\ opnum' = opnum + 1
  /\ block_sizes' = IF pass = "util" /\ op.type \in {"a", "r"}
                    THEN [block_sizes EXCEPT ![op.index] = op.size] ELSE block_sizes
  /\ sizes' = IF pass # "util" THEN sizes
              ELSE [total |-> total_size_after,
                    max   |-> IF total_size_after > sizes.max THEN total_size_after
                                                              ELSE sizes.max]
  /\ UNCHANGED <<pc, pass, setup, i, heap, blocks, block_rand_base, ranges, allCheck,
                 valid, errors, score, rangesVar, savedVar, alarm, historyVars>>

(* app_error: no block for a request ends the driver.                      *)
ReplayFails ==
  /\ pc = "ops" /\ ~InValid /\ opnum <= Len(trace.ops)
  /\ op.type = "a" \/ (op.type = "r" /\ op.size # 0)
  /\ pc' = "exit"
  /\ UNCHANGED <<pass, setup, i, evalVars, valid, errors, sizes, score, rangesVar,
                 savedVar, alarm, historyVars>>

-----------------------------------------------------------------------------
(* run_tests and what main makes of its results.                           *)

Goes(from, to) ==
  /\ pc = from /\ pc' = to
  /\ UNCHANGED <<setup, evalVars, errors, sizes>>

Open ==
  /\ Goes("open", "setjmp")
  /\ rangesVar' = "in use"
  /\ honest' = TRUE /\ due' = FALSE
  /\ UNCHANGED <<pass, i, valid, score, savedVar, alarm, live, spoilt>>

(* From here on a timeout may bring back the value that ranges has now.    *)
Setjmp ==
  /\ Goes("setjmp", "start")
  /\ pass' = "valid1" /\ savedVar' = rangesVar
  /\ UNCHANGED <<i, valid, score, rangesVar, alarm, historyVars>>

FreeRanges ==
  /\ Goes("free", "renew")
  /\ rangesVar' = "freed" /\ savedVar' = "freed"
  /\ UNCHANGED <<pass, i, valid, score, alarm, historyVars>>

(* The second evaluation starts only if the first was passed.              *)
NewRanges ==
  /\ pc = "renew" /\ pc' = IF valid[i] THEN "start" ELSE "judge"
  /\ ranges' = new_range_set
  /\ rangesVar' = "in use" /\ pass' = "valid2"
  /\ UNCHANGED <<setup, i, opnum, heap, blocks, block_sizes, block_rand_base, allCheck,
                 valid, errors, sizes, score, savedVar, alarm, historyVars>>

(* With -c the run ends here.                                              *)
Judge ==
  /\ Goes("judge", IF setup.onetime THEN "main" ELSE IF valid[i] THEN "start" ELSE "close")
  /\ pass' = "util"
  /\ UNCHANGED <<i, valid, score, rangesVar, savedVar, alarm, historyVars>>

(* free_range_set of a set that was freed already: the C heap is damaged.  *)
Close ==
  /\ pc = "close"
  /\ pc' = IF rangesVar = "freed" THEN "undefined"
           ELSE IF i = Len(setup.files) THEN "main" ELSE "open"
  /\ i' = IF i = Len(setup.files) THEN i ELSE i + 1
  /\ rangesVar' = "freed" /\ savedVar' = "freed" /\ ranges' = new_range_set
  /\ UNCHANGED <<pass, setup, opnum, heap, blocks, block_sizes, block_rand_base, allCheck,
                 valid, errors, sizes, score, alarm, historyVars>>

(* The handler jumps to the last setjmp, whose frame is gone once          *)
(* run_tests has returned and which has not happened before the first.     *)
Timeout ==
  /\ alarm /\ pc \notin {"exit", "undefined"}
  /\ alarm' = FALSE
  /\ IF pc = "main" \/ (i = 1 /\ pc \in {"open", "setjmp"})
     THEN pc' = "undefined" /\ UNCHANGED <<errors, valid, rangesVar>>
     ELSE /\ errors' = 1
          /\ valid' = [valid EXCEPT ![i] = FALSE]
          /\ pc' = "close" /\ rangesVar' \in {rangesVar, savedVar}
  /\ UNCHANGED <<pass, setup, i, evalVars, sizes, score, savedVar, historyVars>>

Score ==
  /\ Goes("main", "exit")
  /\ score' = IF errors = 0 THEN "index" ELSE "zero"
  /\ UNCHANGED <<pass, i, valid, rangesVar, savedVar, alarm, historyVars>>

DriverInit ==
  /\ setup \in Runs
  /\ pc = "open" /\ pass = "valid1" /\ i = 1 /\ opnum = 1
  /\ heap = [a \in Heap |-> Garbage]
  /\ blocks = <<>> /\ block_sizes = <<>> /\ block_rand_base = <<>>
  /\ ranges = new_range_set /\ rangesVar = "freed" /\ savedVar = "freed"
  /\ allCheck = TRUE /\ errors = 0
  /\ valid = [n \in 1..Len(setup.files) |-> FALSE]
  /\ sizes = [total |-> 0, max |-> 0] /\ score = "none"
  /\ alarm = setup.timeout
  /\ honest = TRUE /\ live = {} /\ spoilt = {} /\ due = FALSE

DriverNext ==
  \/ Open \/ Setjmp \/ StartEval \/ CheckheapFails \/ Alloc \/ Realloc \/ Free
  \/ EndOps \/ Replay \/ ReplayFails \/ FreeRanges \/ NewRanges \/ Judge \/ Close
  \/ Timeout \/ Score

-----------------------------------------------------------------------------
(* The range set keeps its shape (add_range, remove_range and all of       *)
(* stree.c): the tree is a search tree of exactly the recorded ranges, and *)
(* records are linked both ways, upwards.                                  *)
RangesAgree ==
  LET node == ranges.node IN
  /\ IsSearchTree(ranges.lo_tree)
  /\ Keys(ranges.lo_tree) = DOMAIN node
  /\ ranges.list # Nil => ranges.list \in DOMAIN node /\ node[ranges.list].prev = Nil
  /\ \A lo \in DOMAIN node :
       /\ node[lo].next # Nil => /\ node[lo].next \in DOMAIN node /\ node[lo].next > lo
                                 /\ node[node[lo].next].prev = lo
       /\ node[lo].prev # Nil => /\ node[lo].prev \in DOMAIN node
                                 /\ node[node[lo].prev].next = lo

(* An allocator that made no mistake is never called wrong (eval_mm_valid):*)
(* neither the checks nor what the driver keeps between the operations and *)
(* the two evaluations can fail it.                                        *)
GoodIsValid == pc = "judge" /\ honest => valid[i]

(* A payload that something wrote over is noticed at the latest when it is *)
(* given back (check_index before free and around realloc), and the trace  *)
(* is then not called valid, whatever follows.                             *)
SpoiltIsCaught == pc = "judge" /\ due => ~valid[i]

(* The driver gives a performance index only if every trace passed both of *)
(* its evaluations and no timeout cut one short (errors, malloc_error and  *)
(* timeout_handler).                                                       *)
ScoreMeansValid == score = "index" => \A n \in DOMAIN valid : valid[n]

(* mdriver.c:1195 of a new block: it "must not overlap any currently       *)
(* allocated block".                                                       *)
NoOverlapAccepted ==
  pc = "ops" /\ InValid /\ setup.debug # "none" =>
    \A k \in live : Payload(blocks[k], block_sizes[k]) \cap InUse({k}) = {}
=============================================================================
