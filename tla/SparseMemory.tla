---------------------------- MODULE SparseMemory ----------------------------
(***************************************************************************)
(* The sparse memory emulation of memlib.c: heap addresses are offsets     *)
(* from SPARSE_HEAP_START, and their bytes are in pages that are taken     *)
(* from a small pool on first use and found through a hash table of        *)
(* chains.  A word is a sequence of bytes, the lowest first.               *)
(***************************************************************************)
EXTENDS Integers, Sequences, FiniteSets

CONSTANTS SPARSE_PAGE_SIZE, num_buckets, num_pages,
          word_size,          \* sizeof(uint64_t)
          MAX_SPARSE_HEAP,    \* the largest heap
          Words,              \* the values written: sequences of word_size bytes
          Accesses,           \* the pairs <<address, length>> of the accesses
          Copies,             \* the triples <<to, from, length>> that are copied
          NoPage

VARIABLES
  page_table,      \* the first page of each bucket's chain
  page,            \* the pool: [id, next, initSet, bytes]
  num_free_pages,
  mem_brk, checkUB,
  mem_call, rdata, \* history: the last call, and what the last read returned
  exited           \* why the program ended

sparseVars == <<page_table, page, num_free_pages, mem_brk, checkUB, mem_call, rdata, exited>>

Buckets == 0..(num_buckets - 1)
Pages   == 1..num_pages
Offsets == 0..(SPARSE_PAGE_SIZE - 1)

page_id(addr)  == addr \div SPARSE_PAGE_SIZE
offset(addr)   == addr % SPARSE_PAGE_SIZE
Bucket(id)     == id % num_buckets
Lower(x, y)    == IF x < y THEN x ELSE y

(* What the calls work on: the table, the pool, and the reason to exit.    *)
State == [table |-> page_table, page |-> page, free |-> num_free_pages, exit |-> "no"]

RECURSIVE InChain(_, _, _)
InChain(m, p, id) ==
  IF p = NoPage \/ m.page[p].id = id THEN p ELSE InChain(m, m.page[p].next, id)
PageOf(m, id) == InChain(m, m.table[Bucket(id)], id)

(* A page is taken in the order of the pool and put before the others of   *)
(* its bucket; its bytes are what they were.                               *)
NewPage_dirty(m, id) ==   \* mutant: what its last user initialized stays so
  LET p == num_pages - m.free + 1 IN
  [m EXCEPT !.free = @ - 1, !.table[Bucket(id)] = p,
            !.page[p].id = id, !.page[p].next = m.table[Bucket(id)]]
NewPage(m, id) ==
  LET p == num_pages - m.free + 1 IN
  [m EXCEPT !.free = @ - 1, !.table[Bucket(id)] = p,
            !.page[p].id = id, !.page[p].next = m.table[Bucket(id)],
            !.page[p].initSet = {}]

(* The bits of an access, which stops at the end of the page.              *)
Touched(addr, size) == offset(addr)..Lower(offset(addr) + size - 1, SPARSE_PAGE_SIZE - 1)

get_mem(m, addr, size, isWrite) ==
  LET id    == page_id(addr)
      found == PageOf(m, id) # NoPage
      n     == IF found \/ m.free = 0 THEN m ELSE NewPage(m, id)
      p     == PageOf(n, id)
  IN  IF m.exit # "no" THEN m
      ELSE IF p = NoPage THEN [m EXCEPT !.exit = "no pages"]
      ELSE IF isWrite THEN [n EXCEPT !.page[p].initSet = @ \cup Touched(addr, size)]
      ELSE IF checkUB /\ ~(Touched(addr, size) \subseteq n.page[p].initSet)
      THEN [n EXCEPT !.exit = "uninitialized"] ELSE n

(* Bytes that lie in one page.                                             *)
Load(m, addr, len) ==
  [k \in 1..len |-> m.page[PageOf(m, page_id(addr))].bytes[offset(addr) + k - 1]]
Store(m, addr, val) ==
  IF m.exit # "no" THEN m
  ELSE LET p == PageOf(m, page_id(addr)) IN
       [m EXCEPT !.page[p].bytes = [o \in Offsets |->
          IF o - offset(addr) \in 0..(Len(val) - 1) THEN val[o - offset(addr) + 1] ELSE @[o]]]

(* How much of an access lies in its first page.                           *)
llen(addr, len) == Lower(len, SPARSE_PAGE_SIZE - offset(addr))

mem_read(m, addr, len) ==
  LET lo == llen(addr, len)
      m1 == get_mem(m, addr, len, FALSE)
      m2 == IF lo = len THEN m1 ELSE get_mem(m1, addr + lo, len - lo, FALSE)
  IN  [m |-> m2,
       data |-> IF m2.exit # "no" THEN <<>>
                ELSE Load(m2, addr, lo) \o Load(m2, addr + lo, len - lo)]

mem_write(m, addr, val) ==
  LET lo == llen(addr, Len(val))
      m1 == Store(get_mem(m, addr, Len(val), TRUE), addr, SubSeq(val, 1, lo))
      hi == addr + lo
  IN  IF lo = Len(val) THEN m1
      ELSE Store(get_mem(m1, hi, Len(val) - lo, TRUE), hi, SubSeq(val, lo + 1, Len(val)))

(* Word by word, then what is left.                                        *)
RECURSIVE mem_memcpy(_, _, _, _)
mem_memcpy(m, dst, src, n) ==
  IF n = 0 \/ m.exit # "no" THEN m
  ELSE LET step == Lower(n, word_size)
           r    == mem_read(m, src, step)
       IN  mem_memcpy(IF r.m.exit # "no" THEN r.m ELSE mem_write(r.m, dst, r.data),
                      dst + step, src + step, n - step)

RECURSIVE mem_memset(_, _, _, _)
mem_memset(m, dst, c, n) ==
  IF n = 0 \/ m.exit # "no" THEN m
  ELSE LET step == Lower(n, word_size) IN
       mem_memset(mem_write(m, dst, [k \in 1..step |-> c]), dst + step, c, n - step)

-----------------------------------------------------------------------------
(* The calls.  An access outside the heap goes to the program's own memory *)
(* and is left out.                                                        *)

InHeap(addr, len) == addr + len <= mem_brk

Becomes(m, call) ==
  /\ page_table' = m.table /\ page' = m.page /\ num_free_pages' = m.free
  /\ exited' = m.exit /\ mem_call' = call
  /\ UNCHANGED <<mem_brk, checkUB>>

MemRead ==
  \E a \in Accesses :
    /\ InHeap(a[1], a[2])
    /\ LET r == mem_read(State, a[1], a[2]) IN
       /\ Becomes(r.m, <<"read", a[1], a[2]>>)
       /\ rdata' = IF r.m.exit = "no" THEN r.data ELSE rdata

MemWrite ==
  \E a \in Accesses, w \in Words :
    /\ InHeap(a[1], a[2])
    /\ LET val == SubSeq(w, 1, a[2]) IN
       Becomes(mem_write(State, a[1], val), <<"write", a[1], val>>)
    /\ UNCHANGED rdata

MemMemcpy ==
  \E c \in Copies :
    /\ InHeap(c[1], c[3]) /\ InHeap(c[2], c[3])
    /\ Becomes(mem_memcpy(State, c[1], c[2], c[3]), <<"copy", c[1], c[2], c[3]>>)
    /\ UNCHANGED rdata

MemMemset ==
  \E c \in Copies, w \in Words :
    /\ InHeap(c[1], c[3])
    /\ Becomes(mem_memset(State, c[1], w[1], c[3]), <<"set", c[1], w[1], c[3]>>)
    /\ UNCHANGED rdata

(* mem_reset_brk clears the table; mem_deinit and mem_init also bring new  *)
(* pages, all zero.                                                        *)
FirstByte == (CHOOSE w \in Words : TRUE)[1]
ZeroPage  == [id |-> 0, next |-> NoPage, initSet |-> {}, bytes |-> [o \in Offsets |-> FirstByte]]

MemResetBrk ==
  /\ page_table' = [k \in Buckets |-> NoPage]
  /\ num_free_pages' = num_pages /\ mem_brk' = 0
  /\ UNCHANGED <<page, checkUB, mem_call, rdata, exited>>

MemInit ==
  /\ page_table' = [k \in Buckets |-> NoPage]
  /\ page' = [p \in Pages |-> ZeroPage]
  /\ num_free_pages' = num_pages /\ mem_brk' = 0 /\ checkUB' = TRUE
  /\ UNCHANGED <<mem_call, rdata, exited>>

MemSbrk ==
  \E incr \in {SPARSE_PAGE_SIZE, MAX_SPARSE_HEAP} :
    /\ mem_brk + incr <= MAX_SPARSE_HEAP
    /\ mem_brk' = mem_brk + incr
    /\ UNCHANGED <<page_table, page, num_free_pages, checkUB, mem_call, rdata, exited>>

SetUBCheck ==
  /\ checkUB' = ~checkUB
  /\ UNCHANGED <<page_table, page, num_free_pages, mem_brk, mem_call, rdata, exited>>

SparseInit ==
  /\ page_table = [k \in Buckets |-> NoPage]
  /\ page = [p \in Pages |-> ZeroPage]
  /\ num_free_pages = num_pages /\ mem_brk = 0 /\ checkUB = TRUE
  /\ mem_call = <<"none">> /\ rdata = <<>> /\ exited = "no"

SparseNext ==
  /\ exited = "no"
  /\ \/ MemRead \/ MemWrite \/ MemMemcpy \/ MemMemset
     \/ MemResetBrk \/ MemInit \/ MemSbrk \/ SetUBCheck

-----------------------------------------------------------------------------
CONSTANTS Unset

(* The byte at an address, as the table and the pages give it.             *)
ByteAt(a) ==
  LET p == PageOf(State, page_id(a)) IN
  IF p = NoPage \/ offset(a) \notin page[p].initSet THEN Unset ELSE page[p].bytes[offset(a)]

Flat == INSTANCE FlatMemory WITH
          Bytes <- UNION {{w[k] : k \in DOMAIN w} : w \in Words}, Limit <- MAX_SPARSE_HEAP,
          byte <- [a \in 0..(MAX_SPARSE_HEAP - 1) |-> ByteAt(a)],
          brk <- mem_brk, ub <- checkUB, call <- mem_call, result <- rdata, ended <- exited

(* The emulation is a flat memory: through collisions in the hash table,   *)
(* accesses that cross a page, pages reused after a reset and the last     *)
(* page of the pool, a read returns the bytes last written (mem_read,      *)
(* mem_write, get_mem).                                                    *)
ImplementsFlat == Flat!FlatSpec
=============================================================================
