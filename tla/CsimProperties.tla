--------------------------- MODULE CsimProperties ---------------------------
(***************************************************************************)
(* What the cache simulator must satisfy, and its refinement of            *)
(* WriteBackCache.                                                         *)
(***************************************************************************)
EXTENDS Csim

(* A replacement lowers every counter of its row, a hit and a fill some,   *)
(* and only the line that is used goes back up: still at most n lines of a *)
(* row ever have a counter below n, so none is ever negative however long  *)
(* the trace.  (They need not differ: see VictimIsLRU.)                    *)
Spread(row) ==
  \A n \in 0..E : Cardinality({i \in Lines : row[i].LRU < n}) <= n

CountersDoNotSink == \A set \in Sets : Spread(cache[set])

(* No counter has moved while a line is free: the fill of csim.c:172,      *)
(* which lowers the lines at 1, never meets one unless E is 1.             *)
AtTopWhileFree(row) == FreeLine(row) # {} => \A i \in Lines : row[i].LRU = E

(* A free line is clean: csim.c:177 marks a filled line dirty for a store, *)
(* and for a load relies on the bit being clear.                           *)
FreeIsClean(row) == \A i \in FreeLine(row) : ~row[i].dirty

(* Two lines of a row never hold the same block.                           *)
NoBlockTwice(row) ==
  \A i, k \in Lines :
    i # k /\ row[i].valid /\ row[k].valid => row[i].Tag # row[k].Tag

(* What every row satisfies between any two lines of the trace, whatever   *)
(* hits, fills and replacements came before.                               *)
RowsSound ==
  \A set \in Sets :
    LET row == cache[set]
    IN  Spread(row) /\ AtTopWhileFree(row) /\ FreeIsClean(row) /\ NoBlockTwice(row)

(* Blocks and dirty blocks, as the lines of the rows hold them.            *)
Places       == Sets \X Lines
BlockAt(p)   == [set |-> p[1], tag |-> cache[p[1]][p[2]].Tag]
Resident     == {BlockAt(p) : p \in {q \in Places : cache[q[1]][q[2]].valid}}
DirtyBlocks  == {BlockAt(p) : p \in {q \in Places : cache[q[1]][q[2]].dirty}}

WBC == INSTANCE WriteBackCache WITH
  SetNumbers <- {2^n : n \in SetBits}, NumSets <- S, Ways <- E, BlockSize <- B,
  resident <- Resident,
  dirty    <- DirtyBlocks,
  hits <- Hits, misses <- Misses, evicts <- Evicts,
  cached <- D_Cache, evicted <- D_Evict

(* The summary is that of a write-back cache: shifts pick the set and the  *)
(* tag that division does, a block is never in two lines, nothing is       *)
(* replaced while a line is free, and dirty bytes are counted once.  Every *)
(* line of the trace is the access of WriteBackCache it says it is.        *)
ImplementsCache ==
  /\ WBC!Spec
  /\ [][\A address \in Addresses, store \in BOOLEAN :
          Access(address, store) => WBC!Access(address, store)]_vars

-----------------------------------------------------------------------------
(* csim.c:191 takes its victim for "the line which least recently used":   *)
(* a statement the code does not keep.                                     *)
VictimIsLRU ==
  [][\A address \in Addresses, store \in BOOLEAN :
       Replace(address, store) =>
         LET set == SetOf(address)
         IN  cache[set][Victim(cache[set])].Tag = order[set][1]]_vars
=============================================================================
