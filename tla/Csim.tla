-------------------------------- MODULE Csim --------------------------------
(***************************************************************************)
(* The cache simulator (csim.c): one step per line of the trace.  A row of *)
(* the cache is E lines; the victim of a replacement is the first line     *)
(* with the smallest LRU counter.                                          *)
(***************************************************************************)
EXTENDS Integers, FiniteSets, Sequences

CONSTANTS SetBits,     \* the values of option -s to simulate with
          E, b,        \* lines per set, block bits
          W,           \* bits of an address (64 in the code)
          Addresses,   \* the addresses of the trace
          MaxAccesses  \* bound: length of the trace

ASSUME CsimAssumption ==
  /\ SetBits \subseteq Nat
  /\ b \in Nat /\ E \in Nat \ {0} /\ W \in Nat
  /\ \A n \in SetBits : n + b < W
  /\ Addresses \subseteq 0..(2^W - 1)
  /\ MaxAccesses \in Nat

VARIABLES
  s,                        \* set index bits
  cache,                    \* the rows
  Hits, Misses, Evicts,
  D_Cache, D_Evict,         \* dirty bytes, at the end and in evictions
  done, crashed,
  order                     \* history: for each row its tags, oldest use first

counters == <<Hits, Misses, Evicts>>
vars == <<s, cache, counters, D_Cache, D_Evict, done, crashed, order>>

S == 2^s
B == 2^b
Sets  == 0..(S - 1)
Lines == 1..E

(* Shifts of unsigned W-bit numbers.  A shift by W is undefined in C; the  *)
(* processor shifts by the distance modulo W.                              *)
Shl(x, n) == (x * 2^(n % W)) % 2^W
Shr(x, n) == x \div 2^(n % W)

TagOf(address) == Shr(address, s + b)
SetOf(address) == IF s + b # 0 THEN Shr(Shl(address, W - s - b), W - s) ELSE 0

-----------------------------------------------------------------------------
(* The lines of a row the three loops look for.                            *)
HitLine(row, tag) == {i \in Lines : row[i].valid /\ row[i].Tag = tag}
FreeLine(row)     == {i \in Lines : ~row[i].valid}
First(I)          == CHOOSE i \in I : \A k \in I : i <= k
Victim(row)       == First({i \in Lines : \A k \in Lines : row[i].LRU <= row[k].LRU})

LowerIf(line, test) == IF test THEN [line EXCEPT !.LRU = @ - 1] ELSE line

(* What a hit, a fill and a replacement make of a row.                     *)
OnHit_all(row, i, store) ==    \* mutant: every other line moves down
  [k \in Lines |->
     IF k = i THEN [row[i] EXCEPT !.dirty = @ \/ store, !.LRU = E]
     ELSE LowerIf(row[k], TRUE)]
OnHit(row, i, store) ==
  [k \in Lines |->
     IF k = i THEN [row[i] EXCEPT !.dirty = @ \/ store, !.LRU = E]
     ELSE LowerIf(row[k], row[k].LRU > row[i].LRU)]

OnFill(row, i, tag, store) ==
  [k \in Lines |->
     IF k = i THEN [valid |-> TRUE, Tag |-> tag, LRU |-> E, dirty |-> row[i].dirty \/ store]
     ELSE LowerIf(row[k], row[k].LRU = 1)]

OnReplace_dirty(row, i, tag, store) ==   \* mutant: the dirty bit is not reset
  [k \in Lines |->
     IF k = i THEN [valid |-> TRUE, Tag |-> tag, LRU |-> E - 1, dirty |-> row[i].dirty \/ store]
     ELSE LowerIf(row[k], TRUE)]
OnReplace(row, i, tag, store) ==
  [k \in Lines |->
     IF k = i THEN [valid |-> TRUE, Tag |-> tag, LRU |-> E - 1, dirty |-> store]
     ELSE LowerIf(row[k], TRUE)]

-----------------------------------------------------------------------------
Line == [valid : BOOLEAN, Tag : 0..(2^W - 1), dirty : BOOLEAN, LRU : 0..E]

TypeOK ==
  /\ s \in SetBits
  /\ cache \in [Sets -> [Lines -> Line]]
  /\ Hits \in Nat /\ Misses \in Nat /\ Evicts \in Nat
  /\ D_Cache \in Nat /\ D_Evict \in Nat
  /\ done \in BOOLEAN /\ crashed \in BOOLEAN

Init ==
  /\ s \in SetBits
  /\ cache = [set \in Sets |->
                [i \in Lines |-> [valid |-> FALSE, Tag |-> 0, dirty |-> FALSE, LRU |-> E]]]
  /\ Hits = 0 /\ Misses = 0 /\ Evicts = 0
  /\ D_Cache = 0 /\ D_Evict = 0
  /\ done = FALSE /\ crashed = FALSE
  /\ order = [set \in Sets |-> << >>]

(* The trace goes on, and this is its next address.                        *)
Reads(address) == /\ ~done /\ ~crashed
                  /\ Hits + Misses < MaxAccesses
                  /\ SetOf(address) \in Sets

Uses(set, tag, gone) ==
  order' = [order EXCEPT ![set] =
              Append(SelectSeq(@, LAMBDA other : other \notin {tag, gone}), tag)]

Hit(address, store) ==
  LET set == SetOf(address)  tag == TagOf(address)  row == cache[set]
  IN  /\ Reads(address)
      /\ HitLine(row, tag) # {}
      /\ Hits' = Hits + 1
      /\ cache' = [cache EXCEPT ![set] = OnHit(row, First(HitLine(row, tag)), store)]
      /\ Uses(set, tag, tag)
      /\ UNCHANGED <<s, Misses, Evicts, D_Cache, D_Evict, done, crashed>>

Fill(address, store) ==
  LET set == SetOf(address)  tag == TagOf(address)  row == cache[set]
  IN  /\ Reads(address)
      /\ HitLine(row, tag) = {}
      /\ FreeLine(row) # {}
      /\ Misses' = Misses + 1
      /\ cache' = [cache EXCEPT ![set] = OnFill(row, First(FreeLine(row)), tag, store)]
      /\ Uses(set, tag, tag)
      /\ UNCHANGED <<s, Hits, Evicts, D_Cache, D_Evict, done, crashed>>

Replace(address, store) ==
  LET set == SetOf(address)  tag == TagOf(address)  row == cache[set]
      j == Victim(row)
  IN  /\ Reads(address)
      /\ HitLine(row, tag) = {}
      /\ FreeLine(row) = {}
      /\ Misses' = Misses + 1
      /\ Evicts' = Evicts + 1
      /\ D_Evict' = IF row[j].dirty THEN D_Evict + B ELSE D_Evict
      /\ cache' = [cache EXCEPT ![set] = OnReplace(row, j, tag, store)]
      /\ Uses(set, tag, row[j].Tag)
      /\ UNCHANGED <<s, Hits, D_Cache, done, crashed>>

(* A set index past the last row reads whatever lies there.                *)
OutOfRows(address) ==
  /\ ~done /\ ~crashed
  /\ SetOf(address) \notin Sets
  /\ crashed' = TRUE
  /\ UNCHANGED <<s, cache, counters, D_Cache, D_Evict, done, order>>

(* End of the trace: count the dirty lines and print the summary.          *)
Finish ==
  /\ ~done /\ ~crashed
  /\ done' = TRUE
  /\ D_Cache' = B * Cardinality({p \in Sets \X Lines : cache[p[1]][p[2]].dirty})
  /\ UNCHANGED <<s, cache, counters, D_Evict, crashed, order>>

Access(address, store) ==
  Hit(address, store) \/ Fill(address, store) \/ Replace(address, store)

Next ==
  \/ \E address \in Addresses, store \in BOOLEAN : Access(address, store)
  \/ \E address \in Addresses : OutOfRows(address)
  \/ Finish
  \/ (done \/ crashed) /\ UNCHANGED vars

Spec == Init /\ [][Next]_vars
=============================================================================
