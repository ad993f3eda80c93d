----------------------------- MODULE CsimProofs -----------------------------
(***************************************************************************)
(* Proofs about the cache simulator, for traces of any length and any      *)
(* shape of the cache: what a hit, a fill and a replacement keep of a row. *)
(***************************************************************************)
EXTENDS CsimProperties, TLAPS, WellFoundedInduction, FiniteSetTheorems

Tags      == {0} \cup {Shr(address, n + b) : address \in Addresses, n \in SetBits}
CacheLine == [valid : BOOLEAN, Tag : Tags, dirty : BOOLEAN, LRU : 0..E]

Sound(row) == Spread(row) /\ AtTopWhileFree(row) /\ FreeIsClean(row) /\ NoBlockTwice(row)

IInv == /\ s \in SetBits
        /\ cache \in [Sets -> [Lines -> CacheLine]]
        /\ RowsSound

Under(row, n) == {i \in Lines : row[i].LRU < n}

-----------------------------------------------------------------------------
(* Lines, and the first of some. *)

(* A set of naturals has a smallest element.                               *)
LEMMA LeastNat ==
  ASSUME NEW I \in SUBSET Nat, I # {}
  PROVE  \E i \in I : \A k \in I : i <= k
<1> DEFINE R == {p \in Nat \X Nat : p[1] < p[2]}
<1>1. IsWellFoundedOn(R, Nat)
  BY NatLessThanWellFounded DEF OpToRel
<1>2. PICK i \in I : \A k \in I : ~(<<k, i>> \in R)
  BY <1>1, WFMin, IsWellFoundedOnSubset
<1>3. ASSUME NEW k \in I PROVE i <= k
  <2>1. <<k, i>> \in Nat \X Nat /\ <<k, i>>[1] = k /\ <<k, i>>[2] = i
    OBVIOUS
  <2>2. ~(k < i)
    BY <1>2, <2>1
  <2> QED BY <2>2
<1> QED BY <1>3

(* The loops of csim.c that look for a line find one if there is one.      *)
LEMMA FirstIsOne ==
  ASSUME NEW I \in SUBSET Lines, I # {}
  PROVE  First(I) \in I
<1>1. \E i \in I : \A k \in I : i <= k
  BY LeastNat, CsimAssumption DEF Lines
<1> QED BY <1>1 DEF First

(* Some of the lines are finitely many, and no more than all.              *)
LEMMA SomeLines ==
  ASSUME NEW I \in SUBSET Lines
  PROVE  IsFiniteSet(I) /\ Cardinality(I) \in Nat /\ Cardinality(I) <= E
<1>1. IsFiniteSet(Lines) /\ Cardinality(Lines) = E
  BY FS_Interval, CsimAssumption DEF Lines
<1> QED BY <1>1, FS_Subset, FS_CardinalityType

(* Lines that are among others, without one of these, are fewer.           *)
LEMMA OneLess ==
  ASSUME NEW I \in SUBSET Lines, NEW i \in I, NEW J \in SUBSET (I \ {i})
  PROVE  Cardinality(J) <= Cardinality(I) - 1
<1>1. IsFiniteSet(I \ {i}) /\ Cardinality(I \ {i}) = Cardinality(I) - 1
  BY SomeLines, FS_RemoveElement
<1> QED BY <1>1, SomeLines, FS_Subset

(* The victim of csim.c:191 has the smallest counter of its row.           *)
LEMMA VictimIsLeast ==
  ASSUME NEW row \in [Lines -> CacheLine]
  PROVE  Victim(row) \in Lines /\ \A k \in Lines : row[Victim(row)].LRU <= row[k].LRU
<1> DEFINE Least == {i \in Lines : \A k \in Lines : row[i].LRU <= row[k].LRU}
           Values == {row[i].LRU : i \in Lines}
<1>1. Values \in SUBSET Nat /\ Values # {}
  BY CsimAssumption DEF Lines, CacheLine
<1>2. \E v \in Values : \A w \in Values : v <= w
  <2> HIDE DEF Values
  <2> QED BY <1>1, LeastNat
<1>3. Least # {}
  BY <1>2
<1>4. First(Least) \in Least
  <2>1. Least \in SUBSET Lines
    OBVIOUS
  <2> HIDE DEF Least
  <2> QED BY <1>3, <2>1, FirstIsOne
<1> QED BY <1>4 DEF Victim

-----------------------------------------------------------------------------
(* What the three kinds of access make of a row. *)

(* A hit: csim.c:134 to 157.                                               *)
LEMMA HitKeepsRow ==
  ASSUME NEW row \in [Lines -> CacheLine], Sound(row), NEW store \in BOOLEAN,
         NEW i \in Lines, row[i].valid
  PROVE  OnHit(row, i, store) \in [Lines -> CacheLine] /\ Sound(OnHit(row, i, store))
<1> DEFINE new == OnHit(row, i, store)
<1>e. E \in Nat \ {0}
  BY CsimAssumption
<1>1. /\ \A k \in Lines : row[k] \in CacheLine
      /\ \A k \in Lines : row[k].LRU \in 0..E
  BY DEF CacheLine
<1>2. \A k \in Lines :
        /\ new[k] \in CacheLine
        /\ new[k].valid = row[k].valid /\ new[k].Tag = row[k].Tag
        /\ k # i => new[k].dirty = row[k].dirty
        /\ new[k].LRU = IF k = i THEN E
                        ELSE IF row[k].LRU > row[i].LRU THEN row[k].LRU - 1 ELSE row[k].LRU
  <2> SUFFICES ASSUME NEW k \in Lines
               PROVE  /\ new[k] \in CacheLine
                      /\ new[k].valid = row[k].valid /\ new[k].Tag = row[k].Tag
                      /\ k # i => new[k].dirty = row[k].dirty
                      /\ new[k].LRU = IF k = i THEN E
                                ELSE IF row[k].LRU > row[i].LRU THEN row[k].LRU - 1 ELSE row[k].LRU
    OBVIOUS
  <2>1. CASE k = i
    <3>1. PICK mark \in BOOLEAN : mark = (row[i].dirty \/ store)
      OBVIOUS
    <3>2. new[k] = [row[i] EXCEPT !.dirty = mark, !.LRU = E]
      BY <2>1, <3>1 DEF OnHit
    <3>3. /\ new[k].valid = row[i].valid /\ new[k].Tag = row[i].Tag
          /\ new[k].dirty = mark /\ new[k].LRU = E
      BY <3>2, <1>1 DEF CacheLine
    <3>4. new[k] \in CacheLine
      <4>1. row[i].valid \in BOOLEAN /\ row[i].Tag \in Tags /\ E \in 0..E
        BY <1>1, <1>e DEF CacheLine
      <4>2. new[k] = [valid |-> row[i].valid, Tag |-> row[i].Tag, dirty |-> mark, LRU |-> E]
        BY <3>2, <1>1 DEF CacheLine
      <4> QED BY <4>1, <4>2 DEF CacheLine
    <3> QED BY <3>3, <3>4, <2>1
  <2>2. CASE k # i
    <3>1. new[k] = LowerIf(row[k], row[k].LRU > row[i].LRU)
      BY <2>2 DEF OnHit
    <3> QED BY <3>1, <2>2, <1>1, <1>e DEF CacheLine, LowerIf
  <2> QED BY <2>1, <2>2
<1>3. new \in [Lines -> CacheLine]
  BY <1>2 DEF OnHit
<1> HIDE DEF new
<1>4. ASSUME NEW n \in 0..E PROVE Cardinality(Under(new, n)) <= n
  <2>1. CASE n <= row[i].LRU
    <3>1. Under(new, n) = Under(row, n)
      BY <1>1, <1>2, <1>e, <2>1 DEF Under
    <3> QED BY <3>1 DEF Sound, Spread, Under
  <2>2. CASE n > row[i].LRU /\ n < E
    <3>1. i \in Under(row, n + 1) /\ Under(row, n + 1) \in SUBSET Lines
      BY <1>1, <2>2 DEF Under
    <3>2. Under(new, n) \in SUBSET (Under(row, n + 1) \ {i})
      BY <1>1, <1>2, <1>e, <2>2 DEF Under
    <3>3. Cardinality(Under(row, n + 1)) <= n + 1
      <4>1. n + 1 \in 0..E
        BY <1>e, <2>2
      <4> QED BY <4>1 DEF Sound, Spread, Under
    <3>4. Cardinality(Under(new, n)) <= Cardinality(Under(row, n + 1)) - 1
      BY <3>1, <3>2, OneLess
    <3>5. Cardinality(Under(new, n)) \in Nat /\ Cardinality(Under(row, n + 1)) \in Nat
      BY SomeLines DEF Under
    <3> QED BY <3>3, <3>4, <3>5
  <2>3. CASE n = E
    BY <2>3, SomeLines DEF Under
  <2> QED BY <2>1, <2>2, <2>3, <1>1, <1>e
<1>5. Spread(new)
  BY <1>4 DEF Spread, Under
<1>6. AtTopWhileFree(new)
  BY <1>1, <1>2, <1>e DEF Sound, AtTopWhileFree, FreeLine
<1>7. FreeIsClean(new)
  BY <1>2 DEF Sound, FreeIsClean, FreeLine
<1>8. NoBlockTwice(new)
  BY <1>2 DEF Sound, NoBlockTwice
<1> QED BY <1>3, <1>5, <1>6, <1>7, <1>8 DEF Sound, new

(* A fill: csim.c:163 to 181.  No counter is at 1 unless E is.             *)
LEMMA FillKeepsRow ==
  ASSUME NEW row \in [Lines -> CacheLine], Sound(row), NEW store \in BOOLEAN, NEW tag \in Tags,
         HitLine(row, tag) = {}, NEW i \in FreeLine(row)
  PROVE  /\ OnFill(row, i, tag, store) \in [Lines -> CacheLine]
         /\ Sound(OnFill(row, i, tag, store))
<1> DEFINE new == OnFill(row, i, tag, store)
<1>e. E \in Nat \ {0} /\ Lines = 1..E
  BY CsimAssumption DEF Lines
<1>1. /\ i \in Lines
      /\ \A k \in Lines : row[k] \in CacheLine /\ row[k].LRU = E
      /\ E = 1 => Lines = {i}
  BY <1>e DEF FreeLine, Sound, AtTopWhileFree
<1>2. PICK mark \in BOOLEAN : mark = (row[i].dirty \/ store)
  OBVIOUS
<1>3. new[i] = [valid |-> TRUE, Tag |-> tag, LRU |-> E, dirty |-> mark]
  BY <1>1, <1>2 DEF OnFill
<1>4. \A k \in Lines \ {i} : new[k] = row[k]
  <2> SUFFICES ASSUME NEW k \in Lines \ {i} PROVE new[k] = row[k]
    OBVIOUS
  <2>1. new[k] = LowerIf(row[k], row[k].LRU = 1)
    BY DEF OnFill
  <2>2. row[k].LRU # 1
    BY <1>1
  <2> QED BY <2>1, <2>2 DEF LowerIf
<1>5. new \in [Lines -> CacheLine]
  <2>1. new[i] \in CacheLine
    <3>1. E \in 0..E
      BY <1>e
    <3> QED BY <3>1, <1>3 DEF CacheLine
  <2>2. \A k \in Lines : new[k] \in CacheLine
    BY <1>1, <1>4, <2>1
  <2> QED BY <2>2 DEF OnFill
<1>6. \A k \in Lines : new[k].LRU = E
  BY <1>1, <1>3, <1>4
<1> HIDE DEF new
<1>7. Spread(new)
  <2> SUFFICES ASSUME NEW n \in 0..E PROVE Cardinality(Under(new, n)) <= n
    BY DEF Spread, Under
  <2>1. Under(new, n) = {}
    BY <1>6, <1>e DEF Under
  <2> QED BY <2>1, FS_EmptySet
<1>8. AtTopWhileFree(new)
  BY <1>6 DEF AtTopWhileFree
<1>9. FreeIsClean(new)
  BY <1>3, <1>4 DEF Sound, FreeIsClean, FreeLine
<1>10. NoBlockTwice(new)
  BY <1>1, <1>3, <1>4 DEF Sound, NoBlockTwice, HitLine
<1> QED BY <1>5, <1>7, <1>8, <1>9, <1>10 DEF Sound, new

(* A replacement: csim.c:184 to 217.  The victim's counter is the          *)
(* smallest, so none of the others is 0 and each can be lowered.           *)
LEMMA ReplaceKeepsRow ==
  ASSUME NEW row \in [Lines -> CacheLine], Sound(row), NEW store \in BOOLEAN, NEW tag \in Tags,
         HitLine(row, tag) = {}, FreeLine(row) = {}
  PROVE  /\ OnReplace(row, Victim(row), tag, store) \in [Lines -> CacheLine]
         /\ Sound(OnReplace(row, Victim(row), tag, store))
<1> DEFINE i   == Victim(row)
           new == OnReplace(row, i, tag, store)
<1>e. E \in Nat \ {0}
  BY CsimAssumption
<1>1. /\ i \in Lines
      /\ \A k \in Lines : /\ row[k] \in CacheLine /\ row[k].LRU \in 0..E
                          /\ row[i].LRU <= row[k].LRU
  BY VictimIsLeast DEF CacheLine
<1>i. new[i] = [valid |-> TRUE, Tag |-> tag, LRU |-> E - 1, dirty |-> store]
  BY <1>1 DEF OnReplace
<1>k. \A k \in Lines \ {i} : new[k] = [row[k] EXCEPT !.LRU = @ - 1]
  BY DEF OnReplace, LowerIf
<1>f. DOMAIN new = Lines /\ new = [k \in Lines |-> new[k]]
  BY DEF OnReplace
<1> HIDE DEF i, new
<1>2. \A k \in Lines \ {i} : row[k].LRU > 0
  <2> SUFFICES ASSUME NEW k \in Lines \ {i}, row[k].LRU = 0 PROVE FALSE
    BY <1>1, <1>e
  <2>1. i \in Under(row, 1) /\ k \in Under(row, 1) \ {i} /\ Under(row, 1) \in SUBSET Lines
    BY <1>1, <1>e DEF Under
  <2>2. Cardinality(Under(row, 1)) <= 1
    <3>1. 1 \in 0..E
      BY <1>e
    <3> QED BY <3>1 DEF Sound, Spread, Under
  <2>3. Cardinality({k}) <= Cardinality(Under(row, 1)) - 1
    BY <2>1, OneLess
  <2>4. Cardinality({k}) = 1
    BY FS_Singleton
  <2>5. Cardinality(Under(row, 1)) \in Nat
    BY <2>1, SomeLines
  <2> QED BY <2>2, <2>3, <2>4, <2>5
<1>3. \A k \in Lines \ {i} :
        /\ new[k] \in CacheLine
        /\ new[k].valid = row[k].valid /\ new[k].Tag = row[k].Tag
        /\ new[k].dirty = row[k].dirty /\ new[k].LRU = row[k].LRU - 1
  <2> SUFFICES ASSUME NEW k \in Lines \ {i}
               PROVE  /\ new[k] \in CacheLine
                      /\ new[k].valid = row[k].valid /\ new[k].Tag = row[k].Tag
                      /\ new[k].dirty = row[k].dirty /\ new[k].LRU = row[k].LRU - 1
    OBVIOUS
  <2>1. row[k].LRU - 1 \in 0..E
    BY <1>1, <1>2, <1>e
  <2> QED BY <1>1, <1>k, <2>1 DEF CacheLine
<1>4. new \in [Lines -> CacheLine]
  <2>1. new[i] \in CacheLine
    <3>1. E - 1 \in 0..E
      BY <1>e
    <3> QED BY <3>1, <1>i DEF CacheLine
  <2>2. \A k \in Lines : new[k] \in CacheLine
    BY <1>3, <2>1
  <2> QED BY <1>f, <2>2
<1>5. ASSUME NEW n \in 0..E PROVE Cardinality(Under(new, n)) <= n
  <2>1. CASE n = E
    BY <2>1, SomeLines DEF Under
  <2>2. CASE n < E
    <3>1. Under(new, n) \in SUBSET (Under(row, n + 1) \ {i})
      BY <1>1, <1>3, <1>i, <1>e, <2>2 DEF Under
    <3>2. CASE Under(new, n) = {}
      BY <3>2, FS_EmptySet
    <3>3. CASE Under(new, n) # {}
      <4>1. i \in Under(row, n + 1) /\ Under(row, n + 1) \in SUBSET Lines
        BY <3>1, <3>3, <1>1, <1>e DEF Under
      <4>2. Cardinality(Under(row, n + 1)) <= n + 1
        <5>1. n + 1 \in 0..E
          BY <1>e, <2>2
        <5> QED BY <5>1 DEF Sound, Spread, Under
      <4>3. Cardinality(Under(new, n)) <= Cardinality(Under(row, n + 1)) - 1
        BY <3>1, <4>1, OneLess
      <4>4. Cardinality(Under(new, n)) \in Nat /\ Cardinality(Under(row, n + 1)) \in Nat
        BY SomeLines DEF Under
      <4> QED BY <4>2, <4>3, <4>4
    <3> QED BY <3>2, <3>3
  <2> QED BY <2>1, <2>2, <1>e
<1>6. Spread(new)
  BY <1>5 DEF Spread, Under
<1>7. AtTopWhileFree(new) /\ FreeIsClean(new)
  <2>1. FreeLine(new) = {}
    BY <1>i, <1>3 DEF FreeLine
  <2> QED BY <2>1 DEF AtTopWhileFree, FreeIsClean
<1>8. NoBlockTwice(new)
  BY <1>i, <1>3, <1>1 DEF Sound, NoBlockTwice, HitLine, FreeLine
<1> QED BY <1>4, <1>6, <1>7, <1>8 DEF Sound, new, i

-----------------------------------------------------------------------------
(* Every line of the trace keeps every row. *)

LEMMA InitInv == Init => IInv
<1> SUFFICES ASSUME Init PROVE IInv
  OBVIOUS
<1> DEFINE row == [i \in Lines |-> [valid |-> FALSE, Tag |-> 0, dirty |-> FALSE, LRU |-> E]]
<1>e. E \in Nat \ {0}
  BY CsimAssumption
<1>1. row \in [Lines -> CacheLine]
  BY <1>e DEF CacheLine, Tags
<1>2. \A i \in Lines : row[i].LRU = E /\ ~row[i].dirty /\ ~row[i].valid
  OBVIOUS
<1>3. s \in SetBits /\ cache = [set \in Sets |-> row]
  BY DEF Init
<1> HIDE DEF row
<1>4. Sound(row)
  <2>1. ASSUME NEW n \in 0..E PROVE Cardinality({i \in Lines : row[i].LRU < n}) <= n
    <3>1. {i \in Lines : row[i].LRU < n} = {}
      BY <1>2, <1>e
    <3> QED BY <3>1, FS_EmptySet
  <2> QED BY <1>2, <2>1 DEF Sound, Spread, AtTopWhileFree, FreeIsClean, NoBlockTwice, FreeLine
<1> QED BY <1>1, <1>3, <1>4 DEF IInv, RowsSound, Sound

(* Another row, and the invariant of all of them.                          *)
LEMMA NewRow ==
  ASSUME IInv, NEW set \in Sets, NEW new \in [Lines -> CacheLine], Sound(new),
         s' = s, cache' = [cache EXCEPT ![set] = new]
  PROVE  IInv'
<1>1. Sets' = Sets
  BY DEF Sets, S
<1>2. cache' \in [Sets -> [Lines -> CacheLine]]
  BY DEF IInv
<1>3. \A other \in Sets : Sound(cache'[other])
  BY DEF IInv, RowsSound, Sound
<1> QED BY <1>1, <1>2, <1>3 DEF IInv, RowsSound, Sound

LEMMA AccessKeepsInv ==
  ASSUME IInv, NEW address \in Addresses, NEW store \in BOOLEAN, Access(address, store)
  PROVE  IInv'
<1> DEFINE set == SetOf(address)  tag == TagOf(address)  row == cache[set]
<1>1. set \in Sets /\ s' = s
  BY DEF Access, Hit, Fill, Replace, Reads
<1>2. tag \in Tags
  BY DEF IInv, Tags, TagOf
<1>3. row \in [Lines -> CacheLine] /\ Sound(row)
  BY <1>1 DEF IInv, RowsSound, Sound
<1> HIDE DEF set, tag, row
<1>4. CASE Hit(address, store)
  <2> DEFINE i == First(HitLine(row, tag))
  <2>1. HitLine(row, tag) # {} /\ HitLine(row, tag) \in SUBSET Lines
    BY <1>4 DEF Hit, HitLine, row, set, tag
  <2>2. i \in HitLine(row, tag)
    BY <2>1, FirstIsOne
  <2>3. i \in Lines /\ row[i].valid
    BY <2>2 DEF HitLine
  <2>4. cache' = [cache EXCEPT ![set] = OnHit(row, i, store)]
    BY <1>4 DEF Hit, row, set, tag
  <2> HIDE DEF i
  <2>5. OnHit(row, i, store) \in [Lines -> CacheLine] /\ Sound(OnHit(row, i, store))
    BY <1>3, <2>3, HitKeepsRow
  <2> QED BY <1>1, <2>4, <2>5, NewRow
<1>5. CASE Fill(address, store)
  <2> DEFINE i == First(FreeLine(row))
  <2>1. /\ HitLine(row, tag) = {}
        /\ FreeLine(row) # {} /\ FreeLine(row) \in SUBSET Lines
    BY <1>5 DEF Fill, FreeLine, row, set, tag
  <2>2. i \in FreeLine(row)
    BY <2>1, FirstIsOne
  <2>3. cache' = [cache EXCEPT ![set] = OnFill(row, i, tag, store)]
    BY <1>5 DEF Fill, row, set, tag
  <2> HIDE DEF i
  <2>4. /\ OnFill(row, i, tag, store) \in [Lines -> CacheLine]
        /\ Sound(OnFill(row, i, tag, store))
    BY <1>2, <1>3, <2>1, <2>2, FillKeepsRow
  <2> QED BY <1>1, <2>3, <2>4, NewRow
<1>6. CASE Replace(address, store)
  <2>1. HitLine(row, tag) = {} /\ FreeLine(row) = {}
    BY <1>6 DEF Replace, row, set, tag
  <2>2. cache' = [cache EXCEPT ![set] = OnReplace(row, Victim(row), tag, store)]
    BY <1>6 DEF Replace, row, set, tag
  <2>3. /\ OnReplace(row, Victim(row), tag, store) \in [Lines -> CacheLine]
        /\ Sound(OnReplace(row, Victim(row), tag, store))
    BY <1>2, <1>3, <2>1, ReplaceKeepsRow
  <2> QED BY <1>1, <2>2, <2>3, NewRow
<1> QED BY <1>4, <1>5, <1>6 DEF Access

LEMMA IInvInductive == IInv /\ [Next]_vars => IInv'
<1> SUFFICES ASSUME IInv, [Next]_vars PROVE IInv'
  OBVIOUS
<1>1. ASSUME NEW address \in Addresses, NEW store \in BOOLEAN, Access(address, store)
      PROVE  IInv'
  BY <1>1, AccessKeepsInv
<1>2. CASE s' = s /\ cache' = cache
  BY <1>2 DEF IInv, RowsSound, Spread, AtTopWhileFree, FreeIsClean, NoBlockTwice, FreeLine, Sets, S
<1> QED BY <1>1, <1>2 DEF Next, OutOfRows, Finish, vars

-----------------------------------------------------------------------------
(* Whatever the trace, every row of the simulator is sound: its counters   *)
(* are spread, and it never holds a block twice.                           *)
THEOREM RowsStaySound == Spec => []RowsSound
<1>1. IInv => RowsSound
  BY DEF IInv
<1> QED BY InitInv, IInvInductive, <1>1, PTL DEF Spec

(* However long the trace, the counters csim.c:210-212 and 152-153 lower   *)
(* never sink below 0: at most n lines of a row are below n.               *)
THEOREM CountersStay == Spec => []CountersDoNotSink
<1>1. IInv => CountersDoNotSink
  BY DEF IInv, RowsSound, CountersDoNotSink
<1> QED BY InitInv, IInvInductive, <1>1, PTL DEF Spec
=============================================================================
