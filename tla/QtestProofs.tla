---------------------------- MODULE QtestProofs ----------------------------
(***************************************************************************)
(* The string queue under its test program, for any number of elements,    *)
(* strings and alarms: what the fields and the links are at every step of  *)
(* every operation, and that the queue implements StringQueue.             *)
(***************************************************************************)
EXTENDS QtestProperties, TLAPS, FiniteSetTheorems, SequenceTheorems, WellFoundedInduction

Clean == alarms = 0 /\ ~segv

(* At every place in the code: what is certain of a queue nothing is known *)
(* of.                                                                     *)
Basics ==
  /\ TypeOK
  /\ ~made => trusted
  /\ pc # "idle" => made
  /\ pc = "corrupt" => ~trusted
  /\ pc = "value" => cell \in allocated \ strings
  /\ pc \in {"append", "push"} => cell \in Cells
  /\ pc \in {"free_cell", "release_cell"} => cell \notin strings
  /\ pc \in {"free_value", "free_cell", "shrink"} => q.size > 0
  /\ pc \in {"value", "count", "grow"} => cmd.op \in {"ih", "it"}
  /\ pc \in {"value", "push", "first", "append", "tail", "only", "grow", "count"} => cmd.value \in Values
  /\ pc \in {"push", "first"} => cmd.op = "ih"
  /\ pc \in {"append", "tail", "only"} => cmd.op = "it"
  /\ pc \in {"release", "release_cell"} <=> cmd.op = "free" /\ pc # "corrupt"

(* The n elements numbered by c are different and linked in this order;    *)
(* the last leads to e.                                                    *)
Different(n, c) == \A i, k \in 1..n : c[i] = c[k] => i = k
Links(mem, n, c, e) == \A i \in 1..n : mem[c[i]].next = IF i = n THEN e ELSE c[i + 1]
FirstOf(n, c, e) == IF n = 0 THEN e ELSE c[1]
Members(n, c) == {c[i] : i \in 1..n}
Vals(mem, n, c) == [i \in 1..n |-> mem[c[i]].value]

(* In the middle of q_reverse, k - 1 links have been turned.               *)
HalfTurned(n, c, e, k) ==
  /\ \A i \in 1..n :
       heap[c[i]].next = IF 1 < i /\ i <= k THEN c[i - 1] ELSE IF i = n THEN e ELSE c[i + 1]
  /\ prev = c[k] /\ cell = IF k = n THEN e ELSE c[k + 1]

Linked(n, c, e) ==
  /\ Different(n, c)
  /\ pc # "turn" => Links(heap, n, c, e)
  /\ pc = "turn" => n > 1 /\ \E k \in 1..n : HalfTurned(n, c, e, k)
  /\ trusted => e = NULL

Holding == {"value", "append", "free_value", "free_cell"}
Blocks(n, c) ==
  /\ Members(n, c) \subseteq allocated
  /\ pc \in Holding => cell \in allocated \ Members(n, c)
  /\ Clean => /\ allocated = Members(n, c) \cup (IF pc \in Holding THEN {cell} ELSE {})
              /\ strings = allocated \ (IF pc \in {"value", "free_cell", "release_cell"} THEN {cell} ELSE {})

(* size and qcnt, head, tail, and what is in the hands of the operation.   *)
Counts(n) ==
  /\ pc \in {"idle", "value", "append", "count", "uncount", "turn", "retail", "rehead"} => q.size = n
  /\ pc \in {"push", "first", "tail", "only", "grow"} => n > 0 /\ q.size = n - 1
  /\ pc \in {"free_value", "free_cell", "shrink"} => q.size = n + 1
  /\ pc \in {"idle", "value", "append", "turn", "retail", "rehead"} => qcnt = n
  /\ pc \in {"push", "first", "tail", "only", "grow", "count"} => n > 0 /\ qcnt = n - 1
  /\ pc \in {"free_value", "free_cell", "shrink", "uncount"} => qcnt = n + 1
  /\ pc \in {"retail", "rehead"} => n > 1
  /\ pc = "release_cell" => n > 0

Heads(n, c, e) ==
  /\ pc \in {"idle", "value", "append", "first", "grow", "count", "free_value", "free_cell",
             "shrink", "uncount"} => q.head = FirstOf(n, c, e)
  /\ pc \in {"tail", "only"} => (n > 1 => q.head = c[1])
  /\ pc = "push" => q.head = IF n = 1 THEN e ELSE c[2]
  /\ pc = "turn" => q.head = c[1]
  /\ pc \in {"retail", "rehead"} => q.head = c[n]

Tails(n, c) ==
  /\ pc \in {"idle", "value", "append", "free_value", "free_cell", "shrink", "uncount",
             "grow", "count", "turn", "rehead"} => (n > 0 => q.tail = c[n])
  /\ pc \in {"push", "first"} => (n > 1 => q.tail = c[n])
  /\ pc = "only" => q.tail = c[n]
  /\ pc = "retail" => q.tail = c[1]

Hands(n, c, e) ==
  /\ pc \in {"push", "first"} => cell = c[1]
  /\ pc \in {"tail", "only"} => cell = c[n]
  /\ pc = "append" => heap[cell].next = NULL
  /\ pc \in {"value", "append"} => (trusted /\ cmd.op = "it" => n > 0)
  /\ pc \in {"retail", "rehead"} => prev = c[1]
  /\ pc \in {"release", "release_cell"} => cell = FirstOf(n, c, e)
  /\ pc = "release_cell" => prev = heap[cell].next

(* The elements hold strings.                                              *)
Worded(n, c) ==
  /\ pc \notin {"release", "release_cell"} => \A i \in 1..n : heap[c[i]].value \in Values
  /\ pc = "append" => heap[cell].value \in Values
  /\ pc \in {"free_value", "free_cell", "shrink", "uncount"} => cmd.value \in Values

(* The strings that were in the queue when the operation began.            *)
Shown(n, c) ==
  /\ pc \in {"value", "append", "turn"} => before = Vals(heap, n, c)
  /\ pc = "append" => heap[cell].value = cmd.value
  /\ pc \in {"push", "first"} \/ (pc \in {"grow", "count"} /\ cmd.op = "ih") =>
       /\ before = [i \in 1..(n - 1) |-> heap[c[i + 1]].value]
       /\ heap[c[1]].value = cmd.value
  /\ pc \in {"tail", "only"} \/ (pc \in {"grow", "count"} /\ cmd.op = "it") =>
       /\ before = [i \in 1..(n - 1) |-> heap[c[i]].value]
       /\ heap[c[n]].value = cmd.value
  /\ pc \in {"free_value", "free_cell", "shrink", "uncount"} =>
       before = [i \in 1..(n + 1) |-> IF i = 1 THEN cmd.value ELSE heap[c[i - 1]].value]
  /\ pc \in {"retail", "rehead"} => before = [i \in 1..n |-> heap[c[n + 1 - i]].value]

Sound(n, c, e) ==
  /\ Linked(n, c, e) /\ Blocks(n, c) /\ Counts(n)
  /\ Heads(n, c, e) /\ Tails(n, c) /\ Hands(n, c, e) /\ Worded(n, c)
  /\ trusted => Shown(n, c)

IsSound ==
  \E n \in Nat : \E c \in [1..n -> Cells], e \in Cells \cup {NULL} : Sound(n, c, e)

(* q_reverse on a list that never ends: no link is NULL, nor ever will be. *)
Endless ==
  /\ pc = "turn" /\ ~trusted /\ cell # NULL /\ prev # NULL
  /\ \A x \in allocated : heap[x].next # NULL

(* No queue: nothing is left of the last one.                              *)
Unmade == ~made /\ Clean => allocated = {} /\ strings = {}

Watched == made /\ pc # "corrupt" /\ (trusted \/ Clean)

QueueInv ==
  /\ Basics
  /\ Unmade
  /\ Watched => Endless \/ IsSound

-----------------------------------------------------------------------------
(* Walks. *)

(* A set of naturals has a least element.                                  *)
LEMMA LeastNat ==
  ASSUME NEW S \in SUBSET Nat, S # {}
  PROVE  \E m \in S : \A k \in S : m <= k
<1> DEFINE R == {ss \in Nat \X Nat : ss[1] < ss[2]}
<1>1. IsWellFoundedOn(R, Nat)
  BY NatLessThanWellFounded DEF OpToRel
<1>2. PICK m \in S : \A k \in S : ~(<<k, m>> \in R)
  BY <1>1, WFMin, IsWellFoundedOnSubset
<1>3. ASSUME NEW k \in S PROVE m <= k
  <2>1. <<k, m>> \in Nat \X Nat /\ <<k, m>>[1] = k /\ <<k, m>>[2] = m
    OBVIOUS
  <2>2. ~(k < m)
    BY <1>2, <2>1
  <2> QED BY <2>2
<1> QED BY <1>3

LEMMA NumberedFit ==
  ASSUME NEW n \in Nat, NEW c \in [1..n -> Cells], Different(n, c)
  PROVE  n <= Cardinality(Cells) /\ Cardinality(Cells) \in Nat
<1>1. c \in Injection(1..n, Cells)
  BY DEF Injection, IsInjective, Different
<1>2. Cardinality(1..n) <= Cardinality(Cells)
  BY <1>1, FS_Injection, QtestAssumption
<1>3. Cardinality(1..n) = n
  BY FS_Interval
<1> QED BY <1>2, <1>3, FS_CardinalityType, QtestAssumption

(* A list that ends is walked from its first element to its last.          *)
LEMMA WalkOfLinks ==
  ASSUME NEW h, NEW n \in Nat, NEW c \in [1..n -> Cells], Different(n, c), Links(h, n, c, NULL)
  PROVE  WalkIn(h, FirstOf(n, c, NULL)) = [i \in 1..n |-> c[i]]
<1> DEFINE N == Cardinality(Cells)
           start == FirstOf(n, c, NULL)
           Link(f) == [i \in 0..N |-> LET e == IF i = 0 THEN start ELSE f[i - 1]
                                      IN  IF i = 0 \/ e = NULL THEN e ELSE h[e].next]
           at == CHOOSE f : f = Link(f)
           g  == [i \in 0..N |-> IF i < n THEN c[i + 1] ELSE NULL]
<1>1. N \in Nat /\ n <= N /\ \A i \in 1..n : c[i] # NULL
  BY NumberedFit, QtestAssumption
<1>2. WalkIn(h, start) = [i \in 1..Cardinality({i \in DOMAIN at : at[i] # NULL}) |-> at[i - 1]]
  BY DEF WalkIn
<1> HIDE DEF N
<1>3. g = Link(g)
  <2> SUFFICES ASSUME NEW i \in 0..N PROVE g[i] = Link(g)[i]
    OBVIOUS
  <2>1. CASE i = 0
    BY <2>1 DEF FirstOf
  <2>2. CASE i > 0 /\ i <= n
    <3>1. g[i - 1] = c[i] /\ c[i] # NULL
      BY <1>1, <2>2
    <3>2. h[c[i]].next = IF i = n THEN NULL ELSE c[i + 1]
      BY <2>2 DEF Links
    <3>3. g[i] = IF i = n THEN NULL ELSE c[i + 1]
      BY <2>2
    <3> HIDE DEF g
    <3> QED BY <2>2, <3>1, <3>2, <3>3
  <2>3. CASE i > n
    <3>1. g[i - 1] = NULL /\ g[i] = NULL
      BY <1>1, <2>3
    <3> HIDE DEF g
    <3> QED BY <2>3, <3>1
  <2> QED BY <1>1, <2>1, <2>2, <2>3
<1>4. ASSUME NEW f, f = Link(f) PROVE f = g
  <2> DEFINE B == {i \in 0..N : f[i] # g[i]}
  <2>1. ASSUME B # {} PROVE FALSE
    <3>1. PICK i \in B : \A k \in B : i <= k
      <4>1. B \in SUBSET Nat
        BY <1>1
      <4> HIDE DEF B
      <4> QED BY <2>1, <4>1, LeastNat
    <3>2. i \in 0..N /\ f[i] = Link(f)[i] /\ g[i] = Link(g)[i]
      BY <1>3, <1>4, <3>1
    <3>3. CASE i = 0
      <4> HIDE DEF g
      <4> QED BY <3>1, <3>2, <3>3
    <3>4. CASE i # 0
      <4>1. i - 1 \in 0..N /\ i - 1 \notin B
        BY <1>1, <3>1, <3>4
      <4>2. f[i - 1] = g[i - 1]
        BY <4>1
      <4> HIDE DEF g
      <4> QED BY <3>1, <3>2, <3>4, <4>2
    <3> QED BY <3>3, <3>4
  <2>2. f = [i \in 0..N |-> f[i]]
    BY <1>4
  <2> QED BY <2>1, <2>2
<1>5. at = g
  <2> HIDE DEF g, Step
  <2> QED BY <1>3, <1>4
<1>6. {i \in DOMAIN g : g[i] # NULL} = 0..(n - 1)
  <2>1. DOMAIN g = 0..N
    OBVIOUS
  <2>2. \A i \in 0..N : g[i] # NULL <=> i < n
    BY <1>1
  <2> HIDE DEF g
  <2> QED BY <1>1, <2>1, <2>2
<1>7. Cardinality(0..(n - 1)) = n
  BY FS_Interval
<1> HIDE DEF at
<1>8. WalkIn(h, start) = [i \in 1..n |-> g[i - 1]]
  <2> HIDE DEF g
  <2> QED BY <1>2, <1>5, <1>6, <1>7
<1>9. \A i \in 1..n : g[i - 1] = c[i]
  BY <1>1
<1> HIDE DEF g
<1> QED BY <1>8, <1>9

-----------------------------------------------------------------------------
(* What every step preserves. *)

(* Writing one field of an element.                                        *)
Element == [value : Values \cup {NULL}, next : Cells \cup {NULL}]

LEMMA SetNext ==
  ASSUME NEW h \in [Cells -> Element], NEW x \in Cells, NEW y \in Cells \cup {NULL}
  PROVE  /\ [h EXCEPT ![x].next = y] \in [Cells -> Element]
         /\ \A z \in Cells : /\ [h EXCEPT ![x].next = y][z].next = IF z = x THEN y ELSE h[z].next
                            /\ [h EXCEPT ![x].next = y][z].value = h[z].value
<1>1. h[x] \in Element /\ [h[x] EXCEPT !.next = y] \in Element
  BY DEF Element
<1>2. /\ [h[x] EXCEPT !.next = y].next = y
      /\ [h[x] EXCEPT !.next = y].value = h[x].value
  BY <1>1 DEF Element
<1> DEFINE n == [h[x] EXCEPT !.next = y]
<1> HIDE DEF n
<1>3. /\ [h EXCEPT ![x] = n] \in [Cells -> Element]
      /\ \A z \in Cells : [h EXCEPT ![x] = n][z] = IF z = x THEN n ELSE h[z]
  BY <1>1 DEF n
<1> QED BY <1>2, <1>3 DEF n

LEMMA SetValue ==
  ASSUME NEW h \in [Cells -> Element], NEW x \in Cells, NEW y \in Values \cup {NULL}
  PROVE  /\ [h EXCEPT ![x].value = y] \in [Cells -> Element]
         /\ \A z \in Cells : /\ [h EXCEPT ![x].value = y][z].value = IF z = x THEN y ELSE h[z].value
                            /\ [h EXCEPT ![x].value = y][z].next = h[z].next
<1>1. h[x] \in Element /\ [h[x] EXCEPT !.value = y] \in Element
  BY DEF Element
<1>2. /\ [h[x] EXCEPT !.value = y].value = y
      /\ [h[x] EXCEPT !.value = y].next = h[x].next
  BY <1>1 DEF Element
<1> DEFINE n == [h[x] EXCEPT !.value = y]
<1> HIDE DEF n
<1>3. /\ [h EXCEPT ![x] = n] \in [Cells -> Element]
      /\ \A z \in Cells : [h EXCEPT ![x] = n][z] = IF z = x THEN n ELSE h[z]
  BY <1>1 DEF n
<1> QED BY <1>2, <1>3 DEF n

(* Types, and what each step needs of the one before it.                   *)
LEMMA BasicsStep ==
  ASSUME Basics, [Next]_vars
  PROVE  Basics'
<1> USE QtestAssumption DEF Basics, TypeOK, PC, Goto, Return, Cut, Segfault, Corrupt, Assign, Begin,
        Empty, NoCmd, memory, locals, history
<1>1. CASE New
  BY <1>1 DEF New
<1>2. CASE ValueFails
  BY <1>2 DEF ValueFails
<1>3. CASE Value
  BY <1>3 DEF Value
<1>4. CASE Push
  BY <1>4 DEF Push
<1>5. CASE First
  BY <1>5 DEF First
<1>6. CASE LinkTail
  <2>1. CASE q.tail = NULL /\ Segfault("it")
    BY <1>6, <2>1 DEF LinkTail
  <2>2. CASE q.tail \in allocated /\ pc' = "tail" /\ heap' = [heap EXCEPT ![q.tail].next = cell]
    <3>1. heap' \in [Cells -> Element] /\ UNCHANGED <<allocated, strings, made, q, qcnt, cmd, locals, history>>
      BY ONLY Basics, <1>6, <2>2, SetNext, QtestAssumption
        DEF Basics, TypeOK, LinkTail, Element, Corrupt, Segfault, Return
    <3> QED BY <1>6, <2>2, <3>1 DEF LinkTail, Element
  <2>3. CASE q.tail \in Cells \ allocated /\ Corrupt
    BY <1>6, <2>3 DEF LinkTail
  <2> QED BY ONLY <1>6, <2>1, <2>2, <2>3 DEF LinkTail
<1>7. CASE SetTail
  BY <1>7 DEF SetTail
<1>8. CASE Only
  BY <1>8 DEF Only
<1>9. CASE Grow
  BY <1>9 DEF Grow
<1>10. CASE Count
  BY <1>10 DEF Count
<1>11. CASE RemoveHead
  <2>1. CASE q.head = NULL /\ Segfault("rh")
    BY <1>11, <2>1 DEF RemoveHead
  <2>2. CASE q.head \in allocated /\ Begin("rh", heap[q.head].value, "free_value")
    <3>1. heap[q.head].value \in Values \cup {NULL} /\ heap[q.head].next \in Cells \cup {NULL}
      BY <2>2
    <3> QED BY <1>11, <2>2, <3>1 DEF RemoveHead
  <2>3. CASE q.head \in Cells \ allocated /\ Corrupt
    BY <1>11, <2>3 DEF RemoveHead
  <2> HIDE DEF Basics, Begin, Segfault, Corrupt
  <2> QED BY <1>11, <2>1, <2>2, <2>3 DEF RemoveHead
<1>12. CASE FreeValue
  BY <1>12 DEF FreeValue
<1>13. CASE FreeCell
  BY <1>13 DEF FreeCell
<1>14. CASE Shrink
  BY <1>14 DEF Shrink
<1>15. CASE Uncount
  BY <1>15 DEF Uncount
<1>16. CASE StartReverse
  <2>1. CASE q.head = NULL /\ Segfault("reverse")
    BY <1>16, <2>1 DEF StartReverse
  <2>2. CASE q.head \in allocated /\ Begin("reverse", NULL, "turn")
    <3>1. heap[q.head].next \in Cells \cup {NULL}
      BY <2>2
    <3> QED BY <1>16, <2>2, <3>1 DEF StartReverse
  <2>3. CASE q.head \in Cells \ allocated /\ Corrupt
    BY <1>16, <2>3 DEF StartReverse
  <2> HIDE DEF Basics, Begin, Segfault, Corrupt
  <2> QED BY <1>16, <2>1, <2>2, <2>3 DEF StartReverse
<1>17. CASE Turn
  <2>1. CASE Corrupt
    BY <1>17, <2>1 DEF Turn
  <2>2. CASE cell \in allocated
    <3>1. cell \in Cells /\ heap[cell].next \in Cells \cup {NULL}
      BY <2>2
    <3>2. heap' \in [Cells -> Element]
      BY <1>17, <2>2, <3>1, SetNext DEF Turn, Element
    <3> QED BY <1>17, <2>2, <3>1, <3>2 DEF Turn, Element
  <2> QED BY <1>17, <2>1, <2>2 DEF Turn
<1>18. CASE TurnedAll
  <2>1. CASE q.head \in Cells
    <3>1. heap' \in [Cells -> Element]
      BY <1>18, <2>1, SetNext DEF TurnedAll, Element
    <3> QED BY <1>18, <3>1 DEF TurnedAll, Element
  <2>2. CASE q.head = NULL
    <3>1. heap' = heap /\ pc = "turn" /\ pc' = "retail" /\ cell' = cell
      BY <1>18, <2>2 DEF TurnedAll, Goto
    <3>2. UNCHANGED <<allocated, strings, made, q, qcnt, cmd, prev, alarms, segv, trusted, before>>
      BY <1>18 DEF TurnedAll, locals, history
    <3> QED BY <3>1, <3>2
  <2> QED BY <2>1, <2>2
<1>19. CASE Retail
  BY <1>19 DEF Retail
<1>20. CASE Rehead
  BY <1>20 DEF Rehead
<1>21. CASE StartFree
  BY <1>21 DEF StartFree
<1>22. CASE Release
  <2>1. CASE Corrupt
    BY <1>22, <2>1 DEF Release
  <2>2. CASE cell \in allocated
    <3>1. cell \in Cells /\ heap[cell].next \in Cells \cup {NULL}
      BY <2>2
    <3>2. heap' \in [Cells -> Element]
      BY <1>22, <2>2, <3>1, SetValue DEF Release, Element
    <3> QED BY <1>22, <2>2, <3>1, <3>2 DEF Release, Element
  <2> QED BY <1>22, <2>1, <2>2 DEF Release
<1>23. CASE ReleaseCell
  BY <1>23 DEF ReleaseCell
<1>24. CASE ReleasedAll
  <2>1. q' \in [head : Cells \cup {NULL}, tail : Cells \cup {NULL}, size : Nat]
    BY <1>24 DEF ReleasedAll
  <2>2. /\ cmd' = NoCmd /\ pc' = "idle" /\ cell' = NULL /\ prev' = NULL
        /\ UNCHANGED <<heap, allocated, strings, alarms, segv>>
    BY <1>24 DEF ReleasedAll
  <2>3. trusted' = TRUE /\ made' = FALSE /\ qcnt' = 0
    BY <1>24 DEF ReleasedAll
  <2>4. TypeOK'
    <3>1. cmd' \in [op : {"none", "ih", "it", "rh", "reverse", "free"}, value : Values \cup {NULL}]
      BY ONLY <2>2 DEF NoCmd
    <3>2. made' \in BOOLEAN /\ trusted' \in BOOLEAN
      BY ONLY <2>3, Zenon
    <3>3. qcnt' \in Int
      BY ONLY <2>3
    <3> QED BY ONLY Basics, <2>1, <2>2, <3>1, <3>2, <3>3 DEF Basics, TypeOK, PC
  <2> QED BY <2>2, <2>3, <2>4
<1>25. CASE Alarm
  <2>0. /\ cmd' = NoCmd /\ pc' = "idle" /\ cell' = NULL /\ prev' = NULL
        /\ UNCHANGED <<heap, allocated, strings, segv>>
        /\ alarms' \in 0..MaxAlarms
    BY <1>25 DEF Alarm
  <2>1. CASE cmd.op = "free"
    <3>1. /\ q' \in [head : Cells \cup {NULL}, tail : Cells \cup {NULL}, size : Nat]
          /\ made' = FALSE /\ trusted' = TRUE /\ qcnt' = 0
      BY <1>25, <2>1 DEF Alarm
    <3>2. cmd' \in [op : {"none", "ih", "it", "rh", "reverse", "free"}, value : Values \cup {NULL}]
      BY ONLY <2>0 DEF NoCmd
    <3>3. made' \in BOOLEAN /\ trusted' \in BOOLEAN
      BY ONLY <3>1, Zenon
    <3>6. qcnt' \in Int
      BY ONLY <3>1
    <3>4. TypeOK'
      BY ONLY Basics, <2>0, <3>1, <3>2, <3>3, <3>6 DEF Basics, TypeOK, PC
    <3>5. cmd'.op = "none"
      BY ONLY <2>0 DEF NoCmd
    <3> QED BY <2>0, <3>1, <3>4, <3>5
  <2>2. CASE cmd.op # "free"
    <3>1. UNCHANGED <<made, q, qcnt>> /\ trusted' = FALSE
      BY <1>25, <2>2 DEF Alarm
    <3>2. made
      BY <1>25 DEF Alarm
    <3> QED BY <2>0, <3>1, <3>2
  <2> QED BY <2>1, <2>2
<1>26. ASSUME NEW op \in {"ih", "it"}, NEW value \in Values, StartInsert(op, value)
      PROVE  Basics'
  BY <1>26 DEF StartInsert
<1>27. CASE UNCHANGED vars
  BY <1>27 DEF vars
<1> HIDE DEF Basics, Goto, Return, Cut, Segfault, Corrupt, Assign, Begin
<1> QED BY <1>1, <1>2, <1>3, <1>4, <1>5, <1>6, <1>7, <1>8, <1>9, <1>10, <1>11, <1>12, <1>13, <1>14,
           <1>15, <1>16, <1>17, <1>18, <1>19, <1>20, <1>21, <1>22, <1>23, <1>24, <1>25, <1>26,
           <1>27 DEF Next, Command, Step

(* At the prompt, the strings of the list are those of the numbered        *)
(* elements.                                                               *)
LEMMA SoundContents ==
  ASSUME Basics, NEW n \in Nat, NEW c \in [1..n -> Cells], NEW e \in Cells \cup {NULL},
         Sound(n, c, e), trusted, pc = "idle"
  PROVE  Chain = [i \in 1..n |-> c[i]] /\ Contents = Vals(heap, n, c)
<1>1. Different(n, c) /\ Links(heap, n, c, NULL) /\ e = NULL
  BY DEF Sound, Linked
<1>2. q.head = FirstOf(n, c, NULL)
  BY <1>1 DEF Sound, Heads
<1>3. WalkIn(heap, FirstOf(n, c, NULL)) = [i \in 1..n |-> c[i]]
  BY <1>1, WalkOfLinks
<1>4. Chain = [i \in 1..n |-> c[i]]
  BY ONLY <1>2, <1>3 DEF Chain, Walk
<1>5. Contents = [i \in 1..n |-> heap[c[i]].value]
  <2> DEFINE w == [i \in 1..n |-> c[i]]
  <2>1. Contents = [i \in DOMAIN w |-> heap[w[i]].value]
    BY ONLY <1>4 DEF Contents
  <2> QED BY ONLY <2>1
<1> QED BY <1>4, <1>5 DEF Vals

(* Steps that leave the numbering as it is.                                *)
LEMMA SameNumbering ==
  ASSUME Basics, Basics', Watched', NEW n \in Nat, NEW c \in [1..n -> Cells], NEW e \in Cells \cup {NULL},
         Sound(n, c, e),
         \/ ValueFails \/ Push \/ First \/ SetTail \/ Only \/ Grow \/ Count
         \/ FreeValue \/ FreeCell \/ Shrink \/ Uncount
         \/ StartReverse \/ Retail \/ Rehead \/ StartFree \/ Release
         \/ \E op \in {"ih", "it"}, value \in Values : StartInsert(op, value)
  PROVE  Sound(n, c, e)'
<1> USE QtestAssumption DEF Goto, Return, Cut, Segfault, Corrupt, Assign, Begin, NoCmd, memory, locals, history,
        Sound, Linked, Different, Links, HalfTurned, Blocks, Members, Holding, Counts, Heads, Tails, Hands,
        Worded, Shown, Vals, FirstOf, Clean, Watched, Basics, TypeOK
<1>1. CASE ValueFails
  <2>1. Linked(n, c, e)'
    BY <1>1 DEF ValueFails
  <2>2. Blocks(n, c)'
    BY <1>1 DEF ValueFails
  <2>3. Counts(n)'
    BY <1>1 DEF ValueFails
  <2>4. Heads(n, c, e)'
    BY <1>1 DEF ValueFails
  <2>5. Tails(n, c)'
    BY <1>1 DEF ValueFails
  <2>6. Hands(n, c, e)'
    BY <1>1 DEF ValueFails
  <2>7. (trusted => Shown(n, c))'
    BY <1>1 DEF ValueFails
  <2>8. Worded(n, c)'
    BY <1>1 DEF ValueFails
  <2> HIDE DEF Linked, Blocks, Counts, Heads, Tails, Hands, Worded, Shown
  <2> QED BY <2>1, <2>2, <2>3, <2>4, <2>5, <2>6, <2>7, <2>8
<1>2. CASE Push
  <2>1. Linked(n, c, e)'
    BY <1>2 DEF Push
  <2>2. Blocks(n, c)'
    BY <1>2 DEF Push
  <2>3. Counts(n)'
    BY <1>2 DEF Push
  <2>4. Heads(n, c, e)'
    BY <1>2 DEF Push
  <2>5. Tails(n, c)'
    BY <1>2 DEF Push
  <2>6. Hands(n, c, e)'
    BY <1>2 DEF Push
  <2>7. (trusted => Shown(n, c))'
    BY <1>2 DEF Push
  <2>8. Worded(n, c)'
    BY <1>2 DEF Push
  <2> HIDE DEF Linked, Blocks, Counts, Heads, Tails, Hands, Worded, Shown
  <2> QED BY <2>1, <2>2, <2>3, <2>4, <2>5, <2>6, <2>7, <2>8
<1>3. CASE First
  <2>1. Linked(n, c, e)'
    BY <1>3 DEF First
  <2>2. Blocks(n, c)'
    BY <1>3 DEF First
  <2>3. Counts(n)'
    BY <1>3 DEF First
  <2>4. Heads(n, c, e)'
    BY <1>3 DEF First
  <2>5. Tails(n, c)'
    BY <1>3 DEF First
  <2>6. Hands(n, c, e)'
    BY <1>3 DEF First
  <2>7. (trusted => Shown(n, c))'
    BY <1>3 DEF First
  <2>8. Worded(n, c)'
    BY <1>3 DEF First
  <2> HIDE DEF Linked, Blocks, Counts, Heads, Tails, Hands, Worded, Shown
  <2> QED BY <2>1, <2>2, <2>3, <2>4, <2>5, <2>6, <2>7, <2>8
<1>4. CASE SetTail
  <2>1. Linked(n, c, e)'
    BY <1>4 DEF SetTail
  <2>2. Blocks(n, c)'
    BY <1>4 DEF SetTail
  <2>3. Counts(n)'
    BY <1>4 DEF SetTail
  <2>4. Heads(n, c, e)'
    BY <1>4 DEF SetTail
  <2>5. Tails(n, c)'
    BY <1>4 DEF SetTail
  <2>6. Hands(n, c, e)'
    BY <1>4 DEF SetTail
  <2>7. (trusted => Shown(n, c))'
    BY <1>4 DEF SetTail
  <2>8. Worded(n, c)'
    BY <1>4 DEF SetTail
  <2> HIDE DEF Linked, Blocks, Counts, Heads, Tails, Hands, Worded, Shown
  <2> QED BY <2>1, <2>2, <2>3, <2>4, <2>5, <2>6, <2>7, <2>8
<1>5. CASE Only
  <2>1. Linked(n, c, e)'
    BY <1>5 DEF Only
  <2>2. Blocks(n, c)'
    BY <1>5 DEF Only
  <2>3. Counts(n)'
    BY <1>5 DEF Only
  <2>4. Heads(n, c, e)'
    BY <1>5 DEF Only
  <2>5. Tails(n, c)'
    BY <1>5 DEF Only
  <2>6. Hands(n, c, e)'
    BY <1>5 DEF Only
  <2>7. (trusted => Shown(n, c))'
    BY <1>5 DEF Only
  <2>8. Worded(n, c)'
    BY <1>5 DEF Only
  <2> HIDE DEF Linked, Blocks, Counts, Heads, Tails, Hands, Worded, Shown
  <2> QED BY <2>1, <2>2, <2>3, <2>4, <2>5, <2>6, <2>7, <2>8
<1>6. CASE Grow
  <2>1. Linked(n, c, e)'
    BY <1>6 DEF Grow
  <2>2. Blocks(n, c)'
    BY <1>6 DEF Grow
  <2>3. Counts(n)'
    BY <1>6 DEF Grow
  <2>4. Heads(n, c, e)'
    BY <1>6 DEF Grow
  <2>5. Tails(n, c)'
    BY <1>6 DEF Grow
  <2>6. Hands(n, c, e)'
    BY <1>6 DEF Grow
  <2>7. (trusted => Shown(n, c))'
    BY <1>6 DEF Grow
  <2>8. Worded(n, c)'
    BY <1>6 DEF Grow
  <2> HIDE DEF Linked, Blocks, Counts, Heads, Tails, Hands, Worded, Shown
  <2> QED BY <2>1, <2>2, <2>3, <2>4, <2>5, <2>6, <2>7, <2>8
<1>7. CASE Count
  <2>1. Linked(n, c, e)'
    BY <1>7 DEF Count
  <2>2. Blocks(n, c)'
    BY <1>7 DEF Count
  <2>3. Counts(n)'
    BY <1>7 DEF Count
  <2>4. Heads(n, c, e)'
    BY <1>7 DEF Count
  <2>5. Tails(n, c)'
    BY <1>7 DEF Count
  <2>6. Hands(n, c, e)'
    BY <1>7 DEF Count
  <2>7. (trusted => Shown(n, c))'
    BY <1>7 DEF Count
  <2>8. Worded(n, c)'
    BY <1>7 DEF Count
  <2> HIDE DEF Linked, Blocks, Counts, Heads, Tails, Hands, Worded, Shown
  <2> QED BY <2>1, <2>2, <2>3, <2>4, <2>5, <2>6, <2>7, <2>8
<1>8. CASE FreeValue
  <2>1. Linked(n, c, e)'
    BY <1>8 DEF FreeValue
  <2>2. Blocks(n, c)'
    BY <1>8 DEF FreeValue
  <2>3. Counts(n)'
    BY <1>8 DEF FreeValue
  <2>4. Heads(n, c, e)'
    BY <1>8 DEF FreeValue
  <2>5. Tails(n, c)'
    BY <1>8 DEF FreeValue
  <2>6. Hands(n, c, e)'
    BY <1>8 DEF FreeValue
  <2>7. (trusted => Shown(n, c))'
    BY <1>8 DEF FreeValue
  <2>8. Worded(n, c)'
    BY <1>8 DEF FreeValue
  <2> HIDE DEF Linked, Blocks, Counts, Heads, Tails, Hands, Worded, Shown
  <2> QED BY <2>1, <2>2, <2>3, <2>4, <2>5, <2>6, <2>7, <2>8
<1>9. CASE FreeCell
  <2>1. Linked(n, c, e)'
    BY <1>9 DEF FreeCell
  <2>2. Blocks(n, c)'
    BY <1>9 DEF FreeCell
  <2>3. Counts(n)'
    BY <1>9 DEF FreeCell
  <2>4. Heads(n, c, e)'
    BY <1>9 DEF FreeCell
  <2>5. Tails(n, c)'
    BY <1>9 DEF FreeCell
  <2>6. Hands(n, c, e)'
    BY <1>9 DEF FreeCell
  <2>7. (trusted => Shown(n, c))'
    BY <1>9 DEF FreeCell
  <2>8. Worded(n, c)'
    BY <1>9 DEF FreeCell
  <2> HIDE DEF Linked, Blocks, Counts, Heads, Tails, Hands, Worded, Shown
  <2> QED BY <2>1, <2>2, <2>3, <2>4, <2>5, <2>6, <2>7, <2>8
<1>10. CASE Shrink
  <2>1. Linked(n, c, e)'
    BY <1>10 DEF Shrink
  <2>2. Blocks(n, c)'
    BY <1>10 DEF Shrink
  <2>3. Counts(n)'
    BY <1>10 DEF Shrink
  <2>4. Heads(n, c, e)'
    BY <1>10 DEF Shrink
  <2>5. Tails(n, c)'
    BY <1>10 DEF Shrink
  <2>6. Hands(n, c, e)'
    BY <1>10 DEF Shrink
  <2>7. (trusted => Shown(n, c))'
    BY <1>10 DEF Shrink
  <2>8. Worded(n, c)'
    BY <1>10 DEF Shrink
  <2> HIDE DEF Linked, Blocks, Counts, Heads, Tails, Hands, Worded, Shown
  <2> QED BY <2>1, <2>2, <2>3, <2>4, <2>5, <2>6, <2>7, <2>8
<1>11. CASE Uncount
  <2>1. Linked(n, c, e)'
    BY <1>11 DEF Uncount
  <2>2. Blocks(n, c)'
    BY <1>11 DEF Uncount
  <2>3. Counts(n)'
    BY <1>11 DEF Uncount
  <2>4. Heads(n, c, e)'
    BY <1>11 DEF Uncount
  <2>5. Tails(n, c)'
    BY <1>11 DEF Uncount
  <2>6. Hands(n, c, e)'
    BY <1>11 DEF Uncount
  <2>7. (trusted => Shown(n, c))'
    BY <1>11 DEF Uncount
  <2>8. Worded(n, c)'
    BY <1>11 DEF Uncount
  <2> HIDE DEF Linked, Blocks, Counts, Heads, Tails, Hands, Worded, Shown
  <2> QED BY <2>1, <2>2, <2>3, <2>4, <2>5, <2>6, <2>7, <2>8
<1>12. CASE StartReverse
  <2>1. Linked(n, c, e)'
    BY <1>12 DEF StartReverse
  <2>2. Blocks(n, c)'
    BY <1>12 DEF StartReverse
  <2>3. Counts(n)'
    BY <1>12 DEF StartReverse
  <2>4. Heads(n, c, e)'
    BY <1>12 DEF StartReverse
  <2>5. Tails(n, c)'
    BY <1>12 DEF StartReverse
  <2>6. Hands(n, c, e)'
    BY <1>12 DEF StartReverse
  <2>8. Worded(n, c)'
    BY <1>12 DEF StartReverse
  <2>7. (trusted => Shown(n, c))'
    <3>1. trusted => before' = Vals(heap, n, c)
      <4> HIDE DEF Sound, Vals
      <4> QED BY <1>12, SoundContents DEF StartReverse
    <3>2. heap' = heap /\ pc' = "turn" /\ (trusted' => trusted)
      BY <1>12 DEF StartReverse
    <3> QED BY ONLY <3>1, <3>2 DEF Shown, Vals
  <2> HIDE DEF Linked, Blocks, Counts, Heads, Tails, Hands, Worded, Shown
  <2> QED BY <2>1, <2>2, <2>3, <2>4, <2>5, <2>6, <2>7, <2>8
<1>13. CASE Retail
  <2>1. Linked(n, c, e)'
    BY <1>13 DEF Retail
  <2>2. Blocks(n, c)'
    BY <1>13 DEF Retail
  <2>3. Counts(n)'
    BY <1>13 DEF Retail
  <2>4. Heads(n, c, e)'
    BY <1>13 DEF Retail
  <2>5. Tails(n, c)'
    BY <1>13 DEF Retail
  <2>6. Hands(n, c, e)'
    BY <1>13 DEF Retail
  <2>7. (trusted => Shown(n, c))'
    BY <1>13 DEF Retail
  <2>8. Worded(n, c)'
    BY <1>13 DEF Retail
  <2> HIDE DEF Linked, Blocks, Counts, Heads, Tails, Hands, Worded, Shown
  <2> QED BY <2>1, <2>2, <2>3, <2>4, <2>5, <2>6, <2>7, <2>8
<1>14. CASE Rehead
  <2>1. Linked(n, c, e)'
    BY <1>14 DEF Rehead
  <2>2. Blocks(n, c)'
    BY <1>14 DEF Rehead
  <2>3. Counts(n)'
    BY <1>14 DEF Rehead
  <2>4. Heads(n, c, e)'
    BY <1>14 DEF Rehead
  <2>5. Tails(n, c)'
    BY <1>14 DEF Rehead
  <2>6. Hands(n, c, e)'
    BY <1>14 DEF Rehead
  <2>7. (trusted => Shown(n, c))'
    BY <1>14 DEF Rehead
  <2>8. Worded(n, c)'
    BY <1>14 DEF Rehead
  <2> HIDE DEF Linked, Blocks, Counts, Heads, Tails, Hands, Worded, Shown
  <2> QED BY <2>1, <2>2, <2>3, <2>4, <2>5, <2>6, <2>7, <2>8
<1>15. CASE StartFree
  <2>1. Linked(n, c, e)'
    BY <1>15 DEF StartFree
  <2>2. Blocks(n, c)'
    BY <1>15 DEF StartFree
  <2>3. Counts(n)'
    BY <1>15 DEF StartFree
  <2>4. Heads(n, c, e)'
    BY <1>15 DEF StartFree
  <2>5. Tails(n, c)'
    BY <1>15 DEF StartFree
  <2>6. Hands(n, c, e)'
    BY <1>15 DEF StartFree
  <2>7. (trusted => Shown(n, c))'
    BY <1>15 DEF StartFree
  <2>8. Worded(n, c)'
    BY <1>15 DEF StartFree
  <2> HIDE DEF Linked, Blocks, Counts, Heads, Tails, Hands, Worded, Shown
  <2> QED BY <2>1, <2>2, <2>3, <2>4, <2>5, <2>6, <2>7, <2>8
<1>16. CASE Release
  <2>1. Linked(n, c, e)'
    BY <1>16, SMTT(40) DEF Release
  <2>2. Blocks(n, c)'
    BY <1>16 DEF Release
  <2>3. Counts(n)'
    BY <1>16 DEF Release
  <2>4. Heads(n, c, e)'
    BY <1>16 DEF Release
  <2>5. Tails(n, c)'
    BY <1>16 DEF Release
  <2>6. Hands(n, c, e)'
    BY <1>16 DEF Release
  <2>7. (trusted => Shown(n, c))'
    BY <1>16 DEF Release
  <2>8. Worded(n, c)'
    BY <1>16 DEF Release
  <2> HIDE DEF Linked, Blocks, Counts, Heads, Tails, Hands, Worded, Shown
  <2> QED BY <2>1, <2>2, <2>3, <2>4, <2>5, <2>6, <2>7, <2>8
<1>17. ASSUME NEW op \in {"ih", "it"}, NEW value \in Values, StartInsert(op, value)
       PROVE  Sound(n, c, e)'
  <2>1. Linked(n, c, e)'
    BY <1>17 DEF StartInsert
  <2>2. Blocks(n, c)'
    BY <1>17 DEF StartInsert
  <2>3. Counts(n)'
    BY <1>17 DEF StartInsert
  <2>4. Heads(n, c, e)'
    BY <1>17 DEF StartInsert
  <2>5. Tails(n, c)'
    BY <1>17 DEF StartInsert
  <2>6. Hands(n, c, e)'
    <3>1. trusted' => trusted /\ (op = "it" => q.size # 0)
      BY ONLY <1>17, Zenon DEF StartInsert
    <3>2. cmd'.op = op /\ pc' = "value" /\ pc = "idle"
      BY <1>17 DEF StartInsert
    <3> QED BY <3>1, <3>2
  <2>8. Worded(n, c)'
    BY <1>17 DEF StartInsert
  <2>7. (trusted => Shown(n, c))'
    <3>1. trusted => before' = Vals(heap, n, c)
      <4> HIDE DEF Sound, Vals
      <4> QED BY <1>17, SoundContents DEF StartInsert
    <3>2. (trusted' => trusted) /\ pc' = "value" /\ heap' = heap
      BY <1>17 DEF StartInsert
    <3> QED BY <3>1, <3>2
  <2> HIDE DEF Linked, Blocks, Counts, Heads, Tails, Hands, Worded, Shown
  <2> QED BY <2>1, <2>2, <2>3, <2>4, <2>5, <2>6, <2>7, <2>8
<1> HIDE DEF Sound
<1> QED BY <1>1, <1>2, <1>3, <1>4, <1>5, <1>6, <1>7, <1>8, <1>9, <1>10, <1>11, <1>12, <1>13, <1>14,
           <1>15, <1>16, <1>17

(* An element in front of the others, and the others without the first.    *)
LEMMA InFront ==
  ASSUME NEW n \in Nat, NEW c \in [1..n -> Cells], NEW x \in Cells \ Members(n, c), Different(n, c),
         NEW d, d = [i \in 1..(n + 1) |-> IF i = 1 THEN x ELSE c[i - 1]]
  PROVE  /\ d \in [1..(n + 1) -> Cells]
         /\ d[1] = x /\ \A i \in 2..(n + 1) : d[i] = c[i - 1] /\ i - 1 \in 1..n
         /\ \A i \in 1..n : i + 1 \in 2..(n + 1) /\ d[i + 1] = c[i]
         /\ Different(n + 1, d)
         /\ Members(n + 1, d) = Members(n, c) \cup {x}
<1>1. /\ d \in [1..(n + 1) -> Cells]
      /\ d[1] = x /\ \A i \in 2..(n + 1) : d[i] = c[i - 1] /\ i - 1 \in 1..n
      /\ \A i \in 1..n : i + 1 \in 2..(n + 1) /\ d[i + 1] = c[i]
  OBVIOUS
<1>2. Different(n + 1, d)
  <2>1. ASSUME NEW i \in 1..(n + 1), NEW k \in 1..(n + 1), d[i] = d[k] PROVE i = k
    <3>1. CASE i = 1 \/ k = 1
      BY <1>1, <2>1, <3>1 DEF Members
    <3>2. CASE i # 1 /\ k # 1
      <4>1. i - 1 \in 1..n /\ k - 1 \in 1..n /\ c[i - 1] = c[k - 1]
        BY <1>1, <2>1, <3>2
      <4> QED BY <4>1 DEF Different
    <3> QED BY <3>1, <3>2
  <2> QED BY <2>1 DEF Different
<1>3. Members(n + 1, d) = Members(n, c) \cup {x}
  <2>1. \A i \in 1..(n + 1) : d[i] \in Members(n, c) \cup {x}
    BY <1>1 DEF Members
  <2>2. x \in Members(n + 1, d) /\ \A i \in 1..n : c[i] \in Members(n + 1, d)
    <3>1. d[1] = x /\ 1 \in 1..(n + 1)
      BY <1>1
    <3>2. \A i \in 1..n : i + 1 \in 1..(n + 1) /\ d[i + 1] = c[i]
      BY <1>1
    <3> QED BY ONLY <3>1, <3>2 DEF Members
  <2> QED BY <2>1, <2>2 DEF Members
<1> QED BY <1>1, <1>2, <1>3

LEMMA WithoutFirst ==
  ASSUME NEW n \in Nat, n > 0, NEW c \in [1..n -> Cells], Different(n, c),
         NEW d, d = [i \in 1..(n - 1) |-> c[i + 1]]
  PROVE  /\ n - 1 \in Nat /\ d \in [1..(n - 1) -> Cells]
         /\ \A i \in 1..(n - 1) : d[i] = c[i + 1] /\ i + 1 \in 1..n
         /\ \A i \in 2..n : i - 1 \in 1..(n - 1) /\ c[i] = d[i - 1]
         /\ Different(n - 1, d)
         /\ c[1] \in Cells /\ c[1] \notin Members(n - 1, d)
         /\ Members(n, c) = Members(n - 1, d) \cup {c[1]}
<1>1. /\ n - 1 \in Nat /\ d \in [1..(n - 1) -> Cells]
      /\ \A i \in 1..(n - 1) : d[i] = c[i + 1] /\ i + 1 \in 1..n
      /\ \A i \in 2..n : i - 1 \in 1..(n - 1) /\ c[i] = d[i - 1]
      /\ c[1] \in Cells
  OBVIOUS
<1>2. Different(n - 1, d)
  BY <1>1 DEF Different
<1>3. c[1] \notin Members(n - 1, d)
  <2>1. ASSUME NEW i \in 1..(n - 1), d[i] = c[1] PROVE FALSE
    <3>1. i + 1 \in 1..n /\ 1 \in 1..n /\ c[i + 1] = c[1] /\ i + 1 # 1
      BY <1>1, <2>1
    <3> QED BY <3>1 DEF Different
  <2> QED BY <2>1 DEF Members
<1>4. Members(n, c) = Members(n - 1, d) \cup {c[1]}
  <2>1. ASSUME NEW i \in 1..n PROVE c[i] \in Members(n - 1, d) \cup {c[1]}
    <3>1. CASE i = 1
      BY <3>1
    <3>2. CASE i # 1
      <4>1. i \in 2..n
        BY <3>2
      <4> QED BY <1>1, <4>1 DEF Members
    <3> QED BY <3>1, <3>2
  <2>2. c[1] \in Members(n, c) /\ \A i \in 1..(n - 1) : d[i] \in Members(n, c)
    BY <1>1 DEF Members
  <2> QED BY <2>1, <2>2 DEF Members
<1> QED BY <1>1, <1>2, <1>3, <1>4

(* An element behind the others.                                           *)
LEMMA Behind ==
  ASSUME NEW n \in Nat, NEW c \in [1..n -> Cells], NEW x \in Cells \ Members(n, c), Different(n, c),
         NEW d, d = [i \in 1..(n + 1) |-> IF i = n + 1 THEN x ELSE c[i]]
  PROVE  /\ d \in [1..(n + 1) -> Cells]
         /\ d[n + 1] = x /\ \A i \in 1..n : d[i] = c[i]
         /\ Different(n + 1, d)
         /\ Members(n + 1, d) = Members(n, c) \cup {x}
<1>1. /\ d \in [1..(n + 1) -> Cells]
      /\ d[n + 1] = x /\ \A i \in 1..n : d[i] = c[i]
  OBVIOUS
<1>2. Different(n + 1, d)
  BY <1>1 DEF Members, Different
<1>3. Members(n + 1, d) = Members(n, c) \cup {x}
  <2>1. \A i \in 1..(n + 1) : d[i] \in Members(n, c) \cup {x}
    BY <1>1 DEF Members
  <2>2. x \in Members(n + 1, d) /\ \A i \in 1..n : c[i] \in Members(n + 1, d)
    BY <1>1 DEF Members
  <2> QED BY <2>1, <2>2 DEF Members
<1> QED BY <1>1, <1>2, <1>3

(* The other way round.                                                    *)
LEMMA Backwards ==
  ASSUME NEW n \in Nat, NEW c \in [1..n -> Cells], Different(n, c),
         NEW d, d = [i \in 1..n |-> c[n + 1 - i]]
  PROVE  /\ d \in [1..n -> Cells]
         /\ \A i \in 1..n : n + 1 - i \in 1..n /\ d[i] = c[n + 1 - i] /\ c[i] = d[n + 1 - i]
         /\ Different(n, d)
         /\ Members(n, d) = Members(n, c)
<1>1. /\ d \in [1..n -> Cells]
      /\ \A i \in 1..n : n + 1 - i \in 1..n /\ d[i] = c[n + 1 - i] /\ c[i] = d[n + 1 - i]
  OBVIOUS
<1>2. Different(n, d)
  BY <1>1 DEF Different
<1>3. Members(n, d) = Members(n, c)
  <2>1. \A i \in 1..n : d[i] \in Members(n, c) /\ c[i] \in Members(n, d)
    BY <1>1 DEF Members
  <2> QED BY <2>1 DEF Members
<1> QED BY <1>1, <1>2, <1>3

(* A new element in front, or still to be linked behind the others.        *)
LEMMA ValueStep ==
  ASSUME Basics, Watched', NEW n \in Nat, NEW c \in [1..n -> Cells], NEW e \in Cells \cup {NULL},
         Sound(n, c, e), Value
  PROVE  IsSound'
<1> USE QtestAssumption
<1>1. PICK x : x = cell
  OBVIOUS
<1>2. /\ x \in Cells /\ x \in allocated /\ x \notin Members(n, c) /\ x \notin strings /\ pc = "value"
      /\ cmd.op \in {"ih", "it"} /\ cmd.value \in Values
  BY <1>1 DEF Value, Goto, Basics, TypeOK, Sound, Blocks, Holding
<1>3. /\ \A i \in 1..n : heap'[c[i]] = heap[c[i]]
      /\ heap'[x].next = IF cmd.op = "ih" THEN q.head ELSE NULL
      /\ heap'[x].value = cmd.value
  BY <1>1, <1>2 DEF Value, Basics, TypeOK, Members
<1>4. /\ strings' = strings \cup {x} /\ cell' = x
      /\ UNCHANGED <<allocated, made, q, qcnt, cmd, alarms, segv, trusted, before>>
  BY <1>1 DEF Value, locals, history
<1>5. CASE cmd.op = "ih"
  <2>1. PICK d : d = [i \in 1..(n + 1) |-> IF i = 1 THEN x ELSE c[i - 1]]
    OBVIOUS
  <2>2. Different(n, c) /\ Links(heap, n, c, e)
    BY <1>2 DEF Sound, Linked
  <2>3. /\ d \in [1..(n + 1) -> Cells]
        /\ d[1] = x /\ \A i \in 2..(n + 1) : d[i] = c[i - 1] /\ i - 1 \in 1..n
        /\ \A i \in 1..n : i + 1 \in 2..(n + 1) /\ d[i + 1] = c[i]
        /\ Different(n + 1, d)
        /\ Members(n + 1, d) = Members(n, c) \cup {x}
    BY ONLY n \in Nat, c \in [1..n -> Cells], <1>2, <2>1, <2>2, InFront, SMTT(30)
  <2>4. pc' = "push"
    BY <1>5 DEF Value, Goto
  <2>5. q.head = FirstOf(n, c, e)
    BY <1>2 DEF Sound, Heads
  <2>6. Linked(n + 1, d, e)'
    <3>1. ASSUME NEW i \in 1..(n + 1) PROVE heap'[d[i]].next = IF i = n + 1 THEN e ELSE d[i + 1]
      <4>1. CASE i = 1
        BY <1>3, <1>5, <2>3, <2>5, <4>1 DEF FirstOf
      <4>2. CASE i # 1
        <5>1. i - 1 \in 1..n /\ d[i] = c[i - 1] /\ i \in 2..(n + 1)
          BY <2>3, <4>2
        <5>2. heap'[d[i]].next = IF i - 1 = n THEN e ELSE c[i]
          BY <1>3, <2>2, <5>1 DEF Links
        <5>3. i <= n => d[i + 1] = c[i]
          BY <2>3, <5>1
        <5> QED BY <5>1, <5>2, <5>3
      <4> QED BY <4>1, <4>2
    <3>2. trusted' => e = NULL
      BY <1>4 DEF Sound, Linked
    <3> QED BY <2>3, <2>4, <3>1, <3>2 DEF Linked, Links
  <2>7. Blocks(n + 1, d)'
    BY <1>2, <1>4, <2>3, <2>4 DEF Sound, Blocks, Holding, Clean
  <2>8. Counts(n + 1)'
    BY <1>2, <1>4, <2>4 DEF Sound, Counts
  <2>9. Heads(n + 1, d, e)'
    BY <1>4, <2>3, <2>4, <2>5 DEF Heads, FirstOf
  <2>10. Tails(n + 1, d)'
    BY <1>2, <1>4, <2>3, <2>4 DEF Sound, Tails
  <2>11. Hands(n + 1, d, e)'
    BY <1>4, <2>3, <2>4 DEF Hands
  <2>12. (trusted => Shown(n + 1, d))'
    <3>1. trusted => before' = [i \in 1..n |-> heap[c[i]].value]
      BY <1>2, <1>4 DEF Sound, Shown, Vals
    <3>2. \A i \in 1..n : heap'[d[i + 1]].value = heap[c[i]].value
      BY <1>3, <2>3
    <3>3. trusted => before' = [i \in 1..(n + 1 - 1) |-> heap'[d[i + 1]].value]
      BY ONLY n \in Nat, <3>1, <3>2
    <3> QED BY <1>3, <1>4, <2>3, <2>4, <3>3 DEF Shown
  <2>13. Worded(n + 1, d)'
    <3>1. ASSUME NEW i \in 1..(n + 1) PROVE heap'[d[i]].value \in Values
      <4>1. CASE i = 1
        BY <1>2, <1>3, <2>3, <4>1
      <4>2. CASE i # 1
        <5>1. i \in 2..(n + 1)
          BY <4>2
        <5> QED BY <1>2, <1>3, <2>3, <5>1 DEF Sound, Worded
      <4> QED BY <4>1, <4>2
    <3> QED BY <2>4, <3>1 DEF Worded
  <2>14. Sound(n + 1, d, e)'
    BY <2>6, <2>7, <2>8, <2>9, <2>10, <2>11, <2>12, <2>13 DEF Sound
  <2> QED BY <2>3, <2>14 DEF IsSound
<1>6. CASE cmd.op = "it"
  <2>1. pc' = "append"
    BY <1>6 DEF Value, Goto
  <2>2. Linked(n, c, e)'
    BY <1>2, <1>3, <1>4, <2>1 DEF Sound, Linked, Links
  <2>3. Blocks(n, c)'
    BY <1>1, <1>2, <1>4, <2>1 DEF Sound, Blocks, Holding, Clean
  <2>4. Counts(n)'
    BY <1>2, <1>4, <2>1 DEF Sound, Counts
  <2>5. Heads(n, c, e)'
    BY <1>2, <1>4, <2>1 DEF Sound, Heads
  <2>6. Tails(n, c)'
    BY <1>2, <1>4, <2>1 DEF Sound, Tails
  <2>7. Hands(n, c, e)'
    BY <1>2, <1>3, <1>4, <1>6, <2>1 DEF Sound, Hands
  <2>8. (trusted => Shown(n, c))'
    BY <1>2, <1>3, <1>4, <2>1 DEF Sound, Shown, Vals
  <2>9. Worded(n, c)'
    BY <1>1, <1>2, <1>3, <1>4, <2>1 DEF Sound, Worded
  <2>10. Sound(n, c, e)'
    BY <2>2, <2>3, <2>4, <2>5, <2>6, <2>7, <2>8, <2>9 DEF Sound
  <2> QED BY <2>10 DEF IsSound
<1> QED BY <1>2, <1>5, <1>6

(* The last element is linked to the new one; a stale tail may already be  *)
(* the new one.                                                            *)
LEMMA LinkTailStep ==
  ASSUME Basics, Watched', NEW n \in Nat, NEW c \in [1..n -> Cells], NEW e \in Cells \cup {NULL},
         Sound(n, c, e), LinkTail
  PROVE  IsSound'
<1> USE QtestAssumption
<1>1. PICK x : x = cell
  OBVIOUS
<1>2. /\ x \in Cells /\ x \in allocated /\ x \notin Members(n, c) /\ pc = "append" /\ cmd.op = "it"
      /\ heap \in [Cells -> Element] /\ allocated \in SUBSET Cells
  BY <1>1 DEF LinkTail, Basics, TypeOK, Sound, Blocks, Holding, Element
<1>3. /\ q.tail \in allocated
      /\ pc' = "tail"
      /\ heap' = [heap EXCEPT ![q.tail].next = x]
      /\ UNCHANGED <<allocated, strings, made, q, qcnt, cmd, cell, alarms, segv, trusted, before>>
  BY <1>1 DEF LinkTail, Segfault, Corrupt, Cut, Watched, Clean, locals, history
<1>4. \A z \in Cells : /\ heap'[z].next = IF z = q.tail THEN x ELSE heap[z].next
                       /\ heap'[z].value = heap[z].value
  BY <1>2, <1>3, SetNext
<1>5. Different(n, c) /\ Links(heap, n, c, e)
  BY <1>2 DEF Sound, Linked
<1>6. PICK d : d = [i \in 1..(n + 1) |-> IF i = n + 1 THEN x ELSE c[i]]
  OBVIOUS
<1>7. /\ d \in [1..(n + 1) -> Cells]
      /\ d[n + 1] = x /\ \A i \in 1..n : d[i] = c[i]
      /\ Different(n + 1, d)
      /\ Members(n + 1, d) = Members(n, c) \cup {x}
  BY <1>2, <1>5, <1>6, Behind
<1>8. cell' = x
  BY <1>1, <1>3
<1>9. ASSUME NEW f \in Cells \cup {NULL}, Linked(n + 1, d, f)', n > 0 \/ ~trusted
      PROVE  IsSound'
  <2>1. Blocks(n + 1, d)'
    BY <1>1, <1>2, <1>3, <1>7 DEF Sound, Blocks, Holding, Clean
  <2>2. Counts(n + 1)'
    BY <1>2, <1>3 DEF Sound, Counts
  <2>3. Heads(n + 1, d, f)'
    BY <1>2, <1>3, <1>7 DEF Sound, Heads, FirstOf
  <2>4. Tails(n + 1, d)'
    BY <1>3 DEF Tails
  <2>5. Hands(n + 1, d, f)'
    BY <1>3, <1>7, <1>8 DEF Hands
  <2>6. (trusted => Shown(n + 1, d))'
    <3>1. trusted => before' = [i \in 1..n |-> heap[c[i]].value]
      BY <1>2, <1>3 DEF Sound, Shown, Vals
    <3>2. \A i \in 1..n : heap'[d[i]].value = heap[c[i]].value
      BY <1>4, <1>7
    <3>3. trusted => before' = [i \in 1..(n + 1 - 1) |-> heap'[d[i]].value]
      BY ONLY n \in Nat, <3>1, <3>2
    <3>4. trusted => heap'[d[n + 1]].value = cmd'.value
      BY <1>1, <1>2, <1>3, <1>4, <1>7 DEF Sound, Shown
    <3> QED BY <1>2, <1>3, <3>3, <3>4 DEF Shown
  <2>7. Worded(n + 1, d)'
    <3>1. ASSUME NEW i \in 1..(n + 1) PROVE heap'[d[i]].value \in Values
      <4>1. CASE i = n + 1
        BY <1>1, <1>2, <1>4, <1>7, <4>1 DEF Sound, Worded
      <4>2. CASE i # n + 1
        <5>1. i \in 1..n
          BY <4>2
        <5> QED BY <1>2, <1>4, <1>7, <5>1 DEF Sound, Worded
      <4> QED BY <4>1, <4>2
    <3> QED BY <1>3, <3>1 DEF Worded
  <2>8. Sound(n + 1, d, f)'
    BY <1>9, <2>1, <2>2, <2>3, <2>4, <2>5, <2>6, <2>7 DEF Sound
  <2> QED BY <1>7, <2>8 DEF IsSound
<1>10. CASE n > 0
  <2>1. q.tail = c[n] /\ heap[x].next = NULL
    BY <1>1, <1>2, <1>10 DEF Sound, Tails, Hands
  <2>2. ASSUME NEW i \in 1..(n + 1) PROVE heap'[d[i]].next = IF i = n + 1 THEN NULL ELSE d[i + 1]
    <3>1. CASE i = n + 1
      <4>1. x # c[n]
        BY <1>2, <1>10 DEF Members
      <4> QED BY <1>2, <1>4, <1>7, <2>1, <3>1, <4>1
    <3>2. CASE i = n
      BY <1>4, <1>7, <1>10, <2>1, <3>2
    <3>3. CASE i < n
      <4>1. c[i] # c[n] /\ i \in 1..n /\ i + 1 \in 1..n
        BY <1>5, <3>3 DEF Different
      <4>2. heap[c[i]].next = c[i + 1]
        BY <1>5, <3>3, <4>1 DEF Links
      <4> QED BY <1>4, <1>7, <2>1, <4>1, <4>2
    <3> QED BY <3>1, <3>2, <3>3
  <2>3. Linked(n + 1, d, NULL)'
    BY <1>3, <1>7, <2>2 DEF Linked, Links
  <2> QED BY <1>9, <1>10, <2>3
<1>11. CASE n = 0
  <2>1. ~trusted
    BY <1>2, <1>11 DEF Sound, Hands
  <2>2. Clean /\ allocated = {x}
    BY <1>1, <1>2, <1>3, <1>11, <2>1 DEF Sound, Blocks, Members, Holding, Watched, Clean
  <2>3. q.tail = x /\ d[1] = x
    BY <1>3, <1>7, <1>11, <2>2
  <2>4. Linked(n + 1, d, x)'
    BY <1>2, <1>3, <1>4, <1>7, <1>11, <2>1, <2>3 DEF Linked, Links
  <2> QED BY <1>2, <1>9, <2>1, <2>4
<1> QED BY <1>10, <1>11

(* The first element is taken off.                                         *)
LEMMA RemoveHeadStep ==
  ASSUME Basics, Watched', NEW n \in Nat, NEW c \in [1..n -> Cells], NEW e \in Cells \cup {NULL},
         Sound(n, c, e), RemoveHead
  PROVE  IsSound'
<1> USE QtestAssumption
<1>1. /\ pc = "idle" /\ made /\ pc' = "free_value"
      /\ q.head \in allocated /\ q.size # 0
      /\ cmd' = [op |-> "rh", value |-> heap[q.head].value]
      /\ before' = Contents
      /\ cell' = q.head
      /\ q' = [q EXCEPT !.head = heap[q.head].next]
      /\ UNCHANGED <<heap, allocated, strings, made, qcnt, alarms, segv, trusted>>
  BY DEF RemoveHead, Segfault, Corrupt, Cut, Watched, Clean, Begin, Goto, memory
<1>2. /\ n > 0 /\ q.size = n /\ qcnt = n /\ q.head = c[1] /\ q.tail = c[n]
      /\ Different(n, c) /\ Links(heap, n, c, e)
  BY <1>1 DEF Sound, Counts, Heads, Tails, FirstOf, Linked
<1>3. PICK d : d = [i \in 1..(n - 1) |-> c[i + 1]]
  OBVIOUS
<1>4. /\ n - 1 \in Nat /\ d \in [1..(n - 1) -> Cells]
      /\ \A i \in 1..(n - 1) : d[i] = c[i + 1] /\ i + 1 \in 1..n
      /\ \A i \in 2..n : i - 1 \in 1..(n - 1) /\ c[i] = d[i - 1]
      /\ Different(n - 1, d)
      /\ c[1] \in Cells /\ c[1] \notin Members(n - 1, d)
      /\ Members(n, c) = Members(n - 1, d) \cup {c[1]}
  BY <1>2, <1>3, WithoutFirst
<1>5. q'.head = FirstOf(n - 1, d, e) /\ q'.tail = q.tail /\ q'.size = q.size
  <2>1. q'.head = heap[c[1]].next /\ q'.tail = q.tail /\ q'.size = q.size
    BY <1>1, <1>2 DEF Basics, TypeOK
  <2>2. heap[c[1]].next = IF n = 1 THEN e ELSE c[2]
    BY <1>2 DEF Links
  <2>3. n # 1 => c[2] = d[1]
    BY <1>2, <1>4
  <2> QED BY <1>2, <2>1, <2>2, <2>3 DEF FirstOf
<1>6. Linked(n - 1, d, e)'
  <2>1. ASSUME NEW i \in 1..(n - 1) PROVE heap[d[i]].next = IF i = n - 1 THEN e ELSE d[i + 1]
    <3>1. heap[c[i + 1]].next = IF i + 1 = n THEN e ELSE c[i + 2]
      BY <1>2, <1>4 DEF Links
    <3>2. i # n - 1 => d[i + 1] = c[i + 2]
      BY <1>4
    <3> QED BY <1>4, <3>1, <3>2
  <2>2. trusted' => e = NULL
    BY <1>1 DEF Sound, Linked
  <2> QED BY <1>1, <1>4, <2>1, <2>2 DEF Linked, Links
<1>7. Blocks(n - 1, d)'
  BY <1>1, <1>2, <1>4 DEF Sound, Blocks, Holding, Clean
<1>8. Counts(n - 1)'
  BY <1>1, <1>2, <1>5 DEF Counts
<1>9. Heads(n - 1, d, e)'
  BY <1>1, <1>5 DEF Heads
<1>10. Tails(n - 1, d)'
  BY <1>1, <1>2, <1>4, <1>5 DEF Tails
<1>11. Hands(n - 1, d, e)'
  BY <1>1 DEF Hands
<1>12. (trusted => Shown(n - 1, d))'
  <2> SUFFICES ASSUME trusted PROVE Shown(n - 1, d)'
    BY <1>1
  <2>1. before' = [i \in 1..n |-> heap[c[i]].value]
    BY <1>1, SoundContents DEF Vals
  <2>2. cmd'.value = heap[c[1]].value
    BY <1>1, <1>2
  <2>3. \A i \in 1..n : heap[c[i]].value = IF i = 1 THEN cmd'.value ELSE heap'[d[i - 1]].value
    BY <1>1, <1>4, <2>2
  <2>4. before' = [i \in 1..(n - 1 + 1) |-> IF i = 1 THEN cmd'.value ELSE heap'[d[i - 1]].value]
    BY ONLY n \in Nat, <2>1, <2>3
  <2> QED BY <1>1, <2>4 DEF Shown
<1>13. Worded(n - 1, d)'
  <2>1. \A i \in 1..n : heap[c[i]].value \in Values
    BY <1>1 DEF Sound, Worded
  <2> QED BY <1>1, <1>2, <1>4, <2>1 DEF Worded
<1>14. Sound(n - 1, d, e)'
  BY <1>6, <1>7, <1>8, <1>9, <1>10, <1>11, <1>12, <1>13 DEF Sound
<1> QED BY <1>4, <1>14 DEF IsSound

(* One more link is turned; on a list that leads back to itself the walk   *)
(* goes on for ever.                                                       *)
LEMMA TurnStep ==
  ASSUME Basics, Watched', NEW n \in Nat, NEW c \in [1..n -> Cells], NEW e \in Cells \cup {NULL},
         Sound(n, c, e), Turn
  PROVE  Endless' \/ IsSound'
<1> USE QtestAssumption
<1>1. /\ pc = "turn" /\ cell # NULL /\ cell \in allocated
      /\ heap' = [heap EXCEPT ![cell].next = prev]
      /\ prev' = cell
      /\ cell' = heap[cell].next
      /\ UNCHANGED <<allocated, strings, made, q, qcnt, pc, cmd, alarms, segv, trusted, before>>
  BY DEF Turn, Corrupt, Watched, history
<1>2. /\ heap \in [Cells -> Element] /\ cell \in Cells /\ prev \in Cells \cup {NULL}
      /\ allocated \in SUBSET Cells
  BY <1>1 DEF Basics, TypeOK, Element
<1>3. \A z \in Cells : /\ heap'[z].next = IF z = cell THEN prev ELSE heap[z].next
                       /\ heap'[z].value = heap[z].value
  BY <1>1, <1>2, SetNext
<1>4. Different(n, c) /\ n > 1 /\ (trusted => e = NULL)
  BY <1>1 DEF Sound, Linked
<1>5. PICK k \in 1..n : HalfTurned(n, c, e, k)
  BY <1>1 DEF Sound, Linked
<1>6. /\ \A i \in 1..n :
           heap[c[i]].next = IF 1 < i /\ i <= k THEN c[i - 1] ELSE IF i = n THEN e ELSE c[i + 1]
      /\ prev = c[k] /\ cell = IF k = n THEN e ELSE c[k + 1]
  BY <1>5 DEF HalfTurned
<1>7. CASE k < n
  <2>1. cell = c[k + 1] /\ k + 1 \in 1..n
    BY <1>6, <1>7
  <2>2. cell' = IF k + 1 = n THEN e ELSE c[k + 2]
    <3>1. heap[c[k + 1]].next = IF k + 1 = n THEN e ELSE c[k + 1 + 1]
      BY <1>6, <2>1
    <3> QED BY <1>1, <2>1, <3>1
  <2>3. ASSUME NEW i \in 1..n
        PROVE  heap'[c[i]].next = IF 1 < i /\ i <= k + 1 THEN c[i - 1] ELSE IF i = n THEN e ELSE c[i + 1]
    <3>1. CASE i = k + 1
      BY <1>3, <1>6, <2>1, <3>1
    <3>2. CASE i # k + 1
      <4>1. c[i] # cell
        BY <1>4, <2>1, <3>2 DEF Different
      <4>2. heap'[c[i]].next = heap[c[i]].next
        BY <1>3, <4>1
      <4> QED BY <1>6, <3>2, <4>2
    <3> QED BY <3>1, <3>2
  <2>4. HalfTurned(n, c, e, k + 1)'
    BY <1>1, <2>1, <2>2, <2>3 DEF HalfTurned
  <2>5. Linked(n, c, e)'
    BY <1>1, <1>4, <2>1, <2>4 DEF Linked
  <2>6. Blocks(n, c)'
    BY <1>1 DEF Sound, Blocks, Holding, Clean
  <2>7. Counts(n)' /\ Heads(n, c, e)' /\ Tails(n, c)'
    BY <1>1 DEF Sound, Counts, Heads, Tails
  <2>8. Hands(n, c, e)'
    BY <1>1 DEF Hands
  <2>9. (trusted => Shown(n, c))'
    BY <1>1, <1>3 DEF Sound, Shown, Vals
  <2>10. Worded(n, c)'
    BY <1>1, <1>3 DEF Sound, Worded
  <2>11. Sound(n, c, e)'
    BY <2>5, <2>6, <2>7, <2>8, <2>9, <2>10 DEF Sound
  <2> QED BY <2>11 DEF IsSound
<1>8. CASE k = n
  <2>1. cell = e /\ ~trusted /\ Clean
    BY <1>1, <1>4, <1>6, <1>8 DEF Watched, Clean
  <2>2. allocated = Members(n, c)
    BY <1>1, <2>1 DEF Sound, Blocks, Holding
  <2>3. \A z \in allocated : heap[z].next # NULL
    <3>1. ASSUME NEW i \in 1..n PROVE heap[c[i]].next # NULL
      <4>1. CASE 1 < i
        <5>1. heap[c[i]].next = c[i - 1] /\ i - 1 \in 1..n
          BY <1>6, <1>8, <4>1
        <5> QED BY <5>1
      <4>2. CASE i = 1
        <5>1. heap[c[1]].next = c[2] /\ 2 \in 1..n
          BY <1>4, <1>6, <4>2
        <5> QED BY <4>2, <5>1
      <4> QED BY <4>1, <4>2
    <3> QED BY <2>2, <3>1 DEF Members
  <2>4. prev # NULL
    BY <1>6
  <2>5. \A z \in allocated : heap'[z].next # NULL
    BY <1>2, <1>3, <2>3, <2>4
  <2>6. Endless'
    BY <1>1, <2>1, <2>3, <2>5 DEF Endless
  <2> QED BY <2>6
<1> QED BY <1>7, <1>8

LEMMA EndlessTurn ==
  ASSUME Basics, Watched', Endless, Turn
  PROVE  Endless'
<1> USE QtestAssumption
<1>1. /\ pc = "turn" /\ cell # NULL /\ cell \in allocated
      /\ heap' = [heap EXCEPT ![cell].next = prev]
      /\ prev' = cell
      /\ cell' = heap[cell].next
      /\ UNCHANGED <<allocated, pc, trusted>>
  BY DEF Turn, Corrupt, Watched, history
<1>2. /\ heap \in [Cells -> Element] /\ cell \in Cells /\ prev \in Cells \cup {NULL}
      /\ allocated \in SUBSET Cells
  BY <1>1 DEF Basics, TypeOK, Element
<1>3. \A z \in Cells : heap'[z].next = IF z = cell THEN prev ELSE heap[z].next
  BY <1>1, <1>2, SetNext
<1> QED BY <1>1, <1>2, <1>3 DEF Endless

(* All the links are turned: the list is there, the other way round.       *)
LEMMA TurnedAllStep ==
  ASSUME Basics, NEW n \in Nat, NEW c \in [1..n -> Cells], NEW e \in Cells \cup {NULL},
         Sound(n, c, e), TurnedAll
  PROVE  IsSound'
<1> USE QtestAssumption
<1>1. /\ pc = "turn" /\ cell = NULL /\ pc' = "retail"
      /\ heap' = [heap EXCEPT ![q.head].next = NULL]
      /\ UNCHANGED <<allocated, strings, made, q, qcnt, cmd, cell, prev, alarms, segv, trusted, before>>
  BY DEF TurnedAll, Goto, locals, history
<1>2. Different(n, c) /\ n > 1 /\ q.head = c[1] /\ q.tail = c[n] /\ q.size = n /\ qcnt = n
  BY <1>1 DEF Sound, Linked, Heads, Tails, Counts
<1>3. PICK k \in 1..n : HalfTurned(n, c, e, k)
  BY <1>1 DEF Sound, Linked
<1>4. k = n /\ e = NULL
  BY <1>1, <1>3 DEF HalfTurned
<1>5. /\ \A i \in 2..n : heap[c[i]].next = c[i - 1]
      /\ prev = c[n]
  BY <1>2, <1>3, <1>4 DEF HalfTurned
<1>6. \A z \in Cells : /\ heap'[z].next = IF z = c[1] THEN NULL ELSE heap[z].next
                       /\ heap'[z].value = heap[z].value
  <2>1. heap \in [Cells -> Element] /\ c[1] \in Cells
    BY <1>2 DEF Basics, TypeOK, Element
  <2> QED BY <1>1, <1>2, <2>1, SetNext
<1>7. PICK d : d = [i \in 1..n |-> c[n + 1 - i]]
  OBVIOUS
<1>8. /\ d \in [1..n -> Cells]
      /\ \A i \in 1..n : n + 1 - i \in 1..n /\ d[i] = c[n + 1 - i] /\ c[i] = d[n + 1 - i]
      /\ Different(n, d)
      /\ Members(n, d) = Members(n, c)
  BY <1>2, <1>7, Backwards
<1>9. d[1] = c[n] /\ d[n] = c[1]
  BY <1>2, <1>8
<1>10. Linked(n, d, NULL)'
  <2>1. ASSUME NEW i \in 1..n PROVE heap'[d[i]].next = IF i = n THEN NULL ELSE d[i + 1]
    <3>1. CASE i = n
      BY <1>2, <1>6, <1>9, <3>1
    <3>2. CASE i # n
      <4>1. d[i] = c[n + 1 - i] /\ n + 1 - i \in 2..n /\ 1 \in 1..n
        BY <1>8, <3>2
      <4>2. d[i] # c[1]
        BY <1>2, <4>1 DEF Different
      <4>3. heap[c[n + 1 - i]].next = c[(n + 1 - i) - 1]
        BY <1>5, <4>1
      <4>4. i + 1 \in 1..n /\ d[i + 1] = c[n + 1 - (i + 1)]
        BY <1>8, <3>2
      <4>5. (n + 1 - i) - 1 = n + 1 - (i + 1)
        OBVIOUS
      <4> QED BY <1>6, <1>8, <3>2, <4>1, <4>2, <4>3, <4>4, <4>5
    <3> QED BY <3>1, <3>2
  <2> QED BY <1>1, <1>8, <2>1 DEF Linked, Links
<1>11. Blocks(n, d)'
  BY <1>1, <1>8 DEF Sound, Blocks, Holding, Clean
<1>12. Counts(n)' /\ Heads(n, d, NULL)' /\ Tails(n, d)' /\ Hands(n, d, NULL)'
  BY <1>1, <1>2, <1>5, <1>9 DEF Counts, Heads, Tails, Hands
<1>13. (trusted => Shown(n, d))'
  <2>1. trusted => before = [i \in 1..n |-> heap[c[i]].value]
    BY <1>1 DEF Sound, Shown, Vals
  <2>2. \A i \in 1..n : heap[c[i]].value = heap'[d[n + 1 - i]].value
    BY <1>6, <1>8
  <2>3. trusted => before' = [i \in 1..n |-> heap'[d[n + 1 - i]].value]
    BY ONLY <1>1, <2>1, <2>2
  <2> QED BY <1>1, <2>3 DEF Shown
<1>14. Worded(n, d)'
  <2>1. ASSUME NEW i \in 1..n PROVE heap'[d[i]].value \in Values
    <3>1. n + 1 - i \in 1..n /\ d[i] = c[n + 1 - i] /\ d[i] \in Cells
      BY <1>8
    <3>2. heap[c[n + 1 - i]].value \in Values
      BY <1>1, <3>1 DEF Sound, Worded
    <3> QED BY <1>6, <3>1, <3>2
  <2> QED BY <1>1, <2>1 DEF Worded
<1>15. Sound(n, d, NULL)'
  BY <1>10, <1>11, <1>12, <1>13, <1>14 DEF Sound
<1> QED BY <1>8, <1>15 DEF IsSound

(* The first element is freed.                                             *)
LEMMA ReleaseCellStep ==
  ASSUME Basics, NEW n \in Nat, NEW c \in [1..n -> Cells], NEW e \in Cells \cup {NULL},
         Sound(n, c, e), ReleaseCell
  PROVE  IsSound'
<1> USE QtestAssumption
<1>1. /\ pc = "release_cell" /\ pc' = "release"
      /\ allocated' = allocated \ {cell}
      /\ cell' = prev
      /\ UNCHANGED <<heap, strings, made, q, qcnt, cmd, prev, alarms, segv, trusted, before>>
  BY DEF ReleaseCell, Goto, history
<1>2. /\ n > 0 /\ cell = c[1] /\ prev = heap[cell].next
      /\ Different(n, c) /\ Links(heap, n, c, e)
  BY <1>1 DEF Sound, Counts, Hands, FirstOf, Linked
<1>3. PICK d : d = [i \in 1..(n - 1) |-> c[i + 1]]
  OBVIOUS
<1>4. /\ n - 1 \in Nat /\ d \in [1..(n - 1) -> Cells]
      /\ \A i \in 1..(n - 1) : d[i] = c[i + 1] /\ i + 1 \in 1..n
      /\ \A i \in 2..n : i - 1 \in 1..(n - 1) /\ c[i] = d[i - 1]
      /\ Different(n - 1, d)
      /\ c[1] \in Cells /\ c[1] \notin Members(n - 1, d)
      /\ Members(n, c) = Members(n - 1, d) \cup {c[1]}
  BY ONLY n \in Nat, c \in [1..n -> Cells], <1>2, <1>3, WithoutFirst, SMTT(30)
<1>5. cell' = FirstOf(n - 1, d, e)
  <2>1. heap[c[1]].next = IF n = 1 THEN e ELSE c[2]
    BY <1>2 DEF Links
  <2>2. n # 1 => c[2] = d[1]
    BY <1>2, <1>4
  <2> QED BY <1>1, <1>2, <2>1, <2>2 DEF FirstOf
<1>6. Linked(n - 1, d, e)'
  <2>1. ASSUME NEW i \in 1..(n - 1) PROVE heap[d[i]].next = IF i = n - 1 THEN e ELSE d[i + 1]
    <3>1. heap[c[i + 1]].next = IF i + 1 = n THEN e ELSE c[i + 2]
      BY <1>2, <1>4 DEF Links
    <3>2. i # n - 1 => d[i + 1] = c[i + 2]
      BY <1>4
    <3> QED BY <1>4, <3>1, <3>2
  <2>2. trusted' => e = NULL
    BY <1>1 DEF Sound, Linked
  <2> QED BY <1>1, <1>4, <2>1, <2>2 DEF Linked, Links
<1>7. Blocks(n - 1, d)'
  BY <1>1, <1>2, <1>4 DEF Sound, Blocks, Holding, Clean
<1>8. /\ Counts(n - 1)' /\ Heads(n - 1, d, e)' /\ Tails(n - 1, d)' /\ Worded(n - 1, d)'
      /\ (trusted => Shown(n - 1, d))'
  BY <1>1 DEF Counts, Heads, Tails, Worded, Shown
<1>9. Hands(n - 1, d, e)'
  BY <1>1, <1>5 DEF Hands
<1>10. Sound(n - 1, d, e)'
  BY <1>6, <1>7, <1>8, <1>9 DEF Sound
<1> QED BY <1>4, <1>10 DEF IsSound

-----------------------------------------------------------------------------
(* The invariant. *)

LEMMA QueueInit == Init => QueueInv
<1> SUFFICES ASSUME Init PROVE QueueInv
  OBVIOUS
<1>1. heap \in [Cells -> [value : Values \cup {NULL}, next : Cells \cup {NULL}]]
  BY DEF Init
<1>2. q = [head |-> NULL, tail |-> NULL, size |-> 0] /\ cmd = [op |-> "none", value |-> NULL]
  BY DEF Init, Empty, NoCmd
<1>3. made \in BOOLEAN /\ segv \in BOOLEAN /\ trusted \in BOOLEAN
  BY Zenon DEF Init
<1>4. TypeOK
  BY <1>1, <1>2, <1>3, QtestAssumption DEF Init, TypeOK, PC
<1> QED BY <1>2, <1>4 DEF Init, QueueInv, Basics, Unmade, Watched

(* An operation that is cut off leaves a queue nothing is known of.        *)
LEMMA AlarmUnwatched ==
  ASSUME Basics, Alarm
  PROVE  ~Watched'
<1>1. ~made' \/ ~trusted'
  BY DEF Alarm, Cut
<1>2. alarms' # 0
  BY DEF Alarm, Basics, TypeOK
<1> QED BY <1>1, <1>2 DEF Watched, Clean

(* Every step but q_new is taken by a queue that was there before it.      *)
LEMMA WatchedBefore ==
  ASSUME Basics, Next, Watched', ~New
  PROVE  Watched /\ (trusted' => trusted)
<1> USE DEF Basics, Watched, Clean, Goto, Return, Cut, Segfault, Corrupt, Assign, Begin, memory, locals, history
<1>1. CASE RemoveHead
  BY <1>1 DEF RemoveHead
<1>2. CASE StartReverse
  BY <1>2 DEF StartReverse
<1>3. CASE StartFree
  BY <1>3 DEF StartFree
<1>4. CASE ValueFails
  BY <1>4 DEF ValueFails
<1>5. CASE Value
  BY <1>5 DEF Value
<1>6. CASE Push
  BY <1>6 DEF Push
<1>7. CASE First
  BY <1>7 DEF First
<1>8. CASE LinkTail
  BY <1>8 DEF LinkTail
<1>9. CASE SetTail
  BY <1>9 DEF SetTail
<1>10. CASE Only
  BY <1>10 DEF Only
<1>11. CASE Grow
  BY <1>11 DEF Grow
<1>12. CASE Count
  BY <1>12 DEF Count
<1>13. CASE FreeValue
  BY <1>13 DEF FreeValue
<1>14. CASE FreeCell
  BY <1>14 DEF FreeCell
<1>15. CASE Shrink
  BY <1>15 DEF Shrink
<1>16. CASE Uncount
  BY <1>16 DEF Uncount
<1>17. CASE Turn
  BY <1>17 DEF Turn
<1>18. CASE TurnedAll
  BY <1>18 DEF TurnedAll
<1>19. CASE Retail
  BY <1>19 DEF Retail
<1>20. CASE Rehead
  BY <1>20 DEF Rehead
<1>21. CASE Release
  BY <1>21 DEF Release
<1>22. CASE ReleaseCell
  BY <1>22 DEF ReleaseCell
<1>23. CASE ReleasedAll
  BY <1>23 DEF ReleasedAll
<1>24. ASSUME NEW op \in {"ih", "it"}, NEW value \in Values, StartInsert(op, value)
       PROVE  Watched /\ (trusted' => trusted)
  <2>1. trusted' => trusted
    BY ONLY <1>24, Zenon DEF StartInsert
  <2>2. made /\ pc = "idle" /\ alarms' = alarms /\ segv' = segv
    BY <1>24 DEF StartInsert
  <2> QED BY <2>1, <2>2
<1>25. CASE Alarm
  <2> HIDE DEF Watched
  <2> QED BY <1>25, AlarmUnwatched
<1>26. CASE pc = "corrupt" /\ UNCHANGED vars
  BY <1>26 DEF vars
<1> HIDE DEF Watched, Basics
<1> QED BY <1>1, <1>2, <1>3, <1>4, <1>5, <1>6, <1>7, <1>8, <1>9, <1>10, <1>11, <1>12, <1>13, <1>14,
           <1>15, <1>16, <1>17, <1>18, <1>19, <1>20, <1>21, <1>22, <1>23, <1>24, <1>25, <1>26 DEF Next,
           Command, Step

LEMMA UnmadeStep ==
  ASSUME QueueInv, Next
  PROVE  Unmade'
<1> USE DEF Goto, Return, Cut, Segfault, Corrupt, Assign, Begin, memory, locals, history
<1> SUFFICES ASSUME ~made' PROVE Unmade'
  BY DEF Unmade
<1>1. CASE ~made
  <2>1. New
    <3>1. pc = "idle"
      BY <1>1 DEF QueueInv, Basics
    <3>2. ~(RemoveHead \/ StartReverse \/ StartFree)
      BY <1>1 DEF RemoveHead, StartReverse, StartFree
    <3>3. ~(\E op \in {"ih", "it"}, value \in Values : StartInsert(op, value))
      BY <1>1 DEF StartInsert
    <3>4. ~Step
      BY <3>1 DEF Step, ValueFails, Value, Push, First, LinkTail, SetTail, Only, Grow, Count,
         FreeValue, FreeCell, Shrink, Uncount, Turn, TurnedAll, Retail, Rehead, Release, ReleaseCell, ReleasedAll
    <3>5. ~Alarm
      BY <3>1 DEF Alarm
    <3> QED BY <3>1, <3>2, <3>3, <3>4, <3>5 DEF Next, Command
  <2> QED BY <2>1 DEF New
<1>2. CASE made
  <2>1. Alarm \/ ReleasedAll
    <3>1. ~(New \/ RemoveHead \/ StartReverse \/ StartFree)
      BY <1>2 DEF New, RemoveHead, StartReverse, StartFree
    <3>2. ~(\E op \in {"ih", "it"}, value \in Values : StartInsert(op, value))
      BY <1>2 DEF StartInsert
    <3>3. Step => ReleasedAll
      BY <1>2 DEF Step, ValueFails, Value, Push, First, LinkTail, SetTail, Only, Grow, Count,
         FreeValue, FreeCell, Shrink, Uncount, Turn, TurnedAll, Retail, Rehead, Release, ReleaseCell
    <3>4. ~UNCHANGED vars
      BY <1>2 DEF vars
    <3> QED BY <3>1, <3>2, <3>3, <3>4 DEF Next, Command
  <2>2. CASE Alarm
    BY <2>2 DEF Alarm, QueueInv, Basics, TypeOK, Unmade, Clean
  <2>3. CASE ReleasedAll
    <3>1. pc = "release" /\ cell = NULL /\ pc' = "idle" /\ UNCHANGED <<allocated, strings, alarms, segv>>
      BY <2>3 DEF ReleasedAll
    <3>2. ASSUME Clean PROVE allocated = {} /\ strings = {}
      <4>1. Watched /\ ~Endless
        BY <1>2, <3>1, <3>2 DEF Watched, Endless
      <4>2. PICK n \in Nat : \E c \in [1..n -> Cells], e \in Cells \cup {NULL} : Sound(n, c, e)
        BY <4>1 DEF QueueInv, IsSound
      <4>3. PICK c \in [1..n -> Cells], e \in Cells \cup {NULL} : Sound(n, c, e)
        BY <4>2
      <4>4. FirstOf(n, c, e) = NULL
        BY <3>1, <4>3 DEF Sound, Hands
      <4>5. n = 0
        BY <4>4, QtestAssumption DEF FirstOf
      <4>6. Members(n, c) = {}
        BY <4>5 DEF Members
      <4> QED BY <3>1, <3>2, <4>3, <4>6 DEF Sound, Blocks, Holding
    <3> QED BY <3>1, <3>2 DEF Unmade, Clean
  <2> QED BY <2>1, <2>2, <2>3
<1> QED BY <1>1, <1>2

LEMMA QueueNext ==
  ASSUME QueueInv, Next
  PROVE  QueueInv'
<1>1. Basics /\ Unmade /\ Basics' /\ Unmade'
  BY BasicsStep, UnmadeStep DEF QueueInv
<1> SUFFICES ASSUME Watched' PROVE Endless' \/ IsSound'
  BY <1>1 DEF QueueInv
<1>2. CASE New
  <2>1. /\ pc' = "idle" /\ trusted' = TRUE /\ qcnt' = 0
        /\ q'.head = NULL /\ q'.tail = NULL /\ q'.size = 0
        /\ UNCHANGED <<allocated, strings, alarms, segv>>
        /\ Clean => allocated = {} /\ strings = {}
    BY <1>1, <1>2 DEF New, memory, locals, Empty, Unmade
  <2>2. PICK c : c \in [1..0 -> Cells]
    <3> [i \in 1..0 |-> NULL] \in [1..0 -> Cells]
      OBVIOUS
    <3> QED OBVIOUS
  <2>3. Linked(0, c, NULL)' /\ Blocks(0, c)'
    BY <2>1 DEF Linked, Different, Links, Blocks, Members, Holding, Clean
  <2>4. Counts(0)' /\ Heads(0, c, NULL)' /\ Tails(0, c)' /\ Hands(0, c, NULL)' /\ Worded(0, c)' /\ Shown(0, c)'
    BY <2>1 DEF Counts, Heads, Tails, Hands, Worded, Shown, FirstOf
  <2>5. Sound(0, c, NULL)'
    BY <2>3, <2>4 DEF Sound
  <2> QED BY <2>2, <2>5 DEF IsSound
<1>3. CASE ~New
  <2>1. Watched
    BY <1>1, <1>3, WatchedBefore
  <2>2. CASE Endless
    <3>1. pc = "turn" /\ cell # NULL /\ ~trusted
      BY <2>2 DEF Endless
    <3>2. Turn
      <4>1. ~Command
        BY <3>1 DEF Command, New, RemoveHead, StartReverse, StartFree, StartInsert, Begin, Goto
      <4>2. Step => Turn
        BY <3>1 DEF Step, ValueFails, Value, Push, First, LinkTail, SetTail, Only, Grow, Count,
           FreeValue, FreeCell, Shrink, Uncount, TurnedAll, Retail, Rehead, Release,
           ReleaseCell, ReleasedAll, Goto, Assign
      <4>3. ~Alarm
        BY <1>1, <3>1 DEF Alarm, Cut, Watched, Clean, Basics, TypeOK
      <4> QED BY <3>1, <4>1, <4>2, <4>3 DEF Next
    <3> QED BY <1>1, <2>2, <3>2, EndlessTurn
  <2>3. CASE ~Endless
    <3>1. PICK n \in Nat : \E c \in [1..n -> Cells], e \in Cells \cup {NULL} : Sound(n, c, e)
      BY <2>1, <2>3 DEF QueueInv, IsSound
    <3>2. PICK c \in [1..n -> Cells], e \in Cells \cup {NULL} : Sound(n, c, e)
      BY <3>1
    <3>3. ~Alarm
      BY <1>1, AlarmUnwatched
    <3>4. ~ReleasedAll /\ pc # "corrupt"
      BY <2>1 DEF ReleasedAll, Watched
    <3>5. CASE Value \/ LinkTail \/ RemoveHead \/ Turn \/ TurnedAll \/ ReleaseCell
      BY <1>1, <3>2, <3>5, ValueStep, LinkTailStep, RemoveHeadStep, TurnStep, TurnedAllStep, ReleaseCellStep
    <3>6. CASE ~(Value \/ LinkTail \/ RemoveHead \/ Turn \/ TurnedAll \/ ReleaseCell)
      <4>1. \/ ValueFails \/ Push \/ First \/ SetTail \/ Only \/ Grow \/ Count
            \/ FreeValue \/ FreeCell \/ Shrink \/ Uncount
            \/ StartReverse \/ Retail \/ Rehead \/ StartFree \/ Release
            \/ \E op \in {"ih", "it"}, value \in Values : StartInsert(op, value)
        BY <1>3, <3>3, <3>4, <3>6 DEF Next, Command, Step
      <4>2. Sound(n, c, e)'
        BY <1>1, <3>2, <4>1, SameNumbering
      <4> QED BY <4>2 DEF IsSound
    <3> QED BY <3>5, <3>6
  <2> QED BY <2>2, <2>3
<1> QED BY <1>2, <1>3

(* At every step of every operation the fields of the queue, qtest's count *)
(* and the elements in the operation's hands are those of a list whose     *)
(* elements are different, all allocated and linked in order.              *)
THEOREM QueueInvariant == Spec => []QueueInv
<1>1. ASSUME QueueInv, UNCHANGED vars PROVE QueueInv'
  <2> USE <1>1 DEF vars, memory, locals, history
  <2>1. Basics' /\ Unmade' /\ (Watched' => Watched) /\ (Endless => Endless')
    <3>1. Basics'
      BY BasicsStep DEF QueueInv
    <3> QED BY <3>1 DEF QueueInv, Unmade, Watched, Clean, Endless
  <2>2. ASSUME NEW n \in Nat, NEW c \in [1..n -> Cells], NEW e \in Cells \cup {NULL}, Sound(n, c, e)
        PROVE  Sound(n, c, e)'
    <3>1. Linked(n, c, e)' /\ Blocks(n, c)'
      BY <2>2 DEF Sound, Linked, Different, Links, HalfTurned, Blocks, Members, Holding, Clean
    <3>2. Counts(n)' /\ Heads(n, c, e)' /\ Tails(n, c)' /\ Hands(n, c, e)'
      BY <2>2 DEF Sound, Counts, Heads, Tails, Hands
    <3>3. Worded(n, c)' /\ (trusted => Shown(n, c))'
      BY <2>2 DEF Sound, Worded, Shown, Vals
    <3> QED BY <3>1, <3>2, <3>3 DEF Sound
  <2> QED BY <2>1, <2>2 DEF QueueInv, IsSound
<1>2. QueueInv /\ [Next]_vars => QueueInv'
  BY <1>1, QueueNext
<1> QED BY <1>2, QueueInit, PTL DEF Spec

-----------------------------------------------------------------------------
(* What the runs check follows from it. *)

LEMMA FieldsOfSound ==
  ASSUME QueueInv
  PROVE  ListMatchesFields
<1> SUFFICES ASSUME made, pc = "idle", trusted
             PROVE  /\ Len(Chain) = q.size /\ q.size = qcnt
                    /\ q.size <= Cardinality(Cells)
                    /\ q.size > 0 => q.tail = Last(Chain)
  BY DEF ListMatchesFields, AtPrompt
<1>1. IsSound /\ Basics
  BY DEF QueueInv, Watched, Endless
<1>2. PICK n \in Nat : \E c \in [1..n -> Cells], e \in Cells \cup {NULL} : Sound(n, c, e)
  BY <1>1 DEF IsSound
<1>3. PICK c \in [1..n -> Cells], e \in Cells \cup {NULL} : Sound(n, c, e)
  BY <1>2
<1>4. Chain = [i \in 1..n |-> c[i]]
  BY <1>1, <1>3, SoundContents
<1>5. q.size = n /\ qcnt = n /\ (n > 0 => q.tail = c[n])
  BY <1>3 DEF Sound, Counts, Tails
<1>6. n <= Cardinality(Cells)
  BY <1>3, NumberedFit DEF Sound, Linked
<1>7. Len(Chain) = n /\ (n > 0 => Last(Chain) = c[n])
  BY <1>4 DEF Last
<1> QED BY <1>5, <1>6, <1>7

LEMMA BlocksOfSound ==
  ASSUME QueueInv
  PROVE  NothingLeaks
<1> SUFFICES ASSUME pc = "idle", Clean, trusted
             PROVE  /\ allocated = IF made THEN ToSet(Chain) ELSE {}
                    /\ strings = allocated
  BY DEF NothingLeaks, Clean
<1>1. CASE ~made
  BY <1>1 DEF QueueInv, Unmade
<1>2. CASE made
  <2>1. IsSound /\ Basics
    BY <1>2 DEF QueueInv, Watched, Endless
  <2>2. PICK n \in Nat : \E c \in [1..n -> Cells], e \in Cells \cup {NULL} : Sound(n, c, e)
    BY <2>1 DEF IsSound
  <2>3. PICK c \in [1..n -> Cells], e \in Cells \cup {NULL} : Sound(n, c, e)
    BY <2>2
  <2>4. Chain = [i \in 1..n |-> c[i]]
    BY <2>1, <2>3, SoundContents
  <2>5. ToSet(Chain) = Members(n, c)
    BY ONLY <2>4 DEF ToSet, Members
  <2>6. allocated = Members(n, c) /\ strings = allocated
    BY <2>3 DEF Sound, Blocks, Holding
  <2> QED BY <1>2, <2>5, <2>6
<1> QED BY <1>1, <1>2

LEMMA WalksOfSound ==
  ASSUME QueueInv
  PROVE  WalkEnds
<1> USE QtestAssumption
<1> SUFFICES ASSUME pc \in {"turn", "release"}, trusted
             PROVE  /\ Len(Walk(cell)) <= Cardinality(Cells) /\ IsInjective(Walk(cell))
                    /\ ToSet(Walk(cell)) \subseteq allocated
                    /\ pc = "turn" => {q.head, prev} \cap ToSet(Walk(cell)) = {}
  BY DEF WalkEnds
<1>1. IsSound /\ Basics
  BY DEF QueueInv, Watched, Endless, Basics
<1>2. PICK n \in Nat : \E c \in [1..n -> Cells], e \in Cells \cup {NULL} : Sound(n, c, e)
  BY <1>1 DEF IsSound
<1>3. PICK c \in [1..n -> Cells], e \in Cells \cup {NULL} : Sound(n, c, e)
  BY <1>2
<1>4. e = NULL /\ Different(n, c) /\ Members(n, c) \subseteq allocated
  BY <1>3 DEF Sound, Linked, Blocks
<1>5. ASSUME NEW m \in Nat, NEW d \in [1..m -> Cells], Different(m, d), Links(heap, m, d, NULL),
             cell = FirstOf(m, d, NULL), Members(m, d) \subseteq Members(n, c)
      PROVE  /\ Len(Walk(cell)) <= Cardinality(Cells) /\ IsInjective(Walk(cell))
             /\ ToSet(Walk(cell)) = Members(m, d)
  <2>1. Walk(cell) = [i \in 1..m |-> d[i]]
    BY <1>5, WalkOfLinks DEF Walk
  <2>2. m <= Cardinality(Cells)
    BY <1>5, NumberedFit
  <2>3. ToSet(Walk(cell)) = Members(m, d)
    BY ONLY <2>1 DEF ToSet, Members
  <2>4. IsInjective(Walk(cell))
    <3>1. DOMAIN Walk(cell) = 1..m /\ \A i \in 1..m : Walk(cell)[i] = d[i]
      BY ONLY <2>1
    <3> QED BY ONLY <3>1, <1>5 DEF IsInjective, Different
  <2>5. Len(Walk(cell)) = m
    BY <2>1
  <2> QED BY <2>2, <2>3, <2>4, <2>5
<1>6. CASE pc = "release"
  <2>1. Links(heap, n, c, NULL) /\ cell = FirstOf(n, c, NULL)
    BY <1>3, <1>4, <1>6 DEF Sound, Linked, Hands
  <2> QED BY <1>4, <1>5, <1>6, <2>1
<1>7. CASE pc = "turn"
  <2>1. PICK k \in 1..n : HalfTurned(n, c, e, k)
    BY <1>3, <1>7 DEF Sound, Linked
  <2>2. /\ \A i \in 1..n :
             heap[c[i]].next = IF 1 < i /\ i <= k THEN c[i - 1] ELSE IF i = n THEN NULL ELSE c[i + 1]
        /\ prev = c[k] /\ cell = (IF k = n THEN NULL ELSE c[k + 1]) /\ q.head = c[1] /\ n > 1
    BY <1>3, <1>4, <1>7, <2>1 DEF HalfTurned, Sound, Heads, Linked
  <2>3. PICK m \in Nat : m = n - k
    OBVIOUS
  <2>4. PICK d : d = [i \in 1..m |-> c[k + i]]
    OBVIOUS
  <2>5. d \in [1..m -> Cells] /\ \A i \in 1..m : d[i] = c[k + i] /\ k + i \in 1..n
    BY <2>3, <2>4
  <2>6. Different(m, d)
    BY <1>4, <2>3, <2>5 DEF Different
  <2>7. Links(heap, m, d, NULL)
    <3>1. ASSUME NEW i \in 1..m PROVE heap[d[i]].next = IF i = m THEN NULL ELSE d[i + 1]
      <4>1. heap[c[k + i]].next = IF k + i = n THEN NULL ELSE c[k + i + 1]
        BY <2>2, <2>5
      <4>2. i # m => i + 1 \in 1..m /\ d[i + 1] = c[k + (i + 1)] /\ k + (i + 1) = k + i + 1
        BY <2>5
      <4> QED BY <2>3, <2>5, <4>1, <4>2
    <3> QED BY <3>1 DEF Links
  <2>8. cell = FirstOf(m, d, NULL)
    <3>1. m # 0 => d[1] = c[k + 1]
      BY <2>5
    <3> QED BY <2>2, <2>3, <3>1 DEF FirstOf
  <2>9. Members(m, d) \subseteq Members(n, c)
    BY <2>5 DEF Members
  <2>10. c[k] \notin Members(m, d) /\ c[1] \notin Members(m, d)
    <3>1. ASSUME NEW i \in 1..m PROVE c[k] # d[i] /\ c[1] # d[i]
      <4>1. k + i \in 1..n /\ k + i # k /\ k + i # 1 /\ 1 \in 1..n
        BY <2>2, <2>5
      <4> QED BY <1>4, <2>5, <4>1 DEF Different
    <3> QED BY <3>1 DEF Members
  <2> QED BY <1>4, <1>5, <2>2, <2>5, <2>6, <2>7, <2>8, <2>9, <2>10
<1> QED BY <1>6, <1>7

(* Between two commands the list, its size, its tail and qtest's count     *)
(* agree.                                                                  *)
THEOREM FieldsMatch == Spec => []ListMatchesFields
BY QueueInvariant, FieldsOfSound, PTL

(* As long as no operation was cut off, what is allocated is what is in    *)
(* the queue, and after q_free nothing is.                                 *)
THEOREM NoLeaks == Spec => []NothingLeaks
BY QueueInvariant, BlocksOfSound, PTL

(* The loops of q_reverse and q_free walk a list that ends and meets no    *)
(* element twice.                                                          *)
THEOREM WalksEnd == Spec => []WalkEnds
BY QueueInvariant, WalksOfSound, PTL

(* Where a pointer is followed, it leads to an element that is allocated.  *)
LEMMA NoBadAccess ==
  ASSUME QueueInv, Next, trusted
  PROVE  segv' = segv /\ (pc' = "corrupt" => pc = "corrupt")
<1> USE QtestAssumption
<1>1. CASE LinkTail \/ RemoveHead \/ StartReverse \/ Turn \/ Release
  <2>1. made /\ pc # "corrupt" /\ Basics
    BY <1>1 DEF LinkTail, RemoveHead, StartReverse, Turn, Release, QueueInv, Basics
  <2>2. IsSound
    BY <2>1 DEF QueueInv, Watched, Endless
  <2>3. PICK n \in Nat : \E c \in [1..n -> Cells], e \in Cells \cup {NULL} : Sound(n, c, e)
    BY <2>2 DEF IsSound
  <2>4. PICK c \in [1..n -> Cells], e \in Cells \cup {NULL} : Sound(n, c, e)
    BY <2>3
  <2>5. e = NULL /\ \A i \in 1..n : c[i] \in allocated
    BY <2>4 DEF Sound, Linked, Blocks, Members
  <2>6. CASE LinkTail
    <3>1. pc = "append" /\ cmd.op = "it"
      BY <2>1, <2>6 DEF LinkTail, Basics
    <3>2. n > 0 /\ q.tail = c[n]
      BY <2>4, <3>1 DEF Sound, Hands, Tails
    <3>3. q.tail \in allocated /\ q.tail \in Cells
      BY <2>5, <3>2
    <3> QED BY <2>6, <3>1, <3>3 DEF LinkTail, history
  <2>7. CASE RemoveHead
    <3>1. pc = "idle" /\ q.size # 0
      BY <2>7 DEF RemoveHead
    <3>2. n > 0 /\ q.head = c[1]
      BY <2>4, <3>1 DEF Sound, Counts, Heads, FirstOf
    <3>3. q.head \in allocated /\ q.head \in Cells
      BY <2>5, <3>2
    <3> QED BY <2>7, <3>1, <3>3 DEF RemoveHead, Begin, Goto
  <2>8. CASE StartReverse
    <3>1. pc = "idle" /\ q.size > 1
      BY <2>8 DEF StartReverse
    <3>2. n > 0 /\ q.head = c[1]
      BY <2>4, <3>1 DEF Sound, Counts, Heads, FirstOf
    <3>3. q.head \in allocated /\ q.head \in Cells
      BY <2>5, <3>2
    <3> QED BY <2>8, <3>1, <3>3 DEF StartReverse, Begin, Goto
  <2>9. CASE Turn
    <3>1. pc = "turn" /\ cell # NULL
      BY <2>9 DEF Turn
    <3>2. PICK k \in 1..n : HalfTurned(n, c, e, k)
      BY <2>4, <3>1 DEF Sound, Linked
    <3>3. k # n /\ cell = c[k + 1]
      BY <2>5, <3>1, <3>2 DEF HalfTurned
    <3>4. cell \in allocated
      BY <2>5, <3>3
    <3> QED BY <2>9, <3>1, <3>4 DEF Turn, history
  <2>10. CASE Release
    <3>1. pc = "release" /\ cell # NULL
      BY <2>10 DEF Release
    <3>2. cell = FirstOf(n, c, e)
      BY <2>4, <3>1 DEF Sound, Hands
    <3>3. cell \in allocated
      BY <2>5, <3>1, <3>2 DEF FirstOf
    <3> QED BY <2>10, <3>1, <3>3 DEF Release, history
  <2> QED BY <1>1, <2>6, <2>7, <2>8, <2>9, <2>10
<1>2. CASE ~(LinkTail \/ RemoveHead \/ StartReverse \/ Turn \/ Release)
  <2> USE DEF Goto, Return, Assign, Begin, Cut, history
  <2>1. CASE New \/ StartFree
    BY <2>1 DEF New, StartFree
  <2>2. CASE \E op \in {"ih", "it"}, value \in Values : StartInsert(op, value)
    BY <2>2 DEF StartInsert
  <2>3. CASE ValueFails \/ Value \/ Push \/ First
    BY <2>3 DEF ValueFails, Value, Push, First
  <2>4. CASE SetTail \/ Only \/ Grow \/ Count
    BY <2>4 DEF SetTail, Only, Grow, Count
  <2>5. CASE FreeValue \/ FreeCell \/ Shrink \/ Uncount
    BY <2>5 DEF FreeValue, FreeCell, Shrink, Uncount
  <2>6. CASE TurnedAll \/ Retail \/ Rehead
    BY <2>6 DEF TurnedAll, Retail, Rehead
  <2>7. CASE ReleaseCell \/ ReleasedAll \/ Alarm
    BY <2>7 DEF ReleaseCell, ReleasedAll, Alarm
  <2>8. CASE pc = "corrupt" /\ UNCHANGED vars
    BY <2>8 DEF vars
  <2> QED BY <1>2, <2>1, <2>2, <2>3, <2>4, <2>5, <2>6, <2>7, <2>8 DEF Next, Command, Step
<1> QED BY <1>1, <1>2

(* No operation of a queue nothing has gone wrong with follows a null      *)
(* pointer or uses a freed element.                                        *)
THEOREM NoOperationTouchesFreed == Spec => NeverTouchesFreed
<1>1. QueueInv /\ [Next]_vars => [segv' # segv \/ (pc' = "corrupt" /\ pc # "corrupt") => ~trusted]_vars
  BY NoBadAccess
<1> QED BY <1>1, QueueInvariant, PTL DEF Spec, NeverTouchesFreed

-----------------------------------------------------------------------------
(* The refinement of StringQueue. *)

LEMMA ValuesOfWalk ==
  ASSUME NEW h, NEW s, NEW n \in Nat, NEW c \in [1..n -> Cells], Different(n, c), Links(h, n, c, NULL),
         s = FirstOf(n, c, NULL)
  PROVE  [i \in DOMAIN WalkIn(h, s) |-> h[WalkIn(h, s)[i]].value] = [i \in 1..n |-> h[c[i]].value]
<1> DEFINE w == [i \in 1..n |-> c[i]]
<1>1. WalkIn(h, s) = w
  BY WalkOfLinks
<1>2. [i \in DOMAIN w |-> h[w[i]].value] = [i \in 1..n |-> h[c[i]].value]
  OBVIOUS
<1> HIDE DEF w
<1> QED BY ONLY <1>1, <1>2

LEMMA FirstAndRest ==
  ASSUME NEW n \in Nat, n > 0, NEW f \in [1..n -> Values], NEW b \in [1..(n - 1) -> Values],
         \A i \in 1..(n - 1) : b[i] = f[i + 1]
  PROVE  f = <<f[1]>> \o b /\ f # << >> /\ f[1] = Head(f) /\ b = Tail(f)
<1>1. f \in Seq(Values) /\ Len(f) = n /\ f[1] \in Values
  OBVIOUS
<1>2. b \in Seq(Values) /\ Len(b) = n - 1 /\ \A i \in 1..(n - 1) : b[i] = f[i + 1]
  <2>1. \A i \in 1..(n - 1) : f[i + 1] \in Values
    OBVIOUS
  <2> QED BY <2>1
<1>3. f # << >>
  BY <1>1
<1>4. b = Tail(f)
  <2>1. Tail(f) \in Seq(Values) /\ Len(Tail(f)) = n - 1 /\ \A i \in 1..(n - 1) : Tail(f)[i] = f[i + 1]
    BY <1>1, <1>3, HeadTailProperties
  <2> QED BY <1>2, <2>1, SeqEqual
<1>5. f = <<f[1]>> \o b
  <2>1. <<f[1]>> \in Seq(Values) /\ Len(<<f[1]>>) = 1
    BY <1>1
  <2>2. /\ <<f[1]>> \o b \in Seq(Values) /\ Len(<<f[1]>> \o b) = n
        /\ \A i \in 1..n : (<<f[1]>> \o b)[i] = IF i <= 1 THEN <<f[1]>>[i] ELSE b[i - 1]
    BY <1>2, <2>1, ConcatProperties
  <2>3. \A i \in 1..n : (<<f[1]>> \o b)[i] = f[i]
    <3> SUFFICES ASSUME NEW i \in 1..n PROVE (<<f[1]>> \o b)[i] = f[i]
      OBVIOUS
    <3>1. CASE i = 1
      BY <2>2, <3>1
    <3>2. CASE i # 1
      <4>1. i - 1 \in 1..(n - 1) /\ ~(i <= 1)
        BY <3>2
      <4>2. b[i - 1] = f[i]
        BY <1>2, <4>1
      <4> QED BY <2>2, <4>1, <4>2
    <3> QED BY <3>1, <3>2
  <2> QED BY <1>1, <2>2, <2>3, SeqEqual
<1>6. Head(f) = f[1]
  BY <1>1, <1>3
<1> QED BY <1>3, <1>4, <1>5, <1>6

LEMMA RestAndLast ==
  ASSUME NEW n \in Nat, n > 0, NEW f \in [1..n -> Values], NEW b \in [1..(n - 1) -> Values],
         \A i \in 1..(n - 1) : b[i] = f[i]
  PROVE  f = Append(b, f[n])
<1>1. f \in Seq(Values) /\ Len(f) = n /\ f[n] \in Values
  OBVIOUS
<1>2. b \in Seq(Values) /\ Len(b) = n - 1 /\ \A i \in 1..(n - 1) : b[i] = f[i]
  OBVIOUS
<1>3. /\ Append(b, f[n]) \in Seq(Values) /\ Len(Append(b, f[n])) = n
      /\ \A i \in 1..n : Append(b, f[n])[i] = IF i = n THEN f[n] ELSE b[i]
  BY <1>1, <1>2
<1> QED BY <1>1, <1>2, <1>3, SeqEqual

LEMMA TheOtherWay ==
  ASSUME NEW n \in Nat, NEW f \in [1..n -> Values], NEW b \in [1..n -> Values],
         \A i \in 1..n : f[i] = b[n + 1 - i]
  PROVE  f = Reverse(b)
<1>1. Len(b) = n
  OBVIOUS
<1>2. Reverse(b) = [i \in 1..n |-> b[(n - i) + 1]]
  BY ONLY <1>1 DEF Reverse
<1>3. \A i \in 1..n : b[(n - i) + 1] = f[i]
  OBVIOUS
<1>4. f = [i \in 1..n |-> f[i]]
  OBVIOUS
<1> QED BY ONLY <1>2, <1>3, <1>4

LEMMA ShownAtPrompt ==
  ASSUME NEW n \in Nat, NEW c \in [1..n -> Cells], NEW e \in Cells \cup {NULL},
         Sound(n, c, e)', trusted', pc' = "idle"
  PROVE  Contents' = [i \in 1..n |-> heap'[c[i]].value]
<1>1. Different(n, c) /\ Links(heap', n, c, NULL) /\ q'.head = FirstOf(n, c, NULL)
  BY DEF Sound, Linked, Links, Heads
<1> QED BY ONLY <1>1, ValuesOfWalk, n \in Nat, c \in [1..n -> Cells] DEF Contents, Chain, Walk

(* What the queue shows when an operation returns, and what it showed when *)
(* the operation began.                                                    *)
LEMMA Returns ==
  ASSUME QueueInv, QueueInv', Next, trusted, trusted', made, pc # "idle", pc' = "idle"
  PROVE  /\ Count => /\ cmd.op = "ih" => Contents' = <<cmd.value>> \o before
                     /\ cmd.op = "it" => Contents' = Append(before, cmd.value)
                     /\ cmd.op \in {"ih", "it"} /\ cmd.value \in Values
         /\ Uncount => /\ before # << >> /\ cmd.value = Head(before) /\ Contents' = Tail(before)
                       /\ cmd.value \in Values
         /\ Rehead => Contents' = Reverse(before)
         /\ ValueFails => Contents' = before
<1> SUFFICES ASSUME Count \/ Uncount \/ Rehead \/ ValueFails
             PROVE  /\ Count => /\ cmd.op = "ih" => Contents' = <<cmd.value>> \o before
                                /\ cmd.op = "it" => Contents' = Append(before, cmd.value)
                                /\ cmd.op \in {"ih", "it"} /\ cmd.value \in Values
                    /\ Uncount => /\ before # << >> /\ cmd.value = Head(before) /\ Contents' = Tail(before)
                                  /\ cmd.value \in Values
                    /\ Rehead => Contents' = Reverse(before)
                    /\ ValueFails => Contents' = before
  OBVIOUS
<1>1. Basics /\ Basics' /\ Watched /\ Watched' /\ IsSound
  <2>1. made' /\ pc # "turn" /\ pc # "corrupt"
    BY DEF Count, Uncount, Rehead, ValueFails, Goto
  <2> QED BY <2>1 DEF QueueInv, Watched, Endless
<1>2. PICK n \in Nat : \E c \in [1..n -> Cells], e \in Cells \cup {NULL} : Sound(n, c, e)
  BY <1>1 DEF IsSound
<1>3. PICK c \in [1..n -> Cells], e \in Cells \cup {NULL} : Sound(n, c, e)
  BY <1>2
<1>4. Sound(n, c, e)'
  BY <1>1, <1>3, SameNumbering
<1>5. PICK f : f = [i \in 1..n |-> heap[c[i]].value]
  OBVIOUS
<1>6. heap' = heap /\ pc # "release" /\ pc # "release_cell"
  BY DEF Count, Uncount, Rehead, ValueFails, memory
<1>7. f \in [1..n -> Values] /\ \A i \in 1..n : f[i] = heap[c[i]].value
  BY <1>3, <1>5, <1>6 DEF Sound, Worded
<1>8. Contents' = f
  BY <1>4, <1>5, <1>6, ShownAtPrompt
<1>9. CASE Count
  <2>1. pc = "count"
    BY <1>9 DEF Count
  <2>2. n > 0 /\ cmd.op \in {"ih", "it"} /\ cmd.value \in Values
    BY <1>1, <1>3, <2>1 DEF Sound, Counts, Basics
  <2>3. CASE cmd.op = "ih"
    <3>1. before = [i \in 1..(n - 1) |-> heap[c[i + 1]].value] /\ heap[c[1]].value = cmd.value
      BY <1>3, <2>1, <2>3 DEF Sound, Shown
    <3>2. \A i \in 1..(n - 1) : heap[c[i + 1]].value = f[i + 1]
      BY <1>7
    <3>3. before = [i \in 1..(n - 1) |-> f[i + 1]]
      BY ONLY <3>1, <3>2
    <3>4. f = <<f[1]>> \o before
      <4>1. before \in [1..(n - 1) -> Values] /\ \A i \in 1..(n - 1) : before[i] = f[i + 1]
        BY <1>7, <3>3
      <4> QED BY <1>7, <2>2, <4>1, FirstAndRest
    <3> QED BY <1>7, <1>8, <2>1, <2>2, <2>3, <3>1, <3>4 DEF Uncount, Rehead, ValueFails, Goto
  <2>4. CASE cmd.op = "it"
    <3>1. before = [i \in 1..(n - 1) |-> heap[c[i]].value] /\ heap[c[n]].value = cmd.value
      BY <1>3, <2>1, <2>4 DEF Sound, Shown
    <3>2. \A i \in 1..(n - 1) : heap[c[i]].value = f[i]
      BY <1>7
    <3>3. before = [i \in 1..(n - 1) |-> f[i]]
      BY ONLY <3>1, <3>2
    <3>4. f = Append(before, f[n])
      <4>1. before \in [1..(n - 1) -> Values] /\ \A i \in 1..(n - 1) : before[i] = f[i]
        BY <1>7, <3>3
      <4> QED BY <1>7, <2>2, <4>1, RestAndLast
    <3> QED BY <1>7, <1>8, <2>1, <2>2, <2>4, <3>1, <3>4 DEF Uncount, Rehead, ValueFails, Goto
  <2> QED BY <2>2, <2>3, <2>4
<1>10. CASE Uncount
  <2>1. pc = "uncount"
    BY <1>10 DEF Uncount
  <2>2. cmd.value \in Values
    BY <1>3, <2>1 DEF Sound, Worded
  <2>3. before = [i \in 1..(n + 1) |-> IF i = 1 THEN cmd.value ELSE heap[c[i - 1]].value]
    BY <1>3, <2>1 DEF Sound, Shown
  <2>4. PICK g : g = before
    OBVIOUS
  <2>5. g \in [1..(n + 1) -> Values] /\ g[1] = cmd.value
    <3>1. ASSUME NEW i \in 1..(n + 1) PROVE (IF i = 1 THEN cmd.value ELSE heap[c[i - 1]].value) \in Values
      <4>1. i # 1 => i - 1 \in 1..n
        OBVIOUS
      <4> QED BY <1>7, <2>2, <4>1
    <3> QED BY <2>3, <2>4, <3>1
  <2>6. \A i \in 1..n : f[i] = g[i + 1]
    <3> SUFFICES ASSUME NEW i \in 1..n PROVE f[i] = g[i + 1]
      OBVIOUS
    <3>1. i + 1 \in 1..(n + 1) /\ i + 1 # 1 /\ (i + 1) - 1 = i
      OBVIOUS
    <3>2. g[i + 1] = heap[c[(i + 1) - 1]].value
      BY ONLY <2>3, <2>4, <3>1
    <3> QED BY <1>7, <3>1, <3>2
  <2>7. f = [i \in 1..((n + 1) - 1) |-> g[i + 1]]
    BY ONLY n \in Nat, <1>5, <1>7, <2>6
  <2>8. g # << >> /\ g[1] = Head(g) /\ f = Tail(g)
    <3>1. PICK m : m = n + 1
      OBVIOUS
    <3>2. /\ m \in Nat /\ m > 0 /\ g \in [1..m -> Values]
          /\ f \in [1..(m - 1) -> Values] /\ \A i \in 1..(m - 1) : f[i] = g[i + 1]
      BY <1>7, <2>5, <2>6, <3>1
    <3> QED BY ONLY <3>2, FirstAndRest, SMTT(30)
  <2> QED BY <1>8, <2>1, <2>2, <2>4, <2>5, <2>8 DEF Count, Rehead, ValueFails, Goto
<1>11. CASE Rehead
  <2>1. pc = "rehead"
    BY <1>11 DEF Rehead
  <2>2. before = [i \in 1..n |-> heap[c[n + 1 - i]].value]
    BY <1>3, <2>1 DEF Sound, Shown
  <2>3. \A i \in 1..n : heap[c[n + 1 - i]].value = f[n + 1 - i]
    BY <1>7
  <2>4. before = [i \in 1..n |-> f[n + 1 - i]]
    BY ONLY <2>2, <2>3
  <2>5. f = Reverse(before)
    <3>1. \A i \in 1..n : n + 1 - i \in 1..n /\ n + 1 - (n + 1 - i) = i
      OBVIOUS
    <3>2. /\ before \in [1..n -> Values]
          /\ \A i \in 1..n : f[i] = before[n + 1 - i]
      BY <1>7, <2>4, <3>1
    <3>3. f \in [1..n -> Values]
      BY <1>7
    <3> QED BY ONLY n \in Nat, <3>2, <3>3, TheOtherWay, SMTT(30)
  <2> QED BY <1>8, <2>1, <2>5 DEF Count, Uncount, ValueFails
<1>12. CASE ValueFails
  <2>1. pc = "value"
    BY <1>12 DEF ValueFails
  <2>2. before = [i \in 1..n |-> heap[c[i]].value]
    BY <1>3, <2>1 DEF Sound, Shown, Vals
  <2> QED BY <1>5, <1>8, <2>1, <2>2 DEF Count, Uncount, Rehead
<1> QED BY <1>9, <1>10, <1>11, <1>12

(* Every other step of an operation shows nothing.                         *)
LEMMA OtherSteps ==
  ASSUME Basics, Next, made, trusted, made', trusted', ~(Count \/ Uncount \/ Rehead \/ ValueFails)
  PROVE  /\ pc = "idle" => pc' # "idle" /\ before' = Contents
         /\ pc # "idle" => pc' # "idle" /\ before' = before
<1> USE DEF Goto, Return, Cut, Segfault, Corrupt, Assign, Begin, history
<1>1. CASE RemoveHead
  BY <1>1 DEF RemoveHead
<1>2. CASE StartReverse
  BY <1>2 DEF StartReverse
<1>3. CASE StartFree \/ New
  BY <1>3 DEF StartFree, New
<1>4. CASE \E op \in {"ih", "it"}, value \in Values : StartInsert(op, value)
  BY <1>4 DEF StartInsert
<1>5. CASE Value \/ Push \/ First \/ SetTail \/ Only \/ Grow
  BY <1>5 DEF Value, Push, First, SetTail, Only, Grow
<1>6. CASE LinkTail
  BY <1>6 DEF LinkTail
<1>7. CASE FreeValue \/ FreeCell \/ Shrink
  BY <1>7 DEF FreeValue, FreeCell, Shrink
<1>8. CASE Turn
  BY <1>8 DEF Turn
<1>9. CASE TurnedAll \/ Retail \/ ReleaseCell \/ ReleasedAll
  BY <1>9 DEF TurnedAll, Retail, ReleaseCell, ReleasedAll
<1>10. CASE Release
  BY <1>10 DEF Release
<1>11. CASE Alarm
  BY <1>11 DEF Alarm
<1>12. CASE pc = "corrupt" /\ UNCHANGED vars
  BY <1>12 DEF Basics
<1> HIDE DEF Goto, Return, Cut, Segfault, Corrupt, Assign, Begin, history
<1> QED BY <1>1, <1>2, <1>3, <1>4, <1>5, <1>6, <1>7, <1>8, <1>9, <1>10, <1>11, <1>12 DEF Next, Command, Step

State   == IF ~made THEN "none" ELSE IF trusted THEN "ok" ELSE "broken"
Content == IF ~made \/ ~trusted THEN << >> ELSE IF pc = "idle" THEN Contents ELSE before

(* The steps of StringQueue, of State and Content.                         *)
LEMMA ShownSteps ==
  ASSUME QueueInv, QueueInv', Next
  PROVE  /\ New => State = "none" /\ State' = "ok" /\ Content' = << >>
         /\ ~New /\ State = "none" => FALSE
         /\ State' = "none" => Content' = << >>
         /\ ~New /\ State' # "none" /\ State # "none" =>
              \/ State = "ok" /\ State' = "broken" /\ Content' = << >>
              \/ State = "broken" /\ State' = "broken" /\ Content = << >> /\ Content' = << >>
              \/ /\ trusted /\ trusted' /\ made /\ made' /\ State = "ok" /\ State' = "ok"
                 /\ Count => /\ cmd.op = "ih" => Content' = <<cmd.value>> \o Content
                             /\ cmd.op = "it" => Content' = Append(Content, cmd.value)
                             /\ cmd.op \in {"ih", "it"} /\ cmd.value \in Values
                 /\ Uncount => /\ Content # << >> /\ cmd.value = Head(Content) /\ Content' = Tail(Content)
                               /\ cmd.value \in Values
                 /\ Rehead => Content' = Reverse(Content)
                 /\ Count \/ Uncount \/ Rehead \/ Content' = Content
<1>1. New => State = "none" /\ State' = "ok" /\ Content' = << >>
  <2> SUFFICES ASSUME New PROVE State = "none" /\ State' = "ok" /\ Content' = << >>
    OBVIOUS
  <2>1. ~made /\ made' /\ trusted' /\ pc' = "idle" /\ q'.size = 0
    BY DEF New, Empty
  <2>2. State = "none" /\ State' = "ok" /\ Content' = Contents'
    BY ONLY <2>1 DEF State, Content
  <2>3. IsSound'
    BY <2>1 DEF QueueInv, Watched, Endless
  <2>4. PICK n \in Nat : \E c \in [1..n -> Cells], e \in Cells \cup {NULL} : Sound(n, c, e)'
    BY <2>3 DEF IsSound
  <2>5. PICK c \in [1..n -> Cells], e \in Cells \cup {NULL} : Sound(n, c, e)'
    BY <2>4
  <2>6. n = 0
    BY <2>1, <2>5 DEF Sound, Counts
  <2>7. Contents' = [i \in 1..n |-> heap'[c[i]].value]
    BY <2>1, <2>5, ShownAtPrompt
  <2>8. Contents' = << >>
    BY ONLY <2>6, <2>7
  <2> QED BY <2>2, <2>8
<1>2. ~New /\ State = "none" => FALSE
  <2> SUFFICES ASSUME ~New, ~made PROVE FALSE
    BY DEF State
  <2>1. pc = "idle"
    BY DEF QueueInv, Basics
  <2>2. ~Command
    BY DEF Command, RemoveHead, StartReverse, StartFree, StartInsert, Begin
  <2>3. ~Step
    BY <2>1 DEF Step, ValueFails, Value, Push, First, LinkTail, SetTail, Only, Grow, Count,
       FreeValue, FreeCell, Shrink, Uncount, Turn, TurnedAll, Retail, Rehead, Release, ReleaseCell, ReleasedAll,
       Assign, Goto
  <2>4. ~Alarm
    BY <2>1 DEF Alarm
  <2> QED BY <2>1, <2>2, <2>3, <2>4 DEF Next
<1>3. State' = "none" => Content' = << >>
  BY DEF State, Content
<1>4. ASSUME ~New, State' # "none", State # "none"
      PROVE  \/ State = "ok" /\ State' = "broken" /\ Content' = << >>
             \/ State = "broken" /\ State' = "broken" /\ Content = << >> /\ Content' = << >>
             \/ /\ trusted /\ trusted' /\ made /\ made' /\ State = "ok" /\ State' = "ok"
                /\ Count => /\ cmd.op = "ih" => Content' = <<cmd.value>> \o Content
                            /\ cmd.op = "it" => Content' = Append(Content, cmd.value)
                            /\ cmd.op \in {"ih", "it"} /\ cmd.value \in Values
                /\ Uncount => /\ Content # << >> /\ cmd.value = Head(Content) /\ Content' = Tail(Content)
                              /\ cmd.value \in Values
                /\ Rehead => Content' = Reverse(Content)
                /\ Count \/ Uncount \/ Rehead \/ Content' = Content
  <2>1. made /\ made'
    BY <1>4 DEF State
  <2>2. CASE ~trusted'
    BY ONLY <2>1, <2>2 DEF State, Content
  <2>3. CASE trusted'
    <3>1. Watched'
      BY <2>1, <2>3 DEF Watched, QueueInv, Basics
    <3>2. trusted
      BY <1>4, <2>3, <3>1, WatchedBefore DEF QueueInv
    <3>3. State = "ok" /\ State' = "ok"
      BY ONLY <2>1, <2>3, <3>2 DEF State
    <3>4. CASE Count \/ Uncount \/ Rehead \/ ValueFails
      <4>1. pc # "idle" /\ pc' = "idle"
        BY <3>4 DEF Count, Uncount, Rehead, ValueFails, Return
      <4>2. Content = before /\ Content' = Contents'
        BY ONLY <2>1, <2>3, <3>2, <4>1 DEF Content
      <4> QED BY ONLY <2>1, <2>3, <3>2, <3>3, <3>4, <4>1, <4>2, QueueInv, QueueInv', Next, Returns
    <3>5. CASE ~(Count \/ Uncount \/ Rehead \/ ValueFails)
      <4>1. /\ pc = "idle" => pc' # "idle" /\ before' = Contents
            /\ pc # "idle" => pc' # "idle" /\ before' = before
        BY <2>1, <2>3, <3>2, <3>5, OtherSteps DEF QueueInv
      <4>2. Content' = Content
        BY ONLY <2>1, <2>3, <3>2, <4>1 DEF Content
      <4> QED BY ONLY <2>1, <2>3, <3>2, <3>3, <3>5, <4>2
    <3> QED BY <3>4, <3>5
  <2> QED BY <2>2, <2>3
<1> QED BY ONLY <1>1, <1>2, <1>3, <1>4

(* The step that returns from an operation.                                *)
LEMMA ReturningStep ==
  ASSUME Basics, Next, trusted'
  PROVE  /\ pc = "count" => Count
         /\ pc = "uncount" => Uncount
         /\ pc = "rehead" => Rehead
<1> SUFFICES ASSUME pc \in {"count", "uncount", "rehead"}
             PROVE  Count \/ Uncount \/ Rehead
  BY DEF Count, Uncount, Rehead
<1>1. ~Command
  BY DEF Command, New, RemoveHead, StartReverse, StartFree, StartInsert, Begin, Goto
<1>2. Step => Count \/ Uncount \/ Rehead
  BY DEF Step, ValueFails, Value, Push, First, LinkTail, SetTail, Only, Grow,
     FreeValue, FreeCell, Shrink, Turn, TurnedAll, Retail, Release, ReleaseCell, ReleasedAll, Assign, Goto
<1>3. ~Alarm
  BY DEF Alarm, Cut, Basics
<1> QED BY <1>1, <1>2, <1>3 DEF Next

LEMMA RefinementInit ==
  ASSUME Init
  PROVE  SQ!Init
BY DEF Init, SQ!Init

LEMMA RefinementNext ==
  ASSUME QueueInv, QueueInv', Next
  PROVE  /\ SQ!Next \/ (State' = State /\ Content' = Content)
         /\ trusted' =>
              /\ pc = "count" => IF cmd.op = "ih" THEN SQ!InsertHead(cmd.value) ELSE SQ!InsertTail(cmd.value)
              /\ pc = "uncount" => SQ!RemoveHead(cmd.value)
              /\ pc = "rehead" => SQ!Reversed
<1> DEFINE shown ==
             /\ trusted /\ trusted' /\ made /\ made' /\ State = "ok" /\ State' = "ok"
             /\ Count => /\ cmd.op = "ih" => Content' = <<cmd.value>> \o Content
                         /\ cmd.op = "it" => Content' = Append(Content, cmd.value)
                         /\ cmd.op \in {"ih", "it"} /\ cmd.value \in Values
             /\ Uncount => /\ Content # << >> /\ cmd.value = Head(Content) /\ Content' = Tail(Content)
                           /\ cmd.value \in Values
             /\ Rehead => Content' = Reverse(Content)
             /\ Count \/ Uncount \/ Rehead \/ Content' = Content
<1>1. /\ New => State = "none" /\ State' = "ok" /\ Content' = << >>
      /\ ~New /\ State = "none" => FALSE
      /\ State' = "none" => Content' = << >>
      /\ ~New /\ State' # "none" /\ State # "none" =>
           \/ State = "ok" /\ State' = "broken" /\ Content' = << >>
           \/ State = "broken" /\ State' = "broken" /\ Content = << >> /\ Content' = << >>
           \/ shown
  BY ShownSteps
<1> HIDE DEF shown
<1>2. ASSUME shown, Count
      PROVE  IF cmd.op = "ih" THEN SQ!InsertHead(cmd.value) ELSE SQ!InsertTail(cmd.value)
  <2>1. State = "ok" /\ State' = "ok"
        /\ (cmd.op = "ih" => Content' = <<cmd.value>> \o Content)
        /\ (cmd.op # "ih" => Content' = Append(Content, cmd.value))
    BY ONLY <1>2 DEF shown
  <2> QED BY ONLY <2>1 DEF SQ!InsertHead, SQ!InsertTail, SQ!Change, State, Content
<1>3. ASSUME shown, Uncount
      PROVE  SQ!RemoveHead(cmd.value)
  <2>1. State = "ok" /\ State' = "ok"
        /\ Content # << >> /\ cmd.value = Head(Content) /\ Content' = Tail(Content)
    BY ONLY <1>3 DEF shown
  <2> QED BY ONLY <2>1 DEF SQ!RemoveHead, SQ!Change, State, Content
<1>4. ASSUME shown, Rehead
      PROVE  SQ!Reversed
  <2>1. State = "ok" /\ State' = "ok" /\ Content' = Reverse(Content)
    BY ONLY <1>4 DEF shown
  <2> QED BY ONLY <2>1 DEF SQ!Reversed, SQ!Change, SQ!Reverse, Reverse, State, Content
<1>5. SQ!Next \/ (State' = State /\ Content' = Content)
  <2>1. CASE New
    <3>1. SQ!New
      BY ONLY <1>1, <2>1 DEF SQ!New, State, Content
    <3> QED BY ONLY <3>1 DEF SQ!Next
  <2>2. CASE ~New /\ State' = "none"
    <3>1. State # "none" /\ State' = "none" /\ Content' = << >>
      BY ONLY <1>1, <2>2
    <3>2. SQ!Free
      BY ONLY <3>1 DEF SQ!Free, State, Content
    <3> QED BY ONLY <3>2 DEF SQ!Next
  <2>3. CASE State = "ok" /\ State' = "broken" /\ Content' = << >>
    <3>1. SQ!Break
      BY ONLY <2>3 DEF SQ!Break, State, Content
    <3> QED BY ONLY <3>1 DEF SQ!Next
  <2>4. CASE shown
    <3>1. CASE Count
      <4>1. cmd.value \in Values
        BY ONLY <2>4, <3>1 DEF shown
      <4> QED BY ONLY <1>2, <2>4, <3>1, <4>1 DEF SQ!Next
    <3>2. CASE Uncount
      <4>1. cmd.value \in Values
        BY ONLY <2>4, <3>2 DEF shown
      <4> QED BY ONLY <1>3, <2>4, <3>2, <4>1 DEF SQ!Next
    <3>3. CASE Rehead
      BY ONLY <1>4, <2>4, <3>3 DEF SQ!Next
    <3>4. CASE ~(Count \/ Uncount \/ Rehead)
      BY ONLY <2>4, <3>4 DEF shown
    <3> QED BY ONLY <3>1, <3>2, <3>3, <3>4
  <2> QED BY ONLY <1>1, <2>1, <2>2, <2>3, <2>4
<1>6. ASSUME trusted', pc \in {"count", "uncount", "rehead"} PROVE shown
  <2>1. Count \/ Uncount \/ Rehead
    BY <1>6, ReturningStep DEF QueueInv
  <2>2. ~New /\ State # "none" /\ State' # "none" /\ State' # "broken"
    <3>1. made /\ made' /\ trusted'
      BY <1>6, <2>1 DEF Count, Uncount, Rehead, QueueInv, Basics
    <3>2. ~New
      BY <1>6 DEF New
    <3> QED BY ONLY <3>1, <3>2 DEF State
  <2> QED BY ONLY <1>1, <2>2
<1>7. ASSUME trusted'
      PROVE  /\ pc = "count" => IF cmd.op = "ih" THEN SQ!InsertHead(cmd.value) ELSE SQ!InsertTail(cmd.value)
             /\ pc = "uncount" => SQ!RemoveHead(cmd.value)
             /\ pc = "rehead" => SQ!Reversed
  <2>1. /\ pc = "count" => Count
        /\ pc = "uncount" => Uncount
        /\ pc = "rehead" => Rehead
    BY <1>7, ReturningStep DEF QueueInv
  <2> QED BY ONLY <1>2, <1>3, <1>4, <1>6, <1>7, <2>1
<1> QED BY ONLY <1>5, <1>7

(* Inserting, removing and reversing do to the strings what queue.h says,  *)
(* and everything else that happens to a queue is a step of StringQueue or *)
(* no step at all.                                                         *)
THEOREM QueueImplements == Spec => ImplementsQueue
<1>1. QueueInv /\ QueueInv' /\ [Next]_vars => [SQ!Next]_<<State, Content>>
  <2> SUFFICES ASSUME QueueInv, QueueInv', [Next]_vars PROVE [SQ!Next]_<<State, Content>>
    OBVIOUS
  <2>1. CASE Next
    BY <2>1, RefinementNext
  <2>2. CASE UNCHANGED vars
    BY <2>2 DEF vars, memory, locals, history, State, Content, Contents, Chain, Walk
  <2> QED BY <2>1, <2>2
<1>2. QueueInv /\ QueueInv' /\ [Next]_vars =>
        [trusted' =>
          /\ pc = "count" => IF cmd.op = "ih" THEN SQ!InsertHead(cmd.value)
                                              ELSE SQ!InsertTail(cmd.value)
          /\ pc = "uncount" => SQ!RemoveHead(cmd.value)
          /\ pc = "rehead" => SQ!Reversed]_vars
  BY RefinementNext
<1>3. Spec => SQ!Init
  BY RefinementInit DEF Spec
<1>4. Spec => SQ!Spec
  BY <1>1, <1>3, QueueInvariant, PTL DEF Spec, SQ!Spec, State, Content
<1> QED BY <1>2, <1>4, QueueInvariant, NoOperationTouchesFreed, PTL DEF Spec, ImplementsQueue
=============================================================================
