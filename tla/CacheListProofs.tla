-------------------------- MODULE CacheListProofs --------------------------
(***************************************************************************)
(* What the operators of CacheList do to a list of any length: the list is *)
(* described by the function that numbers its nodes, and its size by a sum.*)
(***************************************************************************)
EXTENDS CacheList, TLAPS, WellFoundedInduction, FiniteSetTheorems, SequenceTheorems

-----------------------------------------------------------------------------
(* Least elements, in place of induction. *)

(* A set of naturals has a smallest element.                               *)
LEMMA LeastNat ==
  ASSUME NEW S \in SUBSET Nat, S # {}
  PROVE  \E m \in S : \A k \in S : m <= k
<1> DEFINE R == {ss \in Nat \X Nat : ss[1] < ss[2]}
<1>1. IsWellFoundedOn(R, Nat)
  BY NatLessThanWellFounded DEF OpToRel
<1>2. PICK m \in S : \A k \in S : ~(<<k, m>> \in R)
  BY <1>1, WFMin, IsWellFoundedOnSubset
<1>3. ASSUME NEW k \in S PROVE m <= k
  <2>1. <<k, m>> \in Nat \X Nat /\ <<k, m>>[1] = k /\ <<k, m>>[2] = m
    OBVIOUS
  <2>2. ~(k < m)
    BY <1>2, <2>1
  <2> QED BY <2>2
<1> QED BY <1>3

(* Among subsets of a finite set one has no smaller one beside it.         *)
LEMMA SmallestSet ==
  ASSUME NEW S, IsFiniteSet(S), NEW B \in SUBSET SUBSET S, B # {}
  PROVE  \E s \in B : \A x \in s : s \ {x} \notin B
<1> DEFINE Sizes == {k \in Nat : \E s \in B : Cardinality(s) = k}
<1>1. \A s \in B : IsFiniteSet(s) /\ Cardinality(s) \in Nat
  BY FS_Subset, FS_CardinalityType
<1>2. PICK k \in Sizes : \A l \in Sizes : k <= l
  <2>1. Sizes \in SUBSET Nat /\ Sizes # {}
    BY <1>1
  <2> HIDE DEF Sizes
  <2> QED BY <2>1, LeastNat
<1>3. PICK s \in B : Cardinality(s) = k
  OBVIOUS
<1>4. ASSUME NEW x \in s, s \ {x} \in B PROVE FALSE
  <2>1. Cardinality(s \ {x}) = k - 1
    BY <1>1, <1>3, FS_RemoveElement
  <2>2. Cardinality(s \ {x}) \in Sizes /\ k \in Nat
    BY <1>1, <1>4
  <2> HIDE DEF Sizes
  <2> QED BY <1>2, <2>1, <2>2
<1> QED BY <1>4

-----------------------------------------------------------------------------
(* The sum of the sizes of some nodes. *)
Some(s) == CHOOSE x \in s : TRUE
AddsSome(m, S, f) ==    \* f adds up its argument in one order
  \A s \in SUBSET S : f[s] = IF s = {} THEN 0 ELSE m[Some(s)].node_size + f[s \ {Some(s)}]
AddsAny(m, S, f) ==     \* f adds up its argument in any order
  /\ f[{}] = 0
  /\ \A s \in SUBSET S : \A x \in s : f[s] = m[x].node_size + f[s \ {x}]

(* A function that adds in one order exists.                               *)
LEMMA AddsSomeExists ==
  ASSUME NEW S, IsFiniteSet(S), NEW m, \A x \in S : m[x].node_size \in Nat
  PROVE  \E f \in [SUBSET S -> Nat] : AddsSome(m, S, f)
<1> DEFINE D(k) == {s \in SUBSET S : Cardinality(s) <= k}
           P(k) == \E f \in [D(k) -> Nat] : \A s \in D(k) :
                     f[s] = IF s = {} THEN 0 ELSE m[Some(s)].node_size + f[s \ {Some(s)}]
           Bad  == {k \in Nat : ~P(k)}
<1>1. \A s \in SUBSET S : IsFiniteSet(s) /\ Cardinality(s) \in Nat
  BY FS_Subset, FS_CardinalityType
<1>2. \A s \in SUBSET S : s # {} => Some(s) \in s
  BY DEF Some
<1>3. P(0)
  <2>1. \A s \in D(0) : s = {}
    BY <1>1, FS_EmptySet
  <2>2. [s \in D(0) |-> 0] \in [D(0) -> Nat]
    OBVIOUS
  <2> HIDE DEF D
  <2> QED BY <2>1, <2>2
<1>4. ASSUME NEW k \in Nat, P(k) PROVE P(k + 1)
  <2>1. PICK f \in [D(k) -> Nat] : \A s \in D(k) :
               f[s] = IF s = {} THEN 0 ELSE m[Some(s)].node_size + f[s \ {Some(s)}]
    BY <1>4
  <2> DEFINE g == [s \in D(k + 1) |-> IF s = {} THEN 0 ELSE m[Some(s)].node_size + f[s \ {Some(s)}]]
  <2>2. ASSUME NEW s \in D(k + 1), s # {}
        PROVE  s \ {Some(s)} \in D(k) /\ Some(s) \in S
    <3>1. Cardinality(s \ {Some(s)}) = Cardinality(s) - 1
      BY <1>1, <1>2, <2>2, FS_RemoveElement
    <3> QED BY <1>1, <1>2, <2>2, <3>1
  <2>3. D(k) \subseteq D(k + 1)
    BY <1>1
  <2>a. f \in [D(k) -> Nat]
    BY <2>1
  <2> HIDE DEF D
  <2>4. g \in [D(k + 1) -> Nat]
    BY <2>a, <2>2
  <2>5. \A s \in D(k) : g[s] = f[s]
    BY <2>1, <2>3
  <2>6. \A s \in D(k + 1) : g[s] = IF s = {} THEN 0 ELSE m[Some(s)].node_size + g[s \ {Some(s)}]
    BY <2>2, <2>5
  <2> QED BY <2>4, <2>6
<1>5. Bad = {}
  <2> SUFFICES ASSUME Bad # {} PROVE FALSE
    OBVIOUS
  <2> HIDE DEF P
  <2>1. PICK k \in Bad : \A l \in Bad : k <= l
    <3>1. Bad \in SUBSET Nat
      OBVIOUS
    <3> HIDE DEF Bad
    <3> QED BY <3>1, LeastNat
  <2>2. k \in Nat /\ k # 0
    BY <1>3, <2>1
  <2>3. k - 1 \in Nat /\ k - 1 \notin Bad /\ (k - 1) + 1 = k
    BY <2>1, <2>2
  <2>4. P((k - 1) + 1)
    BY <1>4, <2>3
  <2> QED BY <2>1, <2>3, <2>4
<1>6. Cardinality(S) \in Nat /\ D(Cardinality(S)) = SUBSET S
  BY FS_Subset, FS_CardinalityType
<1>7. P(Cardinality(S))
  <2> HIDE DEF P
  <2> QED BY <1>5, <1>6
<1> QED
  <2> HIDE DEF D
  <2> QED BY <1>6, <1>7 DEF AddsSome

(* In whatever order a function adds, the result is the same.              *)
LEMMA SomeIsAny ==
  ASSUME NEW S, IsFiniteSet(S), NEW m, \A x \in S : m[x].node_size \in Nat,
         NEW f \in [SUBSET S -> Nat], AddsSome(m, S, f)
  PROVE  AddsAny(m, S, f)
<1> DEFINE B == {s \in SUBSET S : \E x \in s : f[s] # m[x].node_size + f[s \ {x}]}
<1>1. ASSUME B # {} PROVE FALSE
  <2>1. PICK s \in B : \A x \in s : s \ {x} \notin B
    <3>1. B \in SUBSET SUBSET S
      OBVIOUS
    <3> HIDE DEF B
    <3> QED BY <1>1, <3>1, SmallestSet
  <2>2. PICK x \in s : f[s] # m[x].node_size + f[s \ {x}]
    BY <2>1
  <2> DEFINE y == Some(s)
  <2>3. y \in s
    BY <2>2 DEF Some
  <2>4. f[s] = m[y].node_size + f[s \ {y}]
    BY <2>2 DEF AddsSome
  <2> HIDE DEF y
  <2>5. y # x
    BY <2>2, <2>4
  <2>6. f[s \ {y}] = m[x].node_size + f[(s \ {y}) \ {x}]
    BY <2>1, <2>3, <2>5
  <2>7. f[s \ {x}] = m[y].node_size + f[(s \ {x}) \ {y}]
    BY <2>1, <2>3, <2>5
  <2>8. (s \ {x}) \ {y} = (s \ {y}) \ {x}
    OBVIOUS
  <2>9. m[x].node_size \in Nat /\ m[y].node_size \in Nat /\ f[(s \ {y}) \ {x}] \in Nat
    BY <2>1, <2>3
  <2> QED BY <2>2, <2>4, <2>6, <2>7, <2>8, <2>9
<1>2. f[{}] = 0
  BY DEF AddsSome
<1> QED BY <1>1, <1>2 DEF AddsAny

(* f adds up its argument in one order, as SizeOf's fold has it.           *)
AddsSomeOf(m, S, f) ==
  f = [s \in SUBSET S |-> IF s = {} THEN 0 ELSE m[Some(s)].node_size + f[s \ {Some(s)}]]

(* Only one function does.                                                 *)
LEMMA AddsSomeUnique ==
  ASSUME NEW S, IsFiniteSet(S), NEW m, \A x \in S : m[x].node_size \in Nat,
         NEW g \in [SUBSET S -> Nat], AddsSome(m, S, g)
  PROVE  (CHOOSE f : AddsSomeOf(m, S, f)) = g
<1>1. AddsSomeOf(m, S, g)
  BY DEF AddsSome, AddsSomeOf
<1>2. ASSUME NEW f, AddsSomeOf(m, S, f) PROVE f = g
  <2> DEFINE B == {s \in SUBSET S : f[s] # g[s]}
  <2>1. ASSUME B # {} PROVE FALSE
    <3>1. PICK s \in B : \A x \in s : s \ {x} \notin B
      <4>1. B \in SUBSET SUBSET S
        OBVIOUS
      <4> HIDE DEF B
      <4> QED BY <2>1, <4>1, SmallestSet
    <3>2. f[s] = IF s = {} THEN 0 ELSE m[Some(s)].node_size + f[s \ {Some(s)}]
      BY <1>2, <3>1 DEF AddsSomeOf
    <3>3. g[s] = IF s = {} THEN 0 ELSE m[Some(s)].node_size + g[s \ {Some(s)}]
      BY <3>1 DEF AddsSome
    <3>4. s # {} => f[s \ {Some(s)}] = g[s \ {Some(s)}]
      BY <3>1 DEF Some
    <3> QED BY <3>1, <3>2, <3>3, <3>4
  <2> QED BY <1>2, <2>1 DEF AddsSomeOf
<1> QED BY <1>1, <1>2

(* SizeOf is such a function, applied to the set.                          *)
LEMMA SizeOfAdds ==
  ASSUME NEW S, IsFiniteSet(S), NEW m, \A x \in S : m[x].node_size \in Nat
  PROVE  \E f \in [SUBSET S -> Nat] : AddsAny(m, S, f) /\ SizeOf(m, S) = f[S]
<1>1. SizeOf(m, S) = (CHOOSE f : AddsSomeOf(m, S, f))[S]
  BY DEF SizeOf, MapThenSumSet, MapThenFoldSet, Some, AddsSomeOf
<1>2. PICK g \in [SUBSET S -> Nat] : AddsSome(m, S, g)
  BY AddsSomeExists
<1>3. (CHOOSE f : AddsSomeOf(m, S, f)) = g
  BY <1>2, AddsSomeUnique
<1> QED BY <1>1, <1>2, <1>3, SomeIsAny

(* Nodes of the same sizes have the same sum.                              *)
LEMMA SizeOfSame ==
  ASSUME NEW S, IsFiniteSet(S), NEW m, \A x \in S : m[x].node_size \in Nat,
         NEW l, \A x \in S : l[x].node_size = m[x].node_size
  PROVE  SizeOf(l, S) = SizeOf(m, S)
<1>1. PICK f \in [SUBSET S -> Nat] : AddsAny(m, S, f) /\ SizeOf(m, S) = f[S]
  BY SizeOfAdds
<1>2. PICK g \in [SUBSET S -> Nat] : AddsAny(l, S, g) /\ SizeOf(l, S) = g[S]
  BY SizeOfAdds
<1> DEFINE B == {s \in SUBSET S : f[s] # g[s]}
<1>3. ASSUME B # {} PROVE FALSE
  <2>1. PICK s \in B : \A x \in s : s \ {x} \notin B
    <3>1. B \in SUBSET SUBSET S
      OBVIOUS
    <3> HIDE DEF B
    <3> QED BY <1>3, <3>1, SmallestSet
  <2>2. CASE s = {}
    BY <1>1, <1>2, <2>1, <2>2 DEF AddsAny
  <2>3. CASE s # {}
    <3>1. PICK x \in s : TRUE
      BY <2>3
    <3>2. f[s] = m[x].node_size + f[s \ {x}] /\ g[s] = l[x].node_size + g[s \ {x}]
      BY <1>1, <1>2, <2>1 DEF AddsAny
    <3>3. f[s \ {x}] = g[s \ {x}]
      BY <2>1
    <3> QED BY <2>1, <3>2, <3>3
  <2> QED BY <2>2, <2>3
<1> QED BY <1>1, <1>2, <1>3

(* No node, no size.                                                       *)
LEMMA SizeOfNone ==
  ASSUME NEW m
  PROVE  SizeOf(m, {}) = 0
BY SizeOfAdds, FS_EmptySet DEF AddsAny

(* One node more adds its size.                                            *)
LEMMA SizeOfOneMore ==
  ASSUME NEW S, IsFiniteSet(S), NEW m, \A x \in S : m[x].node_size \in Nat,
         NEW x \in S
  PROVE  /\ SizeOf(m, S) \in Nat /\ SizeOf(m, S \ {x}) \in Nat
         /\ SizeOf(m, S) = SizeOf(m, S \ {x}) + m[x].node_size
<1>1. PICK f \in [SUBSET S -> Nat] : AddsAny(m, S, f) /\ SizeOf(m, S) = f[S]
  BY SizeOfAdds
<1> DEFINE T == S \ {x}
<1>2. IsFiniteSet(T) /\ T \subseteq S
  BY FS_RemoveElement
<1>3. PICK g \in [SUBSET T -> Nat] : AddsAny(m, T, g) /\ SizeOf(m, T) = g[T]
  BY <1>2, SizeOfAdds
<1>4. f[S] = m[x].node_size + f[T]
  BY <1>1 DEF AddsAny
<1> HIDE DEF T
<1> DEFINE B == {s \in SUBSET T : f[s] # g[s]}
<1>5. ASSUME B # {} PROVE FALSE
  <2>1. PICK s \in B : \A y \in s : s \ {y} \notin B
    <3>1. B \in SUBSET SUBSET T
      OBVIOUS
    <3> HIDE DEF B
    <3> QED BY <1>2, <1>5, <3>1, SmallestSet
  <2>2. CASE s = {}
    BY <1>1, <1>3, <2>1, <2>2 DEF AddsAny
  <2>3. CASE s # {}
    <3>1. PICK y \in s : TRUE
      BY <2>3
    <3>2. f[s] = m[y].node_size + f[s \ {y}] /\ g[s] = m[y].node_size + g[s \ {y}]
      BY <1>1, <1>2, <1>3, <2>1 DEF AddsAny
    <3>3. f[s \ {y}] = g[s \ {y}]
      BY <2>1
    <3> QED BY <2>1, <3>2, <3>3
  <2> QED BY <2>2, <2>3
<1>6. f[T] = g[T] /\ f[T] \in Nat
  BY <1>2, <1>5
<1> QED BY <1>1, <1>2, <1>3, <1>4, <1>6 DEF T

-----------------------------------------------------------------------------
(* Sequences. *)

(* A sequence without its k-th element, position by position.              *)
LEMMA RemoveAtIs ==
  ASSUME NEW T, NEW s \in Seq(T), NEW k \in 1..Len(s)
  PROVE  RemoveAt(s, k) = [i \in 1..(Len(s) - 1) |-> IF i < k THEN s[i] ELSE s[i + 1]]
<1> DEFINE A == SubSeq(s, 1, k - 1)
           B == SubSeq(s, k + 1, Len(s))
<1>1. A \in Seq(T) /\ Len(A) = k - 1 /\ \A i \in 1..(k - 1) : A[i] = s[i]
  OBVIOUS
<1>2. B \in Seq(T) /\ Len(B) = Len(s) - k /\ \A i \in 1..(Len(s) - k) : B[i] = s[i + k]
  OBVIOUS
<1>3. RemoveAt(s, k) = A \o B
  BY DEF RemoveAt
<1> HIDE DEF A, B
<1>4. /\ A \o B \in Seq(T)
      /\ Len(A \o B) = Len(A) + Len(B)
      /\ \A i \in 1..(Len(A) + Len(B)) : (A \o B)[i] = IF i <= Len(A) THEN A[i] ELSE B[i - Len(A)]
  BY <1>1, <1>2, ConcatProperties
<1> DEFINE R == A \o B
<1>5. R \in Seq(T) /\ Len(R) = Len(s) - 1
  BY <1>1, <1>2, <1>4
<1>6. ASSUME NEW i \in 1..(Len(s) - 1)
      PROVE  R[i] = IF i < k THEN s[i] ELSE s[i + 1]
  <2>0. i \in 1..(Len(A) + Len(B))
    BY <1>1, <1>2
  <2>1. R[i] = IF i <= Len(A) THEN A[i] ELSE B[i - Len(A)]
    BY <1>4, <2>0
  <2> HIDE DEF R
  <2>2. CASE i < k
    BY <1>1, <2>1, <2>2
  <2>3. CASE i >= k
    <3>1. i - (k - 1) \in 1..(Len(s) - k) /\ (i - (k - 1)) + k = i + 1
      BY <2>3
    <3> QED BY <1>1, <1>2, <2>1, <2>3, <3>1
  <2> QED BY <2>2, <2>3
<1> HIDE DEF R
<1>7. R = [i \in 1..(Len(s) - 1) |-> R[i]]
  BY <1>5
<1> QED BY <1>3, <1>6, <1>7 DEF R

(* A sequence with an element in front, position by position.              *)
LEMMA InFrontIs ==
  ASSUME NEW T, NEW s \in Seq(T), NEW x \in T
  PROVE  <<x>> \o s = [i \in 1..(Len(s) + 1) |-> IF i = 1 THEN x ELSE s[i - 1]]
OBVIOUS

(* The first elements of a sequence, position by position.                 *)
LEMMA FirstOnesAre ==
  ASSUME NEW T, NEW s \in Seq(T), NEW k \in 0..Len(s)
  PROVE  SubSeq(s, 1, k) = [i \in 1..k |-> s[i]]
OBVIOUS

-----------------------------------------------------------------------------
(* The list. *)

(* c numbers the nodes from HEAD to TAIL; the n between them are S.        *)
Chain(m, S, n, c) ==
  /\ c[0] = HEAD /\ c[n + 1] = TAIL
  /\ \A i, k \in 0..(n + 1) : c[i] = c[k] => i = k
  /\ \A i \in 1..n : c[i] \in S
  /\ \A x \in S : \E i \in 1..n : c[i] = x
  /\ \A i \in 0..n : m[c[i]].next = c[i + 1] /\ m[c[i + 1]].prev = c[i]

(* The nodes S are linked, in some order, between HEAD and TAIL.           *)
IsChain(m, S) == \E n \in Nat : \E c \in [0..(n + 1) -> Nodes] : Chain(m, S, n, c)

(* The nodes on the list are not HEAD, TAIL or NULL, and malloc has room.  *)
LEMMA ChainNodes ==
  ASSUME NEW m, NEW S, NEW n \in Nat, NEW c \in [0..(n + 1) -> Nodes], Chain(m, S, n, c)
  PROVE  /\ S \in SUBSET Slots /\ IsFiniteSet(S)
         /\ n <= Cardinality(Slots)
         /\ \A i \in 0..n : c[i] \notin {TAIL, NULL}
<1> USE CacheListAssumption
<1>1. \A i \in 1..n : c[i] \in Slots
  BY DEF Chain, Nodes
<1>2. S \in SUBSET Slots
  BY <1>1 DEF Chain
<1>3. \A i \in 0..n : c[i] \notin {TAIL, NULL}
  BY DEF Chain
<1>4. n <= Cardinality(Slots)
  <2> DEFINE g == [i \in 1..n |-> c[i]]
  <2>1. g \in [1..n -> Slots] /\ \A i, k \in 1..n : g[i] = g[k] => i = k
    BY <1>1 DEF Chain
  <2>2. g \in Injection(1..n, Slots)
    BY <2>1 DEF Injection, IsInjective
  <2>3. Cardinality(1..n) <= Cardinality(Slots)
    BY <2>2, FS_Injection
  <2>4. Cardinality(1..n) = n
    BY FS_Interval
  <2> QED BY <2>3, <2>4
<1> QED BY <1>2, <1>3, <1>4, FS_Subset

(* ListOf walks the whole list.                                            *)
LEMMA ListOfChain ==
  ASSUME NEW m, NEW S, NEW n \in Nat, NEW c \in [0..(n + 1) -> Nodes], Chain(m, S, n, c)
  PROVE  ListOf(m) = [i \in 1..n |-> c[i]]
<1> DEFINE N == Cardinality(Slots)
           Walk(f) == [i \in 0..N |-> LET x == IF i = 0 THEN HEAD ELSE f[i - 1]
                                      IN  IF x \in {TAIL, NULL} THEN x ELSE m[x].next]
           at == CHOOSE f : f = Walk(f)
           g  == [i \in 0..N |-> IF i < n THEN c[i + 1] ELSE TAIL]
<1>1. N \in Nat /\ n <= N /\ \A i \in 0..n : c[i] \notin {TAIL, NULL}
  BY ChainNodes, FS_CardinalityType, CacheListAssumption
<1>2. ListOf(m) = [i \in 1..Cardinality({i \in DOMAIN at : at[i] \notin {TAIL, NULL}}) |-> at[i - 1]]
  BY DEF ListOf
<1> HIDE DEF N
<1>3. g = Walk(g)
  <2> SUFFICES ASSUME NEW i \in 0..N PROVE g[i] = Walk(g)[i]
    OBVIOUS
  <2> DEFINE x == IF i = 0 THEN HEAD ELSE g[i - 1]
  <2>1. CASE i <= n
    <3>1. x = c[i] /\ i \in 0..n
      BY <1>1, <2>1 DEF Chain
    <3>2. m[x].next = c[i + 1] /\ x \notin {TAIL, NULL}
      BY <1>1, <3>1 DEF Chain
    <3>3. c[n + 1] = TAIL
      BY DEF Chain
    <3>4. g[i] = c[i + 1]
      BY <2>1, <3>1, <3>3
    <3> HIDE DEF g
    <3> QED BY <3>2, <3>4
  <2>2. CASE i > n
    <3>1. x = TAIL /\ g[i] = TAIL
      BY <1>1, <2>2
    <3> HIDE DEF g
    <3> QED BY <3>1
  <2> QED BY <1>1, <2>1, <2>2
<1>4. ASSUME NEW f, f = Walk(f) PROVE f = g
  <2> DEFINE B == {i \in 0..N : f[i] # g[i]}
  <2>1. ASSUME B # {} PROVE FALSE
    <3>1. PICK i \in B : \A k \in B : i <= k
      <4>1. B \in SUBSET Nat
        BY <1>1
      <4> HIDE DEF B
      <4> QED BY <2>1, <4>1, LeastNat
    <3>2. i \in 0..N /\ f[i] = Walk(f)[i] /\ g[i] = Walk(g)[i]
      BY <1>3, <1>4, <3>1
    <3>3. CASE i = 0
      <4> HIDE DEF g
      <4> QED BY <3>1, <3>2, <3>3
    <3>4. CASE i # 0
      <4>1. i - 1 \in 0..N /\ i - 1 \notin B
        BY <1>1, <3>1, <3>4
      <4>2. f[i - 1] = g[i - 1]
        BY <4>1
      <4> HIDE DEF g
      <4> QED BY <3>1, <3>2, <3>4, <4>2
    <3> QED BY <3>3, <3>4
  <2>2. f = [i \in 0..N |-> f[i]]
    BY <1>4
  <2> QED BY <2>1, <2>2
<1>5. at = g
  <2> HIDE DEF g, Walk
  <2> QED BY <1>3, <1>4
<1>6. {i \in DOMAIN g : g[i] \notin {TAIL, NULL}} = 0..(n - 1)
  <2>1. DOMAIN g = 0..N
    OBVIOUS
  <2>2. \A i \in 0..N : g[i] \notin {TAIL, NULL} <=> i < n
    <3> SUFFICES ASSUME NEW i \in 0..N PROVE g[i] \notin {TAIL, NULL} <=> i < n
      OBVIOUS
    <3>1. CASE i < n
      <4>1. i + 1 \in 0..n
        BY <1>1, <3>1
      <4> QED BY <1>1, <3>1, <4>1
    <3>2. CASE ~(i < n)
      BY <3>2
    <3> QED BY <3>1, <3>2
  <2> HIDE DEF g
  <2> QED BY <1>1, <2>1, <2>2
<1>7. Cardinality(0..(n - 1)) = n
  <2>1. 0 \in Int /\ n - 1 \in Int
    OBVIOUS
  <2> QED BY <2>1, FS_Interval
<1> HIDE DEF at
<1>8. ListOf(m) = [i \in 1..n |-> g[i - 1]]
  <2> HIDE DEF g
  <2> QED BY <1>2, <1>5, <1>6, <1>7
<1>9. \A i \in 1..n : g[i - 1] = c[i]
  BY <1>1
<1> HIDE DEF g
<1> QED BY <1>8, <1>9

(* An object without its links.                                            *)
Object         == [key : Keys \cup {NULL}, size : Nat]
ObjectAt(m, x) == [key |-> m[x].key, size |-> m[x].node_size]

(* The objects of l are those of m without that of the node x.             *)
TakenOff(m, x, l) ==
  \A i \in 1..Len(ListOf(m)) : ListOf(m)[i] = x => ObjectsOf(l) = RemoveAt(ObjectsOf(m), i)

(* The nodes T hold in l what they hold in m, whatever their links.        *)
SameFields(m, l, T) == \A y \in T : l[y].key = m[y].key /\ l[y].node_size = m[y].node_size

(* ListOf and ObjectsOf, for a list whose nodes are numbered.              *)
LEMMA ObjectsOfChain ==
  ASSUME NEW m \in [Nodes -> Node],
         NEW S, NEW n \in Nat, NEW c \in [0..(n + 1) -> Nodes], Chain(m, S, n, c)
  PROVE  /\ ListOf(m) = [i \in 1..n |-> c[i]]
         /\ ObjectsOf(m) = [i \in 1..n |-> ObjectAt(m, c[i])]
         /\ ObjectsOf(m) \in Seq(Object)
         /\ Len(ListOf(m)) = n /\ Len(ObjectsOf(m)) = n
<1> DEFINE l == [i \in 1..n |-> c[i]]
           o == [i \in 1..n |-> ObjectAt(m, c[i])]
<1>1. ListOf(m) = l
  BY ListOfChain
<1>2. ObjectsOf(m) = o
  <2>1. DOMAIN l = 1..n /\ \A i \in 1..n : l[i] = c[i]
    OBVIOUS
  <2> HIDE DEF l
  <2> QED BY <1>1, <2>1 DEF ObjectsOf, ObjectAt
<1>3. \A i \in 1..n : ObjectAt(m, c[i]) \in Object
  BY DEF ObjectAt, Object, Node
<1>4. o \in Seq(Object) /\ Len(o) = n
  <2> DEFINE e(i) == ObjectAt(m, c[i])
  <2>1. \A i \in 1..n : e(i) \in Object
    BY <1>3
  <2> HIDE DEF e
  <2>2. [i \in 1..n |-> e(i)] \in Seq(Object) /\ Len([i \in 1..n |-> e(i)]) = n
    BY <2>1
  <2> QED BY <2>2 DEF e
<1>5. Len(l) = n
  OBVIOUS
<1> HIDE DEF o, l
<1> QED BY <1>1, <1>2, <1>4, <1>5 DEF o, l

(* So a list whose nodes can be numbered is well linked.                   *)
LEMMA ChainIsWellLinked ==
  ASSUME NEW m, NEW S, IsChain(m, S)
  PROVE  WellLinked(m, S)
<1>1. PICK n \in Nat : \E c \in [0..(n + 1) -> Nodes] : Chain(m, S, n, c)
  BY DEF IsChain
<1>2. PICK c \in [0..(n + 1) -> Nodes] : Chain(m, S, n, c)
  BY <1>1
<1> DEFINE l == [i \in 1..n |-> c[i]]
           node(i) == IF i = 0 THEN HEAD ELSE IF i = n + 1 THEN TAIL ELSE l[i]
<1>3. ListOf(m) = l /\ Len(l) = n
  BY <1>2, ListOfChain
<1>4. n <= Cardinality(Slots)
  BY <1>2, ChainNodes
<1>5. ToSet(l) = S /\ IsInjective(l)
  BY <1>2 DEF ToSet, IsInjective, Chain
<1>6. \A i \in 0..(n + 1) : node(i) = c[i]
  BY <1>2 DEF Chain
<1>7. ASSUME NEW i \in 0..n
      PROVE  m[node(i)].next = node(i + 1) /\ m[node(i + 1)].prev = node(i)
  <2>1. node(i) = c[i] /\ node(i + 1) = c[i + 1]
    BY <1>6
  <2> HIDE DEF node
  <2> QED BY <1>2, <2>1 DEF Chain
<1> HIDE DEF l
<1> QED BY <1>3, <1>4, <1>5, <1>7 DEF WellLinked

(* find_node returns a node of the list with the key, or there is none.    *)
LEMMA NodeWithKeyResult ==
  ASSUME NEW m, NEW S, IsChain(m, S), NEW key
  PROVE  /\ NodeWithKey(m, key) # NULL => NodeWithKey(m, key) \in S
                                          /\ m[NodeWithKey(m, key)].key = key
         /\ NodeWithKey(m, key) = NULL => \A x \in S : m[x].key # key
<1>1. PICK n \in Nat : \E c \in [0..(n + 1) -> Nodes] : Chain(m, S, n, c)
  BY DEF IsChain
<1>2. PICK c \in [0..(n + 1) -> Nodes] : Chain(m, S, n, c)
  BY <1>1
<1> DEFINE l == [i \in 1..n |-> c[i]]
           hits == {i \in 1..n : m[l[i]].key = key}
<1>3. NodeWithKey(m, key) = IF hits = {} THEN NULL ELSE l[Min(hits)]
  <2>1. ListOf(m) = l /\ DOMAIN l = 1..n
    BY <1>2, ListOfChain
  <2> HIDE DEF l
  <2> QED BY <2>1 DEF NodeWithKey
<1>4. hits # {} => Min(hits) \in hits
  <2>1. hits \in SUBSET Nat
    OBVIOUS
  <2> HIDE DEF hits
  <2> QED BY <2>1, LeastNat DEF Min
<1>5. \A i \in 1..n : c[i] \in S /\ c[i] # NULL
  <2>1. S \in SUBSET Slots
    BY <1>2, ChainNodes
  <2> QED BY <1>2, <2>1, CacheListAssumption DEF Chain, Nodes
<1>6. \A x \in S : \E i \in 1..n : c[i] = x
  BY <1>2 DEF Chain
<1>7. CASE hits = {}
  BY <1>3, <1>6, <1>7
<1>8. CASE hits # {}
  BY <1>3, <1>4, <1>5, <1>8
<1> QED BY <1>7, <1>8

(* It is the first such node, and its object the first with the key.       *)
LEMMA NodeWithKeyPlace ==
  ASSUME NEW m \in [Nodes -> Node], NEW S, IsChain(m, S), NEW key,
         NEW x, x = NodeWithKey(m, key)
  PROVE  /\ ObjectsOf(m) \in Seq(Object) /\ Len(ListOf(m)) = Len(ObjectsOf(m))
         /\ x # NULL => \E k \in 1..Len(ObjectsOf(m)) :
              /\ ListOf(m)[k] = x /\ ObjectsOf(m)[k] = ObjectAt(m, x)
              /\ ObjectsOf(m)[k].key = key
              /\ \A i \in 1..Len(ObjectsOf(m)) : ObjectsOf(m)[i].key = key => k <= i
         /\ x = NULL => \A i \in 1..Len(ObjectsOf(m)) : ObjectsOf(m)[i].key # key
<1>1. PICK n \in Nat : \E c \in [0..(n + 1) -> Nodes] : Chain(m, S, n, c)
  BY DEF IsChain
<1>2. PICK c \in [0..(n + 1) -> Nodes] : Chain(m, S, n, c)
  BY <1>1
<1> DEFINE hits == {i \in 1..n : m[c[i]].key = key}
<1>3. /\ ListOf(m) = [i \in 1..n |-> c[i]]
      /\ ObjectsOf(m) = [i \in 1..n |-> ObjectAt(m, c[i])]
      /\ ObjectsOf(m) \in Seq(Object)
      /\ Len(ListOf(m)) = n /\ Len(ObjectsOf(m)) = n
  BY <1>2, ObjectsOfChain
<1>4. \A i \in 1..n : /\ ListOf(m)[i] = c[i] /\ ObjectsOf(m)[i] = ObjectAt(m, c[i])
                      /\ ObjectsOf(m)[i].key = m[c[i]].key
  BY <1>3 DEF ObjectAt
<1>5. x = IF hits = {} THEN NULL ELSE ListOf(m)[Min(hits)]
  <2>1. DOMAIN ListOf(m) = 1..n
    BY <1>3
  <2>2. hits = {i \in DOMAIN ListOf(m) : m[ListOf(m)[i]].key = key}
    BY <1>4, <2>1
  <2> HIDE DEF hits
  <2> QED BY <2>2 DEF NodeWithKey
<1>6. hits # {} => Min(hits) \in hits /\ \A i \in hits : Min(hits) <= i
  <2>1. hits \in SUBSET Nat
    OBVIOUS
  <2> HIDE DEF hits
  <2> QED BY <2>1, LeastNat DEF Min
<1>7. CASE hits = {}
  BY <1>3, <1>4, <1>5, <1>7
<1>8. CASE hits # {}
  <2> DEFINE k == Min(hits)
  <2>1. k \in 1..n /\ m[c[k]].key = key /\ x = c[k]
    BY <1>4, <1>5, <1>6, <1>8
  <2>2. \A i \in 1..n : m[c[i]].key = key => k <= i
    BY <1>6, <1>8
  <2>3. x # NULL
    BY <2>1, CacheListAssumption
  <2> HIDE DEF k, hits
  <2>4. \E j \in 1..Len(ObjectsOf(m)) :
          /\ ListOf(m)[j] = x /\ ObjectsOf(m)[j] = ObjectAt(m, x)
          /\ ObjectsOf(m)[j].key = key
          /\ \A i \in 1..Len(ObjectsOf(m)) : ObjectsOf(m)[i].key = key => j <= i
    <3>1. k \in 1..Len(ObjectsOf(m))
      BY <1>3, <2>1
    <3>2. /\ ListOf(m)[k] = x /\ ObjectsOf(m)[k] = ObjectAt(m, x)
          /\ ObjectsOf(m)[k].key = key
      BY <1>4, <2>1
    <3>3. \A i \in 1..Len(ObjectsOf(m)) : ObjectsOf(m)[i].key = key => k <= i
      BY <1>3, <1>4, <2>2
    <3> QED BY <3>1, <3>2, <3>3
  <2> QED BY <1>3, <2>3, <2>4
<1> QED BY <1>7, <1>8

(* A list is made empty.                                                   *)
LEMMA InitChain ==
  /\ init_cache \in [Nodes -> Node] /\ IsChain(init_cache, {})
  /\ ObjectsOf(init_cache) = << >>
<1> USE CacheListAssumption DEF Nodes, Pointers
<1>1. init_cache \in [Nodes -> Node]
  BY DEF init_cache, Node, create_empty_node
<1> DEFINE c == [i \in 0..1 |-> IF i = 0 THEN HEAD ELSE TAIL]
<1>2. c \in [0..(0 + 1) -> Nodes]
  OBVIOUS
<1>3. init_cache[HEAD].next = TAIL /\ init_cache[TAIL].prev = HEAD
  BY DEF init_cache, create_empty_node
<1>4. Chain(init_cache, {}, 0, c)
  BY <1>3 DEF Chain
<1>5. /\ ListOf(init_cache) = [i \in 1..0 |-> c[i]]
      /\ ObjectsOf(init_cache) = [i \in 1..0 |-> ObjectAt(init_cache, c[i])]
      /\ ObjectsOf(init_cache) \in Seq(Object)
      /\ Len(ListOf(init_cache)) = 0 /\ Len(ObjectsOf(init_cache)) = 0
  <2>1. 0 \in Nat
    OBVIOUS
  <2> HIDE DEF c, Nodes, Pointers
  <2> QED BY ONLY <1>1, <1>2, <1>4, <2>1, ObjectsOfChain
<1>6. ObjectsOf(init_cache) = << >>
  BY <1>5, EmptySeq
<1> QED BY <1>1, <1>2, <1>4, <1>6 DEF IsChain

(* Only the links of the nodes on the list make the list.                  *)
LEMMA SameLinks ==
  ASSUME NEW m, NEW S, IsChain(m, S),
         NEW l, \A x \in S \cup {HEAD, TAIL} : l[x].next = m[x].next /\ l[x].prev = m[x].prev
  PROVE  IsChain(l, S) /\ ListOf(l) = ListOf(m)
<1>1. PICK n \in Nat : \E c \in [0..(n + 1) -> Nodes] : Chain(m, S, n, c)
  BY DEF IsChain
<1>2. PICK c \in [0..(n + 1) -> Nodes] : Chain(m, S, n, c)
  BY <1>1
<1>3. \A i \in 0..(n + 1) : c[i] \in S \cup {HEAD, TAIL}
  BY <1>2 DEF Chain
<1>4. Chain(l, S, n, c)
  <2>1. ASSUME NEW i \in 0..n
        PROVE  l[c[i]].next = c[i + 1] /\ l[c[i + 1]].prev = c[i]
    <3>1. i \in 0..(n + 1) /\ i + 1 \in 0..(n + 1)
      BY <1>1
    <3>2. m[c[i]].next = c[i + 1] /\ m[c[i + 1]].prev = c[i]
      BY <1>2 DEF Chain
    <3> QED BY <1>3, <3>1, <3>2
  <2> QED BY <1>2, <2>1 DEF Chain
<1>5. ListOf(l) = [i \in 1..n |-> c[i]] /\ ListOf(m) = [i \in 1..n |-> c[i]]
  BY <1>2, <1>4, ListOfChain
<1> QED BY <1>4, <1>5 DEF IsChain

(* The same list of nodes with the same keys and sizes, the same objects.  *)
LEMMA SameObjects ==
  ASSUME NEW m, NEW S, IsChain(m, S), NEW l, ListOf(l) = ListOf(m),
         \A x \in S : l[x].key = m[x].key /\ l[x].node_size = m[x].node_size
  PROVE  ObjectsOf(l) = ObjectsOf(m)
<1>1. PICK n \in Nat : \E c \in [0..(n + 1) -> Nodes] : Chain(m, S, n, c)
  BY DEF IsChain
<1>2. PICK c \in [0..(n + 1) -> Nodes] : Chain(m, S, n, c)
  BY <1>1
<1>3. ListOf(m) = [i \in 1..n |-> c[i]]
  BY <1>2, ListOfChain
<1>4. \A i \in DOMAIN ListOf(m) : ListOf(m)[i] \in S
  BY <1>2, <1>3 DEF Chain
<1> QED BY <1>4 DEF ObjectsOf

(* A node is taken off the list, which stays one without it.               *)
LEMMA UnlinkResult ==
  ASSUME NEW m \in [Nodes -> Node], NEW S, IsChain(m, S), NEW x \in S,
         NEW l, l = Unlink(m, x)
  PROVE  /\ l \in [Nodes -> Node]
         /\ IsChain(l, S \ {x})
         /\ SameFields(m, l, Nodes)
         /\ TakenOff(m, x, l)
<1>1. PICK n \in Nat : \E c \in [0..(n + 1) -> Nodes] : Chain(m, S, n, c)
  BY DEF IsChain
<1>2. PICK c \in [0..(n + 1) -> Nodes] : Chain(m, S, n, c)
  BY <1>1
<1>3. PICK k \in 1..n : c[k] = x
  BY <1>2 DEF Chain
<1>4. m[x].next = c[k + 1] /\ m[x].prev = c[k - 1]
  <2>1. k \in 0..n /\ k - 1 \in 0..n /\ (k - 1) + 1 = k
    OBVIOUS
  <2> QED BY <1>2, <1>3, <2>1 DEF Chain
<1> DEFINE A == c[k - 1]
           B == c[k + 1]
<1>5. A \in Nodes /\ B \in Nodes /\ A # B
  BY <1>2 DEF Chain
<1>6. l = [m EXCEPT ![B].prev = A, ![A].next = B]
  BY <1>4 DEF Unlink
<1>7. l = [m EXCEPT ![B] = [m[B] EXCEPT !.prev = A], ![A] = [m[A] EXCEPT !.next = B]]
  BY <1>5, <1>6
<1> HIDE DEF A, B
<1>8. l \in [Nodes -> Node]
  <2>1. [m[B] EXCEPT !.prev = A] \in Node /\ [m[A] EXCEPT !.next = B] \in Node
    BY <1>5 DEF Node, Pointers
  <2> QED BY <1>5, <1>7, <2>1
<1>9. \A y \in Nodes : /\ l[y].key = m[y].key /\ l[y].node_size = m[y].node_size
                       /\ l[y].next = IF y = A THEN B ELSE m[y].next
                       /\ l[y].prev = IF y = B THEN A ELSE m[y].prev
  BY <1>5, <1>7 DEF Node
<1> DEFINE d == [i \in 0..((n - 1) + 1) |-> IF i < k THEN c[i] ELSE c[i + 1]]
<1>10. d \in [0..((n - 1) + 1) -> Nodes]
  OBVIOUS
<1>11. Chain(l, S \ {x}, n - 1, d)
  <2>1. d[0] = HEAD /\ d[(n - 1) + 1] = TAIL
    BY <1>2 DEF Chain
  <2>2. \A i, j \in 0..((n - 1) + 1) : d[i] = d[j] => i = j
    BY <1>2 DEF Chain
  <2>3. \A i \in 1..(n - 1) : d[i] \in S \ {x}
    BY <1>2, <1>3 DEF Chain
  <2>4. ASSUME NEW y \in S \ {x} PROVE \E i \in 1..(n - 1) : d[i] = y
    <3>1. PICK i \in 1..n : c[i] = y
      BY <1>2 DEF Chain
    <3>2. i # k
      BY <1>3, <3>1
    <3>3. CASE i < k
      <4>1. i \in 1..(n - 1) /\ d[i] = y
        BY <3>1, <3>3
      <4> HIDE DEF d
      <4> QED BY <4>1
    <3>4. CASE i > k
      <4>1. i - 1 \in 1..(n - 1) /\ d[i - 1] = y
        BY <3>1, <3>4
      <4> HIDE DEF d
      <4> QED BY <4>1
    <3>5. i < k \/ i > k
      BY <3>2
    <3> HIDE DEF d
    <3> QED BY <3>3, <3>4, <3>5
  <2>5. ASSUME NEW i \in 0..(n - 1)
        PROVE  l[d[i]].next = d[i + 1] /\ l[d[i + 1]].prev = d[i]
    <3>1. \A j \in 0..(n + 1) : (c[j] = A <=> j = k - 1) /\ (c[j] = B <=> j = k + 1)
      <4>1. \A p, q \in 0..(n + 1) : c[p] = c[q] => p = q
        BY <1>2 DEF Chain
      <4>2. k - 1 \in 0..(n + 1) /\ k + 1 \in 0..(n + 1)
        OBVIOUS
      <4> HIDE DEF d
      <4> QED BY <4>1, <4>2 DEF A, B
    <3>2. \A j \in 0..n : m[c[j]].next = c[j + 1] /\ m[c[j + 1]].prev = c[j]
      BY <1>2 DEF Chain
    <3>3. CASE i < k - 1
      <4>1. d[i] = c[i] /\ d[i + 1] = c[i + 1] /\ i \in 0..n /\ i + 1 \in 0..(n + 1)
        BY <3>3
      <4> HIDE DEF d
      <4> QED BY <1>9, <3>1, <3>2, <3>3, <4>1
    <3>4. CASE i = k - 1
      <4>1. d[i] = A /\ d[i + 1] = B
        BY <3>4 DEF A, B
      <4> HIDE DEF d
      <4> QED BY <1>5, <1>9, <4>1
    <3>5. CASE i > k - 1
      <4>1. d[i] = c[i + 1] /\ d[i + 1] = c[(i + 1) + 1] /\ i + 1 \in 0..n /\ (i + 1) + 1 \in 0..(n + 1)
        BY <3>5
      <4> HIDE DEF d
      <4> QED BY <1>9, <3>1, <3>2, <3>5, <4>1
    <3> QED BY <3>3, <3>4, <3>5
  <2> HIDE DEF d
  <2> QED BY <2>1, <2>2, <2>3, <2>4, <2>5 DEF Chain
<1>12. IsChain(l, S \ {x})
  <2>1. n - 1 \in Nat
    OBVIOUS
  <2> HIDE DEF d
  <2> QED BY <1>10, <1>11, <2>1 DEF IsChain
<1>13. ASSUME NEW i \in 1..Len(ListOf(m)), ListOf(m)[i] = x
       PROVE  ObjectsOf(l) = RemoveAt(ObjectsOf(m), i)
  <2>1. /\ ListOf(m) = [j \in 1..n |-> c[j]] /\ Len(ListOf(m)) = n
        /\ ObjectsOf(m) = [j \in 1..n |-> ObjectAt(m, c[j])]
        /\ ObjectsOf(m) \in Seq(Object) /\ Len(ObjectsOf(m)) = n
    <3>1. /\ m \in [Nodes -> Node] /\ n \in Nat
          /\ c \in [0..(n + 1) -> Nodes] /\ Chain(m, S, n, c)
      BY <1>2
    <3> QED BY ONLY <3>1, ObjectsOfChain
  <2>2. i = k
    BY <1>2, <1>3, <1>13, <2>1 DEF Chain
  <2>3. ObjectsOf(l) = [j \in 1..(n - 1) |-> ObjectAt(l, d[j])]
    <3>1. n - 1 \in Nat
      OBVIOUS
    <3> HIDE DEF d
    <3>2. /\ ListOf(l) = [j \in 1..(n - 1) |-> d[j]]
          /\ ObjectsOf(l) = [j \in 1..(n - 1) |-> ObjectAt(l, d[j])]
          /\ ObjectsOf(l) \in Seq(Object)
          /\ Len(ListOf(l)) = n - 1 /\ Len(ObjectsOf(l)) = n - 1
      BY ONLY <1>8, <1>10, <1>11, <3>1, ObjectsOfChain
    <3> QED BY <3>2
  <2>4. RemoveAt(ObjectsOf(m), k)
          = [j \in 1..(n - 1) |-> IF j < k THEN ObjectsOf(m)[j] ELSE ObjectsOf(m)[j + 1]]
    <3>1. ObjectsOf(m) \in Seq(Object) /\ k \in 1..Len(ObjectsOf(m))
      BY <2>1
    <3>2. RemoveAt(ObjectsOf(m), k)
            = [j \in 1..(Len(ObjectsOf(m)) - 1) |->
                 IF j < k THEN ObjectsOf(m)[j] ELSE ObjectsOf(m)[j + 1]]
      BY ONLY <3>1, RemoveAtIs
    <3> QED BY <2>1, <3>2
  <2>5. ASSUME NEW j \in 1..(n - 1)
        PROVE  ObjectAt(l, d[j]) = IF j < k THEN ObjectsOf(m)[j] ELSE ObjectsOf(m)[j + 1]
    <3>1. d[j] = (IF j < k THEN c[j] ELSE c[j + 1]) /\ d[j] \in Nodes
      OBVIOUS
    <3>2. ObjectsOf(m)[j] = ObjectAt(m, c[j]) /\ ObjectsOf(m)[j + 1] = ObjectAt(m, c[j + 1])
      BY <2>1
    <3> HIDE DEF d
    <3>3. ObjectAt(l, d[j]) = ObjectAt(m, d[j])
      BY <1>9, <3>1 DEF ObjectAt
    <3> QED BY <3>1, <3>2, <3>3
  <2> HIDE DEF d
  <2> QED BY <2>2, <2>3, <2>4, <2>5
<1> QED BY <1>8, <1>9, <1>12, <1>13 DEF TakenOff, SameFields

(* A node that is not on the list is put in front of it.                   *)
LEMMA PushFrontResult ==
  ASSUME NEW m \in [Nodes -> Node], NEW S, IsChain(m, S), NEW x \in Slots \ S,
         NEW l, l = PushFront(m, x)
  PROVE  /\ l \in [Nodes -> Node]
         /\ IsChain(l, S \cup {x})
         /\ SameFields(m, l, Nodes)
         /\ ObjectsOf(l) = <<ObjectAt(m, x)>> \o ObjectsOf(m)
<1>1. PICK n \in Nat : \E c \in [0..(n + 1) -> Nodes] : Chain(m, S, n, c)
  BY DEF IsChain
<1>2. PICK c \in [0..(n + 1) -> Nodes] : Chain(m, S, n, c)
  BY <1>1
<1> DEFINE first == c[1]
<1>3. x \in Nodes /\ HEAD \in Nodes /\ x # HEAD /\ x # TAIL
  BY CacheListAssumption DEF Nodes
<1>4. first = m[HEAD].next /\ first \in Nodes /\ first # HEAD /\ first # x
  <2>1. first \in S \/ first = TAIL
    BY <1>2 DEF Chain
  <2>2. HEAD \notin S
    BY <1>2, ChainNodes, CacheListAssumption
  <2>3. 0 \in 0..n /\ 0 + 1 = 1
    OBVIOUS
  <2>4. first = m[HEAD].next
    BY <1>2, <2>3 DEF Chain
  <2> QED BY <1>3, <2>1, <2>2, <2>4, CacheListAssumption
<1> HIDE DEF first
<1>5. l = [m EXCEPT ![first] = [m[first] EXCEPT !.prev = x],
                    ![x] = [m[x] EXCEPT !.next = first, !.prev = HEAD],
                    ![HEAD] = [m[HEAD] EXCEPT !.next = x]]
  BY <1>3, <1>4 DEF PushFront
<1>6. l \in [Nodes -> Node]
  <2>1. /\ [m[first] EXCEPT !.prev = x] \in Node
        /\ [m[HEAD] EXCEPT !.next = x] \in Node
    <3>1. m[first] \in Node /\ m[HEAD] \in Node /\ x \in Pointers
      BY <1>3, <1>4 DEF Pointers
    <3> QED BY ONLY <3>1 DEF Node
  <2>2. [m[x] EXCEPT !.next = first, !.prev = HEAD] \in Node
    <3>1. m[x] \in Node /\ first \in Pointers /\ HEAD \in Pointers
      BY <1>3, <1>4 DEF Pointers
    <3> QED BY ONLY <3>1 DEF Node
  <2> QED BY <1>3, <1>4, <1>5, <2>1, <2>2
<1>7. \A y \in Nodes : /\ l[y].key = m[y].key /\ l[y].node_size = m[y].node_size
                       /\ l[y].next = IF y = HEAD THEN x ELSE IF y = x THEN first ELSE m[y].next
                       /\ l[y].prev = IF y = x THEN HEAD ELSE IF y = first THEN x ELSE m[y].prev
  <2>1. /\ l[HEAD]  = [m[HEAD] EXCEPT !.next = x]
        /\ l[x]     = [m[x] EXCEPT !.next = first, !.prev = HEAD]
        /\ l[first] = [m[first] EXCEPT !.prev = x]
    BY <1>3, <1>4, <1>5
  <2>2. \A y \in Nodes \ {HEAD, x, first} : l[y] = m[y]
    BY <1>5
  <2>3. m[HEAD] \in Node /\ m[x] \in Node /\ m[first] \in Node
    BY <1>3, <1>4
  <2>4. l[HEAD].key = m[HEAD].key /\ l[HEAD].node_size = m[HEAD].node_size
        /\ l[HEAD].next = x /\ l[HEAD].prev = m[HEAD].prev
    BY <2>1, <2>3 DEF Node
  <2>5. l[x].key = m[x].key /\ l[x].node_size = m[x].node_size
        /\ l[x].next = first /\ l[x].prev = HEAD
    BY <2>1, <2>3 DEF Node
  <2>6. l[first].key = m[first].key /\ l[first].node_size = m[first].node_size
        /\ l[first].next = m[first].next /\ l[first].prev = x
    BY <2>1, <2>3 DEF Node
  <2> QED BY <1>3, <1>4, <2>2, <2>4, <2>5, <2>6
<1> DEFINE d == [i \in 0..((n + 1) + 1) |-> IF i = 0 THEN HEAD ELSE IF i = 1 THEN x ELSE c[i - 1]]
<1>8. d \in [0..((n + 1) + 1) -> Nodes]
  BY <1>3
<1>9. \A i \in 0..(n + 1) : c[i] # x
  BY <1>2, <1>3 DEF Chain
<1>10. Chain(l, S \cup {x}, n + 1, d)
  <2>1. d[0] = HEAD /\ d[(n + 1) + 1] = TAIL
    BY <1>2 DEF Chain
  <2>2. \A i, j \in 0..((n + 1) + 1) : d[i] = d[j] => i = j
    <3>1. \A i, j \in 0..(n + 1) : c[i] = c[j] => i = j
      BY <1>2 DEF Chain
    <3>2. c[0] = HEAD
      BY <1>2 DEF Chain
    <3>3. \A i \in 0..((n + 1) + 1) : i > 1 => i - 1 \in 1..(n + 1) /\ d[i] = c[i - 1]
      OBVIOUS
    <3>4. \A i \in 0..((n + 1) + 1) : i > 1 => d[i] # x /\ d[i] # HEAD
      BY <1>9, <3>1, <3>2, <3>3
    <3>5. d[0] = HEAD /\ d[1] = x
      OBVIOUS
    <3> HIDE DEF d
    <3> QED BY <1>3, <3>1, <3>3, <3>4, <3>5
  <2>3. \A i \in 1..(n + 1) : d[i] \in S \cup {x}
    BY <1>2 DEF Chain
  <2>4. ASSUME NEW y \in S \cup {x} PROVE \E i \in 1..(n + 1) : d[i] = y
    <3>1. CASE y = x
      <4>1. 1 \in 1..(n + 1) /\ d[1] = x
        OBVIOUS
      <4> HIDE DEF d
      <4> QED BY <3>1, <4>1
    <3>2. CASE y # x
      <4>1. PICK i \in 1..n : c[i] = y
        BY <1>2, <3>2 DEF Chain
      <4>2. i + 1 \in 1..(n + 1) /\ d[i + 1] = y
        BY <4>1
      <4> HIDE DEF d
      <4> QED BY <4>2
    <3> QED BY <3>1, <3>2
  <2>5. ASSUME NEW i \in 0..(n + 1)
        PROVE  l[d[i]].next = d[i + 1] /\ l[d[i + 1]].prev = d[i]
    <3>1. \A j \in 0..(n + 1) : (c[j] = HEAD <=> j = 0) /\ (c[j] = first <=> j = 1)
      BY <1>2 DEF Chain, first
    <3>2. \A j \in 0..n : m[c[j]].next = c[j + 1] /\ m[c[j + 1]].prev = c[j]
      BY <1>2 DEF Chain
    <3>3. CASE i = 0
      <4>1. d[i] = HEAD /\ d[i + 1] = x
        BY <3>3
      <4> HIDE DEF d
      <4> QED BY <1>3, <1>7, <4>1
    <3>4. CASE i = 1
      <4>1. d[i] = x /\ d[i + 1] = first
        BY <3>4 DEF first
      <4> HIDE DEF d
      <4> QED BY <1>3, <1>4, <1>7, <4>1
    <3>5. CASE i > 1
      <4>1. d[i] = c[i - 1] /\ d[i + 1] = c[(i - 1) + 1] /\ i - 1 \in 1..n /\ (i - 1) + 1 \in 2..(n + 1)
        BY <3>5
      <4> HIDE DEF d
      <4> QED BY <1>7, <1>9, <3>1, <3>2, <3>5, <4>1
    <3> QED BY <3>3, <3>4, <3>5
  <2> HIDE DEF d
  <2> QED BY <2>1, <2>2, <2>3, <2>4, <2>5 DEF Chain
<1>11. IsChain(l, S \cup {x})
  <2>1. n + 1 \in Nat
    OBVIOUS
  <2> HIDE DEF d
  <2> QED BY <1>8, <1>10, <2>1 DEF IsChain
<1>12. ObjectsOf(l) = <<ObjectAt(m, x)>> \o ObjectsOf(m)
  <2>1. /\ ObjectsOf(m) = [j \in 1..n |-> ObjectAt(m, c[j])]
        /\ ObjectsOf(m) \in Seq(Object) /\ Len(ObjectsOf(m)) = n
    BY <1>2, ObjectsOfChain
  <2>2. ObjectsOf(l) = [j \in 1..(n + 1) |-> ObjectAt(l, d[j])]
    <3>1. n + 1 \in Nat
      OBVIOUS
    <3> HIDE DEF d
    <3>2. /\ ListOf(l) = [j \in 1..(n + 1) |-> d[j]]
          /\ ObjectsOf(l) = [j \in 1..(n + 1) |-> ObjectAt(l, d[j])]
          /\ ObjectsOf(l) \in Seq(Object)
          /\ Len(ListOf(l)) = n + 1 /\ Len(ObjectsOf(l)) = n + 1
      BY ONLY <1>6, <1>8, <1>10, <3>1, ObjectsOfChain
    <3> QED BY <3>2
  <2>3. <<ObjectAt(m, x)>> \o ObjectsOf(m)
          = [j \in 1..(n + 1) |-> IF j = 1 THEN ObjectAt(m, x) ELSE ObjectsOf(m)[j - 1]]
    <3>1. ObjectAt(m, x) \in Object
      BY <1>3 DEF ObjectAt, Object, Node
    <3> QED BY <2>1, <3>1, InFrontIs
  <2>4. ASSUME NEW j \in 1..(n + 1)
        PROVE  ObjectAt(l, d[j]) = IF j = 1 THEN ObjectAt(m, x) ELSE ObjectsOf(m)[j - 1]
    <3>1. d[j] = (IF j = 1 THEN x ELSE c[j - 1]) /\ d[j] \in Nodes
      BY <1>3
    <3>2. j # 1 => ObjectsOf(m)[j - 1] = ObjectAt(m, c[j - 1])
      BY <2>1
    <3> HIDE DEF d
    <3>3. ObjectAt(l, d[j]) = ObjectAt(m, d[j])
      BY <1>7, <3>1 DEF ObjectAt
    <3> QED BY <3>1, <3>2, <3>3
  <2> HIDE DEF d
  <2> QED BY <2>2, <2>3, <2>4
<1> QED BY <1>6, <1>7, <1>11, <1>12 DEF SameFields

(* A node is taken off the list and freed.                                 *)
LEMMA DeleteNodeResult ==
  ASSUME NEW m \in [Nodes -> Node], NEW S, IsChain(m, S), NEW x \in S,
         NEW l, l = delete_node(m, x)
  PROVE  /\ l \in [Nodes -> Node]
         /\ IsChain(l, S \ {x})
         /\ SameFields(m, l, Nodes \ {x})
         /\ TakenOff(m, x, l)
<1>0. PICK u : u = Unlink(m, x)
  OBVIOUS
<1>1. /\ u \in [Nodes -> Node]
      /\ IsChain(u, S \ {x})
      /\ SameFields(m, u, Nodes)
      /\ TakenOff(m, x, u)
  BY <1>0, UnlinkResult
<1>2. l = [u EXCEPT ![x] = create_empty_node]
  BY <1>0 DEF delete_node
<1>3. S \in SUBSET Slots
  BY ChainNodes DEF IsChain
<1>4. l \in [Nodes -> Node]
  <2>1. create_empty_node \in Node
    BY DEF create_empty_node, Node, Pointers
  <2> QED BY <1>1, <1>2, <2>1
<1>5. \A y \in Nodes \ {x} : l[y] = u[y]
  BY <1>1, <1>2
<1>6. IsChain(l, S \ {x}) /\ ListOf(l) = ListOf(u)
  <2>1. (S \ {x}) \cup {HEAD, TAIL} \subseteq Nodes \ {x}
    BY <1>3, CacheListAssumption DEF Nodes
  <2> QED BY <1>1, <1>5, <2>1, SameLinks
<1>7. ObjectsOf(l) = ObjectsOf(u)
  <2>1. \A y \in S \ {x} : l[y].key = u[y].key /\ l[y].node_size = u[y].node_size
    BY <1>3, <1>5 DEF Nodes
  <2> QED BY <1>1, <1>6, <2>1, SameObjects
<1> QED BY <1>1, <1>4, <1>5, <1>6, <1>7 DEF TakenOff, SameFields

(* The node before TAIL is the last of the list, and deleting it leaves    *)
(* the one before it there.                                                *)
LEMMA LastNode ==
  ASSUME NEW m \in [Nodes -> Node], NEW S, IsChain(m, S), S # {}
  PROVE  /\ m[TAIL].prev \in S
         /\ delete_node(m, m[TAIL].prev)[TAIL].prev = m[m[TAIL].prev].prev
         /\ Len(ListOf(m)) \in Nat \ {0} /\ m[TAIL].prev = ListOf(m)[Len(ListOf(m))]
<1>1. PICK n \in Nat : \E c \in [0..(n + 1) -> Nodes] : Chain(m, S, n, c)
  BY DEF IsChain
<1>2. PICK c \in [0..(n + 1) -> Nodes] : Chain(m, S, n, c)
  BY <1>1
<1>3. n \in 1..n
  BY <1>2 DEF Chain
<1> DEFINE x == m[TAIL].prev
<1>4. x = c[n] /\ x \in S /\ m[x].next = TAIL /\ m[x].prev = c[n - 1] /\ c[n - 1] # TAIL
  <2>1. n \in 0..n /\ n - 1 \in 0..n /\ (n - 1) + 1 = n
    BY <1>3
  <2> QED BY <1>2, <1>3, <2>1 DEF Chain
<1>5. S \in SUBSET Slots /\ TAIL \in Nodes
  BY <1>2, ChainNodes DEF Nodes
<1>6. TAIL # x /\ x \in Nodes
  BY <1>4, <1>5, CacheListAssumption DEF Nodes
<1> HIDE DEF x
<1>7. delete_node(m, x)[TAIL] = Unlink(m, x)[TAIL]
  BY <1>5, <1>6 DEF delete_node, Unlink
<1>8. Unlink(m, x) = [m EXCEPT ![TAIL].prev = m[x].prev, ![c[n - 1]].next = TAIL]
  BY <1>4 DEF Unlink
<1>9. Unlink(m, x)[TAIL].prev = m[x].prev
  BY <1>4, <1>5, <1>8 DEF Node
<1>10. Len(ListOf(m)) = n /\ ListOf(m)[n] = c[n]
  BY <1>2, <1>3, ObjectsOfChain
<1> QED BY <1>3, <1>4, <1>7, <1>9, <1>10 DEF x

-----------------------------------------------------------------------------
(* The sizes of the objects, added up along the list. *)

Total(s) == FoldSeq(LAMBDA o, sum : o.size + sum, 0, s)

(* The order in which they are added does not matter.                      *)
LEMMA TotalAdds ==
  ASSUME NEW s \in Seq(Object), NEW m, \A i \in DOMAIN s : m[i].node_size = s[i].size
  PROVE  Total(s) = SizeOf(m, DOMAIN s)
<1> DEFINE D == DOMAIN s
           Adds(f) == f = [T \in SUBSET D |-> IF T = {} THEN 0 ELSE s[Some(T)].size + f[T \ {Some(T)}]]
<1>1. IsFiniteSet(D) /\ \A i \in D : m[i].node_size \in Nat
  <2>1. D = 1..Len(s) /\ Len(s) \in Nat
    OBVIOUS
  <2>2. IsFiniteSet(D)
    BY <2>1, FS_Interval
  <2>3. \A i \in D : s[i] \in Object
    BY <2>1
  <2>4. \A i \in D : s[i].size \in Nat
    BY <2>3 DEF Object
  <2> QED BY <2>2, <2>4
<1>2. Total(s) = (CHOOSE f : Adds(f))[D]
  BY DEF Total, FoldSeq, FoldFunction, FoldFunctionOnSet, MapThenFoldSet, Some
<1>3. SizeOf(m, D) = (CHOOSE f : AddsSomeOf(m, D, f))[D]
  BY DEF SizeOf, MapThenSumSet, MapThenFoldSet, Some, AddsSomeOf
<1>4. \A f : Adds(f) <=> AddsSomeOf(m, D, f)
  <2>1. \A T \in SUBSET D : T # {} => m[Some(T)].node_size = s[Some(T)].size
    BY DEF Some
  <2> QED BY <2>1 DEF AddsSomeOf
<1>5. (CHOOSE f : Adds(f)) = (CHOOSE f : AddsSomeOf(m, D, f))
  <2> HIDE DEF Adds
  <2> QED BY <1>4
<1> QED BY <1>2, <1>3, <1>5

(* What the objects of a list take is what its nodes take.                 *)
LEMMA TotalIsSizeOf ==
  ASSUME NEW m \in [Nodes -> Node], NEW S, IsChain(m, S)
  PROVE  Total(ObjectsOf(m)) = SizeOf(m, S)
<1>1. PICK n \in Nat : \E c \in [0..(n + 1) -> Nodes] : Chain(m, S, n, c)
  BY DEF IsChain
<1>2. PICK c \in [0..(n + 1) -> Nodes] : Chain(m, S, n, c)
  BY <1>1
<1>0. PICK l : l = [i \in 1..n |-> [node_size |-> m[c[i]].node_size]]
  OBVIOUS
<1> DEFINE Upto(k) == {c[i] : i \in 1..k}
<1>3. Total(ObjectsOf(m)) = SizeOf(l, 1..n)
  <2>1. /\ ObjectsOf(m) = [i \in 1..n |-> ObjectAt(m, c[i])]
        /\ ObjectsOf(m) \in Seq(Object)
    BY <1>2, ObjectsOfChain
  <2>2. DOMAIN ObjectsOf(m) = 1..n /\ \A i \in 1..n : l[i].node_size = ObjectsOf(m)[i].size
    BY <1>0, <2>1 DEF ObjectAt
  <2> QED BY <2>1, <2>2, TotalAdds
<1>4. \A i \in 1..n : m[c[i]].node_size \in Nat /\ l[i].node_size = m[c[i]].node_size
  BY <1>0 DEF Node
<1>5. ASSUME NEW k \in 1..n
      PROVE  /\ SizeOf(l, 1..k) = SizeOf(l, 1..(k - 1)) + l[k].node_size
             /\ SizeOf(m, Upto(k)) = SizeOf(m, Upto(k - 1)) + m[c[k]].node_size
  <2>1. (1..k) \ {k} = 1..(k - 1) /\ k \in 1..k
    OBVIOUS
  <2>2. Upto(k) \ {c[k]} = Upto(k - 1) /\ c[k] \in Upto(k)
    <3>1. \A i \in 1..n : c[i] = c[k] => i = k
      BY <1>2 DEF Chain
    <3> QED BY <3>1
  <2>3. IsFiniteSet(1..k) /\ IsFiniteSet(Upto(k))
    <3>1. S \in SUBSET Slots /\ IsFiniteSet(S)
      BY <1>2, ChainNodes
    <3>2. Upto(k) \subseteq S
      BY <1>2 DEF Chain
    <3>3. IsFiniteSet(1..k)
      BY FS_Interval
    <3> HIDE DEF Upto
    <3> QED BY <3>1, <3>2, <3>3, FS_Subset
  <2>4. /\ \A i \in 1..k : l[i].node_size \in Nat
        /\ \A y \in Upto(k) : m[y].node_size \in Nat
    <3>1. \A i \in 1..k : i \in 1..n
      OBVIOUS
    <3> QED BY ONLY <1>4, <3>1
  <2> DEFINE I == 1..k
             J == Upto(k)
             y == c[k]
  <2>5. /\ IsFiniteSet(I) /\ (\A i \in I : l[i].node_size \in Nat)
        /\ IsFiniteSet(J) /\ (\A i \in J : m[i].node_size \in Nat)
        /\ k \in I /\ y \in J
    BY <2>1, <2>2, <2>3, <2>4
  <2> HIDE DEF I, J, y, Upto
  <2>6. \A x \in I : SizeOf(l, I) = SizeOf(l, I \ {x}) + l[x].node_size
    BY <2>5, SizeOfOneMore
  <2>7. \A x \in J : SizeOf(m, J) = SizeOf(m, J \ {x}) + m[x].node_size
    BY <2>5, SizeOfOneMore
  <2> QED BY <2>1, <2>2, <2>5, <2>6, <2>7 DEF I, J, y
<1> DEFINE Bad == {k \in 0..n : SizeOf(l, 1..k) # SizeOf(m, Upto(k))}
<1>6. Bad = {}
  <2>0. SUFFICES ASSUME Bad # {} PROVE FALSE
    OBVIOUS
  <2>1. PICK k \in Bad : \A j \in Bad : k <= j
    <3>1. Bad \in SUBSET Nat
      OBVIOUS
    <3> HIDE DEF Bad
    <3> QED BY <2>0, <3>1, LeastNat
  <2>2. CASE k = 0
    <3>1. Upto(k) = {} /\ 1..k = {}
      BY <2>2
    <3> QED BY <2>1, <3>1, SizeOfNone
  <2>3. CASE k # 0
    <3>1. k \in 1..n /\ k - 1 \in 0..n /\ k - 1 \notin Bad
      BY <2>1, <2>3
    <3>2. SizeOf(l, 1..(k - 1)) = SizeOf(m, Upto(k - 1))
      BY <3>1
    <3> QED BY <1>4, <1>5, <2>1, <3>1, <3>2
  <2> QED BY <2>2, <2>3
<1>7. SizeOf(l, 1..n) = SizeOf(m, Upto(n))
  <2>1. n \in 0..n
    OBVIOUS
  <2> HIDE DEF Upto
  <2> QED BY <1>6, <2>1
<1>8. Upto(n) = S
  BY <1>2 DEF Chain
<1> QED BY <1>3, <1>7, <1>8
=============================================================================
