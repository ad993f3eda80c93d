---------------------------- MODULE MallocProofs ----------------------------
(***************************************************************************)
(* The allocator, for every size of the memory, every chunk, every number  *)
(* of lists and any requests that do not wrap: the tags agree, the lists   *)
(* hold exactly the free blocks, the program's payloads stay, and every    *)
(* call is a step of Segments.                                             *)
(***************************************************************************)
EXTENDS MallocProperties, TLAPS, FiniteSetTheorems, SequenceTheorems, WellFoundedInduction

(* What the proofs say of a memory and a set B of blocks in it.  Words     *)
(* that no block has written are the program's.                            *)
Memory == [0..MaxHeap - 1 -> Int]
HeapType(h) == h \in [mem : Memory, seg_list : [Lists -> Nat], brk : 2..MaxHeap]

(* The blocks lie side by side from the prologue to the epilogue.          *)
Prologue(mem) == extract_size(mem[0]) = 0 /\ extract_alloc(mem[0])
Tiled(mem, brk, B) ==
  /\ Prologue(mem)
  /\ brk \in 2..MaxHeap /\ B \subseteq 1..(brk - 2)
  /\ \A b \in B \cup {brk - 1} : mem[b] \in Nat
  /\ \A b \in B : get_size(mem, b) >= 2 /\ find_next(mem, b) \in B \cup {brk - 1}
  /\ \A b, c \in B : b < c => find_next(mem, b) <= c
  /\ 1 \in B \cup {brk - 1}
  /\ get_size(mem, brk - 1) = 0 /\ get_alloc(mem, brk - 1)

(* What the header after b says of b, and what the footer of b says.       *)
Told(mem, b) ==
  /\ get_prev_alloc(mem, find_next(mem, b)) = get_alloc(mem, b)
  /\ ~get_alloc(mem, b) => get_prev_mini(mem, find_next(mem, b)) = (get_size(mem, b) = 2)
SaysFree(word, size) == extract_size(word) = size /\ ~extract_alloc(word)
Footed(mem, b) ==
  ~get_alloc(mem, b) /\ get_size(mem, b) # 2 =>
    SaysFree(mem[header_to_footer(mem, b)], get_size(mem, b))

(* The tags agree, except those that speak of a block of X.                *)
Tagged(mem, B, X) ==
  /\ get_prev_alloc(mem, 1)
  /\ \A b \in B \ X : Told(mem, b) /\ Footed(mem, b)

(* No two free blocks are neighbours, except those of X.                   *)
Merged(mem, B, X) ==
  \A b \in B : ~get_alloc(mem, b) /\ b \notin X /\ find_next(mem, b) \notin X =>
    get_alloc(mem, find_next(mem, b))

FreeIn(mem, B) == {b \in B : ~get_alloc(mem, b)}

(* A list as a numbering c of its n blocks.                                *)
Different(n, c) == \A k, m \in 1..n : c[k] = c[m] => k = m
FirstOf(n, c)   == IF n = 0 THEN NULL ELSE c[1]
Members(n, c)   == {c[k] : k \in 1..n}
Chained(mem, head, i, n, c) ==
  /\ Different(n, c) /\ head = FirstOf(n, c)
  /\ \A k \in 1..n : mem[next(c[k])] = IF k = n THEN NULL ELSE c[k + 1]
  /\ i # 0 => \A k \in 1..n : mem[prev(c[k])] = IF k = 1 THEN NULL ELSE c[k - 1]

(* The lists hold the blocks of F, by their sizes.                         *)
Class(mem, F, i) == {b \in F : get_index(get_size(mem, b)) = i}
Holds(mem, head, i, F) ==
  \E n \in Nat : \E c \in [1..n -> F] :
    Chained(mem, head, i, n, c) /\ Members(n, c) = Class(mem, F, i)
Listed(mem, seg, F) == \A i \in Lists : Holds(mem, seg[i], i, F)

Good(h, B) ==
  /\ HeapType(h)
  /\ Tiled(h.mem, h.brk, B) /\ Tagged(h.mem, B, {}) /\ Merged(h.mem, B, {})
  /\ Listed(h.mem, h.seg_list, FreeIn(h.mem, B))

-----------------------------------------------------------------------------
(* Words. *)

(* A set of naturals has a least element.                                  *)
LEMMA LeastNat ==
  ASSUME NEW S \in SUBSET Nat, S # {}
  PROVE  \E m \in S : \A k \in S : m <= k
<1> DEFINE R == {ss \in Nat \X Nat : ss[1] < ss[2]}
<1>1. IsWellFoundedOn(R, Nat)
  BY NatLessThanWellFounded DEF OpToRel
<1>2. PICK m \in S : \A k \in S : ~(<<k, m>> \in R)
  BY <1>1, WFMin, IsWellFoundedOnSubset
<1>3. ASSUME NEW k \in S PROVE m <= k
  <2>1. <<k, m>> \in Nat \X Nat /\ <<k, m>>[1] = k /\ <<k, m>>[2] = m
    OBVIOUS
  <2>2. ~(k < m)
    BY <1>2, <2>1
  <2> QED BY <2>2
<1> QED BY <1>3

(* A tag is read as it was written (pack, extract_size).                   *)
LEMMA Packed ==
  ASSUME NEW s \in Nat, s % 2 = 0, NEW a \in BOOLEAN, NEW p \in BOOLEAN, NEW m \in BOOLEAN
  PROVE  /\ pack(s, a, p, m) \in Nat
         /\ extract_size(pack(s, a, p, m)) = s
         /\ extract_alloc(pack(s, a, p, m)) <=> a
         /\ (pack(s, a, p, m) \div 2) % 2 = 1 <=> p
         /\ (pack(s, a, p, m) \div 4) % 2 = 1 <=> m
<1>1. PICK k \in Nat : s = 2 * k
  OBVIOUS
<1>2. /\ Bit(a) \in {0, 1} /\ (Bit(a) = 1 <=> a)
      /\ Bit(p) \in {0, 1} /\ (Bit(p) = 1 <=> p)
      /\ Bit(m) \in {0, 1} /\ (Bit(m) = 1 <=> m)
  BY DEF Bit
<1>3. PICK x \in {0, 1}, y \in {0, 1}, z \in {0, 1} : x = Bit(a) /\ y = Bit(p) /\ z = Bit(m)
  BY <1>2
<1>4. PICK w : w = pack(s, a, p, m)
  OBVIOUS
<1>5. w = 16 * k + x + 2 * y + 4 * z
  BY <1>1, <1>3, <1>4 DEF pack
<1>6. w \in Nat /\ w \div 16 = k /\ w % 2 = x /\ (w \div 2) % 2 = y /\ (w \div 4) % 2 = z
  <2>1. w \in Nat /\ w \div 16 = k /\ w % 2 = x
    BY ONLY <1>5, x \in {0, 1}, y \in {0, 1}, z \in {0, 1}, k \in Nat
  <2>2. w \div 2 = 8 * k + y + 2 * z
    BY ONLY <1>5, x \in {0, 1}, y \in {0, 1}, z \in {0, 1}, k \in Nat
  <2>3. w \div 4 = 4 * k + z
    BY ONLY <1>5, x \in {0, 1}, y \in {0, 1}, z \in {0, 1}, k \in Nat
  <2> QED BY ONLY <2>1, <2>2, <2>3, x \in {0, 1}, y \in {0, 1}, z \in {0, 1}, k \in Nat
<1>7. w \in Nat /\ extract_size(w) = s /\ (extract_alloc(w) <=> x = 1)
  BY ONLY <1>1, <1>6 DEF extract_size, extract_alloc
<1> QED BY ONLY <1>2, <1>3, <1>4, <1>6, <1>7

(* Sizes are even.                                                         *)
LEMMA Even ==
  ASSUME NEW w \in Nat
  PROVE  extract_size(w) \in Nat /\ extract_size(w) % 2 = 0
BY DEF extract_size

(* Powers of two are numbers, and grow.                                    *)
LEMMA Powers ==
  ASSUME NEW j \in Nat, NEW k \in Nat, j <= k
  PROVE  2^j \in Nat /\ 2^k \in Nat /\ 2^j <= 2^k
<1>1. ASSUME NEW i \in Nat
      PROVE  IsFiniteSet(SUBSET (1..i)) /\ Cardinality(SUBSET (1..i)) = 2^i /\ 2^i \in Nat
  <2>1. IsFiniteSet(1..i) /\ Cardinality(1..i) = i
    BY FS_Interval
  <2>2. IsFiniteSet(SUBSET (1..i)) /\ Cardinality(SUBSET (1..i)) = 2^i
    BY <2>1, FS_SUBSET
  <2> QED BY <2>2, FS_CardinalityType
<1>2. SUBSET (1..j) \in SUBSET (SUBSET (1..k))
  <2>1. 1..j \subseteq 1..k
    OBVIOUS
  <2> QED BY <2>1
<1>3. Cardinality(SUBSET (1..j)) <= Cardinality(SUBSET (1..k))
  BY <1>1, <1>2, FS_Subset
<1> QED BY <1>1, <1>3

(* A size between the first and the last list has a list of its own range. *)
LEMMA IndexFits ==
  ASSUME NEW s \in Nat, s > 2, ~(s >= dsize * 2^(list_number - 2))
  PROVE  /\ get_index(s) \in 1..(list_number - 2)
         /\ dsize * 2^(get_index(s) - 1) <= s /\ s < dsize * 2^get_index(s)
<1> DEFINE K == list_number - 2
           P(j) == dsize * 2^j
           S == {j \in 0..K : s < P(j)}
           Fits(j) == dsize * 2^(j - 1) <= s /\ s < dsize * 2^j
<1>1. K \in Nat /\ list_number \in Nat /\ list_number - 1 = K + 1
  BY HeapAssumption
<1>2. \A j \in 0..K : P(j) \in Nat
  BY <1>1, Powers DEF dsize
<1>3. K \in S
  BY <1>1, <1>2
<1>4. PICK j \in S : \A k \in S : j <= k
  <2>1. S \in SUBSET Nat /\ S # {}
    BY <1>3
  <2> HIDE DEF S
  <2> QED BY <2>1, LeastNat
<1>5. j # 0
  <2>1. P(0) = 2
    BY DEF dsize
  <2>2. s < P(j) /\ s > 2
    BY <1>4
  <2> HIDE DEF P
  <2> QED BY <2>1, <2>2
<1>6. j \in 1..K /\ Fits(j)
  <2>1. j - 1 \in 0..K /\ j - 1 \notin S
    BY <1>1, <1>4, <1>5
  <2>2. ~(s < P(j - 1)) /\ P(j - 1) \in Nat
    BY <1>2, <2>1
  <2> HIDE DEF P
  <2>3. P(j - 1) <= s /\ s < P(j)
    BY <1>4, <2>2
  <2> QED BY <1>1, <1>4, <1>5, <2>3 DEF P
<1>7. get_index(s) = CHOOSE k \in 1..K : Fits(k)
  <2>1. ~(s <= min_block_size) /\ ~(s >= dsize * 2^(list_number - 2))
    BY <1>1 DEF min_block_size, dsize
  <2> QED BY ONLY <2>1, Zenon DEF get_index
<1> HIDE DEF Fits
<1>8. get_index(s) \in 1..K /\ Fits(get_index(s))
  BY <1>6, <1>7
<1> QED BY <1>8 DEF Fits

(* get_index gives every size a list, and list 0 to the minimum blocks.    *)
LEMMA Indexed ==
  ASSUME NEW s \in Nat
  PROVE  get_index(s) \in Lists /\ (get_index(s) = 0 <=> s <= 2)
<1> DEFINE P == dsize * 2^(list_number - 2)
<1>1. list_number \in Nat /\ list_number > 1
  BY HeapAssumption
<1>2. CASE s <= 2
  BY <1>1, <1>2 DEF get_index, min_block_size, dsize, Lists
<1>3. CASE s > 2 /\ s >= P
  BY <1>1, <1>3 DEF get_index, min_block_size, dsize, Lists
<1>4. CASE s > 2 /\ ~(s >= P)
  <2>1. get_index(s) \in 1..(list_number - 2)
    BY <1>4, IndexFits
  <2>2. PICK i : i = get_index(s)
    OBVIOUS
  <2>3. i \in 0..(list_number - 1) /\ i # 0 /\ ~(s <= 2)
    BY <1>1, <1>4, <2>1, <2>2
  <2> QED BY ONLY <2>2, <2>3 DEF Lists
<1> QED BY <1>2, <1>3, <1>4

(* A larger block is in no earlier list.                                   *)
LEMMA IndexGrows ==
  ASSUME NEW a \in Nat, NEW s \in Nat, a <= s
  PROVE  get_index(a) <= get_index(s)
<1> DEFINE P == dsize * 2^(list_number - 2)
<1>1. list_number \in Nat /\ list_number > 1 /\ list_number - 2 \in Nat
  BY HeapAssumption
<1>2. P \in Nat
  BY <1>1, Powers DEF dsize
<1>3. get_index(a) \in 0..(list_number - 1) /\ get_index(s) \in 0..(list_number - 1)
  BY Indexed DEF Lists
<1> HIDE DEF P
<1>4. CASE a <= 2
  <2>1. get_index(a) = 0
    BY <1>4, Indexed
  <2> QED BY <1>1, <1>3, <2>1
<1>5. CASE s > 2 /\ s >= P
  <2>1. get_index(s) = list_number - 1
    BY <1>5 DEF get_index, min_block_size, dsize, P
  <2>2. PICK i : i = get_index(a)
    OBVIOUS
  <2> QED BY <1>1, <1>3, <2>1, <2>2
<1>6. CASE a > 2 /\ ~(s >= P)
  <2>1. PICK i, k : i = get_index(a) /\ k = get_index(s)
    OBVIOUS
  <2>2. ~(a >= P) /\ s > 2
    BY <1>2, <1>6
  <2>3. i \in 1..(list_number - 2) /\ dsize * 2^(i - 1) <= a
    BY <1>6, <2>1, <2>2, IndexFits DEF P
  <2>4. k \in 1..(list_number - 2) /\ s < dsize * 2^k
    BY <1>6, <2>1, <2>2, IndexFits DEF P
  <2>5. ASSUME k < i PROVE FALSE
    <3>1. k \in Nat /\ i - 1 \in Nat /\ k <= i - 1
      BY ONLY <1>1, <2>3, <2>4, <2>5
    <3>2. PICK x, y : x = 2^k /\ y = 2^(i - 1)
      OBVIOUS
    <3>3. x \in Nat /\ y \in Nat /\ x <= y
      BY ONLY <3>1, <3>2, Powers
    <3>4. 2 * y <= a /\ s < 2 * x
      BY <2>3, <2>4, <3>2 DEF dsize
    <3> QED BY ONLY <3>3, <3>4, a \in Nat, s \in Nat, a <= s
  <2> QED BY <1>1, <2>1, <2>3, <2>4, <2>5
<1>7. (a <= 2) \/ (s > 2 /\ s >= P) \/ (a > 2 /\ ~(s >= P))
  BY <1>2
<1> QED BY <1>4, <1>5, <1>6, <1>7

-----------------------------------------------------------------------------
(* Blocks. *)

(* Blocks that do not overlap.                                             *)
Apart(mem, F) ==
  /\ \A b \in F : /\ b \in Nat /\ b > 0 /\ get_size(mem, b) \in Nat /\ get_size(mem, b) >= 2
                  /\ get_size(mem, b) # 2 => get_size(mem, b) >= 4
                  /\ b + get_size(mem, b) <= MaxHeap - 1
  /\ \A b, c \in F : b < c => b + get_size(mem, b) <= c

LEMMA TiledApart ==
  ASSUME NEW mem, NEW brk, NEW B, Tiled(mem, brk, B)
  PROVE  /\ Apart(mem, B)
         /\ \A b \in B : /\ get_size(mem, b) % 2 = 0 /\ b + get_size(mem, b) <= brk - 1
                         /\ find_next(mem, b) = b + get_size(mem, b) /\ b <= brk - 2
         /\ brk \in Nat /\ brk >= 2 /\ brk <= MaxHeap /\ MaxHeap \in Nat
<1>1. brk \in Nat /\ brk >= 2 /\ brk <= MaxHeap /\ MaxHeap \in Nat
  BY HeapAssumption DEF Tiled
<1>2. ASSUME NEW b \in B
      PROVE  /\ b \in Nat /\ b > 0 /\ get_size(mem, b) \in Nat /\ get_size(mem, b) >= 2
             /\ get_size(mem, b) % 2 = 0 /\ b + get_size(mem, b) <= brk - 1
             /\ find_next(mem, b) = b + get_size(mem, b) /\ b <= brk - 2
  <2>1. mem[b] \in Nat /\ b \in 1..(brk - 2) /\ get_size(mem, b) >= 2
        /\ b + get_size(mem, b) \in B \cup {brk - 1} /\ B \subseteq 1..(brk - 2)
    BY <1>2 DEF Tiled, find_next
  <2>2. get_size(mem, b) \in Nat /\ get_size(mem, b) % 2 = 0
    BY <2>1, Even DEF get_size
  <2> QED BY <1>1, <2>1, <2>2 DEF find_next
<1>3. ASSUME NEW b \in B PROVE get_size(mem, b) # 2 => get_size(mem, b) >= 4
  <2>1. PICK s : s = get_size(mem, b)
    OBVIOUS
  <2>2. s \in Nat /\ s % 2 = 0 /\ s >= 2
    BY <1>2, <2>1
  <2> QED BY ONLY <2>1, <2>2
<1>4. \A b, c \in B : b < c => b + get_size(mem, b) <= c
  BY DEF Tiled, find_next
<1> QED BY <1>1, <1>2, <1>3, <1>4 DEF Apart

LEMMA ApartSubset ==
  ASSUME NEW mem, NEW F, NEW G \in SUBSET F, Apart(mem, F)
  PROVE  Apart(mem, G)
BY DEF Apart

(* The words of a block are its own.                                       *)
LEMMA OwnWords ==
  ASSUME NEW mem, NEW F, Apart(mem, F), NEW b \in F, NEW c \in F, b # c,
         NEW x \in 0..get_size(mem, b) - 1, NEW y \in 0..get_size(mem, c) - 1
  PROVE  b + x # c + y
<1>1. PICK s, t : s = get_size(mem, b) /\ t = get_size(mem, c)
  OBVIOUS
<1>2. b \in Nat /\ c \in Nat /\ s \in Nat /\ t \in Nat /\ (b < c => b + s <= c) /\ (c < b => c + t <= b)
  BY <1>1 DEF Apart
<1> QED BY ONLY <1>1, <1>2, b # c, x \in 0..get_size(mem, b) - 1, y \in 0..get_size(mem, c) - 1

(* A free list holds no more blocks than the heap has room for.            *)
LEMMA NumberedFit ==
  ASSUME NEW mem, NEW brk, NEW B, Tiled(mem, brk, B),
         NEW n \in Nat, NEW c \in [1..n -> B], Different(n, c)
  PROVE  n <= brk \div 2
<1>1. Apart(mem, B) /\ brk \in Nat /\ brk >= 2 /\ \A b \in B : b <= brk - 2
  BY TiledApart
<1>2. PICK N : N = (brk - 2) \div 2
  OBVIOUS
<1>3. N \in Nat /\ N + 1 = brk \div 2
  BY <1>1, <1>2
<1> DEFINE f == [k \in 1..n |-> c[k] \div 2]
<1>4. \A k \in 1..n : c[k] \div 2 \in 0..N
  <2> SUFFICES ASSUME NEW k \in 1..n PROVE c[k] \div 2 \in 0..N
    OBVIOUS
  <2>1. PICK b : b = c[k]
    OBVIOUS
  <2>2. b \in Nat /\ b <= brk - 2
    BY <1>1, <2>1 DEF Apart
  <2> QED BY ONLY <1>1, <1>2, <2>1, <2>2
<1>5. \A k, m \in 1..n : c[k] \div 2 = c[m] \div 2 => k = m
  <2> SUFFICES ASSUME NEW k \in 1..n, NEW m \in 1..n, c[k] \div 2 = c[m] \div 2, k # m PROVE FALSE
    OBVIOUS
  <2>1. c[k] # c[m]
    BY DEF Different
  <2>2. PICK b, d : b = c[k] /\ d = c[m]
    OBVIOUS
  <2>3. b \in Nat /\ d \in Nat /\ (b < d => b + 2 <= d) /\ (d < b => d + 2 <= b)
    <3>1. b \in B /\ d \in B
      BY <2>2
    <3>2. PICK s, t : s = get_size(mem, b) /\ t = get_size(mem, d)
      OBVIOUS
    <3>3. /\ b \in Nat /\ d \in Nat /\ s \in Nat /\ s >= 2 /\ t \in Nat /\ t >= 2
          /\ (b < d => b + s <= d) /\ (d < b => d + t <= b)
      BY <1>1, <3>1, <3>2 DEF Apart
    <3> QED BY ONLY <3>3
  <2>4. b # d /\ b \div 2 = d \div 2
    BY <2>1, <2>2
  <2> QED BY ONLY <2>3, <2>4
<1>6. f \in [1..n -> 0..N] /\ \A k, m \in 1..n : f[k] = f[m] => k = m
  BY <1>4, <1>5
<1> HIDE DEF f
<1>7. f \in Injection(1..n, 0..N)
  BY <1>6 DEF Injection, IsInjective
<1>8. IsFiniteSet(0..N) /\ Cardinality(0..N) = N + 1 /\ IsFiniteSet(1..n) /\ Cardinality(1..n) = n
  <2>1. N \in Nat
    BY <1>3
  <2> QED BY ONLY <2>1, n \in Nat, FS_Interval
<1>9. Cardinality(1..n) <= Cardinality(0..N)
  BY <1>7, <1>8, FS_Injection
<1> QED BY <1>3, <1>8, <1>9

(* FreeList walks a list from its first block to its last.                 *)
LEMMA FreeListOf ==
  ASSUME NEW h, NEW B, Tiled(h.mem, h.brk, B), NEW i, NEW n \in Nat, NEW c \in [1..n -> B],
         Chained(h.mem, h.seg_list[i], i, n, c)
  PROVE  FreeList(h, i) = c
<1> DEFINE N == h.brk \div dsize
           follow == [b \in 0..(h.brk - 2) |-> IF b = NULL THEN NULL ELSE h.mem[next(b)]]
           Step(f) == [k \in 0..N |-> IF k = 0 THEN h.seg_list[i] ELSE follow[f[k - 1]]]
           at == CHOOSE f : f = Step(f)
           g  == [k \in 0..N |-> IF k < n THEN c[k + 1] ELSE NULL]
<1>1. /\ N \in Nat /\ n <= N
      /\ \A k \in 1..n : c[k] # NULL /\ c[k] \in 0..(h.brk - 2)
  <2>1. n <= h.brk \div 2
    BY NumberedFit DEF Chained
  <2>2. h.brk \in Nat /\ h.brk >= 2 /\ Apart(h.mem, B) /\ \A b \in B : b <= h.brk - 2
    BY TiledApart
  <2>3. \A k \in 1..n : c[k] \in Nat /\ c[k] > 0 /\ c[k] <= h.brk - 2
    BY <2>2 DEF Apart
  <2> QED BY <2>1, <2>2, <2>3 DEF NULL, dsize
<1>2. FreeList(h, i) = [k \in 1..Cardinality({k \in DOMAIN at : at[k] # NULL}) |-> at[k - 1]]
  BY DEF FreeList
<1>3. h.brk - 2 \in Nat /\ NULL = 0
  BY TiledApart DEF NULL
<1>4. /\ h.seg_list[i] = FirstOf(n, c)
       /\ \A k \in 1..n : h.mem[next(c[k])] = IF k = n THEN NULL ELSE c[k + 1]
  BY DEF Chained
<1> HIDE DEF N
<1>5. g = Step(g)
  <2> SUFFICES ASSUME NEW k \in 0..N PROVE g[k] = Step(g)[k]
    OBVIOUS
  <2>1. CASE k = 0
    BY <1>4, <2>1 DEF FirstOf
  <2>2. CASE k > 0 /\ k <= n
    <3>1. g[k - 1] = c[k] /\ c[k] # NULL /\ c[k] \in 0..(h.brk - 2)
      BY <1>1, <2>2
    <3>2. follow[c[k]] = IF k = n THEN NULL ELSE c[k + 1]
      BY <1>4, <2>2, <3>1
    <3>3. g[k] = IF k = n THEN NULL ELSE c[k + 1]
      BY <2>2
    <3> HIDE DEF g, follow
    <3> QED BY <2>2, <3>1, <3>2, <3>3
  <2>3. CASE k > n
    <3>1. g[k - 1] = NULL /\ g[k] = NULL
      BY <1>1, <2>3
    <3>2. follow[NULL] = NULL
      BY <1>3
    <3> HIDE DEF g, follow
    <3> QED BY <2>3, <3>1, <3>2
  <2> QED BY <1>1, <2>1, <2>2, <2>3
<1> HIDE DEF follow
<1>6. ASSUME NEW f, f = Step(f) PROVE f = g
  <2> DEFINE S == {k \in 0..N : f[k] # g[k]}
  <2>1. ASSUME S # {} PROVE FALSE
    <3>1. PICK k \in S : \A m \in S : k <= m
      <4>1. S \in SUBSET Nat
        BY <1>1
      <4> HIDE DEF S
      <4> QED BY <2>1, <4>1, LeastNat
    <3>2. k \in 0..N /\ f[k] = Step(f)[k] /\ g[k] = Step(g)[k]
      BY <1>5, <1>6, <3>1
    <3>3. CASE k = 0
      <4> HIDE DEF g
      <4> QED BY <3>1, <3>2, <3>3
    <3>4. CASE k # 0
      <4>1. k - 1 \in 0..N /\ k - 1 \notin S
        BY <1>1, <3>1, <3>4
      <4>2. f[k - 1] = g[k - 1]
        BY <4>1
      <4> HIDE DEF g
      <4> QED BY <3>1, <3>2, <3>4, <4>2
    <3> QED BY <3>3, <3>4
  <2>2. f = [k \in 0..N |-> f[k]]
    BY <1>6
  <2> QED BY <2>1, <2>2
<1>7. at = g
  <2> HIDE DEF g, Step
  <2> QED BY <1>5, <1>6
<1>8. {k \in DOMAIN g : g[k] # NULL} = 0..(n - 1)
  <2>1. DOMAIN g = 0..N
    OBVIOUS
  <2>2. \A k \in 0..N : g[k] # NULL <=> k < n
    BY <1>1
  <2> HIDE DEF g
  <2> QED BY <1>1, <2>1, <2>2
<1>9. Cardinality(0..(n - 1)) = n
  BY FS_Interval
<1> HIDE DEF at
<1>10. FreeList(h, i) = [k \in 1..n |-> g[k - 1]]
  <2> HIDE DEF g
  <2> QED BY <1>2, <1>7, <1>8, <1>9
<1>11. \A k \in 1..n : g[k - 1] = c[k]
  BY <1>1
<1> HIDE DEF g
<1>12. c = [k \in 1..n |-> c[k]]
  OBVIOUS
<1> QED BY <1>10, <1>11, <1>12

-----------------------------------------------------------------------------
(* The lists. *)

(* The words of the blocks of F that hold their next and prev.             *)
LinkWords(mem, F) == {next(b) : b \in F} \cup {prev(b) : b \in {f \in F : get_size(mem, f) # 2}}
SameExcept(mem, mem2, W) == \A w \in (0..MaxHeap - 1) \ W : mem2[w] = mem[w]

LEMMA LinksAreInside ==
  ASSUME NEW mem, NEW B, NEW F \in SUBSET B, Apart(mem, B), NEW mem2, SameExcept(mem, mem2, LinkWords(mem, F))
  PROVE  \A b \in B : /\ mem2[b] = mem[b] /\ get_size(mem2, b) = get_size(mem, b)
                      /\ b \notin F => \A x \in 1..get_size(mem, b) - 1 : mem2[b + x] = mem[b + x]
                      /\ get_size(mem, b) # 2 =>
                           mem2[header_to_footer(mem, b)] = mem[header_to_footer(mem, b)]
<1>1. ASSUME NEW b \in B, NEW x \in 0..get_size(mem, b) - 1, NEW w, w = b + x, w \in LinkWords(mem, F)
      PROVE  b \in F /\ x # 0 /\ (get_size(mem, b) # 2 => x # get_size(mem, b) - 1)
  <2>1. PICK c \in F, y \in {1, 2} : w = c + y /\ (y = 2 => get_size(mem, c) # 2)
    BY <1>1 DEF LinkWords, next, prev
  <2>2. /\ c \in B /\ y \in 0..get_size(mem, c) - 1 /\ c \in Nat /\ b \in Nat /\ get_size(mem, c) \in Nat
        /\ (get_size(mem, c) # 2 => y # get_size(mem, c) - 1)
    <3>1. PICK s : s = get_size(mem, c)
      OBVIOUS
    <3>2. c \in B /\ c \in Nat /\ s \in Nat /\ s >= 2 /\ (s # 2 => s >= 4) /\ b \in Nat
      BY <1>1, <2>1, <3>1 DEF Apart
    <3> QED BY ONLY <2>1, <3>1, <3>2
  <2>3. b = c
    BY <1>1, <2>1, <2>2, OwnWords
  <2>4. x = y
    BY <1>1, <2>1, <2>2, <2>3
  <2> QED BY <2>1, <2>2, <2>3, <2>4
<1>2. ASSUME NEW b \in B
      PROVE  /\ b \in 0..MaxHeap - 1 /\ b \in Nat
             /\ get_size(mem, b) \in Nat /\ get_size(mem, b) >= 2
             /\ \A x \in 0..get_size(mem, b) - 1 : b + x \in 0..MaxHeap - 1
  <2>1. PICK s : s = get_size(mem, b)
    OBVIOUS
  <2>2. b \in Nat /\ s \in Nat /\ s >= 2 /\ b + s <= MaxHeap - 1 /\ MaxHeap \in Nat
    BY <1>2, <2>1, HeapAssumption DEF Apart
  <2> QED BY ONLY <2>1, <2>2
<1>3. ASSUME NEW b \in B PROVE mem2[b] = mem[b] /\ get_size(mem2, b) = get_size(mem, b)
  <2>1. b \notin LinkWords(mem, F)
    <3>1. 0 \in 0..get_size(mem, b) - 1 /\ b = b + 0
      BY <1>2, <1>3
    <3> QED BY <1>1, <1>3, <3>1
  <2>2. mem2[b] = mem[b]
    BY <1>2, <1>3, <2>1 DEF SameExcept
  <2> QED BY <2>2 DEF get_size
<1>4. ASSUME NEW b \in B, b \notin F, NEW x \in 1..get_size(mem, b) - 1 PROVE mem2[b + x] = mem[b + x]
  <2>1. PICK w : w = b + x
    OBVIOUS
  <2>2. x \in 0..get_size(mem, b) - 1 /\ w \in 0..MaxHeap - 1
    BY <1>2, <1>4, <2>1
  <2>3. w \notin LinkWords(mem, F)
    BY <1>1, <1>4, <2>1, <2>2
  <2> QED BY <2>1, <2>2, <2>3 DEF SameExcept
<1>5. ASSUME NEW b \in B, get_size(mem, b) # 2
      PROVE  mem2[header_to_footer(mem, b)] = mem[header_to_footer(mem, b)]
  <2>1. PICK w, x : w = header_to_footer(mem, b) /\ x = get_size(mem, b) - 1
    OBVIOUS
  <2>2. x \in 0..get_size(mem, b) - 1 /\ w = b + x /\ w \in 0..MaxHeap - 1
    <3>1. PICK s : s = get_size(mem, b)
      OBVIOUS
    <3>2. b \in Nat /\ s \in Nat /\ s >= 2 /\ x = s - 1 /\ w = b + s - 1
      BY <1>2, <1>5, <2>1, <3>1 DEF header_to_footer
    <3>3. x \in 0..s - 1 /\ w = b + x
      BY ONLY <3>2
    <3> QED BY <1>2, <1>5, <3>1, <3>3
  <2>3. w \notin LinkWords(mem, F)
    BY <1>1, <1>5, <2>1, <2>2
  <2> QED BY <2>1, <2>2, <2>3 DEF SameExcept
<1> QED BY <1>3, <1>4, <1>5

(* The words that insert_block writes.                                     *)
LEMMA InsertWords ==
  ASSUME NEW h, HeapType(h), NEW b \in Nat, get_size(h.mem, b) \in Nat,
         NEW i, i = get_index(get_size(h.mem, b)), NEW first, first = h.seg_list[i], NEW g, g = insert_block(h, b)
  PROVE  /\ HeapType(g) /\ g.brk = h.brk /\ i \in Lists /\ first \in Nat
         /\ g.seg_list[i] = b /\ \A j \in Lists \ {i} : g.seg_list[j] = h.seg_list[j]
         /\ \A w \in 0..MaxHeap - 1 : g.mem[w] =
              IF get_size(h.mem, b) # 2 /\ first # NULL /\ w = first + 2 THEN b
              ELSE IF get_size(h.mem, b) # 2 /\ w = b + 2 THEN NULL
              ELSE IF w = b + 1 THEN first
              ELSE h.mem[w]
<1>1. i \in Lists /\ first \in Nat /\ h.mem \in Memory
  BY Indexed DEF HeapType
<1> DEFINE large == get_size(h.mem, b) # 2
<1>2. PICK m, seg : /\ m = [w \in DOMAIN h.mem |-> IF large /\ first # NULL /\ w = first + 2 THEN b
                                                 ELSE IF large /\ w = b + 2 THEN NULL
                                                 ELSE IF w = b + 1 THEN first ELSE h.mem[w]]
                    /\ seg = [h.seg_list EXCEPT ![i] = b]
  OBVIOUS
<1>3. insert_block(h, b) = [h EXCEPT !.seg_list = seg, !.mem = m]
  BY <1>2, Zenon DEF insert_block, next, prev, min_block_size, dsize
<1> HIDE DEF large
<1>4. DOMAIN h.mem = 0..MaxHeap - 1
  BY <1>1 DEF Memory
<1>5. /\ m \in Memory
      /\ \A w \in 0..MaxHeap - 1 : m[w] = IF large /\ first # NULL /\ w = first + 2 THEN b
                                       ELSE IF large /\ w = b + 2 THEN NULL
                                       ELSE IF w = b + 1 THEN first ELSE h.mem[w]
  <2>1. b \in Int /\ NULL \in Int /\ first \in Int
    BY <1>1 DEF NULL
  <2> QED BY ONLY <1>1, <1>2, <1>4, <2>1 DEF Memory
<1>6. g = [mem |-> m, seg_list |-> seg, brk |-> h.brk]
  BY ONLY <1>3, HeapType(h), g = insert_block(h, b) DEF HeapType
<1>7. seg \in [Lists -> Nat] /\ seg[i] = b /\ \A j \in Lists \ {i} : seg[j] = h.seg_list[j]
  BY ONLY <1>1, <1>2, HeapType(h), b \in Nat DEF HeapType
<1>8. HeapType(g)
  BY ONLY <1>5, <1>6, <1>7, HeapType(h) DEF HeapType
<1>9. g.mem = m /\ g.seg_list = seg /\ g.brk = h.brk
  BY ONLY <1>6
<1> QED BY ONLY <1>1, <1>5, <1>7, <1>8, <1>9 DEF large

(* The next of one block is never the word of another's prev.              *)
LEMMA NextIsNotPrev ==
  ASSUME NEW mem, NEW F, Apart(mem, F), NEW b \in F, NEW c \in F, get_size(mem, c) # 2
  PROVE  b + 1 # c + 2
<1>1. PICK s, t : s = get_size(mem, b) /\ t = get_size(mem, c)
  OBVIOUS
<1>2. /\ b \in Nat /\ c \in Nat /\ s \in Nat /\ t \in Nat /\ s >= 2 /\ t >= 4
      /\ (b < c => b + s <= c) /\ (c < b => c + t <= b)
  BY <1>1 DEF Apart
<1> QED BY ONLY <1>2

LEMMA LinkBounds ==
  ASSUME NEW mem, NEW F, Apart(mem, F), NEW b \in F
  PROVE  /\ b \in Nat /\ b > 0 /\ b # NULL /\ b + 1 \in 0..MaxHeap - 1 /\ get_size(mem, b) \in Nat
         /\ get_size(mem, b) # 2 => b + 2 \in 0..MaxHeap - 1
         /\ get_size(mem, b) = 2 <=> get_index(get_size(mem, b)) = 0
<1>1. PICK s : s = get_size(mem, b)
  OBVIOUS
<1>2. b \in Nat /\ b > 0 /\ s \in Nat /\ s >= 2 /\ (s # 2 => s >= 4) /\ b + s <= MaxHeap - 1 /\ MaxHeap \in Nat
  BY <1>1, HeapAssumption DEF Apart
<1>3. b + 1 \in 0..MaxHeap - 1 /\ (s # 2 => b + 2 \in 0..MaxHeap - 1) /\ (s = 2 <=> s <= 2)
  BY ONLY <1>2
<1> QED BY <1>1, <1>2, <1>3, Indexed DEF NULL

(* A list whose links stay is still that list.                             *)
LEMMA HoldsKept ==
  ASSUME NEW mem, NEW mem2, NEW head, NEW i, NEW F, NEW F2, Holds(mem, head, i, F),
         Class(mem2, F2, i) = Class(mem, F, i),
         \A f \in Class(mem, F, i) : mem2[f + 1] = mem[f + 1] /\ (i # 0 => mem2[f + 2] = mem[f + 2])
  PROVE  Holds(mem2, head, i, F2)
<1>1. PICK n \in Nat : \E c \in [1..n -> F] : Chained(mem, head, i, n, c) /\ Members(n, c) = Class(mem, F, i)
  BY DEF Holds
<1>2. PICK c \in [1..n -> F] : Chained(mem, head, i, n, c) /\ Members(n, c) = Class(mem, F, i)
  BY <1>1
<1>3. \A k \in 1..n : c[k] \in Class(mem, F, i)
  BY <1>2 DEF Members
<1>4. c \in [1..n -> F2]
  <2>1. Class(mem2, F2, i) \subseteq F2
    BY DEF Class
  <2>2. \A k \in 1..n : c[k] \in F2
    BY <1>3, <2>1
  <2> QED BY <1>2, <2>2
<1>5. Chained(mem2, head, i, n, c)
  BY <1>2, <1>3 DEF Chained, next, prev
<1> QED BY <1>2, <1>4, <1>5 DEF Holds

LEMMA SameLinks ==
  ASSUME NEW mem, NEW mem2, NEW seg, NEW F, Apart(mem, F), Listed(mem, seg, F),
         \A f \in F : /\ get_size(mem2, f) = get_size(mem, f) /\ mem2[f + 1] = mem[f + 1]
                      /\ get_size(mem, f) # 2 => mem2[f + 2] = mem[f + 2]
  PROVE  Listed(mem2, seg, F)
<1> SUFFICES ASSUME NEW i \in Lists PROVE Holds(mem2, seg[i], i, F)
  BY DEF Listed
<1>1. Class(mem2, F, i) = Class(mem, F, i)
  BY DEF Class
<1>2. \A f \in Class(mem, F, i) : mem2[f + 1] = mem[f + 1] /\ (i # 0 => mem2[f + 2] = mem[f + 2])
  BY LinkBounds DEF Class
<1>3. Holds(mem, seg[i], i, F)
  BY DEF Listed
<1> QED BY <1>1, <1>2, <1>3, HoldsKept

(* A block put in front of a list.                                         *)
InFront(mem, mem2, head, i, F, b, G) ==
  /\ NULL \notin F /\ b \notin F /\ G = F \cup {b} /\ Class(mem2, G, i) = Class(mem, F, i) \cup {b}
  /\ mem2[b + 1] = head /\ (i # 0 => mem2[b + 2] = NULL) /\ (i # 0 /\ head # NULL => mem2[head + 2] = b)
  /\ \A f \in Class(mem, F, i) : mem2[f + 1] = mem[f + 1] /\ (i # 0 /\ f # head => mem2[f + 2] = mem[f + 2])

LEMMA PutInFront ==
  ASSUME NEW mem, NEW mem2, NEW head, NEW i, NEW F, NEW b, NEW G,
         Holds(mem, head, i, F), InFront(mem, mem2, head, i, F, b, G)
  PROVE  Holds(mem2, b, i, G)
<1>1. /\ NULL \notin F /\ b \notin F /\ G = F \cup {b} /\ Class(mem2, G, i) = Class(mem, F, i) \cup {b}
      /\ mem2[b + 1] = head /\ (i # 0 => mem2[b + 2] = NULL) /\ (i # 0 /\ head # NULL => mem2[head + 2] = b)
      /\ \A f \in Class(mem, F, i) : mem2[f + 1] = mem[f + 1] /\ (i # 0 /\ f # head => mem2[f + 2] = mem[f + 2])
  BY DEF InFront
<1>2. PICK n \in Nat : \E c \in [1..n -> F] : Chained(mem, head, i, n, c) /\ Members(n, c) = Class(mem, F, i)
  BY DEF Holds
<1>3. PICK c \in [1..n -> F] : Chained(mem, head, i, n, c) /\ Members(n, c) = Class(mem, F, i)
  BY <1>2
<1>4. /\ Different(n, c) /\ head = FirstOf(n, c)
      /\ \A k \in 1..n : mem[c[k] + 1] = IF k = n THEN NULL ELSE c[k + 1]
      /\ i # 0 => \A k \in 1..n : mem[c[k] + 2] = IF k = 1 THEN NULL ELSE c[k - 1]
  BY <1>3 DEF Chained, next, prev
<1>5. PICK d : d = [k \in 1..(n + 1) |-> IF k = 1 THEN b ELSE c[k - 1]]
  OBVIOUS
<1>6. /\ d[1] = b /\ \A k \in 1..n : d[k + 1] = c[k] /\ c[k] \in F /\ c[k] \in Class(mem, F, i)
      /\ \A k \in 2..(n + 1) : d[k] = c[k - 1] /\ k - 1 \in 1..n
  BY <1>3, <1>5 DEF Members
<1>7. d \in [1..(n + 1) -> G]
  BY <1>1, <1>3, <1>5
<1>8. Different(n + 1, d)
  <2> SUFFICES ASSUME NEW k \in 1..(n + 1), NEW m \in 1..(n + 1), d[k] = d[m] PROVE k = m
    BY DEF Different
  <2>1. CASE k = 1 \/ m = 1
    BY <1>1, <1>6, <2>1
  <2>2. CASE k # 1 /\ m # 1
    <3>1. k - 1 \in 1..n /\ m - 1 \in 1..n /\ c[k - 1] = c[m - 1]
      BY <1>6, <2>2
    <3>2. k - 1 = m - 1
      BY <1>4, <3>1 DEF Different
    <3> QED BY <3>2
  <2> QED BY <2>1, <2>2
<1>9. b = FirstOf(n + 1, d)
  BY <1>6 DEF FirstOf
<1>10. n = 0 => head = NULL
  BY <1>4 DEF FirstOf
<1>11. n # 0 => head = c[1] /\ head # NULL
  BY <1>1, <1>4, <1>6 DEF FirstOf
<1>12. ASSUME NEW k \in 1..(n + 1) PROVE mem2[d[k] + 1] = IF k = n + 1 THEN NULL ELSE d[k + 1]
  <2>1. CASE k = 1
    BY <1>1, <1>6, <1>10, <1>11, <2>1
  <2>2. CASE k # 1
    <3>1. k - 1 \in 1..n /\ d[k] = c[k - 1] /\ mem2[d[k] + 1] = mem[c[k - 1] + 1]
      BY <1>1, <1>6, <2>2
    <3>2. mem[c[k - 1] + 1] = IF k - 1 = n THEN NULL ELSE c[(k - 1) + 1]
      BY <1>4, <3>1
    <3>3. CASE k = n + 1
      BY <3>1, <3>2, <3>3
    <3>4. CASE k # n + 1
      <4>1. k \in 1..n /\ (k - 1) + 1 = k /\ k - 1 # n
        BY <2>2, <3>4
      <4> QED BY <1>6, <3>1, <3>2, <3>4, <4>1
    <3> QED BY <3>3, <3>4
  <2> QED BY <2>1, <2>2
<1>13. ASSUME i # 0, NEW k \in 1..(n + 1) PROVE mem2[d[k] + 2] = IF k = 1 THEN NULL ELSE d[k - 1]
  <2>1. CASE k = 1
    BY <1>1, <1>6, <1>13, <2>1
  <2>2. CASE k = 2
    <3>1. n # 0 /\ d[k] = c[1] /\ d[k - 1] = b
      BY <1>6, <2>2
    <3> QED BY <1>1, <1>11, <1>13, <2>2, <3>1
  <2>3. CASE k > 2
    <3>1. k - 1 \in 1..n /\ k - 1 # 1 /\ d[k] = c[k - 1] /\ k - 2 \in 1..n /\ (k - 2) + 1 = k - 1 /\ (k - 1) - 1 = k - 2
      BY <1>6, <2>3
    <3>2. d[k - 1] = c[k - 2]
      BY <1>6, <3>1
    <3>3. mem[c[k - 1] + 2] = c[k - 2]
      BY <1>4, <1>13, <3>1
    <3>4. c[k - 1] # head
      <4>1. n # 0 /\ 1 \in 1..n
        BY <3>1
      <4> QED BY <1>4, <1>11, <3>1, <4>1 DEF Different
    <3>5. c[k - 1] \in Class(mem, F, i)
      BY <1>6, <3>1
    <3> QED BY <1>1, <1>13, <2>3, <3>1, <3>2, <3>3, <3>4, <3>5
  <2> QED BY <2>1, <2>2, <2>3
<1>14. Members(n + 1, d) = Class(mem, F, i) \cup {b}
  <2>1. ASSUME NEW f \in Class(mem, F, i) PROVE f \in Members(n + 1, d)
    <3>1. PICK k \in 1..n : f = c[k]
      BY <1>3, <2>1 DEF Members
    <3>2. k + 1 \in 1..(n + 1) /\ f = d[k + 1]
      BY <1>6, <3>1
    <3> QED BY <3>2 DEF Members
  <2>2. b \in Members(n + 1, d)
    <3>1. 1 \in 1..(n + 1)
      OBVIOUS
    <3> QED BY <1>6, <3>1 DEF Members
  <2>3. ASSUME NEW k \in 1..(n + 1) PROVE d[k] \in Class(mem, F, i) \cup {b}
    <3>1. CASE k = 1
      BY <1>6, <3>1
    <3>2. CASE k # 1
      BY <1>6, <3>2
    <3> QED BY <3>1, <3>2
  <2> QED BY <2>1, <2>2, <2>3 DEF Members
<1>15. Chained(mem2, b, i, n + 1, d)
  BY <1>8, <1>9, <1>12, <1>13 DEF Chained, next, prev
<1>16. n + 1 \in Nat
  OBVIOUS
<1>17. Members(n + 1, d) = Class(mem2, G, i)
  BY <1>1, <1>14, Zenon
<1> QED BY ONLY <1>7, <1>15, <1>16, <1>17 DEF Holds

(* A block taken out of a list, from anywhere.                             *)
Unlinked(mem, mem2, i, F, n, c, k, before, after, G) ==
  /\ NULL \notin F /\ n \in Nat /\ c \in [1..n -> F] /\ k \in 1..n
  /\ before = (IF k = 1 THEN NULL ELSE c[k - 1]) /\ after = (IF k = n THEN NULL ELSE c[k + 1])
  /\ G = F \ {c[k]} /\ Class(mem2, G, i) = Class(mem, F, i) \ {c[k]}
  /\ (before # NULL => mem2[before + 1] = after) /\ (i # 0 /\ after # NULL => mem2[after + 2] = before)
  /\ \A f \in Class(mem, F, i) : /\ f # before => mem2[f + 1] = mem[f + 1]
                                 /\ i # 0 /\ f # after => mem2[f + 2] = mem[f + 2]

LEMMA TakeOut ==
  ASSUME NEW mem, NEW mem2, NEW i, NEW F, NEW n, NEW c, NEW head, NEW k, NEW before, NEW after, NEW G,
         Unlinked(mem, mem2, i, F, n, c, k, before, after, G),
         Chained(mem, head, i, n, c), Members(n, c) = Class(mem, F, i)
  PROVE  Holds(mem2, IF before = NULL THEN after ELSE head, i, G)
<1>1. /\ NULL \notin F /\ n \in Nat /\ c \in [1..n -> F] /\ k \in 1..n
      /\ before = (IF k = 1 THEN NULL ELSE c[k - 1]) /\ after = (IF k = n THEN NULL ELSE c[k + 1])
      /\ G = F \ {c[k]} /\ Class(mem2, G, i) = Class(mem, F, i) \ {c[k]}
      /\ (before # NULL => mem2[before + 1] = after) /\ (i # 0 /\ after # NULL => mem2[after + 2] = before)
      /\ \A f \in Class(mem, F, i) : /\ f # before => mem2[f + 1] = mem[f + 1]
                                     /\ i # 0 /\ f # after => mem2[f + 2] = mem[f + 2]
  BY DEF Unlinked
<1>2. \A f \in Class(mem, F, i) : /\ f # before => mem2[f + 1] = mem[f + 1]
                                  /\ i # 0 /\ f # after => mem2[f + 2] = mem[f + 2]
  BY <1>1
<1> USE <1>1
<1>3. /\ Different(n, c) /\ head = FirstOf(n, c)
      /\ \A j \in 1..n : mem[c[j] + 1] = IF j = n THEN NULL ELSE c[j + 1]
      /\ i # 0 => \A j \in 1..n : mem[c[j] + 2] = IF j = 1 THEN NULL ELSE c[j - 1]
  BY DEF Chained, next, prev
<1>4. \A j \in 1..n : c[j] \in F /\ c[j] # NULL /\ c[j] \in Class(mem, F, i)
  BY DEF Members
<1>5. \A j, m \in 1..n : c[j] = c[m] => j = m
  BY <1>3 DEF Different
<1>6. PICK d : d = [j \in 1..(n - 1) |-> IF j < k THEN c[j] ELSE c[j + 1]]
  OBVIOUS
<1>7. \A j \in 1..(n - 1) : /\ j \in 1..n /\ j + 1 \in 1..n
                            /\ j < k => d[j] = c[j]
                            /\ j >= k => d[j] = c[j + 1]
  BY <1>6
<1>8. d \in [1..(n - 1) -> G]
  <2>1. ASSUME NEW j \in 1..(n - 1) PROVE d[j] \in G
    BY <1>7, <1>4, <1>5, <2>1
  <2> QED BY <1>6, <2>1
<1>9. Different(n - 1, d)
  <2> SUFFICES ASSUME NEW j \in 1..(n - 1), NEW m \in 1..(n - 1), d[j] = d[m] PROVE j = m
    BY DEF Different
  <2>1. CASE j < k /\ m < k
    BY <1>7, <1>5, <2>1
  <2>2. CASE j < k /\ m >= k
    <3>1. c[j] = c[m + 1] /\ j \in 1..n /\ m + 1 \in 1..n
      BY <1>7, <2>2
    <3>2. j = m + 1
      BY <1>5, <3>1
    <3> QED BY <2>2, <3>2
  <2>3. CASE j >= k /\ m < k
    <3>1. c[j + 1] = c[m] /\ m \in 1..n /\ j + 1 \in 1..n
      BY <1>7, <2>3
    <3>2. j + 1 = m
      BY <1>5, <3>1
    <3> QED BY <2>3, <3>2
  <2>4. CASE j >= k /\ m >= k
    <3>1. c[j + 1] = c[m + 1] /\ j + 1 \in 1..n /\ m + 1 \in 1..n
      BY <1>7, <2>4
    <3>2. j + 1 = m + 1
      BY <1>5, <3>1
    <3> QED BY <3>2
  <2> QED BY <2>1, <2>2, <2>3, <2>4
<1>10. (IF before = NULL THEN after ELSE head) = FirstOf(n - 1, d)
  <2>1. CASE k = 1 /\ n = 1
    BY <2>1 DEF FirstOf
  <2>2. CASE k = 1 /\ n # 1
    <3>1. 1 \in 1..(n - 1) /\ d[1] = c[2] /\ after = c[2] /\ n - 1 # 0
      BY <1>7, <2>2
    <3> QED BY <2>2, <3>1 DEF FirstOf
  <2>3. CASE k # 1
    <3>1. k - 1 \in 1..n /\ 1 \in 1..n /\ 1 \in 1..(n - 1) /\ d[1] = c[1] /\ n - 1 # 0 /\ n # 0
      BY <1>7, <2>3
    <3>2. before # NULL
      BY <1>4, <2>3, <3>1
    <3> QED BY <1>3, <3>1, <3>2 DEF FirstOf
  <2> QED BY <2>1, <2>2, <2>3
<1>11. ASSUME NEW j \in 1..(n - 1) PROVE mem2[d[j] + 1] = IF j = n - 1 THEN NULL ELSE d[j + 1]
  <2>1. CASE j < k - 1
    <3>1. j \in 1..n /\ j + 1 \in 1..(n - 1) /\ j # n - 1 /\ j # n /\ j < k /\ j + 1 < k /\ k - 1 \in 1..n /\ k # 1
      BY <2>1
    <3>2. d[j] = c[j] /\ d[j + 1] = c[j + 1]
      BY <1>7, <3>1
    <3>3. c[j] # before
      BY <1>5, <2>1, <3>1
    <3>4. mem2[c[j] + 1] = mem[c[j] + 1]
      BY ONLY <1>4, <1>2, <3>1, <3>3
    <3> QED BY <1>3, <3>1, <3>2, <3>4
  <2>2. CASE j = k - 1
    <3>1. j \in 1..n /\ k # 1 /\ j < k /\ k - 1 = j /\ (j = n - 1 <=> k = n)
      BY <2>2
    <3>2. d[j] = c[j] /\ before = c[j] /\ before # NULL
      BY <1>7, <1>4, <3>1
    <3>3. k # n => j + 1 \in 1..(n - 1) /\ j + 1 >= k /\ (j + 1) + 1 = k + 1
      BY <2>2
    <3>4. k # n => d[j + 1] = c[k + 1]
      BY <1>7, <3>3
    <3> QED BY <3>1, <3>2, <3>4
  <2>3. CASE j >= k
    <3>1. /\ j + 1 \in 1..n /\ (j = n - 1 <=> j + 1 = n) /\ (k # 1 => k - 1 \in 1..n /\ j + 1 # k - 1)
          /\ (j # n - 1 => j + 1 \in 1..(n - 1) /\ j + 1 >= k)
      BY <2>3
    <3>2. d[j] = c[j + 1] /\ (j # n - 1 => d[j + 1] = c[(j + 1) + 1])
      BY <1>7, <2>3, <3>1
    <3>3. c[j + 1] # before
      BY <1>4, <1>5, <3>1
    <3>4. mem2[c[j + 1] + 1] = mem[c[j + 1] + 1]
      BY ONLY <1>4, <1>2, <3>1, <3>3
    <3> QED BY <1>3, <3>1, <3>2, <3>4
  <2> QED BY <2>1, <2>2, <2>3
<1>12. ASSUME i # 0, NEW j \in 1..(n - 1) PROVE mem2[d[j] + 2] = IF j = 1 THEN NULL ELSE d[j - 1]
  <2>1. CASE j < k
    <3>1. j \in 1..n /\ (j # 1 => j - 1 \in 1..(n - 1) /\ j - 1 < k) /\ (k # n => k + 1 \in 1..n /\ j # k + 1)
      BY <2>1
    <3>2. d[j] = c[j] /\ (j # 1 => d[j - 1] = c[j - 1])
      BY <1>7, <2>1, <3>1
    <3>3. c[j] # after
      BY <1>4, <1>5, <3>1
    <3>4. mem2[c[j] + 2] = mem[c[j] + 2]
      BY ONLY <1>4, <1>2, <1>12, <3>1, <3>3
    <3> QED BY <1>3, <1>12, <3>1, <3>2, <3>4
  <2>2. CASE j = k
    <3>1. k # n /\ k + 1 \in 1..n /\ j >= k /\ (k # 1 => k - 1 \in 1..(n - 1) /\ k - 1 < k)
      BY <2>2
    <3>2. d[j] = c[k + 1] /\ after = c[k + 1] /\ after # NULL /\ (k # 1 => d[k - 1] = c[k - 1])
      BY <1>7, <1>4, <2>2, <3>1
    <3>3. mem2[d[j] + 2] = before
      BY <1>12, <3>2
    <3> QED BY <2>2, <3>2, <3>3
  <2>3. CASE j > k
    <3>1. /\ j + 1 \in 1..n /\ j \in 1..n /\ j # 1 /\ j + 1 # 1 /\ j >= k /\ j - 1 >= k /\ j - 1 \in 1..(n - 1)
          /\ (j - 1) + 1 = j /\ (j + 1) - 1 = j
          /\ (k # n => k + 1 \in 1..n /\ j + 1 # k + 1)
      BY <2>3
    <3>2. d[j] = c[j + 1] /\ d[j - 1] = c[j]
      BY <1>7, <3>1
    <3>3. c[j + 1] # after
      BY <1>4, <1>5, <3>1
    <3>4. mem2[c[j + 1] + 2] = mem[c[j + 1] + 2]
      BY ONLY <1>4, <1>2, <1>12, <3>1, <3>3
    <3> QED BY <1>3, <1>12, <3>1, <3>2, <3>4
  <2> QED BY <2>1, <2>2, <2>3
<1>13. Members(n - 1, d) = Class(mem, F, i) \ {c[k]}
  <2>1. ASSUME NEW f \in Class(mem, F, i), f # c[k] PROVE f \in Members(n - 1, d)
    <3>1. PICK j \in 1..n : f = c[j]
      BY <2>1 DEF Members
    <3>2. CASE j < k
      <4>1. j \in 1..(n - 1) /\ d[j] = f
        BY <1>7, <3>1, <3>2
      <4> QED BY <4>1 DEF Members
    <3>3. CASE j > k
      <4>1. j - 1 \in 1..(n - 1) /\ j - 1 >= k /\ (j - 1) + 1 = j
        BY <3>3
      <4>2. d[j - 1] = f
        BY <1>7, <3>1, <4>1
      <4> QED BY <4>1, <4>2 DEF Members
    <3>4. j # k
      BY <2>1, <3>1
    <3> QED BY <3>2, <3>3, <3>4
  <2>2. ASSUME NEW j \in 1..(n - 1) PROVE d[j] \in Class(mem, F, i) \ {c[k]}
    <3>1. d[j] # c[k]
      BY <1>8, <2>2
    <3>2. d[j] \in Class(mem, F, i)
      BY <1>7, <1>4, <2>2
    <3> QED BY <3>1, <3>2
  <2> QED BY <2>1, <2>2 DEF Members
<1>14. Chained(mem2, IF before = NULL THEN after ELSE head, i, n - 1, d)
  BY <1>9, <1>10, <1>11, <1>12 DEF Chained, next, prev
<1>15. n - 1 \in Nat
  OBVIOUS
<1>16. Members(n - 1, d) = Class(mem2, G, i)
  BY <1>13, Zenon
<1> QED BY ONLY <1>8, <1>14, <1>15, <1>16 DEF Holds

(* insert_block puts a free block on the list of its size, and writes only *)
(* where free blocks keep their links.                                     *)
LEMMA InsertBlock ==
  ASSUME NEW h, HeapType(h), NEW F, NEW b, b \notin F, Apart(h.mem, F \cup {b}),
         Listed(h.mem, h.seg_list, F), NEW g, g = insert_block(h, b)
  PROVE  /\ HeapType(g) /\ g.brk = h.brk /\ Listed(g.mem, g.seg_list, F \cup {b})
         /\ SameExcept(h.mem, g.mem, LinkWords(h.mem, F \cup {b}))
<1>1. PICK i, first, mem, mem2 : /\ i = get_index(get_size(h.mem, b)) /\ first = h.seg_list[i]
                                 /\ mem = h.mem /\ mem2 = g.mem
  OBVIOUS
<1>2. PICK G : G = F \cup {b}
  OBVIOUS
<1>3. Apart(mem, G) /\ b \in G /\ F \subseteq G
  BY <1>1, <1>2
<1>4. \A f \in G : /\ f \in Nat /\ f > 0 /\ f # NULL /\ f + 1 \in 0..MaxHeap - 1 /\ get_size(mem, f) \in Nat
                   /\ get_size(mem, f) # 2 => f + 2 \in 0..MaxHeap - 1
                   /\ get_size(mem, f) = 2 <=> get_index(get_size(mem, f)) = 0
  <2>1. ASSUME NEW f \in G
        PROVE  /\ f \in Nat /\ f > 0 /\ f # NULL /\ f + 1 \in 0..MaxHeap - 1 /\ get_size(mem, f) \in Nat
               /\ get_size(mem, f) # 2 => f + 2 \in 0..MaxHeap - 1
               /\ get_size(mem, f) = 2 <=> get_index(get_size(mem, f)) = 0
    BY ONLY <1>3, <2>1, LinkBounds
  <2> QED BY ONLY <2>1
<1>5. NULL \notin F /\ b \in Nat /\ get_size(mem, b) \in Nat /\ (get_size(mem, b) # 2 <=> i # 0)
  BY <1>1, <1>3, <1>4
<1>6. /\ HeapType(g) /\ g.brk = h.brk /\ i \in Lists /\ first \in Nat
      /\ g.seg_list[i] = b /\ \A j \in Lists \ {i} : g.seg_list[j] = h.seg_list[j]
      /\ \A w \in 0..MaxHeap - 1 : mem2[w] =
           IF get_size(h.mem, b) # 2 /\ first # NULL /\ w = first + 2 THEN b
           ELSE IF get_size(h.mem, b) # 2 /\ w = b + 2 THEN NULL
           ELSE IF w = b + 1 THEN first
           ELSE h.mem[w]
  BY ONLY HeapType(h), g = insert_block(h, b), <1>1, <1>5, InsertWords
<1>7. \A w \in 0..MaxHeap - 1 : mem2[w] =
           IF i # 0 /\ first # NULL /\ w = first + 2 THEN b
           ELSE IF i # 0 /\ w = b + 2 THEN NULL
           ELSE IF w = b + 1 THEN first
           ELSE mem[w]
  BY ONLY <1>1, <1>5, <1>6
<1>8. Holds(mem, first, i, F)
  BY <1>1, <1>6 DEF Listed
<1>9. first # NULL => first \in F /\ get_index(get_size(mem, first)) = i
  <2>1. PICK n \in Nat : \E c \in [1..n -> F] : Chained(mem, first, i, n, c) /\ Members(n, c) = Class(mem, F, i)
    BY ONLY <1>8 DEF Holds
  <2>2. PICK c \in [1..n -> F] : Chained(mem, first, i, n, c) /\ Members(n, c) = Class(mem, F, i)
    BY <2>1
  <2>3. first = IF n = 0 THEN NULL ELSE c[1]
    BY <2>2 DEF Chained, FirstOf
  <2>4. n # 0 => c[1] \in Class(mem, F, i)
    BY <2>2 DEF Members
  <2> QED BY <2>3, <2>4 DEF Class
<1>10. i # 0 /\ first # NULL => get_size(mem, first) # 2
  BY <1>3, <1>4, <1>9
<1>11. ASSUME NEW f \in G, NEW c \in G, get_size(mem, c) # 2 PROVE f + 1 # c + 2
  BY ONLY <1>3, <1>11, NextIsNotPrev
<1>12. SameExcept(mem, mem2, LinkWords(mem, G))
  <2> SUFFICES ASSUME NEW w \in (0..MaxHeap - 1) \ LinkWords(mem, G) PROVE mem2[w] = mem[w]
    BY DEF SameExcept
  <2>1. w # b + 1
    BY <1>3 DEF LinkWords, next
  <2>2. i # 0 => w # b + 2
    BY <1>3, <1>1, <1>5 DEF LinkWords, prev
  <2>3. i # 0 /\ first # NULL => w # first + 2
    BY <1>3, <1>9, <1>10 DEF LinkWords, prev
  <2> QED BY ONLY <1>7, <2>1, <2>2, <2>3, w \in (0..MaxHeap - 1) \ LinkWords(mem, G)
<1>13. \A f \in G : get_size(mem2, f) = get_size(mem, f)
  BY ONLY <1>3, <1>12, LinksAreInside
<1>14. ASSUME NEW f \in F PROVE mem2[f + 1] = mem[f + 1]
  <2>1. f \in G /\ f # b /\ f + 1 \in 0..MaxHeap - 1 /\ f \in Nat /\ b \in Nat
    BY <1>3, <1>4, <1>14
  <2>2. i # 0 => f + 1 # b + 2
    BY <1>1, <1>3, <1>5, <1>11, <2>1
  <2>3. i # 0 /\ first # NULL => f + 1 # first + 2
    BY <1>3, <1>9, <1>10, <1>11, <2>1
  <2> QED BY ONLY <1>7, <2>1, <2>2, <2>3
<1>15. ASSUME NEW f \in F, get_size(mem, f) # 2, i # 0 /\ first # NULL => f # first PROVE mem2[f + 2] = mem[f + 2]
  <2>1. f \in G /\ f # b /\ f + 2 \in 0..MaxHeap - 1 /\ f \in Nat /\ b \in Nat /\ first \in Nat
    BY <1>3, <1>4, <1>6, <1>15
  <2>2. f + 2 # b + 1
    BY <1>3, <1>11, <1>15, <2>1
  <2> QED BY ONLY <1>7, <1>15, <2>1, <2>2
<1>16. ASSUME NEW j \in Lists PROVE Holds(mem2, g.seg_list[j], j, G)
  <2>1. Holds(mem, h.seg_list[j], j, F)
    BY <1>1, <1>16 DEF Listed
  <2>2. CASE j = i
    <3>1. Class(mem2, G, i) = Class(mem, F, i) \cup {b}
      BY <1>1, <1>2, <1>13 DEF Class
    <3>2. mem2[b + 1] = first /\ (i # 0 => mem2[b + 2] = NULL) /\ (i # 0 /\ first # NULL => mem2[first + 2] = b)
      <4>1. b + 1 \in 0..MaxHeap - 1 /\ (i # 0 => b + 2 \in 0..MaxHeap - 1) /\ b \in Nat
        BY <1>1, <1>3, <1>4, <1>5
      <4>2. i # 0 /\ first # NULL => first + 2 \in 0..MaxHeap - 1 /\ first # b
        BY <1>3, <1>4, <1>9, <1>10
      <4>3. i # 0 /\ first # NULL => b + 1 # first + 2
        BY <1>3, <1>9, <1>10, <1>11
      <4> QED BY ONLY <1>6, <1>7, <4>1, <4>2, <4>3
    <3>3. \A f \in Class(mem, F, i) : /\ mem2[f + 1] = mem[f + 1]
                                      /\ i # 0 /\ f # first => mem2[f + 2] = mem[f + 2]
      <4> SUFFICES ASSUME NEW f \in Class(mem, F, i)
                   PROVE  mem2[f + 1] = mem[f + 1] /\ (i # 0 /\ f # first => mem2[f + 2] = mem[f + 2])
        OBVIOUS
      <4>1. f \in F /\ get_index(get_size(mem, f)) = i
        BY DEF Class
      <4>2. i # 0 => get_size(mem, f) # 2
        BY <1>3, <1>4, <4>1
      <4> QED BY <1>14, <1>15, <4>1, <4>2
    <3>4. InFront(mem, mem2, first, i, F, b, G)
      BY <1>2, <1>5, <3>1, <3>2, <3>3 DEF InFront
    <3>5. Holds(mem2, b, i, G)
      BY ONLY <1>8, <3>4, PutInFront
    <3> QED BY <1>2, <1>6, <2>2, <3>5
  <2>3. CASE j # i
    <3>1. Class(mem2, G, j) = Class(mem, F, j)
      BY <1>1, <1>2, <1>13, <2>3 DEF Class
    <3>2. \A f \in Class(mem, F, j) : mem2[f + 1] = mem[f + 1] /\ (j # 0 => mem2[f + 2] = mem[f + 2])
      <4> SUFFICES ASSUME NEW f \in Class(mem, F, j)
                   PROVE  mem2[f + 1] = mem[f + 1] /\ (j # 0 => mem2[f + 2] = mem[f + 2])
        OBVIOUS
      <4>1. f \in F /\ get_index(get_size(mem, f)) = j
        BY DEF Class
      <4>2. j # 0 => get_size(mem, f) # 2
        BY <1>3, <1>4, <4>1
      <4>3. first # NULL => f # first
        BY <1>9, <2>3, <4>1
      <4> QED BY <1>14, <1>15, <4>1, <4>2, <4>3
    <3>3. g.seg_list[j] = h.seg_list[j]
      BY <1>6, <1>16, <2>3
    <3> QED BY ONLY <2>1, <3>1, <3>2, <3>3, HoldsKept
  <2> QED BY <2>2, <2>3
<1>17. Listed(g.mem, g.seg_list, F \cup {b})
  BY <1>1, <1>2, <1>16 DEF Listed
<1> QED BY <1>1, <1>2, <1>6, <1>12, <1>17

(* The words that delete_block writes, if it finds the block before b.     *)
LEMMA DeleteWords ==
  ASSUME NEW h, HeapType(h), NEW b, NEW i \in Lists, i = get_index(get_size(h.mem, b)),
         NEW before \in Nat, NEW after \in Nat, after = h.mem[b + 1], NEW g, g = delete_block(h, b),
         get_size(h.mem, b) # 2 => before = h.mem[b + 2],
         get_size(h.mem, b) = 2 => before = IF FreeList(h, i)[1] = b THEN NULL
                                            ELSE CHOOSE p \in ToSet(FreeList(h, i)) : h.mem[p + 1] = b
  PROVE  /\ HeapType(g) /\ g.brk = h.brk
         /\ g.seg_list[i] = IF before = NULL THEN after ELSE h.seg_list[i]
         /\ \A j \in Lists \ {i} : g.seg_list[j] = h.seg_list[j]
         /\ \A w \in 0..MaxHeap - 1 : g.mem[w] =
              IF get_size(h.mem, b) # 2 /\ after # NULL /\ w = after + 2 THEN before
              ELSE IF before # NULL /\ w = before + 1 THEN after
              ELSE h.mem[w]
<1> DEFINE large == get_size(h.mem, b) # 2
<1>1. PICK m, seg : /\ m = [w \in DOMAIN h.mem |-> IF large /\ after # NULL /\ w = after + 2 THEN before
                                                 ELSE IF before # NULL /\ w = before + 1 THEN after ELSE h.mem[w]]
                    /\ seg = [h.seg_list EXCEPT ![i] = IF before = NULL THEN after ELSE h.seg_list[i]]
  OBVIOUS
<1> DEFINE found == IF large THEN h.mem[b + 2]
                    ELSE IF FreeList(h, i)[1] = b THEN NULL
                    ELSE CHOOSE p \in ToSet(FreeList(h, i)) : h.mem[p + 1] = b
           Removed(at, then) ==
             [h EXCEPT !.seg_list[i] = IF at = NULL THEN then ELSE @,
                       !.mem = [w \in DOMAIN h.mem |->
                                  IF large /\ then # NULL /\ w = then + 2 THEN at
                                  ELSE IF at # NULL /\ w = at + 1 THEN then ELSE h.mem[w]]]
<1>2. before = found
  <2>1. CASE large
    BY <2>1
  <2>2. CASE ~large
    BY <2>2
  <2> QED BY <2>1, <2>2
<1>3. delete_block(h, b) = [h EXCEPT !.seg_list = seg, !.mem = m]
  <2>1. delete_block(h, b) = Removed(found, h.mem[b + 1])
    BY DEF delete_block, next, prev, min_block_size, dsize
  <2>2. delete_block(h, b) = Removed(before, after)
    <3> HIDE DEF found, Removed
    <3> QED BY <1>2, <2>1
  <2>3. Removed(before, after) = [h EXCEPT !.seg_list = seg, !.mem = m]
    BY <1>1, Zenon
  <2> HIDE DEF Removed
  <2> QED BY <2>2, <2>3
<1> HIDE DEF large
<1>4. h.mem \in Memory /\ DOMAIN h.mem = 0..MaxHeap - 1
  BY DEF HeapType, Memory
<1>5. /\ m \in Memory
      /\ \A w \in 0..MaxHeap - 1 : m[w] = IF large /\ after # NULL /\ w = after + 2 THEN before
                                       ELSE IF before # NULL /\ w = before + 1 THEN after ELSE h.mem[w]
  <2>1. before \in Int /\ after \in Int
    OBVIOUS
  <2>2. PICK e : e = [w \in 0..MaxHeap - 1 |-> IF large /\ after # NULL /\ w = after + 2 THEN before
                                               ELSE IF before # NULL /\ w = before + 1 THEN after ELSE h.mem[w]]
    OBVIOUS
  <2>3. m = e
    BY ONLY <1>1, <1>4, <2>2
  <2>4. e \in Memory
    BY ONLY <1>4, <2>1, <2>2 DEF Memory
  <2>5. \A w \in 0..MaxHeap - 1 : e[w] = IF large /\ after # NULL /\ w = after + 2 THEN before
                                       ELSE IF before # NULL /\ w = before + 1 THEN after ELSE h.mem[w]
    BY ONLY <2>2
  <2> QED BY ONLY <2>3, <2>4, <2>5
<1>6. /\ seg \in [Lists -> Nat] /\ seg[i] = IF before = NULL THEN after ELSE h.seg_list[i]
      /\ \A j \in Lists \ {i} : seg[j] = h.seg_list[j]
  BY ONLY <1>1, HeapType(h), after \in Nat, i \in Lists DEF HeapType
<1>7. g = [mem |-> m, seg_list |-> seg, brk |-> h.brk]
  BY ONLY <1>3, HeapType(h), g = delete_block(h, b) DEF HeapType
<1>8. HeapType(g)
  BY ONLY <1>5, <1>6, <1>7, HeapType(h) DEF HeapType
<1>9. g.mem = m /\ g.seg_list = seg /\ g.brk = h.brk
  BY ONLY <1>7
<1> QED BY ONLY <1>5, <1>6, <1>8, <1>9 DEF large

(* delete_block takes a free block off its list, wherever it is there, and *)
(* writes only where free blocks keep their links.                         *)
LEMMA DeleteBlock ==
  ASSUME NEW h, HeapType(h), NEW B, Tiled(h.mem, h.brk, B), NEW F \in SUBSET B,
         Listed(h.mem, h.seg_list, F), NEW b \in F, NEW g, g = delete_block(h, b)
  PROVE  /\ HeapType(g) /\ g.brk = h.brk /\ Listed(g.mem, g.seg_list, F \ {b})
         /\ SameExcept(h.mem, g.mem, LinkWords(h.mem, F))
<1>1. PICK i, mem, mem2, G : i = get_index(get_size(h.mem, b)) /\ mem = h.mem /\ mem2 = g.mem /\ G = F \ {b}
  OBVIOUS
<1>2. Apart(mem, F)
  BY ONLY <1>1, Tiled(h.mem, h.brk, B), F \in SUBSET B, TiledApart, ApartSubset
<1>3. \A f \in F : /\ f \in Nat /\ f > 0 /\ f # NULL /\ f + 1 \in 0..MaxHeap - 1 /\ get_size(mem, f) \in Nat
                   /\ get_size(mem, f) # 2 => f + 2 \in 0..MaxHeap - 1
                   /\ get_size(mem, f) = 2 <=> get_index(get_size(mem, f)) = 0
  <2>1. ASSUME NEW f \in F
        PROVE  /\ f \in Nat /\ f > 0 /\ f # NULL /\ f + 1 \in 0..MaxHeap - 1 /\ get_size(mem, f) \in Nat
               /\ get_size(mem, f) # 2 => f + 2 \in 0..MaxHeap - 1
               /\ get_size(mem, f) = 2 <=> get_index(get_size(mem, f)) = 0
    BY ONLY <1>2, <2>1, LinkBounds
  <2> QED BY ONLY <2>1
<1>4. i \in Lists /\ NULL \notin F /\ (get_size(mem, b) # 2 <=> i # 0)
  BY <1>1, <1>3, Indexed
<1>5. PICK n \in Nat : \E c \in [1..n -> F] : Chained(mem, h.seg_list[i], i, n, c) /\ Members(n, c) = Class(mem, F, i)
  BY <1>1, <1>4 DEF Listed, Holds
<1>6. PICK c \in [1..n -> F] : Chained(mem, h.seg_list[i], i, n, c) /\ Members(n, c) = Class(mem, F, i)
  BY <1>5
<1>7. /\ \A k, m \in 1..n : c[k] = c[m] => k = m
      /\ \A k \in 1..n : mem[c[k] + 1] = IF k = n THEN NULL ELSE c[k + 1]
      /\ i # 0 => \A k \in 1..n : mem[c[k] + 2] = IF k = 1 THEN NULL ELSE c[k - 1]
      /\ \A k \in 1..n : c[k] \in F /\ c[k] # NULL /\ get_index(get_size(mem, c[k])) = i
  <2>1. \A k \in 1..n : c[k] \in Class(mem, F, i)
    BY <1>6 DEF Members
  <2> QED BY <1>4, <1>6, <2>1 DEF Chained, Different, next, prev, Class
<1>8. PICK k \in 1..n : b = c[k]
  <2>1. b \in Class(mem, F, i)
    BY <1>1 DEF Class
  <2> QED BY <1>6, <2>1 DEF Members
<1>9. PICK before, after : before = (IF k = 1 THEN NULL ELSE c[k - 1]) /\ after = (IF k = n THEN NULL ELSE c[k + 1])
  OBVIOUS
<1>10. /\ k # 1 => k - 1 \in 1..n /\ before = c[k - 1] /\ before \in F
       /\ k = 1 => before = NULL
       /\ k # n => k + 1 \in 1..n /\ after = c[k + 1] /\ after \in F
       /\ k = n => after = NULL
  BY <1>7, <1>9
<1>11. before \in Nat /\ after \in Nat /\ after = mem[b + 1] /\ (i # 0 => before = mem[b + 2])
  BY <1>3, <1>7, <1>8, <1>9, <1>10 DEF NULL
<1>12. i = 0 => before = IF FreeList(h, i)[1] = b THEN NULL ELSE CHOOSE p \in ToSet(FreeList(h, i)) : mem[p + 1] = b
  <2>1. FreeList(h, i) = c
    <3>1. c \in [1..n -> B]
      OBVIOUS
    <3>2. Chained(h.mem, h.seg_list[i], i, n, c)
      BY <1>1, <1>6
    <3>3. FreeList(h, i) = c
      BY ONLY <3>1, <3>2, n \in Nat, Tiled(h.mem, h.brk, B), FreeListOf
    <3> QED BY <3>3
  <2>2. ToSet(FreeList(h, i)) = {c[m] : m \in 1..n} /\ FreeList(h, i)[1] = c[1]
    BY <1>8, <2>1 DEF ToSet
  <2>3. CASE k = 1
    BY <1>8, <1>10, <2>2, <2>3
  <2>4. CASE k # 1
    <3>1. c[1] # b
      BY <1>7, <1>8, <2>4
    <3>2. before \in ToSet(FreeList(h, i)) /\ mem[before + 1] = b
      BY <1>7, <1>8, <1>10, <2>2, <2>4
    <3>3. ASSUME NEW p \in ToSet(FreeList(h, i)), mem[p + 1] = b PROVE p = before
      <4>1. PICK m \in 1..n : p = c[m]
        BY <2>2, <3>3
      <4>2. m # n /\ m + 1 \in 1..n /\ c[m + 1] = c[k]
        BY <1>7, <1>8, <3>3, <4>1
      <4>3. m + 1 = k
        BY <1>7, <4>2
      <4>4. m = k - 1
        BY <4>3
      <4> QED BY <1>10, <2>4, <4>1, <4>4
    <3>4. before = CHOOSE p \in ToSet(FreeList(h, i)) : mem[p + 1] = b
      BY <3>2, <3>3
    <3> QED BY <2>2, <3>1, <3>4
  <2> QED BY <2>3, <2>4
<1>13. /\ HeapType(g) /\ g.brk = h.brk
       /\ g.seg_list[i] = IF before = NULL THEN after ELSE h.seg_list[i]
       /\ \A j \in Lists \ {i} : g.seg_list[j] = h.seg_list[j]
       /\ \A w \in 0..MaxHeap - 1 : g.mem[w] =
            IF get_size(h.mem, b) # 2 /\ after # NULL /\ w = after + 2 THEN before
            ELSE IF before # NULL /\ w = before + 1 THEN after
            ELSE h.mem[w]
  <2>1. get_size(h.mem, b) # 2 => before = h.mem[b + 2]
    BY <1>1, <1>4, <1>11
  <2>2. get_size(h.mem, b) = 2 => before = IF FreeList(h, i)[1] = b THEN NULL
                                           ELSE CHOOSE p \in ToSet(FreeList(h, i)) : h.mem[p + 1] = b
    BY <1>1, <1>4, <1>12
  <2>3. after = h.mem[b + 1] /\ before \in Nat /\ after \in Nat /\ i \in Lists /\ i = get_index(get_size(h.mem, b))
    BY <1>1, <1>4, <1>11
  <2> QED BY ONLY <2>1, <2>2, <2>3, HeapType(h), g = delete_block(h, b), DeleteWords
<1>14. \A w \in 0..MaxHeap - 1 : mem2[w] = IF i # 0 /\ after # NULL /\ w = after + 2 THEN before
                                           ELSE IF before # NULL /\ w = before + 1 THEN after
                                           ELSE mem[w]
  BY ONLY <1>1, <1>4, <1>13
<1>15. ASSUME NEW f \in F, NEW d \in F, get_size(mem, d) # 2 PROVE f + 1 # d + 2
  BY ONLY <1>2, <1>15, NextIsNotPrev
<1>16. /\ before # NULL => before \in F /\ get_index(get_size(mem, before)) = i
       /\ after # NULL => after \in F /\ get_index(get_size(mem, after)) = i
       /\ i # 0 /\ after # NULL => get_size(mem, after) # 2
  <2>1. before # NULL => before \in F /\ get_index(get_size(mem, before)) = i
    BY ONLY <1>7, <1>10
  <2>2. after # NULL => after \in F /\ get_index(get_size(mem, after)) = i
    BY ONLY <1>7, <1>10
  <2>3. after # NULL /\ get_size(mem, after) = 2 => i = 0
    BY ONLY <1>3, <2>2
  <2> QED BY <2>1, <2>2, <2>3
<1>17. SameExcept(mem, mem2, LinkWords(mem, F))
  <2> SUFFICES ASSUME NEW w \in (0..MaxHeap - 1) \ LinkWords(mem, F) PROVE mem2[w] = mem[w]
    BY DEF SameExcept
  <2>1. before # NULL => w # before + 1
    BY <1>16 DEF LinkWords, next
  <2>2. i # 0 /\ after # NULL => w # after + 2
    BY <1>16 DEF LinkWords, prev
  <2> QED BY ONLY <1>14, <2>1, <2>2, w \in (0..MaxHeap - 1) \ LinkWords(mem, F)
<1>18. \A f \in F : get_size(mem2, f) = get_size(mem, f)
  BY ONLY <1>2, <1>17, F \in SUBSET F, LinksAreInside
<1>19. ASSUME NEW f \in F, before # NULL => f # before PROVE mem2[f + 1] = mem[f + 1]
  <2>1. f + 1 \in 0..MaxHeap - 1 /\ f \in Nat /\ (before # NULL => before \in Nat)
    BY <1>3, <1>11, <1>19
  <2>2. i # 0 /\ after # NULL => f + 1 # after + 2
    BY <1>15, <1>16, <1>19
  <2> QED BY ONLY <1>14, <1>19, <2>1, <2>2
<1>20. ASSUME NEW f \in F, get_size(mem, f) # 2, i # 0 /\ after # NULL => f # after PROVE mem2[f + 2] = mem[f + 2]
  <2>1. f + 2 \in 0..MaxHeap - 1 /\ f \in Nat /\ after \in Nat
    BY <1>3, <1>11, <1>20
  <2>2. before # NULL => f + 2 # before + 1
    BY <1>15, <1>16, <1>20
  <2> QED BY ONLY <1>14, <1>20, <2>1, <2>2
<1>21. ASSUME NEW j \in Lists PROVE Holds(mem2, g.seg_list[j], j, G)
  <2>1. CASE j = i
    <3>1. Class(mem2, G, i) = Class(mem, F, i) \ {b}
      BY <1>1, <1>18 DEF Class
    <3>2. before # NULL => mem2[before + 1] = after
      <4>1. before # NULL => before + 1 \in 0..MaxHeap - 1
        BY <1>3, <1>16
      <4>2. before # NULL /\ i # 0 /\ after # NULL => before + 1 # after + 2
        BY <1>15, <1>16
      <4> QED BY ONLY <1>14, <4>1, <4>2
    <3>3. i # 0 /\ after # NULL => mem2[after + 2] = before
      <4>1. i # 0 /\ after # NULL => after + 2 \in 0..MaxHeap - 1
        BY <1>3, <1>16
      <4> QED BY ONLY <1>14, <4>1
    <3>4. \A f \in Class(mem, F, i) : /\ f # before => mem2[f + 1] = mem[f + 1]
                                      /\ i # 0 /\ f # after => mem2[f + 2] = mem[f + 2]
      <4> SUFFICES ASSUME NEW f \in Class(mem, F, i)
                   PROVE  /\ f # before => mem2[f + 1] = mem[f + 1]
                          /\ i # 0 /\ f # after => mem2[f + 2] = mem[f + 2]
        OBVIOUS
      <4>1. f \in F /\ get_index(get_size(mem, f)) = i
        BY DEF Class
      <4>2. i # 0 => get_size(mem, f) # 2
        BY <1>3, <4>1
      <4> QED BY <1>19, <1>20, <4>1, <4>2
    <3>5. G = F \ {c[k]} /\ Class(mem2, G, i) = Class(mem, F, i) \ {c[k]}
      BY <1>1, <1>8, <3>1
    <3>6. Unlinked(mem, mem2, i, F, n, c, k, before, after, G)
      BY ONLY <1>4, <1>9, <3>2, <3>3, <3>4, <3>5, n \in Nat, c \in [1..n -> F], k \in 1..n DEF Unlinked
    <3>7. Holds(mem2, IF before = NULL THEN after ELSE h.seg_list[i], i, G)
      BY ONLY <1>6, <3>6, TakeOut
    <3> QED BY <1>13, <2>1, <3>7
  <2>2. CASE j # i
    <3>1. Class(mem2, G, j) = Class(mem, F, j)
      BY <1>1, <1>18, <2>2 DEF Class
    <3>2. \A f \in Class(mem, F, j) : mem2[f + 1] = mem[f + 1] /\ (j # 0 => mem2[f + 2] = mem[f + 2])
      <4> SUFFICES ASSUME NEW f \in Class(mem, F, j)
                   PROVE  mem2[f + 1] = mem[f + 1] /\ (j # 0 => mem2[f + 2] = mem[f + 2])
        OBVIOUS
      <4>1. f \in F /\ get_index(get_size(mem, f)) = j
        BY DEF Class
      <4>2. j # 0 => get_size(mem, f) # 2
        BY <1>3, <4>1
      <4>3. (before # NULL => f # before) /\ (after # NULL => f # after)
        BY <1>16, <2>2, <4>1
      <4> QED BY <1>19, <1>20, <4>1, <4>2, <4>3
    <3>3. Holds(mem, g.seg_list[j], j, F)
      <4>1. Holds(mem, h.seg_list[j], j, F)
        BY <1>1, <1>21 DEF Listed
      <4> QED BY <1>13, <1>21, <2>2, <4>1
    <3> QED BY ONLY <3>1, <3>2, <3>3, HoldsKept
  <2> QED BY <2>1, <2>2
<1>22. Listed(g.mem, g.seg_list, F \ {b})
  BY <1>1, <1>21 DEF Listed
<1> QED BY <1>1, <1>13, <1>17, <1>22

-----------------------------------------------------------------------------
(* Tags. *)

(* A header and a footer (write_tags).                                     *)
TagsWritten(mem, m, b, s, tag) ==
  \A w \in 0..MaxHeap - 1 : m[w] = IF w = b \/ w = b + s - 1 THEN tag ELSE mem[w]

LEMMA WriteTags ==
  ASSUME NEW mem \in Memory, NEW b, NEW s \in Nat, s % 2 = 0, b \in 0..MaxHeap - 1,
         NEW a \in BOOLEAN, NEW p \in BOOLEAN, NEW q \in BOOLEAN
  PROVE  /\ write_tags(mem, b, s, a, p, q) \in Memory /\ pack(s, a, p, q) \in Nat
         /\ TagsWritten(mem, write_tags(mem, b, s, a, p, q), b, s, pack(s, a, p, q))
<1>1. PICK m : m = write_tags(mem, b, s, a, p, q)
  OBVIOUS
<1>2. PICK tag : tag = pack(s, a, p, q)
  OBVIOUS
<1>3. tag \in Nat /\ extract_size(tag) = s
  <2>1. /\ tag \in Nat /\ extract_size(tag) = s /\ (extract_alloc(tag) <=> a)
        /\ ((tag \div 2) % 2 = 1 <=> p) /\ ((tag \div 4) % 2 = 1 <=> q)
    BY ONLY <1>2, Packed, s \in Nat, s % 2 = 0, a \in BOOLEAN, p \in BOOLEAN, q \in BOOLEAN
  <2> QED BY <2>1
<1>4. PICK m1 : m1 = [mem EXCEPT ![b] = tag]
  OBVIOUS
<1>5. m1 \in Memory /\ \A w \in 0..MaxHeap - 1 : m1[w] = IF w = b THEN tag ELSE mem[w]
  <2>1. tag \in Int
    BY <1>3
  <2> QED BY ONLY <2>1, <1>4, mem \in Memory DEF Memory
<1>6. header_to_footer(m1, b) = b + s - 1
  BY <1>3, <1>5 DEF header_to_footer, get_size
<1>7. PICK foot : foot = b + s - 1
  OBVIOUS
<1>8. m = [m1 EXCEPT ![foot] = tag]
  BY <1>1, <1>2, <1>4, <1>6, <1>7 DEF write_tags, write_header, write_footer
<1>9. m \in Memory /\ \A w \in 0..MaxHeap - 1 : m[w] = IF w = foot THEN tag ELSE m1[w]
  <2>1. tag \in Int
    BY <1>3
  <2> QED BY ONLY <2>1, <1>5, <1>8 DEF Memory
<1>10. m \in Memory /\ pack(s, a, p, q) \in Nat /\ TagsWritten(mem, m, b, s, pack(s, a, p, q))
  BY ONLY <1>2, <1>3, <1>5, <1>7, <1>9 DEF TagsWritten
<1> QED BY <1>1, <1>10

(* A header (write_header).                                                *)
HeaderWritten(mem, m, b, tag) == \A w \in 0..MaxHeap - 1 : m[w] = IF w = b THEN tag ELSE mem[w]

LEMMA WriteHeader ==
  ASSUME NEW mem \in Memory, NEW b, NEW s \in Nat, s % 2 = 0,
         NEW a \in BOOLEAN, NEW p \in BOOLEAN, NEW q \in BOOLEAN
  PROVE  /\ write_header(mem, b, s, a, p, q) \in Memory /\ pack(s, a, p, q) \in Nat
         /\ HeaderWritten(mem, write_header(mem, b, s, a, p, q), b, pack(s, a, p, q))
<1>1. PICK m : m = write_header(mem, b, s, a, p, q)
  OBVIOUS
<1>2. pack(s, a, p, q) \in Nat
  BY ONLY Packed, s \in Nat, s % 2 = 0, a \in BOOLEAN, p \in BOOLEAN, q \in BOOLEAN
<1>3. PICK tag : tag = pack(s, a, p, q)
  OBVIOUS
<1>4. m = [mem EXCEPT ![b] = tag]
  BY <1>1, <1>3 DEF write_header
<1>5. m \in Memory /\ \A w \in 0..MaxHeap - 1 : m[w] = IF w = b THEN tag ELSE mem[w]
  <2>1. tag \in Int
    BY <1>2, <1>3
  <2> QED BY ONLY <2>1, <1>4, mem \in Memory DEF Memory
<1> QED BY ONLY <1>1, <1>2, <1>3, <1>5 DEF HeaderWritten

(* A header that holds a tag is read as that tag.                          *)
Header(mem, b, s, a, p, q) ==
  /\ mem[b] \in Nat /\ get_size(mem, b) = s /\ (get_alloc(mem, b) <=> a)
  /\ (get_prev_alloc(mem, b) <=> p) /\ (get_prev_mini(mem, b) <=> q)

LEMMA ReadHeader ==
  ASSUME NEW mem, NEW b, NEW s \in Nat, s % 2 = 0, NEW a \in BOOLEAN, NEW p \in BOOLEAN, NEW q \in BOOLEAN,
         mem[b] = pack(s, a, p, q)
  PROVE  Header(mem, b, s, a, p, q)
<1>1. PICK tag : tag = pack(s, a, p, q)
  OBVIOUS
<1>2. /\ tag \in Nat /\ extract_size(tag) = s /\ (extract_alloc(tag) <=> a)
      /\ ((tag \div 2) % 2 = 1 <=> p) /\ ((tag \div 4) % 2 = 1 <=> q)
  BY ONLY <1>1, Packed, s \in Nat, s % 2 = 0, a \in BOOLEAN, p \in BOOLEAN, q \in BOOLEAN
<1> QED BY <1>1, <1>2, Zenon DEF Header, get_size, get_alloc, get_prev_alloc, get_prev_mini

(* The header after b (set_nextblock_prev_alloc).                          *)
NextWritten(mem, m, n, p, q) ==
  /\ Header(m, n, get_size(mem, n), get_alloc(mem, n), p, q)
  /\ \A w \in 0..MaxHeap - 1 : w # n => m[w] = mem[w]

LEMMA SetNext ==
  ASSUME NEW mem \in Memory, NEW b, find_next(mem, b) \in 0..MaxHeap - 1, mem[find_next(mem, b)] \in Nat,
         NEW p \in BOOLEAN, NEW q \in BOOLEAN
  PROVE  /\ set_nextblock_prev_alloc(mem, b, p, q) \in Memory
         /\ NextWritten(mem, set_nextblock_prev_alloc(mem, b, p, q), find_next(mem, b), p, q)
<1>1. PICK m, n : m = set_nextblock_prev_alloc(mem, b, p, q) /\ n = find_next(mem, b)
  OBVIOUS
<1>2. PICK s, a : s = get_size(mem, n) /\ a = get_alloc(mem, n)
  OBVIOUS
<1>3. s \in Nat /\ s % 2 = 0 /\ a \in BOOLEAN
  BY <1>1, <1>2, Even DEF get_size, get_alloc, extract_alloc
<1>4. m = write_header(mem, n, s, a, p, q)
  BY <1>1, <1>2 DEF set_nextblock_prev_alloc
<1>5. m \in Memory /\ HeaderWritten(mem, m, n, pack(s, a, p, q))
  BY ONLY <1>3, <1>4, WriteHeader, mem \in Memory, p \in BOOLEAN, q \in BOOLEAN
<1>6. m[n] = pack(s, a, p, q) /\ \A w \in 0..MaxHeap - 1 : w # n => m[w] = mem[w]
  BY <1>1, <1>5 DEF HeaderWritten
<1>7. Header(m, n, s, a, p, q)
  BY ONLY <1>3, <1>6, ReadHeader, p \in BOOLEAN, q \in BOOLEAN
<1> QED BY ONLY <1>1, <1>2, <1>5, <1>6, <1>7 DEF NextWritten

(* Memories with the same headers, and the same footers of free blocks.    *)
SameTags(mem, mem2, brk, B) ==
  /\ mem2[0] = mem[0]
  /\ \A x \in B \cup {brk - 1} : mem2[x] = mem[x]
  /\ \A b \in B : ~get_alloc(mem, b) /\ get_size(mem, b) # 2 =>
       mem2[header_to_footer(mem, b)] = mem[header_to_footer(mem, b)]
UsedIn(mem, B) == {b \in B : get_alloc(mem, b)}
SamePayload(mem, mem2, b) == \A x \in 1..get_size(mem, b) - 1 : mem2[b + x] = mem[b + x]

LEMMA SameTagsKeep ==
  ASSUME NEW mem, NEW mem2, NEW brk, NEW B, Tiled(mem, brk, B), SameTags(mem, mem2, brk, B)
  PROVE  /\ Tiled(mem2, brk, B)
         /\ \A X : Tagged(mem, B, X) => Tagged(mem2, B, X)
         /\ \A X : Merged(mem, B, X) => Merged(mem2, B, X)
         /\ FreeIn(mem2, B) = FreeIn(mem, B) /\ UsedIn(mem2, B) = UsedIn(mem, B)
         /\ \A x \in B \cup {brk - 1} :
              /\ mem2[x] = mem[x] /\ get_size(mem2, x) = get_size(mem, x)
              /\ (get_alloc(mem2, x) <=> get_alloc(mem, x)) /\ find_next(mem2, x) = find_next(mem, x)
              /\ (get_prev_alloc(mem2, x) <=> get_prev_alloc(mem, x))
              /\ (get_prev_mini(mem2, x) <=> get_prev_mini(mem, x))
<1>1. ASSUME NEW x \in B \cup {brk - 1}
      PROVE  /\ mem2[x] = mem[x] /\ get_size(mem2, x) = get_size(mem, x)
             /\ (get_alloc(mem2, x) <=> get_alloc(mem, x)) /\ find_next(mem2, x) = find_next(mem, x)
             /\ (get_prev_alloc(mem2, x) <=> get_prev_alloc(mem, x))
             /\ (get_prev_mini(mem2, x) <=> get_prev_mini(mem, x))
             /\ header_to_footer(mem2, x) = header_to_footer(mem, x)
  <2>1. mem2[x] = mem[x]
    BY <1>1 DEF SameTags
  <2>2. get_size(mem2, x) = get_size(mem, x)
    BY <2>1 DEF get_size
  <2> QED BY <2>1, <2>2, Zenon DEF get_alloc, find_next, get_prev_alloc, get_prev_mini, header_to_footer
<1>2. /\ brk \in 2..MaxHeap /\ B \subseteq 1..(brk - 2)
      /\ \A b \in B \cup {brk - 1} : mem[b] \in Nat
      /\ \A b \in B : get_size(mem, b) >= 2 /\ find_next(mem, b) \in B \cup {brk - 1}
      /\ \A b, c \in B : b < c => find_next(mem, b) <= c
      /\ 1 \in B \cup {brk - 1} /\ get_size(mem, brk - 1) = 0 /\ get_alloc(mem, brk - 1)
  BY DEF Tiled
<1>3. Tiled(mem2, brk, B)
  <2>1. brk - 1 \in B \cup {brk - 1} /\ \A b \in B : b \in B \cup {brk - 1}
    OBVIOUS
  <2>2. Prologue(mem2)
    BY Zenon DEF Prologue, SameTags, Tiled
  <2> QED BY ONLY <1>1, <1>2, <2>1, <2>2 DEF Tiled
<1>4. ASSUME NEW X, Tagged(mem, B, X) PROVE Tagged(mem2, B, X)
  <2>1. get_prev_alloc(mem2, 1)
    BY <1>1, <1>2, <1>4 DEF Tagged
  <2>2. ASSUME NEW b \in B \ X PROVE Told(mem2, b) /\ Footed(mem2, b)
    <3>1. Told(mem, b) /\ Footed(mem, b) /\ b \in B \cup {brk - 1} /\ find_next(mem, b) \in B \cup {brk - 1}
      BY <1>2, <1>4, <2>2 DEF Tagged
    <3>2. Told(mem2, b)
      <4>1. PICK n : n = find_next(mem, b) /\ n = find_next(mem2, b) /\ n \in B \cup {brk - 1}
        BY <1>1, <3>1
      <4>2. /\ (get_prev_alloc(mem2, n) <=> get_prev_alloc(mem, n)) /\ (get_prev_mini(mem2, n) <=> get_prev_mini(mem, n))
            /\ (get_alloc(mem2, b) <=> get_alloc(mem, b)) /\ get_size(mem2, b) = get_size(mem, b)
        BY ONLY <1>1, <3>1, <4>1
      <4>3. /\ get_prev_alloc(mem, n) = get_alloc(mem, b)
            /\ ~get_alloc(mem, b) => get_prev_mini(mem, n) = (get_size(mem, b) = 2)
        BY ONLY <3>1, <4>1, Zenon DEF Told
      <4>4. /\ get_prev_alloc(mem2, n) = get_alloc(mem2, b)
            /\ ~get_alloc(mem2, b) => get_prev_mini(mem2, n) = (get_size(mem2, b) = 2)
        BY ONLY <4>2, <4>3, Zenon DEF get_prev_alloc, get_prev_mini, get_alloc, extract_alloc
      <4> QED BY ONLY <4>1, <4>4, Zenon DEF Told
    <3>3. Footed(mem2, b)
      <4>1. ~get_alloc(mem, b) /\ get_size(mem, b) # 2 =>
              mem2[header_to_footer(mem, b)] = mem[header_to_footer(mem, b)]
        BY <2>2 DEF SameTags
      <4> QED BY <1>1, <3>1, <4>1 DEF Footed
    <3> QED BY <3>2, <3>3
  <2> QED BY <2>1, <2>2 DEF Tagged
<1>5. ASSUME NEW X, Merged(mem, B, X) PROVE Merged(mem2, B, X)
  BY <1>1, <1>2, <1>5 DEF Merged
<1>6. FreeIn(mem2, B) = FreeIn(mem, B) /\ UsedIn(mem2, B) = UsedIn(mem, B)
  BY <1>1 DEF FreeIn, UsedIn
<1> QED BY <1>1, <1>3, <1>4, <1>5, <1>6

(* Writing links of free blocks disturbs no tag and no payload.            *)
LEMMA LinkWrites ==
  ASSUME NEW mem, NEW mem2, NEW brk, NEW B, Tiled(mem, brk, B), NEW F \in SUBSET FreeIn(mem, B),
         SameExcept(mem, mem2, LinkWords(mem, F))
  PROVE  SameTags(mem, mem2, brk, B) /\ \A b \in UsedIn(mem, B) : SamePayload(mem, mem2, b)
<1>1. Apart(mem, B) /\ F \in SUBSET B /\ \A b \in B : b + get_size(mem, b) <= brk - 1
  BY TiledApart DEF FreeIn
<1>2. \A b \in B : /\ mem2[b] = mem[b]
                   /\ b \notin F => \A x \in 1..get_size(mem, b) - 1 : mem2[b + x] = mem[b + x]
                   /\ get_size(mem, b) # 2 =>
                        mem2[header_to_footer(mem, b)] = mem[header_to_footer(mem, b)]
  BY ONLY <1>1, SameExcept(mem, mem2, LinkWords(mem, F)), LinksAreInside
<1>3. mem2[brk - 1] = mem[brk - 1]
  <2>1. ASSUME NEW f \in F PROVE brk - 1 # f + 1 /\ (get_size(mem, f) # 2 => brk - 1 # f + 2)
    <3>1. PICK n : n = get_size(mem, f)
      OBVIOUS
    <3>2. f \in Nat /\ n \in Nat /\ n >= 2 /\ (n # 2 => n >= 4) /\ f + n <= brk - 1
      BY <1>1, <3>1 DEF Apart
    <3>3. brk \in Nat
      BY TiledApart
    <3> QED BY ONLY <3>1, <3>2, <3>3
  <2>2. brk - 1 \notin LinkWords(mem, F)
    BY <2>1 DEF LinkWords, next, prev
  <2>3. brk - 1 \in 0..MaxHeap - 1
    BY TiledApart
  <2> QED BY <2>2, <2>3 DEF SameExcept
<1>4. SameTags(mem, mem2, brk, B)
  <2>1. ASSUME NEW f \in F PROVE 0 # f + 1 /\ 0 # f + 2
    BY <1>1 DEF Apart
  <2>2. 0 \notin LinkWords(mem, F) /\ 0 \in 0..MaxHeap - 1
    BY <2>1, HeapAssumption DEF LinkWords, next, prev
  <2>3. mem2[0] = mem[0]
    BY <2>2 DEF SameExcept
  <2> QED BY <1>2, <1>3, <2>3 DEF SameTags
<1>5. ASSUME NEW b \in UsedIn(mem, B) PROVE SamePayload(mem, mem2, b)
  <2>1. b \in B /\ b \notin F
    BY <1>5 DEF UsedIn, FreeIn
  <2> QED BY <1>2, <2>1 DEF SamePayload
<1> QED BY <1>4, <1>5

(* The words from the block p to the one at N are rewritten: the blocks of *)
(* C lie there now, and of the header at N only what it says of its        *)
(* predecessor has changed.                                                *)
Outside(B, p, N) == {b \in B : b < p \/ b >= N}
Reshaped(mem, mem2, brk, B, p, N, C) ==
  /\ p \in B /\ N \in B \cup {brk - 1} /\ p < N
  /\ \A w \in 0..MaxHeap - 1 : w < p \/ w > N => mem2[w] = mem[w]
  /\ mem2[N] \in Nat /\ get_size(mem2, N) = get_size(mem, N) /\ (get_alloc(mem2, N) <=> get_alloc(mem, N))
  /\ C \subseteq p..N - 1 /\ p \in C
  /\ \A c \in C : mem2[c] \in Nat /\ get_size(mem2, c) >= 2 /\ find_next(mem2, c) \in C \cup {N}
  /\ \A c, d \in C : c < d => find_next(mem2, c) <= d

KeptOutside(mem, mem2, E, B, O, p, N) ==
  /\ \A b \in O \cup {E} :
       /\ get_size(mem2, b) = get_size(mem, b) /\ (get_alloc(mem2, b) <=> get_alloc(mem, b))
       /\ find_next(mem2, b) = find_next(mem, b) /\ (b # N => mem2[b] = mem[b])
  /\ \A b \in O : /\ find_next(mem, b) \in O \cup {p, E} /\ b \in B /\ find_next(mem, b) # b
                  /\ (find_next(mem, b) = N => find_next(mem, b) = p)
                  /\ SamePayload(mem, mem2, b)

LEMMA Reshape ==
  ASSUME NEW mem, NEW mem2, NEW brk, NEW B, NEW p, NEW N, NEW C, NEW O, O = Outside(B, p, N),
         Tiled(mem, brk, B), Reshaped(mem, mem2, brk, B, p, N, C)
  PROVE  Tiled(mem2, brk, O \cup C) /\ KeptOutside(mem, mem2, brk - 1, B, O, p, N)
<1> DEFINE E == brk - 1
<1>1. /\ p \in B /\ N \in B \cup {E} /\ p < N
      /\ \A w \in 0..MaxHeap - 1 : w < p \/ w > N => mem2[w] = mem[w]
      /\ mem2[N] \in Nat /\ get_size(mem2, N) = get_size(mem, N) /\ (get_alloc(mem2, N) <=> get_alloc(mem, N))
      /\ C \subseteq p..N - 1 /\ p \in C
      /\ \A c \in C : mem2[c] \in Nat /\ get_size(mem2, c) >= 2 /\ find_next(mem2, c) \in C \cup {N}
      /\ \A c, d \in C : c < d => find_next(mem2, c) <= d
  BY DEF Reshaped
<1>2. /\ brk \in 2..MaxHeap /\ B \subseteq 1..(brk - 2)
      /\ \A b \in B \cup {E} : mem[b] \in Nat
      /\ \A b \in B : get_size(mem, b) >= 2 /\ find_next(mem, b) \in B \cup {E}
      /\ \A b, c \in B : b < c => find_next(mem, b) <= c
      /\ 1 \in B \cup {E} /\ get_size(mem, E) = 0 /\ get_alloc(mem, E)
  BY DEF Tiled
<1>3. /\ E \in Nat /\ E >= 1 /\ E <= MaxHeap - 1 /\ MaxHeap \in Nat /\ p \in Nat /\ p >= 1 /\ N \in Nat /\ N <= E
      /\ \A b \in B : b \in Nat /\ b >= 1 /\ b < E
      /\ brk \in Nat
  <2>1. MaxHeap \in Nat
    BY HeapAssumption
  <2> QED BY ONLY <1>1, <1>2, <2>1
<1> HIDE DEF E
<1>4. ASSUME NEW b \in O \cup {E} PROVE b \in B \cup {E} /\ b \in 0..MaxHeap - 1 /\ (b < p \/ b >= N)
  BY ONLY <1>3, <1>4, O = Outside(B, p, N) DEF Outside
<1>5. ASSUME NEW b \in O \cup {E}
      PROVE  /\ get_size(mem2, b) = get_size(mem, b) /\ (get_alloc(mem2, b) <=> get_alloc(mem, b))
             /\ find_next(mem2, b) = find_next(mem, b) /\ (b # N => mem2[b] = mem[b])
             /\ mem2[b] \in Nat
  <2>1. CASE b = N
    BY <1>1, <2>1, Zenon DEF find_next
  <2>2. CASE b # N
    <3>1. b \in 0..MaxHeap - 1 /\ (b < p \/ b > N)
      BY ONLY <1>3, <1>4, <1>5, <2>2
    <3>2. mem2[b] = mem[b] /\ mem[b] \in Nat
      BY ONLY <1>1, <1>2, <1>4, <1>5, <3>1
    <3> QED BY <2>2, <3>2, Zenon DEF find_next, get_size, get_alloc
  <2> QED BY <2>1, <2>2
<1>6. ASSUME NEW b \in O
      PROVE  /\ b \in B /\ b \in Nat /\ find_next(mem, b) \in Nat /\ find_next(mem, b) > b
             /\ find_next(mem, b) \in O \cup {p, E}
             /\ (b < p => find_next(mem, b) <= p) /\ (b >= N => find_next(mem, b) > N)
             /\ (find_next(mem, b) = N => find_next(mem, b) = p)
             /\ get_size(mem, b) \in Nat /\ find_next(mem, b) = b + get_size(mem, b) /\ find_next(mem, b) <= E
  <2>1. b \in B /\ (b < p \/ b >= N)
    BY <1>6 DEF Outside
  <2>2. PICK n, x : n = find_next(mem, b) /\ x = get_size(mem, b)
    OBVIOUS
  <2>3. x \in Nat /\ x >= 2 /\ n = b + x /\ b \in Nat
    BY <2>1, <2>2, TiledApart DEF Apart
  <2>4. n \in B \cup {E} /\ n \in Nat /\ n > b /\ n <= E
    <3>1. n \in B \cup {E}
      BY <1>2, <2>1, <2>2
    <3> QED BY ONLY <1>3, <2>3, <3>1
  <2>5. b < p => n <= p
    BY <1>1, <1>2, <2>1, <2>2
  <2>6. n < p \/ n >= N => n \in O \cup {E}
    BY <2>4 DEF Outside
  <2>7. n \in O \cup {p, E} /\ (b >= N => n > N) /\ (n = N => n = p)
    BY ONLY <1>1, <1>3, <2>1, <2>4, <2>5, <2>6
  <2> QED BY ONLY <2>1, <2>2, <2>3, <2>4, <2>5, <2>7
<1>7. ASSUME NEW b \in O PROVE SamePayload(mem, mem2, b)
  <2> SUFFICES ASSUME NEW x \in 1..get_size(mem, b) - 1 PROVE mem2[b + x] = mem[b + x]
    BY DEF SamePayload
  <2>1. PICK w, n, s : w = b + x /\ n = find_next(mem, b) /\ s = get_size(mem, b)
    OBVIOUS
  <2>2. b \in Nat /\ s \in Nat /\ n = b + s /\ n <= E /\ (b < p => n <= p) /\ (b < p \/ b >= N)
    BY <1>4, <1>6, <1>7, <2>1
  <2>3. x \in 1..s - 1
    BY <2>1
  <2>4. w \in 0..MaxHeap - 1 /\ (w < p \/ w > N)
    BY ONLY <1>3, <2>1, <2>2, <2>3
  <2> QED BY <1>1, <2>1, <2>4
<1> DEFINE B2 == O \cup C
<1>8. \A c \in C : c \in Nat /\ c >= p /\ c < N
  BY ONLY <1>1, <1>3
<1>9. Tiled(mem2, brk, B2)
  <2>1. B2 \subseteq 1..(brk - 2) /\ brk \in 2..MaxHeap
    <3>1. \A c \in C : c \in 1..(brk - 2)
      <4>1. E = brk - 1
        BY DEF E
      <4> SUFFICES ASSUME NEW c \in C PROVE c \in 1..(brk - 2)
        OBVIOUS
      <4>2. c \in Nat /\ c >= p /\ c < N
        BY <1>8
      <4> QED BY ONLY <1>3, <4>1, <4>2
    <3>2. \A b \in O : b \in 1..(brk - 2)
      BY <1>2, <1>6
    <3> QED BY <1>2, <3>1, <3>2
  <2>2. \A b \in B2 \cup {E} : mem2[b] \in Nat
    BY <1>1, <1>5
  <2>3. ASSUME NEW b \in B2 PROVE get_size(mem2, b) >= 2 /\ find_next(mem2, b) \in B2 \cup {E}
    <3>1. CASE b \in O
      BY <1>1, <1>2, <1>5, <1>6, <3>1
    <3>2. CASE b \in C
      <4>1. N \in O \cup {E}
        BY <1>1, <1>3 DEF Outside
      <4> QED BY <1>1, <3>2, <4>1
    <3> QED BY <2>3, <3>1, <3>2
  <2>4. ASSUME NEW b \in B2, NEW c \in B2, b < c PROVE find_next(mem2, b) <= c
    <3>1. CASE b \in O /\ c \in O
      BY <1>2, <1>5, <1>6, <2>4, <3>1
    <3>2. CASE b \in O /\ c \in C
      <4>1. find_next(mem2, b) = find_next(mem, b) /\ find_next(mem, b) \in Nat /\ b \in Nat /\ (b < p \/ b >= N)
            /\ (b < p => find_next(mem, b) <= p)
        BY <1>4, <1>5, <1>6, <3>2
      <4>2. c \in Nat /\ c >= p /\ c < N
        BY <1>8, <3>2
      <4> QED BY ONLY <1>3, <2>4, <4>1, <4>2
    <3>3. CASE b \in C /\ c \in O
      <4>1. b >= p /\ b \in Nat /\ c \in Nat /\ (c < p \/ c >= N)
        BY <1>4, <1>6, <1>8, <3>3
      <4>2. find_next(mem2, b) \in C \cup {N}
        BY <1>1, <3>3
      <4>3. find_next(mem2, b) \in Nat /\ find_next(mem2, b) <= N
        BY ONLY <1>3, <1>8, <4>2
      <4> QED BY ONLY <1>3, <2>4, <4>1, <4>3
    <3>4. CASE b \in C /\ c \in C
      BY <1>1, <2>4, <3>4
    <3> QED BY <2>4, <3>1, <3>2, <3>3, <3>4
  <2>5. 1 \in B2 \cup {E}
    <3>1. CASE 1 \in B
      <4>1. 1 < p => 1 \in O
        BY <3>1 DEF Outside
      <4>2. p = 1 => 1 \in C
        BY <1>1
      <4> QED BY ONLY <1>3, <4>1, <4>2
    <3>2. CASE 1 \notin B
      BY <1>2, <3>2
    <3> QED BY <3>1, <3>2
  <2>6. get_size(mem2, E) = 0 /\ get_alloc(mem2, E)
    BY <1>2, <1>5
  <2>7. Prologue(mem2)
    <3>1. 0 < p /\ 0 \in 0..MaxHeap - 1
      BY TiledApart, HeapAssumption DEF Apart, Reshaped
    <3>2. mem2[0] = mem[0]
      BY <3>1 DEF Reshaped
    <3> QED BY <3>2, Zenon DEF Prologue, Tiled
  <2> HIDE DEF B2
  <2> QED BY <2>1, <2>2, <2>3, <2>4, <2>5, <2>6, <2>7 DEF Tiled, E
<1>10. \A b \in O : find_next(mem, b) # b
  BY <1>6
<1>11. KeptOutside(mem, mem2, E, B, O, p, N)
  BY ONLY <1>5, <1>6, <1>7, <1>10 DEF KeptOutside
<1> QED BY <1>9, <1>11 DEF E

(* What the header at p says of the block before it.                       *)
SameBefore(mem, mem2, p) ==
  /\ get_prev_alloc(mem2, p) <=> get_prev_alloc(mem, p)
  /\ ~get_prev_alloc(mem, p) => (get_prev_mini(mem2, p) <=> get_prev_mini(mem, p))

LEMMA ReshapeTags ==
  ASSUME NEW mem, NEW mem2, NEW brk, NEW B, NEW p, NEW N, NEW C, NEW O, O = Outside(B, p, N),
         Tiled(mem, brk, B), Reshaped(mem, mem2, brk, B, p, N, C),
         NEW X, Tagged(mem, B, X), X \cap O = {}, SameBefore(mem, mem2, p),
         NEW X2, \A c \in C \ X2 : Told(mem2, c) /\ Footed(mem2, c)
  PROVE  Tagged(mem2, O \cup C, X2)
<1>1. /\ \A b \in O \cup {brk - 1} :
           /\ get_size(mem2, b) = get_size(mem, b) /\ (get_alloc(mem2, b) <=> get_alloc(mem, b))
           /\ find_next(mem2, b) = find_next(mem, b) /\ (b # N => mem2[b] = mem[b])
      /\ \A b \in O : /\ find_next(mem, b) \in O \cup {p, brk - 1} /\ b \in B /\ find_next(mem, b) # b
                      /\ (find_next(mem, b) = N => find_next(mem, b) = p)
                      /\ SamePayload(mem, mem2, b)
  <2>1. KeptOutside(mem, mem2, brk - 1, B, O, p, N)
    BY Reshape
  <2> QED BY ONLY <2>1, Zenon DEF KeptOutside
<1>2. /\ get_prev_alloc(mem2, p) <=> get_prev_alloc(mem, p)
      /\ ~get_prev_alloc(mem, p) => (get_prev_mini(mem2, p) <=> get_prev_mini(mem, p))
  BY DEF SameBefore
<1>3. p # N
  <2>1. p \in B /\ N \in B \cup {brk - 1} /\ p < N
    BY DEF Reshaped
  <2>2. p \in Nat /\ N \in Nat
    BY <2>1, TiledApart DEF Apart
  <2> QED BY ONLY <2>1, <2>2
<1>4. ASSUME NEW n \in O \cup {p, brk - 1}, n # N \/ n = p
      PROVE  /\ get_prev_alloc(mem2, n) <=> get_prev_alloc(mem, n)
             /\ ~get_prev_alloc(mem, n) => (get_prev_mini(mem2, n) <=> get_prev_mini(mem, n))
  <2>1. CASE n = p
    BY <1>2, <2>1
  <2>2. CASE n # p
    <3>1. mem2[n] = mem[n]
      BY <1>1, <1>4, <2>2
    <3> QED BY <3>1, Zenon DEF get_prev_alloc, get_prev_mini
  <2> QED BY <2>1, <2>2
<1>5. ASSUME NEW b \in O PROVE Told(mem2, b)
  <2>1. PICK n : /\ n = find_next(mem, b) /\ n = find_next(mem2, b)
                 /\ n \in O \cup {p, brk - 1} /\ (n # N \/ n = p) /\ b \in B \ X
    BY <1>1, <1>5
  <2>2. Told(mem, b)
    BY <2>1 DEF Tagged
  <2>3. /\ get_prev_alloc(mem, n) = get_alloc(mem, b)
        /\ ~get_alloc(mem, b) => get_prev_mini(mem, n) = (get_size(mem, b) = 2)
    BY ONLY <2>1, <2>2, Zenon DEF Told
  <2>4. get_size(mem2, b) = get_size(mem, b) /\ (get_alloc(mem2, b) <=> get_alloc(mem, b))
    BY <1>1, <1>5
  <2>5. /\ get_prev_alloc(mem2, n) <=> get_prev_alloc(mem, n)
        /\ ~get_prev_alloc(mem, n) => (get_prev_mini(mem2, n) <=> get_prev_mini(mem, n))
    BY <1>4, <2>1
  <2>6. /\ get_prev_alloc(mem2, n) = get_alloc(mem2, b)
        /\ ~get_alloc(mem2, b) => get_prev_mini(mem2, n) = (get_size(mem2, b) = 2)
    BY ONLY <2>3, <2>4, <2>5, Zenon DEF get_prev_alloc, get_prev_mini, get_alloc, extract_alloc
  <2> QED BY ONLY <2>1, <2>6, Zenon DEF Told
<1>6. ASSUME NEW b \in O PROVE Footed(mem2, b)
  <2> SUFFICES ASSUME ~get_alloc(mem2, b), get_size(mem2, b) # 2
               PROVE  SaysFree(mem2[header_to_footer(mem2, b)], get_size(mem2, b))
    BY DEF Footed
  <2>1. PICK s : s = get_size(mem, b)
    OBVIOUS
  <2>2. s \in Nat /\ s >= 2 /\ b \in Nat /\ b \in B \ X
    BY <1>1, <1>6, <2>1, TiledApart DEF Apart
  <2>3. ~get_alloc(mem, b) /\ s # 2 /\ s = get_size(mem2, b)
    BY <1>1, <1>6, <2>1
  <2>4. SaysFree(mem[header_to_footer(mem, b)], s)
    BY <2>1, <2>2, <2>3 DEF Tagged, Footed
  <2>5. s - 1 \in 1..s - 1 /\ b + s - 1 = b + (s - 1)
    BY ONLY <2>2
  <2>6. mem2[b + (s - 1)] = mem[b + (s - 1)]
    BY <1>1, <1>6, <2>1, <2>5 DEF SamePayload
  <2>7. header_to_footer(mem, b) = b + (s - 1) /\ header_to_footer(mem2, b) = b + (s - 1)
    BY <2>1, <2>3, <2>5 DEF header_to_footer
  <2> QED BY <2>3, <2>4, <2>6, <2>7
<1>7. get_prev_alloc(mem2, 1)
  <2>1. 1 \in O \cup {p, brk - 1} /\ (1 # N \/ 1 = p)
    <3>1. p \in B /\ N \in B \cup {brk - 1} /\ p < N
      BY DEF Reshaped
    <3>2. p \in Nat /\ p >= 1 /\ N \in Nat /\ 1 \in B \cup {brk - 1}
      BY <3>1, TiledApart DEF Apart, Tiled
    <3>3. 1 \in B /\ 1 < p => 1 \in O
      BY DEF Outside
    <3> QED BY ONLY <3>1, <3>2, <3>3
  <2>2. get_prev_alloc(mem, 1)
    BY DEF Tagged
  <2> QED BY <1>4, <2>1, <2>2
<1>8. \A c \in (O \cup C) \ X2 : Told(mem2, c) /\ Footed(mem2, c)
  BY <1>5, <1>6
<1> QED BY <1>7, <1>8 DEF Tagged

LEMMA ReshapeMerged ==
  ASSUME NEW mem, NEW mem2, NEW brk, NEW B, NEW p, NEW N, NEW C, NEW O, O = Outside(B, p, N),
         Tiled(mem, brk, B), Reshaped(mem, mem2, brk, B, p, N, C),
         NEW X \in SUBSET B, Tagged(mem, B, X), Merged(mem, B, X), X \cap O = {},
         NEW X2, get_prev_alloc(mem, p) \/ p \in X2,
         \A c \in C \ X2 : ~get_alloc(mem2, c) /\ find_next(mem2, c) \notin X2 => get_alloc(mem2, find_next(mem2, c))
  PROVE  Merged(mem2, O \cup C, X2)
<1>1. /\ \A b \in O \cup {brk - 1} :
           /\ get_size(mem2, b) = get_size(mem, b) /\ (get_alloc(mem2, b) <=> get_alloc(mem, b))
           /\ find_next(mem2, b) = find_next(mem, b) /\ (b # N => mem2[b] = mem[b])
      /\ \A b \in O : /\ find_next(mem, b) \in O \cup {p, brk - 1} /\ b \in B /\ find_next(mem, b) # b
                      /\ (find_next(mem, b) = N => find_next(mem, b) = p)
                      /\ SamePayload(mem, mem2, b)
  <2>1. KeptOutside(mem, mem2, brk - 1, B, O, p, N)
    BY Reshape
  <2> QED BY ONLY <2>1, Zenon DEF KeptOutside
<1>2. brk - 1 \notin X
  <2>1. B \subseteq 1..(brk - 2) /\ brk \in Nat
    BY TiledApart DEF Tiled
  <2> QED BY <2>1
<1>3. ASSUME NEW b \in O, ~get_alloc(mem2, b), b \notin X2, find_next(mem2, b) \notin X2
      PROVE  get_alloc(mem2, find_next(mem2, b))
  <2>1. PICK n : n = find_next(mem, b) /\ n = find_next(mem2, b) /\ n \in O \cup {p, brk - 1}
    BY <1>1, <1>3
  <2>2. ~get_alloc(mem, b) /\ b \in B /\ b \notin X
    BY <1>1, <1>3
  <2>3. CASE n = p
    <3>1. Told(mem, b)
      BY <2>2 DEF Tagged
    <3>2. get_prev_alloc(mem, p) = get_alloc(mem, b)
      BY ONLY <2>1, <2>3, <3>1, Zenon DEF Told
    <3>3. ~get_prev_alloc(mem, p)
      BY <2>2, <3>2, Zenon DEF get_prev_alloc, get_alloc, extract_alloc
    <3> QED BY <1>3, <2>1, <2>3, <3>3
  <2>4. CASE n # p
    <3>1. n \notin X
      BY <1>2, <2>1, <2>4
    <3>2. get_alloc(mem, n)
      BY <2>1, <2>2, <3>1 DEF Merged
    <3> QED BY <1>1, <2>1, <2>4, <3>2
  <2> QED BY <2>3, <2>4
<1> QED BY <1>3 DEF Merged

LEMMA ReshapeLists ==
  ASSUME NEW mem, NEW mem2, NEW brk, NEW B, NEW p, NEW N, NEW C, NEW O, O = Outside(B, p, N),
         Tiled(mem, brk, B), Reshaped(mem, mem2, brk, B, p, N, C),
         NEW F \in SUBSET O, NEW seg, Listed(mem, seg, F)
  PROVE  Listed(mem2, seg, F)
<1>1. \A b \in O : b \in B /\ get_size(mem2, b) = get_size(mem, b) /\ SamePayload(mem, mem2, b)
  BY Reshape DEF KeptOutside
<1>2. Apart(mem, F)
  BY <1>1, TiledApart, ApartSubset
<1>3. ASSUME NEW f \in F
      PROVE  /\ get_size(mem2, f) = get_size(mem, f) /\ mem2[f + 1] = mem[f + 1]
             /\ get_size(mem, f) # 2 => mem2[f + 2] = mem[f + 2]
  <2>1. PICK s : s = get_size(mem, f)
    OBVIOUS
  <2>2. s \in Nat /\ s >= 2 /\ (s # 2 => s >= 4)
    BY <1>2, <1>3, <2>1 DEF Apart
  <2>3. 1 \in 1..s - 1 /\ (s # 2 => 2 \in 1..s - 1)
    BY ONLY <2>2
  <2>4. f \in O
    BY <1>3
  <2> QED BY <1>1, <2>1, <2>3, <2>4 DEF SamePayload
<1> QED BY ONLY <1>2, <1>3, SameLinks, Listed(mem, seg, F)

(* The block before a block.                                               *)
LEMMA HasPredecessor ==
  ASSUME NEW mem, NEW brk, NEW B, Tiled(mem, brk, B), NEW b \in B \cup {brk - 1}, b # 1
  PROVE  \E q \in B : find_next(mem, q) = b
<1>1. /\ brk \in Nat /\ B \subseteq 1..(brk - 2) /\ 1 \in B \cup {brk - 1}
      /\ \A q \in B : get_size(mem, q) >= 2 /\ find_next(mem, q) \in B \cup {brk - 1}
      /\ \A q, c \in B : q < c => find_next(mem, q) <= c
  BY TiledApart DEF Tiled
<1>2. \A q \in B : q \in Nat /\ q >= 1 /\ q <= brk - 2 /\ find_next(mem, q) \in Nat /\ find_next(mem, q) > q
                   /\ find_next(mem, q) <= brk - 1
  <2> SUFFICES ASSUME NEW q \in B
               PROVE  /\ q \in Nat /\ q >= 1 /\ q <= brk - 2 /\ find_next(mem, q) \in Nat /\ find_next(mem, q) > q
                      /\ find_next(mem, q) <= brk - 1
    OBVIOUS
  <2>1. PICK n, s : n = find_next(mem, q) /\ s = get_size(mem, q)
    OBVIOUS
  <2>2. n = q + s /\ s \in Nat /\ s >= 2 /\ q + s <= brk - 1 /\ q \in 1..(brk - 2)
    BY <1>1, <2>1, TiledApart DEF Apart
  <2> QED BY ONLY <1>1, <2>1, <2>2
<1>3. b \in Nat /\ b >= 1 /\ b <= brk - 1
  BY <1>1, <1>2
<1>4. 1 \in B
  BY ONLY <1>1, <1>2, <1>3, b # 1, b \in B \cup {brk - 1}
<1> DEFINE S == {k \in Nat : k >= 1 /\ b - k \in B}
<1>5. S # {} /\ S \in SUBSET Nat
  <2>1. b - 1 \in Nat /\ b - 1 >= 1 /\ b - (b - 1) = 1
    BY ONLY <1>3, b # 1
  <2> QED BY <1>4, <2>1
<1>6. PICK k \in S : \A m \in S : k <= m
  <2> HIDE DEF S
  <2> QED BY <1>5, LeastNat
<1>7. PICK q, n : q = b - k /\ n = find_next(mem, q)
  OBVIOUS
<1>8. k \in Nat /\ k >= 1 /\ q \in B /\ q < b
  BY <1>3, <1>6, <1>7
<1>9. n \in Nat /\ n > q /\ n \in B \cup {brk - 1} /\ n <= brk - 1 /\ q \in Nat
  BY <1>1, <1>2, <1>7, <1>8
<1>10. n <= b
  <2>1. CASE b \in B
    BY <1>1, <1>7, <1>8, <2>1
  <2>2. CASE b = brk - 1
    BY <1>9, <2>2
  <2> QED BY <2>1, <2>2
<1>11. ~(n < b)
  <2> SUFFICES ASSUME n < b PROVE FALSE
    OBVIOUS
  <2>1. n \in B
    BY ONLY <1>1, <1>3, <1>9, n < b
  <2>2. PICK m : m = b - n
    OBVIOUS
  <2>3. m \in Nat /\ m >= 1 /\ b - m = n /\ m < k
    BY ONLY <1>3, <1>7, <1>8, <1>9, <2>2, n < b
  <2>4. m \in S
    BY <2>1, <2>3
  <2> QED BY ONLY <1>6, <1>8, <2>3, <2>4
<1>12. n = b
  BY ONLY <1>3, <1>9, <1>10, <1>11
<1> QED BY <1>7, <1>8, <1>12

(* What the header of b says of the block before b, if no block of X is.   *)
NotAfter(mem, X, b) == \A q \in X : find_next(mem, q) # b

LEMMA BeforeIsFree ==
  ASSUME NEW mem, NEW brk, NEW B, NEW X, Tiled(mem, brk, B), Tagged(mem, B, X), NEW b \in B \cup {brk - 1},
         NotAfter(mem, X, b), ~get_prev_alloc(mem, b), NEW q, q = find_prev(mem, b)
  PROVE  q \in B /\ ~get_alloc(mem, q) /\ find_next(mem, q) = b /\ b # 1 /\ q \notin X
<1>1. b # 1
  BY DEF Tagged
<1>2. PICK r \in B : find_next(mem, r) = b
  BY <1>1, HasPredecessor
<1>3. Told(mem, r) /\ Footed(mem, r) /\ r \notin X
  <2>1. r \in B \ X
    BY <1>2 DEF NotAfter
  <2> QED BY <2>1 DEF Tagged
<1>4. get_prev_alloc(mem, b) = get_alloc(mem, r)
  BY <1>2, <1>3, Zenon DEF Told
<1>5. ~get_alloc(mem, r)
  BY <1>4, Zenon DEF get_prev_alloc, get_alloc, extract_alloc
<1>6. get_prev_mini(mem, b) = (get_size(mem, r) = 2)
  BY <1>2, <1>3, <1>5, Zenon DEF Told
<1>7. PICK s : s = get_size(mem, r)
  OBVIOUS
<1>8. s \in Nat /\ r \in Nat /\ b = r + s
  BY <1>2, <1>7, TiledApart DEF Apart
<1>9. q = r
  <2>1. CASE s = 2
    <3>1. get_prev_mini(mem, b)
      BY <1>6, <1>7, <2>1
    <3>2. q = b - 2
      BY <3>1 DEF find_prev, dsize
    <3> QED BY ONLY <1>8, <2>1, <3>2
  <2>2. CASE s # 2
    <3>1. ~get_prev_mini(mem, b)
      BY <1>6, <1>7, <2>2
    <3>2. extract_size(mem[header_to_footer(mem, r)]) = s
      BY <1>3, <1>5, <1>7, <2>2 DEF Footed, SaysFree
    <3>3. header_to_footer(mem, r) = b - 1
      <4>1. r + s - 1 = b - 1
        BY ONLY <1>8
      <4> QED BY <1>7, <4>1 DEF header_to_footer
    <3>4. q = b - s
      BY <3>1, <3>2, <3>3 DEF find_prev
    <3> QED BY ONLY <1>8, <3>4
  <2> QED BY <2>1, <2>2
<1> QED BY <1>1, <1>2, <1>3, <1>5, <1>9

(* Before a free block lies a used one.                                    *)
LEMMA BeforeFree ==
  ASSUME NEW mem, NEW brk, NEW B, NEW X, Tiled(mem, brk, B), Tagged(mem, B, X), Merged(mem, B, X),
         NEW b \in B, b \notin X, NotAfter(mem, X, b), ~get_alloc(mem, b)
  PROVE  get_prev_alloc(mem, b)
<1> SUFFICES ASSUME ~get_prev_alloc(mem, b) PROVE FALSE
  OBVIOUS
<1>1. PICK q : q = find_prev(mem, b)
  OBVIOUS
<1>2. q \in B /\ ~get_alloc(mem, q) /\ find_next(mem, q) = b /\ q \notin X
  BY <1>1, BeforeIsFree
<1> QED BY <1>2 DEF Merged

-----------------------------------------------------------------------------
(* The blocks as segments. *)

Seg(mem, b)  == [at |-> b, size |-> get_size(mem, b), used |-> get_alloc(mem, b)]
Segs(mem, B) == {Seg(mem, b) : b \in B}

(* The sum over a set that a function c takes apart one by one.            *)
Additive(S, c) ==
  /\ c \in [SUBSET S -> Nat] /\ c[{}] = 0
  /\ \A s \in SUBSET S : \A x \in s : x.size \in Nat /\ x.size > 0 /\ c[s] = x.size + c[s \ {x}]

LEMMA TotalIs ==
  ASSUME NEW S, NEW c, Additive(S, c)
  PROVE  SG!Total(S) = c[S]
<1> DEFINE Pick(s) == CHOOSE x \in s : TRUE
           Step(f) == [s \in SUBSET S |-> IF s = {} THEN 0 ELSE Pick(s).size + f[s \ {Pick(s)}]]
           f == CHOOSE g : g = Step(g)
<1>1. SG!Total(S) = f[S]
  BY DEF SG!Total, SG!MapThenSumSet, SG!MapThenFoldSet
<1>2. \A s \in SUBSET S : s # {} => Pick(s) \in s
  OBVIOUS
<1>3. /\ c \in [SUBSET S -> Nat] /\ c[{}] = 0
      /\ \A s \in SUBSET S : \A x \in s : x.size \in Nat /\ x.size > 0 /\ c[s] = x.size + c[s \ {x}]
  BY DEF Additive
<1>4. c = Step(c)
  <2>1. ASSUME NEW s \in SUBSET S
        PROVE  c[s] = IF s = {} THEN 0 ELSE Pick(s).size + c[s \ {Pick(s)}]
    <3> HIDE DEF Pick
    <3> QED BY <1>2, <1>3
  <2> HIDE DEF Pick
  <2> QED BY <1>3, <2>1
<1>5. f = Step(f)
  <2> HIDE DEF Step
  <2> QED BY <1>4
<1>6. \A s \in SUBSET S : f[s] = IF s = {} THEN 0 ELSE Pick(s).size + f[s \ {Pick(s)}]
  <2> HIDE DEF f, Pick
  <2> QED BY <1>5
<1> DEFINE Wrong == {s \in SUBSET S : f[s] # c[s]}
           K == {c[s] : s \in Wrong}
<1>7. Wrong = {}
  <2> SUFFICES ASSUME Wrong # {} PROVE FALSE
    OBVIOUS
  <2> HIDE DEF f, Pick
  <2>1. K # {} /\ K \in SUBSET Nat
    BY <1>3
  <2>2. PICK m \in K : \A k \in K : m <= k
    <3> HIDE DEF K
    <3> QED BY <2>1, LeastNat
  <2>3. PICK s \in Wrong : m = c[s]
    BY <2>2
  <2>4. s \in SUBSET S /\ f[s] # c[s]
    BY <2>3
  <2>5. s # {}
    BY <1>3, <1>6, <2>4
  <2>6. PICK x \in s, t \in SUBSET S : x = Pick(s) /\ t = s \ {x}
    BY <1>2, <2>4, <2>5
  <2>7. f[s] = x.size + f[t] /\ c[s] = x.size + c[t] /\ x.size \in Nat /\ x.size > 0 /\ c[t] \in Nat
    BY <1>3, <1>6, <2>4, <2>5, <2>6
  <2>8. f[t] # c[t]
    BY <2>4, <2>7
  <2>9. c[t] \in K
    BY <2>6, <2>8
  <2>10. m <= c[t] /\ m \in Nat
    BY <2>1, <2>2, <2>9
  <2> QED BY ONLY <2>3, <2>7, <2>10
<1>8. f[S] = c[S]
  <2> HIDE DEF f
  <2>1. S \in SUBSET S
    OBVIOUS
  <2> QED BY <1>7, <2>1
<1> QED BY <1>1, <1>8

(* Segments that lie side by side from p to N.                             *)
Covering(S, p, N) ==
  /\ p \in Nat /\ N \in Nat /\ p <= N
  /\ \A g \in S : g.at \in Nat /\ g.size \in Nat /\ g.size > 0 /\ p <= g.at /\ g.at + g.size <= N
  /\ \A g, o \in S : g # o => g.at + g.size <= o.at \/ o.at + o.size <= g.at
  /\ \A w \in p..(N - 1) : \E g \in S : g.at <= w /\ w < g.at + g.size

(* The words of a set of segments.                                         *)
WordsOf(s) == UNION {g.at..(g.at + g.size - 1) : g \in s}

LEMMA TotalOfCovering ==
  ASSUME NEW S, NEW p, NEW N, Covering(S, p, N)
  PROVE  SG!Total(S) = N - p
<1> DEFINE c == [s \in SUBSET S |-> Cardinality(WordsOf(s))]
<1>1. /\ p \in Nat /\ N \in Nat /\ p <= N
      /\ \A g \in S : g.at \in Nat /\ g.size \in Nat /\ g.size > 0 /\ p <= g.at /\ g.at + g.size <= N
      /\ \A g, o \in S : g # o => g.at + g.size <= o.at \/ o.at + o.size <= g.at
      /\ \A w \in p..(N - 1) : \E g \in S : g.at <= w /\ w < g.at + g.size
  BY DEF Covering
<1>2. PICK z : z = N - 1
  OBVIOUS
<1>3. \A g, o \in S : g # o => (g.at..(g.at + g.size - 1)) \cap (o.at..(o.at + o.size - 1)) = {}
  <2> SUFFICES ASSUME NEW g \in S, NEW o \in S, g # o
               PROVE  (g.at..(g.at + g.size - 1)) \cap (o.at..(o.at + o.size - 1)) = {}
    OBVIOUS
  <2>1. PICK k, m, x, y : k = g.at /\ m = o.at /\ x = g.size /\ y = o.size
    OBVIOUS
  <2>2. k \in Nat /\ m \in Nat /\ x \in Nat /\ y \in Nat /\ (k + x <= m \/ m + y <= k)
    BY <1>1, <2>1
  <2>3. (k..(k + x - 1)) \cap (m..(m + y - 1)) = {}
    BY ONLY <2>2
  <2> QED BY <2>1, <2>3
<1>4. \A s \in SUBSET S : WordsOf(s) \subseteq p..z
  <2> SUFFICES ASSUME NEW s \in SUBSET S, NEW g \in s PROVE g.at..(g.at + g.size - 1) \subseteq p..z
    BY DEF WordsOf
  <2>1. PICK k, x : k = g.at /\ x = g.size
    OBVIOUS
  <2>2. k \in Nat /\ x \in Nat /\ p <= k /\ k + x <= N
    BY <1>1, <2>1
  <2>3. k..(k + x - 1) \subseteq p..z
    BY ONLY <1>1, <1>2, <2>2
  <2> QED BY <2>1, <2>3
<1>5. IsFiniteSet(p..z) /\ Cardinality(p..z) = N - p
  <2>1. p \in Int /\ z \in Int /\ (IF p > z THEN 0 ELSE z - p + 1) = N - p
    BY ONLY <1>1, <1>2
  <2>2. IsFiniteSet(p..z) /\ Cardinality(p..z) = IF p > z THEN 0 ELSE z - p + 1
    BY ONLY <2>1, FS_Interval
  <2> QED BY <2>1, <2>2
<1>6. \A s \in SUBSET S : IsFiniteSet(WordsOf(s)) /\ Cardinality(WordsOf(s)) \in Nat
  BY <1>4, <1>5, FS_Subset, FS_CardinalityType
<1>7. ASSUME NEW s \in SUBSET S, NEW g \in s
      PROVE  g.size \in Nat /\ g.size > 0 /\ c[s] = g.size + c[s \ {g}]
  <2>1. PICK t, k, x, y, I : t \in SUBSET S /\ t = s \ {g} /\ k = g.at /\ x = g.size /\ y = k + x - 1 /\ I = k..y
    OBVIOUS
  <2>2. k \in Nat /\ x \in Nat /\ x > 0
    BY <1>1, <2>1
  <2>3. IsFiniteSet(I) /\ Cardinality(I) = x
    <3>1. k \in Int /\ y \in Int /\ ~(k > y) /\ y - k + 1 = x
      BY ONLY <2>1, <2>2
    <3>2. IsFiniteSet(k..y) /\ Cardinality(k..y) = IF k > y THEN 0 ELSE y - k + 1
      BY ONLY <3>1, FS_Interval
    <3> QED BY <2>1, <3>1, <3>2
  <2>4. WordsOf(s) = I \cup WordsOf(t)
    BY <2>1 DEF WordsOf
  <2>5. I \cap WordsOf(t) = {}
    <3> SUFFICES ASSUME NEW o \in t PROVE I \cap (o.at..(o.at + o.size - 1)) = {}
      BY DEF WordsOf
    <3> QED BY <1>3, <2>1
  <2>6. IsFiniteSet(WordsOf(t)) /\ Cardinality(WordsOf(t)) \in Nat
    BY <1>6, <2>1
  <2>7. Cardinality(I \cup WordsOf(t)) = Cardinality(I) + Cardinality(WordsOf(t)) - Cardinality(I \cap WordsOf(t))
    BY ONLY <2>3, <2>6, FS_Union
  <2>8. Cardinality(WordsOf(s)) = x + Cardinality(WordsOf(t))
    <3>1. Cardinality(I \cap WordsOf(t)) = 0
      BY <2>5, FS_EmptySet
    <3> QED BY <2>2, <2>3, <2>4, <2>6, <2>7, <3>1
  <2> QED BY <2>1, <2>2, <2>8
<1>8. Additive(S, c)
  <2>1. c[{}] = 0
    <3>1. WordsOf({}) = {}
      BY DEF WordsOf
    <3> QED BY <3>1, FS_EmptySet
  <2>2. c \in [SUBSET S -> Nat]
    BY <1>6
  <2> HIDE DEF c
  <2> QED BY <1>7, <2>1, <2>2 DEF Additive
<1>9. WordsOf(S) = p..z
  <2>1. ASSUME NEW w \in p..z PROVE w \in WordsOf(S)
    <3>1. PICK g \in S : g.at <= w /\ w < g.at + g.size
      BY <1>1, <1>2
    <3>2. PICK k, x : k = g.at /\ x = g.size
      OBVIOUS
    <3>3. k \in Nat /\ x \in Nat /\ k <= w /\ w < k + x
      BY <1>1, <3>1, <3>2
    <3>4. w \in k..(k + x - 1)
      BY ONLY <1>1, <3>3, w \in p..z
    <3> QED BY <3>2, <3>4 DEF WordsOf
  <2>2. WordsOf(S) \subseteq p..z
    BY <1>4
  <2> QED BY <2>1, <2>2
<1>10. SG!Total(S) = c[S]
  <2> HIDE DEF c
  <2> QED BY <1>8, TotalIs
<1>11. c[S] = Cardinality(WordsOf(S))
  <2>1. S \in SUBSET S
    OBVIOUS
  <2> QED BY <2>1
<1> QED BY <1>5, <1>9, <1>10, <1>11

(* Every word below the epilogue is in a block.                            *)
LEMMA TiledCovers ==
  ASSUME NEW mem, NEW brk, NEW B, Tiled(mem, brk, B), NEW w \in 1..(brk - 2)
  PROVE  \E b \in B : b <= w /\ w < b + get_size(mem, b)
<1>1. /\ brk \in Nat /\ B \subseteq 1..(brk - 2) /\ 1 \in B \cup {brk - 1}
      /\ \A q \in B : find_next(mem, q) \in B \cup {brk - 1}
  BY TiledApart DEF Tiled
<1>2. \A q \in B : q \in Nat /\ find_next(mem, q) = q + get_size(mem, q) /\ get_size(mem, q) \in Nat /\ get_size(mem, q) >= 2
  BY TiledApart DEF Apart
<1>3. w \in Nat /\ w >= 1 /\ w <= brk - 2
  BY <1>1
<1>4. 1 \in B
  BY ONLY <1>1, <1>3
<1> DEFINE S == {k \in Nat : w - k \in B}
<1>5. S # {} /\ S \in SUBSET Nat
  <2>1. w - 1 \in Nat /\ w - (w - 1) = 1
    BY ONLY <1>3
  <2> QED BY <1>4, <2>1
<1>6. PICK k \in S : \A m \in S : k <= m
  <2> HIDE DEF S
  <2> QED BY <1>5, LeastNat
<1>7. PICK q, n, s : q = w - k /\ n = find_next(mem, q) /\ s = get_size(mem, q)
  OBVIOUS
<1>8. k \in Nat /\ q \in B /\ q \in Nat /\ q <= w /\ s \in Nat /\ s >= 2 /\ n = q + s
  <2>1. k \in Nat /\ q \in B
    BY <1>6, <1>7
  <2>2. q \in Nat /\ s \in Nat /\ s >= 2 /\ n = q + s
    BY <1>2, <1>7, <2>1
  <2> QED BY ONLY <1>3, <1>7, <2>1, <2>2
<1>9. w < n
  <2> SUFFICES ASSUME ~(w < n) PROVE FALSE
    OBVIOUS
  <2>1. n \in B \cup {brk - 1}
    BY <1>1, <1>7, <1>8
  <2>2. n \in B
    BY ONLY <1>1, <1>3, <1>8, <2>1, ~(w < n)
  <2>3. PICK m : m = w - n
    OBVIOUS
  <2>4. m \in Nat /\ w - m = n /\ m < k
    BY ONLY <1>3, <1>7, <1>8, <2>3, ~(w < n)
  <2>5. m \in S
    BY <2>2, <2>4
  <2> QED BY ONLY <1>6, <1>8, <2>4, <2>5
<1> QED BY <1>7, <1>8, <1>9

(* The blocks between two of them cover the words between.                 *)
LEMMA BlocksCover ==
  ASSUME NEW mem, NEW brk, NEW B, Tiled(mem, brk, B), NEW p \in B \cup {brk - 1}, NEW N \in B \cup {brk - 1}, p <= N
  PROVE  Covering(Segs(mem, {b \in B : p <= b /\ b < N}), p, N)
<1> DEFINE M == {b \in B : p <= b /\ b < N}
           S == Segs(mem, M)
<1>1. /\ brk \in Nat /\ brk >= 2
      /\ \A b \in B : /\ b \in Nat /\ b > 0 /\ get_size(mem, b) \in Nat /\ get_size(mem, b) >= 2
                      /\ b + get_size(mem, b) <= brk - 1 /\ b <= brk - 2
      /\ \A b, o \in B : b < o => b + get_size(mem, b) <= o
  BY TiledApart DEF Apart
<1>2. p \in Nat /\ N \in Nat /\ p > 0 /\ N <= brk - 1
  <2>1. \A x \in B \cup {brk - 1} : x \in Nat /\ x > 0 /\ x <= brk - 1
    BY <1>1
  <2> QED BY <2>1
<1>3. \A b \in M : b + get_size(mem, b) <= N
  <2> SUFFICES ASSUME NEW b \in M PROVE b + get_size(mem, b) <= N
    OBVIOUS
  <2>1. b \in B /\ b < N
    OBVIOUS
  <2> QED BY <1>1, <2>1
<1>4. \A g \in S : g.at \in M /\ g.size = get_size(mem, g.at) /\ g = Seg(mem, g.at)
  BY DEF Segs, Seg
<1>5. \A g \in S : g.at \in Nat /\ g.size \in Nat /\ g.size > 0 /\ p <= g.at /\ g.at + g.size <= N
  <2> SUFFICES ASSUME NEW g \in S PROVE g.at \in Nat /\ g.size \in Nat /\ g.size > 0 /\ p <= g.at /\ g.at + g.size <= N
    OBVIOUS
  <2>1. PICK b \in M : b = g.at /\ g.size = get_size(mem, b)
    BY <1>4
  <2>2. PICK s : s = get_size(mem, b)
    OBVIOUS
  <2>3. b \in Nat /\ s \in Nat /\ s >= 2 /\ b + s <= N /\ p <= b
    BY <1>1, <1>3, <2>2
  <2>4. s > 0
    BY ONLY <2>3
  <2> QED BY <2>1, <2>2, <2>3, <2>4
<1>6. \A g, o \in S : g # o => g.at + g.size <= o.at \/ o.at + o.size <= g.at
  <2> SUFFICES ASSUME NEW g \in S, NEW o \in S, g # o PROVE g.at + g.size <= o.at \/ o.at + o.size <= g.at
    OBVIOUS
  <2>1. PICK b, x : b = g.at /\ x = o.at
    OBVIOUS
  <2>2. b \in B /\ x \in B /\ b # x /\ g.size = get_size(mem, b) /\ o.size = get_size(mem, x)
    BY <1>4, <2>1
  <2>3. b < x \/ x < b
    BY <1>1, <2>2
  <2> QED BY <1>1, <2>1, <2>2, <2>3
<1>7. \A w \in p..(N - 1) : \E g \in S : g.at <= w /\ w < g.at + g.size
  <2> SUFFICES ASSUME NEW w \in p..(N - 1) PROVE \E g \in S : g.at <= w /\ w < g.at + g.size
    OBVIOUS
  <2>1. w \in 1..(brk - 2)
    BY ONLY <1>1, <1>2, w \in p..(N - 1)
  <2>2. PICK b \in B : b <= w /\ w < b + get_size(mem, b)
    BY <2>1, TiledCovers
  <2>3. p <= b
    <3>1. CASE p \in B
      <4>1. b < p => b + get_size(mem, b) <= p
        BY <1>1, <3>1
      <4>2. PICK s : s = get_size(mem, b)
        OBVIOUS
      <4> QED BY ONLY <1>1, <1>2, <2>2, <4>1, <4>2, b \in B, w \in p..(N - 1)
    <3>2. CASE p = brk - 1
      BY ONLY <1>1, <1>2, <3>2, w \in p..(N - 1)
    <3> QED BY <3>1, <3>2
  <2>4. b < N
    BY ONLY <1>1, <1>2, <2>2, w \in p..(N - 1), b \in B
  <2>5. Seg(mem, b) \in S /\ Seg(mem, b).at = b /\ Seg(mem, b).size = get_size(mem, b)
    BY <2>3, <2>4 DEF Segs, Seg
  <2> QED BY <2>2, <2>5
<1> HIDE DEF S, M
<1>8. Covering(S, p, N)
  BY <1>2, <1>5, <1>6, <1>7 DEF Covering
<1> QED BY <1>8 DEF S, M

(* The sizes of the blocks add up to the words before the epilogue.        *)
LEMMA TotalOfBlocks ==
  ASSUME NEW mem, NEW brk, NEW B, Tiled(mem, brk, B)
  PROVE  SG!Total(Segs(mem, B)) = brk - 2
<1>1. PICK E : E = brk - 1
  OBVIOUS
<1>2. brk \in Nat /\ brk >= 2 /\ \A b \in B : b \in Nat /\ b > 0 /\ b <= brk - 2
  BY TiledApart DEF Apart
<1>3. 1 \in B \cup {E} /\ E \in B \cup {E} /\ 1 <= E /\ E - 1 = brk - 2
  BY <1>1, <1>2 DEF Tiled
<1>4. {b \in B : 1 <= b /\ b < E} = B
  <2>1. ASSUME NEW b \in B PROVE 1 <= b /\ b < E
    BY <1>1, <1>2
  <2> QED BY <2>1
<1>5. Covering(Segs(mem, B), 1, E)
  <2>1. Covering(Segs(mem, {b \in B : 1 <= b /\ b < E}), 1, E)
    BY ONLY <1>1, <1>3, Tiled(mem, brk, B), BlocksCover
  <2> QED BY <1>4, <2>1
<1>6. SG!Total(Segs(mem, B)) = E - 1
  BY ONLY <1>5, TotalOfCovering
<1> QED BY <1>3, <1>6

(* The words from p to N are those of b and of its free neighbours.        *)
Merging(mem, brk, B, b, p, N, O) ==
  /\ O = Outside(B, p, N) /\ p \in B /\ N \in B \cup {brk - 1} /\ p <= b /\ b < N /\ b \in B
  /\ B \ O = {b} \cup {o \in B : ~get_alloc(mem, o) /\ (find_next(mem, o) = b \/ find_next(mem, b) = o)}

(* Blocks of the same sizes and uses are the same segments.                *)
SameSegs(mem, mem2, B) ==
  \A x \in B : get_size(mem2, x) = get_size(mem, x) /\ (get_alloc(mem2, x) <=> get_alloc(mem, x))
LEMMA SegsAre ==
  ASSUME NEW mem, NEW mem2, NEW B, SameSegs(mem, mem2, B)
  PROVE  Segs(mem2, B) = Segs(mem, B) /\ \A x \in B : Seg(mem2, x) = Seg(mem, x)
<1>1. ASSUME NEW x \in B PROVE Seg(mem2, x) = Seg(mem, x)
  <2>1. get_size(mem2, x) = get_size(mem, x) /\ (get_alloc(mem2, x) <=> get_alloc(mem, x))
    BY DEF SameSegs
  <2>2. get_alloc(mem2, x) = get_alloc(mem, x)
    BY <2>1, Zenon DEF get_alloc, extract_alloc
  <2> QED BY <2>1, <2>2, Zenon DEF Seg
<1> QED BY <1>1 DEF Segs

LEMMA SegsTwice ==
  ASSUME NEW mem, NEW mem2, NEW mem3, NEW B, SameSegs(mem, mem2, B), SameSegs(mem2, mem3, B)
  PROVE  SameSegs(mem, mem3, B)
BY Zenon DEF SameSegs

LEMMA TagsSegs ==
  ASSUME NEW mem, NEW mem2, NEW brk, NEW B, SameTags(mem, mem2, brk, B)
  PROVE  SameSegs(mem, mem2, B)
<1>1. ASSUME NEW x \in B PROVE get_size(mem2, x) = get_size(mem, x) /\ (get_alloc(mem2, x) <=> get_alloc(mem, x))
  <2>1. mem2[x] = mem[x]
    BY DEF SameTags
  <2> QED BY <2>1, Zenon DEF get_size, get_alloc
<1> QED BY <1>1 DEF SameSegs

(* Merging gives a segment back.                                           *)
LEMMA GivenIs ==
  ASSUME NEW mem, NEW brk, NEW B, Tiled(mem, brk, B), NEW b, NEW p, NEW N, NEW O, Merging(mem, brk, B, b, p, N, O),
         NEW mem2, SameSegs(mem, mem2, O), get_size(mem2, p) = N - p, ~get_alloc(mem2, p)
  PROVE  Segs(mem2, O \cup {p}) = SG!Given(Segs(mem, B), Seg(mem, b))
<1>1. PICK M, S, R, g : M = B \ O /\ S = Segs(mem, B) /\ R = Segs(mem, M) /\ g = Seg(mem, b)
  OBVIOUS
<1>2. /\ O = Outside(B, p, N) /\ p \in B /\ N \in B \cup {brk - 1} /\ p <= b /\ b < N /\ b \in B
      /\ M = {b} \cup {o \in B : ~get_alloc(mem, o) /\ (find_next(mem, o) = b \/ find_next(mem, b) = o)}
  BY <1>1 DEF Merging
<1>3. /\ brk \in Nat /\ N \in Nat /\ p \in Nat /\ p < N /\ \A x \in B : x \in Nat
  <2>1. brk \in Nat /\ brk >= 2 /\ \A x \in B : x \in Nat
    BY TiledApart DEF Apart
  <2> QED BY <1>2, <2>1
<1>4. M = {x \in B : p <= x /\ x < N} /\ p \in M /\ O \subseteq B
  <2>1. O = {x \in B : x < p \/ x >= N}
    BY <1>2 DEF Outside
  <2>2. \A x \in B : ~(x < p \/ x >= N) <=> p <= x /\ x < N
    BY ONLY <1>3
  <2>3. M = {x \in B : p <= x /\ x < N} /\ O \subseteq B
    BY ONLY <1>1, <2>1, <2>2
  <2> QED BY ONLY <1>2, <1>3, <2>3
<1>5. R = {g} \cup {o \in S : ~o.used /\ (o.at + o.size = g.at \/ g.at + g.size = o.at)}
  <2>1. ASSUME NEW o \in R PROVE o \in {g} \cup {e \in S : ~e.used /\ (e.at + e.size = g.at \/ g.at + g.size = e.at)}
    <3>1. PICK x \in M : o = Seg(mem, x)
      BY <1>1 DEF Segs
    <3>2. CASE x = b
      BY <1>1, <3>1, <3>2
    <3>3. CASE x # b
      <4>1. x \in B /\ ~get_alloc(mem, x) /\ (find_next(mem, x) = b \/ find_next(mem, b) = x)
        BY <1>2, <3>3
      <4> QED BY <1>1, <3>1, <4>1 DEF Segs, Seg, find_next
    <3> QED BY <3>2, <3>3
  <2>2. ASSUME NEW o \in S, ~o.used, o.at + o.size = g.at \/ g.at + g.size = o.at PROVE o \in R
    <3>1. PICK x \in B : o = Seg(mem, x)
      BY <1>1 DEF Segs
    <3>2. ~get_alloc(mem, x) /\ (find_next(mem, x) = b \/ find_next(mem, b) = x)
      BY <1>1, <2>2, <3>1 DEF Seg, find_next
    <3>3. x \in M
      BY <1>2, <3>2
    <3> QED BY <1>1, <3>1, <3>3 DEF Segs
  <2>3. g \in R
    BY <1>1, <1>2 DEF Segs
  <2> QED BY <2>1, <2>2, <2>3
<1>6. SG!Given(S, g) = (S \ R) \cup {[at |-> SG!Min({o.at : o \in R}), size |-> SG!Total(R), used |-> FALSE]}
  BY <1>5 DEF SG!Given
<1>7. S \ R = Segs(mem, O)
  <2>1. \A x, y \in B : Seg(mem, x) = Seg(mem, y) => x = y
    BY DEF Seg
  <2> QED BY <1>1, <1>4, <2>1 DEF Segs
<1>8. SG!Min({o.at : o \in R}) = p
  <2>1. {o.at : o \in R} = M
    <3>1. \A o \in R : o.at \in M
      BY <1>1 DEF Segs, Seg
    <3>2. ASSUME NEW x \in M PROVE \E o \in R : o.at = x
      <4>1. Seg(mem, x) \in R
        BY <1>1 DEF Segs
      <4>2. Seg(mem, x).at = x
        BY DEF Seg
      <4> QED BY <4>1, <4>2
    <3> QED BY ONLY <3>1, <3>2
  <2>2. \A x \in M : p <= x /\ x \in Nat
    BY <1>3, <1>4
  <2>3. \A x \in M : (\A y \in M : x <= y) => x = p
    BY <1>3, <1>4, <2>2
  <2>4. SG!Min(M) = p
    BY <1>4, <2>2, <2>3 DEF SG!Min
  <2> QED BY <2>1, <2>4
<1>9. SG!Total(R) = N - p
  <2>1. p \in B \cup {brk - 1} /\ N \in B \cup {brk - 1} /\ p <= N
    BY <1>2, <1>3
  <2>2. Covering(R, p, N)
    BY ONLY <1>1, <1>4, <2>1, Tiled(mem, brk, B), BlocksCover
  <2> QED BY <2>2, TotalOfCovering
<1>10. Segs(mem2, O \cup {p}) = Segs(mem2, O) \cup {Seg(mem2, p)}
  BY DEF Segs
<1>11. Seg(mem2, p) = [at |-> p, size |-> N - p, used |-> FALSE]
  <2>1. get_alloc(mem2, p) = FALSE
    BY Zenon DEF get_alloc, extract_alloc
  <2> QED BY <2>1, Zenon DEF Seg
<1>12. Segs(mem2, O) = Segs(mem, O)
  BY SegsAre
<1>13. SG!Given(S, g) = Segs(mem, O) \cup {[at |-> p, size |-> N - p, used |-> FALSE]}
  BY ONLY <1>6, <1>7, <1>8, <1>9
<1>14. Segs(mem2, O \cup {p}) = Segs(mem, O) \cup {[at |-> p, size |-> N - p, used |-> FALSE]}
  BY ONLY <1>10, <1>11, <1>12
<1> QED BY ONLY <1>1, <1>13, <1>14

-----------------------------------------------------------------------------
(* The walk over the heap. *)

(* The blocks from the first to b, in their order.                         *)
Path(mem, B, b, n, c) ==
  /\ n \in Nat /\ c \in [0..n -> Nat] /\ c[0] = 1 /\ c[n] = b
  /\ \A i \in 0..n - 1 : c[i] \in B /\ c[i + 1] = find_next(mem, c[i])

LEMMA PathTo ==
  ASSUME NEW mem, NEW brk, NEW B, Tiled(mem, brk, B)
  PROVE  \E n, c : Path(mem, B, brk - 1, n, c)
<1> DEFINE E == brk - 1
           R == {b \in B \cup {E} : ~ \E n, c : Path(mem, B, b, n, c)}
<1>1. /\ brk \in Nat /\ brk >= 2 /\ \A b \in B : b \in Nat /\ b < find_next(mem, b)
  <2>1. brk \in Nat /\ brk >= 2
    BY TiledApart
  <2>2. ASSUME NEW b \in B PROVE b \in Nat /\ b < find_next(mem, b)
    <3>1. PICK s, t : s = get_size(mem, b) /\ t = find_next(mem, b)
      OBVIOUS
    <3>2. b \in Nat /\ s \in Nat /\ s >= 2 /\ t = b + s
      BY <3>1, TiledApart DEF Apart
    <3> QED BY ONLY <3>1, <3>2
  <2> QED BY <2>1, <2>2
<1>2. SUFFICES ASSUME R # {} PROVE FALSE
  BY DEF R
<1>3. PICK b \in R : \A x \in R : b <= x
  <2>1. R \in SUBSET Nat
    BY <1>1
  <2> HIDE DEF R
  <2> QED BY <1>2, <2>1, LeastNat
<1>4. b \in B \cup {E} /\ b \in Nat /\ ~ \E n, c : Path(mem, B, b, n, c)
  BY <1>1, <1>3
<1>5. b # 1
  <2> SUFFICES ASSUME b = 1 PROVE FALSE
    OBVIOUS
  <2>1. PICK c : c = [i \in 0..0 |-> 1]
    OBVIOUS
  <2>2. c \in [0..0 -> Nat] /\ c[0] = 1 /\ 0 \in Nat /\ 0..0 - 1 = {}
    BY <2>1
  <2>3. Path(mem, B, b, 0, c)
    BY <2>2 DEF Path
  <2> QED BY <1>4, <2>3
<1>6. PICK q \in B : find_next(mem, q) = b
  <2>1. b \in (B \cup {brk - 1}) /\ b # 1
    BY <1>4, <1>5
  <2> QED BY ONLY <2>1, Tiled(mem, brk, B), HasPredecessor
<1>7. q \in B \cup {E} /\ q \notin R
  <2>1. q < b /\ q \in Nat
    BY <1>1, <1>6
  <2> QED BY <1>3, <1>4, <2>1
<1>8. PICK n, c : Path(mem, B, q, n, c)
  BY <1>7 DEF R
<1>9. PICK d : d = [i \in 0..(n + 1) |-> IF i = n + 1 THEN b ELSE c[i]]
  OBVIOUS
<1>10. Path(mem, B, b, n + 1, d)
  <2>1. /\ n \in Nat /\ c \in [0..n -> Nat] /\ c[0] = 1 /\ c[n] = q
        /\ \A i \in 0..n - 1 : c[i] \in B /\ c[i + 1] = find_next(mem, c[i])
    BY <1>8 DEF Path
  <2>2. d \in [0..(n + 1) -> Nat] /\ d[0] = 1 /\ d[n + 1] = b /\ n + 1 \in Nat /\ \A i \in 0..n : d[i] = c[i]
    BY ONLY <1>4, <1>9, <2>1
  <2>3. ASSUME NEW i \in 0..(n + 1) - 1 PROVE d[i] \in B /\ d[i + 1] = find_next(mem, d[i])
    <3>1. CASE i = n
      BY <1>6, <2>1, <2>2, <3>1
    <3>2. CASE i # n
      <4>1. i \in 0..n - 1 /\ i \in 0..n /\ i + 1 \in 0..n
        BY <2>1, <2>3, <3>2
      <4> QED BY <2>1, <2>2, <4>1
    <3> QED BY <3>1, <3>2
  <2> QED BY <2>2, <2>3 DEF Path
<1> QED BY <1>4, <1>10

(* The path to the epilogue meets every block and is no longer than the    *)
(* heap.                                                                   *)
LEMMA PathMeetsAll ==
  ASSUME NEW mem, NEW brk, NEW B, Tiled(mem, brk, B), NEW n, NEW c, Path(mem, B, brk - 1, n, c)
  PROVE  n \in Nat /\ n <= MaxHeap /\ {c[i] : i \in 0..n} = B \cup {brk - 1}
<1>1. /\ n \in Nat /\ c \in [0..n -> Nat] /\ c[0] = 1 /\ c[n] = brk - 1
      /\ \A i \in 0..n - 1 : c[i] \in B /\ c[i + 1] = find_next(mem, c[i])
  BY DEF Path
<1>2. /\ brk \in Nat /\ brk >= 2 /\ brk <= MaxHeap /\ MaxHeap \in Nat
      /\ \A b \in B : b \in Nat /\ b >= 1 /\ b # brk - 1 /\ find_next(mem, b) \in Nat /\ find_next(mem, b) > b
  <2>1. brk \in Nat /\ brk >= 2 /\ brk <= MaxHeap /\ MaxHeap \in Nat
    BY TiledApart
  <2>2. ASSUME NEW b \in B PROVE b \in Nat /\ b >= 1 /\ b # brk - 1 /\ find_next(mem, b) \in Nat /\ find_next(mem, b) > b
    <3>1. PICK s, t : s = get_size(mem, b) /\ t = find_next(mem, b)
      OBVIOUS
    <3>2. b \in Nat /\ s \in Nat /\ s >= 2 /\ t = b + s /\ b <= brk - 2 /\ b > 0
      BY <3>1, TiledApart DEF Apart
    <3> QED BY ONLY <2>1, <3>1, <3>2
  <2> QED BY <2>1, <2>2
<1>3. ASSUME NEW S \in SUBSET Nat, S = {i \in 0..n : ~(c[i] >= 1 + i)}, S # {} PROVE FALSE
  <2>1. PICK i \in S : \A k \in S : i <= k
    BY <1>3, LeastNat
  <2>2. i \in 0..n /\ ~(c[i] >= 1 + i) /\ c[i] \in Nat
    BY <1>1, <1>3
  <2>3. i # 0
    BY <1>1, <2>2
  <2>4. i - 1 \in 0..n - 1 /\ i - 1 \in 0..n /\ (i - 1) + 1 = i /\ i - 1 \notin S
    BY <1>1, <2>1, <2>2, <2>3
  <2>5. PICK x : x = c[i - 1]
    OBVIOUS
  <2>6. x >= 1 + (i - 1) /\ x \in B /\ c[i] = find_next(mem, x)
    BY <1>1, <1>3, <2>4, <2>5
  <2>7. c[i] > x /\ x \in Nat
    BY <1>2, <2>6
  <2> QED BY ONLY <2>2, <2>6, <2>7
<1>4. n <= MaxHeap
  <2>1. PICK S : S = {i \in 0..n : ~(c[i] >= 1 + i)}
    OBVIOUS
  <2>2. S = {}
    <3>1. S \in SUBSET Nat
      BY <2>1
    <3> QED BY <1>3, <2>1, <3>1
  <2>3. n \in 0..n /\ n \notin S
    BY <1>1, <2>2
  <2>4. c[n] >= 1 + n
    BY <2>1, <2>3
  <2> QED BY ONLY <1>1, <1>2, <2>4
<1>5. ASSUME NEW i \in 0..n PROVE c[i] \in B \cup {brk - 1}
  <2>1. i = n \/ i \in 0..n - 1
    BY <1>1
  <2> QED BY <1>1, <2>1
<1>6. ASSUME NEW b \in B \cup {brk - 1}, b # 1 PROVE \E q \in B : find_next(mem, q) = b
  BY ONLY <1>6, Tiled(mem, brk, B), HasPredecessor
<1>7. ASSUME NEW S \in SUBSET Nat, S = {b \in B \cup {brk - 1} : ~ \E i \in 0..n : c[i] = b}, S # {} PROVE FALSE
  <2>1. PICK b \in S : \A x \in S : b <= x
    BY <1>7, LeastNat
  <2>2. b \in B \cup {brk - 1} /\ ~ \E i \in 0..n : c[i] = b
    BY <1>7
  <2>3. b # 1
    <3>1. 0 \in 0..n
      BY <1>1
    <3> QED BY <1>1, <2>2, <3>1
  <2>4. PICK q \in B : find_next(mem, q) = b
    BY <1>6, <2>2, <2>3
  <2>5. q \notin S /\ q # brk - 1 /\ q \in Nat
    <3>1. q < b /\ q \in Nat /\ q # brk - 1 /\ b \in Nat
      BY <1>2, <2>4
    <3> QED BY <2>1, <3>1
  <2>6. PICK i \in 0..n : c[i] = q
    BY <1>7, <2>5
  <2>7. i # n
    BY <1>1, <2>5, <2>6
  <2>8. i \in 0..n - 1 /\ i + 1 \in 0..n
    BY <1>1, <2>7
  <2>9. c[i + 1] = b
    BY <1>1, <2>4, <2>6, <2>8
  <2> QED BY <2>2, <2>8, <2>9
<1>8. \A b \in B \cup {brk - 1} : \E i \in 0..n : c[i] = b
  <2>1. PICK S : S = {b \in B \cup {brk - 1} : ~ \E i \in 0..n : c[i] = b}
    OBVIOUS
  <2>2. S \in SUBSET Nat
    BY <1>2, <2>1
  <2>3. S = {}
    BY <1>7, <2>1, <2>2
  <2> QED BY <2>1, <2>3
<1>9. {c[i] : i \in 0..n} = B \cup {brk - 1}
  BY <1>5, <1>8
<1> QED BY <1>1, <1>4, <1>9

(* A walk from heap_start, along what follows each block.                  *)
Walked(follow) ==
  LET at == CHOOSE f : f = [i \in 0..MaxHeap |-> IF i = 0 THEN heap_start ELSE follow[f[i - 1]]]
  IN  {at[i] : i \in DOMAIN at}

(* Adding sizes from heap_start on meets the blocks and the epilogue.      *)
LEMMA WalkedMeetsBlocks ==
  ASSUME NEW mem, NEW brk, NEW B, Tiled(mem, brk, B), NEW follow,
         \A b \in B : follow[b] = find_next(mem, b), follow[brk - 1] = brk - 1
  PROVE  Walked(follow) = B \cup {brk - 1}
<1> DEFINE Step(f) == [i \in 0..MaxHeap |-> IF i = 0 THEN heap_start ELSE follow[f[i - 1]]]
           at == CHOOSE f : f = Step(f)
<1>1. PICK n, c : Path(mem, B, brk - 1, n, c)
  BY PathTo
<1>2. n \in Nat /\ n <= MaxHeap /\ {c[i] : i \in 0..n} = B \cup {brk - 1}
  BY <1>1, PathMeetsAll
<1>3. PICK E : E = brk - 1
  OBVIOUS
<1>4. /\ c \in [0..n -> Nat] /\ c[0] = 1 /\ c[n] = E
      /\ \A i \in 0..n - 1 : c[i] \in B /\ c[i + 1] = find_next(mem, c[i])
  BY <1>1, <1>3 DEF Path
<1>5. follow[E] = E /\ MaxHeap \in Nat /\ \A b \in B : follow[b] = find_next(mem, b)
  BY <1>3, TiledApart
<1> DEFINE g == [i \in 0..MaxHeap |-> IF i <= n THEN c[i] ELSE E]
<1>6. g = Step(g)
  <2> SUFFICES ASSUME NEW i \in 0..MaxHeap PROVE g[i] = Step(g)[i]
    OBVIOUS
  <2>1. CASE i = 0
    BY <1>2, <1>4, <2>1 DEF heap_start
  <2>2. CASE i # 0 /\ i <= n
    <3>1. i - 1 \in 0..n - 1 /\ (i - 1) + 1 = i /\ i - 1 \in 0..MaxHeap /\ i - 1 <= n
      BY <1>2, <1>5, <2>2
    <3>2. g[i - 1] = c[i - 1] /\ g[i] = c[i]
      BY <2>2, <3>1
    <3>3. c[i - 1] \in B /\ c[i] = find_next(mem, c[i - 1])
      BY <1>4, <3>1
    <3>4. follow[c[i - 1]] = c[i]
      BY <1>5, <3>3
    <3> HIDE DEF g
    <3> QED BY <2>2, <3>2, <3>4
  <2>3. CASE i # 0 /\ i > n
    <3>1. g[i] = E
      BY <1>2, <2>3
    <3>2. g[i - 1] = E
      <4>1. CASE i - 1 = n
        BY <1>2, <1>4, <1>5, <4>1
      <4>2. CASE i - 1 # n
        BY <1>2, <1>5, <2>3, <4>2
      <4> QED BY <4>1, <4>2
    <3>3. follow[E] = E
      BY <1>5
    <3> HIDE DEF g
    <3> QED BY <2>3, <3>1, <3>2, <3>3
  <2> QED BY <1>2, <2>1, <2>2, <2>3
<1>7. ASSUME NEW f, f = Step(f) PROVE f = g
  <2> DEFINE S == {k \in 0..MaxHeap : f[k] # g[k]}
  <2>1. ASSUME S # {} PROVE FALSE
    <3>1. PICK k \in S : \A m \in S : k <= m
      <4>1. S \in SUBSET Nat
        OBVIOUS
      <4> HIDE DEF S
      <4> QED BY <2>1, <4>1, LeastNat
    <3>2. k \in 0..MaxHeap /\ f[k] = Step(f)[k] /\ g[k] = Step(g)[k]
      BY <1>6, <1>7, <3>1
    <3>3. CASE k = 0
      <4> HIDE DEF g
      <4> QED BY <3>1, <3>2, <3>3
    <3>4. CASE k # 0
      <4>1. k - 1 \in 0..MaxHeap /\ k - 1 \notin S
        BY <1>5, <3>1, <3>4
      <4>2. f[k - 1] = g[k - 1]
        BY <4>1
      <4> HIDE DEF g
      <4> QED BY <3>1, <3>2, <3>4, <4>2
    <3> QED BY <3>3, <3>4
  <2>2. f = [k \in 0..MaxHeap |-> f[k]]
    BY <1>7
  <2> QED BY <2>1, <2>2
<1>8. at = g
  <2> HIDE DEF g, Step
  <2> QED BY <1>6, <1>7
<1>9. Walked(follow) = {at[i] : i \in DOMAIN at}
  BY DEF Walked
<1> HIDE DEF at
<1>10. Walked(follow) = {g[i] : i \in 0..MaxHeap}
  <2>1. DOMAIN g = 0..MaxHeap
    OBVIOUS
  <2> HIDE DEF g
  <2> QED BY <1>8, <1>9, <2>1
<1>11. \A i \in 0..MaxHeap : g[i] \in {c[k] : k \in 0..n} \cup {E}
  BY <1>2
<1>12. \A i \in 0..n : i \in 0..MaxHeap /\ g[i] = c[i]
  BY <1>2, <1>5
<1>13. E \in {c[k] : k \in 0..n}
  BY <1>2, <1>3
<1> HIDE DEF g
<1>14. {g[i] : i \in 0..MaxHeap} = {c[k] : k \in 0..n}
  BY <1>11, <1>12, <1>13
<1> QED BY <1>2, <1>10, <1>14

(* The segments of a heap.                                                 *)
Follow(h) == [b \in 0..MaxHeap |-> IF b >= h.brk THEN b ELSE find_next(h.mem, b)]
Shown(h)  == Segs(h.mem, Walked(Follow(h)) \ {h.brk - 1})

LEMMA WalkMeetsBlocks ==
  ASSUME NEW h, NEW B, Tiled(h.mem, h.brk, B)
  PROVE  Walked(Follow(h)) = B \cup {h.brk - 1} /\ h.brk - 1 \notin B /\ Shown(h) = Segs(h.mem, B)
<1>1. PICK E, follow : E = h.brk - 1 /\ follow = Follow(h)
  OBVIOUS
<1>2. h.brk \in Nat /\ h.brk >= 2 /\ h.brk <= MaxHeap /\ MaxHeap \in Nat /\ \A b \in B : b \in Nat /\ b <= h.brk - 2
  BY TiledApart DEF Apart
<1>3. ASSUME NEW b \in B PROVE follow[b] = find_next(h.mem, b)
  <2>1. b \in 0..MaxHeap /\ ~(b >= h.brk)
    BY <1>2
  <2> QED BY <1>1, <2>1 DEF Follow
<1>4. follow[E] = E
  <2>1. E \in 0..MaxHeap /\ ~(E >= h.brk) /\ E + 0 = E
    BY ONLY <1>1, <1>2
  <2>2. find_next(h.mem, E) = E
    BY <1>1, <2>1 DEF Tiled, find_next
  <2> QED BY <1>1, <2>1, <2>2 DEF Follow
<1>5. Walked(follow) = B \cup {E}
  BY <1>1, <1>3, <1>4, WalkedMeetsBlocks
<1>6. E \notin B
  BY <1>1, <1>2
<1>7. (B \cup {E}) \ {E} = B
  BY <1>6
<1> QED BY <1>1, <1>5, <1>6, <1>7 DEF Shown

-----------------------------------------------------------------------------
(* The lists and the tags together. *)

(* The used blocks of U keep their sizes and what is stored in them.       *)
KeepsUsed(mem, mem2, U) == \A u \in U : get_size(mem2, u) = get_size(mem, u) /\ SamePayload(mem, mem2, u)

LEMMA KeepsTwice ==
  ASSUME NEW mem, NEW mem2, NEW mem3, NEW U, KeepsUsed(mem, mem2, U), KeepsUsed(mem2, mem3, U)
  PROVE  KeepsUsed(mem, mem3, U)
BY DEF KeepsUsed, SamePayload

LEMMA SameTagsKeepsUsed ==
  ASSUME NEW mem, NEW mem2, NEW brk, NEW B, Tiled(mem, brk, B), NEW F \in SUBSET FreeIn(mem, B),
         SameExcept(mem, mem2, LinkWords(mem, F))
  PROVE  SameTags(mem, mem2, brk, B) /\ KeepsUsed(mem, mem2, UsedIn(mem, B))
<1>1. SameTags(mem, mem2, brk, B) /\ \A b \in UsedIn(mem, B) : SamePayload(mem, mem2, b)
  BY LinkWrites
<1>2. \A b \in UsedIn(mem, B) : get_size(mem2, b) = get_size(mem, b)
  BY <1>1 DEF SameTags, UsedIn, get_size
<1> QED BY <1>1, <1>2 DEF KeepsUsed

(* delete_block, on a heap whose tags agree but for X.                     *)
Loose(h, B, X, F) ==
  /\ HeapType(h) /\ Tiled(h.mem, h.brk, B) /\ Tagged(h.mem, B, X) /\ Merged(h.mem, B, X)
  /\ F \subseteq FreeIn(h.mem, B) /\ Listed(h.mem, h.seg_list, F)

LEMMA Delist ==
  ASSUME NEW h, NEW B, NEW X, NEW F, Loose(h, B, X, F), NEW b \in F, NEW g, g = delete_block(h, b)
  PROVE  /\ Loose(g, B, X, F \ {b}) /\ g.brk = h.brk /\ SameTags(h.mem, g.mem, h.brk, B)
         /\ KeepsUsed(h.mem, g.mem, UsedIn(h.mem, B))
<1>1. /\ HeapType(h) /\ Tiled(h.mem, h.brk, B) /\ Tagged(h.mem, B, X) /\ Merged(h.mem, B, X)
      /\ F \subseteq FreeIn(h.mem, B) /\ Listed(h.mem, h.seg_list, F) /\ F \in SUBSET B
  BY DEF Loose, FreeIn
<1>2. /\ HeapType(g) /\ g.brk = h.brk /\ Listed(g.mem, g.seg_list, F \ {b})
      /\ SameExcept(h.mem, g.mem, LinkWords(h.mem, F))
  BY ONLY <1>1, b \in F, g = delete_block(h, b), DeleteBlock
<1>3. SameTags(h.mem, g.mem, h.brk, B) /\ KeepsUsed(h.mem, g.mem, UsedIn(h.mem, B))
  BY ONLY <1>1, <1>2, SameTagsKeepsUsed
<1>4. Tiled(g.mem, h.brk, B) /\ Tagged(g.mem, B, X) /\ Merged(g.mem, B, X) /\ FreeIn(g.mem, B) = FreeIn(h.mem, B)
  BY ONLY <1>1, <1>3, SameTagsKeep
<1> QED BY <1>1, <1>2, <1>3, <1>4 DEF Loose

(* insert_block, of the one free block that is on no list.                 *)
LEMMA Enlist ==
  ASSUME NEW h, NEW B, NEW b \in FreeIn(h.mem, B), Loose(h, B, {}, FreeIn(h.mem, B) \ {b}),
         NEW g, g = insert_block(h, b)
  PROVE  /\ Good(g, B) /\ g.brk = h.brk /\ SameTags(h.mem, g.mem, h.brk, B)
         /\ KeepsUsed(h.mem, g.mem, UsedIn(h.mem, B))
<1>1. PICK F, G : F = FreeIn(h.mem, B) \ {b} /\ G = FreeIn(h.mem, B)
  OBVIOUS
<1>2. /\ HeapType(h) /\ Tiled(h.mem, h.brk, B) /\ Tagged(h.mem, B, {}) /\ Merged(h.mem, B, {})
      /\ Listed(h.mem, h.seg_list, F) /\ G \in SUBSET B /\ b \notin F /\ F \cup {b} = G /\ G \in SUBSET FreeIn(h.mem, B)
  BY <1>1 DEF Loose, FreeIn
<1>3. Apart(h.mem, F \cup {b})
  BY <1>2, TiledApart, ApartSubset
<1>4. /\ HeapType(g) /\ g.brk = h.brk /\ Listed(g.mem, g.seg_list, F \cup {b})
      /\ SameExcept(h.mem, g.mem, LinkWords(h.mem, F \cup {b}))
  BY ONLY <1>2, <1>3, g = insert_block(h, b), InsertBlock
<1>5. Listed(g.mem, g.seg_list, G) /\ SameExcept(h.mem, g.mem, LinkWords(h.mem, G))
  BY <1>2, <1>4
<1>6. SameTags(h.mem, g.mem, h.brk, B) /\ KeepsUsed(h.mem, g.mem, UsedIn(h.mem, B))
  BY ONLY <1>2, <1>5, SameTagsKeepsUsed
<1>7. Tiled(g.mem, h.brk, B) /\ Tagged(g.mem, B, {}) /\ Merged(g.mem, B, {}) /\ FreeIn(g.mem, B) = FreeIn(h.mem, B)
  BY ONLY <1>2, <1>6, SameTagsKeep
<1> QED BY <1>1, <1>4, <1>5, <1>6, <1>7 DEF Good

(* A block and its neighbours.                                             *)
LEMMA OutsideOne ==
  ASSUME NEW mem, NEW brk, NEW B, Tiled(mem, brk, B), NEW p \in B
  PROVE  Outside(B, p, find_next(mem, p)) = B \ {p} /\ p < find_next(mem, p)
<1>1. PICK N : N = find_next(mem, p)
  OBVIOUS
<1>2. \A b \in B : b \in Nat
  BY TiledApart DEF Apart
<1>3. N \in Nat /\ p < N
  <2>1. PICK s : s = get_size(mem, p)
    OBVIOUS
  <2>2. s \in Nat /\ s >= 2 /\ N = p + s /\ p \in Nat
    BY <1>1, <2>1, TiledApart DEF Apart
  <2> QED BY ONLY <2>2
<1>4. \A b \in B : p < b => N <= b
  BY <1>1 DEF Tiled
<1>5. ASSUME NEW b \in B PROVE (b < p \/ b >= N) <=> b # p
  <2>1. b \in Nat /\ p \in Nat /\ (p < b => N <= b)
    BY <1>2, <1>4
  <2> QED BY ONLY <1>3, <2>1
<1>6. Outside(B, p, N) = B \ {p}
  BY <1>5 DEF Outside
<1> QED BY <1>1, <1>3, <1>6

LEMMA OutsideTwo ==
  ASSUME NEW mem, NEW brk, NEW B, Tiled(mem, brk, B), NEW p \in B, NEW M \in B, NEW N \in B \cup {brk - 1},
         p < M, M < N
  PROVE  p < N /\ Outside(B, p, N) = Outside(B, p, M) \cap Outside(B, M, N)
<1>1. (\A b \in B : b \in Nat) /\ brk \in Nat
  BY TiledApart DEF Apart
<1>2. p \in Nat /\ M \in Nat /\ N \in Int
  BY <1>1
<1>3. ASSUME NEW b \in B PROVE (b < p \/ b >= N) <=> (b < p \/ b >= M) /\ (b < M \/ b >= N)
  <2>1. b \in Nat
    BY <1>1
  <2> QED BY ONLY <1>2, <2>1, p < M, M < N
<1>4. Outside(B, p, N) = Outside(B, p, M) \cap Outside(B, M, N)
  BY ONLY <1>3, Zenon DEF Outside
<1> QED BY <1>2, <1>4

(* The blocks of C, as far as they are not in X.                           *)
Fresh(mem, C, X) ==
  \A c \in C \ X : /\ Told(mem, c) /\ Footed(mem, c)
                   /\ ~get_alloc(mem, c) /\ find_next(mem, c) \notin X => get_alloc(mem, find_next(mem, c))

(* A heap some blocks of which are rewritten, the free ones off their      *)
(* lists.                                                                  *)
Rebuilding(h, B, p, N, O, X, F, m, C, Y) ==
  /\ O = Outside(B, p, N) /\ X \subseteq B /\ X \cap O = {} /\ F = FreeIn(h.mem, O) /\ Loose(h, B, X, F)
  /\ m \in Memory /\ Reshaped(h.mem, m, h.brk, B, p, N, C) /\ SameBefore(h.mem, m, p)
  /\ (get_prev_alloc(h.mem, p) \/ p \in Y) /\ Fresh(m, C, Y)
Rebuilt(h, B, O, F, m, C, Y, g) ==
  /\ Loose(g, O \cup C, Y, F) /\ g.brk = h.brk /\ g.mem = m
  /\ FreeIn(m, O \cup C) = F \cup FreeIn(m, C)
  /\ UsedIn(m, O \cup C) = UsedIn(h.mem, O) \cup UsedIn(m, C)
  /\ KeepsUsed(h.mem, m, UsedIn(h.mem, O)) /\ SameSegs(h.mem, m, O)

LEMMA Rebuild ==
  ASSUME NEW h, NEW B, NEW p, NEW N, NEW O, NEW X, NEW F, NEW m, NEW C, NEW Y,
         Rebuilding(h, B, p, N, O, X, F, m, C, Y), NEW g, g = [h EXCEPT !.mem = m]
  PROVE  Rebuilt(h, B, O, F, m, C, Y, g)
<1>1. /\ O = Outside(B, p, N) /\ X \in SUBSET B /\ X \cap O = {} /\ F = FreeIn(h.mem, O) /\ Loose(h, B, X, F)
      /\ m \in Memory /\ Reshaped(h.mem, m, h.brk, B, p, N, C) /\ SameBefore(h.mem, m, p)
      /\ (get_prev_alloc(h.mem, p) \/ p \in Y) /\ Fresh(m, C, Y) /\ g = [h EXCEPT !.mem = m]
  BY DEF Rebuilding
<1>2. /\ HeapType(h) /\ Tiled(h.mem, h.brk, B) /\ Tagged(h.mem, B, X) /\ Merged(h.mem, B, X)
      /\ Listed(h.mem, h.seg_list, F) /\ F \in SUBSET O
  BY <1>1 DEF Loose, FreeIn
<1>3. Tiled(m, h.brk, O \cup C) /\ KeptOutside(h.mem, m, h.brk - 1, B, O, p, N)
  BY <1>1, <1>2, Reshape
<1>4. /\ \A c \in C \ Y : Told(m, c) /\ Footed(m, c)
      /\ \A c \in C \ Y : ~get_alloc(m, c) /\ find_next(m, c) \notin Y => get_alloc(m, find_next(m, c))
  BY <1>1 DEF Fresh
<1>5. Tagged(m, O \cup C, Y)
  BY ONLY <1>1, <1>2, <1>4, ReshapeTags
<1>6. Merged(m, O \cup C, Y)
  BY ONLY <1>1, <1>2, <1>4, ReshapeMerged
<1>7. Listed(m, h.seg_list, F)
  BY ONLY <1>1, <1>2, ReshapeLists
<1>8. \A b \in O : /\ (get_alloc(m, b) <=> get_alloc(h.mem, b)) /\ get_size(m, b) = get_size(h.mem, b)
                   /\ SamePayload(h.mem, m, b)
  BY ONLY <1>3, Zenon DEF KeptOutside
<1>9. FreeIn(m, O \cup C) = F \cup FreeIn(m, C) /\ UsedIn(m, O \cup C) = UsedIn(h.mem, O) \cup UsedIn(m, C)
  BY ONLY <1>1, <1>8 DEF FreeIn, UsedIn
<1>10. KeepsUsed(h.mem, m, UsedIn(h.mem, O))
  BY ONLY <1>8 DEF KeepsUsed, UsedIn
<1>11. HeapType(g) /\ g.brk = h.brk /\ g.mem = m /\ g.seg_list = h.seg_list
  BY ONLY <1>1, <1>2 DEF HeapType
<1>12. F \subseteq FreeIn(m, O \cup C)
  BY <1>9
<1>13. Loose(g, O \cup C, Y, F)
  BY ONLY <1>3, <1>5, <1>6, <1>7, <1>11, <1>12 DEF Loose
<1>14. SameSegs(h.mem, m, O)
  BY ONLY <1>8 DEF SameSegs
<1> QED BY ONLY <1>9, <1>10, <1>11, <1>13, <1>14 DEF Rebuilt

(* A heap some blocks of which are rewritten and the free one, q, goes to  *)
(* its list.                                                               *)
Enlisted(h, O, m, C, g) ==
  /\ Good(g, O \cup C) /\ g.brk = h.brk /\ SameTags(m, g.mem, h.brk, O \cup C)
  /\ UsedIn(g.mem, O \cup C) = UsedIn(h.mem, O) \cup UsedIn(m, C)
  /\ KeepsUsed(h.mem, g.mem, UsedIn(h.mem, O)) /\ Tiled(m, h.brk, O \cup C)
  /\ SameSegs(h.mem, g.mem, O) /\ SameSegs(m, g.mem, O \cup C)

LEMMA RebuildEnlist ==
  ASSUME NEW h, NEW B, NEW p, NEW N, NEW O, NEW X, NEW F, NEW m, NEW C,
         Rebuilding(h, B, p, N, O, X, F, m, C, {}), NEW q \in C, FreeIn(m, C) = {q},
         NEW g, g = insert_block([h EXCEPT !.mem = m], q)
  PROVE  Enlisted(h, O, m, C, g)
<1>1. /\ O = Outside(B, p, N) /\ F = FreeIn(h.mem, O) /\ Loose(h, B, X, F)
      /\ Reshaped(h.mem, m, h.brk, B, p, N, C)
  BY DEF Rebuilding
<1>2. PICK h2 : h2 = [h EXCEPT !.mem = m]
  OBVIOUS
<1>3. /\ Loose(h2, O \cup C, {}, F) /\ h2.brk = h.brk /\ h2.mem = m
      /\ FreeIn(m, O \cup C) = F \cup FreeIn(m, C)
      /\ UsedIn(m, O \cup C) = UsedIn(h.mem, O) \cup UsedIn(m, C)
      /\ KeepsUsed(h.mem, m, UsedIn(h.mem, O)) /\ SameSegs(h.mem, m, O)
  <2>1. Rebuilt(h, B, O, F, m, C, {}, h2)
    BY <1>2, Rebuild
  <2> QED BY ONLY <2>1 DEF Rebuilt
<1>4. q \notin F /\ q \in FreeIn(m, O \cup C) /\ FreeIn(m, O \cup C) \ {q} = F
  <2>1. q \notin O
    <3>1. /\ p \in B /\ N \in B \cup {h.brk - 1} /\ C \subseteq p..N - 1
      BY <1>1 DEF Reshaped
    <3>2. q \in p..N - 1 /\ p \in Nat /\ N \in Int
      BY <1>1, <3>1, TiledApart DEF Apart, Loose
    <3>3. q >= p /\ q < N /\ q \in Int
      BY ONLY <3>2
    <3>4. ~(q < p \/ q >= N)
      BY ONLY <3>2, <3>3
    <3> QED BY <1>1, <3>4 DEF Outside
  <2>2. q \notin F
    BY <1>1, <2>1 DEF FreeIn
  <2> QED BY <1>3, <2>2
<1>5. Loose(h2, O \cup C, {}, FreeIn(h2.mem, O \cup C) \ {q})
  BY <1>3, <1>4
<1>6. /\ Good(g, O \cup C) /\ g.brk = h2.brk /\ SameTags(h2.mem, g.mem, h2.brk, O \cup C)
      /\ KeepsUsed(h2.mem, g.mem, UsedIn(h2.mem, O \cup C))
  <2>1. q \in FreeIn(h2.mem, O \cup C) /\ g = insert_block(h2, q)
    BY <1>2, <1>3, <1>4
  <2> QED BY ONLY <1>5, <2>1, Enlist
<1>7. Tiled(m, h.brk, O \cup C)
  BY <1>3 DEF Loose
<1>8. UsedIn(g.mem, O \cup C) = UsedIn(m, O \cup C)
  <2>1. SameTags(m, g.mem, h.brk, O \cup C)
    BY <1>3, <1>6
  <2> QED BY ONLY <1>7, <2>1, SameTagsKeep
<1>9. KeepsUsed(h.mem, g.mem, UsedIn(h.mem, O))
  <2>1. KeepsUsed(m, g.mem, UsedIn(h.mem, O))
    BY <1>3, <1>6 DEF KeepsUsed
  <2>2. KeepsUsed(h.mem, m, UsedIn(h.mem, O))
    BY <1>3
  <2> QED BY ONLY <2>1, <2>2, KeepsTwice
<1>10. SameSegs(m, g.mem, O \cup C)
  <2>1. SameTags(m, g.mem, h.brk, O \cup C)
    BY <1>3, <1>6
  <2> QED BY ONLY <2>1, TagsSegs
<1>11. SameSegs(h.mem, g.mem, O)
  <2>1. SameSegs(m, g.mem, O) /\ SameSegs(h.mem, m, O)
    BY <1>3, <1>10 DEF SameSegs
  <2> QED BY ONLY <2>1, SegsTwice
<1> QED BY <1>3, <1>6, <1>7, <1>8, <1>9, <1>10, <1>11 DEF Enlisted

(* FreeBlock makes one free block of the words from p to N.                *)
FreedInto(h, g, O, p, s) ==
  /\ Good(g, O \cup {p}) /\ g.brk = h.brk
  /\ UsedIn(g.mem, O \cup {p}) = UsedIn(h.mem, O) /\ KeepsUsed(h.mem, g.mem, UsedIn(h.mem, O))
  /\ p \in FreeIn(g.mem, O \cup {p}) /\ get_size(g.mem, p) = s /\ SameSegs(h.mem, g.mem, O)

LEMMA FreeBlockFrees ==
  ASSUME NEW h, NEW B, NEW p \in B, NEW N \in B \cup {h.brk - 1}, p < N, NEW O, O = Outside(B, p, N),
         NEW X \in SUBSET B, X \cap O = {}, Loose(h, B, X, FreeIn(h.mem, O)),
         NEW s \in Nat, s % 2 = 0, s # 2, N = p + s,
         get_prev_alloc(h.mem, p), get_alloc(h.mem, N), NEW mini \in BOOLEAN,
         NEW g, g = FreeBlock(h, p, s, mini)
  PROVE  FreedInto(h, g, O, p, s)
<1>1. HeapType(h) /\ Tiled(h.mem, h.brk, B)
  BY DEF Loose
<1>2. /\ p \in Nat /\ p \in 0..MaxHeap - 1 /\ N \in 0..MaxHeap - 1 /\ N \in Nat /\ h.mem \in Memory
      /\ h.mem[N] \in Nat /\ MaxHeap \in Nat /\ s \in Nat
  <2>1. p \in Nat /\ h.brk \in Nat /\ h.brk <= MaxHeap /\ MaxHeap \in Nat /\ (N \in B => N \in Nat)
        /\ \A b \in B : b <= h.brk - 2
    BY <1>1, TiledApart DEF Apart
  <2>2. N \in Nat /\ N <= h.brk - 1
    BY ONLY <2>1, N \in B \cup {h.brk - 1}, p < N
  <2>3. h.mem \in Memory /\ h.mem[N] \in Nat
    BY <1>1 DEF HeapType, Tiled
  <2> QED BY ONLY <2>1, <2>2, <2>3, p < N
<1>3. s >= 4 /\ p + s - 1 # N /\ p + s - 1 > p /\ p # N
  BY ONLY <1>2, s \in Nat, s % 2 = 0, s # 2, N = p + s, p < N
<1>4. PICK m1, m : /\ m1 = write_tags(h.mem, p, s, FALSE, TRUE, mini)
                   /\ m = set_nextblock_prev_alloc(m1, p, FALSE, FALSE)
  OBVIOUS
<1>5. /\ m1 \in Memory
      /\ \A w \in 0..MaxHeap - 1 :
           m1[w] = IF w = p \/ w = p + s - 1 THEN pack(s, FALSE, TRUE, mini) ELSE h.mem[w]
  <2>1. m1 \in Memory /\ TagsWritten(h.mem, m1, p, s, pack(s, FALSE, TRUE, mini))
    BY ONLY <1>2, <1>4, s \in Nat, s % 2 = 0, mini \in BOOLEAN, WriteTags
  <2> QED BY <2>1 DEF TagsWritten
<1>6. m1[p] = pack(s, FALSE, TRUE, mini) /\ m1[p + s - 1] = pack(s, FALSE, TRUE, mini) /\ m1[N] = h.mem[N]
  <2>1. p + s - 1 \in 0..MaxHeap - 1
    BY ONLY <1>2, <1>3, N = p + s
  <2> QED BY ONLY <1>2, <1>3, <1>5, <2>1
<1>7. Header(m1, p, s, FALSE, TRUE, mini)
  BY ONLY <1>6, s \in Nat, s % 2 = 0, mini \in BOOLEAN, ReadHeader
<1>8. N = find_next(m1, p)
  BY <1>7 DEF Header, find_next
<1>9. /\ m \in Memory /\ Header(m, N, get_size(m1, N), get_alloc(m1, N), FALSE, FALSE)
      /\ \A w \in 0..MaxHeap - 1 : w # N => m[w] = m1[w]
  <2>1. m1[N] \in Nat
    BY <1>2, <1>6
  <2>2. find_next(m1, p) \in 0..MaxHeap - 1 /\ m1[find_next(m1, p)] \in Nat
    BY <1>2, <1>8, <2>1
  <2>3. m \in Memory /\ NextWritten(m1, m, N, FALSE, FALSE)
    BY ONLY <1>4, <1>5, <1>8, <2>2, SetNext
  <2> QED BY <2>3 DEF NextWritten
<1>10. m[p] = pack(s, FALSE, TRUE, mini) /\ m[p + s - 1] = pack(s, FALSE, TRUE, mini)
  <2>1. p + s - 1 \in 0..MaxHeap - 1
    BY ONLY <1>2, <1>3, N = p + s
  <2> QED BY ONLY <1>2, <1>3, <1>6, <1>9, <2>1
<1>11. Header(m, p, s, FALSE, TRUE, mini)
  BY ONLY <1>10, s \in Nat, s % 2 = 0, mini \in BOOLEAN, ReadHeader
<1>12. Header(m, N, get_size(h.mem, N), get_alloc(h.mem, N), FALSE, FALSE)
  BY <1>6, <1>9, Zenon DEF get_size, get_alloc
<1>13. find_next(m, p) = N
  BY <1>11 DEF Header, find_next
<1> DEFINE C == {p}
<1>14. Reshaped(h.mem, m, h.brk, B, p, N, C)
  <2>1. \A w \in 0..MaxHeap - 1 : w < p \/ w > N => m[w] = h.mem[w]
    <3> SUFFICES ASSUME NEW w \in 0..MaxHeap - 1, w < p \/ w > N PROVE m[w] = h.mem[w]
      OBVIOUS
    <3>1. w # N /\ w # p /\ w # p + s - 1
      BY ONLY <1>2, <1>3, N = p + s, w \in 0..MaxHeap - 1, w < p \/ w > N
    <3> QED BY <1>5, <1>9, <3>1
  <2>2. /\ m[N] \in Nat /\ get_size(m, N) = get_size(h.mem, N) /\ (get_alloc(m, N) <=> get_alloc(h.mem, N))
        /\ m[p] \in Nat /\ get_size(m, p) >= 2
    BY <1>3, <1>11, <1>12 DEF Header
  <2>3. C \subseteq p..N - 1 /\ p \in C
    BY ONLY <1>2, p < N
  <2> QED BY <1>2, <1>13, <2>1, <2>2, <2>3 DEF Reshaped
<1>15. SameBefore(h.mem, m, p)
  BY <1>11, Zenon DEF SameBefore, Header
<1>16. ~get_alloc(m, p) /\ get_size(m, p) = s
  BY <1>11 DEF Header
<1>17. Fresh(m, C, {})
  <2>1. Told(m, p)
    <3>1. ~get_prev_alloc(m, N) /\ ~get_prev_mini(m, N)
      BY <1>12 DEF Header
    <3>2. get_prev_alloc(m, N) = get_alloc(m, p)
      BY <1>16, <3>1, Zenon DEF get_prev_alloc, get_alloc, extract_alloc
    <3>3. get_prev_mini(m, N) = (get_size(m, p) = 2)
      BY <1>16, <3>1, s # 2, Zenon DEF get_prev_mini
    <3> QED BY <1>13, <3>2, <3>3, Zenon DEF Told
  <2>2. Footed(m, p)
    <3>1. SaysFree(m[p + s - 1], s)
      BY <1>10, <1>11 DEF Header, get_size, get_alloc, SaysFree
    <3> QED BY <1>16, <3>1 DEF Footed, header_to_footer
  <2>3. get_alloc(m, find_next(m, p))
    BY <1>12, <1>13 DEF Header
  <2> QED BY <2>1, <2>2, <2>3 DEF Fresh
<1>18. FreeIn(m, C) = {p} /\ UsedIn(m, C) = {}
  BY <1>16 DEF FreeIn, UsedIn
<1>19. g = insert_block([h EXCEPT !.mem = m], p)
  BY <1>4 DEF FreeBlock
<1>20. p \in C
  OBVIOUS
<1> HIDE DEF C
<1>21. /\ Good(g, O \cup C) /\ g.brk = h.brk /\ SameTags(m, g.mem, h.brk, O \cup C)
       /\ UsedIn(g.mem, O \cup C) = UsedIn(h.mem, O) \cup UsedIn(m, C)
       /\ KeepsUsed(h.mem, g.mem, UsedIn(h.mem, O)) /\ Tiled(m, h.brk, O \cup C)
       /\ SameSegs(h.mem, g.mem, O)
  <2>1. PICK F : F = FreeIn(h.mem, O)
    OBVIOUS
  <2>2. Rebuilding(h, B, p, N, O, X, F, m, C, {})
    BY <1>9, <1>14, <1>15, <1>17, <2>1 DEF Rebuilding
  <2>3. Enlisted(h, O, m, C, g)
    BY ONLY <1>18, <1>19, <1>20, <2>2, RebuildEnlist
  <2> QED BY <2>3 DEF Enlisted
<1>22. ~get_alloc(g.mem, p) /\ get_size(g.mem, p) = s
  <2>1. g.mem[p] = m[p]
    BY <1>20, <1>21 DEF SameTags
  <2> QED BY <1>16, <2>1 DEF get_alloc, get_size
<1> QED BY <1>18, <1>20, <1>21, <1>22 DEF FreedInto, C, FreeIn

-----------------------------------------------------------------------------
(* coalesce_block. *)

(* The free block r.block, of s words at least; the used blocks stay.      *)
Coalesced(h, B, r, s) ==
  \E D : /\ Good(r.heap, D) /\ r.heap.brk = h.brk
         /\ UsedIn(r.heap.mem, D) = UsedIn(h.mem, B) /\ KeepsUsed(h.mem, r.heap.mem, UsedIn(h.mem, B))
         /\ r.block \in FreeIn(r.heap.mem, D) /\ get_size(r.heap.mem, r.block) >= s

(* In the heap g the block b of mem, free or used, is merged.              *)
Regains(mem, brk, B, b, g) ==
  \E p, N, O : /\ Merging(mem, brk, B, b, p, N, O) /\ SameSegs(mem, g.mem, O) /\ Tiled(g.mem, g.brk, O \cup {p})
              /\ get_size(g.mem, p) = N - p /\ ~get_alloc(g.mem, p)

LEMMA RegainsIs ==
  ASSUME NEW mem, NEW brk, NEW B, Tiled(mem, brk, B), NEW b, NEW g, Regains(mem, brk, B, b, g)
  PROVE  Shown(g) = SG!Given(Segs(mem, B), Seg(mem, b))
<1>1. PICK p, N, O : /\ Merging(mem, brk, B, b, p, N, O) /\ SameSegs(mem, g.mem, O) /\ Tiled(g.mem, g.brk, O \cup {p})
                     /\ get_size(g.mem, p) = N - p /\ ~get_alloc(g.mem, p)
  BY DEF Regains
<1>2. Shown(g) = Segs(g.mem, O \cup {p})
  BY ONLY <1>1, WalkMeetsBlocks
<1>3. Segs(g.mem, O \cup {p}) = SG!Given(Segs(mem, B), Seg(mem, b))
  BY ONLY <1>1, Tiled(mem, brk, B), GivenIs
<1> QED BY ONLY <1>2, <1>3

(* Whether b is still in use in mem does not matter.                       *)
LEMMA RegainsFrom ==
  ASSUME NEW mem, NEW mem2, NEW brk, NEW B, NEW b \in B, NEW g, Regains(mem2, brk, B, b, g),
         \A x \in B : get_size(mem2, x) = get_size(mem, x), SameSegs(mem, mem2, B \ {b})
  PROVE  Regains(mem, brk, B, b, g)
<1>1. PICK p, N, O : /\ Merging(mem2, brk, B, b, p, N, O) /\ SameSegs(mem2, g.mem, O) /\ Tiled(g.mem, g.brk, O \cup {p})
                     /\ get_size(g.mem, p) = N - p /\ ~get_alloc(g.mem, p)
  BY DEF Regains
<1>2. /\ O = Outside(B, p, N) /\ p \in B /\ N \in B \cup {brk - 1} /\ p <= b /\ b < N
      /\ B \ O = {b} \cup {o \in B : ~get_alloc(mem2, o) /\ (find_next(mem2, o) = b \/ find_next(mem2, b) = o)}
  BY <1>1 DEF Merging
<1>3. \A x \in B : find_next(mem2, x) = find_next(mem, x) /\ (x # b => (get_alloc(mem2, x) <=> get_alloc(mem, x)))
  BY DEF find_next, SameSegs
<1>4. B \ O = {b} \cup {o \in B : ~get_alloc(mem, o) /\ (find_next(mem, o) = b \/ find_next(mem, b) = o)}
  BY ONLY <1>2, <1>3, b \in B
<1>5. Merging(mem, brk, B, b, p, N, O)
  BY ONLY <1>2, <1>4, b \in B DEF Merging
<1>6. O \subseteq B \ {b}
  BY <1>2 DEF Outside
<1>7. SameSegs(mem, g.mem, O)
  <2>1. SameSegs(mem, mem2, O)
    BY <1>6 DEF SameSegs
  <2> QED BY ONLY <1>1, <2>1, SegsTwice
<1> QED BY ONLY <1>1, <1>5, <1>7 DEF Regains

(* r.block ends where b ended if a used block, or the epilogue, comes      *)
(* after it.                                                               *)
Regained(h, B, b, r) ==
  /\ Regains(h.mem, h.brk, B, b, r.heap)
  /\ get_alloc(h.mem, find_next(h.mem, b)) => find_next(r.heap.mem, r.block) = find_next(h.mem, b)

(* The heap h after some free blocks are taken off their lists: those from *)
(* p to N.                                                                 *)
Unlisted(h, h2, B, b, p, N, O) ==
  /\ Loose(h2, B, {b}, FreeIn(h2.mem, O)) /\ h2.brk = h.brk /\ SameTags(h.mem, h2.mem, h.brk, B)
  /\ KeepsUsed(h.mem, h2.mem, UsedIn(h.mem, B)) /\ O = Outside(B, p, N) /\ UsedIn(h.mem, B) \subseteq O
  /\ b \in B /\ b \notin O /\ p \in B /\ N \in B \cup {h.brk - 1} /\ p < N
  /\ get_prev_alloc(h.mem, p) /\ get_alloc(h.mem, N) /\ Merging(h.mem, h.brk, B, b, p, N, O)
  /\ get_alloc(h.mem, find_next(h.mem, b)) => N = find_next(h.mem, b)

LEMMA Join ==
  ASSUME NEW h, NEW B, Tiled(h.mem, h.brk, B), NEW h2, NEW b, NEW p, NEW N, NEW O, Unlisted(h, h2, B, b, p, N, O),
         NEW s \in Nat, s % 2 = 0, s # 2, N = p + s, NEW n \in Nat, n <= s,
         NEW mini \in BOOLEAN, NEW r, r = [block |-> p, heap |-> FreeBlock(h2, p, s, mini)]
  PROVE  Coalesced(h, B, r, n) /\ Regained(h, B, b, r)
<1>1. /\ Loose(h2, B, {b}, FreeIn(h2.mem, O)) /\ h2.brk = h.brk /\ SameTags(h.mem, h2.mem, h.brk, B)
      /\ KeepsUsed(h.mem, h2.mem, UsedIn(h.mem, B)) /\ O = Outside(B, p, N) /\ UsedIn(h.mem, B) \subseteq O
      /\ b \in B /\ b \notin O /\ p \in B /\ N \in B \cup {h.brk - 1} /\ p < N
      /\ get_prev_alloc(h.mem, p) /\ get_alloc(h.mem, N) /\ Merging(h.mem, h.brk, B, b, p, N, O)
      /\ get_alloc(h.mem, find_next(h.mem, b)) => N = find_next(h.mem, b)
  BY DEF Unlisted
<1>2. /\ UsedIn(h2.mem, B) = UsedIn(h.mem, B)
      /\ get_prev_alloc(h2.mem, p) /\ get_alloc(h2.mem, N)
  <2>1. /\ UsedIn(h2.mem, B) = UsedIn(h.mem, B)
        /\ \A x \in B \cup {h.brk - 1} :
              /\ h2.mem[x] = h.mem[x] /\ get_size(h2.mem, x) = get_size(h.mem, x)
              /\ (get_alloc(h2.mem, x) <=> get_alloc(h.mem, x)) /\ find_next(h2.mem, x) = find_next(h.mem, x)
              /\ (get_prev_alloc(h2.mem, x) <=> get_prev_alloc(h.mem, x))
              /\ (get_prev_mini(h2.mem, x) <=> get_prev_mini(h.mem, x))
    BY ONLY <1>1, Tiled(h.mem, h.brk, B), SameTagsKeep
  <2> QED BY <1>1, <2>1
<1>3. PICK g, X : g = FreeBlock(h2, p, s, mini) /\ X = {b}
  OBVIOUS
<1>4. FreedInto(h2, g, O, p, s)
  <2>1. X \in SUBSET B /\ X \cap O = {} /\ Loose(h2, B, X, FreeIn(h2.mem, O)) /\ N \in B \cup {h2.brk - 1}
    BY <1>1, <1>3
  <2>2. g = FreeBlock(h2, p, s, mini)
    BY <1>3
  <2> QED BY ONLY <1>1, <1>2, <2>1, <2>2, s \in Nat, s % 2 = 0, s # 2, N = p + s, mini \in BOOLEAN, FreeBlockFrees
<1>5. /\ Good(g, O \cup {p}) /\ g.brk = h2.brk
      /\ UsedIn(g.mem, O \cup {p}) = UsedIn(h2.mem, O) /\ KeepsUsed(h2.mem, g.mem, UsedIn(h2.mem, O))
      /\ p \in FreeIn(g.mem, O \cup {p}) /\ get_size(g.mem, p) = s
      /\ SameSegs(h2.mem, g.mem, O)
  BY <1>4 DEF FreedInto
<1>6. UsedIn(h2.mem, O) = UsedIn(h.mem, B)
  BY <1>1, <1>2 DEF UsedIn, Outside
<1>7. KeepsUsed(h.mem, g.mem, UsedIn(h.mem, B))
  <2>1. KeepsUsed(h2.mem, g.mem, UsedIn(h.mem, B))
    BY <1>5, <1>6
  <2> QED BY ONLY <1>1, <2>1, KeepsTwice
<1>8. r.block = p /\ r.heap = g
  BY <1>3
<1>9. get_size(r.heap.mem, r.block) >= n
  BY <1>5, <1>8
<1>10. Coalesced(h, B, r, n)
  BY ONLY <1>1, <1>5, <1>6, <1>7, <1>8, <1>9 DEF Coalesced
<1>11. SameSegs(h.mem, g.mem, O)
  <2>1. SameSegs(h.mem, h2.mem, B)
    BY ONLY <1>1, TagsSegs
  <2>2. SameSegs(h.mem, h2.mem, O)
    BY ONLY <1>1, <2>1 DEF SameSegs, Outside
  <2> QED BY ONLY <1>5, <2>2, SegsTwice
<1>12. p \in Nat /\ N \in Int /\ s = N - p /\ find_next(g.mem, p) = N
  <2>1. p \in Nat
    BY <1>1, TiledApart DEF Apart
  <2> QED BY <1>5, <2>1 DEF find_next
<1>13. Regains(h.mem, h.brk, B, b, g)
  <2>1. get_size(g.mem, p) = N - p /\ ~get_alloc(g.mem, p) /\ Tiled(g.mem, g.brk, O \cup {p})
    BY <1>5, <1>12 DEF FreeIn, Good
  <2> QED BY ONLY <1>1, <1>11, <2>1 DEF Regains
<1>14. Regained(h, B, b, r)
  BY <1>1, <1>8, <1>12, <1>13 DEF Regained
<1> QED BY <1>10, <1>14

(* No free neighbour: the block is told to the next one and listed.        *)
LEMMA CoalesceAlone ==
  ASSUME NEW h, NEW B, NEW b \in B, Loose(h, B, {b}, FreeIn(h.mem, B) \ {b}),
         ~get_alloc(h.mem, b), Footed(h.mem, b), get_prev_alloc(h.mem, b), get_alloc(h.mem, find_next(h.mem, b)),
         NEW r, r = [block |-> b,
                     heap  |-> insert_block([h EXCEPT !.mem = set_nextblock_prev_alloc(h.mem, b, FALSE,
                                               get_size(h.mem, b) = min_block_size)], b)]
  PROVE  Coalesced(h, B, r, get_size(h.mem, b)) /\ Regained(h, B, b, r)
<1>1. PICK N, s, O, X, F, C, mini, m, g :
        /\ N = find_next(h.mem, b) /\ s = get_size(h.mem, b) /\ O = Outside(B, b, N)
        /\ X = {b} /\ C = {b} /\ F = FreeIn(h.mem, O) /\ mini = (s = 2)
        /\ m = set_nextblock_prev_alloc(h.mem, b, FALSE, mini)
        /\ g = insert_block([h EXCEPT !.mem = m], b)
  OBVIOUS
<1>2. HeapType(h) /\ Tiled(h.mem, h.brk, B) /\ h.mem \in Memory
  BY DEF Loose, HeapType
<1>3. O = B \ {b} /\ b < N
  BY <1>1, <1>2, OutsideOne
<1>4. F = FreeIn(h.mem, B) \ {b} /\ UsedIn(h.mem, O) = UsedIn(h.mem, B)
  BY <1>1, <1>3 DEF FreeIn, UsedIn
<1>5. N \in B \cup {h.brk - 1} /\ N \in 0..MaxHeap - 1 /\ h.mem[N] \in Nat /\ h.mem[b] \in Nat
      /\ b \in Nat /\ N \in Nat /\ s \in Nat /\ s >= 2 /\ N = b + s /\ MaxHeap \in Nat
  <2>1. N \in B \cup {h.brk - 1} /\ h.mem[N] \in Nat /\ h.mem[b] \in Nat
    BY <1>1, <1>2 DEF Tiled
  <2>2. b \in Nat /\ s \in Nat /\ s >= 2 /\ N = b + s /\ b + s <= h.brk - 1 /\ h.brk \in Nat /\ h.brk <= MaxHeap
        /\ MaxHeap \in Nat
    BY <1>1, <1>2, TiledApart DEF Apart
  <2> QED BY ONLY <2>1, <2>2
<1>6. m \in Memory /\ NextWritten(h.mem, m, N, FALSE, mini)
  <2>1. mini \in BOOLEAN /\ find_next(h.mem, b) \in 0..MaxHeap - 1 /\ h.mem[find_next(h.mem, b)] \in Nat
    BY <1>1, <1>5
  <2> QED BY ONLY <1>1, <1>2, <2>1, SetNext
<1>7. /\ Header(m, N, get_size(h.mem, N), get_alloc(h.mem, N), FALSE, mini)
      /\ \A w \in 0..MaxHeap - 1 : w # N => m[w] = h.mem[w]
  BY <1>6 DEF NextWritten
<1>8. m[b] = h.mem[b] /\ b \in 0..MaxHeap - 1
  BY ONLY <1>3, <1>5, <1>7
<1>9. /\ get_size(m, b) = s /\ find_next(m, b) = N /\ ~get_alloc(m, b) /\ get_prev_alloc(m, b)
      /\ (get_prev_mini(m, b) <=> get_prev_mini(h.mem, b))
  BY <1>1, <1>8, Zenon DEF get_size, find_next, get_alloc, get_prev_alloc, get_prev_mini
<1>10. Reshaped(h.mem, m, h.brk, B, b, N, C)
  <2>1. \A w \in 0..MaxHeap - 1 : w < b \/ w > N => m[w] = h.mem[w]
    BY ONLY <1>3, <1>5, <1>7
  <2>2. /\ m[N] \in Nat /\ get_size(m, N) = get_size(h.mem, N) /\ (get_alloc(m, N) <=> get_alloc(h.mem, N))
    BY <1>7 DEF Header
  <2>3. C \subseteq b..N - 1 /\ b \in C
    BY ONLY <1>1, <1>3, <1>5
  <2>4. m[b] \in Nat
    BY <1>5, <1>8
  <2>5. \A c \in C : m[c] \in Nat /\ get_size(m, c) >= 2 /\ find_next(m, c) \in C \cup {N}
    BY ONLY <1>1, <1>5, <1>9, <2>4
  <2>6. \A c, d \in C : c < d => find_next(m, c) <= d
    BY <1>1, <1>5
  <2> QED BY ONLY <1>3, <1>5, <2>1, <2>2, <2>3, <2>5, <2>6, b \in B DEF Reshaped
<1>11. SameBefore(h.mem, m, b)
  BY <1>9, Zenon DEF SameBefore
<1>12. Fresh(m, C, {})
  <2>1. Told(m, b)
    <3>1. ~get_prev_alloc(m, N) /\ (get_prev_mini(m, N) <=> s = 2)
      BY <1>1, <1>7 DEF Header
    <3>2. get_prev_alloc(m, N) = get_alloc(m, b)
      BY <1>9, <3>1, Zenon DEF get_prev_alloc, get_alloc, extract_alloc
    <3>3. get_prev_mini(m, N) = (get_size(m, b) = 2)
      BY <1>9, <3>1, Zenon DEF get_prev_mini
    <3> QED BY <1>9, <3>2, <3>3, Zenon DEF Told
  <2>2. Footed(m, b)
    <3> SUFFICES ASSUME s # 2 PROVE SaysFree(m[b + s - 1], s)
      BY <1>9 DEF Footed, header_to_footer
    <3>1. SaysFree(h.mem[b + s - 1], s)
      BY <1>1 DEF Footed, header_to_footer
    <3>2. b + s - 1 \in 0..MaxHeap - 1 /\ b + s - 1 # N
      BY ONLY <1>5
    <3> QED BY <1>7, <3>1, <3>2
  <2>3. get_alloc(m, find_next(m, b))
    BY <1>1, <1>7, <1>9 DEF Header
  <2> QED BY <1>1, <2>1, <2>2, <2>3 DEF Fresh
<1>13. FreeIn(m, C) = {b} /\ UsedIn(m, C) = {} /\ b \in C
  BY <1>1, <1>9 DEF FreeIn, UsedIn
<1>14. Rebuilding(h, B, b, N, O, X, F, m, C, {})
  <2>1. X \subseteq B /\ X \cap O = {} /\ Loose(h, B, X, F)
    BY <1>1, <1>3, <1>4
  <2> QED BY ONLY <1>1, <1>6, <1>10, <1>11, <1>12, <2>1, get_prev_alloc(h.mem, b) DEF Rebuilding
<1>15. Enlisted(h, O, m, C, g)
  BY ONLY <1>1, <1>13, <1>14, RebuildEnlist
<1>16. /\ Good(g, O \cup C) /\ g.brk = h.brk /\ SameTags(m, g.mem, h.brk, O \cup C)
       /\ UsedIn(g.mem, O \cup C) = UsedIn(h.mem, O) \cup UsedIn(m, C)
       /\ KeepsUsed(h.mem, g.mem, UsedIn(h.mem, O)) /\ SameSegs(h.mem, g.mem, O)
  BY <1>15 DEF Enlisted
<1>17. g.mem[b] = m[b]
  BY <1>13, <1>16 DEF SameTags
<1>18. b \in FreeIn(g.mem, O \cup C) /\ get_size(g.mem, b) = s
  BY <1>9, <1>13, <1>17 DEF FreeIn, get_alloc, get_size
<1>19. r.block = b /\ r.heap = g
  BY <1>1 DEF min_block_size, dsize
<1>20. UsedIn(g.mem, O \cup C) = UsedIn(h.mem, B) /\ KeepsUsed(h.mem, g.mem, UsedIn(h.mem, B))
  BY <1>4, <1>13, <1>16
<1>21. get_size(r.heap.mem, r.block) >= s
  BY <1>5, <1>18, <1>19
<1>22. Coalesced(h, B, r, s)
  BY ONLY <1>16, <1>18, <1>19, <1>20, <1>21 DEF Coalesced
<1>23. Merging(h.mem, h.brk, B, b, b, N, O)
  <2>1. ASSUME NEW o \in B, ~get_alloc(h.mem, o) PROVE find_next(h.mem, o) # b /\ N # o
    <3>1. N # o
      BY <1>1, <2>1
    <3>2. CASE o = b
      BY <1>1, <1>3, <1>5, <3>1, <3>2
    <3>3. CASE o # b
      <4> SUFFICES ASSUME find_next(h.mem, o) = b PROVE FALSE
        BY <3>1
      <4>1. Told(h.mem, o)
        BY <3>3 DEF Loose, Tagged
      <4>2. get_prev_alloc(h.mem, find_next(h.mem, o)) <=> get_alloc(h.mem, o)
        BY <4>1, Zenon DEF Told
      <4> QED BY <2>1, <4>2
    <3> QED BY <3>2, <3>3
  <2>2. B \ O = {b} \cup {o \in B : ~get_alloc(h.mem, o) /\ (find_next(h.mem, o) = b \/ find_next(h.mem, b) = o)}
    BY <1>1, <1>3, <2>1
  <2>3. b <= b
    BY <1>5
  <2> QED BY ONLY <1>1, <1>3, <1>5, <2>2, <2>3, b \in B DEF Merging
<1>24. Regains(h.mem, h.brk, B, b, g)
  <2>1. get_size(g.mem, b) = N - b /\ ~get_alloc(g.mem, b)
    BY <1>5, <1>18 DEF FreeIn
  <2>2. Tiled(g.mem, g.brk, O \cup {b})
    BY <1>1, <1>16 DEF Good
  <2> QED BY ONLY <1>16, <1>23, <2>1, <2>2 DEF Regains
<1>25. find_next(g.mem, b) = N
  BY <1>5, <1>18 DEF find_next
<1>26. Regained(h, B, b, r)
  BY <1>1, <1>19, <1>24, <1>25 DEF Regained
<1> QED BY <1>1, <1>22, <1>26

(* A free block that is on no list yet is merged with its free neighbours, *)
(* and the result is listed.                                               *)
LEMMA Coalesce ==
  ASSUME NEW h, NEW B, NEW b \in B, Loose(h, B, {b}, FreeIn(h.mem, B) \ {b}),
         ~get_alloc(h.mem, b), Footed(h.mem, b), NEW r, r = coalesce_block(h, b)
  PROVE  Coalesced(h, B, r, get_size(h.mem, b)) /\ Regained(h, B, b, r)
<1>1. PICK mem, n, q, s, F, E : /\ mem = h.mem /\ n = find_next(mem, b) /\ q = find_prev(mem, b)
                                /\ s = get_size(mem, b) /\ F = FreeIn(mem, B) \ {b} /\ E = h.brk - 1
  OBVIOUS
<1>2. /\ HeapType(h) /\ Tiled(mem, h.brk, B) /\ Tagged(mem, B, {b}) /\ Merged(mem, B, {b}) /\ Loose(h, B, {b}, F)
  BY <1>1 DEF Loose
<1>3. /\ \A x \in B : /\ x \in Nat /\ x <= E - 1 /\ find_next(mem, x) \in B \cup {E} /\ x # E
                      /\ get_size(mem, x) \in Nat /\ get_size(mem, x) >= 2 /\ get_size(mem, x) % 2 = 0
                      /\ find_next(mem, x) = x + get_size(mem, x) /\ x < find_next(mem, x)
      /\ get_alloc(mem, E) /\ E \in Nat
  <2>1. /\ h.brk \in Nat /\ h.brk >= 2 /\ get_alloc(mem, E) /\ E = h.brk - 1
    BY <1>1, <1>2, TiledApart DEF Tiled
  <2>2. ASSUME NEW x \in B
        PROVE  /\ x \in Nat /\ x <= E - 1 /\ find_next(mem, x) \in B \cup {E} /\ x # E
               /\ get_size(mem, x) \in Nat /\ get_size(mem, x) >= 2 /\ get_size(mem, x) % 2 = 0
               /\ find_next(mem, x) = x + get_size(mem, x) /\ x < find_next(mem, x)
    <3>1. PICK k, t : k = find_next(mem, x) /\ t = get_size(mem, x)
      OBVIOUS
    <3>2. x \in Nat /\ x <= h.brk - 2 /\ k \in B \cup {E} /\ t \in Nat /\ t >= 2 /\ t % 2 = 0 /\ k = x + t
      BY <1>1, <1>2, <2>2, <3>1, TiledApart DEF Apart, Tiled
    <3> QED BY ONLY <2>1, <3>1, <3>2
  <2> QED BY ONLY <2>1, <2>2
<1>4. n \in B \cup {E} /\ n = b + s /\ s \in Nat /\ s >= 2 /\ s % 2 = 0 /\ b < n /\ b \in Nat
  BY <1>1, <1>3
<1>5. NotAfter(mem, {b}, b)
  <2>1. n # b
    BY ONLY <1>4
  <2> QED BY ONLY <1>1, <2>1 DEF NotAfter
<1>6. ~get_alloc(mem, n) => n \in B /\ n \in F /\ get_alloc(mem, find_next(mem, n))
  <2> SUFFICES ASSUME ~get_alloc(mem, n) PROVE n \in B /\ n \in F /\ get_alloc(mem, find_next(mem, n))
    OBVIOUS
  <2>1. n \in B /\ n # b
    BY <1>3, <1>4
  <2>2. n < find_next(mem, n) /\ find_next(mem, n) \in Int /\ n \in Nat
    BY <1>3, <2>1
  <2>3. find_next(mem, n) # b
    BY ONLY <1>4, <2>2
  <2>4. get_alloc(mem, find_next(mem, n))
    BY <1>2, <2>1, <2>3 DEF Merged
  <2> QED BY <1>1, <2>1, <2>4 DEF FreeIn
<1>7. ~get_prev_alloc(mem, b) => /\ q \in B /\ q \in F /\ find_next(mem, q) = b /\ q < b /\ get_prev_alloc(mem, q)
  <2> SUFFICES ASSUME ~get_prev_alloc(mem, b)
               PROVE  /\ q \in B /\ q \in F /\ find_next(mem, q) = b /\ q < b /\ get_prev_alloc(mem, q)
    OBVIOUS
  <2>1. q \in B /\ ~get_alloc(mem, q) /\ find_next(mem, q) = b /\ q \notin {b}
    <3>1. b \in B \cup {h.brk - 1}
      OBVIOUS
    <3> QED BY ONLY <1>1, <1>2, <1>5, <3>1, ~get_prev_alloc(mem, b), BeforeIsFree
  <2>2. q < b /\ q \in Nat
    BY <1>3, <2>1
  <2>3. NotAfter(mem, {b}, q)
    <3>1. n # q
      BY ONLY <1>4, <2>2
    <3> QED BY <1>1, <3>1 DEF NotAfter
  <2>4. get_prev_alloc(mem, q)
    BY ONLY <1>2, <2>1, <2>3, BeforeFree
  <2> QED BY <1>1, <2>1, <2>2, <2>4 DEF FreeIn
<1>8. UsedIn(mem, B) \cap ({b} \cup F) = {} /\ F \subseteq FreeIn(mem, B)
  BY <1>1 DEF UsedIn, FreeIn
<1>9. (get_prev_mini(mem, b) \in BOOLEAN) /\ (get_prev_mini(mem, q) \in BOOLEAN)
  BY DEF get_prev_mini
<1>10. ASSUME NEW o \in B, ~get_alloc(mem, o), o # b, find_next(mem, o) = b PROVE ~get_prev_alloc(mem, b)
  <2>1. Told(mem, o)
    BY <1>2, <1>10 DEF Tagged
  <2>2. get_prev_alloc(mem, find_next(mem, o)) <=> get_alloc(mem, o)
    BY <2>1, Zenon DEF Told
  <2> QED BY <1>10, <2>2
<1>11. \A o, e \in B : find_next(mem, o) = b /\ find_next(mem, e) = b => o = e
  <2> SUFFICES ASSUME NEW o \in B, NEW e \in B, find_next(mem, o) = b, find_next(mem, e) = b, o # e PROVE FALSE
    OBVIOUS
  <2>1. o \in Nat /\ e \in Nat /\ o < b /\ e < b
    BY <1>3
  <2>2. (o < e => b <= e) /\ (e < o => b <= o)
    BY <1>2 DEF Tiled
  <2> QED BY ONLY <1>4, <2>1, <2>2, o # e
<1>12. CASE get_prev_alloc(mem, b) /\ get_alloc(mem, n)
  <2>1. r = [block |-> b,
             heap  |-> insert_block([h EXCEPT !.mem = set_nextblock_prev_alloc(h.mem, b, FALSE,
                                       get_size(h.mem, b) = min_block_size)], b)]
    BY <1>1, <1>12 DEF coalesce_block
  <2> QED BY <1>1, <1>12, <2>1, CoalesceAlone
<1>13. CASE get_prev_alloc(mem, b) /\ ~get_alloc(mem, n)
  <2>1. PICK h2, t, N, O : h2 = delete_block(h, n) /\ t = get_size(mem, n) /\ N = find_next(mem, n) /\ O = Outside(B, b, N)
    OBVIOUS
  <2>2. r = [block |-> b, heap |-> FreeBlock(h2, b, s + t, get_prev_mini(mem, b))]
    BY <1>1, <1>13, <2>1 DEF coalesce_block
  <2>3. /\ Loose(h2, B, {b}, F \ {n}) /\ h2.brk = h.brk /\ SameTags(h.mem, h2.mem, h.brk, B)
        /\ KeepsUsed(h.mem, h2.mem, UsedIn(h.mem, B))
    BY ONLY <1>2, <1>6, <1>13, <2>1, Delist
  <2>4. n \in B /\ N \in B \cup {E} /\ t \in Nat /\ t >= 2 /\ t % 2 = 0 /\ N = n + t /\ n < N
    BY <1>3, <1>6, <1>13, <2>1
  <2>5. O = B \ {b, n} /\ b < N
    <3>1. b < N /\ O = Outside(B, b, n) \cap Outside(B, n, N)
      BY ONLY <1>1, <1>2, <1>4, <2>1, <2>4, b \in B, OutsideTwo
    <3>2. Outside(B, b, n) = B \ {b}
      BY ONLY <1>1, <1>2, b \in B, OutsideOne
    <3>3. Outside(B, n, N) = B \ {n}
      <4>1. n \in B /\ N = find_next(mem, n) /\ Tiled(mem, h.brk, B)
        BY <1>2, <2>1, <2>4
      <4> QED BY ONLY <4>1, OutsideOne
    <3>4. O = (B \ {b}) \cap (B \ {n})
      BY ONLY <3>1, <3>2, <3>3
    <3> QED BY ONLY <3>1, <3>4
  <2>6. FreeIn(h2.mem, O) = F \ {n}
    <3>1. FreeIn(h2.mem, B) = FreeIn(mem, B)
      BY ONLY <1>1, <1>2, <2>3, SameTagsKeep
    <3>2. FreeIn(h2.mem, O) = FreeIn(h2.mem, B) \ {b, n}
      BY ONLY <2>5 DEF FreeIn
    <3> QED BY ONLY <1>1, <3>1, <3>2
  <2>7. Merging(h.mem, h.brk, B, b, b, N, O)
    <3>1. {o \in B : ~get_alloc(mem, o) /\ (find_next(mem, o) = b \/ n = o)} \cup {b} = {b, n}
      <4>1. ASSUME NEW o \in B, ~get_alloc(mem, o), find_next(mem, o) = b, o # b PROVE FALSE
        BY <1>13, <1>10, <4>1
      <4> QED BY <1>6, <1>13, <2>4, <4>1
    <3>2. B \ O = {b, n}
      BY <2>4, <2>5
    <3>3. b <= b
      BY <1>4
    <3> QED BY ONLY <1>1, <2>1, <2>4, <2>5, <3>1, <3>2, <3>3, b \in B DEF Merging
  <2>8. get_alloc(h.mem, find_next(h.mem, b)) => N = find_next(h.mem, b)
    BY <1>1, <1>13
  <2>9. Unlisted(h, h2, B, b, b, N, O)
    <3>1. UsedIn(h.mem, B) \subseteq O /\ b \notin O
      BY <1>1, <1>6, <1>8, <1>13, <2>5 DEF UsedIn
    <3>2. get_prev_alloc(h.mem, b) /\ get_alloc(h.mem, N)
      BY <1>1, <1>6, <1>13, <2>1
    <3> QED BY ONLY <1>1, <2>1, <2>3, <2>4, <2>5, <2>6, <2>7, <2>8, <3>1, <3>2, b \in B DEF Unlisted
  <2>10. s + t \in Nat /\ (s + t) % 2 = 0 /\ s + t # 2 /\ N = b + (s + t) /\ s \in Nat /\ s <= s + t
    BY ONLY <1>4, <2>4
  <2>11. PICK u : u = s + t
    OBVIOUS
  <2>12. r = [block |-> b, heap |-> FreeBlock(h2, b, u, get_prev_mini(mem, b))]
         /\ u \in Nat /\ u % 2 = 0 /\ u # 2 /\ N = b + u /\ s <= u
    BY ONLY <2>2, <2>10, <2>11
  <2>13. Coalesced(h, B, r, s) /\ Regained(h, B, b, r)
    BY ONLY <1>1, <1>2, <1>4, <1>9, <2>9, <2>12, Join
  <2> QED BY <1>1, <2>13
<1>14. CASE ~get_prev_alloc(mem, b) /\ get_alloc(mem, n)
  <2>1. PICK h2, t, O : h2 = delete_block(h, q) /\ t = get_size(mem, q) /\ O = Outside(B, q, n)
    OBVIOUS
  <2>2. r = [block |-> q, heap |-> FreeBlock(h2, q, s + t, get_prev_mini(mem, b))]
    BY <1>1, <1>14, <2>1 DEF coalesce_block
  <2>3. /\ Loose(h2, B, {b}, F \ {q}) /\ h2.brk = h.brk /\ SameTags(h.mem, h2.mem, h.brk, B)
        /\ KeepsUsed(h.mem, h2.mem, UsedIn(h.mem, B))
    BY ONLY <1>2, <1>7, <1>14, <2>1, Delist
  <2>4. q \in B /\ t \in Nat /\ t >= 2 /\ t % 2 = 0 /\ b = q + t /\ q < b /\ q \in Nat
    BY <1>3, <1>7, <1>14, <2>1
  <2>5. O = B \ {q, b} /\ q < n
    <3>1. q < n /\ O = Outside(B, q, b) \cap Outside(B, b, n)
      BY ONLY <1>1, <1>2, <1>4, <2>1, <2>4, b \in B, OutsideTwo
    <3>2. Outside(B, q, b) = B \ {q} /\ Outside(B, b, n) = B \ {b}
      BY <1>1, <1>2, <1>7, <1>14, <2>1, <2>4, OutsideOne
    <3> QED BY <3>1, <3>2
  <2>6. FreeIn(h2.mem, O) = F \ {q}
    <3>1. FreeIn(h2.mem, B) = FreeIn(mem, B)
      BY ONLY <1>1, <1>2, <2>3, SameTagsKeep
    <3>2. FreeIn(h2.mem, O) = FreeIn(h2.mem, B) \ {b, q}
      BY ONLY <2>5 DEF FreeIn
    <3> QED BY ONLY <1>1, <3>1, <3>2
  <2>7. Merging(h.mem, h.brk, B, b, q, n, O)
    <3>1. {o \in B : ~get_alloc(mem, o) /\ (find_next(mem, o) = b \/ n = o)} \cup {b} = {q, b}
      BY <1>1, <1>7, <1>14, <1>11 DEF FreeIn
    <3>2. B \ O = {q, b}
      BY <2>4, <2>5
    <3>3. q <= b
      BY <1>4, <2>4
    <3> QED BY ONLY <1>1, <1>4, <2>1, <2>4, <2>5, <3>1, <3>2, <3>3, b \in B DEF Merging
  <2>8. get_alloc(h.mem, find_next(h.mem, b)) => n = find_next(h.mem, b)
    BY <1>1
  <2>9. Unlisted(h, h2, B, b, q, n, O)
    <3>1. UsedIn(h.mem, B) \subseteq O /\ b \notin O
      BY <1>1, <1>7, <1>8, <1>14, <2>5 DEF UsedIn
    <3>2. get_prev_alloc(h.mem, q) /\ get_alloc(h.mem, n)
      BY <1>1, <1>7, <1>14
    <3> QED BY ONLY <1>1, <1>4, <2>1, <2>3, <2>4, <2>5, <2>6, <2>7, <2>8, <3>1, <3>2, b \in B DEF Unlisted
  <2>10. s + t \in Nat /\ (s + t) % 2 = 0 /\ s + t # 2 /\ n = q + (s + t) /\ s \in Nat /\ s <= s + t
    BY ONLY <1>4, <2>4
  <2>11. PICK u : u = s + t
    OBVIOUS
  <2>12. r = [block |-> q, heap |-> FreeBlock(h2, q, u, get_prev_mini(mem, b))]
         /\ u \in Nat /\ u % 2 = 0 /\ u # 2 /\ n = q + u /\ s <= u
    BY ONLY <2>2, <2>10, <2>11
  <2>13. Coalesced(h, B, r, s) /\ Regained(h, B, b, r)
    BY ONLY <1>1, <1>2, <1>4, <1>9, <2>9, <2>12, Join
  <2> QED BY <1>1, <2>13
<1>15. CASE ~get_prev_alloc(mem, b) /\ ~get_alloc(mem, n)
  <2>1. PICK h1, h2, t, v, N, O :
          /\ h1 = delete_block(h, q) /\ h2 = delete_block(h1, n)
          /\ t = get_size(mem, q) /\ v = get_size(mem, n) /\ N = find_next(mem, n) /\ O = Outside(B, q, N)
    OBVIOUS
  <2>2. r = [block |-> q, heap |-> FreeBlock(h2, q, s + t + v, get_prev_mini(mem, q))]
    BY <1>1, <1>15, <2>1 DEF coalesce_block
  <2>3. /\ Loose(h1, B, {b}, F \ {q}) /\ h1.brk = h.brk /\ SameTags(h.mem, h1.mem, h.brk, B)
        /\ KeepsUsed(h.mem, h1.mem, UsedIn(h.mem, B))
    BY ONLY <1>2, <1>7, <1>15, <2>1, Delist
  <2>4. q \in B /\ t \in Nat /\ t >= 2 /\ t % 2 = 0 /\ b = q + t /\ q < b /\ q \in Nat
    BY <1>3, <1>7, <1>15, <2>1
  <2>5. n \in B /\ N \in B \cup {E} /\ v \in Nat /\ v >= 2 /\ v % 2 = 0 /\ N = n + v /\ n < N
    BY <1>3, <1>6, <1>15, <2>1
  <2>6. n \in F \ {q}
    <3>1. n # q
      BY ONLY <1>4, <2>4
    <3> QED BY <1>6, <1>15, <3>1
  <2>7. /\ Loose(h2, B, {b}, (F \ {q}) \ {n}) /\ h2.brk = h1.brk /\ SameTags(h1.mem, h2.mem, h1.brk, B)
        /\ KeepsUsed(h1.mem, h2.mem, UsedIn(h1.mem, B))
    BY ONLY <2>1, <2>3, <2>6, Delist
  <2>8. /\ FreeIn(h1.mem, B) = FreeIn(mem, B) /\ UsedIn(h1.mem, B) = UsedIn(h.mem, B)
        /\ Tiled(h1.mem, h1.brk, B)
    <3>1. FreeIn(h1.mem, B) = FreeIn(mem, B) /\ UsedIn(h1.mem, B) = UsedIn(h.mem, B)
      BY ONLY <1>1, <1>2, <2>3, SameTagsKeep
    <3> QED BY <2>3, <3>1 DEF Loose
  <2>9. FreeIn(h2.mem, B) = FreeIn(mem, B)
    <3>1. FreeIn(h2.mem, B) = FreeIn(h1.mem, B)
      BY ONLY <2>7, <2>8, SameTagsKeep
    <3> QED BY <2>8, <3>1
  <2>10. SameTags(h.mem, h2.mem, h.brk, B)
    <3>1. \A x \in B \cup {h.brk - 1} : h1.mem[x] = h.mem[x] /\ h2.mem[x] = h1.mem[x]
      BY <2>3, <2>7 DEF SameTags
    <3>2. \A x \in B : /\ get_alloc(h1.mem, x) <=> get_alloc(h.mem, x)
                       /\ get_size(h1.mem, x) = get_size(h.mem, x)
                       /\ header_to_footer(h1.mem, x) = header_to_footer(h.mem, x)
      BY <3>1 DEF get_alloc, get_size, header_to_footer
    <3>3. \A x \in B : ~get_alloc(h.mem, x) /\ get_size(h.mem, x) # 2 =>
            /\ h1.mem[header_to_footer(h.mem, x)] = h.mem[header_to_footer(h.mem, x)]
            /\ h2.mem[header_to_footer(h.mem, x)] = h1.mem[header_to_footer(h.mem, x)]
      BY <2>3, <2>7, <3>2 DEF SameTags
    <3>4. h2.mem[0] = h.mem[0]
      BY <2>3, <2>7 DEF SameTags
    <3> QED BY ONLY <3>1, <3>3, <3>4 DEF SameTags
  <2>11. KeepsUsed(h.mem, h2.mem, UsedIn(h.mem, B))
    <3>1. KeepsUsed(h1.mem, h2.mem, UsedIn(h.mem, B))
      BY <2>7, <2>8
    <3> QED BY ONLY <2>3, <3>1, KeepsTwice
  <2>12. O = B \ {q, b, n} /\ q < N
    <3>1. b < N /\ Outside(B, b, N) = Outside(B, b, n) \cap Outside(B, n, N)
      BY ONLY <1>1, <1>2, <1>4, <2>5, b \in B, OutsideTwo
    <3>2. q < N /\ O = Outside(B, q, b) \cap Outside(B, b, N)
      BY ONLY <1>1, <1>2, <1>4, <2>1, <2>4, <2>5, <3>1, b \in B, OutsideTwo
    <3>3. Outside(B, q, b) = B \ {q} /\ Outside(B, b, n) = B \ {b} /\ Outside(B, n, N) = B \ {n}
      BY <1>1, <1>2, <1>7, <1>15, <2>1, <2>4, <2>5, OutsideOne
    <3> QED BY <3>1, <3>2, <3>3
  <2>13. FreeIn(h2.mem, O) = (F \ {q}) \ {n}
    <3>1. FreeIn(h2.mem, O) = FreeIn(h2.mem, B) \ {q, b, n}
      BY ONLY <2>12 DEF FreeIn
    <3> QED BY ONLY <1>1, <2>9, <3>1
  <2>14. Merging(h.mem, h.brk, B, b, q, N, O)
    <3>1. {o \in B : ~get_alloc(mem, o) /\ (find_next(mem, o) = b \/ n = o)} \cup {b} = {q, b, n}
      BY <1>1, <1>6, <1>7, <1>15, <1>11 DEF FreeIn
    <3>2. B \ O = {q, b, n}
      BY <2>4, <2>5, <2>12
    <3>3. q <= b /\ b < N
      BY <1>4, <2>4, <2>5
    <3> QED BY ONLY <1>1, <2>1, <2>4, <2>5, <3>1, <3>2, <3>3, b \in B DEF Merging
  <2>15. get_alloc(h.mem, find_next(h.mem, b)) => N = find_next(h.mem, b)
    BY <1>1, <1>15
  <2>16. Unlisted(h, h2, B, b, q, N, O)
    <3>1. UsedIn(h.mem, B) \subseteq O /\ b \notin O
      BY <1>1, <1>6, <1>7, <1>8, <1>15, <2>12 DEF UsedIn
    <3>2. get_prev_alloc(h.mem, q) /\ get_alloc(h.mem, N)
      BY <1>1, <1>6, <1>7, <1>15, <2>1
    <3> QED BY ONLY <1>1, <2>1, <2>3, <2>4, <2>5, <2>7, <2>10, <2>11, <2>12, <2>13, <2>14, <2>15, <3>1, <3>2, b \in B DEF Unlisted
  <2>17. s + t + v \in Nat /\ (s + t + v) % 2 = 0 /\ s + t + v # 2 /\ N = q + (s + t + v) /\ s \in Nat /\ s <= s + t + v
    BY ONLY <1>4, <2>4, <2>5
  <2>18. PICK u : u = s + t + v
    OBVIOUS
  <2>19. r = [block |-> q, heap |-> FreeBlock(h2, q, u, get_prev_mini(mem, q))]
         /\ u \in Nat /\ u % 2 = 0 /\ u # 2 /\ N = q + u /\ s <= u
    BY ONLY <2>2, <2>17, <2>18
  <2>20. Coalesced(h, B, r, s) /\ Regained(h, B, b, r)
    BY ONLY <1>1, <1>2, <1>4, <1>9, <2>16, <2>19, Join
  <2> QED BY <1>1, <2>20
<1> QED BY <1>12, <1>13, <1>14, <1>15

-----------------------------------------------------------------------------
(* The heap grows. *)

Unused(p, n) == [at |-> p, size |-> n, used |-> FALSE]
Attached(mem, B, mem2, E, s) == Segs(mem2, B \cup {E}) = Segs(mem, B) \cup {Unused(E, s)}

(* Memories with the same words below E.                                   *)
SameBelow(mem, mem2, E) == \A w \in 0..E - 1 : mem2[w] = mem[w]

(* What the blocks of B say and hold if the words below the old epilogue E *)
(* stay, and what E says of the block before it.                           *)
LEMMA Below ==
  ASSUME NEW mem, NEW mem2, NEW brk, NEW B, Tiled(mem, brk, B), NEW E, E = brk - 1, SameBelow(mem, mem2, E)
  PROVE  \A b \in B : /\ mem2[b] = mem[b] /\ get_size(mem2, b) = get_size(mem, b) /\ find_next(mem2, b) = find_next(mem, b)
                      /\ (get_alloc(mem2, b) <=> get_alloc(mem, b))
                      /\ (get_prev_alloc(mem2, b) <=> get_prev_alloc(mem, b))
                      /\ (get_prev_mini(mem2, b) <=> get_prev_mini(mem, b))
                      /\ SamePayload(mem, mem2, b) /\ (Footed(mem, b) => Footed(mem2, b))
<1> SUFFICES ASSUME NEW b \in B
             PROVE  /\ mem2[b] = mem[b] /\ get_size(mem2, b) = get_size(mem, b) /\ find_next(mem2, b) = find_next(mem, b)
                    /\ (get_alloc(mem2, b) <=> get_alloc(mem, b))
                    /\ (get_prev_alloc(mem2, b) <=> get_prev_alloc(mem, b))
                    /\ (get_prev_mini(mem2, b) <=> get_prev_mini(mem, b))
                    /\ SamePayload(mem, mem2, b) /\ (Footed(mem, b) => Footed(mem2, b))
  OBVIOUS
<1>1. PICK s : s = get_size(mem, b)
  OBVIOUS
<1>2. b \in Nat /\ s \in Nat /\ s >= 2 /\ b + s <= E /\ E \in Nat
  <2>1. b \in Nat /\ s \in Nat /\ s >= 2 /\ b + s <= brk - 1 /\ brk \in Nat /\ brk >= 2
    BY <1>1, TiledApart DEF Apart
  <2> QED BY ONLY <2>1, E = brk - 1
<1>3. \A x \in 0..s - 1 : b + x \in 0..E - 1
  BY ONLY <1>2
<1>4. \A x \in 0..s - 1 : mem2[b + x] = mem[b + x]
  BY <1>3 DEF SameBelow
<1>5. 0 \in 0..s - 1 /\ s - 1 \in 0..s - 1 /\ b + 0 = b /\ b + (s - 1) = b + s - 1 /\ \A x \in 1..s - 1 : x \in 0..s - 1
  BY ONLY <1>2
<1>6. mem2[b] = mem[b] /\ mem2[b + s - 1] = mem[b + s - 1]
  BY ONLY <1>4, <1>5
<1>7. get_size(mem2, b) = get_size(mem, b)
  BY <1>6 DEF get_size
<1>8. SamePayload(mem, mem2, b)
  BY <1>1, <1>4, <1>5 DEF SamePayload
<1>9. get_alloc(mem2, b) <=> get_alloc(mem, b)
  BY <1>6, Zenon DEF get_alloc
<1>10. Footed(mem, b) => Footed(mem2, b)
  BY <1>1, <1>6, <1>7, <1>9 DEF Footed, header_to_footer
<1>11. /\ (get_prev_alloc(mem2, b) <=> get_prev_alloc(mem, b))
       /\ (get_prev_mini(mem2, b) <=> get_prev_mini(mem, b))
       /\ find_next(mem2, b) = find_next(mem, b)
  BY <1>6, <1>7, Zenon DEF get_prev_alloc, get_prev_mini, find_next
<1> QED BY <1>6, <1>7, <1>8, <1>9, <1>10, <1>11

(* A free block of s words where the epilogue was, and a new epilogue.     *)
Lengthened(h, B, h2, E, s) ==
  /\ E = h.brk - 1 /\ h2.brk = h.brk + s /\ h2.brk \in 2..MaxHeap /\ HeapType(h2) /\ h2.seg_list = h.seg_list
  /\ SameBelow(h.mem, h2.mem, E)
  /\ Header(h2.mem, E, s, FALSE, get_prev_alloc(h.mem, E), get_prev_mini(h.mem, E))
  /\ Header(h2.mem, E + s, 0, TRUE, FALSE, FALSE)
  /\ Footed(h2.mem, E)

LEMMA Lengthen ==
  ASSUME NEW h, NEW B, Good(h, B), NEW s \in Nat, s % 2 = 0, s >= 2, NEW h2, NEW E, Lengthened(h, B, h2, E, s)
  PROVE  /\ Loose(h2, B \cup {E}, {E}, FreeIn(h2.mem, B \cup {E}) \ {E}) /\ E \notin B
         /\ UsedIn(h2.mem, B \cup {E}) = UsedIn(h.mem, B) /\ KeepsUsed(h.mem, h2.mem, UsedIn(h.mem, B))
         /\ Attached(h.mem, B, h2.mem, E, s)
<1>1. PICK mem, m, D : mem = h.mem /\ m = h2.mem /\ D = B \cup {E}
  OBVIOUS
<1>2. /\ E = h.brk - 1 /\ h2.brk = h.brk + s /\ h2.brk \in 2..MaxHeap /\ HeapType(h2) /\ h2.seg_list = h.seg_list
      /\ SameBelow(mem, m, E) /\ Footed(m, E)
      /\ m[E] \in Nat /\ get_size(m, E) = s /\ ~get_alloc(m, E)
      /\ (get_prev_alloc(m, E) <=> get_prev_alloc(mem, E)) /\ (get_prev_mini(m, E) <=> get_prev_mini(mem, E))
      /\ m[E + s] \in Nat /\ get_size(m, E + s) = 0 /\ get_alloc(m, E + s)
  BY <1>1 DEF Lengthened, Header
<1>3. /\ HeapType(h) /\ Tiled(mem, h.brk, B) /\ Tagged(mem, B, {}) /\ Merged(mem, B, {})
      /\ Listed(mem, h.seg_list, FreeIn(mem, B))
  BY <1>1 DEF Good
<1>4. \A b \in B : /\ m[b] = mem[b] /\ get_size(m, b) = get_size(mem, b) /\ find_next(m, b) = find_next(mem, b)
                   /\ (get_alloc(m, b) <=> get_alloc(mem, b))
                   /\ (get_prev_alloc(m, b) <=> get_prev_alloc(mem, b))
                   /\ (get_prev_mini(m, b) <=> get_prev_mini(mem, b))
                   /\ SamePayload(mem, m, b) /\ (Footed(mem, b) => Footed(m, b))
  BY ONLY <1>2, <1>3, Below
<1>5. /\ h.brk \in Nat /\ E \in Nat /\ E >= 1 /\ h2.brk - 1 = E + s
      /\ \A b \in B : b \in Nat /\ b < E /\ find_next(mem, b) \in B \cup {E} /\ b >= 1
  <2>1. h.brk \in 2..MaxHeap /\ MaxHeap \in Nat
    BY <1>3, HeapAssumption DEF Tiled
  <2>2. h.brk \in Nat /\ E \in Nat /\ E >= 1 /\ h2.brk - 1 = E + s
    BY ONLY <1>2, <2>1, s \in Nat
  <2>3. \A b \in B : b \in 1..(h.brk - 2) /\ find_next(mem, b) \in B \cup {E}
    BY <1>2, <1>3 DEF Tiled
  <2>4. ASSUME NEW b \in B PROVE b \in Nat /\ b < E /\ b >= 1
    <3>1. b \in 1..(h.brk - 2)
      BY <2>3
    <3> QED BY ONLY <1>2, <2>2, <3>1
  <2> QED BY <2>2, <2>3, <2>4
<1>6. E \notin B
  BY <1>5
<1>7. find_next(m, E) = E + s
  BY <1>2 DEF find_next
<1>8. Tiled(m, h2.brk, D)
  <2>1. D \subseteq 1..(h2.brk - 2)
    <3>1. \A b \in D : b \in Nat /\ b >= 1 /\ b <= E
      BY <1>1, <1>5
    <3>2. E <= h2.brk - 2 /\ h2.brk \in Nat
      BY ONLY <1>2, <1>5, s \in Nat, s >= 2
    <3>3. \A b \in D : b \in 1..(h2.brk - 2)
      BY ONLY <1>5, <3>1, <3>2
    <3> QED BY <3>3
  <2>2. \A b \in D \cup {h2.brk - 1} : m[b] \in Nat
    BY <1>1, <1>2, <1>3, <1>4, <1>5 DEF Tiled
  <2>3. \A b \in D : get_size(m, b) >= 2 /\ find_next(m, b) \in D \cup {h2.brk - 1}
    BY <1>1, <1>2, <1>3, <1>4, <1>5, <1>7, s >= 2 DEF Tiled
  <2>4. ASSUME NEW b \in D, NEW c \in D, b < c PROVE find_next(m, b) <= c
    <3>1. b \in B
      BY <1>1, <1>5, <2>4
    <3>2. CASE c \in B
      BY <1>3, <1>4, <2>4, <3>1, <3>2 DEF Tiled
    <3>3. CASE c = E
      <4>1. find_next(m, b) \in B \cup {E}
        BY <1>4, <1>5, <3>1
      <4> QED BY ONLY <1>5, <3>3, <4>1
    <3> QED BY <1>1, <3>2, <3>3
  <2>5. 1 \in D \cup {h2.brk - 1} /\ get_size(m, h2.brk - 1) = 0 /\ get_alloc(m, h2.brk - 1)
    BY <1>1, <1>2, <1>3, <1>5 DEF Tiled
  <2>6. Prologue(m)
    <3>1. 0 \in 0..E - 1
      BY ONLY <1>5
    <3>2. m[0] = mem[0]
      BY <1>2, <3>1 DEF SameBelow
    <3> QED BY <1>3, <3>2, Zenon DEF Prologue, Tiled
  <2> QED BY <1>2, <2>1, <2>2, <2>3, <2>4, <2>5, <2>6 DEF Tiled
<1>9. ASSUME NEW b \in B
      PROVE  /\ (get_prev_alloc(m, find_next(m, b)) <=> get_prev_alloc(mem, find_next(mem, b)))
             /\ (get_prev_mini(m, find_next(m, b)) <=> get_prev_mini(mem, find_next(mem, b)))
  <2>1. PICK n : n = find_next(mem, b)
    OBVIOUS
  <2>2. n \in B \cup {E} /\ find_next(m, b) = n
    BY <1>4, <1>5, <2>1
  <2> QED BY <1>2, <1>4, <2>1, <2>2
<1>10. Tagged(m, D, {E})
  <2>1. get_prev_alloc(m, 1)
    <3>1. get_prev_alloc(mem, 1) /\ 1 \in B \cup {E}
      BY <1>2, <1>3 DEF Tagged, Tiled
    <3> QED BY <1>2, <1>4, <3>1
  <2>2. ASSUME NEW b \in D \ {E} PROVE Told(m, b) /\ Footed(m, b)
    <3>1. b \in B /\ b \in B \ {}
      BY <1>1, <2>2
    <3>2. Told(mem, b) /\ Footed(mem, b)
      BY <1>3, <3>1 DEF Tagged
    <3>3. /\ get_prev_alloc(mem, find_next(mem, b)) = get_alloc(mem, b)
          /\ ~get_alloc(mem, b) => get_prev_mini(mem, find_next(mem, b)) = (get_size(mem, b) = 2)
      BY <3>2, Zenon DEF Told
    <3>4. /\ (get_alloc(m, b) <=> get_alloc(mem, b)) /\ get_size(m, b) = get_size(mem, b) /\ Footed(m, b)
      BY <1>4, <3>1, <3>2
    <3>5. /\ (get_prev_alloc(m, find_next(m, b)) <=> get_prev_alloc(mem, find_next(mem, b)))
          /\ (get_prev_mini(m, find_next(m, b)) <=> get_prev_mini(mem, find_next(mem, b)))
      BY <1>9, <3>1
    <3>6. /\ get_prev_alloc(m, find_next(m, b)) = get_alloc(m, b)
          /\ ~get_alloc(m, b) => get_prev_mini(m, find_next(m, b)) = (get_size(m, b) = 2)
      BY ONLY <3>3, <3>4, <3>5, Zenon DEF get_prev_alloc, get_prev_mini, get_alloc, extract_alloc
    <3>7. Told(m, b)
      BY ONLY <3>6, Zenon DEF Told
    <3> QED BY <3>4, <3>7
  <2> QED BY <2>1, <2>2 DEF Tagged
<1>11. Merged(m, D, {E})
  <2> SUFFICES ASSUME NEW b \in D, ~get_alloc(m, b), b \notin {E}, find_next(m, b) \notin {E}
               PROVE  get_alloc(m, find_next(m, b))
    BY DEF Merged
  <2>1. b \in B /\ find_next(m, b) = find_next(mem, b) /\ ~get_alloc(mem, b)
    BY <1>1, <1>4
  <2>2. get_alloc(mem, find_next(mem, b))
    BY <1>3, <2>1 DEF Merged
  <2>3. find_next(mem, b) \in B
    BY <1>5, <2>1
  <2> QED BY <1>4, <2>1, <2>2, <2>3
<1>12. /\ FreeIn(m, D) \ {E} = FreeIn(mem, B) /\ UsedIn(m, D) = UsedIn(mem, B)
       /\ KeepsUsed(mem, m, UsedIn(mem, B))
  <2>1. FreeIn(m, D) \ {E} = FreeIn(mem, B) /\ UsedIn(m, D) = UsedIn(mem, B)
    BY ONLY <1>1, <1>2, <1>4, <1>6 DEF FreeIn, UsedIn
  <2>2. KeepsUsed(mem, m, UsedIn(mem, B))
    BY ONLY <1>4 DEF KeepsUsed, UsedIn
  <2> QED BY <2>1, <2>2
<1>13. Listed(m, h2.seg_list, FreeIn(mem, B))
  <2>1. PICK F : F = FreeIn(mem, B)
    OBVIOUS
  <2>2. F \in SUBSET B
    BY <2>1 DEF FreeIn
  <2>3. Apart(mem, F)
    BY <1>3, <2>2, TiledApart, ApartSubset
  <2>4. ASSUME NEW f \in F
        PROVE  /\ get_size(m, f) = get_size(mem, f) /\ m[f + 1] = mem[f + 1]
               /\ get_size(mem, f) # 2 => m[f + 2] = mem[f + 2]
    <3>1. PICK t : t = get_size(mem, f)
      OBVIOUS
    <3>2. t \in Nat /\ t >= 2 /\ (t # 2 => t >= 4)
      BY <2>3, <3>1 DEF Apart
    <3>3. 1 \in 1..t - 1 /\ (t # 2 => 2 \in 1..t - 1)
      BY ONLY <3>2
    <3> QED BY <1>4, <2>2, <3>1, <3>3 DEF SamePayload
  <2>5. Listed(mem, h2.seg_list, F)
    BY <1>2, <1>3, <2>1
  <2>6. Listed(m, h2.seg_list, F)
    BY ONLY <2>3, <2>4, <2>5, SameLinks
  <2> QED BY <2>1, <2>6
<1>14. Loose(h2, D, {E}, FreeIn(m, D) \ {E})
  <2>1. FreeIn(m, D) \ {E} \subseteq FreeIn(m, D)
    OBVIOUS
  <2>2. Listed(m, h2.seg_list, FreeIn(m, D) \ {E})
    BY <1>12, <1>13
  <2> QED BY <1>1, <1>2, <1>8, <1>10, <1>11, <2>1, <2>2 DEF Loose
<1>15. Segs(m, D) = Segs(mem, B) \cup {Unused(E, s)}
  <2>1. Segs(m, D) = Segs(m, B) \cup {Seg(m, E)}
    BY <1>1 DEF Segs
  <2>2. SameSegs(mem, m, B)
    BY ONLY <1>4 DEF SameSegs
  <2>3. get_alloc(m, E) = FALSE
    BY <1>2, Zenon DEF get_alloc, extract_alloc
  <2>4. Seg(m, E) = Unused(E, s)
    BY <1>2, <2>3, Zenon DEF Seg, Unused
  <2> QED BY <2>1, <2>2, <2>4, SegsAre
<1>16. Attached(mem, B, m, E, s)
  BY <1>1, <1>15 DEF Attached
<1> QED BY <1>1, <1>6, <1>12, <1>14, <1>16

(* The heap with room for a block of n words, in r.heap at r.block.        *)
GrownTo(h, B, r, n) ==
  \E D : /\ Good(r.heap, D) /\ r.block \in FreeIn(r.heap.mem, D) /\ get_size(r.heap.mem, r.block) >= n
         /\ UsedIn(r.heap.mem, D) = UsedIn(h.mem, B) /\ KeepsUsed(h.mem, r.heap.mem, UsedIn(h.mem, B))

(* The heap grown by n words: an unused segment at the end is merged, and  *)
(* r.block is the last one.                                                *)
Longer(S, n) == LET new == Unused(SG!End(S), n) IN SG!Given(S \cup {new}, new)
Grows(h, r, n) ==
  /\ Shown(r.heap) = Longer(Shown(h), n)
  /\ r.heap.brk = h.brk + n /\ find_next(r.heap.mem, r.block) = r.heap.brk - 1

LEMMA ExtendHeap ==
  ASSUME NEW h, NEW B, Good(h, B), NEW s \in Nat, s % 2 = 0, s >= 2, h.brk + s <= MaxHeap,
         NEW r, r = extend_heap(h, s)
  PROVE  GrownTo(h, B, r, s) /\ Grows(h, r, s)
<1>1. PICK E, p, q, tag, m1, m :
        /\ E = h.brk - 1 /\ p = get_prev_alloc(h.mem, E) /\ q = get_prev_mini(h.mem, E)
        /\ tag = pack(s, FALSE, p, q) /\ m1 = write_tags(h.mem, E, s, FALSE, p, q)
        /\ m = write_header(m1, E + s, 0, TRUE, FALSE, FALSE)
  OBVIOUS
<1>2. PICK h2 :
        /\ E = h.brk - 1 /\ p = get_prev_alloc(h.mem, E) /\ q = get_prev_mini(h.mem, E)
        /\ tag = pack(s, FALSE, p, q) /\ m1 = write_tags(h.mem, E, s, FALSE, p, q)
        /\ m = write_header(m1, E + s, 0, TRUE, FALSE, FALSE)
        /\ h2 = [h EXCEPT !.brk = @ + s, !.mem = m]
  BY <1>1
<1>3. HeapType(h) /\ h.mem \in Memory /\ h.brk \in 2..MaxHeap /\ MaxHeap \in Nat
  BY HeapAssumption DEF Good, HeapType
<1>4. /\ E \in 0..MaxHeap - 1 /\ E \in Nat /\ E + s \in 0..MaxHeap - 1 /\ E + s - 1 \in 0..MaxHeap - 1
      /\ h.brk + s \in 2..MaxHeap /\ E # E + s /\ E + s - 1 # E + s
      /\ \A w \in 0..E - 1 : w \in 0..MaxHeap - 1 /\ w # E /\ w # E + s - 1 /\ w # E + s
  BY ONLY <1>2, <1>3, s \in Nat, s >= 2, h.brk + s <= MaxHeap
<1>5. p \in BOOLEAN /\ q \in BOOLEAN
  BY <1>2 DEF get_prev_alloc, get_prev_mini
<1>6. m1 \in Memory /\ TagsWritten(h.mem, m1, E, s, tag)
  BY ONLY <1>2, <1>3, <1>4, <1>5, WriteTags, s \in Nat, s % 2 = 0
<1>7. m \in Memory /\ HeaderWritten(m1, m, E + s, pack(0, TRUE, FALSE, FALSE))
  <2>1. 0 \in Nat /\ 0 % 2 = 0 /\ TRUE \in BOOLEAN /\ FALSE \in BOOLEAN
    OBVIOUS
  <2> QED BY ONLY <1>2, <1>6, <2>1, WriteHeader
<1>8. /\ \A w \in 0..MaxHeap - 1 : m1[w] = IF w = E \/ w = E + s - 1 THEN tag ELSE h.mem[w]
      /\ \A w \in 0..MaxHeap - 1 : m[w] = IF w = E + s THEN pack(0, TRUE, FALSE, FALSE) ELSE m1[w]
  BY ONLY <1>6, <1>7 DEF TagsWritten, HeaderWritten
<1>9. m[E] = tag /\ m[E + s - 1] = tag /\ m[E + s] = pack(0, TRUE, FALSE, FALSE)
  BY ONLY <1>4, <1>8
<1>10. SameBelow(h.mem, m, E)
  BY ONLY <1>4, <1>8 DEF SameBelow
<1>11. Header(m, E, s, FALSE, p, q)
  <2>1. FALSE \in BOOLEAN /\ m[E] = pack(s, FALSE, p, q)
    BY <1>2, <1>9
  <2> QED BY ONLY <1>5, <2>1, ReadHeader, s \in Nat, s % 2 = 0
<1>12. Header(m, E + s, 0, TRUE, FALSE, FALSE)
  <2>1. 0 \in Nat /\ 0 % 2 = 0 /\ TRUE \in BOOLEAN /\ FALSE \in BOOLEAN
    OBVIOUS
  <2> QED BY ONLY <1>9, <2>1, ReadHeader
<1>13. ~get_alloc(m, E) /\ get_size(m, E) = s
  BY <1>11 DEF Header
<1>14. Footed(m, E)
  <2>1. SaysFree(m[E + s - 1], s)
    BY <1>9, <1>13 DEF get_size, get_alloc, SaysFree
  <2> QED BY <1>13, <2>1 DEF Footed, header_to_footer
<1>15. h2.mem = m /\ h2.brk = h.brk + s /\ HeapType(h2) /\ h2.seg_list = h.seg_list
  BY ONLY <1>2, <1>3, <1>4, <1>7 DEF HeapType
<1>16. Lengthened(h, B, h2, E, s)
  BY ONLY <1>2, <1>4, <1>10, <1>11, <1>12, <1>14, <1>15 DEF Lengthened
<1>17. PICK D : D = B \cup {E}
  OBVIOUS
<1>18. /\ Loose(h2, D, {E}, FreeIn(h2.mem, D) \ {E}) /\ E \in D
       /\ UsedIn(h2.mem, D) = UsedIn(h.mem, B) /\ KeepsUsed(h.mem, h2.mem, UsedIn(h.mem, B))
       /\ Segs(h2.mem, D) = Segs(h.mem, B) \cup {Unused(E, s)}
  <2>1. /\ Loose(h2, B \cup {E}, {E}, FreeIn(h2.mem, B \cup {E}) \ {E}) /\ E \notin B
        /\ UsedIn(h2.mem, B \cup {E}) = UsedIn(h.mem, B) /\ KeepsUsed(h.mem, h2.mem, UsedIn(h.mem, B))
        /\ Attached(h.mem, B, h2.mem, E, s)
    BY ONLY <1>16, Lengthen, Good(h, B), s \in Nat, s % 2 = 0, s >= 2
  <2> QED BY <1>17, <2>1 DEF Attached
<1>19. r = coalesce_block(h2, E)
  BY ONLY <1>2, r = extend_heap(h, s) DEF extend_heap
<1>20. ~get_alloc(h2.mem, E) /\ Footed(h2.mem, E) /\ get_size(h2.mem, E) = s
  BY <1>13, <1>14, <1>15
<1>21. Coalesced(h2, D, r, s) /\ Regained(h2, D, E, r)
  <2>1. Coalesced(h2, D, r, get_size(h2.mem, E)) /\ Regained(h2, D, E, r)
    BY ONLY <1>18, <1>19, <1>20, Coalesce
  <2> QED BY <1>20, <2>1
<1>22. PICK G : /\ Good(r.heap, G) /\ r.heap.brk = h2.brk
                /\ UsedIn(r.heap.mem, G) = UsedIn(h2.mem, D) /\ KeepsUsed(h2.mem, r.heap.mem, UsedIn(h2.mem, D))
                /\ r.block \in FreeIn(r.heap.mem, G) /\ get_size(r.heap.mem, r.block) >= s
  BY <1>21 DEF Coalesced
<1>23. KeepsUsed(h.mem, r.heap.mem, UsedIn(h.mem, B))
  <2>1. KeepsUsed(h2.mem, r.heap.mem, UsedIn(h.mem, B))
    BY <1>18, <1>22
  <2> QED BY ONLY <1>18, <2>1, KeepsTwice
<1>24. GrownTo(h, B, r, s)
  BY ONLY <1>18, <1>22, <1>23 DEF GrownTo
<1>25. find_next(h2.mem, E) = E + s /\ get_alloc(h2.mem, E + s)
  BY <1>12, <1>15, <1>20 DEF find_next, Header
<1>26. find_next(r.heap.mem, r.block) = r.heap.brk - 1 /\ r.heap.brk = h.brk + s
  <2>1. find_next(r.heap.mem, r.block) = E + s
    BY <1>21, <1>25 DEF Regained
  <2> QED BY <1>2, <1>3, <1>15, <1>22, <2>1
<1>27. Shown(r.heap) = Longer(Shown(h), s)
  <2>1. Tiled(h.mem, h.brk, B) /\ Tiled(h2.mem, h2.brk, D)
    BY <1>18 DEF Good, Loose
  <2>2. Shown(h) = Segs(h.mem, B) /\ Shown(h2) = Segs(h2.mem, D)
    BY ONLY <2>1, WalkMeetsBlocks
  <2>3. SG!Total(Segs(h.mem, B)) = h.brk - 2
    BY ONLY <2>1, TotalOfBlocks
  <2>4. SG!End(Shown(h)) = E
    BY <1>2, <1>3, <2>2, <2>3 DEF SG!End, heap_start
  <2>5. Seg(h2.mem, E) = Unused(E, s)
    <3>1. get_alloc(h2.mem, E) = FALSE
      BY <1>20, Zenon DEF get_alloc, extract_alloc
    <3> QED BY <1>20, <3>1, Zenon DEF Seg, Unused
  <2>6. Shown(r.heap) = SG!Given(Shown(h2), Seg(h2.mem, E))
    <3>1. Regains(h2.mem, h2.brk, D, E, r.heap)
      BY <1>21 DEF Regained
    <3> QED BY ONLY <2>1, <2>2, <3>1, RegainsIs
  <2> QED BY ONLY <1>18, <2>2, <2>4, <2>5, <2>6 DEF Longer
<1> QED BY ONLY <1>24, <1>26, <1>27 DEF Grows

(* A heap without blocks.                                                  *)
LEMMA EmptyHeap ==
  ASSUME NEW h, HeapType(h), h.brk = 2, h.seg_list = no_lists,
         h.mem[0] = pack(0, TRUE, TRUE, FALSE), h.mem[1] = pack(0, TRUE, TRUE, FALSE)
  PROVE  Good(h, {}) /\ UsedIn(h.mem, {}) = {}
<1>1. Header(h.mem, 1, 0, TRUE, TRUE, FALSE)
  <2>1. 0 \in Nat /\ 0 % 2 = 0 /\ TRUE \in BOOLEAN /\ FALSE \in BOOLEAN
    OBVIOUS
  <2> QED BY ONLY <2>1, ReadHeader, h.mem[1] = pack(0, TRUE, TRUE, FALSE)
<1>2. h.mem[1] \in Nat /\ get_size(h.mem, 1) = 0 /\ get_alloc(h.mem, 1) /\ get_prev_alloc(h.mem, 1)
  BY <1>1 DEF Header
<1>3. Tiled(h.mem, h.brk, {})
  <2>1. 2 \in 2..MaxHeap /\ h.brk - 1 = 1
    BY HeapAssumption
  <2>2. 0 \in Nat /\ 0 % 2 = 0 /\ TRUE \in BOOLEAN /\ FALSE \in BOOLEAN
    OBVIOUS
  <2>3. Header(h.mem, 0, 0, TRUE, TRUE, FALSE)
    BY ONLY <2>2, ReadHeader, h.mem[0] = pack(0, TRUE, TRUE, FALSE)
  <2>4. Prologue(h.mem)
    BY <2>3 DEF Header, Prologue, get_size, get_alloc
  <2> QED BY <1>2, <2>1, <2>4 DEF Tiled
<1>4. Tagged(h.mem, {}, {}) /\ Merged(h.mem, {}, {}) /\ FreeIn(h.mem, {}) = {} /\ UsedIn(h.mem, {}) = {}
  BY <1>2 DEF Tagged, Merged, FreeIn, UsedIn
<1>5. ASSUME NEW i \in Lists PROVE Holds(h.mem, h.seg_list[i], i, {})
  <2>1. h.seg_list[i] = NULL
    BY <1>5 DEF no_lists
  <2>2. PICK c : c = [k \in 1..0 |-> NULL]
    OBVIOUS
  <2>3. c \in [1..0 -> {}] /\ Members(0, c) = {} /\ Class(h.mem, {}, i) = {}
    BY <2>2 DEF Members, Class
  <2>4. Chained(h.mem, h.seg_list[i], i, 0, c)
    BY <2>1 DEF Chained, Different, FirstOf
  <2> QED BY <2>3, <2>4 DEF Holds
<1>6. Listed(h.mem, h.seg_list, {})
  BY <1>5 DEF Listed
<1> QED BY <1>3, <1>4, <1>6 DEF Good

(* mm_init makes a heap with no used block.                                *)
LEMMA InitHeap ==
  /\ \E B : Good(mm_init, B) /\ UsedIn(mm_init.mem, B) = {}
  /\ Shown(mm_init) = {} \/ Shown(mm_init) = SG!Grown({}, chunksize)
<1>1. PICK e : e = [mem      |-> [w \in 0..(MaxHeap - 1) |-> IF w < 2 THEN pack(0, TRUE, TRUE, FALSE) ELSE USER],
                    seg_list |-> no_lists,
                    brk      |-> 2]
  OBVIOUS
<1>2. pack(0, TRUE, TRUE, FALSE) \in Int
  BY DEF pack, Bit
<1>3. /\ HeapType(e) /\ e.brk = 2 /\ e.seg_list = no_lists
      /\ e.mem[0] = pack(0, TRUE, TRUE, FALSE) /\ e.mem[1] = pack(0, TRUE, TRUE, FALSE)
  <2>1. e.mem \in Memory
    BY <1>1, <1>2, MallocAssumption DEF Memory
  <2>2. no_lists \in [Lists -> Nat]
    BY DEF no_lists, NULL
  <2>3. 2 \in 2..MaxHeap /\ 0 \in 0..MaxHeap - 1 /\ 1 \in 0..MaxHeap - 1
    BY HeapAssumption
  <2> QED BY <1>1, <2>1, <2>2, <2>3 DEF HeapType
<1>4. Good(e, {}) /\ UsedIn(e.mem, {}) = {}
  BY <1>3, EmptyHeap
<1>5. Shown(e) = {}
  <2>1. Shown(e) = Segs(e.mem, {})
    BY <1>4, WalkMeetsBlocks DEF Good
  <2> QED BY <2>1 DEF Segs
<1>6. CASE ~mem_sbrk_ok(e, chunksize)
  <2>1. mm_init = e
    BY <1>1, <1>6 DEF mm_init
  <2> QED BY <1>4, <1>5, <2>1
<1>7. CASE mem_sbrk_ok(e, chunksize)
  <2>1. PICK r : r = extend_heap(e, chunksize)
    OBVIOUS
  <2>2. mm_init = r.heap
    BY <1>1, <1>7, <2>1 DEF mm_init
  <2>3. /\ chunksize \in Nat /\ chunksize % 2 = 0 /\ chunksize >= 2 /\ e.brk + chunksize <= MaxHeap
    BY <1>7, HeapAssumption DEF mem_sbrk_ok
  <2>4. GrownTo(e, {}, r, chunksize) /\ Grows(e, r, chunksize)
    BY ONLY <1>4, <2>1, <2>3, ExtendHeap
  <2>5. PICK D : Good(r.heap, D) /\ UsedIn(r.heap.mem, D) = UsedIn(e.mem, {})
    BY <2>4 DEF GrownTo
  <2>6. Shown(r.heap) = SG!Grown({}, chunksize)
    <3>1. SG!Growth(chunksize) = chunksize
      BY DEF SG!Growth
    <3>2. Shown(r.heap) = Longer({}, chunksize)
      BY <1>5, <2>4 DEF Grows
    <3> QED BY <3>1, <3>2 DEF Longer, Unused, SG!Grown
  <2> QED BY <1>4, <2>2, <2>5, <2>6
<1> QED BY <1>6, <1>7

-----------------------------------------------------------------------------
(* Taking a free block. *)

(* The heap g, in which b is used.                                         *)
Taken(h, B, b, n, g) ==
  \E D : /\ Good(g, D) /\ UsedIn(g.mem, D) = UsedIn(h.mem, B) \cup {b} /\ b \notin UsedIn(h.mem, B)
         /\ KeepsUsed(h.mem, g.mem, UsedIn(h.mem, B)) /\ get_size(g.mem, b) >= n

(* In g the segment at b is taken, for n words.                            *)
Takes(h, b, n, g) == Shown(g) = SG!Taken(Shown(h), Seg(h.mem, b), n)

LEMMA TakenIs ==
  ASSUME NEW h, NEW B, Tiled(h.mem, h.brk, B), NEW b \in B, ~get_alloc(h.mem, b), NEW a \in Nat, NEW g, NEW C, NEW O,
         O = B \ {b}, Tiled(g.mem, g.brk, O \cup C), SameSegs(h.mem, g.mem, O),
         Segs(g.mem, C) = IF get_size(h.mem, b) - a < 2 THEN {[at |-> b, size |-> get_size(h.mem, b), used |-> TRUE]}
                          ELSE {[at |-> b, size |-> a, used |-> TRUE], Unused(b + a, get_size(h.mem, b) - a)}
  PROVE  Takes(h, b, a, g)
<1>1. Shown(h) = Segs(h.mem, B) /\ Shown(g) = Segs(g.mem, O \cup C)
  BY WalkMeetsBlocks
<1>2. Segs(g.mem, O \cup C) = Segs(h.mem, O) \cup Segs(g.mem, C)
  <2>1. Segs(g.mem, O \cup C) = Segs(g.mem, O) \cup Segs(g.mem, C)
    BY DEF Segs
  <2>2. Segs(g.mem, O) = Segs(h.mem, O)
    BY SegsAre
  <2> QED BY ONLY <2>1, <2>2
<1>3. Segs(h.mem, O) = Segs(h.mem, B) \ {Seg(h.mem, b)}
  <2>1. \A x, y \in B : Seg(h.mem, x) = Seg(h.mem, y) => x = y
    BY DEF Seg
  <2> QED BY ONLY <2>1, O = B \ {b}, b \in B DEF Segs
<1>4. PICK e : e = Seg(h.mem, b)
  OBVIOUS
<1>5. e = [at |-> b, size |-> get_size(h.mem, b), used |-> FALSE]
  <2>1. get_alloc(h.mem, b) = FALSE
    BY Zenon DEF get_alloc, extract_alloc
  <2> QED BY <1>4, <2>1, Zenon DEF Seg
<1>6. SG!Taken(Shown(h), e, a) = (Shown(h) \ {e}) \cup Segs(g.mem, C)
  <2>1. /\ [e EXCEPT !.used = TRUE] = [at |-> b, size |-> get_size(h.mem, b), used |-> TRUE]
        /\ [e EXCEPT !.size = a, !.used = TRUE] = [at |-> b, size |-> a, used |-> TRUE]
        /\ e.size = get_size(h.mem, b) /\ e.at = b
    <3>1. PICK z : z = get_size(h.mem, b)
      OBVIOUS
    <3>2. e = [at |-> b, size |-> z, used |-> FALSE]
      BY <1>5, <3>1
    <3>3. e.size = z /\ e.at = b
      BY ONLY <3>2
    <3>4. PICK used, unused : used = TRUE /\ unused = FALSE
      OBVIOUS
    <3>5. e = [at |-> b, size |-> z, used |-> unused]
      BY ONLY <3>2, <3>4, Zenon
    <3>6. PICK d : d = [e EXCEPT !.size = a]
      OBVIOUS
    <3>7. d = [at |-> b, size |-> a, used |-> unused]
      BY ONLY <3>5, <3>6, SMTT(40)
    <3>8. [e EXCEPT !.used = used] = [at |-> b, size |-> z, used |-> used]
      BY ONLY <3>5, SMTT(40)
    <3>9. [d EXCEPT !.used = used] = [at |-> b, size |-> a, used |-> used]
      BY ONLY <3>7, SMTT(40)
    <3>10. /\ [e EXCEPT !.used = TRUE] = [at |-> b, size |-> z, used |-> TRUE]
           /\ [e EXCEPT !.size = a, !.used = TRUE] = [at |-> b, size |-> a, used |-> TRUE]
      BY ONLY <3>4, <3>6, <3>8, <3>9, Zenon
    <3> QED BY <3>1, <3>3, <3>10
  <2> QED BY <2>1 DEF SG!Taken, Unused, min_block_size, dsize
<1> QED BY <1>1, <1>2, <1>3, <1>4, <1>6 DEF Takes

(* The free block b of s words, off its list in t.                         *)
Unchained(h, B, b, N, O, s, t) ==
  /\ Loose(t, B, {}, FreeIn(t.mem, O)) /\ b \in B /\ s = get_size(t.mem, b) /\ s \in Nat /\ s % 2 = 0 /\ s >= 2
  /\ N = find_next(t.mem, b) /\ N = b + s /\ N \in B \cup {t.brk - 1} /\ b < N /\ O = Outside(B, b, N)
  /\ get_prev_alloc(t.mem, b) /\ get_alloc(t.mem, N)
  /\ UsedIn(t.mem, O) = UsedIn(h.mem, B) /\ KeepsUsed(h.mem, t.mem, UsedIn(h.mem, B)) /\ b \notin UsedIn(h.mem, B)
  /\ Tiled(h.mem, h.brk, B) /\ ~get_alloc(h.mem, b) /\ SameSegs(h.mem, t.mem, B) /\ O = B \ {b}
  /\ s = get_size(h.mem, b)

LEMMA Unchain ==
  ASSUME NEW h, NEW B, Good(h, B), NEW b \in FreeIn(h.mem, B), NEW t, t = delete_block(h, b),
         NEW N, N = find_next(h.mem, b), NEW s, s = get_size(h.mem, b), NEW O, O = B \ {b}
  PROVE  Unchained(h, B, b, N, O, s, t)
<1>1. /\ HeapType(h) /\ Tiled(h.mem, h.brk, B) /\ Tagged(h.mem, B, {}) /\ Merged(h.mem, B, {})
      /\ Listed(h.mem, h.seg_list, FreeIn(h.mem, B)) /\ b \in B /\ ~get_alloc(h.mem, b)
  BY DEF Good, FreeIn
<1>2. PICK F : F = FreeIn(h.mem, B)
  OBVIOUS
<1>3. Loose(h, B, {}, F)
  BY <1>1, <1>2 DEF Loose
<1>4. /\ Loose(t, B, {}, F \ {b}) /\ t.brk = h.brk /\ SameTags(h.mem, t.mem, h.brk, B)
      /\ KeepsUsed(h.mem, t.mem, UsedIn(h.mem, B))
  BY ONLY <1>2, <1>3, b \in FreeIn(h.mem, B), t = delete_block(h, b), Delist
<1>5. /\ FreeIn(t.mem, B) = FreeIn(h.mem, B) /\ UsedIn(t.mem, B) = UsedIn(h.mem, B)
      /\ \A x \in B \cup {h.brk - 1} :
           /\ t.mem[x] = h.mem[x] /\ get_size(t.mem, x) = get_size(h.mem, x)
           /\ (get_alloc(t.mem, x) <=> get_alloc(h.mem, x)) /\ find_next(t.mem, x) = find_next(h.mem, x)
           /\ (get_prev_alloc(t.mem, x) <=> get_prev_alloc(h.mem, x))
           /\ (get_prev_mini(t.mem, x) <=> get_prev_mini(h.mem, x))
  BY ONLY <1>1, <1>4, SameTagsKeep
<1>6. s \in Nat /\ s % 2 = 0 /\ s >= 2 /\ N = b + s /\ N \in B \cup {h.brk - 1} /\ b \in Nat
  BY <1>1, TiledApart DEF Apart, Tiled
<1>7. b < N
  BY ONLY <1>6
<1>8. get_prev_alloc(h.mem, b)
  <2>1. NotAfter(h.mem, {}, b) /\ b \notin {}
    BY DEF NotAfter
  <2> QED BY ONLY <1>1, <2>1, BeforeFree
<1>9. get_alloc(h.mem, N)
  BY <1>1 DEF Merged
<1>10. O = Outside(B, b, N)
  BY <1>1, OutsideOne
<1>11. FreeIn(t.mem, O) = F \ {b} /\ UsedIn(t.mem, O) = UsedIn(h.mem, B) /\ b \notin UsedIn(h.mem, B)
  BY <1>1, <1>2, <1>5 DEF FreeIn, UsedIn
<1>12. get_prev_alloc(t.mem, b) /\ get_alloc(t.mem, N) /\ s = get_size(t.mem, b) /\ N = find_next(t.mem, b)
  BY <1>1, <1>5, <1>6, <1>8, <1>9
<1>13. SameSegs(h.mem, t.mem, B)
  BY <1>4, TagsSegs
<1> QED BY ONLY <1>1, <1>4, <1>6, <1>7, <1>10, <1>11, <1>12, <1>13, O = B \ {b}, s = get_size(h.mem, b) DEF Unchained

(* Bounds of a block's words.                                              *)
LEMMA BlockWords ==
  ASSUME NEW h, NEW B, NEW b, NEW N, NEW O, NEW s, NEW t, Unchained(h, B, b, N, O, s, t)
  PROVE  /\ b \in Nat /\ N \in Nat /\ N = b + s /\ N <= MaxHeap - 1 /\ MaxHeap \in Nat /\ t.mem \in Memory
         /\ t.mem[N] \in Nat
<1>1. /\ HeapType(t) /\ Tiled(t.mem, t.brk, B) /\ b \in B /\ N \in B \cup {t.brk - 1} /\ N = b + s /\ s \in Nat
  BY DEF Unchained, Loose
<1>2. t.brk \in Nat /\ t.brk <= MaxHeap /\ MaxHeap \in Nat /\ b \in Nat /\ \A x \in B : x <= t.brk - 2
  BY <1>1, TiledApart DEF Apart
<1>3. t.mem[N] \in Nat /\ t.mem \in Memory
  BY <1>1 DEF Tiled, HeapType
<1>4. N <= t.brk - 1 /\ N \in Nat
  BY ONLY <1>1, <1>2
<1>5. N <= MaxHeap - 1
  BY ONLY <1>2, <1>4
<1> QED BY ONLY <1>1, <1>2, <1>3, <1>4, <1>5

(* A used block of a words, and a free one of the rest.                    *)
TwoTags(mem, b, s, a, mini, mini2, mini3, m) ==
  /\ mini \in BOOLEAN /\ mini2 \in BOOLEAN /\ mini3 \in BOOLEAN /\ mini3 = (s - a = 2)
  /\ m = set_nextblock_prev_alloc(
           write_tags(write_tags(mem, b, a, TRUE, TRUE, mini), b + a, s - a, FALSE, TRUE, mini2), b + a, FALSE, mini3)

LEMMA SplitInTwo ==
  ASSUME NEW h, NEW B, NEW b, NEW N, NEW O, NEW s, NEW t, Unchained(h, B, b, N, O, s, t),
         NEW a \in Nat, a % 2 = 0, a >= 2, s - a >= 2,
         NEW mini, NEW mini2, NEW mini3, NEW m, TwoTags(t.mem, b, s, a, mini, mini2, mini3, m),
         NEW g, g = insert_block([t EXCEPT !.mem = m], b + a)
  PROVE  Taken(h, B, b, a, g) /\ Takes(h, b, a, g)
<1>1. PICK m1, m2 : /\ m1 = write_tags(t.mem, b, a, TRUE, TRUE, mini)
                    /\ m2 = write_tags(m1, b + a, s - a, FALSE, TRUE, mini2)
                    /\ m = set_nextblock_prev_alloc(m2, b + a, FALSE, mini3)
  BY Zenon DEF TwoTags
<1>2. mini \in BOOLEAN /\ mini2 \in BOOLEAN /\ mini3 \in BOOLEAN
  BY Zenon DEF TwoTags
<1>3. /\ Loose(t, B, {}, FreeIn(t.mem, O)) /\ b \in B /\ s = get_size(t.mem, b) /\ s \in Nat /\ s % 2 = 0
      /\ N \in B \cup {t.brk - 1} /\ b < N /\ O = Outside(B, b, N) /\ N = find_next(t.mem, b)
      /\ get_prev_alloc(t.mem, b) /\ get_alloc(t.mem, N)
      /\ UsedIn(t.mem, O) = UsedIn(h.mem, B) /\ KeepsUsed(h.mem, t.mem, UsedIn(h.mem, B)) /\ b \notin UsedIn(h.mem, B)
      /\ Tiled(h.mem, h.brk, B) /\ ~get_alloc(h.mem, b) /\ SameSegs(h.mem, t.mem, B) /\ O = B \ {b}
      /\ s = get_size(h.mem, b)
  BY DEF Unchained
<1>4. /\ b \in Nat /\ N \in Nat /\ N = b + s /\ N <= MaxHeap - 1 /\ MaxHeap \in Nat /\ t.mem \in Memory
      /\ t.mem[N] \in Nat
  BY BlockWords
<1>5. PICK c, r, F, C : c = b + a /\ r = s - a /\ F = FreeIn(t.mem, O) /\ C = {b, c}
  OBVIOUS
<1>6. /\ c \in Nat /\ r \in Nat /\ r % 2 = 0 /\ r >= 2 /\ N = c + r /\ c < N /\ b < c
      /\ b \in 0..MaxHeap - 1 /\ c \in 0..MaxHeap - 1 /\ N \in 0..MaxHeap - 1
      /\ b + a - 1 # c /\ b + a - 1 # N /\ c + r - 1 # N /\ c + r - 1 # b /\ b + a - 1 < c /\ c + r - 1 >= c
      /\ c + r - 1 \in 0..MaxHeap - 1 /\ b + a = c /\ b + a - 1 >= b
  BY ONLY <1>3, <1>4, <1>5, a \in Nat, a % 2 = 0, a >= 2, s - a >= 2
<1>7. PICK tag, tag2 : tag = pack(a, TRUE, TRUE, mini) /\ tag2 = pack(r, FALSE, TRUE, mini2)
  OBVIOUS
<1>8. /\ m1 \in Memory /\ \A w \in 0..MaxHeap - 1 : m1[w] = IF w = b \/ w = b + a - 1 THEN tag ELSE t.mem[w]
  <2>1. m1 \in Memory /\ TagsWritten(t.mem, m1, b, a, tag)
    BY ONLY <1>1, <1>2, <1>4, <1>6, <1>7, WriteTags, a \in Nat, a % 2 = 0
  <2> QED BY ONLY <2>1 DEF TagsWritten
<1>9. /\ m2 \in Memory /\ \A w \in 0..MaxHeap - 1 : m2[w] = IF w = c \/ w = c + r - 1 THEN tag2 ELSE m1[w]
  <2>1. m2 \in Memory /\ TagsWritten(m1, m2, c, r, tag2)
    <3>1. m2 = write_tags(m1, c, r, FALSE, TRUE, mini2)
      BY ONLY <1>1, <1>5
    <3> QED BY ONLY <1>2, <1>6, <1>7, <1>8, <3>1, WriteTags
  <2> QED BY ONLY <2>1 DEF TagsWritten
<1>10. /\ m2[b] = tag /\ m2[c] = tag2 /\ m2[c + r - 1] = tag2 /\ m2[N] = t.mem[N]
      /\ \A w \in 0..MaxHeap - 1 : w < b \/ w > N => m2[w] = t.mem[w]
  BY ONLY <1>4, <1>6, <1>8, <1>9
<1>11. Header(m2, b, a, TRUE, TRUE, mini)
  BY ONLY <1>2, <1>7, <1>10, ReadHeader, a \in Nat, a % 2 = 0, TRUE \in BOOLEAN
<1>12. Header(m2, c, r, FALSE, TRUE, mini2)
  BY ONLY <1>2, <1>6, <1>7, <1>10, ReadHeader, TRUE \in BOOLEAN, FALSE \in BOOLEAN
<1>13. find_next(m2, c) = N
  BY <1>6, <1>12 DEF Header, find_next
<1>14. m \in Memory /\ NextWritten(m2, m, N, FALSE, mini3)
  <2>1. m = set_nextblock_prev_alloc(m2, c, FALSE, mini3) /\ find_next(m2, c) \in 0..MaxHeap - 1
        /\ m2[find_next(m2, c)] \in Nat
    BY <1>1, <1>4, <1>5, <1>6, <1>10, <1>13
  <2>2. m \in Memory /\ NextWritten(m2, m, find_next(m2, c), FALSE, mini3)
    BY ONLY <1>2, <1>9, <2>1, SetNext, FALSE \in BOOLEAN
  <2> QED BY <1>13, <2>2
<1>15. /\ Header(m, N, get_size(m2, N), get_alloc(m2, N), FALSE, mini3)
       /\ \A w \in 0..MaxHeap - 1 : w # N => m[w] = m2[w]
  BY ONLY <1>14 DEF NextWritten
<1>16. /\ m[b] = m2[b] /\ m[c] = m2[c] /\ m[c + r - 1] = tag2
       /\ \A w \in 0..MaxHeap - 1 : w < b \/ w > N => m[w] = t.mem[w]
  BY ONLY <1>4, <1>6, <1>10, <1>15
<1>17. /\ m[b] \in Nat /\ get_size(m, b) = a /\ get_alloc(m, b) /\ get_prev_alloc(m, b)
       /\ m[c] \in Nat /\ get_size(m, c) = r /\ ~get_alloc(m, c) /\ get_prev_alloc(m, c)
  <2>1. Header(m, b, a, TRUE, TRUE, mini) /\ Header(m, c, r, FALSE, TRUE, mini2)
    BY ONLY <1>11, <1>12, <1>16, Zenon DEF Header, get_size, get_alloc, get_prev_alloc, get_prev_mini
  <2> QED BY <2>1 DEF Header
<1>18. /\ m[N] \in Nat /\ get_size(m, N) = get_size(t.mem, N) /\ get_alloc(m, N)
       /\ ~get_prev_alloc(m, N) /\ (get_prev_mini(m, N) <=> mini3)
  <2>1. get_size(m2, N) = get_size(t.mem, N) /\ get_alloc(m2, N)
    BY <1>3, <1>10 DEF get_size, get_alloc
  <2> QED BY <1>15, <2>1 DEF Header
<1>19. find_next(m, b) = c /\ find_next(m, c) = N
  BY <1>6, <1>17 DEF find_next
<1>20. Reshaped(t.mem, m, t.brk, B, b, N, C)
  <2>1. C \subseteq b..N - 1 /\ b \in C
    <3>1. b \in b..N - 1 /\ c \in b..N - 1
      BY ONLY <1>4, <1>6
    <3> QED BY <1>5, <3>1
  <2>2. \A x \in C : m[x] \in Nat /\ get_size(m, x) >= 2 /\ find_next(m, x) \in C \cup {N}
    BY <1>5, <1>6, <1>17, <1>19
  <2>3. \A x, y \in C : x < y => find_next(m, x) <= y
    <3>1. SUFFICES ASSUME NEW x \in {b, c}, NEW y \in {b, c}, x < y PROVE find_next(m, x) <= y
      BY <1>5
    <3>2. x = b /\ y = c
      BY ONLY <1>4, <1>6, <3>1
    <3> QED BY ONLY <1>6, <1>19, <3>2
  <2>4. get_alloc(m, N) <=> get_alloc(t.mem, N)
    BY <1>3, <1>18
  <2> QED BY ONLY <1>3, <1>16, <1>18, <2>1, <2>2, <2>3, <2>4 DEF Reshaped
<1>21. SameBefore(t.mem, m, b)
  BY ONLY <1>3, <1>17 DEF SameBefore
<1>22. Fresh(m, C, {})
  <2>1. Told(m, b) /\ Footed(m, b)
    <3>1. get_prev_alloc(m, find_next(m, b)) = get_alloc(m, b)
      BY ONLY <1>17, <1>19, Zenon DEF get_prev_alloc, get_alloc, extract_alloc
    <3> QED BY <1>17, <3>1 DEF Told, Footed
  <2>2. Told(m, c)
    <3>1. get_prev_alloc(m, find_next(m, c)) = get_alloc(m, c)
      BY ONLY <1>17, <1>18, <1>19, Zenon DEF get_prev_alloc, get_alloc, extract_alloc
    <3>2. mini3 <=> get_size(m, c) = 2
      <4>1. mini3 = (s - a = 2)
        BY Zenon DEF TwoTags
      <4> QED BY <1>5, <1>17, <4>1
    <3>3. get_prev_mini(m, find_next(m, c)) = (get_size(m, c) = 2)
      BY ONLY <1>18, <1>19, <3>2, Zenon DEF get_prev_mini
    <3> QED BY ONLY <3>1, <3>3, Zenon DEF Told
  <2>3. Footed(m, c)
    <3>1. SaysFree(m[c + r - 1], r)
      BY ONLY <1>10, <1>16, <1>17 DEF get_size, get_alloc, SaysFree
    <3> QED BY ONLY <1>17, <3>1 DEF Footed, header_to_footer
  <2> QED BY <1>5, <1>17, <1>18, <1>19, <2>1, <2>2, <2>3 DEF Fresh
<1>23. Rebuilding(t, B, b, N, O, {}, F, m, C, {})
  <2>1. {} \subseteq B /\ {} \cap O = {} /\ Loose(t, B, {}, F)
    BY <1>3, <1>5
  <2> QED BY ONLY <1>3, <1>5, <1>14, <1>20, <1>21, <1>22, <2>1 DEF Rebuilding
<1>24. c \in C /\ FreeIn(m, C) = {c} /\ UsedIn(m, C) = {b}
  BY <1>5, <1>6, <1>17 DEF FreeIn, UsedIn
<1>25. Enlisted(t, O, m, C, g)
  <2>1. g = insert_block([t EXCEPT !.mem = m], c)
    BY <1>5
  <2> QED BY ONLY <1>23, <1>24, <2>1, RebuildEnlist
<1>26. /\ Good(g, O \cup C) /\ SameTags(m, g.mem, t.brk, O \cup C)
       /\ UsedIn(g.mem, O \cup C) = UsedIn(t.mem, O) \cup UsedIn(m, C)
       /\ KeepsUsed(t.mem, g.mem, UsedIn(t.mem, O))
       /\ SameSegs(t.mem, g.mem, O) /\ SameSegs(m, g.mem, O \cup C)
  BY <1>25 DEF Enlisted
<1>27. get_size(g.mem, b) >= a
  <2>1. g.mem[b] = m[b]
    <3>1. b \in (O \cup C) \cup {t.brk - 1}
      BY <1>5
    <3> QED BY <1>26, <3>1 DEF SameTags
  <2>2. get_size(g.mem, b) = a
    BY <1>17, <2>1 DEF get_size
  <2> QED BY ONLY <2>2, a \in Nat
<1>28. KeepsUsed(h.mem, g.mem, UsedIn(h.mem, B))
  <2>1. KeepsUsed(t.mem, g.mem, UsedIn(h.mem, B))
    BY <1>3, <1>26
  <2> QED BY ONLY <1>3, <2>1, KeepsTwice
<1>29. UsedIn(g.mem, O \cup C) = UsedIn(h.mem, B) \cup {b}
  BY <1>3, <1>24, <1>26
<1>30. Taken(h, B, b, a, g)
  BY ONLY <1>3, <1>26, <1>27, <1>28, <1>29 DEF Taken
<1>31. Segs(g.mem, C) = {[at |-> b, size |-> a, used |-> TRUE], Unused(c, r)}
  <2>1. SameSegs(m, g.mem, C)
    BY <1>26 DEF SameSegs
  <2>2. Segs(g.mem, C) = Segs(m, C)
    BY <2>1, SegsAre
  <2>3. get_alloc(m, b) = TRUE /\ get_alloc(m, c) = FALSE
    BY <1>17, Zenon DEF get_alloc, extract_alloc
  <2>4. Seg(m, b) = [at |-> b, size |-> a, used |-> TRUE] /\ Seg(m, c) = Unused(c, r)
    BY <1>17, <2>3, Zenon DEF Seg, Unused
  <2> QED BY <1>5, <2>2, <2>4 DEF Segs
<1>32. Takes(h, b, a, g)
  <2>1. Tiled(g.mem, g.brk, O \cup C)
    BY <1>26 DEF Good
  <2>2. SameSegs(h.mem, g.mem, O)
    <3>1. SameSegs(h.mem, t.mem, O)
      BY <1>3 DEF SameSegs
    <3> QED BY ONLY <1>26, <3>1, SegsTwice
  <2>3. Segs(g.mem, C) = IF get_size(h.mem, b) - a < 2 THEN {[at |-> b, size |-> get_size(h.mem, b), used |-> TRUE]}
                         ELSE {[at |-> b, size |-> a, used |-> TRUE], Unused(b + a, get_size(h.mem, b) - a)}
    <3>1. get_size(h.mem, b) - a = r /\ b + a = c /\ ~(r < 2)
      BY <1>3, <1>5, <1>6
    <3> QED BY <1>31, <3>1
  <2> QED BY ONLY <1>3, <2>1, <2>2, <2>3, a \in Nat, TakenIs
<1> QED BY <1>30, <1>32

(* The whole block is used.                                                *)
OneTag(mem, b, s, mini, mini2, m) ==
  /\ mini \in BOOLEAN /\ mini2 \in BOOLEAN
  /\ m = set_nextblock_prev_alloc(write_header(mem, b, s, TRUE, TRUE, mini), b, TRUE, mini2)

LEMMA TakeWhole ==
  ASSUME NEW h, NEW B, NEW b, NEW N, NEW O, NEW s, NEW t, Unchained(h, B, b, N, O, s, t),
         NEW a \in Nat, a <= s, s - a < 2, NEW mini, NEW mini2, NEW m, OneTag(t.mem, b, s, mini, mini2, m),
         NEW g, g = [t EXCEPT !.mem = m]
  PROVE  Taken(h, B, b, a, g) /\ Takes(h, b, a, g)
<1>1. PICK m1 : /\ m1 = write_header(t.mem, b, s, TRUE, TRUE, mini)
                /\ m = set_nextblock_prev_alloc(m1, b, TRUE, mini2)
                /\ mini \in BOOLEAN /\ mini2 \in BOOLEAN
  BY Zenon DEF OneTag
<1>2. /\ Loose(t, B, {}, FreeIn(t.mem, O)) /\ b \in B /\ s = get_size(t.mem, b) /\ s \in Nat /\ s % 2 = 0 /\ s >= 2
      /\ N \in B \cup {t.brk - 1} /\ b < N /\ O = Outside(B, b, N) /\ N = find_next(t.mem, b)
      /\ get_prev_alloc(t.mem, b) /\ get_alloc(t.mem, N)
      /\ UsedIn(t.mem, O) = UsedIn(h.mem, B) /\ KeepsUsed(h.mem, t.mem, UsedIn(h.mem, B)) /\ b \notin UsedIn(h.mem, B)
      /\ Tiled(h.mem, h.brk, B) /\ ~get_alloc(h.mem, b) /\ SameSegs(h.mem, t.mem, B) /\ O = B \ {b}
      /\ s = get_size(h.mem, b)
  BY DEF Unchained
<1>3. /\ b \in Nat /\ N \in Nat /\ N = b + s /\ N <= MaxHeap - 1 /\ MaxHeap \in Nat /\ t.mem \in Memory
      /\ t.mem[N] \in Nat
  BY BlockWords
<1>4. PICK F, C, tag : F = FreeIn(t.mem, O) /\ C = {b} /\ tag = pack(s, TRUE, TRUE, mini)
  OBVIOUS
<1>5. b \in 0..MaxHeap - 1 /\ N \in 0..MaxHeap - 1 /\ b \in b..N - 1
  BY ONLY <1>2, <1>3
<1>6. m1 \in Memory /\ \A w \in 0..MaxHeap - 1 : m1[w] = IF w = b THEN tag ELSE t.mem[w]
  <2>1. m1 \in Memory /\ HeaderWritten(t.mem, m1, b, tag)
    BY ONLY <1>1, <1>2, <1>3, <1>4, WriteHeader
  <2> QED BY ONLY <2>1 DEF HeaderWritten
<1>7. m1[b] = tag /\ m1[N] = t.mem[N] /\ \A w \in 0..MaxHeap - 1 : w < b \/ w > N => m1[w] = t.mem[w]
  BY ONLY <1>2, <1>3, <1>5, <1>6
<1>8. Header(m1, b, s, TRUE, TRUE, mini)
  <2>1. m1[b] = pack(s, TRUE, TRUE, mini)
    BY <1>4, <1>7
  <2>2. s \in Nat /\ s % 2 = 0 /\ TRUE \in BOOLEAN /\ mini \in BOOLEAN
    BY <1>1, <1>2
  <2> QED BY ONLY <2>1, <2>2, ReadHeader
<1>9. find_next(m1, b) = N
  BY <1>3, <1>8 DEF Header, find_next
<1>10. m \in Memory /\ NextWritten(m1, m, N, TRUE, mini2)
  <2>1. find_next(m1, b) \in 0..MaxHeap - 1 /\ m1[find_next(m1, b)] \in Nat
    BY <1>3, <1>5, <1>7, <1>9
  <2>2. m \in Memory /\ NextWritten(m1, m, find_next(m1, b), TRUE, mini2)
    BY ONLY <1>1, <1>6, <2>1, SetNext, TRUE \in BOOLEAN
  <2> QED BY <1>9, <2>2
<1>11. /\ Header(m, N, get_size(m1, N), get_alloc(m1, N), TRUE, mini2)
       /\ \A w \in 0..MaxHeap - 1 : w # N => m[w] = m1[w]
  BY ONLY <1>10 DEF NextWritten
<1>12. m[b] = m1[b] /\ \A w \in 0..MaxHeap - 1 : w < b \/ w > N => m[w] = t.mem[w]
  BY ONLY <1>2, <1>3, <1>5, <1>7, <1>11
<1>13. m[b] \in Nat /\ get_size(m, b) = s /\ get_alloc(m, b) /\ get_prev_alloc(m, b)
  <2>1. Header(m, b, s, TRUE, TRUE, mini)
    BY ONLY <1>8, <1>12, Zenon DEF Header, get_size, get_alloc, get_prev_alloc, get_prev_mini
  <2> QED BY <2>1 DEF Header
<1>14. m[N] \in Nat /\ get_size(m, N) = get_size(t.mem, N) /\ get_alloc(m, N) /\ get_prev_alloc(m, N)
  <2>1. get_size(m1, N) = get_size(t.mem, N) /\ get_alloc(m1, N)
    BY <1>2, <1>7 DEF get_size, get_alloc
  <2> QED BY <1>11, <2>1 DEF Header
<1>15. find_next(m, b) = N
  BY <1>3, <1>13 DEF find_next
<1>16. Reshaped(t.mem, m, t.brk, B, b, N, C)
  <2>1. C \subseteq b..N - 1 /\ b \in C
    BY <1>4, <1>5
  <2>2. \A x \in C : m[x] \in Nat /\ get_size(m, x) >= 2 /\ find_next(m, x) \in C \cup {N}
    BY <1>2, <1>4, <1>13, <1>15
  <2>3. \A x, y \in C : x < y => find_next(m, x) <= y
    BY <1>3, <1>4
  <2>4. get_alloc(m, N) <=> get_alloc(t.mem, N)
    BY <1>2, <1>14
  <2> QED BY ONLY <1>2, <1>12, <1>14, <2>1, <2>2, <2>3, <2>4 DEF Reshaped
<1>17. SameBefore(t.mem, m, b)
  BY ONLY <1>2, <1>13 DEF SameBefore
<1>18. Fresh(m, C, {})
  <2>1. get_prev_alloc(m, find_next(m, b)) = get_alloc(m, b)
    BY ONLY <1>13, <1>14, <1>15, Zenon DEF get_prev_alloc, get_alloc, extract_alloc
  <2>2. Told(m, b) /\ Footed(m, b)
    BY <1>13, <2>1 DEF Told, Footed
  <2> QED BY <1>4, <1>13, <2>2 DEF Fresh
<1>19. Rebuilding(t, B, b, N, O, {}, F, m, C, {})
  <2>1. {} \subseteq B /\ {} \cap O = {} /\ Loose(t, B, {}, F)
    BY <1>2, <1>4
  <2> QED BY ONLY <1>2, <1>4, <1>10, <1>16, <1>17, <1>18, <2>1 DEF Rebuilding
<1>20. FreeIn(m, C) = {} /\ UsedIn(m, C) = {b}
  BY <1>4, <1>13 DEF FreeIn, UsedIn
<1>21. /\ Loose(g, O \cup C, {}, F) /\ g.mem = m /\ FreeIn(m, O \cup C) = F \cup FreeIn(m, C)
       /\ UsedIn(m, O \cup C) = UsedIn(t.mem, O) \cup UsedIn(m, C) /\ KeepsUsed(t.mem, m, UsedIn(t.mem, O))
       /\ SameSegs(t.mem, m, O)
  <2>1. Rebuilt(t, B, O, F, m, C, {}, g)
    BY ONLY <1>19, Rebuild, g = [t EXCEPT !.mem = m]
  <2> QED BY ONLY <2>1 DEF Rebuilt
<1>22. Good(g, O \cup C)
  <2>1. FreeIn(g.mem, O \cup C) = F
    BY <1>20, <1>21
  <2> QED BY <1>21, <2>1 DEF Good, Loose
<1>23. KeepsUsed(h.mem, g.mem, UsedIn(h.mem, B))
  <2>1. KeepsUsed(t.mem, g.mem, UsedIn(h.mem, B))
    BY <1>2, <1>21
  <2> QED BY ONLY <1>2, <2>1, KeepsTwice
<1>24. UsedIn(g.mem, O \cup C) = UsedIn(h.mem, B) \cup {b}
  BY <1>2, <1>20, <1>21
<1>25. get_size(g.mem, b) >= a
  <2>1. get_size(g.mem, b) = s
    BY <1>13, <1>21
  <2> QED BY ONLY <1>2, <2>1, a \in Nat, a <= s
<1>26. Taken(h, B, b, a, g)
  BY ONLY <1>2, <1>22, <1>23, <1>24, <1>25 DEF Taken
<1>27. Segs(g.mem, C) = {[at |-> b, size |-> s, used |-> TRUE]}
  <2>1. get_alloc(m, b) = TRUE
    BY <1>13, Zenon DEF get_alloc, extract_alloc
  <2>2. Seg(m, b) = [at |-> b, size |-> s, used |-> TRUE]
    BY <1>13, <2>1, Zenon DEF Seg
  <2> QED BY <1>4, <1>21, <2>2 DEF Segs
<1>28. Takes(h, b, a, g)
  <2>1. Tiled(g.mem, g.brk, O \cup C)
    BY <1>22 DEF Good
  <2>2. SameSegs(h.mem, g.mem, O)
    <3>1. SameSegs(h.mem, t.mem, O) /\ SameSegs(t.mem, g.mem, O)
      BY <1>2, <1>21 DEF SameSegs
    <3> QED BY ONLY <3>1, SegsTwice
  <2>3. Segs(g.mem, C) = IF get_size(h.mem, b) - a < 2 THEN {[at |-> b, size |-> get_size(h.mem, b), used |-> TRUE]}
                         ELSE {[at |-> b, size |-> a, used |-> TRUE], Unused(b + a, get_size(h.mem, b) - a)}
    BY <1>2, <1>27, s - a < 2
  <2> QED BY ONLY <1>2, <2>1, <2>2, <2>3, a \in Nat, TakenIs
<1> QED BY <1>26, <1>28

LEMMA SplitBlock ==
  ASSUME NEW h, NEW B, Good(h, B), NEW b \in FreeIn(h.mem, B), NEW a \in Nat, a % 2 = 0, a >= 2,
         get_size(h.mem, b) >= a, NEW g, g = split_block(h, b, a)
  PROVE  Taken(h, B, b, a, g) /\ Takes(h, b, a, g)
<1>1. PICK t, N, s, O, mini : /\ t = delete_block(h, b) /\ N = find_next(h.mem, b) /\ s = get_size(h.mem, b)
                              /\ O = B \ {b} /\ mini = get_prev_mini(t.mem, b)
  OBVIOUS
<1>2. Unchained(h, B, b, N, O, s, t)
  BY ONLY <1>1, Unchain, Good(h, B), b \in FreeIn(h.mem, B)
<1>3. s \in Nat /\ mini \in BOOLEAN /\ (s = 2) \in BOOLEAN /\ (s - a = 2) \in BOOLEAN
  BY <1>1, <1>2 DEF Unchained, get_prev_mini
<1>4. CASE leaves_block(s, a)
  <2>1. PICK m, mini2, mini3 :
          /\ mini2 = (s = 2) /\ mini3 = (s - a = 2)
          /\ m = set_nextblock_prev_alloc(
                   write_tags(write_tags(t.mem, b, a, TRUE, TRUE, mini), b + a, s - a, FALSE, TRUE, mini2),
                   b + a, FALSE, mini3)
    OBVIOUS
  <2>2. g = insert_block([t EXCEPT !.mem = m], b + a)
    BY <1>1, <1>4, <2>1 DEF split_block, min_block_size, dsize
  <2>3. s - a >= 2
    BY <1>3, <1>4, <2>1 DEF leaves_block, min_block_size, dsize
  <2>4. TwoTags(t.mem, b, s, a, mini, mini2, mini3, m)
    BY ONLY <1>3, <2>1, Zenon DEF TwoTags
  <2> QED BY ONLY <1>2, <2>2, <2>3, <2>4, a \in Nat, a % 2 = 0, a >= 2, SplitInTwo
<1>5. CASE ~leaves_block(s, a)
  <2>1. PICK m, m1, mini2 : /\ m1 = write_header(t.mem, b, s, TRUE, TRUE, mini)
                            /\ mini2 = get_prev_mini(m1, find_next(m1, b))
                            /\ m = set_nextblock_prev_alloc(m1, b, TRUE, mini2)
    OBVIOUS
  <2>2. g = [t EXCEPT !.mem = m]
    BY <1>1, <1>5, <2>1 DEF split_block
  <2>3. mini2 \in BOOLEAN
    BY <2>1, Zenon DEF get_prev_mini
  <2>4. a <= s /\ s - a < 2
    BY <1>1, <1>3, <1>5 DEF leaves_block, min_block_size, dsize
  <2>5. OneTag(t.mem, b, s, mini, mini2, m)
    BY ONLY <1>3, <2>1, <2>3, Zenon DEF OneTag
  <2> QED BY ONLY <1>2, <2>2, <2>4, <2>5, a \in Nat, TakeWhole
<1> QED BY <1>4, <1>5

(* The least element of a set of naturals is in it.                        *)
LEMMA MinIn ==
  ASSUME NEW S \in SUBSET Nat, S # {}
  PROVE  Min(S) \in S
<1>1. PICK m \in S : \A k \in S : m <= k
  BY LeastNat
<1> QED BY <1>1 DEF Min

(* The lists, from that of size a on, with a block of a words.             *)
Fitting(h, a) ==
  {i \in get_index(a)..(list_number - 1) :
     {k \in DOMAIN FreeList(h, i) : ~get_alloc(h.mem, FreeList(h, i)[k]) /\ a <= get_size(h.mem, FreeList(h, i)[k])} # {}}

(* find_fit finds a free block that is large enough if a list has one.     *)
LEMMA FindFit ==
  ASSUME NEW h, NEW B, Good(h, B), NEW a \in Nat, NEW b, b = find_fit(h, a), Fitting(h, a) # {}
  PROVE  b \in FreeIn(h.mem, B) /\ get_size(h.mem, b) >= a
<1> DEFINE size(x) == get_size(h.mem, x)
           fits(l) == {k \in DOMAIN l : ~get_alloc(h.mem, l[k]) /\ a <= size(l[k])}
           lists   == {i \in get_index(a)..(list_number - 1) : fits(FreeList(h, i)) # {}}
           list    == FreeList(h, Min(lists))
           fitting == fits(list)
           least   == Min({size(list[k]) : k \in fitting})
           best    == {k \in fitting : size(list[k]) = least}
<1>1. b = (IF lists = {} THEN NULL ELSE list[Min(best)])
  BY DEF find_fit
<1>2. lists # {} /\ b = list[Min(best)]
  BY <1>1 DEF Fitting
<1>3. get_index(a) \in Lists /\ list_number \in Nat
  BY Indexed, HeapAssumption
<1>4. Min(lists) \in Lists /\ fitting # {}
  <2>1. \A i \in lists : i \in Lists
    <3> SUFFICES ASSUME NEW i \in get_index(a)..(list_number - 1) PROVE i \in Lists
      OBVIOUS
    <3>1. PICK j : j = get_index(a)
      OBVIOUS
    <3>2. j \in 0..(list_number - 1) /\ i \in j..(list_number - 1)
      BY <1>3, <3>1 DEF Lists
    <3> QED BY ONLY <1>3, <3>2 DEF Lists
  <2>2. lists \in SUBSET Nat
    BY <2>1 DEF Lists
  <2>3. Min(lists) \in lists
    BY ONLY <1>2, <2>2, MinIn
  <2> QED BY <2>1, <2>3
<1> HIDE DEF lists
<1>5. PICK i : i = Min(lists)
  OBVIOUS
<1>6. /\ Tiled(h.mem, h.brk, B) /\ Listed(h.mem, h.seg_list, FreeIn(h.mem, B)) /\ i \in Lists
  BY <1>4, <1>5 DEF Good
<1>7. PICK n \in Nat : \E c \in [1..n -> FreeIn(h.mem, B)] : Chained(h.mem, h.seg_list[i], i, n, c)
  BY <1>6 DEF Listed, Holds
<1>8. PICK c \in [1..n -> FreeIn(h.mem, B)] : Chained(h.mem, h.seg_list[i], i, n, c)
  BY <1>7
<1>9. list = c
  <2>1. c \in [1..n -> B]
    BY DEF FreeIn
  <2> QED BY ONLY <1>5, <1>6, <1>8, <2>1, n \in Nat, FreeListOf DEF list
<1> HIDE DEF list
<1>10. fitting \subseteq 1..n /\ \A k \in fitting : c[k] \in FreeIn(h.mem, B) /\ a <= get_size(h.mem, c[k])
  BY <1>9
<1>11. fitting \in SUBSET Nat /\ \A k \in fitting : get_size(h.mem, c[k]) \in Nat
  <2>1. \A x \in B : get_size(h.mem, x) \in Nat
    BY <1>6, TiledApart DEF Apart
  <2>2. \A x \in FreeIn(h.mem, B) : x \in B
    BY DEF FreeIn
  <2>3. fitting \in SUBSET Nat
    BY <1>10
  <2> QED BY <1>10, <2>1, <2>2, <2>3
<1> HIDE DEF fitting
<1>12. best \in SUBSET Nat /\ best # {}
  <2>1. PICK S : S = {size(list[k]) : k \in fitting}
    OBVIOUS
  <2>2. S \in SUBSET Nat /\ S # {}
    BY <1>4, <1>9, <1>11, <2>1
  <2>3. Min(S) \in S
    BY ONLY <2>2, MinIn
  <2> QED BY <1>11, <2>1, <2>3
<1>13. Min(best) \in best
  <2> HIDE DEF best
  <2> QED BY ONLY <1>12, MinIn
<1>14. Min(best) \in fitting
  BY <1>13
<1> HIDE DEF best
<1>15. PICK k \in fitting : k = Min(best)
  BY <1>14
<1>16. b = c[k]
  BY <1>2, <1>9, <1>15
<1>17. get_size(h.mem, b) \in Nat /\ a <= get_size(h.mem, b) /\ b \in FreeIn(h.mem, B)
  BY <1>10, <1>11, <1>16
<1> QED BY <1>17

(* If no list has one there is none (find_fit, get_index).                 *)
LEMMA NoFit ==
  ASSUME NEW h, NEW B, Good(h, B), NEW a \in Nat, find_fit(h, a) = NULL
  PROVE  \A x \in FreeIn(h.mem, B) : ~(get_size(h.mem, x) >= a)
<1> SUFFICES ASSUME NEW x \in FreeIn(h.mem, B), get_size(h.mem, x) >= a PROVE FALSE
  OBVIOUS
<1>1. /\ Tiled(h.mem, h.brk, B) /\ Listed(h.mem, h.seg_list, FreeIn(h.mem, B))
      /\ x \in B /\ x \in Nat /\ x > 0 /\ get_size(h.mem, x) \in Nat
  BY TiledApart DEF Good, FreeIn, Apart
<1>2. PICK i, s : i = get_index(s) /\ s = get_size(h.mem, x)
  OBVIOUS
<1>3. i \in Lists /\ get_index(a) \in Lists /\ get_index(a) <= i /\ list_number \in Nat
  <2>1. s \in Nat /\ a <= s
    BY <1>1, <1>2
  <2> QED BY ONLY <1>2, <2>1, a \in Nat, Indexed, IndexGrows, HeapAssumption
<1>4. i \in get_index(a)..(list_number - 1)
  <2>1. PICK j : j = get_index(a)
    OBVIOUS
  <2>2. i \in 0..(list_number - 1) /\ j \in 0..(list_number - 1) /\ j <= i
    BY <1>3, <2>1 DEF Lists
  <2> QED BY ONLY <1>3, <2>1, <2>2
<1>5. PICK n \in Nat : \E c \in [1..n -> FreeIn(h.mem, B)] :
        Chained(h.mem, h.seg_list[i], i, n, c) /\ Members(n, c) = Class(h.mem, FreeIn(h.mem, B), i)
  BY <1>1, <1>3 DEF Listed, Holds
<1>6. PICK c \in [1..n -> FreeIn(h.mem, B)] :
        Chained(h.mem, h.seg_list[i], i, n, c) /\ Members(n, c) = Class(h.mem, FreeIn(h.mem, B), i)
  BY <1>5
<1>7. FreeList(h, i) = c
  <2>1. c \in [1..n -> B]
    BY DEF FreeIn
  <2> QED BY ONLY <1>1, <1>6, <2>1, n \in Nat, FreeListOf
<1>8. PICK k \in 1..n : c[k] = x
  <2>1. x \in Class(h.mem, FreeIn(h.mem, B), i)
    BY <1>2 DEF Class
  <2> QED BY <1>6, <2>1 DEF Members
<1>9. ~get_alloc(h.mem, c[k]) /\ a <= get_size(h.mem, c[k]) /\ k \in DOMAIN c
  BY <1>1, <1>8 DEF FreeIn
<1>10. i \in Fitting(h, a)
  BY <1>4, <1>7, <1>9 DEF Fitting
<1>11. NULL \in FreeIn(h.mem, B)
  <2>1. Fitting(h, a) # {} /\ NULL = find_fit(h, a)
    BY <1>10
  <2> QED BY ONLY <2>1, Good(h, B), a \in Nat, FindFit
<1>12. \A y \in B : y > 0
  BY <1>1, TiledApart DEF Apart
<1> QED BY <1>11, <1>12 DEF FreeIn, NULL

(* A large enough free block is a segment that fits.                       *)
LEMMA Fitted ==
  ASSUME NEW h, NEW B, Good(h, B), NEW a
  PROVE  SG!Fits(Shown(h), a) = {Seg(h.mem, x) : x \in {f \in FreeIn(h.mem, B) : get_size(h.mem, f) >= a}}
<1>1. PICK S : S = Segs(h.mem, B) /\ Shown(h) = S
  BY WalkMeetsBlocks DEF Good
<1>2. \A x \in B : Seg(h.mem, x).used = get_alloc(h.mem, x) /\ Seg(h.mem, x).size = get_size(h.mem, x)
  BY DEF Seg
<1>3. S = {Seg(h.mem, x) : x \in B} /\ SG!Fits(S, a) = {g \in S : ~g.used /\ g.size >= a}
  BY <1>1 DEF Segs, SG!Fits
<1>4. FreeIn(h.mem, B) = {x \in B : ~get_alloc(h.mem, x)}
  BY DEF FreeIn
<1>5. ASSUME NEW g \in S, ~g.used, g.size >= a
      PROVE  \E x \in B : ~get_alloc(h.mem, x) /\ get_size(h.mem, x) >= a /\ g = Seg(h.mem, x)
  <2>1. PICK x \in B : g = Seg(h.mem, x)
    BY <1>3
  <2>2. g.used = get_alloc(h.mem, x) /\ g.size = get_size(h.mem, x)
    BY ONLY <1>2, <2>1
  <2>3. ~get_alloc(h.mem, x) /\ get_size(h.mem, x) >= a
    BY ONLY <1>5, <2>2, Zenon
  <2> QED BY <2>1, <2>3
<1>6. ASSUME NEW x \in B, ~get_alloc(h.mem, x), get_size(h.mem, x) >= a
      PROVE  Seg(h.mem, x) \in S /\ ~Seg(h.mem, x).used /\ Seg(h.mem, x).size >= a
  <2>1. Seg(h.mem, x).used = get_alloc(h.mem, x) /\ Seg(h.mem, x).size = get_size(h.mem, x)
    BY ONLY <1>2, x \in B
  <2>2. ~Seg(h.mem, x).used /\ Seg(h.mem, x).size >= a
    BY ONLY <1>6, <2>1, Zenon
  <2> QED BY <1>3, <2>2
<1> HIDE DEF Seg
<1> QED BY <1>1, <1>3, <1>4, <1>5, <1>6

(* The segments are what Segments says of a request of a words.            *)
Allots(h, a, g) == Shown(g) \in SG!After(Shown(h), a)

LEMMA AllotsFit ==
  ASSUME NEW h, NEW B, Good(h, B), NEW a, NEW b \in FreeIn(h.mem, B), get_size(h.mem, b) >= a,
         NEW g, Takes(h, b, a, g)
  PROVE  Allots(h, a, g)
<1>1. PICK e : e = Seg(h.mem, b)
  OBVIOUS
<1>2. e \in SG!Fits(Shown(h), a)
  BY <1>1, Fitted
<1>3. Shown(g) = SG!Taken(Shown(h), e, a)
  BY <1>1 DEF Takes
<1> QED BY ONLY <1>2, <1>3 DEF Allots, SG!After

LEMMA EndIs ==
  ASSUME NEW h, NEW B, Good(h, B)
  PROVE  SG!End(Shown(h)) = h.brk - 1 /\ h.brk \in Nat
<1>1. Tiled(h.mem, h.brk, B) /\ h.brk \in 2..MaxHeap /\ MaxHeap \in Nat
  BY HeapAssumption DEF Good, HeapType
<1>2. Shown(h) = Segs(h.mem, B)
  BY ONLY <1>1, WalkMeetsBlocks
<1>3. SG!Total(Shown(h)) = h.brk - 2
  BY ONLY <1>1, <1>2, TotalOfBlocks
<1> QED BY <1>1, <1>3 DEF SG!End, heap_start

LEMMA AllotsGrown ==
  ASSUME NEW h, NEW B, Good(h, B), NEW a \in Nat, \A x \in FreeIn(h.mem, B) : ~(get_size(h.mem, x) >= a),
         NEW n, n = SG!Growth(a), n \in Nat, h.brk + n <= MaxHeap, NEW r, Grows(h, r, n),
         NEW D, Good(r.heap, D), r.block \in FreeIn(r.heap.mem, D), get_size(r.heap.mem, r.block) >= a,
         NEW g, Takes(r.heap, r.block, a, g)
  PROVE  Allots(h, a, g)
<1>1. PICK e : e = Seg(r.heap.mem, r.block)
  OBVIOUS
<1>2. /\ Shown(r.heap) = Longer(Shown(h), n)
      /\ r.heap.brk = h.brk + n /\ find_next(r.heap.mem, r.block) = r.heap.brk - 1
  BY DEF Grows
<1>3. SG!Fits(Shown(h), a) = {}
  BY Fitted
<1>4. SG!Room(Shown(h), a)
  <2>1. SG!End(Shown(h)) = h.brk - 1 /\ h.brk \in Nat
    BY EndIs
  <2>2. SG!Room(Shown(h), a) <=> SG!End(Shown(h)) + SG!Growth(a) <= MaxHeap - 1
    BY DEF SG!Room
  <2> QED BY <2>1, <2>2, HeapAssumption
<1>5. Shown(r.heap) = SG!Grown(Shown(h), a)
  BY <1>2 DEF Longer, Unused, SG!Grown
<1>6. e \in SG!Fits(Shown(r.heap), a) /\ e.at + e.size = SG!End(Shown(r.heap))
  <2>1. e \in SG!Fits(Shown(r.heap), a)
    BY <1>1, Fitted
  <2>2. e.at + e.size = find_next(r.heap.mem, r.block)
    BY <1>1 DEF Seg, find_next
  <2>3. SG!End(Shown(r.heap)) = r.heap.brk - 1
    BY EndIs
  <2> QED BY <1>2, <2>1, <2>2, <2>3
<1>7. Shown(g) = SG!Taken(Shown(r.heap), e, a)
  BY <1>1 DEF Takes
<1> QED BY ONLY <1>3, <1>4, <1>5, <1>6, <1>7 DEF Allots, SG!After

(* What malloc takes: a block of a words, in a heap that may have grown.   *)
LEMMA Allocates ==
  ASSUME NEW h, NEW B, Good(h, B), NEW n, NEW a, a = adjusted(n), a \in Nat, a % 2 = 0, a >= 2,
         NEW r, r = Allocate(h, n)
  PROVE  \/ r = [heap |-> h, block |-> NULL]
         \/ Taken(h, B, r.block, a, r.heap) /\ Allots(h, a, r.heap)
<1>1. PICK fit, more, grown : /\ fit = find_fit(h, a) /\ more = (IF a > chunksize THEN a ELSE chunksize)
                              /\ grown = extend_heap(h, more)
  OBVIOUS
<1>2. r = IF fit # NULL THEN [heap |-> split_block(h, fit, a), block |-> fit]
          ELSE IF ~mem_sbrk_ok(h, more) THEN [heap |-> h, block |-> NULL]
          ELSE [heap |-> split_block(grown.heap, grown.block, a), block |-> grown.block]
  BY <1>1 DEF Allocate
<1>3. CASE fit # NULL
  <2>1. PICK g : g = split_block(h, fit, a)
    OBVIOUS
  <2>2. r.heap = g /\ r.block = fit
    BY <1>2, <1>3, <2>1
  <2>3. fit \in FreeIn(h.mem, B) /\ get_size(h.mem, fit) >= a
    <3>1. Fitting(h, a) # {}
      BY <1>1, <1>3, Zenon DEF find_fit, Fitting
    <3> QED BY ONLY <1>1, <3>1, Good(h, B), a \in Nat, FindFit
  <2>4. Taken(h, B, fit, a, g) /\ Takes(h, fit, a, g)
    BY ONLY <2>1, <2>3, Good(h, B), a \in Nat, a % 2 = 0, a >= 2, SplitBlock
  <2>5. Allots(h, a, g)
    BY ONLY <2>3, <2>4, Good(h, B), AllotsFit
  <2> QED BY <2>2, <2>4, <2>5
<1>4. CASE fit = NULL /\ ~mem_sbrk_ok(h, more)
  BY <1>2, <1>4
<1>5. CASE fit = NULL /\ mem_sbrk_ok(h, more)
  <2>1. PICK g, b : b = grown.block /\ g = split_block(grown.heap, b, a)
    OBVIOUS
  <2>2. r.heap = g /\ r.block = b
    BY <1>2, <1>5, <2>1
  <2>3. more \in Nat /\ more % 2 = 0 /\ more >= 2 /\ more >= a /\ h.brk + more <= MaxHeap
    <3>1. chunksize \in Nat /\ chunksize % 2 = 0 /\ chunksize >= 2
      BY HeapAssumption
    <3>2. more \in Nat /\ more % 2 = 0 /\ more >= 2 /\ more >= a
      BY <1>1, <3>1
    <3>3. h.brk + more <= MaxHeap
      BY <1>5 DEF mem_sbrk_ok
    <3> QED BY <3>2, <3>3
  <2>4. GrownTo(h, B, grown, more) /\ Grows(h, grown, more)
    BY ONLY <1>1, <2>3, Good(h, B), ExtendHeap
  <2>5. PICK D : /\ Good(grown.heap, D) /\ b \in FreeIn(grown.heap.mem, D) /\ get_size(grown.heap.mem, b) >= more
                 /\ UsedIn(grown.heap.mem, D) = UsedIn(h.mem, B)
                 /\ KeepsUsed(h.mem, grown.heap.mem, UsedIn(h.mem, B))
    BY <2>1, <2>4 DEF GrownTo
  <2>6. get_size(grown.heap.mem, b) >= a
    <3>1. get_size(grown.heap.mem, b) \in Nat
      BY <2>5, TiledApart DEF Apart, Good, FreeIn
    <3> QED BY <2>3, <2>5, <3>1
  <2>7. Taken(grown.heap, D, b, a, g) /\ Takes(grown.heap, b, a, g)
    BY ONLY <2>1, <2>5, <2>6, a \in Nat, a % 2 = 0, a >= 2, SplitBlock
  <2>8. PICK G : /\ Good(g, G) /\ UsedIn(g.mem, G) = UsedIn(grown.heap.mem, D) \cup {b} /\ b \notin UsedIn(grown.heap.mem, D)
                 /\ KeepsUsed(grown.heap.mem, g.mem, UsedIn(grown.heap.mem, D)) /\ get_size(g.mem, b) >= a
    BY <2>7 DEF Taken
  <2>9. KeepsUsed(h.mem, g.mem, UsedIn(h.mem, B))
    <3>1. KeepsUsed(grown.heap.mem, g.mem, UsedIn(h.mem, B))
      BY <2>5, <2>8
    <3> QED BY ONLY <2>5, <3>1, KeepsTwice
  <2>10. Taken(h, B, b, a, g)
    BY ONLY <2>5, <2>8, <2>9 DEF Taken
  <2>11. Allots(h, a, g)
    <3>1. \A x \in FreeIn(h.mem, B) : ~(get_size(h.mem, x) >= a)
      BY ONLY <1>1, <1>5, Good(h, B), a \in Nat, NoFit
    <3>2. more = SG!Growth(a)
      BY <1>1 DEF SG!Growth
    <3> QED BY ONLY <2>1, <2>3, <2>4, <2>5, <2>6, <2>7, <3>1, <3>2, Good(h, B), a \in Nat, AllotsGrown
  <2> QED BY <2>2, <2>10, <2>11
<1> QED BY <1>3, <1>4, <1>5

-----------------------------------------------------------------------------
(* Giving a block back. *)

(* The heap g, in which b is not used any more.                            *)
Released(h, B, b, g) ==
  \E D : /\ Good(g, D) /\ UsedIn(g.mem, D) = UsedIn(h.mem, B) \ {b}
         /\ KeepsUsed(h.mem, g.mem, UsedIn(h.mem, B) \ {b})

(* In g the segment at b is given back.                                    *)
Gives(h, b, g) == Shown(g) = SG!Given(Shown(h), Seg(h.mem, b))

LEMMA Releases ==
  ASSUME NEW h, NEW B, Good(h, B), NEW b \in UsedIn(h.mem, B), NEW g, g = Release(h, b)
  PROVE  Released(h, B, b, g) /\ Gives(h, b, g)
<1>1. PICK N, s, O, C, p, q, tag, F : /\ N = find_next(h.mem, b) /\ s = get_size(h.mem, b) /\ O = B \ {b} /\ C = {b}
                                      /\ p = get_prev_alloc(h.mem, b) /\ q = get_prev_mini(h.mem, b)
                                      /\ tag = pack(s, FALSE, p, q) /\ F = FreeIn(h.mem, O)
  OBVIOUS
<1>2. /\ HeapType(h) /\ Tiled(h.mem, h.brk, B) /\ Tagged(h.mem, B, {}) /\ Merged(h.mem, B, {})
      /\ Listed(h.mem, h.seg_list, FreeIn(h.mem, B)) /\ b \in B /\ get_alloc(h.mem, b) /\ h.mem \in Memory
  BY DEF Good, UsedIn, HeapType
<1>3. /\ b \in Nat /\ s \in Nat /\ s % 2 = 0 /\ s >= 2 /\ N = b + s /\ N \in B \cup {h.brk - 1}
      /\ N <= h.brk - 1 /\ h.brk \in Nat /\ h.brk <= MaxHeap /\ MaxHeap \in Nat /\ h.mem[N] \in Nat
  <2>1. /\ b \in Nat /\ s \in Nat /\ s % 2 = 0 /\ s >= 2 /\ N = b + s /\ b + s <= h.brk - 1
        /\ h.brk \in Nat /\ h.brk <= MaxHeap /\ MaxHeap \in Nat
    BY <1>1, <1>2, TiledApart DEF Apart
  <2>2. N \in B \cup {h.brk - 1} /\ h.mem[N] \in Nat
    BY <1>1, <1>2 DEF Tiled
  <2> QED BY <2>1, <2>2
<1>4. /\ b \in 0..MaxHeap - 1 /\ N \in 0..MaxHeap - 1 /\ b + s - 1 \in 0..MaxHeap - 1 /\ b < N /\ b \in b..N - 1
      /\ b + s - 1 # N /\ b + s - 1 >= b /\ b + s - 1 < N
  BY ONLY <1>3
<1>5. p \in BOOLEAN /\ q \in BOOLEAN /\ O = Outside(B, b, N)
  <2>1. p \in BOOLEAN /\ q \in BOOLEAN
    BY <1>1 DEF get_prev_alloc, get_prev_mini
  <2>2. O = Outside(B, b, N)
    BY <1>1, <1>2, OutsideOne
  <2> QED BY <2>1, <2>2
<1>6. PICK m1 : m1 = IF s # 2 THEN write_tags(h.mem, b, s, FALSE, p, q) ELSE write_header(h.mem, b, s, FALSE, p, q)
  OBVIOUS
<1>7. /\ m1 \in Memory /\ m1[b] = tag /\ m1[N] = h.mem[N] /\ (s # 2 => m1[b + s - 1] = tag)
      /\ \A w \in 0..MaxHeap - 1 : w < b \/ w > N => m1[w] = h.mem[w]
  <2>1. CASE s # 2
    <3>1. m1 = write_tags(h.mem, b, s, FALSE, p, q)
      BY <1>6, <2>1
    <3>2. m1 \in Memory /\ TagsWritten(h.mem, m1, b, s, tag)
      BY ONLY <1>1, <1>2, <1>3, <1>4, <1>5, <3>1, FALSE \in BOOLEAN, WriteTags
    <3>3. m1 \in Memory /\ \A w \in 0..MaxHeap - 1 : m1[w] = IF w = b \/ w = b + s - 1 THEN tag ELSE h.mem[w]
      BY ONLY <3>2 DEF TagsWritten
    <3> QED BY ONLY <1>3, <1>4, <3>3
  <2>2. CASE s = 2
    <3>1. m1 = write_header(h.mem, b, s, FALSE, p, q)
      BY <1>6, <2>2
    <3>2. m1 \in Memory /\ HeaderWritten(h.mem, m1, b, tag)
      BY ONLY <1>1, <1>2, <1>3, <1>5, <3>1, FALSE \in BOOLEAN, WriteHeader
    <3>3. m1 \in Memory /\ \A w \in 0..MaxHeap - 1 : m1[w] = IF w = b THEN tag ELSE h.mem[w]
      BY ONLY <3>2 DEF HeaderWritten
    <3> QED BY ONLY <1>3, <1>4, <2>2, <3>3
  <2> QED BY <2>1, <2>2
<1>8. Header(m1, b, s, FALSE, p, q)
  <2>1. m1[b] = pack(s, FALSE, p, q)
    BY <1>1, <1>7
  <2>2. s \in Nat /\ s % 2 = 0 /\ p \in BOOLEAN /\ q \in BOOLEAN /\ FALSE \in BOOLEAN
    BY <1>3, <1>5
  <2> QED BY ONLY <2>1, <2>2, ReadHeader
<1>9. find_next(m1, b) = N
  BY <1>3, <1>8 DEF Header, find_next
<1>10. PICK mini, m : mini = (s = 2) /\ m = set_nextblock_prev_alloc(m1, b, FALSE, mini)
  OBVIOUS
<1>11. mini \in BOOLEAN
  BY <1>10
<1>12. m \in Memory /\ NextWritten(m1, m, N, FALSE, mini)
  <2>1. find_next(m1, b) \in 0..MaxHeap - 1 /\ m1[find_next(m1, b)] \in Nat
    BY <1>3, <1>4, <1>7, <1>9
  <2>2. m = set_nextblock_prev_alloc(m1, b, FALSE, mini)
    BY <1>10
  <2>3. m \in Memory /\ NextWritten(m1, m, find_next(m1, b), FALSE, mini)
    BY ONLY <1>7, <1>11, <2>1, <2>2, SetNext, FALSE \in BOOLEAN
  <2> QED BY <1>9, <2>3
<1>13. /\ Header(m, N, get_size(m1, N), get_alloc(m1, N), FALSE, mini)
       /\ \A w \in 0..MaxHeap - 1 : w # N => m[w] = m1[w]
  BY ONLY <1>12 DEF NextWritten
<1>14. /\ m[b] = m1[b] /\ (s # 2 => m[b + s - 1] = m[b])
       /\ \A w \in 0..MaxHeap - 1 : w < b \/ w > N => m[w] = h.mem[w]
  BY ONLY <1>3, <1>4, <1>7, <1>13
<1>15. /\ m[b] \in Nat /\ get_size(m, b) = s /\ ~get_alloc(m, b)
       /\ (get_prev_alloc(m, b) <=> p) /\ (get_prev_mini(m, b) <=> q)
  <2>1. Header(m, b, s, FALSE, p, q)
    BY ONLY <1>8, <1>14, Zenon DEF Header, get_size, get_alloc, get_prev_alloc, get_prev_mini
  <2> QED BY <2>1 DEF Header
<1>16. m[N] \in Nat /\ get_size(m, N) = get_size(h.mem, N) /\ (get_alloc(m, N) <=> get_alloc(h.mem, N))
  <2>1. get_size(m1, N) = get_size(h.mem, N) /\ (get_alloc(m1, N) <=> get_alloc(h.mem, N))
    BY <1>7 DEF get_size, get_alloc
  <2> QED BY <1>13, <2>1 DEF Header
<1>17. find_next(m, b) = N
  BY <1>3, <1>15 DEF find_next
<1>18. Footed(m, b)
  <2>1. SaysFree(m[b], s)
    BY <1>15 DEF get_size, get_alloc, SaysFree
  <2> QED BY ONLY <1>14, <1>15, <2>1 DEF Footed, header_to_footer
<1>19. Reshaped(h.mem, m, h.brk, B, b, N, C)
  <2>1. C \subseteq b..N - 1 /\ b \in C
    BY <1>1, <1>4
  <2>2. \A x \in C : m[x] \in Nat /\ get_size(m, x) >= 2 /\ find_next(m, x) \in C \cup {N}
    BY <1>1, <1>3, <1>15, <1>17
  <2>3. \A x, y \in C : x < y => find_next(m, x) <= y
    BY <1>1, <1>3
  <2> QED BY ONLY <1>2, <1>3, <1>4, <1>14, <1>16, <2>1, <2>2, <2>3 DEF Reshaped
<1>20. SameBefore(h.mem, m, b)
  BY ONLY <1>1, <1>15 DEF SameBefore
<1>21. Fresh(m, C, C)
  BY ONLY <1>1 DEF Fresh
<1>22. F = FreeIn(h.mem, B) /\ UsedIn(h.mem, O) = UsedIn(h.mem, B) \ {b}
  BY <1>1, <1>2 DEF FreeIn, UsedIn
<1>23. Rebuilding(h, B, b, N, O, {}, F, m, C, C)
  <2>1. {} \subseteq B /\ {} \cap O = {} /\ b \in C
    BY <1>1
  <2>2. Loose(h, B, {}, F)
    BY <1>2, <1>22 DEF Loose
  <2> QED BY ONLY <1>1, <1>5, <1>12, <1>19, <1>20, <1>21, <2>1, <2>2 DEF Rebuilding
<1>24. PICK h2, G : h2 = [h EXCEPT !.mem = m] /\ G = O \cup C
  OBVIOUS
<1>25. FreeIn(m, C) = {b} /\ UsedIn(m, C) = {}
  BY <1>1, <1>15 DEF FreeIn, UsedIn
<1>26. /\ Loose(h2, G, C, F) /\ h2.mem = m /\ h2.brk = h.brk /\ FreeIn(m, G) = F \cup FreeIn(m, C)
       /\ UsedIn(m, G) = UsedIn(h.mem, O) \cup UsedIn(m, C) /\ KeepsUsed(h.mem, m, UsedIn(h.mem, O))
       /\ SameSegs(h.mem, m, O)
  <2>1. Rebuilt(h, B, O, F, m, C, C, h2)
    BY ONLY <1>23, <1>24, Rebuild
  <2> QED BY ONLY <1>24, <2>1 DEF Rebuilt
<1>27. Loose(h2, G, {b}, FreeIn(h2.mem, G) \ {b}) /\ b \in G
  <2>1. b \notin F
    BY <1>1 DEF FreeIn
  <2>2. FreeIn(h2.mem, G) \ {b} = F
    BY <1>25, <1>26, <2>1
  <2> QED BY <1>1, <1>24, <1>26, <2>2
<1>28. PICK r : r = coalesce_block(h2, b)
  OBVIOUS
<1>29. ~get_alloc(h2.mem, b) /\ Footed(h2.mem, b)
  BY <1>15, <1>18, <1>26
<1>30. Coalesced(h2, G, r, get_size(h2.mem, b)) /\ Regained(h2, G, b, r)
  BY ONLY <1>27, <1>28, <1>29, Coalesce
<1>31. PICK D : /\ Good(r.heap, D) /\ UsedIn(r.heap.mem, D) = UsedIn(h2.mem, G)
                /\ KeepsUsed(h2.mem, r.heap.mem, UsedIn(h2.mem, G))
  BY <1>30 DEF Coalesced
<1>32. UsedIn(h2.mem, G) = UsedIn(h.mem, B) \ {b}
  BY <1>22, <1>25, <1>26
<1>33. KeepsUsed(h.mem, r.heap.mem, UsedIn(h.mem, B) \ {b})
  <2>1. KeepsUsed(h.mem, h2.mem, UsedIn(h.mem, B) \ {b}) /\ KeepsUsed(h2.mem, r.heap.mem, UsedIn(h.mem, B) \ {b})
    BY <1>22, <1>26, <1>31, <1>32
  <2> QED BY ONLY <2>1, KeepsTwice
<1>34. g = r.heap
  BY <1>1, <1>6, <1>10, <1>24, <1>28 DEF Release, min_block_size, dsize
<1>35. Released(h, B, b, g)
  BY ONLY <1>31, <1>32, <1>33, <1>34 DEF Released
<1>36. Gives(h, b, g)
  <2>1. G = B
    BY <1>1, <1>2, <1>24
  <2>2. Regains(h2.mem, h.brk, B, b, g)
    <3>1. Regains(h2.mem, h2.brk, G, b, r.heap)
      BY ONLY <1>30 DEF Regained
    <3> QED BY <1>26, <1>34, <2>1, <3>1
  <2>3. SameSegs(h.mem, h2.mem, B \ {b})
    BY <1>1, <1>26
  <2>4. \A x \in B : get_size(h2.mem, x) = get_size(h.mem, x)
    <3>1. get_size(h2.mem, b) = get_size(h.mem, b)
      BY <1>1, <1>15, <1>26
    <3> QED BY ONLY <2>3, <3>1 DEF SameSegs
  <2>5. Regains(h.mem, h.brk, B, b, g)
    BY ONLY <1>2, <2>2, <2>3, <2>4, RegainsFrom
  <2>6. Shown(g) = SG!Given(Segs(h.mem, B), Seg(h.mem, b))
    BY ONLY <1>2, <2>5, RegainsIs
  <2>7. Shown(h) = Segs(h.mem, B)
    BY ONLY <1>2, WalkMeetsBlocks
  <2> QED BY ONLY <2>6, <2>7 DEF Gives
<1> QED BY <1>35, <1>36

-----------------------------------------------------------------------------
(* What the program stores. *)

(* Only words of the payload of b have changed.                            *)
Stored(mem, m, b) ==
  /\ m \in Memory
  /\ \A w \in 0..MaxHeap - 1 : w \notin (b + 1)..(b + get_size(mem, b) - 1) => m[w] = mem[w]

StoredIn(h, B, b, m, g) ==
  /\ Good(g, B) /\ UsedIn(g.mem, B) = UsedIn(h.mem, B) /\ KeepsUsed(h.mem, g.mem, UsedIn(h.mem, B) \ {b})
  /\ get_size(g.mem, b) = get_size(h.mem, b) /\ g.mem = m /\ Shown(g) = Shown(h)

LEMMA Store ==
  ASSUME NEW h, NEW B, Good(h, B), NEW b \in UsedIn(h.mem, B), NEW m, Stored(h.mem, m, b),
         NEW g, g = [h EXCEPT !.mem = m]
  PROVE  StoredIn(h, B, b, m, g)
<1>1. /\ HeapType(h) /\ Tiled(h.mem, h.brk, B) /\ Tagged(h.mem, B, {}) /\ Merged(h.mem, B, {})
      /\ Listed(h.mem, h.seg_list, FreeIn(h.mem, B)) /\ b \in B /\ get_alloc(h.mem, b)
  BY DEF Good, UsedIn
<1>2. PICK mem, E, s : mem = h.mem /\ E = h.brk - 1 /\ s = get_size(mem, b)
  OBVIOUS
<1>3. m \in Memory /\ \A w \in 0..MaxHeap - 1 : w \notin (b + 1)..(b + s - 1) => m[w] = mem[w]
  BY <1>2 DEF Stored
<1>4. Apart(mem, B) /\ b \in Nat /\ s \in Nat /\ s >= 2 /\ b + s <= E /\ E \in 0..MaxHeap - 1 /\ E \in Nat
  <2>1. /\ Apart(mem, B) /\ b \in Nat /\ s \in Nat /\ s >= 2 /\ b + s <= h.brk - 1
        /\ h.brk \in Nat /\ h.brk >= 2 /\ h.brk <= MaxHeap /\ MaxHeap \in Nat
    BY <1>1, <1>2, TiledApart DEF Apart
  <2>2. E \in 0..MaxHeap - 1 /\ E \in Nat
    BY ONLY <1>2, <2>1
  <2> QED BY <1>2, <2>1, <2>2
<1>5. ASSUME NEW x \in B, NEW y \in 0..get_size(mem, x) - 1, x # b \/ y = 0 PROVE m[x + y] = mem[x + y]
  <2>1. PICK w, t : w = x + y /\ t = get_size(mem, x)
    OBVIOUS
  <2>2. x \in Nat /\ t \in Nat /\ x + t <= MaxHeap - 1 /\ MaxHeap \in Nat
    BY <1>4, <2>1, HeapAssumption DEF Apart
  <2>3. w \in 0..MaxHeap - 1
    <3>1. y \in 0..t - 1
      BY <2>1
    <3> QED BY ONLY <2>1, <2>2, <3>1
  <2>4. w \notin (b + 1)..(b + s - 1)
    <3> SUFFICES ASSUME w \in (b + 1)..(b + s - 1) PROVE FALSE
      OBVIOUS
    <3>1. PICK z : z = w - b
      OBVIOUS
    <3>2. z \in 0..s - 1 /\ z # 0 /\ w = b + z
      BY ONLY <1>4, <2>1, <2>2, <2>3, <3>1, w \in (b + 1)..(b + s - 1)
    <3>3. CASE x # b
      <4>1. x + y # b + z
        BY ONLY <1>1, <1>2, <1>4, <3>2, <3>3, x \in B, y \in 0..get_size(mem, x) - 1, OwnWords
      <4> QED BY ONLY <2>1, <3>2, <4>1
    <3>4. CASE x = b /\ y = 0
      BY ONLY <1>4, <2>1, <3>2, <3>4
    <3> QED BY <1>5, <3>3, <3>4
  <2> QED BY <1>3, <2>1, <2>3, <2>4
<1>6. m[E] = mem[E]
  <2>1. E \notin (b + 1)..(b + s - 1)
    BY ONLY <1>4
  <2> QED BY <1>3, <1>4, <2>1
<1>7. \A x \in B : get_size(mem, x) \in Nat /\ get_size(mem, x) >= 2 /\ x \in Nat
  BY <1>4 DEF Apart
<1>8. ASSUME NEW x \in B PROVE m[x] = mem[x] /\ get_size(m, x) = get_size(mem, x)
  <2>1. x + 0 = x /\ 0 \in 0..get_size(mem, x) - 1
    BY <1>7, <1>8
  <2>2. m[x] = mem[x]
    BY <1>5, <1>8, <2>1
  <2> QED BY <2>2 DEF get_size
<1>9. ASSUME NEW x \in B, x # b PROVE SamePayload(mem, m, x)
  <2>1. \A y \in 1..get_size(mem, x) - 1 : y \in 0..get_size(mem, x) - 1
    BY <1>7, <1>9
  <2> QED BY <1>5, <1>9, <2>1 DEF SamePayload
<1>10. SameTags(mem, m, h.brk, B)
  <2>1. ASSUME NEW x \in B, ~get_alloc(mem, x), get_size(mem, x) # 2
        PROVE  m[header_to_footer(mem, x)] = mem[header_to_footer(mem, x)]
    <3>1. x # b
      BY <1>1, <1>2, <2>1
    <3>2. get_size(mem, x) - 1 \in 0..get_size(mem, x) - 1 /\ header_to_footer(mem, x) = x + (get_size(mem, x) - 1)
      <4>1. PICK t : t = get_size(mem, x)
        OBVIOUS
      <4>2. t \in Nat /\ t >= 2 /\ x \in Nat
        BY <1>7, <2>1, <4>1
      <4>3. t - 1 \in 0..t - 1 /\ x + t - 1 = x + (t - 1)
        BY ONLY <4>2
      <4> QED BY <4>1, <4>3 DEF header_to_footer
    <3> QED BY <1>5, <2>1, <3>1, <3>2
  <2>2. m[0] = mem[0]
    <3>1. 0 \notin (b + 1)..(b + s - 1) /\ 0 \in 0..MaxHeap - 1
      BY <1>4, HeapAssumption
    <3> QED BY <1>3, <3>1
  <2> QED BY <1>2, <1>6, <1>8, <2>1, <2>2 DEF SameTags
<1>11. /\ Tiled(m, h.brk, B) /\ Tagged(m, B, {}) /\ Merged(m, B, {})
       /\ FreeIn(m, B) = FreeIn(mem, B) /\ UsedIn(m, B) = UsedIn(mem, B)
  BY ONLY <1>1, <1>2, <1>10, SameTagsKeep
<1>12. PICK F : F = FreeIn(mem, B)
  OBVIOUS
<1>13. F \in SUBSET B /\ b \notin F
  BY <1>1, <1>2, <1>12 DEF FreeIn
<1>14. ASSUME NEW f \in F
       PROVE  /\ get_size(m, f) = get_size(mem, f) /\ m[f + 1] = mem[f + 1]
              /\ get_size(mem, f) # 2 => m[f + 2] = mem[f + 2]
  <2>1. PICK t : t = get_size(mem, f)
    OBVIOUS
  <2>2. t \in Nat /\ t >= 2 /\ (t # 2 => t >= 4)
    BY <1>4, <1>13, <2>1 DEF Apart
  <2>3. 1 \in 1..t - 1 /\ (t # 2 => 2 \in 1..t - 1)
    BY ONLY <2>2
  <2>4. f \in B /\ f # b
    BY <1>13
  <2>5. SamePayload(mem, m, f)
    BY <1>9, <2>4
  <2> QED BY <1>8, <2>1, <2>3, <2>4, <2>5 DEF SamePayload
<1>15. Listed(m, h.seg_list, F)
  <2>1. Apart(mem, F) /\ Listed(mem, h.seg_list, F)
    BY <1>1, <1>2, <1>4, <1>12, <1>13, ApartSubset
  <2> QED BY ONLY <1>14, <2>1, SameLinks
<1>16. HeapType(g) /\ g.mem = m /\ g.brk = h.brk /\ g.seg_list = h.seg_list
  BY ONLY <1>1, <1>3, g = [h EXCEPT !.mem = m] DEF HeapType
<1>17. Good(g, B)
  BY ONLY <1>11, <1>12, <1>15, <1>16 DEF Good
<1>18. KeepsUsed(mem, m, UsedIn(mem, B) \ {b})
  BY <1>8, <1>9 DEF KeepsUsed, UsedIn
<1>19. Shown(g) = Shown(h)
  <2>1. SameSegs(mem, m, B)
    BY ONLY <1>10, TagsSegs
  <2>2. Segs(m, B) = Segs(mem, B)
    BY ONLY <2>1, SegsAre
  <2>3. Tiled(g.mem, g.brk, B)
    BY ONLY <1>11, <1>16
  <2>4. Shown(g) = Segs(g.mem, B) /\ Shown(h) = Segs(h.mem, B)
    BY ONLY <1>1, <2>3, WalkMeetsBlocks
  <2> QED BY <1>2, <1>16, <2>2, <2>4
<1> QED BY <1>1, <1>2, <1>8, <1>11, <1>16, <1>17, <1>18, <1>19 DEF StoredIn

(* A pointer the program owns: block b, n words of data.                   *)
Kept(mem, o) ==
  /\ o.at \in Nat /\ o.size \in Nat /\ o.data \in Int /\ o.size <= get_size(mem, block(o.at)) - 1
  /\ \A w \in Words(o.at, o.size) : mem[w] = o.data

(* The pointers of L are to the blocks of U, one to each.                  *)
Owned(mem, U, L) ==
  /\ U = {block(o.at) : o \in L} /\ (\A o \in L : Kept(mem, o))
  /\ \A o, p \in L : o.at = p.at => o = p

LEMMA KeptKept ==
  ASSUME NEW mem, NEW m, NEW U, KeepsUsed(mem, m, U), NEW o, block(o.at) \in U, Kept(mem, o),
         get_size(mem, block(o.at)) \in Nat
  PROVE  Kept(m, o)
<1>1. PICK b, n, s, p : b = block(o.at) /\ n = o.size /\ s = get_size(mem, b) /\ p = o.at
  OBVIOUS
<1>2. /\ p \in Nat /\ n \in Nat /\ n <= s - 1 /\ s \in Nat /\ b = p - 1
      /\ (\A w \in p..(p + n - 1) : mem[w] = o.data) /\ o.data \in Int
  BY <1>1 DEF Kept, Words, block
<1>3. get_size(m, b) = s /\ \A x \in 1..s - 1 : m[b + x] = mem[b + x]
  BY <1>1 DEF KeepsUsed, SamePayload
<1>4. ASSUME NEW w \in p..(p + n - 1) PROVE m[w] = mem[w]
  <2>1. PICK x : x = w - b
    OBVIOUS
  <2>2. x \in 1..s - 1 /\ b + x = w
    BY ONLY <1>2, <1>4, <2>1
  <2> QED BY <1>3, <2>2
<1> QED BY <1>1, <1>2, <1>3, <1>4 DEF Kept, Words

LEMMA OwnedKept ==
  ASSUME NEW mem, NEW m, NEW U, KeepsUsed(mem, m, U), NEW L, Owned(mem, U, L), \A u \in U : get_size(mem, u) \in Nat
  PROVE  Owned(m, U, L)
<1>1. ASSUME NEW o \in L PROVE Kept(m, o)
  <2>1. block(o.at) \in U /\ Kept(mem, o)
    BY <1>1 DEF Owned
  <2> QED BY <2>1, KeptKept
<1> QED BY <1>1 DEF Owned

LEMMA OwnedMore ==
  ASSUME NEW mem, NEW U, NEW L, Owned(mem, U, L), NEW o, Kept(mem, o), block(o.at) \notin U
  PROVE  Owned(mem, U \cup {block(o.at)}, L \cup {o})
<1>1. \A p \in L : block(p.at) \in U /\ p.at # o.at
  BY DEF Owned
<1>2. U \cup {block(o.at)} = {block(p.at) : p \in L \cup {o}}
  BY DEF Owned
<1>3. \A p, q \in L \cup {o} : p.at = q.at => p = q
  BY <1>1 DEF Owned
<1>4. \A p \in L \cup {o} : Kept(mem, p)
  BY DEF Owned
<1> QED BY ONLY <1>2, <1>3, <1>4 DEF Owned

LEMMA OwnedLess ==
  ASSUME NEW mem, NEW U, NEW L, Owned(mem, U, L), NEW o \in L
  PROVE  Owned(mem, U \ {block(o.at)}, L \ {o})
<1>1. \A p \in L : block(p.at) = block(o.at) => p = o
  <2> SUFFICES ASSUME NEW p \in L, block(p.at) = block(o.at) PROVE p = o
    OBVIOUS
  <2>1. p.at \in Nat /\ o.at \in Nat
    BY DEF Owned, Kept
  <2>2. p.at = o.at
    BY <2>1 DEF block
  <2> QED BY <2>2 DEF Owned
<1>2. U \ {block(o.at)} = {block(p.at) : p \in L \ {o}}
  BY <1>1 DEF Owned
<1> QED BY <1>2 DEF Owned

LEMMA UsedWords ==
  ASSUME NEW h, NEW B, Good(h, B)
  PROVE  \A u \in UsedIn(h.mem, B) : /\ u \in Nat /\ u >= 1 /\ get_size(h.mem, u) \in Nat /\ get_size(h.mem, u) >= 2
                                     /\ u + get_size(h.mem, u) <= MaxHeap - 1
<1> SUFFICES ASSUME NEW u \in UsedIn(h.mem, B)
             PROVE  /\ u \in Nat /\ u >= 1 /\ get_size(h.mem, u) \in Nat /\ get_size(h.mem, u) >= 2
                    /\ u + get_size(h.mem, u) <= MaxHeap - 1
  OBVIOUS
<1>1. Apart(h.mem, B) /\ u \in B
  BY TiledApart DEF Good, UsedIn
<1>2. u \in Nat /\ u > 0 /\ get_size(h.mem, u) \in Nat /\ get_size(h.mem, u) >= 2 /\ u + get_size(h.mem, u) <= MaxHeap - 1
  BY <1>1 DEF Apart
<1> QED BY <1>2

(* Writes into the payload of b, of n words from p on.                     *)
Wrote(h, B, b, p, n, g) ==
  /\ Good(g, B) /\ UsedIn(g.mem, B) = UsedIn(h.mem, B) /\ KeepsUsed(h.mem, g.mem, UsedIn(h.mem, B) \ {b})
  /\ get_size(g.mem, b) = get_size(h.mem, b) /\ \A w \in 0..MaxHeap - 1 : w \notin Words(p, n) => g.mem[w] = h.mem[w]
  /\ Shown(g) = Shown(h)

LEMMA Write ==
  ASSUME NEW h, NEW B, Good(h, B), NEW b \in UsedIn(h.mem, B), NEW p \in Nat, NEW n \in Int,
         p >= b + 1, p + n <= b + get_size(h.mem, b), NEW m \in Memory,
         \A w \in 0..MaxHeap - 1 : w \notin Words(p, n) => m[w] = h.mem[w], NEW g, g = [h EXCEPT !.mem = m]
  PROVE  Wrote(h, B, b, p, n, g) /\ g.mem = m
<1>1. PICK s : s = get_size(h.mem, b)
  OBVIOUS
<1>2. b \in Nat /\ s \in Nat /\ p + n <= b + s
  BY <1>1, UsedWords
<1>3. \A w \in Words(p, n) : w \in (b + 1)..(b + s - 1)
  BY ONLY <1>2, p \in Nat, n \in Int, p >= b + 1 DEF Words
<1>4. Stored(h.mem, m, b)
  BY <1>1, <1>3 DEF Stored
<1>5. /\ Good(g, B) /\ UsedIn(g.mem, B) = UsedIn(h.mem, B) /\ KeepsUsed(h.mem, g.mem, UsedIn(h.mem, B) \ {b})
      /\ get_size(g.mem, b) = get_size(h.mem, b) /\ g.mem = m /\ Shown(g) = Shown(h)
  <2>1. StoredIn(h, B, b, m, g)
    BY ONLY <1>4, Store, Good(h, B), b \in UsedIn(h.mem, B), g = [h EXCEPT !.mem = m]
  <2> QED BY ONLY <2>1 DEF StoredIn
<1> QED BY <1>5 DEF Wrote

(* The program fills n words from p on.                                    *)
LEMMA Fills ==
  ASSUME NEW h, NEW B, Good(h, B), NEW b \in UsedIn(h.mem, B), NEW p \in Nat, NEW n \in Int,
         p >= b + 1, p + n <= b + get_size(h.mem, b), NEW data \in Int, NEW g, g = Filled(h, p, n, data)
  PROVE  Wrote(h, B, b, p, n, g) /\ \A w \in Words(p, n) : g.mem[w] = data
<1>1. h.mem \in Memory
  BY DEF Good, HeapType
<1>2. DOMAIN h.mem = 0..MaxHeap - 1
  BY <1>1 DEF Memory
<1>3. PICK m : m = [w \in 0..MaxHeap - 1 |-> IF w \in Words(p, n) THEN data ELSE h.mem[w]]
  OBVIOUS
<1>4. g = [h EXCEPT !.mem = m]
  BY <1>2, <1>3 DEF Filled
<1>5. m \in Memory
  BY ONLY <1>1, <1>3, data \in Int DEF Memory
<1>6. \A w \in 0..MaxHeap - 1 : w \notin Words(p, n) => m[w] = h.mem[w]
  BY ONLY <1>3
<1>7. Wrote(h, B, b, p, n, g) /\ g.mem = m
  BY ONLY <1>4, <1>5, <1>6, Write, Good(h, B), b \in UsedIn(h.mem, B), p \in Nat, n \in Int,
          p >= b + 1, p + n <= b + get_size(h.mem, b)
<1>8. ASSUME NEW w \in Words(p, n) PROVE g.mem[w] = data
  <2>1. PICK s : s = get_size(h.mem, b)
    OBVIOUS
  <2>2. b \in Nat /\ s \in Nat /\ b + s <= MaxHeap - 1 /\ p + n <= b + s /\ MaxHeap \in Nat
    BY <2>1, UsedWords, HeapAssumption
  <2>3. w \in 0..MaxHeap - 1
    BY ONLY <1>8, <2>2, p \in Nat, n \in Int DEF Words
  <2> QED BY <1>3, <1>7, <1>8, <2>3
<1> QED BY <1>7, <1>8

-----------------------------------------------------------------------------
(* The calls. *)

Holding(h, L) == \E B : Good(h, B) /\ Owned(h.mem, UsedIn(h.mem, B), L)

(* A pointer is handed out (malloc, calloc).                               *)
LEMMA HandsOut ==
  ASSUME NEW h, NEW B, NEW L, Good(h, B), Owned(h.mem, UsedIn(h.mem, B), L), NEW b, NEW a, NEW g, Taken(h, B, b, a, g),
         NEW n \in Nat, a \in Nat, a >= n + 1, NEW data \in Int, NEW h2, h2 = Filled(g, payload(b), n, data),
         NEW o, o = [at |-> payload(b), size |-> n, data |-> data]
  PROVE  Holding(h2, L \cup {o}) /\ Shown(h2) = Shown(g) /\ o \notin L
<1>1. PICK D, U : /\ Good(g, D) /\ UsedIn(g.mem, D) = U \cup {b} /\ U = UsedIn(h.mem, B) /\ b \notin U
                  /\ KeepsUsed(h.mem, g.mem, U) /\ get_size(g.mem, b) >= a
  BY DEF Taken
<1>2. /\ b \in UsedIn(g.mem, D) /\ b \in Nat /\ b >= 1 /\ get_size(g.mem, b) \in Nat
      /\ \A u \in U : get_size(g.mem, u) \in Nat /\ get_size(h.mem, u) \in Nat
  <2>1. \A u \in UsedIn(g.mem, D) : u \in Nat /\ u >= 1 /\ get_size(g.mem, u) \in Nat
    BY ONLY <1>1, UsedWords
  <2>2. \A u \in U : get_size(h.mem, u) \in Nat
    BY <1>1, UsedWords
  <2> QED BY <1>1, <2>1, <2>2
<1>3. Owned(g.mem, U, L)
  <2>1. Owned(h.mem, U, L)
    BY <1>1
  <2> QED BY ONLY <1>1, <1>2, <2>1, OwnedKept
<1>4. PICK p, s : p = payload(b) /\ s = get_size(g.mem, b)
  OBVIOUS
<1>5. p \in Nat /\ p = b + 1 /\ p >= b + 1 /\ p + n <= b + s /\ n <= s - 1 /\ n \in Int
  BY <1>1, <1>2, <1>4 DEF payload
<1>6. Wrote(g, D, b, p, n, h2) /\ \A w \in Words(p, n) : h2.mem[w] = data
  <2>1. p + n <= b + get_size(g.mem, b) /\ h2 = Filled(g, p, n, data)
    BY <1>4, <1>5
  <2> QED BY ONLY <1>1, <1>2, <1>5, <2>1, Fills, data \in Int
<1>7. /\ Good(h2, D) /\ UsedIn(h2.mem, D) = UsedIn(g.mem, D) /\ KeepsUsed(g.mem, h2.mem, UsedIn(g.mem, D) \ {b})
      /\ get_size(h2.mem, b) = s
  BY <1>4, <1>6 DEF Wrote
<1>8. Owned(h2.mem, U, L)
  <2>1. KeepsUsed(g.mem, h2.mem, U)
    <3>1. UsedIn(g.mem, D) \ {b} = U
      BY <1>1
    <3> QED BY <1>7, <3>1
  <2> QED BY ONLY <1>2, <1>3, <2>1, OwnedKept
<1>9. block(o.at) = b
  BY <1>2 DEF payload, block
<1>10. Kept(h2.mem, o)
  BY <1>4, <1>5, <1>6, <1>7, <1>9 DEF Kept
<1>11. Owned(h2.mem, U \cup {b}, L \cup {o})
  BY ONLY <1>1, <1>8, <1>9, <1>10, OwnedMore
<1>12. Shown(h2) = Shown(g)
  BY <1>6 DEF Wrote
<1>13. o \notin L
  BY ONLY <1>1, <1>3, <1>9 DEF Owned
<1> QED BY <1>1, <1>7, <1>11, <1>12, <1>13 DEF Holding

(* A pointer is given back (free).                                         *)
LEMMA Frees ==
  ASSUME NEW h, NEW B, NEW L, Good(h, B), Owned(h.mem, UsedIn(h.mem, B), L), NEW o \in L,
         NEW g, g = Release(h, block(o.at))
  PROVE  Holding(g, L \ {o}) /\ Gives(h, block(o.at), g)
<1>1. PICK c, U : c = block(o.at) /\ U = UsedIn(h.mem, B)
  OBVIOUS
<1>2. c \in U
  BY <1>1 DEF Owned
<1>3. Released(h, B, c, g) /\ Gives(h, c, g)
  BY ONLY <1>1, <1>2, Releases, Good(h, B), g = Release(h, block(o.at))
<1>4. PICK D : Good(g, D) /\ UsedIn(g.mem, D) = U \ {c} /\ KeepsUsed(h.mem, g.mem, U \ {c})
  BY <1>1, <1>3 DEF Released
<1>5. Owned(h.mem, U \ {c}, L \ {o})
  BY <1>1, OwnedLess
<1>6. \A u \in U \ {c} : get_size(h.mem, u) \in Nat
  BY <1>1, UsedWords
<1>7. Owned(g.mem, U \ {c}, L \ {o})
  BY ONLY <1>4, <1>5, <1>6, OwnedKept
<1>8. Gives(h, block(o.at), g)
  BY <1>1, <1>3
<1> QED BY <1>4, <1>7, <1>8 DEF Holding

(* What a block holds is copied to the one at b (realloc).                 *)
LEMMA Copies ==
  ASSUME NEW h, NEW B, Good(h, B), NEW b \in UsedIn(h.mem, B), NEW o, Kept(h.mem, o), block(o.at) \in UsedIn(h.mem, B),
         block(o.at) # b, NEW n \in Nat, n <= get_size(h.mem, b) - 1, n <= get_size(h.mem, block(o.at)) - 1,
         NEW g, g = Copied(h, o.at, payload(b), n)
  PROVE  /\ Wrote(h, B, b, payload(b), n, g)
         /\ \A k \in 0..n - 1 : k < o.size => g.mem[payload(b) + k] = o.data
<1>1. PICK from, to, c, s, t : /\ from = o.at /\ to = payload(b) /\ c = block(o.at) /\ s = get_size(h.mem, b)
                               /\ t = get_size(h.mem, c)
  OBVIOUS
<1>2. /\ h.mem \in Memory /\ MaxHeap \in Nat /\ b \in Nat /\ s \in Nat /\ b + s <= MaxHeap - 1
      /\ t \in Nat /\ c + t <= MaxHeap - 1 /\ c \in Nat
  <2>1. h.mem \in Memory /\ MaxHeap \in Nat
    BY HeapAssumption DEF Good, HeapType
  <2> QED BY <1>1, <2>1, UsedWords
<1>3. from \in Nat /\ c = from - 1 /\ to = b + 1 /\ n <= s - 1 /\ n <= t - 1
  BY <1>1 DEF Kept, block, payload
<1>4. PICK m : m = [w \in 0..MaxHeap - 1 |-> IF w \in Words(to, n) THEN h.mem[from + (w - to)] ELSE h.mem[w]]
  OBVIOUS
<1>5. g = [h EXCEPT !.mem = m]
  <2>1. DOMAIN h.mem = 0..MaxHeap - 1
    BY <1>2 DEF Memory
  <2> QED BY <1>1, <1>4, <2>1 DEF Copied
<1>6. \A k \in 0..n - 1 : to + k \in Words(to, n) /\ to + k \in 0..MaxHeap - 1 /\ from + ((to + k) - to) = from + k
  BY ONLY <1>2, <1>3, n \in Nat DEF Words
<1>7. m \in Memory
  <2>1. ASSUME NEW w \in Words(to, n) PROVE from + (w - to) \in 0..MaxHeap - 1
    BY ONLY <1>2, <1>3, <2>1, n \in Nat DEF Words
  <2> QED BY ONLY <1>2, <1>4, <2>1 DEF Memory
<1>8. \A w \in 0..MaxHeap - 1 : w \notin Words(to, n) => m[w] = h.mem[w]
  BY ONLY <1>4
<1>9. to \in Nat /\ n \in Int /\ to >= b + 1 /\ to + n <= b + get_size(h.mem, b)
  BY <1>1, <1>2, <1>3
<1>10. Wrote(h, B, b, to, n, g) /\ g.mem = m
  BY ONLY <1>5, <1>7, <1>8, <1>9, Write, Good(h, B), b \in UsedIn(h.mem, B)
<1>11. ASSUME NEW k \in 0..n - 1, k < o.size PROVE g.mem[to + k] = o.data
  <2>1. g.mem[to + k] = h.mem[from + k]
    BY <1>4, <1>6, <1>10, <1>11
  <2>2. o.size \in Nat
    BY DEF Kept
  <2>3. from + k \in from..(from + o.size - 1)
    BY ONLY <1>3, <1>11, <2>2
  <2> QED BY <1>1, <2>1, <2>3 DEF Kept, Words
<1> QED BY <1>1, <1>10, <1>11

(* What realloc makes of h once the new block b has been taken in g.       *)
Resized(h, g, o, b, n, h2, o2) ==
  \E copy, kept :
    /\ copy = (IF n < get_payload_size(h.mem, block(o.at)) THEN n ELSE get_payload_size(h.mem, block(o.at)))
    /\ kept = (IF n < o.size THEN n ELSE o.size)
    /\ h2 = Filled(Release(Copied(g, o.at, payload(b), copy), block(o.at)), payload(b) + kept, n - kept, o.data)
    /\ o2 = [at |-> payload(b), size |-> n, data |-> o.data]

(* A pointer is exchanged for one of another size (realloc).               *)
LEMMA Resizes ==
  ASSUME NEW h, NEW B, NEW L, Good(h, B), Owned(h.mem, UsedIn(h.mem, B), L), NEW o \in L,
         NEW b, NEW a, NEW g, Taken(h, B, b, a, g), NEW n \in Nat, a \in Nat, a >= n + 1,
         NEW h2, NEW o2, Resized(h, g, o, b, n, h2, o2)
  PROVE  /\ Holding(h2, (L \ {o}) \cup {o2}) /\ o2 \notin L
         /\ Shown(h2) = SG!Given(Shown(g), Seg(h.mem, block(o.at)))
<1>1. PICK copy, kept :
        /\ copy = (IF n < get_payload_size(h.mem, block(o.at)) THEN n ELSE get_payload_size(h.mem, block(o.at)))
        /\ kept = (IF n < o.size THEN n ELSE o.size)
        /\ h2 = Filled(Release(Copied(g, o.at, payload(b), copy), block(o.at)), payload(b) + kept, n - kept, o.data)
        /\ o2 = [at |-> payload(b), size |-> n, data |-> o.data]
  BY DEF Resized
<1>2. PICK D, U : /\ Good(g, D) /\ UsedIn(g.mem, D) = U \cup {b} /\ U = UsedIn(h.mem, B) /\ b \notin U
                  /\ KeepsUsed(h.mem, g.mem, U) /\ get_size(g.mem, b) >= a
  BY DEF Taken
<1>3. PICK c, old, p, g1, g2, V, M : /\ c = block(o.at) /\ old = get_payload_size(h.mem, c) /\ p = payload(b)
                                     /\ g1 = Copied(g, o.at, p, copy) /\ g2 = Release(g1, c) /\ V = U \ {c} /\ M = L \ {o}
  OBVIOUS
<1>4. Owned(h.mem, U, L) /\ c \in U /\ Kept(h.mem, o) /\ c # b
  BY <1>2, <1>3 DEF Owned
<1>5. /\ b \in Nat /\ b >= 1 /\ get_size(g.mem, b) \in Nat /\ get_size(h.mem, c) \in Nat /\ get_size(h.mem, c) >= 2
      /\ \A u \in U : get_size(g.mem, u) \in Nat /\ get_size(h.mem, u) \in Nat
  <2>1. \A u \in UsedIn(g.mem, D) : u \in Nat /\ u >= 1 /\ get_size(g.mem, u) \in Nat
    BY ONLY <1>2, UsedWords
  <2>2. \A u \in U : get_size(h.mem, u) \in Nat /\ get_size(h.mem, u) >= 2
    BY <1>2, UsedWords
  <2> QED BY <1>2, <1>4, <2>1, <2>2
<1>6. Owned(g.mem, U, L)
  BY ONLY <1>2, <1>4, <1>5, OwnedKept
<1>7. Kept(g.mem, o) /\ get_size(g.mem, c) = get_size(h.mem, c)
  BY <1>2, <1>4, <1>6 DEF Owned, KeepsUsed
<1>8. /\ copy \in Nat /\ kept \in Nat /\ kept <= copy /\ copy <= get_size(g.mem, b) - 1 /\ copy <= get_size(g.mem, c) - 1
      /\ kept <= n /\ kept <= o.size /\ p = b + 1 /\ o.size \in Nat /\ o.data \in Int
  <2>1. PICK k, s, t : k = o.size /\ s = get_size(g.mem, b) /\ t = get_size(h.mem, c)
    OBVIOUS
  <2>2. /\ k \in Nat /\ k <= t - 1 /\ old = t - 1 /\ t \in Nat /\ t >= 2 /\ s \in Nat /\ s >= a /\ get_size(g.mem, c) = t
        /\ o.data \in Int
    BY <1>2, <1>3, <1>4, <1>5, <1>7, <2>1 DEF Kept, get_payload_size
  <2>3. copy = (IF n < old THEN n ELSE old) /\ kept = (IF n < k THEN n ELSE k)
    BY <1>1, <1>3, <2>1
  <2>4. copy \in Nat /\ kept \in Nat /\ kept <= copy /\ copy <= s - 1 /\ copy <= t - 1 /\ kept <= n /\ kept <= k
    BY ONLY <2>2, <2>3, n \in Nat, a \in Nat, a >= n + 1
  <2> QED BY <1>3, <2>1, <2>2, <2>4 DEF payload
<1>9. Wrote(g, D, b, p, copy, g1) /\ \A k \in 0..copy - 1 : k < o.size => g1.mem[p + k] = o.data
  <2>1. b \in UsedIn(g.mem, D) /\ block(o.at) \in UsedIn(g.mem, D) /\ block(o.at) # b
    BY <1>2, <1>3, <1>4
  <2>2. copy <= get_size(g.mem, block(o.at)) - 1 /\ g1 = Copied(g, o.at, payload(b), copy)
    BY <1>3, <1>8
  <2>3. /\ Wrote(g, D, b, payload(b), copy, g1)
        /\ \A k \in 0..copy - 1 : k < o.size => g1.mem[payload(b) + k] = o.data
    BY ONLY <1>2, <1>7, <1>8, <2>1, <2>2, Copies
  <2> QED BY <1>3, <2>3
<1>10. /\ Good(g1, D) /\ UsedIn(g1.mem, D) = U \cup {b} /\ KeepsUsed(g.mem, g1.mem, U)
      /\ get_size(g1.mem, b) = get_size(g.mem, b)
  <2>1. (U \cup {b}) \ {b} = U
    BY <1>2
  <2> QED BY <1>2, <1>9, <2>1 DEF Wrote
<1>11. Owned(g1.mem, V, M)
  <2>1. Owned(g1.mem, U, L)
    BY ONLY <1>5, <1>6, <1>10, OwnedKept
  <2> QED BY <1>3, <2>1, OwnedLess
<1>12. PICK o1 : o1 = [at |-> p, size |-> kept, data |-> o.data]
  OBVIOUS
<1>13. block(o1.at) = b /\ block(p) = b /\ Kept(g1.mem, o1)
  <2>1. block(o1.at) = b
    BY <1>5, <1>8, <1>12 DEF block
  <2>2. ASSUME NEW w \in p..(p + kept - 1) PROVE g1.mem[w] = o.data
    <3>1. PICK k : k = w - p
      OBVIOUS
    <3>2. k \in 0..copy - 1 /\ k < o.size /\ p + k = w
      BY ONLY <1>5, <1>8, <2>2, <3>1
    <3> QED BY <1>9, <3>2
  <2>3. kept <= get_size(g1.mem, b) - 1
    BY <1>5, <1>8, <1>10
  <2>4. block(p) = b
    BY <1>12, <2>1
  <2> QED BY <1>5, <1>8, <1>12, <2>1, <2>2, <2>3, <2>4 DEF Kept, Words
<1>14. Released(g1, D, c, g2) /\ Gives(g1, c, g2)
  <2>1. c \in UsedIn(g1.mem, D)
    BY <1>4, <1>10
  <2> QED BY ONLY <1>3, <1>10, <2>1, Releases
<1>15. PICK G, W : Good(g2, G) /\ UsedIn(g2.mem, G) = W /\ KeepsUsed(g1.mem, g2.mem, W) /\ W = (U \cup {b}) \ {c}
  BY <1>10, <1>14 DEF Released
<1>16. /\ b \in W /\ W \ {b} = V /\ V \cup {b} = W /\ b \notin V
       /\ \A u \in W : get_size(g1.mem, u) \in Nat /\ get_size(g2.mem, u) \in Nat
  <2>1. b \in W /\ W \ {b} = V /\ V \cup {b} = W /\ b \notin V
    BY <1>2, <1>3, <1>4, <1>15
  <2>2. \A u \in UsedIn(g1.mem, D) : get_size(g1.mem, u) \in Nat
    BY <1>10, UsedWords
  <2>3. \A u \in UsedIn(g2.mem, G) : get_size(g2.mem, u) \in Nat
    BY <1>15, UsedWords
  <2> QED BY <1>10, <1>15, <2>1, <2>2, <2>3
<1>17. Owned(g2.mem, V, M) /\ Kept(g2.mem, o1) /\ get_size(g2.mem, b) = get_size(g.mem, b)
  <2>1. KeepsUsed(g1.mem, g2.mem, V)
    BY <1>15, <1>16 DEF KeepsUsed
  <2>2. Owned(g2.mem, V, M)
    <3>1. \A u \in V : get_size(g1.mem, u) \in Nat
      BY <1>16
    <3> QED BY ONLY <1>11, <2>1, <3>1, OwnedKept
  <2>3. Kept(g2.mem, o1)
    <3>1. block(o1.at) \in W /\ get_size(g1.mem, block(o1.at)) \in Nat
      BY <1>13, <1>16
    <3> QED BY ONLY <1>13, <1>15, <3>1, KeptKept
  <2>4. get_size(g2.mem, b) = get_size(g.mem, b)
    BY <1>10, <1>15, <1>16 DEF KeepsUsed
  <2> QED BY <2>2, <2>3, <2>4
<1>18. PICK q, r : q = p + kept /\ r = n - kept
  OBVIOUS
<1>19. /\ q \in Nat /\ r \in Int /\ q >= b + 1 /\ q + r <= b + get_size(g2.mem, b) /\ q + r = p + n
       /\ n <= get_size(g2.mem, b) - 1
  <2>1. PICK s : s = get_size(g2.mem, b)
    OBVIOUS
  <2>2. s \in Nat /\ s >= a
    BY <1>2, <1>5, <1>17, <2>1
  <2>3. q \in Nat /\ r \in Int /\ q >= b + 1 /\ q + r <= b + s /\ q + r = p + n /\ n <= s - 1
    BY ONLY <1>5, <1>8, <1>18, <2>2, n \in Nat, a \in Nat, a >= n + 1
  <2> QED BY <2>1, <2>3
<1>20. Wrote(g2, G, b, q, r, h2) /\ \A w \in Words(q, r) : h2.mem[w] = o.data
  <2>1. h2 = Filled(g2, q, r, o.data) /\ b \in UsedIn(g2.mem, G)
    BY <1>1, <1>3, <1>15, <1>16, <1>18
  <2> QED BY ONLY <1>8, <1>15, <1>19, <2>1, Fills
<1>21. /\ Good(h2, G) /\ UsedIn(h2.mem, G) = W /\ KeepsUsed(g2.mem, h2.mem, V)
       /\ get_size(h2.mem, b) = get_size(g2.mem, b)
       /\ \A w \in 0..MaxHeap - 1 : w \notin Words(q, r) => h2.mem[w] = g2.mem[w]
  <2>1. /\ Good(h2, G) /\ UsedIn(h2.mem, G) = UsedIn(g2.mem, G) /\ KeepsUsed(g2.mem, h2.mem, UsedIn(g2.mem, G) \ {b})
        /\ get_size(h2.mem, b) = get_size(g2.mem, b)
        /\ \A w \in 0..MaxHeap - 1 : w \notin Words(q, r) => h2.mem[w] = g2.mem[w]
    BY ONLY <1>20 DEF Wrote
  <2> QED BY <1>15, <1>16, <2>1
<1>22. Owned(h2.mem, V, M)
  <2>1. \A u \in V : get_size(g2.mem, u) \in Nat
    BY <1>16
  <2> QED BY ONLY <1>17, <1>21, <2>1, OwnedKept
<1>23. block(o2.at) = b /\ Kept(h2.mem, o2)
  <2>1. block(o2.at) = b
    BY <1>1, <1>3, <1>13
  <2>2. ASSUME NEW w \in p..(p + n - 1) PROVE h2.mem[w] = o.data
    <3>1. CASE w \in Words(q, r)
      BY <1>20, <3>1
    <3>2. CASE w \notin Words(q, r)
      <4>1. w \in p..(p + kept - 1)
        BY ONLY <1>5, <1>8, <1>18, <1>19, <2>2, <3>2, n \in Nat DEF Words
      <4>2. g2.mem[w] = o.data
        BY <1>12, <1>17, <4>1 DEF Kept, Words
      <4>3. w \in 0..MaxHeap - 1
        <5>1. PICK s : s = get_size(g2.mem, b)
          OBVIOUS
        <5>2. s \in Nat /\ b + s <= MaxHeap - 1 /\ MaxHeap \in Nat /\ q + r <= b + s
          BY <1>15, <1>16, <1>19, <5>1, UsedWords, HeapAssumption
        <5> QED BY ONLY <1>5, <1>8, <1>19, <2>2, <5>2, n \in Nat
      <4> QED BY <1>21, <3>2, <4>2, <4>3
    <3> QED BY <3>1, <3>2
  <2>3. o2.at = p /\ o2.size = n /\ o2.data = o.data /\ p \in Nat
    BY <1>1, <1>3, <1>5, <1>8
  <2>4. n <= get_size(h2.mem, block(o2.at)) - 1
    BY <1>19, <1>21, <2>1
  <2>5. Kept(h2.mem, o2)
    BY ONLY <1>8, <2>2, <2>3, <2>4, n \in Nat DEF Kept, Words
  <2> QED BY <2>1, <2>5
<1>24. Owned(h2.mem, W, M \cup {o2})
  <2>1. Owned(h2.mem, V \cup {b}, M \cup {o2})
    BY ONLY <1>16, <1>22, <1>23, OwnedMore
  <2> QED BY <1>16, <2>1
<1>25. Shown(h2) = SG!Given(Shown(g), Seg(h.mem, c))
  <2>1. Shown(h2) = Shown(g2) /\ Shown(g1) = Shown(g)
    BY <1>9, <1>20 DEF Wrote
  <2>2. Seg(g1.mem, c) = Seg(h.mem, c)
    <3>1. get_size(g1.mem, c) = get_size(h.mem, c)
      BY <1>4, <1>7, <1>10 DEF KeepsUsed
    <3>2. get_alloc(g1.mem, c) /\ get_alloc(h.mem, c)
      BY <1>2, <1>4, <1>10 DEF UsedIn
    <3>3. get_alloc(g1.mem, c) = get_alloc(h.mem, c)
      BY <3>2, Zenon DEF get_alloc, extract_alloc
    <3> QED BY <3>1, <3>3, Zenon DEF Seg
  <2> QED BY ONLY <1>14, <2>1, <2>2 DEF Gives
<1>26. o2 \notin L
  BY ONLY <1>2, <1>4, <1>23 DEF Owned
<1> QED BY <1>3, <1>21, <1>24, <1>25, <1>26 DEF Holding

-----------------------------------------------------------------------------
(* A good heap is consistent. *)

(* Blocks and Free are the blocks of the tiling.                           *)
LEMMA BlocksAre ==
  ASSUME NEW B, Good(heap, B)
  PROVE  /\ Walk = B \cup {Epilogue} /\ Blocks = B /\ Epilogue \notin B
         /\ Free = FreeIn(heap.mem, B) /\ Blocks \ Free = UsedIn(heap.mem, B)
<1>1. Tiled(heap.mem, heap.brk, B)
  BY DEF Good
<1>2. Walk = B \cup {Epilogue} /\ Epilogue \notin B
  <2>1. Walk = Walked(Follow(heap))
    BY DEF Walk, Walked, Follow
  <2> QED BY <1>1, <2>1, WalkMeetsBlocks DEF Epilogue
<1>3. Epilogue \notin B
  BY <1>2
<1>4. Blocks = B
  BY <1>2, <1>3 DEF Blocks
<1>5. Free = FreeIn(heap.mem, B)
  BY <1>4 DEF Free, FreeIn
<1>6. Blocks \ Free = UsedIn(heap.mem, B)
  BY <1>4, <1>5 DEF FreeIn, UsedIn
<1> QED BY <1>2, <1>3, <1>4, <1>5, <1>6

(* A good heap has tags that agree.                                        *)
LEMMA GoodTags ==
  ASSUME NEW B, Good(heap, B)
  PROVE  TagsAgree
<1>1. Tiled(heap.mem, heap.brk, B) /\ Tagged(heap.mem, B, {}) /\ Merged(heap.mem, B, {})
  BY DEF Good
<1>2. Walk = B \cup {Epilogue} /\ Blocks = B
  BY BlocksAre
<1>3. Walk \subseteq heap_start..Epilogue /\ Epilogue \in Walk
  <2>1. heap.brk \in Nat /\ heap.brk >= 2 /\ \A b \in B : b \in Nat /\ b > 0 /\ b <= heap.brk - 2
    BY <1>1, TiledApart DEF Apart
  <2>2. \A b \in B : b \in heap_start..Epilogue
    BY ONLY <2>1 DEF heap_start, Epilogue
  <2>3. Epilogue \in heap_start..Epilogue
    BY ONLY <2>1 DEF heap_start, Epilogue
  <2> QED BY <1>2, <2>2, <2>3
<1>4. get_size(heap.mem, Epilogue) = 0 /\ get_alloc(heap.mem, Epilogue)
  BY <1>1 DEF Tiled, Epilogue
<1> DEFINE Agrees(b) ==
       LET n == find_next(heap.mem, b)
       IN  /\ get_prev_alloc(heap.mem, n) = get_alloc(heap.mem, b)
           /\ ~get_alloc(heap.mem, b) =>
                /\ get_prev_mini(heap.mem, n) = (get_size(heap.mem, b) = min_block_size)
                /\ get_size(heap.mem, b) # min_block_size =>
                     extract_size(heap.mem[header_to_footer(heap.mem, b)]) = get_size(heap.mem, b)
                /\ get_alloc(heap.mem, n)
<1>5. ASSUME NEW b \in B PROVE Agrees(b)
  <2>1. Told(heap.mem, b) /\ Footed(heap.mem, b)
    BY <1>1 DEF Tagged
  <2>2. ~get_alloc(heap.mem, b) => get_alloc(heap.mem, find_next(heap.mem, b))
    BY <1>1 DEF Merged
  <2>3. min_block_size = 2
    BY DEF min_block_size, dsize
  <2> QED BY <2>1, <2>2, <2>3, Zenon DEF Told, Footed, SaysFree
<1>6. \A b \in Blocks : Agrees(b)
  BY <1>2, <1>5
<1> QED BY <1>3, <1>4, <1>6 DEF TagsAgree

(* A good heap has lists that hold its free blocks.                        *)
LEMMA GoodLists ==
  ASSUME NEW B, Good(heap, B)
  PROVE  ListsHoldFree
<1>1. PICK F : F = FreeIn(heap.mem, B)
  OBVIOUS
<1>2. Tiled(heap.mem, heap.brk, B) /\ Listed(heap.mem, heap.seg_list, F)
  BY <1>1 DEF Good
<1>3. Free = F /\ F \subseteq B
  BY <1>1, BlocksAre DEF FreeIn
<1> DEFINE Sound(i) ==
        LET list == FreeList(heap, i)
        IN  /\ ToSet(list) = {b \in F : get_index(get_size(heap.mem, b)) = i}
            /\ IsInjective(list)
            /\ i # 0 => \A k \in DOMAIN list :
                 heap.mem[prev(list[k])] = IF k = 1 THEN NULL ELSE list[k - 1]
<1>4. ASSUME NEW i \in Lists PROVE Sound(i)
  <2>1. PICK n \in Nat : \E c \in [1..n -> F] :
          Chained(heap.mem, heap.seg_list[i], i, n, c) /\ Members(n, c) = Class(heap.mem, F, i)
    BY <1>2 DEF Listed, Holds
  <2>2. PICK c \in [1..n -> F] :
          Chained(heap.mem, heap.seg_list[i], i, n, c) /\ Members(n, c) = Class(heap.mem, F, i)
    BY <2>1
  <2>3. FreeList(heap, i) = c
    <3>1. c \in [1..n -> B]
      BY <1>3, <2>2
    <3> QED BY <1>2, <2>2, <3>1, FreeListOf
  <2>4. DOMAIN c = 1..n
    BY <2>2
  <2>5. ToSet(c) = {b \in F : get_index(get_size(heap.mem, b)) = i}
    BY <2>2, <2>4 DEF ToSet, Members, Class
  <2>6. IsInjective(c)
    BY <2>2, <2>4 DEF IsInjective, Chained, Different
  <2>7. i # 0 => \A k \in DOMAIN c : heap.mem[prev(c[k])] = IF k = 1 THEN NULL ELSE c[k - 1]
    BY <2>2, <2>4 DEF Chained
  <2> QED BY <2>3, <2>5, <2>6, <2>7
<1> QED BY <1>3, <1>4 DEF ListsHoldFree

(* Pointers that are owned keep their payloads.                            *)
LEMMA OwnedIntact ==
  ASSUME NEW B, Good(heap, B), Owned(heap.mem, UsedIn(heap.mem, B), live)
  PROVE  PayloadIntact
<1>1. Blocks \ Free = {block(o.at) : o \in live}
  BY BlocksAre DEF Owned
<1>2. ASSUME NEW o \in live
      PROVE  /\ o.size <= get_payload_size(heap.mem, block(o.at))
             /\ \A w \in Words(o.at, o.size) : heap.mem[w] = o.data
  <2>1. Kept(heap.mem, o)
    BY DEF Owned
  <2> QED BY <2>1 DEF Kept, get_payload_size
<1> QED BY <1>1, <1>2 DEF PayloadIntact

-----------------------------------------------------------------------------
(* Requests. *)

(* No request is so large that the sums of adjusted wrap.                  *)
NoWrap == \A size \in Asked : size + 2 < size_limit

(* A request gets room for its header too, in whole pairs of words.        *)
LEMMA Adjusted ==
  ASSUME NoWrap, NEW n \in Asked
  PROVE  n \in Nat /\ adjusted(n) \in Nat /\ adjusted(n) % 2 = 0 /\ adjusted(n) >= 2 /\ adjusted(n) >= n + 1
<1>1. size_limit \in Nat /\ size_limit > 0 /\ size_limit - 1 \in Int
  BY MallocAssumption, HeapAssumption
<1>2. n \in Nat /\ n + 2 < size_limit
  <2>1. CASE n \in Requests
    BY <1>1, <2>1, MallocAssumption DEF NoWrap
  <2>2. CASE \E array \in Arrays : n = product(array[1], array[2])
    <3>1. PICK array \in Arrays : n = product(array[1], array[2])
      BY <2>2
    <3>2. PICK e, s : e = array[1] /\ s = array[2]
      OBVIOUS
    <3>3. e \in Nat /\ s \in Nat
      BY <1>1, <3>2, MallocAssumption
    <3>4. PICK y : y = e * s
      OBVIOUS
    <3>5. y \in Int
      BY ONLY <3>3, <3>4
    <3>6. n = y % size_limit
      BY <3>1, <3>2, <3>4 DEF product
    <3>7. n \in Nat
      BY ONLY <1>1, <3>5, <3>6
    <3> QED BY <3>7 DEF NoWrap
  <2> QED BY <2>1, <2>2 DEF Asked
<1>3. PICK x : x = (n + 1) % size_limit
  OBVIOUS
<1>4. x = n + 1
  BY ONLY <1>1, <1>2, <1>3
<1>5. PICK y : y = (x + 1) % size_limit
  OBVIOUS
<1>6. y = n + 2
  BY ONLY <1>1, <1>2, <1>4, <1>5
<1>7. adjusted(n) = 2 * (y \div 2)
  BY <1>1, <1>3, <1>4, <1>5 DEF adjusted, dsize
<1> QED BY ONLY <1>2, <1>6, <1>7

(* The division of calloc notices every product that wraps.                *)
LEMMA ExactProduct ==
  ASSUME NEW e \in Nat, NEW s \in Nat, e # 0, ~overflows(e, s)
  PROVE  product(e, s) = e * s
<1>1. PICK y, x, L : y = e * s /\ x = product(e, s) /\ L = size_limit
  OBVIOUS
<1>2. L \in Nat /\ L > 0
  BY <1>1, MallocAssumption, HeapAssumption
<1>3. y \in Nat
  BY ONLY <1>1, e \in Nat, s \in Nat
<1>4. x = y % L /\ x \div e = s
  BY <1>1 DEF product, overflows
<1>5. x \in Nat /\ x <= y
  BY ONLY <1>2, <1>3, <1>4
<1>6. e * s <= x
  BY ONLY <1>4, <1>5, e \in Nat, e # 0, s \in Nat
<1>7. x = y
  BY ONLY <1>1, <1>3, <1>5, <1>6
<1> QED BY <1>1, <1>7

-----------------------------------------------------------------------------
(* What a call does to the segments. *)

LEMMA SegmentsAre ==
  {Segment(b) : b \in Blocks} = Shown(heap)
BY DEF Segment, Seg, Segs, Blocks, Walk, Epilogue, Shown, Walked, Follow

LEMMA SegmentsBecome ==
  {Segment(b) : b \in Blocks}' = Shown(heap')
BY DEF Segment, Seg, Segs, Blocks, Walk, Epilogue, Shown, Walked, Follow

(* The step of Segments that the pointers handed out and given back tell.  *)
SegmentStep ==
  LET new == live' \ live
      old == live \ live'
  IN  /\ old = {} => \A p \in new : SG!Malloc(adjusted(p.size))
      /\ \A g \in old :
           IF new = {} THEN SG!Free(Segment(block(g.at)))
           ELSE \A p \in new : SG!Realloc(Segment(block(g.at)), adjusted(p.size))

LEMMA StepStays ==
  ASSUME live' = live
  PROVE  SegmentStep
BY DEF SegmentStep

LEMMA StepTakes ==
  ASSUME NEW o, live' = live \cup {o}, NEW g, Shown(heap') = Shown(g), Allots(heap, adjusted(o.size), g)
  PROVE  SegmentStep
<1>1. \A p \in live' \ live : p = o
  OBVIOUS
<1>2. live \ live' = {}
  OBVIOUS
<1>3. SG!Malloc(adjusted(o.size))
  <2>1. Shown(heap') \in SG!After(Shown(heap), adjusted(o.size))
    BY DEF Allots
  <2> QED BY <2>1, SegmentsAre, SegmentsBecome DEF SG!Malloc
<1> QED BY <1>1, <1>2, <1>3 DEF SegmentStep

(* A pointer of the program is to a used segment.                          *)
LEMMA OwnedSegment ==
  ASSUME NEW B, Good(heap, B), Owned(heap.mem, UsedIn(heap.mem, B), live), NEW o \in live
  PROVE  /\ Segment(block(o.at)) \in Shown(heap) /\ Segment(block(o.at)).used
         /\ Segment(block(o.at)) = Seg(heap.mem, block(o.at))
<1>1. PICK b : b = block(o.at)
  OBVIOUS
<1>2. b \in B /\ get_alloc(heap.mem, b)
  BY <1>1 DEF Owned, UsedIn
<1>3. Shown(heap) = Segs(heap.mem, B)
  BY WalkMeetsBlocks DEF Good
<1>4. Segment(b) = Seg(heap.mem, b)
  BY DEF Segment, Seg
<1>5. Segment(b).used
  BY <1>2 DEF Segment
<1>6. Segment(b) \in Shown(heap)
  BY <1>2, <1>3, <1>4 DEF Segs
<1> QED BY <1>1, <1>4, <1>5, <1>6

LEMMA StepGives ==
  ASSUME NEW B, Good(heap, B), Owned(heap.mem, UsedIn(heap.mem, B), live), NEW o \in live,
         live' = live \ {o}, Gives(heap, block(o.at), heap')
  PROVE  SegmentStep
<1>1. live' \ live = {} /\ \A g \in live \ live' : g = o
  OBVIOUS
<1>2. o \in live \ live'
  OBVIOUS
<1>3. SG!Free(Segment(block(o.at)))
  <2>1. Shown(heap') = SG!Given(Shown(heap), Segment(block(o.at)))
    BY OwnedSegment DEF Gives
  <2> QED BY <2>1, OwnedSegment, SegmentsAre, SegmentsBecome DEF SG!Free
<1> QED BY <1>1, <1>2, <1>3 DEF SegmentStep

LEMMA StepMoves ==
  ASSUME NEW B, Good(heap, B), Owned(heap.mem, UsedIn(heap.mem, B), live), NEW o \in live,
         NEW p, p \notin live, live' = (live \ {o}) \cup {p}, NEW g, Allots(heap, adjusted(p.size), g),
         Shown(heap') = SG!Given(Shown(g), Seg(heap.mem, block(o.at)))
  PROVE  SegmentStep
<1>1. live' \ live = {p} /\ live \ live' = {o}
  OBVIOUS
<1>2. SG!Realloc(Segment(block(o.at)), adjusted(p.size))
  <2>1. Shown(g) \in SG!After(Shown(heap), adjusted(p.size))
    BY DEF Allots
  <2>2. Shown(heap') = SG!Given(Shown(g), Segment(block(o.at)))
    BY OwnedSegment
  <2> QED BY <2>1, <2>2, OwnedSegment, SegmentsAre, SegmentsBecome DEF SG!Realloc
<1> QED BY <1>1, <1>2 DEF SegmentStep

-----------------------------------------------------------------------------
(* The invariant: the heap is good, and the program owns its used blocks. *)
HeapInvariant == Holding(heap, live)

LEMMA InitHolds ==
  Init => HeapInvariant
<1> SUFFICES ASSUME Init PROVE HeapInvariant
  OBVIOUS
<1>1. heap = mm_init /\ live = {}
  BY DEF Init
<1>2. PICK B : Good(heap, B) /\ UsedIn(heap.mem, B) = {}
  BY <1>1, InitHeap
<1>3. Owned(heap.mem, UsedIn(heap.mem, B), live)
  BY <1>1, <1>2 DEF Owned
<1> QED BY <1>2, <1>3 DEF HeapInvariant, Holding

(* What malloc and calloc do with a size that is not 0.                    *)
LEMMA HandOutHolds ==
  ASSUME NoWrap, HeapInvariant, NEW n \in Asked, NEW data \in Int, HandOut(Allocate(heap, n), n, data)
  PROVE  HeapInvariant' /\ SegmentStep
<1>1. PICK r, a : r = Allocate(heap, n) /\ a = adjusted(n)
  OBVIOUS
<1>2. n \in Nat /\ a \in Nat /\ a % 2 = 0 /\ a >= 2 /\ a >= n + 1
  BY <1>1, Adjusted
<1>3. PICK B : Good(heap, B) /\ Owned(heap.mem, UsedIn(heap.mem, B), live)
  BY DEF HeapInvariant, Holding
<1>4. \/ r = [heap |-> heap, block |-> NULL]
      \/ Taken(heap, B, r.block, a, r.heap) /\ Allots(heap, a, r.heap)
  BY ONLY <1>1, <1>2, <1>3, Allocates
<1>5. CASE r.block = NULL
  <2>1. heap' = heap /\ live' = live
    BY <1>1, <1>5 DEF HandOut, vars
  <2> QED BY <2>1, StepStays DEF HeapInvariant
<1>6. CASE r.block # NULL
  <2>1. Taken(heap, B, r.block, a, r.heap) /\ Allots(heap, a, r.heap)
    BY <1>4, <1>6
  <2>2. PICK b, g, o : /\ b = r.block /\ g = r.heap /\ o = [at |-> payload(b), size |-> n, data |-> data]
    OBVIOUS
  <2>3. heap' = Filled(g, payload(b), n, data) /\ live' = live \cup {o}
    BY <1>1, <1>6, <2>2 DEF HandOut
  <2>4. Taken(heap, B, b, a, g) /\ o = [at |-> payload(b), size |-> n, data |-> data]
    BY <2>1, <2>2
  <2>5. PICK h2 : h2 = Filled(g, payload(b), n, data)
    OBVIOUS
  <2>6. Holding(h2, live \cup {o}) /\ Shown(h2) = Shown(g)
    BY ONLY <1>2, <1>3, <2>4, <2>5, HandsOut, data \in Int
  <2>7. SegmentStep
    <3>1. Allots(heap, adjusted(o.size), g)
      BY <1>1, <2>1, <2>2
    <3>2. Shown(heap') = Shown(g)
      BY <2>3, <2>5, <2>6
    <3> QED BY ONLY <2>3, <3>1, <3>2, StepTakes
  <2> QED BY <2>3, <2>5, <2>6, <2>7 DEF HeapInvariant
<1> QED BY <1>5, <1>6

LEMMA MallocHolds ==
  ASSUME NoWrap, HeapInvariant, NEW size \in Requests, malloc(size)
  PROVE  HeapInvariant' /\ SegmentStep
<1>1. CASE size = 0
  BY <1>1, StepStays DEF malloc, vars, HeapInvariant
<1>2. CASE size # 0
  <2>1. size \in Asked
    BY <1>2 DEF Asked
  <2>2. HandOut(Allocate(heap, size), size, USER)
    BY <1>2 DEF malloc
  <2>3. USER \in Int
    BY MallocAssumption
  <2> QED BY <2>1, <2>2, <2>3, HandOutHolds
<1> QED BY <1>1, <1>2

LEMMA CallocHolds ==
  ASSUME NoWrap, HeapInvariant, NEW array \in Arrays, calloc(array[1], array[2])
  PROVE  HeapInvariant' /\ SegmentStep
<1>1. PICK e, s : e = array[1] /\ s = array[2]
  OBVIOUS
<1>2. e \in Nat /\ s \in Nat
  <2>1. size_limit - 1 \in Int
    BY MallocAssumption
  <2> QED BY <1>1, <2>1, MallocAssumption
<1>3. calloc(e, s)
  BY <1>1
<1>4. CASE e = 0 \/ overflows(e, s) \/ product(e, s) = 0
  BY <1>3, <1>4, StepStays DEF calloc, vars, HeapInvariant
<1>5. CASE e # 0 /\ ~overflows(e, s) /\ product(e, s) # 0
  <2>1. product(e, s) = e * s
    BY <1>2, <1>5, ExactProduct
  <2>2. HandOut(Allocate(heap, product(e, s)), product(e, s), 0)
    BY <1>3, <1>5, <2>1 DEF calloc
  <2>3. product(e, s) \in Asked
    BY <1>1, <1>5 DEF Asked
  <2> QED BY <2>2, <2>3, HandOutHolds
<1> QED BY <1>4, <1>5

LEMMA FreeHolds ==
  ASSUME HeapInvariant, NEW owned \in live, free(owned)
  PROVE  HeapInvariant' /\ SegmentStep
<1>1. PICK B : Good(heap, B) /\ Owned(heap.mem, UsedIn(heap.mem, B), live)
  BY DEF HeapInvariant, Holding
<1>2. heap' = Release(heap, block(owned.at)) /\ live' = live \ {owned}
  BY DEF free
<1>3. PICK g : g = Release(heap, block(owned.at))
  OBVIOUS
<1>4. Holding(g, live \ {owned}) /\ Gives(heap, block(owned.at), g)
  BY ONLY <1>1, <1>3, Frees, owned \in live
<1>5. SegmentStep
  <2>1. Gives(heap, block(owned.at), heap')
    BY <1>2, <1>3, <1>4
  <2> QED BY ONLY <1>1, <1>2, <2>1, owned \in live, StepGives
<1> QED BY <1>2, <1>3, <1>4, <1>5 DEF HeapInvariant

LEMMA ReallocHolds ==
  ASSUME NoWrap, HeapInvariant, NEW owned \in live, NEW size \in Requests, realloc(owned, size)
  PROVE  HeapInvariant' /\ SegmentStep
<1>1. CASE size = 0
  BY <1>1, FreeHolds DEF realloc
<1>2. CASE size # 0
  <2>1. Resize(owned, size) /\ size \in Asked
    BY <1>2 DEF realloc, Asked
  <2>2. PICK r, a, B : /\ r = Allocate(heap, size) /\ a = adjusted(size)
                       /\ Good(heap, B) /\ Owned(heap.mem, UsedIn(heap.mem, B), live)
    BY DEF HeapInvariant, Holding
  <2>3. size \in Nat /\ a \in Nat /\ a % 2 = 0 /\ a >= 2 /\ a >= size + 1
    BY <2>1, <2>2, Adjusted
  <2>4. \/ r = [heap |-> heap, block |-> NULL]
        \/ Taken(heap, B, r.block, a, r.heap) /\ Allots(heap, a, r.heap)
    BY ONLY <2>2, <2>3, Allocates
  <2>5. CASE r.block = NULL
    <3>1. heap' = heap /\ live' = live
      BY <2>1, <2>2, <2>5 DEF Resize, vars
    <3> QED BY <3>1, StepStays DEF HeapInvariant
  <2>6. CASE r.block # NULL
    <3>1. PICK b, g, h2, o2 : /\ b = r.block /\ g = r.heap /\ h2 = heap'
                              /\ o2 = [at |-> payload(b), size |-> size, data |-> owned.data]
      OBVIOUS
    <3>2. Taken(heap, B, b, a, g) /\ Allots(heap, a, g)
      BY <2>4, <2>6, <3>1
    <3>3. live' = (live \ {owned}) \cup {o2}
      BY <2>1, <2>2, <2>6, <3>1 DEF Resize
    <3>4. Resized(heap, g, owned, b, size, h2, o2)
      BY <2>1, <2>2, <2>6, <3>1 DEF Resize, Resized
    <3>5. /\ Holding(h2, (live \ {owned}) \cup {o2}) /\ o2 \notin live
          /\ Shown(h2) = SG!Given(Shown(g), Seg(heap.mem, block(owned.at)))
      BY ONLY <2>2, <2>3, <3>2, <3>4, Resizes, owned \in live
    <3>6. SegmentStep
      <4>1. Allots(heap, adjusted(o2.size), g)
        BY <2>2, <3>1, <3>2
      <4>2. Shown(heap') = SG!Given(Shown(g), Seg(heap.mem, block(owned.at)))
        BY <3>1, <3>5
      <4> QED BY ONLY <2>2, <3>3, <3>5, <4>1, <4>2, owned \in live, StepMoves
    <3> QED BY <3>1, <3>3, <3>5, <3>6 DEF HeapInvariant
  <2> QED BY <2>5, <2>6
<1> QED BY <1>1, <1>2

(* A step keeps the invariant, and is one of Segments.                     *)
LEMMA StepHolds ==
  NoWrap /\ HeapInvariant /\ [Next]_vars => HeapInvariant' /\ [SegmentStep]_vars
<1> SUFFICES ASSUME NoWrap, HeapInvariant, [Next]_vars PROVE HeapInvariant' /\ [SegmentStep]_vars
  OBVIOUS
<1>1. CASE UNCHANGED vars
  BY <1>1 DEF vars, HeapInvariant
<1>2. CASE \E size \in Requests : malloc(size)
  BY <1>2, MallocHolds
<1>3. CASE \E array \in Arrays : calloc(array[1], array[2])
  BY <1>3, CallocHolds
<1>4. CASE \E owned \in live : free(owned)
  BY <1>4, FreeHolds
<1>5. CASE \E owned \in live : \E size \in Requests : realloc(owned, size)
  BY <1>5, ReallocHolds
<1> QED BY <1>1, <1>2, <1>3, <1>4, <1>5 DEF Next

(* Between calls the heap is good and the program owns exactly its used    *)
(* blocks, whatever the memory, the lists and the requests (mm_init,       *)
(* malloc, free, realloc, calloc).                                         *)
THEOREM HeapStaysGood ==
  NoWrap /\ Spec => []HeapInvariant
<1> SUFFICES ASSUME NoWrap PROVE Spec => []HeapInvariant
  OBVIOUS
<1>1. Init => HeapInvariant
  BY InitHolds
<1>2. HeapInvariant /\ [Next]_vars => HeapInvariant'
  BY StepHolds
<1> QED BY <1>1, <1>2, PTL DEF Spec

(* The tags agree and the lists hold the free blocks, each once and linked *)
(* both ways, after any calls that do not wrap (mm.c).                     *)
THEOREM HeapStaysConsistent ==
  NoWrap /\ Spec => []HeapConsistent
<1>1. HeapInvariant => HeapConsistent
  BY GoodTags, GoodLists DEF HeapInvariant, Holding, HeapConsistent
<1> QED BY <1>1, HeapStaysGood, PTL

(* The program finds what it stored in blocks as large as it asked for     *)
(* (malloc, realloc, calloc).                                              *)
THEOREM PayloadsStay ==
  NoWrap /\ Spec => []PayloadIntact
<1>1. HeapInvariant => PayloadIntact
  BY OwnedIntact DEF HeapInvariant, Holding
<1> QED BY <1>1, HeapStaysGood, PTL

(* Whatever the tags and lists look like, the heap starts, and every call  *)
(* takes, splits, merges and grows segments, as Segments says for the size *)
(* it was asked for (mm_init, malloc, free, realloc, calloc).              *)
THEOREM SegmentsRefined ==
  NoWrap /\ Spec => ImplementsSegments
<1> SUFFICES ASSUME NoWrap PROVE Spec => ImplementsSegments
  OBVIOUS
<1>1. Init => SG!Init
  BY InitHeap, SegmentsAre DEF Init, SG!Init
<1>2. HeapInvariant /\ [Next]_vars => [SegmentStep]_vars
  BY StepHolds
<1>3. Spec => [][SegmentStep]_vars
  BY <1>2, HeapStaysGood, PTL DEF Spec
<1> QED BY <1>1, <1>3, PTL DEF Spec, ImplementsSegments, SegmentStep

-----------------------------------------------------------------------------
(* A refused request. *)

(* A request that gets no block finds no segment and no room.              *)
LEMMA RefusedWhenFull ==
  ASSUME NEW B, Good(heap, B), NEW n, NEW a \in Nat, a = adjusted(n), a % 2 = 0, a >= 2,
         Allocate(heap, n).block = NULL
  PROVE  SG!After(Shown(heap), a) = {}
<1>1. PICK fit, more, grown : /\ fit = find_fit(heap, a) /\ more = (IF a > chunksize THEN a ELSE chunksize)
                              /\ grown = extend_heap(heap, more)
  OBVIOUS
<1>2. Allocate(heap, n) = IF fit # NULL THEN [heap |-> split_block(heap, fit, a), block |-> fit]
          ELSE IF ~mem_sbrk_ok(heap, more) THEN [heap |-> heap, block |-> NULL]
          ELSE [heap |-> split_block(grown.heap, grown.block, a), block |-> grown.block]
  BY <1>1 DEF Allocate
<1>3. fit = NULL
  BY <1>2
<1>4. ~mem_sbrk_ok(heap, more)
  <2> SUFFICES ASSUME mem_sbrk_ok(heap, more) PROVE FALSE
    OBVIOUS
  <2>1. grown.block = NULL
    BY <1>2, <1>3
  <2>2. more \in Nat /\ more % 2 = 0 /\ more >= 2 /\ heap.brk + more <= MaxHeap
    BY <1>1, HeapAssumption DEF mem_sbrk_ok
  <2>3. GrownTo(heap, B, grown, more)
    BY ONLY <1>1, <2>2, Good(heap, B), ExtendHeap
  <2>4. PICK D : Good(grown.heap, D) /\ grown.block \in FreeIn(grown.heap.mem, D)
    BY <2>3 DEF GrownTo
  <2>5. \A x \in D : x > 0
    BY <2>4, TiledApart DEF Good, Apart
  <2> QED BY <2>1, <2>4, <2>5 DEF FreeIn, NULL
<1>5. SG!Fits(Shown(heap), a) = {}
  <2>1. find_fit(heap, a) = NULL
    BY <1>1, <1>3
  <2>2. \A x \in FreeIn(heap.mem, B) : ~(get_size(heap.mem, x) >= a)
    BY ONLY <2>1, Good(heap, B), a \in Nat, NoFit
  <2> QED BY <2>2, Fitted
<1>6. ~SG!Room(Shown(heap), a)
  <2>1. SG!End(Shown(heap)) = heap.brk - 1 /\ heap.brk \in Nat
    BY EndIs
  <2>2. SG!Growth(a) = more
    BY <1>1 DEF SG!Growth
  <2>3. SG!Room(Shown(heap), a) <=> heap.brk - 1 + more <= MaxHeap - 1
    BY <2>1, <2>2 DEF SG!Room
  <2>4. more \in Nat /\ MaxHeap \in Nat /\ ~(heap.brk + more <= MaxHeap)
    BY <1>1, <1>4, HeapAssumption DEF mem_sbrk_ok
  <2> QED BY <2>1, <2>3, <2>4
<1> QED BY <1>5, <1>6 DEF SG!After

(* What the program stored stays, and a request fails only when no free    *)
(* block is large enough and the memory has no room to grow: find_fit      *)
(* looks in the right lists (malloc, find_fit, extend_heap).               *)
THEOREM ProgramStaysServed ==
  NoWrap /\ Spec => []ServesProgram
<1> SUFFICES ASSUME NoWrap PROVE Spec => []ServesProgram
  OBVIOUS
<1>1. ASSUME HeapInvariant PROVE ServesProgram
  <2>1. PICK B : Good(heap, B) /\ Owned(heap.mem, UsedIn(heap.mem, B), live)
    BY <1>1 DEF HeapInvariant, Holding
  <2>2. ASSUME NEW size \in Asked, Allocate(heap, size).block = NULL
        PROVE  SG!After({Segment(b) : b \in Blocks}, adjusted(size)) = {}
    <3>1. adjusted(size) \in Nat /\ adjusted(size) % 2 = 0 /\ adjusted(size) >= 2
      BY Adjusted
    <3>2. SG!After(Shown(heap), adjusted(size)) = {}
      BY ONLY <2>1, <2>2, <3>1, RefusedWhenFull
    <3> QED BY <3>2, SegmentsAre
  <2>3. PayloadIntact
    BY <2>1, OwnedIntact
  <2> QED BY <2>2, <2>3 DEF ServesProgram, RefusesOnlyWhenFull
<1> QED BY <1>1, HeapStaysGood, PTL

-----------------------------------------------------------------------------
(* The heap checker. *)

(* The checker's walk meets the blocks and the epilogue too.               *)
LEMMA CheckedMeetsBlocks ==
  ASSUME NEW h, NEW B, Tiled(h.mem, h.brk, B)
  PROVE  CheckedWalk(h) = B \cup {h.brk - 1}
<1> DEFINE follow == [b \in 0..(MaxHeap - 1) |-> IF get_size(h.mem, b) = 0 THEN b ELSE find_next(h.mem, b)]
<1>1. PICK E : E = h.brk - 1
  OBVIOUS
<1>2. h.brk \in Nat /\ h.brk >= 2 /\ h.brk <= MaxHeap /\ MaxHeap \in Nat
  BY TiledApart
<1>3. ASSUME NEW b \in B PROVE follow[b] = find_next(h.mem, b)
  <2>1. b \in Nat /\ b <= h.brk - 2 /\ get_size(h.mem, b) # 0
    BY TiledApart DEF Apart
  <2>2. b \in 0..(MaxHeap - 1)
    BY ONLY <1>2, <2>1
  <2> QED BY <2>1, <2>2
<1>4. follow[E] = E
  <2>1. E \in 0..(MaxHeap - 1)
    BY ONLY <1>1, <1>2
  <2>2. get_size(h.mem, E) = 0
    BY <1>1 DEF Tiled
  <2> QED BY <2>1, <2>2
<1>5. Walked(follow) = B \cup {h.brk - 1}
  <2> HIDE DEF follow
  <2> QED BY <1>1, <1>3, <1>4, WalkedMeetsBlocks
<1>6. CheckedWalk(h) = Walked(follow)
  BY DEF CheckedWalk, Walked
<1> QED BY <1>5, <1>6

(* What the tag pass asks of a tiling.                                     *)
LEMMA ChecksBlocks ==
  ASSUME NEW h, NEW B, Tiled(h.mem, h.brk, B)
  PROVE  CheckTags(h) <=> /\ \A b \in B : get_alloc(h.mem, b) \/ FooterAgrees(h, b)
                          /\ \A b, o \in B : ~NeighboursFree(h, b, o)
<1> DEFINE end == {b \in CheckedWalk(h) : get_size(h.mem, b) = 0}
<1>1. CheckedWalk(h) = B \cup {h.brk - 1}
  BY CheckedMeetsBlocks
<1>2. \A b \in B : get_size(h.mem, b) # 0 /\ get_size(h.mem, b) % dsize = 0
  BY TiledApart DEF Apart, dsize
<1>3. get_size(h.mem, h.brk - 1) = 0 /\ get_alloc(h.mem, h.brk - 1) /\ Prologue(h.mem)
  BY DEF Tiled
<1>4. end = {h.brk - 1} /\ CheckedWalk(h) \ end = B
  BY <1>1, <1>2, <1>3
<1>5. extract_size(h.mem[heap_start - 1]) = 0 /\ extract_alloc(h.mem[heap_start - 1])
  <2>1. heap_start - 1 = 0
    BY DEF heap_start
  <2> QED BY <1>3, <2>1 DEF Prologue
<1>6. CheckTags(h) <=> /\ extract_size(h.mem[heap_start - 1]) = 0 /\ extract_alloc(h.mem[heap_start - 1])
                       /\ \A b \in CheckedWalk(h) \ end :
                            /\ get_size(h.mem, b) % dsize = 0
                            /\ get_alloc(h.mem, b) \/ FooterAgrees(h, b)
                       /\ ~ \E b, o \in CheckedWalk(h) \ end : NeighboursFree(h, b, o)
                       /\ \A b \in end : get_alloc(h.mem, b)
  BY DEF CheckTags
<1> HIDE DEF end
<1> QED BY <1>2, <1>3, <1>4, <1>5, <1>6

(* A good heap passes.                                                     *)
LEMMA GoodPasses ==
  ASSUME NEW B, Good(heap, B)
  PROVE  CheckTags(heap)
<1>1. Tiled(heap.mem, heap.brk, B) /\ Tagged(heap.mem, B, {}) /\ Merged(heap.mem, B, {})
  BY DEF Good
<1>2. ASSUME NEW b \in B, ~get_alloc(heap.mem, b) PROVE FooterAgrees(heap, b)
  <2>1. Footed(heap.mem, b)
    BY <1>1 DEF Tagged
  <2> QED BY <1>2, <2>1 DEF Footed, SaysFree, FooterAgrees, min_block_size, dsize
<1>3. ASSUME NEW b \in B, NEW o \in B PROVE ~NeighboursFree(heap, b, o)
  <2>1. ~get_alloc(heap.mem, b) => get_alloc(heap.mem, find_next(heap.mem, b))
    BY <1>1 DEF Merged
  <2> QED BY <2>1 DEF NeighboursFree
<1> QED BY <1>1, <1>2, <1>3, ChecksBlocks

(* A memory whose headers give the same sizes is tiled alike.              *)
LEMMA SameSizesTile ==
  ASSUME NEW mem, NEW mem2, NEW brk, NEW B, Tiled(mem, brk, B), mem2[0] = mem[0], mem2[brk - 1] = mem[brk - 1],
         \A x \in B : mem2[x] \in Nat /\ get_size(mem2, x) = get_size(mem, x)
  PROVE  Tiled(mem2, brk, B) /\ \A x \in B : find_next(mem2, x) = find_next(mem, x)
<1>1. \A x \in B : find_next(mem2, x) = find_next(mem, x)
  BY DEF find_next
<1>2. Prologue(mem2)
  BY Zenon DEF Prologue, Tiled
<1>3. get_size(mem2, brk - 1) = 0 /\ get_alloc(mem2, brk - 1)
  BY DEF Tiled, get_size, get_alloc
<1> QED BY <1>1, <1>2, <1>3 DEF Tiled

(* A footer that was written over does not agree.                          *)
LEMMA FooterCaught ==
  ASSUME NEW B, Good(heap, B), NEW b \in FreeIn(heap.mem, B), get_size(heap.mem, b) # 2
  PROVE  ~CheckTags(Damaged(header_to_footer(heap.mem, b), USER))
<1>1. PICK s, w, h : /\ s = get_size(heap.mem, b) /\ w = b + s - 1
                     /\ h = Damaged(header_to_footer(heap.mem, b), USER)
  OBVIOUS
<1>2. Tiled(heap.mem, heap.brk, B) /\ heap.mem \in Memory /\ b \in B /\ ~get_alloc(heap.mem, b)
  BY DEF Good, HeapType, FreeIn
<1>3. /\ b \in Nat /\ b > 0 /\ s \in Nat /\ s >= 2 /\ b + s <= heap.brk - 1
      /\ heap.brk \in Nat /\ heap.brk <= MaxHeap /\ MaxHeap \in Nat
  BY <1>1, <1>2, TiledApart DEF Apart
<1>4. w \in 0..MaxHeap - 1 /\ w # 0 /\ w # heap.brk - 1 /\ w # b
  BY ONLY <1>1, <1>3
<1>5. h.mem = [heap.mem EXCEPT ![w] = USER] /\ h.brk = heap.brk
  <2>1. header_to_footer(heap.mem, b) = w
    BY <1>1 DEF header_to_footer
  <2>2. h = [heap EXCEPT !.mem[w] = USER] /\ heap \in [mem : Memory, seg_list : [Lists -> Nat], brk : 2..MaxHeap]
    BY <1>1, <2>1 DEF Damaged, Good, HeapType
  <2> QED BY <2>2
<1>6. h.mem[w] = USER /\ \A x \in 0..MaxHeap - 1 : x # w => h.mem[x] = heap.mem[x]
  BY ONLY <1>2, <1>4, <1>5 DEF Memory
<1>7. \A x \in B : x # w /\ x \in 0..MaxHeap - 1
  <2> SUFFICES ASSUME NEW x \in B PROVE x # w /\ x \in 0..MaxHeap - 1
    OBVIOUS
  <2>1. x \in Nat /\ x <= heap.brk - 2
    BY <1>2, TiledApart DEF Apart
  <2>2. (b < x => b + s <= x)
    BY <1>1, <1>2, TiledApart DEF Apart
  <2> QED BY ONLY <1>1, <1>3, <2>1, <2>2
<1>8. \A x \in B : h.mem[x] = heap.mem[x] /\ heap.mem[x] \in Nat
  BY <1>2, <1>6, <1>7 DEF Tiled
<1>9. Tiled(h.mem, h.brk, B)
  <2>1. 0 \in 0..MaxHeap - 1 /\ heap.brk - 1 \in 0..MaxHeap - 1
    BY ONLY <1>3
  <2>2. h.mem[0] = heap.mem[0] /\ h.mem[heap.brk - 1] = heap.mem[heap.brk - 1]
    BY <1>4, <1>6, <2>1
  <2>3. \A x \in B : h.mem[x] \in Nat /\ get_size(h.mem, x) = get_size(heap.mem, x)
    BY <1>8 DEF get_size
  <2>4. Tiled(h.mem, heap.brk, B)
    BY ONLY <1>2, <2>2, <2>3, SameSizesTile
  <2> QED BY <1>5, <2>4
<1>10. ~get_alloc(h.mem, b) /\ get_size(h.mem, b) = s /\ s # 2
  BY <1>1, <1>2, <1>8 DEF get_alloc, get_size
<1>11. ~FooterAgrees(h, b)
  <2>1. extract_size(USER) # s
    <3>1. USER \in Int /\ USER < 0
      BY MallocAssumption
    <3>2. 2 * (USER \div 16) # s
      BY ONLY <1>3, <3>1
    <3> QED BY <3>2 DEF extract_size
  <2>2. h.mem[header_to_footer(h.mem, b)] = USER
    BY <1>1, <1>6, <1>10 DEF header_to_footer
  <2> QED BY <1>10, <2>1, <2>2 DEF FooterAgrees, min_block_size, dsize
<1>12. ~CheckTags(h)
  BY <1>2, <1>9, <1>10, <1>11, ChecksBlocks
<1> QED BY <1>1, <1>12

(* A used block that is marked free shows beside a free one.               *)
LEMMA FreeMarkCaught ==
  ASSUME NEW B, Good(heap, B), NEW o \in FreeIn(heap.mem, B), NEW b \in UsedIn(heap.mem, B),
         find_next(heap.mem, o) = b \/ find_next(heap.mem, b) = o
  PROVE  ~CheckTags(Damaged(b, heap.mem[b] - 1))
<1>1. PICK h, tag : h = Damaged(b, tag) /\ tag = heap.mem[b] - 1
  OBVIOUS
<1>2. /\ Tiled(heap.mem, heap.brk, B) /\ heap.mem \in Memory /\ b \in B /\ o \in B /\ o # b
      /\ ~get_alloc(heap.mem, o) /\ get_alloc(heap.mem, b)
  BY DEF Good, HeapType, FreeIn, UsedIn
<1>3. /\ heap.brk \in Nat /\ heap.brk >= 2 /\ heap.brk <= MaxHeap /\ MaxHeap \in Nat
      /\ \A x \in B : x \in 0..MaxHeap - 1 /\ x # heap.brk - 1 /\ x # 0
  <2>1. heap.brk \in Nat /\ heap.brk >= 2 /\ heap.brk <= MaxHeap /\ MaxHeap \in Nat
    BY <1>2, TiledApart
  <2>2. ASSUME NEW x \in B PROVE x \in 0..MaxHeap - 1 /\ x # heap.brk - 1 /\ x # 0
    <3>1. x \in Nat /\ x > 0 /\ x <= heap.brk - 2
      BY <1>2, TiledApart DEF Apart
    <3> QED BY ONLY <2>1, <3>1
  <2> QED BY <2>1, <2>2
<1>4. h.mem = [heap.mem EXCEPT ![b] = tag] /\ h.brk = heap.brk
  <2>1. h = [heap EXCEPT !.mem[b] = tag] /\ heap \in [mem : Memory, seg_list : [Lists -> Nat], brk : 2..MaxHeap]
    BY <1>1 DEF Damaged, Good, HeapType
  <2> QED BY <2>1
<1>5. h.mem[b] = tag /\ \A x \in 0..MaxHeap - 1 : x # b => h.mem[x] = heap.mem[x]
  BY ONLY <1>2, <1>3, <1>4 DEF Memory
<1>6. tag \in Nat /\ extract_size(tag) = extract_size(heap.mem[b]) /\ ~extract_alloc(tag)
  <2>1. PICK x : x = heap.mem[b]
    OBVIOUS
  <2>2. x \in Nat /\ x % 2 = 1
    BY <1>2, <2>1 DEF Tiled, get_alloc, extract_alloc
  <2>3. x - 1 \in Nat /\ 2 * ((x - 1) \div 16) = 2 * (x \div 16) /\ (x - 1) % 2 # 1
    BY ONLY <2>2
  <2> QED BY <1>1, <2>1, <2>3 DEF extract_size, extract_alloc
<1>7. \A x \in B : h.mem[x] \in Nat /\ get_size(h.mem, x) = get_size(heap.mem, x)
  BY <1>2, <1>3, <1>5, <1>6 DEF Tiled, get_size
<1>8. Tiled(h.mem, h.brk, B) /\ \A x \in B : find_next(h.mem, x) = find_next(heap.mem, x)
  <2>1. 0 \in 0..MaxHeap - 1 /\ heap.brk - 1 \in 0..MaxHeap - 1
    BY ONLY <1>3
  <2>2. h.mem[0] = heap.mem[0] /\ h.mem[heap.brk - 1] = heap.mem[heap.brk - 1]
    BY <1>2, <1>3, <1>5, <2>1
  <2>3. Tiled(h.mem, heap.brk, B) /\ \A x \in B : find_next(h.mem, x) = find_next(heap.mem, x)
    BY ONLY <1>2, <1>7, <2>2, SameSizesTile
  <2> QED BY <1>4, <2>3
<1>9. ~get_alloc(h.mem, b) /\ ~get_alloc(h.mem, o)
  BY <1>2, <1>3, <1>5, <1>6 DEF get_alloc
<1>10. NeighboursFree(h, o, b) \/ NeighboursFree(h, b, o)
  BY <1>2, <1>8, <1>9 DEF NeighboursFree
<1>11. ~CheckTags(h)
  BY <1>2, <1>8, <1>10, ChecksBlocks
<1> QED BY <1>1, <1>11

(* The tag pass has no false alarm, whatever calls came before, and sees   *)
(* a lost footer and a block marked free beside another (mm_checkheap).    *)
THEOREM CheckerIsSharp ==
  NoWrap /\ Spec => []CheckerCatches
<1> SUFFICES ASSUME NoWrap PROVE Spec => []CheckerCatches
  OBVIOUS
<1>1. ASSUME HeapInvariant PROVE CheckerCatches
  <2>1. PICK B : Good(heap, B)
    BY <1>1 DEF HeapInvariant, Holding
  <2>2. Free = FreeIn(heap.mem, B) /\ Blocks \ Free = UsedIn(heap.mem, B)
    BY <2>1, BlocksAre
  <2>3. CheckTags(heap)
    BY <2>1, GoodPasses
  <2>4. ASSUME NEW b \in Free, get_size(heap.mem, b) # min_block_size
        PROVE  ~CheckTags(Damaged(header_to_footer(heap.mem, b), USER))
    <3>1. b \in FreeIn(heap.mem, B) /\ get_size(heap.mem, b) # 2
      BY <2>2, <2>4 DEF min_block_size, dsize
    <3> QED BY ONLY <2>1, <3>1, FooterCaught
  <2>5. ASSUME NEW o \in Free, NEW b \in Blocks \ Free, find_next(heap.mem, o) = b \/ find_next(heap.mem, b) = o
        PROVE  ~CheckTags(Damaged(b, heap.mem[b] - 1))
    <3>1. o \in FreeIn(heap.mem, B) /\ b \in UsedIn(heap.mem, B)
      BY <2>2
    <3> QED BY ONLY <2>1, <2>5, <3>1, FreeMarkCaught
  <2> QED BY <2>3, <2>4, <2>5 DEF CheckerCatches
<1> QED BY <1>1, HeapStaysGood, PTL
=============================================================================
