-------------------------------- MODULE Splay --------------------------------
(***************************************************************************)
(* The splay tree of the malloc driver (stree.c).  A node is known by its  *)
(* key; the record a node carries and the count of comparisons are left    *)
(* out, so a search returns the key of the node whose record it would.     *)
(***************************************************************************)
EXTENDS Integers, FiniteSets

CONSTANT Nil   \* the null pointer

tree_new == [root |-> Nil, left |-> <<>>, right |-> <<>>, parent |-> <<>>]
Keys(t)  == DOMAIN t.parent

(* What a node's parent has below it in the node's place becomes v.        *)
Below(t, x, v) ==
  LET p == t.parent[x] IN
  IF p = Nil THEN [t EXCEPT !.root = v]
  ELSE IF t.left[p] = x THEN [t EXCEPT !.left[p] = v]
  ELSE [t EXCEPT !.right[p] = v]

Adopt(t, v, p) == IF v = Nil THEN t ELSE [t EXCEPT !.parent[v] = p]

(* A rotation is asked for only where the child that moves up is there.    *)
left_rotate(t, x) ==
  LET y == t.right[x]
      a == Adopt([t EXCEPT !.right[x] = t.left[y]], t.left[y], x)
      c == Adopt(Below(a, x, y), y, t.parent[x])
  IN  [c EXCEPT !.left[y] = x, !.parent[x] = y]

right_rotate(t, x) ==
  LET y == t.left[x]
      a == Adopt([t EXCEPT !.left[x] = t.right[y]], t.right[y], x)
      c == Adopt(Below(a, x, y), y, t.parent[x])
  IN  [c EXCEPT !.right[y] = x, !.parent[x] = y]

(* x rises by one level, or by two if it has a grandparent.                *)
LiftUp(t, x) ==
  IF t.left[t.parent[x]] = x THEN right_rotate(t, t.parent[x])
                             ELSE left_rotate(t, t.parent[x])
SameSide(t, x, p) ==
  (t.left[p] = x) <=> (t.left[t.parent[p]] = p)

RECURSIVE splay(_, _)
splay(t, x) ==
  LET p == t.parent[x] IN
  IF p = Nil THEN t
  ELSE IF t.parent[p] = Nil THEN LiftUp(t, x)
  ELSE IF SameSide(t, x, p) THEN splay(LiftUp(LiftUp(t, p), x), x)
  ELSE splay(LiftUp(LiftUp(t, x), x), x)

(* The node under which a search for a key ends, and the largest key       *)
(* passed on its right-hand turns.                                         *)
RECURSIVE Descend(_, _, _, _)
Descend(t, key, z, p) ==
  IF z = Nil \/ z = key THEN [at |-> z, parent |-> p]
  ELSE Descend(t, key, IF key > z THEN t.right[z] ELSE t.left[z], z)

RECURSIVE Nearest(_, _, _, _)
Nearest(t, key, z, n) ==
  IF z = Nil \/ z = key THEN IF z = key THEN key ELSE n
  ELSE IF key > z THEN Nearest(t, key, t.right[z], IF n = Nil \/ n < z THEN z ELSE n)
  ELSE Nearest(t, key, t.left[z], n)

tree_find_nearest(t, key) == Nearest(t, key, t.root, Nil)

With(f, x, v) == [k \in DOMAIN f \cup {x} |-> IF k = x THEN v ELSE f[k]]
Less(f, x)    == [k \in DOMAIN f \ {x} |-> f[k]]

(* A key that is there already is not inserted again.                      *)
tree_insert(t, key) ==
  LET d == Descend(t, key, t.root, Nil)
      p == d.parent
      u == [t EXCEPT !.left = With(@, key, Nil), !.right = With(@, key, Nil),
                     !.parent = With(@, key, p)]
      v == IF p = Nil THEN [u EXCEPT !.root = key]
           ELSE IF p < key THEN [u EXCEPT !.right[p] = key] ELSE [u EXCEPT !.left[p] = key]
  IN  IF d.at # Nil THEN t ELSE splay(v, key)

(* v takes the place of u below u's parent.                                *)
replace(t, u, v) == Adopt(Below(t, u, v), v, t.parent[u])

RECURSIVE subtree_minimum(_, _)
subtree_minimum(t, u) == IF t.left[u] = Nil THEN u ELSE subtree_minimum(t, t.left[u])

Forget(t, z) ==
  [t EXCEPT !.left = Less(@, z), !.right = Less(@, z), !.parent = Less(@, z)]

(* The root z has two children: the smallest key above it takes its place. *)
PutSuccessor_short(t, z) ==   \* mutant: y keeps its own right-hand child
  LET y == subtree_minimum(t, t.right[z])
      d == replace(t, z, y)
  IN  [d EXCEPT !.left[y] = d.left[z], !.parent[d.left[z]] = y]
PutSuccessor(t, z) ==
  LET y == subtree_minimum(t, t.right[z])
      c == IF t.parent[y] = z THEN t
           ELSE LET r == replace(t, y, t.right[y]) IN
                [r EXCEPT !.right[y] = r.right[z], !.parent[r.right[z]] = y]
      d == replace(c, z, y)
  IN  [d EXCEPT !.left[y] = d.left[z], !.parent[d.left[z]] = y]

tree_remove(t, key) ==
  IF Descend(t, key, t.root, Nil).at = Nil THEN t
  ELSE LET s == splay(t, key) IN
       Forget(IF s.left[key] = Nil THEN replace(s, key, s.right[key])
              ELSE IF s.right[key] = Nil THEN replace(s, key, s.left[key])
              ELSE PutSuccessor(s, key),
              key)

(* The keys in order, as show_subtree visits them; those below a node.     *)
RECURSIVE InOrder(_, _)
InOrder(t, x) ==
  IF x = Nil THEN {} ELSE {x} \cup InOrder(t, t.left[x]) \cup InOrder(t, t.right[x])

(* A search tree: a node's key separates the keys below it, every node is  *)
(* below the root, and parent is the inverse of left and right.            *)
IsSearchTree(t) ==
  /\ InOrder(t, t.root) = Keys(t)
  /\ t.root # Nil => t.parent[t.root] = Nil
  /\ \A x \in Keys(t) :
       /\ \A y \in InOrder(t, t.left[x])  : y < x
       /\ \A y \in InOrder(t, t.right[x]) : y > x
       /\ t.left[x]  # Nil => t.parent[t.left[x]] = x
       /\ t.right[x] # Nil => t.parent[t.right[x]] = x
=============================================================================
