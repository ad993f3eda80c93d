------------------------------ MODULE Segments ------------------------------
(***************************************************************************)
(* A heap without tags and lists: segments that are used or not, side by   *)
(* side.  A request takes an unused segment that is large enough and gives *)
(* back what it does not need; a segment given back merges with unused     *)
(* neighbours; the heap grows when nothing fits and there is room.         *)
(***************************************************************************)
EXTENDS Integers, FiniteSets, FiniteSetsExt

CONSTANTS Start, Limit, Chunk, Sizes,
          Smallest,   \* a remainder below this size stays with what was taken
          Coalesces   \* are neighbours merged?
VARIABLE segments

Total(S) == MapThenSumSet(LAMBDA g : g.size, S)
End(S)   == Start + Total(S)
Fits(S, n) == {g \in S : ~g.used /\ g.size >= n}

Taken(S, g, n) ==
  (S \ {g}) \cup
  IF g.size - n < Smallest THEN {[g EXCEPT !.used = TRUE]}
  ELSE {[g EXCEPT !.size = n, !.used = TRUE], [at |-> g.at + n, size |-> g.size - n, used |-> FALSE]}

Given(S, g) ==
  LET merged == {g} \cup {o \in S : Coalesces /\ ~o.used /\ (o.at + o.size = g.at \/ g.at + g.size = o.at)}
  IN  (S \ merged)
        \cup {[at |-> Min({o.at : o \in merged}), size |-> Total(merged), used |-> FALSE]}

(* Growth makes one unused segment at the end, merged like one given back. *)
Growth(n)   == IF n > Chunk THEN n ELSE Chunk
Grown(S, n) ==
  LET new == [at |-> End(S), size |-> Growth(n), used |-> FALSE]
  IN  Given(S \cup {new}, new)

Room(S, n) == End(S) + Growth(n) <= Limit

(* What the segments may be after n words were taken, and from which g.    *)
After(S, n) ==
  LET fits  == Fits(S, n)
      grown == Grown(S, n)
      last  == {g \in Fits(grown, n) : g.at + g.size = End(grown)}
  IN  IF fits # {} THEN {Taken(S, g, n) : g \in fits}
      ELSE IF Room(S, n) THEN {Taken(grown, g, n) : g \in last}
      ELSE {}

Malloc(n)     == LET after == After(segments, n)
                 IN  IF after = {} THEN UNCHANGED segments ELSE segments' \in after
Free(g)       == g \in segments /\ g.used /\ segments' = Given(segments, g)
Realloc(g, n) == /\ g \in segments /\ g.used
                 /\ LET after == After(segments, n)
                    IN  IF after = {} THEN UNCHANGED segments
                        ELSE segments' \in {Given(S, g) : S \in after}

Init == segments = {} \/ segments = Grown({}, Chunk)

Next == \/ \E n \in Sizes : Malloc(n)
        \/ \E g \in segments : Free(g) \/ \E n \in Sizes : Realloc(g, n)

Spec == Init /\ [][Next]_segments
=============================================================================
