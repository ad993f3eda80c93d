---------------------------- MODULE StringQueue ----------------------------
(***************************************************************************)
(* What queue.h promises of a queue of strings: first in, first out from   *)
(* the tail, last in, first out from the head.  A queue an operation on    *)
(* which was cut off, or that was misused, is broken: all it can still do  *)
(* is be freed.                                                            *)
(***************************************************************************)
EXTENDS Sequences, SequencesExt

CONSTANTS Values
VARIABLES state, content

Init == state = "none" /\ content = << >>

Change(new) == /\ state = "ok"
               /\ content' = new
               /\ UNCHANGED state

New           == state = "none" /\ state' = "ok" /\ content' = << >>
InsertHead(v) == Change(<<v>> \o content)
InsertTail(v) == Change(Append(content, v))
RemoveHead(v) == content # << >> /\ v = Head(content) /\ Change(Tail(content))
Reversed      == Change(Reverse(content))
Break         == state = "ok" /\ state' = "broken" /\ content' = << >>
Free          == state # "none" /\ state' = "none" /\ content' = << >>

Next ==
  \/ New \/ Reversed \/ Break \/ Free
  \/ \E v \in Values : InsertHead(v) \/ InsertTail(v) \/ RemoveHead(v)

Spec == Init /\ [][Next]_<<state, content>>
=============================================================================
