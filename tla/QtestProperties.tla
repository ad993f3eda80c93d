-------------------------- MODULE QtestProperties --------------------------
(***************************************************************************)
(* What the string queue must satisfy under qtest, and its refinement of   *)
(* StringQueue.                                                            *)
(***************************************************************************)
EXTENDS Qtest, SequencesExt

AtPrompt == pc = "idle" /\ made

(* Between two commands the list ends, has size elements, ends with the    *)
(* element tail points to, and qtest's own count agrees: through inserts   *)
(* at both ends, failed mallocs, removals down to nothing and reversals.   *)
ListMatchesFields ==
  AtPrompt /\ trusted =>
    /\ Len(Chain) = q.size /\ q.size = qcnt
    /\ q.size <= Cardinality(Cells)
    /\ q.size > 0 => q.tail = Last(Chain)

(* An element is allocated while it is in the queue and no longer, and its *)
(* string with it, as long as no operation was cut off: do_free's count of *)
(* blocks that are still allocated is 0 after q_free.                      *)
NothingLeaks ==
  pc = "idle" /\ alarms = 0 /\ ~segv /\ trusted =>
    /\ allocated = IF made THEN ToSet(Chain) ELSE {}
    /\ strings = allocated

(* A step that follows a null pointer or uses a freed element is never one *)
(* on a queue nothing has gone wrong with, even when queues before it were *)
(* cut off and have leaked.                                                *)
NeverTouchesFreed ==
  [][segv' # segv \/ (pc' = "corrupt" /\ pc # "corrupt") => ~trusted]_vars

(* From the element a walk of q_reverse or q_free is at, the list leads to *)
(* its end and never back to one the walk has passed: every operation on   *)
(* such a queue ends, and no element is missed or met twice.               *)
WalkEnds ==
  pc \in {"turn", "release"} /\ trusted =>
    /\ Len(Walk(cell)) <= Cardinality(Cells) /\ IsInjective(Walk(cell))
    /\ ToSet(Walk(cell)) \subseteq allocated
    /\ pc = "turn" => {q.head, prev} \cap ToSet(Walk(cell)) = {}

-----------------------------------------------------------------------------
(* qtest.c:432 calls a list longer than qcnt an error.  tail still points  *)
(* to the last element that was removed; when malloc returns that element  *)
(* again, q_insert_tail links it to itself.                                *)
ListHasNoCycle ==
  AtPrompt /\ alarms = 0 => Len(Chain) <= Cardinality(Cells) /\ IsInjective(Chain)

-----------------------------------------------------------------------------
(* The queue as its user sees it: an operation shows its effect when it    *)
(* returns.                                                                *)
SQ == INSTANCE StringQueue WITH
  state   <- IF ~made THEN "none" ELSE IF trusted THEN "ok" ELSE "broken",
  content <- IF ~made \/ ~trusted THEN << >> ELSE IF pc = "idle" THEN Contents ELSE before

(* Inserting, removing and reversing do to the strings what queue.h says,  *)
(* the string that is returned is the one at the head, a failed or half    *)
(* done operation shows nothing, and no operation of a sound queue follows *)
(* a dangling pointer.                                                     *)
ImplementsQueue ==
  /\ SQ!Spec
  /\ [][trusted' =>
          /\ pc = "count" => IF cmd.op = "ih" THEN SQ!InsertHead(cmd.value)
                                              ELSE SQ!InsertTail(cmd.value)
          /\ pc = "uncount" => SQ!RemoveHead(cmd.value)
          /\ pc = "rehead" => SQ!Reversed]_vars
  /\ NeverTouchesFreed
=============================================================================
