------------------------------- MODULE Qtest -------------------------------
(***************************************************************************)
(* The string queue (queue.c) under its test program (qtest.c, harness.c). *)
(* An operation is a sequence of steps, one for each change it makes to    *)
(* memory, because qtest ends an operation with a longjmp when a second    *)
(* has passed (SIGALRM) or a bad address is used (SIGSEGV) and then goes   *)
(* on with the next command.  Every operation returns at once on a NULL    *)
(* queue, and leaves everything as it was when its first malloc fails.     *)
(***************************************************************************)
EXTENDS Integers, FiniteSets, FiniteSetsExt

CONSTANTS Cells,     \* what malloc can return for a list element
          Values,    \* the strings
          NULL,
          MaxAlarms  \* bound: operations that take too long

ASSUME QtestAssumption ==
  IsFiniteSet(Cells) /\ NULL \notin Cells \cup Values /\ MaxAlarms \in Nat

VARIABLES
  heap,       \* the list elements
  allocated,  \* the elements malloc has given out
  strings,    \* the elements whose value is an allocated string
  made, q,    \* is there a queue, and its fields
  qcnt,       \* the number of elements qtest counts
  pc, cmd,    \* the next step, and the operation and string it is about
  cell, prev, \* locals: newh, newt or temp, and pre or point
  alarms,     \* history: operations cut off by SIGALRM
  segv,       \* history: SIGSEGV has happened
  trusted,    \* history: nothing has gone wrong with this queue
  before      \* history: the strings in the queue when the operation began

memory  == <<heap, allocated, strings>>
locals  == <<cell, prev>>
history == <<alarms, segv, trusted, before>>
vars    == <<memory, made, q, qcnt, pc, cmd, locals, history>>

Empty == [head |-> NULL, tail |-> NULL, size |-> 0]
NoCmd == [op |-> "none", value |-> NULL]

PC == {"idle", "value", "push", "first", "append", "tail", "only", "grow", "count",
       "free_value", "free_cell", "shrink", "uncount", "turn", "retail", "rehead",
       "release", "release_cell", "corrupt"}

TypeOK ==
  /\ heap \in [Cells -> [value : Values \cup {NULL}, next : Cells \cup {NULL}]]
  /\ allocated \subseteq Cells
  /\ strings \subseteq allocated
  /\ made \in BOOLEAN
  /\ q \in [head : Cells \cup {NULL}, tail : Cells \cup {NULL}, size : Nat]
  /\ qcnt \in Int
  /\ pc \in PC
  /\ cmd \in [op : {"none", "ih", "it", "rh", "reverse", "free"}, value : Values \cup {NULL}]
  /\ cell \in Cells \cup {NULL} /\ prev \in Cells \cup {NULL}
  /\ alarms \in 0..MaxAlarms /\ segv \in BOOLEAN /\ trusted \in BOOLEAN

(* The elements from start on in memory mem; more of them than there are   *)
(* cells if the list does not end.                                         *)
WalkIn(mem, start) ==
  LET at[i \in 0..Cardinality(Cells)] ==
        LET e == IF i = 0 THEN start ELSE at[i - 1]
        IN  IF i = 0 \/ e = NULL THEN e ELSE mem[e].next
  IN  [i \in 1..Cardinality({i \in DOMAIN at : at[i] # NULL}) |-> at[i - 1]]
Walk(start) == WalkIn(heap, start)
Chain    == Walk(q.head)
Contents == [i \in DOMAIN Chain |-> heap[Chain[i]].value]

Init ==
  /\ heap = [c \in Cells |-> [value |-> NULL, next |-> NULL]]
  /\ allocated = {} /\ strings = {}
  /\ made = FALSE /\ q = Empty /\ qcnt = 0
  /\ pc = "idle" /\ cmd = NoCmd
  /\ cell = NULL /\ prev = NULL
  /\ alarms = 0 /\ segv = FALSE /\ trusted = TRUE /\ before = << >>

-----------------------------------------------------------------------------
Goto(from, to) == pc = from /\ pc' = to

Begin(op, value, to) ==
  /\ made
  /\ Goto("idle", to)
  /\ cmd' = [op |-> op, value |-> value]
  /\ before' = Contents

(* Back to the prompt of qtest.                                            *)
Return == /\ pc' = "idle"
          /\ cmd' = NoCmd
          /\ cell' = NULL
          /\ prev' = NULL
          /\ before' = << >>

(* longjmp out of an operation: do_free forgets the queue all the same.    *)
Cut(op) ==
  /\ Return
  /\ IF op = "free" THEN made' = FALSE /\ q' = Empty /\ qcnt' = 0 /\ trusted' = TRUE
                    ELSE UNCHANGED <<made, q, qcnt>> /\ trusted' = FALSE
  /\ UNCHANGED memory

Alarm ==
  /\ pc \notin {"idle", "corrupt"}
  /\ alarms < MaxAlarms
  /\ alarms' = alarms + 1
  /\ Cut(cmd.op)
  /\ UNCHANGED segv

(* A null pointer is followed.                                             *)
Segfault(op) ==
  /\ segv' = TRUE
  /\ Cut(op)
  /\ UNCHANGED alarms

(* A freed element is used: from here on nothing is known.                 *)
Corrupt ==
  /\ pc' = "corrupt"
  /\ trusted' = FALSE
  /\ UNCHANGED <<memory, made, q, qcnt, cmd, locals, alarms, segv, before>>

-----------------------------------------------------------------------------
(* q_new; do_new frees an old queue first (Free).                          *)
New ==
  /\ pc = "idle"
  /\ ~made
  /\ made' = TRUE
  /\ q' = Empty
  /\ qcnt' = 0
  /\ trusted' = TRUE
  /\ UNCHANGED <<memory, pc, cmd, locals, alarms, segv, before>>

(* q_insert_head and q_insert_tail: allocate the element, then the string. *)
StartInsert(op, value) ==
  /\ Begin(op, value, "value")
  /\ \E c \in Cells \ allocated :
       /\ allocated' = allocated \cup {c}
       /\ cell' = c
  /\ trusted' = (trusted /\ (op = "it" => q.size # 0))
  /\ UNCHANGED <<heap, strings, made, q, qcnt, prev, alarms, segv>>

ValueFails_leak ==        \* mutant: the element is not freed
  /\ pc = "value"
  /\ Return
  /\ UNCHANGED <<memory, made, q, qcnt, alarms, segv, trusted>>
ValueFails ==
  /\ pc = "value"
  /\ allocated' = allocated \ {cell}
  /\ Return
  /\ UNCHANGED <<heap, strings, made, q, qcnt, alarms, segv, trusted>>

Value ==
  /\ Goto("value", IF cmd.op = "ih" THEN "push" ELSE "append")
  /\ strings' = strings \cup {cell}
  /\ heap' = [heap EXCEPT ![cell] =
                [value |-> cmd.value, next |-> IF cmd.op = "ih" THEN q.head ELSE NULL]]
  /\ UNCHANGED <<allocated, made, q, qcnt, cmd, locals, history>>

(* One assignment to a field of the queue.                                 *)
Assign(from, to, field, value) ==
  /\ Goto(from, to)
  /\ q' = [q EXCEPT ![field] = value]
  /\ UNCHANGED <<memory, made, qcnt, cmd, locals, history>>

Push  == Assign("push", "first", "head", cell)
First_never == Assign("first", "grow", "tail", q.tail)   \* mutant: tail not set
First == Assign("first", "grow", "tail", IF q.size = 0 THEN cell ELSE q.tail)

(* q->tail->next = newt, whatever tail points to.                          *)
LinkTail ==
  /\ pc = "append"
  /\ \/ /\ q.tail = NULL
        /\ Segfault("it")
     \/ /\ q.tail \in allocated
        /\ pc' = "tail"
        /\ heap' = [heap EXCEPT ![q.tail].next = cell]
        /\ UNCHANGED <<allocated, strings, made, q, qcnt, cmd, locals, history>>
     \/ /\ q.tail \in Cells \ allocated
        /\ Corrupt

SetTail == Assign("tail", "only", "tail", cell)
Only    == Assign("only", "grow", "head", IF q.size = 0 THEN q.tail ELSE q.head)
Grow    == Assign("grow", "count", "size", q.size + 1)

Count ==
  /\ pc = "count"
  /\ qcnt' = qcnt + 1
  /\ Return
  /\ UNCHANGED <<memory, made, q, alarms, segv, trusted>>

-----------------------------------------------------------------------------
(* q_remove_head: take the element off, copy its string, free both.        *)
RemoveHead ==
  /\ made /\ pc = "idle"
  /\ q.size # 0
  /\ \/ /\ q.head = NULL
        /\ Segfault("rh")
     \/ /\ q.head \in allocated
        /\ Begin("rh", heap[q.head].value, "free_value")
        /\ cell' = q.head
        /\ q' = [q EXCEPT !.head = heap[q.head].next]
        /\ UNCHANGED <<memory, made, qcnt, prev, alarms, segv, trusted>>
     \/ /\ q.head \in Cells \ allocated
        /\ Corrupt

FreeValue ==
  /\ Goto("free_value", "free_cell")
  /\ strings' = strings \ {cell}
  /\ UNCHANGED <<heap, allocated, made, q, qcnt, cmd, locals, history>>

FreeCell ==
  /\ Goto("free_cell", "shrink")
  /\ allocated' = allocated \ {cell}
  /\ UNCHANGED <<heap, strings, made, q, qcnt, cmd, locals, history>>

Shrink == Assign("shrink", "uncount", "size", q.size - 1)

Uncount ==
  /\ pc = "uncount"
  /\ qcnt' = qcnt - 1
  /\ Return
  /\ UNCHANGED <<memory, made, q, alarms, segv, trusted>>

-----------------------------------------------------------------------------
(* q_reverse: pre and temp walk the list and turn one link a step; at last *)
(* the old head ends the list, becomes the tail, and pre becomes the head. *)
StartReverse ==
  /\ made /\ pc = "idle"
  /\ q.size > 1
  /\ \/ /\ q.head = NULL
        /\ Segfault("reverse")
     \/ /\ q.head \in allocated
        /\ Begin("reverse", NULL, "turn")
        /\ prev' = q.head
        /\ cell' = heap[q.head].next
        /\ UNCHANGED <<memory, made, q, qcnt, alarms, segv, trusted>>
     \/ /\ q.head \in Cells \ allocated
        /\ Corrupt

Turn_back ==              \* mutant: temp goes on from the link just turned
  /\ pc = "turn"
  /\ cell # NULL
  /\ cell' = prev
  /\ heap' = [heap EXCEPT ![cell].next = prev]
  /\ prev' = cell
  /\ UNCHANGED <<allocated, strings, made, q, qcnt, pc, cmd, history>>
Turn ==
  /\ pc = "turn"
  /\ cell # NULL
  /\ IF cell \notin allocated THEN Corrupt
     ELSE /\ heap' = [heap EXCEPT ![cell].next = prev]
          /\ prev' = cell
          /\ cell' = heap[cell].next
          /\ UNCHANGED <<allocated, strings, made, q, qcnt, pc, cmd, history>>

TurnedAll ==
  /\ cell = NULL
  /\ Goto("turn", "retail")
  /\ heap' = [heap EXCEPT ![q.head].next = NULL]
  /\ UNCHANGED <<allocated, strings, made, q, qcnt, cmd, locals, history>>

Retail_not == Assign("retail", "rehead", "tail", q.tail)   \* mutant: tail is left
Retail == Assign("retail", "rehead", "tail", q.head)

Rehead ==
  /\ pc = "rehead"
  /\ q' = [q EXCEPT !.head = prev]
  /\ Return
  /\ UNCHANGED <<memory, made, qcnt, alarms, segv, trusted>>

-----------------------------------------------------------------------------
(* q_free: for each element read its next, free its string, free it.       *)
StartFree ==
  /\ Begin("free", NULL, "release")
  /\ cell' = q.head
  /\ UNCHANGED <<memory, made, q, qcnt, prev, alarms, segv, trusted>>

Release ==
  /\ pc = "release"
  /\ cell # NULL
  /\ IF cell \notin allocated THEN Corrupt
     ELSE /\ pc' = "release_cell"
          /\ prev' = heap[cell].next
          /\ strings' = strings \ {cell}
          /\ heap' = [heap EXCEPT ![cell].value = NULL]
          /\ UNCHANGED <<allocated, made, q, qcnt, cmd, cell, history>>

ReleaseCell ==
  /\ Goto("release_cell", "release")
  /\ allocated' = allocated \ {cell}
  /\ cell' = prev
  /\ UNCHANGED <<heap, strings, made, q, qcnt, cmd, prev, history>>

ReleasedAll ==
  /\ pc = "release"
  /\ cell = NULL
  /\ made' = FALSE
  /\ q' = Empty
  /\ qcnt' = 0
  /\ trusted' = TRUE
  /\ Return
  /\ UNCHANGED <<memory, alarms, segv>>

-----------------------------------------------------------------------------
Command ==
  \/ New \/ RemoveHead \/ StartReverse \/ StartFree
  \/ \E op \in {"ih", "it"}, value \in Values : StartInsert(op, value)

Step ==
  \/ ValueFails \/ Value \/ Push \/ First \/ LinkTail \/ SetTail \/ Only \/ Grow \/ Count
  \/ FreeValue \/ FreeCell \/ Shrink \/ Uncount
  \/ Turn \/ TurnedAll \/ Retail \/ Rehead
  \/ Release \/ ReleaseCell \/ ReleasedAll

Next == Command \/ Step \/ Alarm \/ (pc = "corrupt" /\ UNCHANGED vars)

Spec == Init /\ [][Next]_vars
=============================================================================
