------------------------------ MODULE Harness ------------------------------
(* qtest's commands (qtest.c) on the malloc, free and exceptions of         *)
(* harness.c, around a queue that may do anything with what it is given:    *)
(* leak, free twice, write past a block, use bad addresses, never return,   *)
(* and return what it likes. Qtest has the queue of queue.c instead.        *)
(* A longjmp goes back into exception_setup, which has returned: compiled   *)
(* as the Makefile does (-O0), its return address is by then the one of     *)
(* the last call its caller made, and that call seems to return false.      *)
EXTENDS Integers, Sequences, FiniteSets

CONSTANTS Blocks, Levels, Reps,
          fail_limit, big_queue_size,
          SizeBits     \* bits of a size_t

VARIABLES
  allocated, allocated_count,      \* the list of blocks, newest first, and its length
  magic, footer,                   \* blocks whose magic header and footer are intact
  cautious_mode, noallocate_mode, error_occurred,
  jmp_ready, time_limited,         \* an alarm is set while time_limited
  verblevel, q, qcnt, fail_count,  \* q: is it non-NULL?
  pc, cmd, op,                     \* the command, and what it calls: new may call free first
  ok, rval, r,                     \* locals; between commands ok is the last one's result
  reported, late                   \* history: an ERROR was printed; the alarm came after the call
blocks    == <<allocated, allocated_count, magic, footer>>
modes     == <<cautious_mode, noallocate_mode>>
exception == <<jmp_ready, time_limited>>
queue     == <<q, qcnt, fail_count>>
harnessVars == <<blocks, modes, error_occurred, exception, verblevel, queue, pc, cmd, op, ok, rval, r, reported, late>>

Inserts == {"ih", "it"}
Removes == {"rh", "rhq"}
HarnessInit ==
  /\ allocated = <<>> /\ allocated_count = 0 /\ magic = {} /\ footer = {}
  /\ cautious_mode = TRUE /\ noallocate_mode = FALSE /\ error_occurred = FALSE
  /\ jmp_ready = FALSE /\ time_limited = FALSE
  /\ verblevel \in Levels
  /\ q = FALSE /\ qcnt = 0 /\ fail_count = 0
  /\ pc = "prompt" /\ cmd = [name |-> "none", reps |-> 0, check |-> FALSE, bad |-> FALSE] /\ op = "none"
  /\ ok = TRUE /\ rval = FALSE /\ r = 0 /\ reported = FALSE /\ late = FALSE

-----------------------------------------------------------------------------
(* malloc and free as the queue gets them.                                  *)
InLibrary == pc = "call"
Exit == /\ pc' = "exited"
        /\ UNCHANGED <<blocks, modes, error_occurred, exception, verblevel, queue, cmd, op, ok, rval, r, reported, late>>
test_malloc ==
  /\ InLibrary
  /\ IF noallocate_mode THEN Exit
     ELSE /\ \E b \in Blocks \ {allocated[i] : i \in DOMAIN allocated} :
               /\ allocated' = <<b>> \o allocated
               /\ magic' = magic \cup {b} /\ footer' = footer \cup {b}
          /\ allocated_count' = allocated_count + 1
          /\ UNCHANGED <<modes, error_occurred, exception, verblevel, queue, pc, cmd, op, ok, rval, r, reported, late>>

(* SIGALRM and SIGSEGV: trigger_exception, the rest of exception_setup.     *)
Longjmp ==
  /\ error_occurred' = TRUE /\ reported' = TRUE
  /\ jmp_ready' = FALSE /\ time_limited' = FALSE
(* Back in the command, where the library's call returns false.             *)
Cut ==
  /\ InLibrary /\ jmp_ready
  /\ Longjmp /\ pc' = "after" /\ rval' = FALSE
  /\ UNCHANGED <<blocks, modes, verblevel, queue, cmd, op, ok, r, late>>
(* The alarm comes when the library has returned.                           *)
LateAlarm ==
  /\ pc \in {"after", "cancel"} /\ time_limited
  /\ Longjmp /\ late' = TRUE
  /\ rval' \in {rval, FALSE} /\ q' = (q /\ (op = "new" => rval'))
  /\ UNCHANGED <<blocks, modes, verblevel, qcnt, fail_count, pc, cmd, op, ok, r>>

(* find_header and the footer tell a block that was written over; it is     *)
(* given back all the same.                                                 *)
test_free(i) ==
  LET b == allocated[i]
      damaged == b \notin magic \cap footer IN
  /\ InLibrary /\ ~noallocate_mode
  /\ error_occurred' = (error_occurred \/ damaged) /\ reported' = (reported \/ damaged)
  /\ allocated' = SubSeq(allocated, 1, i - 1) \o SubSeq(allocated, i + 1, Len(allocated))
  /\ allocated_count' = allocated_count - 1
  /\ magic' = magic \ {b} /\ footer' = footer \ {b}
  /\ UNCHANGED <<modes, exception, verblevel, queue, pc, cmd, op, ok, rval, r, late>>
(* What is not a block is unlinked from wherever its bytes point to and     *)
(* given to free: SIGSEGV (Cut), or the end. In noallocate mode, the end.   *)
FreeUnallocated == InLibrary /\ Exit
Damage ==
  /\ InLibrary
  /\ \E i \in DOMAIN allocated :
       \/ magic' = magic \ {allocated[i]} /\ UNCHANGED footer
       \/ footer' = footer \ {allocated[i]} /\ UNCHANGED magic
  /\ UNCHANGED <<allocated, allocated_count, modes, error_occurred, exception, verblevel, queue,
                 pc, cmd, op, ok, rval, r, reported, late>>
LibraryReturns ==
  /\ InLibrary /\ pc' = "after" /\ rval' \in BOOLEAN
  /\ UNCHANGED <<blocks, modes, error_occurred, exception, verblevel, queue, cmd, op, ok, r, reported, late>>

-----------------------------------------------------------------------------
(* The first half of a command: error_check, the modes, exception_setup.    *)
Enter(name, reps) ==
  /\ op' = name /\ r' = 0
  /\ cautious_mode' = ~(name \in {"free", "quit"} /\ qcnt > big_queue_size)
  /\ noallocate_mode' = (name = "reverse")
  /\ pc' = IF name = "show" THEN "show" ELSE IF reps > 0 THEN "call" ELSE "cancel"
  /\ jmp_ready' = (name # "show") /\ time_limited' = (name # "show")
Begin(name, reps, check, bad) ==
  LET refused == bad /\ name # "size" IN
  /\ pc = "prompt"
  /\ cmd' = [name |-> name, reps |-> reps, check |-> check, bad |-> bad]
  /\ reported' = bad /\ late' = FALSE /\ ok' = ~refused /\ rval' = FALSE
  /\ IF refused THEN UNCHANGED <<modes, error_occurred, exception, pc, op, r>>
     ELSE /\ error_occurred' = (error_occurred /\ name \in {"show", "quit"})
          /\ Enter(IF name = "new" /\ q THEN "free" ELSE name, reps)
  /\ UNCHANGED <<blocks, verblevel, queue>>

Wrap(n) == n % 2^SizeBits
(* A failure counts; from the fail_limit-th on it is an error.              *)
Fails(checked) ==
  /\ fail_count' = IF fail_count < fail_limit THEN fail_count + 1 ELSE fail_count
  /\ LET error == checked \/ fail_count' >= fail_limit IN ok' = (ok /\ ~error) /\ reported' = (reported \/ error)
(* ok = ok && !error_check() *)
Check_forgotten(result) == ok' = result /\ UNCHANGED error_occurred   \* mutant: error_check is not asked
Check(result) == ok' = (result /\ ~error_occurred) /\ error_occurred' = (error_occurred /\ ~result)
Again == /\ r' = r + 1
         /\ pc' = IF ok' /\ r + 1 < cmd.reps THEN "call" ELSE "cancel"

(* The insertion looks at the new head's string: a good one, NULL, the      *)
(* argument's or the one before's, or one at a bad address.                 *)
AfterInsert(name, value, same) ==
  /\ pc = "after" /\ op = name
  /\ IF rval /\ value = "bad"
     THEN /\ jmp_ready /\ Longjmp /\ rval' = FALSE /\ qcnt' = Wrap(qcnt + 1)
          /\ UNCHANGED <<q, fail_count, pc, ok, r>>
     ELSE /\ UNCHANGED <<exception, q, rval>>
          /\ IF rval /\ same
             THEN /\ qcnt' = Wrap(qcnt + 1) /\ ok' = FALSE /\ reported' = TRUE /\ pc' = "cancel"
                  /\ UNCHANGED <<fail_count, error_occurred, r>>
             ELSE LET fine == IF rval THEN value # "NULL" ELSE fail_count + 1 < fail_limit IN
                  /\ IF rval THEN qcnt' = Wrap(qcnt + 1) /\ UNCHANGED fail_count
                             ELSE fail_count' = (IF fail_count < fail_limit THEN fail_count + 1 ELSE fail_count)
                                  /\ UNCHANGED qcnt
                  /\ reported' = (reported \/ ~fine)
                  /\ Check(ok /\ fine) /\ Again
  /\ UNCHANGED <<blocks, modes, verblevel, cmd, op, late>>
do_insert_head(value) == AfterInsert("ih", value, <<value, r>> \in {<<"argument", 0>>, <<"last", 1>>})
do_insert_tail(value) == AfterInsert("it", value, FALSE)
AfterSize ==
  /\ pc = "after" /\ op = "size"
  /\ Check(ok) /\ Again
  /\ UNCHANGED <<blocks, modes, exception, verblevel, queue, cmd, op, rval, reported, late>>
AfterOther ==
  /\ pc = "after" /\ op \notin Inserts \cup {"size"}
  /\ pc' = "cancel" /\ q' = IF op = "new" THEN rval ELSE q
  /\ UNCHANGED <<blocks, modes, error_occurred, exception, verblevel, qcnt, fail_count, cmd, op, ok, rval, r, reported, late>>

-----------------------------------------------------------------------------
(* exception_cancel, and what follows up to show_queue.                     *)
Cancel_cut ==   \* mutant: a reversal that is cut off leaves noallocate_mode
  /\ jmp_ready' = FALSE /\ time_limited' = FALSE
  /\ cautious_mode' = TRUE /\ noallocate_mode' = (noallocate_mode /\ ~jmp_ready)
  /\ pc' = IF op = "quit" THEN "return" ELSE "show"
Cancel ==
  /\ jmp_ready' = FALSE /\ time_limited' = FALSE
  /\ cautious_mode' = TRUE /\ noallocate_mode' = FALSE
  /\ pc' = IF op = "quit" THEN "return" ELSE "show"
Finish ==
  /\ pc = "cancel" /\ op \notin Removes \cup {"size"}
  /\ Cancel
  /\ q' = (q /\ op # "free") /\ qcnt' = IF op \in {"new", "free"} THEN 0 ELSE qcnt
  /\ LET leak == op = "quit" /\ allocated_count > 0 IN ok' = (ok /\ ~leak) /\ reported' = (reported \/ leak)
  /\ UNCHANGED <<blocks, error_occurred, verblevel, fail_count, cmd, op, rval, r, late>>
(* What q_remove_head put in the buffer: the expected string, another one,  *)
(* nothing, or too much.                                                    *)
FinishRemove(name, error) ==
  /\ pc = "cancel" /\ op = name
  /\ Cancel
  /\ IF rval
     THEN /\ qcnt' = Wrap(qcnt - 1) /\ ok' = ~error /\ reported' = (reported \/ error)
          /\ UNCHANGED fail_count
     ELSE Fails(name = "rh" /\ cmd.check) /\ UNCHANGED qcnt
  /\ UNCHANGED <<blocks, error_occurred, verblevel, q, cmd, op, rval, r, late>>
do_remove_head(removed) ==
  FinishRemove("rh", removed \in {"nothing", "too much"} \/ (cmd.check /\ removed = "other"))
do_remove_head_quiet == FinishRemove("rhq", FALSE)
FinishSize(right) ==
  /\ pc = "cancel" /\ op = "size"
  /\ Cancel
  /\ ok' = (ok /\ right) /\ reported' = (reported \/ (ok /\ ~right))
  /\ UNCHANGED <<blocks, error_occurred, verblevel, queue, cmd, op, rval, r, late>>

(* show_queue. Its walk checks for errors; the commands ignore its result.  *)
show_queue(length) ==
  LET walked == length > 0 /\ qcnt > 0
      error  == walked /\ error_occurred
      cycle  == ~error /\ length > qcnt IN
  /\ pc = "show" /\ pc' = "return"
  /\ IF q /\ (op = "show" \/ verblevel >= 3)
     THEN /\ error_occurred' = (error_occurred /\ ~walked)
          /\ reported' = (reported \/ cycle)
          /\ ok' = IF op = "show" THEN ~error /\ ~cycle ELSE ok
     ELSE UNCHANGED <<error_occurred, reported, ok>>
  /\ UNCHANGED <<blocks, modes, exception, verblevel, queue, cmd, op, rval, r, late>>
(* A bad address, at last without a place to jump to.                       *)
BadAddress ==
  /\ \/ pc = "show" /\ q /\ (op = "show" \/ verblevel >= 3)
     \/ pc = "after" /\ op \in Inserts /\ rval /\ ~jmp_ready
  /\ Exit

(* The command's result; do_new goes on when it has freed the old queue.    *)
Return ==
  LET leak   == op = "free" /\ allocated_count > 0
      checks == op \notin Inserts \cup {"show", "quit"}
      result == ok /\ ~leak /\ ~(checks /\ error_occurred) IN
  /\ pc = "return"
  /\ ok' = result /\ reported' = (reported \/ leak)
  /\ IF cmd.name = "new" /\ op = "free"
     THEN error_occurred' = FALSE /\ Enter("new", 1)
     ELSE /\ error_occurred' = (error_occurred /\ ~(checks /\ ok /\ ~leak))
          /\ pc' = (IF op = "quit" THEN "exited" ELSE "prompt") /\ op' = "none" /\ r' = 0
          /\ UNCHANGED <<modes, exception>>
  /\ rval' = FALSE
  /\ UNCHANGED <<blocks, verblevel, queue, cmd, late>>

-----------------------------------------------------------------------------
HarnessNext ==
  \/ \E name \in {"new", "free", "reverse", "show", "quit", "rhq"}, bad \in BOOLEAN : Begin(name, 1, FALSE, bad)
  \/ \E name \in Inserts \cup {"size"}, reps \in Reps, bad \in BOOLEAN : Begin(name, reps, FALSE, bad)
  \/ \E check, bad \in BOOLEAN : Begin("rh", 1, check, bad)
  \/ test_malloc \/ (\E i \in DOMAIN allocated : test_free(i)) \/ FreeUnallocated \/ Damage
  \/ LibraryReturns \/ Cut \/ LateAlarm
  \/ (\E value \in {"good", "NULL", "argument", "last", "bad"} : do_insert_head(value) \/ do_insert_tail(value)) \/ AfterSize \/ AfterOther
  \/ Finish \/ (\E removed \in {"expected", "other", "nothing", "too much"} : do_remove_head(removed)) \/ do_remove_head_quiet
  \/ (\E right \in BOOLEAN : FinishSize(right))
  \/ (\E length \in 0..2 : show_queue(length)) \/ BadAddress \/ Return

-----------------------------------------------------------------------------
(* With little output, a command fails exactly when it has printed an       *)
(* ERROR: no error of the queue is lost on the way through the flag, the    *)
(* jumps and the loops, and none is held against a later command            *)
(* (error_check). Not so for a time limit that expires after the call, for  *)
(* show, which takes over old errors, and for size with a bad number.       *)
ResultMatchesReport ==
  pc = "prompt" /\ verblevel < 3 /\ ~late /\ cmd.name # "show" /\ ~(cmd.name = "size" /\ cmd.bad) =>
    (ok <=> ~reported)

(* However a command ends, the next one starts with the checks on, no jump  *)
(* and no alarm prepared, malloc allowed, and a true count of the blocks;   *)
(* a free that succeeds has left none (exception_cancel, set_*_mode).       *)
HarnessIsReset ==
  pc = "prompt" =>
    /\ ~jmp_ready /\ ~time_limited /\ cautious_mode /\ ~noallocate_mode
    /\ allocated_count = Len(allocated)
    /\ cmd.name = "free" /\ ok => allocated = <<>>
=============================================================================
