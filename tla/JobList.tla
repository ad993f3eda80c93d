------------------------------ MODULE JobList ------------------------------
(***************************************************************************)
(* The job list of the tiny shell (tsh_helper.c): an array of MAXJOBS      *)
(* slots indexed by job ID, and the counter nextjid.  The C functions are  *)
(* translated as operators that take the list as an argument, so that the  *)
(* main program and the signal handlers of Tsh.tla can call them.  The     *)
(* command line kept in a slot is never looked at by any of them and is    *)
(* left out.                                                               *)
(***************************************************************************)
EXTENDS Integers

CONSTANTS MAXJOBS,  \* number of slots of the list (64 in tsh_helper.h)
          Pids,     \* process IDs the kernel may hand out
          NoPid     \* the pid of a cleared slot (0 in the code)

ASSUME JobListAssumption ==
  /\ MAXJOBS \in Nat \ {0}
  /\ NoPid \notin Pids

JobIds   == 1..MAXJOBS
JobState == {"UNDEF", "FG", "BG", "ST"}
CmdState == {"FG", "BG"}    \* how a command runs
Job      == [pid : Pids \cup {NoPid}, state : JobState]

clearjob       == [pid |-> NoPid, state |-> "UNDEF"]
init_job_list  == [jid \in JobIds |-> clearjob]

(* What a loop over the slots returns: the first (or last) hit, or 0.      *)
FirstJid(S) == IF S = {} THEN 0 ELSE CHOOSE i \in S : \A k \in S : i <= k
LastJid(S)  == IF S = {} THEN 0 ELSE CHOOSE i \in S : \A k \in S : k <= i

job_exists(jobs, jid) == jid \in JobIds /\ jobs[jid].state # "UNDEF"

maxjid(jobs) == LastJid({jid \in JobIds : job_exists(jobs, jid)})

fg_job_short(jobs) ==      \* mutant: the loop stops one slot early
  FirstJid({jid \in JobIds \ {MAXJOBS} : jobs[jid].state = "FG"})
fg_job(jobs) == FirstJid({jid \in JobIds : jobs[jid].state = "FG"})

job_from_pid(jobs, pid) ==
  FirstJid({jid \in JobIds : job_exists(jobs, jid) /\ jobs[jid].pid = pid})

-----------------------------------------------------------------------------
(* add_job: what it aborts on, when it returns 0 and lists nothing, and    *)
(* what it does to the list and to nextjid.                                *)
add_job_aborts(jobs, nextjid, state) ==
  \/ state = "FG" /\ fg_job(jobs) # 0
  \/ nextjid < 1
  \/ nextjid <= MAXJOBS /\ jobs[nextjid].state # "UNDEF"

add_job_fails(nextjid) == nextjid > MAXJOBS

add_job(jobs, nextjid, pid, state) ==
  IF add_job_aborts(jobs, nextjid, state) \/ add_job_fails(nextjid)
  THEN [jobs |-> jobs, nextjid |-> nextjid]
  ELSE [jobs    |-> [jobs EXCEPT ![nextjid] = [pid |-> pid, state |-> state]],
        nextjid |-> nextjid + 1]

(* delete_job clears the slot and recomputes nextjid; with an ID that does *)
(* not exist it returns false and changes nothing.                         *)
delete_job_stale_next(jobs, nextjid, jid) ==  \* mutant: reuse the freed ID
  IF job_exists(jobs, jid)
  THEN [jobs |-> [jobs EXCEPT ![jid] = clearjob], nextjid |-> jid]
  ELSE [jobs |-> jobs, nextjid |-> nextjid]
delete_job(jobs, nextjid, jid) ==
  IF job_exists(jobs, jid)
  THEN LET left == [jobs EXCEPT ![jid] = clearjob]
       IN  [jobs |-> left, nextjid |-> maxjid(left) + 1]
  ELSE [jobs |-> jobs, nextjid |-> nextjid]

(* require_job_exists and require_valid_state: what job_set_state aborts   *)
(* on.                                                                     *)
job_set_state_ok(jobs, jid, state) ==
  /\ job_exists(jobs, jid)
  /\ state \in {"FG", "BG", "ST"}
  /\ state = "FG" => fg_job(jobs) = 0

job_set_state(jobs, jid, state) == [jobs EXCEPT ![jid].state = state]
=============================================================================
