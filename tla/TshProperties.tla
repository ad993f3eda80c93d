--------------------------- MODULE TshProperties ---------------------------
(***************************************************************************)
(* What the tiny shell must satisfy: invariants, action properties and     *)
(* liveness of Tsh, and its refinement of JobControl.                      *)
(***************************************************************************)
EXTENDS Tsh

Live(jid)    == jobs[jid].state # "UNDEF"
IsListed(pid) == \E jid \in JobIds : Live(jid) /\ jobs[jid].pid = pid
IsFg(pid)     == \E jid \in JobIds : jobs[jid] = [pid |-> pid, state |-> "FG"]

(* The header of tsh_helper.c promises at most one job in the foreground.  *)
(* It is kept by the wait loops of eval and do_bgfg, by fg_job scanning    *)
(* every slot and by the checks of add_job and job_set_state together.     *)
AtMostOneFg ==
  \A i, k \in JobIds : jobs[i].state = "FG" /\ jobs[k].state = "FG" => i = k

(* While main is anywhere but in a wait loop, no job has the foreground:   *)
(* eval never returns to the prompt over a running foreground job.         *)
OnlyWaitingHasFg ==
  pc \in {"prompt", "addjob", "bgfg_check", "bgfg_act", "cleanup"} =>
    \A jid \in JobIds : jobs[jid].state # "FG"

(* A listed job is a child that waitpid has not returned yet, and no two   *)
(* jobs are the same child.  So the pid a handler or do_bgfg passes to     *)
(* kill is never one the kernel has given to somebody else since.          *)
JobsAreChildren ==
  /\ \A jid \in JobIds : Live(jid) => /\ jobs[jid].pid \in Pids
                                      /\ child[jobs[jid].pid] # "none"
  /\ \A i, k \in JobIds : Live(i) /\ Live(k) /\ jobs[i].pid = jobs[k].pid => i = k

(* A child is listed until it is reaped, once eval has listed it, unless   *)
(* the list was full: it is never reaped before add_job (QUESTIONS.txt,    *)
(* question 4) and never forgotten.                                        *)
ChildrenListed ==
  pc \notin {"addjob", "abort_add_job", "exited"} =>
    \A pid \in Pids : child[pid] # "none" => IsListed(pid) \/ pid \in unlisted

(* nextjid is one past the largest ID in use, so the slot add_job takes    *)
(* next is free (the assertion in add_job).                                *)
NextJidIsFree ==
  /\ \A jid \in JobIds : Live(jid) => jid < nextjid
  /\ nextjid > 1 => Live(nextjid - 1)

(* A child that stopped or ended is never waiting for a SIGCHLD that was   *)
(* merged into an earlier one and is gone (QUESTIONS.txt, question 3).     *)
NoLostSigchld ==
  Alive /\ "CHLD" \in installed /\ (\E pid \in Pids : child[pid] \in Reportable) =>
    "CHLD" \in pending \/ reaping

(* A job is ST exactly when the shell has been told that its process       *)
(* stopped, up to the process ending since: fg_job never waits for a       *)
(* process known to be stopped, and a stopped job is never one that runs.  *)
StoppedJobIsStopped ==
  \A jid \in JobIds : Live(jid) =>
    /\ child[jobs[jid].pid] = "stopped" => jobs[jid].state = "ST"
    /\ jobs[jid].state = "ST" => child[jobs[jid].pid] \in {"stopped", "zombie"}

(* The IF branches of add_job that abort are not reached: no foreground    *)
(* job is there when a second is added, and no job is overwritten.         *)
AddJobNeverAborts == pc # "abort_add_job"

(* Parts of the inductive invariant only.  While main adds a job or tests  *)
(* fg_job, no handler runs (check_blocked); the command main has in hand   *)
(* is one it may act on, and a child it is about to list has neither been  *)
(* reaped nor listed.                                                      *)
HandlersKeepOut ==
  pc \in {"addjob", "fgwait"} => blocked /\ ~reaping

CommandInHand ==
  /\ pc \in {"addjob", "bgfg_check", "bgfg_act"} => cur.state \in CmdState
  /\ pc = "addjob" => /\ cur.pid \in Pids
                      /\ child[cur.pid] # "none"
                      /\ ~IsListed(cur.pid)

(* The invariant that every step preserves: the signal masks and the wait  *)
(* loops keep the list, the children and main consistent with each other.  *)
TshInv ==
  /\ TypeOK
  /\ AtMostOneFg
  /\ OnlyWaitingHasFg
  /\ JobsAreChildren
  /\ NextJidIsFree
  /\ AddJobNeverAborts
  /\ HandlersKeepOut
  /\ CommandInHand

(* A child main has forked and not listed yet has not been seen by waitpid *)
(* and is the only one that is neither listed nor known to be unlisted.    *)
OnlyNewIsUnlisted ==
  pc = "addjob" =>
    /\ child[cur.pid] # "stopped"
    /\ \A pid \in Pids \ {cur.pid} : child[pid] # "none" => IsListed(pid) \/ pid \in unlisted

(* What the shell knows of its children, from fork to the last waitpid.    *)
ChildrenInv ==
  /\ ChildrenListed
  /\ OnlyNewIsUnlisted
  /\ NoLostSigchld
  /\ StoppedJobIsStopped

(* The invariant of the whole shell (tsh.c): the list is consistent, and   *)
(* it tells the truth about the children.                                  *)
ShellInv == TshInv /\ ChildrenInv

-----------------------------------------------------------------------------
(* Liveness. *)

(* A child that ended is reaped, unless the shell ends first.              *)
ZombiesReaped ==
  \A pid \in Pids :
    child[pid] = "zombie" /\ pc # "cleanup" /\ Alive
      ~> child[pid] # "zombie" \/ pc = "cleanup" \/ ~Alive

(* When the foreground job stops or ends, the shell comes back to the      *)
(* prompt: the wakeup is not lost between the test of fg_job and           *)
(* sigsuspend.                                                             *)
PromptReturns ==
  \A pid \in Pids :
    IsFg(pid) /\ child[pid] \in Reportable ~> pc = "prompt" \/ ~Alive

(* A Ctrl-C that has reached the program in the foreground gives the user  *)
(* the prompt back: the program ends or stops, and the shell notices.      *)
CtrlCEndsForeground ==
  \A pid \in Pids :
    IsFg(pid) /\ child[pid] = "run" /\ "INT" \in childPending[pid]
      ~> ~IsFg(pid) \/ ~Alive

-----------------------------------------------------------------------------
(* A statement of the sources that the code does not keep. *)

(* tsh_helper.h: job_get_pid needs a valid job ID.  do_bgfg checks the ID, *)
(* drops the mask and asks for the pid.                                    *)
CheckedJobIsThere == pc # "abort_job_get_pid"

-----------------------------------------------------------------------------
(* The job list as the user sees it. *)
TableOf(pid) == IF job_from_pid(jobs, pid) = 0
                THEN "none" ELSE jobs[job_from_pid(jobs, pid)].state

JC == INSTANCE JobControl WITH table <- [pid \in Pids |-> TableOf(pid)]

(* Every step of the shell is a step of JobControl or leaves the table     *)
(* alone: no command is taken while a job has the foreground.              *)
ImplementsJobControl == JC!Spec
=============================================================================
