-------------------------------- MODULE Tsh --------------------------------
(***************************************************************************)
(* The tiny shell (tsh.c): its read/eval loop, the signal handlers that    *)
(* interrupt it, and the children it forks.  The shell is one thread; a    *)
(* handler runs on top of main, which stands still until it returns.       *)
(*                                                                         *)
(* sigint_handler and sigtstp_handler block every signal around all they   *)
(* do, so each is one step.  sigchld_handler is several steps (variable    *)
(* reaping), because children change state between two calls of waitpid.   *)
(***************************************************************************)
EXTENDS JobList

VARIABLES
  jobs, nextjid,  \* the job list
  pc, cur,        \* where main is, and the locals it keeps across steps
  blocked,        \* TRUE iff main has every signal blocked
  reaping,        \* TRUE iff the loop of sigchld_handler is running
  installed,      \* the signals whose handler is still installed
  pending,        \* the signals the kernel holds for the shell
  child,          \* what each process is doing
  childPending,   \* the signals the kernel holds for each process
  unlisted        \* history: children whose add_job failed, not yet reaped

shell == <<jobs, nextjid, pc, cur, blocked, reaping, installed, pending, unlisted>>
kids  == <<child, childPending>>
vars  == <<shell, kids>>

(* young: forked, still in the shell's process group; grouped: past        *)
(* setpgid, with the shell's handlers; run: past execve; stop_new: stopped *)
(* and not yet reported by waitpid; stopped: reported.                     *)
ChildState == {"none", "young", "grouped", "run", "stop_new", "stopped", "zombie"}
InGroup    == {"grouped", "run", "stop_new", "stopped"}
Reportable == {"stop_new", "zombie"}

Aborted == {"abort_add_job", "abort_job_get_pid", "abort_job_set_state"}
Dead    == {"exited", "killed"} \cup Aborted
PC == {"prompt", "addjob", "fgwait", "suspend", "woken",
       "bgfg_check", "bgfg_act", "cleanup"} \cup Dead

NoCmd == [pid |-> NoPid, jid |-> 0, state |-> "UNDEF"]
Cmd   == [pid : Pids \cup {NoPid}, jid : 0..(MAXJOBS + 1), state : JobState]

Alive     == pc \notin Dead
At(label) == pc = label /\ ~reaping

TypeOK ==
  /\ jobs \in [JobIds -> Job]
  /\ nextjid \in 1..(MAXJOBS + 1)
  /\ pc \in PC
  /\ cur \in Cmd
  /\ blocked \in BOOLEAN
  /\ reaping \in BOOLEAN
  /\ installed \subseteq {"INT", "TSTP", "CHLD"}
  /\ pending \subseteq {"INT", "TSTP", "CHLD"}
  /\ child \in [Pids -> ChildState]
  /\ childPending \in [Pids -> SUBSET {"INT", "TSTP"}]
  /\ unlisted \subseteq Pids

(* main has initialised the list and installed the handlers.               *)
Init ==
  /\ jobs = init_job_list
  /\ nextjid = 1
  /\ pc = "prompt"
  /\ cur = NoCmd
  /\ blocked = FALSE
  /\ reaping = FALSE
  /\ installed = {"INT", "TSTP", "CHLD"}
  /\ pending = {}
  /\ child = [p \in Pids |-> "none"]
  /\ childPending = [p \in Pids |-> {}]
  /\ unlisted = {}

-----------------------------------------------------------------------------
(* eval: block every signal and fork.  The child is a process like any     *)
(* other from here on; the parent still has to list it.                    *)
EvalFork_unblocked(pid, state) ==    \* mutant: fork before blocking
  /\ At("prompt")
  /\ child[pid] = "none"
  /\ child' = [child EXCEPT ![pid] = "young"]
  /\ cur' = [pid |-> pid, jid |-> 0, state |-> state]
  /\ pc' = "addjob"
  /\ UNCHANGED <<jobs, nextjid, blocked, reaping, installed, pending, childPending, unlisted>>
EvalFork(pid, state) ==
  /\ At("prompt")
  /\ child[pid] = "none"
  /\ child' = [child EXCEPT ![pid] = "young"]
  /\ cur' = [pid |-> pid, jid |-> 0, state |-> state]
  /\ pc' = "addjob"
  /\ blocked' = TRUE
  /\ UNCHANGED <<jobs, nextjid, reaping, installed, pending, childPending, unlisted>>

(* fork returned -1: exit(1), with every signal still blocked.             *)
EvalForkFails ==
  /\ At("prompt")
  /\ blocked' = TRUE
  /\ pc' = "cleanup"
  /\ UNCHANGED <<jobs, nextjid, cur, reaping, installed, pending, unlisted, kids>>

(* eval: list the child.  A foreground job is then waited for, even when   *)
(* add_job returned 0; a background job is announced and signals are       *)
(* unblocked.                                                              *)
AddJob ==
  /\ At("addjob")
  /\ LET added == add_job(jobs, nextjid, cur.pid, cur.state)
     IN  jobs' = added.jobs /\ nextjid' = added.nextjid
  /\ pc' = IF add_job_aborts(jobs, nextjid, cur.state) THEN "abort_add_job"
           ELSE IF cur.state = "FG" THEN "fgwait" ELSE "prompt"
  /\ unlisted' = IF add_job_fails(nextjid) THEN unlisted \cup {cur.pid} ELSE unlisted
  /\ blocked' = (pc' # "prompt")
  /\ cur' = NoCmd
  /\ UNCHANGED <<reaping, installed, pending, kids>>

(* The wait loop of eval and do_bgfg: while fg_job() # 0, sigsuspend with  *)
(* the empty mask.                                                         *)
FgDone ==
  /\ At("fgwait")
  /\ fg_job(jobs) = 0
  /\ pc' = "prompt"
  /\ blocked' = FALSE
  /\ UNCHANGED <<jobs, nextjid, cur, reaping, installed, pending, unlisted, kids>>

FgSuspend ==
  /\ At("fgwait")
  /\ fg_job(jobs) # 0
  /\ pc' = "suspend"
  /\ blocked' = FALSE
  /\ UNCHANGED <<jobs, nextjid, cur, reaping, installed, pending, unlisted, kids>>

(* sigsuspend returns once a handler has run, and restores the mask.  More *)
(* handlers may run before it does.                                        *)
SuspendReturns_once ==    \* mutant: if instead of while around sigsuspend
  /\ At("woken")
  /\ pc' = "prompt"
  /\ UNCHANGED <<jobs, nextjid, cur, blocked, reaping, installed, pending, unlisted, kids>>
SuspendReturns ==
  /\ At("woken")
  /\ pc' = "fgwait"
  /\ blocked' = TRUE
  /\ UNCHANGED <<jobs, nextjid, cur, reaping, installed, pending, unlisted, kids>>

-----------------------------------------------------------------------------
(* do_bgfg.  A pid is looked up under the mask, which is then dropped; the *)
(* job ID is checked under the mask, which is dropped again; the job is    *)
(* used under the mask.                                                    *)
BgFgByPid(pid, state) ==
  /\ At("prompt")
  /\ job_from_pid(jobs, pid) # 0
  /\ cur' = [pid |-> NoPid, jid |-> job_from_pid(jobs, pid), state |-> state]
  /\ pc' = "bgfg_check"
  /\ UNCHANGED <<jobs, nextjid, blocked, reaping, installed, pending, unlisted, kids>>

BgFgByJid(jid, state) ==
  /\ At("prompt")
  /\ cur' = [pid |-> NoPid, jid |-> jid, state |-> state]
  /\ pc' = "bgfg_check"
  /\ UNCHANGED <<jobs, nextjid, blocked, reaping, installed, pending, unlisted, kids>>

BgFgCheck ==
  /\ At("bgfg_check")
  /\ IF job_exists(jobs, cur.jid)
     THEN pc' = "bgfg_act" /\ cur' = cur
     ELSE pc' = "prompt"   /\ cur' = NoCmd
  /\ UNCHANGED <<jobs, nextjid, blocked, reaping, installed, pending, unlisted, kids>>

(* kill(-pid, SIGCONT): a stopped process runs again and loses its pending *)
(* stop signal, and the shell gets a SIGCHLD for the continuation.  There  *)
(* is no such group before the child's setpgid.                            *)
Continue(pid) ==
  /\ childPending' = IF child[pid] \in InGroup
                     THEN [childPending EXCEPT ![pid] = @ \ {"TSTP"}]
                     ELSE childPending
  /\ IF child[pid] \in {"stop_new", "stopped"}
     THEN /\ child' = [child EXCEPT ![pid] = "run"]
          /\ pending' = pending \cup {"CHLD"}
     ELSE UNCHANGED <<child, pending>>

(* job_get_pid, job_get_cmdline and job_set_state abort when the job is    *)
(* gone; job_set_state also when another job has the foreground.           *)
BgFgAct ==
  /\ At("bgfg_act")
  /\ cur' = NoCmd
  /\ IF job_set_state_ok(jobs, cur.jid, cur.state)
     THEN /\ jobs' = job_set_state(jobs, cur.jid, cur.state)
          /\ Continue(jobs[cur.jid].pid)
          /\ pc' = IF cur.state = "FG" THEN "fgwait" ELSE "prompt"
     ELSE /\ pc' = IF job_exists(jobs, cur.jid) THEN "abort_job_set_state"
                                                ELSE "abort_job_get_pid"
          /\ UNCHANGED <<jobs, pending, kids>>
  /\ blocked' = (pc' # "prompt")
  /\ UNCHANGED <<nextjid, reaping, installed, unlisted>>

(* quit, or end of file on standard input.                                 *)
Quit ==
  /\ At("prompt")
  /\ pc' = "cleanup"
  /\ UNCHANGED <<jobs, nextjid, cur, blocked, reaping, installed, pending, unlisted, kids>>

(* cleanup, run by exit: the default action is restored for SIGINT,        *)
(* SIGTSTP and SIGCHLD in this order (which drops a pending SIGCHLD), then *)
(* the list is destroyed.                                                  *)
Uninstall(sig) ==
  /\ At("cleanup")
  /\ sig \in installed
  /\ sig = "TSTP" => "INT" \notin installed
  /\ sig = "CHLD" => installed = {"CHLD"}
  /\ installed' = installed \ {sig}
  /\ pending' = IF sig = "CHLD" THEN pending \ {"CHLD"} ELSE pending
  /\ UNCHANGED <<jobs, nextjid, pc, cur, blocked, reaping, unlisted, kids>>

DestroyJobList ==
  /\ At("cleanup")
  /\ installed = {}
  /\ jobs' = init_job_list
  /\ nextjid' = 1
  /\ pc' = "exited"
  /\ UNCHANGED <<cur, blocked, reaping, installed, pending, unlisted, kids>>

-----------------------------------------------------------------------------
(* Delivery of a pending signal to the shell: no handler is running and    *)
(* main has not blocked it.  Any handler ends a sigsuspend.                *)
Deliver(sig) ==
  /\ Alive /\ ~reaping /\ ~blocked
  /\ sig \in pending
  /\ sig \in installed

Resumed == IF pc = "suspend" THEN "woken" ELSE pc

(* kill(-pid, sig) for the foreground job, if there is one.  It reaches    *)
(* the processes of the group pid, which exists from setpgid on.           *)
SignalForeground(sig) ==
  LET pid == jobs[fg_job(jobs)].pid
  IN  childPending' = IF fg_job(jobs) # 0 /\ child[pid] \in InGroup
                      THEN [childPending EXCEPT ![pid] = @ \cup {sig}]
                      ELSE childPending

(* sigint_handler and sigtstp_handler.                                     *)
HandleKeyboard(sig) ==
  /\ Deliver(sig)
  /\ sig # "CHLD"
  /\ SignalForeground(sig)
  /\ pending' = pending \ {sig}
  /\ pc' = Resumed
  /\ UNCHANGED <<jobs, nextjid, cur, blocked, reaping, installed, child, unlisted>>

(* The default action of SIGINT, once cleanup has removed the handler.     *)
DieOfSigint ==
  /\ Alive /\ ~reaping /\ ~blocked
  /\ "INT" \in pending \ installed
  /\ pc' = "killed"
  /\ UNCHANGED <<jobs, nextjid, cur, blocked, reaping, installed, pending, unlisted, kids>>

(* sigquit_handler: _exit(1), from wherever main is.                       *)
HandleQuit ==
  /\ Alive /\ ~reaping /\ ~blocked
  /\ pc' = "killed"
  /\ UNCHANGED <<jobs, nextjid, cur, blocked, reaping, installed, pending, unlisted, kids>>

(* sigchld_handler: block, then the loop of waitpid(-1, WNOHANG|WUNTRACED).*)
EnterReap ==
  /\ Deliver("CHLD")
  /\ pending' = pending \ {"CHLD"}
  /\ reaping' = TRUE
  /\ UNCHANGED <<jobs, nextjid, pc, cur, blocked, installed, unlisted, kids>>

(* waitpid returns a child that exited or was killed: delete its job.      *)
ReapZombie_once(pid) ==    \* mutant: if instead of while around waitpid
  /\ Alive /\ reaping
  /\ child[pid] = "zombie"
  /\ LET left == delete_job(jobs, nextjid, job_from_pid(jobs, pid))
     IN  jobs' = left.jobs /\ nextjid' = left.nextjid
  /\ child' = [child EXCEPT ![pid] = "none"]
  /\ childPending' = [childPending EXCEPT ![pid] = {}]
  /\ unlisted' = unlisted \ {pid}
  /\ reaping' = FALSE
  /\ pc' = Resumed
  /\ UNCHANGED <<cur, blocked, installed, pending>>
ReapZombie_keep(pid) ==    \* mutant: only a killed child loses its job
  /\ Alive /\ reaping
  /\ child[pid] = "zombie"
  /\ child' = [child EXCEPT ![pid] = "none"]
  /\ childPending' = [childPending EXCEPT ![pid] = {}]
  /\ unlisted' = unlisted \ {pid}
  /\ UNCHANGED <<jobs, nextjid, pc, cur, blocked, reaping, installed, pending>>
ReapZombie(pid) ==
  /\ Alive /\ reaping
  /\ child[pid] = "zombie"
  /\ LET left == delete_job(jobs, nextjid, job_from_pid(jobs, pid))
     IN  jobs' = left.jobs /\ nextjid' = left.nextjid
  /\ child' = [child EXCEPT ![pid] = "none"]
  /\ childPending' = [childPending EXCEPT ![pid] = {}]
  /\ unlisted' = unlisted \ {pid}
  /\ UNCHANGED <<pc, cur, blocked, reaping, installed, pending>>

(* waitpid reports a stopped child: its job becomes ST.  job_from_pid      *)
(* returns 0 for a child that is not listed, and job_set_state then aborts.*)
ReapStop_delete(pid) ==    \* mutant: a stopped job is deleted
  /\ Alive /\ reaping
  /\ child[pid] = "stop_new"
  /\ LET left == delete_job(jobs, nextjid, job_from_pid(jobs, pid))
     IN  jobs' = left.jobs /\ nextjid' = left.nextjid
  /\ child' = [child EXCEPT ![pid] = "stopped"]
  /\ UNCHANGED <<pc, cur, blocked, reaping, installed, pending, unlisted, childPending>>
ReapStop_ignore(pid) ==    \* mutant: a stop leaves the job as it is
  /\ Alive /\ reaping
  /\ child[pid] = "stop_new"
  /\ child' = [child EXCEPT ![pid] = "stopped"]
  /\ UNCHANGED <<shell, childPending>>
ReapStop(pid) ==
  /\ Alive /\ reaping
  /\ child[pid] = "stop_new"
  /\ child' = [child EXCEPT ![pid] = "stopped"]
  /\ LET jid == job_from_pid(jobs, pid)
     IN  IF job_set_state_ok(jobs, jid, "ST")
         THEN jobs' = job_set_state(jobs, jid, "ST") /\ pc' = pc
         ELSE jobs' = jobs /\ pc' = "abort_job_set_state"
  /\ UNCHANGED <<nextjid, cur, blocked, reaping, installed, pending, unlisted, childPending>>

(* waitpid returns 0 or -1: leave the handler.                             *)
ReapDone ==
  /\ Alive /\ reaping
  /\ \A pid \in Pids : child[pid] \notin Reportable
  /\ reaping' = FALSE
  /\ pc' = Resumed
  /\ UNCHANGED <<jobs, nextjid, cur, blocked, installed, pending, unlisted, kids>>

-----------------------------------------------------------------------------
(* The user and the kernel.                                                *)
UserSignal(sig) ==
  /\ Alive
  /\ pending' = pending \cup {sig}
  /\ UNCHANGED <<jobs, nextjid, pc, cur, blocked, reaping, installed, unlisted, kids>>

(* The child's side of eval: setpgid(0, 0), then redirection and execve.   *)
ChildSetpgid(pid) ==
  /\ Alive /\ child[pid] = "young"
  /\ child' = [child EXCEPT ![pid] = "grouped"]
  /\ UNCHANGED <<shell, childPending>>

ChildExec(pid) ==
  /\ Alive /\ child[pid] = "grouped"
  /\ child' = [child EXCEPT ![pid] = "run"]
  /\ UNCHANGED <<shell, childPending>>

(* The child ends: a redirection or execve that failed, exit, or a kill    *)
(* from elsewhere.                                                         *)
ChildDies(pid) ==
  /\ Alive /\ child[pid] \notin {"none", "zombie"}
  /\ child' = [child EXCEPT ![pid] = "zombie"]
  /\ childPending' = [childPending EXCEPT ![pid] = {}]
  /\ pending' = pending \cup ({"CHLD"} \cap installed)
  /\ UNCHANGED <<jobs, nextjid, pc, cur, blocked, reaping, installed, unlisted>>

(* Between setpgid and execve the child still has the shell's handlers,    *)
(* whose copy of the job list has no foreground job: nothing happens.      *)
ChildSwallows(pid, sig) ==
  /\ Alive /\ child[pid] = "grouped"
  /\ sig \in childPending[pid]
  /\ childPending' = [childPending EXCEPT ![pid] = @ \ {sig}]
  /\ UNCHANGED <<shell, child>>

(* The default actions of SIGINT and SIGTSTP in the program execve loaded, *)
(* or a stop it brings on itself.                                          *)
ChildKilled(pid) ==
  /\ Alive /\ child[pid] = "run"
  /\ "INT" \in childPending[pid]
  /\ child' = [child EXCEPT ![pid] = "zombie"]
  /\ childPending' = [childPending EXCEPT ![pid] = {}]
  /\ pending' = pending \cup ({"CHLD"} \cap installed)
  /\ UNCHANGED <<jobs, nextjid, pc, cur, blocked, reaping, installed, unlisted>>

ChildStops(pid) ==
  /\ Alive /\ child[pid] = "run"
  /\ child' = [child EXCEPT ![pid] = "stop_new"]
  /\ childPending' = [childPending EXCEPT ![pid] = @ \ {"TSTP"}]
  /\ pending' = pending \cup ({"CHLD"} \cap installed)
  /\ UNCHANGED <<jobs, nextjid, pc, cur, blocked, reaping, installed, unlisted>>

-----------------------------------------------------------------------------
MainStep ==
  \/ \E pid \in Pids, state \in CmdState :
       EvalFork(pid, state) \/ BgFgByPid(pid, state)
  \/ \E jid \in 0..(MAXJOBS + 1), state \in CmdState : BgFgByJid(jid, state)
  \/ EvalForkFails \/ AddJob \/ FgDone \/ FgSuspend \/ SuspendReturns
  \/ BgFgCheck \/ BgFgAct \/ Quit \/ DestroyJobList
  \/ \E sig \in {"INT", "TSTP", "CHLD"} : Uninstall(sig)

HandlerStep ==
  \/ \E sig \in {"INT", "TSTP"} : HandleKeyboard(sig)
  \/ DieOfSigint \/ HandleQuit \/ EnterReap \/ ReapDone
  \/ \E pid \in Pids : ReapZombie(pid) \/ ReapStop(pid)

ChildStep ==
  \E pid \in Pids :
    \/ ChildSetpgid(pid) \/ ChildExec(pid) \/ ChildDies(pid)
    \/ ChildKilled(pid) \/ ChildStops(pid)
    \/ \E sig \in {"INT", "TSTP"} : ChildSwallows(pid, sig)

(* The process is gone; what its children do next is nobody's concern.     *)
Terminated == ~Alive /\ UNCHANGED vars

Next ==
  \/ MainStep \/ HandlerStep \/ ChildStep \/ Terminated
  \/ \E sig \in {"INT", "TSTP"} : UserSignal(sig)

(* main runs whenever it is not waiting at the prompt or in sigsuspend,    *)
(* and a handler that was entered runs to its end.  The kernel delivers a  *)
(* pending signal before it goes back to user code: a signal that is       *)
(* deliverable again and again is delivered, and sigsuspend returns once   *)
(* the handlers are through.  A process with the default action for SIGINT *)
(* dies of a pending one.  Nothing else is assumed of the children, and    *)
(* nothing of the user.                                                    *)
Fairness ==
  /\ WF_vars(AddJob \/ FgDone \/ FgSuspend \/ BgFgCheck \/ BgFgAct)
  /\ WF_vars(DestroyJobList \/ \E sig \in {"INT", "TSTP", "CHLD"} : Uninstall(sig))
  /\ SF_vars(SuspendReturns)
  /\ SF_vars(EnterReap)
  /\ WF_vars(ReapDone \/ \E pid \in Pids : ReapZombie(pid) \/ ReapStop(pid))
  /\ \A pid \in Pids : WF_vars(ChildKilled(pid))

Spec     == Init /\ [][Next]_vars
FairSpec == Spec /\ Fairness
=============================================================================
