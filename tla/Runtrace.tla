------------------------------ MODULE Runtrace ------------------------------
(* runtrace.c runs a shell on a trace: it feeds command lines to the shell *)
(* over one socket pair, meets the shell's jobs over a second, and, when   *)
(* the trace has a SHELLSYNC line, meets the shell itself over a third, at *)
(* the calls wrapper.c stops it at. The jobs are those of testprogs. The   *)
(* shell is tsh.c, reduced to what those calls see: it keeps signals       *)
(* blocked except where it waits. What the shell prints beside its prompt  *)
(* is left out.                                                            *)
EXTENDS Integers, Sequences, FiniteSets

CONSTANTS Traces   \* records: sync, the SHELLSYNC option or "none", and the script

VARIABLES
  trace,
  runner,      \* where runtrace is: "prompt", "script", "waitpid", "clean", "exited"
  line,        \* position in the script
  status,      \* "none", "ok", "timeout", "interrupted"
  cleanup_needed, escaped,  \* escaped: the shell had no session yet when it was cleaned up
  cmds,        \* lines on their way to the shell
  prompts,     \* prompts on their way to runtrace
  jobsync, runsync,         \* datagrams of the jobs' pair: from a job, from runtrace
  shellsync, shellack,      \* datagrams of the shell's pair: from the shell, from runtrace
  shell, fgbg, \* where the shell's main loop is; the built-in it runs
  handler,     \* where its signal handler is, "no" when none runs
  sync,        \* "no", "sent", "released": progress at a wrapped call
  pending,     \* signals not yet handled
  jobs,        \* one record for every process forked, in order
  reaped       \* what waitpid returned: an index of jobs, 0
runtraceVars == <<trace, runner, line, status, cleanup_needed, escaped, cmds, prompts, jobsync, runsync,
                  shellsync, shellack, shell, fgbg, handler, sync, pending, jobs, reaped>>
runnerVars == <<trace, runner, line, status, cleanup_needed, escaped>>
shellVars  == <<shell, fgbg, handler, sync, pending, reaped>>
sockets    == <<cmds, prompts, jobsync, runsync, shellsync, shellack>>

(* The programs of testprogs as the driver runs them, step by step: send to *)
(* and receive from runtrace, signal oneself or, "parent", the shell; spin  *)
(* until somebody else ends it. A program at its end exits.                 *)
echo     == <<>>                        \* /bin/echo, mycat, myenv: they only print
myspin1  == <<"send", "recv">>
myspin2  == <<"send", "recv">>          \* blocks SIGINT and SIGTSTP
mysigfun == <<"send", "recv">>          \* stops at SIGINT, dies at SIGTSTP
myints   == <<"INT", "spin">>
mytstps  == <<"TSTP">>
myintp   == <<"parent INT", "spin">>
mytstpp  == <<"parent TSTP", "spin">>
mysleepnprint  == <<"parent TSTP">>
mytstpandspin  == <<"parent TSTP", "send", "recv">>
myspinandtstps == <<"send", "recv", "TSTP", "spin">>
Program == [echo |-> echo, spin1 |-> myspin1, spin2 |-> myspin2, sigfun |-> mysigfun, ints |-> myints,
            tstps |-> mytstps, intp |-> myintp, tstpp |-> mytstpp, sleepnprint |-> mysleepnprint,
            tstpandspin |-> mytstpandspin, spinandtstps |-> myspinandtstps]

Jobs == DOMAIN jobs
(* step: position in the program. proc: "run", "zombie", "gone". state: its *)
(* entry in the job list, "none" if it has none. news: waitpid will report it. *)
NewJob(kind, state) == [kind |-> kind, step |-> 1, proc |-> "run", stopped |-> FALSE, state |-> state, news |-> FALSE]
Alive(j)   == jobs[j].proc = "run"
Fg         == {j \in Jobs : jobs[j].state = "FG"}
Listed     == {j \in Jobs : jobs[j].state # "none"}

-----------------------------------------------------------------------------
(* Where the shell stands at a call that wrapper.c wraps.                  *)
Point ==
  CASE handler \in {"kill_INT", "kill_TSTP"}     -> "kill"
    [] handler \in {"getpid_INT", "getpid_TSTP"} -> "job_get_pid"
    [] handler = "waitpid"                       -> "waitpid_before"
    [] handler = "reaped" /\ reaped # 0          -> "waitpid_after"
    [] handler = "stopped"                       -> "job_set_state"
    [] handler = "no" /\ shell = "fgbg_getpid"   -> "job_get_pid"
    [] handler = "no" /\ shell = "fgbg_setstate" -> "job_set_state"
    [] handler = "no" /\ shell = "fgbg_kill"     -> "kill"
    [] OTHER                                     -> "none"
AtSync == Point # "none" /\ Point = trace.sync

(* shellsync_signal, then shellsync_wait; then the call itself.            *)
SyncSend ==
  /\ shell # "dead" /\ AtSync /\ sync = "no"
  /\ sync' = "sent" /\ shellsync' = shellsync + 1
  /\ UNCHANGED <<runnerVars, cmds, prompts, jobsync, runsync, shellack, shell, fgbg, handler, pending, jobs, reaped>>
SyncReceive ==
  /\ shell # "dead" /\ sync = "sent" /\ shellack > 0
  /\ sync' = "released" /\ shellack' = shellack - 1
  /\ UNCHANGED <<runnerVars, cmds, prompts, jobsync, runsync, shellsync, shell, fgbg, handler, pending, jobs, reaped>>
Passed == AtSync => sync = "released"

-----------------------------------------------------------------------------
(* The child of runtrace: it is in no session of its own before setsid.    *)
Setsid ==
  /\ shell = "born" /\ shell' = "prompt"
  /\ UNCHANGED <<runnerVars, fgbg, sockets, handler, sync, pending, jobs, reaped>>

(* A signal that is not blocked is handled before the shell goes on.       *)
ShellPrompts ==
  /\ shell = "prompt" /\ handler = "no" /\ pending = {}
  /\ shell' = "read" /\ prompts' = prompts + 1
  /\ UNCHANGED <<runnerVars, fgbg, cmds, jobsync, runsync, shellsync, shellack, handler, sync, pending, jobs, reaped>>

ShellReads ==
  /\ shell = "read" /\ handler = "no" /\ pending = {} /\ cmds # <<>>
  /\ LET cmd == Head(cmds) IN
     \/ cmd \in {"eof", "quit"} /\ shell' = "dead" /\ UNCHANGED <<jobs, fgbg>>
     \/ cmd = "jobs" /\ shell' = "prompt" /\ UNCHANGED <<jobs, fgbg>>
     \/ /\ cmd \in {"fg", "bg"} /\ fgbg' = cmd /\ UNCHANGED jobs
        /\ shell' = IF Listed = {} THEN "prompt" ELSE "fgbg_getpid"
     \/ /\ cmd \in DOMAIN Program /\ shell' = "suspend"
        /\ jobs' = Append(jobs, NewJob(cmd, "FG")) /\ UNCHANGED fgbg
     \/ \E kind \in DOMAIN Program :
          /\ cmd = kind \o " &" /\ shell' = "prompt"
          /\ jobs' = Append(jobs, NewJob(kind, "BG")) /\ UNCHANGED fgbg
  /\ cmds' = Tail(cmds)
  /\ UNCHANGED <<runnerVars, prompts, jobsync, runsync, shellsync, shellack, handler, sync, pending, reaped>>

(* fg and bg of the oldest job: its pid, its state, SIGCONT.               *)
Oldest == CHOOSE j \in Listed : \A o \in Listed : j <= o
ShellFgBg ==
  /\ handler = "no" /\ Passed /\ sync' = "no"
  /\ \/ shell = "fgbg_getpid" /\ shell' = "fgbg_setstate" /\ UNCHANGED jobs
     \/ /\ shell = "fgbg_setstate" /\ shell' = "fgbg_kill"
        /\ jobs' = [jobs EXCEPT ![Oldest].state = IF fgbg = "fg" THEN "FG" ELSE "BG"]
     \/ /\ shell = "fgbg_kill" /\ shell' = IF fgbg = "fg" THEN "suspend" ELSE "prompt"
        /\ jobs' = [jobs EXCEPT ![Oldest].stopped = FALSE, ![Oldest].news = @ /\ ~Alive(Oldest)]
  /\ UNCHANGED <<runnerVars, sockets, fgbg, handler, pending, reaped>>

ShellResumes ==
  /\ shell = "suspend" /\ handler = "no" /\ Fg = {} /\ shell' = "prompt"
  /\ UNCHANGED <<runnerVars, fgbg, sockets, handler, sync, pending, jobs, reaped>>

(* Signals are blocked but where the shell prompts, reads and suspends.    *)
Handle ==
  /\ shell \in {"prompt", "read", "suspend"} /\ handler = "no"
  /\ \E sig \in pending :
       /\ pending' = pending \ {sig}
       /\ handler' = CASE sig = "CHLD" -> "waitpid"
                       [] sig # "CHLD" -> IF Fg = {} THEN "no" ELSE "getpid_" \o sig
  /\ UNCHANGED <<runnerVars, fgbg, sockets, shell, sync, jobs, reaped>>

Die(js, j)  == [js EXCEPT ![j].proc = "zombie", ![j].stopped = FALSE, ![j].news = TRUE]
Stop(js, j) == [js EXCEPT ![j].stopped = TRUE, ![j].news = @ \/ ~js[j].stopped]
(* kill(-pid, sig). No trace interrupts a job that is stopped.             *)
Signalled(j, sig) ==
  IF ~Alive(j) \/ jobs[j].kind = "spin2" THEN jobs
  ELSE IF (sig = "INT") # (jobs[j].kind = "sigfun") THEN Die(jobs, j) ELSE Stop(jobs, j)
ShellKills ==
  /\ Passed /\ sync' = "no"
  /\ \/ \E sig \in {"INT", "TSTP"} :
          /\ handler = "getpid_" \o sig /\ handler' = "kill_" \o sig
          /\ UNCHANGED <<jobs, pending>>
     \/ \E sig \in {"INT", "TSTP"} :
          /\ handler = "kill_" \o sig /\ handler' = "no"
          /\ jobs' = Signalled(CHOOSE j \in Fg : TRUE, sig)
          /\ pending' = IF jobs' # jobs THEN pending \cup {"CHLD"} ELSE pending
  /\ UNCHANGED <<runnerVars, fgbg, sockets, shell, reaped>>

(* sigchld_handler: waitpid until it has nothing to report.                *)
Waitpid ==
  /\ handler = "waitpid" /\ Passed /\ sync' = "no"
  /\ \/ /\ {j \in Jobs : jobs[j].news} = {} /\ handler' = "no" /\ reaped' = 0 /\ UNCHANGED jobs
     \/ \E j \in Jobs :
          /\ jobs[j].news /\ reaped' = j /\ handler' = "reaped"
          /\ jobs' = [jobs EXCEPT ![j].news = FALSE, ![j].proc = IF @ = "zombie" THEN "gone" ELSE @]
  /\ UNCHANGED <<runnerVars, fgbg, sockets, shell, pending>>
Reaped ==
  /\ Passed /\ sync' = "no"
  /\ \/ /\ handler = "reaped" /\ jobs[reaped].proc = "gone"
        /\ jobs' = [jobs EXCEPT ![reaped].state = "none"] /\ handler' = "waitpid" /\ reaped' = 0
     \/ /\ handler = "reaped" /\ jobs[reaped].proc # "gone"
        /\ handler' = "stopped" /\ UNCHANGED <<jobs, reaped>>
     \/ /\ handler = "stopped"
        /\ jobs' = [jobs EXCEPT ![reaped].state = "ST"] /\ handler' = "waitpid" /\ reaped' = 0
  /\ UNCHANGED <<runnerVars, fgbg, sockets, shell, pending>>

ShellStep == SyncSend \/ SyncReceive \/ Setsid \/ ShellPrompts \/ ShellReads \/ ShellFgBg \/ ShellResumes
             \/ Handle \/ ShellKills \/ Waitpid \/ Reaped

-----------------------------------------------------------------------------
(* The jobs. The shell learns by SIGCHLD that one has stopped or ended;    *)
(* any job that waits may take runtrace's answer.                          *)
ToShell(sigs) == pending' = IF shell = "dead" THEN pending ELSE pending \cup sigs
NextOp(j) == LET p == Program[jobs[j].kind] IN IF jobs[j].step > Len(p) THEN "exit" ELSE p[jobs[j].step]
JobEnds(j, op) ==
  /\ op = "exit" /\ jobs' = Die(jobs, j) /\ ToShell({"CHLD"})
  /\ UNCHANGED <<jobsync, runsync>>
JobSends(j, op) ==
  /\ op = "send" /\ jobsync' = jobsync + 1
  /\ jobs' = [jobs EXCEPT ![j].step = @ + 1]
  /\ UNCHANGED <<runsync, pending>>
JobReceives(j, op) ==
  /\ op = "recv" /\ runsync > 0 /\ runsync' = runsync - 1
  /\ jobs' = [jobs EXCEPT ![j].step = @ + 1]
  /\ UNCHANGED <<jobsync, pending>>
JobSignals(j, op) ==
  /\ \/ op \in {"parent INT", "parent TSTP"}
        /\ ToShell({IF op = "parent INT" THEN "INT" ELSE "TSTP"})
        /\ jobs' = [jobs EXCEPT ![j].step = @ + 1]
     \/ op = "INT" /\ jobs' = Die(jobs, j) /\ ToShell({"CHLD"})
     \/ op = "TSTP" /\ jobs' = Stop([jobs EXCEPT ![j].step = @ + 1], j) /\ ToShell({"CHLD"})
  /\ UNCHANGED <<jobsync, runsync>>
JobStep ==
  /\ \E j \in Jobs :
       /\ Alive(j) /\ ~jobs[j].stopped
       /\ LET op == NextOp(j) IN JobEnds(j, op) \/ JobSends(j, op) \/ JobReceives(j, op) \/ JobSignals(j, op)
  /\ UNCHANGED <<runnerVars, cmds, prompts, shellsync, shellack, shell, fgbg, handler, sync, reaped>>

-----------------------------------------------------------------------------
(* runtrace. *)
Command == IF runner = "script" /\ line <= Len(trace.script) THEN trace.script[line] ELSE "none"
NextLine == line' = line + 1 /\ UNCHANGED <<trace, runner, status, cleanup_needed, escaped>>

FirstPrompt ==
  /\ runner = "prompt" /\ prompts > 0
  /\ prompts' = prompts - 1 /\ runner' = "script"
  /\ UNCHANGED <<trace, line, status, cleanup_needed, escaped, cmds, jobsync, runsync, shellsync, shellack, shellVars, jobs>>
Wait ==
  /\ Command = "WAIT" /\ jobsync > 0 /\ jobsync' = jobsync - 1 /\ NextLine
  /\ UNCHANGED <<cmds, prompts, runsync, shellsync, shellack, shellVars, jobs>>
Signal ==
  /\ Command = "SIGNAL" /\ runsync' = runsync + 1 /\ NextLine
  /\ UNCHANGED <<cmds, prompts, jobsync, shellsync, shellack, shellVars, jobs>>
ShellWait ==
  /\ Command = "SHELLWAIT" /\ shellsync > 0 /\ shellsync' = shellsync - 1 /\ NextLine
  /\ UNCHANGED <<cmds, prompts, jobsync, runsync, shellack, shellVars, jobs>>
ShellSignal ==
  /\ Command = "SHELLSIGNAL" /\ shellack' = shellack + 1 /\ NextLine
  /\ UNCHANGED <<cmds, prompts, jobsync, runsync, shellsync, shellVars, jobs>>
Kill ==
  /\ Command \in {"INT", "TSTP"} /\ NextLine
  /\ pending' = IF shell = "dead" THEN pending ELSE pending \cup {Command}
  /\ UNCHANGED <<sockets, shell, fgbg, handler, sync, reaped, jobs>>
SendLine ==
  /\ Command \notin {"none", "WAIT", "SIGNAL", "SHELLWAIT", "SHELLSIGNAL", "INT", "TSTP", "NEXT"} /\ NextLine
  /\ cmds' = Append(cmds, Command)
  /\ UNCHANGED <<prompts, jobsync, runsync, shellsync, shellack, shellVars, jobs>>

(* next_prompt answers the shell until a prompt comes.                     *)
AnswerShell ==
  /\ Command = "NEXT" /\ shellsync > 0
  /\ shellsync' = shellsync - 1 /\ shellack' = shellack + 1
  /\ UNCHANGED <<runnerVars, cmds, prompts, jobsync, runsync, shellVars, jobs>>
NextPrompt ==
  /\ Command = "NEXT" /\ prompts > 0 /\ prompts' = prompts - 1 /\ NextLine
  /\ UNCHANGED <<cmds, jobsync, runsync, shellsync, shellack, shellVars, jobs>>

EndOfTrace ==
  /\ runner = "script" /\ line > Len(trace.script)
  /\ cmds' = Append(cmds, "eof") /\ runner' = "waitpid"
  /\ UNCHANGED <<trace, line, status, cleanup_needed, escaped, prompts, jobsync, runsync, shellsync, shellack, shellVars, jobs>>
ShellEnded ==
  /\ runner = "waitpid" /\ shell = "dead"
  /\ runner' = "clean" /\ status' = "ok"
  /\ UNCHANGED <<trace, line, cleanup_needed, escaped, sockets, shellVars, jobs>>

Receive == FirstPrompt \/ Wait \/ Signal \/ ShellWait \/ ShellSignal \/ Kill \/ SendLine
           \/ AnswerShell \/ NextPrompt \/ EndOfTrace \/ ShellEnded

Timeout_unarmed ==   \* mutant: no alarm while runtrace waits for the shell to end
  /\ runner \in {"prompt", "script"}
  /\ ~ENABLED (ShellStep \/ JobStep \/ Receive)
  /\ runner' = "clean" /\ status' = "timeout"
  /\ UNCHANGED <<trace, line, cleanup_needed, escaped, sockets, shellVars, jobs>>
(* DRIVER_TIMEOUT seconds pass: the shell and the jobs are faster than     *)
(* that, so it happens only when none of them can move.                    *)
Timeout ==
  /\ runner \in {"prompt", "script", "waitpid"}
  /\ ~ENABLED (ShellStep \/ JobStep \/ Receive)
  /\ runner' = "clean" /\ status' = "timeout"
  /\ UNCHANGED <<trace, line, cleanup_needed, escaped, sockets, shellVars, jobs>>

(* SIGINT or SIGTERM to runtrace: graceful_cleanup_sig_handler.            *)
Interrupt ==
  /\ runner \in {"prompt", "script", "waitpid"}
  /\ runner' = "clean" /\ status' = "interrupted"
  /\ UNCHANGED <<trace, line, cleanup_needed, escaped, sockets, shellVars, jobs>>

(* clean: a child of runtrace kills every process of the shell's session.  *)
(* With signals blocked, no second cleanup starts.                         *)
Killed_jobs ==   \* mutant: the shell is killed, its jobs are not
  /\ shell' = "dead" /\ handler' = "no" /\ UNCHANGED jobs
Killed ==
  /\ shell' = "dead" /\ handler' = "no"
  /\ jobs' = [j \in Jobs |-> [jobs[j] EXCEPT !.proc = "gone", !.state = "none", !.news = FALSE]]
Clean ==
  /\ runner = "clean" /\ cleanup_needed
  /\ IF shell = "born" THEN escaped' = TRUE /\ UNCHANGED <<shell, handler, jobs>>
                       ELSE Killed /\ UNCHANGED escaped
  /\ cleanup_needed' = FALSE /\ runner' = "exited"
  /\ UNCHANGED <<trace, line, status, sockets, fgbg, sync, pending, reaped>>

RunnerStep == Receive \/ Timeout \/ Clean

RuntraceInit ==
  /\ trace \in Traces /\ runner = "prompt" /\ line = 1 /\ status = "none"
  /\ cleanup_needed = TRUE /\ escaped = FALSE
  /\ cmds = <<>> /\ prompts = 0 /\ jobsync = 0 /\ runsync = 0 /\ shellsync = 0 /\ shellack = 0
  /\ shell = "born" /\ fgbg = "none" /\ handler = "no" /\ sync = "no" /\ pending = {} /\ jobs = <<>> /\ reaped = 0
RuntraceNext == RunnerStep \/ Interrupt \/ ShellStep \/ JobStep

(* Every process that can run runs in the end, and time passes.            *)
RuntraceFairness == WF_runtraceVars(RunnerStep) /\ WF_runtraceVars(ShellStep) /\ WF_runtraceVars(JobStep)
RuntraceSpec == RuntraceInit /\ [][RuntraceNext]_runtraceVars /\ RuntraceFairness

-----------------------------------------------------------------------------
(* Whatever the order in which the shell, its handlers, its jobs and       *)
(* runtrace run, the traces of the lab run to their last line: until then  *)
(* nobody waits for a message that nobody sends (runtrace's main,          *)
(* wrapper.c). What is left is the wait for the shell to end, where no one *)
(* answers a shell that reaps a job of trace08 late.                       *)
RunsThrough == status = "timeout" => line > Len(trace.script)

(* Every run ends, also of a trace that waits for what never comes (main,  *)
(* sigalrm_handler).                                                       *)
RunnerEnds == <>(runner = "exited")

(* When runtrace is gone, no shell and no job of this run is left, unless  *)
(* it was interrupted before the shell had its session (clean).            *)
NoStrays ==
  runner = "exited" =>
    \/ escaped /\ status = "interrupted"
    \/ shell = "dead" /\ \A j \in Jobs : ~Alive(j)

(* A wrapped call goes on only when runtrace has answered this very call:  *)
(* no answer is left over for the next one (wrapper.c, next_prompt).       *)
OneAnswerPerCall ==
  /\ shellsync + shellack <= 1
  /\ shellack = 1 => sync = "sent"
  /\ shellsync = 1 => sync = "sent" \/ shell = "dead"
=============================================================================
