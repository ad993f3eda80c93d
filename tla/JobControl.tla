----------------------------- MODULE JobControl -----------------------------
(***************************************************************************)
(* What the shell promises its user, as a table of jobs: a job is in the   *)
(* foreground, in the background or stopped; while one has the foreground  *)
(* the shell takes no other command.  (tsh_helper.h, "Job states"; tsh.c,  *)
(* eval: "If the job is fg job, wait for it finished".)                    *)
(***************************************************************************)
CONSTANT Pids
VARIABLE table

Listed     == {p \in Pids : table[p] # "none"}
Foreground == {p \in Pids : table[p] = "FG"}

Init == table = [p \in Pids |-> "none"]

(* A command typed at the prompt.  It is at the prompt only when no job    *)
(* has the foreground.                                                     *)
Start(p, state) ==
  /\ Foreground = {}
  /\ table[p] = "none"
  /\ table' = [table EXCEPT ![p] = state]

(* bg and fg, on any job that is listed.                                   *)
Resume(p, state) ==
  /\ Foreground = {}
  /\ table[p] # "none"
  /\ table' = [table EXCEPT ![p] = state]

(* A job that runs stops: Ctrl-Z, or any other stop signal.                *)
Stop(p) ==
  /\ table[p] \in {"FG", "BG"}
  /\ table' = [table EXCEPT ![p] = "ST"]

End(p) ==
  /\ table[p] # "none"
  /\ table' = [table EXCEPT ![p] = "none"]

Shutdown ==
  /\ Foreground = {}
  /\ table' = [p \in Pids |-> "none"]

Next ==
  \/ \E p \in Pids, state \in {"FG", "BG"} : Start(p, state) \/ Resume(p, state)
  \/ \E p \in Pids : Stop(p) \/ End(p)
  \/ Shutdown

Spec == Init /\ [][Next]_table
=============================================================================
