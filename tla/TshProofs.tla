----------------------------- MODULE TshProofs -----------------------------
(***************************************************************************)
(* Proofs about the tiny shell, for every MAXJOBS and every set of pids:   *)
(* what the operators of the job list return, that ShellInv is inductive,  *)
(* and that the shell implements JobControl.                               *)
(***************************************************************************)
EXTENDS TshProperties, TLAPS, WellFoundedInduction

-----------------------------------------------------------------------------
(* What the operators of JobList return, for every list. *)

(* A set of naturals has a smallest element, a bounded one a largest.      *)
LEMMA MinNat ==
  ASSUME NEW S \in SUBSET Nat, S # {}
  PROVE  \E m \in S : \A k \in S : m <= k
<1> DEFINE R == {ss \in Nat \X Nat : ss[1] < ss[2]}
<1>1. IsWellFoundedOn(R, Nat)
  BY NatLessThanWellFounded DEF OpToRel
<1>2. PICK m \in S : \A k \in S : ~(<<k, m>> \in R)
  BY <1>1, WFMin, IsWellFoundedOnSubset
<1>3. ASSUME NEW k \in S PROVE m <= k
  <2>1. <<k, m>> \in Nat \X Nat /\ <<k, m>>[1] = k /\ <<k, m>>[2] = m
    OBVIOUS
  <2>2. ~(k < m)
    BY <1>2, <2>1
  <2> QED BY <2>2
<1> QED BY <1>3

(* A set of naturals with an upper bound has a largest element.            *)
LEMMA MaxNat ==
  ASSUME NEW N \in Nat, NEW S \in SUBSET (1..N), S # {}
  PROVE  \E m \in S : \A k \in S : k <= m
<1> DEFINE T == {n \in Nat : \E i \in S : n = N - i}
<1>1. PICK s \in S : TRUE
  OBVIOUS
<1>2. N - s \in T
  OBVIOUS
<1>3. PICK t \in T : \A u \in T : t <= u
  <2>1. T \in SUBSET Nat
    OBVIOUS
  <2> HIDE DEF T
  <2> QED BY <1>2, <2>1, MinNat
<1>4. PICK m \in S : t = N - m
  OBVIOUS
<1>5. ASSUME NEW k \in S PROVE k <= m
  <2>1. N - k \in T
    OBVIOUS
  <2>2. t <= N - k
    BY <1>3, <2>1
  <2>3. k \in 1..N /\ m \in 1..N
    OBVIOUS
  <2> HIDE DEF T
  <2> QED BY <1>4, <2>2, <2>3
<1> QED BY <1>5

(* The loops over the slots return 0 or an element of the set searched.    *)
LEMMA FirstJidResult ==
  ASSUME NEW S \in SUBSET JobIds
  PROVE  /\ S = {} => FirstJid(S) = 0
         /\ S # {} => FirstJid(S) \in S
<1>1. CASE S = {}
  BY <1>1 DEF FirstJid
<1>2. CASE S # {}
  <2>1. S \in SUBSET Nat
    BY JobListAssumption DEF JobIds
  <2>2. \E m \in S : \A k \in S : m <= k
    BY <1>2, <2>1, MinNat
  <2> QED BY <1>2, <2>2 DEF FirstJid
<1> QED BY <1>1, <1>2

(* The downward loop returns the largest index found, or 0.                *)
LEMMA LastJidResult ==
  ASSUME NEW S \in SUBSET JobIds
  PROVE  /\ S = {} => LastJid(S) = 0
         /\ S # {} => LastJid(S) \in S /\ \A k \in S : k <= LastJid(S)
<1>1. CASE S = {}
  BY <1>1 DEF LastJid
<1>2. CASE S # {}
  <2>1. MAXJOBS \in Nat
    BY JobListAssumption
  <2>2. \E m \in S : \A k \in S : k <= m
    BY <1>2, <2>1, MaxNat DEF JobIds
  <2> QED BY <1>2, <2>2 DEF LastJid
<1> QED BY <1>1, <1>2

-----------------------------------------------------------------------------
(* fg_job finds a foreground job whenever there is one.                    *)
LEMMA FgJobResult ==
  ASSUME NEW js \in [JobIds -> Job]
  PROVE  /\ fg_job(js) = 0 <=> \A jid \in JobIds : js[jid].state # "FG"
         /\ fg_job(js) # 0 => fg_job(js) \in JobIds /\ js[fg_job(js)].state = "FG"
<1> DEFINE S == {jid \in JobIds : js[jid].state = "FG"}
<1>1. 0 \notin JobIds
  BY DEF JobIds
<1>2. fg_job(js) = FirstJid(S)
  BY DEF fg_job
<1>3. (S = {} => FirstJid(S) = 0) /\ (S # {} => FirstJid(S) \in S)
  BY FirstJidResult
<1> QED BY <1>1, <1>2, <1>3

(* job_from_pid finds the job of a pid whenever there is one.              *)
LEMMA JobFromPidResult ==
  ASSUME NEW js \in [JobIds -> Job], NEW pid
  PROVE  /\ job_from_pid(js, pid) = 0 <=>
              \A jid \in JobIds : js[jid].state # "UNDEF" => js[jid].pid # pid
         /\ job_from_pid(js, pid) # 0 =>
              /\ job_from_pid(js, pid) \in JobIds
              /\ js[job_from_pid(js, pid)].state # "UNDEF"
              /\ js[job_from_pid(js, pid)].pid = pid
<1> DEFINE S == {jid \in JobIds : job_exists(js, jid) /\ js[jid].pid = pid}
<1>1. 0 \notin JobIds
  BY DEF JobIds
<1>2. job_from_pid(js, pid) = FirstJid(S)
  BY DEF job_from_pid
<1>3. (S = {} => FirstJid(S) = 0) /\ (S # {} => FirstJid(S) \in S)
  BY FirstJidResult
<1> QED BY <1>1, <1>2, <1>3 DEF job_exists

(* maxjid is the largest ID in use, and 0 for an empty list.               *)
LEMMA MaxJidResult ==
  ASSUME NEW js \in [JobIds -> Job]
  PROVE  /\ maxjid(js) \in 0..MAXJOBS
         /\ \A jid \in JobIds : js[jid].state # "UNDEF" => jid <= maxjid(js)
         /\ maxjid(js) # 0 => maxjid(js) \in JobIds /\ js[maxjid(js)].state # "UNDEF"
<1> DEFINE S == {jid \in JobIds : job_exists(js, jid)}
<1>1. maxjid(js) = LastJid(S)
  BY DEF maxjid
<1>2. (S = {} => LastJid(S) = 0)
      /\ (S # {} => LastJid(S) \in S /\ \A k \in S : k <= LastJid(S))
  BY LastJidResult
<1>3. MAXJOBS \in Nat
  BY JobListAssumption
<1>4. \A jid : jid \in S <=> jid \in JobIds /\ js[jid].state # "UNDEF"
  BY DEF job_exists
<1> HIDE DEF S
<1>5. CASE S = {}
  BY <1>1, <1>2, <1>3, <1>4, <1>5
<1>6. CASE S # {}
  BY <1>1, <1>2, <1>3, <1>4, <1>6 DEF JobIds
<1> QED BY <1>5, <1>6

-----------------------------------------------------------------------------
(* nextjid is one past the last ID in use.                                 *)
NextIsPastLast(js, next) ==
  /\ next \in 1..(MAXJOBS + 1)
  /\ \A jid \in JobIds : js[jid].state # "UNDEF" => jid < next
  /\ next > 1 => js[next - 1].state # "UNDEF"

(* add_job, called as its header asks: it takes the free slot nextjid, or  *)
(* changes nothing when nextjid is past the end, and never aborts.         *)
LEMMA AddJobResult ==
  ASSUME NEW js \in [JobIds -> Job], NEW next \in 1..(MAXJOBS + 1),
         NEW pid \in Pids, NEW state \in CmdState,
         NextIsPastLast(js, next),
         \A jid \in JobIds : js[jid].state # "FG",
         NEW added, added = add_job(js, next, pid, state)
  PROVE  /\ ~add_job_aborts(js, next, state)
         /\ added.jobs \in [JobIds -> Job]
         /\ NextIsPastLast(added.jobs, added.nextjid)
         /\ ~add_job_fails(next) =>
              /\ next \in JobIds
              /\ js[next].state = "UNDEF"
              /\ \A jid \in JobIds : added.jobs[jid] =
                   IF jid = next THEN [pid |-> pid, state |-> state] ELSE js[jid]
         /\ add_job_fails(next) =>
              \A jid \in JobIds : added.jobs[jid] = js[jid]
<1>1. MAXJOBS \in Nat \ {0}
  BY JobListAssumption
<1>2. fg_job(js) = 0
  BY FgJobResult
<1>3. ~add_job_aborts(js, next, state)
  BY <1>1, <1>2 DEF add_job_aborts, NextIsPastLast, JobIds
<1>4. CASE add_job_fails(next)
  BY <1>3, <1>4 DEF add_job
<1>5. CASE ~add_job_fails(next)
  <2> DEFINE after == [js EXCEPT ![next] = [pid |-> pid, state |-> state]]
  <2>1. next \in JobIds /\ js[next].state = "UNDEF"
    BY <1>1, <1>5 DEF add_job_fails, JobIds, NextIsPastLast
  <2>2. added = [jobs |-> after, nextjid |-> next + 1]
    BY <1>3, <1>5 DEF add_job
  <2>3. after \in [JobIds -> Job]
    BY DEF Job, JobState, CmdState
  <2>4. NextIsPastLast(after, next + 1)
    BY <1>1, <2>1 DEF NextIsPastLast, JobIds, CmdState
  <2> QED BY <1>3, <1>5, <2>1, <2>2, <2>3, <2>4
<1> QED BY <1>4, <1>5

(* delete_job with an ID that does not exist returns false.                *)
LEMMA DeleteNoJob ==
  ASSUME NEW js, NEW next, NEW jid, ~job_exists(js, jid)
  PROVE  delete_job(js, next, jid) = [jobs |-> js, nextjid |-> next]
BY DEF delete_job

(* delete_job clears one slot; nextjid is one past the largest ID left.    *)
LEMMA DeleteJobResult ==
  ASSUME NEW js \in [JobIds -> Job], NEW next \in 1..(MAXJOBS + 1), NEW jid,
         NextIsPastLast(js, next), job_exists(js, jid),
         NEW left, left = delete_job(js, next, jid)
  PROVE  /\ left.jobs \in [JobIds -> Job]
         /\ NextIsPastLast(left.jobs, left.nextjid)
         /\ \A k \in JobIds : left.jobs[k] = IF k = jid THEN clearjob ELSE js[k]
<1> DEFINE after == [js EXCEPT ![jid] = clearjob]
<1>1. left = [jobs |-> after, nextjid |-> maxjid(after) + 1]
  BY DEF delete_job
<1>2. after \in [JobIds -> Job] /\ \A k \in JobIds : after[k] = IF k = jid THEN clearjob ELSE js[k]
  BY DEF Job, JobState, clearjob
<1> HIDE DEF after
<1>3. NextIsPastLast(after, maxjid(after) + 1)
  <2>1. MAXJOBS \in Nat
    BY JobListAssumption
  <2>2. /\ maxjid(after) \in 0..MAXJOBS
        /\ \A k \in JobIds : after[k].state # "UNDEF" => k <= maxjid(after)
        /\ maxjid(after) # 0 => after[maxjid(after)].state # "UNDEF"
    BY <1>2, MaxJidResult
  <2> QED BY <2>1, <2>2 DEF NextIsPastLast, JobIds
<1> QED BY <1>1, <1>2, <1>3

-----------------------------------------------------------------------------
(* The invariant. *)

USE DEF Alive, At

(* A step that leaves the list alone and reaps nobody keeps the parts that *)
(* speak of the list and the children only.                                *)
LEMMA SameList ==
  ASSUME TshInv,
         jobs' = jobs, nextjid' = nextjid,
         \A pid \in Pids : child[pid] # "none" => child'[pid] # "none"
  PROVE  /\ AtMostOneFg' /\ JobsAreChildren' /\ NextJidIsFree'
         /\ \A pid : IsListed(pid)' <=> IsListed(pid)
<1>1. AtMostOneFg' /\ NextJidIsFree'
  BY DEF TshInv, AtMostOneFg, NextJidIsFree, Live
<1>2. JobsAreChildren'
  BY DEF TshInv, JobsAreChildren, Live
<1> QED BY <1>1, <1>2 DEF IsListed, Live

(* main starts with an empty list, no child and nothing in hand.           *)
LEMMA InitInv == Init => TshInv
<1> SUFFICES ASSUME Init PROVE TshInv
  OBVIOUS
<1>1. MAXJOBS \in Nat \ {0}
  BY JobListAssumption
<1>2. \A jid \in JobIds : jobs[jid] = clearjob
  BY DEF Init, init_job_list
<1>3. TypeOK
  <2>1. jobs \in [JobIds -> Job] /\ nextjid \in 1..(MAXJOBS + 1)
    BY <1>1 DEF Init, init_job_list, clearjob, Job, JobState
  <2>2. cur \in Cmd /\ pc \in PC
    BY <1>1 DEF Init, NoCmd, Cmd, JobState, PC
  <2> QED BY <2>1, <2>2 DEF Init, TypeOK, ChildState
<1>4. AtMostOneFg /\ OnlyWaitingHasFg /\ JobsAreChildren /\ NextJidIsFree
  BY <1>1, <1>2 DEF Init, clearjob, AtMostOneFg, OnlyWaitingHasFg,
     JobsAreChildren, NextJidIsFree, Live
<1>5. AddJobNeverAborts /\ HandlersKeepOut /\ CommandInHand
  BY DEF Init, AddJobNeverAborts, HandlersKeepOut, CommandInHand
<1> QED BY <1>3, <1>4, <1>5 DEF TshInv

-----------------------------------------------------------------------------
(* The steps of main that leave the list alone. *)

(* eval blocks signals before fork, so the child in hand stays unlisted.   *)
LEMMA ForkInv ==
  ASSUME TshInv, NEW pid \in Pids, NEW state \in CmdState,
         EvalFork(pid, state)
  PROVE  TshInv'
<1>1. AtMostOneFg' /\ JobsAreChildren' /\ NextJidIsFree'
      /\ \A p : IsListed(p)' <=> IsListed(p)
  BY SameList DEF EvalFork, TshInv, TypeOK
<1>2. TypeOK'
  BY JobListAssumption DEF TshInv, TypeOK, EvalFork, Cmd, CmdState, JobState, PC, ChildState
<1>3. OnlyWaitingHasFg' /\ AddJobNeverAborts' /\ HandlersKeepOut'
  BY DEF TshInv, EvalFork, OnlyWaitingHasFg, AddJobNeverAborts, HandlersKeepOut
<1>4. ~IsListed(pid)
  BY DEF TshInv, EvalFork, JobsAreChildren, IsListed
<1>5. CommandInHand'
  BY <1>1, <1>4 DEF TshInv, TypeOK, EvalFork, CommandInHand
<1> QED BY <1>1, <1>2, <1>3, <1>5 DEF TshInv

(* The other steps of main change only where it is and its mask.           *)
LEMMA QuietMainInv ==
  ASSUME TshInv,
         \/ EvalForkFails \/ FgDone \/ FgSuspend \/ SuspendReturns
         \/ BgFgCheck \/ Quit
         \/ \E sig \in {"INT", "TSTP", "CHLD"} : Uninstall(sig)
         \/ \E pid \in Pids, state \in CmdState : BgFgByPid(pid, state)
         \/ \E jid \in 0..(MAXJOBS + 1), state \in CmdState : BgFgByJid(jid, state)
  PROVE  TshInv'
<1> USE DEF kids
<1>1. AtMostOneFg' /\ JobsAreChildren' /\ NextJidIsFree'
  BY SameList DEF EvalForkFails, FgDone, FgSuspend, SuspendReturns, BgFgCheck,
     Quit, Uninstall, BgFgByPid, BgFgByJid
<1>2. MAXJOBS \in Nat \ {0}
  BY JobListAssumption
<1>3. \A pid : job_from_pid(jobs, pid) \in 0..(MAXJOBS + 1)
  BY <1>2, JobFromPidResult DEF TshInv, TypeOK, JobIds
<1>4. TypeOK'
  <2>1. CASE EvalForkFails \/ FgDone \/ FgSuspend \/ SuspendReturns \/ Quit
    BY <2>1 DEF TshInv, TypeOK, PC, EvalForkFails, FgDone, FgSuspend,
       SuspendReturns, Quit
  <2>2. CASE BgFgCheck
    BY <2>2, <1>2 DEF TshInv, TypeOK, PC, BgFgCheck, NoCmd, Cmd, JobState
  <2>3. CASE \E sig \in {"INT", "TSTP", "CHLD"} : Uninstall(sig)
    BY <2>3 DEF TshInv, TypeOK, Uninstall
  <2>4. ASSUME NEW pid \in Pids, NEW state \in CmdState, BgFgByPid(pid, state)
        PROVE  TypeOK'
    BY <2>4, <1>3 DEF TshInv, TypeOK, BgFgByPid, Cmd, CmdState, JobState, PC
  <2>5. ASSUME NEW jid \in 0..(MAXJOBS + 1), NEW state \in CmdState,
               BgFgByJid(jid, state)
        PROVE  TypeOK'
    BY <2>5 DEF TshInv, TypeOK, BgFgByJid, Cmd, CmdState, JobState, PC
  <2> QED BY <2>1, <2>2, <2>3, <2>4, <2>5
<1>5. OnlyWaitingHasFg'
  <2>1. fg_job(jobs) = 0 <=> \A jid \in JobIds : jobs[jid].state # "FG"
    BY FgJobResult DEF TshInv, TypeOK
  <2> QED
    BY <2>1 DEF TshInv, OnlyWaitingHasFg, EvalForkFails, FgDone, FgSuspend,
       SuspendReturns, BgFgCheck, Quit, Uninstall, BgFgByPid, BgFgByJid
<1>6. AddJobNeverAborts' /\ HandlersKeepOut' /\ CommandInHand'
  BY DEF TshInv, AddJobNeverAborts, HandlersKeepOut, CommandInHand,
     EvalForkFails, FgDone, FgSuspend, SuspendReturns, BgFgCheck, Quit,
     Uninstall, BgFgByPid, BgFgByJid
<1> QED BY <1>1, <1>4, <1>5, <1>6 DEF TshInv

-----------------------------------------------------------------------------
(* The steps of main that write the list. *)

(* add_job fills a free slot, with a foreground job only without another.  *)
LEMMA AddJobInv ==
  ASSUME TshInv, AddJob
  PROVE  TshInv'
<1>0. PICK added : added = add_job(jobs, nextjid, cur.pid, cur.state)
  OBVIOUS
<1>1. MAXJOBS \in Nat \ {0}
  BY JobListAssumption
<1>2. /\ jobs \in [JobIds -> Job]
      /\ NextIsPastLast(jobs, nextjid)
      /\ \A jid \in JobIds : jobs[jid].state # "FG"
      /\ cur.pid \in Pids /\ cur.state \in CmdState
      /\ nextjid \in 1..(MAXJOBS + 1)
  BY DEF TshInv, TypeOK, NextJidIsFree, NextIsPastLast, Live, OnlyWaitingHasFg,
     CommandInHand, AddJob
<1>3. /\ ~add_job_aborts(jobs, nextjid, cur.state)
      /\ added.jobs \in [JobIds -> Job]
      /\ NextIsPastLast(added.jobs, added.nextjid)
      /\ ~add_job_fails(nextjid) =>
           /\ nextjid \in JobIds
           /\ jobs[nextjid].state = "UNDEF"
           /\ \A jid \in JobIds : added.jobs[jid] =
                IF jid = nextjid THEN [pid |-> cur.pid, state |-> cur.state] ELSE jobs[jid]
      /\ add_job_fails(nextjid) =>
           \A jid \in JobIds : added.jobs[jid] = jobs[jid]
  BY <1>0, <1>2, AddJobResult
<1>4. /\ jobs' = added.jobs /\ nextjid' = added.nextjid
      /\ pc' = IF cur.state = "FG" THEN "fgwait" ELSE "prompt"
      /\ unlisted' \subseteq unlisted \cup {cur.pid}
      /\ blocked' = (pc' # "prompt") /\ cur' = NoCmd
      /\ UNCHANGED <<reaping, installed, pending, child, childPending>>
      /\ ~reaping
  BY <1>0, <1>3 DEF AddJob, kids
<1>5. TypeOK'
  <2>1. jobs' \in [JobIds -> Job] /\ nextjid' \in 1..(MAXJOBS + 1)
    BY <1>3, <1>4 DEF NextIsPastLast
  <2>2. pc' \in PC /\ cur' \in Cmd /\ blocked' \in BOOLEAN
    BY <1>1, <1>4 DEF PC, NoCmd, Cmd, JobState
  <2>3. unlisted' \subseteq Pids
    BY <1>2, <1>4 DEF TshInv, TypeOK
  <2> QED BY <1>4, <2>1, <2>2, <2>3 DEF TshInv, TypeOK
<1>6. AtMostOneFg' /\ OnlyWaitingHasFg'
  BY <1>2, <1>3, <1>4 DEF TshInv, AtMostOneFg, OnlyWaitingHasFg
<1>7. JobsAreChildren'
  <2>1. child[cur.pid] # "none" /\ \A jid \in JobIds : Live(jid) => jobs[jid].pid # cur.pid
    BY DEF TshInv, CommandInHand, IsListed, AddJob
  <2> QED BY <1>2, <1>3, <1>4, <2>1 DEF TshInv, JobsAreChildren, Live
<1>8. NextJidIsFree'
  BY <1>3, <1>4 DEF NextJidIsFree, NextIsPastLast, Live
<1>9. AddJobNeverAborts' /\ HandlersKeepOut' /\ CommandInHand'
  BY <1>4 DEF AddJobNeverAborts, HandlersKeepOut, CommandInHand
<1> QED BY <1>5, <1>6, <1>7, <1>8, <1>9 DEF TshInv

(* fg and bg change the state of one existing job, or abort.               *)
LEMMA BgFgActInv ==
  ASSUME TshInv, BgFgAct
  PROVE  TshInv'
<1>1. MAXJOBS \in Nat \ {0}
  BY JobListAssumption
<1>2. /\ jobs \in [JobIds -> Job]
      /\ \A jid \in JobIds : jobs[jid].state # "FG"
      /\ cur.state \in CmdState
  BY DEF TshInv, TypeOK, OnlyWaitingHasFg, CommandInHand, BgFgAct
<1>3. \A pid \in Pids : child[pid] # "none" => child'[pid] # "none"
  BY DEF BgFgAct, Continue, TshInv, TypeOK, kids, InGroup
<1>4. CASE job_set_state_ok(jobs, cur.jid, cur.state)
  <2>1. /\ cur.jid \in JobIds /\ jobs[cur.jid].state # "UNDEF"
        /\ jobs' = [jobs EXCEPT ![cur.jid].state = cur.state]
        /\ Continue(jobs[cur.jid].pid)
        /\ pc' = IF cur.state = "FG" THEN "fgwait" ELSE "prompt"
        /\ blocked' = (pc' # "prompt") /\ cur' = NoCmd
        /\ UNCHANGED <<nextjid, reaping, installed, unlisted>>
        /\ ~reaping
    BY <1>4 DEF BgFgAct, job_set_state_ok, job_exists, job_set_state
  <2>2. jobs[cur.jid] \in Job
    BY <1>2, <2>1
  <2>3. jobs' \in [JobIds -> Job]
    BY <1>2, <2>1, <2>2 DEF Job, CmdState, JobState
  <2>4. TypeOK'
    <3>1. child' \in [Pids -> ChildState]
      BY <2>1 DEF TshInv, TypeOK, Continue, ChildState
    <3>2. childPending' \in [Pids -> SUBSET {"INT", "TSTP"}]
      BY <2>1 DEF TshInv, TypeOK, Continue
    <3>3. pending' \subseteq {"INT", "TSTP", "CHLD"}
      BY <2>1 DEF TshInv, TypeOK, Continue
    <3> QED BY <1>1, <1>2, <2>1, <2>3, <3>1, <3>2, <3>3 DEF TshInv, TypeOK, NoCmd,
       Cmd, JobState, PC
  <2>5. AtMostOneFg' /\ OnlyWaitingHasFg'
    BY <1>2, <2>1, <2>2 DEF AtMostOneFg, OnlyWaitingHasFg, Job
  <2>6. JobsAreChildren' /\ NextJidIsFree'
    <3>1. \A jid \in JobIds : Live(jid)' <=> Live(jid)
      BY <1>2, <2>1, <2>2 DEF Live, Job, CmdState
    <3>2. \A jid \in JobIds : jobs'[jid].pid = jobs[jid].pid
      BY <1>2, <2>1, <2>2 DEF Job
    <3>3. JobsAreChildren'
      BY <1>3, <3>1, <3>2 DEF TshInv, JobsAreChildren
    <3>4. NextJidIsFree'
      BY <1>1, <2>1, <3>1 DEF TshInv, TypeOK, NextJidIsFree, JobIds
    <3> QED BY <3>3, <3>4
  <2>7. AddJobNeverAborts' /\ HandlersKeepOut' /\ CommandInHand'
    BY <1>2, <2>1 DEF AddJobNeverAborts, HandlersKeepOut, CommandInHand
  <2> QED BY <2>4, <2>5, <2>6, <2>7 DEF TshInv
<1>5. CASE ~job_set_state_ok(jobs, cur.jid, cur.state)
  <2>1. /\ cur' = NoCmd
        /\ pc' \in {"abort_job_set_state", "abort_job_get_pid"}
        /\ blocked' = TRUE
        /\ UNCHANGED <<jobs, nextjid, pending, child, childPending, reaping,
                       installed, unlisted>>
    BY <1>5 DEF BgFgAct, kids
  <2>2. AtMostOneFg' /\ JobsAreChildren' /\ NextJidIsFree'
    BY <2>1, SameList
  <2>3. TypeOK'
    BY <1>1, <2>1 DEF TshInv, TypeOK, NoCmd, Cmd, JobState, PC, Dead, Aborted
  <2>4. OnlyWaitingHasFg' /\ AddJobNeverAborts' /\ HandlersKeepOut' /\ CommandInHand'
    BY <2>1 DEF OnlyWaitingHasFg, AddJobNeverAborts, HandlersKeepOut, CommandInHand
  <2> QED BY <2>2, <2>3, <2>4 DEF TshInv
<1> QED BY <1>4, <1>5

(* destroy_job_list leaves an empty list and children it no longer lists.  *)
LEMMA DestroyInv ==
  ASSUME TshInv, DestroyJobList
  PROVE  TshInv'
<1>1. MAXJOBS \in Nat \ {0}
  BY JobListAssumption
<1>2. \A jid \in JobIds : jobs'[jid].state = "UNDEF"
  BY DEF DestroyJobList, init_job_list, clearjob
<1>3. TypeOK'
  BY <1>1 DEF TshInv, TypeOK, DestroyJobList, init_job_list, clearjob, Job,
     JobState, PC, Dead, kids
<1>4. AtMostOneFg' /\ OnlyWaitingHasFg' /\ JobsAreChildren' /\ NextJidIsFree'
  BY <1>2 DEF AtMostOneFg, OnlyWaitingHasFg, JobsAreChildren, NextJidIsFree, Live,
     DestroyJobList
<1>5. AddJobNeverAborts' /\ HandlersKeepOut' /\ CommandInHand'
  BY DEF DestroyJobList, AddJobNeverAborts, HandlersKeepOut, CommandInHand
<1> QED BY <1>3, <1>4, <1>5 DEF TshInv

-----------------------------------------------------------------------------
(* The handlers. *)

(* The other steps of handlers and kernel leave list and children alone.   *)
LEMMA QuietHandlerInv ==
  ASSUME TshInv,
         \/ \E sig \in {"INT", "TSTP"} : HandleKeyboard(sig) \/ UserSignal(sig)
         \/ DieOfSigint \/ HandleQuit \/ EnterReap \/ ReapDone
  PROVE  TshInv'
<1> USE DEF kids, Deliver, Resumed
<1>1. AtMostOneFg' /\ JobsAreChildren' /\ NextJidIsFree'
      /\ \A p : IsListed(p)' <=> IsListed(p)
  BY SameList DEF HandleKeyboard, UserSignal, DieOfSigint, HandleQuit, EnterReap,
     ReapDone
<1>2. TypeOK'
  <2>1. ASSUME NEW sig \in {"INT", "TSTP"}, HandleKeyboard(sig)
        PROVE  TypeOK'
    <3>1. childPending' \in [Pids -> SUBSET {"INT", "TSTP"}]
      BY <2>1 DEF TshInv, TypeOK, HandleKeyboard, SignalForeground
    <3> QED BY <2>1, <3>1 DEF TshInv, TypeOK, HandleKeyboard, PC
  <2>2. CASE \E sig \in {"INT", "TSTP"} : UserSignal(sig)
    BY <2>2 DEF TshInv, TypeOK, UserSignal
  <2>3. CASE DieOfSigint \/ HandleQuit
    BY <2>3 DEF TshInv, TypeOK, DieOfSigint, HandleQuit, PC, Dead
  <2>4. CASE EnterReap \/ ReapDone
    BY <2>4 DEF TshInv, TypeOK, EnterReap, ReapDone, PC
  <2> QED BY <2>1, <2>2, <2>3, <2>4
<1>3. OnlyWaitingHasFg' /\ AddJobNeverAborts'
  BY DEF TshInv, OnlyWaitingHasFg, AddJobNeverAborts, HandleKeyboard, UserSignal,
     DieOfSigint, HandleQuit, EnterReap, ReapDone
<1>4. HandlersKeepOut'
  BY DEF TshInv, HandlersKeepOut, HandleKeyboard, UserSignal, DieOfSigint,
     HandleQuit, EnterReap, ReapDone
<1>5. CommandInHand'
  BY <1>1 DEF TshInv, CommandInHand, HandleKeyboard, UserSignal, DieOfSigint,
     HandleQuit, EnterReap, ReapDone
<1> QED BY <1>1, <1>2, <1>3, <1>4, <1>5 DEF TshInv

(* Reaping deletes the one job of the child, and leaves the others alone.  *)
LEMMA ReapZombieList ==
  ASSUME TshInv, NEW pid \in Pids, ReapZombie(pid)
  PROVE  /\ jobs' \in [JobIds -> Job]
         /\ NextIsPastLast(jobs', nextjid')
         /\ \A jid \in JobIds : Live(jid)' <=> Live(jid) /\ jobs[jid].pid # pid
         /\ \A jid \in JobIds : Live(jid) /\ jobs[jid].pid # pid => jobs'[jid] = jobs[jid]
<1> DEFINE jid == job_from_pid(jobs, pid)
<1>0. PICK left : left = delete_job(jobs, nextjid, jid)
  OBVIOUS
<1>1. /\ jobs \in [JobIds -> Job]
      /\ NextIsPastLast(jobs, nextjid)
      /\ nextjid \in 1..(MAXJOBS + 1)
  BY DEF TshInv, TypeOK, NextJidIsFree, NextIsPastLast, Live
<1>2. jobs' = left.jobs /\ nextjid' = left.nextjid
  BY <1>0 DEF ReapZombie
<1>3. CASE jid = 0
  <2>1. ~job_exists(jobs, jid)
    BY <1>3 DEF job_exists, JobIds
  <2>2. jobs' = jobs /\ nextjid' = nextjid
    BY <1>0, <1>2, <2>1, DeleteNoJob
  <2>3. \A k \in JobIds : Live(k) => jobs[k].pid # pid
    BY <1>1, <1>3, JobFromPidResult DEF Live
  <2> QED BY <1>1, <2>2, <2>3 DEF Live
<1>4. CASE jid # 0
  <2>1. jid \in JobIds /\ Live(jid) /\ jobs[jid].pid = pid
    BY <1>1, <1>4, JobFromPidResult DEF Live
  <2> HIDE DEF jid
  <2>2. job_exists(jobs, jid)
    BY <2>1 DEF job_exists, Live
  <2>3. /\ left.jobs \in [JobIds -> Job]
        /\ NextIsPastLast(left.jobs, left.nextjid)
        /\ \A k \in JobIds : left.jobs[k] = IF k = jid THEN clearjob ELSE jobs[k]
    BY <1>0, <1>1, <2>2, DeleteJobResult
  <2>4. \A k \in JobIds : Live(k) /\ jobs[k].pid = pid <=> k = jid
    BY <2>1 DEF TshInv, JobsAreChildren
  <2> QED BY <1>2, <2>3, <2>4 DEF Live, clearjob
<1> QED BY <1>3, <1>4

(* sigchld_handler deletes the job of the child it has reaped.             *)
LEMMA ReapZombieInv ==
  ASSUME TshInv, NEW pid \in Pids, ReapZombie(pid)
  PROVE  TshInv'
<1>1. /\ jobs' \in [JobIds -> Job]
      /\ NextIsPastLast(jobs', nextjid')
      /\ \A jid \in JobIds : Live(jid)' <=> Live(jid) /\ jobs[jid].pid # pid
      /\ \A jid \in JobIds : Live(jid) /\ jobs[jid].pid # pid => jobs'[jid] = jobs[jid]
  BY ReapZombieList
<1>2. TypeOK'
  BY <1>1 DEF TshInv, TypeOK, NextIsPastLast, ReapZombie, ChildState
<1>3. \A jid \in JobIds : jobs'[jid].state = "FG" => jobs'[jid] = jobs[jid]
  BY <1>1 DEF Live
<1>4. AtMostOneFg' /\ OnlyWaitingHasFg'
  BY <1>3 DEF TshInv, AtMostOneFg, OnlyWaitingHasFg, ReapZombie
<1>5. JobsAreChildren'
  <2>1. \A jid \in JobIds : Live(jid)' =>
          /\ jobs'[jid] = jobs[jid] /\ Live(jid)
          /\ child'[jobs[jid].pid] = child[jobs[jid].pid]
    BY <1>1 DEF TshInv, TypeOK, JobsAreChildren, ReapZombie
  <2> QED BY <2>1 DEF TshInv, JobsAreChildren
<1>6. NextJidIsFree'
  BY <1>1 DEF NextJidIsFree, NextIsPastLast, Live
<1>7. AddJobNeverAborts' /\ HandlersKeepOut' /\ CommandInHand'
  BY DEF TshInv, AddJobNeverAborts, HandlersKeepOut, CommandInHand, ReapZombie
<1> QED BY <1>2, <1>4, <1>5, <1>6, <1>7 DEF TshInv

(* sigchld_handler marks the job of a stopped child, or aborts.            *)
LEMMA ReapStopInv ==
  ASSUME TshInv, NEW pid \in Pids, ReapStop(pid)
  PROVE  TshInv'
<1> DEFINE jid == job_from_pid(jobs, pid)
<1>1. \A p \in Pids : child[p] # "none" => child'[p] # "none"
  BY DEF TshInv, TypeOK, ReapStop
<1>2. child' \in [Pids -> ChildState]
  BY DEF TshInv, TypeOK, ReapStop, ChildState
<1>3. CASE job_set_state_ok(jobs, jid, "ST")
  <2>1. /\ jid \in JobIds /\ jobs[jid].state # "UNDEF"
        /\ jobs' = [jobs EXCEPT ![jid].state = "ST"]
        /\ pc' = pc
    BY <1>3 DEF ReapStop, job_set_state_ok, job_exists, job_set_state
  <2> HIDE DEF jid
  <2>2. jobs \in [JobIds -> Job] /\ jobs[jid] \in Job
    BY <2>1 DEF TshInv, TypeOK
  <2>3. /\ jobs' \in [JobIds -> Job]
        /\ \A k \in JobIds : /\ Live(k)' <=> Live(k)
                             /\ jobs'[k].pid = jobs[k].pid
                             /\ jobs'[k].state = "FG" => jobs[k].state = "FG"
    BY <2>1, <2>2 DEF Job, JobState, Live
  <2>4. TypeOK'
    BY <1>2, <2>1, <2>3 DEF TshInv, TypeOK, ReapStop
  <2>5. AtMostOneFg' /\ OnlyWaitingHasFg'
    BY <2>1, <2>3 DEF TshInv, AtMostOneFg, OnlyWaitingHasFg
  <2>6. JobsAreChildren'
    BY <1>1, <2>3 DEF TshInv, JobsAreChildren
  <2>7. NextJidIsFree'
    BY <2>3, JobListAssumption DEF TshInv, TypeOK, NextJidIsFree, JobIds, ReapStop
  <2>8. AddJobNeverAborts' /\ HandlersKeepOut' /\ CommandInHand'
    BY <2>1 DEF TshInv, AddJobNeverAborts, HandlersKeepOut, CommandInHand, ReapStop
  <2> QED BY <2>4, <2>5, <2>6, <2>7, <2>8 DEF TshInv
<1>4. CASE ~job_set_state_ok(jobs, jid, "ST")
  <2>1. jobs' = jobs /\ nextjid' = nextjid /\ pc' = "abort_job_set_state"
    BY <1>4 DEF ReapStop
  <2>2. AtMostOneFg' /\ JobsAreChildren' /\ NextJidIsFree'
    BY <1>1, <2>1, SameList
  <2>3. TypeOK'
    BY <1>2, <2>1 DEF TshInv, TypeOK, ReapStop, PC, Dead, Aborted
  <2>4. OnlyWaitingHasFg' /\ AddJobNeverAborts' /\ HandlersKeepOut' /\ CommandInHand'
    BY <2>1 DEF OnlyWaitingHasFg, AddJobNeverAborts, HandlersKeepOut, CommandInHand
  <2> QED BY <2>2, <2>3, <2>4 DEF TshInv
<1> QED BY <1>3, <1>4

(* The children do not touch the list, and none vanishes by itself.        *)
LEMMA ChildInv ==
  ASSUME TshInv, ChildStep
  PROVE  TshInv'
<1> SUFFICES ASSUME NEW pid \in Pids,
                    \/ ChildSetpgid(pid) \/ ChildExec(pid) \/ ChildDies(pid)
                    \/ ChildKilled(pid) \/ ChildStops(pid)
                    \/ \E sig \in {"INT", "TSTP"} : ChildSwallows(pid, sig)
             PROVE  TshInv'
  BY DEF ChildStep
<1> USE DEF shell
<1>1. /\ UNCHANGED <<jobs, nextjid, pc, cur, blocked, reaping, installed, unlisted>>
      /\ pending' \subseteq pending \cup installed
      /\ child' \in [Pids -> ChildState]
      /\ \A p \in Pids : child[p] # "none" => child'[p] # "none"
  BY DEF TshInv, TypeOK, ChildState, ChildSetpgid, ChildExec, ChildDies,
     ChildKilled, ChildStops, ChildSwallows
<1>2. childPending' \in [Pids -> SUBSET {"INT", "TSTP"}]
  BY DEF TshInv, TypeOK, ChildSetpgid, ChildExec, ChildDies, ChildKilled,
     ChildStops, ChildSwallows
<1>3. TypeOK'
  BY <1>1, <1>2 DEF TshInv, TypeOK
<1>4. AtMostOneFg' /\ JobsAreChildren' /\ NextJidIsFree'
      /\ \A p : IsListed(p)' <=> IsListed(p)
  BY <1>1, SameList
<1>5. OnlyWaitingHasFg' /\ AddJobNeverAborts' /\ HandlersKeepOut' /\ CommandInHand'
  BY <1>1, <1>4 DEF TshInv, OnlyWaitingHasFg, AddJobNeverAborts, HandlersKeepOut,
     CommandInHand
<1> QED BY <1>3, <1>4, <1>5 DEF TshInv

-----------------------------------------------------------------------------
(* Every step of the specification preserves the invariant.                *)
LEMMA StepInv == TshInv /\ [Next]_vars => TshInv'
<1> SUFFICES ASSUME TshInv, [Next]_vars
             PROVE  TshInv'
  OBVIOUS
<1>1. CASE MainStep
  BY <1>1, ForkInv, QuietMainInv, AddJobInv, BgFgActInv, DestroyInv DEF MainStep
<1>2. CASE HandlerStep
  BY <1>2, QuietHandlerInv, ReapZombieInv, ReapStopInv DEF HandlerStep
<1>3. CASE ChildStep
  BY <1>3, ChildInv
<1>4. CASE \E sig \in {"INT", "TSTP"} : UserSignal(sig)
  BY <1>4, QuietHandlerInv
<1>5. CASE UNCHANGED vars
  <2>1. UNCHANGED <<jobs, nextjid, pc, cur, blocked, reaping, installed, pending,
                    unlisted, child, childPending>>
    BY <1>5 DEF vars, shell, kids
  <2>2. AtMostOneFg' /\ JobsAreChildren' /\ NextJidIsFree'
        /\ \A p : IsListed(p)' <=> IsListed(p)
    BY <2>1, SameList
  <2>3. TypeOK' /\ OnlyWaitingHasFg' /\ AddJobNeverAborts' /\ HandlersKeepOut'
    BY <2>1 DEF TshInv, TypeOK, OnlyWaitingHasFg, AddJobNeverAborts, HandlersKeepOut
  <2>4. CommandInHand'
    BY <2>1, <2>2 DEF TshInv, CommandInHand
  <2> QED BY <2>2, <2>3, <2>4 DEF TshInv
<1> QED BY <1>1, <1>2, <1>3, <1>4, <1>5 DEF Next, Terminated

(* The same for what the shell knows of its children. *)

(* A step that leaves the list, the children and a command in hand alone   *)
(* keeps the parts that speak of them only.                                *)
LEMMA SameChildren ==
  ASSUME ChildrenInv,
         jobs' = jobs, child' = child, unlisted' = unlisted,
         pc \in {"addjob", "abort_add_job", "exited"} => pc' = pc,
         pc' = "addjob" => pc = "addjob" /\ cur' = cur
  PROVE  ChildrenListed' /\ OnlyNewIsUnlisted' /\ StoppedJobIsStopped'
BY DEF ChildrenInv, ChildrenListed, OnlyNewIsUnlisted, StoppedJobIsStopped, IsListed, Live

(* main starts without children.                                           *)
LEMMA InitChildren == Init => ChildrenInv
BY DEF Init, ChildrenInv, ChildrenListed, OnlyNewIsUnlisted, NoLostSigchld, StoppedJobIsStopped,
   Reportable, Live, init_job_list, clearjob

(* fork: the one child that main still has to list.                        *)
LEMMA ForkChildren ==
  ASSUME ShellInv, NEW pid \in Pids, NEW state \in CmdState, EvalFork(pid, state)
  PROVE  ChildrenInv'
<1>1. /\ child' = [child EXCEPT ![pid] = "young"] /\ child[pid] = "none"
      /\ pc = "prompt" /\ pc' = "addjob" /\ cur'.pid = pid /\ child \in [Pids -> ChildState]
      /\ UNCHANGED <<jobs, reaping, installed, pending, unlisted>>
  BY DEF EvalFork, ShellInv, TshInv, TypeOK
<1>2. ChildrenListed'
  BY <1>1 DEF ChildrenListed
<1>3. OnlyNewIsUnlisted'
  BY <1>1 DEF ShellInv, ChildrenInv, ChildrenListed, OnlyNewIsUnlisted, IsListed, Live
<1>4. NoLostSigchld'
  BY <1>1 DEF ShellInv, ChildrenInv, NoLostSigchld, Reportable, Dead, Aborted
<1>5. StoppedJobIsStopped'
  BY <1>1 DEF ShellInv, TshInv, ChildrenInv, StoppedJobIsStopped, JobsAreChildren, Live
<1> QED BY <1>2, <1>3, <1>4, <1>5 DEF ChildrenInv

(* The other steps of main that leave the list alone.                      *)
LEMMA QuietMainChildren ==
  ASSUME ShellInv,
         \/ EvalForkFails \/ FgDone \/ FgSuspend \/ SuspendReturns
         \/ BgFgCheck \/ Quit
         \/ \E sig \in {"INT", "TSTP", "CHLD"} : Uninstall(sig)
         \/ \E pid \in Pids, state \in CmdState : BgFgByPid(pid, state)
         \/ \E jid \in 0..(MAXJOBS + 1), state \in CmdState : BgFgByJid(jid, state)
  PROVE  ChildrenInv'
<1> USE DEF kids
<1>1. /\ jobs' = jobs /\ child' = child /\ unlisted' = unlisted /\ reaping' = reaping
      /\ pc \notin {"addjob", "exited"} \cup Aborted /\ pc' # "addjob"
  BY DEF EvalForkFails, FgDone, FgSuspend, SuspendReturns, BgFgCheck, Quit, Uninstall,
     BgFgByPid, BgFgByJid, Aborted
<1>2. ChildrenListed' /\ OnlyNewIsUnlisted' /\ StoppedJobIsStopped'
  BY <1>1, SameChildren DEF ShellInv, Aborted
<1>3. /\ installed' \subseteq installed
      /\ "CHLD" \in installed' /\ "CHLD" \in pending => "CHLD" \in pending'
      /\ pc \notin Dead
  BY DEF EvalForkFails, FgDone, FgSuspend, SuspendReturns, BgFgCheck, Quit, Uninstall,
     BgFgByPid, BgFgByJid, Dead, Aborted
<1>4. NoLostSigchld'
  BY <1>1, <1>3 DEF ShellInv, ChildrenInv, NoLostSigchld
<1> QED BY <1>2, <1>4 DEF ChildrenInv

(* add_job lists the child in hand, or eval remembers that it could not.   *)
LEMMA AddJobChildren ==
  ASSUME ShellInv, AddJob
  PROVE  ChildrenInv'
<1>0. PICK added : added = add_job(jobs, nextjid, cur.pid, cur.state)
  OBVIOUS
<1>1. /\ jobs \in [JobIds -> Job]
      /\ NextIsPastLast(jobs, nextjid)
      /\ \A jid \in JobIds : jobs[jid].state # "FG"
      /\ cur.pid \in Pids /\ cur.state \in CmdState
      /\ nextjid \in 1..(MAXJOBS + 1)
  BY DEF ShellInv, TshInv, TypeOK, NextJidIsFree, NextIsPastLast, Live, OnlyWaitingHasFg,
     CommandInHand, AddJob
<1>2. /\ ~add_job_aborts(jobs, nextjid, cur.state)
      /\ ~add_job_fails(nextjid) =>
           /\ nextjid \in JobIds
           /\ jobs[nextjid].state = "UNDEF"
           /\ \A jid \in JobIds : added.jobs[jid] =
                IF jid = nextjid THEN [pid |-> cur.pid, state |-> cur.state] ELSE jobs[jid]
      /\ add_job_fails(nextjid) =>
           \A jid \in JobIds : added.jobs[jid] = jobs[jid]
  BY <1>0, <1>1, AddJobResult
<1>3. /\ jobs' = added.jobs
      /\ unlisted' = IF add_job_fails(nextjid) THEN unlisted \cup {cur.pid} ELSE unlisted
      /\ pc = "addjob" /\ pc' \in {"fgwait", "prompt"}
      /\ UNCHANGED <<reaping, installed, pending, child>>
  BY <1>0, <1>2 DEF AddJob, kids
<1>4. \A p : IsListed(p)' <=> IsListed(p) \/ (p = cur.pid /\ ~add_job_fails(nextjid))
  BY <1>1, <1>2, <1>3 DEF IsListed, Live, CmdState
<1>5. ChildrenListed'
  BY <1>3, <1>4 DEF ShellInv, ChildrenInv, OnlyNewIsUnlisted, ChildrenListed
<1>6. OnlyNewIsUnlisted' /\ NoLostSigchld'
  BY <1>3 DEF ShellInv, ChildrenInv, OnlyNewIsUnlisted, NoLostSigchld, Dead, Aborted
<1>7. StoppedJobIsStopped'
  BY <1>1, <1>2, <1>3 DEF ShellInv, ChildrenInv, OnlyNewIsUnlisted, StoppedJobIsStopped, Live,
     CmdState
<1> QED BY <1>5, <1>6, <1>7 DEF ChildrenInv

(* fg and bg: the job they resume was stopped, and is not any more.        *)
LEMMA BgFgActChildren ==
  ASSUME ShellInv, BgFgAct
  PROVE  ChildrenInv'
<1>1. /\ jobs \in [JobIds -> Job] /\ child \in [Pids -> ChildState]
      /\ cur.state \in CmdState
      /\ pc = "bgfg_act" /\ pc' \notin {"addjob", "exited"}
      /\ UNCHANGED <<unlisted, reaping, installed>>
  BY DEF ShellInv, TshInv, TypeOK, CommandInHand, BgFgAct
<1>2. CASE job_set_state_ok(jobs, cur.jid, cur.state)
  <2> DEFINE pid == jobs[cur.jid].pid
  <2>1. /\ cur.jid \in JobIds /\ Live(cur.jid)
        /\ jobs' = [jobs EXCEPT ![cur.jid].state = cur.state]
        /\ Continue(pid)
    BY <1>2 DEF BgFgAct, job_set_state_ok, job_exists, job_set_state, Live
  <2>2. /\ pid \in Pids
        /\ child' = IF child[pid] \in {"stop_new", "stopped"}
                    THEN [child EXCEPT ![pid] = "run"] ELSE child
        /\ pending \subseteq pending'
    BY <2>1 DEF ShellInv, TshInv, JobsAreChildren, Continue
  <2>3. \A jid \in JobIds : /\ jobs'[jid].pid = jobs[jid].pid
                            /\ jobs'[jid].state = IF jid = cur.jid THEN cur.state
                                                                   ELSE jobs[jid].state
                            /\ Live(jid)' <=> Live(jid)
    BY <1>1, <2>1 DEF Live, Job, CmdState
  <2>4. /\ \A p : IsListed(p)' <=> IsListed(p)
        /\ \A p \in Pids : /\ child'[p] = "none" <=> child[p] = "none"
                           /\ child'[p] \in Reportable => child[p] \in Reportable
    BY <1>1, <2>2, <2>3 DEF IsListed, Reportable
  <2>5. ChildrenListed' /\ OnlyNewIsUnlisted'
    BY <1>1, <2>4 DEF ShellInv, ChildrenInv, ChildrenListed, OnlyNewIsUnlisted
  <2>6. NoLostSigchld'
    BY <1>1, <2>2, <2>4 DEF ShellInv, ChildrenInv, NoLostSigchld, Dead, Aborted
  <2>7. StoppedJobIsStopped'
    <3> SUFFICES ASSUME NEW jid \in JobIds, Live(jid)
                 PROVE  /\ child'[jobs[jid].pid] = "stopped" => jobs'[jid].state = "ST"
                        /\ jobs'[jid].state = "ST" => child'[jobs[jid].pid] \in {"stopped", "zombie"}
      BY <2>3 DEF StoppedJobIsStopped
    <3>1. /\ child[jobs[jid].pid] = "stopped" => jobs[jid].state = "ST"
          /\ jobs[jid].state = "ST" => child[jobs[jid].pid] \in {"stopped", "zombie"}
          /\ jobs[jid].pid \in Pids
      BY DEF ShellInv, TshInv, JobsAreChildren, ChildrenInv, StoppedJobIsStopped
    <3>2. CASE jid = cur.jid
      BY <1>1, <2>2, <2>3, <3>2 DEF CmdState
    <3>3. CASE jid # cur.jid
      <4>1. jobs[jid].pid # pid
        BY <2>1, <3>3 DEF ShellInv, TshInv, JobsAreChildren
      <4> QED BY <1>1, <2>2, <2>3, <3>1, <3>3, <4>1
    <3> QED BY <3>2, <3>3
  <2> QED BY <2>5, <2>6, <2>7 DEF ChildrenInv
<1>3. CASE ~job_set_state_ok(jobs, cur.jid, cur.state)
  <2>1. jobs' = jobs /\ child' = child /\ pending' = pending
    BY <1>3 DEF BgFgAct, kids
  <2>2. ChildrenListed' /\ OnlyNewIsUnlisted' /\ StoppedJobIsStopped'
    BY <1>1, <2>1, SameChildren DEF ShellInv
  <2>3. NoLostSigchld'
    BY <1>1, <2>1 DEF ShellInv, ChildrenInv, NoLostSigchld, Dead, Aborted
  <2> QED BY <2>2, <2>3 DEF ChildrenInv
<1> QED BY <1>2, <1>3

(* After destroy_job_list there is no job to speak of, and the shell ends. *)
LEMMA DestroyChildren ==
  ASSUME ShellInv, DestroyJobList
  PROVE  ChildrenInv'
BY DEF DestroyJobList, init_job_list, clearjob, ChildrenInv, ChildrenListed, OnlyNewIsUnlisted,
   NoLostSigchld, StoppedJobIsStopped, Live, Dead

(* The handlers of SIGINT, SIGTSTP and SIGQUIT, and both ends of the       *)
(* waitpid loop: it ends only when nothing is left to report.              *)
LEMMA QuietHandlerChildren ==
  ASSUME ShellInv,
         \/ \E sig \in {"INT", "TSTP"} : HandleKeyboard(sig) \/ UserSignal(sig)
         \/ DieOfSigint \/ HandleQuit \/ EnterReap \/ ReapDone
  PROVE  ChildrenInv'
<1> USE DEF kids, Deliver, Resumed
<1>1. /\ jobs' = jobs /\ child' = child /\ unlisted' = unlisted /\ cur' = cur
      /\ installed' = installed
      /\ pc \notin Dead
      /\ pc' = "addjob" => pc = "addjob"
  BY DEF HandleKeyboard, UserSignal, DieOfSigint, HandleQuit, EnterReap, ReapDone
<1>2. pc = "addjob" => pc' = "addjob"
  BY DEF ShellInv, TshInv, HandlersKeepOut, HandleKeyboard, UserSignal, DieOfSigint, HandleQuit,
     EnterReap, ReapDone
<1>3. ChildrenListed' /\ OnlyNewIsUnlisted' /\ StoppedJobIsStopped'
  BY <1>1, <1>2, SameChildren DEF ShellInv, Dead, Aborted
<1>4. NoLostSigchld'
  <2>1. CASE ReapDone
    BY <2>1 DEF NoLostSigchld, ReapDone
  <2>2. CASE EnterReap
    BY <2>2 DEF NoLostSigchld, EnterReap
  <2>3. CASE \E sig \in {"INT", "TSTP"} : HandleKeyboard(sig) \/ UserSignal(sig)
    BY <1>1, <2>3 DEF ShellInv, ChildrenInv, NoLostSigchld, HandleKeyboard, UserSignal
  <2>4. CASE DieOfSigint \/ HandleQuit
    BY <2>4 DEF NoLostSigchld, DieOfSigint, HandleQuit, Dead
  <2> QED BY <2>1, <2>2, <2>3, <2>4
<1> QED BY <1>3, <1>4 DEF ChildrenInv

(* A reaped child is gone, and so is its job.                              *)
LEMMA ReapZombieChildren ==
  ASSUME ShellInv, NEW pid \in Pids, ReapZombie(pid)
  PROVE  ChildrenInv'
<1>1. /\ \A jid \in JobIds : Live(jid)' <=> Live(jid) /\ jobs[jid].pid # pid
      /\ \A jid \in JobIds : Live(jid) /\ jobs[jid].pid # pid => jobs'[jid] = jobs[jid]
  BY ReapZombieList DEF ShellInv
<1>2. /\ child' = [child EXCEPT ![pid] = "none"] /\ child \in [Pids -> ChildState]
      /\ unlisted' = unlisted \ {pid}
      /\ reaping /\ pc \notin Dead
      /\ UNCHANGED <<pc, cur, reaping, installed, pending>>
  BY DEF ReapZombie, ShellInv, TshInv, TypeOK
<1>3. \A p \in Pids \ {pid} : IsListed(p) => IsListed(p)'
  BY <1>1 DEF IsListed
<1>4. ChildrenListed'
  BY <1>2, <1>3 DEF ShellInv, ChildrenInv, ChildrenListed
<1>5. OnlyNewIsUnlisted' /\ NoLostSigchld'
  BY <1>2 DEF ShellInv, TshInv, HandlersKeepOut, OnlyNewIsUnlisted, NoLostSigchld
<1>6. StoppedJobIsStopped'
  BY <1>1, <1>2 DEF ShellInv, TshInv, JobsAreChildren, ChildrenInv, StoppedJobIsStopped
<1> QED BY <1>4, <1>5, <1>6 DEF ChildrenInv

(* The job of a child that is reported stopped becomes ST; without a job   *)
(* the shell aborts.                                                       *)
LEMMA ReapStopChildren ==
  ASSUME ShellInv, NEW pid \in Pids, ReapStop(pid)
  PROVE  ChildrenInv'
<1> DEFINE jid == job_from_pid(jobs, pid)
<1>1. /\ child' = [child EXCEPT ![pid] = "stopped"] /\ child \in [Pids -> ChildState]
      /\ child[pid] = "stop_new" /\ reaping
      /\ UNCHANGED <<unlisted, reaping, installed, pending>>
      /\ jobs \in [JobIds -> Job]
      /\ pc # "addjob" /\ pc' # "addjob" /\ pc \notin Dead
      /\ pc' \in {pc, "abort_job_set_state"}
  BY DEF ReapStop, ShellInv, TshInv, TypeOK, HandlersKeepOut
<1>2. CASE jid # 0
  <2>1. jid \in JobIds /\ Live(jid) /\ jobs[jid].pid = pid
    BY <1>1, <1>2, JobFromPidResult DEF Live
  <2> HIDE DEF jid
  <2>2. jobs' = [jobs EXCEPT ![jid].state = "ST"]
    BY <2>1 DEF ReapStop, job_set_state_ok, job_exists, job_set_state, Live, jid
  <2>3. \A k \in JobIds : /\ jobs'[k].pid = jobs[k].pid
                          /\ jobs'[k].state = IF k = jid THEN "ST" ELSE jobs[k].state
                          /\ Live(k)' <=> Live(k)
    BY <1>1, <2>1, <2>2 DEF Live, Job
  <2>4. \A p : IsListed(p)' <=> IsListed(p)
    BY <2>3 DEF IsListed
  <2>5. ChildrenListed'
    BY <1>1, <2>4 DEF ShellInv, ChildrenInv, ChildrenListed, Dead, Aborted
  <2>6. OnlyNewIsUnlisted' /\ NoLostSigchld'
    BY <1>1 DEF OnlyNewIsUnlisted, NoLostSigchld
  <2>7. \A k \in JobIds : Live(k) /\ jobs[k].pid = pid <=> k = jid
    BY <2>1 DEF ShellInv, TshInv, JobsAreChildren
  <2>8. StoppedJobIsStopped'
    BY <1>1, <2>1, <2>3, <2>7 DEF ShellInv, TshInv, JobsAreChildren, ChildrenInv,
       StoppedJobIsStopped
  <2> QED BY <2>5, <2>6, <2>8 DEF ChildrenInv
<1>3. CASE jid = 0
  <2>1. jobs' = jobs /\ pc' = "abort_job_set_state"
    BY <1>3 DEF ReapStop, job_set_state_ok, job_exists, JobIds
  <2>2. \A k \in JobIds : Live(k) => jobs[k].pid # pid
    BY <1>1, <1>3, JobFromPidResult DEF Live
  <2>3. ChildrenListed'
    BY <1>1, <2>1 DEF ShellInv, ChildrenInv, ChildrenListed, IsListed, Live, Dead, Aborted
  <2>4. OnlyNewIsUnlisted' /\ NoLostSigchld'
    BY <1>1, <2>1 DEF OnlyNewIsUnlisted, NoLostSigchld, Dead, Aborted
  <2>5. StoppedJobIsStopped'
    BY <1>1, <2>1, <2>2 DEF ShellInv, TshInv, JobsAreChildren, ChildrenInv, StoppedJobIsStopped,
       Live
  <2> QED BY <2>3, <2>4, <2>5 DEF ChildrenInv
<1> QED BY <1>2, <1>3

(* A child that ends or stops raises SIGCHLD; none is reported stopped     *)
(* before waitpid has said so.                                             *)
LEMMA ChildStepChildren ==
  ASSUME ShellInv, ChildStep
  PROVE  ChildrenInv'
<1> SUFFICES ASSUME NEW pid \in Pids,
                    \/ ChildSetpgid(pid) \/ ChildExec(pid) \/ ChildDies(pid)
                    \/ ChildKilled(pid) \/ ChildStops(pid)
                    \/ \E sig \in {"INT", "TSTP"} : ChildSwallows(pid, sig)
             PROVE  ChildrenInv'
  BY DEF ChildStep
<1> USE DEF shell
<1>1. /\ UNCHANGED <<jobs, pc, cur, reaping, installed, unlisted>>
      /\ child \in [Pids -> ChildState]
      /\ pending \subseteq pending'
  BY DEF ShellInv, TshInv, TypeOK, ChildSetpgid, ChildExec, ChildDies, ChildKilled, ChildStops,
     ChildSwallows
<1>2. \/ child' = child
      \/ /\ child[pid] \in {"young", "grouped"}
         /\ \E new \in {"grouped", "run"} : child' = [child EXCEPT ![pid] = new]
      \/ /\ child[pid] \notin {"none", "zombie"} /\ child' = [child EXCEPT ![pid] = "zombie"]
         /\ pending' = pending \cup ({"CHLD"} \cap installed)
      \/ /\ child[pid] = "run" /\ child' = [child EXCEPT ![pid] = "stop_new"]
         /\ pending' = pending \cup ({"CHLD"} \cap installed)
  BY DEF ChildSetpgid, ChildExec, ChildDies, ChildKilled, ChildStops, ChildSwallows
<1>3. \A p \in Pids : /\ child'[p] # "none" => child[p] # "none"
                      /\ child'[p] = "stopped" => child[p] = "stopped"
                      /\ child[p] \in {"stopped", "zombie"} => child'[p] \in {"stopped", "zombie"}
                      /\ child'[p] \in Reportable =>
                           \/ child[p] \in Reportable
                           \/ pending' = pending \cup ({"CHLD"} \cap installed)
  BY <1>1, <1>2 DEF Reportable
<1>4. ChildrenListed' /\ OnlyNewIsUnlisted'
  BY <1>1, <1>3 DEF ShellInv, TshInv, CommandInHand, ChildrenInv, ChildrenListed,
     OnlyNewIsUnlisted, IsListed, Live
<1>5. NoLostSigchld'
  BY <1>1, <1>3 DEF ShellInv, ChildrenInv, NoLostSigchld
<1>6. StoppedJobIsStopped'
  BY <1>1, <1>3 DEF ShellInv, TshInv, JobsAreChildren, ChildrenInv, StoppedJobIsStopped, Live
<1> QED BY <1>4, <1>5, <1>6 DEF ChildrenInv

(* Every step preserves the two together.                                  *)
LEMMA StepShellInv == ShellInv /\ [Next]_vars => ShellInv'
<1> SUFFICES ASSUME ShellInv, [Next]_vars
             PROVE  ShellInv'
  OBVIOUS
<1>1. TshInv'
  BY StepInv DEF ShellInv
<1>2. ChildrenInv'
  <2>1. CASE MainStep
    BY <2>1, ForkChildren, QuietMainChildren, AddJobChildren, BgFgActChildren, DestroyChildren
       DEF MainStep
  <2>2. CASE HandlerStep
    BY <2>2, QuietHandlerChildren, ReapZombieChildren, ReapStopChildren DEF HandlerStep
  <2>3. CASE ChildStep
    BY <2>3, ChildStepChildren
  <2>4. CASE \E sig \in {"INT", "TSTP"} : UserSignal(sig)
    BY <2>4, QuietHandlerChildren
  <2>5. CASE UNCHANGED vars
    <3>1. UNCHANGED <<jobs, child, unlisted, pc, cur, pending, reaping, installed>>
      BY <2>5 DEF vars, shell, kids
    <3>2. ChildrenListed' /\ OnlyNewIsUnlisted' /\ StoppedJobIsStopped'
      BY <3>1, SameChildren DEF ShellInv
    <3>3. NoLostSigchld'
      BY <3>1 DEF ShellInv, ChildrenInv, NoLostSigchld
    <3> QED BY <3>2, <3>3 DEF ChildrenInv
  <2> QED BY <2>1, <2>2, <2>3, <2>4, <2>5 DEF Next, Terminated
<1> QED BY <1>1, <1>2 DEF ShellInv

(* The job list, the children and main are consistent with each other, and *)
(* the list tells the truth about the children, in every behaviour.        *)
THEOREM ShellInvariant == Spec => []ShellInv
<1>1. Init => ShellInv
  BY InitInv, InitChildren DEF ShellInv
<1>2. ShellInv /\ [Next]_vars => ShellInv'
  BY StepShellInv
<1> QED BY <1>1, <1>2, PTL DEF Spec

(* The part of it that speaks of the list and main.                        *)
THEOREM TshInvariant == Spec => []TshInv
<1>1. ShellInv => TshInv
  BY DEF ShellInv
<1> QED BY <1>1, ShellInvariant, PTL

(* At most one job is ever in the foreground (tsh_helper.h).               *)
THEOREM OneForeground == Spec => []AtMostOneFg
<1>1. ShellInv => AtMostOneFg
  BY DEF ShellInv, TshInv
<1> QED BY <1>1, ShellInvariant, PTL

(* A signal is never sent to a pid that has been reaped.                   *)
THEOREM OnlyChildrenListed == Spec => []JobsAreChildren
<1>1. ShellInv => JobsAreChildren
  BY DEF ShellInv, TshInv
<1> QED BY <1>1, ShellInvariant, PTL

(* A child is never reaped before it is listed and never forgotten         *)
(* (QUESTIONS.txt, question 4).                                            *)
THEOREM NoChildForgotten == Spec => []ChildrenListed
<1>1. ShellInv => ChildrenListed
  BY DEF ShellInv, ChildrenInv
<1> QED BY <1>1, ShellInvariant, PTL

(* No SIGCHLD that was merged into another one leaves a child unreported   *)
(* (QUESTIONS.txt, question 3).                                            *)
THEOREM SigchldSuffices == Spec => []NoLostSigchld
<1>1. ShellInv => NoLostSigchld
  BY DEF ShellInv, ChildrenInv
<1> QED BY <1>1, ShellInvariant, PTL

(* The list says of a job that it is stopped when its process is.          *)
THEOREM StopsAreKnown == Spec => []StoppedJobIsStopped
<1>1. ShellInv => StoppedJobIsStopped
  BY DEF ShellInv, ChildrenInv
<1> QED BY <1>1, ShellInvariant, PTL

(* add_job's aborts and its assertion are never hit.                       *)
THEOREM AddJobIsCalledRight == Spec => []AddJobNeverAborts
<1>1. ShellInv => AddJobNeverAborts
  BY DEF ShellInv, TshInv
<1> QED BY <1>1, ShellInvariant, PTL

-----------------------------------------------------------------------------
(* The refinement of JobControl. *)

(* No two jobs have the same pid.                                          *)
PidsDiffer(js) ==
  \A i, k \in JobIds : js[i].state # "UNDEF" /\ js[k].state # "UNDEF" /\ js[i].pid = js[k].pid
                        => i = k
Entry(js, pid) == IF job_from_pid(js, pid) = 0 THEN "none" ELSE js[job_from_pid(js, pid)].state

(* The entry of a pid is the state of its job, "none" without one.         *)
LEMMA EntryResult ==
  ASSUME NEW js \in [JobIds -> Job], PidsDiffer(js), NEW pid
  PROVE  /\ \A jid \in JobIds : js[jid].state # "UNDEF" /\ js[jid].pid = pid
                               => Entry(js, pid) = js[jid].state
         /\ (\A jid \in JobIds : js[jid].state # "UNDEF" => js[jid].pid # pid)
              => Entry(js, pid) = "none"
         /\ Entry(js, pid) \in {"none", "FG", "BG", "ST"}
<1> DEFINE jid == job_from_pid(js, pid)
<1>1. /\ jid = 0 <=> \A k \in JobIds : js[k].state # "UNDEF" => js[k].pid # pid
      /\ jid # 0 => jid \in JobIds /\ js[jid].state # "UNDEF" /\ js[jid].pid = pid
  BY JobFromPidResult
<1>2. Entry(js, pid) = IF jid = 0 THEN "none" ELSE js[jid].state
  BY DEF Entry
<1> HIDE DEF jid
<1>3. \A k \in JobIds : js[k].state # "UNDEF" /\ js[k].pid = pid => k = jid /\ jid # 0
  BY <1>1 DEF PidsDiffer
<1>4. jid # 0 => js[jid].state \in {"FG", "BG", "ST"}
  BY <1>1 DEF Job, JobState
<1> QED BY <1>1, <1>2, <1>3, <1>4

(* The table before and after a step, as entries of the list.              *)
LEMMA Tables ==
  ASSUME TshInv, TshInv'
  PROVE  /\ jobs \in [JobIds -> Job] /\ PidsDiffer(jobs)
         /\ jobs' \in [JobIds -> Job] /\ PidsDiffer(jobs')
         /\ \A pid : TableOf(pid) = Entry(jobs, pid) /\ TableOf(pid)' = Entry(jobs', pid)
BY DEF TshInv, TypeOK, JobsAreChildren, Live, PidsDiffer, TableOf, Entry

(* While no job has the foreground the abstract table has no FG entry.     *)
LEMMA NoForeground ==
  ASSUME TshInv, \A jid \in JobIds : jobs[jid].state # "FG"
  PROVE  \A pid \in Pids : TableOf(pid) # "FG"
<1>1. jobs \in [JobIds -> Job] /\ PidsDiffer(jobs) /\ \A pid : TableOf(pid) = Entry(jobs, pid)
  BY DEF TshInv, TypeOK, JobsAreChildren, Live, PidsDiffer, TableOf, Entry
<1> SUFFICES ASSUME NEW pid \in Pids PROVE Entry(jobs, pid) # "FG"
  BY <1>1
<1>2. CASE \A jid \in JobIds : jobs[jid].state # "UNDEF" => jobs[jid].pid # pid
  BY <1>1, <1>2, EntryResult
<1>3. CASE \E jid \in JobIds : jobs[jid].state # "UNDEF" /\ jobs[jid].pid = pid
  BY <1>1, <1>3, EntryResult
<1> QED BY <1>2, <1>3

(* Two lists in which the same slots hold a pid, in the same state, have   *)
(* the same entry for it.                                                  *)
LEMMA SameEntry ==
  ASSUME NEW js \in [JobIds -> Job], PidsDiffer(js),
         NEW new \in [JobIds -> Job], PidsDiffer(new), NEW p,
         \A k \in JobIds : js[k].state # "UNDEF" /\ js[k].pid = p
                          => new[k].state = js[k].state /\ new[k].pid = p,
         \A k \in JobIds : new[k].state # "UNDEF" /\ new[k].pid = p
                          => js[k].state # "UNDEF" /\ js[k].pid = p
  PROVE  Entry(new, p) = Entry(js, p)
<1>1. CASE \E k \in JobIds : js[k].state # "UNDEF" /\ js[k].pid = p
  <2> PICK k \in JobIds : js[k].state # "UNDEF" /\ js[k].pid = p
    BY <1>1
  <2>1. Entry(js, p) = js[k].state
    BY EntryResult
  <2>2. Entry(new, p) = new[k].state
    BY EntryResult
  <2> QED BY <2>1, <2>2
<1>2. CASE \A k \in JobIds : js[k].state # "UNDEF" => js[k].pid # p
  <2>1. Entry(js, p) = "none"
    BY <1>2, EntryResult
  <2>2. Entry(new, p) = "none"
    BY <1>2, EntryResult
  <2> QED BY <2>1, <2>2
<1> QED BY <1>1, <1>2

(* The shell starts with an empty table.                                   *)
LEMMA MapsInit == Init => JC!Init
<1> SUFFICES ASSUME Init PROVE JC!Init
  OBVIOUS
<1>1. TshInv
  BY InitInv
<1>2. \A jid \in JobIds : jobs[jid].state = "UNDEF"
  BY DEF Init, init_job_list, clearjob
<1>3. /\ jobs \in [JobIds -> Job] /\ PidsDiffer(jobs)
      /\ \A pid : TableOf(pid) = Entry(jobs, pid)
  BY <1>1 DEF TshInv, TypeOK, JobsAreChildren, Live, PidsDiffer, TableOf, Entry
<1>4. \A pid : Entry(jobs, pid) = "none"
  BY <1>2, <1>3, EntryResult
<1> QED BY <1>3, <1>4 DEF JC!Init

(* A step that leaves the list alone leaves the table alone.               *)
LEMMA MapsSameList == jobs' = jobs => UNCHANGED [pid \in Pids |-> TableOf(pid)]
BY DEF TableOf

(* add_job starts a job, or leaves a full list as it is.                   *)
LEMMA MapsAddJob ==
  ASSUME TshInv, TshInv', AddJob
  PROVE  JC!Next \/ UNCHANGED [pid \in Pids |-> TableOf(pid)]
<1>0. PICK added : added = add_job(jobs, nextjid, cur.pid, cur.state)
  OBVIOUS
<1>1. /\ jobs \in [JobIds -> Job]
      /\ NextIsPastLast(jobs, nextjid)
      /\ \A jid \in JobIds : jobs[jid].state # "FG"
      /\ cur.pid \in Pids /\ cur.state \in CmdState /\ ~IsListed(cur.pid)
      /\ nextjid \in 1..(MAXJOBS + 1)
  BY DEF TshInv, TypeOK, NextJidIsFree, NextIsPastLast, Live, OnlyWaitingHasFg,
     CommandInHand, AddJob
<1>2. /\ ~add_job_aborts(jobs, nextjid, cur.state)
      /\ ~add_job_fails(nextjid) =>
           /\ nextjid \in JobIds
           /\ jobs[nextjid].state = "UNDEF"
           /\ \A jid \in JobIds : added.jobs[jid] =
                IF jid = nextjid THEN [pid |-> cur.pid, state |-> cur.state] ELSE jobs[jid]
  BY <1>0, <1>1, AddJobResult
<1>3. jobs' = added.jobs
  BY <1>0 DEF AddJob
<1>4. CASE add_job_fails(nextjid)
  BY <1>0, <1>3, <1>4, MapsSameList DEF add_job
<1>5. CASE ~add_job_fails(nextjid)
  <2> DEFINE pid == cur.pid
  <2>1. /\ jobs' \in [JobIds -> Job] /\ PidsDiffer(jobs') /\ PidsDiffer(jobs)
        /\ \A p : TableOf(p) = Entry(jobs, p) /\ TableOf(p)' = Entry(jobs', p)
    BY Tables
  <2>2. /\ nextjid \in JobIds /\ jobs[nextjid].state = "UNDEF"
        /\ \A jid \in JobIds : jobs'[jid] =
             IF jid = nextjid THEN [pid |-> pid, state |-> cur.state] ELSE jobs[jid]
    BY <1>2, <1>3, <1>5
  <2>3. Entry(jobs, pid) = "none"
    <3>1. \A jid \in JobIds : jobs[jid].state # "UNDEF" => jobs[jid].pid # pid
      BY <1>1 DEF IsListed, Live
    <3> QED BY <1>1, <2>1, <3>1, EntryResult
  <2>4. Entry(jobs', pid) = cur.state
    <3>1. jobs'[nextjid].state # "UNDEF" /\ jobs'[nextjid].pid = pid /\ jobs'[nextjid].state = cur.state
      BY <1>1, <2>2 DEF CmdState
    <3> QED BY <2>1, <2>2, <3>1, EntryResult
  <2>5. ASSUME NEW p, p # pid PROVE Entry(jobs', p) = Entry(jobs, p)
    <3> HIDE DEF pid
    <3>1. \A k \in JobIds : jobs[k].state # "UNDEF" /\ jobs[k].pid = p
                          => jobs'[k].state = jobs[k].state /\ jobs'[k].pid = p
      BY <2>2
    <3>2. \A k \in JobIds : jobs'[k].state # "UNDEF" /\ jobs'[k].pid = p
                          => jobs[k].state # "UNDEF" /\ jobs[k].pid = p
      BY <2>2, <2>5
    <3> QED BY <1>1, <2>1, <3>1, <3>2, SameEntry
  <2>6. \A p \in Pids : TableOf(p) # "FG"
    BY <1>1, NoForeground
  <2>7. JC!Start(pid, cur.state)
    BY <1>1, <2>1, <2>3, <2>4, <2>5, <2>6 DEF JC!Start, JC!Foreground
  <2> QED BY <1>1, <2>7 DEF JC!Next, CmdState
<1> QED BY <1>4, <1>5

(* bg and fg resume a job that is listed.                                  *)
LEMMA MapsBgFgAct ==
  ASSUME TshInv, TshInv', BgFgAct
  PROVE  JC!Next \/ UNCHANGED [pid \in Pids |-> TableOf(pid)]
<1>1. CASE job_set_state_ok(jobs, cur.jid, cur.state)
  <2> DEFINE jid == cur.jid
             pid == jobs[jid].pid
  <2>1. /\ jid \in JobIds /\ jobs[jid].state # "UNDEF"
        /\ jobs' = [jobs EXCEPT ![jid].state = cur.state]
    BY <1>1 DEF BgFgAct, job_set_state_ok, job_exists, job_set_state
  <2>2. /\ jobs \in [JobIds -> Job] /\ cur.state \in CmdState
        /\ \A k \in JobIds : jobs[k].state # "FG"
        /\ pid \in Pids
    BY <2>1 DEF TshInv, TypeOK, CommandInHand, OnlyWaitingHasFg, JobsAreChildren, Live, BgFgAct
  <2>3. /\ PidsDiffer(jobs) /\ jobs' \in [JobIds -> Job] /\ PidsDiffer(jobs')
        /\ \A p : TableOf(p) = Entry(jobs, p) /\ TableOf(p)' = Entry(jobs', p)
    BY Tables
  <2>4. \A k \in JobIds : jobs'[k].pid = jobs[k].pid
                          /\ jobs'[k].state = IF k = jid THEN cur.state ELSE jobs[k].state
    BY <2>1, <2>2 DEF Job
  <2> HIDE DEF jid
  <2>5. Entry(jobs, pid) = jobs[jid].state
    BY <2>1, <2>2, <2>3, EntryResult
  <2>6. Entry(jobs', pid) = cur.state
    <3>1. jobs'[jid].state # "UNDEF" /\ jobs'[jid].pid = pid /\ jobs'[jid].state = cur.state
      BY <2>1, <2>2, <2>4 DEF CmdState
    <3> QED BY <2>1, <2>3, <3>1, EntryResult
  <2>7. ASSUME NEW p, p # pid PROVE Entry(jobs', p) = Entry(jobs, p)
    <3>1. \A k \in JobIds : jobs[k].pid = p \/ jobs'[k].pid = p
                             => jobs'[k].state = jobs[k].state /\ jobs'[k].pid = jobs[k].pid
      BY <2>4, <2>7
    <3> QED BY <2>2, <2>3, <3>1, SameEntry
  <2>8. \A p \in Pids : TableOf(p) # "FG"
    BY <2>2, NoForeground
  <2> HIDE DEF pid
  <2>9. JC!Resume(pid, cur.state)
    BY <2>1, <2>2, <2>3, <2>5, <2>6, <2>7, <2>8 DEF JC!Resume, JC!Foreground, Job, JobState
  <2> QED BY <2>2, <2>9 DEF JC!Next, CmdState
<1>2. CASE ~job_set_state_ok(jobs, cur.jid, cur.state)
  BY <1>2, MapsSameList DEF BgFgAct
<1> QED BY <1>1, <1>2

(* A job whose child was reaped ends; a child without a job changes nothing. *)
LEMMA MapsReapZombie ==
  ASSUME TshInv, TshInv', NEW pid \in Pids, ReapZombie(pid)
  PROVE  JC!Next \/ UNCHANGED [p \in Pids |-> TableOf(p)]
<1>1. /\ jobs \in [JobIds -> Job] /\ PidsDiffer(jobs)
      /\ jobs' \in [JobIds -> Job] /\ PidsDiffer(jobs')
      /\ \A p : TableOf(p) = Entry(jobs, p) /\ TableOf(p)' = Entry(jobs', p)
  BY Tables
<1>2. /\ \A k \in JobIds : jobs'[k].state # "UNDEF" <=> jobs[k].state # "UNDEF" /\ jobs[k].pid # pid
      /\ \A k \in JobIds : jobs[k].state # "UNDEF" /\ jobs[k].pid # pid => jobs'[k] = jobs[k]
  BY ReapZombieList DEF Live
<1>3. ASSUME NEW p, p # pid PROVE Entry(jobs', p) = Entry(jobs, p)
  BY <1>1, <1>2, <1>3, SameEntry
<1>4. Entry(jobs', pid) = "none"
  BY <1>1, <1>2, EntryResult
<1>5. CASE Entry(jobs, pid) = "none"
  BY <1>1, <1>3, <1>4, <1>5
<1>6. CASE Entry(jobs, pid) # "none"
  <2>1. JC!End(pid)
    BY <1>1, <1>3, <1>4, <1>6 DEF JC!End
  <2> QED BY <2>1 DEF JC!Next
<1> QED BY <1>5, <1>6

(* A job whose child is reported stopped is stopped.                       *)
LEMMA MapsReapStop ==
  ASSUME TshInv, TshInv', NEW pid \in Pids, ReapStop(pid)
  PROVE  JC!Next \/ UNCHANGED [p \in Pids |-> TableOf(p)]
<1> DEFINE jid == job_from_pid(jobs, pid)
<1>1. CASE job_set_state_ok(jobs, jid, "ST")
  <2>1. /\ jobs \in [JobIds -> Job] /\ PidsDiffer(jobs)
        /\ jobs' \in [JobIds -> Job] /\ PidsDiffer(jobs')
        /\ \A p : TableOf(p) = Entry(jobs, p) /\ TableOf(p)' = Entry(jobs', p)
    BY Tables
  <2>2. jid \in JobIds /\ jobs[jid].state # "UNDEF" /\ jobs' = [jobs EXCEPT ![jid].state = "ST"]
    BY <1>1 DEF ReapStop, job_set_state_ok, job_exists, job_set_state
  <2>3. jobs[jid].pid = pid
    <3>1. jid # 0 => jobs[jid].pid = pid
      BY <2>1, JobFromPidResult
    <3> HIDE DEF jid
    <3> QED BY <2>2, <3>1 DEF JobIds
  <2> HIDE DEF jid
  <2>4. \A k \in JobIds : jobs'[k].pid = jobs[k].pid
                          /\ jobs'[k].state = IF k = jid THEN "ST" ELSE jobs[k].state
    BY <2>1, <2>2 DEF Job
  <2>5. Entry(jobs, pid) = jobs[jid].state /\ Entry(jobs', pid) = "ST"
    <3>1. Entry(jobs, pid) = jobs[jid].state
      BY <2>1, <2>2, <2>3, EntryResult
    <3>2. jobs'[jid].state = "ST" /\ jobs'[jid].pid = pid
      BY <2>2, <2>3, <2>4
    <3>3. Entry(jobs', pid) = jobs'[jid].state
      BY <2>1, <2>2, <3>2, EntryResult
    <3> QED BY <3>1, <3>2, <3>3
  <2>6. ASSUME NEW p, p # pid PROVE Entry(jobs', p) = Entry(jobs, p)
    <3>1. \A k \in JobIds : jobs[k].pid = p \/ jobs'[k].pid = p
                             => jobs'[k].state = jobs[k].state /\ jobs'[k].pid = jobs[k].pid
      BY <2>3, <2>4, <2>6
    <3> QED BY <2>1, <3>1, SameEntry
  <2>7. CASE jobs[jid].state = "ST"
    BY <2>1, <2>5, <2>6, <2>7
  <2>8. CASE jobs[jid].state # "ST"
    <3>1. jobs[jid].state \in {"FG", "BG"}
      BY <2>1, <2>2, <2>8 DEF Job, JobState
    <3>2. JC!Stop(pid)
      BY <2>1, <2>5, <2>6, <3>1 DEF JC!Stop
    <3> QED BY <3>2 DEF JC!Next
  <2> QED BY <2>7, <2>8
<1>2. CASE ~job_set_state_ok(jobs, jid, "ST")
  BY <1>2, MapsSameList DEF ReapStop
<1> QED BY <1>1, <1>2

(* exit forgets every job, while none has the foreground.                  *)
LEMMA MapsDestroy ==
  ASSUME TshInv, TshInv', DestroyJobList
  PROVE  JC!Next
<1>1. /\ jobs' \in [JobIds -> Job] /\ PidsDiffer(jobs')
      /\ \A p : TableOf(p)' = Entry(jobs', p)
  BY Tables
<1>2. \A k \in JobIds : jobs'[k].state = "UNDEF"
  BY DEF DestroyJobList, init_job_list, clearjob
<1>3. \A p : Entry(jobs', p) = "none"
  BY <1>1, <1>2, EntryResult
<1>4. \A p \in Pids : TableOf(p) # "FG"
  BY NoForeground DEF TshInv, OnlyWaitingHasFg, DestroyJobList
<1>5. JC!Shutdown
  BY <1>1, <1>3, <1>4 DEF JC!Shutdown, JC!Foreground
<1> QED BY <1>5 DEF JC!Next

(* Every step of the shell is a step of JobControl, or leaves the table.   *)
LEMMA MapsStep ==
  ASSUME TshInv, TshInv', [Next]_vars
  PROVE  JC!Next \/ UNCHANGED [p \in Pids |-> TableOf(p)]
<1> USE DEF kids, shell
<1>1. CASE MainStep
  <2>1. CASE AddJob \/ BgFgAct \/ DestroyJobList
    BY <2>1, MapsAddJob, MapsBgFgAct, MapsDestroy
  <2>2. CASE ~(AddJob \/ BgFgAct \/ DestroyJobList)
    <3>1. jobs' = jobs
      BY <1>1, <2>2 DEF MainStep, EvalFork, BgFgByPid, BgFgByJid, EvalForkFails, FgDone, FgSuspend,
         SuspendReturns, BgFgCheck, Quit, Uninstall
    <3> QED BY <3>1, MapsSameList
  <2> QED BY <2>1, <2>2
<1>2. CASE HandlerStep
  <2>1. CASE \E pid \in Pids : ReapZombie(pid) \/ ReapStop(pid)
    BY <2>1, MapsReapZombie, MapsReapStop
  <2>2. CASE ~(\E pid \in Pids : ReapZombie(pid) \/ ReapStop(pid))
    <3>1. jobs' = jobs
      BY <1>2, <2>2 DEF HandlerStep, HandleKeyboard, DieOfSigint, HandleQuit, EnterReap, ReapDone
    <3> QED BY <3>1, MapsSameList
  <2> QED BY <2>1, <2>2
<1>3. CASE ChildStep
  <2>1. jobs' = jobs
    BY <1>3 DEF ChildStep, ChildSetpgid, ChildExec, ChildDies, ChildKilled, ChildStops, ChildSwallows
  <2> QED BY <2>1, MapsSameList
<1>4. CASE (\E sig \in {"INT", "TSTP"} : UserSignal(sig)) \/ UNCHANGED vars
  <2>1. jobs' = jobs
    BY <1>4 DEF UserSignal, vars
  <2> QED BY <2>1, MapsSameList
<1> QED BY <1>1, <1>2, <1>3, <1>4 DEF Next, Terminated

(* The shell implements JobControl: it takes no command while a job has    *)
(* the foreground, and a job changes state as its process does.            *)
THEOREM RefinesJobControl == Spec => ImplementsJobControl
<1>1. Init => JC!Init
  BY MapsInit
<1>2. TshInv /\ TshInv' /\ [Next]_vars => [JC!Next]_([pid \in Pids |-> TableOf(pid)])
  BY MapsStep
<1> QED BY <1>1, <1>2, TshInvariant, PTL DEF Spec, ImplementsJobControl, JC!Spec
=============================================================================
