------------------------------- MODULE MCQtest -------------------------------
(***************************************************************************)
(* Small instances of the string queue under qtest, of qtest's commands    *)
(* around any queue, and of the console that reads the commands, for TLC.  *)
(* A behaviour runs one of the three, the others rest in an initial state. *)
(***************************************************************************)
EXTENDS QtestProperties, TLC

VARIABLES part,   \* which of the three runs
          (* harness.c and the commands of qtest.c *)
          blocks, allocated_count, magic, footer, cautious_mode, noallocate_mode, error_occurred,
          jmp_ready, time_limited, verblevel, queue, queue_count, fail_count,
          next_step, command, op, ok, rval, r, reported, late,
          (* console.c *)
          infile_name, loop, buf_stack, linebuf, cnt, selected, quit_flag, err_cnt, err_limit,
          cmd_list, logfile, allocate_cnt, free_cnt, helpers, executed

harness == <<blocks, allocated_count, magic, footer, cautious_mode, noallocate_mode, error_occurred,
             jmp_ready, time_limited, verblevel, queue, queue_count, fail_count,
             next_step, command, op, ok, rval, r, reported, late>>
console == <<infile_name, loop, buf_stack, linebuf, cnt, selected, quit_flag, err_cnt, err_limit,
             cmd_list, logfile, allocate_cnt, free_cnt, helpers, executed>>
labVars == <<part, vars, harness, console>>

QtestSymmetry == Permutations(Cells) \cup Permutations(Values)

-----------------------------------------------------------------------------
(* One block at a time; verbosity 1, and 4, where every command shows the  *)
(* queue.                                                                  *)
Harness == INSTANCE Harness WITH
  Blocks <- {1}, Levels <- {1, 4}, Reps <- {0, 2}, fail_limit <- 2, big_queue_size <- 2, SizeBits <- 2,
  allocated <- blocks, q <- queue, qcnt <- queue_count, pc <- next_step, cmd <- command

(* Files with errors up to the limit, files that source files, a quit in a *)
(* sourced file, lines longer than the buffer and a last line that does    *)
(* not end.                                                                *)
Files == [
  errors |-> <<"ok", "\n", "source", "sub", "\n", "bad", "\n", "time", "bad", "\n",
               "error", "4", "\n", "ok", "ok", "ok", "ok", "\n", "quit", "\n", "ok">>,
  sub    |-> <<"log", "\n", "time", "source", "leaf">>,
  leaf   |-> <<"event", "\n", "\n", "source", "missing">>,
  clean  |-> <<"source", "log", "\n", "time", "\n", "source", "log">>,
  log    |-> <<"log", "\n", "ok">>,
  quits  |-> <<"ok", "\n", "source", "quit", "\n", "ok", "\n">>,
  quit   |-> <<"time", "quit", "\n", "ok", "\n">>,
  wraps  |-> <<"error", "8", "\n", "ok", "\n", "source", "\n", "ok", "\n">>]

Console == INSTANCE Console WITH
  Contents <- Files, Infiles <- {"errors", "clean", "quits", "wraps"}, RIO_BUFSIZE <- 6,
  default_err_limit <- 5, Numbers <- ("4" :> 4) @@ ("8" :> 8), IntRange <- 8, Commands <- 2

-----------------------------------------------------------------------------
LabInit ==
  /\ part \in {"queue", "harness", "console"}
  /\ Init /\ Harness!HarnessInit /\ Console!ConsoleInit
  /\ part # "harness" => verblevel = 1
  /\ part # "console" => infile_name = "clean"

QueueStep   == part = "queue" /\ Next /\ UNCHANGED <<part, harness, console>>
HarnessStep == part = "harness" /\ Harness!HarnessNext /\ UNCHANGED <<part, vars, console>>
ConsoleStep == part = "console" /\ Console!ConsoleNext /\ UNCHANGED <<part, vars, harness>>

(* The console and a command that exits the process do stop. *)
Stopped == part # "queue" /\ (loop = "done" \/ next_step = "exited") /\ UNCHANGED labVars

LabNext == QueueStep \/ HarnessStep \/ ConsoleStep \/ Stopped
LabSpec == LabInit /\ [][LabNext]_labVars

-----------------------------------------------------------------------------
(* A command fails exactly when it has reported an error (Harness).        *)
ResultMatchesReport == part = "harness" => Harness!ResultMatchesReport

(* Every command starts from a reset harness (Harness).                    *)
HarnessIsReset == part = "harness" => Harness!HarnessIsReset

(* The console runs the commands in the order of the text and accounts for *)
(* every block it holds (Console).                                         *)
ConsoleKeepsTrack == part = "console" => Console!RunsInOrder /\ Console!AccountsBalance
=============================================================================
