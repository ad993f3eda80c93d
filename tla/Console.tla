------------------------------ MODULE Console ------------------------------
(* console.c reads commands from a stack of files and runs them; report.c  *)
(* writes the log and accounts for the memory console.c allocates.         *)
(* A file is a sequence of tokens: words, which stand for themselves, and  *)
(* "\n". Of what qtest adds, a command that succeeds is "ok", one that     *)
(* fails "bad", and one whose run reports an error event "event".          *)
EXTENDS Integers, Sequences, SequencesExt

CONSTANTS
  Contents,     \* file name -> its tokens
  Infiles,      \* the values of -f
  RIO_BUFSIZE,  \* tokens a buffer holds
  default_err_limit,
  Numbers,      \* word -> the long that strtol reads
  IntRange,     \* number of values of an int
  Commands      \* number of commands and parameters in the two lists

VARIABLES
  infile_name,
  loop,         \* run_console: "top", "readline", "finish", "done"
  buf_stack,    \* top first; rest: what the descriptor still has to give
  linebuf, cnt, \* readline's line and its loop counter
  selected,     \* read from select, not from the while loop over the buffer
  quit_flag, err_cnt, err_limit,
  cmd_list,     \* "live", "freed"
  logfile,      \* "none", "open", "closed": closed but still written to
  allocate_cnt, free_cnt,
  helpers,      \* history: times the quit helpers ran
  executed      \* history: lines interpreted, in order
consoleVars == <<infile_name, loop, buf_stack, linebuf, cnt, selected, quit_flag, err_cnt, err_limit, cmd_list, logfile,
                 allocate_cnt, free_cnt, helpers, executed>>

Buffer(file) == [rest |-> Contents[file], buf |-> <<>>]

ConsoleInit ==
  /\ infile_name \in Infiles
  /\ loop = "top" /\ buf_stack = <<Buffer(infile_name)>>
  /\ linebuf = <<>> /\ cnt = 0 /\ selected = FALSE
  /\ quit_flag = FALSE /\ err_cnt = 0 /\ err_limit = default_err_limit
  /\ cmd_list = "live" /\ logfile = "none"
  /\ allocate_cnt = Commands + 1 /\ free_cnt = 0   \* add_cmd, add_param, push_file
  /\ helpers = 0 /\ executed = <<>>

-----------------------------------------------------------------------------
(* cmd_select: lines that are complete in the buffer first, then select.   *)
read_ready == buf_stack # <<>> /\ "\n" \in Range(Head(buf_stack).buf)
cmd_done   == buf_stack = <<>> \/ quit_flag

StartLine ==
  /\ loop = "top" /\ (read_ready \/ ~cmd_done)
  /\ loop' = "readline" /\ linebuf' = <<>> /\ cnt' = 0 /\ selected' = ~read_ready
  /\ UNCHANGED <<buf_stack, quit_flag, err_cnt, err_limit, cmd_list, logfile, allocate_cnt, free_cnt, helpers, executed>>

(* readline: one round of its loop. A read gives any part of what is left. *)
Refill ==
  /\ loop = "readline" /\ cnt < RIO_BUFSIZE - 2
  /\ Head(buf_stack).buf = <<>> /\ Head(buf_stack).rest # <<>>
  /\ \E n \in 1..RIO_BUFSIZE :
       /\ n <= Len(Head(buf_stack).rest)
       /\ buf_stack' = <<[rest |-> SubSeq(Head(buf_stack).rest, n + 1, Len(Head(buf_stack).rest)),
                          buf  |-> SubSeq(Head(buf_stack).rest, 1, n)]>> \o Tail(buf_stack)
  /\ UNCHANGED <<loop, linebuf, cnt, selected, quit_flag, err_cnt, err_limit, cmd_list, logfile, allocate_cnt, free_cnt,
                 helpers, executed>>
ReadToken ==
  /\ loop = "readline" /\ cnt < RIO_BUFSIZE - 2 /\ Head(buf_stack).buf # <<>>
  /\ LET c == Head(Head(buf_stack).buf) IN
     /\ buf_stack' = [buf_stack EXCEPT ![1].buf = Tail(@)]
     /\ linebuf' = IF c = "\n" THEN linebuf ELSE Append(linebuf, c)
     /\ cnt' = cnt + 1
     /\ loop' = IF c = "\n" \/ cnt' = RIO_BUFSIZE - 2 THEN "interpret" ELSE "readline"
  /\ UNCHANGED <<selected, quit_flag, err_cnt, err_limit, cmd_list, logfile, allocate_cnt, free_cnt, helpers, executed>>
(* pop_file at the end of the file; a line without newline is a line too.  *)
EndOfFile ==
  /\ loop = "readline" /\ Head(buf_stack).buf = <<>> /\ Head(buf_stack).rest = <<>>
  /\ buf_stack' = Tail(buf_stack) /\ free_cnt' = free_cnt + 1
  /\ loop' = IF cnt > 0 THEN "interpret" ELSE "top"
  /\ UNCHANGED <<linebuf, cnt, selected, quit_flag, err_cnt, err_limit, cmd_list, logfile, allocate_cnt, helpers, executed>>

-----------------------------------------------------------------------------
(* do_quit_cmd frees the lists, closes the files and runs the helpers.     *)
do_quit_cmd ==
  /\ cmd_list' = "freed" /\ buf_stack' = <<>> /\ quit_flag' = TRUE
  /\ free_cnt' = free_cnt + Commands + Len(buf_stack)
  /\ helpers' = helpers + 1

(* strtol reads a long, get_int keeps an int of it.                        *)
get_int(v) == Numbers[v] % IntRange

(* record_error, once for the command and once for every time before it.   *)
Record(ok, times) ==
  /\ err_cnt' = IF ok THEN err_cnt ELSE err_cnt + 1 + times
  /\ quit_flag' = (quit_flag \/ (~ok /\ err_cnt' >= err_limit))

(* push_file. *)
source(file, times) ==
  /\ Record(file \in DOMAIN Contents, times)
  /\ IF file \in DOMAIN Contents
     THEN buf_stack' = <<Buffer(file)>> \o buf_stack /\ allocate_cnt' = allocate_cnt + 1
     ELSE UNCHANGED <<buf_stack, allocate_cnt>>

(* report and report_event write to the log too, and report_event closes   *)
(* it; set_logfile opens another one.                                      *)
report_event == logfile' = IF logfile = "open" THEN "closed" ELSE logfile

(* interpret_cmda runs argv after so many times "time" (do_time_cmd).       *)
interpret_cmda(argv, times) ==
  LET name == IF argv = <<>> THEN "" ELSE argv[1] IN
  \/ /\ name \in {"", "ok"} /\ Record(TRUE, times)
     /\ UNCHANGED <<buf_stack, err_limit, cmd_list, logfile, allocate_cnt, free_cnt, helpers>>
  \/ /\ name = "event" /\ report_event /\ Record(FALSE, times)
     /\ UNCHANGED <<buf_stack, err_limit, cmd_list, allocate_cnt, free_cnt, helpers>>
  \/ /\ name = "log" /\ logfile' = "open" /\ Record(TRUE, times)
     /\ UNCHANGED <<buf_stack, err_limit, cmd_list, allocate_cnt, free_cnt, helpers>>
  \/ /\ name = "source" /\ Len(argv) > 1 /\ source(argv[2], times)
     /\ UNCHANGED <<err_limit, cmd_list, logfile, free_cnt, helpers>>
  \/ /\ name = "error" /\ Len(argv) > 1   \* option error N
     /\ err_limit' = get_int(argv[2]) /\ Record(TRUE, times)
     /\ UNCHANGED <<buf_stack, cmd_list, logfile, allocate_cnt, free_cnt, helpers>>
  \/ /\ name = "quit" /\ do_quit_cmd
     /\ UNCHANGED <<err_cnt, err_limit, logfile, allocate_cnt>>
  \/ /\ name = "bad" \/ (name \in {"source", "error"} /\ Len(argv) = 1)
     /\ Record(FALSE, times)
     /\ UNCHANGED <<buf_stack, err_limit, cmd_list, logfile, allocate_cnt, free_cnt, helpers>>

Times(argv)    == CHOOSE n \in 0..Len(argv) : /\ \A k \in 1..n : argv[k] = "time"
                                             /\ n < Len(argv) => argv[n + 1] # "time"
Untimed(argv)  == SubSeq(argv, Times(argv) + 1, Len(argv))
interpret_cmd(argv) ==
  IF quit_flag
  THEN UNCHANGED <<buf_stack, quit_flag, err_cnt, err_limit, cmd_list, logfile, allocate_cnt, free_cnt, helpers, executed>>
  ELSE interpret_cmda(Untimed(argv), Times(argv)) /\ executed' = Append(executed, argv)
Interpret ==
  /\ loop = "interpret" /\ loop' = "top" /\ interpret_cmd(linebuf)
  /\ UNCHANGED <<linebuf, cnt, selected>>

-----------------------------------------------------------------------------
(* qtest's main: run_console, and finish_cmd if no command failed.         *)
Finish_again ==   \* mutant: finish_cmd does not look whether quit has run
  /\ loop = "top" /\ ~read_ready /\ cmd_done /\ loop' = "done"
  /\ IF err_cnt = 0 THEN do_quit_cmd
     ELSE UNCHANGED <<buf_stack, quit_flag, cmd_list, free_cnt, helpers>>
  /\ UNCHANGED <<linebuf, cnt, selected, err_cnt, err_limit, logfile, allocate_cnt, executed>>
Finish ==
  /\ loop = "top" /\ ~read_ready /\ cmd_done /\ loop' = "done"
  /\ IF err_cnt = 0 /\ ~quit_flag THEN do_quit_cmd
     ELSE UNCHANGED <<buf_stack, quit_flag, cmd_list, free_cnt, helpers>>
  /\ UNCHANGED <<linebuf, cnt, selected, err_cnt, err_limit, logfile, allocate_cnt, executed>>

ConsoleNext ==
  /\ StartLine \/ Refill \/ ReadToken \/ EndOfFile \/ Interpret \/ Finish
  /\ UNCHANGED infile_name

-----------------------------------------------------------------------------
(* The lines of a file, and a file with the files it sources put in place. *)
Lines(tokens) ==
  LET Take(acc, c) ==
        LET line == IF c = "\n" THEN acc.line ELSE Append(acc.line, c) IN
        IF c = "\n" \/ acc.n + 1 = RIO_BUFSIZE - 2
        THEN [lines |-> Append(acc.lines, line), line |-> <<>>, n |-> 0]
        ELSE [lines |-> acc.lines, line |-> line, n |-> acc.n + 1]
      end == FoldLeft(Take, [lines |-> <<>>, line |-> <<>>, n |-> 0], tokens)
  IN IF end.n = 0 THEN end.lines ELSE Append(end.lines, end.line)
RECURSIVE Inlined(_)
Inlined(file) ==
  LET Put(acc, line) ==
        LET argv == Untimed(line)
            sources == Len(argv) > 1 /\ argv[1] = "source" /\ argv[2] \in DOMAIN Contents
        IN acc \o <<line>> \o (IF sources THEN Inlined(argv[2]) ELSE <<>>)
  IN FoldLeft(Put, <<>>, Lines(Contents[file]))

(* However the files come in pieces, the commands run in the order of the  *)
(* text, a sourced file in place of the command that sources it, the last  *)
(* line also without a newline; only quit and the error limit cut the rest *)
(* off (readline, push_file, pop_file, cmd_select).                        *)
RunsInOrder ==
  /\ IsPrefix(executed, Inlined(infile_name))
  /\ loop = "done" => \/ executed = Inlined(infile_name)
                      \/ err_cnt >= err_limit
                      \/ Untimed(Last(executed)) = <<"quit">>

(* Between two commands report.c's counts are those of what the program    *)
(* holds: the lists until quit frees them, once, and a buffer for every    *)
(* open file (malloc_or_fail, free_block, do_quit_cmd, finish_cmd).        *)
AccountsBalance ==
  loop # "interpret" =>
    allocate_cnt - free_cnt = Len(buf_stack) + (IF cmd_list = "live" THEN Commands ELSE 0)
=============================================================================
