----------------------------- MODULE MCPrograms -----------------------------
(***************************************************************************)
(* Small instances of the programs that stand alone: the cache simulator,  *)
(* the transpose functions under their grader, the buffered input and      *)
(* output of the proxy, the bit puzzles, and, of the shell's lab, the      *)
(* parser of command lines, the trace runner and the grader. They share no *)
(* state; a behaviour runs one of them, the others rest in an initial      *)
(* state.                                                                  *)
(***************************************************************************)
EXTENDS CsimProperties, Rio, Sdriver, TLC

CONSTANT MAXARGS   \* of the parser

VARIABLES part,   \* which of them runs
          (* trans.c, tracegen-ct.c and test-trans.c *)
          mode, size, list, fn, step, source, target, copied, wrote, strayed, passed, graded,
          (* bits.c *)
          x, y,
          (* parseline *)
          items, gap, text, buf, argv, infile, outfile, parsing_state, result,
          (* runtrace.c, wrapper.c and testprogs *)
          trace, runner, line, status, cleanup_needed, escaped, cmds, prompts, jobsync, runsync,
          shellsync, shellack, shell, fgbg, handler, sync, pending, jobs, reaped

transpose == <<mode, size, list, fn, step, source, target, copied, wrote, strayed, passed, graded>>
bits      == <<x, y>>
parser    == <<items, gap, text, buf, argv, infile, outfile, parsing_state, result>>
runtrace  == <<trace, runner, line, status, cleanup_needed, escaped, cmds, prompts, jobsync, runsync,
               shellsync, shellack, shell, fgbg, handler, sync, pending, jobs, reaped>>
allVars   == <<part, vars, transpose, rioVars, bits, parser, runtrace, sdriverVars>>

-----------------------------------------------------------------------------
(* The simulator's trace: four blocks of one set and one of the other, one *)
(* of them at two offsets.                                                 *)
SmallTrace == {0, 1, 4, 8, 12, 2}

(* Sizes that the special cases are for, and squares, rows and columns.    *)
Transpose == INSTANCE Transpose WITH
  MAXN <- 6, Block <- 2, Length <- 2, Side32 <- 4, Width63 <- 3, Height63 <- 5, Margin <- 2,
  Sizes <- {<<4, 4>>, <<3, 3>>, <<3, 5>>, <<5, 3>>, <<1, 2>>, <<6, 6>>, <<6, 1>>},
  Lists <- {<<"transpose_submit", "trans", "trans_tmp", "trans32", "trans63">>,
            <<"trans", "other", "transpose_submit">>, <<"other">>},
  i <- fn, pc <- step, A <- source, B <- target, p <- copied, results <- graded

(* Words of eight bits, with floats of four exponent and three fraction    *)
(* bits.                                                                   *)
Bits == INSTANCE Bits WITH W <- 8, EXP <- 4, FRAC <- 3, Seconds <- {0, 1, 5, 120, 127, 128, 255}

Parser == INSTANCE Parseline WITH
  Words <- {<<FALSE, <<"x">>>>, <<FALSE, <<"x", "<", "'">>>>, <<TRUE, <<" ", ">", "x">>>>,
            <<TRUE, <<>>>>, <<FALSE, <<"&">>>>, <<FALSE, <<"'", "x">>>>},
  MaxItems <- 3

(* The lab's traces, by their numbers: what runtrace and the jobs do, with *)
(* the call that the wrapped shell announces.                              *)
T(point, script) == [sync |-> point, script |-> script]
Echo == <<"echo", "NEXT">>   \* the driver prints every command it is about to send
trace02 == T("none", <<"spin1", "WAIT", "SIGNAL", "quit">>)
trace06 == T("none", Echo \o <<"spin1 &", "NEXT">> \o Echo \o <<"spin2", "WAIT", "WAIT", "SIGNAL", "SIGNAL", "NEXT", "quit">>)
trace08 == T("waitpid_before",
  Echo \o <<"spin1 &", "NEXT">> \o Echo \o <<"spin1 &", "NEXT", "WAIT", "WAIT">> \o Echo
  \o <<"SIGNAL", "SIGNAL", "SHELLWAIT", "SHELLSIGNAL", "jobs", "NEXT">> \o Echo \o <<"quit">>)
trace09 == T("none", Echo \o <<"intp", "NEXT">> \o Echo \o <<"quit">>)
trace10 == T("none", Echo \o <<"tstpp", "NEXT">> \o Echo \o <<"jobs", "NEXT", "quit">>)
trace12 == T("none", Echo \o <<"ints", "NEXT", "quit">>)
trace13 == T("none", Echo \o <<"tstps", "NEXT", "jobs", "NEXT", "spinandtstps &", "NEXT", "WAIT", "SIGNAL", "quit">>)   \* without the command that polls ps
trace15 == T("none", <<"INT">> \o Echo \o <<"spin1 &", "NEXT", "WAIT">> \o Echo \o <<"intp", "NEXT", "jobs", "NEXT", "SIGNAL", "quit">>)
trace16 == T("none", <<"TSTP">> \o Echo \o <<"spin1 &", "NEXT", "WAIT">> \o Echo \o <<"tstpp", "NEXT", "jobs", "NEXT", "SIGNAL", "quit">>)
trace19 == T("kill", Echo \o <<"spin2", "WAIT", "TSTP", "SHELLWAIT", "SIGNAL", "SHELLSIGNAL", "NEXT">>
   \o Echo \o <<"spin2", "WAIT", "INT", "SHELLWAIT", "SIGNAL", "SHELLSIGNAL", "NEXT", "quit">>)
trace20 == T("waitpid_after", Echo \o <<"spin1", "WAIT", "SIGNAL", "SHELLWAIT", "TSTP", "SHELLSIGNAL", "NEXT">>
   \o Echo \o <<"spin1", "WAIT", "SIGNAL", "SHELLWAIT", "INT", "SHELLSIGNAL", "NEXT", "quit">>)
trace21 == T("none", Echo \o <<"sigfun", "WAIT", "TSTP", "NEXT", "jobs", "NEXT">>
   \o Echo \o <<"sigfun", "WAIT", "INT", "NEXT", "jobs", "NEXT", "quit">>)
trace22 == T("none", Echo \o <<"tstpandspin", "NEXT">> \o Echo \o <<"bg", "NEXT">> \o Echo \o <<"jobs", "NEXT", "WAIT", "SIGNAL", "quit">>)
trace24 == T("none", Echo \o <<"sleepnprint", "NEXT", "jobs", "NEXT", "fg", "NEXT", "quit">>)
trace26 == T("job_set_state", Echo \o <<"spin1 &", "NEXT", "WAIT">> \o Echo \o <<"jobs", "NEXT">> \o Echo
   \o <<"fg", "SHELLWAIT", "SIGNAL", "SHELLSIGNAL", "NEXT", "quit">>)
Traces == {trace02, trace06, trace08, trace09, trace10, trace12, trace13, trace15, trace16, trace19, trace20, trace21, trace22,
             trace24, trace26}
Runtrace == INSTANCE Runtrace

-----------------------------------------------------------------------------
Rests(name) == part # name

ProgramsInit ==
  /\ part \in {"csim", "transpose", "rio", "bits", "parser", "runtrace", "sdriver"}
  /\ IF Rests("csim") THEN s = 0 ELSE TRUE
  /\ IF Rests("transpose") THEN mode = "all" /\ size = <<1, 2>> /\ list = <<"other">> ELSE TRUE
  /\ IF Rests("rio") THEN buffered = TRUE ELSE TRUE
  /\ IF Rests("bits") THEN x = 0 /\ y = 0 ELSE TRUE
  /\ IF Rests("parser") THEN items = <<>> /\ gap = <<>> ELSE TRUE
  /\ IF Rests("runtrace") THEN trace = trace09 ELSE TRUE
  /\ IF Rests("sdriver") THEN singletrace = FALSE /\ num_iters = 1 ELSE TRUE
  /\ Init /\ Transpose!TransposeInit /\ RioInit /\ Bits!BitsInit /\ Parser!ParseInit
  /\ Runtrace!RuntraceInit /\ SdriverInit

CsimStep == part = "csim" /\ Next /\ UNCHANGED <<part, transpose, rioVars, bits, parser, runtrace, sdriverVars>>
TransposeStep ==
  part = "transpose" /\ Transpose!TransposeNext /\ UNCHANGED <<part, vars, rioVars, bits, parser, runtrace, sdriverVars>>
RioStep == part = "rio" /\ RioNext /\ UNCHANGED <<part, vars, transpose, bits, parser, runtrace, sdriverVars>>
ParserStep ==
  part = "parser" /\ Parser!ParseNext /\ UNCHANGED <<part, vars, transpose, rioVars, bits, runtrace, sdriverVars>>
SdriverStep ==
  part = "sdriver" /\ SdriverNext /\ UNCHANGED <<part, vars, transpose, rioVars, bits, parser, runtrace>>
InRuntrace(A) == part = "runtrace" /\ A /\ UNCHANGED <<part, vars, transpose, rioVars, bits, parser, sdriverVars>>
RunnerStep  == InRuntrace(Runtrace!RunnerStep)
ShellStep   == InRuntrace(Runtrace!ShellStep)
JobStep     == InRuntrace(Runtrace!JobStep)
RunnerInterrupted == InRuntrace(Runtrace!Interrupt)
ProgramsNext == \/ CsimStep \/ TransposeStep \/ RioStep \/ ParserStep \/ SdriverStep
                \/ RunnerStep \/ ShellStep \/ JobStep \/ RunnerInterrupted

(* Every process that can run runs in the end, and time passes (Runtrace). *)
ProgramsFairness == WF_allVars(RunnerStep) /\ WF_allVars(ShellStep) /\ WF_allVars(JobStep)
ProgramsSpec == ProgramsInit /\ [][ProgramsNext]_allVars /\ ProgramsFairness

-----------------------------------------------------------------------------
(* The submitted transpose is right for every size, and the grader's       *)
(* report is the submission's own (Transpose).                             *)
TransposeIsGraded == part = "transpose" => Transpose!WorksForEverySize /\ Transpose!ReportIsEarned

(* The puzzles compute what the tests' references do (Bits).               *)
MatchReferences == part = "bits" => Bits!MatchReferences

(* A command line that fits argv is parsed into what was written           *)
(* (Parseline).                                                            *)
ReadsAsWritten == part = "parser" => Parser!ReadsAsWritten

(* What tsh_helper.h:94 promises of a line with up to MAXARGS arguments and *)
(* parseline does not keep: with MAXARGS = 3 it drops files and & in       *)
(* silence.                                                                *)
ReadsEveryLine == part = "parser" => Parser!ReadsEveryLine

(* Whatever order the shell, its jobs and runtrace run in, the lab's       *)
(* traces run to their end, no answer is left over for the next call, and  *)
(* no process outlives runtrace (Runtrace).                                *)
RunStaysInStep ==
  part = "runtrace" => Runtrace!RunsThrough /\ Runtrace!NoStrays /\ Runtrace!OneAnswerPerCall

(* Every run of a trace ends (Runtrace).                                   *)
RunnerEnds == part = "runtrace" => <>(runner = "exited")
=============================================================================
