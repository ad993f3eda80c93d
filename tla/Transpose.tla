------------------------------ MODULE Transpose ------------------------------
(***************************************************************************)
(* Part B of the cache lab: the transpose functions of trans.c, the program *)
(* tracegen that runs one of them and validates what it left in memory      *)
(* (tracegen-ct.c), and the program test-trans that grades the submission   *)
(* from tracegen's verdict and the simulator's counts (test-trans.c).       *)
(* Matrices are the flat arrays they are in memory: A[k][l] is cell         *)
(* k * M + l and B[l][k] is cell l * N + k, so that an index beyond its row *)
(* falls where it does in C.                                               *)
(***************************************************************************)
EXTENDS Integers, Sequences, FiniteSets

CONSTANTS MAXN,               \* largest M and N
          Block, Length,      \* the sides of the blocks of trans32 and trans63
          Side32,             \* the size trans32 is for (32)
          Width63, Height63,  \* the size trans63 is for (63 and 65)
          Margin,             \* rows validate looks at after the last one (10)
          Sizes,              \* the <<M, N>> asked for
          Lists               \* sequences of registered functions

VARIABLES mode,     \* "all": tracegen alone; "test": test-trans; "submission": test-trans -s
          size, list,
          i,        \* the function being run
          pc,
          A, B,     \* bigA and bigB
          p,        \* the next copy of the function's loops
          wrote,    \* cells of B the running function has written
          strayed,  \* the running function has done something wrong
          passed,   \* functions whose validation succeeded
          results   \* test-trans: the submission's results

vars == <<mode, size, list, i, pc, A, B, p, wrote, strayed, passed, results>>

M == size[1]
N == size[2]

Least(a, b) == IF a < b THEN a ELSE b
CeilDiv(a, b) == (a + b - 1) \div b

Cells == 0..(MAXN * MAXN - 1)

(* for (i = 0; i < N; i++) for (j = 0; j < M; j++): the <<k, l>> copied. *)
trans == [q \in 1..(N * M) |-> <<(q - 1) \div M, (q - 1) % M>>]

(* The same pairs; each value goes through a cell of tmp of its own. *)
trans_tmp == trans

(* rows times cols blocks of the given side, one after the other. *)
Blocks(rows, cols, side) ==
    [q \in 1..(rows * cols * side * side) |->
        LET block == (q - 1) \div (side * side)
            inner == (q - 1) % (side * side)
        IN  <<(block \div cols) * side + (inner \div side),
              (block % cols) * side + (inner % side)>>]

trans32 == Blocks(CeilDiv(N, Block), CeilDiv(M, Block), Block)

trans63 ==
    LET range == CeilDiv(Height63, Length)
    IN  SelectSeq(Blocks(range, range, Length), LAMBDA c : c[1] < N /\ c[2] < M)

transpose_submit ==
    IF M = N /\ M = Side32 THEN trans32
    ELSE IF M = Width63 /\ N = Height63 THEN trans63
    ELSE IF M = N THEN trans
    ELSE trans_tmp

(* What registerFunctions() registers; "other" is one more function its     *)
(* author may add, a simple scan that goes wrong once.                      *)
Order == CASE list[i] = "transpose_submit" -> transpose_submit
           [] list[i] = "trans" -> trans
           [] list[i] = "trans_tmp" -> trans_tmp
           [] list[i] = "trans32" -> trans32
           [] list[i] = "trans63" -> trans63
           [] list[i] = "other" -> trans

(* memset, initMatrix: A and B are filled with random values, taken to be   *)
(* all different; what is after the M * N cells is zero.                    *)
InitialA == [c \in Cells |-> IF c < M * N THEN c + 1 ELSE 0]
InitialB == [c \in Cells |-> IF c < M * N THEN -(c + 1) ELSE 0]

(* correctTrans on the same A. *)
Btarg == [c \in Cells |-> IF c < M * N THEN InitialA[(c % N) * M + (c \div N)]
                                       ELSE 0]

TargetReached == \A r \in 0..(M - 1), c \in 0..(N - 1) : B[r * N + c] = Btarg[r * N + c]

(* "Look for changes to A": with the indices of B, as the code has it. *)
SourceIntact == \A r \in 0..(M - 1), c \in 0..(N - 1) : A[r * M + c] = InitialA[r * M + c]

MarginClear == \A r \in M..(Least(M + Margin, MAXN) - 1), c \in 0..(N - 1) :
                   B[r * N + c] = 0

validate_first == B[0] = Btarg[0] /\ SourceIntact /\ MarginClear

validate == TargetReached /\ SourceIntact /\ MarginClear

TransposeInit ==
    /\ mode \in {"all", "test", "submission"}
    /\ size \in Sizes /\ list \in Lists
    /\ i = 0 /\ pc = "next"
    /\ A = InitialA /\ B = InitialB
    /\ p = 1 /\ wrote = {} /\ strayed = FALSE /\ passed = {}
    /\ results = [funcid |-> 0, correct |-> FALSE, measured |-> 0]

(* The next function of the list is called. test-trans runs a tracegen of   *)
(* its own for each, with fresh memory; tracegen alone calls them all on    *)
(* the same A and B.                                                        *)
NextFunction ==
    /\ pc = "next" /\ i < Len(list)
    /\ i' = i + 1
    /\ LET submission == list[i + 1] = "transpose_submit"
           skipped == mode = "submission" /\ ~submission
       IN  /\ results' = IF submission /\ mode # "all"
                         THEN [results EXCEPT !.funcid = i + 1] ELSE results
           /\ pc' = IF skipped THEN "next" ELSE "run"
    /\ p' = 1 /\ wrote' = {} /\ strayed' = FALSE
    /\ A' = IF mode = "all" THEN A ELSE InitialA
    /\ B' = IF mode = "all" THEN B ELSE InitialB
    /\ UNCHANGED <<mode, size, list, passed>>

Here == Order[p]

Store(cell, value) == B' = [B EXCEPT ![cell] = value] /\ wrote' = wrote \union {cell}

(* One copy of the running function: B[l][k] = A[k][l]. *)
Copy ==
    /\ pc = "run" /\ p <= Len(Order)
    /\ Store(Here[2] * N + Here[1], A[Here[1] * M + Here[2]])
    /\ p' = p + 1
    /\ UNCHANGED <<mode, size, list, i, pc, A, strayed, passed, results>>

(* The mistake of "other": a copy left out, a cell of A or B overwritten,   *)
(* or the process killed by a bad address. test-trans looks only at         *)
(* WEXITSTATUS: that is 0 if system()'s shell became tracegen and was       *)
(* killed itself, and not if it waited for tracegen.                        *)
Stray ==
    /\ pc = "run" /\ list[i] = "other" /\ ~strayed
    /\ strayed' = TRUE
    /\ \/ /\ p <= Len(Order) /\ p' = p + 1
          /\ UNCHANGED <<A, B, wrote, pc>>
       \/ /\ p > Len(Order)
          /\ \E c \in Cells : A' = [A EXCEPT ![c] = MAXN * MAXN + 1]
          /\ UNCHANGED <<B, wrote, p, pc>>
       \/ /\ p > Len(Order)
          /\ \E c \in Cells : Store(c, MAXN * MAXN + 1)
          /\ UNCHANGED <<A, p, pc>>
       \/ /\ pc' \in IF mode = "all" THEN {"killed"} ELSE {"next", "simulate"}
          /\ UNCHANGED <<A, B, wrote, p>>
    /\ UNCHANGED <<mode, size, list, i, passed, results>>

(* The function returns and tracegen validates; its exit status says what   *)
(* it found, and it stops at the first function that fails.                 *)
AfterAll(ok) == IF ok THEN "next" ELSE "failed"

AfterOne(ok) == IF ok THEN "simulate" ELSE "next"

Judge ==
    /\ pc = "run" /\ p > Len(Order)
    /\ passed' = IF validate THEN passed \union {i} ELSE passed
    /\ pc' = IF mode = "all" THEN AfterAll(validate) ELSE AfterOne(validate)
    /\ results' = IF validate /\ mode # "all" /\ results.funcid = i
                  THEN [results EXCEPT !.correct = TRUE] ELSE results
    /\ UNCHANGED <<mode, size, list, i, A, B, p, wrote, strayed>>

(* csim-ref replays the trace: it fails, or leaves counts that can or       *)
(* cannot be read.                                                          *)
Simulate ==
    /\ pc = "simulate"
    /\ \/ results' = [results EXCEPT !.correct = FALSE]
       \/ results' = IF results.funcid = i THEN [results EXCEPT !.measured = i]
                                           ELSE results
       \/ UNCHANGED results
    /\ pc' = "next"
    /\ UNCHANGED <<mode, size, list, i, A, B, p, wrote, strayed, passed>>

(* All functions are done; test-trans prints TEST_TRANS_RESULTS. *)
Summary ==
    /\ pc = "next" /\ i = Len(list)
    /\ pc' = "done"
    /\ UNCHANGED <<mode, size, list, i, A, B, p, wrote, strayed, passed, results>>

(* test-trans's alarm of 360 seconds: 0:0 whatever was measured. *)
Alarm ==
    /\ mode # "all" /\ pc \notin {"done", "timeout"}
    /\ pc' = "timeout"
    /\ UNCHANGED <<mode, size, list, i, A, B, p, wrote, strayed, passed, results>>

TransposeNext == NextFunction \/ Copy \/ Stray \/ Judge \/ Simulate \/ Summary \/ Alarm

-----------------------------------------------------------------------------
(* "your code must be correct for all values of M and N" (trans.c:55): when *)
(* the submission or one of the two scans returns, B is the transpose,      *)
(* nothing after it was written and A is as it was, whatever the size,      *)
(* unless a faulty function ran on the same memory before.                  *)
WorksForEverySize ==
    /\ pc = "run" /\ p > Len(Order)
    /\ list[i] \in {"transpose_submit", "trans", "trans_tmp"}
    /\ mode = "all" => \A j \in 1..(i - 1) : list[j] # "other"
    => wrote = 0..(M * N - 1) /\ TargetReached /\ MarginClear /\ A = InitialA

(* What test-trans prints is the submission's own: it is called correct     *)
(* only if the run of transpose_submit was validated, and the cycles are    *)
(* those of that run; a function that tracegen -F called valid, and that    *)
(* was not killed, wrote every cell of the transpose itself, and a function *)
(* of a square matrix left A alone.                                         *)
ReportIsEarned ==
    /\ results.correct => results.funcid \in passed
    /\ results.measured # 0 => list[results.measured] = "transpose_submit"
    /\ (mode # "all" /\ pc = "simulate" /\ i \in passed) =>
           /\ 0..(M * N - 1) \subseteq wrote
           /\ M = N => \A c \in 0..(M * N - 1) : A[c] = c + 1
=============================================================================
