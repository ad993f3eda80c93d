------------------------------ MODULE Sdriver ------------------------------
(* sdriver.c scores a shell: it runs every trace num_iters times on the    *)
(* shell and on tshref, and compares what runtrace printed for the two.    *)
EXTENDS Integers, FiniteSets, TLAPS, FiniteSetTheorems

CONSTANTS NumGraded, Iters   \* NUM_GRADED_TRACEFILE; the values of -i
ASSUME SdriverAssumption == NumGraded \in Nat \ {0} /\ Iters \subseteq Nat \ {0}

VARIABLES
  drive,        \* "run", "score", "done", and how it may end early: "failed", "killed"
  singletrace,  \* -t: one trace, every iteration counts for itself
  num_iters, i, j,
  correct,      \* trace -> result of its last comparison
  num_correct,
  tmpfiles,     \* do the output files exist?
  results       \* history: trace -> the set of results of its iterations
sdriverVars == <<drive, singletrace, num_iters, i, j, correct, num_correct, tmpfiles, results>>
TraceNums == 0..NumGraded - 1

SdriverInit ==
  /\ drive = "run" /\ singletrace \in BOOLEAN /\ num_iters \in Iters
  /\ i \in (IF singletrace THEN TraceNums ELSE {0}) /\ j = 0
  /\ correct = [t \in TraceNums |-> FALSE] /\ num_correct = 0
  /\ tmpfiles = FALSE /\ results = [t \in TraceNums |-> {}]

(* runtrace compares the outputs: TRUE if they are identical. The shell    *)
(* may fail under runtrace, its output is compared all the same.           *)
Compare_last(same) ==   \* mutant: a failed iteration does not end its trace
  /\ drive = "run" /\ tmpfiles' = TRUE
  /\ results' = [results EXCEPT ![i] = @ \cup {same}]
  /\ correct' = [correct EXCEPT ![i] = same]
  /\ IF j + 1 < num_iters
     THEN j' = j + 1 /\ UNCHANGED <<drive, i, num_correct>>
     ELSE /\ num_correct' = num_correct + (IF singletrace THEN (IF same THEN 1 ELSE 0) ELSE IF same THEN num_iters ELSE 0)
          /\ j' = 0 /\ i' = i + 1
          /\ drive' = IF singletrace \/ i' = NumGraded THEN "score" ELSE "run"
  /\ UNCHANGED <<singletrace, num_iters>>
Compare(same) ==
  /\ drive = "run" /\ tmpfiles' = TRUE
  /\ results' = [results EXCEPT ![i] = @ \cup {same}]
  /\ LET last == j + 1 = num_iters \/ (~singletrace /\ ~same) IN
     /\ correct' = IF singletrace THEN correct ELSE [correct EXCEPT ![i] = same]
     /\ num_correct' = num_correct + (CASE ~same -> 0
                                        [] same /\ singletrace -> 1
                                        [] same /\ ~singletrace /\ last -> num_iters
                                        [] OTHER -> 0)
     /\ IF ~last THEN j' = j + 1 /\ UNCHANGED <<drive, i>>
        ELSE /\ j' = 0 /\ i' = i + 1
             /\ drive' = IF singletrace \/ i' = NumGraded THEN "score" ELSE "run"
  /\ UNCHANGED <<singletrace, num_iters>>

(* The reference shell, perl or diff fails: no score.                      *)
Fail ==
  /\ drive = "run" /\ drive' = "failed" /\ tmpfiles' = FALSE
  /\ UNCHANGED <<singletrace, num_iters, i, j, correct, num_correct, results>>
(* A file cannot be opened, or SIGINT ends runtrace and, raised, sdriver:  *)
(* the output files stay.                                                  *)
Interrupted ==
  /\ drive = "run" /\ drive' = "killed" /\ tmpfiles' \in {tmpfiles, TRUE}
  /\ UNCHANGED <<singletrace, num_iters, i, j, correct, num_correct, results>>

PrintScore ==
  /\ drive = "score" /\ drive' = "done" /\ tmpfiles' = FALSE
  /\ UNCHANGED <<singletrace, num_iters, i, j, correct, num_correct, results>>

SdriverNext == (\E same \in BOOLEAN : Compare(same)) \/ Fail \/ Interrupted \/ PrintScore
SdriverSpec == SdriverInit /\ [][SdriverNext]_sdriverVars

-----------------------------------------------------------------------------
(* The score counts a trace, and autoresult reports it with "y", only if   *)
(* every one of its iterations matched the reference; a trace that matched *)
(* sometimes counts for nothing (main's loop over traces and iterations).  *)
ScoreIsWhole ==
  drive \in {"score", "done"} /\ ~singletrace =>
    /\ \A t \in TraceNums : correct[t] <=> results[t] = {TRUE}
    /\ num_correct = num_iters * Cardinality({t \in TraceNums : results[t] = {TRUE}})

-----------------------------------------------------------------------------
(* What holds at every iteration, in between: the traces before i have     *)
(* their final result, the trace i has had j successes, the others none.   *)
Passed == {t \in TraceNums : t < i /\ results[t] = {TRUE}}
Agrees(t) == correct[t] <=> results[t] = {TRUE}
MainInv ==
  /\ i \in 0..NumGraded /\ j \in 0..(num_iters - 1)
  /\ drive = "run" => i \in TraceNums /\ results[i] = IF j = 0 THEN {} ELSE {TRUE}
  /\ drive \in {"score", "done"} => i = NumGraded
  /\ correct \in [TraceNums -> BOOLEAN] /\ results \in [TraceNums -> SUBSET BOOLEAN]
  /\ \A t \in TraceNums : t < i => Agrees(t)
  /\ \A t \in TraceNums : t > i => results[t] = {}
  /\ num_correct = num_iters * Cardinality(Passed)
SInv ==
  /\ drive \in {"run", "score", "done", "failed", "killed"} /\ num_iters \in Iters
  /\ ~singletrace => MainInv

(* However many traces there are and however often each is run, the score  *)
(* counts those whose every iteration matched (sdriver.c, main).           *)
THEOREM ScoreStaysWhole == SdriverSpec => []ScoreIsWhole
<1> USE SdriverAssumption
<1>1. SdriverInit => SInv
  <2> SUFFICES ASSUME SdriverInit PROVE SInv
    OBVIOUS
  <2>1. CASE ~singletrace
    <3>1. /\ drive = "run" /\ i = 0 /\ j = 0 /\ num_iters \in Iters /\ num_correct = 0
          /\ correct = [t \in TraceNums |-> FALSE] /\ results = [t \in TraceNums |-> {}]
      BY <2>1 DEF SdriverInit
    <3>2. Passed = {} /\ Cardinality({}) = 0
      BY <3>1, FS_EmptySet DEF Passed, TraceNums
    <3>3. num_correct = num_iters * Cardinality(Passed)
      BY <3>1, <3>2
    <3>4. 0 \in TraceNums /\ 0 \in 0..NumGraded /\ 0 \in 0..(num_iters - 1)
      BY <3>1 DEF TraceNums
    <3>5. \A t \in TraceNums : ~(t < i)
      BY <3>1 DEF TraceNums
    <3> QED BY <3>1, <3>3, <3>4, <3>5 DEF SInv, MainInv
  <2>2. CASE singletrace
    BY <2>2 DEF SdriverInit, SInv
  <2> QED BY <2>1, <2>2
<1>2. SInv /\ [SdriverNext]_sdriverVars => SInv'
  <2> SUFFICES ASSUME SInv, [SdriverNext]_sdriverVars PROVE SInv'
    OBVIOUS
  <2>1. ASSUME NEW same \in BOOLEAN, Compare(same), ~singletrace PROVE SInv'
    <3> DEFINE last == j + 1 = num_iters \/ ~same
    <3>1. /\ drive = "run" /\ results' = [results EXCEPT ![i] = @ \cup {same}]
          /\ correct' = [correct EXCEPT ![i] = same]
          /\ UNCHANGED <<singletrace, num_iters>>
          /\ num_correct' = num_correct + IF same /\ last THEN num_iters ELSE 0
          /\ last => j' = 0 /\ i' = i + 1 /\ drive' = IF i' = NumGraded THEN "score" ELSE "run"
          /\ ~last => j' = j + 1 /\ UNCHANGED <<drive, i>>
      BY <2>1 DEF Compare
    <3>2. /\ i \in TraceNums /\ results[i] = IF j = 0 THEN {} ELSE {TRUE}
          /\ num_iters \in Iters /\ j \in 0..(num_iters - 1)
          /\ correct \in [TraceNums -> BOOLEAN] /\ results \in [TraceNums -> SUBSET BOOLEAN]
          /\ \A t \in TraceNums : t < i => Agrees(t)
          /\ \A t \in TraceNums : t > i => results[t] = {}
          /\ num_correct = num_iters * Cardinality(Passed)
      BY <2>1, <3>1 DEF SInv, MainInv
    <3>3. /\ results'[i] = results[i] \cup {same} /\ correct'[i] = same
          /\ \A t \in TraceNums \ {i} : results'[t] = results[t] /\ correct'[t] = correct[t]
          /\ correct' \in [TraceNums -> BOOLEAN] /\ results' \in [TraceNums -> SUBSET BOOLEAN]
      BY <3>1, <3>2
    <3>4. (results'[i] = {TRUE} <=> same) /\ (\A t \in TraceNums : t = i => Agrees(t)')
      <4>1. results[i] \in {{}, {TRUE}}
        BY <3>2
      <4>2. CASE same
        <5>1. same = TRUE
          BY <4>2
        <5>2. results'[i] = {TRUE}
          BY <3>3, <4>1, <5>1
        <5>3. correct'[i] = TRUE
          BY <3>3, <5>1
        <5>4. \A t \in TraceNums : t = i => Agrees(t)'
          BY <5>2, <5>3, Zenon DEF Agrees
        <5> QED BY <4>2, <5>2, <5>4
      <4>3. CASE ~same
        <5>1. FALSE \in results'[i] /\ FALSE \notin {TRUE}
          BY <3>3, <4>3
        <5>2. results'[i] # {TRUE}
          BY <5>1
        <5>3. \A t \in TraceNums : t = i => Agrees(t)'
          BY <3>3, <4>3, <5>2, Zenon DEF Agrees
        <5> QED BY <4>3, <5>2, <5>3
      <4> QED BY <4>2, <4>3
    <3>5. \A t \in TraceNums \ {i} : Agrees(t)' <=> Agrees(t)
      BY <3>3 DEF Agrees
    <3>6. IsFiniteSet(Passed) /\ Cardinality(Passed) \in Nat
      <4>1. IsFiniteSet(TraceNums) /\ Passed \subseteq TraceNums
        <5>1. 0 \in Int /\ NumGraded - 1 \in Int
          OBVIOUS
        <5>2. IsFiniteSet(0..(NumGraded - 1))
          BY ONLY <5>1, FS_Interval
        <5> QED BY <5>2 DEF TraceNums, Passed
      <4> QED BY <4>1, FS_Subset, FS_CardinalityType
    <3>7. \A t \in TraceNums : t < i => t # i
      BY <3>2 DEF TraceNums
    <3>8. CASE ~last
      <4>1. Passed' = Passed
        <5>1. Passed' = {t \in TraceNums : t < i' /\ results'[t] = {TRUE}}
          BY DEF Passed, TraceNums
        <5>2. \A t \in TraceNums : t < i' /\ results'[t] = {TRUE} <=> t < i /\ results[t] = {TRUE}
          <6>1. i' = i
            BY <3>1, <3>8
          <6>2. \A t \in TraceNums : t < i => t \in TraceNums \ {i}
            BY <3>7
          <6> QED BY ONLY <3>3, <6>1, <6>2
        <5> QED BY <5>1, <5>2 DEF Passed
      <4>2. same /\ i' = i /\ drive' = drive /\ j' = j + 1
        BY <3>1, <3>8
      <4>3. i' \in 0..NumGraded /\ j' \in 0..(num_iters' - 1) /\ j' # 0
        BY <3>1, <3>2, <3>8, <4>2 DEF TraceNums
      <4>4. results'[i'] = {TRUE} /\ i' \in TraceNums
        BY <3>2, <3>4, <4>2
      <4>5. /\ \A t \in TraceNums : t < i' => Agrees(t)'
            /\ \A t \in TraceNums : t > i' => results'[t] = {}
        <5>1. \A t \in TraceNums : t > i => t # i
          BY <3>2 DEF TraceNums
        <5> QED BY <3>2, <3>3, <3>5, <3>7, <4>2, <5>1
      <4>6. num_correct' = num_iters' * Cardinality(Passed')
        BY <3>1, <3>2, <3>6, <3>8, <4>1
      <4>7. MainInv'
        BY <3>1, <3>3, <4>2, <4>3, <4>4, <4>5, <4>6 DEF MainInv, TraceNums
      <4> QED BY <3>1, <3>2, <4>2, <4>7 DEF SInv
    <3>9. CASE last
      <4>1. j' = 0 /\ i' = i + 1 /\ drive' = IF i' = NumGraded THEN "score" ELSE "run"
        BY <3>1, <3>9
      <4>2. \A t \in TraceNums : (t < i' <=> t < i \/ t = i) /\ (t > i' => t > i /\ t # i)
        BY <3>2, <4>1 DEF TraceNums
      <4>3. /\ i' \in 0..NumGraded /\ j' \in 0..(num_iters' - 1)
            /\ i' # NumGraded => i' \in TraceNums /\ i' > i /\ i' # i
        BY <3>1, <3>2, <4>1 DEF TraceNums
      <4>4. /\ \A t \in TraceNums : t < i' => Agrees(t)'
            /\ \A t \in TraceNums : t > i' => results'[t] = {}
        <5>1. \A t \in TraceNums : t < i' => t = i \/ (t \in TraceNums \ {i} /\ t < i)
          BY <3>7, <4>2
        <5>2. \A t \in TraceNums : t > i' => t \in TraceNums \ {i} /\ t > i
          BY <4>2
        <5>3. \A t \in TraceNums : t < i' => Agrees(t)'
          BY <3>2, <3>4, <3>5, <5>1, Zenon
        <5>4. \A t \in TraceNums : t > i' => results'[t] = {}
          BY <3>2, <3>3, <5>2
        <5> QED BY <5>3, <5>4
      <4>5. i' # NumGraded => i' \in TraceNums /\ results'[i'] = {}
        BY <3>2, <3>3, <4>3
      <4>6. num_correct' = num_iters' * Cardinality(Passed')
        <5>1. Passed' = {t \in TraceNums : t < i' /\ results'[t] = {TRUE}}
          BY DEF Passed, TraceNums
        <5>2. i \notin Passed
          BY <3>7 DEF Passed
        <5>3. CASE same
          <6>1. Passed' = Passed \cup {i}
            BY <3>2, <3>3, <3>4, <3>7, <4>2, <5>1, <5>3 DEF Passed
          <6>2. Cardinality(Passed') = Cardinality(Passed) + 1
            BY <3>6, <5>2, <6>1, FS_AddElement
          <6>3. num_iters * (Cardinality(Passed) + 1) = num_iters * Cardinality(Passed) + num_iters
            BY <3>2, <3>6
          <6> QED BY <3>1, <3>2, <3>9, <5>3, <6>2, <6>3
        <5>4. CASE ~same
          <6>1. Passed' = Passed
            BY <3>2, <3>3, <3>4, <3>7, <4>2, <5>1, <5>4 DEF Passed
          <6> QED BY <3>1, <3>2, <3>6, <5>4, <6>1
        <5> QED BY <5>3, <5>4
      <4>7. MainInv'
        BY <3>3, <4>1, <4>3, <4>4, <4>5, <4>6 DEF MainInv, TraceNums
      <4> QED BY <3>1, <3>2, <4>1, <4>7 DEF SInv
    <3> QED BY <3>8, <3>9
  <2>2. ASSUME NEW same \in BOOLEAN, Compare(same), singletrace PROVE SInv'
    BY <2>2 DEF Compare, SInv
  <2>3. CASE Fail \/ Interrupted \/ PrintScore \/ UNCHANGED sdriverVars
    <3>1. /\ UNCHANGED <<singletrace, num_iters, i, j, correct, num_correct, results>>
          /\ \/ drive' \in {"failed", "killed"}
             \/ drive = "score" /\ drive' = "done"
             \/ drive' = drive
      BY <2>3 DEF Fail, Interrupted, PrintScore, sdriverVars
    <3>2. Passed' = Passed /\ \A t : Agrees(t)' <=> Agrees(t)
      BY <3>1 DEF Passed, Agrees
    <3>3. MainInv => MainInv'
      BY <3>1, <3>2 DEF MainInv
    <3> QED BY <3>1, <3>3 DEF SInv
  <2> QED BY <2>1, <2>2, <2>3 DEF SdriverNext
<1>3. SInv => ScoreIsWhole
  <2> SUFFICES ASSUME SInv, drive \in {"score", "done"}, ~singletrace PROVE ScoreIsWhole
    BY DEF ScoreIsWhole
  <2>1. /\ i = NumGraded /\ num_correct = num_iters * Cardinality(Passed)
        /\ \A t \in TraceNums : t < i => Agrees(t)
    BY DEF SInv, MainInv
  <2>2. \A t \in TraceNums : t < i
    BY <2>1 DEF TraceNums
  <2>3. Passed = {t \in TraceNums : results[t] = {TRUE}}
    BY <2>2 DEF Passed
  <2>4. \A t \in TraceNums : Agrees(t)
    BY <2>1, <2>2
  <2> QED BY <2>1, <2>3, <2>4 DEF ScoreIsWhole, Agrees
<1> QED BY <1>1, <1>2, <1>3, PTL DEF SdriverSpec
=============================================================================
