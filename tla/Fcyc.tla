-------------------------------- MODULE Fcyc --------------------------------
(* fcyc.c: how the driver times an allocator. A call raises reps until one *)
(* timing is long enough, then samples until the kbest smallest agree, or  *)
(* there are maxsamples of them. Times are natural numbers of clock ticks. *)
(* fcyc and fsec differ in the clock they read. The timeout handler of the *)
(* driver may leave a call by siglongjmp: its statics stay as they are.    *)
EXTENDS Integers, Sequences, FiniteSetsExt

CONSTANTS Times,        \* what get_timer may return for one repetition
          Bests,        \* values given to set_fcyc_k
          maxsamples,
          percent,      \* epsilon, in hundredths
          CacheSizes,   \* values given to set_fcyc_cache_size
          min_time, min_reps,
          MaxReps,      \* bound: reps grows no further in the model
          MaxZeros      \* bound: samples of zero, which are not kept
ASSUME FcycAssumption ==
  /\ Times \subseteq Nat /\ Bests \subseteq Nat \ {0} /\ CacheSizes \subseteq Nat \ {0}
  /\ maxsamples \in Nat \ {0} /\ percent \in Nat /\ min_time \in Nat /\ min_reps \in Nat \ {0}

VARIABLES
  timing,       \* where the call is: "no", "reps", "samples"
  reps, kbest,
  values,       \* the array; <<>> is a null pointer
  samplecount,
  best,         \* what the last call returned, 0 when none did
  taken,        \* ghost: the samples added in this call, in order
  clear_cache, cache_bytes,
  cache_buf,    \* bytes of the buffer that is read to clear the cache, 0: none
  zeros
fcycVars == <<timing, reps, kbest, values, samplecount, best, taken,
              clear_cache, cache_bytes, cache_buf, zeros>>

-----------------------------------------------------------------------------
(* Insertion sort of the last sample placed at pos.                        *)
Inserted(vs, pos) ==
  LET at == CHOOSE p \in 1..pos :
              /\ \A j \in 1..(p - 1) : vs[j] <= vs[pos]
              /\ \A j \in p..(pos - 1) : vs[j] > vs[pos]
  IN  [k \in DOMAIN vs |-> IF k = at THEN vs[pos]
                           ELSE IF k > at /\ k <= pos THEN vs[k - 1] ELSE vs[k]]

(* add_sample, on an array of kbest entries: its new content.              *)
add_sample(vs, count, val) ==
  IF count < Len(vs) THEN Inserted([vs EXCEPT ![count + 1] = val], count + 1)
  ELSE IF val < vs[Len(vs)] THEN Inserted([vs EXCEPT ![Len(vs)] = val], Len(vs))
  ELSE vs

has_converged(vs, count) ==
  count >= kbest /\ (100 + percent) * vs[1] >= 100 * vs[kbest]

(* The buffer as clear() leaves it: allocated on first use.                *)
Cleared == IF clear_cache /\ cache_buf = 0 THEN cache_bytes ELSE cache_buf

-----------------------------------------------------------------------------
Measure ==
  /\ timing = "no"
  /\ timing' = "reps" /\ reps' = min_reps
  /\ UNCHANGED <<kbest, values, samplecount, best, taken, clear_cache, cache_bytes, cache_buf, zeros>>

(* init_sampler.                                                           *)
init_sampler_keeps ==   \* mutant: the count of an abandoned call is kept
  /\ values' = [k \in 1..kbest |-> 0]
  /\ UNCHANGED samplecount
init_sampler ==
  /\ values' = [k \in 1..kbest |-> 0]
  /\ samplecount' = 0

(* Run reps times and double reps, until the timing reaches min_time.      *)
Calibrate ==
  /\ timing = "reps" /\ cache_buf' = Cleared
  /\ \E t \in Times :
       IF t * reps < min_time
       THEN /\ reps + reps <= MaxReps /\ reps' = reps + reps
            /\ UNCHANGED <<timing, values, samplecount, taken>>
       ELSE /\ timing' = "samples" /\ init_sampler /\ taken' = <<>>
            /\ UNCHANGED reps
  /\ UNCHANGED <<kbest, best, clear_cache, cache_bytes, zeros>>

Kept(val) ==
  LET vs == add_sample(values, samplecount, val) IN
  /\ samplecount' = samplecount + 1 /\ taken' = Append(taken, val)
  /\ IF ~has_converged(vs, samplecount') /\ samplecount' < maxsamples
     THEN values' = vs /\ UNCHANGED <<timing, best>>
     ELSE values' = <<>> /\ timing' = "no" /\ best' = vs[1]
  /\ UNCHANGED zeros

(* A sample that is not positive is not kept, and counts for nothing.      *)
Dropped ==
  /\ zeros < MaxZeros /\ zeros' = zeros + 1
  /\ UNCHANGED <<timing, values, samplecount, best, taken>>

Sample ==
  /\ timing = "samples" /\ cache_buf' = Cleared
  /\ \E val \in Times : IF val > 0 THEN Kept(val) ELSE Dropped
  /\ UNCHANGED <<reps, kbest, clear_cache, cache_bytes>>

(* The driver's timeout_handler runs during a repetition.                  *)
Abandon ==
  /\ timing # "no" /\ timing' = "no" /\ best' = 0
  /\ UNCHANGED <<reps, kbest, values, samplecount, taken, clear_cache, cache_bytes, cache_buf, zeros>>

-----------------------------------------------------------------------------
(* Parameters are set between calls.                                       *)
set_fcyc_k ==
  /\ timing = "no" /\ kbest' \in Bests
  /\ UNCHANGED <<timing, reps, values, samplecount, best, taken, clear_cache, cache_bytes, cache_buf, zeros>>
set_fcyc_clear_cache ==
  /\ timing = "no" /\ clear_cache' = ~clear_cache
  /\ UNCHANGED <<timing, reps, kbest, values, samplecount, best, taken, cache_bytes, cache_buf, zeros>>
set_fcyc_cache_size ==
  /\ timing = "no" /\ cache_bytes' \in CacheSizes
  /\ cache_buf' = IF cache_bytes' # cache_bytes THEN 0 ELSE cache_buf
  /\ UNCHANGED <<timing, reps, kbest, values, samplecount, best, taken, clear_cache, zeros>>

FcycInit ==
  /\ timing = "no" /\ reps = min_reps /\ kbest \in Bests /\ values = <<>>
  /\ samplecount = 0 /\ best = 0 /\ taken = <<>> /\ zeros = 0
  /\ clear_cache = FALSE /\ cache_bytes \in CacheSizes /\ cache_buf = 0
FcycNext == Measure \/ Calibrate \/ Sample \/ Abandon
            \/ set_fcyc_k \/ set_fcyc_clear_cache \/ set_fcyc_cache_size
FcycSpec == FcycInit /\ [][FcycNext]_fcycVars

-----------------------------------------------------------------------------
(* The array holds the kbest smallest samples of this call, smallest       *)
(* first, and a call that ends returns the smallest of its own samples,    *)
(* whatever an earlier call left behind in the statics (add_sample,        *)
(* init_sampler, fsec).                                                    *)
BestOfK ==
  /\ timing = "samples" =>
       /\ samplecount = Len(taken)
       /\ LET n == IF Len(taken) < kbest THEN Len(taken) ELSE kbest IN
          /\ \A j \in 1..n, k \in 1..n : j < k => values[j] <= values[k]
          /\ \A t \in Times \ {0} :
               LET InSamples == Quantify(DOMAIN taken, LAMBDA s : taken[s] = t)
                   InValues  == Quantify(1..n, LAMBDA s : values[s] = t)
               IN  IF n > 0 /\ t < values[n] THEN InValues = InSamples ELSE InValues <= InSamples
  /\ (timing = "no" /\ best # 0) =>
       \E s \in DOMAIN taken : taken[s] = best /\ \A u \in DOMAIN taken : taken[u] >= best

(* Clearing the cache reads cache_bytes bytes of a buffer of that size     *)
(* (clear, set_fcyc_cache_size).                                           *)
ClearStaysInBuffer == cache_buf \in {0, cache_bytes}
=============================================================================
