----------------------------- MODULE FlatMemory -----------------------------
(***************************************************************************)
(* What the emulated memory promises: an array of bytes below the break.   *)
(* A byte that was not written since the break was reset may read as       *)
(* anything, or end the program if such reads are checked.                 *)
(***************************************************************************)
EXTENDS Integers, Sequences

CONSTANTS Bytes, Unset, Limit

VARIABLES byte,     \* the bytes below the limit; Unset where never written
          brk, ub,  \* the break, and whether reads are checked
          call,     \* the call that was made last
          result,   \* what it read
          ended     \* why the program ended, or "no"

flatVars == <<byte, brk, ub, call, result, ended>>

Span(addr, len) == addr..(addr + len - 1)
Put(f, addr, val) == [a \in DOMAIN f |-> IF a \in Span(addr, Len(val))
                                         THEN val[a - addr + 1] ELSE f[a]]
AllSet(f, addr, len) == \A a \in Span(addr, len) : f[a] # Unset
ReadsAs(f, addr, data) ==
  \A k \in DOMAIN data : f[addr + k - 1] \in {data[k], Unset}

FlatInit == /\ byte = [a \in 0..(Limit - 1) |-> Unset] /\ brk = 0 /\ ub = TRUE
            /\ call = <<"none">> /\ result = <<>> /\ ended = "no"

Goes(c) == ended = "no" /\ call' = c /\ brk' = brk /\ ub' = ub

(* A call that runs out of pages ends the program, its memory with it; so  *)
(* does a checked read of a byte that is not set.                          *)
Ends(addr, len, why) ==
  /\ ended' = why /\ UNCHANGED result
  /\ why = "no pages" \/ (why = "uninitialized" /\ ub /\ ~AllSet(byte, addr, len))

Write(addr, val) ==
  /\ Goes(<<"write", addr, val>>)
  /\ \/ byte' = Put(byte, addr, val) /\ UNCHANGED <<result, ended>>
     \/ Ends(addr, Len(val), "no pages")

Read(addr, len) ==
  /\ Goes(<<"read", addr, len>>)
  /\ \/ /\ len = Len(result') /\ ReadsAs(byte, addr, result')
        /\ ub => AllSet(byte, addr, len)
        /\ UNCHANGED <<byte, ended>>
     \/ \E why \in {"no pages", "uninitialized"} : Ends(addr, len, why)

(* The ranges of a copy do not overlap.  Unset bytes copy as anything.     *)
Copy(dst, src, len) ==
  /\ Goes(<<"copy", dst, src, len>>)
  /\ \/ /\ \A a \in DOMAIN byte :
             IF a \in Span(dst, len)
             THEN byte[src + a - dst] \in {byte'[a], Unset} /\ byte'[a] # Unset
             ELSE byte'[a] = byte[a]
        /\ ub => AllSet(byte, src, len)
        /\ UNCHANGED <<result, ended>>
     \/ \E why \in {"no pages", "uninitialized"} : Ends(src, len, why)

Fill(dst, c, len) ==
  /\ Goes(<<"set", dst, c, len>>)
  /\ \/ byte' = Put(byte, dst, [k \in 1..len |-> c]) /\ UNCHANGED <<result, ended>>
     \/ Ends(dst, len, "no pages")

Grow(incr) == /\ ended = "no" /\ brk' = brk + incr /\ brk' <= Limit
              /\ UNCHANGED <<byte, ub, call, result, ended>>
Reset == /\ ended = "no" /\ brk' = 0 /\ byte' = [a \in 0..(Limit - 1) |-> Unset]
         /\ ub' \in {ub, TRUE} /\ UNCHANGED <<call, result, ended>>
Check(on) == ended = "no" /\ ub' = on /\ UNCHANGED <<byte, brk, call, result, ended>>

(* The call that was made says which of the operations a step must be.     *)
FlatNext ==
  \/ call'[1] = "write" /\ Write(call'[2], call'[3])
  \/ call'[1] = "read"  /\ Read(call'[2], call'[3])
  \/ call'[1] = "copy"  /\ Copy(call'[2], call'[3], call'[4])
  \/ call'[1] = "set"   /\ Fill(call'[2], call'[3], call'[4])
  \/ UNCHANGED call /\ (Grow(brk' - brk) \/ Reset \/ Check(ub'))

FlatSpec == FlatInit /\ [][FlatNext]_flatVars
=============================================================================
