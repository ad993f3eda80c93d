-------------------------------- MODULE Bits --------------------------------
(* The bit puzzles of bits.c beside the reference functions of tests.c, in  *)
(* words of W bits (a power of two; 64 there), and floats of as many bits   *)
(* with EXP exponent and FRAC fraction bits (8 and 23). A word is a number  *)
(* from 0 to 2^W - 1; signed arithmetic wraps.                              *)
EXTENDS Integers, FiniteSets, FiniteSetsExt, SequencesExt, Bitwise

CONSTANTS W, EXP, FRAC,
          Seconds    \* second arguments
VARIABLES x, y

Size == 2^W
Word == 0..(Size - 1)
Signed(a) == IF a < Size \div 2 THEN a ELSE a - Size
Bit(a, i) == (a \div 2^i) % 2
inv(a)    == Size - 1 - a
add(a, b) == (a + b) % Size
shl(a, n) == (a * 2^n) % Size
sar(a, n) == (Signed(a) \div 2^n) % Size     \* >> of a long keeps the sign
lnot(a)   == IF a = 0 THEN 1 ELSE 0
neg(a)    == add(inv(a), 1)
Top       == 2^(W - 1)

bitMatch(a, b) == inv(a & inv(b)) & inv(inv(a) & b)
copyLSB(a)     == sar(shl(a, W - 1), W - 1)
distinctNegation(a) == lnot(lnot(a ^^ neg(a)))
leastBitPos(a) == a & neg(a)
dividePower2(a, n) ==
  LET sign == sar(a, W - 1)
  IN  (sar(a, n) & inv(sign)) | (sign & sar(add(a, add(shl(1, n), neg(1))), n))
conditional(a, b, c) == LET mask == sar(shl(lnot(lnot(a)), W - 1), W - 1) IN (mask & b) | (inv(mask) & c)
isLessOrEqual(a, b) ==
  LET same       == lnot((Top & a) ^^ (Top & b))
      resultsame == lnot(add(b, neg(a)) & Top)
      resultdiff == lnot(inv(a & Top) & (b & Top))
  IN  (same & resultsame) | (inv(same) & resultdiff)
trueThreeFourths_down(a) ==   \* mutant: rounds down
  add(add(sar(a, 2), sar(a, 1)), lnot((a & 3) ^^ 3))
trueThreeFourths(a) ==
  LET remainder == a & 3
  IN  add(add(sar(a, 2), sar(a, 1)),
          add(lnot(lnot(remainder & sar(a, W - 1))), lnot(remainder ^^ 3)))

(* mask[k] marks every other group of k bits.                               *)
Halves == {2^i : i \in {j \in 0..W : 2^(j + 1) <= W}}
mask[k \in Halves] == IF 2 * k = W THEN 2^k - 1 ELSE mask[2 * k] ^^ shl(mask[2 * k], k)
Up   == SetToSortSeq(Halves, LAMBDA a, b : a < b)
Down == SetToSortSeq(Halves, LAMBDA a, b : a > b)
bitCount(a)     == FoldLeft(LAMBDA count, k : add(count & mask[k], sar(count, k) & mask[k]), a, Up)
isPalindrome(a) == lnot(a ^^ FoldLeft(LAMBDA b, k : shl(b & mask[k], k) | (sar(b, k) & mask[k]), a, Down))
integerLog2(a)  == FoldLeft(LAMBDA result, k : add(result, lnot(lnot(sar(a, k + result))) * k), 0, Down)

-----------------------------------------------------------------------------
ExpMask == 2^EXP - 1
bias    == 2^(EXP - 1) - 1
exp_(u)  == (u \div 2^FRAC) % 2^EXP
frac_(u) == u % 2^FRAC
floatIsEqual(u, v) ==
  IF (exp_(u) = ExpMask /\ frac_(u) # 0) \/ (exp_(v) = ExpMask /\ frac_(v) # 0) THEN 0
  ELSE IF (u & inv(Top)) = 0 /\ (v & inv(Top)) = 0 THEN 1
  ELSE IF u = v THEN 1 ELSE 0

Twice(f) ==
  LET up == IF f.exp = ExpMask THEN ExpMask ELSE f.exp + 1
  IN  IF f.exp # 0 THEN [exp |-> up, frac |-> IF up = ExpMask THEN 0 ELSE f.frac]
                   ELSE [exp |-> Bit(f.frac, FRAC - 1), frac |-> 2 * f.frac]
floatScale4(u) ==
  LET f == Twice(Twice([exp |-> exp_(u), frac |-> frac_(u)]))
  IN  IF exp_(u) = ExpMask \/ (exp_(u) = 0 /\ frac_(u) = 0) THEN u
      ELSE add(u & Top, f.exp * 2^FRAC + frac_(f.frac))

(* A shift by the width of the word leaves nothing, or everything.          *)
shlAll(u, n) == IF n = W THEN {0, u} ELSE {shl(u, n)}
floatUnsigned2Float(u) ==
  LET greatest == Max({i \in 0..(W - 1) : Bit(u, i) = 1})
      temp     == FRAC - greatest
      n        == -temp
      Rounded(c) == LET up == Bit(u, n - 1) = 1 /\ (Bit(u, n) = 1 \/ c # 0)
                    IN  (u \div 2^n) + (IF up THEN 1 ELSE 0)
      Pack(v)  == add(shl(bias + greatest, FRAC), frac_(v))
  IN  IF u = 0 THEN {0}
      ELSE IF temp >= 0 THEN {Pack(shl(u, temp))}
      ELSE {Pack(Rounded(c)) : c \in shlAll(u, W + 1 - n)}

-----------------------------------------------------------------------------
(* tests.c.                                                                 *)
Truth(p) == IF p THEN 1 ELSE 0
Trunc(a, n) == IF a >= 0 THEN a \div n ELSE -((-a) \div n)   \* C's division
AsWord(a) == a % Size
FromBits(Set(_)) == FoldSet(LAMBDA i, sum : sum + (IF Set(i) THEN 2^i ELSE 0), 0, 0..(W - 1))
test_bitMatch(a, b)        == FromBits(LAMBDA i : Bit(a, i) = Bit(b, i))
test_copyLSB(a)            == IF Bit(a, 0) = 1 THEN AsWord(-1) ELSE 0
test_distinctNegation(a)   == Truth(a # AsWord(-a))
test_leastBitPos(a)        == IF a = 0 THEN 0 ELSE 2^Min({i \in 0..(W - 1) : Bit(a, i) = 1})
test_dividePower2(a, n)    == AsWord(Trunc(Signed(a), 2^n))
test_conditional(a, b, c)  == IF a # 0 THEN b ELSE c
test_isLessOrEqual(a, b)   == Truth(Signed(a) <= Signed(b))
test_trueThreeFourths(a)   == AsWord(Trunc(3 * Signed(a), 4))
test_bitCount(a)           == Cardinality({i \in 0..(W - 1) : Bit(a, i) = 1})
test_isPalindrome(a)       == Truth(\A i \in 0..(W - 1) : Bit(a, i) = Bit(a, W - 1 - i))
test_integerLog2(a)        == Max({i \in 0..(W - 1) : Bit(a, i) = 1})

(* The machine's floats: a number, in units of the smallest; infinity is    *)
(* where the next one would be.                                             *)
NaN(u)   == exp_(u) = ExpMask /\ frac_(u) # 0
Floats   == {u \in 0..(Top - 1) : ~NaN(u)}
value(u) == IF exp_(u) = 0 THEN frac_(u) ELSE (2^FRAC + frac_(u)) * 2^(exp_(u) - 1)
Nearest(v) ==
  LET off(u) == IF value(u) < v THEN v - value(u) ELSE value(u) - v
      least  == Min({off(u) : u \in Floats})
      near   == {u \in Floats : off(u) = least}
  IN  IF Cardinality(near) = 1 THEN CHOOSE u \in near : TRUE ELSE CHOOSE u \in near : u % 2 = 0
test_floatIsEqual(u, v) ==
  Truth(~NaN(u) /\ ~NaN(v) /\ (u = v \/ {value(u & inv(Top)), value(v & inv(Top))} = {0}))
test_floatScale4(u) == IF NaN(u) THEN u ELSE (u & Top) + Nearest(4 * value(u & inv(Top)))
test_floatUnsigned2Float(u) == Nearest(u * value(bias * 2^FRAC))

BitsInit == x \in Word /\ y \in Seconds
(* Every puzzle computes what its reference computes, on every word: at     *)
(* both ends of the range, through overflow, rounding and the limits of the *)
(* floats. Not so for an unsigned that rounds up to a power of two, and for *)
(* one a single bit longer than the fraction, where the shift is by 32, and *)
(* only one of its outcomes is right. The negation of the least word        *)
(* overflows.                                                               *)
MatchReferences ==
  /\ bitMatch(x, y) = test_bitMatch(x, y) /\ copyLSB(x) = test_copyLSB(x)
  /\ x # Top => distinctNegation(x) = test_distinctNegation(x) /\ leastBitPos(x) = test_leastBitPos(x)
  /\ y <= W - 2 => dividePower2(x, y) = test_dividePower2(x, y)
  /\ \A c \in Seconds : conditional(x, y, c) = test_conditional(x, y, c)
  /\ isLessOrEqual(x, y) = test_isLessOrEqual(x, y) /\ isLessOrEqual(y, x) = test_isLessOrEqual(y, x)
  /\ trueThreeFourths(x) = test_trueThreeFourths(x)
  /\ bitCount(x) = test_bitCount(x) /\ isPalindrome(x) = test_isPalindrome(x)
  /\ Signed(x) > 0 => integerLog2(x) = test_integerLog2(x)
  /\ floatIsEqual(x, y) = test_floatIsEqual(x, y) /\ floatScale4(x) = test_floatScale4(x)
  /\ LET float == test_floatUnsigned2Float(x) IN
     value(float) <= x * value(bias * 2^FRAC) \/ frac_(float) # 0 =>
       /\ float \in floatUnsigned2Float(x)
       /\ x \div 2^(FRAC + 1) # 1 => floatUnsigned2Float(x) = {float}
=============================================================================
