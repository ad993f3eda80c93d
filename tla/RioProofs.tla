----------------------------- MODULE RioProofs -----------------------------
(***************************************************************************)
(* The robust I/O functions, for every buffer size, every size of the      *)
(* kernel's buffer, every count asked for and any newlines: no byte is     *)
(* lost, doubled or moved, and a call that returns gives what it promises. *)
(***************************************************************************)
EXTENDS Rio, TLAPS, SequenceTheorems

RioSpec == RioInit /\ [][RioNext]_rioVars

Filled == IF rio_cnt > 0 THEN rio_cnt ELSE 0

RioType ==
  /\ pipe \in Seq(Nat) /\ given \in Seq(Nat)
  /\ closed \in BOOLEAN /\ buffered \in BOOLEAN
  /\ w_bufp \in Nat \ {0} /\ w_left \in Nat
  /\ rio_buf \in [0..RIO_BUFSIZE - 1 -> Nat]
  /\ rio_cnt \in Int /\ rio_bufptr \in Nat
  /\ call \in [kind : {"none", "readn", "readnb", "readlineb"}, n : Nat, data : Seq(Nat),
               result : {"none", "running", "ok", "error"}]

(* The bytes sent so far are those that calls took, those between          *)
(* rio_bufptr and the end of what was last read into the buffer, and those *)
(* in the kernel.                                                          *)
Positions ==
  /\ rio_bufptr + Filled <= RIO_BUFSIZE
  /\ \A k \in 1..Len(given) : given[k] = k
  /\ \A k \in 1..Filled : rio_buf[rio_bufptr + k - 1] = Len(given) + k
  /\ \A k \in 1..Len(pipe) : pipe[k] = Len(given) + Filled + k
  /\ Len(given) + Filled + Len(pipe) = w_bufp - 1

(* A call never takes more than it was asked for, nor goes on after a      *)
(* newline; one that returned was through, or at the end of the stream.    *)
(* rio_readn has no buffer.                                                *)
Promise ==
  /\ ~buffered => rio_cnt = 0
  /\ closed => w_left = 0
  /\ call.kind = "none" => call.result = "none"
  /\ call.kind # "none" => call.n > 0
  /\ call.kind = "readlineb" => /\ Len(call.data) <= call.n - 1
                                /\ \A k \in 1..(Len(call.data) - 1) : call.data[k] \notin Newlines
  /\ call.kind \in {"readn", "readnb"} => Len(call.data) <= call.n
  /\ call.result = "ok" => Wants = 0 \/ EndsLine \/ AtEOF

RioInv == RioType /\ Positions /\ Promise

-----------------------------------------------------------------------------
LEMMA ModBelow ==
  ASSUME NEW B \in Nat \ {0}, NEW x \in 0..B - 1
  PROVE  x % B = x
OBVIOUS

(* What a call asks for, while it asks.                                    *)
LEMMA WantsBound ==
  ASSUME RioType, Promise, Wanting
  PROVE  /\ Wants \in Nat \ {0}
         /\ call.kind = "readlineb" => Wants = 1 /\ Len(call.data) + 1 < call.n
         /\ call.kind \in {"readn", "readnb"} => Wants = call.n - Len(call.data)
         /\ call.kind # "none"
<1>1. Len(call.data) \in Nat /\ call.n \in Nat
  BY DEF RioType
<1>2. call.kind \in {"readn", "readnb", "readlineb"}
  BY DEF RioType, Promise, Wanting, Running
<1>3. CASE call.kind = "readlineb"
  BY <1>1, <1>3 DEF Wanting, Wants
<1>4. CASE call.kind \in {"readn", "readnb"}
  BY <1>1, <1>4 DEF Wanting, Wants
<1> QED BY <1>2, <1>3, <1>4

LEMMA InitPositions == RioInit => RioInv
<1> SUFFICES ASSUME RioInit PROVE RioInv
  OBVIOUS
<1>1. RioType
  <2>1. call \in [kind : {"none", "readn", "readnb", "readlineb"}, n : Nat, data : Seq(Nat),
                  result : {"none", "running", "ok", "error"}]
    BY DEF RioInit
  <2>2. closed \in BOOLEAN /\ buffered \in BOOLEAN
    BY ONLY RioInit, Zenon DEF RioInit
  <2> QED BY RioAssumption, <2>1, <2>2 DEF RioInit, RioType
<1>2. Filled = 0 /\ Len(given) = 0 /\ Len(pipe) = 0
  BY DEF RioInit, Filled
<1>3. Positions
  BY RioAssumption, <1>2 DEF RioInit, Positions
<1>4. Promise
  BY DEF RioInit, Promise
<1> QED BY <1>1, <1>3, <1>4 DEF RioInv

-----------------------------------------------------------------------------
(* Types. *)

(* Two sequences of bytes, one after the other.                            *)
LEMMA Joined ==
  ASSUME NEW s \in Seq(Nat), NEW t \in Seq(Nat)
  PROVE  /\ s \o t \in Seq(Nat) /\ Len(s \o t) = Len(s) + Len(t)
         /\ \A k \in 1..Len(s) + Len(t) : (s \o t)[k] = IF k <= Len(s) THEN s[k] ELSE t[k - Len(s)]
BY ConcatProperties

(* What Deliver does to given and to what the call has.                    *)
LEMMA Delivered ==
  ASSUME RioType, NEW bytes \in Seq(Nat), Deliver(bytes)
  PROVE  /\ given' \in Seq(Nat) /\ Len(given') = Len(given) + Len(bytes)
         /\ \A k \in 1..Len(given) + Len(bytes) :
              given'[k] = IF k <= Len(given) THEN given[k] ELSE bytes[k - Len(given)]
         /\ call' \in [kind : {"none", "readn", "readnb", "readlineb"}, n : Nat, data : Seq(Nat),
                       result : {"none", "running", "ok", "error"}]
         /\ call'.kind = call.kind /\ call'.n = call.n /\ call'.result = call.result
         /\ call'.data \in Seq(Nat) /\ Len(call'.data) = Len(call.data) + Len(bytes)
         /\ \A k \in 1..Len(call.data) + Len(bytes) :
              call'.data[k] = IF k <= Len(call.data) THEN call.data[k] ELSE bytes[k - Len(call.data)]
<1>1. given \in Seq(Nat) /\ call.data \in Seq(Nat) /\ given' = given \o bytes
  BY DEF RioType, Deliver
<1>2. PICK d : d = call.data \o bytes
  OBVIOUS
<1>3. call' = [call EXCEPT !.data = d]
  BY <1>2 DEF Deliver
<1>4. /\ d \in Seq(Nat) /\ Len(d) = Len(call.data) + Len(bytes)
      /\ \A k \in 1..Len(call.data) + Len(bytes) :
           d[k] = IF k <= Len(call.data) THEN call.data[k] ELSE bytes[k - Len(call.data)]
  BY <1>1, <1>2, ConcatProperties
<1>5. /\ call' \in [kind : {"none", "readn", "readnb", "readlineb"}, n : Nat, data : Seq(Nat),
                    result : {"none", "running", "ok", "error"}]
      /\ call'.kind = call.kind /\ call'.n = call.n /\ call'.result = call.result
      /\ call'.data = d
  BY <1>3, <1>4 DEF RioType
<1>6. /\ given' \in Seq(Nat) /\ Len(given') = Len(given) + Len(bytes)
      /\ \A k \in 1..Len(given) + Len(bytes) :
           given'[k] = IF k <= Len(given) THEN given[k] ELSE bytes[k - Len(given)]
  BY <1>1, ConcatProperties
<1> QED BY <1>4, <1>5, <1>6

(* What is left of the kernel's bytes when k have been taken.              *)
LEMMA Taken ==
  ASSUME NEW s \in Seq(Nat), NEW k \in 0..Len(s)
  PROVE  /\ SubSeq(s, 1, k) \in Seq(Nat) /\ Len(SubSeq(s, 1, k)) = k
         /\ \A j \in 1..k : SubSeq(s, 1, k)[j] = s[j]
         /\ SubSeq(s, k + 1, Len(s)) \in Seq(Nat) /\ Len(SubSeq(s, k + 1, Len(s))) = Len(s) - k
         /\ \A j \in 1..Len(s) - k : SubSeq(s, k + 1, Len(s))[j] = s[k + j]
<1>1. Len(s) \in Nat /\ \A j \in 1..Len(s) : s[j] \in Nat
  OBVIOUS
<1>2. /\ SubSeq(s, 1, k) \in Seq(Nat) /\ Len(SubSeq(s, 1, k)) = IF 1 <= k THEN k - 1 + 1 ELSE 0
      /\ \A j \in 1..k - 1 + 1 : SubSeq(s, 1, k)[j] = s[1 + j - 1]
  BY <1>1, SubSeqProperties
<1>3. /\ SubSeq(s, k + 1, Len(s)) \in Seq(Nat)
      /\ Len(SubSeq(s, k + 1, Len(s))) = IF k + 1 <= Len(s) THEN Len(s) - (k + 1) + 1 ELSE 0
      /\ \A j \in 1..Len(s) - (k + 1) + 1 : SubSeq(s, k + 1, Len(s))[j] = s[k + 1 + j - 1]
  BY <1>1, SubSeqProperties
<1>4. \A j \in 1..k : SubSeq(s, 1, k)[j] = s[j]
  <2> SUFFICES ASSUME NEW j \in 1..k PROVE SubSeq(s, 1, k)[j] = s[j]
    OBVIOUS
  <2>1. j \in 1..k - 1 + 1 /\ 1 + j - 1 = j
    BY <1>1
  <2> QED BY <1>2, <2>1
<1>5. \A j \in 1..Len(s) - k : SubSeq(s, k + 1, Len(s))[j] = s[k + j]
  <2> SUFFICES ASSUME NEW j \in 1..Len(s) - k PROVE SubSeq(s, k + 1, Len(s))[j] = s[k + j]
    OBVIOUS
  <2>1. j \in 1..Len(s) - (k + 1) + 1 /\ k + 1 + j - 1 = k + j
    BY <1>1
  <2> QED BY <1>3, <2>1
<1> QED BY <1>1, <1>2, <1>3, <1>4, <1>5

-----------------------------------------------------------------------------
(* The steps. *)

LEMMA StartWriteStep ==
  ASSUME RioInv, NEW n \in Counts, StartWrite(n)
  PROVE  RioInv'
<1>1. RioType' /\ Positions'
  BY RioAssumption DEF RioInv, RioType, Positions, Filled, StartWrite
<1>2. Promise'
  BY DEF RioInv, Promise, StartWrite, Wants, EndsLine, AtEOF
<1> QED BY <1>1, <1>2 DEF RioInv

LEMMA WriteStep ==
  ASSUME RioInv, write
  PROVE  RioInv'
<1>1. PICK k \in AtMost(w_left, Capacity - Len(pipe)) :
        pipe' = pipe \o Bytes(w_bufp, k) /\ w_left' = w_left - k /\ w_bufp' = w_bufp + k
  BY DEF write
<1>2. UNCHANGED <<closed, buffered, rio_buf, rio_cnt, rio_bufptr, call, given>>
  BY DEF write
<1>3. k \in Nat /\ k > 0 /\ k <= w_left /\ w_left \in Nat /\ w_bufp \in Nat /\ pipe \in Seq(Nat)
  <2>1. w_left \in Nat /\ w_bufp \in Nat /\ pipe \in Seq(Nat) /\ Capacity - Len(pipe) \in Int
    BY RioAssumption DEF RioInv, RioType
  <2> QED BY <2>1 DEF AtMost
<1>4. PICK b : b = Bytes(w_bufp, k)
  OBVIOUS
<1>5. b \in Seq(Nat) /\ Len(b) = k /\ \A j \in 1..k : b[j] = w_bufp + j - 1
  BY <1>3, <1>4 DEF Bytes
<1>6. /\ pipe' \in Seq(Nat) /\ Len(pipe') = Len(pipe) + k
      /\ \A j \in 1..Len(pipe) + k : pipe'[j] = IF j <= Len(pipe) THEN pipe[j] ELSE b[j - Len(pipe)]
  <2>1. pipe' = pipe \o b
    BY <1>1, <1>4
  <2>2. /\ pipe \o b \in Seq(Nat) /\ Len(pipe \o b) = Len(pipe) + Len(b)
        /\ \A j \in 1..Len(pipe) + Len(b) :
             (pipe \o b)[j] = IF j <= Len(pipe) THEN pipe[j] ELSE b[j - Len(pipe)]
    BY ONLY <1>3, <1>5, Joined
  <2> QED BY ONLY <1>5, <2>1, <2>2
<1>7. Len(pipe) \in Nat /\ Len(given) \in Nat /\ Filled \in Nat /\ Filled' = Filled
  BY <1>2 DEF RioInv, RioType, Filled
<1>8. ~closed /\ ~closed'
  BY <1>2, <1>3 DEF RioInv, Promise
<1>9. RioType'
  <2>1. pipe' \in Seq(Nat) /\ w_left' \in Nat /\ w_bufp' \in Nat \ {0}
    <3>1. w_bufp \in Nat \ {0}
      BY DEF RioInv, RioType
    <3> QED BY ONLY <1>1, <1>3, <1>6, <3>1
  <2> QED BY <1>2, <2>1 DEF RioInv, RioType
<1>10. Positions'
  <2>1. Len(given) + Filled + Len(pipe) = w_bufp - 1
    BY DEF RioInv, Positions
  <2>a. PICK m : m = Len(pipe)
    OBVIOUS
  <2>b. PICK g : g = Len(given)
    OBVIOUS
  <2>c. PICK f : f = Filled
    OBVIOUS
  <2>d. PICK w : w = w_bufp
    OBVIOUS
  <2>e. m \in Nat /\ g \in Nat /\ f \in Nat /\ w \in Nat /\ g + f + m = w - 1
    BY ONLY <1>3, <1>7, <2>1, <2>a, <2>b, <2>c, <2>d
  <2>f. Len(pipe') = m + k /\ w_bufp' = w + k
    BY ONLY <1>1, <1>6, <2>a, <2>d
  <2>2. ASSUME NEW j \in 1..Len(pipe') PROVE pipe'[j] = Len(given) + Filled + j
    <3>1. CASE j <= Len(pipe)
      BY <1>6, <1>7, <3>1 DEF RioInv, Positions
    <3>2. CASE j > Len(pipe)
      <4>1. j - Len(pipe) \in 1..k
        BY <1>3, <1>6, <1>7, <3>2
      <4>2. b[j - Len(pipe)] = w_bufp + (j - Len(pipe)) - 1
        BY ONLY <1>5, <4>1
      <4>3. pipe'[j] = b[j - Len(pipe)]
        <5>1. j \in 1..Len(pipe) + k /\ ~(j <= Len(pipe))
          BY ONLY <1>3, <1>6, <1>7, <2>2, <3>2
        <5> QED BY ONLY <1>6, <5>1
      <4>4. j \in Int /\ g + f + j = w + (j - m) - 1
        <5>1. j \in 1..m + k
          BY ONLY <2>2, <2>f
        <5> QED BY ONLY <1>3, <2>e, <5>1
      <4>5. Len(given) + Filled + j = w_bufp + (j - Len(pipe)) - 1
        BY ONLY <4>4, <2>a, <2>b, <2>c, <2>d
      <4> QED BY ONLY <4>2, <4>3, <4>5
    <3> QED BY ONLY <1>3, <1>6, <1>7, <2>2, <3>1, <3>2
  <2>3. Len(given) + Filled + Len(pipe') = w_bufp' - 1
    <3>1. g + f + (m + k) = w + k - 1
      BY ONLY <1>3, <2>e
    <3> QED BY ONLY <1>3, <1>7, <2>b, <2>c, <2>e, <2>f, <3>1, SMTT(30)
  <2> QED BY <1>2, <1>7, <2>2, <2>3 DEF RioInv, Positions
<1>11. Promise'
  <2>1. AtEOF = FALSE
    BY <1>8 DEF AtEOF
  <2> QED BY <1>2, <1>8, <2>1 DEF RioInv, Promise, Wants, EndsLine
<1> QED BY <1>9, <1>10, <1>11 DEF RioInv

LEMMA CloseStep ==
  ASSUME RioInv, Close
  PROVE  RioInv'
<1>1. RioType' /\ Positions'
  <2>1. closed' \in BOOLEAN
    BY ONLY Close, Zenon DEF Close
  <2> QED BY <2>1 DEF RioInv, RioType, Positions, Filled, Close
<1>2. Promise'
  BY DEF RioInv, Promise, Close, Wants, EndsLine, AtEOF
<1> QED BY <1>1, <1>2 DEF RioInv

LEMMA StartReadStep ==
  ASSUME RioInv, NEW kind \in {"readn", "readnb", "readlineb"}, NEW n \in Counts, StartRead(kind, n)
  PROVE  RioInv'
<1>1. call' = [kind |-> kind, n |-> n, data |-> <<>>, result |-> "running"] /\ n \in Nat /\ n > 0
  BY RioAssumption DEF StartRead
<1>2. RioType'
  <2>1. call' \in [kind : {"none", "readn", "readnb", "readlineb"}, n : Nat, data : Seq(Nat),
                   result : {"none", "running", "ok", "error"}]
    BY <1>1
  <2> QED BY <2>1 DEF RioInv, RioType, StartRead
<1>3. Positions'
  BY DEF RioInv, Positions, Filled, StartRead
<1>4. Promise'
  <2>1. call'.kind = kind /\ call'.n = n /\ Len(call'.data) = 0 /\ call'.result = "running"
    BY <1>1
  <2> QED BY <1>1, <2>1 DEF RioInv, Promise, StartRead
<1> QED BY <1>2, <1>3, <1>4 DEF RioInv

LEMMA RefillStep ==
  ASSUME RioInv, Refill
  PROVE  RioInv'
<1>1. PICK k \in AtMost(Len(pipe), RIO_BUFSIZE) :
        /\ rio_buf' = [i \in DOMAIN rio_buf |-> IF i < k THEN pipe[i + 1] ELSE rio_buf[i]]
        /\ rio_cnt' = k /\ rio_bufptr' = 0 /\ pipe' = SubSeq(pipe, k + 1, Len(pipe))
  BY DEF Refill
<1>2. UNCHANGED <<closed, w_bufp, w_left, buffered, call, given>> /\ rio_cnt <= 0 /\ Wanting /\ buffered /\ buffered'
  BY DEF Refill
<1>3. /\ pipe \in Seq(Nat) /\ Len(pipe) \in Nat /\ Len(given) \in Nat
      /\ k \in 1..Len(pipe) /\ k <= RIO_BUFSIZE /\ RIO_BUFSIZE \in Nat \ {0}
  <2>1. pipe \in Seq(Nat) /\ Len(pipe) \in Nat /\ RIO_BUFSIZE \in Nat \ {0} /\ Len(given) \in Nat
    BY RioAssumption DEF RioInv, RioType
  <2> QED BY <2>1 DEF AtMost
<1>4. /\ pipe' \in Seq(Nat) /\ Len(pipe') = Len(pipe) - k
      /\ \A j \in 1..Len(pipe) - k : pipe'[j] = pipe[k + j]
  <2>1. pipe' = SubSeq(pipe, k + 1, Len(pipe)) /\ k \in 0..Len(pipe)
    BY <1>1, <1>3
  <2> QED BY ONLY <1>3, <2>1, Taken
<1>5. /\ rio_buf' \in [0..RIO_BUFSIZE - 1 -> Nat]
      /\ \A j \in 0..k - 1 : rio_buf'[j] = pipe[j + 1]
  <2>1. DOMAIN rio_buf = 0..RIO_BUFSIZE - 1 /\ \A j \in 0..RIO_BUFSIZE - 1 : rio_buf[j] \in Nat
    BY DEF RioInv, RioType
  <2>2. \A j \in 0..k - 1 : pipe[j + 1] \in Nat
    BY <1>3
  <2>3. rio_buf' = [i \in 0..RIO_BUFSIZE - 1 |-> IF i < k THEN pipe[i + 1] ELSE rio_buf[i]]
    BY ONLY <1>1, <2>1
  <2>4. ASSUME NEW i \in 0..RIO_BUFSIZE - 1
        PROVE  (IF i < k THEN pipe[i + 1] ELSE rio_buf[i]) \in Nat
    <3>1. CASE i < k
      BY ONLY <1>3, <2>2, <2>4, <3>1
    <3>2. CASE ~(i < k)
      BY ONLY <2>1, <2>4, <3>2
    <3> QED BY ONLY <3>1, <3>2
  <2>5. ASSUME NEW j \in 0..k - 1 PROVE rio_buf'[j] = pipe[j + 1]
    <3>1. j \in 0..RIO_BUFSIZE - 1 /\ j < k
      BY ONLY <1>3, <2>5
    <3> QED BY ONLY <2>3, <3>1
  <2> QED BY ONLY <2>3, <2>4, <2>5
<1>6. Filled = 0 /\ Filled' = k
  <2>1. rio_cnt \in Int
    BY DEF RioInv, RioType
  <2>2. k \in Int /\ k > 0
    BY ONLY <1>3
  <2> QED BY ONLY <1>1, <1>2, <2>1, <2>2 DEF Filled
<1>7. RioType'
  <2>1. rio_cnt' \in Int /\ rio_bufptr' \in Nat
    BY ONLY <1>1, <1>3
  <2> QED BY <1>2, <1>4, <1>5, <2>1 DEF RioInv, RioType
<1>8. Positions'
  <2>1. \A j \in 1..Len(pipe) : pipe[j] = Len(given) + j
    BY <1>3, <1>6 DEF RioInv, Positions
  <2>2. ASSUME NEW j \in 1..k PROVE rio_buf'[rio_bufptr' + j - 1] = Len(given) + j
    <3>1. rio_bufptr' + j - 1 = j - 1 /\ j - 1 \in 0..k - 1 /\ j \in 1..Len(pipe) /\ (j - 1) + 1 = j
      BY <1>1, <1>3
    <3> QED BY <1>5, <2>1, <3>1
  <2>3. ASSUME NEW j \in 1..Len(pipe') PROVE pipe'[j] = Len(given) + k + j
    <3>1. k + j \in 1..Len(pipe) /\ j \in 1..Len(pipe) - k /\ Len(given) + (k + j) = Len(given) + k + j
      BY ONLY <1>3, <1>4, <2>3
    <3> QED BY ONLY <1>4, <2>1, <3>1
  <2>4. Len(given) + k + Len(pipe') = w_bufp - 1
    BY <1>3, <1>4, <1>6 DEF RioInv, Positions
  <2>5. rio_bufptr' + Filled' <= RIO_BUFSIZE /\ Filled' = k
    BY <1>1, <1>3, <1>6
  <2>6. given' = given /\ w_bufp' = w_bufp /\ \A j \in 1..Len(given) : given[j] = j
    BY <1>2 DEF RioInv, Positions
  <2> QED BY ONLY <2>2, <2>3, <2>4, <2>5, <2>6 DEF Positions
<1>9. Promise'
  BY <1>2 DEF RioInv, Promise, Wanting, Running
<1> QED BY <1>7, <1>8, <1>9 DEF RioInv

LEMMA RefillInterruptedStep ==
  ASSUME RioInv, RefillInterrupted
  PROVE  RioInv'
<1>1. RioType' /\ Positions'
  BY DEF RioInv, RioType, Positions, Filled, RefillInterrupted
<1>2. Promise'
  BY DEF RioInv, Promise, RefillInterrupted, Wanting, Running
<1> QED BY <1>1, <1>2 DEF RioInv

(* A line that goes on has had no newline yet.                             *)
LEMMA OneMore ==
  ASSUME RioType, Promise, Wanting, call.kind = "readlineb", NEW data, Len(data) = Len(call.data) + 1,
         \A k \in 1..Len(call.data) : data[k] = call.data[k]
  PROVE  /\ Len(data) <= call.n - 1
         /\ \A k \in 1..(Len(data) - 1) : data[k] \notin Newlines
<1>1. Len(call.data) \in Nat /\ call.n \in Nat
  BY DEF RioType
<1>2. Len(call.data) + 1 < call.n
  BY WantsBound
<1>3. Len(data) - 1 = Len(call.data)
  BY ONLY <1>1, Len(data) = Len(call.data) + 1
<1>4. ASSUME NEW k \in 1..Len(call.data) PROVE data[k] \notin Newlines
  <2>1. CASE k = Len(call.data)
    <3>1. ~EndsLine /\ call.data # <<>>
      BY <1>1, <1>4, <2>1 DEF Wanting
    <3> QED BY <1>4, <2>1, <3>1 DEF EndsLine
  <2>2. CASE k # Len(call.data)
    <3>1. k \in 1..(Len(call.data) - 1)
      BY ONLY <1>1, <1>4, <2>2
    <3> QED BY <1>4, <3>1 DEF Promise
  <2> QED BY <2>1, <2>2
<1> QED BY ONLY <1>1, <1>2, <1>3, <1>4, Len(data) = Len(call.data) + 1

LEMMA CopyStep ==
  ASSUME RioInv, Copy
  PROVE  RioInv'
<1>1. PICK cnt : cnt = IF rio_cnt < Wants THEN rio_cnt ELSE Wants
  OBVIOUS
<1>2. PICK b : b = [k \in 1..cnt |-> rio_buf[(rio_bufptr + k - 1) % RIO_BUFSIZE]]
  OBVIOUS
<1>3. /\ Wanting /\ rio_cnt > 0 /\ Deliver(b)
      /\ rio_bufptr' = rio_bufptr + cnt /\ rio_cnt' = rio_cnt - cnt
      /\ UNCHANGED <<pipe, closed, w_bufp, w_left, buffered, rio_buf>>
  BY <1>1, <1>2 DEF Copy
<1>4. /\ Wants \in Nat \ {0}
      /\ call.kind = "readlineb" => Wants = 1 /\ Len(call.data) + 1 < call.n
      /\ call.kind \in {"readn", "readnb"} => Wants = call.n - Len(call.data)
      /\ call.kind # "none"
  BY <1>3, WantsBound DEF RioInv
<1>5. /\ rio_cnt \in Nat /\ rio_bufptr \in Nat /\ RIO_BUFSIZE \in Nat \ {0}
      /\ Filled = rio_cnt /\ rio_bufptr + rio_cnt <= RIO_BUFSIZE
  BY RioAssumption, <1>3 DEF RioInv, RioType, Filled, Positions
<1>6. cnt \in 1..rio_cnt /\ cnt <= Wants
  BY ONLY <1>1, <1>3, <1>4, <1>5
<1>7. Filled' = rio_cnt - cnt
  BY <1>3, <1>5, <1>6 DEF Filled
<1>8. \A k \in 1..rio_cnt : rio_buf[rio_bufptr + k - 1] = Len(given) + k
  BY <1>5 DEF RioInv, Positions
<1>9. Len(given) \in Nat /\ given \in Seq(Nat)
  BY DEF RioInv, RioType
<1>10. b \in Seq(Nat) /\ Len(b) = cnt /\ \A k \in 1..cnt : b[k] = Len(given) + k
  <2>1. ASSUME NEW k \in 1..cnt PROVE rio_buf[(rio_bufptr + k - 1) % RIO_BUFSIZE] = Len(given) + k
    <3>1. rio_bufptr + k - 1 \in 0..RIO_BUFSIZE - 1 /\ k \in 1..rio_cnt
      BY ONLY <1>5, <1>6, <2>1
    <3>2. (rio_bufptr + k - 1) % RIO_BUFSIZE = rio_bufptr + k - 1
      BY ONLY <1>5, <3>1, ModBelow
    <3> QED BY <1>8, <3>1, <3>2
  <2>2. ASSUME NEW k \in 1..cnt PROVE Len(given) + k \in Nat
    BY ONLY <1>6, <1>9, <2>2
  <2>3. b = [k \in 1..cnt |-> Len(given) + k]
    BY ONLY <1>2, <2>1
  <2> QED BY ONLY <1>5, <1>6, <2>2, <2>3
<1>11. /\ given' \in Seq(Nat) /\ Len(given') = Len(given) + cnt
       /\ \A k \in 1..Len(given) + cnt :
            given'[k] = IF k <= Len(given) THEN given[k] ELSE b[k - Len(given)]
       /\ call' \in [kind : {"none", "readn", "readnb", "readlineb"}, n : Nat, data : Seq(Nat),
                     result : {"none", "running", "ok", "error"}]
       /\ call'.kind = call.kind /\ call'.n = call.n /\ call'.result = call.result
       /\ call'.data \in Seq(Nat) /\ Len(call'.data) = Len(call.data) + cnt
       /\ \A k \in 1..Len(call.data) + cnt :
            call'.data[k] = IF k <= Len(call.data) THEN call.data[k] ELSE b[k - Len(call.data)]
  <2>1. RioType /\ b \in Seq(Nat) /\ Deliver(b) /\ Len(b) = cnt
    BY <1>3, <1>10 DEF RioInv
  <2> HIDE DEF RioType, Deliver
  <2> QED BY ONLY <2>1, Delivered
<1>12. RioType'
  <2>1. rio_cnt' \in Int /\ rio_bufptr' \in Nat
    BY ONLY <1>3, <1>5, <1>6
  <2> QED BY <1>3, <1>11, <2>1 DEF RioInv, RioType
<1>13. Positions'
  <2>1. ASSUME NEW k \in 1..Len(given) + cnt PROVE given'[k] = k
    <3>1. CASE k <= Len(given)
      <4>1. k \in 1..Len(given) /\ given'[k] = given[k]
        BY <1>6, <1>9, <1>11, <2>1, <3>1
      <4> QED BY <4>1 DEF RioInv, Positions
    <3>2. CASE k > Len(given)
      <4>1. k - Len(given) \in 1..cnt /\ Len(given) + (k - Len(given)) = k /\ ~(k <= Len(given))
        BY ONLY <1>6, <1>9, <2>1, <3>2
      <4> QED BY <1>10, <1>11, <2>1, <4>1
    <3> QED BY ONLY <1>6, <1>9, <2>1, <3>1, <3>2
  <2>2. ASSUME NEW k \in 1..(rio_cnt - cnt) PROVE rio_buf[rio_bufptr + cnt + k - 1] = Len(given) + cnt + k
    <3>1. /\ cnt + k \in 1..rio_cnt /\ rio_bufptr + (cnt + k) - 1 = rio_bufptr + cnt + k - 1
          /\ Len(given) + (cnt + k) = Len(given) + cnt + k
      BY ONLY <1>5, <1>6, <1>9, <2>2
    <3> QED BY <1>8, <3>1
  <2>3. Len(given) + rio_cnt = Len(given) + cnt + (rio_cnt - cnt) /\ Len(given) + cnt + (rio_cnt - cnt) \in Nat
    BY ONLY <1>5, <1>6, <1>9
  <2>4. \A k \in 1..Len(pipe) : pipe[k] = Len(given) + cnt + (rio_cnt - cnt) + k
    BY <1>5, <2>3 DEF RioInv, Positions
  <2>5. Len(given) + cnt + (rio_cnt - cnt) + Len(pipe) = w_bufp - 1
    BY <1>5, <2>3 DEF RioInv, Positions
  <2>6. rio_bufptr + cnt + (rio_cnt - cnt) <= RIO_BUFSIZE
    BY ONLY <1>5, <1>6
  <2> QED BY ONLY <1>3, <1>7, <1>11, <2>1, <2>2, <2>4, <2>5, <2>6 DEF Positions
<1>14. Promise'
  <2>1. call.result = "running" /\ ~EndsLine
    BY <1>3 DEF Wanting, Running
  <2>2. Len(call.data) \in Nat /\ call.n \in Nat
    BY DEF RioInv, RioType
  <2>3. ASSUME call.kind = "readlineb"
        PROVE  /\ Len(call'.data) <= call'.n - 1
               /\ \A k \in 1..(Len(call'.data) - 1) : call'.data[k] \notin Newlines
    <3>1. cnt = 1 /\ Len(call'.data) = Len(call.data) + 1
      BY <1>4, <1>6, <1>11, <2>3
    <3>2. \A k \in 1..Len(call.data) : call'.data[k] = call.data[k]
      <4>1. \A k \in 1..Len(call.data) : k \in 1..Len(call.data) + cnt /\ k <= Len(call.data)
        BY ONLY <2>2, <3>1
      <4> QED BY <1>11, <4>1
    <3> QED BY <1>3, <1>11, <2>3, <3>1, <3>2, OneMore DEF RioInv
  <2>4. ASSUME call.kind \in {"readn", "readnb"} PROVE Len(call'.data) <= call'.n
    <3>1. Len(call'.data) = Len(call.data) + cnt /\ call'.n = call.n
      BY <1>11
    <3>2. cnt <= Wants /\ cnt \in Int /\ Wants = call.n - Len(call.data)
      BY <1>4, <1>6, <2>4
    <3> QED BY ONLY <2>2, <3>1, <3>2
  <2> QED BY <1>3, <1>4, <1>11, <2>1, <2>3, <2>4 DEF RioInv, Promise
<1> QED BY <1>12, <1>13, <1>14 DEF RioInv

LEMMA ReadnStep ==
  ASSUME RioInv, Readn
  PROVE  RioInv'
<1>1. PICK k \in AtMost(Len(pipe), Wants) :
        Deliver(SubSeq(pipe, 1, k)) /\ pipe' = SubSeq(pipe, k + 1, Len(pipe))
  BY DEF Readn
<1>2. /\ Wanting /\ ~buffered
      /\ UNCHANGED <<closed, w_bufp, w_left, buffered, rio_buf, rio_cnt, rio_bufptr>>
  BY DEF Readn
<1>3. PICK b : b = SubSeq(pipe, 1, k)
  OBVIOUS
<1>4. /\ Wants \in Nat \ {0}
      /\ call.kind = "readlineb" => Wants = 1 /\ Len(call.data) + 1 < call.n
      /\ call.kind \in {"readn", "readnb"} => Wants = call.n - Len(call.data)
      /\ call.kind # "none"
  BY <1>2, WantsBound DEF RioInv
<1>5. pipe \in Seq(Nat) /\ Len(pipe) \in Nat /\ given \in Seq(Nat) /\ Len(given) \in Nat
  BY DEF RioInv, RioType
<1>6. k \in 1..Len(pipe) /\ k <= Wants /\ k \in 0..Len(pipe)
  BY <1>4, <1>5 DEF AtMost
<1>7. Filled = 0 /\ rio_cnt = 0 /\ rio_cnt' = 0 /\ Filled' = 0
  BY <1>2 DEF RioInv, Promise, Filled
<1>8. /\ b \in Seq(Nat) /\ Len(b) = k /\ \A j \in 1..k : b[j] = pipe[j]
      /\ pipe' \in Seq(Nat) /\ Len(pipe') = Len(pipe) - k
      /\ \A j \in 1..Len(pipe) - k : pipe'[j] = pipe[k + j]
  <2>1. b = SubSeq(pipe, 1, k) /\ pipe' = SubSeq(pipe, k + 1, Len(pipe))
    BY <1>1, <1>3
  <2> QED BY ONLY <1>5, <1>6, <2>1, Taken
<1>9. /\ given' \in Seq(Nat) /\ Len(given') = Len(given) + k
      /\ \A j \in 1..Len(given) + k :
            given'[j] = IF j <= Len(given) THEN given[j] ELSE b[j - Len(given)]
      /\ call' \in [kind : {"none", "readn", "readnb", "readlineb"}, n : Nat, data : Seq(Nat),
                    result : {"none", "running", "ok", "error"}]
      /\ call'.kind = call.kind /\ call'.n = call.n /\ call'.result = call.result
      /\ call'.data \in Seq(Nat) /\ Len(call'.data) = Len(call.data) + k
      /\ \A j \in 1..Len(call.data) + k :
            call'.data[j] = IF j <= Len(call.data) THEN call.data[j] ELSE b[j - Len(call.data)]
  <2>1. RioType /\ b \in Seq(Nat) /\ Deliver(b) /\ Len(b) = k
    BY <1>1, <1>3, <1>8 DEF RioInv
  <2> HIDE DEF RioType, Deliver
  <2> QED BY ONLY <2>1, Delivered
<1>10. RioType'
  BY <1>2, <1>8, <1>9 DEF RioInv, RioType
<1>11. Positions'
  <2>1. /\ \A j \in 1..Len(pipe) : pipe[j] = Len(given) + j
        /\ \A j \in 1..Len(given) : given[j] = j
        /\ Len(given) + Len(pipe) = w_bufp - 1
    BY <1>5, <1>7 DEF RioInv, Positions
  <2>2. ASSUME NEW j \in 1..Len(given) + k PROVE given'[j] = j
    <3>1. CASE j <= Len(given)
      <4>1. j \in 1..Len(given)
        BY ONLY <1>5, <1>6, <2>2, <3>1
      <4> QED BY <1>9, <2>1, <3>1, <4>1
    <3>2. CASE j > Len(given)
      <4>1. /\ j - Len(given) \in 1..k /\ j - Len(given) \in 1..Len(pipe)
            /\ Len(given) + (j - Len(given)) = j /\ ~(j <= Len(given))
        BY ONLY <1>5, <1>6, <2>2, <3>2
      <4> QED BY <1>8, <1>9, <2>1, <2>2, <4>1
    <3> QED BY ONLY <1>5, <1>6, <2>2, <3>1, <3>2
  <2>3. ASSUME NEW j \in 1..Len(pipe') PROVE pipe'[j] = Len(given) + k + 0 + j
    <3>1. j \in 1..Len(pipe) - k /\ k + j \in 1..Len(pipe) /\ Len(given) + (k + j) = Len(given) + k + 0 + j
      BY ONLY <1>5, <1>6, <1>8, <2>3
    <3> QED BY <1>8, <2>1, <3>1
  <2>4. Len(given) + k + 0 + Len(pipe') = w_bufp - 1
    <3>1. PICK m : m = Len(pipe)
      OBVIOUS
    <3>2. m \in Nat /\ Len(pipe') = m - k /\ Len(given) + m = w_bufp - 1 /\ k \in Nat
      BY <1>5, <1>6, <1>8, <2>1, <3>1
    <3> QED BY ONLY <1>5, <3>2
  <2>5. rio_bufptr + 0 <= RIO_BUFSIZE
    BY <1>7 DEF RioInv, Positions
  <2>6. \A j \in 1..0 : rio_buf'[rio_bufptr' + j - 1] = Len(given') + j
    OBVIOUS
  <2> QED BY ONLY <1>2, <1>7, <1>9, <2>2, <2>3, <2>4, <2>5, <2>6 DEF Positions
<1>12. Promise'
  <2>1. call.result = "running" /\ ~EndsLine
    BY <1>2 DEF Wanting, Running
  <2>2. Len(call.data) \in Nat /\ call.n \in Nat
    BY DEF RioInv, RioType
  <2>3. ASSUME call.kind = "readlineb"
        PROVE  /\ Len(call'.data) <= call'.n - 1
               /\ \A j \in 1..(Len(call'.data) - 1) : call'.data[j] \notin Newlines
    <3>1. k = 1 /\ Len(call'.data) = Len(call.data) + 1
      BY <1>4, <1>6, <1>9, <2>3
    <3>2. \A j \in 1..Len(call.data) : call'.data[j] = call.data[j]
      <4>1. \A j \in 1..Len(call.data) : j \in 1..Len(call.data) + k /\ j <= Len(call.data)
        BY ONLY <2>2, <3>1
      <4> QED BY <1>9, <4>1
    <3> QED BY <1>2, <1>9, <2>3, <3>1, <3>2, OneMore DEF RioInv
  <2>4. ASSUME call.kind \in {"readn", "readnb"} PROVE Len(call'.data) <= call'.n
    <3>1. Len(call'.data) = Len(call.data) + k /\ call'.n = call.n
      BY <1>9
    <3>2. k <= Wants /\ k \in Int /\ Wants = call.n - Len(call.data)
      BY <1>4, <1>6, <2>4
    <3> QED BY ONLY <2>2, <3>1, <3>2
  <2> QED BY <1>2, <1>4, <1>7, <1>9, <2>1, <2>3, <2>4 DEF RioInv, Promise
<1> QED BY <1>10, <1>11, <1>12 DEF RioInv

LEMMA ReadErrorStep ==
  ASSUME RioInv, ReadError
  PROVE  RioInv'
<1>1. /\ Wanting /\ rio_cnt <= 0
      /\ rio_cnt' = (IF buffered THEN -1 ELSE rio_cnt)
      /\ call' = [call EXCEPT !.result = "error"]
      /\ UNCHANGED <<pipe, closed, w_bufp, w_left, buffered, rio_buf, rio_bufptr, given>>
  BY DEF ReadError
<1>2. rio_cnt \in Int
  BY DEF RioInv, RioType
<1>3. rio_cnt' \in Int /\ Filled = 0 /\ Filled' = 0 /\ (~buffered => rio_cnt' = rio_cnt)
  BY <1>1, <1>2 DEF Filled
<1>4. /\ call' \in [kind : {"none", "readn", "readnb", "readlineb"}, n : Nat, data : Seq(Nat),
                    result : {"none", "running", "ok", "error"}]
      /\ call'.kind = call.kind /\ call'.n = call.n /\ call'.data = call.data /\ call'.result = "error"
  BY <1>1 DEF RioInv, RioType
<1>5. RioType' /\ Positions'
  BY <1>1, <1>3, <1>4 DEF RioInv, RioType, Positions
<1>6. call.kind # "none"
  BY <1>1 DEF RioInv, Promise, Wanting, Running
<1>7. Promise'
  BY <1>1, <1>3, <1>4, <1>6 DEF RioInv, Promise
<1> QED BY <1>5, <1>7 DEF RioInv

LEMMA ReturnStep ==
  ASSUME RioInv, Return
  PROVE  RioInv'
<1>1. /\ Running /\ (~Wanting \/ AtEOF)
      /\ rio_cnt' = (IF AtEOF /\ Wanting THEN 0 ELSE rio_cnt)
      /\ call' = [call EXCEPT !.result = "ok"]
      /\ UNCHANGED <<pipe, closed, w_bufp, w_left, buffered, rio_buf, rio_bufptr, given>>
  BY DEF Return
<1>2. rio_cnt \in Int
  BY DEF RioInv, RioType
<1>3. rio_cnt' \in Int /\ Filled' = Filled /\ (AtEOF => AtEOF') /\ (rio_cnt = 0 => rio_cnt' = 0)
  BY <1>1, <1>2 DEF Filled, AtEOF
<1>4. /\ call' \in [kind : {"none", "readn", "readnb", "readlineb"}, n : Nat, data : Seq(Nat),
                    result : {"none", "running", "ok", "error"}]
      /\ call'.kind = call.kind /\ call'.n = call.n /\ call'.data = call.data /\ call'.result = "ok"
  BY <1>1 DEF RioInv, RioType
<1>5. RioType' /\ Positions'
  BY <1>1, <1>3, <1>4 DEF RioInv, RioType, Positions
<1>6. call.kind # "none"
  BY <1>1 DEF RioInv, Promise, Running
<1>7. Wants' = Wants /\ EndsLine' = EndsLine
  BY <1>4 DEF Wants, EndsLine
<1>8. Wants' = 0 \/ EndsLine' \/ AtEOF'
  <2>1. CASE AtEOF
    BY <1>3, <2>1
  <2>2. CASE ~Wanting
    <3>1. call.n \in Nat /\ Len(call.data) \in Nat /\ call.kind \in {"readn", "readnb", "readlineb"}
      BY <1>6 DEF RioInv, RioType
    <3>2. Wants \in Nat
      <4>1. CASE call.kind = "readlineb"
        BY <4>1 DEF Wants
      <4>2. CASE call.kind \in {"readn", "readnb"}
        BY <3>1, <4>2 DEF RioInv, Promise, Wants
      <4> QED BY <3>1, <4>1, <4>2
    <3>3. Wants = 0 \/ EndsLine
      BY <1>1, <2>2, <3>2 DEF Wanting
    <3> QED BY <1>7, <3>3
  <2> QED BY <1>1, <2>1, <2>2
<1>9. Promise'
  BY <1>1, <1>3, <1>4, <1>6, <1>8 DEF RioInv, Promise
<1> QED BY <1>5, <1>9 DEF RioInv

-----------------------------------------------------------------------------
(* The properties. *)

(* Every step keeps the invariant.                                         *)
LEMMA RioStep == RioInv /\ [RioNext]_rioVars => RioInv'
<1> SUFFICES ASSUME RioInv, [RioNext]_rioVars PROVE RioInv'
  OBVIOUS
<1>1. CASE \E n \in Counts : StartWrite(n)
  BY <1>1, StartWriteStep
<1>2. CASE \E n \in Counts : \E kind \in {"readn", "readnb", "readlineb"} : StartRead(kind, n)
  BY <1>2, StartReadStep
<1>3. CASE write
  BY <1>3, WriteStep
<1>4. CASE Close
  BY <1>4, CloseStep
<1>5. CASE Refill
  BY <1>5, RefillStep
<1>6. CASE RefillInterrupted
  BY <1>6, RefillInterruptedStep
<1>7. CASE Copy
  BY <1>7, CopyStep
<1>8. CASE Readn
  BY <1>8, ReadnStep
<1>9. CASE ReadError
  BY <1>9, ReadErrorStep
<1>10. CASE Return
  BY <1>10, ReturnStep
<1>11. CASE UNCHANGED rioVars
  BY <1>11 DEF rioVars, RioInv, RioType, Positions, Promise, Filled, Wants, EndsLine, AtEOF
<1> QED BY <1>1, <1>2, <1>3, <1>4, <1>5, <1>6, <1>7, <1>8, <1>9, <1>10, <1>11 DEF RioNext

(* The stream, put together from its three parts, is what was sent.        *)
LEMMA InOrder == RioInv => StreamInOrder
<1> SUFFICES ASSUME RioInv PROVE StreamInOrder
  OBVIOUS
<1>1. PICK b : b = [k \in 1..Filled |-> rio_buf[(rio_bufptr + k - 1) % RIO_BUFSIZE]]
  OBVIOUS
<1>2. /\ given \in Seq(Nat) /\ pipe \in Seq(Nat) /\ w_bufp \in Nat \ {0} /\ Len(given) \in Nat /\ Len(pipe) \in Nat
      /\ Filled \in Nat /\ rio_bufptr \in Nat /\ RIO_BUFSIZE \in Nat \ {0}
  BY RioAssumption DEF RioInv, RioType, Filled
<1>3. /\ rio_bufptr + Filled <= RIO_BUFSIZE
      /\ \A k \in 1..Len(given) : given[k] = k
      /\ \A k \in 1..Filled : rio_buf[rio_bufptr + k - 1] = Len(given) + k
      /\ \A k \in 1..Len(pipe) : pipe[k] = Len(given) + Filled + k
      /\ Len(given) + Filled + Len(pipe) = w_bufp - 1
  BY DEF RioInv, Positions
<1>4. b \in Seq(Nat) /\ Len(b) = Filled /\ \A k \in 1..Filled : b[k] = Len(given) + k
  <2>1. ASSUME NEW k \in 1..Filled PROVE rio_buf[(rio_bufptr + k - 1) % RIO_BUFSIZE] = Len(given) + k
    <3>1. rio_bufptr + k - 1 \in 0..RIO_BUFSIZE - 1
      BY ONLY <1>2, <1>3, <2>1
    <3>2. (rio_bufptr + k - 1) % RIO_BUFSIZE = rio_bufptr + k - 1
      BY ONLY <1>2, <3>1, ModBelow
    <3> QED BY <1>3, <3>2
  <2>2. ASSUME NEW k \in 1..Filled PROVE Len(given) + k \in Nat
    BY ONLY <1>2, <2>2
  <2>3. b = [k \in 1..Filled |-> Len(given) + k]
    BY ONLY <1>1, <2>1
  <2> QED BY ONLY <1>2, <2>2, <2>3
<1>5. PICK s : s = given \o b
  OBVIOUS
<1>6. s \in Seq(Nat) /\ Len(s) = Len(given) + Filled /\ \A k \in 1..Len(given) + Filled : s[k] = k
  <2>1. /\ s \in Seq(Nat) /\ Len(s) = Len(given) + Filled
        /\ \A k \in 1..Len(given) + Filled : s[k] = IF k <= Len(given) THEN given[k] ELSE b[k - Len(given)]
    BY ONLY <1>2, <1>4, <1>5, Joined
  <2>2. ASSUME NEW k \in 1..Len(given) + Filled PROVE s[k] = k
    <3>1. k <= Len(given) => k \in 1..Len(given)
      BY ONLY <1>2, <2>2
    <3>2. ~(k <= Len(given)) => k - Len(given) \in 1..Filled /\ Len(given) + (k - Len(given)) = k
      BY ONLY <1>2, <2>2
    <3> QED BY ONLY <1>3, <1>4, <2>1, <2>2, <3>1, <3>2
  <2> QED BY ONLY <2>1, <2>2
<1>7. PICK m : m = Len(s)
  OBVIOUS
<1>8. m \in Nat /\ m = Len(given) + Filled /\ m + Len(pipe) = w_bufp - 1
  BY ONLY <1>2, <1>3, <1>6, <1>7
<1>9. PICK t : t = s \o pipe
  OBVIOUS
<1>10. /\ t \in Seq(Nat) /\ Len(t) = w_bufp - 1
       /\ \A k \in 1..w_bufp - 1 : t[k] = IF k <= m THEN s[k] ELSE pipe[k - m]
  <2>1. /\ t \in Seq(Nat) /\ Len(t) = m + Len(pipe)
        /\ \A k \in 1..m + Len(pipe) : t[k] = IF k <= m THEN s[k] ELSE pipe[k - m]
    BY ONLY <1>2, <1>6, <1>7, <1>9, Joined
  <2> QED BY ONLY <1>8, <2>1
<1>11. ASSUME NEW k \in 1..w_bufp - 1 PROVE t[k] = 1 + k - 1
  <2>1. 1 + k - 1 = k /\ (k <= m => k \in 1..m) /\ (~(k <= m) => k - m \in 1..Len(pipe) /\ m + (k - m) = k)
    BY ONLY <1>2, <1>8, <1>11
  <2> QED BY ONLY <1>3, <1>6, <1>7, <1>8, <1>10, <1>11, <2>1
<1>12. t = [k \in 1..w_bufp - 1 |-> t[k]]
  BY ONLY <1>2, <1>10
<1>13. t = Bytes(1, w_bufp - 1)
  BY ONLY <1>11, <1>12 DEF Bytes
<1> QED BY ONLY <1>1, <1>5, <1>9, <1>13 DEF StreamInOrder, Filled

(* A call that returned was through, or at the end of the stream.          *)
LEMMA Whole == RioInv => ResultsAreWhole
<1> SUFFICES ASSUME RioInv, call.result = "ok",
                    NEW ends, ends = {k \in 1..Len(call.data) : call.data[k] \in Newlines}
             PROVE  LET full == Len(call.data) = IF call.kind = "readlineb" THEN call.n - 1 ELSE call.n
                    IN  IF call.kind = "readlineb"
                        THEN ends \subseteq {Len(call.data)} /\ (ends = {} => full \/ AtEOF)
                        ELSE full \/ AtEOF
  BY DEF ResultsAreWhole
<1>1. Len(call.data) \in Nat /\ call.n \in Nat /\ call.kind \in {"readn", "readnb", "readlineb"}
  BY DEF RioInv, RioType, Promise
<1>2. Wants = 0 \/ EndsLine \/ AtEOF
  BY DEF RioInv, Promise
<1>3. CASE call.kind = "readlineb"
  <2>1. Len(call.data) <= call.n - 1 /\ \A k \in 1..(Len(call.data) - 1) : call.data[k] \notin Newlines
    BY <1>3 DEF RioInv, Promise
  <2>2. ends \subseteq {Len(call.data)}
    <3> SUFFICES ASSUME NEW k \in 1..Len(call.data), call.data[k] \in Newlines PROVE k = Len(call.data)
      OBVIOUS
    <3>1. k \in 1..(Len(call.data) - 1) \/ k = Len(call.data)
      BY <1>1
    <3> QED BY <2>1, <3>1
  <2>3. ASSUME ends = {} PROVE Len(call.data) = call.n - 1 \/ AtEOF
    <3>1. ~EndsLine
      <4>1. call.data # <<>> => Len(call.data) \in 1..Len(call.data)
        BY <1>1 DEF RioInv, RioType
      <4> QED BY <2>3, <4>1 DEF EndsLine
    <3>2. Wants = 0 => ~(Len(call.data) + 1 < call.n)
      BY <1>3 DEF Wants
    <3> QED BY <1>1, <1>2, <2>1, <3>1, <3>2
  <2> QED BY <1>3, <2>2, <2>3
<1>4. CASE call.kind # "readlineb"
  BY <1>1, <1>2, <1>4 DEF Wants, EndsLine
<1> QED BY <1>3, <1>4

(* Whatever the kernel does with the calls to read and write: the bytes    *)
(* that rio_readn, rio_readnb and rio_readlineb gave, those in the rio_t   *)
(* and those in the kernel are the bytes that rio_writen wrote, each once  *)
(* and in order; and a call that returns no error gives all it was asked   *)
(* for, a line up to its first newline, or what came before the end.       *)
THEOREM StreamDelivers == RioSpec => []RioDelivers
<1>1. RioInit => RioInv
  BY InitPositions
<1>2. RioInv /\ [RioNext]_rioVars => RioInv'
  BY RioStep
<1>3. RioInv => RioDelivers
  BY InOrder, Whole DEF RioDelivers
<1> QED BY <1>1, <1>2, <1>3, PTL DEF RioSpec
=============================================================================
