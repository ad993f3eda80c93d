-------------------------------- MODULE Rio --------------------------------
(* The robust I/O functions of csapp.c over a connection: one side sends   *)
(* with rio_writen, the other reads with rio_readnb and rio_readlineb from *)
(* a buffer, or with rio_readn without one. Calls to the kernel move fewer *)
(* bytes than asked for, are interrupted, or fail. A byte is named by its  *)
(* position in what is sent.                                               *)
EXTENDS Integers, Sequences, FiniteSetsExt

CONSTANTS
  Newlines,     \* the bytes that are newlines
  Total,        \* bytes sent in all
  Capacity,     \* bytes the kernel holds
  RIO_BUFSIZE,
  Counts        \* what the functions are asked for
(* rio_readlineb needs room for the NUL at the end.                        *)
ASSUME RioAssumption ==
  RIO_BUFSIZE \in Nat \ {0} /\ Counts \subseteq Nat \ {0} /\ Total \in Nat /\ Capacity \in Nat

VARIABLES
  pipe,         \* bytes in the kernel
  closed,       \* the sender has closed the connection
  w_bufp, w_left,                  \* rio_writen: next byte, bytes left; w_left = 0 between calls
  buffered,     \* does the reader use a rio_t?
  rio_buf, rio_cnt, rio_bufptr,    \* the reader's rio_t
  call,         \* the reader's call: kind, n, what it has put in usrbuf, and "running" or its result
  given         \* history: bytes that calls took, in order
rioVars == <<pipe, closed, w_bufp, w_left, buffered, rio_buf, rio_cnt, rio_bufptr, call, given>>

RioInit ==
  /\ pipe = <<>> /\ closed = FALSE /\ w_bufp = 1 /\ w_left = 0
  /\ buffered \in BOOLEAN
  /\ rio_buf = [i \in 0..RIO_BUFSIZE - 1 |-> 0] /\ rio_cnt = 0 /\ rio_bufptr = 0   \* rio_readinitb
  /\ call = [kind |-> "none", n |-> 0, data |-> <<>>, result |-> "none"]
  /\ given = <<>>

Bytes(from, n) == [k \in 1..n |-> from + k - 1]
AtMost(a, b)   == 1..(IF a < b THEN a ELSE b)

-----------------------------------------------------------------------------
StartWrite(n) ==
  /\ w_left = 0 /\ ~closed /\ w_bufp + n - 1 <= Total
  /\ w_left' = n
  /\ UNCHANGED <<pipe, closed, w_bufp, buffered, rio_buf, rio_cnt, rio_bufptr, call, given>>
(* One write; one that is interrupted leaves everything as it is.          *)
write ==
  /\ \E k \in AtMost(w_left, Capacity - Len(pipe)) :
       pipe' = pipe \o Bytes(w_bufp, k) /\ w_left' = w_left - k /\ w_bufp' = w_bufp + k
  /\ UNCHANGED <<closed, buffered, rio_buf, rio_cnt, rio_bufptr, call, given>>
(* The sender closes when it is through, or when a write failed.           *)
Close ==
  /\ ~closed /\ closed' = TRUE /\ w_left' = 0
  /\ UNCHANGED <<pipe, w_bufp, buffered, rio_buf, rio_cnt, rio_bufptr, call, given>>

-----------------------------------------------------------------------------
Running == call.result = "running"
StartRead(kind, n) ==
  /\ ~Running /\ call.result # "error" /\ (kind = "readn") = ~buffered
  /\ call' = [kind |-> kind, n |-> n, data |-> <<>>, result |-> "running"]
  /\ UNCHANGED <<pipe, closed, w_bufp, w_left, buffered, rio_buf, rio_cnt, rio_bufptr, given>>

Wants == CASE call.kind = "readlineb" -> IF Len(call.data) + 1 < call.n THEN 1 ELSE 0
           [] OTHER -> call.n - Len(call.data)
EndsLine == call.kind = "readlineb" /\ call.data # <<>> /\ call.data[Len(call.data)] \in Newlines
Wanting  == Running /\ Wants > 0 /\ ~EndsLine
Deliver(bytes) == call' = [call EXCEPT !.data = @ \o bytes] /\ given' = given \o bytes

(* rio_read: while the buffer is empty, read into it.                      *)
Refill_append ==   \* mutant: rio_bufptr is not reset
  /\ Wanting /\ buffered /\ rio_cnt <= 0
  /\ \E k \in AtMost(Len(pipe), RIO_BUFSIZE) :
       /\ rio_buf' = [i \in DOMAIN rio_buf |-> IF i < k THEN pipe[i + 1] ELSE rio_buf[i]]
       /\ rio_cnt' = k /\ pipe' = SubSeq(pipe, k + 1, Len(pipe))
  /\ UNCHANGED <<closed, w_bufp, w_left, buffered, rio_bufptr, call, given>>
Refill ==
  /\ Wanting /\ buffered /\ rio_cnt <= 0
  /\ \E k \in AtMost(Len(pipe), RIO_BUFSIZE) :
       /\ rio_buf' = [i \in DOMAIN rio_buf |-> IF i < k THEN pipe[i + 1] ELSE rio_buf[i]]
       /\ rio_cnt' = k /\ rio_bufptr' = 0 /\ pipe' = SubSeq(pipe, k + 1, Len(pipe))
  /\ UNCHANGED <<closed, w_bufp, w_left, buffered, call, given>>
RefillInterrupted ==
  /\ Wanting /\ buffered /\ rio_cnt <= 0 /\ rio_cnt' = -1
  /\ UNCHANGED <<pipe, closed, w_bufp, w_left, buffered, rio_buf, rio_bufptr, call, given>>
Copy ==
  /\ Wanting /\ rio_cnt > 0
  /\ LET cnt == IF rio_cnt < Wants THEN rio_cnt ELSE Wants IN
     /\ Deliver([k \in 1..cnt |-> rio_buf[(rio_bufptr + k - 1) % RIO_BUFSIZE]])
     /\ rio_bufptr' = rio_bufptr + cnt /\ rio_cnt' = rio_cnt - cnt
  /\ UNCHANGED <<pipe, closed, w_bufp, w_left, buffered, rio_buf>>
(* rio_readn reads into usrbuf.                                            *)
Readn ==
  /\ Wanting /\ ~buffered
  /\ \E k \in AtMost(Len(pipe), Wants) :
       Deliver(SubSeq(pipe, 1, k)) /\ pipe' = SubSeq(pipe, k + 1, Len(pipe))
  /\ UNCHANGED <<closed, w_bufp, w_left, buffered, rio_buf, rio_cnt, rio_bufptr>>

AtEOF == closed /\ pipe = <<>> /\ rio_cnt <= 0
ReadError ==
  /\ Wanting /\ rio_cnt <= 0
  /\ rio_cnt' = IF buffered THEN -1 ELSE rio_cnt
  /\ call' = [call EXCEPT !.result = "error"]
  /\ UNCHANGED <<pipe, closed, w_bufp, w_left, buffered, rio_buf, rio_bufptr, given>>
Return ==
  /\ Running /\ (~Wanting \/ AtEOF)
  /\ rio_cnt' = IF AtEOF /\ Wanting THEN 0 ELSE rio_cnt
  /\ call' = [call EXCEPT !.result = "ok"]
  /\ UNCHANGED <<pipe, closed, w_bufp, w_left, buffered, rio_buf, rio_bufptr, given>>

RioNext ==
  \/ \E n \in Counts : StartWrite(n) \/ \E kind \in {"readn", "readnb", "readlineb"} : StartRead(kind, n)
  \/ write \/ Close \/ Refill \/ RefillInterrupted \/ Copy \/ Readn \/ ReadError \/ Return

-----------------------------------------------------------------------------
(* However calls on both sides are cut into reads and writes, interrupted  *)
(* and mixed, the reader takes the bytes sent, each once and in order:     *)
(* none is lost between two calls (rio_writen, rio_read).                  *)
StreamInOrder ==
  given \o [k \in 1..(IF rio_cnt > 0 THEN rio_cnt ELSE 0) |-> rio_buf[(rio_bufptr + k - 1) % RIO_BUFSIZE]] \o pipe
    = Bytes(1, w_bufp - 1)

(* A call that returns no error gives all that was asked for, or a line,   *)
(* or what was left before the end (rio_readn, rio_readnb, rio_readlineb). *)
ResultsAreWhole ==
  call.result = "ok" =>
    LET data == call.data
        ends == {k \in 1..Len(data) : data[k] \in Newlines}
        full == Len(data) = IF call.kind = "readlineb" THEN call.n - 1 ELSE call.n
    IN  IF call.kind = "readlineb"
        THEN /\ ends \subseteq {Len(data)}
             /\ ends = {} => full \/ AtEOF
        ELSE full \/ AtEOF

(* Over short counts, closed connections and refills, the bytes arrive in  *)
(* order and every call returns what it gave.                              *)
RioDelivers == StreamInOrder /\ ResultsAreWhole
=============================================================================
