# TLA+ models of the CMU 18-613 labs

The repository holds one student's solutions to the labs of a systems course: a
job-control shell, a caching web proxy, a memory allocator, a cache simulator, a
string queue, bit puzzles. This directory models these programs and the
drivers that judge them, above all where correctness depends on order (signals, threads,
messages, timeouts, pointer updates, long traces), and checks the models with TLC. TLAPS proves
the invariants of the shell, of the proxy's cache and of the string queue and that each
implements its abstract specification, that buffered I/O delivers every byte in order, what
keeps the rows of the cache simulator sound, and the shell grader's score.

Paths below are relative to `src/`; `tsh/` stands for `tshlab-s20-bhxxzp/`, `proxy/`
for `proxylab-s20-bhxxzp/`, `cache/` for `cachelab-s20-bhxxzp/`, `queue/` for `cprogramminglab-handout/`, `malloc/`
for `malloclab-s20-bhxxzp/`, `data/` for `datalab-s20-bhxxzp/`.

## Inventory

| part | state it keeps | operations | what is hard |
|---|---|---|---|
| **tsh job list** (`tsh/tsh_helper.c`) | `job_list[MAXJOBS]`, `nextjid` | `add_job`, `delete_job`, `fg_job`, `job_from_pid`, `job_set_state`, ... | shared by `main` and the signal handlers; slots reused out of order; functions that abort on bad arguments |
| **tsh shell** (`tsh/tsh.c`) | where `main` is, the signal mask, installed handlers; in the kernel: pending signals, children | `eval`, `do_bgfg`, `quit`, four handlers, `cleanup` | handlers between any two unmasked instructions; signals that merge; a child that ends before it is listed; keys before `setpgid`; a full list |
| **tsh parser** (`parseline`) | a buffer that is cut where it lies | tokenizing | quotes and redirections that touch; limits of the argument array |
| **trace runner** (`runtrace.c`, `wrapper.c`, `testprogs/`) | three socket pairs, an alarm, the shell's session | trace lines, prompts, meeting jobs and the shell's wrapped calls, clean-up | every message can be early or late; a shell or job that hangs; what outlives the run |
| **shell grader** (`sdriver.c`) | counts, temporary files | runs traces, compares, scores | one iteration of several failing |
| **proxy cache** (`proxy/cache.c`) | doubly linked list, `list_size`, one mutex | `get_value`, `write_node`, `find_node`, `delete_node` | walks without the mutex, check-then-insert, eviction at the limit |
| **proxy connections** (`proxy/proxy.c`) | one thread per connection with its buffers | accept, parse, look up, connect, relay, store | errors as unsigned lengths, partial responses |
| **proxy rio** (`proxy/csapp.c`) | a read buffer per descriptor | `rio_readn`, `rio_writen`, `rio_readnb`, `rio_readlineb` | short counts, interruptions, refills in the middle of a line |
| **cache simulator** (`cache/csim.c`) | rows of lines (tag, valid, dirty, LRU counter), five totals | hit, fill, replace, summary | replacement order and counters after long traces; shifts at `s = 0` |
| **string queue** (`queue/queue.c`) | `head`, `tail`, `size`, linked elements with strings | new, free, insert at both ends, remove, reverse | links and fields in step; failing `malloc`; `tail` at an empty queue |
| **queue test program** (`queue/qtest.c`, `harness.c`) | `qcnt`, the list of allocated blocks, modes, an error flag, a `jmp_buf` | one command per operation, `malloc` that fails, `longjmp` on SIGALRM and SIGSEGV | an operation cut off between any two of its steps; what it leaves for the next command |
| **queue console** (`console.c`, `report.c`) | a stack of input files, errors, a log, helpers | `source`, `time`, `log`, `quit`, ... | files inside files, failures on the way out |
| **malloc** (`malloc/mm.c`, `memlib.c`) | heap of boundary-tagged blocks, 14 segregated free lists, the first of 16-byte blocks; the break | `malloc`, `free`, `realloc`, `calloc`, `coalesce_block`, `split_block`, `find_fit`, `extend_heap`, `mm_checkheap` | tags and links in step through every split and merge; sizes near overflow; `calloc` of zero elements |
| **older allocators** (`mm_copy_copy.c`, `mm_original.c`, `rec10e/mm.c`) | heaps with footers, one with lists and one without | the same calls | the same |
| **sparse memory** (`memlib.c`) | pages in hash chains, a set of written bytes for each | reads, writes, copies, reset | straddled pages, pages used again |
| **malloc driver** (`mdriver.c`, `stree.c`, `fcyc.c`) | traces, a list and a splay tree of allocated ranges, statics of the timer | replay, range checks, timeouts, timing, score | rotations; `longjmp` out of anything; a verdict from several evaluations |
| **transpose** (`cache/trans.c`, `tracegen-ct.c`, `test-trans.c`) | two matrices and their copies | blocked transposes, validation, grading | that every element is visited once; which function the grade is of |
| **bit puzzles** (`data/bits.c`, `tests.c`) | none | fourteen functions and their references | the ends of the range, rounding |
| bomb, target, vendored `tiny/`, `pxy/`, traces | - | - | binaries, third-party code, test data |

The shell and its children interact by signals and `waitpid`; `main` and the handlers
share the job list under the signal mask. The proxy's threads share only the list and
its mutex. The labs do not interact with each other.

What makes each part correct:

* job list: at most one foreground job; the slot `nextjid` names is free; a listed pid is
  an unreaped child, listed once;
* shell: no child is reaped before it is listed or forgotten after; the prompt comes back
  exactly when no job has the foreground; no wakeup and no SIGCHLD is lost; a job is `ST`
  exactly when its process is stopped; the user sees a plain table of jobs (`JobControl`);
* proxy: the list stays a list, its size is counted, eviction is least-recently-used, only
  complete objects are stored, nothing hangs; seen from outside the critical sections are
  the steps of `LRUCache`.
* cache simulator: LRU counters stay in range, shifts pick the set and tag that division
  does, and the totals are those of a write-back cache (`WriteBackCache`);
* queue: between commands the list, the fields and the counts agree and nothing leaks;
  walks end; a queue nothing went wrong with touches no freed element; the operations are
  those of a queue (`StringQueue`), an operation that fails shows nothing;
* malloc: blocks tile the heap, a block is in the free list of its size exactly when its tag
  says free, the previous-block bits agree with the previous block, neighbours are never both
  free, what `malloc` returns overlaps nothing allocated, what the program stored stays;
* the drivers: a verdict, a score or an index is given only to what earned it, nothing
  that was cut short decides about what comes after, every run ends and leaves nothing
  behind, and what is read and written arrives whole and in order.

## Modules

| module | what it is |
|---|---|
| `JobList` | `tsh_helper.c`'s list functions as operators on the list and `nextjid` |
| `Tsh` | state machine of the shell, the kernel's signals, the children |
| `JobControl` | abstract: the table of jobs the user sees |
| `TshProperties` | what must hold of `Tsh`; the mapping to `JobControl` |
| `MCTsh` | symmetry of the pids, for TLC |
| `TshProofs` | lemmas on the list; the shell's invariants and its refinement of `JobControl` as theorems |
| `CacheList` | the nodes and links of `cache.c` as operators on a memory |
| `Proxy` | state machine of the connections, the cache and its mutex |
| `LRUCache` | abstract: a sequence of objects in order of use |
| `ProxyProperties`, `MCProxy` | what must hold of `Proxy`; the mapping to `LRUCache`; symmetry |
| `CacheListProofs`, `ProxyProofs` | lemmas on the linked list and on sums; the proxy's invariants and its refinement of `LRUCache` as theorems |
| `Csim`, `WriteBackCache` | state machine of the cache simulator, one step per line of the trace; abstract: which blocks are in the cache, which are dirty, the totals |
| `CsimProperties` | what must hold of `Csim`; the mapping to `WriteBackCache` |
| `CsimProofs` | what every row satisfies, as a theorem |
| `Qtest`, `StringQueue` | state machine of the queue's operations under the test program; abstract: a sequence of strings |
| `QtestProperties` | what must hold of `Qtest`; the mapping to `StringQueue` |
| `QtestProofs` | lemmas on linked lists and walks; the queue's invariants and its refinement of `StringQueue` as theorems |
| `Harness` | qtest's commands on the memory and exceptions of `harness.c`, around any queue |
| `Console` | the console's files, commands, errors and helpers |
| `Heap`, `Malloc` | the words of the allocator's heap; state machine of its four calls with a program that fills what it is given; `mm_checkheap` |
| `Segments` | abstract: segments side by side, used or not, merged or not when freed |
| `MallocProperties`, `MCMalloc` | what must hold of `Malloc`; the mapping to `Segments`; small requests |
| `MallocProofs` | lemmas on tags, lists, blocks and segments; that the heap stays consistent, payloads stay and every call is one of `Segments`, as theorems |
| `ListedHeap`, `ImplicitHeap` | the two older allocators, with their mappings to `Segments` |
| `SparseMemory`, `FlatMemory` | the paged emulation of memory; abstract: an array of bytes |
| `Splay` | the splay tree's functions |
| `Mdriver` | state machine of the malloc driver around any allocator, and what must hold of it |
| `Fcyc` | state machine of the timing function |
| `Transpose` | the transpose functions, their validation, the grader |
| `Rio` | buffered reading and writing over a connection, and what must hold of it |
| `RioProofs` | that the bytes arrive in order and calls return what they promise, as a theorem |
| `Parseline` | the parser, one step per token |
| `Runtrace` | the trace runner, the wrapped shell, the jobs |
| `Sdriver` | the grader of the shell, and the theorem on its score |
| `Bits` | the puzzles and their references |
| `MCQtest` | a composition: `Qtest`, `Harness` or `Console` |
| `MCMalloclab` | a composition: `Mdriver`, `SparseMemory`, `Fcyc`, `ListedHeap` or `ImplicitHeap` |
| `MCPrograms` | a composition: `Csim`, `Transpose`, `Rio`, `Bits`, `Parseline`, `Runtrace` or `Sdriver` |

The three compositions put programs side by side that share no state. The variable `part`
says which of them a behaviour runs; the others stay in one initial state, and each property
speaks of its own part, so that one run checks all of them, each exactly as it would be alone.
`RioDelivers`, `ScoreIsWhole` and `RowsSound` hold of their programs at rest as well; they are
checked under the names the theorems give them.

Operators named `..._something` next to an operator of the code and marked *mutant* are
deliberately wrong variants, kept to show that the properties notice.

### Tsh

| code | model |
|---|---|
| `job_list`, `nextjid` | `jobs`, `nextjid` |
| control point of `main`, its locals | `pc`, `cur` |
| signal mask of `main` (all or nothing in this program) | `blocked` |
| inside the loop of `sigchld_handler` | `reaping` |
| `Signal(..., SIG_DFL)` in `cleanup` | `installed` |
| kernel: signals pending for the shell and each child | `pending`, `childPending` |
| kernel: each process | `child` |
| - | `unlisted`: history, the children `add_job` did not take |

`sigint_handler` and `sigtstp_handler` run with everything blocked from their second
statement, and touch nothing before, so each is one step. `sigchld_handler` is one step per
turn of its loop because children move between two calls of `waitpid`. `main`
makes a step between any two places where the mask changes: inside a masked region nothing
can interrupt it. `sigsuspend` is three steps: mask dropped and asleep (`FgSuspend`), a
handler runs (`Resumed`), mask restored (`SuspendReturns`); more handlers may run before
the last. A child between `setpgid` and `execve` still has the shell's handlers and a copy
of a list without foreground job: it swallows a signal. `abort()` is a terminal value
of `pc`.

Left out: text (command lines, messages, parsing, the `jobs` listing, which only reads),
redirection except that it may fail, children that catch or ignore signals, jobs of
several processes, SIGCONT from elsewhere, a stop of the child before `execve`, SIGTSTP's
default action during `cleanup`.

### Proxy

Every thread has a `pc` and its locals `loc` (the URI, the relay loop's `total` and `mask`,
the node in hand, the node a loop has come to). `get_value` and the second half of
`write_node` run under the mutex; each is split where another thread's unlocked walk can
see the difference. The first half of `write_node` walks without the mutex, one node per
step; a walker standing on a node that was freed can go anywhere, stop, or bring the process
down (`ScanFreed`). `n` of the relay loop is a `size_t`: an error is `SIZE_T - 1` and sums are
taken modulo `SIZE_T`. Loads and stores are taken to happen in program order and whole.
`before` and `last` are history variables for the refinement; `sent`, in `loc`, is what the server
has sent, whatever the loop kept of it. A response with no byte leaves the loop at once and is
stored as an object of size 0, as in the code.

`parse_uri`'s null pointer for a URI without a path, `accept` failing, and a `Malloc` that fails in
`create_node` (`CreateFails`) end the process. Left out: header text, the error page, `Malloc`
failing elsewhere, `free_list` (unreachable).

### Csim

The rows, the totals and `-s` are variables, `-E` and `-b` constants. A line of the trace
is one step: `Hit`, `Fill` or `Replace`, with the loops over a row as sets of lines. Shifts
are those of a processor on `W`-bit numbers, where a shift by `W` is one by 0: with `-s 0` and
`-b` above 0 the set index is then not 0, and `cache[set]` lies outside the rows
(`OutOfRows`, where the model stops). `order` is a history variable, the order of last use.
Instruction `M` is not treated by the code in any other way than a load. Counters of hits
and bytes are unbounded here and `int` in C; `MaxAccesses` bounds the trace.

### Qtest

A step is one change to memory. `heap` holds the elements, `allocated` those `malloc` gave
out (a free one may be given out again), `strings` those whose string is allocated. `pc` is
the next step, `cmd` the command with the string it inserts or has taken out, `cell` and `prev`
the local pointers. `Alarm` can end any operation at any step and leaves what it did so
far; `do_free` forgets the queue even so. A null pointer followed is `Segfault`, with the same
`longjmp`. A freed element used is `Corrupt`, after which nothing is known. `trusted` is a
history variable: false from the moment an operation on this queue was cut off, or from a
`q_insert_tail` into an empty queue (see Findings) until the queue is freed. `before` and the
string in `cmd` are history for the refinement. The first `malloc` of an operation failing,
and any operation on a null queue, change nothing and have no action. Left out: the magic
numbers around blocks, the length of strings, repetition counts, `q_size`, the display.

### Harness, Console

`Qtest` has the real queue and an idealised harness; `Harness` has the real harness and
commands around a queue that may do anything: leak, free twice, write past a block, use a bad
address, never return, answer anything. The magic number of a block's header and the one in
its footer are separate, because a stray write may hit either
and `test_free` looks at both.
`late` marks an alarm that fires after the call it was for. `sigsetjmp` is called in a
function that has returned before `siglongjmp` uses it, which is undefined; the model takes
what the `-O0` build of the Makefile does. A jump comes back as a false result of the last
call.

A file of `Console` is a sequence of words and newlines; what a word does is what the command
of that name does. `RIO_BUFSIZE` words fit the line buffer.

### Malloc

`heap` is a record of every word of the simulated memory, the heads of the lists and the break;
addresses and sizes count words. A word holds a packed tag as the number it is, a pointer as an
address, or the program's data (a number that is neither). What a merge or a split leaves
behind in a word stays there. A call is one step: nothing runs beside it, and the helpers
are functions from heap to heap. Sums and products of sizes wrap at `size_limit`. `live` is a
history variable: what the program owns and how much it asked for. The program fills what it is
given, so that data found damaged later is seen; after a `realloc` it fills only what lies beyond
the smaller of the old and the new size; after `calloc` it relies on the zeros. `Segments` is driven by the same requests:
`ImplementsSegments` says that a request for so many words takes, splits, merges and grows as
it would there. `CheckerCatches` damages the heap in one word, wherever there is a place for it,
and asks the checker. `mem_sbrk` refuses at the end of the simulated memory; the operating
system's own refusal (`memlib.c:210`, dense mode) leaves the heap and the program as they were, which is a
step that changes nothing. Left out: a heap with no room for the prologue.

`ListedHeap` and `ImplicitHeap` follow the same plan. `mm_copy_copy.c` takes the payload of a block
to end one word early, so `realloc` loses the last word of a full block it moves. The program
does not store that word anew: `lost` marks it, `NothingLost` asks for every other word, and
`ReallocKeepsPayload` is what the driver asks, without the exception (see Findings). `mm_original.c` does not merge, which is
`Coalesces <- FALSE` of `Segments`: freed segments stay apart, and all else is as before.

### Mdriver, Splay

The allocator is free to return any address (`Pointers`), fail, and write over bytes
(`Scribbled`), so that the driver's verdict is examined for right and wrong allocators alike.
A payload's random bytes are distinct from all others. `honest`, `live`, `spoilt` and `due` are
history: whether the allocator has made a mistake, what it owes, and whether a damaged
payload has come up for a check. The timeout's `longjmp` can come wherever an allocator's call
can be running. The splay tree is a record of nodes with three links each, and `splay` the
code's rotations. The second half of a run, utilization and speed, is modelled as far as it can
fail.

### SparseMemory, Fcyc

Pages of four bytes, words of three, so that most accesses straddle two pages. `FlatMemory`
says: what was written is read; what was not written since the reset is anything, or ends the
program if such reads are checked. Times of `Fcyc` are clock ticks out of a small set;
`Abandon` is the driver's `longjmp`.

### Transpose

Matrices are the flat arrays they are in C, so an index past the end of a row falls where it
does there. A step copies one element. `Stray` is a function its author may register that does
one wrong write, or kills the process that runs it; since `test-trans.c:92` looks only at
`WEXITSTATUS`, that may count as valid. The simulator's counts are good, unreadable or missing.

### Rio, Parseline, Bits

A byte of `Rio` is its position in the stream. `Parseline` takes lines made of words (with and
without quotes) and separators and works in the buffer, NULs included. `ReadsAsWritten` says what a
line means without the parser's state machine: `WellFormed` is the form the header gives, and
`ParsedAsWritten` that words, files and `&` are all found where the line has them; it speaks of
lines whose words leave `argv` room (`Fits`), and `ReadsEveryLine` of all. `Bits` has words of
eight bits and floats of 1 + 4 + 3; signed overflow is taken to wrap.

### Runtrace, Sdriver

A trace is the sequence of its lines. `runtrace` reads prompts, and answers the wrapped
shell while it waits for one; a job is one of the small programs, as a script of sends,
receives and signals to itself. The shell is `tsh.c` reduced to what can be seen from outside:
which jobs it has, whether it waits, which wrapped call it is at. Each is a process of its own;
sockets keep messages. `Timeout` is the alarm, `Interrupt` a Ctrl-C at the runner.
`Sdriver` compares outputs only as equal or not.

## Runs

| run | instance | shows |
|---|---|---|
| `tsh_safety` | `MAXJOBS = 2`, two pids, symmetric; about 110,000 states | the safety properties, with the inductive invariant `ShellInv`, and `ImplementsJobControl` |
| `tsh_live` | `MAXJOBS = 1`, two pids, with fairness; about 50,000 states | the liveness properties |
| `tsh_bgfg_race` | as `tsh_safety` | finding, see below |
| `proxy_safety` | two threads, two URIs, capacity 2, objects of 0, 1 or 2, three nodes; about 172,000 states | the list, its size, the mutex, the inductive invariant `ProxyInv`, `ImplementsLRU` |
| `proxy_live` | two threads, capacity 1 | `EveryConnectionCloses` |
| `proxy_unique`, `proxy_server_error` | as `proxy_safety` | findings |
| `queue` | three elements, two strings, one alarm, symmetric; one block, two levels of verbosity; four input files; about 440,000 states | the list and its fields, blocks, walks that end, `ImplementsQueue`; the harness after each command; the console |
| `queue_cycle` | the same | finding |
| `malloc` | 14 words, growth by 4, requests of 0, 1 and 5 words, three arrays of which two wrap; about 15,000 states | tags, lists, payloads, the fit, the checker, `ImplementsSegments` |
| `malloclab` | driver: a heap of 10 bytes, traces of up to four blocks; memory: two pages of four bytes; timer: `k` up to 3 of at most 5 samples; heaps of 18 and 22 words; about 285,000 states | the ranges, the verdict, `ImplementsFlat`, the timing, the two heaps |
| `programs` | simulator: 0 or 1 set bits, two lines, six accesses; matrices up to 6 by 6; six bytes sent through a pipe and a buffer of three; bytes; lines of up to three words and redirections, `MAXARGS` of 4; fifteen of the lab's traces; three traces with up to three iterations; about 148,000 states | one or two properties for each program, `RowsSound` among them |

Seven properties state what the repository says and the code does not do, and no run keeps
them: `VictimIsLRU` is violated when it takes the place of the properties in `MCPrograms.cfg`, and
`ReadsEveryLine` there with `MAXARGS = 3`; `NoOverlapAccepted` and `ReallocKeepsPayload` in `MCMalloclab.cfg`; and `AtLeastAsAsked`, `NeverTraps` and
`ConsistentHeapPasses` in `MCMalloc.cfg` with `Requests <- HugeRequests` and
`Arrays <- EmptyArray` (one at a time, or with `-continue`, until a wrapped request has
overwritten the heap).

Every property of a passing run is violated when one definition is replaced by one of its
mutants; `PROJECT.json` lists the pairs.

Why the bounds are enough for what is asked. Two children and two slots give every order
of two jobs (list, stop, resume, end, pid reuse), deletion out of order, and with one slot a
full list and an unlisted child. A pid that was reaped is handed out again. Two proxy
threads give one walker and one thread that relinks or frees under it; capacity 2 with objects
of 0, 1 and 2 gives evictions of none, one and two objects, empty ones among them; two URIs give copies
and misses. Empty objects are never evicted for their size and any number of them fit, so `Slots`
is the memory there is: three nodes hold a full list and the one being inserted, and when none is
left `Malloc` ends the process (`CreateFails`). With `MAXARGS` of 4 every line of three words
fits, and a third word fills the array.
Six accesses to two-line sets give fills, hits in both places and three or more
replacements in one set, with stores before and after each. Three elements are the fewest
for which `q_reverse` turns a link that is neither first nor last; one alarm is enough: no
property speaks of a queue after an alarm until it is freed, and the queues made after it start
with whatever leaked. Fourteen words hold up to six minimum blocks, all four ways of merging,
a heap that grows by more than its chunk, one that cannot grow, and lists of blocks of
different sizes; every branch of `coalesce_block`, `split_block` and `delete_block` is reached.
The older heaps need a little more for their footers. Four ranges make `tree_remove` replace a node by a successor that is not its child, and every rotation of `splay`
happens. A page count of two with a heap of three pages makes the pool run dry. A pipe, a
buffer and counts that are all different, and smaller than what is sent, cut the stream
everywhere. The matrices are the sizes the special cases are for, squares and oblongs, with
blocks that fit and that stick out. Two-digit exponents are not needed to reach all cases of a
float: with four bits there are denormals, normal numbers, infinities and NaNs, and with three
bits of fraction every way of rounding.

Fairness. In `Tsh`, `main` goes on whenever it is not at the prompt or asleep, and the kernel
delivers an unblocked pending signal before it returns to user code; `sigsuspend` returns
once handlers are through (strong, because signals may arrive again and again while it is
about to); a program with SIGINT's default action dies of a pending SIGINT. Nothing is
assumed of the user, and nothing else of the children. In `Proxy`, every thread runs and a
server that was reached answers and closes; nothing is assumed about who gets the mutex.
`Csim`, `Qtest` and `Malloc` are sequential: that the queue's loops end is the safety
property `WalkEnds`, and no fairness is assumed; so are `Harness`, `Console`, `Mdriver`, `SparseMemory`,
`Fcyc`, `Transpose`, `Rio`, `Parseline` and `Sdriver`. In `Runtrace` the runner, the shell and the
jobs are processes: each runs in the end if it can (`ProgramsFairness`), which includes that
the alarm goes off when nothing else happens; nobody has to interrupt the runner.

Deadlock is checked for the shell, the proxy and the queue. The allocators stop after a trap
or when no request can be made, and the compositions when their program has ended.

## Findings

* `tsh_bgfg_race`: `do_bgfg` checks the job, unblocks, blocks again, and calls `job_get_pid`; if
  the job ended in between, the shell aborts.
* `proxy_unique`: two threads store the same URI.
* `proxy_server_error`: a read error after the first bytes ends the proxy.
* `VictimIsLRU`: a fill sets its counter to the top without lowering the others, so counters tie
  and the first line of the row is replaced even when it was used last.
* `queue_cycle`: `q_insert_tail` follows `tail` before it asks whether the queue is empty. On
  a new queue that is a null pointer; on an emptied one it is the freed last element, and if
  `malloc` has just returned that address the element is linked to itself.
* `ReallocKeepsPayload`: `realloc` of `mm_copy_copy.c` copies `get_payload_size` bytes (lines 1297-1301), which
  leaves room for a footer that allocated blocks do not have; the last word of a full block is lost.
* `ReadsEveryLine`: `parseline` stops at `MAXARGS - 1` words; with `MAXARGS` of 3, the error in
  `x x >&` goes unnoticed, as do redirections and `&` after so many words. `tsh_helper.h:94` promises
  `MAXARGS` arguments.
* `NoOverlapAccepted`: `add_range` compares a new block with the ranges before and after it, but
  finds the one after only through the one before: below all others nothing is compared.
* `AtLeastAsAsked`, `NeverTraps`, `ConsistentHeapPasses`: a request of almost `SIZE_MAX` bytes wraps and gets the smallest block;
  `calloc` of zero elements divides by zero; `check_freelist` fails or crashes on consistent
  heaps with free blocks.

Found while modelling, and in the models where a property needs it:

* `proxy.c`: an empty response is stored (lines 224-235), and from then on the URI is answered
  with nothing out of the cache.
* `rec10e/mm.c:251` looks for the footer beyond the block's end. `mm_copy.c` follows a null pointer in `mm_init`.
* `mdriver.c`: a timeout between two evaluations frees the range set twice, and does not read
  the trace again as the comment at line 299 says. `memlib.c`: `mem_deinit` unmaps the heap, not
  the table of pages, in sparse mode. `fcyc.c`: samples of zero are neither kept nor counted,
  so a clock that stands still never ends the loop.
* `runtrace.c`: the alarm for the shell's end stays armed; an interrupt between `fork` and
  `setsid` leaves a shell behind; the end of the file at a `NEXT` exits 0. In `trace08` a job
  reaped after the last `NEXT` leaves the shell waiting until the alarm. `sdriver.c`: several ways
  out leave temporary files.
* `harness.c`: `siglongjmp` into a function that has returned; an alarm that comes late is not
  counted. `qtest.c`: `show_queue` clears the error flag (line 417), `show` takes over stale
  errors, `size` goes on with a bad number (lines 370-372), quitting ignores errors of `q_free`.
* `console.c`, `report.c`: the log is closed and its pointer kept; a failing `time` counts an
  error twice; after an error the helpers of `quit` are skipped; numbers are cut to an `int`.
* `parseline`: `a < < b` is accepted; a lone `&` is a background command of no arguments.
* `bits.c`: `floatUnsigned2Float` loses a carry (line 493) and shifts by 32 (line 488).
* `tracegen-ct.c`: the check of `A` uses `M` and `N` the wrong way round (line 59); without `-F`, `B`
  is not cleared between functions, so one that does nothing passes. `test-trans.c`: a simulation
  that fails for a later function makes the submission incorrect (line 116); unreadable
  counts leave it correct with a full score (lines 124-127); a function that kills its process may
  count as valid (line 92).

Deviations the models reach and no run asks about: a child that did not fit in the job list
and then stops makes `sigchld_handler` call `job_set_state(0, ST)`, which aborts
(`abort_job_set_state`); `add_job` fails when the highest ID is in use although lower ones are
free; Ctrl-C or Ctrl-Z before the child's `setpgid` reaches nobody (`SignalForeground`); a
URI without a path ends the proxy (`ParseNoPath`); `csim -s 0` with `-b` above 0 leaves the
rows (`OutOfRows`).

## Proofs

The theorems are in `TshProofs`, `CacheListProofs`, `ProxyProofs`, `CsimProofs`, `QtestProofs`,
`RioProofs`, `MallocProofs` and `Sdriver`. The only assumptions are the named ones on the constants:
`JobListAssumption` (`MAXJOBS > 0`, `NoPid` is no pid), `CacheListAssumption` (finitely many
nodes, all different from each other and from `NULL`), `ProxyAssumption` (an object fits in the
cache, and a full cache and an object more in a `size_t`), `CsimAssumption` (a line, and
addresses of more bits than `s + b`), `QtestAssumption` (finitely many elements, and `NULL` is
neither an element nor a string), `RioAssumption` (a buffer, and counts above 0: a
`rio_readlineb` of 0 bytes would write its NUL into a buffer of no bytes), `HeapAssumption` and
`MallocAssumption` (room for prologue and epilogue, an even chunk, at least two lists, more
addresses in a `size_t` than words of memory, and program data that is neither a tag nor a pointer), and `SdriverAssumption` (at least one
trace and at least one iteration, which `sdriver.c:133-137` sees to). TLC evaluates them in the
runs.

### Tsh

`TshProofs` first states what each list operator returns: the first or last index of a
set of slots, `fg_job`, `job_from_pid`, `maxjid`, `add_job`, `delete_job`. It then proves
`Spec => []ShellInv` (`ShellInvariant`) for every `MAXJOBS` and every set of pids, and from it
the properties the run checks.

`AtMostOneFg`, `JobsAreChildren` and `AddJobNeverAborts` are not inductive by themselves.
`OnlyWaitingHasFg` and `NextJidIsFree`, which are parts of `TshInv`, are not either.
`TshInv` adds: where `main` is, no handler runs (`HandlersKeepOut`), and what it has in hand is
still good (`CommandInHand`): the child it forked has not been reaped nor listed, because
`eval` blocked signals before `fork`. `OnlyWaitingHasFg` gives `add_job` and
`job_set_state` their precondition, and `NextJidIsFree` makes the slot `add_job` takes a free
one, which needs that `delete_job` recomputes `nextjid` from `maxjid`.

`ShellInv` is `TshInv` with `ChildrenInv`: no child is forgotten, SIGCHLD suffices, and a job is
ST when its process was seen to stop. These need `OnlyNewIsUnlisted` to be preserved: between
`fork` and `add_job` the one child that is neither listed nor given up is the one in hand,
and it has not stopped. The proof has one lemma per kind of step, for each half of the
invariant; most steps of `main`, the handlers and the kernel leave the list alone
(`QuietMainInv`, `QuietHandlerInv`, `ChildInv`), the others use the lemmas on the list.

`RefinesJobControl` (`Spec => ImplementsJobControl`) maps every step to one of `JobControl` or to a
stutter. Only five kinds of step change the table (`MapsAddJob`, `MapsBgFgAct`,
`MapsReapZombie`, `MapsReapStop`, `MapsDestroy`), and a step that takes a command needs the
invariant: no job is in the foreground then.

### Proxy

`ProxyProofs` proves `Spec => []ProxyInv` (`ProxyInvariant`) for any number of threads, keys and
nodes and any capacity, then `CacheIsConsistent`, `OnlyWholeResponses` and `RefinesLRU`.
`OnlyWholeResponses` compares two things that are counted apart: a node about to go on the list is as
large as all the server sent, empty answers included. It needs that the relay loop's `total`
follows `sent` until `mask` is set, and that a read error either sets `mask` or ends the process.

`CacheConsistent` speaks of moments when nobody has the mutex, so it needs an invariant for
each place inside the critical sections. The proof goes through `IInv`: who has a node in hand and
that this is the thread with the mutex (`Holders`); the nodes that are allocated and in nobody's
hand are exactly those between HEAD and TAIL; `list_size` is the sum of the sizes, up to the
node that is new (`SizeKept`); the eviction loop stands at the last object and is needed
(`EvictsLast`). A step under the mutex is proved from `Alone`, what all this says to the one thread
that may change the list (`EnterAlone`, `LeaveAlone`); every other step leaves the
list alone (`QuietCacheInv`). That the loop never reaches HEAD is `EvictState`: an empty list
has size 0, and any object fits in it.

`ListOf` is a walk by a recursive function. The prover has no induction for it, so
`CacheListProofs` says that a list is well linked by a numbering of its nodes (`IsChain`) and
proves, by a least counterexample, that the walk then visits them in order (`ListOfChain`); from
there on `Unlink` and `PushFront` are changes of the numbering. In the same way
`TotalIsSizeOf` shows that the sum along the list is the sum over the set of its nodes: were
there a shortest prefix for which it is not, the one before it would be another. What the run
checks, `WellLinked`, follows from `IsChain` (`ChainIsWellLinked`).

`RefinesLRU` adds `Sections` to the invariant: what the list has become since the mutex was taken,
as a function of what it was then. Taking the mutex is then a stutter, and releasing
it the whole step of `LRUCache` that the section stands for: a hit moves the first copy of the key to the
front, an insertion drops the fewest objects from the end that make room.

### Csim, Sdriver

`RowsStaySound` proves `RowsSound` for every row of every cache and traces of any length. A
counter is lowered at every replacement, so that none falls below 0 is not inductive;
`Spread` is: at most `n` lines of a row have a counter below `n`. After a replacement lowers all,
the line that held the least, 0 or more by `Spread` at 0, is the only one that may have gone below,
and it is the one set back to the top (`VictimIsLeast`, `ReplaceKeepsRow`). `CountersStay` is the
part about the counters.

`ScoreStaysWhole` proves the grader's score from what holds between two iterations (`SInv`): the
traces before `i` have their final result, trace `i` has only successes so far, and the score
is `num_iters` times the number of traces that passed.

### Qtest

`QtestProofs` proves `Spec => []QueueInv` (`QueueInvariant`) for any set of elements, any strings
and any number of alarms, and from it `ListMatchesFields`, `NothingLeaks`, `WalkEnds`, that no
operation on a queue nothing has gone wrong with touches a freed element, and that the queue
implements `StringQueue`.

The properties speak of the time between two commands, or of what a walk sees; the fields and
links are not in step in the middle of an insertion, a removal or `q_reverse`. `QueueInv` says for each
`pc` what is off, and by how much: the elements of the list can be numbered from 1 to `n`, all different, each linked to
the next (`Links`), and `size`, `qcnt`, `head` and `tail` are what they are for the `n` there would be
at this place (`Counts`, `Heads`, `Tails`), with the element in the operation's hands (`Hands`). In
`q_reverse` the links up to the `k`-th lead back and the others forward (`HalfTurned`), and when the
last has been turned the numbering is read backwards (`Backwards`). What is allocated is what is numbered
and what is in hand (`Blocks`).

After a `q_insert_tail` into an emptied queue (see Findings) the list may end in a freed element, or
lead back into itself; the invariant keeps the numbering for it, with an end `e` that need not be
`NULL`, because `NothingLeaks` still speaks of such a queue. A `q_reverse` of a list without an end never
ends; all it needs is that no link becomes `NULL` (`Endless`). Of a queue that an alarm cut off, nothing is said
but the types.

`Walk` is a recursive function. `WalkOfLinks` shows, by a least counterexample, that it visits the numbered
elements in order and then their end. `QueueImplements` follows the strings by the number of their element: `before` is
the list of them when the command began (`Shown`), and what the walk shows when it returns is `before` with a
string put in front, put behind, taken off, or all turned around (`FirstAndRest`, `RestAndLast`,
`TheOtherWay`).

### Rio

`StreamDelivers` proves `RioDelivers` for every size of the buffer and of the pipe, every count and any
newlines. It is about sequences that are put together from three parts; the invariant `RioInv`
says of each position where it is instead (`Positions`): what calls gave is `1..g`, what lies from
`rio_bufptr` to the end of the buffer are the bytes after that, what is in the kernel the bytes
after those, up to `w_bufp`. The buffer's index never wraps because `rio_bufptr + rio_cnt` stays within it.
`Promise` says that a call never has more than it was asked for, that no newline was passed, and why
one that returned did; that the stream's end is a matter of the sender having closed needs that
it closes only between two calls of `rio_writen`.

### Malloc

`MallocProofs` proves `NoWrap /\ Spec => []HeapConsistent` (`HeapStaysConsistent`) and the same for
`PayloadIntact` (`PayloadsStay`), `ServesProgram` and `CheckerCatches` for every size of the memory, every chunk and number of lists, and any
requests. `NoWrap` says that no request comes within two words of `SIZE_MAX`: without it
`adjusted` wraps and the block is too small, which is the finding `AtLeastAsAsked`. Products of
`calloc` may wrap as they like; `ExactProduct` shows that its division notices.

The invariant `HeapInvariant` says that there is a set of blocks for which all of this holds
(`Good`): they tile the heap from `heap_start` to the epilogue (`Tiled`); what a header says of the block
before it, and a footer of its own, is so (`Tagged`); no two free blocks are neighbours
(`Merged`); each list can be numbered, linked both ways except in list 0, and holds just the free blocks
of its sizes (`Listed`). In the middle of a call none of this is true: a block that was freed has the
tags of a free block and is in no list, or the header after it still calls it used. So the parts take a set
`X` of blocks they make no claim about, and the lemmas on the helpers say what becomes of
each: `InsertBlock` and `DeleteBlock` change the numbering of one list and leave everything but
its links alone; `Reshape` replaces the blocks of a stretch by others that tile the same stretch,
which is a split, a merge and a growth alike; `Coalesce` has the four cases of `coalesce_block`. That a
minimum block's predecessor is found by a search of its list, and a free block's by a footer
that used blocks do not have, is where the tags are needed.

For the payloads each lemma also says that no word of a used block changes except those of the block
in hand (`KeepsUsed`), and `Owned` that every pointer of `live` is to a block of its own.
`WalkMeetsBlocks` and `FreeListOf` show, by least counterexamples, that the recursive walks that the run evaluates
meet exactly these blocks.

`ProgramStaysServed` adds that a refusal is justified: `find_fit` finds a block in the numbered lists if any
is large enough (`NoFit`), so a request that is refused was refused by `mem_sbrk`, and what the blocks add up to
is what the heap has (`TotalOfBlocks`). `CheckerIsSharp` proves `CheckerCatches`: the checker's walk over a heap with one
damaged word still meets the blocks (`CheckedMeetsBlocks`, `SameSizesTile`), because the damage leaves every size as it
was, and one of the tests it makes of each then fails (`FooterCaught`, `FreeMarkCaught`).

`SegmentsRefined` proves `ImplementsSegments`: the first heap is one of `Segments`, and each call of `malloc`, `calloc`, `free`
or `realloc` takes, splits, merges and grows segments as `Segments` says for the size it was asked for. The
abstract state is `Shown(heap)`, the segments of the blocks the walk meets; by `WalkMeetsBlocks` they are those of any
set of blocks that tiles the heap (`Segs`), so each lemma on a helper says what it does to them: the links
and the payloads change none (`TagsSegs`, `Store`), `SplitBlock` takes one (`Takes`), `Coalesce` gives one back
(`Regains`), whether its block is still marked used in the abstract state (`free`) or new (`extend_heap`). Two of the
abstract definitions need an argument of their own. `Total` adds up a set in an order nobody fixed, so `TotalIs` shows that
any function that takes a set apart one by one is that sum, and `TotalOfCovering` that the number of words is one; with it
the merged segment has the size of the stretch it covers (`GivenIs`) and `End` is the epilogue (`EndIs`). And `After` lets a
grown heap take only its last segment, which is the one `coalesce_block` returns (`Grows`, `AllotsGrown`).

### Only model-checked

Liveness and `ENABLED` are outside the prover's reach. `Csim`'s type invariant and
`ImplementsCache` need facts on powers of two (the shifts by `s` and `b`) that are inductions over
them; what the older allocators, `Splay`, `Mdriver` on top of it, `Parseline`, `Bits` and
`Transpose` compute is defined by recursion over their data. For these, and for `SparseMemory`,
`Fcyc` and `Runtrace`, the runs are the evidence, within their bounds. `Harness` and `Console` have
no proofs yet.

## Not modelled

* `mm_copy.c`: it follows a null pointer in `mm_init`, so no later state is one the program can be in.
  `mm-naive.c` only moves the break.
* `csim1.c`, `csim2.c`, `asd.c`, `trans1.c`, `tsh_copy.c`: drafts that the Makefiles do not build.
* `btest.c`, `clock.c`, `fshow.c`, `ishow.c`, the option parsing and output of every program: no order
  of events and no state that anything else reads.
* `tiny/`, `pxy/`, `csapp.c` of the shell, bombs and targets: third-party code, or binaries.
* Within modelled programs: header texts and `parse_uri`'s results, `Malloc` failing outside
  `create_node`, redirected files, SIGTSTP
  during `cleanup`, polling of `ps` in the traces, utilization and throughput as numbers.

## Plan

Done, in this order: `JobList`, `Tsh` with `JobControl` and its proofs; `CacheList`, `Proxy`
with `LRUCache`; `Csim` with `WriteBackCache`; `Qtest` with `StringQueue`; `Heap`, `Malloc` with
`Segments`; then `mm_checkheap`, `calloc` and wrapping sizes; the driver with `Splay`; `SparseMemory`
with `FlatMemory`; `Fcyc`; the older heaps; `Runtrace`, `Sdriver`, `Parseline`; `Harness`, `Console`; `Rio`;
`Bits`; `Transpose`.

Then the theorems: `Tsh` with its refinement, `Proxy` with its refinement, `Csim`, `Sdriver`,
`Qtest` with its refinement, `Rio`, `Malloc` with its refinement.

Next: `Harness` and `Console` (`HarnessIsReset`, `ConsoleKeepsTrack`).
