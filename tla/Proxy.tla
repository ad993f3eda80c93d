------------------------------- MODULE Proxy -------------------------------
(***************************************************************************)
(* The caching web proxy (proxy.c, cache.c): main accepts connections and  *)
(* gives each to a thread of its own; a thread answers one GET, from the   *)
(* cache or from the server, and stores what it relayed.  The threads      *)
(* share the list of CacheList and one mutex.                              *)
(*                                                                         *)
(* get_value and the second half of write_node hold the mutex.  The first  *)
(* half of write_node walks the list without it: each of its iterations is *)
(* a step, and so is each change of the links another thread makes that a  *)
(* walker can see.  A walker that follows a node which has been freed      *)
(* reads whatever the memory holds: every continuation is possible.        *)
(***************************************************************************)
EXTENDS CacheList

CONSTANTS Threads,
          Nobody,            \* holds the mutex when no thread does
          MAX_CACHE_SIZE,
          MAX_OBJECT_SIZE,
          MAXLINE,           \* bytes asked of the server at a time
          SIZE_T             \* number of values of size_t

ASSUME ProxyAssumption ==
  /\ MAX_CACHE_SIZE \in Nat /\ MAX_OBJECT_SIZE \in Nat
  /\ MAXLINE \in Nat \ {0} /\ SIZE_T \in Nat
  /\ MAX_OBJECT_SIZE <= MAX_CACHE_SIZE
  /\ MAX_OBJECT_SIZE + MAXLINE < SIZE_T
  /\ MAX_CACHE_SIZE + MAX_OBJECT_SIZE < SIZE_T
  /\ Nobody \notin Threads

VARIABLES
  mem, allocated,  \* the nodes, and the slots malloc has given out
  list_size,       \* DLlist.list_size
  mutex,
  pc, loc,         \* where each thread is, and its locals
  crashed,         \* the process is gone
  clients,         \* FALSE once nobody connects any more
  before,          \* history: the objects when the mutex was taken
  last             \* history: the last thing done to the cache

list == <<mem, allocated, list_size>>
history == <<before, last>>
vars == <<list, mutex, pc, loc, crashed, clients, history>>

PC == {"idle", "request", "get_lock", "find", "relink", "connect", "relay",
       "scan", "put_lock", "create", "fit", "evict", "done"}

(* key: the URI; total, mask: of the relay loop; node: found or created;   *)
(* at: the node a loop of write_node has come to.  sent is history: how    *)
(* much the server has sent, where TooMuch is also an answer broken off.   *)
Blank == [key |-> NULL, total |-> 0, mask |-> FALSE, sent |-> 0, node |-> NULL, at |-> NULL]
TooMuch == MAX_OBJECT_SIZE + 1
Locals == [key : Keys \cup {NULL}, total : 0..MAX_OBJECT_SIZE, mask : BOOLEAN,
           sent : 0..TooMuch, node : Pointers, at : Pointers]

TypeOK ==
  /\ mem \in [Nodes -> Node]
  /\ allocated \subseteq Slots
  /\ list_size \in 0..(SIZE_T - 1)
  /\ mutex \in Threads \cup {Nobody}
  /\ pc \in [Threads -> PC]
  /\ loc \in [Threads -> Locals]
  /\ crashed \in BOOLEAN
  /\ clients \in BOOLEAN

Init ==
  /\ mem = init_cache
  /\ allocated = {}
  /\ list_size = 0
  /\ mutex = Nobody
  /\ pc = [t \in Threads |-> "idle"]
  /\ loc = [t \in Threads |-> Blank]
  /\ crashed = FALSE
  /\ clients = TRUE
  /\ before = << >>
  /\ last = [op |-> NULL, key |-> NULL]

Goto(t, from, to) == /\ ~crashed
                     /\ pc[t] = from
                     /\ pc' = [pc EXCEPT ![t] = to]
Set(t, field, value) == loc' = [loc EXCEPT ![t][field] = value]

Lock(t) ==
  /\ mutex = Nobody
  /\ mutex' = t
  /\ before' = ObjectsOf(mem)
  /\ UNCHANGED last

(* The mutex is released when op has been done with the thread's key.      *)
Unlock(t, op) ==
  /\ mutex' = Nobody
  /\ before' = << >>
  /\ last' = [op |-> op, key |-> loc[t].key]

Crash ==
  /\ crashed' = TRUE
  /\ UNCHANGED <<list, mutex, pc, loc, clients, history>>

-----------------------------------------------------------------------------
(* main: accept a connection and start a thread for it.                    *)
Accept(t, uri) ==
  /\ clients
  /\ Goto(t, "idle", "request")
  /\ Set(t, "key", uri)
  /\ UNCHANGED <<list, mutex, crashed, clients, history>>

(* accept failed: the process exits, whatever its threads are doing.       *)
AcceptFails == ~crashed /\ clients /\ Crash

(* thread: close the connection and end.                                   *)
Close(t) ==
  /\ Goto(t, "done", "idle")
  /\ loc' = [loc EXCEPT ![t] = Blank]
  /\ UNCHANGED <<list, mutex, crashed, clients, history>>

(* doit: anything but GET is answered with an error.                       *)
Refuse(t) ==
  /\ Goto(t, "request", "done")
  /\ UNCHANGED <<list, mutex, loc, crashed, clients, history>>

(* parse_uri: a URI without a path after the host ends the process, since  *)
(* strstr returned NULL.                                                   *)
ParseNoPath(t) ==
  /\ ~crashed
  /\ pc[t] = "request"
  /\ Crash

ParseGet(t) ==
  /\ Goto(t, "request", "get_lock")
  /\ UNCHANGED <<list, mutex, loc, crashed, clients, history>>

(* get_value: look the key up under the mutex.  A hit is moved to the      *)
(* front in two steps, then copied, and the mutex is released.             *)
GetLock(t) ==
  /\ Goto(t, "get_lock", "find")
  /\ Lock(t)
  /\ UNCHANGED <<list, loc, crashed, clients>>

FindMiss(t) ==
  /\ NodeWithKey(mem, loc[t].key) = NULL
  /\ Goto(t, "find", "connect")
  /\ Unlock(t, "miss")
  /\ UNCHANGED <<list, loc, crashed, clients>>

FindHit(t) ==
  LET node == NodeWithKey(mem, loc[t].key)
  IN  /\ node # NULL
      /\ Goto(t, "find", "relink")
      /\ mem' = Unlink(mem, node)
      /\ Set(t, "node", node)
      /\ UNCHANGED <<allocated, list_size, mutex, crashed, clients, history>>

Relink_not(t) ==      \* mutant: a hit does not become the most recent
  /\ Goto(t, "relink", "done")
  /\ LET n == loc[t].node
     IN  mem' = [mem EXCEPT ![mem[n].next].prev = n, ![mem[n].prev].next = n]
  /\ Unlock(t, "hit")
  /\ Set(t, "node", NULL)
  /\ UNCHANGED <<allocated, list_size, crashed, clients>>
Relink(t) ==
  /\ Goto(t, "relink", "done")
  /\ mem' = PushFront(mem, loc[t].node)
  /\ Unlock(t, "hit")
  /\ Set(t, "node", NULL)
  /\ UNCHANGED <<allocated, list_size, crashed, clients>>

-----------------------------------------------------------------------------
(* doit, on a miss: connect to the server; without one the connection is   *)
(* closed and the client gets nothing.                                     *)
ConnectFails(t) ==
  /\ Goto(t, "connect", "done")
  /\ UNCHANGED <<list, mutex, loc, crashed, clients, history>>

Connect(t) ==
  /\ Goto(t, "connect", "relay")
  /\ UNCHANGED <<list, mutex, loc, crashed, clients, history>>

(* One turn of the relay loop with the result n of rio_readnb, which the   *)
(* code keeps in a size_t: -1 becomes SIZE_T - 1, and the sum wraps.  A    *)
(* copy longer than what is left of the buffer ends the process.           *)
RelayRead(t, n) ==
  LET total == loc[t].total
      small == (total + n) % SIZE_T <= MAX_OBJECT_SIZE
      sent  == IF loc[t].sent + n < TooMuch THEN loc[t].sent + n ELSE TooMuch
  IN  /\ ~crashed
      /\ pc[t] = "relay"
      /\ IF small /\ n > MAX_OBJECT_SIZE - total
         THEN Crash
         ELSE /\ loc' = IF small THEN [loc EXCEPT ![t].total = total + n, ![t].sent = sent]
                                 ELSE [loc EXCEPT ![t].mask = TRUE, ![t].sent = sent]
              /\ UNCHANGED <<list, mutex, pc, crashed, clients, history>>

(* The server has closed: what was relayed is stored unless it was too     *)
(* large.  No byte at all is stored as well, as an object of size 0.       *)
RelayEnd_unmasked(t) ==    \* mutant: the mask is not looked at
  /\ Goto(t, "relay", "scan")
  /\ Set(t, "at", mem[HEAD].next)
  /\ UNCHANGED <<list, mutex, crashed, clients, history>>
RelayEnd(t) ==
  /\ Goto(t, "relay", IF loc[t].mask THEN "done" ELSE "scan")
  /\ Set(t, "at", IF loc[t].mask THEN NULL ELSE mem[HEAD].next)
  /\ UNCHANGED <<list, mutex, crashed, clients, history>>

-----------------------------------------------------------------------------
(* write_node, first half: is the key there?  No mutex is held.            *)
ScanNext(t) ==
  /\ loc[t].at \in allocated
  /\ mem[loc[t].at].key # loc[t].key
  /\ Goto(t, "scan", "scan")
  /\ Set(t, "at", mem[loc[t].at].next)
  /\ UNCHANGED <<list, mutex, crashed, clients, history>>

ScanFound(t) ==
  /\ loc[t].at \in allocated
  /\ mem[loc[t].at].key = loc[t].key
  /\ Goto(t, "scan", "done")
  /\ Set(t, "at", NULL)
  /\ UNCHANGED <<list, mutex, crashed, clients, history>>

ScanEnd(t) ==
  /\ loc[t].at = TAIL
  /\ Goto(t, "scan", "put_lock")
  /\ Set(t, "at", NULL)
  /\ UNCHANGED <<list, mutex, crashed, clients, history>>

ScanNull(t) ==
  /\ ~crashed
  /\ pc[t] = "scan"
  /\ loc[t].at = NULL
  /\ Crash

(* The node was freed under the walker.                                    *)
ScanFreed(t) ==
  /\ ~crashed
  /\ pc[t] = "scan"
  /\ loc[t].at \in Slots \ allocated
  /\ \/ Crash
     \/ /\ pc' = [pc EXCEPT ![t] = "done"]
        /\ Set(t, "at", NULL)
        /\ UNCHANGED <<list, mutex, crashed, clients, history>>
     \/ /\ \E n \in Pointers \ {HEAD} : Set(t, "at", n)
        /\ UNCHANGED <<list, mutex, pc, crashed, clients, history>>

(* write_node, second half, under the mutex: make the node; put it in      *)
(* front if it fits, else delete from the tail until it does.              *)
PutLock(t) ==
  /\ Goto(t, "put_lock", "create")
  /\ Lock(t)
  /\ UNCHANGED <<list, loc, crashed, clients>>

Create(t) ==
  /\ Goto(t, "create", "fit")
  /\ \E n \in Slots \ allocated :
       /\ mem' = [mem EXCEPT ![n] = create_node(loc[t].key, loc[t].total)]
       /\ allocated' = allocated \cup {n}
       /\ Set(t, "node", n)
  /\ UNCHANGED <<list_size, mutex, crashed, clients, history>>

(* create_node's Malloc ends the process when it gets no memory, at the    *)
(* latest when all slots are taken.                                        *)
CreateFails(t) ==
  /\ ~crashed
  /\ pc[t] = "create"
  /\ Crash

Insert(t, memory, size) ==
  /\ mem' = PushFront(memory, loc[t].node)
  /\ list_size' = size + mem[loc[t].node].node_size
  /\ Unlock(t, "insert")
  /\ loc' = [loc EXCEPT ![t].node = NULL, ![t].at = NULL]

Fit(t) ==
  /\ list_size + loc[t].total <= MAX_CACHE_SIZE
  /\ Goto(t, "fit", "done")
  /\ Insert(t, mem, list_size)
  /\ UNCHANGED <<allocated, crashed, clients>>

NoFit(t) ==
  /\ list_size + loc[t].total > MAX_CACHE_SIZE
  /\ Goto(t, "fit", "evict")
  /\ Set(t, "at", mem[TAIL].prev)
  /\ UNCHANGED <<list, mutex, crashed, clients, history>>

(* One turn of the eviction loop: delete lastone, then insert or go on     *)
(* with the node before it.  Deleting HEAD would follow its null prev.     *)
Evict(t) ==
  LET lastone == loc[t].at
      left == delete_node(mem, lastone)
      size == (list_size - mem[lastone].node_size) % SIZE_T
  IN  /\ ~crashed /\ pc[t] = "evict"
      /\ IF lastone = HEAD THEN Crash
         ELSE /\ allocated' = allocated \ {lastone}
              /\ IF size + loc[t].total <= MAX_CACHE_SIZE
                 THEN /\ Insert(t, left, size)
                      /\ pc' = [pc EXCEPT ![t] = "done"]
                 ELSE /\ mem' = left
                      /\ list_size' = size
                      /\ Set(t, "at", mem[lastone].prev)
                      /\ UNCHANGED <<pc, mutex, history>>
              /\ UNCHANGED <<crashed, clients>>

-----------------------------------------------------------------------------
NoMoreClients ==
  /\ clients
  /\ clients' = FALSE
  /\ UNCHANGED <<list, mutex, pc, loc, crashed, history>>

(* What a thread does by itself, whatever the server does.                 *)
Step(t) ==
  \/ Refuse(t) \/ ParseNoPath(t) \/ ParseGet(t)
  \/ GetLock(t) \/ FindMiss(t) \/ FindHit(t) \/ Relink(t)
  \/ ConnectFails(t) \/ Connect(t) \/ RelayEnd(t)
  \/ ScanNext(t) \/ ScanFound(t) \/ ScanEnd(t) \/ ScanNull(t) \/ ScanFreed(t)
  \/ PutLock(t) \/ Create(t) \/ CreateFails(t) \/ Fit(t) \/ NoFit(t) \/ Evict(t)
  \/ Close(t)

Relay(t) == \E n \in 1..MAXLINE \cup {SIZE_T - 1} : RelayRead(t, n)

(* Nothing is left to do.                                                  *)
Quiet ==
  /\ crashed \/ (~clients /\ \A t \in Threads : pc[t] = "idle")
  /\ UNCHANGED vars

Next ==
  \/ \E t \in Threads : Step(t) \/ Relay(t) \/ \E uri \in Keys : Accept(t, uri)
  \/ AcceptFails
  \/ NoMoreClients
  \/ Quiet

(* Every thread runs, and a server that was connected to answers and ends  *)
(* its answer.  Nothing is assumed of who gets the mutex.                  *)
Fairness ==
  \A t \in Threads : WF_vars(Step(t) \/ Relay(t)) /\ WF_vars(RelayEnd(t))

Spec     == Init /\ [][Next]_vars
FairSpec == Spec /\ Fairness
=============================================================================
