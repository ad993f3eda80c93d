-------------------------- MODULE ProxyProperties --------------------------
(***************************************************************************)
(* What the proxy must satisfy: the shape of the shared list, the order of *)
(* eviction, and that a connection is answered and closed.                 *)
(***************************************************************************)
EXTENDS Proxy

Unlocked == mutex = Nobody /\ ~crashed

(* Whenever the mutex is free, the list is well formed and the nodes on it *)
(* are exactly the allocated ones: none is leaked and none is used after   *)
(* it was freed, whatever the unlocked walkers do.                         *)
ListWellFormed == Unlocked => WellLinked(mem, allocated)

(* list_size counts what is on the list and never exceeds MAX_CACHE_SIZE,  *)
(* so that the test "does it fit" is about the list as it is.              *)
SizeIsCounted ==
  Unlocked =>
    /\ list_size = SizeOf(mem, allocated)
    /\ list_size <= MAX_CACHE_SIZE

(* Only the holder of the mutex changes the list, and no two threads are   *)
(* in get_value or in the second half of write_node at once.               *)
Locked(t) == pc[t] \in {"find", "relink", "create", "fit", "evict"}
MutexProtectsList ==
  /\ \A t \in Threads : Locked(t) <=> mutex = t
  /\ mutex = Nobody => \A t \in Threads : loc[t].node = NULL

(* Eviction stops at the last object: it never reaches HEAD, whose null    *)
(* prev delete_node would follow, because list_size falls to 0 with the    *)
(* last object and an object is never larger than the cache.               *)
EvictsObjects ==
  \A t \in Threads : pc[t] = "evict" => loc[t].at \in allocated \ {loc[t].node}

(* The shared list between and inside the critical sections: its shape,    *)
(* its size, the holder of the mutex, and eviction that ends before HEAD   *)
(* (cache.c).                                                              *)
CacheConsistent ==
  /\ ListWellFormed
  /\ SizeIsCounted
  /\ MutexProtectsList
  /\ EvictsObjects

(* A response that was too large, or broken off by an error, is never      *)
(* stored, and the buffer counts all that the server sent: whoever looks   *)
(* whether the key is there, or makes a node, has the whole of it.         *)
StoresWhole ==
  \A t \in Threads :
    /\ ~loc[t].mask => loc[t].total = loc[t].sent
    /\ pc[t] \in {"scan", "put_lock", "create", "fit", "evict"} => ~loc[t].mask

(* Inside the critical sections: a hit is taken off the list and put back, *)
(* a new node is made and put on; list_size lags behind the list by the    *)
(* node that is new; the eviction loop always stands at the last object,   *)
(* and only while there is too little room.                                *)
Holding(t) == pc[t] \in {"relink", "fit", "evict"}
Adding(t)  == pc[t] \in {"fit", "evict"}

(* The node that is about to go on the list is as large as all that the    *)
(* server sent: write_node is never given a prefix of an answer, nor one   *)
(* the relay loop could not keep or that an error broke off.  An answer of *)
(* no byte at all is stored, as an object of size 0 (proxy.c, doit).       *)
StoredAsSent ==
  \A t \in Threads : Adding(t) => /\ mem[loc[t].node].node_size = loc[t].sent
                                  /\ loc[t].sent <= MAX_OBJECT_SIZE

OnList  == allocated \ {loc[t].node : t \in Threads}
Counted == allocated \ {loc[t].node : t \in {u \in Threads : Adding(u)}}

Holders ==
  \A t \in Threads :
    /\ Locked(t) <=> mutex = t
    /\ IF Holding(t) THEN loc[t].node \in allocated ELSE loc[t].node = NULL

SizeKept ==
  /\ list_size = SizeOf(mem, Counted)
  /\ list_size <= MAX_CACHE_SIZE
  /\ \A t \in Threads : Adding(t) => mem[loc[t].node].node_size = loc[t].total

EvictsLast ==
  \A t \in Threads : pc[t] = "evict" => /\ list_size + loc[t].total > MAX_CACHE_SIZE
                                       /\ loc[t].at = mem[TAIL].prev

(* What the list has become since the mutex was taken (before): a hit has  *)
(* been taken off, the first with its key; or the objects at the end have  *)
(* been deleted.  A node that is not on it yet has the thread's key.       *)
SectionOf(t) ==
  /\ pc[t] \in {"find", "create", "fit"} => ObjectsOf(mem) = before
  /\ pc[t] = "relink" =>
       \E i \in DOMAIN before :
         /\ before[i] = [key |-> mem[loc[t].node].key, size |-> mem[loc[t].node].node_size]
         /\ before[i].key = loc[t].key
         /\ \A j \in DOMAIN before : before[j].key = loc[t].key => i <= j
         /\ ObjectsOf(mem) = RemoveAt(before, i)
  /\ pc[t] = "evict" => \E n \in 0..Len(before) : ObjectsOf(mem) = SubSeq(before, 1, n)
  /\ Adding(t) => mem[loc[t].node].key = loc[t].key
  /\ pc[t] # "idle" => loc[t].key \in Keys

Sections == \A t \in Threads : SectionOf(t)

(* The invariant that every step of every thread preserves (cache.c,       *)
(* get_value and write_node; proxy.c, doit): the list holds at every step  *)
(* what it should, and what is about to be stored is whole.                *)
ProxyInv ==
  /\ TypeOK
  /\ Holders
  /\ WellLinked(mem, OnList)
  /\ SizeKept
  /\ EvictsLast
  /\ StoresWhole
  /\ Sections

(* Once nobody connects any more, every connection is closed and its       *)
(* thread ends: no walk of the list and no wait for the mutex goes on for  *)
(* ever.  The exceptions are a process that dies, and a walker that reads  *)
(* a node another thread has freed: nothing is known of where it goes.     *)
Lost(t) == pc[t] = "scan" /\ loc[t].at \in Slots \ allocated
EveryConnectionCloses ==
  ~clients ~> \/ crashed
              \/ \A t \in Threads : pc[t] = "idle"
              \/ \E t \in Threads : Lost(t)

-----------------------------------------------------------------------------
(* What the repository says and the code does not keep.                    *)

(* tests/D15-unique1.cmd:1 tests that the cache "holds at most one copy of *)
(* a file": two threads that missed the same key both find it absent, and  *)
(* each stores its own copy.                                               *)
AtMostOneCopy ==
  Unlocked => \A m, n \in allocated : mem[m].key = mem[n].key => m = n

(* tests/README.txt:7 lists the "ability of proxy to continue after error  *)
(* occurs"; rio_readnb's -1 is kept as a size_t, and after a first byte    *)
(* the sum wraps to a small number and memcpy is given the large one.      *)
SurvivesServerError == [][\A t \in Threads : RelayRead(t, SIZE_T - 1) => ~crashed']_vars

-----------------------------------------------------------------------------
(* The cache as its clients see it: a critical section shows its effect    *)
(* when the mutex is released.                                             *)
Objects == IF mutex = Nobody THEN ObjectsOf(mem) ELSE before

LRU == INSTANCE LRUCache WITH
         objects <- Objects, Capacity <- MAX_CACHE_SIZE, MaxSize <- MAX_OBJECT_SIZE

(* Every critical section takes effect at once, as a step of LRUCache.     *)
ImplementsLRU == LRU!Spec
=============================================================================
