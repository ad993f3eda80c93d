----------------------------- MODULE ProxyProofs -----------------------------
(***************************************************************************)
(* Proofs about the proxy, for any number of threads, keys and slots and   *)
(* any sizes of cache, object and buffer: what is between HEAD and TAIL at *)
(* every step, that list_size counts it, that what is stored is whole, and *)
(* that the cache is, for its clients, an LRU cache.                       *)
(***************************************************************************)
EXTENDS ProxyProperties, CacheListProofs

(* ProxyInv without Sections, and with the nodes of the list numbered.     *)
CacheInv == Holders /\ IsChain(mem, OnList) /\ SizeKept /\ EvictsLast
IInv     == TypeOK /\ CacheInv /\ StoresWhole

(* What CacheInv says to the thread that has the mutex or may take it.     *)
Alone(t) ==
  /\ \A u \in Threads \ {t} : ~Locked(u) /\ loc[u].node = NULL
  /\ Locked(t) <=> mutex = t
  /\ IF Holding(t) THEN loc[t].node \in allocated ELSE loc[t].node = NULL
  /\ IsChain(mem, allocated \ {loc[t].node})
  /\ list_size = SizeOf(mem, IF Adding(t) THEN allocated \ {loc[t].node} ELSE allocated)
  /\ list_size <= MAX_CACHE_SIZE
  /\ Adding(t) => mem[loc[t].node].node_size = loc[t].total
  /\ pc[t] = "evict" => /\ list_size + loc[t].total > MAX_CACHE_SIZE
                        /\ loc[t].at = mem[TAIL].prev

(* A step that leaves what the relay loop has counted as it is.            *)
SameAnswer(t) == /\ loc'[t].total = loc[t].total /\ loc'[t].mask = loc[t].mask
                 /\ loc'[t].sent = loc[t].sent

(* It follows from CacheInv, and holds of whoever may change the list.     *)
LEMMA EnterAlone ==
  ASSUME TypeOK, CacheInv, NEW t \in Threads, mutex \in {t, Nobody}
  PROVE  Alone(t)
<1> DEFINE A == {u \in Threads : Adding(u)}
<1>1. \A u \in Threads \ {t} : ~Locked(u) /\ loc[u].node = NULL /\ u \notin A
  BY ProxyAssumption DEF CacheInv, Holders, Locked, Holding, Adding
<1>2. allocated \in SUBSET Slots
  BY DEF TypeOK
<1>3. A \in SUBSET Threads
  OBVIOUS
<1>4. /\ OnList = allocated \ {loc[t].node}
      /\ Counted = IF t \in A THEN allocated \ {loc[t].node} ELSE allocated
  <2>1. NULL \notin allocated
    BY <1>2, CacheListAssumption DEF Nodes
  <2> QED BY <1>1, <2>1 DEF OnList, Counted
<1> QED BY <1>1, <1>4 DEF CacheInv, Holders, SizeKept, EvictsLast, Alone

(* What a step of that thread leaves, if Alone, makes CacheInv again.      *)
LEMMA LeaveAlone ==
  ASSUME TypeOK', NEW t \in Threads, Alone(t)', mutex' \in {t, Nobody}
  PROVE  CacheInv'
<1> DEFINE A == {u \in Threads : Adding(u)'}
<1>1. \A u \in Threads \ {t} : loc'[u].node = NULL /\ u \notin A /\ ~Adding(u)' /\ ~Holding(u)'
  BY DEF Alone, Locked, Adding, Holding
<1>2. allocated' \in SUBSET Slots
  BY DEF TypeOK
<1>3. A \in SUBSET Threads
  OBVIOUS
<1>4. /\ OnList' = allocated' \ {loc'[t].node}
      /\ Counted' = IF t \in A THEN allocated' \ {loc'[t].node} ELSE allocated'
  <2>1. NULL \notin allocated'
    BY <1>2, CacheListAssumption DEF Nodes
  <2> QED BY <1>1, <2>1 DEF OnList, Counted
<1>5. Holders'
  <2> SUFFICES ASSUME NEW u \in Threads
               PROVE  /\ Locked(u)' <=> mutex' = u
                      /\ IF Holding(u)' THEN loc'[u].node \in allocated' ELSE loc'[u].node = NULL
    BY DEF Holders
  <2>1. CASE u = t
    BY <2>1 DEF Alone
  <2>2. CASE u # t
    BY <1>1, <2>2, ProxyAssumption DEF Alone
  <2> QED BY <2>1, <2>2
<1>6. SizeKept'
  BY <1>1, <1>4 DEF Alone, SizeKept
<1>7. EvictsLast'
  BY <1>1 DEF Alone, EvictsLast, Adding
<1> QED BY <1>4, <1>5, <1>6, <1>7 DEF CacheInv, Alone

(* A step of t that leaves what was counted, and does not go on to store a *)
(* response that is too large, keeps StoresWhole.                          *)
LEMMA StoresWholeKept ==
  ASSUME StoresWhole, NEW t \in Threads, SameAnswer(t),
         \A u \in Threads \ {t} : pc'[u] = pc[u] /\ loc'[u] = loc[u],
         pc'[t] \in {"scan", "put_lock", "create", "fit", "evict"} => ~loc[t].mask
  PROVE  StoresWhole'
<1> SUFFICES ASSUME NEW u \in Threads
             PROVE  /\ ~loc'[u].mask => loc'[u].total = loc'[u].sent
                    /\ pc'[u] \in {"scan", "put_lock", "create", "fit", "evict"} => ~loc'[u].mask
  BY DEF StoresWhole
<1>1. CASE u = t
  BY <1>1 DEF SameAnswer, StoresWhole
<1>2. CASE u # t
  BY <1>2 DEF StoresWhole
<1> QED BY <1>1, <1>2

-----------------------------------------------------------------------------
(* The proxy starts with an empty list and idle threads.                   *)
LEMMA InitIInv == Init => IInv
<1> SUFFICES ASSUME Init PROVE IInv
  OBVIOUS
<1>1. TypeOK
  <2>1. Blank \in Locals
    BY ProxyAssumption DEF Blank, Locals, Pointers, TooMuch
  <2>2. mem \in [Nodes -> Node] /\ list_size \in 0..(SIZE_T - 1)
    BY InitChain, ProxyAssumption DEF Init
  <2> QED BY <2>1, <2>2 DEF Init, TypeOK, PC
<1>2. Holders /\ EvictsLast /\ StoresWhole
  BY ProxyAssumption DEF Init, Holders, EvictsLast, StoresWhole, Locked, Holding, Blank
<1>3. OnList = {} /\ Counted = {}
  BY DEF Init, OnList, Counted
<1>4. IsChain(mem, OnList)
  BY <1>3, InitChain DEF Init
<1>5. SizeKept
  BY <1>3, SizeOfNone, ProxyAssumption DEF Init, SizeKept, Adding
<1> QED BY <1>1, <1>2, <1>4, <1>5 DEF IInv, CacheInv

-----------------------------------------------------------------------------
(* Steps outside the critical sections. *)

(* A thread that neither has the mutex nor takes it disturbs nothing.      *)
LEMMA QuietCacheInv ==
  ASSUME TypeOK, CacheInv, NEW t \in Threads,
         UNCHANGED <<list, mutex>>,
         pc' \in [Threads -> PC], loc' \in [Threads -> Locals],
         \A u \in Threads \ {t} : pc'[u] = pc[u] /\ loc'[u] = loc[u],
         ~Locked(t), ~Locked(t)', loc'[t].node = NULL
  PROVE  CacheInv'
<1>1. \A u \in Threads : /\ Locked(u)' <=> Locked(u)
                         /\ Holding(u)' <=> Holding(u)
                         /\ Adding(u)' <=> Adding(u)
                         /\ Adding(u) => loc'[u] = loc[u] /\ pc'[u] = pc[u]
  BY DEF Locked, Holding, Adding
<1>2. \A u \in Threads : loc'[u].node = loc[u].node
  BY DEF CacheInv, Holders, Holding, Locked
<1>3. OnList' = OnList /\ Counted' = Counted
  BY <1>1, <1>2 DEF OnList, Counted, list
<1>4. Holders'
  BY <1>1, <1>2 DEF CacheInv, Holders, list
<1>5. SizeKept'
  BY <1>1, <1>2, <1>3 DEF CacheInv, SizeKept, list
<1>6. EvictsLast'
  <2>1. \A u \in Threads : pc'[u] = "evict" => loc'[u] = loc[u] /\ pc[u] = "evict"
    BY DEF Locked
  <2> QED BY <2>1 DEF CacheInv, EvictsLast, list
<1> QED BY <1>3, <1>4, <1>5, <1>6 DEF CacheInv, list

(* The process dies, or only its clients go.                               *)
LEMMA SameThreadsInv ==
  ASSUME IInv, UNCHANGED <<list, mutex, pc, loc>>, crashed' \in BOOLEAN, clients' \in BOOLEAN
  PROVE  IInv'
<1>1. TypeOK' /\ StoresWhole'
  BY DEF IInv, TypeOK, StoresWhole, list
<1>2. CacheInv'
  BY DEF IInv, CacheInv, Holders, Locked, Holding, Adding, OnList, Counted, SizeKept, EvictsLast, list
<1> QED BY <1>1, <1>2 DEF IInv

(* A connection is accepted, refused, parsed, made and closed.             *)
LEMMA ConnectionInv ==
  ASSUME IInv, NEW t \in Threads,
         \/ \E uri \in Keys : Accept(t, uri)
         \/ Close(t) \/ Refuse(t) \/ ParseGet(t) \/ ConnectFails(t) \/ Connect(t)
  PROVE  IInv'
<1> USE DEF Goto, Set
<1>1. Blank \in Locals
  BY ProxyAssumption DEF Blank, Locals, Pointers, TooMuch
<1>2. TypeOK'
  <2>1. /\ UNCHANGED <<list, mutex, crashed>> /\ clients' \in BOOLEAN
        /\ \E to \in PC : pc' = [pc EXCEPT ![t] = to]
    BY DEF IInv, TypeOK, Accept, Close, Refuse, ParseGet, ConnectFails, Connect, PC
  <2>2. loc' \in [Threads -> Locals]
    <3>1. loc \in [Threads -> Locals]
      BY DEF IInv, TypeOK
    <3> QED BY <1>1, <3>1 DEF Accept, Close, Refuse, ParseGet, ConnectFails, Connect, Locals
  <2> QED BY <2>1, <2>2 DEF IInv, TypeOK, list
<1>3. /\ UNCHANGED <<list, mutex>>
      /\ \A u \in Threads \ {t} : pc'[u] = pc[u] /\ loc'[u] = loc[u]
      /\ pc[t] \in {"idle", "done", "request", "connect"}
      /\ pc'[t] \in {"request", "idle", "done", "get_lock", "relay"}
  BY DEF IInv, TypeOK, Accept, Close, Refuse, ParseGet, ConnectFails, Connect
<1>4. loc'[t].node = NULL
  BY <1>3 DEF IInv, TypeOK, CacheInv, Holders, Holding, Locals, Blank,
     Accept, Close, Refuse, ParseGet, ConnectFails, Connect
<1>5. CacheInv'
  <2>1. ~Locked(t) /\ ~Locked(t)'
    BY <1>3 DEF Locked
  <2> QED BY <1>2, <1>3, <1>4, <2>1, QuietCacheInv DEF IInv, TypeOK
<1>6. StoresWhole'
  <2>1. SameAnswer(t) \/ loc'[t] = Blank
    BY DEF SameAnswer, IInv, TypeOK, Locals, Accept, Close, Refuse, ParseGet, ConnectFails, Connect
  <2>2. CASE SameAnswer(t)
    BY <1>3, <2>2, StoresWholeKept DEF IInv
  <2>3. CASE loc'[t] = Blank
    BY <1>3, <2>3 DEF IInv, StoresWhole, Blank
  <2> QED BY <2>1, <2>2, <2>3
<1> QED BY <1>2, <1>5, <1>6 DEF IInv

(* The relay loop counts what fits and remembers what does not.            *)
LEMMA RelayInv ==
  ASSUME IInv, NEW t \in Threads,
         Relay(t) \/ RelayEnd(t)
  PROVE  IInv'
<1> USE DEF Goto, Set
<1>1. CASE Relay(t)
  <2>1. PICK n \in 1..MAXLINE \cup {SIZE_T - 1} : RelayRead(t, n)
    BY <1>1 DEF Relay
  <2> DEFINE total == loc[t].total
             small == (total + n) % SIZE_T <= MAX_OBJECT_SIZE
             sent  == IF loc[t].sent + n < TooMuch THEN loc[t].sent + n ELSE TooMuch
  <2>2. CASE small /\ n > MAX_OBJECT_SIZE - total
    BY <2>1, <2>2, SameThreadsInv DEF RelayRead, Crash, IInv, TypeOK
  <2>3. CASE ~(small /\ n > MAX_OBJECT_SIZE - total)
    <3>0. n \in Nat /\ total \in 0..MAX_OBJECT_SIZE /\ MAX_OBJECT_SIZE \in Nat
          /\ loc[t].sent \in 0..TooMuch
      BY <2>1, ProxyAssumption DEF IInv, TypeOK, Locals
    <3>1. /\ pc[t] = "relay" /\ UNCHANGED <<list, mutex, pc, crashed, clients>>
          /\ \/ /\ n <= MAX_OBJECT_SIZE - total
                /\ loc' = [loc EXCEPT ![t].total = total + n, ![t].sent = sent]
             \/ loc' = [loc EXCEPT ![t].mask = TRUE, ![t].sent = sent]
      <4> HIDE DEF small, sent
      <4>1. /\ pc[t] = "relay" /\ UNCHANGED <<list, mutex, pc, crashed, clients>>
            /\ IF small THEN loc' = [loc EXCEPT ![t].total = total + n, ![t].sent = sent]
                        ELSE loc' = [loc EXCEPT ![t].mask = TRUE, ![t].sent = sent]
        BY <2>1, <2>3 DEF RelayRead, small, sent
      <4>2. small => n <= MAX_OBJECT_SIZE - total
        BY <2>3, <3>0
      <4> HIDE DEF total
      <4> QED BY <4>1, <4>2
    <3>2. sent \in 0..TooMuch
      BY <3>0 DEF TooMuch
    <3>3. /\ loc' \in [Threads -> Locals] /\ loc'[t].node = loc[t].node
          /\ ~loc'[t].mask => ~loc[t].mask /\ loc'[t].total = total + n /\ loc'[t].sent = sent
                              /\ n <= MAX_OBJECT_SIZE - total
      <4>1. loc \in [Threads -> Locals]
        BY DEF IInv, TypeOK
      <4>2. n <= MAX_OBJECT_SIZE - total => total + n \in 0..MAX_OBJECT_SIZE
        BY <3>0
      <4> HIDE DEF total, sent
      <4>3. CASE /\ n <= MAX_OBJECT_SIZE - total
                 /\ loc' = [loc EXCEPT ![t].total = total + n, ![t].sent = sent]
        BY <3>2, <4>1, <4>2, <4>3 DEF Locals
      <4>4. CASE loc' = [loc EXCEPT ![t].mask = TRUE, ![t].sent = sent]
        BY <3>2, <4>1, <4>4 DEF Locals
      <4> QED BY <3>1, <4>3, <4>4
    <3>4. TypeOK'
      BY <3>1, <3>3 DEF IInv, TypeOK, list
    <3>5. \A u \in Threads \ {t} : pc'[u] = pc[u] /\ loc'[u] = loc[u]
      BY <3>1 DEF IInv, TypeOK
    <3>6. CacheInv'
      <4>1. ~Locked(t) /\ ~Locked(t)' /\ ~Holding(t)
        BY <3>1 DEF Locked, Holding
      <4>2. loc'[t].node = NULL
        BY <3>3, <4>1 DEF IInv, CacheInv, Holders
      <4> QED BY <3>1, <3>4, <3>5, <4>1, <4>2, QuietCacheInv DEF IInv, TypeOK
    <3>7. ~loc'[t].mask => loc'[t].total = loc'[t].sent
      <4> SUFFICES ASSUME ~loc'[t].mask PROVE loc'[t].total = loc'[t].sent
        OBVIOUS
      <4>1. total = loc[t].sent
        BY <3>3 DEF IInv, StoresWhole
      <4> QED BY <3>0, <3>3, <4>1 DEF TooMuch
    <3>8. StoresWhole'
      BY <3>1, <3>5, <3>7 DEF IInv, StoresWhole
    <3> QED BY <3>4, <3>6, <3>8 DEF IInv
  <2> QED BY <2>2, <2>3
<1>2. CASE RelayEnd(t)
  <2>1. /\ pc[t] = "relay" /\ UNCHANGED <<list, mutex, crashed, clients>>
        /\ pc' = [pc EXCEPT ![t] = IF loc[t].mask THEN "done" ELSE "scan"]
        /\ loc' = [loc EXCEPT ![t]["at"] = IF loc[t].mask THEN NULL ELSE mem[HEAD].next]
    BY <1>2 DEF RelayEnd
  <2>2. mem[HEAD].next \in Pointers
    BY DEF IInv, TypeOK, Nodes, Node
  <2>3. /\ loc' \in [Threads -> Locals]
        /\ loc'[t].node = loc[t].node /\ SameAnswer(t)
    BY <2>1, <2>2 DEF IInv, TypeOK, Locals, Pointers, SameAnswer
  <2>4. pc' \in [Threads -> PC]
    BY <2>1 DEF IInv, TypeOK, PC
  <2>5. TypeOK'
    BY <2>1, <2>3, <2>4 DEF IInv, TypeOK, list
  <2>6. \A u \in Threads \ {t} : pc'[u] = pc[u] /\ loc'[u] = loc[u]
    BY <2>1 DEF IInv, TypeOK
  <2>7. pc'[t] = IF loc[t].mask THEN "done" ELSE "scan"
    BY <2>1 DEF IInv, TypeOK
  <2>8. CacheInv'
    <3>1. ~Locked(t) /\ ~Locked(t)' /\ ~Holding(t)
      BY <2>1, <2>7 DEF Locked, Holding
    <3>2. loc'[t].node = NULL
      BY <2>3, <3>1 DEF IInv, CacheInv, Holders
    <3> QED BY <2>1, <2>3, <2>4, <2>6, <3>1, <3>2, QuietCacheInv DEF IInv
  <2>9. StoresWhole'
    BY <2>3, <2>6, <2>7, StoresWholeKept DEF IInv
  <2> QED BY <2>5, <2>8, <2>9 DEF IInv
<1> QED BY <1>1, <1>2

(* Walking the list without the mutex changes only where the walker is.    *)
LEMMA ScanInv ==
  ASSUME IInv, NEW t \in Threads,
         ScanNext(t) \/ ScanFound(t) \/ ScanEnd(t) \/ ScanNull(t) \/ ScanFreed(t)
  PROVE  IInv'
<1> USE DEF Goto, Set
<1>1. CASE Crash
  BY <1>1, SameThreadsInv DEF Crash, IInv, TypeOK
<1>2. CASE ~Crash
  <2>1. /\ pc[t] = "scan" /\ UNCHANGED <<list, mutex, crashed, clients>>
        /\ pc' \in {pc, [pc EXCEPT ![t] = "scan"], [pc EXCEPT ![t] = "done"],
                    [pc EXCEPT ![t] = "put_lock"]}
        /\ \E n \in Pointers : loc' = [loc EXCEPT ![t]["at"] = n]
    <3>1. loc[t].at \in allocated => mem[loc[t].at].next \in Pointers
      BY DEF IInv, TypeOK, Node, Nodes
    <3> QED BY <1>2, <3>1 DEF ScanNext, ScanFound, ScanEnd, ScanNull, ScanFreed, Pointers
  <2>2. /\ loc' \in [Threads -> Locals]
        /\ loc'[t].node = loc[t].node /\ SameAnswer(t)
    <3>1. PICK n \in Pointers : loc' = [loc EXCEPT ![t]["at"] = n]
      BY <2>1
    <3>2. loc \in [Threads -> Locals]
      BY DEF IInv, TypeOK
    <3>3. [loc[t] EXCEPT !["at"] = n] \in Locals
      BY ONLY <3>1, <3>2, t \in Threads DEF Locals
    <3> QED BY ONLY <3>1, <3>2, <3>3, t \in Threads DEF Locals, SameAnswer
  <2>3. pc' \in [Threads -> PC] /\ pc'[t] \in {"scan", "done", "put_lock"}
    BY <2>1 DEF IInv, TypeOK, PC
  <2>4. TypeOK'
    BY <2>1, <2>2, <2>3 DEF IInv, TypeOK, list
  <2>5. \A u \in Threads \ {t} : pc'[u] = pc[u] /\ loc'[u] = loc[u]
    BY <2>1 DEF IInv, TypeOK
  <2>6. CacheInv'
    <3>1. ~Locked(t) /\ ~Locked(t)' /\ ~Holding(t)
      BY <2>1, <2>3 DEF Locked, Holding
    <3>2. loc'[t].node = NULL
      BY <2>2, <3>1 DEF IInv, CacheInv, Holders
    <3> QED BY <2>1, <2>2, <2>3, <2>5, <3>1, <3>2, QuietCacheInv DEF IInv
  <2>7. StoresWhole'
    <3>1. loc[t].mask = FALSE
      BY <2>1 DEF IInv, StoresWhole, TypeOK, Locals
    <3> QED BY <2>2, <2>5, <3>1, StoresWholeKept DEF IInv
  <2> QED BY <2>4, <2>6, <2>7 DEF IInv
<1> QED BY <1>1, <1>2

-----------------------------------------------------------------------------
(* The critical sections. *)

(* The mutex is taken.                                                     *)
LEMMA LockInv ==
  ASSUME IInv, NEW t \in Threads, GetLock(t) \/ PutLock(t)
  PROVE  IInv'
<1>1. /\ mutex = Nobody /\ mutex' = t /\ UNCHANGED <<list, loc, crashed, clients>>
      /\ pc[t] \in {"get_lock", "put_lock"}
      /\ pc' = [pc EXCEPT ![t] = IF pc[t] = "get_lock" THEN "find" ELSE "create"]
  BY DEF GetLock, PutLock, Goto, Lock
<1>2. TypeOK'
  BY <1>1 DEF IInv, TypeOK, PC, list
<1>3. /\ \A u \in Threads \ {t} : pc'[u] = pc[u]
      /\ pc'[t] = IF pc[t] = "get_lock" THEN "find" ELSE "create"
  BY <1>1 DEF IInv, TypeOK
<1>4. Alone(t)
  BY <1>1, EnterAlone DEF IInv
<1>5. Alone(t)'
  BY <1>1, <1>3, <1>4 DEF Alone, Locked, Holding, Adding, list
<1>6. StoresWhole'
  BY <1>1, <1>3 DEF IInv, StoresWhole
<1> QED BY <1>1, <1>2, <1>5, <1>6, LeaveAlone DEF IInv

(* A thread in a critical section has the mutex.                           *)
LEMMA InSection ==
  ASSUME IInv, NEW t \in Threads, Locked(t)
  PROVE  mutex = t /\ Alone(t)
<1>1. mutex = t
  BY DEF IInv, CacheInv, Holders
<1> QED BY <1>1, EnterAlone DEF IInv

(* find_node found nothing.                                                *)
LEMMA FindMissInv ==
  ASSUME IInv, NEW t \in Threads, FindMiss(t)
  PROVE  IInv'
<1>1. /\ mutex' = Nobody /\ UNCHANGED <<list, loc, crashed, clients>>
      /\ pc[t] = "find" /\ pc' = [pc EXCEPT ![t] = "connect"]
  BY DEF FindMiss, Goto, Unlock
<1>2. TypeOK'
  BY <1>1 DEF IInv, TypeOK, PC, list
<1>3. (\A u \in Threads \ {t} : pc'[u] = pc[u]) /\ pc'[t] = "connect"
  BY <1>1 DEF IInv, TypeOK
<1>4. Alone(t)
  BY <1>1, InSection DEF Locked
<1>5. Alone(t)'
  BY <1>1, <1>3, <1>4, ProxyAssumption DEF Alone, Locked, Holding, Adding, list
<1>6. StoresWhole'
  BY <1>1, <1>3 DEF IInv, StoresWhole
<1> QED BY <1>1, <1>2, <1>5, <1>6, LeaveAlone DEF IInv

(* A hit is taken off the list.                                            *)
LEMMA FindHitInv ==
  ASSUME IInv, NEW t \in Threads, FindHit(t)
  PROVE  IInv'
<1> DEFINE node == NodeWithKey(mem, loc[t].key)
<1>1. /\ node # NULL /\ mem' = Unlink(mem, node)
      /\ UNCHANGED <<allocated, list_size, mutex, crashed, clients>>
      /\ pc[t] = "find" /\ pc' = [pc EXCEPT ![t] = "relink"]
      /\ loc' = [loc EXCEPT ![t]["node"] = node]
  BY DEF FindHit, Goto, Set
<1>2. mutex = t /\ Alone(t)
  BY <1>1, InSection DEF Locked
<1>3. allocated \in SUBSET Slots /\ mem \in [Nodes -> Node] /\ IsFiniteSet(allocated)
  BY FS_Subset, CacheListAssumption DEF IInv, TypeOK
<1>4. IsChain(mem, allocated) /\ list_size = SizeOf(mem, allocated) /\ list_size <= MAX_CACHE_SIZE
  <2>1. loc[t].node = NULL /\ ~Adding(t)
    BY <1>1, <1>2 DEF Alone, Holding, Adding
  <2>2. allocated \ {NULL} = allocated
    BY <1>3, CacheListAssumption DEF Nodes
  <2> QED BY <1>2, <2>1, <2>2 DEF Alone
<1>5. node \in allocated
  BY <1>1, <1>4, NodeWithKeyResult
<1> HIDE DEF node
<1>6. /\ mem' \in [Nodes -> Node] /\ IsChain(mem', allocated \ {node})
      /\ \A y \in Nodes : mem'[y].node_size = mem[y].node_size
  <2>1. /\ mem' \in [Nodes -> Node] /\ IsChain(mem', allocated \ {node})
        /\ SameFields(mem, mem', Nodes)
    BY <1>1, <1>3, <1>4, <1>5, UnlinkResult
  <2> QED BY <2>1 DEF SameFields
<1>7. SizeOf(mem', allocated) = SizeOf(mem, allocated)
  <2>1. \A x \in allocated : x \in Nodes /\ mem[x].node_size \in Nat
    BY <1>3 DEF Nodes, Node
  <2> QED BY <1>3, <1>6, <2>1, SizeOfSame
<1>8. /\ loc' \in [Threads -> Locals] /\ loc'[t].node = node
      /\ SameAnswer(t)
  <2>1. node \in Pointers
    BY <1>3, <1>5 DEF Pointers, Nodes
  <2> QED BY <1>1, <2>1 DEF IInv, TypeOK, Locals, SameAnswer
<1>9. TypeOK'
  BY <1>1, <1>6, <1>8 DEF IInv, TypeOK, PC
<1>10. /\ \A u \in Threads \ {t} : pc'[u] = pc[u] /\ loc'[u] = loc[u]
       /\ pc'[t] = "relink"
  BY <1>1 DEF IInv, TypeOK
<1>11. Alone(t)'
  <2>1. Locked(t)' /\ Holding(t)' /\ ~Adding(t)'
    BY <1>10 DEF Locked, Holding, Adding
  <2>2. \A u \in Threads \ {t} : ~Locked(u)' /\ loc'[u].node = NULL
    BY <1>2, <1>10 DEF Alone, Locked
  <2>3. /\ IsChain(mem', allocated' \ {loc'[t].node})
        /\ list_size' = SizeOf(mem', allocated') /\ list_size' <= MAX_CACHE_SIZE
    BY <1>1, <1>4, <1>6, <1>7, <1>8
  <2>4. mutex' = t /\ loc'[t].node \in allocated'
    BY <1>1, <1>2, <1>5, <1>8
  <2> QED BY <1>10, <2>1, <2>2, <2>3, <2>4 DEF Alone
<1>12. StoresWhole'
  BY <1>8, <1>10, StoresWholeKept DEF IInv
<1> QED BY <1>1, <1>2, <1>9, <1>11, <1>12, LeaveAlone DEF IInv

(* A hit is put in front.                                                  *)
LEMMA RelinkInv ==
  ASSUME IInv, NEW t \in Threads, Relink(t)
  PROVE  IInv'
<1> DEFINE node == loc[t].node
<1>1. /\ mem' = PushFront(mem, node) /\ mutex' = Nobody
      /\ UNCHANGED <<allocated, list_size, crashed, clients>>
      /\ pc[t] = "relink" /\ pc' = [pc EXCEPT ![t] = "done"]
      /\ loc' = [loc EXCEPT ![t]["node"] = NULL]
  BY DEF Relink, Goto, Set, Unlock
<1>2. mutex = t /\ Alone(t)
  BY <1>1, InSection DEF Locked
<1>3. allocated \in SUBSET Slots /\ mem \in [Nodes -> Node] /\ IsFiniteSet(allocated)
  BY FS_Subset, CacheListAssumption DEF IInv, TypeOK
<1>4. /\ node \in allocated /\ IsChain(mem, allocated \ {node})
      /\ list_size = SizeOf(mem, allocated) /\ list_size <= MAX_CACHE_SIZE
  BY <1>1, <1>2 DEF Alone, Holding, Adding
<1> HIDE DEF node
<1>5. /\ mem' \in [Nodes -> Node] /\ IsChain(mem', allocated)
      /\ \A y \in Nodes : mem'[y].node_size = mem[y].node_size
  <2>1. (allocated \ {node}) \cup {node} = allocated /\ node \in Slots \ (allocated \ {node})
    BY <1>3, <1>4
  <2>2. /\ mem' \in [Nodes -> Node] /\ IsChain(mem', (allocated \ {node}) \cup {node})
        /\ SameFields(mem, mem', Nodes)
    BY <1>1, <1>3, <1>4, <2>1, PushFrontResult
  <2> QED BY <2>1, <2>2 DEF SameFields
<1>6. SizeOf(mem', allocated) = SizeOf(mem, allocated)
  <2>1. \A x \in allocated : x \in Nodes /\ mem[x].node_size \in Nat
    BY <1>3 DEF Nodes, Node
  <2> QED BY <1>3, <1>5, <2>1, SizeOfSame
<1>7. loc' \in [Threads -> Locals] /\ loc'[t].node = NULL /\ SameAnswer(t)
  BY <1>1 DEF IInv, TypeOK, Locals, Pointers, SameAnswer
<1>8. TypeOK'
  BY <1>1, <1>5, <1>7 DEF IInv, TypeOK, PC
<1>9. /\ \A u \in Threads \ {t} : pc'[u] = pc[u] /\ loc'[u] = loc[u]
      /\ pc'[t] = "done"
  BY <1>1 DEF IInv, TypeOK
<1>10. Alone(t)'
  <2>1. ~Locked(t)' /\ ~Holding(t)' /\ ~Adding(t)'
    BY <1>9 DEF Locked, Holding, Adding
  <2>2. \A u \in Threads \ {t} : ~Locked(u)' /\ loc'[u].node = NULL
    BY <1>2, <1>9 DEF Alone, Locked
  <2>3. allocated \ {NULL} = allocated
    BY <1>3, CacheListAssumption DEF Nodes
  <2> QED BY <1>1, <1>4, <1>5, <1>6, <1>7, <1>9, <2>1, <2>2, <2>3, ProxyAssumption DEF Alone
<1>11. StoresWhole'
  BY <1>7, <1>9, StoresWholeKept DEF IInv
<1> QED BY <1>1, <1>8, <1>10, <1>11, LeaveAlone DEF IInv

(* A new node, still off the list and not counted, has the object's size.  *)
LEMMA CreateInv ==
  ASSUME IInv, NEW t \in Threads, Create(t)
  PROVE  IInv'
<1>1. PICK n \in Slots \ allocated :
        /\ mem' = [mem EXCEPT ![n] = create_node(loc[t].key, loc[t].total)]
        /\ allocated' = allocated \cup {n}
        /\ loc' = [loc EXCEPT ![t]["node"] = n]
  BY DEF Create, Set
<1>2. /\ UNCHANGED <<list_size, mutex, crashed, clients>>
      /\ pc[t] = "create" /\ pc' = [pc EXCEPT ![t] = "fit"]
  BY DEF Create, Goto
<1>3. mutex = t /\ Alone(t)
  BY <1>2, InSection DEF Locked
<1>4. /\ allocated \in SUBSET Slots /\ mem \in [Nodes -> Node] /\ IsFiniteSet(allocated)
      /\ n \in Nodes /\ loc[t] \in Locals /\ n \notin allocated \cup {HEAD, TAIL}
  BY FS_Subset, CacheListAssumption DEF IInv, TypeOK, Nodes
<1>5. IsChain(mem, allocated) /\ list_size = SizeOf(mem, allocated) /\ list_size <= MAX_CACHE_SIZE
  <2>1. loc[t].node = NULL /\ ~Adding(t)
    BY <1>2, <1>3 DEF Alone, Holding, Adding
  <2>2. allocated \ {NULL} = allocated
    BY <1>4, CacheListAssumption DEF Nodes
  <2> QED BY <1>3, <2>1, <2>2 DEF Alone
<1>6. /\ mem' \in [Nodes -> Node] /\ mem'[n].node_size = loc[t].total
      /\ \A y \in Nodes \ {n} : mem'[y] = mem[y]
  <2>1. create_empty_node \in Node /\ loc[t].key \in Keys \cup {NULL} /\ loc[t].total \in Nat
    BY <1>4, ProxyAssumption DEF create_empty_node, Node, Pointers, Locals
  <2>2. /\ create_node(loc[t].key, loc[t].total) \in Node
        /\ create_node(loc[t].key, loc[t].total).node_size = loc[t].total
    BY <2>1 DEF create_node, Node
  <2> QED BY <1>1, <1>4, <2>1, <2>2
<1>7. IsChain(mem', allocated)
  <2>1. allocated \cup {HEAD, TAIL} \subseteq Nodes \ {n}
    BY <1>4 DEF Nodes
  <2> QED BY <1>5, <1>6, <2>1, SameLinks
<1>8. SizeOf(mem', allocated) = SizeOf(mem, allocated)
  <2>1. \A x \in allocated : x \in Nodes \ {n} /\ mem[x].node_size \in Nat
    BY <1>4 DEF Nodes, Node
  <2> QED BY <1>4, <1>6, <2>1, SizeOfSame
<1>9. /\ loc' \in [Threads -> Locals] /\ loc'[t].node = n
      /\ SameAnswer(t)
  <2>1. n \in Pointers
    BY <1>4 DEF Pointers
  <2> QED BY <1>1, <2>1 DEF IInv, TypeOK, Locals, SameAnswer
<1>10. TypeOK'
  <2>1. allocated' \subseteq Slots
    BY <1>1, <1>4
  <2> QED BY <1>2, <1>6, <1>9, <2>1 DEF IInv, TypeOK, PC
<1>11. /\ \A u \in Threads \ {t} : pc'[u] = pc[u] /\ loc'[u] = loc[u]
       /\ pc'[t] = "fit"
  BY <1>1, <1>2 DEF IInv, TypeOK
<1>12. Alone(t)'
  <2>1. Locked(t)' /\ Holding(t)' /\ Adding(t)'
    BY <1>11 DEF Locked, Holding, Adding
  <2>2. \A u \in Threads \ {t} : ~Locked(u)' /\ loc'[u].node = NULL
    BY <1>3, <1>11 DEF Alone, Locked
  <2>3. allocated' \ {loc'[t].node} = allocated
    BY <1>1, <1>4, <1>9
  <2>4. mutex' = t /\ loc'[t].node \in allocated' /\ list_size' = list_size
    BY <1>1, <1>2, <1>3, <1>9
  <2> QED BY <1>5, <1>6, <1>7, <1>8, <1>9, <1>11, <2>1, <2>2, <2>3, <2>4 DEF Alone, SameAnswer
<1>13. StoresWhole'
  <2>1. ~loc[t].mask
    BY <1>2 DEF IInv, StoresWhole
  <2> QED BY <1>9, <1>11, <2>1, StoresWholeKept DEF IInv
<1> QED BY <1>2, <1>3, <1>10, <1>12, <1>13, LeaveAlone DEF IInv

(* What a node that is put on a list S, counted so far by size, leaves.    *)
LEMMA InsertResult ==
  ASSUME NEW m \in [Nodes -> Node], NEW S \in SUBSET Slots, IsChain(m, S),
         NEW x \in Slots \ S, NEW l, l = PushFront(m, x)
  PROVE  /\ l \in [Nodes -> Node] /\ IsChain(l, S \cup {x})
         /\ SizeOf(l, S \cup {x}) = SizeOf(m, S) + m[x].node_size
<1>1. /\ l \in [Nodes -> Node] /\ IsChain(l, S \cup {x})
      /\ \A y \in Nodes : l[y].node_size = m[y].node_size
  <2>1. /\ l \in [Nodes -> Node]
        /\ IsChain(l, S \cup {x})
        /\ SameFields(m, l, Nodes)
    BY PushFrontResult
  <2> QED BY <2>1 DEF SameFields
<1> DEFINE T == S \cup {x}
<1>2. T \in SUBSET Slots /\ T \ {x} = S /\ x \in T
  OBVIOUS
<1>3. IsFiniteSet(T)
  BY <1>2, FS_Subset, CacheListAssumption
<1>4. \A y \in T : y \in Nodes /\ m[y].node_size \in Nat
  BY <1>2 DEF Nodes, Node
<1> HIDE DEF T
<1>5. SizeOf(l, T) = SizeOf(m, T)
  BY <1>1, <1>3, <1>4, SizeOfSame
<1>6. SizeOf(m, T) = SizeOf(m, T \ {x}) + m[x].node_size
  BY <1>2, <1>3, <1>4, SizeOfOneMore
<1> QED BY <1>1, <1>2, <1>5, <1>6 DEF T

(* The end of write_node, for a list S without the node and not yet grown. *)
LEMMA InsertInv ==
  ASSUME IInv, NEW t \in Threads, Adding(t),
         NEW m \in [Nodes -> Node], NEW size \in Nat,
         allocated' \subseteq allocated, loc[t].node \in allocated',
         IsChain(m, allocated' \ {loc[t].node}),
         size = SizeOf(m, allocated' \ {loc[t].node}),
         m[loc[t].node].node_size = mem[loc[t].node].node_size,
         size + loc[t].total <= MAX_CACHE_SIZE,
         Insert(t, m, size), pc' = [pc EXCEPT ![t] = "done"], UNCHANGED <<crashed, clients>>
  PROVE  IInv'
<1> DEFINE node == loc[t].node
           S    == allocated' \ {node}
<1>1. mutex = t /\ Alone(t)
  BY InSection DEF Adding, Locked
<1>2. m[node].node_size = loc[t].total
  BY <1>1 DEF Alone
<1>3. /\ mem' = PushFront(m, node) /\ list_size' = size + loc[t].total /\ mutex' = Nobody
      /\ loc' = [loc EXCEPT ![t].node = NULL, ![t].at = NULL]
  BY <1>1 DEF Insert, Unlock, Alone
<1>4. allocated \in SUBSET Slots /\ loc[t] \in Locals
  BY DEF IInv, TypeOK
<1>5. S \in SUBSET Slots /\ node \in Slots \ S /\ S \cup {node} = allocated'
  BY <1>4
<1>6. /\ mem' \in [Nodes -> Node] /\ IsChain(mem', S \cup {node})
      /\ SizeOf(mem', S \cup {node}) = SizeOf(m, S) + m[node].node_size
  <2> HIDE DEF node
  <2>1. IsChain(m, S)
    BY DEF node
  <2> HIDE DEF S
  <2> QED BY <1>3, <1>5, <2>1, InsertResult
<1>7. /\ IsChain(mem', allocated') /\ list_size' = SizeOf(mem', allocated')
      /\ list_size' <= MAX_CACHE_SIZE
  BY <1>2, <1>3, <1>5, <1>6
<1>8. loc' \in [Threads -> Locals] /\ loc'[t].node = NULL /\ SameAnswer(t)
  <2>1. loc \in [Threads -> Locals] /\ loc[t] \in Locals
    BY DEF IInv, TypeOK
  <2>2. [loc[t] EXCEPT !.node = NULL, !.at = NULL] \in Locals
    BY ONLY <2>1 DEF Locals, Pointers
  <2> QED BY ONLY <1>3, <2>1, <2>2, t \in Threads DEF Locals, SameAnswer
<1>9. list_size' \in 0..(SIZE_T - 1)
  BY <1>3, <1>4, <1>7, ProxyAssumption DEF Locals
<1>10. TypeOK'
  BY <1>3, <1>4, <1>6, <1>8, <1>9 DEF IInv, TypeOK, PC
<1>11. /\ \A u \in Threads \ {t} : pc'[u] = pc[u] /\ loc'[u] = loc[u]
       /\ pc'[t] = "done"
  BY <1>3 DEF IInv, TypeOK
<1>12. Alone(t)'
  <2>1. ~Locked(t)' /\ ~Holding(t)' /\ ~Adding(t)'
    BY <1>11 DEF Locked, Holding, Adding
  <2>2. \A u \in Threads \ {t} : ~Locked(u)' /\ loc'[u].node = NULL
    BY <1>1, <1>11 DEF Alone, Locked
  <2>3. allocated' \ {NULL} = allocated'
    BY <1>4, CacheListAssumption DEF Nodes
  <2> QED BY <1>3, <1>7, <1>8, <1>11, <2>1, <2>2, <2>3, ProxyAssumption DEF Alone
<1>13. StoresWhole'
  BY <1>8, <1>11, StoresWholeKept DEF IInv
<1> QED BY <1>3, <1>10, <1>12, <1>13, LeaveAlone DEF IInv

(* The new node fits.                                                      *)
LEMMA FitInv ==
  ASSUME IInv, NEW t \in Threads, Fit(t)
  PROVE  IInv'
<1>1. /\ list_size + loc[t].total <= MAX_CACHE_SIZE /\ Insert(t, mem, list_size)
      /\ UNCHANGED <<allocated, crashed, clients>>
      /\ pc[t] = "fit" /\ pc' = [pc EXCEPT ![t] = "done"]
  BY DEF Fit, Goto
<1>2. Alone(t) /\ Adding(t) /\ Holding(t)
  BY <1>1, InSection DEF Locked, Adding, Holding
<1>3. /\ mem \in [Nodes -> Node] /\ list_size \in Nat
      /\ loc[t].node \in allocated
      /\ IsChain(mem, allocated \ {loc[t].node})
      /\ list_size = SizeOf(mem, allocated \ {loc[t].node})
  BY <1>2, ProxyAssumption DEF IInv, TypeOK, Alone
<1> QED BY <1>1, <1>2, <1>3, InsertInv

(* It does not, and the eviction loop starts at the last node.             *)
LEMMA NoFitInv ==
  ASSUME IInv, NEW t \in Threads, NoFit(t)
  PROVE  IInv'
<1>1. /\ list_size + loc[t].total > MAX_CACHE_SIZE
      /\ UNCHANGED <<list, mutex, crashed, clients>>
      /\ pc[t] = "fit" /\ pc' = [pc EXCEPT ![t] = "evict"]
      /\ loc' = [loc EXCEPT ![t]["at"] = mem[TAIL].prev]
  BY DEF NoFit, Goto, Set
<1>2. Alone(t) /\ mutex = t
  BY <1>1, InSection DEF Locked
<1>3. /\ loc' \in [Threads -> Locals] /\ loc'[t].at = mem[TAIL].prev
      /\ loc'[t].node = loc[t].node
      /\ SameAnswer(t)
  <2>1. mem[TAIL].prev \in Pointers
    BY DEF IInv, TypeOK, Nodes, Node
  <2> QED BY <1>1, <2>1 DEF IInv, TypeOK, Locals, SameAnswer
<1>4. TypeOK'
  BY <1>1, <1>3 DEF IInv, TypeOK, PC, list
<1>5. /\ \A u \in Threads \ {t} : pc'[u] = pc[u] /\ loc'[u] = loc[u]
      /\ pc'[t] = "evict"
  BY <1>1 DEF IInv, TypeOK
<1>6. Alone(t)'
  BY <1>1, <1>2, <1>3, <1>5 DEF Alone, Locked, Holding, Adding, list, SameAnswer
<1>7. StoresWhole'
  <2>1. ~loc[t].mask
    BY <1>1 DEF IInv, StoresWhole
  <2> QED BY <1>3, <1>5, <2>1, StoresWholeKept DEF IInv
<1> QED BY <1>1, <1>2, <1>4, <1>6, <1>7, LeaveAlone DEF IInv

(* What the eviction loop finds: an object, since an empty list has size 0 *)
(* and an object of any size would fit.                                    *)
LEMMA EvictState ==
  ASSUME IInv, NEW t \in Threads, pc[t] = "evict"
  PROVE  /\ mutex = t /\ Alone(t)
         /\ allocated \in SUBSET Slots /\ loc[t].node \in allocated
         /\ loc[t].at \in allocated \ {loc[t].node}
         /\ delete_node(mem, loc[t].at)[TAIL].prev = mem[loc[t].at].prev
<1> DEFINE S == allocated \ {loc[t].node}
<1>1. mutex = t /\ Alone(t)
  BY InSection DEF Locked
<1>2. /\ loc[t].node \in allocated /\ IsChain(mem, S) /\ list_size = SizeOf(mem, S)
      /\ list_size + loc[t].total > MAX_CACHE_SIZE /\ loc[t].at = mem[TAIL].prev
  BY <1>1 DEF Alone, Holding, Adding
<1>3. loc[t].total <= MAX_CACHE_SIZE /\ loc[t].total \in Nat
  BY ProxyAssumption DEF IInv, TypeOK, Locals
<1>4. S # {}
  <2> HIDE DEF S
  <2>1. SUFFICES ASSUME S = {} PROVE FALSE
    OBVIOUS
  <2>2. list_size = 0
    BY <1>2, <2>1, SizeOfNone
  <2> QED BY <1>2, <1>3, <2>2, ProxyAssumption
<1>5. /\ mem[TAIL].prev \in S
      /\ delete_node(mem, mem[TAIL].prev)[TAIL].prev = mem[mem[TAIL].prev].prev
  <2> HIDE DEF S
  <2>1. mem \in [Nodes -> Node]
    BY DEF IInv, TypeOK
  <2> QED BY <1>2, <1>4, <2>1, LastNode
<1> QED BY <1>1, <1>2, <1>5 DEF IInv, TypeOK

(* What one turn of the eviction loop does to the list and its size.       *)
Evicted(t, left, size) ==
  LET node == loc[t].node
      x    == loc[t].at
  IN  /\ left \in [Nodes -> Node] /\ IsChain(left, (allocated \ {x}) \ {node})
      /\ size = SizeOf(left, (allocated \ {x}) \ {node})
      /\ size \in 0..(SIZE_T - 1) /\ size <= MAX_CACHE_SIZE
      /\ x # HEAD /\ node \in allocated \ {x}
      /\ left[TAIL].prev = mem[x].prev
      /\ left[node].key = mem[node].key /\ left[node].node_size = mem[node].node_size
      /\ TakenOff(mem, x, left)
      /\ allocated' = allocated \ {x} /\ UNCHANGED <<crashed, clients>>
      /\ IF size + loc[t].total <= MAX_CACHE_SIZE
         THEN Insert(t, left, size) /\ pc' = [pc EXCEPT ![t] = "done"]
         ELSE /\ mem' = left /\ list_size' = size
              /\ loc' = [loc EXCEPT ![t]["at"] = mem[x].prev]
              /\ UNCHANGED <<pc, mutex, history>>

(* The turn deletes an object of the list, never HEAD, and size is counted *)
(* without wrapping round (cache.c, write_node).                           *)
LEMMA EvictResult ==
  ASSUME IInv, NEW t \in Threads, Evict(t)
  PROVE  \E left : \E size \in Nat : Evicted(t, left, size)
<1> DEFINE node == loc[t].node
           x    == loc[t].at
           S    == allocated \ {node}
           size == list_size - mem[x].node_size
<1>0. PICK left : left = delete_node(mem, x)
  OBVIOUS
<1>1. pc[t] = "evict"
  BY DEF Evict
<1>2. /\ mutex = t /\ Alone(t)
      /\ allocated \in SUBSET Slots /\ node \in allocated /\ x \in S
      /\ left[TAIL].prev = mem[x].prev
  BY <1>0, <1>1, EvictState
<1>3. /\ mem \in [Nodes -> Node] /\ loc[t] \in Locals /\ IsFiniteSet(S)
      /\ \A y \in S : y \in Nodes /\ mem[y].node_size \in Nat
      /\ node \in Nodes
  BY <1>2, FS_Subset, CacheListAssumption DEF IInv, TypeOK, Nodes, Node
<1>4. IsChain(mem, S) /\ list_size = SizeOf(mem, S) /\ list_size <= MAX_CACHE_SIZE
  BY <1>1, <1>2 DEF Alone, Holding, Adding
<1> HIDE DEF S
<1>5. /\ left \in [Nodes -> Node]
      /\ IsChain(left, S \ {x})
      /\ \A y \in Nodes \ {x} : left[y].key = mem[y].key /\ left[y].node_size = mem[y].node_size
      /\ TakenOff(mem, x, left)
  <2>1. mem \in [Nodes -> Node] /\ IsChain(mem, S) /\ x \in S /\ left = delete_node(mem, x)
    BY <1>0, <1>2, <1>3, <1>4
  <2> HIDE DEF x
  <2>2. /\ left \in [Nodes -> Node] /\ IsChain(left, S \ {x})
        /\ SameFields(mem, left, Nodes \ {x}) /\ TakenOff(mem, x, left)
    BY <2>1, DeleteNodeResult
  <2> QED BY <2>2 DEF SameFields
<1>6. /\ size = SizeOf(mem, S \ {x}) /\ size \in Nat /\ mem[x].node_size \in Nat
      /\ size <= list_size
  <2>1. /\ SizeOf(mem, S) \in Nat /\ SizeOf(mem, S \ {x}) \in Nat
        /\ SizeOf(mem, S) = SizeOf(mem, S \ {x}) + mem[x].node_size
    BY <1>2, <1>3, SizeOfOneMore
  <2> QED BY <1>2, <1>3, <1>4, <2>1
<1>7. SizeOf(left, S \ {x}) = size
  <2> DEFINE T == S \ {x}
  <2>1. IsFiniteSet(T)
    BY <1>3, FS_RemoveElement
  <2>2. \A y \in T : mem[y].node_size \in Nat /\ left[y].node_size = mem[y].node_size
    BY <1>3, <1>5
  <2> HIDE DEF T
  <2>3. SizeOf(left, T) = SizeOf(mem, T)
    BY <2>1, <2>2, SizeOfSame
  <2> QED BY <1>6, <2>3 DEF T
<1>8. /\ size % SIZE_T = size /\ size \in 0..(SIZE_T - 1) /\ size <= MAX_CACHE_SIZE
      /\ x # HEAD
  <2>1. size < SIZE_T /\ size <= MAX_CACHE_SIZE
    BY <1>4, <1>6, ProxyAssumption DEF IInv, TypeOK
  <2>2. x # HEAD
    BY <1>2, CacheListAssumption DEF S
  <2> HIDE DEF size
  <2> QED BY <1>6, <2>1, <2>2, ProxyAssumption
<1>9. node # x /\ S \ {x} = (allocated \ {x}) \ {node} /\ node \in allocated \ {x}
  BY <1>2 DEF S
<1>10. left[node].node_size = mem[node].node_size /\ left[node].key = mem[node].key
  BY <1>3, <1>5, <1>9
<1>11. /\ allocated' = allocated \ {x} /\ UNCHANGED <<crashed, clients>>
       /\ IF size + loc[t].total <= MAX_CACHE_SIZE
          THEN Insert(t, left, size) /\ pc' = [pc EXCEPT ![t] = "done"]
          ELSE /\ mem' = left /\ list_size' = size
               /\ loc' = [loc EXCEPT ![t]["at"] = mem[x].prev]
               /\ UNCHANGED <<pc, mutex, history>>
  BY <1>0, <1>8 DEF Evict, Set
<1> HIDE DEF size
<1>12. Evicted(t, left, size)
  BY <1>2, <1>5, <1>7, <1>8, <1>9, <1>10, <1>11 DEF Evicted
<1> QED BY <1>6, <1>12

(* The last object is deleted; the new one is put in front or the loop     *)
(* goes on.                                                                *)
LEMMA EvictInv ==
  ASSUME IInv, NEW t \in Threads, Evict(t)
  PROVE  IInv'
<1> DEFINE node == loc[t].node
           x    == loc[t].at
           S    == (allocated \ {x}) \ {node}
<1>1. PICK left : \E size \in Nat : Evicted(t, left, size)
  BY EvictResult
<1>2. PICK size \in Nat : Evicted(t, left, size)
  BY <1>1
<1>3. /\ left \in [Nodes -> Node] /\ IsChain(left, S) /\ size = SizeOf(left, S)
      /\ size \in 0..(SIZE_T - 1) /\ size <= MAX_CACHE_SIZE
      /\ node \in allocated \ {x} /\ left[TAIL].prev = mem[x].prev
      /\ left[node].node_size = mem[node].node_size
      /\ allocated' = allocated \ {x} /\ UNCHANGED <<crashed, clients>>
      /\ IF size + loc[t].total <= MAX_CACHE_SIZE
         THEN Insert(t, left, size) /\ pc' = [pc EXCEPT ![t] = "done"]
         ELSE /\ mem' = left /\ list_size' = size
              /\ loc' = [loc EXCEPT ![t]["at"] = mem[x].prev]
              /\ UNCHANGED <<pc, mutex>>
  BY <1>2 DEF Evicted
<1>4. pc[t] = "evict"
  BY DEF Evict
<1>5. /\ mutex = t /\ Alone(t) /\ allocated \in SUBSET Slots
      /\ x \in allocated /\ x \in Nodes /\ mem \in [Nodes -> Node]
  BY <1>4, EvictState DEF IInv, TypeOK, Nodes
<1>6. CASE size + loc[t].total <= MAX_CACHE_SIZE
  <2>1. Adding(t) /\ allocated' \subseteq allocated /\ node \in allocated'
    BY <1>3, <1>4 DEF Adding
  <2>2. IsChain(left, allocated' \ {node}) /\ size = SizeOf(left, allocated' \ {node})
    BY <1>3
  <2> QED BY <1>3, <1>6, <2>1, <2>2, InsertInv
<1>7. CASE ~(size + loc[t].total <= MAX_CACHE_SIZE)
  <2>1. /\ mem' = left /\ list_size' = size /\ UNCHANGED <<pc, mutex>>
        /\ loc' = [loc EXCEPT ![t]["at"] = mem[x].prev]
    BY <1>3, <1>7
  <2>2. /\ loc' \in [Threads -> Locals] /\ loc'[t].at = mem[x].prev
        /\ loc'[t].node = node /\ SameAnswer(t)
    <3>1. mem[x].prev \in Pointers
      BY <1>5 DEF Node
    <3> QED BY <2>1, <3>1 DEF IInv, TypeOK, Locals, SameAnswer
  <2>3. TypeOK'
    BY <1>3, <1>5, <2>1, <2>2 DEF IInv, TypeOK
  <2>4. \A u \in Threads \ {t} : loc'[u] = loc[u]
    BY <2>1 DEF IInv, TypeOK
  <2>5. Alone(t)'
    <3>1. Locked(t)' /\ Holding(t)' /\ Adding(t)'
      BY <1>4, <2>1 DEF Locked, Holding, Adding
    <3>2. \A u \in Threads \ {t} : ~Locked(u)' /\ loc'[u].node = NULL
      BY <1>5, <2>1, <2>4 DEF Alone, Locked
    <3>3. /\ IsChain(mem', allocated' \ {loc'[t].node})
          /\ list_size' = SizeOf(mem', allocated' \ {loc'[t].node})
          /\ loc'[t].node \in allocated'
      BY <1>3, <2>1, <2>2
    <3>4. list_size' <= MAX_CACHE_SIZE /\ list_size' + loc'[t].total > MAX_CACHE_SIZE
      BY <1>3, <1>7, <2>1, <2>2, ProxyAssumption DEF Locals, IInv, TypeOK, SameAnswer
    <3>5. mem'[loc'[t].node].node_size = loc'[t].total
      BY <1>3, <1>4, <1>5, <2>1, <2>2 DEF Alone, Adding, SameAnswer
    <3>6. mutex' = t /\ loc'[t].at = mem'[TAIL].prev
      BY <1>3, <1>5, <2>1, <2>2
    <3> QED BY <3>1, <3>2, <3>3, <3>4, <3>5, <3>6 DEF Alone
  <2>6. StoresWhole'
    <3>1. ~loc[t].mask
      BY <1>4 DEF IInv, StoresWhole
    <3> QED BY <2>1, <2>2, <2>4, <3>1, StoresWholeKept DEF IInv
  <2> QED BY <1>5, <2>1, <2>3, <2>5, <2>6, LeaveAlone DEF IInv
<1> QED BY <1>6, <1>7

-----------------------------------------------------------------------------
(* Every step of every thread preserves the invariant.                     *)
LEMMA StepIInv == IInv /\ [Next]_vars => IInv'
<1> SUFFICES ASSUME IInv, [Next]_vars PROVE IInv'
  OBVIOUS
<1>1. ASSUME NEW t \in Threads, Step(t) PROVE IInv'
  <2>1. CASE Refuse(t) \/ ParseGet(t) \/ ConnectFails(t) \/ Connect(t) \/ Close(t)
    BY <2>1, ConnectionInv
  <2>2. CASE ParseNoPath(t) \/ CreateFails(t)
    BY <2>2, SameThreadsInv DEF ParseNoPath, CreateFails, Crash, IInv, TypeOK
  <2>3. CASE RelayEnd(t)
    BY <2>3, RelayInv
  <2>4. CASE ScanNext(t) \/ ScanFound(t) \/ ScanEnd(t) \/ ScanNull(t) \/ ScanFreed(t)
    BY <2>4, ScanInv
  <2>5. CASE GetLock(t) \/ PutLock(t)
    BY <2>5, LockInv
  <2>6. CASE FindMiss(t) \/ FindHit(t) \/ Relink(t)
    BY <2>6, FindMissInv, FindHitInv, RelinkInv
  <2>7. CASE Create(t) \/ Fit(t) \/ NoFit(t) \/ Evict(t)
    BY <2>7, CreateInv, FitInv, NoFitInv, EvictInv
  <2> QED BY <1>1, <2>1, <2>2, <2>3, <2>4, <2>5, <2>6, <2>7 DEF Step
<1>2. ASSUME NEW t \in Threads, Relay(t) PROVE IInv'
  BY <1>2, RelayInv
<1>3. ASSUME NEW t \in Threads, NEW uri \in Keys, Accept(t, uri) PROVE IInv'
  BY <1>3, ConnectionInv
<1>4. CASE AcceptFails \/ NoMoreClients \/ Quiet \/ UNCHANGED vars
  BY <1>4, SameThreadsInv DEF AcceptFails, Crash, NoMoreClients, Quiet, vars, IInv, TypeOK
<1> QED BY <1>1, <1>2, <1>3, <1>4 DEF Next

-----------------------------------------------------------------------------
(* The cache as its clients see it. *)

(* The invariant, with what the list has become since the mutex was taken. *)
RInv == IInv /\ Sections /\ before \in Seq(Object)

(* At first no thread is in a section and the cache is empty.              *)
LEMMA InitRInv == Init => RInv
<1> SUFFICES ASSUME Init PROVE RInv
  OBVIOUS
<1>1. \A t \in Threads : pc[t] = "idle"
  BY DEF Init
<1>2. Sections
  BY <1>1 DEF Sections, SectionOf, Adding
<1> QED BY <1>2, InitIInv DEF RInv, Init

(* The steps of LRUCache, in terms of what the clients see.                *)
LEMMA MissStep ==
  ASSUME NEW key \in Keys, Objects' = Objects, \A i \in DOMAIN Objects : Objects[i].key # key,
         last' = [op |-> "miss", key |-> key]
  PROVE  LRU!Next
<1>1. LRU!Miss(key)
  BY DEF LRU!Miss, LRU!Places, LRU!Done
<1> QED BY <1>1 DEF LRU!Next

(* The first object with the key becomes the first of all.                 *)
LEMMA HitStep ==
  ASSUME NEW key \in Keys, NEW i \in DOMAIN Objects, Objects[i].key = key,
         \A j \in DOMAIN Objects : Objects[j].key = key => i <= j,
         Objects' = <<Objects[i]>> \o RemoveAt(Objects, i),
         last' = [op |-> "hit", key |-> key]
  PROVE  LRU!Next
<1>1. LRU!Hit(key)
  BY DEF LRU!Hit, LRU!Places, LRU!Done, LRU!RemoveAt, RemoveAt
<1> QED BY <1>1 DEF LRU!Next

(* What LRUCache adds up is what CacheListProofs adds up.                  *)
LEMMA LRUSizeOf == \A s : LRU!SizeOf(s) = Total(s)
BY DEF LRU!SizeOf, LRU!FoldSeq, LRU!FoldFunction, LRU!FoldFunctionOnSet, LRU!MapThenFoldSet,
       Total, FoldSeq, FoldFunction, FoldFunctionOnSet, MapThenFoldSet

(* The new object comes in front of the first n.                           *)
LEMMA InsertStep ==
  ASSUME NEW key \in Keys, NEW size \in 0..MAX_OBJECT_SIZE, NEW n \in 0..Len(Objects),
         Total(SubSeq(Objects, 1, n)) + size <= MAX_CACHE_SIZE,
         n < Len(Objects) => Total(SubSeq(Objects, 1, n + 1)) + size > MAX_CACHE_SIZE,
         Objects' = <<[key |-> key, size |-> size]>> \o SubSeq(Objects, 1, n),
         last' = [op |-> "insert", key |-> key]
  PROVE  LRU!Next
<1>1. LRU!Insert(key, size)
  BY LRUSizeOf DEF LRU!Insert, LRU!Done
<1> QED BY <1>1 DEF LRU!Next

(* A step of one thread leaves the sections of the others as they are.     *)
LEMMA OthersKeepSections ==
  ASSUME RInv, IInv', NEW t \in Threads,
         \A u \in Threads \ {t} : pc'[u] = pc[u] /\ loc'[u] = loc[u],
         UNCHANGED <<mem, before>> \/ mutex = t \/ mutex' = t,
         SectionOf(t)'
  PROVE  Sections'
<1> SUFFICES ASSUME NEW u \in Threads, u # t PROVE SectionOf(u)'
  BY DEF Sections
<1>1. pc'[u] = pc[u] /\ loc'[u] = loc[u] /\ SectionOf(u)
  BY DEF RInv, Sections
<1>2. CASE UNCHANGED <<mem, before>>
  BY <1>1, <1>2 DEF SectionOf, Adding
<1>3. CASE mutex = t \/ mutex' = t
  <2>1. Locked(u) <=> mutex = u
    BY DEF RInv, IInv, CacheInv, Holders
  <2>2. Locked(u)' <=> mutex' = u
    BY DEF IInv, CacheInv, Holders
  <2>3. ~Locked(u) \/ ~Locked(u)'
    BY <1>3, <2>1, <2>2
  <2> QED BY <1>1, <2>3 DEF SectionOf, Adding, Locked
<1> QED BY <1>2, <1>3

(* Outside the critical sections nothing is seen.                          *)
LEMMA OutsideSteps ==
  ASSUME RInv, IInv', NEW t \in Threads,
         \A u \in Threads \ {t} : pc'[u] = pc[u] /\ loc'[u] = loc[u],
         UNCHANGED <<mem, mutex, before, last>>, ~Locked(t)',
         pc'[t] # "idle" => loc'[t].key \in Keys
  PROVE  RInv' /\ UNCHANGED <<Objects, last>>
<1>1. SectionOf(t)'
  BY DEF SectionOf, Locked, Adding
<1>2. Sections'
  BY <1>1, OthersKeepSections
<1> QED BY <1>2 DEF RInv, Objects

(* The process dies, or only its clients go.                               *)
LEMMA SameThreadsSteps ==
  ASSUME RInv, IInv', UNCHANGED <<list, mutex, pc, loc, before, last>>
  PROVE  RInv' /\ UNCHANGED <<Objects, last>>
BY DEF RInv, Sections, SectionOf, Adding, Objects, list

(* A connection is accepted, refused, parsed, made and closed.             *)
LEMMA ConnectionSteps ==
  ASSUME RInv, IInv', NEW t \in Threads,
         \/ \E uri \in Keys : Accept(t, uri)
         \/ Close(t) \/ Refuse(t) \/ ParseGet(t) \/ ConnectFails(t) \/ Connect(t)
  PROVE  RInv' /\ UNCHANGED <<Objects, last>>
<1> USE DEF Goto, Set
<1>1. /\ UNCHANGED <<list, mutex, before, last>>
      /\ \A u \in Threads \ {t} : pc'[u] = pc[u] /\ loc'[u] = loc[u]
      /\ pc'[t] \in {"request", "idle", "done", "get_lock", "relay"}
  BY DEF RInv, IInv, TypeOK, Accept, Close, Refuse, ParseGet, ConnectFails, Connect, history
<1>2. pc'[t] # "idle" => loc'[t].key \in Keys
  <2>1. pc[t] # "idle" => loc[t].key \in Keys
    BY DEF RInv, Sections, SectionOf
  <2> QED BY <2>1 DEF RInv, IInv, TypeOK, Locals, Accept, Close, Refuse, ParseGet, ConnectFails, Connect
<1>3. ~Locked(t)'
  BY <1>1 DEF Locked
<1> QED BY <1>1, <1>2, <1>3, OutsideSteps DEF list

(* The relay loop does not look at the cache.                              *)
LEMMA RelaySteps ==
  ASSUME RInv, IInv', NEW t \in Threads,
         Relay(t) \/ RelayEnd(t)
  PROVE  RInv' /\ UNCHANGED <<Objects, last>>
<1> USE DEF Goto, Set
<1>1. CASE Crash
  BY <1>1, SameThreadsSteps DEF Crash, history
<1>2. CASE ~Crash
  <2>1. /\ pc[t] = "relay" /\ UNCHANGED <<list, mutex, before, last>>
        /\ pc' = pc \/ pc' = [pc EXCEPT ![t] = IF loc[t].mask THEN "done" ELSE "scan"]
        /\ \/ \E total, sent : loc' = [loc EXCEPT ![t].total = total, ![t].sent = sent]
           \/ \E sent : loc' = [loc EXCEPT ![t].mask = TRUE, ![t].sent = sent]
           \/ \E at : loc' = [loc EXCEPT ![t]["at"] = at]
    BY <1>2 DEF Relay, RelayRead, RelayEnd, history
  <2>2. loc[t].key \in Keys
    BY <2>1 DEF RInv, Sections, SectionOf
  <2>3. /\ \A u \in Threads \ {t} : pc'[u] = pc[u] /\ loc'[u] = loc[u]
        /\ pc'[t] \in {"relay", "done", "scan"}
    BY <2>1 DEF RInv, IInv, TypeOK
  <2>4. loc'[t].key = loc[t].key
    <3>1. loc[t] \in Locals /\ loc \in [Threads -> Locals]
      BY DEF RInv, IInv, TypeOK
    <3>2. CASE \E total, sent : loc' = [loc EXCEPT ![t].total = total, ![t].sent = sent]
      BY ONLY <3>1, <3>2, t \in Threads DEF Locals
    <3>3. CASE \E sent : loc' = [loc EXCEPT ![t].mask = TRUE, ![t].sent = sent]
      BY ONLY <3>1, <3>3, t \in Threads DEF Locals
    <3>4. CASE \E at : loc' = [loc EXCEPT ![t]["at"] = at]
      BY ONLY <3>1, <3>4, t \in Threads DEF Locals
    <3> QED BY ONLY <2>1, <3>2, <3>3, <3>4
  <2>5. ~Locked(t)'
    BY <2>3 DEF Locked
  <2> QED BY <2>1, <2>2, <2>3, <2>4, <2>5, OutsideSteps DEF list
<1> QED BY <1>1, <1>2

(* The walk without the mutex changes nothing in the cache.                *)
LEMMA ScanSteps ==
  ASSUME RInv, IInv', NEW t \in Threads,
         ScanNext(t) \/ ScanFound(t) \/ ScanEnd(t) \/ ScanNull(t) \/ ScanFreed(t)
  PROVE  RInv' /\ UNCHANGED <<Objects, last>>
<1> USE DEF Goto, Set
<1>1. CASE Crash
  BY <1>1, SameThreadsSteps DEF Crash, history
<1>2. CASE ~Crash
  <2>1. /\ pc[t] = "scan" /\ UNCHANGED <<list, mutex, before, last>>
        /\ pc' \in {pc, [pc EXCEPT ![t] = "scan"], [pc EXCEPT ![t] = "done"],
                    [pc EXCEPT ![t] = "put_lock"]}
        /\ \E at : loc' = [loc EXCEPT ![t]["at"] = at]
    BY <1>2 DEF ScanNext, ScanFound, ScanEnd, ScanNull, ScanFreed, history
  <2>2. loc[t].key \in Keys
    BY <2>1 DEF RInv, Sections, SectionOf
  <2>3. /\ \A u \in Threads \ {t} : pc'[u] = pc[u] /\ loc'[u] = loc[u]
        /\ pc'[t] \in {"scan", "done", "put_lock"}
    BY <2>1 DEF RInv, IInv, TypeOK
  <2>4. loc'[t].key = loc[t].key
    BY <2>1 DEF RInv, IInv, TypeOK, Locals
  <2>5. ~Locked(t)'
    BY <2>3 DEF Locked
  <2> QED BY <2>1, <2>2, <2>3, <2>4, <2>5, OutsideSteps DEF list
<1> QED BY <1>1, <1>2

(* What a thread in a section sees of its list.                            *)
LEMMA SectionList ==
  ASSUME RInv, NEW t \in Threads, mutex \in {t, Nobody}
  PROVE  /\ mem \in [Nodes -> Node] /\ allocated \in SUBSET Slots
         /\ IsChain(mem, allocated \ {loc[t].node})
         /\ ObjectsOf(mem) \in Seq(Object)
         /\ Len(ListOf(mem)) = Len(ObjectsOf(mem))
<1>1. mem \in [Nodes -> Node] /\ allocated \in SUBSET Slots
  BY DEF RInv, IInv, TypeOK
<1>2. IsChain(mem, allocated \ {loc[t].node})
  BY EnterAlone DEF RInv, IInv, Alone
<1>3. ObjectsOf(mem) \in Seq(Object) /\ Len(ListOf(mem)) = Len(ObjectsOf(mem))
  BY <1>1, <1>2, NodeWithKeyPlace
<1> QED BY <1>1, <1>2, <1>3

(* The mutex is taken: the objects are now those it was taken with.        *)
LEMMA LockSteps ==
  ASSUME RInv, IInv', NEW t \in Threads, GetLock(t) \/ PutLock(t)
  PROVE  RInv' /\ UNCHANGED <<Objects, last>>
<1>1. /\ mutex = Nobody /\ mutex' = t /\ before' = ObjectsOf(mem)
      /\ UNCHANGED <<list, loc, last>>
      /\ pc[t] \in {"get_lock", "put_lock"}
      /\ pc' = [pc EXCEPT ![t] = IF pc[t] = "get_lock" THEN "find" ELSE "create"]
  BY DEF GetLock, PutLock, Goto, Lock
<1>2. /\ \A u \in Threads \ {t} : pc'[u] = pc[u]
      /\ pc'[t] \in {"find", "create"}
  BY <1>1 DEF RInv, IInv, TypeOK
<1>3. before' \in Seq(Object) /\ before' = ObjectsOf(mem')
  BY <1>1, SectionList DEF list
<1>4. SectionOf(t)'
  <2>1. loc[t].key \in Keys
    BY <1>1 DEF RInv, Sections, SectionOf
  <2> QED BY <1>1, <1>2, <1>3, <2>1 DEF SectionOf, Adding
<1>5. Sections'
  BY <1>1, <1>2, <1>4, OthersKeepSections
<1>6. UNCHANGED Objects
  BY <1>1, <1>3, ProxyAssumption DEF Objects
<1> QED BY <1>1, <1>3, <1>5, <1>6 DEF RInv

(* What a thread that has the mutex knows of its section.                  *)
LEMMA OwnSection ==
  ASSUME RInv, NEW t \in Threads, Locked(t)
  PROVE  /\ mutex = t /\ Objects = before /\ SectionOf(t)
         /\ before \in Seq(Object) /\ loc[t].key \in Keys
<1>1. mutex = t
  BY InSection DEF RInv
<1>2. SectionOf(t)
  BY DEF RInv, Sections
<1> QED BY <1>1, <1>2, ProxyAssumption DEF Objects, SectionOf, Locked, RInv

(* The key is not there: a miss.                                           *)
LEMMA FindMissSteps ==
  ASSUME RInv, IInv', NEW t \in Threads, FindMiss(t)
  PROVE  RInv' /\ LRU!Next
<1>1. /\ NodeWithKey(mem, loc[t].key) = NULL
      /\ mutex' = Nobody /\ before' = << >> /\ UNCHANGED <<list, loc>>
      /\ last' = [op |-> "miss", key |-> loc[t].key]
      /\ pc[t] = "find" /\ pc' = [pc EXCEPT ![t] = "connect"]
  BY DEF FindMiss, Goto, Unlock
<1>2. (\A u \in Threads \ {t} : pc'[u] = pc[u]) /\ pc'[t] = "connect"
  BY <1>1 DEF RInv, IInv, TypeOK
<1>3. /\ mutex = t /\ Objects = before /\ SectionOf(t)
      /\ before \in Seq(Object) /\ loc[t].key \in Keys
  BY <1>1, OwnSection DEF Locked
<1>4. Objects = ObjectsOf(mem) /\ Objects' = ObjectsOf(mem)
  BY <1>1, <1>3 DEF SectionOf, Objects, list
<1>5. \A i \in DOMAIN Objects : Objects[i].key # loc[t].key
  <2>1. \A i \in 1..Len(ObjectsOf(mem)) : ObjectsOf(mem)[i].key # loc[t].key
    <3>1. mutex \in {t, Nobody}
      BY <1>3
    <3>2. mem \in [Nodes -> Node] /\ IsChain(mem, allocated \ {loc[t].node})
      BY <3>1, SectionList
    <3> QED BY <1>1, <3>2, NodeWithKeyPlace
  <2> QED BY <1>3, <1>4, <2>1
<1>6. LRU!Next
  BY <1>1, <1>3, <1>4, <1>5, MissStep
<1>7. SectionOf(t)'
  BY <1>1, <1>2, <1>3 DEF SectionOf, Adding
<1>8. Sections'
  BY <1>1, <1>2, <1>3, <1>7, OthersKeepSections
<1> QED BY <1>1, <1>6, <1>8 DEF RInv

(* The key is there: its first object is taken off the list.               *)
LEMMA FindHitSteps ==
  ASSUME RInv, IInv', NEW t \in Threads, FindHit(t)
  PROVE  RInv' /\ UNCHANGED <<Objects, last>>
<1> DEFINE node == NodeWithKey(mem, loc[t].key)
           key  == loc[t].key
<1>1. /\ node # NULL /\ mem' = Unlink(mem, node)
      /\ UNCHANGED <<mutex, before, last>>
      /\ pc[t] = "find" /\ pc' = [pc EXCEPT ![t] = "relink"]
      /\ loc' = [loc EXCEPT ![t]["node"] = node]
  BY DEF FindHit, Goto, Set, history
<1>2. /\ mutex = t /\ Objects = before /\ SectionOf(t)
      /\ before \in Seq(Object) /\ key \in Keys
  BY <1>1, OwnSection DEF Locked
<1>3. ObjectsOf(mem) = before
  BY <1>1, <1>2 DEF SectionOf
<1>4. /\ mem \in [Nodes -> Node] /\ allocated \in SUBSET Slots
      /\ IsChain(mem, allocated \ {loc[t].node})
      /\ Len(ListOf(mem)) = Len(ObjectsOf(mem))
  BY <1>2, SectionList
<1> DEFINE S == allocated \ {loc[t].node}
<1>a. node \in S /\ node \in Nodes
  BY <1>1, <1>4, NodeWithKeyResult DEF Nodes
<1>5. PICK k \in 1..Len(before) :
        /\ ListOf(mem)[k] = node /\ before[k] = ObjectAt(mem, node) /\ before[k].key = key
        /\ \A i \in 1..Len(before) : before[i].key = key => k <= i
  BY <1>1, <1>3, <1>4, NodeWithKeyPlace
<1> HIDE DEF node
<1>6. SameFields(mem, mem', Nodes) /\ TakenOff(mem, node, mem')
  <2>1. IsChain(mem, S) /\ node \in S
    BY <1>4, <1>a
  <2> HIDE DEF S
  <2> QED BY <1>1, <1>4, <2>1, UnlinkResult
<1>7. ObjectsOf(mem') = RemoveAt(before, k)
  BY <1>3, <1>4, <1>5, <1>6 DEF TakenOff
<1>8. /\ \A u \in Threads \ {t} : pc'[u] = pc[u] /\ loc'[u] = loc[u]
      /\ pc'[t] = "relink" /\ loc'[t].node = node /\ loc'[t].key = key
  BY <1>1 DEF RInv, IInv, TypeOK, Locals
<1>9. before[k] = [key |-> mem'[node].key, size |-> mem'[node].node_size]
  BY <1>5, <1>6, <1>a DEF ObjectAt, SameFields
<1>10. SectionOf(t)'
  <2>1. \E i \in DOMAIN before :
         /\ before[i] = [key |-> mem'[node].key, size |-> mem'[node].node_size]
         /\ before[i].key = key
         /\ \A j \in DOMAIN before : before[j].key = key => i <= j
         /\ ObjectsOf(mem') = RemoveAt(before, i)
    <3>1. DOMAIN before = 1..Len(before)
      BY <1>2
    <3> QED BY <1>5, <1>7, <1>9, <3>1
  <2> HIDE DEF key
  <2> QED BY <1>1, <1>2, <1>8, <2>1 DEF SectionOf, Adding
<1>11. Sections'
  BY <1>1, <1>2, <1>8, <1>10, OthersKeepSections
<1>12. Objects' = Objects
  BY <1>1, <1>2, ProxyAssumption DEF Objects
<1> QED BY <1>1, <1>11, <1>12 DEF RInv

(* It is put in front: a hit.                                              *)
LEMMA RelinkSteps ==
  ASSUME RInv, IInv', NEW t \in Threads, Relink(t)
  PROVE  RInv' /\ LRU!Next
<1> DEFINE node == loc[t].node
           key  == loc[t].key
<1>1. /\ mem' = PushFront(mem, node) /\ mutex' = Nobody /\ before' = << >>
      /\ last' = [op |-> "hit", key |-> key]
      /\ pc[t] = "relink" /\ pc' = [pc EXCEPT ![t] = "done"]
      /\ loc' = [loc EXCEPT ![t]["node"] = NULL]
  BY DEF Relink, Goto, Set, Unlock
<1>2. /\ mutex = t /\ Objects = before /\ SectionOf(t)
      /\ before \in Seq(Object) /\ key \in Keys
  BY <1>1, OwnSection DEF Locked
<1>3. PICK i \in DOMAIN before :
         /\ before[i] = [key |-> mem[node].key, size |-> mem[node].node_size]
         /\ before[i].key = key
         /\ \A j \in DOMAIN before : before[j].key = key => i <= j
         /\ ObjectsOf(mem) = RemoveAt(before, i)
  BY <1>1, <1>2 DEF SectionOf
<1>4. /\ mem \in [Nodes -> Node] /\ allocated \in SUBSET Slots
      /\ IsChain(mem, allocated \ {node})
  BY <1>2, SectionList
<1>5. node \in allocated
  BY <1>1 DEF RInv, IInv, CacheInv, Holders, Holding
<1>6. ObjectsOf(mem') = <<before[i]>> \o RemoveAt(before, i)
  <2> HIDE DEF node
  <2>1. node \in Slots \ (allocated \ {node})
    BY <1>4, <1>5
  <2>2. ObjectsOf(mem') = <<ObjectAt(mem, node)>> \o ObjectsOf(mem)
    BY <1>1, <1>4, <2>1, PushFrontResult
  <2> QED BY <1>3, <2>2 DEF ObjectAt
<1>7. Objects' = <<Objects[i]>> \o RemoveAt(Objects, i)
  BY <1>1, <1>2, <1>6 DEF Objects
<1>8. LRU!Next
  BY <1>1, <1>2, <1>3, <1>7, HitStep
<1>9. /\ \A u \in Threads \ {t} : pc'[u] = pc[u] /\ loc'[u] = loc[u]
      /\ pc'[t] = "done" /\ loc'[t].key = key
  BY <1>1 DEF RInv, IInv, TypeOK, Locals
<1>10. SectionOf(t)'
  BY <1>2, <1>9 DEF SectionOf, Adding
<1>11. Sections'
  BY <1>2, <1>9, <1>10, OthersKeepSections
<1> QED BY <1>1, <1>8, <1>11 DEF RInv

(* The new node has the key, and is not on the list yet.                   *)
LEMMA CreateSteps ==
  ASSUME RInv, IInv', NEW t \in Threads, Create(t)
  PROVE  RInv' /\ UNCHANGED <<Objects, last>>
<1>1. PICK n \in Slots \ allocated :
        /\ mem' = [mem EXCEPT ![n] = create_node(loc[t].key, loc[t].total)]
        /\ loc' = [loc EXCEPT ![t]["node"] = n]
  BY DEF Create, Set
<1>2. /\ UNCHANGED <<mutex, before, last>>
      /\ pc[t] = "create" /\ pc' = [pc EXCEPT ![t] = "fit"]
  BY DEF Create, Goto, history
<1>3. /\ mutex = t /\ Objects = before /\ SectionOf(t)
      /\ before \in Seq(Object) /\ loc[t].key \in Keys
  BY <1>2, OwnSection DEF Locked
<1>4. /\ mem \in [Nodes -> Node] /\ allocated \in SUBSET Slots
      /\ IsChain(mem, allocated \ {loc[t].node})
  BY <1>3, SectionList
<1>5. n \in Nodes /\ n \notin allocated \cup {HEAD, TAIL}
  BY CacheListAssumption DEF Nodes
<1>6. /\ \A y \in Nodes \ {n} : mem'[y] = mem[y]
      /\ mem'[n].key = loc[t].key
  <2>1. create_node(loc[t].key, loc[t].total).key = loc[t].key
    BY DEF create_node, create_empty_node
  <2> QED BY <1>1, <1>4, <1>5, <2>1
<1>7. ObjectsOf(mem') = ObjectsOf(mem)
  <2> DEFINE S == allocated \ {loc[t].node}
  <2>1. S \cup {HEAD, TAIL} \subseteq Nodes \ {n}
    BY <1>4, <1>5 DEF Nodes
  <2>2. IsChain(mem, S)
    BY <1>4
  <2> HIDE DEF S
  <2>3. ListOf(mem') = ListOf(mem)
    BY <1>6, <2>1, <2>2, SameLinks
  <2> QED BY <1>6, <2>1, <2>2, <2>3, SameObjects
<1>8. /\ \A u \in Threads \ {t} : pc'[u] = pc[u] /\ loc'[u] = loc[u]
      /\ pc'[t] = "fit" /\ loc'[t].node = n /\ loc'[t].key = loc[t].key
  BY <1>1, <1>2 DEF RInv, IInv, TypeOK, Locals
<1>9. SectionOf(t)'
  BY <1>2, <1>3, <1>6, <1>7, <1>8 DEF SectionOf, Adding
<1>10. Sections'
  BY <1>2, <1>3, <1>8, <1>9, OthersKeepSections
<1>11. Objects' = Objects
  BY <1>2, <1>3, ProxyAssumption DEF Objects
<1> QED BY <1>2, <1>10, <1>11 DEF RInv

(* The end of write_node, when the first n objects are left: an insertion. *)
LEMMA InsertSteps ==
  ASSUME RInv, IInv', NEW t \in Threads, Adding(t),
         NEW m \in [Nodes -> Node], NEW size \in Nat, NEW n \in 0..Len(before),
         NEW S \in SUBSET Slots, IsChain(m, S), loc[t].node \in Slots \ S,
         ObjectsOf(m) = SubSeq(before, 1, n), size = SizeOf(m, S),
         ObjectAt(m, loc[t].node) = ObjectAt(mem, loc[t].node),
         size + loc[t].total <= MAX_CACHE_SIZE,
         n < Len(before) => Total(SubSeq(before, 1, n + 1)) + loc[t].total > MAX_CACHE_SIZE,
         Insert(t, m, size), pc' = [pc EXCEPT ![t] = "done"]
  PROVE  RInv' /\ LRU!Next
<1> DEFINE node == loc[t].node
           key  == loc[t].key
<1>1. /\ mem' = PushFront(m, node) /\ mutex' = Nobody /\ before' = << >>
      /\ last' = [op |-> "insert", key |-> key]
      /\ loc' = [loc EXCEPT ![t].node = NULL, ![t].at = NULL]
  BY DEF Insert, Unlock
<1>2. /\ mutex = t /\ Objects = before /\ SectionOf(t)
      /\ before \in Seq(Object) /\ key \in Keys
  BY OwnSection DEF Locked, Adding
<1>3. ObjectAt(m, node) = [key |-> key, size |-> loc[t].total]
  BY <1>2 DEF SectionOf, RInv, IInv, CacheInv, SizeKept, ObjectAt
<1>4. ObjectsOf(mem') = <<ObjectAt(m, node)>> \o SubSeq(before, 1, n)
  <2> HIDE DEF node
  <2>1. node \in Slots \ S
    BY DEF node
  <2>2. ObjectsOf(mem') = <<ObjectAt(m, node)>> \o ObjectsOf(m)
    BY <1>1, <2>1, PushFrontResult
  <2> QED BY <2>2
<1>5. Objects' = <<[key |-> key, size |-> loc[t].total]>> \o SubSeq(Objects, 1, n)
  BY <1>1, <1>2, <1>3, <1>4 DEF Objects
<1>6. Total(SubSeq(Objects, 1, n)) + loc[t].total <= MAX_CACHE_SIZE
  BY <1>2, TotalIsSizeOf
<1>7. loc[t].total \in 0..MAX_OBJECT_SIZE
  BY DEF RInv, IInv, TypeOK, Locals
<1>8. LRU!Next
  <2> HIDE DEF key
  <2> QED BY <1>1, <1>2, <1>5, <1>6, <1>7, InsertStep
<1>9. /\ \A u \in Threads \ {t} : pc'[u] = pc[u] /\ loc'[u] = loc[u]
      /\ pc'[t] = "done" /\ loc'[t].key = key
  BY <1>1 DEF RInv, IInv, TypeOK, Locals
<1>10. SectionOf(t)'
  BY <1>2, <1>9 DEF SectionOf, Adding
<1>11. Sections'
  BY <1>2, <1>9, <1>10, OthersKeepSections
<1> QED BY <1>1, <1>8, <1>11 DEF RInv

(* The new object fits with all the others.                                *)
LEMMA FitSteps ==
  ASSUME RInv, IInv', NEW t \in Threads, Fit(t)
  PROVE  RInv' /\ LRU!Next
<1> DEFINE S == allocated \ {loc[t].node}
           n == Len(before)
<1>1. /\ list_size + loc[t].total <= MAX_CACHE_SIZE /\ Insert(t, mem, list_size)
      /\ pc[t] = "fit" /\ pc' = [pc EXCEPT ![t] = "done"]
  BY DEF Fit, Goto
<1>2. /\ mutex = t /\ SectionOf(t) /\ before \in Seq(Object)
  BY <1>1, OwnSection DEF Locked
<1>3. /\ mem \in [Nodes -> Node] /\ allocated \in SUBSET Slots /\ IsChain(mem, S)
  BY <1>2, SectionList
<1>4. Alone(t) /\ Adding(t) /\ Holding(t)
  BY <1>1, InSection DEF Locked, Adding, Holding, RInv
<1>5. /\ list_size = SizeOf(mem, S) /\ list_size \in Nat
      /\ loc[t].node \in Slots \ S /\ S \in SUBSET Slots
  BY <1>3, <1>4, ProxyAssumption DEF Alone, RInv, IInv, TypeOK
<1>6. ObjectsOf(mem) = SubSeq(before, 1, n) /\ n \in 0..Len(before) /\ ~(n < Len(before))
  <2>1. SubSeq(before, 1, Len(before)) = before
    BY <1>2
  <2> QED BY <1>1, <1>2, <2>1 DEF SectionOf
<1> HIDE DEF S, n
<1> QED BY <1>1, <1>3, <1>4, <1>5, <1>6, InsertSteps

(* It does not: the eviction loop starts with all of them.                 *)
LEMMA NoFitSteps ==
  ASSUME RInv, IInv', NEW t \in Threads, NoFit(t)
  PROVE  RInv' /\ UNCHANGED <<Objects, last>>
<1>1. /\ UNCHANGED <<list, mutex, before, last>>
      /\ pc[t] = "fit" /\ pc' = [pc EXCEPT ![t] = "evict"]
      /\ loc' = [loc EXCEPT ![t]["at"] = mem[TAIL].prev]
  BY DEF NoFit, Goto, Set, history
<1>2. /\ mutex = t /\ SectionOf(t) /\ before \in Seq(Object)
  BY <1>1, OwnSection DEF Locked
<1>3. \E n \in 0..Len(before) : ObjectsOf(mem) = SubSeq(before, 1, n)
  <2>1. SubSeq(before, 1, Len(before)) = before /\ Len(before) \in 0..Len(before)
    BY <1>2
  <2> QED BY <1>1, <1>2, <2>1 DEF SectionOf
<1>4. /\ \A u \in Threads \ {t} : pc'[u] = pc[u] /\ loc'[u] = loc[u]
      /\ pc'[t] = "evict" /\ loc'[t].key = loc[t].key /\ loc'[t].node = loc[t].node
  BY <1>1 DEF RInv, IInv, TypeOK, Locals
<1>5. SectionOf(t)'
  BY <1>1, <1>2, <1>3, <1>4 DEF SectionOf, Adding, list
<1>6. Sections'
  BY <1>1, <1>2, <1>4, <1>5, OthersKeepSections
<1> QED BY <1>1, <1>6 DEF RInv, Objects, list

(* One turn of the eviction loop: one object less, or the insertion, with  *)
(* no more objects gone than had to.                                       *)
LEMMA EvictSteps ==
  ASSUME RInv, IInv', NEW t \in Threads, Evict(t)
  PROVE  RInv' /\ [LRU!Next]_<<Objects, last>>
<1> DEFINE node == loc[t].node
           x    == loc[t].at
           S    == (allocated \ {x}) \ {node}
           T    == allocated \ {node}
<1>1. PICK left : \E size \in Nat : Evicted(t, left, size)
  BY EvictResult DEF RInv
<1>2. PICK size \in Nat : Evicted(t, left, size)
  BY <1>1
<1>3. pc[t] = "evict"
  BY DEF Evict
<1>4. mutex = t /\ Objects = before /\ SectionOf(t) /\ before \in Seq(Object)
  BY <1>3, OwnSection DEF Locked
<1>5. /\ mem \in [Nodes -> Node] /\ allocated \in SUBSET Slots /\ IsChain(mem, T)
      /\ Len(ListOf(mem)) = Len(ObjectsOf(mem))
  BY <1>4, SectionList
<1>6. x = mem[TAIL].prev /\ x \in T /\ list_size + loc[t].total > MAX_CACHE_SIZE
      /\ list_size = SizeOf(mem, T)
  BY <1>3, EvictState DEF RInv, IInv, CacheInv, EvictsLast, Alone, Adding
<1>7. PICK n \in 0..Len(before) : ObjectsOf(mem) = SubSeq(before, 1, n)
  BY <1>3, <1>4 DEF SectionOf
<1>8. /\ n \in 1..Len(before) /\ n - 1 \in 0..Len(before)
      /\ Len(ObjectsOf(mem)) = n /\ x = ListOf(mem)[n]
  <2>1. Len(SubSeq(before, 1, n)) = n
    BY <1>4
  <2> HIDE DEF T
  <2>2. T # {}
    BY <1>6
  <2>3. Len(ListOf(mem)) \in Nat \ {0} /\ mem[TAIL].prev = ListOf(mem)[Len(ListOf(mem))]
    BY <1>5, <2>2, LastNode
  <2> QED BY <1>5, <1>6, <1>7, <2>1, <2>3
<1>9. ObjectsOf(left) = SubSeq(before, 1, n - 1)
  <2>1. ObjectsOf(left) = RemoveAt(ObjectsOf(mem), n)
    BY <1>2, <1>5, <1>8 DEF Evicted, TakenOff
  <2>2. RemoveAt(ObjectsOf(mem), n) = SubSeq(before, 1, n - 1)
    <3> DEFINE s == SubSeq(before, 1, n)
    <3>1. s \in Seq(Object) /\ Len(s) = n /\ n \in 1..Len(s) /\ \A i \in 1..n : s[i] = before[i]
      BY <1>4, <1>8
    <3> HIDE DEF s
    <3>2. RemoveAt(s, n) = [i \in 1..(Len(s) - 1) |-> IF i < n THEN s[i] ELSE s[i + 1]]
      BY <3>1, RemoveAtIs
    <3>3. RemoveAt(s, n) = [i \in 1..(n - 1) |-> before[i]]
      BY <3>1, <3>2, <1>8
    <3>4. SubSeq(before, 1, n - 1) = [i \in 1..(n - 1) |-> before[i]]
      BY <1>4, <1>8, FirstOnesAre
    <3> QED BY <1>7, <3>3, <3>4 DEF s
  <2> QED BY <2>1, <2>2
<1>10. Total(SubSeq(before, 1, (n - 1) + 1)) + loc[t].total > MAX_CACHE_SIZE
  <2>1. (n - 1) + 1 = n
    BY <1>8
  <2>2. Total(ObjectsOf(mem)) = list_size
    BY <1>5, <1>6, TotalIsSizeOf
  <2> QED BY <1>6, <1>7, <2>1, <2>2
<1>11. CASE size + loc[t].total <= MAX_CACHE_SIZE
  <2>1. Insert(t, left, size) /\ pc' = [pc EXCEPT ![t] = "done"]
    BY <1>2, <1>11 DEF Evicted
  <2>2. /\ left \in [Nodes -> Node] /\ IsChain(left, S) /\ size = SizeOf(left, S)
        /\ ObjectAt(left, node) = ObjectAt(mem, node) /\ node \in Slots \ S
        /\ S \in SUBSET Slots
    BY <1>2, <1>5 DEF Evicted, ObjectAt
  <2>3. Adding(t)
    BY <1>3 DEF Adding
  <2> HIDE DEF S
  <2> DEFINE k == n - 1
  <2>4. /\ k \in 0..Len(before) /\ ObjectsOf(left) = SubSeq(before, 1, k)
        /\ Total(SubSeq(before, 1, k + 1)) + loc[t].total > MAX_CACHE_SIZE
    BY <1>8, <1>9, <1>10
  <2> HIDE DEF k
  <2> QED BY <1>11, <2>1, <2>2, <2>3, <2>4, InsertSteps
<1>12. CASE ~(size + loc[t].total <= MAX_CACHE_SIZE)
  <2>1. /\ mem' = left /\ loc' = [loc EXCEPT ![t]["at"] = mem[x].prev]
        /\ UNCHANGED <<pc, mutex, before, last>>
        /\ left[node].key = mem[node].key
    BY <1>2, <1>12 DEF Evicted, history
  <2>2. /\ \A u \in Threads \ {t} : pc'[u] = pc[u] /\ loc'[u] = loc[u]
        /\ loc'[t].key = loc[t].key /\ loc'[t].node = node
    BY <2>1 DEF RInv, IInv, TypeOK, Locals
  <2>3. SectionOf(t)'
    BY <1>3, <1>4, <1>8, <1>9, <2>1, <2>2 DEF SectionOf, Adding
  <2>4. Sections'
    BY <1>4, <2>2, <2>3, OthersKeepSections
  <2>5. UNCHANGED Objects
    BY <1>4, <2>1, ProxyAssumption DEF Objects
  <2> QED BY <2>1, <2>4, <2>5 DEF RInv
<1> QED BY <1>11, <1>12

(* Every step of every thread is a step of LRUCache, or changes nothing of *)
(* what the clients see.                                                   *)
LEMMA StepRInv == RInv /\ [Next]_vars => RInv' /\ [LRU!Next]_<<Objects, last>>
<1> SUFFICES ASSUME RInv, [Next]_vars PROVE RInv' /\ [LRU!Next]_<<Objects, last>>
  OBVIOUS
<1>0. IInv'
  BY StepIInv DEF RInv
<1>1. ASSUME NEW t \in Threads, Step(t) PROVE RInv' /\ [LRU!Next]_<<Objects, last>>
  <2>1. CASE Refuse(t) \/ ParseGet(t) \/ ConnectFails(t) \/ Connect(t) \/ Close(t)
    BY <1>0, <2>1, ConnectionSteps
  <2>2. CASE ParseNoPath(t) \/ CreateFails(t)
    BY <1>0, <2>2, SameThreadsSteps DEF ParseNoPath, CreateFails, Crash, history
  <2>3. CASE RelayEnd(t)
    BY <1>0, <2>3, RelaySteps
  <2>4. CASE ScanNext(t) \/ ScanFound(t) \/ ScanEnd(t) \/ ScanNull(t) \/ ScanFreed(t)
    BY <1>0, <2>4, ScanSteps
  <2>5. CASE GetLock(t) \/ PutLock(t)
    BY <1>0, <2>5, LockSteps
  <2>6. CASE FindMiss(t) \/ FindHit(t) \/ Relink(t)
    BY <1>0, <2>6, FindMissSteps, FindHitSteps, RelinkSteps
  <2>7. CASE Create(t) \/ Fit(t) \/ NoFit(t) \/ Evict(t)
    BY <1>0, <2>7, CreateSteps, FitSteps, NoFitSteps, EvictSteps
  <2> QED BY <1>1, <2>1, <2>2, <2>3, <2>4, <2>5, <2>6, <2>7 DEF Step
<1>2. ASSUME NEW t \in Threads, Relay(t) PROVE RInv' /\ [LRU!Next]_<<Objects, last>>
  BY <1>0, <1>2, RelaySteps
<1>3. ASSUME NEW t \in Threads, NEW uri \in Keys, Accept(t, uri)
      PROVE  RInv' /\ [LRU!Next]_<<Objects, last>>
  BY <1>0, <1>3, ConnectionSteps
<1>4. CASE AcceptFails \/ NoMoreClients \/ Quiet \/ UNCHANGED vars
  BY <1>0, <1>4, SameThreadsSteps DEF AcceptFails, Crash, NoMoreClients, Quiet, vars, history
<1> QED BY <1>1, <1>2, <1>3, <1>4 DEF Next

(* The shared list is at every step of every thread what it should be, and *)
(* each section has done to it what it should (cache.c).                   *)
THEOREM ProxyInvariant == Spec => []ProxyInv
<1>1. Init => RInv
  BY InitRInv
<1>2. RInv /\ [Next]_vars => RInv'
  BY StepRInv
<1>3. RInv => ProxyInv
  BY ChainIsWellLinked DEF RInv, IInv, CacheInv, ProxyInv
<1> QED BY <1>1, <1>2, <1>3, PTL DEF Spec

(* get_value and write_node, whatever threads interleave with them, do to  *)
(* the objects what an LRU cache does in one step (cache.c).               *)
THEOREM RefinesLRU == Spec => ImplementsLRU
<1>1. Init => RInv
  BY InitRInv
<1>2. Init => LRU!Init
  BY InitChain DEF Init, LRU!Init, Objects
<1>3. RInv /\ [Next]_vars => RInv'
  BY StepRInv
<1>4. RInv /\ [Next]_vars => [LRU!Next]_<<Objects, last>>
  BY StepRInv
<1> QED BY <1>1, <1>2, <1>3, <1>4, PTL DEF Spec, ImplementsLRU, LRU!Spec

-----------------------------------------------------------------------------
(* Whatever the server sends, in whatever pieces, and wherever an error    *)
(* breaks it off: a node that goes on the list has the size of all that    *)
(* was sent (proxy.c, doit; cache.c, write_node).                          *)
THEOREM OnlyWholeResponses == Spec => []StoredAsSent
<1>1. ProxyInv => StoredAsSent
  <2> SUFFICES ASSUME ProxyInv, NEW t \in Threads, Adding(t)
               PROVE  /\ mem[loc[t].node].node_size = loc[t].sent
                      /\ loc[t].sent <= MAX_OBJECT_SIZE
    BY DEF StoredAsSent
  <2>1. mem[loc[t].node].node_size = loc[t].total
    BY DEF ProxyInv, SizeKept
  <2>2. loc[t].total = loc[t].sent
    BY DEF ProxyInv, StoresWhole, Adding
  <2>3. loc[t].total <= MAX_OBJECT_SIZE
    BY ProxyAssumption DEF ProxyInv, TypeOK, Locals
  <2> QED BY <2>1, <2>2, <2>3
<1> QED BY <1>1, ProxyInvariant, PTL

(* The list, its size and the mutex agree between the critical sections,   *)
(* and eviction never reaches HEAD (cache.c, write_node).                  *)
THEOREM CacheIsConsistent == Spec => []CacheConsistent
<1>1. IInv => CacheConsistent
  <2> SUFFICES ASSUME IInv PROVE CacheConsistent
    OBVIOUS
  <2>1. MutexProtectsList
    BY ProxyAssumption DEF IInv, CacheInv, Holders, MutexProtectsList, Locked, Holding, TypeOK
  <2>2. mutex = Nobody => OnList = allocated /\ Counted = allocated
    <3>1. NULL \notin allocated
      BY CacheListAssumption DEF IInv, TypeOK, Nodes
    <3> QED BY <2>1, <3>1 DEF MutexProtectsList, OnList, Counted
  <2>3. ListWellFormed /\ SizeIsCounted
    BY <2>2, ChainIsWellLinked DEF IInv, CacheInv, SizeKept, ListWellFormed, SizeIsCounted, Unlocked
  <2>4. EvictsObjects
    BY EvictState DEF EvictsObjects
  <2> QED BY <2>1, <2>3, <2>4 DEF CacheConsistent
<1>2. Init => IInv
  BY InitIInv
<1>3. IInv /\ [Next]_vars => IInv'
  BY StepIInv
<1> QED BY <1>1, <1>2, <1>3, PTL DEF Spec
=============================================================================
