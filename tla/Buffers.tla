------------------------------ MODULE Buffers ------------------------------
(***************************************************************************)
(* The system buffers of radlib (src/radbuffers.c) in the shared memory of *)
(* all radlib processes: one free list per power-of-2 size, linked through *)
(* the buffer headers, under the semaphore of the segment (src/radshmem.c, *)
(* src/radsemaphores.c).  Each write to the shared segment is a step, so   *)
(* the model sees what happens between them.  Left out: the bytes of a     *)
(* buffer, the statistics counter allocCount and the corrupt-header test,  *)
(* which only a write through a stray pointer can satisfy.                 *)
(***************************************************************************)
EXTENDS Integers, Sequences, FiniteSets

CONSTANTS
  Process,      \* processes attached to the pool
  Buffer,       \* buffers
  Nil,          \* the list terminator, offset 0
  NumSizes,     \* number of size classes
  Layout,       \* for each class, its buffers in address order
  SizeIndex,    \* BFR_HDR.sizeIndex, constant after radBuffersInit
  SEMVMX,       \* the kernel's limit of a semaphore value
  Signals,      \* may a signal (SIGALRM) interrupt a semop that waits?
  CrashAt       \* program points at which a process may die

Size == 0 .. NumSizes - 1

(* A request is given by the first class that is large enough; NumSizes    *)
(* stands for a request larger than every class.                           *)
Request == 0 .. NumSizes

ASSUME SizeAssumption ==
  /\ NumSizes \in Nat \ {0}
  /\ Nil \notin Buffer
  /\ IsFiniteSet(Buffer)
  /\ SizeIndex \in [Buffer -> Size]

ASSUME LayoutAssumption ==
  \A i \in Size :
    /\ Layout[i] \in Seq(Buffer)
    /\ Layout[i] # <<>>
    /\ {Layout[i][k] : k \in DOMAIN Layout[i]} = {b \in Buffer : SizeIndex[b] = i}
    /\ \A j, k \in DOMAIN Layout[i] : Layout[i][j] = Layout[i][k] => j = k

ASSUME SemAssumption == SEMVMX \in Nat \ {0}

ASSUME SignalsAssumption == Signals \in BOOLEAN

VARIABLES
  sem,        \* value of semaphore SEM_INDEX_BUFFERS
  pool,       \* BUFFER_SHARE.pool: head of the free list of each class
  next,       \* BFR_HDR.next
  allocated,  \* BFR_HDR.allocated
  pc,         \* where each process is
  reg,        \* the buffer the call in progress works on
  idx,        \* the request of a radBufferGet, the class a count has reached
  held,       \* the buffers a process may use
  sent        \* the buffers named by messages in a queue

vars == <<sem, pool, next, allocated, pc, reg, idx, held, sent>>

GetPoints == {"get_lock", "get_scan", "get_pop", "get_unlock", "get_mark"}
RlsPoints == {"rls_check", "rls_clear", "rls_lock", "rls_link", "rls_head", "rls_unlock"}
CountPoints == {"cnt_lock", "cnt_head", "cnt_walk", "cnt_unlock"}
Points == {"idle", "dead"} \cup GetPoints \cup RlsPoints \cup CountPoints

(* The points between radShmemLock and radShmemUnlock. *)
Critical == {"get_scan", "get_pop", "get_unlock", "rls_link", "rls_head", "rls_unlock",
             "cnt_head", "cnt_walk", "cnt_unlock"}

ASSUME CrashAssumption == CrashAt \subseteq Points

(* The buffers process p has taken off a free list and not put back. *)
InTransit(p) ==
  IF pc[p] \in {"get_unlock", "get_mark", "rls_check", "rls_clear", "rls_lock",
                "rls_link", "rls_head"}
  THEN {reg[p]} \ {Nil} ELSE {}

Owned(p) == held[p] \cup InTransit(p)

-----------------------------------------------------------------------------
(* radBuffersInit by the process that creates the segment. *)
Init ==
  /\ sem = 1
  /\ pool = [i \in Size |-> Layout[i][1]]
  /\ next = [b \in Buffer |->
               LET list == Layout[SizeIndex[b]]
                   j == CHOOSE k \in DOMAIN list : list[k] = b
               IN  IF j = Len(list) THEN Nil ELSE list[j + 1]]
  /\ allocated = [b \in Buffer |-> 0]
  /\ pc = [p \in Process |-> "idle"]
  /\ reg = [p \in Process |-> Nil]
  /\ idx = [p \in Process |-> 0]
  /\ held = [p \in Process |-> {}]
  /\ sent = {}

Goto(p, from, to) ==
  /\ pc[p] = from
  /\ pc' = [pc EXCEPT ![p] = to]

(* The end of a call: its local variables are gone. *)
Return(p, from) ==
  /\ Goto(p, from, "idle")
  /\ reg' = [reg EXCEPT ![p] = Nil]
  /\ idx' = [idx EXCEPT ![p] = 0]

(* radSemTake of radShmemLock: semop(-1), its result ignored.  Waiting it  *)
(* may fail with EINTR, and then the caller goes on like one that locked.  *)
radShmemLock(p, from, to) ==
  /\ Goto(p, from, to)
  /\ \/ sem > 0 /\ sem' = sem - 1
     \/ Signals /\ sem = 0 /\ UNCHANGED sem
  /\ UNCHANGED <<pool, next, allocated, reg, idx, held, sent>>

(* Mutant: it gives two units. *)
SemGiveTwo == sem' = IF sem = SEMVMX THEN sem ELSE sem + 2

(* radSemGive of radShmemUnlock: semop(+1), refused at the kernel's limit. *)
radSemGive == sem' = IF sem = SEMVMX THEN sem ELSE sem + 1

-----------------------------------------------------------------------------
(* radBufferGet *)

GetCall(p, n) ==
  /\ Goto(p, "idle", "get_lock")
  /\ idx' = [idx EXCEPT ![p] = n]
  /\ UNCHANGED <<sem, pool, next, allocated, reg, held, sent>>

GetLock(p) == radShmemLock(p, "get_lock", "get_scan")

(* Mutant: only the best fit itself. *)
UsableExact(n) == {i \in Size : i = n /\ pool[i] # Nil /\ allocated[pool[i]] = 0}

(* The classes from the best fit up whose list has an unallocated head. *)
Usable(n) == {i \in Size : i >= n /\ pool[i] # Nil /\ allocated[pool[i]] = 0}

(* Mutant: the largest class first. *)
GetScanLargest(p) ==
  /\ \/ /\ Usable(idx[p]) = {}
        /\ Goto(p, "get_scan", "get_unlock")
        /\ UNCHANGED reg
     \/ \E i \in Usable(idx[p]) :
          /\ \A j \in Usable(idx[p]) : i >= j
          /\ Goto(p, "get_scan", "get_pop")
          /\ reg' = [reg EXCEPT ![p] = pool[i]]
  /\ UNCHANGED <<sem, pool, next, allocated, idx, held, sent>>

(* The search for a class with a buffer: the next larger one when the best *)
(* fit is empty, NULL when all of them are.                                *)
GetScan(p) ==
  /\ \/ /\ Usable(idx[p]) = {}
        /\ Goto(p, "get_scan", "get_unlock")
        /\ UNCHANGED reg
     \/ \E i \in Usable(idx[p]) :
          /\ \A j \in Usable(idx[p]) : i <= j
          /\ Goto(p, "get_scan", "get_pop")
          /\ reg' = [reg EXCEPT ![p] = pool[i]]
  /\ UNCHANGED <<sem, pool, next, allocated, idx, held, sent>>

(* Mutant: the buffer stays the head of its list. *)
GetPeek(p) ==
  /\ Goto(p, "get_pop", "get_unlock")
  /\ UNCHANGED <<sem, pool, next, allocated, reg, idx, held, sent>>

(* pool[index] = retPtr->next, index being the class the buffer was found in. *)
GetPop(p) ==
  /\ Goto(p, "get_pop", "get_unlock")
  /\ pool' = [pool EXCEPT ![SizeIndex[reg[p]]] = next[reg[p]]]
  /\ UNCHANGED <<sem, next, allocated, reg, idx, held, sent>>

(* Mutant: the return of NULL leaves the lock taken. *)
GetUnlockFound(p) ==
  /\ pc[p] = "get_unlock"
  /\ UNCHANGED <<pool, next, allocated, held, sent>>
  /\ \/ reg[p] = Nil /\ Return(p, "get_unlock") /\ UNCHANGED sem
     \/ reg[p] # Nil /\ radSemGive /\ Goto(p, "get_unlock", "get_mark") /\ UNCHANGED <<reg, idx>>

GetUnlock(p) ==
  /\ pc[p] = "get_unlock"
  /\ radSemGive
  /\ UNCHANGED <<pool, next, allocated, held, sent>>
  /\ \/ reg[p] = Nil /\ Return(p, "get_unlock")
     \/ reg[p] # Nil /\ Goto(p, "get_unlock", "get_mark") /\ UNCHANGED <<reg, idx>>

(* Mutant: the header is not marked. *)
GetNoMark(p) ==
  /\ Return(p, "get_mark")
  /\ held' = [held EXCEPT ![p] = @ \cup {reg[p]}]
  /\ UNCHANGED <<sem, pool, next, allocated, sent>>

(* The header is marked after the unlock; the caller has the buffer. *)
GetMark(p) ==
  /\ Return(p, "get_mark")
  /\ allocated' = [allocated EXCEPT ![reg[p]] = 1]
  /\ held' = [held EXCEPT ![p] = @ \cup {reg[p]}]
  /\ UNCHANGED <<sem, pool, next, sent>>

-----------------------------------------------------------------------------
(* radBufferRls *)

RlsCall(p, b) ==
  /\ b \in held[p]
  /\ Goto(p, "idle", "rls_check")
  /\ reg' = [reg EXCEPT ![p] = b]
  /\ held' = [held EXCEPT ![p] = @ \ {b}]
  /\ UNCHANGED <<sem, pool, next, allocated, idx, sent>>

(* The test of the header, outside the lock. *)
RlsCheck(p) ==
  /\ pc[p] = "rls_check"
  /\ UNCHANGED <<sem, pool, next, allocated, held, sent>>
  /\ \/ allocated[reg[p]] # 1 /\ Return(p, "rls_check")
     \/ allocated[reg[p]] = 1 /\ Goto(p, "rls_check", "rls_clear") /\ UNCHANGED <<reg, idx>>

RlsClear(p) ==
  /\ Goto(p, "rls_clear", "rls_lock")
  /\ allocated' = [allocated EXCEPT ![reg[p]] = 0]
  /\ UNCHANGED <<sem, pool, next, reg, idx, held, sent>>

(* Mutant: a release without the lock. *)
RlsNoLock(p) ==
  /\ Goto(p, "rls_lock", "rls_link")
  /\ UNCHANGED <<sem, pool, next, allocated, reg, idx, held, sent>>

RlsLock(p) == radShmemLock(p, "rls_lock", "rls_link")

(* Mutant: the link to the rest of the list is forgotten. *)
RlsNoLink(p) ==
  /\ Goto(p, "rls_link", "rls_head")
  /\ UNCHANGED <<sem, pool, next, allocated, reg, idx, held, sent>>

RlsLink(p) ==
  /\ Goto(p, "rls_link", "rls_head")
  /\ next' = [next EXCEPT ![reg[p]] = pool[SizeIndex[reg[p]]]]
  /\ UNCHANGED <<sem, pool, allocated, reg, idx, held, sent>>

RlsHead(p) ==
  /\ Goto(p, "rls_head", "rls_unlock")
  /\ pool' = [pool EXCEPT ![SizeIndex[reg[p]]] = reg[p]]
  /\ UNCHANGED <<sem, next, allocated, reg, idx, held, sent>>

RlsUnlock(p) ==
  /\ Return(p, "rls_unlock")
  /\ radSemGive
  /\ UNCHANGED <<pool, next, allocated, held, sent>>

-----------------------------------------------------------------------------
(* radBuffersGetAvailable: it locks once per class and walks its list.     *)

CountCall(p) ==
  /\ Goto(p, "idle", "cnt_lock")
  /\ UNCHANGED <<sem, pool, next, allocated, reg, idx, held, sent>>

CountLock(p) == radShmemLock(p, "cnt_lock", "cnt_head")

CountHead(p) ==
  /\ Goto(p, "cnt_head", IF pool[idx[p]] = Nil THEN "cnt_unlock" ELSE "cnt_walk")
  /\ reg' = [reg EXCEPT ![p] = pool[idx[p]]]
  /\ UNCHANGED <<sem, pool, next, allocated, idx, held, sent>>

CountWalk(p) ==
  /\ Goto(p, "cnt_walk", IF next[reg[p]] = Nil THEN "cnt_unlock" ELSE "cnt_walk")
  /\ reg' = [reg EXCEPT ![p] = next[reg[p]]]
  /\ UNCHANGED <<sem, pool, next, allocated, idx, held, sent>>

CountUnlock(p) ==
  /\ pc[p] = "cnt_unlock"
  /\ radSemGive
  /\ UNCHANGED <<pool, next, allocated, held, sent>>
  /\ \/ /\ idx[p] + 1 < NumSizes
        /\ Goto(p, "cnt_unlock", "cnt_lock")
        /\ idx' = [idx EXCEPT ![p] = @ + 1]
        /\ UNCHANGED reg
     \/ idx[p] + 1 >= NumSizes /\ Return(p, "cnt_unlock")

-----------------------------------------------------------------------------
(* A buffer changes hands in a message: radQueueSend writes its offset to  *)
(* the queue of the receiver, radQueueRecv turns it into a pointer again.  *)
radQueueSend(p, b) ==
  /\ pc[p] = "idle"
  /\ b \in held[p]
  /\ held' = [held EXCEPT ![p] = @ \ {b}]
  /\ sent' = sent \cup {b}
  /\ UNCHANGED <<sem, pool, next, allocated, pc, reg, idx>>

radQueueRecv(p, b) ==
  /\ pc[p] = "idle"
  /\ b \in sent
  /\ sent' = sent \ {b}
  /\ held' = [held EXCEPT ![p] = @ \cup {b}]
  /\ UNCHANGED <<sem, pool, next, allocated, pc, reg, idx>>

(* A process dies.  No semop of radlib asks for SEM_UNDO and nothing keeps *)
(* a record of who owns a buffer: the semaphore stays as it is and the     *)
(* buffers of the process are lost.                                        *)
Crash(p) ==
  /\ pc[p] \in CrashAt
  /\ Goto(p, pc[p], "dead")
  /\ reg' = [reg EXCEPT ![p] = Nil]
  /\ idx' = [idx EXCEPT ![p] = 0]
  /\ held' = [held EXCEPT ![p] = {}]
  /\ UNCHANGED <<sem, pool, next, allocated, sent>>

(* radBuffersInit by a process that finds the segment: it only attaches. *)
Attach(p) ==
  /\ Goto(p, "dead", "idle")
  /\ UNCHANGED <<sem, pool, next, allocated, reg, idx, held, sent>>

-----------------------------------------------------------------------------
(* What a process does by itself once it has called an operation. *)
Unlocked(p) == GetMark(p) \/ RlsCheck(p) \/ RlsClear(p)
Locked(p) == \/ GetScan(p) \/ GetPop(p) \/ GetUnlock(p)
             \/ RlsLink(p) \/ RlsHead(p) \/ RlsUnlock(p)
             \/ CountHead(p) \/ CountWalk(p) \/ CountUnlock(p)
Locking(p) == GetLock(p) \/ RlsLock(p) \/ CountLock(p)

Call(p) ==
  \/ \E n \in Request : GetCall(p, n)
  \/ CountCall(p)
  \/ \E b \in Buffer : RlsCall(p, b) \/ radQueueSend(p, b) \/ radQueueRecv(p, b)

Next == \E p \in Process :
          Call(p) \/ Locking(p) \/ Locked(p) \/ Unlocked(p) \/ Crash(p) \/ Attach(p)

Spec == Init /\ [][Next]_vars

(* A process that is not dead runs, and the kernel serves the waiters of a *)
(* semaphore in the order they came: none waits for ever while the         *)
(* semaphore keeps being given.                                            *)
Fairness ==
  \A p \in Process : /\ WF_vars(Locked(p) \/ Unlocked(p))
                     /\ SF_vars(Locking(p))

FairSpec == Spec /\ Fairness

-----------------------------------------------------------------------------
(* The buffers of one size. *)
Class(i) == {b \in Buffer : SizeIndex[b] = i}

(* s[1], ..., s[n], all different, are the list that starts at h and is    *)
(* linked by nx.                                                           *)
Chain(h, nx, n, s) ==
  /\ h = IF n = 0 THEN Nil ELSE s[1]
  /\ \A k \in 1 .. n : nx[s[k]] = IF k = n THEN Nil ELSE s[k + 1]
  /\ \A j, k \in 1 .. n : s[j] = s[k] => j = k

(* From h on, nx links a finite list of elements of C without a loop. *)
IsList(C, h, nx) ==
  \E n \in 0 .. Cardinality(C) : \E s \in [1 .. n -> C] : Chain(h, nx, n, s)

(* b is on that list. *)
OnList(C, h, nx, b) ==
  \E n \in 1 .. Cardinality(C) : \E s \in [1 .. n -> C] :
    Chain(h, nx, n, s) /\ \E k \in 1 .. n : s[k] = b

Listed(b) == OnList(Class(SizeIndex[b]), pool[SizeIndex[b]], next, b)

Free == {b \in Buffer : Listed(b)}

(* Every variable has its type. *)
TypeOK ==
  /\ sem \in 0 .. SEMVMX
  /\ pool \in [Size -> Buffer \cup {Nil}]
  /\ next \in [Buffer -> Buffer \cup {Nil}]
  /\ allocated \in [Buffer -> {0, 1}]
  /\ pc \in [Process -> Points]
  /\ reg \in [Process -> Buffer \cup {Nil}]
  /\ idx \in [Process -> Request]
  /\ held \in [Process -> SUBSET Buffer]
  /\ sent \in SUBSET Buffer

(* radShmemLock "locks the block for exclusive access": two processes are  *)
(* never between radShmemLock and radShmemUnlock together.                 *)
ExclusiveAccess ==
  \A p, q \in Process : pc[p] \in Critical /\ pc[q] \in Critical => p = q

(* No buffer belongs to two processes, or to one and to a queue, or is     *)
(* owned while radBufferGet could still hand it out.                       *)
SingleOwner ==
  /\ \A p, q \in Process : p # q => Owned(p) \cap Owned(q) = {}
  /\ \A p \in Process : Owned(p) \cap sent = {}
  /\ \A p \in Process : \A b \in Owned(p) \cup sent : ~ Listed(b)

(* Whatever is interrupted by the death of a process outside the lock, the *)
(* free list of every class stays a finite list of buffers of that class   *)
(* without a loop, all of them marked free.                                *)
FreeListsIntact ==
  /\ \A i \in Size : IsList(Class(i), pool[i], next)
  /\ \A b \in Buffer : Listed(b) => allocated[b] = 0

(* A buffer that is free, owned or sent stays one of the three, whatever   *)
(* the interleaving; only the death of its owner loses it.                 *)
Placed(b) == Listed(b) \/ b \in sent \/ \E p \in Process : b \in Owned(p)

OnlyDeathLosesBuffers ==
  [][\A b \in Buffer : Placed(b) => \/ Placed(b)'
                                    \/ \E p \in Process : b \in Owned(p) /\ pc'[p] = "dead"]_vars

(* radBufferGet answers NULL ("none available") only when no buffer of a   *)
(* class that is large enough is on a free list at that moment.            *)
NullMeansExhausted ==
  [][\A p \in Process :
       pc[p] = "get_scan" /\ pc'[p] = "get_unlock" =>
         \A b \in Buffer : SizeIndex[b] >= idx[p] => ~ Listed(b)]_vars

(* What process p asks the pool for, from its call of radBufferGet to the  *)
(* step that takes a buffer off a list or finds none.                      *)
NoRequest == -1
Wanted(p) == IF pc[p] \in {"get_lock", "get_scan", "get_pop"} THEN idx[p] ELSE NoRequest

(* The code implements the pool of module BufferPool: a request takes one  *)
(* best-fitting free buffer in one step or finds none that fits, a release *)
(* gives it back in one step.                                              *)
Pool == INSTANCE BufferPool WITH
          None <- NoRequest, free <- Free,
          owned <- [p \in Process |-> Owned(p)],
          wanted <- [p \in Process |-> Wanted(p)]

PoolSpec == Pool!Spec

(* Every call of a process that lives returns: the lock is always given    *)
(* back, and the walk over a list that others change ends.                 *)
CallsReturn == \A p \in Process : pc[p] # "idle" ~> pc[p] \in {"idle", "dead"}
=============================================================================
