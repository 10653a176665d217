---------------------------- MODULE BuffersProofs ----------------------------
(***************************************************************************)
(* Theorems about the buffer pool of module Buffers, for any number of     *)
(* processes, buffers and sizes: the semaphore excludes, no buffer is in   *)
(* two hands, the free lists stay lists, NULL means that nothing fits, and *)
(* the code implements the pool of module BufferPool.                      *)
(***************************************************************************)
EXTENDS Buffers, FiniteSetTheorems, TLAPS

USE SizeAssumption, SemAssumption

(* The environment of the theorems about the lock: no signal interrupts a  *)
(* waiting semop and no process dies between lock and unlock.              *)
Undisturbed == Signals = FALSE /\ CrashAt \cap Critical = {}

-----------------------------------------------------------------------------
(* Linked lists.  C is the set a list is drawn from. *)

(* A list without repetition is no longer than its set is large. *)
LEMMA ChainLength ==
  ASSUME NEW C, IsFiniteSet(C), NEW n \in Nat, NEW s \in [1 .. n -> C],
         \A j, k \in 1 .. n : s[j] = s[k] => j = k
  PROVE  n \in 0 .. Cardinality(C)
<1>1. s \in Injection(1 .. n, C)
  BY DEF Injection, IsInjective
<1>2. Cardinality(1 .. n) <= Cardinality(C)
  BY <1>1, FS_Injection
<1>3. Cardinality(1 .. n) = n
  BY FS_Interval
<1>4. Cardinality(C) \in Nat
  BY FS_CardinalityType
<1> QED BY <1>2, <1>3, <1>4

(* So the length in IsList and OnList may be any number. *)
LEMMA ListIntro ==
  ASSUME NEW C, IsFiniteSet(C), NEW h, NEW nx, NEW n \in Nat, NEW s \in [1 .. n -> C],
         Chain(h, nx, n, s)
  PROVE  /\ IsList(C, h, nx)
         /\ \A k \in 1 .. n : OnList(C, h, nx, s[k])
<1>1. n \in 0 .. Cardinality(C)
  BY ChainLength DEF Chain
<1>2. ASSUME NEW k \in 1 .. n PROVE OnList(C, h, nx, s[k])
  <2>1. n \in 1 .. Cardinality(C)
    BY <1>1
  <2> QED BY <2>1 DEF OnList
<1> QED BY <1>1, <1>2 DEF IsList

(* A buffer on a list is one of the elements of a chain. *)
LEMMA ListElim ==
  ASSUME NEW C, IsFiniteSet(C), NEW h, NEW nx, NEW b, OnList(C, h, nx, b)
  PROVE  \E n \in Nat : \E s \in [1 .. n -> C] :
           n # 0 /\ Chain(h, nx, n, s) /\ \E k \in 1 .. n : s[k] = b
<1>1. Cardinality(C) \in Nat
  BY FS_CardinalityType
<1> QED BY <1>1 DEF OnList

(* An element in front of a list of others makes a longer list. *)
LEMMA ConsChain ==
  ASSUME NEW C, NEW h \in C, NEW nx, NEW n \in Nat, NEW s \in [1 .. n -> C],
         Chain(nx[h], nx, n, s), \A k \in 1 .. n : s[k] # h,
         NEW t \in [1 .. n + 1 -> C], t[1] = h, \A k \in 1 .. n : t[k + 1] = s[k]
  PROVE  Chain(h, nx, n + 1, t)
<1>1. Chain(nx[h], nx, n, s)
  OBVIOUS
<1>2. \A k \in 1 .. n : s[k] # h
  OBVIOUS
<1>4. t[1] = h /\ \A k \in 1 .. n : t[k + 1] = s[k]
  OBVIOUS
<1>3. \A k \in 1 .. n + 1 : k # 1 => k - 1 \in 1 .. n /\ t[k] = s[k - 1]
  <2> SUFFICES ASSUME NEW k \in 1 .. n + 1, k # 1
               PROVE k - 1 \in 1 .. n /\ t[k] = s[k - 1]
    OBVIOUS
  <2>1. k - 1 \in 1 .. n
    OBVIOUS
  <2>2. t[(k - 1) + 1] = s[k - 1]
    BY <1>4, <2>1
  <2> QED BY <2>1, <2>2
<1>5. \A k \in 1 .. n + 1 : nx[t[k]] = IF k = n + 1 THEN Nil ELSE t[k + 1]
  <2> SUFFICES ASSUME NEW k \in 1 .. n + 1
               PROVE nx[t[k]] = IF k = n + 1 THEN Nil ELSE t[k + 1]
    OBVIOUS
  <2>1. CASE k = 1
    BY <2>1, <1>1, <1>4 DEF Chain
  <2>2. CASE k # 1
    <3>1. k - 1 \in 1 .. n /\ t[k] = s[k - 1]
      BY <2>2, <1>3
    <3>2. nx[s[k - 1]] = IF k - 1 = n THEN Nil ELSE s[(k - 1) + 1]
      BY <3>1, <1>1 DEF Chain
    <3>3. CASE k = n + 1
      BY <3>1, <3>2, <3>3
    <3>4. CASE k # n + 1
      <4>1. k \in 1 .. n
        BY <3>4
      <4>2. t[k + 1] = s[k]
        BY <4>1, <1>4
      <4> QED BY <3>1, <3>2, <3>4, <4>2
    <3> QED BY <3>3, <3>4
  <2> QED BY <2>1, <2>2
<1>6. \A j, k \in 1 .. n + 1 : t[j] = t[k] => j = k
  <2> SUFFICES ASSUME NEW j \in 1 .. n + 1, NEW k \in 1 .. n + 1, t[j] = t[k]
               PROVE j = k
    OBVIOUS
  <2>1. CASE j = 1 \/ k = 1
    BY <2>1, <1>2, <1>3, <1>4
  <2>2. CASE j # 1 /\ k # 1
    <3>1. j - 1 \in 1 .. n /\ k - 1 \in 1 .. n /\ s[j - 1] = s[k - 1]
      BY <2>2, <1>3
    <3> QED BY <3>1, <1>1 DEF Chain
  <2> QED BY <2>1, <2>2
<1>7. Chain(h, nx, n + 1, t)
  <2>1. n + 1 # 0
    OBVIOUS
  <2> QED BY <1>4, <1>5, <1>6, <2>1 DEF Chain
<1> QED BY <1>7

(* Taking the head off a list leaves a list of the other elements. *)
LEMMA PopList ==
  ASSUME NEW C, IsFiniteSet(C), Nil \notin C, NEW h \in C, NEW nx, IsList(C, h, nx)
  PROVE  /\ OnList(C, h, nx, h)
         /\ IsList(C, nx[h], nx)
         /\ \A b : OnList(C, nx[h], nx, b) <=> OnList(C, h, nx, b) /\ b # h
<1> PICK m \in 0 .. Cardinality(C) : \E r \in [1 .. m -> C] : Chain(h, nx, m, r)
  BY DEF IsList
<1>0. PICK r \in [1 .. m -> C] : Chain(h, nx, m, r)
  OBVIOUS
<1>1. /\ m \in Nat \ {0}
      /\ r[1] = h
  BY <1>0, FS_CardinalityType DEF Chain
<1>2. OnList(C, h, nx, h)
  BY <1>0, <1>1, ListIntro
<1>3. ASSUME NEW n \in Nat, NEW s \in [1 .. n -> C], n # 0, Chain(h, nx, n, s)
      PROVE  LET t == [k \in 1 .. n - 1 |-> s[k + 1]]
             IN  t \in [1 .. n - 1 -> C] /\ Chain(nx[h], nx, n - 1, t)
  <2> DEFINE t == [k \in 1 .. n - 1 |-> s[k + 1]]
  <2>1. t \in [1 .. n - 1 -> C]
    OBVIOUS
  <2>2. s[1] = h /\ nx[h] = IF n - 1 = 0 THEN Nil ELSE t[1]
    BY <1>3 DEF Chain
  <2>3. \A k \in 1 .. n - 1 : nx[t[k]] = IF k = n - 1 THEN Nil ELSE t[k + 1]
    BY <1>3 DEF Chain
  <2>4. \A j, k \in 1 .. n - 1 : t[j] = t[k] => j = k
    BY <1>3 DEF Chain
  <2> QED BY <2>1, <2>2, <2>3, <2>4 DEF Chain
<1>4. IsList(C, nx[h], nx)
  <2> DEFINE t == [k \in 1 .. m - 1 |-> r[k + 1]]
  <2>1. m \in Nat /\ m # 0 /\ m - 1 \in Nat
    BY <1>1
  <2>2. t \in [1 .. m - 1 -> C] /\ Chain(nx[h], nx, m - 1, t)
    BY <1>0, <1>3, <2>1
  <2> HIDE DEF t
  <2> QED BY <2>1, <2>2, ListIntro
<1>5. ASSUME NEW b, OnList(C, h, nx, b), b # h PROVE OnList(C, nx[h], nx, b)
  <2> PICK n \in Nat : \E s \in [1 .. n -> C] :
        n # 0 /\ Chain(h, nx, n, s) /\ \E k \in 1 .. n : s[k] = b
    BY <1>5, ListElim
  <2>1. PICK s \in [1 .. n -> C] :
          n # 0 /\ Chain(h, nx, n, s) /\ \E k \in 1 .. n : s[k] = b
    OBVIOUS
  <2>2. PICK k \in 1 .. n : s[k] = b
    BY <2>1
  <2>3. s[1] = h
    BY <2>1 DEF Chain
  <2> DEFINE t == [i \in 1 .. n - 1 |-> s[i + 1]]
  <2>4. n - 1 \in Nat
    BY <2>1
  <2>6. t \in [1 .. n - 1 -> C] /\ Chain(nx[h], nx, n - 1, t)
    BY <1>3, <2>1
  <2>5. k - 1 \in 1 .. n - 1 /\ t[k - 1] = b
    BY <1>5, <2>2, <2>3
  <2> HIDE DEF t
  <2> QED BY <2>4, <2>5, <2>6, ListIntro
<1>6. ASSUME NEW b, OnList(C, nx[h], nx, b) PROVE OnList(C, h, nx, b) /\ b # h
  <2> PICK n \in Nat : \E s \in [1 .. n -> C] :
        n # 0 /\ Chain(nx[h], nx, n, s) /\ \E k \in 1 .. n : s[k] = b
    BY <1>6, ListElim
  <2>1. PICK s \in [1 .. n -> C] :
          n # 0 /\ Chain(nx[h], nx, n, s) /\ \E k \in 1 .. n : s[k] = b
    OBVIOUS
  <2>2. \A k \in 1 .. n : s[k] # h
    <3> SUFFICES ASSUME NEW k \in 1 .. n, s[k] = h PROVE FALSE
      OBVIOUS
    <3>1. nx[h] = s[1]
      BY <2>1 DEF Chain
    <3>2. nx[h] = IF k = n THEN Nil ELSE s[k + 1]
      BY <2>1 DEF Chain
    <3>3. k # n
      <4>1. s[1] \in C
        BY <2>1
      <4> QED BY <3>1, <3>2, <4>1
    <3>4. k + 1 \in 1 .. n /\ 1 \in 1 .. n /\ s[k + 1] = s[1]
      BY <3>1, <3>2, <3>3
    <3> QED BY <3>4, <2>1 DEF Chain
  <2> DEFINE t == [k \in 1 .. n + 1 |-> IF k = 1 THEN h ELSE s[k - 1]]
  <2>3. n + 1 \in Nat
    OBVIOUS
  <2>4. t \in [1 .. n + 1 -> C]
    OBVIOUS
  <2>5. t[1] = h /\ \A k \in 1 .. n : t[k + 1] = s[k]
    OBVIOUS
  <2>8. PICK k \in 1 .. n : s[k] = b
    BY <2>1
  <2> HIDE DEF t
  <2>6. Chain(h, nx, n + 1, t)
    BY <2>1, <2>2, <2>4, <2>5, ConsChain
  <2>9. k + 1 \in 1 .. n + 1 /\ t[k + 1] = b
    BY <2>5, <2>8
  <2>10. OnList(C, h, nx, b)
    BY <2>3, <2>4, <2>6, <2>9, ListIntro
  <2> QED BY <2>2, <2>8, <2>10
<1> QED BY <1>2, <1>4, <1>5, <1>6

(* The link of an element that is not on a list may change, if it is to the *)
(* head of the list whenever it could be on it.                            *)
LEMMA LinkList ==
  ASSUME NEW C, IsFiniteSet(C), Nil \notin C, NEW D, C \subseteq D, NEW h,
         NEW nx \in [D -> D \cup {Nil}], NEW b \in D, ~ OnList(C, h, nx, b),
         NEW v \in D \cup {Nil}, b \in C => v = h,
         NEW mx, mx = [nx EXCEPT ![b] = v]
  PROVE  /\ IsList(C, h, nx) => IsList(C, h, mx)
         /\ \A c : OnList(C, h, mx, c) <=> OnList(C, h, nx, c)
<1>1. ASSUME NEW n \in Nat, NEW s \in [1 .. n -> C], \A k \in 1 .. n : s[k] # b
      PROVE  Chain(h, nx, n, s) <=> Chain(h, mx, n, s)
  <2>1. \A k \in 1 .. n : mx[s[k]] = nx[s[k]]
    BY <1>1
  <2> QED BY <2>1 DEF Chain
<1>2. ASSUME NEW n \in Nat, NEW s \in [1 .. n -> C], Chain(h, nx, n, s)
      PROVE  Chain(h, mx, n, s)
  <2>1. \A k \in 1 .. n : OnList(C, h, nx, s[k])
    BY <1>2, ListIntro
  <2>2. \A k \in 1 .. n : s[k] # b
    BY <2>1
  <2> QED BY <1>1, <1>2, <2>2
<1>3. ASSUME NEW n \in Nat, NEW s \in [1 .. n -> C], Chain(h, mx, n, s)
      PROVE  Chain(h, nx, n, s)
  <2>1. ASSUME NEW k \in 1 .. n, s[k] = b PROVE FALSE
    <3>1. b \in C /\ s[1] \in C /\ 1 \in 1 .. n
      BY <2>1
    <3>2. mx[b] = h /\ h = s[1]
      BY <3>1, <1>3 DEF Chain
    <3>3. h = IF k = n THEN Nil ELSE s[k + 1]
      BY <3>2, <2>1, <1>3 DEF Chain
    <3>4. k + 1 \in 1 .. n /\ s[k + 1] = s[1]
      BY <3>1, <3>2, <3>3
    <3> QED BY <3>1, <3>4, <1>3 DEF Chain
  <2> QED BY <1>1, <1>3, <2>1
<1>4. Cardinality(C) \in Nat
  BY FS_CardinalityType
<1>5. IsList(C, h, nx) => IsList(C, h, mx)
  <2> SUFFICES ASSUME IsList(C, h, nx) PROVE IsList(C, h, mx)
    OBVIOUS
  <2> PICK n \in 0 .. Cardinality(C) : \E s \in [1 .. n -> C] : Chain(h, nx, n, s)
    BY DEF IsList
  <2>1. PICK s \in [1 .. n -> C] : Chain(h, nx, n, s)
    OBVIOUS
  <2>2. n \in Nat
    BY <1>4
  <2> QED BY <1>2, <2>1, <2>2, ListIntro
<1>6. ASSUME NEW c PROVE OnList(C, h, mx, c) <=> OnList(C, h, nx, c)
  <2>1. ASSUME OnList(C, h, mx, c) PROVE OnList(C, h, nx, c)
    <3> PICK n \in Nat : \E s \in [1 .. n -> C] :
          n # 0 /\ Chain(h, mx, n, s) /\ \E k \in 1 .. n : s[k] = c
      BY <2>1, ListElim
    <3>1. PICK s \in [1 .. n -> C] : Chain(h, mx, n, s) /\ \E k \in 1 .. n : s[k] = c
      OBVIOUS
    <3>2. Chain(h, nx, n, s)
      BY <1>3, <3>1
    <3>3. \A k \in 1 .. n : OnList(C, h, nx, s[k])
      BY <3>2, ListIntro
    <3> QED BY <3>1, <3>3
  <2>2. ASSUME OnList(C, h, nx, c) PROVE OnList(C, h, mx, c)
    <3> PICK n \in Nat : \E s \in [1 .. n -> C] :
          n # 0 /\ Chain(h, nx, n, s) /\ \E k \in 1 .. n : s[k] = c
      BY <2>2, ListElim
    <3>1. PICK s \in [1 .. n -> C] : Chain(h, nx, n, s) /\ \E k \in 1 .. n : s[k] = c
      OBVIOUS
    <3>2. Chain(h, mx, n, s)
      BY <1>2, <3>1
    <3>3. \A k \in 1 .. n : OnList(C, h, mx, s[k])
      BY <3>2, ListIntro
    <3> QED BY <3>1, <3>3
  <2> QED BY <2>1, <2>2
<1> QED BY <1>5, <1>6

(* An element linked to the head of a list it is not on becomes its head.  *)
LEMMA PushList ==
  ASSUME NEW C, IsFiniteSet(C), Nil \notin C, NEW nx, NEW b \in C,
         IsList(C, nx[b], nx), ~ OnList(C, nx[b], nx, b)
  PROVE  /\ IsList(C, b, nx)
         /\ \A c : OnList(C, b, nx, c) <=> OnList(C, nx[b], nx, c) \/ c = b
<1>1. Cardinality(C) \in Nat
  BY FS_CardinalityType
<1> PICK n \in Nat : \E s \in [1 .. n -> C] : Chain(nx[b], nx, n, s)
  BY <1>1 DEF IsList
<1>2. PICK s \in [1 .. n -> C] : Chain(nx[b], nx, n, s)
  OBVIOUS
<1>3. \A k \in 1 .. n : s[k] # b
  BY <1>2, ListIntro
<1> DEFINE t == [k \in 1 .. n + 1 |-> IF k = 1 THEN b ELSE s[k - 1]]
<1>4. n + 1 \in Nat
  OBVIOUS
<1>5. t \in [1 .. n + 1 -> C]
  OBVIOUS
<1>6. t[1] = b /\ \A k \in 1 .. n : t[k + 1] = s[k]
  OBVIOUS
<1> HIDE DEF t
<1>7. Chain(b, nx, n + 1, t)
  BY <1>2, <1>3, <1>5, <1>6, ConsChain
<1>8. IsList(C, b, nx)
  BY <1>4, <1>5, <1>7, ListIntro
<1> QED BY <1>8, PopList

-----------------------------------------------------------------------------
(* Typing of a process that works on a buffer: while it is at one of these *)
(* points its local variable is a buffer, or its index is a class.         *)
RegPoints == {"get_pop", "get_mark", "cnt_walk"} \cup (RlsPoints \ {"rls_unlock"})
IdxPoints == {"get_pop"} \cup CountPoints

LocalsOK ==
  \A p \in Process : /\ pc[p] \in RegPoints => reg[p] \in Buffer
                     /\ pc[p] \in IdxPoints => idx[p] \in Size
                     /\ pc[p] \in {"idle", "dead", "get_lock", "get_scan"} => reg[p] = Nil
                     /\ pc[p] \in {"idle", "dead"} => idx[p] = 0

TypeInv == TypeOK /\ LocalsOK

(* radBuffersInit leaves variables of the right types. *)
LEMMA InitType == Init => TypeInv
<1> SUFFICES ASSUME Init PROVE TypeInv
  OBVIOUS
<1>1. pool \in [Size -> Buffer \cup {Nil}]
  BY LayoutAssumption DEF Init
<1>2. next \in [Buffer -> Buffer \cup {Nil}]
  <2> SUFFICES ASSUME NEW b \in Buffer PROVE next[b] \in Buffer \cup {Nil}
    BY DEF Init
  <2> DEFINE list == Layout[SizeIndex[b]]
             j == CHOOSE k \in DOMAIN list : list[k] = b
  <2>1. next[b] = IF j = Len(list) THEN Nil ELSE list[j + 1]
    BY DEF Init
  <2>2. list \in Seq(Buffer) /\ \E k \in DOMAIN list : list[k] = b
    BY LayoutAssumption
  <2>3. j \in DOMAIN list
    BY <2>2
  <2> QED BY <2>1, <2>2, <2>3
<1>3. sem \in 0 .. SEMVMX
  BY DEF Init
<1>4. pc \in [Process -> Points]
  BY DEF Init, Points
<1>5. idx \in [Process -> Request]
  BY DEF Init, Request
<1>6. /\ allocated \in [Buffer -> {0, 1}]
      /\ reg \in [Process -> Buffer \cup {Nil}]
      /\ held \in [Process -> SUBSET Buffer]
      /\ sent \in SUBSET Buffer
  BY DEF Init
<1>7. TypeOK
  BY <1>1, <1>2, <1>3, <1>4, <1>5, <1>6 DEF TypeOK
<1>8. LocalsOK
  BY DEF Init, LocalsOK, RegPoints, RlsPoints, IdxPoints, CountPoints
<1> QED BY <1>7, <1>8 DEF TypeInv

(* No step gives a variable a value outside its type. *)
LEMMA NextTypeOK == TypeInv /\ [Next]_vars => TypeOK'
<1> SUFFICES ASSUME TypeInv, [Next]_vars PROVE TypeOK'
  OBVIOUS
<1> USE DEF TypeInv, TypeOK, LocalsOK, Points, GetPoints, RlsPoints, CountPoints,
            RegPoints, IdxPoints, Request, Size, Goto, Return, radShmemLock, radSemGive
<1>1. ASSUME NEW p \in Process, NEW n \in Request, GetCall(p, n) PROVE TypeOK'
  BY <1>1 DEF GetCall
<1>2. ASSUME NEW p \in Process, Locking(p) PROVE TypeOK'
  <2>1. sem' \in 0 .. SEMVMX
    BY <1>2 DEF Locking, GetLock, RlsLock, CountLock
  <2>2. pc' \in [Process -> Points]
    BY <1>2 DEF Locking, GetLock, RlsLock, CountLock
  <2>3. UNCHANGED <<pool, next, allocated, reg, idx, held, sent>>
    BY <1>2 DEF Locking, GetLock, RlsLock, CountLock
  <2> QED BY <2>1, <2>2, <2>3
<1>3. ASSUME NEW p \in Process, GetScan(p) PROVE TypeOK'
  <2>1. pc' \in [Process -> Points]
    <3>1. \/ pc' = [pc EXCEPT ![p] = "get_unlock"]
          \/ pc' = [pc EXCEPT ![p] = "get_pop"]
      BY <1>3 DEF GetScan
    <3> QED BY <3>1
  <2>2. reg' \in [Process -> Buffer \cup {Nil}]
    <3>1. CASE reg' = reg
      BY <3>1
    <3>2. CASE \E i \in Usable(idx[p]) : reg' = [reg EXCEPT ![p] = pool[i]]
      BY <3>2 DEF Usable
    <3> QED BY <1>3, <3>1, <3>2 DEF GetScan
  <2>3. UNCHANGED <<sem, pool, next, allocated, idx, held, sent>>
    BY <1>3 DEF GetScan
  <2> QED BY <2>1, <2>2, <2>3
<1>4. ASSUME NEW p \in Process, GetPop(p) PROVE TypeOK'
  BY <1>4 DEF GetPop
<1>5. ASSUME NEW p \in Process, GetUnlock(p) PROVE TypeOK'
  <2>1. sem' \in 0 .. SEMVMX
    BY <1>5 DEF GetUnlock
  <2>2. pc' \in [Process -> Points]
    <3>1. pc' = [pc EXCEPT ![p] = "idle"] \/ pc' = [pc EXCEPT ![p] = "get_mark"]
      BY <1>5 DEF GetUnlock
    <3> QED BY <3>1
  <2>3. reg' \in [Process -> Buffer \cup {Nil}]
    <3>1. reg' = reg \/ reg' = [reg EXCEPT ![p] = Nil]
      BY <1>5 DEF GetUnlock
    <3> QED BY <3>1
  <2>4. idx' \in [Process -> Request]
    <3>1. idx' = idx \/ idx' = [idx EXCEPT ![p] = 0]
      BY <1>5 DEF GetUnlock
    <3> QED BY <3>1
  <2>5. UNCHANGED <<pool, next, allocated, held, sent>>
    BY <1>5 DEF GetUnlock
  <2> QED BY <2>1, <2>2, <2>3, <2>4, <2>5
<1>6. ASSUME NEW p \in Process, GetMark(p) PROVE TypeOK'
  BY <1>6 DEF GetMark
<1>7. ASSUME NEW p \in Process, NEW b \in Buffer, RlsCall(p, b) PROVE TypeOK'
  BY <1>7 DEF RlsCall
<1>8. ASSUME NEW p \in Process, RlsCheck(p) PROVE TypeOK'
  <2>1. sem' \in 0 .. SEMVMX
    BY <1>8 DEF RlsCheck
  <2>2. pc' \in [Process -> Points]
    <3>1. pc' = [pc EXCEPT ![p] = "idle"] \/ pc' = [pc EXCEPT ![p] = "rls_clear"]
      BY <1>8 DEF RlsCheck
    <3> QED BY <3>1
  <2>3. reg' \in [Process -> Buffer \cup {Nil}]
    <3>1. reg' = reg \/ reg' = [reg EXCEPT ![p] = Nil]
      BY <1>8 DEF RlsCheck
    <3> QED BY <3>1
  <2>4. idx' \in [Process -> Request]
    <3>1. idx' = idx \/ idx' = [idx EXCEPT ![p] = 0]
      BY <1>8 DEF RlsCheck
    <3> QED BY <3>1
  <2>5. UNCHANGED <<pool, next, allocated, held, sent>>
    BY <1>8 DEF RlsCheck
  <2> QED BY <2>1, <2>2, <2>3, <2>4, <2>5
<1>9. ASSUME NEW p \in Process, RlsClear(p) PROVE TypeOK'
  BY <1>9 DEF RlsClear
<1>10. ASSUME NEW p \in Process, RlsLink(p) PROVE TypeOK'
  BY <1>10 DEF RlsLink
<1>11. ASSUME NEW p \in Process, RlsHead(p) PROVE TypeOK'
  BY <1>11 DEF RlsHead
<1>12. ASSUME NEW p \in Process, RlsUnlock(p) PROVE TypeOK'
  BY <1>12 DEF RlsUnlock
<1>13. ASSUME NEW p \in Process, CountCall(p) PROVE TypeOK'
  BY <1>13 DEF CountCall
<1>14. ASSUME NEW p \in Process, CountHead(p) PROVE TypeOK'
  BY <1>14 DEF CountHead
<1>15. ASSUME NEW p \in Process, CountWalk(p) PROVE TypeOK'
  BY <1>15 DEF CountWalk
<1>16. ASSUME NEW p \in Process, CountUnlock(p) PROVE TypeOK'
  <2>1. sem' \in 0 .. SEMVMX
    BY <1>16 DEF CountUnlock
  <2>2. pc' \in [Process -> Points]
    <3>1. pc' = [pc EXCEPT ![p] = "idle"] \/ pc' = [pc EXCEPT ![p] = "cnt_lock"]
      BY <1>16 DEF CountUnlock
    <3> QED BY <3>1
  <2>3. reg' \in [Process -> Buffer \cup {Nil}]
    <3>1. reg' = reg \/ reg' = [reg EXCEPT ![p] = Nil]
      BY <1>16 DEF CountUnlock
    <3> QED BY <3>1
  <2>4. idx' \in [Process -> Request]
    <3>1. \/ idx' = [idx EXCEPT ![p] = 0]
          \/ idx[p] + 1 < NumSizes /\ idx' = [idx EXCEPT ![p] = idx[p] + 1]
      BY <1>16 DEF CountUnlock
    <3>2. CASE idx' = [idx EXCEPT ![p] = 0]
      BY <3>2
    <3>3. CASE idx[p] + 1 < NumSizes /\ idx' = [idx EXCEPT ![p] = idx[p] + 1]
      BY <3>3
    <3> QED BY <3>1, <3>2, <3>3
  <2>5. UNCHANGED <<pool, next, allocated, held, sent>>
    BY <1>16 DEF CountUnlock
  <2> QED BY <2>1, <2>2, <2>3, <2>4, <2>5
<1>17. ASSUME NEW p \in Process, NEW b \in Buffer, radQueueSend(p, b) PROVE TypeOK'
  BY <1>17 DEF radQueueSend
<1>18. ASSUME NEW p \in Process, NEW b \in Buffer, radQueueRecv(p, b) PROVE TypeOK'
  BY <1>18 DEF radQueueRecv
<1>19. ASSUME NEW p \in Process, Crash(p) PROVE TypeOK'
  BY <1>19 DEF Crash
<1>20. ASSUME NEW p \in Process, Attach(p) PROVE TypeOK'
  BY <1>20 DEF Attach
<1>21. CASE UNCHANGED vars
  BY <1>21 DEF vars
<1> QED
  BY <1>1, <1>2, <1>3, <1>4, <1>5, <1>6, <1>7, <1>8, <1>9, <1>10, <1>11,
     <1>12, <1>13, <1>14, <1>15, <1>16, <1>17, <1>18, <1>19, <1>20, <1>21
     DEF Next, Call, Locked, Unlocked

(* A call sets its pointer and class before it reaches a point that uses them. *)
LEMMA NextLocals == TypeInv /\ [Next]_vars => LocalsOK'
<1> SUFFICES ASSUME TypeInv, [Next]_vars PROVE LocalsOK'
  OBVIOUS
<1> USE DEF TypeInv, TypeOK, LocalsOK, Points, GetPoints, RlsPoints, CountPoints,
            RegPoints, IdxPoints, Request, Size, Goto, Return, radShmemLock, radSemGive
<1>1. ASSUME NEW p \in Process, NEW n \in Request, GetCall(p, n) PROVE LocalsOK'
  BY <1>1 DEF GetCall
<1>2. ASSUME NEW p \in Process, Locking(p) PROVE LocalsOK'
  BY <1>2 DEF Locking, GetLock, RlsLock, CountLock
<1>3. ASSUME NEW p \in Process, GetScan(p) PROVE LocalsOK'
  BY <1>3 DEF GetScan, Usable
<1>4. ASSUME NEW p \in Process, GetPop(p) PROVE LocalsOK'
  BY <1>4 DEF GetPop
<1>5. ASSUME NEW p \in Process, GetUnlock(p) PROVE LocalsOK'
  BY <1>5 DEF GetUnlock
<1>6. ASSUME NEW p \in Process, GetMark(p) PROVE LocalsOK'
  BY <1>6 DEF GetMark
<1>7. ASSUME NEW p \in Process, NEW b \in Buffer, RlsCall(p, b) PROVE LocalsOK'
  BY <1>7 DEF RlsCall
<1>8. ASSUME NEW p \in Process, RlsCheck(p) PROVE LocalsOK'
  BY <1>8 DEF RlsCheck
<1>9. ASSUME NEW p \in Process, RlsClear(p) PROVE LocalsOK'
  BY <1>9 DEF RlsClear
<1>10. ASSUME NEW p \in Process, RlsLink(p) PROVE LocalsOK'
  BY <1>10 DEF RlsLink
<1>11. ASSUME NEW p \in Process, RlsHead(p) PROVE LocalsOK'
  BY <1>11 DEF RlsHead
<1>12. ASSUME NEW p \in Process, RlsUnlock(p) PROVE LocalsOK'
  BY <1>12 DEF RlsUnlock
<1>13. ASSUME NEW p \in Process, CountCall(p) PROVE LocalsOK'
  BY <1>13 DEF CountCall
<1>14. ASSUME NEW p \in Process, CountHead(p) PROVE LocalsOK'
  BY <1>14 DEF CountHead
<1>15. ASSUME NEW p \in Process, CountWalk(p) PROVE LocalsOK'
  BY <1>15 DEF CountWalk
<1>16. ASSUME NEW p \in Process, CountUnlock(p) PROVE LocalsOK'
  BY <1>16 DEF CountUnlock
<1>17. ASSUME NEW p \in Process, NEW b \in Buffer, radQueueSend(p, b) PROVE LocalsOK'
  BY <1>17 DEF radQueueSend
<1>18. ASSUME NEW p \in Process, NEW b \in Buffer, radQueueRecv(p, b) PROVE LocalsOK'
  BY <1>18 DEF radQueueRecv
<1>19. ASSUME NEW p \in Process, Crash(p) PROVE LocalsOK'
  BY <1>19 DEF Crash
<1>20. ASSUME NEW p \in Process, Attach(p) PROVE LocalsOK'
  BY <1>20 DEF Attach
<1>21. CASE UNCHANGED vars
  BY <1>21 DEF vars
<1> QED
  BY <1>1, <1>2, <1>3, <1>4, <1>5, <1>6, <1>7, <1>8, <1>9, <1>10, <1>11,
     <1>12, <1>13, <1>14, <1>15, <1>16, <1>17, <1>18, <1>19, <1>20, <1>21
     DEF Next, Call, Locked, Unlocked

(* TypeInv is inductive. *)
LEMMA NextType == TypeInv /\ [Next]_vars => TypeInv'
BY NextTypeOK, NextLocals DEF TypeInv

(* In every state the variables have their types, and the locals of a call *)
(* are set where the code uses them.                                       *)
THEOREM TypeCorrect == Spec => [](TypeOK /\ LocalsOK)
<1>1. TypeInv => TypeOK /\ LocalsOK
  BY DEF TypeInv
<1> QED BY InitType, NextType, <1>1, PTL DEF Spec
-----------------------------------------------------------------------------
(* Mutual exclusion: the semaphore is 0 while somebody is between lock and *)
(* unlock, and never more than 1.                                          *)
LockInv ==
  /\ ExclusiveAccess
  /\ \A p \in Process : pc[p] \in Critical => sem = 0
  /\ sem <= 1

(* No step lets a second process into the critical section. *)
LEMMA LockStep ==
  ASSUME Undisturbed
  PROVE  TypeInv /\ LockInv /\ [Next]_vars => LockInv'
<1> SUFFICES ASSUME TypeInv, LockInv, [Next]_vars PROVE LockInv'
  OBVIOUS
<1> USE DEF TypeInv, TypeOK, LockInv, ExclusiveAccess, Critical, Goto, Return
<1>1. ASSUME NEW p \in Process, Locking(p) PROVE LockInv'
  <2>1. sem = 1 /\ sem' = 0
    BY <1>1 DEF Locking, GetLock, RlsLock, CountLock, radShmemLock, Undisturbed
  <2>2. \A q \in Process : q # p => pc'[q] = pc[q]
    BY <1>1 DEF Locking, GetLock, RlsLock, CountLock, radShmemLock
  <2> QED BY <2>1, <2>2
<1>2. ASSUME NEW p \in Process, GetUnlock(p) \/ RlsUnlock(p) \/ CountUnlock(p)
      PROVE  LockInv'
  <2>1. sem = 0 /\ pc[p] \in Critical
    BY <1>2 DEF GetUnlock, RlsUnlock, CountUnlock
  <2>2. sem' = 1
    BY <1>2, <2>1 DEF GetUnlock, RlsUnlock, CountUnlock, radSemGive
  <2>3. pc'[p] \notin Critical /\ \A q \in Process : q # p => pc'[q] = pc[q]
    BY <1>2 DEF GetUnlock, RlsUnlock, CountUnlock
  <2>4. \A q \in Process : pc'[q] \notin Critical
    BY <2>1, <2>3
  <2> QED BY <2>2, <2>4
<1>3. ASSUME NEW p \in Process,
             \/ GetScan(p) \/ GetPop(p) \/ RlsLink(p) \/ RlsHead(p)
             \/ CountHead(p) \/ CountWalk(p)
      PROVE  LockInv'
  <2>1. sem' = sem /\ pc[p] \in Critical
    BY <1>3 DEF GetScan, GetPop, RlsLink, RlsHead, CountHead, CountWalk
  <2>2. \A q \in Process : q # p => pc'[q] = pc[q]
    BY <1>3 DEF GetScan, GetPop, RlsLink, RlsHead, CountHead, CountWalk
  <2> QED BY <2>1, <2>2
<1>4. ASSUME NEW p \in Process, Unlocked(p) \/ Call(p) \/ Attach(p) PROVE LockInv'
  <2>1. sem' = sem /\ pc'[p] \notin Critical
    BY <1>4 DEF Unlocked, GetMark, RlsCheck, RlsClear, Call, GetCall, CountCall, RlsCall,
                radQueueSend, radQueueRecv, Attach
  <2>2. \A q \in Process : q # p => pc'[q] = pc[q]
    BY <1>4 DEF Unlocked, GetMark, RlsCheck, RlsClear, Call, GetCall, CountCall, RlsCall,
                radQueueSend, radQueueRecv, Attach
  <2> QED BY <2>1, <2>2
<1>5. ASSUME NEW p \in Process, Crash(p) PROVE LockInv'
  <2>1. sem' = sem /\ pc'[p] \notin Critical
    BY <1>5 DEF Crash
  <2>2. \A q \in Process : q # p => pc'[q] = pc[q]
    BY <1>5 DEF Crash
  <2> QED BY <2>1, <2>2
<1>6. CASE UNCHANGED vars
  BY <1>6 DEF vars
<1> QED BY <1>1, <1>2, <1>3, <1>4, <1>5, <1>6 DEF Next, Locked

(* At the start the semaphore is free and nobody is inside. *)
LEMMA InitLock == Init => LockInv
BY DEF Init, LockInv, ExclusiveAccess, Critical

(* radShmemLock keeps its promise as long as no signal arrives: two        *)
(* processes are never inside the locked section together.                 *)
THEOREM MutualExclusion ==
  ASSUME Undisturbed
  PROVE  Spec => []ExclusiveAccess
<1>1. LockInv => ExclusiveAccess
  BY DEF LockInv
<1> QED BY InitType, InitLock, NextType, LockStep, <1>1, PTL DEF Spec
-----------------------------------------------------------------------------
(* Who owns a buffer. *)

(* The header says whether a buffer is in use, except for the moments      *)
(* between the change of the list and the mark.                            *)
HeldInv ==
  /\ \A p \in Process : \A b \in held[p] : allocated[b] = 1
  /\ \A b \in sent : allocated[b] = 1
  /\ \A p \in Process : /\ pc[p] \in {"rls_check", "rls_clear"} => allocated[reg[p]] = 1
                        /\ pc[p] \in {"rls_check", "rls_clear"} => reg[p] \notin held[p]
                        /\ pc[p] \in {"rls_lock", "rls_link", "rls_head"} => allocated[reg[p]] = 0

(* What a process inside the lock has read from the lists is still so: it  *)
(* is about to take the head of the first list that fits, or to make its   *)
(* buffer the head of the list it is linked to.                            *)
FirstFit(p) ==
  /\ pool[SizeIndex[reg[p]]] = reg[p]
  /\ idx[p] <= SizeIndex[reg[p]]
  /\ \A c \in Free : idx[p] <= SizeIndex[c] => SizeIndex[reg[p]] <= SizeIndex[c]

StepInv ==
  \A p \in Process : /\ pc[p] = "get_pop" => FirstFit(p)
                     /\ pc[p] = "rls_head" => next[reg[p]] = pool[SizeIndex[reg[p]]]

Inv == TypeInv /\ LockInv /\ SingleOwner /\ FreeListsIntact /\ HeldInv /\ StepInv

-----------------------------------------------------------------------------
(* What a step does to the places of the buffers. *)
Owns(p, S) == Owned(p)' = S /\ \A q \in Process \ {p} : Owned(q)' = Owned(q)

Stays == Free' = Free /\ sent' = sent /\ \A q \in Process : Owned(q)' = Owned(q)
Takes(p, b) == b \in Free /\ Free' = Free \ {b} /\ sent' = sent /\ Owns(p, Owned(p) \cup {b})
Frees(p, b) == b \in Owned(p) /\ Free' = Free \cup {b} /\ sent' = sent /\ Owns(p, Owned(p) \ {b})
Hands(p, b) == b \in Owned(p) /\ Free' = Free /\ sent' = sent \cup {b} /\ Owns(p, Owned(p) \ {b})
Accepts(p, b) == b \in sent /\ Free' = Free /\ sent' = sent \ {b} /\ Owns(p, Owned(p) \cup {b})
Loses(p) == Free' = Free /\ sent' = sent /\ Owns(p, {})

ListsOK == \A i \in Size : IsList(Class(i), pool[i], next)

(* A class has finitely many buffers, and offset 0 is none of them. *)
LEMMA ClassFinite == \A i : IsFiniteSet(Class(i)) /\ Nil \notin Class(i)
BY FS_Subset DEF Class

(* A list has elements of its class only. *)
LEMMA ListedInClass ==
  ASSUME NEW C, NEW h, NEW nx, NEW b, OnList(C, h, nx, b)
  PROVE  b \in C
BY DEF OnList

(* The buffers a process owns are buffers. *)
LEMMA OwnedType == TypeInv => \A p \in Process : Owned(p) \subseteq Buffer
BY DEF TypeInv, TypeOK, Owned, InTransit

(* A process at these points has the buffer it works on. *)
LEMMA RegOwned ==
  ASSUME TypeInv, NEW p \in Process,
         pc[p] \in {"get_mark", "rls_check", "rls_clear", "rls_lock", "rls_link", "rls_head"}
  PROVE  reg[p] \in Buffer /\ reg[p] \in Owned(p)
BY DEF TypeInv, LocalsOK, RegPoints, RlsPoints, Owned, InTransit

(* Steps that change no list. *)
LEMMA ListsFrame ==
  ASSUME UNCHANGED <<pool, next>>
  PROVE  Free' = Free /\ (ListsOK => ListsOK') /\ \A b : Listed(b)' <=> Listed(b)
BY DEF Free, Listed, ListsOK

(* radBufferGet takes the head off its list, and nothing else. *)
LEMMA PopEffect ==
  ASSUME TypeInv, ListsOK, StepInv, NEW p \in Process, GetPop(p)
  PROVE  ListsOK' /\ reg[p] \in Free /\ Free' = Free \ {reg[p]}
<1> DEFINE b == reg[p]
           k == SizeIndex[b]
<1>1. b \in Buffer /\ k \in Size /\ pool[k] = b /\ next' = next
  BY DEF TypeInv, LocalsOK, RegPoints, GetPop, Goto, StepInv, FirstFit
<1>2. pool' = [pool EXCEPT ![k] = next[b]] /\ pool \in [Size -> Buffer \cup {Nil}]
  BY DEF TypeInv, TypeOK, GetPop
<1>3. b \in Class(k)
  BY <1>1 DEF Class
<1>4. IsList(Class(k), b, next)
  BY <1>1 DEF ListsOK
<1>5. /\ OnList(Class(k), b, next, b)
      /\ IsList(Class(k), next[b], next)
      /\ \A c : OnList(Class(k), next[b], next, c) <=> OnList(Class(k), b, next, c) /\ c # b
  <2> HIDE DEF b, k
  <2> QED BY <1>3, <1>4, ClassFinite, PopList
<1>6. pool'[k] = next[b] /\ \A i \in Size \ {k} : pool'[i] = pool[i]
  BY <1>1, <1>2
<1>7. ListsOK'
  BY <1>1, <1>5, <1>6 DEF ListsOK
<1>8. \A c \in Buffer : Listed(c)' <=> Listed(c) /\ c # b
  <2> SUFFICES ASSUME NEW c \in Buffer PROVE Listed(c)' <=> Listed(c) /\ c # b
    OBVIOUS
  <2>1. CASE SizeIndex[c] = k
    BY <2>1, <1>1, <1>5, <1>6 DEF Listed
  <2>2. CASE SizeIndex[c] # k
    <3>1. SizeIndex[c] \in Size \ {k} /\ c # b
      BY <2>2
    <3> QED BY <3>1, <1>1, <1>6 DEF Listed
  <2> QED BY <2>1, <2>2
<1>9. Listed(b)
  BY <1>1, <1>5 DEF Listed
<1> QED BY <1>1, <1>7, <1>8, <1>9 DEF Free

(* Linking a buffer in front of a list leaves the list as it is. *)
LEMMA LinkEffect ==
  ASSUME TypeInv, ListsOK, SingleOwner, NEW p \in Process, RlsLink(p)
  PROVE  ListsOK' /\ Free' = Free
<1> DEFINE b == reg[p]
<1>1. b \in Buffer /\ ~ Listed(b)
  BY RegOwned DEF RlsLink, Goto, SingleOwner
<1>2. next' = [next EXCEPT ![b] = pool[SizeIndex[b]]] /\ pool' = pool
  BY DEF RlsLink
<1>3. next \in [Buffer -> Buffer \cup {Nil}] /\ pool \in [Size -> Buffer \cup {Nil}]
  BY DEF TypeInv, TypeOK
<1>4. ASSUME NEW i \in Size
      PROVE  /\ IsList(Class(i), pool[i], next) => IsList(Class(i), pool[i], next')
             /\ \A c : OnList(Class(i), pool[i], next', c) <=> OnList(Class(i), pool[i], next, c)
  <2> DEFINE C == Class(i)
             h == pool[i]
             v == pool[SizeIndex[b]]
             mx == next'
  <2>1. ~ OnList(C, h, next, b)
    BY <1>1, ListedInClass DEF Class, Listed
  <2>2. b \in C => v = h
    BY DEF Class
  <2>3. v \in Buffer \cup {Nil} /\ b \in Buffer /\ next \in [Buffer -> Buffer \cup {Nil}]
    BY <1>1, <1>3
  <2>4. C \subseteq Buffer /\ IsFiniteSet(C) /\ Nil \notin C
    BY ClassFinite DEF Class
  <2>5. mx = [next EXCEPT ![b] = v]
    BY <1>2
  <2> HIDE DEF b, C, h, v, mx
  <2>6. /\ IsList(C, h, next) => IsList(C, h, mx)
        /\ \A c : OnList(C, h, mx, c) <=> OnList(C, h, next, c)
    BY <2>1, <2>2, <2>3, <2>4, <2>5, LinkList
  <2> QED BY <2>6 DEF C, h, mx
<1>5. ListsOK'
  BY <1>2, <1>4 DEF ListsOK
<1>6. \A c \in Buffer : Listed(c)' <=> Listed(c)
  BY <1>2, <1>4 DEF Listed
<1> QED BY <1>5, <1>6 DEF Free

(* radBufferRls puts its buffer on the list of its class, and nothing else. *)
LEMMA HeadEffect ==
  ASSUME TypeInv, ListsOK, SingleOwner, StepInv, NEW p \in Process, RlsHead(p)
  PROVE  ListsOK' /\ Free' = Free \cup {reg[p]}
<1> DEFINE b == reg[p]
           k == SizeIndex[b]
<1>1. b \in Buffer /\ k \in Size /\ ~ Listed(b)
  BY RegOwned DEF RlsHead, Goto, SingleOwner
<1>2. pool' = [pool EXCEPT ![k] = b] /\ next' = next /\ next[b] = pool[k]
  BY DEF RlsHead, Goto, StepInv
<1>3. pool'[k] = b /\ \A i \in Size \ {k} : pool'[i] = pool[i]
  BY <1>1, <1>2 DEF TypeInv, TypeOK
<1>4. b \in Class(k) /\ IsList(Class(k), next[b], next) /\ ~ OnList(Class(k), next[b], next, b)
  BY <1>1, <1>2 DEF Class, ListsOK, Listed
<1>5. /\ IsList(Class(k), b, next)
      /\ \A c : OnList(Class(k), b, next, c) <=> OnList(Class(k), next[b], next, c) \/ c = b
  <2> HIDE DEF b, k
  <2> QED BY <1>4, ClassFinite, PushList
<1>6. ListsOK'
  BY <1>2, <1>3, <1>5 DEF ListsOK
<1>7. \A c \in Buffer : Listed(c)' <=> Listed(c) \/ c = b
  <2> SUFFICES ASSUME NEW c \in Buffer PROVE Listed(c)' <=> Listed(c) \/ c = b
    OBVIOUS
  <2>1. CASE SizeIndex[c] = k
    BY <2>1, <1>2, <1>3, <1>5 DEF Listed
  <2>2. CASE SizeIndex[c] # k
    <3>1. SizeIndex[c] \in Size \ {k} /\ c # b
      BY <2>2
    <3> QED BY <3>1, <1>2, <1>3 DEF Listed
  <2> QED BY <2>1, <2>2
<1> QED BY <1>1, <1>6, <1>7 DEF Free

(* A process whose variables stay owns what it owned. *)
LEMMA OwnedFrame ==
  ASSUME NEW q, pc'[q] = pc[q], reg'[q] = reg[q], held'[q] = held[q]
  PROVE  Owned(q)' = Owned(q)
BY DEF Owned, InTransit

(* What a step of p leaves alone. *)
LEMMA OthersFrame ==
  ASSUME TypeInv, NEW p \in Process, NEW q \in Process \ {p},
         \/ Call(p) \/ Locking(p) \/ Locked(p) \/ Unlocked(p) \/ Crash(p) \/ Attach(p)
  PROVE  pc'[q] = pc[q] /\ reg'[q] = reg[q] /\ idx'[q] = idx[q] /\ held'[q] = held[q]
<1> USE DEF TypeInv, TypeOK, Goto, Return
<1>1. CASE Call(p)
  BY <1>1 DEF Call, GetCall, CountCall, RlsCall, radQueueSend, radQueueRecv
<1>2. CASE Locking(p)
  BY <1>2 DEF Locking, GetLock, RlsLock, CountLock, radShmemLock
<1>3. CASE Locked(p)
  <2>1. CASE GetScan(p) BY <2>1 DEF GetScan
  <2>2. CASE GetPop(p) \/ RlsLink(p) \/ RlsHead(p) BY <2>2 DEF GetPop, RlsLink, RlsHead
  <2>3. CASE GetUnlock(p) BY <2>3 DEF GetUnlock
  <2>4. CASE RlsUnlock(p) BY <2>4 DEF RlsUnlock
  <2>5. CASE CountHead(p) \/ CountWalk(p) BY <2>5 DEF CountHead, CountWalk
  <2>6. CASE CountUnlock(p) BY <2>6 DEF CountUnlock
  <2> QED BY <1>3, <2>1, <2>2, <2>3, <2>4, <2>5, <2>6 DEF Locked
<1>4. CASE Unlocked(p)
  BY <1>4 DEF Unlocked, GetMark, RlsCheck, RlsClear
<1>5. CASE Crash(p) \/ Attach(p)
  BY <1>5 DEF Crash, Attach
<1> QED BY <1>1, <1>2, <1>3, <1>4, <1>5

(* The steps that move no buffer.  RlsCheck finds the mark set. *)
Quiet(p) ==
  \/ \E n \in Request : GetCall(p, n)
  \/ CountCall(p) \/ Locking(p) \/ Unlocked(p) \/ Attach(p)
  \/ \E b \in Buffer : RlsCall(p, b)
  \/ GetScan(p) \/ GetUnlock(p) \/ RlsUnlock(p) \/ CountHead(p) \/ CountWalk(p) \/ CountUnlock(p)

(* They change neither list nor owner. *)
LEMMA QuietOwned ==
  ASSUME TypeInv, HeldInv, NEW p \in Process, Quiet(p)
  PROVE  Owned(p)' = Owned(p) /\ UNCHANGED <<pool, next, sent>>
<1> USE DEF TypeInv, TypeOK, LocalsOK, RegPoints, RlsPoints, Goto, Return, Owned, InTransit
<1>1. CASE \E n \in Request : GetCall(p, n)
  BY <1>1 DEF GetCall
<1>2. CASE CountCall(p) \/ Attach(p)
  BY <1>2 DEF CountCall, Attach
<1>3. CASE Locking(p)
  BY <1>3 DEF Locking, GetLock, RlsLock, CountLock, radShmemLock
<1>4. CASE GetMark(p)
  BY <1>4 DEF GetMark
<1>5. CASE RlsCheck(p)
  BY <1>5 DEF RlsCheck, HeldInv
<1>6. CASE RlsClear(p)
  BY <1>6 DEF RlsClear
<1>7. CASE \E b \in Buffer : RlsCall(p, b)
  BY <1>7 DEF RlsCall
<1>8. CASE GetScan(p)
  BY <1>8 DEF GetScan
<1>9. CASE GetUnlock(p)
  BY <1>9 DEF GetUnlock
<1>10. CASE RlsUnlock(p)
  BY <1>10 DEF RlsUnlock
<1>11. CASE CountHead(p) \/ CountWalk(p)
  BY <1>11 DEF CountHead, CountWalk
<1>12. CASE CountUnlock(p)
  BY <1>12 DEF CountUnlock
<1> QED BY <1>1, <1>2, <1>3, <1>4, <1>5, <1>6, <1>7, <1>8, <1>9, <1>10, <1>11, <1>12
           DEF Quiet, Unlocked

(* Every step is quiet or moves one buffer, or is the death of a process;  *)
(* and it leaves the free lists lists.                                     *)
LEMMA ActionEffect ==
  ASSUME Inv, NEW p \in Process
  PROVE  /\ Quiet(p) \/ RlsLink(p) => ListsOK' /\ Stays
         /\ GetPop(p) => ListsOK' /\ Takes(p, reg[p])
         /\ RlsHead(p) => ListsOK' /\ Frees(p, reg[p])
         /\ Crash(p) => ListsOK' /\ Loses(p)
<1>1. TypeInv /\ HeldInv /\ SingleOwner /\ StepInv /\ ListsOK
  BY DEF Inv, FreeListsIntact, ListsOK
<1>2. ASSUME \/ Call(p) \/ Locking(p) \/ Locked(p) \/ Unlocked(p) \/ Crash(p) \/ Attach(p)
      PROVE  \A q \in Process \ {p} : Owned(q)' = Owned(q)
  BY <1>1, <1>2, OthersFrame, OwnedFrame
<1>3. ASSUME Quiet(p) PROVE ListsOK' /\ Stays
  <2>1. Owned(p)' = Owned(p) /\ UNCHANGED <<pool, next, sent>>
    BY <1>1, <1>3, QuietOwned
  <2>2. \A q \in Process \ {p} : Owned(q)' = Owned(q)
    BY <1>2, <1>3 DEF Quiet, Call, Locked
  <2> QED BY <1>1, <2>1, <2>2, ListsFrame DEF Stays
<1>4. ASSUME RlsLink(p) PROVE ListsOK' /\ Stays
  <2>1. Owned(p)' = Owned(p) /\ sent' = sent
    BY <1>1, <1>4 DEF RlsLink, Goto, Owned, InTransit, TypeInv, TypeOK
  <2> QED BY <1>1, <1>2, <1>4, <2>1, LinkEffect DEF Stays, Locked
<1>5. ASSUME GetPop(p) PROVE ListsOK' /\ Takes(p, reg[p])
  <2>1. Owned(p)' = Owned(p) \cup {reg[p]} /\ sent' = sent
    BY <1>1, <1>5 DEF GetPop, Goto, Owned, InTransit, TypeInv, TypeOK, LocalsOK, RegPoints
  <2> QED BY <1>1, <1>2, <1>5, <2>1, PopEffect DEF Takes, Owns, Locked
<1>6. ASSUME RlsHead(p) PROVE ListsOK' /\ Frees(p, reg[p])
  <2>1. Owned(p)' = Owned(p) \ {reg[p]} /\ sent' = sent
    <3>1. reg[p] \notin held[p]
      BY <1>1, <1>6 DEF RlsHead, Goto, HeldInv
    <3> QED BY <1>1, <1>6, <3>1 DEF RlsHead, Goto, Owned, InTransit, TypeInv, TypeOK
  <2>2. reg[p] \in Owned(p)
    BY <1>1, <1>6, RegOwned DEF RlsHead, Goto
  <2> QED BY <1>1, <1>2, <1>6, <2>1, <2>2, HeadEffect DEF Frees, Owns, Locked
<1>7. ASSUME Crash(p) PROVE ListsOK' /\ Loses(p)
  <2>1. Owned(p)' = {} /\ sent' = sent
    BY <1>1, <1>7 DEF Crash, Goto, Owned, InTransit, TypeInv, TypeOK
  <2>2. ListsOK' /\ Free' = Free
    BY <1>1, <1>7, ListsFrame DEF Crash
  <2> QED BY <1>2, <1>7, <2>1, <2>2 DEF Loses, Owns
<1> QED BY <1>3, <1>4, <1>5, <1>6, <1>7

(* A message moves its buffer between its owner and the queue. *)
LEMMA MessageEffect ==
  ASSUME Inv, NEW p \in Process, NEW b \in Buffer
  PROVE  /\ radQueueSend(p, b) => ListsOK' /\ Hands(p, b)
         /\ radQueueRecv(p, b) => ListsOK' /\ Accepts(p, b)
<1>1. TypeInv /\ ListsOK
  BY DEF Inv, FreeListsIntact, ListsOK
<1>2. ASSUME radQueueSend(p, b) \/ radQueueRecv(p, b)
      PROVE  \A q \in Process \ {p} : Owned(q)' = Owned(q)
  BY <1>1, <1>2, OthersFrame, OwnedFrame DEF Call
<1>3. ASSUME radQueueSend(p, b) PROVE ListsOK' /\ Hands(p, b)
  <2>1. Owned(p)' = Owned(p) \ {b} /\ b \in Owned(p) /\ sent' = sent \cup {b}
    BY <1>1, <1>3 DEF radQueueSend, Owned, InTransit, TypeInv, TypeOK
  <2>2. ListsOK' /\ Free' = Free
    BY <1>1, <1>3, ListsFrame DEF radQueueSend
  <2> QED BY <1>2, <1>3, <2>1, <2>2 DEF Hands, Owns
<1>4. ASSUME radQueueRecv(p, b) PROVE ListsOK' /\ Accepts(p, b)
  <2>1. Owned(p)' = Owned(p) \cup {b} /\ b \in sent /\ sent' = sent \ {b}
    BY <1>1, <1>4 DEF radQueueRecv, Owned, InTransit, TypeInv, TypeOK
  <2>2. ListsOK' /\ Free' = Free
    BY <1>1, <1>4, ListsFrame DEF radQueueRecv
  <2> QED BY <1>2, <1>4, <2>1, <2>2 DEF Accepts, Owns
<1> QED BY <1>3, <1>4

(* All that a step can do to the places of the buffers. *)
LEMMA StepEffect ==
  ASSUME Inv, [Next]_vars
  PROVE  /\ ListsOK'
         /\ \/ Stays
            \/ \E p \in Process : GetPop(p) /\ Takes(p, reg[p])
            \/ \E p \in Process : RlsHead(p) /\ Frees(p, reg[p])
            \/ \E p \in Process, b \in Buffer : Hands(p, b)
            \/ \E p \in Process, b \in Buffer : Accepts(p, b)
            \/ \E p \in Process : Crash(p) /\ Loses(p)
<1>1. CASE UNCHANGED vars
  <2>1. UNCHANGED <<pool, next, sent>> /\ \A p \in Process : Owned(p)' = Owned(p)
    BY <1>1 DEF vars, Owned, InTransit
  <2> QED BY <2>1, ListsFrame DEF Stays, Inv, FreeListsIntact, ListsOK
<1>2. CASE Next
  <2> PICK p \in Process : \/ Call(p) \/ Locking(p) \/ Locked(p) \/ Unlocked(p)
                          \/ Crash(p) \/ Attach(p)
    BY <1>2 DEF Next
  <2>1. CASE Quiet(p) \/ RlsLink(p)
    BY <2>1, ActionEffect
  <2>2. CASE GetPop(p) \/ RlsHead(p) \/ Crash(p)
    BY <2>2, ActionEffect
  <2>3. ASSUME NEW b \in Buffer, radQueueSend(p, b) PROVE ListsOK' /\ Hands(p, b)
    BY <2>3, MessageEffect
  <2>4. ASSUME NEW b \in Buffer, radQueueRecv(p, b) PROVE ListsOK' /\ Accepts(p, b)
    BY <2>4, MessageEffect
  <2>5. CASE \E b \in Buffer : radQueueSend(p, b) \/ radQueueRecv(p, b)
    BY <2>3, <2>4, <2>5
  <2> QED BY <2>1, <2>2, <2>5 DEF Call, Locked, Quiet
<1> QED BY <1>1, <1>2

-----------------------------------------------------------------------------
(* SingleOwner in terms of sets. *)
Disjoint ==
  /\ \A p, q \in Process : p # q => Owned(p) \cap Owned(q) = {}
  /\ \A p \in Process : Owned(p) \cap sent = {} /\ Owned(p) \cap Free = {}
  /\ sent \cap Free = {}

(* SingleOwner says that owners, messages and free lists share no buffer. *)
LEMMA DisjointOwners ==
  TypeInv /\ Process # {} => (SingleOwner <=> Disjoint)
BY OwnedType DEF SingleOwner, Disjoint, Free, TypeInv, TypeOK

(* No step gives a buffer a second owner. *)
LEMMA NextSingle ==
  ASSUME Inv, [Next]_vars
  PROVE  SingleOwner'
<1>1. TypeInv /\ TypeInv' /\ SingleOwner
  BY NextType DEF Inv
<1>2. CASE Process = {}
  BY <1>2 DEF SingleOwner
<1>3. CASE Process # {}
  <2>1. Disjoint
    BY <1>1, <1>3, DisjointOwners
  <2>2. Disjoint'
    <3>1. CASE Stays
      BY <2>1, <3>1 DEF Stays, Disjoint
    <3>2. CASE \E p \in Process : Takes(p, reg[p])
      BY <2>1, <3>2 DEF Takes, Owns, Disjoint
    <3>3. CASE \E p \in Process : Frees(p, reg[p])
      BY <2>1, <3>3 DEF Frees, Owns, Disjoint
    <3>4. CASE \E p \in Process, b \in Buffer : Hands(p, b)
      BY <2>1, <3>4 DEF Hands, Owns, Disjoint
    <3>5. CASE \E p \in Process, b \in Buffer : Accepts(p, b)
      BY <2>1, <3>5 DEF Accepts, Owns, Disjoint
    <3>6. CASE \E p \in Process : Loses(p)
      BY <2>1, <3>6 DEF Loses, Owns, Disjoint
    <3> QED BY StepEffect, <3>1, <3>2, <3>3, <3>4, <3>5, <3>6
  <2>3. (TypeInv /\ Process # {} => (SingleOwner <=> Disjoint))'
    BY DisjointOwners, PTL
  <2> QED BY <1>1, <1>3, <2>2, <2>3
<1> QED BY <1>2, <1>3

(* The mark of a header changes in two places only. *)
LEMMA MarkStep ==
  ASSUME TypeInv, [Next]_vars
  PROVE  \/ allocated' = allocated
         \/ \E p \in Process : GetMark(p) \/ RlsClear(p)
<1>1. CASE UNCHANGED vars
  BY <1>1 DEF vars
<1>2. ASSUME NEW p \in Process, Call(p) \/ Locking(p) PROVE allocated' = allocated
  BY <1>2 DEF Call, GetCall, CountCall, RlsCall, radQueueSend, radQueueRecv,
              Locking, GetLock, RlsLock, CountLock, radShmemLock
<1>3. ASSUME NEW p \in Process, Locked(p) PROVE allocated' = allocated
  BY <1>3 DEF Locked, GetScan, GetPop, GetUnlock, RlsLink, RlsHead, RlsUnlock,
              CountHead, CountWalk, CountUnlock
<1>4. ASSUME NEW p \in Process, RlsCheck(p) \/ Crash(p) \/ Attach(p) PROVE allocated' = allocated
  BY <1>4 DEF RlsCheck, Crash, Attach
<1> QED BY <1>1, <1>2, <1>3, <1>4 DEF Next, Unlocked

(* No step breaks a free list or lists a marked buffer. *)
LEMMA NextLists ==
  ASSUME Inv, [Next]_vars
  PROVE  FreeListsIntact'
<1>1. TypeInv /\ SingleOwner /\ HeldInv /\ \A b \in Free : allocated[b] = 0
  BY DEF Inv, FreeListsIntact, Free
<1>2. ListsOK'
  BY StepEffect
<1>3. \A b \in Free' : allocated'[b] = 0
  <2>1. CASE allocated' = allocated
    <3>1. CASE \E p \in Process : RlsHead(p) /\ Frees(p, reg[p])
      <4> PICK p \in Process : RlsHead(p) /\ Frees(p, reg[p])
        BY <3>1
      <4>1. allocated[reg[p]] = 0
        BY <1>1 DEF RlsHead, Goto, HeldInv
      <4> QED BY <1>1, <2>1, <4>1 DEF Frees
    <3> QED BY <1>1, <2>1, <3>1, StepEffect DEF Stays, Takes, Hands, Accepts, Loses
  <2>2. CASE \E p \in Process : GetMark(p) \/ RlsClear(p)
    <3> PICK p \in Process : GetMark(p) \/ RlsClear(p)
      BY <2>2
    <3>1. UNCHANGED <<pool, next>>
      BY DEF GetMark, RlsClear
    <3>2. Free' = Free
      BY <3>1, ListsFrame
    <3>3. reg[p] \in Buffer /\ reg[p] \notin Free
      BY <1>1, RegOwned DEF GetMark, RlsClear, Goto, Return, SingleOwner, Free
    <3>4. \A b \in Free : allocated'[b] = allocated[b]
      BY <1>1, <3>3 DEF GetMark, RlsClear, TypeInv, TypeOK, Free
    <3> QED BY <1>1, <3>2, <3>4
  <2> QED BY <1>1, <2>1, <2>2, MarkStep
<1>4. (\A i \in Size : IsList(Class(i), pool[i], next))'
  BY <1>2 DEF ListsOK
<1>5. \A b \in Buffer : Listed(b)' => allocated'[b] = 0
  BY <1>3 DEF Free
<1> QED BY <1>4, <1>5 DEF FreeListsIntact

(* Steps that change neither marks nor lists of owned buffers. *)
LEMMA HeldFrame ==
  ASSUME HeldInv, TypeInv, allocated' = allocated, held' = held, sent' = sent,
         NEW p \in Process, \A q \in Process \ {p} : pc'[q] = pc[q] /\ reg'[q] = reg[q],
         \/ pc'[p] \notin {"rls_check", "rls_clear", "rls_lock", "rls_link", "rls_head"}
         \/ /\ reg'[p] = reg[p]
            /\ \/ pc[p] = "rls_check" /\ pc'[p] = "rls_clear"
               \/ pc[p] \in {"rls_lock", "rls_link"} /\ pc'[p] \in {"rls_link", "rls_head"}
  PROVE  HeldInv'
BY DEF HeldInv

(* Two processes that both own what they work on work on different buffers. *)
LEMMA OwnersDiffer ==
  ASSUME SingleOwner, NEW p \in Process, NEW b \in Owned(p)
  PROVE  /\ b \notin sent
         /\ \A q \in Process \ {p} : b \notin Owned(q)
BY DEF SingleOwner

(* No step marks a free buffer or clears one in use. *)
LEMMA NextHeld ==
  ASSUME Inv, [Next]_vars
  PROVE  HeldInv'
<1>0. TypeInv /\ SingleOwner /\ HeldInv
  BY DEF Inv
<1>a. ASSUME NEW p \in Process,
             \/ Call(p) \/ Locking(p) \/ Locked(p) \/ Unlocked(p) \/ Crash(p) \/ Attach(p)
      PROVE  \A q \in Process \ {p} : pc'[q] = pc[q] /\ reg'[q] = reg[q] /\ held'[q] = held[q]
  BY <1>0, <1>a, OthersFrame
<1> USE DEF Goto, Return
<1>1. ASSUME NEW p \in Process, GetMark(p) PROVE HeldInv'
  <2>1. reg[p] \in Buffer /\ reg[p] \in Owned(p)
    BY <1>0, <1>1, RegOwned DEF GetMark
  <2>2. reg[p] \notin sent /\ \A q \in Process \ {p} : reg[p] \notin Owned(q)
    BY <1>0, <2>1, OwnersDiffer
  <2>3. allocated'[reg[p]] = 1 /\ \A b \in Buffer \ {reg[p]} : allocated'[b] = allocated[b]
    BY <1>0, <1>1, <2>1 DEF GetMark, TypeInv, TypeOK
  <2>4. sent' = sent /\ sent \subseteq Buffer /\ held'[p] = held[p] \cup {reg[p]} /\ pc'[p] = "idle"
    BY <1>0, <1>1 DEF GetMark, TypeInv, TypeOK
  <2>5. \A q \in Process \ {p} : pc'[q] = pc[q] /\ reg'[q] = reg[q] /\ held'[q] = held[q]
    BY <1>1, <1>a DEF Unlocked
  <2>6. \A q \in Process : held[q] \subseteq Buffer
    BY <1>0 DEF TypeInv, TypeOK
  <2>7. ASSUME NEW q \in Process \ {p},
               pc[q] \in {"rls_check", "rls_clear", "rls_lock", "rls_link", "rls_head"}
        PROVE  allocated'[reg[q]] = allocated[reg[q]]
    BY <1>0, <2>2, <2>3, <2>7, RegOwned
  <2> QED BY <1>0, <2>2, <2>3, <2>4, <2>5, <2>6, <2>7 DEF HeldInv
<1>2. ASSUME NEW p \in Process, RlsClear(p) PROVE HeldInv'
  <2>1. reg[p] \in Buffer /\ reg[p] \in Owned(p)
    BY <1>0, <1>2, RegOwned DEF RlsClear
  <2>2. reg[p] \notin sent /\ \A q \in Process \ {p} : reg[p] \notin Owned(q)
    BY <1>0, <2>1, OwnersDiffer
  <2>3. allocated'[reg[p]] = 0 /\ \A b \in Buffer \ {reg[p]} : allocated'[b] = allocated[b]
    BY <1>0, <1>2, <2>1 DEF RlsClear, TypeInv, TypeOK
  <2>4. /\ sent' = sent /\ sent \subseteq Buffer /\ held' = held /\ reg' = reg
        /\ pc'[p] = "rls_lock" /\ reg[p] \notin held[p]
    BY <1>0, <1>2 DEF RlsClear, TypeInv, TypeOK, HeldInv
  <2>5. \A q \in Process \ {p} : pc'[q] = pc[q] /\ reg'[q] = reg[q] /\ held'[q] = held[q]
    BY <1>2, <1>a DEF Unlocked
  <2>6. \A q \in Process : held[q] \subseteq Buffer
    BY <1>0 DEF TypeInv, TypeOK
  <2>7. ASSUME NEW q \in Process \ {p},
               pc[q] \in {"rls_check", "rls_clear", "rls_lock", "rls_link", "rls_head"}
        PROVE  allocated'[reg[q]] = allocated[reg[q]]
    BY <1>0, <2>2, <2>3, <2>7, RegOwned
  <2>8. \A q \in Process \ {p} : reg[p] \notin held[q]
    BY <2>2 DEF Owned
  <2> QED BY <1>0, <2>2, <2>3, <2>4, <2>5, <2>6, <2>7, <2>8 DEF HeldInv
<1>3. ASSUME NEW p \in Process, NEW b \in Buffer, RlsCall(p, b) PROVE HeldInv'
  <2>1. \A q \in Process \ {p} : pc'[q] = pc[q] /\ reg'[q] = reg[q] /\ held'[q] = held[q]
    BY <1>3, <1>a DEF Call
  <2>2. /\ b \in held[p] /\ held'[p] = held[p] \ {b} /\ reg'[p] = b /\ pc'[p] = "rls_check"
        /\ allocated' = allocated /\ sent' = sent
    BY <1>0, <1>3 DEF RlsCall, TypeInv, TypeOK
  <2> QED BY <1>0, <2>1, <2>2 DEF HeldInv
<1>4. ASSUME NEW p \in Process, NEW b \in Buffer, radQueueSend(p, b) \/ radQueueRecv(p, b)
      PROVE  HeldInv'
  <2>1. \A q \in Process \ {p} : pc'[q] = pc[q] /\ reg'[q] = reg[q] /\ held'[q] = held[q]
    BY <1>4, <1>a DEF Call
  <2>2. /\ held'[p] \subseteq held[p] \cup sent /\ sent' \subseteq sent \cup held[p]
        /\ pc'[p] = "idle" /\ allocated' = allocated
    BY <1>0, <1>4 DEF radQueueSend, radQueueRecv, TypeInv, TypeOK
  <2> QED BY <1>0, <2>1, <2>2 DEF HeldInv
<1>5. ASSUME NEW p \in Process, Crash(p) PROVE HeldInv'
  <2>1. \A q \in Process \ {p} : pc'[q] = pc[q] /\ reg'[q] = reg[q] /\ held'[q] = held[q]
    BY <1>5, <1>a
  <2>2. held'[p] = {} /\ pc'[p] = "dead" /\ allocated' = allocated /\ sent' = sent
    BY <1>0, <1>5 DEF Crash, TypeInv, TypeOK
  <2> QED BY <1>0, <2>1, <2>2 DEF HeldInv
<1>6. ASSUME NEW p \in Process,
             \/ \E n \in Request : GetCall(p, n)
             \/ CountCall(p) \/ GetLock(p) \/ CountLock(p) \/ Attach(p)
      PROVE  HeldInv'
  <2>1. \A q \in Process \ {p} : pc'[q] = pc[q] /\ reg'[q] = reg[q]
    BY <1>6, <1>a DEF Call, Locking
  <2>2. /\ pc'[p] \notin {"rls_check", "rls_clear", "rls_lock", "rls_link", "rls_head"}
        /\ allocated' = allocated /\ held' = held /\ sent' = sent
    BY <1>0, <1>6 DEF GetCall, CountCall, GetLock, CountLock, radShmemLock, Attach, TypeInv, TypeOK
  <2> QED BY <1>0, <2>1, <2>2, HeldFrame
<1>7. ASSUME NEW p \in Process,
             \/ GetScan(p) \/ GetPop(p) \/ GetUnlock(p) \/ RlsHead(p) \/ RlsUnlock(p)
             \/ CountHead(p) \/ CountWalk(p) \/ CountUnlock(p)
      PROVE  HeldInv'
  <2>1. \A q \in Process \ {p} : pc'[q] = pc[q] /\ reg'[q] = reg[q]
    BY <1>7, <1>a DEF Locked
  <2>2. allocated' = allocated /\ held' = held /\ sent' = sent
    BY <1>7 DEF GetScan, GetPop, GetUnlock, RlsHead, RlsUnlock, CountHead, CountWalk, CountUnlock
  <2>3. pc'[p] \notin {"rls_check", "rls_clear", "rls_lock", "rls_link", "rls_head"}
    BY <1>0, <1>7 DEF GetScan, GetPop, GetUnlock, RlsHead, RlsUnlock, CountHead, CountWalk,
                      CountUnlock, TypeInv, TypeOK
  <2> QED BY <1>0, <2>1, <2>2, <2>3, HeldFrame
<1>8. ASSUME NEW p \in Process, RlsCheck(p) \/ RlsLock(p) \/ RlsLink(p) PROVE HeldInv'
  <2>1. \A q \in Process \ {p} : pc'[q] = pc[q] /\ reg'[q] = reg[q]
    BY <1>8, <1>a DEF Locked, Locking, Unlocked
  <2>2. allocated' = allocated /\ held' = held /\ sent' = sent
    BY <1>8 DEF RlsCheck, RlsLock, radShmemLock, RlsLink
  <2>3. \/ pc'[p] \notin {"rls_check", "rls_clear", "rls_lock", "rls_link", "rls_head"}
        \/ /\ reg'[p] = reg[p]
           /\ \/ pc[p] = "rls_check" /\ pc'[p] = "rls_clear"
              \/ pc[p] \in {"rls_lock", "rls_link"} /\ pc'[p] \in {"rls_link", "rls_head"}
    BY <1>0, <1>8 DEF RlsCheck, RlsLock, radShmemLock, RlsLink, TypeInv, TypeOK
  <2> QED BY <1>0, <2>1, <2>2, <2>3, HeldFrame
<1>9. CASE UNCHANGED vars
  BY <1>0, <1>9 DEF vars, HeldInv
<1> QED BY <1>1, <1>2, <1>3, <1>4, <1>5, <1>6, <1>7, <1>8, <1>9
           DEF Next, Call, Locking, Locked, Unlocked

(* The head of a list that is not empty is on it. *)
LEMMA HeadListed ==
  ASSUME NEW C, IsFiniteSet(C), Nil \notin C, NEW h, NEW nx,
         \/ IsList(C, h, nx) /\ h # Nil
         \/ \E b : OnList(C, h, nx, b)
  PROVE  h \in C /\ OnList(C, h, nx, h)
<1>1. Cardinality(C) \in Nat
  BY FS_CardinalityType
<1>2. \E n \in Nat : n # 0 /\ \E s \in [1 .. n -> C] : Chain(h, nx, n, s)
  <2>1. CASE IsList(C, h, nx) /\ h # Nil
    BY <1>1, <2>1 DEF IsList, Chain
  <2>2. CASE \E b : OnList(C, h, nx, b)
    BY <2>2, ListElim
  <2> QED BY <2>1, <2>2
<1>3. PICK n \in Nat : n # 0 /\ \E s \in [1 .. n -> C] : Chain(h, nx, n, s)
  BY <1>2
<1>4. PICK s \in [1 .. n -> C] : Chain(h, nx, n, s)
  BY <1>3
<1>5. 1 \in 1 .. n /\ s[1] = h
  BY <1>3, <1>4 DEF Chain
<1>6. OnList(C, h, nx, s[1])
  BY <1>4, <1>5, ListIntro
<1> QED BY <1>5, <1>6

(* The loop of radBufferGet sees exactly the classes with a free buffer.   *)
LEMMA UsableIsFree ==
  ASSUME TypeInv, FreeListsIntact, NEW n
  PROVE  /\ \A i \in Usable(n) : pool[i] \in Free /\ SizeIndex[pool[i]] = i
         /\ \A c \in Free : SizeIndex[c] >= n => SizeIndex[c] \in Usable(n)
<1>1. ASSUME NEW i \in Usable(n) PROVE pool[i] \in Free /\ SizeIndex[pool[i]] = i
  <2>1. i \in Size /\ pool[i] # Nil
    BY <1>1 DEF Usable
  <2>2. pool[i] \in Class(i) /\ OnList(Class(i), pool[i], next, pool[i])
    BY <2>1, ClassFinite, HeadListed DEF FreeListsIntact
  <2> QED BY <2>2 DEF Class, Free, Listed
<1>2. ASSUME NEW c \in Free, SizeIndex[c] >= n PROVE SizeIndex[c] \in Usable(n)
  <2> DEFINE i == SizeIndex[c]
  <2>1. c \in Buffer /\ i \in Size /\ OnList(Class(i), pool[i], next, c)
    BY DEF Free, Listed
  <2>2. pool[i] \in Class(i) /\ OnList(Class(i), pool[i], next, pool[i])
    BY <2>1, ClassFinite, HeadListed
  <2>3. pool[i] \in Buffer /\ SizeIndex[pool[i]] = i /\ Listed(pool[i])
    BY <2>2 DEF Class, Listed
  <2>4. allocated[pool[i]] = 0
    BY <2>3 DEF FreeListsIntact
  <2> QED BY <1>2, <2>1, <2>3, <2>4 DEF Usable
<1> QED BY <1>1, <1>2

(* The lists change only inside the lock. *)
LEMMA ListWriters ==
  ASSUME TypeInv, NEW p \in Process,
         \/ Call(p) \/ Locking(p) \/ Locked(p) \/ Unlocked(p) \/ Crash(p) \/ Attach(p)
  PROVE  UNCHANGED <<pool, next>> \/ pc[p] \in Critical
<1>1. CASE GetPop(p) \/ RlsLink(p) \/ RlsHead(p)
  BY <1>1 DEF GetPop, RlsLink, RlsHead, Goto, Critical
<1>2. CASE Call(p) \/ Locking(p)
  BY <1>2 DEF Call, GetCall, CountCall, RlsCall, radQueueSend, radQueueRecv,
              Locking, GetLock, RlsLock, CountLock, radShmemLock
<1>3. CASE GetScan(p) \/ GetUnlock(p) \/ RlsUnlock(p) \/ CountHead(p) \/ CountWalk(p) \/ CountUnlock(p)
  BY <1>3 DEF GetScan, GetUnlock, RlsUnlock, CountHead, CountWalk, CountUnlock
<1>4. CASE Unlocked(p) \/ Crash(p) \/ Attach(p)
  BY <1>4 DEF Unlocked, GetMark, RlsCheck, RlsClear, Crash, Attach
<1> QED BY <1>1, <1>2, <1>3, <1>4 DEF Locked

(* What a process reads from the lists stays, since nobody else is inside. *)
LEMMA StepFrame ==
  ASSUME TypeInv, LockInv, StepInv, NEW p \in Process, NEW q \in Process \ {p},
         \/ Call(p) \/ Locking(p) \/ Locked(p) \/ Unlocked(p) \/ Crash(p) \/ Attach(p)
  PROVE  /\ pc'[q] = "get_pop" => FirstFit(q)'
         /\ pc'[q] = "rls_head" => next'[reg'[q]] = pool'[SizeIndex[reg'[q]]]
<1> SUFFICES ASSUME pc'[q] \in {"get_pop", "rls_head"}
             PROVE  /\ pc'[q] = "get_pop" => FirstFit(q)'
                    /\ pc'[q] = "rls_head" => next'[reg'[q]] = pool'[SizeIndex[reg'[q]]]
  OBVIOUS
<1>1. pc'[q] = pc[q] /\ reg'[q] = reg[q] /\ idx'[q] = idx[q]
  BY OthersFrame
<1>2. pc[q] \in Critical /\ pc[p] \notin Critical
  BY <1>1 DEF Critical, LockInv, ExclusiveAccess
<1>3. UNCHANGED <<pool, next>>
  BY <1>2, ListWriters
<1>4. Free' = Free
  BY <1>3, ListsFrame
<1>5. FirstFit(q) => FirstFit(q)'
  BY <1>1, <1>3, <1>4 DEF FirstFit
<1> QED BY <1>1, <1>3, <1>5 DEF StepInv

(* What a process inside the lock has read stays true until it uses it. *)
LEMMA NextStep ==
  ASSUME Inv, [Next]_vars
  PROVE  StepInv'
<1>0. TypeInv /\ LockInv /\ FreeListsIntact /\ StepInv
  BY DEF Inv
<1>1. CASE UNCHANGED vars
  <2>1. Free' = Free
    BY <1>1, ListsFrame DEF vars
  <2>2. \A p \in Process : FirstFit(p) => FirstFit(p)'
    BY <1>1, <2>1 DEF vars, FirstFit
  <2> QED BY <1>0, <1>1, <2>2 DEF vars, StepInv
<1>2. ASSUME NEW p \in Process,
             \/ Call(p) \/ Locking(p) \/ Locked(p) \/ Unlocked(p) \/ Crash(p) \/ Attach(p),
             pc'[p] = "get_pop"
      PROVE  FirstFit(p)'
  <2>1. GetScan(p)
    BY <1>0, <1>2 DEF Call, GetCall, CountCall, RlsCall, radQueueSend, radQueueRecv,
              Locking, GetLock, RlsLock, CountLock, radShmemLock, Locked, GetPop, GetUnlock,
              RlsLink, RlsHead, RlsUnlock, CountHead, CountWalk, CountUnlock,
              Unlocked, GetMark, RlsCheck, RlsClear, Crash, Attach, Goto, Return, TypeInv, TypeOK
  <2>2. PICK i \in Usable(idx[p]) :
          /\ \A j \in Usable(idx[p]) : i <= j
          /\ reg' = [reg EXCEPT ![p] = pool[i]]
    BY <1>0, <1>2, <2>1 DEF GetScan, Goto, TypeInv, TypeOK
  <2>3. reg'[p] = pool[i] /\ UNCHANGED <<pool, next, idx>>
    BY <1>0, <2>1, <2>2 DEF GetScan, TypeInv, TypeOK
  <2>4. Free' = Free
    BY <2>3, ListsFrame
  <2>5. SizeIndex[pool[i]] = i /\ i >= idx[p]
    BY <1>0, UsableIsFree DEF Usable
  <2>6. \A c \in Free : idx[p] <= SizeIndex[c] => i <= SizeIndex[c]
    <3> SUFFICES ASSUME NEW c \in Free, idx[p] <= SizeIndex[c] PROVE i <= SizeIndex[c]
      OBVIOUS
    <3>1. idx[p] \in Nat /\ SizeIndex[c] \in Nat
      BY <1>0 DEF Free, TypeInv, TypeOK, Request, Size
    <3>2. SizeIndex[c] >= idx[p]
      BY <3>1
    <3> QED BY <1>0, <2>2, <3>2, UsableIsFree
  <2>7. idx[p] <= i
    BY <1>0, <2>5 DEF TypeInv, TypeOK, Request, Usable, Size
  <2> QED BY <2>3, <2>4, <2>5, <2>6, <2>7 DEF FirstFit
<1>3. ASSUME NEW p \in Process,
             \/ Call(p) \/ Locking(p) \/ Locked(p) \/ Unlocked(p) \/ Crash(p) \/ Attach(p),
             pc'[p] = "rls_head"
      PROVE  next'[reg'[p]] = pool'[SizeIndex[reg'[p]]]
  <2>1. RlsLink(p)
    BY <1>0, <1>3 DEF Call, GetCall, CountCall, RlsCall, radQueueSend, radQueueRecv,
              Locking, GetLock, RlsLock, CountLock, radShmemLock, Locked, GetScan, GetPop, GetUnlock,
              RlsHead, RlsUnlock, CountHead, CountWalk, CountUnlock,
              Unlocked, GetMark, RlsCheck, RlsClear, Crash, Attach, Goto, Return, TypeInv, TypeOK
  <2>2. reg[p] \in Buffer
    BY <1>0, <2>1, RegOwned DEF RlsLink, Goto
  <2> QED BY <1>0, <2>1, <2>2 DEF RlsLink, TypeInv, TypeOK
<1>4. ASSUME NEW p \in Process,
             \/ Call(p) \/ Locking(p) \/ Locked(p) \/ Unlocked(p) \/ Crash(p) \/ Attach(p)
      PROVE  StepInv'
  BY <1>0, <1>2, <1>3, <1>4, StepFrame DEF StepInv
<1> QED BY <1>1, <1>4 DEF Next

-----------------------------------------------------------------------------
(* radBuffersInit links the buffers of each class in address order. *)
LEMMA InitLists ==
  ASSUME Init
  PROVE  ListsOK /\ Free = Buffer
<1>1. ASSUME NEW i \in Size
      PROVE  /\ IsList(Class(i), pool[i], next)
             /\ \A b \in Class(i) : OnList(Class(i), pool[i], next, b)
  <2> DEFINE s == Layout[i]
             n == Len(s)
  <2>1. s \in Seq(Buffer) /\ n \in Nat /\ DOMAIN s = 1 .. n /\ n # 0
    BY LayoutAssumption
  <2>2. {s[k] : k \in 1 .. n} = Class(i)
    BY <2>1, LayoutAssumption DEF Class
  <2>3. s \in [1 .. n -> Class(i)]
    BY <2>1, <2>2
  <2>4. \A j, k \in 1 .. n : s[j] = s[k] => j = k
    BY <2>1, LayoutAssumption
  <2>5. pool[i] = s[1]
    BY DEF Init
  <2>6. ASSUME NEW k \in 1 .. n
        PROVE  next[s[k]] = IF k = n THEN Nil ELSE s[k + 1]
    <3> DEFINE b == s[k]
               list == Layout[SizeIndex[b]]
               j == CHOOSE m \in DOMAIN list : list[m] = b
    <3>1. b \in Buffer /\ list = s
      BY <2>3 DEF Class
    <3>2. next[b] = IF j = Len(list) THEN Nil ELSE list[j + 1]
      BY <3>1 DEF Init
    <3>3. j \in 1 .. n /\ s[j] = b
      BY <2>1, <3>1
    <3>4. j = k
      BY <2>4, <3>3
    <3> HIDE DEF b, list, j
    <3>5. next[b] = IF k = n THEN Nil ELSE s[k + 1]
      BY <3>1, <3>2, <3>4
    <3> QED BY <3>5 DEF b
  <2> HIDE DEF s, n
  <2>7. Chain(pool[i], next, n, s)
    BY <2>1, <2>4, <2>5, <2>6 DEF Chain
  <2>8. IsFiniteSet(Class(i))
    BY ClassFinite
  <2>9. IsList(Class(i), pool[i], next) /\ \A k \in 1 .. n : OnList(Class(i), pool[i], next, s[k])
    BY <2>1, <2>3, <2>7, <2>8, ListIntro
  <2> QED BY <2>2, <2>9
<1>2. \A b \in Buffer : SizeIndex[b] \in Size /\ b \in Class(SizeIndex[b])
  BY DEF Class
<1> QED BY <1>1, <1>2 DEF ListsOK, Free, Listed

(* The pool that radBuffersInit leaves satisfies the invariant. *)
LEMMA InitInv == Init => Inv
<1> SUFFICES ASSUME Init PROVE Inv
  OBVIOUS
<1>1. TypeInv /\ LockInv
  BY InitType, InitLock
<1>2. SingleOwner /\ HeldInv /\ StepInv
  BY DEF Init, SingleOwner, HeldInv, StepInv, Owned, InTransit
<1>3. FreeListsIntact
  BY InitLists DEF ListsOK, FreeListsIntact, Init
<1> QED BY <1>1, <1>2, <1>3 DEF Inv

(* The invariant is inductive. *)
LEMMA NextInv ==
  ASSUME Undisturbed
  PROVE  Inv /\ [Next]_vars => Inv'
<1> SUFFICES ASSUME Inv, [Next]_vars PROVE Inv'
  OBVIOUS
<1>1. TypeInv' /\ LockInv'
  BY NextType, LockStep DEF Inv
<1> QED BY <1>1, NextSingle, NextLists, NextHeld, NextStep DEF Inv

(* The invariant holds in every reachable state. *)
LEMMA Invariance ==
  ASSUME Undisturbed
  PROVE  Spec => []Inv
BY InitInv, NextInv, PTL DEF Spec

(* No buffer is ever in two hands, nor free and in use: whatever the       *)
(* interleaving of gets, releases, counts and messages, and whoever dies   *)
(* outside the lock.                                                       *)
THEOREM Ownership ==
  ASSUME Undisturbed
  PROVE  Spec => []SingleOwner
<1>1. Inv => SingleOwner
  BY DEF Inv
<1> QED BY Invariance, <1>1, PTL

(* The free lists always are finite lists without loops, of unmarked       *)
(* buffers of their size.                                                  *)
THEOREM FreeLists ==
  ASSUME Undisturbed
  PROVE  Spec => []FreeListsIntact
<1>1. Inv => FreeListsIntact
  BY DEF Inv
<1> QED BY Invariance, <1>1, PTL

(* radBufferGet answers NULL only when no buffer that fits is free. *)
THEOREM NullIsTrue ==
  ASSUME Undisturbed
  PROVE  Spec => NullMeansExhausted
<1> DEFINE Refused == \A p \in Process :
                        pc[p] = "get_scan" /\ pc'[p] = "get_unlock" =>
                          \A b \in Buffer : SizeIndex[b] >= idx[p] => ~ Listed(b)
<1>1. ASSUME Inv, [Next]_vars PROVE [Refused]_vars
  <2> SUFFICES ASSUME NEW p \in Process, pc[p] = "get_scan", pc'[p] = "get_unlock",
                      NEW b \in Buffer, SizeIndex[b] >= idx[p], Listed(b), ~ UNCHANGED vars
               PROVE  FALSE
    BY DEF vars
  <2>1. TypeInv /\ FreeListsIntact
    BY <1>1 DEF Inv
  <2>2. PICK q \in Process : \/ Call(q) \/ Locking(q) \/ Locked(q) \/ Unlocked(q)
                            \/ Crash(q) \/ Attach(q)
    BY <1>1 DEF Next
  <2>3. q = p
    BY <2>1, <2>2, OthersFrame
  <2>4. GetScan(p)
    BY <2>1, <2>2, <2>3 DEF Call, GetCall, CountCall, RlsCall, radQueueSend, radQueueRecv,
              Locking, GetLock, RlsLock, CountLock, radShmemLock, Locked, GetPop, GetUnlock,
              RlsLink, RlsHead, RlsUnlock, CountHead, CountWalk, CountUnlock,
              Unlocked, GetMark, RlsCheck, RlsClear, Crash, Attach, Goto, Return, TypeInv, TypeOK
  <2>5. Usable(idx[p]) = {}
    BY <2>1, <2>4 DEF GetScan, Goto, TypeInv, TypeOK
  <2> QED BY <2>1, <2>5, UsableIsFree DEF Free
<1>2. Inv /\ [Next]_vars => [Refused]_vars
  BY <1>1
<1> QED BY Invariance, <1>2, PTL DEF Spec, NullMeansExhausted

(* A buffer that is free, owned or in a message stays one of the three,    *)
(* unless its owner dies.                                                  *)
THEOREM NothingLost ==
  ASSUME Undisturbed
  PROVE  Spec => OnlyDeathLosesBuffers
<1> DEFINE Kept == \A b \in Buffer : Placed(b) =>
                     \/ Placed(b)'
                     \/ \E p \in Process : b \in Owned(p) /\ pc'[p] = "dead"
           In(b) == b \in Free \/ b \in sent \/ \E p \in Process : b \in Owned(p)
<1>1. ASSUME NEW b \in Buffer PROVE (Placed(b) <=> In(b)) /\ (Placed(b)' <=> In(b)')
  BY DEF Placed, Free
<1>2. ASSUME Inv, [Next]_vars, NEW b \in Buffer, In(b)
      PROVE  In(b)' \/ \E p \in Process : b \in Owned(p) /\ pc'[p] = "dead"
  <2>1. CASE Stays
    BY <1>2, <2>1 DEF Stays
  <2>2. CASE \E p \in Process : Takes(p, reg[p])
    BY <1>2, <2>2 DEF Takes, Owns
  <2>3. CASE \E p \in Process : Frees(p, reg[p])
    BY <1>2, <2>3 DEF Frees, Owns
  <2>4. CASE \E p \in Process, c \in Buffer : Hands(p, c)
    BY <1>2, <2>4 DEF Hands, Owns
  <2>5. CASE \E p \in Process, c \in Buffer : Accepts(p, c)
    BY <1>2, <2>5 DEF Accepts, Owns
  <2>6. CASE \E p \in Process : Crash(p) /\ Loses(p)
    <3> PICK p \in Process : Crash(p) /\ Loses(p)
      BY <2>6
    <3>1. pc'[p] = "dead"
      BY <1>2 DEF Inv, Crash, Goto, TypeInv, TypeOK
    <3> QED BY <1>2, <3>1 DEF Loses, Owns
  <2> QED BY <1>2, <2>1, <2>2, <2>3, <2>4, <2>5, <2>6, StepEffect
<1>3. Inv /\ [Next]_vars => [Kept]_vars
  BY <1>1, <1>2
<1> QED BY Invariance, <1>3, PTL DEF Spec, OnlyDeathLosesBuffers

-----------------------------------------------------------------------------
(* The refinement of BufferPool *)

(* A process whose point and class do not change wants what it wanted. *)
LEMMA WantedFrame ==
  ASSUME NEW q, pc'[q] = pc[q], idx'[q] = idx[q]
  PROVE  Wanted(q)' = Wanted(q)
BY DEF Wanted

(* Outside of radBufferGet nothing is asked for. *)
LEMMA NothingWanted ==
  ASSUME TypeInv, NEW p \in Process,
         \/ CountCall(p) \/ RlsLock(p) \/ CountLock(p) \/ Unlocked(p) \/ Attach(p)
         \/ \E b \in Buffer : RlsCall(p, b) \/ radQueueSend(p, b) \/ radQueueRecv(p, b)
         \/ GetUnlock(p) \/ RlsLink(p) \/ RlsHead(p) \/ RlsUnlock(p)
         \/ CountHead(p) \/ CountWalk(p) \/ CountUnlock(p)
  PROVE  Wanted(p) = NoRequest /\ Wanted(p)' = NoRequest
<1> USE DEF TypeInv, TypeOK, Goto, Return, Wanted
<1>1. CASE CountCall(p) \/ RlsLock(p) \/ CountLock(p) \/ Attach(p)
  BY <1>1 DEF CountCall, RlsLock, CountLock, radShmemLock, Attach
<1>2. CASE Unlocked(p)
  BY <1>2 DEF Unlocked, GetMark, RlsCheck, RlsClear
<1>3. CASE \E b \in Buffer : RlsCall(p, b) \/ radQueueSend(p, b) \/ radQueueRecv(p, b)
  BY <1>3 DEF RlsCall, radQueueSend, radQueueRecv
<1>4. CASE GetUnlock(p) \/ RlsLink(p) \/ RlsHead(p) \/ RlsUnlock(p)
  BY <1>4 DEF GetUnlock, RlsLink, RlsHead, RlsUnlock
<1>5. CASE CountHead(p) \/ CountWalk(p) \/ CountUnlock(p)
  BY <1>5 DEF CountHead, CountWalk, CountUnlock
<1> QED BY <1>1, <1>2, <1>3, <1>4, <1>5

owned == [p \in Process |-> Owned(p)]
wanted == [p \in Process |-> Wanted(p)]

(* The abstract functions change at p alone. *)
LEMMA OwnedFunction ==
  ASSUME NEW p \in Process, NEW S, Owns(p, S)
  PROVE  owned' = [owned EXCEPT ![p] = S]
BY DEF Owns, owned

(* The requests after a step, as one function. *)
LEMMA WantedFunction ==
  ASSUME NEW p \in Process, \A q \in Process \ {p} : Wanted(q)' = Wanted(q), NEW n, Wanted(p)' = n
  PROVE  wanted' = [wanted EXCEPT ![p] = n]
BY DEF wanted

(* A get takes effect in the pool when its list loses the head. *)
LEMMA PopRefinesGet ==
  ASSUME Inv, NEW p \in Process, GetPop(p), \A q \in Process \ {p} : Wanted(q)' = Wanted(q)
  PROVE  Pool!Get(p)
<1> DEFINE b == reg[p]
<1>1. Takes(p, b)
  BY ActionEffect
<1>2. wanted[p] = idx[p] /\ wanted[p] # NoRequest
  BY DEF GetPop, Goto, Wanted, wanted, NoRequest, Inv, TypeInv, TypeOK, Request
<1>3. Wanted(p)' = NoRequest
  BY DEF GetPop, Goto, Wanted, Inv, TypeInv, TypeOK
<1>4. wanted' = [wanted EXCEPT ![p] = NoRequest]
  BY <1>3, WantedFunction
<1>5. owned' = [owned EXCEPT ![p] = owned[p] \cup {b}]
  BY <1>1, OwnedFunction DEF Takes, owned
<1>6. FirstFit(p)
  BY DEF Inv, StepInv, GetPop, Goto
<1>7. /\ b \in Free /\ SizeIndex[b] >= idx[p]
      /\ \A c \in Free : SizeIndex[c] >= idx[p] => SizeIndex[b] <= SizeIndex[c]
  <2>1. idx[p] \in Int /\ \A c \in Free : SizeIndex[c] \in Int
    BY DEF Inv, TypeInv, TypeOK, Request, Size, Free
  <2>2. b \in Free
    BY <1>1 DEF Takes
  <2> QED BY <1>6, <2>1, <2>2 DEF FirstFit
<1> HIDE DEF b
<1> QED BY <1>1, <1>2, <1>4, <1>5, <1>7 DEF Pool!Get, Pool!Fitting, Takes, owned, wanted

(* A release takes effect in the pool when its list gains the head. *)
LEMMA HeadRefinesRelease ==
  ASSUME Inv, NEW p \in Process, RlsHead(p), \A q \in Process \ {p} : Wanted(q)' = Wanted(q)
  PROVE  Pool!Release(p)
<1> DEFINE b == reg[p]
<1>1. Frees(p, b)
  BY ActionEffect
<1>2. wanted[p] = NoRequest /\ Wanted(p)' = NoRequest
  BY NothingWanted DEF wanted, Inv
<1>3. wanted' = wanted
  BY <1>2, WantedFunction DEF wanted
<1>4. owned' = [owned EXCEPT ![p] = owned[p] \ {b}]
  BY <1>1, OwnedFunction DEF Frees, owned
<1> HIDE DEF b
<1> QED BY <1>1, <1>2, <1>3, <1>4 DEF Pool!Release, Frees, owned, wanted

(* Sends and receives of messages are those of the pool. *)
LEMMA MessageRefines ==
  ASSUME Inv, NEW p \in Process, NEW b \in Buffer, radQueueSend(p, b) \/ radQueueRecv(p, b),
         \A q \in Process \ {p} : Wanted(q)' = Wanted(q)
  PROVE  Pool!Send(p) \/ Pool!Receive(p)
<1>1. wanted[p] = NoRequest /\ Wanted(p)' = NoRequest
  BY NothingWanted DEF wanted, Inv
<1>2. wanted' = wanted
  BY <1>1, WantedFunction DEF wanted
<1>3. CASE radQueueSend(p, b)
  <2>1. Hands(p, b)
    BY <1>3, MessageEffect
  <2>2. owned' = [owned EXCEPT ![p] = owned[p] \ {b}]
    BY <2>1, OwnedFunction DEF Hands, owned
  <2> QED BY <1>1, <1>2, <2>1, <2>2 DEF Pool!Send, Hands, owned, wanted
<1>4. CASE radQueueRecv(p, b)
  <2>1. Accepts(p, b)
    BY <1>4, MessageEffect
  <2>2. owned' = [owned EXCEPT ![p] = owned[p] \cup {b}]
    BY <2>1, OwnedFunction DEF Accepts, owned
  <2> QED BY <1>1, <1>2, <2>1, <2>2 DEF Pool!Receive, Accepts, owned, wanted
<1> QED BY <1>3, <1>4

(* A death in the code is a death in the pool. *)
LEMMA CrashRefinesDie ==
  ASSUME Inv, NEW p \in Process, Crash(p), \A q \in Process \ {p} : Wanted(q)' = Wanted(q)
  PROVE  Pool!Die(p)
<1>1. Loses(p)
  BY ActionEffect
<1>2. Wanted(p)' = NoRequest
  BY DEF Crash, Goto, Wanted, Inv, TypeInv, TypeOK
<1>3. wanted' = [wanted EXCEPT ![p] = NoRequest]
  BY <1>2, WantedFunction
<1>4. owned' = [owned EXCEPT ![p] = {}]
  BY <1>1, OwnedFunction DEF Loses
<1> QED BY <1>1, <1>3, <1>4 DEF Pool!Die, Loses, owned, wanted

(* The steps that move no buffer ask, refuse or stutter. *)
LEMMA QuietRefines ==
  ASSUME Inv, NEW p \in Process, Quiet(p) \/ RlsLink(p),
         \A q \in Process \ {p} : Wanted(q)' = Wanted(q)
  PROVE  Pool!Ask(p) \/ Pool!Refuse(p) \/ UNCHANGED (Pool!vars)
<1>1. Free' = Free /\ sent' = sent /\ owned' = owned
  BY ActionEffect DEF Stays, owned
<1>2. TypeInv /\ FreeListsIntact
  BY DEF Inv
<1>3. ASSUME Wanted(p)' = Wanted(p) PROVE UNCHANGED (Pool!vars)
  <2>1. wanted' = wanted
    BY <1>3, WantedFunction DEF wanted
  <2> QED BY <1>1, <2>1 DEF Pool!vars, owned, wanted
<1>4. ASSUME NEW n \in Request, GetCall(p, n) PROVE Pool!Ask(p)
  <2>1. Wanted(p) = NoRequest /\ Wanted(p)' = n
    BY <1>2, <1>4 DEF GetCall, Goto, Wanted, TypeInv, TypeOK
  <2>2. wanted' = [wanted EXCEPT ![p] = n] /\ wanted[p] = NoRequest
    BY <2>1, WantedFunction DEF wanted
  <2> QED BY <1>1, <2>2 DEF Pool!Ask, owned, wanted
<1>5. ASSUME GetLock(p) PROVE Wanted(p)' = Wanted(p)
  BY <1>2, <1>5 DEF GetLock, radShmemLock, Goto, Wanted, TypeInv, TypeOK
<1>6. ASSUME GetScan(p) PROVE Pool!Refuse(p) \/ Wanted(p)' = Wanted(p)
  <2>1. CASE pc'[p] = "get_pop"
    BY <1>2, <1>6, <2>1 DEF GetScan, Goto, Wanted, TypeInv, TypeOK
  <2>2. CASE pc'[p] = "get_unlock"
    <3>1. Usable(idx[p]) = {} /\ Wanted(p) = idx[p] /\ Wanted(p)' = NoRequest
      BY <1>2, <1>6, <2>2 DEF GetScan, Goto, Wanted, TypeInv, TypeOK
    <3>2. wanted' = [wanted EXCEPT ![p] = NoRequest] /\ wanted[p] = idx[p]
      BY <3>1, WantedFunction DEF wanted
    <3>3. idx[p] # NoRequest
      BY <1>2 DEF TypeInv, TypeOK, Request, NoRequest
    <3>4. \A c \in Free : ~ SizeIndex[c] >= idx[p]
      BY <1>2, <3>1, UsableIsFree
    <3> QED BY <1>1, <3>2, <3>3, <3>4 DEF Pool!Refuse, Pool!Fitting, owned, wanted
  <2> QED BY <1>2, <1>6, <2>1, <2>2 DEF GetScan, Goto, TypeInv, TypeOK
<1>7. ASSUME ~ \E n \in Request : GetCall(p, n), ~ GetLock(p), ~ GetScan(p)
      PROVE  Wanted(p)' = Wanted(p)
  BY <1>2, <1>7, NothingWanted DEF Quiet, Locking
<1> QED BY <1>3, <1>4, <1>5, <1>6, <1>7

(* Every step of the code is a step of the abstract pool or changes        *)
(* nothing of it.                                                          *)
LEMMA StepRefines ==
  ASSUME Inv, [Next]_vars
  PROVE  [Pool!Next]_(Pool!vars)
<1>1. CASE UNCHANGED vars
  <2>1. UNCHANGED <<pool, next, sent>> /\ owned' = owned /\ wanted' = wanted
    BY <1>1 DEF vars, Owned, InTransit, Wanted, owned, wanted
  <2>2. Free' = Free
    BY <2>1, ListsFrame
  <2> QED BY <2>1, <2>2 DEF Pool!vars, owned, wanted
<1>2. CASE Next
  <2> PICK p \in Process : \/ Call(p) \/ Locking(p) \/ Locked(p) \/ Unlocked(p)
                          \/ Crash(p) \/ Attach(p)
    BY <1>2 DEF Next
  <2>1. \A q \in Process \ {p} : Wanted(q)' = Wanted(q)
    BY OthersFrame, WantedFrame DEF Inv
  <2>2. CASE Quiet(p) \/ RlsLink(p)
    BY <2>1, <2>2, QuietRefines DEF Pool!Next
  <2>3. CASE GetPop(p)
    BY <2>1, <2>3, PopRefinesGet DEF Pool!Next
  <2>4. CASE RlsHead(p)
    BY <2>1, <2>4, HeadRefinesRelease DEF Pool!Next
  <2>5. CASE \E b \in Buffer : radQueueSend(p, b) \/ radQueueRecv(p, b)
    BY <2>1, <2>5, MessageRefines DEF Pool!Next
  <2>6. CASE Crash(p)
    BY <2>1, <2>6, CrashRefinesDie DEF Pool!Next
  <2> QED BY <2>2, <2>3, <2>4, <2>5, <2>6 DEF Call, Locked, Quiet
<1> QED BY <1>1, <1>2

(* All buffers are free at the start. *)
LEMMA InitRefines == Init => Pool!Init
<1> SUFFICES ASSUME Init PROVE Pool!Init
  OBVIOUS
<1>1. Free = Buffer
  BY InitLists
<1>2. \A p \in Process : Owned(p) = {} /\ Wanted(p) = NoRequest
  BY DEF Init, Owned, InTransit, Wanted
<1> QED BY <1>1, <1>2 DEF Pool!Init, Init

(* The code implements the pool that h/radbuffers.h promises. *)
THEOREM Refinement ==
  ASSUME Undisturbed
  PROVE  Spec => PoolSpec
<1>1. Inv /\ [Next]_vars => [Pool!Next]_(Pool!vars)
  BY StepRefines
<1> QED BY Invariance, InitRefines, <1>1, PTL DEF Spec, PoolSpec, Pool!Spec
=============================================================================
