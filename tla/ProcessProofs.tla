---------------------------- MODULE ProcessProofs ----------------------------
(***************************************************************************)
(* Theorems about a process of module ProcessLoop and its timers, for any  *)
(* number of timers, times, handlers, buffers and descriptors: the lists   *)
(* of timers agree with their flags, the timers are the alarms of module   *)
(* Alarms, select watches what is registered, every callback has a reason, *)
(* no message loses its buffer, and no handler is passed over.             *)
(***************************************************************************)
EXTENDS ProcessLoop, SelectionProofs, WellFoundedInduction

-----------------------------------------------------------------------------
(* The timers. *)

Starting == {"start_read", "start_add"}
Working == Starting \cup {"read", "update"}
Writing == {"event_write", "event_fails"}

(* What the program's call has put down, and that SIGALRM is blocked and   *)
(* its handler at rest while the program works on the list.                *)
CallOK ==
  /\ pc["main"] \in Working => masked /\ pc["handler"] = "idle"
  /\ pc["main"] \in Starting =>
       \E t \in Created, d \in Time : arg = [op |-> "start", timer |-> t, time |-> d]
  /\ pc["main"] \in Writing =>
       \E b \in EventBuffer : arg = [op |-> "event", buffer |-> b]
  /\ pc["main"] \in {"read", "update"} =>
       \/ arg = NoCall
       \/ \E t \in Created : arg = [op |-> "delete", timer |-> t] /\ ~ pending[t]

TimersTyped ==
  /\ freeList \in Seq(Timer) /\ pendingList \in Seq(Timer)
  /\ pending \in [Timer -> BOOLEAN] /\ routine \in [Timer -> BOOLEAN]
  /\ deltaTime \in [Timer -> 0 .. Longest] /\ left \in [Timer -> Off .. Longest]
  /\ age \in Off .. Longest
  /\ pc \in [Context -> {"idle"} \cup Working \cup Writing]
  /\ pc["handler"] \in {"idle", "read", "update"}
  /\ ticks \in [Context -> 0 .. Longest]
  /\ notify \in Seq(Timer \cup EventBuffer)
  /\ events \in SUBSET EventBuffer

(* No timer is further than its list says: what is left of its time is at  *)
(* most what the list will still count down, and the clock as a caller has *)
(* read it is not ahead of the clock.                                      *)
IsStarting(t) == pc["main"] \in Starting /\ arg.timer = t

NotEarly(t) ==
  /\ pending[t] => age # Off
  /\ pending[t] /\ ~ IsStarting(t) =>
       left[t] # Off /\ (left[t] > 0 => left[t] + age <= deltaTime[t])
  /\ IsStarting(t) => left[t] \in 0 .. arg.time

ClockRead ==
  \A c \in Context : pc[c] \in {"update", "start_add"} => age # Off /\ ticks[c] <= age

TimersInv ==
  TimersTyped /\ CallOK /\ ListsAgree /\ ClockRead /\ \A t \in Timer : NotEarly(t)

-----------------------------------------------------------------------------
(* Numbers. *)

(* A finite set of integers has a largest member: the one with the fewest  *)
(* above it.                                                               *)
LEMMA Greatest ==
  ASSUME NEW S \in SUBSET Int, IsFiniteSet(S), S # {}
  PROVE  Max(S) \in S /\ \A x \in S : x <= Max(S)
<1> DEFINE Above(x) == {y \in S : y > x}
           Sizes == {Cardinality(Above(x)) : x \in S}
<1>1. \A x \in S : IsFiniteSet(Above(x)) /\ Cardinality(Above(x)) \in Nat
  <2> SUFFICES ASSUME NEW x \in S PROVE IsFiniteSet(Above(x)) /\ Cardinality(Above(x)) \in Nat
    OBVIOUS
  <2>1. Above(x) \in SUBSET S
    OBVIOUS
  <2>2. IsFiniteSet(Above(x))
    BY <2>1, FS_Subset
  <2> QED BY <2>2, FS_CardinalityType
<1>2. Sizes \in SUBSET Nat /\ Sizes # {}
  BY <1>1
<1>3. PICK n \in Sizes : \A m \in Sizes : ~ (<<m, n>> \in OpToRel(<, Nat))
  <2> HIDE DEF Sizes
  <2> QED BY <1>2, NatLessThanWellFounded, WFMin
<1>4. PICK x \in S : n = Cardinality(Above(x))
  OBVIOUS
<1>5. ASSUME NEW y \in S PROVE y <= x
  <2>0. y \in Int /\ x \in Int
    OBVIOUS
  <2> SUFFICES ASSUME y > x PROVE FALSE
    BY <2>0
  <2>1. Above(y) \in SUBSET Above(x) /\ y \in Above(x) /\ y \notin Above(y)
    <3>1. \A z \in S : z > y => z > x
      BY <2>0
    <3>2. ~ (y > y)
      BY <2>0
    <3>3. y \in Above(x) /\ y \notin Above(y)
      BY <3>2
    <3>4. \A z \in Above(y) : z \in Above(x)
      BY <3>1
    <3> QED BY <3>3, <3>4
  <2>2. Cardinality(Above(y)) <= Cardinality(Above(x)) /\ Cardinality(Above(x)) # Cardinality(Above(y))
    <3>1. IsFiniteSet(Above(x))
      BY <1>1
    <3>2. Above(x) # Above(y)
      BY <2>1
    <3> HIDE DEF Above
    <3> QED BY <2>1, <3>1, <3>2, FS_Subset
  <2>3. Cardinality(Above(y)) \in Nat /\ Cardinality(Above(x)) \in Nat
    BY <1>1
  <2>4. Cardinality(Above(y)) < n
    BY <1>4, <2>2, <2>3
  <2>5. Cardinality(Above(y)) \in Sizes
    OBVIOUS
  <2> HIDE DEF Above, Sizes
  <2>6. <<Cardinality(Above(y)), n>> \in OpToRel(<, Nat)
    BY <1>4, <2>3, <2>4 DEF OpToRel
  <2> QED BY <1>3, <2>5, <2>6
<1>6. \E z \in S : \A y \in S : z >= y
  BY <1>5
<1>7. Max(S) \in S /\ \A y \in S : Max(S) >= y
  BY <1>6 DEF Max
<1> QED BY <1>7

(* A set of natural numbers has a smallest member. *)
LEMMA Least ==
  ASSUME NEW S \in SUBSET Nat, S # {}
  PROVE  Min(S) \in S /\ \A x \in S : Min(S) <= x
<1>1. PICK x \in S : \A y \in S : ~ (<<y, x>> \in OpToRel(<, Nat))
  BY NatLessThanWellFounded, WFMin
<1>2. \A y \in S : x <= y
  <2> SUFFICES ASSUME NEW y \in S PROVE x <= y
    OBVIOUS
  <2>1. x \in Nat /\ y \in Nat
    OBVIOUS
  <2>2. ~ (y < x)
    BY <1>1, <2>1 DEF OpToRel
  <2> QED BY <2>1, <2>2
<1>3. Min(S) \in S /\ \A y \in S : Min(S) =< y
  BY <1>2 DEF Min
<1> QED BY <1>3

(* The larger and the smaller of two. *)
LEMMA OfTwo ==
  ASSUME NEW a \in Int, NEW b \in Int
  PROVE  /\ Max({a, b}) = IF a >= b THEN a ELSE b
         /\ Min({a, b}) = IF a <= b THEN a ELSE b
<1>1. \E x \in {a, b} : \A y \in {a, b} : x >= y
  OBVIOUS
<1>2. Max({a, b}) \in {a, b} /\ Max({a, b}) >= a /\ Max({a, b}) >= b
  BY <1>1 DEF Max
<1>3. \E x \in {a, b} : \A y \in {a, b} : x <= y
  OBVIOUS
<1>4. Min({a, b}) \in {a, b} /\ Min({a, b}) <= a /\ Min({a, b}) <= b
  BY <1>3 DEF Min
<1> QED BY <1>2, <1>4

(* The longest time is one of the times. *)
LEMMA LongestIs == Longest \in Nat /\ Time \in SUBSET (0 .. Longest)
<1>0. Time \in SUBSET Int /\ Time # {} /\ IsFiniteSet(Time)
  BY TimersAssumption
<1>1. Longest \in Time /\ \A d \in Time : d <= Longest
  BY <1>0, Greatest DEF Longest
<1> QED BY <1>1, TimersAssumption

-----------------------------------------------------------------------------
(* Lists on which nothing is twice. *)

Once(s) == Len(s) = Cardinality(ToSet(s))

(* That is what their length says. *)
LEMMA OnceIs ==
  ASSUME NEW T, NEW s \in Seq(T)
  PROVE  Once(s) <=> Distinct(s)
<1>0. Len(s) \in Nat /\ 1 \in Int
  OBVIOUS
<1>1. IsFiniteSet(1 .. Len(s)) /\ Cardinality(1 .. Len(s)) = Len(s)
  BY <1>0, FS_Interval
<1>2. s \in Surjection(1 .. Len(s), ToSet(s))
  BY DEF Surjection, ToSet
<1>3. Cardinality(ToSet(s)) = Len(s) <=> s \in Injection(1 .. Len(s), ToSet(s))
  BY <1>1, <1>2, FS_Surjection
<1>4. s \in Injection(1 .. Len(s), ToSet(s)) <=> \A i, j \in 1 .. Len(s) : s[i] = s[j] => i = j
  BY <1>2 DEF Injection, Surjection, IsInjective
<1> QED BY <1>3, <1>4 DEF Once, Distinct

(* A new element at the end. *)
LEMMA OnceAppend ==
  ASSUME NEW T, NEW s \in Seq(T), NEW x \in T
  PROVE  /\ Append(s, x) \in Seq(T) /\ ToSet(Append(s, x)) = ToSet(s) \cup {x}
         /\ Once(s) /\ x \notin ToSet(s) => Once(Append(s, x))
<1> DEFINE r == Append(s, x)
<1>1. /\ r \in Seq(T) /\ Len(s) \in Nat /\ Len(r) = Len(s) + 1
      /\ DOMAIN r = 1 .. Len(s) + 1 /\ DOMAIN s = 1 .. Len(s)
      /\ r[Len(s) + 1] = x /\ \A k \in 1 .. Len(s) : r[k] = s[k]
  OBVIOUS
<1>2. \A k \in 1 .. Len(s) + 1 : k \in 1 .. Len(s) \/ k = Len(s) + 1
  BY <1>1
<1>3. \A k \in 1 .. Len(s) : k \in 1 .. Len(s) + 1
  BY <1>1
<1> HIDE DEF r
<1>4. ToSet(r) = ToSet(s) \cup {x}
  <2>1. \A y \in ToSet(r) : y \in ToSet(s) \cup {x}
    BY <1>1, <1>2 DEF ToSet
  <2>2. \A y \in ToSet(s) : y \in ToSet(r)
    BY <1>1, <1>3 DEF ToSet
  <2>3. Len(s) + 1 \in 1 .. Len(s) + 1
    BY <1>1
  <2>4. x \in ToSet(r)
    BY <1>1, <2>3 DEF ToSet
  <2> QED BY <2>1, <2>2, <2>4
<1>5. ASSUME Once(s), x \notin ToSet(s) PROVE Once(r)
  <2>1. \A i, j \in 1 .. Len(s) : s[i] = s[j] => i = j
    BY <1>5, OnceIs DEF Distinct
  <2>2. \A i \in 1 .. Len(s) : s[i] # x
    BY <1>1, <1>5 DEF ToSet
  <2>3. \A i, j \in 1 .. Len(r) : r[i] = r[j] => i = j
    BY <1>1, <1>2, <2>1, <2>2
  <2> QED BY <1>1, <2>3, OnceIs DEF Distinct
<1> QED BY <1>1, <1>4, <1>5 DEF r

(* Some of the elements. *)
LEMMA OnceSelected ==
  ASSUME NEW T, NEW s \in Seq(T), NEW S \in SUBSET (DOMAIN s)
  PROVE  /\ AtPositions(s, S) \in Seq(T) /\ ToSet(AtPositions(s, S)) = {s[k] : k \in S}
         /\ Once(s) => Once(AtPositions(s, S))
<1>1. S \in SUBSET (1 .. Len(s))
  OBVIOUS
<1>2. AtPositions(s, S) \in Seq(T)
  BY <1>1, Selected
<1>3. ToSet(AtPositions(s, S)) = {s[k] : k \in S}
  BY <1>1, SelectedSet DEF ToSet
<1>4. ASSUME Once(s) PROVE Once(AtPositions(s, S))
  <2>1. Distinct(s)
    BY <1>4, OnceIs
  <2>2. Distinct(AtPositions(s, S))
    BY <1>1, <2>1, SelectedOnce
  <2> QED BY <1>2, <2>2, OnceIs
<1> QED BY <1>2, <1>3, <1>4

(* All but one. *)
LEMMA OnceWithout ==
  ASSUME NEW T, NEW s \in Seq(T), NEW x
  PROVE  /\ Without(s, x) \in Seq(T) /\ ToSet(Without(s, x)) = ToSet(s) \ {x}
         /\ Once(s) => Once(Without(s, x))
<1> DEFINE S == {k \in DOMAIN s : s[k] # x}
<1>1. /\ AtPositions(s, S) \in Seq(T) /\ ToSet(AtPositions(s, S)) = {s[k] : k \in S}
      /\ Once(s) => Once(AtPositions(s, S))
  BY OnceSelected
<1>2. {s[k] : k \in S} = ToSet(s) \ {x}
  BY DEF ToSet
<1> QED BY <1>1, <1>2 DEF Without

(* All but the first. *)
LEMMA OnceTail ==
  ASSUME NEW T, NEW s \in Seq(T), s # <<>>
  PROVE  /\ Head(s) \in ToSet(s) /\ Tail(s) \in Seq(T) /\ ToSet(Tail(s)) \subseteq ToSet(s)
         /\ Once(s) => Once(Tail(s)) /\ ToSet(Tail(s)) = ToSet(s) \ {Head(s)}
<1>1. /\ Len(s) \in Nat /\ Len(s) >= 1 /\ DOMAIN s = 1 .. Len(s) /\ Head(s) = s[1]
      /\ Tail(s) \in Seq(T) /\ Len(Tail(s)) = Len(s) - 1 /\ DOMAIN Tail(s) = 1 .. Len(s) - 1
      /\ \A k \in 1 .. Len(s) - 1 : Tail(s)[k] = s[k + 1]
  OBVIOUS
<1>2. 1 \in 1 .. Len(s) /\ \A k \in 1 .. Len(s) - 1 : k + 1 \in 1 .. Len(s) /\ k + 1 # 1
  BY <1>1
<1>3. Head(s) \in ToSet(s) /\ ToSet(Tail(s)) \subseteq ToSet(s)
  BY <1>1, <1>2 DEF ToSet
<1>4. ASSUME Once(s) PROVE Once(Tail(s)) /\ ToSet(Tail(s)) = ToSet(s) \ {Head(s)}
  <2>1. \A i, j \in 1 .. Len(s) : s[i] = s[j] => i = j
    BY <1>4, OnceIs DEF Distinct
  <2>2. \A i, j \in 1 .. Len(Tail(s)) : Tail(s)[i] = Tail(s)[j] => i = j
    <3> SUFFICES ASSUME NEW i \in 1 .. Len(s) - 1, NEW j \in 1 .. Len(s) - 1, Tail(s)[i] = Tail(s)[j]
                 PROVE  i = j
      BY <1>1
    <3>1. i + 1 = j + 1
      BY <1>1, <1>2, <2>1
    <3> QED BY <1>1, <3>1
  <2>3. \A y \in ToSet(Tail(s)) : y # Head(s)
    BY <1>1, <1>2, <2>1 DEF ToSet
  <2>4. ASSUME NEW y \in ToSet(s), y # Head(s) PROVE y \in ToSet(Tail(s))
    <3>1. PICK k \in 1 .. Len(s) : y = s[k]
      BY <1>1 DEF ToSet
    <3>2. k - 1 \in 1 .. Len(s) - 1 /\ (k - 1) + 1 = k
      BY <1>1, <2>4, <3>1
    <3>3. Tail(s)[k - 1] = y
      BY <1>1, <3>1, <3>2
    <3> QED BY <1>1, <3>2, <3>3 DEF ToSet
  <2> QED BY <1>1, <1>3, <2>2, <2>3, <2>4, OnceIs DEF Distinct
<1> QED BY <1>1, <1>3, <1>4

-----------------------------------------------------------------------------
(* The state at the start: every timer is on the free list. *)

(* The list of all timers has each of them once. *)
LEMMA AllTimers == SetToSeq(Timer) \in Seq(Timer) /\ Once(SetToSeq(Timer))
<1> DEFINE n == Cardinality(Timer)
           IsList(f) == f \in [1 .. n -> Timer] /\ IsInjective(f)
<1>1. IsFiniteSet(Timer)
  BY TimersAssumption
<1>2. n \in Nat /\ ExistsBijection(1 .. n, Timer)
  BY <1>1, FS_CardinalityType
<1>3. \E f \in [1 .. n -> Timer] : IsInjective(f)
  BY <1>2 DEF ExistsBijection, Bijection, Injection
<1>4. SetToSeq(Timer) \in [1 .. n -> Timer] /\ IsInjective(SetToSeq(Timer))
  BY <1>3 DEF SetToSeq
<1> DEFINE s == SetToSeq(Timer)
<1>5. s \in Seq(Timer) /\ DOMAIN s = 1 .. n /\ \A i, j \in 1 .. n : s[i] = s[j] => i = j
  BY <1>2, <1>4 DEF IsInjective
<1> HIDE DEF s, n
<1>6. Len(s) = n
  BY <1>2, <1>5 DEF n
<1>7. Once(s)
  BY <1>5, <1>6, OnceIs DEF Distinct
<1> QED BY <1>5, <1>7 DEF s

(* Nothing is on an empty list. *)
LEMMA OnceNone == ASSUME NEW T PROVE <<>> \in Seq(T) /\ ToSet(<<>>) = {} /\ Once(<<>>)
<1>1. <<>> \in Seq(T) /\ Len(<<>>) = 0
  OBVIOUS
<1>2. ToSet(<<>>) = {}
  BY DEF ToSet
<1> QED BY <1>1, <1>2, FS_EmptySet DEF Once

(* A list's elements are of its type. *)
LEMMA ElementType ==
  ASSUME NEW T, NEW s \in Seq(T)
  PROVE  ToSet(s) \subseteq T
BY DEF ToSet

LEMMA TimersStart == TimersInit => TimersInv
<1> SUFFICES ASSUME TimersInit PROVE TimersInv
  OBVIOUS
<1>1. freeList \in Seq(Timer) /\ Once(freeList)
  BY AllTimers DEF TimersInit
<1>2. pendingList \in Seq(Timer) /\ ToSet(pendingList) = {} /\ Once(pendingList)
  BY OnceNone DEF TimersInit
<1>3. notify \in Seq(Timer \cup EventBuffer)
  BY DEF TimersInit
<1>4. TimersTyped
  BY <1>1, <1>2, <1>3, LongestIs DEF TimersInit, TimersTyped, Off, Context
<1>5. ListsAgree
  BY <1>1, <1>2 DEF TimersInit, ListsAgree, Once
<1>6. \A c \in Context : pc[c] = "idle"
  BY DEF TimersInit
<1>7. CallOK /\ ClockRead
  BY <1>6 DEF CallOK, ClockRead, Working, Starting, Writing, Context
<1>8. \A t \in Timer : NotEarly(t)
  BY <1>6 DEF TimersInit, NotEarly, IsStarting, Starting, Context
<1> QED BY <1>4, <1>5, <1>7, <1>8 DEF TimersInv

-----------------------------------------------------------------------------
(* updateTimers and serviceTimers. *)

(* What updateTimers leaves of each timer's time. *)
LEMMA AgedIs ==
  ASSUME TimersTyped, ListsAgree, NEW n \in Nat
  PROVE  /\ Aged(n) \in [Timer -> 0 .. Longest]
         /\ \A t \in Timer : pending[t] =>
              Aged(n)[t] = IF deltaTime[t] > n THEN deltaTime[t] - n ELSE 0
<1>1. \A t \in Timer : deltaTime[t] \in 0 .. Longest
  BY DEF TimersTyped
<1>2. \A t \in Timer : Max({deltaTime[t] - n, 0}) = IF deltaTime[t] - n >= 0 THEN deltaTime[t] - n ELSE 0
  BY <1>1, LongestIs, OfTwo
<1>3. \A t \in Timer : Max({deltaTime[t] - n, 0}) = IF deltaTime[t] > n THEN deltaTime[t] - n ELSE 0
  <2> SUFFICES ASSUME NEW t \in Timer
               PROVE  Max({deltaTime[t] - n, 0}) = IF deltaTime[t] > n THEN deltaTime[t] - n ELSE 0
    OBVIOUS
  <2>1. deltaTime[t] \in Int
    BY <1>1, LongestIs
  <2> QED BY <1>2, <2>1
<1>4. \A t \in Timer : Max({deltaTime[t] - n, 0}) \in 0 .. Longest
  <2> SUFFICES ASSUME NEW t \in Timer PROVE Max({deltaTime[t] - n, 0}) \in 0 .. Longest
    OBVIOUS
  <2>1. Longest \in Nat /\ deltaTime[t] \in 0 .. Longest
    BY <1>1, LongestIs
  <2> QED BY <1>3, <2>1
<1>5. \A t \in Timer : Aged(n)[t] \in 0 .. Longest
  BY <1>1, <1>4 DEF Aged
<1>6. Aged(n) \in [Timer -> 0 .. Longest]
  BY <1>5 DEF Aged
<1>7. \A t \in Timer : pending[t] => Aged(n)[t] = Max({deltaTime[t] - n, 0})
  <2>1. \A t \in Timer : pending[t] => t \in ToSet(pendingList)
    BY DEF ListsAgree
  <2> QED BY <2>1 DEF Aged
<1> QED BY <1>3, <1>6, <1>7

(* The lists of the expired timers, of those that ring, and of the others. *)
LEMMA ServiceLists ==
  ASSUME TimersTyped, ListsAgree, NEW d \in [Timer -> 0 .. Longest]
  PROVE  /\ Remaining(d) \in Seq(Timer) /\ Once(Remaining(d))
         /\ ToSet(Remaining(d)) = {t \in Timer : pending[t] /\ d[t] # 0}
         /\ ToSet(Expired(d)) = {t \in Timer : pending[t] /\ d[t] = 0}
         /\ Rings(d) \in Seq(Timer) /\ Once(Rings(d))
         /\ ToSet(Rings(d)) = {t \in Timer : pending[t] /\ d[t] = 0 /\ routine[t]}
<1> DEFINE P == DOMAIN pendingList
           rung == {k \in Over(d) : routine[pendingList[k]]}
<1>1. /\ pendingList \in Seq(Timer) /\ Once(pendingList) /\ \A k \in P : pendingList[k] \in Timer
      /\ \A t \in Timer : pending[t] <=> \E k \in P : pendingList[k] = t
  <2>1. pendingList \in Seq(Timer) /\ Once(pendingList)
    BY DEF TimersTyped, ListsAgree, Once
  <2>2. \A t \in Timer : pending[t] <=> t \in ToSet(pendingList)
    BY DEF ListsAgree
  <2>3. \A t : t \in ToSet(pendingList) <=> \E k \in P : pendingList[k] = t
    BY DEF ToSet
  <2> QED BY <2>1, <2>2, <2>3
<1>2. Over(d) \in SUBSET P /\ \A k \in P : k \in Over(d) <=> d[pendingList[k]] = 0
  BY DEF Over
<1>3. P \ Over(d) \in SUBSET P /\ rung \in SUBSET P
  BY <1>2
<1>4. /\ Remaining(d) \in Seq(Timer) /\ Once(Remaining(d))
      /\ ToSet(Remaining(d)) = {pendingList[k] : k \in P \ Over(d)}
  <2> DEFINE rest == P \ Over(d)
  <2> HIDE DEF P
  <2>1. /\ AtPositions(pendingList, rest) \in Seq(Timer)
        /\ ToSet(AtPositions(pendingList, rest)) = {pendingList[k] : k \in rest}
        /\ Once(pendingList) => Once(AtPositions(pendingList, rest))
    <3>1. rest \in SUBSET P
      BY <1>3
    <3> HIDE DEF rest
    <3> QED BY <1>1, <3>1, OnceSelected DEF P
  <2> QED BY <1>1, <2>1 DEF Remaining, P
<1>5. ToSet(Expired(d)) = {pendingList[k] : k \in Over(d)}
  BY <1>1, <1>2, OnceSelected DEF Expired
<1>6. /\ Rings(d) \in Seq(Timer) /\ Once(Rings(d))
      /\ ToSet(Rings(d)) = {pendingList[k] : k \in rung}
  <2> HIDE DEF P
  <2>1. /\ AtPositions(pendingList, rung) \in Seq(Timer)
        /\ ToSet(AtPositions(pendingList, rung)) = {pendingList[k] : k \in rung}
        /\ Once(pendingList) => Once(AtPositions(pendingList, rung))
    <3> HIDE DEF rung
    <3> QED BY <1>1, <1>3, OnceSelected DEF P
  <2> QED BY <1>1, <2>1 DEF Rings
<1>7. {pendingList[k] : k \in P \ Over(d)} = {t \in Timer : pending[t] /\ d[t] # 0}
  BY <1>1, <1>2
<1>8. {pendingList[k] : k \in Over(d)} = {t \in Timer : pending[t] /\ d[t] = 0}
  BY <1>1, <1>2
<1>9. {pendingList[k] : k \in rung} = {t \in Timer : pending[t] /\ d[t] = 0 /\ routine[t]}
  BY <1>1, <1>2
<1> QED BY <1>4, <1>5, <1>6, <1>7, <1>8, <1>9

(* serviceTimers(TRUE): the timers that have expired, and no others, leave *)
(* the list, and nobody's time is over that has not passed.                *)
LEMMA ServiceStep ==
  ASSUME TimersInv, NEW c \in Context, pc[c] = "update", service(Aged(ticks[c]))
  PROVE  /\ pendingList' \in Seq(Timer) /\ Once(pendingList') /\ pending' \in [Timer -> BOOLEAN]
         /\ deltaTime' \in [Timer -> 0 .. Longest] /\ left' \in [Timer -> Off .. Longest] /\ age' = 0
         /\ notify' \in Seq(Timer \cup EventBuffer)
         /\ \A t \in Timer : pending'[t] <=> t \in ToSet(pendingList')
         /\ ToSet(pendingList') \subseteq ToSet(pendingList)
         /\ \A t \in Timer : pending'[t] =>
              pending[t] /\ left'[t] # Off /\ (left'[t] > 0 => left'[t] <= deltaTime'[t])
         /\ \A t \in Timer : pending[t] /\ ~ pending'[t] => left[t] = 0
<1> DEFINE n == ticks[c]
           d == Aged(n)
<1>0. TimersTyped /\ ListsAgree
  BY DEF TimersInv
<1>1. n \in Nat /\ age \in Nat /\ n <= age /\ Longest \in Nat /\ Off = -1
  BY LongestIs DEF TimersInv, TimersTyped, ClockRead, Off
<1>2. /\ d \in [Timer -> 0 .. Longest]
      /\ \A t \in Timer : pending[t] => d[t] = IF deltaTime[t] > n THEN deltaTime[t] - n ELSE 0
  <2> HIDE DEF n
  <2> QED BY <1>0, <1>1, AgedIs
<1>3. /\ Remaining(d) \in Seq(Timer) /\ Once(Remaining(d))
      /\ ToSet(Remaining(d)) = {t \in Timer : pending[t] /\ d[t] # 0}
      /\ ToSet(Expired(d)) = {t \in Timer : pending[t] /\ d[t] = 0}
      /\ Rings(d) \in Seq(Timer)
  <2> HIDE DEF d
  <2> QED BY <1>0, <1>2, ServiceLists
<1>4. /\ deltaTime' = d /\ pendingList' = Remaining(d) /\ notify' = notify \o Rings(d) /\ age' = 0
      /\ pending' = [t \in Timer |-> pending[t] /\ t \notin ToSet(Expired(d))]
      /\ left' = [t \in Timer |-> IF t \in ToSet(Expired(d)) THEN Off ELSE left[t]]
  BY DEF service
<1> HIDE DEF d
<1>5. \A t \in Timer : pending[t] \in BOOLEAN /\ left[t] \in Off .. Longest /\ deltaTime[t] \in 0 .. Longest
  BY <1>0 DEF TimersTyped
<1>6. \A t \in Timer : pending'[t] <=> pending[t] /\ d[t] # 0
  BY <1>3, <1>4
<1>7. \A t \in Timer : left'[t] = IF pending[t] /\ d[t] = 0 THEN Off ELSE left[t]
  BY <1>3, <1>4
<1>8. \A t \in Timer : ~ IsStarting(t)
  BY DEF TimersInv, CallOK, IsStarting, Starting, Working, Context
<1>9. \A t \in Timer : pending[t] => left[t] # Off /\ (left[t] > 0 => left[t] + age <= deltaTime[t])
  BY <1>8 DEF TimersInv, NotEarly
<1>10. \A t \in Timer : pending[t] /\ d[t] = 0 => left[t] = 0
  <2> SUFFICES ASSUME NEW t \in Timer, pending[t], d[t] = 0 PROVE left[t] = 0
    OBVIOUS
  <2>1. ~ (deltaTime[t] > n) /\ left[t] \in Off .. Longest /\ deltaTime[t] \in 0 .. Longest
    BY <1>1, <1>2, <1>5
  <2> QED BY <1>1, <1>9, <2>1
<1>11. \A t \in Timer : pending[t] /\ d[t] # 0 => left[t] # Off /\ (left[t] > 0 => left[t] <= d[t])
  <2> SUFFICES ASSUME NEW t \in Timer, pending[t], d[t] # 0
               PROVE  left[t] # Off /\ (left[t] > 0 => left[t] <= d[t])
    OBVIOUS
  <2>1. d[t] = deltaTime[t] - n /\ left[t] \in Off .. Longest /\ deltaTime[t] \in 0 .. Longest
    BY <1>1, <1>2, <1>5
  <2> QED BY <1>1, <1>9, <2>1
<1>12. pending' \in [Timer -> BOOLEAN]
  BY <1>4, <1>5
<1>13. left' \in [Timer -> Off .. Longest]
  BY <1>1, <1>4, <1>5
<1>14. notify' \in Seq(Timer \cup EventBuffer)
  <2>1. Rings(d) \in Seq(Timer \cup EventBuffer) /\ notify \in Seq(Timer \cup EventBuffer)
    BY <1>0, <1>3 DEF TimersTyped
  <2> QED BY <1>4, <2>1
<1>15. \A t \in Timer : pending'[t] <=> t \in ToSet(pendingList')
  BY <1>3, <1>4, <1>6
<1>16. ToSet(pendingList') \subseteq ToSet(pendingList)
  BY <1>0, <1>3, <1>4 DEF ListsAgree
<1>17. \A t \in Timer : pending'[t] =>
         pending[t] /\ left'[t] # Off /\ (left'[t] > 0 => left'[t] <= deltaTime'[t])
  BY <1>4, <1>6, <1>7, <1>11
<1>18. \A t \in Timer : pending[t] /\ ~ pending'[t] => left[t] = 0
  BY <1>6, <1>10
<1> QED BY <1>2, <1>3, <1>4, <1>12, <1>13, <1>14, <1>15, <1>16, <1>17, <1>18

-----------------------------------------------------------------------------
(* The steps of the timers keep the invariant. *)

(* What the lists agree on in terms of Once. *)
LEMMA AgreeIs ==
  ListsAgree <=> /\ \A t \in Timer : pending[t] <=> t \in ToSet(pendingList)
                 /\ ToSet(pendingList) \cap ToSet(freeList) = {}
                 /\ Once(pendingList) /\ Once(freeList)
BY DEF ListsAgree, Once

LEMMA HandlerUpdateInv == ASSUME TimersInv, HandlerUpdate PROVE TimersInv'
<1>1. /\ pc["handler"] = "update" /\ service(Aged(ticks["handler"])) /\ pc' = [pc EXCEPT !["handler"] = "idle"]
      /\ ticks' = [ticks EXCEPT !["handler"] = 0]
      /\ UNCHANGED <<freeList, routine, signal, masked, arg, events>>
  BY DEF HandlerUpdate, Goto, At
<1>2. /\ pendingList' \in Seq(Timer) /\ Once(pendingList') /\ pending' \in [Timer -> BOOLEAN]
      /\ deltaTime' \in [Timer -> 0 .. Longest] /\ left' \in [Timer -> Off .. Longest] /\ age' = 0
      /\ notify' \in Seq(Timer \cup EventBuffer)
      /\ \A t \in Timer : pending'[t] <=> t \in ToSet(pendingList')
      /\ ToSet(pendingList') \subseteq ToSet(pendingList)
      /\ \A t \in Timer : pending'[t] =>
           pending[t] /\ left'[t] # Off /\ (left'[t] > 0 => left'[t] <= deltaTime'[t])
  <2>1. "handler" \in Context
    BY DEF Context
  <2> QED BY <1>1, <2>1, ServiceStep
<1>3. TimersTyped'
  BY <1>1, <1>2, LongestIs DEF TimersInv, TimersTyped, Off, Context
<1>4. ListsAgree'
  BY <1>1, <1>2 DEF TimersInv, ListsAgree, Once
<1>5. pc'["main"] = pc["main"] /\ pc["main"] \notin Working /\ pc'["handler"] = "idle"
  BY <1>1 DEF TimersInv, TimersTyped, CallOK, Context
<1>6. CallOK'
  BY <1>1, <1>5 DEF TimersInv, CallOK, Working, Starting
<1>7. ClockRead'
  BY <1>5 DEF ClockRead, Context, Working, Starting
<1>8. \A t \in Timer : NotEarly(t)'
  BY <1>2, <1>5 DEF NotEarly, IsStarting, Off, Working
<1> QED BY <1>3, <1>4, <1>6, <1>7, <1>8 DEF TimersInv

LEMMA MainUpdateInv == ASSUME TimersInv, MainUpdate PROVE TimersInv'
<1>1. /\ pc["main"] = "update" /\ service(Aged(ticks["main"])) /\ pc' = [pc EXCEPT !["main"] = "idle"]
      /\ ticks' = [ticks EXCEPT !["main"] = 0] /\ pc["handler"] = "idle"
      /\ freeList' = IF arg.op = "delete" THEN Append(freeList, arg.timer) ELSE freeList
      /\ UNCHANGED <<routine, signal, events>>
  BY DEF MainUpdate, Goto, At, Runs
<1>2. /\ pendingList' \in Seq(Timer) /\ Once(pendingList') /\ pending' \in [Timer -> BOOLEAN]
      /\ deltaTime' \in [Timer -> 0 .. Longest] /\ left' \in [Timer -> Off .. Longest] /\ age' = 0
      /\ notify' \in Seq(Timer \cup EventBuffer)
      /\ \A t \in Timer : pending'[t] <=> t \in ToSet(pendingList')
      /\ ToSet(pendingList') \subseteq ToSet(pendingList)
      /\ \A t \in Timer : pending'[t] =>
           pending[t] /\ left'[t] # Off /\ (left'[t] > 0 => left'[t] <= deltaTime'[t])
  <2>1. "main" \in Context
    BY DEF Context
  <2> QED BY <1>1, <2>1, ServiceStep
<1>3. freeList' \in Seq(Timer) /\ Once(freeList') /\ ToSet(pendingList') \cap ToSet(freeList') = {}
  <2>1. freeList \in Seq(Timer) /\ Once(freeList) /\ ToSet(pendingList) \cap ToSet(freeList) = {}
    BY DEF TimersInv, TimersTyped, ListsAgree, Once
  <2>2. CASE arg = NoCall
    BY <1>1, <1>2, <2>1, <2>2 DEF NoCall
  <2>3. ASSUME NEW t \in Created, arg = [op |-> "delete", timer |-> t], ~ pending[t]
        PROVE  freeList' \in Seq(Timer) /\ Once(freeList') /\ ToSet(pendingList') \cap ToSet(freeList') = {}
    <3>1. freeList' = Append(freeList, t) /\ t \in Timer /\ t \notin ToSet(freeList)
      BY <1>1, <2>3 DEF Created
    <3>2. t \notin ToSet(pendingList')
      BY <1>2, <2>3, <3>1
    <3>3. /\ Append(freeList, t) \in Seq(Timer) /\ Once(Append(freeList, t))
          /\ ToSet(Append(freeList, t)) = ToSet(freeList) \cup {t}
      BY <2>1, <3>1, OnceAppend
    <3> QED BY <1>2, <2>1, <3>1, <3>2, <3>3
  <2> QED BY <1>1, <2>2, <2>3 DEF TimersInv, CallOK
<1>4. TimersTyped'
  BY <1>1, <1>2, <1>3, LongestIs DEF TimersInv, TimersTyped, Off, Context
<1>5. ListsAgree'
  BY <1>2, <1>3 DEF ListsAgree, Once
<1>6. pc'["main"] = "idle" /\ pc'["handler"] = "idle"
  BY <1>1 DEF TimersInv, TimersTyped, Context
<1>7. CallOK'
  BY <1>6 DEF CallOK, Working, Starting, Writing
<1>8. ClockRead'
  BY <1>6 DEF ClockRead, Context
<1>9. \A t \in Timer : NotEarly(t)'
  BY <1>2, <1>6 DEF NotEarly, IsStarting, Off, Starting
<1> QED BY <1>4, <1>5, <1>7, <1>8, <1>9 DEF TimersInv

LEMMA StartAddInv == ASSUME TimersInv, StartAdd PROVE TimersInv'
<1>1. /\ pc["main"] = "start_add" /\ pc["handler"] = "idle" /\ pc' = [pc EXCEPT !["main"] = "read"]
      /\ masked /\ masked' = masked
  BY DEF StartAdd, Goto, At, Runs, TimersInv, CallOK, Working, Starting
<1>2. PICK u \in Created, r \in Time : arg = [op |-> "start", timer |-> u, time |-> r]
  BY <1>1 DEF TimersInv, CallOK, Starting
<1>3. arg.timer = u /\ arg.time = r /\ u \in Timer /\ u \notin ToSet(freeList) /\ r \in 0 .. Longest
  BY <1>2, LongestIs DEF Created
<1> DEFINE n == ticks["main"]
           d == Aged(n)
<1>4. n \in Nat /\ age \in Nat /\ n <= age /\ Longest \in Nat /\ Off = -1
  BY <1>1, LongestIs DEF TimersInv, TimersTyped, ClockRead, Off, Context
<1>5. /\ d \in [Timer -> 0 .. Longest]
      /\ \A t \in Timer : pending[t] => d[t] = IF deltaTime[t] > n THEN deltaTime[t] - n ELSE 0
  <2> HIDE DEF n
  <2> QED BY <1>4, AgedIs DEF TimersInv
<1>6. /\ age' = 0 /\ deltaTime' = [d EXCEPT ![u] = r] /\ pending' = [pending EXCEPT ![u] = TRUE]
      /\ pendingList' = IF pending[u] THEN pendingList ELSE Append(pendingList, u)
      /\ ticks' = [ticks EXCEPT !["main"] = 0] /\ arg' = NoCall
      /\ UNCHANGED <<freeList, routine, alarm, signal, masked, notify, events, left>>
  BY <1>3 DEF StartAdd
<1> HIDE DEF d
<1>7. pendingList' \in Seq(Timer) /\ Once(pendingList') /\ ToSet(pendingList') = ToSet(pendingList) \cup {u}
  <2>1. /\ pendingList \in Seq(Timer) /\ Once(pendingList) /\ pending \in [Timer -> BOOLEAN]
        /\ pending[u] <=> u \in ToSet(pendingList)
    BY <1>3 DEF TimersInv, TimersTyped, ListsAgree, Once
  <2>2. CASE pending[u]
    BY <1>6, <2>1, <2>2
  <2>3. CASE ~ pending[u]
    <3>1. pendingList' = Append(pendingList, u)
      BY <1>6, <2>3
    <3>2. u \notin ToSet(pendingList)
      BY <2>1, <2>3
    <3> QED BY <1>3, <2>1, <3>1, <3>2, OnceAppend
  <2> QED BY <2>2, <2>3
<1>8. ListsAgree'
  <2>1. \A t \in Timer : pending'[t] <=> t \in ToSet(pendingList')
    BY <1>3, <1>6, <1>7 DEF TimersInv, TimersTyped, ListsAgree
  <2>2. ToSet(pendingList') \cap ToSet(freeList') = {} /\ Once(freeList')
    BY <1>3, <1>6, <1>7 DEF TimersInv, ListsAgree, Once
  <2> QED BY <1>7, <2>1, <2>2 DEF ListsAgree, Once
<1>9. TimersTyped'
  BY <1>1, <1>3, <1>5, <1>6, <1>7, LongestIs DEF TimersInv, TimersTyped, Working, Starting, Context, Off
<1>10. pc'["main"] = "read" /\ pc'["handler"] = "idle"
  BY <1>1 DEF TimersInv, TimersTyped, Context
<1>11. CallOK'
  BY <1>1, <1>6, <1>10 DEF CallOK, Working, Starting, Writing
<1>12. ClockRead'
  BY <1>10 DEF ClockRead, Context
<1>13. ASSUME NEW t \in Timer PROVE NotEarly(t)'
  <2>1. ~ IsStarting(t)' /\ age' # Off
    BY <1>4, <1>6, <1>10 DEF IsStarting, Starting
  <2>2. ASSUME pending'[t]
        PROVE  left'[t] # Off /\ (left'[t] > 0 => left'[t] + age' <= deltaTime'[t])
    <3>1. CASE t = u
      <4>1. left[t] \in 0 .. r
        BY <1>1, <1>3, <3>1 DEF TimersInv, NotEarly, IsStarting, Starting
      <4>2. deltaTime'[t] = r
        BY <1>3, <1>5, <1>6, <3>1
      <4> QED BY <1>3, <1>4, <1>6, <4>1, <4>2
    <3>2. CASE t # u
      <4>1. pending[t] /\ deltaTime'[t] = d[t]
        BY <1>5, <1>6, <2>2, <3>2 DEF TimersInv, TimersTyped
      <4>2. left[t] # Off /\ (left[t] > 0 => left[t] + age <= deltaTime[t])
        BY <1>3, <3>2, <4>1 DEF TimersInv, NotEarly, IsStarting
      <4>3. left[t] \in Off .. Longest /\ deltaTime[t] \in 0 .. Longest
        BY DEF TimersInv, TimersTyped
      <4> HIDE DEF n
      <4> QED BY <1>4, <1>5, <1>6, <4>1, <4>2, <4>3
    <3> QED BY <3>1, <3>2
  <2> QED BY <2>1, <2>2 DEF NotEarly
<1> QED BY <1>8, <1>9, <1>11, <1>12, <1>13 DEF TimersInv

(* The first reading of the clock. *)
LEMMA ReadClockInv ==
  ASSUME TimersInv, NEW c \in Context, NEW from, NEW to, ReadClock(c, from, to),
         <<c, from, to>> \in {<<"handler", "read", "update">>, <<"main", "start_read", "start_add">>,
                              <<"main", "read", "update">>}
  PROVE  TimersInv'
<1>1. pc[c] = from /\ pc' = [pc EXCEPT ![c] = to] /\ Runs(c)
  BY DEF ReadClock, Goto, At
<1>2. /\ UNCHANGED <<freeList, pendingList, pending, deltaTime, routine, alarm, signal, masked, arg,
                     notify, events, left>>
      /\ age' = Max({age, 0}) /\ ticks' = [ticks EXCEPT ![c] = Max({age, 0})]
  BY DEF ReadClock
<1>3. Longest \in Nat /\ Off = -1 /\ age \in Off .. Longest
  BY LongestIs DEF TimersInv, TimersTyped, Off
<1>4. Max({age, 0}) = IF age >= 0 THEN age ELSE 0
  BY <1>3, OfTwo
<1>5. Max({age, 0}) \in 0 .. Longest /\ (age # Off => Max({age, 0}) = age)
  BY <1>3, <1>4
<1> DEFINE m == Max({age, 0})
<1> HIDE DEF m
<1>6. /\ m \in 0 .. Longest /\ age' = m /\ ticks' = [ticks EXCEPT ![c] = m] /\ (age # Off => m = age)
      /\ m # Off
  BY <1>2, <1>3, <1>5 DEF m
<1>7. TimersTyped'
  <2>1. pc' \in [Context -> {"idle"} \cup Working \cup Writing] /\ pc'["handler"] \in {"idle", "read", "update"}
    BY <1>1 DEF TimersInv, TimersTyped, Working, Starting, Context
  <2>2. age' \in Off .. Longest /\ ticks' \in [Context -> 0 .. Longest]
    BY <1>3, <1>6 DEF TimersInv, TimersTyped
  <2> QED BY <1>2, <2>1, <2>2 DEF TimersInv, TimersTyped
<1>8. ListsAgree'
  BY <1>2 DEF TimersInv, ListsAgree
<1>9. /\ pc'["main"] \in Starting <=> pc["main"] \in Starting
      /\ pc'["main"] \in Working <=> pc["main"] \in Working
      /\ pc'["main"] \in Writing <=> pc["main"] \in Writing
      /\ pc'["main"] \in {"read", "update"} <=> pc["main"] \in {"read", "update"}
  BY <1>1 DEF TimersInv, TimersTyped, Working, Starting, Writing, Context
<1>10. CallOK'
  <2>1. pc'["main"] \in Working => masked' /\ pc'["handler"] = "idle"
    BY <1>1, <1>2, <1>9 DEF TimersInv, TimersTyped, CallOK, Working, Starting, Context
  <2> QED BY <1>2, <1>9, <2>1 DEF TimersInv, CallOK, Created
<1>11. ClockRead'
  <2>1. \A e \in Context : e # c => pc'[e] = pc[e] /\ pc[e] \notin {"update", "start_add"}
    BY <1>1, <1>9 DEF TimersInv, TimersTyped, CallOK, Runs, Context, Working, Starting
  <2>2. \A e \in Context : pc'[e] \in {"update", "start_add"} => ticks'[e] = m
    BY <1>6, <2>1 DEF TimersInv, TimersTyped
  <2>3. m <= m
    BY <1>3, <1>6
  <2> QED BY <1>6, <2>2, <2>3 DEF ClockRead
<1>12. ASSUME NEW t \in Timer PROVE NotEarly(t)'
  <2>1. IsStarting(t)' <=> IsStarting(t)
    BY <1>2, <1>9 DEF IsStarting
  <2> QED BY <1>2, <1>6, <2>1 DEF TimersInv, NotEarly
<1> QED BY <1>7, <1>8, <1>10, <1>11, <1>12 DEF TimersInv

(* A millisecond passes. *)
LEMMA TickInv == ASSUME TimersInv, Tick PROVE TimersInv'
<1>1. /\ age' = IF age = Off THEN Off ELSE Min({age + 1, Longest})
      /\ left' = [t \in Timer |-> Down(left[t])]
      /\ UNCHANGED <<freeList, pendingList, pending, deltaTime, routine, masked, pc, ticks, arg, notify, events>>
  BY DEF Tick
<1>2. Longest \in Nat /\ Off = -1 /\ age \in Off .. Longest
  BY LongestIs DEF TimersInv, TimersTyped, Off
<1>3. Min({age + 1, Longest}) = IF age + 1 <= Longest THEN age + 1 ELSE Longest
  <2>1. age + 1 \in Int /\ Longest \in Int
    BY <1>2
  <2> QED BY <2>1, OfTwo
<1>4. /\ age' \in Off .. Longest /\ (age' = Off <=> age = Off)
      /\ age # Off => age' = (IF age < Longest THEN age + 1 ELSE age)
  BY <1>1, <1>2, <1>3
<1>5. \A t \in Timer : left[t] \in Off .. Longest /\ deltaTime[t] \in 0 .. Longest
  BY DEF TimersInv, TimersTyped
<1>6. \A t \in Timer : left'[t] = IF left[t] > 0 THEN left[t] - 1 ELSE left[t]
  BY <1>1 DEF Down
<1>7. left' \in [Timer -> Off .. Longest]
  <2>1. \A t \in Timer : Down(left[t]) \in Off .. Longest
    BY <1>2, <1>5 DEF Down
  <2> QED BY <1>1, <2>1
<1>8. TimersTyped'
  BY <1>1, <1>4, <1>7 DEF TimersInv, TimersTyped
<1>9. ListsAgree' /\ CallOK'
  BY <1>1 DEF TimersInv, ListsAgree, CallOK, Created
<1>10. ClockRead'
  <2> SUFFICES ASSUME NEW c \in Context, pc[c] \in {"update", "start_add"}
               PROVE  age' # Off /\ ticks[c] <= age'
    BY <1>1 DEF ClockRead
  <2>1. age # Off /\ ticks[c] <= age /\ ticks[c] \in 0 .. Longest
    BY DEF TimersInv, TimersTyped, ClockRead
  <2> QED BY <1>2, <1>4, <2>1
<1>11. ASSUME NEW t \in Timer PROVE NotEarly(t)'
  <2>1. IsStarting(t)' <=> IsStarting(t)
    BY <1>1 DEF IsStarting
  <2>2. pending[t] => age # Off
    BY DEF TimersInv, NotEarly
  <2>3. ASSUME pending[t], ~ IsStarting(t)
        PROVE  left'[t] # Off /\ (left'[t] > 0 => left'[t] + age' <= deltaTime[t])
    <3>1. left[t] # Off /\ (left[t] > 0 => left[t] + age <= deltaTime[t])
      BY <2>3 DEF TimersInv, NotEarly
    <3> QED BY <1>2, <1>4, <1>5, <1>6, <2>2, <2>3, <3>1
  <2>4. ASSUME IsStarting(t) PROVE left'[t] \in 0 .. arg.time
    <3>1. left[t] \in 0 .. arg.time
      BY <2>4 DEF TimersInv, NotEarly
    <3>2. arg.time \in Nat
      <4>1. pc["main"] \in Starting
        BY <2>4 DEF IsStarting
      <4>2. PICK u \in Created, r \in Time : arg = [op |-> "start", timer |-> u, time |-> r]
        BY <4>1 DEF TimersInv, CallOK
      <4>3. arg.time = r
        BY <4>2
      <4> QED BY <4>2, <4>3, LongestIs
    <3> QED BY <1>6, <3>1, <3>2
  <2> QED BY <1>1, <1>4, <2>1, <2>2, <2>3, <2>4 DEF NotEarly
<1> QED BY <1>8, <1>9, <1>10, <1>11 DEF TimersInv

(* The kernel starts the handler of SIGALRM. *)
LEMMA SignalInv == ASSUME TimersInv, timerSignalHandler PROVE TimersInv'
<1>1. /\ ~ masked /\ pc["handler"] = "idle"
      /\ \/ pc' = [pc EXCEPT !["handler"] = "read"]
         \/ /\ pc["main"] = "event_write"
            /\ pc' = [pc EXCEPT !["handler"] = "read", !["main"] = "event_fails"]
      /\ UNCHANGED <<freeList, pendingList, pending, deltaTime, routine, age, alarm, masked, ticks, arg,
                     notify, events, left>>
  BY DEF timerSignalHandler
<1>2. pc["main"] \notin Working
  BY <1>1 DEF TimersInv, CallOK
<1>3. /\ pc'["handler"] = "read" /\ pc'["main"] \notin Working
      /\ pc'["main"] \in Writing <=> pc["main"] \in Writing
      /\ pc' \in [Context -> {"idle"} \cup Working \cup Writing]
  BY <1>1, <1>2 DEF TimersInv, TimersTyped, Context, Working, Starting, Writing
<1>4. TimersTyped'
  BY <1>1, <1>3 DEF TimersInv, TimersTyped
<1>5. ListsAgree'
  BY <1>1 DEF TimersInv, ListsAgree
<1>6. CallOK'
  BY <1>1, <1>3 DEF TimersInv, CallOK, Working
<1>7. ClockRead'
  BY <1>3 DEF ClockRead, Context, Working, Starting
<1>8. \A t \in Timer : NotEarly(t)'
  BY <1>1, <1>2, <1>3 DEF TimersInv, NotEarly, IsStarting, Working
<1> QED BY <1>4, <1>5, <1>6, <1>7, <1>8 DEF TimersInv

(* The calls, which begin when the program has the processor. *)
Idle == pc["main"] = "idle" /\ pc["handler"] = "idle"

LEMMA CreateInv == ASSUME TimersInv, radTimerCreate PROVE TimersInv'
<1>1. /\ Idle
      /\ UNCHANGED <<pendingList, deltaTime, age, alarm, signal, masked, pc, ticks, arg, notify, events, left>>
  BY DEF radTimerCreate, At, Runs, Idle
<1>2. /\ \/ /\ freeList # <<>> /\ freeList' = Tail(freeList)
            /\ pending' = [pending EXCEPT ![Head(freeList)] = FALSE]
         \/ UNCHANGED <<freeList, pending>>
      /\ routine' \in [Timer -> BOOLEAN]
  <2>1. PICK r \in Routine :
          \/ /\ freeList # <<>> /\ freeList' = Tail(freeList)
             /\ pending' = [pending EXCEPT ![Head(freeList)] = FALSE]
             /\ routine' = [routine EXCEPT ![Head(freeList)] = r]
          \/ \E t \in Created : /\ routine' = [routine EXCEPT ![t] = r]
                                /\ UNCHANGED <<freeList, pending>>
    BY DEF radTimerCreate
  <2>2. r \in BOOLEAN
    BY TimersAssumption
  <2> QED BY <2>1, <2>2 DEF TimersInv, TimersTyped
<1>3. /\ freeList \in Seq(Timer) /\ Once(freeList) /\ ToSet(pendingList) \cap ToSet(freeList) = {}
      /\ pending \in [Timer -> BOOLEAN] /\ \A t \in Timer : pending[t] <=> t \in ToSet(pendingList)
  BY DEF TimersInv, TimersTyped, ListsAgree, Once
<1>4. pending' = pending /\ freeList' \in Seq(Timer) /\ Once(freeList') /\ ToSet(freeList') \subseteq ToSet(freeList)
  <2>1. CASE freeList # <<>> /\ freeList' = Tail(freeList)
             /\ pending' = [pending EXCEPT ![Head(freeList)] = FALSE]
    <3>1. /\ Head(freeList) \in ToSet(freeList) /\ Tail(freeList) \in Seq(Timer) /\ Once(Tail(freeList))
          /\ ToSet(Tail(freeList)) \subseteq ToSet(freeList)
      BY <1>3, <2>1, OnceTail
    <3>2. Head(freeList) \in Timer
      BY <1>3, <2>1
    <3>3. pending[Head(freeList)] = FALSE
      BY <1>3, <3>1, <3>2
    <3> QED BY <1>3, <2>1, <3>1, <3>2, <3>3
  <2>2. CASE UNCHANGED <<freeList, pending>>
    BY <1>3, <2>2
  <2> QED BY <1>2, <2>1, <2>2
<1>5. TimersTyped'
  BY <1>1, <1>2, <1>4 DEF TimersInv, TimersTyped
<1>6. ListsAgree'
  BY <1>1, <1>3, <1>4 DEF TimersInv, ListsAgree, Once
<1>7. CallOK' /\ ClockRead'
  BY <1>1 DEF TimersInv, CallOK, ClockRead, Idle, Working, Starting, Writing, Context
<1>8. \A t \in Timer : NotEarly(t)'
  BY <1>1, <1>4 DEF TimersInv, NotEarly, IsStarting
<1> QED BY <1>5, <1>6, <1>7, <1>8 DEF TimersInv

LEMMA StartInv == ASSUME TimersInv, NEW u \in Timer, NEW r \in Time, radTimerStart(u, r) PROVE TimersInv'
<1>1. /\ Idle /\ u \in Created /\ pc' = [pc EXCEPT !["main"] = "start_read"] /\ masked' = TRUE
      /\ arg' = [op |-> "start", timer |-> u, time |-> r] /\ left' = [left EXCEPT ![u] = r]
      /\ UNCHANGED <<freeList, pendingList, pending, deltaTime, routine, age, alarm, signal, ticks, notify, events>>
  BY DEF radTimerStart, CallMasked, Goto, At, Runs, Idle
<1>2. r \in 0 .. Longest /\ Longest \in Nat /\ Off = -1
  BY LongestIs DEF Off
<1>3. pc'["main"] = "start_read" /\ pc'["handler"] = "idle" /\ pc' \in [Context -> {"idle"} \cup Working \cup Writing]
  BY <1>1 DEF TimersInv, TimersTyped, Context, Working, Starting, Idle
<1>4. TimersTyped'
  BY <1>1, <1>2, <1>3 DEF TimersInv, TimersTyped
<1>5. ListsAgree'
  BY <1>1 DEF TimersInv, ListsAgree
<1>6. CallOK'
  BY <1>1, <1>3 DEF CallOK, Created, Working, Starting, Writing
<1>7. ClockRead'
  BY <1>3 DEF ClockRead, Context
<1>8. arg'.timer = u /\ arg'.time = r
  BY <1>1
<1>9. ASSUME NEW t \in Timer PROVE NotEarly(t)'
  <2>1. IsStarting(t)' <=> t = u
    BY <1>3, <1>8 DEF IsStarting, Starting
  <2>2. pending[t] => age # Off
    BY DEF TimersInv, NotEarly
  <2>3. ~ IsStarting(t)
    BY <1>1 DEF IsStarting, Starting, Idle
  <2>4. t # u => left'[t] = left[t]
    BY <1>1 DEF TimersInv, TimersTyped
  <2>5. t = u => left'[t] = r /\ r \in 0 .. arg'.time
    BY <1>1, <1>2, <1>8 DEF TimersInv, TimersTyped
  <2>6. pending[t] => left[t] # Off /\ (left[t] > 0 => left[t] + age <= deltaTime[t])
    BY <2>3 DEF TimersInv, NotEarly
  <2> QED BY <1>1, <2>1, <2>2, <2>4, <2>5, <2>6 DEF NotEarly
<1> QED BY <1>4, <1>5, <1>6, <1>7, <1>9 DEF TimersInv

LEMMA UnlinkInv ==
  ASSUME TimersInv, NEW u \in Timer, NEW call, Unlink(u, call),
         call \in {NoCall, [op |-> "delete", timer |-> u]}
  PROVE  TimersInv'
<1>1. /\ Idle /\ u \in Created /\ pc' = [pc EXCEPT !["main"] = "read"] /\ masked' = TRUE
      /\ arg' = call /\ left' = [left EXCEPT ![u] = Off] /\ pending' = [pending EXCEPT ![u] = FALSE]
      /\ pendingList' = IF pending[u] THEN Without(pendingList, u) ELSE pendingList
      /\ UNCHANGED <<freeList, deltaTime, routine, age, alarm, signal, ticks, notify, events>>
  BY DEF Unlink, CallMasked, Goto, At, Runs, Idle
<1>2. Longest \in Nat /\ Off = -1
  BY LongestIs DEF Off
<1>3. pc'["main"] = "read" /\ pc'["handler"] = "idle" /\ pc' \in [Context -> {"idle"} \cup Working \cup Writing]
  BY <1>1 DEF TimersInv, TimersTyped, Context, Working, Starting, Idle
<1>4. /\ pendingList \in Seq(Timer) /\ Once(pendingList) /\ pending \in [Timer -> BOOLEAN]
      /\ \A t \in Timer : pending[t] <=> t \in ToSet(pendingList)
      /\ ToSet(pendingList) \cap ToSet(freeList) = {} /\ Once(freeList)
  BY DEF TimersInv, TimersTyped, ListsAgree, Once
<1>5. /\ pendingList' \in Seq(Timer) /\ Once(pendingList') /\ ToSet(pendingList') = ToSet(pendingList) \ {u}
  <2>1. CASE pending[u]
    BY <1>1, <1>4, <2>1, OnceWithout
  <2>2. CASE ~ pending[u]
    BY <1>1, <1>4, <2>2
  <2> QED BY <2>1, <2>2
<1>6. TimersTyped'
  BY <1>1, <1>2, <1>3, <1>5 DEF TimersInv, TimersTyped
<1>7. ListsAgree'
  <2>1. \A t \in Timer : pending'[t] <=> t \in ToSet(pendingList')
    BY <1>1, <1>4, <1>5
  <2> QED BY <1>1, <1>4, <1>5, <2>1 DEF ListsAgree, Once
<1>8. CallOK'
  BY <1>1, <1>3, <1>4 DEF CallOK, Created, Working, Starting, Writing
<1>9. ClockRead'
  BY <1>3 DEF ClockRead, Context
<1>10. ASSUME NEW t \in Timer PROVE NotEarly(t)'
  <2>1. ~ IsStarting(t)' /\ ~ IsStarting(t)
    BY <1>1, <1>3 DEF IsStarting, Starting, Idle
  <2>2. pending'[t] => t # u /\ pending[t] /\ left'[t] = left[t]
    BY <1>1, <1>4 DEF TimersInv, TimersTyped
  <2> QED BY <1>1, <2>1, <2>2 DEF TimersInv, NotEarly
<1> QED BY <1>6, <1>7, <1>8, <1>9, <1>10 DEF TimersInv

LEMMA SetUserParmInv == ASSUME TimersInv, NEW u \in Timer, radTimerSetUserParm(u) PROVE TimersInv'
<1>1. /\ Idle /\ pc' = [pc EXCEPT !["main"] = "read"] /\ masked' = TRUE /\ arg' = NoCall
      /\ UNCHANGED <<freeList, pendingList, pending, deltaTime, routine, age, alarm, signal, ticks, notify,
                     events, left>>
  BY DEF radTimerSetUserParm, CallMasked, Goto, At, Runs, Idle
<1>2. pc'["main"] = "read" /\ pc'["handler"] = "idle" /\ pc' \in [Context -> {"idle"} \cup Working \cup Writing]
  BY <1>1 DEF TimersInv, TimersTyped, Context, Working, Starting, Idle
<1>3. TimersTyped' /\ ListsAgree'
  BY <1>1, <1>2 DEF TimersInv, TimersTyped, ListsAgree
<1>4. CallOK' /\ ClockRead'
  BY <1>1, <1>2 DEF CallOK, ClockRead, Context, Working, Starting, Writing
<1>5. \A t \in Timer : ~ IsStarting(t)' /\ ~ IsStarting(t)
  BY <1>1, <1>2 DEF IsStarting, Starting, Idle
<1>6. \A t \in Timer : NotEarly(t)'
  BY <1>1, <1>5 DEF TimersInv, NotEarly
<1> QED BY <1>3, <1>4, <1>6 DEF TimersInv

LEMMA EventsSendInv == ASSUME TimersInv, NEW b \in EventBuffer, radEventsSend(b) PROVE TimersInv'
<1>1. /\ Idle /\ pc' = [pc EXCEPT !["main"] = "event_write"] /\ events' = events \ {b}
      /\ arg' = [op |-> "event", buffer |-> b]
      /\ UNCHANGED <<freeList, pendingList, pending, deltaTime, routine, age, alarm, signal, masked, ticks,
                     notify, left>>
  BY DEF radEventsSend, Goto, At, Runs, Idle
<1>2. /\ pc'["main"] = "event_write" /\ pc'["handler"] = "idle"
      /\ pc' \in [Context -> {"idle"} \cup Working \cup Writing]
  BY <1>1 DEF TimersInv, TimersTyped, Context, Working, Writing, Idle
<1>3. TimersTyped' /\ ListsAgree'
  BY <1>1, <1>2 DEF TimersInv, TimersTyped, ListsAgree
<1>4. CallOK' /\ ClockRead'
  BY <1>1, <1>2 DEF CallOK, ClockRead, Context, Working, Starting, Writing
<1>5. \A t \in Timer : ~ IsStarting(t)' /\ ~ IsStarting(t)
  BY <1>1, <1>2 DEF IsStarting, Starting, Idle
<1>6. \A t \in Timer : NotEarly(t)'
  BY <1>1, <1>5 DEF TimersInv, NotEarly
<1> QED BY <1>3, <1>4, <1>6 DEF TimersInv

LEMMA EventEndInv == ASSUME TimersInv, EventWrite \/ EventFails PROVE TimersInv'
<1>1. /\ pc["main"] \in Writing /\ pc["handler"] = "idle" /\ pc' = [pc EXCEPT !["main"] = "idle"]
      /\ arg' = NoCall /\ (notify' = notify \/ notify' = Append(notify, arg.buffer))
      /\ UNCHANGED <<freeList, pendingList, pending, deltaTime, routine, age, alarm, signal, masked, ticks,
                     events, left>>
  BY DEF EventWrite, EventFails, Goto, At, Runs, Writing
<1>2. PICK b \in EventBuffer : arg = [op |-> "event", buffer |-> b]
  BY <1>1 DEF TimersInv, CallOK
<1>3. arg.buffer \in Timer \cup EventBuffer
  BY <1>2
<1>4. notify' \in Seq(Timer \cup EventBuffer)
  <2> DEFINE M == Timer \cup EventBuffer
  <2>1. notify \in Seq(M) /\ arg.buffer \in M
    BY <1>3 DEF TimersInv, TimersTyped
  <2> HIDE DEF M
  <2>2. Append(notify, arg.buffer) \in Seq(M)
    BY <2>1, AppendProperties
  <2> QED BY <1>1, <2>1, <2>2 DEF M
<1>5. /\ pc'["main"] = "idle" /\ pc'["handler"] = "idle"
      /\ pc' \in [Context -> {"idle"} \cup Working \cup Writing]
  BY <1>1 DEF TimersInv, TimersTyped, Context
<1>6. TimersTyped' /\ ListsAgree'
  BY <1>1, <1>4, <1>5 DEF TimersInv, TimersTyped, ListsAgree
<1>7. CallOK' /\ ClockRead'
  BY <1>5 DEF CallOK, ClockRead, Context, Working, Starting, Writing
<1>8. \A t \in Timer : ~ IsStarting(t)' /\ ~ IsStarting(t)
  BY <1>1, <1>5 DEF IsStarting, Starting, Writing
<1>9. \A t \in Timer : NotEarly(t)'
  BY <1>1, <1>8 DEF TimersInv, NotEarly
<1> QED BY <1>6, <1>7, <1>9 DEF TimersInv

(* The main loop of the process only takes messages out of the pipe, gives *)
(* buffers of events back, and blocks SIGALRM at the end.                  *)
PipeRead ==
  /\ notify # <<>> /\ notify' = Tail(notify)
  /\ UNCHANGED <<freeList, pendingList, pending, deltaTime, routine, age, alarm, signal, masked, pc,
                 ticks, arg, events, left>>

EventDone ==
  /\ events' \in SUBSET EventBuffer
  /\ UNCHANGED <<freeList, pendingList, pending, deltaTime, routine, age, alarm, signal, masked, pc,
                 ticks, arg, notify, left>>

Ended ==
  /\ masked' = TRUE
  /\ UNCHANGED <<freeList, pendingList, pending, deltaTime, routine, age, alarm, signal, pc, ticks, arg,
                 notify, events, left>>

LEMMA LoopTimersInv == ASSUME TimersInv, PipeRead \/ EventDone \/ Ended PROVE TimersInv'
<1>1. /\ notify' \in Seq(Timer \cup EventBuffer) /\ events' \in SUBSET EventBuffer
      /\ masked' = masked \/ masked' = TRUE
      /\ UNCHANGED <<freeList, pendingList, pending, deltaTime, routine, age, alarm, signal, pc, ticks, arg, left>>
  <2>1. notify \in Seq(Timer \cup EventBuffer) /\ events \in SUBSET EventBuffer
    BY DEF TimersInv, TimersTyped
  <2>2. CASE PipeRead
    BY <2>1, <2>2, HeadTailProperties DEF PipeRead
  <2>3. CASE EventDone \/ Ended
    BY <2>1, <2>3 DEF EventDone, Ended
  <2> QED BY <2>2, <2>3
<1>2. TimersTyped' /\ ListsAgree'
  BY <1>1 DEF TimersInv, TimersTyped, ListsAgree
<1>3. CallOK' /\ ClockRead'
  BY <1>1 DEF TimersInv, CallOK, ClockRead, Created
<1>4. \A t \in Timer : NotEarly(t)'
  BY <1>1 DEF TimersInv, NotEarly, IsStarting
<1> QED BY <1>2, <1>3, <1>4 DEF TimersInv

LEMMA TimersSame == ASSUME TimersInv, UNCHANGED timerVars PROVE TimersInv'
<1>1. TimersTyped' /\ ListsAgree' /\ CallOK' /\ ClockRead'
  BY DEF timerVars, TimersInv, TimersTyped, ListsAgree, CallOK, ClockRead, Created
<1>2. \A t \in Timer : NotEarly(t)'
  BY DEF timerVars, TimersInv, NotEarly, IsStarting
<1> QED BY <1>1, <1>2 DEF TimersInv

-----------------------------------------------------------------------------
(* The steps of the process, as its timers see them. *)

Call ==
  \/ radTimerCreate
  \/ \E t \in Timer : \E d \in Time : radTimerStart(t, d)
  \/ \E t \in Timer : radTimerStop(t) \/ radTimerDelete(t)
  \/ \E t \in Timer : radTimerSetUserParm(t)
  \/ \E b \in EventBuffer : radEventsSend(b)

Work ==
  \/ timerSignalHandler \/ HandlerRead \/ StartRead \/ MainRead
  \/ HandlerUpdate \/ MainUpdate \/ StartAdd \/ EventWrite \/ EventFails

TimersStep == Call \/ Work \/ Tick \/ PipeRead \/ EventDone \/ Ended \/ UNCHANGED timerVars

(* Most steps of the main loop and of the program leave the timers alone.  *)
LEMMA LoopSteps ==
  ASSUME TimersInv, LoopStep \/ SelectTimeout
  PROVE  TimersStep
<1>1. CASE procPipeReadCB
  BY <1>1 DEF procPipeReadCB, TimersStep, PipeRead
<1>2. CASE RoutineReturns
  <2>1. events' = events \cup ({hand.buffer} \cap EventBuffer) /\ events \in SUBSET EventBuffer
    BY <1>2 DEF RoutineReturns, TimersInv, TimersTyped
  <2> QED BY <1>2, <2>1 DEF RoutineReturns, TimersStep, EventDone
<1>3. CASE radProcessExit
  BY <1>3 DEF radProcessExit, TimersStep, Ended
<1>4. ASSUME NEW s \in UserSlot, ioCallback(s) PROVE UNCHANGED timerVars
  BY <1>4 DEF ioCallback
<1>5. CASE radProcessWait \/ Interrupted \/ SelectAnswers \/ SelectFails \/ ScanEnds \/ SelectTimeout
  BY <1>5 DEF radProcessWait, Interrupted, SelectAnswers, SelectFails, ScanEnds, SelectTimeout, TimersStep
<1>6. CASE ReceiveEvent \/ ReceiveMessage \/ QueueClosed \/ msgHandler \/ HandlersDone
  BY <1>6 DEF ReceiveEvent, ReceiveMessage, QueueClosed, msgHandler, HandlersDone, TimersStep
<1>7. CASE HandlerReturns \/ EventReturns \/ ReleaseMessage \/ CallbackReturns
  BY <1>7 DEF HandlerReturns, EventReturns, ReleaseMessage, CallbackReturns, TimersStep
<1> QED BY <1>1, <1>2, <1>3, <1>4, <1>5, <1>6, <1>7 DEF LoopStep, TimersStep

LEMMA OtherSteps == ASSUME ProgramCall \/ Others PROVE UNCHANGED timerVars
<1>1. CASE Others
  BY <1>1 DEF Others, Arrives, Sent, WritersGone, radProcessSetExitFlag
<1>2. CASE ProgramCall
  <2>1. CASE radProcessIORegisterDescriptor
    BY <2>1 DEF radProcessIORegisterDescriptor
  <2>2. ASSUME NEW s \in UserSlot, radProcessIODeRegisterDescriptor(s) PROVE UNCHANGED timerVars
    BY <2>2 DEF radProcessIODeRegisterDescriptor
  <2>3. ASSUME NEW fd \in UserFd, radProcessIODeRegisterDescriptorByFd(fd) PROVE UNCHANGED timerVars
    BY <2>3 DEF radProcessIODeRegisterDescriptorByFd
  <2>4. ASSUME NEW h \in Handler, radProcessQueuePrependHandler(h) \/ radProcessQueueRemoveHandler(h)
        PROVE  UNCHANGED timerVars
    BY <2>4 DEF radProcessQueuePrependHandler, radProcessQueueRemoveHandler
  <2>5. CASE radProcessQueueKeepBuffer \/ radProcessQueueStopHandlerList \/ SetMask
    BY <2>5 DEF radProcessQueueKeepBuffer, radProcessQueueStopHandlerList, SetMask
  <2>6. ASSUME NEW b \in Message, radBufferRls(b) PROVE UNCHANGED timerVars
    BY <2>6 DEF radBufferRls
  <2> QED BY <1>2, <2>1, <2>2, <2>3, <2>4, <2>5, <2>6 DEF ProgramCall
<1> QED BY <1>1, <1>2

LEMMA NextIsTimersStep == ASSUME TimersInv, [Next]_vars PROVE TimersStep
<1>1. CASE LoopStep \/ SelectTimeout
  BY <1>1, LoopSteps
<1>2. CASE ProgramCall \/ Others
  BY <1>2, OtherSteps DEF TimersStep
<1>3. CASE TimersMove
  BY <1>3 DEF TimersMove, AlarmInterrupts, TimersStep, Work
<1>4. CASE TimerCall
  BY <1>4 DEF TimerCall, TimersStep, Call
<1>5. CASE Tick
  BY <1>5 DEF TimersStep
<1>6. CASE UNCHANGED vars
  BY <1>6 DEF vars, TimersStep
<1> QED BY <1>1, <1>2, <1>3, <1>4, <1>5, <1>6 DEF Next

LEMMA TimersNext == ASSUME TimersInv, [Next]_vars PROVE TimersInv'
<1>1. CASE Call
  <2>1. ASSUME NEW t \in Timer, radTimerStop(t) \/ radTimerDelete(t) PROVE TimersInv'
    <3>1. CASE radTimerStop(t)
      BY <3>1, UnlinkInv DEF radTimerStop
    <3>2. CASE radTimerDelete(t)
      BY <3>2, UnlinkInv DEF radTimerDelete
    <3> QED BY <2>1, <3>1, <3>2
  <2> QED BY <1>1, <2>1, CreateInv, StartInv, SetUserParmInv, EventsSendInv DEF Call
<1>2. CASE Work
  <2>1. CASE HandlerRead
    <3>1. ReadClock("handler", "read", "update") /\ "handler" \in Context
      BY <2>1 DEF HandlerRead, Context
    <3> QED BY <3>1, ReadClockInv
  <2>2. CASE StartRead
    <3>1. ReadClock("main", "start_read", "start_add") /\ "main" \in Context
      BY <2>2 DEF StartRead, Context
    <3> QED BY <3>1, ReadClockInv
  <2>3. CASE MainRead
    <3>1. ReadClock("main", "read", "update") /\ "main" \in Context
      BY <2>3 DEF MainRead, Context
    <3> QED BY <3>1, ReadClockInv
  <2> QED BY <1>2, <2>1, <2>2, <2>3, SignalInv, HandlerUpdateInv, MainUpdateInv, StartAddInv, EventEndInv DEF Work
<1>3. CASE Tick
  BY <1>3, TickInv
<1>4. CASE PipeRead \/ EventDone \/ Ended
  BY <1>4, LoopTimersInv
<1>5. CASE UNCHANGED timerVars
  BY <1>5, TimersSame
<1> QED BY <1>1, <1>2, <1>3, <1>4, <1>5, NextIsTimersStep DEF TimersStep

LEMMA TimersInvariant == Spec => []TimersInv
<1>1. Init => TimersInv
  BY TimersStart DEF Init
<1> QED BY <1>1, TimersNext, PTL DEF Spec

(* Whatever the program calls and wherever SIGALRM interrupts it, a timer  *)
(* is on one list at most, once, and its flag says which.                  *)
THEOREM TimerLists == Spec => []ListsAgree
<1>1. TimersInv => ListsAgree
  BY DEF TimersInv
<1> QED BY <1>1, TimersInvariant, PTL

-----------------------------------------------------------------------------
(* The timers are alarms. *)

RungIn(s) == [t \in Timer |-> Count(s, {t})]

(* The mapping counts the messages of the timer in the pipe. *)
LEMMA RungIs == Rung = RungIn(notify)
<1>1. \A t \in Timer : {k \in DOMAIN notify : notify[k] = t} = PositionsIn(notify, {t})
  BY DEF PositionsIn
<1> QED BY <1>1 DEF Rung, RungIn, Count

LEMMA RungNext == Rung' = RungIn(notify')
<1>1. \A t \in Timer : {k \in DOMAIN notify' : notify'[k] = t} = PositionsIn(notify', {t})
  BY DEF PositionsIn
<1> QED BY <1>1 DEF Rung, RungIn, Count

(* Different timers, put behind the others, count once each. *)
LEMMA CountOnce ==
  ASSUME NEW T, NEW s \in Seq(T), NEW r \in Seq(T), Once(r), NEW x
  PROVE  Count(s \o r, {x}) = IF x \in ToSet(r) THEN Count(s, {x}) + 1 ELSE Count(s, {x})
<1>1. Distinct(r)
  BY OnceIs DEF Distinct
<1>2. Count(s \o r, {x}) = IF \E i \in DOMAIN r : r[i] = x THEN Count(s, {x}) + 1 ELSE Count(s, {x})
  BY <1>1, CountConcat
<1>3. x \in ToSet(r) <=> \E i \in DOMAIN r : r[i] = x
  BY DEF ToSet
<1> QED BY <1>2, <1>3

(* Timers that expire together ring together. *)
LEMMA ServiceRings ==
  ASSUME TimersInv, NEW c \in Context, pc[c] = "update", service(Aged(ticks[c]))
  PROVE  Alarms!Ring
<1> DEFINE n == ticks[c]
           d == Aged(n)
           S == {t \in Timer : pending[t] /\ d[t] = 0}
           R == {t \in Timer : pending[t] /\ d[t] = 0 /\ routine[t]}
<1>0. TimersTyped /\ ListsAgree /\ n \in Nat
  BY LongestIs DEF TimersInv, TimersTyped
<1>1. d \in [Timer -> 0 .. Longest]
  <2> HIDE DEF n
  <2> QED BY <1>0, AgedIs
<1>2. /\ ToSet(Expired(d)) = S /\ ToSet(Rings(d)) = R
      /\ Rings(d) \in Seq(Timer) /\ Once(Rings(d))
  <2>1. /\ ToSet(Expired(d)) = {t \in Timer : pending[t] /\ d[t] = 0}
        /\ ToSet(Rings(d)) = {t \in Timer : pending[t] /\ d[t] = 0 /\ routine[t]}
        /\ Rings(d) \in Seq(Timer) /\ Once(Rings(d))
    <3> HIDE DEF d
    <3> QED BY <1>0, <1>1, ServiceLists
  <2> QED BY <2>1
<1>3. /\ notify' = notify \o Rings(d) /\ pending' = [t \in Timer |-> pending[t] /\ t \notin ToSet(Expired(d))]
      /\ left' = [t \in Timer |-> IF t \in ToSet(Expired(d)) THEN Off ELSE left[t]]
  BY DEF service
<1>4. \A t \in S : left[t] = 0
  <2> HIDE DEF d
  <2>1. \A t \in Timer : pending[t] /\ ~ pending'[t] => left[t] = 0
    BY ServiceStep
  <2> QED BY <1>2, <1>3, <2>1
<1>5. \A t \in Timer : RungIn(notify')[t] = IF t \in R THEN RungIn(notify)[t] + 1 ELSE RungIn(notify)[t]
  <2> DEFINE M == Timer \cup EventBuffer
             r == Rings(d)
  <2>1. notify \in Seq(M) /\ r \in Seq(M)
    <3>1. notify \in Seq(M)
      BY <1>0 DEF TimersTyped
    <3>2. r \in Seq(Timer)
      BY <1>2
    <3> HIDE DEF r
    <3> QED BY <3>1, <3>2
  <2>2. Once(r) /\ ToSet(r) = R
    BY <1>2
  <2> HIDE DEF M, r, R
  <2>3. \A t \in Timer : Count(notify \o r, {t}) =
                           IF t \in ToSet(r) THEN Count(notify, {t}) + 1 ELSE Count(notify, {t})
    BY <2>1, <2>2, CountOnce
  <2> QED BY <1>3, <2>2, <2>3 DEF RungIn, r
<1>6. S \in SUBSET {t \in Timer : left[t] = 0} /\ R \in SUBSET S
  BY <1>4
<1> HIDE DEF S, R, d
<1>7. left' = [t \in Timer |-> IF t \in S THEN Off ELSE left[t]]
  BY <1>2, <1>3
<1>8. RungIn(notify') = [t \in Timer |-> IF t \in R THEN RungIn(notify)[t] + 1 ELSE RungIn(notify)[t]]
  <2>1. RungIn(notify') = [t \in Timer |-> RungIn(notify')[t]]
    BY DEF RungIn
  <2> QED BY <1>5, <2>1
<1>9. Rung' = [t \in Timer |-> IF t \in R THEN Rung[t] + 1 ELSE Rung[t]]
  BY <1>8, RungIs, RungNext
<1>10. \E S1 \in SUBSET {t \in Timer : left[t] = 0} : \E R1 \in SUBSET S1 :
        /\ left' = [t \in Timer |-> IF t \in S1 THEN Off ELSE left[t]]
        /\ Rung' = [t \in Timer |-> IF t \in R1 THEN Rung[t] + 1 ELSE Rung[t]]
  BY <1>6, <1>7, <1>9
<1> HIDE DEF n
<1> QED BY <1>10 DEF Alarms!Ring

(* A message more, or one less. *)
LEMMA RungAppend ==
  ASSUME NEW s \in Seq(Timer \cup EventBuffer), NEW x \in Timer \cup EventBuffer, x \notin Timer
  PROVE  RungIn(Append(s, x)) = RungIn(s)
<1> DEFINE M == Timer \cup EventBuffer
<1>1. s \in Seq(M) /\ x \in M
  OBVIOUS
<1> HIDE DEF M
<1>2. \A t \in Timer : Count(Append(s, x), {t}) = IF x \in {t} THEN Count(s, {t}) + 1 ELSE Count(s, {t})
  BY <1>1, CountAppend
<1>3. \A t \in Timer : Count(Append(s, x), {t}) = Count(s, {t})
  BY <1>2
<1> QED BY <1>3 DEF RungIn

LEMMA RungTail ==
  ASSUME NEW s \in Seq(Timer \cup EventBuffer), s # <<>>
  PROVE  /\ Head(s) \in Timer => /\ RungIn(s)[Head(s)] > 0
                                 /\ RungIn(Tail(s)) = [RungIn(s) EXCEPT ![Head(s)] = @ - 1]
         /\ Head(s) \notin Timer => RungIn(Tail(s)) = RungIn(s)
<1> DEFINE M == Timer \cup EventBuffer
           h == Head(s)
           r == Tail(s)
<1>1. s \in Seq(M) /\ r \in Seq(M)
  BY HeadTailProperties
<1> HIDE DEF M
<1>2. \A t \in Timer : Count(s, {t}) = IF h \in {t} THEN Count(r, {t}) + 1 ELSE Count(r, {t})
  BY <1>1, CountTail
<1>3. \A t \in Timer : Count(s, {t}) \in Nat /\ Count(r, {t}) \in Nat
  BY <1>1, CountType
<1> HIDE DEF h, r
<1>4. ASSUME h \in Timer
      PROVE  RungIn(s)[h] > 0 /\ RungIn(r) = [RungIn(s) EXCEPT ![h] = @ - 1]
  <2>1. Count(s, {h}) = Count(r, {h}) + 1 /\ \A t \in Timer : t # h => Count(s, {t}) = Count(r, {t})
    BY <1>2, <1>4
  <2>2. Count(s, {h}) > 0 /\ Count(r, {h}) = Count(s, {h}) - 1
    BY <1>3, <1>4, <2>1
  <2>3. \A t \in Timer : RungIn(s)[t] = Count(s, {t}) /\ RungIn(r)[t] = Count(r, {t})
    BY DEF RungIn
  <2>4. DOMAIN RungIn(s) = Timer /\ RungIn(r) = [t \in Timer |-> Count(r, {t})]
    BY DEF RungIn
  <2>5. RungIn(s) = [t \in Timer |-> Count(s, {t})]
    BY DEF RungIn
  <2>6. RungIn(s)[h] > 0
    BY <1>4, <2>2, <2>3
  <2>7. RungIn(r) = [RungIn(s) EXCEPT ![h] = Count(s, {h}) - 1]
    <3> DEFINE m == Count(s, {h}) - 1
               new == [RungIn(s) EXCEPT ![h] = m]
    <3>1. DOMAIN new = Timer /\ new = [t \in DOMAIN new |-> new[t]]
      BY <2>4
    <3>2. new[h] = m /\ \A t \in Timer : t # h => new[t] = Count(s, {t})
      BY <1>4, <2>4, <2>5
    <3> HIDE DEF new
    <3>3. \A t \in Timer : new[t] = Count(r, {t})
      BY <2>1, <2>2, <3>2
    <3>4. new = [t \in Timer |-> Count(r, {t})]
      BY <3>1, <3>3
    <3> QED BY <2>4, <3>4 DEF new
  <2> QED BY <1>4, <2>3, <2>6, <2>7
<1>5. ASSUME h \notin Timer PROVE RungIn(r) = RungIn(s)
  <2>1. \A t \in Timer : Count(s, {t}) = Count(r, {t})
    BY <1>2, <1>5
  <2> QED BY <2>1 DEF RungIn
<1> QED BY <1>4, <1>5 DEF h, r

LEMMA AlarmsStart == TimersInit => Alarms!Init
<1> SUFFICES ASSUME TimersInit PROVE Alarms!Init
  OBVIOUS
<1>1. notify = <<>> /\ left = [t \in Timer |-> Off]
  BY DEF TimersInit
<1>2. <<>> \in Seq(Timer) /\ \A k \in DOMAIN <<>> : FALSE
  OBVIOUS
<1>3. \A t \in Timer : Count(<<>>, {t}) = 0
  BY <1>2, CountType
<1>4. Rung = [t \in Timer |-> 0]
  BY <1>1, <1>3, RungIs DEF RungIn
<1> QED BY <1>1, <1>4 DEF Alarms!Init

(* Every step is one of the alarms, or none of theirs. *)
LEMMA AlarmsStep == ASSUME TimersInv, [Next]_vars PROVE [Alarms!Next]_(Alarms!vars)
<1>1. UNCHANGED <<left, notify>> => UNCHANGED Alarms!vars
  BY RungIs, RungNext DEF Alarms!vars
<1>2. CASE Call
  <2>1. CASE radTimerCreate
    BY <1>1, <2>1 DEF radTimerCreate
  <2>2. ASSUME NEW t \in Timer, NEW d \in Time, radTimerStart(t, d) PROVE Alarms!Next
    <3>1. left' = [left EXCEPT ![t] = d] /\ Rung' = Rung
      BY <2>2, RungIs, RungNext DEF radTimerStart
    <3>2. Alarms!Start(t)
      BY <3>1 DEF Alarms!Start
    <3> QED BY <3>2 DEF Alarms!Next
  <2>3. ASSUME NEW t \in Timer, radTimerStop(t) \/ radTimerDelete(t) PROVE Alarms!Next
    <3>1. left' = [left EXCEPT ![t] = Off] /\ Rung' = Rung
      BY <2>3, RungIs, RungNext DEF radTimerStop, radTimerDelete, Unlink
    <3>2. Alarms!Stop(t)
      BY <3>1 DEF Alarms!Stop
    <3> QED BY <3>2 DEF Alarms!Next
  <2>4. ASSUME NEW t \in Timer, radTimerSetUserParm(t) PROVE UNCHANGED <<left, notify>>
    BY <2>4 DEF radTimerSetUserParm
  <2>5. ASSUME NEW b \in EventBuffer, radEventsSend(b) PROVE UNCHANGED <<left, notify>>
    BY <2>5 DEF radEventsSend
  <2> QED BY <1>1, <1>2, <2>1, <2>2, <2>3, <2>4, <2>5 DEF Call
<1>3. CASE Work
  <2>1. CASE timerSignalHandler \/ HandlerRead \/ StartRead \/ MainRead \/ StartAdd \/ EventFails
    BY <1>1, <2>1 DEF timerSignalHandler, HandlerRead, StartRead, MainRead, ReadClock, StartAdd, EventFails
  <2>2. CASE HandlerUpdate
    <3>1. pc["handler"] = "update" /\ service(Aged(ticks["handler"])) /\ "handler" \in Context
      BY <2>2 DEF HandlerUpdate, Goto, At, Context
    <3>2. Alarms!Ring
      BY <3>1, ServiceRings
    <3> QED BY <3>2 DEF Alarms!Next
  <2>3. CASE MainUpdate
    <3>1. pc["main"] = "update" /\ service(Aged(ticks["main"])) /\ "main" \in Context
      BY <2>3 DEF MainUpdate, Goto, At, Context
    <3>2. Alarms!Ring
      BY <3>1, ServiceRings
    <3> QED BY <3>2 DEF Alarms!Next
  <2>4. CASE EventWrite
    <3>1. pc["main"] \in Writing /\ left' = left /\ notify' = Append(notify, arg.buffer)
      BY <2>4 DEF EventWrite, Goto, At, Writing
    <3>2. PICK b \in EventBuffer : arg = [op |-> "event", buffer |-> b]
      BY <3>1 DEF TimersInv, CallOK
    <3>3. arg.buffer \in Timer \cup EventBuffer /\ arg.buffer \notin Timer
      BY <3>2, TimersAssumption
    <3>4. notify \in Seq(Timer \cup EventBuffer)
      BY DEF TimersInv, TimersTyped
    <3>5. RungIn(notify') = RungIn(notify)
      BY <3>1, <3>3, <3>4, RungAppend
    <3> QED BY <3>1, <3>5, RungIs, RungNext DEF Alarms!vars
  <2> QED BY <1>3, <2>1, <2>2, <2>3, <2>4 DEF Work
<1>4. CASE Tick
  <2>1. left' = [t \in Timer |-> Down(left[t])] /\ Rung' = Rung
    BY <1>4, RungIs, RungNext DEF Tick
  <2>2. \A t \in Timer : Down(left[t]) = IF left[t] # Off /\ left[t] > 0 THEN left[t] - 1 ELSE left[t]
    <3> SUFFICES ASSUME NEW t \in Timer
                 PROVE  Down(left[t]) = IF left[t] # Off /\ left[t] > 0 THEN left[t] - 1 ELSE left[t]
      OBVIOUS
    <3>1. left[t] \in Int
      BY LongestIs DEF TimersInv, TimersTyped, Off
    <3> QED BY <3>1 DEF Down, Off
  <2>3. left' = [t \in Timer |-> IF left[t] # Off /\ left[t] > 0 THEN left[t] - 1 ELSE left[t]]
    BY <2>1, <2>2
  <2>4. Alarms!Tick
    BY <2>1, <2>3 DEF Alarms!Tick, Alarms!Running
  <2> QED BY <2>4 DEF Alarms!Next
<1>5. CASE PipeRead
  <2>1. notify # <<>> /\ notify' = Tail(notify) /\ left' = left /\ notify \in Seq(Timer \cup EventBuffer)
    BY <1>5 DEF PipeRead, TimersInv, TimersTyped
  <2>2. CASE Head(notify) \in Timer
    <3> DEFINE t == Head(notify)
    <3>1. Rung[t] > 0 /\ Rung' = [Rung EXCEPT ![t] = @ - 1]
      BY <2>1, <2>2, RungTail, RungIs, RungNext
    <3>2. Alarms!Hear(t)
      BY <2>1, <3>1 DEF Alarms!Hear
    <3> QED BY <2>2, <3>2 DEF Alarms!Next
  <2>3. CASE Head(notify) \notin Timer
    BY <2>1, <2>3, RungTail, RungIs, RungNext DEF Alarms!vars
  <2> QED BY <2>2, <2>3
<1>6. CASE EventDone \/ Ended \/ UNCHANGED timerVars
  BY <1>1, <1>6 DEF EventDone, Ended, timerVars
<1> QED BY <1>2, <1>3, <1>4, <1>5, <1>6, NextIsTimersStep DEF TimersStep

(* The timers of a process implement the alarms: none rings before its     *)
(* time, twice for one start, or after it was stopped, though one signal   *)
(* serves all and interrupts the program anywhere.                         *)
THEOREM TimersAreAlarms == Spec => AlarmsSpec
<1>1. Init => Alarms!Init
  BY AlarmsStart DEF Init
<1>2. Spec => Alarms!Init /\ [][Alarms!Next]_(Alarms!vars)
  BY TimersInvariant, AlarmsStep, <1>1, PTL DEF Spec
<1> QED BY <1>2 DEF AlarmsSpec, Alarms!Spec

-----------------------------------------------------------------------------
(* The table of descriptors. *)

Waiting == {"user", "select", "interrupted", "scan", "end", "off"}
Walking == {"event", "next", "handler", "release"}

TableTyped ==
  /\ loop \in Waiting \cup Walking \cup {"callback", "routine"}
  /\ slot \in Nat /\ readFds \in SUBSET Nat
  /\ fds \in [Slot -> NoFd .. MaxFd]
  /\ \A s \in Slot \ UserSlot : fds[s] = OwnFd(s)
  /\ \A s \in UserSlot : fds[s] \in UserFd \cup {NoFd}
  /\ fdSet \in SUBSET Nat /\ fdMax \in Nat
  /\ open \in SUBSET UserFd /\ data \in SUBSET UserFd /\ fresh \in SUBSET Slot

(* What is registered is open, and under one number only. *)
Registration ==
  /\ \A s \in UserSlot : fds[s] # NoFd => fds[s] \in open
  /\ \A r, s \in UserSlot : fds[r] = fds[s] /\ fds[s] # NoFd => r = s

(* Whoever the loop is still to call has something to read. *)
Promised ==
  \A s \in UserSlot : s >= slot /\ fds[s] \in readFds => fds[s] \in data \/ s \in fresh

TableInv ==
  /\ TableTyped
  /\ SelectSeesAll
  /\ ~ LastSlotClosed => Registration /\ Promised
  /\ CallbackHasReason

(* The process knows why it ends. *)
ExitInv == exitFlag \/ loop \in {"end", "off"} => cause # {}

-----------------------------------------------------------------------------
(* Messages and their buffers. *)

Mail == {[kind |-> "empty"]} \cup {[kind |-> k, buffer |-> b] : k \in {"message", "event"}, b \in Message}

(* The messages that bring buffer b. *)
With(b) == {m \in Mail : b \in BuffersOf(m)}

One(P) == IF P THEN 1 ELSE 0

(* What a callback has at hand depends on where the loop is. *)
HandOK ==
  /\ loop \in Waiting => hand = Nothing
  /\ loop \in {"callback", "routine"} => BuffersOf(hand) = {}
  /\ loop \in Walking => hand \in Mail

MailInv ==
  /\ loop \in Waiting \cup Walking \cup {"callback", "routine"}
  /\ queue \in Seq(Mail) /\ freeBuffers \in SUBSET Message /\ kept \in SUBSET Message
  /\ HandOK
  /\ \A b \in Message : Count(queue, With(b)) + One(b \in freeBuffers) + One(b \in kept)
                          + One(b \in BuffersOf(hand)) = 1

-----------------------------------------------------------------------------
(* The list of handlers. *)

(* The handlers that are or were on the list. *)
Known == ToSet(chain) \cup {h \in Handler : stale[h] # h}

(* The order of the list, past and present: handlers only come to its      *)
(* front, and none comes twice.                                            *)
Order(at, low) ==
  /\ \A h \in Known : low < at[h]
  /\ \A g, h \in Known : at[g] = at[h] => g = h
  /\ \A i, j \in 1 .. Len(chain) : i < j => at[chain[i]] < at[chain[j]]

(* The pointer of a handler that left the list leads over nobody who is    *)
(* still on it.                                                            *)
Leads(h, to, at) ==
  /\ to = End => \A x \in ToSet(chain) : at[x] <= at[h]
  /\ to # End => /\ to \in Known /\ at[h] < at[to]
                 /\ \A x \in ToSet(chain) : ~ (at[h] < at[x] /\ at[x] < at[to])

PointersLead(at) == \A h \in Known \ ToSet(chain) : Leads(h, stale[h], at)

(* The handlers still to be called are behind the one the walk is at. *)
Ahead(at) ==
  /\ loop = "next" =>
       /\ node = End => owed = {}
       /\ node # End => node \in Known /\ \A x \in owed : at[node] <= at[x]
  /\ loop = "handler" => node # End /\ node \in Known /\ \A x \in owed : at[node] < at[x]

WalkInv ==
  /\ chain \in Seq(Handler) /\ stale \in [Handler -> Handler \cup {End}]
  /\ owed \subseteq ToSet(chain)
  /\ \E at \in [Handler -> Int], low \in Int : Order(at, low) /\ PointersLead(at) /\ Ahead(at)

-----------------------------------------------------------------------------
(* The steps of the process, as the table sees them. *)

Places == Waiting \cup Walking \cup {"callback", "routine"}

(* The loop goes on, and whoever it calls is no descriptor of the program. *)
TableQuiet ==
  /\ UNCHANGED <<readFds, fds, fdSet, fdMax, open, data, fresh>>
  /\ slot' \in Nat /\ slot <= slot'
  /\ loop' \in Places
  /\ loop' = "callback" => loop = "callback" /\ hand' = hand
  /\ cause \subseteq cause' /\ (LastSlotClosed' => LastSlotClosed)

TableStep ==
  \/ TableQuiet \/ SelectAnswers \/ ScanEnds \/ \E s \in UserSlot : ioCallback(s)
  \/ radProcessIORegisterDescriptor \/ \E s \in UserSlot : radProcessIODeRegisterDescriptor(s)
  \/ \E fd \in UserFd : radProcessIODeRegisterDescriptorByFd(fd) \/ Arrives(fd)

(* The slots and the descriptors are numbers, and the three of the process *)
(* come first.                                                             *)
LEMMA Numbers ==
  /\ LastSlot \in Nat /\ MaxFd \in Nat /\ LastSlot >= 3 /\ MaxFd >= 4
  /\ Slot = 0 .. LastSlot /\ UserSlot = 3 .. LastSlot /\ UserSlot \subseteq Slot
  /\ UserFd = 4 .. MaxFd /\ NoFd = -1
  /\ PipeSlot = 0 /\ WriteSlot = 1 /\ QueueSlot = 2 /\ \A s : OwnFd(s) = s + 1
  /\ Slot \ UserSlot = {0, 1, 2}
<1>1. LastSlot \in Nat /\ MaxFd \in Nat /\ LastSlot >= 3 /\ MaxFd >= 4
  BY LoopAssumption
<1>2. /\ Slot = 0 .. LastSlot /\ UserSlot = 3 .. LastSlot /\ UserSlot \subseteq Slot
      /\ UserFd = 4 .. MaxFd /\ NoFd = -1
      /\ PipeSlot = 0 /\ WriteSlot = 1 /\ QueueSlot = 2 /\ \A s : OwnFd(s) = s + 1
  BY <1>1 DEF Slot, UserSlot, UserFd, NoFd, PipeSlot, WriteSlot, QueueSlot, OwnFd
<1>3. Slot \ UserSlot = {0, 1, 2}
  BY <1>1, <1>2
<1> QED BY <1>1, <1>2, <1>3

(* The next slot to call is not before the place the loop is at.           *)
LEMMA CallsWhom ==
  ASSUME TableTyped, NEW s, NEW to, Calls(s, to)
  PROVE  s \in Chirping(slot) /\ s \in Slot /\ s \in Nat /\ slot <= s /\ slot' = s + 1 /\ loop' = to
<1>1. Chirping(slot) \in SUBSET Nat /\ Chirping(slot) # {}
  BY Numbers DEF Calls, Chirping
<1>2. s \in Chirping(slot)
  BY <1>1, Least DEF Calls
<1> QED BY <1>2, Numbers DEF Calls, Chirping, Goes

LEMMA LoopTableSteps ==
  ASSUME TableTyped, LoopStep \/ SelectTimeout
  PROVE  TableStep
<1>0. slot \in Nat
  BY DEF TableTyped
<1> DEFINE On == UNCHANGED <<slot, readFds, ioVars, cause>> /\ loop' \in Places \ {"callback"}
<1>a. ASSUME On PROVE TableStep
  <2>1. UNCHANGED <<readFds, fds, fdSet, fdMax, open, data, fresh>> /\ slot <= slot'
    BY <1>0, <1>a DEF ioVars
  <2> QED BY <1>0, <1>a, <2>1 DEF TableStep, TableQuiet, LastSlotClosed
<1>1. CASE radProcessWait \/ Interrupted \/ SelectFails \/ SelectTimeout
  <2>1. loop' \in {"end", "select", "user"} /\ UNCHANGED <<slot, readFds, ioVars, cause>>
    BY <1>1 DEF radProcessWait, Interrupted, SelectFails, SelectTimeout, Goes, endVars
  <2> QED BY <1>a, <2>1 DEF Places, Waiting
<1>2. CASE msgHandler \/ HandlersDone \/ HandlerReturns \/ EventReturns \/ ReleaseMessage
  <2>1. loop' \in {"handler", "release", "scan", "next"} /\ UNCHANGED <<slot, readFds, ioVars, cause>>
    BY <1>2 DEF msgHandler, HandlersDone, HandlerReturns, EventReturns, ReleaseMessage, Goes, endVars
  <2> QED BY <1>a, <2>1 DEF Places, Waiting, Walking
<1>3. CASE CallbackReturns \/ RoutineReturns \/ radProcessExit
  <2>1. loop' \in {"scan", "off"} /\ UNCHANGED <<slot, readFds, ioVars, cause>>
    BY <1>3 DEF CallbackReturns, RoutineReturns, radProcessExit, Goes, endVars
  <2> QED BY <1>a, <2>1 DEF Places, Waiting
<1>4. ASSUME NEW to \in Places \ {"callback"}, NEW s, Calls(s, to), UNCHANGED <<readFds, ioVars>>,
             cause' = cause \/ cause' = cause \cup {"queue"}
      PROVE  TableStep
  <2>1. slot' \in Nat /\ slot <= slot' /\ loop' = to
    <3>1. s \in Nat /\ slot <= s /\ slot' = s + 1 /\ loop' = to
      BY <1>4, CallsWhom
    <3> QED BY <1>0, <3>1
  <2>2. UNCHANGED <<readFds, fds, fdSet, fdMax, open, data, fresh>>
    BY <1>4 DEF ioVars
  <2>3. cause \subseteq cause' /\ (LastSlotClosed' => LastSlotClosed)
    BY <1>4 DEF LastSlotClosed
  <2> QED BY <1>4, <2>1, <2>2, <2>3 DEF TableStep, TableQuiet
<1>5. CASE procPipeReadCB
  <2>1. /\ "routine" \in Places \ {"callback"} /\ Calls(PipeSlot, "routine")
        /\ UNCHANGED <<readFds, ioVars>> /\ cause' = cause
    BY <1>5 DEF procPipeReadCB, Places, endVars
  <2> QED BY <1>4, <2>1
<1>6. CASE ReceiveEvent
  <2>1. PICK to \in {"event", "release"} :
          Calls(QueueSlot, to) /\ UNCHANGED <<readFds, ioVars>> /\ cause' = cause
    BY <1>6 DEF ReceiveEvent, endVars
  <2>2. to \in Places \ {"callback"}
    BY <2>1 DEF Places, Walking
  <2> QED BY <1>4, <2>1, <2>2
<1>7. CASE ReceiveMessage
  <2>1. /\ "next" \in Places \ {"callback"} /\ Calls(QueueSlot, "next")
        /\ UNCHANGED <<readFds, ioVars>> /\ cause' = cause
    BY <1>7 DEF ReceiveMessage, Places, Walking, endVars
  <2> QED BY <1>4, <2>1
<1>8. CASE QueueClosed
  <2>1. /\ "scan" \in Places \ {"callback"} /\ Calls(QueueSlot, "scan")
        /\ UNCHANGED <<readFds, ioVars>> /\ cause' = cause \cup {"queue"}
    BY <1>8 DEF QueueClosed, Places, Waiting
  <2> QED BY <1>4, <2>1
<1>9. CASE SelectAnswers \/ ScanEnds \/ \E s \in UserSlot : ioCallback(s)
  BY <1>9 DEF TableStep
<1> QED BY <1>1, <1>2, <1>3, <1>5, <1>6, <1>7, <1>8, <1>9 DEF LoopStep

LEMMA NextIsTableStep == ASSUME TableTyped, [Next]_vars PROVE TableStep
<1>0. slot \in Nat /\ slot <= slot /\ loop \in Places
  BY DEF TableTyped, Places
<1>1. ASSUME UNCHANGED <<loop, slot, readFds, hand, ioVars, cause>> PROVE TableStep
  BY <1>0, <1>1 DEF TableStep, TableQuiet, ioVars, LastSlotClosed
<1>2. CASE LoopStep \/ SelectTimeout
  BY <1>2, LoopTableSteps
<1>3. CASE ProgramCall
  <2>1. ASSUME NEW h \in Handler, radProcessQueuePrependHandler(h) \/ radProcessQueueRemoveHandler(h)
        PROVE  TableStep
    BY <1>1, <2>1 DEF radProcessQueuePrependHandler, radProcessQueueRemoveHandler, endVars
  <2>2. CASE radProcessQueueKeepBuffer \/ radProcessQueueStopHandlerList \/ SetMask
    BY <1>1, <2>2 DEF radProcessQueueKeepBuffer, radProcessQueueStopHandlerList, SetMask, endVars
  <2>3. ASSUME NEW b \in Message, radBufferRls(b) PROVE TableStep
    BY <1>1, <2>3 DEF radBufferRls, endVars
  <2> QED BY <1>3, <2>1, <2>2, <2>3 DEF ProgramCall, TableStep
<1>4. CASE Others
  <2>1. CASE Sent
    BY <1>1, <2>1 DEF Sent, endVars
  <2>2. CASE WritersGone
    BY <1>1, <2>2 DEF WritersGone, endVars
  <2>3. CASE radProcessSetExitFlag
    <3>1. /\ UNCHANGED <<slot, readFds, hand, ioVars>> /\ cause' = cause \cup {"signal"}
          /\ loop' = "interrupted" \/ loop' = loop
      BY <2>3 DEF radProcessSetExitFlag
    <3> QED BY <1>0, <3>1 DEF TableStep, TableQuiet, ioVars, LastSlotClosed, Places, Waiting
  <2> QED BY <1>4, <2>1, <2>2, <2>3 DEF Others, TableStep
<1>5. CASE TimersMove
  <2>1. CASE AlarmInterrupts
    <3>1. UNCHANGED <<slot, readFds, hand, ioVars, cause>> /\ (loop' = "interrupted" \/ loop' = loop)
      BY <2>1 DEF AlarmInterrupts, endVars
    <3> QED BY <1>0, <3>1 DEF TableStep, TableQuiet, ioVars, LastSlotClosed, Places, Waiting
  <2>2. CASE UNCHANGED loopVars
    BY <1>1, <2>2 DEF loopVars, endVars
  <2> QED BY <1>5, <2>1, <2>2 DEF TimersMove
<1>6. CASE UNCHANGED loopVars
  BY <1>1, <1>6 DEF loopVars, endVars
<1>7. CASE UNCHANGED vars
  BY <1>6, <1>7 DEF vars
<1> QED BY <1>2, <1>3, <1>4, <1>5, <1>6, <1>7 DEF Next

-----------------------------------------------------------------------------
(* The table keeps its invariant. *)

(* The descriptors select is asked about. *)
Registered == {fds[s] : s \in Slot \ {WriteSlot}} \ {NoFd}

LEMMA SeesIs ==
  SelectSeesAll <=> (~ LastSlotClosed => /\ fdSet = Registered
                                         /\ Registered \cap UserFd \subseteq open
                                         /\ \A fd \in Registered : fd <= fdMax)
BY DEF SelectSeesAll, Registered

LEMMA SeesNext ==
  SelectSeesAll' <=> (~ LastSlotClosed' => /\ fdSet' = Registered'
                                           /\ Registered' \cap UserFd \subseteq open'
                                           /\ \A fd \in Registered' : fd <= fdMax')
BY DEF SelectSeesAll, Registered

(* The process itself registers the pipe and the queue, the program what   *)
(* it opened.                                                              *)
LEMMA RegisteredIs ==
  ASSUME TableTyped
  PROVE  /\ Registered = {1, 3} \cup ({fds[s] : s \in UserSlot} \ {NoFd})
         /\ \A s \in UserSlot : fds[s] # NoFd => fds[s] \in UserFd
         /\ 1 \notin UserFd /\ 3 \notin UserFd /\ 0 \notin UserFd /\ NoFd \notin UserFd
<1>1. fds[0] = 1 /\ fds[2] = 3
  BY Numbers DEF TableTyped
<1>2. Slot \ {WriteSlot} = {0, 2} \cup UserSlot
  BY Numbers
<1>3. {fds[s] : s \in Slot \ {WriteSlot}} = {1, 3} \cup {fds[s] : s \in UserSlot}
  BY <1>1, <1>2
<1>4. NoFd # 1 /\ NoFd # 3
  BY Numbers
<1>5. \A s \in UserSlot : fds[s] # NoFd => fds[s] \in UserFd
  BY DEF TableTyped
<1>6. 1 \notin UserFd /\ 3 \notin UserFd /\ 0 \notin UserFd /\ NoFd \notin UserFd
  BY Numbers
<1> QED BY <1>3, <1>4, <1>5, <1>6 DEF Registered

LEMMA TableQuietInv == ASSUME TableInv, TableQuiet PROVE TableInv'
<1>1. TableTyped'
  BY DEF TableInv, TableTyped, TableQuiet, Places
<1>2. SelectSeesAll'
  <2>1. ~ LastSlotClosed' => ~ LastSlotClosed
    BY DEF TableQuiet, LastSlotClosed
  <2> QED BY <2>1 DEF TableInv, SelectSeesAll, TableQuiet
<1>3. ASSUME ~ LastSlotClosed' PROVE Registration' /\ Promised'
  <2>1. ~ LastSlotClosed /\ Registration /\ Promised
    BY <1>3 DEF TableInv, TableQuiet, LastSlotClosed
  <2>2. Registration'
    BY <2>1 DEF TableQuiet, Registration
  <2>3. \A s \in UserSlot : s >= slot' => s >= slot
    BY Numbers DEF TableQuiet, TableInv, TableTyped
  <2>4. Promised'
    BY <2>1, <2>3 DEF TableQuiet, Promised
  <2> QED BY <2>2, <2>4
<1>4. CallbackHasReason'
  <2>1. LastSlotClosed => LastSlotClosed'
    BY DEF TableQuiet, LastSlotClosed
  <2> QED BY <2>1 DEF TableQuiet, TableInv, CallbackHasReason
<1> QED BY <1>1, <1>2, <1>3, <1>4 DEF TableInv

LEMMA SelectAnswersInv == ASSUME TableInv, SelectAnswers PROVE TableInv'
<1>1. /\ loop' = "scan" /\ readFds' = Readable /\ slot' = 0 /\ fresh' = {}
      /\ UNCHANGED <<fds, fdSet, fdMax, open, data, cause>>
  BY DEF SelectAnswers, Goes, endVars
<1>2. TableTyped'
  BY <1>1 DEF TableInv, TableTyped, Waiting, Readable
<1>3. SelectSeesAll' /\ (LastSlotClosed' <=> LastSlotClosed)
  BY <1>1 DEF TableInv, SelectSeesAll, LastSlotClosed
<1>4. ASSUME ~ LastSlotClosed PROVE Registration' /\ Promised'
  <2>1. Registration'
    BY <1>1, <1>4 DEF TableInv, Registration
  <2>2. \A s \in UserSlot : fds[s] \in Readable => fds[s] \in data
    <3>1. \A s \in UserSlot : fds[s] # OwnFd(PipeSlot) /\ fds[s] # OwnFd(QueueSlot)
      BY Numbers DEF TableInv, TableTyped
    <3> QED BY <3>1 DEF Readable
  <2>3. Promised'
    BY <1>1, <2>2 DEF Promised
  <2> QED BY <2>1, <2>3
<1>5. CallbackHasReason'
  BY <1>1 DEF CallbackHasReason
<1> QED BY <1>2, <1>3, <1>4, <1>5 DEF TableInv

LEMMA ScanEndsInv == ASSUME TableInv, ScanEnds PROVE TableInv'
<1>1. /\ loop' = "user" /\ readFds' = {} /\ slot' = 0 /\ fresh' = {}
      /\ UNCHANGED <<fds, fdSet, fdMax, open, data, cause>>
  BY DEF ScanEnds, Goes, endVars
<1>2. TableTyped'
  BY <1>1 DEF TableInv, TableTyped, Waiting
<1>3. SelectSeesAll' /\ (LastSlotClosed' <=> LastSlotClosed)
  BY <1>1 DEF TableInv, SelectSeesAll, LastSlotClosed
<1>4. ASSUME ~ LastSlotClosed PROVE Registration' /\ Promised'
  BY <1>1, <1>4 DEF TableInv, Registration, Promised
<1>5. CallbackHasReason'
  BY <1>1 DEF CallbackHasReason
<1> QED BY <1>2, <1>3, <1>4, <1>5 DEF TableInv

LEMMA ioCallbackInv == ASSUME TableInv, NEW u \in UserSlot, ioCallback(u) PROVE TableInv'
<1>1. u \in Chirping(slot) /\ u \in Nat /\ slot <= u /\ slot' = u + 1 /\ loop' = "callback"
  BY CallsWhom DEF ioCallback, TableInv
<1>2. /\ hand' = [kind |-> "fd", had |-> fds[u] \in data, new |-> u \in fresh]
      /\ data' = data \ {fds[u]} /\ UNCHANGED <<readFds, fds, fdSet, fdMax, open, fresh, cause>>
  BY DEF ioCallback, endVars
<1>3. slot \in Nat /\ fds[u] # NoFd /\ fds[u] \in readFds
  BY <1>1 DEF TableInv, TableTyped, Chirping
<1>4. TableTyped'
  BY <1>1, <1>2, <1>3 DEF TableInv, TableTyped
<1>5. SelectSeesAll' /\ (LastSlotClosed' <=> LastSlotClosed)
  BY <1>2 DEF TableInv, SelectSeesAll, LastSlotClosed
<1>6. ASSUME ~ LastSlotClosed PROVE Registration' /\ Promised' /\ (fds[u] \in data \/ u \in fresh)
  <2>1. Registration /\ Promised
    BY <1>6 DEF TableInv
  <2>2. Registration'
    BY <1>2, <2>1 DEF Registration
  <2>3. \A s \in UserSlot : s >= slot' => s >= slot /\ s # u
    BY <1>1, <1>3, Numbers
  <2>4. \A s \in UserSlot : s >= slot' => fds[s] # fds[u]
    BY <1>3, <2>1, <2>3 DEF Registration
  <2>5. Promised'
    BY <1>2, <2>1, <2>3, <2>4 DEF Promised
  <2>6. u >= slot
    BY <1>1, <1>3
  <2>7. fds[u] \in data \/ u \in fresh
    BY <1>3, <2>1, <2>6 DEF Promised
  <2> QED BY <2>2, <2>5, <2>7
<1>7. CallbackHasReason'
  <2>1. hand'.had = (fds[u] \in data) /\ hand'.new = (u \in fresh)
    BY <1>2
  <2> QED BY <1>5, <1>6, <2>1 DEF CallbackHasReason
<1> QED BY <1>4, <1>5, <1>6, <1>7 DEF TableInv

LEMMA ArrivesInv == ASSUME TableInv, NEW fd \in UserFd, Arrives(fd) PROVE TableInv'
<1>1. data' = data \cup {fd} /\ UNCHANGED <<loop, slot, readFds, hand, fds, fdSet, fdMax, open, fresh, cause>>
  BY DEF Arrives, endVars
<1>2. TableTyped' /\ SelectSeesAll' /\ CallbackHasReason' /\ (LastSlotClosed' <=> LastSlotClosed)
  BY <1>1 DEF TableInv, TableTyped, SelectSeesAll, CallbackHasReason, LastSlotClosed
<1>3. ASSUME ~ LastSlotClosed PROVE Registration' /\ Promised'
  BY <1>1, <1>3 DEF TableInv, Registration, Promised
<1> QED BY <1>2, <1>3 DEF TableInv

LEMMA RegisterInv == ASSUME TableInv, radProcessIORegisterDescriptor PROVE TableInv'
<1> DEFINE fd == Min(UserFd \ open)
           u == Min({s \in UserSlot : fds[s] = NoFd})
<1>1. fd \in UserFd /\ fd \notin open /\ fd \in Nat /\ fd # NoFd
  <2>1. UserFd \ open \in SUBSET Nat /\ UserFd \ open # {}
    <3>1. open \in SUBSET UserFd /\ UserFd # open
      BY DEF TableInv, TableTyped, radProcessIORegisterDescriptor
    <3>2. \E g : g \in UserFd /\ g \notin open
      BY <3>1, Zenon
    <3>3. UserFd \in SUBSET Nat
      BY Numbers
    <3> QED BY <3>2, <3>3
  <2>2. fd \in UserFd \ open
    BY <2>1, Least
  <2> QED BY <2>1, <2>2, Numbers
<1>2. u \in UserSlot /\ fds[u] = NoFd /\ u \in Slot
  <2> DEFINE room == {s \in UserSlot : fds[s] = NoFd}
  <2>1. room \in SUBSET Nat /\ room # {}
    BY Numbers DEF radProcessIORegisterDescriptor
  <2> HIDE DEF room
  <2>2. Min(room) \in room
    BY <2>1, Least
  <2> QED BY <2>2, Numbers DEF room
<1>3. /\ fds' = [fds EXCEPT ![u] = fd] /\ fdMax' = Max({fd, fdMax}) /\ fdSet' = fdSet \cup {fd}
      /\ fresh' = fresh \cup {u} /\ open' = open \cup {fd}
      /\ UNCHANGED <<loop, slot, readFds, hand, data, cause>>
  BY DEF radProcessIORegisterDescriptor, Register, endVars
<1> HIDE DEF fd, u
<1>4. fdMax \in Nat /\ fdMax' \in Nat /\ fd <= fdMax' /\ fdMax <= fdMax'
  <2>1. fdMax \in Nat
    BY DEF TableInv, TableTyped
  <2> QED BY <1>1, <1>3, <2>1, OfTwo
<1>5. TableTyped'
  <2>1. fds' \in [Slot -> NoFd .. MaxFd] /\ \A s \in Slot : fds'[s] = IF s = u THEN fd ELSE fds[s]
    BY <1>1, <1>2, <1>3, Numbers DEF TableInv, TableTyped
  <2>2. /\ \A s \in Slot \ UserSlot : fds'[s] = OwnFd(s)
        /\ \A s \in UserSlot : fds'[s] \in UserFd \cup {NoFd}
    BY <1>1, <1>2, <2>1, Numbers DEF TableInv, TableTyped
  <2> QED BY <1>1, <1>2, <1>3, <1>4, <2>1, <2>2 DEF TableInv, TableTyped
<1>6. \A s \in UserSlot : fds'[s] = IF s = u THEN fd ELSE fds[s]
  BY <1>2, <1>3, Numbers DEF TableInv, TableTyped
<1>7. LastSlotClosed' <=> LastSlotClosed
  BY <1>3 DEF LastSlotClosed
<1>8. SelectSeesAll'
  <2> SUFFICES ASSUME ~ LastSlotClosed
               PROVE  /\ fdSet' = Registered' /\ Registered' \cap UserFd \subseteq open'
                      /\ \A g \in Registered' : g <= fdMax'
    BY <1>7, SeesNext
  <2>1. /\ fdSet = Registered /\ Registered \cap UserFd \subseteq open
        /\ \A g \in Registered : g <= fdMax
    BY SeesIs DEF TableInv
  <2>2. Registered' = Registered \cup {fd}
    <3>1. \A s \in Slot : fds'[s] = IF s = u THEN fd ELSE fds[s]
      BY <1>2, <1>3, Numbers DEF TableInv, TableTyped
    <3>2. u \in Slot \ {WriteSlot}
      BY <1>2, Numbers
    <3> QED BY <1>1, <1>2, <3>1, <3>2 DEF Registered
  <2>3. \A g \in Registered : g \in Nat
    BY <2>1 DEF TableInv, TableTyped
  <2>4. \A g \in Registered' : g <= fdMax'
    BY <1>4, <2>1, <2>2, <2>3
  <2> QED BY <1>3, <2>1, <2>2, <2>4
<1>9. ASSUME ~ LastSlotClosed PROVE Registration' /\ Promised'
  <2>1. Registration /\ Promised
    BY <1>9 DEF TableInv
  <2>2. Registration'
    BY <1>1, <1>2, <1>3, <1>6, <2>1 DEF Registration
  <2>3. Promised'
    BY <1>3, <1>6, <2>1 DEF Promised
  <2> QED BY <2>2, <2>3
<1>10. CallbackHasReason'
  BY <1>3, <1>7 DEF TableInv, CallbackHasReason
<1> QED BY <1>5, <1>7, <1>8, <1>9, <1>10 DEF TableInv

(* procFreeIOBlock, and the descriptor is closed. *)
Freed(u) ==
  /\ Free(u) /\ Close(fds[u])
  /\ UNCHANGED <<loop, slot, readFds, hand, cause>>

LEMMA FreedInv == ASSUME TableInv, NEW u \in UserSlot, fds[u] # NoFd, Freed(u) PROVE TableInv'
<1> DEFINE fd == fds[u]
           others == {0} \cup {fds[i] : i \in Slot \ {u}}
<1>1. /\ fds' = [fds EXCEPT ![u] = NoFd] /\ fdSet' = fdSet \ {fd} /\ fresh' = fresh \ {u}
      /\ fdMax' = IF fdMax = fd THEN Max(others) ELSE fdMax
      /\ open' = open \ {fd} /\ data' = data \ {fd}
      /\ UNCHANGED <<loop, slot, readFds, hand, cause>>
  BY DEF Freed, Free, Close
<1>2. u \in Slot /\ fd \in UserFd /\ fd \in Nat
  BY Numbers DEF TableInv, TableTyped
<1>3. \A s \in Slot : fds[s] \in NoFd .. MaxFd /\ fds[s] \in Int
  BY Numbers DEF TableInv, TableTyped
<1>4. Max(others) \in Nat /\ \A i \in Slot \ {u} : fds[i] <= Max(others)
  <2>1. others \in SUBSET (NoFd .. MaxFd) /\ others # {} /\ 0 \in others
    BY <1>3, Numbers
  <2>2. IsFiniteSet(NoFd .. MaxFd)
    BY FS_Interval, Numbers
  <2>3. \A i \in Slot \ {u} : fds[i] \in others
    OBVIOUS
  <2> HIDE DEF others
  <2>4. IsFiniteSet(others) /\ others \in SUBSET Int
    <3>1. IsFiniteSet(others)
      BY <2>1, <2>2, FS_Subset
    <3>2. \A x \in NoFd .. MaxFd : x \in Int
      OBVIOUS
    <3> QED BY <2>1, <3>1, <3>2
  <2>5. Max(others) \in others /\ \A x \in others : x <= Max(others)
    BY <2>1, <2>4, Greatest
  <2>6. Max(others) \in Int /\ 0 <= Max(others)
    BY <2>1, <2>4, <2>5
  <2> QED BY <2>3, <2>5, <2>6
<1> DEFINE top == Max(others)
<1> HIDE DEF others, top
<1>5. \A s \in Slot : fds'[s] = IF s = u THEN NoFd ELSE fds[s]
  BY <1>1, <1>2 DEF TableInv, TableTyped
<1>6. fdMax' \in Nat
  BY <1>1, <1>4 DEF TableInv, TableTyped
<1>7. TableTyped'
  <2>1. fds' \in [Slot -> NoFd .. MaxFd]
    BY <1>1, Numbers DEF TableInv, TableTyped
  <2>2. /\ \A s \in Slot \ UserSlot : fds'[s] = OwnFd(s)
        /\ \A s \in UserSlot : fds'[s] \in UserFd \cup {NoFd}
    BY <1>5, Numbers DEF TableInv, TableTyped
  <2> QED BY <1>1, <1>6, <2>1, <2>2 DEF TableInv, TableTyped
<1>8. LastSlotClosed' <=> LastSlotClosed
  BY <1>1 DEF LastSlotClosed
<1>9. SelectSeesAll'
  <2> SUFFICES ASSUME ~ LastSlotClosed
               PROVE  /\ fdSet' = Registered' /\ Registered' \cap UserFd \subseteq open'
                      /\ \A g \in Registered' : g <= fdMax'
    BY <1>8, SeesNext
  <2>1. /\ fdSet = Registered /\ Registered \cap UserFd \subseteq open
        /\ \A g \in Registered : g <= fdMax
    BY SeesIs DEF TableInv
  <2>2. \A s \in Slot : s # u => fds[s] # fd
    <3>1. \A s \in UserSlot : s # u => fds[s] # fd
      BY DEF TableInv, Registration
    <3>2. \A s \in Slot \ UserSlot : fds[s] \notin UserFd
      BY Numbers DEF TableInv, TableTyped
    <3> QED BY <1>2, <3>1, <3>2
  <2>3. Registered' = Registered \ {fd}
    <3>1. u \in Slot \ {WriteSlot} /\ fd # NoFd
      BY <1>2, Numbers
    <3>2. {fds'[s] : s \in Slot \ {WriteSlot}} \ {NoFd} = ({fds[s] : s \in Slot \ {WriteSlot}} \ {NoFd}) \ {fd}
      <4>1. \A g : g \in {fds'[s] : s \in Slot \ {WriteSlot}} \ {NoFd} <=>
                     \E s \in Slot \ {WriteSlot} : s # u /\ g = fds[s] /\ g # NoFd
        BY <1>5
      <4>2. \A g : g \in ({fds[s] : s \in Slot \ {WriteSlot}} \ {NoFd}) \ {fd} <=>
                     \E s \in Slot \ {WriteSlot} : s # u /\ g = fds[s] /\ g # NoFd
        BY <2>2
      <4> QED BY <4>1, <4>2
    <3> QED BY <3>2 DEF Registered
  <2>4. \A g \in Registered' : g <= fdMax'
    <3>1. CASE fdMax = fd
      <4>1. \A g \in Registered' : \E i \in Slot \ {u} : g = fds[i]
        <5>1. \A g \in Registered \ {fd} : \E i \in Slot : g = fds[i]
          BY DEF Registered
        <5> QED BY <2>3, <5>1
      <4> QED BY <1>1, <1>4, <3>1, <4>1
    <3>2. CASE fdMax # fd
      BY <1>1, <2>1, <2>3, <3>2
    <3> QED BY <3>1, <3>2
  <2> QED BY <1>1, <2>1, <2>3, <2>4
<1>10. ASSUME ~ LastSlotClosed PROVE Registration' /\ Promised'
  <2>1. Registration /\ Promised
    BY <1>10 DEF TableInv
  <2>2. \A s \in UserSlot : fds'[s] # NoFd => s # u /\ fds'[s] = fds[s] /\ fds[s] # fd
    BY <1>5, <2>1, Numbers DEF Registration
  <2>3. Registration'
    BY <1>1, <2>1, <2>2 DEF Registration
  <2>4. NoFd \notin readFds
    BY Numbers DEF TableInv, TableTyped
  <2>5. Promised'
    BY <1>1, <2>1, <2>2, <2>4 DEF Promised
  <2> QED BY <2>3, <2>5
<1>11. CallbackHasReason'
  BY <1>1, <1>8 DEF TableInv, CallbackHasReason
<1> QED BY <1>7, <1>8, <1>9, <1>10, <1>11 DEF TableInv

LEMMA DeRegisterInv ==
  ASSUME TableInv, NEW s \in UserSlot, radProcessIODeRegisterDescriptor(s)
  PROVE  TableInv'
<1>1. fds[s] # NoFd /\ Freed(s)
  BY DEF radProcessIODeRegisterDescriptor, Freed, endVars
<1> QED BY <1>1, FreedInv

LEMMA DeRegisterByFdInv ==
  ASSUME TableInv, NEW fd \in UserFd, radProcessIODeRegisterDescriptorByFd(fd)
  PROVE  TableInv'
<1> DEFINE found == {s \in Searched : fds[s] = fd}
<1>1. /\ fd \in open /\ Close(fd) /\ UNCHANGED <<loop, slot, readFds, hand>>
      /\ found # {} => Free(Min(found))
      /\ found = {} => UNCHANGED <<fds, fdSet, fdMax, fresh>>
      /\ cause' = cause \cup (IF found = {} THEN {"last slot"} ELSE {})
  BY DEF radProcessIODeRegisterDescriptorByFd
<1>2. CASE found # {}
  <2>1. found \in SUBSET Nat /\ found \in SUBSET UserSlot
    BY Numbers DEF Searched
  <2> DEFINE u == Min(found)
  <2>2. u \in UserSlot /\ fds[u] = fd
    <3>1. \A s \in found : fds[s] = fd
      OBVIOUS
    <3> HIDE DEF found
    <3> QED BY <1>2, <2>1, <3>1, Least
  <2>3. Freed(u) /\ fds[u] # NoFd
    <3> HIDE DEF found
    <3>1. cause' = cause
      BY <1>1, <1>2
    <3>2. fd # NoFd
      BY Numbers
    <3> QED BY <1>1, <1>2, <2>2, <3>1, <3>2 DEF Freed, u
  <2> HIDE DEF u
  <2> QED BY <2>2, <2>3, FreedInv
<1>3. CASE found = {}
  <2>1. /\ LastSlotClosed' /\ UNCHANGED <<loop, slot, readFds, hand, fds, fdSet, fdMax, fresh>>
        /\ open' = open \ {fd} /\ data' = data \ {fd}
    BY <1>1, <1>3 DEF LastSlotClosed, Close
  <2>2. TableTyped'
    BY <2>1 DEF TableInv, TableTyped
  <2>3. SelectSeesAll' /\ CallbackHasReason'
    BY <2>1 DEF SelectSeesAll, CallbackHasReason
  <2> QED BY <2>1, <2>2, <2>3 DEF TableInv
<1> QED BY <1>2, <1>3

(* The table at the start, and in every step. *)
LEMMA TableStart == Init => TableInv
<1> SUFFICES ASSUME Init PROVE TableInv
  OBVIOUS
<1>1. /\ loop = "user" /\ slot = 0 /\ readFds = {} /\ cause = {}
      /\ fds = [s \in Slot |-> IF s \in UserSlot THEN NoFd ELSE OwnFd(s)]
      /\ fdSet = {OwnFd(PipeSlot), OwnFd(QueueSlot)} /\ fdMax = OwnFd(QueueSlot)
      /\ open = {} /\ data = {} /\ fresh = {}
  BY DEF Init, LoopInit
<1>2. fdSet = {1, 3} /\ fdMax = 3
  BY <1>1, Numbers
<1>3. \A s \in UserSlot : fds[s] = NoFd
  BY <1>1, Numbers
<1>4. TableTyped
  <2>1. \A s \in Slot \ UserSlot : fds[s] = OwnFd(s) /\ OwnFd(s) \in NoFd .. MaxFd
    BY <1>1, Numbers
  <2>2. fds \in [Slot -> NoFd .. MaxFd]
    <3>1. \A s \in Slot : fds[s] \in NoFd .. MaxFd
      <4>1. NoFd \in NoFd .. MaxFd
        BY Numbers
      <4> QED BY <1>3, <2>1, <4>1
    <3> QED BY <1>1, <3>1
  <2> QED BY <1>1, <1>2, <1>3, <2>1, <2>2 DEF TableTyped, Waiting
<1>5. SelectSeesAll
  <2>1. Registered = {1, 3}
    <3>1. {fds[s] : s \in UserSlot} \ {NoFd} = {}
      BY <1>3
    <3> QED BY <1>4, <3>1, RegisteredIs
  <2>2. 1 \notin UserFd /\ 3 \notin UserFd
    BY Numbers
  <2> QED BY <1>2, <2>1, <2>2, SeesIs
<1>6. Registration /\ Promised
  <2>1. NoFd \notin readFds
    BY <1>1
  <2> QED BY <1>3, <2>1 DEF Registration, Promised
<1>7. CallbackHasReason
  BY <1>1 DEF CallbackHasReason
<1> QED BY <1>4, <1>5, <1>6, <1>7 DEF TableInv

LEMMA TableNext == ASSUME TableInv, [Next]_vars PROVE TableInv'
<1>1. TableStep
  BY NextIsTableStep DEF TableInv
<1> QED BY <1>1, TableQuietInv, SelectAnswersInv, ScanEndsInv, ioCallbackInv, RegisterInv,
           DeRegisterInv, DeRegisterByFdInv, ArrivesInv DEF TableStep

LEMMA TableInvariant == Spec => []TableInv
BY TableStart, TableNext, PTL DEF Spec

(* radProcessWait: select watches every registered descriptor and no       *)
(* closed one, whatever callbacks open, close and register, as long as     *)
(* nobody closes the descriptor of the last slot by its number.            *)
THEOREM SelectSeesEverything == Spec => []SelectSeesAll
<1>1. TableInv => SelectSeesAll
  BY DEF TableInv
<1> QED BY <1>1, TableInvariant, PTL

(* radProcessWait calls back only for what had something to read, or was   *)
(* registered within the turn: the table may change between the answer of  *)
(* select and the call.                                                    *)
THEOREM CallbacksHaveReason == Spec => []CallbackHasReason
<1>1. TableInv => CallbackHasReason
  BY DEF TableInv
<1> QED BY <1>1, TableInvariant, PTL

-----------------------------------------------------------------------------
(* Why the process ends. *)

(* select fails only for a descriptor that is not open.                    *)
LEMMA FailsWithReason == ASSUME TableInv, SelectFails PROVE cause # {}
<1>1. ~ fdSet \cap UserFd \subseteq open
  BY DEF SelectFails, BadDescriptor
<1>2. LastSlotClosed
  BY <1>1, SeesIs DEF TableInv
<1> QED BY <1>2 DEF LastSlotClosed

LEMMA ExitNext == ASSUME TableInv, ExitInv, [Next]_vars PROVE ExitInv'
<1>1. CASE cause # {}
  <2>1. cause \subseteq cause'
    <3>1. TableStep
      BY NextIsTableStep DEF TableInv
    <3> QED BY <3>1 DEF TableStep, TableQuiet, SelectAnswers, ScanEnds, ioCallback,
              radProcessIORegisterDescriptor, radProcessIODeRegisterDescriptor,
              radProcessIODeRegisterDescriptorByFd, Arrives, endVars
  <2> QED BY <1>1, <2>1 DEF ExitInv
<1>2. CASE cause = {}
  <2>0. exitFlag # TRUE /\ loop # "end" /\ loop # "off"
    BY <1>2 DEF ExitInv
  <2>a. ASSUME exitFlag' = exitFlag, loop' = loop PROVE ExitInv'
    BY <2>0, <2>a DEF ExitInv
  <2>b. ASSUME exitFlag' = exitFlag, loop' \notin {"end", "off"} PROVE ExitInv'
    BY <2>0, <2>b DEF ExitInv
  <2>1. CASE LoopStep \/ SelectTimeout
    <3>1. CASE radProcessWait \/ Interrupted
      BY <2>0, <2>b, <3>1 DEF radProcessWait, Interrupted, Goes, endVars
    <3>2. CASE SelectFails
      BY <1>2, <3>2, FailsWithReason
    <3>3. CASE SelectTimeout \/ SelectAnswers \/ ScanEnds \/ CallbackReturns \/ RoutineReturns
      BY <2>b, <3>3 DEF SelectTimeout, SelectAnswers, ScanEnds, CallbackReturns, RoutineReturns, Goes, endVars
    <3>4. ASSUME NEW s \in UserSlot, ioCallback(s) PROVE ExitInv'
      BY <2>b, <3>4 DEF ioCallback, Calls, Goes, endVars
    <3>5. CASE procPipeReadCB \/ ReceiveEvent \/ ReceiveMessage
      BY <2>b, <3>5 DEF procPipeReadCB, ReceiveEvent, ReceiveMessage, Calls, Goes, endVars
    <3>6. CASE QueueClosed
      BY <3>6 DEF QueueClosed, ExitInv
    <3>7. CASE msgHandler \/ HandlersDone \/ HandlerReturns \/ EventReturns \/ ReleaseMessage
      BY <2>b, <3>7 DEF msgHandler, HandlersDone, HandlerReturns, EventReturns, ReleaseMessage, Goes, endVars
    <3>8. CASE radProcessExit
      BY <2>0, <3>8 DEF radProcessExit, Goes
    <3> QED BY <2>1, <3>1, <3>2, <3>3, <3>4, <3>5, <3>6, <3>7, <3>8 DEF LoopStep
  <2>2. CASE ProgramCall
    <3>1. ASSUME NEW s \in UserSlot, radProcessIODeRegisterDescriptor(s) PROVE ExitInv'
      BY <2>a, <3>1 DEF radProcessIODeRegisterDescriptor, endVars
    <3>2. ASSUME NEW fd \in UserFd, radProcessIODeRegisterDescriptorByFd(fd) PROVE ExitInv'
      BY <2>a, <3>2 DEF radProcessIODeRegisterDescriptorByFd
    <3>3. ASSUME NEW h \in Handler, radProcessQueuePrependHandler(h) \/ radProcessQueueRemoveHandler(h)
          PROVE  ExitInv'
      BY <2>a, <3>3 DEF radProcessQueuePrependHandler, radProcessQueueRemoveHandler, endVars
    <3>4. ASSUME NEW b \in Message, radBufferRls(b) PROVE ExitInv'
      BY <2>a, <3>4 DEF radBufferRls, endVars
    <3>5. CASE \/ radProcessIORegisterDescriptor \/ radProcessQueueKeepBuffer
               \/ radProcessQueueStopHandlerList \/ SetMask
      BY <2>a, <3>5 DEF radProcessIORegisterDescriptor, radProcessQueueKeepBuffer,
                        radProcessQueueStopHandlerList, SetMask, endVars
    <3> QED BY <2>2, <3>1, <3>2, <3>3, <3>4, <3>5 DEF ProgramCall
  <2>3. CASE Others
    <3>1. ASSUME NEW fd \in UserFd, Arrives(fd) PROVE ExitInv'
      BY <2>a, <3>1 DEF Arrives, endVars
    <3>2. CASE Sent \/ WritersGone
      BY <2>a, <3>2 DEF Sent, WritersGone, endVars
    <3>3. CASE radProcessSetExitFlag
      BY <3>3 DEF radProcessSetExitFlag, ExitInv
    <3> QED BY <2>3, <3>1, <3>2, <3>3 DEF Others
  <2>4. CASE TimersMove
    <3>1. CASE AlarmInterrupts
      BY <2>0, <2>b, <3>1 DEF AlarmInterrupts, endVars
    <3>2. CASE UNCHANGED loopVars
      BY <2>a, <3>2 DEF loopVars, endVars
    <3> QED BY <2>4, <3>1, <3>2 DEF TimersMove
  <2>5. CASE UNCHANGED loopVars \/ UNCHANGED vars
    BY <2>a, <2>5 DEF vars, loopVars, endVars
  <2> QED BY <2>1, <2>2, <2>3, <2>4, <2>5 DEF Next
<1> QED BY <1>1, <1>2

(* radProcessWait answers ERROR, and the process ends, only for a reason:  *)
(* a signal handler asked for it, its queue was closed, or a descriptor of *)
(* the last slot was closed by its number, which select then fails on.     *)
THEOREM ExitsHaveReason == Spec => []ExitHasReason
<1>1. Init => ExitInv
  BY DEF Init, LoopInit, ExitInv
<1>2. ExitInv => ExitHasReason
  BY DEF ExitInv, ExitHasReason
<1> QED BY <1>1, <1>2, TableInvariant, ExitNext, PTL DEF Spec

-----------------------------------------------------------------------------
(* The buffers of messages. *)

LEMMA MailIs ==
  /\ BuffersOf(Nothing) = {}
  /\ \A m \in Mail : BuffersOf(m) \subseteq Message /\ \A b : b \in BuffersOf(m) <=> m \in With(b)
  /\ \A m \in Mail : \A b, c \in BuffersOf(m) : b = c
<1>1. BuffersOf(Nothing) = {}
  BY DEF BuffersOf, Nothing
<1>2. BuffersOf([kind |-> "empty"]) = {}
  BY DEF BuffersOf
<1>3. \A k \in {"message", "event"}, b \in Message : BuffersOf([kind |-> k, buffer |-> b]) = {b}
  BY DEF BuffersOf
<1>4. \A m \in Mail : BuffersOf(m) = {} \/ \E b \in Message : BuffersOf(m) = {b}
  BY <1>2, <1>3 DEF Mail
<1> QED BY <1>1, <1>4 DEF With

(* How one buffer is accounted for. *)
Accounted(b) ==
  Count(queue, With(b)) + One(b \in freeBuffers) + One(b \in kept) + One(b \in BuffersOf(hand)) = 1

LEMMA MailInvIs ==
  MailInv <=> /\ loop \in Places
              /\ queue \in Seq(Mail) /\ freeBuffers \in SUBSET Message /\ kept \in SUBSET Message
              /\ HandOK /\ \A b \in Message : Accounted(b)
BY DEF MailInv, Accounted, Places

LEMMA MailInvNext ==
  MailInv' <=> /\ loop' \in Places
               /\ queue' \in Seq(Mail) /\ freeBuffers' \in SUBSET Message /\ kept' \in SUBSET Message
               /\ HandOK' /\ \A b \in Message : Accounted(b)'
BY DEF MailInv, Accounted, Places

LEMMA CountNumbers == ASSUME MailInv PROVE \A b \in Message : Count(queue, With(b)) \in Nat
<1>1. queue \in Seq(Mail)
  BY DEF MailInv
<1> QED BY <1>1, CountType

(* No buffer moves. *)
MailQuiet ==
  /\ UNCHANGED <<queue, freeBuffers, kept>>
  /\ loop' \in Places /\ HandOK' /\ BuffersOf(hand') = BuffersOf(hand)

LEMMA MailQuietInv == ASSUME MailInv, MailQuiet PROVE MailInv'
<1>1. \A b \in Message : Accounted(b)'
  BY MailInvIs DEF MailQuiet, Accounted
<1> QED BY <1>1, MailInvIs, MailInvNext DEF MailQuiet

(* The first message leaves the queue and comes to hand. *)
LEMMA TakenInv ==
  ASSUME MailInv, queue # <<>>, loop \in Waiting, loop' \in Walking,
         hand' = Head(queue), queue' = Tail(queue), UNCHANGED <<freeBuffers, kept>>
  PROVE  MailInv'
<1>1. queue \in Seq(Mail) /\ hand = Nothing
  BY MailInvIs DEF HandOK
<1>2. Head(queue) \in Mail /\ Tail(queue) \in Seq(Mail)
  BY <1>1
<1>3. HandOK' /\ loop' \in Places
  <2>1. \A l \in Walking : l \notin Waiting /\ l \notin {"callback", "routine"}
    BY DEF Waiting, Walking
  <2> QED BY <1>2, <2>1 DEF HandOK, Places
<1>4. ASSUME NEW b \in Message PROVE Accounted(b)'
  <2>1. Count(queue, With(b)) = IF Head(queue) \in With(b) THEN Count(Tail(queue), With(b)) + 1
                                ELSE Count(Tail(queue), With(b))
    BY <1>1, CountTail
  <2>2. Count(Tail(queue), With(b)) \in Nat
    BY <1>2, CountType
  <2>3. b \notin BuffersOf(hand) /\ (b \in BuffersOf(hand') <=> Head(queue) \in With(b))
    BY <1>1, <1>2, MailIs
  <2>4. Accounted(b)
    BY MailInvIs
  <2> QED BY <2>1, <2>2, <2>3, <2>4 DEF Accounted, One
<1> QED BY <1>2, <1>3, <1>4, MailInvIs, MailInvNext

LEMMA SentInv == ASSUME MailInv, Sent PROVE MailInv'
<1>1. queue \in Seq(Mail) /\ UNCHANGED <<loop, hand, kept>>
  BY MailInvIs DEF Sent
<1>2. PICK m \in Mail : /\ queue' = Append(queue, m) /\ BuffersOf(m) \subseteq freeBuffers
                        /\ freeBuffers' = freeBuffers \ BuffersOf(m)
  <2>1. CASE queue' = Append(queue, [kind |-> "empty"]) /\ UNCHANGED freeBuffers
    <3>1. [kind |-> "empty"] \in Mail /\ BuffersOf([kind |-> "empty"]) = {}
      BY DEF Mail, BuffersOf
    <3> QED BY <2>1, <3>1
  <2>2. ASSUME NEW b \in freeBuffers, NEW k \in {"message", "event"},
               queue' = Append(queue, [kind |-> k, buffer |-> b]), freeBuffers' = freeBuffers \ {b}
        PROVE  \E m \in Mail : /\ queue' = Append(queue, m) /\ BuffersOf(m) \subseteq freeBuffers
                               /\ freeBuffers' = freeBuffers \ BuffersOf(m)
    <3>1. b \in Message
      BY MailInvIs
    <3>2. [kind |-> k, buffer |-> b] \in Mail /\ BuffersOf([kind |-> k, buffer |-> b]) = {b}
      BY <3>1 DEF Mail, BuffersOf
    <3> QED BY <2>2, <3>2
  <2> QED BY <2>1, <2>2 DEF Sent
<1>3. HandOK' /\ queue' \in Seq(Mail)
  BY <1>1, <1>2, MailInvIs DEF HandOK
<1>4. ASSUME NEW b \in Message PROVE Accounted(b)'
  <2>1. Count(queue', With(b)) = IF m \in With(b) THEN Count(queue, With(b)) + 1 ELSE Count(queue, With(b))
    BY <1>1, <1>2, CountAppend
  <2>2. Count(queue, With(b)) \in Nat
    BY CountNumbers
  <2>3. m \in With(b) <=> b \in BuffersOf(m)
    BY MailIs
  <2>4. m \in With(b) => b \in freeBuffers /\ b \notin freeBuffers'
    BY <1>2, <2>3
  <2>5. m \notin With(b) => (b \in freeBuffers' <=> b \in freeBuffers)
    BY <1>2, <2>3
  <2>6. Accounted(b)
    BY MailInvIs
  <2> QED BY <1>1, <2>1, <2>2, <2>4, <2>5, <2>6 DEF Accounted, One
<1> QED BY <1>1, <1>2, <1>3, <1>4, MailInvIs, MailInvNext

(* The message at hand goes: its buffer is released, or kept. *)
LEMMA GivenInv ==
  ASSUME MailInv, loop \in Walking, loop' = "scan", hand' = Nothing, UNCHANGED queue,
         \/ freeBuffers' = freeBuffers \cup BuffersOf(hand) /\ UNCHANGED kept
         \/ kept' = kept \cup BuffersOf(hand) /\ UNCHANGED freeBuffers
  PROVE  MailInv'
<1>1. hand \in Mail /\ BuffersOf(hand) \subseteq Message /\ BuffersOf(hand') = {}
  BY MailInvIs, MailIs DEF HandOK
<1>2. HandOK' /\ loop' \in Places
  BY DEF HandOK, Places, Waiting, Walking
<1>3. ASSUME NEW b \in Message PROVE Accounted(b)'
  <2>1. Count(queue, With(b)) \in Nat
    BY CountNumbers
  <2>2. Accounted(b)
    BY MailInvIs
  <2> QED BY <1>1, <2>1, <2>2 DEF Accounted, One
<1> QED BY <1>1, <1>2, <1>3, MailInvIs, MailInvNext

LEMMA BufferRlsInv == ASSUME MailInv, NEW c \in Message, radBufferRls(c) PROVE MailInv'
<1>1. /\ c \in kept /\ kept' = kept \ {c} /\ freeBuffers' = freeBuffers \cup {c}
      /\ UNCHANGED <<loop, hand, queue>>
  BY DEF radBufferRls
<1>2. HandOK'
  BY <1>1, MailInvIs DEF HandOK
<1>3. ASSUME NEW b \in Message PROVE Accounted(b)'
  <2>1. Count(queue, With(b)) \in Nat
    BY CountNumbers
  <2>2. Accounted(b)
    BY MailInvIs
  <2> QED BY <1>1, <2>1, <2>2 DEF Accounted, One
<1> QED BY <1>1, <1>2, <1>3, MailInvIs, MailInvNext

(* The places of the main loop are different. *)
LEMMA PlacesDiffer ==
  /\ Waiting \subseteq Places /\ Walking \subseteq Places /\ {"callback", "routine"} \subseteq Places
  /\ \A l \in Walking : l \notin Waiting /\ l \notin {"callback", "routine"}
  /\ \A l \in {"callback", "routine"} : l \notin Waiting
BY DEF Places, Waiting, Walking

LEMMA LoopMailSteps == ASSUME MailInv, LoopStep \/ SelectTimeout PROVE MailInv'
<1>a. ASSUME UNCHANGED <<queue, freeBuffers, kept, hand>>,
             \/ loop \in Waiting /\ loop' \in Waiting
             \/ loop \in Walking /\ loop' \in Walking
      PROVE  MailInv'
  <2>1. loop' \in Places /\ HandOK'
    BY <1>a, PlacesDiffer, MailInvIs DEF HandOK
  <2> QED BY <1>a, <2>1, MailQuietInv DEF MailQuiet
<1>b. ASSUME UNCHANGED <<queue, freeBuffers, kept>>, loop \in Waiting, loop' \in {"callback", "routine"},
             BuffersOf(hand') = {}
      PROVE  MailInv'
  <2>1. hand = Nothing
    BY <1>b, MailInvIs DEF HandOK
  <2>2. loop' \in Places /\ HandOK'
    BY <1>b, PlacesDiffer DEF HandOK
  <2> QED BY <1>b, <2>1, <2>2, MailIs, MailQuietInv DEF MailQuiet
<1>1. CASE radProcessWait \/ Interrupted \/ SelectFails \/ SelectTimeout \/ radProcessExit
  <2>1. loop \in Waiting /\ loop' \in Waiting /\ UNCHANGED <<queue, freeBuffers, kept, hand>>
    BY <1>1 DEF radProcessWait, Interrupted, SelectFails, SelectTimeout, radProcessExit, Goes, queueVars, Waiting
  <2> QED BY <1>a, <2>1
<1>2. CASE SelectAnswers \/ ScanEnds
  <2>1. loop \in Waiting /\ loop' \in Waiting /\ UNCHANGED <<queue, freeBuffers, kept, hand>>
    BY <1>2 DEF SelectAnswers, ScanEnds, Goes, queueVars, Waiting
  <2> QED BY <1>a, <2>1
<1>3. CASE QueueClosed
  <2>1. loop \in Waiting /\ loop' \in Waiting /\ UNCHANGED <<queue, freeBuffers, kept, hand>>
    BY <1>3 DEF QueueClosed, Calls, Goes, queueVars, Waiting
  <2> QED BY <1>a, <2>1
<1>4. ASSUME NEW s \in UserSlot, ioCallback(s) PROVE MailInv'
  <2>1. /\ loop \in Waiting /\ loop' = "callback" /\ UNCHANGED <<queue, freeBuffers, kept>>
        /\ hand' = [kind |-> "fd", had |-> fds[s] \in data, new |-> s \in fresh]
    BY <1>4 DEF ioCallback, Calls, Goes, queueVars, Waiting
  <2>2. BuffersOf(hand') = {}
    BY <2>1 DEF BuffersOf
  <2> QED BY <1>b, <2>1, <2>2
<1>5. CASE procPipeReadCB
  <2>1. /\ loop \in Waiting /\ loop' = "routine" /\ UNCHANGED <<queue, freeBuffers, kept>>
        /\ hand' = [kind |-> "notify", buffer |-> Head(notify)]
    BY <1>5 DEF procPipeReadCB, Calls, Goes, queueVars, Waiting
  <2>2. BuffersOf(hand') = {}
    BY <2>1 DEF BuffersOf
  <2> QED BY <1>b, <2>1, <2>2
<1>6. CASE ReceiveEvent
  <2>1. /\ queue # <<>> /\ loop \in Waiting /\ loop' \in Walking
        /\ hand' = Head(queue) /\ queue' = Tail(queue) /\ UNCHANGED <<freeBuffers, kept>>
    BY <1>6 DEF ReceiveEvent, Calls, Goes, Waiting, Walking
  <2> QED BY <2>1, TakenInv
<1>7. CASE ReceiveMessage
  <2>1. /\ queue # <<>> /\ loop \in Waiting /\ loop' \in Walking
        /\ hand' = Head(queue) /\ queue' = Tail(queue) /\ UNCHANGED <<freeBuffers, kept>>
    BY <1>7 DEF ReceiveMessage, Calls, Goes, Waiting, Walking
  <2> QED BY <2>1, TakenInv
<1>8. CASE msgHandler \/ HandlersDone \/ EventReturns
  <2>1. loop \in Walking /\ loop' \in Walking /\ UNCHANGED <<queue, freeBuffers, kept, hand>>
    BY <1>8 DEF msgHandler, HandlersDone, EventReturns, Goes, queueVars, Walking
  <2> QED BY <1>a, <2>1
<1>9. CASE HandlerReturns
  <2>1. /\ loop \in Walking /\ UNCHANGED <<queue, freeBuffers>>
        /\ loop' = IF keep THEN "scan" ELSE IF stop THEN "release" ELSE "next"
        /\ kept' = kept \cup (IF keep THEN BuffersOf(hand) ELSE {})
        /\ hand' = IF keep THEN Nothing ELSE hand
    BY <1>9 DEF HandlerReturns, Goes, Walking
  <2>2. CASE keep
    BY <2>1, <2>2, GivenInv
  <2>3. CASE ~ keep
    <3>1. loop' \in Walking /\ UNCHANGED <<kept, hand>>
      BY <2>1, <2>3 DEF Walking
    <3> QED BY <1>a, <2>1, <3>1
  <2> QED BY <2>2, <2>3
<1>10. CASE ReleaseMessage
  <2>1. /\ loop \in Walking /\ loop' = "scan" /\ UNCHANGED <<queue, kept>> /\ hand' = Nothing
        /\ freeBuffers' = freeBuffers \cup BuffersOf(hand)
    BY <1>10 DEF ReleaseMessage, Goes, Walking
  <2> QED BY <2>1, GivenInv
<1>11. CASE CallbackReturns \/ RoutineReturns
  <2>1. /\ loop \in {"callback", "routine"} /\ loop' = "scan" /\ hand' = Nothing
        /\ UNCHANGED <<queue, freeBuffers, kept>>
    BY <1>11 DEF CallbackReturns, RoutineReturns, Goes, queueVars
  <2>2. BuffersOf(hand) = {} /\ BuffersOf(hand') = {}
    BY <2>1, MailIs, MailInvIs DEF HandOK
  <2>3. loop' \in Places /\ HandOK'
    BY <2>1, PlacesDiffer DEF HandOK, Waiting, Walking
  <2> QED BY <2>1, <2>2, <2>3, MailQuietInv DEF MailQuiet
<1> QED BY <1>1, <1>2, <1>3, <1>4, <1>5, <1>6, <1>7, <1>8, <1>9, <1>10, <1>11 DEF LoopStep

LEMMA MailNext == ASSUME MailInv, [Next]_vars PROVE MailInv'
<1>a. ASSUME UNCHANGED <<queue, freeBuffers, kept, hand>>, loop' = loop \/ loop' = "interrupted",
             loop' # loop => loop = "select"
      PROVE  MailInv'
  <2>1. "select" \in Waiting /\ "interrupted" \in Waiting
    BY DEF Waiting
  <2>2. loop' \in Places /\ HandOK'
    BY <1>a, <2>1, PlacesDiffer, MailInvIs DEF HandOK
  <2> QED BY <1>a, <2>2, MailQuietInv DEF MailQuiet
<1>1. CASE LoopStep \/ SelectTimeout
  BY <1>1, LoopMailSteps
<1>2. CASE ProgramCall
  <2>1. ASSUME NEW s \in UserSlot, radProcessIODeRegisterDescriptor(s) PROVE MailInv'
    BY <1>a, <2>1 DEF radProcessIODeRegisterDescriptor, queueVars
  <2>2. ASSUME NEW fd \in UserFd, radProcessIODeRegisterDescriptorByFd(fd) PROVE MailInv'
    BY <1>a, <2>2 DEF radProcessIODeRegisterDescriptorByFd, queueVars
  <2>3. ASSUME NEW h \in Handler, radProcessQueuePrependHandler(h) \/ radProcessQueueRemoveHandler(h)
        PROVE  MailInv'
    BY <1>a, <2>3 DEF radProcessQueuePrependHandler, radProcessQueueRemoveHandler, queueVars
  <2>4. CASE \/ radProcessIORegisterDescriptor \/ radProcessQueueKeepBuffer
             \/ radProcessQueueStopHandlerList \/ SetMask
    BY <1>a, <2>4 DEF radProcessIORegisterDescriptor, radProcessQueueKeepBuffer,
                      radProcessQueueStopHandlerList, SetMask, queueVars
  <2> QED BY <1>2, <2>1, <2>2, <2>3, <2>4, BufferRlsInv DEF ProgramCall
<1>3. CASE Others
  <2>1. ASSUME NEW fd \in UserFd, Arrives(fd) PROVE MailInv'
    BY <1>a, <2>1 DEF Arrives, queueVars
  <2>2. CASE WritersGone
    BY <1>a, <2>2 DEF WritersGone
  <2>3. CASE radProcessSetExitFlag
    BY <1>a, <2>3 DEF radProcessSetExitFlag, queueVars
  <2> QED BY <1>3, <2>1, <2>2, <2>3, SentInv DEF Others
<1>4. CASE TimersMove
  <2>1. CASE AlarmInterrupts
    BY <1>a, <2>1 DEF AlarmInterrupts, queueVars
  <2>2. CASE UNCHANGED loopVars
    BY <1>a, <2>2 DEF loopVars, queueVars
  <2> QED BY <1>4, <2>1, <2>2 DEF TimersMove
<1>5. CASE UNCHANGED loopVars \/ UNCHANGED vars
  BY <1>a, <1>5 DEF vars, loopVars, queueVars
<1> QED BY <1>1, <1>2, <1>3, <1>4, <1>5 DEF Next

LEMMA MailStart == Init => MailInv
<1> SUFFICES ASSUME Init PROVE MailInv
  OBVIOUS
<1>1. loop = "user" /\ hand = Nothing /\ queue = <<>> /\ freeBuffers = Message /\ kept = {}
  BY DEF Init, LoopInit
<1>2. queue \in Seq(Mail) /\ \A b \in Message : Count(queue, With(b)) = 0
  <2>1. queue \in Seq(Mail) /\ DOMAIN queue = {}
    BY <1>1
  <2> QED BY <2>1, CountType
<1>3. HandOK /\ loop \in Places
  BY <1>1 DEF HandOK, Places, Waiting, Walking
<1>4. \A b \in Message : Accounted(b)
  BY <1>1, <1>2, MailIs DEF Accounted, One
<1> QED BY <1>1, <1>2, <1>3, <1>4, MailInvIs

LEMMA OneIs == ASSUME NEW P, NEW x PROVE Cardinality({S \in {x} : P}) = One(P)
<1>1. CASE P
  <2>1. {S \in {x} : P} = {x}
    BY <1>1
  <2> QED BY <1>1, <2>1, FS_Singleton DEF One
<1>2. CASE ~ P
  <2>1. {S \in {x} : P} = {}
    BY <1>2
  <2> QED BY <1>2, <2>1, FS_EmptySet DEF One
<1> QED BY <1>1, <1>2

(* procQueueReadCB: whatever handlers do with a message, its buffer is     *)
(* neither lost nor released twice.                                        *)
THEOREM BuffersKept == Spec => []BuffersAccounted
<1>1. MailInv => BuffersAccounted
  <2> SUFFICES ASSUME MailInv, NEW b \in Message
               PROVE  Cardinality({k \in DOMAIN queue : b \in BuffersOf(queue[k])})
                        + (Cardinality({S \in {1} : b \in freeBuffers}) + Cardinality({S \in {2} : b \in kept})
                           + Cardinality({S \in {3} : b \in BuffersOf(hand)})) = 1
    BY DEF BuffersAccounted
  <2>1. queue \in Seq(Mail)
    BY MailInvIs
  <2>2. {k \in DOMAIN queue : b \in BuffersOf(queue[k])} = PositionsIn(queue, With(b))
    <3>1. \A k \in DOMAIN queue : queue[k] \in Mail
      BY <2>1
    <3> QED BY <3>1, MailIs DEF PositionsIn
  <2>3. Cardinality({k \in DOMAIN queue : b \in BuffersOf(queue[k])}) = Count(queue, With(b))
    BY <2>2 DEF Count
  <2>4. Accounted(b) /\ Count(queue, With(b)) \in Nat
    BY MailInvIs, CountNumbers
  <2>5. /\ Cardinality({S \in {1} : b \in freeBuffers}) = One(b \in freeBuffers)
        /\ Cardinality({S \in {2} : b \in kept}) = One(b \in kept)
        /\ Cardinality({S \in {3} : b \in BuffersOf(hand)}) = One(b \in BuffersOf(hand))
    BY OneIs
  <2> QED BY <2>3, <2>4, <2>5 DEF Accounted, One
<1> QED BY <1>1, MailStart, MailNext, PTL DEF Spec

-----------------------------------------------------------------------------
(* The walk over the handlers. *)

WalkTyped ==
  /\ chain \in Seq(Handler) /\ stale \in [Handler -> Handler \cup {End}]
  /\ owed \subseteq ToSet(chain)

LEMMA WalkIs ==
  ASSUME WalkInv
  PROVE  WalkTyped /\ \E at \in [Handler -> Int], low \in Int : Order(at, low) /\ PointersLead(at) /\ Ahead(at)
BY DEF WalkInv, WalkTyped

LEMMA WalkNow ==
  ASSUME WalkTyped', NEW at \in [Handler -> Int], NEW low \in Int,
         Order(at, low)', PointersLead(at)', Ahead(at)'
  PROVE  WalkInv'
BY DEF WalkInv, WalkTyped

LEMMA KnownIs == ASSUME WalkTyped PROVE ToSet(chain) \subseteq Known /\ Known \subseteq Handler
BY DEF WalkTyped, Known, ToSet

(* The next handler, of one that is on the list or was, is the first that  *)
(* is behind it.                                                           *)
LEMMA SuccessorLeads ==
  ASSUME WalkTyped, NEW at \in [Handler -> Int], NEW low \in Int, Order(at, low), PointersLead(at),
         NEW h \in Known
  PROVE  Leads(h, Successor(h), at)
<1>1. CASE h \notin ToSet(chain)
  BY <1>1 DEF Successor, PointersLead
<1>2. CASE h \in ToSet(chain)
  <2> DEFINE k == CHOOSE i \in DOMAIN chain : chain[i] = h
  <2>1. DOMAIN chain = 1 .. Len(chain) /\ Len(chain) \in Nat /\ \A i \in DOMAIN chain : chain[i] \in Handler
    BY DEF WalkTyped
  <2>2. k \in DOMAIN chain /\ chain[k] = h
    BY <1>2 DEF ToSet
  <2>3. Successor(h) = IF k = Len(chain) THEN End ELSE chain[k + 1]
    BY <1>2 DEF Successor
  <2> HIDE DEF k
  <2>4. \A x \in ToSet(chain) : \E j \in 1 .. Len(chain) : x = chain[j]
    BY <2>1 DEF ToSet
  <2>5. \A i, j \in 1 .. Len(chain) : i < j => at[chain[i]] < at[chain[j]]
    BY DEF Order
  <2>6. \A i, j \in 1 .. Len(chain) : i <= j => at[chain[i]] <= at[chain[j]]
    <3> SUFFICES ASSUME NEW i \in 1 .. Len(chain), NEW j \in 1 .. Len(chain), i <= j
                 PROVE  at[chain[i]] <= at[chain[j]]
      OBVIOUS
    <3>1. at[chain[i]] \in Int /\ at[chain[j]] \in Int
      BY <2>1
    <3>2. i = j \/ i < j
      BY <2>1
    <3> QED BY <2>5, <3>1, <3>2
  <2>7. CASE k = Len(chain)
    <3>1. \A j \in 1 .. Len(chain) : j <= k
      BY <2>1, <2>7
    <3>2. \A x \in ToSet(chain) : at[x] <= at[h]
      BY <2>1, <2>2, <2>4, <2>6, <3>1
    <3> QED BY <2>3, <2>7, <3>2 DEF Leads
  <2>8. CASE k # Len(chain)
    <3>1. k + 1 \in 1 .. Len(chain) /\ k < k + 1 /\ k \in Int
      BY <2>1, <2>2, <2>8
    <3> DEFINE to == chain[k + 1]
    <3>2. to \in ToSet(chain) /\ at[h] < at[to] /\ to \in Handler
      BY <2>1, <2>2, <2>5, <3>1 DEF ToSet
    <3>3. ASSUME NEW x \in ToSet(chain) PROVE ~ (at[h] < at[x] /\ at[x] < at[to])
      <4>1. PICK j \in 1 .. Len(chain) : x = chain[j]
        BY <2>4
      <4>2. j <= k \/ k + 1 <= j
        BY <2>1, <2>2
      <4>3. at[x] <= at[h] \/ at[to] <= at[x]
        BY <2>1, <2>2, <2>6, <3>1, <4>1, <4>2
      <4>4. at[x] \in Int /\ at[h] \in Int /\ at[to] \in Int
        BY <2>1, <2>2, <3>2, <4>1
      <4> HIDE DEF to
      <4> QED BY <4>3, <4>4
    <3>4. to # End /\ to \in Known
      BY <3>2, KnownIs, LoopAssumption
    <3>5. Successor(h) = to
      BY <2>3, <2>8
    <3> HIDE DEF to
    <3> QED BY <3>2, <3>3, <3>4, <3>5 DEF Leads
  <2> QED BY <2>7, <2>8
<1> QED BY <1>1, <1>2

(* The list stays, and the walk does not move. *)
WalkQuiet ==
  /\ UNCHANGED <<chain, stale, node, owed>>
  /\ loop' = "next" => loop = "next"
  /\ loop' = "handler" => loop = "handler"

LEMMA WalkQuietInv == ASSUME WalkInv, WalkQuiet PROVE WalkInv'
<1>1. WalkTyped'
  BY WalkIs DEF WalkTyped, WalkQuiet
<1>2. PICK at \in [Handler -> Int], low \in Int : Order(at, low) /\ PointersLead(at) /\ Ahead(at)
  BY WalkIs
<1>3. UNCHANGED <<chain, stale, Known>>
  BY DEF WalkQuiet, Known
<1>4. Order(at, low)' /\ PointersLead(at)'
  BY <1>2, <1>3 DEF Order, PointersLead, Leads
<1>5. Ahead(at)'
  BY <1>2, <1>3 DEF Ahead, WalkQuiet
<1> QED BY <1>1, <1>2, <1>4, <1>5, WalkNow

LEMMA ReceiveMessageWalk == ASSUME WalkInv, ReceiveMessage PROVE WalkInv'
<1>1. /\ UNCHANGED <<chain, stale>> /\ owed' = ToSet(chain) /\ loop' = "next"
      /\ node' = IF chain = <<>> THEN End ELSE Head(chain)
  BY DEF ReceiveMessage, Calls, Goes
<1>2. WalkTyped'
  BY <1>1, WalkIs DEF WalkTyped
<1>3. PICK at \in [Handler -> Int], low \in Int : Order(at, low) /\ PointersLead(at) /\ Ahead(at)
  BY WalkIs
<1>4. UNCHANGED Known
  BY <1>1 DEF Known
<1>5. Order(at, low)' /\ PointersLead(at)'
  BY <1>1, <1>3, <1>4 DEF Order, PointersLead, Leads
<1>6. Ahead(at)'
  <2>1. chain \in Seq(Handler)
    BY WalkIs DEF WalkTyped
  <2>2. CASE chain = <<>>
    <3>1. node' = End /\ owed' = {}
      BY <1>1, <2>2 DEF ToSet
    <3> QED BY <1>1, <3>1 DEF Ahead
  <2>3. CASE chain # <<>>
    <3>1. /\ node' = chain[1] /\ 1 \in 1 .. Len(chain) /\ Len(chain) \in Nat /\ DOMAIN chain = 1 .. Len(chain)
          /\ \A j \in 1 .. Len(chain) : chain[j] \in Handler
      BY <1>1, <2>1, <2>3
    <3>2. chain[1] \in ToSet(chain) /\ chain[1] \in Known /\ chain[1] # End
      BY <3>1, WalkIs, KnownIs, LoopAssumption DEF ToSet
    <3>3. ASSUME NEW x \in ToSet(chain) PROVE at[chain[1]] <= at[x]
      <4>1. PICK j \in 1 .. Len(chain) : x = chain[j]
        BY <3>1 DEF ToSet
      <4>2. j = 1 \/ 1 < j
        OBVIOUS
      <4>3. at[chain[1]] \in Int /\ at[x] \in Int
        BY <3>1, <4>1
      <4> QED BY <1>3, <3>1, <4>1, <4>2, <4>3 DEF Order
    <3> QED BY <1>1, <1>4, <3>1, <3>2, <3>3 DEF Ahead
  <2> QED BY <2>2, <2>3
<1> QED BY <1>2, <1>3, <1>5, <1>6, WalkNow

LEMMA msgHandlerWalk == ASSUME WalkInv, msgHandler PROVE WalkInv'
<1>1. /\ UNCHANGED <<chain, stale, node>> /\ owed' = owed \ {node} /\ node # End
      /\ loop = "next" /\ loop' = "handler"
  BY DEF msgHandler, Goes
<1>2. WalkTyped'
  BY <1>1, WalkIs DEF WalkTyped
<1>3. PICK at \in [Handler -> Int], low \in Int : Order(at, low) /\ PointersLead(at) /\ Ahead(at)
  BY WalkIs
<1>4. UNCHANGED Known
  BY <1>1 DEF Known
<1>5. Order(at, low)' /\ PointersLead(at)'
  BY <1>1, <1>3, <1>4 DEF Order, PointersLead, Leads
<1>6. node \in Known /\ \A x \in owed : at[node] <= at[x]
  BY <1>1, <1>3 DEF Ahead
<1>7. ASSUME NEW x \in owed' PROVE at[node] < at[x]
  <2>1. x \in owed /\ x # node /\ x \in Known
    BY <1>1, WalkIs, KnownIs DEF WalkTyped
  <2>2. at[x] # at[node]
    BY <1>3, <1>6, <2>1 DEF Order
  <2>3. at[x] \in Int /\ at[node] \in Int
    BY <1>6, <2>1, WalkIs, KnownIs
  <2> QED BY <1>6, <2>1, <2>2, <2>3
<1>8. Ahead(at)'
  BY <1>1, <1>4, <1>6, <1>7 DEF Ahead
<1> QED BY <1>2, <1>3, <1>5, <1>8, WalkNow

LEMMA HandlerReturnsWalk == ASSUME WalkInv, HandlerReturns PROVE WalkInv'
<1>1. /\ UNCHANGED <<chain, stale, owed>> /\ node' = Successor(node)
      /\ loop = "handler" /\ loop' # "handler"
  BY DEF HandlerReturns, Goes
<1>2. WalkTyped'
  BY <1>1, WalkIs DEF WalkTyped
<1>3. PICK at \in [Handler -> Int], low \in Int : Order(at, low) /\ PointersLead(at) /\ Ahead(at)
  BY WalkIs
<1>4. UNCHANGED Known
  BY <1>1 DEF Known
<1>5. Order(at, low)' /\ PointersLead(at)'
  BY <1>1, <1>3, <1>4 DEF Order, PointersLead, Leads
<1>6. node \in Known /\ \A x \in owed : at[node] < at[x]
  BY <1>1, <1>3 DEF Ahead
<1>7. Leads(node, node', at)
  BY <1>1, <1>3, <1>6, WalkIs, SuccessorLeads
<1>8. ASSUME NEW x \in owed PROVE x \in ToSet(chain) /\ at[x] \in Int /\ at[node] \in Int
  BY <1>6, WalkIs, KnownIs DEF WalkTyped
<1>9. CASE node' = End
  <2>1. owed' = {}
    <3>1. \A x \in owed : at[x] <= at[node]
      BY <1>7, <1>8, <1>9 DEF Leads
    <3>2. \A x \in owed : FALSE
      BY <1>6, <1>8, <3>1
    <3> QED BY <1>1, <3>2
  <2> QED BY <1>1, <1>2, <1>3, <1>5, <1>9, <2>1, WalkNow DEF Ahead
<1>10. CASE node' # End
  <2>1. node' \in Known /\ at[node'] \in Int
    BY <1>7, <1>10, WalkIs, KnownIs DEF Leads
  <2>2. \A x \in owed : ~ (at[node] < at[x] /\ at[x] < at[node'])
    BY <1>7, <1>8, <1>10 DEF Leads
  <2>3. \A x \in owed : at[node'] <= at[x]
    BY <1>6, <1>8, <2>1, <2>2
  <2>4. Ahead(at)'
    BY <1>1, <1>4, <1>10, <2>1, <2>3 DEF Ahead
  <2> QED BY <1>2, <1>3, <1>5, <2>4, WalkNow
<1> QED BY <1>9, <1>10

(* A new handler comes to the front of the list, and of the order.         *)
LEMMA PrependWalk ==
  ASSUME WalkInv, NEW h \in Handler, radProcessQueuePrependHandler(h)
  PROVE  WalkInv'
<1>1. /\ h \notin ToSet(chain) /\ stale[h] = h /\ chain' = <<h>> \o chain
      /\ UNCHANGED <<stale, node, owed, loop>> /\ loop # "next"
  BY DEF radProcessQueuePrependHandler, Program
<1>2. PICK at \in [Handler -> Int], low \in Int : Order(at, low) /\ PointersLead(at) /\ Ahead(at)
  BY WalkIs
<1>3. /\ chain \in Seq(Handler) /\ Len(chain) \in Nat /\ DOMAIN chain = 1 .. Len(chain)
      /\ \A j \in 1 .. Len(chain) : chain[j] \in Handler
  BY WalkIs DEF WalkTyped
<1>4. /\ chain' \in Seq(Handler) /\ Len(chain') = Len(chain) + 1 /\ DOMAIN chain' = 1 .. Len(chain) + 1
      /\ chain'[1] = h /\ \A j \in 2 .. Len(chain) + 1 : chain'[j] = chain[j - 1]
  BY <1>1, <1>3
<1>5. ToSet(chain') = ToSet(chain) \cup {h}
  <2>1. \A x \in ToSet(chain') : x \in ToSet(chain) \cup {h}
    <3> SUFFICES ASSUME NEW j \in 1 .. Len(chain) + 1 PROVE chain'[j] \in ToSet(chain) \cup {h}
      BY <1>4 DEF ToSet
    <3>1. j = 1 \/ (j \in 2 .. Len(chain) + 1 /\ j - 1 \in 1 .. Len(chain))
      BY <1>3
    <3> QED BY <1>3, <1>4, <3>1 DEF ToSet
  <2>2. ASSUME NEW j \in 1 .. Len(chain) PROVE chain[j] \in ToSet(chain')
    <3>1. j + 1 \in 2 .. Len(chain) + 1 /\ j + 1 \in 1 .. Len(chain) + 1 /\ (j + 1) - 1 = j
      BY <1>3
    <3>2. chain'[j + 1] = chain[j]
      BY <1>4, <3>1
    <3> QED BY <1>4, <3>1, <3>2 DEF ToSet
  <2>3. \A x \in ToSet(chain) : x \in ToSet(chain')
    BY <1>3, <2>2 DEF ToSet
  <2>4. h \in ToSet(chain')
    BY <1>3, <1>4 DEF ToSet
  <2> QED BY <2>1, <2>3, <2>4
<1>6. WalkTyped'
  BY <1>1, <1>4, <1>5, WalkIs DEF WalkTyped
<1>7. Known' = Known \cup {h} /\ h \notin Known /\ Known \subseteq Handler
  BY <1>1, <1>5, WalkIs, KnownIs DEF Known
<1> DEFINE new == [at EXCEPT ![h] = low]
<1>8. new \in [Handler -> Int] /\ new[h] = low /\ \A x \in Known : new[x] = at[x] /\ x # h
  BY <1>2, <1>7
<1> HIDE DEF new
<1>9. \A x \in Known : low < at[x] /\ at[x] \in Int
  BY <1>2, <1>7 DEF Order
<1>10. ToSet(chain) \subseteq Known
  BY WalkIs, KnownIs
<1>11. Order(new, low - 1)'
  <2>1. \A x \in Known' : low - 1 < new[x]
    BY <1>2, <1>7, <1>8, <1>9
  <2>2. \A g, x \in Known' : new[g] = new[x] => g = x
    <3>1. \A g, x \in Known : new[g] = new[x] => g = x
      BY <1>2, <1>8 DEF Order
    <3>2. \A x \in Known : new[h] # new[x]
      BY <1>2, <1>8, <1>9
    <3> QED BY <1>7, <3>1, <3>2
  <2>3. ASSUME NEW i \in 1 .. Len(chain'), NEW j \in 1 .. Len(chain'), i < j
        PROVE  new[chain'[i]] < new[chain'[j]]
    <3>1. j \in 2 .. Len(chain) + 1 /\ j - 1 \in 1 .. Len(chain)
      BY <1>3, <1>4, <2>3
    <3>2. chain'[j] = chain[j - 1] /\ chain[j - 1] \in Known
      BY <1>3, <1>4, <1>10, <3>1 DEF ToSet
    <3>3. CASE i = 1
      BY <1>4, <1>8, <1>9, <3>2, <3>3
    <3>4. CASE i # 1
      <4>1. i \in 2 .. Len(chain) + 1 /\ i - 1 \in 1 .. Len(chain) /\ i - 1 < j - 1
        BY <1>3, <1>4, <2>3, <3>4
      <4>2. chain'[i] = chain[i - 1] /\ chain[i - 1] \in Known
        BY <1>3, <1>4, <1>10, <4>1 DEF ToSet
      <4>3. at[chain[i - 1]] < at[chain[j - 1]]
        BY <1>2, <3>1, <4>1 DEF Order
      <4> QED BY <1>8, <3>2, <4>2, <4>3
    <3> QED BY <3>3, <3>4
  <2> QED BY <2>1, <2>2, <2>3 DEF Order
<1>12. PointersLead(new)'
  <2> SUFFICES ASSUME NEW g \in Known' \ ToSet(chain') PROVE Leads(g, stale[g], new)'
    BY DEF PointersLead
  <2>1. g \in Known \ ToSet(chain) /\ stale'[g] = stale[g] /\ new[g] = at[g] /\ low < at[g] /\ at[g] \in Int
    BY <1>1, <1>5, <1>7, <1>8, <1>9
  <2>2. Leads(g, stale[g], at)
    BY <1>2, <2>1 DEF PointersLead
  <2>3. CASE stale[g] = End
    BY <1>2, <1>5, <1>8, <1>10, <2>1, <2>2, <2>3 DEF Leads
  <2>4. CASE stale[g] # End
    <3>1. stale[g] \in Known /\ at[g] < at[stale[g]]
      BY <2>2, <2>4 DEF Leads
    <3>2. ~ (new[g] < new[h])
      BY <1>2, <1>8, <2>1
    <3>3. \A x \in ToSet(chain) : ~ (new[g] < new[x] /\ new[x] < new[stale[g]])
      BY <1>8, <1>10, <2>1, <2>2, <2>4, <3>1 DEF Leads
    <3> QED BY <1>5, <1>7, <1>8, <2>1, <2>4, <3>1, <3>2, <3>3 DEF Leads
  <2> QED BY <2>3, <2>4
<1>13. Ahead(new)'
  <2>1. \A x \in owed : x \in Known
    BY <1>10, WalkIs DEF WalkTyped
  <2> QED BY <1>1, <1>2, <1>7, <1>8, <2>1 DEF Ahead
<1>14. low - 1 \in Int
  BY <1>2
<1> QED BY <1>6, <1>8, <1>11, <1>12, <1>13, <1>14, WalkNow

(* A handler leaves the list: its pointer stays, as the list had it.       *)
LEMMA RemoveWalk ==
  ASSUME WalkInv, NEW h \in Handler, radProcessQueueRemoveHandler(h)
  PROVE  WalkInv'
<1>1. /\ h \in ToSet(chain) /\ stale' = [stale EXCEPT ![h] = Successor(h)]
      /\ chain' = Without(chain, h) /\ owed' = owed \ {h}
      /\ UNCHANGED <<node, loop>> /\ loop # "next"
  BY DEF radProcessQueueRemoveHandler, Program
<1>2. PICK at \in [Handler -> Int], low \in Int : Order(at, low) /\ PointersLead(at) /\ Ahead(at)
  BY WalkIs
<1>3. chain \in Seq(Handler) /\ stale \in [Handler -> Handler \cup {End}] /\ owed \subseteq ToSet(chain)
  BY WalkIs DEF WalkTyped
<1>4. chain' \in Seq(Handler) /\ ToSet(chain') = ToSet(chain) \ {h}
  BY <1>1, <1>3, OnceWithout
<1>5. ToSet(chain) \subseteq Known /\ Known \subseteq Handler /\ h \in Known
  BY <1>1, WalkIs, KnownIs
<1>6. Leads(h, Successor(h), at)
  BY <1>2, <1>5, WalkIs, SuccessorLeads
<1>7. Successor(h) \in Handler \cup {End} /\ Successor(h) # h
  <2>1. CASE Successor(h) = End
    BY <2>1, LoopAssumption
  <2>2. CASE Successor(h) # End
    <3>1. Successor(h) \in Known /\ at[h] < at[Successor(h)]
      BY <1>6, <2>2 DEF Leads
    <3>2. at[h] \in Int
      BY <1>2
    <3>3. Successor(h) # h
      BY <3>1, <3>2
    <3> QED BY <1>5, <3>1, <3>3
  <2> QED BY <2>1, <2>2
<1>8. WalkTyped'
  BY <1>1, <1>3, <1>4, <1>7 DEF WalkTyped
<1>9. stale'[h] = Successor(h) /\ \A g \in Handler : g # h => stale'[g] = stale[g]
  BY <1>1, <1>3
<1>10. Known' = Known
  BY <1>4, <1>5, <1>7, <1>9 DEF Known
<1>11. Order(at, low)'
  <2> DEFINE S == {k \in DOMAIN chain : chain[k] # h}
  <2>1. S \in SUBSET (1 .. Len(chain)) /\ chain' = AtPositions(chain, S)
    BY <1>1, <1>3 DEF Without
  <2> HIDE DEF S
  <2>2. /\ Len(chain') = Cardinality(S) /\ Cardinality(S) \in 0 .. Len(chain)
        /\ \A j \in 1 .. Cardinality(S) : chain'[j] = chain[Position(S, j)] /\ Position(S, j) \in S
        /\ \A i, j \in 1 .. Cardinality(S) : i < j => Position(S, i) < Position(S, j)
    BY <1>3, <2>1, Selected
  <2>3. ASSUME NEW i \in 1 .. Len(chain'), NEW j \in 1 .. Len(chain'), i < j
        PROVE  at[chain'[i]] < at[chain'[j]]
    <3>1. i \in 1 .. Cardinality(S) /\ j \in 1 .. Cardinality(S)
      BY <2>2
    <3>2. /\ Position(S, i) \in 1 .. Len(chain) /\ Position(S, j) \in 1 .. Len(chain)
          /\ Position(S, i) < Position(S, j)
          /\ chain'[i] = chain[Position(S, i)] /\ chain'[j] = chain[Position(S, j)]
      BY <2>1, <2>2, <2>3, <3>1
    <3> QED BY <1>2, <3>2 DEF Order
  <2> QED BY <1>2, <1>10, <2>3 DEF Order
<1>12. PointersLead(at)'
  <2> SUFFICES ASSUME NEW g \in Known' \ ToSet(chain') PROVE Leads(g, stale[g], at)'
    BY DEF PointersLead
  <2>1. Leads(g, stale'[g], at)
    <3>1. CASE g = h
      BY <1>6, <1>9, <3>1
    <3>2. CASE g # h
      BY <1>2, <1>4, <1>5, <1>9, <1>10, <3>2 DEF PointersLead
    <3> QED BY <3>1, <3>2
  <2> QED BY <1>4, <1>10, <2>1 DEF Leads
<1>13. Ahead(at)'
  BY <1>1, <1>2, <1>10 DEF Ahead
<1> QED BY <1>2, <1>8, <1>11, <1>12, <1>13, WalkNow

LEMMA WalkNext == ASSUME WalkInv, [Next]_vars PROVE WalkInv'
<1>a. ASSUME UNCHANGED <<chain, stale, node, owed>>, loop' = loop \/ loop' \notin {"next", "handler"}
      PROVE  WalkInv'
  BY <1>a, WalkQuietInv DEF WalkQuiet
<1>1. CASE LoopStep \/ SelectTimeout
  <2>1. CASE radProcessWait \/ Interrupted \/ SelectFails \/ SelectTimeout \/ radProcessExit
    BY <1>a, <2>1 DEF radProcessWait, Interrupted, SelectFails, SelectTimeout, radProcessExit, Goes, handlerVars
  <2>2. CASE SelectAnswers \/ ScanEnds \/ CallbackReturns \/ RoutineReturns
    BY <1>a, <2>2 DEF SelectAnswers, ScanEnds, CallbackReturns, RoutineReturns, Goes, handlerVars
  <2>3. CASE QueueClosed \/ procPipeReadCB \/ ReceiveEvent
    BY <1>a, <2>3 DEF QueueClosed, procPipeReadCB, ReceiveEvent, Calls, Goes, handlerVars
  <2>4. ASSUME NEW s \in UserSlot, ioCallback(s) PROVE WalkInv'
    BY <1>a, <2>4 DEF ioCallback, Calls, Goes, handlerVars
  <2>5. CASE HandlersDone \/ EventReturns \/ ReleaseMessage
    BY <1>a, <2>5 DEF HandlersDone, EventReturns, ReleaseMessage, Goes, handlerVars
  <2> QED BY <1>1, <2>1, <2>2, <2>3, <2>4, <2>5, ReceiveMessageWalk, msgHandlerWalk, HandlerReturnsWalk
          DEF LoopStep
<1>2. CASE ProgramCall
  <2>1. ASSUME NEW s \in UserSlot, radProcessIODeRegisterDescriptor(s) PROVE WalkInv'
    BY <1>a, <2>1 DEF radProcessIODeRegisterDescriptor, handlerVars
  <2>2. ASSUME NEW fd \in UserFd, radProcessIODeRegisterDescriptorByFd(fd) PROVE WalkInv'
    BY <1>a, <2>2 DEF radProcessIODeRegisterDescriptorByFd, handlerVars
  <2>3. ASSUME NEW b \in Message, radBufferRls(b) PROVE WalkInv'
    BY <1>a, <2>3 DEF radBufferRls, handlerVars
  <2>4. CASE \/ radProcessIORegisterDescriptor \/ radProcessQueueKeepBuffer
             \/ radProcessQueueStopHandlerList \/ SetMask
    BY <1>a, <2>4 DEF radProcessIORegisterDescriptor, radProcessQueueKeepBuffer,
                      radProcessQueueStopHandlerList, SetMask, handlerVars
  <2> QED BY <1>2, <2>1, <2>2, <2>3, <2>4, PrependWalk, RemoveWalk DEF ProgramCall
<1>3. CASE Others
  <2>1. ASSUME NEW fd \in UserFd, Arrives(fd) PROVE WalkInv'
    BY <1>a, <2>1 DEF Arrives, handlerVars
  <2>2. CASE Sent \/ WritersGone \/ radProcessSetExitFlag
    BY <1>a, <2>2 DEF Sent, WritersGone, radProcessSetExitFlag, handlerVars
  <2> QED BY <1>3, <2>1, <2>2 DEF Others
<1>4. CASE TimersMove
  <2>1. CASE AlarmInterrupts
    BY <1>a, <2>1 DEF AlarmInterrupts, handlerVars
  <2>2. CASE UNCHANGED loopVars
    BY <1>a, <2>2 DEF loopVars, handlerVars
  <2> QED BY <1>4, <2>1, <2>2 DEF TimersMove
<1>5. CASE UNCHANGED loopVars \/ UNCHANGED vars
  BY <1>a, <1>5 DEF vars, loopVars, handlerVars
<1> QED BY <1>1, <1>2, <1>3, <1>4, <1>5 DEF Next

LEMMA WalkStart == Init => WalkInv
<1> SUFFICES ASSUME Init PROVE WalkInv
  OBVIOUS
<1>1. /\ loop = "user" /\ chain = <<Default>> /\ stale = [h \in Handler |-> h] /\ owed = {}
      /\ Default \in Handler
  BY LoopAssumption DEF Init, LoopInit, Default
<1>2. chain \in Seq(Handler) /\ Len(chain) = 1 /\ ToSet(chain) = {Default}
  BY <1>1 DEF ToSet
<1>3. Known = {Default}
  BY <1>1, <1>2 DEF Known
<1> DEFINE at == [h \in Handler |-> 1]
<1>4. at \in [Handler -> Int] /\ 0 \in Int /\ \A h \in Handler : at[h] = 1
  OBVIOUS
<1> HIDE DEF at
<1>5. Order(at, 0)
  <2>1. \A i, j \in 1 .. Len(chain) : ~ i < j
    BY <1>2
  <2> QED BY <1>1, <1>3, <1>4, <2>1 DEF Order
<1>6. PointersLead(at) /\ Ahead(at)
  BY <1>1, <1>2, <1>3 DEF PointersLead, Ahead
<1> QED BY <1>1, <1>2, <1>4, <1>5, <1>6 DEF WalkInv

(* procQueueReadCB, radProcessQueueRemoveHandler: the walk over the        *)
(* handlers reaches everyone who was on the list all the time, though      *)
(* handlers take themselves and others off it and put new ones on.         *)
THEOREM HandlersAreServed == Spec => []HandlersServed
<1>1. WalkInv => HandlersServed
  BY DEF WalkInv, Ahead, HandlersServed
<1> QED BY <1>1, WalkStart, WalkNext, PTL DEF Spec

=============================================================================
