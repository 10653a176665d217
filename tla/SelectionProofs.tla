-------------------------- MODULE SelectionProofs --------------------------
(***************************************************************************)
(* Facts about the elements of a sequence at some positions, for sequences *)
(* of any length.                                                          *)
(***************************************************************************)
EXTENDS Selection, Sequences, SequenceTheorems, FiniteSetTheorems, FunctionTheorems, TLAPS

(* A position is found by counting: the positions of a finite set are      *)
(* numbered one after the other, and each has a number.                    *)
LEMMA Positions ==
  ASSUME NEW n \in Nat, NEW S \in SUBSET (1 .. n)
  PROVE  /\ IsFiniteSet(S) /\ Cardinality(S) \in 0 .. n
         /\ \A j \in 1 .. Cardinality(S) : Position(S, j) \in S
         /\ \A i, j \in 1 .. Cardinality(S) : i < j => Position(S, i) < Position(S, j)
         /\ \A k \in S : \E j \in 1 .. Cardinality(S) : Position(S, j) = k
<1> DEFINE Front(k) == {i \in S : i <= k}
           N == Cardinality(S)
           rank == [k \in S |-> Cardinality(Front(k))]
<1>0. \A k \in S : k \in Nat
  OBVIOUS
<1>1. IsFiniteSet(S) /\ N \in 0 .. n
  <2>1. IsFiniteSet(1 .. n) /\ Cardinality(1 .. n) = n
    BY FS_Interval
  <2>2. IsFiniteSet(S) /\ Cardinality(S) <= n
    BY <2>1, FS_Subset
  <2>3. Cardinality(S) \in Nat
    BY <2>2, FS_CardinalityType
  <2> QED BY <2>2, <2>3
<1>2. \A k \in S : IsFiniteSet(Front(k)) /\ Cardinality(Front(k)) \in 1 .. N
  <2> SUFFICES ASSUME NEW k \in S
               PROVE  IsFiniteSet(Front(k)) /\ Cardinality(Front(k)) \in 1 .. N
    OBVIOUS
  <2>1. Front(k) \in SUBSET S
    OBVIOUS
  <2>2. IsFiniteSet(Front(k)) /\ Cardinality(Front(k)) <= N
    BY <1>1, <2>1, FS_Subset
  <2>3. Cardinality(Front(k)) \in Nat
    BY <2>2, FS_CardinalityType
  <2>4. Front(k) # {}
    OBVIOUS
  <2>5. Cardinality(Front(k)) # 0
    BY <2>2, <2>4, FS_EmptySet
  <2> QED BY <2>2, <2>3, <2>5
<1>3. ASSUME NEW k \in S, NEW l \in S, k < l
      PROVE  rank[k] < rank[l]
  <2>0. k \in Nat /\ l \in Nat
    BY <1>0
  <2>1. Front(k) \cup {l} \in SUBSET Front(l) /\ l \notin Front(k)
    <3>1. \A i \in Front(k) : i \in Front(l)
      BY <1>0, <1>3, <2>0
    <3>2. l \in Front(l) /\ l \notin Front(k)
      BY <1>3, <2>0
    <3> QED BY <3>1, <3>2
  <2>2. Cardinality(Front(k) \cup {l}) = Cardinality(Front(k)) + 1
    BY <1>2, <2>1, FS_AddElement
  <2>3. Cardinality(Front(k) \cup {l}) <= Cardinality(Front(l))
    BY <1>2, <2>1, FS_Subset
  <2> QED BY <1>2, <2>2, <2>3
<1>4. \A k, l \in S : k # l => rank[k] # rank[l]
  <2> SUFFICES ASSUME NEW k \in S, NEW l \in S, k # l PROVE rank[k] # rank[l]
    OBVIOUS
  <2>1. rank[k] \in Nat /\ rank[l] \in Nat /\ k \in Nat /\ l \in Nat
    BY <1>2
  <2>2. k < l \/ l < k
    BY <2>1
  <2> HIDE DEF rank
  <2> QED BY <1>3, <2>1, <2>2
<1>5. rank \in Injection(S, 1 .. N)
  <2>1. rank \in [S -> 1 .. N]
    BY <1>2
  <2> HIDE DEF rank
  <2> QED BY <1>4, <2>1 DEF Injection, IsInjective
<1>6. rank \in Surjection(S, 1 .. N)
  <2>1. IsFiniteSet(1 .. N) /\ Cardinality(1 .. N) = N
    BY <1>1, FS_Interval
  <2> HIDE DEF rank, N
  <2>2. Cardinality(S) = Cardinality(1 .. N)
    BY <2>1 DEF N
  <2> QED BY <1>5, <2>1, <2>2, FS_Injection
<1>7. \A j \in 1 .. N : Position(S, j) \in S /\ rank[Position(S, j)] = j
  <2> SUFFICES ASSUME NEW j \in 1 .. N
               PROVE  Position(S, j) \in S /\ rank[Position(S, j)] = j
    OBVIOUS
  <2>1. \E k \in S : rank[k] = j
    <3> HIDE DEF rank, N
    <3> QED BY <1>6 DEF Surjection
  <2>2. \E k \in S : Cardinality({i \in S : i <= k}) = j
    BY <2>1
  <2>3. Position(S, j) \in S /\ Cardinality({i \in S : i <= Position(S, j)}) = j
    BY <2>2 DEF Position
  <2> QED BY <2>3
<1>8. ASSUME NEW i \in 1 .. N, NEW j \in 1 .. N, i < j
      PROVE  Position(S, i) < Position(S, j)
  <2>1. Position(S, i) \in S /\ rank[Position(S, i)] = i
    BY <1>7
  <2>2. Position(S, j) \in S /\ rank[Position(S, j)] = j
    BY <1>7
  <2>3. Position(S, i) \in Nat /\ Position(S, j) \in Nat
    BY <1>0, <2>1, <2>2
  <2> HIDE DEF rank, N
  <2>4. Position(S, i) # Position(S, j)
    BY <1>8, <2>1, <2>2
  <2>5. ~ (Position(S, j) < Position(S, i))
    <3> SUFFICES ASSUME Position(S, j) < Position(S, i) PROVE FALSE
      OBVIOUS
    <3>1. rank[Position(S, j)] < rank[Position(S, i)]
      BY <1>3, <2>1, <2>2
    <3>2. j < i
      BY <2>1, <2>2, <3>1
    <3> QED BY <1>8, <3>2
  <2> QED BY <2>3, <2>4, <2>5
<1>9. ASSUME NEW k \in S PROVE \E j \in 1 .. N : Position(S, j) = k
  <2>1. rank[k] \in 1 .. N
    BY <1>2
  <2>2. Position(S, rank[k]) \in S /\ rank[Position(S, rank[k])] = rank[k]
    <3> HIDE DEF rank, N
    <3> QED BY <1>7, <2>1
  <2> HIDE DEF rank, N
  <2> QED BY <1>4, <2>1, <2>2
<1> HIDE DEF rank
<1> QED BY <1>1, <1>7, <1>8, <1>9

(* The selected elements are a sequence, no longer than the whole one.     *)
LEMMA Selected ==
  ASSUME NEW T, NEW s \in Seq(T), NEW S \in SUBSET (1 .. Len(s))
  PROVE  /\ AtPositions(s, S) \in Seq(T)
         /\ Len(AtPositions(s, S)) = Cardinality(S) /\ Cardinality(S) \in 0 .. Len(s)
         /\ \A j \in 1 .. Cardinality(S) : AtPositions(s, S)[j] = s[Position(S, j)]
         /\ \A j \in 1 .. Cardinality(S) : Position(S, j) \in S
         /\ \A i, j \in 1 .. Cardinality(S) : i < j => Position(S, i) < Position(S, j)
         /\ \A k \in S : \E j \in 1 .. Cardinality(S) : Position(S, j) = k
<1>1. Len(s) \in Nat
  OBVIOUS
<1>2. /\ Cardinality(S) \in 0 .. Len(s)
      /\ \A j \in 1 .. Cardinality(S) : Position(S, j) \in S
      /\ \A i, j \in 1 .. Cardinality(S) : i < j => Position(S, i) < Position(S, j)
      /\ \A k \in S : \E j \in 1 .. Cardinality(S) : Position(S, j) = k
  BY <1>1, Positions
<1>3. \A j \in 1 .. Cardinality(S) : s[Position(S, j)] \in T
  <2>1. \A k \in S : s[k] \in T
    OBVIOUS
  <2> QED BY <1>2, <2>1
<1>4. AtPositions(s, S) \in Seq(T) /\ Len(AtPositions(s, S)) = Cardinality(S)
  BY <1>2, <1>3 DEF AtPositions
<1>5. \A j \in 1 .. Cardinality(S) : AtPositions(s, S)[j] = s[Position(S, j)]
  BY DEF AtPositions
<1> QED BY <1>2, <1>4, <1>5

(* What is left of a sequence of different elements are different ones,    *)
(* and they are the elements at the positions that stay.                   *)
LEMMA SelectedSet ==
  ASSUME NEW T, NEW s \in Seq(T), NEW S \in SUBSET (1 .. Len(s))
  PROVE  {AtPositions(s, S)[j] : j \in DOMAIN AtPositions(s, S)} = {s[k] : k \in S}
<1> DEFINE r == AtPositions(s, S)
<1>1. /\ DOMAIN r = 1 .. Cardinality(S)
      /\ \A j \in 1 .. Cardinality(S) : r[j] = s[Position(S, j)] /\ Position(S, j) \in S
      /\ \A k \in S : \E j \in 1 .. Cardinality(S) : Position(S, j) = k
  BY Selected
<1> HIDE DEF r
<1> SUFFICES {r[j] : j \in DOMAIN r} = {s[k] : k \in S}
  BY DEF r
<1>2. \A j \in DOMAIN r : r[j] \in {s[k] : k \in S}
  BY <1>1
<1>3. \A k \in S : s[k] \in {r[j] : j \in DOMAIN r}
  BY <1>1
<1> QED BY <1>2, <1>3

(* Nothing is twice in the sequence. *)
Distinct(s) == \A i, j \in 1 .. Len(s) : s[i] = s[j] => i = j

(* Different elements stay different when some of them are selected.       *)
LEMMA SelectedOnce ==
  ASSUME NEW T, NEW s \in Seq(T), NEW S \in SUBSET (1 .. Len(s)), Distinct(s)
  PROVE  Distinct(AtPositions(s, S))
<1> DEFINE r == AtPositions(s, S)
<1>1. /\ Len(r) = Cardinality(S) /\ Cardinality(S) \in Nat
      /\ \A j \in 1 .. Cardinality(S) : r[j] = s[Position(S, j)] /\ Position(S, j) \in S
      /\ \A i, j \in 1 .. Cardinality(S) : i < j => Position(S, i) < Position(S, j)
  BY Selected
<1>2. \A k \in S : k \in Nat /\ k \in 1 .. Len(s)
  OBVIOUS
<1> HIDE DEF r
<1> SUFFICES ASSUME NEW i \in 1 .. Len(r), NEW j \in 1 .. Len(r), r[i] = r[j] PROVE i = j
  BY DEF r, Distinct
<1>3. Position(S, i) = Position(S, j)
  <2>1. i \in 1 .. Cardinality(S) /\ j \in 1 .. Cardinality(S)
    BY <1>1
  <2>2. Position(S, i) \in 1 .. Len(s) /\ Position(S, j) \in 1 .. Len(s)
    BY <1>1, <1>2, <2>1
  <2>3. s[Position(S, i)] = s[Position(S, j)]
    BY <1>1, <2>1
  <2> QED BY <2>2, <2>3 DEF Distinct
<1>4. Position(S, i) \in Nat /\ i \in Nat /\ j \in Nat
  <2>1. i \in 1 .. Cardinality(S) /\ j \in 1 .. Cardinality(S)
    BY <1>1
  <2>2. Position(S, i) \in S /\ i \in Nat /\ j \in Nat
    BY <1>1, <2>1
  <2> QED BY <1>2, <2>2
<1>5. ~ (i < j) /\ ~ (j < i)
  <2>1. i \in 1 .. Cardinality(S) /\ j \in 1 .. Cardinality(S)
    BY <1>1
  <2> QED BY <1>1, <1>3, <1>4, <2>1
<1> QED BY <1>4, <1>5

-----------------------------------------------------------------------------
(* How often the members of X are in a sequence. *)
PositionsIn(s, X) == {k \in DOMAIN s : s[k] \in X}
Count(s, X) == Cardinality(PositionsIn(s, X))

(* It is a number, and 0 when there is none. *)
LEMMA CountType ==
  ASSUME NEW T, NEW s \in Seq(T), NEW X
  PROVE  /\ IsFiniteSet(PositionsIn(s, X)) /\ Count(s, X) \in Nat
         /\ Count(s, X) = 0 <=> \A k \in DOMAIN s : s[k] \notin X
<1>1. PositionsIn(s, X) \in SUBSET (1 .. Len(s)) /\ Len(s) \in Nat
  BY DEF PositionsIn
<1>2. IsFiniteSet(1 .. Len(s))
  BY <1>1, FS_Interval
<1>3. IsFiniteSet(PositionsIn(s, X))
  BY <1>1, <1>2, FS_Subset
<1>4. Count(s, X) \in Nat
  BY <1>3, FS_CardinalityType DEF Count
<1>5. Count(s, X) = 0 <=> PositionsIn(s, X) = {}
  BY <1>3, FS_EmptySet DEF Count
<1>6. PositionsIn(s, X) = {} <=> \A k \in DOMAIN s : s[k] \notin X
  BY DEF PositionsIn
<1> QED BY <1>3, <1>4, <1>5, <1>6

(* One more element at the end counts once. *)
LEMMA CountAppend ==
  ASSUME NEW T, NEW s \in Seq(T), NEW x \in T, NEW X
  PROVE  Count(Append(s, x), X) = IF x \in X THEN Count(s, X) + 1 ELSE Count(s, X)
<1> DEFINE P == PositionsIn(s, X)
           n == Len(s) + 1
<1>1. IsFiniteSet(P) /\ n \notin P
  <2>1. \A k \in P : k \in 1 .. Len(s)
    BY DEF PositionsIn
  <2>2. n \notin 1 .. Len(s)
    OBVIOUS
  <2> QED BY <2>1, <2>2, CountType
<1>2. PositionsIn(Append(s, x), X) = IF x \in X THEN P \cup {n} ELSE P
  <2>1. DOMAIN Append(s, x) = 1 .. n /\ DOMAIN s = 1 .. Len(s) /\ Len(s) \in Nat
    OBVIOUS
  <2>2. Append(s, x)[n] = x /\ \A k \in 1 .. Len(s) : Append(s, x)[k] = s[k]
    OBVIOUS
  <2>3. \A k : k \in 1 .. n <=> k \in 1 .. Len(s) \/ k = n
    BY <2>1
  <2>4. n \notin 1 .. Len(s)
    BY <2>1
  <2> QED BY <2>1, <2>2, <2>3, <2>4 DEF PositionsIn
<1>3. Cardinality(P \cup {n}) = Cardinality(P) + 1
  BY <1>1, FS_AddElement
<1> QED BY <1>2, <1>3 DEF Count

(* The first element, when it leaves, counts once. *)
LEMMA CountTail ==
  ASSUME NEW T, NEW s \in Seq(T), s # <<>>, NEW X
  PROVE  Count(s, X) = IF Head(s) \in X THEN Count(Tail(s), X) + 1 ELSE Count(Tail(s), X)
<1> DEFINE P == PositionsIn(Tail(s), X)
           Up == {k + 1 : k \in P}
           f == [k \in P |-> k + 1]
<1>1. /\ Len(s) \in Nat /\ Len(s) >= 1 /\ Len(Tail(s)) = Len(s) - 1
      /\ DOMAIN s = 1 .. Len(s) /\ DOMAIN Tail(s) = 1 .. Len(s) - 1
      /\ Tail(s) \in Seq(T) /\ Head(s) = s[1]
  OBVIOUS
<1>2. \A k \in 1 .. Len(s) - 1 : Tail(s)[k] = s[k + 1]
  OBVIOUS
<1>3. IsFiniteSet(P) /\ \A k \in P : k \in 1 .. Len(s) - 1
  BY <1>1, CountType DEF PositionsIn
<1>4. f \in Bijection(P, Up)
  <2>1. f \in [P -> Up]
    OBVIOUS
  <2>2. \A k, l \in P : f[k] = f[l] => k = l
    <3> SUFFICES ASSUME NEW k \in P, NEW l \in P, f[k] = f[l] PROVE k = l
      OBVIOUS
    <3>1. k \in Int /\ l \in Int
      BY <1>1, <1>3
    <3> QED BY <3>1
  <2>3. \A u \in Up : \E k \in P : f[k] = u
    OBVIOUS
  <2> HIDE DEF f, P, Up
  <2> QED BY <2>1, <2>2, <2>3 DEF Bijection, Injection, Surjection, IsInjective
<1>5. IsFiniteSet(Up) /\ Cardinality(Up) = Cardinality(P)
  <2> HIDE DEF f, P, Up
  <2> QED BY <1>3, <1>4, FS_Bijection DEF ExistsBijection
<1>6. 1 \notin Up
  BY <1>1, <1>3
<1>7. PositionsIn(s, X) = IF Head(s) \in X THEN Up \cup {1} ELSE Up
  <2>1. \A k \in Up : k \in PositionsIn(s, X)
    <3> SUFFICES ASSUME NEW l \in P PROVE l + 1 \in PositionsIn(s, X)
      OBVIOUS
    <3>1. l \in 1 .. Len(s) - 1 /\ Tail(s)[l] \in X
      BY <1>3 DEF PositionsIn
    <3>2. l + 1 \in 1 .. Len(s) /\ s[l + 1] \in X
      BY <1>1, <1>2, <3>1
    <3> QED BY <1>1, <3>2 DEF PositionsIn
  <2>2. ASSUME NEW k \in PositionsIn(s, X), k # 1 PROVE k \in Up
    <3>1. k \in 1 .. Len(s) /\ s[k] \in X
      BY <1>1 DEF PositionsIn
    <3>2. k - 1 \in 1 .. Len(s) - 1 /\ k = (k - 1) + 1
      BY <1>1, <2>2, <3>1
    <3>3. Tail(s)[k - 1] = s[k]
      BY <1>2, <3>2
    <3>4. k - 1 \in P
      BY <1>1, <3>1, <3>2, <3>3 DEF PositionsIn
    <3> QED BY <3>2, <3>4
  <2>3. 1 \in PositionsIn(s, X) <=> Head(s) \in X
    BY <1>1 DEF PositionsIn
  <2> DEFINE all == PositionsIn(s, X)
  <2>4. /\ \A k \in Up : k \in all
        /\ \A k \in all : k # 1 => k \in Up
        /\ 1 \in all <=> Head(s) \in X
    BY <2>1, <2>2, <2>3
  <2> HIDE DEF Up, all, P, f
  <2>5. all = IF Head(s) \in X THEN Up \cup {1} ELSE Up
    <3>1. CASE Head(s) \in X
      BY <2>4, <3>1
    <3>2. CASE Head(s) \notin X
      <4>1. \A k : k \in all <=> k \in Up
        BY <2>4, <3>2
      <4>2. all = Up
        BY <4>1
      <4> QED BY <3>2, <4>2
    <3> QED BY <3>1, <3>2
  <2> QED BY <2>5 DEF all
<1> HIDE DEF Up, P
<1>8. Cardinality(Up \cup {1}) = Cardinality(Up) + 1
  BY <1>5, <1>6, FS_AddElement
<1> QED BY <1>5, <1>7, <1>8 DEF Count, P

(* Elements that are all different, put behind the others, count once each. *)
LEMMA CountConcat ==
  ASSUME NEW T, NEW s \in Seq(T), NEW r \in Seq(T), Distinct(r), NEW x
  PROVE  Count(s \o r, {x}) =
           IF \E i \in DOMAIN r : r[i] = x THEN Count(s, {x}) + 1 ELSE Count(s, {x})
<1> DEFINE P == PositionsIn(s, {x})
<1>1. /\ Len(s) \in Nat /\ Len(r) \in Nat /\ Len(s \o r) = Len(s) + Len(r)
      /\ DOMAIN s = 1 .. Len(s) /\ DOMAIN r = 1 .. Len(r) /\ DOMAIN (s \o r) = 1 .. Len(s) + Len(r)
  OBVIOUS
<1>2. /\ \A k \in 1 .. Len(s) : (s \o r)[k] = s[k]
      /\ \A k \in 1 .. Len(s) + Len(r) : k > Len(s) => (s \o r)[k] = r[k - Len(s)]
  OBVIOUS
<1>3. IsFiniteSet(P)
  BY CountType
<1>4. \A k : k \in PositionsIn(s \o r, {x}) <=>
               k \in P \/ (k \in 1 .. Len(s) + Len(r) /\ k > Len(s) /\ r[k - Len(s)] = x)
  <2>1. \A k \in 1 .. Len(s) + Len(r) : k \in 1 .. Len(s) \/ k > Len(s)
    BY <1>1
  <2>2. \A k \in 1 .. Len(s) : k \in 1 .. Len(s) + Len(r) /\ ~ k > Len(s)
    BY <1>1
  <2> QED BY <1>1, <1>2, <2>1, <2>2 DEF PositionsIn
<1>5. CASE \E i \in DOMAIN r : r[i] = x
  <2>1. PICK i \in 1 .. Len(r) : r[i] = x
    BY <1>1, <1>5
  <2>2. \A k \in 1 .. Len(s) + Len(r) : k > Len(s) /\ r[k - Len(s)] = x => k = Len(s) + i
    <3> SUFFICES ASSUME NEW k \in 1 .. Len(s) + Len(r), k > Len(s), r[k - Len(s)] = x
                 PROVE  k = Len(s) + i
      OBVIOUS
    <3>1. k - Len(s) \in 1 .. Len(r)
      BY <1>1
    <3>2. k - Len(s) = i
      BY <2>1, <3>1 DEF Distinct
    <3> QED BY <1>1, <2>1, <3>2
  <2>3. Len(s) + i \in 1 .. Len(s) + Len(r) /\ Len(s) + i > Len(s) /\ (Len(s) + i) - Len(s) = i
    BY <1>1, <2>1
  <2>4. PositionsIn(s \o r, {x}) = P \cup {Len(s) + i}
    BY <1>4, <2>1, <2>2, <2>3
  <2>5. Len(s) + i \notin P
    BY <1>1, <2>3 DEF PositionsIn
  <2>6. Cardinality(P \cup {Len(s) + i}) = Cardinality(P) + 1
    BY <1>3, <2>5, FS_AddElement
  <2> QED BY <1>5, <2>4, <2>6 DEF Count
<1>6. CASE ~ \E i \in DOMAIN r : r[i] = x
  <2>1. \A k \in 1 .. Len(s) + Len(r) : ~ (k > Len(s) /\ r[k - Len(s)] = x)
    <3> SUFFICES ASSUME NEW k \in 1 .. Len(s) + Len(r), k > Len(s) PROVE r[k - Len(s)] # x
      OBVIOUS
    <3>1. k - Len(s) \in 1 .. Len(r)
      BY <1>1
    <3> QED BY <1>1, <1>6, <3>1
  <2>2. PositionsIn(s \o r, {x}) = P
    BY <1>4, <2>1
  <2> QED BY <1>6, <2>2 DEF Count
<1> QED BY <1>5, <1>6
=============================================================================
