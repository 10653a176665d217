--------------------------- MODULE ProgramsProofs ---------------------------
(***************************************************************************)
(* Theorems about three places where a program waits for others, for any   *)
(* number of them: a parent for the children of its process list (modules  *)
(* System and ProcList), routers for the links between them (module        *)
(* RemoteRouters), and a thread and its parent for each other (module      *)
(* Thread).                                                                *)
(***************************************************************************)
EXTENDS ProcList, Thread, RemoteRouters, FiniteSetTheorems, WellFoundedInduction, SequenceTheorems, TLAPS

-----------------------------------------------------------------------------
(* Process lists: the phases of a process, from which on it is attached,   *)
(* uses the facilities, and is counted.                                    *)
Starting == {"set", "take", "attach", "count", "facilities", "register", "enter", "blocked"}
Leaving == {"leave", "uncount", "detach", "drop"}
AttachedIn == {"facilities", "register", "enter", "in"} \cup Leaving
UsesIn == {"register", "enter", "in", "leave", "uncount"}
CountedIn == {"in", "leave", "uncount"}
AnyPhase == {"out", "child"} \cup Starting \cup AttachedIn

Known == {"none", "current", "stale"}
AnyCounts == [numAttached : Int, numprocs : [SystemID -> Int]]
Counts == [numAttached : Nat, numprocs : [SystemID -> Nat]]
Entry == [entry : Child, priority : Priority \cup {Late}, pid : Child \cup {NoPid, Failed}]

Home == system[Parent]
Childless == \A c \in Child : phase[c] = "out"
ChildrenIn(S) == {c \in Child : phase[c] \in S}
Number(S) == Cardinality(ChildrenIn(S))

SystemTypes ==
  /\ phase \in [Proc -> AnyPhase]
  /\ system \in [Proc -> SystemID] /\ \A p \in Proc : system[p] = Home
  /\ share \in AnyCounts /\ seen \in [Proc -> Int] /\ sysSem \in Int
  /\ semSet \in [SystemID -> BOOLEAN] /\ exists \in [SystemID -> SUBSET Facility]
  /\ uses \in [Proc -> Known] /\ attached \in [Proc -> Known] /\ semId \in [Proc -> Known]
  /\ disturbed \in BOOLEAN
ListTypes ==
  /\ hasStarted \in BOOLEAN
  /\ at \in [does : {"idle", "fork", "wait"}, entry : Nat]
  /\ procList \in Seq(Entry)
  /\ ready \in Nat /\ signalled \in SUBSET Child /\ broken \in SUBSET Child /\ hasty \in BOOLEAN

(* The parent starts and leaves while there are no children. *)
Raising == at.does # "idle" \/ ~ Childless

HomeInv ==
  /\ ~ hasStarted \/ phase[Parent] \in Leaving => at.does = "idle" /\ Childless
  /\ phase[Parent] \in Starting => ~ hasStarted
  /\ phase[Parent] # "child"

(* As long as the semaphore lets in one process at a time, what a process  *)
(* has read of the counts still is what they are ...                       *)
Exclusive ==
  \A p \in Proc : phase[p] \in Guarded =>
    semId[p] = "current" /\ sysSem = 0 /\ \A q \in Proc : phase[q] \in Guarded => q = p

ReadRight ==
  \A p \in Proc :
    /\ phase[p] = "count" => IF ShareExists THEN attached[p] = "current" /\ seen[p] = share.numAttached
                             ELSE seen[p] = None
    /\ phase[p] \in {"enter", "uncount"} => seen[p] = share.numprocs[Home]
    /\ phase[p] = "drop" => seen[p] = share.numAttached
    /\ phase[p] \in AttachedIn => attached[p] = "current"

LockInv == sysSem <= 1 /\ Exclusive /\ ReadRight

(* ... so that each process is counted once.  The parent has registered    *)
(* and not left, also when it has died.                                    *)
Family == Raising \/ phase[Parent] = "in"

FamilyInv ==
  /\ HomeInv
  /\ share \in Counts
  /\ phase[Parent] \in AttachedIn => share.numAttached >= 1
  /\ phase[Parent] \in CountedIn => share.numprocs[Home] >= 1
  /\ Family \/ phase[Parent] \in {"register", "enter"} => semSet[Home] /\ exists[Home] = Facility
  /\ Family => /\ share.numprocs[Home] >= 1 + Number(CountedIn)
               /\ share.numAttached >= 1 + Number(AttachedIn)
  /\ \A p \in Proc : phase[p] \in UsesIn => uses[p] = "current"

(* The list is in the order of the priorities, and is worked off in that   *)
(* order: what is behind the entry the parent is at was on the list before *)
(* the start and has no process, what is before it has signalled.          *)
Ascending(list) == \A j, k \in DOMAIN list : j < k => list[j].priority <= list[k].priority
Current == procList[at.entry].entry
Orderly == broken = {} /\ ~ hasty
InStore(k) == procList[k].pid = NoPid /\ procList[k].priority # Late

OrderInv ==
  /\ Ascending(procList)
  /\ ~ hasStarted => \A k \in DOMAIN procList : InStore(k)
  /\ at.does # "idle" => /\ at.entry \in DOMAIN procList
                         /\ \A k \in DOMAIN procList : k > at.entry => InStore(k)
  /\ at.does = "fork" => procList[at.entry].pid = NoPid
  /\ Orderly =>
       /\ hasStarted /\ at.does = "idle" => \A k \in DOMAIN procList : procList[k].entry \in signalled
       /\ at.does # "idle" => \A k \in DOMAIN procList : k < at.entry => procList[k].entry \in signalled
       /\ ready <= 1
       /\ ready = 1 => at.does = "wait" /\ Current \in signalled
       /\ \A c \in Child : c \notin signalled /\ phase[c] # "out" => at.does = "wait" /\ Current = c

ProcInv ==
  /\ SystemTypes /\ ListTypes /\ HomeInv /\ OrderInv
  /\ ~ disturbed => LockInv /\ FamilyInv

-----------------------------------------------------------------------------
(* The number of children in some phases, when one process moves on.       *)
LEMMA ChildrenMove ==
  ASSUME SystemTypes, NEW p \in Proc, NEW to \in AnyPhase, phase' = [phase EXCEPT ![p] = to], NEW S
  PROVE  /\ Number(S) \in Nat /\ Number(S)' \in Nat
         /\ (phase[p] \in S <=> to \in S) => Number(S)' = Number(S)
         /\ phase[p] \in S /\ to \notin S /\ p \in Child => Number(S)' = Number(S) - 1 /\ Number(S) >= 1
         /\ phase[p] \notin S /\ to \in S /\ p \in Child => Number(S)' = Number(S) + 1
         /\ p = Parent => Number(S)' = Number(S)
<1> DEFINE N == ChildrenIn(S)
           M == ChildrenIn(S)'
<1>1. IsFiniteSet(Child)
  <2>1. Child \in SUBSET Proc
    BY DEF Child
  <2> QED BY <2>1, SystemAssumption, FS_Subset
<1>2. IsFiniteSet(N) /\ IsFiniteSet(M)
  <2>1. N \in SUBSET Child /\ M \in SUBSET Child
    BY DEF ChildrenIn
  <2> HIDE DEF N, M
  <2> QED BY <1>1, <2>1, FS_Subset
<1>3. Cardinality(N) \in Nat /\ Cardinality(M) \in Nat
  BY <1>2, FS_CardinalityType
<1>4. phase'[p] = to /\ \A q \in Proc \ {p} : phase'[q] = phase[q]
  BY DEF SystemTypes
<1>5. (phase[p] \in S <=> to \in S) \/ p = Parent => M = N
  BY <1>4 DEF ChildrenIn, Child
<1>6. ASSUME phase[p] \in S, to \notin S, p \in Child
      PROVE  Cardinality(M) = Cardinality(N) - 1 /\ Cardinality(N) >= 1
  <2>1. M = N \ {p} /\ p \in N
    BY <1>4, <1>6 DEF ChildrenIn, Child
  <2> HIDE DEF M, N
  <2>2. Cardinality(M) = Cardinality(N) - 1
    BY <1>2, <2>1, FS_RemoveElement
  <2> QED BY <1>3, <2>2
<1>7. ASSUME phase[p] \notin S, to \in S, p \in Child
      PROVE  Cardinality(M) = Cardinality(N) + 1
  <2>1. M = N \cup {p} /\ p \notin N
    BY <1>4, <1>7 DEF ChildrenIn, Child
  <2> HIDE DEF M, N
  <2> QED BY <1>2, <2>1, FS_AddElement
<1> HIDE DEF M, N
<1>8. /\ (phase[p] \in S <=> to \in S) => Cardinality(M) = Cardinality(N)
      /\ p = Parent => Cardinality(M) = Cardinality(N)
  BY <1>5
<1> QED BY <1>3, <1>6, <1>7, <1>8 DEF M, N, Number

(* A child moves on, and what it does to the counts is what it does to the *)
(* number of children that are counted.                                    *)
LEMMA ChildMoves ==
  ASSUME SystemTypes, FamilyInv, Raising, SystemTypes', HomeInv', NEW p \in Child, NEW to \in AnyPhase,
         phase' = [phase EXCEPT ![p] = to], UNCHANGED system, share' \in Counts,
         semSet[Home] => semSet'[Home], exists[Home] = Facility => exists'[Home] = Facility,
         \A q \in Proc \ {p} : uses'[q] = uses[q],
         to \in UsesIn => uses'[p] = "current",
         share'.numprocs[Home] >= 1 + Number(CountedIn)',
         share'.numAttached >= 1 + Number(AttachedIn)'
  PROVE  FamilyInv'
<1>0. Parent \in Proc /\ p \in Proc /\ p # Parent /\ Home' = Home
  BY ProcListAssumption DEF Child, Home
<1>1. phase' \in [Proc -> AnyPhase] /\ \A q \in Proc \ {p} : phase'[q] = phase[q]
  BY DEF SystemTypes
<1>2. phase'[p] = to /\ phase'[Parent] = phase[Parent]
  BY <1>0 DEF SystemTypes
<1>4. Number(CountedIn)' \in Nat /\ Number(AttachedIn)' \in Nat
  BY <1>0, ChildrenMove
<1>5. share'.numprocs[Home] >= 1 /\ share'.numAttached >= 1
  <2>1. share'.numprocs[Home] \in Nat /\ share'.numAttached \in Nat
    BY <1>0 DEF SystemTypes, Counts, Home
  <2> QED BY <1>4, <2>1
<1>6. Family /\ semSet[Home] /\ exists[Home] = Facility
  BY DEF FamilyInv, Family
<1>7. \A q \in Proc : phase'[q] \in UsesIn => uses'[q] = "current"
  BY <1>1, <1>2 DEF FamilyInv
<1>8. semSet'[Home'] /\ exists'[Home'] = Facility
  BY <1>0, <1>6
<1>9. /\ share'.numprocs[Home'] >= 1 /\ share'.numAttached >= 1
      /\ share'.numprocs[Home'] >= 1 + Number(CountedIn)'
      /\ share'.numAttached >= 1 + Number(AttachedIn)'
  BY <1>0, <1>5
<1> QED BY <1>7, <1>8, <1>9 DEF FamilyInv

(* The parent moves on while there are no children. *)
LEMMA ParentMoves ==
  ASSUME SystemTypes, FamilyInv, HomeInv', at.does = "idle", Childless,
         NEW to \in Starting \cup Leaving \cup {"in", "out"},
         phase' = [phase EXCEPT ![Parent] = to], UNCHANGED <<system, at>>, share' \in Counts,
         to \in AttachedIn => share'.numAttached >= 1,
         to \in CountedIn => share'.numprocs[Home] >= 1,
         to \in {"register", "enter", "in"} => semSet'[Home] /\ exists'[Home] = Facility,
         to \in UsesIn => uses'[Parent] = "current"
  PROVE  FamilyInv'
<1>0. Parent \in Proc /\ Parent \notin Child /\ Home' = Home /\ Child \subseteq Proc
  BY ProcListAssumption DEF Child, Home
<1>2. phase'[Parent] = to /\ \A c \in Child : phase'[c] = "out"
  BY <1>0 DEF SystemTypes, Childless
<1>3. Childless' /\ ~ Raising'
  BY <1>2 DEF Childless, Raising
<1>4. Family' <=> to = "in"
  BY <1>2, <1>3 DEF Family
<1>5. ChildrenIn(CountedIn)' = {} /\ ChildrenIn(AttachedIn)' = {}
  BY <1>2 DEF ChildrenIn, CountedIn, AttachedIn, Leaving
<1>6. Number(CountedIn)' = 0 /\ Number(AttachedIn)' = 0
  BY <1>5, FS_EmptySet DEF Number
<1>7. /\ phase'[Parent] \in AttachedIn => share'.numAttached >= 1
      /\ phase'[Parent] \in CountedIn => share'.numprocs[Home'] >= 1
  BY <1>0, <1>2
<1>8. Family' => /\ share'.numprocs[Home'] >= 1 + Number(CountedIn)'
                 /\ share'.numAttached >= 1 + Number(AttachedIn)'
  <2>1. "in" \in AttachedIn /\ "in" \in CountedIn
    BY DEF AttachedIn, CountedIn
  <2> QED BY <1>0, <1>4, <1>6, <2>1
<1>9. \A p \in Proc : phase'[p] \in UsesIn => uses'[p] = "current"
  <2> SUFFICES ASSUME NEW p \in Proc, phase'[p] \in UsesIn PROVE uses'[p] = "current"
    OBVIOUS
  <2>1. p = Parent
    BY <1>2 DEF UsesIn, Child
  <2> QED BY <1>2, <2>1
<1>10. Family' \/ phase'[Parent] \in {"register", "enter"} => semSet'[Home'] /\ exists'[Home'] = Facility
  BY <1>0, <1>2, <1>4
<1> QED BY <1>7, <1>8, <1>9, <1>10 DEF FamilyInv

(* A process is a child, or it is the parent and has not started the list  *)
(* when it is starting.                                                    *)
LEMMA Who ==
  ASSUME FamilyInv, SystemTypes, NEW p \in Proc
  PROVE  /\ p \in Child \/ p = Parent
         /\ p = Parent /\ phase[p] \in Starting \cup Leaving => at.does = "idle" /\ Childless
         /\ system[p] = Home /\ Home \in SystemID
         /\ p \in Child /\ phase[p] # "out" => Raising
         /\ p = Parent /\ phase[p] \in Starting => ~ hasStarted
         /\ phase \in [Proc -> AnyPhase]
         /\ share \in Counts /\ share.numAttached \in Nat /\ share.numprocs \in [SystemID -> Nat]
         /\ share.numprocs[Home] \in Nat
<1>1. Home \in SystemID
  BY ProcListAssumption DEF SystemTypes, Home
<1> QED BY <1>1 DEF FamilyInv, HomeInv, SystemTypes, Child, Raising, Childless, Counts

(* The types, at every step. *)
LEMMA StaleTyped == ASSUME NEW known \in [Proc -> Known], NEW S PROVE Stale(known, S) \in [Proc -> Known]
<1> QED BY DEF Stale, Known

LEMMA Retyped ==
  ASSUME SystemTypes, NEW p \in Proc, NEW from, NEW to \in AnyPhase, Moves(p, from, to),
         share' \in AnyCounts, seen' \in [Proc -> Int], sysSem' \in Int,
         semSet' \in [SystemID -> BOOLEAN], exists' \in [SystemID -> SUBSET Facility],
         uses' \in [Proc -> Known], attached' \in [Proc -> Known], semId' \in [Proc -> Known],
         disturbed' \in BOOLEAN
  PROVE  SystemTypes'
<1>1. UNCHANGED system /\ Home' = Home /\ phase' \in [Proc -> AnyPhase]
  BY DEF Moves, Home, SystemTypes
<1> QED BY <1>1 DEF SystemTypes

LEMMA TypesKept ==
  ASSUME SystemTypes, NEW p \in Proc, SystemStep(p) \/ SystemFailure(p) \/ SystemCall(p)
  PROVE  SystemTypes'
<1>0. /\ {"out", "set", "take", "attach", "count", "facilities", "register", "enter", "blocked", "in",
          "leave", "uncount", "detach", "drop"} \subseteq AnyPhase
      /\ {"none", "current", "stale"} \subseteq Known /\ None \in Int /\ sysSem \in Int
      /\ sysSem + 1 \in Int /\ sysSem - 1 \in Int
      /\ share \in AnyCounts /\ seen \in [Proc -> Int] /\ semSet \in [SystemID -> BOOLEAN]
      /\ exists \in [SystemID -> SUBSET Facility] /\ uses \in [Proc -> Known] /\ attached \in [Proc -> Known]
      /\ semId \in [Proc -> Known] /\ disturbed \in BOOLEAN /\ system[p] \in SystemID
      /\ share.numAttached \in Int /\ share.numprocs \in [SystemID -> Int] /\ seen[p] \in Int
  BY DEF AnyPhase, Starting, AttachedIn, Leaving, Known, SystemTypes, AnyCounts, None
<1>1. NoShare \in AnyCounts /\ [NoShare EXCEPT !.numAttached = 1] \in AnyCounts
  BY DEF NoShare, AnyCounts
<1>2. \A n \in Int : /\ [share EXCEPT !.numAttached = n] \in AnyCounts
                     /\ [share EXCEPT !.numprocs[system[p]] = n] \in AnyCounts
  BY <1>0 DEF AnyCounts
<1>3. \A S : Stale(uses, S) \in [Proc -> Known] /\ Stale(attached, S) \in [Proc -> Known]
             /\ Stale(semId, S) \in [Proc -> Known]
  BY <1>0, StaleTyped
<1>4. \A known \in [Proc -> Known] : \A k \in Known : [known EXCEPT ![p] = k] \in [Proc -> Known]
  OBVIOUS
<1>5. "none" \in Known /\ "current" \in Known
  BY DEF Known
<1>6. CASE SystemStep(p)
  <2>1. CASE SemSetVal(p)
    BY <1>0, <2>1, Retyped DEF SemSetVal
  <2>2. CASE StartTakes(p)
    BY <1>0, <2>2, Retyped DEF StartTakes, semTake
  <2>3. CASE FindShare(p)
    <3>1. seen' \in [Proc -> Int] /\ attached' \in [Proc -> Known]
      BY <1>0, <1>4, <1>5, <2>3 DEF FindShare
    <3> QED BY <1>0, <2>3, <3>1, Retyped DEF FindShare
  <2>4. CASE AttachShare(p)
    <3>1. attached' \in [Proc -> Known]
      <4>1. attached' = [attached EXCEPT ![p] = IF seen[p] = None THEN "current" ELSE attached[p]]
        BY <2>4 DEF AttachShare
      <4> QED BY <1>0, <1>5, <4>1
    <3>2. share' \in AnyCounts
      <4>1. seen[p] + 1 \in Int
        BY <1>0
      <4> QED BY <1>0, <1>1, <1>2, <2>4, <4>1 DEF AttachShare
    <3> QED BY <1>0, <2>4, <3>1, <3>2, Retyped DEF AttachShare
  <2>5. CASE MakeFacilities(p)
    <3>1. PICK to \in {"blocked", "register"} : Moves(p, "facilities", to)
      BY <2>5 DEF MakeFacilities
    <3>2. /\ semSet' \in [SystemID -> BOOLEAN] /\ exists' \in [SystemID -> SUBSET Facility]
          /\ uses' \in [Proc -> Known]
      BY <1>0, <1>3, <1>4, <1>5, <2>5 DEF MakeFacilities
    <3> QED BY <1>0, <2>5, <3>1, <3>2, Retyped DEF MakeFacilities
  <2>6. CASE AttachFacilities(p)
    <3>1. /\ semSet' \in [SystemID -> BOOLEAN] /\ exists' \in [SystemID -> SUBSET Facility]
          /\ uses' \in [Proc -> Known]
      BY <1>0, <1>4, <1>5, <2>6 DEF AttachFacilities
    <3> QED BY <1>0, <2>6, <3>1, Retyped DEF AttachFacilities
  <2>7. CASE RegisterReads(p) \/ LeaveReads(p)
    <3>1. seen' \in [Proc -> Int]
      BY <1>0, <2>7 DEF RegisterReads, LeaveReads, ReadProcs
    <3> QED BY <1>0, <2>7, <3>1, Retyped DEF RegisterReads, LeaveReads, ReadProcs
  <2>8. CASE Register(p)
    <3>1. seen[p] + 1 \in Int
      BY <1>0
    <3> QED BY <1>0, <1>2, <2>8, <3>1, Retyped DEF Register, WriteProcs, semGive
  <2>9. CASE LeaveSystem(p)
    <3>1. seen[p] - 1 \in Int
      BY <1>0
    <3>2. share' \in AnyCounts
      BY <1>0, <1>2, <2>9, <3>1 DEF LeaveSystem, WriteProcs
    <3>3. uses' \in [Proc -> Known]
      <4>1. PICK known \in [Proc -> Known] : uses' = [known EXCEPT ![p] = "none"]
        BY <1>0, <1>3, <2>9 DEF LeaveSystem
      <4> QED BY <1>5, <4>1
    <3>4. semSet' \in [SystemID -> BOOLEAN] /\ exists' \in [SystemID -> SUBSET Facility]
      BY <1>0, <2>9 DEF LeaveSystem
    <3> QED BY <1>0, <2>9, <3>2, <3>3, <3>4, Retyped DEF LeaveSystem
  <2>10. CASE DetachReads(p)
    <3>1. seen' \in [Proc -> Int]
      BY <1>0, <2>10 DEF DetachReads
    <3> QED BY <1>0, <2>10, <3>1, Retyped DEF DetachReads
  <2>11. CASE Leave(p)
    <3>1. seen[p] - 1 \in Int
      BY <1>0
    <3>2. share' \in AnyCounts
      BY <1>0, <1>1, <1>2, <2>11, <3>1 DEF Leave
    <3>3. attached' \in [Proc -> Known] /\ semId' \in [Proc -> Known]
      <4>1. PICK known \in [Proc -> Known] : attached' = [known EXCEPT ![p] = "none"]
        <5>1. (IF attached[p] = "current" THEN Stale(attached, Proc) ELSE attached) \in [Proc -> Known]
          BY <1>0, <1>3
        <5> QED BY <1>0, <2>11, <5>1 DEF Leave
      <4>2. semId' = semId \/ \E ids \in [Proc -> Known] : semId' = [ids EXCEPT ![p] = "none"]
        BY <1>0, <1>3, <2>11 DEF Leave
      <4> QED BY <1>0, <1>5, <4>1, <4>2
    <3>4. sysSem' \in Int
      BY <1>0, <2>11 DEF Leave, semGive
    <3> QED BY <1>0, <2>11, <3>2, <3>3, <3>4, Retyped DEF Leave
  <2> QED BY <1>6, <2>1, <2>2, <2>3, <2>4, <2>5, <2>6, <2>7, <2>8, <2>9, <2>10, <2>11 DEF SystemStep
<1>7. CASE SystemFailure(p)
  <2>1. CASE StartInterrupted(p) \/ AttachFails(p)
    BY <1>0, <2>1, Retyped DEF StartInterrupted, semTakeInterrupted, AttachFails
  <2>2. CASE MakeFails(p)
    <3>1. semSet' \in [SystemID -> BOOLEAN] /\ uses' \in [Proc -> Known]
      BY <1>0, <1>3, <2>2 DEF MakeFails
    <3> QED BY <1>0, <2>2, <3>1, Retyped DEF MakeFails, semGive
  <2>3. CASE AttachFacilitiesFails(p)
    BY <1>0, <2>3, Retyped DEF AttachFacilitiesFails, semGive
  <2>4. CASE Dies(p)
    <3>1. uses' \in [Proc -> Known] /\ attached' \in [Proc -> Known] /\ semId' \in [Proc -> Known]
      BY <1>0, <1>4, <1>5, <2>4 DEF Dies
    <3> QED BY <1>0, <2>4, <3>1, Retyped DEF Dies
  <2> QED BY <1>7, <2>1, <2>2, <2>3, <2>4 DEF SystemFailure
<1>8. CASE SystemCall(p)
  <2>1. CASE SemGet(p)
    <3>1. semId' \in [Proc -> Known] /\ sysSem' \in Int
      BY <1>0, <1>4, <1>5, <2>1 DEF SemGet
    <3> QED BY <1>0, <2>1, <3>1, Retyped DEF SemGet
  <2>2. CASE SystemExit(p)
    BY <1>0, <2>2, Retyped DEF SystemExit, ExitInterrupted, semTakeInterrupted, ExitTakes, semTake
  <2> QED BY <1>8, <2>1, <2>2 DEF SystemCall
<1> QED BY <1>6, <1>7, <1>8

(* The parent starts and leaves without children, at every step. *)
LEMMA HomeKept ==
  ASSUME SystemTypes, HomeInv, NEW p \in Proc, NEW from, NEW to, Moves(p, from, to),
         from # "out" \/ (p = Parent /\ ~ hasStarted), to # "child",
         to \in Starting => from \in Starting \cup {"out", "child"},
         to \in Leaving => from \in Leaving \/ p \in Child \/ (at.does = "idle" /\ Childless),
         UNCHANGED <<hasStarted, at>>
  PROVE  HomeInv'
<1>1. /\ phase[p] = from /\ phase'[p] = to /\ \A q \in Proc \ {p} : phase'[q] = phase[q]
  BY DEF Moves, SystemTypes
<1>2. Parent \in Proc /\ Parent \notin Child /\ Child \subseteq Proc
  BY ProcListAssumption DEF Child
<1>3. CASE p # Parent
  <2>1. p \in Child /\ phase'[Parent] = phase[Parent] /\ ~ Childless
    BY <1>1, <1>2, <1>3 DEF Child, Childless
  <2> QED BY <2>1 DEF HomeInv
<1>4. CASE p = Parent
  <2>1. \A c \in Child : phase'[c] = phase[c]
    BY <1>1, <1>4 DEF Child
  <2>2. Childless' = Childless
    BY <2>1 DEF Childless
  <2>3. to \in Starting => ~ hasStarted
    <3>1. from # "child"
      BY <1>1, <1>4 DEF HomeInv
    <3> QED BY <1>1, <1>4, <3>1 DEF HomeInv
  <2>4. to \in Leaving => at.does = "idle" /\ Childless
    BY <1>1, <1>2, <1>4 DEF HomeInv
  <2> QED BY <1>1, <1>4, <2>2, <2>3, <2>4 DEF HomeInv
<1> QED BY <1>3, <1>4

-----------------------------------------------------------------------------
(* One process at a time is between semTake and semGive: a process that is *)
(* outside moves, ...                                                      *)
Others(p) == Proc \ {p}

LEMMA Outside ==
  ASSUME SystemTypes, LockInv, NEW p \in Proc, NEW to, phase' = [phase EXCEPT ![p] = to],
         phase[p] \notin Guarded, to \notin Guarded, to \notin AttachedIn, UNCHANGED <<system, share, seen>>,
         \A q \in Others(p) : attached'[q] = attached[q] /\ semId'[q] = semId[q],
         sysSem' <= 1, Inside # {} /\ sysSem = 0 => sysSem' = 0
  PROVE  LockInv'
<1>1. Home' = Home /\ ShareExists' = ShareExists
  BY DEF Home, ShareExists
<1>2. phase'[p] = to /\ \A q \in Others(p) : phase'[q] = phase[q]
  BY DEF SystemTypes, Others
<1>3. {"count", "enter", "uncount", "drop"} \subseteq Guarded
  BY DEF Guarded
<1>4. Exclusive'
  <2> SUFFICES ASSUME NEW q \in Proc, phase'[q] \in Guarded
               PROVE  /\ semId'[q] = "current" /\ sysSem' = 0
                      /\ \A x \in Proc : phase'[x] \in Guarded => x = q
    BY DEF Exclusive
  <2>1. q \in Others(p) /\ phase[q] \in Guarded
    BY <1>2 DEF Others
  <2>2. semId[q] = "current" /\ sysSem = 0 /\ \A x \in Proc : phase[x] \in Guarded => x = q
    BY <2>1 DEF LockInv, Exclusive
  <2>3. Inside # {}
    BY <2>1 DEF Inside
  <2>4. \A x \in Proc : phase'[x] \in Guarded => x \in Others(p)
    BY <1>2 DEF Others
  <2> QED BY <1>2, <2>1, <2>2, <2>3, <2>4
<1>5. ReadRight'
  <2> SUFFICES ASSUME NEW q \in Proc
               PROVE  /\ phase'[q] = "count" => IF ShareExists' THEN attached'[q] = "current" /\ seen'[q] = share'.numAttached
                                                ELSE seen'[q] = None
                      /\ phase'[q] \in {"enter", "uncount"} => seen'[q] = share'.numprocs[Home']
                      /\ phase'[q] = "drop" => seen'[q] = share'.numAttached
                      /\ phase'[q] \in AttachedIn => attached'[q] = "current"
    BY DEF ReadRight
  <2>1. CASE q = p
    BY <1>2, <1>3, <2>1
  <2>2. CASE q # p
    <3>1. q \in Others(p)
      BY <2>2 DEF Others
    <3> QED BY <1>1, <1>2, <3>1 DEF LockInv, ReadRight
  <2> QED BY <2>1, <2>2
<1> QED BY <1>4, <1>5 DEF LockInv

(* ... takes the semaphore, ... *)
LEMMA GoesIn ==
  ASSUME SystemTypes, LockInv, NEW p \in Proc, NEW to \in {"attach", "leave"}, phase' = [phase EXCEPT ![p] = to],
         to = "leave" => phase[p] = "in", semId[p] = "current", sysSem > 0, sysSem' = sysSem - 1,
         UNCHANGED <<system, share, seen, attached, semId>>
  PROVE  LockInv'
<1>2. phase'[p] = to /\ \A q \in Others(p) : phase'[q] = phase[q]
  BY DEF SystemTypes, Others
<1>3. sysSem' = 0
  BY DEF SystemTypes, LockInv
<1>4. \A q \in Proc : phase[q] \notin Guarded
  BY DEF LockInv, Exclusive, SystemTypes
<1>5. Exclusive'
  <2>1. \A q \in Proc : phase'[q] \in Guarded => q = p
    BY <1>2, <1>4 DEF Others
  <2> QED BY <1>3, <2>1 DEF Exclusive
<1>6. {"count", "enter", "uncount", "drop"} \subseteq Guarded /\ "in" \in AttachedIn /\ "attach" \notin AttachedIn
  BY DEF Guarded, AttachedIn, Leaving
<1>7. ReadRight'
  <2> SUFFICES ASSUME NEW q \in Proc
               PROVE  /\ phase'[q] \notin {"count", "enter", "uncount", "drop"}
                      /\ phase'[q] \in AttachedIn => attached'[q] = "current"
    BY DEF ReadRight
  <2>1. CASE q = p
    BY <1>2, <1>6, <2>1 DEF LockInv, ReadRight
  <2>2. CASE q # p
    BY <1>2, <1>4, <1>6, <2>2 DEF LockInv, ReadRight, Others
  <2> QED BY <2>1, <2>2
<1> QED BY <1>3, <1>5, <1>7 DEF LockInv

(* ... goes on with it, ... *)
LEMMA StaysIn ==
  ASSUME SystemTypes, LockInv, NEW p \in Proc, NEW to \in Guarded, phase' = [phase EXCEPT ![p] = to],
         phase[p] \in Guarded, UNCHANGED <<system, semId, sysSem>>,
         \A q \in Others(p) : attached'[q] = attached[q],
         to = "count" => IF ShareExists' THEN attached'[p] = "current" /\ seen'[p] = share'.numAttached
                         ELSE seen'[p] = None,
         to \in {"enter", "uncount"} => seen'[p] = share'.numprocs[Home],
         to = "drop" => seen'[p] = share'.numAttached,
         to \in AttachedIn => attached'[p] = "current"
  PROVE  LockInv'
<1>1. Home' = Home
  BY DEF Home
<1>2. phase'[p] = to /\ \A q \in Others(p) : phase'[q] = phase[q]
  BY DEF SystemTypes, Others
<1>4. semId[p] = "current" /\ sysSem = 0 /\ \A q \in Others(p) : phase[q] \notin Guarded
  BY DEF LockInv, Exclusive, Others
<1>5. Exclusive'
  <2>1. \A q \in Proc : phase'[q] \in Guarded => q = p
    BY <1>2, <1>4 DEF Others
  <2> QED BY <1>4, <2>1 DEF Exclusive
<1>6. {"count", "enter", "uncount", "drop"} \subseteq Guarded
  BY DEF Guarded
<1>7. ReadRight'
  <2>1. \A q \in Others(p) : /\ phase'[q] \notin {"count", "enter", "uncount", "drop"}
                             /\ phase'[q] \in AttachedIn => attached'[q] = "current"
    BY <1>2, <1>4, <1>6 DEF LockInv, ReadRight, Others
  <2> SUFFICES ASSUME NEW q \in Proc
               PROVE  /\ phase'[q] = "count" => IF ShareExists' THEN attached'[q] = "current" /\ seen'[q] = share'.numAttached
                                                ELSE seen'[q] = None
                      /\ phase'[q] \in {"enter", "uncount"} => seen'[q] = share'.numprocs[Home']
                      /\ phase'[q] = "drop" => seen'[q] = share'.numAttached
                      /\ phase'[q] \in AttachedIn => attached'[q] = "current"
    BY DEF ReadRight
  <2>2. CASE q = p
    BY <1>1, <1>2, <2>2
  <2>3. CASE q # p
    BY <2>1, <2>3 DEF Others
  <2> QED BY <2>2, <2>3
<1> QED BY <1>4, <1>5, <1>7 DEF LockInv

(* ... and gives it back, or goes without. *)
LEMMA GoesOut ==
  ASSUME SystemTypes, LockInv, NEW p \in Proc, NEW to \in {"in", "out"}, phase' = [phase EXCEPT ![p] = to],
         phase[p] \in Guarded, UNCHANGED system, sysSem' <= 1,
         \A q \in Others(p) : phase[q] \in AttachedIn => attached'[q] = attached[q],
         to = "in" => attached'[p] = "current"
  PROVE  LockInv'
<1>2. phase'[p] = to /\ \A q \in Others(p) : phase'[q] = phase[q]
  BY DEF SystemTypes, Others
<1>4. \A q \in Others(p) : phase[q] \notin Guarded
  BY DEF LockInv, Exclusive, Others
<1>6. {"count", "enter", "uncount", "drop"} \subseteq Guarded /\ {"in", "out"} \cap Guarded = {} /\ "out" \notin AttachedIn
  BY DEF Guarded, AttachedIn, Leaving
<1>5. \A q \in Proc : phase'[q] \notin Guarded
  BY <1>2, <1>4, <1>6 DEF Others
<1>7. ReadRight'
  <2> SUFFICES ASSUME NEW q \in Proc
               PROVE  /\ phase'[q] \notin {"count", "enter", "uncount", "drop"}
                      /\ phase'[q] \in AttachedIn => attached'[q] = "current"
    BY DEF ReadRight
  <2>1. CASE q = p
    BY <1>2, <1>6, <2>1
  <2>2. CASE q # p
    BY <1>2, <1>5, <1>6, <2>2 DEF LockInv, ReadRight, Others
  <2> QED BY <2>1, <2>2
<1> QED BY <1>5, <1>7 DEF LockInv, Exclusive

(* Who gives it back had it, and leaves it free. *)
LEMMA Given ==
  ASSUME SystemTypes, LockInv, NEW p \in Proc, phase[p] \in Guarded, semGive(p)
  PROVE  sysSem' <= 1
<1> QED BY DEF LockInv, Exclusive, semGive

(* A step that touches no count and makes nothing, of a process that is    *)
(* not the parent leaving its children.                                    *)
LEMMA QuietStep ==
  ASSUME SystemTypes, SystemTypes', FamilyInv, HomeInv', NEW p \in Proc, NEW from \in AnyPhase, NEW to \in AnyPhase,
         Moves(p, from, to), from # "out" \/ (p = Parent /\ ~ hasStarted), to \notin {"child", "in"},
         from = "in" => p \in Child \/ (at.does = "idle" /\ Childless),
         to \in AttachedIn => from \in AttachedIn, to \in CountedIn <=> from \in CountedIn,
         to \in UsesIn => from \in UsesIn, to \in {"register", "enter"} => from = "register",
         UNCHANGED <<share, semSet, exists, uses, hasStarted, at>>
  PROVE  FamilyInv'
<1>1. phase[p] = from /\ phase' = [phase EXCEPT ![p] = to] /\ UNCHANGED system
  BY DEF Moves
<1>2. share' \in Counts /\ uses'[p] = uses[p] /\ (from \in UsesIn => uses[p] = "current")
  BY <1>1 DEF FamilyInv
<1>4. CASE p = Parent
  <2>1. at.does = "idle" /\ Childless
    <3>1. from # "child"
      BY <1>1, <1>4 DEF FamilyInv, HomeInv
    <3>2. from \in Starting \cup Leaving \/ from = "out" \/ from = "in"
      BY <3>1 DEF AnyPhase, AttachedIn, Starting
    <3>3. from = "out" => at.does = "idle" /\ Childless
      BY <1>4 DEF FamilyInv, HomeInv
    <3>4. Parent \notin Child
      BY DEF Child
    <3> QED BY <1>1, <1>4, <3>2, <3>3, <3>4, Who
  <2>2. /\ from \in AttachedIn => share.numAttached >= 1
        /\ from \in CountedIn => share.numprocs[Home] >= 1
        /\ from = "register" => semSet[Home] /\ exists[Home] = Facility
    BY <1>1, <1>4 DEF FamilyInv
  <2>3. to \in Starting \cup Leaving \cup {"in", "out"}
    BY DEF AnyPhase, AttachedIn, Starting
  <2>4. Home' = Home
    BY <1>1 DEF Home
  <2> QED BY <1>1, <1>2, <1>4, <2>1, <2>2, <2>3, <2>4, ParentMoves
<1>5. CASE p \in Child
  <2>1. Raising
    BY <1>1, <1>5, Who, PidAssumption DEF Child
  <2>2. /\ Number(CountedIn)' = Number(CountedIn) /\ Number(CountedIn) \in Nat
        /\ Number(AttachedIn)' <= Number(AttachedIn)
        /\ Number(AttachedIn)' \in Nat /\ Number(AttachedIn) \in Nat
    <3>1. /\ Number(CountedIn)' = Number(CountedIn) /\ Number(CountedIn) \in Nat
          /\ Number(AttachedIn)' \in Nat /\ Number(AttachedIn) \in Nat
      BY <1>1, ChildrenMove
    <3>2. \/ Number(AttachedIn)' = Number(AttachedIn)
          \/ Number(AttachedIn)' = Number(AttachedIn) - 1
      BY <1>1, <1>5, ChildrenMove
    <3> QED BY <3>1, <3>2
  <2>3. share.numprocs[Home] >= 1 + Number(CountedIn) /\ share.numAttached >= 1 + Number(AttachedIn)
    BY <2>1 DEF FamilyInv, Family
  <2>4. share'.numprocs[Home] >= 1 + Number(CountedIn)' /\ share'.numAttached >= 1 + Number(AttachedIn)'
    BY <2>2, <2>3, Who
  <2>5. \A q \in Proc \ {p} : uses'[q] = uses[q]
    OBVIOUS
  <2> QED BY <1>1, <1>2, <1>5, <2>1, <2>4, <2>5, ChildMoves
<1> QED BY <1>4, <1>5, Who

(* The segment is attached. *)
LEMMA AttachShareStep ==
  ASSUME SystemTypes, SystemTypes', FamilyInv, HomeInv', LockInv, NEW p \in Proc, UNCHANGED <<hasStarted, at>>,
         AttachShare(p)
  PROVE  FamilyInv' /\ LockInv'
<1>1. /\ phase[p] = "count" /\ phase' = [phase EXCEPT ![p] = "facilities"]
      /\ attached' = [attached EXCEPT ![p] = IF seen[p] = None THEN "current" ELSE @]
      /\ UNCHANGED <<system, semSet, exists, uses, sysSem, semId>>
  BY DEF AttachShare, Moves
<1>2. /\ "count" \in Starting /\ "count" \notin CountedIn /\ "count" \notin AttachedIn
      /\ "facilities" \in AnyPhase /\ "facilities" \in AttachedIn /\ "facilities" \notin CountedIn
      /\ "facilities" \notin UsesIn /\ "facilities" \in Starting \cup Leaving \cup {"in", "out"}
      /\ {"count", "facilities"} \subseteq Guarded
  BY DEF Starting, CountedIn, AttachedIn, AnyPhase, UsesIn, Leaving, Guarded
<1>3. /\ attached'[p] = "current" /\ \A q \in Others(p) : attached'[q] = attached[q]
      /\ share' = IF ShareExists THEN [share EXCEPT !.numAttached = @ + 1]
                  ELSE [NoShare EXCEPT !.numAttached = 1]
  <2>1. IF ShareExists THEN attached[p] = "current" /\ seen[p] = share.numAttached ELSE seen[p] = None
    BY <1>1 DEF LockInv, ReadRight
  <2>2. ShareExists => seen[p] # None
    BY <2>1, Who DEF None
  <2>3. attached'[p] = "current" /\ \A q \in Others(p) : attached'[q] = attached[q]
    BY <1>1, <2>1, <2>2 DEF SystemTypes, Others
  <2> QED BY <2>1, <2>2, <2>3 DEF AttachShare
<1>4. share' \in Counts /\ share'.numAttached \in Nat /\ share'.numAttached >= 1
  <2>1. CASE ShareExists
    <3>1. share' = [share EXCEPT !.numAttached = @ + 1]
      BY <1>3, <2>1
    <3> QED BY <3>1, Who DEF Counts
  <2>2. CASE ~ ShareExists
    <3>1. share' = [numAttached |-> 1, numprocs |-> [i \in SystemID |-> 0]]
      BY <1>3, <2>2 DEF NoShare
    <3> QED BY <3>1 DEF Counts
  <2> QED BY <2>1, <2>2
<1>7. LockInv'
  BY <1>1, <1>2, <1>3, StaysIn
<1>5. CASE p = Parent
  <2>1. at.does = "idle" /\ Childless
    BY <1>1, <1>2, <1>5, Who
  <2> QED BY <1>1, <1>2, <1>4, <1>5, <1>7, <2>1, ParentMoves
<1>6. CASE p \in Child
  <2>1. Raising
    BY <1>1, <1>6, Who
  <2>2. share.numprocs[Home] >= 1 + Number(CountedIn) /\ share.numAttached >= 1 + Number(AttachedIn)
    BY <2>1 DEF FamilyInv, Family
  <2>3. /\ Number(CountedIn)' = Number(CountedIn) /\ Number(AttachedIn)' = Number(AttachedIn) + 1
        /\ Number(AttachedIn) \in Nat /\ Number(CountedIn) \in Nat
    BY <1>1, <1>2, <1>6, ChildrenMove
  <2>4. ShareExists
    BY <2>2, <2>3, Who DEF ShareExists
  <2>5. share'.numprocs[Home] = share.numprocs[Home] /\ share'.numAttached = share.numAttached + 1
    BY <1>3, <2>4, Who DEF Counts
  <2>6. share'.numprocs[Home] >= 1 + Number(CountedIn)' /\ share'.numAttached >= 1 + Number(AttachedIn)'
    BY <2>2, <2>3, <2>5, Who
  <2> QED BY <1>1, <1>2, <1>4, <1>6, <1>7, <2>1, <2>6, ChildMoves
<1> QED BY <1>5, <1>6, Who

(* The children are not the first of the system. *)
LEMMA NotFirst ==
  ASSUME SystemTypes, FamilyInv, LockInv, NEW p \in Child, phase[p] = "facilities"
  PROVE  ~ Finds(p, TRUE)
<1>1. p \in Proc /\ phase[p] # "out" /\ "facilities" \in AttachedIn
  BY DEF Child, AttachedIn
<1>2. Raising /\ system[p] = Home /\ share.numprocs[Home] \in Nat
  BY <1>1, Who
<1>3. share.numprocs[Home] >= 1 + Number(CountedIn)
  BY <1>2 DEF FamilyInv, Family
<1>4. Number(CountedIn) \in Nat
  <2>1. Child \in SUBSET Proc /\ IsFiniteSet(Child)
    <3>1. Child \in SUBSET Proc
      BY DEF Child
    <3> QED BY <3>1, SystemAssumption, FS_Subset
  <2>2. ChildrenIn(CountedIn) \in SUBSET Child
    BY DEF ChildrenIn
  <2> QED BY <2>1, <2>2, FS_Subset, FS_CardinalityType DEF Number
<1>5. attached[p] = "current"
  BY <1>1 DEF LockInv, ReadRight
<1> QED BY <1>2, <1>3, <1>4, <1>5 DEF Finds

(* The parent makes the facilities, or fails to. *)
LEMMA MakeStep ==
  ASSUME SystemTypes, SystemTypes', FamilyInv, HomeInv', LockInv, NEW p \in Proc, UNCHANGED <<hasStarted, at>>,
         MakeFacilities(p) \/ MakeFails(p)
  PROVE  FamilyInv' /\ LockInv'
<1>1. phase[p] = "facilities" /\ Finds(p, TRUE) /\ UNCHANGED <<system, share, attached, seen, semId>>
  BY DEF MakeFacilities, MakeFails, Moves
<1>2. p = Parent /\ at.does = "idle" /\ Childless
  <2>1. p = Parent
    BY <1>1, Who, NotFirst
  <2>2. "facilities" \in Starting
    BY DEF Starting
  <2> QED BY <1>1, <2>1, <2>2, Who
<1>3. share.numAttached >= 1 /\ share' \in Counts /\ attached[p] = "current"
  BY <1>1, <1>2 DEF FamilyInv, AttachedIn, LockInv, ReadRight
<1>4. system[p] = Home /\ Home \in SystemID /\ {"facilities", "blocked", "register"} \subseteq Guarded
  BY Who DEF Guarded
<1>5. CASE MakeFacilities(p)
  <2>1. PICK to \in {"blocked", "register"} : phase' = [phase EXCEPT ![p] = to]
    BY <1>5 DEF MakeFacilities, Moves
  <2>2. /\ semSet' = [semSet EXCEPT ![Home] = TRUE] /\ exists' = [exists EXCEPT ![Home] = Facility]
        /\ uses' = [Stale(uses, {q \in Proc : system[q] = Home}) EXCEPT ![p] = "current"]
        /\ UNCHANGED sysSem
    BY <1>4, <1>5 DEF MakeFacilities
  <2>3. to \in AnyPhase /\ to \in Starting \cup Leaving \cup {"in", "out"} /\ to \notin CountedIn
    BY DEF AnyPhase, Starting, CountedIn
  <2>4. uses'[p] = "current"
    BY <2>2 DEF SystemTypes, Stale
  <2>6. semSet'[Home] /\ exists'[Home] = Facility
    BY <1>4, <2>2 DEF SystemTypes
  <2>7. FamilyInv'
    BY <1>1, <1>2, <1>3, <2>1, <2>3, <2>4, <2>6, ParentMoves
  <2>8. LockInv'
    BY <1>1, <1>3, <1>4, <2>1, <2>2, StaysIn
  <2> QED BY <2>7, <2>8
<1>6. CASE MakeFails(p)
  <2>1. phase' = [phase EXCEPT ![p] = "out"] /\ semGive(p)
    BY <1>6 DEF MakeFails, Moves
  <2>2. "out" \in Starting \cup Leaving \cup {"in", "out"} /\ "out" \notin AttachedIn /\ "out" \notin CountedIn
        /\ "out" \notin UsesIn
    BY DEF AnyPhase, Starting, AttachedIn, CountedIn, UsesIn, Leaving
  <2>3. FamilyInv'
    BY <1>1, <1>2, <1>3, <2>1, <2>2, ParentMoves
  <2>4. LockInv'
    BY <1>1, <1>4, <2>1, Given, GoesOut
  <2> QED BY <2>3, <2>4
<1> QED BY <1>5, <1>6

(* A later process attaches to them, or fails to. *)
LEMMA AttachFacilitiesStep ==
  ASSUME SystemTypes, SystemTypes', FamilyInv, HomeInv', LockInv, NEW p \in Proc, UNCHANGED <<hasStarted, at>>,
         AttachFacilities(p)
  PROVE  FamilyInv' /\ LockInv'
<1>2. system[p] = Home /\ Home \in SystemID
  BY Who
<1>1. /\ phase[p] = "facilities" /\ phase' = [phase EXCEPT ![p] = "register"]
      /\ exists' = [exists EXCEPT ![Home] = Facility] /\ semSet' = [semSet EXCEPT ![Home] = TRUE]
      /\ uses' = [uses EXCEPT ![p] = "current"]
      /\ UNCHANGED <<system, share, sysSem, semId, attached, seen>>
  BY <1>2 DEF AttachFacilities, Moves
<1>4. /\ "register" \in AnyPhase /\ "register" \in Starting \cup Leaving \cup {"in", "out"} /\ "register" \notin CountedIn
      /\ "register" \in AttachedIn /\ "facilities" \in AttachedIn /\ "facilities" \in Starting
      /\ "facilities" \notin CountedIn /\ {"facilities", "register"} \subseteq Guarded
  BY DEF AnyPhase, Starting, CountedIn, AttachedIn, Guarded
<1>6. semSet'[Home] /\ exists'[Home] = Facility /\ uses'[p] = "current"
      /\ \A q \in Proc \ {p} : uses'[q] = uses[q]
  BY <1>1, <1>2 DEF SystemTypes
<1>3. attached[p] = "current" /\ share' \in Counts
  BY <1>1, <1>4 DEF LockInv, ReadRight, FamilyInv
<1>5. LockInv'
  BY <1>1, <1>3, <1>4, StaysIn
<1>7. CASE p = Parent
  <2>1. at.does = "idle" /\ Childless /\ share'.numAttached >= 1
    BY <1>1, <1>4, <1>7, Who DEF FamilyInv
  <2> QED BY <1>1, <1>3, <1>4, <1>5, <1>6, <1>7, <2>1, ParentMoves
<1>8. CASE p \in Child
  <2>1. Raising
    BY <1>1, <1>8, Who
  <2>2. share.numprocs[Home] >= 1 + Number(CountedIn) /\ share.numAttached >= 1 + Number(AttachedIn)
    BY <2>1 DEF FamilyInv, Family
  <2>3. Number(CountedIn)' = Number(CountedIn) /\ Number(AttachedIn)' = Number(AttachedIn)
    BY <1>1, <1>4, ChildrenMove
  <2>4. share'.numprocs[Home] >= 1 + Number(CountedIn)' /\ share'.numAttached >= 1 + Number(AttachedIn)'
    BY <1>1, <2>2, <2>3
  <2> QED BY <1>1, <1>3, <1>4, <1>5, <1>6, <1>8, <2>1, <2>4, ChildMoves
<1> QED BY <1>7, <1>8, Who

(* A process is counted, and the semaphore given back. *)
LEMMA RegisterStep ==
  ASSUME SystemTypes, SystemTypes', FamilyInv, HomeInv', LockInv, NEW p \in Proc, UNCHANGED <<hasStarted, at>>,
         Register(p)
  PROVE  FamilyInv' /\ LockInv'
<1>2. system[p] = Home /\ Home \in SystemID
  BY Who
<1>3. /\ "in" \in AnyPhase /\ "in" \in Starting \cup Leaving \cup {"in", "out"} /\ "in" \in CountedIn /\ "in" \in AttachedIn
      /\ "enter" \in AttachedIn /\ "enter" \notin CountedIn /\ "enter" \in Starting
      /\ "enter" \in UsesIn /\ "enter" \in Guarded
  BY DEF AnyPhase, Starting, CountedIn, UsesIn, AttachedIn, Guarded
<1>0. phase[p] = "enter"
  BY DEF Register, Moves
<1>9. attached[p] = "current" /\ seen[p] = share.numprocs[Home]
  BY <1>0, <1>3 DEF LockInv, ReadRight
<1>1. /\ phase' = [phase EXCEPT ![p] = "in"] /\ semGive(p)
      /\ share' = [share EXCEPT !.numprocs[Home] = @ + 1]
      /\ UNCHANGED <<system, semSet, exists, uses, attached, seen, semId>>
  BY <1>2, <1>9 DEF Register, WriteProcs, Moves
<1>4. /\ share' \in Counts /\ share'.numprocs[Home] = share.numprocs[Home] + 1
      /\ share'.numAttached = share.numAttached
  BY <1>1, <1>2, Who DEF Counts
<1>6. uses[p] = "current"
  BY <1>0, <1>3 DEF FamilyInv
<1>5. LockInv'
  BY <1>0, <1>1, <1>3, <1>9, Given, GoesOut
<1>7. CASE p = Parent
  <2>1. at.does = "idle" /\ Childless /\ share'.numAttached >= 1 /\ semSet[Home] /\ exists[Home] = Facility
    BY <1>0, <1>3, <1>4, <1>7, Who DEF FamilyInv
  <2>2. share'.numprocs[Home] >= 1
    BY <1>4, Who
  <2> QED BY <1>1, <1>3, <1>4, <1>5, <1>6, <1>7, <2>1, <2>2, ParentMoves
<1>8. CASE p \in Child
  <2>1. Raising
    BY <1>0, <1>8, Who
  <2>2. share.numprocs[Home] >= 1 + Number(CountedIn) /\ share.numAttached >= 1 + Number(AttachedIn)
    BY <2>1 DEF FamilyInv, Family
  <2>3. /\ Number(CountedIn)' = Number(CountedIn) + 1 /\ Number(AttachedIn)' = Number(AttachedIn)
        /\ Number(CountedIn) \in Nat
    BY <1>0, <1>1, <1>3, <1>8, ChildrenMove
  <2>4. share'.numprocs[Home] >= 1 + Number(CountedIn)' /\ share'.numAttached >= 1 + Number(AttachedIn)'
    BY <1>4, <2>2, <2>3, Who
  <2>5. \A q \in Proc \ {p} : uses'[q] = uses[q]
    BY <1>1
  <2> QED BY <1>1, <1>3, <1>4, <1>5, <1>6, <1>8, <2>1, <2>4, <2>5, ChildMoves
<1> QED BY <1>7, <1>8, Who

(* A process dies: nobody takes it off the counts. *)
LEMMA DiesStep ==
  ASSUME SystemTypes, SystemTypes', FamilyInv, HomeInv', LockInv, NEW p \in Proc, UNCHANGED <<hasStarted, at>>,
         Dies(p)
  PROVE  FamilyInv' /\ LockInv'
<1>1. /\ phase[p] = "in" /\ phase' = [phase EXCEPT ![p] = "out"]
      /\ uses' = [uses EXCEPT ![p] = "none"]
      /\ attached' = [attached EXCEPT ![p] = "none"] /\ semId' = [semId EXCEPT ![p] = "none"]
      /\ UNCHANGED <<system, semSet, exists, share, seen, sysSem>>
  BY DEF Dies, Moves
<1>3. /\ "out" \in AnyPhase /\ "out" \in Starting \cup Leaving \cup {"in", "out"}
      /\ "out" \notin AttachedIn /\ "out" \notin CountedIn /\ "out" \notin UsesIn
      /\ "in" \in AttachedIn /\ "in" \in CountedIn /\ "in" \notin Guarded /\ "out" \notin Guarded
  BY DEF AnyPhase, Starting, CountedIn, UsesIn, AttachedIn, Leaving, Guarded
<1>4. LockInv'
  <2>1. /\ \A q \in Others(p) : attached'[q] = attached[q] /\ semId'[q] = semId[q]
        /\ sysSem' <= 1
    BY <1>1 DEF Others, LockInv, SystemTypes
  <2> QED BY <1>1, <1>3, <2>1, Outside
<1>5. share' \in Counts
  BY <1>1 DEF FamilyInv
<1>6. CASE p = Parent /\ ~ hasStarted
  <2>1. at.does = "idle" /\ Childless
    BY <1>6 DEF FamilyInv, HomeInv
  <2> QED BY <1>1, <1>3, <1>4, <1>5, <1>6, <2>1, ParentMoves
<1>7. CASE p = Parent /\ hasStarted
  <2>1. phase'[Parent] = "out" /\ \A c \in Child : phase'[c] = phase[c]
    BY <1>1, <1>7, Who DEF Child, SystemTypes
  <2>2. Family /\ Home' = Home
    BY <1>1, <1>7 DEF Family, Home
  <2>3. Number(CountedIn)' = Number(CountedIn) /\ Number(AttachedIn)' = Number(AttachedIn)
    BY <1>1, <1>3, <1>7, ChildrenMove
  <2>4. \A q \in Proc : phase'[q] \in UsesIn => uses'[q] = "current"
    <3> SUFFICES ASSUME NEW q \in Proc, phase'[q] \in UsesIn PROVE uses'[q] = "current"
      OBVIOUS
    <3>1. q # p
      BY <1>3, <1>7, <2>1
    <3>2. phase'[q] = phase[q] /\ uses'[q] = uses[q]
      BY <1>1, <3>1 DEF SystemTypes
    <3> QED BY <3>2 DEF FamilyInv
  <2>5. /\ share'.numprocs[Home'] >= 1 + Number(CountedIn)' /\ share'.numAttached >= 1 + Number(AttachedIn)'
        /\ semSet'[Home'] /\ exists'[Home'] = Facility
    BY <1>1, <2>2, <2>3 DEF FamilyInv
  <2> QED BY <1>3, <1>4, <1>5, <2>1, <2>4, <2>5 DEF FamilyInv
<1>8. CASE p \in Child
  <2>1. Raising
    BY <1>1, <1>8, Who
  <2>2. share.numprocs[Home] >= 1 + Number(CountedIn) /\ share.numAttached >= 1 + Number(AttachedIn)
    BY <2>1 DEF FamilyInv, Family
  <2>3. /\ Number(CountedIn)' = Number(CountedIn) - 1 /\ Number(AttachedIn)' = Number(AttachedIn) - 1
        /\ Number(CountedIn) \in Nat /\ Number(AttachedIn) \in Nat
    BY <1>1, <1>3, <1>8, ChildrenMove
  <2>4. share'.numprocs[Home] >= 1 + Number(CountedIn)' /\ share'.numAttached >= 1 + Number(AttachedIn)'
    BY <1>1, <2>2, <2>3, Who
  <2>5. \A q \in Proc \ {p} : uses'[q] = uses[q]
    BY <1>1 DEF SystemTypes
  <2> QED BY <1>1, <1>3, <1>4, <1>5, <1>8, <2>1, <2>4, <2>5, ChildMoves
<1> QED BY <1>6, <1>7, <1>8, Who

(* A process leaves the system: the facilities go with the parent. *)
LEMMA LeaveSystemStep ==
  ASSUME SystemTypes, SystemTypes', FamilyInv, HomeInv', LockInv, NEW p \in Proc, UNCHANGED <<hasStarted, at>>,
         LeaveSystem(p)
  PROVE  FamilyInv' /\ LockInv'
<1>2. system[p] = Home /\ Home \in SystemID
  BY Who
<1>3. /\ "detach" \in AnyPhase /\ "detach" \in Starting \cup Leaving \cup {"in", "out"} /\ "detach" \in AttachedIn
      /\ "detach" \notin CountedIn /\ "detach" \notin UsesIn
      /\ "uncount" \in AttachedIn /\ "uncount" \in CountedIn /\ "uncount" \in Leaving
      /\ {"uncount", "detach"} \subseteq Guarded
  BY DEF AnyPhase, Starting, CountedIn, UsesIn, AttachedIn, Leaving, Guarded
<1>0. phase[p] = "uncount"
  BY DEF LeaveSystem, Moves
<1>9. attached[p] = "current" /\ seen[p] = share.numprocs[Home]
  BY <1>0, <1>3 DEF LockInv, ReadRight
<1>1. /\ phase' = [phase EXCEPT ![p] = "detach"]
      /\ share' = [share EXCEPT !.numprocs[Home] = @ - 1]
      /\ UNCHANGED <<system, attached, seen, semId, sysSem>>
  BY <1>2, <1>9 DEF LeaveSystem, WriteProcs, Moves
<1>4. share.numprocs[Home] >= 1 /\ share.numAttached >= 1
  <2>1. CASE p = Parent
    BY <1>0, <1>3, <2>1 DEF FamilyInv
  <2>2. CASE p \in Child
    <3>1. Raising
      BY <1>0, <2>2, Who
    <3>2. share.numprocs[Home] >= 1 + Number(CountedIn) /\ share.numAttached >= 1 + Number(AttachedIn)
      BY <3>1 DEF FamilyInv, Family
    <3>3. Number(CountedIn) \in Nat /\ Number(AttachedIn) \in Nat
      BY <1>1, <1>3, ChildrenMove
    <3> QED BY <3>2, <3>3, Who
  <2> QED BY <2>1, <2>2, Who
<1>5. /\ share' \in Counts /\ share'.numAttached = share.numAttached
      /\ share'.numprocs[Home] = share.numprocs[Home] - 1
  <2>1. share.numprocs[Home] - 1 \in Nat
    BY <1>4, Who
  <2>2. [share.numprocs EXCEPT ![Home] = @ - 1] \in [SystemID -> Nat]
    BY <1>2, <2>1, Who
  <2> QED BY <1>1, <1>2, <2>1, <2>2, Who DEF Counts
<1>6. LockInv'
  BY <1>0, <1>1, <1>3, <1>9, StaysIn
<1>8. CASE p = Parent
  <2>1. at.does = "idle" /\ Childless
    BY <1>0, <1>3, <1>8, Who
  <2> QED BY <1>1, <1>3, <1>4, <1>5, <1>6, <1>8, <2>1, ParentMoves
<1>10. CASE p \in Child
  <2>1. Raising
    BY <1>0, <1>10, Who
  <2>2. share.numprocs[Home] >= 1 + Number(CountedIn) /\ share.numAttached >= 1 + Number(AttachedIn)
    BY <2>1 DEF FamilyInv, Family
  <2>3. /\ Number(CountedIn)' = Number(CountedIn) - 1 /\ Number(AttachedIn)' = Number(AttachedIn)
        /\ Number(CountedIn) \in Nat /\ Number(AttachedIn) \in Nat /\ Number(CountedIn) >= 1
    BY <1>0, <1>1, <1>3, <1>10, ChildrenMove
  <2>4. UNCHANGED <<semSet, exists>> /\ uses' = [uses EXCEPT ![p] = "none"]
    <3>1. ~ IsLast(p, TRUE)
      BY <1>9, <2>2, <2>3, Who DEF IsLast
    <3> QED BY <3>1 DEF LeaveSystem
  <2>7. share'.numprocs[Home] >= 1 + Number(CountedIn)' /\ share'.numAttached >= 1 + Number(AttachedIn)'
    BY <1>5, <2>2, <2>3, Who
  <2>8. \A q \in Proc \ {p} : uses'[q] = uses[q]
    BY <2>4 DEF SystemTypes
  <2> QED BY <1>1, <1>3, <1>5, <1>6, <1>10, <2>1, <2>4, <2>7, <2>8, ChildMoves
<1> QED BY <1>8, <1>10, Who

(* It leaves: the segment and the semaphore go with the parent. *)
LEMMA LeaveStep ==
  ASSUME SystemTypes, SystemTypes', FamilyInv, HomeInv', LockInv, NEW p \in Proc, UNCHANGED <<hasStarted, at>>,
         Leave(p)
  PROVE  FamilyInv' /\ LockInv'
<1>3. /\ "out" \in AnyPhase /\ "out" \notin AttachedIn /\ "out" \notin CountedIn /\ "out" \notin UsesIn
      /\ "out" \in Starting \cup Leaving \cup {"in", "out"} /\ "drop" \notin CountedIn
      /\ "drop" \in AttachedIn /\ "drop" \in Leaving /\ "drop" \in Guarded
  BY DEF AnyPhase, Starting, CountedIn, UsesIn, AttachedIn, Leaving, Guarded
<1>0. phase[p] = "drop"
  BY DEF Leave, Moves
<1>9. attached[p] = "current" /\ seen[p] = share.numAttached
  BY <1>0, <1>3 DEF LockInv, ReadRight
<1>1. /\ phase' = [phase EXCEPT ![p] = "out"]
      /\ UNCHANGED <<system, seen, semSet, exists, uses>>
  BY DEF Leave, Moves
<1>2. semId[p] = "current" /\ sysSem = 0
  BY <1>0, <1>3 DEF LockInv, Exclusive
<1>4. CASE p = Parent
  <2>1. at.does = "idle" /\ Childless /\ share.numAttached >= 1
    BY <1>0, <1>3, <1>4, Who DEF FamilyInv
  <2>2. share' \in Counts
    <3>1. NoShare \in Counts
      BY DEF NoShare, Counts
    <3>2. [share EXCEPT !.numAttached = share.numAttached - 1] \in Counts
      BY <2>1, Who DEF Counts
    <3> QED BY <1>9, <3>1, <3>2 DEF Leave
  <2>3. sysSem' <= 1
    <3>1. sysSem' = (IF semId[p] = "current" THEN None ELSE sysSem) \/ semGive(p)
      BY DEF Leave
    <3> QED BY <1>2, <3>1 DEF semGive, None
  <2>4. \A q \in Others(p) : phase[q] \notin AttachedIn
    BY <1>3, <1>4, <2>1 DEF Childless, Child, Others
  <2>5. LockInv'
    BY <1>0, <1>1, <1>3, <2>3, <2>4, GoesOut
  <2> QED BY <1>1, <1>3, <1>4, <2>1, <2>2, <2>5, ParentMoves
<1>5. CASE p \in Child
  <2>1. Raising
    BY <1>0, <1>5, Who
  <2>2. share.numprocs[Home] >= 1 + Number(CountedIn) /\ share.numAttached >= 1 + Number(AttachedIn)
    BY <2>1 DEF FamilyInv, Family
  <2>3. /\ Number(CountedIn)' = Number(CountedIn) /\ Number(AttachedIn)' = Number(AttachedIn) - 1
        /\ Number(CountedIn) \in Nat /\ Number(AttachedIn) \in Nat /\ Number(AttachedIn) >= 1
    BY <1>0, <1>1, <1>3, <1>5, ChildrenMove
  <2>4. ~ IsLast(p, TRUE)
    BY <1>9, <2>2, <2>3, Who DEF IsLast
  <2>5. /\ share' = [share EXCEPT !.numAttached = share.numAttached - 1]
        /\ attached' = [attached EXCEPT ![p] = "none"] /\ semGive(p)
    BY <1>9, <2>4 DEF Leave
  <2>6. /\ share' \in Counts /\ share'.numAttached = share.numAttached - 1
        /\ share'.numprocs[Home] = share.numprocs[Home]
    BY <2>2, <2>3, <2>5, Who DEF Counts
  <2>7. share'.numprocs[Home] >= 1 + Number(CountedIn)' /\ share'.numAttached >= 1 + Number(AttachedIn)'
    BY <2>2, <2>3, <2>6, Who
  <2>8. \A q \in Others(p) : attached'[q] = attached[q]
    BY <2>5 DEF Others, SystemTypes
  <2>9. LockInv'
    BY <1>0, <1>1, <1>3, <2>5, <2>8, Given, GoesOut
  <2>10. \A q \in Proc \ {p} : uses'[q] = uses[q]
    BY <1>1
  <2> QED BY <1>1, <1>3, <1>5, <2>1, <2>6, <2>7, <2>9, <2>10, ChildMoves
<1> QED BY <1>4, <1>5, Who

(* A child begins. *)
LEMMA ChildBegins ==
  ASSUME SystemTypes, ListTypes, HomeInv, (radStartProcess \/ \E c \in Child : ChildStarts(c))
  PROVE  SystemTypes' /\ HomeInv' /\ (LockInv /\ FamilyInv => LockInv' /\ FamilyInv')
<1>0. /\ "child" \in AnyPhase /\ "set" \in AnyPhase /\ "set" \in Starting
      /\ {"out", "child", "set"} \cap AttachedIn = {} /\ {"out", "child", "set"} \cap CountedIn = {}
      /\ {"out", "child", "set"} \cap UsesIn = {} /\ {"out", "child", "set"} \cap Guarded = {}
      /\ "in" \notin Starting /\ "in" \notin Leaving /\ "set" \notin Leaving
  BY DEF AnyPhase, Starting, AttachedIn, CountedIn, UsesIn, Leaving, Guarded
<1>1. ASSUME NEW c \in Child, NEW to \in {"child", "set"}, phase[c] \in {"out", "child"}, Raising,
             phase' = [phase EXCEPT ![c] = to], UNCHANGED <<system, share, seen, semSet, exists, uses, attached>>,
             \A q \in Others(c) : semId'[q] = semId[q],
             sysSem' = sysSem \/ (sysSem = None /\ sysSem' = 0),
             SystemTypes', HomeInv', LockInv, FamilyInv
      PROVE  LockInv' /\ FamilyInv'
  <2>1. LockInv'
    <3>1. sysSem' <= 1 /\ (Inside # {} /\ sysSem = 0 => sysSem' = 0)
      BY <1>1 DEF LockInv, None
    <3>2. c \in Proc /\ phase[c] \notin Guarded /\ to \notin Guarded /\ to \notin AttachedIn
      BY <1>0, <1>1 DEF Child
    <3> QED BY <1>1, <3>1, <3>2, Outside
  <2>2. c \in Proc
    BY DEF Child
  <2>3. Number(CountedIn)' = Number(CountedIn) /\ Number(AttachedIn)' = Number(AttachedIn)
    BY <1>0, <1>1, <2>2, ChildrenMove
  <2>4. /\ share'.numprocs[Home] >= 1 + Number(CountedIn)' /\ share'.numAttached >= 1 + Number(AttachedIn)'
        /\ share' \in Counts
    BY <1>1, <2>3 DEF FamilyInv, Family
  <2>5. FamilyInv'
    BY <1>0, <1>1, <2>4, ChildMoves
  <2> QED BY <2>1, <2>5
<1>2. CASE \E c \in Child : ChildStarts(c)
  <2>1. PICK c \in Child : ChildStarts(c)
    BY <1>2
  <2>2. /\ phase[c] = "child" /\ phase' = [phase EXCEPT ![c] = "set"] /\ c \in Proc
        /\ semId' = [semId EXCEPT ![c] = "current"] /\ sysSem' = (IF sysSem = None THEN 0 ELSE sysSem)
        /\ UNCHANGED <<system, share, seen, semSet, exists, uses, attached, disturbed, hasStarted, at>>
    BY <2>1 DEF ChildStarts, listVars, Child
  <2>3. Raising
    BY <2>2 DEF Raising, Childless
  <2>4. Moves(c, "child", "set")
    BY <2>2 DEF Moves
  <2>5. SystemTypes'
    <3>1. semId' \in [Proc -> Known] /\ sysSem' \in Int
      BY <2>2 DEF SystemTypes, Known
    <3> QED BY <1>0, <2>2, <2>4, <3>1, Retyped DEF SystemTypes
  <2>6. HomeInv'
    BY <1>0, <2>2, <2>4, HomeKept
  <2>7. \A q \in Others(c) : semId'[q] = semId[q]
    BY <2>2 DEF Others, SystemTypes
  <2> QED BY <1>1, <2>2, <2>3, <2>5, <2>6, <2>7
<1>3. CASE radStartProcess
  <2> DEFINE c == procList[at.entry].entry
  <2>1. /\ at.does = "fork" /\ phase[Parent] = "in"
        /\ UNCHANGED <<system, share, seen, semSet, exists, uses, attached, semId, sysSem, disturbed, hasStarted>>
        /\ at' = [at EXCEPT !.does = "wait"]
        /\ \/ phase[c] = "out" /\ phase' = [phase EXCEPT ![c] = "child"]
           \/ UNCHANGED phase
    BY <1>3 DEF radStartProcess
  <2>2. Raising /\ Raising' /\ hasStarted
    BY <2>1 DEF Raising, ListTypes, HomeInv
  <2>3. CASE UNCHANGED phase
    <3>1. SystemTypes'
      BY <2>1, <2>3 DEF SystemTypes, Home
    <3>2. Number(CountedIn)' = Number(CountedIn) /\ Number(AttachedIn)' = Number(AttachedIn)
      BY <2>3 DEF Number, ChildrenIn
    <3>3. HomeInv'
      BY <1>0, <2>1, <2>2, <2>3 DEF HomeInv
    <3>4. FamilyInv => FamilyInv'
      BY <2>1, <2>2, <2>3, <3>2, <3>3 DEF FamilyInv, Family, Home
    <3>5. LockInv => LockInv'
      BY <2>1, <2>3 DEF LockInv, Exclusive, ReadRight, ShareExists, Home
    <3> QED BY <3>1, <3>3, <3>4, <3>5
  <2>4. CASE phase[c] = "out" /\ phase' = [phase EXCEPT ![c] = "child"]
    <3>1. CASE c \in Proc
      <4>0. c # Parent
        BY <2>1, <2>4
      <4>1. c \in Child
        BY <3>1, <4>0 DEF Child
      <4> HIDE DEF c
      <4>2. Moves(c, "out", "child") /\ phase'[Parent] = phase[Parent]
        BY <2>1, <2>4, <4>0 DEF Moves
      <4>3. SystemTypes'
        BY <1>0, <2>1, <3>1, <4>2, Retyped DEF SystemTypes
      <4>4. HomeInv'
        BY <1>0, <2>1, <2>2, <4>2 DEF HomeInv
      <4> QED BY <1>1, <2>1, <2>2, <2>4, <4>1, <4>3, <4>4
    <3>2. CASE c \notin Proc
      BY <2>1, <2>3, <2>4, <3>2 DEF SystemTypes
    <3> QED BY <3>1, <3>2
  <2> QED BY <2>1, <2>3, <2>4
<1> QED BY <1>2, <1>3

(* The list changes, or the parent goes on with it: nobody moves. *)
LEMMA ListSteps ==
  ASSUME SystemTypes, ListTypes, HomeInv,
         UNCHANGED <<sysSem, semId, share, attached, seen, semSet, exists, uses, phase, system, disturbed>>,
         hasStarted' \in BOOLEAN,
         at'.does # "idle" => hasStarted',
         hasStarted => hasStarted',
         Family' => Family, phase[Parent] \notin Leaving \/ at'.does = "idle",
         ~ hasStarted /\ hasStarted' => phase[Parent] = "in"
  PROVE  SystemTypes' /\ HomeInv' /\ (LockInv /\ FamilyInv => LockInv' /\ FamilyInv')
<1>1. SystemTypes'
  BY DEF SystemTypes, Home
<1>2. Home' = Home
  BY DEF Home
<1>3. Number(CountedIn)' = Number(CountedIn) /\ Number(AttachedIn)' = Number(AttachedIn)
  BY DEF Number, ChildrenIn
<1>4. ~ hasStarted' \/ phase'[Parent] \in Leaving => at'.does = "idle" /\ Childless'
  BY DEF HomeInv, Childless
<1>5. phase'[Parent] \in Starting => ~ hasStarted'
  <2>1. "in" \notin Starting
    BY DEF Starting
  <2> QED BY <2>1 DEF HomeInv, ListTypes
<1>6. HomeInv'
  BY <1>4, <1>5 DEF HomeInv
<1>7. FamilyInv => FamilyInv'
  BY <1>2, <1>3, <1>6 DEF FamilyInv
<1>8. LockInv => LockInv'
  BY <1>2 DEF LockInv, Exclusive, ReadRight, ShareExists
<1> QED BY <1>1, <1>6, <1>7, <1>8

-----------------------------------------------------------------------------
(* What InsertAt answers, ... *)
LEMMA Inserted ==
  ASSUME NEW S, NEW s \in Seq(S), NEW i \in 1 .. Len(s) + 1, NEW e \in S
  PROVE  /\ InsertAt(s, i, e) \in Seq(S) /\ Len(InsertAt(s, i, e)) = Len(s) + 1
         /\ \A k \in 1 .. Len(s) + 1 :
              InsertAt(s, i, e)[k] = IF k < i THEN s[k] ELSE IF k = i THEN e ELSE s[k - 1]
<1> DEFINE a == SubSeq(s, 1, i - 1)
           b == SubSeq(s, i, Len(s))
           n == Len(s)
           t == (a \o <<e>>) \o b
<1>1. n \in Nat /\ i \in Nat /\ 1 <= i /\ i <= n + 1 /\ \A k \in 1 .. n : s[k] \in S
  BY LenProperties, ElementOfSeq
<1>2. a \in Seq(S) /\ Len(a) = i - 1 /\ \A k \in 1 .. i - 1 : a[k] = s[k]
  <2>1. \A k \in 1 .. i - 1 : s[k] \in S
    BY <1>1
  <2>2. /\ a \in Seq(S) /\ Len(a) = (IF 1 <= i - 1 THEN i - 1 - 1 + 1 ELSE 0)
        /\ \A k \in 1 .. i - 1 - 1 + 1 : a[k] = s[1 + k - 1]
    BY <1>1, <2>1, SubSeqProperties
  <2> QED BY <1>1, <2>2
<1>3. b \in Seq(S) /\ Len(b) = n - i + 1 /\ \A k \in 1 .. n - i + 1 : b[k] = s[i + k - 1]
  <2>1. \A k \in i .. n : s[k] \in S
    BY <1>1
  <2>2. /\ b \in Seq(S) /\ Len(b) = (IF i <= n THEN n - i + 1 ELSE 0)
        /\ \A k \in 1 .. n - i + 1 : b[k] = s[i + k - 1]
    BY <1>1, <2>1, SubSeqProperties
  <2> QED BY <1>1, <2>2
<1> HIDE DEF a, b, n
<1>4. <<e>> \in Seq(S) /\ Len(<<e>>) = 1 /\ <<e>>[1] = e
  OBVIOUS
<1> DEFINE c == a \o <<e>>
<1>5. c \in Seq(S) /\ Len(c) = i /\ \A k \in 1 .. i : c[k] = IF k < i THEN s[k] ELSE e
  <2> DEFINE u == <<e>>
  <2>0. u \in Seq(S) /\ Len(u) = 1 /\ u[1] = e
    BY <1>4
  <2> HIDE DEF u
  <2>1. /\ a \o u \in Seq(S) /\ Len(a \o u) = Len(a) + Len(u)
        /\ \A k \in 1 .. Len(a) + Len(u) : (a \o u)[k] = IF k <= Len(a) THEN a[k] ELSE u[k - Len(a)]
    BY <1>2, <2>0, ConcatProperties
  <2>2. ASSUME NEW k \in 1 .. i PROVE (a \o u)[k] = IF k < i THEN s[k] ELSE e
    <3>1. k \in Nat /\ k \in 1 .. Len(a) + Len(u)
      BY <1>1, <1>2, <2>0
    <3>2. CASE k < i
      <4>1. k \in 1 .. i - 1 /\ k <= Len(a)
        BY <1>1, <1>2, <3>1, <3>2
      <4> QED BY <1>2, <2>1, <3>1, <3>2, <4>1
    <3>3. CASE k = i
      <4>1. ~ (k <= Len(a)) /\ k - Len(a) = 1
        BY <1>1, <1>2, <3>3
      <4> QED BY <2>0, <2>1, <3>1, <3>3, <4>1
    <3> QED BY <1>1, <3>1, <3>2, <3>3
  <2>3. Len(a \o u) = i
    BY <1>1, <1>2, <2>0, <2>1
  <2> QED BY <2>1, <2>2, <2>3 DEF u
<1> HIDE DEF c
<1>6. /\ c \o b \in Seq(S) /\ Len(c \o b) = Len(c) + Len(b)
      /\ \A k \in 1 .. Len(c) + Len(b) : (c \o b)[k] = IF k <= Len(c) THEN c[k] ELSE b[k - Len(c)]
  BY <1>3, <1>5, ConcatProperties
<1>7. Len(c \o b) = n + 1
  BY <1>1, <1>3, <1>5, <1>6
<1>8. ASSUME NEW k \in 1 .. n + 1
      PROVE  (c \o b)[k] = IF k < i THEN s[k] ELSE IF k = i THEN e ELSE s[k - 1]
  <2>1. k \in Nat /\ 1 <= k /\ k <= n + 1 /\ k \in 1 .. Len(c) + Len(b)
    BY <1>1, <1>3, <1>5
  <2>2. CASE k <= i
    <3>1. (c \o b)[k] = c[k] /\ k \in 1 .. i
      BY <1>1, <1>5, <1>6, <2>1, <2>2
    <3> QED BY <1>1, <1>5, <2>1, <2>2, <3>1
  <2>3. CASE k > i
    <3>1. (c \o b)[k] = b[k - i]
      BY <1>1, <1>5, <1>6, <2>1, <2>3
    <3>2. k - i \in 1 .. n - i + 1 /\ i + (k - i) - 1 = k - 1
      BY <1>1, <2>1, <2>3
    <3>3. b[k - i] = s[k - 1]
      BY <1>3, <3>2
    <3> QED BY <1>1, <2>1, <2>3, <3>1, <3>3
  <2> QED BY <1>1, <2>1, <2>2, <2>3
<1>9. InsertAt(s, i, e) = c \o b
  BY DEF InsertAt, a, b, c, n
<1> QED BY <1>6, <1>7, <1>8, <1>9 DEF n

(* ... and RemoveAt. *)
LEMMA Removed ==
  ASSUME NEW S, NEW s \in Seq(S), NEW i \in 1 .. Len(s)
  PROVE  /\ RemoveAt(s, i) \in Seq(S) /\ Len(RemoveAt(s, i)) = Len(s) - 1
         /\ \A k \in 1 .. Len(s) - 1 : RemoveAt(s, i)[k] = IF k < i THEN s[k] ELSE s[k + 1]
<1> DEFINE a == SubSeq(s, 1, i - 1)
           b == SubSeq(s, i + 1, Len(s))
           n == Len(s)
<1>1. n \in Nat /\ i \in Nat /\ 1 <= i /\ i <= n /\ \A k \in 1 .. n : s[k] \in S
  BY LenProperties, ElementOfSeq
<1>2. a \in Seq(S) /\ Len(a) = i - 1 /\ \A k \in 1 .. i - 1 : a[k] = s[k]
  <2>1. \A k \in 1 .. i - 1 : s[k] \in S
    BY <1>1
  <2>2. /\ a \in Seq(S) /\ Len(a) = (IF 1 <= i - 1 THEN i - 1 - 1 + 1 ELSE 0)
        /\ \A k \in 1 .. i - 1 - 1 + 1 : a[k] = s[1 + k - 1]
    BY <1>1, <2>1, SubSeqProperties
  <2> QED BY <1>1, <2>2
<1>3. b \in Seq(S) /\ Len(b) = n - i /\ \A k \in 1 .. n - i : b[k] = s[i + k]
  <2>1. \A k \in i + 1 .. n : s[k] \in S
    BY <1>1
  <2>2. /\ b \in Seq(S) /\ Len(b) = (IF i + 1 <= n THEN n - (i + 1) + 1 ELSE 0)
        /\ \A k \in 1 .. n - (i + 1) + 1 : b[k] = s[(i + 1) + k - 1]
    BY <1>1, <2>1, SubSeqProperties
  <2> QED BY <1>1, <2>2
<1> HIDE DEF a, b, n
<1>4. /\ a \o b \in Seq(S) /\ Len(a \o b) = Len(a) + Len(b)
      /\ \A k \in 1 .. Len(a) + Len(b) : (a \o b)[k] = IF k <= Len(a) THEN a[k] ELSE b[k - Len(a)]
  BY <1>2, <1>3, ConcatProperties
<1>5. Len(a \o b) = n - 1
  BY <1>1, <1>2, <1>3, <1>4
<1>6. ASSUME NEW k \in 1 .. n - 1
      PROVE  (a \o b)[k] = IF k < i THEN s[k] ELSE s[k + 1]
  <2>1. k \in Nat /\ 1 <= k /\ k <= n - 1 /\ k \in 1 .. Len(a) + Len(b)
    BY <1>1, <1>2, <1>3
  <2>2. CASE k < i
    <3>1. (a \o b)[k] = a[k] /\ k \in 1 .. i - 1
      BY <1>1, <1>2, <1>4, <2>1, <2>2
    <3> QED BY <1>2, <2>2, <3>1
  <2>3. CASE k >= i
    <3>1. (a \o b)[k] = b[k - (i - 1)]
      BY <1>1, <1>2, <1>4, <2>1, <2>3
    <3>2. k - (i - 1) \in 1 .. n - i /\ i + (k - (i - 1)) = k + 1
      BY <1>1, <2>1, <2>3
    <3>3. b[k - (i - 1)] = s[k + 1]
      BY <1>3, <3>2
    <3> QED BY <1>1, <2>1, <2>3, <3>1, <3>3
  <2> QED BY <1>1, <2>1, <2>2, <2>3
<1>7. RemoveAt(s, i) = a \o b
  BY DEF RemoveAt, a, b, n
<1> QED BY <1>4, <1>5, <1>6, <1>7 DEF n

(* A set of positions that has every smaller one is an interval. *)
LEMMA Downward ==
  ASSUME NEW n \in Nat, NEW S \in SUBSET (1 .. n), \A j \in S : \A k \in 1 .. j : k \in S
  PROVE  Cardinality(S) \in 0 .. n /\ S = 1 .. Cardinality(S)
<1> DEFINE T == {k \in Nat : k + 1 \notin S}
<1>1. T \in SUBSET Nat /\ n \in T
  <2>1. n + 1 \notin S
    OBVIOUS
  <2> QED BY <2>1
<1>2. PICK m \in T : \A y \in T : ~ (<<y, m>> \in OpToRel(<, Nat))
  BY <1>1, NatLessThanWellFounded, WFMin
<1>3. m \in Nat /\ m + 1 \notin S
  BY <1>2
<1>4. \A y \in Nat : y < m => y + 1 \in S
  <2> SUFFICES ASSUME NEW y \in Nat, y < m PROVE y + 1 \in S
    OBVIOUS
  <2>1. y \notin T
    BY <1>2, <1>3 DEF OpToRel
  <2> QED BY <2>1
<1> HIDE DEF T
<1>5. S = 1 .. m
  <2>1. ASSUME NEW k \in 1 .. m PROVE k \in S
    <3>1. k - 1 \in Nat /\ k - 1 < m /\ (k - 1) + 1 = k
      BY <1>3
    <3> QED BY <1>4, <3>1
  <2>2. ASSUME NEW k \in S PROVE k \in 1 .. m
    <3>1. k \in Nat /\ 1 <= k
      OBVIOUS
    <3>2. ~ (m + 1 \in 1 .. k)
      BY <1>3
    <3> QED BY <1>3, <3>1, <3>2
  <2> QED BY <2>1, <2>2
<1>6. Cardinality(1 .. m) = m
  <2>1. Cardinality(1 .. m) = (IF 1 > m THEN 0 ELSE m - 1 + 1)
    BY <1>3, FS_Interval
  <2> QED BY <1>3, <2>1
<1>7. m <= n
  <2>1. m = 0 \/ m \in S
    BY <1>3, <1>5
  <2> QED BY <1>3, <2>1
<1> QED BY <1>3, <1>5, <1>6, <1>7

-----------------------------------------------------------------------------
(* The order, while the list stays as it is and no child begins. *)
LEMMA NobodyBegins ==
  ASSUME OrderInv, UNCHANGED <<procList, hasStarted, ready, at, signalled>>,
         Orderly' => Orderly, \A c \in Child : phase'[c] # "out" => phase[c] # "out"
  PROVE  OrderInv'
<1>1. Current' = Current /\ \A k \in DOMAIN procList : InStore(k)' = InStore(k)
  BY DEF Current, InStore
<1>2. Ascending(procList')
  BY DEF OrderInv
<1>3. /\ ~ hasStarted' => \A k \in DOMAIN procList' : InStore(k)'
      /\ at'.does # "idle" => /\ at'.entry \in DOMAIN procList'
                              /\ \A k \in DOMAIN procList' : k > at'.entry => InStore(k)'
      /\ at'.does = "fork" => procList'[at'.entry].pid = NoPid
  BY <1>1 DEF OrderInv
<1>4. ASSUME Orderly'
      PROVE  /\ hasStarted' /\ at'.does = "idle" => \A k \in DOMAIN procList' : procList'[k].entry \in signalled'
             /\ at'.does # "idle" => \A k \in DOMAIN procList' : k < at'.entry => procList'[k].entry \in signalled'
             /\ ready' <= 1
             /\ ready' = 1 => at'.does = "wait" /\ Current' \in signalled'
             /\ \A c \in Child : c \notin signalled' /\ phase'[c] # "out" => at'.does = "wait" /\ Current' = c
  BY <1>1, <1>4 DEF OrderInv
<1> QED BY <1>2, <1>3, <1>4 DEF OrderInv

(* Priorities are numbers of at most Late. *)
LEMMA Priorities == \A e \in Entry : e.priority \in Nat /\ e.priority <= Late
<1> SUFFICES ASSUME NEW e \in Entry PROVE e.priority \in Nat /\ e.priority <= Late
  OBVIOUS
<1>1. e.priority \in Priority \/ e.priority = Late
  BY DEF Entry
<1>2. e.priority \in 1 .. 100 \/ e.priority = 101
  BY <1>1, ProcListAssumption DEF Late
<1> QED BY <1>2 DEF Late

(* An entry that comes behind all with its priority or a smaller one. *)
LEMMA InOrder ==
  ASSUME procList \in Seq(Entry), Ascending(procList), NEW node \in Entry, insertAscending(node)
  PROVE  /\ procList' \in Seq(Entry) /\ Ascending(procList')
         /\ Len(procList') = Len(procList) + 1
         /\ \E i \in 1 .. Len(procList) + 1 :
              /\ \A k \in 1 .. Len(procList) + 1 :
                   procList'[k] = IF k < i THEN procList[k] ELSE IF k = i THEN node ELSE procList[k - 1]
              /\ node.priority = Late => i = Len(procList) + 1
<1> DEFINE n == Len(procList)
           before == {k \in DOMAIN procList : procList[k].priority <= node.priority}
           i == Cardinality(before) + 1
<1>1. n \in Nat /\ DOMAIN procList = 1 .. n /\ \A k \in 1 .. n : procList[k] \in Entry
  BY LenProperties, ElementOfSeq
<1>2. \A e \in Entry : e.priority \in Nat /\ e.priority <= Late
  BY Priorities
<1>3. Cardinality(before) \in 0 .. n /\ before = 1 .. Cardinality(before)
  <2>1. before \in SUBSET (1 .. n)
    BY <1>1
  <2>2. ASSUME NEW j \in before, NEW k \in 1 .. j PROVE k \in before
    <3>1. j \in 1 .. n /\ procList[j].priority <= node.priority /\ j \in Nat /\ k \in Nat /\ k <= j /\ 1 <= k
      BY <1>1
    <3>2. k \in 1 .. n
      BY <1>1, <3>1
    <3>3. procList[k].priority <= procList[j].priority
      <4>1. k = j \/ k < j
        BY <3>1
      <4>2. procList[k].priority \in Nat
        BY <1>1, <1>2, <3>2
      <4> QED BY <1>1, <3>1, <3>2, <4>1, <4>2 DEF Ascending
    <3>4. procList[k].priority \in Nat /\ procList[j].priority \in Nat /\ node.priority \in Nat
      BY <1>1, <1>2, <3>1, <3>2
    <3> QED BY <1>1, <3>1, <3>2, <3>3, <3>4
  <2> HIDE DEF before
  <2> QED BY <1>1, <2>1, <2>2, Downward
<1>4. i \in 1 .. n + 1 /\ i \in Nat
  BY <1>1, <1>3
<1>5. procList' = InsertAt(procList, i, node)
  BY DEF insertAscending
<1>6. \A k \in 1 .. n : procList[k].priority <= node.priority <=> k < i
  <2>1. \A k \in 1 .. n : procList[k].priority <= node.priority <=> k \in before
    BY <1>1
  <2> HIDE DEF before
  <2> QED BY <1>1, <1>3, <2>1
<1>7. node.priority = Late => i = n + 1
  <2> SUFFICES ASSUME node.priority = Late, i # n + 1 PROVE FALSE
    OBVIOUS
  <2> HIDE DEF i, n
  <2>1. i \in 1 .. n /\ ~ (i < i)
    BY <1>1, <1>4
  <2>2. procList[i].priority <= Late
    BY <1>1, <1>2, <2>1
  <2> QED BY <1>6, <2>1, <2>2
<1> HIDE DEF i, n, before
<1>8. /\ procList' \in Seq(Entry) /\ Len(procList') = n + 1
      /\ \A k \in 1 .. n + 1 :
           procList'[k] = IF k < i THEN procList[k] ELSE IF k = i THEN node ELSE procList[k - 1]
  <2>1. /\ InsertAt(procList, i, node) \in Seq(Entry) /\ Len(InsertAt(procList, i, node)) = Len(procList) + 1
        /\ \A k \in 1 .. Len(procList) + 1 :
             InsertAt(procList, i, node)[k] =
               IF k < i THEN procList[k] ELSE IF k = i THEN node ELSE procList[k - 1]
    BY <1>4, Inserted DEF n
  <2> QED BY <1>5, <2>1 DEF n
<1>9. Ascending(procList')
  <2>1. DOMAIN procList' = 1 .. n + 1
    BY <1>8, LenProperties
  <2> SUFFICES ASSUME NEW j \in 1 .. n + 1, NEW k \in 1 .. n + 1, j < k
               PROVE  procList'[j].priority <= procList'[k].priority
    BY <2>1 DEF Ascending
  <2>2. j \in Nat /\ k \in Nat /\ 1 <= j /\ k <= n + 1
    BY <1>1
  <2>3. \A x, y \in 1 .. n : x < y => procList[x].priority <= procList[y].priority
    BY <1>1 DEF Ascending
  <2>4. \A x \in 1 .. n : procList[x].priority \in Nat /\ node.priority \in Nat
    BY <1>1, <1>2
  <2>5. CASE k < i
    <3>1. j \in 1 .. n /\ k \in 1 .. n /\ j < i
      BY <1>1, <1>4, <2>2, <2>5
    <3> QED BY <1>8, <2>3, <2>5, <3>1
  <2>6. CASE k = i
    <3>1. j \in 1 .. n /\ j < i /\ ~ (k < i)
      BY <1>1, <1>4, <2>2, <2>6
    <3> QED BY <1>6, <1>8, <2>6, <3>1
  <2>7. CASE k > i
    <3>1. k - 1 \in 1 .. n /\ ~ (k < i) /\ k # i /\ ~ (k - 1 < i) /\ procList'[k] = procList[k - 1]
      BY <1>1, <1>4, <1>8, <2>2, <2>7
    <3>2. CASE j < i
      <4>1. j \in 1 .. n /\ j < k - 1
        BY <1>1, <1>4, <2>2, <2>7, <3>1, <3>2
      <4> QED BY <1>8, <2>3, <3>1, <3>2, <4>1
    <3>3. CASE j = i
      <4>1. procList'[j] = node /\ ~ (procList[k - 1].priority <= node.priority)
        BY <1>4, <1>6, <1>8, <3>1, <3>3
      <4> QED BY <2>4, <3>1, <4>1
    <3>4. CASE j > i
      <4>1. j - 1 \in 1 .. n /\ ~ (j < i) /\ j # i /\ j - 1 < k - 1 /\ procList'[j] = procList[j - 1]
        BY <1>1, <1>4, <1>8, <2>2, <3>4
      <4> QED BY <2>3, <3>1, <4>1
    <3> QED BY <1>4, <2>2, <3>2, <3>3, <3>4
  <2> QED BY <1>4, <2>2, <2>5, <2>6, <2>7
<1> QED BY <1>4, <1>7, <1>8, <1>9 DEF n

(* radPlistAdd, before the start. *)
LEMMA AddStep ==
  ASSUME ListTypes, OrderInv, NEW c \in Child, NEW n \in Priority, radPlistAdd(c, n)
  PROVE  ListTypes' /\ OrderInv'
<1> DEFINE node == [entry |-> c, priority |-> n, pid |-> NoPid]
<1>1. /\ at.does = "idle" /\ ~ hasStarted /\ insertAscending(node)
      /\ UNCHANGED <<phase, hasStarted, ready, at, signalled, broken, hasty>>
      /\ Orderly' = Orderly
  BY DEF Orderly, radPlistAdd, Idle, sysVars
<1>2. node \in Entry /\ node.pid = NoPid /\ node.priority # Late
  BY ProcListAssumption DEF Entry, Late
<1> HIDE DEF node
<1>3. /\ procList' \in Seq(Entry) /\ Ascending(procList') /\ Len(procList') = Len(procList) + 1
      /\ \E i \in 1 .. Len(procList) + 1 :
           \A k \in 1 .. Len(procList) + 1 :
             procList'[k] = IF k < i THEN procList[k] ELSE IF k = i THEN node ELSE procList[k - 1]
  BY <1>1, <1>2, InOrder DEF ListTypes, OrderInv
<1>4. PICK i \in 1 .. Len(procList) + 1 :
        \A k \in 1 .. Len(procList) + 1 :
          procList'[k] = IF k < i THEN procList[k] ELSE IF k = i THEN node ELSE procList[k - 1]
  BY <1>3
<1>5. /\ Len(procList) \in Nat /\ DOMAIN procList = 1 .. Len(procList)
      /\ DOMAIN procList' = 1 .. Len(procList) + 1
  BY <1>3, LenProperties DEF ListTypes
<1>6. ASSUME NEW k \in DOMAIN procList' PROVE InStore(k)'
  <2>1. k \in Nat /\ 1 <= k /\ k <= Len(procList) + 1 /\ i \in Nat /\ 1 <= i /\ i <= Len(procList) + 1
    BY <1>5
  <2>2. \A j \in DOMAIN procList : procList[j].pid = NoPid /\ procList[j].priority # Late
    BY <1>1 DEF OrderInv, InStore
  <2>3. procList'[k].pid = NoPid /\ procList'[k].priority # Late
    <3>1. CASE k < i
      <4>1. k \in DOMAIN procList
        BY <1>5, <2>1, <3>1
      <4> QED BY <1>4, <1>5, <2>2, <3>1, <4>1
    <3>2. CASE k = i
      BY <1>2, <1>4, <1>5, <2>1, <3>2
    <3>3. CASE k > i
      <4>1. k - 1 \in DOMAIN procList
        BY <1>5, <2>1, <3>3
      <4> QED BY <1>4, <1>5, <2>1, <2>2, <3>3, <4>1
    <3> QED BY <2>1, <3>1, <3>2, <3>3
  <2> QED BY <2>3 DEF InStore
<1>7. ListTypes'
  BY <1>1, <1>3 DEF ListTypes
<1> QED BY <1>1, <1>3, <1>6, <1>7 DEF OrderInv

(* radPlistAddandStart: the entry comes last, and all before have signalled. *)
LEMMA AddandStartStep ==
  ASSUME ListTypes, OrderInv, NEW c \in Child, radPlistAddandStart(c)
  PROVE  ListTypes' /\ OrderInv'
<1> DEFINE node == [entry |-> c, priority |-> Late, pid |-> NoPid]
           n == Len(procList)
<1>1. /\ at.does = "idle" /\ hasStarted /\ insertAscending(node) /\ at' = [does |-> "fork", entry |-> n + 1]
      /\ UNCHANGED <<phase, hasStarted, ready, signalled, broken, hasty>>
      /\ Orderly' = Orderly
  BY DEF Orderly, radPlistAddandStart, Idle, sysVars
<1>2. node \in Entry /\ node.pid = NoPid /\ node.priority = Late
  BY DEF Entry
<1> HIDE DEF node
<1>5. n \in Nat /\ DOMAIN procList = 1 .. n
  BY LenProperties DEF ListTypes
<1>3. /\ procList' \in Seq(Entry) /\ Ascending(procList') /\ Len(procList') = n + 1
      /\ procList'[n + 1] = node /\ \A k \in 1 .. n : procList'[k] = procList[k]
  <2>1. /\ procList' \in Seq(Entry) /\ Ascending(procList') /\ Len(procList') = Len(procList) + 1
        /\ \E i \in 1 .. Len(procList) + 1 :
             /\ \A k \in 1 .. Len(procList) + 1 :
                  procList'[k] = IF k < i THEN procList[k] ELSE IF k = i THEN node ELSE procList[k - 1]
             /\ node.priority = Late => i = Len(procList) + 1
    BY <1>1, <1>2, InOrder DEF ListTypes, OrderInv
  <2>2. \A k \in 1 .. n + 1 : procList'[k] = IF k < n + 1 THEN procList[k] ELSE IF k = n + 1 THEN node ELSE procList[k - 1]
    BY <1>2, <2>1
  <2> HIDE DEF n
  <2>3. n + 1 \in 1 .. n + 1 /\ ~ (n + 1 < n + 1) /\ \A k \in 1 .. n : k \in 1 .. n + 1 /\ k < n + 1
    BY <1>5
  <2> QED BY <2>1, <2>2, <2>3 DEF n
<1> HIDE DEF n
<1>4. DOMAIN procList' = 1 .. n + 1
  BY <1>3, LenProperties
<1>7. ListTypes'
  BY <1>1, <1>3, <1>5 DEF ListTypes
<1>8. /\ at'.entry \in DOMAIN procList' /\ procList'[at'.entry].pid = NoPid
      /\ \A k \in DOMAIN procList' : ~ (k > at'.entry)
  BY <1>1, <1>2, <1>3, <1>4, <1>5
<1>9. ASSUME Orderly'
      PROVE  /\ \A k \in DOMAIN procList' : k < at'.entry => procList'[k].entry \in signalled'
             /\ ready' <= 1 /\ ready' # 1
             /\ \A d \in Child : ~ (d \notin signalled' /\ phase'[d] # "out")
  <2>1. /\ \A k \in DOMAIN procList : procList[k].entry \in signalled
        /\ ready <= 1 /\ ready # 1 /\ \A d \in Child : ~ (d \notin signalled /\ phase[d] # "out")
    BY <1>1, <1>9 DEF OrderInv
  <2>2. \A k \in DOMAIN procList' : k < at'.entry => k \in 1 .. n
    BY <1>1, <1>4, <1>5
  <2> QED BY <1>1, <1>3, <1>5, <2>1, <2>2
<1> QED BY <1>1, <1>3, <1>7, <1>8, <1>9 DEF OrderInv

(* radPlistRemovePid: the entries that stay do so in their order. *)
LEMMA RemovePidStep ==
  ASSUME ListTypes, OrderInv, NEW c \in Child, radPlistRemovePid(c)
  PROVE  ListTypes' /\ OrderInv'
<1> DEFINE n == Len(procList)
<1>1. /\ at.does = "idle" /\ UNCHANGED <<phase, hasStarted, ready, at, signalled, broken, hasty>>
      /\ Orderly' = Orderly
  BY DEF Orderly, radPlistRemovePid, Idle, sysVars
<1>2. n \in Nat /\ DOMAIN procList = 1 .. n
  BY LenProperties DEF ListTypes
<1>3. PICK i \in 1 .. n : procList' = RemoveAt(procList, i)
  BY <1>2 DEF radPlistRemovePid
<1>4. /\ procList' \in Seq(Entry) /\ Len(procList') = n - 1
      /\ \A k \in 1 .. n - 1 : procList'[k] = IF k < i THEN procList[k] ELSE procList[k + 1]
  <2>1. /\ RemoveAt(procList, i) \in Seq(Entry) /\ Len(RemoveAt(procList, i)) = Len(procList) - 1
        /\ \A k \in 1 .. Len(procList) - 1 :
             RemoveAt(procList, i)[k] = IF k < i THEN procList[k] ELSE procList[k + 1]
    BY <1>3, Removed DEF ListTypes
  <2> QED BY <1>3, <2>1
<1>5. DOMAIN procList' = 1 .. n - 1
  BY <1>4, LenProperties
<1> HIDE DEF n
<1> DEFINE from(k) == IF k < i THEN k ELSE k + 1
<1>6. ASSUME NEW k \in DOMAIN procList' PROVE from(k) \in DOMAIN procList /\ procList'[k] = procList[from(k)]
  <2>1. k \in Nat /\ 1 <= k /\ k <= n - 1
    BY <1>2, <1>5
  <2>2. k \in 1 .. n - 1 /\ from(k) \in 1 .. n
    BY <1>2, <2>1
  <2> QED BY <1>2, <1>4, <2>2
<1>7. ASSUME NEW j \in DOMAIN procList', NEW k \in DOMAIN procList', j < k PROVE from(j) < from(k)
  BY <1>2, <1>5, <1>7
<1>8. Ascending(procList')
  <2> SUFFICES ASSUME NEW j \in DOMAIN procList', NEW k \in DOMAIN procList', j < k
               PROVE  procList'[j].priority <= procList'[k].priority
    BY DEF Ascending
  <2>1. from(j) \in DOMAIN procList /\ from(k) \in DOMAIN procList /\ from(j) < from(k)
        /\ procList'[j] = procList[from(j)] /\ procList'[k] = procList[from(k)]
    BY <1>6, <1>7
  <2> HIDE DEF from
  <2> QED BY <2>1 DEF OrderInv, Ascending
<1>9. ListTypes'
  BY <1>1, <1>4 DEF ListTypes
<1> HIDE DEF from
<1>10. ASSUME ~ hasStarted, NEW k \in DOMAIN procList' PROVE InStore(k)'
  BY <1>6, <1>10 DEF OrderInv, InStore
<1>11. ASSUME hasStarted, Orderly, NEW k \in DOMAIN procList' PROVE procList'[k].entry \in signalled
  BY <1>1, <1>6, <1>11 DEF OrderInv
<1> QED BY <1>1, <1>8, <1>9, <1>10, <1>11 DEF OrderInv

(* radPlistStart begins with the first entry. *)
LEMMA StartStep ==
  ASSUME ListTypes, OrderInv, radPlistStart
  PROVE  ListTypes' /\ OrderInv'
<1>1. /\ at.does = "idle" /\ ~ hasStarted /\ hasStarted' = TRUE /\ at' = [does |-> "fork", entry |-> 1]
      /\ procList # <<>> /\ UNCHANGED <<procList, phase, ready, signalled, broken, hasty>>
      /\ Orderly' = Orderly
  BY DEF Orderly, radPlistStart, Idle, sysVars
<1>2. 1 \in DOMAIN procList /\ DOMAIN procList = 1 .. Len(procList) /\ Len(procList) \in Nat
  BY <1>1, EmptySeq, LenProperties DEF ListTypes
<1>3. ListTypes'
  BY <1>1 DEF ListTypes
<1>4. Ascending(procList') /\ \A k \in DOMAIN procList' : InStore(k)'
  BY <1>1 DEF OrderInv, InStore
<1>5. at'.entry = 1 /\ procList'[1].pid = NoPid
  BY <1>1, <1>2, <1>4 DEF InStore
<1>6. \A k \in DOMAIN procList' : ~ (k < 1)
  BY <1>1, <1>2
<1>7. Orderly' => ready' <= 1 /\ ready' # 1 /\ \A c \in Child : ~ (c \notin signalled' /\ phase'[c] # "out")
  BY <1>1 DEF OrderInv
<1> QED BY <1>1, <1>2, <1>3, <1>4, <1>5, <1>6, <1>7 DEF OrderInv

(* radStartProcess: the child of the entry runs, or there is none. *)
LEMMA ForkStep ==
  ASSUME SystemTypes, ListTypes, HomeInv, OrderInv, radStartProcess
  PROVE  ListTypes' /\ OrderInv'
<1> DEFINE c == procList[at.entry].entry
<1>1. PICK pid \in Child \cup {Failed} :
        /\ procList' = [procList EXCEPT ![at.entry].pid = pid]
        /\ \/ phase[c] = "out" /\ phase' = [phase EXCEPT ![c] = "child"] /\ pid = c /\ Orderly' = Orderly
           \/ ~ Orderly' /\ UNCHANGED phase
        /\ broken' \in SUBSET Child /\ hasty' \in BOOLEAN
  <2>1. at.entry \in DOMAIN procList
    BY DEF OrderInv, radStartProcess
  <2>2. c \in Child
    <3>1. procList \in Seq(Entry) /\ at.entry \in 1 .. Len(procList)
      BY <2>1, LenProperties DEF ListTypes
    <3>2. procList[at.entry] \in Entry
      BY <3>1, ElementOfSeq
    <3> QED BY <3>2 DEF Entry
  <2> QED BY <2>2 DEF radStartProcess, Orderly, ListTypes
<1>2. /\ at.does = "fork" /\ at' = [at EXCEPT !.does = "wait"]
      /\ UNCHANGED <<hasStarted, ready, signalled>>
  BY DEF radStartProcess
<1>3. hasStarted /\ at'.does = "wait" /\ at'.entry = at.entry
  BY <1>2 DEF HomeInv, ListTypes
<1>4. at.entry \in DOMAIN procList /\ DOMAIN procList = 1 .. Len(procList) /\ Len(procList) \in Nat
  BY <1>2, LenProperties DEF OrderInv, ListTypes
<1>5. /\ DOMAIN procList' = DOMAIN procList
      /\ \A k \in DOMAIN procList : /\ procList'[k].entry = procList[k].entry
                                    /\ procList'[k].priority = procList[k].priority
                                    /\ k # at.entry => procList'[k] = procList[k]
      /\ procList' \in Seq(Entry)
  <2>1. \A k \in DOMAIN procList : procList[k] \in Entry
    BY <1>4, ElementOfSeq DEF ListTypes
  <2>2. [procList[at.entry] EXCEPT !.pid = pid] \in Entry
    BY <1>4, <2>1 DEF Entry
  <2>3. procList' = [procList EXCEPT ![at.entry] = [procList[at.entry] EXCEPT !.pid = pid]]
    BY <1>1
  <2>4. procList' \in Seq(Entry)
    BY <1>4, <2>2, <2>3, ExceptSeq DEF ListTypes
  <2>5. \A k \in DOMAIN procList : procList'[k] = IF k = at.entry THEN [procList[at.entry] EXCEPT !.pid = pid]
                                                  ELSE procList[k]
    BY <2>3
  <2>6. DOMAIN procList' = DOMAIN procList
    BY <2>3
  <2>7. ASSUME NEW k \in DOMAIN procList
        PROVE  /\ procList'[k].entry = procList[k].entry /\ procList'[k].priority = procList[k].priority
               /\ k # at.entry => procList'[k] = procList[k]
    BY <1>4, <2>1, <2>5 DEF Entry
  <2> QED BY <2>4, <2>6, <2>7
<1>6. ListTypes'
  BY <1>1, <1>2, <1>5 DEF ListTypes
<1>7. Ascending(procList')
  BY <1>5 DEF OrderInv, Ascending
<1>8. ASSUME NEW k \in DOMAIN procList', k > at'.entry PROVE InStore(k)'
  <2>1. k # at.entry
    BY <1>3, <1>4, <1>5, <1>8
  <2>2. InStore(k)
    BY <1>2, <1>3, <1>5, <1>8 DEF OrderInv
  <2> QED BY <1>5, <2>1, <2>2 DEF InStore
<1>9. ASSUME Orderly'
      PROVE  /\ \A k \in DOMAIN procList' : k < at'.entry => procList'[k].entry \in signalled'
             /\ ready' <= 1 /\ ready' # 1
             /\ \A d \in Child : d \notin signalled' /\ phase'[d] # "out" => Current' = d
  <2>1. /\ Orderly /\ phase' = [phase EXCEPT ![c] = "child"]
    BY <1>1, <1>9
  <2>2. /\ \A k \in DOMAIN procList : k < at.entry => procList[k].entry \in signalled
        /\ ready <= 1 /\ ready # 1 /\ \A d \in Child : ~ (d \notin signalled /\ phase[d] # "out")
    BY <1>2, <2>1 DEF OrderInv
  <2>3. Current' = c
    BY <1>3, <1>4, <1>5 DEF Current
  <2>4. \A d \in Child : d # c => phase'[d] = phase[d]
    BY <2>1 DEF SystemTypes
  <2> HIDE DEF c
  <2> QED BY <1>2, <1>3, <1>5, <2>2, <2>3, <2>4
<1> QED BY <1>2, <1>3, <1>4, <1>5, <1>6, <1>7, <1>8, <1>9 DEF OrderInv

(* radPlistProcessReady: only the child that is waited for can signal. *)
LEMMA SignalStep ==
  ASSUME ListTypes, OrderInv, NEW c \in Child, radPlistProcessReady(c)
  PROVE  ListTypes' /\ OrderInv'
<1>1. /\ phase[c] = "in" /\ c \notin signalled /\ signalled' = signalled \cup {c}
      /\ ready' = ready + 1 \/ ready' = ready
      /\ UNCHANGED <<phase, procList, hasStarted, at, broken, hasty>>
      /\ Orderly' = Orderly
  BY DEF Orderly, radPlistProcessReady, sysVars
<1>2. ListTypes'
  BY <1>1 DEF ListTypes
<1>3. Current' = Current /\ \A k \in DOMAIN procList : InStore(k)' = InStore(k)
  BY <1>1 DEF Current, InStore
<1>4. ASSUME Orderly
      PROVE  at.does = "wait" /\ Current = c /\ ready' <= 1
  <2>1. at.does = "wait" /\ Current = c
    BY <1>1, <1>4 DEF OrderInv
  <2>2. ready # 1 /\ ready <= 1 /\ ready \in Nat
    BY <1>1, <1>4, <2>1 DEF OrderInv, ListTypes
  <2>3. ready = 0
    BY <2>2
  <2> QED BY <1>1, <2>1, <2>3
<1>5. ASSUME Orderly'
      PROVE  /\ \A k \in DOMAIN procList' : k < at'.entry => procList'[k].entry \in signalled'
             /\ at'.does = "wait" /\ ready' <= 1 /\ Current' \in signalled'
             /\ \A d \in Child : d \notin signalled' /\ phase'[d] # "out" => at'.does = "wait" /\ Current' = d
  BY <1>1, <1>3, <1>4, <1>5 DEF OrderInv
<1>6. /\ Ascending(procList')
      /\ ~ hasStarted' => \A k \in DOMAIN procList' : InStore(k)'
      /\ at'.does # "idle" => /\ at'.entry \in DOMAIN procList'
                              /\ \A k \in DOMAIN procList' : k > at'.entry => InStore(k)'
      /\ at'.does = "fork" => procList'[at'.entry].pid = NoPid
  BY <1>1, <1>3 DEF OrderInv
<1> QED BY <1>2, <1>5, <1>6 DEF OrderInv

(* The parent goes on to the next entry, or back to its caller. *)
LEMMA ReadyStep ==
  ASSUME ListTypes, OrderInv, HomeInv, ChildReady \/ WaitInterrupted
  PROVE  ListTypes' /\ OrderInv'
<1> DEFINE n == Len(procList)
           on == at.entry < n /\ procList[at.entry].priority # Late
<1>1. /\ at.does = "wait"
      /\ \/ ready > 0 /\ ready' = ready - 1 /\ Orderly' = Orderly
         \/ UNCHANGED ready /\ ~ Orderly'
      /\ at' = IF on THEN [does |-> "fork", entry |-> at.entry + 1] ELSE [does |-> "idle", entry |-> 0]
      /\ UNCHANGED <<phase, procList, hasStarted, signalled, broken>> /\ hasty' \in BOOLEAN
  BY DEF ChildReady, WaitInterrupted, GoesOn, Orderly, sysVars, ListTypes
<1>2. /\ n \in Nat /\ DOMAIN procList = 1 .. n /\ at.entry \in 1 .. n /\ at.entry \in Nat
      /\ \A k \in 1 .. n : procList[k] \in Entry
  BY <1>1, LenProperties, ElementOfSeq DEF ListTypes, OrderInv
<1>3. ready' \in Nat /\ ready \in Nat
  BY <1>1 DEF ListTypes
<1>4. ListTypes'
  <2>1. at' \in [does : {"idle", "fork", "wait"}, entry : Nat]
    BY <1>1, <1>2
  <2> QED BY <1>1, <1>3, <2>1 DEF ListTypes
<1>5. hasStarted /\ \A k \in DOMAIN procList : InStore(k)' = InStore(k)
  BY <1>1 DEF HomeInv, InStore
<1>6. \A k \in DOMAIN procList : k > at.entry => InStore(k)
  BY <1>1 DEF OrderInv
<1>7. Ascending(procList') /\ Ascending(procList)
  BY <1>1 DEF OrderInv
<1>8. ASSUME Orderly'
      PROVE  /\ ready = 1 /\ ready' = 0 /\ \A k \in 1 .. n : k <= at.entry => procList[k].entry \in signalled
             /\ \A d \in Child : ~ (d \notin signalled /\ phase[d] # "out")
  <2>0. Orderly /\ ready > 0 /\ ready' = ready - 1
    BY <1>1, <1>8
  <2>1. ready = 1 /\ Current \in signalled
    BY <1>3, <2>0 DEF OrderInv
  <2>2. \A k \in DOMAIN procList : k < at.entry => procList[k].entry \in signalled
    BY <1>1, <2>0 DEF OrderInv
  <2>3. \A k \in 1 .. n : k <= at.entry => k < at.entry \/ k = at.entry
    BY <1>2
  <2>4. \A d \in Child : d \notin signalled /\ phase[d] # "out" => Current = d
    BY <2>0 DEF OrderInv
  <2> QED BY <1>2, <2>0, <2>1, <2>2, <2>3, <2>4 DEF Current
<1>9. CASE on
  <2>1. at'.does = "fork" /\ at'.entry = at.entry + 1 /\ at.entry + 1 \in DOMAIN procList
    BY <1>1, <1>2, <1>9
  <2>2. \A k \in DOMAIN procList : k > at.entry + 1 => k > at.entry
    BY <1>2
  <2>3. at.entry + 1 > at.entry
    BY <1>2
  <2>4. procList'[at'.entry].pid = NoPid
    BY <1>1, <1>6, <2>1, <2>3 DEF InStore
  <2>5. \A k \in DOMAIN procList' : k > at'.entry => InStore(k)'
    BY <1>1, <1>5, <1>6, <2>1, <2>2
  <2>6. \A k \in DOMAIN procList : k < at.entry + 1 => k <= at.entry
    BY <1>2
  <2>7. ASSUME Orderly'
        PROVE  /\ \A k \in DOMAIN procList' : k < at'.entry => procList'[k].entry \in signalled'
               /\ ready' <= 1 /\ ready' # 1 /\ \A d \in Child : ~ (d \notin signalled' /\ phase'[d] # "out")
    BY <1>1, <1>2, <1>8, <2>1, <2>6, <2>7
  <2> QED BY <1>1, <1>4, <1>5, <1>7, <2>1, <2>4, <2>5, <2>7 DEF OrderInv
<1>10. CASE ~ on
  <2>1. at'.does = "idle"
    BY <1>1, <1>10
  <2>2. at.entry = n
    <3> SUFFICES ASSUME at.entry # n PROVE FALSE
      OBVIOUS
    <3>1. at.entry < n /\ procList[at.entry].priority = Late
      BY <1>2, <1>10
    <3>2. at.entry + 1 \in 1 .. n /\ at.entry < at.entry + 1 /\ at.entry + 1 > at.entry
      BY <1>2, <3>1
    <3>3. procList[at.entry + 1].priority # Late
      BY <1>2, <1>6, <3>2 DEF InStore
    <3>4. procList[at.entry].priority <= procList[at.entry + 1].priority
      BY <1>2, <1>7, <3>2 DEF Ascending
    <3>5. procList[at.entry + 1].priority \in Nat /\ procList[at.entry + 1].priority <= Late /\ Late \in Nat
      BY <1>2, <3>2, Priorities DEF Late
    <3> QED BY <3>1, <3>3, <3>4, <3>5
  <2>3. ASSUME Orderly'
        PROVE  /\ \A k \in DOMAIN procList' : procList'[k].entry \in signalled'
               /\ ready' <= 1 /\ ready' # 1 /\ \A d \in Child : ~ (d \notin signalled' /\ phase'[d] # "out")
    <3>1. \A k \in 1 .. n : k <= at.entry
      BY <1>2, <2>2
    <3> QED BY <1>1, <1>2, <1>8, <2>3, <3>1
  <2> QED BY <1>1, <1>4, <1>5, <1>7, <2>1, <2>3 DEF OrderInv
<1> QED BY <1>9, <1>10

(* A process that has begun moves on. *)
LEMMA MovesOn ==
  ASSUME SystemTypes, ListTypes, OrderInv, NEW p \in Proc, NEW from, NEW to, Moves(p, from, to),
         from # "out" \/ p = Parent,
         UNCHANGED <<procList, hasStarted, ready, at, signalled>>,
         Orderly' => Orderly, broken' \in SUBSET Child, hasty' \in BOOLEAN
  PROVE  ListTypes' /\ OrderInv'
<1>1. ListTypes'
  BY DEF ListTypes
<1>2. ASSUME NEW c \in Child, phase'[c] # "out" PROVE phase[c] # "out"
  <2>1. c \in Proc /\ c # Parent
    BY DEF Child
  <2>2. phase' = [phase EXCEPT ![p] = to] /\ phase[p] = from
    BY DEF Moves
  <2>3. CASE c = p
    BY <2>1, <2>2, <2>3
  <2>4. CASE c # p
    BY <1>2, <2>1, <2>2, <2>4 DEF SystemTypes
  <2> QED BY <2>3, <2>4
<1> QED BY <1>1, <1>2, NobodyBegins

(* The steps of module System, as moves from one phase to another. *)
LEMMA Moving ==
  ASSUME NEW p \in Proc,
         SystemStep(p) \/ SystemFailure(p) \/ Ends(p) \/ (p = Parent /\ ParentStarts)
  PROVE  \E from, to :
           /\ Moves(p, from, to) /\ (from # "out" \/ (p = Parent /\ ~ hasStarted)) /\ to # "child"
           /\ to \in Starting => from \in Starting \cup {"out", "child"}
           /\ to \in Leaving => from \in Leaving \/ p \in Child \/ (at.does = "idle" /\ Childless)
<1> DEFINE Way(from, to) ==
             /\ Moves(p, from, to) /\ (from # "out" \/ (p = Parent /\ ~ hasStarted)) /\ to # "child"
             /\ to \in Starting => from \in Starting \cup {"out", "child"}
             /\ to \in Leaving => from \in Leaving \/ p \in Child \/ (at.does = "idle" /\ Childless)
<1>1. CASE SystemStep(p)
  <2>1. CASE SemSetVal(p)
    <3>1. Way("set", "take") \/ Way("set", "out")
      BY <2>1 DEF SemSetVal, Starting, Leaving
    <3> QED BY <3>1
  <2>2. CASE StartTakes(p)
    <3>1. Way("take", "attach")
      BY <2>2 DEF StartTakes, semTake, Starting, Leaving
    <3> QED BY <3>1
  <2>3. CASE FindShare(p) \/ AttachShare(p)
    <3>1. Way("attach", "count") \/ Way("count", "facilities")
      BY <2>3 DEF FindShare, AttachShare, Starting, Leaving
    <3> QED BY <3>1
  <2>4. CASE MakeFacilities(p) \/ AttachFacilities(p)
    <3>1. Way("facilities", "blocked") \/ Way("facilities", "register")
      BY <2>4 DEF MakeFacilities, AttachFacilities, Starting, Leaving
    <3> QED BY <3>1
  <2>5. CASE RegisterReads(p) \/ Register(p)
    <3>1. Way("register", "enter") \/ Way("enter", "in")
      BY <2>5 DEF RegisterReads, ReadProcs, Register, Starting, Leaving
    <3> QED BY <3>1
  <2>6. CASE LeaveReads(p) \/ LeaveSystem(p)
    <3>1. Way("leave", "uncount") \/ Way("uncount", "detach")
      BY <2>6 DEF LeaveReads, ReadProcs, LeaveSystem, Starting, Leaving
    <3> QED BY <3>1
  <2>7. CASE DetachReads(p) \/ Leave(p)
    <3>1. Way("detach", "drop") \/ Way("drop", "out")
      BY <2>7 DEF DetachReads, Leave, Starting, Leaving
    <3> QED BY <3>1
  <2> QED BY <1>1, <2>1, <2>2, <2>3, <2>4, <2>5, <2>6, <2>7 DEF SystemStep
<1>2. CASE SystemFailure(p)
  <2>1. Way("take", "attach") \/ Way("attach", "out") \/ Way("facilities", "out") \/ Way("in", "out")
    BY <1>2 DEF SystemFailure, StartInterrupted, semTakeInterrupted, AttachFails, MakeFails,
                AttachFacilitiesFails, Dies, Starting, Leaving
  <2> QED BY <2>1
<1>3. CASE Ends(p)
  <2>1. p \in Child \/ (at.does = "idle" /\ Childless)
    BY <1>3 DEF Ends, Idle, Childless, Child
  <2>2. Way("in", "leave")
    BY <1>3, <2>1 DEF Ends, SystemExit, ExitInterrupted, semTakeInterrupted, ExitTakes, semTake, Starting
  <2> QED BY <2>2
<1>4. CASE p = Parent /\ ParentStarts
  <2>1. Way("out", "set")
    BY <1>4 DEF ParentStarts, SemGet, Starting, Leaving
  <2> QED BY <2>1
<1> QED BY <1>1, <1>2, <1>3, <1>4

(* The steps that only move a process and its hold on the semaphore. *)
LEMMA QuietSteps ==
  ASSUME SystemTypes, SystemTypes', FamilyInv, HomeInv', LockInv, NEW p \in Proc, UNCHANGED <<hasStarted, at>>,
         ~ disturbed',
         \/ SemSetVal(p) \/ StartTakes(p) \/ FindShare(p) \/ AttachFacilitiesFails(p)
         \/ RegisterReads(p) \/ LeaveReads(p) \/ DetachReads(p) \/ AttachFails(p) \/ StartInterrupted(p)
         \/ Ends(p) \/ (p = Parent /\ ParentStarts)
  PROVE  FamilyInv' /\ LockInv'
<1>1. system[p] = Home /\ Home \in SystemID
  BY Who
<1>2. /\ {"out", "set", "take", "attach", "count", "facilities", "register", "enter", "leave",
          "uncount", "detach", "drop", "in"} \subseteq AnyPhase
      /\ {"out", "set", "take", "attach", "count"} \cap AttachedIn = {}
      /\ {"register", "enter", "leave", "uncount", "detach", "drop", "in", "facilities"} \subseteq AttachedIn
      /\ {"in", "leave", "uncount"} \subseteq CountedIn
      /\ {"out", "set", "take", "attach", "count", "facilities", "register", "enter", "detach", "drop"} \cap CountedIn = {}
      /\ {"register", "enter", "in", "leave", "uncount"} \subseteq UsesIn
      /\ {"out", "set", "take", "attach", "count", "facilities", "detach", "drop"} \cap UsesIn = {}
      /\ {"out", "set", "take", "in"} \cap Guarded = {}
      /\ {"attach", "count", "facilities", "register", "enter", "leave", "uncount", "detach", "drop"} \subseteq Guarded
  BY DEF AnyPhase, Starting, AttachedIn, Leaving, CountedIn, UsesIn, Guarded
<1>3. phase[p] \in AttachedIn => attached[p] = "current"
  BY DEF LockInv, ReadRight
<1>4. sysSem <= 1
  BY DEF LockInv
<1>5. CASE SemSetVal(p)
  <2>1. PICK to \in {"take", "out"} : Moves(p, "set", to)
    BY <1>5 DEF SemSetVal
  <2>2. FamilyInv'
    BY <1>2, <1>5, <2>1, QuietStep DEF SemSetVal
  <2>3. sysSem' <= 1 /\ (Inside # {} /\ sysSem = 0 => sysSem' = 0)
    <3>1. ~ (semId[p] = "current" /\ Inside # {})
      BY <1>5, Zenon DEF SemSetVal
    <3>2. sysSem' = IF semId[p] = "current" THEN 1 ELSE sysSem
      BY <1>5 DEF SemSetVal
    <3> QED BY <1>4, <3>1, <3>2
  <2>4. LockInv'
    BY <1>2, <1>5, <2>1, <2>3, Outside DEF SemSetVal, Moves
  <2> QED BY <2>2, <2>4
<1>6. CASE StartTakes(p)
  <2>1. Moves(p, "take", "attach") /\ semId[p] = "current" /\ sysSem > 0 /\ sysSem' = sysSem - 1
    BY <1>6 DEF StartTakes, semTake
  <2>2. FamilyInv'
    BY <1>2, <1>6, <2>1, QuietStep DEF StartTakes, semTake
  <2>3. LockInv'
    BY <1>6, <2>1, GoesIn DEF StartTakes, semTake, Moves
  <2> QED BY <2>2, <2>3
<1>7. CASE Ends(p)
  <2>1. Moves(p, "in", "leave") /\ semId[p] = "current" /\ sysSem > 0 /\ sysSem' = sysSem - 1
        /\ UNCHANGED <<semId, share, attached, seen, semSet, exists, uses>>
    BY <1>7 DEF Ends, SystemExit, ExitInterrupted, semTakeInterrupted, ExitTakes, semTake
  <2>2. p \in Child \/ (at.does = "idle" /\ Childless)
    BY <1>7 DEF Ends, Idle, Childless, Child
  <2>3. FamilyInv'
    BY <1>2, <2>1, <2>2, QuietStep
  <2>4. LockInv'
    BY <2>1, GoesIn DEF Moves
  <2> QED BY <2>3, <2>4
<1>8. CASE p = Parent /\ ParentStarts
  <2>1. Moves(p, "out", "set") /\ ~ hasStarted
    BY <1>8 DEF ParentStarts, SemGet
  <2>2. FamilyInv'
    BY <1>2, <1>8, <2>1, QuietStep DEF ParentStarts, SemGet
  <2>3. sysSem' <= 1 /\ (Inside # {} /\ sysSem = 0 => sysSem' = 0)
        /\ \A q \in Others(p) : attached'[q] = attached[q] /\ semId'[q] = semId[q]
    BY <1>4, <1>8 DEF ParentStarts, SemGet, None, Others, SystemTypes
  <2>4. LockInv'
    BY <1>2, <1>8, <2>1, <2>3, Outside DEF ParentStarts, SemGet, Moves
  <2> QED BY <2>2, <2>4
<1>9. CASE FindShare(p)
  <2>1. Moves(p, "attach", "count") /\ UNCHANGED <<semId, share, semSet, exists, uses, sysSem>>
    BY <1>9 DEF FindShare
  <2>2. FamilyInv'
    BY <1>2, <2>1, QuietStep
  <2>3. \A q \in Others(p) : attached'[q] = attached[q]
    BY <1>9 DEF FindShare, Others, SystemTypes
  <2>4. IF ShareExists' THEN attached'[p] = "current" /\ seen'[p] = share'.numAttached ELSE seen'[p] = None
    BY <1>9, <2>1 DEF FindShare, ShareExists, SystemTypes
  <2>5. LockInv'
    BY <1>2, <2>1, <2>3, <2>4, StaysIn DEF Moves
  <2> QED BY <2>2, <2>5
<1>10. CASE RegisterReads(p) \/ LeaveReads(p) \/ DetachReads(p)
  <2>1. PICK way \in {<<"register", "enter">>, <<"leave", "uncount">>, <<"detach", "drop">>} : Moves(p, way[1], way[2])
    BY <1>10 DEF RegisterReads, LeaveReads, DetachReads, ReadProcs
  <2>2. UNCHANGED <<semId, share, semSet, exists, uses, sysSem, attached>>
    BY <1>10 DEF RegisterReads, LeaveReads, DetachReads, ReadProcs
  <2>3. FamilyInv'
    <3>1. CASE way = <<"register", "enter">>
      BY <1>2, <2>1, <2>2, <3>1, QuietStep
    <3>2. CASE way = <<"leave", "uncount">>
      BY <1>2, <2>1, <2>2, <3>2, QuietStep
    <3>3. CASE way = <<"detach", "drop">>
      BY <1>2, <2>1, <2>2, <3>3, QuietStep
    <3> QED BY <3>1, <3>2, <3>3
  <2>4. way[1] \in AttachedIn /\ way[1] \in Guarded /\ way[2] \in Guarded /\ way[2] # "count" /\ phase[p] = way[1]
        /\ phase' = [phase EXCEPT ![p] = way[2]] /\ UNCHANGED system
    BY <1>2, <2>1 DEF Moves
  <2>5. way[1] = "detach" => way[2] = "drop"
    OBVIOUS
  <2>6. /\ way[2] \in {"enter", "uncount"} => seen'[p] = share'.numprocs[Home]
        /\ way[2] = "drop" => seen'[p] = share'.numAttached
    <3>1. CASE RegisterReads(p) \/ LeaveReads(p)
      <4>1. phase[p] = "register" \/ phase[p] = "leave"
        BY <3>1 DEF RegisterReads, LeaveReads, ReadProcs, Moves
      <4>2. seen'[p] = share.numprocs[Home] /\ way[2] # "drop"
        BY <1>1, <2>1, <2>4, <3>1, <4>1 DEF RegisterReads, LeaveReads, ReadProcs, SystemTypes
      <4> QED BY <2>2, <4>2
    <3>2. CASE DetachReads(p)
      <4>1. phase[p] = "detach"
        BY <3>2 DEF DetachReads, Moves
      <4>2. seen'[p] = share.numAttached
        BY <3>2 DEF DetachReads, SystemTypes
      <4>3. way[2] = "drop"
        BY <2>4, <2>5, <4>1
      <4> QED BY <2>2, <4>2, <4>3
    <3> QED BY <1>10, <3>1, <3>2
  <2>7. LockInv'
    BY <1>3, <2>2, <2>4, <2>6, StaysIn
  <2> QED BY <2>3, <2>7
<1>11. CASE AttachFails(p) \/ AttachFacilitiesFails(p)
  <2>1. PICK from \in {"attach", "facilities"} : Moves(p, from, "out")
    BY <1>11 DEF AttachFails, AttachFacilitiesFails
  <2>2. UNCHANGED <<semId, share, attached, seen, semSet, exists, uses>>
    BY <1>11 DEF AttachFails, AttachFacilitiesFails
  <2>3. FamilyInv'
    BY <1>2, <2>1, <2>2, QuietStep
  <2>4. phase[p] \in Guarded /\ phase' = [phase EXCEPT ![p] = "out"] /\ UNCHANGED system
    BY <1>2, <2>1 DEF Moves
  <2>5. sysSem' <= 1
    BY <1>4, <1>11, <2>4, Given DEF AttachFails, AttachFacilitiesFails
  <2>6. LockInv'
    BY <2>2, <2>4, <2>5, GoesOut
  <2> QED BY <2>3, <2>6
<1>12. ~ StartInterrupted(p)
  BY DEF StartInterrupted, semTakeInterrupted
<1> QED BY <1>5, <1>6, <1>7, <1>8, <1>9, <1>10, <1>11, <1>12

LEMMA SystemSteps ==
  ASSUME ProcInv, NEW p \in Proc,
         \/ (SystemStep(p) \/ (p = Parent /\ ParentStarts)) /\ UNCHANGED listVars
         \/ Ends(p) \/ ChildFails(p)
  PROVE  ProcInv'
<1>0. SystemTypes /\ ListTypes /\ HomeInv /\ OrderInv /\ (~ disturbed => LockInv /\ FamilyInv)
  BY DEF ProcInv
<1>1. /\ UNCHANGED <<procList, hasStarted, ready, at, signalled, hasty>>
      /\ broken \subseteq broken' /\ broken' \in SUBSET Child
  BY <1>0 DEF listVars, Ends, ChildFails, ListTypes, Child
<1>2. PICK from, to :
        /\ Moves(p, from, to) /\ (from # "out" \/ (p = Parent /\ ~ hasStarted)) /\ to # "child"
        /\ to \in Starting => from \in Starting \cup {"out", "child"}
        /\ to \in Leaving => from \in Leaving \/ p \in Child \/ (at.does = "idle" /\ Childless)
  BY Moving DEF ChildFails
<1>3. SystemTypes'
  BY <1>0, TypesKept DEF Ends, ChildFails, ParentStarts, SystemCall
<1>4. HomeInv'
  BY <1>0, <1>1, <1>2, HomeKept
<1>5. ListTypes' /\ OrderInv'
  <2>1. Orderly' => Orderly
    BY <1>1 DEF Orderly
  <2>2. hasty' \in BOOLEAN
    BY <1>0, <1>1 DEF ListTypes
  <2> QED BY <1>0, <1>1, <1>2, <2>1, <2>2, MovesOn
<1>6. ASSUME ~ disturbed' PROVE LockInv' /\ FamilyInv'
  <2>1. ~ disturbed
    <3>1. CASE SystemStep(p)
      BY <1>6, <3>1 DEF SystemStep, SemSetVal, StartTakes, semTake, FindShare, AttachShare, MakeFacilities,
                        AttachFacilities, RegisterReads, LeaveReads, ReadProcs, Register, LeaveSystem, DetachReads, Leave
    <3>2. CASE SystemFailure(p)
      BY <1>6, <3>2 DEF SystemFailure, StartInterrupted, semTakeInterrupted, AttachFails, MakeFails,
                        AttachFacilitiesFails, Dies
    <3>3. CASE Ends(p) \/ (p = Parent /\ ParentStarts)
      BY <1>6, <3>3 DEF Ends, SystemExit, ExitInterrupted, semTakeInterrupted, ExitTakes, semTake, ParentStarts, SemGet
    <3> QED BY <3>1, <3>2, <3>3 DEF ChildFails
  <2>2. SystemTypes /\ SystemTypes' /\ FamilyInv /\ HomeInv' /\ LockInv /\ UNCHANGED <<hasStarted, at>>
    BY <1>0, <1>1, <1>3, <1>4, <2>1
  <2>3. CASE AttachShare(p)
    BY <2>2, <2>3, AttachShareStep
  <2>4. CASE MakeFacilities(p) \/ MakeFails(p)
    BY <2>2, <2>4, MakeStep
  <2>5. CASE AttachFacilities(p)
    BY <2>2, <2>5, AttachFacilitiesStep
  <2>6. CASE Register(p)
    BY <2>2, <2>6, RegisterStep
  <2>7. CASE LeaveSystem(p)
    BY <2>2, <2>7, LeaveSystemStep
  <2>8. CASE Leave(p)
    BY <2>2, <2>8, LeaveStep
  <2>9. CASE Dies(p)
    BY <2>2, <2>9, DiesStep
  <2>10. CASE \/ SemSetVal(p) \/ StartTakes(p) \/ FindShare(p) \/ AttachFacilitiesFails(p)
              \/ RegisterReads(p) \/ LeaveReads(p) \/ DetachReads(p) \/ AttachFails(p) \/ StartInterrupted(p)
              \/ Ends(p) \/ (p = Parent /\ ParentStarts)
    BY <1>6, <2>2, <2>10, QuietSteps
  <2> QED BY <2>3, <2>4, <2>5, <2>6, <2>7, <2>8, <2>9, <2>10 DEF SystemStep, ChildFails, SystemFailure
<1> QED BY <1>3, <1>4, <1>5, <1>6 DEF ProcInv

(* The calls and steps of the list itself. *)
LEMMA ListCalls ==
  ASSUME ProcInv,
         \/ radPlistStart \/ ChildReady \/ WaitInterrupted
         \/ \E c \in Child : \/ \E n \in Priority : radPlistAdd(c, n)
                             \/ radPlistAddandStart(c) \/ radPlistRemovePid(c)
                             \/ radPlistProcessReady(c)
  PROVE  ProcInv'
<1>1. SystemTypes /\ ListTypes /\ HomeInv /\ OrderInv /\ (~ disturbed => LockInv /\ FamilyInv)
  BY DEF ProcInv
<1>2. ListTypes' /\ OrderInv'
  BY <1>1, StartStep, ReadyStep, AddStep, AddandStartStep, RemovePidStep, SignalStep
<1>3. SystemTypes' /\ HomeInv' /\ (LockInv /\ FamilyInv => LockInv' /\ FamilyInv') /\ UNCHANGED disturbed
  <2>1. /\ UNCHANGED <<sysSem, semId, share, attached, seen, semSet, exists, uses, phase, system, disturbed>>
        /\ hasStarted' \in BOOLEAN
    BY <1>2 DEF radPlistStart, ChildReady, WaitInterrupted, radPlistAdd, radPlistAddandStart, radPlistRemovePid,
                radPlistProcessReady, ListTypes, sysVars
  <2>2. UNCHANGED phase
    BY <2>1
  <2>3. CASE ChildReady \/ WaitInterrupted
    <3>1. at.does = "wait" /\ UNCHANGED hasStarted /\ phase[Parent] = "in"
      BY <2>3 DEF ChildReady, WaitInterrupted
    <3> QED BY <1>1, <2>1, <3>1, ListSteps DEF Family, Raising, HomeInv, Leaving
  <2>4. CASE \E c \in Child : radPlistProcessReady(c)
    <3>1. UNCHANGED <<at, hasStarted>>
      BY <2>4 DEF radPlistProcessReady
    <3> QED BY <1>1, <2>1, <2>2, <3>1, ListSteps DEF Family, Raising, Childless, HomeInv
  <2>5. CASE \/ radPlistStart
             \/ \E c \in Child : \/ \E n \in Priority : radPlistAdd(c, n)
                                 \/ radPlistAddandStart(c) \/ radPlistRemovePid(c)
    <3>1. phase[Parent] = "in"
      BY <2>5 DEF radPlistStart, radPlistAdd, radPlistAddandStart, radPlistRemovePid, Idle
    <3>2. (hasStarted => hasStarted') /\ (at'.does # "idle" => hasStarted')
      <4>1. CASE radPlistStart
        BY <4>1 DEF radPlistStart
      <4>2. CASE \E c \in Child : radPlistAddandStart(c)
        BY <4>2 DEF radPlistAddandStart
      <4>3. CASE \E c \in Child : (\E n \in Priority : radPlistAdd(c, n)) \/ radPlistRemovePid(c)
        <5>1. UNCHANGED <<at, hasStarted>> /\ at.does = "idle"
          BY <4>3 DEF radPlistAdd, radPlistRemovePid, Idle
        <5> QED BY <5>1
      <4> QED BY <2>5, <4>1, <4>2, <4>3
    <3> QED BY <1>1, <2>1, <3>1, <3>2, ListSteps DEF Family, Leaving
  <2> QED BY <2>3, <2>4, <2>5
<1> QED BY <1>1, <1>2, <1>3 DEF ProcInv

(* Every step keeps the invariant. *)
LEMMA ProcStep == ProcInv /\ [ProcListNext]_procVars => ProcInv'
<1> SUFFICES ASSUME ProcInv, [ProcListNext]_procVars PROVE ProcInv'
  OBVIOUS
<1>1. CASE radStartProcess
  <2>1. SystemTypes' /\ HomeInv' /\ (LockInv /\ FamilyInv => LockInv' /\ FamilyInv')
    BY <1>1, ChildBegins DEF ProcInv
  <2>2. ListTypes' /\ OrderInv'
    BY <1>1, ForkStep DEF ProcInv
  <2>3. UNCHANGED disturbed
    BY <1>1 DEF radStartProcess
  <2> QED BY <2>1, <2>2, <2>3 DEF ProcInv
<1>2. CASE \E c \in Child : ChildStarts(c)
  <2>1. SystemTypes' /\ HomeInv' /\ (LockInv /\ FamilyInv => LockInv' /\ FamilyInv')
    BY <1>2, ChildBegins DEF ProcInv
  <2>2. PICK c \in Child : ChildStarts(c)
    BY <1>2
  <2>3. /\ phase[c] = "child" /\ phase' = [phase EXCEPT ![c] = "set"] /\ UNCHANGED <<system, disturbed, listVars>>
    BY <2>2 DEF ChildStarts
  <2>4. c \in Proc /\ Moves(c, "child", "set")
    BY <2>3 DEF Child, Moves
  <2>5. /\ UNCHANGED <<procList, hasStarted, ready, at, signalled, broken, hasty>> /\ Orderly' = Orderly
        /\ broken' \in SUBSET Child /\ hasty' \in BOOLEAN
    BY <2>3 DEF listVars, Orderly, ProcInv, ListTypes
  <2>6. ListTypes' /\ OrderInv'
    BY <2>4, <2>5, MovesOn DEF ProcInv
  <2> QED BY <2>1, <2>3, <2>6 DEF ProcInv
<1>3. CASE UNCHANGED procVars
  <2>1. UNCHANGED sysVars /\ UNCHANGED listVars
    BY <1>3 DEF procVars
  <2>2. UNCHANGED <<sysSem, semId, share, attached, seen, semSet, exists, uses, phase, system, disturbed>>
    BY <2>1 DEF sysVars
  <2>3. UNCHANGED <<procList, hasStarted, ready, at, signalled, broken, hasty>> /\ Orderly' = Orderly
    BY <2>1 DEF listVars, Orderly
  <2>4. ListTypes' /\ OrderInv'
    BY <2>2, <2>3, NobodyBegins DEF ListTypes, ProcInv
  <2>5. SystemTypes' /\ HomeInv' /\ (LockInv /\ FamilyInv => LockInv' /\ FamilyInv')
    BY <2>2, <2>3, ListSteps DEF Family, Raising, Childless, HomeInv, ListTypes, ProcInv
  <2> QED BY <2>2, <2>4, <2>5 DEF ProcInv
<1>4. ASSUME ProcListNext PROVE ProcInv'
  <2>1. \/ radStartProcess \/ \E c \in Child : ChildStarts(c)
        \/ radPlistStart \/ ChildReady \/ WaitInterrupted
        \/ \E c \in Child : \/ \E n \in Priority : radPlistAdd(c, n)
                            \/ radPlistAddandStart(c) \/ radPlistRemovePid(c)
                            \/ radPlistProcessReady(c)
        \/ \E p \in Proc : \/ (SystemStep(p) \/ (p = Parent /\ ParentStarts)) /\ UNCHANGED listVars
                           \/ Ends(p) \/ ChildFails(p)
    <3>1. ParentStarts => \E p \in Proc : p = Parent /\ ParentStarts
      BY ProcListAssumption
    <3>2. CASE ProcListStep
      BY <3>2 DEF ProcListStep
    <3>3. CASE ProcListCall
      BY <3>1, <3>3 DEF ProcListCall
    <3>4. CASE ProcListFailure
      BY <3>4 DEF ProcListFailure
    <3> QED BY <1>4, <3>2, <3>3, <3>4 DEF ProcListNext
  <2> QED BY <1>1, <1>2, <2>1, ListCalls, SystemSteps
<1> QED BY <1>3, <1>4

(* At the beginning nobody runs and nothing is listed. *)
LEMMA ProcStart == ProcListInit => ProcInv
<1> SUFFICES ASSUME ProcListInit PROVE ProcInv
  OBVIOUS
<1>1. SystemTypes
  <2>1. NoShare \in AnyCounts
    BY DEF NoShare, AnyCounts
  <2>2. /\ phase \in [Proc -> AnyPhase] /\ uses \in [Proc -> Known] /\ attached \in [Proc -> Known]
        /\ semId \in [Proc -> Known] /\ seen \in [Proc -> Int] /\ sysSem \in Int /\ disturbed \in BOOLEAN
    <3>1. "out" \in AnyPhase /\ "none" \in Known /\ None \in Int /\ 0 \in Int
      BY DEF AnyPhase, Known, None
    <3>2. /\ phase = [p \in Proc |-> "out"] /\ uses = [p \in Proc |-> "none"] /\ attached = [p \in Proc |-> "none"]
          /\ semId = [p \in Proc |-> "none"] /\ seen = [p \in Proc |-> 0] /\ sysSem = None /\ disturbed = FALSE
      BY DEF ProcListInit, SystemInit
    <3> QED BY <3>1, <3>2
  <2>3. system \in [Proc -> SystemID] /\ \A p \in Proc : system[p] = Home
    BY DEF Home, ProcListInit, SystemInit
  <2>4. semSet \in [SystemID -> BOOLEAN] /\ exists \in [SystemID -> SUBSET Facility] /\ share = NoShare
    BY DEF ProcListInit, SystemInit
  <2> QED BY <2>1, <2>2, <2>3, <2>4 DEF SystemTypes
<1>0. /\ procList = <<>> /\ hasStarted = FALSE /\ ready = 0 /\ at = [does |-> "idle", entry |-> 0]
      /\ signalled = {} /\ broken = {} /\ hasty = FALSE
  BY DEF ProcListInit
<1>2. ListTypes
  <2>1. <<>> \in Seq(Entry)
    OBVIOUS
  <2>2. at \in [does : {"idle", "fork", "wait"}, entry : Nat]
    BY <1>0
  <2> QED BY <1>0, <2>1, <2>2 DEF ListTypes
<1>3. Childless /\ phase[Parent] = "out" /\ \A p \in Proc : phase[p] = "out"
  BY ProcListAssumption DEF Childless, Child, ProcListInit, SystemInit
<1>4. HomeInv /\ FamilyInv
  <2>1. /\ "out" \notin Starting /\ "out" \notin AttachedIn /\ "out" \notin CountedIn /\ "out" \notin UsesIn
        /\ "out" \notin Leaving
    BY DEF Starting, AttachedIn, CountedIn, UsesIn, Leaving
  <2>3. share \in Counts
    BY DEF NoShare, Counts, ProcListInit, SystemInit
  <2>2. ~ Family
    BY <1>0, <1>3 DEF Family, Raising
  <2> QED BY <1>0, <1>3, <2>1, <2>2, <2>3 DEF FamilyInv, HomeInv
<1>5. OrderInv
  <2>1. DOMAIN procList = {}
    BY <1>0
  <2>2. Ascending(procList)
    BY <2>1 DEF Ascending
  <2> QED BY <1>0, <1>3, <2>1, <2>2 DEF OrderInv, Child
<1>6. LockInv
  <2>1. "out" \notin Guarded /\ "out" \notin AttachedIn
    BY DEF Guarded, AttachedIn, Leaving
  <2>2. sysSem <= 1
    BY DEF None, ProcListInit, SystemInit
  <2> QED BY <1>3, <2>1, <2>2 DEF LockInv, Exclusive, ReadRight
<1> QED BY <1>1, <1>2, <1>4, <1>5, <1>6 DEF ProcInv

(* What the proofs of the process list rest on. *)
THEOREM ProcInvariant == ProcListSpec => []ProcInv
<1> QED BY ProcStart, ProcStep, PTL DEF ProcListSpec

(* The processes a parent starts from a list share the semaphores, buffers *)
(* and queue table of their system, whatever fails and whoever ends or     *)
(* dies, as long as the semaphore keeps them apart, each taken for the     *)
(* first or the last of the system only when it is (radSystemInit,         *)
(* radSystemExit).                                                         *)
THEOREM ListUsersShare == ProcListSpec => []UsersShare
<1>1. ProcInv => UsersShare
  <2> SUFFICES ASSUME ProcInv, ~ disturbed
               PROVE  /\ Cardinality(Inside) <= 1
                      /\ \A p \in Proc : phase[p] = "in" =>
                           uses[p] = "current" /\ semSet[system[p]] /\ exists[system[p]] = Facility
    BY DEF UsersShare
  <2>0. FamilyInv /\ Exclusive /\ SystemTypes
    BY DEF ProcInv, LockInv
  <2>1. Cardinality(Inside) <= 1
    <3>1. CASE Inside = {}
      BY <3>1, FS_EmptySet
    <3>2. CASE Inside # {}
      <4>1. PICK p \in Inside : TRUE
        BY <3>2
      <4>2. Inside = {p}
        BY <2>0, <4>1 DEF Inside, Exclusive
      <4>3. Cardinality({p}) = 1
        BY FS_Singleton, Zenon
      <4> QED BY <4>2, <4>3
    <3> QED BY <3>1, <3>2
  <2>2. ASSUME NEW p \in Proc, phase[p] = "in"
        PROVE  uses[p] = "current" /\ semSet[system[p]] /\ exists[system[p]] = Facility
    <3>1. uses[p] = "current"
      BY <2>0, <2>2 DEF FamilyInv, UsesIn
    <3>2. system[p] = Home
      BY <2>0 DEF SystemTypes
    <3>3. Family
      BY <2>0, <2>2, Who DEF Family
    <3> QED BY <2>0, <3>1, <3>2, <3>3 DEF FamilyInv
  <2> QED BY <2>1, <2>2
<1> QED BY <1>1, ProcInvariant, PTL

(* A child runs only when all with a smaller priority have signalled that  *)
(* they are ready, however entries are added and removed, as long as none  *)
(* failed and the parent has waited for each of them (radPlistStart,       *)
(* radPlistAddandStart).                                                   *)
THEOREM ChildrenInOrder == ProcListSpec => []StartedInOrder
<1>1. ProcInv => StartedInOrder
  <2> SUFFICES ASSUME ProcInv, NEW j \in DOMAIN procList, NEW k \in DOMAIN procList,
                      procList[j].priority < procList[k].priority, procList[k].pid \in Child, Orderly
               PROVE  procList[j].entry \in signalled
    BY DEF StartedInOrder, Orderly
  <2>1. /\ j \in Nat /\ k \in Nat /\ procList[j].priority \in Nat /\ procList[k].priority \in Nat
    BY LenProperties, ElementOfSeq, Priorities DEF ProcInv, ListTypes
  <2>2. j < k
    <3> SUFFICES ASSUME ~ (j < k) PROVE FALSE
      OBVIOUS
    <3>1. k = j \/ k < j
      BY <2>1
    <3>2. procList[k].priority <= procList[j].priority
      BY <2>1, <3>1 DEF ProcInv, OrderInv, Ascending
    <3> QED BY <2>1, <3>2
  <2>3. ~ InStore(k)
    BY PidAssumption DEF Child, InStore
  <2>4. hasStarted
    BY <2>3 DEF ProcInv, OrderInv
  <2>5. CASE at.does = "idle"
    BY <2>4, <2>5 DEF ProcInv, OrderInv
  <2>6. CASE at.does # "idle"
    <3>1. at.entry \in Nat /\ ~ (k > at.entry)
      BY <2>3, <2>6 DEF ProcInv, OrderInv, ListTypes
    <3>2. j < at.entry
      BY <2>1, <2>2, <3>1
    <3> QED BY <2>6, <3>2 DEF ProcInv, OrderInv
  <2> QED BY <2>5, <2>6
<1> QED BY <1>1, ProcInvariant, PTL

-----------------------------------------------------------------------------
(* Linked routers: the two ends of a link, and what is to be read from a   *)
(* socket: after all of it, is the writer a consumer of the reader?        *)
Both(n) == {Initiator(n), Acceptor(n)}
OtherEnd(r, n) == IF r = Initiator(n) THEN Acceptor(n) ELSE Initiator(n)
There(n) == <<n, "there">>
Back(n) == <<n, "back">>

Message == {"REGISTER", "ACK", "ENABLE", "DISABLE", "DATA", "cut"}
Begins(data, message) == data # <<>> /\ Head(data) = message
Told(data) ==
  \E k \in DOMAIN data : /\ data[k] = "ENABLE"
                         /\ \A j \in DOMAIN data : j > k => data[j] # "DISABLE"
NoDisable(data) == \A k \in DOMAIN data : data[k] # "DISABLE"
Plain(data) == \A k \in DOMAIN data : k > 1 => data[k] \notin {"REGISTER", "ACK"}

Wire == [data : Seq(Message), writer : BOOLEAN, reader : BOOLEAN]

RemoteTypes ==
  /\ running \subseteq Router
  /\ links \in Seq(Router) /\ Len(links) <= MaxLinks
  /\ \A n \in DOMAIN links : Acceptor(n) \in Router
  /\ sock \in [Socket -> Wire]
  /\ pib \in [Router -> [known : SUBSET Nat, heard : SUBSET Nat]]
  /\ consumers \in [Router -> SUBSET Nat]

(* A router knows its own links only, and hears those whose socket to it   *)
(* is open; its consumers are local programs and links that it hears.      *)
PibInv ==
  \A r \in Router :
    /\ pib[r].heard \subseteq pib[r].known
    /\ \A n \in pib[r].known : n \in DOMAIN links /\ r \in Both(n)
    /\ \A n \in pib[r].heard : sock[Rx(r, n)].reader
    /\ consumers[r] \subseteq pib[r].heard \cup {Local}

(* REGISTER and ACK are the first of all, and nobody hears a link before   *)
(* they are read.                                                          *)
ShakeInv ==
  /\ \A s \in Socket : Plain(sock[s].data)
  /\ \A s \in Socket : s[1] \notin DOMAIN links => sock[s] = Unopened
  /\ \A n \in DOMAIN links :
       /\ Begins(sock[There(n)].data, "REGISTER") => /\ ~ Begins(sock[Back(n)].data, "ACK")
                                         /\ n \notin pib[Initiator(n)].heard \cup pib[Acceptor(n)].heard
       /\ Begins(sock[Back(n)].data, "ACK") => n \notin pib[Initiator(n)].heard

(* A router that hears a link is, or will be, a consumer of its peer,      *)
(* unless it could not say so.                                             *)
Serves(r, n) ==
  n \in pib[r].heard /\ sock[Tx(r, n)].reader /\ consumers[r] \ {n} # {} =>
    \/ n \in missed[r]
    \/ Told(sock[Tx(r, n)].data)
    \/ n \in consumers[OtherEnd(r, n)] /\ NoDisable(sock[Tx(r, n)].data)

RemoteInv ==
  /\ RemoteTypes /\ PibInv /\ ShakeInv /\ DOMAIN missed = Router
  /\ \A n \in DOMAIN links : \A r \in Both(n) : Serves(r, n)

-----------------------------------------------------------------------------
(* What a message behind the others changes, ... *)
LEMMA Grows ==
  ASSUME NEW d \in Seq(Message), NEW m \in {"ENABLE", "DISABLE", "DATA", "cut"}
  PROVE  /\ d \o <<m>> \in Seq(Message)
         /\ Plain(d) => Plain(d \o <<m>>)
         /\ \A x \in {"REGISTER", "ACK"} : Begins(d \o <<m>>, x) => Begins(d, x)
         /\ m = "ENABLE" => Told(d \o <<m>>)
         /\ m # "DISABLE" /\ Told(d) => Told(d \o <<m>>)
         /\ m # "DISABLE" /\ NoDisable(d) => NoDisable(d \o <<m>>)
<1> DEFINE u == <<m>>
           e == d \o u
<1>1. u \in Seq(Message) /\ Len(u) = 1 /\ u[1] = m
  BY DEF Message
<1> HIDE DEF u
<1>2. /\ e \in Seq(Message) /\ Len(e) = Len(d) + 1
      /\ \A k \in 1 .. Len(d) + 1 : e[k] = IF k <= Len(d) THEN d[k] ELSE u[k - Len(d)]
  <2>1. Len(d) \in Nat /\ Len(d) + Len(u) = Len(d) + 1
    BY <1>1, LenProperties
  <2>2. /\ e \in Seq(Message) /\ Len(e) = Len(d) + Len(u)
        /\ \A k \in 1 .. Len(d) + Len(u) : e[k] = IF k <= Len(d) THEN d[k] ELSE u[k - Len(d)]
    BY <1>1, ConcatProperties
  <2> QED BY <2>1, <2>2
<1>3. Len(d) \in Nat /\ DOMAIN d = 1 .. Len(d) /\ DOMAIN e = 1 .. Len(d) + 1
  BY <1>2, LenProperties
<1>4. \A k \in DOMAIN d : k \in DOMAIN e /\ e[k] = d[k]
  BY <1>2, <1>3
<1>5. e[Len(d) + 1] = m
  <2>1. Len(d) + 1 \in 1 .. Len(d) + 1 /\ ~ (Len(d) + 1 <= Len(d)) /\ (Len(d) + 1) - Len(d) = 1
    BY <1>3
  <2> QED BY <1>1, <1>2, <2>1
<1>6. \A k \in DOMAIN e : k \in DOMAIN d \/ k = Len(d) + 1
  BY <1>3
<1> HIDE DEF e
<1>7. Plain(d) => Plain(e)
  BY <1>4, <1>5, <1>6 DEF Plain
<1>8. ASSUME NEW x \in {"REGISTER", "ACK"}, Begins(e, x) PROVE Begins(d, x)
  <2>1. e # <<>> /\ Head(e) = e[1]
    BY <1>2, <1>8, HeadTailProperties DEF Begins
  <2>2. d # <<>>
    <3> SUFFICES ASSUME d = <<>> PROVE FALSE
      OBVIOUS
    <3>1. Len(d) = 0
      OBVIOUS
    <3>2. e[1] = m
      BY <1>5, <3>1
    <3> QED BY <1>8, <2>1, <3>2 DEF Begins
  <2>3. 1 \in DOMAIN d /\ Head(d) = d[1]
    BY <1>3, <2>2, EmptySeq, HeadTailProperties
  <2> QED BY <1>4, <1>8, <2>1, <2>2, <2>3 DEF Begins
<1>9. m = "ENABLE" => Told(e)
  <2> SUFFICES ASSUME m = "ENABLE" PROVE Told(e)
    OBVIOUS
  <2>1. Len(d) + 1 \in DOMAIN e /\ \A j \in DOMAIN e : ~ (j > Len(d) + 1)
    BY <1>3
  <2> QED BY <1>5, <2>1 DEF Told
<1>10. ASSUME m # "DISABLE", Told(d) PROVE Told(e)
  <2>1. PICK k \in DOMAIN d : d[k] = "ENABLE" /\ \A j \in DOMAIN d : j > k => d[j] # "DISABLE"
    BY <1>10 DEF Told
  <2>2. \A j \in DOMAIN e : j > k => e[j] # "DISABLE"
    BY <1>4, <1>5, <1>6, <1>10, <2>1
  <2> QED BY <1>4, <2>1, <2>2 DEF Told
<1>11. ASSUME m # "DISABLE", NoDisable(d) PROVE NoDisable(e)
  BY <1>4, <1>5, <1>6, <1>11 DEF NoDisable
<1> QED BY <1>2, <1>7, <1>8, <1>9, <1>10, <1>11 DEF e, u

(* ... and one that is read. *)
LEMMA Shrinks ==
  ASSUME NEW d \in Seq(Message), d # <<>>
  PROVE  /\ Tail(d) \in Seq(Message)
         /\ Plain(d) => Plain(Tail(d)) /\ \A x \in {"REGISTER", "ACK"} : ~ Begins(Tail(d), x)
         /\ Told(d) => Told(Tail(d)) \/ (Begins(d, "ENABLE") /\ NoDisable(Tail(d)))
         /\ NoDisable(d) => NoDisable(Tail(d)) /\ ~ Begins(d, "DISABLE")
<1> DEFINE e == Tail(d)
<1>1. /\ e \in Seq(Message) /\ Len(e) = Len(d) - 1 /\ \A k \in 1 .. Len(e) : e[k] = d[k + 1]
      /\ Head(d) = d[1]
  BY HeadTailProperties
<1>2. /\ Len(d) \in Nat /\ Len(d) >= 1 /\ DOMAIN d = 1 .. Len(d) /\ DOMAIN e = 1 .. Len(d) - 1
      /\ Len(e) \in Nat
  BY <1>1, LenProperties, EmptySeq
<1>3. \A k \in DOMAIN e : k + 1 \in DOMAIN d /\ e[k] = d[k + 1] /\ k + 1 > 1 /\ k \in Nat
  BY <1>1, <1>2
<1> HIDE DEF e
<1>4. ASSUME Plain(d) PROVE Plain(e) /\ \A x \in {"REGISTER", "ACK"} : ~ Begins(e, x)
  <2>1. \A k \in DOMAIN e : e[k] \notin {"REGISTER", "ACK"}
    BY <1>3, <1>4 DEF Plain
  <2>2. e # <<>> => Head(e) = e[1] /\ 1 \in DOMAIN e
    BY <1>1, HeadTailProperties, LenProperties, EmptySeq
  <2> QED BY <2>1, <2>2 DEF Plain, Begins
<1>5. ASSUME Told(d) PROVE Told(e) \/ (Begins(d, "ENABLE") /\ NoDisable(e))
  <2>1. PICK k \in DOMAIN d : d[k] = "ENABLE" /\ \A j \in DOMAIN d : j > k => d[j] # "DISABLE"
    BY <1>5 DEF Told
  <2>2. CASE k = 1
    <3>1. NoDisable(e)
      BY <1>3, <2>1, <2>2 DEF NoDisable
    <3>2. Begins(d, "ENABLE")
      BY <1>1, <2>1, <2>2 DEF Begins
    <3> QED BY <3>1, <3>2
  <2>3. CASE k # 1
    <3>1. k - 1 \in DOMAIN e /\ (k - 1) + 1 = k /\ k \in Nat
      BY <1>2, <2>3
    <3>2. e[k - 1] = "ENABLE"
      BY <1>3, <2>1, <3>1
    <3>3. \A j \in DOMAIN e : j > k - 1 => e[j] # "DISABLE"
      <4> SUFFICES ASSUME NEW j \in DOMAIN e, j > k - 1 PROVE e[j] # "DISABLE"
        OBVIOUS
      <4>1. j + 1 \in DOMAIN d /\ j + 1 > k /\ e[j] = d[j + 1]
        BY <1>3, <3>1
      <4> QED BY <2>1, <4>1
    <3> DEFINE i == k - 1
    <3>4. i \in DOMAIN e /\ e[i] = "ENABLE" /\ \A j \in DOMAIN e : j > i => e[j] # "DISABLE"
      BY <3>1, <3>2, <3>3
    <3> HIDE DEF i
    <3> QED BY <3>4 DEF Told
  <2> QED BY <2>2, <2>3
<1>6. ASSUME NoDisable(d) PROVE NoDisable(e) /\ ~ Begins(d, "DISABLE")
  <2>1. NoDisable(e)
    BY <1>3, <1>6 DEF NoDisable
  <2>2. 1 \in DOMAIN d
    BY <1>2
  <2> QED BY <1>1, <1>6, <2>1, <2>2 DEF NoDisable, Begins
<1> QED BY <1>1, <1>4, <1>5, <1>6 DEF e

(* The ends and sockets of links. *)
LEMMA LinkEnds ==
  ASSUME RemoteTypes, NEW n \in DOMAIN links, NEW r \in Both(n)
  PROVE  /\ n \in Link /\ n \in Nat /\ n # Local
         /\ Initiator(n) \in Router /\ Acceptor(n) \in Router /\ Acceptor(n) # Initiator(n) /\ r \in Router
         /\ Tx(r, n) \in Socket /\ Rx(r, n) \in Socket /\ Tx(r, n) # Rx(r, n)
         /\ There(n) \in Socket /\ Back(n) \in Socket /\ There(n) # Back(n)
         /\ OtherEnd(r, n) \in Both(n) /\ OtherEnd(r, n) \in Router /\ OtherEnd(r, n) # r
         /\ Tx(OtherEnd(r, n), n) = Rx(r, n) /\ Rx(OtherEnd(r, n), n) = Tx(r, n)
         /\ OtherEnd(OtherEnd(r, n), n) = r
         /\ Tx(r, n)[1] = n /\ Rx(r, n)[1] = n
         /\ \A q \in Both(n) : q = r \/ q = OtherEnd(r, n)
         /\ Tx(Initiator(n), n) = There(n) /\ Tx(Acceptor(n), n) = Back(n)
         /\ Rx(Initiator(n), n) = Back(n) /\ Rx(Acceptor(n), n) = There(n)
<1>1. n \in 1 .. Len(links) /\ Len(links) \in Nat /\ links[n] \in Router /\ Remote[links[n]] \in Router
  BY LenProperties, ElementOfSeq DEF RemoteTypes, Acceptor
<1>2. n \in Link /\ n \in Nat /\ n # Local
  BY <1>1, RemoteAssumption DEF Link, Local, RemoteTypes
<1>3. Remote[links[n]] # links[n]
  BY <1>1, RemoteAssumption
<1>4. r = links[n] \/ r = Remote[links[n]]
  BY DEF Both, Initiator, Acceptor
<1>5. /\ <<n, "there">> \in Socket /\ <<n, "back">> \in Socket /\ <<n, "there">> # <<n, "back">>
      /\ <<n, "there">>[1] = n /\ <<n, "back">>[1] = n
  BY <1>2 DEF Socket
<1>6. CASE r = links[n]
  BY <1>1, <1>2, <1>3, <1>5, <1>6 DEF Both, Initiator, Acceptor, Tx, Rx, OtherEnd, There, Back
<1>7. CASE r = Remote[links[n]]
  BY <1>1, <1>2, <1>3, <1>5, <1>7 DEF Both, Initiator, Acceptor, Tx, Rx, OtherEnd, There, Back
<1> QED BY <1>4, <1>6, <1>7

-----------------------------------------------------------------------------
(* A socket after a step that opens none: nothing new comes first. *)
KeepsForm(s) ==
  /\ sock'[s] \in Wire
  /\ Plain(sock'[s].data)
  /\ s[1] \notin DOMAIN links => sock'[s] = Unopened
  /\ \A x \in {"REGISTER", "ACK"} : Begins(sock'[s].data, x) => Begins(sock[s].data, x)

(* A router after a step in which no link comes up. *)
KeepsPib(r) ==
  /\ pib'[r].heard \subseteq pib'[r].known
  /\ pib'[r].known \subseteq pib[r].known /\ pib'[r].heard \subseteq pib[r].heard
  /\ consumers'[r] \subseteq pib'[r].heard \cup {Local}
  /\ \A n \in pib'[r].heard : sock'[Rx(r, n)].reader

LEMMA NoLinkComesUp ==
  ASSUME RemoteInv, UNCHANGED links, running' \subseteq Router,
         pib' \in [Router -> [known : SUBSET Nat, heard : SUBSET Nat]],
         consumers' \in [Router -> SUBSET Nat],
         sock' = [s \in Socket |-> sock'[s]],
         \A s \in Socket : KeepsForm(s), \A r \in Router : KeepsPib(r)
  PROVE  RemoteTypes' /\ PibInv' /\ ShakeInv'
<1>0. RemoteTypes /\ PibInv /\ ShakeInv
  BY DEF RemoteInv
<1>1. \A n : /\ Initiator(n)' = Initiator(n) /\ Acceptor(n)' = Acceptor(n) /\ Both(n)' = Both(n)
             /\ There(n)' = There(n) /\ Back(n)' = Back(n)
  BY DEF Initiator, Acceptor, Both, There, Back
<1>2. \A r, n : Rx(r, n)' = Rx(r, n)
  BY <1>1 DEF Rx
<1>3. RemoteTypes'
  <2>1. sock' \in [Socket -> Wire]
    BY DEF KeepsForm
  <2> QED BY <1>0, <1>1, <2>1 DEF RemoteTypes
<1>4. PibInv'
  <2> SUFFICES ASSUME NEW r \in Router
               PROVE  /\ pib'[r].heard \subseteq pib'[r].known
                      /\ \A n \in pib'[r].known : n \in DOMAIN links' /\ r \in Both(n)'
                      /\ \A n \in pib'[r].heard : sock'[Rx(r, n)'].reader
                      /\ consumers'[r] \subseteq pib'[r].heard \cup {Local}
    BY DEF PibInv
  <2>1. KeepsPib(r)
    OBVIOUS
  <2> QED BY <1>0, <1>1, <1>2, <2>1 DEF PibInv, KeepsPib
<1>5. \A s \in Socket : Plain(sock'[s].data) /\ (s[1] \notin DOMAIN links' => sock'[s] = Unopened)
  BY DEF KeepsForm
<1>6. ASSUME NEW n \in DOMAIN links
      PROVE  /\ Begins(sock'[There(n)].data, "REGISTER") =>
                  /\ ~ Begins(sock'[Back(n)].data, "ACK")
                  /\ n \notin pib'[Initiator(n)].heard \cup pib'[Acceptor(n)].heard
             /\ Begins(sock'[Back(n)].data, "ACK") => n \notin pib'[Initiator(n)].heard
  <2>1. /\ There(n) \in Socket /\ Back(n) \in Socket /\ Initiator(n) \in Router /\ Acceptor(n) \in Router
    BY <1>0, LinkEnds DEF Both
  <2>2. /\ Begins(sock'[There(n)].data, "REGISTER") => Begins(sock[There(n)].data, "REGISTER")
        /\ Begins(sock'[Back(n)].data, "ACK") => Begins(sock[Back(n)].data, "ACK")
    BY <2>1 DEF KeepsForm
  <2>3. /\ pib'[Initiator(n)].heard \subseteq pib[Initiator(n)].heard
        /\ pib'[Acceptor(n)].heard \subseteq pib[Acceptor(n)].heard
    BY <2>1 DEF KeepsPib
  <2> QED BY <1>0, <2>2, <2>3 DEF ShakeInv
<1>7. ShakeInv'
  BY <1>1, <1>5, <1>6 DEF ShakeInv
<1> QED BY <1>3, <1>4, <1>7

(* A link goes on to serve, when what its router has and what is said on   *)
(* it only get less to serve or more to serve with.                        *)
KeepsServing(r, n) ==
  n \in pib'[r].heard /\ sock'[Tx(r, n)].reader /\ consumers'[r] \ {n} # {} =>
    /\ n \in pib[r].heard /\ sock[Tx(r, n)].reader /\ consumers[r] \ {n} # {}
    /\ n \in consumers[OtherEnd(r, n)] => n \in consumers'[OtherEnd(r, n)]
    /\ Told(sock[Tx(r, n)].data) => Told(sock'[Tx(r, n)].data)
    /\ NoDisable(sock[Tx(r, n)].data) => NoDisable(sock'[Tx(r, n)].data)

LEMMA ServesOn ==
  ASSUME NEW r, NEW n, Serves(r, n), UNCHANGED links, KeepsServing(r, n),
         n \in missed[r] => n \in missed'[r]
  PROVE  Serves(r, n)'
<1>1. Tx(r, n)' = Tx(r, n) /\ OtherEnd(r, n)' = OtherEnd(r, n)
  BY DEF Tx, OtherEnd, Initiator, Acceptor
<1> QED BY <1>1 DEF Serves, KeepsServing

(* A router handles a message that came on a link, or from a program, and  *)
(* tells others.                                                           *)
Reads(r, from, m, socks) ==
  \/ from = Local /\ socks = sock
  \/ /\ from \in pib[r].heard /\ Begins(sock[Rx(r, from)].data, m)
     /\ socks = [sock EXCEPT ![Rx(r, from)].data = Tail(@)]

Unread(s, r, from, m) ==
  /\ from \in pib[r].heard /\ s = Rx(r, from) /\ Begins(sock[s].data, m)
  /\ sock'[s] = [sock[s] EXCEPT !.data = Tail(@)]
Tells(s, r, N, x) ==
  /\ \E n \in N : s = Tx(r, n)
  /\ sock[s].reader
  /\ sock'[s] = [sock[s] EXCEPT !.data = @ \o <<x>>]
Leaves(s, r, from, N) ==
  /\ sock'[s] = sock[s]
  /\ s # Rx(r, from) \/ from = Local
  /\ \A n \in N : s = Tx(r, n) => ~ sock[s].reader

LEMMA Exchange ==
  ASSUME RemoteInv, NEW r \in Router, NEW from \in Nat, NEW m, NEW x, NEW socks, Reads(r, from, m, socks),
         NEW N \in SUBSET (pib[r].known \ {from}), sock' = Write(socks, TxOf(r, N), <<x>>)
  PROVE  /\ sock' = [s \in Socket |-> sock'[s]]
         /\ \A s \in Socket : Unread(s, r, from, m) \/ Tells(s, r, N, x) \/ Leaves(s, r, from, N)
<1>0. RemoteTypes /\ PibInv /\ ShakeInv
  BY DEF RemoteInv
<1>1. socks \in [Socket -> {socks[s] : s \in Socket}] /\ DOMAIN socks = Socket
  BY <1>0 DEF Reads, RemoteTypes
<1>2. ASSUME NEW s \in Socket
      PROVE  Unread(s, r, from, m) \/ Tells(s, r, N, x) \/ Leaves(s, r, from, N)
  <2>1. sock'[s] = IF s \in TxOf(r, N) /\ socks[s].reader THEN [socks[s] EXCEPT !.data = @ \o <<x>>]
                   ELSE socks[s]
    BY DEF Write
  <2>2. CASE from \in pib[r].heard /\ s = Rx(r, from) /\ from # Local
    <3>1. s \notin TxOf(r, N)
      <4> SUFFICES ASSUME NEW n \in N, s = Tx(r, n) PROVE FALSE
        BY DEF TxOf
      <4>1. n \in DOMAIN links /\ r \in Both(n) /\ from \in DOMAIN links /\ r \in Both(from) /\ n # from
        BY <1>0, <2>2 DEF PibInv
      <4>2. Tx(r, n)[1] = n /\ Rx(r, from)[1] = from
        BY <1>0, <4>1, LinkEnds
      <4> QED BY <2>2, <4>1, <4>2
    <3>2. Begins(sock[s].data, m) /\ socks = [sock EXCEPT ![Rx(r, from)].data = Tail(@)]
      BY <2>2 DEF Reads
    <3>3. sock'[s] = [sock[s] EXCEPT !.data = Tail(@)]
      BY <1>0, <2>1, <2>2, <3>1, <3>2 DEF RemoteTypes
    <3> QED BY <2>2, <3>2, <3>3 DEF Unread
  <2>3. CASE ~ (from \in pib[r].heard /\ s = Rx(r, from) /\ from # Local)
    <3>0. from \in pib[r].heard => from # Local
      <4> SUFFICES ASSUME from \in pib[r].heard PROVE from # Local
        OBVIOUS
      <4>1. from \in DOMAIN links /\ r \in Both(from)
        BY <1>0 DEF PibInv
      <4> QED BY <1>0, <4>1, LinkEnds
    <3>1. socks[s] = sock[s] /\ (s # Rx(r, from) \/ from = Local)
      BY <1>0, <2>3, <3>0 DEF Reads, RemoteTypes
    <3>2. CASE s \in TxOf(r, N) /\ socks[s].reader
      <4>1. \E n \in N : s = Tx(r, n)
        BY <3>2 DEF TxOf
      <4> QED BY <2>1, <3>1, <3>2, <4>1 DEF Tells
    <3>3. CASE ~ (s \in TxOf(r, N) /\ socks[s].reader)
      <4>1. \A n \in N : s = Tx(r, n) => s \in TxOf(r, N)
        BY DEF TxOf
      <4> QED BY <2>1, <3>1, <3>3, <4>1 DEF Leaves
    <3> QED BY <3>2, <3>3
  <2> QED BY <2>2, <2>3
<1>3. sock' = [s \in Socket |-> sock'[s]]
  BY DEF Write
<1> QED BY <1>2, <1>3

LEMMA ExchangeForm ==
  ASSUME RemoteInv, NEW r \in Router, NEW from \in Nat, NEW m, NEW x \in {"ENABLE", "DISABLE", "DATA"},
         NEW N \in SUBSET pib[r].known, NEW s \in Socket,
         Unread(s, r, from, m) \/ Tells(s, r, N, x) \/ Leaves(s, r, from, N)
  PROVE  KeepsForm(s) /\ sock'[s].reader = sock[s].reader
<1>0. RemoteTypes /\ PibInv /\ ShakeInv
  BY DEF RemoteInv
<1>1. /\ sock[s] \in Wire /\ sock[s].data \in Seq(Message) /\ Plain(sock[s].data)
      /\ s[1] \notin DOMAIN links => sock[s] = Unopened
  BY <1>0 DEF RemoteTypes, Wire, ShakeInv
<1>2. CASE Unread(s, r, from, m)
  <2>1. from \in DOMAIN links /\ r \in Both(from) /\ s = Rx(r, from) /\ sock[s].data # <<>>
    BY <1>0, <1>2 DEF Unread, PibInv, Begins
  <2>2. s[1] \in DOMAIN links
    BY <1>0, <2>1, LinkEnds
  <2>3. /\ Tail(sock[s].data) \in Seq(Message) /\ Plain(Tail(sock[s].data))
        /\ \A y \in {"REGISTER", "ACK"} : ~ Begins(Tail(sock[s].data), y)
    BY <1>1, <2>1, Shrinks
  <2>4. sock'[s] \in Wire /\ sock'[s].data = Tail(sock[s].data) /\ sock'[s].reader = sock[s].reader
    BY <1>1, <1>2, <2>3 DEF Unread, Wire
  <2> QED BY <2>2, <2>3, <2>4 DEF KeepsForm
<1>3. CASE Tells(s, r, N, x)
  <2>1. PICK n \in pib[r].known : s = Tx(r, n)
    BY <1>3 DEF Tells
  <2>2. s[1] \in DOMAIN links
    BY <1>0, <2>1, LinkEnds DEF PibInv
  <2>3. /\ sock[s].data \o <<x>> \in Seq(Message) /\ Plain(sock[s].data \o <<x>>)
        /\ \A y \in {"REGISTER", "ACK"} : Begins(sock[s].data \o <<x>>, y) => Begins(sock[s].data, y)
    BY <1>1, Grows
  <2>4. sock'[s] \in Wire /\ sock'[s].data = sock[s].data \o <<x>> /\ sock'[s].reader = sock[s].reader
    BY <1>1, <1>3, <2>3 DEF Tells, Wire
  <2> QED BY <2>2, <2>3, <2>4 DEF KeepsForm
<1>4. CASE Leaves(s, r, from, N)
  BY <1>1, <1>4 DEF Leaves, KeepsForm
<1> QED BY <1>2, <1>3, <1>4

(* Whose socket it is that changes. *)
LEMMA Whose ==
  ASSUME RemoteInv, NEW r \in Router, NEW from \in Nat, NEW m, NEW x,
         NEW N \in SUBSET (pib[r].known \ {from}), from = Local \/ from \in pib[r].heard,
         \A s \in Socket : Unread(s, r, from, m) \/ Tells(s, r, N, x) \/ Leaves(s, r, from, N),
         NEW n \in DOMAIN links, NEW q \in Both(n)
  PROVE  \/ q # r /\ n = from /\ OtherEnd(q, n) = r /\ Unread(Tx(q, n), r, from, m)
         \/ q = r /\ n \in N /\ Tells(Tx(q, n), r, N, x)
         \/ /\ sock'[Tx(q, n)] = sock[Tx(q, n)]
            /\ ~ (q = r /\ n \in N /\ sock[Tx(q, n)].reader)
            /\ ~ (q # r /\ n = from /\ OtherEnd(q, n) = r)
<1> DEFINE s == Tx(q, n)
<1>0. RemoteTypes /\ PibInv
  BY DEF RemoteInv
<1>1. /\ s \in Socket /\ s[1] = n /\ n # Local /\ s # Rx(q, n) /\ OtherEnd(q, n) # q
      /\ s = Rx(OtherEnd(q, n), n) /\ \A p \in Both(n) : p = q \/ p = OtherEnd(q, n)
      /\ Tx(OtherEnd(q, n), n) # s
  BY <1>0, LinkEnds
<1>2. CASE Unread(s, r, from, m)
  <2>1. from \in DOMAIN links /\ r \in Both(from) /\ s = Rx(r, from)
    BY <1>0, <1>2 DEF Unread, PibInv
  <2>2. n = from
    BY <1>0, <1>1, <2>1, LinkEnds
  <2>3. r # q
    BY <1>1, <2>1, <2>2
  <2> QED BY <1>1, <1>2, <2>1, <2>2, <2>3
<1>3. CASE Tells(s, r, N, x)
  <2>1. PICK k \in N : s = Tx(r, k)
    BY <1>3 DEF Tells
  <2>2. k \in DOMAIN links /\ r \in Both(k)
    BY <1>0 DEF PibInv
  <2>3. k = n
    BY <1>0, <1>1, <2>1, <2>2, LinkEnds
  <2>4. r = q
    BY <1>1, <2>1, <2>2, <2>3
  <2> QED BY <1>3, <2>3, <2>4
<1>4. CASE Leaves(s, r, from, N)
  <2>1. sock'[s] = sock[s]
    BY <1>4 DEF Leaves
  <2>2. ~ (q = r /\ n \in N /\ sock[s].reader)
    BY <1>4 DEF Leaves
  <2>3. ~ (q # r /\ n = from /\ OtherEnd(q, n) = r)
    <3> SUFFICES ASSUME n = from, OtherEnd(q, n) = r PROVE FALSE
      OBVIOUS
    <3>1. s = Rx(r, from)
      BY <1>1
    <3> HIDE DEF s
    <3> QED BY <1>1, <1>4, <3>1 DEF Leaves
  <2> QED BY <2>1, <2>2, <2>3
<1> QED BY <1>1, <1>2, <1>3, <1>4

(* What the three handlers tell whom, and what they note. *)
Hands(r, from, m, x, N, C) ==
  \/ /\ m = "ENABLE" /\ x = "ENABLE" /\ N = Peers(r, from) \ mute[r] /\ consumers[r] \cup {from} = C
     /\ missed' = [missed EXCEPT ![r] = (@ \ Peers(r, from)) \cup (Peers(r, from) \cap mute[r])]
  \/ m = "DISABLE" /\ (from \notin C) /\ (N = {} \/ C = {}) /\ UNCHANGED missed
  \/ m = "DATA" /\ x = "DATA" /\ C = consumers[r] /\ UNCHANGED missed

(* The message is handled: the router's other links hear of what changes. *)
LEMMA Handled ==
  ASSUME RemoteInv, NEW r \in Router, NEW from \in Nat, NEW m, NEW x \in {"ENABLE", "DISABLE", "DATA"},
         NEW N \in SUBSET (pib[r].known \ {from}), NEW socks,
         from = Local \/ from \in pib[r].heard,
         Reads(r, from, m, socks), sock' = Write(socks, TxOf(r, N), <<x>>),
         UNCHANGED <<running, links, pib>>,
         NEW C \in SUBSET (consumers[r] \cup {from}), consumers' = [consumers EXCEPT ![r] = C],
         consumers[r] \subseteq C \cup {from},
         Hands(r, from, m, x, N, C)
  PROVE  RemoteInv'
<1>0. RemoteTypes /\ PibInv /\ ShakeInv /\ \A n \in DOMAIN links : \A q \in Both(n) : Serves(q, n)
  BY DEF RemoteInv
<1>9. /\ DOMAIN missed' = Router
      /\ \A q \in Router : q # r => missed'[q] = missed[q]
      /\ \A n \in missed[r] : n = from => n \in missed'[r]
      /\ \/ UNCHANGED missed
         \/ /\ m = "ENABLE" /\ x = "ENABLE" /\ N = Peers(r, from) \ mute[r]
            /\ missed'[r] = (missed[r] \ Peers(r, from)) \cup (Peers(r, from) \cap mute[r])
  BY DEF RemoteInv, Peers, Hands
<1>1. /\ sock' = [s \in Socket |-> sock'[s]]
      /\ \A s \in Socket : Unread(s, r, from, m) \/ Tells(s, r, N, x) \/ Leaves(s, r, from, N)
  BY Exchange
<1>2. ASSUME NEW s \in Socket PROVE KeepsForm(s) /\ sock'[s].reader = sock[s].reader
  <2>1. N \in SUBSET pib[r].known
    OBVIOUS
  <2> QED BY <1>1, <2>1, ExchangeForm
<1>3. /\ consumers'[r] = C /\ \A q \in Router : q # r => consumers'[q] = consumers[q]
      /\ consumers' \in [Router -> SUBSET Nat]
  <2>1. C \in SUBSET Nat
    BY <1>0 DEF RemoteTypes
  <2> QED BY <1>0, <2>1 DEF RemoteTypes
<1>4. ASSUME NEW q \in Router PROVE KeepsPib(q)
  <2>1. consumers'[q] \subseteq pib[q].heard \cup {Local}
    BY <1>0, <1>3 DEF PibInv
  <2>2. ASSUME NEW n \in pib[q].heard PROVE sock'[Rx(q, n)].reader
    <3>1. n \in DOMAIN links /\ q \in Both(n) /\ sock[Rx(q, n)].reader
      BY <1>0 DEF PibInv
    <3>2. Rx(q, n) \in Socket
      BY <1>0, <3>1, LinkEnds
    <3> QED BY <1>2, <3>1, <3>2
  <2> QED BY <1>0, <2>1, <2>2 DEF KeepsPib, PibInv
<1>5. RemoteTypes' /\ PibInv' /\ ShakeInv'
  <2>1. running' \subseteq Router /\ pib' \in [Router -> [known : SUBSET Nat, heard : SUBSET Nat]]
    BY <1>0 DEF RemoteTypes
  <2> QED BY <1>1, <1>2, <1>3, <1>4, <2>1, NoLinkComesUp
<1>6. ASSUME NEW n \in DOMAIN links, NEW q \in Both(n) PROVE Serves(q, n)'
  <2> DEFINE s == Tx(q, n)
             d == sock[s].data
             o == OtherEnd(q, n)
  <2>1. /\ s \in Socket /\ q \in Router /\ o \in Router /\ o # q /\ n \in Nat /\ n # Local
    BY <1>0, LinkEnds
  <2>2. Serves(q, n) /\ d \in Seq(Message) /\ sock[s] \in Wire
    BY <1>0, <2>1 DEF RemoteTypes, Wire
  <2>3. Tx(q, n)' = s /\ OtherEnd(q, n)' = o
    BY DEF Tx, OtherEnd, Initiator, Acceptor
  <2>4. sock'[s].reader = sock[s].reader
    BY <1>2, <2>1
  <2>5. \/ q # r /\ n = from /\ o = r /\ Unread(s, r, from, m)
        \/ q = r /\ n \in N /\ Tells(s, r, N, x)
        \/ /\ sock'[s] = sock[s]
           /\ ~ (q = r /\ n \in N /\ sock[s].reader)
           /\ ~ (q # r /\ n = from /\ o = r)
    BY <1>1, Whose
  <2> HIDE DEF s, o
  <2>6. CASE q # r /\ n = from /\ o = r /\ Unread(s, r, from, m)
    <3>1. /\ d # <<>> /\ Begins(d, m) /\ sock'[s].data = Tail(d)
      BY <2>2, <2>6 DEF Unread, Begins, Wire
    <3>2. /\ Told(d) => Told(Tail(d)) \/ (Begins(d, "ENABLE") /\ NoDisable(Tail(d)))
          /\ NoDisable(d) => NoDisable(Tail(d)) /\ ~ Begins(d, "DISABLE")
      BY <2>2, <3>1, Shrinks
    <3>3. Begins(d, "ENABLE") => m = "ENABLE"
      BY <3>1 DEF Begins
    <3>4. consumers'[q] = consumers[q] /\ consumers'[o] = C
      BY <1>3, <2>1, <2>6
    <3>5. /\ m = "ENABLE" => n \in consumers'[o]
          /\ m = "DATA" => consumers'[o] = consumers[o]
      BY <2>6, <3>4 DEF Hands
    <3> HIDE DEF d
    <3> SUFFICES ASSUME n \in pib[q].heard, sock[s].reader, consumers[q] \ {n} # {}
                 PROVE  n \in missed[q] \/ Told(Tail(d)) \/ (n \in consumers'[o] /\ NoDisable(Tail(d)))
      BY <1>9, <2>1, <2>3, <2>4, <2>6, <3>1, <3>4 DEF Serves
    <3>6. n \in missed[q] \/ Told(d) \/ (n \in consumers[o] /\ NoDisable(d))
      BY <2>2 DEF Serves, s, d, o
    <3>7. m \in {"ENABLE", "DISABLE", "DATA"}
      BY DEF Hands
    <3> QED BY <3>1, <3>2, <3>3, <3>5, <3>6, <3>7
  <2>7. CASE q = r /\ n \in N /\ Tells(s, r, N, x)
    <3>1. sock'[s].data = d \o <<x>>
      BY <2>2, <2>7 DEF Tells, Wire
    <3>2. /\ x = "ENABLE" => Told(d \o <<x>>)
          /\ x # "DISABLE" /\ Told(d) => Told(d \o <<x>>)
          /\ x # "DISABLE" /\ NoDisable(d) => NoDisable(d \o <<x>>)
      BY <2>2, Grows
    <3>3. consumers'[q] = C /\ consumers'[o] = consumers[o]
      BY <1>3, <2>1, <2>7
    <3> HIDE DEF d
    <3> SUFFICES ASSUME n \in pib[q].heard, sock[s].reader, C \ {n} # {}
                 PROVE  n \in missed'[q] \/ Told(d \o <<x>>) \/ (n \in consumers[o] /\ NoDisable(d \o <<x>>))
      BY <2>3, <2>4, <3>1, <3>3 DEF Serves
    <3>4. CASE x = "ENABLE"
      BY <3>2, <3>4
    <3>5. CASE x = "DATA" /\ C = consumers[r]
      <4>1. n \in missed[q] \/ Told(d) \/ (n \in consumers[o] /\ NoDisable(d))
        BY <2>2, <2>7, <3>5 DEF Serves, s, d, o
      <4>2. CASE x = "DATA" /\ UNCHANGED missed
        BY <3>2, <4>1, <4>2
      <4>3. CASE x = "ENABLE"
        BY <3>2, <4>3
      <4> QED BY <1>9, <3>5, <4>2, <4>3
    <3>6. CASE C = {}
      BY <3>6
    <3>7. N # {}
      BY <2>7
    <3> QED BY <3>4, <3>5, <3>6, <3>7 DEF Hands
  <2>8. CASE /\ sock'[s] = sock[s]
             /\ ~ (q = r /\ n \in N /\ sock[s].reader)
             /\ ~ (q # r /\ n = from /\ o = r)
    <3>1. ASSUME n \in consumers[o] PROVE n \in consumers'[o]
      BY <1>3, <2>1, <2>8, <3>1
    <3>2. ASSUME n \in pib[q].heard, sock[s].reader, consumers'[q] \ {n} # {}, n \notin missed'[q]
          PROVE  consumers[q] \ {n} # {} /\ n \notin missed[q]
      <4>1. CASE q # r
        BY <1>3, <1>9, <2>1, <3>2, <4>1
      <4>2. CASE q = r /\ n = from
        BY <1>3, <1>9, <3>2, <4>2
      <4>3. CASE q = r /\ n # from
        <5>1. n \in Peers(r, from)
          BY <1>0, <3>2, <4>3 DEF PibInv, Peers
        <5>2. ~ (m = "ENABLE" /\ x = "ENABLE" /\ N = Peers(r, from) \ mute[r])
              \/ missed'[r] # (missed[r] \ Peers(r, from)) \cup (Peers(r, from) \cap mute[r])
          BY <2>8, <3>2, <4>3, <5>1
        <5>3. UNCHANGED missed
          BY <1>9, <5>2
        <5>4. C \subseteq consumers[r]
          <6>1. ~ (m = "ENABLE" /\ x = "ENABLE" /\ N = Peers(r, from) \ mute[r])
            BY <1>9, <2>8, <3>2, <4>3, <5>1, <5>3 DEF RemoteInv, Hands
          <6> QED BY <6>1 DEF Hands
        <5> QED BY <1>3, <3>2, <4>3, <5>3, <5>4
      <4> QED BY <4>1, <4>2, <4>3
    <3>3. \/ Told(d) \/ (n \in consumers[o] /\ NoDisable(d)) \/ n \in missed[q]
          \/ ~ (n \in pib[q].heard /\ sock[s].reader /\ consumers[q] \ {n} # {})
      BY <2>2 DEF Serves, s, d, o
    <3>4. sock'[s].data = d
      BY <2>8
    <3> HIDE DEF d
    <3> QED BY <2>3, <2>8, <3>1, <3>2, <3>3, <3>4 DEF Serves
  <2> QED BY <2>5, <2>6, <2>7, <2>8
<1>7. DOMAIN links' = DOMAIN links /\ \A n : Both(n)' = Both(n)
  BY DEF Both, Initiator, Acceptor
<1> QED BY <1>5, <1>6, <1>7, <1>9 DEF RemoteInv

(* Who is told nothing notices nothing. *)
LEMMA NobodyTold ==
  ASSUME RemoteTypes, NEW r, NEW from, NEW m, NEW socks, Reads(r, from, m, socks), NEW z
  PROVE  Write(socks, TxOf(r, {}), z) = socks
<1>1. TxOf(r, {}) = {}
  BY DEF TxOf
<1>2. socks = [s \in Socket |-> socks[s]]
  <2>1. sock = [s \in Socket |-> sock[s]]
    BY DEF RemoteTypes
  <2>2. CASE socks = sock
    BY <2>1, <2>2
  <2>3. CASE socks = [sock EXCEPT ![Rx(r, from)].data = Tail(@)]
    BY <2>1, <2>3
  <2> QED BY <2>2, <2>3 DEF Reads
<1>3. Write(socks, TxOf(r, {}), z) = [s \in Socket |-> socks[s]]
  BY <1>1 DEF Write
<1> QED BY <1>2, <1>3

(* QueueMsgHandler, for a program or a link. *)
LEMMA MessageStep ==
  ASSUME RemoteInv, NEW r \in Router, NEW from \in Nat, NEW socks,
         from = Local \/ from \in pib[r].heard,
         UNCHANGED <<running, links, pib>>,
         \/ Reads(r, from, "ENABLE", socks) /\ Enable(r, from, socks)
         \/ Reads(r, from, "DISABLE", socks) /\ Disable(r, from, socks)
         \/ Reads(r, from, "DATA", socks) /\ Route(r, from, socks)
  PROVE  RemoteInv'
<1>0. RemoteTypes /\ PibInv
  BY DEF RemoteInv
<1>1. CASE Reads(r, from, "ENABLE", socks) /\ Enable(r, from, socks)
  <2> DEFINE N == Peers(r, from) \ mute[r]
             C == consumers[r] \cup {from}
  <2>1. /\ sock' = Write(socks, TxOf(r, N), <<"ENABLE">>) /\ consumers' = [consumers EXCEPT ![r] = C]
        /\ missed' = [missed EXCEPT ![r] = (@ \ Peers(r, from)) \cup (Peers(r, from) \cap mute[r])]
    BY <1>1 DEF Enable, Reached
  <2>2. N \in SUBSET (pib[r].known \ {from}) /\ C \in SUBSET (consumers[r] \cup {from})
        /\ consumers[r] \subseteq C \cup {from}
    BY DEF Peers
  <2>3. /\ N = Peers(r, from) \ mute[r] /\ consumers[r] \cup {from} = C
        /\ "ENABLE" \in {"ENABLE", "DISABLE", "DATA"}
    OBVIOUS
  <2> HIDE DEF N, C
  <2> QED BY <1>1, <2>1, <2>2, <2>3, Handled DEF Hands
<1>2. CASE Reads(r, from, "DISABLE", socks) /\ Disable(r, from, socks)
  <2> DEFINE C == consumers[r] \ {from}
             N == IF consumers[r] # {} /\ C = {} THEN Peers(r, from) \ mute[r] ELSE {}
  <2>1. consumers' = [consumers EXCEPT ![r] = C] /\ UNCHANGED missed
    BY <1>2 DEF Disable
  <2>2. sock' = Write(socks, TxOf(r, N), <<"DISABLE">>)
    BY <1>0, <1>2, NobodyTold DEF Disable, Reached
  <2>3. N \in SUBSET (pib[r].known \ {from}) /\ C \in SUBSET (consumers[r] \cup {from})
        /\ consumers[r] \subseteq C \cup {from} /\ from \notin C /\ (N = {} \/ C = {})
        /\ "DISABLE" \in {"ENABLE", "DISABLE", "DATA"}
    BY DEF Peers
  <2> HIDE DEF N, C
  <2> QED BY <1>2, <2>1, <2>2, <2>3, Handled DEF Hands
<1>3. CASE Reads(r, from, "DATA", socks) /\ Route(r, from, socks)
  <2> DEFINE N == (consumers[r] \ {Local, from}) \ mute[r]
             C == consumers[r]
  <2>1. sock' = Write(socks, TxOf(r, N), <<"DATA">>) /\ UNCHANGED missed
    BY <1>3 DEF Route, Reached
  <2>2. consumers' = [consumers EXCEPT ![r] = C]
    BY <1>0, <1>3 DEF Route, RemoteTypes
  <2>3. N \in SUBSET (pib[r].known \ {from})
    BY <1>0 DEF PibInv
  <2>4. C \in SUBSET (consumers[r] \cup {from}) /\ consumers[r] \subseteq C \cup {from} /\ C = consumers[r]
        /\ "DATA" \in {"ENABLE", "DISABLE", "DATA"}
    OBVIOUS
  <2> HIDE DEF N, C
  <2> QED BY <1>3, <2>1, <2>2, <2>3, <2>4, Handled DEF Hands
<1> QED BY <1>1, <1>2, <1>3

LEMMA Messages ==
  ASSUME RemoteInv, NEW r \in Router, LocalMessage(r) \/ \E n \in DOMAIN links : ClientRX(r, n)
  PROVE  RemoteInv'
<1>0. RemoteTypes
  BY DEF RemoteInv
<1>1. CASE LocalMessage(r)
  <2>1. /\ UNCHANGED <<running, links, pib>> /\ Local \in Nat
        /\ Enable(r, Local, sock) \/ Disable(r, Local, sock) \/ Route(r, Local, sock)
    BY <1>1 DEF LocalMessage, LocalEnable, LocalDisable, LocalData, Local
  <2>2. \A m : Reads(r, Local, m, sock)
    BY DEF Reads
  <2>3. \/ Reads(r, Local, "ENABLE", sock) /\ Enable(r, Local, sock)
        \/ Reads(r, Local, "DISABLE", sock) /\ Disable(r, Local, sock)
        \/ Reads(r, Local, "DATA", sock) /\ Route(r, Local, sock)
    BY <2>1, <2>2
  <2> QED BY <2>1, <2>3, MessageStep
<1>2. CASE \E n \in DOMAIN links : ClientRX(r, n)
  <2>1. PICK n \in DOMAIN links : ClientRX(r, n)
    BY <1>2
  <2> DEFINE socks == [sock EXCEPT ![Rx(r, n)].data = Tail(@)]
  <2>2. /\ UNCHANGED <<running, links, pib>> /\ n \in pib[r].heard
        /\ \/ Begins(sock[Rx(r, n)].data, "ENABLE") /\ Enable(r, n, socks)
           \/ Begins(sock[Rx(r, n)].data, "DISABLE") /\ Disable(r, n, socks)
           \/ Begins(sock[Rx(r, n)].data, "DATA") /\ Route(r, n, socks)
    BY <2>1 DEF ClientRX, First, Begins
  <2>3. n \in Nat
    BY <1>0, LenProperties DEF RemoteTypes
  <2>4. \A m : Begins(sock[Rx(r, n)].data, m) => Reads(r, n, m, socks)
    BY <2>2 DEF Reads
  <2> HIDE DEF socks
  <2>5. \/ Reads(r, n, "ENABLE", socks) /\ Enable(r, n, socks)
        \/ Reads(r, n, "DISABLE", socks) /\ Disable(r, n, socks)
        \/ Reads(r, n, "DATA", socks) /\ Route(r, n, socks)
    BY <2>2, <2>4
  <2> QED BY <2>2, <2>3, <2>5, MessageStep
<1> QED BY <1>1, <1>2

-----------------------------------------------------------------------------
(* Links that go down.  Their sockets are as they were, or are shut by one *)
(* of the ends, or hold at most what a router that died has left there.    *)
LEMMA NobodyServed ==
  ASSUME RemoteInv, UNCHANGED <<links, missed>>, RemoteTypes', PibInv', ShakeInv',
         \A n \in DOMAIN links : \A q \in Both(n) : KeepsServing(q, n)
  PROVE  RemoteInv'
<1>1. \A n \in DOMAIN links : \A q \in Both(n) : Serves(q, n)'
  <2> SUFFICES ASSUME NEW n \in DOMAIN links, NEW q \in Both(n) PROVE Serves(q, n)'
    OBVIOUS
  <2>1. Serves(q, n) /\ KeepsServing(q, n)
    BY DEF RemoteInv
  <2> QED BY <2>1, ServesOn
<1>2. DOMAIN links' = DOMAIN links /\ \A n : Both(n)' = Both(n)
  BY DEF Both, Initiator, Acceptor
<1> QED BY <1>1, <1>2 DEF RemoteInv

(* A router shuts its ends of some links; the last it says on one may be   *)
(* cut.                                                                    *)
LEMMA Closes ==
  ASSUME RemoteInv, NEW r \in Router, NEW N \in SUBSET (DOMAIN links), \A n \in N : r \in Both(n),
         NEW cut \in SUBSET TxOf(r, N), sock' = Write(Shut(sock, r, N), cut, <<"cut">>),
         pib' = [pib EXCEPT ![r] = [known |-> @.known \ N, heard |-> @.heard \ N]],
         NEW C \in SUBSET (consumers[r] \ N), consumers[r] \ N \subseteq C \cup {Local},
         consumers' = [consumers EXCEPT ![r] = C],
         UNCHANGED <<links, missed>>, running' \subseteq Router
  PROVE  RemoteInv'
<1>0. RemoteTypes /\ PibInv /\ ShakeInv
  BY DEF RemoteInv
<1>3. ASSUME NEW s \in Socket
      PROVE  /\ sock'[s] \in Wire
             /\ \/ sock'[s].data = sock[s].data
                \/ s[1] \in DOMAIN links /\ sock'[s].data = sock[s].data \o <<"cut">>
             /\ sock'[s].reader => sock[s].reader
             /\ \A n \in N : sock'[s].reader => s # Rx(r, n)
             /\ s[1] \notin DOMAIN links => sock'[s] = sock[s]
             /\ (\A n \in N : s # Rx(r, n)) /\ sock[s].reader => sock'[s].reader
  <2> DEFINE n == s[1]
             dead == Shut(sock, r, N)
  <2>1. sock[s] \in Wire /\ s[2] \in {"there", "back"} /\ s = <<s[1], s[2]>>
    BY <1>0 DEF RemoteTypes, Socket
  <2>2. dead[s] = IF n \notin N THEN sock[s]
                  ELSE IF s = Tx(r, n) THEN [sock[s] EXCEPT !.writer = FALSE]
                  ELSE [sock[s] EXCEPT !.reader = FALSE]
    BY DEF Shut
  <2>3. /\ n \in N => Tx(r, n) # Rx(r, n) /\ n \in DOMAIN links
        /\ \A k \in N : Rx(r, k)[1] = k
    BY <1>0, LinkEnds
  <2>4. s = Tx(r, n) \/ s = Rx(r, n)
    BY <2>1 DEF Tx, Rx
  <2>5. /\ dead[s] \in Wire /\ dead[s].data = sock[s].data
        /\ dead[s].reader <=> (sock[s].reader /\ ~ (n \in N /\ s = Rx(r, n)))
        /\ n \notin N => dead[s] = sock[s]
    <3>1. CASE n \notin N
      BY <2>1, <2>2, <3>1
    <3>2. CASE n \in N /\ s = Tx(r, n)
      BY <2>1, <2>2, <2>3, <3>2 DEF Wire
    <3>3. CASE n \in N /\ s = Rx(r, n)
      BY <2>1, <2>2, <2>3, <3>3 DEF Wire
    <3> QED BY <2>4, <3>1, <3>2, <3>3
  <2>6. sock'[s] = IF s \in cut /\ dead[s].reader THEN [dead[s] EXCEPT !.data = @ \o <<"cut">>] ELSE dead[s]
    BY DEF Write
  <2>7. s \in cut => n \in N
    <3> SUFFICES ASSUME NEW k \in N, s = Tx(r, k) PROVE n \in N
      BY DEF TxOf
    <3> QED BY <1>0, LinkEnds
  <2>8. sock[s].data \o <<"cut">> \in Seq(Message)
    BY <2>1, Grows DEF Wire
  <2> HIDE DEF dead, n
  <2>9. /\ sock'[s] \in Wire /\ (sock'[s].reader <=> dead[s].reader)
        /\ sock'[s].data = sock[s].data \/ (n \in N /\ sock'[s].data = sock[s].data \o <<"cut">>)
        /\ n \notin N => sock'[s] = sock[s]
    <3>1. CASE s \in cut /\ dead[s].reader
      <4>1. sock'[s] = [dead[s] EXCEPT !.data = @ \o <<"cut">>]
        BY <2>6, <3>1
      <4> QED BY <2>5, <2>7, <2>8, <3>1, <4>1 DEF Wire
    <3>2. CASE ~ (s \in cut /\ dead[s].reader)
      BY <2>5, <2>6, <3>2
    <3> QED BY <3>1, <3>2
  <2>10. \A k \in N : s = Rx(r, k) => k = n
    BY <2>3 DEF n
  <2> QED BY <2>3, <2>5, <2>9, <2>10 DEF n
<1>4. \A s \in Socket : KeepsForm(s)
  <2> SUFFICES ASSUME NEW s \in Socket PROVE KeepsForm(s)
    OBVIOUS
  <2>1. s[1] \notin DOMAIN links => sock'[s] = Unopened
    BY <1>0, <1>3 DEF ShakeInv
  <2>2. sock[s].data \in Seq(Message) /\ Plain(sock[s].data)
    BY <1>0 DEF RemoteTypes, Wire, ShakeInv
  <2>3. /\ Plain(sock[s].data \o <<"cut">>)
        /\ \A x \in {"REGISTER", "ACK"} : Begins(sock[s].data \o <<"cut">>, x) => Begins(sock[s].data, x)
    BY <2>2, Grows
  <2> QED BY <1>3, <2>1, <2>2, <2>3 DEF KeepsForm
<1>5. /\ pib'[r] = [known |-> pib[r].known \ N, heard |-> pib[r].heard \ N]
      /\ consumers'[r] = C
      /\ \A q \in Router : q # r => pib'[q] = pib[q] /\ consumers'[q] = consumers[q]
      /\ pib' \in [Router -> [known : SUBSET Nat, heard : SUBSET Nat]]
      /\ consumers' \in [Router -> SUBSET Nat]
  BY <1>0 DEF RemoteTypes
<1>6. ASSUME NEW q \in Router PROVE KeepsPib(q)
  <2>1. /\ pib'[q].heard \subseteq pib'[q].known
        /\ pib'[q].known \subseteq pib[q].known /\ pib'[q].heard \subseteq pib[q].heard
        /\ consumers'[q] \subseteq pib'[q].heard \cup {Local}
    BY <1>0, <1>5 DEF PibInv
  <2>2. ASSUME NEW k \in pib'[q].heard PROVE sock'[Rx(q, k)].reader
    <3>1. k \in pib[q].heard /\ ~ (q = r /\ k \in N)
      BY <1>5, <2>1
    <3>2. k \in DOMAIN links /\ q \in Both(k) /\ sock[Rx(q, k)].reader
      BY <1>0, <3>1 DEF PibInv
    <3>3. Rx(q, k) \in Socket /\ Rx(q, k)[1] = k
      BY <1>0, <3>2, LinkEnds
    <3>4. ASSUME NEW n \in N PROVE Rx(q, k) # Rx(r, n)
      <4>1. Rx(r, n)[1] = n
        BY <1>0, LinkEnds
      <4>2. CASE k = n
        <5>1. q = OtherEnd(r, n)
          BY <1>0, <3>1, <3>2, <4>2, LinkEnds
        <5>2. Rx(q, k) = Tx(r, n) /\ Tx(r, n) # Rx(r, n)
          BY <1>0, <4>2, <5>1, LinkEnds
        <5> QED BY <5>2
      <4> QED BY <3>3, <4>1, <4>2
    <3> QED BY <1>3, <3>2, <3>3, <3>4
  <2> QED BY <2>1, <2>2 DEF KeepsPib
<1>7. RemoteTypes' /\ PibInv' /\ ShakeInv'
  <2>1. sock' = [s \in Socket |-> sock'[s]]
    BY DEF Write
  <2> QED BY <1>4, <1>5, <1>6, <2>1, NoLinkComesUp
<1>8. ASSUME NEW k \in DOMAIN links, NEW q \in Both(k) PROVE KeepsServing(q, k)
  <2> DEFINE s == Tx(q, k)
             d == sock[s].data
             e == sock'[s].data
  <2>1. /\ s \in Socket /\ q \in Router /\ OtherEnd(q, k) \in Router /\ OtherEnd(q, k) # q
        /\ s = Rx(OtherEnd(q, k), k) /\ k # Local
    BY <1>0, LinkEnds
  <2>2. (Told(d) => Told(e)) /\ (NoDisable(d) => NoDisable(e))
    <3>1. d \in Seq(Message)
      BY <1>0, <2>1 DEF RemoteTypes, Wire
    <3>2. e = d \/ e = d \o <<"cut">>
      BY <1>3, <2>1
    <3> HIDE DEF d, e
    <3> QED BY <3>1, <3>2, Grows
  <2> SUFFICES ASSUME k \in pib'[q].heard, sock'[s].reader, consumers'[q] \ {k} # {}
               PROVE  /\ k \in pib[q].heard /\ sock[s].reader /\ consumers[q] \ {k} # {}
                      /\ k \in consumers[OtherEnd(q, k)] => k \in consumers'[OtherEnd(q, k)]
    BY <2>2 DEF KeepsServing
  <2> HIDE DEF d, e
  <2>3. sock[s].reader /\ \A n \in N : s # Rx(r, n)
    BY <1>3, <2>1
  <2>4. k \in pib[q].heard /\ consumers[q] \ {k} # {}
    BY <1>5, <2>1
  <2>5. ~ (k \in N /\ OtherEnd(q, k) = r)
    BY <2>1, <2>3
  <2>6. k \in consumers[OtherEnd(q, k)] => k \in consumers'[OtherEnd(q, k)]
    BY <1>5, <2>1, <2>5
  <2> QED BY <2>3, <2>4, <2>6
<1> QED BY <1>7, <1>8, NobodyServed

(* ClientGone *)
LEMMA GoneStep ==
  ASSUME RemoteInv, NEW r \in Router, NEW n \in DOMAIN links, ClientGone(r, n)
  PROVE  RemoteInv'
<1> DEFINE N == {n}
           C == consumers[r] \ {n}
<1>0. RemoteTypes /\ PibInv
  BY DEF RemoteInv
<1>1. /\ n \in pib[r].heard /\ sock' = Shut(sock, r, N)
      /\ pib' = [pib EXCEPT ![r] = [known |-> @.known \ N, heard |-> @.heard \ N]]
      /\ consumers' = [consumers EXCEPT ![r] = C]
      /\ UNCHANGED <<running, links, missed>>
  BY DEF ClientGone
<1>2. N \in SUBSET (DOMAIN links) /\ (\A k \in N : r \in Both(k)) /\ running' \subseteq Router
  BY <1>0, <1>1 DEF PibInv, RemoteTypes
<1>3. /\ {} \in SUBSET TxOf(r, N) /\ C \in SUBSET (consumers[r] \ N)
      /\ consumers[r] \ N \subseteq C \cup {Local}
  OBVIOUS
<1>4. sock' = Write(Shut(sock, r, N), {}, <<"cut">>)
  BY <1>1 DEF Write, Shut
<1> HIDE DEF N, C
<1> QED BY <1>1, <1>2, <1>3, <1>4, Closes

(* RouterCrash *)
LEMMA CrashStep ==
  ASSUME RemoteInv, NEW r \in Router, RouterCrash(r)
  PROVE  RemoteInv'
<1> DEFINE N == {n \in DOMAIN links : r \in {Initiator(n), Acceptor(n)}}
<1>0. RemoteTypes /\ PibInv
  BY DEF RemoteInv
<1>1. PICK cut \in SUBSET TxOf(r, pib[r].known) : sock' = Write(Shut(sock, r, N), cut, <<"cut">>)
  BY DEF RouterCrash
<1>2. /\ pib' = [pib EXCEPT ![r] = [known |-> {}, heard |-> {}]]
      /\ consumers' = [consumers EXCEPT ![r] = {}]
      /\ UNCHANGED <<links, missed>> /\ running' = running \ {r}
  BY DEF RouterCrash
<1>3. N \in SUBSET (DOMAIN links) /\ (\A k \in N : r \in Both(k)) /\ running' \subseteq Router
  BY <1>0, <1>2 DEF Both, RemoteTypes
<1>4. pib[r].known \subseteq N /\ pib[r].heard \subseteq N /\ consumers[r] \subseteq N \cup {Local}
  BY <1>0 DEF PibInv, Both
<1>5. pib' = [pib EXCEPT ![r] = [known |-> @.known \ N, heard |-> @.heard \ N]]
  <2>1. pib[r].known \ N = {} /\ pib[r].heard \ N = {}
    BY <1>4
  <2> HIDE DEF N
  <2> QED BY <1>0, <1>2, <2>1 DEF RemoteTypes
<1>6. cut \in SUBSET TxOf(r, N)
  <2>1. TxOf(r, pib[r].known) \subseteq TxOf(r, N)
    BY <1>4 DEF TxOf
  <2> HIDE DEF N
  <2> QED BY <2>1
<1>7. {} \in SUBSET (consumers[r] \ N) /\ consumers[r] \ N \subseteq {} \cup {Local}
  BY <1>4
<1> HIDE DEF N
<1> QED BY <1>1, <1>2, <1>3, <1>5, <1>6, <1>7, Closes

(* New contents of a socket. *)
LEMMA Contents ==
  ASSUME NEW w \in Wire, NEW d \in Seq(Message)
  PROVE  /\ [w EXCEPT !.data = d] \in Wire /\ [w EXCEPT !.data = d].data = d
         /\ [w EXCEPT !.data = d].reader = w.reader
         /\ [w EXCEPT !.reader = FALSE, !.data = d] \in Wire
         /\ [w EXCEPT !.reader = FALSE, !.data = d].data = d
         /\ ~ [w EXCEPT !.reader = FALSE, !.data = d].reader
  BY DEF Wire

(* A router does not take what came first on a link: it shuts the socket,  *)
(* and may forget the link.                                                *)
LEMMA Refuses ==
  ASSUME RemoteInv, NEW n \in DOMAIN links, NEW r \in Both(n), n \notin pib[r].heard,
         sock' = [sock EXCEPT ![Rx(r, n)].reader = FALSE, ![Rx(r, n)].data = <<>>],
         NEW K \in SUBSET pib[r].known, pib[r].known \ {n} \subseteq K,
         pib' = [pib EXCEPT ![r].known = K], UNCHANGED <<running, links, consumers, missed>>
  PROVE  RemoteInv'
<1>0. RemoteTypes /\ PibInv /\ ShakeInv
  BY DEF RemoteInv
<1> DEFINE z == Rx(r, n)
<1>1. z \in Socket /\ z[1] = n /\ r \in Router
  BY <1>0, LinkEnds
<1>2. /\ sock'[z] = [sock[z] EXCEPT !.reader = FALSE, !.data = <<>>]
      /\ \A s \in Socket : s # z => sock'[s] = sock[s]
      /\ sock' = [s \in Socket |-> sock'[s]]
  <2> HIDE DEF z
  <2> QED BY <1>0, <1>1 DEF RemoteTypes, z
<1>3. /\ sock'[z] \in Wire /\ ~ sock'[z].reader /\ sock'[z].data = <<>>
  <2>1. sock[z] \in Wire /\ <<>> \in Seq(Message)
    BY <1>0, <1>1 DEF RemoteTypes
  <2> DEFINE w == sock[z]
             d == <<>>
  <2>2. w \in Wire /\ d \in Seq(Message) /\ sock'[z] = [w EXCEPT !.reader = FALSE, !.data = d]
    BY <1>2, <2>1
  <2>3. /\ [w EXCEPT !.reader = FALSE, !.data = d] \in Wire
        /\ [w EXCEPT !.reader = FALSE, !.data = d].data = d
        /\ ~ [w EXCEPT !.reader = FALSE, !.data = d].reader
    <3> HIDE DEF w, d
    <3> QED BY <2>2, Contents
  <2> QED BY <2>2, <2>3
<1> HIDE DEF z
<1>4. \A s \in Socket : KeepsForm(s)
  <2> SUFFICES ASSUME NEW s \in Socket PROVE KeepsForm(s)
    OBVIOUS
  <2>1. CASE s = z
    <3>1. Plain(<<>>) /\ \A x : ~ Begins(<<>>, x)
      BY DEF Plain, Begins
    <3> QED BY <1>1, <1>3, <2>1, <3>1 DEF KeepsForm
  <2>2. CASE s # z
    BY <1>0, <1>2, <2>2 DEF KeepsForm, ShakeInv, RemoteTypes
  <2> QED BY <2>1, <2>2
<1>5. /\ pib'[r].known = K /\ pib'[r].heard = pib[r].heard
      /\ \A q \in Router : q # r => pib'[q] = pib[q]
      /\ pib' \in [Router -> [known : SUBSET Nat, heard : SUBSET Nat]]
  BY <1>0, <1>1 DEF RemoteTypes
<1>6. ASSUME NEW q \in Router PROVE KeepsPib(q)
  <2>1. /\ pib'[q].heard \subseteq pib'[q].known
        /\ pib'[q].known \subseteq pib[q].known /\ pib'[q].heard = pib[q].heard
        /\ consumers'[q] \subseteq pib'[q].heard \cup {Local}
    BY <1>0, <1>5 DEF PibInv
  <2>2. ASSUME NEW k \in pib'[q].heard PROVE sock'[Rx(q, k)].reader
    <3>1. k \in pib[q].heard /\ ~ (q = r /\ k = n)
      BY <2>1
    <3>2. k \in DOMAIN links /\ q \in Both(k) /\ sock[Rx(q, k)].reader
      BY <1>0, <3>1 DEF PibInv
    <3>3. Rx(q, k) \in Socket /\ Rx(q, k)[1] = k
      BY <1>0, <3>2, LinkEnds
    <3>4. Rx(q, k) # z
      <4>1. CASE k = n
        <5>1. q = OtherEnd(r, n)
          BY <1>0, <3>1, <3>2, <4>1, LinkEnds
        <5>2. Rx(q, k) = Tx(r, n) /\ Tx(r, n) # Rx(r, n)
          BY <1>0, <4>1, <5>1, LinkEnds
        <5> QED BY <5>2 DEF z
      <4> QED BY <1>1, <3>3, <4>1
    <3> QED BY <1>2, <3>2, <3>3, <3>4
  <2> QED BY <2>1, <2>2 DEF KeepsPib
<1>7. RemoteTypes' /\ PibInv' /\ ShakeInv'
  <2>1. running' \subseteq Router /\ consumers' \in [Router -> SUBSET Nat]
    BY <1>0 DEF RemoteTypes
  <2> QED BY <1>2, <1>4, <1>5, <1>6, <2>1, NoLinkComesUp
<1>8. ASSUME NEW k \in DOMAIN links, NEW q \in Both(k) PROVE KeepsServing(q, k)
  <2>1. Tx(q, k) \in Socket /\ q \in Router
    BY <1>0, LinkEnds
  <2>2. CASE Tx(q, k) = z
    BY <1>3, <2>2 DEF KeepsServing
  <2>3. CASE Tx(q, k) # z
    <3>1. sock'[Tx(q, k)] = sock[Tx(q, k)] /\ pib'[q].heard = pib[q].heard
      BY <1>2, <1>5, <2>1, <2>3
    <3> QED BY <3>1 DEF KeepsServing
  <2> QED BY <2>2, <2>3
<1> QED BY <1>7, <1>8, NobodyServed

LEMMA RefuseSteps ==
  ASSUME RemoteInv, NEW n \in DOMAIN links, RouterAcceptFails(n) \/ AckIsStale(n)
  PROVE  RemoteInv'
<1>0. RemoteTypes /\ ShakeInv
  BY DEF RemoteInv
<1>1. /\ Initiator(n) \in Both(n) /\ Acceptor(n) \in Both(n) /\ Initiator(n) \in Router /\ Acceptor(n) \in Router
      /\ Rx(Initiator(n), n) = Back(n) /\ Rx(Acceptor(n), n) = There(n)
  BY <1>0, LinkEnds DEF Both
<1>2. CASE RouterAcceptFails(n)
  <2> DEFINE r == Acceptor(n)
             K == pib[r].known
  <2>1. /\ Begins(sock[There(n)].data, "REGISTER")
        /\ sock' = [sock EXCEPT ![There(n)].reader = FALSE, ![There(n)].data = <<>>]
        /\ UNCHANGED <<running, links, pib, consumers, missed>>
    BY <1>2 DEF RouterAcceptFails, First, Begins, There
  <2>2. n \notin pib[r].heard
    BY <1>0, <2>1 DEF ShakeInv
  <2>3. pib' = [pib EXCEPT ![r].known = K]
    BY <1>0, <1>1, <2>1 DEF RemoteTypes
  <2>4. K \in SUBSET pib[r].known /\ pib[r].known \ {n} \subseteq K
    OBVIOUS
  <2>5. sock' = [sock EXCEPT ![Rx(r, n)].reader = FALSE, ![Rx(r, n)].data = <<>>]
    BY <1>1, <2>1
  <2>6. r \in Both(n)
    BY <1>1
  <2> HIDE DEF r, K
  <2> QED BY <2>1, <2>2, <2>3, <2>4, <2>5, <2>6, Refuses
<1>3. CASE AckIsStale(n)
  <2> DEFINE r == Initiator(n)
             K == pib[r].known
  <2>1. /\ Begins(sock[Back(n)].data, "ACK")
        /\ sock' = [sock EXCEPT ![Back(n)].reader = FALSE, ![Back(n)].data = <<>>]
        /\ UNCHANGED <<running, links, pib, consumers, missed>>
    BY <1>3 DEF AckIsStale, First, Begins, Back
  <2>2. n \notin pib[r].heard
    BY <1>0, <2>1 DEF ShakeInv
  <2>3. pib' = [pib EXCEPT ![r].known = K]
    BY <1>0, <1>1, <2>1 DEF RemoteTypes
  <2>4. K \in SUBSET pib[r].known /\ pib[r].known \ {n} \subseteq K
    OBVIOUS
  <2>5. sock' = [sock EXCEPT ![Rx(r, n)].reader = FALSE, ![Rx(r, n)].data = <<>>]
    BY <1>1, <2>1
  <2>6. r \in Both(n)
    BY <1>1
  <2> HIDE DEF r, K
  <2> QED BY <2>1, <2>2, <2>3, <2>4, <2>5, <2>6, Refuses
<1> QED BY <1>2, <1>3

(* AckFails: the ACK is read, and nobody will read more. *)
LEMMA AckUnheard ==
  ASSUME RemoteInv, NEW n \in DOMAIN links, AckFails(n)
  PROVE  RemoteInv'
<1> DEFINE i == Initiator(n)
           w == sock[Back(n)]
           d == Tail(w.data)
<1>0. RemoteTypes /\ PibInv /\ ShakeInv
  BY DEF RemoteInv
<1>1. i \in Router /\ Back(n) \in Socket /\ Back(n)[1] = n
  BY <1>0, LinkEnds DEF Both
<1>2. /\ Begins(w.data, "ACK")
      /\ sock' = [sock EXCEPT ![Back(n)].data = Tail(@)]
      /\ pib' = [pib EXCEPT ![i].known = @ \ {n}]
      /\ UNCHANGED <<running, links, consumers, missed>>
  BY DEF AckFails, First, Begins, Back
<1>3. w \in Wire /\ w.data \in Seq(Message) /\ w.data # <<>> /\ Plain(w.data) /\ ~ Begins(w.data, "ENABLE")
  BY <1>0, <1>1, <1>2 DEF RemoteTypes, ShakeInv, Begins, Wire
<1>4. /\ d \in Seq(Message) /\ Plain(d) /\ \A x \in {"REGISTER", "ACK"} : ~ Begins(d, x)
      /\ Told(w.data) => Told(d)
      /\ NoDisable(w.data) => NoDisable(d)
  BY <1>3, Shrinks
<1>5. n \notin pib[i].heard
  BY <1>0, <1>2 DEF ShakeInv
<1>6. /\ sock'[Back(n)] = [w EXCEPT !.data = d]
      /\ \A s \in Socket : s # Back(n) => sock'[s] = sock[s]
      /\ sock' = [s \in Socket |-> sock'[s]]
  <2> HIDE DEF i
  <2> QED BY <1>0, <1>1, <1>2 DEF RemoteTypes
<1> HIDE DEF i, w, d
<1>7. /\ sock'[Back(n)] \in Wire /\ sock'[Back(n)].data = d /\ sock'[Back(n)].reader = sock[Back(n)].reader
  <2>1. /\ [w EXCEPT !.data = d] \in Wire /\ [w EXCEPT !.data = d].data = d
        /\ [w EXCEPT !.data = d].reader = w.reader
    BY <1>3, <1>4, Contents
  <2> QED BY <1>6, <2>1 DEF w
<1>8. /\ pib'[i].known = pib[i].known \ {n} /\ pib'[i].heard = pib[i].heard
      /\ \A q \in Router : q # i => pib'[q] = pib[q]
      /\ pib' \in [Router -> [known : SUBSET Nat, heard : SUBSET Nat]]
  BY <1>0, <1>1, <1>2 DEF RemoteTypes
<1>9. \A s \in Socket : KeepsForm(s)
  <2> SUFFICES ASSUME NEW s \in Socket PROVE KeepsForm(s)
    OBVIOUS
  <2>1. CASE s = Back(n)
    BY <1>1, <1>4, <1>7, <2>1 DEF KeepsForm
  <2>2. CASE s # Back(n)
    BY <1>0, <1>6, <2>2 DEF KeepsForm, ShakeInv, RemoteTypes
  <2> QED BY <2>1, <2>2
<1>10. ASSUME NEW q \in Router PROVE KeepsPib(q)
  <2>1. /\ pib'[q].heard \subseteq pib'[q].known
        /\ pib'[q].known \subseteq pib[q].known /\ pib'[q].heard = pib[q].heard
        /\ consumers'[q] \subseteq pib'[q].heard \cup {Local}
    BY <1>0, <1>2, <1>5, <1>8 DEF PibInv
  <2>2. ASSUME NEW k \in pib'[q].heard PROVE sock'[Rx(q, k)].reader
    <3>1. k \in DOMAIN links /\ q \in Both(k) /\ sock[Rx(q, k)].reader
      BY <1>0, <2>1 DEF PibInv
    <3>2. Rx(q, k) \in Socket
      BY <1>0, <3>1, LinkEnds
    <3> QED BY <1>6, <1>7, <3>1, <3>2
  <2> QED BY <2>1, <2>2 DEF KeepsPib
<1>11. RemoteTypes' /\ PibInv' /\ ShakeInv'
  <2>1. running' \subseteq Router /\ consumers' \in [Router -> SUBSET Nat]
    BY <1>0, <1>2 DEF RemoteTypes
  <2> QED BY <1>2, <1>6, <1>8, <1>9, <1>10, <2>1, NoLinkComesUp
<1>12. ASSUME NEW k \in DOMAIN links, NEW q \in Both(k) PROVE KeepsServing(q, k)
  <2>1. Tx(q, k) \in Socket /\ q \in Router
    BY <1>0, LinkEnds
  <2>2. pib'[q].heard = pib[q].heard /\ consumers' = consumers
    BY <1>2, <1>8, <2>1
  <2>3. CASE Tx(q, k) = Back(n)
    BY <1>4, <1>7, <2>2, <2>3 DEF KeepsServing, w
  <2>4. CASE Tx(q, k) # Back(n)
    BY <1>6, <2>1, <2>2, <2>4 DEF KeepsServing
  <2> QED BY <2>3, <2>4
<1> QED BY <1>2, <1>11, <1>12, NobodyServed

-----------------------------------------------------------------------------
(* Links that come up.  ACK, and all message IDs behind it. *)
LEMMA AckAndAll ==
  ASSUME NEW a
  PROVE  /\ <<"ACK">> \o AllMsgIDs(a) \in Seq(Message)
         /\ Plain(<<"ACK">> \o AllMsgIDs(a)) /\ ~ Begins(<<"ACK">> \o AllMsgIDs(a), "REGISTER")
         /\ consumers[a] # {} => Told(<<"ACK">> \o AllMsgIDs(a))
<1> DEFINE d == <<"ACK">>
<1>1. d \in Seq(Message) /\ Plain(d) /\ ~ Begins(d, "REGISTER")
  BY DEF Message, Plain, Begins
<1> HIDE DEF d
<1>2. CASE consumers[a] = {}
  <2>1. AllMsgIDs(a) = <<>>
    BY <1>2 DEF AllMsgIDs
  <2>2. d \o <<>> = d
    BY <1>1, ConcatEmptySeq
  <2> QED BY <1>1, <1>2, <2>1, <2>2 DEF d
<1>3. CASE consumers[a] # {}
  <2>1. AllMsgIDs(a) = <<"ENABLE">>
    BY <1>3 DEF AllMsgIDs
  <2>2. /\ d \o <<"ENABLE">> \in Seq(Message)
        /\ Plain(d \o <<"ENABLE">>)
        /\ Begins(d \o <<"ENABLE">>, "REGISTER") => Begins(d, "REGISTER")
        /\ Told(d \o <<"ENABLE">>)
    BY <1>1, Grows
  <2> QED BY <1>1, <2>1, <2>2 DEF d
<1> QED BY <1>2, <1>3

(* AcceptRegister: the acceptor tells the initiator what it has. *)
LEMMA RegisterAccepted ==
  ASSUME RemoteInv, NEW n \in DOMAIN links, AcceptRegister(n)
  PROVE  RemoteInv'
<1> DEFINE a == Acceptor(n)
           i == Initiator(n)
           D == <<"ACK">> \o AllMsgIDs(a)
<1>0. RemoteTypes /\ PibInv /\ ShakeInv
  BY DEF RemoteInv
<1>1. /\ a \in Router /\ i \in Router /\ a # i /\ a \in Both(n) /\ i \in Both(n)
      /\ There(n) \in Socket /\ Back(n) \in Socket /\ There(n) # Back(n)
      /\ Tx(a, n) = Back(n) /\ Rx(a, n) = There(n) /\ n \in Nat
      /\ There(n)[1] = n /\ Back(n)[1] = n
  BY <1>0, LinkEnds DEF Both
<1>2. /\ Begins(sock[There(n)].data, "REGISTER") /\ sock[There(n)].reader
      /\ sock' = [[sock EXCEPT ![There(n)].data = Tail(@)] EXCEPT ![Back(n)] = Opened(D)]
      /\ pib' = [pib EXCEPT ![a] = [known |-> @.known \cup {n}, heard |-> @.heard \cup {n}]]
      /\ UNCHANGED <<running, links, consumers, missed>>
  BY DEF AcceptRegister, First, Begins, There, Back
<1>3. n \notin pib[i].heard /\ n \notin pib[a].heard
  BY <1>0, <1>2 DEF ShakeInv
<1>4. D \in Seq(Message) /\ Plain(D) /\ ~ Begins(D, "REGISTER") /\ (consumers[a] # {} => Told(D))
  BY AckAndAll
<1> HIDE DEF a, i, D
<1>5. /\ sock'[Back(n)] = Opened(D)
      /\ sock'[There(n)] = [sock[There(n)] EXCEPT !.data = Tail(@)]
      /\ \A s \in Socket : s # There(n) /\ s # Back(n) => sock'[s] = sock[s]
      /\ DOMAIN sock' = Socket /\ sock' = [s \in Socket |-> sock'[s]]
  BY <1>0, <1>1, <1>2 DEF RemoteTypes
<1>6. /\ sock'[Back(n)] \in Wire /\ sock'[Back(n)].data = D /\ sock'[Back(n)].reader
      /\ sock'[There(n)] \in Wire /\ Plain(sock'[There(n)].data) /\ sock'[There(n)].reader
      /\ ~ Begins(sock'[There(n)].data, "REGISTER")
  <2>1. sock[There(n)] \in Wire /\ sock[There(n)].data # <<>> /\ Plain(sock[There(n)].data)
    BY <1>0, <1>1, <1>2 DEF RemoteTypes, ShakeInv, Begins
  <2>2. /\ Tail(sock[There(n)].data) \in Seq(Message) /\ Plain(Tail(sock[There(n)].data))
        /\ ~ Begins(Tail(sock[There(n)].data), "REGISTER")
    BY <2>1, Shrinks DEF Wire
  <2>3. sock'[Back(n)] \in Wire /\ sock'[Back(n)].data = D /\ sock'[Back(n)].reader
    BY <1>4, <1>5 DEF Opened, Wire
  <2>4. sock'[There(n)] \in Wire /\ sock'[There(n)].data = Tail(sock[There(n)].data) /\ sock'[There(n)].reader
    <3> DEFINE w == sock[There(n)]
               d == Tail(w.data)
    <3>1. w \in Wire /\ d \in Seq(Message) /\ w.reader /\ sock'[There(n)] = [w EXCEPT !.data = d]
      BY <1>2, <1>5, <2>1, <2>2
    <3>2. [w EXCEPT !.data = d] \in Wire /\ [w EXCEPT !.data = d].data = d /\ [w EXCEPT !.data = d].reader = w.reader
      <4>1. w \in Wire /\ d \in Seq(Message)
        BY <3>1
      <4> HIDE DEF w, d
      <4> QED BY <4>1, Contents
    <3> QED BY <3>1, <3>2
  <2> QED BY <2>2, <2>3, <2>4
<1>7. /\ pib'[a] = [known |-> pib[a].known \cup {n}, heard |-> pib[a].heard \cup {n}]
      /\ \A q \in Router : q # a => pib'[q] = pib[q]
      /\ pib' \in [Router -> [known : SUBSET Nat, heard : SUBSET Nat]]
  BY <1>0, <1>1, <1>2 DEF RemoteTypes
<1>8. \A k : /\ Initiator(k)' = Initiator(k) /\ Acceptor(k)' = Acceptor(k) /\ Both(k)' = Both(k)
             /\ There(k)' = There(k) /\ Back(k)' = Back(k)
             /\ \A q : Rx(q, k)' = Rx(q, k) /\ Tx(q, k)' = Tx(q, k)
  BY <1>2 DEF Initiator, Acceptor, Both, There, Back, Rx, Tx
<1>9. RemoteTypes'
  <2>1. sock' \in [Socket -> Wire]
    BY <1>0, <1>5, <1>6 DEF RemoteTypes
  <2> QED BY <1>0, <1>2, <1>7, <1>8, <2>1 DEF RemoteTypes
<1>10. PibInv'
  <2> SUFFICES ASSUME NEW q \in Router
               PROVE  /\ pib'[q].heard \subseteq pib'[q].known
                      /\ \A k \in pib'[q].known : k \in DOMAIN links' /\ q \in Both(k)'
                      /\ \A k \in pib'[q].heard : sock'[Rx(q, k)'].reader
                      /\ consumers'[q] \subseteq pib'[q].heard \cup {Local}
    BY DEF PibInv
  <2>1. /\ pib'[q].heard \subseteq pib'[q].known
        /\ consumers'[q] \subseteq pib'[q].heard \cup {Local}
    BY <1>0, <1>2, <1>7 DEF PibInv
  <2>2. \A k \in pib'[q].known : k \in DOMAIN links' /\ q \in Both(k)'
    BY <1>0, <1>1, <1>2, <1>7, <1>8 DEF PibInv
  <2>3. ASSUME NEW k \in pib'[q].heard PROVE sock'[Rx(q, k)].reader
    <3>1. CASE k \in pib[q].heard
      <4>1. k \in DOMAIN links /\ q \in Both(k) /\ sock[Rx(q, k)].reader
        BY <1>0, <3>1 DEF PibInv
      <4>2. Rx(q, k) \in Socket
        BY <1>0, <4>1, LinkEnds
      <4> QED BY <1>5, <1>6, <4>1, <4>2
    <3>2. CASE q = a /\ k = n
      BY <1>1, <1>6, <3>2
    <3> QED BY <1>7, <3>1, <3>2
  <2> QED BY <1>8, <2>1, <2>2, <2>3
<1>11. ShakeInv'
  <2>1. \A s \in Socket : Plain(sock'[s].data) /\ (s[1] \notin DOMAIN links => sock'[s] = Unopened)
    <3> SUFFICES ASSUME NEW s \in Socket
                 PROVE  Plain(sock'[s].data) /\ (s[1] \notin DOMAIN links => sock'[s] = Unopened)
      OBVIOUS
    <3>1. CASE s = There(n)
      BY <1>1, <1>6, <3>1
    <3>2. CASE s = Back(n)
      BY <1>1, <1>4, <1>6, <3>2
    <3>3. CASE s # There(n) /\ s # Back(n)
      BY <1>0, <1>5, <3>3 DEF ShakeInv
    <3> QED BY <3>1, <3>2, <3>3
  <2>2. ASSUME NEW k \in DOMAIN links
        PROVE  /\ Begins(sock'[There(k)].data, "REGISTER") =>
                    /\ ~ Begins(sock'[Back(k)].data, "ACK")
                    /\ k \notin pib'[Initiator(k)].heard \cup pib'[Acceptor(k)].heard
               /\ Begins(sock'[Back(k)].data, "ACK") => k \notin pib'[Initiator(k)].heard
    <3>1. CASE k = n
      BY <1>1, <1>3, <1>6, <1>7, <3>1 DEF i, a
    <3>2. CASE k # n
      <4>1. /\ There(k) \in Socket /\ Back(k) \in Socket /\ Initiator(k) \in Router /\ Acceptor(k) \in Router
            /\ There(k)[1] = k /\ Back(k)[1] = k
        BY <1>0, LinkEnds DEF Both, There, Back
      <4>2. sock'[There(k)] = sock[There(k)] /\ sock'[Back(k)] = sock[Back(k)]
        BY <1>1, <1>5, <3>2, <4>1
      <4>3. \A q \in Router : k \in pib'[q].heard => k \in pib[q].heard
        BY <1>7, <3>2
      <4> QED BY <1>0, <4>1, <4>2, <4>3 DEF ShakeInv
    <3> QED BY <3>1, <3>2
  <2> QED BY <1>2, <1>8, <2>1, <2>2 DEF ShakeInv
<1>12. ASSUME NEW k \in DOMAIN links, NEW q \in Both(k) PROVE Serves(q, k)'
  <2>1. /\ Tx(q, k) \in Socket /\ Tx(q, k)[1] = k /\ q \in Router
    BY <1>0, LinkEnds
  <2>2. CASE k # n
    <3>1. sock'[Tx(q, k)] = sock[Tx(q, k)] /\ (k \in pib'[q].heard => k \in pib[q].heard)
      BY <1>1, <1>5, <1>7, <2>1, <2>2
    <3>2. KeepsServing(q, k)
      BY <1>2, <3>1 DEF KeepsServing
    <3> QED BY <1>2, <3>2, ServesOn DEF RemoteInv
  <2>3. CASE k = n /\ q = a
    <3>1. Tx(q, k)' = Back(n) /\ sock'[Back(n)].data = D /\ consumers'[q] = consumers[a]
      BY <1>1, <1>2, <1>6, <1>8, <2>3
    <3>2. consumers'[q] \ {k} # {} => Told(D)
      BY <1>4, <3>1
    <3> QED BY <3>1, <3>2 DEF Serves
  <2>4. CASE k = n /\ q = i
    <3>1. k \notin pib'[q].heard
      BY <1>1, <1>3, <1>7, <2>4
    <3> QED BY <3>1 DEF Serves
  <2>5. q = i \/ q = a \/ k # n
    BY DEF Both, i, a
  <2> QED BY <2>2, <2>3, <2>4, <2>5
<1> QED BY <1>2, <1>8, <1>9, <1>10, <1>11, <1>12 DEF RemoteInv

(* RegisterFails: the link is shut, but for the ACK on it. *)
LEMMA RegisterRefused ==
  ASSUME RemoteInv, NEW n \in DOMAIN links, RegisterFails(n)
  PROVE  RemoteInv'
<1> DEFINE a == Acceptor(n)
           i == Initiator(n)
           D == <<"ACK">>
           v == sock[There(n)]
           e == <<>>
<1>0. RemoteTypes /\ PibInv /\ ShakeInv
  BY DEF RemoteInv
<1>1. /\ a \in Router /\ i \in Router /\ a # i /\ a \in Both(n) /\ i \in Both(n)
      /\ There(n) \in Socket /\ Back(n) \in Socket /\ There(n) # Back(n)
      /\ There(n)[1] = n /\ Back(n)[1] = n
  BY <1>0, LinkEnds DEF Both
<1>2. /\ Begins(v.data, "REGISTER")
      /\ sock' = [[sock EXCEPT ![There(n)].reader = FALSE, ![There(n)].data = e]
                    EXCEPT ![Back(n)] = [Opened(D) EXCEPT !.writer = FALSE]]
      /\ UNCHANGED <<running, links, pib, consumers, missed>>
  BY DEF RegisterFails, First, Begins, There, Back
<1>3. n \notin pib[i].heard /\ n \notin pib[a].heard
  BY <1>0, <1>2 DEF ShakeInv
<1>4. /\ D \in Seq(Message) /\ Plain(D) /\ e \in Seq(Message) /\ Plain(e)
      /\ v \in Wire /\ \A x : ~ Begins(e, x)
  BY <1>0, <1>1 DEF RemoteTypes, Message, Plain, Begins
<1> HIDE DEF a, i, D, v, e
<1>5. /\ sock'[Back(n)] = [Opened(D) EXCEPT !.writer = FALSE]
      /\ sock'[There(n)] = [v EXCEPT !.reader = FALSE, !.data = e]
      /\ \A s \in Socket : s # There(n) /\ s # Back(n) => sock'[s] = sock[s]
      /\ sock' = [s \in Socket |-> sock'[s]]
  BY <1>0, <1>1, <1>2 DEF RemoteTypes, v
<1>6. /\ sock'[Back(n)] \in Wire /\ sock'[Back(n)].data = D
      /\ sock'[There(n)] \in Wire /\ sock'[There(n)].data = e
  BY <1>4, <1>5, Contents DEF Opened, Wire
<1>7. \A k : /\ Initiator(k)' = Initiator(k) /\ Acceptor(k)' = Acceptor(k) /\ Both(k)' = Both(k)
             /\ There(k)' = There(k) /\ Back(k)' = Back(k)
             /\ \A q : Rx(q, k)' = Rx(q, k) /\ Tx(q, k)' = Tx(q, k)
  BY <1>2 DEF Initiator, Acceptor, Both, There, Back, Rx, Tx
<1>8. \A q : q \in Both(n) => q \in Router /\ n \notin pib[q].heard
  BY <1>1, <1>3 DEF Both, i, a
<1>9. RemoteTypes'
  <2>1. sock' \in [Socket -> Wire]
    BY <1>0, <1>5, <1>6 DEF RemoteTypes
  <2> QED BY <1>0, <1>2, <1>7, <2>1 DEF RemoteTypes
<1>10. PibInv'
  <2>1. ASSUME NEW q \in Router, NEW k \in pib[q].heard PROVE sock'[Rx(q, k)].reader
    <3>1. k \in DOMAIN links /\ q \in Both(k) /\ sock[Rx(q, k)].reader
      BY <1>0 DEF PibInv
    <3>2. Rx(q, k) \in Socket /\ Rx(q, k)[1] = k /\ k # n
      BY <1>0, <1>8, <3>1, LinkEnds
    <3> QED BY <1>1, <1>5, <3>1, <3>2
  <2> QED BY <1>0, <1>2, <1>7, <2>1 DEF PibInv
<1>11. ShakeInv'
  <2>1. \A s \in Socket : Plain(sock'[s].data) /\ (s[1] \notin DOMAIN links => sock'[s] = Unopened)
    <3> SUFFICES ASSUME NEW s \in Socket
                 PROVE  Plain(sock'[s].data) /\ (s[1] \notin DOMAIN links => sock'[s] = Unopened)
      OBVIOUS
    <3>1. CASE s = There(n) \/ s = Back(n)
      BY <1>1, <1>4, <1>6, <3>1
    <3>2. CASE s # There(n) /\ s # Back(n)
      BY <1>0, <1>5, <3>2 DEF ShakeInv
    <3> QED BY <3>1, <3>2
  <2>2. ASSUME NEW k \in DOMAIN links
        PROVE  /\ Begins(sock'[There(k)].data, "REGISTER") =>
                    /\ ~ Begins(sock'[Back(k)].data, "ACK")
                    /\ k \notin pib[Initiator(k)].heard \cup pib[Acceptor(k)].heard
               /\ Begins(sock'[Back(k)].data, "ACK") => k \notin pib[Initiator(k)].heard
    <3>1. CASE k = n
      BY <1>3, <1>4, <1>6, <3>1 DEF i, a
    <3>2. CASE k # n
      <4>1. /\ There(k) \in Socket /\ Back(k) \in Socket
            /\ There(k)[1] = k /\ Back(k)[1] = k
        BY <1>0, LinkEnds DEF Both, There, Back
      <4>2. sock'[There(k)] = sock[There(k)] /\ sock'[Back(k)] = sock[Back(k)]
        BY <1>1, <1>5, <3>2, <4>1
      <4> QED BY <1>0, <4>2 DEF ShakeInv
    <3> QED BY <3>1, <3>2
  <2> QED BY <1>2, <1>7, <2>1, <2>2 DEF ShakeInv
<1>12. ASSUME NEW k \in DOMAIN links, NEW q \in Both(k) PROVE Serves(q, k)'
  <2>1. /\ Tx(q, k) \in Socket /\ Tx(q, k)[1] = k /\ q \in Router
    BY <1>0, LinkEnds
  <2>2. CASE k # n
    <3>1. sock'[Tx(q, k)] = sock[Tx(q, k)]
      BY <1>1, <1>5, <2>1, <2>2
    <3>2. KeepsServing(q, k)
      BY <1>2, <3>1 DEF KeepsServing
    <3> QED BY <1>2, <3>2, ServesOn DEF RemoteInv
  <2>3. CASE k = n
    BY <1>2, <1>8, <2>3 DEF Serves
  <2> QED BY <2>2, <2>3
<1> QED BY <1>2, <1>7, <1>9, <1>10, <1>11, <1>12 DEF RemoteInv

(* AcceptAck: the initiator tells the acceptor what it has. *)
LEMMA AckAccepted ==
  ASSUME RemoteInv, NEW n \in DOMAIN links, AcceptAck(n)
  PROVE  RemoteInv'
<1> DEFINE i == Initiator(n)
           a == Acceptor(n)
           M == AllMsgIDs(i)
           v == sock[There(n)]
           w == sock[Back(n)]
<1>0. RemoteTypes /\ PibInv /\ ShakeInv
  BY DEF RemoteInv
<1>1. /\ a \in Router /\ i \in Router /\ a # i /\ a \in Both(n) /\ i \in Both(n)
      /\ There(n) \in Socket /\ Back(n) \in Socket /\ There(n) # Back(n)
      /\ Tx(i, n) = There(n) /\ Rx(i, n) = Back(n) /\ Tx(a, n) = Back(n) /\ n \in Nat
      /\ There(n)[1] = n /\ Back(n)[1] = n /\ OtherEnd(a, n) = i
  BY <1>0, LinkEnds DEF Both, OtherEnd
<1>2. /\ Begins(w.data, "ACK") /\ w.reader /\ n \in pib[i].known
      /\ sock' = Write([sock EXCEPT ![Back(n)].data = Tail(@)], {There(n)}, M)
      /\ pib' = [pib EXCEPT ![i].heard = @ \cup {n}]
      /\ missed' = [missed EXCEPT ![i] = @ \ {n}]
      /\ UNCHANGED <<running, links, consumers>>
  BY DEF AcceptAck, First, Begins, There, Back
<1>3. n \notin pib[i].heard /\ ~ Begins(v.data, "REGISTER")
  BY <1>0, <1>2 DEF ShakeInv
<1>4. /\ v \in Wire /\ v.data \in Seq(Message) /\ Plain(v.data)
      /\ w \in Wire /\ w.data \in Seq(Message) /\ Plain(w.data) /\ w.data # <<>>
  BY <1>0, <1>1, <1>2 DEF RemoteTypes, ShakeInv, Wire, Begins
<1>5. (M = <<>> /\ consumers[i] = {}) \/ M = <<"ENABLE">>
  BY DEF AllMsgIDs
<1> HIDE DEF i, a, M, v, w
<1>6. /\ sock'[Back(n)] = [w EXCEPT !.data = Tail(@)]
      /\ sock'[There(n)] = IF v.reader THEN [v EXCEPT !.data = @ \o M] ELSE v
      /\ \A s \in Socket : s # There(n) /\ s # Back(n) => sock'[s] = sock[s]
      /\ sock' = [s \in Socket |-> sock'[s]]
  BY <1>0, <1>1, <1>2 DEF RemoteTypes, Write, v, w
<1>7. /\ sock'[Back(n)] \in Wire /\ sock'[Back(n)].reader /\ Plain(sock'[Back(n)].data)
      /\ ~ Begins(sock'[Back(n)].data, "ACK")
      /\ Told(w.data) => Told(sock'[Back(n)].data)
      /\ NoDisable(w.data) => NoDisable(sock'[Back(n)].data)
  <2> DEFINE d == Tail(w.data)
  <2>1. /\ d \in Seq(Message) /\ Plain(d) /\ ~ Begins(d, "ACK")
        /\ Told(w.data) => Told(d) \/ (Begins(w.data, "ENABLE") /\ NoDisable(d))
        /\ NoDisable(w.data) => NoDisable(d)
    BY <1>4, Shrinks
  <2>2. ~ Begins(w.data, "ENABLE")
    BY <1>2 DEF Begins
  <2>3. [w EXCEPT !.data = d] \in Wire /\ [w EXCEPT !.data = d].data = d /\ [w EXCEPT !.data = d].reader = w.reader
    <3> HIDE DEF d
    <3> QED BY <1>4, <2>1, Contents
  <2>4. sock'[Back(n)] = [w EXCEPT !.data = d]
    BY <1>6
  <2> HIDE DEF d
  <2> QED BY <1>2, <2>1, <2>2, <2>3, <2>4
<1>8. /\ sock'[There(n)] \in Wire /\ Plain(sock'[There(n)].data)
      /\ ~ Begins(sock'[There(n)].data, "REGISTER")
      /\ sock'[There(n)].reader = v.reader
      /\ v.reader /\ consumers[i] # {} => Told(sock'[There(n)].data)
  <2> DEFINE d == v.data \o M
  <2>1. /\ d \in Seq(Message) /\ Plain(d) /\ ~ Begins(d, "REGISTER")
        /\ consumers[i] # {} => Told(d)
    <3>1. CASE M = <<>> /\ consumers[i] = {}
      BY <1>3, <1>4, <3>1, ConcatEmptySeq
    <3>2. CASE M = <<"ENABLE">>
      <4>1. /\ v.data \o <<"ENABLE">> \in Seq(Message) /\ Plain(v.data \o <<"ENABLE">>)
            /\ Begins(v.data \o <<"ENABLE">>, "REGISTER") => Begins(v.data, "REGISTER")
            /\ Told(v.data \o <<"ENABLE">>)
        BY <1>4, Grows
      <4> QED BY <1>3, <3>2, <4>1
    <3> QED BY <1>5, <3>1, <3>2
  <2>2. [v EXCEPT !.data = d] \in Wire /\ [v EXCEPT !.data = d].data = d /\ [v EXCEPT !.data = d].reader = v.reader
    <3> HIDE DEF d
    <3> QED BY <1>4, <2>1, Contents
  <2>3. CASE v.reader
    <3>1. sock'[There(n)] = [v EXCEPT !.data = d]
      BY <1>6, <2>3
    <3> HIDE DEF d
    <3> QED BY <2>1, <2>2, <3>1
  <2>4. CASE ~ v.reader
    BY <1>3, <1>4, <1>6, <2>4
  <2> QED BY <2>3, <2>4
<1>9. /\ pib'[i].heard = pib[i].heard \cup {n} /\ pib'[i].known = pib[i].known
      /\ \A q \in Router : q # i => pib'[q] = pib[q]
      /\ pib' \in [Router -> [known : SUBSET Nat, heard : SUBSET Nat]]
  BY <1>0, <1>1, <1>2 DEF RemoteTypes
<1>15. /\ DOMAIN missed' = Router
       /\ \A k, q : (k # n \/ q # i) /\ q \in Router /\ k \in missed[q] => k \in missed'[q]
  BY <1>1, <1>2 DEF RemoteInv
<1>10. \A k : /\ Initiator(k)' = Initiator(k) /\ Acceptor(k)' = Acceptor(k) /\ Both(k)' = Both(k)
              /\ There(k)' = There(k) /\ Back(k)' = Back(k)
              /\ \A q : Rx(q, k)' = Rx(q, k) /\ Tx(q, k)' = Tx(q, k)
  BY <1>2 DEF Initiator, Acceptor, Both, There, Back, Rx, Tx
<1>11. RemoteTypes'
  <2>1. sock' \in [Socket -> Wire]
    BY <1>0, <1>6, <1>7, <1>8 DEF RemoteTypes
  <2> QED BY <1>0, <1>2, <1>9, <1>10, <2>1 DEF RemoteTypes
<1>12. PibInv'
  <2> SUFFICES ASSUME NEW q \in Router
               PROVE  /\ pib'[q].heard \subseteq pib'[q].known
                      /\ \A k \in pib'[q].known : k \in DOMAIN links' /\ q \in Both(k)'
                      /\ \A k \in pib'[q].heard : sock'[Rx(q, k)'].reader
                      /\ consumers'[q] \subseteq pib'[q].heard \cup {Local}
    BY DEF PibInv
  <2>1. /\ pib'[q].heard \subseteq pib'[q].known
        /\ consumers'[q] \subseteq pib'[q].heard \cup {Local}
    BY <1>0, <1>2, <1>9 DEF PibInv
  <2>2. \A k \in pib'[q].known : k \in DOMAIN links' /\ q \in Both(k)'
    BY <1>0, <1>2, <1>9, <1>10 DEF PibInv
  <2>3. ASSUME NEW k \in pib'[q].heard PROVE sock'[Rx(q, k)].reader
    <3>1. CASE k \in pib[q].heard
      <4>1. k \in DOMAIN links /\ q \in Both(k) /\ sock[Rx(q, k)].reader
        BY <1>0, <3>1 DEF PibInv
      <4>2. Rx(q, k) \in Socket
        BY <1>0, <4>1, LinkEnds
      <4>3. CASE Rx(q, k) = There(n)
        BY <1>8, <4>1, <4>3 DEF v
      <4> QED BY <1>6, <1>7, <4>1, <4>2, <4>3
    <3>2. CASE q = i /\ k = n
      BY <1>1, <1>7, <3>2
    <3> QED BY <1>9, <3>1, <3>2
  <2> QED BY <1>10, <2>1, <2>2, <2>3
<1>13. ShakeInv'
  <2>1. \A s \in Socket : Plain(sock'[s].data) /\ (s[1] \notin DOMAIN links => sock'[s] = Unopened)
    <3> SUFFICES ASSUME NEW s \in Socket
                 PROVE  Plain(sock'[s].data) /\ (s[1] \notin DOMAIN links => sock'[s] = Unopened)
      OBVIOUS
    <3>1. CASE s = There(n)
      BY <1>1, <1>8, <3>1
    <3>2. CASE s = Back(n)
      BY <1>1, <1>7, <3>2
    <3>3. CASE s # There(n) /\ s # Back(n)
      BY <1>0, <1>6, <3>3 DEF ShakeInv
    <3> QED BY <3>1, <3>2, <3>3
  <2>2. ASSUME NEW k \in DOMAIN links
        PROVE  /\ Begins(sock'[There(k)].data, "REGISTER") =>
                    /\ ~ Begins(sock'[Back(k)].data, "ACK")
                    /\ k \notin pib'[Initiator(k)].heard \cup pib'[Acceptor(k)].heard
               /\ Begins(sock'[Back(k)].data, "ACK") => k \notin pib'[Initiator(k)].heard
    <3>1. CASE k = n
      BY <1>7, <1>8, <3>1
    <3>2. CASE k # n
      <4>1. /\ There(k) \in Socket /\ Back(k) \in Socket /\ Initiator(k) \in Router /\ Acceptor(k) \in Router
            /\ There(k)[1] = k /\ Back(k)[1] = k
        BY <1>0, LinkEnds DEF Both, There, Back
      <4>2. sock'[There(k)] = sock[There(k)] /\ sock'[Back(k)] = sock[Back(k)]
        BY <1>1, <1>6, <3>2, <4>1
      <4>3. \A q \in Router : k \in pib'[q].heard => k \in pib[q].heard
        BY <1>9, <3>2
      <4> QED BY <1>0, <4>1, <4>2, <4>3 DEF ShakeInv
    <3> QED BY <3>1, <3>2
  <2> QED BY <1>2, <1>10, <2>1, <2>2 DEF ShakeInv
<1>14. ASSUME NEW k \in DOMAIN links, NEW q \in Both(k) PROVE Serves(q, k)'
  <2>1. /\ Tx(q, k) \in Socket /\ Tx(q, k)[1] = k /\ q \in Router
    BY <1>0, LinkEnds
  <2>2. CASE k # n
    <3>1. sock'[Tx(q, k)] = sock[Tx(q, k)] /\ (k \in pib'[q].heard => k \in pib[q].heard)
      BY <1>1, <1>6, <1>9, <2>1, <2>2
    <3>2. KeepsServing(q, k)
      BY <1>2, <3>1 DEF KeepsServing
    <3> QED BY <1>1, <1>2, <1>15, <2>1, <2>2, <3>2, ServesOn DEF RemoteInv
  <2>3. CASE k = n /\ q = i
    <3>1. Tx(q, k)' = There(n) /\ consumers'[q] = consumers[i]
      BY <1>1, <1>2, <1>10, <2>3
    <3>2. sock'[There(n)].reader /\ consumers'[q] \ {k} # {} => Told(sock'[There(n)].data)
      BY <1>8, <3>1
    <3> QED BY <3>1, <3>2 DEF Serves
  <2>4. CASE k = n /\ q = a
    <3>1. pib'[q] = pib[q] /\ Tx(q, k) = Back(n) /\ sock[Back(n)] = w
      BY <1>1, <1>9, <2>4 DEF w
    <3>2. KeepsServing(q, k)
      BY <1>2, <1>7, <3>1 DEF KeepsServing
    <3> QED BY <1>1, <1>2, <1>15, <2>1, <2>4, <3>2, ServesOn DEF RemoteInv
  <2>5. q = i \/ q = a \/ k # n
    BY DEF Both, i, a
  <2> QED BY <2>2, <2>3, <2>4, <2>5
<1> QED BY <1>2, <1>10, <1>11, <1>12, <1>13, <1>14, <1>15 DEF RemoteInv

(* connectTimerHandler: nobody hears the new link. *)
LEMMA ConnectStep ==
  ASSUME RemoteInv, NEW r \in Router, connectTimerHandler(r)
  PROVE  RemoteInv'
<1>0. RemoteTypes /\ PibInv /\ ShakeInv
  BY DEF RemoteInv
<1>n. PICK n : n = Len(links) + 1
  OBVIOUS
<1>1. /\ links' = Append(links, r) /\ Remote[r] \in running /\ Len(links) < MaxLinks
      /\ sock' = [sock EXCEPT ![There(n)] = Opened(<<"REGISTER">>)]
      /\ pib' = [pib EXCEPT ![r].known = @ \cup {n}]
      /\ UNCHANGED <<running, consumers, missed>>
  BY <1>n DEF connectTimerHandler, There
<1>2. /\ Len(links) \in Nat /\ DOMAIN links = 1 .. Len(links) /\ n \in Nat /\ n \notin DOMAIN links
      /\ links' \in Seq(Router) /\ Len(links') = n /\ links'[n] = r
      /\ \A k \in DOMAIN links : links'[k] = links[k]
      /\ DOMAIN links' = 1 .. n /\ n \in DOMAIN links' /\ n \in Link /\ n <= MaxLinks
  <2>1. /\ Len(links) \in Nat /\ DOMAIN links = 1 .. Len(links)
    BY <1>0, LenProperties DEF RemoteTypes
  <2>2. /\ links' \in Seq(Router) /\ Len(links') = n
        /\ \A k \in 1 .. Len(links) : links'[k] = links[k]
        /\ links'[Len(links) + 1] = r
    BY <1>n, <1>0, <1>1, AppendProperties DEF RemoteTypes
  <2>3. DOMAIN links' = 1 .. n
    BY <1>n, <2>2, LenProperties
  <2>4. n \in Link /\ n <= MaxLinks
    BY <1>n, <1>1, <2>1, RemoteAssumption DEF Link
  <2>5. n \in Nat /\ n \notin DOMAIN links /\ n \in DOMAIN links'
    BY <1>n, <2>1, <2>3
  <2>6. Len(links') = n /\ links'[n] = r /\ \A k \in DOMAIN links : links'[k] = links[k]
    BY <1>n, <2>1, <2>2
  <2> QED BY <2>1, <2>2, <2>3, <2>4, <2>5, <2>6
<1>3. \A k \in DOMAIN links' : k \in DOMAIN links \/ k = n
  BY <1>n, <1>2
<1>4. /\ There(n) \in Socket /\ Back(n) \in Socket /\ There(n) # Back(n)
      /\ There(n)[1] = n /\ Back(n)[1] = n
  BY <1>2 DEF There, Back, Socket
<1>5. /\ sock'[There(n)] = Opened(<<"REGISTER">>)
      /\ \A s \in Socket : s # There(n) => sock'[s] = sock[s]
      /\ DOMAIN sock' = Socket /\ sock' = [s \in Socket |-> sock'[s]]
  BY <1>0, <1>1, <1>4 DEF RemoteTypes
<1>6. sock'[There(n)] \in Wire /\ Plain(sock'[There(n)].data) /\ sock'[Back(n)] = Unopened
      /\ ~ Begins(Unopened.data, "ACK")
  <2>1. <<"REGISTER">> \in Seq(Message) /\ Plain(<<"REGISTER">>)
    BY DEF Message, Plain
  <2>2. Opened(<<"REGISTER">>) \in Wire /\ Opened(<<"REGISTER">>).data = <<"REGISTER">>
    BY <2>1 DEF Opened, Wire
  <2>3. sock'[Back(n)] = Unopened
    BY <1>0, <1>2, <1>4, <1>5 DEF ShakeInv
  <2> QED BY <1>5, <2>1, <2>2, <2>3 DEF Begins, Unopened
<1>7. /\ pib'[r].known = pib[r].known \cup {n} /\ pib'[r].heard = pib[r].heard
      /\ \A q \in Router : q # r => pib'[q] = pib[q]
      /\ pib' \in [Router -> [known : SUBSET Nat, heard : SUBSET Nat]]
  <2> DEFINE P == [known : SUBSET Nat, heard : SUBSET Nat]
             p == [pib[r] EXCEPT !.known = @ \cup {n}]
  <2>1. pib \in [Router -> P] /\ pib[r] \in P
    BY <1>0 DEF RemoteTypes
  <2>2. p \in P /\ p.known = pib[r].known \cup {n} /\ p.heard = pib[r].heard
    BY <1>2, <2>1
  <2>3. pib' = [pib EXCEPT ![r] = p]
    BY <1>1
  <2> HIDE DEF P, p
  <2>4. pib' \in [Router -> P] /\ pib'[r] = p /\ \A q \in Router : q # r => pib'[q] = pib[q]
    BY <2>1, <2>2, <2>3
  <2> QED BY <2>2, <2>4 DEF P
<1>8. \A q \in Router : pib'[q].heard = pib[q].heard /\ n \notin pib[q].heard
  BY <1>0, <1>2, <1>7 DEF PibInv
<1>9. \A k \in DOMAIN links :
        /\ Initiator(k)' = Initiator(k) /\ Acceptor(k)' = Acceptor(k) /\ Both(k)' = Both(k)
        /\ There(k)' = There(k) /\ Back(k)' = Back(k)
        /\ \A q : Rx(q, k)' = Rx(q, k) /\ Tx(q, k)' = Tx(q, k) /\ OtherEnd(q, k)' = OtherEnd(q, k)
  <2> SUFFICES ASSUME NEW k \in DOMAIN links
               PROVE  /\ Initiator(k)' = Initiator(k) /\ Acceptor(k)' = Acceptor(k) /\ Both(k)' = Both(k)
                      /\ There(k)' = There(k) /\ Back(k)' = Back(k)
                      /\ \A q : Rx(q, k)' = Rx(q, k) /\ Tx(q, k)' = Tx(q, k)
                                 /\ OtherEnd(q, k)' = OtherEnd(q, k)
    OBVIOUS
  <2>1. links'[k] = links[k]
    BY <1>2
  <2> QED BY <2>1 DEF Initiator, Acceptor, Both, There, Back, Rx, Tx, OtherEnd
<1>10. Initiator(n)' = r /\ Acceptor(n)' = Remote[r] /\ Remote[r] \in Router
       /\ There(n)' = There(n) /\ Back(n)' = Back(n)
  <2>1. Remote[r] \in Router
    BY <1>0, <1>1 DEF RemoteTypes
  <2> QED BY <1>2, <2>1 DEF Initiator, Acceptor, There, Back
<1>11. RemoteTypes'
  <2>1. sock' \in [Socket -> Wire]
    BY <1>0, <1>5, <1>6 DEF RemoteTypes
  <2>2. \A k \in DOMAIN links' : Acceptor(k)' \in Router
    <3> SUFFICES ASSUME NEW k \in DOMAIN links' PROVE Acceptor(k)' \in Router
      OBVIOUS
    <3>1. CASE k = n
      <4>1. Acceptor(k)' = Remote[links'[k]]
        BY DEF Acceptor
      <4> QED BY <1>2, <1>10, <3>1, <4>1
    <3>2. CASE k \in DOMAIN links
      BY <1>0, <1>9, <3>2 DEF RemoteTypes
    <3> QED BY <1>3, <3>1, <3>2
  <2> QED BY <1>0, <1>1, <1>2, <1>7, <2>1, <2>2 DEF RemoteTypes
<1>12. PibInv'
  <2> SUFFICES ASSUME NEW q \in Router
               PROVE  /\ pib'[q].heard \subseteq pib'[q].known
                      /\ \A k \in pib'[q].known : k \in DOMAIN links' /\ q \in Both(k)'
                      /\ \A k \in pib'[q].heard : sock'[Rx(q, k)'].reader
                      /\ consumers'[q] \subseteq pib'[q].heard \cup {Local}
    BY DEF PibInv
  <2>1. /\ pib'[q].heard \subseteq pib'[q].known
        /\ consumers'[q] \subseteq pib'[q].heard \cup {Local}
    BY <1>0, <1>1, <1>7 DEF PibInv
  <2>2. ASSUME NEW k \in pib'[q].known PROVE k \in DOMAIN links' /\ q \in Both(k)'
    <3>1. CASE k \in pib[q].known
      <4>1. k \in DOMAIN links /\ q \in Both(k)
        BY <1>0, <3>1 DEF PibInv
      <4>2. k \in DOMAIN links'
        BY <1>n, <1>2, <4>1
      <4> QED BY <1>9, <4>1, <4>2
    <3>2. CASE q = r /\ k = n
      <4>1. Both(k)' = {links'[k], Remote[links'[k]]}
        BY DEF Both, Initiator, Acceptor
      <4> QED BY <1>2, <3>2, <4>1
    <3> QED BY <1>7, <3>1, <3>2
  <2>3. ASSUME NEW k \in pib'[q].heard PROVE sock'[Rx(q, k)'].reader
    <3>1. k \in DOMAIN links /\ q \in Both(k) /\ sock[Rx(q, k)].reader
      BY <1>0, <1>8 DEF PibInv
    <3>2. Rx(q, k) \in Socket /\ Rx(q, k)[1] = k /\ k # n
      BY <1>0, <1>2, <3>1, LinkEnds
    <3>3. sock'[Rx(q, k)] = sock[Rx(q, k)] /\ Rx(q, k)' = Rx(q, k)
      BY <1>4, <1>5, <1>9, <3>1, <3>2
    <3> QED BY <3>1, <3>3
  <2> QED BY <2>1, <2>2, <2>3
<1>13. ShakeInv'
  <2>1. \A s \in Socket : Plain(sock'[s].data) /\ (s[1] \notin DOMAIN links' => sock'[s] = Unopened)
    <3> SUFFICES ASSUME NEW s \in Socket
                 PROVE  Plain(sock'[s].data) /\ (s[1] \notin DOMAIN links' => sock'[s] = Unopened)
      OBVIOUS
    <3>1. CASE s = There(n)
      BY <1>2, <1>4, <1>6, <3>1
    <3>2. CASE s # There(n)
      <4>1. \A k \in DOMAIN links : k \in DOMAIN links'
        BY <1>n, <1>2
      <4> QED BY <1>0, <1>5, <3>2, <4>1 DEF ShakeInv
    <3> QED BY <3>1, <3>2
  <2>2. ASSUME NEW k \in DOMAIN links'
        PROVE  /\ Begins(sock'[There(k)'].data, "REGISTER") =>
                    /\ ~ Begins(sock'[Back(k)'].data, "ACK")
                    /\ k \notin pib'[Initiator(k)'].heard \cup pib'[Acceptor(k)'].heard
               /\ Begins(sock'[Back(k)'].data, "ACK") => k \notin pib'[Initiator(k)'].heard
    <3>1. CASE k = n
      <4>1. Initiator(k)' \in Router /\ Acceptor(k)' \in Router
        BY <1>2, <1>10, <3>1 DEF Initiator, Acceptor
      <4>2. Back(k)' = Back(n)
        BY <3>1 DEF Back
      <4> QED BY <1>6, <1>8, <3>1, <4>1, <4>2
    <3>2. CASE k \in DOMAIN links
      <4>1. /\ There(k) \in Socket /\ Back(k) \in Socket /\ Initiator(k) \in Router /\ Acceptor(k) \in Router
            /\ There(k)[1] = k /\ Back(k)[1] = k /\ k # n
        BY <1>0, <1>2, <3>2, LinkEnds DEF Both, There, Back
      <4>2. sock'[There(k)] = sock[There(k)] /\ sock'[Back(k)] = sock[Back(k)]
        BY <1>4, <1>5, <4>1
      <4> QED BY <1>0, <1>8, <1>9, <3>2, <4>1, <4>2 DEF ShakeInv
    <3> QED BY <1>3, <3>1, <3>2
  <2> QED BY <2>1, <2>2 DEF ShakeInv
<1>14. ASSUME NEW k \in DOMAIN links', NEW q \in Both(k)' PROVE Serves(q, k)'
  <2>1. CASE k = n
    <3>1. q \in Router
      <4>1. Both(k)' = {links'[k], Remote[links'[k]]}
        BY DEF Both, Initiator, Acceptor
      <4> QED BY <1>2, <1>10, <2>1, <4>1
    <3> QED BY <1>8, <2>1, <3>1 DEF Serves
  <2>2. CASE k \in DOMAIN links
    <3>1. q \in Both(k) /\ Serves(q, k)
      BY <1>9, <2>2 DEF RemoteInv
    <3>2. Tx(q, k) \in Socket /\ Tx(q, k)[1] = k /\ k # n /\ q \in Router
      BY <1>0, <1>2, <2>2, <3>1, LinkEnds
    <3>3. sock'[Tx(q, k)] = sock[Tx(q, k)] /\ pib'[q].heard = pib[q].heard /\ consumers' = consumers
      BY <1>1, <1>4, <1>5, <1>8, <3>2
    <3> QED BY <1>1, <1>9, <2>2, <3>1, <3>3 DEF Serves
  <2> QED BY <1>3, <2>1, <2>2
<1> QED BY <1>1, <1>11, <1>12, <1>13, <1>14 DEF RemoteInv

-----------------------------------------------------------------------------
(* Steps that concern the timer and its router only. *)
LEMMA TimerSteps ==
  ASSUME RemoteInv, UNCHANGED <<links, sock, pib, consumers, missed>>, running' \subseteq Router
  PROVE  RemoteInv'
<1>1. \A k : /\ Initiator(k)' = Initiator(k) /\ Acceptor(k)' = Acceptor(k) /\ Both(k)' = Both(k)
             /\ There(k)' = There(k) /\ Back(k)' = Back(k)
             /\ \A q : Rx(q, k)' = Rx(q, k) /\ Tx(q, k)' = Tx(q, k) /\ OtherEnd(q, k)' = OtherEnd(q, k)
  BY DEF Initiator, Acceptor, Both, There, Back, Rx, Tx, OtherEnd
<1>2. RemoteTypes' /\ PibInv'
  BY <1>1 DEF RemoteInv, RemoteTypes, PibInv
<1>3. ShakeInv'
  BY <1>1 DEF RemoteInv, ShakeInv
<1>4. \A n \in DOMAIN links' : \A q \in Both(n)' : Serves(q, n)'
  BY <1>1 DEF RemoteInv, Serves
<1> QED BY <1>2, <1>3, <1>4 DEF RemoteInv

LEMMA RemoteStart == RemoteInit => RemoteInv
<1> SUFFICES ASSUME RemoteInit PROVE RemoteInv
  OBVIOUS
<1>1. /\ links = <<>> /\ sock = [s \in Socket |-> Unopened]
      /\ pib = [r \in Router |-> [known |-> {}, heard |-> {}]] /\ consumers = [r \in Router |-> {}]
      /\ running \subseteq Router /\ DOMAIN missed = Router
  BY RemoteAssumption DEF RemoteInit
<1>2. Unopened \in Wire /\ Plain(Unopened.data) /\ Unopened.data = <<>>
  <2>1. <<>> \in Seq(Message) /\ Plain(<<>>)
    BY DEF Plain
  <2> QED BY <2>1 DEF Unopened, Wire
<1>3. links \in Seq(Router) /\ Len(links) = 0 /\ DOMAIN links = {}
  BY <1>1
<1>4. RemoteTypes
  BY <1>1, <1>2, <1>3, RemoteAssumption DEF RemoteTypes
<1>5. PibInv
  BY <1>1 DEF PibInv
<1>6. ShakeInv
  BY <1>1, <1>2, <1>3 DEF ShakeInv
<1> QED BY <1>1, <1>3, <1>4, <1>5, <1>6 DEF RemoteInv

LEMMA RouterSteps == RemoteInv /\ [RemoteNext]_remoteVars => RemoteInv'
<1> SUFFICES ASSUME RemoteInv, [RemoteNext]_remoteVars PROVE RemoteInv'
  OBVIOUS
<1>0. running \subseteq Router
  BY DEF RemoteInv, RemoteTypes
<1>1. CASE UNCHANGED remoteVars
  BY <1>0, <1>1, TimerSteps DEF remoteVars
<1>2. CASE \E r \in Router : ConnectFails(r) \/ SendsFail(r) \/ SendsWork(r) \/ Restart(r)
  <2>1. UNCHANGED <<links, sock, pib, consumers, missed>> /\ running' \subseteq Router
    BY <1>0, <1>2 DEF ConnectFails, SendsFail, SendsWork, Restart
  <2> QED BY <2>1, TimerSteps
<1>3. CASE RemoteStep
  <2>1. CASE \E r \in Router : connectTimerHandler(r)
    BY <2>1, ConnectStep
  <2>2. CASE \E r \in Router : \E n \in DOMAIN links : ClientRX(r, n) \/ ClientGone(r, n)
    BY <2>2, Messages, GoneStep
  <2>3. CASE \E n \in DOMAIN links : AcceptRegister(n) \/ AcceptAck(n)
    BY <2>3, RegisterAccepted, AckAccepted
  <2>4. CASE \E n \in DOMAIN links : RegisterFails(n) \/ AckFails(n) \/ AckIsStale(n)
    BY <2>4, RegisterRefused, AckUnheard, RefuseSteps
  <2> QED BY <1>3, <2>1, <2>2, <2>3, <2>4 DEF RemoteStep
<1>4. CASE RemoteFault
  <2>1. CASE \E r \in Router : RouterCrash(r)
    BY <2>1, CrashStep
  <2>2. CASE \E n \in DOMAIN links : RouterAcceptFails(n)
    BY <2>2, RefuseSteps
  <2> QED BY <1>2, <1>4, <2>1, <2>2 DEF RemoteFault
<1>5. CASE \E r \in Router : LocalMessage(r)
  BY <1>5, Messages
<1> QED BY <1>1, <1>3, <1>4, <1>5 DEF RemoteNext

(* A link that both routers hear and that carries no news serves: whatever *)
(* was enabled and disabled at either end or further away, could not be    *)
(* sent, crashed and was started again, a router that has a consumer       *)
(* besides its peer is itself a consumer of the peer, unless SendToRemote  *)
(* failed on this link when it was last to say so (QueueMsgHandler,        *)
(* ServerRXHandler and ClientRXHandler of the daemon).                     *)
THEOREM LinksServe == RemoteSpec => []LinkServes
<1>1. RemoteInv => LinkServes
  <2> SUFFICES ASSUME RemoteInv, NEW n \in DOMAIN links, NEW r \in Both(n),
                      n \in pib[r].heard, n \in pib[OtherEnd(r, n)].heard,
                      \A k \in DOMAIN sock[Tx(r, n)].data :
                        sock[Tx(r, n)].data[k] \notin {"ENABLE", "DISABLE"},
                      consumers[r] \ {n} # {}, n \notin missed[r]
               PROVE  n \in consumers[OtherEnd(r, n)]
    BY DEF LinkServes, UpAt, Both, OtherEnd
  <2>1. RemoteTypes /\ PibInv /\ Serves(r, n)
    BY DEF RemoteInv
  <2>2. OtherEnd(r, n) \in Router /\ Rx(OtherEnd(r, n), n) = Tx(r, n)
    BY <2>1, LinkEnds
  <2>3. sock[Tx(r, n)].reader
    BY <2>1, <2>2 DEF PibInv
  <2>4. ~ Told(sock[Tx(r, n)].data)
    BY DEF Told
  <2> QED BY <2>1, <2>3, <2>4 DEF Serves
<1> QED BY <1>1, RemoteStart, RouterSteps, PTL DEF RemoteSpec

-----------------------------------------------------------------------------
(* Linked routers, messages: the routers that come to a router by way of   *)
(* their remote routers, and no router comes to itself.                    *)
Closed(A) == \A p \in Router : Remote[p] \in A => p \in A
Below(r) == {q \in Router : \A A \in SUBSET Router : r \in A /\ Closed(A) => q \in A}

NoCircle ==
  \E depth \in [Router -> Nat] :
    \A r \in Router : Remote[r] \in Router => depth[Remote[r]] < depth[r]

(* The routers on the far side of a link between i and its remote router,  *)
(* seen in the direction of a socket.                                      *)
FarSide(i, way) == IF way = "there" THEN Router \ Below(i) ELSE Below(i)
Outward(r, i, way) ==
  /\ i \in Router /\ Remote[i] \in Router
  /\ \/ way = "there" /\ i = r
     \/ way = "back" /\ Remote[i] = r
Inward(r, i, way) ==
  /\ i \in Router /\ Remote[i] \in Router
  /\ \/ way = "there" /\ Remote[i] = r
     \/ way = "back" /\ i = r

(* What is below a router. *)
LEMMA BelowIs ==
  ASSUME NEW r \in Router
  PROVE  /\ r \in Below(r) /\ Below(r) \subseteq Router
         /\ \A p \in Router : Remote[p] \in Below(r) => p \in Below(r)
         /\ \A A \in SUBSET Router : r \in A /\ Closed(A) => Below(r) \subseteq A
         /\ \A q \in Below(r) : q # r => Remote[q] \in Below(r)
<1>1. r \in Below(r) /\ Below(r) \subseteq Router
  BY DEF Below
<1>2. \A A \in SUBSET Router : r \in A /\ Closed(A) => Below(r) \subseteq A
  BY DEF Below
<1>3. ASSUME NEW p \in Router, Remote[p] \in Below(r) PROVE p \in Below(r)
  <2>1. SUFFICES ASSUME NEW A \in SUBSET Router, r \in A, Closed(A) PROVE p \in A
    BY DEF Below
  <2>2. Remote[p] \in A
    BY <1>2, <1>3, <2>1
  <2> QED BY <2>1, <2>2 DEF Closed
<1>4. \A q \in Below(r) : q # r => Remote[q] \in Below(r)
  <2> DEFINE A == {q \in Below(r) : q = r \/ Remote[q] \in Below(r)}
  <2>1. A \in SUBSET Router /\ r \in A
    BY <1>1
  <2>2. Closed(A)
    <3> SUFFICES ASSUME NEW p \in Router, Remote[p] \in A PROVE p \in A
      BY DEF Closed
    <3>1. Remote[p] \in Below(r)
      OBVIOUS
    <3> QED BY <3>1, <1>3
  <2>3. Below(r) \subseteq A
    <3> HIDE DEF A
    <3> QED BY <2>1, <2>2, <1>2
  <2> QED BY <2>3
<1> QED BY <1>1, <1>2, <1>3, <1>4

(* Without a circle, what is below a router is not above it, and what is   *)
(* below two that have the same remote router is nothing.                  *)
LEMMA BelowApart ==
  ASSUME NoCircle, NEW r \in Router, Remote[r] \in Router
  PROVE  /\ Below(r) \subseteq Below(Remote[r]) /\ Remote[r] \notin Below(r)
         /\ \A c \in Router : c # r /\ Remote[c] = Remote[r] => Below(c) \cap Below(r) = {}
<1>1. PICK depth \in [Router -> Nat] :
        \A q \in Router : Remote[q] \in Router => depth[Remote[q]] < depth[q]
  BY DEF NoCircle
<1>2. ASSUME NEW c \in Router PROVE \A q \in Below(c) : depth[q] >= depth[c]
  <2> DEFINE A == {q \in Router : depth[q] >= depth[c]}
  <2>1. A \in SUBSET Router /\ c \in A
    BY <1>1
  <2>2. Closed(A)
    <3> SUFFICES ASSUME NEW p \in Router, Remote[p] \in A PROVE p \in A
      BY DEF Closed
    <3>1. Remote[p] \in Router /\ depth[Remote[p]] >= depth[c] /\ depth[Remote[p]] < depth[p]
      BY <1>1
    <3>2. depth[p] \in Nat /\ depth[c] \in Nat /\ depth[Remote[p]] \in Nat
      BY <1>1, <3>1
    <3> QED BY <3>1, <3>2
  <2>3. Below(c) \subseteq A
    <3> HIDE DEF A
    <3> QED BY <2>1, <2>2, BelowIs
  <2> QED BY <2>3
<1>3. Below(r) \subseteq Below(Remote[r])
  <2>1. /\ Below(Remote[r]) \in SUBSET Router /\ r \in Below(Remote[r])
        /\ \A p \in Router : Remote[p] \in Below(Remote[r]) => p \in Below(Remote[r])
    BY BelowIs
  <2>2. Closed(Below(Remote[r]))
    BY <2>1 DEF Closed
  <2> QED BY <2>1, <2>2, BelowIs
<1>4. ASSUME NEW c \in Router, Remote[c] = Remote[r] PROVE Remote[r] \notin Below(c)
  <2>1. depth[Remote[r]] < depth[c] /\ depth[Remote[r]] \in Nat /\ depth[c] \in Nat
    BY <1>1, <1>4
  <2> QED BY <1>2, <2>1
<1>5. ASSUME NEW c \in Router, c # r, Remote[c] = Remote[r], NEW x \in Below(c) \cap Below(r)
      PROVE  FALSE
  <2> DEFINE D == {depth[q] : q \in Below(c) \cap Below(r)}
  <2>1. Below(c) \subseteq Router /\ Below(r) \subseteq Router
    BY BelowIs
  <2>2. D \in SUBSET Nat /\ D # {}
    BY <1>1, <1>5, <2>1
  <2>3. PICK d \in D : \A e \in D : ~ (<<e, d>> \in OpToRel(<, Nat))
    <3> HIDE DEF D
    <3> QED BY <2>2, NatLessThanWellFounded, WFMin
  <2>4. PICK q \in Below(c) \cap Below(r) : d = depth[q]
    BY <2>3
  <2>5. CASE q # c /\ q # r
    <3>1. Remote[q] \in Below(c) /\ Remote[q] \in Below(r)
      BY <2>4, <2>5, BelowIs
    <3>2. depth[Remote[q]] \in D /\ Remote[q] \in Router
      BY <3>1, <2>1
    <3>3. depth[Remote[q]] < depth[q] /\ depth[Remote[q]] \in Nat /\ depth[q] \in Nat
      BY <1>1, <2>1, <2>4, <3>2
    <3>4. <<depth[Remote[q]], d>> \in OpToRel(<, Nat)
      BY <2>4, <3>3 DEF OpToRel
    <3> QED BY <2>3, <3>2, <3>4
  <2>6. CASE q = c
    <3>1. Remote[c] \in Below(r)
      BY <1>5, <2>4, <2>6, BelowIs
    <3> QED BY <3>1, <1>4, <1>5
  <2>7. CASE q = r
    <3>1. Remote[r] \in Below(c)
      BY <1>5, <2>4, <2>7, BelowIs
    <3> QED BY <3>1, <1>4, <1>5
  <2> QED BY <2>5, <2>6, <2>7
<1> QED BY <1>3, <1>4, <1>5

(* A message that comes over one link has seen nothing beyond the others. *)
LEMMA Onward ==
  ASSUME NoCircle, NEW r \in Router, NEW j, NEW v, Outward(r, j, v)
  PROVE  /\ r \notin FarSide(j, v) /\ FarSide(j, v) # {} /\ FarSide(j, v) \subseteq Router
         /\ \A i, w : Outward(r, i, w) /\ i # j => FarSide(i, w) \cap FarSide(j, v) = {}
         /\ \A i, w : Inward(r, i, w) /\ i # j => FarSide(j, v) \subseteq FarSide(i, w)
         /\ \A i, w : Inward(r, i, w) => r \in FarSide(i, w)
<1>1. j \in Router /\ Remote[j] \in Router
  BY DEF Outward
<1>2. \A c \in Router : c \in Below(c) /\ Below(c) \subseteq Router
  BY BelowIs
<1>8. \A c \in Router : Remote[c] \in Router =>
        Below(c) \subseteq Below(Remote[c]) /\ Remote[c] \notin Below(c)
  BY BelowApart
<1>3. \A c, d \in Router : c # d /\ Remote[c] = Remote[d] /\ Remote[d] \in Router => Below(c) \cap Below(d) = {}
  BY BelowApart
<1>4. r \notin FarSide(j, v) /\ FarSide(j, v) # {} /\ FarSide(j, v) \subseteq Router
  <2>1. CASE v = "there" /\ j = r
    BY <2>1, <1>1, <1>2, <1>8 DEF FarSide
  <2>2. CASE v = "back" /\ Remote[j] = r
    BY <2>2, <1>1, <1>2, <1>8 DEF FarSide
  <2> QED BY <2>1, <2>2 DEF Outward
<1>5. ASSUME NEW i, NEW w, Outward(r, i, w), i # j PROVE FarSide(i, w) \cap FarSide(j, v) = {}
  <2>1. /\ i \in Router /\ Remote[i] \in Router
        /\ (w = "there" /\ i = r) \/ (w = "back" /\ Remote[i] = r)
    BY <1>5 DEF Outward
  <2>2. (v = "there" /\ j = r) \/ (v = "back" /\ Remote[j] = r)
    BY DEF Outward
  <2>3. CASE w = "there" /\ i = r
    <3>1. v = "back" /\ Remote[j] = r /\ Below(j) \subseteq Below(r)
      BY <1>1, <1>5, <1>8, <2>2, <2>3
    <3> QED BY <2>3, <3>1 DEF FarSide
  <2>4. CASE w = "back" /\ Remote[i] = r
    <3>1. CASE v = "there" /\ j = r
      <4>1. Below(i) \subseteq Below(r)
        BY <1>8, <2>1, <2>4
      <4> QED BY <2>4, <3>1, <4>1 DEF FarSide
    <3>2. CASE v = "back" /\ Remote[j] = r
      <4>1. Below(i) \cap Below(j) = {}
        BY <1>1, <1>3, <1>5, <2>1, <2>4, <3>2
      <4> QED BY <2>4, <3>2, <4>1 DEF FarSide
    <3> QED BY <2>2, <3>1, <3>2
  <2> QED BY <2>1, <2>3, <2>4
<1>6. ASSUME NEW i, NEW w, Inward(r, i, w), i # j PROVE FarSide(j, v) \subseteq FarSide(i, w)
  <2>1. /\ i \in Router /\ Remote[i] \in Router
        /\ (w = "there" /\ Remote[i] = r) \/ (w = "back" /\ i = r)
    BY <1>6 DEF Inward
  <2>2. (v = "there" /\ j = r) \/ (v = "back" /\ Remote[j] = r)
    BY DEF Outward
  <2>3. CASE w = "back" /\ i = r
    <3>1. v = "back" /\ Remote[j] = r /\ Below(j) \subseteq Below(r)
      BY <1>1, <1>6, <1>8, <2>2, <2>3
    <3> QED BY <2>3, <3>1 DEF FarSide
  <2>4. CASE w = "there" /\ Remote[i] = r
    <3>1. CASE v = "there" /\ j = r
      <4>1. Below(i) \subseteq Below(r)
        BY <1>8, <2>1, <2>4
      <4> QED BY <2>4, <3>1, <4>1 DEF FarSide
    <3>2. CASE v = "back" /\ Remote[j] = r
      <4>1. Below(i) \cap Below(j) = {} /\ Below(j) \subseteq Router
        BY <1>1, <1>2, <1>3, <1>6, <2>1, <2>4, <3>2
      <4> QED BY <2>4, <3>2, <4>1 DEF FarSide
    <3> QED BY <2>2, <3>1, <3>2
  <2> QED BY <2>1, <2>3, <2>4
<1>7. ASSUME NEW i, NEW w, Inward(r, i, w) PROVE r \in FarSide(i, w)
  <2>1. /\ i \in Router /\ Remote[i] \in Router
        /\ (w = "there" /\ Remote[i] = r) \/ (w = "back" /\ i = r)
    BY <1>7 DEF Inward
  <2>2. CASE w = "there" /\ Remote[i] = r
    BY <2>1, <2>2, <1>8 DEF FarSide
  <2>3. CASE w = "back" /\ i = r
    BY <2>1, <2>3, <1>2 DEF FarSide
  <2> QED BY <2>1, <2>2, <2>3
<1> QED BY <1>4, <1>5, <1>6, <1>7

-----------------------------------------------------------------------------
(* Where the message is on its way, and who is on its way.  While no       *)
(* router dies nothing on a link is cut, and a link ends only when the     *)
(* acceptor has refused it behind the ACK: nobody hears it there.  A       *)
(* router connects again only when the links it had are over.              *)
NoneOf(data, m) == \A k \in DOMAIN data : data[k] # m
AtMostOne(data) == \A j, k \in DOMAIN data : data[j] = "DATA" /\ data[k] = "DATA" => j = k
Carries(s) == ~ NoneOf(sock[s].data, "DATA")
Away(s) == FarSide(links[s[1]], s[2])
Dead(n) == ~ sock[There(n)].reader /\ ~ sock[Back(n)].writer
Over(n) == Dead(n) /\ n \notin pib[links[n]].known
Sound(s) == (sock[s].reader => sock[s].writer \/ Dead(s[1])) /\ NoneOf(sock[s].data, "cut")

Calm == budget.crashes = 0 /\ budget.data \in {0, 1}

CalmBudget == Calm /\ {"crashes", "data"} \subseteq DOMAIN budget
ConnectsOnce ==
  /\ timer \in [Router -> BOOLEAN]
  /\ \A n \in DOMAIN links : links[n] \in running /\ (timer[links[n]] => Over(n))
  /\ \A k, n \in DOMAIN links : links[k] = links[n] /\ ~ Over(k) /\ ~ Over(n) => k = n
CalmInv == CalmBudget /\ ConnectsOnce /\ \A s \in Socket : Sound(s)

(* No router that the message has reached is on the far side of a link it  *)
(* is on, nor on that of two of them.                                      *)
TokenInv ==
  /\ delivered \in [Router -> {0, 1}]
  /\ budget.data = 1 => /\ \A r \in Router : delivered[r] = 0
                        /\ \A s \in Socket : ~ Carries(s)
  /\ \A s \in Socket : AtMostOne(sock[s].data)
  /\ \A s \in Socket : Carries(s) => \A q \in Away(s) : delivered[q] = 0
  /\ \A s, t \in Socket : Carries(s) /\ Carries(t) /\ s # t => Away(s) \cap Away(t) = {}

(* Contents of a socket that are read, or to which one message is added. *)
LEMMA LessToRead ==
  ASSUME NEW d \in Seq(Message), d # <<>>
  PROVE  /\ \A m : NoneOf(d, m) => NoneOf(Tail(d), m)
         /\ AtMostOne(d) => AtMostOne(Tail(d))
         /\ AtMostOne(d) /\ Head(d) = "DATA" => NoneOf(Tail(d), "DATA")
<1>1. Len(d) \in Nat /\ DOMAIN d = 1 .. Len(d) /\ Len(d) > 0
  BY LenProperties, EmptySeq
<1>2. /\ Tail(d) \in Seq(Message) /\ Len(Tail(d)) = Len(d) - 1
      /\ \A k \in 1 .. Len(Tail(d)) : Tail(d)[k] = d[k + 1]
  BY HeadTailProperties
<1>3. DOMAIN Tail(d) = 1 .. Len(d) - 1
  BY <1>2, LenProperties
<1>4. \A k \in DOMAIN Tail(d) : k + 1 \in DOMAIN d /\ Tail(d)[k] = d[k + 1] /\ k \in Nat /\ k + 1 # 1
  BY <1>1, <1>2, <1>3
<1>5. 1 \in DOMAIN d /\ Head(d) = d[1]
  BY <1>1
<1>6. \A m : NoneOf(d, m) => NoneOf(Tail(d), m)
  BY <1>4 DEF NoneOf
<1>7. AtMostOne(d) => AtMostOne(Tail(d))
  BY <1>4 DEF AtMostOne
<1>8. AtMostOne(d) /\ Head(d) = "DATA" => NoneOf(Tail(d), "DATA")
  BY <1>4, <1>5 DEF AtMostOne, NoneOf
<1> QED BY <1>6, <1>7, <1>8

LEMMA MoreToRead ==
  ASSUME NEW d \in Seq(Message), NEW x \in Message
  PROVE  /\ \A m : m # x /\ NoneOf(d, m) => NoneOf(d \o <<x>>, m)
         /\ x # "DATA" /\ AtMostOne(d) => AtMostOne(d \o <<x>>)
         /\ NoneOf(d, "DATA") => AtMostOne(d \o <<x>>)
<1> DEFINE u == <<x>>
           e == d \o u
<1>1. u \in Seq(Message) /\ Len(u) = 1 /\ u[1] = x
  OBVIOUS
<1> HIDE DEF u
<1>2. Len(d) \in Nat /\ DOMAIN d = 1 .. Len(d)
  BY LenProperties
<1>3. /\ e \in Seq(Message) /\ Len(e) = Len(d) + Len(u)
      /\ \A k \in 1 .. Len(d) + Len(u) : e[k] = IF k <= Len(d) THEN d[k] ELSE u[k - Len(d)]
  BY <1>1, ConcatProperties
<1>4. DOMAIN e = 1 .. Len(d) + 1
  BY <1>1, <1>3, LenProperties
<1>5. \A k \in DOMAIN e : (k \in DOMAIN d /\ e[k] = d[k]) \/ (k = Len(d) + 1 /\ k \notin DOMAIN d /\ e[k] = x)
  BY <1>1, <1>2, <1>3, <1>4
<1> HIDE DEF e
<1>6. \A m : m # x /\ NoneOf(d, m) => NoneOf(e, m)
  BY <1>5 DEF NoneOf
<1>7. x # "DATA" /\ AtMostOne(d) => AtMostOne(e)
  BY <1>5 DEF AtMostOne
<1>8. NoneOf(d, "DATA") => AtMostOne(e)
  BY <1>5 DEF NoneOf, AtMostOne
<1> QED BY <1>6, <1>7, <1>8 DEF e, u

(* A step that does not handle the message. *)
Less(d, e) ==
  \/ e = d
  \/ e = <<>>
  \/ d # <<>> /\ e = Tail(d)
  \/ \E x \in {"ENABLE", "DISABLE"} : e = d \o <<x>>
Mild(s) ==
  /\ \/ Less(sock[s].data, sock'[s].data)
     \/ NoneOf(sock'[s].data, "DATA") /\ NoneOf(sock'[s].data, "cut")
  /\ sock'[s].reader /\ ~ sock'[s].writer => (sock[s].reader /\ ~ sock[s].writer) \/ Dead(s[1])'
Fades(n) ==
  /\ links'[n] = links[n]
  /\ sock'[There(n)].reader => sock[There(n)].reader
  /\ sock'[Back(n)].writer => sock[Back(n)].writer \/ sock[There(n)].reader
  /\ n \in pib'[links[n]].known => n \in pib[links[n]].known
MildStep ==
  /\ UNCHANGED delivered /\ budget'.data = budget.data
  /\ \A n \in DOMAIN links : Fades(n)
  /\ \A s \in Socket : Mild(s)

(* A link that is dead or over remains so. *)
LEMMA OverStays ==
  ASSUME NEW n, Fades(n)
  PROVE  (Dead(n) => Dead(n)') /\ (Over(n) => Over(n)')
<1>1. There(n)' = There(n) /\ Back(n)' = Back(n)
  BY DEF There, Back
<1> QED BY <1>1 DEF Dead, Over, Fades

LEMMA MildSocket ==
  ASSUME RemoteInv, NEW s \in Socket, MildStep
  PROVE  /\ Sound(s) => Sound(s)'
         /\ ~ Carries(s) => ~ Carries(s)'
         /\ AtMostOne(sock[s].data) => AtMostOne(sock'[s].data)
<1>0. RemoteTypes /\ ShakeInv /\ Mild(s)
  BY DEF RemoteInv, MildStep
<1>1. sock[s].data \in Seq(Message) /\ sock[s].reader \in BOOLEAN
  BY <1>0 DEF RemoteTypes, Wire
<1>4. Sound(s) /\ sock'[s].reader => sock'[s].writer \/ Dead(s[1])'
  <2> SUFFICES ASSUME Sound(s), sock[s].reader, ~ sock[s].writer PROVE Dead(s[1])'
    BY <1>0 DEF Mild
  <2>1. s[1] \in DOMAIN links
    BY <1>0 DEF ShakeInv, Unopened
  <2> QED BY <2>1, OverStays DEF Sound, MildStep
<1>5. s[1]' = s[1]
  OBVIOUS
<1>2. CASE Less(sock[s].data, sock'[s].data)
  <2>1. \A m \in {"DATA", "cut"} : NoneOf(sock[s].data, m) => NoneOf(sock'[s].data, m)
    <3>1. CASE sock'[s].data = sock[s].data
      BY <3>1
    <3>2. CASE sock'[s].data = <<>>
      BY <3>2 DEF NoneOf
    <3>3. CASE sock[s].data # <<>> /\ sock'[s].data = Tail(sock[s].data)
      BY <1>1, <3>3, LessToRead
    <3>4. CASE \E x \in {"ENABLE", "DISABLE"} : sock'[s].data = sock[s].data \o <<x>>
      <4>1. PICK x \in {"ENABLE", "DISABLE"} : sock'[s].data = sock[s].data \o <<x>>
        BY <3>4
      <4>2. x \in Message /\ \A m \in {"DATA", "cut"} : m # x
        BY DEF Message
      <4> QED BY <1>1, <4>1, <4>2, MoreToRead
    <3> QED BY <1>2, <3>1, <3>2, <3>3, <3>4 DEF Less
  <2>2. AtMostOne(sock[s].data) => AtMostOne(sock'[s].data)
    <3>1. CASE sock'[s].data = sock[s].data
      BY <3>1
    <3>2. CASE sock'[s].data = <<>>
      BY <3>2 DEF AtMostOne
    <3>3. CASE sock[s].data # <<>> /\ sock'[s].data = Tail(sock[s].data)
      BY <1>1, <3>3, LessToRead
    <3>4. CASE \E x \in {"ENABLE", "DISABLE"} : sock'[s].data = sock[s].data \o <<x>>
      <4>1. PICK x \in {"ENABLE", "DISABLE"} : sock'[s].data = sock[s].data \o <<x>>
        BY <3>4
      <4>2. x \in Message /\ x # "DATA"
        BY DEF Message
      <4> QED BY <1>1, <4>1, <4>2, MoreToRead
    <3> QED BY <1>2, <3>1, <3>2, <3>3, <3>4 DEF Less
  <2>3. Sound(s) => Sound(s)'
    BY <1>4, <2>1 DEF Sound
  <2>4. ~ Carries(s) => ~ Carries(s)'
    BY <2>1 DEF Carries
  <2> QED BY <2>2, <2>3, <2>4
<1>3. CASE NoneOf(sock'[s].data, "DATA") /\ NoneOf(sock'[s].data, "cut")
  <2>1. AtMostOne(sock'[s].data)
    BY <1>3 DEF NoneOf, AtMostOne
  <2>2. (Sound(s) => Sound(s)') /\ ~ Carries(s)'
    BY <1>3, <1>4 DEF Sound, Carries
  <2> QED BY <2>1, <2>2
<1> QED BY <1>0, <1>2, <1>3 DEF Mild

LEMMA TokenStays ==
  ASSUME RemoteInv, TokenInv, MildStep
  PROVE  TokenInv'
<1>0. RemoteTypes /\ ShakeInv
  BY DEF RemoteInv
<1>1. ASSUME NEW s \in Socket
      PROVE  /\ Carries(s)' => Carries(s) /\ Away(s)' = Away(s)
             /\ AtMostOne(sock'[s].data)
  <2>2. (Carries(s)' => Carries(s)) /\ AtMostOne(sock'[s].data)
    BY MildSocket DEF TokenInv
  <2>3. Carries(s) => s[1] \in DOMAIN links
    <3>1. ASSUME s[1] \notin DOMAIN links PROVE ~ Carries(s)
      <4>1. sock[s].data = <<>>
        BY <1>0, <3>1 DEF ShakeInv, Unopened
      <4> QED BY <4>1 DEF Carries, NoneOf
    <3> QED BY <3>1
  <2>4. s[1] \in DOMAIN links => Away(s)' = Away(s)
    BY DEF MildStep, Fades, Away, FarSide
  <2> QED BY <2>2, <2>3, <2>4
<1>2. UNCHANGED delivered /\ budget'.data = budget.data
  BY DEF MildStep
<1>3. /\ delivered' \in [Router -> {0, 1}]
      /\ budget'.data = 1 => /\ \A r \in Router : delivered'[r] = 0
                             /\ \A s \in Socket : ~ Carries(s)'
      /\ \A s \in Socket : AtMostOne(sock'[s].data)
  BY <1>1, <1>2 DEF TokenInv
<1>4. \A s \in Socket : Carries(s)' => \A q \in Away(s)' : delivered'[q] = 0
  BY <1>1, <1>2 DEF TokenInv
<1>5. \A s, t \in Socket : Carries(s)' /\ Carries(t)' /\ s # t => Away(s)' \cap Away(t)' = {}
  BY <1>1 DEF TokenInv
<1> QED BY <1>3, <1>4, <1>5 DEF TokenInv

-----------------------------------------------------------------------------
(* The links of a router that runs, as ways out of it and into it. *)
LEMMA Ways ==
  ASSUME RemoteTypes, PibInv, NEW r \in Router, NEW n \in pib[r].known
  PROVE  /\ n \in DOMAIN links /\ Tx(r, n) \in Socket /\ Rx(r, n) \in Socket
         /\ Tx(r, n)[1] = n /\ Rx(r, n)[1] = n
         /\ Outward(r, links[n], Tx(r, n)[2]) /\ Inward(r, links[n], Rx(r, n)[2])
<1>1. n \in DOMAIN links /\ r \in Both(n)
  BY DEF PibInv
<1>2. /\ Tx(r, n) \in Socket /\ Rx(r, n) \in Socket /\ Tx(r, n)[1] = n /\ Rx(r, n)[1] = n
      /\ Initiator(n) \in Router /\ Acceptor(n) \in Router /\ Acceptor(n) # Initiator(n)
  BY <1>1, LinkEnds
<1>3. CASE r = links[n]
  <2>1. Tx(r, n) = <<n, "there">> /\ Rx(r, n) = <<n, "back">>
    BY <1>3 DEF Tx, Rx, Initiator
  <2>2. Tx(r, n)[2] = "there" /\ Rx(r, n)[2] = "back"
    BY <2>1
  <2>3. links[n] \in Router /\ Remote[links[n]] \in Router
    BY <1>2 DEF Initiator, Acceptor
  <2>4. Outward(r, links[n], "there") /\ Inward(r, links[n], "back")
    BY <1>3, <2>3 DEF Outward, Inward
  <2> QED BY <1>1, <1>2, <2>2, <2>4
<1>4. CASE r = Remote[links[n]]
  <2>1. Tx(r, n) = <<n, "back">> /\ Rx(r, n) = <<n, "there">>
    BY <1>2, <1>4 DEF Tx, Rx, Initiator, Acceptor
  <2>2. Tx(r, n)[2] = "back" /\ Rx(r, n)[2] = "there"
    BY <2>1
  <2>3. links[n] \in Router /\ Remote[links[n]] \in Router
    BY <1>2 DEF Initiator, Acceptor
  <2>4. Outward(r, links[n], "back") /\ Inward(r, links[n], "there")
    BY <1>4, <2>3 DEF Outward, Inward
  <2> QED BY <1>1, <1>2, <2>2, <2>4
<1>5. r = links[n] \/ r = Remote[links[n]]
  BY <1>1 DEF Both, Initiator, Acceptor
<1> QED BY <1>1, <1>2, <1>3, <1>4, <1>5

(* A router handles the message: its own, or one that a link brought. *)
Passes(r, from, socks) ==
  /\ Reads(r, from, "DATA", socks) /\ Route(r, from, socks)
  /\ UNCHANGED <<running, links, pib, timer>>
  /\ \/ from = Local /\ budget.data = 1 /\ budget' = [budget EXCEPT !["data"] = @ - 1]
     \/ from \in pib[r].heard /\ UNCHANGED budget

(* What the message has not reached yet: it comes to the router and from   *)
(* there to its other links.                                               *)
LEMMA Fresh ==
  ASSUME NoCircle, RemoteInv, CalmInv, TokenInv, NEW r \in Router, NEW from \in Nat,
         \/ from = Local /\ budget.data = 1
         \/ from \in pib[r].heard /\ Begins(sock[Rx(r, from)].data, "DATA")
  PROVE  /\ delivered[r] = 0 /\ budget.data \in {0, 1} /\ (from # Local => budget.data = 0)
         /\ \A n \in pib[r].heard \ {from} :
              ~ Carries(Tx(r, n)) /\ r \notin Away(Tx(r, n)) /\ \A q \in Away(Tx(r, n)) : delivered[q] = 0
         /\ \A k, n \in pib[r].heard : k # n => Away(Tx(r, k)) \cap Away(Tx(r, n)) = {}
         /\ \A n \in pib[r].heard \ {from} : \A t \in Socket :
              Carries(t) /\ (t # Rx(r, from) \/ from = Local) => Away(Tx(r, n)) \cap Away(t) = {}
         /\ \A t \in Socket : Carries(t) /\ (t # Rx(r, from) \/ from = Local) => r \notin Away(t)
<1>0. RemoteTypes /\ PibInv
  BY DEF RemoteInv
<1>6. pib[r].heard \subseteq pib[r].known
  BY <1>0 DEF PibInv
<1>7. ASSUME NEW n \in pib[r].heard PROVE n \in DOMAIN links /\ ~ Over(n)
  <2>1. n \in DOMAIN links /\ r \in Both(n) /\ n \in pib[r].known /\ sock[Rx(r, n)].reader
    BY <1>0, <1>6 DEF PibInv
  <2>2. CASE r = Initiator(n)
    BY <2>1, <2>2 DEF Over, Initiator
  <2>3. CASE r = Acceptor(n)
    <3>1. Rx(r, n) = There(n)
      BY <1>0, <2>1, <2>3, LinkEnds
    <3> QED BY <2>1, <3>1 DEF Over, Dead
  <2> QED BY <2>1, <2>2, <2>3 DEF Both
<1>1. \A k, n \in pib[r].heard : links[k] = links[n] => k = n
  BY <1>7 DEF CalmInv, ConnectsOnce
<1>2. ASSUME NEW n \in pib[r].heard
      PROVE  /\ n \in DOMAIN links /\ Tx(r, n) \in Socket /\ Outward(r, links[n], Tx(r, n)[2])
             /\ Away(Tx(r, n)) = FarSide(links[n], Tx(r, n)[2])
             /\ r \notin Away(Tx(r, n)) /\ Away(Tx(r, n)) # {} /\ Away(Tx(r, n)) \subseteq Router
  <2>1. /\ n \in DOMAIN links /\ Tx(r, n) \in Socket /\ Outward(r, links[n], Tx(r, n)[2]) /\ Tx(r, n)[1] = n
    BY <1>0, <1>6, Ways
  <2>2. Away(Tx(r, n)) = FarSide(links[n], Tx(r, n)[2])
    BY <2>1 DEF Away
  <2> QED BY <2>1, <2>2, Onward
<1>3. ASSUME NEW k \in pib[r].heard, NEW n \in pib[r].heard, k # n
      PROVE  Away(Tx(r, k)) \cap Away(Tx(r, n)) = {}
  <2>1. links[k] # links[n]
    BY <1>1, <1>3
  <2> QED BY <1>2, <2>1, Onward
<1>4. CASE from = Local /\ budget.data = 1
  <2>1. (\A q \in Router : delivered[q] = 0) /\ (\A s \in Socket : ~ Carries(s))
    BY <1>4 DEF TokenInv
  <2> QED BY <1>2, <1>3, <1>4, <2>1
<1>5. CASE from \in pib[r].heard /\ Begins(sock[Rx(r, from)].data, "DATA")
  <2> DEFINE z == Rx(r, from)
  <2>1. from \in pib[r].heard
    BY <1>5
  <2>2. /\ from \in DOMAIN links /\ z \in Socket /\ z[1] = from /\ Inward(r, links[from], z[2])
        /\ from # Local
    <3>1. from \in DOMAIN links /\ r \in Both(from)
      BY <1>0, <1>6, <2>1 DEF PibInv
    <3> QED BY <1>0, <1>6, <2>1, <3>1, Ways, LinkEnds
  <2>3. Carries(z)
    <3>1. sock[z].data \in Seq(Message) /\ sock[z].data # <<>> /\ Head(sock[z].data) = "DATA"
      BY <1>0, <1>5, <2>2 DEF Begins, RemoteTypes, Wire
    <3>2. 1 \in DOMAIN sock[z].data /\ sock[z].data[1] = "DATA"
      BY <3>1, LenProperties, EmptySeq
    <3> QED BY <3>2 DEF Carries, NoneOf
  <2>4. Away(z) = FarSide(links[from], z[2])
    BY <2>2 DEF Away
  <2> HIDE DEF z
  <2>5. ASSUME NEW n \in pib[r].heard \ {from}
        PROVE  Away(Tx(r, n)) \subseteq Away(z)
    <3>1. links[n] # links[from]
      BY <1>1, <2>1
    <3> QED BY <1>2, <2>2, <2>4, <3>1, Onward
  <2>6. r \in Away(z)
    <3>1. links[from] \in Router /\ Remote[links[from]] \in Router
      BY <2>2 DEF Inward
    <3>2. Outward(r, links[from], IF z[2] = "there" THEN "back" ELSE "there")
      BY <2>2 DEF Outward, Inward
    <3> QED BY <2>2, <2>4, <3>2, Onward
  <2>7. /\ \A q \in Away(z) : delivered[q] = 0
        /\ \A t \in Socket : Carries(t) /\ t # z => Away(t) \cap Away(z) = {}
        /\ budget.data # 1
    BY <2>2, <2>3 DEF TokenInv
  <2>8. budget.data = 0
    BY <2>7 DEF CalmInv, CalmBudget, Calm
  <2>9. ASSUME NEW n \in pib[r].heard \ {from} PROVE ~ Carries(Tx(r, n))
    <3>1. Tx(r, n) # z
      BY <1>2, <2>6
    <3>2. Away(Tx(r, n)) # {} /\ Away(Tx(r, n)) \subseteq Away(z)
      BY <1>2, <2>5
    <3> QED BY <1>2, <2>7, <3>1, <3>2
  <2>10. delivered[r] = 0
    BY <2>6, <2>7
  <2>11. \A n \in pib[r].heard \ {from} :
           ~ Carries(Tx(r, n)) /\ r \notin Away(Tx(r, n)) /\ \A q \in Away(Tx(r, n)) : delivered[q] = 0
    BY <1>2, <2>5, <2>7, <2>9
  <2>12. \A n \in pib[r].heard \ {from} : \A t \in Socket :
           Carries(t) /\ t # z => Away(Tx(r, n)) \cap Away(t) = {}
    BY <2>5, <2>7
  <2>13. \A t \in Socket : Carries(t) /\ t # z => r \notin Away(t)
    BY <2>6, <2>7
  <2> QED BY <1>3, <2>2, <2>8, <2>10, <2>11, <2>12, <2>13 DEF z
<1> QED BY <1>4, <1>5

(* Route: it is read, and goes out on links that it has not come by. *)
LEMMA Passed ==
  ASSUME NoCircle, RemoteInv, CalmInv, TokenInv, NEW r \in Router, NEW from \in Nat, NEW socks,
         Passes(r, from, socks)
  PROVE  /\ TokenInv' /\ \A s \in Socket : Sound(s)'
         /\ \A s \in Socket : sock'[s].reader = sock[s].reader /\ sock'[s].writer = sock[s].writer
<1> DEFINE N == (consumers[r] \ {Local, from}) \ mute[r]
<1>0. RemoteTypes /\ PibInv
  BY DEF RemoteInv
<1>1. /\ N \in SUBSET (pib[r].known \ {from}) /\ N \in SUBSET (pib[r].heard \ {from})
      /\ Reads(r, from, "DATA", socks) /\ sock' = Write(socks, TxOf(r, N), <<"DATA">>)
  BY <1>0 DEF Passes, Route, PibInv, Reached
<1>2. /\ UNCHANGED links
      /\ delivered' = [delivered EXCEPT ![r] = IF Local \in consumers[r] THEN @ + 1 ELSE @]
      /\ \/ from = Local /\ budget.data = 1 /\ budget' = [budget EXCEPT !["data"] = @ - 1]
         \/ from \in pib[r].heard /\ UNCHANGED budget
  BY DEF Passes, Route
<1>3. \/ from = Local /\ budget.data = 1
      \/ from \in pib[r].heard /\ Begins(sock[Rx(r, from)].data, "DATA")
  <2>1. from \in pib[r].heard => from # Local
    <3>1. from \in pib[r].heard => from \in DOMAIN links /\ r \in Both(from)
      BY <1>0 DEF PibInv
    <3> QED BY <1>0, <3>1, LinkEnds
  <2> QED BY <1>1, <1>2, <2>1 DEF Reads
<1> HIDE DEF N
<1>4. /\ delivered[r] = 0 /\ budget.data \in {0, 1} /\ (from # Local => budget.data = 0)
      /\ \A n \in N :
           ~ Carries(Tx(r, n)) /\ r \notin Away(Tx(r, n)) /\ \A q \in Away(Tx(r, n)) : delivered[q] = 0
      /\ \A k, n \in N : k # n => Away(Tx(r, k)) \cap Away(Tx(r, n)) = {}
      /\ \A n \in N : \A t \in Socket :
           Carries(t) /\ (t # Rx(r, from) \/ from = Local) => Away(Tx(r, n)) \cap Away(t) = {}
      /\ \A t \in Socket : Carries(t) /\ (t # Rx(r, from) \/ from = Local) => r \notin Away(t)
  <2>1. /\ delivered[r] = 0 /\ budget.data \in {0, 1} /\ (from # Local => budget.data = 0)
        /\ \A n \in pib[r].heard \ {from} :
             ~ Carries(Tx(r, n)) /\ r \notin Away(Tx(r, n)) /\ \A q \in Away(Tx(r, n)) : delivered[q] = 0
        /\ \A k, n \in pib[r].heard : k # n => Away(Tx(r, k)) \cap Away(Tx(r, n)) = {}
        /\ \A n \in pib[r].heard \ {from} : \A t \in Socket :
             Carries(t) /\ (t # Rx(r, from) \/ from = Local) => Away(Tx(r, n)) \cap Away(t) = {}
        /\ \A t \in Socket : Carries(t) /\ (t # Rx(r, from) \/ from = Local) => r \notin Away(t)
    BY <1>3, Fresh
  <2> QED BY <1>1, <2>1
<1>5. \A s \in Socket : Unread(s, r, from, "DATA") \/ Tells(s, r, N, "DATA") \/ Leaves(s, r, from, N)
  BY <1>1, Exchange
<1>6. \A s \in Socket : Away(s)' = Away(s)
  BY <1>2 DEF Away, FarSide
<1>7. /\ delivered' \in [Router -> {0, 1}] /\ budget'.data = 0
      /\ \A q \in Router : q # r => delivered'[q] = delivered[q]
  <2>1. delivered' \in [Router -> {0, 1}] /\ \A q \in Router : q # r => delivered'[q] = delivered[q]
    BY <1>2, <1>4 DEF TokenInv
  <2>2. budget'.data = 0
    <3>1. CASE from = Local /\ budget.data = 1 /\ budget' = [budget EXCEPT !["data"] = @ - 1]
      BY <3>1 DEF CalmInv, CalmBudget
    <3>2. CASE from \in pib[r].heard /\ UNCHANGED budget
      <4>1. from \in DOMAIN links /\ r \in Both(from)
        BY <1>0, <3>2 DEF PibInv
      <4>2. from # Local
        BY <1>0, <4>1, LinkEnds
      <4> QED BY <1>4, <3>2, <4>2
    <3> QED BY <1>2, <3>1, <3>2
  <2> QED BY <2>1, <2>2
<1>12. ASSUME NEW s \in Socket
       PROVE  sock'[s].reader = sock[s].reader /\ sock'[s].writer = sock[s].writer
  BY <1>0, <1>5 DEF RemoteTypes, Wire, Unread, Tells, Leaves
<1>13. ASSUME NEW s \in Socket PROVE Dead(s[1]) => Dead(s[1])'
  <2>1. There(s[1]) \in Socket /\ Back(s[1]) \in Socket
    BY DEF Socket, There, Back
  <2>2. There(s[1])' = There(s[1]) /\ Back(s[1])' = Back(s[1])
    BY DEF There, Back
  <2> QED BY <1>12, <2>1, <2>2 DEF Dead
<1>8. ASSUME NEW s \in Socket
      PROVE  /\ Sound(s)' /\ AtMostOne(sock'[s].data)
             /\ Carries(s)' => \/ \E n \in N : s = Tx(r, n)
                               \/ Carries(s) /\ (s # Rx(r, from) \/ from = Local)
  <2>1. /\ sock[s] \in Wire /\ sock[s].data \in Seq(Message)
        /\ Sound(s) /\ AtMostOne(sock[s].data)
    BY <1>0 DEF RemoteTypes, Wire, CalmInv, TokenInv
  <2>2. CASE Unread(s, r, from, "DATA")
    <3>1. /\ sock[s].data # <<>> /\ Head(sock[s].data) = "DATA" /\ sock'[s].data = Tail(sock[s].data)
          /\ sock'[s].reader = sock[s].reader /\ sock'[s].writer = sock[s].writer
      BY <2>1, <2>2 DEF Unread, Begins, Wire
    <3>2. /\ NoneOf(sock'[s].data, "DATA") /\ AtMostOne(sock'[s].data)
          /\ NoneOf(sock[s].data, "cut") => NoneOf(sock'[s].data, "cut")
      BY <2>1, <3>1, LessToRead
    <3> QED BY <2>1, <3>1, <3>2, <1>13 DEF Sound, Carries
  <2>3. CASE Tells(s, r, N, "DATA")
    <3>1. PICK n \in N : s = Tx(r, n)
      BY <2>3 DEF Tells
    <3>2. /\ sock'[s].data = sock[s].data \o <<"DATA">>
          /\ sock'[s].reader = sock[s].reader /\ sock'[s].writer = sock[s].writer
      BY <2>1, <2>3 DEF Tells, Wire
    <3>3. NoneOf(sock[s].data, "DATA")
      BY <1>4, <3>1 DEF Carries
    <3>4. "DATA" \in Message /\ "cut" # "DATA"
      BY DEF Message
    <3>5. AtMostOne(sock'[s].data) /\ (NoneOf(sock[s].data, "cut") => NoneOf(sock'[s].data, "cut"))
      BY <2>1, <3>2, <3>3, <3>4, MoreToRead
    <3> QED BY <2>1, <3>1, <3>2, <3>5, <1>13 DEF Sound
  <2>4. CASE Leaves(s, r, from, N)
    BY <2>1, <2>4, <1>13 DEF Leaves, Sound, Carries
  <2> QED BY <1>5, <2>2, <2>3, <2>4
<1>9. \A s \in Socket : Carries(s)' => \A q \in Away(s)' : delivered'[q] = 0
  <2> SUFFICES ASSUME NEW s \in Socket, Carries(s)', NEW q \in Away(s) PROVE delivered'[q] = 0
    BY <1>6
  <2>1. q \in Router
    <3>1. CASE s[1] \in DOMAIN links
      <4>1. links[s[1]] \in Router
        BY <1>0, <3>1, LenProperties, ElementOfSeq DEF RemoteTypes
      <4> QED BY <4>1, BelowIs DEF Away, FarSide
    <3>2. CASE s[1] \notin DOMAIN links
      <4>1. sock[s].data = <<>>
        BY <3>2 DEF RemoteInv, ShakeInv, Unopened
      <4>2. ~ Carries(s)
        BY <4>1 DEF Carries, NoneOf
      <4>3. PICK n \in N : s = Tx(r, n)
        BY <1>8, <4>2
      <4> QED BY <1>0, <1>1, <3>2, <4>3, Ways
    <3> QED BY <3>1, <3>2
  <2>2. q # r /\ delivered[q] = 0
    <3>1. CASE \E n \in N : s = Tx(r, n)
      BY <1>4, <3>1
    <3>2. CASE Carries(s) /\ (s # Rx(r, from) \/ from = Local)
      BY <1>4, <3>2 DEF TokenInv
    <3> QED BY <1>8, <3>1, <3>2
  <2> QED BY <1>7, <2>1, <2>2
<1>10. \A s, t \in Socket : Carries(s)' /\ Carries(t)' /\ s # t => Away(s)' \cap Away(t)' = {}
  <2> SUFFICES ASSUME NEW s \in Socket, NEW t \in Socket, Carries(s)', Carries(t)', s # t
               PROVE  Away(s) \cap Away(t) = {}
    BY <1>6
  <2>1. /\ (\E n \in N : s = Tx(r, n)) \/ (Carries(s) /\ (s # Rx(r, from) \/ from = Local))
        /\ (\E n \in N : t = Tx(r, n)) \/ (Carries(t) /\ (t # Rx(r, from) \/ from = Local))
    BY <1>8
  <2>2. CASE (\E n \in N : s = Tx(r, n)) /\ (\E n \in N : t = Tx(r, n))
    BY <1>4, <2>2
  <2>3. CASE (\E n \in N : s = Tx(r, n)) /\ Carries(t) /\ (t # Rx(r, from) \/ from = Local)
    BY <1>4, <2>3
  <2>4. CASE (\E n \in N : t = Tx(r, n)) /\ Carries(s) /\ (s # Rx(r, from) \/ from = Local)
    BY <1>4, <2>4
  <2>5. CASE Carries(s) /\ Carries(t)
    BY <2>5 DEF TokenInv
  <2> QED BY <2>1, <2>2, <2>3, <2>4, <2>5
<1>11. TokenInv'
  BY <1>7, <1>8, <1>9, <1>10 DEF TokenInv
<1> QED BY <1>8, <1>11, <1>12

-----------------------------------------------------------------------------
(* Calm steps.  What they take from the bounds. *)
Spends ==
  \/ UNCHANGED budget
  \/ \E w \in {"starts", "faults", "changes"} : budget' = [budget EXCEPT ![w] = @ - 1]

LEMMA SpendsCalmly ==
  ASSUME CalmBudget, Spends
  PROVE  CalmBudget' /\ budget'.data = budget.data
<1>1. ASSUME NEW w \in {"starts", "faults", "changes"}, budget' = [budget EXCEPT ![w] = @ - 1]
      PROVE  CalmBudget' /\ budget'.data = budget.data
  <2>1. w # "crashes" /\ w # "data"
    OBVIOUS
  <2>2. /\ budget'["crashes"] = budget["crashes"] /\ budget'["data"] = budget["data"]
        /\ DOMAIN budget' = DOMAIN budget
    BY <1>1, <2>1 DEF CalmBudget
  <2> QED BY <2>2 DEF CalmBudget, Calm
<1>2. CASE UNCHANGED budget
  BY <1>2 DEF CalmBudget, Calm
<1> QED BY <1>1, <1>2 DEF Spends

(* Links that are over remain so, and what that needs when no router is    *)
(* started and no timer.                                                   *)
LEMMA Lingers ==
  ASSUME CalmInv, UNCHANGED <<running, links, timer>>, \A n \in DOMAIN links : Fades(n)
  PROVE  ConnectsOnce'
<1>1. \A n \in DOMAIN links : Over(n) => Over(n)'
  BY OverStays
<1> QED BY <1>1 DEF CalmInv, ConnectsOnce

(* Nobody dies, and an end is noticed only by the initiator of a link that *)
(* is dead: it is over then, and its router connects again.                *)
LEMMA CalmGone ==
  ASSUME RemoteInv, CalmInv, NEW r \in Router, NEW n \in DOMAIN links, ClientGone(r, n)
  PROVE  MildStep /\ CalmBudget' /\ ConnectsOnce'
<1> DEFINE z == Rx(r, n)
<1>0. RemoteTypes /\ PibInv /\ n \in pib[r].heard /\ n \in pib[r].known /\ r \in Both(n) /\ sock[z].reader
  BY DEF RemoteInv, PibInv, ClientGone
<1>1. /\ z \in Socket /\ z[1] = n
      /\ There(n) \in Socket /\ Back(n) \in Socket /\ There(n) # Back(n)
      /\ Tx(Initiator(n), n) = There(n) /\ Rx(Acceptor(n), n) = There(n)
  BY <1>0, LinkEnds
<1> HIDE DEF z
<1>2. Sound(z) /\ sock[z].data \in Seq(Message)
  BY <1>0, <1>1 DEF CalmInv, RemoteTypes, Wire
<1>3. ~ First(z, "cut")
  <2> SUFFICES ASSUME First(z, "cut") PROVE FALSE
    OBVIOUS
  <2>1. sock[z].data # <<>> /\ Head(sock[z].data) = "cut"
    BY DEF First
  <2>2. 1 \in DOMAIN sock[z].data /\ sock[z].data[1] = "cut"
    BY <1>2, <2>1, LenProperties, EmptySeq
  <2> QED BY <1>2, <2>2 DEF Sound, NoneOf
<1>4. /\ ~ sock[z].writer /\ sock' = Shut(sock, r, {n})
      /\ pib' = [pib EXCEPT ![r] = [known |-> @.known \ {n}, heard |-> @.heard \ {n}]]
      /\ timer' = [timer EXCEPT ![r] = @ \/ r = Initiator(n)]
      /\ UNCHANGED <<running, links, delivered, budget>>
  BY <1>3 DEF ClientGone, z
<1>5. Dead(n)
  BY <1>0, <1>1, <1>2, <1>4 DEF Sound
<1>6. r = Initiator(n) /\ r = links[n]
  BY <1>0, <1>1, <1>5 DEF Dead, Both, z, Initiator
<1>7. /\ sock' = [s \in Socket |-> sock'[s]]
      /\ \A s \in Socket : /\ sock'[s].data = sock[s].data
                           /\ sock'[s].reader => sock[s].reader
                           /\ sock'[s].writer => sock[s].writer
                           /\ s[1] # n => sock'[s] = sock[s]
  BY <1>0, <1>4 DEF Shut, RemoteTypes, Wire
<1>8. /\ pib'[r].known = pib[r].known \ {n}
      /\ \A q \in Router : q # r => pib'[q] = pib[q]
  BY <1>0, <1>4 DEF RemoteTypes
<1>9. ASSUME NEW k \in DOMAIN links PROVE Fades(k)
  <2>1. There(k) \in Socket /\ Back(k) \in Socket /\ links[k] \in Router
    BY <1>0, LinkEnds DEF Both, Initiator
  <2> QED BY <1>4, <1>7, <1>8, <2>1 DEF Fades
<1>10. ASSUME NEW s \in Socket PROVE Mild(s)
  <2>1. CASE s[1] = n
    <3>1. Dead(s[1])'
      <4>1. Dead(n)'
        BY <1>5, <1>9, OverStays
      <4> QED BY <2>1, <4>1 DEF Dead, There, Back
    <3> QED BY <1>7, <3>1 DEF Mild, Less
  <2>2. CASE s[1] # n
    BY <1>7, <2>2 DEF Mild, Less
  <2> QED BY <2>1, <2>2
<1>11. CalmBudget'
  BY <1>4 DEF CalmInv, CalmBudget, Calm
<1>12. MildStep
  BY <1>4, <1>9, <1>10 DEF MildStep
<1>13. /\ \A k \in DOMAIN links : Over(k) => Over(k)'
       /\ Over(n)' /\ ~ Over(n)
  <2>1. Over(n)'
    <3>1. Dead(n)' /\ n \notin pib'[links'[n]].known
      BY <1>4, <1>5, <1>6, <1>8, <1>9, OverStays
    <3> QED BY <3>1 DEF Over
  <2> QED BY <1>0, <1>6, <1>9, <2>1, OverStays DEF Over
<1>14. ConnectsOnce'
  <2>1. /\ timer \in [Router -> BOOLEAN]
        /\ \A k \in DOMAIN links : links[k] \in running /\ (timer[links[k]] => Over(k))
        /\ \A j, k \in DOMAIN links : links[j] = links[k] /\ ~ Over(j) /\ ~ Over(k) => j = k
    BY DEF CalmInv, ConnectsOnce
  <2>2. timer' \in [Router -> BOOLEAN] /\ \A q \in Router : q # r => timer'[q] = timer[q]
    BY <1>4, <2>1
  <2>3. \A k \in DOMAIN links : timer'[links[k]] => Over(k)'
    <3> SUFFICES ASSUME NEW k \in DOMAIN links, timer'[links[k]] PROVE Over(k)'
      OBVIOUS
    <3>1. CASE links[k] = r
      <4>1. Over(k) \/ k = n
        BY <1>6, <1>13, <2>1, <3>1
      <4> QED BY <1>13, <4>1
    <3>2. CASE links[k] # r
      <4>1. links[k] \in Router
        BY <1>0, LinkEnds DEF Both, Initiator
      <4> QED BY <1>13, <2>1, <2>2, <3>2, <4>1
    <3> QED BY <3>1, <3>2
  <2>4. \A j, k \in DOMAIN links : links[j] = links[k] /\ ~ Over(j)' /\ ~ Over(k)' => j = k
    BY <1>13, <2>1
  <2> QED BY <1>4, <2>1, <2>2, <2>3, <2>4 DEF ConnectsOnce
<1> QED BY <1>11, <1>12, <1>14

(* Steps between links that stay. *)
LEMMA LinksStay ==
  ASSUME CalmInv, UNCHANGED <<running, links, timer, delivered>>, Spends, \A s \in Socket : Mild(s),
         \A n \in DOMAIN links : Fades(n)
  PROVE  MildStep /\ CalmBudget' /\ ConnectsOnce'
<1>1. CalmBudget' /\ budget'.data = budget.data
  BY SpendsCalmly DEF CalmInv
<1>2. ConnectsOnce'
  BY Lingers
<1>3. MildStep
  BY <1>1 DEF MildStep
<1> QED BY <1>1, <1>2, <1>3

(* The ends of the sockets are as they were. *)
LEMMA EndsStay ==
  ASSUME RemoteTypes, UNCHANGED <<links, pib>>,
         \A s \in Socket : sock'[s].reader = sock[s].reader /\ sock'[s].writer = sock[s].writer,
         NEW n \in DOMAIN links
  PROVE  Fades(n)
<1>1. There(n) \in Socket /\ Back(n) \in Socket
  BY LinkEnds DEF Both
<1> QED BY <1>1 DEF Fades

(* A socket that is left alone. *)
LEMMA Untouched ==
  ASSUME RemoteTypes, NEW s \in Socket, sock'[s] = sock[s]
  PROVE  Mild(s)
  BY DEF Mild, Less

(* ENABLE and DISABLE, of a program or of a link. *)
LEMMA CalmNews ==
  ASSUME RemoteInv, CalmInv, NEW r \in Router, NEW from \in Nat, NEW socks,
         \/ Reads(r, from, "ENABLE", socks) /\ Enable(r, from, socks)
         \/ Reads(r, from, "DISABLE", socks) /\ Disable(r, from, socks),
         UNCHANGED <<running, links, pib, timer>>, Spends
  PROVE  MildStep /\ CalmBudget' /\ ConnectsOnce'
<1>0. RemoteTypes /\ PibInv
  BY DEF RemoteInv
<1>1. PICK m \in {"ENABLE", "DISABLE"}, N \in SUBSET (pib[r].known \ {from}) :
        Reads(r, from, m, socks) /\ sock' = Write(socks, TxOf(r, N), <<m>>)
  <2>1. CASE Reads(r, from, "ENABLE", socks) /\ Enable(r, from, socks)
    <3> DEFINE N == Peers(r, from) \ mute[r]
    <3>1. N \in SUBSET (pib[r].known \ {from}) /\ sock' = Write(socks, TxOf(r, N), <<"ENABLE">>)
      BY <2>1 DEF Enable, Peers, Reached
    <3> HIDE DEF N
    <3> QED BY <2>1, <3>1
  <2>2. CASE Reads(r, from, "DISABLE", socks) /\ Disable(r, from, socks)
    <3> DEFINE N == IF consumers[r] # {} /\ consumers[r] \ {from} = {} THEN Peers(r, from) \ mute[r] ELSE {}
    <3>1. sock' = Write(socks, TxOf(r, N), <<"DISABLE">>)
      BY <1>0, <2>2, NobodyTold DEF Disable, Reached
    <3>2. N \in SUBSET (pib[r].known \ {from})
      BY DEF Peers
    <3> HIDE DEF N
    <3> QED BY <2>2, <3>1, <3>2
  <2> QED BY <2>1, <2>2
<1>2. \A s \in Socket : Unread(s, r, from, m) \/ Tells(s, r, N, m) \/ Leaves(s, r, from, N)
  BY <1>1, Exchange
<1>3. ASSUME NEW s \in Socket PROVE Mild(s)
  <2>1. sock[s] \in Wire
    BY <1>0 DEF RemoteTypes
  <2>2. CASE Unread(s, r, from, m)
    <3>1. /\ sock[s].data # <<>> /\ sock'[s].data = Tail(sock[s].data)
          /\ sock'[s].reader = sock[s].reader /\ sock'[s].writer = sock[s].writer
      BY <2>1, <2>2 DEF Unread, Begins, Wire
    <3> QED BY <3>1 DEF Mild, Less
  <2>3. CASE Tells(s, r, N, m)
    <3>1. /\ sock'[s].data = sock[s].data \o <<m>>
          /\ sock'[s].reader = sock[s].reader /\ sock'[s].writer = sock[s].writer
      BY <2>1, <2>3 DEF Tells, Wire
    <3> QED BY <3>1 DEF Mild, Less
  <2>4. CASE Leaves(s, r, from, N)
    BY <1>0, <2>4, Untouched DEF Leaves
  <2> QED BY <1>2, <2>2, <2>3, <2>4
<1>4. UNCHANGED delivered
  BY DEF Enable, Disable
<1>5. \A s \in Socket : sock'[s].reader = sock[s].reader /\ sock'[s].writer = sock[s].writer
  BY <1>0, <1>2 DEF RemoteTypes, Wire, Unread, Tells, Leaves
<1>6. \A n \in DOMAIN links : Fades(n)
  BY <1>0, <1>5, EndsStay
<1> QED BY <1>3, <1>4, <1>6, LinksStay

(* All message IDs, behind ACK or nothing. *)
LEMMA AllMild ==
  ASSUME NEW a
  PROVE  /\ AllMsgIDs(a) = <<>> \/ AllMsgIDs(a) = <<"ENABLE">>
         /\ \A m \in {"DATA", "cut"} : NoneOf(<<"ACK">> \o AllMsgIDs(a), m)
<1>1. AllMsgIDs(a) = <<>> \/ AllMsgIDs(a) = <<"ENABLE">>
  BY DEF AllMsgIDs
<1> DEFINE d == <<"ACK">>
<1>2. d \in Seq(Message) /\ \A m \in {"DATA", "cut"} : NoneOf(d, m)
  BY DEF Message, NoneOf
<1> HIDE DEF d
<1>3. d \o <<>> = d
  BY <1>2, ConcatEmptySeq
<1>4. \A m \in {"DATA", "cut"} : NoneOf(d \o <<"ENABLE">>, m)
  <2>1. "ENABLE" \in Message /\ \A m \in {"DATA", "cut"} : m # "ENABLE"
    BY DEF Message
  <2> QED BY <1>2, <2>1, MoreToRead
<1>5. \A m \in {"DATA", "cut"} : NoneOf(d \o AllMsgIDs(a), m)
  BY <1>1, <1>2, <1>3, <1>4
<1> QED BY <1>1, <1>5 DEF d

(* REGISTER and ACK, taken or not. *)
LEMMA CalmShakes ==
  ASSUME RemoteInv, CalmInv, NEW n \in DOMAIN links,
         \/ AcceptRegister(n) \/ AcceptAck(n) \/ RouterAcceptFails(n)
         \/ RegisterFails(n) \/ AckFails(n) \/ AckIsStale(n)
  PROVE  MildStep /\ CalmBudget' /\ ConnectsOnce'
<1>0. RemoteTypes
  BY DEF RemoteInv
<1>1. There(n) \in Socket /\ Back(n) \in Socket /\ There(n) # Back(n)
  BY <1>0, LinkEnds DEF Both
<1>2. sock \in [Socket -> Wire] /\ \A s \in Socket : sock[s].data \in Seq(Message)
  BY <1>0 DEF RemoteTypes, Wire
<1>3. /\ UNCHANGED <<running, links, timer, delivered>>
      /\ Spends
  <2>1. UNCHANGED <<running, links, timer, delivered>>
    BY DEF AcceptRegister, AcceptAck, RouterAcceptFails, RegisterFails, AckFails, AckIsStale
  <2>2. UNCHANGED budget \/ Spend("faults")
    BY DEF AcceptRegister, AcceptAck, RouterAcceptFails, RegisterFails, AckFails, AckIsStale
  <2> QED BY <2>1, <2>2 DEF Spends, Spend
<1>4. ASSUME NEW s \in Socket PROVE Mild(s)
  <2>1. CASE AcceptRegister(n)
    <3> DEFINE read == [sock EXCEPT ![There(n)].data = Tail(@)]
               D == <<"ACK">> \o AllMsgIDs(Acceptor(n))
    <3>1. sock[There(n)].data # <<>> /\ sock' = [read EXCEPT ![Back(n)] = Opened(D)]
      BY <2>1 DEF AcceptRegister, First, There, Back
    <3>2. NoneOf(D, "DATA") /\ NoneOf(D, "cut")
      BY AllMild
    <3> HIDE DEF D
    <3>3. CASE s = There(n)
      <4>1. sock'[s] = [sock[s] EXCEPT !.data = Tail(@)]
        BY <1>1, <1>2, <3>1, <3>3
      <4>2. /\ sock'[s].data = Tail(sock[s].data)
            /\ sock'[s].reader = sock[s].reader /\ sock'[s].writer = sock[s].writer
        BY <1>2, <4>1 DEF Wire
      <4> QED BY <3>1, <3>3, <4>2 DEF Mild, Less
    <3>4. CASE s = Back(n)
      <4>1. sock'[s] = Opened(D)
        BY <1>1, <1>2, <3>1, <3>4
      <4>2. Opened(D).data = D /\ Opened(D).writer
        BY DEF Opened
      <4> QED BY <3>2, <4>1, <4>2 DEF Mild
    <3>5. CASE s # There(n) /\ s # Back(n)
      <4>1. sock'[s] = sock[s]
        BY <1>1, <1>2, <3>1, <3>5
      <4> QED BY <1>0, <4>1, Untouched
    <3> QED BY <3>3, <3>4, <3>5
  <2>2. CASE AcceptAck(n)
    <3> DEFINE read == [sock EXCEPT ![Back(n)].data = Tail(@)]
               M == AllMsgIDs(Initiator(n))
    <3>1. sock[Back(n)].data # <<>> /\ sock' = Write(read, {There(n)}, M)
      BY <2>2 DEF AcceptAck, First, There, Back
    <3>2. M = <<>> \/ M = <<"ENABLE">>
      BY AllMild
    <3>3. sock'[s] = IF s = There(n) /\ read[s].reader THEN [read[s] EXCEPT !.data = @ \o M] ELSE read[s]
      BY <3>1 DEF Write
    <3> HIDE DEF M
    <3>4. CASE s = There(n)
      <4>1. read[s] = sock[s] /\ sock[s] \in Wire
        BY <1>1, <1>2, <3>4
      <4>2. CASE sock[s].reader
        <5>1. sock'[s] = [sock[s] EXCEPT !.data = @ \o M]
          BY <3>3, <3>4, <4>1, <4>2
        <5>2. /\ sock'[s].data = sock[s].data \o M
              /\ sock'[s].reader = sock[s].reader /\ sock'[s].writer = sock[s].writer
          BY <4>1, <5>1 DEF Wire
        <5>3. sock[s].data \o <<>> = sock[s].data
          BY <1>2, ConcatEmptySeq
        <5>4. Less(sock[s].data, sock'[s].data)
          BY <3>2, <5>2, <5>3 DEF Less
        <5> QED BY <5>2, <5>4 DEF Mild
      <4>3. CASE ~ sock[s].reader
        BY <1>0, <3>3, <4>1, <4>3, Untouched
      <4> QED BY <4>2, <4>3
    <3>5. CASE s = Back(n)
      <4>1. sock'[s] = [sock[s] EXCEPT !.data = Tail(@)]
        BY <1>1, <1>2, <3>3, <3>5
      <4>2. /\ sock'[s].data = Tail(sock[s].data)
            /\ sock'[s].reader = sock[s].reader /\ sock'[s].writer = sock[s].writer
        BY <1>2, <4>1 DEF Wire
      <4> QED BY <3>1, <3>5, <4>2 DEF Mild, Less
    <3>6. CASE s # There(n) /\ s # Back(n)
      <4>1. sock'[s] = sock[s]
        BY <1>1, <1>2, <3>3, <3>6
      <4> QED BY <1>0, <4>1, Untouched
    <3> QED BY <3>4, <3>5, <3>6
  <2>3. CASE RouterAcceptFails(n) \/ AckIsStale(n)
    <3>1. PICK z \in {There(n), Back(n)} : sock' = [sock EXCEPT ![z].reader = FALSE, ![z].data = <<>>]
      BY <2>3 DEF RouterAcceptFails, AckIsStale, There, Back
    <3>2. CASE s = z
      <4>1. /\ sock'[s].data = <<>> /\ ~ sock'[s].reader /\ sock'[s].writer = sock[s].writer
        BY <1>1, <1>2, <3>1, <3>2 DEF Wire
      <4> QED BY <4>1 DEF Mild, Less
    <3>3. CASE s # z
      <4>1. sock'[s] = sock[s]
        BY <1>1, <1>2, <3>1, <3>3
      <4> QED BY <1>0, <4>1, Untouched
    <3> QED BY <3>2, <3>3
  <2>4. CASE AckFails(n)
    <3>1. sock[Back(n)].data # <<>> /\ sock' = [sock EXCEPT ![Back(n)].data = Tail(@)]
      BY <2>4 DEF AckFails, First, Back
    <3>2. CASE s = Back(n)
      <4>1. /\ sock'[s].data = Tail(sock[s].data)
            /\ sock'[s].reader = sock[s].reader /\ sock'[s].writer = sock[s].writer
        BY <1>1, <1>2, <3>1, <3>2 DEF Wire
      <4> QED BY <3>1, <3>2, <4>1 DEF Mild, Less
    <3>3. CASE s # Back(n)
      <4>1. sock'[s] = sock[s]
        BY <1>1, <1>2, <3>1, <3>3
      <4> QED BY <1>0, <4>1, Untouched
    <3> QED BY <3>2, <3>3
  <2>5. CASE RegisterFails(n)
    <3> DEFINE D == <<"ACK">>
    <3>1. sock' = [[sock EXCEPT ![There(n)].reader = FALSE, ![There(n)].data = <<>>]
                     EXCEPT ![Back(n)] = [Opened(D) EXCEPT !.writer = FALSE]]
      BY <2>5 DEF RegisterFails, There, Back
    <3>2. NoneOf(D, "DATA") /\ NoneOf(D, "cut")
      BY DEF NoneOf
    <3> HIDE DEF D
    <3>3. /\ sock'[There(n)].data = <<>> /\ ~ sock'[There(n)].reader
          /\ sock'[Back(n)].data = D /\ ~ sock'[Back(n)].writer
          /\ s # There(n) /\ s # Back(n) => sock'[s] = sock[s]
      BY <1>1, <1>2, <3>1 DEF Wire, Opened
    <3>4. CASE s = There(n)
      BY <3>3, <3>4 DEF Mild, Less
    <3>5. CASE s = Back(n)
      <4>1. s[1] = n
        BY <3>5 DEF Back
      <4>2. Dead(s[1])'
        <5>1. There(n)' = There(n) /\ Back(n)' = Back(n) /\ There(s[1])' = There(n) /\ Back(s[1])' = Back(n)
          BY <4>1 DEF There, Back
        <5> QED BY <3>3, <5>1 DEF Dead
      <4> QED BY <3>2, <3>3, <3>5, <4>2 DEF Mild
    <3>6. CASE s # There(n) /\ s # Back(n)
      BY <1>0, <3>3, <3>6, Untouched
    <3> QED BY <3>4, <3>5, <3>6
  <2> QED BY <2>1, <2>2, <2>3, <2>4, <2>5
<1>5. ASSUME NEW k \in DOMAIN links PROVE Fades(k)
  <2>1. /\ There(k) \in Socket /\ Back(k) \in Socket /\ links[k] \in Router /\ There(k) # Back(n)
        /\ There(k)[1] = k /\ Back(k)[1] = k /\ There(n)[1] = n /\ Back(n)[1] = n /\ There(k) # Back(k)
        /\ Acceptor(n) # links[n] /\ Initiator(n) = links[n]
    BY <1>0, LinkEnds DEF Both, Initiator, There, Back
  <2>2. /\ sock'[There(k)].reader => sock[There(k)].reader
        /\ sock'[Back(k)].writer => sock[Back(k)].writer \/ sock[There(k)].reader
    <3>1. CASE AcceptRegister(n)
      <4>1. /\ sock[There(n)].reader
            /\ \E D : sock' = [[sock EXCEPT ![There(n)].data = Tail(@)] EXCEPT ![Back(n)] = D]
        BY <3>1 DEF AcceptRegister, There, Back
      <4>2. sock'[There(k)].reader = sock[There(k)].reader
        BY <1>1, <1>2, <2>1, <4>1 DEF Wire
      <4>3. k # n => sock'[Back(k)].writer = sock[Back(k)].writer
        BY <1>1, <1>2, <2>1, <4>1 DEF Wire
      <4> QED BY <4>1, <4>2, <4>3
    <3>2. CASE AcceptAck(n)
      <4>1. sock' = Write([sock EXCEPT ![Back(n)].data = Tail(@)], {There(n)}, AllMsgIDs(Initiator(n)))
        BY <3>2 DEF AcceptAck, There, Back
      <4> QED BY <1>1, <1>2, <2>1, <4>1 DEF Wire, Write
    <3>3. CASE RouterAcceptFails(n) \/ AckIsStale(n) \/ AckFails(n)
      <4>1. \/ \E z \in {There(n), Back(n)} : sock' = [sock EXCEPT ![z].reader = FALSE, ![z].data = <<>>]
            \/ sock' = [sock EXCEPT ![Back(n)].data = Tail(@)]
        BY <3>3 DEF RouterAcceptFails, AckIsStale, AckFails, There, Back
      <4>2. ASSUME NEW z \in Socket, sock' = [sock EXCEPT ![z].reader = FALSE, ![z].data = <<>>],
                   NEW s \in Socket
            PROVE  (sock'[s].reader => sock[s].reader) /\ sock'[s].writer = sock[s].writer
        <5>1. CASE s = z
          BY <1>2, <4>2, <5>1 DEF Wire
        <5>2. CASE s # z
          BY <1>2, <4>2, <5>2 DEF Wire
        <5> QED BY <5>1, <5>2
      <4>3. CASE sock' = [sock EXCEPT ![Back(n)].data = Tail(@)]
        BY <1>1, <1>2, <2>1, <4>3 DEF Wire
      <4> QED BY <1>1, <2>1, <4>1, <4>2, <4>3
    <3>4. CASE RegisterFails(n)
      <4>1. sock' = [[sock EXCEPT ![There(n)].reader = FALSE, ![There(n)].data = <<>>]
                       EXCEPT ![Back(n)] = [Opened(<<"ACK">>) EXCEPT !.writer = FALSE]]
        BY <3>4 DEF RegisterFails, There, Back
      <4> QED BY <1>1, <1>2, <2>1, <4>1 DEF Wire, Opened
    <3> QED BY <3>1, <3>2, <3>3, <3>4
  <2>3. k \in pib'[links[k]].known => k \in pib[links[k]].known
    <3>1. pib \in [Router -> [known : SUBSET Nat, heard : SUBSET Nat]] /\ Acceptor(n) \in Router
      BY <1>0 DEF RemoteTypes
    <3>2. CASE AcceptRegister(n)
      <4>1. pib' = [pib EXCEPT ![Acceptor(n)] = [known |-> @.known \cup {n}, heard |-> @.heard \cup {n}]]
        BY <3>2 DEF AcceptRegister
      <4>2. CASE links[k] = Acceptor(n)
        BY <2>1, <3>1, <4>1, <4>2
      <4>3. CASE links[k] # Acceptor(n)
        BY <2>1, <3>1, <4>1, <4>3
      <4> QED BY <4>2, <4>3
    <3>3. CASE AcceptAck(n)
      <4>1. pib' = [pib EXCEPT ![links[n]].heard = @ \cup {n}]
        BY <2>1, <3>3 DEF AcceptAck
      <4> QED BY <2>1, <3>1, <4>1
    <3>4. CASE AckFails(n)
      <4>1. pib' = [pib EXCEPT ![links[n]].known = @ \ {n}]
        BY <2>1, <3>4 DEF AckFails
      <4> QED BY <2>1, <3>1, <4>1
    <3>5. CASE RouterAcceptFails(n) \/ AckIsStale(n) \/ RegisterFails(n)
      BY <3>5 DEF RouterAcceptFails, AckIsStale, RegisterFails
    <3> QED BY <3>2, <3>3, <3>4, <3>5
  <2> QED BY <1>3, <2>2, <2>3 DEF Fades
<1> QED BY <1>3, <1>4, <1>5, LinksStay

(* connectTimerHandler: the links its router had are over. *)
LEMMA CalmConnect ==
  ASSUME RemoteInv, CalmInv, NEW r \in Router, connectTimerHandler(r)
  PROVE  MildStep /\ CalmBudget' /\ ConnectsOnce'
<1>0. RemoteTypes
  BY DEF RemoteInv
<1>n. PICK n : n = Len(links) + 1
  OBVIOUS
<1>1. /\ r \in running /\ timer[r] /\ links' = Append(links, r) /\ Len(links) < MaxLinks
      /\ sock' = [sock EXCEPT ![There(n)] = Opened(<<"REGISTER">>)]
      /\ timer' = [timer EXCEPT ![r] = FALSE]
      /\ pib' = [pib EXCEPT ![r].known = @ \cup {n}]
      /\ UNCHANGED <<running, delivered, budget>>
  BY <1>n DEF connectTimerHandler, There
<1>2. /\ Len(links) \in Nat /\ DOMAIN links = 1 .. Len(links)
      /\ DOMAIN links' = 1 .. n /\ links'[n] = r
      /\ \A k \in DOMAIN links : links'[k] = links[k]
  <2>1. /\ Len(links) \in Nat /\ DOMAIN links = 1 .. Len(links) /\ links \in Seq(Router)
    BY <1>0, LenProperties DEF RemoteTypes
  <2>2. /\ links' \in Seq(Router) /\ Len(links') = n
        /\ \A k \in 1 .. Len(links) : links'[k] = links[k]
        /\ links'[Len(links) + 1] = r
    BY <1>n, <1>1, <2>1, AppendProperties
  <2>3. DOMAIN links' = 1 .. n
    BY <2>2, LenProperties
  <2>4. links'[n] = r /\ \A k \in DOMAIN links : links'[k] = links[k]
    BY <1>n, <2>1, <2>2
  <2> QED BY <2>1, <2>3, <2>4
<1>3. \A k \in DOMAIN links' : k \in DOMAIN links \/ k = n
  BY <1>n, <1>2
<1>4. ASSUME NEW s \in Socket PROVE Mild(s)
  <2>1. CASE s = There(n)
    <3>1. sock'[s] = Opened(<<"REGISTER">>)
      BY <1>0, <1>1, <2>1 DEF RemoteTypes
    <3>2. NoneOf(<<"REGISTER">>, "DATA") /\ NoneOf(<<"REGISTER">>, "cut")
      BY DEF NoneOf
    <3>3. Opened(<<"REGISTER">>).data = <<"REGISTER">> /\ Opened(<<"REGISTER">>).writer
      BY DEF Opened
    <3> QED BY <3>1, <3>2, <3>3 DEF Mild
  <2>2. CASE s # There(n)
    <3>1. sock'[s] = sock[s]
      BY <1>0, <1>1, <2>2 DEF RemoteTypes
    <3> QED BY <1>0, <3>1, Untouched
  <2> QED BY <2>1, <2>2
<1>5. \A k \in DOMAIN links : links[k] = r => Over(k)
  BY <1>1 DEF CalmInv, ConnectsOnce
<1>9. ASSUME NEW k \in DOMAIN links PROVE Fades(k)
  <2>1. There(k) \in Socket /\ Back(k) \in Socket /\ links[k] \in Router /\ k # n
    BY <1>0, <1>n, <1>2, LinkEnds DEF Both, Initiator
  <2>2. There(k) # There(n) /\ Back(k) # There(n)
    BY <2>1 DEF There, Back
  <2>3. sock'[There(k)] = sock[There(k)] /\ sock'[Back(k)] = sock[Back(k)]
    BY <1>0, <1>1, <2>1, <2>2 DEF RemoteTypes
  <2>4. k \in pib'[links[k]].known => k \in pib[links[k]].known
    <3>1. pib \in [Router -> [known : SUBSET Nat, heard : SUBSET Nat]]
      BY <1>0 DEF RemoteTypes
    <3> QED BY <1>1, <2>1, <3>1
  <2> QED BY <1>2, <2>3, <2>4 DEF Fades
<1>10. \A k \in DOMAIN links : Over(k) => Over(k)'
  BY <1>9, OverStays
<1>6. ConnectsOnce'
  <2>1. timer' \in [Router -> BOOLEAN] /\ ~ timer'[r] /\ \A q : q # r => timer'[q] = timer[q]
    <3>1. timer \in [Router -> BOOLEAN]
      BY DEF CalmInv, ConnectsOnce
    <3>2. DOMAIN timer' = DOMAIN timer
      BY <1>1
    <3> QED BY <1>1, <3>1, <3>2
  <2>2. ASSUME NEW k \in DOMAIN links' PROVE links'[k] \in running' /\ (timer'[links'[k]] => Over(k)')
    <3>1. CASE k = n
      BY <1>1, <1>2, <2>1, <3>1
    <3>2. CASE k \in DOMAIN links
      BY <1>1, <1>2, <1>10, <2>1, <3>2 DEF CalmInv, ConnectsOnce
    <3> QED BY <1>3, <3>1, <3>2
  <2>3. ASSUME NEW k \in DOMAIN links', NEW j \in DOMAIN links', links'[k] = links'[j], ~ Over(k)', ~ Over(j)'
        PROVE  k = j
    <3>1. CASE k \in DOMAIN links /\ j \in DOMAIN links
      BY <1>2, <1>10, <2>3, <3>1 DEF CalmInv, ConnectsOnce
    <3>2. CASE k = n \/ j = n
      BY <1>2, <1>3, <1>5, <1>10, <2>3, <3>2
    <3> QED BY <1>3, <3>1, <3>2
  <2> QED BY <2>1, <2>2, <2>3 DEF ConnectsOnce
<1>7. MildStep
  BY <1>1, <1>4, <1>9 DEF MildStep
<1>8. CalmBudget'
  BY <1>1 DEF CalmInv, CalmBudget, Calm
<1> QED BY <1>6, <1>7, <1>8

(* A router is started, or does not connect, or writes begin or cease to   *)
(* fail.                                                                   *)
LEMMA CalmTimers ==
  ASSUME RemoteInv, CalmInv, NEW r \in Router,
         ConnectFails(r) \/ SendsFail(r) \/ SendsWork(r) \/ Restart(r)
  PROVE  MildStep /\ CalmBudget' /\ ConnectsOnce'
<1>0. RemoteTypes
  BY DEF RemoteInv
<1>1. UNCHANGED <<links, sock, pib, delivered>> /\ Spends
  BY DEF ConnectFails, SendsFail, SendsWork, Restart, Spends, Spend
<1>2. CalmBudget' /\ budget'.data = budget.data
  BY <1>1, SpendsCalmly DEF CalmInv
<1>5. \A n \in DOMAIN links : Fades(n)
  BY <1>1 DEF Fades
<1>3. MildStep
  BY <1>0, <1>1, <1>2, <1>5, Untouched DEF MildStep
<1>4. ConnectsOnce'
  <2>1. /\ timer \in [Router -> BOOLEAN]
        /\ \A n \in DOMAIN links : links[n] \in running /\ (timer[links[n]] => Over(n))
        /\ \A k, n \in DOMAIN links : links[k] = links[n] /\ ~ Over(k) /\ ~ Over(n) => k = n
    BY DEF CalmInv, ConnectsOnce
  <2>2. \A n \in DOMAIN links : Over(n) => Over(n)'
    BY <1>5, OverStays
  <2>3. CASE ConnectFails(r)
    <3>1. timer' = [timer EXCEPT ![r] = FALSE] /\ UNCHANGED running
      BY <2>3 DEF ConnectFails
    <3> QED BY <1>1, <2>1, <2>2, <3>1 DEF ConnectsOnce
  <2>4. CASE SendsFail(r) \/ SendsWork(r)
    <3>1. UNCHANGED <<running, timer>>
      BY <2>4 DEF SendsFail, SendsWork
    <3> QED BY <1>1, <1>5, <3>1, Lingers
  <2>5. CASE Restart(r)
    <3>1. /\ timer' = [timer EXCEPT ![r] = Remote[r] # NoRemote]
          /\ r \notin running /\ running' = running \cup {r}
      BY <2>5 DEF Restart
    <3>2. timer' \in [Router -> BOOLEAN] /\ \A q \in Router : q # r => timer'[q] = timer[q]
      BY <2>1, <3>1
    <3>3. \A n \in DOMAIN links : links[n] \in Router /\ links[n] # r
      BY <1>0, <2>1, <3>1, LenProperties, ElementOfSeq DEF RemoteTypes
    <3> QED BY <1>1, <2>1, <2>2, <3>1, <3>2, <3>3 DEF ConnectsOnce
  <2> QED BY <2>3, <2>4, <2>5
<1> QED BY <1>2, <1>3, <1>4

(* A step is calm, or a router handles the message. *)
LEMMA CalmOrPasses ==
  ASSUME RemoteInv, CalmInv, [RemoteNext]_remoteVars
  PROVE  \/ MildStep /\ CalmBudget' /\ ConnectsOnce'
         \/ \E r \in Router, from \in Nat : \E socks : Passes(r, from, socks)
<1>0. RemoteTypes /\ PibInv
  BY DEF RemoteInv
<1>1. CASE UNCHANGED remoteVars
  <2>1. UNCHANGED <<running, links, sock, pib, timer, delivered, budget>>
    BY <1>1 DEF remoteVars
  <2>2. (\A s \in Socket : Mild(s)) /\ \A n \in DOMAIN links : Fades(n)
    BY <1>0, <2>1, Untouched DEF Fades
  <2> QED BY <2>1, <2>2, LinksStay DEF Spends
<1>2. CASE \E r \in Router : ConnectFails(r) \/ SendsFail(r) \/ SendsWork(r) \/ Restart(r)
  BY <1>2, CalmTimers
<1>3. CASE \E r \in Router : connectTimerHandler(r)
  BY <1>3, CalmConnect
<1>4. CASE \E n \in DOMAIN links : \/ AcceptRegister(n) \/ AcceptAck(n) \/ RouterAcceptFails(n)
                                    \/ RegisterFails(n) \/ AckFails(n) \/ AckIsStale(n)
  BY <1>4, CalmShakes
<1>5. CASE \E r \in Router : RouterCrash(r) \/ \E n \in DOMAIN links : ClientGone(r, n)
  BY <1>5, CalmGone DEF RouterCrash, Spend, CalmInv, CalmBudget, Calm
<1>6. CASE \E r \in Router : LocalMessage(r)
  <2>1. PICK r \in Router : LocalMessage(r)
    BY <1>6
  <2>2. UNCHANGED <<running, links, pib, timer>> /\ Local \in Nat /\ \A m : Reads(r, Local, m, sock)
    BY <2>1 DEF LocalMessage, Local, Reads
  <2>3. CASE LocalEnable(r) \/ LocalDisable(r)
    <3>1. (Enable(r, Local, sock) \/ Disable(r, Local, sock)) /\ Spends
      BY <2>3 DEF LocalEnable, LocalDisable, Spend, Spends
    <3> QED BY <2>2, <3>1, CalmNews
  <2>4. CASE LocalData(r)
    <3>1. budget.data = 1 /\ budget' = [budget EXCEPT !["data"] = @ - 1] /\ Route(r, Local, sock)
      BY <2>4 DEF LocalData, Spend, CalmInv, CalmBudget, Calm
    <3>2. Passes(r, Local, sock)
      BY <2>2, <3>1 DEF Passes
    <3> QED BY <2>2, <3>2
  <2> QED BY <2>1, <2>3, <2>4 DEF LocalMessage
<1>7. CASE \E r \in Router : \E n \in DOMAIN links : ClientRX(r, n)
  <2>1. PICK r \in Router, n \in DOMAIN links : ClientRX(r, n)
    BY <1>7
  <2> DEFINE socks == [sock EXCEPT ![Rx(r, n)].data = Tail(@)]
  <2>2. /\ UNCHANGED <<running, links, pib, timer, budget>> /\ n \in pib[r].heard
        /\ \/ Begins(sock[Rx(r, n)].data, "ENABLE") /\ Enable(r, n, socks)
           \/ Begins(sock[Rx(r, n)].data, "DISABLE") /\ Disable(r, n, socks)
           \/ Begins(sock[Rx(r, n)].data, "DATA") /\ Route(r, n, socks)
    BY <2>1 DEF ClientRX, First, Begins
  <2>3. n \in Nat
    BY <1>0, LenProperties DEF RemoteTypes
  <2>4. \A m : Begins(sock[Rx(r, n)].data, m) => Reads(r, n, m, socks)
    BY <2>2 DEF Reads
  <2> HIDE DEF socks
  <2>5. CASE \/ Reads(r, n, "ENABLE", socks) /\ Enable(r, n, socks)
             \/ Reads(r, n, "DISABLE", socks) /\ Disable(r, n, socks)
    <3>1. Spends
      BY <2>2 DEF Spends
    <3> QED BY <2>2, <2>3, <2>5, <3>1, CalmNews
  <2>6. CASE Reads(r, n, "DATA", socks) /\ Route(r, n, socks)
    <3>1. Passes(r, n, socks)
      BY <2>2, <2>6 DEF Passes
    <3> QED BY <2>3, <3>1
  <2> QED BY <2>2, <2>4, <2>5, <2>6
<1> QED BY <1>1, <1>2, <1>3, <1>4, <1>5, <1>6, <1>7 DEF RemoteNext, RemoteStep, RemoteFault

LEMMA CalmSteps ==
  ASSUME NoCircle, RemoteInv, CalmInv, TokenInv, [RemoteNext]_remoteVars
  PROVE  CalmInv' /\ TokenInv'
<1>0. RemoteTypes
  BY DEF RemoteInv
<1>1. CASE MildStep /\ CalmBudget' /\ ConnectsOnce'
  <2>1. TokenInv'
    BY <1>1, TokenStays
  <2>2. \A s \in Socket : Sound(s)'
    BY <1>1, MildSocket DEF CalmInv
  <2> QED BY <1>1, <2>1, <2>2 DEF CalmInv
<1>2. CASE \E r \in Router, from \in Nat : \E socks : Passes(r, from, socks)
  <2>1. PICK r \in Router, from \in Nat : \E socks : Passes(r, from, socks)
    BY <1>2
  <2>5. PICK socks : Passes(r, from, socks)
    BY <2>1
  <2>2. /\ TokenInv' /\ \A s \in Socket : Sound(s)'
        /\ \A s \in Socket : sock'[s].reader = sock[s].reader /\ sock'[s].writer = sock[s].writer
    BY <2>5, Passed
  <2>3. ConnectsOnce'
    <3>1. UNCHANGED <<running, links, pib, timer>>
      BY <2>5 DEF Passes
    <3>2. \A n \in DOMAIN links : Fades(n)
      BY <1>0, <2>2, <3>1, EndsStay
    <3> QED BY <3>1, <3>2, Lingers
  <2>4. CalmBudget'
    BY <2>5 DEF Passes, CalmInv, CalmBudget, Calm
  <2> QED BY <2>2, <2>3, <2>4 DEF CalmInv
<1> QED BY <1>1, <1>2, CalmOrPasses

LEMMA CalmStart == RemoteInit /\ Calm => CalmInv /\ TokenInv
<1> SUFFICES ASSUME RemoteInit, Calm PROVE CalmInv /\ TokenInv
  OBVIOUS
<1>1. /\ links = <<>> /\ sock = [s \in Socket |-> Unopened]
      /\ timer = [r \in Router |-> r \in running /\ Remote[r] # NoRemote]
      /\ delivered = [r \in Router |-> 0]
  BY DEF RemoteInit
<1>2. {"crashes", "data"} \subseteq DOMAIN budget
  BY DEF RemoteInit
<1>3. DOMAIN links = {}
  BY <1>1
<1>4. \A s \in Socket : sock[s].data = <<>> /\ ~ sock[s].reader
  BY <1>1 DEF Unopened
<1>5. \A s \in Socket : Sound(s) /\ ~ Carries(s) /\ AtMostOne(sock[s].data)
  BY <1>4 DEF Sound, Carries, NoneOf, AtMostOne
<1>6. CalmInv
  BY <1>1, <1>2, <1>3, <1>5 DEF CalmInv, CalmBudget, ConnectsOnce
<1>7. TokenInv
  BY <1>1, <1>5 DEF TokenInv
<1> QED BY <1>6, <1>7

(* Where no router comes to itself by its remote routers, and while none   *)
(* dies, a message reaches the programs of a router once at most, and not  *)
(* those of the router that sent it: QueueMsgHandler keeps it from the     *)
(* link it came by, and no other way leads back.                           *)
THEOREM DeliveredAtMostOnce == NoCircle => (Calm /\ RemoteSpec => []DeliveredOnce)
<1> SUFFICES ASSUME NoCircle PROVE Calm /\ RemoteSpec => []DeliveredOnce
  OBVIOUS
<1> DEFINE I == RemoteInv /\ CalmInv /\ TokenInv
<1>1. RemoteInit /\ Calm => I
  BY RemoteStart, CalmStart
<1>2. I /\ [RemoteNext]_remoteVars => I'
  BY RouterSteps, CalmSteps
<1>3. I => DeliveredOnce
  BY DEF CalmInv, CalmBudget, Calm, TokenInv, DeliveredOnce
<1> HIDE DEF I
<1> QED BY <1>1, <1>2, <1>3, PTL DEF RemoteSpec

-----------------------------------------------------------------------------
(* Threads: what their constants are. *)
USE ThreadAssumption

Doing == {"runs", "sends", "found empty", "waits", "copies", "uses", "joins", "ended", "crashed"}

TypeInv ==
  /\ blocking \in BOOLEAN
  /\ inbox \in [Actor -> Seq(Nat)]
  /\ sent \in [Actor -> Nat] /\ received \in [Actor -> Nat]
  /\ unused \in Nat
  /\ doing \in [Actor -> Doing]
  /\ woken \in [Actor -> BOOLEAN]
  /\ exitFlag \in BOOLEAN

(* Between the look into the list and the wait the list stays empty: the   *)
(* mutex is held.  Only receives that block come here.                     *)
WindowInv ==
  \A a \in Actor :
    /\ doing[a] = "found empty" => inbox[a] = <<>> /\ blocking
    /\ doing[a] = "waits" => blocking

Inv == TypeInv /\ WindowInv /\ ThreadWakes

-----------------------------------------------------------------------------
(* The initial states satisfy the invariant. *)
LEMMA InitInv == ThreadInit => Inv
<1> SUFFICES ASSUME ThreadInit PROVE Inv
  OBVIOUS
<1>1. TypeInv
  <2>1. blocking \in BOOLEAN /\ exitFlag \in BOOLEAN
    BY DEF ThreadInit
  <2>2. inbox \in [Actor -> Seq(Nat)] /\ woken \in [Actor -> BOOLEAN]
    BY DEF ThreadInit
  <2>3. sent \in [Actor -> Nat] /\ received \in [Actor -> Nat] /\ unused \in Nat
    BY DEF ThreadInit
  <2>4. doing \in [Actor -> Doing]
    BY DEF ThreadInit, Doing
  <2> QED BY <2>1, <2>2, <2>3, <2>4 DEF TypeInv
<1>2. \A a \in Actor : doing[a] = "runs"
  BY DEF ThreadInit
<1> QED BY <1>1, <1>2 DEF Inv, WindowInv, ThreadWakes

(* A step of one actor from one place to another keeps the type of doing. *)
LEMMA DoesType ==
  ASSUME TypeInv, NEW a, NEW from, NEW to \in Doing, Does(a, from, to)
  PROVE  doing' \in [Actor -> Doing]
BY DEF TypeInv, Does

(* What a receive takes has the type of a message. *)
LEMMA TakeType ==
  ASSUME TypeInv, NEW a \in Actor, NEW from, Take(a, from)
  PROVE  /\ inbox' \in [Actor -> Seq(Nat)]
         /\ received' \in [Actor -> Nat]
         /\ doing' \in [Actor -> Doing]
<1>1. inbox[a] \in Seq(Nat) /\ inbox[a] # <<>>
  BY DEF Take, TypeInv
<1>2. Head(inbox[a]) \in Nat /\ Tail(inbox[a]) \in Seq(Nat)
  BY <1>1
<1>3. doing' \in [Actor -> Doing]
  BY DoesType DEF Take, Doing
<1> QED BY <1>2, <1>3 DEF Take, TypeInv

(* The types survive every step. *)
LEMMA TypeStep ==
  ASSUME TypeInv, [ThreadNext]_threadVars
  PROVE  TypeInv'
<1>a. "parent" \in Actor /\ "thread" \in Actor /\ \A a \in Actor : Peer(a) \in Actor
  BY DEF Actor, Peer
<1>1. ASSUME NEW a \in Actor, GetNode(a) PROVE TypeInv'
  <2>1. doing' \in [Actor -> Doing]
    BY <1>1, DoesType DEF GetNode, Doing
  <2>2. unused' \in Nat
    BY <1>1 DEF GetNode, TypeInv
  <2> QED BY <1>1, <2>1, <2>2 DEF GetNode, TypeInv
<1>2. ASSUME NEW a \in Actor, Send(a) PROVE TypeInv'
  <2>1. doing' \in [Actor -> Doing]
    BY <1>2, DoesType DEF Send, Doing
  <2>2. sent' \in [Actor -> Nat] /\ sent'[a] \in Nat
    BY <1>2 DEF Send, TypeInv
  <2>3. inbox' \in [Actor -> Seq(Nat)]
    <3>1. inbox[Peer(a)] \in Seq(Nat)
      BY <1>a DEF TypeInv
    <3>2. Append(inbox[Peer(a)], sent'[a]) \in Seq(Nat)
      BY <2>2, <3>1
    <3> QED BY <1>2, <3>2 DEF Send, TypeInv
  <2>4. woken' \in [Actor -> BOOLEAN]
    BY <1>2 DEF Send, Broadcast, TypeInv
  <2> QED BY <1>2, <2>1, <2>2, <2>3, <2>4 DEF Send, TypeInv
<1>4. ASSUME NEW a \in Actor, Receive(a) PROVE TypeInv'
  BY <1>4, TakeType DEF Receive, TypeInv
<1>5. ASSUME NEW a \in Actor, FindEmpty(a) PROVE TypeInv'
  <2>1. doing' \in [Actor -> Doing]
    BY <1>5, DoesType DEF FindEmpty, Doing
  <2> QED BY <1>5, <2>1 DEF FindEmpty, TypeInv
<1>6. ASSUME NEW a \in Actor, Wait(a) PROVE TypeInv'
  <2>1. doing' \in [Actor -> Doing]
    BY <1>6, DoesType DEF Wait, Doing
  <2>2. woken' \in [Actor -> BOOLEAN]
    BY <1>6 DEF Wait, TypeInv
  <2> QED BY <1>6, <2>1, <2>2 DEF Wait, TypeInv
<1>7. ASSUME NEW a \in Actor, GoOn(a) PROVE TypeInv'
  <2>1. CASE Take(a, "waits")
    BY <1>7, <2>1, TakeType DEF GoOn, TypeInv
  <2>2. CASE Does(a, "waits", "crashed") /\ UNCHANGED <<inbox, received>>
    <3>1. doing' \in [Actor -> Doing]
      BY <2>2, DoesType DEF Doing
    <3> QED BY <1>7, <2>2, <3>1 DEF GoOn, TypeInv
  <2> QED BY <1>7, <2>1, <2>2 DEF GoOn
<1>8. ASSUME NEW a \in Actor, Copy(a) PROVE TypeInv'
  <2>1. doing' \in [Actor -> Doing]
    BY <1>8 DEF Copy, Does, Doing, TypeInv
  <2>2. unused' \in Nat
    BY <1>8 DEF Copy, TypeInv
  <2> QED BY <1>8, <2>1, <2>2 DEF Copy, TypeInv
<1>9. ASSUME NEW a \in Actor, Use(a) PROVE TypeInv'
  <2>1. doing' \in [Actor -> Doing]
    BY <1>9, DoesType DEF Use, Doing
  <2>2. unused' \in Nat
    BY <1>9 DEF Use, TypeInv
  <2> QED BY <1>9, <2>1, <2>2 DEF Use, TypeInv
<1>10. CASE radthreadWaitExit
  <2>1. doing' \in [Actor -> Doing]
    BY <1>10, DoesType DEF radthreadWaitExit, Doing
  <2>2. woken' \in [Actor -> BOOLEAN]
    BY <1>10 DEF radthreadWaitExit, Broadcast, TypeInv
  <2> QED BY <1>10, <2>1, <2>2 DEF radthreadWaitExit, TypeInv
<1>11. CASE radthreadShouldExit
  <2>1. doing' \in [Actor -> Doing]
    BY <1>11, DoesType DEF radthreadShouldExit, Doing
  <2> QED BY <1>11, <2>1 DEF radthreadShouldExit, TypeInv
<1>12. CASE Join
  <2>1. doing' \in [Actor -> Doing]
    BY <1>12, DoesType DEF Join, Doing
  <2>2. inbox' \in [Actor -> Seq(Nat)]
    BY <1>12 DEF Join
  <2> QED BY <1>12, <2>1, <2>2 DEF Join, TypeInv
<1>13. CASE UNCHANGED threadVars
  BY <1>13 DEF threadVars, TypeInv
<1> QED BY <1>1, <1>2, <1>4, <1>5, <1>6, <1>7, <1>8, <1>9, <1>10, <1>11, <1>12, <1>13
        DEF ThreadNext, ThreadStep, ThreadCall, Wake, WakeUnsignalled

(* What one actor does, for one actor b: the window and the wake-ups.      *)
ActorWakes(b) ==
  /\ doing[b] = "found empty" => inbox[b] = <<>> /\ blocking
  /\ doing[b] = "waits" => blocking
  /\ doing[b] = "waits" /\ inbox[b] # <<>> => woken[b]
  /\ doing[b] = "waits" /\ inbox[b] = <<>> /\ woken[b] => exitFlag
  /\ doing[b] = "crashed" /\ woken[b] => exitFlag /\ blocking

(* Sequences of messages: an added message makes one longer, a taken one   *)
(* shorter.                                                                *)
LEMMA Lengths ==
  ASSUME NEW q \in Seq(Nat), NEW m \in Nat
  PROVE  /\ Len(q) \in Nat
         /\ Len(Append(q, m)) = Len(q) + 1 /\ Append(q, m) # <<>>
         /\ q # <<>> => Len(Tail(q)) = Len(q) - 1
<1>1. Len(Append(q, m)) = Len(q) + 1
  OBVIOUS
<1>2. Len(<<>>) = 0 /\ Len(q) \in Nat
  OBVIOUS
<1>3. Append(q, m) # <<>>
  BY <1>1, <1>2
<1> QED BY <1>1, <1>2, <1>3

(* A send adds a message of its own number. *)
LEMMA SendType ==
  ASSUME TypeInv, NEW a \in Actor, Send(a)
  PROVE  /\ sent'[a] \in Nat
         /\ Peer(a) \in Actor
         /\ inbox[Peer(a)] \in Seq(Nat)
         /\ inbox' = [inbox EXCEPT ![Peer(a)] = Append(inbox[Peer(a)], sent'[a])]
<1>1. Peer(a) \in Actor
  BY DEF Actor, Peer
<1> QED BY <1>1 DEF Send, TypeInv

(* A message is never sent into the window, and wakes who waits. *)
LEMMA SendWakes ==
  ASSUME TypeInv, NEW a \in Actor, NEW b \in Actor, ActorWakes(b), Send(a)
  PROVE  ActorWakes(b)'
<1> USE DEF TypeInv, Actor, Peer, ActorWakes
<1>1. doing' = [doing EXCEPT ![a] = "runs"] /\ UNCHANGED <<blocking, exitFlag>>
  BY DEF Send, Does
<1>2. CASE b = Peer(a)
  <2>1. b # a /\ doing'[b] = doing[b] /\ doing[b] # "found empty"
    BY <1>1, <1>2 DEF Send, ListFree
  <2>2. woken'[b] = (doing[b] = "waits")
    BY <1>2 DEF Send, Broadcast
  <2>3. sent'[a] \in Nat /\ inbox[b] \in Seq(Nat)
    BY <1>2, SendType
  <2>4. inbox'[b] = Append(inbox[b], sent'[a])
    BY <1>2, SendType
  <2>5. inbox'[b] # <<>>
    BY <2>3, <2>4, Lengths
  <2> QED BY <1>1, <2>1, <2>2, <2>5
<1>3. CASE b # Peer(a)
  <2>1. b = a /\ doing'[b] = "runs"
    BY <1>1, <1>3
  <2> QED BY <2>1
<1> QED BY <1>2, <1>3

(* The window and the wake-ups survive every step. *)
LEMMA WakesStep ==
  ASSUME TypeInv, NEW b \in Actor, ActorWakes(b), [ThreadNext]_threadVars
  PROVE  ActorWakes(b)'
<1> USE DEF TypeInv, Actor, ActorWakes
<1>1. ASSUME NEW a \in Actor, GetNode(a) PROVE ActorWakes(b)'
  BY <1>1 DEF GetNode, Does
<1>2. ASSUME NEW a \in Actor, Send(a) PROVE ActorWakes(b)'
  BY <1>2, SendWakes
<1>3. ASSUME NEW a \in Actor, NEW from, Take(a, from), UNCHANGED <<blocking, woken, exitFlag>>
      PROVE ActorWakes(b)'
  BY <1>3 DEF Take, Does
<1>4. ASSUME NEW a \in Actor, Receive(a) PROVE ActorWakes(b)'
  BY <1>4, <1>3 DEF Receive
<1>5. ASSUME NEW a \in Actor, FindEmpty(a) PROVE ActorWakes(b)'
  BY <1>5 DEF FindEmpty, Does
<1>6. ASSUME NEW a \in Actor, Wait(a) PROVE ActorWakes(b)'
  BY <1>6 DEF Wait, Does
<1>7. ASSUME NEW a \in Actor, GoOn(a) PROVE ActorWakes(b)'
  <2>1. CASE Take(a, "waits")
    BY <1>7, <2>1, <1>3 DEF GoOn
  <2>2. CASE ~ Take(a, "waits")
    BY <1>7, <2>2 DEF GoOn, Does
  <2> QED BY <2>1, <2>2
<1>8. ASSUME NEW a \in Actor, Copy(a) \/ Use(a) PROVE ActorWakes(b)'
  BY <1>8 DEF Copy, Use, Does
<1>9. CASE radthreadWaitExit
  BY <1>9 DEF radthreadWaitExit, Does, Broadcast
<1>10. CASE radthreadShouldExit \/ Join
  BY <1>10 DEF radthreadShouldExit, Join, Does
<1>11. CASE UNCHANGED threadVars
  BY <1>11 DEF threadVars
<1> QED BY <1>1, <1>2, <1>4, <1>5, <1>6, <1>7, <1>8, <1>9, <1>10, <1>11
        DEF ThreadNext, ThreadStep, ThreadCall, Wake, WakeUnsignalled

(* Every step keeps the invariant. *)
LEMMA StepInv == Inv /\ [ThreadNext]_threadVars => Inv'
<1> SUFFICES ASSUME Inv, [ThreadNext]_threadVars PROVE Inv'
  OBVIOUS
<1>1. TypeInv /\ \A b \in Actor : ActorWakes(b)
  BY DEF Inv, WindowInv, ThreadWakes, ActorWakes
<1>2. TypeInv'
  BY <1>1, TypeStep
<1>3. ASSUME NEW b \in Actor PROVE ActorWakes(b)'
  BY <1>1, WakesStep
<1> QED BY <1>2, <1>3 DEF Inv, WindowInv, ThreadWakes, ActorWakes

(* Every blocking receive that waits while there is a message has been     *)
(* woken, and only the end of the thread wakes it without one; what else   *)
(* ends the wait is no signal (radthread.c:197, 272).                      *)
THEOREM NoLostWakeup == ThreadSpec => []ThreadWakes
<1>1. Inv => ThreadWakes
  BY DEF Inv
<1> QED BY InitInv, StepInv, <1>1, PTL DEF ThreadSpec

-----------------------------------------------------------------------------
AtWork == {"sends", "copies", "uses"}
Holds(place) == IF place \in AtWork THEN 1 ELSE 0

(* What the other of the two has is out of an actor's hands. *)
LEMMA HandMoves ==
  ASSUME TypeInv, NEW a \in Actor, NEW from, NEW to, Does(a, from, to)
  PROVE  /\ InHand(a) = Holds(from) /\ InHand(a)' = Holds(to)
         /\ InHand(Peer(a))' = InHand(Peer(a)) /\ InHand(Peer(a)) \in Nat
<1>1. Peer(a) \in Actor /\ Peer(a) # a
  BY DEF Actor, Peer
<1>2. doing[a] = from /\ doing'[a] = to /\ doing'[Peer(a)] = doing[Peer(a)]
  BY <1>1 DEF Does, TypeInv
<1> QED BY <1>2 DEF InHand, Holds, AtWork

(* The number of messages in a list. *)
Size(q) == Len(q)

(* The order of the two in a sum does not matter. *)
LEMMA Commutes ==
  \A u, x, y, g, h \in Nat : u + x + y + g + h = u + y + x + h + g
OBVIOUS

(* All buffers are there. *)
AllThere ==
  unused + Len(inbox["parent"]) + Len(inbox["thread"]) + InHand("parent") + InHand("thread") = Buffers

(* The buffers, as an actor sees them. *)
LEMMA BuffersSum ==
  ASSUME TypeInv, NEW a \in Actor
  PROVE  AllThere <=> unused + Size(inbox[a]) + Size(inbox[Peer(a)])
                             + InHand(a) + InHand(Peer(a)) = Buffers
<1>1. /\ Size(inbox["parent"]) \in Nat /\ Size(inbox["thread"]) \in Nat /\ unused \in Nat
      /\ InHand("parent") \in Nat /\ InHand("thread") \in Nat
  BY DEF TypeInv, Actor, InHand, Size
<1>s. AllThere <=> unused + Size(inbox["parent"]) + Size(inbox["thread"])
                          + InHand("parent") + InHand("thread") = Buffers
  BY DEF AllThere, Size
<1>2. CASE a = "parent"
  BY <1>1, <1>2, <1>s DEF Peer
<1>3. CASE a = "thread"
  <2>1. Peer(a) = "parent"
    BY <1>3 DEF Peer
  <2>2. unused + Size(inbox["parent"]) + Size(inbox["thread"]) + InHand("parent") + InHand("thread")
          = unused + Size(inbox["thread"]) + Size(inbox["parent"]) + InHand("thread") + InHand("parent")
    BY <1>1, Commutes
  <2> QED BY <1>3, <1>s, <2>1, <2>2
<1> QED BY <1>2, <1>3 DEF Actor

(* The same after a step. *)
LEMMA SumAfter ==
  ASSUME TypeInv', NEW a \in Actor
  PROVE  AllThere' <=> unused' + Size(inbox'[a]) + Size(inbox'[Peer(a)])
                              + InHand(a)' + InHand(Peer(a))' = Buffers
<1>1. /\ Size(inbox'["parent"]) \in Nat /\ Size(inbox'["thread"]) \in Nat /\ unused' \in Nat
      /\ InHand("parent")' \in Nat /\ InHand("thread")' \in Nat
  BY DEF TypeInv, Actor, InHand, Size
<1>s. AllThere' <=> unused' + Size(inbox'["parent"]) + Size(inbox'["thread"])
                           + InHand("parent")' + InHand("thread")' = Buffers
  BY DEF AllThere, Size
<1>2. CASE a = "parent"
  BY <1>1, <1>2, <1>s DEF Peer
<1>3. CASE a = "thread"
  <2>1. Peer(a) = "parent"
    BY <1>3 DEF Peer
  <2>2. unused' + Size(inbox'["parent"]) + Size(inbox'["thread"]) + InHand("parent")' + InHand("thread")'
          = unused' + Size(inbox'["thread"]) + Size(inbox'["parent"]) + InHand("thread")' + InHand("parent")'
    BY <1>1, Commutes
  <2> QED BY <1>3, <1>s, <2>1, <2>2
<1> QED BY <1>2, <1>3 DEF Actor

(* The sum of the buffers stays: one actor's step moves at most one. *)
LEMMA BuffersStep ==
  ASSUME TypeInv, AllThere, [ThreadNext]_threadVars, ~ Join
  PROVE  AllThere'
<1>t. TypeInv'
  BY TypeStep
<1>p. \A a \in Actor : Peer(a) \in Actor /\ Peer(a) # a
  BY DEF Actor, Peer
<1>l. \A a \in Actor : /\ Size(inbox[a]) \in Nat /\ Size(inbox[Peer(a)]) \in Nat
                      /\ Size(inbox'[a]) \in Nat /\ Size(inbox'[Peer(a)]) \in Nat
  BY <1>t, <1>p DEF TypeInv, Size
<1>u. unused \in Nat /\ unused' \in Nat
  BY <1>t DEF TypeInv
<1>m. ASSUME NEW a \in Actor, NEW from, NEW to, Does(a, from, to),
             unused' + Size(inbox'[a]) + Size(inbox'[Peer(a)]) + Holds(to)
               = unused + Size(inbox[a]) + Size(inbox[Peer(a)]) + Holds(from)
      PROVE AllThere'
  <2>1. unused + Size(inbox[a]) + Size(inbox[Peer(a)]) + InHand(a) + InHand(Peer(a)) = Buffers
    BY BuffersSum
  <2>2. /\ InHand(a) = Holds(from) /\ InHand(a)' = Holds(to)
        /\ InHand(Peer(a))' = InHand(Peer(a)) /\ InHand(Peer(a)) \in Nat
    BY <1>m, HandMoves
  <2>3. Holds(from) \in Nat /\ Holds(to) \in Nat
    BY DEF Holds
  <2>4. Peer(a) \in Actor
    BY <1>p
  <2>5. unused' + Size(inbox'[a]) + Size(inbox'[Peer(a)]) + InHand(a)' + InHand(Peer(a))' = Buffers
    BY <1>m, <1>l, <1>u, <2>1, <2>2, <2>3, <2>4
  <2> QED BY <1>t, <2>5, SumAfter
<1>h. /\ Holds("sends") = 1 /\ Holds("copies") = 1 /\ Holds("uses") = 1
      /\ \A x \in {"runs", "found empty", "waits", "joins", "ended", "crashed"} : Holds(x) = 0
  BY DEF Holds, AtWork
<1>1. ASSUME NEW a \in Actor, GetNode(a) PROVE AllThere'
  <2>1. unused' = unused - 1 /\ inbox' = inbox /\ Does(a, "runs", "sends")
    BY <1>1 DEF GetNode
  <2>s. Size(inbox[a]) \in Nat /\ Size(inbox[Peer(a)]) \in Nat
    BY <1>l
  <2>h. Holds("runs") = 0 /\ Holds("sends") = 1
    BY <1>h
  <2>2. unused' + Size(inbox'[a]) + Size(inbox'[Peer(a)]) + Holds("sends")
         = unused + Size(inbox[a]) + Size(inbox[Peer(a)]) + Holds("runs")
    BY <1>u, <2>1, <2>s, <2>h
  <2> QED BY <1>m, <2>1, <2>2
<1>2. ASSUME NEW a \in Actor, Send(a) PROVE AllThere'
  <2>1. Does(a, "sends", "runs") /\ unused' = unused
    BY <1>2 DEF Send
  <2>2. Size(inbox'[Peer(a)]) = Size(inbox[Peer(a)]) + 1
    <3>1. inbox'[Peer(a)] = Append(inbox[Peer(a)], sent'[a])
      BY <1>2, SendType DEF TypeInv
    <3> QED BY <3>1, <1>2, SendType, Lengths DEF Size
  <2>3. inbox'[a] = inbox[a]
    BY <1>2, <1>p, SendType DEF TypeInv
  <2>s. Size(inbox[a]) \in Nat /\ Size(inbox[Peer(a)]) \in Nat
    BY <1>l
  <2>h. Holds("sends") = 1 /\ Holds("runs") = 0
    BY <1>h
  <2>4. unused' + Size(inbox'[a]) + Size(inbox'[Peer(a)]) + Holds("runs")
         = unused + Size(inbox[a]) + Size(inbox[Peer(a)]) + Holds("sends")
    BY <1>u, <2>1, <2>2, <2>3, <2>s, <2>h
  <2> QED BY <1>m, <2>1, <2>4
<1>3. ASSUME NEW a \in Actor, NEW from \in {"runs", "waits"}, Take(a, from), unused' = unused
      PROVE AllThere'
  <2>1. Does(a, from, "copies")
    BY <1>3 DEF Take
  <2>2. inbox[a] \in Seq(Nat) /\ inbox[a] # <<>>
    BY <1>3 DEF Take, TypeInv
  <2>3. Size(inbox'[a]) = Size(inbox[a]) - 1
    <3>1. inbox'[a] = Tail(inbox[a])
      BY <1>3 DEF Take, TypeInv
    <3> QED BY <2>2, <3>1, Lengths DEF Size
  <2>4. inbox'[Peer(a)] = inbox[Peer(a)]
    BY <1>3, <1>p DEF Take, TypeInv
  <2>s. Size(inbox[a]) \in Nat /\ Size(inbox[Peer(a)]) \in Nat
    BY <1>l
  <2>h. Holds(from) = 0 /\ Holds("copies") = 1
    BY <1>h
  <2>5. unused' + Size(inbox'[a]) + Size(inbox'[Peer(a)]) + Holds("copies")
         = unused + Size(inbox[a]) + Size(inbox[Peer(a)]) + Holds(from)
    BY <1>3, <1>u, <2>3, <2>4, <2>s, <2>h
  <2> QED BY <1>m, <2>1, <2>5
<1>4. ASSUME NEW a \in Actor, Receive(a) PROVE AllThere'
  BY <1>4, <1>3 DEF Receive
<1>5. ASSUME NEW a \in Actor, NEW from \in {"runs", "found empty", "waits", "joins"},
             NEW to \in {"found empty", "waits", "joins", "ended", "crashed"},
             Does(a, from, to), unused' = unused, inbox' = inbox
      PROVE AllThere'
  <2>1. Holds(from) = Holds(to)
    BY <1>h
  <2> QED BY <1>5, <1>m, <2>1
<1>6. ASSUME NEW a \in Actor, FindEmpty(a) \/ Wait(a) PROVE AllThere'
  BY <1>6, <1>5 DEF FindEmpty, Wait
<1>7. ASSUME NEW a \in Actor, GoOn(a) PROVE AllThere'
  BY <1>7, <1>3, <1>5 DEF GoOn
<1>8. ASSUME NEW a \in Actor, Copy(a) PROVE AllThere'
  <2>1. inbox' = inbox
    BY <1>8 DEF Copy
  <2>2. CASE unused > 0
    <3>1. Does(a, "copies", "uses") /\ unused' = unused
      BY <1>8, <2>2 DEF Copy
    <3> QED BY <1>h, <1>m, <2>1, <3>1
  <2>3. CASE ~ unused > 0
    <3>1. Does(a, "copies", "runs") /\ unused' = unused + 1
      BY <1>8, <2>3 DEF Copy
    <3>s. Size(inbox[a]) \in Nat /\ Size(inbox[Peer(a)]) \in Nat
      BY <1>l
    <3>h. Holds("copies") = 1 /\ Holds("runs") = 0
      BY <1>h
    <3>2. unused' + Size(inbox'[a]) + Size(inbox'[Peer(a)]) + Holds("runs")
         = unused + Size(inbox[a]) + Size(inbox[Peer(a)]) + Holds("copies")
      BY <1>u, <2>1, <3>1, <3>s, <3>h
    <3> QED BY <1>m, <3>1, <3>2
  <2> QED BY <2>2, <2>3
<1>9. ASSUME NEW a \in Actor, Use(a) PROVE AllThere'
  <2>1. Does(a, "uses", "runs") /\ inbox' = inbox /\ unused' = unused + 1
    BY <1>9 DEF Use
  <2>s. Size(inbox[a]) \in Nat /\ Size(inbox[Peer(a)]) \in Nat
    BY <1>l
  <2>h. Holds("uses") = 1 /\ Holds("runs") = 0
    BY <1>h
  <2>2. unused' + Size(inbox'[a]) + Size(inbox'[Peer(a)]) + Holds("runs")
         = unused + Size(inbox[a]) + Size(inbox[Peer(a)]) + Holds("uses")
    BY <1>u, <2>1, <2>s, <2>h
  <2> QED BY <1>m, <2>1, <2>2
<1>10. CASE radthreadWaitExit \/ radthreadShouldExit
  <2>1. "parent" \in Actor /\ "thread" \in Actor
    BY DEF Actor
  <2> QED BY <1>10, <1>5, <2>1 DEF radthreadWaitExit, radthreadShouldExit
<1>11. CASE UNCHANGED threadVars
  BY <1>11 DEF threadVars, AllThere, InHand
<1> QED BY <1>1, <1>2, <1>4, <1>6, <1>7, <1>8, <1>9, <1>10, <1>11
        DEF ThreadNext, ThreadStep, ThreadCall, Wake, WakeUnsignalled

(* Once it has ended the thread, the parent does nothing more with it. *)
LEMMA EndedStays ==
  ASSUME TypeInv, [ThreadNext]_threadVars, doing'["parent"] # "ended"
  PROVE  doing["parent"] # "ended" /\ ~ Join
<1>1. "parent" \in Actor
  BY DEF Actor
<1>2. ASSUME NEW a \in Actor, NEW from, NEW to, Does(a, from, to), from # "ended"
      PROVE  doing["parent"] # "ended"
  BY <1>1, <1>2 DEF Does, TypeInv
<1>3. ASSUME NEW a \in Actor, \/ GetNode(a) \/ Send(a) \/ Receive(a) \/ FindEmpty(a) \/ Wait(a)
                              \/ GoOn(a) \/ Copy(a) \/ Use(a)
      PROVE  doing["parent"] # "ended"
  BY <1>2, <1>3 DEF GetNode, Send, Receive, FindEmpty, Wait, GoOn, Take, Copy, Use
<1>4. CASE Join
  <2>1. doing'["parent"] = "ended"
    BY <1>1, <1>4 DEF Join, Does, TypeInv
  <2> QED BY <2>1
<1>5. CASE radthreadWaitExit \/ radthreadShouldExit
  <2>1. "thread" \in Actor
    BY DEF Actor
  <2>2. doing["parent"] # "ended"
    BY <1>1, <1>2, <1>5, <2>1 DEF radthreadWaitExit, radthreadShouldExit
  <2>3. ~ Join
    BY <1>4
  <2> QED BY <2>2, <2>3
<1>6. CASE UNCHANGED threadVars
  BY <1>4, <1>6 DEF threadVars
<1> QED BY <1>3, <1>4, <1>5, <1>6 DEF ThreadNext, ThreadStep, ThreadCall, Wake, WakeUnsignalled

(* No buffer is lost or doubled between the two until the thread is ended: *)
(* each one that was there at first is free, in a list, or in the hands of *)
(* a call or a program (radthreadSendToThread, radthreadReceiveFromThread, *)
(* and the same from the other side).                                      *)
THEOREM BuffersKept == ThreadSpec => []ThreadBuffers
<1>1. ThreadInit => TypeInv /\ ThreadBuffers
  <2> SUFFICES ASSUME ThreadInit PROVE TypeInv /\ ThreadBuffers
    OBVIOUS
  <2>1. TypeInv
    BY InitInv DEF Inv
  <2>2. inbox["parent"] = <<>> /\ inbox["thread"] = <<>>
    BY DEF ThreadInit, Actor
  <2>3. doing["parent"] = "runs" /\ doing["thread"] = "runs" /\ unused = Buffers
    BY DEF ThreadInit, Actor
  <2> QED BY <2>1, <2>2, <2>3 DEF ThreadBuffers, InHand
<1>2. ASSUME TypeInv, ThreadBuffers, [ThreadNext]_threadVars PROVE (TypeInv /\ ThreadBuffers)'
  <2>1. TypeInv'
    BY <1>2, TypeStep
  <2>2. ASSUME doing'["parent"] # "ended" PROVE AllThere'
    <3>1. doing["parent"] # "ended" /\ ~ Join
      BY <1>2, <2>2, EndedStays
    <3>2. AllThere
      BY <1>2, <3>1 DEF ThreadBuffers, AllThere
    <3> QED BY <1>2, <3>1, <3>2, BuffersStep
  <2> QED BY <2>1, <2>2 DEF ThreadBuffers, AllThere
<1> QED BY <1>1, <1>2, PTL DEF ThreadSpec
=============================================================================
