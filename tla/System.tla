------------------------------- MODULE System -------------------------------
(***************************************************************************)
(* The start and the end of the processes of radlib systems                *)
(* (src/radsystem.c, with radSemProcessInit, radSemSetDestroy,             *)
(* radShmemInit and radQueueSystemInit): one kernel semaphore guards one   *)
(* shared table of systems; the first process of a system makes its        *)
(* semaphore set, buffers and queue table, and the last one destroys them. *)
(* A kernel object that was removed stays known by its number to those who *)
(* had it, and every call with it fails: to them it is stale.              *)
(*                                                                         *)
(* The counts of the shared table are plain ++ and --, read and written in *)
(* steps of their own; nothing but the semaphore keeps them together.      *)
(***************************************************************************)
EXTENDS Integers, FiniteSets

CONSTANTS
  Proc,      \* processes
  SystemID,  \* systems
  MaxFailures \* calls of the kernel that fail, and deaths, at most

ASSUME SystemAssumption == IsFiniteSet(Proc)

None == -1

(* The facilities of a system besides its semaphores. *)
Facility == {"buffers", "table"}

VARIABLES
  sysSem,    \* the value of the system semaphore, None without one
  semId,     \* systemWork.semId of each process: none, current or stale
  share,     \* the segment: numAttached and the systems' numprocs
  attached,  \* systemWork.share of each process: none, current or stale
  seen,      \* the count each process has read to add to it
  semSet,    \* is there a semaphore set of the system?
  lock,      \* the values of its semaphores
  exists,    \* which facilities of the system exist
  uses,      \* the semaphore set of each process: none, current or stale
  phase,     \* where each process is
  system,    \* the system of each process
  failures,  \* calls that have failed, waits cut short, and deaths
  disturbed  \* history: the semaphore has let in a second process

sysVars == <<sysSem, semId, share, attached, seen, semSet, lock, exists, uses, phase, system,
             failures, disturbed>>

NoShare == [numAttached |-> 0, numprocs |-> [i \in SystemID |-> 0]]

SystemInit ==
  /\ sysSem = None
  /\ semId = [p \in Proc |-> "none"]
  /\ share = NoShare
  /\ attached = [p \in Proc |-> "none"]
  /\ seen = [p \in Proc |-> 0]
  /\ semSet = [i \in SystemID |-> FALSE]
  /\ lock = [i \in SystemID |-> [f \in Facility |-> 0]]
  /\ exists = [i \in SystemID |-> {}]
  /\ uses = [p \in Proc |-> "none"]
  /\ phase = [p \in Proc |-> "out"]
  /\ system \in [Proc -> SystemID]
  /\ failures = 0 /\ disturbed = FALSE

(* Whether the segment exists is whether somebody is attached by its       *)
(* count: it is removed when the count reaches 0.                          *)
ShareExists == share.numAttached > 0

Moves(p, from, to) ==
  /\ phase[p] = from
  /\ phase' = [phase EXCEPT ![p] = to]
  /\ UNCHANGED system

(* Between semTake and semGive. *)
Guarded == {"attach", "count", "facilities", "blocked", "register", "enter",
            "leave", "uncount", "detach", "drop"}
Inside == {p \in Proc : phase[p] \in Guarded}

(* A removed object is stale for all who knew it. *)
Stale(known, S) == [p \in Proc |-> IF p \in S /\ known[p] = "current" THEN "stale" ELSE known[p]]

Fails == failures < MaxFailures /\ failures' = failures + 1

(* semInit: the semaphore, created with value 0 if there is none ... *)
SemGet(p) ==
  /\ Moves(p, "out", "set")
  /\ sysSem' = IF sysSem = None THEN 0 ELSE sysSem
  /\ semId' = [semId EXCEPT ![p] = "current"]
  /\ UNCHANGED <<share, attached, seen, semSet, lock, exists, uses, disturbed>>

(* ... is set to 1, whoever has it; semctl fails when it was removed.      *)
SemSetVal(p) ==
  /\ Moves(p, "set", IF semId[p] = "current" THEN "take" ELSE "out")
  /\ sysSem' = IF semId[p] = "current" THEN 1 ELSE sysSem
  /\ disturbed' = (disturbed \/ (semId[p] = "current" /\ Inside # {}))
  /\ UNCHANGED <<semId, share, attached, seen, semSet, lock, exists, uses>>

(* semTake does not look at the answer of semop: who waits for a semaphore *)
(* that is removed goes on without it ...                                  *)
semTake(p, from, to) ==
  /\ Moves(p, from, to)
  /\ \/ semId[p] = "stale" /\ disturbed' = TRUE /\ UNCHANGED sysSem
     \/ semId[p] = "current" /\ sysSem > 0 /\ sysSem' = sysSem - 1 /\ UNCHANGED disturbed
  /\ UNCHANGED <<semId, share, attached, seen, semSet, lock, exists, uses>>

(* ... and so does who waits when a signal comes: a wait is not taken up   *)
(* again after a handler.                                                  *)
semTakeInterrupted(p, from, to) ==
  /\ Fails
  /\ Moves(p, from, to)
  /\ semId[p] = "current" /\ sysSem = 0
  /\ disturbed' = TRUE
  /\ UNCHANGED <<sysSem, semId, share, attached, seen, semSet, lock, exists, uses>>

semGive(p) == sysSem' = IF semId[p] = "current" THEN sysSem + 1 ELSE sysSem

StartTakes(p) == semTake(p, "take", "attach")

StartInterrupted(p) == semTakeInterrupted(p, "take", "attach")

(* The segment is attached to, and its count read, or there is none ...    *)
FindShare(p) ==
  /\ Moves(p, "attach", "count")
  /\ IF ShareExists
     THEN /\ attached' = [attached EXCEPT ![p] = "current"]
          /\ seen' = [seen EXCEPT ![p] = share.numAttached]
     ELSE /\ seen' = [seen EXCEPT ![p] = None]
          /\ UNCHANGED attached
  /\ UNCHANGED <<sysSem, semId, share, semSet, lock, exists, uses, disturbed>>

(* ... and the process added, or one made and cleared, also when another   *)
(* has made one since.                                                     *)
AttachShare(p) ==
  /\ Moves(p, "count", "facilities")
  /\ attached' = [attached EXCEPT ![p] = IF seen[p] = None THEN "current" ELSE @]
  /\ share' = IF seen[p] = None THEN [NoShare EXCEPT !.numAttached = 1]
              ELSE IF attached[p] = "current" THEN [share EXCEPT !.numAttached = seen[p] + 1]
              ELSE share
  /\ UNCHANGED <<sysSem, semId, seen, semSet, lock, exists, uses, disturbed>>

(* A failure of shmget or shmat answers ERROR with the semaphore taken.    *)
AttachFails(p) ==
  /\ Fails
  /\ Moves(p, "attach", "out")
  /\ UNCHANGED <<sysSem, semId, share, attached, seen, semSet, lock, exists, uses, disturbed>>

(* radShmemInit: a new segment gets its semaphore set to 1, for one that   *)
(* exists the semaphore is left as it is.                                  *)
LockAfterInit(i, locks) == [f \in Facility |-> IF f \in exists[i] THEN locks[f] ELSE 1]

(* Whether a process finds the count of its system at 0: a segment that    *)
(* was removed keeps counts of its own, which may be anything.             *)
Finds(p, first) == attached[p] = "current" => (first <=> share.numprocs[system[p]] = 0)

(* The first process of a system destroys what semaphores there are and    *)
(* makes everything.  radQueueSystemInit clears the table under its lock,  *)
(* and waits for ever when that is 0.                                      *)
MakeFacilities(p) ==
  LET i == system[p]
      fresh == LockAfterInit(i, [f \in Facility |-> 0])
  IN  /\ Finds(p, TRUE)
      /\ Moves(p, "facilities", IF fresh["table"] = 0 THEN "blocked" ELSE "register")
      /\ semSet' = [semSet EXCEPT ![i] = TRUE]
      /\ lock' = [lock EXCEPT ![i] = fresh]
      /\ exists' = [exists EXCEPT ![i] = Facility]
      /\ uses' = [Stale(uses, {q \in Proc : system[q] = i}) EXCEPT ![p] = "current"]
      /\ UNCHANGED <<sysSem, semId, share, attached, seen, disturbed>>

(* One of the three fails: what was made before is destroyed, the          *)
(* semaphore given back, the count of attached processes stays.            *)
MakeFails(p) ==
  LET i == system[p]
  IN  /\ Fails
      /\ Finds(p, TRUE)
      /\ Moves(p, "facilities", "out")
      /\ semSet' = [semSet EXCEPT ![i] = FALSE]
      /\ uses' = Stale(uses, {q \in Proc : system[q] = i})
      /\ exists' \in [SystemID -> SUBSET Facility]
      /\ \A j \in SystemID \ {i} : exists'[j] = exists[j]
      /\ exists'[i] \in {exists[i], exists[i] \ {"buffers"}}
      /\ semGive(p)
      /\ UNCHANGED <<semId, share, attached, seen, lock, disturbed>>

(* A later process attaches to what there is; without buffers it fails.    *)
AttachFacilities(p) ==
  LET i == system[p]
  IN  /\ Finds(p, FALSE)
      /\ "buffers" \in exists[i]
      /\ Moves(p, "facilities", "register")
      /\ lock' = [lock EXCEPT ![i] = LockAfterInit(i, IF semSet[i] THEN @ ELSE [f \in Facility |-> 0])]
      /\ exists' = [exists EXCEPT ![i] = Facility]
      /\ semSet' = [semSet EXCEPT ![i] = TRUE]
      /\ uses' = [uses EXCEPT ![p] = "current"]
      /\ UNCHANGED <<sysSem, semId, share, attached, seen, disturbed>>

AttachFacilitiesFails(p) ==
  LET i == system[p]
  IN  /\ Finds(p, FALSE)
      /\ IF "buffers" \in exists[i] THEN Fails ELSE UNCHANGED failures
      /\ Moves(p, "facilities", "out")
      /\ semGive(p)
      /\ UNCHANGED <<semId, share, attached, seen, semSet, lock, exists, uses, disturbed>>

(* The count of the system is read, to be written one greater or smaller.  *)
ReadProcs(p, from, to) ==
  /\ Moves(p, from, to)
  /\ seen' = [seen EXCEPT ![p] = share.numprocs[system[p]]]
  /\ UNCHANGED <<sysSem, semId, share, attached, semSet, lock, exists, uses, disturbed>>

WriteProcs(p, n) ==
  share' = IF attached[p] = "current" THEN [share EXCEPT !.numprocs[system[p]] = n] ELSE share

RegisterReads(p) == ReadProcs(p, "register", "enter")

Register(p) ==
  /\ Moves(p, "enter", "in")
  /\ WriteProcs(p, seen[p] + 1)
  /\ semGive(p)
  /\ UNCHANGED <<semId, attached, seen, semSet, lock, exists, uses, disturbed>>

-----------------------------------------------------------------------------
(* radSystemExit *)
ExitTakes(p) == semTake(p, "in", "leave")

ExitInterrupted(p) == semTakeInterrupted(p, "in", "leave")

LeaveReads(p) == ReadProcs(p, "leave", "uncount")

(* Mutant: the facilities go when one process is left. *)
LastOfTwo(p, last) == attached[p] = "current" => (last <=> seen[p] <= 2)

(* Whether the count has come down to 0. *)
IsLast(p, last) == attached[p] = "current" => (last <=> seen[p] = 1)

(* The last one of the system destroys the facilities: the semaphores by   *)
(* their key, the others as it knows them.                                 *)
LeaveSystem(p) ==
  LET i == system[p]
  IN  /\ Moves(p, "uncount", "detach")
      /\ WriteProcs(p, seen[p] - 1)
      /\ \/ /\ IsLast(p, TRUE)
            /\ semSet' = [semSet EXCEPT ![i] = FALSE]
            /\ exists' = [exists EXCEPT ![i] = IF uses[p] = "current" THEN {} ELSE @]
            /\ uses' = [Stale(uses, {q \in Proc : system[q] = i}) EXCEPT ![p] = "none"]
         \/ /\ IsLast(p, FALSE)
            /\ uses' = [uses EXCEPT ![p] = "none"]
            /\ UNCHANGED <<semSet, exists>>
      /\ UNCHANGED <<sysSem, semId, attached, seen, lock, disturbed>>

DetachReads(p) ==
  /\ Moves(p, "detach", "drop")
  /\ seen' = [seen EXCEPT ![p] = share.numAttached]
  /\ UNCHANGED <<sysSem, semId, share, attached, semSet, lock, exists, uses, disturbed>>

(* The last one of all removes the segment and the semaphore. *)
Leave(p) ==
  /\ Moves(p, "drop", "out")
  /\ \/ /\ IsLast(p, TRUE)
        /\ share' = IF attached[p] = "current" THEN NoShare ELSE share
        /\ attached' = [IF attached[p] = "current" THEN Stale(attached, Proc) ELSE attached
                          EXCEPT ![p] = "none"]
        /\ sysSem' = IF semId[p] = "current" THEN None ELSE sysSem
        /\ semId' = IF semId[p] = "current"
                    THEN [Stale(semId, Proc) EXCEPT ![p] = "none"] ELSE semId
     \/ /\ IsLast(p, FALSE)
        /\ share' = IF attached[p] = "current" THEN [share EXCEPT !.numAttached = seen[p] - 1] ELSE share
        /\ attached' = [attached EXCEPT ![p] = "none"]
        /\ semGive(p)
        /\ semId' = [semId EXCEPT ![p] = "none"]
  /\ UNCHANGED <<seen, semSet, lock, exists, uses, disturbed>>

(* A process dies. *)
Dies(p) ==
  /\ Fails
  /\ Moves(p, "in", "out")
  /\ uses' = [uses EXCEPT ![p] = "none"]
  /\ attached' = [attached EXCEPT ![p] = "none"]
  /\ semId' = [semId EXCEPT ![p] = "none"]
  /\ UNCHANGED <<sysSem, share, seen, semSet, lock, exists, disturbed>>

SystemStep(p) ==
  /\ \/ SemSetVal(p) \/ StartTakes(p) \/ FindShare(p) \/ AttachShare(p)
     \/ MakeFacilities(p) \/ AttachFacilities(p) \/ RegisterReads(p) \/ Register(p)
     \/ LeaveReads(p) \/ LeaveSystem(p) \/ DetachReads(p) \/ Leave(p)
  /\ UNCHANGED failures

SystemFailure(p) ==
  StartInterrupted(p) \/ AttachFails(p) \/ MakeFails(p) \/ AttachFacilitiesFails(p) \/ Dies(p)

SystemExit(p) == ExitInterrupted(p) \/ (ExitTakes(p) /\ UNCHANGED failures)

SystemCall(p) == SystemExit(p) \/ (SemGet(p) /\ UNCHANGED failures)

SystemNext == \E p \in Proc : SystemCall(p) \/ SystemStep(p) \/ SystemFailure(p)

SystemSpec == SystemInit /\ [][SystemNext]_sysVars

-----------------------------------------------------------------------------
(* All processes of a system use the same semaphores, buffers and table,   *)
(* and these exist until the last one leaves: the first makes them, and    *)
(* the others only register.  That holds as long as the semaphore keeps    *)
(* them apart, which it does unless a process starts, and sets it to 1,    *)
(* while another is starting or leaving (radsystem.c:95), or one goes on   *)
(* without it, since it was removed or a signal came (radsystem.c:107):    *)
(* then a count may be written over, and the facilities go under those who *)
(* use them.                                                               *)
UsersShare ==
  ~ disturbed =>
    /\ Cardinality(Inside) <= 1
    /\ \A p \in Proc : phase[p] = "in" =>
         uses[p] = "current" /\ semSet[system[p]] /\ exists[system[p]] = Facility
=============================================================================
