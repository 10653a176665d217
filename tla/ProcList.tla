------------------------------- MODULE ProcList -------------------------------
(***************************************************************************)
(* A program whose parent process starts the others from a process list    *)
(* (src/radproclist.c): in the order of their priorities, one when the     *)
(* last has signalled that it is ready.  Each child starts the radlib      *)
(* system for itself (module System) before it signals; so the list also   *)
(* keeps the starts of one system apart.                                   *)
(***************************************************************************)
EXTENDS System, Sequences, SequencesExt

CONSTANTS
  Parent,   \* the process with the list
  Priority  \* priorities of radPlistAdd

ASSUME ProcListAssumption == Parent \in Proc /\ Priority \subseteq 1 .. 100

Child == Proc \ {Parent}

(* The priority radPlistAddandStart and radPlistAddPid give. *)
Late == 101

VARIABLES
  procList,   \* plistId->procList: entries with their priority and pid
  hasStarted, \* plistId->hasStarted
  ready,      \* the value of plistId->semId
  at,         \* what the parent does, and the entry it has come to
  signalled,  \* history: children that have called radPlistProcessReady
  broken,     \* history: children that were not started, or ended before they were ready
  hasty       \* history: the parent went on without a signal

listVars == <<procList, hasStarted, ready, at, signalled, broken, hasty>>

procVars == <<sysVars, listVars>>

(* node->pid: 0 before the start, ERROR when fork failed. *)
NoPid == "0"
Failed == "ERROR"

ASSUME PidAssumption == NoPid \notin Proc /\ Failed \notin Proc

ProcListInit ==
  /\ SystemInit
  /\ \A p \in Proc : system[p] = system[Parent]  \* radStartProcess hands it on
  /\ procList = <<>> /\ hasStarted = FALSE /\ ready = 0
  /\ at = [does |-> "idle", entry |-> 0]
  /\ signalled = {} /\ broken = {} /\ hasty = FALSE

Idle == at.does = "idle" /\ phase[Parent] = "in"

Listed(c) == \E k \in DOMAIN procList : procList[k].entry = c

(* Mutant: the list is in descending order. *)
insertDescending(node) ==
  LET behind == {k \in DOMAIN procList : procList[k].priority >= node.priority}
  IN  procList' = InsertAt(procList, Cardinality(behind) + 1, node)

(* Behind all entries whose priority is not greater. *)
insertAscending(node) ==
  LET before == {k \in DOMAIN procList : procList[k].priority <= node.priority}
  IN  procList' = InsertAt(procList, Cardinality(before) + 1, node)

radPlistAdd(c, priority) ==
  /\ Idle /\ ~ hasStarted
  /\ ~ Listed(c)
  /\ insertAscending([entry |-> c, priority |-> priority, pid |-> NoPid])
  /\ UNCHANGED <<sysVars, hasStarted, ready, at, signalled, broken, hasty>>

radPlistStart ==
  /\ Idle /\ ~ hasStarted
  /\ procList # <<>>
  /\ hasStarted' = TRUE
  /\ at' = [does |-> "fork", entry |-> 1]
  /\ UNCHANGED <<sysVars, procList, ready, signalled, broken, hasty>>

(* radStartProcess for the entry the parent is at: the child runs, or fork *)
(* fails.                                                                  *)
radStartProcess ==
  /\ at.does = "fork" /\ phase[Parent] = "in"
  /\ at' = [at EXCEPT !.does = "wait"]
  /\ LET c == procList[at.entry].entry
     IN  \/ /\ phase[c] = "out"
            /\ phase' = [phase EXCEPT ![c] = "child"]
            /\ procList' = [procList EXCEPT ![at.entry].pid = c]
            /\ UNCHANGED <<broken, failures>>
         \/ /\ Fails
            /\ procList' = [procList EXCEPT ![at.entry].pid = Failed]
            /\ broken' = broken \cup {c}
            /\ UNCHANGED phase
  /\ UNCHANGED <<sysSem, semId, share, attached, seen, semSet, lock, exists, uses, system, disturbed,
                 hasStarted, ready, signalled, hasty>>

(* The next entry of the list, of which those that were added later come   *)
(* last, or back to the caller.                                            *)
GoesOn ==
  at' = IF at.entry < Len(procList) /\ procList[at.entry].priority # Late
        THEN [does |-> "fork", entry |-> at.entry + 1] ELSE [does |-> "idle", entry |-> 0]

(* The semaphore is taken, or it is none any more ... *)
ChildReady ==
  /\ at.does = "wait" /\ phase[Parent] = "in"
  /\ IF uses[Parent] = "current" THEN ready > 0 /\ ready' = ready - 1 /\ UNCHANGED hasty
                                 ELSE hasty' = TRUE /\ UNCHANGED ready
  /\ GoesOn
  /\ UNCHANGED <<sysVars, procList, hasStarted, signalled, broken>>

(* ... or a signal ends the wait for it, which radSemTake does not tell    *)
(* from having taken it.                                                   *)
WaitInterrupted ==
  /\ Fails
  /\ at.does = "wait" /\ phase[Parent] = "in"
  /\ uses[Parent] = "current" /\ ready = 0
  /\ hasty' = TRUE
  /\ GoesOn
  /\ UNCHANGED <<sysSem, semId, share, attached, seen, semSet, lock, exists, uses, phase, system, disturbed,
                 procList, hasStarted, ready, signalled, broken>>

(* A child begins with radSystemInit of the system of its parent ... *)
ChildStarts(c) ==
  /\ phase[c] = "child"
  /\ phase' = [phase EXCEPT ![c] = "set"]
  /\ sysSem' = IF sysSem = None THEN 0 ELSE sysSem
  /\ semId' = [semId EXCEPT ![c] = "current"]
  /\ UNCHANGED <<share, attached, seen, semSet, lock, exists, uses, system, failures, disturbed, listVars>>

(* Mutant: the child does not give the semaphore. *)
NeverSignals(c) ==
  /\ phase[c] = "in" /\ c \notin signalled /\ c \in Child
  /\ signalled' = signalled \cup {c}
  /\ UNCHANGED <<sysVars, procList, hasStarted, ready, at, broken, hasty>>

(* ... and signals when it is initialised: radPlistProcessReady, with the  *)
(* semaphores it knows.                                                    *)
radPlistProcessReady(c) ==
  /\ phase[c] = "in" /\ c \notin signalled /\ c \in Child
  /\ ready' = IF uses[c] = "current" /\ uses[Parent] # "stale" THEN ready + 1 ELSE ready
  /\ signalled' = signalled \cup {c}
  /\ UNCHANGED <<sysVars, procList, hasStarted, at, broken, hasty>>

(* A process is added and started when the list has been; each child is a  *)
(* process of its own, and none begins twice.                              *)
radPlistAddandStart(c) ==
  /\ Idle /\ hasStarted
  /\ c \in Child /\ phase[c] = "out" /\ ~ Listed(c) /\ c \notin signalled \cup broken
  /\ insertAscending([entry |-> c, priority |-> Late, pid |-> NoPid])
  /\ at' = [does |-> "fork", entry |-> Len(procList) + 1]
  /\ UNCHANGED <<sysVars, hasStarted, ready, signalled, broken, hasty>>

(* The parent hears of the end of a child; radPlistRemovePid. *)
radPlistRemovePid(c) ==
  /\ Idle
  /\ phase[c] = "out"
  /\ \E k \in DOMAIN procList : /\ procList[k].pid = c
                                /\ procList' = RemoveAt(procList, k)
  /\ UNCHANGED <<sysVars, hasStarted, ready, at, signalled, broken, hasty>>

(* The steps of module System.  A child may end whatever the parent does,  *)
(* before it is ready too; the parent ends as the last.                    *)
Ends(p) ==
  /\ p = Parent => Idle /\ hasStarted /\ \A c \in Child : phase[c] = "out"
  /\ SystemExit(p)
  /\ broken' = broken \cup ({p} \ ({Parent} \cup signalled))
  /\ UNCHANGED <<procList, hasStarted, ready, at, signalled, hasty>>

(* What fails in a child ends it, without a signal, unless it is only a    *)
(* wait that is cut short.                                                 *)
ChildFails(p) ==
  /\ SystemFailure(p)
  /\ broken' = IF phase'[p] = "out" THEN broken \cup ({p} \ ({Parent} \cup signalled)) ELSE broken
  /\ UNCHANGED <<procList, hasStarted, ready, at, signalled, hasty>>

ParentStarts == phase[Parent] = "out" /\ ~ hasStarted /\ SemGet(Parent) /\ UNCHANGED failures

ProcListStep ==
  \/ radStartProcess \/ ChildReady
  \/ \E c \in Child : ChildStarts(c) \/ radPlistProcessReady(c)
  \/ \E p \in Proc : SystemStep(p) /\ UNCHANGED listVars

ProcListCall ==
  \/ \E c \in Child : \/ \E n \in Priority : radPlistAdd(c, n)
                      \/ radPlistAddandStart(c) \/ radPlistRemovePid(c)
  \/ radPlistStart
  \/ ParentStarts /\ UNCHANGED listVars
  \/ \E p \in Proc : Ends(p)

ProcListFailure == WaitInterrupted \/ \E p \in Proc : ChildFails(p)

ProcListNext == ProcListStep \/ ProcListCall \/ ProcListFailure

ProcListSpec == ProcListInit /\ [][ProcListNext]_procVars

-----------------------------------------------------------------------------
(* Children come up in the order of their priorities: when one runs, all   *)
(* with a smaller priority have signalled that they are ready; but not     *)
(* after a start that failed, nor when the parent has gone on without a    *)
(* signal, since radSemTake (radsemaphores.c:135) returns when a signal to *)
(* the process comes or the semaphores are removed.                        *)
StartedInOrder ==
  \A j, k \in DOMAIN procList :
    procList[j].priority < procList[k].priority /\ procList[k].pid \in Child /\ broken = {} /\ ~ hasty =>
      procList[j].entry \in signalled

(* radPlistStart and radPlistAddandStart return, unless the parent dies, or *)
(* a child could not be started or ended before it was ready: for that one *)
(* they wait for ever.                                                     *)
StartReturns == at.does # "idle" ~> at.does = "idle" \/ broken # {} \/ phase[Parent] # "in"
=============================================================================
