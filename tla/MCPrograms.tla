----------------------------- MODULE MCPrograms ------------------------------
(***************************************************************************)
(* Where a program waits for others: a parent for its children, the two    *)
(* ends of a thread for each other, routers for their peers, and a query   *)
(* for the database.  These have nothing to do with each other: one of     *)
(* them runs, and the others stay at their initial states.                 *)
(***************************************************************************)
EXTENDS ProcList, Thread, RemoteRouters, Database

VARIABLE part  \* the part that runs

(* Two routers, of which one may die and come back while subscriptions     *)
(* change and a message is sent, or while writes fail too, or of which     *)
(* none dies and writes fail; or three; or none.                           *)
MCRemote == [r \in Router |-> IF r = "b" THEN NoRemote ELSE "b"]
Pair(crashes, faults, changes, data) ==
  [running |-> {"a", "b"}, crashes |-> crashes, starts |-> crashes, faults |-> faults,
   changes |-> changes, data |-> data]
Standing(routers) ==
  [running |-> routers, crashes |-> 0, starts |-> 0, faults |-> 0, changes |-> 2, data |-> 1]
MCScenario ==
  {Pair(1, 0, 2, 0), Pair(1, 1, 1, 0), Pair(1, 0, 1, 1), Pair(0, 2, 2, 0), Pair(0, 1, 3, 1),
   Standing(Router), Standing({})}

-----------------------------------------------------------------------------
vars == <<part, procVars, threadVars, remoteVars, dbVars>>

Init ==
  /\ part \in {"process list", "thread", "routers", "database"}
  /\ ProcListInit /\ ThreadInit /\ RemoteInit /\ DbInit
  /\ part # "thread" => ~ blocking
  /\ part # "routers" => running = {}
  /\ part # "database" => engine = "sqlite"

InProcessList(A) == part = "process list" /\ A
InThread(A) == part = "thread" /\ A
InRouters(A) == part = "routers" /\ A
InDatabase(A) == part = "database" /\ A

Next ==
  \/ /\ InProcessList(ProcListNext)
     /\ UNCHANGED <<part, threadVars, remoteVars, dbVars>>
  \/ /\ InThread(ThreadNext)
     /\ UNCHANGED <<part, procVars, remoteVars, dbVars>>
  \/ /\ InRouters(RemoteNext)
     /\ UNCHANGED <<part, procVars, threadVars, dbVars>>
  \/ /\ InDatabase(DbNext)
     /\ UNCHANGED <<part, procVars, threadVars, remoteVars>>

(* The fairness of each part, as its module says.                          *)
Spec ==
  /\ Init /\ [][Next]_vars
  /\ WF_procVars(InProcessList(ProcListStep))
  /\ WF_threadVars(InThread(ThreadStep)) /\ SF_threadVars(InThread(radthreadShouldExit))
  /\ WF_remoteVars(InRouters(RemoteStep))
  /\ WF_dbVars(InDatabase(SqliteStep)) /\ WF_dbVars(InDatabase(Unlock))
=============================================================================
