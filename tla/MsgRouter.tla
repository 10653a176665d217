----------------------------- MODULE MsgRouter -----------------------------
(***************************************************************************)
(* The message router daemon (msgRouter/msgRouter.c) with the programs     *)
(* that use it (src/radmsgRouter.c), on one machine.  Programs write       *)
(* requests to the queue of the router, the router keeps a block for each  *)
(* registered process (PIB) and the list of consumers of each message ID   *)
(* (MIIB, CIB), and copies a message to the queue of every consumer.       *)
(* Left out: other routers, the contents of messages, system buffers       *)
(* (modules Buffers and MsgQueue), statistics, the end of the router.      *)
(***************************************************************************)
EXTENDS Integers, Sequences, FiniteSets, SequencesExt

CONSTANTS
  Client,        \* programs, each with a queue of its name
  MsgID,         \* message IDs of the programs, 0 and the internal ID apart
  NoID,          \* no message ID
  MaxPid,        \* bound: processes started
  QueueCap,      \* messages a queue holds
  Requests,      \* the types of the requests each program makes
  Timeouts,      \* may an ACK or answer take longer than MSGRTR_MAX_ACK_WAIT?
  Fails          \* may a call find no system buffer, and a write or open be interrupted?

Subtype == {"REGISTER", "DEREGISTER", "ENABLE", "DISABLE", "IS_REGISTERED", "DATA"}
ASSUME RouterAssumption ==
  /\ NoID \notin MsgID
  /\ Requests \in [Client -> SUBSET Subtype]
  /\ MaxPid \in Nat \ {0} /\ QueueCap \in Nat \ {0}
  /\ Timeouts \in BOOLEAN /\ Fails \in BOOLEAN

Pid == 1 .. MaxPid
NoPid == 0

Request == [type : Subtype, pid : Pid, name : Client, id : MsgID \cup {NoID}]
Answer == [type : {"ACK", "IS_REGISTERED", "DATA"}, id : MsgID \cup {NoID}]
Point == {"down", "out", "sending", "wait_ack", "in", "wait_answer"}

NoRequest == [type |-> "none"]

VARIABLES
  pid,        \* the process of each program, NoPid if it does not run
  births,     \* processes started so far
  pc,         \* where each program is
  writing,    \* the request a program is writing to the queue of the router
  inbox,      \* the queue of each program
  requests,   \* the queue of the router
  pibList,    \* the registered processes with the names of their queues
  attached,   \* the queues in the send list of the router
  consumers,  \* MIIB.consumers of each message ID, as process IDs
  miibList,   \* the message IDs that have a MIIB
  route,      \* the message being routed and the consumers it has still to reach
  unanswered, \* history: the processes whose last REGISTER failed or whose ACK did
  wanted      \* history: the message IDs a program asked for and did not cancel

progVars == <<pid, births, pc, writing, wanted>>
routerVars == <<pibList, attached, consumers, miibList, route, unanswered>>
vars == <<progVars, inbox, requests, routerVars>>

Idle == [id |-> NoID, todo |-> <<>>]

Init ==
  /\ pid = [c \in Client |-> NoPid]
  /\ births = 0
  /\ pc = [c \in Client |-> "down"]
  /\ writing = [c \in Client |-> NoRequest]
  /\ inbox = [c \in Client |-> <<>>]
  /\ requests = <<>>
  /\ pibList = {}
  /\ attached = {}
  /\ consumers = [i \in MsgID |-> <<>>]
  /\ miibList = {}
  /\ route = Idle
  /\ unanswered = {}
  /\ wanted = [c \in Client |-> {}]

-----------------------------------------------------------------------------
(* Programs *)

Running(c) == pid[c] # NoPid

Dead(p) == p \in 1 .. births /\ \A c \in Client : pid[c] # p

GoTo(c, point) == pc' = [pc EXCEPT ![c] = point]

(* A new process of program c; its queue has the name of the last one's.   *)
Start(c) ==
  /\ pc[c] = "down"
  /\ births < MaxPid
  /\ GoTo(c, "out")
  /\ births' = births + 1
  /\ pid' = [pid EXCEPT ![c] = births + 1]
  /\ UNCHANGED <<writing, wanted, inbox, requests, routerVars>>

(* The process dies; unread messages stay while the router is a writer of  *)
(* its queue.                                                              *)
Crash(c) ==
  /\ Running(c)
  /\ pid' = [pid EXCEPT ![c] = NoPid]
  /\ GoTo(c, "down")
  /\ writing' = [writing EXCEPT ![c] = NoRequest]
  /\ inbox' = [inbox EXCEPT ![c] = IF c \in attached THEN @ ELSE <<>>]
  /\ wanted' = [wanted EXCEPT ![c] = {}]
  /\ UNCHANGED <<births, requests, routerVars>>

(* Program c calls for process p what ends in sendToRouter. *)
Call(c, point, p, type, id) ==
  /\ pc[c] = point
  /\ type \in Requests[c]
  /\ GoTo(c, "sending")
  /\ writing' = [writing EXCEPT ![c] = [type |-> type, pid |-> p, name |-> c, id |-> id]]
  /\ UNCHANGED <<pid, births, wanted, inbox, requests, routerVars>>

radMsgRouterInit(c) == Call(c, "out", pid[c], "REGISTER", NoID)

radMsgRouterExit(c) == Call(c, "in", pid[c], "DEREGISTER", NoID)

(* Another program reports the death of process p. *)
radMsgRouterProcessExit(c, p) == Dead(p) /\ Call(c, "in", p, "DEREGISTER", NoID)

radMsgRouterMessageRegister(c, i) == Call(c, "in", pid[c], "ENABLE", i)

radMsgRouterMessageDeregister(c, i) == Call(c, "in", pid[c], "DISABLE", i)

radMsgRouterMessageIsRegistered(c, i) == Call(c, "in", pid[c], "IS_REGISTERED", i)

radMsgRouterMessageSend(c, i) == Call(c, "in", pid[c], "DATA", i)

(* What request r makes of the message IDs ids its process asked for. *)
Effect(r, ids) ==
  CASE r.type = "ENABLE" -> ids \cup {r.id}
    [] r.type = "DISABLE" -> ids \ {r.id}
    [] r.type \in {"REGISTER", "DEREGISTER"} -> {}
    [] OTHER -> ids

(* Where a call goes on once its request is written. *)
After(c) ==
  CASE writing[c].type = "REGISTER" -> "wait_ack"
    [] writing[c].type = "IS_REGISTERED" -> "wait_answer"
    [] writing[c].type = "DEREGISTER" /\ writing[c].pid = pid[c] -> "out"
    [] OTHER -> "in"

(* The write to the queue of the router; it waits while the queue is full. *)
sendToRouter(c) ==
  /\ pc[c] = "sending"
  /\ Len(requests) < QueueCap
  /\ requests' = Append(requests, writing[c])
  /\ GoTo(c, After(c))
  /\ writing' = [writing EXCEPT ![c] = NoRequest]
  /\ wanted' = [wanted EXCEPT ![c] = IF writing[c].pid = pid[c] THEN Effect(writing[c], @) ELSE @]
  /\ UNCHANGED <<pid, births, inbox, routerVars>>

(* There is no system buffer for the request, or a signal interrupts the   *)
(* write while it waits: the call ends with nothing done.                  *)
sendFails(c) ==
  /\ Fails
  /\ pc[c] = "sending"
  /\ GoTo(c, IF writing[c].type = "REGISTER" THEN "out" ELSE "in")
  /\ writing' = [writing EXCEPT ![c] = NoRequest]
  /\ UNCHANGED <<pid, births, wanted, inbox, requests, routerVars>>

Take(c) ==
  /\ inbox[c] # <<>>
  /\ inbox' = [inbox EXCEPT ![c] = Tail(@)]
  /\ UNCHANGED <<pid, births, writing, wanted, requests, routerVars>>

(* Block until a message comes, toss it if it is not the awaited one.  The *)
(* time is looked at between two messages only.                            *)
WaitFor(c, point, type, done, failed) ==
  /\ pc[c] = point
  /\ Take(c)
  /\ IF Head(inbox[c]).type = type THEN GoTo(c, done)
     ELSE \E late \in {FALSE, Timeouts} : GoTo(c, IF late THEN failed ELSE point)

waitForRouterAck(c) == WaitFor(c, "wait_ack", "ACK", "in", "out")

waitForRouterAnswer(c) == WaitFor(c, "wait_answer", "IS_REGISTERED", "in", "in")

(* radProcessWait hands the next message to the program. *)
Receive(c) ==
  /\ pc[c] \in {"in", "out"}
  /\ Take(c)
  /\ UNCHANGED pc

-----------------------------------------------------------------------------
(* The router: QueueMsgHandler, one message after the other.               *)

getPIBByPID(p) == {b \in pibList : b.pid = p}

(* radProcessQueueSend to the queue of a program, with the send list list. *)
(* Without a node or a reader the message is lost, and so it is when it    *)
(* fails: there is no system buffer for it, or a signal interrupts the     *)
(* write.  A full queue makes the router wait.                             *)
Post(fails, list, c, type, id) ==
  IF c \in list /\ Running(c) /\ ~ fails
  THEN /\ Len(inbox[c]) < QueueCap
       /\ inbox' = [inbox EXCEPT ![c] = Append(@, [type |-> type, id |-> id])]
  ELSE UNCHANGED inbox

(* Its next request, of the given type. *)
Handle(type) ==
  /\ route = Idle
  /\ requests # <<>>
  /\ Head(requests).type = type
  /\ requests' = Tail(requests)
  /\ UNCHANGED progVars

SendACK(fails, list, b) ==
  /\ Post(fails, list, b.name, "ACK", NoID)
  /\ unanswered' = IF fails THEN unanswered \cup {b.pid} ELSE unanswered \ {b.pid}

(* The process of request r gets a block, and its queue is attached:       *)
(* open() waits for a reader.                                              *)
NewClient(fails, r) ==
  LET b == [pid |-> r.pid, name |-> r.name]
  IN  /\ r.name \in attached \/ Running(r.name)
      /\ pibList' = pibList \cup {b}
      /\ attached' = attached \cup {r.name}
      /\ SendACK(fails, attached \cup {r.name}, b)

(* The queue cannot be attached, or a signal interrupts open(): there is   *)
(* no block and no ACK.                                                    *)
TurnAway(fails, r) ==
  /\ fails /\ r.name \notin attached
  /\ unanswered' = unanswered \cup {r.pid}
  /\ UNCHANGED <<pibList, attached, inbox>>

(* Mutant: a process that has a block gets no ACK. *)
RegisterOnce(fails) ==
  LET r == Head(requests)
  IN  /\ Handle("REGISTER")
      /\ \/ getPIBByPID(r.pid) # {} /\ UNCHANGED <<pibList, attached, unanswered, inbox>>
         \/ getPIBByPID(r.pid) = {} /\ (NewClient(fails, r) \/ TurnAway(fails, r))
      /\ UNCHANGED <<consumers, miibList, route>>

Register(fails) ==
  LET r == Head(requests)
  IN  /\ Handle("REGISTER")
      /\ \/ /\ \E b \in getPIBByPID(r.pid) : SendACK(fails, attached, b)
            /\ UNCHANGED <<pibList, attached>>
         \/ getPIBByPID(r.pid) = {} /\ (NewClient(fails, r) \/ TurnAway(fails, r))
      /\ UNCHANGED <<consumers, miibList, route>>

(* The consumer list of a message ID without process p: the first block of *)
(* it that is found goes.                                                  *)
Without(list, p) == RemoveFirst(list, p)

(* Mutant: a MIIB stays when its last consumer goes. *)
RemoveClientOnly(p) ==
  /\ consumers' = [i \in MsgID |-> Without(consumers[i], p)]
  /\ UNCHANGED miibList

RemoveClientFromAllMsgs(p) ==
  /\ consumers' = [i \in MsgID |-> Without(consumers[i], p)]
  /\ miibList' = {i \in miibList : Without(consumers[i], p) # <<>>}

(* radProcessQueueDettach; with no reader either, the messages are gone. *)
Detach(c) ==
  /\ attached' = attached \ {c}
  /\ inbox' = [inbox EXCEPT ![c] = IF Running(c) THEN @ ELSE <<>>]

Deregister ==
  LET r == Head(requests)
  IN  /\ Handle("DEREGISTER")
      /\ \/ getPIBByPID(r.pid) = {} /\ UNCHANGED <<pibList, attached, consumers, miibList, inbox>>
         \/ \E b \in getPIBByPID(r.pid) : /\ RemoveClientFromAllMsgs(b.pid)
                                          /\ pibList' = pibList \ {b}
                                          /\ Detach(b.name)
      /\ UNCHANGED <<route, unanswered>>

(* Mutant: only the process that brings the MIIB is added. *)
AddClientFirst(i, p) ==
  /\ miibList' = miibList \cup {i}
  /\ consumers' = [consumers EXCEPT ![i] = IF i \in miibList THEN @ ELSE Append(@, p)]

(* A message ID without MIIB gets one; a process is added once. *)
AddClient(i, p) ==
  /\ miibList' = miibList \cup {i}
  /\ consumers' = [consumers EXCEPT ![i] = IF Contains(@, p) THEN @ ELSE Append(@, p)]

EnableMsgID ==
  LET r == Head(requests)
  IN  /\ Handle("ENABLE")
      /\ \/ getPIBByPID(r.pid) # {} /\ AddClient(r.id, r.pid)
         \/ getPIBByPID(r.pid) = {} /\ UNCHANGED <<consumers, miibList>>
      /\ UNCHANGED <<pibList, attached, route, unanswered, inbox>>

DisableMsgID ==
  LET r == Head(requests)
  IN  /\ Handle("DISABLE")
      /\ \/ /\ getPIBByPID(r.pid) # {} /\ r.id \in miibList
            /\ consumers' = [consumers EXCEPT ![r.id] = Without(@, r.pid)]
            /\ miibList' = IF consumers'[r.id] = <<>> THEN miibList \ {r.id} ELSE miibList
         \/ /\ getPIBByPID(r.pid) = {} \/ r.id \notin miibList
            /\ UNCHANGED <<consumers, miibList>>
      /\ UNCHANGED <<pibList, attached, route, unanswered, inbox>>

(* A message ID without a MIIB gets no answer.  The answer does not name   *)
(* the message ID it is about; here it does, for the properties.           *)
MsgIDIsRegistered(fails) ==
  LET r == Head(requests)
  IN  /\ Handle("IS_REGISTERED")
      /\ \/ /\ r.id \in miibList
            /\ \E b \in getPIBByPID(r.pid) : Post(fails, attached, b.name, "IS_REGISTERED", r.id)
         \/ (r.id \notin miibList \/ getPIBByPID(r.pid) = {}) /\ UNCHANGED inbox
      /\ UNCHANGED routerVars

(* A normal message is routed if its sender is registered. *)
RouteMsg ==
  LET r == Head(requests)
  IN  /\ Handle("DATA")
      /\ route' = IF getPIBByPID(r.pid) # {} /\ r.id \in miibList /\ consumers[r.id] # <<>>
                  THEN [id |-> r.id, todo |-> consumers[r.id]] ELSE Idle
      /\ UNCHANGED <<pibList, attached, consumers, miibList, unanswered, inbox>>

(* One turn of the loop over the consumers. *)
SendToClient(fails) ==
  /\ route # Idle
  /\ \E b \in getPIBByPID(Head(route.todo)) : Post(fails, attached, b.name, "DATA", route.id)
  /\ route' = IF Len(route.todo) = 1 THEN Idle ELSE [route EXCEPT !.todo = Tail(@)]
  /\ UNCHANGED <<progVars, requests, pibList, attached, consumers, miibList, unanswered>>

Router == \/ Register(FALSE) \/ Deregister \/ EnableMsgID \/ DisableMsgID
          \/ MsgIDIsRegistered(FALSE) \/ RouteMsg \/ SendToClient(FALSE)

RouterFails == Fails /\ (Register(TRUE) \/ MsgIDIsRegistered(TRUE) \/ SendToClient(TRUE))

-----------------------------------------------------------------------------
Program(c) ==
  \/ radMsgRouterInit(c) \/ radMsgRouterExit(c)
  \/ \E p \in Pid : radMsgRouterProcessExit(c, p)
  \/ \E i \in MsgID : \/ radMsgRouterMessageRegister(c, i)
                      \/ radMsgRouterMessageDeregister(c, i)
                      \/ radMsgRouterMessageIsRegistered(c, i)
                      \/ radMsgRouterMessageSend(c, i)

Advance(c) == sendToRouter(c) \/ waitForRouterAck(c) \/ waitForRouterAnswer(c) \/ Receive(c)

Next == \/ Router \/ RouterFails
        \/ \E c \in Client : Program(c) \/ Advance(c) \/ sendFails(c) \/ Start(c) \/ Crash(c)

Spec == Init /\ [][Next]_vars

(* The scheduler runs the router and the programs; a program reads its     *)
(* queue and finishes the write it is in.  No failure has to happen.       *)
Fairness == WF_vars(Router) /\ \A c \in Client : WF_vars(Advance(c))

FairSpec == Spec /\ Fairness

-----------------------------------------------------------------------------
(* Every variable has its type, and no queue is over its limit. *)
TypeOK ==
  /\ pid \in [Client -> Pid \cup {NoPid}]
  /\ births \in 0 .. MaxPid
  /\ pc \in [Client -> Point]
  /\ writing \in [Client -> Request \cup {NoRequest}]
  /\ requests \in Seq(Request) /\ Len(requests) <= QueueCap
  /\ inbox \in [Client -> Seq(Answer)]
  /\ \A c \in Client : Len(inbox[c]) <= QueueCap
  /\ pibList \in SUBSET [pid : Pid, name : Client]
  /\ attached \in SUBSET Client
  /\ consumers \in [MsgID -> Seq(Pid)]
  /\ miibList \in SUBSET MsgID
  /\ route.id \in MsgID \cup {NoID} /\ route.todo \in Seq(Pid)
  /\ unanswered \in SUBSET Pid
  /\ wanted \in [Client -> SUBSET MsgID]

Registered(p) == getPIBByPID(p) # {}

(* No consumer, and no turn of the routing loop still to come, refers to   *)
(* the freed block of a process; a process has one block and is one        *)
(* consumer of a message ID, and only message IDs with consumers have a    *)
(* MIIB.                                                                   *)
NoDanglingConsumer ==
  /\ \A i \in MsgID : /\ \A p \in ToSet(consumers[i]) : Registered(p)
                      /\ IsInjective(consumers[i])
                      /\ i \in miibList <=> consumers[i] # <<>>
  /\ \A p \in ToSet(route.todo) : Registered(p)
  /\ \A a, b \in pibList : a.pid = b.pid => a = b

(* A program between two calls that was told it is registered. *)
Told(c) == \/ pc[c] \in {"in", "wait_answer"}
           \/ pc[c] = "sending" /\ writing[c].type # "REGISTER"

(* A request that makes process p a consumer of message ID i, and one that *)
(* ends it.                                                                *)
Asks(r, p, i) == r.pid = p /\ r.type = "ENABLE" /\ r.id = i
Cancels(r, p, i) == r.pid = p /\ (r.type = "DEREGISTER" \/ (r.type = "DISABLE" /\ r.id = i))

(* p is a consumer of i once the router has worked off n requests: it is   *)
(* now or becomes one by one of them, and no later one cancels that.       *)
Subscribed(p, i, n) ==
  LET stays(k) == \A l \in k + 1 .. n : ~ Cancels(requests[l], p, i)
  IN  \/ Contains(consumers[i], p) /\ stays(0)
      \/ \E k \in 1 .. n : Asks(requests[k], p, i) /\ stays(k)

(* The router could not attach the queue of program c, which took the ACK  *)
(* of an earlier process for its own.                                      *)
TurnedAway(c) == pid[c] \in unanswered /\ ~ Registered(pid[c])

(* Once the router has worked off the requests in its queue, a registered  *)
(* program is a consumer of exactly the message IDs it asked for and did   *)
(* not cancel, whatever timed out, died or restarted meanwhile, unless the *)
(* router has turned it away.                                              *)
ViewsAgree ==
  \A c \in Client :
    Told(c) /\ ~ TurnedAway(c) => wanted[c] = {i \in MsgID : Subscribed(pid[c], i, Len(requests))}

(* The router has a block for program c but cannot write to its queue. *)
CutOff(c) == Registered(pid[c]) /\ c \notin attached

(* "all processes which have subscribed to 'msgID' will receive a copy of  *)
(* the message" (radmsgRouter.h): no registered program is cut off from    *)
(* the router.                                                             *)
Reachable == \A c \in Client : Told(c) => ~ CutOff(c)

(* The router waits for a program that will not help it: one that itself   *)
(* waits for room in the queue of the router, or one that died before the  *)
(* router could open its queue.                                            *)
Stuck ==
  \/ \E c \in Client : pc[c] = "sending" /\ Len(inbox[c]) = QueueCap
  \/ /\ route = Idle /\ requests # <<>>
     /\ Head(requests).type = "REGISTER" /\ ~ Running(Head(requests).name)

(* A call of radMsgRouterInit returns, unless the program is cut off, or a *)
(* failure of the router lost its ACK, which nobody repeats, or the router *)
(* gets stuck: for good, or again and again by a program that never reads  *)
(* and whose calls keep failing.                                           *)
InitReturns ==
  \A c \in Client : \/ pc[c] = "wait_ack" ~> pc[c] # "wait_ack"
                    \/ <>[](CutOff(c) \/ pid[c] \in unanswered)
                    \/ []<>Stuck

(* A call of radMsgRouterMessageIsRegistered returns, likewise. *)
IsRegisteredReturns ==
  \A c \in Client : \/ pc[c] = "wait_answer" ~> pc[c] # "wait_answer"
                    \/ <>[](Stuck \/ CutOff(c))
=============================================================================
