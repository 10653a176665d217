----------------------------- MODULE ProcessLoop -----------------------------
(***************************************************************************)
(* A radlib process (src/radprocess.c): its main loop waits with select    *)
(* for its notify pipe, its message queue and the descriptors the program  *)
(* registered, and calls back for each.  The program may do anything in a  *)
(* callback: open and close descriptors, add and remove message handlers,  *)
(* start timers, send events.  Signals arrive at any time.  The timers and *)
(* the notify pipe are those of module Timers.                             *)
(***************************************************************************)
EXTENDS Timers

CONSTANTS
  LastSlot,  \* PROC_FD_USER_LAST
  MaxFd,     \* the highest descriptor the kernel gives to the program
  Handler,   \* message handlers that can be allocated
  Message,   \* system buffers of others for messages to this process
  QueueCap,  \* messages that fit into the message queue
  Programs   \* which kinds of calls a program makes, and others make to it

(* The next pointer of the last handler. *)
End == "end of the list"

ASSUME LoopAssumption ==
  /\ LastSlot \in Nat /\ MaxFd \in Nat /\ QueueCap \in Nat \ {0}
  /\ LastSlot >= 3 /\ MaxFd >= 4
  /\ Handler # {} /\ End \notin Handler

(* The slots of procData.fds and the descriptors radProcessInit opens for  *)
(* the first three of them.                                                *)
PipeSlot == 0
WriteSlot == 1
QueueSlot == 2
UserSlot == 3 .. LastSlot
Slot == 0 .. LastSlot
OwnFd(s) == s + 1
UserFd == OwnFd(QueueSlot) + 1 .. MaxFd

NoFd == -1
Nothing == [kind |-> "nothing"]

VARIABLES
  calls,       \* the kinds of calls that are made
  loop,        \* where the process is in its main loop
  slot,        \* i of radProcessWait
  readFds,     \* what select has answered
  fds,         \* procData.fds
  fdSet,       \* procData.fdSet
  fdMax,       \* procData.fdMax
  open,        \* descriptors of the program that are open
  data,        \* those with something to read
  queue,       \* the message queue
  closed,      \* the message queue has no writer left
  hand,        \* what the callback is about
  freeBuffers, \* buffers that nobody holds, of those for messages
  kept,        \* buffers the program kept
  chain,       \* procData.msgqHandlerList
  stale,       \* the next pointer of handlers that were removed
  node,        \* the handler procQueueReadCB is at
  keep, stop,  \* procData.keepMsgQBuffer, stopMsqQHandlerTraversal
  listening,   \* procData.events->mask has the event
  exitFlag,    \* procData.exitFlag
  fresh,       \* history: slots registered since select answered
  owed,        \* history: handlers on the list since the message was read, not yet called
  cause        \* history: why the process ends

ioVars == <<fds, fdSet, fdMax, open, data, fresh>>
queueVars == <<queue, closed, freeBuffers, kept, listening>>
handlerVars == <<chain, stale, node, keep, stop, owed>>
endVars == <<exitFlag, cause>>
loopVars == <<calls, loop, slot, readFds, hand, ioVars, queueVars, handlerVars, endVars>>

vars == <<timerVars, loopVars>>

Default == CHOOSE h \in Handler : TRUE

(* The process after radProcessInit has succeeded. *)
LoopInit ==
  /\ calls \in Programs
  /\ loop = "user" /\ slot = 0 /\ readFds = {} /\ hand = Nothing
  /\ fds = [s \in Slot |-> IF s \in UserSlot THEN NoFd ELSE OwnFd(s)]
  /\ fdSet = {OwnFd(PipeSlot), OwnFd(QueueSlot)} /\ fdMax = OwnFd(QueueSlot)
  /\ open = {} /\ data = {} /\ fresh = {}
  /\ queue = <<>> /\ closed = FALSE /\ freeBuffers = Message /\ kept = {} /\ listening = FALSE
  /\ chain = <<Default>> /\ stale = [h \in Handler |-> h] /\ node = Default
  /\ keep = FALSE /\ stop = FALSE /\ owed = {}
  /\ exitFlag = FALSE /\ cause = {}

Init == TimersInit /\ LoopInit

(* The program's own code runs: between two waits, or in a callback. *)
Program ==
  /\ loop \in {"user", "callback", "routine", "handler", "event"}
  /\ At("main", "idle")

-----------------------------------------------------------------------------
(* Descriptors. *)

(* procAllocIOBlock *)
Register(s, fd) ==
  /\ fds' = [fds EXCEPT ![s] = fd]
  /\ fdMax' = Max({fd, fdMax})
  /\ fdSet' = fdSet \cup {fd}
  /\ fresh' = fresh \cup {s}

(* Mutant: the highest descriptor is not looked for again. *)
FreeForgetsMax(s) ==
  /\ fdSet' = fdSet \ {fds[s]}
  /\ fdMax' = IF fdMax = fds[s] THEN 0 ELSE fdMax
  /\ fds' = [fds EXCEPT ![s] = NoFd]
  /\ fresh' = fresh \ {s}

(* procFreeIOBlock *)
Free(s) ==
  /\ fdSet' = fdSet \ {fds[s]}
  /\ fdMax' = IF fdMax = fds[s] THEN Max({0} \cup {fds[i] : i \in Slot \ {s}}) ELSE fdMax
  /\ fds' = [fds EXCEPT ![s] = NoFd]
  /\ fresh' = fresh \ {s}

(* The program opens a descriptor, whose number is the lowest the kernel   *)
(* has, and registers it in the first free slot; when there is none, it    *)
(* closes it again.                                                        *)
radProcessIORegisterDescriptor ==
  /\ Program /\ "io" \in calls
  /\ UserFd # open
  /\ LET fd == Min(UserFd \ open)
         room == {s \in UserSlot : fds[s] = NoFd}
     IN  /\ room # {}
         /\ Register(Min(room), fd)
         /\ open' = open \cup {fd}
  /\ UNCHANGED <<timerVars, calls, loop, slot, readFds, hand, data, queueVars, handlerVars, endVars>>

Close(fd) ==
  /\ open' = open \ {fd}
  /\ data' = data \ {fd}

(* The program takes back a registration by its number and closes the      *)
(* descriptor.                                                             *)
radProcessIODeRegisterDescriptor(s) ==
  /\ Program /\ "io" \in calls
  /\ s \in UserSlot /\ fds[s] # NoFd
  /\ Free(s)
  /\ Close(fds[s])
  /\ UNCHANGED <<timerVars, calls, loop, slot, readFds, hand, queueVars, handlerVars, endVars>>

(* ... or by its descriptor, as the message router does.  The search ends  *)
(* before the last slot.                                                   *)
Searched == 3 .. LastSlot - 1

radProcessIODeRegisterDescriptorByFd(fd) ==
  /\ Program /\ "io" \in calls
  /\ fd \in open
  /\ LET found == {s \in Searched : fds[s] = fd}
     IN  /\ IF found # {} THEN Free(Min(found)) ELSE UNCHANGED <<fds, fdSet, fdMax, fresh>>
         /\ cause' = cause \cup (IF found = {} THEN {"last slot"} ELSE {})
  /\ Close(fd)
  /\ UNCHANGED <<timerVars, calls, loop, slot, readFds, hand, queueVars, handlerVars, exitFlag>>

(* Somebody writes to a descriptor of the program. *)
Arrives(fd) ==
  /\ "io" \in calls
  /\ fd \in open
  /\ data' = data \cup {fd}
  /\ UNCHANGED <<timerVars, calls, loop, slot, readFds, hand, fds, fdSet, fdMax, open, fresh, queueVars,
                 handlerVars, endVars>>

-----------------------------------------------------------------------------
(* Handlers of messages. *)

radProcessQueuePrependHandler(h) ==
  /\ Program /\ "handlers" \in calls
  /\ h \notin ToSet(chain) /\ stale[h] = h
  /\ chain' = <<h>> \o chain
  /\ UNCHANGED <<timerVars, calls, loop, slot, readFds, hand, ioVars, queueVars, stale, node, keep,
                 stop, owed, endVars>>

(* The buffers of a message or of what the callback has at hand. *)
BuffersOf(m) == IF m.kind \in {"message", "event"} THEN {m.buffer} ELSE {}

Successor(h) ==
  IF h \notin ToSet(chain) THEN stale[h]
  ELSE LET k == CHOOSE i \in DOMAIN chain : chain[i] = h
       IN  IF k = Len(chain) THEN End ELSE chain[k + 1]

(* Mutant: the pointers of the removed handler are cleared. *)
RemoveAndClear(h) ==
  /\ Program /\ "handlers" \in calls
  /\ h \in ToSet(chain)
  /\ stale' = [stale EXCEPT ![h] = End]
  /\ chain' = Without(chain, h)
  /\ owed' = owed \ {h}
  /\ UNCHANGED <<timerVars, calls, loop, slot, readFds, hand, ioVars, queueVars, node, keep, stop, endVars>>

(* The handler is unlinked and not freed: its own pointers stay. *)
radProcessQueueRemoveHandler(h) ==
  /\ Program /\ "handlers" \in calls
  /\ h \in ToSet(chain)
  /\ stale' = [stale EXCEPT ![h] = Successor(h)]
  /\ chain' = Without(chain, h)
  /\ owed' = owed \ {h}
  /\ UNCHANGED <<timerVars, calls, loop, slot, readFds, hand, ioVars, queueVars, node, keep, stop, endVars>>

radProcessQueueKeepBuffer ==
  /\ loop = "handler" /\ Program
  /\ keep' = TRUE /\ stop' = TRUE
  /\ UNCHANGED <<timerVars, calls, loop, slot, readFds, hand, ioVars, queueVars, chain, stale, node,
                 owed, endVars>>

radProcessQueueStopHandlerList ==
  /\ loop = "handler" /\ Program
  /\ stop' = TRUE
  /\ UNCHANGED <<timerVars, calls, loop, slot, readFds, hand, ioVars, queueVars, chain, stale, node,
                 keep, owed, endVars>>

(* The program is done with a buffer it kept. *)
radBufferRls(b) ==
  /\ Program
  /\ b \in kept
  /\ kept' = kept \ {b}
  /\ freeBuffers' = freeBuffers \cup {b}
  /\ UNCHANGED <<timerVars, calls, loop, slot, readFds, hand, ioVars, queue, closed, listening,
                 handlerVars, endVars>>

(* radProcessEventsAdd, radProcessEventsRemove *)
SetMask ==
  /\ Program /\ "messages" \in calls
  /\ listening' = ~ listening
  /\ UNCHANGED <<timerVars, calls, loop, slot, readFds, hand, ioVars, queue, closed, freeBuffers, kept,
                 handlerVars, endVars>>

(* Another process sends a message, one without data, or an event, which   *)
(* is a message of type 0.                                                 *)
Sent ==
  /\ "messages" \in calls
  /\ Len(queue) < QueueCap /\ ~ closed
  /\ \/ /\ queue' = Append(queue, [kind |-> "empty"])
        /\ UNCHANGED freeBuffers
     \/ \E b \in freeBuffers, k \in {"message", "event"} :
          /\ queue' = Append(queue, [kind |-> k, buffer |-> b])
          /\ freeBuffers' = freeBuffers \ {b}
  /\ UNCHANGED <<timerVars, calls, loop, slot, readFds, hand, ioVars, closed, kept, listening,
                 handlerVars, endVars>>

(* The process that holds the queue open for writing dies. *)
WritersGone ==
  /\ "signal" \in calls
  /\ closed' = TRUE
  /\ UNCHANGED <<timerVars, calls, loop, slot, readFds, hand, ioVars, queue, freeBuffers, kept,
                 listening, handlerVars, endVars>>

-----------------------------------------------------------------------------
(* The main loop. *)

Readable ==
  {fd \in fdSet : /\ fd <= fdMax
                  /\ \/ fd = OwnFd(PipeSlot) /\ notify # <<>>
                     \/ fd = OwnFd(QueueSlot) /\ (queue # <<>> \/ closed)
                     \/ fd \in data}

(* One of the descriptors select is to watch is not open. *)
BadDescriptor == ~ fdSet \cap UserFd \subseteq open

(* A step of the loop: the program, and no signal handler, has the         *)
(* processor.                                                              *)
Goes(from, to) ==
  /\ At("main", "idle")
  /\ loop = from
  /\ loop' = to

(* radProcessSetExitFlag, which a program calls from its signal handlers:  *)
(* at any time.  It wakes the process that sleeps in select.               *)
radProcessSetExitFlag ==
  /\ "signal" \in calls
  /\ loop # "end"
  /\ exitFlag' = TRUE
  /\ cause' = cause \cup {"signal"}
  /\ loop' = IF loop = "select" THEN "interrupted" ELSE loop
  /\ UNCHANGED <<timerVars, calls, slot, readFds, hand, ioVars, queueVars, handlerVars>>

(* SIGALRM wakes it too. *)
AlarmInterrupts ==
  /\ timerSignalHandler
  /\ loop' = IF loop = "select" THEN "interrupted" ELSE loop
  /\ UNCHANGED <<calls, slot, readFds, hand, ioVars, queueVars, handlerVars, endVars>>

(* radProcessWait up to the call of select; a program whose wait answers   *)
(* ERROR ends with radProcessExit.                                         *)
radProcessWait ==
  /\ Goes("user", IF exitFlag THEN "end" ELSE "select")
  /\ UNCHANGED <<timerVars, calls, slot, readFds, hand, ioVars, queueVars, handlerVars, endVars>>

(* Mutant: the error code of select is not looked at. *)
InterruptedEnds ==
  /\ Goes("interrupted", "end")
  /\ UNCHANGED <<timerVars, calls, slot, readFds, hand, ioVars, queueVars, handlerVars, endVars>>

Interrupted ==
  /\ Goes("interrupted", IF exitFlag THEN "end" ELSE "user")
  /\ UNCHANGED <<timerVars, calls, slot, readFds, hand, ioVars, queueVars, handlerVars, endVars>>

SelectAnswers ==
  /\ ~ BadDescriptor
  /\ Readable # {}
  /\ Goes("select", "scan")
  /\ readFds' = Readable
  /\ slot' = 0
  /\ fresh' = {}
  /\ UNCHANGED <<timerVars, calls, hand, fds, fdSet, fdMax, open, data, queueVars, handlerVars, endVars>>

SelectTimeout ==
  /\ ~ BadDescriptor
  /\ Readable = {}
  /\ Goes("select", "user")
  /\ UNCHANGED <<timerVars, calls, slot, readFds, hand, ioVars, queueVars, handlerVars, endVars>>

SelectFails ==
  /\ BadDescriptor
  /\ Goes("select", "end")
  /\ exitFlag' = TRUE
  /\ UNCHANGED <<timerVars, calls, slot, readFds, hand, ioVars, queueVars, handlerVars, cause>>

(* Mutant: the loop ends with the first callback. *)
ChirpingFirst(i) == {s \in Slot : i = 0 /\ fds[s] # NoFd /\ fds[s] \in readFds}

(* Mutant: the number of the slot is looked up in the answer. *)
ChirpingByIndex(i) == {s \in Slot : s >= i /\ fds[s] # NoFd /\ s \in readFds}

(* The slots that are called back from position i on.  The descriptors are *)
(* those of the table now, the answer is that of select.                   *)
Chirping(i) == {s \in Slot : s >= i /\ fds[s] # NoFd /\ fds[s] \in readFds}

(* The loop of radProcessWait ends. *)
ScanEnds ==
  /\ Chirping(slot) = {}
  /\ Goes("scan", "user")
  /\ slot' = 0 /\ readFds' = {} /\ fresh' = {}
  /\ UNCHANGED <<timerVars, calls, hand, fds, fdSet, fdMax, open, data, queueVars, handlerVars, endVars>>

(* The next one is called; the loop goes on behind it. *)
Calls(s, to) ==
  /\ Chirping(slot) # {} /\ s = Min(Chirping(slot))
  /\ Goes("scan", to)
  /\ slot' = s + 1

(* The callback of the program reads what there is, without waiting for    *)
(* more.                                                                   *)
ioCallback(s) ==
  /\ s \in UserSlot
  /\ Calls(s, "callback")
  /\ hand' = [kind |-> "fd", had |-> fds[s] \in data, new |-> s \in fresh]
  /\ data' = data \ {fds[s]}
  /\ UNCHANGED <<timerVars, calls, readFds, fds, fdSet, fdMax, open, fresh, queueVars, handlerVars, endVars>>

(* procPipeReadCB: the routine of a timer, or selfEventsProcess.  Nothing  *)
(* but it reads the pipe: it finds a message.                              *)
procPipeReadCB ==
  /\ Calls(PipeSlot, "routine")
  /\ notify # <<>>
  /\ notify' = Tail(notify)
  /\ hand' = [kind |-> "notify", buffer |-> Head(notify)]
  /\ UNCHANGED <<freeList, pendingList, pending, deltaTime, routine, age, alarm, signal, masked, pc,
                 ticks, arg, events, left, calls, readFds, ioVars, queueVars, handlerVars, endVars>>

(* procQueueReadCB for an event the program listens to, for one it does    *)
(* not, for a message, and for a queue without writers.                    *)
ReceiveEvent ==
  /\ queue # <<>> /\ Head(queue).kind = "event"
  /\ Calls(QueueSlot, IF listening THEN "event" ELSE "release")
  /\ hand' = Head(queue)
  /\ queue' = Tail(queue)
  /\ UNCHANGED <<timerVars, calls, readFds, ioVars, closed, freeBuffers, kept, listening, handlerVars, endVars>>

ReceiveMessage ==
  /\ queue # <<>> /\ Head(queue).kind # "event"
  /\ Calls(QueueSlot, "next")
  /\ hand' = Head(queue)
  /\ queue' = Tail(queue)
  /\ node' = IF chain = <<>> THEN End ELSE Head(chain)
  /\ owed' = ToSet(chain)
  /\ UNCHANGED <<timerVars, calls, readFds, ioVars, closed, freeBuffers, kept, listening, chain, stale,
                 keep, stop, endVars>>

QueueClosed ==
  /\ queue = <<>> /\ closed
  /\ Calls(QueueSlot, "scan")
  /\ exitFlag' = TRUE
  /\ cause' = cause \cup {"queue"}
  /\ UNCHANGED <<timerVars, calls, readFds, hand, ioVars, queueVars, handlerVars>>

msgHandler ==
  /\ node # End
  /\ Goes("next", "handler")
  /\ keep' = FALSE /\ stop' = FALSE
  /\ owed' = owed \ {node}
  /\ UNCHANGED <<timerVars, calls, slot, readFds, hand, ioVars, queueVars, chain, stale, node, endVars>>

HandlersDone ==
  /\ node = End
  /\ Goes("next", "release")
  /\ UNCHANGED <<timerVars, calls, slot, readFds, hand, ioVars, queueVars, handlerVars, endVars>>

(* Mutant: a handler that stops the walk returns at once, like one that    *)
(* keeps the buffer.                                                       *)
StopReturns ==
  /\ Goes("handler", IF stop THEN "scan" ELSE "next")
  /\ kept' = kept \cup (IF keep THEN BuffersOf(hand) ELSE {})
  /\ hand' = IF stop THEN Nothing ELSE hand
  /\ node' = Successor(node)
  /\ UNCHANGED <<timerVars, calls, slot, readFds, ioVars, queue, closed, freeBuffers, listening, chain,
                 stale, keep, stop, owed, endVars>>

(* A handler that keeps the buffer ends the callback, one that stops the   *)
(* walk has the buffer released, after another comes the next handler.     *)
HandlerReturns ==
  /\ Goes("handler", IF keep THEN "scan" ELSE IF stop THEN "release" ELSE "next")
  /\ kept' = kept \cup (IF keep THEN BuffersOf(hand) ELSE {})
  /\ hand' = IF keep THEN Nothing ELSE hand
  /\ node' = Successor(node)
  /\ UNCHANGED <<timerVars, calls, slot, readFds, ioVars, queue, closed, freeBuffers, listening, chain,
                 stale, keep, stop, owed, endVars>>

EventReturns ==
  /\ Goes("event", "release")
  /\ UNCHANGED <<timerVars, calls, slot, readFds, hand, ioVars, queueVars, handlerVars, endVars>>

(* The end of procQueueReadCB: a message with data has a buffer. *)
ReleaseMessage ==
  /\ Goes("release", "scan")
  /\ freeBuffers' = freeBuffers \cup BuffersOf(hand)
  /\ hand' = Nothing
  /\ UNCHANGED <<timerVars, calls, slot, readFds, ioVars, queue, closed, kept, listening, handlerVars, endVars>>

CallbackReturns ==
  /\ Goes("callback", "scan")
  /\ hand' = Nothing
  /\ UNCHANGED <<timerVars, calls, slot, readFds, ioVars, queueVars, handlerVars, endVars>>

(* The routine of a timer returns, or that for the event, which had a      *)
(* buffer.                                                                 *)
RoutineReturns ==
  /\ Goes("routine", "scan")
  /\ events' = events \cup ({hand.buffer} \cap EventBuffer)
  /\ hand' = Nothing
  /\ UNCHANGED <<freeList, pendingList, pending, deltaTime, routine, age, alarm, signal, masked, pc,
                 ticks, arg, notify, left, calls, slot, readFds, ioVars, queueVars, handlerVars, endVars>>

(* radTimerListDelete blocks SIGALRM before the pipe is closed. *)
radProcessExit ==
  /\ Goes("end", "off")
  /\ masked' = TRUE
  /\ UNCHANGED <<freeList, pendingList, pending, deltaTime, routine, age, alarm, signal, pc, ticks, arg,
                 notify, events, left, calls, slot, readFds, hand, ioVars, queueVars, handlerVars, endVars>>

LoopStep ==
  \/ radProcessWait \/ Interrupted \/ SelectAnswers \/ SelectFails \/ ScanEnds
  \/ \E s \in UserSlot : ioCallback(s)
  \/ procPipeReadCB \/ ReceiveEvent \/ ReceiveMessage \/ QueueClosed
  \/ msgHandler \/ HandlersDone \/ HandlerReturns \/ EventReturns \/ ReleaseMessage
  \/ CallbackReturns \/ RoutineReturns \/ radProcessExit

ProgramCall ==
  \/ radProcessIORegisterDescriptor
  \/ \E s \in UserSlot : radProcessIODeRegisterDescriptor(s)
  \/ \E fd \in UserFd : radProcessIODeRegisterDescriptorByFd(fd)
  \/ \E h \in Handler : radProcessQueuePrependHandler(h) \/ radProcessQueueRemoveHandler(h)
  \/ radProcessQueueKeepBuffer \/ radProcessQueueStopHandlerList
  \/ \E b \in Message : radBufferRls(b)
  \/ SetMask

Others ==
  \/ \E fd \in UserFd : Arrives(fd)
  \/ Sent \/ WritersGone \/ radProcessSetExitFlag

(* The timers of the program: its calls, their steps and the signal. *)
TimersMove ==
  \/ AlarmInterrupts
  \/ /\ HandlerRead \/ HandlerUpdate \/ StartRead \/ StartAdd \/ MainRead \/ MainUpdate
        \/ EventWrite \/ EventFails
     /\ UNCHANGED loopVars

Next ==
  \/ LoopStep \/ SelectTimeout \/ ProgramCall \/ Others \/ TimersMove
  \/ "timers" \in calls /\ Program /\ TimerCall /\ UNCHANGED loopVars
  \/ "timers" \in calls /\ Tick /\ UNCHANGED loopVars

(* The process runs, its callbacks return and it waits again; time goes on *)
(* but does not outrun the reading of the clock.                           *)
Fairness ==
  /\ SF_vars(LoopStep)
  /\ WF_vars(TimersMove)
  /\ SF_vars("timers" \in calls /\ ~ Reading /\ Tick /\ UNCHANGED loopVars)

Spec == Init /\ [][Next]_vars /\ Fairness

-----------------------------------------------------------------------------
(* select is asked about every registered descriptor, and no other open    *)
(* one: what procAllocIOBlock and procFreeIOBlock change in the table they *)
(* change in the set and the maximum.  A descriptor of the last slot that  *)
(* was closed by its number stays behind.                                  *)
LastSlotClosed == "last slot" \in cause

SelectSeesAll ==
  LET registered == {fds[s] : s \in Slot \ {WriteSlot}} \ {NoFd}
  IN  ~ LastSlotClosed => /\ fdSet = registered
                          /\ registered \cap UserFd \subseteq open
                          /\ \A fd \in registered : fd <= fdMax

(* A callback runs because its descriptor had something to read, unless it *)
(* was registered within this very turn, under the number of one that was  *)
(* closed: the loop reads the answer of select after callbacks have        *)
(* changed the table.                                                      *)
CallbackHasReason ==
  loop = "callback" => hand.had \/ hand.new \/ LastSlotClosed

(* Every buffer of a message is free, in the queue, kept by the program or *)
(* that of the message at hand, and of these only one: whatever handlers   *)
(* do, none is lost and none released twice.                               *)
BuffersAccounted ==
  LET queued(b) == Cardinality({k \in DOMAIN queue : b \in BuffersOf(queue[k])})
      held(b) == Cardinality({S \in {1} : b \in freeBuffers}) + Cardinality({S \in {2} : b \in kept})
                   + Cardinality({S \in {3} : b \in BuffersOf(hand)})
  IN  \A b \in Message : queued(b) + held(b) = 1

(* When the walk over the handlers reaches its end, it has been at each of *)
(* them that was on the list all the time, though handlers remove          *)
(* themselves and others meanwhile.                                        *)
HandlersServed ==
  loop = "next" /\ node = End => owed = {}

(* The process ends only when a signal handler asked for it, the queue was *)
(* closed, or a descriptor in the last slot was closed by its number.      *)
ExitHasReason ==
  loop \in {"end", "off"} => cause # {}

(* Who writes to a registered descriptor is served: its callback runs, or  *)
(* the program closes it, or the process ends or blocks itself.            *)
Served ==
  \A fd \in UserFd :
    fd \in data /\ fd \in fdSet ~> fd \notin data \/ fd \notin fdSet \/ loop = "off" \/ SelfBlocked
=============================================================================
