------------------------------- MODULE Timers -------------------------------
(***************************************************************************)
(* The timers of one radlib process (src/radtimers.c): all of them share   *)
(* the interval timer of the process, whose SIGALRM handler interrupts the *)
(* program anywhere, ages the timers by the clock, and tells the program   *)
(* through the notify pipe which have expired.  Self-sent events           *)
(* (src/radevents.c) travel through the same pipe.  Time is relative:      *)
(* age is the time since lastTick, alarm the time to the next SIGALRM; an  *)
(* age beyond the longest time expires all timers, so it stops there.      *)
(***************************************************************************)
EXTENDS Selection, Sequences, SequencesExt, FiniteSetsExt

CONSTANTS
  Timer,     \* the timers of the list
  Time,      \* the times they are started with
  IntMax,    \* the largest int
  Routine,   \* may a timer have a routine (TRUE), or none (FALSE)?
  PipeCap,   \* messages that fit into the notify pipe
  EventBuffer \* system buffers for events to oneself

ASSUME TimersAssumption ==
  /\ IsFiniteSet(Timer) /\ Timer \cap EventBuffer = {}
  /\ Time \subseteq Nat /\ Time # {} /\ IsFiniteSet(Time)
  /\ IntMax \in Nat
  /\ Routine \subseteq BOOLEAN
  /\ PipeCap \in Nat \ {0}

Off == -1      \* no alarm; of lastTick: not read yet
Longest == Max(Time)

VARIABLES
  freeList,     \* TIMER_LIST.freeList
  pendingList,  \* TIMER_LIST.pendingList
  pending,      \* timer->pending
  deltaTime,    \* timer->deltaTime
  routine,      \* timer->routine # NULL
  age,          \* the clock minus timerList->lastTick
  alarm,        \* the time to the end of the interval timer
  signal,       \* SIGALRM is pending
  masked,       \* SIGALRM is blocked
  pc,           \* where the program and the signal handler are
  ticks,        \* numberOfTicks in each of the two
  arg,          \* the timer the program's call is about, its time, what follows it
  notify,       \* the notify pipe
  events,       \* free system buffers for events
  left          \* history: the time left since the program started the timer

timerVars == <<freeList, pendingList, pending, deltaTime, routine, age, alarm, signal, masked,
               pc, ticks, arg, notify, events, left>>

(* The program and the handler that interrupts it. *)
Context == {"main", "handler"}

NoCall == [op |-> "none"]

Created == Timer \ ToSet(freeList)

TimersInit ==
  /\ freeList = SetToSeq(Timer)
  /\ pendingList = <<>>
  /\ pending = [t \in Timer |-> FALSE]
  /\ deltaTime = [t \in Timer |-> 0]
  /\ routine = [t \in Timer |-> FALSE]
  /\ age = Off /\ alarm = Off
  /\ signal = FALSE /\ masked = FALSE
  /\ pc = [c \in Context |-> "idle"]
  /\ ticks = [c \in Context |-> 0]
  /\ arg = NoCall
  /\ notify = <<>>
  /\ events = EventBuffer
  /\ left = [t \in Timer |-> Off]

(* A signal that is not blocked is delivered before the program goes on,   *)
(* and the program waits until its handler has returned.                   *)
Runs(c) == c = "main" => pc["handler"] = "idle" /\ ~ (signal /\ ~ masked)

At(c, from) == Runs(c) /\ pc[c] = from

Goto(c, from, to) ==
  /\ At(c, from)
  /\ pc' = [pc EXCEPT ![c] = to]

-----------------------------------------------------------------------------
(* updateTimers: the timers after n ticks. *)
Aged(n) == [t \in Timer |-> IF t \in ToSet(pendingList) THEN Max({deltaTime[t] - n, 0})
                            ELSE deltaTime[t]]

(* The end of the interval of radUtilsSetIntervalTimer: what serviceTimers *)
(* returns is an int, and 0xFFFFFFFF, for an empty list, becomes -1 and    *)
(* then the longest interval there is, as does every time beyond IntMax; 0 *)
(* would switch the timer off.                                             *)
Interval(list, d) ==
  LET all == {d[t] : t \in ToSet(list)}
  IN  IF all = {} \/ Min(all) \notin 1 .. IntMax THEN Off ELSE Min(all)

(* serviceTimers, first reading of the clock.  lastTick is 0 until the     *)
(* first call.                                                             *)
ReadClock(c, from, to) ==
  /\ Goto(c, from, to)
  /\ age' = Max({age, 0})
  /\ ticks' = [ticks EXCEPT ![c] = Max({age, 0})]
  /\ UNCHANGED <<freeList, pendingList, pending, deltaTime, routine, alarm, signal, masked, arg,
                 notify, events, left>>

(* The timers of the list that have expired, those of them with a routine  *)
(* to call, and the others, each in their order.                           *)
Over(d) == {k \in DOMAIN pendingList : d[pendingList[k]] = 0}
Expired(d) == AtPositions(pendingList, Over(d))
Rings(d) == AtPositions(pendingList, {k \in Over(d) : routine[pendingList[k]]})
Remaining(d) == AtPositions(pendingList, DOMAIN pendingList \ Over(d))

(* Mutant: the alarm is set to the shortest time before the expired timers *)
(* were taken off the list.                                                *)
ArmFirst(d) == Interval(pendingList, d)

(* The interval timer is set to the shortest time that is left. *)
Arm(d) == Interval(Remaining(d), d)

(* Mutant: an expired timer stays pending. *)
serviceRepeating(d) ==
  /\ deltaTime' = d
  /\ pending' = pending
  /\ pendingList' = Remaining(d)
  /\ Len(notify) + Len(Rings(d)) <= PipeCap
  /\ notify' = notify \o Rings(d)
  /\ alarm' = Arm(d)
  /\ age' = 0
  /\ left' = [t \in Timer |-> IF t \in ToSet(Expired(d)) THEN Off ELSE left[t]]

(* The rest of serviceTimers(TRUE) and radUtilsSetIntervalTimer with its   *)
(* result: the second reading of the clock becomes lastTick, the timers    *)
(* age, and each one that has expired leaves the list and writes to the    *)
(* pipe.  A write waits while the pipe is full: nobody else reads it.      *)
service(d) ==
  /\ deltaTime' = d
  /\ pending' = [t \in Timer |-> pending[t] /\ t \notin ToSet(Expired(d))]
  /\ pendingList' = Remaining(d)
  /\ Len(notify) + Len(Rings(d)) <= PipeCap
  /\ notify' = notify \o Rings(d)
  /\ alarm' = Arm(d)
  /\ age' = 0
  /\ left' = [t \in Timer |-> IF t \in ToSet(Expired(d)) THEN Off ELSE left[t]]

(* The kernel delivers SIGALRM: the handler interrupts the program.  A     *)
(* write of the program that waits for room then fails with EINTR.         *)
timerSignalHandler ==
  /\ signal /\ ~ masked
  /\ pc["handler"] = "idle"
  /\ signal' = FALSE
  /\ \/ pc' = [pc EXCEPT !["handler"] = "read"]
     \/ /\ pc["main"] = "event_write" /\ Len(notify) = PipeCap
        /\ pc' = [pc EXCEPT !["handler"] = "read", !["main"] = "event_fails"]
  /\ UNCHANGED <<freeList, pendingList, pending, deltaTime, routine, age, alarm, masked, ticks, arg,
                 notify, events, left>>

HandlerRead == ReadClock("handler", "read", "update")

HandlerUpdate ==
  /\ Goto("handler", "update", "idle")
  /\ service(Aged(ticks["handler"]))
  /\ ticks' = [ticks EXCEPT !["handler"] = 0]
  /\ UNCHANGED <<freeList, routine, signal, masked, arg, events>>

-----------------------------------------------------------------------------
(* The calls of the program. *)

(* radTimerCreate: a timer of the free list, or a new routine for one the  *)
(* program has.                                                            *)
radTimerCreate ==
  /\ At("main", "idle")
  /\ \E r \in Routine :
       \/ /\ freeList # <<>>
          /\ freeList' = Tail(freeList)
          /\ pending' = [pending EXCEPT ![Head(freeList)] = FALSE]
          /\ routine' = [routine EXCEPT ![Head(freeList)] = r]
       \/ \E t \in Created :
            /\ routine' = [routine EXCEPT ![t] = r]
            /\ UNCHANGED <<freeList, pending>>
  /\ UNCHANGED <<pendingList, deltaTime, age, alarm, signal, masked, pc, ticks, arg, notify, events, left>>

(* Mutant: the handler is not kept out. *)
CallUnmasked(from, to, call) ==
  /\ Goto("main", from, to)
  /\ arg' = call
  /\ UNCHANGED masked

(* A call that works on the list begins by blocking SIGALRM. *)
CallMasked(from, to, call) ==
  /\ Goto("main", from, to)
  /\ arg' = call
  /\ masked' = TRUE

radTimerStart(t, d) ==
  /\ t \in Created
  /\ CallMasked("idle", "start_read", [op |-> "start", timer |-> t, time |-> d])
  /\ left' = [left EXCEPT ![t] = d]
  /\ UNCHANGED <<freeList, pendingList, pending, deltaTime, routine, age, alarm, signal, ticks, notify, events>>

StartRead == ReadClock("main", "start_read", "start_add")

(* serviceTimers(FALSE) only ages the others; then the timer gets its time *)
(* and is added to the list.                                               *)
StartAdd ==
  /\ Goto("main", "start_add", "read")
  /\ age' = 0
  /\ deltaTime' = [Aged(ticks["main"]) EXCEPT ![arg.timer] = arg.time]
  /\ pending' = [pending EXCEPT ![arg.timer] = TRUE]
  /\ pendingList' = IF pending[arg.timer] THEN pendingList ELSE Append(pendingList, arg.timer)
  /\ ticks' = [ticks EXCEPT !["main"] = 0]
  /\ arg' = NoCall
  /\ UNCHANGED <<freeList, routine, alarm, signal, masked, notify, events, left>>

(* radTimerStop, and radTimerDelete, which stops the timer first. *)
Unlink(t, call) ==
  /\ t \in Created
  /\ CallMasked("idle", "read", call)
  /\ pending' = [pending EXCEPT ![t] = FALSE]
  /\ pendingList' = IF pending[t] THEN Without(pendingList, t) ELSE pendingList
  /\ left' = [left EXCEPT ![t] = Off]
  /\ UNCHANGED <<freeList, deltaTime, routine, age, alarm, signal, ticks, notify, events>>

radTimerStop(t) == Unlink(t, NoCall)
radTimerDelete(t) == Unlink(t, [op |-> "delete", timer |-> t])

radTimerSetUserParm(t) ==
  /\ t \in Created
  /\ CallMasked("idle", "read", NoCall)
  /\ UNCHANGED <<freeList, pendingList, pending, deltaTime, routine, age, alarm, signal, ticks, notify,
                 events, left>>

MainRead == ReadClock("main", "read", "update")

(* The end of these calls: serviceTimers(TRUE), then SIGALRM may come      *)
(* again; radTimerDelete has the timer put on the free list.               *)
MainUpdate ==
  /\ Goto("main", "update", "idle")
  /\ service(Aged(ticks["main"]))
  /\ ticks' = [ticks EXCEPT !["main"] = 0]
  /\ masked' = FALSE
  /\ arg' = NoCall
  /\ freeList' = IF arg.op = "delete" THEN Append(freeList, arg.timer) ELSE freeList
  /\ UNCHANGED <<routine, signal, events>>

-----------------------------------------------------------------------------
(* Events to oneself: a system buffer and a message in the notify pipe. *)

radEventsSend(b) ==
  /\ b \in events
  /\ Goto("main", "idle", "event_write")
  /\ events' = events \ {b}
  /\ arg' = [op |-> "event", buffer |-> b]
  /\ UNCHANGED <<freeList, pendingList, pending, deltaTime, routine, age, alarm, signal, masked, ticks,
                 notify, left>>

EventWrite ==
  /\ Goto("main", "event_write", "idle")
  /\ Len(notify) < PipeCap
  /\ notify' = Append(notify, arg.buffer)
  /\ arg' = NoCall
  /\ UNCHANGED <<freeList, pendingList, pending, deltaTime, routine, age, alarm, signal, masked, ticks,
                 events, left>>

(* The write was interrupted.  The call only logs it and answers OK. *)
EventFails ==
  /\ Goto("main", "event_fails", "idle")
  /\ arg' = NoCall
  /\ UNCHANGED <<freeList, pendingList, pending, deltaTime, routine, age, alarm, signal, masked, ticks,
                 notify, events, left>>

(* A millisecond passes. *)
Down(n) == IF n > 0 THEN n - 1 ELSE n

Tick ==
  /\ age' = IF age = Off THEN Off ELSE Min({age + 1, Longest})
  /\ left' = [t \in Timer |-> Down(left[t])]
  /\ alarm' = IF alarm = 1 THEN Off ELSE Down(alarm)
  /\ signal' = (signal \/ alarm = 1)
  /\ UNCHANGED <<freeList, pendingList, pending, deltaTime, routine, masked, pc, ticks, arg, notify, events>>

TimerCall ==
  \/ radTimerCreate
  \/ \E t \in Timer : \/ \E d \in Time : radTimerStart(t, d)
                      \/ radTimerStop(t) \/ radTimerDelete(t) \/ radTimerSetUserParm(t)
  \/ \E b \in EventBuffer : radEventsSend(b)

(* Nobody is between the two readings of the clock. *)
Reading == \E c \in Context : pc[c] \in {"update", "start_add"}

-----------------------------------------------------------------------------
(* The pipe is too full for what the expired timers would write, so that   *)
(* the only reader of the pipe waits for itself.                           *)
SelfBlocked ==
  \E c \in Context :
    /\ pc[c] = "update"
    /\ Len(notify) + Len(Rings(Aged(ticks[c]))) > PipeCap

(* A timer is on one list or held by the program, never twice on a list,   *)
(* and its pending flag says whether it is on the pending list: else       *)
(* radTimerStart or the handler would tie the list to itself.              *)
ListsAgree ==
  /\ \A t \in Timer : pending[t] <=> t \in ToSet(pendingList)
  /\ ToSet(pendingList) \cap ToSet(freeList) = {}
  /\ Len(pendingList) = Cardinality(ToSet(pendingList))
  /\ Len(freeList) = Cardinality(ToSet(freeList))

(* How often each timer has rung that the program has not heard yet. *)
Rung == [t \in Timer |-> Cardinality({k \in DOMAIN notify : notify[k] = t})]

(* The notify pipe and the list together are the alarms of module Alarms:  *)
(* no timer rings before its time, twice, or after radTimerStop unless the *)
(* message was already in the pipe.                                        *)
Alarms == INSTANCE Alarms WITH rung <- Rung

AlarmsSpec == Alarms!Spec

(* No timer on the list had an int of time left when the interval timer    *)
(* was set, so no alarm will come: they wait for the next call.            *)
TooLong ==
  /\ pendingList # <<>>
  /\ \A t \in ToSet(pendingList) : deltaTime[t] > IntMax

(* A running timer whose time is over rings, is stopped or started again,  *)
(* unless the process has blocked itself, or all the times on the list     *)
(* were too long for the int serviceTimers returns.                        *)
OverdueRings ==
  \A t \in Timer : left[t] = 0 ~> left[t] # 0 \/ SelfBlocked \/ TooLong
=============================================================================
