# A TLA+ verification of radlib

radlib is a C library for processes that run together on one Linux machine: system buffers in
shared memory, message queues over FIFOs, timers, threads, events, a main I/O loop, and a daemon,
`radmrouted`, that routes messages between programs that subscribe to message IDs. This directory
holds TLA+ modules translated from its code, TLC configurations that check them on small
instances, and theorems about them checked by TLAPS. `PROJECT.json` maps every definition to the
lines it models, and lists the runs, the mutants, the findings, the hazards and the theorems.

File names below are relative to the repository: `src/x.c` is in its directory `src/`.

## 1. Inventory

| Component (code) | State | Operations | Talks to | What makes it correct | Here |
|---|---|---|---|---|---|
| System buffers (`src/radbuffers.c`) | a shared segment: per power-of-2 size a free list linked through the buffer headers; `allocated` per header | Init, Get, Rls, GetAvailable, the counts per size, Exit | semaphores, shared memory; all that sends a message | one owner per buffer, free lists are lists, NULL only when exhausted, nothing lost, calls return | `Buffers`, `BufferPool` |
| Semaphores (`src/radsemaphores.c`) | one SysV set, 2 reserved indices | Create, Take, Give, GiveMultiple, Test, Delete, ProcessInit/Exit | kernel | mutual exclusion for those who use it as a lock | `Buffers`, `System`, partly |
| Shared memory (`src/radshmem.c`) | segment, its semaphore, attach count | Init, InitIfExists, Exit, Lock, Unlock | semaphores | exclusive access between lock and unlock; first and last process create and destroy it once | `Buffers`, `System` |
| Message queues (`src/radqueue.c`) | shared table of (queue, group, update flag); per process a FIFO, a send list, a reflector pipe with a child process | SystemInit, Init, Exit, Join/QuitGroup, Attach, Dettach, Send, SendGroup, Recv | buffers, shared memory, kernel FIFOs | members keep their records, group sends reach the group, one owner per buffer across copies and failures | `MsgQueue` |
| Message router (`msgRouter/msgRouter.c`) | list of registered processes (PIB), of message IDs (MIIB) with consumers (CIB), links to other routers | one handler for all internal messages and the routing of others; connect timer, TCP handlers | queues, buffers, sockets, timers | consumers are registered processes; what a program subscribed to is what it gets, once, over links too | `MsgRouter`, `RemoteRouters`, partly |
| Router client (`src/radmsgRouter.c`) | process ID, queue, "initialized" | Init, Exit, ProcessExit, MessageRegister/Deregister/IsRegistered/Send | the router through its queue | calls return with what the router did | `MsgRouter` |
| Timers (`src/radtimers.c`) | pending list, free list, `lastTick`, one `SIGALRM` timer | Create, Delete, Start, Stop, SetUserParm, the signal handler | notify pipe of the process loop | a timer rings once, neither early nor never, not after Stop; lists intact under the handler | `Timers`, `Alarms` |
| System start/end (`src/radsystem.c`) | system segment with table of systems, one semaphore | Init, Exit, the semaphore take/give | all shared parts | created once, destroyed by the last | `System` |
| Threads (`src/radthread.c`) | two queues and condition variables per thread | Create, WaitExit, ShouldExit, Send/Receive both ways | pthreads | no lost wake-up, no empty dequeue, no buffer lost, join returns | `Thread` |
| Process loop (`src/radprocess.c`) | descriptor table, queue handler list, notify pipe | ProcessInit/Exit, Wait, IORegister..., QueuePrependHandler... | queues, timers, events | a callback runs for its own descriptor's data only, who has data is served, buffers end in one place | `ProcessLoop` |
| Events (`src/radevents.c`) | mask, callback | Init, Add, Remove, Send, Exit | notify pipe, queues | an enabled event is delivered once | `Timers`, `ProcessLoop` |
| Process lists (`src/radproclist.c`, `radprocutils.c`) | list of children, a ready semaphore | Create, Add, Start, AddandStart, StopAll | fork/exec, semaphores | children start in order, every start is answered | `ProcList`, partly |
| Lists, sorted lists, stack (`src/radlist.c`, ...) | doubly linked lists | add, insert, remove, walk | most of the above | pointers represent a sequence | `Lists` |
| State machines (`src/radstates.c`) | handler per state | Init, AddHandler, Process, SetState | none | a stimulus goes to the handler of the current state | no: one assignment per call |
| Text search (`src/radtextsearch.c`) | red-black tree | Init, Insert, Find, Remove, Exit | none | ordered, balanced, finds what was inserted | `TextSearch` |
| Configuration files (`src/radconffile.c`) | list of lines; lock link and file | Open, Close, Flush, get/put | file system | one writer, nothing lost, what is read is what was written | `ConfFile` |
| Sockets (`src/radsocket.c`, `radUDPsocket.c`) | descriptor, debug counters | create, accept, exact read and write, UDP | kernel | whole messages or an error, no descriptor lost | `Sockets` |
| Databases (`database/`, `src/raddatabase.c`, `src/radsqlite.c`) | connection, result sets, row descriptions | open, close, query, table and row calls, direct queries | database servers and libraries | a result set lasts until its user lets it go, queries return | `Database` |
| SHA, CRC (`src/radsha.c`, `src/radcrc.c`) | running hash | init, update, final | none | - | no: published numeric standards |
| Log, debug, time, utilities | - | formatting, wrappers | kernel | - | no: no state |

**How they interact.** `radSystemInit` attaches a process to the semaphores, the buffers and the
queue table of a *system* of processes. `radProcessInit` then gives it a queue, timers, a
loop. A message is written as the offset of a system buffer: sender and receiver share nothing but
the segment, and the ownership of a buffer moves with the message. The router is a process like
any other that attaches to the queue of everyone who registers.

**What is hard.** All data shared between processes is guarded by semaphores that the code takes
and gives in small pieces: the header of a buffer is written outside the lock that guards its free
list (`radbuffers.c:306`, `340`); the walk over a group takes the lock once per record and keeps an
index in between (`radqueue.c:189`); update flags are cleared before what they ask for is done
(`radqueue.c:217`). Processes die and leave locks, records, buffers and blocks of the router
behind; a program restarts under the name and with the FIFO of the dead one. `SIGALRM` interrupts
system calls, some of which ignore it, and works on the same timer list as the calls it interrupts.
Pipes have a limit: router and programs wait in `write`, and a process may wait for itself. Answers
of the router may be late, and what comes while a program waits is tossed. Callbacks change the
tables and lists that the loop above them is walking over. Links of routers end in the middle of
messages and come back. The list of all such points, each at its line and with the properties that
cover it or the reason why none does, is `hazards` in `PROJECT.json`.

## 2. The modules

### `Buffers` — and its abstract specification `BufferPool`

`Buffers` follows `radBufferGet`, `radBufferRls` and `radBuffersGetAvailable` from one write to
shared memory to the next: `pc[p]` is the point a process has reached, `reg[p]` and `idx[p]` its
local pointer and size class (for a get, the class that was asked for). Variables `pool`, `next`,
`allocated` and `sem` are `BUFFER_SHARE.pool`, `BFR_HDR.next`, `BFR_HDR.allocated` and the semaphore
of the segment. A process may exchange buffers with others through `sent` (the messages in all
queues), so that a buffer is released by another process than the one that got it, and it may die at
any point in `CrashAt` and attach again (`Attach`). The constants `Signals` and `CrashAt` are the
environment: `Signals` lets a wait for the semaphore end without the semaphore, because `radSemTake`
ignores the result of `semop` (`radsemaphores.c:135`).

`BufferPool` is the promise of `h/radbuffers.h`: buffers are free, owned or in a message; a process
asks for a class (`Ask`) and is served in one step by one *best-fitting* free buffer (`Get`), or is
refused in a step in which nothing free fits (`Refuse`). The refinement (`PoolSpec`) maps "free" to
the buffers on a free list, "owned" to those a process holds or is moving (`Owned`), and "wanted"
to the class of a get that has not yet been decided (`Wanted`): a get takes effect at `GetPop`, a
refusal at `GetScan`, a release at `RlsHead`; all other steps of a call are stutters.

Abstracted: the bytes of buffers, the offsets (a buffer is a model value, offset 0 is `Nil`),
`allocCount`, which nothing reads but a statistics call, and sizes: a request is its first
large-enough class.

### `MsgQueue`

One atomic step per pass over the table under its lock, because `radShmemLock` guards each pass
(that the lock excludes is the subject of `Buffers`); everything between two passes interleaves.
`call[p]` holds the local variables of the call in progress, in particular `index`, the position
from which `qdbGetNextGroupName` continues. Positions count from 1 where C counts from 0; like the
code, a walk starts *behind* the first position (`index` starts at 0 in C, and the search at
`index + 1`), so the first record of the table is visited by no walk. `qdbDeleteQueue` is modelled
with its loop: for `QUEUE_GROUP_ALL` the record that moves into the place of a removed one is
stepped over. `open` of a FIFO waits for a reader, and may fail when `OpenFails`.

A pipe is a sequence of blocks of 16 bytes. A header (`QMSG_HDR`, 144 bytes) has nine, and the last of
them holds the offset of the buffer (`Header`). A write of a header is atomic and waits while the
pipe has no room for all of it (`PipeCap`); a signal may end that wait, which nothing restarts, and
then `radQueueSend` answers ERROR: for a single send that is a call that changed nothing, for a
group send it means that the copy is released, the member is left out (`missed`) and the call
still answers OK (`GroupWriteInterrupted`). The reflector process (`dummyChild`) reads up to 256
bytes, sixteen blocks, and writes on what it read: of two headers the second is cut after seven
blocks, and other writers may come between its parts. `radQueueRecv` takes the next nine blocks
whatever they are; a FIFO out of step loses the buffers whose last block is not the ninth. What is
in a FIFO survives as long as anyone has it open (`Keep`). `groups` and `must` are history
variables for properties.

`Calls` says which calls each program makes, so that a run can ask one question of a small set.
`radqueue.c:455-463`, the reflector's own end, is part of `Gone`.

### `MsgRouter`

The handler of the router is one action per type of message (`QueueMsgHandler` runs one message to
its end), except that the loop that copies a message to the consumers is a step per consumer,
since it may wait in each write. Programs are a small state machine: each call writes one request
(`sendToRouter` waits while the queue of the router is full), Init and IsRegistered then wait. The
waits read a message first and look at the time after, as the code does, so a wait without any
message never ends; messages of other kinds are tossed. A program may die anywhere and start again
with a new process ID and the same queue name; other programs may report the death
(`radMsgRouterProcessExit`) at any later time. `wanted` is a history variable: the message IDs the
program has asked for.

Abstracted: the contents of messages, the counters, the buffers (the router copies a message into a
buffer of its own and releases it when the send fails; `MsgQueue` covers buffers), other routers,
the end of the router itself. `Post` is `radQueueSend` as seen by the router: lost without a node or
a reader, waiting when full, and lost also when it fails: no buffer, or a write interrupted by the
timer of the router. With `Fails`, such a failure may come at each answer, each turn of the routing
loop and each attach of a new client's queue (`RouterFails`, `TurnAway`), and at each write of a
program (`sendFails`). `unanswered` is the history of the processes whose last REGISTER got no ACK
for such a reason.

### `Timers`, and its abstract specification `Alarms`

All timers share one interval timer. The program's calls are actions of several steps, and the
`SIGALRM` handler (`timerSignalHandler`) runs between any two of them that the code does not
protect: `pc` has one program counter for the program and one for the handler, and the handler runs
to its end once it has begun. Both read the clock twice in `serviceTimers`, for the ticks and again
for `lastTick`; the second reading may differ from the first. Time is relative, so that the states
are finite: `age` is the time since `lastTick`, `alarm` the time to the next signal, `left[t]` the
history of what a timer was started with. `Tick` moves them; an age beyond the longest time expires
all timers, so it stops there. The notify pipe (`notify`, room for `PipeCap`) carries the expired
timers and the events a program sends to itself (`radEventsSend`). An interval that is not a
positive `int` switches the alarm off (`Interval`, `IntMax`): a list on which every time is that
long waits for the next call (`TooLong`).

`Alarms` knows only which timers run, for how long they still have to, and which have rung and are
not yet read: a timer rings once, not before its time, and not after it was stopped or started
anew, unless the message was in the pipe already. `AlarmsSpec` maps "rung" to the messages in the
pipe.

### `ProcessLoop`

Extends `Timers` by the main loop of `radProcessWait`: select, the slots of `procData.fds`, the
callback of each slot, the walk over the list of message handlers with the keep and stop flags,
signals and their handlers, and the end. A callback may make any call; `Programs` says which kinds
of calls a program makes, so that a run covers each kind without their product. What select
answered is kept while callbacks change the table (`hand`), as in the code. History variables:
`cause` (why the process may end), `owed` (handlers on the list since the walk began).

### `System` and `ProcList`

`System` is `radSystemInit` and `radSystemExit` with the shared memory and semaphore calls under
them. Each call of the kernel is a step, and each may fail (`MaxFailures`). A kernel object that was
removed becomes *stale* to those who still have its number. The counts `numAttached` and `numprocs`
are read in one step and written in another (`seen`, `ReadProcs`, `WriteProcs`). The semaphore lets
in a second process when a start sets it to 1 while another is inside (`SemSetVal`), when it is
removed under those who wait (`semTake`), or when a signal ends a wait (`semTakeInterrupted`); from
then on `disturbed` is true, both go on, and counts are written over each other.

`ProcList` extends it: a parent starts children from its list, in the order of priorities, each
starts the system for itself and then signals the ready semaphore. A child may end or die whatever
the parent is doing, also before it has signalled, so starts and ends overlap. The parent's wait
for the signal ends with it, or without it when a signal of another kind comes
(`WaitInterrupted`) or the semaphores are gone; `hasty` is the history of that.

### `Thread`

A thread and its parent are two actors with one list in each direction. The look into the list
and `pthread_cond_wait` are one mutex section, during which others wait for the mutex (`ListFree`);
the sends and the copies out of buffers are outside of it. A condition wait has no loop in the
code, so who is woken takes a node whether there is one or not; POSIX lets a wait end without a
signal too (`WakeUnsignalled`), and then a receiver with an empty list crashes. `Join` frees both lists
and not the messages on them. `Receives` chooses between programs whose receives block and do not.

### `RemoteRouters`

The connections of `radmrouted` to other routers: the connect timer, the connection back, the
registration of each router as a client of the other, what is told of subscriptions, the routing of
messages, and every way a link or a router ends. Contents are one message ID, since who gets what is
decided per ID; each end of a link is a stream that may end within a message. `mute` holds the links
on which `SendToRemote` fails at present, for want of a buffer or by an interrupted write: it
changes at any time (`SendsFail`, `SendsWork`). What is sent meanwhile is lost without a word, an
`ENABLE` as well, since its result is ignored (`msgRouter.c:426`); `missed` is the history of that.
In a handshake the result is not ignored, and `RegisterFails` and `AckFails` are what the two ends
then do. `forgot` is the set of routers whose connect timer was lost in one of the paths of the code
that do so.

### `ConfFile`, `Lists`, `TextSearch`, `Sockets`

`ConfFile`: handles of different programs on one file. An open reads line by line without the
lock; a flush takes the lock link, truncates, writes line by line, and may fail or die between any
two of them. `saved` is the history of what the last flush set out to write, and `torn` says that
one did not come to its end.

`Lists` models the pointers of all nodes, dummy nodes and stale pointers of removed nodes included,
against the sequences that the callers made (`order`).

`TextSearch` models one iteration of the top-down loops of insert and remove per step; `find` and
the debug walk of the code are recursive functions, used by the property.

`Sockets` models a server and a client, from the creation of the sockets, with each system call
that may fail, to reads and writes in pieces and the end of either side; the UDP socket is a small
part of its own.

### `Database`

The plug-ins for SQLite, MySQL and PostgreSQL over the same calls: row descriptions, statements
made of them, result sets with their user, connections. MySQL and PostgreSQL execute a statement at
once or it fails; SQLite has steps (`prepare`, `step`, rows), a file lock that others may hold, the
retries, and direct statements that read row by row and keep others from writing until they are
finalized. The servers are external. A statement is a record of what it does (`Executed`,
`Refused`); its text is left out, but for what a server refuses because of the text (quotes, double
assignments, an empty clause).

### Compositions

`ProcessLoop` composes `Timers` with the loop through the notify pipe, `ProcList` composes `System`
with the list. `MCPrograms` and `MCLibrary` put parts that do not interact into one state machine
each, with a variable `part` that says which of them runs: this is a device to check them in one
run, and says nothing about the system.

### Properties

| Property | What it says | What it guards against |
|---|---|---|
| `Buffers!ExclusiveAccess` | never two processes between lock and unlock | interrupted waits, paths without lock |
| `Buffers!SingleOwner` | a buffer has one owner, and is then not on a free list | double hand-out through the window between header mark and list |
| `Buffers!FreeListsIntact` | each free list is finite, without a loop, of its size, all unmarked | interleaved link updates, deaths in between |
| `Buffers!OnlyDeathLosesBuffers` | a buffer that is somewhere stays somewhere, unless its owner dies | leaks on any path |
| `Buffers!NullMeansExhausted` | NULL is answered only when no buffer that fits is listed | the loop over larger sizes |
| `Buffers!PoolSpec` | refinement of `BufferPool` | anything the abstract pool forbids, e.g. not best-fitting |
| `Buffers!CallsReturn` | every call returns (liveness) | early returns that keep the lock, endless walks |
| `MsgQueue!RecordsKept` | a member has exactly one record per group it was told it is in | what others delete, add, and leave behind when they die |
| `MsgQueue!SingleOwner`, `OnlyTheseLoseBuffers` | no buffer in two places; a complete list of how one can get lost | error paths of attach, join and group send |
| `MsgQueue!GroupReached` | a group send that answers OK has written to all who had joined and not quit, but for interrupted writes | flags cleared too early, positions that move |
| `MsgRouter!NoDanglingConsumer` | consumers and routing loop refer to living blocks only, once each; MIIBs are not empty | order of deregistration, duplicates |
| `MsgRouter!ViewsAgree` | after the pending requests, the subscriptions in the router are those the program asked for | late ACKs, re-registration, deaths |
| `MsgRouter!Reachable` | a registered program's queue is attached | restart under the same name |
| `MsgRouter!InitReturns`, `IsRegisteredReturns` | the waits end (liveness) | missing answers, failures of the router |
| `Timers!ListsAgree` | a timer is on one list, once, and its flag says so | the handler between two steps of a call |
| `Timers!AlarmsSpec` | refinement of `Alarms` | ringing early, twice, after a stop; two clock readings |
| `Timers!OverdueRings` | who is due rings (liveness) | a switched-off interval timer, a lost signal |
| `ProcessLoop!SelectSeesAll`, `CallbackHasReason` | select asks for exactly the registered descriptors; a callback runs for data | descriptors closed and reused in callbacks |
| `ProcessLoop!BuffersAccounted`, `HandlersServed` | each message buffer is in one place; the walk meets every handler that stays | keep flag, handlers that change the list |
| `ProcessLoop!ExitHasReason`, `Served` | the loop ends only for a reason; who has data is called back (liveness) | a failing select, starvation |
| `System!UsersShare` | while one process at a time is inside, all users of a system have its current, existing objects | first and last process in each other's way, counts, failures half-way |
| `ProcList!StartedInOrder`, `StartReturns` | no child before its turn; starts return (liveness) | the one semaphore all children signal |
| `Thread!ThreadWakes`, `JoinReturns` | no lost or empty wake-up; the join ends for polling receives (liveness) | the window before the wait, broadcasts without a message |
| `RemoteRouters!LinkServes` | what a router wants, its peers know, unless an `ENABLE` could not be sent | reconnects, order of registration and subscriptions |
| `RemoteRouters!DeliveredOnce`, `LinkReturns` | no message twice; a link comes back (liveness) | echoes over links, lost timers |
| `ConfFile!ConfWhole`, `ConfReadsBack` | one writer, a complete file; what was saved is read back | deaths and errors in a flush, opens during one |
| `Lists!ListsInOrder` | the pointers are the sequences, both ways | stale pointers, dummy nodes |
| `TextSearch!TreeHolds` | red-black, ordered, exactly what was inserted, no node lost | the repairs on the way down |
| `Sockets!DescriptorsAccounted`, `StreamKept` | no descriptor lost; messages whole and in order | failures in creation, pieces |
| `Database!ResultsKept`, `QueriesReturn` | sets live as long as their users; queries end (liveness) | failed queries, retries, statements not finalized |

`Buffers` also has the type invariant that all its other properties rest on; the types of the other
modules are in the inductive invariants of their proofs, where there are any.

Some properties name an exception. Each is a defect or limit of the code that was met and looked
into, and where the property holds in its run there is, within the bounds of the run and the model's
abstractions (sections 4 and 6), no other way for it to fail:

- `SelfBlocked` (the process waits for the notify pipe that it should read itself: `OverdueRings`,
  `Served`) and `TooLong` (no time on the list is an int: `OverdueRings`);
- `LastSlotClosed` (`SelectSeesAll`, `CallbackHasReason`);
- `disturbed` (the system semaphore has let in a second process: `UsersShare`);
- `broken` (a child that failed or died before it was ready: `StartReturns`, `StartedInOrder`) and
  `hasty` (the parent's wait was cut short: `StartedInOrder`);
- a woken receiver after `radthreadWaitExit` (`ThreadWakes`), and `~ blocking` (`JoinReturns`);
- `missed` of a group send (a full FIFO and a signal: `GroupReached`) and of a link (an `ENABLE` that
  could not be sent: `LinkServes`);
- a header read out of step (`OnlyTheseLoseBuffers`);
- `forgot` (`LinkReturns`), `torn` and `undisturbed` (`ConfWhole`, `ConfReadsBack`), `lost`
  (`TreeHolds`), `Direct` and `crashed` (`QueriesReturn`);
- `Stuck`, `CutOff` and `unanswered` (`InitReturns`), and `TurnedAway` (`ViewsAgree`: the router could
  not attach the queue of a program that took an older ACK for its own).

## 3. The runs

| Run | Instance | Shows |
|---|---|---|
| `buffers` | 2 processes, 3 buffers in 2 classes, deaths at every point outside the lock, no signals | all properties of `Buffers`, with fairness |
| `buffers_signal` | the same with signals and without deaths | **violated**: two processes in the critical section |
| `queue_buffers` | 2 processes, all calls, 3 buffers, failing opens, interrupted writes, pipes of 2 headers, `QUEUE_GROUP_ALL` | buffers of nodes, copies, messages and cut headers |
| `queue_table` | 3 processes that init, exit, die, join, rejoin, quit; room for 4 records of up to 6 | the table |
| `queue_join` | 3 processes that only init and join, one sends to the group | group sends reach all |
| `queue_leave` | the same, and one of them quits | **violated**: a member is stepped over |
| `router` | subscriber and publisher, 3 processes, queues of 1 message, late ACKs, failing calls of router and programs | the router's lists, subscriptions, Init returns |
| `router_restart` | two programs with all calls, 3 processes | **violated**: a living program is cut off |
| `router_answer` | two programs, no timeouts, no restarts | **violated**: a question is not answered |
| `process` | programs with timers (2, of times 1 and 2, of which 2 is no int) and events; with descriptors and signals; with handlers (3) and messages; with messages and signals; a notify pipe and a queue of 1 | `Timers`, `Alarms` and `ProcessLoop`, with fairness |
| `programs` | a parent with 2 children and 1 failure, death or interrupted wait; a thread with 3 buffers and 3 messages each way; 3 routers, sends and links that fail and routers that die; 2 connections to each of three databases | `System`, `ProcList`, `Thread`, `RemoteRouters`, `Database`, with fairness |
| `library` | 2 handles on a file; 3 nodes in 2 lists and a stack; a tree of 4 nodes out of 6 members; a server and a client with 2 addresses, 2 messages of 2 bytes and 2 faults | `ConfFile`, `Lists`, `TextSearch`, `Sockets` |

**Why the bounds are enough.** In `buffers`, two buffers in one class make lists of length 0, 1 and
2, so that head, link and end of list are all different cases; the second class makes the
fall-through to a larger size happen; two processes are enough for every pair of steps to
interleave, and what a third could add is covered by the theorem for the lock. `SEMVMX` = 3 is
larger than what the code ever reaches (the type invariant and `ExclusiveAccess` together say so;
the mutants that give twice reach it). In `queue_buffers`, three buffers are one less than two nodes
and a message with its copy need at once, so every failure of `radBufferGet` happens; a pipe holds
two headers (`HeaderBlocks` = 9, `PipeCap` = 18) and the reflector reads sixteen blocks, as in the
code (144 and 256 bytes), so the second of two headers is cut, another message comes between its
parts, and a FIFO gets out of step. In `queue_table`, the table is full with three processes in
`All` and one in the group, so that an init or a join is refused in many states. In `queue_join`
three processes are the least with a sender, a member that is attached and one that joins during the
walk. In `router`, a queue of one message makes every write wait sometimes; three processes allow a
restart of one program, or of each once. Symmetry is used for processes and buffers where the calls
of all permuted processes are the same, and never together with liveness. `queue_join` and
`queue_leave` use a view that forgets *which* buffers are in the nodes of send lists: in these runs
all messages are without data, so every buffer is a node or free and no action tells buffers apart.
`MCJoinedFirst` bounds the search of `queue_leave` to behaviours in which all have joined before one
quits; it can only hide violations, not make one.

In `process`, two timers are the least with which one can be started or stopped while another is
due; of the times 1 and 2 only the first is an int (`IntMax` = 1), so that short and long times meet
on one list, and a list of long ones waits for the next call; a pipe of one message makes every
second write wait, and the slots are few enough that the last one is used, closed and used again.
Three handlers are the least in which one removes itself while another is before and one behind it.
In `programs`, two children of two priorities cover equal and different ones, and starts against
ends, deaths, interrupted waits and failures, of which one is enough to show what each does; three
buffers are one less than a send, a receive and a list need at once. The routers: two with a crash
and a restart and two changes of subscriptions, or one and a message, or one and a fault; two that
stay alive with one or two faults of sends or connections, up to three changes and a message; and
three in a row without failures, where what a router is told must travel on. `MaxLinks` = 2 is a
link and the one after it. In the database two connections let one be refused by the other, two
result sets exist side by side, two tries are a first and a last. In `library`, the file has up to
two lines beside the header; three nodes have a first, a middle and a last; four tree nodes are the
least in which an insert has a red uncle below the root, and six members let every shape of up to
four occur, with the sixth a second ordinal for the same text; two bytes are the least a message can
be cut in.

`CHECK_DEADLOCK FALSE` is used where the modelled programs really may stop: in `queue_join`, when
all have joined or wait for a FIFO without a reader, in the router's runs, where router and
program may wait for each other and the number of processes is bounded, and in `process`,
`programs` and `library`, where programs end, wait for themselves, or have used up the bounds on
messages, failures, links and statements.

**Fairness.** In `Buffers`: a living process runs (weak fairness on its steps inside a call), and
the kernel serves the waiters of a System V semaphore in order of arrival (strong fairness on the
lock). No fairness on calls: programs need not call anything; none on deaths. In `MsgRouter`: weak
fairness on the router and on a program's step inside a call or at reading its queue, which is what
the scheduler and `radProcessWait` give; none on calls, deaths and restarts, and none that would let
the router pass a full queue; none on failures (`RouterFails`, `sendFails`). `InitReturns` names
three exceptions, which are hazards on the list: the router waits, for ever or again and again, for
a program that will not help it (`Stuck`), the program has been cut off (`CutOff`), or the router
failed to answer and nobody asks again (`unanswered`).

In `process`: strong fairness on the steps of the loop, because signals interrupt them again and
again but not for ever; weak fairness on the steps of timer calls and of the handler; strong
fairness on `Tick` outside of the two readings of the clock, which says that time passes while a
program works; none on what programs and others do. In `programs`: weak fairness on the steps of
calls in progress in each part, none on calls, failures and deaths; a thread asks for its exit flag
again and again (strong fairness on `radthreadShouldExit`), which `radthreadWaitExit` expects of it;
no wait ends without a signal unless it does so by chance (`WakeUnsignalled` is not fair); another
program that has locked the SQLite file unlocks it (weak fairness on `Unlock`). In `library` there
is none.

Each property of a passing run has a mutant in `PROJECT.json`: a variant of an action with a
plausible bug (an operator whose comment starts with "Mutant") for which TLC finds the property
violated under the same configuration.

## 4. What the runs found

1. **`radSemTake` ignores `EINTR`** (`radsemaphores.c:135`, run `buffers_signal`). A process whose
   wait is interrupted by a signal works on the free lists without the lock. All processes with
   timers get `SIGALRM` all the time, and its handler is installed without protecting `semop` (which
   is never restarted). From there all of `SingleOwner` and `FreeListsIntact` is lost.
2. **A quit during a group send hides a member** (`radqueue.c:155`, run `queue_leave`).
3. **A late death report detaches a restarted program** (`msgRouter.c:686`, run `router_restart`).
4. **An unknown message ID gets no answer** (`msgRouter.c:759`, run `router_answer`).

Differences met while modelling that have no run of their own:

- `radSemTest` gives the semaphore (+1) where its comment says it takes it
  (`radsemaphores.c:160-181`); nothing in the repository calls it.
- `radQueueSendGroup` releases the caller's buffer when it answers ERROR
  (`radqueue.c:953-961`, `978-983`); the API reference says the caller must release it. The model
  follows the code.
- An update clears its mark before it attaches (`radqueue.c:951`); when the attach fails
  the mark is gone, and later group sends leave that queue out. `radQueueDettach` of a queue that was
  attached through QUEUE_GROUP_ALL takes the only node of a queue that is also in a joined group.
- `qdbDeleteQueue(QUEUE_GROUP_ALL)` leaves the second of two consecutive records of a queue, so a
  queue that exits may stay in a group. The model does the same, hence `RecordsKept` speaks of
  living members only.
- The reflector reads 256 bytes and a header has 144 (`radqueue.c:406`, `430`): of two messages that a
  process sent to itself and that wait together, the second is cut, and when another process
  writes to the FIFO between the two parts, all later headers are read across their boundaries.
- A signal ends a `write` that waits for room in a FIFO, and nothing restarts it
  (`radtimers.c:212-220` installs the handler without `SA_RESTART`): `radQueueSend` answers ERROR
  (`radqueue.c:917-921`), `radQueueSendGroup` leaves the member out and answers OK (`988-1003`).
- A queue name of more than 20 characters would shift the blocks of a header that is read out of
  step in another way than modelled: what is then taken for an offset or a length is not modelled.
- `radProcessSignalCatchAll` replaces the `SIGPIPE` handler of `radQueueInit`, after which
  `radQueueSend` answers ERROR rather than ERROR_ABORT for a FIFO without reader, and the copy of a
  group send is released rather than lost. `GroupWrite` allows both.
- `radList` (`h/radlist.h:100`, `106`): an insert before or after NULL is documented as an insert
  at an end; in the code it crashes. The model passes nodes only.
- `radProcessIODeRegisterDescriptorByFd` never looks at the last slot (`radprocess.c:627`):
  `LastSlotClosed`. An exit flag that a signal handler sets between the look at it and select takes
  effect at the next wake-up only.
- `SIGALRM` writes to the notify pipe of the process it interrupts (`radtimers.c:122`); when the
  pipe is full that process waits for itself: `SelfBlocked`.
- An interval that is no positive `int` of milliseconds switches the alarm off (`radtimers.c:138`,
  `162`; `radsysutils.c:68-77`): timers that are all longer than that ring only when another call
  services the list: `TooLong`.
- `radthreadWaitExit` sets its flag and broadcasts under another mutex than the one the thread waits
  with (`radthread.c:128`): a thread past the look at its list sleeps for ever, one that waits
  takes a node from an empty list. The wait has no loop around it (`radthread.c:197`, `272`), so a
  wake-up without a signal, which POSIX allows, does the same. `radthreadWaitExit` frees the lists with
  the system buffers still on them (`134`).
- Each start sets the system semaphore to 1 before it takes it (`radsystem.c:95`), so a child that
  starts while another process is in `radSystemInit` or `radSystemExit` enters with it; `semTake` also
  goes on without the semaphore after a signal or its removal (`107`). Both are then in what
  `h/radsystem.h:139-153` calls the first process's part, the plain `++` and `--` of the counts (`197`,
  `327`, `349`, `373`) may be lost, and the last process is one too early or never comes. The model
  does this, and `UsersShare` is claimed until it happens (`disturbed`). A failing `shmget` or `shmat`
  keeps the semaphore (`192`).
- `radPlistStart` takes an interrupted wait for the child's signal (`radproclist.c:264`,
  `radsemaphores.c:135`), and starts the next child before its turn: `hasty`.
- The router may fail to answer a REGISTER: no buffer for the ACK (`msgRouter.c:275`), a write
  interrupted by its own timer, an attach that fails (`648`). Init then waits without limit, as the
  time is looked at only after a message; or it takes the ACK of the process before it for its own.
- `RegisterAllRemotesMsgID` ignores that an `ENABLE` could not be sent (`msgRouter.c:426`,
  `160-184`): the link stays without that consumer until somebody enables the ID again: `missed`.
- When the message IDs cannot be sent behind an ACK, the initiator removes its PIB and closes neither
  socket (`msgRouter.c:1098-1103`), and no timer connects again.
- Links of routers: a failed payload, magic number, REGISTER or ACK ends the connection without
  restarting the connect timer (`msgRouter.c:1169-1199`, `1257-1277`); the socket ID travels as a
  32-bit pointer (`1087`, `1243`); subscriptions are withdrawn on DISABLE only; a `SendToRemote`
  that writes a part of a message leaves the stream out of step (`178`, not modelled); routers
  connected in a circle pass a message round for ever (not in the instances); an ACK for a router
  that was restarted names an address of the dead one (`1087`), for which the model finds no PIB
  (`AckIsStale`; it may also end the router, which `RouterCrash` allows at any time); a router that
  was restarted may get back a message of its former process, and pass it on a second time: when the
  middle one of three dies and is back before its neighbour has read the old link, the neighbour
  answers what the old process forwarded by sending it to the new one, which forwards it to the
  third again.
- Configuration files: an open during a flush reads half a file; the lock link is in the working
  directory of each program, and stays after a death; write errors are not reported; an entry
  without a value but with a comment has its comment for value when it is read back.
- The tree: remove answers OK for a text that is not there; a malloc that fails in the middle of an
  insert leaves `root` behind the rotations already made (`lost`); a text that is inserted again
  keeps its old ordinal.
- Databases: when the last of `SQLITE_MAX_QUERY_TRIES` finds the file locked and the query has no
  result set, `radsqliteReleaseResults(NULL)` crashes, where ERROR is promised
  (`radsqlite.c:339`); `FIELD_TYPE_CLEAR` clears the traits of a field with its type, though
  `raddatabase.h` says "used to clear field type only"; `radsqlitedirectQuery` overwrites a
  statement that is not finalized (`radsqlite.c:1484`), which keeps its lock on the file; a query
  without a populated field uses a clause that is not initialized; a modification to NULL assigns
  the old value after it; PostgreSQL takes the strings of clauses for identifiers; closing a
  connection frees a set its user may still hold; a prepare that fails leaks its set; rows of
  SQLite cannot lose fields; MySQL never reports NOT NULL. The model does all of this.
- `radStatesProcess` does not look at the range of the state a handler returns.

## 5. What is proved

For every value of the constants that the named assumptions of each module allow: any number of
processes, buffers, programs, message IDs, timers, descriptors, handlers, routers, links, handles,
connections, messages, retries, texts and nodes of the tree.

| Theorem | Module | Statement |
|---|---|---|
| `TypeCorrect` | `BuffersProofs` | `Spec => [](TypeOK /\ LocalsOK)` |
| `MutualExclusion` | `BuffersProofs` | `Undisturbed` implies `Spec => []ExclusiveAccess` |
| `Ownership`, `FreeLists` | `BuffersProofs` | `Undisturbed` implies `Spec => []SingleOwner`, `Spec => []FreeListsIntact` |
| `NullIsTrue`, `NothingLost` | `BuffersProofs` | `Undisturbed` implies `Spec => NullMeansExhausted`, `Spec => OnlyDeathLosesBuffers` |
| `Refinement` | `BuffersProofs` | `Undisturbed` implies `Spec => PoolSpec` |
| `QueueTypes`, `QueueRecords`, `QueueOwner` | `MsgQueueProofs` | `Spec => []TypeOK`, `Spec => []RecordsKept`, `Spec => []SingleOwner` |
| `QueueLosses` | `MsgQueueProofs` | `Spec => OnlyTheseLoseBuffers` |
| `QueueGroupReached` | `MsgQueueProofs` | `JoinAndStay` implies `Spec /\ [][FindsBuffers]_vars => GroupReached` |
| `TypeCorrect`, `NothingDangles` | `MsgRouterProofs` | `Spec => []TypeOK`, `Spec => []NoDanglingConsumer` |
| `ViewsNeverPart` | `MsgRouterProofs` | `Spec => []ViewsAgree` |
| `TimerLists` | `ProcessProofs` | `Spec => []ListsAgree` |
| `TimersAreAlarms` | `ProcessProofs` | `Spec => AlarmsSpec` |
| `SelectSeesEverything`, `CallbacksHaveReason` | `ProcessProofs` | `Spec => []SelectSeesAll`, `Spec => []CallbackHasReason` |
| `BuffersKept`, `HandlersAreServed` | `ProcessProofs` | `Spec => []BuffersAccounted`, `Spec => []HandlersServed` |
| `ExitsHaveReason` | `ProcessProofs` | `Spec => []ExitHasReason` |
| `ProcInvariant`, `ListUsersShare`, `ChildrenInOrder` | `ProgramsProofs` | `ProcListSpec => []ProcInv`, `... []UsersShare`, `... []StartedInOrder`, with the exceptions in the properties |
| `LinksServe` | `ProgramsProofs` | `RemoteSpec => []LinkServes` |
| `DeliveredAtMostOnce` | `ProgramsProofs` | `NoCircle` implies `Calm /\ RemoteSpec => []DeliveredOnce` |
| `NoLostWakeup`, `BuffersKept` | `ProgramsProofs` | `ThreadSpec => []ThreadWakes`, `ThreadSpec => []ThreadBuffers` |
| `FileWhole`, `ReadsWhatWasSaved` | `LibraryProofs` | `ConfSpec => []ConfWhole`, `ConfSpec => []ConfReadsBack` |
| `SocketsInvariant`, `DescriptorsKept`, `StreamIsKept` | `LibraryProofs` | `SocketSpec => []SocketInv`, `... []DescriptorsAccounted`, `... []StreamKept` |
| `ListsAreInOrder` | `LibraryProofs` | `ListsSpec => []ListsInOrder` |
| `SetsAreKept` | `LibraryProofs` | `DbSpec => []ResultsKept` |
| `TreeIsKept` | `TextSearchProofs` | `TreeSpec => []TreeHolds` |

`SelectionProofs` has no theorem of its own: it holds the lemmas about what stays of a list when
some elements leave it (`AtPositions`), which the queue table, the send lists, the timers and the
handlers share. They are proved without induction: counting the
positions up to each one maps a set of n positions into 1 .. n, no two to the same number, hence onto it.

The assumptions are those of the modules (`SizeAssumption` and the like): they say of what kind the
constants are, such as that no handle is called "nobody", and TLC evaluates them in every run. None
of the theorems uses fairness.

### Buffers

`Undisturbed` says that no signal interrupts a wait (`~Signals`) and that no process dies inside
the lock (`CrashAt` and `Critical` are disjoint). That the first half is needed is what the run
`buffers_signal` shows; after a death inside the lock nobody works on the lists any more, but the
list the dead process was changing may have lost a buffer.

**The inductive invariant.** `Inv` is the conjunction of

- `TypeInv`: `TypeOK` and `LocalsOK`, which says that the pointer of a call is a buffer, and the
  class of a count a size, where the code uses them. `TypeOK` alone is not inductive: `next[reg[p]]`
  has a type only when `reg[p]` is a buffer. It holds without `Undisturbed`.
- `LockInv`: `ExclusiveAccess`, and the semaphore is at most 1, and 0 as long as a process is in the
  critical section. `ExclusiveAccess` alone would allow a positive semaphore while one is inside.
- `SingleOwner` and `FreeListsIntact`, the goals.
- `HeldInv` ties the mark of a header to where its buffer is: a buffer a process holds, or that is
  in a message, is marked, and the one being released is no longer among the buffers held. A release
  that found its buffer unmarked would return and lose it; the mark is written outside the lock, so
  nothing but this invariant says that it agrees with the lists.
- `StepInv` ties the local pointer to the list at the points between two writes: at `get_pop` it is
  the head of its list, and the first usable one (`FirstFit`, which the refinement needs), at
  `rls_head` its link already is the head. The steps of others cannot disturb either, by `LockInv`.

**The argument.** `BuffersProofs` proves the facts about linked lists on their own, with lists as
functions from positions to buffers: taking the head off, linking a buffer in front and making it
the head each leave a list with exactly the expected elements (`PopList`, `LinkList`, `PushList`),
and a list without a loop is no longer than its class (`ChainLength`). The second part lifts them to
the system: `PopEffect`, `LinkEffect` and `HeadEffect` say what the three writes to a list do to the
set of free buffers, `OthersFrame` and `QuietOwned` that the other steps leave lists and owners
alone, and `StepEffect` sums up what a step can do to the places of the buffers: nothing, or one of
five moves. `SingleOwner` and `NothingLost` follow from `StepEffect` without looking at single
actions again. The refinement adds the requests: every action of `Buffers` has one lemma
(`PopRefinesGet`, `HeadRefinesRelease`, `MessageRefines`, `CrashRefinesDie`, `QuietRefines`) that
names the step of the pool it is.

### Message queues

`TypeInv` says with the types what a call that is under way works on (`CallInv`). For the records,
`Registered` says that the table has one record at most for a queue and a group, one for each group
the queue was told it is in, and that a join in progress has put its record there. The hard step is
`qdbDeleteQueue(QUEUE_GROUP_ALL)`, which steps over records that move up: `Deleted` says which
positions go, and the lemmas on `AtPositions` what is left, so that what stays behind may be a
record of a queue that has gone but never a second one. `QueueOwner` and `QueueLosses` rest on one
count: `Places(b)` has at most one element, and each action moves a buffer from one place to another
(or drops it, in the ways that `OnlyTheseLoseBuffers` lists). A place in a pipe is a block, so that
cutting a header, which moves blocks from one pipe to the end of another, is the same case as writing
one (`Header`), and a receive takes nine blocks off and keeps the buffer of the ninth.

`GroupReached` is a property of the end of a walk, and what makes it true lies in what others did
long before. `QueueGroupReached` needs programs that join groups and stay until they die
(`JoinAndStay`; what a quit does is finding 2), and calls that find their buffers (`FindsBuffers`;
what happens otherwise is in section 4). Its invariant, `ReachInv`, says of each process
`KnowsAll`: a member of a group has every other queue of the group in its send list, or its record
is marked, or it is on its way to that queue in the walk of a join or an update. `Reaches` says of
a group send that each queue it still has to reach has a record ahead of the walk, and a node or an
update on its way to give it one; the members that an interrupted write has left out are in `missed` from
then on. The table only grows, at its end (`Grows`), and whoever is a member
of a group that grows has its mark (`NewsFor`), so a step of one process takes nothing from the others.

### The router

`Inv` of `MsgRouterProofs`, for `NothingDangles`, is `TypeInv`, `ListsOK`, `RouteOK` and `BlocksOK`.
The type invariant is more than `TypeOK`: it says that a request in a queue is one a program can
make, of a process that exists, since the handler believes what it reads. `ListsOK` says that each
list of consumers is without repetition, that each consumer has a block (PIB), and that a message ID
has a block (MIIB) exactly when it has consumers; `RouteOK` says the same of the turns of the
routing loop still to come, and `BlocksOK` that a process has one block. The code removes a consumer
by unlinking the *first* CIB it finds and stopping there; that this removes the process from the
list is the lemma `WithoutOne`, which needs the list to be without repetition, and hence the check
for duplicates when one is added. A deregistration frees the block after the walk over all message
IDs: the lemma on `RemoveClientFromAllMsgs` is where `ListsOK` and `BlocksOK` meet.

`ViewsAgree` needs more than the lists: what a program asked for is known to the router only after
the requests in between. `ViewInv` says that a process belongs to one program and that no request or
block is of a process not yet started (`PidsOK`), that a program writes its own requests or reports
the end of a dead one (`WritingOK`), that it wishes for nothing before it is told that it is
registered (`OutsideOK`), and that each running program agrees with some state of the router that it
may believe in (`WishesOK`): a block or none, and a set of IDs, from which the requests still queued
lead to its wishes (`Believes`). That state is the router's own, unless the router has turned the
program away (`Away`). "After the requests" is not a fold but `Subscribed`: some request, or the
list now, makes it a consumer, and no later one cancels that; so taking the first request and adding
a last one are each a lemma on positions, and the handler's whole effect is compared with that.

### Timers and the process loop

`TimersInv` adds to `ListsAgree` what the program's call has put down and that `SIGALRM` is blocked
while the program works on the list (`CallOK`), that no caller has read the clock ahead of the clock
(`ClockRead`), and `NotEarly`: what is left of a timer's time is at most what the list will still
count down for it. The refinement of `Alarms` needs exactly that: when the list says a timer has
expired, its time is over. The two readings of the clock are harmless only because time between
them is dropped and never added. Each step of the program, the handler, the clock and the loop is
shown to be one of `Alarms` or a stutter.

`TableInv` adds to `SelectSeesAll` that what is registered is open and under one number only
(`Registration`), and `Promised`: whoever the loop is still to call in this turn has something to
read, or was registered meanwhile. Both fail once the last slot was closed by its number, hence the
exception. `MailInv` counts: each buffer is in one of four places, and `HandOK` says what a callback
can have at hand. `WalkInv` is the subtle one: handlers may remove themselves and the
next one, while the walk goes on from a pointer of a removed handler. It says that there is a numbering
of all handlers that are or were on the list, in the order of the list, in which the pointer of a
removed handler leads over nobody who is still on the list; the numbering is a witness found in each
step (new handlers get a lower number). That a handler comes
to the front only, and that a removed one is never freed and so never comes again, are what it rests on.

### Process lists

`ProcInv` has two parts. What holds whatever the semaphore does: types (`SystemTypes`, `ListTypes`),
that all are of one system (`HomeInv`), and `OrderInv`: the list is in order, what is behind the
entry the parent is at has no process, what is before it has signalled, and the one count of the
ready semaphore is that of the child it waits for, unless `broken` or `hasty`; from that follows
`StartedInOrder`. And what holds until `disturbed`: `LockInv` says that whoever is inside is alone,
that the semaphore then is 0 (`Exclusive`), and that what it has read of a count is still the count
(`ReadRight`), so that reading and writing in two steps is as good as one. `FamilyInv` says that
while the parent has registered the counts of the segment are at least one more than the children
that are counted, so no child is the first or the last; it needs that the parent is through its own
start before it raises a child and does not leave before all are gone. The counts are over any
finite set of processes (`SystemAssumption`).

### Linked routers

`LinkServes` speaks of a link that carries no news; the invariant has to say what the news will do.
`Serves(r, n)`: if a router hears a link, the other end still reads, and it has a consumer besides
the link, then the last of the `ENABLE`s and `DISABLE`s on the way is an `ENABLE` (`Told`), or the
other end has it as a consumer and no `DISABLE` is on the way, or the last `ENABLE` could not be
sent (`missed`). `PibInv` says that a router hears a link only while its socket is open, and that
its consumers are links that it hears; `ShakeInv` that `REGISTER` and `ACK` are only ever first, and
that nobody hears a link before they are read. That a router restarts, or dies in the middle of a
message, changes nothing for its peers until they read the end. The theorem is for any routers and
any links, circles included.

`DeliveredOnce` needs the opposite: `NoCircle` says that each router has a depth that falls toward
its remote router. `Calm` says that nobody dies; connections, handshakes and sends may still fail.
Then nothing is cut, and a socket ends only where the acceptor has refused the link behind its `ACK`
(`Dead`) and nobody hears it; a router connects again only when the links it had are `Over`, refused
and forgotten (`CalmInv`). The steps that do not handle the message keep that: `Fades` says what
they may do to a link, `Mild` to a socket. `TokenInv` then says where the message can be: on a
socket at most once, never on one toward routers that have it. A socket divides the routers in two,
and `FarSide` is the part it leads to; nobody on the far side of a socket that carries the message
has it yet, and the far sides of two such sockets have no router in common. When a router forwards
the message, the far sides of the sockets it writes to are parts, without common router, of the one
it read from (`BelowApart`, `Onward`).

### Threads

`ThreadWakes` is inductive together with types and `WindowInv`: an actor that has found its list
empty and not yet begun to wait still has an empty list, because the sender needs the mutex, and
only blocking receives come there; a wake-up without a signal takes a node or crashes, and neither
makes another's signal empty. `BuffersKept` counts: each step moves a buffer between two of
the five places of the sum, until `Join` frees the lists.

### Configuration files

`Inv` is types, `LockInv` (who is between lock and unlock is `locker`), `WriterInv` (a writer writes
what `saved` says and stands at the end of the file, and the file agrees with its lines so far),
`WholeInv` (without writer and not torn, file and `saved` agree) and `ReaderInv` (while a reader is
undisturbed nobody holds the lock, and the lines it has are what reading back makes of the file's).
`ConfReadsBack` follows from the last two. `ConfWhole` needs `WriterInv`: that the file is whole at
the unlock is known only from what was true before each line.

### Lists

`ListsInv` says of each list that the places from one dummy node to the other are a sequence whose
neighbours point at each other (`Chain`), that no node has two places (`Distinct`) or is on two
lists (`Apart`), that a sorted list ascends (`Ascending`), and the same of the stack (`StackInv`).
Inserting and removing are shown once, for a chain (`LinkedChain`, `UnlinkedChain`). The search for
a place in a sorted list is a walk along pointers, a recursive function over the nodes; that it is
the function of the places, which needs no recursion, follows from the chain (`WalkExists`,
`SoughtIs`).

### Text search tree

What makes pointers a red-black tree is said node by node, without recursion: there are bounds `B`
between which each node's text lies and which a node hands on to the nodes under it, and heights `H`
that agree on both sides of each node (`RedBlack`: `InOrder`, `OfHeight`, `Coloured`, `Clean`).
`InOrder` also says that no text of the tree lies where a pointer is NULL (`Bare`); that is why a
search that ends there has missed nothing, and it needs no path from the root. `TreeInv` says that
between two calls the tree is red-black, its root black and its members those inserted and not
removed (`universe`), and says of a walk in progress:

- an insert (`Inserting`): the tree is red-black at each iteration, since the repair is made on the
  way down, and the new text lies between the bounds of the place the walk has come to. `InsertWalk`
  follows parent, grandparent and great-grandparent; after a double rotation these are no longer in
  line, and the walk then is at a red node under a black one, above a black node without red
  children (`AfterTwist`), so that the next repair comes only when they are in line again. That is
  what makes the pointers the code does not move after a rotation harmless.
- a remove (`Removing`): the node the walk is at or the next one is red, or it is the root without red
  children (`Reached`, kept by `Pushed`), so that the last node can be unlinked without a change of
  height; the text of the node found, if any, is the upper bound of the part where the walk goes on
  (`FoundAt`), so that its node can take the last one's text.

Each repair (`rotateSingle`, `rotateDouble`, the flip of colours) has a lemma on bounds, one on
heights and one on colours. The recursive functions of `radtextsearchFind` and `radtextsearchDebug`
are the only recursion: that there is a function that satisfies the recursion, and what every such
function gives at the nodes in use, is shown by a least counterexample along the height, counted
twice, plus one for red, which falls with each step down. The count of nodes is a bijection with the
members. After a malloc that failed at the bottom of an insert (`lost`) nothing is promised, as in
the code.

### Databases

`DbInv` is types, `SetsInv` and `CallInv`. `SetsInv` says that the set a connection answers is
allocated, belongs to *this* connection and is not released; without the owner a release of one
connection could free what another answers. `CallInv` says that a call to SQLite in progress that
wants an answer has a set, through all retries: without it the end of a call would release or
hand out nothing. There is one lemma for each thing that plug-ins do with sets (`Forgets`,
`Releases`, `Allocates`, `Renews`, `AllocatesInVain`, `AddsRow`), and the calls of the three
plug-ins are shown to be one of these.

### Sockets

`FdsInv` says that each open descriptor is of exactly one socket or one creation, `CreatingInv` for
whom and when something can be in creation (a program has no other socket of that kind then), and
`EndsInv` that who writes or reads has an end. For the stream, `WriteInv` says that what has been
written of the message in progress are the last bytes and nowhere else, `AnsweredInv` that each
message answered OK lies somewhere whole, and `HeardInv` that read and unread bytes together are
those written. The lemmas are about concatenations and where bytes come to lie in them.

### Only model-checked

- Liveness, everywhere: fairness and `ENABLED` are out of the prover's reach. So are the findings:
  a counterexample is a run, not a theorem.
- `DeliveredOnce` with deaths: false for a chain of three routers (section 4), checked for two in
  `programs`. It is false for routers linked in a circle.
- `GroupReached` where a process may run out of buffers: the instance of `queue_join` has one for each
  node, `queue_leave` shows what a quit does.

## 6. Not modelled

- State machines (`radstates.c`): a table of handlers and a number. Each call is one assignment, and
  a property would repeat it.
- SHA and CRC: published functions over byte strings, better tested with their vectors.
- Logging, debugging, time formatting and wrappers of single system calls.
- `radPlistAddPid` and `radPlistStopAll`, which sends signals; `radSemGiveMultiple` and
  `radSemTest`, which nothing calls.
- The router's restart under its own programs, and its own end; writes to another router that stop
  in the middle without a crash, which leave the stream out of step; sockets between routers that are
  full. Failures of `malloc` in the router, other than those that end like a failed attach.
- In `MsgQueue`: a reflector that outlives its process (it is taken to be gone before the name is used
  again). In `System`: starting or destroying buffers, table and semaphores is one step, also when two
  processes are inside; a process dies only between its start and its end; each child of a list
  starts once, and the parent ends last. The counts of a segment that was removed may be anything.
- In `Thread`: a crash of one side leaves the other running, where the code ends both.
- `radsqliteQuery` of a text that is too long (`radsqlite.c:278-284`), which answers ERROR before it
  touches anything else.
- Failures of `radProcessInit`; options of sockets that only set a number in the kernel; the
  texts of statements, conversions and the servers of databases; clocks that go back.
- In all modules: the contents of messages, statistics counters, log output, and the tests for
  corrupt headers. Arguments that a program must not pass (NULL for a node, a buffer it does not own).
- A death between lock and unlock of shared memory is allowed by `Buffers` (`CrashAt`) but by no
  passing run, since the lock then stays taken for all (`radshmem.c:192`: no `SEM_UNDO`), which the
  type theorem still covers.

## 7. What could be added

A composition of `MsgRouter` with `RemoteRouters`, to follow a message from a
program on one machine to one on another; a stream between routers that gets out of step; and, once
`radsystem.c:95` and `107` keep processes apart, `UsersShare` without `disturbed` for programs that
start at once.
