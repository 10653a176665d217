------------------------------ MODULE MsgQueue ------------------------------
(***************************************************************************)
(* The message queues of radlib (src/radqueue.c): the table of all queues  *)
(* and their groups in shared memory, the send list of every process, and  *)
(* the FIFOs that carry system buffers.  A pass over the table under its   *)
(* lock is one step; what a process does between two of them is not.  A    *)
(* pipe is a sequence of blocks of 16 bytes, of which a header (QMSG_HDR)  *)
(* has nine; the last one says where the buffer of the message is.  Left   *)
(* out: message types, file names, the loop that waits for a message, and  *)
(* the size classes of the buffers (module Buffers).                       *)
(***************************************************************************)
EXTENDS Integers, Sequences, FiniteSets, Selection

CONSTANTS
  Process,       \* processes, each with the queue of its name
  Group,         \* group numbers
  All,           \* QUEUE_GROUP_ALL
  Buffer,        \* system buffers
  Nil,           \* no buffer, no name
  MaxRecords,    \* MAX_QUEUE_RECORDS
  HeaderBlocks,  \* sizeof (QMSG_HDR), in blocks
  ReadBlocks,    \* what the reflector reads at once, in blocks
  PipeCap,       \* blocks a FIFO holds
  MaxHeld,       \* bound: buffers a process keeps to itself
  Calls,         \* the calls the program of each process makes, of CallNames
  Joinable,      \* the groups they join, quit and send to
  OpenFails,     \* may open() of a FIFO fail?
  ZeroLength     \* do programs send messages without data?

CallNames == {"init", "exit", "crash", "join", "rejoin", "quit", "send_group", "attach",
              "send", "buffers"}

ASSUME QueueAssumption ==
  /\ Calls \in [Process -> SUBSET CallNames]
  /\ Joinable \subseteq Group
  /\ All \in Group
  /\ Nil \notin Buffer \cup Process
  /\ MaxHeld \in Nat /\ {MaxRecords, HeaderBlocks, ReadBlocks, PipeCap} \subseteq Nat \ {0}
  /\ ZeroLength \in BOOLEAN
  /\ OpenFails \in BOOLEAN

VARIABLES
  up,        \* the process has its FIFO open for reading
  table,     \* MSGQ_TABLE.recs
  sendList,  \* T_QUEUE.sendQueues of each process; a node is a system buffer
  fifo,      \* the blocks in the FIFO of each process
  reflect,   \* what a process sent to itself, in its reflector pipe
  free,      \* the free system buffers
  held,      \* the system buffers the program of a process owns
  pc,        \* where each process is
  call,      \* the local variables of the call in progress
  groups,    \* history: the groups a process was told it is in
  must       \* history: the queues a group send in progress has to reach

vars == <<up, table, sendList, fifo, reflect, free, held, pc, call, groups, must>>

Record == [name : Process, group : Group, update : BOOLEAN]
Node == [name : Process, group : Group, buf : Buffer]
Block == [buf : Buffer \cup {Nil}]
Op == {"none", "attach", "join", "quit", "update", "send"}
Point == {"down", "idle", "next", "attach", "open", "detach", "copy", "write"}

(* Field missed is history: the queues a group send in progress could not  *)
(* write to because a signal interrupted the write.                        *)
NoCall == [op |-> "none", group |-> All, index |-> 1, cur |-> Nil, msg |-> Nil, copy |-> Nil,
           missed |-> {}]

-----------------------------------------------------------------------------
(* The queue database.  Positions count from 1 here and from 0 in C.       *)

IsListed(n, g) == \E k \in DOMAIN table : table[k].name = n /\ table[k].group = g

(* Mutant: a new record marks nobody but itself as changed. *)
AddQuietly(n, g) ==
  table' = IF IsListed(n, g) THEN table ELSE Append(table, [name |-> n, group |-> g, update |-> TRUE])

(* A new record goes to the end and marks the whole group as changed. *)
qdbAddQueue(n, g) ==
  table' = IF IsListed(n, g) THEN table
           ELSE Append([k \in DOMAIN table |->
                          [table[k] EXCEPT !.update = @ \/ table[k].group = g]],
                       [name |-> n, group |-> g, update |-> TRUE])

AddFits(n, g) == IsListed(n, g) \/ Len(table) < MaxRecords

(* Mutant: every record of the queue goes, whatever the group. *)
DeletedEverywhere(n, g) == {k \in DOMAIN table : table[k].name = n}

(* The records of queue n in group g; every record of it is in             *)
(* QUEUE_GROUP_ALL here.                                                   *)
RecordsOf(n, g) == {k \in DOMAIN table : table[k].name = n /\ (g = All \/ table[k].group = g)}

(* The positions qdbDeleteQueue removes: the first record of the group,    *)
(* or, for QUEUE_GROUP_ALL, all but those that move into the place of a    *)
(* record just removed, which the loop steps over: of a run of records     *)
(* every second one stays.                                                 *)
Deleted(n, g) ==
  LET all == RecordsOf(n, g)
      InOddPlace(k) == \E j \in 1 .. k : j .. k \subseteq all /\ j - 1 \notin all /\ (k - j) % 2 = 0
  IN  {k \in all : IF g = All THEN InOddPlace(k) ELSE \A j \in all : k <= j}

(* The positions it marks as changed before it is done. *)
Changed(n, g) ==
  {k \in DOMAIN table : /\ table[k].group = g
                        /\ IF g = All THEN k - 1 \notin Deleted(n, g)
                           ELSE \A d \in Deleted(n, g) : k <= d}

qdbDeleteQueue(n, g) ==
  table' = AtPositions([k \in DOMAIN table |->
                          [table[k] EXCEPT !.update = @ \/ k \in Changed(n, g)]],
                       DOMAIN table \ Deleted(n, g))

(* The positions after i that hold a queue of group g; every queue is in   *)
(* QUEUE_GROUP_ALL.                                                        *)
Later(i, g) == {k \in i + 1 .. Len(table) : table[k].group = g \/ g = All}

UpdateFlag(n, g) ==
  \E k \in DOMAIN table : table[k].name = n /\ table[k].group = g /\ table[k].update

qdbIsUpdateFlagSet(n, g) ==
  table' = [k \in DOMAIN table |->
              [table[k] EXCEPT !.update = @ /\ ~ (table[k].name = n /\ table[k].group = g)]]

-----------------------------------------------------------------------------
(* Buffers, pipes and calls.                                               *)

(* radBufferGet: some free buffer. *)
TakeBuffer(b) ==
  /\ b \in free
  /\ free' = free \ {b}

BufferOf(b) == {b} \ {Nil}

NamesIn(list) == {list[k].name : k \in DOMAIN list}

Attached(p, n) == n \in NamesIn(sendList[p])

(* The blocks of a message with buffer b.                                  *)
Header(b) == [k \in 1 .. HeaderBlocks |-> [buf |-> IF k = HeaderBlocks THEN b ELSE Nil]]

(* The kernel keeps what is in a FIFO as long as somebody has it open. *)
IsOpen(q, readers, lists) == readers[q] \/ \E p \in Process : q \in NamesIn(lists[p])

Keep(f, readers, lists) ==
  [q \in Process |-> IF IsOpen(q, readers, lists) THEN f[q] ELSE <<>>]

Return(p) ==
  /\ pc' = [pc EXCEPT ![p] = "idle"]
  /\ call' = [call EXCEPT ![p] = NoCall]

GoTo(p, point) == pc' = [pc EXCEPT ![p] = point]

Begin(p, op, g, m) == call' = [call EXCEPT ![p] = [NoCall EXCEPT !.op = op, !.group = g, !.msg = m]]

(* The queues that joined group g and were told so. *)
Members(g) == {n \in Process : g \in groups[n]}

(* Queue n is no longer in group g: a group send need not reach it. *)
Excuse(n, g) ==
  must' = [p \in Process |-> IF g \in {All, call[p].group} THEN must[p] \ {n} ELSE must[p]]

Init ==
  /\ up = [p \in Process |-> FALSE]
  /\ table = <<>>
  /\ sendList = [p \in Process |-> <<>>]
  /\ fifo = [p \in Process |-> <<>>]
  /\ reflect = [p \in Process |-> <<>>]
  /\ free = Buffer
  /\ held = [p \in Process |-> {}]
  /\ pc = [p \in Process |-> "down"]
  /\ call = [p \in Process |-> NoCall]
  /\ groups = [p \in Process |-> {}]
  /\ must = [p \in Process |-> {}]

-----------------------------------------------------------------------------
(* The life of a queue *)

radQueueInit(p) ==
  /\ pc[p] = "down"
  /\ AddFits(p, All)
  /\ qdbAddQueue(p, All)
  /\ up' = [up EXCEPT ![p] = TRUE]
  /\ GoTo(p, "idle")
  /\ groups' = [groups EXCEPT ![p] = {All}]
  /\ UNCHANGED <<sendList, fifo, reflect, free, held, call, must>>

(* The end of process p, however it comes: the kernel closes its pipes.  f *)
(* is what was left in the FIFOs.                                          *)
Gone(p, f) ==
  /\ up' = [up EXCEPT ![p] = FALSE]
  /\ sendList' = [sendList EXCEPT ![p] = <<>>]
  /\ fifo' = Keep(f, up', sendList')
  /\ reflect' = [reflect EXCEPT ![p] = <<>>]
  /\ held' = [held EXCEPT ![p] = {}]
  /\ pc' = [pc EXCEPT ![p] = "down"]
  /\ call' = [call EXCEPT ![p] = NoCall]
  /\ groups' = [groups EXCEPT ![p] = {}]
  /\ must' = [q \in Process |-> IF q = p THEN {} ELSE must[q] \ {p}]

(* Followed by the exit of the process. *)
radQueueExit(p) ==
  /\ pc[p] = "idle"
  /\ free' = free \cup {sendList[p][k].buf : k \in DOMAIN sendList[p]}
  /\ qdbDeleteQueue(p, All)
  /\ Gone(p, fifo)

(* A process dies: its records stay, its buffers are lost, and so is the   *)
(* part of a header it has read while it waits for the rest.               *)
Crash(p) ==
  /\ pc[p] # "down"
  /\ \/ Gone(p, fifo)
     \/ /\ pc[p] = "idle" /\ Len(fifo[p]) < HeaderBlocks
        /\ Gone(p, [fifo EXCEPT ![p] = <<>>])
  /\ UNCHANGED <<table, free>>

-----------------------------------------------------------------------------
(* Walks over the table: each visits the queues of a group one by one.     *)

radQueueJoinGroup(p, g) ==
  /\ pc[p] = "idle"
  /\ AddFits(p, g)
  /\ qdbAddQueue(p, g)
  /\ Begin(p, "join", g, Nil)
  /\ GoTo(p, "next")
  /\ UNCHANGED <<up, sendList, fifo, reflect, free, held, groups, must>>

radQueueQuitGroup(p, g) ==
  /\ pc[p] = "idle"
  /\ Begin(p, "quit", g, Nil)
  /\ GoTo(p, "next")
  /\ UNCHANGED <<up, table, sendList, fifo, reflect, free, held, groups, must>>

(* b is the caller's buffer, Nil for a message without data. *)
radQueueSendGroup(p, g, b) ==
  /\ pc[p] = "idle"
  /\ Begin(p, IF UpdateFlag(p, g) THEN "update" ELSE "send", g, b)
  /\ qdbIsUpdateFlagSet(p, g)
  /\ GoTo(p, "next")
  /\ held' = [held EXCEPT ![p] = @ \ {b}]
  /\ must' = [must EXCEPT ![p] = IF g # All /\ g \in groups[p] THEN Members(g) \ {p} ELSE {}]
  /\ UNCHANGED <<up, sendList, fifo, reflect, free, groups>>

radQueueAttach(p, n, g) ==
  /\ pc[p] = "idle"
  /\ call' = [call EXCEPT ![p] = [NoCall EXCEPT !.op = "attach", !.group = g, !.cur = n]]
  /\ GoTo(p, "attach")
  /\ UNCHANGED <<up, table, sendList, fifo, reflect, free, held, groups, must>>

(* qdbGetNextGroupName, and what the loop does first with the answer. *)
NextName(p) ==
  /\ pc[p] = "next"
  /\ \E k \in Later(call[p].index, call[p].group) :
       /\ \A j \in Later(call[p].index, call[p].group) : k <= j
       /\ call' = [call EXCEPT ![p].index = k, ![p].cur = table[k].name]
       /\ GoTo(p, CASE table[k].name = p -> "next"
                    [] table[k].name # p /\ call[p].op \in {"join", "update"} -> "attach"
                    [] table[k].name # p /\ call[p].op = "quit" -> "detach"
                    [] table[k].name # p /\ call[p].op = "send" -> "copy")
  /\ UNCHANGED <<up, table, sendList, fifo, reflect, free, held, groups, must>>

AtEnd(p, op) ==
  /\ pc[p] = "next"
  /\ call[p].op = op
  /\ Later(call[p].index, call[p].group) = {}

JoinEnd(p) ==
  /\ AtEnd(p, "join")
  /\ Return(p)
  /\ groups' = [groups EXCEPT ![p] = @ \cup {call[p].group}]
  /\ UNCHANGED <<up, table, sendList, fifo, reflect, free, held, must>>

QuitEnd(p) ==
  /\ AtEnd(p, "quit")
  /\ qdbDeleteQueue(p, call[p].group)
  /\ Excuse(p, call[p].group)
  /\ Return(p)
  /\ groups' = [groups EXCEPT ![p] = IF call[p].group = All THEN {} ELSE @ \ {call[p].group}]
  /\ UNCHANGED <<up, sendList, fifo, reflect, free, held>>

UpdateEnd(p) ==
  /\ AtEnd(p, "update")
  /\ call' = [call EXCEPT ![p].op = "send", ![p].index = 1, ![p].cur = Nil]
  /\ UNCHANGED <<up, table, sendList, fifo, reflect, free, held, pc, groups, must>>

SendEnd(p) ==
  /\ AtEnd(p, "send")
  /\ free' = free \cup BufferOf(call[p].msg)
  /\ Return(p)
  /\ must' = [must EXCEPT ![p] = {}]
  /\ UNCHANGED <<up, table, sendList, fifo, reflect, held, groups>>

-----------------------------------------------------------------------------
(* radQueueAttach of queue cur, by itself or in a walk.                    *)

IsAttach(p) == call[p].op = "attach"

AfterAttach(p) == IF IsAttach(p) THEN Return(p) ELSE GoTo(p, "next") /\ UNCHANGED call

(* Mutant: the buffer of the node is forgotten. *)
AttachFailsLeaking(p, b) ==
  /\ Return(p)
  /\ free' = free \cup BufferOf(call[p].msg)
  /\ must' = [must EXCEPT ![p] = {}]
  /\ UNCHANGED <<up, table, sendList, fifo, reflect, held, groups>>

(* The call fails: JoinGroup takes its record back, SendGroup releases the *)
(* caller's buffer, b is the buffer of the node that was not added.        *)
AttachFails(p, b) ==
  /\ Return(p)
  /\ free' = free \cup BufferOf(b) \cup BufferOf(call[p].msg)
  /\ IF call[p].op = "join"
     THEN /\ qdbDeleteQueue(p, call[p].group)
          /\ Excuse(p, call[p].group)
          /\ groups' = [groups EXCEPT ![p] = IF call[p].group = All THEN {}
                                             ELSE @ \ {call[p].group}]
     ELSE must' = [must EXCEPT ![p] = {}] /\ UNCHANGED <<table, groups>>
  /\ UNCHANGED <<up, sendList, fifo, reflect, held>>

(* Updating asks for the name alone, attaching for name and group. *)
Known(p) ==
  \E k \in DOMAIN sendList[p] :
    /\ sendList[p][k].name = call[p].cur
    /\ call[p].op = "update" \/ sendList[p][k].group = call[p].group

AttachKnown(p) ==
  /\ pc[p] = "attach"
  /\ Known(p)
  /\ AfterAttach(p)
  /\ UNCHANGED <<up, table, sendList, fifo, reflect, free, held, groups, must>>

AttachNode(p) ==
  /\ pc[p] = "attach"
  /\ ~ Known(p)
  /\ \E b \in Buffer : TakeBuffer(b) /\ call' = [call EXCEPT ![p].copy = b]
  /\ GoTo(p, "open")
  /\ UNCHANGED <<up, table, sendList, fifo, reflect, held, groups, must>>

AttachNoBuffer(p) ==
  /\ pc[p] = "attach"
  /\ ~ Known(p)
  /\ free = {}
  /\ AttachFails(p, Nil)

(* open(O_WRONLY) of a FIFO waits for a reader. *)
AttachOpen(p) ==
  /\ pc[p] = "open"
  /\ up[call[p].cur]
  /\ sendList' = [sendList EXCEPT ![p] =
       Append(@, [name |-> call[p].cur, group |-> call[p].group, buf |-> call[p].copy])]
  /\ IF IsAttach(p) THEN Return(p)
     ELSE GoTo(p, "next") /\ call' = [call EXCEPT ![p].copy = Nil]
  /\ UNCHANGED <<up, table, fifo, reflect, free, held, groups, must>>

AttachOpenFails(p) ==
  /\ pc[p] = "open"
  /\ OpenFails
  /\ AttachFails(p, call[p].copy)

(* The send list without the first node of name n and group g. *)
NodesOf(p, n, g) == {k \in DOMAIN sendList[p] : sendList[p][k].name = n /\ sendList[p][k].group = g}

RemoveNode(p, n, g) ==
  \/ NodesOf(p, n, g) = {} /\ UNCHANGED <<sendList, free, fifo>>
  \/ \E k \in NodesOf(p, n, g) :
       /\ \A j \in NodesOf(p, n, g) : k <= j
       /\ sendList' = [sendList EXCEPT ![p] = AtPositions(@, DOMAIN @ \ {k})]
       /\ free' = free \cup {sendList[p][k].buf}
       /\ fifo' = Keep(fifo, up, sendList')

radQueueDettach(p, n, g) ==
  /\ pc[p] = "idle"
  /\ RemoveNode(p, n, g)
  /\ UNCHANGED <<up, table, reflect, held, pc, call, groups, must>>

QuitDetach(p) ==
  /\ pc[p] = "detach"
  /\ RemoveNode(p, call[p].cur, call[p].group)
  /\ GoTo(p, "next")
  /\ UNCHANGED <<up, table, reflect, held, call, groups, must>>

-----------------------------------------------------------------------------
(* Messages.  A write of a header is atomic, and waits while the pipe is   *)
(* full.                                                                   *)

HasRoom(pipe) == Len(pipe) + HeaderBlocks <= PipeCap

Deliver(p, q, b) ==
  \/ /\ p = q
     /\ HasRoom(reflect[p])
     /\ reflect' = [reflect EXCEPT ![p] = @ \o Header(b)]
     /\ UNCHANGED fifo
  \/ /\ p # q
     /\ Attached(p, q)
     /\ up[q]
     /\ HasRoom(fifo[q])
     /\ fifo' = [fifo EXCEPT ![q] = @ \o Header(b)]
     /\ UNCHANGED reflect

(* Without a node for q (ERROR), without a reader of its FIFO              *)
(* (ERROR_ABORT), or when a signal ends the wait of the write (ERROR) the  *)
(* call changes nothing.                                                   *)
radQueueSend(p, q, b) ==
  /\ pc[p] = "idle"
  /\ Deliver(p, q, b)
  /\ held' = [held EXCEPT ![p] = @ \ {b}]
  /\ UNCHANGED <<up, table, sendList, free, pc, call, groups, must>>

(* The reflector process of p hands p what p sent to itself: the whole     *)
(* messages that were there when it read, but no more than its buffer      *)
(* takes, so that it may cut the last one.                                 *)
dummyChild(p) ==
  /\ \E n \in 1 .. Len(reflect[p]) :
       /\ n = ReadBlocks \/ (n < ReadBlocks /\ (Len(reflect[p]) - n) % HeaderBlocks = 0)
       /\ Len(fifo[p]) + n <= PipeCap
       /\ fifo' = [fifo EXCEPT ![p] = @ \o SubSeq(reflect[p], 1, n)]
       /\ reflect' = [reflect EXCEPT ![p] = SubSeq(@, n + 1, Len(@))]
  /\ UNCHANGED <<up, table, sendList, free, held, pc, call, groups, must>>

(* It reads the blocks of a header, whichever they are, and waits for      *)
(* them.  A header put together of pieces of others has a last block that  *)
(* names no buffer.                                                        *)
radQueueRecv(p) ==
  /\ pc[p] = "idle"
  /\ Len(fifo[p]) >= HeaderBlocks
  /\ held' = [held EXCEPT ![p] = @ \cup BufferOf(fifo[p][HeaderBlocks].buf)]
  /\ fifo' = [fifo EXCEPT ![p] = SubSeq(@, HeaderBlocks + 1, Len(@))]
  /\ UNCHANGED <<up, table, sendList, reflect, free, pc, call, groups, must>>

(* radQueueSendGroup copies the message for the next queue of the group. *)
GroupCopy(p) ==
  /\ pc[p] = "copy"
  /\ GoTo(p, "write")
  /\ \/ call[p].msg = Nil /\ UNCHANGED <<free, call>>
     \/ /\ call[p].msg # Nil
        /\ \E b \in Buffer : TakeBuffer(b) /\ call' = [call EXCEPT ![p].copy = b]
  /\ UNCHANGED <<up, table, sendList, fifo, reflect, held, groups, must>>

GroupNoBuffer(p) ==
  /\ pc[p] = "copy"
  /\ free = {} /\ call[p].msg # Nil
  /\ free' = BufferOf(call[p].msg)
  /\ Return(p)
  /\ must' = [must EXCEPT ![p] = {}]
  /\ UNCHANGED <<up, table, sendList, fifo, reflect, held, groups>>

(* Mutant: the copy is released whatever radQueueSend answered. *)
GroupWriteReleasing(p) ==
  /\ pc[p] = "write"
  /\ GoTo(p, "next")
  /\ call' = [call EXCEPT ![p].copy = Nil]
  /\ free' = free \cup BufferOf(call[p].copy)
  /\ Deliver(p, call[p].cur, call[p].copy) \/ UNCHANGED <<fifo, reflect>>
  /\ UNCHANGED <<up, table, sendList, held, groups, must>>

(* An ERROR of radQueueSend gives the copy back, an ERROR_ABORT does not.  *)
(* A FIFO without reader answers ERROR_ABORT to a process with the SIGPIPE *)
(* handler of radQueueInit, ERROR to one that has replaced it since.       *)
GroupWrite(p) ==
  /\ pc[p] = "write"
  /\ GoTo(p, "next")
  /\ call' = [call EXCEPT ![p].copy = Nil]
  /\ \/ /\ ~ Attached(p, call[p].cur)
        /\ free' = free \cup BufferOf(call[p].copy)
        /\ UNCHANGED <<fifo, reflect, must>>
     \/ /\ Attached(p, call[p].cur)
        /\ \/ /\ ~ up[call[p].cur]
              /\ free' \in {free, free \cup BufferOf(call[p].copy)}
              /\ UNCHANGED <<fifo, reflect>>
           \/ Deliver(p, call[p].cur, call[p].copy) /\ UNCHANGED free
        /\ must' = [must EXCEPT ![p] = @ \ {call[p].cur}]
  /\ UNCHANGED <<up, table, sendList, held, groups>>

(* A signal ends the wait of the write, which is not restarted: the copy   *)
(* is released and the queue left out.                                     *)
GroupWriteInterrupted(p) ==
  /\ pc[p] = "write"
  /\ Attached(p, call[p].cur) /\ up[call[p].cur] /\ ~ HasRoom(fifo[call[p].cur])
  /\ GoTo(p, "next")
  /\ call' = [call EXCEPT ![p].copy = Nil, ![p].missed = @ \cup {call[p].cur}]
  /\ free' = free \cup BufferOf(call[p].copy)
  /\ UNCHANGED <<up, table, sendList, fifo, reflect, held, groups, must>>

(* The program of a process takes and releases buffers. *)
radBufferGet(p) ==
  /\ pc[p] = "idle"
  /\ Cardinality(held[p]) < MaxHeld
  /\ \E b \in Buffer : TakeBuffer(b) /\ held' = [held EXCEPT ![p] = @ \cup {b}]
  /\ UNCHANGED <<up, table, sendList, fifo, reflect, pc, call, groups, must>>

radBufferRls(p, b) ==
  /\ pc[p] = "idle"
  /\ b \in held[p]
  /\ held' = [held EXCEPT ![p] = @ \ {b}]
  /\ free' = free \cup {b}
  /\ UNCHANGED <<up, table, sendList, fifo, reflect, pc, call, groups, must>>

-----------------------------------------------------------------------------
(* What the program of p can send.  Programs attach to a single queue only *)
(* through QUEUE_GROUP_ALL (msgRouter.c, radmsgRouter.c).                  *)
Payload(p) == held[p] \cup (IF ZeroLength THEN {Nil} ELSE {})

Life(p) ==
  \/ "init" \in Calls[p] /\ radQueueInit(p)
  \/ "exit" \in Calls[p] /\ radQueueExit(p)
  \/ "crash" \in Calls[p] /\ Crash(p)

GroupCall(p) ==
  \E g \in Joinable :
    \/ /\ "join" \in Calls[p]
       /\ g \notin groups[p] \/ "rejoin" \in Calls[p]
       /\ radQueueJoinGroup(p, g)
    \/ "quit" \in Calls[p] /\ radQueueQuitGroup(p, g)
    \/ "send_group" \in Calls[p] /\ \E b \in Payload(p) : radQueueSendGroup(p, g, b)

PeerCall(p) ==
  \/ "attach" \in Calls[p] /\ \E n \in Process \ {p} : \/ radQueueAttach(p, n, All)
                                                   \/ radQueueDettach(p, n, All)
  \/ "send" \in Calls[p] /\ \E q \in Process, b \in Payload(p) : radQueueSend(p, q, b)
  \/ radQueueRecv(p)
  \/ "buffers" \in Calls[p] /\ (radBufferGet(p) \/ \E b \in held[p] : radBufferRls(p, b))

Walk(p) ==
  \/ NextName(p) \/ JoinEnd(p) \/ QuitEnd(p) \/ UpdateEnd(p) \/ SendEnd(p)
  \/ AttachKnown(p) \/ AttachNode(p) \/ AttachNoBuffer(p) \/ AttachOpen(p) \/ AttachOpenFails(p)
  \/ QuitDetach(p) \/ GroupCopy(p) \/ GroupNoBuffer(p)
  \/ GroupWrite(p) \/ GroupWriteInterrupted(p)

Next == \E p \in Process : Life(p) \/ GroupCall(p) \/ PeerCall(p) \/ Walk(p) \/ dummyChild(p)

Spec == Init /\ [][Next]_vars

-----------------------------------------------------------------------------
CallRecord == [op : Op, group : Group, index : 1 .. MaxRecords, cur : Process \cup {Nil},
               msg : Buffer \cup {Nil}, copy : Buffer \cup {Nil}, missed : SUBSET Process]

(* Every variable has its type, and no table or pipe is over its limit. *)
TypeOK ==
  /\ up \in [Process -> BOOLEAN]
  /\ table \in Seq(Record) /\ Len(table) <= MaxRecords
  /\ sendList \in [Process -> Seq(Node)]
  /\ fifo \in [Process -> Seq(Block)]
  /\ reflect \in [Process -> Seq(Block)]
  /\ \A p \in Process : Len(fifo[p]) <= PipeCap /\ Len(reflect[p]) <= PipeCap
  /\ free \in SUBSET Buffer
  /\ held \in [Process -> SUBSET Buffer]
  /\ pc \in [Process -> Point]
  /\ call \in [Process -> CallRecord]
  /\ groups \in [Process -> SUBSET Group]
  /\ must \in [Process -> SUBSET Process]

(* Whatever the others do to the table, and even if they die, a queue has  *)
(* exactly one record for each group it was told it is in.                 *)
RecordsKept ==
  \A p \in Process : \A g \in groups[p] :
    Cardinality({k \in DOMAIN table : table[k].name = p /\ table[k].group = g}) = 1

(* Where buffer b is. *)
Places(b) ==
  {<<"free">> : x \in {b} \cap free}
  \cup {<<"held", p>> : p \in {p \in Process : b \in held[p]}}
  \cup {<<"msg", p>> : p \in {p \in Process : call[p].msg = b}}
  \cup {<<"copy", p>> : p \in {p \in Process : call[p].copy = b}}
  \cup (UNION {{<<"node", p, k>> : k \in {k \in DOMAIN sendList[p] : sendList[p][k].buf = b}} :
               p \in Process})
  \cup (UNION {{<<"fifo", p, k>> : k \in {k \in DOMAIN fifo[p] : fifo[p][k].buf = b}} :
               p \in Process})
  \cup (UNION {{<<"reflect", p, k>> : k \in {k \in DOMAIN reflect[p] : reflect[p][k].buf = b}} :
               p \in Process})

(* A system buffer is never in two places: not free and in use, not in two *)
(* messages, not with a sender and with its receiver.                      *)
SingleOwner == \A b \in Buffer : Cardinality(Places(b)) <= 1

(* The buffers that process p alone has. *)
Carries(p) ==
  held[p] \cup BufferOf(call[p].msg) \cup BufferOf(call[p].copy)
  \cup {sendList[p][k].buf : k \in DOMAIN sendList[p]}
  \cup {reflect[p][k].buf : k \in DOMAIN reflect[p]}

(* A buffer gets lost only with the process that has it, with a FIFO that  *)
(* nobody has open, as the copy of a group message for a queue that has no *)
(* reader any more, or in a FIFO that is out of step, because the          *)
(* reflector cut a header and another message came between the parts: its  *)
(* header is then read across the boundary of two.                         *)
OnlyTheseLoseBuffers ==
  [][\A b \in Buffer : Places(b) # {} /\ Places(b)' = {} =>
       \/ \E p \in Process : pc[p] # "down" /\ pc'[p] = "down" /\ b \in Carries(p)
       \/ \E p \in Process : /\ ~ IsOpen(p, up', sendList')
                             /\ \E k \in DOMAIN fifo[p] : fifo[p][k].buf = b
       \/ \E p \in Process : /\ pc[p] = "write" /\ call[p].copy = b
                             /\ Attached(p, call[p].cur) /\ ~ up[call[p].cur]
       \/ \E p \in Process : \E k \in DOMAIN fifo[p] :
            k < HeaderBlocks /\ fifo[p][k].buf = b /\ fifo'[p] # fifo[p]]_vars

(* radQueueSendGroup by a member of the group answers OK only when it has  *)
(* written to every queue that had joined before and did not quit since,   *)
(* but for those whose FIFO was full when a signal came.                   *)
GroupReached ==
  [][\A p \in Process : AtEnd(p, "send") /\ pc'[p] = "idle" => must[p] \subseteq call[p].missed]_vars
=============================================================================
