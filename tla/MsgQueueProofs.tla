--------------------------- MODULE MsgQueueProofs ---------------------------
(***************************************************************************)
(* Theorems about the message queues (module MsgQueue), for any number of  *)
(* processes, groups and buffers, and any length of the table and of the   *)
(* FIFOs.                                                                  *)
(***************************************************************************)
EXTENDS MsgQueue, SelectionProofs

USE QueueAssumption

(* The types of the queue database, ... *)
TableOK == table \in Seq(Record) /\ Len(table) <= MaxRecords

(* ... of the pipes, ... *)
PipesOK ==
  /\ fifo \in [Process -> Seq(Block)]
  /\ reflect \in [Process -> Seq(Block)]
  /\ \A p \in Process : Len(fifo[p]) <= PipeCap /\ Len(reflect[p]) <= PipeCap

(* ... and of the rest. *)
RestOK ==
  /\ up \in [Process -> BOOLEAN]
  /\ sendList \in [Process -> Seq(Node)]
  /\ free \in SUBSET Buffer
  /\ held \in [Process -> SUBSET Buffer]
  /\ groups \in [Process -> SUBSET Group]
  /\ must \in [Process -> SUBSET Process]

(* Where a process is says what its call is about: a queue of the group,   *)
(* a buffer for a node or for a copy, the message of the caller.           *)
Fits(at, c) ==
  /\ at \in {"down", "idle"} => c = NoCall
  /\ at = "next" => c.op \in {"join", "quit", "update", "send"}
  /\ at \in {"attach", "open"} => c.op \in {"attach", "join", "update"}
  /\ at \in {"copy", "write"} => c.op = "send"
  /\ at = "detach" => c.op = "quit"
  /\ at \in {"attach", "open", "detach", "copy", "write"} => c.cur \in Process
  /\ at = "open" => c.copy # Nil
  /\ c.copy # Nil => at \in {"open", "write"}
  /\ c.msg # Nil => c.op \in {"update", "send"}

CallInv ==
  /\ pc \in [Process -> Point]
  /\ call \in [Process -> CallRecord]
  /\ \A p \in Process : Fits(pc[p], call[p])

TypeInv == TableOK /\ PipesOK /\ RestOK /\ CallInv

-----------------------------------------------------------------------------
(* The queue database.  A record that is marked keeps its name and group.  *)
LEMMA MarkedRecord ==
  ASSUME NEW r \in Record, NEW u \in BOOLEAN
  PROVE  /\ [r EXCEPT !.update = u] \in Record
         /\ [r EXCEPT !.update = u].name = r.name
         /\ [r EXCEPT !.update = u].group = r.group
BY DEF Record

(* The table with the marks M. *)
Marks(M) == [k \in 1 .. Len(table) |-> [table[k] EXCEPT !.update = M[k]]]

(* A table in which records are marked. *)
LEMMA MarkedTable ==
  ASSUME table \in Seq(Record), NEW M \in [1 .. Len(table) -> BOOLEAN]
  PROVE  /\ Marks(M) \in Seq(Record) /\ Len(Marks(M)) = Len(table)
         /\ \A k \in 1 .. Len(table) : /\ Marks(M)[k].name = table[k].name
                                        /\ Marks(M)[k].group = table[k].group
<1> DEFINE f == Marks(M)
<1>1. \A k \in 1 .. Len(table) : /\ f[k] \in Record /\ f[k].name = table[k].name
                                 /\ f[k].group = table[k].group
  <2> SUFFICES ASSUME NEW k \in 1 .. Len(table)
               PROVE  /\ f[k] \in Record /\ f[k].name = table[k].name
                      /\ f[k].group = table[k].group
    OBVIOUS
  <2>1. table[k] \in Record /\ M[k] \in BOOLEAN
    OBVIOUS
  <2>2. f[k] = [table[k] EXCEPT !.update = M[k]]
    BY DEF Marks
  <2> QED BY <2>1, <2>2, MarkedRecord
<1>2. Len(table) \in Nat /\ f \in [1 .. Len(table) -> Record]
  <2>1. Len(table) \in Nat /\ DOMAIN f = 1 .. Len(table)
    BY DEF Marks
  <2>2. f = [k \in 1 .. Len(table) |-> f[k]]
    BY <2>1 DEF Marks
  <2> HIDE DEF f
  <2> QED BY <1>1, <2>1, <2>2
<1>3. f \in Seq(Record) /\ Len(f) = Len(table)
  <2> HIDE DEF f
  <2> QED BY <1>2
<1> QED BY <1>1, <1>3

(* No queue has two records for a group. *)
Unique ==
  \A j, k \in DOMAIN table :
    table[j].name = table[k].name /\ table[j].group = table[k].group => j = k

(* A queue is added: it is listed once, and nobody is lost. *)
LEMMA Added ==
  ASSUME TableOK, Unique, NEW n \in Process, NEW g \in Group, AddFits(n, g), qdbAddQueue(n, g)
  PROVE  /\ TableOK' /\ Unique' /\ IsListed(n, g)'
         /\ \A m \in Process, h \in Group : IsListed(m, h) => IsListed(m, h)'
<1>1. CASE IsListed(n, g)
  BY <1>1 DEF qdbAddQueue, TableOK, Unique, IsListed
<1>2. CASE ~ IsListed(n, g)
  <2> DEFINE M == [k \in 1 .. Len(table) |-> table[k].update \/ table[k].group = g]
             f == Marks(M)
             new == [name |-> n, group |-> g, update |-> TRUE]
  <2>1. table \in Seq(Record) /\ Len(table) < MaxRecords /\ DOMAIN table = 1 .. Len(table)
    BY <1>2 DEF TableOK, AddFits
  <2>2. M \in [1 .. Len(table) -> BOOLEAN]
    OBVIOUS
  <2>3. /\ f \in Seq(Record) /\ Len(f) = Len(table)
        /\ \A k \in 1 .. Len(table) : f[k].name = table[k].name /\ f[k].group = table[k].group
    <3> HIDE DEF M
    <3> QED BY <2>1, <2>2, MarkedTable
  <2>4. table' = Append(f, new)
    BY <1>2, <2>1 DEF qdbAddQueue, Marks
  <2>5. new \in Record /\ new.name = n /\ new.group = g
    BY DEF Record
  <2> HIDE DEF f, new, M
  <2>6. /\ table' \in Seq(Record) /\ Len(table') = Len(table) + 1 /\ table'[Len(table) + 1] = new
        /\ \A k \in 1 .. Len(table) : table'[k] = f[k]
        /\ DOMAIN table' = 1 .. Len(table) + 1
    BY <2>3, <2>4, <2>5
  <2>7. Len(table) \in Nat /\ MaxRecords \in Nat
    BY <2>1
  <2>8. TableOK'
    BY <2>1, <2>6, <2>7 DEF TableOK
  <2>9. \A k \in 1 .. Len(table) : table'[k].name = table[k].name /\ table'[k].group = table[k].group
    BY <2>3, <2>6
  <2>10. IsListed(n, g)'
    BY <2>5, <2>6, <2>7 DEF IsListed
  <2>11. \A m \in Process, h \in Group : IsListed(m, h) => IsListed(m, h)'
    BY <2>1, <2>6, <2>7, <2>9 DEF IsListed
  <2>12. \A k \in 1 .. Len(table) : ~ (table'[k].name = n /\ table'[k].group = g)
    BY <1>2, <2>1, <2>9 DEF IsListed
  <2>13. Unique'
    <3> SUFFICES ASSUME NEW j \in 1 .. Len(table) + 1, NEW k \in 1 .. Len(table) + 1,
                        table'[j].name = table'[k].name, table'[j].group = table'[k].group
                 PROVE  j = k
      BY <2>6 DEF Unique
    <3>1. CASE j \in 1 .. Len(table) /\ k \in 1 .. Len(table)
      BY <2>1, <2>9, <3>1 DEF Unique
    <3>2. CASE j = Len(table) + 1
      BY <2>5, <2>6, <2>7, <2>12, <3>2
    <3>3. CASE k = Len(table) + 1
      BY <2>5, <2>6, <2>7, <2>12, <3>3
    <3> QED BY <2>7, <3>1, <3>2, <3>3
  <2> QED BY <2>8, <2>10, <2>11, <2>13
<1> QED BY <1>1, <1>2

(* A queue is deleted from a group, or from all: the others stay as they   *)
(* are, and so do its records of other groups.                             *)
LEMMA DeletedLemma ==
  ASSUME TableOK, Unique, NEW n \in Process, NEW g \in Group, qdbDeleteQueue(n, g)
  PROVE  /\ TableOK' /\ Unique'
         /\ \A m \in Process, h \in Group :
              IsListed(m, h) /\ (m # n \/ (g # All /\ h # g)) => IsListed(m, h)'
<1> DEFINE M == [k \in 1 .. Len(table) |-> table[k].update \/ k \in Changed(n, g)]
           f == Marks(M)
           S == DOMAIN table \ Deleted(n, g)
<1>1. table \in Seq(Record) /\ Len(table) \in Nat /\ Len(table) <= MaxRecords
      /\ DOMAIN table = 1 .. Len(table)
  BY DEF TableOK
<1>2. M \in [1 .. Len(table) -> BOOLEAN]
  OBVIOUS
<1>3. /\ f \in Seq(Record) /\ Len(f) = Len(table)
      /\ \A k \in 1 .. Len(table) : f[k].name = table[k].name /\ f[k].group = table[k].group
  <2> HIDE DEF M
  <2> QED BY <1>1, <1>2, MarkedTable
<1>4. table' = AtPositions(f, S) /\ S \in SUBSET (1 .. Len(f))
  BY <1>1, <1>3 DEF qdbDeleteQueue, Marks
<1>5. \A k \in 1 .. Len(table) : k \notin S =>
        table[k].name = n /\ (g = All \/ table[k].group = g)
  BY <1>1 DEF Deleted, RecordsOf
<1> HIDE DEF f, M, S
<1> DEFINE N == Cardinality(S)
<1>6. /\ table' \in Seq(Record) /\ Len(table') = N /\ N \in 0 .. Len(table)
      /\ \A j \in 1 .. N : table'[j] = f[Position(S, j)]
      /\ \A j \in 1 .. N : Position(S, j) \in S
      /\ \A i, j \in 1 .. N : i < j => Position(S, i) < Position(S, j)
      /\ \A k \in S : \E j \in 1 .. N : Position(S, j) = k
  BY <1>3, <1>4, Selected
<1> HIDE DEF N
<1>7. TableOK'
  BY <1>1, <1>6 DEF TableOK
<1>8. \A j \in 1 .. N : /\ Position(S, j) \in 1 .. Len(table)
                        /\ table'[j].name = table[Position(S, j)].name
                        /\ table'[j].group = table[Position(S, j)].group
  BY <1>3, <1>4, <1>6
<1>9. DOMAIN table' = 1 .. N
  BY <1>6
<1>10. Unique'
  <2> SUFFICES ASSUME NEW i \in 1 .. N, NEW j \in 1 .. N,
                      table'[i].name = table'[j].name, table'[i].group = table'[j].group
               PROVE  i = j
    BY <1>9 DEF Unique
  <2>1. Position(S, i) = Position(S, j)
    BY <1>1, <1>8 DEF Unique
  <2>2. ~ (i < j) /\ ~ (j < i)
    <3>1. Position(S, i) \in Nat /\ Position(S, j) \in Nat
      BY <1>8
    <3>2. ~ (Position(S, i) < Position(S, j)) /\ ~ (Position(S, j) < Position(S, i))
      BY <2>1, <3>1
    <3> QED BY <1>6, <3>2
  <2>3. i \in Nat /\ j \in Nat
    BY <1>6
  <2> QED BY <2>2, <2>3
<1>11. ASSUME NEW m \in Process, NEW h \in Group, IsListed(m, h), m # n \/ (g # All /\ h # g)
       PROVE  IsListed(m, h)'
  <2>1. PICK k \in 1 .. Len(table) : table[k].name = m /\ table[k].group = h
    BY <1>1, <1>11 DEF IsListed
  <2>2. k \in S
    BY <1>5, <1>11, <2>1
  <2>3. PICK j \in 1 .. N : Position(S, j) = k
    BY <1>6, <2>2
  <2>4. table'[j].name = m /\ table'[j].group = h
    BY <1>8, <2>1, <2>3
  <2> QED BY <1>9, <2>4 DEF IsListed
<1> QED BY <1>7, <1>10, <1>11

(* The update flag of a queue is reset: all stay listed. *)
LEMMA FlagReset ==
  ASSUME TableOK, Unique, NEW n, NEW g, qdbIsUpdateFlagSet(n, g)
  PROVE  /\ TableOK' /\ Unique'
         /\ \A m \in Process, h \in Group : IsListed(m, h) => IsListed(m, h)'
<1> DEFINE M == [k \in 1 .. Len(table) |->
                   table[k].update /\ ~ (table[k].name = n /\ table[k].group = g)]
           f == Marks(M)
<1>1. table \in Seq(Record) /\ Len(table) \in Nat /\ Len(table) <= MaxRecords
      /\ DOMAIN table = 1 .. Len(table)
  BY DEF TableOK
<1>2. M \in [1 .. Len(table) -> BOOLEAN]
  <2>1. ASSUME NEW k \in 1 .. Len(table) PROVE table[k].update \in BOOLEAN
    <3>1. table[k] \in Record
      BY <1>1
    <3> QED BY <3>1 DEF Record
  <2> QED BY <2>1
<1>3. table' = f
  BY <1>1 DEF qdbIsUpdateFlagSet, Marks
<1>4. /\ table' \in Seq(Record) /\ Len(table') = Len(table)
      /\ \A k \in 1 .. Len(table) : table'[k].name = table[k].name /\ table'[k].group = table[k].group
  <2> HIDE DEF M
  <2>1. /\ f \in Seq(Record) /\ Len(f) = Len(table)
        /\ \A k \in 1 .. Len(table) : f[k].name = table[k].name /\ f[k].group = table[k].group
    BY <1>1, <1>2, MarkedTable
  <2> HIDE DEF f
  <2> QED BY <1>3, <2>1
<1> HIDE DEF M, f
<1>5. DOMAIN table' = 1 .. Len(table)
  BY <1>4
<1>6. TableOK'
  BY <1>1, <1>4 DEF TableOK
<1>7. Unique'
  BY <1>1, <1>4, <1>5 DEF Unique
<1>8. \A m \in Process, h \in Group : IsListed(m, h) => IsListed(m, h)'
  BY <1>1, <1>4, <1>5 DEF IsListed
<1> QED BY <1>6, <1>7, <1>8

-----------------------------------------------------------------------------
(* Calls.  A process goes on somewhere with a call that fits the place.    *)
LEMMA CallStep ==
  ASSUME CallInv, NEW p \in Process, NEW c \in CallRecord, NEW to \in Point, Fits(to, c),
         pc' = [pc EXCEPT ![p] = to], call' = [call EXCEPT ![p] = c]
  PROVE  /\ CallInv' /\ call'[p] = c /\ pc'[p] = to
         /\ \A q \in Process \ {p} : call'[q] = call[q] /\ pc'[q] = pc[q]
<1>1. pc' \in [Process -> Point] /\ pc'[p] = to /\ \A q \in Process \ {p} : pc'[q] = pc[q]
  BY DEF CallInv
<1>2. call' \in [Process -> CallRecord] /\ call'[p] = c
      /\ \A q \in Process \ {p} : call'[q] = call[q]
  BY DEF CallInv
<1>3. \A q \in Process : Fits(pc'[q], call'[q])
  BY <1>1, <1>2 DEF CallInv
<1> QED BY <1>1, <1>2, <1>3 DEF CallInv

(* No call is one that fits. *)
LEMMA NoCallFits == NoCall \in CallRecord /\ Fits("idle", NoCall) /\ Fits("down", NoCall)
<1>1. Nil \notin Process /\ Nil \in Process \cup {Nil} /\ Nil \in Buffer \cup {Nil} /\ 1 \in 1 .. MaxRecords
  OBVIOUS
<1>2. NoCall \in CallRecord
  BY <1>1 DEF NoCall, CallRecord, Op
<1> QED BY <1>2 DEF NoCall, Fits

(* The call returns. *)
LEMMA ReturnStep ==
  ASSUME CallInv, NEW p \in Process, Return(p)
  PROVE  /\ CallInv' /\ call'[p] = NoCall /\ pc'[p] = "idle"
         /\ \A q \in Process \ {p} : call'[q] = call[q] /\ pc'[q] = pc[q]
BY CallStep, NoCallFits DEF Return, Point

(* It goes on with the same local variables. *)
LEMMA GoToStep ==
  ASSUME CallInv, NEW p \in Process, NEW to \in Point, Fits(to, call[p]), GoTo(p, to), UNCHANGED call
  PROVE  CallInv' /\ pc'[p] = to /\ \A q \in Process \ {p} : pc'[q] = pc[q]
<1>1. call[p] \in CallRecord /\ call' = [call EXCEPT ![p] = call[p]]
  BY DEF CallInv
<1>2. pc' = [pc EXCEPT ![p] = to]
  BY DEF GoTo
<1> QED BY <1>1, <1>2, CallStep

(* The fields of a record of a call. *)
LEMMA CallFields ==
  ASSUME NEW c \in CallRecord
  PROVE  /\ c.op \in Op /\ c.group \in Group /\ c.index \in 1 .. MaxRecords
         /\ c.cur \in Process \cup {Nil} /\ c.msg \in Buffer \cup {Nil} /\ c.copy \in Buffer \cup {Nil}
         /\ c.missed \in SUBSET Process
BY DEF CallRecord

(* A call begins. *)
LEMMA BeginStep ==
  ASSUME CallInv, NEW p \in Process, NEW op \in {"join", "quit", "update", "send"},
         NEW g \in Group, NEW m \in Buffer \cup {Nil}, m = Nil \/ op \in {"update", "send"},
         Begin(p, op, g, m), GoTo(p, "next")
  PROVE  /\ CallInv' /\ call'[p].op = op /\ call'[p].group = g /\ call'[p].msg = m
         /\ call'[p].copy = Nil /\ pc'[p] = "next"
         /\ \A q \in Process \ {p} : call'[q] = call[q] /\ pc'[q] = pc[q]
<1> DEFINE c == [NoCall EXCEPT !.op = op, !.group = g, !.msg = m]
<1>1. NoCall \in CallRecord
  BY NoCallFits
<1>2. c \in CallRecord /\ c.op = op /\ c.group = g /\ c.msg = m /\ c.copy = Nil
  BY <1>1 DEF CallRecord, NoCall, Op
<1>3. Fits("next", c)
  BY <1>2 DEF Fits
<1>4. call' = [call EXCEPT ![p] = c] /\ pc' = [pc EXCEPT ![p] = "next"]
  BY DEF Begin, GoTo
<1> HIDE DEF c
<1> QED BY <1>2, <1>3, <1>4, CallStep DEF Point

-----------------------------------------------------------------------------
(* The types.  What stays keeps its types. *)
LEMMA PipesFrame == ASSUME PipesOK, UNCHANGED <<fifo, reflect>> PROVE PipesOK'
BY DEF PipesOK

(* Likewise for the calls. *)
LEMMA CallFrame == ASSUME CallInv, UNCHANGED <<pc, call>> PROVE CallInv'
BY DEF CallInv

(* What is written goes to the end of a pipe that has room for it. *)
LEMMA PutType ==
  ASSUME NEW q \in Seq(Block), NEW m \in Seq(Block), Len(q) + Len(m) <= PipeCap
  PROVE  q \o m \in Seq(Block) /\ Len(q \o m) <= PipeCap
BY ConcatProperties

(* What is read is taken from the front. *)
LEMMA TakeType ==
  ASSUME NEW q \in Seq(Block), NEW n \in 0 .. Len(q), Len(q) <= PipeCap
  PROVE  /\ SubSeq(q, 1, n) \in Seq(Block) /\ Len(SubSeq(q, 1, n)) = n
         /\ SubSeq(q, n + 1, Len(q)) \in Seq(Block) /\ Len(SubSeq(q, n + 1, Len(q))) <= PipeCap
         /\ \A k \in 1 .. n : SubSeq(q, 1, n)[k] = q[k]
         /\ Len(SubSeq(q, n + 1, Len(q))) = Len(q) - n
         /\ \A k \in 1 .. Len(q) - n : SubSeq(q, n + 1, Len(q))[k] = q[n + k]
<1>1. Len(q) \in Nat /\ n \in Nat /\ \A k \in 1 .. Len(q) : q[k] \in Block
  OBVIOUS
<1>2. SubSeq(q, 1, n) \in Seq(Block) /\ Len(SubSeq(q, 1, n)) = n
      /\ \A k \in 1 .. n : SubSeq(q, 1, n)[k] = q[k]
  BY <1>1
<1>3. /\ SubSeq(q, n + 1, Len(q)) \in Seq(Block) /\ Len(SubSeq(q, n + 1, Len(q))) = Len(q) - n
      /\ \A k \in 1 .. Len(q) - n : SubSeq(q, n + 1, Len(q))[k] = q[n + k]
  BY <1>1
<1> QED BY <1>1, <1>2, <1>3

(* The blocks of a header. *)
LEMMA HeaderType ==
  ASSUME NEW b \in Buffer \cup {Nil}
  PROVE  /\ Header(b) \in Seq(Block) /\ Len(Header(b)) = HeaderBlocks
         /\ \A k \in 1 .. HeaderBlocks : Header(b)[k].buf = IF k = HeaderBlocks THEN b ELSE Nil
<1> DEFINE f == [k \in 1 .. HeaderBlocks |-> [buf |-> IF k = HeaderBlocks THEN b ELSE Nil]]
<1>1. HeaderBlocks \in Nat
  OBVIOUS
<1>2. \A k \in 1 .. HeaderBlocks : f[k] \in Block /\ f[k].buf = IF k = HeaderBlocks THEN b ELSE Nil
  BY DEF Block
<1>3. f = [k \in 1 .. HeaderBlocks |-> f[k]]
  OBVIOUS
<1>4. Header(b) = f
  BY DEF Header
<1> HIDE DEF f
<1>5. f \in Seq(Block) /\ Len(f) = HeaderBlocks
  BY <1>1, <1>2, <1>3
<1> QED BY <1>2, <1>4, <1>5

(* One pipe changes. *)
LEMMA PipeSet ==
  ASSUME NEW f \in [Process -> Seq(Block)], \A p \in Process : Len(f[p]) <= PipeCap,
         NEW p \in Process, NEW s \in Seq(Block), Len(s) <= PipeCap
  PROVE  /\ [f EXCEPT ![p] = s] \in [Process -> Seq(Block)]
         /\ \A q \in Process : Len([f EXCEPT ![p] = s][q]) <= PipeCap
OBVIOUS

(* A process sends. *)
LEMMA DeliverType ==
  ASSUME PipesOK, NEW p \in Process, NEW q \in Process, NEW b \in Buffer \cup {Nil}, Deliver(p, q, b)
  PROVE  PipesOK'
<1>1. Header(b) \in Seq(Block) /\ Len(Header(b)) = HeaderBlocks
  BY HeaderType
<1>2. CASE /\ HasRoom(reflect[p]) /\ UNCHANGED fifo
           /\ reflect' = [reflect EXCEPT ![p] = @ \o Header(b)]
  <2>1. reflect[p] \o Header(b) \in Seq(Block) /\ Len(reflect[p] \o Header(b)) <= PipeCap
    BY <1>1, <1>2, PutType DEF PipesOK, HasRoom
  <2> QED BY <1>2, <2>1, PipeSet DEF PipesOK
<1>3. CASE /\ HasRoom(fifo[q]) /\ UNCHANGED reflect
           /\ fifo' = [fifo EXCEPT ![q] = @ \o Header(b)]
  <2>1. fifo[q] \o Header(b) \in Seq(Block) /\ Len(fifo[q] \o Header(b)) <= PipeCap
    BY <1>1, <1>3, PutType DEF PipesOK, HasRoom
  <2> QED BY <1>3, <2>1, PipeSet DEF PipesOK
<1> QED BY <1>2, <1>3 DEF Deliver

(* The kernel empties FIFOs. *)
LEMMA KeepType ==
  ASSUME PipesOK, NEW readers, NEW lists, fifo' = Keep(fifo, readers, lists), UNCHANGED reflect
  PROVE  PipesOK'
<1>1. \A q \in Process : fifo'[q] = fifo[q] \/ fifo'[q] = <<>>
  BY DEF Keep
<1>2. fifo' = [q \in Process |-> fifo'[q]]
  BY DEF Keep
<1>3. \A q \in Process : fifo'[q] \in Seq(Block) /\ Len(fifo'[q]) <= PipeCap
  <2>1. <<>> \in Seq(Block) /\ Len(<<>>) <= PipeCap
    OBVIOUS
  <2> QED BY <1>1, <2>1 DEF PipesOK
<1> QED BY <1>2, <1>3 DEF PipesOK

(* The buffer of a call, if it has one. *)
LEMMA BufferOfType == ASSUME NEW b \in Buffer \cup {Nil} PROVE BufferOf(b) \in SUBSET Buffer
BY DEF BufferOf

(* A queue starts. *)
LEMMA InitType ==
  ASSUME TypeInv, Unique, NEW p \in Process, radQueueInit(p)
  PROVE  TypeInv'
<1>1. TableOK'
  BY Added DEF TypeInv, radQueueInit
<1>2. PipesOK'
  BY PipesFrame DEF TypeInv, radQueueInit
<1>3. CallInv'
  <2>1. CallInv /\ pc[p] = "down" /\ GoTo(p, "idle") /\ UNCHANGED call
    BY DEF TypeInv, radQueueInit
  <2>2. Fits("idle", call[p])
    BY <2>1, NoCallFits DEF CallInv, Fits
  <2> QED BY <2>1, <2>2, GoToStep DEF Point
<1>4. RestOK'
  BY DEF TypeInv, RestOK, radQueueInit
<1> QED BY <1>1, <1>2, <1>3, <1>4 DEF TypeInv

(* A process ends. *)
LEMMA GoneType ==
  ASSUME TypeInv, NEW p \in Process, NEW f, \A q \in Process : f[q] = fifo[q] \/ f[q] = <<>>,
         Gone(p, f), free' \in SUBSET Buffer
  PROVE  PipesOK' /\ CallInv' /\ RestOK' /\ call'[p] = NoCall /\ pc'[p] = "down"
         /\ \A q \in Process \ {p} : call'[q] = call[q] /\ pc'[q] = pc[q]
<1>1. PipesOK'
  <2>1. \A q \in Process : fifo'[q] = fifo[q] \/ fifo'[q] = <<>>
    <3>1. fifo' = Keep(f, up', sendList')
      BY DEF Gone
    <3>2. \A q \in Process : fifo'[q] = f[q] \/ fifo'[q] = <<>>
      BY <3>1 DEF Keep
    <3> QED BY <3>2
  <2>2. fifo' = [q \in Process |-> fifo'[q]]
    BY DEF Gone, Keep
  <2>3. <<>> \in Seq(Block) /\ Len(<<>>) <= PipeCap
    OBVIOUS
  <2>4. \A q \in Process : fifo'[q] \in Seq(Block) /\ Len(fifo'[q]) <= PipeCap
    BY <2>1, <2>3 DEF PipesOK, TypeInv
  <2>5. /\ reflect' \in [Process -> Seq(Block)]
        /\ \A q \in Process : Len(reflect'[q]) <= PipeCap
    BY <2>3, PipeSet DEF PipesOK, TypeInv, Gone
  <2> QED BY <2>2, <2>4, <2>5 DEF PipesOK
<1>2. CallInv' /\ call'[p] = NoCall /\ pc'[p] = "down"
      /\ \A q \in Process \ {p} : call'[q] = call[q] /\ pc'[q] = pc[q]
  BY CallStep, NoCallFits DEF TypeInv, Gone, Point
<1>3. RestOK'
  <2>1. up' \in [Process -> BOOLEAN]
    BY DEF TypeInv, RestOK, Gone
  <2>2. sendList' \in [Process -> Seq(Node)]
    <3>1. <<>> \in Seq(Node)
      OBVIOUS
    <3> QED BY <3>1 DEF TypeInv, RestOK, Gone
  <2>3. held' \in [Process -> SUBSET Buffer]
    BY DEF TypeInv, RestOK, Gone
  <2>4. groups' \in [Process -> SUBSET Group]
    BY DEF TypeInv, RestOK, Gone
  <2>5. must' \in [Process -> SUBSET Process]
    BY DEF TypeInv, RestOK, Gone
  <2> QED BY <2>1, <2>2, <2>3, <2>4, <2>5 DEF RestOK
<1> QED BY <1>1, <1>2, <1>3

(* The end of a queue, ... *)
LEMMA ExitType ==
  ASSUME TypeInv, Unique, NEW p \in Process, radQueueExit(p)
  PROVE  TypeInv'
<1>1. TableOK'
  BY DeletedLemma DEF TypeInv, radQueueExit
<1>2. free' \in SUBSET Buffer
  <2>1. \A k \in DOMAIN sendList[p] : sendList[p][k] \in Node
    BY DEF TypeInv, RestOK
  <2>2. \A k \in DOMAIN sendList[p] : sendList[p][k].buf \in Buffer
    BY <2>1 DEF Node
  <2> QED BY <2>2 DEF TypeInv, RestOK, radQueueExit
<1>3. PICK f : f = fifo /\ Gone(p, f)
  BY DEF radQueueExit
<1> QED BY <1>1, <1>2, <1>3, GoneType DEF TypeInv

(* ... and a crash. *)
LEMMA CrashType ==
  ASSUME TypeInv, NEW p \in Process, Crash(p)
  PROVE  TypeInv'
<1>1. free' \in SUBSET Buffer /\ TableOK'
  BY DEF TypeInv, RestOK, TableOK, Crash
<1>2. \A q \in Process : [fifo EXCEPT ![p] = <<>>][q] = fifo[q] \/ [fifo EXCEPT ![p] = <<>>][q] = <<>>
  BY DEF TypeInv, PipesOK
<1>3. CASE Gone(p, fifo)
  BY <1>1, <1>3, GoneType DEF TypeInv
<1>4. CASE Gone(p, [fifo EXCEPT ![p] = <<>>])
  <2>1. PICK f : f = [fifo EXCEPT ![p] = <<>>]
    OBVIOUS
  <2> QED BY <1>1, <1>2, <1>4, <2>1, GoneType DEF TypeInv
<1> QED BY <1>3, <1>4 DEF Crash

-----------------------------------------------------------------------------
(* The walks.  A call to a group begins. *)
LEMMA JoinType ==
  ASSUME TypeInv, Unique, NEW p \in Process, NEW g \in Group, radQueueJoinGroup(p, g)
  PROVE  TypeInv'
<1>1. TableOK'
  BY Added DEF TypeInv, radQueueJoinGroup
<1>2. CallInv'
  BY BeginStep DEF TypeInv, radQueueJoinGroup
<1>3. PipesOK' /\ RestOK'
  BY PipesFrame DEF TypeInv, RestOK, radQueueJoinGroup
<1> QED BY <1>1, <1>2, <1>3 DEF TypeInv

(* The record of a group goes only at the end. *)
LEMMA QuitType ==
  ASSUME TypeInv, NEW p \in Process, NEW g \in Group, radQueueQuitGroup(p, g)
  PROVE  TypeInv'
<1>1. CallInv'
  BY BeginStep DEF TypeInv, radQueueQuitGroup
<1>2. PipesOK' /\ RestOK' /\ TableOK'
  BY PipesFrame DEF TypeInv, RestOK, TableOK, radQueueQuitGroup
<1> QED BY <1>1, <1>2 DEF TypeInv

(* A group send resets the flag. *)
LEMMA SendGroupType ==
  ASSUME TypeInv, Unique, NEW p \in Process, NEW g \in Group, NEW b \in Buffer \cup {Nil},
         radQueueSendGroup(p, g, b)
  PROVE  TypeInv'
<1>1. TableOK'
  BY FlagReset DEF TypeInv, radQueueSendGroup
<1>2. CallInv'
  <2> DEFINE op == IF UpdateFlag(p, g) THEN "update" ELSE "send"
  <2>1. op \in {"join", "quit", "update", "send"} /\ op \in {"update", "send"}
    OBVIOUS
  <2>2. Begin(p, op, g, b) /\ GoTo(p, "next") /\ CallInv
    BY DEF TypeInv, radQueueSendGroup
  <2> HIDE DEF op
  <2> QED BY <2>1, <2>2, BeginStep
<1>3. PipesOK'
  BY PipesFrame DEF TypeInv, radQueueSendGroup
<1>4. RestOK'
  <2>1. held' \in [Process -> SUBSET Buffer]
    BY DEF TypeInv, RestOK, radQueueSendGroup
  <2>2. must' \in [Process -> SUBSET Process]
    <3>1. Members(g) \ {p} \in SUBSET Process /\ {} \in SUBSET Process
      BY DEF Members
    <3>2. must \in [Process -> SUBSET Process]
      BY DEF TypeInv, RestOK
    <3>3. \E S \in SUBSET Process : must' = [must EXCEPT ![p] = S]
      BY <3>1 DEF radQueueSendGroup
    <3> QED BY <3>2, <3>3
  <2> QED BY <2>1, <2>2 DEF TypeInv, RestOK, radQueueSendGroup
<1> QED BY <1>1, <1>2, <1>3, <1>4 DEF TypeInv

(* An attach begins. *)
LEMMA AttachType ==
  ASSUME TypeInv, NEW p \in Process, NEW n \in Process, NEW g \in Group, radQueueAttach(p, n, g)
  PROVE  TypeInv' /\ call'[p].copy = Nil /\ call'[p].msg = Nil /\ pc'[p] = "attach"
         /\ \A q \in Process \ {p} : call'[q] = call[q] /\ pc'[q] = pc[q]
<1> DEFINE c == [NoCall EXCEPT !.op = "attach", !.group = g, !.cur = n]
<1>1. c \in CallRecord /\ c.op = "attach" /\ c.cur = n /\ c.copy = Nil /\ c.msg = Nil
  BY NoCallFits DEF CallRecord, NoCall, Op
<1>2. Fits("attach", c)
  BY <1>1 DEF Fits
<1>3. CallInv /\ call' = [call EXCEPT ![p] = c] /\ pc' = [pc EXCEPT ![p] = "attach"]
  BY DEF TypeInv, radQueueAttach, GoTo
<1> HIDE DEF c
<1>4. CallInv' /\ call'[p] = c /\ pc'[p] = "attach"
      /\ \A q \in Process \ {p} : call'[q] = call[q] /\ pc'[q] = pc[q]
  BY <1>1, <1>2, <1>3, CallStep DEF Point
<1>5. PipesOK' /\ RestOK' /\ TableOK'
  BY PipesFrame DEF TypeInv, RestOK, TableOK, radQueueAttach
<1> QED BY <1>1, <1>4, <1>5 DEF TypeInv

(* The walk goes on to the next queue. *)
LEMMA NextNameType ==
  ASSUME TypeInv, NEW p \in Process, NextName(p)
  PROVE  TypeInv' /\ call'[p].copy = call[p].copy /\ call'[p].msg = call[p].msg
         /\ call'[p].op = call[p].op /\ call'[p].group = call[p].group
         /\ \A q \in Process \ {p} : call'[q] = call[q] /\ pc'[q] = pc[q]
<1>0. CallInv /\ pc[p] = "next" /\ call[p] \in CallRecord /\ Fits("next", call[p])
  BY DEF TypeInv, CallInv, NextName
<1>1. PICK k \in Later(call[p].index, call[p].group) :
        /\ call' = [call EXCEPT ![p].index = k, ![p].cur = table[k].name]
        /\ GoTo(p, CASE table[k].name = p -> "next"
                    [] table[k].name # p /\ call[p].op \in {"join", "update"} -> "attach"
                    [] table[k].name # p /\ call[p].op = "quit" -> "detach"
                    [] table[k].name # p /\ call[p].op = "send" -> "copy")
  BY DEF NextName
<1>2. k \in 1 .. MaxRecords /\ table[k].name \in Process
  <2>1. call[p].index \in Nat /\ 1 <= call[p].index
    BY <1>0, CallFields
  <2>2. table \in Seq(Record) /\ Len(table) <= MaxRecords /\ k \in call[p].index + 1 .. Len(table)
    BY DEF TypeInv, TableOK, Later
  <2>3. k \in 1 .. Len(table) /\ Len(table) \in Nat
    BY <2>1, <2>2
  <2>4. table[k] \in Record
    BY <2>2, <2>3
  <2> QED BY <2>2, <2>3, <2>4 DEF Record
<1> DEFINE c == [call[p] EXCEPT !.index = k, !.cur = table[k].name]
<1>3. call' = [call EXCEPT ![p] = c]
  BY <1>1
<1>4. c \in CallRecord /\ c.op = call[p].op /\ c.cur \in Process
      /\ c.copy = call[p].copy /\ c.msg = call[p].msg /\ c.group = call[p].group
  BY <1>0, <1>2 DEF CallRecord
<1> HIDE DEF c
<1>5. call[p].copy = Nil /\ call[p].op \in {"join", "quit", "update", "send"}
      /\ (call[p].msg # Nil => call[p].op \in {"update", "send"})
  BY <1>0 DEF Fits
<1>6. PICK to \in Point : pc' = [pc EXCEPT ![p] = to] /\ Fits(to, c)
  <2>1. CASE table[k].name = p
    BY <1>1, <1>4, <1>5, <2>1 DEF GoTo, Fits, Point
  <2>2. CASE table[k].name # p /\ call[p].op \in {"join", "update"}
    <3>1. GoTo(p, "attach")
      BY <1>1, <2>2
    <3> QED BY <1>4, <1>5, <2>2, <3>1 DEF GoTo, Fits, Point
  <2>3. CASE table[k].name # p /\ call[p].op = "quit"
    <3>1. GoTo(p, "detach")
      BY <1>1, <2>3
    <3> QED BY <1>4, <1>5, <2>3, <3>1 DEF GoTo, Fits, Point
  <2>4. CASE table[k].name # p /\ call[p].op = "send"
    <3>1. GoTo(p, "copy")
      BY <1>1, <2>4
    <3> QED BY <1>4, <1>5, <2>4, <3>1 DEF GoTo, Fits, Point
  <2> QED BY <1>5, <2>1, <2>2, <2>3, <2>4
<1>7. CallInv' /\ call'[p] = c /\ \A q \in Process \ {p} : call'[q] = call[q] /\ pc'[q] = pc[q]
  BY <1>0, <1>3, <1>4, <1>6, CallStep
<1>8. PipesOK' /\ RestOK' /\ TableOK'
  BY PipesFrame DEF TypeInv, RestOK, TableOK, NextName
<1> QED BY <1>4, <1>7, <1>8 DEF TypeInv

(* The end of a walk that joins, ... *)
LEMMA JoinEndType ==
  ASSUME TypeInv, NEW p \in Process, JoinEnd(p)
  PROVE  TypeInv'
<1>1. CallInv' /\ call[p] \in CallRecord
  BY ReturnStep DEF TypeInv, CallInv, JoinEnd
<1>2. groups' \in [Process -> SUBSET Group]
  BY <1>1, CallFields DEF TypeInv, RestOK, JoinEnd
<1>3. PipesOK' /\ RestOK' /\ TableOK'
  BY <1>2, PipesFrame DEF TypeInv, RestOK, TableOK, JoinEnd
<1> QED BY <1>1, <1>3 DEF TypeInv

(* Nobody has to be reached any more than before. *)
LEMMA ExcuseType ==
  ASSUME RestOK, NEW n, NEW g, Excuse(n, g) PROVE must' \in [Process -> SUBSET Process]
BY DEF RestOK, Excuse

(* ... that quits, ... *)
LEMMA QuitEndType ==
  ASSUME TypeInv, Unique, NEW p \in Process, QuitEnd(p)
  PROVE  TypeInv'
<1>1. CallInv' /\ call[p] \in CallRecord
  BY ReturnStep DEF TypeInv, CallInv, QuitEnd
<1>2. TableOK'
  BY <1>1, CallFields, DeletedLemma DEF TypeInv, QuitEnd
<1>3. groups' \in [Process -> SUBSET Group]
  BY DEF TypeInv, RestOK, QuitEnd
<1>4. RestOK'
  BY <1>3, ExcuseType DEF TypeInv, RestOK, QuitEnd
<1>5. PipesOK'
  BY PipesFrame DEF TypeInv, QuitEnd
<1> QED BY <1>1, <1>2, <1>4, <1>5 DEF TypeInv

(* ... that updates the send list, ... *)
LEMMA UpdateEndType ==
  ASSUME TypeInv, NEW p \in Process, UpdateEnd(p)
  PROVE  TypeInv' /\ call'[p].copy = call[p].copy /\ call'[p].msg = call[p].msg
         /\ call'[p].op = "send"
         /\ \A q \in Process \ {p} : call'[q] = call[q] /\ pc'[q] = pc[q]
<1> DEFINE c == [call[p] EXCEPT !.op = "send", !.index = 1, !.cur = Nil]
<1>1. CallInv /\ call[p] \in CallRecord /\ pc[p] = "next" /\ Fits("next", call[p])
  BY DEF TypeInv, CallInv, UpdateEnd, AtEnd
<1>2. c \in CallRecord /\ c.op = "send" /\ c.copy = call[p].copy /\ c.msg = call[p].msg
  <2>1. 1 \in 1 .. MaxRecords /\ "send" \in Op
    BY DEF Op
  <2> QED BY <1>1, <2>1 DEF CallRecord
<1>3. call' = [call EXCEPT ![p] = c]
  BY DEF UpdateEnd
<1> HIDE DEF c
<1>4. Fits("next", c)
  BY <1>1, <1>2 DEF Fits
<1>5. pc' = [pc EXCEPT ![p] = "next"]
  BY <1>1 DEF UpdateEnd, CallInv
<1>6. CallInv' /\ call'[p] = c /\ \A q \in Process \ {p} : call'[q] = call[q] /\ pc'[q] = pc[q]
  BY <1>1, <1>2, <1>3, <1>4, <1>5, CallStep DEF Point
<1>7. PipesOK' /\ RestOK' /\ TableOK'
  BY PipesFrame DEF TypeInv, RestOK, TableOK, UpdateEnd
<1> QED BY <1>2, <1>6, <1>7 DEF TypeInv

(* ... and that sends. *)
LEMMA SendEndType ==
  ASSUME TypeInv, NEW p \in Process, SendEnd(p)
  PROVE  TypeInv'
<1>1. CallInv' /\ call[p] \in CallRecord
  BY ReturnStep DEF TypeInv, CallInv, SendEnd
<1>2. free' \in SUBSET Buffer
  BY <1>1, CallFields, BufferOfType DEF TypeInv, RestOK, SendEnd
<1>3. must' \in [Process -> SUBSET Process]
  BY DEF TypeInv, RestOK, SendEnd
<1>4. PipesOK' /\ RestOK' /\ TableOK'
  BY <1>2, <1>3, PipesFrame DEF TypeInv, RestOK, TableOK, SendEnd
<1> QED BY <1>1, <1>4 DEF TypeInv

-----------------------------------------------------------------------------
(* Attaching.  The call fails. *)
LEMMA AttachFailsType ==
  ASSUME TypeInv, Unique, NEW p \in Process, NEW b \in Buffer \cup {Nil}, AttachFails(p, b)
  PROVE  TypeInv'
<1>1. CallInv' /\ call[p] \in CallRecord
  BY ReturnStep DEF TypeInv, CallInv, AttachFails
<1>2. free' \in SUBSET Buffer
  <2>1. BufferOf(b) \in SUBSET Buffer /\ BufferOf(call[p].msg) \in SUBSET Buffer
    BY <1>1, CallFields, BufferOfType
  <2> QED BY <2>1 DEF TypeInv, RestOK, AttachFails
<1>3. PipesOK'
  BY PipesFrame DEF TypeInv, AttachFails
<1>4. CASE call[p].op = "join"
  <2>1. /\ qdbDeleteQueue(p, call[p].group) /\ Excuse(p, call[p].group)
        /\ groups' = [groups EXCEPT ![p] = IF call[p].group = All THEN {} ELSE @ \ {call[p].group}]
    BY <1>4 DEF AttachFails
  <2>2. TableOK'
    BY <1>1, <2>1, CallFields, DeletedLemma DEF TypeInv
  <2>3. groups' \in [Process -> SUBSET Group]
    BY <2>1 DEF TypeInv, RestOK
  <2>4. RestOK'
    BY <1>2, <2>1, <2>3, ExcuseType DEF TypeInv, RestOK, AttachFails
  <2> QED BY <1>1, <1>3, <2>2, <2>4 DEF TypeInv
<1>5. CASE call[p].op # "join"
  <2>1. must' = [must EXCEPT ![p] = {}] /\ UNCHANGED <<table, groups>>
    BY <1>5 DEF AttachFails
  <2>2. must' \in [Process -> SUBSET Process]
    BY <2>1 DEF TypeInv, RestOK
  <2>3. TableOK' /\ RestOK'
    BY <1>2, <2>1, <2>2 DEF TypeInv, RestOK, TableOK, AttachFails
  <2> QED BY <1>1, <1>3, <2>3 DEF TypeInv
<1> QED BY <1>4, <1>5

(* The queue is in the list already. *)
LEMMA AttachKnownType ==
  ASSUME TypeInv, NEW p \in Process, AttachKnown(p)
  PROVE  TypeInv' /\ call'[p].copy = call[p].copy
         /\ (call'[p].msg = call[p].msg \/ call[p].msg = Nil)
         /\ call'[p] \in {call[p], NoCall}
         /\ \A q \in Process \ {p} : call'[q] = call[q] /\ pc'[q] = pc[q]
<1>0. CallInv /\ pc[p] = "attach" /\ call[p] \in CallRecord /\ Fits("attach", call[p])
  BY DEF TypeInv, CallInv, AttachKnown
<1>1. CASE IsAttach(p)
  <2>1. CallInv' /\ call'[p] = NoCall /\ pc'[p] = "idle"
        /\ \A q \in Process \ {p} : call'[q] = call[q] /\ pc'[q] = pc[q]
    BY <1>0, <1>1, ReturnStep DEF AttachKnown, AfterAttach
  <2>2. call[p].copy = Nil /\ call[p].msg = Nil /\ NoCall.copy = Nil
    BY <1>0, <1>1 DEF Fits, IsAttach, NoCall
  <2>3. PipesOK' /\ RestOK' /\ TableOK'
    BY PipesFrame DEF TypeInv, RestOK, TableOK, AttachKnown
  <2> QED BY <2>1, <2>2, <2>3 DEF TypeInv
<1>2. CASE ~ IsAttach(p)
  <2>1. GoTo(p, "next") /\ UNCHANGED call
    BY <1>2 DEF AttachKnown, AfterAttach
  <2>2. Fits("next", call[p])
    BY <1>0, <1>2 DEF Fits, IsAttach
  <2>3. CallInv' /\ \A q \in Process \ {p} : pc'[q] = pc[q]
    BY <1>0, <2>1, <2>2, GoToStep DEF Point
  <2>4. PipesOK' /\ RestOK' /\ TableOK'
    BY PipesFrame DEF TypeInv, RestOK, TableOK, AttachKnown
  <2>5. \A q \in Process : call'[q] = call[q]
    BY <2>1
  <2> QED BY <2>3, <2>4, <2>5 DEF TypeInv
<1> QED BY <1>1, <1>2

(* A buffer becomes the copy of the call. *)
LEMMA CopyStep ==
  ASSUME CallInv, NEW p \in Process, NEW to \in {"open", "write"}, NEW b \in Buffer \cup {Nil},
         GoTo(p, to), call' = [call EXCEPT ![p].copy = b],
         (to = "open" /\ pc[p] = "attach" /\ b # Nil) \/ (to = "write" /\ pc[p] = "copy")
  PROVE  /\ CallInv' /\ call'[p].copy = b /\ call'[p].msg = call[p].msg
         /\ call'[p].op = call[p].op /\ call'[p].group = call[p].group
         /\ \A q \in Process \ {p} : call'[q] = call[q] /\ pc'[q] = pc[q]
<1> DEFINE c == [call[p] EXCEPT !.copy = b]
<1>1. call[p] \in CallRecord /\ Fits(pc[p], call[p])
  BY DEF CallInv
<1>2. /\ c \in CallRecord /\ c.copy = b /\ c.msg = call[p].msg /\ c.op = call[p].op
      /\ c.group = call[p].group /\ c.cur = call[p].cur
  BY <1>1 DEF CallRecord
<1>3. call' = [call EXCEPT ![p] = c]
  OBVIOUS
<1> HIDE DEF c
<1>4. Fits(to, c)
  <2>1. CASE to = "open" /\ pc[p] = "attach" /\ b # Nil
    BY <1>1, <1>2, <2>1 DEF Fits
  <2>2. CASE to = "write" /\ pc[p] = "copy"
    BY <1>1, <1>2, <2>2 DEF Fits
  <2> QED BY <2>1, <2>2
<1>5. to \in Point /\ pc' = [pc EXCEPT ![p] = to]
  BY DEF Point, GoTo
<1>6. CallInv' /\ call'[p] = c /\ \A q \in Process \ {p} : call'[q] = call[q] /\ pc'[q] = pc[q]
  BY <1>2, <1>3, <1>4, <1>5, CallStep
<1> QED BY <1>2, <1>6

(* A walk goes on without a copy. *)
LEMMA DropStep ==
  ASSUME CallInv, NEW p \in Process, GoTo(p, "next"), call' = [call EXCEPT ![p].copy = Nil],
         pc[p] \in {"open", "write"}, ~ IsAttach(p)
  PROVE  /\ CallInv' /\ call'[p].copy = Nil /\ call'[p].msg = call[p].msg
         /\ call'[p].op = call[p].op /\ call'[p].group = call[p].group
         /\ \A q \in Process \ {p} : call'[q] = call[q] /\ pc'[q] = pc[q]
<1> DEFINE c == [call[p] EXCEPT !.copy = Nil]
<1>1. call[p] \in CallRecord /\ Fits(pc[p], call[p])
  BY DEF CallInv
<1>2. /\ c \in CallRecord /\ c.copy = Nil /\ c.msg = call[p].msg /\ c.op = call[p].op
      /\ c.group = call[p].group /\ c.cur = call[p].cur
  BY <1>1 DEF CallRecord
<1>3. call' = [call EXCEPT ![p] = c]
  OBVIOUS
<1> HIDE DEF c
<1>4. Fits("next", c)
  BY <1>1, <1>2 DEF Fits, IsAttach
<1>5. "next" \in Point /\ pc' = [pc EXCEPT ![p] = "next"]
  BY DEF Point, GoTo
<1>6. CallInv' /\ call'[p] = c /\ \A q \in Process \ {p} : call'[q] = call[q] /\ pc'[q] = pc[q]
  BY <1>2, <1>3, <1>4, <1>5, CallStep
<1> QED BY <1>2, <1>6

(* A buffer for the node is there, ... *)
LEMMA AttachNodeType ==
  ASSUME TypeInv, NEW p \in Process, AttachNode(p)
  PROVE  TypeInv'
<1>1. PICK b \in Buffer : TakeBuffer(b) /\ call' = [call EXCEPT ![p].copy = b]
  BY DEF AttachNode
<1>2. CallInv'
  <2>1. b # Nil /\ b \in Buffer \cup {Nil} /\ "open" \in {"open", "write"} /\ "open" # "write"
    OBVIOUS
  <2>2. CallInv /\ GoTo(p, "open") /\ pc[p] = "attach"
    BY DEF TypeInv, AttachNode
  <2> QED BY <1>1, <2>1, <2>2, CopyStep
<1>3. free' \in SUBSET Buffer
  BY <1>1 DEF TakeBuffer, TypeInv, RestOK
<1>4. PipesOK' /\ RestOK' /\ TableOK'
  BY <1>3, PipesFrame DEF TypeInv, RestOK, TableOK, AttachNode
<1> QED BY <1>2, <1>4 DEF TypeInv

(* ... and the FIFO is open. *)
LEMMA AttachOpenType ==
  ASSUME TypeInv, NEW p \in Process, AttachOpen(p)
  PROVE  TypeInv' /\ [name |-> call[p].cur, group |-> call[p].group, buf |-> call[p].copy] \in Node
         /\ call'[p].copy = Nil /\ (call'[p].msg = call[p].msg \/ call[p].msg = Nil)
         /\ (call'[p] # NoCall => call'[p].op = call[p].op /\ call'[p].group = call[p].group)
         /\ \A q \in Process \ {p} : call'[q] = call[q] /\ pc'[q] = pc[q]
<1>0. CallInv /\ pc[p] = "open" /\ call[p] \in CallRecord /\ Fits("open", call[p])
  BY DEF TypeInv, CallInv, AttachOpen
<1> DEFINE node == [name |-> call[p].cur, group |-> call[p].group, buf |-> call[p].copy]
<1>1. node \in Node
  <2>1. call[p].cur \in Process /\ call[p].group \in Group /\ call[p].copy \in Buffer
    BY <1>0, CallFields DEF Fits
  <2> QED BY <2>1 DEF Node
<1>2. sendList' = [sendList EXCEPT ![p] = Append(@, node)]
  BY DEF AttachOpen
<1> HIDE DEF node
<1>3. sendList' \in [Process -> Seq(Node)]
  <2>1. Append(sendList[p], node) \in Seq(Node)
    BY <1>1 DEF TypeInv, RestOK
  <2> QED BY <1>2, <2>1 DEF TypeInv, RestOK
<1>4. PipesOK' /\ RestOK' /\ TableOK'
  BY <1>3, PipesFrame DEF TypeInv, RestOK, TableOK, AttachOpen
<1>5. CASE IsAttach(p)
  <2>1. Return(p)
    BY <1>5 DEF AttachOpen
  <2>2. CallInv' /\ call'[p] = NoCall /\ \A q \in Process \ {p} : call'[q] = call[q] /\ pc'[q] = pc[q]
    BY <1>0, <2>1, ReturnStep
  <2>3. NoCall.copy = Nil /\ call[p].msg = Nil
    BY <1>0, <1>5 DEF NoCall, Fits, IsAttach
  <2> QED BY <1>1, <1>4, <2>2, <2>3 DEF TypeInv, node
<1>6. CASE ~ IsAttach(p)
  <2>1. GoTo(p, "next") /\ call' = [call EXCEPT ![p].copy = Nil]
    BY <1>6 DEF AttachOpen
  <2>2. /\ CallInv' /\ call'[p].copy = Nil /\ call'[p].msg = call[p].msg
        /\ call'[p].op = call[p].op /\ call'[p].group = call[p].group
        /\ \A q \in Process \ {p} : call'[q] = call[q] /\ pc'[q] = pc[q]
    BY <1>0, <1>6, <2>1, DropStep
  <2> QED BY <1>1, <1>4, <2>2 DEF TypeInv, node
<1> QED BY <1>5, <1>6

(* No buffer or no FIFO. *)
LEMMA AttachNoType ==
  ASSUME TypeInv, Unique, NEW p \in Process, AttachNoBuffer(p) \/ AttachOpenFails(p)
  PROVE  TypeInv'
<1>1. call[p].copy \in Buffer \cup {Nil}
  BY CallFields DEF TypeInv, CallInv
<1> QED BY <1>1, AttachFailsType DEF AttachNoBuffer, AttachOpenFails

(* A node leaves the send list. *)
LEMMA RemoveNodeType ==
  ASSUME TypeInv, NEW p \in Process, NEW n, NEW g, RemoveNode(p, n, g), UNCHANGED <<reflect, held, up, groups, must>>
  PROVE  RestOK' /\ PipesOK'
<1>1. CASE UNCHANGED <<sendList, free, fifo>>
  BY <1>1, PipesFrame DEF TypeInv, RestOK
<1>2. CASE \E k \in NodesOf(p, n, g) :
       /\ sendList' = [sendList EXCEPT ![p] = AtPositions(@, DOMAIN @ \ {k})]
       /\ free' = free \cup {sendList[p][k].buf}
       /\ fifo' = Keep(fifo, up, sendList')
  <2>1. PICK k \in NodesOf(p, n, g) :
       /\ sendList' = [sendList EXCEPT ![p] = AtPositions(@, DOMAIN @ \ {k})]
       /\ free' = free \cup {sendList[p][k].buf}
       /\ fifo' = Keep(fifo, up, sendList')
    BY <1>2
  <2>2. sendList[p] \in Seq(Node) /\ k \in 1 .. Len(sendList[p]) /\ DOMAIN sendList[p] = 1 .. Len(sendList[p])
    BY DEF TypeInv, RestOK, NodesOf
  <2>3. sendList[p][k].buf \in Buffer
    <3>1. sendList[p][k] \in Node
      BY <2>2
    <3> QED BY <3>1 DEF Node
  <2>4. AtPositions(sendList[p], DOMAIN sendList[p] \ {k}) \in Seq(Node)
    <3>1. DOMAIN sendList[p] \ {k} \in SUBSET (1 .. Len(sendList[p]))
      BY <2>2
    <3> QED BY <2>2, <3>1, Selected
  <2>5. sendList' \in [Process -> Seq(Node)] /\ free' \in SUBSET Buffer
    BY <2>1, <2>3, <2>4 DEF TypeInv, RestOK
  <2>6. PipesOK'
    BY <2>1, KeepType DEF TypeInv
  <2> QED BY <2>5, <2>6 DEF TypeInv, RestOK
<1> QED BY <1>1, <1>2 DEF RemoveNode

(* The program detaches, ... *)
LEMMA DettachType ==
  ASSUME TypeInv, NEW p \in Process, NEW n, NEW g, radQueueDettach(p, n, g)
  PROVE  TypeInv'
<1>1. RestOK' /\ PipesOK'
  BY RemoveNodeType DEF radQueueDettach
<1> QED BY <1>1, CallFrame DEF TypeInv, TableOK, radQueueDettach

(* ... or a walk that quits. *)
LEMMA QuitDetachType ==
  ASSUME TypeInv, NEW p \in Process, QuitDetach(p)
  PROVE  TypeInv'
<1>1. RestOK' /\ PipesOK'
  BY RemoveNodeType DEF QuitDetach
<1>2. CallInv'
  <2>1. Fits("next", call[p])
    BY DEF TypeInv, CallInv, Fits, QuitDetach
  <2> QED BY <2>1, GoToStep DEF TypeInv, QuitDetach, Point
<1> QED BY <1>1, <1>2 DEF TypeInv, TableOK, QuitDetach

-----------------------------------------------------------------------------
(* Messages.  A program sends one, ... *)
LEMMA SendType ==
  ASSUME TypeInv, NEW p \in Process, NEW q \in Process, NEW b \in Buffer \cup {Nil}, radQueueSend(p, q, b)
  PROVE  TypeInv'
<1>1. PipesOK' /\ CallInv'
  BY DeliverType, CallFrame DEF TypeInv, radQueueSend
<1>2. held' \in [Process -> SUBSET Buffer]
  BY DEF TypeInv, RestOK, radQueueSend
<1> QED BY <1>1, <1>2 DEF TypeInv, TableOK, RestOK, radQueueSend

(* ... to itself, ... *)
LEMMA DummyType ==
  ASSUME TypeInv, NEW p \in Process, dummyChild(p)
  PROVE  TypeInv'
<1>1. PICK n \in 1 .. Len(reflect[p]) :
        /\ Len(fifo[p]) + n <= PipeCap
        /\ fifo' = [fifo EXCEPT ![p] = @ \o SubSeq(reflect[p], 1, n)]
        /\ reflect' = [reflect EXCEPT ![p] = SubSeq(@, n + 1, Len(@))]
  BY DEF dummyChild
<1>2. /\ reflect[p] \in Seq(Block) /\ Len(reflect[p]) <= PipeCap /\ n \in 0 .. Len(reflect[p])
      /\ fifo[p] \in Seq(Block)
  BY DEF TypeInv, PipesOK
<1>3. /\ SubSeq(reflect[p], 1, n) \in Seq(Block) /\ Len(SubSeq(reflect[p], 1, n)) = n
      /\ SubSeq(reflect[p], n + 1, Len(reflect[p])) \in Seq(Block)
      /\ Len(SubSeq(reflect[p], n + 1, Len(reflect[p]))) <= PipeCap
  BY <1>2, TakeType
<1>4. /\ fifo[p] \o SubSeq(reflect[p], 1, n) \in Seq(Block)
      /\ Len(fifo[p] \o SubSeq(reflect[p], 1, n)) <= PipeCap
  BY <1>1, <1>2, <1>3, PutType
<1>5. /\ fifo' \in [Process -> Seq(Block)]
      /\ \A q \in Process : Len(fifo'[q]) <= PipeCap
  BY <1>1, <1>4, PipeSet DEF TypeInv, PipesOK
<1>6. /\ reflect' \in [Process -> Seq(Block)]
      /\ \A q \in Process : Len(reflect'[q]) <= PipeCap
  BY <1>1, <1>3, PipeSet DEF TypeInv, PipesOK
<1>7. RestOK' /\ TableOK' /\ CallInv'
  BY CallFrame DEF TypeInv, RestOK, TableOK, dummyChild
<1> QED BY <1>5, <1>6, <1>7 DEF TypeInv, PipesOK

(* ... or receives one. *)
LEMMA RecvType ==
  ASSUME TypeInv, NEW p \in Process, radQueueRecv(p)
  PROVE  TypeInv'
<1>1. /\ fifo[p] \in Seq(Block) /\ Len(fifo[p]) <= PipeCap /\ HeaderBlocks \in 0 .. Len(fifo[p])
      /\ HeaderBlocks \in 1 .. Len(fifo[p])
  BY DEF TypeInv, PipesOK, radQueueRecv
<1>2. /\ SubSeq(fifo[p], HeaderBlocks + 1, Len(fifo[p])) \in Seq(Block)
      /\ Len(SubSeq(fifo[p], HeaderBlocks + 1, Len(fifo[p]))) <= PipeCap
  BY <1>1, TakeType
<1>3. PipesOK'
  BY <1>2, PipeSet DEF TypeInv, PipesOK, radQueueRecv
<1>4. BufferOf(fifo[p][HeaderBlocks].buf) \in SUBSET Buffer
  <2>1. fifo[p][HeaderBlocks] \in Block
    BY <1>1
  <2> QED BY <2>1, BufferOfType DEF Block
<1>5. held' \in [Process -> SUBSET Buffer]
  BY <1>4 DEF TypeInv, RestOK, radQueueRecv
<1>6. RestOK' /\ TableOK' /\ CallInv'
  BY <1>5, CallFrame DEF TypeInv, RestOK, TableOK, radQueueRecv
<1> QED BY <1>3, <1>6 DEF TypeInv

(* A group message is copied, ... *)
LEMMA GroupCopyType ==
  ASSUME TypeInv, NEW p \in Process, GroupCopy(p)
  PROVE  TypeInv'
<1>0. CallInv /\ pc[p] = "copy" /\ GoTo(p, "write") /\ Fits("copy", call[p]) /\ call[p] \in CallRecord
  BY DEF TypeInv, CallInv, GroupCopy
<1>1. CASE UNCHANGED <<free, call>>
  <2>1. Fits("write", call[p])
    BY <1>0 DEF Fits
  <2>2. CallInv'
    BY <1>0, <1>1, <2>1, GoToStep DEF Point
  <2>3. PipesOK' /\ RestOK' /\ TableOK'
    BY <1>1, PipesFrame DEF TypeInv, RestOK, TableOK, GroupCopy
  <2> QED BY <2>2, <2>3 DEF TypeInv
<1>2. CASE \E b \in Buffer : TakeBuffer(b) /\ call' = [call EXCEPT ![p].copy = b]
  <2>1. PICK b \in Buffer : TakeBuffer(b) /\ call' = [call EXCEPT ![p].copy = b]
    BY <1>2
  <2>2. CallInv'
    <3>1. b \in Buffer \cup {Nil} /\ "write" \in {"open", "write"}
      OBVIOUS
    <3> QED BY <1>0, <2>1, <3>1, CopyStep
  <2>3. free' \in SUBSET Buffer
    BY <2>1 DEF TakeBuffer, TypeInv, RestOK
  <2>4. PipesOK' /\ RestOK' /\ TableOK'
    BY <2>3, PipesFrame DEF TypeInv, RestOK, TableOK, GroupCopy
  <2> QED BY <2>2, <2>4 DEF TypeInv
<1> QED BY <1>1, <1>2 DEF GroupCopy

(* ... for which there is no buffer, ... *)
LEMMA GroupNoBufferType ==
  ASSUME TypeInv, NEW p \in Process, GroupNoBuffer(p)
  PROVE  TypeInv'
<1>1. CallInv' /\ call[p] \in CallRecord
  BY ReturnStep DEF TypeInv, CallInv, GroupNoBuffer
<1>2. free' \in SUBSET Buffer
  BY <1>1, CallFields, BufferOfType DEF GroupNoBuffer
<1>3. must' \in [Process -> SUBSET Process]
  BY DEF TypeInv, RestOK, GroupNoBuffer
<1>4. PipesOK' /\ RestOK' /\ TableOK'
  BY <1>2, <1>3, PipesFrame DEF TypeInv, RestOK, TableOK, GroupNoBuffer
<1> QED BY <1>1, <1>4 DEF TypeInv

(* ... or the copy is written. *)
LEMMA GroupWriteType ==
  ASSUME TypeInv, NEW p \in Process, GroupWrite(p)
  PROVE  TypeInv'
<1>0. CallInv /\ pc[p] = "write" /\ Fits("write", call[p]) /\ call[p] \in CallRecord
  BY DEF TypeInv, CallInv, GroupWrite
<1>1. CallInv'
  <2>1. ~ IsAttach(p) /\ GoTo(p, "next") /\ call' = [call EXCEPT ![p].copy = Nil]
    BY <1>0 DEF Fits, IsAttach, GroupWrite
  <2> QED BY <1>0, <2>1, DropStep
<1>2. call[p].copy \in Buffer \cup {Nil} /\ call[p].cur \in Process
  BY <1>0, CallFields DEF Fits
<1>3. BufferOf(call[p].copy) \in SUBSET Buffer
  BY <1>2, BufferOfType
<1>4. PipesOK'
  <2>1. CASE UNCHANGED <<fifo, reflect>>
    BY <2>1, PipesFrame DEF TypeInv
  <2>2. CASE Deliver(p, call[p].cur, call[p].copy)
    BY <1>2, <2>2, DeliverType DEF TypeInv
  <2> QED BY <2>1, <2>2 DEF GroupWrite
<1>5. free' \in SUBSET Buffer
  BY <1>3 DEF TypeInv, RestOK, GroupWrite
<1>6. must' \in [Process -> SUBSET Process]
  <2>1. CASE UNCHANGED must
    BY <2>1 DEF TypeInv, RestOK
  <2>2. CASE must' = [must EXCEPT ![p] = @ \ {call[p].cur}]
    BY <2>2 DEF TypeInv, RestOK
  <2> QED BY <2>1, <2>2 DEF GroupWrite
<1>7. RestOK' /\ TableOK'
  BY <1>5, <1>6 DEF TypeInv, RestOK, TableOK, GroupWrite
<1> QED BY <1>1, <1>4, <1>7 DEF TypeInv

(* A walk goes on without a copy, past a queue it has missed. *)
LEMMA MissStep ==
  ASSUME TypeInv, NEW p \in Process, GroupWriteInterrupted(p)
  PROVE  /\ CallInv' /\ call'[p].copy = Nil /\ call'[p].msg = call[p].msg
         /\ call'[p].op = call[p].op /\ call'[p].group = call[p].group
         /\ call'[p].index = call[p].index /\ call'[p].cur = call[p].cur
         /\ call'[p].missed = call[p].missed \cup {call[p].cur}
         /\ pc'[p] = "next" /\ call[p].op = "send"
         /\ \A q \in Process \ {p} : call'[q] = call[q] /\ pc'[q] = pc[q]
<1> DEFINE c == [call[p] EXCEPT !.copy = Nil, !.missed = @ \cup {call[p].cur}]
<1>1. CallInv /\ call[p] \in CallRecord /\ pc[p] = "write" /\ Fits("write", call[p])
  BY DEF TypeInv, CallInv, GroupWriteInterrupted
<1>2. call[p].op = "send" /\ call[p].cur \in Process
  BY <1>1 DEF Fits
<1>3. /\ c \in CallRecord /\ c.copy = Nil /\ c.msg = call[p].msg /\ c.op = call[p].op
      /\ c.group = call[p].group /\ c.cur = call[p].cur /\ c.index = call[p].index
      /\ c.missed = call[p].missed \cup {call[p].cur}
  BY <1>1, <1>2 DEF CallRecord
<1>4. call' = [call EXCEPT ![p] = c]
  BY DEF GroupWriteInterrupted
<1> HIDE DEF c
<1>5. Fits("next", c)
  BY <1>1, <1>2, <1>3 DEF Fits
<1>6. "next" \in Point /\ pc' = [pc EXCEPT ![p] = "next"]
  BY DEF Point, GoTo, GroupWriteInterrupted
<1>7. CallInv' /\ call'[p] = c /\ pc'[p] = "next"
      /\ \A q \in Process \ {p} : call'[q] = call[q] /\ pc'[q] = pc[q]
  BY <1>1, <1>3, <1>4, <1>5, <1>6, CallStep
<1> QED BY <1>2, <1>3, <1>7

LEMMA GroupWriteInterruptedType ==
  ASSUME TypeInv, NEW p \in Process, GroupWriteInterrupted(p)
  PROVE  TypeInv'
<1>1. CallInv' /\ call[p] \in CallRecord
  BY MissStep DEF TypeInv, CallInv
<1>2. free' \in SUBSET Buffer
  BY <1>1, CallFields, BufferOfType DEF TypeInv, RestOK, GroupWriteInterrupted
<1>3. PipesOK' /\ RestOK' /\ TableOK'
  BY <1>2, PipesFrame DEF TypeInv, RestOK, TableOK, GroupWriteInterrupted
<1> QED BY <1>1, <1>3 DEF TypeInv

(* A program takes a buffer or gives it back. *)
LEMMA BuffersType ==
  ASSUME TypeInv, NEW p \in Process, radBufferGet(p) \/ \E b \in held[p] : radBufferRls(p, b)
  PROVE  TypeInv'
<1>1. held' \in [Process -> SUBSET Buffer] /\ free' \in SUBSET Buffer
  <2>1. CASE radBufferGet(p)
    BY <2>1 DEF TypeInv, RestOK, radBufferGet, TakeBuffer
  <2>2. CASE \E b \in held[p] : radBufferRls(p, b)
    BY <2>2 DEF TypeInv, RestOK, radBufferRls
  <2> QED BY <2>1, <2>2
<1>2. PipesOK' /\ TableOK' /\ CallInv'
  BY PipesFrame, CallFrame DEF TypeInv, TableOK, radBufferGet, radBufferRls
<1>3. RestOK'
  BY <1>1 DEF TypeInv, RestOK, radBufferGet, radBufferRls
<1> QED BY <1>2, <1>3 DEF TypeInv

-----------------------------------------------------------------------------
(* What is known of the records: one at most for a queue and a group, and  *)
(* one for each group the queue was told it is in or joins.                *)
Joining(p) == call[p].op = "join" => IsListed(p, call[p].group)

Registered ==
  /\ Unique
  /\ \A p \in Process : \A g \in groups[p] : IsListed(p, g)
  /\ \A p \in Process : Joining(p)

Inv == TypeInv /\ Registered

(* The steps of process p; the first four change its records. *)
Records(p) ==
  \/ radQueueInit(p) \/ radQueueExit(p)
  \/ \E g \in Group : radQueueJoinGroup(p, g)
  \/ QuitEnd(p)

(* These change the queues a process has open, ... *)
Peers(p) ==
  \/ \E n \in Process, g \in Group : radQueueAttach(p, n, g) \/ radQueueDettach(p, n, g)
  \/ AttachKnown(p) \/ AttachNode(p) \/ AttachOpen(p) \/ QuitDetach(p)

(* ... these the message it sends, ... *)
Traffic(p) ==
  \/ \E q \in Process, b \in Payload(p) : radQueueSend(p, q, b)
  \/ \E g \in Group, b \in Payload(p) : radQueueSendGroup(p, g, b)
  \/ dummyChild(p) \/ radQueueRecv(p)
  \/ GroupCopy(p) \/ GroupNoBuffer(p) \/ GroupWrite(p) \/ GroupWriteInterrupted(p) \/ SendEnd(p)

(* ... and these the rest. *)
Others(p) ==
  \/ Crash(p) \/ AttachNoBuffer(p) \/ AttachOpenFails(p)
  \/ radBufferGet(p) \/ \E b \in held[p] : radBufferRls(p, b)
  \/ \E g \in Group : radQueueQuitGroup(p, g)
  \/ NextName(p) \/ JoinEnd(p) \/ UpdateEnd(p)

(* A message has a buffer of the program, or none. *)
LEMMA PayloadType ==
  ASSUME TypeInv, NEW p \in Process
  PROVE  /\ Payload(p) \subseteq Buffer \cup {Nil}
         /\ \A b \in Payload(p) : BufferOf(b) \subseteq held[p]
BY DEF Payload, TypeInv, RestOK, BufferOf

(* Every step is one of them. *)
LEMMA Steps ==
  ASSUME TypeInv, Next
  PROVE  \E p \in Process : Records(p) \/ Peers(p) \/ Traffic(p) \/ Others(p)
<1>1. PICK p \in Process : Life(p) \/ GroupCall(p) \/ PeerCall(p) \/ Walk(p) \/ dummyChild(p)
  BY DEF Next
<1>2. Joinable \subseteq Group /\ All \in Group
  OBVIOUS
<1>3. CASE Life(p)
  BY <1>3 DEF Life, Records, Others
<1>4. CASE GroupCall(p)
  BY <1>2, <1>4 DEF GroupCall, Records, Traffic, Others
<1>5. CASE PeerCall(p)
  BY <1>2, <1>5 DEF PeerCall, Peers, Traffic, Others
<1>6. CASE Walk(p)
  BY <1>6 DEF Walk, Records, Peers, Traffic, Others
<1>7. CASE dummyChild(p)
  BY <1>7 DEF Traffic
<1> QED BY <1>1, <1>3, <1>4, <1>5, <1>6, <1>7

(* Every step keeps the types. *)
LEMMA TypeStep ==
  ASSUME TypeInv, Unique, Next
  PROVE  TypeInv'
<1>1. PICK p \in Process : Records(p) \/ Peers(p) \/ Traffic(p) \/ Others(p)
  BY Steps
<1>2. CASE Records(p)
  BY <1>2, InitType, ExitType, JoinType, QuitEndType DEF Records
<1>3. CASE Peers(p)
  BY <1>3, AttachType, DettachType, AttachKnownType, AttachNodeType, AttachOpenType, QuitDetachType
  DEF Peers
<1>4. CASE Traffic(p)
  BY <1>4, PayloadType, SendType, SendGroupType, DummyType, RecvType, GroupCopyType, GroupNoBufferType,
     GroupWriteType, GroupWriteInterruptedType, SendEndType DEF Traffic
<1>5. CASE Others(p)
  BY <1>5, CrashType, AttachNoType, BuffersType, QuitType, NextNameType, JoinEndType, UpdateEndType
  DEF Others
<1> QED BY <1>1, <1>2, <1>3, <1>4, <1>5

-----------------------------------------------------------------------------
(* The records of the other queues stay; what process p was told is true.  *)
LEMMA RegisteredStep ==
  ASSUME TypeInv, Registered, NEW p \in Process, Unique',
         \A q \in Process \ {p} : /\ \A h \in Group : IsListed(q, h) => IsListed(q, h)'
                                  /\ groups'[q] \subseteq groups[q] /\ call'[q] = call[q],
         \A g \in groups'[p] : IsListed(p, g)',
         Joining(p)'
  PROVE  Registered'
<1>1. ASSUME NEW q \in Process, NEW g \in groups'[q] PROVE IsListed(q, g)'
  <2>1. CASE q = p
    BY <2>1, <1>1
  <2>2. CASE q # p
    <3>1. g \in groups[q] /\ g \in Group
      BY <1>1, <2>2 DEF TypeInv, RestOK
    <3>2. IsListed(q, g)
      BY <3>1 DEF Registered
    <3> QED BY <2>2, <3>1, <3>2
  <2> QED BY <2>1, <2>2
<1>2. ASSUME NEW q \in Process PROVE Joining(q)'
  <2>1. CASE q = p
    BY <2>1, <1>2
  <2>2. CASE q # p
    <3>1. call'[q] = call[q] /\ call[q] \in CallRecord
      BY <2>2 DEF TypeInv, CallInv
    <3> DEFINE g == call[q].group
    <3>2. g \in Group /\ (call[q].op = "join" => IsListed(q, g))
      BY <3>1, CallFields DEF Registered, Joining
    <3>3. IsListed(q, g) => \E k \in DOMAIN table' : table'[k].name = q /\ table'[k].group = g
      BY <2>2, <3>2 DEF IsListed
    <3>4. call'[q].op = call[q].op /\ call'[q].group = g
      BY <3>1
    <3> HIDE DEF g
    <3> QED BY <3>2, <3>3, <3>4 DEF IsListed, Joining
  <2> QED BY <2>1, <2>2
<1> QED BY <1>1, <1>2 DEF Registered

(* The table stays. *)
LEMMA QuietStep ==
  ASSUME TypeInv, Registered, NEW p \in Process, UNCHANGED <<table, groups>>,
         \A q \in Process \ {p} : call'[q] = call[q],
         call'[p].op = "join" => call[p].op = "join" /\ call'[p].group = call[p].group
  PROVE  Registered'
<1>1. Unique' /\ \A q \in Process, h \in Group : IsListed(q, h) => IsListed(q, h)'
  BY DEF Registered, Unique, IsListed
<1>2. \A g \in groups'[p] : IsListed(p, g)'
  BY DEF Registered, IsListed
<1>3. Joining(p)'
  BY DEF Registered, Joining, IsListed
<1> QED BY <1>1, <1>2, <1>3, RegisteredStep

(* The steps that change the records of a queue. *)
LEMMA RecordsRegistered ==
  ASSUME TypeInv, Registered, NEW p \in Process, Records(p)
  PROVE  Registered'
<1>0. TableOK /\ Unique /\ CallInv /\ p \in Process
  BY DEF TypeInv, Registered
<1>1. ASSUME radQueueInit(p) PROVE Registered'
  <2>1. /\ Unique' /\ IsListed(p, All)'
        /\ \A m \in Process, h \in Group : IsListed(m, h) => IsListed(m, h)'
    BY <1>0, <1>1, Added DEF radQueueInit
  <2>2. groups' = [groups EXCEPT ![p] = {All}] /\ call' = call
    BY <1>1 DEF radQueueInit
  <2>3. call[p] = NoCall
    BY <1>1 DEF TypeInv, CallInv, Fits, radQueueInit
  <2>4. call'[p].op # "join"
    BY <2>2, <2>3 DEF NoCall
  <2>5. \A g \in groups'[p] : IsListed(p, g)'
    BY <2>1, <2>2 DEF TypeInv, RestOK
  <2>6. \A q \in Process \ {p} : groups'[q] \subseteq groups[q] /\ call'[q] = call[q]
    BY <2>2 DEF TypeInv, RestOK
  <2> QED BY <2>1, <2>4, <2>5, <2>6, RegisteredStep DEF Joining
<1>2. ASSUME radQueueExit(p) PROVE Registered'
  <2>1. /\ Unique'
        /\ \A m \in Process, h \in Group : IsListed(m, h) /\ m # p => IsListed(m, h)'
    BY <1>0, <1>2, DeletedLemma DEF radQueueExit
  <2>2. groups' = [groups EXCEPT ![p] = {}] /\ call' = [call EXCEPT ![p] = NoCall]
    BY <1>2 DEF radQueueExit, Gone
  <2>3. call'[p].op # "join" /\ groups'[p] = {}
    BY <2>2 DEF NoCall, TypeInv, RestOK, CallInv
  <2>4. \A q \in Process \ {p} : groups'[q] \subseteq groups[q] /\ call'[q] = call[q]
    BY <2>2 DEF TypeInv, RestOK, CallInv
  <2> QED BY <2>1, <2>3, <2>4, RegisteredStep DEF Joining
<1>3. ASSUME NEW g \in Group, radQueueJoinGroup(p, g) PROVE Registered'
  <2>1. /\ Unique' /\ IsListed(p, g)'
        /\ \A m \in Process, h \in Group : IsListed(m, h) => IsListed(m, h)'
    BY <1>0, <1>3, Added DEF radQueueJoinGroup
  <2>2. call'[p].group = g /\ \A q \in Process \ {p} : call'[q] = call[q]
    BY <1>0, <1>3, BeginStep DEF radQueueJoinGroup
  <2>3. Joining(p)'
    BY <2>1, <2>2 DEF IsListed, Joining
  <2>4. \A h \in groups'[p] : IsListed(p, h)'
    <3>1. \A h \in groups[p] : h \in Group /\ IsListed(p, h)
      BY DEF TypeInv, RestOK, Registered
    <3> QED BY <1>3, <2>1, <3>1 DEF radQueueJoinGroup
  <2>5. \A q \in Process \ {p} : groups'[q] \subseteq groups[q]
    BY <1>3 DEF radQueueJoinGroup
  <2> QED BY <2>1, <2>2, <2>3, <2>4, <2>5, RegisteredStep DEF Joining
<1>4. ASSUME QuitEnd(p) PROVE Registered'
  <2> DEFINE g == call[p].group
  <2>1. g \in Group /\ qdbDeleteQueue(p, g)
    BY <1>0, <1>4, CallFields DEF CallInv, QuitEnd
  <2>2. groups' = [groups EXCEPT ![p] = IF g = All THEN {} ELSE @ \ {g}]
    BY <1>4 DEF QuitEnd
  <2>3. call'[p] = NoCall /\ \A q \in Process \ {p} : call'[q] = call[q]
    BY <1>0, <1>4, ReturnStep DEF QuitEnd
  <2> HIDE DEF g
  <2>4. /\ Unique'
        /\ \A m \in Process, h \in Group : IsListed(m, h) /\ (m # p \/ (g # All /\ h # g)) => IsListed(m, h)'
    BY <1>0, <2>1, DeletedLemma
  <2>5. call'[p].op # "join"
    BY <2>3 DEF NoCall
  <2>6. \A h \in groups'[p] : g # All /\ h # g /\ h \in groups[p]
    BY <2>2 DEF TypeInv, RestOK
  <2>7. \A h \in groups[p] : h \in Group /\ IsListed(p, h)
    BY DEF TypeInv, RestOK, Registered
  <2>8. \A h \in groups'[p] : IsListed(p, h)'
    BY <2>4, <2>6, <2>7
  <2>9. \A q \in Process \ {p} : groups'[q] \subseteq groups[q]
    BY <2>2 DEF TypeInv, RestOK
  <2> QED BY <2>3, <2>4, <2>5, <2>8, <2>9, RegisteredStep DEF Joining
<1> QED BY <1>1, <1>2, <1>3, <1>4 DEF Records

(* A join that fails takes the record back. *)
LEMMA FailsRegistered ==
  ASSUME TypeInv, Registered, NEW p \in Process, NEW b, AttachFails(p, b)
  PROVE  Registered'
<1>0. call'[p] = NoCall /\ \A q \in Process \ {p} : call'[q] = call[q]
  BY ReturnStep DEF TypeInv, AttachFails
<1>1. call'[p].op # "join"
  BY <1>0 DEF NoCall
<1>2. CASE call[p].op = "join"
  <2> DEFINE g == call[p].group
  <2>1. g \in Group /\ qdbDeleteQueue(p, g)
    BY <1>2, CallFields DEF TypeInv, CallInv, AttachFails
  <2>2. groups' = [groups EXCEPT ![p] = IF g = All THEN {} ELSE @ \ {g}]
    BY <1>2 DEF AttachFails
  <2> HIDE DEF g
  <2>4. /\ Unique'
        /\ \A m \in Process, h \in Group : IsListed(m, h) /\ (m # p \/ (g # All /\ h # g)) => IsListed(m, h)'
    BY <2>1, DeletedLemma DEF TypeInv, Registered
  <2>6. \A h \in groups'[p] : g # All /\ h # g /\ h \in groups[p]
    BY <2>2 DEF TypeInv, RestOK
  <2>7. \A h \in groups[p] : h \in Group /\ IsListed(p, h)
    BY DEF TypeInv, RestOK, Registered
  <2>8. \A h \in groups'[p] : IsListed(p, h)'
    BY <2>4, <2>6, <2>7
  <2>9. \A q \in Process \ {p} : groups'[q] \subseteq groups[q]
    BY <2>2 DEF TypeInv, RestOK
  <2> QED BY <1>0, <1>1, <2>4, <2>8, <2>9, RegisteredStep DEF Joining
<1>3. CASE call[p].op # "join"
  <2>1. UNCHANGED <<table, groups>>
    BY <1>3 DEF AttachFails
  <2> QED BY <1>0, <1>1, <2>1, QuietStep
<1> QED BY <1>2, <1>3

(* The steps that change the queues a process has open. *)
LEMMA PeersRegistered ==
  ASSUME TypeInv, Registered, NEW p \in Process, Peers(p)
  PROVE  Registered'
<1>0. CallInv /\ UNCHANGED <<table, groups>>
  BY DEF TypeInv, Peers, radQueueAttach, radQueueDettach, AttachKnown, AttachNode, AttachOpen, QuitDetach
<1> SUFFICES /\ \A q \in Process \ {p} : call'[q] = call[q]
             /\ call'[p].op = "join" => call[p].op = "join" /\ call'[p].group = call[p].group
  BY <1>0, QuietStep
<1>1. NoCall.op # "join"
  BY DEF NoCall
<1>2. ASSUME NEW n \in Process, NEW g \in Group, radQueueAttach(p, n, g)
      PROVE  /\ \A q \in Process \ {p} : call'[q] = call[q]
             /\ call'[p].op # "join"
  <2>1. call' = [call EXCEPT ![p] = [NoCall EXCEPT !.op = "attach", !.group = g, !.cur = n]]
    BY <1>2 DEF radQueueAttach
  <2> QED BY <1>0, <2>1 DEF CallInv, NoCall
<1>3. CASE UNCHANGED call
  BY <1>3
<1>4. ASSUME AttachKnown(p)
      PROVE  call'[p] \in {call[p], NoCall} /\ \A q \in Process \ {p} : call'[q] = call[q]
  BY <1>4, AttachKnownType
<1>5. ASSUME AttachNode(p)
      PROVE  /\ \A q \in Process \ {p} : call'[q] = call[q]
             /\ call'[p].op = call[p].op /\ call'[p].group = call[p].group
  <2>1. PICK b \in Buffer : call' = [call EXCEPT ![p].copy = b]
    BY <1>5 DEF AttachNode
  <2>2. b # Nil /\ b \in Buffer \cup {Nil} /\ "open" \in {"open", "write"}
        /\ GoTo(p, "open") /\ pc[p] = "attach"
    BY <1>5 DEF AttachNode
  <2> QED BY <1>0, <2>1, <2>2, CopyStep
<1>6. ASSUME AttachOpen(p)
      PROVE  /\ \A q \in Process \ {p} : call'[q] = call[q]
             /\ call'[p] # NoCall => call'[p].op = call[p].op /\ call'[p].group = call[p].group
  BY <1>6, AttachOpenType
<1> QED BY <1>1, <1>2, <1>3, <1>4, <1>5, <1>6 DEF Peers, radQueueDettach, QuitDetach

(* The steps that change the messages. *)
LEMMA TrafficRegistered ==
  ASSUME TypeInv, Registered, NEW p \in Process, Traffic(p)
  PROVE  Registered'
<1>0. CallInv /\ NoCall.op # "join"
  BY DEF TypeInv, NoCall
<1>1. CASE UNCHANGED <<table, groups, call>>
  BY <1>1, QuietStep
<1>2. ASSUME NEW g \in Group, NEW b \in Buffer \cup {Nil}, radQueueSendGroup(p, g, b) PROVE Registered'
  <2> DEFINE op == IF UpdateFlag(p, g) THEN "update" ELSE "send"
  <2>1. op \in {"join", "quit", "update", "send"} /\ op \in {"update", "send"}
    OBVIOUS
  <2>2. Begin(p, op, g, b) /\ GoTo(p, "next")
    BY <1>2 DEF radQueueSendGroup
  <2>3. call'[p].op \in {"update", "send"} /\ \A q \in Process \ {p} : call'[q] = call[q]
    <3> HIDE DEF op
    <3>1. call'[p].op = op /\ \A q \in Process \ {p} : call'[q] = call[q]
      BY <1>0, <2>1, <2>2, BeginStep
    <3> QED BY <2>1, <3>1
  <2>4. /\ Unique' /\ \A m \in Process, h \in Group : IsListed(m, h) => IsListed(m, h)'
    BY <1>2, FlagReset DEF TypeInv, Registered, radQueueSendGroup
  <2>5. \A h \in groups'[p] : IsListed(p, h)'
    <3>1. \A h \in groups[p] : h \in Group /\ IsListed(p, h)
      BY DEF TypeInv, RestOK, Registered
    <3> QED BY <1>2, <2>4, <3>1 DEF radQueueSendGroup
  <2>6. \A q \in Process \ {p} : groups'[q] \subseteq groups[q]
    BY <1>2 DEF radQueueSendGroup
  <2> QED BY <2>3, <2>4, <2>5, <2>6, RegisteredStep DEF Joining
<1>3. ASSUME GroupCopy(p) \/ GroupWrite(p)
      PROVE  /\ \A q \in Process \ {p} : call'[q] = call[q]
             /\ call'[p].op = call[p].op /\ call'[p].group = call[p].group
  <2>1. CASE UNCHANGED call
    BY <2>1
  <2>2. CASE \E b \in Buffer \cup {Nil} : call' = [call EXCEPT ![p].copy = b]
    <3>1. PICK b \in Buffer \cup {Nil} : call' = [call EXCEPT ![p].copy = b]
      BY <2>2
    <3>2. call[p] \in CallRecord
      BY <1>0 DEF CallInv
    <3>3. [call[p] EXCEPT !.copy = b].op = call[p].op /\ [call[p] EXCEPT !.copy = b].group = call[p].group
      BY <3>2 DEF CallRecord
    <3>4. call'[p] = [call[p] EXCEPT !.copy = b] /\ \A q \in Process \ {p} : call'[q] = call[q]
      BY <1>0, <3>1 DEF CallInv
    <3> QED BY <3>3, <3>4
  <2> QED BY <1>3, <2>1, <2>2 DEF GroupCopy, GroupWrite
<1>4. ASSUME GroupNoBuffer(p) \/ SendEnd(p)
      PROVE  call'[p] = NoCall /\ \A q \in Process \ {p} : call'[q] = call[q]
  BY <1>0, <1>4, ReturnStep DEF GroupNoBuffer, SendEnd
<1>5. CASE GroupCopy(p) \/ GroupWrite(p)
  <2>1. UNCHANGED <<table, groups>>
    BY <1>5 DEF GroupCopy, GroupWrite
  <2> QED BY <1>3, <1>5, <2>1, QuietStep
<1>6. CASE GroupNoBuffer(p) \/ SendEnd(p)
  <2>1. UNCHANGED <<table, groups>>
    BY <1>6 DEF GroupNoBuffer, SendEnd
  <2> QED BY <1>0, <1>4, <1>6, <2>1, QuietStep
<1>7. CASE GroupWriteInterrupted(p)
  <2>1. UNCHANGED <<table, groups>>
    BY <1>7 DEF GroupWriteInterrupted
  <2> QED BY <1>7, <2>1, MissStep, QuietStep
<1> QED BY <1>1, <1>2, <1>5, <1>6, <1>7, PayloadType DEF Traffic, radQueueSend, dummyChild, radQueueRecv

(* The other steps. *)
LEMMA OthersRegistered ==
  ASSUME TypeInv, Registered, NEW p \in Process, Others(p)
  PROVE  Registered'
<1>0. CallInv /\ NoCall.op # "join"
  BY DEF TypeInv, NoCall
<1>1. CASE Crash(p)
  <2>1. UNCHANGED table /\ groups' = [groups EXCEPT ![p] = {}] /\ call' = [call EXCEPT ![p] = NoCall]
    BY <1>1 DEF Crash, Gone
  <2>2. Unique' /\ \A q \in Process, h \in Group : IsListed(q, h) => IsListed(q, h)'
    BY <2>1 DEF Registered, Unique, IsListed
  <2>3. groups'[p] = {} /\ call'[p] = NoCall
        /\ \A q \in Process \ {p} : groups'[q] \subseteq groups[q] /\ call'[q] = call[q]
    BY <2>1 DEF TypeInv, RestOK, CallInv
  <2> QED BY <1>0, <2>2, <2>3, RegisteredStep DEF Joining
<1>2. CASE AttachNoBuffer(p) \/ AttachOpenFails(p)
  BY <1>2, FailsRegistered DEF AttachNoBuffer, AttachOpenFails
<1>3. CASE radBufferGet(p) \/ \E b \in held[p] : radBufferRls(p, b)
  BY <1>3, QuietStep DEF radBufferGet, radBufferRls
<1>4. ASSUME NEW g \in Group, radQueueQuitGroup(p, g) PROVE Registered'
  <2>1. UNCHANGED <<table, groups>>
    BY <1>4 DEF radQueueQuitGroup
  <2>2. call'[p].op = "quit" /\ \A q \in Process \ {p} : call'[q] = call[q]
    BY <1>0, <1>4, BeginStep DEF radQueueQuitGroup
  <2> QED BY <2>1, <2>2, QuietStep
<1>5. CASE NextName(p)
  <2>1. /\ call'[p].op = call[p].op /\ call'[p].group = call[p].group
        /\ \A q \in Process \ {p} : call'[q] = call[q]
    BY <1>5, NextNameType
  <2> QED BY <1>5, <2>1, QuietStep DEF NextName
<1>6. CASE JoinEnd(p)
  <2>1. UNCHANGED table /\ groups' = [groups EXCEPT ![p] = @ \cup {call[p].group}]
    BY <1>6 DEF JoinEnd
  <2>2. call'[p] = NoCall /\ \A q \in Process \ {p} : call'[q] = call[q]
    BY <1>0, <1>6, ReturnStep DEF JoinEnd
  <2>3. Unique' /\ \A q \in Process, h \in Group : IsListed(q, h) => IsListed(q, h)'
    BY <2>1 DEF Registered, Unique, IsListed
  <2>4. \A g \in groups'[p] : IsListed(p, g)
    BY <1>6, <2>1 DEF Registered, Joining, JoinEnd, AtEnd, TypeInv, RestOK
  <2>5. \A g \in groups'[p] : IsListed(p, g)'
    BY <2>1, <2>4 DEF IsListed
  <2>6. \A q \in Process \ {p} : groups'[q] \subseteq groups[q]
    BY <2>1 DEF TypeInv, RestOK
  <2> QED BY <1>0, <2>2, <2>3, <2>5, <2>6, RegisteredStep DEF Joining
<1>7. CASE UpdateEnd(p)
  <2>1. call'[p].op = "send" /\ \A q \in Process \ {p} : call'[q] = call[q]
    BY <1>7, UpdateEndType
  <2> QED BY <1>7, <2>1, QuietStep DEF UpdateEnd
<1> QED BY <1>1, <1>2, <1>3, <1>4, <1>5, <1>6, <1>7 DEF Others

-----------------------------------------------------------------------------
(* Both at once: the types need the records, the records the types. *)
LEMMA InvStep == Inv /\ [Next]_vars => Inv'
<1> SUFFICES ASSUME Inv, [Next]_vars PROVE Inv'
  OBVIOUS
<1>1. CASE Next
  <2>1. TypeInv'
    BY <1>1, TypeStep DEF Inv, Registered
  <2>2. PICK p \in Process : Records(p) \/ Peers(p) \/ Traffic(p) \/ Others(p)
    BY <1>1, Steps DEF Inv
  <2>3. Registered'
    BY <2>2, RecordsRegistered, PeersRegistered, TrafficRegistered, OthersRegistered DEF Inv
  <2> QED BY <2>1, <2>3 DEF Inv
<1>2. CASE UNCHANGED vars
  BY <1>2 DEF vars, Inv, TypeInv, Registered, TableOK, PipesOK, RestOK, CallInv, Unique, IsListed, Joining
<1> QED BY <1>1, <1>2

(* No process runs at first. *)
LEMMA InvInit == Init => Inv
<1> SUFFICES ASSUME Init PROVE Inv
  OBVIOUS
<1>1. TableOK
  <2>1. <<>> \in Seq(Record) /\ Len(<<>>) = 0
    OBVIOUS
  <2> QED BY <2>1 DEF Init, TableOK
<1>2. PipesOK
  <2>1. <<>> \in Seq(Block) /\ Len(<<>>) = 0
    OBVIOUS
  <2> QED BY <2>1 DEF Init, PipesOK
<1>3. RestOK
  <2>1. <<>> \in Seq(Node)
    OBVIOUS
  <2> QED BY <2>1 DEF Init, RestOK
<1>4. CallInv
  BY NoCallFits DEF Init, CallInv, Point
<1>5. Registered
  BY DEF Init, Registered, Unique, IsListed, Joining, NoCall
<1> QED BY <1>1, <1>2, <1>3, <1>4, <1>5 DEF Inv, TypeInv

(* The invariant of the message queues. *)
LEMMA Invariant == Spec => []Inv
BY InvInit, InvStep, PTL DEF Spec

(* Every variable has its type, the table has its size and no FIFO holds   *)
(* more than fits, in whatever order the processes come and go             *)
(* (radqueue.c: the MSGQ_TABLE and its MAX_QUEUE_RECORDS).                 *)
THEOREM QueueTypes == Spec => []TypeOK
<1>1. Inv => TypeOK
  BY DEF Inv, TypeInv, TableOK, PipesOK, RestOK, CallInv, TypeOK
<1> QED BY <1>1, Invariant, PTL

(* A queue keeps exactly one record for every group it was told it is in,  *)
(* whatever the others add and delete (qdbAddQueue, qdbDeleteQueue).       *)
THEOREM QueueRecords == Spec => []RecordsKept
<1>1. ASSUME Inv PROVE RecordsKept
  <2> SUFFICES ASSUME NEW p \in Process, NEW g \in groups[p]
               PROVE  Cardinality({k \in DOMAIN table : table[k].name = p /\ table[k].group = g}) = 1
    BY DEF RecordsKept
  <2>1. PICK k \in DOMAIN table : table[k].name = p /\ table[k].group = g
    BY <1>1 DEF Inv, Registered, IsListed
  <2>2. \A j \in DOMAIN table : table[j].name = p /\ table[j].group = g => j = k
    BY <1>1, <2>1 DEF Inv, Registered, Unique
  <2>3. {j \in DOMAIN table : table[j].name = p /\ table[j].group = g} = {k}
    BY <2>1, <2>2
  <2> QED BY <2>3, FS_Singleton
<1>2. Inv => RecordsKept
  BY <1>1
<1> QED BY <1>2, Invariant, PTL

-----------------------------------------------------------------------------
(* Who has which buffers.  The buffers of the messages or nodes in a list, *)
BuffersIn(s) == {s[k].buf : k \in DOMAIN s} \ {Nil}

(* which holds none of them twice. *)
BuffersDiffer(s) == \A j, k \in DOMAIN s : s[j].buf = s[k].buf /\ s[j].buf # Nil => j = k

(* The kinds of places of a process, and the buffers in each. *)
Kinds == {"held", "msg", "copy", "node", "fifo", "reflect"}

Has(k, p) ==
  CASE k = "held" -> held[p]
    [] k = "msg" -> BufferOf(call[p].msg)
    [] k = "copy" -> BufferOf(call[p].copy)
    [] k = "node" -> BuffersIn(sendList[p])
    [] k = "fifo" -> BuffersIn(fifo[p])
    [] k = "reflect" -> BuffersIn(reflect[p])

(* No two places have the same buffer, and none has a free one. *)
Apart ==
  /\ \A k, l \in Kinds, p, q \in Process : \A b \in Has(k, p) : b \in Has(l, q) => k = l /\ p = q
  /\ \A k \in Kinds, p \in Process : \A b \in Has(k, p) : b \notin free

(* Buffer b is free or has a place. *)
Somewhere(b) == b \in free \/ \E k \in Kinds, p \in Process : b \in Has(k, p)

NoneTwice ==
  \A p \in Process : BuffersDiffer(sendList[p]) /\ BuffersDiffer(fifo[p]) /\ BuffersDiffer(reflect[p])

(* The six places of a process. *)
LEMMA HasIs ==
  ASSUME NEW p
  PROVE  /\ Has("held", p) = held[p] /\ Has("held", p)' = held'[p]
         /\ Has("msg", p) = BufferOf(call[p].msg) /\ Has("msg", p)' = BufferOf(call'[p].msg)
         /\ Has("copy", p) = BufferOf(call[p].copy) /\ Has("copy", p)' = BufferOf(call'[p].copy)
         /\ Has("node", p) = BuffersIn(sendList[p]) /\ Has("node", p)' = BuffersIn(sendList'[p])
         /\ Has("fifo", p) = BuffersIn(fifo[p]) /\ Has("fifo", p)' = BuffersIn(fifo'[p])
         /\ Has("reflect", p) = BuffersIn(reflect[p]) /\ Has("reflect", p)' = BuffersIn(reflect'[p])
BY DEF Has

(* The buffers D become free, the buffers in L get lost. *)
Release(D, L) ==
  /\ free' = free \cup D
  /\ \A k \in Kinds, q \in Process : /\ Has(k, q)' \subseteq Has(k, q) \ D
                                     /\ Has(k, q) \subseteq Has(k, q)' \cup D \cup L

LEMMA Released ==
  ASSUME Apart, NEW D, NEW L, Release(D, L)
  PROVE  Apart' /\ \A b : Somewhere(b) /\ b \notin L => Somewhere(b)'
<1>1. Apart'
  BY DEF Apart, Release
<1>2. ASSUME NEW b, Somewhere(b), b \notin L PROVE Somewhere(b)'
  BY <1>2 DEF Somewhere, Release
<1> QED BY <1>1, <1>2

(* The buffers D go from one place to another, where the buffers L get     *)
(* lost.                                                                   *)
Handover(D, L, k0, p0, k1, p1) ==
  /\ k0 \in Kinds /\ p0 \in Process /\ k1 \in Kinds /\ p1 \in Process /\ k0 # k1
  /\ D \subseteq Has(k0, p0) /\ free' = free
  /\ Has(k0, p0)' = Has(k0, p0) \ (D \cup L)
  /\ Has(k1, p1)' = Has(k1, p1) \cup D
  /\ \A k \in Kinds, q \in Process :
       ~ (k = k0 /\ q = p0) /\ ~ (k = k1 /\ q = p1) => Has(k, q)' = Has(k, q)

LEMMA HandedOver ==
  ASSUME Apart, NEW D, NEW L, NEW k0, NEW p0, NEW k1, NEW p1, Handover(D, L, k0, p0, k1, p1)
  PROVE  Apart' /\ \A b : Somewhere(b) /\ b \notin L => Somewhere(b)'
<1> USE DEF Handover
<1>0. ASSUME NEW k \in Kinds, NEW q \in Process, NEW b \in Has(k, q)'
      PROVE  IF b \in D THEN k = k1 /\ q = p1 ELSE b \in Has(k, q)
  BY <1>0 DEF Apart
<1>1. Apart'
  <2>1. ASSUME NEW k \in Kinds, NEW l \in Kinds, NEW p \in Process, NEW q \in Process,
               NEW b \in Has(k, p)', b \in Has(l, q)'
        PROVE  k = l /\ p = q
    BY <1>0, <2>1 DEF Apart
  <2>2. ASSUME NEW k \in Kinds, NEW p \in Process, NEW b \in Has(k, p)'
        PROVE  b \notin free'
    BY <1>0, <2>2 DEF Apart
  <2> QED BY <2>1, <2>2 DEF Apart
<1>2. ASSUME NEW b, Somewhere(b), b \notin L PROVE Somewhere(b)'
  <2>1. CASE b \in free
    BY <2>1 DEF Somewhere
  <2>2. CASE \E k \in Kinds, q \in Process : b \in Has(k, q)
    <3>1. PICK k \in Kinds, q \in Process : b \in Has(k, q)
      BY <2>2
    <3>2. b \in Has(k, q)' \/ b \in Has(k1, p1)'
      BY <1>2, <3>1
    <3> QED BY <3>2 DEF Somewhere
  <2> QED BY <1>2, <2>1, <2>2 DEF Somewhere
<1> QED BY <1>1, <1>2

(* Without a loss. *)
Transfer(D, k0, p0, k1, p1) ==
  /\ k0 \in Kinds /\ p0 \in Process /\ k1 \in Kinds /\ p1 \in Process /\ k0 # k1
  /\ D \subseteq Has(k0, p0) /\ free' = free
  /\ Has(k0, p0)' = Has(k0, p0) \ D
  /\ Has(k1, p1)' = Has(k1, p1) \cup D
  /\ \A k \in Kinds, q \in Process :
       ~ (k = k0 /\ q = p0) /\ ~ (k = k1 /\ q = p1) => Has(k, q)' = Has(k, q)

LEMMA Moved ==
  ASSUME Apart, NEW D, NEW k0, NEW p0, NEW k1, NEW p1, Transfer(D, k0, p0, k1, p1)
  PROVE  Apart' /\ \A b : Somewhere(b) => Somewhere(b)'
<1> DEFINE none == {}
<1>1. D = D \cup none /\ \A b : b \notin none
  OBVIOUS
<1> HIDE DEF none
<1>2. Handover(D, none, k0, p0, k1, p1)
  BY <1>1 DEF Handover, Transfer
<1> QED BY <1>1, <1>2, HandedOver

(* A free buffer gets a place. *)
Take(b0, k1, p1) ==
  /\ b0 \in free /\ k1 \in Kinds /\ p1 \in Process
  /\ free' = free \ {b0}
  /\ Has(k1, p1)' = Has(k1, p1) \cup {b0}
  /\ \A k \in Kinds, q \in Process : ~ (k = k1 /\ q = p1) => Has(k, q)' = Has(k, q)

LEMMA Taken ==
  ASSUME Apart, NEW b0, NEW k1, NEW p1, Take(b0, k1, p1)
  PROVE  Apart' /\ \A b : Somewhere(b) => Somewhere(b)'
<1> USE DEF Take
<1>0. ASSUME NEW k \in Kinds, NEW q \in Process, NEW b \in Has(k, q)'
      PROVE  IF b = b0 THEN k = k1 /\ q = p1 ELSE b \in Has(k, q)
  BY <1>0 DEF Apart
<1>1. Apart'
  <2>1. ASSUME NEW k \in Kinds, NEW l \in Kinds, NEW p \in Process, NEW q \in Process,
               NEW b \in Has(k, p)', b \in Has(l, q)'
        PROVE  k = l /\ p = q
    BY <1>0, <2>1 DEF Apart
  <2>2. ASSUME NEW k \in Kinds, NEW p \in Process, NEW b \in Has(k, p)'
        PROVE  b \notin free'
    BY <1>0, <2>2 DEF Apart
  <2> QED BY <2>1, <2>2 DEF Apart
<1>2. ASSUME NEW b, Somewhere(b) PROVE Somewhere(b)'
  <2>1. CASE b \in free
    BY <2>1 DEF Somewhere
  <2>2. CASE \E k \in Kinds, q \in Process : b \in Has(k, q)
    <3>1. PICK k \in Kinds, q \in Process : b \in Has(k, q)
      BY <2>2
    <3>2. b \in Has(k, q)'
      BY <3>1
    <3> QED BY <3>2 DEF Somewhere
  <2> QED BY <1>2, <2>1, <2>2 DEF Somewhere
<1> QED BY <1>1, <1>2

(* A message or a node at the end of a list, ... *)
LEMMA AppendBuffers ==
  ASSUME NEW T, NEW s \in Seq(T), NEW m \in T
  PROVE  /\ BuffersIn(Append(s, m)) = BuffersIn(s) \cup BufferOf(m.buf)
         /\ BuffersDiffer(s) /\ m.buf \notin BuffersIn(s) => BuffersDiffer(Append(s, m))
<1> DEFINE r == Append(s, m)
<1>1. /\ Len(s) \in Nat /\ DOMAIN s = 1 .. Len(s) /\ DOMAIN r = 1 .. Len(s) + 1
      /\ r[Len(s) + 1] = m /\ \A k \in 1 .. Len(s) : r[k] = s[k]
  OBVIOUS
<1> HIDE DEF r
<1>2. BuffersIn(r) = BuffersIn(s) \cup BufferOf(m.buf)
  <2>1. ASSUME NEW b \in BuffersIn(r) PROVE b \in BuffersIn(s) \cup BufferOf(m.buf)
    <3>1. PICK k \in 1 .. Len(s) + 1 : b = r[k].buf /\ b # Nil
      BY <1>1 DEF BuffersIn
    <3>2. k \in 1 .. Len(s) \/ k = Len(s) + 1
      BY <1>1
    <3> QED BY <1>1, <3>1, <3>2 DEF BuffersIn, BufferOf
  <2>2. ASSUME NEW b \in BuffersIn(s) PROVE b \in BuffersIn(r)
    <3>1. PICK k \in 1 .. Len(s) : b = s[k].buf /\ b # Nil
      BY <1>1 DEF BuffersIn
    <3>2. k \in 1 .. Len(s) + 1 /\ r[k] = s[k]
      BY <1>1
    <3> QED BY <1>1, <3>1, <3>2 DEF BuffersIn
  <2>3. ASSUME NEW b \in BufferOf(m.buf) PROVE b \in BuffersIn(r)
    <3>1. b = m.buf /\ b # Nil /\ Len(s) + 1 \in DOMAIN r
      BY <1>1 DEF BufferOf
    <3> QED BY <1>1, <3>1 DEF BuffersIn
  <2> QED BY <2>1, <2>2, <2>3
<1>3. ASSUME BuffersDiffer(s), m.buf \notin BuffersIn(s) PROVE BuffersDiffer(r)
  <2> SUFFICES ASSUME NEW j \in 1 .. Len(s) + 1, NEW k \in 1 .. Len(s) + 1,
                      r[j].buf = r[k].buf, r[j].buf # Nil
               PROVE  j = k
    BY <1>1 DEF BuffersDiffer
  <2>1. \A i \in 1 .. Len(s) : s[i].buf # Nil => s[i].buf # m.buf
    BY <1>1, <1>3 DEF BuffersIn
  <2>2. (j \in 1 .. Len(s) \/ j = Len(s) + 1) /\ (k \in 1 .. Len(s) \/ k = Len(s) + 1)
    BY <1>1
  <2>3. CASE j \in 1 .. Len(s) /\ k \in 1 .. Len(s)
    BY <1>1, <1>3, <2>3 DEF BuffersDiffer
  <2> QED BY <1>1, <2>1, <2>2, <2>3
<1> QED BY <1>2, <1>3 DEF r

(* ... blocks at the end of a pipe, ... *)
LEMMA ConcatBuffers ==
  ASSUME NEW s \in Seq(Block), NEW m \in Seq(Block)
  PROVE  /\ BuffersIn(s \o m) = BuffersIn(s) \cup BuffersIn(m)
         /\ BuffersDiffer(s) /\ BuffersDiffer(m) /\ BuffersIn(s) \cap BuffersIn(m) = {}
              => BuffersDiffer(s \o m)
<1> DEFINE r == s \o m
           N == Len(s) + Len(m)
<1>1. /\ Len(s) \in Nat /\ Len(m) \in Nat /\ DOMAIN s = 1 .. Len(s) /\ DOMAIN m = 1 .. Len(m)
      /\ DOMAIN r = 1 .. N /\ N = Len(s) + Len(m)
      /\ \A k \in 1 .. N : r[k] = IF k <= Len(s) THEN s[k] ELSE m[k - Len(s)]
  BY ConcatProperties
<1> HIDE DEF r, N
<1>2. \A k \in 1 .. Len(s) : k \in DOMAIN r /\ r[k] = s[k]
  BY <1>1
<1>3. \A k \in 1 .. Len(m) : k + Len(s) \in DOMAIN r /\ r[k + Len(s)] = m[k]
  <2>1. \A k \in 1 .. Len(m) : k + Len(s) \in 1 .. N /\ ~ (k + Len(s) <= Len(s)) /\ (k + Len(s)) - Len(s) = k
    BY <1>1
  <2> QED BY <1>1, <2>1
<1>4. \A k \in DOMAIN r : \/ k \in 1 .. Len(s) /\ r[k] = s[k]
                          \/ k - Len(s) \in 1 .. Len(m) /\ r[k] = m[k - Len(s)]
  BY <1>1
<1>5. BuffersIn(r) = BuffersIn(s) \cup BuffersIn(m)
  <2>1. ASSUME NEW b \in BuffersIn(r) PROVE b \in BuffersIn(s) \cup BuffersIn(m)
    <3>1. PICK k \in DOMAIN r : b = r[k].buf /\ b # Nil
      BY <2>1 DEF BuffersIn
    <3> QED BY <1>1, <1>4, <3>1 DEF BuffersIn
  <2>2. ASSUME NEW b \in BuffersIn(s) PROVE b \in BuffersIn(r)
    <3>1. PICK k \in 1 .. Len(s) : b = s[k].buf /\ b # Nil
      BY <1>1, <2>2 DEF BuffersIn
    <3> QED BY <1>2, <3>1 DEF BuffersIn
  <2>3. ASSUME NEW b \in BuffersIn(m) PROVE b \in BuffersIn(r)
    <3>1. PICK k \in 1 .. Len(m) : b = m[k].buf /\ b # Nil
      BY <1>1, <2>3 DEF BuffersIn
    <3> QED BY <1>3, <3>1 DEF BuffersIn
  <2> QED BY <2>1, <2>2, <2>3
<1>6. ASSUME BuffersDiffer(s), BuffersDiffer(m), BuffersIn(s) \cap BuffersIn(m) = {}
      PROVE  BuffersDiffer(r)
  <2> SUFFICES ASSUME NEW j \in DOMAIN r, NEW k \in DOMAIN r, r[j].buf = r[k].buf, r[j].buf # Nil
               PROVE  j = k
    BY DEF BuffersDiffer
  <2>1. \A i \in 1 .. Len(s) : s[i].buf # Nil => s[i].buf \in BuffersIn(s)
    BY <1>1 DEF BuffersIn
  <2>2. \A i \in 1 .. Len(m) : m[i].buf # Nil => m[i].buf \in BuffersIn(m)
    BY <1>1 DEF BuffersIn
  <2>3. CASE j \in 1 .. Len(s) /\ r[j] = s[j] /\ k \in 1 .. Len(s) /\ r[k] = s[k]
    BY <1>1, <1>6, <2>3 DEF BuffersDiffer
  <2>4. CASE /\ j - Len(s) \in 1 .. Len(m) /\ r[j] = m[j - Len(s)]
             /\ k - Len(s) \in 1 .. Len(m) /\ r[k] = m[k - Len(s)]
    <3>1. j - Len(s) = k - Len(s)
      BY <1>1, <1>6, <2>4 DEF BuffersDiffer
    <3>2. j \in Nat /\ k \in Nat /\ Len(s) \in Nat
      BY <1>1
    <3> QED BY <3>1, <3>2
  <2> QED BY <1>4, <1>6, <2>1, <2>2, <2>3, <2>4
<1> QED BY <1>5, <1>6 DEF r

(* ... or taken from its front, ... *)
LEMMA SplitBuffers ==
  ASSUME NEW s \in Seq(Block), NEW n \in 0 .. Len(s), Len(s) <= PipeCap, BuffersDiffer(s)
  PROVE  LET front == SubSeq(s, 1, n)
             back == SubSeq(s, n + 1, Len(s))
         IN  /\ BuffersIn(back) = BuffersIn(s) \ BuffersIn(front)
             /\ BuffersIn(front) \subseteq BuffersIn(s)
             /\ BuffersDiffer(front) /\ BuffersDiffer(back)
<1> DEFINE front == SubSeq(s, 1, n)
           back == SubSeq(s, n + 1, Len(s))
<1>1. /\ front \in Seq(Block) /\ Len(front) = n /\ \A k \in 1 .. n : front[k] = s[k]
      /\ back \in Seq(Block) /\ Len(back) = Len(s) - n
      /\ \A k \in 1 .. Len(s) - n : back[k] = s[n + k]
  BY TakeType
<1> HIDE DEF front, back
<1>2. /\ Len(s) \in Nat /\ n \in Nat /\ n <= Len(s) /\ DOMAIN s = 1 .. Len(s)
      /\ DOMAIN front = 1 .. n /\ DOMAIN back = 1 .. Len(s) - n
  BY <1>1
<1>3. \A k \in 1 .. n : k \in DOMAIN s
  BY <1>2
<1>4. \A k \in 1 .. Len(s) - n : n + k \in DOMAIN s /\ n + k \notin 1 .. n
  BY <1>2
<1>5. BuffersIn(front) \subseteq BuffersIn(s)
  BY <1>1, <1>2, <1>3 DEF BuffersIn
<1>5a. BuffersDiffer(front)
  <2> SUFFICES ASSUME NEW j \in 1 .. n, NEW k \in 1 .. n, front[j].buf = front[k].buf, front[j].buf # Nil
               PROVE  j = k
    BY <1>2 DEF BuffersDiffer
  <2>1. /\ j \in DOMAIN s /\ k \in DOMAIN s
        /\ s[j].buf = s[k].buf /\ s[j].buf # Nil
    BY <1>1, <1>3
  <2> QED BY <2>1 DEF BuffersDiffer
<1>6. BuffersDiffer(back)
  <2> SUFFICES ASSUME NEW j \in 1 .. Len(s) - n, NEW k \in 1 .. Len(s) - n,
                      back[j].buf = back[k].buf, back[j].buf # Nil
               PROVE  j = k
    BY <1>2 DEF BuffersDiffer
  <2>1. /\ n + j \in DOMAIN s /\ n + k \in DOMAIN s
        /\ s[n + j].buf = s[n + k].buf /\ s[n + j].buf # Nil
    BY <1>1, <1>4
  <2>2. n + j = n + k
    BY <2>1 DEF BuffersDiffer
  <2> QED BY <1>2, <2>2
<1>7. ASSUME NEW b \in BuffersIn(back) PROVE b \in BuffersIn(s) /\ b \notin BuffersIn(front)
  <2>1. PICK k \in 1 .. Len(s) - n : b = s[n + k].buf /\ b # Nil
    BY <1>1, <1>2, <1>7 DEF BuffersIn
  <2>2. \A j \in 1 .. n : s[j].buf # b
    BY <1>3, <1>4, <2>1 DEF BuffersDiffer
  <2>3. b \notin BuffersIn(front)
    BY <1>1, <1>2, <2>2 DEF BuffersIn
  <2> QED BY <1>4, <2>1, <2>3 DEF BuffersIn
<1>8. ASSUME NEW b \in BuffersIn(s), b \notin BuffersIn(front) PROVE b \in BuffersIn(back)
  <2>1. PICK k \in 1 .. Len(s) : b = s[k].buf /\ b # Nil
    BY <1>2, <1>8 DEF BuffersIn
  <2>2. k \notin 1 .. n
    BY <1>1, <1>2, <1>8, <2>1 DEF BuffersIn
  <2>3. k - n \in 1 .. Len(s) - n /\ n + (k - n) = k
    BY <1>2, <2>1, <2>2
  <2>4. back[k - n] = s[k]
    BY <1>1, <2>3
  <2> QED BY <1>2, <2>1, <2>3, <2>4 DEF BuffersIn
<1>9. BuffersIn(back) = BuffersIn(s) \ BuffersIn(front)
  BY <1>7, <1>8
<1> QED BY <1>5, <1>5a, <1>6, <1>9 DEF front, back

(* ... or the blocks of a header, ... *)
LEMMA HeaderBuffers ==
  ASSUME NEW b \in Buffer \cup {Nil}
  PROVE  BuffersIn(Header(b)) = BufferOf(b) /\ BuffersDiffer(Header(b))
<1>1. /\ Header(b) \in Seq(Block) /\ Len(Header(b)) = HeaderBlocks
      /\ \A k \in 1 .. HeaderBlocks : Header(b)[k].buf = IF k = HeaderBlocks THEN b ELSE Nil
  BY HeaderType
<1>2. DOMAIN Header(b) = 1 .. HeaderBlocks /\ HeaderBlocks \in 1 .. HeaderBlocks
  BY <1>1
<1> QED BY <1>1, <1>2 DEF BuffersIn, BuffersDiffer, BufferOf

(* ... and one taken out of it. *)
LEMMA RemovedBuffers ==
  ASSUME NEW T, NEW s \in Seq(T), NEW k \in DOMAIN s, BuffersDiffer(s), s[k].buf # Nil
  PROVE  LET r == AtPositions(s, DOMAIN s \ {k})
         IN  BuffersIn(r) = BuffersIn(s) \ {s[k].buf} /\ BuffersDiffer(r)
<1> DEFINE S == DOMAIN s \ {k}
           r == AtPositions(s, S)
           N == Cardinality(S)
<1>1. DOMAIN s = 1 .. Len(s) /\ S \in SUBSET (1 .. Len(s))
  OBVIOUS
<1> HIDE DEF S
<1>2a. /\ r \in Seq(T) /\ Len(r) = N
       /\ \A j \in 1 .. N : r[j] = s[Position(S, j)]
  BY <1>1, Selected
<1>2b. /\ N \in 0 .. Len(s)
       /\ \A j \in 1 .. N : Position(S, j) \in S
       /\ \A i, j \in 1 .. N : i < j => Position(S, i) < Position(S, j)
       /\ \A i \in S : \E j \in 1 .. N : Position(S, j) = i
  <2>1. Len(s) \in Nat
    OBVIOUS
  <2> QED BY <1>1, <2>1, Positions
<1> HIDE DEF r, N
<1>2. /\ r \in Seq(T) /\ Len(r) = N /\ N \in 0 .. Len(s)
      /\ \A j \in 1 .. N : r[j] = s[Position(S, j)]
      /\ \A j \in 1 .. N : Position(S, j) \in S
      /\ \A i, j \in 1 .. N : i < j => Position(S, i) < Position(S, j)
      /\ \A i \in S : \E j \in 1 .. N : Position(S, j) = i
  BY <1>2a, <1>2b
<1>3. DOMAIN r = 1 .. N
  BY <1>2
<1>4. ASSUME NEW b \in BuffersIn(r) PROVE b \in BuffersIn(s) /\ b # s[k].buf
  <2>1. PICK j \in 1 .. N : b = r[j].buf /\ b # Nil
    BY <1>3, <1>4 DEF BuffersIn
  <2>2. b = s[Position(S, j)].buf /\ Position(S, j) \in DOMAIN s /\ Position(S, j) # k
    BY <1>2, <2>1 DEF S
  <2>3. b # s[k].buf
    BY <2>1, <2>2 DEF BuffersDiffer
  <2> QED BY <2>1, <2>2, <2>3 DEF BuffersIn
<1>5. ASSUME NEW b \in BuffersIn(s), b # s[k].buf PROVE b \in BuffersIn(r)
  <2>1. PICK i \in DOMAIN s : b = s[i].buf /\ b # Nil
    BY <1>5 DEF BuffersIn
  <2>2. i \in S
    BY <1>5, <2>1 DEF S
  <2>3. PICK j \in 1 .. N : Position(S, j) = i
    BY <1>2, <2>2
  <2>4. r[j] = s[i] /\ j \in DOMAIN r
    BY <1>2, <1>3, <2>3
  <2> QED BY <2>1, <2>4 DEF BuffersIn
<1>6. BuffersDiffer(r)
  <2> SUFFICES ASSUME NEW i \in 1 .. N, NEW j \in 1 .. N, r[i].buf = r[j].buf, r[i].buf # Nil
               PROVE  i = j
    BY <1>3 DEF BuffersDiffer
  <2>1. /\ Position(S, i) \in DOMAIN s /\ Position(S, j) \in DOMAIN s
        /\ s[Position(S, i)].buf = s[Position(S, j)].buf /\ s[Position(S, i)].buf # Nil
    BY <1>1, <1>2
  <2>2. Position(S, i) = Position(S, j)
    BY <2>1 DEF BuffersDiffer
  <2>3. Position(S, i) \in Nat /\ Position(S, j) \in Nat /\ i \in Nat /\ j \in Nat
    BY <1>1, <1>2, <2>1
  <2>4. ~ (Position(S, i) < Position(S, j)) /\ ~ (Position(S, j) < Position(S, i))
    BY <2>2, <2>3
  <2>5. ~ (i < j) /\ ~ (j < i)
    BY <1>2, <2>4
  <2> QED BY <2>3, <2>5
<1>7. BuffersIn(r) = BuffersIn(s) \ {s[k].buf}
  BY <1>4, <1>5
<1> QED BY <1>6, <1>7 DEF r, S

(* Nothing is in an empty list. *)
LEMMA EmptyBuffers == BuffersIn(<<>>) = {} /\ BuffersDiffer(<<>>)
BY DEF BuffersIn, BuffersDiffer

-----------------------------------------------------------------------------
(* A buffer is free or in a single place, and there once. *)
Owned == Apart /\ NoneTwice

(* The ways to lose buffer b in a step: see OnlyTheseLoseBuffers. *)
Excused(b) ==
  \/ \E p \in Process : pc[p] # "down" /\ pc'[p] = "down" /\ b \in Carries(p)
  \/ \E p \in Process : /\ ~ IsOpen(p, up', sendList')
                        /\ \E k \in DOMAIN fifo[p] : fifo[p][k].buf = b
  \/ \E p \in Process : /\ pc[p] = "write" /\ call[p].copy = b
                        /\ Attached(p, call[p].cur) /\ ~ up[call[p].cur]
  \/ \E p \in Process : \E k \in DOMAIN fifo[p] :
       k < HeaderBlocks /\ fifo[p][k].buf = b /\ fifo'[p] # fifo[p]

Kept == Owned' /\ \A b : Somewhere(b) => Somewhere(b)' \/ Excused(b)

(* No buffer moves. *)
LEMMA SameKept ==
  ASSUME Owned, UNCHANGED <<free, held, sendList, fifo, reflect>>,
         \A q \in Process : call'[q].msg = call[q].msg /\ call'[q].copy = call[q].copy
  PROVE  Kept
<1>1. \A k \in Kinds, q \in Process : Has(k, q)' = Has(k, q)
  BY HasIs DEF Kinds
<1>2. Apart' /\ \A b : Somewhere(b) => Somewhere(b)'
  <2> DEFINE none == {}
  <2>1. free' = free \cup none
    OBVIOUS
  <2>2. \A k \in Kinds, q \in Process : /\ Has(k, q)' \subseteq Has(k, q) \ none
                                        /\ Has(k, q) \subseteq Has(k, q)' \cup none \cup none
    BY <1>1
  <2>3. Apart /\ \A b : b \notin none
    BY DEF Owned
  <2> HIDE DEF none
  <2>4. Apart' /\ \A b : Somewhere(b) /\ b \notin none => Somewhere(b)'
    <3>1. Release(none, none)
      BY <2>1, <2>2 DEF Release
    <3> QED BY <2>3, <3>1, Released
  <2> QED BY <2>3, <2>4
<1>3. NoneTwice'
  BY DEF Owned, NoneTwice
<1> QED BY <1>2, <1>3 DEF Kept, Owned

(* The kernel keeps a FIFO or empties it. *)
LEMMA KeepBuffers ==
  ASSUME NEW readers, NEW lists, NEW f, NEW q \in Process
  PROVE  \/ Keep(f, readers, lists)[q] = f[q]
         \/ Keep(f, readers, lists)[q] = <<>> /\ ~ IsOpen(q, readers, lists)
BY DEF Keep

(* What a process has but for its FIFO it carries. *)
LEMMA CarriesIts ==
  ASSUME NEW p \in Process, NEW k \in Kinds, k # "fifo", NEW b \in Has(k, p)
  PROVE  b \in Carries(p)
<1>1. \A c \in BuffersIn(sendList[p]) : c \in Carries(p)
  BY DEF BuffersIn, Carries
<1>2. \A c \in BuffersIn(reflect[p]) : c \in Carries(p)
  BY DEF BuffersIn, Carries
<1>3. \A c \in held[p] \cup BufferOf(call[p].msg) \cup BufferOf(call[p].copy) : c \in Carries(p)
  BY DEF Carries
<1> QED BY <1>1, <1>2, <1>3, HasIs DEF Kinds

(* What is left in the FIFOs when process p goes: all, or not the part of  *)
(* a header that it has read.                                              *)
Left(p, f) ==
  \A q \in Process : f[q] = fifo[q] \/ (q = p /\ f[q] = <<>> /\ Len(fifo[p]) < HeaderBlocks)

(* A process ends, with the buffers D of its send list released. *)
LEMMA GoneKept ==
  ASSUME TypeInv, Owned, NEW p \in Process, NEW f, Left(p, f), Gone(p, f), pc[p] # "down",
         NEW D, D \subseteq Has("node", p), free' = free \cup D
  PROVE  Kept
<1>1. /\ held' = [held EXCEPT ![p] = {}] /\ sendList' = [sendList EXCEPT ![p] = <<>>]
      /\ reflect' = [reflect EXCEPT ![p] = <<>>] /\ call' = [call EXCEPT ![p] = NoCall]
  BY DEF Gone
<1>1a. ASSUME NEW q \in Process
       PROVE  \/ fifo'[q] = fifo[q]
              \/ fifo'[q] = <<>> /\ ~ IsOpen(q, up', sendList')
              \/ fifo'[q] = <<>> /\ q = p /\ Len(fifo[p]) < HeaderBlocks
  <2>1. fifo' = Keep(f, up', sendList')
    BY DEF Gone
  <2>2. fifo'[q] = f[q] \/ (fifo'[q] = <<>> /\ ~ IsOpen(q, up', sendList'))
    BY <2>1, KeepBuffers
  <2> QED BY <2>2 DEF Left
<1>2. \A q \in Process \ {p} : /\ held'[q] = held[q] /\ sendList'[q] = sendList[q]
                               /\ reflect'[q] = reflect[q] /\ call'[q] = call[q]
  BY <1>1 DEF TypeInv, RestOK, PipesOK, CallInv
<1>3. held'[p] = {} /\ sendList'[p] = <<>> /\ reflect'[p] = <<>> /\ call'[p] = NoCall
  BY <1>1 DEF TypeInv, RestOK, PipesOK, CallInv
<1>4. BufferOf(NoCall.msg) = {} /\ BufferOf(NoCall.copy) = {}
  BY DEF NoCall, BufferOf
<1>5. \A q \in Process : BuffersIn(fifo'[q]) \subseteq BuffersIn(fifo[q])
  BY <1>1a, EmptyBuffers
<1>6a. ASSUME NEW q \in Process \ {p}, NEW k \in Kinds, k # "fifo" PROVE Has(k, q)' = Has(k, q)
  BY <1>2, <1>6a, HasIs DEF Kinds
<1>6. \A k \in Kinds, q \in Process : Has(k, q)' \subseteq Has(k, q)
  <2>1. ASSUME NEW q \in Process \ {p}, NEW k \in Kinds PROVE Has(k, q)' \subseteq Has(k, q)
    <3>1. Has("fifo", q)' \subseteq Has("fifo", q)
      BY <1>5, HasIs
    <3> QED BY <1>6a, <3>1
  <2>2. ASSUME NEW k \in Kinds PROVE Has(k, p)' \subseteq Has(k, p)
    <3>1. /\ Has("held", p)' = {} /\ Has("msg", p)' = {} /\ Has("copy", p)' = {}
          /\ Has("node", p)' = {} /\ Has("reflect", p)' = {}
      BY <1>3, <1>4, EmptyBuffers, HasIs
    <3>2. Has("fifo", p)' \subseteq Has("fifo", p)
      BY <1>5, HasIs
    <3> QED BY <3>1, <3>2 DEF Kinds
  <2> QED BY <2>1, <2>2
<1>7. Has("node", p)' = {}
  BY <1>3, EmptyBuffers, HasIs
<1>8. \A k \in Kinds, q \in Process : Has(k, q)' \subseteq Has(k, q) \ D
  <2>1. "node" \in Kinds /\ Apart
    BY DEF Kinds, Owned
  <2> QED BY <1>6, <1>7, <2>1 DEF Apart
<1> DEFINE L == UNION {Has(k, q) : k \in Kinds, q \in Process}
<1>9. \A k \in Kinds, q \in Process : Has(k, q) \subseteq Has(k, q)' \cup D \cup L
  OBVIOUS
<1>10. Apart'
  <2> HIDE DEF L
  <2>1. Release(D, L)
    BY <1>8, <1>9 DEF Release
  <2> QED BY <2>1, Released DEF Owned
<1>11. NoneTwice'
  <2>1. \A q \in Process : BuffersDiffer(fifo'[q])
    BY <1>1a, EmptyBuffers DEF Owned, NoneTwice
  <2> QED BY <1>2, <1>3, <2>1, EmptyBuffers DEF Owned, NoneTwice
<1>12. ASSUME NEW b, Somewhere(b), ~ Somewhere(b)' PROVE Excused(b)
  <2>1. b \notin free' /\ \A k \in Kinds, q \in Process : b \notin Has(k, q)'
    BY <1>12 DEF Somewhere
  <2>2. PICK k \in Kinds, q \in Process : b \in Has(k, q)
    BY <1>12, <2>1 DEF Somewhere
  <2>3. pc'[p] = "down"
    BY DEF Gone, TypeInv, CallInv
  <2>4. CASE k # "fifo"
    <3>1. q = p
      BY <1>6a, <2>1, <2>2, <2>4
    <3>2. b \in Carries(p)
      BY <2>2, <2>4, <3>1, CarriesIts
    <3> QED BY <2>3, <3>2 DEF Excused
  <2>5. CASE k = "fifo"
    <3>1. b \in BuffersIn(fifo[q]) /\ b \notin BuffersIn(fifo'[q])
      BY <2>1, <2>2, <2>5, HasIs
    <3>2. PICK j \in DOMAIN fifo[q] : fifo[q][j].buf = b
      BY <3>1 DEF BuffersIn
    <3>3. fifo'[q] # fifo[q]
      BY <3>1
    <3>4. CASE ~ IsOpen(q, up', sendList')
      BY <3>2, <3>4 DEF Excused
    <3>5. CASE q = p /\ Len(fifo[p]) < HeaderBlocks
      <4>1. fifo[p] \in Seq(Block) /\ j \in 1 .. Len(fifo[p])
        BY <3>2, <3>5 DEF TypeInv, PipesOK
      <4>2. j < HeaderBlocks
        BY <3>5, <4>1
      <4> QED BY <3>2, <3>3, <3>5, <4>2 DEF Excused
    <3> QED BY <1>1a, <3>3, <3>4, <3>5
  <2> QED BY <2>4, <2>5
<1> QED BY <1>10, <1>11, <1>12 DEF Kept, Owned

(* The steps that change the records. *)
LEMMA RecordsBuffers ==
  ASSUME TypeInv, Owned, NEW p \in Process, Records(p)
  PROVE  Kept
<1>0. CallInv /\ NoCall.msg = Nil /\ NoCall.copy = Nil
  BY DEF TypeInv, NoCall
<1>1. CASE radQueueInit(p)
  BY <1>1, SameKept DEF radQueueInit
<1>2. CASE radQueueExit(p)
  <2> DEFINE D == {sendList[p][k].buf : k \in DOMAIN sendList[p]}
  <2>1. D \subseteq Has("node", p)
    <3>1. \A k \in DOMAIN sendList[p] : sendList[p][k] \in Node
      BY DEF TypeInv, RestOK
    <3>2. \A k \in DOMAIN sendList[p] : sendList[p][k].buf # Nil
      BY <3>1 DEF Node
    <3> QED BY <3>2, HasIs DEF BuffersIn
  <2>2. pc[p] # "down" /\ free' = free \cup D
    BY <1>2 DEF radQueueExit
  <2>3. PICK f : f = fifo /\ Gone(p, f)
    BY <1>2 DEF radQueueExit
  <2>4. Left(p, f)
    BY <2>3 DEF Left
  <2> HIDE DEF D
  <2> QED BY <2>1, <2>2, <2>3, <2>4, GoneKept
<1>3. CASE \E g \in Group : radQueueJoinGroup(p, g)
  <2>1. PICK g \in Group : radQueueJoinGroup(p, g)
    BY <1>3
  <2>2. call'[p].msg = Nil /\ call'[p].copy = Nil /\ \A q \in Process \ {p} : call'[q] = call[q]
    BY <1>0, <2>1, BeginStep DEF radQueueJoinGroup
  <2>3. call[p] = NoCall
    BY <1>0, <2>1 DEF CallInv, Fits, radQueueJoinGroup
  <2>4. \A q \in Process : call'[q].msg = call[q].msg /\ call'[q].copy = call[q].copy
    BY <1>0, <2>2, <2>3
  <2> QED BY <2>1, <2>4, SameKept DEF radQueueJoinGroup
<1>4. CASE QuitEnd(p)
  <2>1. call'[p] = NoCall /\ \A q \in Process \ {p} : call'[q] = call[q]
    BY <1>0, <1>4, ReturnStep DEF QuitEnd
  <2>2. call[p].msg = Nil /\ call[p].copy = Nil
    BY <1>0, <1>4 DEF CallInv, Fits, QuitEnd, AtEnd
  <2>3. \A q \in Process : call'[q].msg = call[q].msg /\ call'[q].copy = call[q].copy
    BY <1>0, <2>1, <2>2
  <2> QED BY <1>4, <2>3, SameKept DEF QuitEnd
<1> QED BY <1>1, <1>2, <1>3, <1>4 DEF Records

(* A node leaves the send list. *)
LEMMA RemoveNodeKept ==
  ASSUME TypeInv, Owned, NEW p \in Process, NEW n, NEW g, RemoveNode(p, n, g),
         UNCHANGED <<up, held, reflect, call>>
  PROVE  Kept
<1>1. CASE UNCHANGED <<sendList, free, fifo>>
  BY <1>1, SameKept
<1>2. CASE \E k \in NodesOf(p, n, g) :
       /\ sendList' = [sendList EXCEPT ![p] = AtPositions(@, DOMAIN @ \ {k})]
       /\ free' = free \cup {sendList[p][k].buf}
       /\ fifo' = Keep(fifo, up, sendList')
  <2>1. PICK k \in NodesOf(p, n, g) :
       /\ sendList' = [sendList EXCEPT ![p] = AtPositions(@, DOMAIN @ \ {k})]
       /\ free' = free \cup {sendList[p][k].buf}
       /\ fifo' = Keep(fifo, up, sendList')
    BY <1>2
  <2> DEFINE s == sendList[p]
             r == AtPositions(s, DOMAIN s \ {k})
             b0 == s[k].buf
             L == UNION {BuffersIn(fifo[q]) : q \in {q \in Process : ~ IsOpen(q, up, sendList')}}
  <2>2. s \in Seq(Node) /\ k \in DOMAIN s /\ BuffersDiffer(s)
    BY DEF TypeInv, RestOK, NodesOf, Owned, NoneTwice
  <2>3. b0 # Nil
    <3>1. s[k] \in Node
      BY <2>2
    <3> QED BY <3>1 DEF Node
  <2>4. BuffersIn(r) = BuffersIn(s) \ {b0} /\ BuffersDiffer(r) /\ b0 \in BuffersIn(s)
    <3>1. BuffersIn(r) = BuffersIn(s) \ {b0} /\ BuffersDiffer(r)
      BY <2>2, <2>3, RemovedBuffers
    <3> QED BY <2>2, <2>3, <3>1 DEF BuffersIn
  <2>5. sendList' = [sendList EXCEPT ![p] = r] /\ free' = free \cup {b0}
    BY <2>1
  <2> HIDE DEF r
  <2>6. sendList'[p] = r /\ \A q \in Process \ {p} : sendList'[q] = sendList[q]
    BY <2>5 DEF TypeInv, RestOK
  <2>7. \A q \in Process : fifo'[q] = fifo[q] \/ (fifo'[q] = <<>> /\ ~ IsOpen(q, up, sendList'))
    BY <2>1, KeepBuffers
  <2>8. \A q \in Process : /\ BuffersIn(fifo'[q]) \subseteq BuffersIn(fifo[q])
                           /\ BuffersIn(fifo[q]) \subseteq BuffersIn(fifo'[q]) \cup L
    BY <2>7, EmptyBuffers
  <2> HIDE DEF L
  <2>9. b0 \in Has("node", p)
    BY <2>4, HasIs
  <2>10. \A j \in Kinds, q \in Process : ~ (j = "node" /\ q = p) => b0 \notin Has(j, q)
    BY <2>9 DEF Kinds, Owned, Apart
  <2>11. Has("node", p)' = Has("node", p) \ {b0}
    BY <2>4, <2>6, HasIs
  <2>12. \A j \in Kinds, q \in Process : ~ (j = "node" /\ q = p) =>
           Has(j, q)' \subseteq Has(j, q) /\ Has(j, q) \subseteq Has(j, q)' \cup L
    <3> SUFFICES ASSUME NEW j \in Kinds, NEW q \in Process, ~ (j = "node" /\ q = p)
                 PROVE  Has(j, q)' \subseteq Has(j, q) /\ Has(j, q) \subseteq Has(j, q)' \cup L
      OBVIOUS
    <3>1. CASE j = "fifo"
      <4>1. /\ Has("fifo", q)' = BuffersIn(fifo'[q]) /\ Has("fifo", q) = BuffersIn(fifo[q])
        BY HasIs
      <4> QED BY <2>8, <3>1, <4>1
    <3>2. CASE j = "node"
      BY <2>6, <3>2, HasIs
    <3>3. CASE j \in {"held", "msg", "copy", "reflect"}
      BY <3>3, HasIs
    <3> QED BY <3>1, <3>2, <3>3 DEF Kinds
  <2> HIDE DEF b0
  <2>13. \A j \in Kinds, q \in Process : /\ Has(j, q)' \subseteq Has(j, q) \ {b0}
                                         /\ Has(j, q) \subseteq Has(j, q)' \cup {b0} \cup L
    BY <2>10, <2>11, <2>12
  <2>14. Apart' /\ \A b : Somewhere(b) /\ b \notin L => Somewhere(b)'
    <3> DEFINE D == {b0}
    <3>1. Release(D, L)
      BY <2>5, <2>13 DEF Release
    <3> HIDE DEF D
    <3> QED BY <3>1, Released DEF Owned
  <2>15. \A b \in L : Excused(b)
    <3> SUFFICES ASSUME NEW b \in L PROVE Excused(b)
      OBVIOUS
    <3>1. PICK q \in Process : ~ IsOpen(q, up, sendList') /\ b \in BuffersIn(fifo[q])
      BY DEF L
    <3>2. ~ IsOpen(q, up', sendList')
      BY <3>1
    <3>3. \E k1 \in DOMAIN fifo[q] : fifo[q][k1].buf = b
      BY <3>1 DEF BuffersIn
    <3> QED BY <3>2, <3>3 DEF Excused
  <2>16. NoneTwice'
    BY <2>4, <2>6, <2>7, EmptyBuffers DEF Owned, NoneTwice
  <2> QED BY <2>14, <2>15, <2>16 DEF Kept, Owned
<1> QED BY <1>1, <1>2 DEF RemoveNode

(* A free buffer becomes the copy of a call. *)
LEMMA CopyKept ==
  ASSUME TypeInv, Owned, NEW p \in Process, NEW b \in Buffer, TakeBuffer(b),
         call[p].copy = Nil, call'[p].copy = b, call'[p].msg = call[p].msg,
         \A q \in Process \ {p} : call'[q] = call[q],
         UNCHANGED <<held, sendList, fifo, reflect>>
  PROVE  Kept
<1>1. b \in free /\ free' = free \ {b} /\ b # Nil
  BY DEF TakeBuffer
<1>2. Has("copy", p) = {} /\ Has("copy", p)' = {b} /\ "copy" \in Kinds
  BY <1>1, HasIs DEF BufferOf, Kinds
<1>3. \A k \in Kinds, q \in Process : ~ (k = "copy" /\ q = p) => Has(k, q)' = Has(k, q)
  BY HasIs DEF Kinds
<1>4. Apart' /\ \A c : Somewhere(c) => Somewhere(c)'
  <2>1. Has("copy", p)' = Has("copy", p) \cup {b}
    BY <1>2
  <2>2. Take(b, "copy", p)
    BY <1>1, <1>2, <1>3, <2>1 DEF Take
  <2> QED BY <2>2, Taken DEF Owned
<1>5. NoneTwice'
  BY DEF Owned, NoneTwice
<1> QED BY <1>4, <1>5 DEF Kept, Owned

(* The steps that change the queues a process has open. *)
LEMMA PeersBuffers ==
  ASSUME TypeInv, Owned, NEW p \in Process, Peers(p)
  PROVE  Kept
<1>0. CallInv /\ NoCall.msg = Nil /\ NoCall.copy = Nil
  BY DEF TypeInv, NoCall
<1>1. ASSUME NEW n \in Process, NEW g \in Group, radQueueAttach(p, n, g) PROVE Kept
  <2>1. call[p] = NoCall
    BY <1>0, <1>1 DEF CallInv, Fits, radQueueAttach
  <2>2. \A q \in Process : call'[q].msg = call[q].msg /\ call'[q].copy = call[q].copy
    BY <1>0, <1>1, <2>1, AttachType
  <2> QED BY <1>1, <2>2, SameKept DEF radQueueAttach
<1>2. ASSUME NEW n \in Process, NEW g \in Group, radQueueDettach(p, n, g) PROVE Kept
  BY <1>2, RemoveNodeKept DEF radQueueDettach
<1>3. CASE AttachKnown(p)
  <2>1. \A q \in Process : call'[q].msg = call[q].msg /\ call'[q].copy = call[q].copy
    BY <1>0, <1>3, AttachKnownType
  <2> QED BY <1>3, <2>1, SameKept DEF AttachKnown
<1>4. CASE AttachNode(p)
  <2>1. PICK b \in Buffer : TakeBuffer(b) /\ call' = [call EXCEPT ![p].copy = b]
    BY <1>4 DEF AttachNode
  <2>2. b # Nil /\ b \in Buffer \cup {Nil} /\ "open" \in {"open", "write"}
        /\ GoTo(p, "open") /\ pc[p] = "attach"
    BY <1>4 DEF AttachNode
  <2>3. call'[p].copy = b /\ call'[p].msg = call[p].msg /\ \A q \in Process \ {p} : call'[q] = call[q]
    BY <1>0, <2>1, <2>2, CopyStep
  <2>4. call[p].copy = Nil
    BY <1>0, <2>2 DEF CallInv, Fits
  <2>5. UNCHANGED <<held, sendList, fifo, reflect>>
    BY <1>4 DEF AttachNode
  <2> QED BY <2>1, <2>3, <2>4, <2>5, CopyKept
<1>5. CASE AttachOpen(p)
  <2> DEFINE node == [name |-> call[p].cur, group |-> call[p].group, buf |-> call[p].copy]
             b == call[p].copy
  <2>1. /\ node \in Node /\ call'[p].copy = Nil
        /\ call'[p].msg = call[p].msg \/ call[p].msg = Nil
        /\ \A q \in Process \ {p} : call'[q] = call[q]
    BY <1>5, AttachOpenType
  <2>2. node.buf = b
    OBVIOUS
  <2>3. call'[p].msg = call[p].msg
    <3>1. CASE IsAttach(p)
      <4>1. call'[p] = NoCall
        BY <1>0, <1>5, <3>1, ReturnStep DEF AttachOpen
      <4>2. call[p].msg = Nil
        BY <1>0, <1>5, <3>1 DEF CallInv, Fits, IsAttach, AttachOpen
      <4> QED BY <1>0, <4>1, <4>2
    <3>2. CASE ~ IsAttach(p)
      <4>1. GoTo(p, "next") /\ call' = [call EXCEPT ![p].copy = Nil] /\ pc[p] \in {"open", "write"}
        BY <1>5, <3>2 DEF AttachOpen
      <4> QED BY <1>0, <3>2, <4>1, DropStep
    <3> QED BY <3>1, <3>2
  <2>4. sendList' = [sendList EXCEPT ![p] = Append(@, node)] /\ UNCHANGED <<free, held, fifo, reflect>>
    BY <1>5 DEF AttachOpen
  <2> HIDE DEF node
  <2>5. sendList[p] \in Seq(Node) /\ sendList'[p] = Append(sendList[p], node)
        /\ \A q \in Process \ {p} : sendList'[q] = sendList[q]
    BY <2>4 DEF TypeInv, RestOK
  <2> HIDE DEF b
  <2>6. Has("copy", p) = BufferOf(b) /\ Has("copy", p)' = {}
    BY <2>1, HasIs DEF BufferOf, b
  <2>7. /\ BuffersIn(sendList'[p]) = BuffersIn(sendList[p]) \cup BufferOf(b)
        /\ BuffersDiffer(sendList[p]) /\ b \notin BuffersIn(sendList[p]) => BuffersDiffer(sendList'[p])
    BY <2>1, <2>2, <2>5, AppendBuffers
  <2>8. b # Nil => b \notin BuffersIn(sendList[p])
    <3>1. b # Nil => b \in Has("copy", p)
      BY <2>6 DEF BufferOf
    <3>2. b # Nil => b \notin Has("node", p)
      BY <3>1 DEF Owned, Apart, Kinds
    <3> QED BY <3>2, HasIs
  <2>9. b # Nil
    BY <1>0, <1>5 DEF CallInv, Fits, AttachOpen, b
  <2>10. NoneTwice'
    BY <2>4, <2>5, <2>7, <2>8, <2>9 DEF Owned, NoneTwice
  <2>11. Has("node", p)' = Has("node", p) \cup BufferOf(b)
    BY <2>7, HasIs
  <2>12. \A k \in Kinds, q \in Process :
           ~ (k = "copy" /\ q = p) /\ ~ (k = "node" /\ q = p) => Has(k, q)' = Has(k, q)
    BY <2>1, <2>3, <2>4, <2>5, HasIs DEF Kinds
  <2>13. "copy" \in Kinds /\ "node" \in Kinds /\ "copy" # "node" /\ Has("copy", p)' = Has("copy", p) \ BufferOf(b)
         /\ BufferOf(b) \subseteq Has("copy", p)
    BY <2>6 DEF Kinds
  <2>14. Apart' /\ \A c : Somewhere(c) => Somewhere(c)'
    <3> DEFINE D == BufferOf(b)
    <3>1. /\ D \subseteq Has("copy", p) /\ Has("copy", p)' = Has("copy", p) \ D
          /\ Has("node", p)' = Has("node", p) \cup D /\ free' = free /\ Apart
      BY <2>4, <2>11, <2>13 DEF Owned
    <3> HIDE DEF D
    <3>2. Transfer(D, "copy", p, "node", p)
      BY <2>12, <2>13, <3>1 DEF Transfer
    <3> QED BY <3>1, <3>2, Moved
  <2> QED BY <2>10, <2>14 DEF Kept, Owned
<1>6. CASE QuitDetach(p)
  BY <1>6, RemoveNodeKept DEF QuitDetach
<1> QED BY <1>1, <1>2, <1>3, <1>4, <1>5, <1>6 DEF Peers

(* A message goes into a pipe with the buffer it had in place k0. *)
LEMMA DeliverKept ==
  ASSUME TypeInv, Owned, NEW p \in Process, NEW q \in Process, NEW b \in Buffer \cup {Nil},
         Deliver(p, q, b), NEW k0 \in {"held", "copy"}, BufferOf(b) \subseteq Has(k0, p),
         Has(k0, p)' = Has(k0, p) \ BufferOf(b), free' = free, sendList' = sendList,
         \A k \in {"held", "msg", "copy", "node"}, r \in Process :
           ~ (k = k0 /\ r = p) => Has(k, r)' = Has(k, r)
  PROVE  Kept
<1> DEFINE m == Header(b)
           D == BufferOf(b)
<1>1. /\ m \in Seq(Block) /\ BuffersIn(m) = D /\ BuffersDiffer(m)
      /\ k0 \in Kinds /\ k0 # "fifo" /\ k0 # "reflect" /\ "fifo" \in Kinds /\ "reflect" \in Kinds
  BY HeaderType, HeaderBuffers DEF Kinds
<1> HIDE DEF m
<1>2. \/ /\ reflect' = [reflect EXCEPT ![p] = @ \o m]
         /\ UNCHANGED fifo
      \/ /\ fifo' = [fifo EXCEPT ![q] = @ \o m]
         /\ UNCHANGED reflect
  BY DEF Deliver, m
<1>3. D \subseteq Has(k0, p) /\ Has(k0, p)' = Has(k0, p) \ D /\ Apart
  BY DEF Owned
<1>4. \A r \in Process : D \cap BuffersIn(fifo[r]) = {} /\ D \cap BuffersIn(reflect[r]) = {}
  <2>1. \A r \in Process : D \cap Has("fifo", r) = {} /\ D \cap Has("reflect", r) = {}
    BY <1>1, <1>3 DEF Apart
  <2> QED BY <2>1, HasIs
<1>6. CASE reflect' = [reflect EXCEPT ![p] = @ \o m] /\ UNCHANGED fifo
  <2>1. reflect[p] \in Seq(Block) /\ reflect'[p] = reflect[p] \o m
        /\ \A r \in Process \ {p} : reflect'[r] = reflect[r]
    BY <1>6 DEF TypeInv, PipesOK
  <2>2. /\ BuffersIn(reflect'[p]) = BuffersIn(reflect[p]) \cup D
        /\ BuffersDiffer(reflect[p]) => BuffersDiffer(reflect'[p])
    <3> HIDE DEF D
    <3>1. BuffersIn(reflect[p]) \cap BuffersIn(m) = {}
      BY <1>1, <1>4
    <3> QED BY <1>1, <2>1, <3>1, ConcatBuffers
  <2> HIDE DEF D
  <2>4. Has("reflect", p)' = Has("reflect", p) \cup D
    BY <2>2, HasIs
  <2>5. \A k \in Kinds, r \in Process :
          ~ (k = k0 /\ r = p) /\ ~ (k = "reflect" /\ r = p) => Has(k, r)' = Has(k, r)
    <3>1. \A r \in Process : Has("fifo", r)' = Has("fifo", r)
      BY <1>6, HasIs
    <3>2. \A r \in Process \ {p} : Has("reflect", r)' = Has("reflect", r)
      BY <2>1, HasIs
    <3>3. \A k \in Kinds : k \in {"held", "msg", "copy", "node"} \/ k = "fifo" \/ k = "reflect"
      BY DEF Kinds
    <3>4. \A k \in {"held", "msg", "copy", "node"}, r \in Process :
            ~ (k = k0 /\ r = p) => Has(k, r)' = Has(k, r)
      OBVIOUS
    <3> SUFFICES ASSUME NEW k \in Kinds, NEW r \in Process,
                        ~ (k = k0 /\ r = p), ~ (k = "reflect" /\ r = p)
                 PROVE  Has(k, r)' = Has(k, r)
      OBVIOUS
    <3>5. CASE k \in {"held", "msg", "copy", "node"}
      BY <3>4, <3>5
    <3>6. CASE k = "fifo"
      BY <3>1, <3>6
    <3>7. CASE k = "reflect"
      BY <3>2, <3>7
    <3> QED BY <3>3, <3>5, <3>6, <3>7
  <2>6. Apart' /\ \A c : Somewhere(c) => Somewhere(c)'
    <3>1. k0 \in Kinds /\ "reflect" \in Kinds /\ k0 # "reflect"
      BY <1>1
    <3>2. Has(k0, p)' = Has(k0, p) \ D /\ D \subseteq Has(k0, p)
      BY <1>3
    <3>3. Transfer(D, k0, p, "reflect", p)
      BY <1>3, <2>4, <2>5, <3>1, <3>2 DEF Transfer
    <3> QED BY <1>3, <3>3, Moved
  <2>7. NoneTwice'
    <3>1. BuffersDiffer(reflect'[p])
      BY <2>2 DEF Owned, NoneTwice
    <3>2. \A r \in Process : BuffersDiffer(reflect'[r])
      BY <2>1, <3>1 DEF Owned, NoneTwice
    <3> QED BY <1>6, <3>2 DEF Owned, NoneTwice
  <2> QED BY <2>6, <2>7 DEF Kept, Owned
<1>7. CASE fifo' = [fifo EXCEPT ![q] = @ \o m] /\ UNCHANGED reflect
  <2>1. fifo[q] \in Seq(Block) /\ fifo'[q] = fifo[q] \o m
        /\ \A r \in Process \ {q} : fifo'[r] = fifo[r]
    BY <1>7 DEF TypeInv, PipesOK
  <2>2. /\ BuffersIn(fifo'[q]) = BuffersIn(fifo[q]) \cup D
        /\ BuffersDiffer(fifo[q]) => BuffersDiffer(fifo'[q])
    <3> HIDE DEF D
    <3>1. BuffersIn(fifo[q]) \cap BuffersIn(m) = {}
      BY <1>1, <1>4
    <3> QED BY <1>1, <2>1, <3>1, ConcatBuffers
  <2> HIDE DEF D
  <2>4. Has("fifo", q)' = Has("fifo", q) \cup D
    BY <2>2, HasIs
  <2>5. \A k \in Kinds, r \in Process :
          ~ (k = k0 /\ r = p) /\ ~ (k = "fifo" /\ r = q) => Has(k, r)' = Has(k, r)
    <3>1. \A r \in Process : Has("reflect", r)' = Has("reflect", r)
      BY <1>7, HasIs
    <3>2. \A r \in Process \ {q} : Has("fifo", r)' = Has("fifo", r)
      BY <2>1, HasIs
    <3>3. \A k \in Kinds : k \in {"held", "msg", "copy", "node"} \/ k = "fifo" \/ k = "reflect"
      BY DEF Kinds
    <3>4. \A k \in {"held", "msg", "copy", "node"}, r \in Process :
            ~ (k = k0 /\ r = p) => Has(k, r)' = Has(k, r)
      OBVIOUS
    <3> SUFFICES ASSUME NEW k \in Kinds, NEW r \in Process,
                        ~ (k = k0 /\ r = p), ~ (k = "fifo" /\ r = q)
                 PROVE  Has(k, r)' = Has(k, r)
      OBVIOUS
    <3>5. CASE k \in {"held", "msg", "copy", "node"}
      BY <3>4, <3>5
    <3>6. CASE k = "reflect"
      BY <3>1, <3>6
    <3>7. CASE k = "fifo"
      BY <3>2, <3>7
    <3> QED BY <3>3, <3>5, <3>6, <3>7
  <2>6. Apart' /\ \A c : Somewhere(c) => Somewhere(c)'
    <3>1. k0 \in Kinds /\ "fifo" \in Kinds /\ k0 # "fifo"
      BY <1>1
    <3>2. Has(k0, p)' = Has(k0, p) \ D /\ D \subseteq Has(k0, p)
      BY <1>3
    <3>3. Transfer(D, k0, p, "fifo", q)
      BY <1>3, <2>4, <2>5, <3>1, <3>2 DEF Transfer
    <3> QED BY <1>3, <3>3, Moved
  <2>7. NoneTwice'
    <3>1. BuffersDiffer(fifo'[q])
      BY <2>2 DEF Owned, NoneTwice
    <3>2. \A r \in Process : BuffersDiffer(fifo'[r])
      BY <2>1, <3>1 DEF Owned, NoneTwice
    <3> QED BY <1>7, <3>2 DEF Owned, NoneTwice
  <2> QED BY <2>6, <2>7 DEF Kept, Owned
<1> QED BY <1>2, <1>6, <1>7

(* A program sends. *)
LEMMA SendKept ==
  ASSUME TypeInv, Owned, NEW p \in Process, NEW q \in Process, NEW b \in Payload(p), radQueueSend(p, q, b)
  PROVE  Kept
<1>1. b \in Buffer \cup {Nil} /\ BufferOf(b) \subseteq held[p]
  BY PayloadType
<1>2. Deliver(p, q, b) /\ free' = free /\ sendList' = sendList /\ call' = call
      /\ held' = [held EXCEPT ![p] = @ \ {b}]
  BY DEF radQueueSend
<1>3. held'[p] = held[p] \ BufferOf(b) /\ \A r \in Process \ {p} : held'[r] = held[r]
  BY <1>2 DEF TypeInv, RestOK, BufferOf
<1>4. BufferOf(b) \subseteq Has("held", p) /\ Has("held", p)' = Has("held", p) \ BufferOf(b)
  BY <1>1, <1>3, HasIs
<1>5. \A k \in {"held", "msg", "copy", "node"}, r \in Process :
        ~ (k = "held" /\ r = p) => Has(k, r)' = Has(k, r)
  BY <1>2, <1>3, HasIs
<1> QED BY <1>1, <1>2, <1>4, <1>5, DeliverKept

(* The message of a group send leaves the program. *)
LEMMA SendGroupKept ==
  ASSUME TypeInv, Owned, NEW p \in Process, NEW g \in Group, NEW b \in Payload(p), radQueueSendGroup(p, g, b)
  PROVE  Kept
<1>0. CallInv /\ NoCall.msg = Nil /\ NoCall.copy = Nil
  BY DEF TypeInv, NoCall
<1>1. b \in Buffer \cup {Nil} /\ BufferOf(b) \subseteq held[p]
  BY PayloadType
<1>2. free' = free /\ UNCHANGED <<sendList, fifo, reflect>> /\ held' = [held EXCEPT ![p] = @ \ {b}]
  BY DEF radQueueSendGroup
<1>3. held'[p] = held[p] \ BufferOf(b) /\ \A r \in Process \ {p} : held'[r] = held[r]
  BY <1>2 DEF TypeInv, RestOK, BufferOf
<1>4. call'[p].msg = b /\ call'[p].copy = Nil /\ \A r \in Process \ {p} : call'[r] = call[r]
  <2> DEFINE op == IF UpdateFlag(p, g) THEN "update" ELSE "send"
  <2>1. op \in {"join", "quit", "update", "send"} /\ op \in {"update", "send"}
    OBVIOUS
  <2>2. Begin(p, op, g, b) /\ GoTo(p, "next")
    BY DEF radQueueSendGroup
  <2> HIDE DEF op
  <2> QED BY <1>0, <1>1, <2>1, <2>2, BeginStep
<1>5. call[p] = NoCall
  BY <1>0 DEF CallInv, Fits, radQueueSendGroup
<1> DEFINE D == BufferOf(b)
<1>6. D \subseteq Has("held", p) /\ Has("held", p)' = Has("held", p) \ D
  BY <1>1, <1>3, HasIs
<1>7. Has("msg", p)' = Has("msg", p) \cup D
  <2>1. BufferOf(Nil) = {}
    BY DEF BufferOf
  <2> QED BY <1>0, <1>4, <1>5, <2>1, HasIs
<1>8. \A k \in Kinds, r \in Process :
        ~ (k = "held" /\ r = p) /\ ~ (k = "msg" /\ r = p) => Has(k, r)' = Has(k, r)
  BY <1>0, <1>2, <1>3, <1>4, <1>5, HasIs DEF Kinds
<1> HIDE DEF D
<1>9. "held" \in Kinds /\ "msg" \in Kinds /\ "held" # "msg" /\ Apart
  BY DEF Kinds, Owned
<1>10. Apart' /\ \A c : Somewhere(c) => Somewhere(c)'
  <2>1. Transfer(D, "held", p, "msg", p)
    BY <1>2, <1>6, <1>7, <1>8, <1>9 DEF Transfer
  <2> QED BY <1>9, <2>1, Moved
<1>11. NoneTwice'
  BY <1>2 DEF Owned, NoneTwice
<1> QED BY <1>10, <1>11 DEF Kept, Owned

(* A reflected message goes on. *)
LEMMA DummyKept ==
  ASSUME TypeInv, Owned, NEW p \in Process, dummyChild(p)
  PROVE  Kept
<1>0. PICK n \in 1 .. Len(reflect[p]) :
        /\ fifo' = [fifo EXCEPT ![p] = @ \o SubSeq(reflect[p], 1, n)]
        /\ reflect' = [reflect EXCEPT ![p] = SubSeq(@, n + 1, Len(@))]
  BY DEF dummyChild
<1> DEFINE m == SubSeq(reflect[p], 1, n)
           rest == SubSeq(reflect[p], n + 1, Len(reflect[p]))
           D == BuffersIn(m)
<1>1. /\ reflect[p] \in Seq(Block) /\ n \in 0 .. Len(reflect[p]) /\ BuffersDiffer(reflect[p])
      /\ Len(reflect[p]) <= PipeCap /\ fifo[p] \in Seq(Block) /\ BuffersDiffer(fifo[p])
  BY DEF TypeInv, PipesOK, Owned, NoneTwice
<1>2. m \in Seq(Block)
  BY <1>1, TakeType
<1>3. /\ BuffersIn(rest) = BuffersIn(reflect[p]) \ D
      /\ D \subseteq BuffersIn(reflect[p]) /\ BuffersDiffer(rest) /\ BuffersDiffer(m)
  BY <1>1, SplitBuffers
<1>4. UNCHANGED <<sendList, free, held, call>>
  BY DEF dummyChild
<1>5. /\ fifo'[p] = fifo[p] \o m /\ reflect'[p] = rest
      /\ \A r \in Process \ {p} : fifo'[r] = fifo[r] /\ reflect'[r] = reflect[r]
  BY <1>0 DEF TypeInv, PipesOK
<1> HIDE DEF m, rest
<1>7. BuffersIn(fifo[p]) \cap D = {}
  <2> HIDE DEF D
  <2>1. \A b \in D : b \in Has("reflect", p)
    BY <1>3, HasIs
  <2>2. \A b \in D : b \notin Has("fifo", p)
    BY <2>1 DEF Owned, Apart, Kinds
  <2> QED BY <2>2, HasIs
<1>6. BuffersIn(fifo'[p]) = BuffersIn(fifo[p]) \cup D /\ BuffersDiffer(fifo'[p])
  BY <1>1, <1>2, <1>3, <1>5, <1>7, ConcatBuffers
<1> HIDE DEF D
<1>8. /\ D \subseteq Has("reflect", p) /\ Has("reflect", p)' = Has("reflect", p) \ D
      /\ Has("fifo", p)' = Has("fifo", p) \cup D
  BY <1>3, <1>5, <1>6, HasIs
<1>9. \A k \in Kinds, r \in Process :
        ~ (k = "reflect" /\ r = p) /\ ~ (k = "fifo" /\ r = p) => Has(k, r)' = Has(k, r)
  BY <1>4, <1>5, HasIs DEF Kinds
<1>10. "reflect" \in Kinds /\ "fifo" \in Kinds /\ "reflect" # "fifo" /\ Apart /\ free' = free
  BY <1>4 DEF Kinds, Owned
<1>11. Apart' /\ \A c : Somewhere(c) => Somewhere(c)'
  <2>1. Transfer(D, "reflect", p, "fifo", p)
    BY <1>8, <1>9, <1>10 DEF Transfer
  <2> QED BY <1>10, <2>1, Moved
<1>12. NoneTwice'
  BY <1>3, <1>4, <1>5, <1>6 DEF Owned, NoneTwice
<1> QED BY <1>11, <1>12 DEF Kept, Owned

(* A message is received. *)
LEMMA RecvKept ==
  ASSUME TypeInv, Owned, NEW p \in Process, radQueueRecv(p)
  PROVE  Kept
<1> DEFINE m == SubSeq(fifo[p], 1, HeaderBlocks)
           rest == SubSeq(fifo[p], HeaderBlocks + 1, Len(fifo[p]))
           D == BufferOf(fifo[p][HeaderBlocks].buf)
           L == BuffersIn(m) \ D
<1>1. /\ fifo[p] \in Seq(Block) /\ BuffersDiffer(fifo[p]) /\ HeaderBlocks \in 0 .. Len(fifo[p])
      /\ Len(fifo[p]) <= PipeCap /\ HeaderBlocks \in Nat
  BY DEF TypeInv, PipesOK, Owned, NoneTwice, radQueueRecv
<1>2. /\ BuffersIn(rest) = BuffersIn(fifo[p]) \ BuffersIn(m)
      /\ BuffersIn(m) \subseteq BuffersIn(fifo[p]) /\ BuffersDiffer(rest)
  BY <1>1, SplitBuffers
<1>2a. m \in Seq(Block) /\ Len(m) = HeaderBlocks /\ \A k \in 1 .. HeaderBlocks : m[k] = fifo[p][k]
  BY <1>1, TakeType
<1>2b. D \subseteq BuffersIn(m)
  <2>1. HeaderBlocks \in DOMAIN m /\ m[HeaderBlocks] = fifo[p][HeaderBlocks]
    BY <1>1, <1>2a
  <2> QED BY <2>1 DEF BuffersIn, BufferOf
<1>3. UNCHANGED <<sendList, free, reflect, call>>
  BY DEF radQueueRecv
<1>4. /\ fifo'[p] = rest /\ held'[p] = held[p] \cup D
      /\ \A r \in Process \ {p} : fifo'[r] = fifo[r] /\ held'[r] = held[r]
  BY DEF TypeInv, PipesOK, RestOK, radQueueRecv
<1>5. \A b \in L : Excused(b)
  <2> SUFFICES ASSUME NEW b \in L PROVE Excused(b)
    OBVIOUS
  <2>1. PICK k \in 1 .. HeaderBlocks : m[k].buf = b /\ b # Nil
    BY <1>2a DEF BuffersIn
  <2>2. k # HeaderBlocks
    BY <1>2a, <2>1 DEF BufferOf
  <2>3. k \in DOMAIN fifo[p] /\ k < HeaderBlocks /\ fifo[p][k].buf = b
    BY <1>1, <1>2a, <2>1, <2>2
  <2>4. b \in BuffersIn(fifo[p]) /\ b \notin BuffersIn(rest)
    BY <1>2
  <2>5. fifo'[p] # fifo[p]
    BY <1>4, <2>4
  <2> QED BY <2>3, <2>5 DEF Excused
<1>6. D \cup L = BuffersIn(m)
  BY <1>2b
<1> HIDE DEF D, L, m, rest
<1>7. /\ D \subseteq Has("fifo", p) /\ Has("fifo", p)' = Has("fifo", p) \ (D \cup L)
      /\ Has("held", p)' = Has("held", p) \cup D
  BY <1>2, <1>2b, <1>4, <1>6, HasIs
<1>8. \A k \in Kinds, r \in Process :
        ~ (k = "fifo" /\ r = p) /\ ~ (k = "held" /\ r = p) => Has(k, r)' = Has(k, r)
  BY <1>3, <1>4, HasIs DEF Kinds
<1>9. "held" \in Kinds /\ "fifo" \in Kinds /\ "held" # "fifo" /\ Apart /\ free' = free
  BY <1>3 DEF Kinds, Owned
<1>10. Apart' /\ \A c : Somewhere(c) /\ c \notin L => Somewhere(c)'
  <2>1. Handover(D, L, "fifo", p, "held", p)
    BY <1>7, <1>8, <1>9 DEF Handover
  <2> QED BY <1>9, <2>1, HandedOver
<1>11. NoneTwice'
  BY <1>2, <1>3, <1>4 DEF Owned, NoneTwice
<1> QED BY <1>5, <1>10, <1>11 DEF Kept, Owned

(* A call ends or goes on, and its buffers D become free. *)
LEMMA FreedKept ==
  ASSUME TypeInv, Owned, NEW p \in Process, NEW D, free' = free \cup D,
         UNCHANGED <<held, sendList, fifo, reflect>>,
         \A q \in Process \ {p} : call'[q] = call[q],
         Has("msg", p)' = Has("msg", p) \ D, Has("copy", p)' = Has("copy", p) \ D,
         D \subseteq Has("msg", p) \cup Has("copy", p)
  PROVE  Kept
<1>1. Apart /\ \A k \in {"held", "node", "fifo", "reflect"} : k \in Kinds /\ k # "msg" /\ k # "copy"
  BY DEF Owned, Kinds
<1>2. "msg" \in Kinds /\ "copy" \in Kinds
  BY DEF Kinds
<1>3. \A k \in Kinds, q \in Process : ~ (k \in {"msg", "copy"} /\ q = p) =>
        Has(k, q)' = Has(k, q) /\ Has(k, q) \cap D = {}
  <2> SUFFICES ASSUME NEW k \in Kinds, NEW q \in Process, ~ (k \in {"msg", "copy"} /\ q = p)
               PROVE  Has(k, q)' = Has(k, q) /\ Has(k, q) \cap D = {}
    OBVIOUS
  <2>1. Has(k, q)' = Has(k, q)
    BY HasIs DEF Kinds
  <2>2. \A b \in Has(k, q) : b \notin Has("msg", p) /\ b \notin Has("copy", p)
    BY <1>1, <1>2 DEF Apart
  <2> QED BY <2>1, <2>2
<1>4. \A k \in Kinds, q \in Process : /\ Has(k, q)' \subseteq Has(k, q) \ D
                                      /\ Has(k, q) \subseteq Has(k, q)' \cup D \cup D
  BY <1>3
<1>5. Apart' /\ \A b : Somewhere(b) /\ b \notin D => Somewhere(b)'
  <2>1. Release(D, D)
    BY <1>4 DEF Release
  <2> QED BY <1>1, <2>1, Released
<1>6. \A b \in D : Somewhere(b)'
  BY DEF Somewhere
<1>7. NoneTwice'
  BY DEF Owned, NoneTwice
<1> QED BY <1>5, <1>6, <1>7 DEF Kept, Owned

(* A group message is copied and written. *)
LEMMA GroupKept ==
  ASSUME TypeInv, Owned, NEW p \in Process, GroupCopy(p) \/ GroupNoBuffer(p) \/ GroupWrite(p) \/ SendEnd(p)
  PROVE  Kept
<1>0. CallInv /\ NoCall.msg = Nil /\ NoCall.copy = Nil /\ BufferOf(Nil) = {}
  BY DEF TypeInv, NoCall, BufferOf
<1>1. CASE GroupCopy(p)
  <2>1. CASE UNCHANGED <<free, call>>
    BY <1>1, <2>1, SameKept DEF GroupCopy
  <2>2. CASE \E b \in Buffer : TakeBuffer(b) /\ call' = [call EXCEPT ![p].copy = b]
    <3>1. PICK b \in Buffer : TakeBuffer(b) /\ call' = [call EXCEPT ![p].copy = b]
      BY <2>2
    <3>2. b \in Buffer \cup {Nil} /\ "write" \in {"open", "write"} /\ GoTo(p, "write") /\ pc[p] = "copy"
      BY <1>1 DEF GroupCopy
    <3>3. call'[p].copy = b /\ call'[p].msg = call[p].msg /\ \A q \in Process \ {p} : call'[q] = call[q]
      BY <1>0, <3>1, <3>2, CopyStep
    <3>4. call[p].copy = Nil
      BY <1>0, <3>2 DEF CallInv, Fits
    <3>5. UNCHANGED <<held, sendList, fifo, reflect>>
      BY <1>1 DEF GroupCopy
    <3> QED BY <3>1, <3>3, <3>4, <3>5, CopyKept
  <2> QED BY <1>1, <2>1, <2>2 DEF GroupCopy
<1>2. CASE GroupNoBuffer(p) \/ SendEnd(p)
  <2>1. call'[p] = NoCall /\ \A q \in Process \ {p} : call'[q] = call[q]
    BY <1>0, <1>2, ReturnStep DEF GroupNoBuffer, SendEnd
  <2>2. call[p].copy = Nil
    BY <1>0, <1>2 DEF CallInv, Fits, GroupNoBuffer, SendEnd, AtEnd
  <2> DEFINE D == BufferOf(call[p].msg)
  <2>3. free' = free \cup D /\ UNCHANGED <<held, sendList, fifo, reflect>>
    BY <1>2 DEF GroupNoBuffer, SendEnd
  <2>4. Has("msg", p) = D /\ Has("msg", p)' = {} /\ Has("copy", p) = {} /\ Has("copy", p)' = {}
    BY <1>0, <2>1, <2>2, HasIs
  <2> HIDE DEF D
  <2>5. /\ Has("msg", p)' = Has("msg", p) \ D /\ Has("copy", p)' = Has("copy", p) \ D
        /\ D \subseteq Has("msg", p) \cup Has("copy", p)
    BY <2>4
  <2> QED BY <2>1, <2>3, <2>5, FreedKept
<1>3. CASE GroupWrite(p)
  <2> DEFINE b == call[p].copy
             D == BufferOf(b)
  <2>0. pc[p] = "write" /\ Fits("write", call[p]) /\ call[p] \in CallRecord
    BY <1>0, <1>3 DEF CallInv, GroupWrite
  <2>1. /\ call'[p].copy = Nil /\ call'[p].msg = call[p].msg
        /\ \A q \in Process \ {p} : call'[q] = call[q]
    <3>1. ~ IsAttach(p) /\ GoTo(p, "next") /\ call' = [call EXCEPT ![p].copy = Nil]
      BY <1>3, <2>0 DEF Fits, IsAttach, GroupWrite
    <3> QED BY <1>0, <2>0, <3>1, DropStep
  <2>2. b \in Buffer \cup {Nil} /\ call[p].cur \in Process
    BY <2>0, CallFields DEF Fits
  <2>3. UNCHANGED <<held, sendList>>
    BY <1>3 DEF GroupWrite
  <2>4. Has("copy", p) = D /\ Has("copy", p)' = {} /\ Has("msg", p)' = Has("msg", p)
    BY <1>0, <2>1, HasIs
  <2>5. Has("msg", p) \cap D = {}
    <3>1. \A c \in Has("msg", p) : c \notin Has("copy", p)
      BY DEF Owned, Apart, Kinds
    <3> QED BY <2>4, <3>1
  <2> HIDE DEF b
  <2>6. ASSUME free' = free \cup D, UNCHANGED <<fifo, reflect>> PROVE Kept
    <3> HIDE DEF D
    <3>1. /\ Has("msg", p)' = Has("msg", p) \ D /\ Has("copy", p)' = Has("copy", p) \ D
          /\ D \subseteq Has("msg", p) \cup Has("copy", p)
      BY <2>4, <2>5
    <3> QED BY <2>1, <2>3, <2>6, <3>1, FreedKept
  <2>7. ASSUME Attached(p, call[p].cur), ~ up[call[p].cur], free' = free, UNCHANGED <<fifo, reflect>>
        PROVE  Kept
    <3>1. \A c \in D : Excused(c)
      BY <2>0, <2>7 DEF Excused, BufferOf, b
    <3>2. \A k \in Kinds, q \in Process : ~ (k = "copy" /\ q = p) => Has(k, q)' = Has(k, q)
      BY <2>1, <2>3, <2>7, HasIs DEF Kinds
    <3> DEFINE none == {}
    <3>3. Apart /\ free' = free \cup none
      BY <2>7 DEF Owned
    <3> HIDE DEF D
    <3>4. \A k \in Kinds, q \in Process : /\ Has(k, q)' \subseteq Has(k, q) \ none
                                          /\ Has(k, q) \subseteq Has(k, q)' \cup none \cup D
      BY <2>4, <3>2
    <3> HIDE DEF none
    <3>5. Apart' /\ \A c : Somewhere(c) /\ c \notin D => Somewhere(c)'
      <4>1. Release(none, D)
        BY <3>3, <3>4 DEF Release
      <4> QED BY <3>3, <4>1, Released
    <3>6. NoneTwice'
      BY <2>3, <2>7 DEF Owned, NoneTwice
    <3> QED BY <3>1, <3>5, <3>6 DEF Kept, Owned
  <2>8. ASSUME Deliver(p, call[p].cur, b), free' = free PROVE Kept
    <3>1. \A k \in {"held", "msg", "copy", "node"}, r \in Process :
            ~ (k = "copy" /\ r = p) => Has(k, r)' = Has(k, r)
      BY <2>1, <2>3, HasIs
    <3>2. D \subseteq Has("copy", p) /\ Has("copy", p)' = Has("copy", p) \ D /\ sendList' = sendList
      BY <2>3, <2>4
    <3> QED BY <2>2, <2>8, <3>1, <3>2, DeliverKept
  <2> QED BY <1>3, <2>6, <2>7, <2>8 DEF GroupWrite, b
<1> QED BY <1>1, <1>2, <1>3

(* A signal ends the wait of a write, and the copy is released. *)
LEMMA InterruptedKept ==
  ASSUME TypeInv, Owned, NEW p \in Process, GroupWriteInterrupted(p)
  PROVE  Kept
<1> DEFINE D == BufferOf(call[p].copy)
<1>1. /\ call'[p].copy = Nil /\ call'[p].msg = call[p].msg
      /\ \A q \in Process \ {p} : call'[q] = call[q]
  BY MissStep
<1>2. free' = free \cup D /\ UNCHANGED <<held, sendList, fifo, reflect>>
  BY DEF GroupWriteInterrupted
<1>3. BufferOf(Nil) = {}
  BY DEF BufferOf
<1>4. Has("copy", p) = D /\ Has("copy", p)' = {} /\ Has("msg", p)' = Has("msg", p)
  BY <1>1, <1>3, HasIs
<1>5. Has("msg", p) \cap D = {}
  <2>1. \A c \in Has("msg", p) : c \notin Has("copy", p)
    BY DEF Owned, Apart, Kinds
  <2> QED BY <1>4, <2>1
<1> HIDE DEF D
<1>6. /\ Has("msg", p)' = Has("msg", p) \ D /\ Has("copy", p)' = Has("copy", p) \ D
      /\ D \subseteq Has("msg", p) \cup Has("copy", p)
  BY <1>4, <1>5
<1> QED BY <1>1, <1>2, <1>6, FreedKept

(* The steps that change the messages. *)
LEMMA TrafficBuffers ==
  ASSUME TypeInv, Owned, NEW p \in Process, Traffic(p)
  PROVE  Kept
BY SendKept, SendGroupKept, DummyKept, RecvKept, GroupKept, InterruptedKept DEF Traffic

(* An attach fails. *)
LEMMA FailsKept ==
  ASSUME TypeInv, Owned, NEW p \in Process, AttachNoBuffer(p) \/ AttachOpenFails(p)
  PROVE  Kept
<1>0. CallInv /\ NoCall.msg = Nil /\ NoCall.copy = Nil /\ BufferOf(Nil) = {}
  BY DEF TypeInv, NoCall, BufferOf
<1>1. AttachFails(p, call[p].copy)
  <2>1. CASE AttachNoBuffer(p)
    <3>1. call[p].copy = Nil
      BY <1>0, <2>1 DEF CallInv, Fits, AttachNoBuffer
    <3> QED BY <2>1, <3>1 DEF AttachNoBuffer
  <2>2. CASE AttachOpenFails(p)
    BY <2>2 DEF AttachOpenFails
  <2> QED BY <2>1, <2>2
<1>2. call'[p] = NoCall /\ \A q \in Process \ {p} : call'[q] = call[q]
  BY <1>0, <1>1, ReturnStep DEF AttachFails
<1> DEFINE D == BufferOf(call[p].copy) \cup BufferOf(call[p].msg)
<1>3. free' = free \cup D /\ UNCHANGED <<held, sendList, fifo, reflect>>
  BY <1>1 DEF AttachFails
<1>4. /\ Has("msg", p)' = {} /\ Has("copy", p)' = {} /\ D = Has("msg", p) \cup Has("copy", p)
  BY <1>0, <1>2, HasIs
<1> HIDE DEF D
<1>5. /\ Has("msg", p)' = Has("msg", p) \ D /\ Has("copy", p)' = Has("copy", p) \ D
      /\ D \subseteq Has("msg", p) \cup Has("copy", p)
  BY <1>4
<1> QED BY <1>2, <1>3, <1>5, FreedKept

(* A program takes a buffer, ... *)
LEMMA GetKept ==
  ASSUME TypeInv, Owned, NEW p \in Process, radBufferGet(p)
  PROVE  Kept
<1>1. PICK b \in Buffer : TakeBuffer(b) /\ held' = [held EXCEPT ![p] = @ \cup {b}]
  BY DEF radBufferGet
<1>2. b \in free /\ free' = free \ {b} /\ Apart /\ "held" \in Kinds
  BY <1>1 DEF TakeBuffer, Owned, Kinds
<1>3. held'[p] = held[p] \cup {b} /\ \A r \in Process \ {p} : held'[r] = held[r]
  BY <1>1 DEF TypeInv, RestOK
<1>4. UNCHANGED <<sendList, fifo, reflect, call>>
  BY DEF radBufferGet
<1>5. Has("held", p)' = Has("held", p) \cup {b}
  BY <1>3, HasIs
<1>6. \A k \in Kinds, q \in Process : ~ (k = "held" /\ q = p) => Has(k, q)' = Has(k, q)
  BY <1>3, <1>4, HasIs DEF Kinds
<1>7. Apart' /\ \A c : Somewhere(c) => Somewhere(c)'
  <2>1. Take(b, "held", p)
    BY <1>2, <1>5, <1>6 DEF Take
  <2> QED BY <1>2, <2>1, Taken
<1>8. NoneTwice'
  BY <1>4 DEF Owned, NoneTwice
<1> QED BY <1>7, <1>8 DEF Kept, Owned

(* ... or gives one back. *)
LEMMA RlsKept ==
  ASSUME TypeInv, Owned, NEW p \in Process, NEW b \in held[p], radBufferRls(p, b)
  PROVE  Kept
<1> DEFINE D == {b}
<1>1. free' = free \cup D /\ UNCHANGED <<sendList, fifo, reflect, call>> /\ Apart
  BY DEF radBufferRls, Owned
<1>2. held'[p] = held[p] \ D /\ \A r \in Process \ {p} : held'[r] = held[r]
  BY DEF TypeInv, RestOK, radBufferRls
<1>3. D \subseteq Has("held", p) /\ "held" \in Kinds
  BY HasIs DEF Kinds
<1> HIDE DEF D
<1>4. Has("held", p)' = Has("held", p) \ D
  BY <1>2, HasIs
<1>5. \A k \in Kinds, q \in Process : ~ (k = "held" /\ q = p) =>
        Has(k, q)' = Has(k, q) /\ Has(k, q) \cap D = {}
  <2> SUFFICES ASSUME NEW k \in Kinds, NEW q \in Process, ~ (k = "held" /\ q = p)
               PROVE  Has(k, q)' = Has(k, q) /\ Has(k, q) \cap D = {}
    OBVIOUS
  <2>1. Has(k, q)' = Has(k, q)
    BY <1>1, <1>2, HasIs DEF Kinds
  <2>2. \A c \in Has(k, q) : c \notin Has("held", p)
    BY <1>1, <1>3 DEF Apart
  <2> QED BY <1>3, <2>1, <2>2
<1>6. \A k \in Kinds, q \in Process : /\ Has(k, q)' \subseteq Has(k, q) \ D
                                      /\ Has(k, q) \subseteq Has(k, q)' \cup D \cup D
  BY <1>4, <1>5
<1>7. Apart' /\ \A c : Somewhere(c) /\ c \notin D => Somewhere(c)'
  <2>1. Release(D, D)
    BY <1>1, <1>6 DEF Release
  <2> QED BY <1>1, <2>1, Released
<1>8. \A c \in D : Somewhere(c)'
  BY <1>1 DEF Somewhere
<1>9. NoneTwice'
  BY <1>1 DEF Owned, NoneTwice
<1> QED BY <1>7, <1>8, <1>9 DEF Kept, Owned

(* The other steps. *)
LEMMA OthersBuffers ==
  ASSUME TypeInv, Owned, NEW p \in Process, Others(p)
  PROVE  Kept
<1>0. CallInv /\ NoCall.msg = Nil /\ NoCall.copy = Nil
  BY DEF TypeInv, NoCall
<1>1. CASE Crash(p)
  <2> DEFINE none == {}
  <2>1. pc[p] # "down" /\ none \subseteq Has("node", p) /\ free' = free \cup none
    BY <1>1 DEF Crash
  <2>2. PICK f : Gone(p, f) /\ Left(p, f)
    <3>1. CASE Gone(p, fifo)
      <4>1. Left(p, fifo)
        BY DEF Left
      <4> QED BY <3>1, <4>1
    <3>2. CASE Len(fifo[p]) < HeaderBlocks /\ Gone(p, [fifo EXCEPT ![p] = <<>>])
      <4>1. Left(p, [fifo EXCEPT ![p] = <<>>])
        BY <3>2 DEF Left, TypeInv, PipesOK
      <4> QED BY <3>2, <4>1
    <3> QED BY <1>1, <3>1, <3>2 DEF Crash
  <2> HIDE DEF none
  <2> QED BY <2>1, <2>2, GoneKept
<1>2. ASSUME NEW g \in Group, radQueueQuitGroup(p, g) PROVE Kept
  <2>1. call'[p].msg = Nil /\ call'[p].copy = Nil /\ \A q \in Process \ {p} : call'[q] = call[q]
    BY <1>0, <1>2, BeginStep DEF radQueueQuitGroup
  <2>2. call[p] = NoCall
    BY <1>0, <1>2 DEF CallInv, Fits, radQueueQuitGroup
  <2>3. \A q \in Process : call'[q].msg = call[q].msg /\ call'[q].copy = call[q].copy
    BY <1>0, <2>1, <2>2
  <2> QED BY <1>2, <2>3, SameKept DEF radQueueQuitGroup
<1>3. CASE NextName(p)
  <2>1. \A q \in Process : call'[q].msg = call[q].msg /\ call'[q].copy = call[q].copy
    BY <1>3, NextNameType
  <2> QED BY <1>3, <2>1, SameKept DEF NextName
<1>4. CASE JoinEnd(p)
  <2>1. call'[p] = NoCall /\ \A q \in Process \ {p} : call'[q] = call[q]
    BY <1>0, <1>4, ReturnStep DEF JoinEnd
  <2>2. call[p].msg = Nil /\ call[p].copy = Nil
    BY <1>0, <1>4 DEF CallInv, Fits, JoinEnd, AtEnd
  <2>3. \A q \in Process : call'[q].msg = call[q].msg /\ call'[q].copy = call[q].copy
    BY <1>0, <2>1, <2>2
  <2> QED BY <1>4, <2>3, SameKept DEF JoinEnd
<1>5. CASE UpdateEnd(p)
  <2>1. \A q \in Process : call'[q].msg = call[q].msg /\ call'[q].copy = call[q].copy
    BY <1>5, UpdateEndType
  <2> QED BY <1>5, <2>1, SameKept DEF UpdateEnd
<1> QED BY <1>1, <1>2, <1>3, <1>4, <1>5, FailsKept, GetKept, RlsKept DEF Others

-----------------------------------------------------------------------------
(* Every step keeps the buffers apart and loses none but the excused ones. *)
LEMMA OwnedStep == Inv /\ Owned /\ [Next]_vars => Kept
<1> SUFFICES ASSUME Inv, Owned, [Next]_vars PROVE Kept
  OBVIOUS
<1>1. CASE Next
  <2>1. PICK p \in Process : Records(p) \/ Peers(p) \/ Traffic(p) \/ Others(p)
    BY <1>1, Steps DEF Inv
  <2> QED BY <2>1, RecordsBuffers, PeersBuffers, TrafficBuffers, OthersBuffers DEF Inv
<1>2. CASE UNCHANGED vars
  BY <1>2, SameKept DEF vars
<1> QED BY <1>1, <1>2

(* All buffers are free at first. *)
LEMMA OwnedInit == Init => Owned
<1> SUFFICES ASSUME Init PROVE Owned
  OBVIOUS
<1>1. \A k \in Kinds, p \in Process : Has(k, p) = {}
  <2>1. BufferOf(NoCall.msg) = {} /\ BufferOf(NoCall.copy) = {}
    BY DEF NoCall, BufferOf
  <2> QED BY <2>1, HasIs, EmptyBuffers DEF Init, Kinds
<1>2. NoneTwice
  BY EmptyBuffers DEF Init, NoneTwice
<1> QED BY <1>1, <1>2 DEF Owned, Apart

(* A place of buffer b, as Places names it. *)
IsPlace(x, b) ==
  \/ b \in free /\ x = <<"free">>
  \/ \E k \in {"held", "msg", "copy"}, p \in Process : b \in Has(k, p) /\ x = <<k, p>>
  \/ \E p \in Process : \E k \in DOMAIN sendList[p] :
       b \in Has("node", p) /\ sendList[p][k].buf = b /\ x = <<"node", p, k>>
  \/ \E p \in Process : \E k \in DOMAIN fifo[p] :
       b \in Has("fifo", p) /\ fifo[p][k].buf = b /\ x = <<"fifo", p, k>>
  \/ \E p \in Process : \E k \in DOMAIN reflect[p] :
       b \in Has("reflect", p) /\ reflect[p][k].buf = b /\ x = <<"reflect", p, k>>

(* It is one of them. *)
LEMMA PlaceIs ==
  ASSUME NEW b \in Buffer, NEW x PROVE x \in Places(b) <=> IsPlace(x, b)
<1>1. b # Nil
  OBVIOUS
<1>2. \A p \in Process : /\ b \in held[p] <=> b \in Has("held", p)
                         /\ call[p].msg = b <=> b \in Has("msg", p)
                         /\ call[p].copy = b <=> b \in Has("copy", p)
  BY <1>1, HasIs DEF BufferOf
<1>3. \A p \in Process : /\ \A k \in DOMAIN sendList[p] : sendList[p][k].buf = b => b \in Has("node", p)
                         /\ \A k \in DOMAIN fifo[p] : fifo[p][k].buf = b => b \in Has("fifo", p)
                         /\ \A k \in DOMAIN reflect[p] : reflect[p][k].buf = b => b \in Has("reflect", p)
  BY <1>1, HasIs DEF BuffersIn
<1> DEFINE Free == {<<"free">> : y \in {b} \cap free}
           Held == {<<"held", p>> : p \in {p \in Process : b \in held[p]}}
           Msg == {<<"msg", p>> : p \in {p \in Process : call[p].msg = b}}
           Copy == {<<"copy", p>> : p \in {p \in Process : call[p].copy = b}}
           NodeAt(p) == {<<"node", p, k>> : k \in {k \in DOMAIN sendList[p] : sendList[p][k].buf = b}}
           FifoAt(p) == {<<"fifo", p, k>> : k \in {k \in DOMAIN fifo[p] : fifo[p][k].buf = b}}
           ReflectAt(p) == {<<"reflect", p, k>> : k \in {k \in DOMAIN reflect[p] : reflect[p][k].buf = b}}
<1>4. x \in Places(b) <=>
        \/ x \in Free \/ x \in Held \/ x \in Msg \/ x \in Copy
        \/ \E p \in Process : x \in NodeAt(p) \/ x \in FifoAt(p) \/ x \in ReflectAt(p)
  <2>1. x \in Places(b) <=>
          \/ x \in Free \/ x \in Held \/ x \in Msg \/ x \in Copy
          \/ x \in UNION {NodeAt(p) : p \in Process}
          \/ x \in UNION {FifoAt(p) : p \in Process}
          \/ x \in UNION {ReflectAt(p) : p \in Process}
    BY Zenon DEF Places
  <2> HIDE DEF Free, Held, Msg, Copy, NodeAt, FifoAt, ReflectAt
  <2> QED BY <2>1
<1>5. x \in Free <=> b \in free /\ x = <<"free">>
  OBVIOUS
<1>6. x \in Held \/ x \in Msg \/ x \in Copy <=>
        \E k \in {"held", "msg", "copy"}, p \in Process : b \in Has(k, p) /\ x = <<k, p>>
  BY <1>2
<1>7. ASSUME NEW p \in Process
      PROVE  /\ x \in NodeAt(p) <=> \E k \in DOMAIN sendList[p] :
                  b \in Has("node", p) /\ sendList[p][k].buf = b /\ x = <<"node", p, k>>
             /\ x \in FifoAt(p) <=> \E k \in DOMAIN fifo[p] :
                  b \in Has("fifo", p) /\ fifo[p][k].buf = b /\ x = <<"fifo", p, k>>
             /\ x \in ReflectAt(p) <=> \E k \in DOMAIN reflect[p] :
                  b \in Has("reflect", p) /\ reflect[p][k].buf = b /\ x = <<"reflect", p, k>>
  BY <1>3
<1> HIDE DEF Free, Held, Msg, Copy, NodeAt, FifoAt, ReflectAt
<1> QED BY <1>4, <1>5, <1>6, <1>7 DEF IsPlace

(* Two places of a buffer that is owned once are the same. *)
LEMMA OnePlace ==
  ASSUME TypeInv, Owned, NEW b \in Buffer, NEW x, NEW y, IsPlace(x, b), IsPlace(y, b)
  PROVE  x = y
<1>0. b # Nil
  OBVIOUS
<1>1. \A k, l \in Kinds, p, q \in Process : b \in Has(k, p) /\ b \in Has(l, q) => k = l /\ p = q
  BY DEF Owned, Apart
<1>2. \A k \in Kinds, p \in Process : b \in Has(k, p) => b \notin free
  BY DEF Owned, Apart
<1>3. {"held", "msg", "copy", "node", "fifo", "reflect"} = Kinds
  BY DEF Kinds
<1>4. \A p \in Process : BuffersDiffer(sendList[p]) /\ BuffersDiffer(fifo[p]) /\ BuffersDiffer(reflect[p])
  BY DEF Owned, NoneTwice
<1>5. CASE b \in free
  <2>1. ASSUME NEW z, IsPlace(z, b) PROVE z = <<"free">>
    BY <1>2, <1>3, <1>5, <2>1 DEF IsPlace
  <2> QED BY <2>1
<1>6. CASE \E k \in {"held", "msg", "copy"}, p \in Process : b \in Has(k, p)
  <2>1. PICK k \in {"held", "msg", "copy"}, p \in Process : b \in Has(k, p)
    BY <1>6
  <2>2. b \notin free /\ \A l \in Kinds, q \in Process : b \in Has(l, q) => l = k /\ q = p
    BY <1>1, <1>2, <1>3, <2>1
  <2>3. ASSUME NEW z, IsPlace(z, b) PROVE z = <<k, p>>
    <3>1. \A q \in Process : b \notin Has("node", q) /\ b \notin Has("fifo", q) /\ b \notin Has("reflect", q)
      BY <1>3, <2>1, <2>2
    <3>2. PICK l \in {"held", "msg", "copy"}, q \in Process : b \in Has(l, q) /\ z = <<l, q>>
      BY <2>2, <2>3, <3>1 DEF IsPlace
    <3> QED BY <1>3, <2>2, <3>2
  <2> QED BY <2>3
<1>7. ASSUME NEW p \in Process, b \in Has("node", p) PROVE x = y
  <2>1. b \notin free /\ \A l \in Kinds, q \in Process : b \in Has(l, q) => l = "node" /\ q = p
    BY <1>1, <1>2, <1>3, <1>7
  <2>2. ASSUME NEW z, IsPlace(z, b)
        PROVE  \E k \in DOMAIN sendList[p] : sendList[p][k].buf = b /\ z = <<"node", p, k>>
    <3>1. \A q \in Process : b \notin Has("fifo", q) /\ b \notin Has("reflect", q)
      BY <1>3, <2>1
    <3>2. \A k \in {"held", "msg", "copy"}, q \in Process : b \notin Has(k, q)
      BY <1>3, <2>1
    <3>3. PICK q \in Process : \E k \in DOMAIN sendList[q] :
             b \in Has("node", q) /\ sendList[q][k].buf = b /\ z = <<"node", q, k>>
      BY <2>1, <2>2, <3>1, <3>2 DEF IsPlace
    <3>4. q = p
      BY <1>3, <2>1, <3>3
    <3> QED BY <3>3, <3>4
  <2>3. PICK j \in DOMAIN sendList[p] : sendList[p][j].buf = b /\ x = <<"node", p, j>>
    BY <2>2
  <2>4. PICK k \in DOMAIN sendList[p] : sendList[p][k].buf = b /\ y = <<"node", p, k>>
    BY <2>2
  <2>5. j = k
    BY <1>0, <1>4, <2>3, <2>4 DEF BuffersDiffer
  <2> QED BY <2>3, <2>4, <2>5
<1>8. ASSUME NEW p \in Process, b \in Has("fifo", p) PROVE x = y
  <2>1. b \notin free /\ \A l \in Kinds, q \in Process : b \in Has(l, q) => l = "fifo" /\ q = p
    BY <1>1, <1>2, <1>3, <1>8
  <2>2. ASSUME NEW z, IsPlace(z, b)
        PROVE  \E k \in DOMAIN fifo[p] : fifo[p][k].buf = b /\ z = <<"fifo", p, k>>
    <3>1. \A q \in Process : b \notin Has("node", q) /\ b \notin Has("reflect", q)
      BY <1>3, <2>1
    <3>2. \A k \in {"held", "msg", "copy"}, q \in Process : b \notin Has(k, q)
      BY <1>3, <2>1
    <3>3. PICK q \in Process : \E k \in DOMAIN fifo[q] :
             b \in Has("fifo", q) /\ fifo[q][k].buf = b /\ z = <<"fifo", q, k>>
      BY <2>1, <2>2, <3>1, <3>2 DEF IsPlace
    <3>4. q = p
      BY <1>3, <2>1, <3>3
    <3> QED BY <3>3, <3>4
  <2>3. PICK j \in DOMAIN fifo[p] : fifo[p][j].buf = b /\ x = <<"fifo", p, j>>
    BY <2>2
  <2>4. PICK k \in DOMAIN fifo[p] : fifo[p][k].buf = b /\ y = <<"fifo", p, k>>
    BY <2>2
  <2>5. j = k
    BY <1>0, <1>4, <2>3, <2>4 DEF BuffersDiffer
  <2> QED BY <2>3, <2>4, <2>5
<1>9. ASSUME NEW p \in Process, b \in Has("reflect", p) PROVE x = y
  <2>1. b \notin free /\ \A l \in Kinds, q \in Process : b \in Has(l, q) => l = "reflect" /\ q = p
    BY <1>1, <1>2, <1>3, <1>9
  <2>2. ASSUME NEW z, IsPlace(z, b)
        PROVE  \E k \in DOMAIN reflect[p] : reflect[p][k].buf = b /\ z = <<"reflect", p, k>>
    <3>1. \A q \in Process : b \notin Has("node", q) /\ b \notin Has("fifo", q)
      BY <1>3, <2>1
    <3>2. \A k \in {"held", "msg", "copy"}, q \in Process : b \notin Has(k, q)
      BY <1>3, <2>1
    <3>3. PICK q \in Process : \E k \in DOMAIN reflect[q] :
             b \in Has("reflect", q) /\ reflect[q][k].buf = b /\ z = <<"reflect", q, k>>
      BY <2>1, <2>2, <3>1, <3>2 DEF IsPlace
    <3>4. q = p
      BY <1>3, <2>1, <3>3
    <3> QED BY <3>3, <3>4
  <2>3. PICK j \in DOMAIN reflect[p] : reflect[p][j].buf = b /\ x = <<"reflect", p, j>>
    BY <2>2
  <2>4. PICK k \in DOMAIN reflect[p] : reflect[p][k].buf = b /\ y = <<"reflect", p, k>>
    BY <2>2
  <2>5. j = k
    BY <1>0, <1>4, <2>3, <2>4 DEF BuffersDiffer
  <2> QED BY <2>3, <2>4, <2>5
<1> QED BY <1>5, <1>6, <1>7, <1>8, <1>9 DEF IsPlace

(* A buffer that is somewhere has a place, and nothing else has one. *)
LEMMA SomewherePlace == ASSUME NEW b \in Buffer PROVE (\E x : IsPlace(x, b)) <=> Somewhere(b)
<1>0. b # Nil /\ Kinds = {"held", "msg", "copy"} \cup {"node", "fifo", "reflect"}
  BY DEF Kinds
<1>1. ASSUME NEW x, IsPlace(x, b) PROVE Somewhere(b)
  BY <1>0, <1>1 DEF IsPlace, Somewhere
<1>2. ASSUME Somewhere(b) PROVE \E x : IsPlace(x, b)
  <2>1. CASE b \in free
    <3>1. IsPlace(<<"free">>, b)
      BY <2>1 DEF IsPlace
    <3> QED BY <3>1
  <2>2. ASSUME NEW k \in {"held", "msg", "copy"}, NEW p \in Process, b \in Has(k, p)
        PROVE  \E x : IsPlace(x, b)
    <3>1. IsPlace(<<k, p>>, b)
      BY <2>2 DEF IsPlace
    <3> QED BY <3>1
  <2>3. ASSUME NEW p \in Process, b \in Has("node", p) PROVE \E x : IsPlace(x, b)
    <3>1. PICK j \in DOMAIN sendList[p] : sendList[p][j].buf = b
      BY <2>3, HasIs DEF BuffersIn
    <3>2. IsPlace(<<"node", p, j>>, b)
      BY <2>3, <3>1 DEF IsPlace
    <3> QED BY <3>2
  <2>4. ASSUME NEW p \in Process, b \in Has("fifo", p) PROVE \E x : IsPlace(x, b)
    <3>1. PICK j \in DOMAIN fifo[p] : fifo[p][j].buf = b
      BY <2>4, HasIs DEF BuffersIn
    <3>2. IsPlace(<<"fifo", p, j>>, b)
      BY <2>4, <3>1 DEF IsPlace
    <3> QED BY <3>2
  <2>5. ASSUME NEW p \in Process, b \in Has("reflect", p) PROVE \E x : IsPlace(x, b)
    <3>1. PICK j \in DOMAIN reflect[p] : reflect[p][j].buf = b
      BY <2>5, HasIs DEF BuffersIn
    <3>2. IsPlace(<<"reflect", p, j>>, b)
      BY <2>5, <3>1 DEF IsPlace
    <3> QED BY <3>2
  <2> QED BY <1>0, <1>2, <2>1, <2>2, <2>3, <2>4, <2>5 DEF Somewhere
<1> QED BY <1>1, <1>2

(* So a buffer with no place is nowhere, now and after the step. *)
LEMMA PlacesNow == \A b \in Buffer : Places(b) # {} <=> Somewhere(b)
BY PlaceIs, SomewherePlace

LEMMA PlacesNext == (\A b \in Buffer : Places(b) # {} <=> Somewhere(b))'
BY PlacesNow, PTL

(* The invariant with the buffers. *)
LEMMA OwnedInvariant == Spec => [](Inv /\ Owned)
<1>1. Init => Inv /\ Owned
  BY InvInit, OwnedInit
<1>2. Inv /\ Owned /\ [Next]_vars => (Inv /\ Owned)'
  BY InvStep, OwnedStep DEF Kept
<1> QED BY <1>1, <1>2, PTL DEF Spec

(* A system buffer is never in two places (the handing over of buffers in  *)
(* radQueueSend, radQueueRecv, radQueueSendGroup, radQueueAttach and       *)
(* radQueueDettach).                                                       *)
THEOREM QueueOwner == Spec => []SingleOwner
<1>1. ASSUME Inv, Owned PROVE SingleOwner
  <2> SUFFICES ASSUME NEW b \in Buffer PROVE Cardinality(Places(b)) <= 1
    BY DEF SingleOwner
  <2>1. \A x, y \in Places(b) : x = y
    BY <1>1, PlaceIs, OnePlace DEF Inv
  <2>2. CASE Places(b) = {}
    <3>1. Cardinality(Places(b)) = 0
      BY <2>2, FS_EmptySet
    <3> QED BY <3>1
  <2>3. CASE Places(b) # {}
    <3>1. PICK x : x \in Places(b)
      BY <2>3
    <3>2. Places(b) = {x}
      BY <2>1, <3>1
    <3>3. Cardinality(Places(b)) = 1
      BY <3>2, FS_Singleton
    <3> QED BY <3>3
  <2> QED BY <2>2, <2>3
<1>2. Inv /\ Owned => SingleOwner
  BY <1>1
<1> QED BY <1>2, OwnedInvariant, PTL

(* No step loses a buffer but one in which the process that has it ends,   *)
(* the closing of a FIFO that nobody has open, the ERROR_ABORT of a group  *)
(* send (radQueueSendGroup), and a FIFO out of step, of which the receiver *)
(* reads a header that the reflector has cut (dummyChild, radQueueRecv).   *)
THEOREM QueueLosses == Spec => OnlyTheseLoseBuffers
<1>1. ASSUME Inv, Owned, [Next]_vars, NEW b \in Buffer, Places(b) # {}, Places(b)' = {}
      PROVE  Excused(b)
  <2>1. Somewhere(b)
    BY <1>1, PlacesNow
  <2>2. ~ Somewhere(b)'
    BY <1>1, PlacesNext
  <2> QED BY <1>1, <2>1, <2>2, OwnedStep DEF Kept
<1>2. Inv /\ Owned /\ [Next]_vars =>
        [\A b \in Buffer : Places(b) # {} /\ Places(b)' = {} =>
           \/ \E p \in Process : pc[p] # "down" /\ pc'[p] = "down" /\ b \in Carries(p)
           \/ \E p \in Process : /\ ~ IsOpen(p, up', sendList')
                                 /\ \E k \in DOMAIN fifo[p] : fifo[p][k].buf = b
           \/ \E p \in Process : /\ pc[p] = "write" /\ call[p].copy = b
                                 /\ Attached(p, call[p].cur) /\ ~ up[call[p].cur]
           \/ \E p \in Process : \E k \in DOMAIN fifo[p] :
                k < HeaderBlocks /\ fifo[p][k].buf = b /\ fifo'[p] # fifo[p]]_vars
  BY <1>1 DEF Excused
<1> QED BY <1>2, OwnedInvariant, PTL DEF OnlyTheseLoseBuffers, Spec

-----------------------------------------------------------------------------
(* Group sends that reach everybody.  Programs that join groups and stay   *)
(* in them until they die, and whose calls do not fail for want of a       *)
(* buffer or a FIFO.                                                       *)
JoinAndStay == ~ OpenFails /\ \A p \in Process : Calls[p] \cap {"exit", "quit", "attach"} = {}
FindsBuffers == \A p \in Process : ~ AttachNoBuffer(p)

(* The records of others in a group, and those a walk has still to see to. *)
Wanted(p, h) == {k \in DOMAIN table : table[k].group = h /\ table[k].name # p}
Coming(p) ==
  {k \in DOMAIN table : \/ k > call[p].index
                        \/ k = call[p].index /\ pc[p] \in {"attach", "open"}}
ToSend(p) ==
  {k \in DOMAIN table : \/ k > call[p].index
                        \/ k = call[p].index /\ pc[p] \in {"copy", "write"}}

(* The queues p has open, and the groups in which it has a mark. *)
Near(p) == NamesIn(sendList[p])
Marked(p) == {h \in Group : UpdateFlag(p, h)}

FirstForAll == 1 \in DOMAIN table => table[1].group = All

Walking(p) ==
  /\ call[p].op \in {"none", "join", "update", "send"}
  /\ call[p].op # "none" => call[p].index \in DOMAIN table
  /\ pc[p] \in {"attach", "open", "copy", "write"} => table[call[p].index].name = call[p].cur
  /\ pc[p] # "down" => 1 \in DOMAIN table

(* Process p is on its way to the queue of record k of group h. *)
OnItsWay(p, h, k) ==
  call[p].op \in {"join", "update"} /\ call[p].group = h /\ k \in Coming(p)

(* A member of a group is attached to all others, or has a mark that there *)
(* is somebody new, or is on its way to attach to them.                    *)
KnowsAll(p, h) ==
  (h \in groups[p] \ Marked(p)) \/ (call[p].op = "join" /\ call[p].group = h) =>
    \A k \in Wanted(p, h) : table[k].name \in Near(p) \/ OnItsWay(p, h, k)

(* The message of a group send will reach the queue of record k. *)
WillReach(p, k) ==
  /\ table[k].name \in Near(p) \/ (call[p].op = "update" /\ k \in Coming(p))
  /\ call[p].op = "send" => k \in ToSend(p)

(* Who has to get the message of a group send is still to come, but for    *)
(* those whose write was interrupted.                                      *)
Unreached(p) == must[p] \ call[p].missed

Reaches(p) ==
  must[p] # {} =>
    /\ call[p].op \in {"update", "send"} /\ call[p].group # All
    /\ \A n \in Unreached(p) : \E k \in Wanted(p, call[p].group) : table[k].name = n /\ WillReach(p, k)

Reached(p) == Walking(p) /\ Reaches(p) /\ \A h \in Group \ {All} : KnowsAll(p, h)

ReachInv == FirstForAll /\ \A p \in Process : Reached(p)

(* The table grows at its end, and who is marked stays marked. *)
Grows ==
  /\ \A k \in DOMAIN table :
       k \in DOMAIN table' /\ table'[k].name = table[k].name /\ table'[k].group = table[k].group
  /\ \A k \in DOMAIN table' : k \in DOMAIN table \/ \A j \in DOMAIN table : j < k
NewsFor(q) ==
  /\ Marked(q) \subseteq Marked(q)'
  /\ \A k \in DOMAIN table' :
       k \notin DOMAIN table /\ table'[k].group \in groups[q] => table'[k].group \in Marked(q)'

(* What is known of a table. *)
LEMMA TableIs ==
  ASSUME TableOK
  PROVE  /\ Len(table) \in Nat /\ DOMAIN table = 1 .. Len(table)
         /\ \A k \in DOMAIN table : table[k] \in Record /\ table[k].name \in Process /\ table[k].group \in Group
                                    /\ table[k].update \in BOOLEAN
<1>1. Len(table) \in Nat /\ DOMAIN table = 1 .. Len(table)
  BY DEF TableOK
<1>2. ASSUME NEW k \in DOMAIN table
      PROVE  table[k] \in Record /\ table[k].name \in Process /\ table[k].group \in Group
             /\ table[k].update \in BOOLEAN
  <2>1. table[k] \in Record
    BY <1>1 DEF TableOK
  <2> QED BY <2>1 DEF Record
<1> QED BY <1>1, <1>2

(* Who does nothing keeps what it knows while the table grows. *)
LEMMA StaysReached ==
  ASSUME Inv, NEW q \in Process, Reached(q), Grows, NewsFor(q), groups'[q] = groups[q],
         pc'[q] = pc[q], call'[q] = call[q], sendList'[q] = sendList[q], must'[q] \subseteq must[q]
  PROVE  Reached(q)'
<1>0. TableOK /\ Fits(pc[q], call[q]) /\ call[q] \in CallRecord
  BY DEF Inv, TypeInv, CallInv
<1>1. Len(table) \in Nat /\ DOMAIN table = 1 .. Len(table)
  BY <1>0, TableIs
<1>2. pc[q] \in {"attach", "open", "copy", "write"} => call[q].op # "none"
  BY <1>0 DEF Fits
<1>3. Walking(q)'
  BY <1>2 DEF Reached, Walking, Grows
<1>4. /\ Near(q)' = Near(q)
      /\ \A k \in DOMAIN table : /\ k \in Coming(q)' <=> k \in Coming(q)
                                 /\ k \in ToSend(q)' <=> k \in ToSend(q)
  BY DEF Near, NamesIn, Coming, ToSend, Grows
<1>5. ASSUME NEW h, NEW k \in Wanted(q, h)
      PROVE  k \in DOMAIN table /\ k \in Wanted(q, h)' /\ table'[k].name = table[k].name
  <2>1. k \in DOMAIN table /\ table[k].group = h /\ table[k].name # q
    BY DEF Wanted
  <2>2. k \in DOMAIN table' /\ table'[k].name = table[k].name /\ table'[k].group = table[k].group
    BY <2>1 DEF Grows
  <2> QED BY <2>1, <2>2 DEF Wanted
<1>6. Reaches(q)'
  <2>1. PICK h : h = call[q].group
    OBVIOUS
  <2>2. Wanted(q, call[q].group)' = Wanted(q, h)'
    BY <2>1 DEF Wanted
  <2>2a. Unreached(q)' \subseteq Unreached(q) /\ Unreached(q) \subseteq must[q]
    BY DEF Unreached
  <2> SUFFICES ASSUME must[q] # {}
               PROVE  /\ call'[q].op \in {"update", "send"} /\ h # All
                      /\ \A n \in Unreached(q) :
                           \E k \in Wanted(q, h)' : table'[k].name = n /\ WillReach(q, k)'
    BY <2>1, <2>2, <2>2a DEF Reaches
  <2>2b. call[q].op \in {"update", "send"} /\ h # All
    BY <2>1 DEF Reached, Reaches
  <2> SUFFICES ASSUME NEW n \in Unreached(q)
               PROVE  \E k \in Wanted(q, h)' : table'[k].name = n /\ WillReach(q, k)'
    BY <2>2b
  <2>3. PICK k \in Wanted(q, h) : table[k].name = n /\ WillReach(q, k)
    BY <2>1 DEF Reached, Reaches
  <2>4. call[q].op \in {"update", "send"} /\ h # All
    BY <2>1 DEF Reached, Reaches
  <2>5. k \in DOMAIN table /\ k \in Wanted(q, h)' /\ table'[k].name = n
    BY <1>5, <2>3
  <2>6. WillReach(q, k)'
    BY <1>4, <2>3, <2>5 DEF WillReach
  <2> QED BY <2>4, <2>5, <2>6
<1>7. ASSUME NEW h \in Group \ {All} PROVE KnowsAll(q, h)'
  <2> SUFFICES ASSUME \/ h \in groups[q] \ Marked(q)'
                      \/ call[q].op = "join" /\ call[q].group = h,
                      NEW k \in Wanted(q, h)'
               PROVE  table'[k].name \in Near(q)' \/ OnItsWay(q, h, k)'
    BY DEF KnowsAll
  <2>1. k \in DOMAIN table' /\ table'[k].group = h /\ table'[k].name # q
    BY DEF Wanted
  <2>2. CASE k \in DOMAIN table
    <3>1. k \in Wanted(q, h) /\ table'[k].name = table[k].name
      BY <2>1, <2>2 DEF Wanted, Grows
    <3>2. \/ h \in groups[q] \ Marked(q)
          \/ call[q].op = "join" /\ call[q].group = h
      BY DEF NewsFor
    <3>3. KnowsAll(q, h)
      BY DEF Reached
    <3>4. table[k].name \in Near(q) \/ OnItsWay(q, h, k)
      BY <3>1, <3>2, <3>3 DEF KnowsAll
    <3> QED BY <1>4, <2>2, <3>1, <3>4 DEF OnItsWay
  <2>3. CASE k \notin DOMAIN table
    <3>1. h \in groups[q] => h \in Marked(q)'
      BY <2>1, <2>3 DEF NewsFor
    <3>2. call[q].op = "join" /\ call[q].group = h
      BY <3>1
    <3>3. call[q].index \in DOMAIN table
      BY <3>2 DEF Reached, Walking
    <3>4. call[q].index < k
      BY <2>1, <2>3, <3>3 DEF Grows
    <3>5. k \in Coming(q)'
      BY <1>1, <2>1, <3>3, <3>4 DEF Coming
    <3> QED BY <3>2, <3>5 DEF OnItsWay
  <2> QED BY <2>2, <2>3
<1> QED BY <1>3, <1>6, <1>7 DEF Reached

(* A table that stays has no news. *)
LEMMA NoNews ==
  ASSUME Inv, UNCHANGED table
  PROVE  Grows /\ \A q : NewsFor(q)
  BY DEF Grows, NewsFor, Marked, UpdateFlag

(* The others do nothing, ... *)
Stays(q) ==
  /\ groups'[q] = groups[q] /\ pc'[q] = pc[q] /\ call'[q] = call[q]
  /\ sendList'[q] = sendList[q] /\ must'[q] \subseteq must[q]

(* ... so what process p knows is all there is to show. *)
LEMMA OneSteps ==
  ASSUME Inv, ReachInv, NEW p \in Process, FirstForAll', Reached(p)',
         Grows, \A q \in Process \ {p} : NewsFor(q) /\ Stays(q)
  PROVE  ReachInv'
<1>1. ASSUME NEW q \in Process \ {p} PROVE Reached(q)'
  BY StaysReached DEF ReachInv, Stays
<1> QED BY <1>1 DEF ReachInv

LEMMA OneWalks ==
  ASSUME Inv, ReachInv, NEW p \in Process, UNCHANGED table, Reached(p)',
         \A q \in Process \ {p} : Stays(q)
  PROVE  ReachInv'
<1>1. FirstForAll'
  BY DEF ReachInv, FirstForAll
<1> QED BY <1>1, NoNews, OneSteps

(* A walk passes on: it is attached to whom it leaves behind, or has       *)
(* written to them.                                                        *)
PassesOn(p) ==
  /\ call'[p].op = call[p].op /\ call'[p].group = call[p].group
  /\ groups'[p] = groups[p] /\ must'[p] \subseteq must[p] /\ Unreached(p)' \subseteq Unreached(p)
  /\ Near(p) \subseteq Near(p)'
  /\ \A h \in Group \ {All} : \A k \in Wanted(p, h) :
       /\ OnItsWay(p, h, k) => OnItsWay(p, h, k)' \/ table[k].name \in Near(p)'
       /\ call[p].op = "send" /\ call[p].group = h /\ k \in ToSend(p) /\ table[k].name \in Near(p) =>
            k \in ToSend(p)' \/ table[k].name \notin Unreached(p)'

LEMMA PassedOn ==
  ASSUME Inv, NEW p \in Process, UNCHANGED table, Reached(p), Walking(p)', PassesOn(p)
  PROVE  Reached(p)'
<1>1. ASSUME NEW h PROVE Wanted(p, h)' = Wanted(p, h)
  BY DEF Wanted
<1>2. Marked(p)' = Marked(p)
  BY DEF Marked, UpdateFlag
<1>3. call[p].group \in Group
  BY CallFields DEF Inv, TypeInv, CallInv
<1>4. Reaches(p)'
  <2>1. PICK h \in Group : h = call[p].group
    BY <1>3
  <2>2. Wanted(p, call[p].group)' = Wanted(p, h)
    BY <1>1, <2>1 DEF Wanted, PassesOn
  <2> SUFFICES ASSUME must[p] # {}
               PROVE  /\ call'[p].op \in {"update", "send"} /\ h # All
                      /\ \A n \in Unreached(p)' :
                           \E k \in Wanted(p, h) : table'[k].name = n /\ WillReach(p, k)'
    BY <2>1, <2>2 DEF Reaches, PassesOn
  <2>2a. call[p].op \in {"update", "send"} /\ h # All
    BY <2>1 DEF Reached, Reaches
  <2> SUFFICES ASSUME NEW n \in Unreached(p)'
               PROVE  \E k \in Wanted(p, h) : table'[k].name = n /\ WillReach(p, k)'
    BY <2>2a DEF PassesOn
  <2>3. n \in Unreached(p)
    BY DEF PassesOn
  <2>4. PICK k \in Wanted(p, h) : table[k].name = n /\ WillReach(p, k)
    BY <2>1, <2>3 DEF Reached, Reaches
  <2>5. call[p].op \in {"update", "send"} /\ h # All
    BY <2>1, <2>3 DEF Reached, Reaches
  <2>6. /\ OnItsWay(p, h, k) => OnItsWay(p, h, k)' \/ table[k].name \in Near(p)'
        /\ call[p].op = "send" /\ k \in ToSend(p) /\ table[k].name \in Near(p) => k \in ToSend(p)'
        /\ call'[p].op = call[p].op /\ Near(p) \subseteq Near(p)'
    BY <2>1, <2>4, <2>5 DEF PassesOn
  <2>7. WillReach(p, k)'
    <3>1. CASE call[p].op = "send"
      BY <2>4, <2>6, <3>1 DEF WillReach
    <3>2. CASE call[p].op = "update"
      BY <2>1, <2>4, <2>6, <3>2 DEF WillReach, OnItsWay
    <3> QED BY <2>5, <3>1, <3>2
  <2> QED BY <2>4, <2>5, <2>6, <2>7
<1>5. ASSUME NEW h \in Group \ {All} PROVE KnowsAll(p, h)'
  <2> SUFFICES ASSUME \/ h \in groups'[p] \ Marked(p)'
                      \/ call'[p].op = "join" /\ call'[p].group = h,
                      NEW k \in Wanted(p, h)'
               PROVE  table'[k].name \in Near(p)' \/ OnItsWay(p, h, k)'
    BY DEF KnowsAll
  <2>1. k \in Wanted(p, h)
    BY <1>1
  <2>2. h \in groups[p] \ Marked(p) \/ (call[p].op = "join" /\ call[p].group = h)
    BY <1>2 DEF PassesOn
  <2>3. table[k].name \in Near(p) \/ OnItsWay(p, h, k)
    BY <2>1, <2>2 DEF Reached, KnowsAll
  <2> QED BY <2>1, <2>3 DEF PassesOn
<1> QED BY <1>4, <1>5 DEF Reached

(* The call that begins or ends leaves nobody to be reached. *)
LEMMA ReturnsReached ==
  ASSUME Inv, NEW p \in Process, UNCHANGED table, Reached(p), pc[p] # "down",
         pc'[p] = "idle", call'[p] = NoCall, must'[p] = {}, sendList'[p] = sendList[p],
         groups'[p] \subseteq groups[p] \cup (IF call[p].op = "join" THEN {call[p].group} ELSE {}),
         \A h \in Group \ {All} : \A k \in Wanted(p, h) : ~ OnItsWay(p, h, k)
  PROVE  Reached(p)'
<1>1. Walking(p)'
  BY DEF Reached, Walking, NoCall
<1>2. Reaches(p)'
  BY DEF Reaches, Unreached
<1>3. Near(p)' = Near(p)
  BY DEF Near, NamesIn
<1>4. Marked(p)' = Marked(p)
  BY DEF Marked, UpdateFlag
<1>5. ASSUME NEW h \in Group \ {All} PROVE KnowsAll(p, h)'
  <2> SUFFICES ASSUME h \in groups'[p] \ Marked(p)', NEW k \in Wanted(p, h)'
               PROVE  table'[k].name \in Near(p)'
    BY DEF KnowsAll, NoCall
  <2>1. k \in Wanted(p, h)
    BY DEF Wanted
  <2>2. h \in groups[p] \ Marked(p) \/ (call[p].op = "join" /\ call[p].group = h)
    BY <1>4
  <2>3. table[k].name \in Near(p) \/ OnItsWay(p, h, k)
    BY <2>1, <2>2 DEF Reached, KnowsAll
  <2> QED BY <1>3, <2>1, <2>3
<1> QED BY <1>1, <1>2, <1>5 DEF Reached

(* What a step of p leaves alone. *)
LEMMA Alone ==
  ASSUME Inv, NEW p \in Process, UNCHANGED groups,
         \A q \in Process \ {p} : pc'[q] = pc[q] /\ call'[q] = call[q],
         \/ UNCHANGED sendList
         \/ \E s : sendList' = [sendList EXCEPT ![p] = s],
         \/ UNCHANGED must
         \/ \E m : must' = [must EXCEPT ![p] = m]
  PROVE  \A q \in Process \ {p} : Stays(q)
BY DEF Inv, TypeInv, RestOK, Stays

(* The next name is the next record of the group. *)
LEMMA NextNameReaches ==
  ASSUME Inv, ReachInv, NEW p \in Process, NextName(p), call[p].op # "quit"
  PROVE  ReachInv'
<1>1. TypeInv /\ TableOK /\ call[p] \in CallRecord /\ pc[p] = "next" /\ UNCHANGED table
  BY DEF Inv, TypeInv, CallInv, NextName
<1>2. Len(table) \in Nat /\ DOMAIN table = 1 .. Len(table)
  BY <1>1, TableIs
<1>3. PICK g : g = call[p].group
  OBVIOUS
<1>4. PICK i : i = call[p].index /\ i \in Nat
  BY <1>1, CallFields
<1>5. PICK k \in Later(i, g) :
        /\ \A j \in Later(i, g) : k <= j
        /\ call' = [call EXCEPT ![p].index = k, ![p].cur = table[k].name]
        /\ GoTo(p, CASE table[k].name = p -> "next"
                     [] table[k].name # p /\ call[p].op \in {"join", "update"} -> "attach"
                     [] table[k].name # p /\ call[p].op = "quit" -> "detach"
                     [] table[k].name # p /\ call[p].op = "send" -> "copy")
  BY <1>3, <1>4 DEF NextName
<1>6. k \in DOMAIN table /\ k > i
  BY <1>2, <1>4, <1>5 DEF Later
<1>7. call[p].op \in {"join", "update", "send"}
  BY <1>1 DEF NextName, Inv, TypeInv, CallInv, Fits
<1>8. /\ call'[p].op = call[p].op /\ call'[p].group = g /\ call'[p].index = k
      /\ call'[p].cur = table[k].name /\ call'[p].missed = call[p].missed
      /\ \A q \in Process \ {p} : call'[q] = call[q]
  BY <1>1, <1>3, <1>5 DEF Inv, TypeInv, CallInv, CallRecord
<1>9. /\ \A q \in Process \ {p} : pc'[q] = pc[q]
      /\ table[k].name # p /\ call[p].op \in {"join", "update"} => pc'[p] = "attach"
      /\ table[k].name # p /\ call[p].op = "send" => pc'[p] = "copy"
      /\ table[k].name = p => pc'[p] = "next"
  BY <1>1, <1>5, <1>7 DEF GoTo, Inv, TypeInv, CallInv
<1>10. \A q \in Process \ {p} : Stays(q)
  BY <1>8, <1>9, Alone DEF NextName
<1>11. Walking(p)'
  BY <1>1, <1>6, <1>7, <1>8, <1>9 DEF Walking, ReachInv, Reached
<1>12. PassesOn(p)
  <2>1. /\ groups'[p] = groups[p] /\ must'[p] = must[p] /\ Unreached(p)' = Unreached(p) /\ Near(p)' = Near(p)
    BY <1>8 DEF NextName, Near, NamesIn, Unreached
  <2>2. ASSUME NEW h \in Group \ {All}, NEW j \in Wanted(p, h), g = h, j > i
        PROVE  j > k \/ (j = k /\ table[k].name # p)
    <3>1. j \in Later(i, g)
      BY <1>2, <1>4, <2>2 DEF Wanted, Later
    <3>2. k <= j
      BY <1>5, <3>1
    <3> QED BY <1>2, <1>6, <2>2, <3>2 DEF Wanted
  <2>3. ASSUME NEW h \in Group \ {All}, NEW j \in Wanted(p, h), OnItsWay(p, h, j)
        PROVE  OnItsWay(p, h, j)'
    <3>1. g = h /\ j > i /\ call[p].op \in {"join", "update"} /\ j \in DOMAIN table
      BY <1>1, <1>3, <1>4, <2>3 DEF OnItsWay, Coming
    <3>2. j \in Coming(p)'
      BY <1>1, <1>8, <1>9, <2>2, <3>1 DEF Coming
    <3> QED BY <1>8, <3>1, <3>2 DEF OnItsWay
  <2>4. ASSUME NEW h \in Group \ {All}, NEW j \in Wanted(p, h), call[p].op = "send", g = h, j \in ToSend(p)
        PROVE  j \in ToSend(p)'
    <3>1. j > i /\ j \in DOMAIN table
      BY <1>1, <1>4, <2>4 DEF ToSend
    <3> QED BY <1>1, <1>8, <1>9, <2>2, <2>4, <3>1 DEF ToSend
  <2> QED BY <1>3, <1>8, <2>1, <2>3, <2>4 DEF PassesOn
<1> QED BY <1>1, <1>10, <1>11, <1>12, PassedOn, OneWalks DEF ReachInv

(* A queue that is known is attached. *)
LEMMA AttachKnownReaches ==
  ASSUME Inv, ReachInv, NEW p \in Process, AttachKnown(p)
  PROVE  ReachInv'
<1>1. CallInv /\ Fits(pc[p], call[p]) /\ pc[p] = "attach" /\ UNCHANGED table
  BY DEF Inv, TypeInv, CallInv, AttachKnown
<1>2. call[p].op \in {"join", "update"}
  BY <1>1 DEF Fits, ReachInv, Reached, Walking
<1>3. GoTo(p, "next") /\ UNCHANGED call
  BY <1>2 DEF AttachKnown, AfterAttach, IsAttach
<1>4. pc'[p] = "next" /\ \A q \in Process \ {p} : pc'[q] = pc[q]
  BY <1>1, <1>3 DEF GoTo, CallInv
<1>5. \A q \in Process \ {p} : Stays(q)
  BY <1>3, <1>4, Alone DEF AttachKnown
<1>6. call[p].cur \in Near(p) /\ table[call[p].index].name = call[p].cur
  BY <1>1 DEF AttachKnown, Known, Near, NamesIn, ReachInv, Reached, Walking
<1>7. Walking(p)'
  BY <1>1, <1>2, <1>3, <1>4 DEF ReachInv, Reached, Walking
<1>8. PassesOn(p)
  <2>1. UNCHANGED <<sendList, must, groups>>
    BY DEF AttachKnown
  <2>2. ASSUME NEW h \in Group \ {All}, NEW k \in Wanted(p, h), OnItsWay(p, h, k)
        PROVE  OnItsWay(p, h, k)' \/ table[k].name \in Near(p)
    BY <1>1, <1>3, <1>4, <1>6, <2>2 DEF OnItsWay, Coming
  <2> QED BY <1>2, <1>3, <2>1, <2>2 DEF PassesOn, Near, Unreached
<1> QED BY <1>1, <1>5, <1>7, <1>8, PassedOn, OneWalks DEF ReachInv

(* A node gets its buffer. *)
LEMMA AttachNodeReaches ==
  ASSUME Inv, ReachInv, NEW p \in Process, AttachNode(p)
  PROVE  ReachInv'
<1>1. CallInv /\ Fits(pc[p], call[p]) /\ pc[p] = "attach" /\ UNCHANGED table /\ call[p] \in CallRecord
  BY DEF Inv, TypeInv, CallInv, AttachNode
<1>2. call[p].op \in {"join", "update"}
  BY <1>1 DEF Fits, ReachInv, Reached, Walking
<1>3. PICK b \in Buffer : call' = [call EXCEPT ![p].copy = b]
  BY DEF AttachNode
<1>4. pc'[p] = "open" /\ \A q \in Process \ {p} : pc'[q] = pc[q]
  BY <1>1 DEF AttachNode, GoTo, CallInv
<1>5. /\ call'[p].op = call[p].op /\ call'[p].group = call[p].group
      /\ call'[p].index = call[p].index /\ call'[p].cur = call[p].cur
      /\ call'[p].missed = call[p].missed
      /\ \A q \in Process \ {p} : call'[q] = call[q]
  BY <1>1, <1>3 DEF CallInv, CallRecord
<1>6. \A q \in Process \ {p} : Stays(q)
  BY <1>4, <1>5, Alone DEF AttachNode
<1>7. Walking(p)'
  BY <1>1, <1>2, <1>4, <1>5 DEF ReachInv, Reached, Walking
<1>8. PassesOn(p)
  <2>1. UNCHANGED <<sendList, must, groups>>
    BY DEF AttachNode
  <2>2. ASSUME NEW h \in Group \ {All}, NEW k \in Wanted(p, h), OnItsWay(p, h, k)
        PROVE  OnItsWay(p, h, k)'
    BY <1>1, <1>4, <1>5, <2>2 DEF OnItsWay, Coming
  <2> QED BY <1>2, <1>5, <2>1, <2>2 DEF PassesOn, Unreached, Near
<1> QED BY <1>1, <1>6, <1>7, <1>8, PassedOn, OneWalks DEF ReachInv

(* The node of a queue is put in the send list. *)
LEMMA AttachOpenReaches ==
  ASSUME Inv, ReachInv, NEW p \in Process, AttachOpen(p)
  PROVE  ReachInv'
<1>1. CallInv /\ Fits(pc[p], call[p]) /\ pc[p] = "open" /\ UNCHANGED table /\ call[p] \in CallRecord
  BY DEF Inv, TypeInv, CallInv, AttachOpen
<1>2. call[p].op \in {"join", "update"}
  BY <1>1 DEF Fits, ReachInv, Reached, Walking
<1>3. GoTo(p, "next") /\ call' = [call EXCEPT ![p].copy = Nil]
  BY <1>2 DEF AttachOpen, IsAttach
<1>4. pc'[p] = "next" /\ \A q \in Process \ {p} : pc'[q] = pc[q]
  BY <1>1, <1>3 DEF GoTo, CallInv
<1>5. /\ call'[p].op = call[p].op /\ call'[p].group = call[p].group
      /\ call'[p].index = call[p].index /\ call'[p].cur = call[p].cur
      /\ call'[p].missed = call[p].missed
      /\ \A q \in Process \ {p} : call'[q] = call[q]
  BY <1>1, <1>3 DEF CallInv, CallRecord
<1>6. \A q \in Process \ {p} : Stays(q)
  BY <1>4, <1>5, Alone DEF AttachOpen
<1>7. Walking(p)'
  BY <1>1, <1>2, <1>4, <1>5 DEF ReachInv, Reached, Walking
<1>8. Near(p) \subseteq Near(p)' /\ call[p].cur \in Near(p)'
  <2> DEFINE node == [name |-> call[p].cur, group |-> call[p].group, buf |-> call[p].copy]
  <2>1. sendList[p] \in Seq(Node) /\ sendList \in [Process -> Seq(Node)]
    BY DEF Inv, TypeInv, RestOK
  <2>2. node \in Node /\ node.name = call[p].cur
    <3>1. call[p].cur \in Process /\ call[p].copy \in Buffer /\ call[p].group \in Group
      BY <1>1, CallFields DEF Fits
    <3> QED BY <3>1 DEF Node
  <2>3. sendList'[p] = Append(sendList[p], node)
    BY <2>1 DEF AttachOpen
  <2> HIDE DEF node
  <2>4. /\ \A k \in DOMAIN sendList[p] : k \in DOMAIN sendList'[p] /\ sendList'[p][k] = sendList[p][k]
        /\ Len(sendList[p]) + 1 \in DOMAIN sendList'[p]
        /\ sendList'[p][Len(sendList[p]) + 1] = node
    BY <2>1, <2>2, <2>3
  <2> QED BY <2>2, <2>4 DEF Near, NamesIn
<1>9. table[call[p].index].name = call[p].cur
  BY <1>1 DEF ReachInv, Reached, Walking
<1>10. PassesOn(p)
  <2>1. UNCHANGED <<must, groups>>
    BY DEF AttachOpen
  <2>2. ASSUME NEW h \in Group \ {All}, NEW k \in Wanted(p, h), OnItsWay(p, h, k)
        PROVE  OnItsWay(p, h, k)' \/ table[k].name \in Near(p)'
    BY <1>1, <1>4, <1>5, <1>8, <1>9, <2>2 DEF OnItsWay, Coming
  <2> QED BY <1>2, <1>5, <1>8, <2>1, <2>2 DEF PassesOn, Unreached
<1> QED BY <1>1, <1>6, <1>7, <1>10, PassedOn, OneWalks DEF ReachInv

(* A message is copied for the next queue of the group. *)
LEMMA GroupCopyReaches ==
  ASSUME Inv, ReachInv, NEW p \in Process, GroupCopy(p)
  PROVE  ReachInv'
<1>1. CallInv /\ Fits(pc[p], call[p]) /\ pc[p] = "copy" /\ UNCHANGED table /\ call[p] \in CallRecord
  BY DEF Inv, TypeInv, CallInv, GroupCopy
<1>2. call[p].op = "send"
  BY <1>1 DEF Fits
<1>3. pc'[p] = "write" /\ \A q \in Process \ {p} : pc'[q] = pc[q]
  BY <1>1 DEF GroupCopy, GoTo, CallInv
<1>4. /\ call'[p].op = call[p].op /\ call'[p].group = call[p].group
      /\ call'[p].index = call[p].index /\ call'[p].cur = call[p].cur
      /\ call'[p].missed = call[p].missed
      /\ \A q \in Process \ {p} : call'[q] = call[q]
  BY <1>1 DEF CallInv, CallRecord, GroupCopy
<1>5. \A q \in Process \ {p} : Stays(q)
  BY <1>3, <1>4, Alone DEF GroupCopy
<1>6. Walking(p)'
  BY <1>1, <1>2, <1>3, <1>4 DEF ReachInv, Reached, Walking
<1>7. PassesOn(p)
  <2>1. UNCHANGED <<sendList, must, groups>>
    BY DEF GroupCopy
  <2>2. ToSend(p) \subseteq ToSend(p)'
    BY <1>1, <1>3, <1>4 DEF ToSend
  <2> QED BY <1>2, <1>4, <2>1, <2>2 DEF PassesOn, Unreached, Near, OnItsWay
<1> QED BY <1>1, <1>5, <1>6, <1>7, PassedOn, OneWalks DEF ReachInv

(* The copy is sent, or there is nobody who reads. *)
LEMMA GroupWriteReaches ==
  ASSUME Inv, ReachInv, NEW p \in Process, GroupWrite(p)
  PROVE  ReachInv'
<1>1. CallInv /\ Fits(pc[p], call[p]) /\ pc[p] = "write" /\ UNCHANGED table /\ call[p] \in CallRecord
  BY DEF Inv, TypeInv, CallInv, GroupWrite
<1>2. call[p].op = "send"
  BY <1>1 DEF Fits
<1>3. pc'[p] = "next" /\ \A q \in Process \ {p} : pc'[q] = pc[q]
  BY <1>1 DEF GroupWrite, GoTo, CallInv
<1>4. /\ call'[p].op = call[p].op /\ call'[p].group = call[p].group
      /\ call'[p].index = call[p].index /\ call'[p].cur = call[p].cur
      /\ call'[p].missed = call[p].missed
      /\ \A q \in Process \ {p} : call'[q] = call[q]
  BY <1>1 DEF CallInv, CallRecord, GroupWrite
<1>5. /\ UNCHANGED <<groups, sendList>>
      /\ \/ UNCHANGED must /\ call[p].cur \notin Near(p)
         \/ must' = [must EXCEPT ![p] = @ \ {call[p].cur}]
  BY DEF GroupWrite, Attached, Near
<1>6. must'[p] \subseteq must[p] /\ (call[p].cur \in Near(p) => call[p].cur \notin must'[p])
  BY <1>5 DEF Inv, TypeInv, RestOK
<1>7. \A q \in Process \ {p} : Stays(q)
  BY <1>3, <1>4, <1>5, Alone
<1>8. table[call[p].index].name = call[p].cur
  BY <1>1 DEF ReachInv, Reached, Walking
<1>9. Walking(p)'
  BY <1>1, <1>2, <1>3, <1>4 DEF ReachInv, Reached, Walking
<1>10. PassesOn(p)
  <2>1. ASSUME NEW k \in ToSend(p), table[k].name \in Near(p)
        PROVE  k \in ToSend(p)' \/ table[k].name \notin Unreached(p)'
    BY <1>1, <1>3, <1>4, <1>6, <1>8, <2>1 DEF ToSend, Unreached
  <2> QED BY <1>2, <1>4, <1>5, <1>6, <2>1 DEF PassesOn, Unreached, Near, OnItsWay
<1> QED BY <1>1, <1>7, <1>9, <1>10, PassedOn, OneWalks DEF ReachInv

(* The write is interrupted, and the queue left out. *)
LEMMA InterruptedReaches ==
  ASSUME Inv, ReachInv, NEW p \in Process, GroupWriteInterrupted(p)
  PROVE  ReachInv'
<1>1. TypeInv /\ CallInv /\ pc[p] = "write" /\ UNCHANGED <<table, groups, sendList, must>>
  BY DEF Inv, TypeInv, GroupWriteInterrupted
<1>2. /\ call'[p].op = call[p].op /\ call'[p].group = call[p].group /\ call[p].op = "send"
      /\ call'[p].index = call[p].index /\ call'[p].cur = call[p].cur /\ pc'[p] = "next"
      /\ call'[p].missed = call[p].missed \cup {call[p].cur}
      /\ \A q \in Process \ {p} : call'[q] = call[q] /\ pc'[q] = pc[q]
  BY <1>1, MissStep
<1>3. \A q \in Process \ {p} : Stays(q)
  BY <1>1, <1>2, Alone
<1>4. table[call[p].index].name = call[p].cur
  BY <1>1 DEF ReachInv, Reached, Walking
<1>5. Walking(p)'
  BY <1>1, <1>2 DEF ReachInv, Reached, Walking
<1>6. Unreached(p)' \subseteq Unreached(p) /\ call[p].cur \notin Unreached(p)'
  BY <1>1, <1>2 DEF Unreached
<1>7. PassesOn(p)
  <2>1. ASSUME NEW k \in ToSend(p)
        PROVE  k \in ToSend(p)' \/ table[k].name \notin Unreached(p)'
    BY <1>1, <1>2, <1>4, <1>6, <2>1 DEF ToSend
  <2> QED BY <1>1, <1>2, <1>6, <2>1 DEF PassesOn, Near, OnItsWay
<1> QED BY <1>1, <1>3, <1>5, <1>7, PassedOn, OneWalks DEF ReachInv

(* At the end of a walk nobody of its group is still to come. *)
LEMMA NobodyComes ==
  ASSUME Inv, NEW p \in Process, NEW op, AtEnd(p, op), NEW k \in Wanted(p, call[p].group)
  PROVE  k \notin Coming(p) /\ k \notin ToSend(p)
<1>1. TableOK /\ call[p] \in CallRecord /\ pc[p] = "next"
  BY DEF Inv, TypeInv, CallInv, AtEnd
<1>2. Len(table) \in Nat /\ DOMAIN table = 1 .. Len(table) /\ call[p].index \in Nat
  BY <1>1, TableIs, CallFields
<1>3. k \in DOMAIN table /\ table[k].group = call[p].group
  BY DEF Wanted
<1>4. ~ (k > call[p].index)
  BY <1>2, <1>3 DEF AtEnd, Later
<1> QED BY <1>1, <1>4 DEF Coming, ToSend

(* A call that returns. *)
LEMMA Returned ==
  ASSUME Inv, ReachInv, NEW p \in Process, Return(p), UNCHANGED <<table, sendList>>, pc[p] # "down",
         must' = [must EXCEPT ![p] = {}],
         \A q \in Process \ {p} : groups'[q] = groups[q],
         groups'[p] \subseteq groups[p] \cup (IF call[p].op = "join" THEN {call[p].group} ELSE {}),
         \A h \in Group \ {All} : \A k \in Wanted(p, h) : ~ OnItsWay(p, h, k)
  PROVE  ReachInv'
<1>1. pc'[p] = "idle" /\ call'[p] = NoCall /\ \A q \in Process \ {p} : call'[q] = call[q] /\ pc'[q] = pc[q]
  BY ReturnStep DEF Inv, TypeInv
<1>2. must'[p] = {} /\ \A q \in Process \ {p} : must'[q] = must[q]
  BY DEF Inv, TypeInv, RestOK
<1>3. \A q \in Process \ {p} : Stays(q)
  BY <1>1, <1>2 DEF Stays
<1>4. Reached(p)'
  BY <1>1, <1>2, ReturnsReached DEF ReachInv
<1> QED BY <1>3, <1>4, OneWalks

(* The ends of the walks. *)
LEMMA EndsReach ==
  ASSUME Inv, ReachInv, NEW p \in Process, JoinEnd(p) \/ SendEnd(p) \/ GroupNoBuffer(p)
  PROVE  ReachInv'
<1>1. CASE JoinEnd(p)
  <2>1. AtEnd(p, "join") /\ call[p].op = "join" /\ pc[p] # "down"
    BY <1>1 DEF JoinEnd, AtEnd
  <2>2. must[p] = {} /\ must \in [Process -> SUBSET Process]
    BY <2>1 DEF ReachInv, Reached, Reaches, Inv, TypeInv, RestOK
  <2>3. must' = [must EXCEPT ![p] = {}]
    BY <1>1, <2>2 DEF JoinEnd
  <2>4. \A h \in Group \ {All} : \A k \in Wanted(p, h) : ~ OnItsWay(p, h, k)
    BY <2>1, NobodyComes DEF OnItsWay
  <2>5. /\ \A q \in Process \ {p} : groups'[q] = groups[q]
        /\ groups'[p] = groups[p] \cup {call[p].group}
    BY <1>1 DEF JoinEnd, Inv, TypeInv, RestOK
  <2> QED BY <1>1, <2>1, <2>3, <2>4, <2>5, Returned DEF JoinEnd
<1>2. CASE SendEnd(p)
  <2>1. call[p].op = "send" /\ pc[p] # "down"
    BY <1>2 DEF SendEnd, AtEnd
  <2> QED BY <1>2, <2>1, Returned DEF SendEnd, OnItsWay
<1>3. CASE GroupNoBuffer(p)
  <2>1. call[p].op = "send" /\ pc[p] # "down"
    BY <1>3 DEF GroupNoBuffer, Fits, Inv, TypeInv, CallInv
  <2> QED BY <1>3, <2>1, Returned DEF GroupNoBuffer, OnItsWay
<1> QED BY <1>1, <1>2, <1>3

(* Attached to all, the call starts over to send. *)
LEMMA UpdateEndReaches ==
  ASSUME Inv, ReachInv, NEW p \in Process, UpdateEnd(p)
  PROVE  ReachInv'
<1>1. TypeInv /\ CallInv /\ TableOK /\ call[p] \in CallRecord /\ call[p].op = "update" /\ pc[p] = "next"
      /\ UNCHANGED <<table, sendList, pc, groups, must>>
  BY DEF Inv, TypeInv, CallInv, UpdateEnd, AtEnd
<1>2. /\ call'[p].op = "send" /\ call'[p].group = call[p].group /\ call'[p].index = 1
      /\ call'[p].missed = call[p].missed
      /\ \A q \in Process \ {p} : call'[q] = call[q]
  BY <1>1 DEF CallInv, CallRecord, UpdateEnd
<1>3. \A q \in Process \ {p} : Stays(q)
  BY <1>1, <1>2, Alone
<1>4. Len(table) \in Nat /\ DOMAIN table = 1 .. Len(table) /\ call[p].group \in Group
  BY <1>1, TableIs, CallFields
<1>5. Walking(p)'
  BY <1>1, <1>2 DEF Walking, ReachInv, Reached
<1>6. \A h : Wanted(p, h)' = Wanted(p, h)
  BY <1>1 DEF Wanted
<1>7. \A k \in Wanted(p, call[p].group) : k \notin Coming(p)
  BY NobodyComes DEF UpdateEnd
<1>8. Near(p)' = Near(p) /\ Marked(p)' = Marked(p)
  BY <1>1 DEF Near, Marked, UpdateFlag
<1>9. Reaches(p)'
  <2>1. PICK h : h = call[p].group
    OBVIOUS
  <2>2. Wanted(p, call[p].group)' = Wanted(p, h)
    BY <1>1, <1>2, <2>1 DEF Wanted
  <2>2a. Unreached(p)' = Unreached(p) /\ Unreached(p) \subseteq must[p]
    BY <1>1, <1>2 DEF Unreached
  <2> SUFFICES ASSUME must[p] # {}
               PROVE  h # All /\ \A n \in Unreached(p) :
                        \E k \in Wanted(p, h) : table'[k].name = n /\ WillReach(p, k)'
    BY <1>1, <1>2, <2>1, <2>2, <2>2a DEF Reaches
  <2>2b. h # All
    BY <2>1 DEF ReachInv, Reached, Reaches
  <2> SUFFICES ASSUME NEW n \in Unreached(p)
               PROVE  \E k \in Wanted(p, h) : table'[k].name = n /\ WillReach(p, k)'
    BY <2>2b
  <2>3. h # All /\ \E k \in Wanted(p, h) : table[k].name = n /\ WillReach(p, k)
    BY <2>1 DEF ReachInv, Reached, Reaches
  <2>4. PICK k \in Wanted(p, h) : table[k].name = n /\ WillReach(p, k)
    BY <2>3
  <2>5. table[k].name \in Near(p)
    BY <1>7, <2>1, <2>4 DEF WillReach
  <2>6. k # 1 /\ k \in DOMAIN table
    BY <2>3 DEF Wanted, ReachInv, FirstForAll
  <2>7. k \in ToSend(p)'
    BY <1>1, <1>2, <1>4, <2>6 DEF ToSend
  <2>8. WillReach(p, k)'
    BY <1>1, <1>2, <1>8, <2>5, <2>7 DEF WillReach
  <2> QED BY <1>1, <2>3, <2>4, <2>8
<1>10. ASSUME NEW h \in Group \ {All} PROVE KnowsAll(p, h)'
  <2> SUFFICES ASSUME h \in groups[p] \ Marked(p), NEW k \in Wanted(p, h)
               PROVE  table[k].name \in Near(p)
    BY <1>1, <1>2, <1>6, <1>8 DEF KnowsAll
  <2>1. table[k].name \in Near(p) \/ OnItsWay(p, h, k)
    BY DEF ReachInv, Reached, KnowsAll
  <2> QED BY <1>7, <2>1 DEF OnItsWay
<1> QED BY <1>1, <1>3, <1>5, <1>9, <1>10, OneWalks DEF Reached

(* A queue that is added comes last, and marks who is in its group.        *)
LEMMA AddNews ==
  ASSUME Inv, NEW n \in Process, NEW g \in Group, AddFits(n, g), qdbAddQueue(n, g)
  PROVE  /\ Grows /\ \A q \in Process : NewsFor(q)
         /\ \A k \in DOMAIN table' : k \in DOMAIN table \/ table'[k].group = g
         /\ 1 \in DOMAIN table'
<1>1. TableOK /\ Len(table) \in Nat /\ DOMAIN table = 1 .. Len(table) /\ table \in Seq(Record)
      /\ \A k \in DOMAIN table : table[k] \in Record /\ table[k].group \in Group
  BY TableIs DEF Inv, TypeInv, TableOK
<1>2. CASE IsListed(n, g)
  <2>1. UNCHANGED table
    BY <1>2 DEF qdbAddQueue
  <2> QED BY <1>1, <1>2, <2>1, NoNews DEF IsListed
<1>3. CASE ~ IsListed(n, g)
  <2> DEFINE f == [k \in DOMAIN table |-> [table[k] EXCEPT !.update = @ \/ table[k].group = g]]
             new == [name |-> n, group |-> g, update |-> TRUE]
  <2>1. table' = Append(f, new)
    BY <1>3 DEF qdbAddQueue
  <2>2. ASSUME NEW k \in DOMAIN table
        PROVE  /\ f[k] \in Record /\ f[k].name = table[k].name /\ f[k].group = table[k].group
               /\ (table[k].update \/ table[k].group = g => f[k].update)
    <3>1. table[k] \in Record /\ table[k].update \in BOOLEAN
      BY <1>1 DEF Record
    <3> QED BY <3>1 DEF Record
  <2>3. f \in Seq(Record) /\ Len(f) = Len(table)
    <3>1. DOMAIN f = 1 .. Len(table) /\ f = [k \in 1 .. Len(table) |-> f[k]]
      BY <1>1
    <3> HIDE DEF f
    <3> QED BY <1>1, <2>2, <3>1
  <2>4. new \in Record /\ new.name = n /\ new.group = g
    BY DEF Record
  <2> HIDE DEF f, new
  <2>5. /\ DOMAIN table' = 1 .. Len(table) + 1 /\ table'[Len(table) + 1] = new
        /\ \A k \in DOMAIN table : table'[k] = f[k]
    BY <1>1, <2>1, <2>3, <2>4
  <2>6. Grows
    BY <1>1, <2>2, <2>5 DEF Grows
  <2>7. ASSUME NEW q \in Process PROVE NewsFor(q)
    <3>1. ASSUME NEW h \in Marked(q) PROVE h \in Marked(q)'
      <4>1. PICK k \in DOMAIN table : table[k].name = q /\ table[k].group = h /\ table[k].update
        BY DEF Marked, UpdateFlag
      <4>2. k \in DOMAIN table' /\ table'[k].name = q /\ table'[k].group = h /\ table'[k].update
        BY <1>1, <2>2, <2>5, <4>1
      <4> QED BY <4>2 DEF Marked, UpdateFlag
    <3>2. ASSUME NEW k \in DOMAIN table', k \notin DOMAIN table, table'[k].group \in groups[q]
          PROVE  table'[k].group \in Marked(q)'
      <4>1. table'[k].group = g
        BY <1>1, <2>4, <2>5, <3>2
      <4>2. IsListed(q, g)
        BY <3>2, <4>1 DEF Inv, Registered
      <4>3. PICK j \in DOMAIN table : table[j].name = q /\ table[j].group = g
        BY <4>2 DEF IsListed
      <4>4. j \in DOMAIN table' /\ table'[j].name = q /\ table'[j].group = g /\ table'[j].update
        BY <1>1, <2>2, <2>5, <4>3
      <4>5. g \in Marked(q)'
        BY <4>4 DEF Marked, UpdateFlag
      <4> QED BY <4>1, <4>5
    <3> QED BY <3>1, <3>2 DEF NewsFor
  <2> QED BY <1>1, <2>4, <2>5, <2>6, <2>7
<1> QED BY <1>2, <1>3

(* A queue joins a group. *)
LEMMA JoinReaches ==
  ASSUME Inv, ReachInv, NEW p \in Process, NEW g \in Group, radQueueJoinGroup(p, g)
  PROVE  ReachInv'
<1>1. /\ TypeInv /\ CallInv /\ pc[p] = "idle" /\ AddFits(p, g) /\ qdbAddQueue(p, g)
      /\ UNCHANGED <<sendList, groups, must>>
  BY DEF Inv, TypeInv, radQueueJoinGroup
<1>2. /\ Grows /\ \A q \in Process : NewsFor(q)
      /\ \A k \in DOMAIN table' : k \in DOMAIN table \/ table'[k].group = g
  BY <1>1, AddNews
<1>3. /\ call'[p].op = "join" /\ call'[p].group = g /\ pc'[p] = "next"
      /\ \A q \in Process \ {p} : call'[q] = call[q] /\ pc'[q] = pc[q]
  BY <1>1, BeginStep DEF radQueueJoinGroup
<1>4. call'[p].index = 1 /\ call[p] = NoCall
  BY <1>1 DEF radQueueJoinGroup, Begin, NoCall, CallInv, Fits
<1>5. \A q \in Process \ {p} : Stays(q)
  BY <1>1, <1>3, Alone
<1>6. 1 \in DOMAIN table /\ table[1].group = All
  BY <1>1 DEF ReachInv, Reached, Walking, FirstForAll
<1>7. 1 \in DOMAIN table' /\ table'[1].group = All
  BY <1>2, <1>6 DEF Grows
<1>8. must'[p] = {}
  BY <1>1, <1>4 DEF ReachInv, Reached, Reaches, NoCall
<1>9. Walking(p)' /\ Reaches(p)'
  BY <1>3, <1>4, <1>7, <1>8 DEF Walking, Reaches
<1>10. ASSUME NEW h \in Group \ {All} PROVE KnowsAll(p, h)'
  <2> SUFFICES ASSUME h \in groups[p] \ Marked(p)' \/ h = g, NEW k \in Wanted(p, h)'
               PROVE  table'[k].name \in Near(p)' \/ OnItsWay(p, h, k)'
    BY <1>1, <1>3 DEF KnowsAll
  <2>1. k \in DOMAIN table' /\ table'[k].group = h /\ table'[k].name # p
    BY DEF Wanted
  <2>2. CASE h = g
    <3>1. DOMAIN table' \subseteq Nat /\ \A j \in DOMAIN table' : j >= 1
      <4>1. TableOK'
        BY <1>1, Added DEF Inv, TypeInv, Registered
      <4>2. Len(table') \in Nat /\ DOMAIN table' = 1 .. Len(table')
        BY <4>1 DEF TableOK
      <4> QED BY <4>2
    <3>2. k > 1
      BY <1>7, <2>1, <3>1
    <3>3. k \in Coming(p)'
      BY <1>4, <2>1, <3>2 DEF Coming
    <3> QED BY <1>3, <2>2, <3>3 DEF OnItsWay
  <2>3. CASE h # g
    <3>1. k \in DOMAIN table /\ table'[k].name = table[k].name /\ table'[k].group = table[k].group
      BY <1>2, <2>1, <2>3 DEF Grows
    <3>2. k \in Wanted(p, h)
      BY <2>1, <3>1 DEF Wanted
    <3>3. h \in groups[p] \ Marked(p)
      BY <1>2, <2>3 DEF NewsFor
    <3>4. table[k].name \in Near(p)
      BY <1>4, <3>2, <3>3 DEF ReachInv, Reached, KnowsAll, OnItsWay, NoCall
    <3> QED BY <1>1, <3>1, <3>4 DEF Near
  <2> QED BY <2>2, <2>3
<1>11. FirstForAll'
  BY <1>7 DEF FirstForAll
<1> QED BY <1>2, <1>5, <1>9, <1>10, <1>11, OneSteps DEF Reached

(* A queue is initialised. *)
LEMMA InitReaches ==
  ASSUME Inv, ReachInv, NEW p \in Process, radQueueInit(p)
  PROVE  ReachInv'
<1>1. /\ TypeInv /\ CallInv /\ pc[p] = "down" /\ AddFits(p, All) /\ qdbAddQueue(p, All)
      /\ UNCHANGED <<sendList, call, must>>
  BY DEF Inv, TypeInv, radQueueInit
<1>0. All \in Group
  BY QueueAssumption
<1>2. /\ Grows /\ \A q \in Process : NewsFor(q)
      /\ \A k \in DOMAIN table' : k \in DOMAIN table \/ table'[k].group = All
      /\ 1 \in DOMAIN table'
  BY <1>0, <1>1, AddNews
<1>3. /\ pc'[p] = "idle" /\ groups'[p] = {All} /\ call'[p] = NoCall /\ call[p] = NoCall
      /\ \A q \in Process \ {p} : pc'[q] = pc[q] /\ groups'[q] = groups[q]
  BY <1>1 DEF radQueueInit, GoTo, CallInv, Fits, TypeInv, RestOK
<1>4. \A q \in Process \ {p} : Stays(q)
  BY <1>1, <1>3 DEF Stays
<1>5. FirstForAll'
  BY <1>2 DEF FirstForAll, Grows, ReachInv
<1>6. Reached(p)'
  <2>1. must'[p] = {}
    BY <1>1, <1>3 DEF ReachInv, Reached, Reaches, NoCall
  <2>2. Walking(p)' /\ Reaches(p)'
    BY <1>2, <1>3, <2>1 DEF Walking, Reaches, NoCall
  <2>3. \A h \in Group \ {All} : KnowsAll(p, h)'
    BY <1>3 DEF KnowsAll, NoCall
  <2> QED BY <2>2, <2>3 DEF Reached
<1> QED BY <1>2, <1>4, <1>5, <1>6, OneSteps

(* A process dies. *)
LEMMA CrashReaches ==
  ASSUME Inv, ReachInv, NEW p \in Process, Crash(p)
  PROVE  ReachInv'
<1>1. TypeInv /\ CallInv /\ RestOK /\ UNCHANGED table /\ \E f : Gone(p, f)
  BY DEF Inv, TypeInv, Crash
<1>2. /\ pc'[p] = "down" /\ call'[p] = NoCall /\ groups'[p] = {} /\ must'[p] = {}
      /\ \A q \in Process \ {p} : /\ pc'[q] = pc[q] /\ call'[q] = call[q] /\ groups'[q] = groups[q]
                                  /\ sendList'[q] = sendList[q] /\ must'[q] \subseteq must[q]
  BY <1>1 DEF Gone, CallInv, RestOK
<1>3. \A q \in Process \ {p} : Stays(q)
  BY <1>2 DEF Stays
<1>4. Walking(p)' /\ Reaches(p)'
  BY <1>2 DEF Walking, Reaches, NoCall
<1>5. \A h \in Group \ {All} : KnowsAll(p, h)'
  BY <1>2 DEF KnowsAll, NoCall
<1> QED BY <1>1, <1>3, <1>4, <1>5, OneWalks DEF Reached

(* A group send begins: the mark of p in the group goes, and if there was  *)
(* one the walk of the update is to come.                                  *)
LEMMA SendGroupReaches ==
  ASSUME Inv, ReachInv, NEW p \in Process, NEW g \in Group, NEW b \in Payload(p), radQueueSendGroup(p, g, b)
  PROVE  ReachInv'
<1>1. /\ TypeInv /\ CallInv /\ TableOK /\ RestOK /\ pc[p] = "idle" /\ qdbIsUpdateFlagSet(p, g)
      /\ UNCHANGED <<sendList, groups>>
  BY DEF Inv, TypeInv, radQueueSendGroup
<1>2. /\ Len(table) \in Nat /\ DOMAIN table = 1 .. Len(table)
      /\ \A k \in DOMAIN table : table[k] \in Record
  BY <1>1, TableIs
<1>3. /\ DOMAIN table' = DOMAIN table
      /\ \A k \in DOMAIN table : /\ table'[k].name = table[k].name /\ table'[k].group = table[k].group
                                 /\ ~ (table[k].name = p /\ table[k].group = g) =>
                                      table'[k].update = table[k].update
  BY <1>1, <1>2 DEF qdbIsUpdateFlagSet, Record
<1>4. Grows
  BY <1>3 DEF Grows
<1>5. ASSUME NEW q \in Process \ {p} PROVE NewsFor(q)
  BY <1>3 DEF NewsFor, Marked, UpdateFlag
<1>6. Marked(p) \ {g} \subseteq Marked(p)'
  BY <1>3 DEF Marked, UpdateFlag
<1>7. PICK op \in {"update", "send"} : /\ op = IF UpdateFlag(p, g) THEN "update" ELSE "send"
                                       /\ Begin(p, op, g, b)
  BY DEF radQueueSendGroup
<1>8. b \in Buffer \cup {Nil}
  BY <1>1, PayloadType
<1>9. /\ call'[p].op = op /\ call'[p].group = g /\ pc'[p] = "next"
      /\ \A q \in Process \ {p} : call'[q] = call[q] /\ pc'[q] = pc[q]
  BY <1>1, <1>7, <1>8, BeginStep DEF radQueueSendGroup
<1>10. call'[p].index = 1 /\ call[p] = NoCall
  BY <1>1, <1>7 DEF Begin, NoCall, CallInv, Fits
<1>11. /\ must'[p] = IF g # All /\ g \in groups[p] THEN Members(g) \ {p} ELSE {}
       /\ \A q \in Process \ {p} : must'[q] = must[q]
  BY <1>1 DEF radQueueSendGroup, RestOK
<1>12. \A q \in Process \ {p} : Stays(q)
  BY <1>1, <1>9, <1>11 DEF Stays
<1>13. 1 \in DOMAIN table /\ table[1].group = All
  BY <1>1 DEF ReachInv, Reached, Walking, FirstForAll
<1>14. FirstForAll' /\ Walking(p)'
  BY <1>3, <1>7, <1>9, <1>10, <1>13 DEF FirstForAll, Walking
<1>15. ASSUME NEW h PROVE Wanted(p, h)' = Wanted(p, h) /\ \A k \in Wanted(p, h) : table'[k].name = table[k].name
  BY <1>3 DEF Wanted
<1>16. Near(p)' = Near(p)
  BY <1>1 DEF Near
<1>17. ASSUME g # All, NEW k \in Wanted(p, g) PROVE k \in Coming(p)' /\ k \in ToSend(p)'
  <2>1. k \in DOMAIN table /\ k # 1
    BY <1>13, <1>17 DEF Wanted
  <2> QED BY <1>2, <1>3, <1>10, <2>1 DEF Coming, ToSend
<1>18. ASSUME NEW h \in Group \ {All}, h \in groups[p] \ Marked(p), NEW k \in Wanted(p, h)
       PROVE  table[k].name \in Near(p)
  BY <1>10, <1>18 DEF ReachInv, Reached, KnowsAll, OnItsWay, NoCall
<1>19. g \in Marked(p) <=> op = "update"
  BY <1>7 DEF Marked
<1>20. ASSUME NEW h \in Group \ {All} PROVE KnowsAll(p, h)'
  <2> SUFFICES ASSUME h \in groups[p] \ Marked(p)', NEW k \in Wanted(p, h)
               PROVE  table[k].name \in Near(p) \/ OnItsWay(p, h, k)'
    BY <1>1, <1>7, <1>9, <1>15, <1>16 DEF KnowsAll
  <2>1. CASE h \in Marked(p)
    <3>1. h = g /\ op = "update"
      BY <1>6, <1>19, <2>1
    <3> QED BY <1>9, <1>17, <3>1 DEF OnItsWay
  <2>2. CASE h \notin Marked(p)
    BY <1>18, <2>2
  <2> QED BY <2>1, <2>2
<1>21. Reaches(p)'
  <2>1. Wanted(p, call[p].group)' = Wanted(p, g)
    BY <1>9, <1>15 DEF Wanted
  <2>1a. \A n \in Unreached(p)' : n \in must'[p]
    BY DEF Unreached
  <2> SUFFICES ASSUME NEW n \in must'[p]
               PROVE  g # All /\ \E k \in Wanted(p, g) : table'[k].name = n /\ WillReach(p, k)'
    BY <1>7, <1>9, <2>1, <2>1a DEF Reaches
  <2>2. g # All /\ g \in groups[p] /\ n \in Process \ {p} /\ g \in groups[n]
    BY <1>11 DEF Members
  <2>3. IsListed(n, g)
    BY <2>2 DEF Inv, Registered
  <2>4. PICK k \in DOMAIN table : table[k].name = n /\ table[k].group = g
    BY <2>3 DEF IsListed
  <2>5. k \in Wanted(p, g)
    BY <2>2, <2>4 DEF Wanted
  <2>6. k \in Coming(p)' /\ k \in ToSend(p)' /\ table'[k].name = table[k].name
    BY <1>3, <1>17, <2>2, <2>4, <2>5
  <2>7. op = "send" => table[k].name \in Near(p)
    BY <1>18, <1>19, <2>2, <2>5
  <2>8. WillReach(p, k)'
    BY <1>7, <1>9, <1>16, <2>6, <2>7 DEF WillReach
  <2> QED BY <2>2, <2>4, <2>5, <2>6, <2>8
<1> QED BY <1>4, <1>5, <1>12, <1>14, <1>20, <1>21, OneSteps DEF Reached

(* What a program does with its messages and buffers moves nothing else. *)
LEMMA IdleReaches ==
  ASSUME Inv, ReachInv, UNCHANGED <<table, sendList, pc, call, groups, must>>
  PROVE  ReachInv'
<1>1. FirstForAll'
  BY DEF ReachInv, FirstForAll
<1>2. ASSUME NEW q \in Process PROVE Reached(q)'
  BY NoNews, StaysReached DEF ReachInv
<1> QED BY <1>1, <1>2 DEF ReachInv

(* The steps of programs that join and stay. *)
LEMMA ReachStep ==
  ASSUME Inv, ReachInv, JoinAndStay, FindsBuffers, [Next]_vars
  PROVE  ReachInv'
<1>1. CASE Next
  <2>1. PICK p \in Process : Life(p) \/ GroupCall(p) \/ PeerCall(p) \/ Walk(p) \/ dummyChild(p)
    BY <1>1 DEF Next
  <2>2. Joinable \subseteq Group
    BY QueueAssumption
  <2>3. CASE Life(p)
    BY <2>3, InitReaches, CrashReaches DEF Life, JoinAndStay
  <2>4. CASE GroupCall(p)
    BY <2>2, <2>4, JoinReaches, SendGroupReaches DEF GroupCall, JoinAndStay
  <2>5. CASE PeerCall(p)
    <3>1. UNCHANGED <<table, sendList, pc, call, groups, must>>
      BY <2>5 DEF PeerCall, JoinAndStay, radQueueSend, radQueueRecv, radBufferGet, radBufferRls
    <3> QED BY <3>1, IdleReaches
  <2>6. CASE dummyChild(p)
    <3>1. UNCHANGED <<table, sendList, pc, call, groups, must>>
      BY <2>6 DEF dummyChild
    <3> QED BY <3>1, IdleReaches
  <2>7. CASE Walk(p)
    <3>1. call[p].op # "quit" /\ pc[p] # "detach"
      BY DEF ReachInv, Reached, Walking, Inv, TypeInv, CallInv, Fits
    <3>2. ~ QuitEnd(p) /\ ~ QuitDetach(p) /\ ~ AttachNoBuffer(p) /\ ~ AttachOpenFails(p)
      BY <3>1 DEF QuitEnd, AtEnd, QuitDetach, FindsBuffers, AttachOpenFails, JoinAndStay
    <3> QED BY <2>7, <3>1, <3>2, NextNameReaches, EndsReach, UpdateEndReaches, AttachKnownReaches,
               AttachNodeReaches, AttachOpenReaches, GroupCopyReaches, GroupWriteReaches,
               InterruptedReaches DEF Walk
  <2> QED BY <2>1, <2>3, <2>4, <2>5, <2>6, <2>7
<1>2. CASE UNCHANGED vars
  BY <1>2, IdleReaches DEF vars
<1> QED BY <1>1, <1>2

(* Nobody is in a group at first. *)
LEMMA ReachInit == Init => ReachInv
<1> SUFFICES ASSUME Init PROVE ReachInv
  OBVIOUS
<1>1. FirstForAll
  BY DEF Init, FirstForAll
<1>2. ASSUME NEW p \in Process PROVE Reached(p)
  BY DEF Init, Reached, Walking, Reaches, KnowsAll, NoCall
<1> QED BY <1>1, <1>2 DEF ReachInv

(* A send that is at its end has nobody left to reach. *)
LEMMA SendIsDone ==
  ASSUME Inv, ReachInv, NEW p \in Process, AtEnd(p, "send")
  PROVE  must[p] \subseteq call[p].missed
<1> SUFFICES ASSUME NEW n \in Unreached(p) PROVE FALSE
  BY DEF Unreached
<1>0. must[p] # {}
  BY DEF Unreached
<1>1. PICK k \in Wanted(p, call[p].group) : WillReach(p, k)
  BY <1>0 DEF ReachInv, Reached, Reaches
<1>2. k \in ToSend(p)
  BY <1>1 DEF WillReach, AtEnd
<1> QED BY <1>1, <1>2, NobodyComes

(* Where the programs join groups and stay in them until they die, and no  *)
(* attach fails, a group send that answers OK has written to every queue   *)
(* that had joined before, but for those whose FIFO was full when a signal *)
(* came, however the joins, the updates and the deaths of processes        *)
(* interleave (radQueueSendGroup, qdbIsUpdateFlagSet).                     *)
THEOREM QueueGroupReached == JoinAndStay => (Spec /\ [][FindsBuffers]_vars => GroupReached)
<1> SUFFICES ASSUME JoinAndStay PROVE Spec /\ [][FindsBuffers]_vars => GroupReached
  OBVIOUS
<1>1. Init => Inv /\ ReachInv
  BY InvInit, ReachInit
<1>2. Inv /\ ReachInv /\ [Next]_vars /\ [FindsBuffers]_vars => (Inv /\ ReachInv)'
  <2> SUFFICES ASSUME Inv, ReachInv, [Next]_vars, [FindsBuffers]_vars PROVE (Inv /\ ReachInv)'
    OBVIOUS
  <2>1. CASE UNCHANGED vars
    BY <2>1, InvStep, IdleReaches DEF vars
  <2>2. CASE FindsBuffers
    BY <2>2, InvStep, ReachStep
  <2> QED BY <2>1, <2>2
<1>3. Inv /\ ReachInv =>
        [\A p \in Process : AtEnd(p, "send") /\ pc'[p] = "idle" => must[p] \subseteq call[p].missed]_vars
  BY SendIsDone
<1> QED BY <1>1, <1>2, <1>3, PTL DEF Spec, GroupReached
==============================================================================
