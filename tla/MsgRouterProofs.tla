-------------------------- MODULE MsgRouterProofs --------------------------
(***************************************************************************)
(* Theorems about the message router and its programs (module MsgRouter),  *)
(* for any number of programs, processes and message IDs, and any length   *)
(* of queues.                                                              *)
(***************************************************************************)
EXTENDS MsgRouter, WellFoundedInduction, SequenceTheorems, TLAPS

USE RouterAssumption

(* A request to subscribe names a message ID of the programs. *)
Proper == {r \in Request : r.type = "ENABLE" => r.id \in MsgID}

(* A program that runs has a process, and one that writes has a request.   *)
ProgramOK ==
  \A c \in Client : /\ pc[c] # "down" => pid[c] # NoPid
                    /\ pc[c] = "sending" => writing[c] \in Proper

(* The types of the programs, of the queues and of the router. *)
ProgTypes ==
  /\ pid \in [Client -> Pid \cup {NoPid}]
  /\ births \in 0 .. MaxPid
  /\ pc \in [Client -> Point]
  /\ writing \in [Client -> Request \cup {NoRequest}]
  /\ wanted \in [Client -> SUBSET MsgID]
  /\ ProgramOK
InboxOK == inbox \in [Client -> Seq(Answer)] /\ \A c \in Client : Len(inbox[c]) <= QueueCap
RequestsOK == requests \in Seq(Proper) /\ Len(requests) <= QueueCap

(* The loop over consumers has some left until it is done. *)
RouterTypes ==
  /\ pibList \in SUBSET [pid : Pid, name : Client]
  /\ attached \in SUBSET Client
  /\ consumers \in [MsgID -> Seq(Pid)]
  /\ miibList \in SUBSET MsgID
  /\ route \in [id : MsgID \cup {NoID}, todo : Seq(Pid)]
  /\ route.todo = <<>> => route = Idle
  /\ unanswered \in SUBSET Pid

TypeInv == ProgTypes /\ InboxOK /\ RequestsOK /\ RouterTypes

-----------------------------------------------------------------------------
(* The smallest of a set of positions is one of them. *)
LEMMA MinIn ==
  ASSUME NEW S \in SUBSET Nat, S # {}
  PROVE  Min(S) \in S
<1>1. PICK x \in S : \A y \in S : ~ (<<y, x>> \in OpToRel(<, Nat))
  BY NatLessThanWellFounded, WFMin
<1>2. \A y \in S : x <= y
  <2> SUFFICES ASSUME NEW y \in S PROVE x <= y
    OBVIOUS
  <2>1. x \in Nat /\ y \in Nat
    OBVIOUS
  <2>2. ~ (y < x)
    BY <1>1, <2>1 DEF OpToRel
  <2> QED BY <2>1, <2>2
<1>3. \E z \in S : \A y \in S : z <= y
  BY <1>2
<1> QED BY <1>3 DEF Min

(* A list without the element at position m. *)
LEMMA RemovedAt ==
  ASSUME NEW T, NEW q \in Seq(T), NEW m \in 1 .. Len(q)
  PROVE  /\ RemoveAt(q, m) \in Seq(T)
         /\ Len(RemoveAt(q, m)) = Len(q) - 1
         /\ \A k \in 1 .. Len(q) - 1 : RemoveAt(q, m)[k] = IF k < m THEN q[k] ELSE q[k + 1]
<1> DEFINE a == SubSeq(q, 1, m - 1)
           b == SubSeq(q, m + 1, Len(q))
<1>1. Len(q) \in Nat /\ \A k \in 1 .. Len(q) : q[k] \in T
  OBVIOUS
<1>2. a \in Seq(T) /\ Len(a) = m - 1 /\ \A k \in 1 .. m - 1 : a[k] = q[k]
  <2>1. \A k \in 1 .. m - 1 : q[k] \in T
    BY <1>1
  <2> QED BY <1>1, <2>1, SubSeqProperties
<1>3. b \in Seq(T) /\ Len(b) = Len(q) - m /\ \A k \in 1 .. Len(q) - m : b[k] = q[m + k]
  <2>1. \A k \in m + 1 .. Len(q) : q[k] \in T
    BY <1>1
  <2> QED BY <1>1, <2>1, SubSeqProperties
<1>4. RemoveAt(q, m) = a \o b
  BY DEF RemoveAt
<1> HIDE DEF a, b
<1>5. /\ a \o b \in Seq(T) /\ Len(a \o b) = Len(a) + Len(b)
      /\ \A k \in 1 .. Len(a) + Len(b) : (a \o b)[k] = IF k <= Len(a) THEN a[k] ELSE b[k - Len(a)]
  <2>1. a \in Seq(T) /\ b \in Seq(T)
    BY <1>2, <1>3
  <2> QED BY <2>1, ConcatProperties
<1> QED
  <2>1. Len(a) + Len(b) = Len(q) - 1
    BY <1>1, <1>2, <1>3
  <2> SUFFICES ASSUME NEW k \in 1 .. Len(q) - 1
               PROVE  (a \o b)[k] = IF k < m THEN q[k] ELSE q[k + 1]
    BY <1>4, <1>5, <2>1
  <2>2. CASE k < m
    BY <1>1, <1>2, <1>5, <2>1, <2>2
  <2>3. CASE ~ (k < m)
    <3>1. k - Len(a) \in 1 .. Len(q) - m /\ ~ (k <= Len(a)) /\ m + (k - Len(a)) = k + 1
      BY <1>1, <1>2, <2>3
    <3> QED BY <1>3, <1>5, <2>1, <2>3, <3>1
  <2> QED BY <2>2, <2>3

(* A list without duplicates loses the process that is removed, and only   *)
(* that one.                                                               *)
LEMMA WithoutOne ==
  ASSUME NEW T, NEW q \in Seq(T), NEW p, IsInjective(q)
  PROVE  /\ Without(q, p) \in Seq(T)
         /\ IsInjective(Without(q, p))
         /\ \A k \in 1 .. Len(Without(q, p)) :
              Without(q, p)[k] # p /\ \E i \in 1 .. Len(q) : Without(q, p)[k] = q[i]
<1> DEFINE At == {i \in 1 .. Len(q) : q[i] = p}
           m == Min(At)
<1>0. Len(q) \in Nat /\ DOMAIN q = 1 .. Len(q)
  OBVIOUS
<1>1. CASE At = {}
  <2>1. Without(q, p) = q
    BY <1>1 DEF Without, RemoveFirst
  <2> QED BY <1>1, <2>1
<1>2. CASE At # {}
  <2>1. m \in 1 .. Len(q) /\ q[m] = p
    <3>1. At \in SUBSET Nat
      BY <1>0
    <3> QED BY <1>2, <3>1, MinIn
  <2>2. Without(q, p) = RemoveAt(q, m)
    BY <1>2 DEF Without, RemoveFirst, SelectInSeq
  <2> HIDE DEF m
  <2> DEFINE r == RemoveAt(q, m)
  <2>3. r \in Seq(T) /\ Len(r) = Len(q) - 1
        /\ \A k \in 1 .. Len(q) - 1 : r[k] = IF k < m THEN q[k] ELSE q[k + 1]
    BY <2>1, RemovedAt
  <2> HIDE DEF r
  <2>4. DOMAIN r = 1 .. Len(q) - 1
    BY <2>3
  <2>5. \A i, j \in 1 .. Len(q) : q[i] = q[j] => i = j
    BY <1>0 DEF IsInjective
  <2>6. ASSUME NEW k \in 1 .. Len(q) - 1
        PROVE  \E i \in 1 .. Len(q) : r[k] = q[i] /\ i # m /\ i = IF k < m THEN k ELSE k + 1
    <3>1. CASE k < m
      BY <1>0, <2>1, <2>3, <3>1
    <3>2. CASE ~ (k < m)
      <4>1. k + 1 \in 1 .. Len(q) /\ k + 1 # m
        BY <1>0, <2>1, <3>2
      <4> QED BY <2>3, <3>2, <4>1
    <3> QED BY <3>1, <3>2
  <2>7. IsInjective(r)
    <3> SUFFICES ASSUME NEW a \in 1 .. Len(q) - 1, NEW b \in 1 .. Len(q) - 1, r[a] = r[b]
                 PROVE  a = b
      BY <2>4 DEF IsInjective
    <3>1. PICK i \in 1 .. Len(q) : r[a] = q[i] /\ i = IF a < m THEN a ELSE a + 1
      BY <2>6
    <3>2. PICK j \in 1 .. Len(q) : r[b] = q[j] /\ j = IF b < m THEN b ELSE b + 1
      BY <2>6
    <3>3. i = j
      BY <2>5, <3>1, <3>2
    <3> QED BY <1>0, <2>1, <3>1, <3>2, <3>3
  <2>8. \A k \in 1 .. Len(q) - 1 : r[k] # p /\ \E i \in 1 .. Len(q) : r[k] = q[i]
    BY <2>1, <2>5, <2>6
  <2> QED BY <2>2, <2>3, <2>7, <2>8 DEF r
<1> QED BY <1>1, <1>2

-----------------------------------------------------------------------------
(* The types.  A message is put at the end of a queue that is not full, or *)
(* taken from its front.                                                   *)
LEMMA PutType ==
  ASSUME NEW T, NEW q \in Seq(T), NEW x \in T, Len(q) < QueueCap
  PROVE  Append(q, x) \in Seq(T) /\ Len(Append(q, x)) <= QueueCap
<1>1. Append(q, x) \in Seq(T) /\ Len(Append(q, x)) = Len(q) + 1 /\ Len(q) \in Nat
  BY AppendProperties
<1> QED BY <1>1

(* See above. *)
LEMMA TakeType ==
  ASSUME NEW T, NEW q \in Seq(T), q # <<>>, Len(q) <= QueueCap
  PROVE  Head(q) \in T /\ Tail(q) \in Seq(T) /\ Len(Tail(q)) <= QueueCap
<1>1. Head(q) \in T /\ Tail(q) \in Seq(T) /\ Len(Tail(q)) = Len(q) - 1 /\ Len(q) \in Nat
  BY HeadTailProperties
<1> QED BY <1>1

(* The first request is one, and its process has a block or not. *)
LEMMA FirstRequest ==
  ASSUME TypeInv, NEW type, Handle(type)
  PROVE  /\ Head(requests) \in Proper /\ Head(requests).type = type
         /\ Head(requests).pid \in Pid /\ Head(requests).name \in Client
         /\ Head(requests).id \in MsgID \cup {NoID}
         /\ requests' \in Seq(Proper) /\ Len(requests') <= QueueCap
<1>1. requests \in Seq(Proper) /\ requests # <<>> /\ Len(requests) <= QueueCap
      /\ requests' = Tail(requests) /\ Head(requests).type = type
  BY DEF TypeInv, RequestsOK, Handle
<1>2. Head(requests) \in Proper /\ requests' \in Seq(Proper) /\ Len(requests') <= QueueCap
  BY <1>1, TakeType
<1> QED BY <1>1, <1>2 DEF Proper, Request

(* The queue of a program after a message to it. *)
LEMMA PostType ==
  ASSUME InboxOK, NEW fails, NEW list, NEW c \in Client,
         NEW type \in {"ACK", "IS_REGISTERED", "DATA"},
         NEW id \in MsgID \cup {NoID}, Post(fails, list, c, type, id)
  PROVE  InboxOK'
<1>1. CASE c \in list /\ Running(c) /\ ~ fails
  <2> DEFINE new == Append(inbox[c], [type |-> type, id |-> id])
  <2>1. [type |-> type, id |-> id] \in Answer
    BY DEF Answer
  <2>2. inbox[c] \in Seq(Answer) /\ Len(inbox[c]) < QueueCap
    BY <1>1 DEF InboxOK, Post
  <2>3. new \in Seq(Answer) /\ Len(new) <= QueueCap
    BY <2>1, <2>2, PutType
  <2>4. inbox' = [inbox EXCEPT ![c] = new]
    BY <1>1 DEF Post
  <2> HIDE DEF new
  <2> QED BY <2>3, <2>4 DEF InboxOK
<1>2. CASE ~ (c \in list /\ Running(c) /\ ~ fails)
  BY <1>2 DEF Post, InboxOK
<1> QED BY <1>1, <1>2

(* What stays keeps its types. *)
LEMMA ProgFrame == ASSUME ProgTypes, UNCHANGED progVars PROVE ProgTypes'
BY DEF ProgTypes, ProgramOK, progVars

(* Likewise, for the router, ... *)
LEMMA RouterFrame == ASSUME RouterTypes, UNCHANGED routerVars PROVE RouterTypes'
BY DEF RouterTypes, routerVars

(* ... the queues of the programs, ... *)
LEMMA InboxFrame == ASSUME InboxOK, UNCHANGED inbox PROVE InboxOK'
BY DEF InboxOK

(* ... and its own. *)
LEMMA RequestsFrame == ASSUME RequestsOK, UNCHANGED requests PROVE RequestsOK'
BY DEF RequestsOK

(* The steps of a program. *)
LEMMA StartType ==
  ASSUME TypeInv, NEW c \in Client, Start(c)
  PROVE  TypeInv'
<1>1. ProgTypes /\ InboxOK /\ RequestsOK /\ RouterTypes
  BY DEF TypeInv
<1>2. births + 1 \in Pid /\ births + 1 \in 0 .. MaxPid
  BY <1>1 DEF ProgTypes, Start, Pid
<1>3. pid' \in [Client -> Pid \cup {NoPid}] /\ pid'[c] # NoPid
      /\ \A d \in Client \ {c} : pid'[d] = pid[d]
  BY <1>1, <1>2 DEF ProgTypes, Start, Pid, NoPid
<1>4. pc' \in [Client -> Point] /\ pc'[c] = "out" /\ \A d \in Client \ {c} : pc'[d] = pc[d]
  BY <1>1 DEF ProgTypes, Start, GoTo, Point
<1>5. ProgramOK'
  BY <1>1, <1>3, <1>4 DEF ProgTypes, ProgramOK, Start
<1>6. ProgTypes'
  BY <1>1, <1>2, <1>3, <1>4, <1>5 DEF ProgTypes, Start
<1> QED BY <1>1, <1>6, RouterFrame, InboxFrame, RequestsFrame DEF TypeInv, Start

(* The death of a program. *)
LEMMA CrashType ==
  ASSUME TypeInv, NEW c \in Client, Crash(c)
  PROVE  TypeInv'
<1>1. ProgTypes /\ InboxOK /\ RequestsOK /\ RouterTypes
  BY DEF TypeInv
<1>2. pid' \in [Client -> Pid \cup {NoPid}] /\ \A d \in Client \ {c} : pid'[d] = pid[d]
  BY <1>1 DEF ProgTypes, Crash
<1>3. pc' \in [Client -> Point] /\ pc'[c] = "down" /\ \A d \in Client \ {c} : pc'[d] = pc[d]
  BY <1>1 DEF ProgTypes, Crash, GoTo, Point
<1>4. writing' \in [Client -> Request \cup {NoRequest}]
      /\ \A d \in Client \ {c} : writing'[d] = writing[d]
  BY <1>1 DEF ProgTypes, Crash
<1>5. ProgramOK'
  BY <1>1, <1>2, <1>3, <1>4 DEF ProgTypes, ProgramOK
<1>6. wanted' \in [Client -> SUBSET MsgID]
  BY <1>1 DEF ProgTypes, Crash
<1>7. ProgTypes'
  BY <1>1, <1>2, <1>3, <1>4, <1>5, <1>6 DEF ProgTypes, Crash
<1>8. InboxOK'
  <2>1. <<>> \in Seq(Answer) /\ Len(<<>>) <= QueueCap
    OBVIOUS
  <2>2. inbox' = [inbox EXCEPT ![c] = inbox[c]] \/ inbox' = [inbox EXCEPT ![c] = <<>>]
    BY DEF Crash
  <2> QED BY <1>1, <2>1, <2>2 DEF InboxOK
<1> QED BY <1>1, <1>7, <1>8, RouterFrame, RequestsFrame DEF TypeInv, Crash

(* A call that has a request to write. *)
LEMMA CallType ==
  ASSUME TypeInv, NEW c \in Client, NEW point \in {"out", "in"}, NEW p \in Pid, NEW type,
         NEW id \in MsgID \cup {NoID}, Call(c, point, p, type, id),
         type = "ENABLE" => id \in MsgID
  PROVE  TypeInv'
<1>1. ProgTypes /\ InboxOK /\ RequestsOK /\ RouterTypes
  BY DEF TypeInv
<1> DEFINE r == [type |-> type, pid |-> p, name |-> c, id |-> id]
<1>2. r \in Request /\ r \in Proper
  <2>1. type \in Subtype
    BY DEF Call, RouterAssumption
  <2> QED BY <2>1 DEF Request, Proper
<1>3. writing' = [writing EXCEPT ![c] = r] /\ pc' = [pc EXCEPT ![c] = "sending"]
      /\ pc[c] = point /\ UNCHANGED <<pid, births, wanted, inbox, requests, routerVars>>
  BY DEF Call, GoTo
<1> HIDE DEF r
<1>4. writing' \in [Client -> Request \cup {NoRequest}] /\ writing'[c] \in Proper
      /\ \A d \in Client \ {c} : writing'[d] = writing[d]
  BY <1>1, <1>2, <1>3 DEF ProgTypes
<1>5. pc' \in [Client -> Point] /\ \A d \in Client \ {c} : pc'[d] = pc[d]
  BY <1>1, <1>3 DEF ProgTypes, Point
<1>6. ProgramOK'
  BY <1>1, <1>3, <1>4, <1>5 DEF ProgTypes, ProgramOK
<1>7. ProgTypes'
  BY <1>1, <1>3, <1>4, <1>5, <1>6 DEF ProgTypes
<1> QED BY <1>1, <1>3, <1>7, RouterFrame, InboxFrame, RequestsFrame DEF TypeInv

(* Every call of a program. *)
LEMMA ProgramType ==
  ASSUME TypeInv, NEW c \in Client, Program(c)
  PROVE  TypeInv'
<1>1. pc[c] # "down" => pid[c] \in Pid
  BY DEF TypeInv, ProgTypes, ProgramOK
<1>2. NoID \in MsgID \cup {NoID} /\ MsgID \subseteq MsgID \cup {NoID}
  OBVIOUS
<1>3. CASE radMsgRouterInit(c)
  <2>1. pid[c] \in Pid
    BY <1>1, <1>3 DEF radMsgRouterInit, Call
  <2> QED BY <1>2, <1>3, <2>1, CallType DEF radMsgRouterInit
<1>4. CASE radMsgRouterExit(c)
  <2>1. pid[c] \in Pid
    BY <1>1, <1>4 DEF radMsgRouterExit, Call
  <2> QED BY <1>2, <1>4, <2>1, CallType DEF radMsgRouterExit
<1>5. ASSUME NEW p \in Pid, radMsgRouterProcessExit(c, p) PROVE TypeInv'
  BY <1>2, <1>5, CallType DEF radMsgRouterProcessExit
<1>6. ASSUME NEW i \in MsgID,
             \/ radMsgRouterMessageRegister(c, i) \/ radMsgRouterMessageDeregister(c, i)
             \/ radMsgRouterMessageIsRegistered(c, i) \/ radMsgRouterMessageSend(c, i)
      PROVE  TypeInv'
  <2>1. PICK type : Call(c, "in", pid[c], type, i)
    BY <1>6 DEF radMsgRouterMessageRegister, radMsgRouterMessageDeregister,
                radMsgRouterMessageIsRegistered, radMsgRouterMessageSend
  <2>2. pid[c] \in Pid
    BY <1>1, <2>1 DEF Call
  <2> QED BY <1>2, <2>1, <2>2, CallType
<1> QED BY <1>3, <1>4, <1>5, <1>6 DEF Program

(* The request is written. *)
LEMMA SendType ==
  ASSUME TypeInv, NEW c \in Client, sendToRouter(c)
  PROVE  TypeInv'
<1>1. ProgTypes /\ InboxOK /\ RequestsOK /\ RouterTypes
  BY DEF TypeInv
<1>2. pc[c] = "sending" /\ writing[c] \in Proper
  BY <1>1 DEF sendToRouter, ProgTypes, ProgramOK
<1>3. RequestsOK'
  BY <1>1, <1>2, PutType DEF RequestsOK, sendToRouter
<1>4. After(c) \in Point /\ After(c) # "sending" /\ After(c) # "down"
  BY DEF After, Point
<1>5. pc' \in [Client -> Point] /\ pc'[c] = After(c) /\ \A d \in Client \ {c} : pc'[d] = pc[d]
  BY <1>1, <1>4 DEF ProgTypes, sendToRouter, GoTo
<1>6. writing' \in [Client -> Request \cup {NoRequest}]
      /\ \A d \in Client \ {c} : writing'[d] = writing[d]
  BY <1>1 DEF ProgTypes, sendToRouter
<1>7. ProgramOK'
  BY <1>1, <1>2, <1>4, <1>5, <1>6 DEF ProgTypes, ProgramOK, sendToRouter
<1>8. wanted' \in [Client -> SUBSET MsgID]
  <2>1. ASSUME NEW ids \in SUBSET MsgID PROVE Effect(writing[c], ids) \in SUBSET MsgID
    BY <1>2 DEF Effect, Proper
  <2>2. wanted[c] \in SUBSET MsgID
    BY <1>1 DEF ProgTypes
  <2>3. Effect(writing[c], wanted[c]) \in SUBSET MsgID
    BY <2>1, <2>2
  <2>4. wanted' = [wanted EXCEPT ![c] = Effect(writing[c], wanted[c])]
        \/ wanted' = [wanted EXCEPT ![c] = wanted[c]]
    BY DEF sendToRouter
  <2> QED BY <1>1, <2>2, <2>3, <2>4 DEF ProgTypes
<1>9. ProgTypes'
  BY <1>1, <1>5, <1>6, <1>7, <1>8 DEF ProgTypes, sendToRouter
<1> QED BY <1>1, <1>3, <1>9, RouterFrame, InboxFrame DEF TypeInv, sendToRouter

(* The call fails, and its request with it. *)
LEMMA SendFailsType ==
  ASSUME TypeInv, NEW c \in Client, sendFails(c)
  PROVE  TypeInv'
<1>1. ProgTypes /\ InboxOK /\ RequestsOK /\ RouterTypes
  BY DEF TypeInv
<1>2. PICK point \in {"in", "out"} : pc' = [pc EXCEPT ![c] = point]
  BY DEF sendFails, GoTo
<1>3. pc' \in [Client -> Point] /\ pc'[c] = point /\ \A d \in Client \ {c} : pc'[d] = pc[d]
  BY <1>1, <1>2 DEF ProgTypes, Point
<1>4. UNCHANGED <<pid, births, wanted, inbox, requests, routerVars>> /\ pc[c] # "down"
  BY DEF sendFails
<1>5. writing' \in [Client -> Request \cup {NoRequest}] /\ \A d \in Client \ {c} : writing'[d] = writing[d]
  BY <1>1 DEF ProgTypes, sendFails
<1>6. ProgramOK'
  BY <1>1, <1>3, <1>4, <1>5 DEF ProgTypes, ProgramOK
<1>7. ProgTypes'
  BY <1>1, <1>3, <1>4, <1>5, <1>6 DEF ProgTypes
<1> QED BY <1>1, <1>4, <1>7, RouterFrame, InboxFrame, RequestsFrame DEF TypeInv

(* A message is taken, and the program goes on somewhere. *)
LEMMA ReadType ==
  ASSUME TypeInv, NEW c \in Client, Take(c), NEW point \in Point \ {"down", "sending"},
         pc[c] # "down", pc' = [pc EXCEPT ![c] = point]
  PROVE  TypeInv'
<1>1. ProgTypes /\ InboxOK /\ RequestsOK /\ RouterTypes
  BY DEF TypeInv
<1>2. InboxOK'
  <2>1. inbox[c] \in Seq(Answer) /\ inbox[c] # <<>> /\ Len(inbox[c]) <= QueueCap
    BY <1>1 DEF InboxOK, Take
  <2> DEFINE rest == Tail(inbox[c])
  <2>2. rest \in Seq(Answer) /\ Len(rest) <= QueueCap
    BY <2>1, TakeType
  <2>3. inbox' = [inbox EXCEPT ![c] = rest]
    BY DEF Take
  <2> HIDE DEF rest
  <2> QED BY <1>1, <2>2, <2>3 DEF InboxOK
<1>3. pc' \in [Client -> Point] /\ pc'[c] = point /\ \A d \in Client \ {c} : pc'[d] = pc[d]
  BY <1>1 DEF ProgTypes
<1>4. UNCHANGED <<pid, births, writing, wanted, requests, routerVars>>
  BY DEF Take
<1>5. ProgramOK'
  BY <1>1, <1>3, <1>4 DEF ProgTypes, ProgramOK
<1>6. ProgTypes'
  BY <1>1, <1>3, <1>4, <1>5 DEF ProgTypes
<1> QED BY <1>1, <1>2, <1>4, <1>6, RouterFrame, RequestsFrame DEF TypeInv

(* The waits and the steps that end a call. *)
LEMMA AdvanceType ==
  ASSUME TypeInv, NEW c \in Client, Advance(c)
  PROVE  TypeInv'
<1>1. CASE sendToRouter(c)
  BY <1>1, SendType
<1>2. CASE waitForRouterAck(c) \/ waitForRouterAnswer(c)
  <2>1. Take(c) /\ pc[c] # "down"
    BY <1>2 DEF waitForRouterAck, waitForRouterAnswer, WaitFor
  <2>2. \E point \in {"in", "out", "wait_ack", "wait_answer"} : pc' = [pc EXCEPT ![c] = point]
    BY <1>2 DEF waitForRouterAck, waitForRouterAnswer, WaitFor, GoTo
  <2>3. {"in", "out", "wait_ack", "wait_answer"} \subseteq Point \ {"down", "sending"}
    BY DEF Point
  <2> QED BY <2>1, <2>2, <2>3, ReadType
<1>3. CASE Receive(c)
  <2>1. Take(c) /\ pc[c] # "down" /\ pc[c] \in Point \ {"down", "sending"}
    BY <1>3 DEF Receive, Point
  <2>2. pc' = [pc EXCEPT ![c] = pc[c]]
    BY <1>3 DEF Receive, TypeInv, ProgTypes
  <2> QED BY <2>1, <2>2, ReadType
<1> QED BY <1>1, <1>2, <1>3 DEF Advance

-----------------------------------------------------------------------------
(* A process has a block in a list of blocks. *)
Has(p, blocks) == \E b \in blocks : b.pid = p

(* What the steps of the router keep: its lists agree. *)
ListsOK ==
  \A i \in MsgID :
    /\ IsInjective(consumers[i])
    /\ \A k \in 1 .. Len(consumers[i]) : Has(consumers[i][k], pibList)
    /\ i \in miibList <=> consumers[i] # <<>>
RouteOK == \A k \in 1 .. Len(route.todo) : Has(route.todo[k], pibList)
BlocksOK == \A a, b \in pibList : a.pid = b.pid => a = b

Inv == TypeInv /\ ListsOK /\ RouteOK /\ BlocksOK

(* Between two messages no consumer is still to be reached. *)
LEMMA IdleTodo == route = Idle => route.todo = <<>>
BY DEF Idle

(* A request is handled: programs stay, and the types of queues.           *)
LEMMA HandleType ==
  ASSUME TypeInv, NEW type, Handle(type)
  PROVE  ProgTypes' /\ RequestsOK' /\ route = Idle
<1>1. ProgTypes'
  BY ProgFrame DEF TypeInv, Handle
<1>2. RequestsOK'
  BY FirstRequest DEF RequestsOK
<1> QED BY <1>1, <1>2 DEF Handle

(* A process gets a block, has one, or is turned away. *)
LEMMA RegisterStep ==
  ASSUME Inv, NEW fails, Register(fails)
  PROVE  Inv'
<1> DEFINE r == Head(requests)
<1>1. Handle("REGISTER") /\ UNCHANGED <<consumers, miibList, route>>
  BY DEF Register
<1>2. ProgTypes' /\ RequestsOK' /\ r.pid \in Pid /\ r.name \in Client
  BY <1>1, HandleType, FirstRequest DEF Inv
<1>3. InboxOK /\ RouterTypes /\ "ACK" \in {"ACK", "IS_REGISTERED", "DATA"}
      /\ NoID \in MsgID \cup {NoID}
  BY DEF Inv, TypeInv
<1>4. ASSUME InboxOK', UNCHANGED <<pibList, attached>>, unanswered' \in SUBSET Pid
      PROVE  Inv'
  <2>1. RouterTypes'
    BY <1>1, <1>3, <1>4 DEF RouterTypes
  <2>2. ListsOK' /\ RouteOK' /\ BlocksOK'
    BY <1>1, <1>4 DEF Inv, ListsOK, RouteOK, BlocksOK
  <2> QED BY <1>2, <1>4, <2>1, <2>2 DEF Inv, TypeInv
<1>5. CASE \E b \in getPIBByPID(r.pid) : SendACK(fails, attached, b)
                                          /\ UNCHANGED <<pibList, attached>>
  <2>1. PICK b \in getPIBByPID(r.pid) : SendACK(fails, attached, b)
    BY <1>5
  <2>2. b.name \in Client /\ b.pid \in Pid
    BY <1>3 DEF getPIBByPID, RouterTypes
  <2>3. InboxOK'
    BY <1>3, <2>1, <2>2, PostType DEF SendACK
  <2>4. unanswered' \in SUBSET Pid
    BY <1>3, <2>1, <2>2 DEF SendACK, RouterTypes
  <2> QED BY <1>4, <1>5, <2>3, <2>4
<1>6. CASE getPIBByPID(r.pid) = {} /\ TurnAway(fails, r)
  BY <1>2, <1>3, <1>4, <1>6, InboxFrame DEF TurnAway, RouterTypes
<1>7. CASE getPIBByPID(r.pid) = {} /\ NewClient(fails, r)
  <2> DEFINE new == [pid |-> r.pid, name |-> r.name]
  <2>1. /\ pibList' = pibList \cup {new} /\ attached' = attached \cup {r.name}
        /\ SendACK(fails, attached \cup {r.name}, new)
        /\ new.pid = r.pid /\ new.name = r.name
    BY <1>7 DEF NewClient
  <2>2. new \in [pid : Pid, name : Client]
    BY <1>2
  <2> HIDE DEF new
  <2>3. InboxOK'
    BY <1>2, <1>3, <2>1, PostType DEF SendACK
  <2>4. unanswered' \in SUBSET Pid
    BY <1>2, <1>3, <2>1 DEF SendACK, RouterTypes
  <2>5. RouterTypes'
    BY <1>1, <1>2, <1>3, <2>1, <2>2, <2>4 DEF RouterTypes
  <2>6. BlocksOK'
    <3>1. \A b \in pibList : b.pid # r.pid
      BY <1>7 DEF getPIBByPID
    <3> QED BY <2>1, <3>1 DEF Inv, BlocksOK
  <2>7. \A p : Has(p, pibList) => Has(p, pibList')
    BY <2>1 DEF Has
  <2>8. ListsOK' /\ RouteOK'
    BY <1>1, <2>7 DEF Inv, ListsOK, RouteOK
  <2> QED BY <1>2, <2>3, <2>5, <2>6, <2>8 DEF Inv, TypeInv
<1> QED BY <1>5, <1>6, <1>7 DEF Register

(* A process loses its block, and before it its place in every list. *)
LEMMA DeregisterStep ==
  ASSUME Inv, Deregister
  PROVE  Inv'
<1> DEFINE r == Head(requests)
<1>1. Handle("DEREGISTER") /\ UNCHANGED <<route, unanswered>>
  BY DEF Deregister
<1>2. ProgTypes' /\ RequestsOK' /\ route = Idle
  BY <1>1, HandleType DEF Inv
<1>3. InboxOK /\ RouterTypes
  BY DEF Inv, TypeInv
<1>4. CASE UNCHANGED <<pibList, attached, consumers, miibList, inbox>>
  <2>1. UNCHANGED routerVars
    BY <1>1, <1>4 DEF routerVars
  <2>2. TypeInv'
    BY <1>2, <1>3, <1>4, <2>1, RouterFrame, InboxFrame DEF TypeInv
  <2> QED BY <2>1, <2>2 DEF Inv, ListsOK, RouteOK, BlocksOK, routerVars
<1>5. ASSUME NEW b \in getPIBByPID(r.pid), RemoveClientFromAllMsgs(b.pid),
             pibList' = pibList \ {b}, Detach(b.name)
      PROVE  Inv'
  <2> DEFINE p == b.pid
  <2>1. b \in pibList /\ b.name \in Client
    BY <1>3, <1>5 DEF getPIBByPID, RouterTypes
  <2>2. InboxOK'
    <3>1. <<>> \in Seq(Answer) /\ Len(<<>>) <= QueueCap
      OBVIOUS
    <3>2. inbox' = [inbox EXCEPT ![b.name] = inbox[b.name]] \/ inbox' = [inbox EXCEPT ![b.name] = <<>>]
      BY <1>5 DEF Detach
    <3> QED BY <1>3, <2>1, <3>1, <3>2 DEF InboxOK
  <2>3. ASSUME NEW i \in MsgID
        PROVE  /\ consumers'[i] = Without(consumers[i], p)
               /\ consumers'[i] \in Seq(Pid) /\ IsInjective(consumers'[i])
               /\ \A k \in 1 .. Len(consumers'[i]) :
                    consumers'[i][k] # p
                    /\ \E j \in 1 .. Len(consumers[i]) : consumers'[i][k] = consumers[i][j]
    <3>1. consumers'[i] = Without(consumers[i], p)
      BY <1>5 DEF RemoveClientFromAllMsgs
    <3> DEFINE old == consumers[i]
               new == Without(old, p)
    <3>2. old \in Seq(Pid) /\ IsInjective(old)
      BY <1>3 DEF RouterTypes, Inv, ListsOK
    <3>3. consumers'[i] = new
      BY <3>1
    <3> HIDE DEF p, old
    <3>4. /\ new \in Seq(Pid) /\ IsInjective(new)
          /\ \A k \in 1 .. Len(new) : new[k] # p /\ \E j \in 1 .. Len(old) : new[k] = old[j]
      BY <3>2, WithoutOne
    <3> HIDE DEF new
    <3> QED BY <3>1, <3>3, <3>4 DEF old
  <2>4. consumers' \in [MsgID -> Seq(Pid)] /\ miibList' \in SUBSET MsgID
    <3>1. consumers' = [i \in MsgID |-> Without(consumers[i], p)]
      BY <1>5 DEF RemoveClientFromAllMsgs
    <3>2. miibList' \in SUBSET MsgID
      BY <1>3, <1>5 DEF RemoveClientFromAllMsgs, RouterTypes
    <3>3. \A i \in MsgID : Without(consumers[i], p) \in Seq(Pid)
      BY <2>3
    <3> QED BY <3>1, <3>2, <3>3
  <2>5. RouterTypes'
    BY <1>1, <1>3, <1>5, <2>4 DEF RouterTypes, Detach
  <2>6. \A q : Has(q, pibList) /\ q # p => Has(q, pibList')
    BY <1>5 DEF Has
  <2>7. ListsOK'
    <3> SUFFICES ASSUME NEW i \in MsgID
                 PROVE  /\ IsInjective(consumers'[i])
                        /\ \A k \in 1 .. Len(consumers'[i]) : Has(consumers'[i][k], pibList')
                        /\ i \in miibList' <=> consumers'[i] # <<>>
      BY DEF ListsOK
    <3>1. ASSUME NEW k \in 1 .. Len(consumers'[i]) PROVE Has(consumers'[i][k], pibList')
      <4>1. Has(consumers'[i][k], pibList) /\ consumers'[i][k] # p
        BY <2>3 DEF Inv, ListsOK
      <4> QED BY <2>6, <4>1
    <3>2. i \in miibList' <=> i \in miibList /\ consumers'[i] # <<>>
      BY <1>5, <2>3 DEF RemoveClientFromAllMsgs
    <3>3. i \in miibList <=> consumers[i] # <<>>
      BY DEF Inv, ListsOK
    <3>4. consumers[i] = <<>> => consumers'[i] = <<>>
      <4> SUFFICES ASSUME consumers[i] = <<>> PROVE consumers'[i] = <<>>
        OBVIOUS
      <4>1. \A k \in 1 .. Len(consumers'[i]) : FALSE
        BY <2>3
      <4>2. consumers'[i] \in Seq(Pid)
        BY <2>3
      <4> QED BY <4>1, <4>2, EmptySeq
    <3> QED BY <2>3, <3>1, <3>2, <3>3, <3>4
  <2>8. RouteOK' /\ BlocksOK'
    <3>1. route'.todo = <<>>
      BY <1>1, <1>2, IdleTodo
    <3> QED BY <1>5, <3>1 DEF Inv, RouteOK, BlocksOK
  <2> QED BY <1>2, <2>2, <2>5, <2>7, <2>8 DEF Inv, TypeInv
<1> QED BY <1>4, <1>5 DEF Deregister

(* The lists after one of them has changed, and nothing else. *)
LEMMA ListStep ==
  ASSUME Inv, NEW type, Handle(type), UNCHANGED <<pibList, attached, route, unanswered, inbox>>,
         NEW i, NEW list, consumers' = [consumers EXCEPT ![i] = list],
         i \in MsgID => /\ list \in Seq(Pid) /\ IsInjective(list)
                        /\ \A k \in 1 .. Len(list) : Has(list[k], pibList)
                        /\ i \in miibList' <=> list # <<>>,
         miibList' \in SUBSET MsgID,
         \A j \in MsgID \ {i} : j \in miibList' <=> j \in miibList
  PROVE  Inv'
<1>1. ProgTypes' /\ RequestsOK'
  BY HandleType DEF Inv
<1>2. InboxOK'
  BY InboxFrame DEF Inv, TypeInv
<1>3. consumers' \in [MsgID -> Seq(Pid)]
  BY DEF Inv, TypeInv, RouterTypes
<1>4. RouterTypes'
  BY <1>3 DEF Inv, TypeInv, RouterTypes
<1>5. \A p : Has(p, pibList') <=> Has(p, pibList)
  OBVIOUS
<1>6. ListsOK'
  <2> SUFFICES ASSUME NEW j \in MsgID
               PROVE  /\ IsInjective(consumers'[j])
                      /\ \A k \in 1 .. Len(consumers'[j]) : Has(consumers'[j][k], pibList')
                      /\ j \in miibList' <=> consumers'[j] # <<>>
    BY DEF ListsOK
  <2>1. CASE j = i
    <3>1. consumers'[j] = list
      BY <2>1 DEF Inv, TypeInv, RouterTypes
    <3> QED BY <1>5, <2>1, <3>1
  <2>2. CASE j # i
    <3>1. consumers'[j] = consumers[j]
      BY <2>2 DEF Inv, TypeInv, RouterTypes
    <3> QED BY <1>5, <2>2, <3>1 DEF Inv, ListsOK
  <2> QED BY <2>1, <2>2
<1>7. RouteOK' /\ BlocksOK'
  BY <1>5 DEF Inv, RouteOK, BlocksOK
<1> QED BY <1>1, <1>2, <1>4, <1>6, <1>7 DEF Inv, TypeInv

(* A request that changes nothing but the queue of the router. *)
LEMMA NothingStep ==
  ASSUME Inv, NEW type, Handle(type), UNCHANGED routerVars, InboxOK'
  PROVE  Inv'
<1>1. ProgTypes' /\ RequestsOK'
  BY HandleType DEF Inv
<1>2. RouterTypes'
  BY RouterFrame DEF Inv, TypeInv
<1> QED BY <1>1, <1>2
        DEF Inv, TypeInv, ListsOK, RouteOK, BlocksOK, routerVars

(* A process subscribes. *)
LEMMA EnableStep ==
  ASSUME Inv, EnableMsgID
  PROVE  Inv'
<1> DEFINE r == Head(requests)
<1>1. Handle("ENABLE") /\ UNCHANGED <<pibList, attached, route, unanswered, inbox>>
  BY DEF EnableMsgID
<1>2. r.pid \in Pid /\ r.id \in MsgID
  BY <1>1, FirstRequest DEF Inv, Proper
<1>3. CASE UNCHANGED <<consumers, miibList>>
  BY <1>1, <1>3, NothingStep, InboxFrame DEF routerVars, Inv, TypeInv
<1>4. CASE getPIBByPID(r.pid) # {} /\ AddClient(r.id, r.pid)
  <2> DEFINE old == consumers[r.id]
             list == IF Contains(old, r.pid) THEN old ELSE Append(old, r.pid)
  <2>1. old \in Seq(Pid) /\ IsInjective(old) /\ \A k \in 1 .. Len(old) : Has(old[k], pibList)
    BY <1>2 DEF Inv, TypeInv, RouterTypes, ListsOK
  <2>2. Has(r.pid, pibList)
    BY <1>4 DEF Has, getPIBByPID
  <2>3. consumers' = [consumers EXCEPT ![r.id] = list] /\ miibList' = miibList \cup {r.id}
    BY <1>4 DEF AddClient
  <2>4. /\ list \in Seq(Pid) /\ IsInjective(list) /\ list # <<>>
        /\ \A k \in 1 .. Len(list) : Has(list[k], pibList)
    <3>1. CASE Contains(old, r.pid)
      <4>1. Len(old) # 0
        BY <2>1, <3>1 DEF Contains
      <4>2. list = old
        BY <3>1
      <4> HIDE DEF list, old
      <4> QED BY <2>1, <4>1, <4>2
    <3>2. CASE ~ Contains(old, r.pid)
      <4>1. list = Append(old, r.pid)
        BY <3>2
      <4> HIDE DEF list
      <4>2. /\ list \in Seq(Pid) /\ Len(list) = Len(old) + 1
            /\ \A k \in 1 .. Len(old) : list[k] = old[k]
            /\ list[Len(old) + 1] = r.pid
        BY <1>2, <2>1, <4>1, AppendProperties
      <4>3. Len(old) \in Nat /\ DOMAIN list = 1 .. Len(old) + 1 /\ DOMAIN old = 1 .. Len(old)
        BY <2>1, <4>2
      <4>4. \A k \in 1 .. Len(old) : old[k] # r.pid
        BY <3>2 DEF Contains
      <4> HIDE DEF old
      <4>5. IsInjective(list)
        <5> SUFFICES ASSUME NEW a \in 1 .. Len(old) + 1, NEW b \in 1 .. Len(old) + 1,
                            list[a] = list[b]
                     PROVE  a = b
          BY <4>3 DEF IsInjective
        <5>1. \A i, j \in 1 .. Len(old) : old[i] = old[j] => i = j
          BY <2>1, <4>3 DEF IsInjective
        <5>2. CASE a \in 1 .. Len(old) /\ b \in 1 .. Len(old)
          BY <4>2, <5>1, <5>2
        <5>3. CASE a = Len(old) + 1 /\ b \in 1 .. Len(old)
          BY <4>2, <4>4, <5>3
        <5>4. CASE a \in 1 .. Len(old) /\ b = Len(old) + 1
          BY <4>2, <4>4, <5>4
        <5>5. CASE a = Len(old) + 1 /\ b = Len(old) + 1
          BY <5>5
        <5> QED BY <4>3, <5>2, <5>3, <5>4, <5>5
      <4>6. \A k \in 1 .. Len(list) : Has(list[k], pibList)
        <5> SUFFICES ASSUME NEW k \in 1 .. Len(old) + 1 PROVE Has(list[k], pibList)
          BY <4>2
        <5>1. CASE k \in 1 .. Len(old)
          BY <2>1, <4>2, <5>1
        <5>2. CASE k = Len(old) + 1
          BY <2>2, <4>2, <5>2
        <5> QED BY <4>3, <5>1, <5>2
      <4> QED BY <4>2, <4>3, <4>5, <4>6
    <3> QED BY <3>1, <3>2
  <2> HIDE DEF list, r
  <2>5. miibList' \in SUBSET MsgID
    BY <1>2, <2>3 DEF Inv, TypeInv, RouterTypes
  <2> QED BY <1>1, <1>2, <2>3, <2>4, <2>5, ListStep
<1> QED BY <1>3, <1>4 DEF EnableMsgID

(* A process cancels. *)
LEMMA DisableStep ==
  ASSUME Inv, DisableMsgID
  PROVE  Inv'
<1> DEFINE r == Head(requests)
<1>1. Handle("DISABLE") /\ UNCHANGED <<pibList, attached, route, unanswered, inbox>>
  BY DEF DisableMsgID
<1>2. CASE UNCHANGED <<consumers, miibList>>
  BY <1>1, <1>2, NothingStep, InboxFrame DEF routerVars, Inv, TypeInv
<1>3. CASE /\ r.id \in miibList
           /\ consumers' = [consumers EXCEPT ![r.id] = Without(@, r.pid)]
           /\ miibList' = IF consumers'[r.id] = <<>> THEN miibList \ {r.id} ELSE miibList
  <2> DEFINE old == consumers[r.id]
             list == Without(old, r.pid)
  <2>1. r.id \in MsgID
    BY <1>3 DEF Inv, TypeInv, RouterTypes
  <2>2. old \in Seq(Pid) /\ IsInjective(old) /\ \A k \in 1 .. Len(old) : Has(old[k], pibList)
    BY <2>1 DEF Inv, TypeInv, RouterTypes, ListsOK
  <2>3. consumers' = [consumers EXCEPT ![r.id] = list] /\ consumers'[r.id] = list
    BY <1>3, <2>1 DEF Inv, TypeInv, RouterTypes
  <2>4. /\ list \in Seq(Pid) /\ IsInjective(list)
        /\ \A k \in 1 .. Len(list) : \E i \in 1 .. Len(old) : list[k] = old[i]
    BY <2>2, WithoutOne
  <2>5. \A k \in 1 .. Len(list) : Has(list[k], pibList)
    BY <2>2, <2>4
  <2>6. miibList' \in SUBSET MsgID
    BY <1>3 DEF Inv, TypeInv, RouterTypes
  <2>7. r.id \in miibList' <=> list # <<>>
    BY <1>3, <2>3
  <2>8. \A j \in MsgID \ {r.id} : j \in miibList' <=> j \in miibList
    BY <1>3
  <2> HIDE DEF list, r
  <2> QED BY <1>1, <2>3, <2>4, <2>5, <2>6, <2>7, <2>8, ListStep
<1> QED BY <1>2, <1>3 DEF DisableMsgID

(* A question is answered, or not. *)
LEMMA AskStep ==
  ASSUME Inv, NEW fails, MsgIDIsRegistered(fails)
  PROVE  Inv'
<1> DEFINE r == Head(requests)
<1>1. Handle("IS_REGISTERED") /\ UNCHANGED routerVars
  BY DEF MsgIDIsRegistered
<1>2. InboxOK /\ RouterTypes /\ r.id \in MsgID \cup {NoID}
  BY <1>1, FirstRequest DEF Inv, TypeInv
<1>3. CASE \E b \in getPIBByPID(r.pid) : Post(fails, attached, b.name, "IS_REGISTERED", r.id)
  <2>1. PICK b \in getPIBByPID(r.pid) : Post(fails, attached, b.name, "IS_REGISTERED", r.id)
    BY <1>3
  <2>2. b.name \in Client
    BY <1>2 DEF getPIBByPID, RouterTypes
  <2>3. InboxOK'
    BY <1>2, <2>1, <2>2, PostType
  <2> QED BY <1>1, <2>3, NothingStep
<1>4. CASE UNCHANGED inbox
  BY <1>1, <1>2, <1>4, InboxFrame, NothingStep
<1> QED BY <1>3, <1>4 DEF MsgIDIsRegistered

(* A message is to be routed to the consumers there are. *)
LEMMA RouteStep ==
  ASSUME Inv, RouteMsg
  PROVE  Inv'
<1> DEFINE r == Head(requests)
<1>1. Handle("DATA") /\ UNCHANGED <<pibList, attached, consumers, miibList, unanswered, inbox>>
  BY DEF RouteMsg
<1>2. ProgTypes' /\ RequestsOK' /\ route = Idle
  BY <1>1, HandleType DEF Inv
<1>3. InboxOK' /\ RouterTypes
  BY <1>1, InboxFrame DEF Inv, TypeInv
<1>4. CASE route' = Idle
  <2>1. UNCHANGED routerVars
    BY <1>1, <1>2, <1>4 DEF routerVars
  <2> QED BY <1>1, <1>3, <2>1, NothingStep
<1>5. CASE r.id \in miibList /\ consumers[r.id] # <<>>
           /\ route' = [id |-> r.id, todo |-> consumers[r.id]]
  <2>1. r.id \in MsgID /\ consumers[r.id] \in Seq(Pid)
    BY <1>3, <1>5 DEF RouterTypes
  <2>2. route'.id = r.id /\ route'.todo = consumers[r.id]
    BY <1>5
  <2>3. RouterTypes'
    BY <1>1, <1>3, <1>5, <2>1, <2>2 DEF RouterTypes
  <2>4. RouteOK'
    BY <1>1, <2>1, <2>2 DEF Inv, ListsOK, RouteOK
  <2>5. ListsOK' /\ BlocksOK'
    BY <1>1 DEF Inv, ListsOK, BlocksOK
  <2> QED BY <1>2, <1>3, <2>3, <2>4, <2>5 DEF Inv, TypeInv
<1> QED BY <1>4, <1>5 DEF RouteMsg

(* One turn of the loop: the rest of the consumers is still to be reached. *)
LEMMA ClientStep ==
  ASSUME Inv, NEW fails, SendToClient(fails)
  PROVE  Inv'
<1>1. UNCHANGED <<progVars, requests, pibList, attached, consumers, miibList, unanswered>>
      /\ route # Idle
  BY DEF SendToClient
<1>2. ProgTypes' /\ RequestsOK' /\ InboxOK /\ RouterTypes
  BY <1>1, ProgFrame, RequestsFrame DEF Inv, TypeInv
<1>3. route.todo \in Seq(Pid) /\ route.todo # <<>> /\ route.id \in MsgID \cup {NoID}
      /\ Len(route.todo) \in Nat
  BY <1>1, <1>2 DEF RouterTypes
<1>4. InboxOK'
  <2>1. PICK b \in getPIBByPID(Head(route.todo)) : Post(fails, attached, b.name, "DATA", route.id)
    BY DEF SendToClient
  <2>2. b.name \in Client
    BY <1>2 DEF getPIBByPID, RouterTypes
  <2> QED BY <1>2, <1>3, <2>1, <2>2, PostType
<1>5. ListsOK' /\ BlocksOK'
  BY <1>1 DEF Inv, ListsOK, BlocksOK
<1>6. RouterTypes' /\ RouteOK'
  <2>1. CASE Len(route.todo) = 1
    <3>1. route' = Idle
      BY <2>1 DEF SendToClient
    <3>2. route'.todo = <<>> /\ Len(route'.todo) = 0
      BY <3>1 DEF Idle
    <3>3. route' \in [id : MsgID \cup {NoID}, todo : Seq(Pid)]
      <4>1. <<>> \in Seq(Pid)
        OBVIOUS
      <4> QED BY <3>1, <4>1 DEF Idle
    <3>4. RouterTypes'
      BY <1>1, <1>2, <3>1, <3>3 DEF RouterTypes
    <3>5. RouteOK'
      BY <3>2 DEF RouteOK
    <3> QED BY <3>4, <3>5
  <2>2. CASE Len(route.todo) # 1
    <3> DEFINE rest == Tail(route.todo)
    <3>1. route' = [route EXCEPT !.todo = rest]
      BY <2>2 DEF SendToClient
    <3>2. /\ rest \in Seq(Pid) /\ Len(rest) = Len(route.todo) - 1 /\ Len(route.todo) # 0
          /\ \A k \in 1 .. Len(rest) : rest[k] = route.todo[k + 1]
      BY <1>3, HeadTailProperties
    <3>3. rest # <<>>
      <4>1. Len(rest) # 0
        BY <1>3, <2>2, <3>2
      <4> HIDE DEF rest
      <4> QED BY <4>1
    <3>4. \A k \in 1 .. Len(rest) : Has(rest[k], pibList)
      <4> SUFFICES ASSUME NEW k \in 1 .. Len(rest) PROVE Has(rest[k], pibList)
        OBVIOUS
      <4>1. k + 1 \in 1 .. Len(route.todo) /\ rest[k] = route.todo[k + 1]
        BY <1>3, <3>2
      <4> QED BY <4>1 DEF Inv, RouteOK
    <3>5. route \in [id : MsgID \cup {NoID}, todo : Seq(Pid)]
      BY <1>2 DEF RouterTypes
    <3> HIDE DEF rest
    <3>6. route'.todo = rest /\ route'.id = route.id
      BY <3>1, <3>5
    <3>7. route' \in [id : MsgID \cup {NoID}, todo : Seq(Pid)]
      BY <3>1, <3>2, <3>5
    <3> QED BY <1>1, <1>2, <1>3, <3>2, <3>3, <3>4, <3>6, <3>7 DEF RouterTypes, RouteOK
  <2> QED BY <2>1, <2>2
<1> QED BY <1>2, <1>4, <1>5, <1>6 DEF Inv, TypeInv

-----------------------------------------------------------------------------
(* The steps of the programs leave the lists of the router alone. *)
LEMMA ListsFrame ==
  ASSUME Inv, TypeInv', UNCHANGED routerVars
  PROVE  Inv'
BY DEF Inv, ListsOK, RouteOK, BlocksOK, routerVars

(* Nothing is in any list at first. *)
LEMMA InvInit == Init => Inv
<1> SUFFICES ASSUME Init PROVE Inv
  OBVIOUS
<1>1. /\ pid = [c \in Client |-> NoPid] /\ births = 0 /\ pc = [c \in Client |-> "down"]
      /\ writing = [c \in Client |-> NoRequest] /\ inbox = [c \in Client |-> <<>>]
      /\ requests = <<>> /\ pibList = {} /\ attached = {}
      /\ consumers = [i \in MsgID |-> <<>>] /\ miibList = {} /\ route = Idle
      /\ unanswered = {} /\ wanted = [c \in Client |-> {}]
  BY DEF Init
<1>2. ProgTypes
  <2>1. pid \in [Client -> Pid \cup {NoPid}] /\ pc \in [Client -> Point] /\ births \in 0 .. MaxPid
    BY <1>1 DEF Point, RouterAssumption
  <2>2. writing \in [Client -> Request \cup {NoRequest}] /\ wanted \in [Client -> SUBSET MsgID]
    BY <1>1
  <2>3. ProgramOK
    BY <1>1 DEF ProgramOK
  <2> QED BY <2>1, <2>2, <2>3 DEF ProgTypes
<1>3. InboxOK
  <2>1. <<>> \in Seq(Answer) /\ Len(<<>>) <= QueueCap
    BY RouterAssumption
  <2> QED BY <1>1, <2>1 DEF InboxOK
<1>4. RequestsOK
  <2>1. <<>> \in Seq(Proper) /\ Len(<<>>) <= QueueCap
    BY RouterAssumption
  <2> QED BY <1>1, <2>1 DEF RequestsOK
<1>5. RouterTypes
  <2>1. <<>> \in Seq(Pid)
    OBVIOUS
  <2>2. route \in [id : MsgID \cup {NoID}, todo : Seq(Pid)]
    BY <1>1, <2>1 DEF Idle
  <2> QED BY <1>1, <2>1, <2>2 DEF RouterTypes
<1>6. ListsOK
  BY <1>1 DEF ListsOK, IsInjective
<1>7. RouteOK /\ BlocksOK
  BY <1>1, IdleTodo DEF RouteOK, BlocksOK
<1> QED BY <1>2, <1>3, <1>4, <1>5, <1>6, <1>7 DEF Inv, TypeInv

(* Every step keeps the invariant. *)
LEMMA InvStep == Inv /\ [Next]_vars => Inv'
<1> SUFFICES ASSUME Inv, [Next]_vars PROVE Inv'
  OBVIOUS
<1>1. CASE Router \/ RouterFails
  BY <1>1, RegisterStep, DeregisterStep, EnableStep, DisableStep, AskStep, RouteStep, ClientStep
     DEF Router, RouterFails
<1>2. ASSUME NEW c \in Client, Program(c) \/ Advance(c) \/ sendFails(c) \/ Start(c) \/ Crash(c)
      PROVE  Inv'
  <2>1. TypeInv'
    BY <1>2, ProgramType, AdvanceType, SendFailsType, StartType, CrashType DEF Inv
  <2>2. UNCHANGED routerVars
    <3>1. CASE Program(c)
      BY <3>1 DEF Program, Call, radMsgRouterInit, radMsgRouterExit, radMsgRouterProcessExit,
           radMsgRouterMessageRegister, radMsgRouterMessageDeregister,
           radMsgRouterMessageIsRegistered, radMsgRouterMessageSend
    <3>2. CASE Advance(c)
      BY <3>2 DEF Advance, sendToRouter, waitForRouterAck, waitForRouterAnswer, WaitFor,
           Receive, Take
    <3>3. CASE sendFails(c) \/ Start(c) \/ Crash(c)
      BY <3>3 DEF sendFails, Start, Crash
    <3> QED BY <1>2, <3>1, <3>2, <3>3
  <2> QED BY <2>1, <2>2, ListsFrame
<1>3. CASE UNCHANGED vars
  <2>1. UNCHANGED progVars /\ UNCHANGED routerVars /\ UNCHANGED inbox /\ UNCHANGED requests
    BY <1>3 DEF vars
  <2>2. TypeInv'
    BY <2>1, ProgFrame, RouterFrame, InboxFrame, RequestsFrame DEF Inv, TypeInv
  <2> QED BY <2>1, <2>2, ListsFrame
<1> QED BY <1>1, <1>2, <1>3 DEF Next

(* The invariant of the proofs holds always. *)
LEMMA InvAlways == Spec => []Inv
BY InvInit, InvStep, PTL DEF Spec

(* Every queue keeps to its limit, and what programs and router hold has   *)
(* its type: the requests are requests, subscribers are processes.         *)
THEOREM TypeCorrect == Spec => []TypeOK
<1>1. Inv => TypeOK
  <2> SUFFICES ASSUME Inv PROVE TypeOK
    OBVIOUS
  <2>1. requests \in Seq(Request) /\ Len(requests) <= QueueCap
    <3>1. requests \in Seq(Proper) /\ Len(requests) <= QueueCap
      BY DEF Inv, TypeInv, RequestsOK
    <3>2. \A k \in 1 .. Len(requests) : requests[k] \in Request
      BY <3>1 DEF Proper
    <3> QED BY <3>1, <3>2, SeqDef
  <2> QED BY <2>1 DEF Inv, TypeInv, ProgTypes, InboxOK, RouterTypes, TypeOK
<1> QED BY <1>1, InvAlways, PTL

(* No list of consumers and no loop over one refers to the block of a      *)
(* process that is gone, whatever registers, subscribes, dies and is       *)
(* reported (RemoveClientFromAllMsgs, AddClient and the loop of            *)
(* QueueMsgHandler), for any number of programs and message IDs.           *)
THEOREM NothingDangles == Spec => []NoDanglingConsumer
<1>1. Inv => NoDanglingConsumer
  <2> SUFFICES ASSUME Inv PROVE NoDanglingConsumer
    OBVIOUS
  <2>1. \A p : Has(p, pibList) => Registered(p)
    BY DEF Has, Registered, getPIBByPID
  <2>2. ASSUME NEW q \in Seq(Pid), \A k \in 1 .. Len(q) : Has(q[k], pibList),
               NEW p \in ToSet(q)
        PROVE  Registered(p)
    <3>1. PICK k \in 1 .. Len(q) : q[k] = p
      BY <2>2 DEF ToSet
    <3> QED BY <2>1, <2>2, <3>1
  <2>3. ASSUME NEW i \in MsgID
        PROVE  /\ \A p \in ToSet(consumers[i]) : Registered(p)
               /\ IsInjective(consumers[i])
               /\ i \in miibList <=> consumers[i] # <<>>
    <3>1. consumers[i] \in Seq(Pid)
      BY DEF Inv, TypeInv, RouterTypes
    <3> QED BY <2>2, <3>1 DEF Inv, ListsOK
  <2>4. \A p \in ToSet(route.todo) : Registered(p)
    <3>1. route.todo \in Seq(Pid)
      BY DEF Inv, TypeInv, RouterTypes
    <3> QED BY <2>2, <3>1 DEF Inv, RouteOK
  <2> QED BY <2>3, <2>4 DEF NoDanglingConsumer, Inv, BlocksOK
<1> QED BY <1>1, InvAlways, PTL

-----------------------------------------------------------------------------
(* What a row of requests makes of a fact: those of A bring it about,      *)
(* those of B end it.  Here the fact after the first n of the row q, if it *)
(* was b before.                                                           *)
Net(b, q, A, B, n) ==
  \/ b /\ \A l \in 1 .. n : q[l] \notin B
  \/ \E k \in 1 .. n : q[k] \in A /\ \A l \in k + 1 .. n : q[l] \notin B

(* One more request decides it, if it is of A or of B. *)
LEMMA NetLast ==
  ASSUME NEW b \in BOOLEAN, NEW q, NEW A, NEW B, NEW n \in Nat
  PROVE  Net(b, q, A, B, n + 1) <=> q[n + 1] \in A \/ (Net(b, q, A, B, n) /\ q[n + 1] \notin B)
<1>0. n + 1 \in 1 .. n + 1 /\ \A l \in 1 .. n + 1 : l \in 1 .. n \/ l = n + 1
  OBVIOUS
<1>1. ASSUME q[n + 1] \in A PROVE Net(b, q, A, B, n + 1)
  <2>1. \A l \in (n + 1) + 1 .. n + 1 : FALSE
    OBVIOUS
  <2> QED BY <1>0, <1>1, <2>1 DEF Net
<1>2. ASSUME Net(b, q, A, B, n), q[n + 1] \notin B PROVE Net(b, q, A, B, n + 1)
  <2>1. ASSUME b, \A l \in 1 .. n : q[l] \notin B PROVE Net(b, q, A, B, n + 1)
    BY <1>0, <1>2, <2>1 DEF Net
  <2>2. ASSUME NEW k \in 1 .. n, q[k] \in A, \A l \in k + 1 .. n : q[l] \notin B
        PROVE  Net(b, q, A, B, n + 1)
    <3>1. k \in 1 .. n + 1 /\ \A l \in k + 1 .. n + 1 : l \in k + 1 .. n \/ l = n + 1
      OBVIOUS
    <3>2. \A l \in k + 1 .. n + 1 : q[l] \notin B
      BY <1>2, <2>2, <3>1
    <3> QED BY <2>2, <3>1, <3>2 DEF Net
  <2> QED BY <1>2, <2>1, <2>2 DEF Net
<1>3. ASSUME Net(b, q, A, B, n + 1), q[n + 1] \notin A
      PROVE  Net(b, q, A, B, n) /\ q[n + 1] \notin B
  <2>1. ASSUME b, \A l \in 1 .. n + 1 : q[l] \notin B
        PROVE  Net(b, q, A, B, n) /\ q[n + 1] \notin B
    <3>1. \A l \in 1 .. n : l \in 1 .. n + 1
      OBVIOUS
    <3> QED BY <1>0, <2>1, <3>1 DEF Net
  <2>2. ASSUME NEW k \in 1 .. n + 1, q[k] \in A, \A l \in k + 1 .. n + 1 : q[l] \notin B
        PROVE  Net(b, q, A, B, n) /\ q[n + 1] \notin B
    <3>1. k # n + 1
      BY <1>3, <2>2
    <3>2. k \in 1 .. n /\ n + 1 \in k + 1 .. n + 1 /\ \A l \in k + 1 .. n : l \in k + 1 .. n + 1
      BY <3>1
    <3> QED BY <2>2, <3>2 DEF Net
  <2> QED BY <1>3, <2>1, <2>2 DEF Net
<1> QED BY <1>1, <1>2, <1>3

(* Only the first n of the row count. *)
LEMMA NetSame ==
  ASSUME NEW b \in BOOLEAN, NEW q, NEW q2, NEW A, NEW B, NEW n \in Nat,
         \A k \in 1 .. n : q[k] = q2[k]
  PROVE  Net(b, q, A, B, n) <=> Net(b, q2, A, B, n)
<1>1. \A k \in 1 .. n : \A l \in k + 1 .. n : l \in 1 .. n
  OBVIOUS
<1> QED BY <1>1 DEF Net

(* A request joins the row. *)
LEMMA NetAppend ==
  ASSUME NEW T, NEW q \in Seq(T), NEW r \in T, NEW A, NEW B, NEW b \in BOOLEAN
  PROVE  /\ \A n \in 0 .. Len(q) : Net(b, Append(q, r), A, B, n) <=> Net(b, q, A, B, n)
         /\ Net(b, Append(q, r), A, B, Len(Append(q, r)))
              <=> r \in A \/ (Net(b, q, A, B, Len(q)) /\ r \notin B)
<1> DEFINE q2 == Append(q, r)
<1>1. Len(q) \in Nat /\ Len(q2) = Len(q) + 1 /\ q2[Len(q) + 1] = r
      /\ \A k \in 1 .. Len(q) : q2[k] = q[k]
  BY AppendProperties
<1> HIDE DEF q2
<1>2. ASSUME NEW n \in 0 .. Len(q) PROVE Net(b, q2, A, B, n) <=> Net(b, q, A, B, n)
  <2>1. n \in Nat /\ \A k \in 1 .. n : q2[k] = q[k]
    BY <1>1
  <2> QED BY <2>1, NetSame
<1>3. Net(b, q2, A, B, Len(q2)) <=> r \in A \/ (Net(b, q, A, B, Len(q)) /\ r \notin B)
  <2>1. Net(b, q2, A, B, Len(q)) <=> Net(b, q, A, B, Len(q))
    BY <1>1, <1>2
  <2> QED BY <1>1, <2>1, NetLast
<1> QED BY <1>2, <1>3 DEF q2

(* The first of the row has done what it does. *)
LEMMA NetTail ==
  ASSUME NEW T, NEW q \in Seq(T), q # <<>>, NEW A, NEW B, NEW b \in BOOLEAN, NEW b2 \in BOOLEAN,
         b2 <=> Head(q) \in A \/ (b /\ Head(q) \notin B)
  PROVE  \A n \in 1 .. Len(q) : Net(b2, Tail(q), A, B, n - 1) <=> Net(b, q, A, B, n)
<1> DEFINE t == Tail(q)
<1>1. Len(q) \in Nat /\ Head(q) = q[1] /\ Len(t) = Len(q) - 1
      /\ \A k \in 1 .. Len(q) - 1 : t[k] = q[k + 1]
  BY HeadTailProperties
<1> HIDE DEF t
<1> SUFFICES ASSUME NEW n \in 1 .. Len(q)
             PROVE  Net(b2, t, A, B, n - 1) <=> Net(b, q, A, B, n)
  BY DEF t
<1>0. n \in Nat /\ n - 1 \in Nat /\ 1 \in 1 .. n
  BY <1>1
<1>a. \A k \in 1 .. n - 1 : t[k] = q[k + 1] /\ k + 1 \in 2 .. n /\ k + 1 \in 1 .. n
  BY <1>0, <1>1
<1>b. \A k \in 2 .. n : k - 1 \in 1 .. n - 1 /\ t[k - 1] = q[k]
  BY <1>0, <1>1
<1>c. \A k \in 1 .. n : k = 1 \/ k \in 2 .. n
  BY <1>0
<1>2. ASSUME Net(b, q, A, B, n) PROVE Net(b2, t, A, B, n - 1)
  <2>1. ASSUME b, \A l \in 1 .. n : q[l] \notin B PROVE Net(b2, t, A, B, n - 1)
    <3>1. b2 /\ \A l \in 1 .. n - 1 : t[l] \notin B
      BY <1>0, <1>1, <1>a, <2>1
    <3> QED BY <3>1 DEF Net
  <2>2. ASSUME NEW k \in 1 .. n, q[k] \in A, \A l \in k + 1 .. n : q[l] \notin B
        PROVE  Net(b2, t, A, B, n - 1)
    <3>1. CASE k = 1
      <4>1. b2
        BY <1>1, <2>2, <3>1
      <4>2. \A l \in 1 .. n - 1 : t[l] \notin B
        BY <1>a, <2>2, <3>1
      <4> QED BY <4>1, <4>2 DEF Net
    <3>2. CASE k \in 2 .. n
      <4>1. k - 1 \in 1 .. n - 1 /\ t[k - 1] \in A
        BY <1>b, <2>2, <3>2
      <4>2. ASSUME NEW l \in (k - 1) + 1 .. n - 1 PROVE t[l] \notin B
        <5>1. l + 1 \in k + 1 .. n /\ l \in 1 .. n - 1
          BY <1>0
        <5> QED BY <1>a, <2>2, <5>1
      <4> QED BY <4>1, <4>2 DEF Net
    <3> QED BY <1>c, <3>1, <3>2
  <2> QED BY <1>2, <2>1, <2>2 DEF Net
<1>3. ASSUME Net(b2, t, A, B, n - 1) PROVE Net(b, q, A, B, n)
  <2>1. ASSUME b2, \A l \in 1 .. n - 1 : t[l] \notin B PROVE Net(b, q, A, B, n)
    <3>1. \A l \in 2 .. n : q[l] \notin B
      BY <1>b, <2>1
    <3>2. CASE Head(q) \in A
      <4>1. \A l \in 1 + 1 .. n : q[l] \notin B
        BY <3>1
      <4> QED BY <1>0, <1>1, <3>2, <4>1 DEF Net
    <3>3. CASE b /\ Head(q) \notin B
      BY <1>1, <1>c, <3>1, <3>3 DEF Net
    <3> QED BY <2>1, <3>2, <3>3
  <2>2. ASSUME NEW k \in 1 .. n - 1, t[k] \in A, \A l \in k + 1 .. n - 1 : t[l] \notin B
        PROVE  Net(b, q, A, B, n)
    <3>1. k + 1 \in 1 .. n /\ q[k + 1] \in A
      BY <1>a, <2>2
    <3>2. ASSUME NEW l \in (k + 1) + 1 .. n PROVE q[l] \notin B
      <4>1. l \in 2 .. n /\ l - 1 \in k + 1 .. n - 1
        BY <1>0
      <4> QED BY <1>b, <2>2, <4>1
    <3> QED BY <3>1, <3>2 DEF Net
  <2> QED BY <1>3, <2>1, <2>2 DEF Net
<1> QED BY <1>2, <1>3

-----------------------------------------------------------------------------
(* The requests that bring a process a block, or make it a consumer, and   *)
(* those that end that.                                                    *)
Joining(p) == {r \in Request : r.pid = p /\ r.type = "REGISTER"}
Leaving(p) == {r \in Request : r.pid = p /\ r.type = "DEREGISTER"}
Asking(p, i) == {r \in Request : Asks(r, p, i)}
Cancelling(p, i) == {r \in Request : Cancels(r, p, i)}

(* A process that the router lists for the message IDs H, and gave a block *)
(* if e, has a block, or is a consumer of i, once the first n requests of  *)
(* q are worked off.                                                       *)
EnrolledIn(p, e, q, n) == Net(e, q, Joining(p), Leaving(p), n)
SubscribedIn(p, i, H, q, n) == Net(i \in H, q, Asking(p, i), Cancelling(p, i), n)

(* The wishes w of process p are those the router will know of, no request *)
(* of it to subscribe will be handled while it has no block, and it asks   *)
(* for a block only when it has no wishes.                                 *)
ViewIs(p, w, e, H, q) ==
  /\ w = {i \in MsgID : SubscribedIn(p, i, H, q, Len(q))}
  /\ \A k \in 1 .. Len(q) : q[k].pid = p /\ q[k].type = "ENABLE" => EnrolledIn(p, e, q, k - 1)
  /\ \A k \in 1 .. Len(q) :
       q[k].pid = p /\ q[k].type = "REGISTER" => \A i \in MsgID : ~ SubscribedIn(p, i, H, q, k - 1)

(* A request of process p, or of another, is written. *)
LEMMA ViewAppend ==
  ASSUME NEW q \in Seq(Request), NEW r \in Request, NEW p, NEW w, NEW e \in BOOLEAN, NEW H,
         ViewIs(p, w, e, H, q),
         r.pid = p /\ r.type = "ENABLE" => EnrolledIn(p, e, q, Len(q)),
         r.pid = p /\ r.type = "REGISTER" => w = {},
         NEW w2 \in SUBSET MsgID,
         \A i \in MsgID : i \in w2 <=> r \in Asking(p, i) \/ (i \in w /\ r \notin Cancelling(p, i))
  PROVE  /\ ViewIs(p, w2, e, H, Append(q, r))
         /\ EnrolledIn(p, e, Append(q, r), Len(Append(q, r)))
              <=> r \in Joining(p) \/ (EnrolledIn(p, e, q, Len(q)) /\ r \notin Leaving(p))
<1> DEFINE q2 == Append(q, r)
<1>1. Len(q) \in Nat /\ Len(q2) = Len(q) + 1 /\ q2[Len(q) + 1] = r
      /\ \A k \in 1 .. Len(q) : q2[k] = q[k]
  BY AppendProperties
<1>3. /\ \A n \in 0 .. Len(q) : EnrolledIn(p, e, q2, n) <=> EnrolledIn(p, e, q, n)
      /\ EnrolledIn(p, e, q2, Len(q2))
           <=> r \in Joining(p) \/ (EnrolledIn(p, e, q, Len(q)) /\ r \notin Leaving(p))
  BY NetAppend DEF EnrolledIn
<1>4. ASSUME NEW i \in MsgID
      PROVE  /\ \A n \in 0 .. Len(q) : SubscribedIn(p, i, H, q2, n) <=> SubscribedIn(p, i, H, q, n)
             /\ SubscribedIn(p, i, H, q2, Len(q2))
                  <=> r \in Asking(p, i) \/ (i \in w /\ r \notin Cancelling(p, i))
             /\ i \in w <=> SubscribedIn(p, i, H, q, Len(q))
  <2> DEFINE b == i \in H
             A == Asking(p, i)
             B == Cancelling(p, i)
  <2>1. b \in BOOLEAN
    OBVIOUS
  <2> HIDE DEF b, A, B
  <2>2. /\ \A n \in 0 .. Len(q) : Net(b, Append(q, r), A, B, n) <=> Net(b, q, A, B, n)
        /\ Net(b, Append(q, r), A, B, Len(Append(q, r)))
             <=> r \in A \/ (Net(b, q, A, B, Len(q)) /\ r \notin B)
    BY <2>1, NetAppend
  <2>3. /\ \A n \in 0 .. Len(q) : SubscribedIn(p, i, H, q2, n) <=> SubscribedIn(p, i, H, q, n)
        /\ SubscribedIn(p, i, H, q2, Len(q2))
             <=> r \in Asking(p, i) \/ (SubscribedIn(p, i, H, q, Len(q)) /\ r \notin Cancelling(p, i))
    BY <2>2 DEF SubscribedIn, q2, b, A, B
  <2>4. i \in w <=> SubscribedIn(p, i, H, q, Len(q))
    BY DEF ViewIs
  <2> QED BY <2>3, <2>4
<1> HIDE DEF q2
<1>5. ASSUME NEW k \in 1 .. Len(q2), q2[k].pid = p /\ q2[k].type = "ENABLE"
      PROVE  EnrolledIn(p, e, q2, k - 1)
  <2>1. k - 1 \in 0 .. Len(q)
    BY <1>1
  <2>2. EnrolledIn(p, e, q, k - 1)
    <3>1. CASE k \in 1 .. Len(q)
      BY <1>1, <1>5, <3>1 DEF ViewIs
    <3>2. CASE k = Len(q) + 1
      <4>1. q2[k] = r /\ k - 1 = Len(q)
        BY <1>1, <3>2
      <4> QED BY <1>5, <4>1
    <3> QED BY <1>1, <3>1, <3>2
  <2> QED BY <1>3, <2>1, <2>2
<1>6. ASSUME NEW k \in 1 .. Len(q2), q2[k].pid = p /\ q2[k].type = "REGISTER", NEW i \in MsgID
      PROVE  ~ SubscribedIn(p, i, H, q2, k - 1)
  <2>1. k - 1 \in 0 .. Len(q)
    BY <1>1
  <2>2. ~ SubscribedIn(p, i, H, q, k - 1)
    <3>1. CASE k \in 1 .. Len(q)
      BY <1>1, <1>6, <3>1 DEF ViewIs
    <3>2. CASE k = Len(q) + 1
      <4>1. q2[k] = r /\ k - 1 = Len(q)
        BY <1>1, <3>2
      <4>2. w = {}
        BY <1>6, <4>1
      <4> QED BY <1>4, <4>1, <4>2
    <3> QED BY <1>1, <3>1, <3>2
  <2> QED BY <1>4, <2>1, <2>2
<1>7. w2 = {i \in MsgID : SubscribedIn(p, i, H, q2, Len(q2))}
  BY <1>4
<1>8. ViewIs(p, w2, e, H, q2)
  BY <1>5, <1>6, <1>7 DEF ViewIs
<1> QED BY <1>3, <1>8 DEF q2

(* What the router makes of request r, for process p. *)
Does(r, p, e, e2, H, H2) ==
  /\ e2 <=> r \in Joining(p) \/ (e /\ r \notin Leaving(p))
  /\ \A i \in MsgID : i \in H2 <=> r \in Asking(p, i) \/ (i \in H /\ r \notin Cancelling(p, i))

(* The first request is worked off. *)
LEMMA ViewTail ==
  ASSUME NEW q \in Seq(Request), q # <<>>, NEW p, NEW w,
         NEW e \in BOOLEAN, NEW H, NEW e2 \in BOOLEAN, NEW H2,
         ViewIs(p, w, e, H, q), Does(Head(q), p, e, e2, H, H2)
  PROVE  /\ ViewIs(p, w, e2, H2, Tail(q))
         /\ EnrolledIn(p, e2, Tail(q), Len(Tail(q))) <=> EnrolledIn(p, e, q, Len(q))
<1> DEFINE t == Tail(q)
<1>1. Len(q) \in Nat /\ Len(q) # 0 /\ Len(t) = Len(q) - 1
      /\ \A k \in 1 .. Len(q) - 1 : t[k] = q[k + 1]
  BY HeadTailProperties, EmptySeq
<1>2. \A n \in 1 .. Len(q) : EnrolledIn(p, e2, t, n - 1) <=> EnrolledIn(p, e, q, n)
  <2> DEFINE A == Joining(p)
             B == Leaving(p)
  <2>1. e2 <=> Head(q) \in A \/ (e /\ Head(q) \notin B)
    BY DEF Does
  <2> HIDE DEF A, B
  <2>2. \A n \in 1 .. Len(q) : Net(e2, Tail(q), A, B, n - 1) <=> Net(e, q, A, B, n)
    BY <2>1, NetTail, ZenonT(60)
  <2> QED BY <2>2 DEF EnrolledIn, A, B
<1>3. ASSUME NEW i \in MsgID
      PROVE  \A n \in 1 .. Len(q) : SubscribedIn(p, i, H2, t, n - 1) <=> SubscribedIn(p, i, H, q, n)
  <2> DEFINE b == i \in H
             b2 == i \in H2
             A == Asking(p, i)
             B == Cancelling(p, i)
  <2>1. b \in BOOLEAN /\ b2 \in BOOLEAN
    OBVIOUS
  <2>2. b2 <=> Head(q) \in A \/ (b /\ Head(q) \notin B)
    BY DEF Does
  <2> HIDE DEF b, b2, A, B
  <2>3. \A n \in 1 .. Len(q) : Net(b2, Tail(q), A, B, n - 1) <=> Net(b, q, A, B, n)
    BY <2>1, <2>2, NetTail, ZenonT(60)
  <2> QED BY <2>3 DEF SubscribedIn, b, b2, A, B
<1> HIDE DEF t
<1>4. ASSUME NEW k \in 1 .. Len(t), t[k].pid = p /\ t[k].type = "ENABLE"
      PROVE  EnrolledIn(p, e2, t, k - 1)
  <2>1. k + 1 \in 1 .. Len(q) /\ t[k] = q[k + 1] /\ (k + 1) - 1 = k /\ k \in 1 .. Len(q)
    BY <1>1
  <2>2. EnrolledIn(p, e, q, k)
    BY <1>4, <2>1 DEF ViewIs
  <2> QED BY <1>2, <2>1, <2>2
<1>5. ASSUME NEW k \in 1 .. Len(t), t[k].pid = p /\ t[k].type = "REGISTER", NEW i \in MsgID
      PROVE  ~ SubscribedIn(p, i, H2, t, k - 1)
  <2>1. k + 1 \in 1 .. Len(q) /\ t[k] = q[k + 1] /\ (k + 1) - 1 = k /\ k \in 1 .. Len(q)
    BY <1>1
  <2>2. ~ SubscribedIn(p, i, H, q, k)
    BY <1>5, <2>1 DEF ViewIs
  <2> QED BY <1>3, <2>1, <2>2
<1>6. Len(q) \in 1 .. Len(q) /\ Len(t) = Len(q) - 1
  BY <1>1
<1>7. w = {i \in MsgID : SubscribedIn(p, i, H2, t, Len(t))}
  <2>1. \A i \in MsgID : SubscribedIn(p, i, H2, t, Len(t)) <=> SubscribedIn(p, i, H, q, Len(q))
    BY <1>3, <1>6
  <2> QED BY <2>1 DEF ViewIs
<1>8. EnrolledIn(p, e2, t, Len(t)) <=> EnrolledIn(p, e, q, Len(q))
  BY <1>2, <1>6
<1>9. ViewIs(p, w, e2, H2, t)
  BY <1>4, <1>5, <1>7 DEF ViewIs
<1> QED BY <1>8, <1>9 DEF t

-----------------------------------------------------------------------------
(* A process is of one program, and only processes that were started are   *)
(* in requests and blocks.                                                 *)
PidsOK ==
  /\ \A c \in Client : pid[c] <= births
  /\ \A c, d \in Client : pid[c] = pid[d] /\ pid[c] # NoPid => c = d
  /\ \A k \in 1 .. Len(requests) : requests[k].pid \in 1 .. births
  /\ \A b \in pibList : b.pid \in 1 .. births

(* A program writes a request of its own, or reports the end of a dead     *)
(* process.                                                                *)
WritingOK ==
  \A c \in Client :
    pc[c] = "sending" =>
      /\ writing[c].pid \in 1 .. births
      /\ \/ writing[c].pid = pid[c]
         \/ writing[c].type = "DEREGISTER" /\ \A d \in Client : pid[d] # writing[c].pid

(* A program that has not got as far as to be told it is registered. *)
Outside(c) == \/ pc[c] \in {"down", "out", "wait_ack"}
              \/ pc[c] = "sending" /\ writing[c].type = "REGISTER"

OutsideOK == \A c \in Client : Outside(c) => wanted[c] = {}

(* A program that may count on being registered once the requests are      *)
(* worked off.                                                             *)
Due(c) == Told(c) \/ pc[c] = "wait_ack"

(* The router turned process p away: p may not know. *)
Away(p) == p \in unanswered /\ ~ Has(p, pibList)

(* The message IDs the router lists process p for. *)
Listed(p) == {i \in MsgID : Contains(consumers[i], p)}

(* The view of program c agrees with a router that gave it a block if e    *)
(* and lists it for H; unless c was turned away, the router is that one.   *)
Believes(c, e, H) ==
  /\ ViewIs(pid[c], wanted[c], e, H, requests)
  /\ Due(c) => EnrolledIn(pid[c], e, requests, Len(requests))
  /\ Away(pid[c]) \/ (e = Has(pid[c], pibList) /\ H = Listed(pid[c]))

WishesOK ==
  \A c \in Client :
    pid[c] # NoPid => \E e \in BOOLEAN : \E H \in SUBSET MsgID : Believes(c, e, H)

(* The inductive invariant of ViewsAgree. *)
ViewInv == PidsOK /\ WritingOK /\ OutsideOK /\ WishesOK

(* The queue of the router is one of requests. *)
LEMMA RequestsAre ==
  ASSUME TypeInv
  PROVE  /\ requests \in Seq(Request) /\ Len(requests) \in Nat
         /\ \A k \in 1 .. Len(requests) : requests[k] \in Request
<1>1. requests \in Seq(Proper)
  BY DEF TypeInv, RequestsOK
<1>2. \A k \in 1 .. Len(requests) : requests[k] \in Request
  BY <1>1 DEF Proper
<1> QED BY <1>1, <1>2, SeqDef

(* A running program has a process, one that was started. *)
LEMMA PidIs ==
  ASSUME TypeInv, ViewInv, NEW c \in Client
  PROVE  /\ pid[c] \in Nat /\ births \in Nat /\ NoPid = 0
         /\ pid[c] <= births
         /\ pc[c] # "down" => pid[c] # NoPid /\ pid[c] \in 1 .. births
<1>1. pid[c] \in Pid \cup {NoPid} /\ births \in 0 .. MaxPid /\ (pc[c] # "down" => pid[c] # NoPid)
  BY DEF TypeInv, ProgTypes, ProgramOK
<1>2. pid[c] <= births
  BY DEF ViewInv, PidsOK
<1> QED BY <1>1, <1>2 DEF Pid, NoPid

(* The view of a program that hopes for no more than before. *)
LEMMA BelievesFrame ==
  ASSUME ViewInv, UNCHANGED <<requests, pibList, consumers, unanswered>>,
         NEW d \in Client, pid'[d] = pid[d], pid[d] # NoPid, wanted'[d] = wanted[d],
         Due(d)' => Due(d)
  PROVE  \E e \in BOOLEAN : \E H \in SUBSET MsgID : Believes(d, e, H)'
<1>1. PICK e \in BOOLEAN, H \in SUBSET MsgID : Believes(d, e, H)
  BY DEF ViewInv, WishesOK
<1>2. Away(pid[d])' = Away(pid[d]) /\ Listed(pid[d])' = Listed(pid[d])
  BY DEF Away, Listed, Has
<1>3. Believes(d, e, H)'
  BY <1>1, <1>2 DEF Believes
<1> QED BY <1>3

(* Nothing that counts has changed. *)
LEMMA ViewFrame ==
  ASSUME ViewInv,
         UNCHANGED <<pid, births, pc, writing, wanted, requests, pibList, consumers, unanswered>>
  PROVE  ViewInv'
<1>1. PidsOK' /\ WritingOK' /\ OutsideOK'
  BY DEF ViewInv, PidsOK, WritingOK, OutsideOK, Outside
<1>2. \A d \in Client : Due(d)' => Due(d)
  BY DEF Due, Told
<1>3. WishesOK'
  BY <1>2, BelievesFrame DEF WishesOK
<1> QED BY <1>1, <1>3 DEF ViewInv

(* A new process: nobody has asked anything for it yet. *)
LEMMA StartView ==
  ASSUME Inv, ViewInv, NEW c \in Client, Start(c)
  PROVE  ViewInv'
<1> DEFINE p == births + 1
<1>0. births \in Nat /\ NoPid = 0 /\ p # NoPid /\ p \notin 1 .. births
  BY PidIs DEF Inv, NoPid
<1>1. /\ UNCHANGED <<writing, wanted, requests, pibList, consumers, unanswered>> /\ pc[c] = "down"
      /\ births' = p
  BY DEF Start, routerVars
<1>2. pid'[c] = p /\ \A d \in Client \ {c} : pid'[d] = pid[d]
  BY DEF Start, Inv, TypeInv, ProgTypes
<1>3. pc'[c] = "out" /\ \A d \in Client \ {c} : pc'[d] = pc[d]
  BY DEF Start, Inv, TypeInv, ProgTypes, GoTo
<1>4. \A d \in Client : pid[d] # p /\ pid[d] \in Nat /\ pid[d] <= births
  BY <1>0, PidIs DEF Inv
<1>5. PidsOK'
  <2>1. \A d \in Client : pid'[d] <= births'
    BY <1>0, <1>1, <1>2, <1>4
  <2>2. \A d, e \in Client : pid'[d] = pid'[e] /\ pid'[d] # NoPid => d = e
    BY <1>2, <1>4 DEF ViewInv, PidsOK
  <2>3. \A x \in 1 .. births : x \in 1 .. births'
    BY <1>0, <1>1
  <2>4. \A k \in 1 .. Len(requests') : requests'[k].pid \in 1 .. births'
    BY <1>1, <2>3 DEF ViewInv, PidsOK
  <2>5. \A b \in pibList' : b.pid \in 1 .. births'
    BY <1>1, <2>3 DEF ViewInv, PidsOK
  <2> QED BY <2>1, <2>2, <2>4, <2>5 DEF PidsOK
<1>6. WritingOK'
  <2> SUFFICES ASSUME NEW d \in Client, pc'[d] = "sending"
               PROVE  /\ writing'[d].pid \in 1 .. births'
                      /\ \/ writing'[d].pid = pid'[d]
                         \/ writing'[d].type = "DEREGISTER"
                            /\ \A e \in Client : pid'[e] # writing'[d].pid
    BY DEF WritingOK
  <2>1. d # c /\ pc[d] = "sending" /\ pid'[d] = pid[d] /\ writing'[d] = writing[d]
    BY <1>1, <1>2, <1>3
  <2>2. /\ writing[d].pid \in 1 .. births
        /\ \/ writing[d].pid = pid[d]
           \/ writing[d].type = "DEREGISTER" /\ \A e \in Client : pid[e] # writing[d].pid
    BY <2>1 DEF ViewInv, WritingOK
  <2>3. writing[d].pid # p /\ writing[d].pid \in 1 .. births'
    BY <1>0, <1>1, <2>2
  <2> QED BY <1>2, <2>1, <2>2, <2>3
<1>7. OutsideOK'
  <2>1. \A d \in Client : Outside(d)' => Outside(d)
    BY <1>1, <1>3 DEF Outside
  <2> QED BY <1>1, <2>1 DEF ViewInv, OutsideOK
<1>8. WishesOK'
  <2>1. wanted[c] = {}
    BY <1>1 DEF ViewInv, OutsideOK, Outside
  <2>2. \A k \in 1 .. Len(requests) : requests[k].pid # p
    BY <1>0 DEF ViewInv, PidsOK
  <2>3. ~ Has(p, pibList)
    BY <1>0 DEF ViewInv, PidsOK, Has
  <2>4. Listed(p) = {}
    <3> SUFFICES ASSUME NEW i \in MsgID PROVE ~ Contains(consumers[i], p)
      BY DEF Listed
    <3>1. \A k \in 1 .. Len(consumers[i]) : Has(consumers[i][k], pibList)
      BY DEF Inv, ListsOK
    <3> QED BY <2>3, <3>1 DEF Contains
  <2>5. ViewIs(p, wanted[c], FALSE, {}, requests)
    <3>1. ASSUME NEW i \in MsgID PROVE ~ SubscribedIn(p, i, {}, requests, Len(requests))
      <4>1. \A k \in 1 .. Len(requests) : requests[k] \notin Asking(p, i)
        BY <2>2 DEF Asking, Asks
      <4> QED BY <4>1 DEF SubscribedIn, Net
    <3> QED BY <2>1, <2>2, <3>1 DEF ViewIs
  <2> SUFFICES ASSUME NEW d \in Client, pid'[d] # NoPid
               PROVE  \E e \in BOOLEAN : \E H \in SUBSET MsgID : Believes(d, e, H)'
    BY DEF WishesOK
  <2>6. CASE d = c
    <3>1. ~ Due(c)'
      BY <1>3 DEF Due, Told
    <3>2. Has(pid'[c], pibList') = FALSE
      BY <1>1, <1>2, <2>3 DEF Has
    <3>3. Listed(pid[c])' = {}
      BY <1>1, <1>2, <2>4 DEF Listed
    <3>4. ViewIs(pid'[c], wanted'[c], FALSE, {}, requests')
      BY <1>1, <1>2, <2>5
    <3>5. Believes(c, FALSE, {})'
      BY <3>1, <3>2, <3>3, <3>4 DEF Believes
    <3>6. {} \in SUBSET MsgID /\ FALSE \in BOOLEAN
      OBVIOUS
    <3> QED BY <2>6, <3>5, <3>6
  <2>7. CASE d # c
    <3>1. Due(d)' => Due(d)
      BY <1>1, <1>3, <2>7 DEF Due, Told
    <3>2. pid'[d] = pid[d] /\ wanted'[d] = wanted[d]
      BY <1>1, <1>2, <2>7
    <3> QED BY <1>1, <3>1, <3>2, BelievesFrame
  <2> QED BY <2>6, <2>7
<1> QED BY <1>5, <1>6, <1>7, <1>8 DEF ViewInv

(* A process dies: the others are as they were. *)
LEMMA CrashView ==
  ASSUME Inv, ViewInv, NEW c \in Client, Crash(c)
  PROVE  ViewInv'
<1>1. UNCHANGED <<births, requests, pibList, consumers, unanswered>>
  BY DEF Crash, routerVars
<1>2. pid'[c] = NoPid /\ \A d \in Client \ {c} : pid'[d] = pid[d]
  BY DEF Crash, Inv, TypeInv, ProgTypes
<1>3. pc'[c] = "down" /\ \A d \in Client \ {c} : pc'[d] = pc[d]
  BY DEF Crash, Inv, TypeInv, ProgTypes, GoTo
<1>4. \A d \in Client \ {c} : writing'[d] = writing[d]
  BY DEF Crash, Inv, TypeInv, ProgTypes
<1>5. wanted'[c] = {} /\ \A d \in Client \ {c} : wanted'[d] = wanted[d]
  BY DEF Crash, Inv, TypeInv, ProgTypes
<1>6. births \in Nat /\ NoPid = 0
  BY PidIs DEF Inv
<1>7. PidsOK'
  BY <1>1, <1>2, <1>6 DEF ViewInv, PidsOK
<1>8. WritingOK'
  <2> SUFFICES ASSUME NEW d \in Client, pc'[d] = "sending"
               PROVE  /\ writing'[d].pid \in 1 .. births'
                      /\ \/ writing'[d].pid = pid'[d]
                         \/ writing'[d].type = "DEREGISTER"
                            /\ \A e \in Client : pid'[e] # writing'[d].pid
    BY DEF WritingOK
  <2>1. d # c /\ pc[d] = "sending" /\ pid'[d] = pid[d] /\ writing'[d] = writing[d]
    BY <1>2, <1>3, <1>4
  <2>2. /\ writing[d].pid \in 1 .. births
        /\ \/ writing[d].pid = pid[d]
           \/ writing[d].type = "DEREGISTER" /\ \A e \in Client : pid[e] # writing[d].pid
    BY <2>1 DEF ViewInv, WritingOK
  <2>3. writing[d].pid # NoPid
    BY <1>6, <2>2
  <2> QED BY <1>1, <1>2, <2>1, <2>2, <2>3
<1>9. OutsideOK'
  <2>1. \A d \in Client \ {c} : Outside(d)' => Outside(d)
    BY <1>3, <1>4 DEF Outside
  <2> QED BY <1>5, <2>1 DEF ViewInv, OutsideOK
<1>10. WishesOK'
  <2> SUFFICES ASSUME NEW d \in Client, pid'[d] # NoPid
               PROVE  \E e \in BOOLEAN : \E H \in SUBSET MsgID : Believes(d, e, H)'
    BY DEF WishesOK
  <2>1. d # c
    BY <1>2
  <2>2. Due(d)' => Due(d)
    BY <1>3, <1>4, <2>1 DEF Due, Told
  <2> QED BY <1>1, <1>2, <1>5, <2>1, <2>2, BelievesFrame
<1> QED BY <1>7, <1>8, <1>9, <1>10 DEF ViewInv

(* A program calls. *)
LEMMA CallView ==
  ASSUME Inv, ViewInv, NEW c \in Client, NEW point \in {"out", "in"}, NEW p \in Pid, NEW type,
         NEW id, Call(c, point, p, type, id),
         point = "out" <=> type = "REGISTER",
         p = pid[c] \/ (type = "DEREGISTER" /\ Dead(p))
  PROVE  ViewInv'
<1> DEFINE r == [type |-> type, pid |-> p, name |-> c, id |-> id]
<1>1. UNCHANGED <<pid, births, wanted, requests, pibList, consumers, unanswered>>
      /\ pc[c] = point
  BY DEF Call, routerVars
<1>2. pc'[c] = "sending" /\ \A d \in Client \ {c} : pc'[d] = pc[d]
  BY DEF Call, GoTo, Inv, TypeInv, ProgTypes
<1>3. writing'[c] = r /\ \A d \in Client \ {c} : writing'[d] = writing[d]
  BY DEF Call, Inv, TypeInv, ProgTypes
<1>4. r.pid = p /\ r.type = type
  OBVIOUS
<1> HIDE DEF r
<1>5. PidsOK'
  BY <1>1 DEF ViewInv, PidsOK
<1>6. WritingOK'
  <2>1. p \in 1 .. births
    BY <1>1, PidIs DEF Inv, Dead
  <2>2. \/ p = pid[c]
        \/ type = "DEREGISTER" /\ \A e \in Client : pid[e] # p
    BY DEF Dead
  <2> QED BY <1>1, <1>2, <1>3, <1>4, <2>1, <2>2 DEF ViewInv, WritingOK
<1>7. OutsideOK'
  <2>1. \A d \in Client \ {c} : Outside(d)' => Outside(d)
    BY <1>2, <1>3 DEF Outside
  <2>2. Outside(c)' => Outside(c)
    BY <1>1, <1>2, <1>3, <1>4 DEF Outside
  <2> QED BY <1>1, <2>1, <2>2 DEF ViewInv, OutsideOK
<1>8. WishesOK'
  <2>1. \A d \in Client \ {c} : Told(d)' => Told(d)
    BY <1>2, <1>3 DEF Told
  <2>2. Told(c)' => Told(c)
    BY <1>1, <1>2, <1>3, <1>4 DEF Told
  <2>3. \A d \in Client : pc'[d] = "wait_ack" => pc[d] = "wait_ack"
    BY <1>2
  <2>4. \A d \in Client : Due(d)' => Due(d)
    BY <2>1, <2>2, <2>3 DEF Due
  <2> QED BY <1>1, <2>4, BelievesFrame DEF WishesOK
<1> QED BY <1>5, <1>6, <1>7, <1>8 DEF ViewInv

(* Every call of a program is one. *)
LEMMA ProgramView ==
  ASSUME Inv, ViewInv, NEW c \in Client, Program(c)
  PROVE  ViewInv'
<1>1. pc[c] # "down" => pid[c] \in Pid
  BY DEF Inv, TypeInv, ProgTypes, ProgramOK
<1>2. CASE radMsgRouterInit(c)
  <2>1. Call(c, "out", pid[c], "REGISTER", NoID) /\ pid[c] \in Pid
    BY <1>1, <1>2 DEF radMsgRouterInit, Call
  <2> QED BY <2>1, CallView
<1>3. CASE radMsgRouterExit(c)
  <2>1. Call(c, "in", pid[c], "DEREGISTER", NoID) /\ pid[c] \in Pid
    BY <1>1, <1>3 DEF radMsgRouterExit, Call
  <2> QED BY <2>1, CallView
<1>4. ASSUME NEW p \in Pid, radMsgRouterProcessExit(c, p) PROVE ViewInv'
  <2>1. Call(c, "in", p, "DEREGISTER", NoID) /\ Dead(p)
    BY <1>4 DEF radMsgRouterProcessExit
  <2> QED BY <2>1, CallView
<1>5. ASSUME NEW i \in MsgID,
             \/ radMsgRouterMessageRegister(c, i) \/ radMsgRouterMessageDeregister(c, i)
             \/ radMsgRouterMessageIsRegistered(c, i) \/ radMsgRouterMessageSend(c, i)
      PROVE  ViewInv'
  <2>1. PICK type \in {"ENABLE", "DISABLE", "IS_REGISTERED", "DATA"} : Call(c, "in", pid[c], type, i)
    BY <1>5 DEF radMsgRouterMessageRegister, radMsgRouterMessageDeregister,
                radMsgRouterMessageIsRegistered, radMsgRouterMessageSend
  <2>2. pid[c] \in Pid
    BY <1>1, <2>1 DEF Call
  <2> QED BY <2>1, <2>2, CallView
<1> QED BY <1>2, <1>3, <1>4, <1>5 DEF Program

(* A message is read, and the program is no further than before, or was    *)
(* given the answer it waited for.                                         *)
LEMMA ReadView ==
  ASSUME Inv, ViewInv, NEW c \in Client, Take(c),
         NEW point \in {"in", "out", "wait_ack", "wait_answer"}, pc' = [pc EXCEPT ![c] = point],
         \/ pc[c] = point
         \/ pc[c] = "wait_ack" /\ point \in {"in", "out"}
         \/ pc[c] = "wait_answer" /\ point = "in"
  PROVE  ViewInv'
<1>1. UNCHANGED <<pid, births, writing, wanted, requests, pibList, consumers, unanswered>>
  BY DEF Take, routerVars
<1>2. pc'[c] = point /\ \A d \in Client \ {c} : pc'[d] = pc[d]
  BY DEF Inv, TypeInv, ProgTypes
<1>3. \A d \in Client : pc'[d] = "sending" => pc[d] = "sending"
  BY <1>2
<1>4. PidsOK' /\ WritingOK'
  BY <1>1, <1>3 DEF ViewInv, PidsOK, WritingOK
<1>5. OutsideOK'
  <2>1. \A d \in Client : Outside(d)' => Outside(d)
    BY <1>1, <1>2 DEF Outside
  <2> QED BY <1>1, <2>1 DEF ViewInv, OutsideOK
<1>6. WishesOK'
  <2>1. \A d \in Client : Due(d)' => Due(d)
    BY <1>1, <1>2 DEF Due, Told
  <2> QED BY <1>1, <2>1, BelievesFrame DEF WishesOK
<1> QED BY <1>4, <1>5, <1>6 DEF ViewInv

(* A call fails: the program is where it was before it. *)
LEMMA FailView ==
  ASSUME Inv, ViewInv, NEW c \in Client, sendFails(c)
  PROVE  ViewInv'
<1> DEFINE point == IF writing[c].type = "REGISTER" THEN "out" ELSE "in"
<1>1. UNCHANGED <<pid, births, wanted, requests, pibList, consumers, unanswered>> /\ pc[c] = "sending"
  BY DEF sendFails, routerVars
<1>2. pc'[c] = point /\ \A d \in Client \ {c} : pc'[d] = pc[d] /\ writing'[d] = writing[d]
  BY DEF sendFails, GoTo, Inv, TypeInv, ProgTypes
<1>3. \A d \in Client : pc'[d] = "sending" => pc[d] = "sending" /\ writing'[d] = writing[d]
  BY <1>2
<1>4. PidsOK' /\ WritingOK'
  BY <1>1, <1>3 DEF ViewInv, PidsOK, WritingOK
<1>5. OutsideOK'
  <2>1. \A d \in Client : Outside(d)' => Outside(d)
    BY <1>1, <1>2 DEF Outside
  <2> QED BY <1>1, <2>1 DEF ViewInv, OutsideOK
<1>6. WishesOK'
  <2>1. \A d \in Client : Due(d)' => Due(d)
    BY <1>1, <1>2 DEF Due, Told
  <2> QED BY <1>1, <2>1, BelievesFrame DEF WishesOK
<1> QED BY <1>4, <1>5, <1>6 DEF ViewInv

(* The request is written: the wishes of its program are what the request  *)
(* makes of them, at once; those of the others stay.                       *)
LEMMA SendView ==
  ASSUME Inv, ViewInv, NEW c \in Client, sendToRouter(c)
  PROVE  ViewInv'
<1> DEFINE r == writing[c]
           p == pid[c]
<1>1. UNCHANGED <<pid, births, pibList, consumers, unanswered>> /\ pc[c] = "sending"
      /\ requests' = Append(requests, r)
  BY DEF sendToRouter, routerVars
<1>2. pc'[c] = After(c) /\ \A d \in Client \ {c} : pc'[d] = pc[d]
  BY DEF sendToRouter, GoTo, Inv, TypeInv, ProgTypes
<1>3. \A d \in Client \ {c} : writing'[d] = writing[d]
  BY DEF sendToRouter, Inv, TypeInv, ProgTypes
<1>4. wanted'[c] = (IF r.pid = p THEN Effect(r, wanted[c]) ELSE wanted[c])
      /\ \A d \in Client \ {c} : wanted'[d] = wanted[d]
  BY DEF sendToRouter, Inv, TypeInv, ProgTypes
<1>5. r \in Request /\ wanted[c] \subseteq MsgID /\ (r.type = "ENABLE" => r.id \in MsgID)
      /\ r.type \in Subtype
  BY <1>1 DEF Inv, TypeInv, ProgTypes, ProgramOK, Proper, Request
<1>6. /\ r.pid \in 1 .. births
      /\ \/ r.pid = p
         \/ r.type = "DEREGISTER" /\ \A d \in Client : pid[d] # r.pid
  BY <1>1 DEF ViewInv, WritingOK
<1>7. requests \in Seq(Request) /\ Len(requests) \in Nat
  BY RequestsAre DEF Inv
<1>8. p # NoPid /\ NoPid = 0
  BY <1>1, PidIs DEF Inv
<1>9. r.type # "REGISTER" => Told(c)
  BY <1>1 DEF Told
<1>10. After(c) = CASE r.type = "REGISTER" -> "wait_ack"
                    [] r.type = "IS_REGISTERED" -> "wait_answer"
                    [] r.type = "DEREGISTER" /\ r.pid = p -> "out"
                    [] OTHER -> "in"
  BY DEF After
<1>11. r.type = "REGISTER" => wanted[c] = {}
  BY <1>1 DEF ViewInv, OutsideOK, Outside
<1> HIDE DEF r, p
<1>a. ASSUME NEW d \in Client, NEW q, q = pid[d], r.pid # q
      PROVE  r \notin Joining(q) /\ r \notin Leaving(q)
             /\ \A i \in MsgID : r \notin Asking(q, i) /\ r \notin Cancelling(q, i)
  BY <1>a DEF Joining, Leaving, Asking, Cancelling, Asks, Cancels
<1>12. PidsOK'
  <2>1. /\ Len(requests') = Len(requests) + 1 /\ requests'[Len(requests) + 1] = r
        /\ \A k \in 1 .. Len(requests) : requests'[k] = requests[k]
    BY <1>1, <1>5, <1>7, AppendProperties
  <2>2. \A k \in 1 .. Len(requests') : requests'[k].pid \in 1 .. births'
    <3> SUFFICES ASSUME NEW k \in 1 .. Len(requests') PROVE requests'[k].pid \in 1 .. births
      BY <1>1
    <3>1. k \in 1 .. Len(requests) \/ k = Len(requests) + 1
      BY <1>7, <2>1
    <3> QED BY <1>6, <2>1, <3>1 DEF ViewInv, PidsOK
  <2> QED BY <1>1, <2>2 DEF ViewInv, PidsOK
<1>13. After(c) # "sending" /\ After(c) # "down"
  BY <1>10
<1>14. WritingOK'
  <2>1. \A d \in Client : pc'[d] = "sending" => d # c /\ pc[d] = "sending" /\ writing'[d] = writing[d]
    BY <1>2, <1>3, <1>13
  <2> QED BY <1>1, <2>1 DEF ViewInv, WritingOK
<1>15. OutsideOK'
  <2> SUFFICES ASSUME NEW d \in Client, Outside(d)' PROVE wanted'[d] = {}
    BY DEF OutsideOK
  <2>1. CASE d = c
    <3>1. After(c) \in {"wait_ack", "out"}
      BY <1>2, <1>10, <1>13, <2>1 DEF Outside
    <3>2. CASE r.type = "REGISTER"
      <4>1. r.pid = p
        BY <1>6, <3>2
      <4> QED BY <1>4, <2>1, <3>2, <4>1 DEF Effect
    <3>3. CASE r.type # "REGISTER"
      <4>1. r.type = "DEREGISTER" /\ r.pid = p
        BY <1>10, <3>1, <3>3
      <4> QED BY <1>4, <2>1, <4>1 DEF Effect
    <3> QED BY <3>2, <3>3
  <2>2. CASE d # c
    <3>1. Outside(d)
      BY <1>2, <1>3, <2>2 DEF Outside
    <3> QED BY <1>4, <2>2, <3>1 DEF ViewInv, OutsideOK
  <2> QED BY <2>1, <2>2
<1>16. ASSUME NEW d \in Client, pid[d] # NoPid, NEW e \in BOOLEAN, NEW H, Believes(d, e, H),
              NEW w2 \in SUBSET MsgID,
              \A i \in MsgID : i \in w2 <=> r \in Asking(pid[d], i)
                                            \/ (i \in wanted[d] /\ r \notin Cancelling(pid[d], i))
       PROVE  /\ ViewIs(pid[d], w2, e, H, requests')
              /\ EnrolledIn(pid[d], e, requests', Len(requests'))
                   <=> r \in Joining(pid[d])
                       \/ (EnrolledIn(pid[d], e, requests, Len(requests)) /\ r \notin Leaving(pid[d]))
  <2>1. r.pid = pid[d] => d = c
    BY <1>6, <1>16 DEF ViewInv, PidsOK, p
  <2>2. r.pid = pid[d] /\ r.type = "ENABLE" => EnrolledIn(pid[d], e, requests, Len(requests))
    BY <1>9, <1>16, <2>1 DEF Believes, Due
  <2>3. r.pid = pid[d] /\ r.type = "REGISTER" => wanted[d] = {}
    BY <1>11, <2>1
  <2>4. ViewIs(pid[d], wanted[d], e, H, requests)
    BY <1>16 DEF Believes
  <2> DEFINE q == pid[d]
             w == wanted[d]
  <2> HIDE DEF q, w
  <2>5. /\ ViewIs(q, w2, e, H, Append(requests, r))
        /\ EnrolledIn(q, e, Append(requests, r), Len(Append(requests, r)))
             <=> r \in Joining(q) \/ (EnrolledIn(q, e, requests, Len(requests)) /\ r \notin Leaving(q))
    <3>1. ViewIs(q, w, e, H, requests)
      BY <2>4 DEF q, w
    <3>2. r.pid = q /\ r.type = "ENABLE" => EnrolledIn(q, e, requests, Len(requests))
      BY <2>2 DEF q
    <3>3. r.pid = q /\ r.type = "REGISTER" => w = {}
      BY <2>3 DEF q, w
    <3>4. \A i \in MsgID : i \in w2 <=> r \in Asking(q, i) \/ (i \in w /\ r \notin Cancelling(q, i))
      BY <1>16 DEF q, w
    <3>5. requests \in Seq(Request) /\ r \in Request /\ e \in BOOLEAN /\ w2 \in SUBSET MsgID
      BY <1>5, <1>7, <1>16
    <3> QED BY <3>1, <3>2, <3>3, <3>4, <3>5, ViewAppend
  <2> QED BY <1>1, <2>5 DEF q, w
<1>17. ASSUME NEW d \in Client, pid[d] # NoPid, NEW e \in BOOLEAN, NEW H, Believes(d, e, H), Due(d)'
       PROVE  EnrolledIn(pid[d], e, requests', Len(requests'))
  <2>0. EnrolledIn(pid[d], e, requests', Len(requests'))
          <=> r \in Joining(pid[d])
              \/ (EnrolledIn(pid[d], e, requests, Len(requests)) /\ r \notin Leaving(pid[d]))
    <3>1. PICK w2 \in SUBSET MsgID :
            w2 = {i \in MsgID : r \in Asking(pid[d], i)
                                \/ (i \in wanted[d] /\ r \notin Cancelling(pid[d], i))}
      OBVIOUS
    <3>2. \A i \in MsgID : i \in w2 <=> r \in Asking(pid[d], i)
                                        \/ (i \in wanted[d] /\ r \notin Cancelling(pid[d], i))
      BY <3>1
    <3> QED BY <1>16, <1>17, <3>2
  <2>1. CASE d = c
    <3>0. pid[c] = p
      BY DEF p
    <3>1. pc'[c] = After(c) /\ After(c) \in {"in", "wait_answer", "wait_ack"}
      BY <1>2, <1>13, <1>17, <2>1 DEF Due, Told
    <3>2. CASE r.type = "REGISTER"
      <4>1. r \in Joining(p)
        BY <1>5, <1>6, <3>2 DEF Joining
      <4> QED BY <2>0, <2>1, <3>0, <4>1
    <3>3. CASE r.type # "REGISTER"
      <4>1. r \notin Leaving(p)
        BY <1>10, <3>1, <3>3 DEF Leaving
      <4>2. EnrolledIn(p, e, requests, Len(requests))
        BY <1>9, <1>17, <2>1, <3>0, <3>3 DEF Believes, Due
      <4> QED BY <2>0, <2>1, <3>0, <4>1, <4>2
    <3> QED BY <3>2, <3>3
  <2>2. CASE d # c
    <3>1. Due(d)
      BY <1>2, <1>3, <1>17, <2>2 DEF Due, Told
    <3>2. EnrolledIn(pid[d], e, requests, Len(requests))
      BY <1>17, <3>1 DEF Believes
    <3>3. r.pid # pid[d]
      BY <1>6, <1>17, <2>2 DEF ViewInv, PidsOK, p
    <3> QED BY <1>a, <2>0, <3>2, <3>3
  <2> QED BY <2>1, <2>2
<1>18. ASSUME NEW d \in Client, pid[d] # NoPid, NEW e \in BOOLEAN, NEW H, Believes(d, e, H)
       PROVE  ViewIs(pid[d], wanted'[d], e, H, requests')
  <2> DEFINE w == {i \in MsgID : r \in Asking(pid[d], i) \/ (i \in wanted[d] /\ r \notin Cancelling(pid[d], i))}
  <2>1. wanted[d] \subseteq MsgID
    BY DEF Inv, TypeInv, ProgTypes
  <2>2. CASE r.pid # pid[d]
    <3>1. w = wanted[d]
      BY <1>a, <2>1, <2>2
    <3>2. wanted'[d] = wanted[d]
      BY <1>4, <2>2 DEF p
    <3> HIDE DEF w
    <3> QED BY <1>16, <1>18, <3>1, <3>2 DEF w
  <2>3. CASE r.pid = pid[d]
    <3>1. d = c /\ pid[c] = p
      BY <1>6, <1>18, <2>3 DEF ViewInv, PidsOK, p
    <3>2. wanted'[c] = Effect(r, wanted[c]) /\ r.pid = p
      BY <1>4, <2>3, <3>1
    <3>3. \A i \in MsgID : /\ r \in Asking(p, i) <=> r.type = "ENABLE" /\ r.id = i
                           /\ r \in Cancelling(p, i) <=> r.type = "DEREGISTER" \/ (r.type = "DISABLE" /\ r.id = i)
      BY <1>5, <3>2 DEF Asking, Cancelling, Asks, Cancels
    <3>4. w = wanted'[c]
      <4>1. CASE r.type = "ENABLE"
        <5>1. wanted'[c] = wanted[c] \cup {r.id}
          BY <3>2, <4>1 DEF Effect
        <5> QED BY <1>5, <3>1, <3>3, <4>1, <5>1
      <4>2. CASE r.type = "DISABLE"
        <5>1. wanted'[c] = wanted[c] \ {r.id}
          BY <3>2, <4>2 DEF Effect
        <5> QED BY <1>5, <3>1, <3>3, <4>2, <5>1
      <4>3. CASE r.type = "REGISTER"
        <5>1. wanted'[c] = {} /\ wanted[c] = {}
          BY <1>11, <3>2, <4>3 DEF Effect
        <5> QED BY <3>1, <3>3, <4>3, <5>1
      <4>4. CASE r.type = "DEREGISTER"
        <5>1. wanted'[c] = {}
          BY <3>2, <4>4 DEF Effect
        <5> QED BY <3>1, <3>3, <4>4, <5>1
      <4>5. CASE r.type \in {"IS_REGISTERED", "DATA"}
        <5>1. wanted'[c] = wanted[c]
          BY <3>2, <4>5 DEF Effect
        <5> QED BY <1>5, <3>1, <3>3, <4>5, <5>1
      <4> QED BY <1>5, <4>1, <4>2, <4>3, <4>4, <4>5 DEF Subtype
    <3> HIDE DEF w
    <3> QED BY <1>16, <1>18, <3>1, <3>4 DEF w
  <2> QED BY <2>2, <2>3
<1>19. WishesOK'
  <2> SUFFICES ASSUME NEW d \in Client, pid[d] # NoPid
               PROVE  \E e \in BOOLEAN : \E H \in SUBSET MsgID : Believes(d, e, H)'
    BY <1>1 DEF WishesOK
  <2>1. PICK e \in BOOLEAN, H \in SUBSET MsgID : Believes(d, e, H)
    BY DEF ViewInv, WishesOK
  <2>2. ViewIs(pid[d], wanted'[d], e, H, requests')
        /\ (Due(d)' => EnrolledIn(pid[d], e, requests', Len(requests')))
    BY <1>17, <1>18, <2>1
  <2>3. Away(pid[d])' = Away(pid[d]) /\ Listed(pid[d])' = Listed(pid[d])
    BY <1>1 DEF Away, Listed, Has
  <2>4. Believes(d, e, H)'
    BY <1>1, <2>1, <2>2, <2>3 DEF Believes
  <2> QED BY <2>4
<1> QED BY <1>12, <1>14, <1>15, <1>19 DEF ViewInv

(* A list without duplicates keeps the others. *)
LEMMA WithoutKeeps ==
  ASSUME NEW T, NEW q \in Seq(T), NEW p, IsInjective(q), NEW x
  PROVE  Contains(Without(q, p), x) <=> Contains(q, x) /\ x # p
<1> DEFINE At == {i \in 1 .. Len(q) : q[i] = p}
           m == Min(At)
<1>0. Len(q) \in Nat
  OBVIOUS
<1>1. ASSUME Contains(Without(q, p), x) PROVE Contains(q, x) /\ x # p
  <2>1. PICK k \in 1 .. Len(Without(q, p)) : Without(q, p)[k] = x
    BY <1>1 DEF Contains
  <2>2. x # p /\ \E i \in 1 .. Len(q) : x = q[i]
    BY <2>1, WithoutOne
  <2> QED BY <2>2 DEF Contains
<1>2. ASSUME Contains(q, x), x # p PROVE Contains(Without(q, p), x)
  <2>1. PICK j \in 1 .. Len(q) : q[j] = x
    BY <1>2 DEF Contains
  <2>2. CASE At = {}
    <3>1. Without(q, p) = q
      BY <2>2 DEF Without, RemoveFirst
    <3> QED BY <1>2, <3>1
  <2>3. CASE At # {}
    <3>1. m \in 1 .. Len(q) /\ q[m] = p
      <4>1. At \in SUBSET Nat
        BY <1>0
      <4> QED BY <2>3, <4>1, MinIn
    <3>2. Without(q, p) = RemoveAt(q, m)
      BY <2>3 DEF Without, RemoveFirst, SelectInSeq
    <3> HIDE DEF m, At
    <3> DEFINE r == RemoveAt(q, m)
    <3>3. Len(r) = Len(q) - 1 /\ \A k \in 1 .. Len(q) - 1 : r[k] = IF k < m THEN q[k] ELSE q[k + 1]
      BY <3>1, RemovedAt
    <3> HIDE DEF r
    <3>4. j # m
      BY <1>2, <2>1, <3>1
    <3>5. CASE j < m
      <4>1. j \in 1 .. Len(r) /\ r[j] = x
        BY <1>0, <2>1, <3>1, <3>3, <3>5
      <4> QED BY <3>2, <4>1 DEF Contains, r
    <3>6. CASE ~ (j < m)
      <4>1. j - 1 \in 1 .. Len(r) /\ ~ (j - 1 < m) /\ (j - 1) + 1 = j
        BY <1>0, <2>1, <3>1, <3>3, <3>4, <3>6
      <4>2. r[j - 1] = x
        BY <2>1, <3>3, <4>1
      <4> QED BY <3>2, <4>1, <4>2 DEF Contains, r
    <3> QED BY <3>5, <3>6
  <2> QED BY <2>2, <2>3
<1> QED BY <1>1, <1>2

(* The end of a list is a member of it, beside those it had. *)
LEMMA AppendKeeps ==
  ASSUME NEW T, NEW q \in Seq(T), NEW p \in T, NEW x
  PROVE  Contains(Append(q, p), x) <=> Contains(q, x) \/ x = p
<1>1. Len(q) \in Nat /\ Len(Append(q, p)) = Len(q) + 1 /\ Append(q, p)[Len(q) + 1] = p
      /\ \A k \in 1 .. Len(q) : Append(q, p)[k] = q[k]
  BY AppendProperties
<1>2. /\ Len(q) + 1 \in 1 .. Len(q) + 1
      /\ \A k \in 1 .. Len(q) + 1 : k \in 1 .. Len(q) \/ k = Len(q) + 1
      /\ \A k \in 1 .. Len(q) : k \in 1 .. Len(q) + 1
  BY <1>1
<1> QED BY <1>1, <1>2 DEF Contains

(* The router works off a request as it should, or turns its process away; *)
(* a process it turned away gets a block when it registers again.          *)
LEMMA HeadView ==
  ASSUME Inv, ViewInv, NEW type, Handle(type),
         \A b \in pibList' : b.pid \in 1 .. births,
         \A p : \/ (Head(requests).pid = p /\ type = "ENABLE" => Has(p, pibList))
                   => Does(Head(requests), p, Has(p, pibList), Has(p, pibList'), Listed(p),
                           {i \in MsgID : Contains(consumers'[i], p)})
                \/ p \in unanswered' /\ ~ Has(p, pibList'),
         \A p : Away(p) => \/ p \in unanswered' /\ ~ Has(p, pibList')
                           \/ /\ Head(requests).pid = p /\ type = "REGISTER" /\ Has(p, pibList')
                              /\ \A i \in MsgID : ~ Contains(consumers'[i], p)
  PROVE  ViewInv'
<1> DEFINE r == Head(requests)
<1>1. /\ UNCHANGED <<pid, births, pc, writing, wanted>>
      /\ requests # <<>> /\ requests' = Tail(requests) /\ r.type = type
  BY DEF Handle, progVars
<1>2. requests \in Seq(Request) /\ Len(requests) \in Nat
  BY RequestsAre DEF Inv
<1>3. /\ Len(requests') = Len(requests) - 1 /\ Len(requests) # 0 /\ r = requests[1]
      /\ \A k \in 1 .. Len(requests) - 1 : requests'[k] = requests[k + 1]
  BY <1>1, <1>2, HeadTailProperties, EmptySeq
<1> HIDE DEF r
<1>4. PidsOK'
  <2>1. ASSUME NEW k \in 1 .. Len(requests') PROVE requests'[k].pid \in 1 .. births
    <3>1. k + 1 \in 1 .. Len(requests) /\ requests'[k] = requests[k + 1]
      BY <1>2, <1>3
    <3> QED BY <3>1 DEF ViewInv, PidsOK
  <2> QED BY <1>1, <2>1 DEF ViewInv, PidsOK
<1>5. WritingOK' /\ OutsideOK'
  BY <1>1 DEF ViewInv, WritingOK, OutsideOK, Outside
<1>6. ASSUME NEW c \in Client, pid[c] # NoPid
      PROVE  \E e \in BOOLEAN : \E H \in SUBSET MsgID : Believes(c, e, H)'
  <2> DEFINE p == pid[c]
             now == {i \in MsgID : Contains(consumers'[i], p)}
  <2>1. PICK e \in BOOLEAN, H \in SUBSET MsgID : Believes(c, e, H)
    BY <1>6 DEF ViewInv, WishesOK
  <2>0. PICK e2 \in BOOLEAN, H2 \in SUBSET MsgID :
          /\ e2 = (r \in Joining(p) \/ (e /\ r \notin Leaving(p)))
          /\ H2 = {i \in MsgID : r \in Asking(p, i) \/ (i \in H /\ r \notin Cancelling(p, i))}
    OBVIOUS
  <2>2. /\ ViewIs(p, wanted[c], e, H, requests)
        /\ Due(c) => EnrolledIn(p, e, requests, Len(requests))
        /\ Away(p) \/ (e = Has(p, pibList) /\ H = Listed(p))
    BY <2>1 DEF Believes
  <2>4. Does(r, p, e, e2, H, H2)
    BY <2>0 DEF Does
  <2>5. /\ r.pid = p /\ type = "ENABLE" => e
        /\ r.pid = p /\ type = "REGISTER" => H = {}
    <3>1. 1 \in 1 .. Len(requests) /\ 1 - 1 = 0
      BY <1>2, <1>3
    <3>2. r.pid = p /\ type = "ENABLE" => EnrolledIn(p, e, requests, 0)
      BY <1>1, <1>3, <2>2, <3>1 DEF ViewIs
    <3>3. r.pid = p /\ type = "REGISTER" => \A i \in MsgID : ~ SubscribedIn(p, i, H, requests, 0)
      BY <1>1, <1>3, <2>2, <3>1 DEF ViewIs
    <3>4. \A i \in MsgID : i \in H => SubscribedIn(p, i, H, requests, 0)
      BY DEF SubscribedIn, Net
    <3>5. EnrolledIn(p, e, requests, 0) => e
      BY DEF EnrolledIn, Net
    <3> QED BY <3>2, <3>3, <3>4, <3>5
  <2>6. \/ p \in unanswered' /\ ~ Has(p, pibList')
        \/ e2 = Has(p, pibList') /\ H2 = now
    <3>1. CASE Away(p)
      <4> SUFFICES ASSUME r.pid = p, type = "REGISTER", Has(p, pibList'),
                          \A i \in MsgID : ~ Contains(consumers'[i], p)
                   PROVE  e2 = Has(p, pibList') /\ H2 = now
        BY <3>1 DEF r
      <4>1. r \in Joining(p) /\ r \in Request
        <5>1. r \in Request
          BY <1>2, <1>3
        <5> QED BY <1>1, <5>1 DEF Joining
      <4>2. \A i \in MsgID : r \notin Asking(p, i)
        BY <1>1 DEF Asking, Asks
      <4>3. Has(p, pibList') = TRUE
        BY DEF Has
      <4> QED BY <2>0, <2>5, <4>1, <4>2, <4>3
    <3>2. CASE ~ Away(p)
      <4> SUFFICES ASSUME ~ (p \in unanswered' /\ ~ Has(p, pibList'))
                   PROVE  e2 = Has(p, pibList') /\ H2 = now
        OBVIOUS
      <4>1. e = Has(p, pibList) /\ H = Listed(p)
        BY <2>2, <3>2
      <4>2. Does(r, p, Has(p, pibList), Has(p, pibList'), Listed(p), now)
        BY <2>5, <4>1 DEF r
      <4>3. Has(p, pibList') \in BOOLEAN
        BY DEF Has
      <4>4. e2 = Has(p, pibList')
        BY <2>0, <4>1, <4>2, <4>3 DEF Does
      <4>5. H2 = now
        BY <2>0, <4>1, <4>2 DEF Does
      <4> QED BY <4>4, <4>5
    <3> QED BY <3>1, <3>2
  <2>7. /\ ViewIs(p, wanted[c], e2, H2, requests')
        /\ EnrolledIn(p, e2, requests', Len(requests')) <=> EnrolledIn(p, e, requests, Len(requests))
    BY <1>1, <1>2, <2>2, <2>4, ViewTail DEF r
  <2>8. Due(c)' => Due(c)
    BY <1>1 DEF Due, Told
  <2>9. /\ Away(pid[c])' <=> p \in unanswered' /\ ~ Has(p, pibList')
        /\ Listed(pid[c])' = now
    BY <1>1 DEF Away, Listed, Has
  <2>10. Believes(c, e2, H2)'
    BY <1>1, <2>2, <2>6, <2>7, <2>8, <2>9 DEF Believes
  <2> QED BY <2>10
<1>7. WishesOK'
  BY <1>1, <1>6 DEF WishesOK
<1> QED BY <1>4, <1>5, <1>7 DEF ViewInv

(* A request other than REGISTER: nobody is turned away, nobody gets a     *)
(* block.                                                                  *)
LEMMA HandleView ==
  ASSUME Inv, ViewInv, NEW type, Handle(type), UNCHANGED unanswered,
         \A b \in pibList' : b \in pibList,
         \A p : (Head(requests).pid = p /\ type = "ENABLE" => Has(p, pibList))
                => Does(Head(requests), p, Has(p, pibList), Has(p, pibList'), Listed(p),
                        {i \in MsgID : Contains(consumers'[i], p)})
  PROVE  ViewInv'
<1>1. \A b \in pibList' : b.pid \in 1 .. births
  BY DEF ViewInv, PidsOK
<1>2. \A p : Away(p) => p \in unanswered' /\ ~ Has(p, pibList')
  BY DEF Away, Has
<1> QED BY <1>1, <1>2, HeadView

(* A request that changes neither blocks nor consumers. *)
LEMMA QuietView ==
  ASSUME Inv, ViewInv, NEW type \in {"IS_REGISTERED", "DATA"}, Handle(type),
         UNCHANGED <<pibList, consumers, unanswered>>
  PROVE  ViewInv'
<1>1. Head(requests).type = type
  BY DEF Handle
<1>2. \A p : Does(Head(requests), p, Has(p, pibList), Has(p, pibList'), Listed(p),
                  {i \in MsgID : Contains(consumers'[i], p)})
  BY <1>1 DEF Does, Joining, Leaving, Asking, Cancelling, Asks, Cancels, Listed
<1> QED BY <1>2, HandleView

(* What a request is for a process, once its type is known. *)
LEMMA RequestIs ==
  ASSUME NEW r \in Request, NEW p
  PROVE  /\ r \in Joining(p) <=> r.pid = p /\ r.type = "REGISTER"
         /\ r \in Leaving(p) <=> r.pid = p /\ r.type = "DEREGISTER"
         /\ \A i : r \in Asking(p, i) <=> r.pid = p /\ r.type = "ENABLE" /\ r.id = i
         /\ \A i : r \in Cancelling(p, i)
                     <=> r.pid = p /\ (r.type = "DEREGISTER" \/ (r.type = "DISABLE" /\ r.id = i))
BY DEF Joining, Leaving, Asking, Cancelling, Asks, Cancels

(* The first request and the lists before it is handled. *)
LEMMA HeadIs ==
  ASSUME Inv, ViewInv, NEW type, Handle(type)
  PROVE  /\ Head(requests) \in Request /\ Head(requests).type = type
         /\ Head(requests).pid \in Pid /\ Head(requests).pid \in 1 .. births
         /\ type = "ENABLE" => Head(requests).id \in MsgID
         /\ \A b \in pibList : b.pid \in 1 .. births
         /\ \A i \in MsgID : /\ consumers[i] \in Seq(Pid) /\ IsInjective(consumers[i])
                             /\ \A p : Contains(consumers[i], p) => Has(p, pibList)
                             /\ i \in miibList <=> consumers[i] # <<>>
<1>1. Head(requests) \in Proper /\ Head(requests).type = type /\ Head(requests).pid \in Pid
  BY FirstRequest DEF Inv
<1>2. Head(requests).pid \in 1 .. births
  <2>1. requests # <<>> /\ requests \in Seq(Request) /\ Len(requests) \in Nat
    BY RequestsAre DEF Inv, Handle
  <2>2. Len(requests) # 0 /\ Head(requests) = requests[1]
    BY <2>1, HeadTailProperties, EmptySeq
  <2>3. 1 \in 1 .. Len(requests)
    BY <2>1, <2>2
  <2> QED BY <2>2, <2>3 DEF ViewInv, PidsOK
<1>3. \A b \in pibList : b.pid \in 1 .. births
  BY DEF ViewInv, PidsOK
<1>4. ASSUME NEW i \in MsgID
      PROVE  /\ consumers[i] \in Seq(Pid) /\ IsInjective(consumers[i])
             /\ \A p : Contains(consumers[i], p) => Has(p, pibList)
             /\ i \in miibList <=> consumers[i] # <<>>
  <2>1. \A k \in 1 .. Len(consumers[i]) : Has(consumers[i][k], pibList)
    BY DEF Inv, ListsOK
  <2> QED BY <2>1 DEF Inv, TypeInv, RouterTypes, ListsOK, Contains
<1> QED BY <1>1, <1>2, <1>3, <1>4 DEF Proper

(* A process gets a block, has one, or is turned away. *)
LEMMA RegisterView ==
  ASSUME Inv, ViewInv, NEW fails, Register(fails)
  PROVE  ViewInv'
<1> DEFINE r == Head(requests)
<1>1. Handle("REGISTER") /\ UNCHANGED consumers
  BY DEF Register
<1>2. r \in Request /\ r.type = "REGISTER" /\ r.pid \in 1 .. births
      /\ (\A b \in pibList : b.pid \in 1 .. births)
      /\ \A i \in MsgID : \A p : Contains(consumers[i], p) => Has(p, pibList)
  BY <1>1, HeadIs
<1>3. /\ \/ getPIBByPID(r.pid) # {} /\ UNCHANGED pibList
         \/ pibList' = pibList \cup {[pid |-> r.pid, name |-> r.name]}
         \/ UNCHANGED pibList /\ r.pid \in unanswered' /\ getPIBByPID(r.pid) = {}
      /\ \A p : p # r.pid => (p \in unanswered' <=> p \in unanswered)
  <2>1. ASSUME NEW b \in getPIBByPID(r.pid), SendACK(fails, attached, b)
        PROVE  \A p : p # r.pid => (p \in unanswered' <=> p \in unanswered)
    BY <2>1 DEF SendACK, getPIBByPID
  <2>2. CASE NewClient(fails, r)
    <3> DEFINE new == [pid |-> r.pid, name |-> r.name]
    <3>1. new.pid = r.pid
      OBVIOUS
    <3>2. pibList' = pibList \cup {new} /\ SendACK(fails, attached \cup {r.name}, new)
      BY <2>2 DEF NewClient
    <3>3. \A p : p # r.pid => (p \in unanswered' <=> p \in unanswered)
      <4> HIDE DEF new
      <4> QED BY <3>1, <3>2 DEF SendACK
    <3> QED BY <3>2, <3>3
  <2>3. CASE TurnAway(fails, r) /\ getPIBByPID(r.pid) = {}
    BY <2>3 DEF TurnAway
  <2> QED BY <2>1, <2>2, <2>3 DEF Register
<1> HIDE DEF r
<1>4. \A b \in pibList' : b.pid \in 1 .. births
  BY <1>2, <1>3
<1>5. \/ \A p : Has(p, pibList') <=> Has(p, pibList) \/ p = r.pid
      \/ UNCHANGED pibList /\ r.pid \in unanswered' /\ ~ Has(r.pid, pibList')
  <2>1. CASE getPIBByPID(r.pid) # {} /\ UNCHANGED pibList
    BY <2>1 DEF Has, getPIBByPID
  <2>2. CASE pibList' = pibList \cup {[pid |-> r.pid, name |-> r.name]}
    <3> DEFINE new == [pid |-> r.pid, name |-> r.name]
    <3>1. new.pid = r.pid
      OBVIOUS
    <3>2. pibList' = pibList \cup {new}
      BY <2>2
    <3> HIDE DEF new
    <3> QED BY <3>1, <3>2 DEF Has
  <2>3. CASE UNCHANGED pibList /\ r.pid \in unanswered' /\ getPIBByPID(r.pid) = {}
    BY <2>3 DEF Has, getPIBByPID
  <2> QED BY <1>3, <2>1, <2>2, <2>3
<1>6. ASSUME NEW p
      PROVE  \/ Does(r, p, Has(p, pibList), Has(p, pibList'), Listed(p),
                     {i \in MsgID : Contains(consumers'[i], p)})
             \/ p \in unanswered' /\ ~ Has(p, pibList')
  <2>1. CASE p = r.pid /\ r.pid \in unanswered' /\ ~ Has(r.pid, pibList')
    BY <2>1
  <2>2. CASE Has(p, pibList') <=> Has(p, pibList) \/ p = r.pid
    <3>1. {i \in MsgID : Contains(consumers'[i], p)} = Listed(p)
      BY <1>1 DEF Listed
    <3> QED BY <1>2, <2>2, <3>1, RequestIs DEF Does
  <2> QED BY <1>5, <2>1, <2>2
<1>7. ASSUME NEW p, Away(p)
      PROVE  \/ p \in unanswered' /\ ~ Has(p, pibList')
             \/ r.pid = p /\ Has(p, pibList') /\ \A i \in MsgID : ~ Contains(consumers'[i], p)
  <2>1. \A i \in MsgID : ~ Contains(consumers'[i], p)
    BY <1>1, <1>2, <1>7 DEF Away
  <2>2. p # r.pid => p \in unanswered' /\ ~ Has(p, pibList')
    BY <1>3, <1>5, <1>7 DEF Away
  <2>3. p = r.pid => (p \in unanswered' /\ ~ Has(p, pibList')) \/ Has(p, pibList')
    BY <1>5
  <2> QED BY <2>1, <2>2, <2>3
<1> QED BY <1>1, <1>4, <1>6, <1>7, HeadView DEF r

(* A process loses its block and its place in every list, if it has one. *)
LEMMA DeregisterView ==
  ASSUME Inv, ViewInv, Deregister
  PROVE  ViewInv'
<1> DEFINE r == Head(requests)
<1>1. Handle("DEREGISTER") /\ UNCHANGED unanswered
  BY DEF Deregister
<1>2. /\ r \in Request /\ r.type = "DEREGISTER"
      /\ \A b \in pibList : b.pid \in 1 .. births
      /\ \A i \in MsgID : /\ consumers[i] \in Seq(Pid) /\ IsInjective(consumers[i])
                          /\ \A p : Contains(consumers[i], p) => Has(p, pibList)
  BY <1>1, HeadIs
<1>3. \/ getPIBByPID(r.pid) = {} /\ UNCHANGED <<pibList, consumers>>
      \/ \E b \in getPIBByPID(r.pid) : RemoveClientFromAllMsgs(b.pid) /\ pibList' = pibList \ {b}
  BY DEF Deregister
<1> HIDE DEF r
<1>4. \A b \in pibList' : b \in pibList
  BY <1>3
<1>5. /\ \A p : Has(p, pibList') <=> Has(p, pibList) /\ p # r.pid
      /\ \A i \in MsgID : \A p : Contains(consumers'[i], p) <=> Contains(consumers[i], p) /\ p # r.pid
  <2>1. CASE getPIBByPID(r.pid) = {} /\ UNCHANGED <<pibList, consumers>>
    <3>1. ~ Has(r.pid, pibList)
      BY <2>1 DEF Has, getPIBByPID
    <3> QED BY <1>2, <2>1, <3>1
  <2>2. ASSUME NEW b \in getPIBByPID(r.pid), RemoveClientFromAllMsgs(b.pid), pibList' = pibList \ {b}
        PROVE  /\ \A p : Has(p, pibList') <=> Has(p, pibList) /\ p # r.pid
               /\ \A i \in MsgID : \A p : Contains(consumers'[i], p) <=> Contains(consumers[i], p) /\ p # r.pid
    <3>1. b \in pibList /\ b.pid = r.pid /\ \A d \in pibList : d.pid = r.pid => d = b
      BY DEF getPIBByPID, Inv, BlocksOK
    <3>2. \A p : Has(p, pibList') <=> Has(p, pibList) /\ p # r.pid
      BY <2>2, <3>1 DEF Has
    <3>3. ASSUME NEW i \in MsgID, NEW p
          PROVE  Contains(consumers'[i], p) <=> Contains(consumers[i], p) /\ p # r.pid
      <4>1. consumers'[i] = Without(consumers[i], r.pid)
        BY <2>2, <3>1 DEF RemoveClientFromAllMsgs
      <4> QED BY <1>2, <4>1, WithoutKeeps
    <3> QED BY <3>2, <3>3
  <2> QED BY <1>3, <2>1, <2>2
<1>6. \A p : Does(r, p, Has(p, pibList), Has(p, pibList'), Listed(p),
                  {i \in MsgID : Contains(consumers'[i], p)})
  BY <1>2, <1>5, RequestIs DEF Does, Listed
<1> QED BY <1>1, <1>4, <1>6, HandleView DEF r

(* A process that has a block becomes a consumer, once. *)
LEMMA EnableView ==
  ASSUME Inv, ViewInv, EnableMsgID
  PROVE  ViewInv'
<1> DEFINE r == Head(requests)
<1>1. Handle("ENABLE") /\ UNCHANGED <<pibList, unanswered>>
  BY DEF EnableMsgID
<1>2. /\ r \in Request /\ r.type = "ENABLE" /\ r.id \in MsgID /\ r.pid \in Pid
      /\ \A i \in MsgID : consumers[i] \in Seq(Pid)
  BY <1>1, HeadIs
<1>3. \/ Has(r.pid, pibList)
         /\ consumers' = [consumers EXCEPT ![r.id] = IF Contains(@, r.pid) THEN @ ELSE Append(@, r.pid)]
      \/ ~ Has(r.pid, pibList) /\ UNCHANGED consumers
  BY DEF EnableMsgID, AddClient, getPIBByPID, Has
<1> HIDE DEF r
<1>4. consumers \in [MsgID -> Seq(Pid)]
  BY DEF Inv, TypeInv, RouterTypes
<1>5. ASSUME NEW p, r.pid = p => Has(p, pibList)
      PROVE  Does(r, p, Has(p, pibList), Has(p, pibList'), Listed(p),
                  {i \in MsgID : Contains(consumers'[i], p)})
  <2>1. ASSUME NEW i \in MsgID
        PROVE  Contains(consumers'[i], p) <=> Contains(consumers[i], p) \/ (p = r.pid /\ i = r.id)
    <3>1. CASE Has(r.pid, pibList)
      <4>1. consumers' = [consumers EXCEPT ![r.id] = IF Contains(@, r.pid) THEN @ ELSE Append(@, r.pid)]
        BY <1>3, <3>1
      <4>2. CASE i # r.id
        BY <1>4, <4>1, <4>2
      <4>3. CASE i = r.id
        <5>1. CASE Contains(consumers[i], r.pid)
          <6>1. consumers'[i] = consumers[i]
            BY <1>2, <1>4, <4>1, <4>3, <5>1
          <6> QED BY <4>3, <5>1, <6>1
        <5>2. CASE ~ Contains(consumers[i], r.pid)
          <6>1. consumers'[i] = Append(consumers[i], r.pid)
            BY <1>2, <1>4, <4>1, <4>3, <5>2
          <6> QED BY <1>2, <4>3, <6>1, AppendKeeps
        <5> QED BY <5>1, <5>2
      <4> QED BY <4>2, <4>3
    <3>2. CASE ~ Has(r.pid, pibList)
      <4>1. consumers' = consumers /\ p # r.pid
        BY <1>3, <1>5, <3>2
      <4> QED BY <4>1
    <3> QED BY <3>1, <3>2
  <2>2. Has(p, pibList') <=> Has(p, pibList)
    BY <1>1
  <2> QED BY <1>2, <2>1, <2>2, RequestIs DEF Does, Listed
<1>6. \A p : (r.pid = p /\ "ENABLE" = "ENABLE" => Has(p, pibList))
               => Does(r, p, Has(p, pibList), Has(p, pibList'), Listed(p),
                       {i \in MsgID : Contains(consumers'[i], p)})
  BY <1>5
<1>7. \A b \in pibList' : b \in pibList
  BY <1>1
<1> QED BY <1>1, <1>6, <1>7, HandleView DEF r

(* A process is a consumer no longer; it may not have been one. *)
LEMMA DisableView ==
  ASSUME Inv, ViewInv, DisableMsgID
  PROVE  ViewInv'
<1> DEFINE r == Head(requests)
<1>1. Handle("DISABLE") /\ UNCHANGED <<pibList, unanswered>>
  BY DEF DisableMsgID
<1>2. /\ r \in Request /\ r.type = "DISABLE"
      /\ \A i \in MsgID : /\ consumers[i] \in Seq(Pid) /\ IsInjective(consumers[i])
                          /\ \A p : Contains(consumers[i], p) => Has(p, pibList)
                          /\ i \in miibList <=> consumers[i] # <<>>
  BY <1>1, HeadIs
<1>3. \/ r.id \in miibList /\ consumers' = [consumers EXCEPT ![r.id] = Without(@, r.pid)]
      \/ (~ Has(r.pid, pibList) \/ r.id \notin miibList) /\ UNCHANGED consumers
  BY DEF DisableMsgID, getPIBByPID, Has
<1> HIDE DEF r
<1>4. consumers \in [MsgID -> Seq(Pid)]
  BY DEF Inv, TypeInv, RouterTypes
<1>5. ASSUME NEW p, NEW i \in MsgID
      PROVE  Contains(consumers'[i], p) <=> Contains(consumers[i], p) /\ ~ (p = r.pid /\ i = r.id)
  <2>1. CASE r.id \in miibList /\ consumers' = [consumers EXCEPT ![r.id] = Without(@, r.pid)]
    <3>1. CASE i = r.id
      <4>1. consumers'[i] = Without(consumers[i], r.pid)
        BY <1>4, <2>1, <3>1
      <4> QED BY <1>2, <3>1, <4>1, WithoutKeeps
    <3>2. CASE i # r.id
      BY <1>4, <2>1, <3>2
    <3> QED BY <3>1, <3>2
  <2>2. CASE (~ Has(r.pid, pibList) \/ r.id \notin miibList) /\ UNCHANGED consumers
    <3>1. i = r.id => ~ Contains(consumers[i], r.pid)
      <4>1. i \notin miibList => ~ Contains(consumers[i], r.pid)
        <5> SUFFICES ASSUME i \notin miibList PROVE ~ Contains(consumers[i], r.pid)
          OBVIOUS
        <5>1. consumers[i] = <<>>
          BY <1>2
        <5>2. Len(consumers[i]) = 0
          BY <5>1
        <5> QED BY <5>2 DEF Contains
      <4> QED BY <1>2, <2>2, <4>1
    <3> QED BY <2>2, <3>1
  <2> QED BY <1>3, <2>1, <2>2
<1>6. \A p : Does(r, p, Has(p, pibList), Has(p, pibList'), Listed(p),
                  {i \in MsgID : Contains(consumers'[i], p)})
  BY <1>1, <1>2, <1>5, RequestIs DEF Does, Listed
<1>7. \A b \in pibList' : b \in pibList
  BY <1>1
<1> QED BY <1>1, <1>6, <1>7, HandleView DEF r

(* At first nobody runs, and nothing is asked. *)
LEMMA ViewInit == Init => ViewInv
<1> SUFFICES ASSUME Init PROVE ViewInv
  OBVIOUS
<1>1. /\ pid = [c \in Client |-> NoPid] /\ births = 0 /\ pc = [c \in Client |-> "down"]
      /\ requests = <<>> /\ pibList = {} /\ wanted = [c \in Client |-> {}]
  BY DEF Init
<1>2. Len(requests) = 0 /\ NoPid = 0
  BY <1>1 DEF NoPid
<1>3. PidsOK
  BY <1>1, <1>2 DEF PidsOK
<1> QED BY <1>1, <1>3 DEF ViewInv, WritingOK, OutsideOK, WishesOK

(* Every step keeps the invariant. *)
LEMMA ViewStep == Inv /\ ViewInv /\ [Next]_vars => ViewInv'
<1> SUFFICES ASSUME Inv, ViewInv, [Next]_vars PROVE ViewInv'
  OBVIOUS
<1>1. CASE Router \/ RouterFails
  <2>1. ASSUME NEW fails, MsgIDIsRegistered(fails) PROVE ViewInv'
    BY <2>1, QuietView DEF MsgIDIsRegistered, routerVars
  <2>2. CASE RouteMsg
    BY <2>2, QuietView DEF RouteMsg
  <2>3. ASSUME NEW fails, SendToClient(fails) PROVE ViewInv'
    BY <2>3, ViewFrame DEF SendToClient, progVars
  <2> QED BY <1>1, <2>1, <2>2, <2>3, RegisterView, DeregisterView, EnableView, DisableView
         DEF Router, RouterFails
<1>2. ASSUME NEW c \in Client, Program(c) \/ Advance(c) \/ sendFails(c) \/ Start(c) \/ Crash(c)
      PROVE  ViewInv'
  <2>1. CASE waitForRouterAck(c) \/ waitForRouterAnswer(c)
    <3>1. Take(c)
      BY <2>1 DEF waitForRouterAck, waitForRouterAnswer, WaitFor
    <3>2. CASE waitForRouterAck(c)
      <4>1. PICK point \in {"in", "out", "wait_ack"} : pc' = [pc EXCEPT ![c] = point]
        BY <3>2 DEF waitForRouterAck, WaitFor, GoTo
      <4>2. pc[c] = "wait_ack"
        BY <3>2 DEF waitForRouterAck, WaitFor
      <4> QED BY <3>1, <4>1, <4>2, ReadView
    <3>3. CASE waitForRouterAnswer(c)
      <4>1. PICK point \in {"in", "wait_answer"} : pc' = [pc EXCEPT ![c] = point]
        BY <3>3 DEF waitForRouterAnswer, WaitFor, GoTo
      <4>2. pc[c] = "wait_answer"
        BY <3>3 DEF waitForRouterAnswer, WaitFor
      <4> QED BY <3>1, <4>1, <4>2, ReadView
    <3> QED BY <2>1, <3>2, <3>3
  <2>2. CASE Receive(c)
    <3>1. Take(c) /\ pc[c] \in {"in", "out"}
      BY <2>2 DEF Receive
    <3>2. pc' = [pc EXCEPT ![c] = pc[c]]
      BY <2>2 DEF Receive, Inv, TypeInv, ProgTypes
    <3> QED BY <3>1, <3>2, ReadView
  <2> QED BY <1>2, <2>1, <2>2, SendView, FailView, ProgramView, StartView, CrashView DEF Advance
<1>3. CASE UNCHANGED vars
  BY <1>3, ViewFrame DEF vars, progVars, routerVars
<1> QED BY <1>1, <1>2, <1>3 DEF Next

(* Programs and router agree: once the requests in its queue are worked    *)
(* off, the router lists a registered program for exactly the message IDs  *)
(* it asked for and did not cancel - although a call to the router waits   *)
(* for no answer, and whatever timed out, died, restarted or was reported  *)
(* dead by others meanwhile; for any number of programs and message IDs    *)
(* and any length of queues.                                               *)
THEOREM ViewsNeverPart == Spec => []ViewsAgree
<1>1. Inv /\ ViewInv => ViewsAgree
  <2> SUFFICES ASSUME Inv, ViewInv, NEW c \in Client, Told(c), ~ TurnedAway(c)
               PROVE  wanted[c] = {i \in MsgID : Subscribed(pid[c], i, Len(requests))}
    BY DEF ViewsAgree
  <2> DEFINE p == pid[c]
  <2>1. p # NoPid
    <3>1. pc[c] # "down"
      BY DEF Told
    <3> QED BY <3>1, PidIs DEF Inv
  <2>2. PICK e \in BOOLEAN, H \in SUBSET MsgID : Believes(c, e, H)
    BY <2>1 DEF ViewInv, WishesOK
  <2>3. ~ Away(p)
    BY DEF TurnedAway, Away, Registered, getPIBByPID, Has
  <2>4. H = Listed(p) /\ wanted[c] = {i \in MsgID : SubscribedIn(p, i, H, requests, Len(requests))}
    BY <2>2, <2>3 DEF Believes, ViewIs
  <2>5. ASSUME NEW i \in MsgID
        PROVE  SubscribedIn(p, i, H, requests, Len(requests)) <=> Subscribed(p, i, Len(requests))
    <3>0. i \in H <=> Contains(consumers[i], p)
      BY <2>4 DEF Listed
    <3>1. Len(requests) \in Nat /\ \A k \in 1 .. Len(requests) : requests[k] \in Request
      BY RequestsAre DEF Inv
    <3>2. \A k \in 1 .. Len(requests) :
            /\ requests[k] \in Asking(p, i) <=> Asks(requests[k], p, i)
            /\ requests[k] \in Cancelling(p, i) <=> Cancels(requests[k], p, i)
      BY <3>1 DEF Asking, Cancelling
    <3> HIDE DEF p
    <3>3. \A k \in 0 .. Len(requests) :
            (\A l \in k + 1 .. Len(requests) : requests[l] \notin Cancelling(p, i))
              <=> (\A l \in k + 1 .. Len(requests) : ~ Cancels(requests[l], p, i))
      <4>1. \A k \in 0 .. Len(requests) : \A l \in k + 1 .. Len(requests) : l \in 1 .. Len(requests)
        BY <3>1
      <4> QED BY <3>2, <4>1
    <3>4. 0 \in 0 .. Len(requests) /\ 0 + 1 = 1
          /\ \A k \in 1 .. Len(requests) : k \in 0 .. Len(requests)
      BY <3>1
    <3> QED BY <3>0, <3>2, <3>3, <3>4 DEF SubscribedIn, Subscribed, Net
  <2> QED BY <2>4, <2>5
<1>2. Init => Inv /\ ViewInv
  BY InvInit, ViewInit
<1>3. (Inv /\ ViewInv) /\ [Next]_vars => (Inv /\ ViewInv)'
  BY InvStep, ViewStep
<1> QED BY <1>1, <1>2, <1>3, PTL DEF Spec
=============================================================================
