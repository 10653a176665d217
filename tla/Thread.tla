------------------------------- MODULE Thread -------------------------------
(***************************************************************************)
(* A parent and a thread of it (src/radthread.c): two lists of messages,   *)
(* each with a mutex and a condition, and a flag that asks the thread to   *)
(* end.  Messages are copied into system buffers on both sides.  A wait on *)
(* a condition ends when the condition is signalled, or by itself, as      *)
(* POSIX allows; the code does not look at its list again.                 *)
(***************************************************************************)
EXTENDS Integers, Sequences, FiniteSetsExt

CONSTANTS
  Buffers,     \* system buffers there are
  MaxMessages, \* messages sent in each direction, at most
  Receives     \* do a program's receives block (TRUE) or not?

ASSUME ThreadAssumption == Buffers \in Nat /\ MaxMessages \in Nat /\ Receives \subseteq BOOLEAN

(* Each of the two sends on one list and receives from the other. *)
Actor == {"parent", "thread"}
Peer(a) == IF a = "parent" THEN "thread" ELSE "parent"

VARIABLES
  blocking,  \* the receives of this program block
  inbox,     \* ToThreadQueue and ToParentQueue, by the receiver: numbers of messages
  sent,      \* how many messages each has sent
  received,  \* the last message each has received
  unused,    \* free system buffers
  doing,     \* where each of the two is
  woken,     \* the condition each waits for was signalled
  exitFlag   \* threadId->exitFlag

threadVars == <<blocking, inbox, sent, received, unused, doing, woken, exitFlag>>

ThreadInit ==
  /\ blocking \in Receives
  /\ inbox = [a \in Actor |-> <<>>]
  /\ sent = [a \in Actor |-> 0] /\ received = [a \in Actor |-> 0]
  /\ unused = Buffers
  /\ doing = [a \in Actor |-> "runs"]
  /\ woken = [a \in Actor |-> FALSE]
  /\ exitFlag = FALSE

Does(a, from, to) ==
  /\ doing[a] = from
  /\ doing' = [doing EXCEPT ![a] = to]

(* pthread_cond_broadcast: nothing, when nobody waits. *)
Broadcast(a) == woken' = [woken EXCEPT ![a] = doing[a] = "waits"]

(* Mutant: the mutex is not held until the wait begins. *)
NeverHeld(a) == TRUE

(* The receiver holds the mutex of its list from the look into the list to *)
(* the wait.                                                               *)
ListFree(a) == doing[a] # "found empty"

(* radthreadSendToThread and radthreadSendToParent: the buffer, then the   *)
(* list under its mutex.  Without a buffer they answer ERROR.              *)
GetNode(a) ==
  /\ unused > 0 /\ sent[a] < MaxMessages
  /\ Does(a, "runs", "sends")
  /\ unused' = unused - 1
  /\ UNCHANGED <<blocking, inbox, sent, received, woken, exitFlag>>

Send(a) ==
  /\ ListFree(Peer(a))
  /\ Does(a, "sends", "runs")
  /\ sent' = [sent EXCEPT ![a] = @ + 1]
  /\ inbox' = [inbox EXCEPT ![Peer(a)] = Append(@, sent'[a])]
  /\ Broadcast(Peer(a))
  /\ UNCHANGED <<blocking, received, unused, exitFlag>>

(* radthreadReceiveFromThread and radthreadReceiveFromParent.  The look at *)
(* the list: the first node is taken; a program whose receives do not      *)
(* block is told that there is none.                                       *)
Take(a, from) ==
  /\ inbox[a] # <<>>
  /\ Does(a, from, "copies")
  /\ inbox' = [inbox EXCEPT ![a] = Tail(@)]
  /\ received' = [received EXCEPT ![a] = Head(inbox[a])]

Receive(a) ==
  /\ Take(a, "runs")
  /\ UNCHANGED <<blocking, sent, unused, woken, exitFlag>>

FindEmpty(a) ==
  /\ inbox[a] = <<>> /\ blocking
  /\ Does(a, "runs", "found empty")
  /\ UNCHANGED <<blocking, inbox, sent, received, unused, woken, exitFlag>>

Wait(a) ==
  /\ Does(a, "found empty", "waits")
  /\ woken' = [woken EXCEPT ![a] = FALSE]
  /\ UNCHANGED <<blocking, inbox, sent, received, unused, exitFlag>>

(* Awake, it goes on with the first node, and reads from address 0 if      *)
(* there is none.                                                          *)
GoOn(a) ==
  /\ \/ Take(a, "waits")
     \/ inbox[a] = <<>> /\ Does(a, "waits", "crashed") /\ UNCHANGED <<inbox, received>>
  /\ UNCHANGED <<blocking, sent, unused, woken, exitFlag>>

Wake(a) == woken[a] /\ GoOn(a)

WakeUnsignalled(a) == ~ woken[a] /\ GoOn(a)

(* The data are copied into a buffer of their own, which the program uses  *)
(* and releases; without one the answer is ERROR.  The node is released.   *)
Copy(a) ==
  /\ Does(a, "copies", IF unused > 0 THEN "uses" ELSE "runs")
  /\ unused' = IF unused > 0 THEN unused ELSE unused + 1
  /\ UNCHANGED <<blocking, inbox, sent, received, woken, exitFlag>>

Use(a) ==
  /\ Does(a, "uses", "runs")
  /\ unused' = unused + 1
  /\ UNCHANGED <<blocking, inbox, sent, received, woken, exitFlag>>

(* Mutant: the waiting thread is woken, but not asked to end. *)
OnlyWakes ==
  /\ Does("parent", "runs", "joins")
  /\ Broadcast("thread")
  /\ UNCHANGED <<blocking, inbox, sent, received, unused, exitFlag>>

(* radthreadShouldExit, after which the thread's function returns. *)
radthreadShouldExit ==
  /\ exitFlag
  /\ Does("thread", "runs", "ended")
  /\ UNCHANGED <<blocking, inbox, sent, received, unused, woken, exitFlag>>

(* radthreadWaitExit: the broadcast is not under the mutex the thread      *)
(* waits with.                                                             *)
radthreadWaitExit ==
  /\ Does("parent", "runs", "joins")
  /\ exitFlag' = TRUE
  /\ Broadcast("thread")
  /\ UNCHANGED <<blocking, inbox, sent, received, unused>>

(* The two lists are freed, and not what is on them.                       *)
Join ==
  /\ doing["thread"] = "ended"
  /\ Does("parent", "joins", "ended")
  /\ inbox' = [a \in Actor |-> <<>>]
  /\ UNCHANGED <<blocking, sent, received, unused, woken, exitFlag>>

ThreadStep ==
  \/ \E a \in Actor : Send(a) \/ Wait(a) \/ Wake(a) \/ Copy(a) \/ Use(a)
  \/ Join

ThreadCall ==
  \/ \E a \in Actor : GetNode(a) \/ Receive(a) \/ FindEmpty(a)
  \/ radthreadWaitExit

ThreadNext ==
  \/ ThreadStep \/ ThreadCall \/ radthreadShouldExit
  \/ \E a \in Actor : WakeUnsignalled(a)

ThreadSpec == ThreadInit /\ [][ThreadNext]_threadVars

-----------------------------------------------------------------------------
(* The buffers an actor holds for the library. *)
InHand(a) == IF doing[a] \in {"sends", "copies", "uses"} THEN 1 ELSE 0

(* No system buffer is lost between the two, whatever the receives do when *)
(* there is none left for the copy (radthread.c:161, 210), until the end   *)
(* of the thread: radthreadWaitExit frees the two lists, and               *)
(* the buffers of the messages nobody has received are never released.     *)
ThreadBuffers ==
  doing["parent"] # "ended" =>
    unused + Len(inbox["parent"]) + Len(inbox["thread"]) + InHand("parent") + InHand("thread") = Buffers

(* Who waits for a message in a blocking receive has been woken when there *)
(* is one, and finds one when it is woken, but for the one wake-up of      *)
(* radthreadWaitExit.  (radthreadReceiveFromThread and -FromParent do not  *)
(* look whether there is a first node: that wake-up, and a wait that ends  *)
(* without a signal, find none.)                                           *)
ThreadWakes ==
  \A a \in Actor :
    /\ doing[a] = "waits" /\ inbox[a] # <<>> => woken[a]
    /\ doing[a] = "waits" /\ inbox[a] = <<>> /\ woken[a] => exitFlag
    /\ doing[a] = "crashed" /\ woken[a] => exitFlag /\ blocking

(* radthreadWaitExit returns when the receives do not block and the thread *)
(* asks for the flag again and again.  A thread that blocks may be past    *)
(* the look at its list and not yet waiting when the condition is          *)
(* broadcast, and then sleeps for ever.                                    *)
JoinReturns == doing["parent"] = "joins" /\ ~ blocking ~> doing["parent"] = "ended"
=============================================================================
