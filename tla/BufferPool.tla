----------------------------- MODULE BufferPool -----------------------------
(***************************************************************************)
(* What the system buffer pool of radlib promises to the processes that    *)
(* share it (h/radbuffers.h): a buffer is either free or belongs to one    *)
(* process or is on its way to one through a message queue, and a request  *)
(* is served in one step by a best-fitting free buffer.  Locks, list       *)
(* pointers and the allocated flag are no part of the promise; module      *)
(* Buffers shows that the code implements it.                              *)
(***************************************************************************)
EXTENDS Integers

CONSTANTS
  Process,    \* the processes attached to the pool
  Buffer,     \* the buffers of the pool
  Request,    \* the size classes a process may ask for
  None,       \* no request
  SizeIndex   \* the size class of a buffer, 0 for the smallest

VARIABLES
  free,       \* the buffers nobody owns
  owned,      \* the buffers a process owns
  sent,       \* the buffers written to a queue and not yet read from it
  wanted      \* the request of a process that has not been served yet

vars == <<free, owned, sent, wanted>>

Init ==
  /\ free = Buffer
  /\ owned = [p \in Process |-> {}]
  /\ sent = {}
  /\ wanted = [p \in Process |-> None]

Fitting(n) == {b \in free : SizeIndex[b] >= n}

Ask(p) ==
  /\ wanted[p] = None
  /\ \E n \in Request : wanted' = [wanted EXCEPT ![p] = n]
  /\ UNCHANGED <<free, owned, sent>>

(* A request is served by one of the smallest free buffers that fit. *)
Get(p) ==
  /\ wanted[p] # None
  /\ \E b \in Fitting(wanted[p]) :
       /\ \A c \in Fitting(wanted[p]) : SizeIndex[b] <= SizeIndex[c]
       /\ free' = free \ {b}
       /\ owned' = [owned EXCEPT ![p] = @ \cup {b}]
  /\ wanted' = [wanted EXCEPT ![p] = None]
  /\ UNCHANGED sent

(* It is refused only when no free buffer fits. *)
Refuse(p) ==
  /\ wanted[p] # None
  /\ Fitting(wanted[p]) = {}
  /\ wanted' = [wanted EXCEPT ![p] = None]
  /\ UNCHANGED <<free, owned, sent>>

Release(p) ==
  /\ wanted[p] = None
  /\ \E b \in owned[p] : /\ owned' = [owned EXCEPT ![p] = @ \ {b}]
                         /\ free' = free \cup {b}
  /\ UNCHANGED <<sent, wanted>>

Send(p) ==
  /\ wanted[p] = None
  /\ \E b \in owned[p] : /\ owned' = [owned EXCEPT ![p] = @ \ {b}]
                         /\ sent' = sent \cup {b}
  /\ UNCHANGED <<free, wanted>>

Receive(p) ==
  /\ wanted[p] = None
  /\ \E b \in sent : /\ sent' = sent \ {b}
                     /\ owned' = [owned EXCEPT ![p] = @ \cup {b}]
  /\ UNCHANGED <<free, wanted>>

(* A process that dies takes the buffers it owns with it. *)
Die(p) ==
  /\ owned' = [owned EXCEPT ![p] = {}]
  /\ wanted' = [wanted EXCEPT ![p] = None]
  /\ UNCHANGED <<free, sent>>

Next == \E p \in Process :
          \/ Ask(p) \/ Get(p) \/ Refuse(p)
          \/ Release(p) \/ Send(p) \/ Receive(p) \/ Die(p)

Spec == Init /\ [][Next]_vars
=============================================================================
