---------------------------- MODULE RemoteRouters ----------------------------
(***************************************************************************)
(* Message routers that are linked (src/msgRouter/msgRouter.c): a router   *)
(* with a remote address connects to it, is connected back to, and then    *)
(* each tells the other what its clients have enabled and forwards what    *)
(* the other has.  One message ID is enough to say who gets what; for      *)
(* programs of its own a router works as in module MsgRouter.              *)
(***************************************************************************)
EXTENDS Integers, Sequences, FiniteSetsExt

CONSTANTS
  Router,     \* routers
  Remote,     \* the remote router of each, or NoRemote
  MaxLinks,   \* connections tried, at most
  Scenario    \* the routers that run at first, and how often at most a router
              \* crashes and is started, writes or a connection fail without a
              \* crash, local programs enable or disable, and send a message

NoRemote == "none"

ASSUME RemoteAssumption ==
  /\ Remote \in [Router -> Router \cup {NoRemote}]
  /\ \A r \in Router : Remote[r] # r
  /\ MaxLinks \in Nat
  /\ \A s \in Scenario : s.running \subseteq Router

Link == 1 .. MaxLinks

VARIABLES
  running,    \* routers that run
  links,      \* connections so far, with the initiator of each
  sock,       \* the two sockets of each: contents, and are both ends open
  pib,        \* per router: links it has a PIB for, and those with an rxclient
  consumers,  \* per router: the consumers of the message ID; none is no MIIB
  timer,      \* per router: does remoteConnectTimer run
  mute,       \* per router: the links that SendToRemote fails on at present
  delivered,  \* history: how often a router has given the message to a program,
              \* since it was started
  forgot,     \* history: routers that lost a connection without the timer
  missed,     \* history: per router, links whose last ENABLE could not be sent
  budget      \* what is left of the bounds

remoteVars == <<running, links, sock, pib, consumers, timer, mute, delivered, forgot, missed, budget>>

(* The sockets of a link: from the router that connects, and back to it.   *)
Socket == Link \X {"there", "back"}
Initiator(n) == links[n]
Acceptor(n) == Remote[links[n]]
Tx(r, n) == <<n, IF r = Initiator(n) THEN "there" ELSE "back">>
Rx(r, n) == <<n, IF r = Initiator(n) THEN "back" ELSE "there">>

Local == 0

Unopened == [data |-> <<>>, writer |-> FALSE, reader |-> FALSE]
Opened(data) == [data |-> data, writer |-> TRUE, reader |-> TRUE]

RemoteInit ==
  /\ \E s \in Scenario :
       /\ running = s.running
       /\ budget = [crashes |-> s.crashes, starts |-> s.starts, faults |-> s.faults,
                    changes |-> s.changes, data |-> s.data]
  /\ links = <<>>
  /\ sock = [s \in Socket |-> Unopened]
  /\ pib = [r \in Router |-> [known |-> {}, heard |-> {}]]
  /\ consumers = [r \in Router |-> {}]
  /\ timer = [r \in Router |-> r \in running /\ Remote[r] # NoRemote]
  /\ delivered = [r \in Router |-> 0]
  /\ mute = [r \in Router |-> {}]
  /\ forgot = {}
  /\ missed = [r \in Router |-> {}]

Spend(what) == budget[what] > 0 /\ budget' = [budget EXCEPT ![what] = @ - 1]

(* SendToRemote, to sockets on which it does not fail: still lost when the *)
(* reader is gone.                                                         *)
Write(socks, S, messages) ==
  [s \in Socket |-> IF s \in S /\ socks[s].reader THEN [socks[s] EXCEPT !.data = @ \o messages]
                    ELSE socks[s]]

(* radSocketDestroy of a router's ends. *)
Shut(socks, r, N) ==
  [s \in Socket |-> IF s[1] \notin N THEN socks[s]
                    ELSE IF s = Tx(r, s[1]) THEN [socks[s] EXCEPT !.writer = FALSE]
                    ELSE [socks[s] EXCEPT !.reader = FALSE]]

TxOf(r, N) == {Tx(r, n) : n \in N}

(* SendToRemote answers ERROR: there is no buffer, or a signal interrupts  *)
(* a write that waits.  Nothing of the message is written.                 *)
SendsFail(r) ==
  /\ r \in running
  /\ Spend("faults")
  /\ \E N \in SUBSET Link \ {{}} : mute' = [mute EXCEPT ![r] = N]
  /\ UNCHANGED <<running, links, sock, pib, consumers, timer, delivered, forgot, missed>>

(* There are buffers again. *)
SendsWork(r) ==
  /\ mute[r] # {}
  /\ mute' = [mute EXCEPT ![r] = {}]
  /\ UNCHANGED <<running, links, sock, pib, consumers, timer, delivered, forgot, missed, budget>>

(* RegisterRemoteMsgID with 0: the message IDs there are. *)
AllMsgIDs(r) == IF consumers[r] = {} THEN <<>> ELSE <<"ENABLE">>
CanRegister(r, n) == consumers[r] = {} \/ n \notin mute[r]

-----------------------------------------------------------------------------
(* connectTimerHandler: a socket to the remote router, REGISTER on it, and *)
(* a PIB without an rxclient.  Without a router there the timer is started *)
(* again.                                                                  *)
connectTimerHandler(r) ==
  /\ r \in running /\ timer[r]
  /\ Remote[r] \in running
  /\ Len(links) < MaxLinks
  /\ links' = Append(links, r)
  /\ LET n == Len(links) + 1
     IN  /\ sock' = [sock EXCEPT ![<<n, "there">>] = Opened(<<"REGISTER">>)]
         /\ pib' = [pib EXCEPT ![r].known = @ \cup {n}]
  /\ timer' = [timer EXCEPT ![r] = FALSE]
  /\ UNCHANGED <<running, consumers, mute, delivered, forgot, missed, budget>>

(* REGISTER cannot be written: the socket is destroyed, and nobody starts  *)
(* the timer again.                                                        *)
ConnectFails(r) ==
  /\ r \in running /\ timer[r]
  /\ Remote[r] \in running
  /\ Spend("faults")
  /\ timer' = [timer EXCEPT ![r] = FALSE]
  /\ forgot' = forgot \cup {r}
  /\ UNCHANGED <<running, links, sock, pib, consumers, mute, delivered, missed>>

First(s, message) == sock[s].data # <<>> /\ Head(sock[s].data) = message

(* ServerRXHandler with REGISTER: a socket back to the initiator, ACK and  *)
(* the message IDs on it, and a PIB.                                       *)
AcceptRegister(n) ==
  LET a == Acceptor(n)
      there == <<n, "there">>
      read == [sock EXCEPT ![there].data = Tail(@)]
  IN  /\ a \in running /\ sock[there].reader
      /\ First(there, "REGISTER")
      /\ Initiator(n) \in running /\ CanRegister(a, n)
      /\ sock' = [read EXCEPT ![<<n, "back">>] = Opened(<<"ACK">> \o AllMsgIDs(a))]
      /\ pib' = [pib EXCEPT ![a] = [known |-> @.known \cup {n}, heard |-> @.heard \cup {n}]]
      /\ UNCHANGED <<running, links, consumers, timer, mute, delivered, forgot, missed, budget>>

(* The initiator is not there, or cannot be connected to. *)
RouterAcceptFails(n) ==
  LET a == Acceptor(n)
      there == <<n, "there">>
  IN  /\ a \in running /\ sock[there].reader
      /\ First(there, "REGISTER")
      /\ IF Initiator(n) \in running THEN Spend("faults") ELSE UNCHANGED budget
      /\ sock' = [sock EXCEPT ![there].reader = FALSE, ![there].data = <<>>]
      /\ forgot' = forgot \cup {Initiator(n)}
      /\ UNCHANGED <<running, links, pib, consumers, timer, mute, delivered, missed>>

(* The message IDs cannot be sent behind the ACK: both sockets are         *)
(* destroyed.                                                              *)
RegisterFails(n) ==
  LET a == Acceptor(n)
      there == <<n, "there">>
      shut == [sock EXCEPT ![there].reader = FALSE, ![there].data = <<>>]
  IN  /\ a \in running /\ sock[there].reader
      /\ First(there, "REGISTER")
      /\ Initiator(n) \in running /\ ~ CanRegister(a, n)
      /\ sock' = [shut EXCEPT ![<<n, "back">>] = [Opened(<<"ACK">>) EXCEPT !.writer = FALSE]]
      /\ UNCHANGED <<running, links, pib, consumers, timer, mute, delivered, forgot, missed, budget>>

(* ServerRXHandler with ACK: the socket becomes the rxclient of the PIB it *)
(* names, and the message IDs are sent.                                    *)
AcceptAck(n) ==
  LET r == Initiator(n)
      back == <<n, "back">>
      read == [sock EXCEPT ![back].data = Tail(@)]
  IN  /\ r \in running /\ sock[back].reader
      /\ First(back, "ACK")
      /\ n \in pib[r].known /\ CanRegister(r, n)
      /\ sock' = Write(read, {<<n, "there">>}, AllMsgIDs(r))
      /\ pib' = [pib EXCEPT ![r].heard = @ \cup {n}]
      /\ missed' = [missed EXCEPT ![r] = @ \ {n}]
      /\ UNCHANGED <<running, links, consumers, timer, mute, delivered, forgot, budget>>

(* The ACK is for a router that died and was started again: the socketID   *)
(* in it is an address of the dead one, and no socket of a PIB is found by *)
(* it.  What is there may also end the router (RouterCrash).               *)
AckIsStale(n) ==
  LET r == Initiator(n)
      back == <<n, "back">>
  IN  /\ r \in running /\ sock[back].reader
      /\ First(back, "ACK")
      /\ n \notin pib[r].known
      /\ sock' = [sock EXCEPT ![back].reader = FALSE, ![back].data = <<>>]
      /\ UNCHANGED <<running, links, pib, consumers, timer, mute, delivered, forgot, missed, budget>>

(* The message IDs cannot be sent, and the PIB is removed: both sockets    *)
(* stay open, nobody reads, and nobody starts the timer.                   *)
AckFails(n) ==
  LET r == Initiator(n)
      back == <<n, "back">>
  IN  /\ r \in running /\ sock[back].reader
      /\ First(back, "ACK")
      /\ n \in pib[r].known
      /\ ~ CanRegister(r, n) \/ (consumers[r] # {} /\ ~ sock[<<n, "there">>].reader)
      /\ sock' = [sock EXCEPT ![back].data = Tail(@)]
      /\ pib' = [pib EXCEPT ![r].known = @ \ {n}]
      /\ forgot' = forgot \cup {r}
      /\ UNCHANGED <<running, links, consumers, timer, mute, delivered, missed, budget>>

-----------------------------------------------------------------------------
(* The links of a router that hear of what came from one of its consumers; *)
(* nobody notices those that SendToRemote fails on.                        *)
Peers(r, from) == pib[r].known \ {from}
Reached(r, N) == TxOf(r, N \ mute[r])

(* Mutant: the links hear of the first consumer only. *)
EnableFirst(r, from, socks) ==
  /\ consumers' = [consumers EXCEPT ![r] = @ \cup {from}]
  /\ sock' = IF consumers[r] # {} THEN socks
             ELSE Write(socks, Reached(r, Peers(r, from)), <<"ENABLE">>)
  /\ missed' = [missed EXCEPT ![r] = (@ \ Peers(r, from)) \cup (Peers(r, from) \cap mute[r])]
  /\ UNCHANGED delivered

(* QueueMsgHandler: ENABLE_MSGID from a consumer, local or a link, which   *)
(* is told to all other links.                                             *)
Enable(r, from, socks) ==
  /\ consumers' = [consumers EXCEPT ![r] = @ \cup {from}]
  /\ sock' = Write(socks, Reached(r, Peers(r, from)), <<"ENABLE">>)
  /\ missed' = [missed EXCEPT ![r] = (@ \ Peers(r, from)) \cup (Peers(r, from) \cap mute[r])]
  /\ UNCHANGED delivered

(* DISABLE_MSGID: the other links are told when no consumer is left. *)
Disable(r, from, socks) ==
  LET left == consumers[r] \ {from}
  IN  /\ consumers' = [consumers EXCEPT ![r] = left]
      /\ sock' = IF consumers[r] # {} /\ left = {}
                 THEN Write(socks, Reached(r, Peers(r, from)), <<"DISABLE">>) ELSE socks
      /\ UNCHANGED <<delivered, missed>>

(* Mutant: the link a message came on gets it too. *)
RouteToAll(r, from, socks) ==
  /\ delivered' = [delivered EXCEPT ![r] = IF Local \in consumers[r] THEN @ + 1 ELSE @]
  /\ sock' = Write(socks, Reached(r, consumers[r] \ {Local}), <<"DATA">>)
  /\ UNCHANGED <<consumers, missed>>

(* A message goes to all consumers but the link it came from. *)
Route(r, from, socks) ==
  /\ delivered' = [delivered EXCEPT ![r] = IF Local \in consumers[r] THEN @ + 1 ELSE @]
  /\ sock' = Write(socks, Reached(r, consumers[r] \ {Local, from}), <<"DATA">>)
  /\ UNCHANGED <<consumers, missed>>

LocalEnable(r) == r \in running /\ Local \notin consumers[r] /\ Spend("changes") /\ Enable(r, Local, sock)
LocalDisable(r) == r \in running /\ Local \in consumers[r] /\ Spend("changes") /\ Disable(r, Local, sock)
LocalData(r) == r \in running /\ Spend("data") /\ Route(r, Local, sock)

LocalMessage(r) ==
  (LocalEnable(r) \/ LocalDisable(r) \/ LocalData(r)) /\ UNCHANGED <<running, links, pib, timer, mute, forgot>>

(* ClientRXHandler: a whole message is handled. *)
ClientRX(r, n) ==
  LET s == Rx(r, n)
      read == [sock EXCEPT ![s].data = Tail(@)]
  IN  /\ n \in pib[r].heard
      /\ \/ First(s, "ENABLE") /\ Enable(r, n, read)
         \/ First(s, "DISABLE") /\ Disable(r, n, read)
         \/ First(s, "DATA") /\ Route(r, n, read)
      /\ UNCHANGED <<running, links, pib, timer, mute, forgot, budget>>

(* Mutant: the timer is not started. *)
GoneForGood(r, n) ==
  LET s == Rx(r, n)
  IN  /\ n \in pib[r].heard
      /\ sock[s].data = <<>> /\ ~ sock[s].writer
      /\ sock' = Shut(sock, r, {n})
      /\ pib' = [pib EXCEPT ![r] = [known |-> @.known \ {n}, heard |-> @.heard \ {n}]]
      /\ consumers' = [consumers EXCEPT ![r] = @ \ {n}]
      /\ UNCHANGED <<running, links, timer, mute, delivered, forgot, missed, budget>>

(* The end of the socket, at the header of a message or within one: the    *)
(* PIB is removed, without a word to the other links.  Only the first kind *)
(* starts the timer of the initiator again.                                *)
ClientGone(r, n) ==
  LET s == Rx(r, n)
      atHeader == sock[s].data = <<>> /\ ~ sock[s].writer
  IN  /\ n \in pib[r].heard
      /\ atHeader \/ First(s, "cut")
      /\ sock' = Shut(sock, r, {n})
      /\ pib' = [pib EXCEPT ![r] = [known |-> @.known \ {n}, heard |-> @.heard \ {n}]]
      /\ consumers' = [consumers EXCEPT ![r] = @ \ {n}]
      /\ timer' = [timer EXCEPT ![r] = @ \/ (atHeader /\ r = Initiator(n))]
      /\ forgot' = IF atHeader \/ r # Initiator(n) THEN forgot ELSE forgot \cup {r}
      /\ UNCHANGED <<running, links, mute, delivered, missed, budget>>

-----------------------------------------------------------------------------
(* Routers that wait for the ACK of one that dies: they wait for ever.     *)
Waiting(r) ==
  {q \in running \ {r} : \E n \in pib[q].known \ pib[q].heard :
      links[n] = q /\ Acceptor(n) = r /\ ~ First(<<n, "back">>, "ACK")}

(* A router dies, perhaps within a write to one link; the kernel closes    *)
(* its ends.                                                               *)
RouterCrash(r) ==
  /\ r \in running
  /\ Spend("crashes")
  /\ LET mine == {n \in DOMAIN links : r \in {Initiator(n), Acceptor(n)}}
         dead == Shut(sock, r, mine)
     IN  \E cut \in SUBSET TxOf(r, pib[r].known) :
           /\ Cardinality(cut) <= 1
           /\ sock' = Write(dead, cut, <<"cut">>)
  /\ running' = running \ {r}
  /\ pib' = [pib EXCEPT ![r] = [known |-> {}, heard |-> {}]]
  /\ consumers' = [consumers EXCEPT ![r] = {}]
  /\ timer' = [timer EXCEPT ![r] = FALSE]
  /\ forgot' = (forgot \ {r}) \cup Waiting(r)
  /\ delivered' = [delivered EXCEPT ![r] = 0]
  /\ mute' = [mute EXCEPT ![r] = {}]
  /\ UNCHANGED <<links, missed>>

(* A user starts it. *)
Restart(r) ==
  /\ r \notin running
  /\ Spend("starts")
  /\ running' = running \cup {r}
  /\ timer' = [timer EXCEPT ![r] = Remote[r] # NoRemote]
  /\ UNCHANGED <<links, sock, pib, consumers, mute, delivered, forgot, missed>>

RemoteStep ==
  \/ \E r \in Router : connectTimerHandler(r) \/ \E n \in DOMAIN links : ClientRX(r, n) \/ ClientGone(r, n)
  \/ \E n \in DOMAIN links : \/ AcceptRegister(n) \/ RegisterFails(n)
                            \/ AcceptAck(n) \/ AckFails(n) \/ AckIsStale(n)

RemoteFault ==
  \/ \E r \in Router : \/ ConnectFails(r) \/ SendsFail(r) \/ SendsWork(r)
                      \/ RouterCrash(r) \/ Restart(r)
  \/ \E n \in DOMAIN links : RouterAcceptFails(n)

RemoteNext == RemoteStep \/ RemoteFault \/ \E r \in Router : LocalMessage(r)

RemoteSpec == RemoteInit /\ [][RemoteNext]_remoteVars

-----------------------------------------------------------------------------
UpAt(r, n) == n \in pib[r].heard

(* A link both ends have and that carries no news of subscriptions: each   *)
(* router is a consumer of the other whenever it has a consumer besides    *)
(* the other, whatever was enabled, disabled and restarted before, also at *)
(* routers further away.  The one way out is an ENABLE that could not be   *)
(* sent: the result is ignored, and nothing is sent again before somebody  *)
(* enables.                                                                *)
LinkServes ==
  \A n \in DOMAIN links : \A r \in {Initiator(n), Acceptor(n)} :
    LET peer == IF r = Initiator(n) THEN Acceptor(n) ELSE Initiator(n)
    IN  /\ UpAt(r, n) /\ UpAt(peer, n)
        /\ \A k \in DOMAIN sock[Tx(r, n)].data : sock[Tx(r, n)].data[k] \notin {"ENABLE", "DISABLE"}
        /\ consumers[r] \ {n} # {} /\ n \notin missed[r]
        => n \in consumers[peer]

(* A message reaches no router twice, and does not return to the one that  *)
(* sent it, whatever subscriptions come and go on its way.  So it is where *)
(* the links form no circle and no router dies, or one of two dies; a      *)
(* router between two others that dies and is started again at once may    *)
(* get back from the one what it had forwarded from the other.             *)
DeliveredOnce == \A r \in Router : delivered[r] <= 1 - budget.data

(* A router that runs and whose remote router runs gets a link, unless a   *)
(* connection fails or ends in one of the ways that forget the timer.      *)
LinkUp(r) == \E n \in pib[r].heard : links[n] = r
LinkReturns ==
  \A r \in Router : Remote[r] # NoRemote =>
    (r \in running /\ Remote[r] \in running
       ~> LinkUp(r) \/ r \in forgot \/ Len(links) = MaxLinks
            \/ r \notin running \/ Remote[r] \notin running)
=============================================================================
