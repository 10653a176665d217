------------------------------- MODULE Sockets -------------------------------
(***************************************************************************)
(* The TCP sockets (src/radsocket.c) of a server and a client program, and *)
(* the UDP socket (src/radUDPsocket.c) of a program.  A stream is a        *)
(* sequence of bytes the kernel takes and hands out in pieces; a read or a *)
(* write may end early, by a signal or because the other end is gone.      *)
(***************************************************************************)
EXTENDS Integers, Sequences, SequencesExt, FiniteSets

CONSTANTS
  Address,        \* the addresses a host name has, in the order of getaddrinfo
  Length,         \* bytes of a message
  MaxMessagesOut, \* messages written on a connection, at most
  MaxSocketFaults,\* calls of the system that fail or are interrupted, at most
  Group           \* multicast groups

ASSUME SocketsAssumption == Length \in Nat \ {0} /\ Address \in Seq(STRING)

Program == {"server", "client"}
Role == {"listener", "accepted", "client", "datagram"}
NoFd == 0
Descriptor == 1 .. 4

VARIABLES
  fds,      \* descriptors that are open
  object,   \* the sockets programs have: their descriptors
  creating, \* per program: the socket in creation, with the addresses to try
  records,  \* DNS work area and records the client has taken from the buffers
  stream,   \* the connection: its ends that are open, and bytes under way
  writing,  \* the write in progress: the message and how much was written
  reading,  \* the read in progress, and what it has
  written,  \* history: bytes the kernel took, on this connection
  answered, \* history: messages whose write answered OK
  heard,    \* history: bytes that reads have answered, and is none lost
  datagram, \* the UDP socket: bound, member of groups, datagrams to receive
  troubles  \* what is left of MaxSocketFaults

socketVars == <<fds, object, creating, records, stream, writing, reading, written,
                answered, heard, datagram, troubles>>
streamVars == <<writing, reading, written, answered, heard>>

NoCreation == [step |-> "none", fd |-> NoFd, left |-> <<>>]
NoStream == [state |-> "none", ends |-> {}, wire |-> <<>>]
NoDatagrams == [bound |-> FALSE, broadcast |-> FALSE, groups |-> {}, queue |-> <<>>]
NoWrite == [message |-> 0, done |-> 0]
NoRead == [on |-> FALSE, got |-> <<>>]

SocketInit ==
  /\ fds = {} /\ object = [r \in Role |-> NoFd]
  /\ creating = [p \in Program |-> NoCreation]
  /\ records = 0
  /\ stream = NoStream
  /\ writing = NoWrite /\ reading = NoRead
  /\ written = <<>> /\ answered = {} /\ heard = [bytes |-> <<>>, whole |-> TRUE]
  /\ datagram = NoDatagrams
  /\ troubles = MaxSocketFaults

Trouble == troubles > 0 /\ troubles' = troubles - 1
NotCreating(p) == creating[p].step = "none"

(* socket or accept: the lowest descriptor that is free. *)
Opens(p, step, left) ==
  LET fd == CHOOSE d \in Descriptor \ fds : \A e \in Descriptor \ fds : d <= e
  IN  /\ fds' = fds \cup {fd}
      /\ creating' = [creating EXCEPT ![p] = [step |-> step, fd |-> fd, left |-> left]]

(* The object goes to the caller. *)
Created(p, role) ==
  /\ object' = [object EXCEPT ![role] = creating[p].fd]
  /\ creating' = [creating EXCEPT ![p] = NoCreation]

(* Mutant: the descriptor stays open. *)
AbandonedOpen(p, next) ==
  /\ creating' = [creating EXCEPT ![p] = next]
  /\ UNCHANGED fds

(* close and free on the way out of a failure. *)
Abandoned(p, next) ==
  /\ fds' = fds \ {creating[p].fd}
  /\ creating' = [creating EXCEPT ![p] = next]

(* What is left of a connection that an end leaves; without ends it is     *)
(* gone, with what was under way, unless it waits in the backlog.          *)
LeftBy(end) ==
  IF stream.state = "up" /\ stream.ends = {end} THEN NoStream ELSE [stream EXCEPT !.ends = @ \ {end}]

-----------------------------------------------------------------------------
(* radSocketServerCreate: a socket, that has to be bound and to listen.    *)
radSocketServerCreate ==
  /\ NotCreating("server") /\ object["listener"] = NoFd /\ object["datagram"] = NoFd
  /\ Opens("server", "bind", <<>>)
  /\ UNCHANGED <<object, records, stream, streamVars, datagram, troubles>>

Listening ==
  /\ creating["server"].step = "bind"
  /\ Created("server", "listener")
  /\ UNCHANGED <<fds, records, stream, streamVars, datagram, troubles>>

ServerCreateFails ==
  /\ creating["server"].step \in {"bind", "reuse"}
  /\ Trouble
  /\ Abandoned("server", NoCreation)
  /\ UNCHANGED <<object, records, stream, streamVars, datagram>>

(* radSocketServerAcceptConnection takes the connection that waits. *)
radSocketServerAcceptConnection ==
  /\ NotCreating("server") /\ object["listener"] # NoFd /\ object["accepted"] = NoFd
  /\ stream.state = "pending"
  /\ Opens("server", "nodelay", <<>>)
  /\ stream' = [stream EXCEPT !.state = "up", !.ends = @ \cup {"accepted"}]
  /\ UNCHANGED <<object, records, streamVars, datagram, troubles>>

Accepted ==
  /\ creating["server"].step = "nodelay"
  /\ Created("server", "accepted")
  /\ UNCHANGED <<fds, records, stream, streamVars, datagram, troubles>>

AcceptFails ==
  /\ creating["server"].step = "nodelay"
  /\ Trouble
  /\ Abandoned("server", NoCreation)
  /\ stream' = LeftBy("accepted")
  /\ UNCHANGED <<object, records, streamVars, datagram>>

-----------------------------------------------------------------------------
(* dnsStart: the addresses of the name as records; less of them, when the  *)
(* buffers run out.                                                        *)
radSocketClientCreateAny ==
  /\ NotCreating("client") /\ object["client"] = NoFd /\ object["datagram"] = NoFd
  /\ \E n \in 0 .. Len(Address) :
       /\ IF n = Len(Address) THEN UNCHANGED troubles ELSE Trouble
       /\ records' = 1 + n
       /\ creating' = [creating EXCEPT !["client"] =
                         [step |-> "next", fd |-> NoFd, left |-> SubSeq(Address, 1, n)]]
  /\ UNCHANGED <<fds, object, stream, streamVars, datagram>>

(* dnsGetRecord, and radSocketClientCreate for its address. *)
radSocketClientCreate ==
  /\ creating["client"].step = "next" /\ creating["client"].left # <<>>
  /\ Opens("client", "connect", Tail(creating["client"].left))
  /\ UNCHANGED <<object, records, stream, streamVars, datagram, troubles>>

(* No address is left: dnsEnd, and NULL. *)
NoServer ==
  /\ creating["client"].step = "next" /\ creating["client"].left = <<>>
  /\ records' = 0
  /\ creating' = [creating EXCEPT !["client"] = NoCreation]
  /\ UNCHANGED <<fds, object, stream, streamVars, datagram, troubles>>

(* connect, at once or seen by select: the kernel of the server puts the   *)
(* connection into the backlog.                                            *)
Connects ==
  /\ creating["client"].step = "connect"
  /\ object["listener"] # NoFd /\ stream = NoStream
  /\ stream' = [state |-> "pending", ends |-> {"client"}, wire |-> <<>>]
  /\ creating' = [creating EXCEPT !["client"].step = "options"]
  /\ written' = <<>> /\ answered' = {} /\ heard' = [bytes |-> <<>>, whole |-> TRUE]
  /\ UNCHANGED <<fds, object, records, writing, reading, datagram, troubles>>

NextAddress == [creating["client"] EXCEPT !.step = "next", !.fd = NoFd]

(* Refused, no answer within 3 s, or an error select or getsockopt tells;  *)
(* the caller goes on with the next address.                               *)
ConnectError ==
  /\ creating["client"].step = "connect"
  /\ IF object["listener"] = NoFd THEN UNCHANGED troubles ELSE Trouble
  /\ Abandoned("client", NextAddress)
  /\ UNCHANGED <<object, records, stream, streamVars, datagram>>

(* An option cannot be set: the connection is shut down. *)
OptionsFail ==
  /\ creating["client"].step = "options"
  /\ Trouble
  /\ Abandoned("client", NextAddress)
  /\ stream' = LeftBy("client")
  /\ UNCHANGED <<object, records, streamVars, datagram>>

(* radSocketClientCreate answers a socket: dnsEnd. *)
ClientCreated ==
  /\ creating["client"].step = "options"
  /\ Created("client", "client")
  /\ records' = 0
  /\ UNCHANGED <<fds, stream, streamVars, datagram, troubles>>

(* radSocketDestroy, by a program that is not reading or writing. *)
radSocketDestroy(role) ==
  /\ object[role] # NoFd
  /\ role = "client" => writing = NoWrite
  /\ role = "accepted" => reading = NoRead
  /\ fds' = fds \ {object[role]}
  /\ object' = [object EXCEPT ![role] = NoFd]
  /\ stream' = IF role # "listener" THEN LeftBy(role)
               ELSE IF stream.state = "pending" THEN NoStream ELSE stream
  /\ UNCHANGED <<creating, records, streamVars, datagram, troubles>>

-----------------------------------------------------------------------------
Byte(m, i) == <<m, i>>

(* radSocketWriteExact of the next message. *)
radSocketWriteExact ==
  /\ object["client"] # NoFd /\ writing = NoWrite
  /\ \E m \in 1 .. MaxMessagesOut :
       /\ \A b \in Range(written) : b[1] < m
       /\ writing' = [message |-> m, done |-> 0]
  /\ UNCHANGED <<fds, object, creating, records, stream, reading, written, answered,
                 heard, datagram, troubles>>

(* Mutant: every write begins with the first byte of the message. *)
BytesFromStart(n) == [i \in 1 .. n |-> Byte(writing.message, i)]

(* What write is given: the bytes from bPtr + bytesWritten on. *)
Bytes(n) == [i \in 1 .. n |-> Byte(writing.message, writing.done + i)]

(* The kernel of the server takes bytes before the connection is accepted. *)
Writable == stream.state = "pending" \/ "accepted" \in stream.ends

WriteSome ==
  /\ writing # NoWrite
  /\ Writable
  /\ \E n \in 1 .. Length - writing.done :
       LET bytes == Bytes(n)
           done == writing.done + n
       IN  /\ stream' = [stream EXCEPT !.wire = @ \o bytes]
           /\ written' = written \o bytes
           /\ IF done = Length
              THEN /\ answered' = answered \cup {writing.message}
                   /\ writing' = NoWrite
              ELSE /\ writing' = [writing EXCEPT !.done = done]
                   /\ UNCHANGED answered
  /\ UNCHANGED <<fds, object, creating, records, reading, heard, datagram, troubles>>

(* write is interrupted, or the other end is gone: its result, whatever    *)
(* was written before.                                                     *)
WriteError ==
  /\ writing # NoWrite
  /\ IF Writable THEN Trouble ELSE UNCHANGED troubles
  /\ writing' = NoWrite
  /\ UNCHANGED <<fds, object, creating, records, stream, reading, written, answered,
                 heard, datagram>>

radSocketReadExact ==
  /\ object["accepted"] # NoFd /\ ~ reading.on
  /\ reading' = [on |-> TRUE, got |-> <<>>]
  /\ UNCHANGED <<fds, object, creating, records, stream, writing, written, answered,
                 heard, datagram, troubles>>

(* A read that answers gives its bytes to the caller. *)
Answers(bytes) ==
  /\ heard' = [heard EXCEPT !.bytes = @ \o bytes]
  /\ reading' = NoRead

ReadSome ==
  /\ reading.on
  /\ \E n \in 1 .. Length - Len(reading.got) :
       LET got == reading.got \o SubSeq(stream.wire, 1, n)
       IN  /\ n <= Len(stream.wire)
           /\ stream' = [stream EXCEPT !.wire = SubSeq(@, n + 1, Len(@))]
           /\ IF Len(got) = Length THEN Answers(got)
              ELSE reading' = [reading EXCEPT !.got = got] /\ UNCHANGED heard
  /\ UNCHANGED <<fds, object, creating, records, writing, written, answered, datagram, troubles>>

(* EINTR or EAGAIN, or the far end has closed: the bytes there are. *)
ReadShort ==
  /\ reading.on
  /\ IF stream.wire = <<>> /\ "client" \notin stream.ends THEN UNCHANGED troubles ELSE Trouble
  /\ Answers(reading.got)
  /\ UNCHANGED <<fds, object, creating, records, stream, writing, written, answered, datagram>>

(* Another error: the answer is ERROR, and the caller does not know of the *)
(* bytes that were read.                                                   *)
ReadError ==
  /\ reading.on
  /\ Trouble
  /\ heard' = [heard EXCEPT !.whole = @ /\ reading.got = <<>>]
  /\ reading' = NoRead
  /\ UNCHANGED <<fds, object, creating, records, stream, writing, written, answered, datagram>>

-----------------------------------------------------------------------------
(* radUDPSocketCreate; a program uses it or the sockets above. *)
radUDPSocketCreate ==
  /\ object = [r \in Role |-> NoFd] /\ \A p \in Program : NotCreating(p)
  /\ Opens("server", "reuse", <<>>)
  /\ UNCHANGED <<object, records, stream, streamVars, datagram, troubles>>

(* The default conditions; that one of them fails is not told. *)
UDPCreated ==
  /\ creating["server"].step = "reuse"
  /\ Created("server", "datagram")
  /\ datagram' = NoDatagrams
  /\ UNCHANGED <<fds, records, stream, streamVars, troubles>>

UDPOnly == UNCHANGED <<fds, object, creating, records, stream, streamVars, troubles>>

radUDPSocketDestroy ==
  /\ object["datagram"] # NoFd
  /\ fds' = fds \ {object["datagram"]}
  /\ object' = [object EXCEPT !["datagram"] = NoFd]
  /\ datagram' = NoDatagrams
  /\ UNCHANGED <<creating, records, stream, streamVars, troubles>>

radUDPSocketBind ==
  /\ object["datagram"] # NoFd /\ ~ datagram.bound
  /\ datagram' = [datagram EXCEPT !.bound = TRUE]
  /\ UDPOnly

radUDPSocketSetBroadcast(enable) ==
  /\ object["datagram"] # NoFd
  /\ datagram' = [datagram EXCEPT !.broadcast = enable]
  /\ UDPOnly

(* The kernel takes a membership once; a second is an error. *)
radUDPSocketAddMulticastMembership(group) ==
  /\ object["datagram"] # NoFd /\ group \notin datagram.groups
  /\ datagram' = [datagram EXCEPT !.groups = @ \cup {group}]
  /\ UDPOnly

radUDPSocketDropMulticastMembership(group) ==
  /\ object["datagram"] # NoFd /\ group \in datagram.groups
  /\ datagram' = [datagram EXCEPT !.groups = @ \ {group}]
  /\ UDPOnly

(* radUDPSocketSendTo of another program, to the port of the socket or to  *)
(* a group; the kernel of the receiver drops what nobody is bound for.     *)
radUDPSocketSendTo(to, length) ==
  /\ datagram.bound /\ Len(datagram.queue) < 1
  /\ to = "port" \/ to \in datagram.groups
  /\ datagram' = [datagram EXCEPT !.queue = Append(@, length)]
  /\ UDPOnly

(* radUDPSocketRecvFrom: one datagram, cut to maxToRead; without one       *)
(* (MSG_DONTWAIT) ERROR, which changes nothing.                            *)
radUDPSocketRecvFrom ==
  /\ object["datagram"] # NoFd /\ datagram.queue # <<>>
  /\ datagram' = [datagram EXCEPT !.queue = Tail(@)]
  /\ UDPOnly

-----------------------------------------------------------------------------
SocketNext ==
  \/ radSocketServerCreate \/ Listening \/ ServerCreateFails
  \/ radSocketServerAcceptConnection \/ Accepted \/ AcceptFails
  \/ radSocketClientCreateAny \/ radSocketClientCreate \/ NoServer
  \/ Connects \/ ConnectError \/ OptionsFail \/ ClientCreated
  \/ \E r \in Role \ {"datagram"} : radSocketDestroy(r)
  \/ radSocketWriteExact \/ WriteSome \/ WriteError
  \/ radSocketReadExact \/ ReadSome \/ ReadShort \/ ReadError
  \/ radUDPSocketCreate \/ UDPCreated \/ radUDPSocketDestroy \/ radUDPSocketBind
  \/ \E enable \in BOOLEAN : radUDPSocketSetBroadcast(enable)
  \/ \E g \in Group : radUDPSocketAddMulticastMembership(g) \/ radUDPSocketDropMulticastMembership(g)
  \/ \E to \in Group \cup {"port"}, n \in 1 .. Length : radUDPSocketSendTo(to, n)
  \/ radUDPSocketRecvFrom

SocketSpec == SocketInit /\ [][SocketNext]_socketVars

-----------------------------------------------------------------------------
(* No failure on the way to a socket keeps a descriptor or a DNS record:   *)
(* what is open belongs to a program's socket or to one in creation, each  *)
(* to one of them, and records are held within radSocketClientCreateAny    *)
(* only.                                                                   *)
DescriptorsAccounted ==
  LET users == {object[r] : r \in Role} \cup {creating[p].fd : p \in Program}
  IN  /\ fds = users \ {NoFd}
      /\ Cardinality({r \in Role : object[r] # NoFd})
           + Cardinality({p \in Program : creating[p].fd # NoFd}) = Cardinality(fds)
      /\ NotCreating("client") => records = 0

(* Pieces do not matter: a message whose write was answered OK is in the   *)
(* stream once, whole and without another in it, and what the reads        *)
(* answered, with what a read has and what is under way, is the stream,    *)
(* without gap or double, unless a read ended with ERROR or the stream is  *)
(* closed.                                                                 *)
StreamKept ==
  /\ \A m \in answered :
       \E i \in 0 .. Len(written) - Length :
         \A k \in 1 .. Len(written) :
           IF k \in i + 1 .. i + Length THEN written[k] = Byte(m, k - i) ELSE written[k][1] # m
  /\ heard.whole /\ stream # NoStream
       => heard.bytes \o reading.got \o stream.wire = written
=============================================================================
