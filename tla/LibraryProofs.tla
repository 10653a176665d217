--------------------------- MODULE LibraryProofs ---------------------------
(***************************************************************************)
(* Theorems about four parts of the library that have nothing to do with   *)
(* each other: sockets (module Sockets), for messages of any length and    *)
(* any number of addresses, configuration files (module ConfFile), for any *)
(* number of handles, entries and lines, lists, sorted lists and stacks    *)
(* (module Lists), for any number of nodes and any keys, and the result    *)
(* sets of the database plug-ins (module Database), for any number of      *)
(* connections and result sets, all plug-ins, and whatever the table holds.*)
(***************************************************************************)
EXTENDS ConfFile, Sockets, Lists, Database, FiniteSetTheorems, WellFoundedInduction, SequenceTheorems, TLAPS

-----------------------------------------------------------------------------
(* Sockets: the types of descriptors and of the sockets in creation. *)
Fd == Descriptor \cup {NoFd}
ServerStep == {"none", "bind", "nodelay", "reuse"}
ClientStep == {"none", "next", "connect", "options"}
Creation == [step : ServerStep \cup ClientStep, fd : Fd, left : Seq(STRING)]
AByte == Nat \X Nat

FdTypes ==
  /\ object \in [Role -> Fd]
  /\ creating \in [Program -> Creation]
  /\ creating["server"].step \in ServerStep /\ creating["client"].step \in ClientStep
  /\ \A p \in Program : creating[p].fd = NoFd <=> creating[p].step \in {"none", "next"}

StreamTypes ==
  /\ stream \in [state : {"none", "pending", "up"}, ends : SUBSET {"client", "accepted"}, wire : Seq(AByte)]
  /\ writing \in [message : Nat, done : Nat]
  /\ reading \in [on : BOOLEAN, got : Seq(AByte)]
  /\ written \in Seq(AByte) /\ answered \in SUBSET Nat
  /\ heard \in [bytes : Seq(AByte), whole : BOOLEAN]

(* A descriptor is of one socket, and every socket has an open one. *)
FdsAre(open, obj, made) ==
  /\ open = ({obj[r] : r \in Role} \cup {made[p] : p \in Program}) \ {NoFd}
  /\ \A r, s \in Role : obj[r] = obj[s] /\ obj[r] # NoFd => r = s
  /\ \A p, q \in Program : made[p] = made[q] /\ made[p] # NoFd => p = q
  /\ \A r \in Role, p \in Program : obj[r] = made[p] => obj[r] = NoFd
Made == [p \in Program |-> creating[p].fd]
FdsInv == FdsAre(fds, object, Made)

(* A socket is in creation for a program that has none of its kind, and    *)
(* DNS records are held only then.                                         *)
CreatingInv ==
  LET server == creating["server"].step
      client == creating["client"].step
  IN  /\ server = "bind" => object["listener"] = NoFd /\ object["datagram"] = NoFd
      /\ server = "nodelay" => object["accepted"] = NoFd
      /\ server = "reuse" => object["listener"] = NoFd /\ object["datagram"] = NoFd
      /\ object["datagram"] # NoFd => server = "none" /\ object["listener"] = NoFd
      /\ client # "none" => object["client"] = NoFd
      /\ client = "none" => records = 0

(* The end the server has accepted, or is about to hand to its program, is *)
(* an end of the connection; only who has an end writes or reads.          *)
EndsInv ==
  /\ object["accepted"] # NoFd \/ creating["server"].step = "nodelay"
       => stream.state = "up" /\ "accepted" \in stream.ends
  /\ writing # NoWrite => object["client"] # NoFd
  /\ IF reading.on THEN object["accepted"] # NoFd ELSE reading = NoRead

(* The bytes of message m are those at i + 1 .. i + n of the stream, and   *)
(* nowhere else.                                                           *)
Lies(m, i, n, bytes) ==
  \A k \in 1 .. Len(bytes) : IF k \in i + 1 .. i + n THEN bytes[k] = Byte(m, k - i) ELSE bytes[k][1] # m

(* What has been written of the message in progress are the last bytes.    *)
WriteInv ==
  writing # NoWrite =>
    /\ writing.message \notin answered
    /\ writing.done < Length /\ writing.done <= Len(written)
    /\ Lies(writing.message, Len(written) - writing.done, writing.done, written)
AnsweredInv == \A m \in answered : \E i \in 0 .. Len(written) - Length : Lies(m, i, Length, written)
HeardInv == heard.whole /\ stream # NoStream => heard.bytes \o reading.got \o stream.wire = written

SocketInv == /\ FdTypes /\ StreamTypes /\ FdsInv /\ CreatingInv
             /\ EndsInv /\ WriteInv /\ AnsweredInv /\ HeardInv

-----------------------------------------------------------------------------
(* The lowest of the descriptors that are free, when at most three are in  *)
(* use.                                                                    *)
LEMMA LowestFree ==
  ASSUME NEW open, NEW a, NEW b, NEW c, open \subseteq {a, b, c}
  PROVE  (CHOOSE d \in Descriptor \ open : \A e \in Descriptor \ open : d <= e) \in Descriptor \ open
<1> DEFINE S == Descriptor \ open
<1>1. S \in SUBSET Nat
  BY DEF Descriptor
<1>2. S # {}
  <2>1. 1 \in Descriptor /\ 2 \in Descriptor /\ 3 \in Descriptor /\ 4 \in Descriptor
    BY DEF Descriptor
  <2>2. 1 \notin open \/ 2 \notin open \/ 3 \notin open \/ 4 \notin open
    OBVIOUS
  <2> QED BY <2>1, <2>2
<1> HIDE DEF S
<1>3. PICK x \in S : \A y \in S : ~ (<<y, x>> \in OpToRel(<, Nat))
  BY <1>1, <1>2, NatLessThanWellFounded, WFMin
<1>4. \A y \in S : x <= y
  <2> SUFFICES ASSUME NEW y \in S PROVE x <= y
    OBVIOUS
  <2>1. x \in Nat /\ y \in Nat
    BY <1>1
  <2>2. ~ (y < x)
    BY <1>3, <2>1 DEF OpToRel
  <2> QED BY <2>1, <2>2
<1>5. \E d \in S : \A e \in S : d <= e
  BY <1>4
<1>6. (CHOOSE d \in S : \A e \in S : d <= e) \in S
  BY <1>5
<1> QED BY <1>6 DEF S

(* A descriptor is opened, ... *)
LEMMA FdsOpen ==
  ASSUME NEW open, NEW obj \in [Role -> Fd], NEW made \in [Program -> Fd], FdsAre(open, obj, made),
         NEW p \in Program, made[p] = NoFd, NEW fd \in Descriptor \ open
  PROVE  FdsAre(open \cup {fd}, obj, [made EXCEPT ![p] = fd])
<1> DEFINE new == [made EXCEPT ![p] = fd]
<1>0. fd # NoFd
  BY DEF Descriptor, NoFd
<1>1. new[p] = fd /\ \A q \in Program \ {p} : new[q] = made[q]
  OBVIOUS
<1> HIDE DEF new
<1>2. \A r \in Role : obj[r] # fd
  BY <1>0 DEF FdsAre
<1>3. \A q \in Program : made[q] # fd
  BY <1>0 DEF FdsAre
<1>4. open \cup {fd} = ({obj[r] : r \in Role} \cup {new[q] : q \in Program}) \ {NoFd}
  BY <1>0, <1>1 DEF FdsAre
<1>5. \A q, s \in Program : new[q] = new[s] /\ new[q] # NoFd => q = s
  BY <1>1, <1>3 DEF FdsAre
<1>6. \A r \in Role, q \in Program : obj[r] = new[q] => obj[r] = NoFd
  BY <1>1, <1>2 DEF FdsAre
<1> QED BY <1>4, <1>5, <1>6 DEF FdsAre, new

(* ... given to a socket of the program, ... *)
LEMMA FdsGive ==
  ASSUME NEW open, NEW obj \in [Role -> Fd], NEW made \in [Program -> Fd], FdsAre(open, obj, made),
         NEW p \in Program, made[p] # NoFd, NEW role \in Role, obj[role] = NoFd
  PROVE  FdsAre(open, [obj EXCEPT ![role] = made[p]], [made EXCEPT ![p] = NoFd])
<1> DEFINE new == [made EXCEPT ![p] = NoFd]
           has == [obj EXCEPT ![role] = made[p]]
<1>1. new[p] = NoFd /\ \A q \in Program \ {p} : new[q] = made[q]
  OBVIOUS
<1>2. has[role] = made[p] /\ \A r \in Role \ {role} : has[r] = obj[r]
  OBVIOUS
<1> HIDE DEF new, has
<1>3. open = ({has[r] : r \in Role} \cup {new[q] : q \in Program}) \ {NoFd}
  <2>1. ASSUME NEW x \in open PROVE x \in ({has[r] : r \in Role} \cup {new[q] : q \in Program}) \ {NoFd}
    <3>1. x # NoFd /\ (x \in {obj[r] : r \in Role} \/ x \in {made[q] : q \in Program})
      BY <2>1 DEF FdsAre
    <3>2. CASE x \in {obj[r] : r \in Role}
      BY <1>2, <3>1, <3>2
    <3>3. CASE x \in {made[q] : q \in Program}
      BY <1>1, <1>2, <3>1, <3>3
    <3> QED BY <3>1, <3>2, <3>3
  <2>2. ASSUME NEW x \in ({has[r] : r \in Role} \cup {new[q] : q \in Program}) \ {NoFd} PROVE x \in open
    <3>1. CASE x \in {has[r] : r \in Role}
      BY <1>2, <2>2, <3>1 DEF FdsAre
    <3>2. CASE x \in {new[q] : q \in Program}
      BY <1>1, <2>2, <3>2 DEF FdsAre
    <3> QED BY <2>2, <3>1, <3>2
  <2> QED BY <2>1, <2>2
<1>4. \A r, s \in Role : has[r] = has[s] /\ has[r] # NoFd => r = s
  BY <1>2 DEF FdsAre
<1>5. \A q, s \in Program : new[q] = new[s] /\ new[q] # NoFd => q = s
  BY <1>1 DEF FdsAre
<1>6. \A r \in Role, q \in Program : has[r] = new[q] => has[r] = NoFd
  BY <1>1, <1>2 DEF FdsAre
<1> QED BY <1>3, <1>4, <1>5, <1>6 DEF FdsAre, new, has

(* ... closed on the way to a socket, ... *)
LEMMA FdsAbandon ==
  ASSUME NEW open, NEW obj \in [Role -> Fd], NEW made \in [Program -> Fd], FdsAre(open, obj, made),
         NEW p \in Program, made[p] # NoFd
  PROVE  FdsAre(open \ {made[p]}, obj, [made EXCEPT ![p] = NoFd])
<1> DEFINE new == [made EXCEPT ![p] = NoFd]
<1>1. new[p] = NoFd /\ \A q \in Program \ {p} : new[q] = made[q]
  OBVIOUS
<1> HIDE DEF new
<1>2. open \ {made[p]} = ({obj[r] : r \in Role} \cup {new[q] : q \in Program}) \ {NoFd}
  <2>1. ASSUME NEW x \in open \ {made[p]}
        PROVE  x \in ({obj[r] : r \in Role} \cup {new[q] : q \in Program}) \ {NoFd}
    BY <1>1, <2>1 DEF FdsAre
  <2>2. ASSUME NEW x \in ({obj[r] : r \in Role} \cup {new[q] : q \in Program}) \ {NoFd}
        PROVE  x \in open \ {made[p]}
    <3>1. CASE x \in {obj[r] : r \in Role}
      BY <2>2, <3>1 DEF FdsAre
    <3>2. CASE x \in {new[q] : q \in Program}
      BY <1>1, <2>2, <3>2 DEF FdsAre
    <3> QED BY <2>2, <3>1, <3>2
  <2> QED BY <2>1, <2>2
<1>3. \A q, s \in Program : new[q] = new[s] /\ new[q] # NoFd => q = s
  BY <1>1 DEF FdsAre
<1>4. \A r \in Role, q \in Program : obj[r] = new[q] => obj[r] = NoFd
  BY <1>1 DEF FdsAre
<1> QED BY <1>2, <1>3, <1>4 DEF FdsAre, new

(* ... or with its socket. *)
LEMMA FdsDestroy ==
  ASSUME NEW open, NEW obj \in [Role -> Fd], NEW made \in [Program -> Fd], FdsAre(open, obj, made),
         NEW role \in Role, obj[role] # NoFd
  PROVE  FdsAre(open \ {obj[role]}, [obj EXCEPT ![role] = NoFd], made)
<1> DEFINE has == [obj EXCEPT ![role] = NoFd]
<1>1. has[role] = NoFd /\ \A r \in Role \ {role} : has[r] = obj[r]
  OBVIOUS
<1> HIDE DEF has
<1>2. open \ {obj[role]} = ({has[r] : r \in Role} \cup {made[q] : q \in Program}) \ {NoFd}
  <2>1. ASSUME NEW x \in open \ {obj[role]}
        PROVE  x \in ({has[r] : r \in Role} \cup {made[q] : q \in Program}) \ {NoFd}
    BY <1>1, <2>1 DEF FdsAre
  <2>2. ASSUME NEW x \in ({has[r] : r \in Role} \cup {made[q] : q \in Program}) \ {NoFd}
        PROVE  x \in open \ {obj[role]}
    <3>1. CASE x \in {has[r] : r \in Role}
      BY <1>1, <2>2, <3>1 DEF FdsAre
    <3>2. CASE x \in {made[q] : q \in Program}
      BY <2>2, <3>2 DEF FdsAre
    <3> QED BY <2>2, <3>1, <3>2
  <2> QED BY <2>1, <2>2
<1>3. \A r, s \in Role : has[r] = has[s] /\ has[r] # NoFd => r = s
  BY <1>1 DEF FdsAre
<1>4. \A r \in Role, q \in Program : has[r] = made[q] => has[r] = NoFd
  BY <1>1 DEF FdsAre
<1> QED BY <1>2, <1>3, <1>4 DEF FdsAre, has

-----------------------------------------------------------------------------
FdInv == FdTypes /\ FdsInv /\ CreatingInv

(* The creation for program p goes on to c. *)
LEMMA GoesOn ==
  ASSUME FdTypes, NEW p \in Program, NEW c \in Creation, creating' = [creating EXCEPT ![p] = c],
         object' \in [Role -> Fd],
         p = "server" => c.step \in ServerStep, p = "client" => c.step \in ClientStep,
         c.fd = NoFd <=> c.step \in {"none", "next"}
  PROVE  /\ FdTypes' /\ Made' = [Made EXCEPT ![p] = c.fd]
         /\ creating'[p] = c /\ \A q \in Program \ {p} : creating'[q] = creating[q]
<1>1. creating \in [Program -> Creation]
  BY DEF FdTypes
<1>2. creating'[p] = c /\ \A q \in Program \ {p} : creating'[q] = creating[q]
  BY <1>1
<1>3. creating' \in [Program -> Creation]
  BY <1>1
<1>4. "server" \in Program /\ "client" \in Program
  BY DEF Program
<1>5. creating'["server"].step \in ServerStep /\ creating'["client"].step \in ClientStep
  <2>1. CASE p = "server"
    BY <1>2, <1>4, <2>1 DEF FdTypes
  <2>2. CASE p = "client"
    BY <1>2, <1>4, <2>2 DEF FdTypes
  <2> QED BY <2>1, <2>2 DEF Program
<1>6. FdTypes'
  BY <1>2, <1>3, <1>5 DEF FdTypes
<1>7. Made' = [Made EXCEPT ![p] = c.fd]
  <2>1. \A q \in Program : creating'[q].fd = IF q = p THEN c.fd ELSE creating[q].fd
    BY <1>2
  <2> QED BY <2>1 DEF Made
<1> QED BY <1>2, <1>6, <1>7

(* What the sockets in creation have. *)
LEMMA MadeIs ==
  ASSUME FdTypes
  PROVE  /\ Made \in [Program -> Fd] /\ \A p \in Program : Made[p] = creating[p].fd
         /\ object \in [Role -> Fd]
BY DEF FdTypes, Made, Creation

(* A descriptor is opened for program p, that had none. *)
LEMMA OpensStep ==
  ASSUME FdTypes, FdsInv, NEW p \in Program, NEW step \in {"bind", "nodelay", "reuse", "connect"},
         NEW left \in Seq(STRING), Opens(p, step, left), creating[p].fd = NoFd,
         p = "server" <=> step # "connect",
         NEW a, NEW b, NEW c, fds \subseteq {a, b, c},
         UNCHANGED object
  PROVE  /\ FdTypes' /\ FdsInv'
         /\ creating'[p].step = step /\ \A q \in Program \ {p} : creating'[q] = creating[q]
<1> DEFINE fd == CHOOSE d \in Descriptor \ fds : \A e \in Descriptor \ fds : d <= e
<1>1. fd \in Descriptor \ fds
  BY LowestFree
<1>2. fds' = fds \cup {fd}
      /\ creating' = [creating EXCEPT ![p] = [step |-> step, fd |-> fd, left |-> left]]
  BY DEF Opens
<1> HIDE DEF fd
<1> DEFINE new == [step |-> step, fd |-> fd, left |-> left]
<1>3. new \in Creation /\ new.fd # NoFd /\ new.step = step /\ new.fd = fd
  BY <1>1 DEF Creation, Fd, ServerStep, ClientStep, Descriptor, NoFd
<1>4. creating' = [creating EXCEPT ![p] = new]
  BY <1>2
<1> HIDE DEF new
<1>5. /\ FdTypes' /\ Made' = [Made EXCEPT ![p] = fd]
      /\ creating'[p] = new /\ \A q \in Program \ {p} : creating'[q] = creating[q]
  <2>1. object' \in [Role -> Fd]
    BY DEF FdTypes
  <2>2. p = "server" => new.step \in ServerStep
    BY <1>3 DEF ServerStep
  <2>3. p = "client" => new.step \in ClientStep
    BY <1>3 DEF ClientStep
  <2>4. new.fd = NoFd <=> new.step \in {"none", "next"}
    BY <1>3
  <2> QED BY <1>3, <1>4, <2>1, <2>2, <2>3, <2>4, GoesOn
<1>6. FdsInv'
  <2>1. FdsAre(fds \cup {fd}, object, [Made EXCEPT ![p] = fd])
    BY <1>1, MadeIs, FdsOpen DEF FdsInv
  <2> QED BY <1>2, <1>5, <2>1 DEF FdsInv
<1> QED BY <1>3, <1>5, <1>6

(* The program is given the socket. *)
LEMMA CreatedStep ==
  ASSUME FdTypes, FdsInv, NEW p \in Program, NEW role \in Role, Created(p, role),
         creating[p].fd # NoFd, object[role] = NoFd, UNCHANGED fds
  PROVE  /\ FdTypes' /\ FdsInv'
         /\ creating'[p].step = "none" /\ \A q \in Program \ {p} : creating'[q] = creating[q]
         /\ \A r \in Role \ {role} : object'[r] = object[r]
<1>0. Made \in [Program -> Fd] /\ object \in [Role -> Fd] /\ Made[p] = creating[p].fd
  BY MadeIs
<1>1. object' = [object EXCEPT ![role] = Made[p]] /\ creating' = [creating EXCEPT ![p] = NoCreation]
  BY <1>0 DEF Created
<1>2. NoCreation \in Creation /\ NoCreation.fd = NoFd /\ NoCreation.step = "none"
  BY DEF NoCreation, Creation, Fd, ServerStep
<1>3. object' \in [Role -> Fd] /\ \A r \in Role \ {role} : object'[r] = object[r]
  BY <1>0, <1>1
<1>4. /\ FdTypes' /\ Made' = [Made EXCEPT ![p] = NoFd]
      /\ creating'[p] = NoCreation /\ \A q \in Program \ {p} : creating'[q] = creating[q]
  <2>1. NoCreation.step \in ServerStep /\ NoCreation.step \in ClientStep
    BY <1>2 DEF ServerStep, ClientStep
  <2> DEFINE c == NoCreation
  <2>2. /\ c \in Creation /\ c.fd = NoFd /\ creating' = [creating EXCEPT ![p] = c]
        /\ (p = "server" => c.step \in ServerStep) /\ (p = "client" => c.step \in ClientStep)
        /\ c.fd = NoFd <=> c.step \in {"none", "next"}
    BY <1>1, <1>2, <2>1
  <2> HIDE DEF c
  <2>3. /\ FdTypes' /\ Made' = [Made EXCEPT ![p] = c.fd]
        /\ creating'[p] = c /\ \A q \in Program \ {p} : creating'[q] = creating[q]
    BY <1>3, <2>2, GoesOn
  <2> QED BY <2>2, <2>3 DEF c
<1>5. FdsInv'
  <2>1. FdsAre(fds, [object EXCEPT ![role] = Made[p]], [Made EXCEPT ![p] = NoFd])
    BY <1>0, FdsGive DEF FdsInv
  <2> QED BY <1>1, <1>4, <2>1 DEF FdsInv
<1> QED BY <1>2, <1>3, <1>4, <1>5

(* A failure closes the descriptor. *)
LEMMA AbandonedStep ==
  ASSUME FdTypes, FdsInv, NEW p \in Program, NEW next \in Creation, Abandoned(p, next),
         creating[p].fd # NoFd, UNCHANGED object, next.fd = NoFd,
         next.step = "none" \/ (p = "client" /\ next.step = "next")
  PROVE  /\ FdTypes' /\ FdsInv'
         /\ creating'[p].step = next.step /\ \A q \in Program \ {p} : creating'[q] = creating[q]
<1>0. Made \in [Program -> Fd] /\ object \in [Role -> Fd] /\ Made[p] = creating[p].fd
  BY MadeIs
<1>1. fds' = fds \ {Made[p]} /\ creating' = [creating EXCEPT ![p] = next]
  BY <1>0 DEF Abandoned
<1>2. /\ FdTypes' /\ Made' = [Made EXCEPT ![p] = NoFd]
      /\ creating'[p] = next /\ \A q \in Program \ {p} : creating'[q] = creating[q]
  <2>1. p = "server" => next.step \in ServerStep
    BY DEF ServerStep
  <2>2. p = "client" => next.step \in ClientStep
    BY DEF ClientStep
  <2>3. next.fd = NoFd <=> next.step \in {"none", "next"}
    OBVIOUS
  <2> QED BY <1>0, <1>1, <2>1, <2>2, <2>3, GoesOn
<1>3. FdsInv'
  <2>1. FdsAre(fds \ {Made[p]}, object, [Made EXCEPT ![p] = NoFd])
    BY <1>0, FdsAbandon DEF FdsInv
  <2> QED BY <1>1, <1>2, <2>1 DEF FdsInv
<1> QED BY <1>2, <1>3

(* Who has descriptors: the three roles and the program in creation at     *)
(* most, where one is told to have none.                                   *)
LEMMA Users ==
  ASSUME FdTypes, FdsInv, CreatingInv, NEW p \in Program, creating[p].fd = NoFd,
         \/ p = "server" /\ object["datagram"] = NoFd
              /\ (object["listener"] = NoFd \/ object["accepted"] = NoFd)
         \/ p = "server" /\ object["accepted"] = NoFd
         \/ p = "client" /\ object["client"] = NoFd
  PROVE  \E a, b, c : fds \subseteq {a, b, c}
<1> DEFINE o(r) == object[r]
           m(q) == creating[q].fd
<1>1. fds \subseteq {o("listener"), o("accepted"), o("client"), o("datagram"), m("server"), m("client")} \ {NoFd}
  BY MadeIs DEF FdsInv, FdsAre, Role, Program
<1>2. /\ m("client") # NoFd => o("client") = NoFd
      /\ o("datagram") # NoFd => m("server") = NoFd
  BY DEF CreatingInv, FdTypes, Program
<1> HIDE DEF o, m
<1>3. CASE p = "client"
  <2>1. m("client") = NoFd /\ o("client") = NoFd
    BY <1>3 DEF m, o
  <2>2. CASE o("datagram") = NoFd
    <3>1. fds \subseteq {o("listener"), o("accepted"), m("server")}
      BY <1>1, <2>1, <2>2
    <3> QED BY <3>1
  <2>3. CASE m("server") = NoFd
    <3>1. fds \subseteq {o("listener"), o("accepted"), o("datagram")}
      BY <1>1, <2>1, <2>3
    <3> QED BY <3>1
  <2> QED BY <1>2, <2>2, <2>3
<1>4. CASE p = "server"
  <2>1. m("server") = NoFd /\ (o("client") = NoFd \/ m("client") = NoFd)
    BY <1>2, <1>4 DEF m
  <2>2. \/ o("datagram") = NoFd /\ (o("listener") = NoFd \/ o("accepted") = NoFd)
        \/ o("accepted") = NoFd
    BY <1>4 DEF o
  <2>3. \E c : fds \subseteq {o("listener"), o("datagram"), c} \/ fds \subseteq {o("accepted"), o("datagram"), c}
    <3>1. PICK c : c \in {o("client"), m("client")} /\ {o("client"), m("client")} \subseteq {c, NoFd}
      BY <2>1
    <3>2. fds \subseteq {o("listener"), o("accepted"), o("datagram"), c}
      BY <1>1, <2>1, <3>1
    <3>3. NoFd \notin fds
      BY <1>1
    <3>4. CASE o("accepted") = NoFd
      <4>1. fds \subseteq {o("listener"), o("datagram"), c}
        BY <3>2, <3>3, <3>4
      <4> QED BY <4>1
    <3>5. CASE o("listener") = NoFd
      <4>1. fds \subseteq {o("accepted"), o("datagram"), c}
        BY <3>2, <3>3, <3>5
      <4> QED BY <4>1
    <3> QED BY <2>2, <3>4, <3>5
  <2> QED BY <2>3
<1> QED BY <1>3, <1>4 DEF Program

-----------------------------------------------------------------------------
(* Nothing of descriptors has changed. *)
LEMMA FdFrame ==
  ASSUME FdInv, UNCHANGED <<fds, object, creating, records>>
  PROVE  FdInv'
<1>1. FdTypes' /\ CreatingInv'
  BY DEF FdInv, FdTypes, CreatingInv
<1>2. Made' = Made
  BY DEF Made
<1> QED BY <1>1, <1>2 DEF FdInv, FdsInv

(* The kinds of sockets and programs. *)
LEMMA Kinds == /\ "server" \in Program /\ "client" \in Program
               /\ \A p \in Program : p = "server" \/ p = "client"
               /\ {"listener", "accepted", "client", "datagram"} = Role
BY DEF Program, Role

(* The steps of a server. *)
LEMMA ServerStepInv ==
  ASSUME FdInv, EndsInv,
         \/ radSocketServerCreate \/ Listening \/ ServerCreateFails
         \/ radSocketServerAcceptConnection \/ Accepted \/ AcceptFails
  PROVE  FdInv' /\ EndsInv'
<1>0. FdTypes /\ FdsInv /\ CreatingInv
  BY DEF FdInv
<1>a. /\ creating["server"].fd = NoFd <=> creating["server"].step \in {"none", "next"}
      /\ creating["server"].step \in ServerStep
  BY <1>0, Kinds DEF FdTypes
<1>b. <<>> \in Seq(STRING)
  OBVIOUS
<1>c. NoCreation \in Creation /\ NoCreation.fd = NoFd /\ NoCreation.step = "none"
  BY <1>b DEF NoCreation, Creation, Fd, ServerStep
<1>1. CASE radSocketServerCreate
  <2>1. /\ creating["server"].step = "none" /\ object["listener"] = NoFd /\ object["datagram"] = NoFd
        /\ Opens("server", "bind", <<>>)
        /\ UNCHANGED <<object, records, stream, streamVars, datagram, troubles>>
    BY <1>1 DEF radSocketServerCreate, NotCreating
  <2>2. PICK a, b, c : fds \subseteq {a, b, c}
    BY <1>0, <1>a, <2>1, Kinds, Users
  <2>3. /\ FdTypes' /\ FdsInv'
        /\ creating'["server"].step = "bind" /\ \A q \in Program \ {"server"} : creating'[q] = creating[q]
    BY <1>0, <1>a, <1>b, <2>1, <2>2, Kinds, OpensStep
  <2>4. CreatingInv'
    BY <1>0, <2>1, <2>3, Kinds DEF CreatingInv
  <2>5. EndsInv'
    BY <2>1, <2>3 DEF EndsInv, streamVars
  <2> QED BY <2>3, <2>4, <2>5 DEF FdInv
<1>2. CASE Listening
  <2>1. /\ creating["server"].step = "bind" /\ Created("server", "listener")
        /\ UNCHANGED <<fds, records, stream, streamVars, datagram, troubles>>
    BY <1>2 DEF Listening
  <2>2. object["listener"] = NoFd
    BY <1>0, <2>1 DEF CreatingInv
  <2>3. /\ FdTypes' /\ FdsInv'
        /\ creating'["server"].step = "none" /\ \A q \in Program \ {"server"} : creating'[q] = creating[q]
        /\ \A r \in Role \ {"listener"} : object'[r] = object[r]
    BY <1>0, <1>a, <2>1, <2>2, Kinds, CreatedStep
  <2>4. CreatingInv'
    BY <1>0, <2>1, <2>3, Kinds DEF CreatingInv
  <2>5. EndsInv'
    BY <2>1, <2>3, Kinds DEF EndsInv, streamVars
  <2> QED BY <2>3, <2>4, <2>5 DEF FdInv
<1>3. CASE ServerCreateFails
  <2>1. /\ creating["server"].step \in {"bind", "reuse"} /\ Abandoned("server", NoCreation)
        /\ UNCHANGED <<object, records, stream, streamVars, datagram>>
    BY <1>3 DEF ServerCreateFails
  <2>3. /\ FdTypes' /\ FdsInv'
        /\ creating'["server"].step = "none" /\ \A q \in Program \ {"server"} : creating'[q] = creating[q]
    BY <1>0, <1>a, <1>c, <2>1, Kinds, AbandonedStep
  <2>4. CreatingInv'
    BY <1>0, <2>1, <2>3, Kinds DEF CreatingInv
  <2>5. EndsInv'
    BY <2>1, <2>3 DEF EndsInv, streamVars
  <2> QED BY <2>3, <2>4, <2>5 DEF FdInv
<1>4. CASE radSocketServerAcceptConnection
  <2>1. /\ creating["server"].step = "none" /\ object["listener"] # NoFd /\ object["accepted"] = NoFd
        /\ Opens("server", "nodelay", <<>>)
        /\ stream' = [stream EXCEPT !.state = "up", !.ends = @ \cup {"accepted"}]
        /\ UNCHANGED <<object, records, streamVars, datagram, troubles>>
    BY <1>4 DEF radSocketServerAcceptConnection, NotCreating
  <2>2. PICK a, b, c : fds \subseteq {a, b, c}
    BY <1>0, <1>a, <2>1, Kinds, Users
  <2>3. /\ FdTypes' /\ FdsInv'
        /\ creating'["server"].step = "nodelay" /\ \A q \in Program \ {"server"} : creating'[q] = creating[q]
    BY <1>0, <1>a, <1>b, <2>1, <2>2, Kinds, OpensStep
  <2>4. CreatingInv'
    <3>1. object["datagram"] = NoFd
      BY <1>0, <2>1 DEF CreatingInv
    <3> QED BY <1>0, <2>1, <2>3, <3>1, Kinds DEF CreatingInv
  <2>5. EndsInv'
    <3>1. stream'.state = "up" /\ "accepted" \in stream'.ends
      BY <2>1
    <3> QED BY <2>1, <2>3, <3>1 DEF EndsInv, streamVars
  <2> QED BY <2>3, <2>4, <2>5 DEF FdInv
<1>5. CASE Accepted
  <2>1. /\ creating["server"].step = "nodelay" /\ Created("server", "accepted")
        /\ UNCHANGED <<fds, records, stream, streamVars, datagram, troubles>>
    BY <1>5 DEF Accepted
  <2>2. object["accepted"] = NoFd
    BY <1>0, <2>1 DEF CreatingInv
  <2>3. /\ FdTypes' /\ FdsInv'
        /\ creating'["server"].step = "none" /\ \A q \in Program \ {"server"} : creating'[q] = creating[q]
        /\ \A r \in Role \ {"accepted"} : object'[r] = object[r]
    BY <1>0, <1>a, <2>1, <2>2, Kinds, CreatedStep
  <2>4. CreatingInv'
    BY <1>0, <2>1, <2>3, Kinds DEF CreatingInv
  <2>5. EndsInv'
    BY <2>1, <2>2, <2>3, Kinds DEF EndsInv, streamVars
  <2> QED BY <2>3, <2>4, <2>5 DEF FdInv
<1>6. CASE AcceptFails
  <2>1. /\ creating["server"].step = "nodelay" /\ Abandoned("server", NoCreation)
        /\ UNCHANGED <<object, records, streamVars, datagram>>
    BY <1>6 DEF AcceptFails
  <2>2. object["accepted"] = NoFd
    BY <1>0, <2>1 DEF CreatingInv
  <2>3. /\ FdTypes' /\ FdsInv'
        /\ creating'["server"].step = "none" /\ \A q \in Program \ {"server"} : creating'[q] = creating[q]
    BY <1>0, <1>a, <1>c, <2>1, Kinds, AbandonedStep
  <2>4. CreatingInv'
    BY <1>0, <2>1, <2>3, Kinds DEF CreatingInv
  <2>5. EndsInv'
    BY <2>1, <2>2, <2>3 DEF EndsInv, streamVars
  <2> QED BY <2>3, <2>4, <2>5 DEF FdInv
<1> QED BY <1>1, <1>2, <1>3, <1>4, <1>5, <1>6

(* The steps of a client. *)
LEMMA ClientStepInv ==
  ASSUME FdInv, EndsInv, StreamTypes,
         \/ radSocketClientCreateAny \/ radSocketClientCreate \/ NoServer \/ Connects
         \/ ConnectError \/ OptionsFail \/ ClientCreated
  PROVE  FdInv' /\ EndsInv'
<1>0. FdTypes /\ FdsInv /\ CreatingInv
  BY DEF FdInv
<1>a. /\ creating["client"].fd = NoFd <=> creating["client"].step \in {"none", "next"}
      /\ creating["client"].step \in ClientStep /\ creating["client"] \in Creation
      /\ creating \in [Program -> Creation]
  BY <1>0, Kinds DEF FdTypes
<1>b. object \in [Role -> Fd] /\ Made \in [Program -> Fd] /\ Made["client"] = creating["client"].fd
  BY <1>0, MadeIs, Kinds
<1>c. NoCreation \in Creation /\ NoCreation.fd = NoFd /\ NoCreation.step = "none"
  <2>1. <<>> \in Seq(STRING)
    OBVIOUS
  <2> QED BY <2>1 DEF NoCreation, Creation, Fd, ServerStep
<1>d. /\ NextAddress \in Creation /\ NextAddress.fd = NoFd /\ NextAddress.step = "next"
  BY <1>a DEF NextAddress, Creation, Fd, ClientStep
<1>1. CASE radSocketClientCreateAny
  <2>1. PICK n \in 0 .. Len(Address) :
          creating' = [creating EXCEPT !["client"] = [step |-> "next", fd |-> NoFd, left |-> SubSeq(Address, 1, n)]]
    BY <1>1 DEF radSocketClientCreateAny
  <2>2. /\ creating["client"].step = "none" /\ object["client"] = NoFd
        /\ UNCHANGED <<fds, object, stream, streamVars, datagram>>
    BY <1>1 DEF radSocketClientCreateAny, NotCreating
  <2> DEFINE new == [step |-> "next", fd |-> NoFd, left |-> SubSeq(Address, 1, n)]
  <2>3. new \in Creation /\ new.fd = NoFd /\ new.step = "next"
    <3>1. SubSeq(Address, 1, n) \in Seq(STRING)
      <4>1. Address \in Seq(STRING) /\ Len(Address) \in Nat
        BY SocketsAssumption
      <4>2. \A k \in 1 .. n : Address[k] \in STRING
        BY <4>1
      <4> QED BY <4>1, <4>2, SubSeqProperties
    <3> QED BY <3>1 DEF Creation, Fd, ClientStep
  <2>4. creating' = [creating EXCEPT !["client"] = new]
    BY <2>1
  <2> HIDE DEF new
  <2>5. /\ FdTypes' /\ Made' = [Made EXCEPT !["client"] = NoFd]
        /\ creating'["client"] = new /\ \A q \in Program \ {"client"} : creating'[q] = creating[q]
    <3>1. new.step \in ClientStep
      BY <2>3 DEF ClientStep
    <3> QED BY <1>0, <1>b, <2>2, <2>3, <2>4, <3>1, Kinds, GoesOn, ZenonT(60)
  <2>6. FdsInv'
    <3>1. Made' = Made
      BY <1>a, <1>b, <2>2, <2>5
    <3> QED BY <1>0, <2>2, <3>1 DEF FdsInv
  <2>7. CreatingInv'
    BY <1>0, <2>2, <2>3, <2>5, Kinds DEF CreatingInv
  <2>8. EndsInv'
    BY <2>2, <2>5, Kinds DEF EndsInv, streamVars
  <2> QED BY <2>5, <2>6, <2>7, <2>8 DEF FdInv
<1>2. CASE radSocketClientCreate
  <2>1. /\ creating["client"].step = "next" /\ creating["client"].left # <<>>
        /\ Opens("client", "connect", Tail(creating["client"].left))
        /\ UNCHANGED <<object, records, stream, streamVars, datagram, troubles>>
    BY <1>2 DEF radSocketClientCreate
  <2>2. Tail(creating["client"].left) \in Seq(STRING)
    <3>1. creating["client"].left \in Seq(STRING)
      BY <1>a DEF Creation
    <3> QED BY <2>1, <3>1, HeadTailProperties
  <2>3. object["client"] = NoFd
    BY <1>0, <2>1 DEF CreatingInv
  <2>4. PICK a, b, c : fds \subseteq {a, b, c}
    BY <1>0, <1>a, <2>1, <2>3, Kinds, Users
  <2>5. /\ FdTypes' /\ FdsInv'
        /\ creating'["client"].step = "connect" /\ \A q \in Program \ {"client"} : creating'[q] = creating[q]
    BY <1>0, <1>a, <2>1, <2>2, <2>4, Kinds, OpensStep
  <2>6. CreatingInv'
    BY <1>0, <2>1, <2>5, Kinds DEF CreatingInv
  <2>7. EndsInv'
    BY <2>1, <2>5, Kinds DEF EndsInv, streamVars
  <2> QED BY <2>5, <2>6, <2>7 DEF FdInv
<1>3. CASE NoServer
  <2>1. /\ creating["client"].step = "next" /\ records' = 0
        /\ creating' = [creating EXCEPT !["client"] = NoCreation]
        /\ UNCHANGED <<fds, object, stream, streamVars, datagram, troubles>>
    BY <1>3 DEF NoServer
  <2>2. /\ FdTypes' /\ Made' = [Made EXCEPT !["client"] = NoFd]
        /\ creating'["client"] = NoCreation /\ \A q \in Program \ {"client"} : creating'[q] = creating[q]
    <3>1. NoCreation.step \in ClientStep
      BY <1>c DEF ClientStep
    <3> QED BY <1>0, <1>b, <1>c, <2>1, <3>1, Kinds, GoesOn
  <2>3. FdsInv'
    <3>1. Made' = Made
      BY <1>a, <1>b, <2>1, <2>2
    <3> QED BY <1>0, <2>1, <3>1 DEF FdsInv
  <2>4. CreatingInv'
    BY <1>0, <1>c, <2>1, <2>2, Kinds DEF CreatingInv
  <2>5. EndsInv'
    BY <2>1, <2>2, Kinds DEF EndsInv, streamVars
  <2> QED BY <2>2, <2>3, <2>4, <2>5 DEF FdInv
<1>4. CASE Connects
  <2>1. /\ creating["client"].step = "connect" /\ stream = NoStream
        /\ creating' = [creating EXCEPT !["client"].step = "options"]
        /\ UNCHANGED <<fds, object, records, writing, reading, datagram, troubles>>
    BY <1>4 DEF Connects
  <2> DEFINE new == [creating["client"] EXCEPT !.step = "options"]
  <2>2. creating' = [creating EXCEPT !["client"] = new]
    BY <2>1
  <2>3. new \in Creation /\ new.step = "options" /\ new.fd = creating["client"].fd
    BY <1>a DEF Creation, ClientStep
  <2> HIDE DEF new
  <2>4. /\ FdTypes' /\ Made' = [Made EXCEPT !["client"] = new.fd]
        /\ creating'["client"] = new /\ \A q \in Program \ {"client"} : creating'[q] = creating[q]
    <3>1. new.step \in ClientStep /\ new.fd # NoFd
      BY <1>a, <2>1, <2>3 DEF ClientStep
    <3> QED BY <1>0, <1>b, <2>1, <2>2, <2>3, <3>1, Kinds, GoesOn
  <2>5. FdsInv'
    <3>1. Made' = Made
      BY <1>b, <2>3, <2>4
    <3> QED BY <1>0, <2>1, <3>1 DEF FdsInv
  <2>6. CreatingInv'
    BY <1>0, <2>1, <2>3, <2>4, Kinds DEF CreatingInv
  <2>7. EndsInv'
    <3>1. ~ (object["accepted"] # NoFd \/ creating["server"].step = "nodelay")
      BY <2>1 DEF EndsInv, NoStream
    <3> QED BY <2>1, <2>4, <3>1, Kinds DEF EndsInv
  <2> QED BY <2>4, <2>5, <2>6, <2>7 DEF FdInv
<1>5. CASE ConnectError \/ OptionsFail
  <2>1. /\ creating["client"].step \in {"connect", "options"} /\ Abandoned("client", NextAddress)
        /\ UNCHANGED <<object, records, streamVars, datagram>>
    BY <1>5 DEF ConnectError, OptionsFail
  <2>2. /\ FdTypes' /\ FdsInv'
        /\ creating'["client"].step = "next" /\ \A q \in Program \ {"client"} : creating'[q] = creating[q]
    BY <1>0, <1>a, <1>d, <2>1, Kinds, AbandonedStep
  <2>3. CreatingInv'
    BY <1>0, <2>1, <2>2, Kinds DEF CreatingInv
  <2>4. stream' = stream \/ stream' = LeftBy("client")
    BY <1>5 DEF ConnectError, OptionsFail
  <2>5. EndsInv'
    <3>1. stream.state = "up" /\ "accepted" \in stream.ends
            => stream'.state = "up" /\ "accepted" \in stream'.ends
      BY <2>4 DEF LeftBy, StreamTypes
    <3> QED BY <2>1, <2>2, <3>1, Kinds DEF EndsInv, streamVars
  <2> QED BY <2>2, <2>3, <2>5 DEF FdInv
<1>6. CASE ClientCreated
  <2>1. /\ creating["client"].step = "options" /\ Created("client", "client") /\ records' = 0
        /\ UNCHANGED <<fds, stream, streamVars, datagram, troubles>>
    BY <1>6 DEF ClientCreated
  <2>2. object["client"] = NoFd
    BY <1>0, <2>1 DEF CreatingInv
  <2>3. /\ FdTypes' /\ FdsInv'
        /\ creating'["client"].step = "none" /\ \A q \in Program \ {"client"} : creating'[q] = creating[q]
        /\ \A r \in Role \ {"client"} : object'[r] = object[r]
    BY <1>0, <1>a, <2>1, <2>2, Kinds, CreatedStep
  <2>4. CreatingInv'
    BY <1>0, <2>1, <2>3, Kinds DEF CreatingInv
  <2>5. EndsInv'
    BY <2>1, <2>2, <2>3, Kinds DEF EndsInv, streamVars
  <2> QED BY <2>3, <2>4, <2>5 DEF FdInv
<1> QED BY <1>1, <1>2, <1>3, <1>4, <1>5, <1>6

(* The end of a socket. *)
LEMMA DestroyInv ==
  ASSUME FdInv, EndsInv, StreamTypes, NEW role \in Role,
         object[role] # NoFd, fds' = fds \ {object[role]}, object' = [object EXCEPT ![role] = NoFd],
         UNCHANGED <<creating, records, streamVars>>,
         role = "client" => writing = NoWrite,
         role = "accepted" => reading = NoRead,
         \/ stream' = stream
         \/ role # "listener" /\ stream' = LeftBy(role)
         \/ stream.state = "pending" /\ stream' = NoStream
  PROVE  FdInv' /\ EndsInv'
<1>0. FdTypes /\ FdsInv /\ CreatingInv
  BY DEF FdInv
<1>1. object \in [Role -> Fd] /\ Made \in [Program -> Fd] /\ Made' = Made
  BY <1>0, MadeIs DEF Made
<1>2. /\ object' \in [Role -> Fd] /\ object'[role] = NoFd
      /\ \A r \in Role \ {role} : object'[r] = object[r]
  BY <1>1 DEF Fd
<1>3. FdTypes'
  BY <1>0, <1>2 DEF FdTypes
<1>4. FdsInv'
  <2>1. FdsAre(fds \ {object[role]}, [object EXCEPT ![role] = NoFd], Made)
    BY <1>0, <1>1, FdsDestroy DEF FdsInv
  <2> QED BY <1>1, <2>1 DEF FdsInv
<1>5. CreatingInv'
  BY <1>0, <1>2, Kinds DEF CreatingInv
<1>6. EndsInv'
  <2>1. object'["accepted"] # NoFd \/ creating["server"].step = "nodelay"
          => stream'.state = "up" /\ "accepted" \in stream'.ends
    <3> SUFFICES ASSUME object'["accepted"] # NoFd \/ creating["server"].step = "nodelay"
                 PROVE  stream'.state = "up" /\ "accepted" \in stream'.ends
      OBVIOUS
    <3>1. object["accepted"] # NoFd \/ creating["server"].step = "nodelay"
      BY <1>2, Kinds
    <3>2. stream.state = "up" /\ "accepted" \in stream.ends
      BY <3>1 DEF EndsInv
    <3>3. role # "accepted"
      BY <1>0, <1>2 DEF CreatingInv
    <3>4. CASE stream' = LeftBy(role)
      <4>1. LeftBy(role) = [stream EXCEPT !.ends = @ \ {role}]
        BY <3>2, <3>3 DEF LeftBy
      <4> QED BY <3>2, <3>3, <3>4, <4>1 DEF StreamTypes
    <3> QED BY <3>2, <3>4
  <2>2. writing' # NoWrite => object'["client"] # NoFd
    BY <1>2, Kinds DEF EndsInv, streamVars
  <2>3. IF reading'.on THEN object'["accepted"] # NoFd ELSE reading' = NoRead
    BY <1>2, Kinds DEF EndsInv, streamVars, NoRead
  <2> QED BY <2>1, <2>2, <2>3 DEF EndsInv
<1> QED BY <1>3, <1>4, <1>5, <1>6 DEF FdInv

(* The steps of the UDP socket that open or close it. *)
LEMMA UDPStepInv ==
  ASSUME FdInv, EndsInv, StreamTypes,
         radUDPSocketCreate \/ UDPCreated \/ radUDPSocketDestroy
  PROVE  FdInv' /\ EndsInv'
<1>0. FdTypes /\ FdsInv /\ CreatingInv
  BY DEF FdInv
<1>a. /\ creating["server"].fd = NoFd <=> creating["server"].step \in {"none", "next"}
      /\ creating["server"].step \in ServerStep
  BY <1>0, Kinds DEF FdTypes
<1>b. <<>> \in Seq(STRING)
  OBVIOUS
<1>1. CASE radUDPSocketCreate
  <2>1. /\ creating["server"].step = "none" /\ \A r \in Role : object[r] = NoFd
        /\ Opens("server", "reuse", <<>>)
        /\ UNCHANGED <<object, records, stream, streamVars, datagram, troubles>>
    BY <1>1, Kinds DEF radUDPSocketCreate, NotCreating
  <2>2. PICK a, b, c : fds \subseteq {a, b, c}
    BY <1>0, <1>a, <2>1, Kinds, Users
  <2>3. /\ FdTypes' /\ FdsInv'
        /\ creating'["server"].step = "reuse" /\ \A q \in Program \ {"server"} : creating'[q] = creating[q]
    BY <1>0, <1>a, <1>b, <2>1, <2>2, Kinds, OpensStep
  <2>4. CreatingInv'
    BY <1>0, <2>1, <2>3, Kinds DEF CreatingInv
  <2>5. EndsInv'
    BY <2>1, <2>3 DEF EndsInv, streamVars
  <2> QED BY <2>3, <2>4, <2>5 DEF FdInv
<1>2. CASE UDPCreated
  <2>1. /\ creating["server"].step = "reuse" /\ Created("server", "datagram")
        /\ UNCHANGED <<fds, records, stream, streamVars, troubles>>
    BY <1>2 DEF UDPCreated
  <2>2. object["datagram"] = NoFd /\ object["listener"] = NoFd
    BY <1>0, <2>1 DEF CreatingInv
  <2>3. /\ FdTypes' /\ FdsInv'
        /\ creating'["server"].step = "none" /\ \A q \in Program \ {"server"} : creating'[q] = creating[q]
        /\ \A r \in Role \ {"datagram"} : object'[r] = object[r]
    BY <1>0, <1>a, <2>1, <2>2, Kinds, CreatedStep
  <2>4. CreatingInv'
    BY <1>0, <2>1, <2>2, <2>3, Kinds DEF CreatingInv
  <2>5. EndsInv'
    BY <2>1, <2>3, Kinds DEF EndsInv, streamVars
  <2> QED BY <2>3, <2>4, <2>5 DEF FdInv
<1>3. CASE radUDPSocketDestroy
  <2>1. /\ object["datagram"] # NoFd /\ fds' = fds \ {object["datagram"]}
        /\ object' = [object EXCEPT !["datagram"] = NoFd]
        /\ UNCHANGED <<creating, records, streamVars>> /\ stream' = stream
    BY <1>3 DEF radUDPSocketDestroy
  <2> QED BY <2>1, Kinds, DestroyInv
<1> QED BY <1>1, <1>2, <1>3

(* Every step accounts for the descriptors. *)
LEMMA FdStep ==
  ASSUME FdInv, EndsInv, StreamTypes, SocketNext
  PROVE  FdInv' /\ EndsInv'
<1>1. CASE \/ radSocketServerCreate \/ Listening \/ ServerCreateFails
           \/ radSocketServerAcceptConnection \/ Accepted \/ AcceptFails
  BY <1>1, ServerStepInv
<1>2. CASE \/ radSocketClientCreateAny \/ radSocketClientCreate \/ NoServer \/ Connects
           \/ ConnectError \/ OptionsFail \/ ClientCreated
  BY <1>2, ClientStepInv
<1>3. CASE \E r \in Role \ {"datagram"} : radSocketDestroy(r)
  <2>1. PICK r \in Role \ {"datagram"} : radSocketDestroy(r)
    BY <1>3
  <2>2. /\ object[r] # NoFd /\ fds' = fds \ {object[r]} /\ object' = [object EXCEPT ![r] = NoFd]
        /\ UNCHANGED <<creating, records, streamVars>>
        /\ (r = "client" => writing = NoWrite) /\ (r = "accepted" => reading = NoRead)
        /\ \/ stream' = stream
           \/ r # "listener" /\ stream' = LeftBy(r)
           \/ stream.state = "pending" /\ stream' = NoStream
    BY <2>1 DEF radSocketDestroy
  <2> QED BY <2>2, DestroyInv
<1>4. CASE radUDPSocketCreate \/ UDPCreated \/ radUDPSocketDestroy
  BY <1>4, UDPStepInv
<1>5. CASE \/ radSocketWriteExact \/ WriteSome \/ WriteError
           \/ radSocketReadExact \/ ReadSome \/ ReadShort \/ ReadError
  <2>1. UNCHANGED <<fds, object, creating, records>>
    BY <1>5 DEF radSocketWriteExact, WriteSome, WriteError, radSocketReadExact, ReadSome, ReadShort, ReadError
  <2>2. stream.state = "up" /\ "accepted" \in stream.ends
          => stream'.state = "up" /\ "accepted" \in stream'.ends
    BY <1>5 DEF StreamTypes, radSocketWriteExact, WriteSome, WriteError, radSocketReadExact, ReadSome,
                ReadShort, ReadError
  <2>3. writing' = writing \/ writing' = NoWrite \/ object["client"] # NoFd
    BY <1>5 DEF EndsInv, radSocketWriteExact, WriteSome, WriteError, radSocketReadExact, ReadSome,
                ReadShort, ReadError
  <2>4. reading' = reading \/ reading' = NoRead \/ (reading'.on /\ object["accepted"] # NoFd)
    <3>1. CASE radSocketWriteExact \/ WriteSome \/ WriteError
      BY <3>1 DEF radSocketWriteExact, WriteSome, WriteError
    <3>2. CASE radSocketReadExact
      BY <3>2 DEF radSocketReadExact
    <3>3. CASE ReadSome
      <4>1. reading.on /\ (reading' = NoRead \/ \E got : reading' = [reading EXCEPT !.got = got])
        BY <3>3 DEF ReadSome, Answers
      <4>2. reading.on => object["accepted"] # NoFd
        BY DEF EndsInv
      <4> QED BY <4>1, <4>2 DEF StreamTypes
    <3>4. CASE ReadShort \/ ReadError
      BY <3>4 DEF ReadShort, ReadError, Answers
    <3> QED BY <1>5, <3>1, <3>2, <3>3, <3>4
  <2>5. EndsInv'
    BY <2>1, <2>2, <2>3, <2>4 DEF EndsInv, NoRead
  <2> QED BY <2>1, <2>5, FdFrame
<1>6. CASE \/ radUDPSocketBind \/ radUDPSocketRecvFrom
           \/ \E enable \in BOOLEAN : radUDPSocketSetBroadcast(enable)
           \/ \E g \in Group : radUDPSocketAddMulticastMembership(g) \/ radUDPSocketDropMulticastMembership(g)
           \/ \E to \in Group \cup {"port"}, n \in 1 .. Length : radUDPSocketSendTo(to, n)
  <2>1. UDPOnly
    BY <1>6 DEF radUDPSocketBind, radUDPSocketRecvFrom, radUDPSocketSetBroadcast,
                radUDPSocketAddMulticastMembership, radUDPSocketDropMulticastMembership, radUDPSocketSendTo
  <2>2. UNCHANGED <<fds, object, creating, records, stream, writing, reading>>
    BY <2>1 DEF UDPOnly, streamVars
  <2>3. EndsInv'
    BY <2>2 DEF EndsInv
  <2> QED BY <2>2, <2>3, FdFrame
<1> QED BY <1>1, <1>2, <1>3, <1>4, <1>5, <1>6 DEF SocketNext

-----------------------------------------------------------------------------
StreamInv == StreamTypes /\ WriteInv /\ AnsweredInv /\ HeardInv

(* A stream is a record, and what is left of it keeps what is under way.   *)
LEMMA LeftIs ==
  ASSUME StreamTypes, NEW role \in Role
  PROVE  /\ LeftBy(role) \in [state : {"none", "pending", "up"}, ends : SUBSET {"client", "accepted"},
                              wire : Seq(AByte)]
         /\ NoStream \in [state : {"none", "pending", "up"}, ends : SUBSET {"client", "accepted"},
                          wire : Seq(AByte)]
         /\ LeftBy(role) # NoStream => stream # NoStream /\ LeftBy(role).wire = stream.wire
<1>1. <<>> \in Seq(AByte)
  OBVIOUS
<1>2. NoStream \in [state : {"none", "pending", "up"}, ends : SUBSET {"client", "accepted"}, wire : Seq(AByte)]
  BY <1>1 DEF NoStream
<1>3. CASE stream.state = "up" /\ stream.ends = {role}
  BY <1>2, <1>3 DEF LeftBy
<1>4. CASE ~ (stream.state = "up" /\ stream.ends = {role})
  <2>1. LeftBy(role) = [stream EXCEPT !.ends = @ \ {role}]
    BY <1>4 DEF LeftBy
  <2>a. stream.ends \ {role} \in SUBSET {"client", "accepted"}
    BY DEF StreamTypes
  <2>2. LeftBy(role) \in [state : {"none", "pending", "up"}, ends : SUBSET {"client", "accepted"},
                          wire : Seq(AByte)]
        /\ LeftBy(role).wire = stream.wire
    BY <2>1, <2>a DEF StreamTypes
  <2>3. stream = NoStream => LeftBy(role) = NoStream
    <3>1. ASSUME stream = NoStream PROVE LeftBy(role) = NoStream
      <4>1. stream.ends \ {role} = stream.ends
        BY <3>1 DEF NoStream
      <4>2. LeftBy(role) = [stream EXCEPT !.ends = stream.ends]
        BY <2>1, <4>1
      <4>3. LeftBy(role) = stream
        BY <4>2 DEF StreamTypes
      <4> QED BY <3>1, <4>3
    <3> QED BY <3>1
  <2> QED BY <1>2, <2>2, <2>3
<1> QED BY <1>2, <1>3, <1>4

(* What is written, read and under way is as before, or the stream is gone. *)
LEMMA StreamFrame ==
  ASSUME StreamInv, UNCHANGED streamVars,
         stream' \in [state : {"none", "pending", "up"}, ends : SUBSET {"client", "accepted"},
                      wire : Seq(AByte)],
         stream' # NoStream => stream # NoStream /\ stream'.wire = stream.wire
  PROVE  StreamInv'
<1>1. StreamTypes'
  BY DEF StreamInv, StreamTypes, streamVars
<1>2. WriteInv' /\ AnsweredInv'
  BY DEF StreamInv, WriteInv, AnsweredInv, streamVars
<1>3. HeardInv'
  BY DEF StreamInv, HeardInv, streamVars
<1> QED BY <1>1, <1>2, <1>3 DEF StreamInv

(* The bytes of the message in progress are appended to those written. *)
LEMMA LiesLonger ==
  ASSUME NEW m \in Nat, NEW d \in Nat, NEW n \in Nat, NEW bytes \in Seq(AByte), d <= Len(bytes),
         Lies(m, Len(bytes) - d, d, bytes),
         NEW more \in Seq(AByte), Len(more) = n, \A i \in 1 .. n : more[i] = Byte(m, d + i)
  PROVE  Lies(m, Len(bytes \o more) - (d + n), d + n, bytes \o more)
<1> DEFINE L == Len(bytes)
           new == bytes \o more
           i == L - d
<1>1. L \in Nat /\ Len(new) = L + n /\ new \in Seq(AByte) /\ i \in Nat
  <2>1. L \in Nat
    BY LenProperties
  <2>2. Len(new) = L + n /\ new \in Seq(AByte)
    BY ConcatProperties
  <2>3. i \in Nat
    BY <2>1
  <2> QED BY <2>1, <2>2, <2>3
<1>2. \A k \in 1 .. L + n : new[k] = IF k <= L THEN bytes[k] ELSE more[k - L]
  BY <1>1, ConcatProperties
<1>3. Len(new) - (d + n) = i
  BY <1>1
<1>4. \A k \in 1 .. L : IF k \in i + 1 .. i + d THEN bytes[k] = Byte(m, k - i) ELSE bytes[k][1] # m
  BY DEF Lies
<1> HIDE DEF new
<1>5. ASSUME NEW k \in 1 .. L + n
      PROVE  IF k \in i + 1 .. i + (d + n) THEN new[k] = Byte(m, k - i) ELSE new[k][1] # m
  <2>0. k \in Nat /\ k <= L + n /\ 1 <= k
    BY <1>1
  <2>1. CASE k <= L
    <3>1. new[k] = bytes[k] /\ k \in 1 .. L
      BY <1>1, <1>2, <2>0, <2>1
    <3>2. k \in i + 1 .. i + d <=> k \in i + 1 .. i + (d + n)
      BY <1>1, <2>0, <2>1
    <3> QED BY <1>4, <3>1, <3>2
  <2>2. CASE k > L
    <3>1. new[k] = more[k - L] /\ k - L \in 1 .. n
      BY <1>1, <1>2, <2>0, <2>2
    <3>2. more[k - L] = Byte(m, d + (k - L))
      BY <3>1
    <3>3. d + (k - L) = k - i /\ k \in i + 1 .. i + (d + n)
      BY <1>1, <2>0, <2>2
    <3> QED BY <3>1, <3>2, <3>3
  <2> QED BY <1>1, <2>0, <2>1, <2>2
<1>6. \A k \in 1 .. Len(new) :
        IF k \in i + 1 .. i + (d + n) THEN new[k] = Byte(m, k - i) ELSE new[k][1] # m
  BY <1>1, <1>5
<1>7. Lies(m, i, d + n, new)
  BY <1>6 DEF Lies
<1> HIDE DEF i
<1> QED BY <1>3, <1>7 DEF new

(* They are none of another message. *)
LEMMA LiesStill ==
  ASSUME NEW m \in Nat, NEW n \in Nat, NEW bytes \in Seq(AByte), NEW i \in 0 .. Len(bytes) - n,
         Lies(m, i, n, bytes),
         NEW more \in Seq(AByte), \A k \in 1 .. Len(more) : more[k][1] # m
  PROVE  i \in 0 .. Len(bytes \o more) - n /\ Lies(m, i, n, bytes \o more)
<1> DEFINE L == Len(bytes)
           new == bytes \o more
<1>1. L \in Nat /\ Len(more) \in Nat /\ Len(new) = L + Len(more) /\ i \in Nat /\ i + n <= L
  BY ConcatProperties
<1>2. \A k \in 1 .. L + Len(more) : new[k] = IF k <= L THEN bytes[k] ELSE more[k - L]
  BY <1>1, ConcatProperties
<1>3. \A k \in 1 .. L : IF k \in i + 1 .. i + n THEN bytes[k] = Byte(m, k - i) ELSE bytes[k][1] # m
  BY DEF Lies
<1> HIDE DEF new
<1>4. ASSUME NEW k \in 1 .. L + Len(more)
      PROVE  IF k \in i + 1 .. i + n THEN new[k] = Byte(m, k - i) ELSE new[k][1] # m
  <2>1. CASE k <= L
    <3>1. k \in 1 .. L /\ k \in 1 .. L + Len(more)
      BY <1>1, <2>1
    <3>2. new[k] = bytes[k]
      BY <1>2, <2>1, <3>1
    <3> QED BY <1>3, <3>1, <3>2
  <2>2. CASE k > L
    <3>1. new[k] = more[k - L] /\ k - L \in 1 .. Len(more) /\ ~ (k \in i + 1 .. i + n)
      BY <1>1, <1>2, <2>2
    <3> QED BY <3>1
  <2> QED BY <1>1, <2>1, <2>2
<1>5. Lies(m, i, n, new)
  BY <1>1, <1>4 DEF Lies
<1>6. i \in 0 .. Len(new) - n
  BY <1>1
<1> QED BY <1>5, <1>6 DEF new

(* Concatenation of bytes is associative. *)
LEMMA Joined ==
  \A a, b, c \in Seq(AByte) : (a \o b) \o c = a \o (b \o c)
BY ConcatAssociative

(* A sequence is its first n members and the others. *)
LEMMA Parted ==
  ASSUME NEW S, NEW s \in Seq(S), NEW n \in 1 .. Len(s)
  PROVE  /\ SubSeq(s, 1, n) \in Seq(S) /\ SubSeq(s, n + 1, Len(s)) \in Seq(S)
         /\ Len(SubSeq(s, 1, n)) = n
         /\ SubSeq(s, 1, n) \o SubSeq(s, n + 1, Len(s)) = s
<1> DEFINE a == SubSeq(s, 1, n)
           b == SubSeq(s, n + 1, Len(s))
<1>1. Len(s) \in Nat /\ n \in Nat /\ \A k \in 1 .. Len(s) : s[k] \in S
  BY LenProperties, ElementOfSeq
<1>2. a \in Seq(S) /\ Len(a) = n /\ \A k \in 1 .. n : a[k] = s[k]
  <2>1. /\ a \in Seq(S) /\ Len(a) = (IF 1 <= n THEN n - 1 + 1 ELSE 0)
        /\ \A k \in 1 .. n - 1 + 1 : a[k] = s[1 + k - 1]
    <3>1. \A k \in 1 .. n : s[k] \in S
      BY <1>1
    <3> QED BY <1>1, <3>1, SubSeqProperties
  <2> QED BY <1>1, <2>1
<1>3. b \in Seq(S) /\ Len(b) = Len(s) - n /\ \A k \in 1 .. Len(s) - n : b[k] = s[n + k]
  <2>1. /\ b \in Seq(S) /\ Len(b) = (IF n + 1 <= Len(s) THEN Len(s) - (n + 1) + 1 ELSE 0)
        /\ \A k \in 1 .. Len(s) - (n + 1) + 1 : b[k] = s[(n + 1) + k - 1]
    <3>1. \A k \in n + 1 .. Len(s) : s[k] \in S
      BY <1>1
    <3> QED BY <1>1, <3>1, SubSeqProperties
  <2> QED BY <1>1, <2>1
<1> HIDE DEF a, b
<1>4. a \o b \in Seq(S) /\ Len(a \o b) = Len(s)
  <2>1. a \o b \in Seq(S) /\ Len(a \o b) = Len(a) + Len(b)
    BY <1>2, <1>3, ConcatProperties
  <2> QED BY <1>1, <1>2, <1>3, <2>1
<1>5. \A k \in 1 .. Len(s) : (a \o b)[k] = s[k]
  <2>1. \A k \in 1 .. Len(a) + Len(b) : (a \o b)[k] = IF k <= Len(a) THEN a[k] ELSE b[k - Len(a)]
    BY <1>2, <1>3, ConcatProperties
  <2> SUFFICES ASSUME NEW k \in 1 .. Len(s) PROVE (a \o b)[k] = s[k]
    OBVIOUS
  <2>2. k \in 1 .. Len(a) + Len(b)
    BY <1>1, <1>2, <1>3
  <2>3. CASE k <= n
    BY <1>1, <1>2, <2>1, <2>2, <2>3
  <2>4. CASE k > n
    <3>1. (a \o b)[k] = b[k - n]
      BY <1>1, <1>2, <2>1, <2>2, <2>4
    <3>2. k - n \in 1 .. Len(s) - n /\ n + (k - n) = k
      <4>1. k \in Nat /\ k <= Len(s)
        BY <1>1
      <4> QED BY <1>1, <2>4, <4>1
    <3>3. b[k - n] = s[n + (k - n)]
      BY <1>3, <3>2
    <3> QED BY <3>1, <3>2, <3>3
  <2>5. k <= n \/ k > n
    BY <1>1
  <2> QED BY <2>3, <2>4, <2>5
<1>6. a \o b = s
  BY <1>4, <1>5, SeqEqual
<1> QED BY <1>2, <1>3, <1>6 DEF a, b

(* A write begins, goes on, ends. *)
LEMMA WriteStepInv ==
  ASSUME StreamInv, radSocketWriteExact \/ WriteSome \/ WriteError
  PROVE  StreamInv'
<1>0. StreamTypes /\ WriteInv /\ AnsweredInv /\ HeardInv
  BY DEF StreamInv
<1>a. /\ written \in Seq(AByte) /\ answered \in SUBSET Nat /\ Len(written) \in Nat
      /\ writing \in [message : Nat, done : Nat]
  BY <1>0, LenProperties DEF StreamTypes
<1>b. Length \in Nat /\ Length >= 1
  BY SocketsAssumption
<1>1. CASE radSocketWriteExact
  <2>1. PICK m \in 1 .. MaxMessagesOut :
          (\A b \in Range(written) : b[1] < m) /\ writing' = [message |-> m, done |-> 0]
    BY <1>1 DEF radSocketWriteExact
  <2>2. UNCHANGED <<stream, reading, written, answered, heard>>
    BY <1>1 DEF radSocketWriteExact
  <2>3. m \in Nat
    BY <2>1
  <2>4. \A k \in 1 .. Len(written) : written[k] \in AByte /\ written[k][1] \in Nat /\ written[k][1] < m
    <3> SUFFICES ASSUME NEW k \in 1 .. Len(written)
                 PROVE  written[k] \in AByte /\ written[k][1] \in Nat /\ written[k][1] < m
      OBVIOUS
    <3>1. written[k] \in AByte
      BY <1>a, ElementOfSeq
    <3>2. written[k] \in Range(written)
      BY <1>a DEF Range
    <3> QED BY <2>1, <3>1, <3>2 DEF AByte
  <2>5. m \notin answered
    <3> SUFFICES ASSUME m \in answered PROVE FALSE
      OBVIOUS
    <3>1. PICK i \in 0 .. Len(written) - Length : Lies(m, i, Length, written)
      BY <1>0 DEF AnsweredInv
    <3>2. i + 1 \in 1 .. Len(written) /\ i + 1 \in i + 1 .. i + Length /\ (i + 1) - i = 1
      BY <1>a, <1>b
    <3>3. written[i + 1] = Byte(m, 1)
      BY <3>1, <3>2 DEF Lies
    <3>4. written[i + 1][1] = m
      BY <3>3 DEF Byte
    <3>5. written[i + 1][1] < m
      BY <2>4, <3>2
    <3> QED BY <2>3, <3>4, <3>5
  <2>6. Lies(m, Len(written) - 0, 0, written)
    <3> SUFFICES ASSUME NEW k \in 1 .. Len(written)
                 PROVE  IF k \in (Len(written) - 0) + 1 .. (Len(written) - 0) + 0
                        THEN written[k] = Byte(m, k - (Len(written) - 0)) ELSE written[k][1] # m
      BY DEF Lies
    <3>1. k \notin (Len(written) - 0) + 1 .. (Len(written) - 0) + 0
      BY <1>a
    <3> QED BY <2>3, <2>4, <3>1
  <2>7. WriteInv'
    <3>1. writing'.message = m /\ writing'.done = 0
      BY <2>1
    <3> QED BY <1>a, <1>b, <2>2, <2>5, <2>6, <3>1 DEF WriteInv
  <2>8. StreamTypes'
    BY <1>0, <2>1, <2>2, <2>3 DEF StreamTypes
  <2>9. AnsweredInv' /\ HeardInv'
    BY <1>0, <2>2 DEF AnsweredInv, HeardInv
  <2> QED BY <2>7, <2>8, <2>9 DEF StreamInv
<1>2. CASE WriteSome
  <2> DEFINE m == writing.message
             d == writing.done
  <2>1. writing # NoWrite /\ Writable /\ UNCHANGED <<reading, heard>>
    BY <1>2 DEF WriteSome
  <2>2. PICK n \in 1 .. Length - d :
          /\ stream' = [stream EXCEPT !.wire = @ \o Bytes(n)]
          /\ written' = written \o Bytes(n)
          /\ IF d + n = Length
             THEN /\ answered' = answered \cup {m}
                  /\ writing' = NoWrite
             ELSE /\ writing' = [writing EXCEPT !.done = d + n]
                  /\ UNCHANGED answered
    BY <1>2 DEF WriteSome
  <2> DEFINE more == Bytes(n)
  <2>3. m \in Nat /\ d \in Nat /\ n \in Nat /\ d + n <= Length /\ n >= 1
    <3>1. m \in Nat /\ d \in Nat
      BY <1>a
    <3> QED BY <1>b, <3>1
  <2>4. more \in Seq(AByte) /\ Len(more) = n /\ \A i \in 1 .. n : more[i] = Byte(m, d + i)
    <3>1. more = [i \in 1 .. n |-> Byte(m, d + i)]
      BY DEF Bytes
    <3>2. \A i \in 1 .. n : Byte(m, d + i) \in AByte
      BY <2>3 DEF Byte, AByte
    <3>3. more \in [1 .. n -> AByte]
      BY <3>1, <3>2
    <3>4. more \in Seq(AByte)
      BY <2>3, <3>3
    <3> QED BY <2>3, <3>1, <3>3, <3>4, LenProperties
  <2>5. m \notin answered /\ d < Length /\ d <= Len(written) /\ Lies(m, Len(written) - d, d, written)
    BY <1>0, <2>1 DEF WriteInv
  <2> HIDE DEF m, d, more
  <2>6. /\ stream' = [stream EXCEPT !.wire = @ \o more] /\ written' = written \o more
        /\ IF d + n = Length
           THEN answered' = answered \cup {m} /\ writing' = NoWrite
           ELSE writing' = [writing EXCEPT !.done = d + n] /\ UNCHANGED answered
    BY <2>2 DEF m, d, more
  <2>7. Lies(m, Len(written') - (d + n), d + n, written')
    <3>1. Lies(m, Len(written \o more) - (d + n), d + n, written \o more)
      BY <1>a, <2>3, <2>4, <2>5, LiesLonger
    <3> QED BY <2>6, <3>1
  <2>8. written' \in Seq(AByte) /\ Len(written') = Len(written) + n
    BY <1>a, <2>4, <2>6, ConcatProperties
  <2>9. \A a \in answered : \E i \in 0 .. Len(written') - Length : Lies(a, i, Length, written')
    <3> SUFFICES ASSUME NEW a \in answered
                 PROVE  \E i \in 0 .. Len(written') - Length : Lies(a, i, Length, written')
      OBVIOUS
    <3>1. PICK i \in 0 .. Len(written) - Length : Lies(a, i, Length, written)
      BY <1>0 DEF AnsweredInv
    <3>2. a \in Nat /\ a # m
      BY <1>a, <2>5
    <3>3. \A k \in 1 .. Len(more) : more[k][1] # a
      BY <2>4, <3>2 DEF Byte
    <3>4. i \in 0 .. Len(written \o more) - Length /\ Lies(a, i, Length, written \o more)
      BY <1>a, <1>b, <2>4, <3>1, <3>2, <3>3, LiesStill
    <3> QED BY <2>6, <3>4
  <2>10. AnsweredInv' /\ WriteInv'
    <3>1. CASE d + n = Length
      <4>1. answered' = answered \cup {m} /\ writing' = NoWrite
        BY <2>6, <3>1
      <4>2. Len(written') - (d + n) \in 0 .. Len(written') - Length
        BY <1>a, <2>3, <2>5, <2>8, <3>1
      <4>3. Lies(m, Len(written') - (d + n), Length, written')
        BY <2>7, <3>1
      <4>4. AnsweredInv'
        BY <2>9, <4>1, <4>2, <4>3 DEF AnsweredInv
      <4> QED BY <4>1, <4>4 DEF WriteInv
    <3>2. CASE d + n # Length
      <4>1. writing' = [writing EXCEPT !.done = d + n] /\ UNCHANGED answered
        BY <2>6, <3>2
      <4>2. writing'.message = m /\ writing'.done = d + n
        BY <1>a, <4>1 DEF m
      <4>3. d + n < Length /\ d + n <= Len(written')
        BY <1>a, <1>b, <2>3, <2>5, <2>8, <3>2
      <4>4. WriteInv'
        BY <2>5, <2>7, <4>1, <4>2, <4>3 DEF WriteInv
      <4>5. AnsweredInv'
        BY <2>9, <4>1 DEF AnsweredInv
      <4> QED BY <4>4, <4>5
    <3> QED BY <3>1, <3>2
  <2>11. StreamTypes'
    <3>1. stream.wire \in Seq(AByte) /\ stream.wire \o more \in Seq(AByte)
      BY <1>0, <2>4, ConcatProperties DEF StreamTypes
    <3>2. stream' \in [state : {"none", "pending", "up"}, ends : SUBSET {"client", "accepted"}, wire : Seq(AByte)]
      BY <1>0, <2>6, <3>1 DEF StreamTypes
    <3>3. writing' \in [message : Nat, done : Nat] /\ answered' \in SUBSET Nat
      BY <1>a, <2>3, <2>6 DEF NoWrite
    <3> QED BY <1>0, <2>1, <2>8, <3>2, <3>3 DEF StreamTypes
  <2>12. HeardInv'
    <3> SUFFICES ASSUME heard.whole PROVE heard.bytes \o reading.got \o stream'.wire = written'
      BY <2>1 DEF HeardInv
    <3>1. stream # NoStream
      BY <2>1 DEF Writable, NoStream
    <3>2. (heard.bytes \o reading.got) \o stream.wire = written
      BY <1>0, <3>1 DEF HeardInv
    <3>3. heard.bytes \o reading.got \in Seq(AByte) /\ stream.wire \in Seq(AByte)
      BY <1>0, ConcatProperties DEF StreamTypes
    <3>4. stream'.wire = stream.wire \o more
      BY <1>0, <2>6 DEF StreamTypes
    <3> DEFINE h == heard.bytes \o reading.got
               w == stream.wire
    <3>5. h \in Seq(AByte) /\ w \in Seq(AByte) /\ h \o w = written /\ stream'.wire = w \o more
      BY <3>2, <3>3, <3>4
    <3> HIDE DEF h, w
    <3>6. (h \o w) \o more = h \o (w \o more)
      <4>1. more \in Seq(AByte)
        BY <2>4
      <4>2. h \in Seq(AByte) /\ w \in Seq(AByte)
        BY <3>5
      <4> QED BY <4>1, <4>2, Joined, Zenon
    <3>7. h \o stream'.wire = written'
      BY <2>6, <3>5, <3>6
    <3> QED BY <3>7 DEF h
  <2> QED BY <2>10, <2>11, <2>12 DEF StreamInv
<1>3. CASE WriteError
  <2>1. writing' = NoWrite /\ UNCHANGED <<stream, reading, written, answered, heard>>
    BY <1>3 DEF WriteError
  <2>2. StreamTypes' /\ WriteInv'
    BY <1>0, <2>1 DEF StreamTypes, WriteInv, NoWrite
  <2>3. AnsweredInv' /\ HeardInv'
    BY <1>0, <2>1 DEF AnsweredInv, HeardInv
  <2> QED BY <2>2, <2>3 DEF StreamInv
<1> QED BY <1>1, <1>2, <1>3

(* A read begins, goes on, ends. *)
LEMMA ReadStepInv ==
  ASSUME StreamInv, EndsInv, radSocketReadExact \/ ReadSome \/ ReadShort \/ ReadError
  PROVE  StreamInv'
<1>0. StreamTypes /\ WriteInv /\ AnsweredInv /\ HeardInv
  BY DEF StreamInv
<1>a. /\ reading \in [on : BOOLEAN, got : Seq(AByte)] /\ reading.got \in Seq(AByte)
      /\ heard \in [bytes : Seq(AByte), whole : BOOLEAN] /\ heard.bytes \in Seq(AByte)
      /\ stream.wire \in Seq(AByte) /\ Len(stream.wire) \in Nat
      /\ stream \in [state : {"none", "pending", "up"}, ends : SUBSET {"client", "accepted"}, wire : Seq(AByte)]
  BY <1>0, LenProperties DEF StreamTypes
<1>b. UNCHANGED <<writing, written, answered>>
  BY DEF radSocketReadExact, ReadSome, ReadShort, ReadError
<1>c. WriteInv' /\ AnsweredInv'
  BY <1>0, <1>b DEF WriteInv, AnsweredInv
<1>d. <<>> \in Seq(AByte) /\ NoRead \in [on : BOOLEAN, got : Seq(AByte)] /\ NoRead.got = <<>>
  <2>1. <<>> \in Seq(AByte)
    OBVIOUS
  <2> QED BY <2>1 DEF NoRead
<1>e. \A s \in Seq(AByte) : s \o <<>> = s
  BY ConcatEmptySeq
<1>1. CASE radSocketReadExact
  <2>1. ~ reading.on /\ reading' = [on |-> TRUE, got |-> <<>>] /\ UNCHANGED <<stream, heard>>
    BY <1>1 DEF radSocketReadExact
  <2>2. reading.got = <<>> /\ reading'.got = <<>>
    BY <1>d, <2>1 DEF EndsInv
  <2>3. StreamTypes'
    BY <1>0, <1>b, <1>d, <2>1 DEF StreamTypes
  <2>4. HeardInv'
    BY <1>0, <1>b, <2>1, <2>2 DEF HeardInv
  <2> QED BY <1>c, <2>3, <2>4 DEF StreamInv
<1>2. CASE ReadSome
  <2>1. PICK n \in 1 .. Length - Len(reading.got) :
          LET got == reading.got \o SubSeq(stream.wire, 1, n)
          IN  /\ n <= Len(stream.wire)
              /\ stream' = [stream EXCEPT !.wire = SubSeq(@, n + 1, Len(@))]
              /\ IF Len(got) = Length THEN Answers(got)
                 ELSE reading' = [reading EXCEPT !.got = got] /\ UNCHANGED heard
    BY <1>2 DEF ReadSome
  <2> DEFINE taken == SubSeq(stream.wire, 1, n)
             wire == SubSeq(stream.wire, n + 1, Len(stream.wire))
             got == reading.got \o taken
  <2>2. /\ taken \in Seq(AByte) /\ wire \in Seq(AByte) /\ taken \o wire = stream.wire
        /\ stream.wire # <<>>
    <3>1. n \in 1 .. Len(stream.wire)
      BY <1>a, <2>1
    <3>2. stream.wire # <<>>
      BY <1>a, <3>1
    <3> QED BY <1>a, <3>1, <3>2, Parted
  <2>3. stream' = [stream EXCEPT !.wire = wire]
    BY <2>1
  <2>4. IF Len(got) = Length THEN Answers(got)
        ELSE reading' = [reading EXCEPT !.got = got] /\ UNCHANGED heard
    BY <2>1
  <2> HIDE DEF taken, wire
  <2>5. got \in Seq(AByte)
    BY <1>a, <2>2, ConcatProperties
  <2>6. /\ stream' \in [state : {"none", "pending", "up"}, ends : SUBSET {"client", "accepted"}, wire : Seq(AByte)]
        /\ stream'.wire = wire
    BY <1>a, <2>2, <2>3
  <2>7. stream # NoStream
    BY <2>2 DEF NoStream
  <2>8. heard.whole => (heard.bytes \o got) \o wire = written
    <3> SUFFICES ASSUME heard.whole PROVE (heard.bytes \o got) \o wire = written
      OBVIOUS
    <3> DEFINE h == heard.bytes
               g == reading.got
    <3>1. (h \o g) \o stream.wire = written
      BY <1>0, <2>7 DEF HeardInv
    <3>2. h \in Seq(AByte) /\ g \in Seq(AByte) /\ got = g \o taken
      BY <1>a
    <3> HIDE DEF h, g, got
    <3>3. h \o g \in Seq(AByte)
      BY <3>2, ConcatProperties
    <3> DEFINE hg == h \o g
    <3>3a. hg \in Seq(AByte) /\ taken \in Seq(AByte) /\ wire \in Seq(AByte)
      BY <2>2, <3>3
    <3> HIDE DEF hg
    <3>3b. (hg \o taken) \o wire = hg \o (taken \o wire)
      BY <3>3a, Joined, Zenon
    <3>4. (h \o g) \o stream.wire = ((h \o g) \o taken) \o wire
      BY <2>2, <3>3b DEF hg
    <3>5. (h \o g) \o taken = h \o got
      <4>1. g \in Seq(AByte) /\ taken \in Seq(AByte) /\ h \in Seq(AByte)
        BY <2>2, <3>2
      <4>2. (h \o g) \o taken = h \o (g \o taken)
        BY <4>1, Joined, Zenon
      <4> QED BY <4>2, <3>2
    <3>6. (h \o got) \o wire = written
      BY <3>1, <3>4, <3>5
    <3> QED BY <3>6 DEF h
  <2> HIDE DEF got
  <2>9. CASE Len(got) = Length
    <3>1. heard' = [heard EXCEPT !.bytes = @ \o got] /\ reading' = NoRead
      BY <2>4, <2>9 DEF Answers
    <3>2. heard.bytes \o got \in Seq(AByte)
      BY <1>a, <2>5, ConcatProperties
    <3>3. /\ heard'.bytes = heard.bytes \o got /\ heard'.whole = heard.whole /\ reading'.got = <<>>
          /\ heard' \in [bytes : Seq(AByte), whole : BOOLEAN]
      BY <1>a, <1>d, <3>1, <3>2
    <3>4. StreamTypes'
      BY <1>0, <1>b, <1>d, <2>6, <3>1, <3>3 DEF StreamTypes
    <3>5. HeardInv'
      BY <1>b, <1>e, <2>6, <2>8, <3>2, <3>3 DEF HeardInv
    <3> QED BY <1>c, <3>4, <3>5 DEF StreamInv
  <2>10. CASE Len(got) # Length
    <3>1. reading' = [reading EXCEPT !.got = got] /\ UNCHANGED heard
      BY <2>4, <2>10
    <3>2. reading' \in [on : BOOLEAN, got : Seq(AByte)] /\ reading'.got = got
      BY <1>a, <2>5, <3>1
    <3>3. StreamTypes'
      BY <1>0, <1>b, <2>6, <3>1, <3>2 DEF StreamTypes
    <3>4. HeardInv'
      BY <1>b, <2>6, <2>8, <3>1, <3>2 DEF HeardInv
    <3> QED BY <1>c, <3>3, <3>4 DEF StreamInv
  <2> QED BY <2>9, <2>10
<1>3. CASE ReadShort
  <2>1. heard' = [heard EXCEPT !.bytes = @ \o reading.got] /\ reading' = NoRead /\ UNCHANGED stream
    BY <1>3 DEF ReadShort, Answers
  <2>2. heard.bytes \o reading.got \in Seq(AByte)
    BY <1>a, ConcatProperties
  <2>3. /\ heard'.bytes = heard.bytes \o reading.got /\ heard'.whole = heard.whole /\ reading'.got = <<>>
        /\ heard' \in [bytes : Seq(AByte), whole : BOOLEAN]
    BY <1>a, <1>d, <2>1, <2>2
  <2>4. StreamTypes'
    BY <1>0, <1>b, <1>d, <2>1, <2>3 DEF StreamTypes
  <2>5. HeardInv'
    BY <1>0, <1>b, <1>e, <2>1, <2>2, <2>3 DEF HeardInv
  <2> QED BY <1>c, <2>4, <2>5 DEF StreamInv
<1>4. CASE ReadError
  <2>1. /\ heard' = [heard EXCEPT !.whole = @ /\ reading.got = <<>>]
        /\ reading' = NoRead /\ UNCHANGED stream
    BY <1>4 DEF ReadError
  <2>2. /\ heard'.bytes = heard.bytes /\ heard' \in [bytes : Seq(AByte), whole : BOOLEAN]
        /\ heard'.whole => heard.whole /\ reading.got = <<>>
    BY <1>a, <2>1
  <2>3. StreamTypes'
    BY <1>0, <1>b, <1>d, <2>1, <2>2 DEF StreamTypes
  <2>4. HeardInv'
    BY <1>0, <1>b, <1>d, <2>1, <2>2 DEF HeardInv
  <2> QED BY <1>c, <2>3, <2>4 DEF StreamInv
<1> QED BY <1>1, <1>2, <1>3, <1>4

(* A connection begins with nothing written and nothing read. *)
LEMMA ConnectsStream ==
  ASSUME StreamInv, EndsInv, FdInv, Connects
  PROVE  StreamInv'
<1>0. StreamTypes /\ CreatingInv
  BY DEF StreamInv, FdInv
<1>1. /\ creating["client"].step = "connect" /\ stream = NoStream
      /\ stream' = [state |-> "pending", ends |-> {"client"}, wire |-> <<>>]
      /\ written' = <<>> /\ answered' = {} /\ heard' = [bytes |-> <<>>, whole |-> TRUE]
      /\ UNCHANGED <<writing, reading>>
  BY DEF Connects
<1>2. writing = NoWrite
  BY <1>0, <1>1 DEF EndsInv, CreatingInv
<1>3. reading = NoRead
  BY <1>1 DEF EndsInv, NoStream
<1>4. <<>> \in Seq(AByte)
  OBVIOUS
<1>5. StreamTypes'
  BY <1>0, <1>1, <1>4 DEF StreamTypes
<1>6. WriteInv' /\ AnsweredInv'
  BY <1>1, <1>2 DEF WriteInv, AnsweredInv
<1>7. HeardInv'
  <2>1. heard'.bytes = <<>> /\ reading'.got = <<>> /\ stream'.wire = <<>>
    BY <1>1, <1>3 DEF NoRead
  <2>2. <<>> \o <<>> \o <<>> = <<>>
    BY <1>4, ConcatEmptySeq
  <2> QED BY <1>1, <2>1, <2>2 DEF HeardInv
<1> QED BY <1>5, <1>6, <1>7 DEF StreamInv

(* Every step keeps the stream. *)
LEMMA StreamStep ==
  ASSUME StreamInv, EndsInv, FdInv, SocketNext
  PROVE  StreamInv'
<1>0. StreamTypes
  BY DEF StreamInv
<1> DEFINE Streams == [state : {"none", "pending", "up"}, ends : SUBSET {"client", "accepted"},
                       wire : Seq(AByte)]
<1>1. stream \in Streams
  BY <1>0 DEF StreamTypes
<1> HIDE DEF Streams
<1>2. CASE \/ radSocketWriteExact \/ WriteSome \/ WriteError
  BY <1>2, WriteStepInv
<1>3. CASE \/ radSocketReadExact \/ ReadSome \/ ReadShort \/ ReadError
  BY <1>3, ReadStepInv
<1>4. CASE Connects
  BY <1>4, ConnectsStream
<1>5. CASE radSocketServerAcceptConnection
  <2>1. /\ stream.state = "pending" /\ UNCHANGED streamVars
        /\ stream' = [stream EXCEPT !.state = "up", !.ends = @ \cup {"accepted"}]
    BY <1>5 DEF radSocketServerAcceptConnection
  <2>2. stream.ends \cup {"accepted"} \in SUBSET {"client", "accepted"}
    BY <1>0 DEF StreamTypes
  <2>3. stream' \in Streams /\ stream'.wire = stream.wire
    BY <1>1, <2>1, <2>2 DEF Streams
  <2>4. stream # NoStream
    BY <2>1 DEF NoStream
  <2> QED BY <2>1, <2>3, <2>4, StreamFrame DEF Streams
<1>6. CASE UNCHANGED <<stream, streamVars>>
  BY <1>1, <1>6, StreamFrame DEF Streams
<1>7. CASE AcceptFails \/ OptionsFail \/ \E r \in Role \ {"datagram"} : radSocketDestroy(r)
  <2>1. PICK r \in Role : UNCHANGED streamVars /\ (stream' = LeftBy(r) \/ stream' = NoStream \/ stream' = stream)
    <3>1. CASE AcceptFails
      BY <3>1, Kinds DEF AcceptFails
    <3>2. CASE OptionsFail
      BY <3>2, Kinds DEF OptionsFail
    <3>3. CASE \E r \in Role \ {"datagram"} : radSocketDestroy(r)
      BY <3>3 DEF radSocketDestroy
    <3> QED BY <1>7, <3>1, <3>2, <3>3
  <2>2. stream' \in Streams /\ (stream' # NoStream => stream # NoStream /\ stream'.wire = stream.wire)
    BY <1>0, <1>1, <2>1, LeftIs DEF Streams
  <2> QED BY <2>1, <2>2, StreamFrame DEF Streams
<1>8. CASE \/ radSocketServerCreate \/ Listening \/ ServerCreateFails \/ Accepted
           \/ radSocketClientCreateAny \/ radSocketClientCreate \/ NoServer \/ ConnectError \/ ClientCreated
  <2>1. UNCHANGED <<stream, streamVars>>
    BY <1>8 DEF radSocketServerCreate, Listening, ServerCreateFails, Accepted, radSocketClientCreateAny,
                radSocketClientCreate, NoServer, ConnectError, ClientCreated
  <2> QED BY <1>6, <2>1
<1>9. CASE \/ radUDPSocketCreate \/ UDPCreated \/ radUDPSocketDestroy \/ radUDPSocketBind
           \/ radUDPSocketRecvFrom
           \/ \E enable \in BOOLEAN : radUDPSocketSetBroadcast(enable)
           \/ \E g \in Group : radUDPSocketAddMulticastMembership(g) \/ radUDPSocketDropMulticastMembership(g)
           \/ \E to \in Group \cup {"port"}, n \in 1 .. Length : radUDPSocketSendTo(to, n)
  <2>1. UNCHANGED <<stream, streamVars>>
    BY <1>9 DEF radUDPSocketCreate, UDPCreated, radUDPSocketDestroy, radUDPSocketBind, radUDPSocketRecvFrom,
                radUDPSocketSetBroadcast, radUDPSocketAddMulticastMembership,
                radUDPSocketDropMulticastMembership, radUDPSocketSendTo, UDPOnly
  <2> QED BY <1>6, <2>1
<1> QED BY <1>2, <1>3, <1>4, <1>5, <1>7, <1>8, <1>9 DEF SocketNext

-----------------------------------------------------------------------------
(* The invariant of the sockets. *)
THEOREM SocketsInvariant == SocketSpec => []SocketInv
<1>0. SocketInv <=> FdInv /\ EndsInv /\ StreamInv
  BY DEF SocketInv, FdInv, StreamInv
<1>1. SocketInit => SocketInv
  <2> SUFFICES ASSUME SocketInit PROVE SocketInv
    OBVIOUS
  <2>0. <<>> \in Seq(STRING) /\ <<>> \in Seq(AByte)
    OBVIOUS
  <2>1. /\ fds = {} /\ object = [r \in Role |-> NoFd] /\ creating = [p \in Program |-> NoCreation]
        /\ records = 0 /\ stream = NoStream /\ writing = NoWrite /\ reading = NoRead
        /\ written = <<>> /\ answered = {} /\ heard = [bytes |-> <<>>, whole |-> TRUE]
    BY DEF SocketInit
  <2>2. NoCreation \in Creation /\ NoCreation.fd = NoFd /\ NoCreation.step = "none"
    BY <2>0 DEF NoCreation, Creation, Fd, ServerStep
  <2>3. FdTypes
    BY <2>1, <2>2, Kinds DEF FdTypes, ServerStep, ClientStep, Fd
  <2>4. StreamTypes
    BY <2>0, <2>1 DEF StreamTypes, NoStream, NoWrite, NoRead
  <2>5. FdsInv
    <3>1. \A p \in Program : Made[p] = NoFd
      BY <2>1, <2>2 DEF Made
    <3> QED BY <2>1, <3>1, Kinds DEF FdsInv, FdsAre
  <2>6. CreatingInv
    BY <2>1, <2>2, Kinds DEF CreatingInv
  <2>7. EndsInv
    BY <2>1, <2>2, Kinds DEF EndsInv, NoRead
  <2>8. WriteInv /\ AnsweredInv /\ HeardInv
    BY <2>1 DEF WriteInv, AnsweredInv, HeardInv
  <2> QED BY <2>3, <2>4, <2>5, <2>6, <2>7, <2>8 DEF SocketInv
<1>2. SocketInv /\ [SocketNext]_socketVars => SocketInv'
  <2> SUFFICES ASSUME SocketInv, [SocketNext]_socketVars PROVE SocketInv'
    OBVIOUS
  <2>1. FdInv /\ EndsInv /\ StreamInv
    BY <1>0
  <2>2. CASE SocketNext
    <3>1. FdInv' /\ EndsInv'
      BY <2>1, <2>2, FdStep DEF StreamInv
    <3>2. StreamInv'
      BY <2>1, <2>2, StreamStep
    <3> QED BY <3>1, <3>2 DEF SocketInv, FdInv, StreamInv
  <2>3. CASE UNCHANGED socketVars
    <3>1. UNCHANGED <<fds, object, creating, records, stream, writing, reading, written, answered, heard>>
      BY <2>3 DEF socketVars
    <3>2. FdInv'
      BY <2>1, <3>1, FdFrame
    <3>3. EndsInv'
      BY <2>1, <3>1 DEF EndsInv
    <3>4. StreamInv'
      BY <2>1, <3>1, StreamFrame DEF StreamInv, StreamTypes, streamVars
    <3> QED BY <3>2, <3>3, <3>4 DEF SocketInv, FdInv, StreamInv
  <2> QED BY <2>2, <2>3
<1> QED BY <1>1, <1>2, PTL DEF SocketSpec

(* Roles and programs are few. *)
LEMMA Few == IsFiniteSet(Role) /\ IsFiniteSet(Program)
<1>1. IsFiniteSet({}) /\ \A S, x : IsFiniteSet(S) => IsFiniteSet(S \cup {x})
  BY FS_EmptySet, FS_AddElement
<1>2. IsFiniteSet((({} \cup {"listener"}) \cup {"accepted"}) \cup {"client"})
  BY <1>1
<1>3. IsFiniteSet(((({} \cup {"listener"}) \cup {"accepted"}) \cup {"client"}) \cup {"datagram"})
  BY <1>1, <1>2
<1>4. Role = ((({} \cup {"listener"}) \cup {"accepted"}) \cup {"client"}) \cup {"datagram"}
  BY DEF Role
<1>5. IsFiniteSet(({} \cup {"server"}) \cup {"client"})
  BY <1>1
<1>6. Program = ({} \cup {"server"}) \cup {"client"}
  BY DEF Program
<1> QED BY <1>3, <1>4, <1>5, <1>6

(* Who has descriptors has as many as there are. *)
LEMMA Counted ==
  ASSUME NEW has, NEW S, IsFiniteSet(S),
         \A r, s \in S : has[r] = has[s] /\ has[r] # NoFd => r = s
  PROVE  /\ IsFiniteSet({has[r] : r \in S} \ {NoFd})
         /\ Cardinality({has[r] : r \in S} \ {NoFd}) = Cardinality({r \in S : has[r] # NoFd})
         /\ Cardinality({r \in S : has[r] # NoFd}) \in Nat
<1> DEFINE A == {r \in S : has[r] # NoFd}
           T == {has[r] : r \in S} \ {NoFd}
           f == [r \in A |-> has[r]]
<1>1. IsFiniteSet(A)
  <2>1. A \in SUBSET S
    OBVIOUS
  <2> HIDE DEF A
  <2> QED BY <2>1, FS_Subset
<1>2. f \in [A -> T] /\ (\A r, s \in A : f[r] = f[s] => r = s) /\ (\A t \in T : \E r \in A : f[r] = t)
  OBVIOUS
<1> HIDE DEF A, T, f
<1>3. f \in Bijection(A, T)
  BY <1>2 DEF Bijection, Injection, Surjection, IsInjective
<1>4. ExistsBijection(A, T)
  BY <1>3 DEF ExistsBijection
<1>5. IsFiniteSet(T) /\ Cardinality(T) = Cardinality(A)
  BY <1>1, <1>4, FS_Bijection
<1>6. Cardinality(A) \in Nat
  BY <1>1, FS_CardinalityType
<1> QED BY <1>5, <1>6 DEF A, T

(* No failure, of bind, connect, an option, accept or the name service,    *)
(* loses or doubles a descriptor or keeps a DNS record.                    *)
THEOREM DescriptorsKept == SocketSpec => []DescriptorsAccounted
<1>1. SocketInv => DescriptorsAccounted
  <2> SUFFICES ASSUME SocketInv PROVE DescriptorsAccounted
    OBVIOUS
  <2>1. FdTypes /\ FdsAre(fds, object, Made) /\ CreatingInv
    BY DEF SocketInv, FdsInv
  <2>2. \A p \in Program : Made[p] = creating[p].fd
    BY DEF Made
  <2> DEFINE T == {object[r] : r \in Role} \ {NoFd}
             U == {Made[p] : p \in Program} \ {NoFd}
  <2>3. IsFiniteSet(T) /\ Cardinality(T) = Cardinality({r \in Role : object[r] # NoFd})
    BY <2>1, Few, Counted DEF FdsAre
  <2>4. IsFiniteSet(U) /\ Cardinality(U) = Cardinality({p \in Program : Made[p] # NoFd})
    BY <2>1, Few, Counted DEF FdsAre
  <2>5. fds = T \cup U /\ T \cap U = {}
    BY <2>1 DEF FdsAre
  <2>6. Cardinality(T) \in Nat /\ Cardinality(U) \in Nat
    BY <2>3, <2>4, FS_CardinalityType
  <2> HIDE DEF T, U
  <2>7. Cardinality(fds) = Cardinality(T) + Cardinality(U)
    <3>1. Cardinality(T \cup U) = Cardinality(T) + Cardinality(U) - Cardinality(T \cap U)
      BY <2>3, <2>4, FS_Union
    <3>2. Cardinality(T \cap U) = 0
      BY <2>5, FS_EmptySet
    <3> QED BY <2>5, <2>6, <3>1, <3>2
  <2>8. {p \in Program : Made[p] # NoFd} = {p \in Program : creating[p].fd # NoFd}
    BY <2>2
  <2>9. fds = ({object[r] : r \in Role} \cup {creating[p].fd : p \in Program}) \ {NoFd}
    <3>1. {Made[p] : p \in Program} = {creating[p].fd : p \in Program}
      BY <2>2
    <3> QED BY <2>1, <3>1 DEF FdsAre
  <2>10. NotCreating("client") => records = 0
    BY <2>1 DEF CreatingInv, NotCreating
  <2> QED BY <2>3, <2>4, <2>7, <2>8, <2>9, <2>10 DEF DescriptorsAccounted
<1> QED BY <1>1, SocketsInvariant, PTL

(* However the kernel cuts the pieces, and whatever interrupts a call,     *)
(* what is answered OK is in the stream whole and once, and the reads      *)
(* answer the stream without a gap.                                        *)
THEOREM StreamIsKept == SocketSpec => []StreamKept
<1>1. SocketInv => StreamKept
  BY DEF SocketInv, AnsweredInv, HeardInv, Lies, StreamKept
<1> QED BY <1>1, SocketsInvariant, PTL

-----------------------------------------------------------------------------
(* Configuration files: what their constants are. *)
USE ConfAssumption

(* All words of an entry come from the calls of the programs. *)
AllEntries == UNION {Entry[h] : h \in Handle}
Word == {Empty, NULL} \cup {e.id : e \in AllEntries} \cup {e.instance : e \in AllEntries}
          \cup {e.value : e \in AllEntries} \cup {e.comment : e \in AllEntries}
CommentLine == {Note, Header}
EntryLine == [type : {"entry"}, id : Word, instance : Word, value : Word, comment : Word]
Line == CommentLine \cup EntryLine

Phase == {"closed", "reading", "open", "locked", "writing"}
FileState == [phase : Phase, lines : Seq(Line), pos : Nat, lastSearchNode : Nat,
              undisturbed : BOOLEAN]

TypeInv ==
  /\ disk \in Seq(Line) /\ saved \in Seq(Line)
  /\ locker \in Handle \cup {"nobody"}
  /\ cf \in [Handle -> FileState]
  /\ torn \in BOOLEAN

(* Two sequences agree on their first n elements. *)
SameUpTo(n, s, t) == n <= Len(s) /\ n <= Len(t) /\ \A k \in 1 .. n : s[k] = t[k]

(* Who has the lock, how far a writer has come, and that the file is whole *)
(* when nobody writes.                                                     *)
LockInv == \A h \in Handle : Is(h, "locked") \/ Is(h, "writing") => locker = h

WriterInv ==
  \A h \in Handle : Is(h, "writing") =>
    /\ saved = cf[h].lines
    /\ cf[h].pos = Len(disk) + 1
    /\ SameUpTo(Len(disk), disk, cf[h].lines)

WholeInv == (\A h \in Handle : ~ Is(h, "writing")) /\ ~ torn => disk = saved

(* A reader that nobody has disturbed reads a file that does not change.   *)
ReaderInv ==
  \A h \in Handle : Is(h, "reading") =>
    /\ cf[h].pos = Len(cf[h].lines) + 1
    /\ cf[h].undisturbed =>
         /\ locker = "nobody"
         /\ Len(cf[h].lines) <= Len(disk)
         /\ \A k \in 1 .. Len(cf[h].lines) : cf[h].lines[k] = ReadBack(disk[k])

Inv == TypeInv /\ LockInv /\ WriterInv /\ WholeInv /\ ReaderInv

-----------------------------------------------------------------------------
(* A set of numbers that is not empty has a least one. *)
LEMMA LeastIn ==
  ASSUME NEW S \in SUBSET Nat, S # {}
  PROVE  \E x \in S : \A y \in S : x <= y
<1>1. PICK x \in S : \A y \in S : ~ (<<y, x>> \in OpToRel(<, Nat))
  BY NatLessThanWellFounded, WFMin
<1>2. \A y \in S : x <= y
  <2> SUFFICES ASSUME NEW y \in S PROVE x <= y
    OBVIOUS
  <2>1. x \in Nat /\ y \in Nat
    OBVIOUS
  <2>2. ~ (y < x)
    BY <1>1, <2>1 DEF OpToRel
  <2> QED BY <2>1, <2>2
<1> QED BY <1>2

(* The smallest of a set of positions is one of them. *)
LEMMA MinIn ==
  ASSUME NEW S \in SUBSET Nat, S # {}
  PROVE  Min(S) \in S
BY LeastIn DEF Min

(* What is read back of a line is a line. *)
LEMMA ReadBackType == ASSUME NEW l \in Line PROVE ReadBack(l) \in Line
<1>1. CASE l \in CommentLine
  <2>1. l.type = "comment"
    BY <1>1 DEF CommentLine, Note, Header, Comment
  <2> QED BY <2>1 DEF ReadBack
<1>2. CASE l \in EntryLine
  BY <1>2 DEF EntryLine, ReadBack, Line, Word
<1> QED BY <1>1, <1>2 DEF Line

(* The words of a call. *)
LEMMA EntryWords ==
  ASSUME NEW h \in Handle, NEW e \in Entry[h]
  PROVE  /\ e.id \in Word /\ e.value \in Word /\ e.instance \in Word /\ e.comment \in Word
         /\ OrEmpty(e.instance) \in Word /\ OrEmpty(e.comment) \in Word
<1>1. e \in AllEntries
  BY DEF AllEntries
<1>2. e.id \in Word /\ e.value \in Word /\ e.instance \in Word /\ e.comment \in Word
  BY <1>1 DEF Word
<1> QED BY <1>2 DEF OrEmpty, Word

(* A line put in at a position. *)
LEMMA InsertType ==
  ASSUME NEW q \in Seq(Line), NEW i \in 1 .. Len(q), NEW l \in Line
  PROVE  InsertAt(q, i, l) \in Seq(Line)
<1>1. Len(q) \in Nat /\ \A k \in 1 .. Len(q) : q[k] \in Line
  OBVIOUS
<1>2. SubSeq(q, 1, i - 1) \in Seq(Line)
  <2>1. \A k \in 1 .. i - 1 : q[k] \in Line
    BY <1>1
  <2> QED BY <1>1, <2>1, SubSeqProperties
<1>3. SubSeq(q, i, Len(q)) \in Seq(Line)
  <2>1. \A k \in i .. Len(q) : q[k] \in Line
    BY <1>1
  <2> QED BY <1>1, <2>1, SubSeqProperties
<1>4. <<l>> \in Seq(Line)
  OBVIOUS
<1> QED BY <1>2, <1>3, <1>4, ConcatProperties DEF InsertAt

-----------------------------------------------------------------------------
(* The calls on the lines in memory change only those of an open handle.   *)
Edits(h) ==
  /\ Is(h, "open")
  /\ \E st \in FileState : st.phase = "open" /\ cf' = [cf EXCEPT ![h] = st]
  /\ UNCHANGED <<disk, locker, saved, torn>>

(* The entries of an ID are positions of lines. *)
LEMMA EntriesIn ==
  ASSUME NEW q \in Seq(Line), NEW id
  PROVE  EntriesOf(q, id) \in SUBSET (1 .. Len(q)) /\ EntriesOf(q, id) \in SUBSET Nat
<1>1. Len(q) \in Nat /\ DOMAIN q = 1 .. Len(q)
  OBVIOUS
<1> QED BY <1>1 DEF EntriesOf

(* radCfPutEntry. *)
LEMMA PutEntryEdits ==
  ASSUME TypeInv, NEW h \in Handle, NEW e \in Entry[h], radCfPutEntry(h, e)
  PROVE  Edits(h)
<1> DEFINE lines == cf[h].lines
           found == Matches(lines, e.id, e.instance)
           k == Min(found)
           new == [type |-> "entry", id |-> e.id, instance |-> OrEmpty(e.instance),
                   value |-> e.value, comment |-> OrEmpty(e.comment)]
           changed == [lines[k] EXCEPT !.value = e.value,
                                       !.comment = IF e.comment = NULL THEN @ ELSE e.comment]
<1>1. cf[h] \in FileState /\ lines \in Seq(Line)
  BY DEF TypeInv, FileState
<1>2. Is(h, "open") /\ UNCHANGED <<disk, locker, saved, torn>>
  BY DEF radCfPutEntry, Becomes
<1>3. CASE found = {}
  <2>1. new \in Line
    BY EntryWords DEF Line, EntryLine
  <2>2. Append(lines, new) \in Seq(Line)
    BY <1>1, <2>1, AppendProperties
  <2> DEFINE st == [cf[h] EXCEPT !.lines = Append(lines, new)]
  <2>3. cf' = [cf EXCEPT ![h] = st]
    BY <1>3 DEF radCfPutEntry, Becomes
  <2>4. st \in FileState /\ st.phase = "open"
    BY <1>1, <1>2, <2>2 DEF FileState, Is
  <2> QED BY <1>2, <2>3, <2>4 DEF Edits
<1>4. CASE found # {}
  <2>1. k \in found
    BY <1>1, <1>4, EntriesIn, MinIn DEF Matches
  <2>2. k \in 1 .. Len(lines) /\ lines[k].type = "entry"
    BY <1>1, <2>1, EntriesIn DEF Matches, EntriesOf
  <2>3. lines[k] \in EntryLine
    <3>1. lines[k] \in Line
      BY <1>1, <2>2, ElementOfSeq
    <3> QED BY <2>2, <3>1 DEF Line, CommentLine, Note, Header, Comment
  <2>4. changed \in Line
    <3>1. e.value \in Word /\ e.comment \in Word
      BY EntryWords
    <3> HIDE DEF k, lines
    <3> QED BY <2>3, <3>1 DEF EntryLine, Line
  <2> DEFINE st == [cf[h] EXCEPT !.lines[k] = changed]
  <2>5. cf' = [cf EXCEPT ![h] = st]
    BY <1>4 DEF radCfPutEntry, Becomes
  <2>6. [lines EXCEPT ![k] = changed] \in Seq(Line)
    BY <1>1, <2>2, <2>4, ExceptSeq
  <2>7. st \in FileState /\ st.phase = "open"
    <3>1. st = [cf[h] EXCEPT !.lines = [lines EXCEPT ![k] = changed]]
      OBVIOUS
    <3> QED BY <1>1, <1>2, <2>6, <3>1 DEF FileState, Is
  <2> QED BY <1>2, <2>5, <2>7 DEF Edits
<1> QED BY <1>3, <1>4

(* radCfPutComment and the two in front of an entry. *)
LEMMA PutCommentEdits ==
  ASSUME TypeInv, NEW h \in Handle, radCfPutComment(h)
  PROVE  Edits(h)
<1> DEFINE st == [cf[h] EXCEPT !.lines = Append(@, Note)]
<1>1. cf[h] \in FileState /\ cf[h].lines \in Seq(Line)
  BY DEF TypeInv, FileState
<1>2. Note \in Line
  BY DEF Line, CommentLine
<1>3. Append(cf[h].lines, Note) \in Seq(Line)
  BY <1>1, <1>2, AppendProperties
<1>4. Is(h, "open") /\ cf' = [cf EXCEPT ![h] = st] /\ UNCHANGED <<disk, locker, saved, torn>>
  BY DEF radCfPutComment, Becomes
<1>5. st \in FileState /\ st.phase = "open"
  BY <1>1, <1>3, <1>4 DEF FileState, Is
<1> QED BY <1>4, <1>5 DEF Edits

(* radCfPutCommentBefore. *)
LEMMA PutBeforeEdits ==
  ASSUME TypeInv, NEW h \in Handle, NEW id, NEW instance, radCfPutCommentBefore(h, id, instance)
  PROVE  Edits(h)
<1> DEFINE found == Matches(cf[h].lines, id, instance)
           put == InsertAt(cf[h].lines, Min(found), Note)
           node == IF cf[h].lastSearchNode >= Min(found) THEN cf[h].lastSearchNode + 1
                   ELSE cf[h].lastSearchNode
           st == [cf[h] EXCEPT !.lines = put, !.lastSearchNode = node]
<1>1. cf[h] \in FileState /\ cf[h].lines \in Seq(Line)
  BY DEF TypeInv, FileState
<1>2. Note \in Line
  BY DEF Line, CommentLine
<1>3. Is(h, "open") /\ cf' = [cf EXCEPT ![h] = st] /\ UNCHANGED <<disk, locker, saved, torn>>
      /\ found # {}
  BY DEF radCfPutCommentBefore, Becomes
<1>4. Min(found) \in 1 .. Len(cf[h].lines)
  <2>1. found \in SUBSET (1 .. Len(cf[h].lines)) /\ found \in SUBSET Nat
    BY <1>1, EntriesIn DEF Matches
  <2> QED BY <1>3, <2>1, MinIn
<1>5. put \in Seq(Line)
  BY <1>1, <1>2, <1>4, InsertType
<1>6. node \in Nat
  BY <1>1 DEF FileState
<1> HIDE DEF put, node
<1>7. st \in FileState /\ st.phase = "open"
  BY <1>1, <1>3, <1>5, <1>6 DEF FileState, Is
<1> QED BY <1>3, <1>7 DEF Edits

(* radCfGetFirstEntry and radCfGetNextEntry. *)
LEMMA SearchEdits ==
  ASSUME TypeInv, NEW h \in Handle, NEW id, NEW node \in Nat,
         Becomes(h, Searched(cf[h], id, node))
  PROVE  Edits(h)
<1> DEFINE after == {k \in EntriesOf(cf[h].lines, id) : k > node}
<1>1. cf[h] \in FileState /\ cf[h].lines \in Seq(Line)
  BY DEF TypeInv, FileState
<1>2. (IF after = {} THEN node ELSE Min(after)) \in Nat
  <2>1. after \in SUBSET Nat
    BY <1>1, EntriesIn
  <2> QED BY <2>1, MinIn
<1>3. Searched(cf[h], id, node) = [cf[h] EXCEPT !.lastSearchNode = IF after = {} THEN node ELSE Min(after)]
  BY DEF Searched
<1>4. Is(h, "open") /\ cf' = [cf EXCEPT ![h] = Searched(cf[h], id, node)]
      /\ UNCHANGED <<disk, locker, saved, torn>>
  BY DEF Becomes
<1> HIDE DEF after
<1>5. Searched(cf[h], id, node) \in FileState /\ Searched(cf[h], id, node).phase = "open"
  BY <1>1, <1>2, <1>3, <1>4 DEF FileState, Is
<1> QED BY <1>4, <1>5 DEF Edits

-----------------------------------------------------------------------------
(* A handle that does not flush becomes ready, or closed.                  *)
Quiet(h, st) ==
  /\ ~ Is(h, "locked") /\ ~ Is(h, "writing")
  /\ st \in FileState /\ st.phase \in {"open", "closed"}
  /\ cf' = [cf EXCEPT ![h] = st]
  /\ UNCHANGED <<disk, locker, saved, torn>>

(* A step of a handle that does not flush disturbs nothing. *)
LEMMA QuietStep ==
  ASSUME Inv, NEW h \in Handle, NEW st, Quiet(h, st)
  PROVE  Inv'
<1>1. cf \in [Handle -> FileState] /\ cf' \in [Handle -> FileState]
  BY DEF Inv, TypeInv, Quiet
<1>2. TypeInv'
  BY <1>1 DEF Inv, TypeInv, Quiet
<1>3. /\ cf'[h] = st /\ \A g \in Handle \ {h} : cf'[g] = cf[g]
      /\ st.phase \in {"open", "closed"} /\ cf[h].phase # "writing"
  BY <1>1 DEF Quiet, Is
<1>4. LockInv'
  BY <1>3 DEF Inv, LockInv, Quiet, Is
<1>5. WriterInv'
  BY <1>3 DEF Inv, WriterInv, SameUpTo, Quiet, Is
<1>6. WholeInv'
  BY <1>3 DEF Inv, WholeInv, Quiet, Is
<1>7. ReaderInv'
  BY <1>3 DEF Inv, ReaderInv, Quiet, Is
<1> QED BY <1>2, <1>4, <1>5, <1>6, <1>7 DEF Inv

(* The state of a closed handle. *)
LEMMA ClosedType ==
  ClosedFile \in FileState /\ ClosedFile.phase = "closed" /\ ClosedFile.lines = <<>>
BY DEF ClosedFile, FileState, Phase

(* The state of a handle that starts to read. *)
LEMMA OpenedType ==
  ASSUME NEW calm \in BOOLEAN
  PROVE  LET st == [ClosedFile EXCEPT !.phase = "reading", !.pos = 1, !.undisturbed = calm]
         IN  /\ st \in FileState
             /\ st.phase = "reading" /\ st.lines = <<>> /\ st.pos = 1
             /\ st.undisturbed <=> calm
BY ClosedType DEF FileState, Phase

(* radCfOpen. *)
LEMMA OpenStep ==
  ASSUME Inv, NEW h \in Handle, radCfOpen(h)
  PROVE  Inv'
<1> DEFINE calm == locker = "nobody"
           st == [ClosedFile EXCEPT !.phase = "reading", !.pos = 1, !.undisturbed = calm]
<1>0. calm \in BOOLEAN
  OBVIOUS
<1>1. /\ st.phase = "reading" /\ st.lines = <<>> /\ st.pos = 1
      /\ st.undisturbed <=> calm
  BY <1>0, OpenedType
<1>2. st \in FileState
  BY <1>0, OpenedType
<1>3. cf' = [cf EXCEPT ![h] = st] /\ UNCHANGED <<disk, locker, saved, torn>>
      /\ cf[h].phase = "closed"
  BY DEF radCfOpen, Is
<1>4. cf \in [Handle -> FileState] /\ cf' \in [Handle -> FileState]
  BY <1>2, <1>3 DEF Inv, TypeInv
<1>5. TypeInv'
  BY <1>3, <1>4 DEF Inv, TypeInv
<1>6. /\ cf'[h] = st /\ \A g \in Handle \ {h} : cf'[g] = cf[g]
      /\ st.phase = "reading" /\ st.lines = <<>> /\ st.pos = 1
      /\ st.undisturbed <=> locker = "nobody"
  BY <1>1, <1>3, <1>4
<1> HIDE DEF st
<1>7. LockInv'
  BY <1>3, <1>6 DEF Inv, LockInv, Is
<1>8. WriterInv'
  BY <1>3, <1>6 DEF Inv, WriterInv, SameUpTo, Is
<1>9. WholeInv'
  BY <1>3, <1>6 DEF Inv, WholeInv, Is
<1>10. ReaderInv'
  <2> SUFFICES ASSUME NEW g \in Handle, Is(g, "reading")'
               PROVE  /\ cf'[g].pos = Len(cf'[g].lines) + 1
                      /\ cf'[g].undisturbed =>
                           /\ locker' = "nobody"
                           /\ Len(cf'[g].lines) <= Len(disk')
                           /\ \A k \in 1 .. Len(cf'[g].lines) :
                                cf'[g].lines[k] = ReadBack(disk'[k])
    BY DEF ReaderInv
  <2>1. CASE g = h
    <3>1. Len(disk) \in Nat
      BY DEF Inv, TypeInv
    <3> QED BY <1>3, <1>6, <2>1, <3>1
  <2>2. CASE g # h
    BY <1>3, <1>6, <2>2 DEF Inv, ReaderInv, Is
  <2> QED BY <2>1, <2>2
<1> QED BY <1>5, <1>7, <1>8, <1>9, <1>10 DEF Inv

(* ReadLine: at the end of the file the handle is ready, else it has one   *)
(* line more.                                                              *)
LEMMA ReadStep ==
  ASSUME Inv, NEW h \in Handle, ReadLine(h)
  PROVE  Inv'
<1>1. cf[h] \in FileState /\ cf[h].lines \in Seq(Line) /\ cf[h].pos \in Nat /\ disk \in Seq(Line)
      /\ Len(disk) \in Nat /\ Len(cf[h].lines) \in Nat /\ cf \in [Handle -> FileState]
  BY DEF Inv, TypeInv, FileState
<1>2. cf[h].phase = "reading" /\ UNCHANGED <<disk, locker, saved, torn>>
      /\ cf[h].pos = Len(cf[h].lines) + 1
  BY DEF ReadLine, Is, Inv, ReaderInv
<1>3. CASE cf[h].pos > Len(disk)
  <2> DEFINE st == [cf[h] EXCEPT !.phase = "open", !.pos = 0, !.undisturbed = FALSE]
  <2>1. cf' = [cf EXCEPT ![h] = st]
    BY <1>3 DEF ReadLine
  <2>2. st \in FileState /\ st.phase = "open"
    BY <1>1 DEF FileState, Phase
  <2>3. Quiet(h, st)
    BY <1>2, <2>1, <2>2 DEF Quiet, Is
  <2> QED BY <2>3, QuietStep
<1>4. CASE ~ (cf[h].pos > Len(disk))
  <2> DEFINE line == ReadBack(disk[cf[h].pos])
             lines == Append(cf[h].lines, line)
             pos == cf[h].pos + 1
             st == [cf[h] EXCEPT !.pos = pos, !.lines = lines]
  <2>1. cf' = [cf EXCEPT ![h] = st]
    BY <1>4 DEF ReadLine
  <2>2. cf[h].pos \in 1 .. Len(disk)
    BY <1>1, <1>2, <1>4
  <2>3. line \in Line
    <3>1. disk[cf[h].pos] \in Line
      BY <1>1, <2>2, ElementOfSeq
    <3> QED BY <3>1, ReadBackType
  <2>4. /\ lines \in Seq(Line) /\ Len(lines) = Len(cf[h].lines) + 1
        /\ \A k \in 1 .. Len(cf[h].lines) : lines[k] = cf[h].lines[k]
        /\ lines[Len(cf[h].lines) + 1] = line
    <3> HIDE DEF line
    <3> QED BY <1>1, <2>3, AppendProperties
  <2>5. pos \in Nat
    BY <1>1
  <2>6. \A k \in 1 .. Len(cf[h].lines) : lines[k] = cf[h].lines[k]
    BY <2>4
  <2>7. pos = Len(lines) + 1 /\ Len(lines) <= Len(disk)
    BY <1>1, <1>2, <2>2, <2>4
  <2>8. cf[h].undisturbed =>
          locker = "nobody" /\ \A k \in 1 .. Len(lines) : lines[k] = ReadBack(disk[k])
    <3> SUFFICES ASSUME cf[h].undisturbed, NEW k \in 1 .. Len(lines)
                 PROVE  locker = "nobody" /\ lines[k] = ReadBack(disk[k])
      BY <1>2 DEF Inv, ReaderInv, Is
    <3>1. locker = "nobody" /\ \A i \in 1 .. Len(cf[h].lines) : cf[h].lines[i] = ReadBack(disk[i])
      BY <1>2 DEF Inv, ReaderInv, Is
    <3>2. CASE k \in 1 .. Len(cf[h].lines)
      BY <2>6, <3>1, <3>2
    <3>3. CASE k = Len(cf[h].lines) + 1
      BY <1>2, <2>4, <3>1, <3>3
    <3> HIDE DEF lines
    <3> QED BY <1>1, <2>4, <3>2, <3>3
  <2> HIDE DEF lines, line, pos
  <2>9. st \in FileState /\ st.phase = "reading" /\ st.lines = lines /\ st.pos = pos
        /\ (st.undisturbed <=> cf[h].undisturbed)
    BY <1>1, <1>2, <2>4, <2>5 DEF FileState
  <2>10. cf' \in [Handle -> FileState] /\ cf'[h] = st /\ \A g \in Handle \ {h} : cf'[g] = cf[g]
    BY <1>1, <2>1, <2>9
  <2> HIDE DEF st
  <2>11. TypeInv'
    BY <1>2, <2>10 DEF Inv, TypeInv
  <2>12. LockInv'
    BY <1>2, <2>9, <2>10 DEF Inv, LockInv, Is
  <2>13. WriterInv'
    BY <1>2, <2>9, <2>10 DEF Inv, WriterInv, SameUpTo, Is
  <2>14. WholeInv'
    BY <1>2, <2>9, <2>10 DEF Inv, WholeInv, Is
  <2>15. ReaderInv'
    <3> SUFFICES ASSUME NEW g \in Handle, Is(g, "reading")'
                 PROVE  /\ cf'[g].pos = Len(cf'[g].lines) + 1
                        /\ cf'[g].undisturbed =>
                             /\ locker' = "nobody"
                             /\ Len(cf'[g].lines) <= Len(disk')
                             /\ \A k \in 1 .. Len(cf'[g].lines) :
                                  cf'[g].lines[k] = ReadBack(disk'[k])
      BY DEF ReaderInv
    <3>1. CASE g = h
      BY <1>2, <2>7, <2>8, <2>9, <2>10, <3>1
    <3>2. CASE g # h
      BY <1>2, <2>10, <3>2 DEF Inv, ReaderInv, Is
    <3> QED BY <3>1, <3>2
  <2> QED BY <2>11, <2>12, <2>13, <2>14, <2>15 DEF Inv
<1> QED BY <1>3, <1>4

(* radCfClose. *)
LEMMA CloseStep ==
  ASSUME Inv, NEW h \in Handle, radCfClose(h)
  PROVE  Inv'
<1>1. Quiet(h, ClosedFile)
  BY ClosedType DEF radCfClose, Quiet, Is
<1> QED BY <1>1, QuietStep

(* The calls on the lines in memory. *)
LEMMA EditStep ==
  ASSUME Inv, NEW h \in Handle, Edits(h)
  PROVE  Inv'
<1>1. PICK st \in FileState : st.phase = "open" /\ cf' = [cf EXCEPT ![h] = st]
  BY DEF Edits
<1>2. Quiet(h, st)
  BY <1>1 DEF Edits, Quiet, Is
<1> QED BY <1>2, QuietStep

-----------------------------------------------------------------------------
(* Flush.  Nobody but the one with the lock flushes, and while anyone has  *)
(* it no reader is undisturbed.                                            *)
LEMMA AloneInside ==
  ASSUME Inv, NEW h \in Handle, Is(h, "locked") \/ Is(h, "writing")
  PROVE  /\ locker = h /\ locker # "nobody"
         /\ \A g \in Handle \ {h} : ~ Is(g, "locked") /\ ~ Is(g, "writing")
         /\ \A g \in Handle : Is(g, "reading") => ~ cf[g].undisturbed
<1>1. locker = h /\ h # "nobody"
  BY DEF Inv, LockInv, ConfAssumption
<1>2. \A g \in Handle \ {h} : ~ Is(g, "locked") /\ ~ Is(g, "writing")
  BY <1>1 DEF Inv, LockInv
<1>3. \A g \in Handle : Is(g, "reading") => ~ cf[g].undisturbed
  BY <1>1 DEF Inv, ReaderInv
<1> QED BY <1>1, <1>2, <1>3

(* The readers of a step that no undisturbed reader survives, and that     *)
(* changes the state of h only, which does not read.                       *)
LEMMA ReadersStay ==
  ASSUME Inv, NEW h \in Handle, cf'[h].phase # "reading",
         \A g \in Handle \ {h} : cf'[g] = cf[g],
         \A g \in Handle : Is(g, "reading") => ~ cf[g].undisturbed
  PROVE  ReaderInv'
<1> SUFFICES ASSUME NEW g \in Handle, Is(g, "reading")'
             PROVE  cf'[g].pos = Len(cf'[g].lines) + 1 /\ ~ cf'[g].undisturbed
  BY DEF ReaderInv
<1>1. g # h /\ cf'[g] = cf[g] /\ Is(g, "reading")
  BY DEF Is
<1> QED BY <1>1 DEF Inv, ReaderInv

(* radCfLockFile. *)
LEMMA LockStep ==
  ASSUME Inv, NEW h \in Handle, radCfLockFile(h)
  PROVE  Inv'
<1>1. cf \in [Handle -> FileState] /\ UNCHANGED <<disk, saved, torn>> /\ locker' = h
      /\ cf[h].phase = "open" /\ locker = "nobody"
  BY DEF Inv, TypeInv, radCfLockFile, Is
<1>2. cf' = [g \in Handle |-> IF g = h THEN [cf[g] EXCEPT !.phase = "locked"]
                              ELSE [cf[g] EXCEPT !.undisturbed = FALSE]]
  BY DEF radCfLockFile
<1>3. cf'[h] = [cf[h] EXCEPT !.phase = "locked"]
  BY <1>2
<1>4. \A g \in Handle \ {h} : cf'[g] = [cf[g] EXCEPT !.undisturbed = FALSE]
  BY <1>2
<1>5. cf'[h] \in FileState /\ cf'[h].phase = "locked"
  BY <1>1, <1>3 DEF FileState, Phase
<1>6. \A g \in Handle \ {h} : cf'[g] \in FileState /\ cf'[g].phase = cf[g].phase
        /\ cf'[g].lines = cf[g].lines /\ cf'[g].pos = cf[g].pos /\ cf'[g].undisturbed = FALSE
  <2> SUFFICES ASSUME NEW g \in Handle \ {h}
               PROVE  cf'[g] \in FileState /\ cf'[g].phase = cf[g].phase
                      /\ cf'[g].lines = cf[g].lines /\ cf'[g].pos = cf[g].pos
                      /\ cf'[g].undisturbed = FALSE
    OBVIOUS
  <2>1. cf'[g] = [cf[g] EXCEPT !.undisturbed = FALSE] /\ cf[g] \in FileState
    BY <1>1, <1>4
  <2> QED BY <2>1 DEF FileState
<1>7. cf' \in [Handle -> FileState]
  <2>1. \A g \in Handle : cf'[g] \in FileState
    BY <1>5, <1>6
  <2>2. cf' = [g \in Handle |-> cf'[g]]
    BY <1>2
  <2> QED BY <2>1, <2>2
<1>8. TypeInv'
  BY <1>1, <1>7 DEF Inv, TypeInv
<1>9. \A g \in Handle : ~ Is(g, "locked") /\ ~ Is(g, "writing")
  BY <1>1 DEF Inv, LockInv, ConfAssumption
<1>10. \A g \in Handle \ {h} : cf'[g].phase # "locked" /\ cf'[g].phase # "writing"
  BY <1>6, <1>9 DEF Is
<1>11. LockInv'
  BY <1>1, <1>10 DEF LockInv, Is
<1>12. WriterInv'
  BY <1>5, <1>10 DEF WriterInv, Is
<1>13. WholeInv'
  BY <1>1, <1>9 DEF Inv, WholeInv, Is
<1>14. ReaderInv'
  <2> SUFFICES ASSUME NEW g \in Handle, Is(g, "reading")'
               PROVE  cf'[g].pos = Len(cf'[g].lines) + 1 /\ ~ cf'[g].undisturbed
    BY DEF ReaderInv
  <2>1. g # h
    BY <1>5 DEF Is
  <2>2. Is(g, "reading") /\ cf'[g].lines = cf[g].lines /\ cf'[g].pos = cf[g].pos
        /\ cf'[g].undisturbed = FALSE
    BY <1>6, <2>1 DEF Is
  <2> QED BY <2>2 DEF Inv, ReaderInv
<1> QED BY <1>8, <1>11, <1>12, <1>13, <1>14 DEF Inv

(* Truncate: the file is empty, what is to be written is in memory. *)
LEMMA TruncateStep ==
  ASSUME Inv, NEW h \in Handle, Truncate(h)
  PROVE  Inv'
<1> DEFINE was == cf[h].lastSearchNode
           new == NeedsHeader(cf[h].lines)
           all == IF new THEN <<Header>> \o cf[h].lines ELSE cf[h].lines
           node == IF new /\ was # 0 THEN was + 1 ELSE was
           st == [cf[h] EXCEPT !.phase = "writing", !.pos = 1, !.lines = all,
                               !.lastSearchNode = node]
<1>1. cf \in [Handle -> FileState] /\ cf[h] \in FileState /\ cf[h].lines \in Seq(Line)
      /\ was \in Nat
  BY DEF Inv, TypeInv, FileState
<1>2. cf[h].phase = "locked" /\ cf' = [cf EXCEPT ![h] = st] /\ saved' = all
      /\ disk' = <<>> /\ torn' = FALSE /\ locker' = locker
  BY DEF Truncate, Is
<1>3. all \in Seq(Line)
  <2>1. <<Header>> \in Seq(Line)
    BY DEF Line, CommentLine
  <2> QED BY <1>1, <2>1, ConcatProperties
<1>4. node \in Nat
  BY <1>1
<1> HIDE DEF all, node
<1>5. st \in FileState /\ st.phase = "writing" /\ st.pos = 1 /\ st.lines = all
  BY <1>1, <1>3, <1>4 DEF FileState, Phase
<1>6. cf' \in [Handle -> FileState] /\ cf'[h] = st /\ \A g \in Handle \ {h} : cf'[g] = cf[g]
  BY <1>1, <1>2, <1>5
<1> HIDE DEF st
<1>7. disk' \in Seq(Line) /\ Len(disk') = 0
  BY <1>2
<1>8. TypeInv'
  BY <1>2, <1>3, <1>6, <1>7 DEF Inv, TypeInv
<1>9. /\ locker = h
      /\ \A g \in Handle \ {h} : ~ Is(g, "locked") /\ ~ Is(g, "writing")
      /\ \A g \in Handle : Is(g, "reading") => ~ cf[g].undisturbed
  BY <1>2, AloneInside DEF Is
<1>10. LockInv'
  BY <1>2, <1>6, <1>9 DEF LockInv, Is
<1>11. WriterInv'
  <2> SUFFICES ASSUME NEW g \in Handle, Is(g, "writing")'
               PROVE  /\ saved' = cf'[g].lines
                      /\ cf'[g].pos = Len(disk') + 1
                      /\ SameUpTo(Len(disk'), disk', cf'[g].lines)
    BY DEF WriterInv, SameUpTo
  <2>1. g = h
    BY <1>6, <1>9 DEF Is
  <2>2. SameUpTo(Len(disk'), disk', all)
    BY <1>3, <1>7 DEF SameUpTo
  <2> QED BY <1>2, <1>5, <1>6, <1>7, <2>1, <2>2
<1>12. WholeInv'
  BY <1>5, <1>6 DEF WholeInv, Is
<1>13. ReaderInv'
  BY <1>5, <1>6, <1>9, ReadersStay
<1> QED BY <1>8, <1>10, <1>11, <1>12, <1>13 DEF Inv

(* A step of the one that flushes that leaves it ready or closed.          *)
Ends(h, st) ==
  /\ st \in FileState /\ st.phase \in {"open", "closed"}
  /\ cf' = [cf EXCEPT ![h] = st]
  /\ locker' \in {locker, "nobody"}
  /\ disk' = disk

(* What such a step keeps. *)
LEMMA EndStep ==
  ASSUME Inv, NEW h \in Handle, Is(h, "locked") \/ Is(h, "writing"), NEW st, Ends(h, st),
         saved' \in Seq(Line), torn' \in BOOLEAN,
         ~ torn' => disk' = saved'
  PROVE  Inv'
<1>1. cf \in [Handle -> FileState] /\ cf' \in [Handle -> FileState]
  BY DEF Inv, TypeInv, Ends
<1>2. cf'[h] = st /\ st.phase \in {"open", "closed"} /\ \A g \in Handle \ {h} : cf'[g] = cf[g]
  BY <1>1 DEF Ends
<1>3. TypeInv'
  BY <1>1 DEF Inv, TypeInv, Ends
<1>4. /\ \A g \in Handle \ {h} : ~ Is(g, "locked") /\ ~ Is(g, "writing")
      /\ \A g \in Handle : Is(g, "reading") => ~ cf[g].undisturbed
  BY AloneInside
<1>5. \A g \in Handle : cf'[g].phase # "locked" /\ cf'[g].phase # "writing"
  BY <1>2, <1>4 DEF Is
<1>6. LockInv' /\ WriterInv'
  BY <1>5 DEF LockInv, WriterInv, Is
<1>7. WholeInv'
  BY DEF WholeInv
<1>8. ReaderInv'
  BY <1>2, <1>4, ReadersStay
<1> QED BY <1>3, <1>6, <1>7, <1>8 DEF Inv

(* TruncateFails: the file is as it was. *)
LEMMA TruncateFailsStep ==
  ASSUME Inv, NEW h \in Handle, TruncateFails(h)
  PROVE  Inv'
<1> DEFINE st == [cf[h] EXCEPT !.phase = "open"]
<1>1. cf' = [cf EXCEPT ![h] = st] /\ Is(h, "locked") /\ locker' = "nobody"
      /\ UNCHANGED <<disk, saved, torn>>
  BY DEF TruncateFails
<1>2. st \in FileState /\ st.phase = "open"
  BY DEF Inv, TypeInv, FileState, Phase
<1>3. Ends(h, st)
  BY <1>1, <1>2 DEF Ends
<1>4. \A g \in Handle : ~ Is(g, "writing")
  BY <1>1, AloneInside DEF Is
<1>5. ~ torn' => disk' = saved'
  BY <1>1, <1>4 DEF Inv, WholeInv
<1>6. saved' \in Seq(Line) /\ torn' \in BOOLEAN
  BY <1>1 DEF Inv, TypeInv
<1> QED BY <1>1, <1>3, <1>5, <1>6, EndStep

(* WriteFails and Crash: the file is known to be torn. *)
LEMMA TornStep ==
  ASSUME Inv, NEW h \in Handle, WriteFails(h) \/ Crash(h)
  PROVE  Inv'
<1>1. torn' = TRUE /\ saved' = <<>> /\ disk' = disk
  BY DEF WriteFails, Crash
<1>2. saved' \in Seq(Line) /\ torn' \in BOOLEAN
  BY <1>1
<1>3. CASE WriteFails(h)
  <2> DEFINE st == [cf[h] EXCEPT !.phase = "open", !.pos = 0]
  <2>1. cf[h] \in FileState /\ cf \in [Handle -> FileState]
    BY DEF Inv, TypeInv
  <2>2. cf' = [cf EXCEPT ![h] = st]
    BY <1>3, <2>1 DEF WriteFails
  <2>3. st \in FileState /\ st.phase = "open"
    BY <2>1 DEF FileState, Phase
  <2>4. Ends(h, st) /\ Is(h, "writing")
    BY <1>3, <2>2, <2>3 DEF WriteFails, Ends
  <2> QED BY <1>1, <1>2, <2>4, EndStep
<1>4. CASE Crash(h)
  <2>1. Ends(h, ClosedFile) /\ (Is(h, "locked") \/ Is(h, "writing"))
    BY <1>4, ClosedType DEF Crash, Ends
  <2> QED BY <1>1, <1>2, <2>1, EndStep
<1> QED BY <1>3, <1>4

(* radCfUnlockFile: all lines are written. *)
LEMMA UnlockStep ==
  ASSUME Inv, NEW h \in Handle, radCfUnlockFile(h)
  PROVE  Inv'
<1> DEFINE st == [cf[h] EXCEPT !.phase = "open", !.pos = 0]
<1>1. cf[h] \in FileState /\ cf \in [Handle -> FileState] /\ cf[h].lines \in Seq(Line)
      /\ disk \in Seq(Line) /\ Len(disk) \in Nat /\ Len(cf[h].lines) \in Nat
  BY DEF Inv, TypeInv, FileState
<1>2. Is(h, "writing") /\ cf[h].pos > Len(cf[h].lines) /\ locker' = "nobody"
      /\ UNCHANGED <<disk, saved, torn>>
  BY DEF radCfUnlockFile
<1>3. cf' = [cf EXCEPT ![h] = st]
  BY <1>1 DEF radCfUnlockFile
<1>4. st \in FileState /\ st.phase = "open"
  BY <1>1 DEF FileState, Phase
<1>5. Ends(h, st)
  BY <1>2, <1>3, <1>4 DEF Ends
<1>6. saved = cf[h].lines /\ cf[h].pos = Len(disk) + 1 /\ SameUpTo(Len(disk), disk, cf[h].lines)
  BY <1>2 DEF Inv, WriterInv
<1>7. Len(disk) = Len(cf[h].lines)
  BY <1>1, <1>2, <1>6 DEF SameUpTo
<1>8. disk = cf[h].lines
  BY <1>1, <1>6, <1>7, SeqEqual DEF SameUpTo
<1>9. saved' \in Seq(Line) /\ torn' \in BOOLEAN /\ disk' = saved'
  BY <1>2, <1>6, <1>8 DEF Inv, TypeInv
<1> QED BY <1>2, <1>5, <1>9, EndStep

(* WriteLine. *)
LEMMA WriteStep ==
  ASSUME Inv, NEW h \in Handle, WriteLine(h)
  PROVE  Inv'
<1> DEFINE pos == cf[h].pos
           lines == cf[h].lines
           next == pos + 1
           st == [cf[h] EXCEPT !.pos = next]
<1>1. cf[h] \in FileState /\ cf \in [Handle -> FileState] /\ lines \in Seq(Line)
      /\ disk \in Seq(Line) /\ Len(disk) \in Nat /\ Len(lines) \in Nat /\ pos \in Nat
  BY DEF Inv, TypeInv, FileState
<1>2. Is(h, "writing") /\ pos <= Len(lines) /\ disk' = Append(disk, lines[pos])
      /\ UNCHANGED <<locker, saved, torn>>
  BY DEF WriteLine
<1>3. cf' = [cf EXCEPT ![h] = st]
  BY DEF WriteLine
<1>4. saved = lines /\ pos = Len(disk) + 1 /\ SameUpTo(Len(disk), disk, lines)
  BY <1>2 DEF Inv, WriterInv
<1>5. st \in FileState /\ st.phase = "writing" /\ st.pos = next /\ st.lines = lines
  <2>1. next \in Nat
    BY <1>1
  <2> HIDE DEF next
  <2> QED BY <1>1, <1>2, <2>1 DEF FileState, Is
<1>16. next = pos + 1
  OBVIOUS
<1> HIDE DEF pos, lines, next
<1>6. lines[pos] \in Line
  BY <1>1, <1>2, <1>4, ElementOfSeq
<1>7. /\ disk' \in Seq(Line) /\ Len(disk') = Len(disk) + 1
      /\ \A k \in 1 .. Len(disk) : disk'[k] = disk[k]
      /\ disk'[Len(disk) + 1] = lines[pos]
  BY <1>1, <1>2, <1>6, AppendProperties
<1>8. SameUpTo(Len(disk'), disk', lines)
  <2>1. \A k \in 1 .. Len(disk) + 1 : disk'[k] = lines[k]
    BY <1>1, <1>4, <1>7 DEF SameUpTo
  <2> QED BY <1>1, <1>2, <1>4, <1>7, <2>1 DEF SameUpTo
<1>9. cf' \in [Handle -> FileState] /\ cf'[h] = st /\ \A g \in Handle \ {h} : cf'[g] = cf[g]
  BY <1>1, <1>3, <1>5
<1> HIDE DEF st
<1>10. TypeInv'
  BY <1>2, <1>7, <1>9 DEF Inv, TypeInv
<1>11. /\ locker = h
       /\ \A g \in Handle \ {h} : ~ Is(g, "locked") /\ ~ Is(g, "writing")
       /\ \A g \in Handle : Is(g, "reading") => ~ cf[g].undisturbed
  BY <1>2, AloneInside
<1>12. LockInv'
  BY <1>2, <1>9, <1>11 DEF LockInv, Is
<1>13. WriterInv'
  <2> SUFFICES ASSUME NEW g \in Handle, Is(g, "writing")'
               PROVE  /\ saved' = cf'[g].lines
                      /\ cf'[g].pos = Len(disk') + 1
                      /\ SameUpTo(Len(disk'), disk', cf'[g].lines)
    BY DEF WriterInv, SameUpTo
  <2>1. g = h
    BY <1>9, <1>11 DEF Is
  <2> QED BY <1>2, <1>4, <1>5, <1>7, <1>8, <1>9, <1>16, <2>1
<1>14. WholeInv'
  BY <1>5, <1>9 DEF WholeInv, Is
<1>15. ReaderInv'
  BY <1>5, <1>9, <1>11, ReadersStay
<1> QED BY <1>10, <1>12, <1>13, <1>14, <1>15 DEF Inv

-----------------------------------------------------------------------------
(* The invariant holds when nobody has opened the file. *)
LEMMA InvInit == ConfInit => Inv
<1> SUFFICES ASSUME ConfInit PROVE Inv
  OBVIOUS
<1>1. disk = <<>> /\ saved = <<>> /\ torn = FALSE /\ locker = "nobody"
      /\ cf = [h \in Handle |-> ClosedFile]
  BY DEF ConfInit
<1>2. TypeInv
  <2>1. disk \in Seq(Line) /\ saved \in Seq(Line)
    BY <1>1
  <2>2. cf \in [Handle -> FileState]
    BY <1>1, ClosedType
  <2>3. torn \in BOOLEAN /\ locker \in Handle \cup {"nobody"}
    BY <1>1
  <2> QED BY <2>1, <2>2, <2>3 DEF TypeInv
<1>3. \A h \in Handle : cf[h].phase = "closed"
  BY <1>1, ClosedType
<1> QED BY <1>1, <1>2, <1>3 DEF Inv, LockInv, WriterInv, WholeInv, ReaderInv, Is

(* Every step keeps the invariant. *)
LEMMA InvStep == Inv /\ [ConfNext]_confVars => Inv'
<1> SUFFICES ASSUME Inv, [ConfNext]_confVars PROVE Inv'
  OBVIOUS
<1>1. CASE ConfNext
  <2>1. PICK h \in Handle :
          \/ radCfOpen(h) \/ ReadLine(h) \/ radCfClose(h)
          \/ radCfLockFile(h) \/ Truncate(h) \/ TruncateFails(h) \/ WriteLine(h)
          \/ WriteFails(h) \/ radCfUnlockFile(h) \/ Crash(h)
          \/ \E e \in Entry[h] : radCfPutEntry(h, e)
          \/ h \in Searcher /\ radCfPutComment(h)
          \/ h \in Searcher /\ \E e \in Entry[h] :
               radCfPutCommentBefore(h, e.id, e.instance)
               \/ radCfGetFirstEntry(h, e.id) \/ radCfGetNextEntry(h, e.id)
    BY <1>1 DEF ConfNext
  <2>2. CASE radCfOpen(h)
    BY <2>2, OpenStep
  <2>3. CASE ReadLine(h)
    BY <2>3, ReadStep
  <2>4. CASE radCfClose(h)
    BY <2>4, CloseStep
  <2>5. CASE radCfLockFile(h)
    BY <2>5, LockStep
  <2>6. CASE Truncate(h)
    BY <2>6, TruncateStep
  <2>7. CASE TruncateFails(h)
    BY <2>7, TruncateFailsStep
  <2>8. CASE WriteLine(h)
    BY <2>8, WriteStep
  <2>9. CASE WriteFails(h) \/ Crash(h)
    BY <2>9, TornStep
  <2>10. CASE radCfUnlockFile(h)
    BY <2>10, UnlockStep
  <2>11. CASE \E e \in Entry[h] : radCfPutEntry(h, e)
    <3>1. PICK e \in Entry[h] : radCfPutEntry(h, e)
      BY <2>11
    <3>2. Edits(h)
      BY <3>1, PutEntryEdits DEF Inv
    <3> QED BY <3>2, EditStep
  <2>12. CASE radCfPutComment(h)
    <3>1. Edits(h)
      BY <2>12, PutCommentEdits DEF Inv
    <3> QED BY <3>1, EditStep
  <2>13. CASE \E e \in Entry[h] : radCfPutCommentBefore(h, e.id, e.instance)
                \/ radCfGetFirstEntry(h, e.id) \/ radCfGetNextEntry(h, e.id)
    <3>1. PICK e \in Entry[h] : radCfPutCommentBefore(h, e.id, e.instance)
                \/ radCfGetFirstEntry(h, e.id) \/ radCfGetNextEntry(h, e.id)
      BY <2>13
    <3>2. 0 \in Nat /\ cf[h].lastSearchNode \in Nat
      BY DEF Inv, TypeInv, FileState
    <3>3. CASE radCfPutCommentBefore(h, e.id, e.instance)
      <4>1. Edits(h)
        BY <3>3, PutBeforeEdits DEF Inv
      <4> QED BY <4>1, EditStep
    <3>4. CASE radCfGetFirstEntry(h, e.id)
      <4>1. Edits(h)
        BY <3>2, <3>4, SearchEdits DEF Inv, radCfGetFirstEntry
      <4> QED BY <4>1, EditStep
    <3>5. CASE radCfGetNextEntry(h, e.id)
      <4>1. Edits(h)
        BY <3>2, <3>5, SearchEdits DEF Inv, radCfGetNextEntry
      <4> QED BY <4>1, EditStep
    <3> QED BY <3>1, <3>3, <3>4, <3>5
  <2> QED BY <2>1, <2>2, <2>3, <2>4, <2>5, <2>6, <2>7, <2>8, <2>9, <2>10, <2>11, <2>12, <2>13
<1>2. CASE UNCHANGED confVars
  BY <1>2 DEF confVars, Inv, TypeInv, LockInv, WriterInv, WholeInv, ReaderInv, SameUpTo, Is
<1> QED BY <1>1, <1>2

(* The invariant of the proofs holds always. *)
LEMMA InvAlways == ConfSpec => []Inv
BY InvInit, InvStep, PTL DEF ConfSpec

(* One handle flushes at a time, and between two flushes the file holds    *)
(* all that the last complete one had in memory (radCfFlush and its lock   *)
(* link), for any number of handles, whatever they write.                  *)
THEOREM FileWhole == ConfSpec => []ConfWhole
<1>1. Inv => ConfWhole
  <2> SUFFICES ASSUME Inv PROVE ConfWhole
    OBVIOUS
  <2>1. locker = "nobody" => \A h \in Handle : ~ Is(h, "writing")
    BY DEF Inv, LockInv, ConfAssumption
  <2> QED BY <2>1 DEF Inv, LockInv, WholeInv, ConfWhole
<1> QED BY <1>1, InvAlways, PTL

(* Whoever opens the file while nobody flushes reads what the last         *)
(* complete flush wrote, but for the entries without a value that have a   *)
(* comment (radCfOpen on what radCfFlush wrote).                           *)
THEOREM ReadsWhatWasSaved == ConfSpec => []ConfReadsBack
<1>1. Inv => ConfReadsBack
  <2> SUFFICES ASSUME Inv, NEW h \in Handle, Is(h, "reading"), cf[h].undisturbed, ~ torn,
                      NEW k \in DOMAIN cf[h].lines
               PROVE  cf[h].lines[k] = saved[k]
                      \/ (saved[k].type = "entry" /\ saved[k].value = Empty
                          /\ saved[k].comment # Empty)
    BY DEF ConfReadsBack
  <2>1. k \in 1 .. Len(cf[h].lines)
    BY DEF Inv, TypeInv, FileState
  <2>2. locker = "nobody" /\ cf[h].lines[k] = ReadBack(disk[k])
    BY <2>1 DEF Inv, ReaderInv
  <2>3. disk = saved
    BY <2>2 DEF Inv, LockInv, WholeInv, ConfAssumption
  <2> QED BY <2>2, <2>3 DEF ReadBack
<1> QED BY <1>1, InvAlways, PTL

-----------------------------------------------------------------------------
(* Lists: the nodes of a list from one dummy to the other. *)
Place(l, s, k) ==
  IF k = 0 THEN dummyFirst(l) ELSE IF k = Len(s) + 1 THEN dummyLast(l) ELSE <<s[k]>>

Distinct(s) == \A j, k \in DOMAIN s : s[j] = s[k] => j = k

(* The pointers of a list follow the callers' sequence. *)
Chain(l, s, nx, pv) ==
  \A k \in 0 .. Len(s) : /\ nx[Place(l, s, k)] = Place(l, s, k + 1)
                         /\ pv[Place(l, s, k + 1)] = Place(l, s, k)

Pointers == [Node -> Node \cup {Nil}]

ChainsAre(ord, nx, pv) ==
  \A l \in List : Distinct(ord[l]) /\ Chain(l, ord[l], nx, pv)
Apart(ord) == \A l, m \in List : l # m => Range(ord[l]) \cap Range(ord[m]) = {}
Ascending(s) == \A j, k \in DOMAIN s : j < k => Key[s[j]] <= Key[s[k]]

ListsTypes ==
  /\ nextNode \in Pointers /\ prevNode \in Pointers
  /\ noNodes \in [List -> Int]
  /\ order \in [List \cup {"stack"} -> Seq(Item)]
  /\ below \in [Item -> {<<i>> : i \in Item} \cup {Nil}]

StackInv ==
  /\ head = NodeAt(order["stack"], 1) /\ count = Len(order["stack"])
  /\ \A k \in DOMAIN order["stack"] : below[order["stack"][k]] = NodeAt(order["stack"], k + 1)

ListsInv == /\ ListsTypes
            /\ \A l \in List : noNodes[l] = Len(order[l])
            /\ ChainsAre(order, nextNode, prevNode)
            /\ Apart(order)
            /\ Ascending(order["sorted"])
            /\ StackInv

-----------------------------------------------------------------------------
(* The nodes of callers, the dummies and Nil differ from each other. *)
LEMMA NodesDiffer ==
  /\ \A i, j : <<i>> = <<j>> => i = j
  /\ \A i, l : <<i>> # dummyFirst(l) /\ <<i>> # dummyLast(l)
  /\ \A l, m : dummyFirst(l) # dummyLast(m)
  /\ \A l, m : dummyFirst(l) = dummyFirst(m) => l = m
  /\ \A l, m : dummyLast(l) = dummyLast(m) => l = m
  /\ \A l : dummyFirst(l) # Nil /\ dummyLast(l) # Nil
  /\ \A i \in Item : <<i>> # Nil
<1>1. \A i, j : <<i>> = <<j>> => i = j
  <2>1. SUFFICES ASSUME NEW i, NEW j, <<i>> = <<j>> PROVE i = j
    OBVIOUS
  <2>2. <<i>>[1] = <<j>>[1]
    BY <2>1
  <2> QED BY <2>2
<1>2. \A i, l : <<i>> # dummyFirst(l) /\ <<i>> # dummyLast(l)
  <2>1. TAKE i, l
  <2>2. Len(<<i>>) = 1 /\ Len(dummyFirst(l)) = 2 /\ Len(dummyLast(l)) = 2
    BY DEF dummyFirst, dummyLast
  <2> QED BY <2>2
<1>3. \A l, m : dummyFirst(l) # dummyLast(m)
  <2>1. TAKE l, m
  <2>2. dummyFirst(l)[1] = "first" /\ dummyLast(m)[1] = "last"
    BY DEF dummyFirst, dummyLast
  <2> QED BY <2>2
<1>4. \A l, m : dummyFirst(l) = dummyFirst(m) => l = m
  <2>1. TAKE l, m
  <2>2. dummyFirst(l)[2] = l /\ dummyFirst(m)[2] = m
    BY DEF dummyFirst
  <2> QED BY <2>2
<1>5. \A l, m : dummyLast(l) = dummyLast(m) => l = m
  <2>1. TAKE l, m
  <2>2. dummyLast(l)[2] = l /\ dummyLast(m)[2] = m
    BY DEF dummyLast
  <2> QED BY <2>2
<1>6. \A l : dummyFirst(l) # Nil /\ dummyLast(l) # Nil
  BY <1>2 DEF Nil
<1>7. \A i \in Item : <<i>> # Nil
  BY <1>1, ListsAssumption DEF Nil
<1> QED BY <1>1, <1>2, <1>3, <1>4, <1>5, <1>6, <1>7

(* The dummies and the callers' nodes are nodes, Nil is not. *)
LEMMA NodesAre ==
  /\ \A i \in Item : <<i>> \in Node
  /\ \A l \in List : dummyFirst(l) \in Node /\ dummyLast(l) \in Node
  /\ Nil \notin Node
  /\ "list" \in List /\ "sorted" \in List
<1>1. \A i \in Item : <<i>> \in Node
  BY DEF Node
<1>2. \A l \in List : dummyFirst(l) \in Node /\ dummyLast(l) \in Node
  BY DEF Node
<1>3. Nil \notin Node
  BY NodesDiffer DEF Node
<1> QED BY <1>1, <1>2, <1>3 DEF List

(* A place of a list is a node, and tells where it is. *)
LEMMA PlacesAre ==
  ASSUME NEW l \in List, NEW s \in Seq(Item), Distinct(s)
  PROVE  /\ \A k \in 0 .. Len(s) + 1 : Place(l, s, k) \in Node
         /\ \A j, k \in 0 .. Len(s) + 1 : Place(l, s, j) = Place(l, s, k) => j = k
<1>1. Len(s) \in Nat /\ DOMAIN s = 1 .. Len(s) /\ \A k \in 1 .. Len(s) : s[k] \in Item
  BY ElementOfSeq
<1>2. \A k \in 0 .. Len(s) + 1 : Place(l, s, k) \in Node
  BY <1>1, NodesAre DEF Place
<1>3. ASSUME NEW j \in 0 .. Len(s) + 1, NEW k \in 0 .. Len(s) + 1, Place(l, s, j) = Place(l, s, k)
      PROVE  j = k
  <2>1. j \in 1 .. Len(s) /\ k \in 1 .. Len(s) => s[j] = s[k]
    BY <1>1, <1>3, NodesDiffer DEF Place
  <2>2. j \in 1 .. Len(s) /\ k \in 1 .. Len(s) => j = k
    BY <2>1, <1>1 DEF Distinct
  <2>3. j = 0 \/ j = Len(s) + 1 \/ j \in 1 .. Len(s)
    BY <1>1
  <2>4. k = 0 \/ k = Len(s) + 1 \/ k \in 1 .. Len(s)
    BY <1>1
  <2> QED BY <2>2, <2>3, <2>4, <1>3, <1>1, NodesDiffer DEF Place
<1> QED BY <1>2, <1>3

-----------------------------------------------------------------------------
(* t is s with i put at place p; t is s without what is at place p. *)
PutIn(s, p, i, t) ==
  /\ t \in Seq(Item) /\ Len(t) = Len(s) + 1
  /\ \A k \in 1 .. Len(s) + 1 : t[k] = IF k < p THEN s[k] ELSE IF k = p THEN i ELSE s[k - 1]

Removed(s, p, t) ==
  /\ t \in Seq(Item) /\ Len(t) = Len(s) - 1
  /\ \A k \in 1 .. Len(s) - 1 : t[k] = IF k < p THEN s[k] ELSE s[k + 1]

(* The ways the code's callers see a node come, and go. *)
LEMMA InsertAtInserts ==
  ASSUME NEW s \in Seq(Item), NEW p \in 1 .. Len(s) + 1, NEW i \in Item
  PROVE  PutIn(s, p, i, InsertAt(s, p, i))
<1> DEFINE a == SubSeq(s, 1, p - 1)
           b == SubSeq(s, p, Len(s))
<1>1. Len(s) \in Nat /\ \A k \in 1 .. Len(s) : s[k] \in Item
  BY ElementOfSeq
<1>2. a \in Seq(Item) /\ Len(a) = p - 1 /\ \A k \in 1 .. p - 1 : a[k] = s[k]
  <2>1. 1 \in 1 .. Len(s) + 1 /\ p - 1 \in 0 .. Len(s)
    BY <1>1
  <2>2. \A k \in 1 .. p - 1 : k \in 1 .. Len(s)
    BY <1>1
  <2> QED BY <2>1, <2>2, <1>1, SubSeqProperties
<1>3. b \in Seq(Item) /\ Len(b) = Len(s) - p + 1 /\ \A k \in 1 .. Len(s) - p + 1 : b[k] = s[p + k - 1]
  <2>1. \A k \in p .. Len(s) : s[k] \in Item
    BY <1>1
  <2> QED BY <2>1, <1>1, SubSeqProperties
<1>4. <<i>> \in Seq(Item) /\ Len(<<i>>) = 1 /\ <<i>>[1] = i
  OBVIOUS
<1> HIDE DEF a, b
<1> DEFINE c == a \o <<i>>
<1>5. c \in Seq(Item) /\ Len(c) = p /\ \A k \in 1 .. p : c[k] = IF k < p THEN s[k] ELSE i
  BY <1>2, <1>4, ConcatProperties
<1> HIDE DEF c
<1> DEFINE t == c \o b
<1>6. t \in Seq(Item) /\ Len(t) = Len(s) + 1
  <2>1. t \in Seq(Item) /\ Len(t) = Len(c) + Len(b)
    BY <1>3, <1>5, ConcatProperties
  <2> HIDE DEF t
  <2> QED BY <2>1, <1>1, <1>3, <1>5
<1>7. ASSUME NEW k \in 1 .. Len(s) + 1
      PROVE  t[k] = IF k < p THEN s[k] ELSE IF k = p THEN i ELSE s[k - 1]
  <2>1. k \in 1 .. Len(c) + Len(b)
    BY <1>1, <1>3, <1>5
  <2>2. t[k] = IF k <= Len(c) THEN c[k] ELSE b[k - Len(c)]
    BY <2>1, <1>3, <1>5, ConcatProperties
  <2>3. k > p => k - p \in 1 .. Len(s) - p + 1 /\ p + (k - p) - 1 = k - 1
    BY <1>1
  <2>4. k > p => b[k - p] = s[k - 1]
    BY <2>3, <1>3
  <2> QED BY <2>2, <2>4, <1>5, <1>1
<1>8. t = InsertAt(s, p, i)
  BY DEF InsertAt, t, c, a, b
<1> HIDE DEF t
<1> QED BY <1>6, <1>7, <1>8 DEF PutIn

LEMMA FrontInserts ==
  ASSUME NEW s \in Seq(Item), NEW i \in Item
  PROVE  PutIn(s, 1, i, <<i>> \o s)
<1>1. Len(s) \in Nat /\ <<i>> \in Seq(Item) /\ Len(<<i>>) = 1 /\ <<i>>[1] = i
  OBVIOUS
<1> DEFINE t == <<i>> \o s
<1>2. t \in Seq(Item) /\ Len(t) = Len(s) + 1
      /\ \A k \in 1 .. Len(s) + 1 : t[k] = IF k <= 1 THEN <<i>>[k] ELSE s[k - 1]
  BY <1>1, ConcatProperties
<1> HIDE DEF t
<1>3. \A k \in 1 .. Len(s) + 1 : t[k] = IF k < 1 THEN s[k] ELSE IF k = 1 THEN i ELSE s[k - 1]
  BY <1>1, <1>2
<1> QED BY <1>2, <1>3 DEF PutIn, t

LEMMA EndInserts ==
  ASSUME NEW s \in Seq(Item), NEW i \in Item
  PROVE  PutIn(s, Len(s) + 1, i, Append(s, i))
<1>1. Len(s) \in Nat
  OBVIOUS
<1> DEFINE t == Append(s, i)
<1>2. t \in Seq(Item) /\ Len(t) = Len(s) + 1
      /\ (\A k \in 1 .. Len(s) : t[k] = s[k]) /\ t[Len(s) + 1] = i
  BY AppendProperties
<1> HIDE DEF t
<1> QED BY <1>1, <1>2 DEF PutIn, t

LEMMA RemoveAtRemoves ==
  ASSUME NEW s \in Seq(Item), NEW p \in 1 .. Len(s)
  PROVE  Removed(s, p, RemoveAt(s, p))
<1> DEFINE a == SubSeq(s, 1, p - 1)
           b == SubSeq(s, p + 1, Len(s))
<1>1. Len(s) \in Nat /\ \A k \in 1 .. Len(s) : s[k] \in Item
  BY ElementOfSeq
<1>2. a \in Seq(Item) /\ Len(a) = p - 1 /\ \A k \in 1 .. p - 1 : a[k] = s[k]
  <2>1. 1 \in 1 .. Len(s) + 1 /\ p - 1 \in 0 .. Len(s)
    BY <1>1
  <2>2. \A k \in 1 .. p - 1 : k \in 1 .. Len(s)
    BY <1>1
  <2> QED BY <2>1, <2>2, <1>1, SubSeqProperties
<1>3. b \in Seq(Item) /\ Len(b) = Len(s) - p /\ \A k \in 1 .. Len(s) - p : b[k] = s[p + k]
  <2>1. p + 1 \in 1 .. Len(s) + 1 /\ \A k \in p + 1 .. Len(s) : s[k] \in Item
    BY <1>1
  <2>2. Len(b) = Len(s) - (p + 1) + 1 /\ \A k \in 1 .. Len(s) - (p + 1) + 1 : b[k] = s[(p + 1) + k - 1]
    BY <2>1, <1>1, SubSeqProperties
  <2>3. b \in Seq(Item)
    BY <2>1, <1>1, SubSeqProperties
  <2> HIDE DEF b
  <2>4. Len(s) - (p + 1) + 1 = Len(s) - p /\ \A k \in Int : (p + 1) + k - 1 = p + k
    BY <1>1
  <2> QED BY <2>2, <2>3, <2>4
<1> HIDE DEF a, b
<1> DEFINE t == a \o b
<1>6. t \in Seq(Item) /\ Len(t) = Len(s) - 1
  <2>1. t \in Seq(Item) /\ Len(t) = Len(a) + Len(b)
    BY <1>2, <1>3, ConcatProperties
  <2> HIDE DEF t
  <2> QED BY <2>1, <1>1, <1>2, <1>3
<1>7. ASSUME NEW k \in 1 .. Len(s) - 1
      PROVE  t[k] = IF k < p THEN s[k] ELSE s[k + 1]
  <2>1. k \in 1 .. Len(a) + Len(b)
    BY <1>1, <1>2, <1>3
  <2>2. t[k] = IF k <= Len(a) THEN a[k] ELSE b[k - Len(a)]
    BY <2>1, <1>2, <1>3, ConcatProperties
  <2>3. k >= p => k - (p - 1) \in 1 .. Len(s) - p /\ p + (k - (p - 1)) = k + 1
    BY <1>1
  <2>4. k >= p => b[k - (p - 1)] = s[k + 1]
    BY <2>3, <1>3
  <2> QED BY <2>2, <2>4, <1>2, <1>1
<1>8. t = RemoveAt(s, p)
  BY DEF RemoveAt, t, a, b
<1> HIDE DEF t
<1> QED BY <1>6, <1>7, <1>8 DEF Removed

LEMMA TailRemoves ==
  ASSUME NEW s \in Seq(Item), Len(s) > 0
  PROVE  Removed(s, 1, Tail(s))
<1>1. Len(s) \in Nat /\ s # <<>>
  OBVIOUS
<1> DEFINE t == Tail(s)
<1>2. t \in Seq(Item) /\ Len(t) = Len(s) - 1 /\ \A k \in 1 .. Len(t) : t[k] = s[k + 1]
  BY <1>1, HeadTailProperties
<1> HIDE DEF t
<1>3. \A k \in 1 .. Len(s) - 1 : t[k] = IF k < 1 THEN s[k] ELSE s[k + 1]
  BY <1>1, <1>2
<1> QED BY <1>2, <1>3 DEF Removed, t

LEMMA FrontRemoves ==
  ASSUME NEW s \in Seq(Item), Len(s) > 0
  PROVE  Removed(s, Len(s), Front(s))
<1>1. Len(s) \in Nat /\ \A k \in 1 .. Len(s) : s[k] \in Item
  BY ElementOfSeq
<1> DEFINE t == SubSeq(s, 1, Len(s) - 1)
<1>2. t \in Seq(Item) /\ Len(t) = Len(s) - 1 /\ \A k \in 1 .. Len(s) - 1 : t[k] = s[k]
  <2>1. Len(s) - 1 \in Int /\ \A k \in 1 .. Len(s) - 1 : s[k] \in Item
    BY <1>1
  <2>2. /\ t \in Seq(Item)
        /\ Len(t) = IF 1 <= Len(s) - 1 THEN (Len(s) - 1) - 1 + 1 ELSE 0
        /\ \A k \in 1 .. (Len(s) - 1) - 1 + 1 : t[k] = s[1 + k - 1]
    BY <2>1, SubSeqProperties
  <2> HIDE DEF t
  <2>3. ASSUME NEW k \in 1 .. Len(s) - 1 PROVE t[k] = s[k]
    <3>1. k \in 1 .. (Len(s) - 1) - 1 + 1 /\ 1 + k - 1 = k
      BY <1>1
    <3>2. t[k] = s[1 + k - 1]
      BY <2>2, <3>1
    <3> QED BY <3>1, <3>2
  <2>4. Len(t) = Len(s) - 1
    <3>1. Len(t) = IF 1 <= Len(s) - 1 THEN (Len(s) - 1) - 1 + 1 ELSE 0
      BY <2>2
    <3>2. PICK n \in Nat : n = Len(s) /\ n > 0
      BY <1>1
    <3>3. (IF 1 <= n - 1 THEN (n - 1) - 1 + 1 ELSE 0) = n - 1
      BY <3>2
    <3> QED BY <3>1, <3>2, <3>3
  <2> QED BY <2>2, <2>3, <2>4
<1>3. t = Front(s)
  BY DEF Front
<1> HIDE DEF t
<1>4. \A k \in 1 .. Len(s) - 1 : t[k] = IF k < Len(s) THEN s[k] ELSE s[k + 1]
  BY <1>1, <1>2
<1> QED BY <1>2, <1>3, <1>4 DEF Removed

-----------------------------------------------------------------------------
(* What is nowhere in the sequence is at no place of the list. *)
LEMMA NotAPlace ==
  ASSUME NEW l \in List, NEW s \in Seq(Item), NEW i \in Item, i \notin Range(s)
  PROVE  \A k \in 0 .. Len(s) + 1 : Place(l, s, k) # <<i>>
<1>1. Len(s) \in Nat /\ DOMAIN s = 1 .. Len(s)
  OBVIOUS
<1>2. \A k \in 1 .. Len(s) : s[k] # i
  BY <1>1 DEF Range
<1> QED BY <1>1, <1>2, NodesDiffer DEF Place

(* Two lists with no node in common have no place in common. *)
LEMMA OtherPlaces ==
  ASSUME NEW l \in List, NEW s \in Seq(Item), NEW m \in List, NEW u \in Seq(Item),
         l # m, Range(s) \cap Range(u) = {}
  PROVE  \A j \in 0 .. Len(s) + 1, k \in 0 .. Len(u) + 1 : Place(l, s, j) # Place(m, u, k)
<1>1. /\ Len(s) \in Nat /\ DOMAIN s = 1 .. Len(s)
      /\ Len(u) \in Nat /\ DOMAIN u = 1 .. Len(u)
  OBVIOUS
<1>2. \A j \in 1 .. Len(s), k \in 1 .. Len(u) : s[j] # u[k]
  BY <1>1 DEF Range
<1>3. TAKE j \in 0 .. Len(s) + 1, k \in 0 .. Len(u) + 1
<1>4. j = 0 \/ j = Len(s) + 1 \/ j \in 1 .. Len(s)
  BY <1>1
<1>5. k = 0 \/ k = Len(u) + 1 \/ k \in 1 .. Len(u)
  BY <1>1
<1> QED BY <1>1, <1>2, <1>4, <1>5, NodesDiffer DEF Place

LEMMA InsertedPlaces ==
  ASSUME NEW l \in List, NEW s \in Seq(Item), NEW p \in 1 .. Len(s) + 1, NEW i \in Item, NEW t,
         PutIn(s, p, i, t)
  PROVE  /\ Len(t) = Len(s) + 1
         /\ \A k \in 0 .. Len(s) + 2 :
              Place(l, t, k) = IF k < p THEN Place(l, s, k)
                               ELSE IF k = p THEN <<i>> ELSE Place(l, s, k - 1)
<1>1. Len(s) \in Nat /\ Len(t) = Len(s) + 1
  BY DEF PutIn
<1>2. SUFFICES ASSUME NEW k \in 0 .. Len(s) + 2
               PROVE  Place(l, t, k) = IF k < p THEN Place(l, s, k)
                                       ELSE IF k = p THEN <<i>> ELSE Place(l, s, k - 1)
  BY <1>1
<1>3. CASE k = 0
  BY <1>1, <1>3 DEF Place
<1>4. CASE k = Len(s) + 2
  BY <1>1, <1>4 DEF Place
<1>5. CASE k \in 1 .. Len(s) + 1
  <2>1. t[k] = IF k < p THEN s[k] ELSE IF k = p THEN i ELSE s[k - 1]
    BY <1>5 DEF PutIn
  <2>2. Place(l, t, k) = <<t[k]>>
    BY <1>1, <1>5 DEF Place
  <2>3. k < p => Place(l, s, k) = <<s[k]>>
    BY <1>1, <1>5 DEF Place
  <2>4. k > p => Place(l, s, k - 1) = <<s[k - 1]>>
    BY <1>1, <1>5 DEF Place
  <2> QED BY <2>1, <2>2, <2>3, <2>4, <1>5
<1> QED BY <1>1, <1>3, <1>4, <1>5

LEMMA RemovedPlaces ==
  ASSUME NEW l \in List, NEW s \in Seq(Item), NEW p \in 1 .. Len(s), NEW t, Removed(s, p, t)
  PROVE  /\ Len(t) = Len(s) - 1
         /\ \A k \in 0 .. Len(s) :
              Place(l, t, k) = IF k < p THEN Place(l, s, k) ELSE Place(l, s, k + 1)
<1>1. Len(s) \in Nat /\ Len(t) = Len(s) - 1
  BY DEF Removed
<1>2. SUFFICES ASSUME NEW k \in 0 .. Len(s)
               PROVE  Place(l, t, k) = IF k < p THEN Place(l, s, k) ELSE Place(l, s, k + 1)
  BY <1>1
<1>3. CASE k = 0
  BY <1>1, <1>3 DEF Place
<1>4. CASE k = Len(s)
  BY <1>1, <1>4 DEF Place
<1>5. CASE k \in 1 .. Len(s) - 1
  <2>1. t[k] = IF k < p THEN s[k] ELSE s[k + 1]
    BY <1>5 DEF Removed
  <2>2. Place(l, t, k) = <<t[k]>>
    BY <1>1, <1>5 DEF Place
  <2>3. Place(l, s, k) = <<s[k]>> /\ Place(l, s, k + 1) = <<s[k + 1]>>
    BY <1>1, <1>5 DEF Place
  <2> QED BY <2>1, <2>2, <2>3, <1>5
<1> QED BY <1>1, <1>3, <1>4, <1>5

(* A node between two neighbours of a list is in it. *)
Between(l, s, p, i, nx, pv, nx2, pv2) ==
  /\ nx2 = [nx EXCEPT ![<<i>>] = Place(l, s, p), ![Place(l, s, p - 1)] = <<i>>]
  /\ pv2 = [pv EXCEPT ![<<i>>] = Place(l, s, p - 1), ![Place(l, s, p)] = <<i>>]

LEMMA LinkedChain ==
  ASSUME NEW l \in List, NEW s \in Seq(Item), NEW nx \in Pointers, NEW pv \in Pointers,
         NEW i \in Item, i \notin Range(s), Distinct(s), Chain(l, s, nx, pv),
         NEW p \in 1 .. Len(s) + 1, NEW t, PutIn(s, p, i, t),
         NEW nx2, NEW pv2, Between(l, s, p, i, nx, pv, nx2, pv2)
  PROVE  /\ nx2 \in Pointers /\ pv2 \in Pointers
         /\ Distinct(t) /\ Chain(l, t, nx2, pv2) /\ Range(t) = Range(s) \cup {i}
         /\ \A m \in List, u \in Seq(Item) :
              m # l /\ Range(s) \cap Range(u) = {} /\ i \notin Range(u) /\ Chain(m, u, nx, pv)
                => Chain(m, u, nx2, pv2)
<1>1. Len(s) \in Nat /\ DOMAIN s = 1 .. Len(s) /\ p \in Nat
  OBVIOUS
<1>2. Len(t) = Len(s) + 1 /\ DOMAIN t = 1 .. Len(s) + 1
  BY <1>1 DEF PutIn
<1>3. \A k \in 0 .. Len(s) + 2 :
        Place(l, t, k) = IF k < p THEN Place(l, s, k)
                         ELSE IF k = p THEN <<i>> ELSE Place(l, s, k - 1)
  BY InsertedPlaces
<1>4. /\ \A k \in 0 .. Len(s) + 1 : Place(l, s, k) \in Node /\ Place(l, s, k) # <<i>>
      /\ \A j, k \in 0 .. Len(s) + 1 : Place(l, s, j) = Place(l, s, k) => j = k
  BY PlacesAre, NotAPlace
<1>5. p - 1 \in 0 .. Len(s) + 1 /\ p \in 0 .. Len(s) + 1 /\ <<i>> \in Node
  BY <1>1, NodesAre
<1>6. nx2 \in Pointers /\ pv2 \in Pointers
  BY <1>4, <1>5 DEF Between, Pointers
<1>7. /\ nx2[<<i>>] = Place(l, s, p) /\ nx2[Place(l, s, p - 1)] = <<i>>
      /\ pv2[<<i>>] = Place(l, s, p - 1) /\ pv2[Place(l, s, p)] = <<i>>
  BY <1>4, <1>5 DEF Between, Pointers
<1>8. \A n \in Node : /\ n # <<i>> /\ n # Place(l, s, p - 1) => nx2[n] = nx[n]
                      /\ n # <<i>> /\ n # Place(l, s, p) => pv2[n] = pv[n]
  BY DEF Between, Pointers
<1>9. Distinct(t)
  <2>1. \A k \in 1 .. Len(s) + 1 : t[k] = IF k < p THEN s[k] ELSE IF k = p THEN i ELSE s[k - 1]
    BY DEF PutIn
  <2>2. \A k \in 1 .. Len(s) : s[k] # i
    BY <1>1 DEF Range
  <2>3. \A j, k \in 1 .. Len(s) : s[j] = s[k] => j = k
    BY <1>1 DEF Distinct
  <2>4. ASSUME NEW j \in 1 .. Len(s) + 1, NEW k \in 1 .. Len(s) + 1, t[j] = t[k]
        PROVE  j = k
    <3>1. (j < p => j \in 1 .. Len(s)) /\ (j > p => j - 1 \in 1 .. Len(s))
      BY <1>1
    <3>2. (k < p => k \in 1 .. Len(s)) /\ (k > p => k - 1 \in 1 .. Len(s))
      BY <1>1
    <3> QED BY <1>1, <2>1, <2>2, <2>3, <2>4, <3>1, <3>2
  <2> QED BY <2>4, <1>2 DEF Distinct
<1>10. Chain(l, t, nx2, pv2)
  <2>1. ASSUME NEW k \in 0 .. Len(s) + 1
        PROVE  nx2[Place(l, t, k)] = Place(l, t, k + 1) /\ pv2[Place(l, t, k + 1)] = Place(l, t, k)
    <3>1. CASE k < p - 1
      <4>1. k \in 0 .. Len(s) /\ k \in 0 .. Len(s) + 1 /\ k + 1 \in 0 .. Len(s) + 1
        BY <3>1, <1>1
      <4>2. Place(l, t, k) = Place(l, s, k) /\ Place(l, t, k + 1) = Place(l, s, k + 1)
        BY <1>3, <4>1, <3>1, <1>1
      <4>3. nx[Place(l, s, k)] = Place(l, s, k + 1) /\ pv[Place(l, s, k + 1)] = Place(l, s, k)
        BY <4>1 DEF Chain
      <4>4. Place(l, s, k) # Place(l, s, p - 1) /\ Place(l, s, k + 1) # Place(l, s, p)
        BY <4>1, <1>4, <1>5, <3>1, <1>1
      <4> QED BY <4>1, <4>2, <4>3, <4>4, <1>4, <1>8
    <3>2. CASE k = p - 1
      <4>1. Place(l, t, k) = Place(l, s, p - 1) /\ Place(l, t, k + 1) = <<i>>
        BY <1>3, <3>2, <1>1
      <4> QED BY <4>1, <1>7
    <3>3. CASE k = p
      <4>1. Place(l, t, k) = <<i>> /\ Place(l, t, k + 1) = Place(l, s, p)
        BY <1>3, <3>3, <1>1
      <4> QED BY <4>1, <1>7
    <3>4. CASE k > p
      <4>1. k - 1 \in 0 .. Len(s) /\ k - 1 \in 0 .. Len(s) + 1 /\ k \in 0 .. Len(s) + 1 /\ (k - 1) + 1 = k
        BY <3>4, <1>1
      <4>2. Place(l, t, k) = Place(l, s, k - 1) /\ Place(l, t, k + 1) = Place(l, s, k)
        BY <1>3, <4>1, <3>4, <1>1
      <4>3. nx[Place(l, s, k - 1)] = Place(l, s, k) /\ pv[Place(l, s, k)] = Place(l, s, k - 1)
        BY <4>1 DEF Chain
      <4>4. Place(l, s, k - 1) # Place(l, s, p - 1) /\ Place(l, s, k) # Place(l, s, p)
        BY <4>1, <1>4, <1>5, <3>4, <1>1
      <4> QED BY <4>1, <4>2, <4>3, <4>4, <1>4, <1>8
    <3> QED BY <3>1, <3>2, <3>3, <3>4, <1>1
  <2> QED BY <2>1, <1>2 DEF Chain
<1>11. Range(t) = Range(s) \cup {i}
  <2>1. \A k \in 1 .. Len(s) + 1 : t[k] = IF k < p THEN s[k] ELSE IF k = p THEN i ELSE s[k - 1]
    BY DEF PutIn
  <2>2. ASSUME NEW k \in 1 .. Len(s) + 1 PROVE t[k] \in Range(s) \cup {i}
    <3>1. (k < p => k \in 1 .. Len(s)) /\ (k > p => k - 1 \in 1 .. Len(s))
      BY <1>1
    <3>2. \A j \in 1 .. Len(s) : s[j] \in Range(s)
      BY <1>1 DEF Range
    <3>3. k < p \/ k = p \/ k > p
      BY <1>1
    <3> QED BY <2>1, <3>1, <3>2, <3>3, <1>1
  <2>3. ASSUME NEW k \in 1 .. Len(s) PROVE s[k] \in Range(t)
    <3>1. k \in 1 .. Len(s) + 1 /\ k + 1 \in 1 .. Len(s) + 1 /\ (k + 1) - 1 = k
      BY <1>1
    <3>2. k < p => t[k] = s[k]
      BY <2>1, <3>1
    <3>3. k >= p => t[k + 1] = s[k]
      BY <2>1, <3>1, <1>1
    <3> QED BY <3>1, <3>2, <3>3, <1>1, <1>2 DEF Range
  <2>4. i \in Range(t)
    BY <2>1, <1>1, <1>2 DEF Range
  <2> QED BY <2>2, <2>3, <2>4, <1>1, <1>2 DEF Range
<1>12. ASSUME NEW m \in List, NEW u \in Seq(Item), m # l, Range(s) \cap Range(u) = {},
              i \notin Range(u), Chain(m, u, nx, pv)
       PROVE  Chain(m, u, nx2, pv2)
  <2>1. \A j \in 0 .. Len(s) + 1, k \in 0 .. Len(u) + 1 : Place(l, s, j) # Place(m, u, k)
    BY <1>12, OtherPlaces
  <2>2. \A k \in 0 .. Len(u) + 1 : Place(m, u, k) # <<i>>
    BY <1>12, NotAPlace
  <2>3. \A k \in 0 .. Len(u) + 1 : Place(m, u, k) \in Node
    <3>1. Len(u) \in Nat /\ \A k \in 1 .. Len(u) : u[k] \in Item
      BY ElementOfSeq
    <3> QED BY <3>1, NodesAre DEF Place
  <2>4. ASSUME NEW k \in 0 .. Len(u)
        PROVE  nx2[Place(m, u, k)] = Place(m, u, k + 1) /\ pv2[Place(m, u, k + 1)] = Place(m, u, k)
    <3>1. k \in 0 .. Len(u) + 1 /\ k + 1 \in 0 .. Len(u) + 1
      OBVIOUS
    <3>2. nx[Place(m, u, k)] = Place(m, u, k + 1) /\ pv[Place(m, u, k + 1)] = Place(m, u, k)
      BY <1>12 DEF Chain
    <3> QED BY <3>1, <3>2, <2>1, <2>2, <2>3, <1>5, <1>8
  <2> QED BY <2>4 DEF Chain
<1> QED BY <1>6, <1>9, <1>10, <1>11, <1>12

(* The neighbours of a node of a list know each other when it goes. *)
Without(l, s, p, nx, pv, nx2, pv2) ==
  /\ nx2 = [nx EXCEPT ![Place(l, s, p - 1)] = Place(l, s, p + 1)]
  /\ pv2 = [pv EXCEPT ![Place(l, s, p + 1)] = Place(l, s, p - 1)]

LEMMA UnlinkedChain ==
  ASSUME NEW l \in List, NEW s \in Seq(Item), NEW nx \in Pointers, NEW pv \in Pointers,
         Distinct(s), Chain(l, s, nx, pv),
         NEW p \in 1 .. Len(s), NEW t, Removed(s, p, t),
         NEW nx2, NEW pv2, Without(l, s, p, nx, pv, nx2, pv2)
  PROVE  /\ nx2 \in Pointers /\ pv2 \in Pointers
         /\ Distinct(t) /\ Chain(l, t, nx2, pv2) /\ Range(t) \subseteq Range(s)
         /\ \A m \in List, u \in Seq(Item) :
              m # l /\ Range(s) \cap Range(u) = {} /\ Chain(m, u, nx, pv)
                => Chain(m, u, nx2, pv2)
<1>1. Len(s) \in Nat /\ DOMAIN s = 1 .. Len(s) /\ p \in Nat
  OBVIOUS
<1>2. Len(t) = Len(s) - 1 /\ DOMAIN t = 1 .. Len(s) - 1
  BY <1>1 DEF Removed
<1>3. \A k \in 0 .. Len(s) :
        Place(l, t, k) = IF k < p THEN Place(l, s, k) ELSE Place(l, s, k + 1)
  BY RemovedPlaces
<1>4. /\ \A k \in 0 .. Len(s) + 1 : Place(l, s, k) \in Node
      /\ \A j, k \in 0 .. Len(s) + 1 : Place(l, s, j) = Place(l, s, k) => j = k
  BY PlacesAre
<1>5. p - 1 \in 0 .. Len(s) + 1 /\ p \in 0 .. Len(s) + 1 /\ p + 1 \in 0 .. Len(s) + 1
  BY <1>1
<1>6. nx2 \in Pointers /\ pv2 \in Pointers
  BY <1>4, <1>5 DEF Without, Pointers
<1>7. nx2[Place(l, s, p - 1)] = Place(l, s, p + 1) /\ pv2[Place(l, s, p + 1)] = Place(l, s, p - 1)
  BY <1>4, <1>5 DEF Without, Pointers
<1>8. \A n \in Node : /\ n # Place(l, s, p - 1) => nx2[n] = nx[n]
                      /\ n # Place(l, s, p + 1) => pv2[n] = pv[n]
  BY DEF Without, Pointers
<1>9. \A k \in 1 .. Len(s) - 1 : /\ k \in 1 .. Len(s) /\ k + 1 \in 1 .. Len(s)
                                 /\ t[k] = IF k < p THEN s[k] ELSE s[k + 1]
  BY <1>1 DEF Removed
<1>10. Distinct(t)
  <2>1. \A j, k \in 1 .. Len(s) : s[j] = s[k] => j = k
    BY <1>1 DEF Distinct
  <2>2. ASSUME NEW j \in 1 .. Len(s) - 1, NEW k \in 1 .. Len(s) - 1, t[j] = t[k]
        PROVE  j = k
    BY <1>1, <1>9, <2>1, <2>2
  <2> QED BY <2>2, <1>2 DEF Distinct
<1>11. Chain(l, t, nx2, pv2)
  <2>1. ASSUME NEW k \in 0 .. Len(s) - 1
        PROVE  nx2[Place(l, t, k)] = Place(l, t, k + 1) /\ pv2[Place(l, t, k + 1)] = Place(l, t, k)
    <3>1. CASE k < p - 1
      <4>1. k \in 0 .. Len(s) /\ k \in 0 .. Len(s) + 1 /\ k + 1 \in 0 .. Len(s) + 1 /\ k + 1 \in 0 .. Len(s)
        BY <3>1, <1>1
      <4>2. Place(l, t, k) = Place(l, s, k) /\ Place(l, t, k + 1) = Place(l, s, k + 1)
        BY <1>3, <4>1, <3>1, <1>1
      <4>3. nx[Place(l, s, k)] = Place(l, s, k + 1) /\ pv[Place(l, s, k + 1)] = Place(l, s, k)
        BY <4>1 DEF Chain
      <4>4. Place(l, s, k) # Place(l, s, p - 1) /\ Place(l, s, k + 1) # Place(l, s, p + 1)
        BY <4>1, <1>4, <1>5, <3>1, <1>1
      <4> QED BY <4>1, <4>2, <4>3, <4>4, <1>4, <1>8
    <3>2. CASE k = p - 1
      <4>1. Place(l, t, k) = Place(l, s, p - 1) /\ Place(l, t, k + 1) = Place(l, s, p + 1)
        BY <1>3, <3>2, <1>1
      <4> QED BY <4>1, <1>7
    <3>4. CASE k >= p
      <4>1. /\ k \in 0 .. Len(s) /\ k + 1 \in 0 .. Len(s)
            /\ k + 1 \in 0 .. Len(s) + 1 /\ k + 2 \in 0 .. Len(s) + 1 /\ (k + 1) + 1 = k + 2
        BY <3>4, <1>1
      <4>2. Place(l, t, k) = Place(l, s, k + 1) /\ Place(l, t, k + 1) = Place(l, s, k + 2)
        BY <1>3, <4>1, <3>4, <1>1
      <4>3. nx[Place(l, s, k + 1)] = Place(l, s, k + 2) /\ pv[Place(l, s, k + 2)] = Place(l, s, k + 1)
        BY <4>1 DEF Chain
      <4>4. Place(l, s, k + 1) # Place(l, s, p - 1) /\ Place(l, s, k + 2) # Place(l, s, p + 1)
        BY <4>1, <1>4, <1>5, <3>4, <1>1
      <4> QED BY <4>1, <4>2, <4>3, <4>4, <1>4, <1>8
    <3> QED BY <3>1, <3>2, <3>4, <1>1
  <2> QED BY <2>1, <1>2 DEF Chain
<1>12. Range(t) \subseteq Range(s)
  <2>1. \A k \in 1 .. Len(s) - 1 : t[k] \in Range(s)
    BY <1>9, <1>1 DEF Range
  <2> QED BY <2>1, <1>2 DEF Range
<1>13. ASSUME NEW m \in List, NEW u \in Seq(Item), m # l, Range(s) \cap Range(u) = {},
              Chain(m, u, nx, pv)
       PROVE  Chain(m, u, nx2, pv2)
  <2>1. \A j \in 0 .. Len(s) + 1, k \in 0 .. Len(u) + 1 : Place(l, s, j) # Place(m, u, k)
    BY <1>13, OtherPlaces
  <2>3. \A k \in 0 .. Len(u) + 1 : Place(m, u, k) \in Node
    <3>1. Len(u) \in Nat /\ \A k \in 1 .. Len(u) : u[k] \in Item
      BY ElementOfSeq
    <3> QED BY <3>1, NodesAre DEF Place
  <2>4. ASSUME NEW k \in 0 .. Len(u)
        PROVE  nx2[Place(m, u, k)] = Place(m, u, k + 1) /\ pv2[Place(m, u, k + 1)] = Place(m, u, k)
    <3>1. k \in 0 .. Len(u) + 1 /\ k + 1 \in 0 .. Len(u) + 1
      OBVIOUS
    <3>2. nx[Place(m, u, k)] = Place(m, u, k + 1) /\ pv[Place(m, u, k + 1)] = Place(m, u, k)
      BY <1>13 DEF Chain
    <3> QED BY <3>1, <3>2, <2>1, <2>3, <1>5, <1>8
  <2> QED BY <2>4 DEF Chain
<1> QED BY <1>6, <1>10, <1>11, <1>12, <1>13

(* An item of a sequence is where At says. *)
LEMMA AtIs ==
  ASSUME NEW s \in Seq(Item), Distinct(s), NEW k \in 1 .. Len(s)
  PROVE  At(s, <<s[k]>>) = k
<1>1. Len(s) \in Nat /\ DOMAIN s = 1 .. Len(s)
  OBVIOUS
<1>2. \A j \in DOMAIN s : <<s[j]>> = <<s[k]>> => j = k
  BY <1>1, NodesDiffer DEF Distinct
<1> QED BY <1>1, <1>2 DEF At

(* A list that is reset, or begins, is a chain of its dummies. *)
LEMMA EmptyChain ==
  ASSUME NEW l \in List, NEW nx, NEW pv,
         nx[dummyFirst(l)] = dummyLast(l), pv[dummyLast(l)] = dummyFirst(l)
  PROVE  <<>> \in Seq(Item) /\ Len(<<>>) = 0 /\ Distinct(<<>>) /\ Chain(l, <<>>, nx, pv)
<1>1. <<>> \in Seq(Item) /\ Len(<<>>) = 0 /\ DOMAIN <<>> = {}
  OBVIOUS
<1>2. Place(l, <<>>, 0) = dummyFirst(l) /\ Place(l, <<>>, 1) = dummyLast(l)
  BY <1>1 DEF Place
<1>3. \A k \in 0 .. 0 : k = 0 /\ k + 1 = 1
  OBVIOUS
<1> QED BY <1>1, <1>2, <1>3 DEF Distinct, Chain

-----------------------------------------------------------------------------
(* A list is read in the order of its sequence, from either end. *)
LEMMA ListRead ==
  ASSUME NEW l \in List, NEW s \in Seq(Item), Distinct(s), Chain(l, s, nextNode, prevNode)
  PROVE  /\ radListGetFirst(l) = NodeAt(s, 1) /\ radListGetLast(l) = NodeAt(s, Len(s))
         /\ \A k \in 1 .. Len(s) : /\ radListGetNext(l, <<s[k]>>) = NodeAt(s, k + 1)
                                   /\ radListGetPrevious(l, <<s[k]>>) = NodeAt(s, k - 1)
<1>1. Len(s) \in Nat /\ DOMAIN s = 1 .. Len(s) /\ \A k \in 1 .. Len(s) : s[k] \in Item
  BY ElementOfSeq
<1>2. /\ Place(l, s, 0) = dummyFirst(l) /\ Place(l, s, Len(s) + 1) = dummyLast(l)
      /\ \A k \in 1 .. Len(s) : Place(l, s, k) = <<s[k]>>
  BY <1>1 DEF Place
<1>3. \A k \in 0 .. Len(s) : /\ nextNode[Place(l, s, k)] = Place(l, s, k + 1)
                             /\ prevNode[Place(l, s, k + 1)] = Place(l, s, k)
  BY DEF Chain
<1>4. \A k \in 1 .. Len(s) + 1 : (IF Place(l, s, k) = dummyLast(l) THEN Nil ELSE Place(l, s, k)) = NodeAt(s, k)
  BY <1>1, <1>2, NodesDiffer DEF NodeAt
<1>5. \A k \in 0 .. Len(s) : (IF Place(l, s, k) = dummyFirst(l) THEN Nil ELSE Place(l, s, k)) = NodeAt(s, k)
  BY <1>1, <1>2, NodesDiffer DEF NodeAt
<1>6. radListGetFirst(l) = NodeAt(s, 1)
  <2>1. nextNode[dummyFirst(l)] = Place(l, s, 1)
    BY <1>1, <1>2, <1>3
  <2>2. 1 \in 1 .. Len(s) + 1
    BY <1>1
  <2> QED BY <2>1, <2>2, <1>4 DEF radListGetFirst
<1>7. radListGetLast(l) = NodeAt(s, Len(s))
  <2>1. prevNode[dummyLast(l)] = Place(l, s, Len(s))
    BY <1>1, <1>2, <1>3
  <2>2. Len(s) \in 0 .. Len(s)
    BY <1>1
  <2> QED BY <2>1, <2>2, <1>5 DEF radListGetLast
<1>8. ASSUME NEW k \in 1 .. Len(s)
      PROVE  /\ radListGetNext(l, <<s[k]>>) = NodeAt(s, k + 1)
             /\ radListGetPrevious(l, <<s[k]>>) = NodeAt(s, k - 1)
  <2>1. <<s[k]>> # Nil /\ Place(l, s, k) = <<s[k]>>
    BY <1>1, <1>2, NodesDiffer
  <2>2. k \in 0 .. Len(s) /\ k - 1 \in 0 .. Len(s) /\ (k - 1) + 1 = k /\ k + 1 \in 1 .. Len(s) + 1
    BY <1>1
  <2>3. nextNode[<<s[k]>>] = Place(l, s, k + 1) /\ prevNode[<<s[k]>>] = Place(l, s, k - 1)
    BY <2>1, <2>2, <1>3
  <2>4. radListGetNext(l, <<s[k]>>) = NodeAt(s, k + 1)
    BY <2>1, <2>2, <2>3, <1>4 DEF radListGetNext
  <2>5. radListGetPrevious(l, <<s[k]>>) = NodeAt(s, k - 1)
    BY <2>1, <2>2, <2>3, <1>5 DEF radListGetPrevious
  <2> QED BY <2>4, <2>5
<1> QED BY <1>6, <1>7, <1>8

(* Following g from any point of S until it stops is a function: where it  *)
(* stops is among the points that it can reach.                            *)
LEMMA WalkExists ==
  ASSUME NEW S, NEW g \in [S -> S], NEW Stop
  PROVE  \E f : f = [n \in S |-> IF n \in Stop THEN n ELSE f[g[n]]]
<1> DEFINE Stays(A) == \A a \in A : a \notin Stop => g[a] \in A
           Reach(n) == {m \in S : \A A \in SUBSET S : n \in A /\ Stays(A) => m \in A}
           f == [n \in S |-> CHOOSE m : m \in Reach(n) \cap Stop]
<1>1. ASSUME NEW n \in S, n \in Stop PROVE Reach(n) = {n}
  <2>1. n \in Reach(n)
    OBVIOUS
  <2>2. {n} \in SUBSET S /\ Stays({n})
    BY <1>1
  <2>3. \A m \in Reach(n) : m = n
    BY <2>2
  <2> HIDE DEF Reach
  <2> QED BY <2>1, <2>3
<1>2. ASSUME NEW n \in S, n \notin Stop PROVE Reach(n) \cap Stop = Reach(g[n]) \cap Stop
  <2>1. g[n] \in S
    OBVIOUS
  <2>2. ASSUME NEW m \in Reach(n), m \in Stop PROVE m \in Reach(g[n])
    <3>1. SUFFICES ASSUME NEW A \in SUBSET S, g[n] \in A, Stays(A) PROVE m \in A
      BY <2>2
    <3>2. (A \cup {n}) \in SUBSET S /\ Stays(A \cup {n})
      BY <3>1
    <3>3. m \in A \cup {n}
      BY <3>2
    <3> QED BY <3>3, <2>2, <1>2
  <2>3. ASSUME NEW m \in Reach(g[n]) PROVE m \in Reach(n)
    <3>1. SUFFICES ASSUME NEW A \in SUBSET S, n \in A, Stays(A) PROVE m \in A
      BY <2>3
    <3>2. g[n] \in A
      BY <3>1, <1>2
    <3> QED BY <2>3, <3>1, <3>2
  <2> HIDE DEF Reach
  <2> QED BY <2>2, <2>3
<1> HIDE DEF Reach
<1>3. ASSUME NEW n \in S PROVE f[n] = IF n \in Stop THEN n ELSE f[g[n]]
  <2>1. g[n] \in S
    OBVIOUS
  <2>2. CASE n \in Stop
    <3>1. Reach(n) \cap Stop = {n}
      BY <1>1, <2>2
    <3>2. f[n] = CHOOSE m : m \in {n}
      BY <3>1
    <3> QED BY <3>2, <2>2
  <2>3. CASE n \notin Stop
    <3>1. f[n] = (CHOOSE m : m \in Reach(n) \cap Stop) /\ f[g[n]] = (CHOOSE m : m \in Reach(g[n]) \cap Stop)
      BY <2>1
    <3> QED BY <3>1, <1>2, <2>3
  <2> QED BY <2>2, <2>3
<1>4. f = [n \in S |-> f[n]]
  OBVIOUS
<1> HIDE DEF f
<1>5. f = [n \in S |-> IF n \in Stop THEN n ELSE f[g[n]]]
  BY <1>3, <1>4
<1> QED BY <1>5

(* Where the walk for one of wanted ends: at the first there is, or at the end. *)
FirstOf(s, wanted, k) ==
  /\ k \in 1 .. Len(s) + 1
  /\ \A j \in 1 .. Len(s) : j < k => s[j] \notin wanted
  /\ k \in 1 .. Len(s) => s[k] \in wanted

LEMMA FirstExists ==
  ASSUME NEW s \in Seq(Item), NEW wanted
  PROVE  \E k : FirstOf(s, wanted, k)
<1> DEFINE T == {k \in 1 .. Len(s) + 1 : k = Len(s) + 1 \/ s[k] \in wanted}
<1>1. Len(s) \in Nat
  OBVIOUS
<1>2. T \in SUBSET Nat /\ Len(s) + 1 \in T
  BY <1>1
<1>3. PICK k \in T : \A z \in T : k <= z
  <2>1. T # {}
    BY <1>2
  <2> HIDE DEF T
  <2> QED BY <1>2, <2>1, LeastIn
<1>4. \A j \in 1 .. Len(s) : j < k => s[j] \notin wanted
  BY <1>1, <1>3
<1> QED BY <1>1, <1>3, <1>4 DEF FirstOf

LEMMA SoughtIs ==
  ASSUME NEW s \in Seq(Item), Distinct(s), Chain("sorted", s, nextNode, prevNode),
         nextNode \in Pointers, NEW wanted, NEW k, FirstOf(s, wanted, k)
  PROVE  Sought(wanted) = NodeAt(s, k)
<1> DEFINE S == Node \cup {Nil}
           Stop == {n \in S : n = Nil \/ n[1] \in wanted}
           next == [n \in S |-> radListGetNext("sorted", n)]
           from == CHOOSE f : f = [n \in S |-> IF n = Nil \/ n[1] \in wanted THEN n
                                              ELSE f[radListGetNext("sorted", n)]]
<1>1. Sought(wanted) = from[radListGetFirst("sorted")]
  BY DEF Sought
<1>2. next \in [S -> S]
  <2>1. dummyFirst("sorted") \in Node
    BY NodesAre
  <2>2. \A n \in Node : nextNode[n] \in S
    BY DEF Pointers
  <2>3. \A n \in S : radListGetNext("sorted", n) \in S
    BY <2>1, <2>2 DEF radListGetNext, radListGetFirst
  <2> QED BY <2>3
<1>3. \E f : f = [n \in S |-> IF n = Nil \/ n[1] \in wanted THEN n
                             ELSE f[radListGetNext("sorted", n)]]
  <2> HIDE DEF next, Stop
  <2>1. PICK f : f = [n \in S |-> IF n \in Stop THEN n ELSE f[next[n]]]
    <3> HIDE DEF S
    <3> QED BY <1>2, WalkExists
  <2> HIDE DEF S
  <2>3. [n \in S |-> IF n \in Stop THEN n ELSE f[next[n]]]
        = [n \in S |-> IF n = Nil \/ n[1] \in wanted THEN n ELSE f[radListGetNext("sorted", n)]]
    <3>1. ASSUME NEW n \in S
          PROVE  (IF n \in Stop THEN n ELSE f[next[n]])
                 = IF n = Nil \/ n[1] \in wanted THEN n ELSE f[radListGetNext("sorted", n)]
      <4>1. next[n] = radListGetNext("sorted", n)
        BY DEF next
      <4>2. CASE n = Nil \/ n[1] \in wanted
        <5>1. n \in Stop
          BY <4>2 DEF Stop
        <5> QED BY <4>2, <5>1
      <4>3. CASE ~ (n = Nil \/ n[1] \in wanted)
        <5>1. n \notin Stop
          BY <4>3 DEF Stop
        <5> QED BY <4>1, <4>3, <5>1
      <4> QED BY <4>2, <4>3
    <3> QED BY <3>1
  <2>4. f = [n \in S |-> IF n = Nil \/ n[1] \in wanted THEN n ELSE f[radListGetNext("sorted", n)]]
    BY <2>1, <2>3
  <2> QED BY <2>4
<1>4. from = [n \in S |-> IF n = Nil \/ n[1] \in wanted THEN n
                         ELSE from[radListGetNext("sorted", n)]]
  BY <1>3
<1>5. \A n \in S : from[n] = IF n = Nil \/ n[1] \in wanted THEN n
                             ELSE from[radListGetNext("sorted", n)]
  <2> HIDE DEF from, S
  <2> QED BY <1>4
<1> HIDE DEF from
<1>6. Len(s) \in Nat /\ DOMAIN s = 1 .. Len(s) /\ \A j \in 1 .. Len(s) : s[j] \in Item
  BY ElementOfSeq
<1>7. k \in 1 .. Len(s) + 1
  BY DEF FirstOf
<1>8. /\ radListGetFirst("sorted") = NodeAt(s, 1)
      /\ \A j \in 1 .. Len(s) : radListGetNext("sorted", <<s[j]>>) = NodeAt(s, j + 1)
  BY NodesAre, ListRead
<1>9. \A j \in 1 .. Len(s) : NodeAt(s, j) = <<s[j]>> /\ <<s[j]>> \in S /\ <<s[j]>> # Nil /\ <<s[j]>>[1] = s[j]
  BY <1>6, NodesAre, NodesDiffer DEF NodeAt
<1>10. NodeAt(s, Len(s) + 1) = Nil
  BY <1>6 DEF NodeAt
<1> HIDE DEF S
<1>11. from[NodeAt(s, 1)] = from[NodeAt(s, k)]
  <2> DEFINE T == {j \in 1 .. k : from[NodeAt(s, j)] # from[NodeAt(s, 1)]}
  <2>1. SUFFICES ASSUME NEW x \in T PROVE FALSE
    BY <1>7
  <2>2. T \in SUBSET Nat
    BY <1>7
  <2>3. PICK y \in T : \A z \in T : y <= z
    <3>1. T # {}
      BY <2>1
    <3> HIDE DEF T
    <3> QED BY <2>2, <3>1, LeastIn
  <2>4. y \in 1 .. k /\ y # 1 /\ from[NodeAt(s, y)] # from[NodeAt(s, 1)]
    BY <2>3
  <2>5. y - 1 \in 1 .. k /\ y - 1 \in 1 .. Len(s) /\ y - 1 < k /\ (y - 1) + 1 = y
    BY <2>4, <1>6, <1>7
  <2>6. y - 1 \notin T
    BY <2>3, <2>4
  <2>7. from[NodeAt(s, y - 1)] = from[NodeAt(s, 1)]
    BY <2>5, <2>6
  <2>8. s[y - 1] \notin wanted
    BY <2>5 DEF FirstOf
  <2>9. from[NodeAt(s, y - 1)] = from[NodeAt(s, y)]
    <3>1. /\ NodeAt(s, y - 1) = <<s[y - 1]>> /\ <<s[y - 1]>> \in S /\ <<s[y - 1]>> # Nil
          /\ <<s[y - 1]>>[1] = s[y - 1]
      BY <2>5, <1>9
    <3>2. radListGetNext("sorted", <<s[y - 1]>>) = NodeAt(s, y)
      BY <2>5, <1>8
    <3> QED BY <3>1, <3>2, <2>8, <1>5
  <2> QED BY <2>4, <2>7, <2>9
<1>12. from[NodeAt(s, k)] = NodeAt(s, k)
  <2>1. CASE k \in 1 .. Len(s)
    BY <2>1, <1>5, <1>9 DEF FirstOf
  <2>2. CASE k = Len(s) + 1
    <3>1. Nil \in S
      BY DEF S
    <3> QED BY <2>2, <3>1, <1>5, <1>10
  <2> QED BY <2>1, <2>2, <1>6, <1>7
<1> QED BY <1>1, <1>8, <1>11, <1>12

-----------------------------------------------------------------------------
(* A sorted list stays in order when a node goes, and when one comes before *)
(* the first whose key is greater.                                          *)
LEMMA AscendingRemoved ==
  ASSUME NEW s \in Seq(Item), NEW p \in 1 .. Len(s), NEW t, Removed(s, p, t), Ascending(s)
  PROVE  Ascending(t)
<1>1. /\ Len(s) \in Nat /\ DOMAIN s = 1 .. Len(s)
      /\ t \in Seq(Item) /\ Len(t) = Len(s) - 1
  BY DEF Removed
<1>2. DOMAIN t = 1 .. Len(s) - 1
  BY <1>1
<1>3. ASSUME NEW j \in 1 .. Len(s) - 1, NEW k \in 1 .. Len(s) - 1, j < k
      PROVE  Key[t[j]] <= Key[t[k]]
  <2>1. t[j] = s[IF j < p THEN j ELSE j + 1] /\ t[k] = s[IF k < p THEN k ELSE k + 1]
    BY DEF Removed
  <2>2. /\ (IF j < p THEN j ELSE j + 1) \in DOMAIN s
        /\ (IF k < p THEN k ELSE k + 1) \in DOMAIN s
        /\ (IF j < p THEN j ELSE j + 1) < (IF k < p THEN k ELSE k + 1)
    BY <1>1, <1>3
  <2> QED BY <2>1, <2>2 DEF Ascending
<1> QED BY <1>2, <1>3 DEF Ascending

LEMMA AscendingInserted ==
  ASSUME NEW s \in Seq(Item), NEW i \in Item, Ascending(s),
         NEW p, FirstOf(s, {j \in Item : Key[j] > Key[i]}, p), NEW t, PutIn(s, p, i, t)
  PROVE  Ascending(t)
<1>1. /\ Len(s) \in Nat /\ DOMAIN s = 1 .. Len(s)
      /\ t \in Seq(Item) /\ Len(t) = Len(s) + 1 /\ p \in 1 .. Len(s) + 1
  BY DEF PutIn, FirstOf
<1>2. DOMAIN t = 1 .. Len(s) + 1
  BY <1>1
<1>3. \A k \in 1 .. Len(s) : s[k] \in Item
  BY ElementOfSeq
<1>4. \A j \in Item : Key[j] \in Nat
  BY ListsAssumption
<1>5. \A k \in 1 .. Len(s) : k < p => Key[s[k]] <= Key[i]
  BY <1>3, <1>4 DEF FirstOf
<1>6. ASSUME NEW k \in 1 .. Len(s), k >= p PROVE Key[i] <= Key[s[k]]
  <2>1. p \in 1 .. Len(s)
    BY <1>1, <1>6
  <2>2. Key[i] <= Key[s[p]]
    BY <2>1, <1>3, <1>4 DEF FirstOf
  <2>3. CASE k = p
    BY <2>2, <2>3
  <2>4. CASE k > p
    <3>1. Key[s[p]] <= Key[s[k]]
      BY <2>1, <2>4, <1>1 DEF Ascending
    <3>2. Key[i] \in Nat /\ Key[s[p]] \in Nat /\ Key[s[k]] \in Nat
      BY <2>1, <1>3, <1>4
    <3> QED BY <2>2, <3>1, <3>2
  <2> QED BY <2>3, <2>4, <2>1, <1>6
<1>7. ASSUME NEW j \in 1 .. Len(s) + 1, NEW k \in 1 .. Len(s) + 1, j < k
      PROVE  Key[t[j]] <= Key[t[k]]
  <2>1. /\ t[j] = IF j < p THEN s[j] ELSE IF j = p THEN i ELSE s[j - 1]
        /\ t[k] = IF k < p THEN s[k] ELSE IF k = p THEN i ELSE s[k - 1]
    BY DEF PutIn
  <2>2. CASE k < p
    <3>1. j \in DOMAIN s /\ k \in DOMAIN s /\ j < p
      BY <2>2, <1>1, <1>7
    <3> QED BY <3>1, <2>1, <2>2, <1>7 DEF Ascending
  <2>3. CASE k = p
    <3>1. j \in 1 .. Len(s) /\ j < p /\ ~ (k < p)
      BY <2>3, <1>1, <1>7
    <3> QED BY <3>1, <2>1, <2>3, <1>5
  <2>4. CASE k > p
    <3>1. k - 1 \in 1 .. Len(s) /\ k - 1 >= p /\ ~ (k < p) /\ k # p
      BY <2>4, <1>1
    <3>2. t[k] = s[k - 1]
      BY <3>1, <2>1
    <3>3. CASE j < p
      <4>1. j \in 1 .. Len(s) /\ t[j] = s[j] /\ j < k - 1
        BY <3>3, <2>1, <2>4, <1>1
      <4> QED BY <4>1, <3>1, <3>2, <1>1 DEF Ascending
    <3>4. CASE j = p
      <4>1. t[j] = i
        BY <3>4, <2>1
      <4> QED BY <4>1, <3>1, <3>2, <1>6
    <3>5. CASE j > p
      <4>1. j - 1 \in 1 .. Len(s) /\ t[j] = s[j - 1] /\ j - 1 < k - 1
        BY <3>5, <2>1, <1>1, <1>7
      <4> QED BY <4>1, <3>1, <3>2, <1>1 DEF Ascending
    <3> QED BY <3>3, <3>4, <3>5, <1>1
  <2> QED BY <2>2, <2>3, <2>4, <1>1
<1> QED BY <1>2, <1>7 DEF Ascending

(* A node comes to a list, at a place of it. *)
LEMMA LinkedStep ==
  ASSUME ListsInv, NEW l \in List, NEW i \in Item, i \notin Held,
         NEW p \in 1 .. Len(order[l]) + 1, NEW t, PutIn(order[l], p, i, t),
         Linked(l, Place(l, order[l], p - 1), <<i>>, Place(l, order[l], p)),
         order' = [order EXCEPT ![l] = t], l = "sorted" => Ascending(t)
  PROVE  ListsInv'
<1>1. /\ nextNode \in Pointers /\ prevNode \in Pointers /\ noNodes \in [List -> Int]
      /\ order \in [List \cup {"stack"} -> Seq(Item)]
  BY DEF ListsInv, ListsTypes
<1>2. \A m \in List : order[m] \in Seq(Item) /\ Distinct(order[m])
                     /\ Chain(m, order[m], nextNode, prevNode) /\ i \notin Range(order[m])
  <2>1. \A m \in List : order[m] \in Seq(Item) /\ i \notin Range(order[m])
    BY <1>1 DEF Held
  <2> QED BY <2>1 DEF ListsInv, ChainsAre
<1>3. \A m, n \in List : m # n => Range(order[m]) \cap Range(order[n]) = {}
  BY DEF ListsInv, Apart
<1>4. Between(l, order[l], p, i, nextNode, prevNode, nextNode', prevNode')
  BY DEF Linked, Between
<1>5. PICK s : s = order[l]
  OBVIOUS
<1>6. s \in Seq(Item) /\ Distinct(s) /\ Chain(l, s, nextNode, prevNode) /\ i \notin Range(s)
  BY <1>2, <1>5
<1>7. PutIn(s, p, i, t) /\ p \in 1 .. Len(s) + 1 /\ Between(l, s, p, i, nextNode, prevNode, nextNode', prevNode')
  BY <1>4, <1>5
<1>8. /\ nextNode' \in Pointers /\ prevNode' \in Pointers
      /\ Distinct(t) /\ Chain(l, t, nextNode', prevNode') /\ Range(t) = Range(s) \cup {i}
      /\ \A m \in List, u \in Seq(Item) :
           m # l /\ Range(s) \cap Range(u) = {} /\ i \notin Range(u) /\ Chain(m, u, nextNode, prevNode)
             => Chain(m, u, nextNode', prevNode')
  BY <1>1, <1>6, <1>7, LinkedChain
<1>9. t \in Seq(Item) /\ Len(t) = Len(s) + 1
  BY <1>7 DEF PutIn
<1>10. /\ order' \in [List \cup {"stack"} -> Seq(Item)]
       /\ order'[l] = t /\ order'["stack"] = order["stack"]
       /\ \A m \in List : m # l => order'[m] = order[m]
  BY <1>1, <1>9 DEF List
<1>11. /\ noNodes' \in [List -> Int] /\ noNodes'[l] = noNodes[l] + 1
       /\ \A m \in List : m # l => noNodes'[m] = noNodes[m]
  BY <1>1 DEF Linked
<1>12. head' = head /\ below' = below /\ count' = count
  BY DEF Linked
<1>13. ListsTypes'
  BY <1>8, <1>10, <1>11, <1>12 DEF ListsTypes, ListsInv
<1>14. \A m \in List : noNodes'[m] = Len(order'[m])
  BY <1>5, <1>9, <1>10, <1>11 DEF ListsInv
<1>15. ChainsAre(order', nextNode', prevNode')
  <2>1. ASSUME NEW m \in List PROVE Distinct(order'[m]) /\ Chain(m, order'[m], nextNode', prevNode')
    <3>1. CASE m = l
      BY <3>1, <1>8, <1>10
    <3>2. CASE m # l
      <4>1. Range(s) \cap Range(order[m]) = {}
        BY <3>2, <1>3, <1>5
      <4> QED BY <3>2, <4>1, <1>2, <1>8, <1>10
    <3> QED BY <3>1, <3>2
  <2> QED BY <2>1 DEF ChainsAre
<1>16. Apart(order')
  <2>1. ASSUME NEW m \in List, NEW n \in List, m # n PROVE Range(order'[m]) \cap Range(order'[n]) = {}
    <3>1. Range(order[m]) \cap Range(order[n]) = {}
      BY <2>1, <1>3
    <3>2. CASE m = l
      BY <3>1, <3>2, <2>1, <1>2, <1>5, <1>8, <1>10
    <3>3. CASE n = l
      BY <3>1, <3>3, <2>1, <1>2, <1>5, <1>8, <1>10
    <3> QED BY <3>1, <3>2, <3>3, <1>10
  <2> QED BY <2>1 DEF Apart
<1>17. Ascending(order'["sorted"])
  BY <1>10, NodesAre DEF ListsInv
<1>18. StackInv'
  BY <1>10, <1>12 DEF StackInv, ListsInv
<1> QED BY <1>13, <1>14, <1>15, <1>16, <1>17, <1>18 DEF ListsInv

(* A node of a list goes. *)
LEMMA UnlinkedStep ==
  ASSUME ListsInv, NEW l \in List, NEW p \in 1 .. Len(order[l]), NEW t, Removed(order[l], p, t),
         Unlinked(l, Place(l, order[l], p - 1), Place(l, order[l], p + 1)),
         order' = [order EXCEPT ![l] = t]
  PROVE  ListsInv'
<1>1. /\ nextNode \in Pointers /\ prevNode \in Pointers /\ noNodes \in [List -> Int]
      /\ order \in [List \cup {"stack"} -> Seq(Item)]
  BY DEF ListsInv, ListsTypes
<1>2. \A m \in List : order[m] \in Seq(Item) /\ Distinct(order[m])
                     /\ Chain(m, order[m], nextNode, prevNode)
  BY <1>1 DEF ListsInv, ChainsAre
<1>3. \A m, n \in List : m # n => Range(order[m]) \cap Range(order[n]) = {}
  BY DEF ListsInv, Apart
<1>5. PICK s : s = order[l]
  OBVIOUS
<1>6. s \in Seq(Item) /\ Distinct(s) /\ Chain(l, s, nextNode, prevNode)
  BY <1>2, <1>5
<1>7. Removed(s, p, t) /\ p \in 1 .. Len(s) /\ Without(l, s, p, nextNode, prevNode, nextNode', prevNode')
  BY <1>5 DEF Unlinked, Without
<1>8. /\ nextNode' \in Pointers /\ prevNode' \in Pointers
      /\ Distinct(t) /\ Chain(l, t, nextNode', prevNode') /\ Range(t) \subseteq Range(s)
      /\ \A m \in List, u \in Seq(Item) :
           m # l /\ Range(s) \cap Range(u) = {} /\ Chain(m, u, nextNode, prevNode)
             => Chain(m, u, nextNode', prevNode')
  BY <1>1, <1>6, <1>7, UnlinkedChain
<1>9. t \in Seq(Item) /\ Len(t) = Len(s) - 1
  BY <1>7 DEF Removed
<1>10. /\ order' \in [List \cup {"stack"} -> Seq(Item)]
       /\ order'[l] = t /\ order'["stack"] = order["stack"]
       /\ \A m \in List : m # l => order'[m] = order[m]
  BY <1>1, <1>9 DEF List
<1>11. /\ noNodes' \in [List -> Int] /\ noNodes'[l] = noNodes[l] - 1
       /\ \A m \in List : m # l => noNodes'[m] = noNodes[m]
  BY <1>1 DEF Unlinked
<1>12. head' = head /\ below' = below /\ count' = count
  BY DEF Unlinked
<1>13. ListsTypes'
  BY <1>8, <1>10, <1>11, <1>12 DEF ListsTypes, ListsInv
<1>14. \A m \in List : noNodes'[m] = Len(order'[m])
  BY <1>5, <1>9, <1>10, <1>11 DEF ListsInv
<1>15. ChainsAre(order', nextNode', prevNode')
  <2>1. ASSUME NEW m \in List PROVE Distinct(order'[m]) /\ Chain(m, order'[m], nextNode', prevNode')
    <3>1. CASE m = l
      BY <3>1, <1>8, <1>10
    <3>2. CASE m # l
      <4>1. Range(s) \cap Range(order[m]) = {}
        BY <3>2, <1>3, <1>5
      <4> QED BY <3>2, <4>1, <1>2, <1>8, <1>10
    <3> QED BY <3>1, <3>2
  <2> QED BY <2>1 DEF ChainsAre
<1>16. Apart(order')
  <2>1. ASSUME NEW m \in List, NEW n \in List, m # n PROVE Range(order'[m]) \cap Range(order'[n]) = {}
    <3>1. Range(order[m]) \cap Range(order[n]) = {}
      BY <2>1, <1>3
    <3>2. CASE m = l
      BY <3>1, <3>2, <2>1, <1>5, <1>8, <1>10
    <3>3. CASE n = l
      BY <3>1, <3>3, <2>1, <1>5, <1>8, <1>10
    <3> QED BY <3>1, <3>2, <3>3, <1>10
  <2> QED BY <2>1 DEF Apart
<1>17. Ascending(order'["sorted"])
  <2>1. CASE l = "sorted"
    <3>1. Ascending(s)
      BY <2>1, <1>5 DEF ListsInv
    <3>2. Ascending(t)
      BY <3>1, <1>6, <1>7, AscendingRemoved
    <3> QED BY <2>1, <3>2, <1>10
  <2>2. CASE l # "sorted"
    BY <2>2, <1>10, NodesAre DEF ListsInv
  <2> QED BY <2>1, <2>2
<1>18. StackInv'
  BY <1>10, <1>12 DEF StackInv, ListsInv
<1> QED BY <1>13, <1>14, <1>15, <1>16, <1>17, <1>18 DEF ListsInv

-----------------------------------------------------------------------------
(* What the actions read of a list. *)
LEMMA ListKnown ==
  ASSUME ListsInv, NEW l \in List
  PROVE  /\ order[l] \in Seq(Item) /\ Len(order[l]) \in Nat /\ DOMAIN order[l] = 1 .. Len(order[l])
         /\ Distinct(order[l]) /\ Chain(l, order[l], nextNode, prevNode)
         /\ \A k \in 1 .. Len(order[l]) : /\ Place(l, order[l], k) = <<order[l][k]>>
                                          /\ At(order[l], <<order[l][k]>>) = k
         /\ Place(l, order[l], 0) = dummyFirst(l)
         /\ Place(l, order[l], Len(order[l]) + 1) = dummyLast(l)
         /\ \A k \in 0 .. Len(order[l]) : /\ nextNode[Place(l, order[l], k)] = Place(l, order[l], k + 1)
                                          /\ prevNode[Place(l, order[l], k + 1)] = Place(l, order[l], k)
<1>1. order[l] \in Seq(Item) /\ Distinct(order[l]) /\ Chain(l, order[l], nextNode, prevNode)
  BY DEF ListsInv, ListsTypes, ChainsAre
<1>2. Len(order[l]) \in Nat /\ DOMAIN order[l] = 1 .. Len(order[l])
  BY <1>1
<1>3. /\ \A k \in 1 .. Len(order[l]) : Place(l, order[l], k) = <<order[l][k]>>
      /\ Place(l, order[l], 0) = dummyFirst(l)
      /\ Place(l, order[l], Len(order[l]) + 1) = dummyLast(l)
  BY <1>2 DEF Place
<1>4. \A k \in 1 .. Len(order[l]) : At(order[l], <<order[l][k]>>) = k
  BY <1>1, AtIs
<1>5. \A k \in 0 .. Len(order[l]) : /\ nextNode[Place(l, order[l], k)] = Place(l, order[l], k + 1)
                                    /\ prevNode[Place(l, order[l], k + 1)] = Place(l, order[l], k)
  BY <1>1 DEF Chain
<1> QED BY <1>1, <1>2, <1>3, <1>4, <1>5

LEMMA InsertStep ==
  ASSUME ListsInv, NEW i \in Item,
         \/ \E j \in Item : radListInsertAfter(i, j) \/ radListInsertBefore(i, j)
         \/ radListAddToFront(i) \/ radListAddToEnd(i)
  PROVE  ListsInv'
<1>1. "list" \in List /\ "list" # "sorted" /\ "list" \in DOMAIN order
  BY NodesAre DEF ListsInv, ListsTypes
<1>2. PICK s : s = order["list"]
  OBVIOUS
<1>3. /\ s \in Seq(Item) /\ Len(s) \in Nat /\ DOMAIN s = 1 .. Len(s)
      /\ \A k \in 1 .. Len(s) : Place("list", s, k) = <<s[k]>> /\ At(s, <<s[k]>>) = k
      /\ Place("list", s, 0) = dummyFirst("list") /\ Place("list", s, Len(s) + 1) = dummyLast("list")
      /\ \A k \in 0 .. Len(s) : /\ nextNode[Place("list", s, k)] = Place("list", s, k + 1)
                                /\ prevNode[Place("list", s, k + 1)] = Place("list", s, k)
  BY <1>1, <1>2, ListKnown
<1>4. ASSUME i \notin Held, NEW p \in 1 .. Len(s) + 1, NEW t, PutIn(s, p, i, t),
             Linked("list", Place("list", s, p - 1), <<i>>, Place("list", s, p)),
             order' = [order EXCEPT !["list"] = t]
      PROVE  ListsInv'
  <2>1. /\ p \in 1 .. Len(order["list"]) + 1 /\ PutIn(order["list"], p, i, t)
        /\ Linked("list", Place("list", order["list"], p - 1), <<i>>, Place("list", order["list"], p))
    BY <1>2, <1>4
  <2>2. "list" = "sorted" => Ascending(t)
    BY <1>1
  <2> QED BY <1>1, <1>4, <2>1, <2>2, LinkedStep
<1>5. ASSUME NEW a \in Item, radListInsertAfter(i, a) PROVE ListsInv'
  <2>1. PICK k \in 1 .. Len(s) : s[k] = a
    BY <1>2, <1>3, <1>5 DEF radListInsertAfter, Range
  <2>2. /\ k + 1 \in 1 .. Len(s) + 1 /\ (k + 1) - 1 = k /\ k \in 0 .. Len(s)
    BY <1>3
  <2>3. At(s, <<a>>) = k /\ Place("list", s, k) = <<a>> /\ nextNode[<<a>>] = Place("list", s, k + 1)
    BY <1>3, <2>1, <2>2
  <2>4. PutIn(s, k + 1, i, InsertAt(s, k + 1, i))
    BY <1>3, <2>2, InsertAtInserts
  <2>5. order' = [order EXCEPT !["list"] = InsertAt(s, k + 1, i)]
    BY <1>2, <1>5, <2>3 DEF radListInsertAfter
  <2>6. i \notin Held /\ Linked("list", Place("list", s, (k + 1) - 1), <<i>>, Place("list", s, k + 1))
    BY <1>5, <2>2, <2>3 DEF radListInsertAfter
  <2> QED BY <1>4, <2>2, <2>4, <2>5, <2>6
<1>6. ASSUME NEW b \in Item, radListInsertBefore(i, b) PROVE ListsInv'
  <2>1. PICK k \in 1 .. Len(s) : s[k] = b
    BY <1>2, <1>3, <1>6 DEF radListInsertBefore, Range
  <2>2. k \in 1 .. Len(s) + 1 /\ k - 1 \in 0 .. Len(s) /\ (k - 1) + 1 = k
    BY <1>3
  <2>3. At(s, <<b>>) = k /\ Place("list", s, k) = <<b>> /\ prevNode[<<b>>] = Place("list", s, k - 1)
    BY <1>3, <2>1, <2>2
  <2>4. PutIn(s, k, i, InsertAt(s, k, i))
    BY <1>3, <2>2, InsertAtInserts
  <2>5. order' = [order EXCEPT !["list"] = InsertAt(s, k, i)]
    BY <1>2, <1>6, <2>3 DEF radListInsertBefore
  <2>6. i \notin Held /\ Linked("list", Place("list", s, k - 1), <<i>>, Place("list", s, k))
    BY <1>6, <2>2, <2>3 DEF radListInsertBefore
  <2> QED BY <1>4, <2>2, <2>4, <2>5, <2>6
<1>7. ASSUME radListAddToFront(i) PROVE ListsInv'
  <2>1. 1 \in 1 .. Len(s) + 1 /\ 1 - 1 = 0 /\ 0 \in 0 .. Len(s) /\ 0 + 1 = 1
    BY <1>3
  <2>2. nextNode[dummyFirst("list")] = Place("list", s, 1) /\ Place("list", s, 1 - 1) = dummyFirst("list")
    BY <1>3, <2>1
  <2>3. PutIn(s, 1, i, <<i>> \o s)
    BY <1>3, FrontInserts
  <2>4. order' = [order EXCEPT !["list"] = <<i>> \o s]
    BY <1>2, <1>7 DEF radListAddToFront
  <2>5. i \notin Held /\ Linked("list", Place("list", s, 1 - 1), <<i>>, Place("list", s, 1))
    BY <1>7, <2>2 DEF radListAddToFront
  <2> QED BY <1>4, <2>1, <2>3, <2>4, <2>5
<1>8. ASSUME radListAddToEnd(i) PROVE ListsInv'
  <2>1. Len(s) + 1 \in 1 .. Len(s) + 1 /\ (Len(s) + 1) - 1 = Len(s) /\ Len(s) \in 0 .. Len(s)
    BY <1>3
  <2>2. prevNode[dummyLast("list")] = Place("list", s, Len(s))
    BY <1>3, <2>1
  <2>3. PutIn(s, Len(s) + 1, i, Append(s, i))
    BY <1>3, EndInserts
  <2>4. order' = [order EXCEPT !["list"] = Append(s, i)]
    BY <1>2, <1>8 DEF radListAddToEnd
  <2>5. i \notin Held /\ Linked("list", Place("list", s, (Len(s) + 1) - 1), <<i>>, Place("list", s, Len(s) + 1))
    BY <1>3, <1>8, <2>1, <2>2 DEF radListAddToEnd
  <2> QED BY <1>4, <2>1, <2>3, <2>4, <2>5
<1> QED BY <1>5, <1>6, <1>7, <1>8

LEMMA SortInsertStep ==
  ASSUME ListsInv, NEW i \in Item, radSortListInsert(i)
  PROVE  ListsInv'
<1> DEFINE wanted == {j \in Item : Key[j] > Key[i]}
<1>1. "sorted" \in List /\ nextNode \in Pointers
  BY NodesAre DEF ListsInv, ListsTypes
<1>2. PICK s : s = order["sorted"]
  OBVIOUS
<1>3. /\ s \in Seq(Item) /\ Len(s) \in Nat /\ DOMAIN s = 1 .. Len(s)
      /\ Distinct(s) /\ Chain("sorted", s, nextNode, prevNode)
      /\ \A k \in 1 .. Len(s) : Place("sorted", s, k) = <<s[k]>>
      /\ Place("sorted", s, Len(s) + 1) = dummyLast("sorted")
      /\ \A k \in 0 .. Len(s) : prevNode[Place("sorted", s, k + 1)] = Place("sorted", s, k)
  BY <1>1, <1>2, ListKnown
<1>4. Ascending(s)
  BY <1>2 DEF ListsInv
<1>5. PICK p : FirstOf(s, wanted, p)
  <2> HIDE DEF wanted
  <2> QED BY <1>3, FirstExists
<1>6. Sought(wanted) = NodeAt(s, p)
  <2> HIDE DEF wanted
  <2> QED BY <1>1, <1>3, <1>5, SoughtIs
<1>7. p \in 1 .. Len(s) + 1 /\ p - 1 \in 0 .. Len(s) /\ (p - 1) + 1 = p
  BY <1>3, <1>5 DEF FirstOf
<1>8. prevNode[Place("sorted", s, p)] = Place("sorted", s, p - 1)
  BY <1>3, <1>7
<1>9. \A k \in 1 .. Len(s) : s[k] \in Item
  BY <1>3, ElementOfSeq
<1>10. Linked("sorted", Place("sorted", s, p - 1), <<i>>, Place("sorted", s, p))
  <2>1. CASE p \in 1 .. Len(s)
    <3>1. NodeAt(s, p) = <<s[p]>> /\ <<s[p]>> # Nil /\ Place("sorted", s, p) = <<s[p]>>
      BY <2>1, <1>3, <1>9, NodesDiffer DEF NodeAt
    <3> QED BY <3>1, <1>6, <1>8 DEF radSortListInsert
  <2>2. CASE p = Len(s) + 1
    <3>1. NodeAt(s, p) = Nil /\ Place("sorted", s, p) = dummyLast("sorted")
      BY <2>2, <1>3 DEF NodeAt
    <3> QED BY <3>1, <1>6, <1>8 DEF radSortListInsert
  <2> QED BY <2>1, <2>2, <1>3, <1>7
<1>11. {k \in DOMAIN s : Key[s[k]] <= Key[i]} = 1 .. p - 1
  <2>1. \A j \in Item : Key[j] \in Nat
    BY ListsAssumption
  <2>2. \A k \in 1 .. Len(s) : k < p => Key[s[k]] <= Key[i]
    BY <1>5, <1>9, <2>1 DEF FirstOf
  <2>3. ASSUME NEW k \in 1 .. Len(s), ~ (k < p) PROVE ~ (Key[s[k]] <= Key[i])
    <3>1. p \in 1 .. Len(s) /\ (k = p \/ p < k)
      BY <2>3, <1>3, <1>7
    <3>2. Key[s[p]] > Key[i]
      BY <3>1, <1>5 DEF FirstOf
    <3>3. p < k => Key[s[p]] <= Key[s[k]]
      BY <3>1, <1>3, <1>4 DEF Ascending
    <3>4. Key[s[p]] \in Nat /\ Key[s[k]] \in Nat /\ Key[i] \in Nat
      BY <3>1, <1>9, <2>1
    <3> QED BY <3>1, <3>2, <3>3, <3>4
  <2>4. \A k \in 1 .. p - 1 : k \in 1 .. Len(s) /\ k < p
    BY <1>3, <1>7
  <2>5. \A k \in 1 .. Len(s) : k < p => k \in 1 .. p - 1
    BY <1>3, <1>7
  <2> QED BY <2>2, <2>3, <2>4, <2>5, <1>3
<1>12. Cardinality({k \in DOMAIN s : Key[s[k]] <= Key[i]}) = p - 1
  <2>1. Cardinality(1 .. p - 1) = p - 1
    <3>1. 1 \in Int /\ p - 1 \in Int
      BY <1>7
    <3>2. Cardinality(1 .. p - 1) = IF 1 > p - 1 THEN 0 ELSE (p - 1) - 1 + 1
      BY <3>1, FS_Interval
    <3> QED BY <3>2, <1>7
  <2> QED BY <2>1, <1>11
<1>13. order' = [order EXCEPT !["sorted"] = InsertAt(s, p, i)]
  <2>1. order' = [order EXCEPT !["sorted"] =
                    InsertAt(@, Cardinality({k \in DOMAIN @ : Key[(@)[k]] <= Key[i]}) + 1, i)]
    BY DEF radSortListInsert
  <2>2. (p - 1) + 1 = p
    BY <1>7
  <2> QED BY <2>1, <2>2, <1>2, <1>12
<1>14. PutIn(s, p, i, InsertAt(s, p, i))
  BY <1>3, <1>7, InsertAtInserts
<1>15. Ascending(InsertAt(s, p, i))
  BY <1>3, <1>4, <1>5, <1>14, AscendingInserted
<1>16. i \notin Held
  BY DEF radSortListInsert
<1>17. /\ p \in 1 .. Len(order["sorted"]) + 1 /\ PutIn(order["sorted"], p, i, InsertAt(s, p, i))
       /\ Linked("sorted", Place("sorted", order["sorted"], p - 1), <<i>>, Place("sorted", order["sorted"], p))
  BY <1>2, <1>7, <1>10, <1>14
<1> QED BY <1>1, <1>13, <1>15, <1>16, <1>17, LinkedStep

LEMMA RemoveStep ==
  ASSUME ListsInv, NEW l \in List, NEW i \in Item, radListRemove(l, i)
  PROVE  ListsInv'
<1>2. PICK s : s = order[l]
  OBVIOUS
<1>3. /\ s \in Seq(Item) /\ Len(s) \in Nat /\ DOMAIN s = 1 .. Len(s)
      /\ \A k \in 1 .. Len(s) : Place(l, s, k) = <<s[k]>> /\ At(s, <<s[k]>>) = k
      /\ \A k \in 0 .. Len(s) : /\ nextNode[Place(l, s, k)] = Place(l, s, k + 1)
                                /\ prevNode[Place(l, s, k + 1)] = Place(l, s, k)
  BY <1>2, ListKnown
<1>4. PICK p \in 1 .. Len(s) : s[p] = i
  BY <1>2, <1>3 DEF radListRemove, Range
<1>5. p \in 0 .. Len(s) /\ p - 1 \in 0 .. Len(s) /\ (p - 1) + 1 = p
  BY <1>3
<1>6. At(s, <<i>>) = p /\ prevNode[<<i>>] = Place(l, s, p - 1) /\ nextNode[<<i>>] = Place(l, s, p + 1)
  BY <1>3, <1>4, <1>5
<1>7. Unlinked(l, Place(l, s, p - 1), Place(l, s, p + 1)) /\ order' = [order EXCEPT ![l] = RemoveAt(s, p)]
  BY <1>2, <1>6 DEF radListRemove
<1>8. Removed(s, p, RemoveAt(s, p))
  BY <1>3, RemoveAtRemoves
<1>9. /\ p \in 1 .. Len(order[l]) /\ Removed(order[l], p, RemoveAt(s, p))
      /\ Unlinked(l, Place(l, order[l], p - 1), Place(l, order[l], p + 1))
  BY <1>2, <1>7, <1>8
<1> QED BY <1>7, <1>9, UnlinkedStep

LEMMA RemoveEndStep ==
  ASSUME ListsInv, radListRemoveFirst \/ radListRemoveLast
  PROVE  ListsInv'
<1>1. "list" \in List
  BY NodesAre
<1>2. PICK s : s = order["list"]
  OBVIOUS
<1>3. /\ s \in Seq(Item) /\ Len(s) \in Nat /\ DOMAIN s = 1 .. Len(s)
      /\ Distinct(s) /\ Chain("list", s, nextNode, prevNode)
      /\ \A k \in 1 .. Len(s) : Place("list", s, k) = <<s[k]>>
      /\ Place("list", s, 0) = dummyFirst("list") /\ Place("list", s, Len(s) + 1) = dummyLast("list")
      /\ \A k \in 0 .. Len(s) : /\ nextNode[Place("list", s, k)] = Place("list", s, k + 1)
                                /\ prevNode[Place("list", s, k + 1)] = Place("list", s, k)
  BY <1>1, <1>2, ListKnown
<1>4. radListGetFirst("list") = NodeAt(s, 1) /\ radListGetLast("list") = NodeAt(s, Len(s))
  BY <1>1, <1>3, ListRead
<1>5. ASSUME NEW p \in 1 .. Len(s), NEW t, Removed(s, p, t),
             Unlinked("list", Place("list", s, p - 1), Place("list", s, p + 1)),
             order' = [order EXCEPT !["list"] = t]
      PROVE  ListsInv'
  <2>1. /\ p \in 1 .. Len(order["list"]) /\ Removed(order["list"], p, t)
        /\ Unlinked("list", Place("list", order["list"], p - 1), Place("list", order["list"], p + 1))
    BY <1>2, <1>5
  <2> QED BY <1>1, <1>5, <2>1, UnlinkedStep
<1>6. ASSUME radListRemoveFirst PROVE ListsInv'
  <2>1. NodeAt(s, 1) # Nil
    BY <1>4, <1>6 DEF radListRemoveFirst
  <2>2. 1 \in 1 .. Len(s) /\ 1 \in 0 .. Len(s) /\ Len(s) > 0 /\ 1 - 1 = 0
    BY <2>1, <1>3 DEF NodeAt
  <2>3. NodeAt(s, 1) = Place("list", s, 1)
    BY <2>2, <1>3 DEF NodeAt
  <2>4. nextNode[NodeAt(s, 1)] = Place("list", s, 1 + 1) /\ Place("list", s, 1 - 1) = dummyFirst("list")
    BY <2>2, <2>3, <1>3
  <2>5. Unlinked("list", Place("list", s, 1 - 1), Place("list", s, 1 + 1))
    BY <2>4, <1>4, <1>6 DEF radListRemoveFirst
  <2>6. order' = [order EXCEPT !["list"] = Tail(s)]
    BY <1>2, <1>6 DEF radListRemoveFirst
  <2>7. Removed(s, 1, Tail(s))
    BY <2>2, <1>3, TailRemoves
  <2> QED BY <1>5, <2>2, <2>5, <2>6, <2>7
<1>7. ASSUME radListRemoveLast PROVE ListsInv'
  <2>1. NodeAt(s, Len(s)) # Nil
    BY <1>4, <1>7 DEF radListRemoveLast
  <2>2. /\ Len(s) \in 1 .. Len(s) /\ Len(s) > 0 /\ Len(s) - 1 \in 0 .. Len(s)
        /\ (Len(s) - 1) + 1 = Len(s)
    BY <2>1, <1>3 DEF NodeAt
  <2>3. NodeAt(s, Len(s)) = Place("list", s, Len(s))
    BY <2>2, <1>3 DEF NodeAt
  <2>4. prevNode[NodeAt(s, Len(s))] = Place("list", s, Len(s) - 1)
    BY <2>2, <2>3, <1>3
  <2>5. Unlinked("list", Place("list", s, Len(s) - 1), Place("list", s, Len(s) + 1))
    BY <2>4, <1>3, <1>4, <1>7 DEF radListRemoveLast
  <2>6. order' = [order EXCEPT !["list"] = Front(s)]
    BY <1>2, <1>7 DEF radListRemoveLast
  <2>7. Removed(s, Len(s), Front(s))
    BY <2>2, <1>3, FrontRemoves
  <2> QED BY <1>5, <2>2, <2>5, <2>6, <2>7
<1> QED BY <1>6, <1>7

LEMMA ResetStep ==
  ASSUME ListsInv, radListReset
  PROVE  ListsInv'
<1>1. /\ nextNode \in Pointers /\ prevNode \in Pointers /\ noNodes \in [List -> Int]
      /\ order \in [List \cup {"stack"} -> Seq(Item)] /\ "list" \in List
  BY NodesAre DEF ListsInv, ListsTypes
<1>2. dummyFirst("list") \in Node /\ dummyLast("list") \in Node
  BY NodesAre
<1>3. /\ nextNode' \in Pointers /\ prevNode' \in Pointers
      /\ nextNode'[dummyFirst("list")] = dummyLast("list")
      /\ prevNode'[dummyLast("list")] = dummyFirst("list")
      /\ \A n \in Node : /\ n # dummyFirst("list") => nextNode'[n] = nextNode[n]
                         /\ n # dummyLast("list") => prevNode'[n] = prevNode[n]
  BY <1>1, <1>2 DEF radListReset, Pointers
<1>4. <<>> \in Seq(Item) /\ Len(<<>>) = 0 /\ Distinct(<<>>) /\ Chain("list", <<>>, nextNode', prevNode')
  BY <1>1, <1>3, EmptyChain
<1>5. /\ order' \in [List \cup {"stack"} -> Seq(Item)]
      /\ order'["list"] = <<>> /\ order'["stack"] = order["stack"]
      /\ \A m \in List : m # "list" => order'[m] = order[m]
  BY <1>1, <1>4 DEF radListReset, List
<1>6. /\ noNodes' \in [List -> Int] /\ noNodes'["list"] = 0
      /\ \A m \in List : m # "list" => noNodes'[m] = noNodes[m]
  BY <1>1 DEF radListReset
<1>7. head' = head /\ below' = below /\ count' = count
  BY DEF radListReset
<1>8. ListsTypes'
  BY <1>3, <1>5, <1>6, <1>7 DEF ListsTypes, ListsInv
<1>9. \A m \in List : noNodes'[m] = Len(order'[m])
  BY <1>4, <1>5, <1>6 DEF ListsInv
<1>10. ASSUME NEW m \in List, m # "list"
       PROVE  Distinct(order'[m]) /\ Chain(m, order'[m], nextNode', prevNode')
  <2>1. PICK u : u = order[m]
    OBVIOUS
  <2>2. u \in Seq(Item) /\ Distinct(u) /\ Chain(m, u, nextNode, prevNode)
    BY <2>1, ListKnown
  <2>3. \A k \in 0 .. Len(u) + 1 : /\ Place(m, u, k) \in Node
                                   /\ Place(m, u, k) # dummyFirst("list")
                                   /\ Place(m, u, k) # dummyLast("list")
    <3>1. Len(u) \in Nat
      BY <2>2
    <3>2. \A k \in 0 .. Len(u) + 1 : Place(m, u, k) \in Node
      BY <2>2, PlacesAre
    <3> QED BY <3>1, <3>2, <1>10, NodesDiffer DEF Place
  <2>4. \A k \in 0 .. Len(u) : nextNode[Place(m, u, k)] = Place(m, u, k + 1)
                             /\ prevNode[Place(m, u, k + 1)] = Place(m, u, k)
    BY <2>2 DEF Chain
  <2>5. ASSUME NEW k \in 0 .. Len(u)
        PROVE  nextNode'[Place(m, u, k)] = Place(m, u, k + 1) /\ prevNode'[Place(m, u, k + 1)] = Place(m, u, k)
    <3>1. k \in 0 .. Len(u) + 1 /\ k + 1 \in 0 .. Len(u) + 1
      OBVIOUS
    <3>2. /\ Place(m, u, k) \in Node /\ Place(m, u, k) # dummyFirst("list")
          /\ Place(m, u, k + 1) \in Node /\ Place(m, u, k + 1) # dummyLast("list")
      BY <3>1, <2>3
    <3>3. /\ nextNode'[Place(m, u, k)] = nextNode[Place(m, u, k)]
          /\ prevNode'[Place(m, u, k + 1)] = prevNode[Place(m, u, k + 1)]
      <4>1. \A n \in Node : n # dummyFirst("list") => nextNode'[n] = nextNode[n]
        BY <1>3
      <4>2. \A n \in Node : n # dummyLast("list") => prevNode'[n] = prevNode[n]
        BY <1>3
      <4> QED BY <3>2, <4>1, <4>2
    <3> QED BY <3>3, <2>4
  <2>6. Chain(m, u, nextNode', prevNode')
    BY <2>5 DEF Chain
  <2> QED BY <2>1, <2>2, <2>6, <1>5, <1>10
<1>11. ChainsAre(order', nextNode', prevNode')
  BY <1>4, <1>5, <1>10 DEF ChainsAre
<1>12. Apart(order')
  <2>1. Range(<<>>) = {}
    BY DEF Range
  <2>2. \A m, n \in List : m # n => Range(order[m]) \cap Range(order[n]) = {}
    BY DEF ListsInv, Apart
  <2> QED BY <2>1, <2>2, <1>5 DEF Apart
<1>13. Ascending(order'["sorted"])
  BY <1>5, NodesAre DEF ListsInv
<1>14. StackInv'
  BY <1>5, <1>7 DEF StackInv, ListsInv
<1> QED BY <1>8, <1>9, <1>11, <1>12, <1>13, <1>14 DEF ListsInv

(* The lists do not see the stack. *)
LEMMA ListsFrame ==
  ASSUME ListsInv, nextNode' = nextNode, prevNode' = prevNode, noNodes' = noNodes,
         order' \in [List \cup {"stack"} -> Seq(Item)], \A l \in List : order'[l] = order[l],
         below' \in [Item -> {<<i>> : i \in Item} \cup {Nil}], StackInv'
  PROVE  ListsInv'
<1>1. ListsTypes'
  BY DEF ListsInv, ListsTypes
<1>2. \A l \in List : noNodes'[l] = Len(order'[l])
  BY DEF ListsInv
<1>3. ChainsAre(order', nextNode', prevNode')
  BY DEF ListsInv, ChainsAre
<1>4. Apart(order')
  BY DEF ListsInv, Apart
<1>5. Ascending(order'["sorted"])
  BY NodesAre DEF ListsInv
<1> QED BY <1>1, <1>2, <1>3, <1>4, <1>5 DEF ListsInv

LEMMA StackStep ==
  ASSUME ListsInv, radStackPop \/ \E i \in Item : radStackPush(i)
  PROVE  ListsInv'
<1>1. /\ order \in [List \cup {"stack"} -> Seq(Item)]
      /\ below \in [Item -> {<<i>> : i \in Item} \cup {Nil}]
  BY DEF ListsInv, ListsTypes
<1>2. PICK s : s = order["stack"]
  OBVIOUS
<1>3. s \in Seq(Item) /\ Len(s) \in Nat /\ DOMAIN s = 1 .. Len(s)
  BY <1>1, <1>2
<1>4. \A k \in 1 .. Len(s) : s[k] \in Item
  BY <1>3, ElementOfSeq
<1>5. /\ head = NodeAt(s, 1) /\ count = Len(s)
      /\ \A k \in 1 .. Len(s) : below[s[k]] = NodeAt(s, k + 1)
  BY <1>2, <1>3 DEF ListsInv, StackInv
<1>6. ASSUME NEW t \in Seq(Item), order' = [order EXCEPT !["stack"] = t],
             head' = NodeAt(t, 1), count' = Len(t),
             \A k \in 1 .. Len(t) : below'[t[k]] = NodeAt(t, k + 1),
             below' \in [Item -> {<<i>> : i \in Item} \cup {Nil}],
             UNCHANGED <<nextNode, prevNode, noNodes>>
      PROVE  ListsInv'
  <2>1. /\ order' \in [List \cup {"stack"} -> Seq(Item)]
        /\ order'["stack"] = t /\ \A l \in List : order'[l] = order[l]
    BY <1>1, <1>6 DEF List
  <2>2. DOMAIN t = 1 .. Len(t)
    OBVIOUS
  <2>3. StackInv'
    BY <1>6, <2>1, <2>2 DEF StackInv
  <2> QED BY <1>6, <2>1, <2>3, ListsFrame
<1>7. ASSUME NEW i \in Item, radStackPush(i) PROVE ListsInv'
  <2>1. PutIn(s, 1, i, <<i>> \o s)
    BY <1>3, FrontInserts
  <2>2. PICK t : t = <<i>> \o s
    OBVIOUS
  <2>3. /\ t \in Seq(Item) /\ Len(t) = Len(s) + 1 /\ t[1] = i
        /\ \A k \in 1 .. Len(s) : t[k + 1] = s[k]
    <3>1. t \in Seq(Item) /\ Len(t) = Len(s) + 1
          /\ \A k \in 1 .. Len(s) + 1 : t[k] = IF k < 1 THEN s[k] ELSE IF k = 1 THEN i ELSE s[k - 1]
      BY <2>1, <2>2 DEF PutIn
    <3>2. ASSUME NEW k \in 1 .. Len(s) PROVE t[k + 1] = s[k]
      <4>1. k + 1 \in 1 .. Len(s) + 1 /\ ~ (k + 1 < 1) /\ k + 1 # 1 /\ (k + 1) - 1 = k
        BY <1>3
      <4> QED BY <3>1, <4>1
    <3> QED BY <3>1, <3>2, <1>3
  <2>4. DOMAIN t = 1 .. Len(s) + 1
    BY <2>3, <1>3
  <2>5. \A k \in 1 .. Len(s) + 1 : NodeAt(t, k + 1) = NodeAt(s, k)
    <3>1. ASSUME NEW k \in 1 .. Len(s) + 1 PROVE NodeAt(t, k + 1) = NodeAt(s, k)
      <4>1. k + 1 \in DOMAIN t <=> k \in DOMAIN s
        BY <2>4, <1>3
      <4>2. k \in DOMAIN s => t[k + 1] = s[k]
        BY <2>3, <1>3
      <4> QED BY <4>1, <4>2 DEF NodeAt
    <3> QED BY <3>1
  <2>6. NodeAt(t, 1) = <<i>>
    BY <2>3, <2>4, <1>3 DEF NodeAt
  <2>7. head \in {<<j>> : j \in Item} \cup {Nil}
    BY <1>3, <1>4, <1>5 DEF NodeAt
  <2>8. below' = [below EXCEPT ![i] = head] /\ head' = <<i>> /\ count' = count + 1
    BY <1>7 DEF radStackPush
  <2>9. below' \in [Item -> {<<j>> : j \in Item} \cup {Nil}]
        /\ below'[i] = head /\ \A j \in Item : j # i => below'[j] = below[j]
    BY <1>1, <2>7, <2>8
  <2>10. \A k \in 1 .. Len(s) : s[k] # i
    <3>1. i \notin Range(s)
      BY <1>1, <1>2, <1>7 DEF radStackPush, Held
    <3> QED BY <3>1, <1>3 DEF Range
  <2>11. ASSUME NEW k \in 1 .. Len(t) PROVE below'[t[k]] = NodeAt(t, k + 1)
    <3>1. CASE k = 1
      <4>1. NodeAt(t, 1 + 1) = NodeAt(s, 1)
        BY <2>5, <1>3
      <4> QED BY <3>1, <4>1, <1>5, <2>3, <2>9
    <3>2. CASE k # 1
      <4>1. k - 1 \in 1 .. Len(s) /\ (k - 1) + 1 = k /\ k \in 1 .. Len(s) + 1
        BY <3>2, <2>3, <1>3
      <4>2. t[k] = s[k - 1]
        BY <4>1, <2>3
      <4>3. below'[s[k - 1]] = NodeAt(s, k)
        BY <4>1, <2>9, <2>10, <1>4, <1>5
      <4> QED BY <4>1, <4>2, <4>3, <2>5
    <3> QED BY <3>1, <3>2
  <2>12. order' = [order EXCEPT !["stack"] = t] /\ UNCHANGED <<nextNode, prevNode, noNodes>>
    BY <1>2, <1>7, <2>2 DEF radStackPush
  <2>13. head' = NodeAt(t, 1) /\ count' = Len(t)
    BY <1>5, <2>3, <2>6, <2>8
  <2> QED BY <1>6, <2>3, <2>9, <2>11, <2>12, <2>13
<1>8. ASSUME radStackPop PROVE ListsInv'
  <2>1. head # Nil
    BY <1>8 DEF radStackPop
  <2>2. 1 \in 1 .. Len(s) /\ Len(s) > 0 /\ head = <<s[1]>>
    BY <2>1, <1>3, <1>5 DEF NodeAt
  <2>3. Removed(s, 1, Tail(s))
    BY <2>2, <1>3, TailRemoves
  <2>4. PICK t : t = Tail(s)
    OBVIOUS
  <2>5. t \in Seq(Item) /\ Len(t) = Len(s) - 1 /\ \A k \in 1 .. Len(s) - 1 : t[k] = s[k + 1]
    <3>1. t \in Seq(Item) /\ Len(t) = Len(s) - 1
          /\ \A k \in 1 .. Len(s) - 1 : t[k] = IF k < 1 THEN s[k] ELSE s[k + 1]
      BY <2>3, <2>4 DEF Removed
    <3>2. \A k \in 1 .. Len(s) - 1 : ~ (k < 1)
      BY <1>3
    <3> QED BY <3>1, <3>2
  <2>6. DOMAIN t = 1 .. Len(s) - 1
    BY <2>5, <1>3
  <2>7. ASSUME NEW k \in 1 .. Len(s) PROVE NodeAt(t, k) = NodeAt(s, k + 1)
    <3>1. k \in DOMAIN t <=> k + 1 \in DOMAIN s
      BY <2>6, <1>3
    <3>2. k \in DOMAIN t => t[k] = s[k + 1]
      BY <2>5, <2>6
    <3> QED BY <3>1, <3>2 DEF NodeAt
  <2>8. head' = below[head[1]] /\ count' = count - 1 /\ below' = below
    BY <1>8 DEF radStackPop
  <2>9. head[1] = s[1]
    BY <2>2
  <2>10. head' = NodeAt(t, 1)
    BY <2>2, <2>7, <2>8, <2>9, <1>5
  <2>11. ASSUME NEW k \in 1 .. Len(t) PROVE below'[t[k]] = NodeAt(t, k + 1)
    <3>1. k \in 1 .. Len(s) - 1 /\ k + 1 \in 1 .. Len(s)
      BY <2>5, <1>3
    <3>2. t[k] = s[k + 1] /\ below[s[k + 1]] = NodeAt(s, (k + 1) + 1)
      BY <3>1, <2>5, <1>5
    <3>3. NodeAt(t, k + 1) = NodeAt(s, (k + 1) + 1)
      BY <3>1, <2>7
    <3> QED BY <3>2, <3>3, <2>8
  <2>12. order' = [order EXCEPT !["stack"] = t] /\ UNCHANGED <<nextNode, prevNode, noNodes>>
    BY <1>2, <1>8, <2>4 DEF radStackPop
  <2>13. count' = Len(t)
    BY <1>5, <2>5, <2>8
  <2>14. below' \in [Item -> {<<j>> : j \in Item} \cup {Nil}]
    BY <1>1, <2>8
  <2> QED BY <1>6, <2>5, <2>10, <2>11, <2>12, <2>13, <2>14
<1> QED BY <1>7, <1>8

LEMMA ListsInvInit == ListsInit => ListsInv
<1> SUFFICES ASSUME ListsInit PROVE ListsInv
  OBVIOUS
<1>1. \A l \in List : nextNode[dummyFirst(l)] = dummyLast(l) /\ prevNode[dummyLast(l)] = dummyFirst(l)
  <2> TAKE l \in List
  <2>1. dummyFirst(l) \in Node /\ dummyLast(l) \in Node
    BY NodesAre
  <2>2. dummyFirst(l)[2] = l /\ dummyLast(l)[2] = l
    BY DEF dummyFirst, dummyLast
  <2> QED BY <2>1, <2>2 DEF ListsInit
<1>2. \A l \in List : order[l] = <<>> /\ noNodes[l] = 0
  BY DEF ListsInit
<1>3. \A l \in List : Distinct(<<>>) /\ Chain(l, <<>>, nextNode, prevNode)
  BY <1>1, EmptyChain
<1>4. <<>> \in Seq(Item) /\ Len(<<>>) = 0 /\ DOMAIN <<>> = {}
  OBVIOUS
<1>5. nextNode \in Pointers /\ prevNode \in Pointers
  <2>1. ASSUME NEW n \in Node PROVE nextNode[n] \in Node \cup {Nil}
    <3>1. CASE \E l \in List : n = dummyFirst(l)
      BY <3>1, <1>1, NodesAre
    <3>2. CASE ~ \E l \in List : n = dummyFirst(l)
      BY <3>2 DEF ListsInit
    <3> QED BY <3>1, <3>2
  <2>2. ASSUME NEW n \in Node PROVE prevNode[n] \in Node \cup {Nil}
    <3>1. CASE \E l \in List : n = dummyLast(l)
      BY <3>1, <1>1, NodesAre
    <3>2. CASE ~ \E l \in List : n = dummyLast(l)
      BY <3>2 DEF ListsInit
    <3> QED BY <3>1, <3>2
  <2>3. nextNode = [n \in Node |-> nextNode[n]] /\ prevNode = [n \in Node |-> prevNode[n]]
    BY DEF ListsInit
  <2> QED BY <2>1, <2>2, <2>3 DEF Pointers
<1>6. ListsTypes
  BY <1>4, <1>5 DEF ListsInit, ListsTypes
<1>7. StackInv
  BY <1>4 DEF ListsInit, StackInv, NodeAt
<1>8. Apart(order) /\ Ascending(order["sorted"])
  <2>1. Range(<<>>) = {}
    BY DEF Range
  <2> QED BY <2>1, <1>2, <1>4, NodesAre DEF Apart, Ascending
<1>9. ChainsAre(order, nextNode, prevNode)
  BY <1>2, <1>3 DEF ChainsAre
<1> QED BY <1>2, <1>4, <1>6, <1>7, <1>8, <1>9 DEF ListsInv

LEMMA ListsInvStep == ListsInv /\ [ListsNext]_listsVars => ListsInv'
<1> SUFFICES ASSUME ListsInv, [ListsNext]_listsVars PROVE ListsInv'
  OBVIOUS
<1>1. CASE UNCHANGED listsVars
  <2>1. /\ nextNode' = nextNode /\ prevNode' = prevNode /\ noNodes' = noNodes /\ order' = order
        /\ head' = head /\ below' = below /\ count' = count
    BY <1>1 DEF listsVars
  <2>2. StackInv'
    BY <2>1 DEF ListsInv, StackInv
  <2> QED BY <2>1, <2>2, ListsFrame DEF ListsInv, ListsTypes
<1>2. ASSUME NEW i \in Item,
             \/ \E j \in Item : radListInsertAfter(i, j) \/ radListInsertBefore(i, j)
             \/ radListAddToFront(i) \/ radListAddToEnd(i)
      PROVE  ListsInv'
  BY <1>2, InsertStep
<1>3. ASSUME NEW i \in Item, radSortListInsert(i) PROVE ListsInv'
  BY <1>3, SortInsertStep
<1>4. ASSUME NEW i \in Item, radListRemove("list", i) \/ radSortListRemove(i) PROVE ListsInv'
  BY <1>4, RemoveStep, NodesAre DEF radSortListRemove
<1>5. CASE radListRemoveFirst \/ radListRemoveLast
  BY <1>5, RemoveEndStep
<1>6. CASE radListReset
  BY <1>6, ResetStep
<1>7. CASE radStackPop \/ \E i \in Item : radStackPush(i)
  BY <1>7, StackStep
<1> QED BY <1>1, <1>2, <1>3, <1>4, <1>5, <1>6, <1>7 DEF ListsNext

(* The invariant says what callers read. *)
LEMMA ListsInvReads == ListsInv => ListsInOrder
<1> SUFFICES ASSUME ListsInv PROVE ListsInOrder
  OBVIOUS
<1>1. ASSUME NEW l \in List
      PROVE  /\ noNodes[l] = Len(order[l])
             /\ radListGetFirst(l) = NodeAt(order[l], 1)
             /\ radListGetLast(l) = NodeAt(order[l], Len(order[l]))
             /\ \A k \in DOMAIN order[l] :
                  /\ radListGetNext(l, <<order[l][k]>>) = NodeAt(order[l], k + 1)
                  /\ radListGetPrevious(l, <<order[l][k]>>) = NodeAt(order[l], k - 1)
  <2>1. PICK s : s = order[l]
    OBVIOUS
  <2>2. s \in Seq(Item) /\ DOMAIN s = 1 .. Len(s) /\ Distinct(s) /\ Chain(l, s, nextNode, prevNode)
    BY <2>1, ListKnown
  <2>3. /\ radListGetFirst(l) = NodeAt(s, 1) /\ radListGetLast(l) = NodeAt(s, Len(s))
        /\ \A k \in 1 .. Len(s) : /\ radListGetNext(l, <<s[k]>>) = NodeAt(s, k + 1)
                                  /\ radListGetPrevious(l, <<s[k]>>) = NodeAt(s, k - 1)
    BY <2>2, ListRead
  <2>4. noNodes[l] = Len(order[l])
    BY DEF ListsInv
  <2> QED BY <2>1, <2>2, <2>3, <2>4
<1>2. \A j, k \in DOMAIN order["sorted"] : j < k => Key[order["sorted"][j]] <= Key[order["sorted"][k]]
  BY DEF ListsInv, Ascending
<1>3. ASSUME NEW i \in Range(order["sorted"])
      PROVE  /\ Key[radSortListFind(Key[i])[1]] = Key[i]
             /\ \/ radSortListFind(Key[i]) = <<i>>
                \/ At(order["sorted"], radSortListFind(Key[i])) < At(order["sorted"], <<i>>)
  <2>1. "sorted" \in List /\ nextNode \in Pointers
    BY NodesAre DEF ListsInv, ListsTypes
  <2>2. PICK s : s = order["sorted"]
    OBVIOUS
  <2>3. /\ s \in Seq(Item) /\ Len(s) \in Nat /\ DOMAIN s = 1 .. Len(s)
        /\ Distinct(s) /\ Chain("sorted", s, nextNode, prevNode)
        /\ \A k \in 1 .. Len(s) : At(s, <<s[k]>>) = k
    BY <2>1, <2>2, ListKnown
  <2>4. \A k \in 1 .. Len(s) : s[k] \in Item
    BY <2>3, ElementOfSeq
  <2>5. PICK m \in 1 .. Len(s) : s[m] = i
    BY <2>2, <2>3 DEF Range
  <2> DEFINE wanted == {j \in Item : Key[j] = Key[i]}
  <2>6. PICK p : FirstOf(s, wanted, p)
    <3> HIDE DEF wanted
    <3> QED BY <2>3, FirstExists
  <2>7. radSortListFind(Key[i]) = NodeAt(s, p)
    <3>1. Sought(wanted) = NodeAt(s, p)
      <4> HIDE DEF wanted
      <4> QED BY <2>1, <2>3, <2>6, SoughtIs
    <3> QED BY <3>1 DEF radSortListFind
  <2>8. s[m] \in wanted
    BY <2>4, <2>5
  <2>9. p \in 1 .. Len(s) /\ p <= m /\ s[p] \in wanted
    <3> HIDE DEF wanted
    <3>1. p \in 1 .. Len(s) + 1 /\ ~ (m < p)
      BY <2>6, <2>8 DEF FirstOf
    <3>2. p \in 1 .. Len(s) /\ p <= m
      BY <3>1, <2>3
    <3> QED BY <3>2, <2>6 DEF FirstOf
  <2>10. NodeAt(s, p) = <<s[p]>> /\ <<s[p]>>[1] = s[p]
    BY <2>3, <2>9 DEF NodeAt
  <2>11. Key[s[p]] = Key[i]
    BY <2>9
  <2>12. At(s, <<s[p]>>) = p /\ At(s, <<i>>) = m
    BY <2>3, <2>5, <2>9
  <2>13. p = m => <<s[p]>> = <<i>>
    BY <2>5
  <2>14. p = m \/ p < m
    BY <2>9
  <2> QED BY <2>2, <2>7, <2>10, <2>11, <2>12, <2>13, <2>14
<1>4. StackInv
  BY DEF ListsInv
<1> QED BY <1>1, <1>2, <1>3, <1>4 DEF ListsInOrder, StackInv

(* Whatever callers do with the lists and the stack, for any number of     *)
(* nodes and any keys, walks, counts and searches answer what the callers' *)
(* own order says: the pointers are those of the sequence of each list.    *)
(* (src/radlist.c, src/radsortlist.c, src/radstack.c.)                     *)
THEOREM ListsAreInOrder == ListsSpec => []ListsInOrder
<1>1. ListsSpec => []ListsInv
  BY ListsInvInit, ListsInvStep, PTL DEF ListsSpec
<1> QED BY <1>1, ListsInvReads, PTL

-----------------------------------------------------------------------------
USE DatabaseAssumption

Handles == [Connection -> [open : BOOLEAN, resSet : 0 .. MaxResults,
                           statement : {"none", "ready", "row", "done"}]]

(* A sequence of result sets, each of a connection. *)
Sets(rs) == \E Q, R : rs \in Seq([of : Connection, query : Q, rows : R])

DbTypeInv ==
  /\ Sets(results) /\ Len(results) <= MaxResults
  /\ handle \in Handles
  /\ freed \in [ResultId -> Nat]

(* The set a connection answers and the sets the program was given are     *)
(* allocated and not released; each set belongs to one connection, so that *)
(* releasing it cannot take it from another.                               *)
SetsInv ==
  /\ kept \subseteq 1 .. Len(results)
  /\ \A s \in ResultId : freed[s] <= 1 /\ (s > Len(results) => freed[s] = 0)
  /\ \A s \in kept : freed[s] = 0
  /\ \A h \in Connection :
       LET s == handle[h].resSet
       IN  s # NoSet => s <= Len(results) /\ results[s].of = h /\ freed[s] = 0

(* A call to SQLite that wants an answer has a set for it all the time. *)
CallInv ==
  call = NoCall \/ /\ {"of", "set"} \subseteq DOMAIN call
                   /\ call.of \in Connection /\ call.set \in BOOLEAN
                   /\ call.set => handle[call.of].resSet # NoSet

DbInv == DbTypeInv /\ SetsInv /\ CallInv

-----------------------------------------------------------------------------
(* The initial states satisfy the invariant. *)
LEMMA InitInv == DbInit => DbInv
<1> SUFFICES ASSUME DbInit PROVE DbInv
  OBVIOUS
<1>1. Sets(results) /\ Len(results) = 0
  BY DEF DbInit, Sets
<1>2. handle \in Handles /\ \A h \in Connection : handle[h].resSet = NoSet
  BY DEF DbInit, Handles, Closed, NoSet
<1>3. freed \in [ResultId -> Nat] /\ \A s \in ResultId : freed[s] = 0
  BY DEF DbInit
<1> QED BY <1>1, <1>2, <1>3 DEF DbInit, DbInv, DbTypeInv, SetsInv, CallInv, NoSet

(* One more result set leaves those before it where and whose they are. *)
LEMMA OneMoreSet ==
  ASSUME DbTypeInv, NEW h \in Connection, NEW q, NEW rows
  PROVE  LET new == SetAllocated(h, q, rows)
         IN  /\ Sets(new) /\ Len(new) = Len(results) + 1
             /\ \A s \in 1 .. Len(results) : new[s] = results[s]
             /\ new[NewSet].of = h
<1>1. PICK Q, R : results \in Seq([of : Connection, query : Q, rows : R])
  BY DEF DbTypeInv, Sets
<1> DEFINE Wider == [of : Connection, query : Q \cup {q}, rows : R \cup {rows}]
           set == [of |-> h, query |-> q, rows |-> rows]
<1>2. results \in Seq(Wider)
  <2> DEFINE Narrow == [of : Connection, query : Q, rows : R]
  <2>1. Narrow \subseteq Wider
    OBVIOUS
  <2>2. results \in Seq(Narrow)
    BY <1>1
  <2> HIDE DEF Narrow, Wider
  <2> QED BY <2>1, <2>2
<1>3. set \in Wider /\ set.of = h
  OBVIOUS
<1>4. Append(results, set) \in Seq(Wider)
  <2> HIDE DEF Wider, set
  <2> QED BY <1>2, <1>3
<1>5. Sets(Append(results, set))
  BY <1>4 DEF Sets
<1>6. /\ Len(Append(results, set)) = Len(results) + 1
      /\ \A s \in 1 .. Len(results) : Append(results, set)[s] = results[s]
      /\ Append(results, set)[Len(results) + 1] = set
  <2> HIDE DEF Wider, set
  <2> QED BY <1>2, <1>3
<1> QED BY <1>3, <1>5, <1>6 DEF SetAllocated, NewSet

(* The length of the sequence is a number. *)
LEMMA LengthType == ASSUME DbTypeInv PROVE Len(results) \in Nat
BY DEF DbTypeInv, Sets

-----------------------------------------------------------------------------
(* What the plug-ins do with result sets, one lemma each.                  *)

(* A step that forgets a set of some connection, at most. *)
LEMMA Forgets ==
  ASSUME DbInv, UNCHANGED <<results, kept, freed>>, handle' \in Handles,
         \A g \in Connection : handle'[g].resSet \in {NoSet, handle[g].resSet}
  PROVE  DbTypeInv' /\ SetsInv'
<1>1. DbTypeInv'
  BY DEF DbInv, DbTypeInv
<1>2. SetsInv'
  BY DEF DbInv, SetsInv, NoSet
<1> QED BY <1>1, <1>2

(* A set of the connection is released: the last it answered, or one that  *)
(* the program was given.                                                  *)
LEMMA Releases ==
  ASSUME DbInv, NEW h \in Connection, NEW s \in 1 .. Len(results), results[s].of = h, freed[s] = 0,
         UNCHANGED results, freed' = [freed EXCEPT ![s] = @ + 1], kept' = kept \ {s},
         handle' \in Handles, handle'[h].resSet = NoSet,
         \A g \in Connection \ {h} : handle'[g].resSet = handle[g].resSet
  PROVE  DbTypeInv' /\ SetsInv'
<1>1. s \in ResultId /\ Len(results) \in Nat
  BY LengthType DEF DbInv, DbTypeInv, ResultId
<1>2. freed' \in [ResultId -> Nat] /\ freed'[s] = 1
      /\ \A t \in ResultId \ {s} : freed'[t] = freed[t]
  BY <1>1 DEF DbInv, DbTypeInv
<1>3. DbTypeInv'
  BY <1>2 DEF DbInv, DbTypeInv
<1>4. \A g \in Connection : handle'[g].resSet # NoSet => g # h /\ handle'[g].resSet # s
  BY DEF DbInv, SetsInv
<1>5. \A t \in 1 .. Len(results) : t \in ResultId
  BY <1>1 DEF DbInv, DbTypeInv, ResultId
<1>6. \A g \in Connection : handle'[g].resSet # NoSet =>
        /\ handle'[g].resSet <= Len(results) /\ results[handle'[g].resSet].of = g
        /\ handle'[g].resSet \in ResultId /\ freed'[handle'[g].resSet] = 0
  <2> SUFFICES ASSUME NEW g \in Connection, handle'[g].resSet # NoSet
               PROVE  /\ handle'[g].resSet <= Len(results) /\ results[handle'[g].resSet].of = g
                      /\ handle'[g].resSet \in ResultId /\ freed'[handle'[g].resSet] = 0
    OBVIOUS
  <2>1. handle'[g].resSet = handle[g].resSet /\ handle'[g].resSet # s
    BY <1>4
  <2>2. handle'[g].resSet \in ResultId
    BY DEF Handles, ResultId, NoSet
  <2>3. handle[g].resSet <= Len(results) /\ results[handle[g].resSet].of = g
        /\ freed[handle[g].resSet] = 0
    BY <2>1 DEF DbInv, SetsInv
  <2> QED BY <2>1, <2>2, <2>3, <1>2
<1>7. \A t \in ResultId : freed'[t] <= 1 /\ (t > Len(results) => freed'[t] = 0)
  BY <1>1, <1>2 DEF DbInv, SetsInv
<1>8. kept' \subseteq 1 .. Len(results) /\ \A t \in kept' : freed'[t] = 0
  BY <1>2, <1>5 DEF DbInv, SetsInv
<1> QED BY <1>3, <1>6, <1>7, <1>8 DEF SetsInv

(* What a connection answers from a step on. *)
Points(h, s) == handle' = [handle EXCEPT ![h].resSet = s]

(* The connection answers another set, or none. *)
LEMMA PointsTo ==
  ASSUME handle \in Handles, NEW h \in Connection, NEW s \in 0 .. MaxResults, Points(h, s)
  PROVE  /\ handle' \in Handles /\ handle'[h].resSet = s
         /\ \A g \in Connection \ {h} : handle'[g].resSet = handle[g].resSet
<1> DEFINE Record == [open : BOOLEAN, resSet : 0 .. MaxResults,
                      statement : {"none", "ready", "row", "done"}]
           new == [handle[h] EXCEPT !.resSet = s]
<1>1. handle \in [Connection -> Record]
  BY DEF Handles
<1>2. new \in Record /\ new.resSet = s
  BY <1>1
<1>3. handle' = [handle EXCEPT ![h] = new]
  BY DEF Points
<1>4. /\ handle' \in [Connection -> Record] /\ handle'[h] = new
      /\ \A g \in Connection \ {h} : handle'[g] = handle[g]
  <2> HIDE DEF Record, new
  <2> QED BY <1>1, <1>2, <1>3
<1> QED BY <1>2, <1>4 DEF Handles

(* A set is allocated, and the connection answers it from now on. *)
LEMMA Allocates ==
  ASSUME DbInv, NEW h \in Connection, NEW q, NEW rows, NewSet \in ResultId,
         results' = SetAllocated(h, q, rows), UNCHANGED freed,
         handle' = [handle EXCEPT ![h].resSet = NewSet],
         kept' \subseteq kept \cup {NewSet}
  PROVE  DbTypeInv' /\ SetsInv'
<1>1. Len(results) \in Nat /\ NewSet = Len(results) + 1
  BY LengthType DEF DbInv, NewSet
<1>2. /\ Sets(results') /\ Len(results') = Len(results) + 1
      /\ \A s \in 1 .. Len(results) : results'[s] = results[s]
      /\ results'[NewSet].of = h
  BY OneMoreSet DEF DbInv
<1>3. /\ handle' \in Handles
      /\ handle'[h].resSet = NewSet
      /\ \A g \in Connection \ {h} : handle'[g].resSet = handle[g].resSet
  <2>1. NewSet \in 0 .. MaxResults /\ handle \in Handles
    BY DEF DbInv, DbTypeInv, ResultId
  <2>2. Points(h, NewSet)
    BY DEF Points
  <2> QED BY <2>1, <2>2, PointsTo
<1>4. DbTypeInv'
  BY <1>1, <1>2, <1>3 DEF DbInv, DbTypeInv, ResultId
<1>5. \A s \in ResultId : freed'[s] <= 1 /\ (s > Len(results') => freed'[s] = 0)
  BY <1>1, <1>2 DEF DbInv, SetsInv, ResultId
<1>6. kept' \subseteq 1 .. Len(results') /\ \A s \in kept' : freed'[s] = 0
  BY <1>1, <1>2 DEF DbInv, SetsInv
<1>7. ASSUME NEW g \in Connection, handle'[g].resSet # NoSet
      PROVE  /\ handle'[g].resSet <= Len(results') /\ results'[handle'[g].resSet].of = g
             /\ freed'[handle'[g].resSet] = 0
  <2>1. CASE g = h
    BY <2>1, <1>1, <1>2, <1>3 DEF DbInv, SetsInv
  <2>2. CASE g # h
    <3>1. handle'[g].resSet = handle[g].resSet
      BY <2>2, <1>3
    <3>2. handle[g].resSet \in 1 .. Len(results)
      BY <3>1, <1>7, <1>1 DEF DbInv, SetsInv, DbTypeInv, Handles, NoSet
    <3>3. results[handle[g].resSet].of = g /\ freed[handle[g].resSet] = 0
      BY <3>1, <1>7 DEF DbInv, SetsInv
    <3> QED BY <3>1, <3>2, <3>3, <1>1, <1>2
  <2> QED BY <2>1, <2>2
<1>8. SetsInv'
  BY <1>5, <1>6, <1>7 DEF SetsInv
<1> QED BY <1>4, <1>8

(* A set is released, and the connection answers a new one. *)
LEMMA Renews ==
  ASSUME DbInv, NEW h \in Connection, NEW q, NEW rows, NewSet \in ResultId,
         NEW s \in kept, results[s].of = h,
         results' = SetAllocated(h, q, rows), freed' = [freed EXCEPT ![s] = @ + 1],
         Points(h, NewSet),
         kept' \subseteq (kept \ {s}) \cup {NewSet}
  PROVE  DbTypeInv' /\ SetsInv'
<1>1. Len(results) \in Nat /\ NewSet = Len(results) + 1
  BY LengthType DEF DbInv, NewSet
<1>2. /\ Sets(results') /\ Len(results') = Len(results) + 1
      /\ \A t \in 1 .. Len(results) : results'[t] = results[t]
      /\ results'[NewSet].of = h
  BY OneMoreSet DEF DbInv
<1>3. /\ handle' \in Handles
      /\ handle'[h].resSet = NewSet
      /\ \A g \in Connection \ {h} : handle'[g].resSet = handle[g].resSet
  <2>1. NewSet \in 0 .. MaxResults /\ handle \in Handles
    BY DEF DbInv, DbTypeInv, ResultId
  <2> QED BY <2>1, PointsTo
<1>4. s \in 1 .. Len(results) /\ s \in ResultId /\ freed[s] = 0
  BY <1>1 DEF DbInv, SetsInv, DbTypeInv, ResultId
<1>5. freed' \in [ResultId -> Nat] /\ freed'[s] = 1
      /\ \A t \in ResultId \ {s} : freed'[t] = freed[t]
  BY <1>4 DEF DbInv, DbTypeInv
<1>6. DbTypeInv'
  BY <1>1, <1>2, <1>3, <1>5 DEF DbTypeInv, ResultId
<1>7. \A t \in ResultId : freed'[t] <= 1 /\ (t > Len(results') => freed'[t] = 0)
  BY <1>1, <1>2, <1>4, <1>5 DEF DbInv, SetsInv, ResultId
<1>8. NewSet # s /\ freed'[NewSet] = 0
  BY <1>1, <1>4, <1>5 DEF DbInv, SetsInv
<1>9. kept' \subseteq 1 .. Len(results') /\ \A t \in kept' : freed'[t] = 0
  <2>1. \A t \in kept : t \in 1 .. Len(results) /\ t \in ResultId /\ freed[t] = 0
    BY <1>1 DEF DbInv, SetsInv, DbTypeInv, ResultId
  <2>2. kept' \subseteq 1 .. Len(results')
    BY <2>1, <1>1, <1>2
  <2> QED BY <2>1, <2>2, <1>5, <1>8
<1>10. ASSUME NEW g \in Connection, handle'[g].resSet # NoSet
       PROVE  /\ handle'[g].resSet <= Len(results') /\ results'[handle'[g].resSet].of = g
              /\ freed'[handle'[g].resSet] = 0
  <2>1. CASE g = h
    BY <2>1, <1>1, <1>2, <1>3, <1>8
  <2>2. CASE g # h
    <3>1. handle'[g].resSet = handle[g].resSet
      BY <2>2, <1>3
    <3>2. handle[g].resSet \in 1 .. Len(results) /\ handle[g].resSet \in ResultId
      BY <3>1, <1>10, <1>1 DEF DbInv, SetsInv, DbTypeInv, Handles, NoSet, ResultId
    <3>3. results[handle[g].resSet].of = g /\ freed[handle[g].resSet] = 0
      BY <3>1, <1>10 DEF DbInv, SetsInv
    <3>4. handle[g].resSet # s
      BY <3>3, <2>2
    <3> QED BY <3>1, <3>2, <3>3, <3>4, <1>1, <1>2, <1>5
  <2> QED BY <2>1, <2>2
<1>11. SetsInv'
  BY <1>7, <1>9, <1>10 DEF SetsInv
<1> QED BY <1>6, <1>11

(* A set is allocated and released at once. *)
LEMMA AllocatesInVain ==
  ASSUME DbInv, NEW h \in Connection, NEW q, NEW rows, NewSet \in ResultId,
         results' = SetAllocated(h, q, rows), freed' = [freed EXCEPT ![NewSet] = @ + 1],
         handle' = [handle EXCEPT ![h].resSet = NoSet], UNCHANGED kept
  PROVE  DbTypeInv' /\ SetsInv'
<1>1. Len(results) \in Nat /\ NewSet = Len(results) + 1
  BY LengthType DEF DbInv, NewSet
<1>2. /\ Sets(results') /\ Len(results') = Len(results) + 1
      /\ \A t \in 1 .. Len(results) : results'[t] = results[t]
  BY OneMoreSet DEF DbInv
<1>3. /\ handle' \in Handles
      /\ handle'[h].resSet = NoSet
      /\ \A g \in Connection \ {h} : handle'[g].resSet = handle[g].resSet
  <2>1. NoSet \in 0 .. MaxResults /\ handle \in Handles
    BY DEF DbInv, DbTypeInv, NoSet
  <2>2. Points(h, NoSet)
    BY DEF Points
  <2> QED BY <2>1, <2>2, PointsTo
<1>4. freed[NewSet] = 0
  BY <1>1 DEF DbInv, SetsInv
<1>5. freed' \in [ResultId -> Nat] /\ freed'[NewSet] = 1
      /\ \A t \in ResultId \ {NewSet} : freed'[t] = freed[t]
  BY <1>4 DEF DbInv, DbTypeInv
<1>6. DbTypeInv'
  BY <1>1, <1>2, <1>3, <1>5 DEF DbTypeInv, ResultId
<1>7. \A t \in ResultId : freed'[t] <= 1 /\ (t > Len(results') => freed'[t] = 0)
  BY <1>1, <1>2, <1>5 DEF DbInv, SetsInv, ResultId
<1>8. \A t \in 1 .. Len(results) : t \in ResultId \ {NewSet}
  BY <1>1 DEF ResultId
<1>9. kept' \subseteq 1 .. Len(results') /\ \A t \in kept' : freed'[t] = 0
  BY <1>1, <1>2, <1>5, <1>8 DEF DbInv, SetsInv
<1>10. ASSUME NEW g \in Connection, handle'[g].resSet # NoSet
       PROVE  /\ handle'[g].resSet <= Len(results') /\ results'[handle'[g].resSet].of = g
              /\ freed'[handle'[g].resSet] = 0
  <2>1. handle'[g].resSet = handle[g].resSet
    BY <1>3, <1>10
  <2>2. handle[g].resSet \in 1 .. Len(results)
    BY <2>1, <1>10, <1>1 DEF DbInv, SetsInv, DbTypeInv, Handles, NoSet
  <2>3. results[handle[g].resSet].of = g /\ freed[handle[g].resSet] = 0
    BY <2>1, <1>10 DEF DbInv, SetsInv
  <2> QED BY <2>1, <2>2, <2>3, <1>1, <1>2, <1>5, <1>8
<1>11. SetsInv'
  BY <1>7, <1>9, <1>10 DEF SetsInv
<1> QED BY <1>6, <1>11

(* A row is added to the set that a call fills. *)
LEMMA AddsRow ==
  ASSUME DbInv, UNCHANGED <<handle, kept, freed>>, NEW s \in 1 .. Len(results), NEW row,
         results' = [results EXCEPT ![s].rows = Append(@, row)]
  PROVE  DbTypeInv' /\ SetsInv'
<1>1. PICK Q, R : results \in Seq([of : Connection, query : Q, rows : R])
  BY DEF DbInv, DbTypeInv, Sets
<1> DEFINE Narrow == [of : Connection, query : Q, rows : R]
           more == Append(results[s].rows, row)
           Wider == [of : Connection, query : Q, rows : R \cup {more}]
           set == [results[s] EXCEPT !.rows = more]
<1>2. results \in Seq(Narrow) /\ Narrow \subseteq Wider
  BY <1>1
<1>3. results[s] \in Narrow
  <2> HIDE DEF Narrow
  <2> QED BY <1>2
<1>4. set \in Wider /\ set.of = results[s].of
  <2> HIDE DEF more
  <2> QED BY <1>3
<1>5. results' = [results EXCEPT ![s] = set]
  OBVIOUS
<1>6. /\ results' \in Seq(Wider) /\ Len(results') = Len(results)
      /\ \A t \in 1 .. Len(results) : results'[t].of = results[t].of
  <2>1. /\ results' \in Seq(Wider) /\ Len(results') = Len(results)
        /\ \A t \in 1 .. Len(results) : results'[t] = IF t = s THEN set ELSE results[t]
    <3> HIDE DEF Narrow, Wider, set
    <3>1. results \in Seq(Wider) /\ set \in Wider
      BY <1>2, <1>4
    <3>2. /\ [results EXCEPT ![s] = set] \in Seq(Wider)
          /\ Len([results EXCEPT ![s] = set]) = Len(results)
          /\ \A t \in 1 .. Len(results) :
               [results EXCEPT ![s] = set][t] = IF t = s THEN set ELSE results[t]
      BY <3>1, ExceptSeq
    <3> QED BY <3>2, <1>5, Zenon
  <2> QED BY <2>1, <1>4
<1>7. Sets(results')
  BY <1>6 DEF Sets
<1>8. DbTypeInv'
  BY <1>6, <1>7 DEF DbInv, DbTypeInv
<1>9. \A g \in Connection : handle[g].resSet # NoSet => handle[g].resSet \in 1 .. Len(results)
  BY LengthType DEF DbInv, DbTypeInv, SetsInv, Handles, NoSet
<1>10. SetsInv'
  BY <1>6, <1>9 DEF DbInv, SetsInv
<1> QED BY <1>8, <1>10

-----------------------------------------------------------------------------
(* The query that each call ends with, of all three plug-ins. *)
LEMMA QueriesInv ==
  ASSUME DbInv, call = NoCall, NEW h \in Connection, NEW q, NEW createResults \in BOOLEAN, NEW then,
         Queries(h, q, createResults, then)
  PROVE  DbInv'
<1>1. ASSUME handle' = [handle EXCEPT ![h].resSet = NoSet], UNCHANGED <<results, kept, freed>>
      PROVE  DbTypeInv' /\ SetsInv'
  <2>1. NoSet \in 0 .. MaxResults /\ handle \in Handles
    BY DEF DbInv, DbTypeInv, NoSet
  <2>2. /\ handle' \in Handles /\ handle'[h].resSet = NoSet
        /\ \A g \in Connection \ {h} : handle'[g].resSet = handle[g].resSet
    <3>1. Points(h, NoSet)
      BY <1>1, <2>1 DEF Points
    <3> QED BY <2>1, <3>1, PointsTo
  <2>3. \A g \in Connection : handle'[g].resSet \in {NoSet, handle[g].resSet}
    BY <2>2
  <2> QED BY <1>1, <2>2, <2>3, Forgets
<1>2. CASE UNCHANGED call /\ (QueryFails(h) \/ Executes(h, q))
  BY <1>1, <1>2 DEF QueryFails, Executes, DbInv, CallInv
<1>3. CASE UNCHANGED call /\ AnswerSet(h, q, then)
  <2>1. /\ NewSet \in ResultId /\ results' = SetAllocated(h, q, Answer(q)) /\ UNCHANGED freed
        /\ handle' = [handle EXCEPT ![h].resSet = NewSet]
        /\ kept' \subseteq kept \cup {NewSet}
    BY <1>3 DEF AnswerSet
  <2> QED BY <1>3, <2>1, Allocates DEF DbInv, CallInv
<1>4. CASE UNCHANGED call /\ PgResultsFail(h, q)
  BY <1>4, AllocatesInVain DEF PgResultsFail, DbInv, CallInv
<1>5. CASE SqliteQuery(h, q, createResults, then)
  <2>1. {"of", "set"} \subseteq DOMAIN call' /\ call'.of = h /\ call'.set = createResults
    BY <1>5 DEF SqliteQuery
  <2>2. CASE createResults
    <3>1. /\ NewSet \in ResultId /\ results' = SetAllocated(h, q, <<>>) /\ UNCHANGED <<freed, kept>>
          /\ handle' = [handle EXCEPT ![h].resSet = NewSet]
      BY <1>5, <2>2 DEF SqliteQuery
    <3>2. DbTypeInv' /\ SetsInv'
      BY <3>1, Allocates
    <3>3. handle'[h].resSet # NoSet
      <4>1. NewSet \in 0 .. MaxResults /\ handle \in Handles /\ NewSet # NoSet
        BY <3>1 DEF DbInv, DbTypeInv, ResultId, NoSet
      <4>2. handle'[h].resSet = NewSet
        <5>1. Points(h, NewSet)
          BY <3>1, <4>1 DEF Points
        <5> QED BY <4>1, <5>1, PointsTo
      <4> QED BY <4>1, <4>2
    <3> QED BY <2>1, <3>2, <3>3 DEF DbInv, CallInv
  <2>3. CASE ~ createResults
    <3>1. handle' = [handle EXCEPT ![h].resSet = NoSet] /\ UNCHANGED <<results, kept, freed>>
      BY <1>5, <2>3 DEF SqliteQuery
    <3>2. DbTypeInv' /\ SetsInv'
      BY <3>1, <1>1
    <3> QED BY <2>1, <2>3, <3>2 DEF DbInv, CallInv
  <2> QED BY <2>2, <2>3
<1>6. \/ UNCHANGED call /\ (QueryFails(h) \/ Executes(h, q))
      \/ UNCHANGED call /\ AnswerSet(h, q, then)
      \/ UNCHANGED call /\ PgResultsFail(h, q)
      \/ SqliteQuery(h, q, createResults, then)
  BY DEF Queries, PgQuery, MyQuery
<1> QED BY <1>2, <1>3, <1>4, <1>5, <1>6

(* Most calls do nothing else to result sets than to make a query. *)
QueryCall(h) ==
  \/ CreatesTable(h) \/ DropsTable(h) \/ EmptiesTable(h) \/ InsertsRow(h) \/ ModifiesRows(h)
  \/ DeletesRows(h) \/ QueriesRow(h) \/ QueriesTable(h)
  \/ radsqliteTableIfExists(h) \/ radsqliteTableDescriptionGet(h)

(* They keep the invariant. *)
LEMMA QueryCallInv == ASSUME DbInv, NEW h \in Connection, QueryCall(h) PROVE DbInv'
<1>1. call = NoCall
  BY DEF QueryCall, CreatesTable, DropsTable, EmptiesTable, InsertsRow, ModifiesRows, DeletesRows,
         QueriesRow, QueriesTable, radsqliteTableIfExists, radsqliteTableDescriptionGet, UsesAlone,
         Uses, Running
<1>2. \E q, then : \E createResults \in BOOLEAN : Queries(h, q, createResults, then)
  BY DEF QueryCall, CreatesTable, DropsTable, EmptiesTable, InsertsRow, ModifiesRows, DeletesRows,
         QueriesRow, QueriesTable, radsqliteTableIfExists, radsqliteTableDescriptionGet
<1> QED BY <1>1, <1>2, QueriesInv

-----------------------------------------------------------------------------
(* The other calls, one lemma for those of all plug-ins that do the same.  *)

(* The calls on the row description have nothing to do with result sets. *)
LEMMA DescriptionInv == ASSUME DbInv, DescriptionCall PROVE DbInv'
<1>1. DescriptionOnly
  BY DEF DescriptionCall, raddatabaseRowDescriptionCreate, raddatabaseRowDescriptionDelete,
         radsqliteRowDescriptionCreate, radsqliteRowDescriptionDelete,
         raddatabaseRowDescriptionAddField, raddatabaseRowDescriptionRemoveField,
         raddatabaseFieldSetValue, raddatabaseFieldSetType, raddatabaseFieldSetToNull,
         radsqliteRowDescriptionAddField, radsqliteRowDescriptionRemoveField,
         radsqliteFieldSetValue, radsqliteFieldSetType, radsqliteFieldSetToNull,
         CreatesDescription, DeletesDescription, AddsField, RemovesField, SetsValue, SetsType,
         SetsNull, SetsField
<1>2. UNCHANGED <<handle, results, kept, freed, call>>
  BY <1>1 DEF DescriptionOnly
<1> QED BY <1>2 DEF DbInv, DbTypeInv, SetsInv, CallInv

(* A change of a connection's direct statement alone. *)
LEMMA StatementInv ==
  ASSUME DbInv, NEW h \in Connection, NEW s \in {"none", "ready", "row", "done"},
         handle' = [handle EXCEPT ![h].statement = s], UNCHANGED <<results, kept, freed>>
  PROVE  /\ DbTypeInv' /\ SetsInv'
         /\ \A g \in Connection : handle'[g].resSet = handle[g].resSet
<1> DEFINE Record == [open : BOOLEAN, resSet : 0 .. MaxResults,
                      statement : {"none", "ready", "row", "done"}]
           new == [handle[h] EXCEPT !.statement = s]
<1>1. handle \in [Connection -> Record]
  BY DEF DbInv, DbTypeInv, Handles
<1>2. new \in Record /\ new.resSet = handle[h].resSet
  BY <1>1
<1>3. handle' = [handle EXCEPT ![h] = new]
  OBVIOUS
<1>4. /\ handle' \in [Connection -> Record] /\ handle'[h] = new
      /\ \A g \in Connection \ {h} : handle'[g] = handle[g]
  <2> HIDE DEF Record, new
  <2> QED BY <1>1, <1>2, <1>3
<1>5. \A g \in Connection : handle'[g].resSet = handle[g].resSet
  BY <1>2, <1>4
<1>6. handle' \in Handles
  BY <1>4 DEF Handles
<1> QED BY <1>5, <1>6, Forgets, ZenonT(60)

(* A set that the program was given or that a connection answers is        *)
(* allocated, not released, and of that connection.                        *)
LEMMA SetInUse ==
  ASSUME DbInv, NEW h \in Connection, NEW s,
         (s \in kept /\ results[s].of = h) \/ (s # NoSet /\ s = handle[h].resSet)
  PROVE  s \in 1 .. Len(results) /\ results[s].of = h /\ freed[s] = 0
<1>1. CASE s \in kept /\ results[s].of = h
  BY <1>1 DEF DbInv, SetsInv
<1>2. CASE s # NoSet /\ s = handle[h].resSet
  <2>1. s \in 0 .. MaxResults /\ Len(results) \in Nat
    BY <1>2, LengthType DEF DbInv, DbTypeInv, Handles
  <2> QED BY <1>2, <2>1 DEF DbInv, SetsInv, NoSet
<1> QED BY <1>1, <1>2

(* Such a set is released. *)
LEMMA ReleasedInv ==
  ASSUME DbInv, NEW h \in Connection, NEW s \in 1 .. Len(results), results[s].of = h, freed[s] = 0,
         Released(h, s), UNCHANGED results
  PROVE  DbTypeInv' /\ SetsInv'
<1>1. /\ UNCHANGED results /\ freed' = [freed EXCEPT ![s] = @ + 1] /\ kept' = kept \ {s}
      /\ handle' = [handle EXCEPT ![h].resSet = NoSet]
  BY DEF Released
<1>2. NoSet \in 0 .. MaxResults /\ handle \in Handles
  BY DEF DbInv, DbTypeInv, NoSet
<1>3. /\ handle' \in Handles /\ handle'[h].resSet = NoSet
      /\ \A g \in Connection \ {h} : handle'[g].resSet = handle[g].resSet
  <2>1. Points(h, NoSet)
    BY <1>1, <1>2 DEF Points
  <2> QED BY <1>2, <2>1, PointsTo
<1> QED BY <1>1, <1>3, Releases

(* Opening and closing a connection, which releases the set it answers. *)
LEMMA ConnectionInv ==
  ASSUME DbInv, NEW h \in Connection, OpensDatabase(h) \/ ClosesDatabase(h)
  PROVE  DbInv'
<1> DEFINE Record == [open : BOOLEAN, resSet : 0 .. MaxResults,
                      statement : {"none", "ready", "row", "done"}]
<1>1. ASSUME NEW new \in Record, new.resSet = NoSet, handle' = [handle EXCEPT ![h] = new]
      PROVE  /\ handle' \in Handles /\ handle'[h].resSet = NoSet
             /\ \A g \in Connection \ {h} : handle'[g].resSet = handle[g].resSet
  <2>1. handle \in [Connection -> Record]
    BY DEF DbInv, DbTypeInv, Handles
  <2>2. /\ handle' \in [Connection -> Record] /\ handle'[h] = new
        /\ \A g \in Connection \ {h} : handle'[g] = handle[g]
    <3> HIDE DEF Record
    <3> QED BY <1>1, <2>1
  <2> QED BY <1>1, <2>2 DEF Handles
<1>2. call = NoCall /\ UNCHANGED <<results, call>>
  BY DEF OpensDatabase, ClosesDatabase, Running
<1>3. \E new \in Record : new.resSet = NoSet /\ handle' = [handle EXCEPT ![h] = new]
  <2>1. Closed \in Record /\ Closed.resSet = NoSet
    BY DEF Closed, NoSet
  <2>2. [Closed EXCEPT !.open = TRUE] \in Record /\ [Closed EXCEPT !.open = TRUE].resSet = NoSet
    <3>1. \A r \in Record : /\ [r EXCEPT !.open = TRUE] \in Record
                            /\ [r EXCEPT !.open = TRUE].resSet = r.resSet
      OBVIOUS
    <3> HIDE DEF Record
    <3> QED BY <2>1, <3>1
  <2>3. \/ handle' = [handle EXCEPT ![h] = Closed]
        \/ handle' = [handle EXCEPT ![h] = [Closed EXCEPT !.open = TRUE]]
    BY DEF OpensDatabase, ClosesDatabase
  <2> QED BY <2>1, <2>2, <2>3
<1>4. /\ handle' \in Handles /\ handle'[h].resSet = NoSet
      /\ \A g \in Connection \ {h} : handle'[g].resSet = handle[g].resSet
  BY <1>1, <1>3
<1>5. DbTypeInv' /\ SetsInv'
  <2>1. CASE UNCHANGED <<kept, freed>>
    <3>1. \A g \in Connection : handle'[g].resSet \in {NoSet, handle[g].resSet}
      BY <1>4
    <3> QED BY <1>2, <1>4, <2>1, <3>1, Forgets
  <2>2. CASE /\ handle[h].resSet # NoSet
             /\ freed' = [freed EXCEPT ![handle[h].resSet] = @ + 1]
             /\ kept' = kept \ {handle[h].resSet}
    <3> DEFINE s == handle[h].resSet
    <3>1. s \in 1 .. Len(results) /\ results[s].of = h /\ freed[s] = 0
      BY <2>2, LengthType DEF DbInv, DbTypeInv, SetsInv, Handles, NoSet
    <3>2. freed' = [freed EXCEPT ![s] = @ + 1] /\ kept' = kept \ {s}
      BY <2>2
    <3> HIDE DEF s
    <3> QED BY <1>2, <1>4, <3>1, <3>2, Releases
  <2>3. \/ UNCHANGED <<kept, freed>>
        \/ /\ handle[h].resSet # NoSet
           /\ freed' = [freed EXCEPT ![handle[h].resSet] = @ + 1]
           /\ kept' = kept \ {handle[h].resSet}
    BY DEF OpensDatabase, ClosesDatabase
  <2> QED BY <2>1, <2>2, <2>3
<1> QED BY <1>2, <1>5 DEF DbInv, CallInv

(* Releasing a set, giving the last one to the program, forgetting it. *)
LEMMA SetCallInv ==
  ASSUME DbInv, NEW h \in Connection,
         \/ \E s \in kept : ReleasesResults(h, s)
         \/ raddatabaseGetResults(h)
         \/ PgTableDescriptionGet(h) \/ MyTableDescriptionGet(h)
  PROVE  DbInv'
<1>1. call = NoCall /\ UNCHANGED call
  BY DEF ReleasesResults, raddatabaseGetResults, PgTableDescriptionGet, MyTableDescriptionGet,
         UsesAlone, Uses, Running
<1>2. CASE \E s \in kept : ReleasesResults(h, s)
  <2>1. PICK s \in kept : ReleasesResults(h, s)
    BY <1>2
  <2>2. Released(h, s) /\ UNCHANGED results /\ s \in kept /\ results[s].of = h
    BY <2>1 DEF ReleasesResults
  <2>3. s \in 1 .. Len(results) /\ freed[s] = 0
    BY <2>2 DEF DbInv, SetsInv
  <2>4. DbTypeInv' /\ SetsInv'
    BY <2>2, <2>3, ReleasedInv, ZenonT(60)
  <2> QED BY <1>1, <2>4 DEF DbInv, CallInv
<1>3. CASE raddatabaseGetResults(h)
  <2>1. UNCHANGED <<handle, results, freed>> /\ handle[h].resSet # NoSet
        /\ kept' = kept \cup {handle[h].resSet}
    BY <1>3 DEF raddatabaseGetResults
  <2>2. handle[h].resSet \in 1 .. Len(results) /\ freed[handle[h].resSet] = 0
    <3>1. handle[h] \in [open : BOOLEAN, resSet : 0 .. MaxResults, statement : {"none", "ready", "row", "done"}]
      BY DEF DbInv, DbTypeInv, Handles
    <3>2. handle[h].resSet \in Nat /\ Len(results) \in Nat /\ handle[h].resSet # 0
      BY <2>1, <3>1, LengthType DEF DbInv, NoSet
    <3>3. handle[h].resSet <= Len(results) /\ freed[handle[h].resSet] = 0
      BY <2>1 DEF DbInv, SetsInv
    <3> QED BY <3>2, <3>3
  <2>3. DbTypeInv'
    <3>1. results' = results /\ handle' = handle /\ freed' = freed
      BY <2>1
    <3>2. Sets(results')
      BY <3>1 DEF DbInv, DbTypeInv
    <3> QED BY <3>1, <3>2 DEF DbInv, DbTypeInv
  <2>4. SetsInv'
    <3>1. kept' \subseteq 1 .. Len(results') /\ \A s \in kept' : freed'[s] = 0
      BY <2>1, <2>2 DEF DbInv, SetsInv
    <3>2. /\ \A s \in ResultId : freed'[s] <= 1 /\ (s > Len(results') => freed'[s] = 0)
          /\ \A g \in Connection :
               LET s == handle'[g].resSet
               IN  s # NoSet => s <= Len(results') /\ results'[s].of = g /\ freed'[s] = 0
      BY <2>1 DEF DbInv, SetsInv
    <3> QED BY <3>1, <3>2 DEF SetsInv
  <2> QED BY <1>1, <2>3, <2>4 DEF DbInv, CallInv
<1>4. CASE PgTableDescriptionGet(h)
  <2>1. handle' = [handle EXCEPT ![h].resSet = NoSet] /\ UNCHANGED <<results, kept, freed>>
    BY <1>4 DEF PgTableDescriptionGet
  <2>2. NoSet \in 0 .. MaxResults /\ handle \in Handles
    BY DEF DbInv, DbTypeInv, NoSet
  <2>3. /\ handle' \in Handles /\ handle'[h].resSet = NoSet
        /\ \A g \in Connection \ {h} : handle'[g].resSet = handle[g].resSet
    <3>1. Points(h, NoSet)
      BY <2>1, <2>2 DEF Points
    <3> QED BY <2>2, <3>1, PointsTo
  <2>4. \A g \in Connection : handle'[g].resSet \in {NoSet, handle[g].resSet}
    BY <2>3
  <2>5. DbTypeInv' /\ SetsInv'
    BY <2>1, <2>3, <2>4, Forgets
  <2> QED BY <1>1, <2>5 DEF DbInv, CallInv
<1>5. CASE MyTableDescriptionGet(h)
  <2>1. UNCHANGED <<handle, results, kept, freed, call>>
    BY <1>5 DEF MyTableDescriptionGet
  <2> QED BY <2>1 DEF DbInv, DbTypeInv, SetsInv, CallInv
<1> QED BY <1>2, <1>3, <1>4, <1>5

(* A set is refreshed, with SQLite and with a server. *)
LEMMA RefreshInv ==
  ASSUME DbInv, NEW h \in Connection,
         \E s \in kept : radsqliteRefreshResults(h, s) \/ RefreshesResults(h, s)
  PROVE  DbInv'
<1>1. PICK s \in kept : radsqliteRefreshResults(h, s) \/ RefreshesResults(h, s)
  OBVIOUS
<1>2. call = NoCall /\ results[s].of = h /\ freed' = [freed EXCEPT ![s] = @ + 1]
  BY <1>1 DEF radsqliteRefreshResults, RefreshesResults, Uses, Running
<1>3. s \in 1 .. Len(results) /\ freed[s] = 0
  BY DEF DbInv, SetsInv
<1>4. ASSUME NEW q, NEW rows, NewSet \in ResultId, results' = SetAllocated(h, q, rows),
             Points(h, NewSet),
             kept' \subseteq (kept \ {s}) \cup {NewSet}
      PROVE  DbTypeInv' /\ SetsInv'
  BY <1>2, <1>4, Renews
<1>5. CASE radsqliteRefreshResults(h, s)
  <2>1. /\ NewSet \in ResultId /\ results' = SetAllocated(h, results[s].query, <<>>)
        /\ Points(h, NewSet)
        /\ kept' \subseteq (kept \ {s}) \cup {NewSet}
    BY <1>5 DEF radsqliteRefreshResults, Points
  <2>2. DbTypeInv' /\ SetsInv'
    BY <2>1, <1>4
  <2>3. {"of", "set"} \subseteq DOMAIN call' /\ call'.of = h /\ call'.set = TRUE
    BY <1>5 DEF radsqliteRefreshResults
  <2>4. handle'[h].resSet # NoSet
    <3>1. NewSet \in 0 .. MaxResults /\ handle \in Handles /\ NewSet # NoSet
      BY <2>1 DEF DbInv, DbTypeInv, ResultId, NoSet
    <3>2. handle'[h].resSet = NewSet
      BY <2>1, <3>1, PointsTo
    <3> QED BY <3>1, <3>2
  <2> QED BY <2>2, <2>3, <2>4 DEF DbInv, CallInv
<1>6. CASE RefreshesResults(h, s)
  <2>1. UNCHANGED call
    BY <1>6 DEF RefreshesResults
  <2>2. CASE handle' = [handle EXCEPT ![h].resSet = NoSet] /\ kept' = kept \ {s}
             /\ UNCHANGED results
    <3>1. Released(h, s)
      BY <1>2, <2>2 DEF Released
    <3>2. DbTypeInv' /\ SetsInv'
      BY <1>2, <1>3, <2>2, <3>1, ReleasedInv, ZenonT(60)
    <3> QED BY <1>2, <2>1, <3>2 DEF DbInv, CallInv
  <2>3. CASE /\ NewSet \in ResultId
             /\ results' = SetAllocated(h, results[s].query, Answer(results[s].query))
             /\ Points(h, NewSet)
             /\ kept' \subseteq (kept \ {s}) \cup {NewSet}
    <3>1. DbTypeInv' /\ SetsInv'
      BY <2>3, <1>4
    <3> QED BY <1>2, <2>1, <3>1 DEF DbInv, CallInv
  <2>4. \/ handle' = [handle EXCEPT ![h].resSet = NoSet] /\ kept' = kept \ {s}
           /\ UNCHANGED results
        \/ /\ NewSet \in ResultId
           /\ results' = SetAllocated(h, results[s].query, Answer(results[s].query))
           /\ Points(h, NewSet)
           /\ kept' \subseteq (kept \ {s}) \cup {NewSet}
    BY <1>6 DEF RefreshesResults, Points
  <2> QED BY <2>2, <2>3, <2>4
<1> QED BY <1>1, <1>5, <1>6

(* The direct queries of SQLite use no result set, and forget the last. *)
LEMMA DirectInv ==
  ASSUME DbInv, NEW h \in Connection,
         \/ radsqlitedirectQuery(h) \/ radsqlitedirectGetRow(h)
         \/ radsqlitedirectReleaseResults(h)
  PROVE  DbInv'
<1>1. call = NoCall /\ UNCHANGED <<results, kept, freed>>
  BY DEF radsqlitedirectQuery, radsqlitedirectGetRow, radsqlitedirectReleaseResults, UsesAlone,
         Uses, Running
<1>2. CASE radsqlitedirectGetRow(h) \/ radsqlitedirectReleaseResults(h)
  <2>1. \E s \in {"none", "ready", "row", "done"} : handle' = [handle EXCEPT ![h].statement = s]
    BY <1>2 DEF radsqlitedirectGetRow, radsqlitedirectReleaseResults
  <2>2. UNCHANGED call
    BY <1>2 DEF radsqlitedirectGetRow, radsqlitedirectReleaseResults
  <2>3. DbTypeInv' /\ SetsInv'
    BY <1>1, <2>1, StatementInv
  <2> QED BY <1>1, <2>2, <2>3 DEF DbInv, CallInv
<1>3. CASE radsqlitedirectQuery(h)
  <2> DEFINE Record == [open : BOOLEAN, resSet : 0 .. MaxResults,
                        statement : {"none", "ready", "row", "done"}]
             forgotten == [handle[h] EXCEPT !.resSet = NoSet]
             new == [forgotten EXCEPT !.statement = "none"]
  <2>1. handle \in [Connection -> Record]
    BY DEF DbInv, DbTypeInv, Handles
  <2>2. new \in Record /\ new.resSet = NoSet
    <3>1. forgotten \in Record /\ forgotten.resSet = NoSet
      BY <2>1 DEF NoSet
    <3> HIDE DEF forgotten
    <3> QED BY <3>1
  <2>3. handle' = [handle EXCEPT ![h] = new]
    <3>1. handle' = [handle EXCEPT ![h].resSet = NoSet, ![h].statement = "none"]
      BY <1>3 DEF radsqlitedirectQuery
    <3>2. handle[h] \in Record /\ DOMAIN handle = Connection
      BY <2>1
    <3> QED BY <3>1, <3>2
  <2>4. /\ handle' \in [Connection -> Record] /\ handle'[h] = new
        /\ \A g \in Connection \ {h} : handle'[g] = handle[g]
    <3> HIDE DEF Record, new
    <3> QED BY <2>1, <2>2, <2>3
  <2>5. \A g \in Connection : handle'[g].resSet \in {NoSet, handle[g].resSet}
    BY <2>2, <2>4
  <2>6. handle' \in Handles
    BY <2>4 DEF Handles
  <2>7. DbTypeInv' /\ SetsInv'
    BY <1>1, <2>5, <2>6, Forgets, ZenonT(60)
  <2>8. {"of", "set"} \subseteq DOMAIN call' /\ call'.of = h /\ call'.set = FALSE
    BY <1>3 DEF radsqlitedirectQuery
  <2> QED BY <2>7, <2>8 DEF DbInv, CallInv
<1> QED BY <1>2, <1>3

(* The steps of a call to SQLite: only the last of them, and a failing one *)
(* before it, change what is allocated, kept or released.                  *)
LEMMA SqliteStepInv == ASSUME DbInv, SqliteStep PROVE DbInv'
<1> DEFINE h == call.of
           s == handle[call.of].resSet
<1>1. call # NoCall
  <2>1. \/ call.phase \in {"prepare", "step", "rows"}
    BY DEF SqliteStep, Prepared, PrepareError, PrepareBusy, Preparing, StepChange, StepFirst,
           StepRow, StepFails, StepDone
  <2> QED BY <2>1 DEF NoCall
<1>2. /\ {"of", "set"} \subseteq DOMAIN call /\ h \in Connection /\ call.set \in BOOLEAN
      /\ call.set => s # NoSet
  BY <1>1 DEF DbInv, CallInv
<1>3. call.set => s \in 1 .. Len(results) /\ results[s].of = h /\ freed[s] = 0
  <2> SUFFICES ASSUME call.set PROVE s \in 1 .. Len(results) /\ results[s].of = h /\ freed[s] = 0
    OBVIOUS
  <2>1. h \in Connection /\ s # NoSet /\ s = handle[h].resSet
    BY <1>2
  <2> HIDE DEF h, s
  <2> QED BY <2>1, SetInUse
<1>4. ASSUME UNCHANGED <<handle, results, kept, freed>> PROVE DbTypeInv' /\ SetsInv'
  BY <1>4 DEF DbInv, DbTypeInv, SetsInv
<1>5. ASSUME UNCHANGED <<handle, results, kept, freed>>, {"of", "set"} \subseteq DOMAIN call',
             call'.of = h, call'.set = call.set
      PROVE  DbInv'
  BY <1>2, <1>4, <1>5 DEF DbInv, CallInv
<1>6. ASSUME call.set, Released(h, s), UNCHANGED results PROVE DbTypeInv' /\ SetsInv'
  <2> HIDE DEF h, s
  <2> QED BY <1>2, <1>3, <1>6, ReleasedInv, ZenonT(60)
<1>7. CASE Prepared
  <2>1. UNCHANGED <<results, kept, freed>>
    BY <1>7 DEF Prepared
  <2>2. CASE handle' = [handle EXCEPT ![call.of].statement = "ready"] /\ call' = NoCall
    <3>1. DbTypeInv' /\ SetsInv'
      BY <1>2, <2>1, <2>2, StatementInv
    <3> QED BY <2>2, <3>1 DEF DbInv, CallInv
  <2>3. CASE call' = [call EXCEPT !.phase = "step", !.tries = 0, !.locks = MaxLocks]
             /\ UNCHANGED handle
    <3>1. {"of", "set"} \subseteq DOMAIN call' /\ call'.of = h /\ call'.set = call.set
      BY <1>2, <2>3
    <3> QED BY <1>5, <2>1, <2>3, <3>1
  <2> QED BY <1>7, <2>2, <2>3 DEF Prepared, Return
<1>8. CASE PrepareError
  <2>1. handle' = [handle EXCEPT ![h].resSet = NoSet] /\ UNCHANGED <<results, kept, freed>>
        /\ call' = NoCall
    BY <1>8 DEF PrepareError, Return
  <2>2. NoSet \in 0 .. MaxResults /\ handle \in Handles
    BY DEF DbInv, DbTypeInv, NoSet
  <2> HIDE DEF h
  <2>3. /\ handle' \in Handles /\ handle'[h].resSet = NoSet
        /\ \A g \in Connection \ {h} : handle'[g].resSet = handle[g].resSet
    <3>1. Points(h, NoSet)
      BY <1>2, <2>1, <2>2 DEF Points
    <3> QED BY <1>2, <2>2, <3>1, PointsTo
  <2>4. \A g \in Connection : handle'[g].resSet \in {NoSet, handle[g].resSet}
    BY <2>3
  <2>5. DbTypeInv' /\ SetsInv'
    BY <2>1, <2>3, <2>4, Forgets
  <2> QED BY <2>1, <2>5 DEF DbInv, CallInv
<1>9. CASE PrepareBusy
  <2>1. UNCHANGED results
    BY <1>9 DEF PrepareBusy
  <2>2. CASE call' = [call EXCEPT !.tries = @ + 1] /\ UNCHANGED <<handle, freed, kept>>
    <3>1. {"of", "set"} \subseteq DOMAIN call' /\ call'.of = h /\ call'.set = call.set
      BY <1>2, <2>2
    <3> QED BY <1>5, <2>1, <2>2, <3>1
  <2>3. CASE call' = NoCall /\ ((call.set /\ Released(h, s)) \/ UNCHANGED <<handle, freed, kept>>)
    <3>1. DbTypeInv' /\ SetsInv'
      BY <1>4, <1>6, <2>1, <2>3
    <3> QED BY <2>3, <3>1 DEF DbInv, CallInv
  <2> QED BY <1>9, <2>2, <2>3 DEF PrepareBusy, Return
<1>10. CASE StepChange
  <2>1. UNCHANGED <<handle, results, kept, freed>> /\ call' = NoCall
    BY <1>10 DEF StepChange, Return
  <2> QED BY <1>4, <2>1 DEF DbInv, CallInv
<1>11. CASE StepFirst
  <2>1. UNCHANGED <<handle, results, kept, freed>>
        /\ call' = [call EXCEPT !.phase = "rows", !.locks = 0, !.rows = Answer(call.query)]
    BY <1>11 DEF StepFirst
  <2>2. {"of", "set"} \subseteq DOMAIN call' /\ call'.of = h /\ call'.set = call.set
    BY <1>2, <2>1
  <2> QED BY <1>5, <2>1, <2>2
<1>12. CASE StepRow
  <2>1. UNCHANGED <<handle, kept, freed>> /\ call' = [call EXCEPT !.rows = Tail(call.rows)]
    BY <1>12 DEF StepRow
  <2>2. {"of", "set"} \subseteq DOMAIN call' /\ call'.of = h /\ call'.set = call.set
    BY <1>2, <2>1
  <2>3. CASE call.set
    <3>1. results' = [results EXCEPT ![s].rows = Append(@, Head(call.rows))]
      BY <1>12, <2>3 DEF StepRow
    <3>2. DbTypeInv' /\ SetsInv'
      <4> HIDE DEF s
      <4> QED BY <1>3, <2>1, <2>3, <3>1, AddsRow
    <3> QED BY <1>2, <2>1, <2>2, <3>2 DEF DbInv, CallInv
  <2>4. CASE ~ call.set
    <3>1. UNCHANGED results
      BY <1>12, <2>4 DEF StepRow
    <3> QED BY <1>5, <2>1, <2>2, <3>1
  <2> QED BY <2>3, <2>4
<1>13. CASE StepFails
  <2>1. call' = NoCall /\ UNCHANGED results
        /\ ((call.set /\ Released(h, s)) \/ UNCHANGED <<handle, freed, kept>>)
    BY <1>13 DEF StepFails, Return
  <2>2. DbTypeInv' /\ SetsInv'
    BY <1>4, <1>6, <2>1
  <2> QED BY <2>1, <2>2 DEF DbInv, CallInv
<1>14. CASE StepDone
  <2>1. /\ call' = NoCall /\ UNCHANGED results
        /\ \/ call.set /\ Released(h, s)
           \/ UNCHANGED <<handle, freed, kept>>
           \/ call.set /\ kept' = kept \cup {s} /\ UNCHANGED <<handle, freed>>
    BY <1>14 DEF StepDone, Return
  <2>2. ASSUME call.set, kept' = kept \cup {s}, UNCHANGED <<handle, results, freed>>
        PROVE  DbTypeInv' /\ SetsInv'
    <3> HIDE DEF s
    <3> QED BY <1>3, <2>2 DEF DbInv, DbTypeInv, SetsInv
  <2>3. DbTypeInv' /\ SetsInv'
    BY <1>4, <1>6, <2>1, <2>2
  <2> QED BY <2>1, <2>3 DEF DbInv, CallInv
<1> QED BY <1>7, <1>8, <1>9, <1>10, <1>11, <1>12, <1>13, <1>14 DEF SqliteStep

(* Locks of other programs touch no result set. *)
LEMMA TransactionInv == ASSUME DbInv, Lock \/ Unlock PROVE DbInv'
<1>1. UNCHANGED <<handle, results, kept, freed>>
  BY DEF Lock, Unlock
<1>2. DbTypeInv' /\ SetsInv'
  BY <1>1 DEF DbInv, DbTypeInv, SetsInv
<1>3. \/ call' = call
      \/ call # NoCall /\ \E n : call' = [call EXCEPT !.locks = n]
  <2>1. CASE Lock
    <3>1. call.phase \in {"prepare", "step"} /\ \E n : call' = [call EXCEPT !.locks = n]
      BY <2>1 DEF Lock
    <3>2. NoCall.phase = "none"
      BY DEF NoCall
    <3> QED BY <3>1, <3>2
  <2>2. CASE Unlock
    <3>1. call' = call
      BY <2>2 DEF Unlock
    <3> QED BY <3>1
  <2> QED BY <2>1, <2>2
<1>4. CallInv'
  <2>1. CASE call' = call
    BY <1>1, <2>1 DEF DbInv, CallInv
  <2>2. CASE call # NoCall /\ \E n : call' = [call EXCEPT !.locks = n]
    <3>1. {"of", "set"} \subseteq DOMAIN call /\ call.of \in Connection /\ call.set \in BOOLEAN
          /\ (call.set => handle[call.of].resSet # NoSet)
      BY <2>2 DEF DbInv, CallInv
    <3>2. {"of", "set"} \subseteq DOMAIN call' /\ call'.of = call.of /\ call'.set = call.set
      BY <2>2, <3>1
    <3> QED BY <1>1, <3>1, <3>2 DEF CallInv
  <2> QED BY <1>3, <2>1, <2>2
<1> QED BY <1>2, <1>4 DEF DbInv

(* Every call of a program keeps the invariant. *)
LEMMA DatabaseCallInv == ASSUME DbInv, NEW h \in Connection, DatabaseCall(h) PROVE DbInv'
<1>1. \/ OpensDatabase(h) \/ ClosesDatabase(h)
      \/ QueryCall(h)
      \/ \E s \in kept : ReleasesResults(h, s)
      \/ \E s \in kept : radsqliteRefreshResults(h, s) \/ RefreshesResults(h, s)
      \/ radsqlitedirectQuery(h) \/ radsqlitedirectGetRow(h) \/ radsqlitedirectReleaseResults(h)
      \/ raddatabaseGetResults(h) \/ PgTableDescriptionGet(h) \/ MyTableDescriptionGet(h)
  <2>1. CASE SqliteCall(h)
    BY <2>1 DEF SqliteCall, radsqliteOpen, radsqliteClose, radsqliteTableCreate,
       radsqliteTableDelete, radsqliteTableTruncate, radsqliteTableInsertRow,
       radsqliteTableModifyRows, radsqliteTableDeleteRows, radsqliteTableQueryRow, radsqliteQuery,
       radsqliteReleaseResults, QueryCall
  <2>2. CASE PgCall(h)
    BY <2>2 DEF PgCall, PgOpen, PgClose, PgTableCreate, PgTableDelete, PgTableTruncate,
       PgTableInsertRow, PgTableModifyRows, PgTableDeleteRows, PgTableQueryRow, PgSelectQuery,
       PgReleaseResults, PgRefreshResults, QueryCall
  <2>3. CASE MyCall(h)
    BY <2>3 DEF MyCall, MyOpen, MyClose, MyTableCreate, MyTableDelete, MyTableTruncate,
       MyTableInsertRow, MyTableModifyRows, MyTableDeleteRows, MyTableQueryRow, MySelectQuery,
       MyReleaseResults, MyRefreshResults, QueryCall
  <2> QED BY <2>1, <2>2, <2>3 DEF DatabaseCall
<1> QED BY <1>1, ConnectionInv, QueryCallInv, SetCallInv, RefreshInv, DirectInv

(* Every step does. *)
LEMMA StepInv == ASSUME DbInv, [DbNext]_dbVars PROVE DbInv'
<1>1. CASE UNCHANGED dbVars
  BY <1>1 DEF dbVars, DbInv, DbTypeInv, SetsInv, CallInv
<1> QED BY <1>1, SqliteStepInv, DescriptionInv, DatabaseCallInv, TransactionInv DEF DbNext

(* A result set that the program was given lasts until the program         *)
(* releases it, refreshes it or closes its connection; none is released    *)
(* twice.                                                                  *)
THEOREM SetsAreKept == DbSpec => []ResultsKept
<1>1. DbInv => ResultsKept
  BY DEF DbInv, SetsInv, ResultsKept
<1>2. DbInv /\ [DbNext]_dbVars => DbInv'
  BY StepInv
<1> QED BY <1>1, <1>2, InitInv, PTL DEF DbSpec
=============================================================================
