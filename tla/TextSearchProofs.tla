-------------------------- MODULE TextSearchProofs --------------------------
(***************************************************************************)
(* Theorems about the text search tree (module TextSearch), for any texts  *)
(* and ordinals and any number of nodes.  An order under a node says what  *)
(* texts may be there without a recursion over the tree: every node has    *)
(* two bounds (B), and a height (H), and neighbours agree about them.      *)
(***************************************************************************)
EXTENDS TextSearch, FiniteSetTheorems, WellFoundedInduction, TLAPS

Place == {Top} \cup Allocated
Link == Allocated \cup {NoNode}
SearchNode == [red : BOOLEAN, link : [Dir -> Link], text : Nat, ordinal : Nat]
Nodes == [Place -> SearchNode]
Bounds == [Place -> [Dir -> Int]]
Heights == [Link -> Nat \ {0}]

Used(h) == {n \in Allocated : h[n].text # 0}
InTree(h) == {Top} \cup Used(h)

(* A text between two bounds; the bound -1 above is none. *)
Within(b, t) == b[0] < t /\ (t < b[1] \/ b[1] = -1)

(* A bound of what is on side d under a node, and a text there. *)
Edge(h, B, n, d, x) == IF x = d THEN B[n][x] ELSE h[n].text
InPart(h, B, n, d, t) ==
  Edge(h, B, n, d, 0) < t /\ (t < Edge(h, B, n, d, 1) \/ Edge(h, B, n, d, 1) = -1)

(* Texts in order under bounds B. *)
Rooted(h) == h[Top].text = 0 /\ h[Top].ordinal = 0 /\ h[Top].link[0] = NoNode
Distinct(h) == \A m, n \in Used(h) : h[m].text = h[n].text => m = n
Bounded(h, B) == B[Top][1] = -1 /\ \A n \in InTree(h) : Within(B[n], h[n].text)
Leads(h, B) ==
  \A n \in InTree(h), d \in Dir : h[n].link[d] # NoNode =>
    /\ h[n].link[d] \in Used(h)
    /\ \A x \in Dir : B[h[n].link[d]][x] = Edge(h, B, n, d, x)
Bare(h, B) ==
  \A n \in InTree(h), d \in Dir : h[n].link[d] = NoNode =>
    \A m \in Used(h) : ~ InPart(h, B, n, d, h[m].text)
Once(h) ==
  \A m, n \in InTree(h), c, d \in Dir :
    h[m].link[c] = h[n].link[d] /\ h[m].link[c] # NoNode => m = n /\ c = d
(* Empty places share no room, not even between two texts. *)
Covers(h, B, n, d, x) ==
  Edge(h, B, n, d, 0) <= x /\ (x < Edge(h, B, n, d, 1) \/ Edge(h, B, n, d, 1) = -1)
Disjoint(h, B) ==
  \A m, n \in InTree(h), c, d \in Dir, x \in Nat :
    /\ h[m].link[c] = NoNode /\ h[n].link[d] = NoNode
    /\ Covers(h, B, m, c, x) /\ Covers(h, B, n, d, x)
    => m = n /\ c = d
InOrder(h, B) ==
  /\ h \in Nodes /\ B \in Bounds
  /\ Rooted(h) /\ Distinct(h) /\ Bounded(h, B) /\ Leads(h, B) /\ Bare(h, B) /\ Once(h)
  /\ Disjoint(h, B)

(* After a rotation of r under side e of n. *)
Turned(h, h2, n, e, r, d) ==
  LET s == h[r].link[1 - d]
  IN  /\ \A m \in Place : h2[m].text = h[m].text /\ h2[m].ordinal = h[m].ordinal
      /\ \A m \in Place, x \in Dir :
           h2[m].link[x] = IF m = n /\ x = e THEN s
                           ELSE IF m = r /\ x = 1 - d THEN h[s].link[d]
                           ELSE IF m = s /\ x = d THEN r ELSE h[m].link[x]
Painted(h, h2, r, s) ==
  /\ h2[r].red /\ ~ h2[s].red
  /\ \A m \in Place : m \notin {r, s} => (h2[m].red <=> h[m].red)

(* The bounds after a rotation. *)
TurnedBounds(h, B, r, d) ==
  LET s == h[r].link[1 - d]
  IN  [m \in Place |-> IF m = s THEN B[r]
                       ELSE IF m = r THEN [x \in Dir |-> IF x = d THEN B[r][x] ELSE h[s].text]
                       ELSE B[m]]

-----------------------------------------------------------------------------
(* The places of nodes, and the two sides, as numbers. *)
LEMMA Places ==
  /\ Top \in Place /\ Top \notin Allocated /\ NoNode \notin Place /\ Allocated \subseteq Place
  /\ Place \subseteq Nat /\ Dir = {0, 1} /\ \A d \in Dir : 1 - d \in Dir /\ 1 - d # d
BY TextSearchAssumption DEF Place, Top, Allocated, NoNode, Dir

(* The types of the fields of a node. *)
LEMMA NodeFields ==
  ASSUME NEW h \in Nodes, NEW n \in Place
  PROVE  /\ h[n] \in SearchNode /\ h[n].red \in BOOLEAN /\ h[n].text \in Nat /\ h[n].ordinal \in Nat
         /\ h[n].link \in [Dir -> Link] /\ \A d \in Dir : h[n].link[d] \in Link
BY DEF Nodes, SearchNode

(* What a single rotation under side e of n makes of the nodes. *)
LEMMA HungIs ==
  ASSUME NEW h \in Nodes, NEW n \in Place, NEW e \in Dir, NEW r \in Allocated, NEW d \in Dir,
         h[r].link[1 - d] \in Place, n # r, h[r].link[1 - d] # n, h[r].link[1 - d] # r,
         NEW h2, h2 = Hung(h, n, e, rotateSingle(h, r, d))
  PROVE  /\ h2 \in Nodes /\ Turned(h, h2, n, e, r, d) /\ Painted(h, h2, r, h[r].link[1 - d])
         /\ \A m \in Place : m \notin {n, r, h[r].link[1 - d]} => h2[m] = h[m]
<1> DEFINE s == h[r].link[1 - d]
           hr == [[h[r] EXCEPT !.link[1 - d] = h[s].link[d]] EXCEPT !.red = TRUE]
           hs == [[h[s] EXCEPT !.link[d] = r] EXCEPT !.red = FALSE]
           hn == [h[n] EXCEPT !.link[e] = s]
<1>1. 1 - d \in Dir /\ 1 - d # d
  BY Places
<1>2. h2 = [m \in Place |-> IF m = n THEN hn ELSE IF m = s THEN hs ELSE IF m = r THEN hr ELSE h[m]]
  BY Places DEF Hung, rotateSingle, Nodes
<1>3. s \in Link /\ r \in Link /\ r \in Place
  BY <1>1, NodeFields, Places DEF Place, Link
<1>4. hr \in SearchNode /\ hs \in SearchNode /\ hn \in SearchNode
  <2>1. h[s].link[d] \in Link
    BY NodeFields
  <2> QED BY <1>1, <1>3, <2>1, NodeFields, ZenonT(60) DEF SearchNode
<1>5. h2 \in Nodes
  BY <1>2, <1>4 DEF Nodes
<1>6. /\ h2[n] = hn /\ h2[s] = hs /\ h2[r] = hr
      /\ \A m \in Place : m \notin {n, r, s} => h2[m] = h[m]
  BY <1>2, <1>3
<1>7. /\ hn.red = h[n].red /\ hn.text = h[n].text /\ hn.ordinal = h[n].ordinal
      /\ hr.red = TRUE /\ hr.text = h[r].text /\ hr.ordinal = h[r].ordinal
      /\ hs.red = FALSE /\ hs.text = h[s].text /\ hs.ordinal = h[s].ordinal
      /\ \A x \in Dir : /\ hn.link[x] = IF x = e THEN s ELSE h[n].link[x]
                        /\ hr.link[x] = IF x = 1 - d THEN h[s].link[d] ELSE h[r].link[x]
                        /\ hs.link[x] = IF x = d THEN r ELSE h[s].link[x]
  BY <1>1, <1>3, NodeFields DEF SearchNode
<1>8. h[n].red \in BOOLEAN /\ h[r].red \in BOOLEAN
  BY <1>3, NodeFields
<1>9. Turned(h, h2, n, e, r, d)
  <2> HIDE DEF hr, hs, hn
  <2>1. \A m \in Place : h2[m].text = h[m].text /\ h2[m].ordinal = h[m].ordinal
    BY <1>6, <1>7
  <2>2. ASSUME NEW m \in Place, NEW x \in Dir
        PROVE  h2[m].link[x] = IF m = n /\ x = e THEN s
                               ELSE IF m = r /\ x = 1 - d THEN h[s].link[d]
                               ELSE IF m = s /\ x = d THEN r ELSE h[m].link[x]
    <3>1. CASE m = n
      BY <3>1, <1>6, <1>7
    <3>2. CASE m = r
      BY <3>2, <1>6, <1>7
    <3>3. CASE m = s
      BY <3>3, <1>6, <1>7
    <3>4. CASE m \notin {n, r, s}
      BY <3>4, <1>6
    <3> QED BY <3>1, <3>2, <3>3, <3>4
  <2> QED BY <2>1, <2>2 DEF Turned
<1>10. Painted(h, h2, r, s)
  <2> HIDE DEF hr, hs, hn
  <2> QED BY <1>6, <1>7, <1>8 DEF Painted
<1> QED BY <1>5, <1>6, <1>9, <1>10

(* A double rotation is two single ones, the lower one first. *)
LEMMA DoubleIs ==
  ASSUME NEW h, NEW n, NEW e, NEW r, NEW d
  PROVE  Hung(h, n, e, rotateDouble(h, r, d))
           = LET h1 == Hung(h, r, 1 - d, rotateSingle(h, h[r].link[1 - d], 1 - d))
             IN  Hung(h1, n, e, rotateSingle(h1, r, d))
BY DEF Hung, rotateDouble

(* c is linked on side d of n. *)
Under(h, n, d, c) == n \in InTree(h) /\ d \in Dir /\ h[n].link[d] = c /\ c # NoNode

(* Numbers for the two sides. *)
LEMMA Sides ==
  ASSUME NEW h, NEW B, NEW n, NEW t
  PROVE  /\ InPart(h, B, n, 0, t) <=> B[n][0] < t /\ (t < h[n].text \/ h[n].text = -1)
         /\ InPart(h, B, n, 1, t) <=> h[n].text < t /\ (t < B[n][1] \/ B[n][1] = -1)
         /\ Edge(h, B, n, 0, 0) = B[n][0] /\ Edge(h, B, n, 0, 1) = h[n].text
         /\ Edge(h, B, n, 1, 1) = B[n][1] /\ Edge(h, B, n, 1, 0) = h[n].text
BY DEF InPart, Edge

(* What is between the bounds of a node is at it or on one of its sides. *)
LEMMA PartsOf ==
  ASSUME NEW h, NEW B, InOrder(h, B), NEW n \in InTree(h), NEW t \in Nat
  PROVE  /\ \A d \in Dir : InPart(h, B, n, d, t) => Within(B[n], t) /\ t # h[n].text
         /\ Within(B[n], t) /\ t # h[n].text => InPart(h, B, n, DirOf(t > h[n].text), t)
         /\ \A d \in Dir : InPart(h, B, n, d, t) => d = DirOf(t > h[n].text)
<1>1. n \in Place /\ h[n].text \in Nat /\ B[n][0] \in Int /\ B[n][1] \in Int
  <2>1. n \in Place /\ 0 \in Dir /\ 1 \in Dir
    BY Places DEF InTree, Used
  <2>2. h \in Nodes /\ B \in Bounds
    BY DEF InOrder
  <2> QED BY <2>1, <2>2, NodeFields DEF Bounds
<1>2. Within(B[n], h[n].text)
  BY DEF InOrder, Bounded
<1>3. \A d \in Dir : d = 0 \/ d = 1
  BY Places
<1>4. /\ InPart(h, B, n, 0, t) => Within(B[n], t) /\ t < h[n].text
      /\ InPart(h, B, n, 1, t) => Within(B[n], t) /\ t > h[n].text
      /\ Within(B[n], t) /\ t < h[n].text => InPart(h, B, n, 0, t)
      /\ Within(B[n], t) /\ t > h[n].text => InPart(h, B, n, 1, t)
  BY <1>1, <1>2, Sides DEF Within
<1>5. (t > h[n].text => DirOf(t > h[n].text) = 1) /\ (t < h[n].text => DirOf(t > h[n].text) = 0)
  BY <1>1 DEF DirOf
<1> QED BY <1>1, <1>3, <1>4, <1>5

(* The bounds of a node linked are those of that side. *)
LEMMA BelowIs ==
  ASSUME NEW h, NEW B, InOrder(h, B), NEW n \in InTree(h), NEW d \in Dir, h[n].link[d] # NoNode
  PROVE  /\ h[n].link[d] \in Used(h) /\ h[n].link[d] \in Place /\ h[n].link[d] # n
         /\ \A t : Within(B[h[n].link[d]], t) <=> InPart(h, B, n, d, t)
         /\ d = 0 => h[h[n].link[d]].text < h[n].text /\ B[h[n].link[d]][1] = h[n].text
                     /\ B[h[n].link[d]][0] = B[n][0]
         /\ d = 1 => h[h[n].link[d]].text > h[n].text /\ B[h[n].link[d]][0] = h[n].text
                     /\ B[h[n].link[d]][1] = B[n][1]
<1> DEFINE c == h[n].link[d]
<1>1. c \in Used(h) /\ \A x \in Dir : B[c][x] = Edge(h, B, n, d, x)
  BY DEF InOrder, Leads
<1>2. n \in Place /\ c \in Place /\ c \in InTree(h) /\ h[n].text \in Nat /\ h[c].text \in Nat
  BY <1>1, NodeFields, Places DEF InOrder, InTree, Used
<1>3. Within(B[c], h[c].text) /\ B[n][0] \in Int /\ B[n][1] \in Int
  BY <1>2 DEF InOrder, Bounded, Bounds, Dir
<1>4. d = 0 \/ d = 1
  BY Places
<1>5. B[c][0] = Edge(h, B, n, d, 0) /\ B[c][1] = Edge(h, B, n, d, 1)
  BY <1>1, Places
<1>6. \A t : Within(B[c], t) <=> InPart(h, B, n, d, t)
  BY <1>5 DEF Within, InPart
<1>7. h[n].text # -1
  BY <1>2
<1>8. ASSUME d = 0
      PROVE  h[c].text < h[n].text /\ B[c][1] = h[n].text /\ B[c][0] = B[n][0]
  <2>1. B[c][1] = h[n].text /\ B[c][0] = B[n][0]
    BY <1>5, <1>8 DEF Edge
  <2> QED BY <1>2, <1>3, <1>7, <2>1 DEF Within
<1>9. ASSUME d = 1
      PROVE  h[c].text > h[n].text /\ B[c][0] = h[n].text /\ B[c][1] = B[n][1]
  <2>1. B[c][0] = h[n].text /\ B[c][1] = B[n][1]
    BY <1>5, <1>9 DEF Edge
  <2> QED BY <1>2, <1>3, <2>1 DEF Within
<1>10. c # n
  BY <1>2, <1>4, <1>8, <1>9
<1> QED BY <1>1, <1>2, <1>6, <1>8, <1>9, <1>10

(* A rotation keeps the order, and the bounds of a node other than the one *)
(* that goes down only widen.                                              *)
LEMMA TurnKeepsOrder ==
  ASSUME NEW h, NEW B, InOrder(h, B), NEW n, NEW e, NEW r, Under(h, n, e, r),
         NEW d \in Dir, NEW s, Under(h, r, 1 - d, s), NEW h2 \in Nodes, Turned(h, h2, n, e, r, d)
  PROVE  /\ InOrder(h2, TurnedBounds(h, B, r, d)) /\ Used(h2) = Used(h)
         /\ \A m \in Place \ {r}, t \in Nat : Within(B[m], t) => Within(TurnedBounds(h, B, r, d)[m], t)
         /\ r \in Used(h) /\ s \in Used(h) /\ r # n /\ s # n /\ s # r
<1> USE DEF Under
<1> DEFINE B2 == TurnedBounds(h, B, r, d)
           c == h[s].link[d]
<1>0. 1 - d \in Dir /\ 1 - d # d
  BY Places
<1>1. r \in Used(h) /\ s \in Used(h) /\ r # n /\ s # r
  <2>1. r \in Used(h) /\ r # n
    BY BelowIs
  <2>2. r \in InTree(h)
    BY <2>1 DEF InTree
  <2>3. s \in Used(h) /\ s # r
    BY <1>0, <2>2, BelowIs
  <2> QED BY <2>1, <2>3
<1>2. /\ r \in InTree(h) /\ s \in InTree(h) /\ n \in Place /\ r \in Place /\ s \in Place /\ h \in Nodes
      /\ h[r].text \in Nat /\ h[s].text \in Nat /\ h[n].text \in Nat
      /\ r # Top /\ s # Top /\ r # NoNode /\ s # NoNode
  BY <1>1, NodeFields, Places DEF InOrder, InTree, Used
<1>3. d = 0 \/ d = 1
  BY Places
<1>4. \A m \in Place : B[m][0] \in Int /\ B[m][1] \in Int
  BY DEF InOrder, Bounds, Dir
<1>5. s # n
  <2>1. /\ e = 0 => h[r].text < h[n].text /\ B[r][1] = h[n].text /\ B[r][0] = B[n][0]
        /\ e = 1 => h[r].text > h[n].text /\ B[r][0] = h[n].text /\ B[r][1] = B[n][1]
    BY BelowIs
  <2>2. /\ 1 - d = 0 => h[s].text < h[r].text /\ B[s][1] = h[r].text /\ B[s][0] = B[r][0]
        /\ 1 - d = 1 => h[s].text > h[r].text /\ B[s][0] = h[r].text /\ B[s][1] = B[r][1]
    BY <1>0, <1>2, BelowIs
  <2>3. (e = 0 \/ e = 1) /\ (1 - d = 0 \/ 1 - d = 1)
    BY <1>0, Places
  <2>4. Within(B[r], h[r].text)
    BY <1>2 DEF InOrder, Bounded
  <2> SUFFICES ASSUME s = n PROVE FALSE
    OBVIOUS
  <2> QED BY <1>2, <1>4, <2>1, <2>2, <2>3, <2>4 DEF Within
<1>6. \A m \in Place : h2[m].text = h[m].text /\ h2[m].ordinal = h[m].ordinal
  BY DEF Turned
<1>7. Used(h2) = Used(h) /\ InTree(h2) = InTree(h)
  BY <1>6, Places DEF Used, InTree
<1>8. /\ B2 \in Bounds
      /\ B2[s] = B[r] /\ B2[r][d] = B[r][d] /\ B2[r][1 - d] = h[s].text
      /\ \A m \in Place \ {r, s} : B2[m] = B[m]
  BY <1>0, <1>1, <1>2, <1>4 DEF TurnedBounds, Bounds, InOrder, Dir
(* The order of r, s, c, and their bounds. *)
<1>9. /\ d = 0 => h[r].text < h[s].text /\ B[s][0] = h[r].text /\ B[s][1] = B[r][1]
      /\ d = 1 => h[s].text < h[r].text /\ B[s][1] = h[r].text /\ B[s][0] = B[r][0]
  <2>1. /\ 1 - d = 0 => h[s].text < h[r].text /\ B[s][1] = h[r].text /\ B[s][0] = B[r][0]
        /\ 1 - d = 1 => h[s].text > h[r].text /\ B[s][0] = h[r].text /\ B[s][1] = B[r][1]
    BY <1>0, <1>2, BelowIs
  <2> QED BY <1>2, <2>1
<1>10. Within(B[r], h[r].text) /\ Within(B[s], h[s].text) /\ Within(B[n], h[n].text)
  BY <1>2 DEF InOrder, Bounded
(* The slots: a node's side, and what it becomes. *)
<1>11. /\ \A x \in Dir : Edge(h2, B2, r, 1 - d, x) = Edge(h, B, s, d, x)
       /\ \A x \in Dir : Edge(h2, B2, s, d, x) = B2[r][x]
       /\ \A x \in Dir : Edge(h2, B2, s, 1 - d, x) = Edge(h, B, s, 1 - d, x)
       /\ \A x \in Dir : Edge(h2, B2, r, d, x) = Edge(h, B, r, d, x)
       /\ \A m \in Place \ {r, s}, y, x \in Dir : Edge(h2, B2, m, y, x) = Edge(h, B, m, y, x)
  <2>1. h2[r].text = h[r].text /\ h2[s].text = h[s].text /\ \A m \in Place : h2[m].text = h[m].text
    BY <1>2, <1>6
  <2>2. \A x \in Dir : x = d \/ x = 1 - d
    BY <1>3, Places
  <2>3. B[s][d] = h[r].text /\ B[s][1 - d] = B[r][1 - d]
    BY <1>3, <1>9
  <2> QED BY <1>0, <1>1, <1>8, <2>1, <2>2, <2>3 DEF Edge
<1>12. /\ h2[n].link[e] = s /\ h2[s].link[d] = r /\ h2[r].link[1 - d] = c
       /\ \A m \in Place, y \in Dir : (m = n /\ y = e) \/ (m = s /\ y = d) \/ (m = r /\ y = 1 - d)
            \/ h2[m].link[y] = h[m].link[y]
  BY <1>0, <1>1, <1>2, <1>5, Places DEF Turned
(* The side a side of a node comes from. *)
<1> DEFINE From(m, y, m1, y1) ==
             /\ h2[m].link[y] = h[m1].link[y1] /\ m1 \in InTree(h) /\ y1 \in Dir
             /\ (m1 # n \/ y1 # e) /\ (m1 # r \/ y1 # 1 - d)
             /\ \A x \in Dir : Edge(h2, B2, m, y, x) = Edge(h, B, m1, y1, x)
             /\ \/ m = r /\ y = 1 - d /\ m1 = s /\ y1 = d
                \/ (m # r \/ y # 1 - d) /\ (m # s \/ y # d) /\ m1 = m /\ y1 = y
<1>13. ASSUME NEW m \in InTree(h), NEW y \in Dir, m # n \/ y # e, m # s \/ y # d
       PROVE  \E m1, y1 : From(m, y, m1, y1)
  <2>1. m \in Place
    BY Places DEF InTree, Used
  <2>2. CASE m = r /\ y = 1 - d
    <3>1. h2[m].link[y] = h[s].link[d] /\ \A x \in Dir : Edge(h2, B2, m, y, x) = Edge(h, B, s, d, x)
      BY <2>2, <1>11, <1>12
    <3>2. From(m, y, s, d)
      BY <3>1, <2>2, <1>1, <1>2, <1>5
    <3> QED BY <3>2
  <2>3. CASE m # r \/ y # 1 - d
    <3>1. h2[m].link[y] = h[m].link[y]
      BY <2>1, <2>3, <1>13, <1>12
    <3>2. y = d \/ y = 1 - d
      BY <1>3, Places
    <3>3. \A x \in Dir : Edge(h2, B2, m, y, x) = Edge(h, B, m, y, x)
      <4>1. CASE m = r
        BY <4>1, <2>3, <3>2, <1>11
      <4>2. CASE m = s
        BY <4>2, <1>13, <3>2, <1>11
      <4>3. CASE m \notin {r, s}
        BY <4>3, <2>1, <1>11
      <4> QED BY <4>1, <4>2, <4>3
    <3>4. From(m, y, m, y)
      BY <3>1, <3>3, <2>3, <1>13
    <3> QED BY <3>4
  <2> QED BY <2>2, <2>3
<1>14. ASSUME NEW m1 \in InTree(h), NEW y1 \in Dir, h[m1].link[y1] # NoNode,
              m1 # n \/ y1 # e, m1 # r \/ y1 # 1 - d
       PROVE  h[m1].link[y1] \in Used(h) /\ h[m1].link[y1] \notin {r, s}
              /\ \A x \in Dir : B2[h[m1].link[y1]][x] = Edge(h, B, m1, y1, x)
  <2>1. h[m1].link[y1] \in Used(h) /\ \A x \in Dir : B[h[m1].link[y1]][x] = Edge(h, B, m1, y1, x)
    BY <1>14 DEF InOrder, Leads
  <2>2. h[m1].link[y1] # r
    BY <1>14 DEF InOrder, Once
  <2>3. h[m1].link[y1] # s
    BY <1>14, <1>0, <1>2 DEF InOrder, Once
  <2>4. h[m1].link[y1] \in Place
    BY <2>1, Places DEF Used
  <2> QED BY <2>1, <2>2, <2>3, <2>4, <1>8
<1> HIDE DEF B2
<1>15. Leads(h2, B2)
  <2> SUFFICES ASSUME NEW m \in InTree(h), NEW y \in Dir, h2[m].link[y] # NoNode
               PROVE  h2[m].link[y] \in Used(h)
                      /\ \A x \in Dir : B2[h2[m].link[y]][x] = Edge(h2, B2, m, y, x)
    BY <1>7 DEF Leads
  <2>1. CASE m = n /\ y = e
    <3>1. \A x \in Dir : B[r][x] = Edge(h, B, n, e, x)
      BY <1>2 DEF InOrder, Leads
    <3> QED BY <2>1, <3>1, <1>1, <1>2, <1>5, <1>8, <1>11, <1>12
  <2>2. CASE m = s /\ y = d
    BY <2>2, <1>1, <1>11, <1>12
  <2>3. CASE (m # n \/ y # e) /\ (m # s \/ y # d)
    <3>1. PICK m1, y1 : From(m, y, m1, y1)
      BY <2>3, <1>13, ZenonT(60)
    <3> QED BY <3>1, <1>14
  <2> QED BY <2>1, <2>2, <2>3
<1>16. Bare(h2, B2)
  <2> SUFFICES ASSUME NEW m \in InTree(h), NEW y \in Dir, h2[m].link[y] = NoNode, NEW u \in Used(h)
               PROVE  ~ InPart(h2, B2, m, y, h2[u].text)
    BY <1>7 DEF Bare
  <2>1. (m # n \/ y # e) /\ (m # s \/ y # d)
    BY <1>2, <1>12
  <2>2. PICK m1, y1 : From(m, y, m1, y1)
    BY <2>1, <1>13, ZenonT(60)
  <2>3. ~ InPart(h, B, m1, y1, h[u].text)
    BY <2>2 DEF InOrder, Bare
  <2>4. h2[u].text = h[u].text
    BY <1>6, Places DEF Used
  <2>5. 0 \in Dir /\ 1 \in Dir
    BY Places
  <2> QED BY <2>2, <2>3, <2>4, <2>5 DEF InPart
<1>a. ASSUME NEW m, NEW o, NEW y, NEW z, NEW m1, NEW y1,
             \/ m = r /\ y = 1 - d /\ m1 = s /\ y1 = d
             \/ (m # r \/ y # 1 - d) /\ (m # s \/ y # d) /\ m1 = m /\ y1 = y,
             \/ o = r /\ z = 1 - d /\ m1 = s /\ y1 = d
             \/ (o # r \/ z # 1 - d) /\ (o # s \/ z # d) /\ m1 = o /\ y1 = z
      PROVE  m = o /\ y = z
  <2>1. CASE m1 = s /\ y1 = d
    BY <1>a, <2>1
  <2>2. CASE ~ (m1 = s /\ y1 = d)
    BY <1>a, <2>2
  <2> QED BY <2>1, <2>2
<1>b. Disjoint(h2, B2)
  <2> SUFFICES ASSUME NEW m \in InTree(h), NEW o \in InTree(h), NEW y \in Dir, NEW z \in Dir, NEW x \in Nat,
                      h2[m].link[y] = NoNode, h2[o].link[z] = NoNode,
                      Covers(h2, B2, m, y, x), Covers(h2, B2, o, z, x)
               PROVE  m = o /\ y = z
    BY <1>7 DEF Disjoint
  <2>1. (m # n \/ y # e) /\ (m # s \/ y # d) /\ (o # n \/ z # e) /\ (o # s \/ z # d)
    BY <1>2, <1>12
  <2>2. PICK m1, y1 : From(m, y, m1, y1)
    BY <2>1, <1>13, ZenonT(60)
  <2>3. PICK o1, z1 : From(o, z, o1, z1)
    BY <2>1, <1>13, ZenonT(60)
  <2>4. 0 \in Dir /\ 1 \in Dir
    BY Places
  <2>5. Covers(h, B, m1, y1, x) /\ h[m1].link[y1] = NoNode /\ m1 \in InTree(h) /\ y1 \in Dir
    BY <2>2, <2>4 DEF Covers
  <2>6. Covers(h, B, o1, z1, x) /\ h[o1].link[z1] = NoNode /\ o1 \in InTree(h) /\ z1 \in Dir
    BY <2>3, <2>4 DEF Covers
  <2>7. m1 = o1 /\ y1 = z1
    <3>1. Disjoint(h, B)
      BY DEF InOrder
    <3> QED BY <2>5, <2>6, <3>1 DEF Disjoint
  <2>8. /\ \/ m = r /\ y = 1 - d /\ m1 = s /\ y1 = d
           \/ (m # r \/ y # 1 - d) /\ (m # s \/ y # d) /\ m1 = m /\ y1 = y
        /\ \/ o = r /\ z = 1 - d /\ m1 = s /\ y1 = d
           \/ (o # r \/ z # 1 - d) /\ (o # s \/ z # d) /\ m1 = o /\ y1 = z
    BY <2>2, <2>3, <2>7
  <2> QED BY <2>8, <1>a
<1>17. Once(h2)
  <2> SUFFICES ASSUME NEW m \in InTree(h), NEW o \in InTree(h), NEW y \in Dir, NEW z \in Dir,
                      h2[m].link[y] = h2[o].link[z], h2[m].link[y] # NoNode
               PROVE  m = o /\ y = z
    BY <1>7 DEF Once
  <2>1. ASSUME NEW a \in InTree(h), NEW b \in Dir, a # n \/ b # e, a # s \/ b # d, h2[a].link[b] # NoNode
        PROVE  \E a1 \in InTree(h), b1 \in Dir :
                 /\ h2[a].link[b] = h[a1].link[b1] /\ h2[a].link[b] \notin {r, s}
                 /\ \/ a = r /\ b = 1 - d /\ a1 = s /\ b1 = d
                    \/ (a # r \/ b # 1 - d) /\ (a # s \/ b # d) /\ a1 = a /\ b1 = b
    <3>1. PICK a1, b1 : From(a, b, a1, b1)
      BY <2>1, <1>13, ZenonT(60)
    <3>2. a1 \in InTree(h) /\ b1 \in Dir /\ h2[a].link[b] = h[a1].link[b1]
      BY <3>1
    <3>3. h2[a].link[b] \notin {r, s}
      BY <3>1, <3>2, <2>1, <1>14
    <3> QED BY <3>1, <3>2, <3>3
  <2>2. CASE ~ ((m # n \/ y # e) /\ (m # s \/ y # d) /\ (o # n \/ z # e) /\ (o # s \/ z # d))
    BY <2>1, <2>2, <1>1, <1>12
  <2>3. CASE (m # n \/ y # e) /\ (m # s \/ y # d) /\ (o # n \/ z # e) /\ (o # s \/ z # d)
    <3>1. PICK m1 \in InTree(h), y1 \in Dir :
                 /\ h2[m].link[y] = h[m1].link[y1]
                 /\ \/ m = r /\ y = 1 - d /\ m1 = s /\ y1 = d
                    \/ (m # r \/ y # 1 - d) /\ (m # s \/ y # d) /\ m1 = m /\ y1 = y
      BY <2>3, <2>1
    <3>2. PICK o1 \in InTree(h), z1 \in Dir :
                 /\ h2[o].link[z] = h[o1].link[z1]
                 /\ \/ o = r /\ z = 1 - d /\ o1 = s /\ z1 = d
                    \/ (o # r \/ z # 1 - d) /\ (o # s \/ z # d) /\ o1 = o /\ z1 = z
      BY <2>3, <2>1
    <3>3. m1 = o1 /\ y1 = z1
      <4>1. h[m1].link[y1] = h[o1].link[z1] /\ h[m1].link[y1] # NoNode
        BY <3>1, <3>2
      <4>2. Once(h)
        BY DEF InOrder
      <4> QED BY <4>1, <4>2 DEF Once
    <3> QED BY <3>1, <3>2, <3>3, <1>a
  <2> QED BY <2>2, <2>3
<1>18. Rooted(h2)
  <2>1. Top \in Place /\ 0 \in Dir /\ Top \in InTree(h)
    BY Places DEF InTree
  <2>2. h[Top].link[0] = NoNode
    BY DEF InOrder, Rooted
  <2>3. h2[Top].link[0] = h[Top].link[0]
    BY <1>2, <1>12, <2>1, <2>2
  <2> QED BY <1>6, <2>1, <2>3 DEF Rooted, InOrder
<1>19. Distinct(h2)
  <2>1. \A m \in Used(h) : h2[m].text = h[m].text
    BY <1>6, Places DEF Used
  <2> QED BY <1>7, <2>1 DEF InOrder, Distinct
<1>20. \A m \in Place \ {r}, t \in Nat : Within(B[m], t) => Within(B2[m], t)
  <2> SUFFICES ASSUME NEW m \in Place \ {r}, NEW t \in Nat, Within(B[m], t) PROVE Within(B2[m], t)
    OBVIOUS
  <2>1. CASE m = s
    BY <2>1, <1>2, <1>3, <1>4, <1>8, <1>9, <1>10 DEF Within
  <2> QED BY <2>1, <1>8
<1>21. Bounded(h2, B2)
  <2>0. B2[Top][1] = -1
    BY <1>2, <1>8, Places DEF InOrder, Bounded
  <2> SUFFICES ASSUME NEW m \in InTree(h) PROVE Within(B2[m], h2[m].text)
    BY <1>7, <2>0 DEF Bounded
  <2>1. m \in Place /\ h2[m].text = h[m].text /\ h[m].text \in Nat
    BY <1>2, <1>6, NodeFields, Places DEF InTree, Used
  <2>2. Within(B[m], h[m].text)
    BY DEF InOrder, Bounded
  <2>3. CASE m # r
    BY <2>1, <2>2, <2>3, <1>20
  <2>4. CASE m = r
    <3>1. (d = 0 => B2[r][0] = B[r][0] /\ B2[r][1] = h[s].text) /\ (d = 1 => B2[r][1] = B[r][1] /\ B2[r][0] = h[s].text)
      BY <1>8
    <3> QED BY <2>1, <2>4, <3>1, <1>2, <1>3, <1>9, <1>10, <1>4 DEF Within
  <2> QED BY <2>3, <2>4
<1>22. InOrder(h2, B2)
  BY <1>8, <1>15, <1>16, <1>b, <1>17, <1>18, <1>19, <1>21 DEF InOrder
<1> QED BY <1>1, <1>5, <1>7, <1>20, <1>22 DEF B2

-----------------------------------------------------------------------------
(* Heights and colours. *)
HeightAt(h, H, n) == \A d \in Dir : H[n] = H[h[n].link[d]] + (IF h[n].red THEN 0 ELSE 1)
OfHeight(h, H) == H \in Heights /\ H[NoNode] = 1 /\ \A n \in Used(h) : HeightAt(h, H, n)
Coloured(h) == \A n \in Used(h), d \in Dir : h[n].red => ~ nodeIsRed(h, h[n].link[d])
Clean(h) == ~ h[Top].red /\ \A n \in Allocated : h[n].text = 0 => h[n] = Free

(* The links after a rotation, and that r and s have one link each. *)
LEMMA TurnLinks ==
  ASSUME NEW h, NEW B, InOrder(h, B), NEW n, NEW e, NEW r, Under(h, n, e, r),
         NEW d \in Dir, NEW s, Under(h, r, 1 - d, s), NEW h2 \in Nodes, Turned(h, h2, n, e, r, d)
  PROVE  /\ r \in Used(h) /\ s \in Used(h) /\ r # n /\ s # n /\ s # r
         /\ h2[n].link[e] = s /\ h2[n].link[1 - e] = h[n].link[1 - e] /\ h[n].link[1 - e] \notin {r, s}
         /\ h2[r].link[1 - d] = h[s].link[d] /\ h2[r].link[d] = h[r].link[d]
         /\ h[s].link[d] \notin {r, s} /\ h[r].link[d] \notin {r, s}
         /\ h2[s].link[d] = r /\ h2[s].link[1 - d] = h[s].link[1 - d] /\ h[s].link[1 - d] \notin {r, s}
         /\ \A m \in InTree(h) \ {n, r, s}, x \in Dir : h2[m].link[x] = h[m].link[x] /\ h[m].link[x] \notin {r, s}
<1>1. r \in Used(h) /\ s \in Used(h) /\ r # n /\ s # n /\ s # r
  BY TurnKeepsOrder
<1> USE DEF Under
<1>2. /\ 1 - d \in Dir /\ 1 - d # d /\ 1 - e \in Dir /\ 1 - e # e
      /\ r \in InTree(h) /\ s \in InTree(h) /\ r \in Place /\ s \in Place /\ n \in Place
      /\ \A m \in InTree(h) : m \in Place
  BY <1>1, Places DEF InTree, Used
<1>3. \A m \in InTree(h), x \in Dir : (m # n \/ x # e) => h[m].link[x] # r
  <2>1. Once(h)
    BY DEF InOrder
  <2> QED BY <2>1 DEF Once
<1>4. \A m \in InTree(h), x \in Dir : (m # r \/ x # 1 - d) => h[m].link[x] # s
  <2>1. Once(h)
    BY DEF InOrder
  <2> QED BY <1>2, <2>1 DEF Once
<1>5. \A m \in Place, x \in Dir :
        h2[m].link[x] = IF m = n /\ x = e THEN s
                        ELSE IF m = r /\ x = 1 - d THEN h[s].link[d]
                        ELSE IF m = s /\ x = d THEN r ELSE h[m].link[x]
  BY DEF Turned
<1>6. /\ h2[n].link[e] = s /\ h2[n].link[1 - e] = h[n].link[1 - e]
      /\ h2[r].link[1 - d] = h[s].link[d] /\ h2[r].link[d] = h[r].link[d]
      /\ h2[s].link[d] = r /\ h2[s].link[1 - d] = h[s].link[1 - d]
  BY <1>1, <1>2, <1>5
<1>7. \A m \in InTree(h) \ {n, r, s}, x \in Dir : h2[m].link[x] = h[m].link[x]
  BY <1>2, <1>5
<1>8. /\ h[n].link[1 - e] \notin {r, s} /\ h[s].link[d] \notin {r, s} /\ h[r].link[d] \notin {r, s}
      /\ h[s].link[1 - d] \notin {r, s}
      /\ \A m \in InTree(h) \ {n, r, s}, x \in Dir : h[m].link[x] \notin {r, s}
  BY <1>1, <1>2, <1>3, <1>4
<1> QED BY <1>1, <1>6, <1>7, <1>8

(* A rotation leaves the heights of the nodes that do not turn. *)
LEMMA TurnHeights ==
  ASSUME NEW h, NEW B, InOrder(h, B), NEW n, NEW e, NEW r, Under(h, n, e, r),
         NEW d \in Dir, NEW s, Under(h, r, 1 - d, s), NEW h2 \in Nodes, Turned(h, h2, n, e, r, d),
         NEW H \in Heights, NEW H2, \A x \in Link \ {r, s} : H2[x] = H[x]
  PROVE  /\ \A m \in Used(h) \ {n, r, s} :
              (h2[m].red <=> h[m].red) /\ HeightAt(h, H, m) => HeightAt(h2, H2, m)
         /\ n \in Used(h) /\ (h2[n].red <=> h[n].red) /\ HeightAt(h, H, n) /\ H2[s] = H[r] => HeightAt(h2, H2, n)
<1>1. /\ r \in Used(h) /\ s \in Used(h) /\ r # n /\ s # n /\ s # r
      /\ h2[n].link[e] = s /\ h2[n].link[1 - e] = h[n].link[1 - e] /\ h[n].link[1 - e] \notin {r, s}
      /\ \A m \in InTree(h) \ {n, r, s}, x \in Dir : h2[m].link[x] = h[m].link[x] /\ h[m].link[x] \notin {r, s}
  BY TurnLinks
<1> USE DEF Under
<1>2. \A m \in InTree(h), x \in Dir : h[m].link[x] \in Link
  BY NodeFields, Places DEF InOrder, InTree, Used
<1>3. \A m \in Used(h) : m \in InTree(h) /\ m \in Link
  BY DEF InTree, Used, Link
<1>4. ASSUME NEW m \in Used(h) \ {n, r, s}, h2[m].red <=> h[m].red, HeightAt(h, H, m)
      PROVE  HeightAt(h2, H2, m)
  <2>1. \A x \in Dir : h2[m].link[x] = h[m].link[x] /\ H2[h[m].link[x]] = H[h[m].link[x]]
    BY <1>1, <1>2, <1>3
  <2>2. H2[m] = H[m]
    BY <1>3
  <2> QED BY <1>4, <2>1, <2>2 DEF HeightAt
<1>5. ASSUME n \in Used(h), h2[n].red <=> h[n].red, HeightAt(h, H, n), H2[s] = H[r]
      PROVE  HeightAt(h2, H2, n)
  <2>1. \A x \in Dir : x = e \/ x = 1 - e
    BY Places
  <2>2. 1 - e \in Dir
    BY Places
  <2>3. \A x \in Dir : H2[h2[n].link[x]] = H[h[n].link[x]]
    BY <1>1, <1>2, <1>5, <2>1, <2>2
  <2>4. H2[n] = H[n]
    BY <1>1, <1>3, <1>5
  <2> QED BY <1>5, <2>3, <2>4 DEF HeightAt
<1> QED BY <1>4, <1>5

-----------------------------------------------------------------------------
(* Going down narrows the bounds. *)
LEMMA Descend ==
  ASSUME NEW h, NEW B, InOrder(h, B), NEW n, NEW d, NEW c, Under(h, n, d, c)
  PROVE  /\ c \in Used(h) /\ c \in InTree(h) /\ c \in Place /\ c # n /\ c # Top
         /\ \A x \in Nat : Within(B[c], x) => Within(B[n], x) /\ x # h[n].text
         /\ h[c].text \in Nat /\ Within(B[c], h[c].text)
<1> USE DEF Under
<1>1. c \in Used(h) /\ c \in InTree(h) /\ c \in Place /\ c # n /\ c # Top
  BY BelowIs, Places DEF InTree, Used
<1>2. ASSUME NEW x \in Nat, Within(B[c], x) PROVE Within(B[n], x) /\ x # h[n].text
  <2>1. InPart(h, B, n, d, x)
    BY <1>2, BelowIs
  <2> QED BY <2>1, PartsOf
<1>3. h[c].text \in Nat /\ Within(B[c], h[c].text)
  BY <1>1, NodeFields DEF InOrder, Bounded
<1> QED BY <1>1, <1>2, <1>3

(* Two links down is another node; so is any node further down. *)
LEMMA TwoDown ==
  ASSUME NEW h, NEW B, InOrder(h, B), NEW n, NEW d, NEW r, Under(h, n, d, r),
         NEW f, NEW s, Under(h, r, f, s)
  PROVE  /\ r \in Used(h) /\ s \in Used(h) /\ r # n /\ s # n /\ s # r
         /\ \A x \in Nat : Within(B[s], x) => Within(B[n], x) /\ x # h[n].text
<1>1. r \in InTree(h) /\ r \in Used(h) /\ r # n
  BY Descend
<1>2. \A x \in Nat : Within(B[r], x) => Within(B[n], x) /\ x # h[n].text
  BY Descend
<1>3. s \in Used(h) /\ s # r /\ h[s].text \in Nat /\ Within(B[s], h[s].text)
  BY Descend
<1>4. \A x \in Nat : Within(B[s], x) => Within(B[r], x)
  BY Descend
<1> QED BY <1>1, <1>2, <1>3, <1>4

RedPair(h, p, q) ==
  \A m \in Used(h), x \in Dir : h[m].red /\ nodeIsRed(h, h[m].link[x]) => m = p /\ h[m].link[x] = q

(* The two sides of a node. *)
LEMMA Opposite == \A d \in Dir : 1 - d \in Dir /\ 1 - (1 - d) = d /\ 1 - d # d /\ \A x \in Dir : x = d \/ x = 1 - d
BY Places

(* The single rotation that puts two red nodes in a row right. *)
LEMMA FixSingle ==
  ASSUME NEW h, NEW B, NEW H, InOrder(h, B), OfHeight(h, H), Clean(h), NEW t, NEW e, NEW g, Under(h, t, e, g),
         NEW l, NEW p, Under(h, g, l, p), NEW q, Under(h, p, l, q), nodeIsRed(h, p), nodeIsRed(h, q), ~ nodeIsRed(h, h[g].link[1 - l]),
         RedPair(h, p, q), NEW h2, h2 = Hung(h, t, e, rotateSingle(h, g, 1 - l))
  PROVE  /\ h2 \in Nodes /\ Turned(h, h2, t, e, g, 1 - l) /\ Painted(h, h2, g, p)
         /\ \E H2 : OfHeight(h2, H2)
         /\ Coloured(h2) /\ Clean(h2)
<1> DEFINE d == 1 - l
           c == h[p].link[d]
           u == h[g].link[d]
           k == H[p]
           H2 == [x \in Link |-> IF x = g THEN k ELSE IF x = p THEN k + 1 ELSE H[x]]
<1>0. h[p].red /\ h[q].red
  BY DEF nodeIsRed
<1>1. l \in Dir /\ e \in Dir /\ d \in Dir /\ 1 - d = l /\ l # d /\ \A x \in Dir : x = l \/ x = d
  BY Opposite DEF Under
<1>a. h[t].link[e] = g /\ h[g].link[l] = p /\ h[p].link[l] = q /\ t \in InTree(h) /\ q # NoNode
  BY DEF Under
<1>2. g \in Used(h) /\ p \in Used(h) /\ g # t /\ p # t /\ p # g
  BY TwoDown
<1>3. /\ g \in InTree(h) /\ p \in InTree(h) /\ g \in Allocated /\ p \in Allocated /\ p \in Place /\ t \in Place
      /\ g \in Link /\ p \in Link
  BY <1>a, <1>2, Places DEF InTree, Used, Link
<1>4. q \in Used(h) /\ q # g /\ q # p
  BY <1>3, TwoDown
<1>5. h \in Nodes /\ H \in Heights /\ H[NoNode] = 1
  BY DEF InOrder, OfHeight
<1>6. /\ h2 \in Nodes /\ Turned(h, h2, t, e, g, d) /\ Painted(h, h2, g, p)
      /\ \A m \in Place : m \notin {t, g, p} => h2[m] = h[m]
  <2>1. h[g].link[1 - d] = p
    BY <1>a, <1>1
  <2> HIDE DEF d
  <2> QED BY <1>1, <1>2, <1>3, <1>5, <2>1, HungIs DEF d
<1>7. /\ h2[t].link[e] = p /\ h2[t].link[1 - e] = h[t].link[1 - e] /\ h[t].link[1 - e] \notin {g, p}
      /\ h2[g].link[l] = c /\ h2[g].link[d] = u /\ c \notin {g, p} /\ u \notin {g, p}
      /\ h2[p].link[d] = g /\ h2[p].link[l] = q
      /\ \A m \in InTree(h) \ {t, g, p}, x \in Dir : h2[m].link[x] = h[m].link[x] /\ h[m].link[x] \notin {g, p}
      /\ Used(h2) = Used(h)
  <2>1. Under(h, g, 1 - d, p)
    BY <1>1
  <2> HIDE DEF d
  <2>2. Used(h2) = Used(h)
    BY <1>1, <1>6, <2>1, TurnKeepsOrder
  <2>3. /\ h2[t].link[e] = p /\ h2[t].link[1 - e] = h[t].link[1 - e] /\ h[t].link[1 - e] \notin {g, p}
        /\ h2[g].link[1 - d] = h[p].link[d] /\ h2[g].link[d] = h[g].link[d]
        /\ h[p].link[d] \notin {g, p} /\ h[g].link[d] \notin {g, p}
        /\ h2[p].link[d] = g /\ h2[p].link[1 - d] = h[p].link[1 - d]
        /\ \A m \in InTree(h) \ {t, g, p}, x \in Dir : h2[m].link[x] = h[m].link[x] /\ h[m].link[x] \notin {g, p}
    BY <1>1, <1>6, <2>1, TurnLinks
  <2> QED BY <1>a, <1>1, <2>2, <2>3
<1>8. /\ HeightAt(h, H, p) /\ HeightAt(h, H, g)
  BY <1>2 DEF OfHeight
<1>9. ~ h[g].red
  BY <1>a, <1>0, <1>1, <1>2, <1>3 DEF RedPair, nodeIsRed
<1>10. /\ c \in Link /\ u \in Link /\ q \in Link
  BY <1>a, <1>1, <1>2, <1>3, <1>4, <1>5, NodeFields, Places
<1>11. k \in Nat \ {0} /\ H[q] = k /\ H[c] = k /\ H[u] = k /\ H[g] = k + 1
  <2>1. H[p] \in Nat \ {0} /\ H[q] \in Nat \ {0} /\ H[c] \in Nat \ {0} /\ H[u] \in Nat \ {0}
    BY <1>3, <1>5, <1>10 DEF Heights
  <2>2. H[p] = H[q] + 0 /\ H[p] = H[c] + 0
    BY <1>a, <1>0, <1>1, <1>8 DEF HeightAt
  <2>3. H[g] = H[p] + 1 /\ H[g] = H[u] + 1
    BY <1>a, <1>1, <1>8, <1>9 DEF HeightAt
  <2> QED BY <2>1, <2>2, <2>3
<1>12. /\ H2 \in Heights /\ H2[NoNode] = 1 /\ H2[g] = k /\ H2[p] = k + 1
       /\ \A x \in Link \ {g, p} : H2[x] = H[x]
  <2>1. NoNode \in Link /\ NoNode \notin {g, p}
    BY <1>3, Places DEF Link
  <2>2. \A x \in Link : H[x] \in Nat \ {0}
    BY <1>5 DEF Heights
  <2> HIDE DEF k
  <2> QED BY <1>2, <1>3, <1>5, <1>11, <2>1, <2>2 DEF Heights
<1> HIDE DEF H2, k
<1>13. h2[g].red /\ ~ h2[p].red /\ \A m \in Place : m \notin {g, p} => (h2[m].red <=> h[m].red)
  BY <1>6 DEF Painted
<1>14. OfHeight(h2, H2)
  <2>1. /\ \A m \in Used(h) \ {t, g, p} :
              (h2[m].red <=> h[m].red) /\ HeightAt(h, H, m) => HeightAt(h2, H2, m)
        /\ t \in Used(h) /\ (h2[t].red <=> h[t].red) /\ HeightAt(h, H, t) /\ H2[p] = H[g] => HeightAt(h2, H2, t)
    <3>1. Under(h, g, 1 - d, p)
      BY <1>1
    <3> HIDE DEF d
    <3> QED BY <1>1, <1>5, <1>6, <1>12, <3>1, TurnHeights
  <2>2. HeightAt(h2, H2, g)
    BY <1>1, <1>7, <1>10, <1>11, <1>12, <1>13 DEF HeightAt
  <2>3. HeightAt(h2, H2, p)
    BY <1>1, <1>4, <1>7, <1>10, <1>11, <1>12, <1>13 DEF HeightAt
  <2>4. \A m \in Used(h) : HeightAt(h, H, m) /\ m \in Place
    BY Places DEF OfHeight, Used
  <2>5. \A m \in Used(h) : HeightAt(h2, H2, m)
    BY <1>2, <1>11, <1>12, <1>13, <2>1, <2>2, <2>3, <2>4
  <2> QED BY <1>7, <1>12, <2>5 DEF OfHeight
<1>15. Coloured(h2)
  <2> SUFFICES ASSUME NEW m \in Used(h), NEW x \in Dir, h2[m].red, nodeIsRed(h2, h2[m].link[x]) PROVE FALSE
    BY <1>7 DEF Coloured
  <2>1. m \in Place /\ m \in InTree(h)
    BY Places DEF Used, InTree
  <2>2. \A b \in Link \ {g, p} : nodeIsRed(h2, b) <=> nodeIsRed(h, b)
    BY <1>13 DEF nodeIsRed, Link, Place
  <2>3. \A b \in Dir : h[m].link[b] \in Link
    BY <2>1, <1>5, NodeFields
  <2>4. ~ nodeIsRed(h, c)
    <3>1. c # q
      <4>1. Once(h)
        BY DEF InOrder
      <4> QED BY <1>a, <1>1, <1>3, <4>1 DEF Once
    <3> QED BY <1>0, <1>1, <1>2, <3>1 DEF RedPair
  <2>5. m # p
    BY <1>13
  <2>6. CASE m = g
    BY <2>6, <2>2, <2>4, <1>1, <1>7, <1>10
  <2>7. CASE m # g
    <3>1. h[m].red
      BY <2>1, <2>5, <2>7, <1>13
    <3>2. h2[m].link[x] # p
      BY <1>13 DEF nodeIsRed
    <3>3. h2[m].link[x] = h[m].link[x] /\ h[m].link[x] \notin {g, p}
      <4>1. x = e \/ x = 1 - e
        BY <1>1, Opposite
      <4> QED BY <4>1, <2>1, <2>5, <2>7, <3>2, <1>7
    <3>4. nodeIsRed(h, h[m].link[x])
      BY <3>3, <2>2, <2>3
    <3> QED BY <3>1, <3>4, <2>5 DEF RedPair
  <2> QED BY <2>6, <2>7
<1>16. Clean(h2)
  <2>1. ~ h2[Top].red
    BY <1>3, <1>13, Places DEF Clean
  <2>2. ASSUME NEW m \in Allocated, h2[m].text = 0 PROVE h2[m] = Free
    <3>1. m \notin Used(h)
      BY <2>2, <1>7 DEF Used
    <3>2. m \notin {t, g, p}
      BY <3>1, <1>a, <1>2, Places DEF InTree
    <3> QED BY <3>1, <3>2, <1>6, Places DEF Clean, Used
  <2> QED BY <2>1, <2>2 DEF Clean
<1> QED BY <1>6, <1>14, <1>15, <1>16

(* The double rotation that puts two red nodes in a row right. *)
LEMMA FixDouble ==
  ASSUME NEW h, NEW B, NEW H, InOrder(h, B), OfHeight(h, H), Clean(h), NEW t, NEW e, NEW g, Under(h, t, e, g),
         NEW l, NEW p, Under(h, g, l, p), NEW q, Under(h, p, 1 - l, q), nodeIsRed(h, p), nodeIsRed(h, q),
         ~ nodeIsRed(h, h[g].link[1 - l]), RedPair(h, p, q),
         NEW h2, h2 = Hung(h, t, e, rotateDouble(h, g, 1 - l))
  PROVE  /\ h2 \in Nodes /\ Used(h2) = Used(h)
         /\ \A m \in Place : h2[m].text = h[m].text /\ h2[m].ordinal = h[m].ordinal
         /\ \E B2 : InOrder(h2, B2) /\ \A x \in Nat : Within(B[q], x) => Within(B2[q], x)
         /\ \E H2 : OfHeight(h2, H2)
         /\ Coloured(h2) /\ Clean(h2)
         /\ h2[q].link[l] = p /\ h2[q].link[1 - l] = g
         /\ h2[p].link[1 - l] = h[q].link[l] /\ h2[g].link[l] = h[q].link[1 - l]
         /\ \A m \in Used(h) \ {t, g, p, q}, x \in Dir : h2[m].link[x] = h[m].link[x] /\ h[m].link[x] \notin {g, q}
         /\ \A m \in Place \ {g, q} : h2[m].red <=> h[m].red
         /\ ~ h2[q].red /\ h2[p].red /\ h2[g].red
<1> DEFINE d == 1 - l
           a == h[q].link[l]
           b == h[q].link[d]
           c == h[p].link[l]
           u == h[g].link[d]
           h1 == Hung(h, g, l, rotateSingle(h, p, l))
           k == H[p]
           H2 == [x \in Link |-> IF x = g THEN k ELSE IF x = q THEN k + 1 ELSE H[x]]
           H1 == [x \in Link |-> IF x = q THEN k + 1 ELSE H[x]]
<1>0. h[p].red /\ h[q].red
  BY DEF nodeIsRed
<1>1. l \in Dir /\ e \in Dir /\ d \in Dir /\ 1 - d = l /\ l # d /\ (\A x \in Dir : x = l \/ x = d)
      /\ 1 - e \in Dir /\ \A x \in Dir : x = e \/ x = 1 - e
  BY Opposite DEF Under
<1>2. h[t].link[e] = g /\ h[g].link[l] = p /\ h[p].link[d] = q /\ t \in InTree(h) /\ q # NoNode
  BY DEF Under
<1>3. g \in Used(h) /\ p \in Used(h) /\ g # t /\ p # t /\ p # g
  BY TwoDown
<1>4. q \in Used(h) /\ q # g /\ q # p
  BY TwoDown
<1>5. /\ g \in InTree(h) /\ p \in InTree(h) /\ q \in InTree(h) /\ g \in Allocated /\ p \in Allocated
      /\ g \in Place /\ p \in Place /\ q \in Place /\ t \in Place
      /\ g \in Link /\ p \in Link /\ q \in Link
  BY <1>2, <1>3, <1>4, Places DEF InTree, Used, Link
<1>6. h \in Nodes /\ H \in Heights /\ H[NoNode] = 1
  BY DEF InOrder, OfHeight
(* The first rotation. *)
<1>7. /\ h1 \in Nodes /\ Turned(h, h1, g, l, p, l) /\ Painted(h, h1, p, q)
      /\ \A m \in Place : m \notin {g, p, q} => h1[m] = h[m]
  <2> HIDE DEF d
  <2> QED BY <1>1, <1>2, <1>3, <1>4, <1>5, <1>6, HungIs DEF d
<1>8. /\ h1[g].link[l] = q /\ h1[g].link[d] = u /\ u \notin {p, q}
      /\ h1[p].link[d] = a /\ h1[p].link[l] = c /\ a \notin {p, q} /\ c \notin {p, q}
      /\ h1[q].link[l] = p /\ h1[q].link[d] = b /\ b \notin {p, q}
      /\ \A m \in InTree(h) \ {g, p, q}, x \in Dir : h1[m].link[x] = h[m].link[x] /\ h[m].link[x] \notin {p, q}
  BY <1>1, <1>7, TurnLinks
<1>9. /\ InOrder(h1, TurnedBounds(h, B, p, l)) /\ Used(h1) = Used(h)
      /\ \A x \in Nat : Within(B[q], x) => Within(TurnedBounds(h, B, p, l)[q], x)
  BY <1>1, <1>4, <1>5, <1>7, TurnKeepsOrder
(* The second rotation. *)
<1>10. h2 = Hung(h1, t, e, rotateSingle(h1, g, d))
  BY <1>1, <1>2, DoubleIs
<1> HIDE DEF h1
<1>11. InTree(h1) = InTree(h)
  BY <1>9 DEF InTree
<1>12. Under(h1, t, e, g) /\ Under(h1, g, 1 - d, q)
  <2>1. t # q
    <3>1. /\ h[t].text \in Nat /\ h[q].text \in Nat /\ Within(B[q], h[q].text)
      BY <1>2, <1>5, <1>6, NodeFields DEF InOrder, Bounded
    <3>2. \A x \in Nat : Within(B[p], x) => x # h[t].text
      BY TwoDown
    <3>3. \A x \in Nat : Within(B[q], x) => Within(B[p], x)
      BY Descend
    <3> QED BY <3>1, <3>2, <3>3
  <2>2. h1[t].link[e] = g
    BY <1>1, <1>2, <1>3, <1>8, <2>1
  <2> QED BY <1>1, <1>2, <1>3, <1>5, <1>8, <1>11, <2>2, Places DEF Under, Place
<1>13. g # t /\ q # t /\ q # g
  BY <1>9, <1>12, TwoDown
<1>14. /\ h2 \in Nodes /\ Turned(h1, h2, t, e, g, d) /\ Painted(h1, h2, g, q)
       /\ \A m \in Place : m \notin {t, g, q} => h2[m] = h1[m]
  <2>1. h1[g].link[1 - d] = q
    BY <1>1, <1>8
  <2> HIDE DEF d
  <2> QED BY <1>1, <1>5, <1>7, <1>10, <1>13, <2>1, HungIs
<1>15. /\ h2[t].link[e] = q /\ h2[t].link[1 - e] = h1[t].link[1 - e] /\ h1[t].link[1 - e] \notin {g, q}
       /\ h2[g].link[l] = b /\ h2[g].link[d] = u /\ b \notin {g, q} /\ u \notin {g, q}
       /\ h2[q].link[d] = g /\ h2[q].link[l] = p
       /\ \A m \in InTree(h) \ {t, g, q}, x \in Dir : h2[m].link[x] = h1[m].link[x] /\ h1[m].link[x] \notin {g, q}
  <2> HIDE DEF d
  <2>1. /\ h2[t].link[e] = q /\ h2[t].link[1 - e] = h1[t].link[1 - e] /\ h1[t].link[1 - e] \notin {g, q}
        /\ h2[g].link[1 - d] = h1[q].link[d] /\ h2[g].link[d] = h1[g].link[d]
        /\ h1[q].link[d] \notin {g, q} /\ h1[g].link[d] \notin {g, q}
        /\ h2[q].link[d] = g /\ h2[q].link[1 - d] = h1[q].link[1 - d]
        /\ \A m \in InTree(h1) \ {t, g, q}, x \in Dir : h2[m].link[x] = h1[m].link[x] /\ h1[m].link[x] \notin {g, q}
    BY <1>1, <1>9, <1>12, <1>14, TurnLinks
  <2> QED BY <2>1, <1>1, <1>8, <1>11
<1>16. /\ InOrder(h2, TurnedBounds(h1, TurnedBounds(h, B, p, l), g, d)) /\ Used(h2) = Used(h)
       /\ \A x \in Nat : Within(TurnedBounds(h, B, p, l)[q], x)
            => Within(TurnedBounds(h1, TurnedBounds(h, B, p, l), g, d)[q], x)
  <2> HIDE DEF d
  <2> QED BY <1>1, <1>5, <1>9, <1>12, <1>13, <1>14, TurnKeepsOrder
<1>17. \A m \in Place : h2[m].text = h[m].text /\ h2[m].ordinal = h[m].ordinal
  BY <1>7, <1>14 DEF Turned
<1>18. /\ ~ h2[q].red /\ h2[p].red /\ h2[g].red /\ \A m \in Place \ {g, q} : h2[m].red <=> h[m].red
  BY <1>0, <1>3, <1>4, <1>5, <1>7, <1>14 DEF Painted
<1>19. \A m \in Used(h) \ {t, g, p, q}, x \in Dir : h2[m].link[x] = h[m].link[x] /\ h[m].link[x] \notin {g, q}
  BY <1>8, <1>15 DEF InTree
<1>20. /\ h2[p].link[d] = a /\ h2[p].link[l] = c /\ a \notin {g, q} /\ c \notin {g, q}
  BY <1>1, <1>3, <1>4, <1>5, <1>8, <1>15
(* Heights. *)
<1>21. /\ a \in Link /\ b \in Link /\ c \in Link /\ u \in Link
  BY <1>1, <1>5, <1>6, NodeFields
<1>22. ~ h[g].red
  BY <1>0, <1>1, <1>2, <1>3, <1>5 DEF RedPair, nodeIsRed
<1>23. HeightAt(h, H, p) /\ HeightAt(h, H, g) /\ HeightAt(h, H, q)
  BY <1>3, <1>4 DEF OfHeight
<1>24. k \in Nat \ {0} /\ H[q] = k /\ H[a] = k /\ H[b] = k /\ H[c] = k /\ H[u] = k /\ H[g] = k + 1
  <2>1. /\ H[p] \in Nat \ {0} /\ H[q] \in Nat \ {0} /\ H[a] \in Nat \ {0} /\ H[b] \in Nat \ {0}
        /\ H[c] \in Nat \ {0} /\ H[u] \in Nat \ {0}
    BY <1>5, <1>6, <1>21 DEF Heights
  <2>2. H[p] = H[q] + 0 /\ H[p] = H[c] + 0
    BY <1>0, <1>1, <1>2, <1>23 DEF HeightAt
  <2>3. H[g] = H[p] + 1 /\ H[g] = H[u] + 1
    BY <1>1, <1>2, <1>22, <1>23 DEF HeightAt
  <2>4. H[q] = H[a] + 0 /\ H[q] = H[b] + 0
    BY <1>0, <1>1, <1>23 DEF HeightAt
  <2> QED BY <2>1, <2>2, <2>3, <2>4
<1>25. /\ H1 \in Heights /\ H2 \in Heights /\ H2[NoNode] = 1 /\ H2[g] = k /\ H2[q] = k + 1
       /\ H1[q] = k + 1 /\ H1[g] = k + 1
       /\ (\A x \in Link \ {g, q} : H2[x] = H[x]) /\ (\A x \in Link \ {q, p} : H1[x] = H[x])
       /\ (\A x \in Link \ {g, q} : H2[x] = H1[x])
  <2>1. NoNode \in Link /\ NoNode \notin {g, q}
    BY <1>5, Places DEF Link
  <2>2. \A x \in Link : H[x] \in Nat \ {0}
    BY <1>6 DEF Heights
  <2> HIDE DEF k
  <2> QED BY <1>4, <1>5, <1>6, <1>24, <2>1, <2>2 DEF Heights
<1> HIDE DEF H1, H2, k
<1>26. \A m \in Used(h) \ {g, p, q} : HeightAt(h1, H1, m)
  <2>1. \A m \in Used(h) \ {g, p, q} : (h1[m].red <=> h[m].red) /\ HeightAt(h, H, m) => HeightAt(h1, H1, m)
    BY <1>1, <1>6, <1>7, <1>25, TurnHeights
  <2>2. \A m \in Used(h) \ {g, p, q} : (h1[m].red <=> h[m].red) /\ HeightAt(h, H, m)
    BY <1>7, Places DEF OfHeight, Painted, Used
  <2> QED BY <2>1, <2>2
<1>27. HeightAt(h1, H1, p)
  <2>1. h1[p].red
    BY <1>7 DEF Painted
  <2>2. \A x \in Dir : H1[h1[p].link[x]] = k
    BY <1>1, <1>8, <1>21, <1>24, <1>25
  <2>3. H1[p] = k
    BY <1>4, <1>5, <1>25, <1>24 DEF H1, k
  <2> QED BY <1>24, <2>1, <2>2, <2>3 DEF HeightAt
<1>28. \A m \in Used(h) \ {g, q} : HeightAt(h2, H2, m)
  <2>1. /\ \A m \in Used(h) \ {t, g, q} : (h2[m].red <=> h1[m].red) /\ HeightAt(h1, H1, m) => HeightAt(h2, H2, m)
        /\ t \in Used(h) /\ (h2[t].red <=> h1[t].red) /\ HeightAt(h1, H1, t) /\ H2[q] = H1[g] => HeightAt(h2, H2, t)
    <3> HIDE DEF d
    <3> QED BY <1>1, <1>9, <1>12, <1>14, <1>25, TurnHeights
  <2>2. \A m \in Place \ {g, q} : h2[m].red <=> h1[m].red
    BY <1>14 DEF Painted
  <2>3. \A m \in Used(h) : m \in Place
    BY Places DEF Used
  <2>4. HeightAt(h1, H1, p) /\ \A m \in Used(h) \ {g, q} : HeightAt(h1, H1, m)
    BY <1>26, <1>27
  <2>5. H2[q] = H1[g]
    BY <1>25
  <2> QED BY <1>5, <1>13, <2>1, <2>2, <2>3, <2>4, <2>5
<1>29. HeightAt(h2, H2, g) /\ HeightAt(h2, H2, q)
  <2>1. \A x \in Dir : H2[h2[g].link[x]] = k
    BY <1>1, <1>15, <1>21, <1>24, <1>25
  <2>2. H2[p] = k
    BY <1>3, <1>4, <1>5, <1>25 DEF k
  <2>3. \A x \in Dir : H2[h2[q].link[x]] = k
    BY <1>1, <1>15, <1>25, <2>2
  <2> QED BY <1>18, <1>24, <1>25, <2>1, <2>3 DEF HeightAt
<1>30. OfHeight(h2, H2)
  BY <1>16, <1>25, <1>28, <1>29 DEF OfHeight
<1>31. Coloured(h2)
  <2> SUFFICES ASSUME NEW m \in Used(h), NEW x \in Dir, h2[m].red, nodeIsRed(h2, h2[m].link[x]) PROVE FALSE
    BY <1>16 DEF Coloured
  <2>1. m \in Place /\ m \in InTree(h)
    BY Places DEF Used, InTree
  <2>2. \A n \in Link \ {g, q} : nodeIsRed(h2, n) <=> nodeIsRed(h, n)
    BY <1>18 DEF nodeIsRed, Link, Place
  <2>3. \A y \in Dir : h[m].link[y] \in Link
    BY <2>1, <1>6, NodeFields
  <2>4. ~ nodeIsRed(h, a) /\ ~ nodeIsRed(h, b)
    BY <1>0, <1>1, <1>4 DEF RedPair
  <2>5. ~ nodeIsRed(h, c)
    <3>1. c # q
      <4>1. Once(h)
        BY DEF InOrder
      <4> QED BY <1>1, <1>2, <1>5, <4>1 DEF Once
    <3> QED BY <1>0, <1>1, <1>3, <3>1 DEF RedPair
  <2>6. m # q
    BY <1>18
  <2>7. CASE m = g
    BY <2>7, <2>2, <2>4, <1>1, <1>15, <1>21
  <2>8. CASE m = p
    BY <2>8, <2>2, <2>4, <2>5, <1>1, <1>20, <1>21
  <2>9. CASE m \notin {g, p}
    <3>1. h[m].red
      BY <2>1, <2>6, <2>9, <1>18
    <3>2. h2[m].link[x] # q
      BY <1>18 DEF nodeIsRed
    <3>3. h2[m].link[x] = h[m].link[x] /\ h[m].link[x] \notin {g, q}
      <4>1. CASE m = t
        <5>1. x = 1 - e
          BY <4>1, <3>2, <1>1, <1>15
        <5> QED BY <4>1, <5>1, <2>1, <2>6, <2>9, <1>1, <1>8, <1>15
      <4>2. CASE m # t
        BY <4>2, <2>6, <2>9, <1>19
      <4> QED BY <4>1, <4>2
    <3>4. nodeIsRed(h, h[m].link[x])
      BY <3>3, <2>2, <2>3
    <3> QED BY <3>1, <3>4, <2>9 DEF RedPair
  <2> QED BY <2>7, <2>8, <2>9
<1>32. Clean(h2)
  <2>1. ~ h2[Top].red
    BY <1>5, <1>4, <1>18, Places DEF Clean, Used
  <2>2. ASSUME NEW m \in Allocated, h2[m].text = 0 PROVE h2[m] = Free
    <3>1. m \notin Used(h)
      BY <2>2, <1>16 DEF Used
    <3>2. m \notin {t, g, p, q}
      BY <3>1, <1>2, <1>3, <1>4, Places DEF InTree
    <3>3. m \in Place /\ h2[m] = h1[m] /\ h1[m] = h[m]
      BY <3>2, <1>7, <1>14, Places
    <3> QED BY <3>1, <3>3 DEF Clean, Used
  <2> QED BY <2>1, <2>2 DEF Clean
<1> QED BY <1>9, <1>14, <1>15, <1>16, <1>17, <1>18, <1>19, <1>20, <1>30, <1>31, <1>32

-----------------------------------------------------------------------------
(* A node at an empty place. *)
Added(h, h2, n, p, d, text) ==
  /\ h2[n].text = text /\ \A x \in Dir : h2[n].link[x] = NoNode
  /\ \A m \in Place : m # n =>
       /\ h2[m].text = h[m].text /\ h2[m].ordinal = h[m].ordinal
       /\ \A x \in Dir : h2[m].link[x] = IF m = p /\ x = d THEN n ELSE h[m].link[x]
AddedBounds(h, B, n, p, d) == [m \in Place |-> IF m = n THEN [x \in Dir |-> Edge(h, B, p, d, x)] ELSE B[m]]

(* A new leaf, where its text belongs, keeps the texts in order. *)
LEMMA AddKeepsOrder ==
  ASSUME NEW h, NEW B, InOrder(h, B), NEW p \in InTree(h), NEW d \in Dir, h[p].link[d] = NoNode, p = Top => d = 1,
         NEW n \in Allocated, n \notin Used(h), NEW text \in Nat \ {0}, InPart(h, B, p, d, text),
         NEW h2 \in Nodes, Added(h, h2, n, p, d, text)
  PROVE  /\ InOrder(h2, AddedBounds(h, B, n, p, d)) /\ Used(h2) = Used(h) \cup {n}
         /\ \A m \in Used(h) : h[m].text # text
<1> DEFINE B2 == AddedBounds(h, B, n, p, d)
           lo == Edge(h, B, p, d, 0)
           hi == Edge(h, B, p, d, 1)
<1>1. /\ p \in Place /\ n \in Place /\ n # p /\ n # Top /\ n # NoNode /\ h \in Nodes
      /\ n \notin InTree(h) /\ \A m \in InTree(h) : m \in Place /\ m # n
  BY Places DEF InOrder, InTree, Used
<1>2. \A m \in Place : m # n => h2[m].text = h[m].text
  BY DEF Added
<1>3. h2[n].text = text /\ (\A x \in Dir : h2[n].link[x] = NoNode) /\ h2[p].link[d] = n
  BY <1>1 DEF Added
<1>4. \A m \in Place, x \in Dir : m # n /\ (m # p \/ x # d) => h2[m].link[x] = h[m].link[x]
  BY DEF Added
<1>5. Used(h2) = Used(h) \cup {n} /\ InTree(h2) = InTree(h) \cup {n}
  <2>1. \A m \in Allocated : m \in Place /\ (h2[m].text # 0 <=> h[m].text # 0 \/ m = n)
    BY <1>1, <1>2, <1>3, Places
  <2>2. Used(h2) = Used(h) \cup {n}
    BY <2>1 DEF Used
  <2> QED BY <2>2 DEF InTree
<1>6. lo \in Int /\ hi \in Int /\ lo < text /\ (text < hi \/ hi = -1)
  <2>1. B[p] \in [Dir -> Int] /\ h[p].text \in Nat
    BY <1>1, NodeFields DEF InOrder, Bounds
  <2> QED BY <2>1, Places DEF Edge, InPart
<1>7. /\ B2 \in Bounds /\ (\A x \in Dir : B2[n][x] = Edge(h, B, p, d, x)) /\ B2[n][0] = lo /\ B2[n][1] = hi
      /\ \A m \in Place : m # n => B2[m] = B[m]
  <2>1. \A x \in Dir : Edge(h, B, p, d, x) \in Int
    <3>1. B[p] \in [Dir -> Int] /\ h[p].text \in Nat
      BY <1>1, NodeFields DEF InOrder, Bounds
    <3> QED BY <3>1 DEF Edge
  <2> QED BY <1>1, <2>1, Places DEF AddedBounds, InOrder, Bounds
<1> HIDE DEF B2
<1>8. /\ \A m \in Place, y, x \in Dir : m # n => Edge(h2, B2, m, y, x) = Edge(h, B, m, y, x)
      /\ Edge(h2, B2, n, 0, 0) = lo /\ Edge(h2, B2, n, 0, 1) = text
      /\ Edge(h2, B2, n, 1, 0) = text /\ Edge(h2, B2, n, 1, 1) = hi
  BY <1>2, <1>3, <1>7 DEF Edge
<1> HIDE DEF lo, hi
<1>9. \A m \in Place, y \in Dir : m # n => \A x :
        /\ InPart(h2, B2, m, y, x) <=> InPart(h, B, m, y, x)
        /\ Covers(h2, B2, m, y, x) <=> Covers(h, B, m, y, x)
  BY <1>8, Places DEF InPart, Covers
<1>10. \A y \in Dir, x \in Nat :
         /\ InPart(h2, B2, n, y, x) => InPart(h, B, p, d, x) /\ x # text
         /\ Covers(h2, B2, n, y, x) => Covers(h, B, p, d, x) /\ (y = 0 <=> x < text)
  <2> SUFFICES ASSUME NEW y \in Dir, NEW x \in Nat
               PROVE  /\ InPart(h2, B2, n, y, x) => InPart(h, B, p, d, x) /\ x # text
                      /\ Covers(h2, B2, n, y, x) => Covers(h, B, p, d, x) /\ (y = 0 <=> x < text)
    OBVIOUS
  <2>1. /\ InPart(h, B, p, d, x) <=> lo < x /\ (x < hi \/ hi = -1)
        /\ Covers(h, B, p, d, x) <=> lo <= x /\ (x < hi \/ hi = -1)
    BY DEF InPart, Covers, lo, hi
  <2>2. CASE y = 0
    BY <1>6, <1>8, <2>1, <2>2 DEF InPart, Covers
  <2>3. CASE y = 1
    BY <1>6, <1>8, <2>1, <2>3 DEF InPart, Covers
  <2> QED BY <2>2, <2>3, Places
<1>11. \A m \in Used(h) : h[m].text # text
  BY DEF InOrder, Bare
<1>12. Rooted(h2)
  <2>1. Top \in Place /\ 0 \in Dir /\ Top # n
    BY <1>1, Places
  <2> QED BY <2>1, <1>4 DEF InOrder, Rooted, Added
<1>13. Distinct(h2)
  <2>1. \A m \in Used(h) : h2[m].text = h[m].text
    BY <1>1, <1>2, Places DEF Used
  <2> QED BY <1>3, <1>5, <1>11, <2>1 DEF InOrder, Distinct
<1>14. Bounded(h2, B2)
  <2>1. Within(B2[n], h2[n].text)
    BY <1>3, <1>6, <1>7 DEF Within
  <2>2. \A m \in InTree(h) : Within(B2[m], h2[m].text)
    BY <1>1, <1>2, <1>7 DEF InOrder, Bounded
  <2>3. B2[Top][1] = -1
    BY <1>1, <1>7, Places DEF InOrder, Bounded
  <2> QED BY <1>5, <2>1, <2>2, <2>3 DEF Bounded
<1>15. Leads(h2, B2)
  <2> SUFFICES ASSUME NEW m \in InTree(h2), NEW y \in Dir, h2[m].link[y] # NoNode
               PROVE  h2[m].link[y] \in Used(h2)
                      /\ \A x \in Dir : B2[h2[m].link[y]][x] = Edge(h2, B2, m, y, x)
    BY DEF Leads
  <2>1. m \in InTree(h) /\ m # n /\ m \in Place
    BY <1>1, <1>3, <1>5
  <2>2. CASE m = p /\ y = d
    BY <2>2, <1>1, <1>3, <1>5, <1>7, <1>8
  <2>3. CASE m # p \/ y # d
    <3>1. h2[m].link[y] = h[m].link[y]
      BY <2>1, <2>3, <1>4
    <3>2. h[m].link[y] \in Used(h) /\ \A x \in Dir : B[h[m].link[y]][x] = Edge(h, B, m, y, x)
      BY <2>1, <3>1 DEF InOrder, Leads
    <3>3. h[m].link[y] \in Place /\ h[m].link[y] # n
      BY <3>2, Places DEF Used
    <3> QED BY <2>1, <3>1, <3>2, <3>3, <1>5, <1>7, <1>8
  <2> QED BY <2>2, <2>3
<1>16. Bare(h2, B2)
  <2> SUFFICES ASSUME NEW m \in InTree(h2), NEW y \in Dir, h2[m].link[y] = NoNode, NEW u \in Used(h2)
               PROVE  ~ InPart(h2, B2, m, y, h2[u].text)
    BY DEF Bare
  <2>1. u = n \/ (u \in Used(h) /\ u # n /\ u \in Place /\ h2[u].text = h[u].text /\ h[u].text \in Nat)
    BY <1>1, <1>2, <1>5, NodeFields, Places DEF Used
  <2>2. CASE m = n
    <3>1. ~ InPart(h2, B2, n, y, text)
      BY <1>10
    <3>2. \A v \in Used(h) : ~ InPart(h, B, p, d, h[v].text)
      BY DEF InOrder, Bare
    <3> QED BY <2>1, <2>2, <3>1, <3>2, <1>3, <1>10
  <2>3. CASE m # n
    <3>1. m \in InTree(h) /\ m \in Place /\ (m # p \/ y # d) /\ h[m].link[y] = NoNode
      BY <2>3, <1>1, <1>3, <1>4, <1>5
    <3>2. \A v \in Used(h) : ~ InPart(h, B, m, y, h[v].text)
      BY <3>1 DEF InOrder, Bare
    <3>3. ~ InPart(h, B, m, y, text)
      <4>1. SUFFICES ASSUME InPart(h, B, m, y, text) PROVE FALSE
        OBVIOUS
      <4>2. Covers(h, B, m, y, text) /\ Covers(h, B, p, d, text)
        <5>1. \A z, w \in Dir, k \in InTree(h) : Edge(h, B, k, z, w) \in Int
          <6>1. \A k \in InTree(h) : B[k] \in [Dir -> Int] /\ h[k].text \in Nat
            BY <1>1, NodeFields DEF InOrder, Bounds
          <6> QED BY <6>1 DEF Edge
        <5>2. 0 \in Dir /\ 1 \in Dir /\ text \in Nat
          BY Places
        <5>3. /\ Edge(h, B, m, y, 0) \in Int /\ Edge(h, B, p, d, 0) \in Int
              /\ Edge(h, B, m, y, 1) \in Int /\ Edge(h, B, p, d, 1) \in Int
          BY <3>1, <5>1, <5>2
        <5> QED BY <4>1, <5>2, <5>3 DEF InPart, Covers
      <4> QED BY <3>1, <4>2 DEF InOrder, Disjoint
    <3> QED BY <2>1, <2>3, <3>1, <3>2, <3>3, <1>3, <1>9
  <2> QED BY <2>2, <2>3
<1>17. Once(h2)
  <2> SUFFICES ASSUME NEW m \in InTree(h2), NEW o \in InTree(h2), NEW y \in Dir, NEW z \in Dir,
                      h2[m].link[y] = h2[o].link[z], h2[m].link[y] # NoNode
               PROVE  m = o /\ y = z
    BY DEF Once
  <2>1. m \in InTree(h) /\ o \in InTree(h) /\ m # n /\ o # n /\ m \in Place /\ o \in Place
    BY <1>1, <1>3, <1>5
  <2>2. \A k \in InTree(h), w \in Dir : h[k].link[w] # n
    BY <1>1 DEF InOrder, Leads
  <2>3. \A k \in InTree(h), w \in Dir : k # p \/ w # d => h2[k].link[w] = h[k].link[w]
    BY <1>1, <1>4
  <2>4. CASE (m = p /\ y = d) \/ (o = p /\ z = d)
    BY <2>1, <2>2, <2>3, <2>4, <1>3
  <2>5. CASE (m # p \/ y # d) /\ (o # p \/ z # d)
    <3>1. h[m].link[y] = h[o].link[z] /\ h[m].link[y] # NoNode
      BY <2>1, <2>3, <2>5
    <3> QED BY <2>1, <3>1 DEF InOrder, Once
  <2> QED BY <2>4, <2>5
<1>18. Disjoint(h2, B2)
  <2> SUFFICES ASSUME NEW m \in InTree(h2), NEW o \in InTree(h2), NEW y \in Dir, NEW z \in Dir, NEW x \in Nat,
                      h2[m].link[y] = NoNode, h2[o].link[z] = NoNode,
                      Covers(h2, B2, m, y, x), Covers(h2, B2, o, z, x)
               PROVE  m = o /\ y = z
    BY DEF Disjoint
  <2>1. ASSUME NEW k \in InTree(h2), NEW w \in Dir, h2[k].link[w] = NoNode, Covers(h2, B2, k, w, x), k # n
        PROVE  k \in InTree(h) /\ (k # p \/ w # d) /\ h[k].link[w] = NoNode /\ Covers(h, B, k, w, x)
    BY <2>1, <1>1, <1>3, <1>4, <1>5, <1>9
  <2>2. \A w \in Dir : Covers(h2, B2, n, w, x) => Covers(h, B, p, d, x)
    BY <1>10
  <2>3. CASE m = n /\ o = n
    BY <2>3, <1>10, Places
  <2>4. CASE m # n \/ o # n
    <3>1. Disjoint(h, B)
      BY DEF InOrder
    <3>2. CASE m # n /\ o # n
      BY <2>1, <3>1, <3>2 DEF Disjoint
    <3>3. CASE m # n /\ o = n
      BY <2>1, <2>2, <3>1, <3>3 DEF Disjoint
    <3>4. CASE m = n /\ o # n
      BY <2>1, <2>2, <3>1, <3>4 DEF Disjoint
    <3> QED BY <2>4, <3>2, <3>3, <3>4
  <2> QED BY <2>3, <2>4
<1>19. InOrder(h2, B2)
  BY <1>7, <1>12, <1>13, <1>14, <1>15, <1>16, <1>17, <1>18 DEF InOrder
<1> QED BY <1>5, <1>11, <1>19 DEF B2

-----------------------------------------------------------------------------
(* The same nodes with other colours. *)
SameButRed(h, h2) ==
  \A m \in Place : h2[m].text = h[m].text /\ h2[m].ordinal = h[m].ordinal /\ h2[m].link = h[m].link

(* Colours have no part in the order of the texts. *)
LEMMA RepaintKeepsOrder ==
  ASSUME NEW h, NEW B, InOrder(h, B), NEW h2 \in Nodes, SameButRed(h, h2)
  PROVE  InOrder(h2, B) /\ Used(h2) = Used(h) /\ InTree(h2) = InTree(h)
<1>1. Used(h2) = Used(h) /\ InTree(h2) = InTree(h)
  BY Places DEF SameButRed, Used, InTree
<1>2. \A m \in InTree(h) : m \in Place /\ h2[m].text = h[m].text /\ h2[m].link = h[m].link
  BY Places DEF SameButRed, Used, InTree
<1>3. \A m \in Used(h) : h2[m].text = h[m].text
  BY <1>2 DEF InTree
<1>4. \A m \in InTree(h), d, x \in Dir : Edge(h2, B, m, d, x) = Edge(h, B, m, d, x)
  BY <1>2 DEF Edge
<1>5. \A m \in InTree(h), d \in Dir : \A x :
        /\ InPart(h2, B, m, d, x) <=> InPart(h, B, m, d, x)
        /\ Covers(h2, B, m, d, x) <=> Covers(h, B, m, d, x)
  BY <1>4, Places DEF InPart, Covers
<1>6. Rooted(h2)
  BY Places DEF InOrder, Rooted, SameButRed
<1>7. Distinct(h2)
  BY <1>1, <1>3 DEF InOrder, Distinct
<1>8. Bounded(h2, B)
  BY <1>1, <1>2 DEF InOrder, Bounded
<1>9. Leads(h2, B)
  BY <1>1, <1>2, <1>4 DEF InOrder, Leads
<1>10. Bare(h2, B)
  BY <1>1, <1>2, <1>3, <1>5 DEF InOrder, Bare
<1>11. Once(h2)
  BY <1>1, <1>2 DEF InOrder, Once
<1>12. Disjoint(h2, B)
  BY <1>1, <1>2, <1>5 DEF InOrder, Disjoint
<1> QED BY <1>1, <1>6, <1>7, <1>8, <1>9, <1>10, <1>11, <1>12 DEF InOrder

Calm(h, q) == q \in Used(h) /\ ~ h[q].red /\ \A d \in Dir : ~ nodeIsRed(h, h[q].link[d])

(* The flip of the colours at q, whose children are red. *)
Flipped(h, q) ==
  [n \in DOMAIN h |-> [h[n] EXCEPT !.red = n = q \/ (@ /\ \A d \in Dir : n # h[q].link[d])]]

(* What the flip of the colours makes of the nodes. *)
LEMMA FlippedIs ==
  ASSUME NEW h \in Nodes, NEW q
  PROVE  /\ Flipped(h, q) \in Nodes /\ SameButRed(h, Flipped(h, q))
         /\ \A m \in Place : Flipped(h, q)[m].red <=> m = q \/ (h[m].red /\ \A d \in Dir : m # h[q].link[d])
<1>1. ASSUME NEW m \in Place
      PROVE  /\ Flipped(h, q)[m] \in SearchNode
             /\ Flipped(h, q)[m].text = h[m].text /\ Flipped(h, q)[m].ordinal = h[m].ordinal
             /\ Flipped(h, q)[m].link = h[m].link
             /\ Flipped(h, q)[m].red <=> m = q \/ (h[m].red /\ \A d \in Dir : m # h[q].link[d])
  <2> DEFINE b == m = q \/ (h[m].red /\ \A d \in Dir : m # h[q].link[d])
  <2>1. Flipped(h, q)[m] = [h[m] EXCEPT !.red = b]
    BY DEF Flipped, Nodes
  <2>2. b \in BOOLEAN
    OBVIOUS
  <2> HIDE DEF b
  <2>3. h[m] \in SearchNode
    BY NodeFields
  <2>4. [h[m] EXCEPT !.red = b] \in SearchNode /\ [h[m] EXCEPT !.red = b].red = b
        /\ [h[m] EXCEPT !.red = b].text = h[m].text /\ [h[m] EXCEPT !.red = b].ordinal = h[m].ordinal
        /\ [h[m] EXCEPT !.red = b].link = h[m].link
    BY <2>2, <2>3 DEF SearchNode
  <2>5. Flipped(h, q)[m].red <=> b
    BY <2>1, <2>2, <2>4
  <2> QED BY <2>1, <2>4, <2>5 DEF b
<1>2. Flipped(h, q) \in Nodes
  <2>1. Flipped(h, q) = [m \in Place |-> Flipped(h, q)[m]]
    BY DEF Flipped, Nodes
  <2> QED BY <1>1, <2>1 DEF Nodes
<1> QED BY <1>1, <1>2 DEF SameButRed

(* The flip of the colours keeps order and heights: the only red node that *)
(* may be left under a red one is q.                                       *)
LEMMA FlipKeeps ==
  ASSUME NEW h, NEW B, NEW H, InOrder(h, B), OfHeight(h, H), Coloured(h), Clean(h),
         NEW n, NEW e, NEW q, Under(h, n, e, q), \A d \in Dir : nodeIsRed(h, h[q].link[d]),
         NEW h2, h2 = Flipped(h, q)
  PROVE  /\ h2 \in Nodes /\ SameButRed(h, h2) /\ InOrder(h2, B) /\ Used(h2) = Used(h)
         /\ \E H2 : OfHeight(h2, H2)
         /\ Clean(h2) /\ nodeIsRed(h2, q) /\ RedPair(h2, n, q)
         /\ \A d \in Dir : Calm(h2, h2[q].link[d])
         /\ \A m \in Place : m # q /\ h2[m].red => h[m].red
<1> DEFINE k == H[h[q].link[0]]
           below == {h[q].link[d] : d \in Dir}
           H2 == [x \in Link |-> IF x \in below THEN H[x] + 1 ELSE H[x]]
<1>1. /\ q \in Used(h) /\ q \in InTree(h) /\ q \in Place /\ q # NoNode /\ n \in InTree(h) /\ q # Top
      /\ e \in Dir /\ h[n].link[e] = q
  BY Descend DEF Under
<1>2. h \in Nodes /\ H \in Heights /\ H[NoNode] = 1
  BY DEF InOrder, OfHeight
<1>3. /\ h2 \in Nodes /\ SameButRed(h, h2)
      /\ \A m \in Place : h2[m].red <=> m = q \/ (h[m].red /\ \A d \in Dir : m # h[q].link[d])
  BY <1>2, FlippedIs
<1>4. InOrder(h2, B) /\ Used(h2) = Used(h)
  BY <1>3, RepaintKeepsOrder
<1>5. ASSUME NEW d \in Dir
      PROVE  /\ Under(h, q, d, h[q].link[d]) /\ h[q].link[d] \in Used(h) /\ h[q].link[d] # q
             /\ h[q].link[d] # NoNode /\ h[q].link[d] \in below /\ h[q].link[d] \in Place /\ h[h[q].link[d]].red
  <2>1. nodeIsRed(h, h[q].link[d])
    OBVIOUS
  <2>2. h[q].link[d] # NoNode /\ h[h[q].link[d]].red
    BY <2>1 DEF nodeIsRed
  <2>3. Under(h, q, d, h[q].link[d])
    BY <1>1, <2>2 DEF Under
  <2> QED BY <2>2, <2>3, Descend
<1>6. ~ h[q].red
  BY <1>1, <1>5, Places DEF Coloured
(* A node below q is linked from q alone. *)
<1>7. \A m \in InTree(h), x \in Dir : h[m].link[x] \in below => m = q
  <2>1. Once(h)
    BY DEF InOrder
  <2> SUFFICES ASSUME NEW m \in InTree(h), NEW x \in Dir, NEW d \in Dir, h[m].link[x] = h[q].link[d] PROVE m = q
    OBVIOUS
  <2> QED BY <1>1, <1>5, <2>1 DEF Once
<1>8. \A m \in Used(h) : m \in Place /\ m \in InTree(h) /\ m \in Link
  BY Places DEF InTree, Used, Link
<1>9. q \notin below /\ below \subseteq Used(h)
  BY <1>5
<1>10. \A m \in Place : h2[m].red <=> m = q \/ (h[m].red /\ m \notin below)
  BY <1>3
<1> HIDE DEF below
<1>11. H2 \in Heights /\ H2[NoNode] = 1 /\ \A x \in Link : H2[x] = IF x \in below THEN H[x] + 1 ELSE H[x]
  <2>1. NoNode \in Link /\ NoNode \notin below
    BY <1>9, <1>8, Places DEF Link
  <2>2. \A x \in Link : H[x] \in Nat \ {0}
    BY <1>2 DEF Heights
  <2> QED BY <1>2, <2>1, <2>2 DEF Heights
<1> HIDE DEF H2
<1>12. OfHeight(h2, H2)
  <2> SUFFICES ASSUME NEW m \in Used(h), NEW d \in Dir
               PROVE  H2[m] = H2[h2[m].link[d]] + (IF h2[m].red THEN 0 ELSE 1)
    BY <1>4, <1>11 DEF OfHeight, HeightAt
  <2>1. h2[m].link = h[m].link /\ h[m].link[d] \in Link /\ m \in Place /\ m \in Link /\ m \in InTree(h)
    BY <1>2, <1>3, <1>8, NodeFields DEF SameButRed
  <2>2. H[m] = H[h[m].link[d]] + (IF h[m].red THEN 0 ELSE 1)
    BY DEF OfHeight, HeightAt
  <2>3. H[m] \in Nat /\ H[h[m].link[d]] \in Nat
    BY <1>2, <2>1 DEF Heights
  <2>4. CASE m = q
    <3>1. H2[q] = H[q] /\ H2[h[q].link[d]] = H[h[q].link[d]] + 1 /\ h2[q].red
      BY <1>1, <1>5, <1>8, <1>9, <1>10, <1>11
    <3> QED BY <2>1, <2>2, <2>3, <2>4, <3>1, <1>6
  <2>5. CASE m # q
    <3>1. H2[h[m].link[d]] = H[h[m].link[d]]
      BY <2>1, <2>5, <1>7, <1>11
    <3>2. CASE m \in below
      <4>1. h[m].red /\ ~ h2[m].red
        BY <2>1, <2>5, <3>2, <1>5, <1>10 DEF below
      <4>2. H2[m] = H[m] + 1
        BY <2>1, <3>2, <1>11
      <4> QED BY <2>1, <2>2, <2>3, <3>1, <4>1, <4>2
    <3>3. CASE m \notin below
      <4>1. h2[m].red <=> h[m].red
        BY <2>1, <2>5, <3>3, <1>10
      <4>2. H2[m] = H[m]
        BY <2>1, <3>3, <1>11
      <4> QED BY <2>1, <2>2, <3>1, <4>1, <4>2
    <3> QED BY <3>2, <3>3
  <2> QED BY <2>4, <2>5
<1>13. RedPair(h2, n, q)
  <2> SUFFICES ASSUME NEW m \in Used(h), NEW d \in Dir, h2[m].red, nodeIsRed(h2, h2[m].link[d])
               PROVE  m = n /\ h2[m].link[d] = q
    BY <1>4 DEF RedPair
  <2>1. h2[m].link = h[m].link /\ m \in Place /\ h[m].link[d] \in Link /\ m \in InTree(h)
    BY <1>2, <1>3, <1>8, NodeFields DEF SameButRed
  <2>2. h[m].link[d] \in Place /\ h2[h[m].link[d]].red /\ h[m].link[d] # NoNode
    BY <2>1 DEF nodeIsRed, Link, Place
  <2>3. m # q
    <3>1. SUFFICES ASSUME m = q PROVE FALSE
      OBVIOUS
    <3>2. h[q].link[d] \in below /\ h[q].link[d] # q
      BY <1>5
    <3> QED BY <2>2, <3>1, <3>2, <1>10
  <2>4. h[m].red
    BY <2>1, <2>3, <1>10
  <2>5. h[m].link[d] = q
    <3>1. SUFFICES ASSUME h[m].link[d] # q PROVE FALSE
      BY <2>1
    <3>2. h[h[m].link[d]].red
      BY <2>2, <3>1, <1>10
    <3> QED BY <2>2, <2>4, <3>2 DEF Coloured, nodeIsRed
  <2>6. Once(h)
    BY DEF InOrder
  <2> QED BY <2>1, <2>5, <2>6, <1>1 DEF Once
<1>14. Clean(h2)
  <2>1. ~ h2[Top].red
    BY <1>1, <1>10, Places DEF Clean
  <2>2. ASSUME NEW m \in Allocated, h2[m].text = 0 PROVE h2[m] = Free
    <3>1. m \in Place /\ m \notin Used(h) /\ h[m] = Free /\ m # q
      BY <2>2, <1>1, <1>3, Places DEF SameButRed, Used, Clean
    <3>2. h2[m].text = h[m].text /\ h2[m].ordinal = h[m].ordinal /\ h2[m].link = h[m].link /\ ~ h2[m].red
      BY <3>1, <1>3, <1>10 DEF SameButRed, Free
    <3>3. h2[m] \in SearchNode /\ h[m] \in SearchNode /\ ~ h[m].red
      BY <3>1, <1>2, <1>3, NodeFields DEF Free
    <3>4. h2[m].red = FALSE /\ h[m].red = FALSE
      BY <3>2, <3>3 DEF SearchNode
    <3> QED BY <3>1, <3>2, <3>3, <3>4 DEF SearchNode
  <2> QED BY <2>1, <2>2 DEF Clean
<1>15. ASSUME NEW d \in Dir PROVE Calm(h2, h2[q].link[d])
  <2>1. h2[q].link = h[q].link
    BY <1>1, <1>3 DEF SameButRed
  <2> DEFINE c == h[q].link[d]
  <2>2. c \in Used(h) /\ c # q /\ c \in below /\ c \in Place /\ h[c].red /\ c # NoNode
    BY <1>5
  <2>3. ~ h2[c].red
    BY <2>2, <1>10
  <2>4. ASSUME NEW x \in Dir PROVE ~ nodeIsRed(h2, h2[c].link[x])
    <3>1. h2[c].link = h[c].link /\ h[c].link[x] \in Link
      BY <2>2, <1>2, <1>3, NodeFields DEF SameButRed
    <3>2. ~ nodeIsRed(h, h[c].link[x])
      BY <2>2 DEF Coloured
    <3>3. h[c].link[x] # q
      <4>1. Under(h, q, d, c)
        BY <1>5
      <4>2. SUFFICES ASSUME h[c].link[x] = q PROVE FALSE
        OBVIOUS
      <4>3. Under(h, c, x, q)
        BY <4>2, <2>2, <1>1, <1>8 DEF Under
      <4> QED BY <4>1, <4>3, TwoDown
    <3> QED BY <3>1, <3>2, <3>3, <1>10 DEF nodeIsRed, Link, Place
  <2> QED BY <2>1, <2>2, <2>3, <2>4, <1>4 DEF Calm
<1>16. nodeIsRed(h2, q) /\ \A m \in Place : m # q /\ h2[m].red => h[m].red
  BY <1>1, <1>10 DEF nodeIsRed
<1> QED BY <1>3, <1>4, <1>12, <1>13, <1>14, <1>15, <1>16

-----------------------------------------------------------------------------
(* The tree between calls. *)
RedBlack(h) == Coloured(h) /\ Clean(h) /\ (\E B : InOrder(h, B)) /\ \E H : OfHeight(h, H)
Hooked(h, r) == [h EXCEPT ![Top].link[1] = r]
IdleAt(h, r) == h \in Nodes /\ h[Top] = Free /\ r \in Link /\ ~ nodeIsRed(h, r) /\ RedBlack(Hooked(h, r))
Members(h) == {<<h[n].text, h[n].ordinal>> : n \in Used(h)}

(* The side a node is linked on can be read from side 1. *)
LEMMA DirIs ==
  ASSUME NEW h, NEW B, InOrder(h, B), NEW n, NEW e, NEW c, Under(h, n, e, c)
  PROVE  DirOf(h[n].link[1] = c) = e
<1>1. n \in InTree(h) /\ e \in Dir /\ h[n].link[e] = c /\ c # NoNode /\ Once(h) /\ 0 \in Dir /\ 1 \in Dir
  BY Places DEF Under, InOrder
<1>2. CASE e = 1
  BY <1>1, <1>2 DEF DirOf
<1>3. CASE e = 0
  <2>1. h[n].link[1] # c
    BY <1>1, <1>3 DEF Once
  <2> QED BY <2>1, <1>3 DEF DirOf
<1> QED BY <1>1, <1>2, <1>3, Places

(* The root painted black. *)
LEMMA BlackRoot ==
  ASSUME NEW h, NEW B, NEW H, InOrder(h, B), OfHeight(h, H), Coloured(h), Clean(h),
         NEW h2 \in Nodes, SameButRed(h, h2),
         \A m \in Place : h2[m].red <=> h[m].red /\ m # h[Top].link[1]
  PROVE  RedBlack(h2)
<1> DEFINE r == h[Top].link[1]
           H2 == [x \in Link |-> IF x = r /\ nodeIsRed(h, r) THEN H[x] + 1 ELSE H[x]]
<1>1. InOrder(h2, B) /\ Used(h2) = Used(h)
  BY RepaintKeepsOrder
<1>2. h \in Nodes /\ H \in Heights /\ H[NoNode] = 1 /\ Once(h) /\ Top \in InTree(h) /\ 1 \in Dir
  BY Places DEF InOrder, OfHeight, InTree
<1>3. \A m \in Used(h) : m \in Place /\ m \in InTree(h) /\ m \in Link /\ m # Top /\ m # NoNode
  BY Places DEF InTree, Used, Link
<1>4. \A m \in Used(h), d \in Dir : h[m].link[d] = r => r = NoNode
  BY <1>2, <1>3 DEF Once
<1>5. H2 \in Heights /\ H2[NoNode] = 1 /\ \A x \in Link : H2[x] = IF x = r /\ nodeIsRed(h, r) THEN H[x] + 1 ELSE H[x]
  <2>1. NoNode \in Link /\ ~ nodeIsRed(h, NoNode)
    BY DEF Link, nodeIsRed
  <2>2. \A x \in Link : H[x] \in Nat \ {0}
    BY <1>2 DEF Heights
  <2> QED BY <1>2, <2>1, <2>2 DEF Heights
<1> HIDE DEF H2
<1>6. OfHeight(h2, H2)
  <2> SUFFICES ASSUME NEW m \in Used(h), NEW d \in Dir
               PROVE  H2[m] = H2[h2[m].link[d]] + (IF h2[m].red THEN 0 ELSE 1)
    BY <1>1, <1>5 DEF OfHeight, HeightAt
  <2>1. h2[m].link = h[m].link /\ h[m].link[d] \in Link
    BY <1>2, <1>3, NodeFields DEF SameButRed
  <2>2. H[m] = H[h[m].link[d]] + (IF h[m].red THEN 0 ELSE 1)
    BY DEF OfHeight, HeightAt
  <2>3. H[m] \in Nat /\ H[h[m].link[d]] \in Nat
    BY <1>2, <1>3, <2>1 DEF Heights
  <2>4. H2[h[m].link[d]] = H[h[m].link[d]]
    BY <2>1, <1>4, <1>5 DEF nodeIsRed
  <2>5. CASE m = r /\ h[m].red
    <3>1. H2[m] = H[m] + 1 /\ ~ h2[m].red
      BY <1>3, <1>5, <2>5 DEF nodeIsRed
    <3>2. H[m] = H[h[m].link[d]]
      BY <2>2, <2>3, <2>5
    <3>3. H2[h2[m].link[d]] = H[m]
      BY <2>1, <2>4, <3>2
    <3>4. H2[m] = H2[h2[m].link[d]] + 1
      BY <3>1, <3>3
    <3> QED BY <3>1, <3>4
  <2>6. CASE ~ (m = r /\ h[m].red)
    <3>1. H2[m] = H[m]
      BY <1>3, <1>5, <2>6 DEF nodeIsRed
    <3>2. h2[m].red <=> h[m].red
      BY <1>3, <2>6
    <3> QED BY <2>1, <2>2, <2>4, <3>1, <3>2
  <2> QED BY <2>5, <2>6
<1>7. Coloured(h2)
  <2> SUFFICES ASSUME NEW m \in Used(h), NEW d \in Dir, h2[m].red, nodeIsRed(h2, h2[m].link[d]) PROVE FALSE
    BY <1>1 DEF Coloured
  <2>1. h2[m].link = h[m].link /\ h[m].link[d] \in Link /\ h[m].red
    BY <1>2, <1>3, NodeFields DEF SameButRed
  <2>2. nodeIsRed(h, h[m].link[d])
    BY <2>1 DEF nodeIsRed, Link, Place
  <2> QED BY <2>1, <2>2 DEF Coloured
<1>8. Clean(h2)
  <2>1. ~ h2[Top].red
    BY Places DEF Clean
  <2>2. ASSUME NEW m \in Allocated, h2[m].text = 0 PROVE h2[m] = Free
    <3>1. m \in Place /\ h[m] = Free
      BY <2>2, Places DEF SameButRed, Clean
    <3>2. h2[m].text = h[m].text /\ h2[m].ordinal = h[m].ordinal /\ h2[m].link = h[m].link
      BY <3>1 DEF SameButRed
    <3>3. h2[m] \in SearchNode /\ h[m] \in SearchNode /\ ~ h[m].red
      BY <3>1, <1>2, NodeFields DEF Free
    <3>4. h2[m].red = FALSE /\ h[m].red = FALSE
      BY <3>1, <3>3 DEF SearchNode
    <3> QED BY <3>1, <3>2, <3>3, <3>4 DEF SearchNode
  <2> QED BY <2>1, <2>2 DEF Clean
<1> QED BY <1>1, <1>6, <1>7, <1>8 DEF RedBlack

(* The nodes at the end of a call. *)
Ended(h, r) == IF r = NoNode THEN [h EXCEPT ![Top] = Free] ELSE [[h EXCEPT ![Top] = Free] EXCEPT ![r].red = FALSE]

(* The end of a call leaves the tree as it is between calls. *)
LEMMA EndKeeps ==
  ASSUME NEW h, NEW B, NEW H, InOrder(h, B), OfHeight(h, H), Coloured(h), Clean(h),
         NEW r, r = h[Top].link[1], NEW h2,
         h2 = Ended(h, r)
  PROVE  IdleAt(h2, r) /\ Members(h2) = Members(h)
<1> DEFINE h3 == Hooked(h2, r)
<1>1. h \in Nodes /\ Top \in Place /\ r \in Link /\ (r # NoNode => r \in Place /\ r # Top) /\ Top \in InTree(h) /\ 1 \in Dir
      /\ 0 \in Dir /\ Free \in SearchNode
  <2>1. h \in Nodes /\ Top \in Place /\ 1 \in Dir /\ 0 \in Dir /\ Top \in InTree(h)
    BY Places DEF InOrder, InTree
  <2>2. r \in Link
    BY <2>1, NodeFields
  <2>3. r # NoNode => r \in Place /\ r # Top
    BY <2>2, Places DEF Link
  <2>4. Free \in SearchNode
    BY DEF Free, SearchNode, Link
  <2> QED BY <2>1, <2>2, <2>3, <2>4
<1>2. \A m \in Place : h2[m] = IF m = Top THEN Free ELSE IF m = r THEN [h[m] EXCEPT !.red = FALSE] ELSE h[m]
  BY <1>1, Places DEF Nodes, Ended
<1>3. \A m \in Place : h[m] \in SearchNode /\ [h[m] EXCEPT !.red = FALSE] \in SearchNode
  BY <1>1, NodeFields DEF SearchNode
<1>4. h2 \in Nodes
  <2>1. h2 = [m \in Place |-> h2[m]]
    BY <1>1 DEF Nodes, Ended
  <2>2. \A m \in Place : h2[m] \in SearchNode
    BY <1>1, <1>2, <1>3
  <2> QED BY <2>1, <2>2 DEF Nodes
<1>5. \A m \in Place : m # Top =>
        /\ h2[m].text = h[m].text /\ h2[m].ordinal = h[m].ordinal /\ h2[m].link = h[m].link
        /\ h2[m].red <=> h[m].red /\ m # r
  <2> SUFFICES ASSUME NEW m \in Place, m # Top
               PROVE  /\ h2[m].text = h[m].text /\ h2[m].ordinal = h[m].ordinal /\ h2[m].link = h[m].link
                      /\ h2[m].red <=> h[m].red /\ m # r
    OBVIOUS
  <2>1. CASE m = r
    <3>1. h2[m] = [h[m] EXCEPT !.red = FALSE] /\ h[m] \in SearchNode
      BY <2>1, <1>2, <1>3
    <3>2. h2[m].text = h[m].text /\ h2[m].ordinal = h[m].ordinal /\ h2[m].link = h[m].link /\ h2[m].red = FALSE
      BY <3>1 DEF SearchNode
    <3> QED BY <2>1, <3>2
  <2>2. CASE m # r
    BY <2>2, <1>2
  <2> QED BY <2>1, <2>2
<1>6. h2[Top] = Free
  BY <1>1, <1>2
<1>7. /\ \A m \in Place : m # Top => h3[m] = h2[m]
      /\ h3 \in Nodes
      /\ h3[Top].text = 0 /\ h3[Top].ordinal = 0 /\ h3[Top].red = FALSE
      /\ h3[Top].link \in [Dir -> Link] /\ h3[Top].link[0] = NoNode /\ h3[Top].link[1] = r
  <2> DEFINE top == [h2[Top] EXCEPT !.link[1] = r]
  <2>1. h3 = [m \in Place |-> IF m = Top THEN top ELSE h2[m]]
    BY <1>1, <1>4 DEF Hooked, Nodes
  <2>2. top \in SearchNode
    BY <1>1, <1>4, NodeFields DEF SearchNode
  <2>3. Free.text = 0 /\ Free.ordinal = 0 /\ Free.red = FALSE /\ Free.link = [d \in Dir |-> NoNode]
    BY DEF Free
  <2>4. h2[Top] \in SearchNode
    BY <1>1, <1>6
  <2>5. top.text = h2[Top].text /\ top.ordinal = h2[Top].ordinal /\ top.red = h2[Top].red
        /\ top.link = [h2[Top].link EXCEPT ![1] = r]
    BY <2>4 DEF SearchNode
  <2>6. top.text = 0 /\ top.ordinal = 0 /\ top.red = FALSE
    BY <2>3, <2>5, <1>6
  <2>7. top.link \in [Dir -> Link] /\ top.link[0] = NoNode /\ top.link[1] = r
    <3>1. top.link = [[d \in Dir |-> NoNode] EXCEPT ![1] = r]
      BY <2>3, <2>5, <1>6
    <3>2. NoNode \in Link
      BY DEF Link
    <3> HIDE DEF top
    <3> QED BY <3>1, <3>2, <1>1, Places
  <2> HIDE DEF top
  <2>8. \A m \in Place : m # Top => h2[m] \in SearchNode
    BY <1>4, NodeFields
  <2>9. \A m \in Place : h3[m] = IF m = Top THEN top ELSE h2[m]
    BY <2>1
  <2>10. h3 \in Nodes
    BY <2>1, <2>2, <2>8 DEF Nodes
  <2> HIDE DEF h3
  <2> QED BY <1>1, <2>6, <2>7, <2>9, <2>10
<1> HIDE DEF h3
<1>8. h[Top].link = h3[Top].link
  <2>1. h[Top].link \in [Dir -> Link] /\ h[Top].link[0] = NoNode
    BY <1>1, NodeFields DEF InOrder, Rooted
  <2> QED BY <2>1, <1>7, Places
<1>9. SameButRed(h, h3)
  <2>1. h[Top].text = 0 /\ h[Top].ordinal = 0
    BY DEF InOrder, Rooted
  <2>2. \A m \in Place : m # Top => h3[m].text = h[m].text /\ h3[m].ordinal = h[m].ordinal /\ h3[m].link = h[m].link
    BY <1>5, <1>7
  <2> QED BY <2>1, <2>2, <1>7, <1>8 DEF SameButRed
<1>10. \A m \in Place : h3[m].red <=> h[m].red /\ m # r
  BY <1>5, <1>7 DEF Clean
<1>11. RedBlack(h3)
  BY <1>7, <1>9, <1>10, BlackRoot
<1>12. Members(h2) = Members(h)
  <2>1. \A m \in Allocated : h2[m].text = h[m].text /\ h2[m].ordinal = h[m].ordinal
    BY <1>5, Places
  <2>2. Used(h2) = Used(h)
    BY <2>1 DEF Used
  <2> QED BY <2>1, <2>2 DEF Members, Used
<1>13. ~ nodeIsRed(h2, r)
  BY <1>1, <1>5 DEF nodeIsRed
<1> QED BY <1>1, <1>4, <1>6, <1>11, <1>12, <1>13 DEF IdleAt, h3

-----------------------------------------------------------------------------
(* Nodes on a way down are different ones. *)
LEMMA Apart ==
  ASSUME NEW h, NEW B, InOrder(h, B), NEW t, NEW e, NEW g, Under(h, t, e, g), NEW l, NEW p, Under(h, g, l, p),
         NEW f, NEW q, Under(h, p, f, q)
  PROVE  /\ g \in Used(h) /\ p \in Used(h) /\ q \in Used(h) /\ q \notin {t, g, p} /\ p \notin {t, g} /\ g # t
         /\ \A d \in Dir : h[q].link[d] # NoNode =>
              h[q].link[d] \in Used(h) /\ h[q].link[d] \notin {t, g, p, q}
<1>1. g \in Used(h) /\ p \in Used(h) /\ q \in Used(h) /\ q \in InTree(h) /\ h[q].text \in Nat /\ Within(B[q], h[q].text)
      /\ g # t /\ p # g /\ q # p
  BY Descend
<1>2. p # t /\ q # g /\ (\A x \in Nat : Within(B[p], x) => x # h[t].text) /\ (\A x \in Nat : Within(B[q], x) => x # h[g].text)
  BY TwoDown
<1>3. \A x \in Nat : Within(B[q], x) => Within(B[p], x) /\ x # h[p].text
  BY Descend
<1>4. q # t
  BY <1>1, <1>2, <1>3
<1>5. ASSUME NEW d \in Dir, h[q].link[d] # NoNode
      PROVE  h[q].link[d] \in Used(h) /\ h[q].link[d] \notin {t, g, p, q}
  <2> DEFINE c == h[q].link[d]
  <2>1. Under(h, q, d, c)
    BY <1>1, <1>5 DEF Under
  <2>2. c \in Used(h) /\ c # q /\ h[c].text \in Nat /\ Within(B[c], h[c].text)
        /\ \A x \in Nat : Within(B[c], x) => Within(B[q], x)
    BY <2>1, Descend
  <2>3. Within(B[q], h[c].text)
    BY <2>2
  <2> QED BY <2>2, <2>3, <1>2, <1>3
<1> QED BY <1>1, <1>2, <1>4, <1>5

(* What a fix of two red nodes asks for. *)
Fixable(h, q) ==
  /\ nodeIsRed(h, q) /\ nodeIsRed(h, walk.parent) /\ RedPair(h, walk.parent, q)
  /\ Under(h, walk.parent, walk.dir, q) /\ Under(h, walk.gparent, walk.last, walk.parent)
  /\ (\E e : Under(h, walk.t, e, walk.gparent)) /\ ~ nodeIsRed(h, h[walk.gparent].link[1 - walk.last])

(* Where the walk is after it: x is the text on its way. *)
Fine(h, q, f) == h[walk.parent].link[walk.dir] = q /\ h[q].red /\ Calm(h, h[q].link[f])
Twisted(h, q, f, x) ==
  /\ ~ h[q].red /\ nodeIsRed(h, h[q].link[f])
  /\ Calm(h, h[h[q].link[f]].link[DirOf(x > h[h[q].link[f]].text)])

(* FixedRed leaves no two red nodes in a row, and keeps order and heights. *)
LEMMA FixKeeps ==
  ASSUME NEW h, NEW B, NEW H, InOrder(h, B), OfHeight(h, H), Clean(h), NEW q, Fixable(h, q),
         NEW h2, h2 = FixedRed(h, q)
  PROVE  /\ h2 \in Nodes /\ Used(h2) = Used(h)
         /\ \A m \in Place : h2[m].text = h[m].text /\ h2[m].ordinal = h[m].ordinal
         /\ \E B2 : InOrder(h2, B2) /\ \A x \in Nat : Within(B[q], x) => Within(B2[q], x)
         /\ \E H2 : OfHeight(h2, H2)
         /\ Coloured(h2) /\ Clean(h2)
         /\ \A x \in Nat : LET f == DirOf(x > h[q].text) IN
              (\A d \in Dir : Calm(h, h[q].link[d])) /\ Within(B[q], x) /\ x # h[q].text
                => Fine(h2, q, f) \/ Twisted(h2, q, f, x)
<1> DEFINE p == walk.parent
           g == walk.gparent
           t == walk.t
           l == walk.last
<1>1. PICK e : Under(h, t, e, g)
  BY DEF Fixable
<1>2. /\ Under(h, g, l, p) /\ Under(h, p, walk.dir, q) /\ nodeIsRed(h, p) /\ nodeIsRed(h, q)
      /\ ~ nodeIsRed(h, h[g].link[1 - l]) /\ RedPair(h, p, q)
  BY DEF Fixable
<1>3. DirOf(h[t].link[1] = g) = e
  BY <1>1, DirIs
<1>4. h2 = Hung(h, t, e, IF q = h[p].link[l] THEN rotateSingle(h, g, 1 - l) ELSE rotateDouble(h, g, 1 - l))
  BY <1>2, <1>3 DEF FixedRed
<1>5. /\ g \in Used(h) /\ p \in Used(h) /\ q \in Used(h) /\ q \notin {t, g, p} /\ p \notin {t, g} /\ g # t
      /\ \A d \in Dir : h[q].link[d] # NoNode => h[q].link[d] \in Used(h) /\ h[q].link[d] \notin {t, g, p, q}
  BY <1>1, <1>2, Apart
<1>6. /\ l \in Dir /\ walk.dir \in Dir /\ e \in Dir /\ 1 - l \in Dir /\ 1 - (1 - l) = l /\ \A x \in Dir : x = l \/ x = 1 - l
      /\ q = h[p].link[walk.dir] /\ Once(h) /\ p \in InTree(h) /\ q # NoNode /\ h \in Nodes /\ 1 - l # l
  BY <1>1, <1>2, Opposite DEF Under, InOrder
<1>7. \A m \in Used(h) : m \in Place /\ m \in InTree(h)
  BY Places DEF Used, InTree
<1>8. \A x \in Nat : DirOf(x > h[q].text) \in Dir
  BY Places DEF DirOf
<1> HIDE DEF p, g, t, l
<1>9. CASE q = h[p].link[l]
  <2>1. walk.dir = l /\ Under(h, p, l, q)
    <3>1. walk.dir = l
      <4>1. h[p].link[walk.dir] = h[p].link[l] /\ h[p].link[l] # NoNode /\ p \in InTree(h) /\ l \in Dir /\ walk.dir \in Dir
        BY <1>6, <1>9
      <4>2. Once(h)
        BY <1>6
      <4> QED BY <4>1, <4>2 DEF Once
    <3> QED BY <1>2, <3>1
  <2>2. h2 = Hung(h, t, e, rotateSingle(h, g, 1 - l))
    BY <1>4, <1>9
  <2>3. /\ h2 \in Nodes /\ Turned(h, h2, t, e, g, 1 - l) /\ Painted(h, h2, g, p)
        /\ (\E H2 : OfHeight(h2, H2)) /\ Coloured(h2) /\ Clean(h2)
    BY <1>1, <1>2, <2>1, <2>2, FixSingle
  <2>4. Under(h, g, 1 - (1 - l), p)
    BY <1>2, <1>6
  <2>5. /\ InOrder(h2, TurnedBounds(h, B, g, 1 - l)) /\ Used(h2) = Used(h)
        /\ \A m \in Place \ {g}, x \in Nat : Within(B[m], x) => Within(TurnedBounds(h, B, g, 1 - l)[m], x)
    BY <1>1, <1>6, <2>3, <2>4, TurnKeepsOrder
  <2>6. \A m \in Place : h2[m].text = h[m].text /\ h2[m].ordinal = h[m].ordinal
    BY <2>3 DEF Turned
  <2>7. /\ h2[p].link[l] = q
        /\ \A m \in InTree(h) \ {t, g, p}, x \in Dir : h2[m].link[x] = h[m].link[x] /\ h[m].link[x] \notin {g, p}
    <3>1. /\ h2[p].link[1 - (1 - l)] = h[p].link[1 - (1 - l)]
          /\ \A m \in InTree(h) \ {t, g, p}, x \in Dir : h2[m].link[x] = h[m].link[x] /\ h[m].link[x] \notin {g, p}
      <4>1. /\ InOrder(h, B) /\ Under(h, t, e, g) /\ 1 - l \in Dir /\ Under(h, g, 1 - (1 - l), p)
            /\ h2 \in Nodes /\ Turned(h, h2, t, e, g, 1 - l)
        BY <1>1, <1>6, <2>3, <2>4
      <4> QED BY <4>1, TurnLinks
    <3> QED BY <3>1, <1>6, <1>9
  <2>8. \A m \in Place \ {g, p} : h2[m].red <=> h[m].red
    BY <2>3 DEF Painted
  <2>9. ASSUME NEW d \in Dir, Calm(h, h[q].link[d]) PROVE Calm(h2, h2[q].link[d]) /\ h2[q].red
    <3> DEFINE c == h[q].link[d]
    <3>1. h2[q].link[d] = c
      BY <1>5, <1>7, <2>7
    <3>2. c \in Used(h) /\ ~ h[c].red /\ (\A x \in Dir : ~ nodeIsRed(h, h[c].link[x])) /\ c \in Place
      BY <1>7, <2>9 DEF Calm
    <3>3. c \notin {t, g, p} /\ c \in InTree(h)
      BY <3>2, <1>5, <1>7, Places
    <3>4. ASSUME NEW x \in Dir PROVE ~ nodeIsRed(h2, h2[c].link[x])
      <4>1. h2[c].link[x] = h[c].link[x] /\ h[c].link[x] \notin {g, p} /\ h[c].link[x] \in Link
        BY <3>2, <3>3, <1>6, <2>7, NodeFields
      <4>2. ~ nodeIsRed(h, h[c].link[x])
        BY <3>2
      <4> QED BY <4>1, <4>2, <2>8 DEF nodeIsRed, Link, Place
    <3>5. ~ h2[c].red
      BY <3>2, <3>3, <2>8
    <3>6. h2[q].red
      BY <1>2, <1>5, <1>7, <2>8 DEF nodeIsRed
    <3> QED BY <3>1, <3>2, <3>4, <3>5, <3>6, <2>5 DEF Calm
  <2>10. ASSUME NEW x \in Nat, \A d \in Dir : Calm(h, h[q].link[d]) PROVE Fine(h2, q, DirOf(x > h[q].text))
    BY <1>8, <2>1, <2>7, <2>9, <2>10 DEF Fine, p
  <2>11. \A x \in Nat : Within(B[q], x) => Within(TurnedBounds(h, B, g, 1 - l)[q], x)
    BY <1>5, <1>7, <2>5
  <2> QED BY <2>3, <2>5, <2>6, <2>10, <2>11
<1>10. CASE q # h[p].link[l]
  <2>1. walk.dir = 1 - l /\ Under(h, p, 1 - l, q)
    BY <1>2, <1>6, <1>10
  <2>2. h2 = Hung(h, t, e, rotateDouble(h, g, 1 - l))
    BY <1>4, <1>10
  <2>3. /\ h2 \in Nodes /\ Used(h2) = Used(h)
        /\ \A m \in Place : h2[m].text = h[m].text /\ h2[m].ordinal = h[m].ordinal
        /\ \E B2 : InOrder(h2, B2) /\ \A x \in Nat : Within(B[q], x) => Within(B2[q], x)
        /\ \E H2 : OfHeight(h2, H2)
        /\ Coloured(h2) /\ Clean(h2)
        /\ h2[q].link[l] = p /\ h2[q].link[1 - l] = g
        /\ h2[p].link[1 - l] = h[q].link[l] /\ h2[g].link[l] = h[q].link[1 - l]
        /\ \A m \in Used(h) \ {t, g, p, q}, x \in Dir : h2[m].link[x] = h[m].link[x] /\ h[m].link[x] \notin {g, q}
        /\ \A m \in Place \ {g, q} : h2[m].red <=> h[m].red
        /\ ~ h2[q].red /\ h2[p].red /\ h2[g].red
    BY <1>1, <1>2, <2>1, <2>2, FixDouble
  <2>4. ASSUME NEW d \in Dir, Calm(h, h[q].link[d]) PROVE Calm(h2, h[q].link[d])
    <3> DEFINE c == h[q].link[d]
    <3>1. c \in Used(h) /\ ~ h[c].red /\ (\A x \in Dir : ~ nodeIsRed(h, h[c].link[x])) /\ c \in Place
      BY <1>7, <2>4 DEF Calm
    <3>2. c \notin {t, g, p, q} /\ c \in InTree(h)
      BY <3>1, <1>5, <1>7, Places
    <3>3. ASSUME NEW x \in Dir PROVE ~ nodeIsRed(h2, h2[c].link[x])
      <4>0. \A m \in Used(h) \ {t, g, p, q}, y \in Dir : h2[m].link[y] = h[m].link[y] /\ h[m].link[y] \notin {g, q}
        BY <2>3
      <4>1. h2[c].link[x] = h[c].link[x] /\ h[c].link[x] \notin {g, q} /\ h[c].link[x] \in Link
        <5>1. c \in Used(h) \ {t, g, p, q}
          BY <3>1, <3>2
        <5>2. h[c].link[x] \in Link
          BY <3>1, <1>6, NodeFields
        <5> HIDE DEF c
        <5> QED BY <5>1, <5>2, <4>0
      <4>2. ~ nodeIsRed(h, h[c].link[x])
        BY <3>1
      <4> QED BY <4>1, <4>2, <2>3, ZenonT(60) DEF nodeIsRed, Link, Place
    <3>4. ~ h2[c].red
      BY <3>1, <3>2, <2>3
    <3> QED BY <3>1, <3>3, <3>4, <2>3 DEF Calm
  <2>5. ASSUME NEW x \in Nat, \A d \in Dir : Calm(h, h[q].link[d]), Within(B[q], x), x # h[q].text
        PROVE  Twisted(h2, q, DirOf(x > h[q].text), x)
    <3> DEFINE f == DirOf(x > h[q].text)
    <3>1. f \in Dir /\ (f = l \/ f = 1 - l)
      BY <1>6, <1>8
    <3>2. nodeIsRed(h2, h2[q].link[f])
      BY <3>1, <2>3, <1>5, Places DEF nodeIsRed, Used
    <3>3. InPart(h, B, q, f, x) /\ InPart(h, B, p, 1 - l, x) /\ InPart(h, B, g, l, x)
      <4>1. InPart(h, B, q, f, x)
        BY <2>5, <1>5, <1>7, PartsOf
      <4>2. InPart(h, B, p, 1 - l, x)
        BY <2>5, <2>1, <1>6, BelowIs DEF Under
      <4>3. Within(B[p], x)
        BY <4>2, <1>6, PartsOf
      <4>4. InPart(h, B, g, l, x)
        BY <4>3, <1>2, BelowIs DEF Under
      <4> QED BY <4>1, <4>2, <4>4
    <3>4. DirOf(x > h[p].text) = 1 - l /\ DirOf(x > h[g].text) = l
      BY <3>3, <1>5, <1>6, <1>7, PartsOf
    <3>5. /\ h2[q].link[l] = p /\ h2[q].link[1 - l] = g /\ ~ h2[q].red
          /\ h2[p].link[1 - l] = h[q].link[l] /\ h2[g].link[l] = h[q].link[1 - l]
          /\ h2[p].text = h[p].text /\ h2[g].text = h[g].text
      BY <2>3, <1>5, <1>7
    <3>6. Calm(h2, h[q].link[l]) /\ Calm(h2, h[q].link[1 - l])
      BY <2>4, <2>5, <1>6
    <3>7. Calm(h2, h2[h2[q].link[f]].link[DirOf(x > h2[h2[q].link[f]].text)])
      <4>1. CASE f = l
        <5>1. h2[q].link[f] = p /\ DirOf(x > h2[p].text) = 1 - l
          BY <3>4, <3>5, <4>1
        <5> QED BY <3>5, <3>6, <5>1
      <4>2. CASE f = 1 - l
        <5>1. h2[q].link[f] = g /\ DirOf(x > h2[g].text) = l
          BY <3>4, <3>5, <4>2
        <5> QED BY <3>5, <3>6, <5>1
      <4> QED BY <3>1, <4>1, <4>2
    <3> QED BY <3>2, <3>5, <3>7 DEF Twisted
  <2> QED BY <2>3, <2>5
<1> QED BY <1>9, <1>10

-----------------------------------------------------------------------------
(* The walk of an insert. *)
InsertWalks ==
  [op : {"insert"}, text : Nat \ {0}, ordinal : Nat, t : Place, gparent : Link, parent : Link, q : Link,
   dir : Dir, last : Dir]

(* Where the walk came from. *)
FromNode(w) == IF w.parent = NoNode THEN Top ELSE w.parent
FromSide(w) == IF w.parent = NoNode THEN 1 ELSE w.dir

OnWay(h, w) ==
  /\ w.gparent # NoNode => w.parent # NoNode /\ h[w.gparent].link[w.last] = w.parent
  /\ w.gparent = NoNode => w.t = Top /\ (w.parent # NoNode => h[Top].link[1] = w.parent)
  /\ w.parent = NoNode => w.q # NoNode /\ ~ nodeIsRed(h, w.q)
  /\ w.parent # NoNode /\ nodeIsRed(h, w.q) => ~ nodeIsRed(h, h[w.parent].link[1 - w.dir])
  /\ nodeIsRed(h, w.parent) =>
       \/ Calm(h, w.q)
       \/ /\ w.gparent # NoNode /\ (\E e \in Dir : h[w.t].link[e] = w.gparent)
          /\ ~ nodeIsRed(h, h[w.gparent].link[1 - w.last])
AfterTwist(h, w) ==
  /\ w.parent # NoNode /\ ~ nodeIsRed(h, w.parent) /\ nodeIsRed(h, w.q)
  /\ Calm(h, h[w.q].link[DirOf(w.text > h[w.q].text)])
InsertWalk(h, B, w) ==
  /\ w \in InsertWalks /\ <<w.text, w.ordinal>> \in Member
  /\ w.parent \in Used(h) \cup {NoNode} /\ w.gparent \in Used(h) \cup {NoNode} /\ w.t \in InTree(h)
  /\ h[FromNode(w)].link[FromSide(w)] = w.q /\ InPart(h, B, FromNode(w), FromSide(w), w.text)
  /\ OnWay(h, w) \/ AfterTwist(h, w)

(* The walk after an iteration that has come to q. *)
Onward(w, h, q) ==
  [w EXCEPT !.last = w.dir, !.dir = DirOf(w.text > h[q].text), !.gparent = w.parent,
            !.t = IF w.gparent = NoNode THEN @ ELSE w.gparent,
            !.parent = q, !.q = h[q].link[DirOf(w.text > h[q].text)]]

(* The fields of the walk after an iteration. *)
LEMMA OnwardIs ==
  ASSUME NEW w \in InsertWalks, NEW h \in Nodes, NEW q \in Used(h)
  PROVE  LET w2 == Onward(w, h, q)
             d == DirOf(w.text > h[q].text)
         IN  /\ w2 \in InsertWalks /\ d \in Dir /\ w2.text = w.text /\ w2.ordinal = w.ordinal /\ w2.op = "insert"
             /\ w2.last = w.dir /\ w2.dir = d /\ w2.gparent = w.parent /\ w2.parent = q /\ w2.q = h[q].link[d]
             /\ w2.t = IF w.gparent = NoNode THEN w.t ELSE w.gparent
             /\ FromNode(w2) = q /\ FromSide(w2) = d
<1> DEFINE d == DirOf(w.text > h[q].text)
           t2 == IF w.gparent = NoNode THEN w.t ELSE w.gparent
<1>1. d \in Dir
  BY Places DEF DirOf
<1>2. q \in Place /\ q \in Link /\ q # NoNode
  BY Places DEF Used, Link
<1>3. h[q].link[d] \in Link
  BY <1>1, <1>2, NodeFields
<1>4. t2 \in Place
  BY Places DEF InsertWalks, Link
<1> HIDE DEF d, t2
<1>5. Onward(w, h, q) = [w EXCEPT !.last = w.dir, !.dir = d, !.gparent = w.parent, !.t = t2,
                                  !.parent = q, !.q = h[q].link[d]]
  BY DEF Onward, d, t2, InsertWalks
<1>6. /\ Onward(w, h, q) \in InsertWalks
      /\ Onward(w, h, q).text = w.text /\ Onward(w, h, q).ordinal = w.ordinal /\ Onward(w, h, q).op = "insert"
      /\ Onward(w, h, q).last = w.dir /\ Onward(w, h, q).dir = d /\ Onward(w, h, q).gparent = w.parent
      /\ Onward(w, h, q).parent = q /\ Onward(w, h, q).q = h[q].link[d] /\ Onward(w, h, q).t = t2
  BY <1>1, <1>2, <1>3, <1>4, <1>5, ZenonT(60) DEF InsertWalks
<1> QED BY <1>1, <1>2, <1>6 DEF d, t2, FromNode, FromSide

(* The node that a walk comes to, and what it leads on to, when nothing is *)
(* to be fixed.                                                            *)
LEMMA WalkPlace ==
  ASSUME NEW h, NEW B, InOrder(h, B), NEW w, InsertWalk(h, B, w)
  PROVE  /\ FromNode(w) \in InTree(h) /\ FromSide(w) \in Dir /\ w.text \in Nat \ {0} /\ w \in InsertWalks
         /\ w.q # NoNode => /\ Under(h, FromNode(w), FromSide(w), w.q) /\ w.q \in Used(h)
                            /\ Within(B[w.q], w.text)
<1>1. FromNode(w) \in InTree(h) /\ FromSide(w) \in Dir /\ w.text \in Nat \ {0} /\ w \in InsertWalks
  BY Places DEF InsertWalk, InsertWalks, FromNode, FromSide, InTree
<1>2. h[FromNode(w)].link[FromSide(w)] = w.q /\ InPart(h, B, FromNode(w), FromSide(w), w.text)
  BY DEF InsertWalk
<1>3. w.q # NoNode => Under(h, FromNode(w), FromSide(w), w.q)
  BY <1>1, <1>2 DEF Under
<1>4. ASSUME w.q # NoNode PROVE w.q \in Used(h) /\ Within(B[w.q], w.text)
  BY <1>1, <1>2, <1>4, BelowIs
<1> QED BY <1>1, <1>3, <1>4

(* An iteration with nothing to fix keeps what is known of the walk. *)
LEMMA OnwardUnfixed ==
  ASSUME NEW h, NEW B, InOrder(h, B), NEW w \in InsertWalks, NEW q \in Used(h), w.parent \in Used(h) \cup {NoNode},
         Under(h, FromNode(w), FromSide(w), q), w.gparent # NoNode => w.parent # NoNode,
         w.parent = NoNode => w.t = Top,
         ~ (\A d \in Dir : nodeIsRed(h, h[q].link[d])),
         NEW w2, w2 = Onward(w, h, q),
         nodeIsRed(h, q) =>
           \/ Calm(h, w2.q)
           \/ /\ w.parent # NoNode /\ ~ nodeIsRed(h, h[w.parent].link[1 - w.dir])
              /\ \E e \in Dir : h[w2.t].link[e] = w.parent
  PROVE  OnWay(h, w2)
<1> DEFINE f == DirOf(w.text > h[q].text)
<1>1. /\ f \in Dir /\ w2.text = w.text /\ w2.last = w.dir /\ w2.dir = f /\ w2.gparent = w.parent /\ w2.parent = q
      /\ w2.q = h[q].link[f] /\ w2.t = IF w.gparent = NoNode THEN w.t ELSE w.gparent
  BY OnwardIs DEF InOrder
<1>2. h[FromNode(w)].link[FromSide(w)] = q /\ q # NoNode
  BY DEF Under
<1>3. w2.gparent # NoNode => w2.parent # NoNode /\ h[w2.gparent].link[w2.last] = w2.parent
  BY <1>1, <1>2 DEF FromNode, FromSide
<1>4. w2.gparent = NoNode => w2.t = Top /\ h[Top].link[1] = w2.parent
  BY <1>1, <1>2 DEF FromNode, FromSide
<1>5. nodeIsRed(h, w2.q) => ~ nodeIsRed(h, h[w2.parent].link[1 - w2.dir])
  <2>1. f = 0 \/ f = 1
    BY <1>1, Places
  <2>2. ~ (nodeIsRed(h, h[q].link[0]) /\ nodeIsRed(h, h[q].link[1]))
    BY Places
  <2>3. 1 - f = 1 \/ 1 - f = 0
    BY <2>1
  <2>4. CASE f = 0
    BY <1>1, <2>2, <2>4
  <2>5. CASE f = 1
    BY <1>1, <2>2, <2>5
  <2> QED BY <2>1, <2>4, <2>5
<1>6. nodeIsRed(h, w2.parent) =>
        \/ Calm(h, w2.q)
        \/ /\ w2.gparent # NoNode /\ (\E e \in Dir : h[w2.t].link[e] = w2.gparent)
           /\ ~ nodeIsRed(h, h[w2.gparent].link[1 - w2.last])
  BY <1>1
<1> QED BY <1>1, <1>2, <1>3, <1>4, <1>5, <1>6 DEF OnWay

(* The first half of an iteration at a node that is there. *)
LEMMA GrownOld ==
  ASSUME NEW B, NEW H, InOrder(node, B), OfHeight(node, H), Coloured(node), Clean(node),
         InsertWalk(node, B, walk), walk.q # NoNode,
         NEW h, h = Grown.nodes, NEW q, q = walk.q
  PROVE  /\ Grown.q = q /\ q \in Used(h) /\ InOrder(h, B) /\ Used(h) = Used(node) /\ SameButRed(node, h)
         /\ (\E H2 : OfHeight(h, H2)) /\ Clean(h)
         /\ \/ Fixable(h, q) /\ \A d \in Dir : Calm(h, h[q].link[d])
            \/ /\ ~ (nodeIsRed(h, q) /\ nodeIsRed(h, walk.parent))
               /\ Coloured(h) /\ OnWay(h, Onward(walk, h, q))
<1> DEFINE p == walk.parent
           n == FromNode(walk)
           e == FromSide(walk)
<1>1. /\ Under(node, n, e, q) /\ q \in Used(node) /\ walk \in InsertWalks /\ node \in Nodes
      /\ q # NoNode /\ n \in InTree(node) /\ e \in Dir /\ q \in InTree(node) /\ q \in Place
  BY WalkPlace, Places DEF InOrder, InTree, Used
<1>2. /\ p \in Used(node) \cup {NoNode} /\ walk.gparent \in Used(node) \cup {NoNode} /\ walk.t \in InTree(node)
      /\ OnWay(node, walk) \/ AfterTwist(node, walk)
      /\ walk.dir \in Dir /\ walk.last \in Dir /\ walk.parent \in Link
  BY <1>1 DEF InsertWalk, InsertWalks
<1>3. Grown.q = q
  BY DEF Grown
<1>4. walk.gparent # NoNode => p # NoNode
  BY <1>2 DEF OnWay, AfterTwist
<1>5. p = NoNode => walk.t = Top /\ walk.gparent = NoNode
  BY <1>2, <1>4 DEF OnWay, AfterTwist
<1>6. p # NoNode => n = p /\ e = walk.dir /\ p \in Used(node) /\ Under(node, p, walk.dir, q)
  BY <1>1, <1>2 DEF FromNode, FromSide
<1>7. CASE \A d \in Dir : nodeIsRed(node, node[q].link[d])
  <2>1. h = Flipped(node, q)
    BY <1>1, <1>7 DEF Grown, Flipped
  <2>2. /\ h \in Nodes /\ SameButRed(node, h) /\ InOrder(h, B) /\ Used(h) = Used(node)
        /\ (\E H2 : OfHeight(h, H2)) /\ Clean(h) /\ nodeIsRed(h, q) /\ RedPair(h, n, q)
        /\ (\A d \in Dir : Calm(h, h[q].link[d]))
        /\ \A m \in Place : m # q /\ h[m].red => node[m].red
    BY <1>1, <1>7, <2>1, FlipKeeps
  <2>3. ~ nodeIsRed(node, q)
    BY <1>1, <1>7, Places DEF Coloured, nodeIsRed
  <2>4. OnWay(node, walk)
    BY <1>2, <2>3 DEF AfterTwist
  <2>5. \A m \in Place : h[m].link = node[m].link
    BY <2>2 DEF SameButRed
  <2>6. InTree(h) = InTree(node)
    BY <2>2 DEF InTree
  <2>7. \A m \in InTree(node) : m \in Place
    BY Places DEF InTree, Used
  <2>8. CASE nodeIsRed(h, p)
    <3>1. p # NoNode /\ p \in Used(node) /\ p \in InTree(node) /\ p # q /\ n = p
      BY <1>2, <1>6, <2>8, Descend DEF nodeIsRed, InTree
    <3>2. nodeIsRed(node, p)
      BY <2>2, <2>7, <2>8, <3>1 DEF nodeIsRed
    <3>3. ~ Calm(node, q)
      BY <1>7, Places DEF Calm
    <3>4. /\ walk.gparent # NoNode /\ (\E f \in Dir : node[walk.t].link[f] = walk.gparent)
          /\ ~ nodeIsRed(node, node[walk.gparent].link[1 - walk.last])
          /\ node[walk.gparent].link[walk.last] = p
      BY <2>4, <3>2, <3>3 DEF OnWay
    <3>5. walk.gparent \in Used(node) /\ walk.gparent \in InTree(node) /\ walk.gparent \in Place
      BY <1>2, <3>4, Places DEF InTree, Used
    <3>6. Under(node, walk.gparent, walk.last, p)
      BY <1>2, <3>1, <3>4, <3>5 DEF Under
    <3>7. walk.gparent # p
      BY <3>6, Descend
    <3>8. \E f : Under(h, walk.t, f, walk.gparent)
      <4>1. PICK f \in Dir : node[walk.t].link[f] = walk.gparent
        BY <3>4
      <4>2. Under(h, walk.t, f, walk.gparent)
        BY <4>1, <1>2, <2>5, <2>6, <2>7, <3>4 DEF Under
      <4> QED BY <4>2
    <3>9. Under(h, walk.gparent, walk.last, p) /\ Under(h, p, walk.dir, q)
      BY <1>6, <2>5, <2>6, <2>7, <3>1, <3>6 DEF Under
    <3>10. ~ nodeIsRed(h, h[walk.gparent].link[1 - walk.last])
      <4> DEFINE u == node[walk.gparent].link[1 - walk.last]
      <4>1. h[walk.gparent].link[1 - walk.last] = u /\ u \in Link /\ 1 - walk.last \in Dir
        BY <1>1, <1>2, <2>5, <3>5, NodeFields, Opposite
      <4>2. u # q
        <5>1. Once(node)
          BY DEF InOrder
        <5> QED BY <1>1, <1>2, <1>6, <3>1, <3>5, <3>7, <4>1, <5>1 DEF Once, Under
      <4>3. ~ nodeIsRed(node, u)
        BY <3>4
      <4> QED BY <2>2, <4>1, <4>2, <4>3 DEF nodeIsRed, Link, Place
    <3>11. Fixable(h, q)
      BY <2>2, <2>8, <3>1, <3>8, <3>9, <3>10 DEF Fixable
    <3> QED BY <1>1, <1>3, <2>2, <3>11
  <2>9. CASE ~ nodeIsRed(h, p)
    <3>1. Coloured(h)
      <4>1. ~ (n \in Used(h) /\ h[n].red)
        BY <1>1, <1>2, <1>6, <2>2, <2>9, Places DEF nodeIsRed, FromNode, Used
      <4> QED BY <2>2, <4>1 DEF RedPair, Coloured
    <3>2. ~ (\A d \in Dir : nodeIsRed(h, h[q].link[d]))
      BY <2>2, Places DEF Calm, nodeIsRed
    <3>3. Onward(walk, h, q).q = h[q].link[DirOf(walk.text > h[q].text)] /\ DirOf(walk.text > h[q].text) \in Dir
      BY <1>1, <2>2, OnwardIs
    <3>4. Calm(h, Onward(walk, h, q).q)
      BY <2>2, <3>3
    <3>5. Under(h, n, e, q)
      BY <1>1, <2>5, <2>6, <2>7 DEF Under
    <3>6. OnWay(h, Onward(walk, h, q))
      BY <1>1, <1>2, <1>4, <1>5, <2>2, <3>2, <3>4, <3>5, OnwardUnfixed
    <3> QED BY <1>1, <1>3, <2>2, <2>9, <3>1, <3>6
  <2> QED BY <2>8, <2>9
<1>8. CASE ~ (\A d \in Dir : nodeIsRed(node, node[q].link[d]))
  <2>1. h = node
    BY <1>1, <1>8 DEF Grown
  <2>2. SameButRed(node, h)
    BY <2>1 DEF SameButRed
  <2>3. ~ (nodeIsRed(node, q) /\ nodeIsRed(node, p))
    BY <1>6 DEF Coloured, Under, nodeIsRed
  <2> DEFINE w2 == Onward(walk, node, q)
  <2>4. /\ w2.q = node[q].link[DirOf(walk.text > node[q].text)]
        /\ w2.t = IF walk.gparent = NoNode THEN walk.t ELSE walk.gparent
    BY <1>1, OnwardIs
  <2>5. ASSUME nodeIsRed(node, q)
        PROVE  \/ Calm(node, w2.q)
               \/ /\ p # NoNode /\ ~ nodeIsRed(node, node[p].link[1 - walk.dir])
                  /\ \E f \in Dir : node[w2.t].link[f] = p
    <3>1. CASE AfterTwist(node, walk)
      BY <2>4, <3>1 DEF AfterTwist
    <3>2. CASE OnWay(node, walk)
      <4>1. p # NoNode /\ ~ nodeIsRed(node, node[p].link[1 - walk.dir])
        BY <2>5, <3>2 DEF OnWay
      <4>2. CASE walk.gparent = NoNode
        BY <2>4, <3>2, <4>1, <4>2, Places DEF OnWay
      <4>3. CASE walk.gparent # NoNode
        BY <1>2, <2>4, <3>2, <4>1, <4>3 DEF OnWay
      <4> QED BY <4>1, <4>2, <4>3
    <3> QED BY <1>2, <3>1, <3>2
  <2>6. OnWay(node, w2)
    <3> HIDE DEF w2
    <3> QED BY <1>1, <1>2, <1>4, <1>5, <1>8, <2>5, OnwardUnfixed DEF w2
  <2> QED BY <1>1, <1>3, <2>1, <2>2, <2>3, <2>6
<1> QED BY <1>7, <1>8

Inserting(h, w) ==
  /\ Coloured(h) /\ Clean(h) /\ \E H : OfHeight(h, H)
  /\ \E B : InOrder(h, B) /\ InsertWalk(h, B, w)

(* An iteration at a node that is there. *)
LEMMA InsertAtNode ==
  ASSUME Inserting(node, walk), walk.q # NoNode,
         NEW q, q = Grown.q, NEW h2, h2 = FixedRed(Grown.nodes, q)
  PROVE  /\ RedBlack(h2) /\ h2 \in Nodes /\ q \in Used(node) /\ Used(h2) = Used(node)
         /\ \A m \in Place : h2[m].text = node[m].text /\ h2[m].ordinal = node[m].ordinal
         /\ walk.text # h2[q].text => Inserting(h2, Onward(walk, h2, q))
<1>1. PICK B : InOrder(node, B) /\ InsertWalk(node, B, walk)
  BY DEF Inserting
<1>2. PICK H : OfHeight(node, H)
  BY DEF Inserting
<1>3. Coloured(node) /\ Clean(node)
  BY DEF Inserting
<1> DEFINE h == Grown.nodes
           w2 == Onward(walk, h2, q)
<1>4. /\ q = walk.q /\ q \in Used(h) /\ InOrder(h, B) /\ Used(h) = Used(node) /\ SameButRed(node, h)
      /\ (\E H2 : OfHeight(h, H2)) /\ Clean(h)
      /\ \/ Fixable(h, q) /\ \A d \in Dir : Calm(h, h[q].link[d])
         \/ /\ ~ (nodeIsRed(h, q) /\ nodeIsRed(h, walk.parent))
            /\ Coloured(h) /\ OnWay(h, Onward(walk, h, q))
  BY <1>1, <1>2, <1>3, GrownOld
<1>5. /\ Within(B[q], walk.text) /\ walk.text \in Nat /\ walk \in InsertWalks /\ q \in Used(node) /\ q \in Place
      /\ q # NoNode /\ q \in InTree(node)
  BY <1>1, <1>4, WalkPlace, Places DEF Used, InTree
<1>6. \A m \in Place : h[m].text = node[m].text /\ h[m].ordinal = node[m].ordinal
  BY <1>4 DEF SameButRed
<1>7. /\ <<walk.text, walk.ordinal>> \in Member /\ walk.parent \in Used(node) \cup {NoNode}
      /\ walk.gparent \in Used(node) \cup {NoNode} /\ walk.t \in InTree(node)
      /\ (walk.gparent # NoNode => walk.parent # NoNode)
      /\ OnWay(node, walk) \/ AfterTwist(node, walk)
      /\ h[FromNode(walk)].link[FromSide(walk)] = q
  <2>1. FromNode(walk) \in Place /\ node[FromNode(walk)].link[FromSide(walk)] = q
    <3>1. FromNode(walk) \in InTree(node)
      BY <1>1, WalkPlace
    <3> QED BY <3>1, <1>1, <1>4, Places DEF InsertWalk, InTree, Used
  <2> QED BY <2>1, <1>1, <1>4 DEF InsertWalk, OnWay, AfterTwist, SameButRed
<1> HIDE DEF h
(* What the walk needs, whatever was fixed. *)
<1>8. ASSUME NEW B2, InOrder(h2, B2), Used(h2) = Used(node), Within(B2[q], walk.text), walk.text # h2[q].text,
             OnWay(h2, w2) \/ AfterTwist(h2, w2)
      PROVE  InsertWalk(h2, B2, w2)
  <2>1. /\ w2 \in InsertWalks /\ DirOf(walk.text > h2[q].text) \in Dir /\ w2.text = walk.text /\ w2.ordinal = walk.ordinal
        /\ w2.gparent = walk.parent /\ w2.parent = q /\ w2.q = h2[q].link[DirOf(walk.text > h2[q].text)]
        /\ w2.t = IF walk.gparent = NoNode THEN walk.t ELSE walk.gparent
        /\ FromNode(w2) = q /\ FromSide(w2) = DirOf(walk.text > h2[q].text)
    BY <1>5, <1>8, OnwardIs DEF InOrder
  <2>2. InTree(h2) = InTree(node)
    BY <1>8 DEF InTree
  <2>3. InPart(h2, B2, q, DirOf(walk.text > h2[q].text), walk.text)
    BY <1>5, <1>8, <2>2, PartsOf
  <2>4. w2.t \in InTree(node)
    BY <1>7, <2>1 DEF InTree
  <2> HIDE DEF w2
  <2> QED BY <1>5, <1>7, <1>8, <2>1, <2>2, <2>3, <2>4 DEF InsertWalk
<1>9. CASE Fixable(h, q) /\ \A d \in Dir : Calm(h, h[q].link[d])
  <2>1. PICK H1 : OfHeight(h, H1)
    BY <1>4
  <2>2. h2 = FixedRed(h, q)
    BY DEF h
  <2>3. /\ h2 \in Nodes /\ Used(h2) = Used(h)
        /\ \A m \in Place : h2[m].text = h[m].text /\ h2[m].ordinal = h[m].ordinal
        /\ \E B2 : InOrder(h2, B2) /\ \A x \in Nat : Within(B[q], x) => Within(B2[q], x)
        /\ \E H2 : OfHeight(h2, H2)
        /\ Coloured(h2) /\ Clean(h2)
        /\ LET f == DirOf(walk.text > h[q].text) IN
             (\A d \in Dir : Calm(h, h[q].link[d])) /\ Within(B[q], walk.text) /\ walk.text # h[q].text
               => Fine(h2, q, f) \/ Twisted(h2, q, f, walk.text)
    BY <1>4, <1>5, <1>9, <2>1, <2>2, FixKeeps
  <2>4. PICK B2 : InOrder(h2, B2) /\ \A x \in Nat : Within(B[q], x) => Within(B2[q], x)
    BY <2>3
  <2>5. \A m \in Place : h2[m].text = node[m].text /\ h2[m].ordinal = node[m].ordinal
    BY <1>6, <2>3
  <2>6. RedBlack(h2)
    BY <2>3, <2>4 DEF RedBlack
  <2>7. ASSUME walk.text # h2[q].text PROVE Inserting(h2, w2)
    <3> DEFINE f == DirOf(walk.text > h2[q].text)
    <3>1. /\ w2.text = walk.text /\ w2.last = walk.dir /\ w2.dir = f /\ f \in Dir
          /\ w2.gparent = walk.parent /\ w2.parent = q /\ w2.q = h2[q].link[f]
      BY <1>4, <1>5, <2>3, OnwardIs
    <3>2. h2[q].text = h[q].text
      BY <2>3, <1>5
    <3>3. Fine(h2, q, f) \/ Twisted(h2, q, f, walk.text)
      BY <1>5, <1>9, <2>3, <2>7, <3>2
    <3>4. walk.parent # NoNode
      BY <1>9 DEF Fixable, nodeIsRed
    <3> HIDE DEF w2, f
    <3>5. CASE Fine(h2, q, f)
      <4>1. OnWay(h2, w2)
        BY <1>5, <3>1, <3>4, <3>5 DEF Fine, OnWay, Calm, nodeIsRed
      <4> QED BY <1>5, <1>8, <2>3, <2>4, <2>7, <4>1, <1>4 DEF Inserting, w2
    <3>6. CASE Twisted(h2, q, f, walk.text)
      <4>1. AfterTwist(h2, w2)
        BY <1>5, <3>1, <3>4, <3>6 DEF Twisted, AfterTwist, nodeIsRed
      <4> QED BY <1>5, <1>8, <2>3, <2>4, <2>7, <4>1, <1>4 DEF Inserting, w2
    <3> QED BY <3>3, <3>5, <3>6
  <2> QED BY <1>4, <1>5, <2>3, <2>5, <2>6, <2>7
<1>10. CASE ~ (nodeIsRed(h, q) /\ nodeIsRed(h, walk.parent)) /\ Coloured(h) /\ OnWay(h, Onward(walk, h, q))
  <2>1. h2 = h
    BY <1>10 DEF FixedRed, h
  <2>2. RedBlack(h2) /\ h2 \in Nodes
    BY <1>4, <1>10, <2>1 DEF RedBlack, InOrder
  <2>3. ASSUME walk.text # h2[q].text PROVE Inserting(h2, w2)
    <3>1. InsertWalk(h2, B, w2)
      BY <1>4, <1>5, <1>8, <1>10, <2>1, <2>3
    <3> QED BY <1>4, <1>10, <2>1, <3>1 DEF Inserting
  <2> QED BY <1>4, <1>5, <1>6, <2>1, <2>2, <2>3
<1> QED BY <1>4, <1>9, <1>10
(* A set of numbers that is not empty has a least one. *)
LEMMA LeastIn ==
  ASSUME NEW S \in SUBSET Nat, S # {}
  PROVE  \E x \in S : \A y \in S : x <= y
<1>1. PICK x \in S : \A y \in S : ~ (<<y, x>> \in OpToRel(<, Nat))
  BY NatLessThanWellFounded, WFMin
<1>2. \A y \in S : x <= y
  <2> SUFFICES ASSUME NEW y \in S PROVE x <= y
    OBVIOUS
  <2>1. x \in Nat /\ y \in Nat
    OBVIOUS
  <2>2. ~ (y < x)
    BY <1>1, <2>1 DEF OpToRel
  <2> QED BY <2>1, <2>2
<1> QED BY <1>2

(* The smallest of a set of positions is one of them. *)
LEMMA MinIn ==
  ASSUME NEW S \in SUBSET Nat, S # {}
  PROVE  Min(S) \in S
BY LeastIn DEF Min


(* Heights and colours with a node at the bottom. *)
LEMMA AddKeepsColours ==
  ASSUME NEW h, NEW B, NEW H, InOrder(h, B), OfHeight(h, H), Coloured(h), Clean(h),
         NEW p \in InTree(h), NEW d \in Dir, h[p].link[d] = NoNode,
         NEW n \in Allocated, n \notin Used(h), NEW text \in Nat \ {0},
         NEW h2 \in Nodes, Added(h, h2, n, p, d, text), Used(h2) = Used(h) \cup {n},
         \A m \in Place : m # n => (h2[m].red <=> h[m].red), \A m \in Place : m \notin {n, p} => h2[m] = h[m],
         h2[n].red \/ p = Top
  PROVE  (\E H2 : OfHeight(h2, H2)) /\ Clean(h2) /\ RedPair(h2, p, n)
<1> DEFINE H2 == [x \in Link |-> IF x = n THEN (IF h2[n].red THEN 1 ELSE 2) ELSE H[x]]
<1>1. /\ h \in Nodes /\ H \in Heights /\ H[NoNode] = 1 /\ n \in Link /\ n # NoNode /\ n \in Place /\ n # Top
      /\ n # p /\ p \in Place
  BY Places DEF InOrder, OfHeight, Link, InTree, Used
<1>2. H2 \in Heights /\ H2[NoNode] = 1 /\ H2[n] = (IF h2[n].red THEN 1 ELSE 2) /\ \A x \in Link : x # n => H2[x] = H[x]
  <2>1. NoNode \in Link /\ \A x \in Link : H[x] \in Nat \ {0}
    BY <1>1 DEF Heights, Link
  <2> QED BY <1>1, <2>1 DEF Heights
<1> HIDE DEF H2
<1>3. /\ h2[n].text = text /\ (\A x \in Dir : h2[n].link[x] = NoNode) /\ h2[p].link[d] = n
      /\ \A m \in Place, x \in Dir : m # n /\ (m # p \/ x # d) => h2[m].link[x] = h[m].link[x]
  BY <1>1 DEF Added
<1>4. \A m \in Used(h) : m \in Place /\ m \in Link /\ m # n /\ m \in InTree(h) /\ m # Top
  BY Places DEF Used, Link, InTree
<1>5. \A m \in InTree(h), x \in Dir : h[m].link[x] \in Link /\ h[m].link[x] # n
  <2>1. \A m \in InTree(h) : m \in Place
    BY Places DEF Used, InTree
  <2>2. \A m \in InTree(h), x \in Dir : h[m].link[x] # n
    BY <1>1 DEF InOrder, Leads
  <2> QED BY <1>1, <2>1, <2>2, NodeFields
<1>6. OfHeight(h2, H2)
  <2> SUFFICES ASSUME NEW m \in Used(h) \cup {n}, NEW x \in Dir
               PROVE  H2[m] = H2[h2[m].link[x]] + (IF h2[m].red THEN 0 ELSE 1)
    BY <1>2 DEF OfHeight, HeightAt
  <2>1. CASE m = n
    BY <1>2, <1>3, <2>1
  <2>2. CASE m # n
    <3>1. m \in Used(h) /\ H2[m] = H[m] /\ H[m] = H[h[m].link[x]] + (IF h[m].red THEN 0 ELSE 1) /\ (h2[m].red <=> h[m].red)
      BY <1>2, <1>4, <2>2 DEF OfHeight, HeightAt
    <3>2. H2[h2[m].link[x]] = H[h[m].link[x]]
      <4>1. CASE m = p /\ x = d
        BY <1>1, <1>2, <1>3, <1>4, <3>1, <4>1
      <4>2. CASE m # p \/ x # d
        BY <1>2, <1>3, <1>4, <1>5, <3>1, <4>2
      <4> QED BY <4>1, <4>2
    <3> QED BY <3>1, <3>2
  <2> QED BY <2>1, <2>2
<1>7. RedPair(h2, p, n)
  <2> SUFFICES ASSUME NEW m \in Used(h) \cup {n}, NEW x \in Dir, h2[m].red, nodeIsRed(h2, h2[m].link[x])
               PROVE  m = p /\ h2[m].link[x] = n
    BY DEF RedPair
  <2>1. m # n /\ m \in Used(h) /\ h[m].red
    BY <1>3, <1>4 DEF nodeIsRed
  <2>2. CASE m = p /\ x = d
    BY <2>2, <1>3
  <2>3. CASE m # p \/ x # d
    <3>1. h2[m].link[x] = h[m].link[x] /\ h[m].link[x] \in Link /\ h[m].link[x] # n
      BY <2>1, <2>3, <1>3, <1>4, <1>5
    <3>2. nodeIsRed(h, h[m].link[x])
      BY <3>1 DEF nodeIsRed, Link, Place
    <3> QED BY <2>1, <3>2 DEF Coloured
  <2> QED BY <2>2, <2>3
<1>8. Clean(h2)
  <2>1. ~ h2[Top].red
    BY <1>1, Places DEF Clean
  <2>2. ASSUME NEW m \in Allocated, h2[m].text = 0 PROVE h2[m] = Free
    <3>1. m \notin Used(h) /\ m # n
      BY <2>2 DEF Used
    <3>2. m # p /\ m \in Place
      BY <3>1, Places DEF InTree
    <3> QED BY <3>1, <3>2 DEF Clean, Used
  <2> QED BY <2>1, <2>2 DEF Clean
<1> QED BY <1>6, <1>7, <1>8

(* The node malloc gives is free. *)
LEMMA UnusedIs ==
  ASSUME Unused # {}
  PROVE  Min(Unused) \in Allocated /\ node[Min(Unused)] = Free /\ Min(Unused) \notin Used(node)
<1>1. Unused \in SUBSET Nat
  BY TextSearchAssumption DEF Unused, Allocated
<1>2. Min(Unused) \in Unused
  BY <1>1, MinIn
<1> QED BY <1>2 DEF Unused, Used, Free

(* The members after a node was added. *)
LEMMA MembersWith ==
  ASSUME NEW h, NEW h2, NEW n, NEW text, NEW ordinal, Used(h2) = Used(h) \cup {n},
         h2[n].text = text, h2[n].ordinal = ordinal, n \notin Used(h),
         \A m \in Used(h) : h2[m].text = h[m].text /\ h2[m].ordinal = h[m].ordinal
  PROVE  Members(h2) = Members(h) \cup {<<text, ordinal>>}
BY DEF Members

(* The members when texts and ordinals are the same. *)
LEMMA SameMembers ==
  ASSUME NEW h, NEW h2, Used(h2) = Used(h),
         \A m \in Place : h2[m].text = h[m].text /\ h2[m].ordinal = h[m].ordinal
  PROVE  Members(h2) = Members(h)
BY Places DEF Members, Used

(* The iteration that comes to the bottom. *)
LEMMA InsertAtBottom ==
  ASSUME Inserting(node, walk), walk.q = NoNode, Unused # {},
         NEW q, q = Grown.q, NEW h2, h2 = FixedRed(Grown.nodes, q)
  PROVE  /\ RedBlack(h2) /\ h2 \in Nodes /\ h2[q].text = walk.text
         /\ Members(h2) = Members(node) \cup {<<walk.text, walk.ordinal>>}
         /\ \A m \in Used(node) : node[m].text # walk.text
<1>1. PICK B : InOrder(node, B) /\ InsertWalk(node, B, walk)
  BY DEF Inserting
<1>2. PICK H : OfHeight(node, H)
  BY DEF Inserting
<1>3. Coloured(node) /\ Clean(node)
  BY DEF Inserting
<1> DEFINE h == Grown.nodes
           p == walk.parent
           d == walk.dir
           n == Min(Unused)
           text == walk.text
<1>4. n \in Allocated /\ node[n] = Free /\ n \notin Used(node)
  BY UnusedIs
<1>5. /\ walk \in InsertWalks /\ node \in Nodes /\ p \in Used(node) /\ d \in Dir /\ text \in Nat \ {0}
      /\ walk.ordinal \in Nat /\ p # NoNode /\ p # Top /\ p \in InTree(node) /\ p \in Place /\ walk.last \in Dir
      /\ walk.gparent \in Link
      /\ node[p].link[d] = NoNode /\ InPart(node, B, p, d, text)
      /\ OnWay(node, walk)
  <2>1. OnWay(node, walk)
    BY <1>1 DEF InsertWalk, AfterTwist, nodeIsRed
  <2>2. p # NoNode
    BY <2>1 DEF OnWay
  <2>3. walk \in InsertWalks /\ p \in Used(node)
    BY <1>1, <2>2 DEF InsertWalk
  <2>4. d \in Dir /\ text \in Nat \ {0} /\ walk.ordinal \in Nat /\ walk.last \in Dir /\ walk.gparent \in Link
    BY <2>3 DEF InsertWalks
  <2>5. node[p].link[d] = NoNode /\ InPart(node, B, p, d, text)
    BY <1>1, <2>2 DEF InsertWalk, FromNode, FromSide
  <2> QED BY <1>1, <2>1, <2>2, <2>3, <2>4, <2>5, Places DEF InOrder, InTree, Used
<1>6. n # p /\ n \in Place /\ n # NoNode /\ n \in Link /\ n # Top
  BY <1>4, <1>5, Places DEF Link
<1> HIDE DEF n
<1>7. q = n /\ h = [node EXCEPT ![n] = makeNode(text, walk.ordinal), ![p].link[d] = n]
  BY DEF Grown, n
<1> DEFINE new == makeNode(text, walk.ordinal)
           hp == [node[p] EXCEPT !.link[d] = n]
<1>8. /\ new \in SearchNode /\ new.text = text /\ new.ordinal = walk.ordinal /\ new.red = TRUE
      /\ \A x \in Dir : new.link[x] = NoNode
  <2>1. NoNode \in Link
    BY DEF Link
  <2> QED BY <1>5, <2>1 DEF makeNode, Free, SearchNode
<1>9. /\ hp \in SearchNode /\ hp.text = node[p].text /\ hp.ordinal = node[p].ordinal /\ hp.red = node[p].red
      /\ \A x \in Dir : hp.link[x] = IF x = d THEN n ELSE node[p].link[x]
  BY <1>5, <1>6, NodeFields DEF SearchNode
<1>10. \A m \in Place : h[m] = IF m = n THEN new ELSE IF m = p THEN hp ELSE node[m]
  BY <1>5, <1>6, <1>7 DEF Nodes
<1>11. h \in Nodes
  <2>1. h = [m \in Place |-> h[m]]
    BY <1>5, <1>7 DEF Nodes
  <2>2. \A m \in Place : h[m] \in SearchNode
    BY <1>5, <1>8, <1>9, <1>10, NodeFields
  <2> HIDE DEF h
  <2> QED BY <2>1, <2>2 DEF Nodes
<1> HIDE DEF h, new, hp
<1>12. Added(node, h, n, p, d, text)
  BY <1>6, <1>8, <1>9, <1>10 DEF Added
<1>13. /\ InOrder(h, AddedBounds(node, B, n, p, d)) /\ Used(h) = Used(node) \cup {n}
       /\ \A m \in Used(node) : node[m].text # text
  BY <1>1, <1>4, <1>5, <1>11, <1>12, AddKeepsOrder
<1>14. /\ h[n].red /\ h[n].text = text /\ h[n].ordinal = walk.ordinal
       /\ (\A m \in Place : m # n => (h[m].red <=> node[m].red))
       /\ (\A m \in Place : m \notin {n, p} => h[m] = node[m])
       /\ \A m \in Place : m # n => h[m].text = node[m].text /\ h[m].ordinal = node[m].ordinal
  <2>1. node[p].red \in BOOLEAN
    BY <1>5, NodeFields
  <2> QED BY <1>6, <1>8, <1>9, <1>10, <2>1
<1>15. (\E H2 : OfHeight(h, H2)) /\ Clean(h) /\ RedPair(h, p, n)
  BY <1>1, <1>2, <1>3, <1>4, <1>5, <1>11, <1>12, <1>13, <1>14, AddKeepsColours
<1>16. Members(h) = Members(node) \cup {<<text, walk.ordinal>>}
  <2>1. \A m \in Used(node) : h[m].text = node[m].text /\ h[m].ordinal = node[m].ordinal
    BY <1>4, <1>14, Places DEF Used
  <2> QED BY <1>4, <1>13, <1>14, <2>1, MembersWith
<1>17. h2 = FixedRed(h, n)
  BY <1>7 DEF h
<1>18. CASE ~ nodeIsRed(h, p)
  <2>1. h2 = h
    BY <1>17, <1>18 DEF FixedRed
  <2>2. Coloured(h)
    BY <1>5, <1>15, <1>18 DEF RedPair, Coloured, nodeIsRed
  <2> QED BY <1>7, <1>11, <1>13, <1>14, <1>15, <1>16, <2>1, <2>2 DEF RedBlack
<1>19. CASE nodeIsRed(h, p)
  <2>1. nodeIsRed(node, p)
    BY <1>5, <1>6, <1>14, <1>19 DEF nodeIsRed
  <2>2. /\ walk.gparent # NoNode /\ (\E e \in Dir : node[walk.t].link[e] = walk.gparent)
        /\ ~ nodeIsRed(node, node[walk.gparent].link[1 - walk.last])
        /\ node[walk.gparent].link[walk.last] = p
    <3>1. ~ Calm(node, NoNode)
      BY Places DEF Calm, Used
    <3> QED BY <1>5, <2>1, <3>1 DEF OnWay
  <2>3. walk.gparent \in Used(node) /\ walk.t \in InTree(node)
    BY <1>1, <2>2 DEF InsertWalk
  <2>4. \A m \in InTree(node) : m \in Place /\ m # n
    BY <1>4, <1>6, Places DEF InTree, Used
  <2>5. Under(node, walk.gparent, walk.last, p)
    BY <1>5, <2>2, <2>3 DEF Under, InTree
  <2>6. walk.gparent # p
    BY <1>1, <2>5, Descend
  <2>7. InTree(node) \subseteq InTree(h)
    BY <1>13 DEF InTree
  <2>8. \A m \in InTree(node), x \in Dir : node[m].link[x] # NoNode => h[m].link[x] = node[m].link[x]
    BY <1>5, <1>12, <2>4 DEF Added
  <2>9. Under(h, p, d, n) /\ Under(h, walk.gparent, walk.last, p)
    <3>1. h[p].link[d] = n
      BY <1>5, <1>6, <1>12 DEF Added
    <3> QED BY <1>5, <1>6, <2>5, <2>7, <2>8, <3>1 DEF Under
  <2>10. \E e : Under(h, walk.t, e, walk.gparent)
    <3>1. PICK e \in Dir : node[walk.t].link[e] = walk.gparent
      BY <2>2
    <3>2. Under(h, walk.t, e, walk.gparent)
      BY <2>2, <2>3, <2>7, <2>8, <3>1 DEF Under
    <3> QED BY <3>2
  <2>11. ~ nodeIsRed(h, h[walk.gparent].link[1 - walk.last])
    <3> DEFINE u == node[walk.gparent].link[1 - walk.last]
    <3>1. walk.gparent \in InTree(node) /\ 1 - walk.last \in Dir
      BY <1>5, <2>3, Opposite DEF InTree
    <3>2. h[walk.gparent].link[1 - walk.last] = u
      BY <1>12, <2>4, <2>6, <3>1 DEF Added
    <3>3. u \in Link
      BY <1>5, <2>4, <3>1, NodeFields
    <3>4. u # n
      BY <1>1, <1>4, <1>6, <3>1 DEF InOrder, Leads
    <3> HIDE DEF u
    <3>5. ~ nodeIsRed(node, u)
      BY <2>2 DEF u
    <3> QED BY <1>14, <3>2, <3>3, <3>4, <3>5 DEF nodeIsRed, Link, Place
  <2>12. Fixable(h, n)
    BY <1>6, <1>14, <1>15, <1>19, <2>9, <2>10, <2>11 DEF Fixable, nodeIsRed
  <2>13. PICK H1 : OfHeight(h, H1)
    BY <1>15
  <2>14. /\ h2 \in Nodes /\ Used(h2) = Used(h)
         /\ \A m \in Place : h2[m].text = h[m].text /\ h2[m].ordinal = h[m].ordinal
         /\ (\E B2 : InOrder(h2, B2)) /\ (\E H2 : OfHeight(h2, H2)) /\ Coloured(h2) /\ Clean(h2)
    BY <1>13, <1>15, <1>17, <2>12, <2>13, FixKeeps
  <2>15. Members(h2) = Members(h)
    BY <2>14, SameMembers
  <2> QED BY <1>6, <1>7, <1>13, <1>14, <1>16, <2>14, <2>15, ZenonT(60) DEF RedBlack
<1> QED BY <1>18, <1>19

-----------------------------------------------------------------------------
(* The tree hung under the false root. *)
LEMMA HookedIs ==
  ASSUME NEW h \in Nodes, NEW r \in Link
  PROVE  /\ Hooked(h, r) \in Nodes
         /\ \A m \in Place : m # Top => Hooked(h, r)[m] = h[m]
         /\ Hooked(h, r)[Top].text = h[Top].text /\ Hooked(h, r)[Top].ordinal = h[Top].ordinal
         /\ Hooked(h, r)[Top].red = h[Top].red /\ Hooked(h, r)[Top].link[1] = r
         /\ Hooked(h, r)[Top].link[0] = h[Top].link[0]
         /\ Used(Hooked(h, r)) = Used(h) /\ Members(Hooked(h, r)) = Members(h)
<1> DEFINE top == [h[Top] EXCEPT !.link[1] = r]
           h2 == Hooked(h, r)
<1>1. h[Top] \in SearchNode /\ 1 \in Dir /\ 0 \in Dir /\ Top \in Place
  BY NodeFields, Places
<1>2. /\ top \in SearchNode /\ top.text = h[Top].text /\ top.ordinal = h[Top].ordinal /\ top.red = h[Top].red
      /\ top.link[1] = r /\ top.link[0] = h[Top].link[0]
  BY <1>1, Places DEF SearchNode
<1>3. h2 = [m \in Place |-> IF m = Top THEN top ELSE h[m]]
  BY <1>1 DEF Hooked, Nodes
<1> HIDE DEF top, h2
<1>4. h2 \in Nodes
  BY <1>2, <1>3, NodeFields DEF Nodes
<1>5. \A m \in Place : h2[m] = IF m = Top THEN top ELSE h[m]
  BY <1>3
<1>6. \A m \in Allocated : h2[m] = h[m]
  BY <1>5, Places
<1>7. Used(h2) = Used(h)
  BY <1>6 DEF Used
<1>8. Members(h2) = Members(h)
  BY <1>6, <1>7 DEF Members, Used
<1> QED BY <1>1, <1>2, <1>4, <1>5, <1>7, <1>8 DEF h2

(* The nodes with a first one, which is black. *)
WithFirst(h, n, text, ordinal) == [h EXCEPT ![n] = [makeNode(text, ordinal) EXCEPT !.red = FALSE]]

(* The first node of a tree. *)
LEMMA InsertFirst ==
  ASSUME IdleAt(node, NoNode), Unused # {}, NEW text \in Nat \ {0}, NEW ordinal \in Nat,
         NEW n, n = Min(Unused),
         NEW h2, h2 = WithFirst(node, n, text, ordinal)
  PROVE  IdleAt(h2, n) /\ Members(h2) = Members(node) \cup {<<text, ordinal>>}
<1> DEFINE h == Hooked(node, NoNode)
           h3 == Hooked(h2, n)
           new == [makeNode(text, ordinal) EXCEPT !.red = FALSE]
<1>1. node \in Nodes /\ node[Top] = Free /\ NoNode \in Link /\ RedBlack(h)
  BY DEF IdleAt
<1>2. n \in Allocated /\ n \notin Used(node)
  BY UnusedIs
<1>3. n \in Place /\ n \in Link /\ n # Top /\ n # NoNode /\ Top \in Place /\ 1 \in Dir /\ Top \in InTree(h)
  BY <1>2, Places DEF Link, InTree
<1>4. /\ new \in SearchNode /\ new.text = text /\ new.ordinal = ordinal /\ new.red = FALSE
      /\ \A x \in Dir : new.link[x] = NoNode
  BY <1>1 DEF makeNode, Free, SearchNode
<1> HIDE DEF new
<1>5. h2 = [m \in Place |-> IF m = n THEN new ELSE node[m]]
  BY <1>1 DEF WithFirst, Nodes, new
<1>6. h2 \in Nodes
  BY <1>1, <1>4, <1>5, NodeFields DEF Nodes
<1>7. \A m \in Place : h2[m] = IF m = n THEN new ELSE node[m]
  BY <1>5
<1>8. /\ h \in Nodes /\ (\A m \in Place : m # Top => h[m] = node[m])
      /\ h[Top].link[1] = NoNode /\ Used(h) = Used(node)
      /\ h[Top].text = node[Top].text /\ h[Top].ordinal = node[Top].ordinal /\ h[Top].red = node[Top].red
      /\ h[Top].link[0] = node[Top].link[0] /\ Members(h) = Members(node)
  BY <1>1, HookedIs
<1>9. /\ h3 \in Nodes /\ (\A m \in Place : m # Top => h3[m] = h2[m])
      /\ h3[Top].link[1] = n /\ Used(h3) = Used(h2)
      /\ h3[Top].text = h2[Top].text /\ h3[Top].ordinal = h2[Top].ordinal /\ h3[Top].red = h2[Top].red
      /\ h3[Top].link[0] = h2[Top].link[0] /\ Members(h3) = Members(h2)
  <2>1. n \in Link
    BY <1>3
  <2> HIDE DEF h3
  <2>2. h3 = Hooked(h2, n)
    BY DEF h3
  <2> QED BY <1>6, <2>1, <2>2, HookedIs
<1> HIDE DEF h, h3
<1>10. PICK B : InOrder(h, B)
  BY <1>1 DEF RedBlack
<1>11. PICK H : OfHeight(h, H)
  BY <1>1 DEF RedBlack
<1>12. /\ h3[n] = new /\ (\A m \in Place : m \notin {n, Top} => h3[m] = h[m])
       /\ h3[Top].text = h[Top].text /\ h3[Top].ordinal = h[Top].ordinal /\ h3[Top].red = h[Top].red
       /\ h3[Top].link[0] = h[Top].link[0] /\ h3[Top].link[1] = n /\ h2[Top] = node[Top]
  <2>1. h2[Top] = node[Top] /\ h2[n] = new /\ \A m \in Place : m # n => h2[m] = node[m]
    BY <1>3, <1>7
  <2>2. h3[n] = new
    BY <1>3, <1>9, <2>1
  <2>3. ASSUME NEW m \in Place, m \notin {n, Top} PROVE h3[m] = h[m]
    BY <1>8, <1>9, <2>1, <2>3
  <2> QED BY <1>8, <1>9, <2>1, <2>2, <2>3
<1>13. Added(h, h3, n, Top, 1, text)
  BY <1>3, <1>4, <1>12, Places DEF Added
<1>14. InPart(h, B, Top, 1, text)
  BY <1>10, Sides DEF InOrder, Rooted, Bounded
<1>15. /\ InOrder(h3, AddedBounds(h, B, n, Top, 1)) /\ Used(h3) = Used(h) \cup {n}
  BY <1>2, <1>3, <1>8, <1>9, <1>10, <1>13, <1>14, AddKeepsOrder
<1>16. \A m \in Place : m # n => (h3[m].red <=> h[m].red)
  BY <1>12
<1>17. (\E H2 : OfHeight(h3, H2)) /\ Clean(h3) /\ RedPair(h3, Top, n)
  <2>1. Coloured(h) /\ Clean(h) /\ n \notin Used(h)
    BY <1>1, <1>2, <1>8 DEF RedBlack
  <2>2. h3 \in Nodes /\ h[Top].link[1] = NoNode /\ \A m \in Place : m \notin {n, Top} => h3[m] = h[m]
    BY <1>8, <1>9, <1>12
  <2> QED BY <1>2, <1>3, <1>10, <1>11, <1>13, <1>15, <1>16, <2>1, <2>2, AddKeepsColours
<1>18. Coloured(h3)
  <2>1. Top \notin Used(h3)
    BY Places DEF Used
  <2> QED BY <1>17, <2>1 DEF RedPair, Coloured
<1>19. IdleAt(h2, n)
  <2>1. ~ nodeIsRed(h2, n)
    BY <1>3, <1>4, <1>7 DEF nodeIsRed
  <2> QED BY <1>1, <1>3, <1>6, <1>12, <1>15, <1>17, <1>18, <2>1 DEF IdleAt, RedBlack, h3
<1>20. Members(h3) = Members(h) \cup {<<text, ordinal>>}
  <2>1. \A m \in Used(h) : h3[m].text = h[m].text /\ h3[m].ordinal = h[m].ordinal
    BY <1>2, <1>8, <1>12, Places DEF Used
  <2>2. h3[n].text = text /\ h3[n].ordinal = ordinal /\ n \notin Used(h)
    BY <1>2, <1>4, <1>8, <1>12
  <2>3. Used(h3) = Used(h) \cup {n}
    BY <1>15
  <2> QED BY <2>1, <2>2, <2>3, MembersWith
<1> QED BY <1>8, <1>9, <1>19, <1>20

(* The start of an insert in a tree that has nodes. *)
LEMMA InsertStarts ==
  ASSUME IdleAt(node, root), root # NoNode, NEW text \in Nat \ {0}, NEW ordinal \in Nat, <<text, ordinal>> \in Member,
         NEW h2, h2 = Hooked(node, root),
         NEW w, w = [op |-> "insert", text |-> text, ordinal |-> ordinal, t |-> Top,
                     gparent |-> NoNode, parent |-> NoNode, q |-> root, dir |-> 0, last |-> 0]
  PROVE  Inserting(h2, w) /\ Members(h2) = Members(node)
<1>1. /\ node \in Nodes /\ root \in Link /\ ~ nodeIsRed(node, root) /\ RedBlack(h2) /\ NoNode \in Link
      /\ Top \in Place /\ 0 \in Dir /\ 1 \in Dir /\ Top \in InTree(h2)
  BY Places DEF IdleAt, Link, InTree
<1>2. /\ h2 \in Nodes /\ h2[Top].link[1] = root /\ Members(h2) = Members(node)
      /\ \A m \in Place : m # Top => h2[m] = node[m]
  BY <1>1, HookedIs
<1>3. PICK B : InOrder(h2, B)
  BY <1>1 DEF RedBlack
<1>4. InPart(h2, B, Top, 1, text)
  BY <1>3, Sides DEF InOrder, Rooted, Bounded
<1>5. /\ w \in InsertWalks /\ w.text = text /\ w.ordinal = ordinal /\ w.t = Top /\ w.gparent = NoNode
      /\ w.parent = NoNode /\ w.q = root
  BY <1>1 DEF InsertWalks
<1>6. ~ nodeIsRed(h2, root) /\ ~ nodeIsRed(h2, NoNode)
  BY <1>1, <1>2, Places DEF nodeIsRed, Link
<1>7. OnWay(h2, w)
  BY <1>5, <1>6 DEF OnWay
<1>8. InsertWalk(h2, B, w)
  BY <1>1, <1>2, <1>4, <1>5, <1>7 DEF InsertWalk, FromNode, FromSide
<1> QED BY <1>1, <1>2, <1>3, <1>8 DEF Inserting, RedBlack

(* The tree of radtextsearchInit. *)
LEMMA InitIdle ==
  ASSUME TreeInit
  PROVE  IdleAt(node, root) /\ Members(node) = {} /\ walk = NoCallRuns /\ universe = {} /\ ~ lost
<1> DEFINE h == Hooked(node, NoNode)
           B == [m \in Place |-> [x \in Dir |-> -1]]
           H == [x \in Link |-> 1]
<1>1. /\ Free \in SearchNode /\ Free.red = FALSE /\ Free.text = 0 /\ Free.ordinal = 0 /\ NoNode \in Link
      /\ \A x \in Dir : Free.link[x] = NoNode
  BY DEF Free, SearchNode, Link
<1>2. /\ node = [m \in Place |-> Free] /\ root = NoNode /\ walk = NoCallRuns /\ universe = {} /\ ~ lost
  BY DEF TreeInit, Place
<1>3. node \in Nodes /\ Top \in Place /\ 0 \in Dir /\ 1 \in Dir /\ \A m \in Place : node[m] = Free
  BY <1>1, <1>2, Places DEF Nodes
<1>4. /\ h \in Nodes /\ (\A m \in Place : m # Top => h[m] = Free)
      /\ h[Top].link[1] = NoNode /\ Used(h) = Used(node)
      /\ h[Top].text = 0 /\ h[Top].ordinal = 0 /\ h[Top].red = FALSE
      /\ h[Top].link[0] = NoNode /\ Members(h) = Members(node)
  BY <1>1, <1>3, HookedIs
<1>5. Used(h) = {} /\ InTree(h) = {Top}
  BY <1>1, <1>4, Places, ZenonT(60) DEF Used, InTree
<1>6. \A x \in Dir : B[Top][x] = -1
  BY <1>3
<1>7. B \in Bounds
  BY DEF Bounds
<1>8. H \in Heights /\ H[NoNode] = 1
  BY <1>1 DEF Heights
<1> HIDE DEF h, B, H
<1>9. InOrder(h, B)
  <2>1. Rooted(h)
    BY <1>4 DEF Rooted
  <2>2. Distinct(h)
    BY <1>5 DEF Distinct
  <2>3. Bounded(h, B)
    BY <1>3, <1>4, <1>5, <1>6 DEF Bounded, Within
  <2>4. Leads(h, B)
    BY <1>4, <1>5, Places DEF Leads
  <2>5. Bare(h, B)
    BY <1>5 DEF Bare
  <2>6. Once(h)
    BY <1>4, <1>5, Places DEF Once
  <2>7. Disjoint(h, B)
    <3> SUFFICES ASSUME NEW c \in Dir, NEW d \in Dir, NEW x \in Nat, Covers(h, B, Top, c, x), Covers(h, B, Top, d, x)
                 PROVE  c = d
      BY <1>5 DEF Disjoint
    <3>1. ~ Covers(h, B, Top, 0, x)
      BY <1>4, <1>6, Places DEF Covers, Edge
    <3> QED BY <3>1, Places
  <2> QED BY <1>4, <1>7, <2>1, <2>2, <2>3, <2>4, <2>5, <2>6, <2>7 DEF InOrder
<1>10. OfHeight(h, H)
  BY <1>5, <1>8 DEF OfHeight
<1>11. Coloured(h) /\ Clean(h)
  BY <1>4, <1>5, Places DEF Coloured, Clean
<1>12. RedBlack(h)
  BY <1>9, <1>10, <1>11 DEF RedBlack
<1>13. IdleAt(node, root)
  BY <1>1, <1>2, <1>3, <1>12 DEF IdleAt, nodeIsRed, h
<1>14. Members(node) = {}
  BY <1>4, <1>5 DEF Members
<1> QED BY <1>2, <1>13, <1>14

-----------------------------------------------------------------------------
(* The node found: its text is next above where the walk goes on. *)
FoundAt(h, B, f, q, d) == Edge(h, B, q, d, 1) = h[f].text /\ B[f][0] <= B[q][0]

(* A rotation keeps that of nodes that are not part of it, and of the one  *)
(* that goes down.                                                         *)
LEMMA TurnFound ==
  ASSUME NEW h, NEW B, InOrder(h, B), NEW n, NEW e, NEW r, Under(h, n, e, r),
         NEW d \in Dir, NEW s, Under(h, r, 1 - d, s), NEW h2 \in Nodes, Turned(h, h2, n, e, r, d),
         NEW B2, B2 = TurnedBounds(h, B, r, d)
  PROVE  /\ \A m \in Used(h) \ {r, s}, x, y \in Dir : Edge(h2, B2, m, x, y) = Edge(h, B, m, x, y)
         /\ \A y \in Dir : Edge(h2, B2, r, d, y) = Edge(h, B, r, d, y)
         /\ \A m \in Used(h) \ {r, s}, f \in Used(h) \ {s} :
              (f = r => d = 0) /\ B[f][0] <= B[m][0] => B2[f][0] <= B2[m][0]
         /\ \A f \in Used(h) \ {s} : B[f][0] <= B[r][0] => B2[f][0] <= B2[r][0]
<1>1. r \in Used(h) /\ s \in Used(h) /\ s # r
  BY TurnKeepsOrder
<1>2. r \in Place /\ s \in Place /\ s = h[r].link[1 - d] /\ r \in InTree(h) /\ \A m \in Used(h) : m \in Place
  BY <1>1, Places DEF Used, Under
<1>3. 1 - d \in Dir /\ 1 - d # d /\ \A x \in Dir : x = d \/ x = 1 - d
  BY Opposite
<1>4. \A m \in Place, x \in Dir : B[m][x] \in Int
  BY DEF InOrder, Bounds
<1>5. /\ B2[r] = [x \in Dir |-> IF x = d THEN B[r][x] ELSE h[s].text] /\ \A m \in Place \ {r, s} : B2[m] = B[m]
  BY <1>1, <1>2 DEF TurnedBounds
<1>6. B2[r][d] = B[r][d] /\ B2[r][1 - d] = h[s].text
  BY <1>3, <1>5
<1>7. \A m \in Place : h2[m].text = h[m].text
  BY DEF Turned
<1>8. \A m \in Used(h) \ {r, s}, x, y \in Dir : Edge(h2, B2, m, x, y) = Edge(h, B, m, x, y)
  BY <1>2, <1>5, <1>7 DEF Edge
<1>9. \A y \in Dir : Edge(h2, B2, r, d, y) = Edge(h, B, r, d, y)
  BY <1>2, <1>6, <1>7 DEF Edge
<1>10. B[r][0] <= B2[r][0] /\ (d = 0 => B2[r][0] = B[r][0])
  <2>1. CASE d = 0
    BY <2>1, <1>2, <1>4, <1>6, Places
  <2>2. CASE d = 1
    <3>1. Within(B[s], h[s].text) /\ h[s].text \in Nat /\ \A x \in Nat : Within(B[s], x) => Within(B[r], x)
      BY Descend
    <3>2. B[r][0] < h[s].text
      BY <3>1 DEF Within
    <3>3. B2[r][0] = h[s].text
      BY <2>2, <1>6
    <3> QED BY <2>2, <3>1, <3>2, <3>3, <1>2, <1>4, Places
  <2> QED BY <2>1, <2>2, Places
<1>11. \A m \in Used(h) : B[m][0] \in Int
  BY <1>2, <1>4, Places
<1>12. ASSUME NEW m \in Used(h) \ {r, s}, NEW f \in Used(h) \ {s}, f = r => d = 0, B[f][0] <= B[m][0]
       PROVE  B2[f][0] <= B2[m][0]
  <2>1. B2[m][0] = B[m][0]
    BY <1>2, <1>5
  <2>2. B2[f][0] = B[f][0]
    BY <1>2, <1>5, <1>10, <1>12
  <2> QED BY <2>1, <2>2, <1>12
<1>13. ASSUME NEW f \in Used(h) \ {s}, B[f][0] <= B[r][0] PROVE B2[f][0] <= B2[r][0]
  <2>1. CASE f = r
    <3>1. B2[r][0] \in Int
      <4>1. h[s].text \in Nat
        BY <1>2, NodeFields DEF InOrder
      <4> QED BY <4>1, <1>2, <1>3, <1>4, <1>6, Places
    <3> QED BY <2>1, <3>1
  <2>2. CASE f # r
    <3>1. B2[f][0] = B[f][0]
      BY <1>2, <1>5, <2>2
    <3>2. B2[r][0] \in Int
      <4>1. h[s].text \in Nat
        BY <1>2, NodeFields DEF InOrder
      <4> QED BY <4>1, <1>2, <1>3, <1>4, <1>6, Places
    <3> QED BY <3>1, <3>2, <1>1, <1>10, <1>11, <1>13
  <2> QED BY <2>1, <2>2
<1> QED BY <1>8, <1>9, <1>12, <1>13

(* A double rotation. *)
LEMMA DoubleTurn ==
  ASSUME NEW h, NEW B, InOrder(h, B), NEW t, NEW e, NEW g, Under(h, t, e, g),
         NEW l, NEW p, Under(h, g, l, p), NEW q, Under(h, p, 1 - l, q),
         NEW h2, h2 = Hung(h, t, e, rotateDouble(h, g, 1 - l))
  PROVE  /\ h2 \in Nodes /\ Used(h2) = Used(h)
         /\ \A m \in Place : h2[m].text = h[m].text /\ h2[m].ordinal = h[m].ordinal
         /\ h2[t].link[e] = q /\ h2[t].link[1 - e] = h[t].link[1 - e]
         /\ h2[q].link[l] = p /\ h2[q].link[1 - l] = g
         /\ h2[p].link[l] = h[p].link[l] /\ h2[p].link[1 - l] = h[q].link[l]
         /\ h2[g].link[l] = h[q].link[1 - l] /\ h2[g].link[1 - l] = h[g].link[1 - l]
         /\ \A m \in InTree(h) \ {t, g, p, q}, x \in Dir : h2[m].link[x] = h[m].link[x]
         /\ \A m \in Place \ {g, p, q} : h2[m].red <=> h[m].red
         /\ \A m \in Place \ {t, g, p, q} : h2[m] = h[m]
         /\ t \notin {g, p, q} /\ g \notin {p, q} /\ p # q
         /\ \E B2 : /\ InOrder(h2, B2)
                    /\ \A m \in Used(h) \ {g, p, q} :
                         /\ \A x, y \in Dir : Edge(h2, B2, m, x, y) = Edge(h, B, m, x, y)
                         /\ \A f \in Used(h) \ {p, q} :
                              (f = g => l = 1) /\ B[f][0] <= B[m][0] => B2[f][0] <= B2[m][0]
<1> DEFINE d == 1 - l
           a == h[q].link[l]
           b == h[q].link[d]
           c == h[p].link[l]
           u == h[g].link[d]
           h1 == Hung(h, g, l, rotateSingle(h, p, l))
           B1 == TurnedBounds(h, B, p, l)
           B2 == TurnedBounds(h1, B1, g, d)
<1>1. l \in Dir /\ e \in Dir /\ d \in Dir /\ 1 - d = l /\ l # d /\ (\A x \in Dir : x = l \/ x = d)
      /\ 1 - e \in Dir /\ 1 - e # e /\ \A x \in Dir : x = e \/ x = 1 - e
  BY Opposite DEF Under
<1>2. h[t].link[e] = g /\ h[g].link[l] = p /\ h[p].link[d] = q /\ t \in InTree(h) /\ q # NoNode
  BY DEF Under
<1>3. g \in Used(h) /\ p \in Used(h) /\ g # t /\ p # t /\ p # g
  BY TwoDown
<1>4. q \in Used(h) /\ q # g /\ q # p
  BY TwoDown
<1>5. /\ g \in InTree(h) /\ p \in InTree(h) /\ q \in InTree(h) /\ g \in Allocated /\ p \in Allocated
      /\ g \in Place /\ p \in Place /\ q \in Place /\ t \in Place
  BY <1>2, <1>3, <1>4, Places DEF InTree, Used
<1>6. h \in Nodes
  BY DEF InOrder
<1>7. /\ h1 \in Nodes /\ Turned(h, h1, g, l, p, l) /\ Painted(h, h1, p, q)
      /\ \A m \in Place : m \notin {g, p, q} => h1[m] = h[m]
  <2> HIDE DEF d
  <2> QED BY <1>1, <1>2, <1>3, <1>4, <1>5, <1>6, HungIs DEF d
<1>8. /\ h1[g].link[l] = q /\ h1[g].link[d] = u /\ u \notin {p, q}
      /\ h1[p].link[d] = a /\ h1[p].link[l] = c /\ a \notin {p, q} /\ c \notin {p, q}
      /\ h1[q].link[l] = p /\ h1[q].link[d] = b /\ b \notin {p, q}
      /\ \A m \in InTree(h) \ {g, p, q}, x \in Dir : h1[m].link[x] = h[m].link[x] /\ h[m].link[x] \notin {p, q}
  BY <1>1, <1>7, TurnLinks
<1>9. InOrder(h1, B1) /\ Used(h1) = Used(h)
  BY <1>1, <1>4, <1>5, <1>7, TurnKeepsOrder
<1>10. h2 = Hung(h1, t, e, rotateSingle(h1, g, d))
  BY <1>1, <1>2, DoubleIs
<1>11. /\ \A m \in Used(h) \ {p, q}, x, y \in Dir : Edge(h1, B1, m, x, y) = Edge(h, B, m, x, y)
       /\ \A m \in Used(h) \ {p, q}, f \in Used(h) \ {q} :
              (f = p => l = 0) /\ B[f][0] <= B[m][0] => B1[f][0] <= B1[m][0]
  BY <1>1, <1>7, TurnFound
<1> HIDE DEF h1, B1, B2
<1>12. InTree(h1) = InTree(h)
  BY <1>9 DEF InTree
<1>13. t # q
  <2>1. /\ h[t].text \in Nat /\ h[q].text \in Nat /\ Within(B[q], h[q].text)
    BY <1>2, <1>5, <1>6, NodeFields DEF InOrder, Bounded
  <2>2. \A x \in Nat : Within(B[p], x) => x # h[t].text
    BY TwoDown
  <2>3. \A x \in Nat : Within(B[q], x) => Within(B[p], x)
    BY Descend
  <2> QED BY <2>1, <2>2, <2>3
<1>14. Under(h1, t, e, g) /\ Under(h1, g, 1 - d, q)
  <2>1. h1[t].link[e] = g
    BY <1>1, <1>2, <1>3, <1>8, <1>13
  <2> QED BY <1>1, <1>2, <1>3, <1>5, <1>8, <1>12, <2>1, Places DEF Under, Place
<1>15. /\ h2 \in Nodes /\ Turned(h1, h2, t, e, g, d) /\ Painted(h1, h2, g, q)
       /\ \A m \in Place : m \notin {t, g, q} => h2[m] = h1[m]
  <2>1. h1[g].link[1 - d] = q
    BY <1>1, <1>8
  <2> HIDE DEF d
  <2> QED BY <1>1, <1>3, <1>4, <1>5, <1>7, <1>10, <1>13, <2>1, HungIs
<1>16. /\ h2[t].link[e] = q /\ h2[t].link[1 - e] = h1[t].link[1 - e]
       /\ h2[g].link[l] = b /\ h2[g].link[d] = u
       /\ h2[q].link[d] = g /\ h2[q].link[l] = p
       /\ \A m \in InTree(h) \ {t, g, q}, x \in Dir : h2[m].link[x] = h1[m].link[x]
  <2> HIDE DEF d
  <2>1. /\ h2[t].link[e] = q /\ h2[t].link[1 - e] = h1[t].link[1 - e]
        /\ h2[g].link[1 - d] = h1[q].link[d] /\ h2[g].link[d] = h1[g].link[d]
        /\ h2[q].link[d] = g /\ h2[q].link[1 - d] = h1[q].link[1 - d]
        /\ \A m \in InTree(h1) \ {t, g, q}, x \in Dir : h2[m].link[x] = h1[m].link[x]
    BY <1>1, <1>9, <1>14, <1>15, TurnLinks
  <2> QED BY <2>1, <1>1, <1>8, <1>12
<1>17. InOrder(h2, B2) /\ Used(h2) = Used(h)
  <2> HIDE DEF d
  <2> QED BY <1>1, <1>5, <1>9, <1>13, <1>14, <1>15, TurnKeepsOrder DEF B2
<1>18. /\ \A m \in Used(h) \ {g, q}, x, y \in Dir : Edge(h2, B2, m, x, y) = Edge(h1, B1, m, x, y)
       /\ \A m \in Used(h) \ {g, q}, f \in Used(h) \ {q} :
              (f = g => d = 0) /\ B1[f][0] <= B1[m][0] => B2[f][0] <= B2[m][0]
  <2> HIDE DEF d
  <2>1. B2 = TurnedBounds(h1, B1, g, d)
    BY DEF B2
  <2>2. /\ \A m \in Used(h1) \ {g, q}, x, y \in Dir : Edge(h2, B2, m, x, y) = Edge(h1, B1, m, x, y)
        /\ \A m \in Used(h1) \ {g, q}, f \in Used(h1) \ {q} :
              (f = g => d = 0) /\ B1[f][0] <= B1[m][0] => B2[f][0] <= B2[m][0]
    BY <1>1, <1>9, <1>14, <1>15, <2>1, TurnFound
  <2> QED BY <1>9, <2>2
<1>19. \A m \in Place : h2[m].text = h[m].text /\ h2[m].ordinal = h[m].ordinal
  BY <1>7, <1>15 DEF Turned
<1>20. \A m \in Place \ {g, p, q} : h2[m].red <=> h[m].red
  BY <1>7, <1>15 DEF Painted
<1>21. \A m \in Place \ {t, g, p, q} : h2[m] = h[m]
  BY <1>7, <1>15
<1>22. /\ h2[p].link[d] = a /\ h2[p].link[l] = c
  BY <1>1, <1>3, <1>4, <1>5, <1>8, <1>16
<1>23. \A m \in InTree(h) \ {t, g, p, q}, x \in Dir : h2[m].link[x] = h[m].link[x]
  BY <1>8, <1>16
<1>24. h2[t].link[1 - e] = h[t].link[1 - e]
  BY <1>1, <1>2, <1>3, <1>8, <1>13, <1>16
<1>25. \A m \in Used(h) \ {g, p, q} :
         /\ \A x, y \in Dir : Edge(h2, B2, m, x, y) = Edge(h, B, m, x, y)
         /\ \A f \in Used(h) \ {p, q} :
              (f = g => l = 1) /\ B[f][0] <= B[m][0] => B2[f][0] <= B2[m][0]
  <2>1. l = 1 => d = 0
    BY <1>1
  <2> HIDE DEF d
  <2> QED BY <1>11, <1>18, <2>1
<1> QED BY <1>1, <1>3, <1>4, <1>13, <1>15, <1>16, <1>17, <1>19, <1>20, <1>21, <1>22, <1>23, <1>24, <1>25

-----------------------------------------------------------------------------
(* The walk of a removal has come to q from par, and goes on side d: q or  *)
(* the node there is red, or q is a root that is to become red.            *)
Reached(h, par, q, d) ==
  /\ \E e : Under(h, par, e, q)
  /\ \/ h[q].red \/ nodeIsRed(h, h[q].link[d])
     \/ par = Top /\ \A x \in Dir : ~ nodeIsRed(h, h[q].link[x])

(* What there is on side d of q is the same, and so is the node found.     *)
SameParts(h, B, h2, B2, q, d) ==
  /\ \A y \in Dir : Edge(h2, B2, q, d, y) = Edge(h, B, q, d, y)
  /\ \A f \in Used(h) : FoundAt(h, B, f, q, d) => FoundAt(h2, B2, f, q, d)

(* What a step of a removal keeps. *)
PushKeeps(h, B, h2, par, q, d) ==
  /\ h2 \in Nodes /\ Used(h2) = Used(h)
  /\ \A m \in Place : h2[m].text = h[m].text /\ h2[m].ordinal = h[m].ordinal
  /\ Coloured(h2) /\ Clean(h2) /\ \E H2 : OfHeight(h2, H2)
  /\ \E B2 : InOrder(h2, B2) /\ SameParts(h, B, h2, B2, q, d)
  /\ Reached(h2, par, q, d)

(* The node found is on the way, or above it: never beside it. *)
LEMMA FoundIs ==
  ASSUME NEW h, NEW B, InOrder(h, B), NEW p, NEW l, NEW q, Under(h, p, l, q), NEW d \in Dir,
         NEW f \in Used(h), FoundAt(h, B, f, q, d)
  PROVE  /\ \A t \in Nat : Within(B[p], t) /\ t # h[p].text /\ t # h[q].text => t # h[f].text
         /\ f = p => l = 0
         /\ f = q => d = 0
<1>1. p \in InTree(h) /\ l \in Dir /\ h[p].link[l] = q /\ q # NoNode
  BY DEF Under
<1>2. /\ q \in Used(h) /\ q # p /\ h[q].text \in Nat
      /\ l = 0 => h[q].text < h[p].text /\ B[q][1] = h[p].text /\ B[q][0] = B[p][0]
      /\ l = 1 => h[q].text > h[p].text /\ B[q][0] = h[p].text /\ B[q][1] = B[p][1]
  BY <1>1, BelowIs, NodeFields DEF InOrder, Nodes, SearchNode
<1>3. q \in InTree(h) /\ p \in Place /\ q \in Place /\ h[p].text \in Nat /\ h[f].text \in Nat /\ f \in Place
  BY <1>1, <1>2, NodeFields, Places DEF InOrder, InTree, Used
<1>4. /\ B[p][0] \in Int /\ B[p][1] \in Int /\ B[q][0] \in Int /\ B[q][1] \in Int
      /\ Within(B[p], h[p].text) /\ Within(B[q], h[q].text)
  BY <1>1, <1>3, Places DEF InOrder, Bounds, Bounded
<1>5. h[f].text = IF d = 1 THEN B[q][1] ELSE h[q].text
  BY Places DEF FoundAt, Edge
<1>6. (d = 0 \/ d = 1) /\ (l = 0 \/ l = 1)
  BY <1>1, Places
<1>7. ASSUME NEW t \in Nat, Within(B[p], t), t # h[p].text, t # h[q].text PROVE t # h[f].text
  BY <1>2, <1>3, <1>4, <1>5, <1>6, <1>7 DEF Within
<1>8. ASSUME f = p PROVE l = 0
  BY <1>2, <1>3, <1>4, <1>5, <1>6, <1>8 DEF Within
<1>9. ASSUME f = q PROVE d = 0
  BY <1>2, <1>3, <1>4, <1>5, <1>6, <1>9 DEF Within
<1> QED BY <1>7, <1>8, <1>9

(* A node between the bounds of p that is neither p nor q is not the one   *)
(* found.                                                                  *)
LEMMA NotFound ==
  ASSUME NEW h, NEW B, InOrder(h, B), NEW p, NEW l, NEW q, Under(h, p, l, q), NEW d \in Dir,
         NEW f \in Used(h), FoundAt(h, B, f, q, d),
         NEW s \in Used(h), s # q, s # p, Within(B[p], h[s].text)
  PROVE  f # s
<1>1. h[s].text \in Nat /\ h[s].text # h[q].text
  <2>1. q \in Used(h)
    BY Descend
  <2>2. s \in Place
    BY Places DEF Used
  <2> QED BY <2>1, <2>2, NodeFields DEF InOrder, Distinct
<1>2. h[s].text # h[p].text
  <2>1. CASE p = Top
    BY <2>1 DEF InOrder, Rooted, Used
  <2>2. CASE p # Top
    BY <2>2 DEF Under, InTree, InOrder, Distinct
  <2> QED BY <2>1, <2>2
<1> QED BY <1>1, <1>2, FoundIs

(* The rotation of q when the side that is not taken is red. *)
LEMMA PushTurned ==
  ASSUME NEW h, NEW B, NEW H, InOrder(h, B), OfHeight(h, H), Coloured(h), Clean(h),
         NEW p, NEW l, NEW q, Under(h, p, l, q), NEW d \in Dir, ~ nodeIsRed(h, q), ~ nodeIsRed(h, h[q].link[d]),
         NEW s, Under(h, q, 1 - d, s), nodeIsRed(h, s),
         NEW h2, h2 = Hung(h, p, l, rotateSingle(h, q, d))
  PROVE  PushKeeps(h, B, h2, s, q, d)
<1> DEFINE k == H[q]
           H2 == [x \in Link |-> IF x = q THEN H[s] ELSE IF x = s THEN H[q] ELSE H[x]]
           B2 == TurnedBounds(h, B, q, d)
           c == h[q].link[d]
           a == h[s].link[d]
           b == h[s].link[1 - d]
<1>1. l \in Dir /\ p \in InTree(h) /\ h[p].link[l] = q /\ q # NoNode /\ h[q].link[1 - d] = s /\ s # NoNode
      /\ 1 - d \in Dir /\ 1 - d # d /\ \A x \in Dir : x = d \/ x = 1 - d
  BY Opposite DEF Under
<1>2. q \in Used(h) /\ s \in Used(h) /\ q # p /\ s # p /\ s # q
  BY <1>1, TwoDown
<1>3. /\ q \in Place /\ s \in Place /\ p \in Place /\ q \in Allocated /\ q \in Link /\ s \in Link
      /\ q \in InTree(h) /\ s \in InTree(h) /\ h \in Nodes /\ H \in Heights /\ H[NoNode] = 1
      /\ q # Top /\ s # Top
  BY <1>1, <1>2, Places DEF InTree, Used, Link, InOrder, OfHeight
<1>4. /\ h2 \in Nodes /\ Turned(h, h2, p, l, q, d) /\ Painted(h, h2, q, s)
      /\ \A m \in Place : m \notin {p, q, s} => h2[m] = h[m]
  BY <1>1, <1>2, <1>3, HungIs
<1>5. /\ h2[p].link[l] = s /\ h2[p].link[1 - l] = h[p].link[1 - l] /\ h[p].link[1 - l] \notin {q, s}
      /\ h2[q].link[1 - d] = a /\ h2[q].link[d] = c /\ a \notin {q, s} /\ c \notin {q, s}
      /\ h2[s].link[d] = q /\ h2[s].link[1 - d] = b /\ b \notin {q, s}
      /\ \A m \in InTree(h) \ {p, q, s}, x \in Dir : h2[m].link[x] = h[m].link[x] /\ h[m].link[x] \notin {q, s}
  BY <1>1, <1>4, TurnLinks
<1>6. InOrder(h2, B2) /\ Used(h2) = Used(h)
  BY <1>1, <1>4, TurnKeepsOrder
<1>7. \A m \in Place : h2[m].text = h[m].text /\ h2[m].ordinal = h[m].ordinal
  BY <1>4 DEF Turned
<1>8. /\ a \in Link /\ b \in Link /\ c \in Link
  BY <1>1, <1>3, NodeFields
<1>9. h[s].red /\ ~ h[q].red /\ ~ nodeIsRed(h, a) /\ ~ nodeIsRed(h, b) /\ ~ nodeIsRed(h, c)
  BY <1>1, <1>2 DEF nodeIsRed, Coloured
<1>10. /\ H[s] \in Nat \ {0} /\ k = H[s] + 1 /\ H[a] = H[s] /\ H[b] = H[s] /\ H[c] = H[s]
  <2>1. /\ H[q] \in Nat /\ H[s] \in Nat \ {0} /\ H[a] \in Nat /\ H[b] \in Nat /\ H[c] \in Nat
    BY <1>3, <1>8 DEF Heights
  <2>2. HeightAt(h, H, q) /\ HeightAt(h, H, s)
    BY <1>2 DEF OfHeight
  <2>3. H[q] = H[s] + 1 /\ H[q] = H[c] + 1
    BY <2>2, <1>1, <1>9 DEF HeightAt
  <2>4. H[s] = H[a] + 0 /\ H[s] = H[b] + 0
    BY <2>2, <1>1, <1>9 DEF HeightAt
  <2> QED BY <2>1, <2>3, <2>4
<1>11. /\ H2 \in Heights /\ H2[NoNode] = 1 /\ H2[q] = H[s] /\ H2[s] = H[q] /\ \A x \in Link \ {q, s} : H2[x] = H[x]
  <2>1. NoNode \in Link /\ NoNode \notin {q, s}
    BY <1>1 DEF Link
  <2>2. \A x \in Link : H[x] \in Nat \ {0}
    BY <1>3 DEF Heights
  <2> QED BY <1>2, <1>3, <2>1, <2>2 DEF Heights
<1> HIDE DEF H2, k, a, b, c
<1>12. OfHeight(h2, H2)
  <2>1. /\ \A m \in Used(h) \ {p, q, s} : (h2[m].red <=> h[m].red) /\ HeightAt(h, H, m) => HeightAt(h2, H2, m)
        /\ p \in Used(h) /\ (h2[p].red <=> h[p].red) /\ HeightAt(h, H, p) /\ H2[s] = H[q] => HeightAt(h2, H2, p)
    BY <1>1, <1>3, <1>4, <1>11, TurnHeights
  <2>2. \A m \in Used(h) : m \in Place /\ HeightAt(h, H, m)
    BY Places DEF Used, OfHeight
  <2>3. \A m \in Place \ {q, s} : h2[m].red <=> h[m].red
    BY <1>4 DEF Painted
  <2>4. \A m \in Used(h) \ {q, s} : HeightAt(h2, H2, m)
    BY <2>1, <2>2, <2>3, <1>2, <1>11
  <2>5. h2[q].red /\ ~ h2[s].red
    BY <1>4 DEF Painted
  <2>6. HeightAt(h2, H2, q)
    <3> SUFFICES ASSUME NEW x \in Dir PROVE H2[q] = H2[h2[q].link[x]] + 0
      BY <2>5 DEF HeightAt
    <3>1. h2[q].link[x] = a \/ h2[q].link[x] = c
      BY <1>1, <1>5
    <3>2. H2[a] = H[s] /\ H2[c] = H[s]
      BY <1>5, <1>8, <1>10, <1>11
    <3> QED BY <3>1, <3>2, <1>10, <1>11
  <2>7. HeightAt(h2, H2, s)
    <3> SUFFICES ASSUME NEW x \in Dir PROVE H2[s] = H2[h2[s].link[x]] + 1
      BY <2>5 DEF HeightAt
    <3>1. h2[s].link[x] = b \/ h2[s].link[x] = q
      BY <1>1, <1>5
    <3>2. H2[b] = H[s] /\ H2[q] = H[s]
      BY <1>5, <1>8, <1>10, <1>11
    <3> QED BY <3>1, <3>2, <1>10, <1>11 DEF k
  <2> QED BY <1>6, <1>11, <2>4, <2>6, <2>7 DEF OfHeight
<1>13. \A n \in Link \ {q} : nodeIsRed(h2, n) => nodeIsRed(h, n)
  BY <1>4 DEF nodeIsRed, Link, Place, Painted
<1>14. Coloured(h2)
  <2> SUFFICES ASSUME NEW m \in Used(h), NEW x \in Dir, h2[m].red, nodeIsRed(h2, h2[m].link[x]) PROVE FALSE
    BY <1>6 DEF Coloured
  <2>1. m \in Place /\ m \in InTree(h) /\ h[m].link[x] \in Link
    BY <1>3, NodeFields, Places DEF Used, InTree
  <2>2. m # s
    BY <1>4 DEF Painted
  <2>3. CASE m = q
    <3>1. h2[q].link[x] = a \/ h2[q].link[x] = c
      BY <1>1, <1>5
    <3>2. ~ nodeIsRed(h2, a) /\ ~ nodeIsRed(h2, c)
      BY <1>5, <1>8, <1>9, <1>13
    <3> QED BY <3>1, <3>2, <2>3
  <2>4. CASE m # q
    <3>1. h[m].red
      BY <2>1, <2>2, <2>4, <1>4 DEF Painted
    <3>2. h2[m].link[x] # s
      BY <1>4 DEF Painted, nodeIsRed
    <3>3. h2[m].link[x] = h[m].link[x] /\ h[m].link[x] # q
      <4>1. CASE m = p
        <5>1. x = 1 - l
          BY <4>1, <3>2, <1>1, <1>5, Opposite
        <5> QED BY <4>1, <5>1, <1>5
      <4>2. CASE m # p
        BY <4>2, <2>1, <2>2, <2>4, <1>5
      <4> QED BY <4>1, <4>2
    <3>4. nodeIsRed(h, h[m].link[x])
      BY <3>3, <2>1, <1>13
    <3> QED BY <3>1, <3>4 DEF Coloured
  <2> QED BY <2>3, <2>4
<1>15. Clean(h2)
  <2>1. ~ h2[Top].red
    BY <1>3, <1>4, Places DEF Clean, Painted
  <2>2. ASSUME NEW m \in Allocated, h2[m].text = 0 PROVE h2[m] = Free
    <3>1. m \notin Used(h)
      BY <2>2, <1>6 DEF Used
    <3>2. m \notin {p, q, s}
      BY <3>1, <1>1, <1>2, Places DEF InTree
    <3> QED BY <3>1, <3>2, <1>4, Places DEF Clean, Used
  <2> QED BY <2>1, <2>2 DEF Clean
<1>16. SameParts(h, B, h2, B2, q, d)
  <2>1. \A y \in Dir : Edge(h2, B2, q, d, y) = Edge(h, B, q, d, y)
    BY <1>1, <1>4, TurnFound
  <2>2. ASSUME NEW f \in Used(h), FoundAt(h, B, f, q, d) PROVE FoundAt(h2, B2, f, q, d)
    <3>1. Within(B[p], h[s].text)
      BY <1>1, Descend
    <3>2. f # s
      BY <1>2, <2>2, <3>1, NotFound
    <3>3. B2[f][0] <= B2[q][0]
      <4>1. B[f][0] <= B[q][0]
        BY <2>2 DEF FoundAt
      <4> QED BY <1>1, <1>4, <3>2, <4>1, TurnFound
    <3>4. h2[f].text = h[f].text
      BY <1>7, Places DEF Used
    <3> QED BY <2>1, <2>2, <3>3, <3>4, Places DEF FoundAt
  <2> QED BY <2>1, <2>2 DEF SameParts
<1>17. Reached(h2, s, q, d)
  <2>1. Under(h2, s, d, q)
    BY <1>1, <1>2, <1>5, <1>6 DEF Under, InTree
  <2>2. h2[q].red
    BY <1>4 DEF Painted
  <2> QED BY <2>1, <2>2 DEF Reached
<1> QED BY <1>4, <1>6, <1>7, <1>12, <1>14, <1>15, <1>16, <1>17 DEF PushKeeps

-----------------------------------------------------------------------------
(* Nothing to push: a red node is there already, or q is a root. *)
LEMMA PushNothing ==
  ASSUME NEW h, NEW B, NEW H, InOrder(h, B), OfHeight(h, H), Coloured(h), Clean(h),
         NEW p, NEW q, NEW d \in Dir, Reached(h, p, q, d)
  PROVE  PushKeeps(h, B, h, p, q, d)
<1>1. SameParts(h, B, h, B, q, d)
  BY DEF SameParts
<1>2. h \in Nodes
  BY DEF InOrder
<1> QED BY <1>1, <1>2 DEF PushKeeps

(* A black node other than the root has a sibling. *)
LEMMA NoSibling ==
  ASSUME NEW h, NEW B, NEW H, InOrder(h, B), OfHeight(h, H), NEW p, NEW l, NEW q, Under(h, p, l, q),
         ~ nodeIsRed(h, q), h[p].link[1 - l] = NoNode
  PROVE  p = Top
<1> SUFFICES ASSUME p # Top PROVE FALSE
  OBVIOUS
<1>1. p \in Used(h) /\ l \in Dir /\ h[p].link[l] = q /\ 1 - l \in Dir /\ q \in Used(h) /\ q # NoNode /\ 0 \in Dir
  BY Descend, Opposite, Places DEF Under, InTree
<1>2. p \in Place /\ q \in Place /\ q \in Link /\ h \in Nodes /\ H \in Heights /\ H[NoNode] = 1
  BY <1>1, Places DEF Used, Link, InOrder, OfHeight
<1>3. h[q].link[0] \in Link /\ h[p].red \in BOOLEAN
  BY <1>1, <1>2, NodeFields
<1>4. H[q] \in Nat \ {0} /\ H[h[q].link[0]] \in Nat \ {0}
  BY <1>2, <1>3 DEF Heights
<1>5. HeightAt(h, H, p) /\ HeightAt(h, H, q)
  BY <1>1 DEF OfHeight
<1>6. H[q] = H[h[q].link[0]] + 1
  BY <1>1, <1>5 DEF HeightAt, nodeIsRed
<1>7. H[p] = H[q] + (IF h[p].red THEN 0 ELSE 1) /\ H[p] = 1 + (IF h[p].red THEN 0 ELSE 1)
  BY <1>1, <1>2, <1>5 DEF HeightAt
<1> QED BY <1>3, <1>4, <1>6, <1>7

(* The node above one that is pushed: red, or a black root with no red     *)
(* node under it.                                                          *)
Pushable(h, g, p) == h[p].red \/ (g = Top /\ \A x \in Dir : ~ nodeIsRed(h, h[p].link[x]))

(* The heights there. *)
LEMMA Siblings ==
  ASSUME NEW h, NEW B, NEW H, InOrder(h, B), OfHeight(h, H), Coloured(h), Clean(h),
         NEW g, NEW e, NEW p, Under(h, g, e, p), Pushable(h, g, p),
         NEW l, NEW q, Under(h, p, l, q), NEW s, Under(h, p, 1 - l, s), ~ nodeIsRed(h, q)
  PROVE  /\ p \in Used(h) /\ q \in Used(h) /\ s \in Used(h) /\ q # s /\ p \notin {q, s} /\ g \notin {p, q, s}
         /\ ~ h[q].red /\ ~ h[s].red /\ ~ h[g].red /\ (g # Top => h[p].red)
         /\ \E k \in Nat \ {0} :
              /\ H[q] = k + 1 /\ H[s] = k + 1
              /\ \A x \in Dir : H[h[q].link[x]] = k /\ H[h[s].link[x]] = k
              /\ h[p].red => H[p] = k + 1
<1>1. /\ l \in Dir /\ e \in Dir /\ h[g].link[e] = p /\ h[p].link[l] = q /\ h[p].link[1 - l] = s /\ s # NoNode /\ q # NoNode
      /\ p \in InTree(h) /\ g \in InTree(h) /\ p # NoNode /\ 1 - l \in Dir /\ 1 - l # l /\ 0 \in Dir
      /\ \A x \in Dir : x = l \/ x = 1 - l
  BY Opposite, Places DEF Under
<1>2. p \in Used(h) /\ q \in Used(h) /\ p # g /\ q # g /\ q # p
  BY TwoDown
<1>3. s \in Used(h) /\ s # g /\ s # p
  BY TwoDown
<1>4. q # s
  <2>1. Once(h)
    BY DEF InOrder
  <2> QED BY <1>1, <2>1 DEF Once
<1>5. /\ p \in Place /\ q \in Place /\ s \in Place /\ q \in Link /\ s \in Link /\ p \in Link
      /\ h \in Nodes /\ H \in Heights /\ H[NoNode] = 1
  BY <1>2, <1>3, Places DEF Used, Link, InOrder, OfHeight
<1>6. ~ h[q].red /\ ~ h[s].red
  BY <1>1, <1>2 DEF nodeIsRed, Pushable, Coloured
<1>7. g # Top => h[p].red
  BY DEF Pushable
<1>8. ~ h[g].red
  BY <1>1, <1>7 DEF Clean, Coloured, InTree, nodeIsRed
<1>9. PICK k \in Nat : k = H[h[q].link[0]]
  <2>1. h[q].link[0] \in Link
    BY <1>1, <1>5, NodeFields
  <2> QED BY <2>1, <1>5 DEF Heights
<1>10. HeightAt(h, H, p) /\ HeightAt(h, H, q) /\ HeightAt(h, H, s)
  BY <1>2, <1>3 DEF OfHeight
<1>11. k # 0
  <2>1. h[q].link[0] \in Link
    BY <1>1, <1>5, NodeFields
  <2> QED BY <2>1, <1>5, <1>9 DEF Heights
<1>12. \A x \in Dir : H[h[q].link[x]] \in Nat /\ H[h[s].link[x]] \in Nat
  <2>1. \A x \in Dir : h[q].link[x] \in Link /\ h[s].link[x] \in Link
    BY <1>5, NodeFields
  <2> QED BY <2>1, <1>5 DEF Heights
<1>13. \A x \in Dir : H[q] = H[h[q].link[x]] + 1 /\ H[s] = H[h[s].link[x]] + 1
  BY <1>6, <1>10 DEF HeightAt
<1>14. H[p] = H[q] + (IF h[p].red THEN 0 ELSE 1) /\ H[p] = H[s] + (IF h[p].red THEN 0 ELSE 1)
  BY <1>1, <1>10 DEF HeightAt
<1>15. H[q] \in Nat /\ H[s] \in Nat /\ H[p] \in Nat
  BY <1>5 DEF Heights
<1>16. H[q] = k + 1 /\ H[s] = k + 1 /\ (h[p].red => H[p] = k + 1)
  BY <1>1, <1>9, <1>13, <1>14, <1>15
<1>17. \A x \in Dir : H[h[q].link[x]] = k /\ H[h[s].link[x]] = k
  BY <1>9, <1>12, <1>13, <1>16
<1>18. \E j \in Nat \ {0} :
              /\ H[q] = j + 1 /\ H[s] = j + 1
              /\ \A x \in Dir : H[h[q].link[x]] = j /\ H[h[s].link[x]] = j
              /\ h[p].red => H[p] = j + 1
  BY <1>9, <1>11, <1>16, <1>17
<1> QED BY <1>2, <1>3, <1>4, <1>6, <1>7, <1>8, <1>18

(* The colours of p and what is under it are swapped. *)
Swapped(h, p, q, s) == [h EXCEPT ![p].red = FALSE, ![s].red = TRUE, ![q].red = TRUE]

(* The colours are swapped when neither q nor its sibling has a red        *)
(* child.                                                                  *)
LEMMA PushPainted ==
  ASSUME NEW h, NEW B, NEW H, InOrder(h, B), OfHeight(h, H), Coloured(h), Clean(h),
         NEW g, NEW e, NEW p, Under(h, g, e, p), Pushable(h, g, p),
         NEW l, NEW q, Under(h, p, l, q), NEW s, Under(h, p, 1 - l, s), ~ nodeIsRed(h, q), NEW d \in Dir,
         \A x \in Dir : ~ nodeIsRed(h, h[q].link[x]) /\ ~ nodeIsRed(h, h[s].link[x]),
         NEW h2, h2 = Swapped(h, p, q, s)
  PROVE  PushKeeps(h, B, h2, p, q, d)
<1>1. /\ p \in Used(h) /\ q \in Used(h) /\ s \in Used(h) /\ q # s /\ p \notin {q, s} /\ g \notin {p, q, s}
      /\ ~ h[q].red /\ ~ h[s].red /\ ~ h[g].red /\ (g # Top => h[p].red)
  BY Siblings
<1>2. PICK k \in Nat \ {0} :
              /\ H[q] = k + 1 /\ H[s] = k + 1
              /\ \A x \in Dir : H[h[q].link[x]] = k /\ H[h[s].link[x]] = k
              /\ h[p].red => H[p] = k + 1
  BY Siblings
<1>3. /\ p \in Place /\ q \in Place /\ s \in Place /\ q \in Link /\ s \in Link /\ p \in Link
      /\ h \in Nodes /\ H \in Heights /\ H[NoNode] = 1 /\ p \in InTree(h) /\ q \in InTree(h) /\ s \in InTree(h)
      /\ Top \notin {p, q, s} /\ NoNode \notin {p, q, s} /\ Once(h) /\ NoNode \in Link
  BY <1>1, Places DEF Used, Link, InOrder, OfHeight, InTree
<1>4. /\ l \in Dir /\ e \in Dir /\ h[g].link[e] = p /\ h[p].link[l] = q /\ h[p].link[1 - l] = s /\ g \in InTree(h)
      /\ 1 - l \in Dir /\ 1 - l # l /\ \A x \in Dir : x = l \/ x = 1 - l
  BY Opposite DEF Under
<1>5. \A m \in Place : /\ [h[m] EXCEPT !.red = TRUE] \in SearchNode /\ [h[m] EXCEPT !.red = FALSE] \in SearchNode
                       /\ h[m] \in SearchNode
  BY <1>3, NodeFields DEF SearchNode
<1>6. h2 = [m \in Place |-> IF m = p THEN [h[m] EXCEPT !.red = FALSE]
                            ELSE IF m \in {q, s} THEN [h[m] EXCEPT !.red = TRUE] ELSE h[m]]
  BY <1>1, <1>3 DEF Nodes, Swapped
<1>7. h2 \in Nodes
  BY <1>5, <1>6 DEF Nodes
<1>8. \A m \in Place : h2[m] = IF m = p THEN [h[m] EXCEPT !.red = FALSE]
                               ELSE IF m \in {q, s} THEN [h[m] EXCEPT !.red = TRUE] ELSE h[m]
  BY <1>6
<1>9. \A m \in Place :
        /\ h2[m].text = h[m].text /\ h2[m].ordinal = h[m].ordinal /\ h2[m].link = h[m].link
        /\ h2[m].red <=> m \in {q, s} \/ (m # p /\ h[m].red)
  <2> SUFFICES ASSUME NEW m \in Place
               PROVE  /\ h2[m].text = h[m].text /\ h2[m].ordinal = h[m].ordinal /\ h2[m].link = h[m].link
                      /\ h2[m].red <=> m \in {q, s} \/ (m # p /\ h[m].red)
    OBVIOUS
  <2>0. h[m] \in SearchNode
    BY <1>3, NodeFields
  <2>1. CASE m = p
    <3>1. h2[m] = [h[m] EXCEPT !.red = FALSE]
      BY <2>1, <1>8
    <3>2. h2[m].text = h[m].text /\ h2[m].ordinal = h[m].ordinal /\ h2[m].link = h[m].link /\ h2[m].red = FALSE
      BY <2>0, <3>1 DEF SearchNode
    <3> QED BY <2>1, <3>2, <1>1
  <2>2. CASE m \in {q, s}
    <3>1. h2[m] = [h[m] EXCEPT !.red = TRUE]
      BY <2>2, <1>1, <1>8
    <3>2. h2[m].text = h[m].text /\ h2[m].ordinal = h[m].ordinal /\ h2[m].link = h[m].link /\ h2[m].red = TRUE
      BY <2>0, <3>1 DEF SearchNode
    <3> QED BY <2>2, <3>2
  <2>3. CASE m \notin {p, q, s}
    BY <2>3, <1>8
  <2> QED BY <2>1, <2>2, <2>3
<1>10. SameButRed(h, h2) /\ \A m \in Place : h2[m].red <=> m \in {q, s} \/ (m # p /\ h[m].red)
  BY <1>9 DEF SameButRed
<1>11. InOrder(h2, B) /\ Used(h2) = Used(h) /\ InTree(h2) = InTree(h)
  BY <1>7, <1>10, RepaintKeepsOrder
<1>12. \A m \in Used(h), x \in Dir :
         /\ h[m].link[x] = q => m = p
         /\ h[m].link[x] = s => m = p
         /\ h[m].link[x] = p => m = g
  BY <1>3, <1>4 DEF Once, InTree
<1>13. \A m \in Used(h) : m \in Place /\ m \in InTree(h) /\ m \in Link /\ m # Top /\ \A x \in Dir : h[m].link[x] \in Link
  BY <1>3, NodeFields, Places DEF InTree, Used, Link
<1> DEFINE H2 == [x \in Link |-> IF x \in {q, s} THEN k ELSE IF x = p THEN k + 1 ELSE H[x]]
<1>14. /\ H2 \in Heights /\ H2[NoNode] = 1 /\ H2[q] = k /\ H2[s] = k /\ H2[p] = k + 1
       /\ \A x \in Link \ {p, q, s} : H2[x] = H[x]
  <2>1. \A x \in Link : H[x] \in Nat \ {0}
    BY <1>3 DEF Heights
  <2> QED BY <1>1, <1>3, <2>1 DEF Heights
<1> HIDE DEF H2
<1>15. OfHeight(h2, H2)
  <2> SUFFICES ASSUME NEW m \in Used(h), NEW x \in Dir
               PROVE  H2[m] = H2[h2[m].link[x]] + (IF h2[m].red THEN 0 ELSE 1)
    BY <1>11, <1>14 DEF OfHeight, HeightAt
  <2>1. h2[m].link = h[m].link /\ h[m].link[x] \in Link
    BY <1>9, <1>13 DEF SameButRed
  <2>2. CASE m = p
    <3>1. H2[h[p].link[x]] = k /\ ~ h2[p].red
      BY <1>1, <1>3, <1>4, <1>10, <1>14
    <3> QED BY <2>1, <2>2, <3>1, <1>14
  <2>3. CASE m \in {q, s}
    <3>1. h[m].link[x] \notin {p, q, s}
      BY <2>3, <1>1, <1>12
    <3>2. H2[h[m].link[x]] = k
      BY <2>1, <2>3, <3>1, <1>2, <1>14
    <3>3. h2[m].red
      BY <2>3, <1>3, <1>10
    <3> QED BY <2>1, <2>3, <3>2, <3>3, <1>14
  <2>4. CASE m \notin {p, q, s}
    <3>1. H[m] = H[h[m].link[x]] + (IF h[m].red THEN 0 ELSE 1)
      BY DEF OfHeight, HeightAt
    <3>2. h2[m].red <=> h[m].red
      BY <2>4, <1>10, <1>13
    <3>3. H2[h[m].link[x]] = H[h[m].link[x]]
      <4>1. h[m].link[x] \notin {q, s}
        BY <2>4, <1>12
      <4>2. CASE h[m].link[x] = p
        <5>1. m = g /\ h[p].red
          BY <4>2, <1>1, <1>12, Places DEF Used
        <5> QED BY <4>2, <5>1, <1>2, <1>14
      <4>3. CASE h[m].link[x] # p
        BY <4>1, <4>3, <2>1, <1>14
      <4> QED BY <4>2, <4>3
    <3>4. H2[m] = H[m]
      BY <2>4, <1>13, <1>14
    <3> QED BY <2>1, <3>1, <3>2, <3>3, <3>4
  <2> QED BY <2>2, <2>3, <2>4
<1>16. Coloured(h2)
  <2> SUFFICES ASSUME NEW m \in Used(h), NEW x \in Dir, h2[m].red, nodeIsRed(h2, h2[m].link[x]) PROVE FALSE
    BY <1>11 DEF Coloured
  <2>1. h2[m].link = h[m].link /\ h[m].link[x] \in Link
    BY <1>9, <1>13 DEF SameButRed
  <2>2. h[m].link[x] \in Place /\ h2[h[m].link[x]].red
    BY <2>1, Places DEF nodeIsRed, Link
  <2>3. m # p
    BY <1>10, <1>1, <1>3
  <2>4. h[m].link[x] \notin {q, s}
    BY <2>3, <1>12
  <2>5. nodeIsRed(h, h[m].link[x])
    BY <2>2, <2>4, <1>10, Places DEF nodeIsRed
  <2>6. CASE m \in {q, s}
    BY <2>5, <2>6
  <2>7. CASE m \notin {q, s}
    BY <2>3, <2>5, <2>7, <1>10, <1>13 DEF Coloured
  <2> QED BY <2>6, <2>7
<1>17. Clean(h2)
  <2>1. ~ h2[Top].red
    BY <1>3, <1>10, Places DEF Clean
  <2>2. ASSUME NEW m \in Allocated, h2[m].text = 0 PROVE h2[m] = Free
    <3>1. m \notin Used(h)
      BY <2>2, <1>11 DEF Used
    <3> QED BY <3>1, <1>1, <1>8, Places DEF Clean, Used
  <2> QED BY <2>1, <2>2 DEF Clean
<1>18. SameParts(h, B, h2, B, q, d)
  <2>1. \A m \in Place : h2[m].text = h[m].text
    BY <1>9 DEF SameButRed
  <2>2. \A y \in Dir : Edge(h2, B, q, d, y) = Edge(h, B, q, d, y)
    BY <2>1, <1>3 DEF Edge
  <2>3. \A f \in Used(h) : h2[f].text = h[f].text
    BY <2>1, Places DEF Used
  <2> QED BY <2>2, <2>3, Places DEF SameParts, FoundAt
<1>19. Reached(h2, p, q, d)
  <2>1. Under(h2, p, l, q)
    BY <1>3, <1>4, <1>9, <1>11 DEF Under, SameButRed
  <2>2. h2[q].red
    BY <1>3, <1>10
  <2> QED BY <2>1, <2>2 DEF Reached
<1>20. \A m \in Place : h2[m].text = h[m].text /\ h2[m].ordinal = h[m].ordinal
  BY <1>9 DEF SameButRed
<1> QED BY <1>7, <1>11, <1>15, <1>16, <1>17, <1>18, <1>19, <1>20 DEF PushKeeps

-----------------------------------------------------------------------------
(* A node under s or c, other than c. *)
Beyond(h, s, c, y) == y # c /\ \E m \in {s, c}, x \in Dir : y = h[m].link[x]

(* The nodes after a rotation at p and the colours it is left with. *)
Rotated(h, h2, g, e, p, l, q, s, c, top, low) ==
  /\ h2 \in Nodes /\ Used(h2) = Used(h)
  /\ h2[g].link[e] = top /\ h2[g].link[1 - e] = h[g].link[1 - e]
  /\ h2[top].link[l] = p /\ h2[top].link[1 - l] = low /\ h2[p].link[l] = q
  /\ Beyond(h, s, c, h2[p].link[1 - l]) /\ \A x \in Dir : Beyond(h, s, c, h2[low].link[x])
  /\ \A m \in InTree(h) \ {g, p, s, c}, x \in Dir : h2[m].link[x] = h[m].link[x]
  /\ \A m \in Place : h2[m].red <=> m \in {q, top} \/ (m \notin {p, low} /\ h[m].red)
  /\ \A m \in Place \ {g, p, q, s, c} : h2[m] = h[m]

(* After a rotation at p, where c is a red node under the sibling s of q:  *)
(* top is what has come up, and low what is beside p now.  The rotations   *)
(* differ only in which of s and c is which.                               *)
LEMMA PushRotated ==
  ASSUME NEW h, NEW B, NEW H, InOrder(h, B), OfHeight(h, H), Coloured(h), Clean(h),
         NEW g, NEW e, NEW p, Under(h, g, e, p), Pushable(h, g, p),
         NEW l, NEW q, Under(h, p, l, q), NEW s, Under(h, p, 1 - l, s), ~ nodeIsRed(h, q),
         \A x \in Dir : ~ nodeIsRed(h, h[q].link[x]),
         NEW f, NEW c, Under(h, s, f, c), nodeIsRed(h, c),
         NEW top, NEW low, (top = s /\ low = c) \/ (top = c /\ low = s),
         NEW h2, Rotated(h, h2, g, e, p, l, q, s, c, top, low)
  PROVE  (\E H2 : OfHeight(h2, H2)) /\ Coloured(h2) /\ Clean(h2)
<1> USE DEF Rotated
<1>1. /\ p \in Used(h) /\ q \in Used(h) /\ s \in Used(h) /\ q # s /\ p \notin {q, s} /\ g \notin {p, q, s}
      /\ ~ h[q].red /\ ~ h[s].red /\ ~ h[g].red /\ (g # Top => h[p].red)
  BY Siblings
<1>2. PICK k \in Nat \ {0} :
              /\ H[q] = k + 1 /\ H[s] = k + 1
              /\ \A x \in Dir : H[h[q].link[x]] = k /\ H[h[s].link[x]] = k
              /\ h[p].red => H[p] = k + 1
  BY Siblings
<1>3. c \in Used(h) /\ c # s /\ c # p
  BY TwoDown
<1>4. /\ l \in Dir /\ e \in Dir /\ f \in Dir /\ h[g].link[e] = p /\ h[p].link[l] = q /\ h[p].link[1 - l] = s
      /\ h[s].link[f] = c /\ g \in InTree(h) /\ 1 - e \in Dir /\ 1 - e # e /\ (\A x \in Dir : x = e \/ x = 1 - e)
      /\ 1 - l \in Dir /\ 1 - l # l /\ \A x \in Dir : x = l \/ x = 1 - l
  BY Opposite DEF Under
<1>5. /\ p \in Place /\ q \in Place /\ s \in Place /\ c \in Place /\ q \in Link /\ s \in Link /\ p \in Link /\ c \in Link
      /\ h \in Nodes /\ H \in Heights /\ H[NoNode] = 1 /\ g \in Place
      /\ p \in InTree(h) /\ q \in InTree(h) /\ s \in InTree(h) /\ c \in InTree(h)
      /\ Top \notin {p, q, s, c} /\ NoNode \notin {p, q, s, c} /\ Once(h) /\ NoNode \in Link
  BY <1>1, <1>3, <1>4, Places DEF Used, Link, InOrder, OfHeight, InTree
<1>6. c # q /\ c # g
  <2>1. c # q
    BY <1>1, <1>4, <1>5 DEF Once
  <2>2. h[c].red
    BY DEF nodeIsRed
  <2> QED BY <2>1, <2>2, <1>1
<1>7. /\ \A m \in InTree(h), x \in Dir : h[m].link[x] = q => m = p
      /\ \A m \in InTree(h), x \in Dir : h[m].link[x] = p => m = g
      /\ \A m \in InTree(h), x \in Dir : h[m].link[x] = p => x = e
      /\ \A m \in InTree(h), x \in Dir : h[m].link[x] = s => m = p
      /\ \A m \in InTree(h), x \in Dir : h[m].link[x] = c => m = s
  BY <1>4, <1>5 DEF Once
<1>8. \A m \in Used(h) : m \in Place /\ m \in InTree(h) /\ m \in Link /\ m # Top
  BY Places DEF InTree, Used, Link
<1>9. \A m \in InTree(h), x \in Dir : h[m].link[x] \in Link
  BY <1>5, NodeFields, Places DEF InTree, Used
<1>10. HeightAt(h, H, c) /\ h[c].red /\ H[c] = k
  <2>1. H[c] = k
    BY <1>2, <1>4
  <2> QED BY <2>1, <1>3 DEF OfHeight, nodeIsRed
<1>11. \A x \in Dir : H[h[c].link[x]] = k
  <2>1. \A x \in Dir : H[c] = H[h[c].link[x]] + 0
    BY <1>10 DEF HeightAt
  <2>2. \A x \in Dir : H[h[c].link[x]] \in Nat
    BY <1>5, <1>9 DEF Heights
  <2> QED BY <2>1, <2>2, <1>10
<1>12. ASSUME NEW y, Beyond(h, s, c, y) PROVE y \in Link /\ y \notin {p, q, c} /\ H[y] = k
  <2>1. PICK m \in {s, c}, x \in Dir : y = h[m].link[x]
    BY <1>12 DEF Beyond
  <2>2. y \in Link /\ m \in InTree(h) /\ m # p /\ m # g
    BY <2>1, <1>1, <1>3, <1>5, <1>6, <1>9
  <2>3. y # p /\ y # q
    BY <2>1, <2>2, <1>7
  <2>4. H[y] = k
    BY <2>1, <1>2, <1>11
  <2> QED BY <2>2, <2>3, <2>4, <1>12 DEF Beyond
<1>13. /\ top \in Used(h) /\ low \in Used(h) /\ top # low /\ top \notin {g, p, q} /\ low \notin {g, p, q}
       /\ {top, low} = {s, c}
  BY <1>1, <1>3, <1>6
<1>14. h2[q].red /\ h2[top].red /\ ~ h2[p].red /\ ~ h2[low].red
  BY <1>1, <1>5, <1>8, <1>13
<1> DEFINE H2 == [x \in Link |-> IF x = q THEN k ELSE IF x \in {p, c} THEN k + 1 ELSE H[x]]
<1>15. /\ H2 \in Heights /\ H2[NoNode] = 1 /\ H2[q] = k /\ H2[c] = k + 1 /\ H2[p] = k + 1 /\ H2[s] = k + 1
       /\ \A x \in Link \ {p, q, c} : H2[x] = H[x]
  <2>1. \A x \in Link : H[x] \in Nat \ {0}
    BY <1>5 DEF Heights
  <2> QED BY <1>1, <1>2, <1>3, <1>5, <1>6, <2>1 DEF Heights
<1> HIDE DEF H2
<1>16. H2[top] = k + 1 /\ H2[low] = k + 1
  BY <1>15
<1>17. OfHeight(h2, H2)
  <2> SUFFICES ASSUME NEW m \in Used(h), NEW x \in Dir
               PROVE  H2[m] = H2[h2[m].link[x]] + (IF h2[m].red THEN 0 ELSE 1)
    BY <1>15 DEF OfHeight, HeightAt
  <2>0. m \in Place /\ m \in InTree(h) /\ m \in Link /\ m # Top
    BY <1>8
  <2>1. CASE m = p
    <3>1. H2[h2[p].link[x]] = k
      <4>1. CASE x = l
        BY <4>1, <1>15
      <4>2. CASE x = 1 - l
        <5>1. h2[p].link[x] \in Link /\ h2[p].link[x] \notin {p, q, c} /\ H[h2[p].link[x]] = k
          BY <4>2, <1>12
        <5> QED BY <5>1, <1>15
      <4> QED BY <4>1, <4>2, <1>4
    <3> QED BY <2>1, <3>1, <1>14, <1>15
  <2>2. CASE m = top
    <3>1. h2[top].link[x] \in {p, low}
      BY <1>4
    <3>2. H2[h2[top].link[x]] = k + 1
      BY <3>1, <1>15, <1>16
    <3> QED BY <2>2, <3>2, <1>14, <1>16
  <2>3. CASE m = low
    <3>1. h2[low].link[x] \in Link /\ h2[low].link[x] \notin {p, q, c} /\ H[h2[low].link[x]] = k
      BY <1>12
    <3>2. H2[h2[low].link[x]] = k
      BY <3>1, <1>15
    <3> QED BY <2>3, <3>2, <1>14, <1>16
  <2>4. CASE m = q
    <3>1. h2[q].link[x] = h[q].link[x]
      BY <1>1, <1>5, <1>6
    <3>2. h[q].link[x] # p /\ h[q].link[x] # q /\ h[q].link[x] # c
      BY <1>1, <1>5, <1>7
    <3>3. h[q].link[x] \in Link
      BY <1>5, <1>9
    <3>4. H2[h[q].link[x]] = k
      BY <3>2, <3>3, <1>2, <1>15
    <3> QED BY <2>4, <3>1, <3>4, <1>14, <1>15
  <2>5. CASE m = g
    <3>1. h[p].red /\ H[p] = k + 1 /\ ~ h2[g].red
      <4>1. ~ h2[g].red
        BY <1>1, <1>5, <1>13
      <4> QED BY <2>0, <2>5, <4>1, <1>1, <1>2
    <3>2. H[g] = H[h[g].link[x]] + 1
      <4>1. HeightAt(h, H, g)
        BY <2>5 DEF OfHeight
      <4> QED BY <4>1, <1>1 DEF HeightAt
    <3>3. H2[g] = H[g]
      BY <2>0, <2>5, <1>1, <1>6, <1>15
    <3>4. H2[h2[g].link[x]] = H[h[g].link[x]]
      <4>1. CASE x = e
        BY <4>1, <3>1, <1>4, <1>16
      <4>2. CASE x = 1 - e
        <5>1. h[g].link[x] # p
          BY <4>2, <1>4, <1>7
        <5>2. h[g].link[x] # q /\ h[g].link[x] # c
          BY <1>1, <1>4, <1>7
        <5>3. h[g].link[x] \in Link
          BY <1>4, <1>9
        <5>4. h2[g].link[x] = h[g].link[x]
          BY <4>2
        <5> QED BY <5>1, <5>2, <5>3, <5>4, <1>15
      <4> QED BY <4>1, <4>2, <1>4
    <3> QED BY <2>5, <3>1, <3>2, <3>3, <3>4
  <2>6. CASE m \notin {g, p, q, top, low}
    <3>0. m \notin {g, p, q, s, c}
      BY <2>6, <1>13
    <3>1. H[m] = H[h[m].link[x]] + (IF h[m].red THEN 0 ELSE 1)
      BY DEF OfHeight, HeightAt
    <3>2. h2[m].red <=> h[m].red
      BY <2>0, <2>6
    <3>3. h2[m].link[x] = h[m].link[x]
      BY <2>0, <3>0
    <3>4. h[m].link[x] # q /\ h[m].link[x] # c /\ h[m].link[x] # p
      BY <2>0, <3>0, <1>7
    <3>5. H2[h[m].link[x]] = H[h[m].link[x]]
      BY <2>0, <3>4, <1>9, <1>15
    <3>6. H2[m] = H[m]
      BY <2>0, <3>0, <1>15
    <3> QED BY <3>1, <3>2, <3>3, <3>5, <3>6
  <2> QED BY <2>1, <2>2, <2>3, <2>4, <2>5, <2>6
<1>18. Coloured(h2)
  <2> SUFFICES ASSUME NEW m \in Used(h), NEW x \in Dir, h2[m].red, nodeIsRed(h2, h2[m].link[x]) PROVE FALSE
    BY DEF Coloured
  <2>0. m \in Place /\ m \in InTree(h) /\ m # Top
    BY <1>8
  <2>1. m # p /\ m # low
    BY <1>14
  <2>2. m # g
    <3>1. ~ h2[g].red
      BY <1>1, <1>5, <1>13
    <3> QED BY <3>1
  <2>3. CASE m = top
    <3>1. h2[top].link[x] \in {p, low}
      BY <1>4
    <3> QED BY <2>3, <3>1, <1>14 DEF nodeIsRed
  <2>4. CASE m # top
    <3>0. m \notin {g, p, s, c}
      BY <2>1, <2>2, <2>4, <1>13
    <3>1. h2[m].link[x] = h[m].link[x] /\ h[m].link[x] \in Link
      BY <2>0, <3>0, <1>9
    <3>2. h[m].link[x] # q /\ h[m].link[x] # c /\ h[m].link[x] # s
      BY <2>0, <3>0, <1>7
    <3>3. h[m].link[x] # top
      BY <3>2, <1>13
    <3>4. nodeIsRed(h, h[m].link[x])
      BY <3>1, <3>2, <3>3 DEF nodeIsRed, Link, Place
    <3>5. CASE m = q
      BY <3>4, <3>5
    <3>6. CASE m # q
      BY <2>0, <2>4, <3>4, <3>6 DEF Coloured
    <3> QED BY <3>5, <3>6
  <2> QED BY <2>3, <2>4
<1>19. Clean(h2)
  <2>1. ~ h2[Top].red
    <3>1. Top \notin {q, top}
      BY <1>5, <1>13
    <3> QED BY <3>1, Places DEF Clean
  <2>2. ASSUME NEW m \in Allocated, h2[m].text = 0 PROVE h2[m] = Free
    <3>1. m \notin Used(h)
      BY <2>2 DEF Used
    <3>2. m \notin {g, p, q, s, c}
      BY <3>1, <1>1, <1>3, <1>4, Places DEF InTree
    <3> QED BY <3>1, <3>2, Places DEF Clean, Used
  <2> QED BY <2>1, <2>2 DEF Clean
<1> QED BY <1>17, <1>18, <1>19

-----------------------------------------------------------------------------
(* The colours after a rotation: q and the new top are red, what is under  *)
(* the top is black.                                                       *)
Repainted(h, q, top) ==
  [n \in DOMAIN h |-> [h[n] EXCEPT !.red = n \in {q, top} \/ (@ /\ \A d \in Dir : n # h[top].link[d])]]

(* What the new colours after a rotation make of the nodes. *)
LEMMA RepaintedIs ==
  ASSUME NEW h \in Nodes, NEW q, NEW top
  PROVE  /\ Repainted(h, q, top) \in Nodes /\ SameButRed(h, Repainted(h, q, top))
         /\ \A m \in Place : Repainted(h, q, top)[m].red <=>
              m \in {q, top} \/ (h[m].red /\ \A d \in Dir : m # h[top].link[d])
<1>1. ASSUME NEW m \in Place
      PROVE  /\ Repainted(h, q, top)[m] \in SearchNode
             /\ Repainted(h, q, top)[m].text = h[m].text /\ Repainted(h, q, top)[m].ordinal = h[m].ordinal
             /\ Repainted(h, q, top)[m].link = h[m].link
             /\ Repainted(h, q, top)[m].red <=> m \in {q, top} \/ (h[m].red /\ \A d \in Dir : m # h[top].link[d])
  <2> DEFINE b == m \in {q, top} \/ (h[m].red /\ \A d \in Dir : m # h[top].link[d])
  <2>1. Repainted(h, q, top)[m] = [h[m] EXCEPT !.red = b]
    BY DEF Repainted, Nodes
  <2>2. b \in BOOLEAN
    OBVIOUS
  <2> HIDE DEF b
  <2>3. h[m] \in SearchNode
    BY NodeFields
  <2>4. [h[m] EXCEPT !.red = b] \in SearchNode /\ [h[m] EXCEPT !.red = b].red = b
        /\ [h[m] EXCEPT !.red = b].text = h[m].text /\ [h[m] EXCEPT !.red = b].ordinal = h[m].ordinal
        /\ [h[m] EXCEPT !.red = b].link = h[m].link
    BY <2>2, <2>3 DEF SearchNode
  <2>5. Repainted(h, q, top)[m].red <=> b
    BY <2>1, <2>2, <2>4
  <2> QED BY <2>1, <2>4, <2>5 DEF b
<1>2. Repainted(h, q, top) \in Nodes
  <2>1. Repainted(h, q, top) = [m \in Place |-> Repainted(h, q, top)[m]]
    BY DEF Repainted, Nodes
  <2> QED BY <1>1, <2>1 DEF Nodes
<1> QED BY <1>1, <1>2 DEF SameButRed

(* Nodes with equal fields are equal. *)
LEMMA SameNode ==
  ASSUME NEW a \in SearchNode, NEW b \in SearchNode, a.red <=> b.red, a.text = b.text, a.ordinal = b.ordinal,
         a.link = b.link
  PROVE  a = b
<1>1. a.red = b.red
  BY DEF SearchNode
<1> QED BY <1>1 DEF SearchNode

(* What a rotation h1 at p has to give for the step to keep the tree. *)
Lifted(h, h1, B, g, e, p, l, q, s, c, top, low) ==
  /\ h1 \in Nodes /\ Used(h1) = Used(h)
  /\ \A m \in Place : h1[m].text = h[m].text /\ h1[m].ordinal = h[m].ordinal
  /\ h1[g].link[e] = top /\ h1[g].link[1 - e] = h[g].link[1 - e]
  /\ h1[top].link[l] = p /\ h1[top].link[1 - l] = low /\ h1[p].link[l] = q
  /\ Beyond(h, s, c, h1[p].link[1 - l]) /\ \A x \in Dir : Beyond(h, s, c, h1[low].link[x])
  /\ \A m \in InTree(h) \ {g, p, s, c}, x \in Dir : h1[m].link[x] = h[m].link[x]
  /\ \A m \in Place \ {p, s, c} : h1[m].red <=> h[m].red
  /\ \A m \in Place \ {g, p, s, c} : h1[m] = h[m]

(* After a rotation of the parent, because the sibling has a red child,    *)
(* the new colours make q red and leave no two red nodes in a row.         *)
LEMMA PushLifted ==
  ASSUME NEW h, NEW B, NEW H, InOrder(h, B), OfHeight(h, H), Coloured(h), Clean(h),
         NEW g, NEW e, NEW p, Under(h, g, e, p), Pushable(h, g, p),
         NEW l, NEW q, Under(h, p, l, q), NEW s, Under(h, p, 1 - l, s), ~ nodeIsRed(h, q), NEW d \in Dir,
         \A x \in Dir : ~ nodeIsRed(h, h[q].link[x]),
         NEW f, NEW c, Under(h, s, f, c), nodeIsRed(h, c),
         NEW top, NEW low, (top = s /\ low = c) \/ (top = c /\ low = s),
         NEW h1, Lifted(h, h1, B, g, e, p, l, q, s, c, top, low),
         NEW B1, InOrder(h1, B1), SameParts(h, B, h1, B1, q, d),
         NEW h2, h2 = Repainted(h1, q, h1[g].link[e])
  PROVE  PushKeeps(h, B, h2, p, q, d)
<1>1. /\ p \in Used(h) /\ q \in Used(h) /\ s \in Used(h) /\ q # s /\ p \notin {q, s} /\ g \notin {p, q, s}
      /\ ~ h[q].red /\ ~ h[s].red /\ ~ h[g].red
  BY Siblings
<1>2. c \in Used(h) /\ c # s /\ c # p /\ l \in Dir /\ 1 - l \in Dir /\ g \in InTree(h) /\ \A x \in Dir : x = l \/ x = 1 - l
  BY TwoDown, Opposite DEF Under
<1>3. c # q /\ h[c].red
  BY <1>1 DEF nodeIsRed
<1>4. h1 \in Nodes /\ h1[g].link[e] = top
  BY DEF Lifted
<1>5. /\ h2 \in Nodes /\ SameButRed(h1, h2)
      /\ \A m \in Place : h2[m].red <=> m \in {q, top} \/ (h1[m].red /\ \A x \in Dir : m # h1[top].link[x])
  BY <1>4, RepaintedIs
<1>6. \A m \in Used(h) : m \in Place /\ m \in InTree(h)
  BY Places DEF Used, InTree
<1>7. g \in Place /\ top \in Place /\ low \in Place /\ top \in InTree(h) /\ low \in InTree(h)
      /\ top \notin {p, q} /\ low \notin {p, q} /\ top # low
  BY <1>1, <1>2, <1>3, <1>6, Places DEF InTree
<1>8. \A m \in Place : (\A x \in Dir : m # h1[top].link[x]) <=> m \notin {p, low}
  <2>1. h1[top].link[l] = p /\ h1[top].link[1 - l] = low
    BY DEF Lifted
  <2> QED BY <2>1, <1>2
<1>9. \A m \in Place : h2[m].red <=> m \in {q, top} \/ (m \notin {p, low} /\ h[m].red)
  <2> SUFFICES ASSUME NEW m \in Place PROVE h2[m].red <=> m \in {q, top} \/ (m \notin {p, low} /\ h[m].red)
    OBVIOUS
  <2>1. h2[m].red <=> m \in {q, top} \/ (h1[m].red /\ m \notin {p, low})
    BY <1>5, <1>8
  <2>2. m \notin {p, top, low} => (h1[m].red <=> h[m].red)
    BY DEF Lifted
  <2> QED BY <2>1, <2>2
<1>10. \A m \in Place : h2[m].text = h1[m].text /\ h2[m].ordinal = h1[m].ordinal /\ h2[m].link = h1[m].link
  BY <1>5 DEF SameButRed
<1>11. InOrder(h2, B1) /\ Used(h2) = Used(h1) /\ Used(h1) = Used(h)
  BY <1>5, RepaintKeepsOrder DEF Lifted
<1>12. /\ h2[g].link[e] = top /\ h2[g].link[1 - e] = h[g].link[1 - e]
       /\ h2[top].link[l] = p /\ h2[top].link[1 - l] = low /\ h2[p].link[l] = q
  BY <1>1, <1>6, <1>7, <1>10 DEF Lifted
<1>13. Beyond(h, s, c, h2[p].link[1 - l]) /\ \A x \in Dir : Beyond(h, s, c, h2[low].link[x])
  <2>1. h2[p].link = h1[p].link /\ h2[low].link = h1[low].link
    BY <1>1, <1>6, <1>7, <1>10
  <2> QED BY <2>1 DEF Lifted
<1>14. \A m \in InTree(h) \ {g, p, s, c}, x \in Dir : h2[m].link[x] = h[m].link[x]
  <2>1. \A m \in InTree(h) : m \in Place
    BY <1>6, Places DEF InTree
  <2> QED BY <2>1, <1>10 DEF Lifted
<1>15. \A m \in Place \ {g, p, q, s, c} : h2[m] = h[m]
  <2> SUFFICES ASSUME NEW m \in Place, m \notin {g, p, q, s, c} PROVE h2[m] = h[m]
    OBVIOUS
  <2>1. h1[m] = h[m]
    BY DEF Lifted
  <2>2. h2[m].red <=> h[m].red
    BY <1>9
  <2>3. h2[m] \in SearchNode /\ h[m] \in SearchNode
    BY <1>5, NodeFields DEF InOrder
  <2>4. h2[m].text = h[m].text /\ h2[m].ordinal = h[m].ordinal /\ h2[m].link = h[m].link
    BY <2>1, <1>10
  <2> QED BY <2>2, <2>3, <2>4, SameNode
<1>16. (\E H2 : OfHeight(h2, H2)) /\ Coloured(h2) /\ Clean(h2)
  <2>1. h2 \in Nodes /\ Used(h2) = Used(h)
    BY <1>5, <1>11
  <2>2. Rotated(h, h2, g, e, p, l, q, s, c, top, low)
    BY <2>1, <1>9, <1>12, <1>13, <1>14, <1>15 DEF Rotated
  <2> QED BY <2>2, PushRotated
<1>17. \A m \in Place : h2[m].text = h[m].text /\ h2[m].ordinal = h[m].ordinal
  BY <1>10 DEF Lifted
<1>18. SameParts(h, B, h2, B1, q, d)
  <2>1. \A y \in Dir : Edge(h2, B1, q, d, y) = Edge(h1, B1, q, d, y)
    BY <1>1, <1>6, <1>10 DEF Edge
  <2>2. \A m \in Used(h) : h2[m].text = h1[m].text
    BY <1>6, <1>10
  <2>3. \A m \in Used(h) : FoundAt(h1, B1, m, q, d) => FoundAt(h2, B1, m, q, d)
    BY <2>1, <2>2, Places DEF FoundAt
  <2> QED BY <2>1, <2>3 DEF SameParts
<1>19. Reached(h2, p, q, d)
  <2>1. Under(h2, p, l, q)
    <3>1. p \in InTree(h2) /\ q # NoNode
      BY <1>1, <1>11 DEF InTree, Under
    <3> QED BY <3>1, <1>2, <1>12 DEF Under
  <2>2. h2[q].red
    BY <1>1, <1>6, <1>9
  <2> QED BY <2>1, <2>2 DEF Reached
<1> QED BY <1>5, <1>11, <1>16, <1>17, <1>18, <1>19 DEF PushKeeps

(* The single rotation at p. *)
LEMMA PushSingle ==
  ASSUME NEW h, NEW B, NEW H, InOrder(h, B), OfHeight(h, H), Coloured(h), Clean(h),
         NEW g, NEW e, NEW p, Under(h, g, e, p), Pushable(h, g, p),
         NEW l, NEW q, Under(h, p, l, q), NEW s, Under(h, p, 1 - l, s), ~ nodeIsRed(h, q), NEW d \in Dir,
         \A x \in Dir : ~ nodeIsRed(h, h[q].link[x]),
         NEW c, Under(h, s, 1 - l, c), nodeIsRed(h, c),
         NEW h1, h1 = Hung(h, g, e, rotateSingle(h, p, l)),
         NEW h2, h2 = Repainted(h1, q, h1[g].link[e])
  PROVE  PushKeeps(h, B, h2, p, q, d)
<1> DEFINE B1 == TurnedBounds(h, B, p, l)
<1>1. /\ p \in Used(h) /\ q \in Used(h) /\ s \in Used(h) /\ q # s /\ p \notin {q, s} /\ g \notin {p, q, s}
  BY Siblings
<1>2. /\ l \in Dir /\ e \in Dir /\ h[g].link[e] = p /\ h[p].link[l] = q /\ h[p].link[1 - l] = s
      /\ h[s].link[1 - l] = c /\ g \in InTree(h) /\ c # NoNode
      /\ 1 - l \in Dir /\ 1 - l # l /\ \A x \in Dir : x = l \/ x = 1 - l
  BY Opposite DEF Under
<1>3. c \in Used(h) /\ c # s /\ c # p
  BY TwoDown
<1>4. c # g
  BY Apart
<1>5. /\ p \in Place /\ s \in Place /\ g \in Place /\ c \in Place /\ p \in Allocated /\ h \in Nodes
      /\ s \in InTree(h) /\ c \in InTree(h) /\ Once(h)
  BY <1>1, <1>2, <1>3, Places DEF Used, InOrder, InTree
<1>6. /\ h1 \in Nodes /\ Turned(h, h1, g, e, p, l) /\ Painted(h, h1, p, s)
      /\ \A m \in Place : m \notin {g, p, s} => h1[m] = h[m]
  BY <1>1, <1>2, <1>5, HungIs
<1>7. /\ h1[g].link[e] = s /\ h1[g].link[1 - e] = h[g].link[1 - e]
      /\ h1[p].link[1 - l] = h[s].link[l] /\ h1[p].link[l] = q
      /\ h1[s].link[l] = p /\ h1[s].link[1 - l] = c
      /\ \A m \in InTree(h) \ {g, p, s}, x \in Dir : h1[m].link[x] = h[m].link[x]
  BY <1>2, <1>6, TurnLinks
<1>8. InOrder(h1, B1) /\ Used(h1) = Used(h)
  BY <1>2, <1>6, TurnKeepsOrder
<1>9. Beyond(h, s, c, h1[p].link[1 - l])
  <2>1. h[s].link[l] # c
    BY <1>2, <1>5 DEF Once
  <2> QED BY <2>1, <1>2, <1>7 DEF Beyond
<1>10. \A x \in Dir : Beyond(h, s, c, h1[c].link[x])
  <2> SUFFICES ASSUME NEW x \in Dir PROVE h[c].link[x] # c
    BY <1>3, <1>4, <1>5, <1>7 DEF Beyond
  <2> QED BY <1>2, <1>3, <1>5 DEF Once
<1>11. Lifted(h, h1, B, g, e, p, l, q, s, c, s, c)
  <2>1. \A m \in Place : h1[m].text = h[m].text /\ h1[m].ordinal = h[m].ordinal
    BY <1>6 DEF Turned
  <2>2. \A m \in Place \ {p, s} : h1[m].red <=> h[m].red
    BY <1>6 DEF Painted
  <2> QED BY <1>6, <1>7, <1>8, <1>9, <1>10, <2>1, <2>2 DEF Lifted
<1>12. SameParts(h, B, h1, B1, q, d)
  <2>1. \A y \in Dir : Edge(h1, B1, q, d, y) = Edge(h, B, q, d, y)
    BY <1>1, <1>2, <1>6, TurnFound
  <2>2. ASSUME NEW f \in Used(h), FoundAt(h, B, f, q, d) PROVE FoundAt(h1, B1, f, q, d)
    <3>1. Within(B[p], h[s].text)
      BY Descend
    <3>2. f # s
      BY <1>1, <2>2, <3>1, NotFound
    <3>3. f = p => l = 0
      BY <2>2, FoundIs
    <3>4. B1[f][0] <= B1[q][0]
      <4>1. B[f][0] <= B[q][0]
        BY <2>2 DEF FoundAt
      <4> QED BY <1>1, <1>2, <1>6, <3>2, <3>3, <4>1, TurnFound
    <3>5. h1[f].text = h[f].text
      BY <1>6, Places DEF Used, Turned
    <3> QED BY <2>1, <2>2, <3>4, <3>5, Places DEF FoundAt
  <2> QED BY <2>1, <2>2 DEF SameParts
<1> HIDE DEF B1
<1> QED BY <1>8, <1>11, <1>12, PushLifted

(* The double rotation at p. *)
LEMMA PushDouble ==
  ASSUME NEW h, NEW B, NEW H, InOrder(h, B), OfHeight(h, H), Coloured(h), Clean(h),
         NEW g, NEW e, NEW p, Under(h, g, e, p), Pushable(h, g, p),
         NEW l, NEW q, Under(h, p, l, q), NEW s, Under(h, p, 1 - l, s), ~ nodeIsRed(h, q), NEW d \in Dir,
         \A x \in Dir : ~ nodeIsRed(h, h[q].link[x]),
         NEW c, Under(h, s, l, c), nodeIsRed(h, c),
         NEW h1, h1 = Hung(h, g, e, rotateDouble(h, p, l)),
         NEW h2, h2 = Repainted(h1, q, h1[g].link[e])
  PROVE  PushKeeps(h, B, h2, p, q, d)
<1> DEFINE r == 1 - l
<1>1. /\ p \in Used(h) /\ q \in Used(h) /\ s \in Used(h) /\ q # s /\ p \notin {q, s} /\ g \notin {p, q, s}
      /\ ~ h[q].red
  BY Siblings
<1>2. /\ l \in Dir /\ e \in Dir /\ h[g].link[e] = p /\ h[p].link[l] = q /\ h[p].link[r] = s
      /\ h[s].link[l] = c /\ g \in InTree(h) /\ c # NoNode
      /\ r \in Dir /\ r # l /\ 1 - r = l /\ \A x \in Dir : x = l \/ x = r
  BY Opposite DEF Under
<1>3. c \in Used(h) /\ c # s /\ c # p
  BY TwoDown
<1>4. c # g /\ c # q
  BY <1>1, Apart DEF nodeIsRed
<1>5. /\ p \in Place /\ s \in Place /\ g \in Place /\ c \in Place
      /\ s \in InTree(h) /\ c \in InTree(h) /\ Once(h)
  BY <1>1, <1>2, <1>3, Places DEF Used, InOrder, InTree
<1>6. Under(h, p, r, s) /\ Under(h, s, 1 - r, c) /\ h1 = Hung(h, g, e, rotateDouble(h, p, 1 - r))
  BY <1>2
<1> HIDE DEF r
<1>7. /\ h1 \in Nodes /\ Used(h1) = Used(h)
      /\ \A m \in Place : h1[m].text = h[m].text /\ h1[m].ordinal = h[m].ordinal
      /\ h1[g].link[e] = c /\ h1[g].link[1 - e] = h[g].link[1 - e]
      /\ h1[c].link[r] = s /\ h1[c].link[1 - r] = p
      /\ h1[s].link[r] = h[s].link[r] /\ h1[s].link[1 - r] = h[c].link[r]
      /\ h1[p].link[r] = h[c].link[1 - r] /\ h1[p].link[1 - r] = h[p].link[1 - r]
      /\ \A m \in InTree(h) \ {g, p, s, c}, x \in Dir : h1[m].link[x] = h[m].link[x]
      /\ \A m \in Place \ {p, s, c} : h1[m].red <=> h[m].red
      /\ \A m \in Place \ {g, p, s, c} : h1[m] = h[m]
  BY <1>6, DoubleTurn
<1>8. PICK B1 : /\ InOrder(h1, B1)
                /\ \A m \in Used(h) \ {p, s, c} :
                     /\ \A x, y \in Dir : Edge(h1, B1, m, x, y) = Edge(h, B, m, x, y)
                     /\ \A f \in Used(h) \ {s, c} :
                          (f = p => r = 1) /\ B[f][0] <= B[m][0] => B1[f][0] <= B1[m][0]
  BY <1>6, DoubleTurn
<1>9. Beyond(h, s, c, h1[p].link[r])
  <2>1. h[c].link[l] # c
    BY <1>2, <1>3, <1>5 DEF Once
  <2> QED BY <2>1, <1>2, <1>7 DEF Beyond
<1>10. \A x \in Dir : Beyond(h, s, c, h1[s].link[x])
  <2>1. h[s].link[r] # c
    BY <1>2, <1>5 DEF Once
  <2>2. h[c].link[r] # c
    BY <1>2, <1>3, <1>5 DEF Once
  <2>3. Beyond(h, s, c, h1[s].link[r])
    BY <2>1, <1>2, <1>7 DEF Beyond
  <2>4. Beyond(h, s, c, h1[s].link[l])
    BY <2>2, <1>2, <1>7 DEF Beyond
  <2> QED BY <2>3, <2>4, <1>2
<1>11. Lifted(h, h1, B, g, e, p, l, q, s, c, c, s)
  <2>1. h1[c].link[l] = p /\ h1[c].link[1 - l] = s /\ h1[p].link[l] = q /\ Beyond(h, s, c, h1[p].link[1 - l])
    BY <1>2, <1>7, <1>9 DEF r
  <2> QED BY <1>7, <1>10, <2>1 DEF Lifted
<1>12. SameParts(h, B, h1, B1, q, d)
  <2>0. q \in Used(h) \ {p, s, c}
    BY <1>1, <1>4
  <2>1. \A y \in Dir : Edge(h1, B1, q, d, y) = Edge(h, B, q, d, y)
    BY <1>8, <2>0
  <2>2. ASSUME NEW f \in Used(h), FoundAt(h, B, f, q, d) PROVE FoundAt(h1, B1, f, q, d)
    <3>1. Within(B[p], h[s].text) /\ Within(B[s], h[c].text) /\ h[c].text \in Nat
          /\ \A x \in Nat : Within(B[s], x) => Within(B[p], x)
      BY Descend
    <3>2. Within(B[p], h[c].text)
      BY <3>1
    <3>3. f # s
      BY <1>1, <2>2, <3>1, NotFound
    <3>4. f # c
      BY <1>3, <1>4, <2>2, <3>2, NotFound
    <3>5. f = p => l = 0
      BY <2>2, FoundIs
    <3>6. f = p => r = 1
      BY <3>5 DEF r
    <3>7. B1[f][0] <= B1[q][0]
      <4>1. B[f][0] <= B[q][0]
        BY <2>2 DEF FoundAt
      <4> QED BY <1>8, <2>0, <3>3, <3>4, <3>6, <4>1
    <3>8. h1[f].text = h[f].text
      BY <1>7, Places DEF Used
    <3> QED BY <2>1, <2>2, <3>7, <3>8, Places DEF FoundAt
  <2> QED BY <2>1, <2>2 DEF SameParts
<1> QED BY <1>7, <1>8, <1>11, <1>12, PushLifted

-----------------------------------------------------------------------------
(* A step of a removal pushes a red node down, and keeps the tree. *)
LEMMA PushedKeeps ==
  ASSUME NEW B, NEW H, InOrder(node, B), OfHeight(node, H), Coloured(node), Clean(node),
         NEW p, NEW l, NEW q, Under(node, p, l, q), NEW d \in Dir, p = Top => l = 1,
         NEW g, p # Top => Reached(node, g, p, l)
  PROVE  PushKeeps(node, B, Pushed(g, p, q, d, l).nodes, Pushed(g, p, q, d, l).parent, q, d)
<1> DEFINE s == node[p].link[1 - l]
           c == node[q].link[1 - d]
<1>1. /\ l \in Dir /\ node[p].link[l] = q /\ q # NoNode /\ q \in Used(node) /\ q \in InTree(node) /\ p \in InTree(node)
      /\ 1 - l \in Dir /\ 1 - d \in Dir /\ (\A x \in Dir : x = l \/ x = 1 - l) /\ \A x \in Dir : x = d \/ x = 1 - d
  BY Descend, Opposite DEF Under
<1>2. CASE nodeIsRed(node, q) \/ nodeIsRed(node, node[q].link[d])
  <2>1. Pushed(g, p, q, d, l) = [nodes |-> node, parent |-> p]
    BY <1>2 DEF Pushed
  <2>2. Reached(node, p, q, d)
    BY <1>2 DEF Reached, nodeIsRed
  <2> QED BY <2>1, <2>2, PushNothing
<1>3. CASE ~ nodeIsRed(node, q) /\ ~ nodeIsRed(node, node[q].link[d]) /\ nodeIsRed(node, c)
  <2>1. /\ Pushed(g, p, q, d, l).nodes = Hung(node, p, l, rotateSingle(node, q, d))
        /\ Pushed(g, p, q, d, l).parent = c
    BY <1>3 DEF Pushed, rotateSingle
  <2>2. Under(node, q, 1 - d, c)
    BY <1>1, <1>3 DEF Under, nodeIsRed
  <2> HIDE DEF c
  <2>3. nodeIsRed(node, c)
    BY <1>3
  <2> QED BY <1>3, <2>1, <2>2, <2>3, PushTurned
<1>4. CASE ~ nodeIsRed(node, q) /\ ~ nodeIsRed(node, node[q].link[d]) /\ ~ nodeIsRed(node, c)
  <2>1. \A x \in Dir : ~ nodeIsRed(node, node[q].link[x])
    BY <1>1, <1>4
  <2>2. CASE s = NoNode
    <3>1. Pushed(g, p, q, d, l) = [nodes |-> node, parent |-> p]
      BY <1>4, <2>2 DEF Pushed
    <3>2. p = Top
      BY <1>4, <2>2, NoSibling
    <3>3. Reached(node, p, q, d)
      BY <2>1, <3>2 DEF Reached
    <3> QED BY <3>1, <3>3, PushNothing
  <2>3. CASE s # NoNode
    <3>1. p # Top
      <4>1. node[Top].link[0] = NoNode
        BY DEF InOrder, Rooted
      <4> QED BY <2>3, <4>1
    <3>2. Reached(node, g, p, l)
      BY <3>1
    <3> DEFINE e == DirOf(node[g].link[1] = p)
    <3>3. Under(node, g, e, p)
      <4>1. PICK y : Under(node, g, y, p)
        BY <3>2 DEF Reached
      <4>2. DirOf(node[g].link[1] = p) = y
        BY <4>1, DirIs
      <4> QED BY <4>1, <4>2
    <3>4. Pushable(node, g, p)
      BY <3>2, <1>1, <1>4 DEF Pushable, Reached
    <3>5. Under(node, p, 1 - l, s)
      BY <1>1, <2>3 DEF Under
    <3>7. CASE \A x \in Dir : ~ nodeIsRed(node, node[s].link[x])
      <4>1. /\ Pushed(g, p, q, d, l).nodes = Swapped(node, p, q, s)
            /\ Pushed(g, p, q, d, l).parent = p
        BY <1>4, <2>3, <3>7 DEF Pushed, Swapped
      <4>2. \A x \in Dir : ~ nodeIsRed(node, node[q].link[x]) /\ ~ nodeIsRed(node, node[s].link[x])
        BY <2>1, <3>7
      <4> HIDE DEF s, e
      <4> QED BY <1>4, <3>3, <3>4, <3>5, <4>1, <4>2, PushPainted
    <3>8. CASE ~ \A x \in Dir : ~ nodeIsRed(node, node[s].link[x])
      <4> DEFINE h1 == Hung(node, g, e, IF nodeIsRed(node, node[s].link[l]) THEN rotateDouble(node, p, l)
                                        ELSE rotateSingle(node, p, l))
                 h2 == Pushed(g, p, q, d, l).nodes
      <4>1. /\ h2 = [n \in DOMAIN node |->
                       [h1[n] EXCEPT !.red = n \in {q, h1[g].link[e]}
                                             \/ (@ /\ \A x \in Dir : n # h1[h1[g].link[e]].link[x])]]
            /\ Pushed(g, p, q, d, l).parent = p
        BY <1>4, <2>3, <3>8 DEF Pushed
      <4>2. DOMAIN h1 = DOMAIN node
        BY DEF Hung, rotateDouble, rotateSingle
      <4>3. h2 = Repainted(h1, q, h1[g].link[e])
        BY <4>1, <4>2 DEF Repainted
      <4> HIDE DEF h2
      <4>4. CASE nodeIsRed(node, node[s].link[l])
        <5>1. h1 = Hung(node, g, e, rotateDouble(node, p, l))
          BY <4>4
        <5>2. Under(node, s, l, node[s].link[l])
          <6>1. node[s].link[l] # NoNode /\ l \in Dir
            BY <4>4, <1>1 DEF nodeIsRed
          <6>2. s \in InTree(node)
            BY <3>5, Descend
          <6> HIDE DEF s
          <6> QED BY <6>1, <6>2 DEF Under
        <5> HIDE DEF h1, s, e
        <5>3. PushKeeps(node, B, h2, p, q, d)
          BY <1>4, <2>1, <3>3, <3>4, <3>5, <4>3, <4>4, <5>1, <5>2, PushDouble
        <5> QED BY <4>1, <5>3 DEF h2
      <4>5. CASE ~ nodeIsRed(node, node[s].link[l])
        <5>1. h1 = Hung(node, g, e, rotateSingle(node, p, l))
          BY <4>5
        <5>2. nodeIsRed(node, node[s].link[1 - l])
          BY <3>8, <4>5, <1>1
        <5>3. Under(node, s, 1 - l, node[s].link[1 - l])
          <6>1. node[s].link[1 - l] # NoNode /\ 1 - l \in Dir
            BY <5>2, <1>1 DEF nodeIsRed
          <6>2. s \in InTree(node)
            BY <3>5, Descend
          <6> HIDE DEF s
          <6> QED BY <6>1, <6>2 DEF Under
        <5> HIDE DEF h1, s, e
        <5>4. PushKeeps(node, B, h2, p, q, d)
          BY <1>4, <2>1, <3>3, <3>4, <3>5, <4>3, <5>1, <5>2, <5>3, PushSingle
        <5> QED BY <4>1, <5>4 DEF h2
      <4> QED BY <4>4, <4>5
    <3> QED BY <3>7, <3>8
  <2> QED BY <2>2, <2>3
<1> QED BY <1>2, <1>3, <1>4

-----------------------------------------------------------------------------
(* The walk of a removal. *)
RemoveWalks ==
  [op : {"remove"}, text : {AnyText} \cup (Nat \ {0}), gparent : Place \cup {NoNode}, parent : Place \cup {NoNode},
   q : Place, dir : Dir, last : Dir, found : Link]

(* The text is further on, or f is the node that has it. *)
LookFor(h, B, q, d, text, f) ==
  /\ f = NoNode => /\ text = AnyText => q = Top
                   /\ text # AnyText => InPart(h, B, q, d, text)
  /\ f # NoNode => /\ f \in Used(h) /\ FoundAt(h, B, f, q, d)
                   /\ text # AnyText => h[f].text = text

RemoveWalk(h, B, w) ==
  /\ w \in RemoveWalks /\ w.q \in InTree(h)
  /\ w.q = Top => w.dir = 1 /\ w.found = NoNode /\ h[Top].link[1] # NoNode
  /\ w.q # Top => Reached(h, w.parent, w.q, w.dir)
  /\ LookFor(h, B, w.q, w.dir, w.text, w.found)

Removing(h, w) ==
  /\ Coloured(h) /\ Clean(h) /\ \E H : OfHeight(h, H)
  /\ \E B : InOrder(h, B) /\ RemoveWalk(h, B, w)

(* The walk after an iteration that has come to q. *)
Downward(w, q, h, parent) ==
  LET hit == w.text = AnyText \/ h[q].text = w.text
  IN  [w EXCEPT !.last = w.dir, !.dir = DirOf(w.text # AnyText /\ w.text > h[q].text), !.q = q, !.parent = parent,
                !.gparent = w.parent, !.found = IF hit THEN q ELSE @]

(* The fields of the walk after an iteration that has come to q. *)
LEMMA DownwardIs ==
  ASSUME NEW w \in RemoveWalks, NEW h, NEW q \in Allocated, NEW parent \in Place
  PROVE  LET w2 == Downward(w, q, h, parent)
         IN  /\ w2 \in RemoveWalks /\ w2.text = w.text /\ w2.q = q /\ w2.parent = parent
             /\ w2.dir = DirOf(w.text # AnyText /\ w.text > h[q].text) /\ w2.dir \in Dir
             /\ w2.found = IF w.text = AnyText \/ h[q].text = w.text THEN q ELSE w.found
<1> DEFINE d == DirOf(w.text # AnyText /\ w.text > h[q].text)
           f == IF w.text = AnyText \/ h[q].text = w.text THEN q ELSE w.found
<1>1. d \in Dir
  BY Places DEF DirOf
<1>2. f \in Link
  BY DEF RemoveWalks, Link
<1>3. q \in Place /\ w.parent \in Place \cup {NoNode} /\ w.dir \in Dir
  BY Places DEF RemoveWalks
<1> HIDE DEF d, f
<1>4. Downward(w, q, h, parent) = [w EXCEPT !.last = w.dir, !.dir = d, !.q = q, !.parent = parent,
                                            !.gparent = w.parent, !.found = f]
  BY DEF Downward, d, f, RemoveWalks
<1>5. /\ Downward(w, q, h, parent) \in RemoveWalks
      /\ Downward(w, q, h, parent).text = w.text /\ Downward(w, q, h, parent).q = q
      /\ Downward(w, q, h, parent).parent = parent /\ Downward(w, q, h, parent).dir = d
      /\ Downward(w, q, h, parent).found = f
  BY <1>1, <1>2, <1>3, <1>4 DEF RemoveWalks
<1> QED BY <1>1, <1>5 DEF d, f

(* The start of a removal. *)
LEMMA RemoveStarts ==
  ASSUME IdleAt(node, root), root # NoNode, NEW text \in {AnyText} \cup (Nat \ {0}),
         NEW h2, h2 = Hooked(node, root),
         NEW w, w = [op |-> "remove", text |-> text, gparent |-> NoNode, parent |-> NoNode, q |-> Top,
                     dir |-> 1, last |-> 1, found |-> NoNode]
  PROVE  Removing(h2, w) /\ Members(h2) = Members(node)
<1>1. /\ node \in Nodes /\ root \in Link /\ RedBlack(h2) /\ NoNode \in Link
      /\ Top \in Place /\ 1 \in Dir /\ Top \in InTree(h2)
  BY Places DEF IdleAt, Link, InTree
<1>2. h2[Top].link[1] = root /\ Members(h2) = Members(node)
  BY <1>1, HookedIs
<1>3. PICK B : InOrder(h2, B)
  BY <1>1 DEF RedBlack
<1>4. text # AnyText => InPart(h2, B, Top, 1, text)
  BY <1>3, Sides DEF InOrder, Rooted, Bounded
<1>5. w \in RemoveWalks /\ w.text = text /\ w.q = Top /\ w.dir = 1 /\ w.found = NoNode
  BY <1>1 DEF RemoveWalks
<1>6. RemoveWalk(h2, B, w)
  BY <1>1, <1>2, <1>4, <1>5 DEF RemoveWalk, LookFor
<1> QED BY <1>1, <1>2, <1>3, <1>6 DEF Removing, RedBlack

(* The search goes on at the next node. *)
LEMMA LookOn ==
  ASSUME NEW h, NEW B, InOrder(h, B), NEW p, NEW l, NEW q, Under(h, p, l, q),
         NEW text \in {AnyText} \cup (Nat \ {0}), NEW f, LookFor(h, B, p, l, text, f),
         NEW d, d = DirOf(text # AnyText /\ text > h[q].text)
  PROVE  LookFor(h, B, q, d, text, IF text = AnyText \/ h[q].text = text THEN q ELSE f)
<1>1. p \in InTree(h) /\ l \in Dir /\ h[p].link[l] = q /\ q # NoNode /\ 0 \in Dir /\ 1 \in Dir
  BY Places DEF Under
<1>2. q \in Used(h) /\ q \in InTree(h) /\ h[q].text \in Nat /\ Within(B[q], h[q].text)
  BY Descend
<1>3. p \in Place /\ q \in Place /\ h[p].text \in Nat
  BY <1>1, <1>2, NodeFields, Places DEF InOrder, InTree, Used
<1>4. B[q][0] \in Int /\ B[q][1] \in Int /\ B[p][0] \in Int /\ B[p][1] \in Int
  BY <1>1, <1>3 DEF InOrder, Bounds
<1>5. CASE text = AnyText \/ h[q].text = text
  <2>1. d = 0
    BY <1>2, <1>5 DEF DirOf
  <2>2. FoundAt(h, B, q, q, d)
    BY <1>4, <2>1 DEF FoundAt, Edge
  <2> QED BY <1>1, <1>2, <1>5, <2>2 DEF LookFor
<1>6. CASE text # AnyText /\ h[q].text # text /\ f = NoNode
  <2>1. InPart(h, B, p, l, text) /\ text \in Nat
    BY <1>6 DEF LookFor
  <2>2. Within(B[q], text)
    BY <1>1, <2>1, BelowIs
  <2>3. d = DirOf(text > h[q].text)
    BY <1>6 DEF DirOf
  <2>4. InPart(h, B, q, DirOf(text > h[q].text), text)
    BY <1>2, <1>6, <2>1, <2>2, PartsOf
  <2> QED BY <1>6, <2>3, <2>4 DEF LookFor
<1>7. CASE text # AnyText /\ h[q].text # text /\ f # NoNode
  <2>1. f \in Used(h) /\ FoundAt(h, B, f, p, l) /\ h[f].text = text /\ text \in Nat
    BY <1>7 DEF LookFor
  <2>2. B[q][1] = Edge(h, B, p, l, 1) /\ B[q][0] = Edge(h, B, p, l, 0)
    BY <1>1 DEF InOrder, Leads
  <2>3. B[q][1] = text /\ B[f][0] <= B[p][0]
    BY <2>1, <2>2 DEF FoundAt
  <2>4. text > h[q].text
    BY <1>2, <2>1, <2>3 DEF Within
  <2>5. d = 1
    BY <1>7, <2>4 DEF DirOf
  <2>6. Edge(h, B, q, d, 1) = h[f].text
    BY <2>1, <2>3, <2>5 DEF Edge
  <2>7. B[f][0] \in Int
    <3>1. f \in Place
      BY <2>1, Places DEF Used
    <3> QED BY <3>1, <1>1 DEF InOrder, Bounds
  <2>8. B[p][0] <= B[q][0]
    <3>1. Within(B[p], h[p].text)
      BY <1>1 DEF InOrder, Bounded
    <3>2. B[q][0] = B[p][0] \/ B[q][0] = h[p].text
      BY <2>2 DEF Edge
    <3>3. B[p][0] < h[p].text
      BY <3>1 DEF Within
    <3> QED BY <3>2, <3>3, <1>3, <1>4
  <2>9. B[f][0] <= B[q][0]
    BY <2>3, <2>7, <2>8, <1>4
  <2> QED BY <1>7, <2>1, <2>6, <2>9 DEF LookFor, FoundAt
<1> QED BY <1>5, <1>6, <1>7

(* The search goes on at the same side when the parts there are the same. *)
LEMMA LookSame ==
  ASSUME NEW h, NEW B, NEW q, NEW d, NEW text, NEW f, LookFor(h, B, q, d, text, f),
         NEW h2, NEW B2, SameParts(h, B, h2, B2, q, d), Used(h2) = Used(h),
         \A m \in Place : h2[m].text = h[m].text
  PROVE  LookFor(h2, B2, q, d, text, f)
<1>1. InPart(h, B, q, d, text) => InPart(h2, B2, q, d, text)
  BY Places DEF SameParts, InPart
<1>2. f \in Used(h) /\ FoundAt(h, B, f, q, d) => FoundAt(h2, B2, f, q, d)
  BY DEF SameParts
<1>3. f \in Used(h) => h2[f].text = h[f].text
  BY Places DEF Used
<1> QED BY <1>1, <1>2, <1>3 DEF LookFor

(* An iteration of a removal. *)
LEMMA RemoveKeeps ==
  ASSUME Removing(node, walk), NEW p, p = walk.q, NEW l, l = walk.dir,
         NEW q, Under(node, p, l, q),
         NEW d, d = DirOf(walk.text # AnyText /\ walk.text > node[q].text),
         NEW h2, h2 = Pushed(walk.parent, p, q, d, l).nodes,
         NEW parent, parent = Pushed(walk.parent, p, q, d, l).parent,
         NEW w2, w2 = Downward(walk, q, node, parent)
  PROVE  Removing(h2, w2) /\ Members(h2) = Members(node)
<1>1. PICK B : InOrder(node, B) /\ RemoveWalk(node, B, walk)
  BY DEF Removing
<1>2. PICK H : OfHeight(node, H)
  BY DEF Removing
<1>3. /\ Coloured(node) /\ Clean(node) /\ walk \in RemoveWalks /\ walk.text \in {AnyText} \cup (Nat \ {0})
  BY <1>1 DEF Removing, RemoveWalk, RemoveWalks
<1>4. /\ p = Top => l = 1
      /\ p # Top => Reached(node, walk.parent, p, l)
      /\ LookFor(node, B, p, l, walk.text, walk.found)
  BY <1>1 DEF RemoveWalk
<1>5. q \in Allocated /\ q \in InTree(node) /\ q # Top
  BY <1>1, Descend DEF Used
<1>6. d \in Dir
  BY Places DEF DirOf
<1>7. PushKeeps(node, B, h2, parent, q, d)
  BY <1>1, <1>2, <1>3, <1>4, <1>6, PushedKeeps
<1>8. PICK B2 : InOrder(h2, B2) /\ SameParts(node, B, h2, B2, q, d)
  BY <1>7 DEF PushKeeps
<1>9. /\ Used(h2) = Used(node) /\ InTree(h2) = InTree(node) /\ Reached(h2, parent, q, d)
      /\ \A m \in Place : h2[m].text = node[m].text /\ h2[m].ordinal = node[m].ordinal
  BY <1>7 DEF PushKeeps, InTree
<1>10. parent \in Place
  <2>1. parent \in InTree(h2)
    BY <1>9 DEF Reached, Under
  <2> QED BY <2>1, Places DEF InTree, Used
<1>11. /\ w2 \in RemoveWalks /\ w2.text = walk.text /\ w2.q = q /\ w2.parent = parent /\ w2.dir = d
       /\ w2.found = IF walk.text = AnyText \/ node[q].text = walk.text THEN q ELSE walk.found
  BY <1>3, <1>5, <1>10, DownwardIs
<1>12. LookFor(node, B, q, d, w2.text, w2.found)
  BY <1>1, <1>3, <1>4, <1>11, LookOn
<1>13. LookFor(h2, B2, q, d, w2.text, w2.found)
  <2>1. Used(h2) = Used(node) /\ \A m \in Place : h2[m].text = node[m].text
    BY <1>9
  <2>2. SameParts(node, B, h2, B2, q, d)
    BY <1>8
  <2> DEFINE text == w2.text
             found == w2.found
  <2>3. LookFor(node, B, q, d, text, found)
    BY <1>12
  <2> HIDE DEF text, found
  <2>4. LookFor(h2, B2, q, d, text, found)
    BY <2>1, <2>2, <2>3, LookSame
  <2> QED BY <2>4 DEF text, found
<1>14. RemoveWalk(h2, B2, w2)
  BY <1>5, <1>9, <1>11, <1>13 DEF RemoveWalk
<1>15. Removing(h2, w2)
  BY <1>7, <1>8, <1>14 DEF Removing, PushKeeps
<1>16. Members(h2) = Members(node)
  BY <1>9, SameMembers
<1> QED BY <1>15, <1>16

-----------------------------------------------------------------------------
(* The leaf q under side e of p is cut, and f has what was in it. *)
Cut(h, h2, p, e, q, f) ==
  /\ h2[q] = Free
  /\ \A m \in Place \ {q} :
       /\ h2[m].text = (IF m = f THEN h[q].text ELSE h[m].text)
       /\ h2[m].ordinal = (IF m = f THEN h[q].ordinal ELSE h[m].ordinal)
       /\ h2[m].red <=> h[m].red
       /\ \A x \in Dir : h2[m].link[x] = IF m = p /\ x = e THEN NoNode ELSE h[m].link[x]

Moved(h, q, f, x) == IF x = h[f].text THEN h[q].text ELSE x
MovedBounds(h, B, q, f) == [m \in Place |-> [x \in Dir |-> Moved(h, q, f, B[m][x])]]

(* What there is to know of q and f. *)
LEMMA CutTexts ==
  ASSUME NEW h, NEW B, InOrder(h, B), NEW q \in Used(h), NEW f \in Used(h), \A x \in Dir : h[q].link[x] = NoNode,
         f # q => B[q][1] = h[f].text, B[f][0] <= B[q][0]
  PROVE  /\ h[q].text \in Nat \ {0} /\ h[f].text \in Nat /\ h[q].text <= h[f].text /\ B[q][0] < h[q].text
         /\ f # q => h[q].text < h[f].text /\ B[q][1] = h[f].text
         /\ f = q => B[q][1] = -1 \/ h[q].text < B[q][1]
         /\ \A m \in Used(h) \ {q} : h[m].text # h[q].text
         /\ \A m \in Used(h) \ {f} : h[m].text # h[f].text
         /\ \A m \in Used(h) : ~ (h[q].text < h[m].text /\ h[m].text < h[f].text)
         /\ \A m \in InTree(h), x \in Dir : B[m][x] \in Int
         /\ \A m \in InTree(h) : m \in Place /\ h[m].text \in Nat
         /\ \A m \in Used(h) : Within(B[q], h[m].text) => m = q
<1>1. /\ q \in Place /\ f \in Place /\ q \in InTree(h) /\ f \in InTree(h) /\ 0 \in Dir /\ 1 \in Dir
      /\ h \in Nodes /\ B \in Bounds
  BY Places DEF Used, InTree, InOrder
<1>2. h[q].text \in Nat \ {0} /\ h[f].text \in Nat /\ Within(B[q], h[q].text) /\ Within(B[f], h[f].text)
  BY <1>1, NodeFields DEF Used, InOrder, Bounded
<1>3. \A m \in InTree(h), x \in Dir : B[m][x] \in Int
  BY <1>1, Places DEF InTree, Used, Bounds
<1>4. \A m \in InTree(h) : m \in Place /\ h[m].text \in Nat
  BY <1>1, NodeFields, Places DEF InTree, Used
<1>5. B[q][0] \in Int /\ B[q][1] \in Int
  BY <1>1, <1>3
<1>6. f # q => h[q].text < h[f].text
  BY <1>2, <1>5 DEF Within
<1>7. \A m \in Used(h), x \in Dir : ~ InPart(h, B, q, x, h[m].text)
  BY <1>1 DEF InOrder, Bare
<1>8. \A m \in Used(h) : ~ (h[q].text < h[m].text /\ h[m].text < h[f].text)
  <2>1. CASE f = q
    BY <2>1, <1>1, <1>2, <1>4 DEF InTree
  <2>2. CASE f # q
    <3> SUFFICES ASSUME NEW m \in Used(h), h[q].text < h[m].text, h[m].text < h[f].text PROVE FALSE
      OBVIOUS
    <3>1. InPart(h, B, q, 1, h[m].text)
      BY <2>2, Sides
    <3> QED BY <3>1, <1>1, <1>7
  <2> QED BY <2>1, <2>2
<1>9. \A m \in Used(h) \ {q} : h[m].text # h[q].text
  BY DEF InOrder, Distinct
<1>10. \A m \in Used(h) \ {f} : h[m].text # h[f].text
  BY DEF InOrder, Distinct
<1>11. ASSUME NEW m \in Used(h), Within(B[q], h[m].text) PROVE m = q
  <2> SUFFICES ASSUME m # q PROVE FALSE
    OBVIOUS
  <2>1. h[m].text \in Nat /\ h[m].text # h[q].text
    BY <1>4, <1>9 DEF InTree
  <2>2. InPart(h, B, q, DirOf(h[m].text > h[q].text), h[m].text)
    BY <1>1, <1>11, <2>1, PartsOf
  <2>3. DirOf(h[m].text > h[q].text) \in Dir
    BY <1>1 DEF DirOf
  <2> QED BY <1>7, <2>2, <2>3
<1>12. B[q][0] < h[q].text /\ (B[q][1] = -1 \/ h[q].text < B[q][1])
  BY <1>2 DEF Within
<1>13. h[q].text <= h[f].text
  BY <1>2, <1>6
<1> QED BY <1>2, <1>3, <1>4, <1>6, <1>8, <1>9, <1>10, <1>11, <1>12, <1>13

(* The texts are in order after the cut, under bounds in which the text    *)
(* of q stands for that of f.                                              *)
LEMMA CutKeepsOrder ==
  ASSUME NEW h, NEW B, InOrder(h, B), NEW p, NEW e, NEW q, Under(h, p, e, q), NEW f \in Used(h),
         \A x \in Dir : h[q].link[x] = NoNode, f # q => B[q][1] = h[f].text, B[f][0] <= B[q][0],
         NEW h2 \in Nodes, Cut(h, h2, p, e, q, f)
  PROVE  InOrder(h2, MovedBounds(h, B, q, f)) /\ Used(h2) = Used(h) \ {q}
<1> DEFINE B2 == MovedBounds(h, B, q, f)
           tq == h[q].text
           tf == h[f].text
           Mv(x) == Moved(h, q, f, x)
<1>1. /\ q \in Used(h) /\ q \in InTree(h) /\ q # p /\ p \in InTree(h) /\ e \in Dir /\ h[p].link[e] = q /\ q # NoNode
      /\ q # Top /\ f # Top /\ q \in Place /\ f \in Place /\ Top \in Place /\ 0 \in Dir /\ 1 \in Dir
      /\ \A x \in Dir : x = 0 \/ x = 1
  BY Descend, Places DEF Under, Used
<1>2. /\ tq \in Nat \ {0} /\ tf \in Nat /\ tq <= tf /\ B[q][0] < tq
      /\ f # q => tq < tf /\ B[q][1] = tf
      /\ f = q => B[q][1] = -1 \/ tq < B[q][1]
  BY <1>1, CutTexts
<1>3. /\ \A m \in Used(h) \ {q} : h[m].text # tq
      /\ \A m \in Used(h) \ {f} : h[m].text # tf
      /\ \A m \in Used(h) : ~ (tq < h[m].text /\ h[m].text < tf)
      /\ \A m \in Used(h) : Within(B[q], h[m].text) => m = q
  BY <1>1, CutTexts
<1>4. /\ \A m \in InTree(h), x \in Dir : B[m][x] \in Int
      /\ \A m \in InTree(h) : m \in Place /\ h[m].text \in Nat
  BY <1>1, CutTexts
<1>5. h2[q] = Free /\ \A m \in Place \ {q} :
        /\ h2[m].text = (IF m = f THEN tq ELSE h[m].text)
        /\ \A x \in Dir : h2[m].link[x] = IF m = p /\ x = e THEN NoNode ELSE h[m].link[x]
  BY DEF Cut
<1>6. Used(h2) = Used(h) \ {q} /\ InTree(h2) = InTree(h) \ {q}
  <2>1. h2[q].text = 0
    BY <1>5 DEF Free
  <2>2. \A m \in Allocated : m # q => (h2[m].text # 0 <=> h[m].text # 0)
    BY <1>1, <1>2, <1>5, Places DEF Used
  <2>3. Used(h2) = Used(h) \ {q}
    BY <2>1, <2>2 DEF Used
  <2> QED BY <2>3, <1>1 DEF InTree
<1>7. \A x : Mv(x) = IF x = tf THEN tq ELSE x
  BY DEF Moved
<1>8. B2 \in Bounds /\ \A m \in Place, x \in Dir : B2[m][x] = Mv(B[m][x])
  <2>1. \A m \in Place, x \in Dir : B[m][x] \in Int
    BY DEF InOrder, Bounds
  <2> QED BY <2>1, <1>2, <1>7 DEF MovedBounds, Bounds
<1> HIDE DEF B2, Mv
<1>9. \A m \in InTree(h) \ {q} : h2[m].text = Mv(h[m].text)
  <2>1. Mv(0) = 0
    BY <1>1, <1>2, <1>7
  <2>2. \A m \in Used(h) \ {q} : h2[m].text = Mv(h[m].text)
    BY <1>3, <1>4, <1>5, <1>7 DEF InTree
  <2>3. h[Top].text = 0
    BY DEF InOrder, Rooted
  <2>4. h2[Top].text = Mv(h[Top].text)
    BY <1>1, <1>5, <2>1, <2>3
  <2> QED BY <2>2, <2>4 DEF InTree
<1>10. \A m \in InTree(h) \ {q}, d, x \in Dir : Edge(h2, B2, m, d, x) = Mv(Edge(h, B, m, d, x))
  BY <1>4, <1>8, <1>9 DEF Edge
<1>11. \A m \in InTree(h), d, x \in Dir : Edge(h, B, m, d, x) \in Int
  BY <1>4 DEF Edge
<1>12. \A m \in InTree(h) \ {q}, d \in Dir : (m # p \/ d # e) => h2[m].link[d] = h[m].link[d] /\ h[m].link[d] # q
  <2>1. Once(h)
    BY DEF InOrder
  <2>2. \A m \in InTree(h), d \in Dir : h[m].link[d] = q => m = p /\ d = e
    BY <2>1, <1>1 DEF Once
  <2> QED BY <2>2, <1>4, <1>5
<1>13. h2[p].link[e] = NoNode
  BY <1>1, <1>4, <1>5
<1>14. Rooted(h2)
  <2>1. h2[Top].text = 0
    BY <1>1, <1>5 DEF InOrder, Rooted
  <2>2. h2[Top].ordinal = 0
    BY <1>1 DEF InOrder, Rooted, Cut
  <2>3. h2[Top].link[0] = NoNode
    BY <1>1, <1>5 DEF InOrder, Rooted
  <2> QED BY <2>1, <2>2, <2>3 DEF Rooted
<1>15. Distinct(h2)
  <2> SUFFICES ASSUME NEW m \in Used(h) \ {q}, NEW n \in Used(h) \ {q}, h2[m].text = h2[n].text PROVE m = n
    BY <1>6 DEF Distinct
  <2>1. m \in Place /\ n \in Place
    BY <1>4 DEF InTree
  <2>2. CASE m = f \/ n = f
    BY <2>1, <2>2, <1>3, <1>5
  <2>3. CASE m # f /\ n # f
    BY <2>1, <2>3, <1>5 DEF InOrder, Distinct
  <2> QED BY <2>2, <2>3
<1>16. Bounded(h2, B2)
  <2>1. B2[Top][1] = -1
    <3>1. B[Top][1] = -1
      BY DEF InOrder, Bounded
    <3> QED BY <3>1, <1>1, <1>2, <1>7, <1>8
  <2>2. ASSUME NEW m \in InTree(h) \ {q} PROVE Within(B2[m], h2[m].text)
    <3>1. /\ m \in Place /\ h[m].text \in Nat /\ B[m][0] \in Int /\ B[m][1] \in Int /\ Within(B[m], h[m].text)
          /\ B2[m][0] = Mv(B[m][0]) /\ B2[m][1] = Mv(B[m][1]) /\ h2[m].text = Mv(h[m].text)
      BY <1>1, <1>4, <1>8, <1>9 DEF InOrder, Bounded
    <3>2. CASE m = f
      <4>1. B[m][0] <= B[q][0] /\ B[q][0] \in Int
        BY <3>2, <1>1, <1>4
      <4> QED BY <3>1, <3>2, <4>1, <1>2, <1>7 DEF Within
    <3>3. CASE m # f
      <4>1. h[m].text # tf /\ h[m].text # tq /\ ~ (tq < h[m].text /\ h[m].text < tf)
        <5>1. m = Top => h[m].text = 0
          BY DEF InOrder, Rooted
        <5>2. CASE m = Top
          BY <5>1, <5>2, <1>2
        <5>3. CASE m # Top
          BY <3>3, <5>3, <1>3 DEF InTree
        <5> QED BY <5>2, <5>3
      <4> QED BY <3>1, <4>1, <1>2, <1>7 DEF Within
    <3> QED BY <3>2, <3>3
  <2> QED BY <2>1, <2>2, <1>6 DEF Bounded
<1>17. Leads(h2, B2)
  <2> SUFFICES ASSUME NEW m \in InTree(h) \ {q}, NEW d \in Dir, h2[m].link[d] # NoNode
               PROVE  /\ h2[m].link[d] \in Used(h) \ {q}
                      /\ \A x \in Dir : B2[h2[m].link[d]][x] = Edge(h2, B2, m, d, x)
    BY <1>6 DEF Leads
  <2>1. h2[m].link[d] = h[m].link[d] /\ h[m].link[d] # q
    BY <1>12, <1>13
  <2>2. h[m].link[d] \in Used(h) /\ \A x \in Dir : B[h[m].link[d]][x] = Edge(h, B, m, d, x)
    BY <2>1 DEF InOrder, Leads
  <2>3. h[m].link[d] \in Place
    BY <2>2, <1>4 DEF InTree
  <2> QED BY <2>1, <2>2, <2>3, <1>8, <1>10
<1>18. Once(h2)
  <2> SUFFICES ASSUME NEW m \in InTree(h) \ {q}, NEW n \in InTree(h) \ {q}, NEW c \in Dir, NEW d \in Dir,
                      h2[m].link[c] = h2[n].link[d], h2[m].link[c] # NoNode
               PROVE  m = n /\ c = d
    BY <1>6 DEF Once
  <2>2. Once(h)
    BY DEF InOrder
  <2>3. m \in InTree(h) /\ n \in InTree(h) /\ h[m].link[c] = h[n].link[d] /\ h[m].link[c] # NoNode
    <3>1. m \in InTree(h) /\ n \in InTree(h)
      OBVIOUS
    <3>2. h2[m].link[c] = h[m].link[c]
      BY <1>12, <1>13
    <3>3. h2[n].link[d] = h[n].link[d]
      <4>1. h2[n].link[d] # NoNode
        OBVIOUS
      <4>2. n # p \/ d # e
        BY <4>1, <1>13
      <4> QED BY <4>2, <1>12
    <3> QED BY <3>1, <3>2, <3>3
  <2> QED BY <2>2, <2>3 DEF Once
<1>19. Bare(h2, B2)
  <2> SUFFICES ASSUME NEW m \in InTree(h) \ {q}, NEW d \in Dir, h2[m].link[d] = NoNode, NEW n \in Used(h) \ {q},
                      InPart(h2, B2, m, d, h2[n].text)
               PROVE  FALSE
    BY <1>6 DEF Bare
  <2> DEFINE lo == Edge(h, B, m, d, 0)
             hi == Edge(h, B, m, d, 1)
  <2>1. lo \in Int /\ hi \in Int /\ Edge(h2, B2, m, d, 0) = Mv(lo) /\ Edge(h2, B2, m, d, 1) = Mv(hi)
    BY <1>1, <1>10, <1>11
  <2>2. h2[n].text = Mv(h[n].text) /\ h[n].text \in Nat
    BY <1>4, <1>9 DEF InTree
  <2> HIDE DEF lo, hi
  <2>3. Mv(lo) < Mv(h[n].text) /\ (Mv(h[n].text) < Mv(hi) \/ Mv(hi) = -1)
    BY <2>1, <2>2 DEF InPart
  <2>4. \A t : InPart(h, B, m, d, t) <=> lo < t /\ (t < hi \/ hi = -1)
    BY DEF InPart, lo, hi
  <2>5. CASE m # p \/ d # e
    <3>1. h[m].link[d] = NoNode
      BY <2>5, <1>12
    <3>2. ~ InPart(h, B, m, d, tq) /\ ~ InPart(h, B, m, d, h[n].text)
      BY <3>1, <1>1 DEF InOrder, Bare
    <3>3. CASE n = f
      BY <2>1, <2>3, <2>4, <3>2, <3>3, <1>2, <1>7
    <3>4. CASE n # f
      BY <2>1, <2>2, <2>3, <2>4, <3>2, <3>4, <1>2, <1>3, <1>7
    <3> QED BY <3>3, <3>4
  <2>6. CASE m = p /\ d = e
    <3>1. lo = B[q][0] /\ hi = B[q][1]
      BY <2>6, <1>1 DEF InOrder, Leads, lo, hi
    <3>2. CASE n = f
      BY <2>3, <3>1, <3>2, <1>2, <1>7
    <3>3. CASE n # f
      <4>1. lo < h[n].text /\ (h[n].text < hi \/ hi = -1)
        BY <2>1, <2>2, <2>3, <3>3, <1>2, <1>3, <1>7
      <4>2. Within(B[q], h[n].text)
        BY <3>1, <4>1 DEF Within
      <4> QED BY <4>2, <1>3
    <3> QED BY <3>2, <3>3
  <2> QED BY <2>5, <2>6
<1>20. Disjoint(h2, B2)
  <2>1. ASSUME NEW m \in InTree(h) \ {q}, NEW d \in Dir, NEW x \in Nat, Covers(h2, B2, m, d, x)
        PROVE  /\ x < tq \/ tf <= x => Covers(h, B, m, d, x)
               /\ tq <= x /\ x < tf => Covers(h, B, m, d, x) \/ Covers(h, B, m, d, tf)
    <3> DEFINE lo == Edge(h, B, m, d, 0)
               hi == Edge(h, B, m, d, 1)
    <3>1. lo \in Int /\ hi \in Int /\ Edge(h2, B2, m, d, 0) = Mv(lo) /\ Edge(h2, B2, m, d, 1) = Mv(hi)
      BY <1>1, <1>10, <1>11
    <3>2. lo < hi \/ hi = -1
      <4>1. Within(B[m], h[m].text)
        BY DEF InOrder, Bounded
      <4>2. B[m][0] \in Int /\ B[m][1] \in Int /\ h[m].text \in Nat
        BY <1>1, <1>4
      <4> QED BY <4>1, <4>2, <1>1 DEF Within, Edge
    <3> HIDE DEF lo, hi
    <3>3. Mv(lo) <= x /\ (x < Mv(hi) \/ Mv(hi) = -1)
      BY <2>1, <3>1 DEF Covers
    <3>4. \A t : Covers(h, B, m, d, t) <=> lo <= t /\ (t < hi \/ hi = -1)
      BY DEF Covers, lo, hi
    <3> QED BY <3>1, <3>2, <3>3, <3>4, <1>2, <1>7
  <2>2. ASSUME NEW x \in Nat, Covers(h2, B2, p, e, x)
        PROVE  \E d \in Dir : Covers(h, B, q, d, x)
    <3>1. Edge(h2, B2, p, e, 0) = Mv(B[q][0]) /\ Edge(h2, B2, p, e, 1) = Mv(B[q][1])
      <4>1. B[q][0] = Edge(h, B, p, e, 0) /\ B[q][1] = Edge(h, B, p, e, 1)
        BY <1>1 DEF InOrder, Leads
      <4> QED BY <4>1, <1>1, <1>10
    <3>2. Mv(B[q][0]) <= x /\ (x < Mv(B[q][1]) \/ Mv(B[q][1]) = -1)
      BY <2>2, <3>1 DEF Covers
    <3>3. B[q][0] \in Int /\ B[q][1] \in Int
      BY <1>1, <1>4
    <3>4. B[q][0] <= x /\ (x < B[q][1] \/ B[q][1] = -1)
      BY <3>2, <3>3, <1>2, <1>7
    <3>5. /\ Covers(h, B, q, 0, x) <=> B[q][0] <= x /\ (x < tq \/ tq = -1)
          /\ Covers(h, B, q, 1, x) <=> tq <= x /\ (x < B[q][1] \/ B[q][1] = -1)
      BY DEF Covers, Edge
    <3> QED BY <3>3, <3>4, <3>5, <1>1, <1>2
  <2>3. ASSUME NEW x \in Nat, Covers(h2, B2, p, e, x), tq <= x, x < tf PROVE FALSE
    <3>1. Edge(h2, B2, p, e, 1) = Mv(B[q][1])
      <4>1. B[q][1] = Edge(h, B, p, e, 1)
        BY <1>1 DEF InOrder, Leads
      <4> QED BY <4>1, <1>1, <1>10
    <3>2. x < Mv(B[q][1]) \/ Mv(B[q][1]) = -1
      BY <2>3, <3>1 DEF Covers
    <3>3. f # q
      BY <2>3, <1>2
    <3> QED BY <2>3, <3>2, <3>3, <1>2, <1>7
  <2>4. Disjoint(h, B)
    BY DEF InOrder
  (* An empty place other than that of q, and where it was before. *)
  <2>5. ASSUME NEW m \in InTree(h) \ {q}, NEW d \in Dir, h2[m].link[d] = NoNode, m # p \/ d # e,
               NEW x \in Nat, Covers(h2, B2, m, d, x)
        PROVE  /\ h[m].link[d] = NoNode
               /\ x < tq \/ tf <= x => Covers(h, B, m, d, x)
               /\ tq <= x /\ x < tf => Covers(h, B, m, d, tf)
    <3>1. h[m].link[d] = NoNode
      BY <2>5, <1>12
    <3>2. ASSUME tq <= x, x < tf PROVE ~ Covers(h, B, m, d, x)
      <4>1. Covers(h, B, q, 1, x)
        BY <3>2, <1>2 DEF Covers, Edge
      <4> QED BY <3>1, <4>1, <2>4, <1>1 DEF Disjoint
    <3> QED BY <2>1, <2>5, <3>1, <3>2
  <2>6. ASSUME NEW m \in InTree(h) \ {q}, NEW d \in Dir, h2[m].link[d] = NoNode, m # p \/ d # e,
               NEW x \in Nat, Covers(h2, B2, m, d, x), Covers(h2, B2, p, e, x)
        PROVE  FALSE
    <3>1. PICK c \in Dir : Covers(h, B, q, c, x)
      BY <2>2, <2>6
    <3>2. x < tq \/ tf <= x
      BY <2>3, <2>6, <1>2
    <3>3. h[m].link[d] = NoNode /\ Covers(h, B, m, d, x)
      BY <2>5, <2>6, <3>2
    <3> QED BY <3>1, <3>3, <2>4, <1>1 DEF Disjoint
  <2>7. ASSUME NEW m \in InTree(h) \ {q}, NEW n \in InTree(h) \ {q}, NEW c \in Dir, NEW d \in Dir, NEW x \in Nat,
               h2[m].link[c] = NoNode, h2[n].link[d] = NoNode,
               Covers(h2, B2, m, c, x), Covers(h2, B2, n, d, x)
        PROVE  m = n /\ c = d
    <3>1. CASE m = p /\ c = e
      BY <2>6, <2>7, <3>1
    <3>2. CASE n = p /\ d = e
      BY <2>6, <2>7, <3>2
    <3>3. CASE (m # p \/ c # e) /\ (n # p \/ d # e)
      <4>1. h[m].link[c] = NoNode /\ h[n].link[d] = NoNode
        BY <2>5, <2>7, <3>3
      <4>2. CASE x < tq \/ tf <= x
        BY <2>4, <2>5, <2>7, <3>3, <4>1, <4>2 DEF Disjoint
      <4>3. CASE tq <= x /\ x < tf
        BY <2>4, <2>5, <2>7, <3>3, <4>1, <4>3, <1>2 DEF Disjoint
      <4> QED BY <4>2, <4>3, <1>2
    <3> QED BY <3>1, <3>2, <3>3
  <2> QED BY <2>7, <1>6 DEF Disjoint
<1>21. h2 \in Nodes
  OBVIOUS
<1>22. InOrder(h2, B2)
  BY <1>8, <1>14, <1>15, <1>16, <1>17, <1>18, <1>19, <1>20, <1>21 DEF InOrder
<1> QED BY <1>6, <1>22 DEF B2

-----------------------------------------------------------------------------
(* Fields changed at a node. *)
WithText(h, n, t) == [h EXCEPT ![n].text = t]
WithOrdinal(h, n, o) == [h EXCEPT ![n].ordinal = o]
WithLink(h, n, e, c) == [h EXCEPT ![n].link[e] = c]
WithFree(h, n) == [h EXCEPT ![n] = Free]

(* A text changed. *)
LEMMA WithTextIs ==
  ASSUME NEW h \in Nodes, NEW n \in Place, NEW t \in Nat
  PROVE  /\ WithText(h, n, t) \in Nodes
         /\ \A m \in Place \ {n} : WithText(h, n, t)[m] = h[m]
         /\ WithText(h, n, t)[n].text = t /\ WithText(h, n, t)[n].ordinal = h[n].ordinal
         /\ WithText(h, n, t)[n].red = h[n].red /\ WithText(h, n, t)[n].link = h[n].link
<1> DEFINE r == [h[n] EXCEPT !.text = t]
           h2 == WithText(h, n, t)
<1>1. h[n] \in SearchNode
  BY NodeFields
<1>2. r \in SearchNode /\ r.text = t /\ r.ordinal = h[n].ordinal /\ r.red = h[n].red /\ r.link = h[n].link
  BY <1>1 DEF SearchNode
<1>3. h2 = [m \in Place |-> IF m = n THEN r ELSE h[m]]
  BY DEF WithText, Nodes
<1> HIDE DEF r, h2
<1>4. h2 \in Nodes
  BY <1>2, <1>3, NodeFields DEF Nodes
<1> QED BY <1>2, <1>3, <1>4 DEF h2

(* An ordinal changed. *)
LEMMA WithOrdinalIs ==
  ASSUME NEW h \in Nodes, NEW n \in Place, NEW o \in Nat
  PROVE  /\ WithOrdinal(h, n, o) \in Nodes
         /\ \A m \in Place \ {n} : WithOrdinal(h, n, o)[m] = h[m]
         /\ WithOrdinal(h, n, o)[n].text = h[n].text /\ WithOrdinal(h, n, o)[n].ordinal = o
         /\ WithOrdinal(h, n, o)[n].red = h[n].red /\ WithOrdinal(h, n, o)[n].link = h[n].link
<1> DEFINE r == [h[n] EXCEPT !.ordinal = o]
           h2 == WithOrdinal(h, n, o)
<1>1. h[n] \in SearchNode
  BY NodeFields
<1>2. r \in SearchNode /\ r.text = h[n].text /\ r.ordinal = o /\ r.red = h[n].red /\ r.link = h[n].link
  BY <1>1 DEF SearchNode
<1>3. h2 = [m \in Place |-> IF m = n THEN r ELSE h[m]]
  BY DEF WithOrdinal, Nodes
<1> HIDE DEF r, h2
<1>4. h2 \in Nodes
  BY <1>2, <1>3, NodeFields DEF Nodes
<1> QED BY <1>2, <1>3, <1>4 DEF h2

(* A link changed. *)
LEMMA WithLinkIs ==
  ASSUME NEW h \in Nodes, NEW n \in Place, NEW e \in Dir, NEW c \in Link
  PROVE  /\ WithLink(h, n, e, c) \in Nodes
         /\ \A m \in Place \ {n} : WithLink(h, n, e, c)[m] = h[m]
         /\ WithLink(h, n, e, c)[n].text = h[n].text /\ WithLink(h, n, e, c)[n].ordinal = h[n].ordinal
         /\ WithLink(h, n, e, c)[n].red = h[n].red
         /\ \A x \in Dir : WithLink(h, n, e, c)[n].link[x] = IF x = e THEN c ELSE h[n].link[x]
<1> DEFINE r == [h[n] EXCEPT !.link[e] = c]
           h2 == WithLink(h, n, e, c)
<1>1. h[n] \in SearchNode
  BY NodeFields
<1>2. /\ r \in SearchNode /\ r.text = h[n].text /\ r.ordinal = h[n].ordinal /\ r.red = h[n].red
      /\ \A x \in Dir : r.link[x] = IF x = e THEN c ELSE h[n].link[x]
  BY <1>1 DEF SearchNode
<1>3. h2 = [m \in Place |-> IF m = n THEN r ELSE h[m]]
  BY DEF WithLink, Nodes
<1> HIDE DEF r, h2
<1>4. h2 \in Nodes
  BY <1>2, <1>3, NodeFields DEF Nodes
<1> QED BY <1>2, <1>3, <1>4 DEF h2

(* A node freed. *)
LEMMA WithFreeIs ==
  ASSUME NEW h \in Nodes, NEW n \in Place
  PROVE  WithFree(h, n) \in Nodes /\ WithFree(h, n)[n] = Free /\ \A m \in Place \ {n} : WithFree(h, n)[m] = h[m]
<1>1. WithFree(h, n) = [m \in Place |-> IF m = n THEN Free ELSE h[m]]
  BY DEF WithFree, Nodes
<1>2. Free \in SearchNode
  BY DEF Free, SearchNode, Link
<1>3. WithFree(h, n) \in Nodes
  BY <1>1, <1>2, NodeFields DEF Nodes
<1> QED BY <1>1, <1>3

(* The nodes after the end of a removal that has found f. *)
Severed(h, g, q, f) ==
  LET side == DirOf(h[g].link[1] = q)
      moved == [h EXCEPT ![f].text = h[q].text, ![f].ordinal = h[q].ordinal]
      cut == [moved EXCEPT ![g].link[side] = h[q].link[DirOf(h[q].link[0] = NoNode)]]
  IN  [cut EXCEPT ![q] = Free]

(* What the end of a removal makes of the nodes when it has found one. *)
LEMMA SeveredIs ==
  ASSUME NEW h \in Nodes, NEW g \in Place, NEW q \in Place, g # q, NEW f \in Place,
         \A x \in Dir : h[q].link[x] = NoNode, NEW e, e = DirOf(h[g].link[1] = q),
         NEW h2, h2 = Severed(h, g, q, f)
  PROVE  h2 \in Nodes /\ Cut(h, h2, g, e, q, f) /\ \A m \in Place : m \notin {g, q, f} => h2[m] = h[m]
<1> DEFINE t == h[q].text
           o == h[q].ordinal
           h3 == WithText(h, f, t)
           h4 == WithOrdinal(h3, f, o)
           h5 == WithLink(h4, g, e, NoNode)
<1>1. e \in Dir /\ NoNode \in Link /\ t \in Nat /\ o \in Nat /\ DirOf(h[q].link[0] = NoNode) \in Dir
  BY NodeFields, Places DEF DirOf, Link
<1>2. h2 = WithFree(h5, q)
  <2>1. h[q].link[DirOf(h[q].link[0] = NoNode)] = NoNode
    BY <1>1
  <2> QED BY <2>1 DEF Severed, WithFree, WithLink, WithOrdinal, WithText
<1> HIDE DEF t, o
<1>3. h3 \in Nodes /\ (\A m \in Place \ {f} : h3[m] = h[m]) /\ h3[f].text = t /\ h3[f].ordinal = h[f].ordinal
      /\ h3[f].red = h[f].red /\ h3[f].link = h[f].link
  <2>1. t \in Nat /\ f \in Place /\ h \in Nodes
    BY <1>1
  <2> QED BY <2>1, WithTextIs
<1> HIDE DEF h3
<1>4. h4 \in Nodes /\ (\A m \in Place \ {f} : h4[m] = h3[m]) /\ h4[f].text = h3[f].text /\ h4[f].ordinal = o
      /\ h4[f].red = h3[f].red /\ h4[f].link = h3[f].link
  <2>1. o \in Nat /\ f \in Place /\ h3 \in Nodes
    BY <1>1, <1>3
  <2> QED BY <2>1, WithOrdinalIs
<1> HIDE DEF h4
<1>5. h4 \in Nodes /\ NoNode \in Link /\ e \in Dir
  BY <1>1, <1>4
<1>6. h5 \in Nodes /\ (\A m \in Place \ {g} : h5[m] = h4[m]) /\ h5[g].text = h4[g].text /\ h5[g].ordinal = h4[g].ordinal
      /\ h5[g].red = h4[g].red /\ \A x \in Dir : h5[g].link[x] = IF x = e THEN NoNode ELSE h4[g].link[x]
  BY <1>5, WithLinkIs
<1> HIDE DEF h5, t, o
<1>7. h5 \in Nodes
  BY <1>6
<1>8. WithFree(h5, q) \in Nodes /\ WithFree(h5, q)[q] = Free /\ \A m \in Place \ {q} : WithFree(h5, q)[m] = h5[m]
  BY <1>7, WithFreeIs
<1>9. h2 \in Nodes /\ h2[q] = Free /\ \A m \in Place \ {q} : h2[m] = h5[m]
  BY <1>2, <1>8
<1>10. \A m \in Place : m \notin {g, q, f} => h2[m] = h[m]
  BY <1>3, <1>4, <1>6, <1>9
<1>11. ASSUME NEW m \in Place \ {q}
      PROVE  /\ h2[m].text = (IF m = f THEN t ELSE h[m].text)
             /\ h2[m].ordinal = (IF m = f THEN o ELSE h[m].ordinal)
             /\ h2[m].red <=> h[m].red
             /\ \A x \in Dir : h2[m].link[x] = IF m = g /\ x = e THEN NoNode ELSE h[m].link[x]
  <2>1. h4[m].text = (IF m = f THEN t ELSE h[m].text) /\ h4[m].ordinal = (IF m = f THEN o ELSE h[m].ordinal)
        /\ h4[m].red = h[m].red /\ h4[m].link = h[m].link
    BY <1>3, <1>4
  <2>2. h5[m].text = h4[m].text /\ h5[m].ordinal = h4[m].ordinal /\ h5[m].red = h4[m].red
        /\ \A x \in Dir : h5[m].link[x] = IF m = g /\ x = e THEN NoNode ELSE h4[m].link[x]
    BY <1>6
  <2>3. h2[m] = h5[m]
    BY <1>9
  <2> QED BY <2>1, <2>2, <2>3
<1>12. Cut(h, h2, g, e, q, f)
  BY <1>9, <1>11 DEF Cut, t, o
<1> QED BY <1>9, <1>10, <1>12

(* A red leaf, or the only node, is cut without a change of the heights. *)
LEMMA CutKeepsColours ==
  ASSUME NEW h, NEW B, NEW H, InOrder(h, B), OfHeight(h, H), Coloured(h), Clean(h),
         NEW p, NEW e, NEW q, Under(h, p, e, q), NEW f \in Used(h), \A x \in Dir : h[q].link[x] = NoNode,
         h[q].red \/ p = Top,
         NEW h2 \in Nodes, Cut(h, h2, p, e, q, f), \A m \in Place : m \notin {p, q, f} => h2[m] = h[m],
         Used(h2) = Used(h) \ {q}
  PROVE  OfHeight(h2, H) /\ Coloured(h2) /\ Clean(h2)
<1>1. /\ q \in Used(h) /\ q # p /\ p \in InTree(h) /\ e \in Dir /\ h[p].link[e] = q
      /\ q # Top /\ f # Top /\ q \in Place /\ f \in Place /\ Top \in Place /\ q # NoNode /\ 0 \in Dir
      /\ \A m \in Used(h) : m \in Place /\ m # Top
  BY Descend, Places DEF Under, Used
<1>2. h2[q] = Free /\ \A m \in Place \ {q} :
        /\ h2[m].text = (IF m = f THEN h[q].text ELSE h[m].text)
        /\ h2[m].red <=> h[m].red
        /\ \A x \in Dir : h2[m].link[x] = IF m = p /\ x = e THEN NoNode ELSE h[m].link[x]
  BY DEF Cut
<1>3. OfHeight(h2, H)
  <2> SUFFICES ASSUME NEW m \in Used(h), m # q, NEW x \in Dir
               PROVE  H[m] = H[h2[m].link[x]] + (IF h2[m].red THEN 0 ELSE 1)
    BY DEF OfHeight, HeightAt
  <2>1. H[m] = H[h[m].link[x]] + (IF h[m].red THEN 0 ELSE 1)
    BY DEF OfHeight, HeightAt
  <2>2. h2[m].red <=> h[m].red
    BY <1>1, <1>2
  <2>3. CASE m = p /\ x = e
    <3>1. h[q].red /\ h2[m].link[x] = NoNode /\ h[m].link[x] = q
      BY <2>3, <1>1, <1>2
    <3>2. H[q] = H[NoNode] + 0 /\ H[NoNode] = 1
      BY <3>1, <1>1 DEF OfHeight, HeightAt
    <3>3. H[q] = H[NoNode]
      BY <3>2
    <3> QED BY <2>1, <2>2, <3>1, <3>3
  <2>4. CASE ~ (m = p /\ x = e)
    BY <2>1, <2>2, <2>4, <1>1, <1>2
  <2> QED BY <2>3, <2>4
<1>4. Coloured(h2)
  <2> SUFFICES ASSUME NEW m \in Used(h), m # q, NEW x \in Dir, h2[m].red, nodeIsRed(h2, h2[m].link[x]) PROVE FALSE
    BY DEF Coloured
  <2>1. h2[m].link[x] = h[m].link[x] /\ h[m].red
    BY <1>1, <1>2 DEF nodeIsRed
  <2>2. h[m].link[x] \in Place
    BY <2>1, <1>1, NodeFields, Places, ZenonT(60) DEF nodeIsRed, InOrder, Link
  <2>3. h[m].link[x] # q
    BY <2>1, <1>2 DEF nodeIsRed, Free
  <2>4. nodeIsRed(h, h[m].link[x])
    BY <2>1, <2>2, <2>3, <1>2 DEF nodeIsRed
  <2> QED BY <2>1, <2>4 DEF Coloured
<1>5. Clean(h2)
  <2>1. ~ h2[Top].red
    BY <1>1, <1>2 DEF Clean
  <2>2. ASSUME NEW m \in Allocated, h2[m].text = 0 PROVE h2[m] = Free
    <3>1. CASE m = q
      BY <3>1, <1>2
    <3>2. CASE m # q
      <4>1. m \notin Used(h)
        BY <2>2, <3>2 DEF Used
      <4>2. m \in Place /\ m \notin {p, q, f} /\ h[m].text = 0
        BY <4>1, <3>2, <1>1, Places DEF InTree, Used
      <4> QED BY <4>2 DEF Clean
    <3> QED BY <3>1, <3>2
  <2> QED BY <2>1, <2>2 DEF Clean
<1> QED BY <1>3, <1>4, <1>5

(* The member of the text of f is gone. *)
LEMMA CutMembers ==
  ASSUME NEW h, NEW B, InOrder(h, B), NEW p, NEW e, NEW q \in Used(h), NEW f \in Used(h),
         NEW h2, Cut(h, h2, p, e, q, f), Used(h2) = Used(h) \ {q}
  PROVE  Members(h2) = {m \in Members(h) : m[1] # h[f].text}
<1>1. \A m \in Used(h) : m \in Place
  BY Places DEF Used
<1>2. \A m \in Used(h) \ {q} : /\ h2[m].text = (IF m = f THEN h[q].text ELSE h[m].text)
                               /\ h2[m].ordinal = (IF m = f THEN h[q].ordinal ELSE h[m].ordinal)
  BY <1>1 DEF Cut
<1>3. \A m, n \in Used(h) : h[m].text = h[n].text => m = n
  BY DEF InOrder, Distinct
<1>4. ASSUME NEW u \in Members(h2) PROVE u \in Members(h) /\ u[1] # h[f].text
  <2>1. PICK m \in Used(h) \ {q} : u = <<h2[m].text, h2[m].ordinal>>
    BY DEF Members
  <2>2. CASE m = f
    <3>1. u = <<h[q].text, h[q].ordinal>> /\ q # f
      BY <2>1, <2>2, <1>2
    <3> QED BY <3>1, <1>3 DEF Members
  <2>3. CASE m # f
    <3>1. u = <<h[m].text, h[m].ordinal>>
      BY <2>1, <2>3, <1>2
    <3> QED BY <3>1, <2>3, <1>3 DEF Members
  <2> QED BY <2>2, <2>3
<1>5. ASSUME NEW u \in Members(h), u[1] # h[f].text PROVE u \in Members(h2)
  <2>1. PICK m \in Used(h) : u = <<h[m].text, h[m].ordinal>>
    BY DEF Members
  <2>2. m # f
    BY <2>1, <1>5
  <2>3. CASE m = q
    <3>1. f \in Used(h) \ {q}
      BY <2>2, <2>3
    <3>2. u = <<h2[f].text, h2[f].ordinal>>
      BY <2>1, <2>3, <3>1, <1>2
    <3> QED BY <3>1, <3>2 DEF Members
  <2>4. CASE m # q
    BY <2>1, <2>2, <2>4, <1>2 DEF Members
  <2> QED BY <2>3, <2>4
<1> QED BY <1>4, <1>5

(* The end of a removal. *)
LEMMA RemoveEndsKeeps ==
  ASSUME Removing(node, walk), NEW q, q = walk.q, NEW f, f = walk.found, node[q].link[walk.dir] = NoNode,
         NEW h2, h2 = IF f = NoNode THEN node ELSE Severed(node, walk.parent, q, f),
         NEW t, t = IF walk.text = AnyText THEN node[f].text ELSE walk.text
  PROVE  RedBlack(h2) /\ Members(h2) = {m \in Members(node) : m[1] # t}
<1>1. PICK B : InOrder(node, B) /\ RemoveWalk(node, B, walk)
  BY DEF Removing
<1>2. PICK H : OfHeight(node, H)
  BY DEF Removing
<1> DEFINE d == walk.dir
           g == walk.parent
           c == node[q].link[1 - d]
<1>3. /\ Coloured(node) /\ Clean(node) /\ q \in InTree(node) /\ d \in Dir /\ 1 - d \in Dir
      /\ LookFor(node, B, q, d, walk.text, f) /\ node[q].link[d] = NoNode
      /\ \A x \in Dir : x = d \/ x = 1 - d
  BY <1>1, Opposite DEF Removing, RemoveWalk, RemoveWalks
<1>4. q # Top /\ Reached(node, g, q, d)
  BY <1>1 DEF RemoveWalk
<1>5. CASE f = NoNode
  <2>1. walk.text # AnyText /\ InPart(node, B, q, d, walk.text)
    BY <1>3, <1>4, <1>5 DEF LookFor
  <2>2. ASSUME NEW m \in Used(node) PROVE node[m].text # t
    BY <2>1, <1>1, <1>3 DEF InOrder, Bare
  <2>3. Members(node) = {m \in Members(node) : m[1] # t}
    BY <2>2 DEF Members
  <2> QED BY <2>3, <1>1, <1>2, <1>3, <1>5 DEF RedBlack
<1>6. CASE f # NoNode
  <2>1. /\ f \in Used(node) /\ FoundAt(node, B, f, q, d) /\ t = node[f].text
        /\ h2 = Severed(node, g, q, f)
    BY <1>3, <1>6 DEF LookFor
  <2>2. PICK e : Under(node, g, e, q)
    BY <1>4 DEF Reached
  <2>3. q \in Used(node) /\ q \in Place /\ q # g /\ g \in InTree(node) /\ g \in Place /\ f \in Place /\ node \in Nodes
    BY <1>1, <2>1, <2>2, Descend, Places DEF Under, InTree, Used, InOrder
  <2>4. ~ nodeIsRed(node, c) /\ (node[q].red \/ g = Top)
    <3>1. ~ nodeIsRed(node, node[q].link[d])
      BY <1>3 DEF nodeIsRed
    <3>2. node[q].red => ~ nodeIsRed(node, c)
      BY <1>3, <2>3 DEF Coloured
    <3> QED BY <3>1, <3>2, <1>3, <1>4 DEF Reached
  <2>5. c = NoNode
    <3> SUFFICES ASSUME c # NoNode PROVE FALSE
      OBVIOUS
    <3>1. c \in Used(node) /\ ~ node[c].red
      BY <1>1, <1>3, <2>3, <2>4, BelowIs DEF InTree, nodeIsRed
    <3>2. c \in Link /\ q \in Link /\ node[c].link[0] \in Link /\ 0 \in Dir
      BY <3>1, <2>3, NodeFields, Places DEF Used, Link
    <3>3. H[c] \in Nat /\ H[q] \in Nat /\ H[NoNode] = 1 /\ H[node[c].link[0]] \in Nat \ {0}
      BY <3>2, <1>2 DEF OfHeight, Heights
    <3>4. H[c] = H[node[c].link[0]] + 1
      BY <3>1, <3>2, <1>2 DEF OfHeight, HeightAt
    <3>5. H[q] = H[NoNode] + (IF node[q].red THEN 0 ELSE 1) /\ H[q] = H[c] + (IF node[q].red THEN 0 ELSE 1)
      BY <1>2, <1>3, <2>3 DEF OfHeight, HeightAt
    <3> HIDE DEF c
    <3>6. H[c] = 1
      BY <3>3, <3>5
    <3> QED BY <3>3, <3>4, <3>6
  <2>6. \A x \in Dir : node[q].link[x] = NoNode
    BY <2>5, <1>3
  <2>7. f # q => B[q][1] = node[f].text
    <3>1. Edge(node, B, q, d, 1) = node[f].text
      BY <2>1 DEF FoundAt
    <3>2. CASE d = 1
      BY <3>1, <3>2 DEF Edge
    <3>3. CASE d # 1
      <4>1. node[q].text = node[f].text
        BY <3>1, <3>3 DEF Edge
      <4> QED BY <4>1, <1>1, <2>1, <2>3 DEF InOrder, Distinct
    <3> QED BY <3>2, <3>3
  <2>8. e = DirOf(node[g].link[1] = q)
    BY <1>1, <2>2, DirIs
  <2>9. /\ h2 \in Nodes /\ Cut(node, h2, g, e, q, f)
        /\ \A m \in Place : m \notin {g, q, f} => h2[m] = node[m]
    BY <2>1, <2>3, <2>6, <2>8, SeveredIs
  <2>10. InOrder(h2, MovedBounds(node, B, q, f)) /\ Used(h2) = Used(node) \ {q}
    BY <1>1, <2>1, <2>2, <2>6, <2>7, <2>9, CutKeepsOrder DEF FoundAt
  <2>11. OfHeight(h2, H) /\ Coloured(h2) /\ Clean(h2)
    BY <1>1, <1>2, <1>3, <2>1, <2>2, <2>4, <2>6, <2>9, <2>10, CutKeepsColours
  <2>12. Members(h2) = {m \in Members(node) : m[1] # t}
    BY <1>1, <2>1, <2>3, <2>9, <2>10, CutMembers
  <2> QED BY <2>10, <2>11, <2>12 DEF RedBlack
<1> QED BY <1>5, <1>6

-----------------------------------------------------------------------------
(* The tree, and what is known of it while a call walks down.  After malloc *)
(* failed at the bottom nothing is promised of it.                          *)
Walking ==
  \/ walk = NoCallRuns /\ IdleAt(node, root)
  \/ walk.op = "insert" /\ Inserting(node, walk)
  \/ walk.op = "remove" /\ Removing(node, walk)
TreeInv ==
  \/ lost /\ walk = NoCallRuns
  \/ ~ lost /\ universe = Members(node) /\ Walking

(* The end of a call: the root is black and nobody walks. *)
LEMMA CallEndsKeeps ==
  ASSUME NEW h, RedBlack(h), CallEnds(h)
  PROVE  walk' = NoCallRuns /\ IdleAt(node', root') /\ Members(node') = Members(h)
<1>1. PICK B : InOrder(h, B)
  BY DEF RedBlack
<1>2. PICK H : OfHeight(h, H)
  BY DEF RedBlack
<1>3. /\ walk' = NoCallRuns /\ root' = h[Top].link[1]
      /\ node' = Ended(h, root')
  BY DEF CallEnds, Ended
<1>4. Coloured(h) /\ Clean(h)
  BY DEF RedBlack
<1> QED BY <1>1, <1>2, <1>3, <1>4, EndKeeps

(* Which call runs is in walk.op. *)
LEMMA WhoWalks ==
  ASSUME TreeInv
  PROVE  /\ walk = NoCallRuns => walk.op = "none"
         /\ walk = NoCallRuns /\ ~ lost => IdleAt(node, root) /\ universe = Members(node)
         /\ walk.op = "insert" => ~ lost /\ Inserting(node, walk) /\ universe = Members(node)
         /\ walk.op = "remove" => ~ lost /\ Removing(node, walk) /\ universe = Members(node)
<1>1. walk = NoCallRuns => walk.op = "none"
  BY DEF NoCallRuns
<1>2. Inserting(node, walk) => walk.op = "insert"
  BY DEF Inserting, InsertWalk, InsertWalks
<1>3. Removing(node, walk) => walk.op = "remove"
  BY DEF Removing, RemoveWalk, RemoveWalks
<1> QED BY <1>1, <1>2, <1>3 DEF TreeInv, Walking

(* radtextsearchInsert keeps the invariant. *)
LEMMA InsertBegins ==
  ASSUME TreeInv, NEW text, NEW ordinal, <<text, ordinal>> \in Member, radtextsearchInsert(text, ordinal)
  PROVE  TreeInv'
<1>1. walk = NoCallRuns /\ ~ lost /\ IdleAt(node, root) /\ universe = Members(node) /\ ~ lost'
  BY WhoWalks DEF radtextsearchInsert
<1>2. text \in Nat \ {0} /\ ordinal \in Nat
  BY TextSearchAssumption
<1>3. CASE root = NoNode
  <2> DEFINE n == Min(Unused)
  <2>1. /\ Unused # {} /\ root' = n /\ node' = WithFirst(node, n, text, ordinal) /\ walk' = NoCallRuns
        /\ universe' = universe \cup {<<text, ordinal>>}
    BY <1>1, <1>3 DEF radtextsearchInsert, WithFirst
  <2>2. IdleAt(node, NoNode)
    BY <1>1, <1>3
  <2> HIDE DEF n
  <2>3. n = Min(Unused)
    BY DEF n
  <2>4. IdleAt(node', n) /\ Members(node') = Members(node) \cup {<<text, ordinal>>}
    BY <1>2, <2>1, <2>2, <2>3, InsertFirst
  <2> QED BY <1>1, <2>1, <2>4 DEF TreeInv, Walking
<1>4. CASE root # NoNode
  <2>1. /\ node' = Hooked(node, root) /\ universe' = universe
        /\ walk' = [op |-> "insert", text |-> text, ordinal |-> ordinal, t |-> Top,
                    gparent |-> NoNode, parent |-> NoNode, q |-> root, dir |-> 0, last |-> 0]
    BY <1>4 DEF radtextsearchInsert, Hooked
  <2>2. Inserting(node', walk') /\ Members(node') = Members(node)
    BY <1>1, <1>2, <1>4, <2>1, InsertStarts
  <2>3. walk'.op = "insert"
    BY <2>1
  <2> QED BY <1>1, <2>1, <2>2, <2>3 DEF TreeInv, Walking
<1> QED BY <1>3, <1>4

(* An iteration of an insert keeps it. *)
LEMMA InsertGoesOn ==
  ASSUME TreeInv, InsertStep
  PROVE  TreeInv'
<1>1. /\ walk.op = "insert" /\ ~ lost /\ Inserting(node, walk) /\ universe = Members(node) /\ ~ lost'
      /\ walk.q = NoNode => Unused # {}
  BY WhoWalks DEF InsertStep
<1> DEFINE q == Grown.q
           h == FixedRed(Grown.nodes, q)
<1>2. /\ h[q].text = walk.text =>
           /\ CallEnds(h)
           /\ universe' = IF walk.text \in Texts THEN universe ELSE universe \cup {<<walk.text, walk.ordinal>>}
      /\ h[q].text # walk.text => node' = h /\ walk' = Onward(walk, h, q) /\ universe' = universe
  BY DEF InsertStep, Onward
<1> HIDE DEF h, q
<1>3. q = Grown.q /\ h = FixedRed(Grown.nodes, q)
  BY DEF h, q
<1>4. CASE walk.q = NoNode
  <2>1. /\ RedBlack(h) /\ h[q].text = walk.text
        /\ Members(h) = Members(node) \cup {<<walk.text, walk.ordinal>>}
        /\ \A m \in Used(node) : node[m].text # walk.text
    BY <1>1, <1>3, <1>4, InsertAtBottom
  <2>2. walk.text \notin Texts
    BY <1>1, <2>1 DEF Texts, Members
  <2>3. universe' = Members(h) /\ CallEnds(h)
    BY <1>1, <1>2, <2>1, <2>2
  <2>4. walk' = NoCallRuns /\ IdleAt(node', root') /\ Members(node') = Members(h)
    BY <2>1, <2>3, CallEndsKeeps
  <2> QED BY <1>1, <2>3, <2>4 DEF TreeInv, Walking
<1>5. CASE walk.q # NoNode
  <2>1. /\ RedBlack(h) /\ q \in Used(node) /\ Used(h) = Used(node)
        /\ \A m \in Place : h[m].text = node[m].text /\ h[m].ordinal = node[m].ordinal
        /\ walk.text # h[q].text => Inserting(h, Onward(walk, h, q))
    BY <1>1, <1>3, <1>5, InsertAtNode
  <2>2. Members(h) = Members(node)
    BY <2>1, SameMembers
  <2>3. CASE h[q].text = walk.text
    <3>1. q \in Place /\ node[q].text = walk.text
      BY <2>1, <2>3, Places DEF Used
    <3>2. walk.text \in Texts
      <4>1. <<node[q].text, node[q].ordinal>> \in universe
        BY <1>1, <2>1 DEF Members
      <4>2. <<node[q].text, node[q].ordinal>>[1] = walk.text
        BY <3>1
      <4> QED BY <4>1, <4>2 DEF Texts
    <3>3. universe' = Members(h) /\ CallEnds(h)
      BY <1>1, <1>2, <2>2, <2>3, <3>2
    <3>4. walk' = NoCallRuns /\ IdleAt(node', root') /\ Members(node') = Members(h)
      BY <2>1, <3>3, CallEndsKeeps
    <3> QED BY <1>1, <3>3, <3>4 DEF TreeInv, Walking
  <2>4. CASE h[q].text # walk.text
    <3>1. node' = h /\ walk' = Onward(walk, h, q) /\ universe' = universe
      BY <1>2, <2>4
    <3>2. Inserting(node', walk')
      BY <2>1, <2>4, <3>1
    <3>3. walk'.op = "insert"
      BY <3>2 DEF Inserting, InsertWalk, InsertWalks
    <3>4. universe' = Members(node')
      BY <1>1, <2>2, <3>1
    <3> QED BY <1>1, <3>2, <3>3, <3>4 DEF TreeInv, Walking
  <2> QED BY <2>3, <2>4
<1> QED BY <1>4, <1>5

(* radtextsearchRemove keeps it. *)
LEMMA RemoveBegins ==
  ASSUME TreeInv, NEW text \in {AnyText} \cup (Nat \ {0}), radtextsearchRemove(text)
  PROVE  TreeInv'
<1>1. /\ walk = NoCallRuns /\ ~ lost /\ IdleAt(node, root) /\ universe = Members(node) /\ ~ lost' /\ root # NoNode
      /\ node' = Hooked(node, root) /\ universe' = universe
      /\ walk' = [op |-> "remove", text |-> text, gparent |-> NoNode, parent |-> NoNode, q |-> Top,
                  dir |-> 1, last |-> 1, found |-> NoNode]
  BY WhoWalks DEF radtextsearchRemove, Hooked
<1>2. Removing(node', walk') /\ Members(node') = Members(node)
  BY <1>1, RemoveStarts
<1>3. walk'.op = "remove"
  BY <1>1
<1> QED BY <1>1, <1>2, <1>3 DEF TreeInv, Walking

(* An iteration of a removal keeps it. *)
LEMMA RemoveGoesOn ==
  ASSUME TreeInv, RemoveStep
  PROVE  TreeInv'
<1> DEFINE p == walk.q
           l == walk.dir
           q == node[p].link[l]
           d == DirOf(walk.text # AnyText /\ walk.text > node[q].text)
           h2 == Pushed(walk.parent, p, q, d, l).nodes
           parent == Pushed(walk.parent, p, q, d, l).parent
           w2 == Downward(walk, q, node, parent)
<1>1. /\ walk.op = "remove" /\ ~ lost /\ Removing(node, walk) /\ universe = Members(node) /\ ~ lost'
      /\ q # NoNode /\ universe' = universe
  BY WhoWalks DEF RemoveStep
<1>2. node' = h2 /\ walk' = w2
  BY DEF RemoveStep, Downward
<1>3. Under(node, p, l, q)
  BY <1>1 DEF Removing, RemoveWalk, RemoveWalks, Under
<1>4. p = walk.q /\ l = walk.dir /\ d = DirOf(walk.text # AnyText /\ walk.text > node[q].text)
      /\ h2 = Pushed(walk.parent, p, q, d, l).nodes /\ parent = Pushed(walk.parent, p, q, d, l).parent
      /\ w2 = Downward(walk, q, node, parent)
  OBVIOUS
<1> HIDE DEF p, l, q, d, h2, parent, w2
<1>5. Removing(h2, w2) /\ Members(h2) = Members(node)
  BY <1>1, <1>3, <1>4, RemoveKeeps
<1>6. walk'.op = "remove"
  BY <1>2, <1>5 DEF Removing, RemoveWalk, RemoveWalks
<1> QED BY <1>1, <1>2, <1>5, <1>6 DEF TreeInv, Walking

(* The end of a removal keeps it. *)
LEMMA RemoveIsOver ==
  ASSUME TreeInv, RemoveEnds
  PROVE  TreeInv'
<1> DEFINE q == walk.q
           f == walk.found
           h2 == IF f = NoNode THEN node ELSE Severed(node, walk.parent, q, f)
           t == IF walk.text = AnyText THEN node[f].text ELSE walk.text
<1>1. /\ walk.op = "remove" /\ ~ lost /\ Removing(node, walk) /\ universe = Members(node) /\ ~ lost'
      /\ node[q].link[walk.dir] = NoNode /\ universe' = {m \in universe : m[1] # t}
  BY WhoWalks DEF RemoveEnds
<1>2. CallEnds(h2)
  BY DEF RemoveEnds, Severed
<1> HIDE DEF q, f, h2, t
<1>3. RedBlack(h2) /\ Members(h2) = {m \in Members(node) : m[1] # t}
  BY <1>1, RemoveEndsKeeps DEF q, f, h2, t
<1>4. walk' = NoCallRuns /\ IdleAt(node', root') /\ Members(node') = Members(h2)
  BY <1>2, <1>3, CallEndsKeeps
<1>5. universe' = Members(node')
  BY <1>1, <1>3, <1>4
<1> QED BY <1>1, <1>4, <1>5 DEF TreeInv, Walking

(* Every step keeps the invariant. *)
LEMMA TreeStep ==
  ASSUME TreeInv, [TreeNext]_treeVars
  PROVE  TreeInv'
<1>1. CASE \E m \in Member : radtextsearchInsert(m[1], m[2]) \/ radtextsearchRemove(m[1])
  <2>1. PICK m \in Member : radtextsearchInsert(m[1], m[2]) \/ radtextsearchRemove(m[1])
    BY <1>1
  <2>2. m[1] \in Nat \ {0} /\ <<m[1], m[2]>> \in Member
    BY TextSearchAssumption
  <2> QED BY <2>1, <2>2, InsertBegins, RemoveBegins
<1>2. CASE radtextsearchRemove(AnyText)
  BY <1>2, RemoveBegins
<1>3. CASE InsertStep
  BY <1>3, InsertGoesOn
<1>4. CASE InsertFails
  BY <1>4 DEF InsertFails, TreeInv
<1>5. CASE RemoveStep
  BY <1>5, RemoveGoesOn
<1>6. CASE RemoveEnds
  BY <1>6, RemoveIsOver
<1>7. CASE UNCHANGED treeVars
  BY <1>7 DEF treeVars, TreeInv, Walking
<1> QED BY <1>1, <1>2, <1>3, <1>4, <1>5, <1>6, <1>7 DEF TreeNext

-----------------------------------------------------------------------------
(* What holds of a node whenever it holds of those under it holds of all:  *)
(* 2 * height, and 1 more for a red node, is less under a node.            *)
LEMMA TreeInduction ==
  ASSUME NEW h, NEW B, NEW H, InOrder(h, B), OfHeight(h, H), Coloured(h), NEW S,
         \A n \in Used(h) : (\A d \in Dir : h[n].link[d] \in S \cup {NoNode}) => n \in S
  PROVE  Used(h) \subseteq S
<1> DEFINE Rank(n) == 2 * H[n] + (IF h[n].red THEN 1 ELSE 0)
           R == {Rank(n) : n \in Used(h) \ S}
<1>1. \A n \in Used(h) : n \in Place /\ n \in Link /\ n \in InTree(h) /\ H[n] \in Nat
  BY Places DEF Used, Link, InTree, OfHeight, Heights
<1>2. R \in SUBSET Nat
  BY <1>1
<1> SUFFICES ASSUME R # {} PROVE FALSE
  OBVIOUS
<1>3. PICK x \in R : \A y \in R : x <= y
  BY <1>2, LeastIn
<1>4. PICK n \in Used(h) \ S : x = Rank(n)
  BY <1>3
<1>5. PICK d \in Dir : h[n].link[d] \notin S /\ h[n].link[d] # NoNode
  BY <1>4
<1> DEFINE c == h[n].link[d]
<1>6. c \in Used(h)
  BY <1>1, <1>4, <1>5, BelowIs
<1>7. H[n] = H[c] + (IF h[n].red THEN 0 ELSE 1) /\ (h[n].red => ~ h[c].red)
  BY <1>4, <1>5 DEF OfHeight, HeightAt, Coloured, nodeIsRed
<1>8. Rank(c) \in R
  BY <1>5, <1>6
<1> HIDE DEF c, R
<1>9. Rank(c) < Rank(n)
  BY <1>1, <1>4, <1>6, <1>7
<1> HIDE DEF Rank
<1>10. Rank(n) \in Nat /\ Rank(c) \in Nat /\ Rank(n) <= Rank(c)
  BY <1>1, <1>3, <1>4, <1>6, <1>8 DEF Rank
<1> QED BY <1>9, <1>10

(* The tree between calls: its nodes, without the false root. *)
LEMMA IdleIs ==
  ASSUME IdleAt(node, root), NEW h, h = Hooked(node, root)
  PROVE  /\ RedBlack(h) /\ node \in Nodes /\ root \in Link /\ ~ nodeIsRed(node, root)
         /\ h[Top].link[1] = root /\ Used(h) = Used(node) /\ Members(h) = Members(node)
         /\ \A n \in Allocated : n \in Place /\ n \in Link /\ n # NoNode /\ n # Top /\ h[n] = node[n]
         /\ \A n \in Used(node) : n \in Allocated /\ n \in InTree(h)
         /\ \A n \in Allocated : n \notin Used(node) <=> node[n] = Free
<1>1. node \in Nodes /\ root \in Link /\ RedBlack(h) /\ ~ nodeIsRed(node, root)
  BY DEF IdleAt
<1>2. /\ h[Top].link[1] = root /\ Used(h) = Used(node) /\ Members(h) = Members(node)
      /\ \A m \in Place : m # Top => h[m] = node[m]
  BY <1>1, HookedIs
<1>3. \A n \in Allocated : n \in Place /\ n \in Link /\ n # NoNode /\ n # Top /\ h[n] = node[n]
  BY <1>2, Places DEF Link
<1>4. \A n \in Used(node) : n \in Allocated /\ n \in InTree(h)
  BY <1>2 DEF InTree, Used
<1>5. ASSUME NEW n \in Allocated PROVE n \notin Used(node) <=> node[n] = Free
  <2>1. node[n].text = 0 => node[n] = Free
    BY <1>1, <1>3 DEF RedBlack, Clean
  <2>2. node[n] = Free => node[n].text = 0
    BY DEF Free
  <2> QED BY <2>1, <2>2 DEF Used
<1> QED BY <1>1, <1>2, <1>3, <1>4, <1>5

(* One step of the recursion of radtextsearchDebug. *)
HeightFrom(f, n) ==
  IF n = NoNode THEN 1
  ELSE LET below == [d \in Dir |-> f[node[n].link[d]]]
           left == node[n].link[0]
           right == node[n].link[1]
       IN  IF \/ nodeIsRed(node, n) /\ (nodeIsRed(node, left) \/ nodeIsRed(node, right))
              \/ left # NoNode /\ node[left].text >= node[n].text
              \/ right # NoNode /\ node[n].text >= node[right].text
              \/ below[0] = 0 \/ below[0] # below[1]
           THEN 0
           ELSE IF nodeIsRed(node, n) THEN below[0] ELSE below[0] + 1
IsHeight(f) == f = [n \in Allocated \cup {NoNode} |-> HeightFrom(f, n)]

(* radtextsearchDebug is a function that has HeightFrom at every node. *)
LEMMA DebugIs == radtextsearchDebug = (CHOOSE f : IsHeight(f))[root]
BY Zenon DEF radtextsearchDebug, IsHeight, HeightFrom

(* It gives the height when it gave those under the node. *)
LEMMA HeightFromIs ==
  ASSUME IdleAt(node, root), NEW B, NEW H, InOrder(Hooked(node, root), B), OfHeight(Hooked(node, root), H),
         NEW f, NEW n \in Used(node), \A d \in Dir : f[node[n].link[d]] = H[node[n].link[d]]
  PROVE  HeightFrom(f, n) = H[n]
<1> DEFINE h == Hooked(node, root)
           l == node[n].link[0]
           r == node[n].link[1]
<1>1. h = Hooked(node, root) /\ InOrder(h, B) /\ OfHeight(h, H)
  OBVIOUS
<1> HIDE DEF h
<1>2. /\ RedBlack(h) /\ Used(h) = Used(node) /\ n \in Allocated /\ n \in InTree(h) /\ n # NoNode /\ h[n] = node[n]
      /\ \A m \in Allocated : h[m] = node[m] /\ m \in Link
      /\ n \in Place /\ n \in Link /\ node \in Nodes /\ 0 \in Dir /\ 1 \in Dir
  BY <1>1, IdleIs, Places
<1>3. \A d \in Dir : node[n].link[d] \in Link /\ (node[n].link[d] # NoNode =>
        node[n].link[d] \in Used(node) /\ h[node[n].link[d]] = node[node[n].link[d]])
  <2>1. \A d \in Dir : node[n].link[d] \in Link
    BY <1>2, NodeFields
  <2>2. \A d \in Dir : node[n].link[d] # NoNode => node[n].link[d] \in Used(node)
    BY <1>1, <1>2, BelowIs
  <2> QED BY <2>1, <2>2, <1>2 DEF Used
<1>4. ~ (nodeIsRed(node, n) /\ (nodeIsRed(node, l) \/ nodeIsRed(node, r)))
  BY <1>2, <1>3 DEF RedBlack, Coloured, nodeIsRed
<1>5. (l # NoNode => node[l].text < node[n].text) /\ (r # NoNode => node[n].text < node[r].text)
  <2>1. l # NoNode => h[l].text < h[n].text
    BY <1>1, <1>2, BelowIs
  <2>2. r # NoNode => h[n].text < h[r].text
    BY <1>1, <1>2, BelowIs
  <2> QED BY <2>1, <2>2, <1>2, <1>3
<1>6. /\ H[n] \in Nat /\ H[l] \in Nat \ {0} /\ H[r] \in Nat \ {0} /\ H[l] = H[r]
      /\ H[n] = H[l] + (IF node[n].red THEN 0 ELSE 1)
  <2>1. \A d \in Dir : H[n] = H[node[n].link[d]] + (IF node[n].red THEN 0 ELSE 1)
    BY <1>1, <1>2 DEF OfHeight, HeightAt
  <2>2. H[n] \in Nat /\ H[l] \in Nat \ {0} /\ H[r] \in Nat \ {0}
    BY <1>1, <1>2, <1>3 DEF OfHeight, Heights
  <2> HIDE DEF l, r
  <2>3. H[n] = H[l] + (IF node[n].red THEN 0 ELSE 1) /\ H[n] = H[r] + (IF node[n].red THEN 0 ELSE 1)
    BY <2>1, <1>2 DEF l, r
  <2> QED BY <2>2, <2>3
<1>7. f[l] = H[l] /\ f[r] = H[r]
  BY <1>2
<1>8. \A m \in Allocated : node[m].text \in Nat
  BY <1>2, NodeFields, Places
<1>9. (l # NoNode => ~ (node[l].text >= node[n].text)) /\ (r # NoNode => ~ (node[n].text >= node[r].text))
  BY <1>2, <1>3, <1>5, <1>8 DEF Used
<1> HIDE DEF l, r
<1>10. HeightFrom(f, n) = IF \/ nodeIsRed(node, n) /\ (nodeIsRed(node, l) \/ nodeIsRed(node, r))
                             \/ l # NoNode /\ node[l].text >= node[n].text
                             \/ r # NoNode /\ node[n].text >= node[r].text
                             \/ f[l] = 0 \/ f[l] # f[r]
                          THEN 0
                          ELSE IF nodeIsRed(node, n) THEN f[l] ELSE f[l] + 1
  BY <1>2 DEF HeightFrom, l, r
<1>11. HeightFrom(f, n) = IF nodeIsRed(node, n) THEN H[l] ELSE H[l] + 1
  BY <1>4, <1>6, <1>7, <1>9, <1>10
<1>12. nodeIsRed(node, n) <=> node[n].red
  BY <1>2 DEF nodeIsRed
<1> QED BY <1>6, <1>11, <1>12

(* radtextsearchDebug finds a red-black tree between calls. *)
LEMMA DebugHolds ==
  ASSUME IdleAt(node, root)
  PROVE  radtextsearchDebug # 0
<1> DEFINE h == Hooked(node, root)
           f == CHOOSE x : IsHeight(x)
<1>1. h = Hooked(node, root) /\ RedBlack(h)
  BY DEF IdleAt
<1> HIDE DEF h
<1>2. PICK B : InOrder(h, B)
  BY <1>1 DEF RedBlack
<1>3. PICK H : OfHeight(h, H)
  BY <1>1 DEF RedBlack
<1>4. /\ node \in Nodes /\ root \in Link /\ h[Top].link[1] = root /\ Used(h) = Used(node) /\ Coloured(h)
      /\ \A n \in Allocated : n \in Place /\ n \in Link /\ n # NoNode /\ h[n] = node[n]
      /\ \A n \in Used(node) : n \in Allocated /\ n \in InTree(h)
      /\ \A n \in Allocated : n \notin Used(node) => node[n] = Free
  BY <1>1, IdleIs DEF RedBlack
<1>5. \A n \in Link : H[n] \in Nat \ {0}
  BY <1>3 DEF OfHeight, Heights
<1>6. H[NoNode] = 1 /\ NoNode \in Link
  BY <1>3 DEF OfHeight, Link
<1>7. ASSUME NEW n \in Used(node), NEW d \in Dir
      PROVE  node[n].link[d] \in Used(node) \cup {NoNode}
  BY <1>2, <1>4, BelowIs
(* The heights are what it gives. *)
<1> DEFINE F == [n \in Link |-> IF n \in Used(node) \cup {NoNode} THEN H[n] ELSE 2]
<1>8. IsHeight(F)
  <2>1. \A n \in Link : F[n] = IF n \in Used(node) \cup {NoNode} THEN H[n] ELSE 2
    OBVIOUS
  <2>2. F = [n \in Link |-> F[n]]
    OBVIOUS
  <2> HIDE DEF F
  <2>3. ASSUME NEW n \in Link PROVE F[n] = HeightFrom(F, n)
    <3>1. CASE n = NoNode
      BY <3>1, <2>1, <1>6 DEF HeightFrom
    <3>2. CASE n \in Used(node)
      <4>1. \A d \in Dir : F[node[n].link[d]] = H[node[n].link[d]]
        BY <3>2, <1>4, <1>6, <1>7, <2>1
      <4>2. HeightFrom(F, n) = H[n]
        BY <3>2, <4>1, <1>1, <1>2, <1>3, HeightFromIs
      <4> QED BY <3>2, <4>2, <2>1
    <3>3. CASE n \in Allocated \ Used(node)
      <4>1. node[n] = Free /\ n # NoNode /\ F[n] = 2 /\ F[NoNode] = 1
        BY <3>3, <1>4, <1>6, <2>1
      <4>2. node[n].red = FALSE /\ \A d \in Dir : node[n].link[d] = NoNode
        BY <4>1 DEF Free
      <4>3. 0 \in Dir /\ 1 \in Dir /\ node[n].link[0] = NoNode /\ node[n].link[1] = NoNode
        BY <4>2, Places
      <4>4. \A d \in Dir : F[node[n].link[d]] = 1
        BY <4>1, <4>2
      <4>5. HeightFrom(F, n) = 2
        BY <4>1, <4>2, <4>3, <4>4 DEF HeightFrom, nodeIsRed
      <4> QED BY <4>1, <4>5
    <3> QED BY <3>1, <3>2, <3>3 DEF Link
  <2> QED BY <2>2, <2>3 DEF IsHeight, Link
<1>9. IsHeight(f)
  BY <1>8
<1>10. radtextsearchDebug = f[root]
  BY DebugIs
<1> HIDE DEF f, F
<1>11. \A n \in Link : f[n] = HeightFrom(f, n)
  BY <1>9 DEF IsHeight, Link
<1>12. f[NoNode] = H[NoNode]
  BY <1>6, <1>11 DEF HeightFrom
<1> DEFINE S == {n \in Used(node) : f[n] = H[n]}
<1>13. Used(node) \subseteq S
  <2>1. ASSUME NEW n \in Used(node), \A d \in Dir : node[n].link[d] \in S \cup {NoNode} PROVE n \in S
    <3>1. \A d \in Dir : f[node[n].link[d]] = H[node[n].link[d]]
      BY <2>1, <1>12
    <3>2. HeightFrom(f, n) = H[n]
      BY <3>1, <1>1, <1>2, <1>3, HeightFromIs
    <3> QED BY <3>2, <1>4, <1>11
  <2> HIDE DEF S
  <2>2. \A n \in Used(h) : (\A d \in Dir : h[n].link[d] \in S \cup {NoNode}) => n \in S
    BY <2>1, <1>4
  <2>3. Used(h) \subseteq S
    BY <2>2, <1>2, <1>3, <1>4, TreeInduction
  <2> QED BY <2>3, <1>4
<1>14. root \in Used(node) \cup {NoNode}
  <2>1. Top \in InTree(h) /\ 1 \in Dir
    BY Places DEF InTree
  <2> QED BY <2>1, <1>2, <1>4, BelowIs
<1>15. f[root] = H[root]
  BY <1>12, <1>13, <1>14
<1> QED BY <1>4, <1>5, <1>10, <1>15

(* One step of the search of radtextsearchFind. *)
FoundFrom(f, text, n) ==
  IF n = NoNode THEN {}
  ELSE IF node[n].text = text THEN {<<text, node[n].ordinal>>}
  ELSE f[node[n].link[DirOf(text > node[n].text)]]
IsFind(f, text) == f = [n \in Allocated \cup {NoNode} |-> FoundFrom(f, text, n)]

(* radtextsearchFind is a function that has FoundFrom at every node. *)
LEMMA FindIs == ASSUME NEW text PROVE radtextsearchFind(text) = (CHOOSE f : IsFind(f, text))[root]
BY Zenon DEF radtextsearchFind, IsFind, FoundFrom

(* What a search from n is to find. *)
Found(B, text, n) ==
  IF n \in Used(node) /\ Within(B[n], text) THEN {u \in Members(node) : u[1] = text} ELSE {}

(* It finds what is there when the searches from the nodes under it do. *)
LEMMA FoundFromIs ==
  ASSUME IdleAt(node, root), NEW B, InOrder(Hooked(node, root), B), NEW text \in Nat \ {0}, NEW f,
         NEW n \in Used(node), \A d \in Dir : f[node[n].link[d]] = Found(B, text, node[n].link[d])
  PROVE  FoundFrom(f, text, n) = Found(B, text, n)
<1> DEFINE h == Hooked(node, root)
           d == DirOf(text > node[n].text)
           c == node[n].link[d]
           T == {u \in Members(node) : u[1] = text}
<1>1. h = Hooked(node, root) /\ InOrder(h, B)
  OBVIOUS
<1> HIDE DEF h
<1>2. /\ Used(h) = Used(node) /\ n \in InTree(h) /\ n \in Used(h) /\ n # NoNode /\ h[n] = node[n] /\ node \in Nodes
      /\ \A m \in Used(node) : m \in Allocated /\ m \in Place /\ h[m] = node[m]
  BY <1>1, IdleIs
<1>3. /\ d \in Dir /\ node[n].text \in Nat /\ Within(B[n], node[n].text) /\ NoNode \notin Used(node)
      /\ f[c] = Found(B, text, c)
  <2>1. d \in Dir
    BY Places DEF DirOf
  <2> QED BY <2>1, <1>1, <1>2, NodeFields, Places DEF InOrder, Bounded
<1>4. CASE node[n].text = text
  <2>1. Found(B, text, n) = T
    BY <1>3, <1>4 DEF Found
  <2>2. FoundFrom(f, text, n) = {<<text, node[n].ordinal>>}
    BY <1>2, <1>4 DEF FoundFrom
  <2>3. <<text, node[n].ordinal>> \in T
    BY <1>4 DEF Members
  <2>4. ASSUME NEW u \in T PROVE u = <<text, node[n].ordinal>>
    <3>1. PICK m \in Used(node) : u = <<node[m].text, node[m].ordinal>>
      BY DEF Members
    <3>2. node[m].text = node[n].text
      BY <2>4, <3>1, <1>4
    <3>3. m = n
      BY <3>2, <1>1, <1>2 DEF InOrder, Distinct
    <3> QED BY <3>1, <3>3, <1>4
  <2> HIDE DEF T
  <2> QED BY <2>1, <2>2, <2>3, <2>4
<1>5. CASE node[n].text # text
  <2>1. FoundFrom(f, text, n) = Found(B, text, c)
    BY <1>2, <1>3, <1>5 DEF FoundFrom
  <2>2. Within(B[n], text) <=> InPart(h, B, n, d, text)
    BY <1>1, <1>2, <1>3, <1>5, PartsOf
  <2>3. CASE c # NoNode
    <3>0. n \in InTree(h) /\ d \in Dir /\ h[n].link[d] # NoNode /\ h[n].link[d] = c /\ InOrder(h, B)
      BY <2>3, <1>1, <1>2, <1>3
    <3>1. c \in Used(node)
      <4>1. h[n].link[d] \in Used(h)
        BY <3>0, BelowIs
      <4> QED BY <4>1, <3>0, <1>2
    <3>2. Within(B[c], text) <=> InPart(h, B, n, d, text)
      <4>1. Within(B[h[n].link[d]], text) <=> InPart(h, B, n, d, text)
        BY <3>0, BelowIs
      <4> QED BY <4>1, <3>0
    <3> HIDE DEF c, d
    <3> QED BY <2>1, <2>2, <3>1, <3>2 DEF Found
  <2>4. CASE c = NoNode
    <3>1. Found(B, text, c) = {}
      BY <2>4, <1>3 DEF Found
    <3>2. \A m \in Used(node) : ~ InPart(h, B, n, d, node[m].text)
      BY <2>4, <1>1, <1>2, <1>3 DEF InOrder, Bare
    <3> HIDE DEF d, c
    <3>3. Within(B[n], text) => T = {}
      BY <2>2, <3>2 DEF Members
    <3>4. Found(B, text, n) = {}
      BY <3>3 DEF Found
    <3> QED BY <2>1, <3>1, <3>4
  <2> QED BY <2>3, <2>4
<1> QED BY <1>4, <1>5

(* A search from the root finds the members with the text. *)
LEMMA FindHolds ==
  ASSUME IdleAt(node, root), NEW text \in Nat \ {0}
  PROVE  radtextsearchFind(text) = {u \in Members(node) : u[1] = text}
<1> DEFINE h == Hooked(node, root)
           f == CHOOSE x : IsFind(x, text)
<1>1. h = Hooked(node, root) /\ RedBlack(h)
  BY DEF IdleAt
<1> HIDE DEF h
<1>2. PICK B : InOrder(h, B)
  BY <1>1 DEF RedBlack
<1>3. PICK H : OfHeight(h, H)
  BY <1>1 DEF RedBlack
<1>4. /\ node \in Nodes /\ root \in Link /\ h[Top].link[1] = root /\ Used(h) = Used(node) /\ Coloured(h)
      /\ \A n \in Allocated : n \in Place /\ n \in Link /\ n # NoNode /\ h[n] = node[n]
      /\ \A n \in Used(node) : n \in Allocated /\ n \in InTree(h)
      /\ \A n \in Allocated : n \notin Used(node) => node[n] = Free
  BY <1>1, IdleIs DEF RedBlack
<1>5. NoNode \in Link /\ NoNode \notin Used(node) /\ Found(B, text, NoNode) = {}
  BY <1>4 DEF Link, Found
<1>6. ASSUME NEW n \in Used(node), NEW d \in Dir
      PROVE  node[n].link[d] \in Used(node) \cup {NoNode}
  BY <1>2, <1>4, BelowIs
<1> DEFINE F == [n \in Link |-> Found(B, text, n)]
<1>7. IsFind(F, text)
  <2>1. \A n \in Link : F[n] = Found(B, text, n)
    OBVIOUS
  <2>2. F = [n \in Link |-> F[n]]
    OBVIOUS
  <2> HIDE DEF F
  <2>3. ASSUME NEW n \in Link PROVE F[n] = FoundFrom(F, text, n)
    <3>1. CASE n = NoNode
      BY <3>1, <2>1, <1>5 DEF FoundFrom
    <3>2. CASE n \in Used(node)
      <4>1. \A d \in Dir : F[node[n].link[d]] = Found(B, text, node[n].link[d])
        BY <3>2, <1>4, <1>5, <1>6, <2>1
      <4>2. FoundFrom(F, text, n) = Found(B, text, n)
        BY <3>2, <4>1, <1>1, <1>2, FoundFromIs
      <4> QED BY <4>2, <2>1
    <3>3. CASE n \in Allocated \ Used(node)
      <4>1. node[n] = Free /\ n # NoNode /\ F[n] = {} /\ F[NoNode] = {}
        BY <3>3, <1>4, <1>5, <2>1 DEF Found
      <4>2. node[n].text = 0 /\ \A d \in Dir : node[n].link[d] = NoNode
        BY <4>1 DEF Free
      <4>3. DirOf(text > node[n].text) \in Dir
        BY Places DEF DirOf
      <4>4. node[n].link[DirOf(text > node[n].text)] = NoNode
        BY <4>2, <4>3
      <4> QED BY <4>1, <4>2, <4>4 DEF FoundFrom
    <3> QED BY <3>1, <3>2, <3>3 DEF Link
  <2> QED BY <2>2, <2>3 DEF IsFind, Link
<1>8. IsFind(f, text)
  BY <1>7
<1>9. radtextsearchFind(text) = f[root]
  BY FindIs
<1> HIDE DEF f, F
<1>10. \A n \in Link : f[n] = FoundFrom(f, text, n)
  BY <1>8 DEF IsFind, Link
<1>11. f[NoNode] = Found(B, text, NoNode)
  BY <1>5, <1>10 DEF FoundFrom
<1> DEFINE S == {n \in Used(node) : f[n] = Found(B, text, n)}
<1>12. Used(node) \subseteq S
  <2>1. ASSUME NEW n \in Used(node), \A d \in Dir : node[n].link[d] \in S \cup {NoNode} PROVE n \in S
    <3>1. \A d \in Dir : f[node[n].link[d]] = Found(B, text, node[n].link[d])
      BY <2>1, <1>11
    <3>2. FoundFrom(f, text, n) = Found(B, text, n)
      BY <3>1, <1>1, <1>2, FoundFromIs
    <3> QED BY <3>2, <1>4, <1>10
  <2> HIDE DEF S
  <2>2. \A n \in Used(h) : (\A d \in Dir : h[n].link[d] \in S \cup {NoNode}) => n \in S
    BY <2>1, <1>4
  <2>3. Used(h) \subseteq S
    BY <2>2, <1>2, <1>3, <1>4, TreeInduction
  <2> QED BY <2>3, <1>4
<1>13. Top \in InTree(h) /\ 1 \in Dir /\ InPart(h, B, Top, 1, text)
  <2>1. Top \in InTree(h) /\ 1 \in Dir
    BY Places DEF InTree
  <2> QED BY <2>1, <1>2, Sides DEF InOrder, Rooted, Bounded
<1>14. CASE root = NoNode
  <2>1. \A m \in Used(node) : ~ InPart(h, B, Top, 1, node[m].text)
    BY <1>2, <1>4, <1>13, <1>14 DEF InOrder, Bare
  <2>2. \A m \in Used(node) : node[m].text # text
    BY <2>1, <1>13
  <2>3. {u \in Members(node) : u[1] = text} = {}
    BY <2>2 DEF Members
  <2> QED BY <2>3, <1>5, <1>9, <1>11, <1>14
<1>15. CASE root # NoNode
  <2>1. root \in Used(node) /\ Within(B[root], text)
    BY <1>2, <1>4, <1>13, <1>15, BelowIs
  <2>2. f[root] = Found(B, text, root)
    BY <2>1, <1>12
  <2> QED BY <2>1, <2>2, <1>9 DEF Found
<1> QED BY <1>14, <1>15

(* There are as many nodes as members. *)
LEMMA NodesHold ==
  ASSUME IdleAt(node, root)
  PROVE  Cardinality(Allocated \ Unused) = Cardinality(Members(node))
<1> DEFINE h == Hooked(node, root)
           b == [n \in Used(node) |-> <<node[n].text, node[n].ordinal>>]
<1>1. h = Hooked(node, root) /\ RedBlack(h)
  BY DEF IdleAt
<1> HIDE DEF h
<1>2. PICK B : InOrder(h, B)
  BY <1>1 DEF RedBlack
<1>3. Allocated \ Unused = Used(node)
  BY <1>1, IdleIs DEF Unused, Used
<1>4. \A m, n \in Used(node) : node[m].text = node[n].text => m = n
  BY <1>1, <1>2, IdleIs DEF InOrder, Distinct
<1>5. b \in Bijection(Used(node), Members(node))
  BY <1>4 DEF Bijection, Injection, Surjection, IsInjective, Members
<1>6. IsFiniteSet(Used(node))
  <2>1. IsFiniteSet(Allocated)
    BY TextSearchAssumption, FS_Interval DEF Allocated
  <2> QED BY <2>1, FS_Subset DEF Used
<1>7. ExistsBijection(Used(node), Members(node))
  BY <1>5 DEF ExistsBijection
<1> QED BY <1>3, <1>6, <1>7, FS_Bijection

(* What the runs check follows from the invariant. *)
LEMMA TreeInvHolds == ASSUME TreeInv PROVE TreeHolds
<1> SUFFICES ASSUME walk = NoCallRuns, ~ lost
             PROVE  /\ radtextsearchDebug # 0
                    /\ \A m \in Member : radtextsearchFind(m[1]) = {u \in universe : u[1] = m[1]}
                    /\ Cardinality(Allocated \ Unused) = Cardinality(universe)
  BY DEF TreeHolds
<1>1. IdleAt(node, root) /\ universe = Members(node)
  BY WhoWalks
<1>2. \A m \in Member : m[1] \in Nat \ {0}
  BY TextSearchAssumption
<1>3. \A m \in Member : radtextsearchFind(m[1]) = {u \in universe : u[1] = m[1]}
  BY <1>1, <1>2, FindHolds
<1> QED BY <1>1, <1>3, DebugHolds, NodesHold

(* TreeHolds: after any sequence of inserts and removes radtextsearchDebug *)
(* finds a red-black tree, a search finds exactly the members inserted and *)
(* not removed, and no node leaks, whatever the texts and their number     *)
(* (radtextsearchInsert, -Remove, -Find, -Debug of radtextsearch.c).       *)
THEOREM TreeIsKept == TreeSpec => []TreeHolds
<1>1. TreeInit => TreeInv
  BY InitIdle DEF TreeInv, Walking
<1>2. TreeInv /\ [TreeNext]_treeVars => TreeInv'
  BY TreeStep
<1>3. TreeInv => TreeHolds
  BY TreeInvHolds
<1> QED BY <1>1, <1>2, <1>3, PTL DEF TreeSpec
=============================================================================
