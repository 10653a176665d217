----------------------------- MODULE TextSearch -----------------------------
(***************************************************************************)
(* The text search tree (src/radtextsearch.c): a red-black tree that is    *)
(* changed on the way down, in one loop without recursion.  A step here is *)
(* one iteration of the loop of radtextsearchInsert or -Remove.            *)
(***************************************************************************)
EXTENDS Integers, FiniteSetsExt

CONSTANTS
  Member,   \* pairs of a text and the ordinal it is inserted with; texts are
            \* numbers, in the order of strncmp
  MaxNodes  \* nodes malloc can give

ASSUME TextSearchAssumption == Member \subseteq (Nat \ {0}) \X Nat /\ MaxNodes \in Nat

(* The false root on the stack, the nodes of malloc, and NULL. *)
Top == 0
Allocated == 1 .. MaxNodes
NoNode == -1

Dir == 0 .. 1

VARIABLES
  node,     \* SEARCH_NODE: red, link, text, ordinal
  root,     \* id->root
  walk,     \* the call that runs, and its local variables
  universe, \* history: the members inserted and not removed
  lost      \* history: malloc failed at the bottom of the tree

treeVars == <<node, root, walk, universe, lost>>

Free == [red |-> FALSE, link |-> [d \in Dir |-> NoNode], text |-> 0, ordinal |-> 0]

NoCallRuns == [op |-> "none"]

TreeInit ==
  /\ node = [n \in {Top} \cup Allocated |-> Free]
  /\ root = NoNode /\ walk = NoCallRuns /\ universe = {} /\ lost = FALSE

makeNode(text, ordinal) == [Free EXCEPT !.red = TRUE, !.text = text, !.ordinal = ordinal]

Unused == {n \in Allocated : node[n] = Free}

nodeIsRed(h, n) == n # NoNode /\ h[n].red

(* The rotations: the nodes after them, and the new top. *)
rotateSingle(h, r, d) ==
  LET save == h[r].link[1 - d]
  IN  [nodes |-> [h EXCEPT ![r] = [@ EXCEPT !.link[1 - d] = h[save].link[d], !.red = TRUE],
                           ![save] = [@ EXCEPT !.link[d] = r, !.red = FALSE]],
       top |-> save]

rotateDouble(h, r, d) ==
  LET lower == rotateSingle(h, h[r].link[1 - d], 1 - d)
  IN  rotateSingle([lower.nodes EXCEPT ![r].link[1 - d] = lower.top], r, d)

(* A rotation under a node that then leads to the new top. *)
Hung(h, n, d, rotated) == [rotated.nodes EXCEPT ![n].link[d] = rotated.top]

DirOf(condition) == IF condition THEN 1 ELSE 0

(* The end of a call: the root is black, the false root is forgotten.      *)
CallEnds(h) ==
  LET new == h[Top].link[1]
      clean == [h EXCEPT ![Top] = Free]
  IN  /\ root' = new
      /\ node' = IF new = NoNode THEN clean ELSE [clean EXCEPT ![new].red = FALSE]
      /\ walk' = NoCallRuns

-----------------------------------------------------------------------------
Texts == {m[1] : m \in universe}

radtextsearchInsert(text, ordinal) ==
  /\ walk = NoCallRuns /\ ~ lost
  /\ root = NoNode => Unused # {}
  /\ IF root = NoNode
     THEN LET n == Min(Unused)
          IN  /\ root' = n
              /\ node' = [node EXCEPT ![n] = [makeNode(text, ordinal) EXCEPT !.red = FALSE]]
              /\ universe' = universe \cup {<<text, ordinal>>}
              /\ UNCHANGED walk
     ELSE /\ node' = [node EXCEPT ![Top].link[1] = root]
          /\ walk' = [op |-> "insert", text |-> text, ordinal |-> ordinal, t |-> Top,
                      gparent |-> NoNode, parent |-> NoNode, q |-> root, dir |-> 0, last |-> 0]
          /\ UNCHANGED <<root, universe>>
  /\ UNCHANGED lost

(* A node at the bottom, or a colour flip on the way. *)
Grown ==
  LET q == walk.q
  IN  IF q = NoNode
      THEN LET n == Min(Unused)
           IN  [nodes |-> [node EXCEPT ![n] = makeNode(walk.text, walk.ordinal),
                                       ![walk.parent].link[walk.dir] = n],
                q |-> n]
      ELSE [nodes |-> IF \A d \in Dir : nodeIsRed(node, node[q].link[d])
                      THEN [n \in DOMAIN node |->
                              [node[n] EXCEPT !.red = n = q \/ (@ /\ \A d \in Dir : n # node[q].link[d])]]
                      ELSE node,
            q |-> q]

(* Mutant: two red nodes in a row are left. *)
LeftRed(h, q) == h

(* The fix of two red nodes in a row. *)
FixedRed(h, q) ==
  LET p == walk.parent
      g == walk.gparent
      dir2 == DirOf(h[walk.t].link[1] = g)
  IN  IF ~ (nodeIsRed(h, q) /\ nodeIsRed(h, p)) THEN h
      ELSE Hung(h, walk.t, dir2, IF q = h[p].link[walk.last] THEN rotateSingle(h, g, 1 - walk.last)
                                 ELSE rotateDouble(h, g, 1 - walk.last))

InsertStep ==
  /\ walk.op = "insert"
  /\ walk.q = NoNode => Unused # {}
  /\ LET q == Grown.q
         h == FixedRed(Grown.nodes, q)
         dir == DirOf(walk.text > h[q].text)
     IN  IF h[q].text = walk.text
         THEN /\ CallEnds(h)
              /\ universe' = IF walk.text \in Texts THEN universe
                             ELSE universe \cup {<<walk.text, walk.ordinal>>}
         ELSE /\ node' = h
              /\ walk' = [walk EXCEPT !.last = walk.dir, !.dir = dir, !.gparent = walk.parent,
                                      !.t = IF walk.gparent = NoNode THEN @ ELSE walk.gparent,
                                      !.parent = q, !.q = h[q].link[dir]]
              /\ UNCHANGED <<root, universe>>
  /\ UNCHANGED lost

(* malloc fails at the bottom: ERROR, and the root is not brought up to    *)
(* date with the rotations on the way.                                     *)
InsertFails ==
  /\ walk.op = "insert" /\ walk.q = NoNode
  /\ node' = [node EXCEPT ![Top] = Free]
  /\ walk' = NoCallRuns
  /\ lost' = TRUE
  /\ UNCHANGED <<root, universe>>

-----------------------------------------------------------------------------
AnyText == -1

(* Without a text any member is removed: radtextsearchExit. *)
radtextsearchRemove(text) ==
  /\ walk = NoCallRuns /\ ~ lost
  /\ root # NoNode
  /\ node' = [node EXCEPT ![Top].link[1] = root]
  /\ walk' = [op |-> "remove", text |-> text, gparent |-> NoNode, parent |-> NoNode, q |-> Top,
              dir |-> 1, last |-> 1, found |-> NoNode]
  /\ UNCHANGED <<root, universe, lost>>

(* A red node is pushed down: what becomes of the nodes, and the parent.   *)
Pushed(g, p, q, dir, last) ==
  LET s == node[p].link[1 - last]
      dir2 == DirOf(node[g].link[1] = p)
      rotated == Hung(node, g, dir2, IF nodeIsRed(node, node[s].link[last]) THEN rotateDouble(node, p, last)
                                     ELSE rotateSingle(node, p, last))
      top == rotated[g].link[dir2]
  IN  IF nodeIsRed(node, q) \/ nodeIsRed(node, node[q].link[dir]) THEN [nodes |-> node, parent |-> p]
      ELSE IF nodeIsRed(node, node[q].link[1 - dir])
      THEN LET r == rotateSingle(node, q, dir)
           IN  [nodes |-> Hung(node, p, last, r), parent |-> r.top]
      ELSE IF s = NoNode THEN [nodes |-> node, parent |-> p]
      ELSE IF \A d \in Dir : ~ nodeIsRed(node, node[s].link[d])
      THEN [nodes |-> [node EXCEPT ![p].red = FALSE, ![s].red = TRUE, ![q].red = TRUE], parent |-> p]
      ELSE [nodes |-> [n \in DOMAIN node |->
                         [rotated[n] EXCEPT !.red = n \in {q, top} \/ (@ /\ \A d \in Dir : n # rotated[top].link[d])]],
            parent |-> p]

RemoveStep ==
  /\ walk.op = "remove"
  /\ node[walk.q].link[walk.dir] # NoNode
  /\ LET q == node[walk.q].link[walk.dir]
         hit == walk.text = AnyText \/ node[q].text = walk.text
         dir == DirOf(walk.text # AnyText /\ walk.text > node[q].text)
         pushed == Pushed(walk.parent, walk.q, q, dir, walk.dir)
     IN  /\ node' = pushed.nodes
         /\ walk' = [walk EXCEPT !.last = walk.dir, !.dir = dir, !.q = q, !.parent = pushed.parent,
                                 !.gparent = walk.parent, !.found = IF hit THEN q ELSE @]
  /\ UNCHANGED <<root, universe, lost>>

(* At the bottom: the node found takes what the last one has, and that one *)
(* is unlinked and freed.  The answer is OK, found or not.                 *)
RemoveEnds ==
  LET q == walk.q
      f == walk.found
      side == DirOf(node[walk.parent].link[1] = q)
      moved == [node EXCEPT ![f].text = node[q].text, ![f].ordinal = node[q].ordinal]
      cut == [moved EXCEPT ![walk.parent].link[side] = node[q].link[DirOf(node[q].link[0] = NoNode)]]
  IN  /\ walk.op = "remove"
      /\ node[q].link[walk.dir] = NoNode
      /\ CallEnds(IF f = NoNode THEN node ELSE [cut EXCEPT ![q] = Free])
      /\ universe' = {m \in universe : m[1] # IF walk.text = AnyText THEN node[f].text ELSE walk.text}
      /\ UNCHANGED lost

TreeNext ==
  \/ \E m \in Member : radtextsearchInsert(m[1], m[2]) \/ radtextsearchRemove(m[1])
  \/ radtextsearchRemove(AnyText)
  \/ InsertStep \/ InsertFails \/ RemoveStep \/ RemoveEnds

TreeSpec == TreeInit /\ [][TreeNext]_treeVars

-----------------------------------------------------------------------------
(* radtextsearchFind: the members a search from the root comes to. *)
radtextsearchFind(text) ==
  LET from[n \in Allocated \cup {NoNode}] ==
        IF n = NoNode THEN {}
        ELSE IF node[n].text = text THEN {<<text, node[n].ordinal>>}
        ELSE from[node[n].link[DirOf(text > node[n].text)]]
  IN  from[root]

(* radtextsearchDebug: black nodes on every way to the bottom, or 0.       *)
radtextsearchDebug ==
  LET height[n \in Allocated \cup {NoNode}] ==
        IF n = NoNode THEN 1
        ELSE LET below == [d \in Dir |-> height[node[n].link[d]]]
                 left == node[n].link[0]
                 right == node[n].link[1]
             IN  IF \/ nodeIsRed(node, n) /\ (nodeIsRed(node, left) \/ nodeIsRed(node, right))
                    \/ left # NoNode /\ node[left].text >= node[n].text
                    \/ right # NoNode /\ node[n].text >= node[right].text
                    \/ below[0] = 0 \/ below[0] # below[1]
                 THEN 0
                 ELSE IF nodeIsRed(node, n) THEN below[0] ELSE below[0] + 1
  IN  height[root]

(* After any sequence of inserts and removes the tree is a red-black tree, *)
(* a search finds exactly the members that were inserted and not removed,  *)
(* each with the ordinal it was inserted with first, and no node leaks.    *)
TreeHolds ==
  walk = NoCallRuns /\ ~ lost =>
    /\ radtextsearchDebug # 0
    /\ \A m \in Member : radtextsearchFind(m[1]) = {u \in universe : u[1] = m[1]}
    /\ Cardinality(Allocated \ Unused) = Cardinality(universe)
=============================================================================
