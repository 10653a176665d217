-------------------------------- MODULE Lists --------------------------------
(***************************************************************************)
(* The doubly linked list (src/radlist.c), the sorted list that is built   *)
(* on it (src/radsortlist.c) and the stack (src/radstack.c).  Nodes belong *)
(* to the caller, who keeps them in one of the three at most; a node that  *)
(* was removed keeps its pointers.                                         *)
(***************************************************************************)
EXTENDS Integers, Sequences, SequencesExt

CONSTANTS
  Item,  \* nodes of callers
  Key    \* the key of each, for the sorted list

ASSUME ListsAssumption == Key \in [Item -> Nat] /\ "none" \notin Item

(* The two lists, each with the dummy nodes it begins and ends with. *)
List == {"list", "sorted"}
dummyFirst(l) == <<"first", l>>
dummyLast(l) == <<"last", l>>
Node == {<<i>> : i \in Item} \cup {dummyFirst(l) : l \in List} \cup {dummyLast(l) : l \in List}
Nil == <<"none">>

VARIABLES
  nextNode, prevNode, \* of every node
  noNodes,            \* of every list
  head, below, count, \* the stack: its first node, what is under a node, and how many
  order               \* history: the callers' view of the lists and the stack

listsVars == <<nextNode, prevNode, noNodes, head, below, count, order>>

ListsInit ==
  /\ nextNode = [n \in Node |-> IF \E l \in List : n = dummyFirst(l) THEN dummyLast(n[2]) ELSE Nil]
  /\ prevNode = [n \in Node |-> IF \E l \in List : n = dummyLast(l) THEN dummyFirst(n[2]) ELSE Nil]
  /\ noNodes = [l \in List |-> 0]
  /\ head = Nil /\ below = [i \in Item |-> Nil] /\ count = 0
  /\ order = [s \in List \cup {"stack"} |-> <<>>]

Held == UNION {Range(order[s]) : s \in DOMAIN order}

radListGetFirst(l) ==
  IF nextNode[dummyFirst(l)] = dummyLast(l) THEN Nil ELSE nextNode[dummyFirst(l)]

radListGetLast(l) ==
  IF prevNode[dummyLast(l)] = dummyFirst(l) THEN Nil ELSE prevNode[dummyLast(l)]

radListGetNext(l, n) ==
  IF n = Nil THEN radListGetFirst(l) ELSE IF nextNode[n] = dummyLast(l) THEN Nil ELSE nextNode[n]

radListGetPrevious(l, n) ==
  IF n = Nil THEN radListGetLast(l) ELSE IF prevNode[n] = dummyFirst(l) THEN Nil ELSE prevNode[n]

-----------------------------------------------------------------------------
(* Mutant: the neighbour behind does not learn of the node. *)
LinkedForward(l, before, n, after) ==
  /\ nextNode' = [nextNode EXCEPT ![n] = after, ![before] = n]
  /\ prevNode' = [prevNode EXCEPT ![n] = before]
  /\ noNodes' = [noNodes EXCEPT ![l] = @ + 1]
  /\ UNCHANGED <<head, below, count>>

(* The pointers of radListInsertAfter, -Before, -AddToFront and -AddToEnd: *)
(* a new node between two neighbours.                                      *)
Linked(l, before, n, after) ==
  /\ nextNode' = [nextNode EXCEPT ![n] = after, ![before] = n]
  /\ prevNode' = [prevNode EXCEPT ![n] = before, ![after] = n]
  /\ noNodes' = [noNodes EXCEPT ![l] = @ + 1]
  /\ UNCHANGED <<head, below, count>>

Unlinked(l, before, after) ==
  /\ nextNode' = [nextNode EXCEPT ![before] = after]
  /\ prevNode' = [prevNode EXCEPT ![after] = before]
  /\ noNodes' = [noNodes EXCEPT ![l] = @ - 1]
  /\ UNCHANGED <<head, below, count>>

At(s, n) == CHOOSE k \in DOMAIN s : <<s[k]>> = n

radListInsertAfter(i, a) ==
  /\ i \notin Held /\ a \in Range(order["list"])
  /\ Linked("list", <<a>>, <<i>>, nextNode[<<a>>])
  /\ order' = [order EXCEPT !["list"] = InsertAt(@, At(@, <<a>>) + 1, i)]

radListInsertBefore(i, b) ==
  /\ i \notin Held /\ b \in Range(order["list"])
  /\ Linked("list", prevNode[<<b>>], <<i>>, <<b>>)
  /\ order' = [order EXCEPT !["list"] = InsertAt(@, At(@, <<b>>), i)]

radListAddToFront(i) ==
  /\ i \notin Held
  /\ Linked("list", dummyFirst("list"), <<i>>, nextNode[dummyFirst("list")])
  /\ order' = [order EXCEPT !["list"] = <<i>> \o @]

radListAddToEnd(i) ==
  /\ i \notin Held
  /\ Linked("list", prevNode[dummyLast("list")], <<i>>, dummyLast("list"))
  /\ order' = [order EXCEPT !["list"] = Append(@, i)]

(* The neighbours are those the node itself knows. *)
radListRemove(l, i) ==
  /\ i \in Range(order[l])
  /\ Unlinked(l, prevNode[<<i>>], nextNode[<<i>>])
  /\ order' = [order EXCEPT ![l] = RemoveAt(@, At(@, <<i>>))]

radListRemoveFirst ==
  LET n == radListGetFirst("list")
  IN  /\ n # Nil
      /\ Unlinked("list", dummyFirst("list"), nextNode[n])
      /\ order' = [order EXCEPT !["list"] = Tail(@)]

radListRemoveLast ==
  LET n == radListGetLast("list")
  IN  /\ n # Nil
      /\ Unlinked("list", prevNode[n], dummyLast("list"))
      /\ order' = [order EXCEPT !["list"] = Front(@)]

radListReset ==
  /\ nextNode' = [nextNode EXCEPT ![dummyFirst("list")] = dummyLast("list")]
  /\ prevNode' = [prevNode EXCEPT ![dummyLast("list")] = dummyFirst("list")]
  /\ noNodes' = [noNodes EXCEPT !["list"] = 0]
  /\ order' = [order EXCEPT !["list"] = <<>>]
  /\ UNCHANGED <<head, below, count>>

-----------------------------------------------------------------------------
(* The walk of radSortListInsert, radSortListRemove and radSortListFind:   *)
(* the first node that is one of wanted, or none.                          *)
Sought(wanted) ==
  LET from[n \in Node \cup {Nil}] ==
        IF n = Nil \/ n[1] \in wanted THEN n ELSE from[radListGetNext("sorted", n)]
  IN  from[radListGetFirst("sorted")]

(* order says what a caller expects: the node behind all whose keys are    *)
(* not greater.                                                            *)
radSortListInsert(i) ==
  LET greater == Sought({j \in Item : Key[j] > Key[i]})
      notGreater(s) == {k \in DOMAIN s : Key[s[k]] <= Key[i]}
  IN  /\ i \notin Held
      /\ IF greater # Nil THEN Linked("sorted", prevNode[greater], <<i>>, greater)
         ELSE Linked("sorted", prevNode[dummyLast("sorted")], <<i>>, dummyLast("sorted"))
      /\ order' = [order EXCEPT !["sorted"] = InsertAt(@, Cardinality(notGreater(@)) + 1, i)]

radSortListRemove(i) ==
  /\ Sought({i}) # Nil
  /\ radListRemove("sorted", i)

radSortListFind(key) == Sought({j \in Item : Key[j] = key})

radStackPush(i) ==
  /\ i \notin Held
  /\ below' = [below EXCEPT ![i] = head]
  /\ head' = <<i>>
  /\ count' = count + 1
  /\ order' = [order EXCEPT !["stack"] = <<i>> \o @]
  /\ UNCHANGED <<nextNode, prevNode, noNodes>>

radStackPop ==
  /\ head # Nil
  /\ head' = below[head[1]]
  /\ count' = count - 1
  /\ order' = [order EXCEPT !["stack"] = Tail(@)]
  /\ UNCHANGED <<nextNode, prevNode, noNodes, below>>

ListsNext ==
  \/ \E i \in Item :
       \/ radListAddToFront(i) \/ radListAddToEnd(i) \/ radSortListInsert(i) \/ radStackPush(i)
       \/ \E j \in Item : radListInsertAfter(i, j) \/ radListInsertBefore(i, j)
       \/ radListRemove("list", i) \/ radSortListRemove(i)
  \/ radListRemoveFirst \/ radListRemoveLast \/ radListReset \/ radStackPop

ListsSpec == ListsInit /\ [][ListsNext]_listsVars

-----------------------------------------------------------------------------
NodeAt(s, k) == IF k \in DOMAIN s THEN <<s[k]>> ELSE Nil

(* Whatever mix of calls made them, a walk from either end of a list meets *)
(* the nodes in the order the callers put them in, nodes that were removed *)
(* and came back included; the sorted list is in the order of the keys, and *)
(* the first of a key is found; the counts agree, and so does the stack.   *)
(* (radListGetFirst, -Last, -Next, -Previous, radSortListFind.)             *)
ListsInOrder ==
  /\ \A l \in List :
       LET s == order[l]
       IN  /\ noNodes[l] = Len(s)
           /\ radListGetFirst(l) = NodeAt(s, 1) /\ radListGetLast(l) = NodeAt(s, Len(s))
           /\ \A k \in DOMAIN s : /\ radListGetNext(l, <<s[k]>>) = NodeAt(s, k + 1)
                                  /\ radListGetPrevious(l, <<s[k]>>) = NodeAt(s, k - 1)
  /\ \A j, k \in DOMAIN order["sorted"] :
       j < k => Key[order["sorted"][j]] <= Key[order["sorted"][k]]
  /\ \A i \in Range(order["sorted"]) :
       LET found == radSortListFind(Key[i])
       IN  Key[found[1]] = Key[i] /\ (found = <<i>> \/ At(order["sorted"], found) < At(order["sorted"], <<i>>))
  /\ head = NodeAt(order["stack"], 1) /\ count = Len(order["stack"])
  /\ \A k \in DOMAIN order["stack"] : below[order["stack"][k]] = NodeAt(order["stack"], k + 1)
=============================================================================
