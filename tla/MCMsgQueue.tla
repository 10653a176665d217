---------------------------- MODULE MCMsgQueue ----------------------------
(* Two or three processes, QUEUE_GROUP_ALL and one more group. *)
EXTENDS MsgQueue, TLC

CONSTANTS p1, p2, p3, g, b1, b2, b3, b4, b5, b6

MCTwo == {p1, p2}
MCThree == {p1, p2, p3}
MCAllOnly == {All}
MCGroup == {All, g}
MCOne == {b1}
MCThreeBuffers == {b1, b2, b3}
MCSix == {b1, b2, b3, b4, b5, b6}

MCAllCalls == [p \in MCTwo |-> CallNames]
MCTableCalls == [p \in MCThree |-> {"init", "exit", "crash", "join", "rejoin", "quit"}]
MCJoinCalls == [p \in MCThree |->
                  {"init", "join"} \cup (IF p = p1 THEN {"send_group"} ELSE {})]
MCLeaveCalls == (p1 :> {"init", "join", "send_group"}) @@ (p2 :> {"init", "join", "quit"})
                @@ (p3 :> {"init", "join"})

(* Bound of the search: all join first. *)
MCJoinedFirst ==
  (\E p \in Process : call[p].op \in {"quit", "update", "send"}) =>
    {p1, p3} \subseteq Members(g) /\ (call[p2].op = "quit" => p2 \in Members(g))
MCJustG == {g}

(* States that differ only in which buffer a node of a send list is: where *)
(* all buffers are nodes, they behave alike.                               *)
MCNodesAlike ==
  <<up, table, [p \in Process |-> [k \in DOMAIN sendList[p] |-> [sendList[p][k] EXCEPT !.buf = Nil]]],
    fifo, reflect, Cardinality(free), pc, [p \in Process |-> [call[p] EXCEPT !.copy = Nil]],
    groups, must>>

MCSymmetryBuffers == {f @@ h : f \in Permutations(MCTwo), h \in Permutations(MCThreeBuffers)}
MCSymmetryPeers == Permutations({p2, p3})
MCSymmetryThree == Permutations(MCThree)
=============================================================================
