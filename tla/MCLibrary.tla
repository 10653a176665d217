------------------------------ MODULE MCLibrary ------------------------------
(***************************************************************************)
(* Parts of the library that have nothing to do with each other: sockets,  *)
(* configuration files, lists and the text search tree.  One of them runs, *)
(* and the others stay at their initial states.                            *)
(***************************************************************************)
EXTENDS ConfFile, Lists, TextSearch, Sockets

VARIABLE part  \* the part that runs

CfEntry(id, instance, value, comment) ==
  [id |-> id, instance |-> instance, value |-> value, comment |-> comment]
MCEntry == [h1 |-> {CfEntry("a", "x", Empty, "c")}, h2 |-> {CfEntry("a", NULL, "v", NULL)}]

MCKey == [i \in Item |-> IF i = "a" THEN 2 ELSE 1]
MCMember == {<<n, n>> : n \in 1 .. 5} \cup {<<3, 9>>}
MCAddress == <<"one", "two">>

-----------------------------------------------------------------------------
vars == <<part, confVars, listsVars, treeVars, socketVars>>

Init ==
  /\ part \in {"configuration", "lists", "text search", "sockets"}
  /\ ConfInit /\ ListsInit /\ TreeInit /\ SocketInit

Next ==
  \/ /\ part = "configuration" /\ ConfNext
     /\ UNCHANGED <<part, listsVars, treeVars, socketVars>>
  \/ /\ part = "lists" /\ ListsNext
     /\ UNCHANGED <<part, confVars, treeVars, socketVars>>
  \/ /\ part = "text search" /\ TreeNext
     /\ UNCHANGED <<part, confVars, listsVars, socketVars>>
  \/ /\ part = "sockets" /\ SocketNext
     /\ UNCHANGED <<part, confVars, listsVars, treeVars>>

Spec == Init /\ [][Next]_vars
=============================================================================
