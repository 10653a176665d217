---------------------------- MODULE MCMsgRouter ----------------------------
(* Two programs and one or two message IDs. *)
EXTENDS MsgRouter, TLC

CONSTANTS c1, c2, i1, i2

MCClient == {c1, c2}
MCOneID == {i1}
MCTwoIDs == {i1, i2}
MCAll == [c \in MCClient |-> Subtype]

(* c1 subscribes, c2 publishes. *)
MCRoles == c1 :> {"REGISTER", "DEREGISTER", "ENABLE", "DISABLE"}
           @@ c2 :> {"REGISTER", "DEREGISTER", "IS_REGISTERED", "DATA"}
MCSymmetry == Permutations(MCClient)
=============================================================================
