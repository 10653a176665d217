----------------------------- MODULE MCBuffers -----------------------------
(* Two processes share three buffers of two sizes. *)
EXTENDS Buffers, TLC

CONSTANTS p1, p2, b1, b2, b3

MCProcess == {p1, p2}
MCBuffer == {b1, b2, b3}
MCLayout == 0 :> <<b1, b2>> @@ 1 :> <<b3>>
MCSizeIndex == b1 :> 0 @@ b2 :> 0 @@ b3 :> 1

(* Death everywhere but between radShmemLock and radShmemUnlock. *)
MCCrashAt == Points \ (Critical \cup {"dead"})
MCNoCrash == {}
=============================================================================
