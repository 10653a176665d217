------------------------------ MODULE MCProcess ------------------------------
(* A process with one timer or two and two slots for its descriptors; each  *)
(* program makes some kinds of calls.                                       *)
EXTENDS ProcessLoop

CONSTANTS t1, t2, e1, h1, h2, h3, m1

MCTimer == {t1, t2}
MCTime == {1, 2}
MCRoutine == {TRUE}
MCEventBuffer == {e1}
MCHandler == {h1, h2, h3}
MCMessage == {m1}
MCPrograms == {{"timers"}, {"io", "signal"}, {"handlers", "messages"}, {"messages", "signal"}}
=============================================================================
