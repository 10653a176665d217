------------------------------- MODULE Alarms -------------------------------
(***************************************************************************)
(* What the timers of radlib promise to the program that starts them       *)
(* (h/radtimers.h): a timer that runs out rings once, not before its time  *)
(* has passed since it was started last, and not after it was stopped.     *)
(* The list of timers, the clock readings and the one signal behind them   *)
(* are no part of the promise.                                             *)
(***************************************************************************)
EXTENDS Integers

CONSTANTS
  Timer,  \* the timers
  Time,   \* the times a timer may be started with
  Off     \* the state of a timer that does not run

VARIABLES
  left,   \* the time left of a running timer
  rung    \* how often a timer has rung and the program not yet heard it

vars == <<left, rung>>

Init ==
  /\ left = [t \in Timer |-> Off]
  /\ rung = [t \in Timer |-> 0]

Running(t) == left[t] # Off

Start(t) ==
  /\ \E d \in Time : left' = [left EXCEPT ![t] = d]
  /\ UNCHANGED rung

Stop(t) ==
  /\ left' = [left EXCEPT ![t] = Off]
  /\ UNCHANGED rung

Tick ==
  /\ left' = [t \in Timer |-> IF Running(t) /\ left[t] > 0 THEN left[t] - 1 ELSE left[t]]
  /\ UNCHANGED rung

(* Some timers whose time is over ring; those without a routine end        *)
(* silently.                                                               *)
Ring ==
  \E S \in SUBSET {t \in Timer : left[t] = 0} : \E R \in SUBSET S :
    /\ left' = [t \in Timer |-> IF t \in S THEN Off ELSE left[t]]
    /\ rung' = [t \in Timer |-> IF t \in R THEN rung[t] + 1 ELSE rung[t]]

Hear(t) ==
  /\ rung[t] > 0
  /\ rung' = [rung EXCEPT ![t] = @ - 1]
  /\ UNCHANGED left

Next == Tick \/ Ring \/ \E t \in Timer : Start(t) \/ Stop(t) \/ Hear(t)

Spec == Init /\ [][Next]_vars
=============================================================================
