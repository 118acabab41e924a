------------------------------- MODULE MCTick -------------------------------
(* Values for the constants of Tick. *)
EXTENDS Tick

CONSTANTS i1

\* Every item on one slot date.
OneDate == [i \in Items |-> 1]

\* i1 on the first slot date, the others on the second.
TwoDates == [i \in Items |-> IF i = i1 THEN 1 ELSE 2]

\* One pause or death, and none goes on after the pause is over.
Bounded == pauses + crashes <= 1 /\ (pauses = 1 => kill)
=============================================================================
