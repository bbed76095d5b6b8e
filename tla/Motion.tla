------------------------------- MODULE Motion -------------------------------
(***************************************************************************)
(* What a base promises the tasks that share it: the wheels turn on behalf *)
(* of movements in force only, and a movement that ends takes with it all  *)
(* that turns.  Nothing is promised once something has gone wrong that the *)
(* base does not notice: a message lost on the bus, or overwritten.        *)
(***************************************************************************)
CONSTANTS
  Mover,       \* those on whose behalf the wheels may turn
  Wheels,
  Still,       \* a wheel that is off
  Kept         \* a wheel that has been told to turn until told otherwise

VARIABLES
  wheels,      \* on whose behalf each wheel turns
  inForce,     \* the movers whose movement drives the base
  faulty       \* something has gone wrong unnoticed

vars == <<wheels, inForce, faulty>>

Init ==
  /\ wheels = [w \in Wheels |-> Still]
  /\ inForce = {}
  /\ faulty = FALSE

Start(m) ==
  /\ inForce' = inForce \cup {m}
  /\ UNCHANGED <<wheels, faulty>>

\* A mover without a movement in force turns nothing on its own behalf.
Tell(m) ==
  /\ wheels' \in [Wheels -> {Still, Kept} \cup (inForce \cap {m})]
  /\ UNCHANGED <<inForce, faulty>>

Finish(m) ==
  /\ m \in inForce
  /\ inForce' = inForce \ {m}
  /\ wheels' = [w \in Wheels |-> Still]
  /\ UNCHANGED faulty

Fault == faulty' = TRUE

Next == (\E m \in Mover : Start(m) \/ Tell(m) \/ Finish(m)) \/ Fault

Spec == Init /\ [][Next]_vars
=============================================================================
