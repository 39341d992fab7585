-------------------------- MODULE MCFloatAllocRoots -------------------------
(* Bounds for FloatAllocRoots.  Seven addresses: up to three live blocks   *)
(* (f, quo, rem) can all be moved to fresh addresses and a new block still *)
(* placed.  Inputs: 0, +-1/2, +-1, +-3/2, +-3, 6 cover zero, proper       *)
(* fractions, mixed numbers and integers of both signs.                   *)
EXTENDS FloatAllocRoots

MCAddrs == 1..7
MCInputs == {Norm([num |-> n, exp |-> k]) : n \in {-3, -1, 0, 1, 3}, k \in {0, 1}}
              \cup {[num |-> 6, exp |-> 0]}
=============================================================================
