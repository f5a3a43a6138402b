------------------------------ MODULE TrafficMC ------------------------------
(***************************************************************************)
(* Model-checking instance of Traffic: two robots on two by two cells, with *)
(* a port in one corner and a stack in the opposite one.                   *)
(***************************************************************************)
EXTENDS Traffic

PortCells == {<<0, 0>>}
StackCells == {<<1, 1>>}

\* The first robot starts on the port, as the engine may place it.
Places == {[r \in Robots |-> IF r = 0 THEN <<0, 0>> ELSE <<1, 1>>]}

=============================================================================
