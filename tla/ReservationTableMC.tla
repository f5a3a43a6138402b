------------------------- MODULE ReservationTableMC -------------------------
(* Model-checking instance of ReservationTable: two robots that only      *)
(* differ in their names.                                                   *)
EXTENDS ReservationTable, TLC

CONSTANTS r1, r2

RobotSymmetry == Permutations(Robots)

=============================================================================
