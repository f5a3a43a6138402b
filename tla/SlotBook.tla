------------------------------ MODULE SlotBook ------------------------------
(***************************************************************************)
(* What traffic/reservation_table.py promises, whatever it keeps: a slot   *)
(* (a cell at a time) belongs to at most one robot; it changes hands only  *)
(* by way of being free, and one call moves the slots of one robot; the    *)
(* clock takes only what is past.  ReservationTable implements this        *)
(* specification.                                                          *)
(***************************************************************************)
EXTENDS Integers

CONSTANTS Robots, None

VARIABLES
    held,   \* for every slot the robot that has it, or None
    time    \* the current time

SlotTime(k) == k[2]

\* A robot takes free slots and gives up slots of its own.
Trade(r) ==
    /\ DOMAIN held' = DOMAIN held
    /\ \A k \in DOMAIN held : held'[k] # held[k] => {held[k], held'[k]} = {r, None}
    /\ UNCHANGED time

\* Time passes, and some of the past is forgotten.
Pass ==
    /\ time' = time + 1
    /\ DOMAIN held' = DOMAIN held
    /\ \A k \in DOMAIN held :
          held'[k] # held[k] => held'[k] = None /\ SlotTime(k) < time'

BookInit == (\A k \in DOMAIN held : held[k] = None) /\ time = 0
BookNext == (\E r \in Robots : Trade(r)) \/ Pass
BookSpec == BookInit /\ [][BookNext]_<<held, time>>

=============================================================================
