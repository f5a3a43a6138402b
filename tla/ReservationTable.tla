-------------------------- MODULE ReservationTable --------------------------
(***************************************************************************)
(* traffic/reservation_table.py: the space-time table in which the robots  *)
(* book the cells of their paths.  It is kept twice, by slot and by robot. *)
(* The operators take the table and return the changed one; the actions    *)
(* are the calls the handlers make, in any order, and the engine's clock   *)
(* with its periodic cleanup.                                              *)
(***************************************************************************)
EXTENDS Integers

CONSTANTS
    Robots,
    None,           \* no robot
    Width, Depth,   \* of the grid
    CleanupPeriod,  \* every so many time units the past is forgotten
    Horizon,        \* bound: the last time of a run
    MaxPath         \* bound: waypoints of a path

ASSUME TableAssumption ==
    /\ None \notin Robots
    /\ {Width, Depth, CleanupPeriod} \subseteq Nat \ {0}
    /\ Horizon \in Nat
    /\ MaxPath \in Nat

VARIABLES
    table,  \* the two dictionaries, as a record
    pos,    \* the cells the robots stand on
    now     \* state.t

vars == <<table, pos, now>>

Cells == (0 .. Width - 1) \X (0 .. Depth - 1)
Times == 0 .. Horizon
Slots == Cells \X Times

SlotTime(k) == k[2]

TableType ==
    [held   : [Slots -> Robots \cup {None}],    \* _reservations
     listed : [Robots -> [Slots -> Nat]]]       \* _robot_reservations: how often

EmptyTable ==
    [held   |-> [k \in Slots |-> None],
     listed |-> [r \in Robots |-> [k \in Slots |-> 0]]]

----------------------------------------------------------------------------
(* Queries *)

IsFree(t, k, r) == t.held[k] \in {None, r}

\* The slots of a path: one waypoint per time unit.
PathSlot(path, start, i) == <<path[i], start + i - 1>>
PathSlots(path, start)   == {PathSlot(path, start, i) : i \in DOMAIN path}

\* _check_head_on_collision: another robot comes the other way between the
\* waypoints i and i + 1.
HeadOn(t, r, path, start, i) ==
    \E other \in Robots \ {r} :
        /\ t.held[<<path[i + 1], start + i - 1>>] = other
        /\ t.held[<<path[i], start + i>>] = other

\* The first phase of reserve_path finds a reason to refuse.
Conflict(t, r, path, start) ==
    \/ \E k \in PathSlots(path, start) : ~IsFree(t, k, r)
    \/ \E i \in DOMAIN path : i + 1 \in DOMAIN path /\ HeadOn(t, r, path, start, i)

----------------------------------------------------------------------------
(* Methods *)

\* The slots K are entered for r, each once.
Enter(t, r, K) ==
    [held   |-> [k \in Slots |-> IF k \in K THEN r ELSE t.held[k]],
     listed |-> [t.listed EXCEPT ![r] =
                   [k \in Slots |-> IF k \in K /\ t.held[k] # r THEN @[k] + 1 ELSE @[k]]]]

ReserveUnchecked(t, r, k) == Enter(t, r, {k})

\* reserve: refused if another robot has the slot, harmless if repeated.
Reserve(t, r, k) == IF IsFree(t, k, r) THEN Enter(t, r, {k}) ELSE t

\* reserve for each of the slots, whatever it answers.  The slots of a path
\* differ by their time, so that none is affected by those before it.
ReserveEach(t, r, K) == Enter(t, r, {k \in K : IsFree(t, k, r)})

\* reserve_path: a first loop looks for conflicts, a second books.
ReservePath(t, r, path, start) ==
    IF Conflict(t, r, path, start) THEN t ELSE ReserveEach(t, r, PathSlots(path, start))

DeleteFromEveryList(t, K) ==
    [held   |-> [k \in Slots |-> IF k \in K THEN None ELSE t.held[k]],
     listed |-> [r \in Robots |-> [k \in Slots |->
                   IF k \in K THEN t.listed[r][k] - 1 ELSE t.listed[r][k]]]]

\* Delete the slots K from the dictionary, and from the lists of the robots
\* that held them one occurrence each.
Delete(t, K) ==
    [held   |-> [k \in Slots |-> IF k \in K THEN None ELSE t.held[k]],
     listed |-> [r \in Robots |-> [k \in Slots |->
                   IF k \in K /\ t.held[k] = r /\ t.listed[r][k] > 0
                   THEN t.listed[r][k] - 1
                   ELSE t.listed[r][k]]]]

ReleaseKeepsListed(t, r, k) ==
    IF t.held[k] = r THEN [t EXCEPT !.held[k] = None] ELSE t

\* release: only the robot's own slot.
Release(t, r, k) == IF t.held[k] = r THEN Delete(t, {k}) ELSE t

\* release_all: whatever the robot's list names and the dictionary confirms.
ReleaseAll(t, r) ==
    [held   |-> [k \in Slots |-> IF t.listed[r][k] > 0 /\ t.held[k] = r
                                 THEN None ELSE t.held[k]],
     listed |-> [t.listed EXCEPT ![r] = [k \in Slots |-> 0]]]

CleanupBeforeLate(t, time) == Delete(t, {k \in Slots : SlotTime(k) + 1 < time})

\* cleanup_before: forget what lies before the time.
CleanupBefore(t, time) == Delete(t, {k \in Slots : SlotTime(k) < time})

----------------------------------------------------------------------------
(* Calls *)

Near(a, b) ==
    \/ a[1] = b[1] /\ (a[2] = b[2] \/ a[2] = b[2] + 1 \/ b[2] = a[2] + 1)
    \/ a[2] = b[2] /\ (a[1] = b[1] + 1 \/ b[1] = a[1] + 1)

\* Paths as the planner builds them: inside the grid, one step or a wait at a time.
Paths ==
    UNION {{p \in [1 .. n -> Cells] : \A i \in 1 .. n - 1 : Near(p[i], p[i + 1])} :
              n \in 1 .. MaxPath}

\* A path starts beside the robot, or with a wait, and within the horizon.
Bookable(r, path, start) ==
    /\ Near(pos[r], path[1]) /\ now <= start
    /\ PathSlots(path, start) \subseteq Slots

Blocked(r, c) == \E other \in Robots \ {r} : pos[other] = c

\* A robot keeps its cell for the action it carries out.
ReserveCell(r) ==
    /\ table' = Reserve(table, r, <<pos[r], now>>)
    /\ UNCHANGED <<pos, now>>

\* A robot that has delivered books the cell beside the port for the next time
\* unit and gives the port up.
LeavePort(r, exit) ==
    /\ Near(pos[r], exit) /\ pos[r] # exit /\ now < Horizon
    /\ IsFree(table, <<exit, now + 1>>, r)
    /\ table' = Release(Reserve(table, r, <<exit, now + 1>>), r, <<pos[r], now>>)
    /\ UNCHANGED <<pos, now>>

\* request_path, build_path_events, _replan_path_around_obstacle, _evade_robot.
BookPath(r, path, start) ==
    /\ Bookable(r, path, start)
    /\ table' = ReservePath(table, r, path, start)
    /\ UNCHANGED <<pos, now>>

\* A robot enters a cell that no other has booked or stands on, or waits, and
\* gives up where it was.
Move(r, c) ==
    /\ Near(pos[r], c) /\ ~Blocked(r, c) /\ IsFree(table, <<c, now>>, r)
    /\ table' = IF now > 0 THEN Release(table, r, <<pos[r], now - 1>>) ELSE table
    /\ pos' = [pos EXCEPT ![r] = c]
    /\ UNCHANGED now

\* _cleanup_past_reservations, at the end of a path.
ForgetPast(r) ==
    /\ table' = Delete(table, {k \in Slots :
                    table.listed[r][k] > 0 /\ table.held[k] = r /\ SlotTime(k) < now})
    /\ UNCHANGED <<pos, now>>

\* A request is complete, or a robot is planned anew.
ReleaseRobot(r) ==
    /\ table' = ReleaseAll(table, r)
    /\ UNCHANGED <<pos, now>>

\* The engine's clock, which tidies up at every multiple of the period.
AdvanceTime ==
    /\ now < Horizon
    /\ now' = now + 1
    /\ table' = IF now' % CleanupPeriod = 0 THEN CleanupBefore(table, now') ELSE table
    /\ UNCHANGED pos

Init ==
    /\ table = EmptyTable
    /\ pos \in [Robots -> Cells]
    /\ \A r, s \in Robots : r # s => pos[r] # pos[s]
    /\ now = 0

Next ==
    \/ \E r \in Robots : ReserveCell(r) \/ ForgetPast(r) \/ ReleaseRobot(r)
    \/ \E r \in Robots, c \in Cells : LeavePort(r, c) \/ Move(r, c)
    \/ \E r \in Robots, path \in Paths, start \in Times : BookPath(r, path, start)
    \/ AdvanceTime

Spec == Init /\ [][Next]_vars

----------------------------------------------------------------------------
(* Properties *)

\* The table, the robots and the clock have their types.
TableTypeOK == table \in TableType /\ pos \in [Robots -> Cells] /\ now \in Times

\* The dictionary and the lists of the robots say the same, whatever sequence
\* of reserve, release, release_all and cleanup_before they went through: a slot
\* is listed once for its holder and for nobody else.
IndexesAgree ==
    \A r \in Robots, k \in Slots :
        table.listed[r][k] = IF table.held[k] = r THEN 1 ELSE 0

\* INV-R1: no slot is on the lists of two robots (get_reservations_for_robot).
OneRobotPerSlot ==
    \A r, s \in Robots, k \in Slots :
        table.listed[r][k] > 0 /\ table.listed[s][k] > 0 => r = s

\* The periodic cleanup of the engine bounds the table: nothing is kept from
\* before the last multiple of the period.
NoOldSlots ==
    \A k \in Slots, m \in Times :
        table.held[k] # None /\ m <= now /\ m % CleanupPeriod = 0 => m <= SlotTime(k)

\* INV-R2 as the class states it, for the table as a whole: no two robots have
\* booked the exchange of their cells.
NoHeadOnInTable ==
    \A r, s \in Robots, c, d \in Cells, time \in Times :
        ~ /\ r # s /\ time + 1 \in Times
          /\ table.held[<<c, time>>] = r /\ table.held[<<d, time + 1>>] = r
          /\ table.held[<<d, time>>] = s /\ table.held[<<c, time + 1>>] = s

\* The table keeps the promise of the abstract book: the dictionary, for every
\* sequence of calls, changes only by a robot taking free slots or giving up
\* its own, and by the clock.
Book == INSTANCE SlotBook WITH held <- table.held, time <- now

BookKept == Book!BookSpec

=============================================================================
