------------------------------- MODULE Traffic -------------------------------
(***************************************************************************)
(* The robots on the floor: ROBOT_MOVE and what it calls in                *)
(* simulation/event_handler.py (waiting, replanning, evading, recovering), *)
(* with traffic_manager.py, pathfinder.py, port_exit_guard.py,             *)
(* idle_parking.py, the reservations of cells and of ports, and the        *)
(* engine's clock.  The other events only matter by the paths they plan    *)
(* and the tasks they give and take: they are the actions of the           *)
(* surroundings.                                                           *)
(*                                                                         *)
(* Times are relative to state.t: slot <<c, 0>> is the cell c now, and the *)
(* clock shifts the table.  ReservationTable shows that the lists of the   *)
(* robots say what the dictionary says, so only the dictionary is kept.    *)
(***************************************************************************)
EXTENDS DeadlockDetector, FiniteSetsExt

CONSTANTS
    Width, Depth,       \* of the grid
    Ports,              \* cells of the pickstations
    MaxRetries,         \* EventBuilder.max_retries
    ReplanAfter,        \* max_move_retries_before_replan
    ForceReplanAfter,   \* max_move_retries_before_force_replan
    Attempts,           \* max_attempts of request_path
    CleanupPeriod,      \* of the engine
    Stacks,             \* bound: the storage stacks that the tasks use
    Starts,             \* bound: where the robots may stand at the start
    PickupTime,         \* duration of a pickup
    Waiting,            \* bound: robots of the wait graphs that are searched
    MaxPath,            \* bound: waypoints of a path (for max_iterations)
    MaxJobs             \* bound: paths that the other events plan in a run

Cells == (0 .. Width - 1) \X (0 .. Depth - 1)

ASSUME TrafficAssumption ==
    /\ Robots \subseteq Waiting /\ Waiting \subseteq Nat /\ IsFiniteSet(Waiting) /\ None \notin Waiting
    /\ Ports \cup Stacks \subseteq Cells
    /\ Starts \subseteq [Robots -> Cells]
    /\ \A at \in Starts : \A r, s \in Robots : r # s => at[r] # at[s]
    /\ Stacks \cap Ports = {}
    /\ {Width, Depth, CleanupPeriod, MaxPath, Attempts} \subseteq Nat \ {0}
    /\ {PickupTime, MaxRetries, ReplanAfter, ForceReplanAfter, MaxJobs} \subseteq Nat

VARIABLES
    floor,      \* where the robots are: [pos, onPort]
    plan,       \* what they are about to do (see PlanType)
    handled,    \* the robots that have moved or tried to at this time
    phase,      \* state.t modulo the period of the cleanup
    jobs        \* paths planned so far by the other events

vars == <<floor, plan, handled, phase, jobs>>

\* The table reaches back to the last cleanup and as far ahead as paths do.
Window == 1 - CleanupPeriod .. MaxPath + Attempts - 1
Slots  == Cells \X Window
Moves  == (0 .. MaxPath + PickupTime) \X (0 .. MaxRetries)   \* when, retry_count
Dues   == 0 .. MaxPath + PickupTime + 1

FloorType == [pos : [Robots -> Cells], onPort : [Ports -> Robots \cup {None}]]

PlanType ==
    [path     : [Robots -> Seq(Cells)],                 \* what is left of it
     moves    : [Robots -> SUBSET Moves],               \* ROBOT_MOVE events
     due      : [Robots -> Dues \cup {None}],  \* PICKUP, DROP or ACTION event
     held     : [Slots -> Robots \cup {None}],          \* reservation_table
     reserved : [Ports -> Robots \cup {None}],          \* reserved_for_robot
     waits    : WaitGraphs,
     task     : [Robots -> {"none", "empty", "carrying"}],
     tried    : [Robots -> BOOLEAN],                    \* _move_stall_state
     raised   : {"no", "retries", "port"}]              \* RuntimeError

----------------------------------------------------------------------------
(* The grid *)

Around(c) ==
    {<<c[1] + 1, c[2]>>, <<c[1] - 1, c[2]>>, <<c[1], c[2] + 1>>, <<c[1], c[2] - 1>>}

Neighbours(c) == Around(c) \cap Cells

BufferZone == UNION {Neighbours(p) : p \in Ports}
Parking    == Cells \ (Ports \cup BufferZone)

Abs(i) == IF i < 0 THEN -i ELSE i
Distance(a, b) == Abs(a[1] - b[1]) + Abs(a[2] - b[2])

\* Tuples as Python sorts them.
Before(a, b) == a[1] < b[1] \/ (a[1] = b[1] /\ a[2] < b[2])

OthersOn(f, r, c) == {s \in Robots \ {r} : f.pos[s] = c}

----------------------------------------------------------------------------
(* Reservations: reservation_table.py for the dictionary *)

IsFree(held, r, k) == held[k] \in {None, r}

Slot(path, start, i) == <<path[i], start + i - 1>>
PathSlots(path, start) == {Slot(path, start, i) : i \in DOMAIN path}

\* Where reserve_path finds a reason to refuse: the slot of a waypoint, or a
\* robot that comes the other way as the waypoint is entered.
HeadOn(held, r, path, start, i) ==
    /\ i > 1
    /\ held[<<path[i], start + i - 2>>] \notin {None, r}
    /\ held[<<path[i - 1], start + i - 1>>] = held[<<path[i], start + i - 2>>]

Conflicts(held, r, path, start) ==
    {i \in DOMAIN path : \/ ~IsFree(held, r, Slot(path, start, i))
                         \/ HeadOn(held, r, path, start, i)}

\* The blocking robot that it reports: that of the first conflict.
Blocker(held, r, path, start) ==
    LET i == Min(Conflicts(held, r, path, start))
        k == Slot(path, start, i) IN
    IF IsFree(held, r, k) THEN held[<<path[i], start + i - 2>>] ELSE held[k]

Take(held, r, K) == [k \in DOMAIN held |-> IF k \in K THEN r ELSE held[k]]
Free(held, K)    == [k \in DOMAIN held |-> IF k \in K THEN None ELSE held[k]]

SlotsOf(held, r) == {k \in DOMAIN held : held[k] = r}

\* release, release_all, _cleanup_past_reservations.
Release(held, r, k)  == Free(held, {k} \cap SlotsOf(held, r))
ReleaseAll(held, r)  == Free(held, SlotsOf(held, r))
ForgetPast(held, r)  == Free(held, {k \in SlotsOf(held, r) : k[2] < 0})

----------------------------------------------------------------------------
(* Ports *)

\* (mutant) Whoever is on the port or has reserved it does not count.
MayReserveAlways(f, w, r, p) == TRUE

\* Pickstation.reserve.
MayReserve(f, w, r, p) ==
    /\ f.onPort[p] \in {None, r}
    /\ w.reserved[p] \in {None, r}

\* _release_stale_port_reservation: the holder neither stands on the port nor
\* is on its way to it.
StaleReservation(f, w, p) ==
    LET holder == w.reserved[p] IN
    /\ holder # None /\ f.onPort[p] = None
    /\ f.pos[holder] # p
    /\ p \notin ToSet(w.path[holder])

\* get_port_exit_cells_to_keep_free: the last exit of a port on which another
\* robot stands.  An exit is lost to whoever stands on it, has it on its path,
\* or has it booked for any time the table remembers.
PortExits(p) == Neighbours(p) \ Ports

FreeExits(f, w, r, p) ==
    {c \in PortExits(p) :
        /\ \A s \in Robots \ {r} : f.pos[s] # c /\ c \notin ToSet(w.path[s])
        /\ \A d \in Window : IsFree(w.held, r, <<c, d>>)}

ExitsToKeepFree(f, w, r) ==
    UNION {LET free == FreeExits(f, w, r, p) IN
           IF Cardinality(free) <= 1 THEN free ELSE {} :
              p \in {q \in Ports : f.onPort[q] \notin {None, r}}}

\* validate_path_for_ports: a waypoint beside a port that is booked at its
\* time, and with it no exit of the port would be left.
ClosesPort(held, path, start) ==
    \E i \in DOMAIN path : \E p \in Ports :
        LET d == start + i - 1 IN
        /\ path[i] \in Neighbours(p)
        /\ held[<<p, d>>] # None
        /\ \A c \in PortExits(p) \ {path[i]} : held[<<c, d>>] # None

----------------------------------------------------------------------------
(* Paths *)

\* The ways of n steps and waits over the grid from one cell to another.
At(path, from, i) == IF i = 0 THEN from ELSE path[i]

Ways == [n \in 1 .. MaxPath |-> [ends \in Cells \X Cells |->
    {path : path \in {way \in [1 .. n -> Cells] :
        /\ way[n] = ends[2]
        /\ \A i \in 1 .. n : Distance(At(way, ends[1], i - 1), way[i]) <= 1}}]]

\* _get_neighbors: the robot may step from c to n at time d, or wait on c.
MayStep(held, r, c, n, d, blocked) ==
    /\ IsFree(held, r, <<n, d + 1>>)
    /\ n # c => /\ n \notin blocked
                /\ ~ /\ held[<<n, d>>] \notin {None, r}
                     /\ held[<<c, d + 1>>] = held[<<n, d>>]

\* find_path: the shortest paths in space and time, of which A* returns one.
FindPath(held, r, from, to, start, blocked) ==
    LET Open(n) == {path \in Ways[n][<<from, to>>] : \A i \in 1 .. n :
                       MayStep(held, r, At(path, from, i - 1), path[i], start + i - 1, blocked)}
    IN  UNION {Open(n) : n \in {m \in 1 .. MaxPath : \A k \in 1 .. m - 1 : Open(k) = {}}}

\* The fallback of calculate_path: first along x, then along y.
Between(a, b) == IF a <= b THEN [i \in 1 .. b - a |-> a + i] ELSE [i \in 1 .. a - b |-> a - i]

ManhattanPath(from, to) ==
    [i \in DOMAIN Between(from[1], to[1]) |-> <<Between(from[1], to[1])[i], from[2]>>]
      \o [i \in DOMAIN Between(from[2], to[2]) |-> <<to[1], Between(from[2], to[2])[i]>>]

\* A path is refused for a port or by the table.  A refusal by robot 0 leaves
\* no wait: the code tests the id for truth.
Accepted(held, r, path, start) ==
    ~ClosesPort(held, path, start) /\ Conflicts(held, r, path, start) = {}

NamesNobody(held, r, path, start) ==
    ClosesPort(held, path, start) \/ Blocker(held, r, path, start) = 0

\* What calculate_path may return, with the plan it leaves.
Path(w, path) == [plan |-> w, path |-> path]

\* request_path: the attempts, each a time unit later than the one before; what
\* it may book, and for whom the robot may be waiting if it books nothing: for
\* the one named by the last attempt that named one, if any did.
Attempt(w, r, from, to, avoid, start) ==
    LET found   == FindPath(w.held, r, from, to, start, avoid)
        refused == {path \in found : ~Accepted(w.held, r, path, start)}
        naming  == {path \in refused : ~NamesNobody(w.held, r, path, start)} IN
    [start    |-> start,
     accepted |-> found \ refused,
     names    |-> {Blocker(w.held, r, path, start) : path \in naming},
     silent   |-> found = {} \/ refused # naming]

MayFail(x) == x.silent \/ x.names # {}

Requested(w, r, attempts) ==
    LET tried == {x \in attempts : \A y \in attempts : y.start < x.start => MayFail(y)} IN
    [booked |->
        UNION {{Path([w EXCEPT !.held = Take(@, r, PathSlots(path, x.start)),
                               !.waits = ClearWait(@, r)], path) :
                  path \in x.accepted} : x \in tried},
     waits |->
        {s \in {w.waits[r]} : \A x \in attempts : x.silent}
          \cup UNION {x.names : x \in {y \in tried : \A z \in attempts :
                                          z.start > y.start => z.silent}}]

RequestPath(w, r, from, to, avoid) ==
    Requested(w, r, {Attempt(w, r, from, to, avoid, a) : a \in 0 .. Attempts - 1})

\* calculate_path: what request_path books, or else the simple path unless it
\* touches a cell to avoid.
Fallback(path, avoid) == IF ToSet(path) \cap avoid = {} THEN path ELSE <<>>

Calculated(w, r, requested, fallback) ==
    requested.booked
      \cup {Path([w EXCEPT !.waits = RegisterWait(@, r, s)], fallback) : s \in requested.waits}

CalculatePath(f, w, r, to, blocked) ==
    LET keep == ExitsToKeepFree(f, w, r) IN
    IF f.pos[r] = to THEN {Path(w, <<>>)}
    ELSE Calculated(w, r,
            IF to \in keep THEN [booked |-> {}, waits |-> {w.waits[r]}]
            ELSE RequestPath(w, r, f.pos[r], to, blocked \cup keep),
            Fallback(ManhattanPath(f.pos[r], to), blocked \cup keep))

----------------------------------------------------------------------------
(* Events and the small steps of the handlers.  w is the plan so far; what  *)
(* may end in several ways is the set of the plans it may lead to.          *)

Push(w, r, d, retry) == [w EXCEPT !.moves[r] = @ \cup {<<d, retry>>}]

\* (mutant) One attempt too many.
DelayOnceMore(w, r, retry) ==
    IF retry <= MaxRetries THEN Push(w, r, 1, retry + 1) ELSE [w EXCEPT !.raised = "retries"]

\* delay_event: raises if the event has been delayed too often.
Delay(w, r, retry) ==
    IF retry < MaxRetries THEN Push(w, r, 1, retry + 1) ELSE [w EXCEPT !.raised = "retries"]

\* (mutant) The new path comes before what is left of the old one.
SetPathBefore(w, r, path) ==
    [w EXCEPT !.path[r] = path \o @, !.moves[r] = @ \cup {<<i, 0>> : i \in DOMAIN path}]

\* robot.set_path, with a ROBOT_MOVE event for every waypoint.
SetPath(w, r, path) ==
    [w EXCEPT !.path[r] = path, !.moves[r] = @ \cup {<<i, 0>> : i \in DOMAIN path}]

\* Robot.clear_task: the path goes with the task.
ClearTask(w, r) == [w EXCEPT !.task[r] = "none", !.path[r] = <<>>, !.tried[r] = FALSE]

\* release_robot_reservations.
ReleaseRobot(w, r) ==
    [w EXCEPT !.held = ReleaseAll(@, r), !.waits = ClearWait(@, r)]

\* build_path_events: books the path once more, from now on, or refuses.
BuildPathEvents(w, r, path) ==
    SetPath([w EXCEPT !.held = Take(@, r, PathSlots(path, 0))], r, path)

CanBuildPath(w, r, path) == Conflicts(w.held, r, path, 0) = {}

\* _handle_robot_becomes_idle with _plan_idle_move: to a nearest parking cell
\* without another robot, if there is a path.
NearestParking(f, r) ==
    LET open == {c \in Parking : OthersOn(f, r, c) = {}}
        dist(c) == Distance(f.pos[r], c) IN
    {c \in open : \A d \in open : dist(c) <= dist(d)}

BecomesIdle(f, w, r) ==
    IF f.pos[r] \in Parking \/ NearestParking(f, r) = {} THEN {w}
    ELSE {IF o.path # <<>> /\ CanBuildPath(o.plan, r, o.path)
          THEN BuildPathEvents(o.plan, r, o.path) ELSE o.plan :
             o \in UNION {CalculatePath(f, w, r, c, {}) : c \in NearestParking(f, r)}}

\* _evade_robot: one step to the first free neighbour that is no port.
EvadeCells(f, w, r, forbidden) ==
    {c \in Neighbours(f.pos[r]) \ (forbidden \cup Ports) :
        OthersOn(f, r, c) = {} /\ IsFree(w.held, r, <<c, 1>>)}

Evade(f, w, r, forbidden) ==
    LET cells == EvadeCells(f, w, r, forbidden) IN
    {SetPath([w EXCEPT !.held = Take(ReleaseAll(@, r), r, {<<c, 1>>}),
                       !.waits = ClearWait(@, r)], r, <<c>>) :
        c \in {d \in cells : \A e \in cells \ {d} : Before(d, e)}}

\* A robot gives up its task; it makes room or parks.
GiveUp(f, w, r) ==
    LET freed == ClearTask(ReleaseRobot(w, r), r) IN
    IF EvadeCells(f, freed, r, {}) # {} THEN Evade(f, freed, r, {})
    ELSE BecomesIdle(f, freed, r)

----------------------------------------------------------------------------
(* Deadlocks *)

\* _resolve_move_deadlock for one candidate: [victim, contested, waiter].
Forbidden(f, x) == {x.contested, f.pos[x.waiter]}

CanResolve(f, w, x) ==
    EvadeCells(f, w, x.victim, Forbidden(f, x)) # {} \/ w.task[x.victim] = "empty"

Resolve(f, w, x) ==
    IF EvadeCells(f, w, x.victim, Forbidden(f, x)) # {}
    THEN Evade(f, w, x.victim, Forbidden(f, x))
    ELSE BecomesIdle(f, ClearTask(ReleaseRobot(w, x.victim), x.victim), x.victim)

Candidate(victim, contested, waiter) ==
    [victim |-> victim, contested |-> contested, waiter |-> waiter]

\* The first candidate that can be resolved.
Resolvable(f, w, xs)   == \E i \in DOMAIN xs : CanResolve(f, w, xs[i])
ResolveFirst(f, w, xs) ==
    UNION {Resolve(f, w, xs[i]) : i \in {j \in DOMAIN xs :
              CanResolve(f, w, xs[j]) /\ \A k \in 1 .. j - 1 : ~CanResolve(f, w, xs[k])}}

Sorted(S) == SetToSortSeq(S, <)

\* _recover_stalled_move: the robot itself, then the robot on its next cell,
\* then the robots around it.
Rescues(f, r, next) ==
    LET blocker == OthersOn(f, r, next)
        ring    == {s \in Robots \ {r} : f.pos[s] \in Around(f.pos[r])} \ blocker
        others  == Sorted(blocker) \o Sorted(ring)
    IN  <<Candidate(r, next, IF blocker = {} THEN r ELSE Head(Sorted(blocker)))>>
          \o [i \in DOMAIN others |-> Candidate(others[i], f.pos[others[i]], r)]

\* (mutant) The rescued robot is not called again.
RecoverOnlyOthers(f, w, r, next) ==
    LET rescued == ResolveFirst(f, w, Rescues(f, r, next)) IN
    {[o EXCEPT !.tried[r] = @ /\ ~CanResolve(f, w, Rescues(f, r, next)[1])] : o \in rescued}

\* A fresh attempt at the next time; a robot that rescued itself has not tried.
Recover(f, w, r, next) ==
    LET rescued == ResolveFirst(f, w, Rescues(f, r, next)) IN
    {Push([o EXCEPT !.tried[r] = @ /\ ~CanResolve(f, w, Rescues(f, r, next)[1])], r, 1, 0) :
        o \in rescued}

\* _register_wait_and_try_resolve: a wait for another robot, and if it closes a
\* cycle, the victim or another robot of the cycle makes room.
CycleCandidates(r, cycle, victim, contested) ==
    LET others == Sorted((ToSet(cycle) \cup {r}) \ {victim})
        ranked == IF r \in ToSet(cycle) THEN <<victim>> \o others
                  ELSE <<victim>> \o Sorted(ToSet(cycle) \ {victim}) \o <<r>>
    IN  [i \in DOMAIN ranked |->
           Candidate(ranked[i], contested, IF ranked[i] = r THEN victim ELSE r)]

Taskless(w) == {r \in Robots : w.task[r] = "none"}

\* The lists of candidates that the registered waits may give: none without a
\* cycle.
Resolutions(w, r, contested) ==
    UNION {{CycleCandidates(r, cycle, victim, contested) :
              victim \in Victims(cycle, Taskless(w))} :
             cycle \in {DetectCycle(w.waits, order) : order \in EntryOrders(w.waits)} \ {<<>>}}

\* The plans after somebody has made room for r, which tries again later.
Resolved(f, w, r, contested, retry) ==
    UNION {{Delay(o, r, retry) : o \in ResolveFirst(f, w, xs)} :
             xs \in {c \in Resolutions(w, r, contested) : Resolvable(f, w, c)}}

\* Nobody waits in a circle, or nobody of it can make room.
Unresolved(f, w, r, contested) ==
    \/ Resolutions(w, r, contested) = {}
    \/ \E xs \in Resolutions(w, r, contested) : ~Resolvable(f, w, xs)

\* _replan_path_around_obstacle: all bookings are given up before the new path
\* is booked, from now on whenever it was planned for.
Replan(f, w, r, blocked, retry) ==
    IF blocked = Last(w.path[r]) THEN {Delay(w, r, retry)}
    ELSE {LET freed == [o.plan EXCEPT !.held = ReleaseAll(@, r)] IN
          IF o.path = <<>> THEN Delay(o.plan, r, retry)
          ELSE IF ~CanBuildPath(freed, r, o.path) THEN Delay(freed, r, retry)
          ELSE Push([freed EXCEPT !.held = Take(@, r, PathSlots(o.path, 0)),
                                  !.waits = ClearWait(@, r),
                                  !.path[r] = o.path], r, 1, 0) :
            o \in CalculatePath(f, w, r, Last(w.path[r]), {blocked})}

----------------------------------------------------------------------------
(* The other events *)

\* _schedule_next_action_for_task_new and _schedule_move_to_drop: to g, the
\* first move late time units later than it is booked for; the pickup or drop
\* event follows the last move.
Travel(f, w, r, g, late) ==
    {IF o.path = <<>> THEN [o.plan EXCEPT !.due[r] = 1 + late]
     ELSE [o.plan EXCEPT !.path[r]  = o.path,
                         !.moves[r] = @ \cup {<<late + i, 0>> : i \in DOMAIN o.path},
                         !.due[r]   = late + Len(o.path) + 1] :
        o \in CalculatePath(f, w, r, g, {})}

\* PICKSTATION_COMPLETE sends a robot to fetch a bin.  The port is reserved
\* first; without a path the robot has a task and no event.
Fetch(f, w, r, p) ==
    LET ready  == [w EXCEPT !.reserved[p] = r]
        NoPath(o) == [ClearTask(o, r) EXCEPT !.reserved[p] = None] IN
    IF ~MayReserve(f, w, r, p) THEN {w}
    ELSE IF OthersOn(f, r, p) # {} THEN {NoPath(ready)}
    ELSE {LET assigned == [o.plan EXCEPT !.task[r] = "empty", !.due[r] = None] IN
          IF o.path = <<>> THEN assigned
          ELSE IF ~CanBuildPath(o.plan, r, o.path) THEN NoPath(o.plan)
          ELSE [BuildPathEvents(assigned, r, o.path) EXCEPT !.due[r] = Len(o.path) + 1] :
            o \in CalculatePath(f, ready, r, p, {})}

\* _find_pickstation_exit_position: right, up, down, left.
ExitOrder(p) == <<<<p[1] + 1, p[2]>>, <<p[1], p[2] - 1>>, <<p[1], p[2] + 1>>, <<p[1] - 1, p[2]>>>>

\* _start_pickstation_service_and_release_robot: an exit is booked and the port
\* given up in the table; clear_task takes the path that was just set.
Deliver(f, w, r) ==
    LET p     == f.pos[r]
        Open(c) == c \in Cells /\ IsFree(w.held, r, <<c, 1>>)
        i     == SelectInSeq(ExitOrder(p), Open)
        left  == [w EXCEPT !.held = Release(Take(@, r, {<<ExitOrder(p)[i], 1>>}), r, <<p, 0>>)]
    IN  IF i = 0 THEN ClearTask(w, r) ELSE Push(ClearTask(left, r), r, 1, 0)

----------------------------------------------------------------------------
(* Actions *)

Running == plan.raised = "no"

\* Events of other kinds come before the moves of the same time.
OthersFirst == \A r \in Robots : plan.due[r] # 0

\* Robot r handles its first ROBOT_MOVE of this time; later ones are ignored.
\* What the event leaves of the plan:
Taken(r) ==
    [plan EXCEPT !.moves[r] = {m \in @ : m[1] > 0}, !.tried[r] = plan.path[r] # <<>>]

HandleMove(r, retry) ==
    /\ <<0, retry>> \in plan.moves[r] /\ r \notin handled
    /\ Running /\ OthersFirst
    /\ handled' = handled \cup {r}
    /\ UNCHANGED phase

Next_(r) == Head(plan.path[r])

CanRecover(r) == Resolvable(floor, plan, Rescues(floor, r, Next_(r)))

\* The attempt goes its ordinary way, when it is not the last one or nobody can
\* be moved out of the way.
HandlePath(r, retry) == HandleMove(r, retry) /\ plan.path[r] # <<>>
Ordinary(r, retry)   == retry < MaxRetries \/ ~CanRecover(r)

OnPort(r)  == Next_(r) \in Ports
\* (mutant) A robot that has somewhere to go does not count.
CrowdedByIdle(r) == {s \in OthersOn(floor, r, Next_(r)) : plan.path[s] = <<>>} # {}
Crowded(r) == OthersOn(floor, r, Next_(r)) # {}
InFront(r) == CHOOSE s \in OthersOn(floor, r, Next_(r)) : TRUE

\* The plan with the port reserved, if it can be: a stale reservation is
\* released first.
WithPort(r) ==
    LET p == Next_(r) IN
    IF ~OnPort(r) THEN Taken(r)
    ELSE IF MayReserve(floor, Taken(r), r, p) \/ StaleReservation(floor, Taken(r), p)
         THEN [Taken(r) EXCEPT !.reserved[p] = r]
         ELSE Taken(r)

InWay(r) == Crowded(r) /\ (OnPort(r) \/ IsFree(plan.held, r, <<Next_(r), 0>>))

\* No path is left: the event was superseded.
MoveWithoutPath(r, retry) ==
    /\ HandleMove(r, retry) /\ plan.path[r] = <<>>
    /\ plan' = Taken(r)
    /\ UNCHANGED <<floor, jobs>>

\* The last attempt, or one that takes too long (max_move_stall_before_recovery,
\* any time after the first attempt at this place): somebody makes room.
RecoverMove(r, retry) ==
    /\ HandlePath(r, retry)
    /\ retry = MaxRetries \/ plan.tried[r]
    /\ CanRecover(r)
    /\ plan' \in Recover(floor, Taken(r), r, Next_(r))
    /\ UNCHANGED <<floor, jobs>>

\* Another robot stands on the next cell; it may leave by itself.
MoveLater(r, retry) ==
    /\ HandlePath(r, retry) /\ retry < ReplanAfter /\ InWay(r) /\ Ordinary(r, retry)
    /\ plan' = Delay(Taken(r), r, retry)
    /\ UNCHANGED <<floor, jobs>>

\* _force_stale_robot_to_replan: the other robot's task is stale, and it is
\* sent on its way.
ForceBlocker(r, retry, g) ==
    /\ HandlePath(r, retry) /\ retry >= ForceReplanAfter /\ InWay(r)
    /\ plan.task[InFront(r)] # "none" /\ jobs < MaxJobs /\ Ordinary(r, retry)
    /\ plan' \in {Delay(o, r, retry) : o \in Travel(floor, Taken(r), InFront(r), g, 0)}
    /\ jobs' = jobs + 1
    /\ UNCHANGED floor

\* The other robot parks if it has no task; the wait is registered, and a
\* circle of waits resolved; otherwise the robot looks for a way around.
MeetRobot(r, retry) ==
    /\ HandlePath(r, retry) /\ retry >= ReplanAfter /\ InWay(r) /\ Ordinary(r, retry)
    /\ \E w \in IF retry >= ForceReplanAfter /\ plan.task[InFront(r)] = "none"
                THEN BecomesIdle(floor, Taken(r), InFront(r)) ELSE {Taken(r)} :
          LET waiting == [w EXCEPT !.waits = RegisterWait(@, r, InFront(r))] IN
          \/ plan' \in Resolved(floor, waiting, r, Next_(r), retry)
          \/ /\ Unresolved(floor, waiting, r, Next_(r))
             /\ plan' \in Replan(floor, waiting, r, Next_(r), retry)
    /\ UNCHANGED <<floor, jobs>>

\* The port is reserved for another robot, which is not there yet.
AwaitPort(r, retry) ==
    LET w      == WithPort(r)
        holder == w.reserved[Next_(r)]
        waiting == [w EXCEPT !.waits = RegisterWait(@, r, holder)] IN
    /\ HandlePath(r, retry) /\ OnPort(r) /\ ~Crowded(r) /\ holder # r
    /\ Ordinary(r, retry)
    /\ \/ /\ retry < ReplanAfter \/ holder = None
          /\ plan' = Delay(w, r, retry)
       \/ /\ retry >= ReplanAfter /\ holder # None
          /\ \/ plan' \in Resolved(floor, waiting, r, floor.pos[holder], retry)
             \/ /\ Unresolved(floor, waiting, r, floor.pos[holder])
                /\ plan' = Delay(waiting, r, retry)
    /\ UNCHANGED <<floor, jobs>>

\* Another robot has booked the next cell for this time.
AwaitSlot(r, retry) ==
    /\ HandlePath(r, retry)
    /\ ~IsFree(plan.held, r, <<Next_(r), 0>>)
    /\ OnPort(r) => ~Crowded(r) /\ WithPort(r).reserved[Next_(r)] = r
    /\ Ordinary(r, retry)
    /\ plan' = Delay(WithPort(r), r, retry)
    /\ UNCHANGED <<floor, jobs>>

\* The robot moves on: bookings it leaves behind, its wait, its attempt and
\* port reservations it no longer needs go; ports are entered and left; at the
\* end of the path a robot without a task parks.
Arrived(r) ==
    LET next == Next_(r)
        rest == Tail(plan.path[r])
        w    == WithPort(r)
        Stale(p) == /\ w.reserved[p] = r /\ floor.onPort[p] # r
                    /\ p # next /\ p \notin ToSet(rest)
        Left(p)  == p = floor.pos[r] /\ p # next
    IN  [w EXCEPT !.held     = Release(@, r, <<floor.pos[r], -1>>),
                  !.path[r]  = rest,
                  !.waits    = ClearWait(@, r),
                  !.tried[r] = FALSE,
                  !.reserved = [p \in Ports |-> IF Stale(p) \/ Left(p) THEN None ELSE @[p]]]

MayEnter(f, w, r, c) ==
    c \in Ports => w.reserved[c] = r /\ f.onPort[c] \in {None, r}

Advance(r, retry) ==
    LET next == Next_(r)
        w    == Arrived(r)
        f    == [pos    |-> [floor.pos EXCEPT ![r] = next],
                 onPort |-> [p \in Ports |-> IF p = next THEN r
                                             ELSE IF p = floor.pos[r] THEN None
                                             ELSE floor.onPort[p]]]
        last == [w EXCEPT !.held = ForgetPast(@, r)]
    IN
    /\ HandlePath(r, retry) /\ ~Crowded(r) /\ Ordinary(r, retry)
    /\ OnPort(r) => WithPort(r).reserved[next] = r
    /\ IsFree(plan.held, r, <<next, 0>>)
    /\ floor' = f
    /\ IF ~MayEnter(floor, WithPort(r), r, next) THEN plan' = [w EXCEPT !.raised = "port"]
       ELSE IF w.path[r] # <<>> THEN plan' = Push(w, r, 1, 0)
       ELSE IF w.task[r] # "none" THEN plan' = last
       ELSE plan' \in BecomesIdle(f, last, r)
    /\ UNCHANGED jobs

MoveStep(r, retry) ==
    \/ MoveWithoutPath(r, retry) \/ RecoverMove(r, retry) \/ MoveLater(r, retry)
    \/ \E g \in Stacks \cup Ports : ForceBlocker(r, retry, g)
    \/ MeetRobot(r, retry) \/ AwaitPort(r, retry) \/ AwaitSlot(r, retry)
    \/ Advance(r, retry)

----------------------------------------------------------------------------
(* The surroundings.  Requests arrive, pickups and drops happen at the      *)
(* times the events were made for, before the moves of the same time.       *)

Surroundings == handled = {} /\ Running /\ UNCHANGED <<floor, handled, phase>>

\* Where pickups and drops take place.
Goals == Stacks \cup Ports

\* A request is given to a robot that is idle and on no port.
Assign(r, g) ==
    /\ Surroundings /\ jobs < MaxJobs
    /\ plan.task[r] = "none" /\ floor.pos[r] \notin Ports
    /\ plan' \in Travel(floor, [plan EXCEPT !.task[r] = "empty"], r, g, 0)
    /\ jobs' = jobs + 1

FetchBin(r, p) ==
    /\ Surroundings /\ jobs < MaxJobs
    /\ plan.task[r] = "none"
    /\ plan' \in Fetch(floor, plan, r, p)
    /\ jobs' = jobs + 1

\* The pickup, drop or action event of a robot.
Fired(r) == [plan EXCEPT !.due[r] = None]

Event(r) == plan.due[r] = 0 /\ Surroundings

\* Tried in vain: the robot is not there yet, or the bin cannot be had.
Retry(r) ==
    /\ Event(r) /\ plan.task[r] # "none"
    /\ plan' = [plan EXCEPT !.due[r] = 1]
    /\ UNCHANGED jobs

\* ROBOT_ACTION on a port: the robot books the cell it stands on, and makes for
\* the next place, unless the event was a duplicate of one still to come.
Stay(r) ==
    LET here == <<floor.pos[r], 0>> IN
    [Fired(r) EXCEPT !.held = IF IsFree(@, r, here) THEN Take(@, r, {here}) ELSE @]

HandleAction(r, g) ==
    /\ Event(r) /\ plan.task[r] = "empty" /\ floor.pos[r] \in Ports
    /\ \/ /\ jobs < MaxJobs /\ jobs' = jobs + 1
          /\ plan' \in Travel(floor, Stay(r), r, g, 0)
       \/ /\ plan' = [Stay(r) EXCEPT !.due[r] = 1]
          /\ UNCHANGED jobs

\* The same or another place is made for anew.
PlanAnew(r, g) ==
    /\ Event(r) /\ plan.task[r] # "none" /\ jobs < MaxJobs
    /\ plan' \in Travel(floor, Fired(r), r, g, 0)
    /\ jobs' = jobs + 1

\* A bin is taken, and carried to its place after the time the pickup takes.
PickUp(r, g) ==
    /\ Event(r) /\ plan.task[r] = "empty" /\ floor.pos[r] \in Goals
    /\ jobs < MaxJobs
    /\ plan' \in Travel(floor, [Fired(r) EXCEPT !.task[r] = "carrying", !.tried[r] = FALSE],
                        r, g, PickupTime)
    /\ jobs' = jobs + 1

\* A bin is put down on a stack, and the task goes on.
PutDown(r, g) ==
    /\ Event(r) /\ plan.task[r] = "carrying" /\ floor.pos[r] \in Stacks
    /\ jobs < MaxJobs
    /\ plan' \in Travel(floor, [Fired(r) EXCEPT !.task[r] = "empty", !.tried[r] = FALSE],
                        r, g, 0)
    /\ jobs' = jobs + 1

DeliverBin(r) ==
    /\ Event(r) /\ plan.task[r] = "carrying" /\ floor.pos[r] \in Ports
    /\ plan' = Deliver(floor, Fired(r), r)
    /\ UNCHANGED jobs

\* The task goes back to the queue, with room made or without.
Requeue(r) ==
    /\ Event(r) /\ plan.task[r] = "empty"
    /\ \/ plan' \in GiveUp(floor, Fired(r), r)
       \/ plan' = ClearTask(Fired(r), r)
    /\ UNCHANGED jobs

\* REQUEST_COMPLETE: the bookings go, the wait stays.
Complete(r) ==
    /\ Event(r) /\ plan.task[r] = "empty"
    /\ plan' \in BecomesIdle(floor,
                    ClearTask([Fired(r) EXCEPT !.held = ReleaseAll(@, r)], r), r)
    /\ UNCHANGED jobs

\* The event of a task that was taken away.
Orphaned(r) ==
    /\ Event(r) /\ plan.task[r] = "none"
    /\ plan' \in BecomesIdle(floor, Fired(r), r)
    /\ UNCHANGED jobs

----------------------------------------------------------------------------
(* The clock *)

\* Nothing is left to do at this time.
TimeIsUp ==
    /\ OthersFirst
    /\ \A r \in Robots : (\E m \in plan.moves[r] : m[1] = 0) => r \in handled

\* The table a time unit later, tidied up when the period is over.
Shifted(held, tidy) ==
    [k \in Slots |-> IF <<k[1], k[2] + 1>> \notin Slots \/ (tidy /\ k[2] < 0)
                     THEN None ELSE held[<<k[1], k[2] + 1>>]]

Tick ==
    /\ Running /\ TimeIsUp
    /\ phase' = (phase + 1) % CleanupPeriod
    /\ plan' = [plan EXCEPT
         !.held  = Shifted(@, phase' = 0),
         !.moves = [r \in Robots |-> {<<m[1] - 1, m[2]>> : m \in {n \in @[r] : n[1] > 0}}],
         !.due   = [r \in Robots |-> IF @[r] = None THEN None ELSE @[r] - 1]]
    /\ handled' = {}
    /\ UNCHANGED <<floor, jobs>>

----------------------------------------------------------------------------

Init ==
    /\ \E at \in Starts : floor = [pos |-> at, onPort |-> [p \in Ports |-> None]]
    /\ plan = [path     |-> [r \in Robots |-> <<>>],
               moves    |-> [r \in Robots |-> {}],
               due      |-> [r \in Robots |-> None],
               held     |-> [k \in Slots |-> None],
               reserved |-> [p \in Ports |-> None],
               waits    |-> [r \in Robots |-> None],
               task     |-> [r \in Robots |-> "none"],
               tried    |-> [r \in Robots |-> FALSE],
               raised   |-> "no"]
    /\ handled = {} /\ phase = 0 /\ jobs = 0

Next ==
    \/ \E r \in Robots, retry \in 0 .. MaxRetries : MoveStep(r, retry)
    \/ \E r \in Robots :
          \/ \E g \in Goals :
                Assign(r, g) \/ HandleAction(r, g) \/ PlanAnew(r, g) \/ PickUp(r, g) \/ PutDown(r, g)
          \/ \E p \in Ports : FetchBin(r, p)
          \/ Retry(r) \/ DeliverBin(r) \/ Requeue(r) \/ Complete(r) \/ Orphaned(r)
    \/ Tick

Spec == Init /\ [][Next]_vars

----------------------------------------------------------------------------
(* Properties *)

TrafficTypeOK ==
    /\ floor \in FloorType
    /\ plan.path \in [Robots -> Seq(Cells)]
    /\ plan.moves \in [Robots -> SUBSET Moves]
    /\ plan.due \in [Robots -> Dues \cup {None}]
    /\ plan.held \in [Slots -> Robots \cup {None}]
    /\ plan.reserved \in [Ports -> Robots \cup {None}]
    /\ plan.waits \in WaitGraphs
    /\ plan.task \in [Robots -> {"none", "empty", "carrying"}]
    /\ plan.tried \in [Robots -> BOOLEAN]
    /\ plan.raised \in {"no", "retries", "port"}
    /\ handled \subseteq Robots /\ phase \in 0 .. CleanupPeriod - 1 /\ jobs \in 0 .. MaxJobs

\* Two robots never stand on one cell, though a replan may lose its bookings
\* and an evasion or a fallback path never had any: the move looks itself.
OneRobotPerCell ==
    \A r, s \in Robots : r # s => floor.pos[r] # floor.pos[s]

\* The port's own notes agree with the floor: the robot it has on it stands
\* there and still holds its reservation, whoever tried to reserve the port in
\* the meantime; so robot_enters never raises, and robot_leaves clears no one
\* else's presence.
PortPresence ==
    /\ \A p \in Ports : floor.onPort[p] # None =>
          /\ floor.pos[floor.onPort[p]] = p
          /\ plan.reserved[p] = floor.onPort[p]
    /\ plan.raised # "port"

\* No lost wake-up: a robot with a path left has a ROBOT_MOVE event that is
\* still to come, whichever handler set the path, shortened or replaced it.
PathHasMove ==
    Running => \A r \in Robots : plan.path[r] # <<>> =>
        \E m \in plan.moves[r] : m[1] > 0 \/ r \notin handled

\* A robot never jumps: every waypoint is beside the one before it, the first
\* beside the robot, also when the path was replaced by a handler of another
\* robot, or planned while an older path was still being walked.
PathsAreWalks ==
    \A r \in Robots : \A i \in DOMAIN plan.path[r] :
        Distance(plan.path[r][i],
                 IF i = 1 THEN floor.pos[r] ELSE plan.path[r][i - 1]) <= 1

\* Whenever somebody begins or stops to wait, the search would find a cycle if
\* and only if some robot waits for itself through others, and what it returns
\* is such a cycle: for the waits of these robots and any waits of others that
\* drive elsewhere or come in between, in any order of the entries.
ExactGraphs == {g : g \in {h \in [Waiting -> Waiting \cup {None}] : SearchIsExact(h)}}

DetectorIsExact ==
    [][\A others \in [Waiting \ Robots -> Waiting \cup {None}] :
          plan'.waits @@ others \in ExactGraphs]_(plan.waits)

=============================================================================
