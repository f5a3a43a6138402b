# Verification of the compact storage simulation

The repository is a discrete-event simulation of a warehouse in which bins are
stacked in a grid and can only be taken from the top of a stack.  Several robots
dig for requested bins, carry them to a pickstation and put them back.  The
program is single-threaded; what makes it concurrent is its event queue.  Every
robot, every station and the stream of requests have events pending, an event
acts on what it was scheduled for while the world has moved on, and the order of
the events depends on travel times and traffic.  The models below are about that.

## 1. Inventory

| Part | State | Operations | Hard behaviour | What makes it correct |
|---|---|---|---|---|
| Active queue (`requests_/active_queue.py`) | pending, assigned, waiting tasks, tasks at a station, batch waitlists, owner of each relocated blocker | `add`, `mark_assigned`, `mark_task_assigned`, `add_waiting_task`, `add_pickstation_task`, `mark_completed`, `register/release_blocker_ownership`, queries of reserved bins | one request passes through the containers in the handlers of many events | a request is in exactly one container; no two tasks for one bin; owners and relocations agree |
| Robot task (`simulation/robot_task.py`) | phase, flags, `temp_storage` of relocated blockers, batched requests | remember / restore / forget a relocation, station done, target returned, completion test | changed by handlers and, as a side effect, by the strategy | blockers come back last in, first out; the consistency checks never raise |
| Strategy (`strategies/top_access_strategy.py` and selectors) | none of its own | `next_action` per phase; relocation, placement and reordering selection | its answer is carried out much later; asking has side effects | destinations are still right when the bin arrives |
| Event handlers (`simulation/event_handler.py`) | pending events, stacks, bins, robots' load and task | ARRIVAL, MOVE, PICKUP, DROP, ROBOT_ACTION, PICKSTATION_COMPLETE, REQUEST_COMPLETE | stale events after a requeue, retries, redirects, recoveries | bins are conserved, deliveries are booked on the right task, every request completes |
| Scheduler (`simulation/scheduler.py`) | none | `try_schedule`: waiting tasks first, then FIFO or EDF | runs only after three kinds of events | no task is left behind |
| Pickstation (`state/pickstation.py`) | queue, running services, reservation and occupant of the port | enqueue, start / complete service, reserve, enter, leave | port reserved by one robot and entered by another | one robot on the port; a free slot takes the next task |
| Engine (`simulation/simulation_engine.py`) | clock, event queue, future requests | `step` | clock moves for arrivals and for events; deadlock victim | no event in the past; no early end |
| Reservation table (`traffic/reservation_table.py`) | slots (a cell at a time) in two indexes | reserve, reserve a path, release, cleanup | a conflict in the middle of a path; two indexes with a loop each | at most one robot per slot; indexes agree; the past is forgotten |
| Movement (`event_handler.py:185-1110`, `event_builder.py`, `state/robot.py`) | positions, paths, pending ROBOT_MOVE events, stall records | move, wait, replan, evade, rescue, park | handlers of one robot change the path of another while events of its old path are pending | no two robots on a cell; nobody on his way is forgotten; a path stays a walk |
| Traffic manager, path finder, port exit guard, idle parking (`traffic/`) | none of their own | request a path, keep exits free, find a parking cell | refusals, several attempts, fallback without bookings | paths are walks |
| Deadlock detector (`traffic/deadlock_detector.py`) | wait-for graph | register and clear a wait, find a cycle, choose a victim | stale edges; order of the entries | a cycle is found if and only if there is one |
| Experiment campaign (`experiments/run_final_campaign.py`, `run_export.py`, `run_health.py`, `campaign_matrix.py`) | status file, four tables, metadata, logs | plan, purge, run, export, record, final check; `--resume` | the process dies between two files or within a line; retries; calls for some of the runs, or for one twice | what is completed is exported and stays so; PASS means every row once; logs of failures stay |
| Metrics, visualisation, configuration | measurements | observers | none | outside the simulation's state |

The handlers call the strategy, the strategy reads queue and stacks and changes
the task and the ownership in the queue; handlers change robots, bins, stations
and push events; the engine takes the next event and runs the scheduling loop
after ARRIVAL, REQUEST_COMPLETE and PICKSTATION_COMPLETE.  A move asks the reservation
table and the stations; a robot that does not get on asks the traffic manager for another
path, which asks path finder, exit guard and table and notes waits in the deadlock
detector; its answer may send a third robot away.  The campaign runs the engine once for
each policy and seed and keeps what comes out.

The project's own consistency oracle, `tests/audit_harness.py:165-440`, names
many of the conditions checked here (BIN_LOST, BIN_MULTI_CARRIER,
TASK_WAITING_AND_ASSIGNED, TASK_MULTI_ROBOT, BLOCKER_OWNERSHIP_ORPHAN,
TEMP_STORAGE_BIN_NOT_IN_BUFFER); it samples the runs that were made, the models
cover every order of events of an instance.

The hazards of the code, each at its line with the properties aimed at it, are
listed under `hazards` in PROJECT.json.

## 2. Modules

| Module | Models | Correspondence |
|---|---|---|
| `Warehouse` | vocabulary: requests, stacks, actions | a stack is the sequence of its bins, last on top; an action record is the dictionary the strategy returns; exceptions are the answers `Raise` and `NoStack` |
| `RobotTask` | `simulation/robot_task.py` | one record per task, one operator per method; a task is identified with its request |
| `ActiveQueue` | `requests_/active_queue.py` | one record with a field per container, one operator per method |
| `TopAccessStrategy` | `next_action` and the selectors | `NextAction(w, q)` is the *set* of outcomes (changed task, changed queue, action): one for each stack a selector may choose |
| `TaskLifecycle` | the handlers, the scheduler, the station's service, the recoveries | one action per handled event or scheduling round, see below |
| `TaskLifecycleMC` | | instances for TLC |
| `TaskLifecycle_proofs` | | theorems and proofs: types, bins, heights |
| `TaskQueue_proofs`, `RobotChain_proofs`, `TaskLife_proofs`, `Blockers_proofs` | | theorems and proofs: queue and robots; events and loads; requests and stations; relocated blockers and the phases of a task |
| `SlotBook` | what the reservation table promises | the abstract specification: a robot takes free slots and gives up its own, time takes what is past |
| `ReservationTable` | `traffic/reservation_table.py` and the calls to it | the two dictionaries as one record; a robot's list is how often each slot is on it (its order is never read); one operator per method.  `Book == INSTANCE SlotBook WITH held <- table.held, time <- now` |
| `ReservationTableMC`, `ReservationTable_proofs` | | instance for TLC; theorems and proofs |
| `DeadlockDetector` | `traffic/deadlock_detector.py` | a wait graph is a function from robots to whom they wait for; the depth-first search is a recursive function; the order of the dictionary is an argument |
| `Traffic` | the MOVE handler and all that it calls, the engine's clock | `floor` (positions, occupants of ports) and `plan` (paths, events, bookings, waits), see below |
| `TrafficMC`, `Traffic_proofs` | | instance for TLC; theorems and proofs |
| `Campaign` | the campaign runner | files as sequences of lines, a process with a program counter, see below |
| `CampaignMC`, `Campaign_proofs` | | instance for TLC; theorems and proofs |

`TaskLifecycle` extends the first four, `Traffic` extends `DeadlockDetector`.
The actions of `TaskLifecycle`:

* `Arrival`, `ScheduleWaiting`, `ScheduleNew`, `ScheduleDone`: ARRIVAL and
  `schedule_available_robots`; `pc` is `"schedule"` while the loop runs.
* `Pickup`, `HandleDrop`, `RobotAction`: the events of a robot, with their
  guards against duplicates, stale and foreign events in the order of the code,
  their redirects and their requeues.
* `PickstationComplete`, `RequestComplete`.
* `RequeueVictim`, `ForceReplan`: what the MOVE handler and the engine's deadlock
  resolution do to tasks.

`ReservationTable` stands alone.  Its actions are what the callers do to the table:
`ReserveCell` (an action is carried out), `BookPath` (planning, replanning,
evasion), `LeavePort`, `Move`, `ForgetPast`, `ReleaseRobot`, and `AdvanceTime`, the engine's
clock with the cleanup at every tenth time unit.  Where a handler makes several
calls (a replan releases everything and books again), they are separate steps here, so
more interleavings are checked than occur.  Of a robot only its cell is kept: a path starts
beside it, and it moves to any cell beside it that the MOVE handler would let it enter.

`Traffic` is the MOVE handler on a grid.  One call of it is one of

* `MoveWithoutPath`: the event was superseded;
* `RecoverMove`: the last attempt, or one that takes too long: the robot itself, the robot
  in its way or one around it makes room;
* `MoveLater`, `ForceBlocker`, `MeetRobot`: another robot stands on the next cell; wait,
  send it away, or register the wait, resolve a circle of waits, or plan a way around;
* `AwaitPort`, `AwaitSlot`: the port is reserved, or the cell booked, for another robot;
* `Advance`: the robot moves, leaves and enters ports, and parks at the end of its way.

The small steps these share (`SetPath`, `Delay`, `Evade`, `BecomesIdle`, `GiveUp`,
`Replan`, ...) are operators from a plan to the set of plans it may become, named for the
methods.  The handlers of the other events are the surroundings: `Assign`, `FetchBin`,
`HandleAction`, `Retry`, `PlanAnew`, `PickUp`, `PutDown`, `DeliverBin`, `Requeue`, `Complete`, `Orphaned`
do to tasks and paths what those handlers do, at the times they happen and before
the moves of the same time; what else they do is in `TaskLifecycle`.  `Tick` is the
clock: it needs that nothing is left to do now, and shifts the table, so that all times
are relative to the present.  The path finder is the set of shortest paths in
space and time (A* returns one of them), the attempts of `request_path` are `RequestPath` with the
wait it leaves, and the fallback is `ManhattanPath`.  Only the dictionary of the table is kept:
`ReservationTable` shows that the lists say the same.  `MaxJobs` bounds how often
the other events plan a path, `MaxPath` the length of a planned path; `Waiting` holds the robots
of the grid and others that wait elsewhere, so that the search for cycles is checked on
larger graphs than two robots can form.

`Campaign` has one process and what it leaves on the disk.  `Start` is a call
with the lists that `--policy` and `--seed` were given, for a smoke test or not; `Plan` crosses them in
the order of the code and keeps doubles, and the runs still to do are the list made of it at the start.
`PurgeTable`, `PurgeMeta`, `Open`, `BeginRun`, `EndRun`,
`RecordFailure`, `BeginExport`, `WriteRows`, `Flush`, `AddMeta`, `RecordCompleted` and
`Close` are the stretches between two effects on files.  What can go wrong in one: `PurgeRaises` (a
kept row has more fields than the header), `EndRun` (the simulation raises or gives a hard signal),
`RowFails`, `FlushFails` and `MetaFails` (a row cannot be made, a flush or the metadata raise; the
campaign records `export_failed` and closes the files), and `Crash`, which may come between any
two; then a prefix of the buffered lines is in the file, the last perhaps
broken off (`Torn`).  A broken run_id may be that of another run, if the one
begins with the other, and the next line is appended to the broken one.  The log of a run is
known by the number of its attempt, and so is each that was set aside (`SetAside`), which replaces
what was kept under its number.  `MaxFaults` bounds deaths and failures together.

What `reserve_path` books in its second loop is `ReserveEach`, the effect of one `reserve` for each slot,
those that are refused left out.  The `reserve`s do not affect each other, since the slots of a path differ in time.

Abstractions in `TaskLifecycle`.  *Time and positions*: any pending event may be next, except that a
REQUEST_COMPLETE (highest priority, current time) precedes all others.  Every order the
durations can produce is thus included, and some that they cannot.  A delayed
event, which the code pushes again unchanged, is a step that changes nothing and
is left out.  *Retry counters*: reaching the limit is a choice; recoveries that
take a task off a robot are bounded by `MaxRequeues`.  *Traffic*: the outcomes
`exit_blocked`, `no_path` and `action_exhausted` happen only when `Faults` contains them.
*Selectors*: costs, distances and popularity are left open.

## 3. Runs

The simulation's instances have two robots.  The first eight runs use
`TaskLifecycleMC`, `reservations` and `head_on` use `ReservationTableMC`, the last two the modules
named after them.

| Run | Instance | Question |
|---|---|---|
| `lifecycle` | 3 requests, two of them for a bin under two blockers, 4 bins, 4 stacks, 1 station; ORIGINAL, LOFI, EDF; no recovery | Is every request served, with nothing lost or doubled, with at most one event chain per robot, stations busy, blockers back in order? |
| `two_digs` | 2 requests, each under one blocker; height 2, 2 stations; NEAREST, other reorderings, FIFO | Are relocated blockers kept from being buried, is a stack that filled up meanwhile never overfilled, and do two digs never block each other? |
| `keep_blockers` | blockers stay where they are; the second request wants the first one's blocker | Is all ownership released, does no check raise? |
| `recoveries` | 1 recovery anywhere, all faults, 3 requests | Do stale events break conservation or agreement, and does every owner of a blocker remember it? |
| `waitlist`, `carrying`, `wrong_bin` | | Violations, section 4 |
| `relocated_twice` | one target under another under a blocker; a third robot's target leaves a stack that may take both; blockers stay where they are | Violation, section 4 |
| `reservations` | three cells in a row, times 0 to 2, cleanup every 2, paths of two waypoints | Do both halves of the table agree, are slots exclusive, is the past forgotten, and does the table implement the abstract book (`BookKept`)? |
| `head_on` | the same | Violation, section 4 |
| `traffic` | 2 by 2 cells, a port in one corner and a stack in the opposite one, a robot on each at the start; 3 jobs, 3 retries, replanning after 1 and forcing after 2 of them, 2 attempts, cleanup every 2, paths of at most 3 waypoints; wait graphs of 4 robots | With every tie of the planner, evasion, rescue and lost task: do robots ever share a cell, do ports know their robot, is a robot on its way ever forgotten or made to jump, and does the search find exactly the cycles? |
| `campaign` | 1 policy, 2 seeds of which the id of one begins with that of the other, 2 lines per table, 2 attempts, 2 crashes | Is what the status calls completed exported exactly once, does PASS mean a complete campaign, are the logs of failures kept? |

Bounds.  Two robots are enough for one event of a robot to act on what another
changed; three requests for one to arrive at each phase of another (batching,
waiting, station).  Two blockers are the least for which order matters.  One
recovery leaves one stale chain of events behind, which can meet one new chain.
The fourth stack of `lifecycle` is there because with three the relocation
selector legitimately finds no candidate and the program stops with an error;
`recoveries` runs with three and allows that stop.  `BlockersNotBuried` is a
property of instances with room for another choice: with ORIGINAL placement the
home stack is the only candidate, and the code then buries and later unburies
(`_next_unbury_action`), which `lifecycle` includes.  For the table two robots and two
waypoints are the least at which paths conflict in the middle or meet head-on, and
three times the least at which a cleanup leaves something behind; the theorems
of section 5 cover all other sizes.

On the floor of `traffic` a robot has one way around another, the only port has two exits, of
which one may be lost, and each of the ladder's rungs (wait, replan, force, rescue) is reached before the
retries are used up; every action is taken.  Three jobs give both robots a task and
one of them a second one over the leftovers of its first.  In a smaller grid nobody can get past;
larger ones and more robots are covered by the theorems, except for the type invariant and the
detector.  The search for cycles is compared with its definition, whenever a robot begins
or stops to wait, on every graph that extends the waits by those of two more robots, in every order of the
entries.  The parameters of the code are 20 retries, 3 attempts and a cleanup every 10
units; the smaller ones keep the order of the thresholds.

Two runs are the least at which a purge can spare one and take the other, and at which a call for some
of the runs meets results of others.  The calls are for both runs, for the one whose id begins the other's, and for the
other named twice; every order of them is checked, each as a smoke test and not.  Two faults
(`MaxFaults`) are two deaths, two failures, or one of each.  A first death can leave a broken line, a
second one can break off behind it or interrupt its repair; a failure before a death gives the
process a log to lose.  Two lines per table distinguish the first
row of a run, which can be lost, from the others.

Fairness (`FairSpec`): weak fairness of arrivals (the request stream is
finite), of the scheduling loop, of each robot's events, of each station's service
and of REQUEST_COMPLETE.  The engine takes events in the order of their times, and
an event that is delayed gets a later time but is never dropped before its retry
limit, so every pending event is eventually handled.  That a robot gets
through traffic is thereby assumed, not shown.  Liveness is stated for
`MaxRequeues = 0` and `Faults = {}`.  With recoveries it does not hold: a
requeued task waits for a scheduling round, and nothing guarantees another event
that causes one (`simulation_engine.py:381`).  CHECK_DEADLOCK is FALSE in the runs of the simulation because a run of it ends when all
requests are served, or on an error (in `traffic` and `reservations` also when the bounds are
used up); `campaign` is checked for deadlock, since it can always be called again.

No liveness is claimed for the movement.  Nothing in the code rules out that two robots
without tasks send each other away and come back to the same parking cells, and a
robot that waits is only served before its retries end if others make
progress.  What is claimed instead is `PathHasMove`: no handler ever leaves a robot on
its way without an event to come.

## 4. Disagreements between code and documentation

1. `waitlist`: a request for a bin that is reserved only as another task's relocated
   blocker goes to a batch waitlist (`active_queue.py:27`) which that task never
   releases; the docstring promises batching after completion.
2. `carrying`: documentation says that a carrying robot is never requeued; the
   retry limit of ROBOT_ACTION requeues without that test (`event_handler.py:2998`).
3. `wrong_bin`: a delivery is booked on the robot's current task and not on the
   task of the event (`event_handler.py:1884`); the data validity audit leaves the
   case open and assumes it does not occur.

4. `head_on`: the reservation table names the absence of head-on and swap
   collisions as its invariants, but `reserve` and the first waypoint of a path are
   not tested (`reservation_table.py:165`), so the table can hold the exchange of two robots.
   The MOVE handler's test of the occupied cell still prevents the collision.
5. `relocated_twice`: a robot lifts a blocker off a stack with its own target; meanwhile another
   robot, which digs in the same stack, moves that target to the stack where the blocker is to go and
   finishes.  The first robot then puts the blocker on its own target and must dig it out again:
   its task holds two relocations of one bin.  When a third task takes the bin, the first of the two goes and
   with it the ownership (`robot_task.py:200`); the other stays, although `temp_storage` is said to hold only what must still be
   returned (`event_handler.py:2296`).  The run leaves blockers where they are.  Where they are returned
   the bin is dug out twice, too, but on this instance no check raises.

Observed in `Campaign`, and allowed by name in its properties:

* The log of a recorded failure is lost in this order: attempt 1 fails and is recorded; attempt 2 sets its log
  aside as `failed-1`, writes its own and the process dies before the status; attempt 3 finds a failed run with one
  attempt and a log, and `replace` puts the second log in the place of the first.  `run_final_campaign.py:84-85` and
  `197-199` say that failed attempts keep their logs (and `test_campaign_resume.py:244-259` tests it without a death).
  `FailuresKeepTheirLogs` allows exactly this replacement, after a death.
* `--seed 7 --seed 7` runs and exports run 7 twice.  The run is completed, so no later call purges
  it, and the integrity check fails from then on, although `purge_runs` exists so that there is exactly
  one record per run (`run_export.py:407-413`).  `CompletedIsExported` therefore speaks of a line and not of one line.
* PASS is possible although the first row of a run is missing in retrievals, requests or
  distribution, when it was appended to a broken line (`PassMeansExact` allows exactly this).
* A row with more fields than the header stays behind such a line; when another run is purged from
  the file, `DictWriter` raises and the call ends, and so does every later one that must purge that run (`PurgeRaises`).
* The rest of a broken run_id may be the id of another run, whose integrity check then fails; a row
  with a garbled id belongs to no run and cannot be purged, so that the check fails for ever.
* The message about a failed run names a log that exists only after its next attempt.

In `Traffic`: `request_path` does not register a wait for the robot with id 0, since it tests
the id for truth (`traffic_manager.py:282`); the model does the same.

The first three need either a particular order of arrivals or a recovery, the last a particular pile, and
are excluded by the bounds of the passing runs that would otherwise meet them.

## 5. Proofs

For all values of the constants that satisfy the named assumptions
(`WarehouseAssumption`, `StrategyAssumption`, `LifecycleAssumption`):

* `TypeCorrect`: `Spec => []TypeOK`.  `TypeOK` is inductive.  The bulk is about the
  strategy: `NextActionOK` shows that every outcome is a well-formed task, queue
  and action, by one lemma per phase, and `PushEventsOK` that the bag of events stays well
  formed.  `NextType` has one case per action.
* `BinsConserved`: `Spec => []EveryBinInOnePlace`, inductive together with
  `TypeOK`.  Each step leaves the bins alone or moves one bin in one of three
  ways (`TakesBin`, `PutsBin`, `HandsOver`); the guards of PICKUP (on top) and DROP (in transit) are
  exactly what each needs.  It holds with every fault and any number of recoveries.
* `StackHeights`: `Spec => []HeightOK`, from the same classification: only
  `PutsBin` lets a stack grow, and it follows `FullOnDrop`.

The four modules that follow prove more of the life cycle, each with the invariants of the ones
before it.  Every inductive invariant was first checked by TLC on the constants of the runs.

* `TaskQueue_proofs`: `AssignmentsMatch` (`Spec => []AssignmentsAgree`) and `TargetsDistinct`
  (`Spec => []DistinctTargets`), with every fault and any number of recoveries.  The invariant is
  `QueueInv`: the containers are disjoint, without repetitions and hold only requests that have
  arrived; a batched request waits behind its own bin; who is at a station is on the station's list, once; a
  completion that is due belongs to the task its robot holds.  The last is why a
  REQUEST_COMPLETE, which frees a robot without a look at the queue, frees the right one.
  `Moves` reduces every step to seven ways in which requests change containers (a task `Stays`, a
  robot `GivesUp` or `Delivers` one, and the five actions that schedule, complete or add some); each
  has a lemma.  That nothing is known of the events of a robot is no obstacle: a stale event
  either does nothing to the queue or acts for the task that its robot now holds.
* `RobotChain_proofs`: `OneEventPerRobot`, `LoadsAgree` and `BinsStayAtStation`: `AtMostOneEvent`,
  `CarriedBinsMove` and `BinAtItsStation` hold *until the first recovery* (`requeues = 0`).  The
  invariant is `ChainInv`.  Its first part, `OneChain`, says that a robot is quiet (no event of its
  own, at most a completion of its task) or has exactly one event, which names the task it holds and, if it is a DROP,
  the bin it carries; every handler consumes the event and schedules at most one.  The others relate
  that event to the load and the load to the stations: a bin in transit is on one robot, and a
  carried bin is `stored`, but for a target on its way back.
* `TaskLife_proofs`: `NoRequestLost`: until then, `OneContainer`.  That no request is in two
  containers is `QueueInv`; that it is in one needs that the search of the waiting list, which
  forgets tasks that have ended, meets none.  `LifeInv` says so: a task that has ended is done or due to be
  (`EndedIsDone`); a target is marked removed only while its task is active
  and the bin at the station (`RemovedAtStation`), because the strategy takes a removed target
  that is not at the station for returned, and ends the task.  `Follows` is
  what `next_action` may do to these marks, with one lemma per phase.
* `StationsStayBusy`: `Spec => []StationBusy` if `"exit_blocked" \notin Faults`, for every capacity
  and any number of recoveries.  The assumption is what the code needs: when a robot finds no free cell to leave the
  port to, or cannot book it, the handler returns before the call that starts the service.

* `Blockers_proofs`: what tasks remember of the blockers they dug out, against the owners in the queue and against the
  stacks.  `OwnersRememberTheirBlockers` (`Spec => []OwnersRemember`) holds with every fault and any number of recoveries: `ClaimStep` lists
  what a step may do to both (nothing, dig a bin out, put it back, take it over from another task, end a task), and none of
  it leaves an owner that has forgotten its bin.  The other half of `OwnershipBacked` is more than
  that half reversed: a relocation must not lose its owner to the pickup of a stale or foreign event.
  `OwnershipMatches` is `Spec /\ []RelocatedOnce => [](requeues = 0 => OwnershipBacked)`.  The invariant `OwnersInv` adds `LoadsFree`,
  that nobody but the request it is lifted for owns a bin a robot carries; it
  rests on `ChainInv` and on `EventStep`, which says where each event after a step comes from.
  `BlockersWhereRemembered`, under the same hypothesis, is that a blocker lies where its task remembers it.
  Its invariant `PlacesInv` adds three things: no stack holds two blockers of one task (`Spread`), no
  task has relocated its target (`TargetApart`), and what an event is about to do fits what its task
  remembers (`Fits`): what it digs out is not its target and goes to a stack without a blocker of the same task, what it moves aside is no
  blocker of its own, and a return fetches from the remembered stack.  `Spread` and `Fits` need each other: a
  redirect may change the destination of a bin in the air, and only that it
  avoids every stack with a reserved bin keeps blockers apart.  `NoReturnFails`, that the check in
  `mark_last_relocation_restored` never raises in these states, is a step of the proof.
  `NoRuntimeErrors`, under the same hypothesis again, is that no check raises at all: neither that one, nor the three of
  the strategy, nor those of the delivery, the return and the completion of a target.  (A selector without
  a candidate ends the run as `no_stack`, which a full store can bring about; the theorem does not speak of it.)
  Its invariant `PhaseInv` says what each phase of a task means for the rest of the state: what has happened to the task and
  that it knows the home of its target (`Known`); that a target at a station belongs to a running task that has
  removed it (`HeldAtStation`, the converse of `RemovedAtStation`, so the strategy finds every target where the phase puts it);
  that a task only returns its target once its list of relocations is empty (`Emptied`), which must survive a late DROP; that a pending
  event is for an action of the phase its task is in (`Timely`); and that the one completion that
  may be due is consistent and comes next (`CompletionDue`).  `StepKinds` is the argument: a step either lets
  every task go on in its phase, or from waiting and restoring to the return (`Onward`), or it hands
  a target over, lays one down, or completes a request.

`RelocatedOnce` is a hypothesis there and not a theorem, because it is false: `relocated_twice` leaves it, and
`OwnershipBacked` with it.  No run checks it: it could only hold on an instance that
leaves out the pile of `relocated_twice`.  A behaviour that satisfies it throughout is one in
which no robot puts a blocker on its own target.

The condition `requeues = 0` is necessary, not convenience: a recovery takes the task off the robot and may leave
its pending event (`_resolve_move_deadlock` deletes none), which may then meet the robot's next
task.  With one recovery allowed, TLC finds each of the four invariants violated on the
constants of `recoveries`; the runs that check them have `MaxRequeues = 0`.  `AssignmentsAgree`,
`DistinctTargets`, `EveryBinInOnePlace` and `HeightOK` survive recoveries, and are proved for them.

For the reservation table, from `TableAssumption` (a grid with cells, a positive
period; paths, robots and horizon of any size):

* `TableTypeCorrect`, `TableIndexesAgree`, `SlotsExclusive`: one inductive
  invariant, `Good(table)`, types and agreement of the indexes.  Agreement is what
  is needed: `release_all` trusts the list, `reserve` the dictionary.  One lemma per
  method (`EnterGood`, `DeleteGood`, `ReleaseAllGood`), one case per action.
* `PastForgotten`: a step books nothing that lies before the clock
  (`NothingFromThePast`), and the clock passes a multiple of the period only
  with a cleanup.
* `TableImplementsBook`: `Spec => BookKept`, the refinement: the initial table is the empty book, and
  each action is a `Trade` of its robot, a `Pass` of time, or changes nothing that the book shows
  (`CallTrades`, `BookStep`).  It rests on `Good`: `release_all` deletes what the list
  names, and only the agreement of the indexes makes that the robot's own slots.

For the movement, from `TrafficAssumption` (ports and stacks on the grid and apart, robots
that start apart, positive periods), for every grid, number of robots and ports, and every bound:

* `NoCollisions`, `PortsKnowTheirRobot`, `NoLostWakeUp`, `NoJumps`: the four invariants of
  `traffic`, from one inductive invariant `Holds` of floor, plan and the robots that have
  moved at this time.  Handlers are chains of small steps, so the proof has a relation `Step` between
  plans: no event is taken away, a path stays, goes, or is a walk from where its robot stands with an event
  to come, and whoever is on a port keeps his reservation.  Each method has a
  lemma that it is a `Step` (`EvadeSteps`, `ReplanSteps`, `RecoverSteps`, ...), `StepsAdd` composes
  them, `StepHolds` and `MoveHolds` conclude for the events in which nobody moves.  `ArrivedHolds` is the move
  itself: it needs that a cell is only entered when no other robot is on it, and
  that a port's occupant has its reservation, so that a stale one is never that of an occupant.
  `TickHolds` needs that time only passes when every robot with an event of now has had it.
  `NoCollisions` shows that bookings are not what keeps robots apart: it holds
  although replans lose them and fallback paths have none.

For the campaign, from `CampaignAssumption`:

* `CampaignTypes`: `Spec => []CampaignTypeOK`.  The invariant `TypesOK` adds what the fields of the process
  mean at each of its steps: `step` counts tables only while they are purged or written, a
  buffer exists only while its table is written or the files are closed after a failure, a run that failed was tried, a table that
  is broken off has a last line.
  `PlanType` needs that the crossing of two lists is a list of runs, which rests on division with remainder (`Division`).
* `LogsKept`: `Spec => []FailuresKeepTheirLogs`, by `LogsOK`.  A log is that of the last recorded attempt or
  of the one after it; it is the latter only while the attempt is `Unrecorded`, or after a death; and
  while a run is being done, the log of its recorded failure is `Kept` already, so that the attempt
  that writes its own log overwrites nothing.
* `CompletedExported`: `Spec => []CompletedIsExported`, by `ExportOK`.  The status file is written
  after the tables and the metadata, so the invariant follows a run through
  them: a run that is being done has its line in runs.csv from the first flush on (`RunOK`), and its entry when the metadata
  are written.  A run that is completed keeps both (`CompletedOK`), because only open runs of the plan are purged
  (`TodoOK`), the tables are emptied only when nothing is completed, and the writer's own list of metadata, read when the
  tables are opened and written over the file for each run, has the completed runs.
  It needs that runs.csv never ends in a broken line (`Whole`): its one line is written at once (`BufferOK`).
* `PassExact`: `Spec => []PassMeansExact`, by `RowsOK`.  The rows of the other three tables may be cut by a death: a
  broken line is the last and is no row of any run (`LinesOK`: number 0, though it may carry the run_id of one), and the
  line that comes after it merges with it, so only the first row of the next run can be lost: that
  `PassMeansExact` excepts this row is what the code does, not a limit of the proof.  That nothing is there
  twice cannot be an invariant, since a run that is named twice is exported twice; but then it has two lines in
  runs.csv, and the check fails.  So `CompletedRows` speaks of the completed runs with a `Single` line there: they have their
  rows once in each table.  `OpenRows` says of runs to do, and `DoneRows` of the run being done, that tables hold none of
  their rows until they are written, unless runs.csv has a line of the run already.
  PASS is only said when all runs are completed, each with one line, and none of them by a smoke test (`PassOK`).

  `Purged` and `Start` leave elements out with `Without`, a recursive function.  What it keeps
  (`WithoutKeeps`) is proved by induction on the prefixes, with the lemma `Induct`, which follows from
  the well-foundedness of < on the numbers and takes a set instead of a predicate.

Only model-checked: of `TaskLifecycle`, `BlockersKeepOrder` (the order of a task's
relocations against the order of the initial stacks) and `BlockersNotBuried` (a property of instances, section 3);
`TrafficTypeOK` (that a wait names a robot needs the least
conflict of a path to exist, that a planned time is bounded needs the length of the fallback);
`DetectorIsExact`, which needs an induction over the paths of the search; and all liveness, since the
proof system treats neither fairness nor ENABLED.  The induction theorems of its library
take a predicate, which its provers cannot instantiate; `Induct` goes around that
for numbers.  The provers also lose SMT in modules with RECURSIVE operators; none of the
modules here declares one.

## 6. Not modelled, and what remains

Not modelled: metrics and visualisation (observers; the convergence stop among them ends a
run early), the sampling of requests and of the initial storage, the cost model (durations
only; any order of events is allowed in `TaskLifecycle`), the engine's deadlock check when
its event queue is empty (`simulation_engine.py:305-343`), highway rules (switched off in every
configuration), the choice of the port prioritizer and of the selectors (open choices), the
campaign's dry run and runtime estimate, and the analysis scripts, which keep nothing.
Stack locks exist in the code but are never taken.

What remains, most important first:

1. An abstract request (requested, served, done) that `TaskLifecycle` implements.
2. The composition of `TaskLifecycle` with `Traffic`: each takes the other's part as an open
   choice, which includes all that can happen and more, but no
   property spans both.
3. `TrafficTypeOK` as a theorem.
4. The engine's check for deadlocks with an empty queue, composed with the requeue of its victim.
