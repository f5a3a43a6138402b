---------------------------- MODULE TaskLifecycle ----------------------------
(***************************************************************************)
(* The life of a request, from arrival to the return of its bin, as the    *)
(* event handlers of simulation/event_handler.py drive it.  One step is    *)
(* one handled event or one round of the scheduling loop; handlers are     *)
(* atomic because the program is one thread.  What makes the system        *)
(* concurrent is the event queue: every robot, every station and the       *)
(* request stream have events pending, and their order depends on travel   *)
(* times and traffic.                                                      *)
(*                                                                         *)
(* Time and positions are abstracted: any pending event may be the next,   *)
(* except that a REQUEST_COMPLETE event (priority 0, current time) always  *)
(* comes first and that scheduling runs to its end right after the event   *)
(* that triggered it.  An event that finds its robot away from the place   *)
(* where it applies is delayed or planned anew, which leaves the variables *)
(* as they are.  A retry counter that reaches its limit is a choice.       *)
(***************************************************************************)
EXTENDS TopAccessStrategy, Bags

CONSTANTS
    Edf,              \* config.scheduler_strategy = "EDF" (else FIFO)
    Capacity,         \* pickstation_capacity
    InitialStacks,    \* the initial storage, a function of Stacks
    MaxRequeues,      \* bound: recoveries that take a task off its robot
    Faults            \* rare outcomes of the traffic layer that may happen:
                      \*   "exit_blocked"     no free cell beside the port
                      \*   "no_path"          no path to the port
                      \*   "action_exhausted" 20 retries of a ROBOT_ACTION

FaultKinds == {"exit_blocked", "no_path", "action_exhausted"}

ASSUME LifecycleAssumption ==
    /\ Edf \in BOOLEAN
    /\ Capacity \in Nat \ {0}
    /\ InitialStacks \in [Stacks -> Seq(Bins)]
    /\ \A s \in Stacks : Len(InitialStacks[s]) <= MaxStackHeight
    /\ \A b \in Bins : \E s \in Stacks : Holds(InitialStacks, s, b)
    /\ \A s, u \in Stacks :
         \A i \in DOMAIN InitialStacks[s], j \in DOMAIN InitialStacks[u] :
            InitialStacks[s][i] = InitialStacks[u][j] => s = u /\ i = j
    /\ MaxRequeues \in Nat
    /\ Faults \subseteq FaultKinds

VARIABLES
    queue,        \* ActiveQueue
    task,         \* the RobotTask of each request (NewTask until scheduled)
    robotTask,    \* robot.current_task; the robot is idle iff it is None
    carried,      \* robot.carried_bin_id
    stack,        \* the bins of each stack
    status,       \* bin.status
    moving,       \* the bins with in_transit set
    line,         \* Pickstation.queue
    serving,      \* Pickstation.current_tasks, one PICKSTATION_COMPLETE each
    events,       \* pending PICKUP, DROP and ROBOT_ACTION events, a bag
    completions,  \* pending REQUEST_COMPLETE events
    arrived,      \* requests 1 .. arrived have arrived
    done,         \* the requests recorded as fully completed
    pc,           \* where the engine is in its step
    requeues      \* recoveries so far, bounded by MaxRequeues

bins  == <<stack, status, moving, carried>>
ports == <<line, serving>>
vars  == <<queue, task, robotTask, bins, ports, events, completions, arrived,
           done, pc, requeues>>

\* A PICKUP or DROP event carries the physical action, a ROBOT_ACTION event
\* the fetch from the station; the request is the one it was scheduled for.
Event ==
    [kind : {"pickup", "drop"}, robot : Robots, request : Requests,
     act : PhysicalActions]
      \cup [kind : {"action"}, robot : Robots, request : Requests, act : FetchActions]

TypeOK ==
    /\ queue \in QueueType
    /\ task \in [Requests -> TaskType]
    /\ robotTask \in [Robots -> Requests \cup {None}]
    /\ carried \in [Robots -> Bins \cup {None}]
    /\ stack \in [Stacks -> Seq(Bins)]
    /\ status \in [Bins -> {"stored", "at_pickstation"}]
    /\ moving \subseteq Bins
    /\ line \in [Stations -> Seq(Requests)]
    /\ serving \in [Stations -> SUBSET Requests]
    /\ IsABag(events) /\ BagToSet(events) \subseteq Event
    /\ completions \subseteq Robots \X Requests
    /\ arrived \in 0 .. NumRequests
    /\ done \subseteq Requests
    /\ pc \in {"handle", "schedule", "schedule_new", "failed", "no_stack"}
    /\ requeues \in 0 .. MaxRequeues

Init ==
    /\ queue = EmptyQueue
    /\ task = [q \in Requests |-> NewTask]
    /\ robotTask = [r \in Robots |-> None]
    /\ carried = [r \in Robots |-> None]
    /\ stack = InitialStacks
    /\ status = [b \in Bins |-> "stored"]
    /\ moving = {}
    /\ line = [p \in Stations |-> <<>>]
    /\ serving = [p \in Stations |-> {}]
    /\ events = EmptyBag
    /\ completions = {}
    /\ arrived = 0
    /\ done = {}
    /\ pc = "handle"
    /\ requeues = 0

----------------------------------------------------------------------------
(* Helpers *)

\* What the strategy sees, for given values of the parts a handler changes.
World(tasks, aq, stk, stat, mov) ==
    [task |-> tasks, queue |-> aq, stack |-> stk, moving |-> mov,
     station |-> {b \in Bins : stat[b] = "at_pickstation"}]

Push(evs, kind, r, q, a) ==
    evs (+) SetToBag({[kind |-> kind, robot |-> r, request |-> q, act |-> a]})

Drop(evs, e) == evs (-) SetToBag({e})

AllRobots  == Robots
IdleRobots == {r \in Robots : robotTask[r] = None}
FirstIdle(r) == r \in IdleRobots /\ \A s \in IdleRobots : r <= s

\* An event can be handled: the engine is between steps and no completion is
\* due at the current time.
Ready == pc = "handle" /\ completions = {}

\* A RuntimeError ends the run.
PcAfter(a, next) ==
    CASE a = Raise   -> "failed"
      [] a = NoStack -> "no_stack"
      [] OTHER       -> next

\* Carry out the outcome o of next_action for the task q on robot r
\* (_schedule_next_action_for_task_new): a physical action starts with a
\* PICKUP event; without an action the task waits and the robot is released.
Carry(w, r, q, o, evs, next) ==
    /\ task' = [w.task EXCEPT ![q] = o.task]
    /\ IF o.act = NoAction
       THEN /\ queue' = AddWaitingTask(o.queue, q)
            /\ robotTask' = [robotTask EXCEPT ![r] = None]
       ELSE /\ queue' = o.queue
            /\ robotTask' = [robotTask EXCEPT ![r] = q]
    /\ events' = IF IsPhysical(o.act) THEN Push(evs, "pickup", r, q, o.act) ELSE evs
    /\ completions' = IF o.act.type = "request_complete"
                      THEN completions \cup {<<r, q>>} ELSE completions
    /\ pc' = PcAfter(o.act, next)

\* Ask the strategy for the task q of robot r in the world w.
ScheduleNext(w, r, q, evs) ==
    \E o \in NextAction(w, q) : Carry(w, r, q, o, evs, "handle")

Now == World(task, queue, stack, status, moving)

\* The handler ends without touching tasks, queue or robots.
Discard(e) ==
    /\ events' = Drop(events, e)
    /\ UNCHANGED <<queue, task, robotTask, completions, pc>>

\* A recovery takes the task off the robot and puts it into waiting_tasks.
Requeue(r, tasks, aq, evs) ==
    /\ requeues < MaxRequeues
    /\ requeues' = requeues + 1
    /\ task' = tasks
    /\ queue' = AddWaitingTask(aq, robotTask[r])
    /\ robotTask' = [robotTask EXCEPT ![r] = None]
    /\ events' = evs
    /\ UNCHANGED <<completions, pc>>

----------------------------------------------------------------------------
(* Arrival and scheduling *)

\* EventHandler.handle on ARRIVAL; the engine then schedules.
Arrival ==
    /\ Ready
    /\ arrived < NumRequests
    /\ arrived' = arrived + 1
    /\ queue' = Add(queue, arrived + 1)
    /\ pc' = "schedule"
    /\ UNCHANGED <<task, robotTask, bins, ports, events, completions, done, requeues>>

\* pop_waiting_task: waiting tasks that are already finished are skipped and
\* forgotten.
Live(q) == ~task[q].returned /\ task[q].phase # "complete"

LiveWaiting == {i \in DOMAIN queue.waiting : Live(queue.waiting[i])}

\* _try_schedule_waiting_task: the first idle robot takes the first waiting
\* task; if the strategy has no action for it, the task goes to the end of the
\* list and the robot is offered a new request.
ScheduleWaiting(r, i) ==
    /\ pc = "schedule"
    /\ FirstIdle(r)
    /\ i \in LiveWaiting /\ \A j \in LiveWaiting : i <= j
    /\ LET q == queue.waiting[i]
           popped == [queue EXCEPT !.waiting = SubSeq(@, i + 1, Len(@))]
           w == World(task, MarkTaskAssigned(popped, q, r), stack, status, moving)
       IN \E o \in NextAction(w, q) :
            Carry(w, r, q, o, events,
                  IF o.act = NoAction THEN "schedule_new" ELSE "schedule")
    /\ UNCHANGED <<bins, ports, arrived, done, requeues>>

\* The pending requests, by position, on which a new task may start.
Eligible == {i \in DOMAIN queue.pending : Target[queue.pending[i]] \notin Reserved(queue)}

\* FIFO takes the first of them, EDF the one with the earliest deadline.  The
\* slack is one constant of the run, so that is the earliest arrival.
Preferred(i) ==
    /\ i \in Eligible
    /\ \A j \in Eligible : IF Edf THEN queue.pending[i] <= queue.pending[j] ELSE i <= j

CanScheduleNew ==
    /\ IdleRobots # {}
    /\ \/ pc = "schedule_new"
       \/ pc = "schedule" /\ LiveWaiting = {}

\* The waiting list after a search that found no live task.
WaitingAfterSearch == IF pc = "schedule" THEN <<>> ELSE queue.waiting

\* The rest of try_schedule: a new task for the first idle robot.
ScheduleNew(r, i) ==
    /\ CanScheduleNew
    /\ FirstIdle(r) /\ Preferred(i)
    /\ LET q == queue.pending[i]
           aq == [queue EXCEPT !.pending = RemoveAt(@, i),
                               !.waiting = WaitingAfterSearch]
           w == World(task, MarkAssigned(aq, q, r), stack, status, moving)
       IN \E o \in NextAction(w, q) :
            Carry(w, r, q, o, events,
                  IF o.act = NoAction THEN "handle" ELSE "schedule")
    /\ UNCHANGED <<bins, ports, arrived, done, requeues>>

\* The loop ends: no idle robot, or nothing to give it.
ScheduleDone ==
    /\ pc \in {"schedule", "schedule_new"}
    /\ \/ IdleRobots = {} /\ UNCHANGED queue
       \/ /\ CanScheduleNew /\ Eligible = {}
          /\ queue' = [queue EXCEPT !.waiting = WaitingAfterSearch]
    /\ pc' = "handle"
    /\ UNCHANGED <<task, robotTask, bins, ports, events, completions, arrived,
                   done, requeues>>

----------------------------------------------------------------------------
(* PICKUP *)

\* _can_pickup without its position check; "not on top" is the reason that
\* makes the handler ask the strategy again.
NotOnTop(a) == a.from # None /\ ~OnTop(stack, a.from, a.bin)

CanPickup(a) ==
    IF a.from # None THEN OnTop(stack, a.from, a.bin)
    ELSE /\ status[a.bin] = "at_pickstation"
         /\ a.bin \notin moving
         /\ StackOf(stack, a.bin) = None

\* _release_foreign_blocker_obligation: whoever picks up a bin that another
\* task has relocated takes the restore obligation away from that task.
ForeignOwner(r, b) == queue.owner[b] # None /\ queue.owner[b] # robotTask[r]

TasksAfterPickupUnchanged(r, b) == task
TasksAfterPickup(r, b) ==
    LET o == queue.owner[b] IN
    IF ForeignOwner(r, b) /\ HasOpenRelocation(task[o], b)
    THEN [task EXCEPT ![o] = ForgetRelocation(@, b)]
    ELSE task

QueueAfterPickup(r, b) ==
    IF ForeignOwner(r, b) THEN ReleaseBlocker(queue, b) ELSE queue

\* The bin leaves its stack (or the station).
StackAfterPickupUnchanged(e) == stack
StackAfterPickup(e) ==
    IF e.act.from = None THEN stack ELSE [stack EXCEPT ![e.act.from] = Front(@)]

\* The pickup succeeds; a target is assigned its pickstation.
PickupSucceeds(e) ==
    LET r == e.robot
        b == e.act.bin
        tasks == TasksAfterPickup(r, b)
    IN
    /\ stack' = StackAfterPickup(e)
    /\ moving' = moving \cup {b}
    /\ carried' = [carried EXCEPT ![r] = b]
    /\ queue' = QueueAfterPickup(r, b)
    /\ IF e.act.type = "remove_target"
       THEN \E p \in Stations : task' = [tasks EXCEPT ![robotTask[r]].station = p]
       ELSE task' = tasks
    /\ events' = Push(Drop(events, e), "drop", r, e.request, e.act)
    /\ UNCHANGED <<robotTask, status, completions, pc, requeues>>

\* The bin is not on top: the strategy is asked again.  The same action is
\* tried again, or the task is requeued once it has failed 15 times; without
\* an action the event is delayed, and the strategy's side effects stay.
PickupNotOnTop(e) ==
    LET r == e.robot
        q == e.request
    IN
    \E o \in NextAction(Now, q) :
       LET tasks == [task EXCEPT ![q] = o.task] IN
       \/ /\ o.act = NoAction
          /\ task' = tasks
          /\ queue' = o.queue
          /\ UNCHANGED <<robotTask, events, completions, pc, requeues>>
       \/ /\ o.act # NoAction
          /\ Carry(Now, r, q, o, Drop(events, e), "handle")
          /\ UNCHANGED requeues
       \/ /\ o.act \in {e.act, NoAction}
          /\ Requeue(r, tasks, o.queue, Drop(events, e))

Pickup(e) ==
    /\ Ready /\ e.kind = "pickup"
    /\ LET r == e.robot
           q == e.request
           b == e.act.bin
       IN
       \/ /\ carried[r] = b                        \* duplicate: go on to the drop
          /\ events' = Push(Drop(events, e), "drop", r, q, e.act)
          /\ UNCHANGED <<queue, task, robotTask, bins, completions, pc, requeues>>
       \/ /\ carried[r] \notin {None, b}           \* busy: after 15 delays
          /\ IF robotTask[r] = q
             THEN ScheduleNext(Now, r, q, Drop(events, e))
             ELSE Discard(e)
          /\ UNCHANGED <<bins, requeues>>
       \/ /\ carried[r] = None /\ robotTask[r] # q \* orphaned or foreign
          /\ Discard(e)
          /\ UNCHANGED <<bins, requeues>>
       \/ /\ carried[r] = None /\ robotTask[r] = q
          /\ \/ CanPickup(e.act) /\ PickupSucceeds(e)
             \/ /\ ~CanPickup(e.act)
                /\ \/ e.act.type = "remove_target" /\ task[q].phase # "retrieve_target"
                   \/ e.act.type = "return_target" /\ status[b] = "stored"
                /\ ScheduleNext(Now, r, q, Drop(events, e))
                /\ UNCHANGED <<bins, requeues>>
             \/ /\ NotOnTop(e.act)
                /\ ~(e.act.type = "remove_target" /\ task[q].phase # "retrieve_target")
                /\ PickupNotOnTop(e)
                /\ UNCHANGED bins
             \/ /\ ~CanPickup(e.act) /\ ~NotOnTop(e.act)
                /\ ~(e.act.type = "return_target" /\ status[b] = "stored")
                /\ Requeue(r, task, queue, Drop(events, e))
                /\ UNCHANGED bins
             \/ /\ CanPickup(e.act)                \* the robot never got there
                /\ Requeue(r, task, queue, Drop(events, e))
                /\ UNCHANGED bins
    /\ UNCHANGED <<ports, arrived, done>>

----------------------------------------------------------------------------
(* DROP *)

StaleDropUnlessMoving(e) == carried[e.robot] \notin {None, e.act.bin}

\* The drop does not belong to what the robot carries or works on.
StaleDrop(e) ==
    LET r == e.robot
        b == e.act.bin
    IN
    \/ b \notin moving
    \/ carried[r] \notin {None, b}
    \/ /\ e.act.type = "return_target" /\ robotTask[r] # None
       /\ Target[robotTask[r]] # b

\* The return stack of the blocker was changed while the robot was under way.
OutdatedReturn(e) ==
    LET q == robotTask[e.robot] IN
    /\ e.act.type = "return_blocker" /\ q # None
    /\ HasOpenRelocation(task[q], e.act.bin)
    /\ task[q].temp[FirstRelocation(task[q], e.act.bin)].from # e.act.to

\* A stack on which the drop would bury another task's relocated blocker.
HoldsForeignBlocker(s, q) ==
    \E b \in Owned(queue) : queue.owner[b] # q /\ StackOf(stack, b) = s

NoRedirect(e) == {}

\* _redirect_drop_that_would_bury_blocker: the stacks to which such a drop is
\* redirected, none when the selector finds no other.
RedirectStacks(e) ==
    LET q == robotTask[e.robot] IN
    IF /\ IsRelocate(e.act) \/ e.act.type = "return_target"
       /\ HoldsForeignBlocker(e.act.to, q)
    THEN (IF IsRelocate(e.act) THEN RelocationStacks(Now, e.act.from)
          ELSE ReturnStacks(Now, queue, IF q = None THEN None ELSE task[q].home))
         \ {e.act.to}
    ELSE {}

Redirected(e, s) ==
    Push(Drop(events, e), "drop", e.robot, e.request, [e.act EXCEPT !.to = s])

NeverFull(e)  == FALSE
FullOnDrop(e) == e.act.to # None /\ ~HasCapacity(stack, e.act.to)

\* _redirect_blocked_drop: the stack filled up on the way (after 5 retries).
RedirectBlockedDrop(e) ==
    LET q == robotTask[e.robot] IN
    \E s \in RelocationStacks(Now, e.act.to) :
       /\ IF q # None /\ e.act.type = "return_blocker"
          THEN /\ HasOpenRelocation(task[q], e.act.bin)
               /\ task' = [task EXCEPT ![q] = UpdateReturnStack(@, e.act.bin, s)]
          ELSE task' = task
       /\ events' = Redirected(e, s)
       /\ UNCHANGED <<queue, robotTask, bins, ports, completions, pc>>

\* The bin lies on its stack: pushed, no longer moving, all bins of the stack
\* marked stored again, the robot's load cleared.
StackAfterDrop(e) == [stack EXCEPT ![e.act.to] = Append(@, e.act.bin)]
StatusAfterDrop(e) ==
    [b \in Bins |-> IF b \in ToSet(StackAfterDrop(e)[e.act.to]) THEN "stored"
                    ELSE status[b]]
LoadKept(e)    == carried
LoadCleared(e) == [carried EXCEPT ![e.robot] = IF @ = e.act.bin THEN None ELSE @]

PutDown(e) ==
    /\ stack' = StackAfterDrop(e)
    /\ status' = StatusAfterDrop(e)
    /\ moving' = moving \ {e.act.bin}
    /\ carried' = LoadCleared(e)

WorldAfterDrop(e, tasks, aq) ==
    World(tasks, aq, StackAfterDrop(e), StatusAfterDrop(e), moving \ {e.act.bin})

\* A drop for which the robot holds no task has only the physical effect.
DropWithoutTask(e) ==
    /\ PutDown(e)
    /\ Discard(e)
    /\ UNCHANGED ports

\* relocate: the blocker is remembered and owned, unless it was only moved
\* aside for another task (unbury).
DropRelocated(e) ==
    LET r == e.robot
        q == robotTask[r]
        b == e.act.bin
        w == IF e.act.type = "unbury" THEN WorldAfterDrop(e, task, queue)
             ELSE WorldAfterDrop(e,
                    [task EXCEPT ![q] = RememberRelocation(@, b, e.act.from, e.act.to)],
                    RegisterBlocker(queue, b, q))
    IN
    /\ PutDown(e)
    /\ ScheduleNext(w, r, q, Drop(events, e))
    /\ UNCHANGED ports

\* return of a blocker
DropBlocker(e) ==
    LET r == e.robot
        q == robotTask[r]
        b == e.act.bin
        w == WorldAfterDrop(e, [task EXCEPT ![q] = MarkLastRelocationRestored(@, b)],
                            ReleaseBlocker(queue, b))
    IN
    /\ PutDown(e)
    /\ IF RestoreMismatch(task[q], b, e.act.from, e.act.to)
       THEN /\ pc' = "failed"
            /\ UNCHANGED <<queue, task, robotTask, events, completions>>
       ELSE ScheduleNext(w, r, q, Drop(events, e))
    /\ UNCHANGED ports

\* return of the target: REQUEST_COMPLETE follows at the same time, unless the
\* event was scheduled for another task of the robot.
DropTarget(e) ==
    LET r == e.robot
        q == robotTask[r]
    IN
    /\ PutDown(e)
    /\ IF e.request # q THEN Discard(e)
       ELSE /\ task' = [task EXCEPT ![q] =
                           MarkTargetReturned([@ EXCEPT !.actual = e.act.to])]
            /\ completions' = completions \cup {<<r, q>>}
            /\ events' = Drop(events, e)
            /\ pc' = IF task[q].removed THEN "handle" ELSE "failed"
            /\ UNCHANGED <<queue, robotTask>>
    /\ UNCHANGED ports

\* complete_service frees the slot of the finished task.
EndServiceKeepsSlot(srv, p, q) == srv
EndService(srv, p, q) == [srv EXCEPT ![p] = @ \ {q}]

\* The task queues at the station, and nothing else happens.
NoStart(l, srv, p) == line' = l /\ serving' = srv

\* _try_start_pickstation_service: a free slot takes the head of the queue.
Starts(l, srv, p) == Cardinality(srv[p]) < Capacity /\ l[p] # <<>>

StartService(l, srv, p) ==
    /\ line' = IF Starts(l, srv, p) THEN [l EXCEPT ![p] = Tail(@)] ELSE l
    /\ serving' = IF Starts(l, srv, p) THEN [srv EXCEPT ![p] = @ \cup {Head(l[p])}]
                  ELSE srv

\* remove_target at the port: the bin is handed over, the requests batched
\* behind it join the task, the task queues at its station and the robot is
\* released.  Without a free cell beside the port the service is not started.
DropAtPort(e) ==
    LET r == e.robot
        q == robotTask[r]
        b == e.act.bin
    IN
    /\ status' = [status EXCEPT ![b] = "at_pickstation"]
    /\ moving' = moving \ {b}
    /\ carried' = LoadCleared(e)
    /\ UNCHANGED <<stack, completions>>
    /\ events' = Drop(events, e)
    /\ IF q = None
       THEN /\ pc' = "failed"
            /\ UNCHANGED <<queue, task, robotTask, ports>>
       ELSE LET p == IF task[q].station # None THEN task[q].station
                     ELSE CHOOSE s \in Stations : TRUE
                batch == queue.waitlist[Target[q]]
                l == [line EXCEPT ![p] = Append(@, q)]
            IN
            /\ task' = [task EXCEPT ![q] = MarkWaitingAtPickstation(
                          AddBatchedRequests(@, ToSet(batch)))]
            /\ queue' = AddPickstationTask(PopBatchWaitlist(queue, Target[q]), q)
            /\ robotTask' = [robotTask EXCEPT ![r] = None]
            /\ \/ StartService(l, serving, p)
               \/ "exit_blocked" \in Faults /\ NoStart(l, serving, p)
            /\ UNCHANGED pc

DropEffect(e) ==
    CASE e.act.type = "remove_target"  -> DropAtPort(e)
      [] robotTask[e.robot] = None /\ e.act.type # "remove_target" -> DropWithoutTask(e)
      [] robotTask[e.robot] # None /\ IsRelocate(e.act) -> DropRelocated(e)
      [] robotTask[e.robot] # None /\ e.act.type = "return_blocker" -> DropBlocker(e)
      [] robotTask[e.robot] # None /\ e.act.type = "return_target" -> DropTarget(e)

HandleDrop(e) ==
    /\ Ready /\ e.kind = "drop"
    /\ LET r == e.robot
           q == robotTask[r]
       IN
       \/ /\ StaleDrop(e)
          /\ IF IsReturn(e.act) /\ q # None
             THEN ScheduleNext(Now, r, q, Drop(events, e))
             ELSE Discard(e)
          /\ UNCHANGED <<bins, ports>>
       \/ /\ ~StaleDrop(e) /\ OutdatedReturn(e)
          /\ ScheduleNext(Now, r, q, Drop(events, e))
          /\ UNCHANGED <<bins, ports>>
       \/ /\ ~StaleDrop(e) /\ ~OutdatedReturn(e)
          /\ \E s \in RedirectStacks(e) :
                events' = Redirected(e, s)
          /\ UNCHANGED <<queue, task, robotTask, bins, ports, completions, pc>>
       \/ /\ ~StaleDrop(e) /\ ~OutdatedReturn(e) /\ RedirectStacks(e) = {}
          /\ FullOnDrop(e)
          /\ RedirectBlockedDrop(e)
       \/ /\ ~StaleDrop(e) /\ ~OutdatedReturn(e) /\ RedirectStacks(e) = {}
          /\ ~FullOnDrop(e)
          /\ DropEffect(e)
    /\ UNCHANGED <<arrived, done, requeues>>

----------------------------------------------------------------------------
(* Pickstation, ROBOT_ACTION, completion *)

\* _handle_pickstation_complete: the slot is freed, the task waits for its
\* collection, the next service starts.  Then the prioritizer picks an idle
\* robot; none is picked, or the robot is let go again, when the port is
\* reserved or occupied or its path is blocked.
PickstationComplete(p, q) ==
    /\ Ready
    /\ q \in serving[p]
    /\ task' = [task EXCEPT ![q] = MarkPickstationCompleted(@)]
    /\ StartService(line, EndService(serving, p, q), p)
    /\ LET aq == MarkPickstationTaskCompleted(queue, q)
           fetch == Action("pickup_from_pickstation", Target[q], None, None)
       IN
       \/ /\ queue' = aq
          /\ UNCHANGED <<robotTask, events>>
       \/ \E r \in IdleRobots :
             /\ queue' = MarkTaskAssigned(aq, q, r)
             /\ robotTask' = [robotTask EXCEPT ![r] = q]
             /\ \/ events' = Push(events, "action", r, q, fetch)
                \/ "no_path" \in Faults /\ UNCHANGED events
    /\ pc' = "schedule"
    /\ UNCHANGED <<bins, completions, arrived, done, requeues>>

\* _handle_robot_action for pickup_from_pickstation, the one action scheduled
\* this way: at the port the robot goes on with its current task; the bin is
\* only taken by the PICKUP that follows.  After 20 failed attempts the task
\* is requeued, whatever the robot carries.
RobotAction(e) ==
    /\ Ready /\ e.kind = "action"
    /\ LET r == e.robot
           q == robotTask[r]
           b == e.act.bin
           executable == status[b] = "at_pickstation"
           stale == b \in moving \/ carried[r] # None
       IN
       \/ /\ executable /\ ~stale /\ q # None
          /\ ScheduleNext(Now, r, q, Drop(events, e))
          /\ UNCHANGED requeues
       \/ /\ executable /\ (stale \/ q = None)
          /\ Discard(e)
          /\ UNCHANGED requeues
       \/ /\ "action_exhausted" \in Faults
          /\ IF q = None THEN Discard(e) /\ UNCHANGED requeues
             ELSE Requeue(r, task, queue, Drop(events, e))
    /\ UNCHANGED <<bins, ports, arrived, done>>

RequestComplete(r, q) ==
    /\ pc = "handle" /\ <<r, q>> \in completions
    /\ completions' = completions \ {<<r, q>>}
    /\ IF robotTask[r] = q /\ CanCompleteConsistently(q, task[q], stack)
       THEN /\ done' = done \cup AllRequests(q, task[q])
            /\ queue' = MarkCompleted(queue, q)
            /\ robotTask' = [robotTask EXCEPT ![r] = None]
            /\ pc' = "schedule"
       ELSE /\ pc' = "failed"
            /\ UNCHANGED <<done, queue, robotTask>>
    /\ UNCHANGED <<task, bins, ports, events, arrived, requeues>>

----------------------------------------------------------------------------
(* Recoveries of the MOVE handler and the engine *)

\* _resolve_move_deadlock and the engine's deadlock victim: a robot that
\* carries nothing gives its task back.  Its pending events stay.
RequeueVictim(r) ==
    /\ Ready
    /\ robotTask[r] # None /\ carried[r] = None
    /\ Requeue(r, task, queue, events)
    /\ UNCHANGED <<bins, ports, arrived, done>>

\* _force_stale_robot_to_replan: the strategy is asked and its answer thrown
\* away (the reason it tests for, "not on top", is never what the constraint
\* manager answers), so only the side effects of next_action remain.
ForceReplan(r) ==
    /\ Ready
    /\ robotTask[r] # None
    /\ LET q == robotTask[r] IN
       \E o \in NextAction(Now, q) :
          /\ task' = [task EXCEPT ![q] = o.task]
          /\ queue' = o.queue
          /\ pc' = PcAfter(o.act, "handle")
    /\ UNCHANGED <<robotTask, bins, ports, events, completions, arrived, done,
                   requeues>>

----------------------------------------------------------------------------
RobotEvent(r) ==
    \E e \in BagToSet(events) :
        e.robot = r /\ (Pickup(e) \/ HandleDrop(e) \/ RobotAction(e))

Schedule ==
    \/ \E r \in Robots, i \in DOMAIN queue.waiting : ScheduleWaiting(r, i)
    \/ \E r \in Robots, i \in DOMAIN queue.pending : ScheduleNew(r, i)
    \/ ScheduleDone

Next ==
    \/ Arrival
    \/ Schedule
    \/ \E r \in Robots : RobotEvent(r)
    \/ \E p \in Stations, q \in Requests : PickstationComplete(p, q)
    \/ \E r \in Robots, q \in Requests : RequestComplete(r, q)
    \/ \E r \in Robots : RequeueVictim(r) \/ ForceReplan(r)

Spec == Init /\ [][Next]_vars

Fairness ==
    /\ WF_vars(Arrival) /\ WF_vars(Schedule)
    /\ \A r \in Robots : WF_vars(RobotEvent(r))
    /\ \A p \in Stations : WF_vars(\E q \in Requests : PickstationComplete(p, q))
    /\ \A r \in Robots : WF_vars(\E q \in Requests : RequestComplete(r, q))

FairSpec == Spec /\ Fairness

----------------------------------------------------------------------------
(* Safety *)

\* Conservation: a bin lies at one position of one stack, or it is under way or
\* at a station and lies on none (_validate_bin_uniqueness after every event).
OnSomeStack(b) == \E s \in Stacks : Holds(stack, s, b)

EveryBinInOnePlace ==
    /\ \A s, u \in Stacks : \A i \in DOMAIN stack[s], j \in DOMAIN stack[u] :
          stack[s][i] = stack[u][j] => s = u /\ i = j
    /\ \A b \in Bins :
          OnSomeStack(b) <=> b \notin moving /\ status[b] # "at_pickstation"

\* No stack grows beyond max_stack_height: the capacity of a destination is
\* checked when the action is chosen, and the bin arrives much later.
HeightOK == \A s \in Stacks : Len(stack[s]) <= MaxStackHeight

\* A bin in transit is carried by exactly one robot, and robots carry nothing
\* else: carried_bin_id and in_transit are kept by different objects.
CarriedBinsMove ==
    /\ \A r \in Robots : carried[r] # None => carried[r] \in moving
    /\ \A b \in moving : Cardinality({r \in Robots : carried[r] = b}) = 1

\* A robot that carries a bin keeps its task until the bin is put down.
CarryingHasTask == \A r \in Robots : carried[r] # None => robotTask[r] # None

\* ActiveQueue.assigned and the robots' current_task say the same.
AssignmentsAgree ==
    \A q \in Requests, r \in Robots : queue.assigned[q] = r <=> robotTask[r] = q

\* The requests a task is running for.
Active == Assigned(queue) \cup ToSet(queue.waiting) \cup queue.pickstation

\* Two running tasks never fetch the same bin: the second request waits in the
\* batch waitlist or in pending.
DistinctTargets == \A p, q \in Active : p # q => Target[p] # Target[q]

\* No request is lost or in two places of the queue: from its arrival until it
\* is recorded as done, or joins another task's batch, it is in exactly one of
\* the five containers; before and after in none.
ContainersOf(q) ==
    {c \in {"pending", "waitlist", "assigned", "waiting", "pickstation"} :
        \/ c = "pending"     /\ Contains(queue.pending, q)
        \/ c = "waitlist"    /\ \E b \in Bins : Contains(queue.waitlist[b], q)
        \/ c = "assigned"    /\ queue.assigned[q] # None
        \/ c = "waiting"     /\ Contains(queue.waiting, q)
        \/ c = "pickstation" /\ q \in queue.pickstation}

Batched == UNION {task[p].batched : p \in Requests}

OneContainer ==
    \A q \in Requests :
        Cardinality(ContainersOf(q)) =
            IF q > arrived \/ q \in done \cup Batched THEN 0 ELSE 1

\* Two tasks never both believe they must return a bin, and no relocated bin
\* is forgotten: a bin is owned by q iff q has an open relocation of it.  So it
\* is as long as no task relocates a bin twice.
OwnershipBacked ==
    \A b \in Bins, q \in Requests :
        queue.owner[b] = q <=> HasOpenRelocation(task[q], b)

\* One half of it, which recoveries do not break either: no bin is owned by a
\* task that has no relocation of it left to undo (an ownership orphan would
\* keep the bin reserved for ever).
OwnersRemember ==
    \A b \in Bins, q \in Requests :
        queue.owner[b] = q => HasOpenRelocation(task[q], b)

\* A task never digs the same bin out twice: with two entries for one bin, the
\* methods of the task and the ownership in the queue mean different entries.
\* The code does not guarantee it: it is a condition of theorems, not a claim.
RelocatedOnce ==
    \A q \in Requests : \A i, j \in DOMAIN task[q].temp :
        task[q].temp[i].bin = task[q].temp[j].bin => i = j

\* A relocated blocker that is not under way lies on the buffer stack its
\* owner remembers, whoever moved it meanwhile.
BlockerWhereRemembered ==
    \A q \in Requests, b \in Bins :
        HasOpenRelocation(task[q], b) /\ b \notin moving =>
            StackOf(stack, b) = task[q].temp[LastRelocation(task[q], b)].buffer

\* A relocated blocker can be returned without digging: whatever lies above it
\* was put there by the task that owns it.
BlockersNotBuried ==
    \A s \in Stacks : \A i, j \in DOMAIN stack[s] :
        i < j /\ queue.owner[stack[s][i]] # None =>
            queue.owner[stack[s][j]] = queue.owner[stack[s][i]]

\* A bin for which a service runs or waits is at the station: the service was
\* booked on the task whose bin was delivered, and nobody takes it early.
BinAtItsStation ==
    \A p \in Stations : \A q \in serving[p] \cup ToSet(line[p]) :
        status[Target[q]] = "at_pickstation" /\ Target[q] \notin moving

\* No station idles while tasks queue at it.
StationBusy == \A p \in Stations : line[p] # <<>> => serving[p] # {}

\* A robot has at most one chain of PICKUP, DROP and ROBOT_ACTION events: no
\* handler starts a second one before the first has ended.
AtMostOneEvent ==
    \A e, f \in BagToSet(events) : e.robot = f.robot => e = f /\ events[e] = 1

\* No consistency check of a handler or of the strategy raises.
NoRuntimeError == pc # "failed"

\* A batched request waits behind a bin some task will release.
WaitlistBacked == \A b \in Bins : queue.waitlist[b] # <<>> => b \in Reserved(queue)

\* Once all is done, two blockers that shared a stack at the start and share it
\* again lie in their old order: they are returned last in, first out.
Above(stk, s, b, c) ==
    \E i, j \in DOMAIN stk[s] : stk[s][i] = b /\ stk[s][j] = c /\ i > j

BlockersKeepOrder ==
    done = Requests =>
        \A b, c \in Bins \ {Target[q] : q \in Requests}, s \in Stacks :
            Above(InitialStacks, s, b, c) => ~Above(stack, s, c, b)

----------------------------------------------------------------------------
(* Liveness *)

\* Every request that arrives is recorded as completed.
EveryRequestDone == \A q \in Requests : arrived >= q ~> q \in done
=============================================================================
