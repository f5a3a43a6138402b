---------------------------- MODULE TaskLife_proofs ----------------------------
(***************************************************************************)
(* Until the first recovery no request is lost (TaskLifecycle), for every  *)
(* value of the constants.  Requests change containers only by adding to   *)
(* one what is taken from another, except that the search of the waiting   *)
(* list forgets the tasks that have ended; so the proof is that a task     *)
(* that waits has not ended.                                               *)
(***************************************************************************)
EXTENDS RobotChain_proofs

----------------------------------------------------------------------------
(* What next_action does to the life of a task *)

\* The outcome o for q ends the task t only as request_complete, which the
\* strategy answers when the removed target is no longer at the station; and
\* it marks the target removed only while that is at the station.
Follows(q, t, station, o) ==
    /\ o.act.type = "request_complete" => t.removed /\ Target[q] \notin station
    /\ o.act.type # "request_complete" =>
         /\ o.task.returned = t.returned
         /\ o.task.phase = "complete" => t.phase = "complete"
    /\ o.task.removed => t.removed \/ Target[q] \in station

\* The return of the target.
LEMMA NextReturnTargetLife ==
    ASSUME NEW w, NEW q, NEW t \in TaskType, NEW aq, NEW o \in NextReturnTarget(w, q, t, aq)
    PROVE  Follows(q, t, w.station, o)
<1>1. CASE o = Outcome(t, aq, Raise) \/ o = Outcome(t, aq, NoStack)
  BY <1>1 DEF Follows, Outcome, Raise, NoStack, Action
<1>2. CASE /\ o = Outcome(MarkTargetReturned(t), aq,
                          Action("request_complete", Target[q], None, None))
           /\ t.removed /\ Target[q] \notin w.station
  BY <1>2 DEF Follows, Outcome, Action, MarkTargetReturned, TaskType
<1>3. CASE \E s \in Stacks :
             o = Outcome([t EXCEPT !.actual = s], aq,
                         Action("return_target", Target[q], None, s))
  BY <1>3 DEF Follows, Outcome, Action, TaskType
<1> QED BY <1>1, <1>2, <1>3 DEF NextReturnTarget, OrNoStack, ReturnStacks

\* What follows the restoring of the blockers.
LEMMA AfterRestoreLife ==
    ASSUME NEW w, NEW q, NEW t \in TaskType, NEW aq, NEW o \in AfterRestore(w, q, t, aq),
           t.phase # "complete"
    PROVE  Follows(q, t, w.station, o)
<1>1. CASE t.served
  <2> DEFINE u == [t EXCEPT !.phase = "return_target"]
  <2>1. /\ u \in TaskType /\ u.removed = t.removed /\ u.returned = t.returned
        /\ u.phase # "complete"
    BY DEF TaskType, Phases
  <2>2. o \in NextReturnTarget(w, q, u, aq)
    BY <1>1 DEF AfterRestore
  <2>3. Follows(q, u, w.station, o)
    BY <2>1, <2>2, NextReturnTargetLife
  <2> HIDE DEF u
  <2> QED BY <2>1, <2>3 DEF Follows
<1>2. CASE ~t.served
  BY <1>2 DEF AfterRestore, Follows, Outcome, NoAction, Action, TaskType
<1> QED BY <1>1, <1>2

\* The restoring of the blockers.
LEMMA NextRestoreBlockersLife ==
    ASSUME NEW w, NEW q, NEW t \in TaskType, NEW aq, NEW o \in NextRestoreBlockers(w, q, t, aq),
           t.phase # "complete"
    PROVE  Follows(q, t, w.station, o)
<1>1. CASE ~ReturnBlockingBins
  <2> DEFINE u == [t EXCEPT !.temp = <<>>, !.reordered = TRUE]
  <2>1. /\ u \in TaskType /\ u.removed = t.removed /\ u.returned = t.returned
        /\ u.phase = t.phase
    BY EmptySeq DEF TaskType
  <2>2. o \in AfterRestore(w, q, u, ReleaseOwnBlockers(aq, q, t))
    BY <1>1 DEF NextRestoreBlockers
  <2>3. Follows(q, u, w.station, o)
    BY <2>1, <2>2, AfterRestoreLife
  <2> HIDE DEF u
  <2> QED BY <2>1, <2>3 DEF Follows
<1>2. CASE ReturnBlockingBins /\ t.temp = <<>>
  BY <1>2, AfterRestoreLife DEF NextRestoreBlockers
<1>3. CASE ReturnBlockingBins /\ t.temp # <<>>
  <2>1. PICK u \in Reorderings(t) :
           o \in OrNoStack(u, aq,
                   IF Buried(w, PeekLastRelocation(u)) THEN Unbury(w, u, aq, PeekLastRelocation(u))
                                             ELSE RestoreBlocker(w, u, aq, PeekLastRelocation(u)))
    BY <1>3 DEF NextRestoreBlockers
  <2> DEFINE reloc == PeekLastRelocation(u)
  <2>2. u \in TaskType
    BY <2>1, ReorderingsType
  <2>3. SameLife(t, u)
    BY <2>1 DEF Reorderings, SameLife, TaskType
  <2>4. CASE o = Outcome(u, aq, NoStack)
    BY <2>3, <2>4 DEF SameLife, Follows, Outcome, NoStack, Action
  <2>5. CASE o \in Unbury(w, u, aq, reloc)
    BY <2>3, <2>5 DEF Unbury, SameLife, Follows, Outcome, Action
  <2>6. CASE o \in RestoreBlocker(w, u, aq, reloc)
    <3>1. \A s : SameLife(u, UpdateReturnStack(u, reloc.bin, s))
      BY <2>2 DEF UpdateReturnStack, SameLife, TaskType
    <3> QED BY <2>3, <2>6, <3>1 DEF RestoreBlocker, SameLife, Follows, Outcome, Action
  <2> QED BY <2>1, <2>4, <2>5, <2>6 DEF OrNoStack
<1> QED BY <1>1, <1>2, <1>3

\* The retrieval of the target.
LEMMA NextRetrieveTargetLife ==
    ASSUME NEW w, NEW q, NEW t \in TaskType, NEW aq, NEW o \in NextRetrieveTarget(w, q, t, aq),
           t.phase # "complete"
    PROVE  Follows(q, t, w.station, o)
<1> DEFINE b == Target[q]
           s == StackOf(w.stack, b)
           t2 == IF t.home = None THEN [t EXCEPT !.home = s] ELSE t
           t3 == [t EXCEPT !.removed = TRUE, !.delivered = TRUE,
                           !.phase = "restore_blockers"]
<1>1. t2.removed = t.removed /\ t2.returned = t.returned /\ t2.phase = t.phase
  BY DEF TaskType
<1>2. t3 \in TaskType /\ t3.returned = t.returned /\ t3.phase # "complete"
  BY DEF TaskType, Phases
<1>3. CASE s = None /\ b \in w.station
  <2>1. o \in NextRestoreBlockers(w, q, t3, aq)
    BY <1>3 DEF NextRetrieveTarget
  <2>2. Follows(q, t3, w.station, o)
    BY <1>2, <2>1, NextRestoreBlockersLife
  <2> HIDE DEF t3
  <2> QED BY <1>2, <1>3, <2>2 DEF Follows
<1>4. CASE s = None /\ b \notin w.station
  BY <1>4 DEF NextRetrieveTarget, Follows, Outcome, NoAction, Raise, Action
<1>5. CASE s # None
  <2>1. CASE o = Outcome(t2, aq, Action("remove_target", b, s, None))
    BY <1>1, <2>1 DEF Follows, Outcome, Action
  <2>2. CASE o = Outcome(t2, aq, NoStack)
    BY <1>1, <2>2 DEF Follows, Outcome, NoStack, Action
  <2>3. CASE \E d \in Stacks :
               o = Outcome(t2, aq, Action("relocate", Top(w.stack[s]), s, d))
    BY <1>1, <2>3 DEF Follows, Outcome, Action
  <2> QED BY <1>5, <2>1, <2>2, <2>3 DEF NextRetrieveTarget, OrNoStack, RelocationStacks
<1> QED BY <1>3, <1>4, <1>5

\* next_action, whatever the phase.
LEMMA NextActionLife ==
    ASSUME NEW w, WorldOK(w), NEW q \in Requests, NEW o \in NextAction(w, q)
    PROVE  Follows(q, w.task[q], w.station, o)
<1> DEFINE t == w.task[q]
<1>1. t \in TaskType
  BY DEF WorldOK
<1>2. CASE t.phase = "retrieve_target"
  BY <1>1, <1>2, NextRetrieveTargetLife DEF NextAction
<1>3. CASE t.phase = "restore_blockers"
  BY <1>1, <1>3, NextRestoreBlockersLife DEF NextAction
<1>4. CASE t.phase = "return_target"
  BY <1>1, <1>4, NextReturnTargetLife DEF NextAction
<1>5. CASE t.phase \in {"wait_for_pickstation", "complete"}
  BY <1>1, <1>5 DEF NextAction, Follows, Outcome, NoAction, Action
<1> QED BY <1>1, <1>2, <1>3, <1>4, <1>5 DEF TaskType, Phases

----------------------------------------------------------------------------
(* No task that waits has ended *)

\* The target of a task that has removed and not returned it is at the station.
RemovedAtStation ==
    \A q \in Requests :
        task[q].removed /\ ~task[q].returned =>
            q \in Active /\ status[Target[q]] = "at_pickstation"

\* A task that has ended is done, or its completion is due.
EndedIsDone ==
    \A q \in Requests :
        ~Live(q) => q \in done \/ pc = "failed" \/ \E r \in Robots : <<r, q>> \in completions

\* Every request that has arrived is somewhere.
Somewhere == 1 .. arrived \subseteq Everywhere

\* Requests in pending and in the waiting list have tasks that have not ended.
LEMMA WaitingAreLive ==
    ASSUME TypeOK, QueueInv, EndedIsDone, pc # "failed", NEW q \in Pending \cup Waiting
    PROVE  q \in Requests /\ Live(q)
<1>1. q \in Requests
  BY DEF Pending, Waiting, TypeOK, QueueType, ToSet
<1>2. q \notin done /\ q \notin Assigned(queue)
  BY ActiveIs DEF QueueInv, Apart, Finished
<1>3. ASSUME NEW r \in Robots, <<r, q>> \in completions
      PROVE  FALSE
  <2>1. robotTask[r] = q
    BY <1>3 DEF QueueInv, CompletionsHeld
  <2>2. robotTask[r] # None
    BY <1>1, <2>1, WarehouseAssumption
  <2> QED BY <1>2, <2>1, <2>2, HeldTask
<1> QED BY <1>1, <1>2, <1>3 DEF EndedIsDone

\* So has the task of a robot when an event is handled.
LEMMA HeldIsLive ==
    ASSUME TypeOK, QueueInv, EndedIsDone, Ready, NEW r \in Robots, robotTask[r] # None
    PROVE  robotTask[r] \in Requests /\ Live(robotTask[r]) /\ robotTask[r] \in Active
<1>1. robotTask[r] \in Requests /\ robotTask[r] \notin done /\ robotTask[r] \in Active
  BY HeldTask DEF Finished
<1> QED BY <1>1 DEF EndedIsDone, Ready

\* The step moves no bin to or from a station and ends no task.  A target it
\* marks removed is at the station.
NoneEnds ==
    /\ UNCHANGED <<status, completions, done>>
    /\ \A p \in Requests :
         /\ task'[p].returned = task[p].returned
         /\ task'[p].phase = "complete" => task[p].phase = "complete"
         /\ task'[p].removed =>
              \/ task[p].removed
              \/ p \in Active' /\ status[Target[p]] = "at_pickstation"

\* Such a step keeps both.
LEMMA NoneEndsInv ==
    ASSUME RemovedAtStation, EndedIsDone, pc # "failed", NoneEnds, Active \subseteq Active'
    PROVE  RemovedAtStation' /\ EndedIsDone'
<1>1. RemovedAtStation'
  BY DEF RemovedAtStation, NoneEnds
<1>2. EndedIsDone'
  BY DEF EndedIsDone, NoneEnds, Live
<1> QED BY <1>1, <1>2

\* Nothing in the task is said to have happened, in tasks or by the step.
LEMMA SameLivesEndNone ==
    ASSUME LivesOf(task'), UNCHANGED <<status, completions, done>>
    PROVE  NoneEnds
BY DEF LivesOf, SameLife, NoneEnds

\* The strategy is asked for the running task q in a world that agrees with
\* the present on stations and on the lives of the tasks.
Asked(w, q, o) ==
    /\ WorldOK(w) /\ LivesOf(w.task) /\ w.station = Now.station
    /\ q \in Active' /\ Live(q)
    /\ o \in NextAction(w, q)
    /\ task' = [w.task EXCEPT ![q] = o.task]

\* The answer ends no task: a target that was removed is at the station.
LEMMA AnswerEndsNone ==
    ASSUME TypeOK, RemovedAtStation, NEW q \in Requests, NEW w, NEW o, Asked(w, q, o),
           UNCHANGED <<status, done>>
    PROVE  /\ o.act.type # "request_complete"
           /\ completions' = completions => NoneEnds
<1>1. Target[q] \in Now.station <=> status[Target[q]] = "at_pickstation"
  BY WarehouseAssumption DEF Now, World
<1>2. SameLife(task[q], w.task[q]) /\ Follows(q, w.task[q], Now.station, o)
  BY NextActionLife DEF Asked, LivesOf
<1>3. o.act.type # "request_complete"
  BY <1>1, <1>2 DEF Follows, SameLife, RemovedAtStation, Asked, Live
<1>4. /\ o.task.returned = task[q].returned
      /\ o.task.phase = "complete" => task[q].phase = "complete"
      /\ o.task.removed => task[q].removed \/ status[Target[q]] = "at_pickstation"
  BY <1>1, <1>2, <1>3 DEF Follows, SameLife
<1>5. task'[q] = o.task /\ \A p \in Requests : p # q => SameLife(task[p], task'[p])
  BY DEF Asked, WorldOK, LivesOf
<1>6. completions' = completions => NoneEnds
  BY <1>4, <1>5 DEF NoneEnds, Asked, SameLife
<1> QED BY <1>3, <1>6

\* Carrying the answer out ends no task.
LEMMA CarryEndsNone ==
    ASSUME TypeOK, RemovedAtStation, NEW q \in Requests, NEW w, NEW o, Asked(w, q, o),
           NEW r, NEW evs, NEW next, Carry(w, r, q, o, evs, next), UNCHANGED <<status, done>>
    PROVE  NoneEnds
BY AnswerEndsNone DEF Carry

\* Asking for the task of a robot that goes on with it ends none.
LEMMA ScheduleNextEndsNone ==
    ASSUME TypeOK, QueueInv, RemovedAtStation, EndedIsDone, Ready, Active' = Active,
           NEW r \in Robots, robotTask[r] # None,
           NEW w, WorldOK(w), LivesOf(w.task), w.station = Now.station,
           NEW evs, ScheduleNext(w, r, robotTask[r], evs), UNCHANGED <<status, done>>
    PROVE  NoneEnds
<1> DEFINE q == robotTask[r]
<1>1. q \in Requests /\ Live(q) /\ q \in Active'
  BY HeldIsLive
<1>2. PICK o \in NextAction(w, q) : Carry(w, r, q, o, evs, "handle")
  BY DEF ScheduleNext
<1>3. Asked(w, q, o)
  BY <1>1, <1>2 DEF Asked, Carry
<1> HIDE DEF q
<1> QED BY <1>1, <1>2, <1>3, CarryEndsNone

\* The present is a world to ask in.
LEMMA NowIsAsked ==
    ASSUME TypeOK
    PROVE  WorldOK(Now) /\ LivesOf(Now.task) /\ Now.task = task
<1>1. WorldNow(Now)
  BY WorldNowIsNow
<1> QED BY <1>1 DEF WorldNow, Now, World, LivesOf, SameLife

\* Taking an event off the list, or replacing it, ends no task.
LEMMA SameTasksEndNone ==
    ASSUME UNCHANGED <<task, status, completions, done>>
    PROVE  NoneEnds
BY DEF NoneEnds

\* A pickup that succeeds changes nothing in the life of a task.
LEMMA PickupLives ==
    ASSUME TypeOK, NEW e, e.act.bin \in Bins, robotTask[e.robot] \in Requests, PickupSucceeds(e)
    PROVE  LivesOf(task')
<1> DEFINE r == e.robot
           q == robotTask[r]
           b == e.act.bin
           tasks == TasksAfterPickup(r, b)
<1>1. tasks \in [Requests -> TaskType] /\ LivesOf(tasks)
  <2>1. CASE tasks = task
    BY <2>1 DEF TypeOK, LivesOf, SameLife
  <2>2. CASE /\ ForeignOwner(r, b) /\ HasOpenRelocation(task[queue.owner[b]], b)
             /\ tasks = [task EXCEPT ![queue.owner[b]] = ForgetRelocation(@, b)]
    <3> DEFINE o == queue.owner[b]
    <3>1. o \in Requests /\ task[o] \in TaskType
      BY <2>2 DEF ForeignOwner, TypeOK, QueueType
    <3>2. ForgetRelocation(task[o], b) \in TaskType
      BY <2>2, <3>1, ForgetRelocationType
    <3>3. SameLife(task[o], ForgetRelocation(task[o], b))
      <4>1. \A x : SameLife(task[o], [task[o] EXCEPT !.temp = x])
        BY <3>1 DEF SameLife, TaskType
      <4> QED BY <4>1 DEF ForgetRelocation
    <3>4. /\ tasks \in [Requests -> TaskType] /\ tasks[o] = ForgetRelocation(task[o], b)
          /\ \A p \in Requests : p # o => tasks[p] = task[p]
      BY <2>2, <3>1, <3>2 DEF TypeOK
    <3> HIDE DEF tasks, o
    <3> QED BY <3>3, <3>4 DEF LivesOf, SameLife
  <2> QED BY <2>1, <2>2 DEF TasksAfterPickup
<1> HIDE DEF tasks
<1>2. \/ task' = tasks
      \/ \E p \in Stations : task' = [tasks EXCEPT ![q].station = p]
  BY DEF PickupSucceeds, tasks
<1>3. ASSUME NEW p \in Stations, task' = [tasks EXCEPT ![q].station = p]
      PROVE  LivesOf(task')
  <2>1. SameLife(tasks[q], [tasks[q] EXCEPT !.station = p])
    <3>1. tasks[q] \in TaskType
      BY <1>1
    <3> QED BY <3>1 DEF SameLife, TaskType
  <2>2. /\ task'[q] = [tasks[q] EXCEPT !.station = p]
        /\ \A x \in Requests : x # q => task'[x] = tasks[x]
    BY <1>1, <1>3
  <2>3. \A x \in Requests : SameLife(tasks[x], task'[x])
    <3> HIDE DEF q
    <3> QED BY <2>1, <2>2 DEF SameLife
  <2> QED BY <1>1, <2>3 DEF LivesOf, SameLife
<1> QED BY <1>1, <1>2, <1>3

\* Nor does a redirected drop.
LEMMA RedirectLives ==
    ASSUME TypeOK, NEW e, robotTask[e.robot] \in Requests, RedirectBlockedDrop(e)
    PROVE  LivesOf(task')
<1> DEFINE q == robotTask[e.robot]
<1>1. ASSUME NEW s, task' = [task EXCEPT ![q] = UpdateReturnStack(@, e.act.bin, s)]
      PROVE  LivesOf(task')
  <2>1. SameLife(task[q], UpdateReturnStack(task[q], e.act.bin, s))
    <3>1. task[q] \in TaskType
      BY DEF TypeOK
    <3> HIDE DEF q
    <3> QED BY <3>1 DEF UpdateReturnStack, SameLife, TaskType
  <2>2. /\ task'[q] = UpdateReturnStack(task[q], e.act.bin, s)
        /\ \A p \in Requests : p # q => task'[p] = task[p]
    BY <1>1 DEF TypeOK
  <2> HIDE DEF q
  <2> QED BY <2>1, <2>2 DEF LivesOf, SameLife
<1>2. task' = task => LivesOf(task')
  BY DEF LivesOf, SameLife
<1> QED BY <1>1, <1>2 DEF RedirectBlockedDrop

\* The PICKUP handler.
LEMMA PickupEndsNone ==
    ASSUME TypeOK, QueueInv, OneChain, RemovedAtStation, EndedIsDone, Active' = Active,
           NEW e \in BagToSet(events), Pickup(e), requeues' = 0
    PROVE  NoneEnds
<1> DEFINE r == e.robot
           q == e.request
           b == e.act.bin
<1>1. /\ r \in Robots /\ robotTask[r] = q /\ q \in Requests /\ q # None
      /\ Ready /\ done' = done /\ b \in Bins
  BY HandledEvent, EventFields, WarehouseAssumption DEF EventOf, Pickup, PhysicalActions
<1>2. \A tasks, aq, evs : ~Requeue(r, tasks, aq, evs)
  BY DEF Requeue, TypeOK
<1>3. CASE ScheduleNext(Now, r, q, Drop(events, e)) /\ UNCHANGED bins
  BY <1>1, <1>3, NowIsAsked, ScheduleNextEndsNone DEF bins
<1>4. CASE Discard(e) /\ UNCHANGED bins
  BY <1>1, <1>4, SameTasksEndNone DEF Discard, bins
<1>5. CASE UNCHANGED <<task, bins, completions>>
  BY <1>1, <1>5, SameTasksEndNone DEF bins
<1>6. CASE PickupSucceeds(e)
  <2>1. UNCHANGED <<status, completions, done>>
    BY <1>1, <1>6 DEF PickupSucceeds
  <2> QED BY <1>1, <1>6, <2>1, PickupLives, SameLivesEndNone
<1>7. CASE PickupNotOnTop(e) /\ UNCHANGED bins
  <2>1. PICK o \in NextAction(Now, q) :
          \/ task' = [task EXCEPT ![q] = o.task] /\ UNCHANGED completions
          \/ Carry(Now, r, q, o, Drop(events, e), "handle")
    BY <1>2, <1>7 DEF PickupNotOnTop
  <2>2. task' = [task EXCEPT ![q] = o.task]
    BY <2>1, NowIsAsked DEF Carry
  <2>3. Asked(Now, q, o) /\ UNCHANGED <<status, done>>
    BY <1>1, <1>7, <2>2, NowIsAsked, HeldIsLive DEF Asked, bins
  <2> QED BY <1>1, <2>1, <2>3, AnswerEndsNone, CarryEndsNone
<1> QED BY <1>1, <1>2, <1>3, <1>4, <1>5, <1>6, <1>7 DEF Pickup

\* A bin that is laid down and is no returning target counted as stored all
\* the time.
LEMMA LaidWasStored ==
    ASSUME TypeOK, EveryBinInOnePlace, OneChain, Loads, LoadsStored,
           NEW e \in BagToSet(events), HandleDrop(e), Lays(e), e.act.type # "return_target"
    PROVE  /\ status' = status
           /\ \A tasks, aq : WorldAfterDrop(e, tasks, aq).station = Now.station
<1> DEFINE b == e.act.bin
           r == e.robot
<1>1. /\ r \in Robots /\ EventOf(r, e) /\ carried[r] = b /\ b \in Bins /\ b # None
      /\ status' = StatusAfterDrop(e)
  BY HandledDrop, WarehouseAssumption DEF Lays, PutsBin, PutDown, PhysicalActions
<1>2. ~Returning(events, r)
  BY <1>1 DEF Returning, EventOf, Only
<1>3. status[b] = "stored"
  BY <1>1, <1>2 DEF LoadsStored
<1>4. \A c \in Bins : status'[c] = status[c]
  BY <1>3, PutDownStatus
<1>5. status' = status
  BY <1>1, <1>4 DEF StatusAfterDrop, TypeOK
<1>6. \A tasks, aq : WorldAfterDrop(e, tasks, aq).station = Now.station
  BY <1>1, <1>5 DEF WorldAfterDrop, Now, World
<1> QED BY <1>5, <1>6

\* The DROP handler ends no task, but for the return of a target; and it adds
\* to the removed targets only at a port.
LEMMA HandleDropEnds ==
    ASSUME TypeOK, QueueInv, EveryBinInOnePlace, OneChain, Loads, LoadsStored,
           RemovedAtStation, EndedIsDone, Active' = Active,
           NEW e \in BagToSet(events), HandleDrop(e)
    PROVE  \/ NoneEnds \/ HandsIn(e)
           \/ Lays(e) /\ DropTarget(e) /\ e.act.type = "return_target"
<1> DEFINE r == e.robot
           q == robotTask[r]
<1>1. /\ r \in Robots /\ e.act \in PhysicalActions /\ q \in Requests /\ q # None
      /\ e.kind = "drop" /\ Ready /\ ~StaleDrop(e) /\ done' = done /\ e.act.bin \in moving
  BY HandledDrop DEF HandleDrop
<1>2. CASE ScheduleNext(Now, r, q, Drop(events, e)) /\ UNCHANGED bins
  BY <1>1, <1>2, NowIsAsked, ScheduleNextEndsNone DEF bins
<1>3. CASE UNCHANGED <<task, bins, completions>>
  BY <1>1, <1>3, SameTasksEndNone DEF bins
<1>4. CASE RedirectBlockedDrop(e)
  <2>1. UNCHANGED <<status, completions, done>>
    BY <1>1, <1>4 DEF RedirectBlockedDrop, bins
  <2> QED BY <1>1, <1>4, <2>1, RedirectLives, SameLivesEndNone
<1>5. CASE ~FullOnDrop(e) /\ DropEffect(e)
  <2>1. CASE e.act.type = "remove_target"
    <3>1. DropAtPort(e)
      BY <1>5, <2>1 DEF DropEffect, IsRelocate
    <3> QED BY <1>1, <2>1, <3>1, DropAtPortBins DEF HandsOver, HandsIn
  <2>2. CASE e.act.type # "remove_target"
    <3>1. /\ Lays(e)
          /\ \/ DropRelocated(e) /\ IsRelocate(e.act)
             \/ DropBlocker(e) /\ e.act.type = "return_blocker"
             \/ DropTarget(e) /\ e.act.type = "return_target"
      BY <1>5, <2>2, DropEffectLays
    <3>2. ASSUME NEW w, AsksAfterDrop(e, w), e.act.type # "return_target"
          PROVE  NoneEnds
      <4>1. status' = status /\ w.station = Now.station
        BY <3>1, <3>2, LaidWasStored DEF AsksAfterDrop
      <4>2. WorldOK(w) /\ LivesOf(w.task) /\ ScheduleNext(w, r, q, Drop(events, e))
        BY <3>2 DEF AsksAfterDrop, WorldNow
      <4> HIDE DEF r
      <4> QED BY <1>1, <4>1, <4>2, ScheduleNextEndsNone
    <3>3. CASE DropRelocated(e) /\ IsRelocate(e.act)
      BY <1>1, <3>2, <3>3, DropRelocatedAsks DEF IsRelocate
    <3>4. CASE DropBlocker(e) /\ e.act.type = "return_blocker"
      <4>1. CASE UNCHANGED <<task, completions>>
        BY <1>1, <3>1, <3>4, <4>1, LaidWasStored, SameTasksEndNone
      <4> QED BY <1>1, <3>2, <3>4, <4>1, DropBlockerAsks
    <3> QED BY <3>1, <3>3, <3>4
  <2> QED BY <2>1, <2>2, Zenon
<1> QED BY <1>1, <1>2, <1>3, <1>4, <1>5 DEF HandleDrop, OutdatedReturn

\* Giving an idle robot a task keeps every request and ends no task.
LEMMA StartsLife ==
    ASSUME TypeOK, QueueInv, RemovedAtStation, EndedIsDone,
           NEW r \in Robots, NEW q \in Requests, NEW w, StartsTask(r, q, w)
    PROVE  Active \cup {q} \subseteq Active' /\ NoneLost /\ NoneEnds
<1>1. /\ pc # "failed" /\ WorldOK(w) /\ w.task = task /\ w.station = Now.station
      /\ IsInjective(w.queue.waiting) /\ q \in Pending \cup Waiting
      /\ UNCHANGED <<line, serving, arrived, done, status>>
  BY DEF StartsTask, bins, ports
<1>2. Live(q) /\ AllLive
  BY <1>1, WaitingAreLive DEF AllLive
<1>3. /\ w.queue.waitlist = queue.waitlist /\ w.queue.pickstation = queue.pickstation
      /\ w.queue.assigned = [queue.assigned EXCEPT ![q] = r]
      /\ ToSet(w.queue.pending) = Pending \ {q}
      /\ ToSet(w.queue.waiting) = Waiting \ {q}
  BY <1>2 DEF StartsTask
<1>4. PICK o \in NextAction(w, q), next \in {"handle", "schedule", "schedule_new"} :
         Carry(w, r, q, o, events, next)
  BY DEF StartsTask
<1>5. BatchesOf(w.task) /\ LivesOf(w.task)
  BY <1>1 DEF BatchesOf, LivesOf, SameLife
<1>6. /\ SameBatches /\ queue'.pickstation = queue.pickstation
      /\ queue'.waitlist = queue.waitlist /\ Pending' = Pending \ {q}
      /\ \/ queue'.assigned = w.queue.assigned /\ Waiting' = Waiting \ {q}
         \/ /\ queue'.assigned = [w.queue.assigned EXCEPT ![q] = None]
            /\ Waiting' = Waiting \cup {q}
  BY <1>1, <1>3, <1>4, <1>5, CarryDoes DEF Pending
<1>7. /\ queue.assigned \in [Requests -> Robots \cup {None}] /\ None \notin Robots
      /\ q \notin Assigned(queue)
  BY <1>1, ActiveIs, WarehouseAssumption DEF TypeOK, QueueType, QueueInv, Apart
<1>8. \/ Assigned(queue') = Assigned(queue) \cup {q} /\ Waiting' = Waiting \ {q}
      \/ Assigned(queue') = Assigned(queue) /\ Waiting' = Waiting \cup {q}
  <2>1. CASE queue'.assigned = w.queue.assigned /\ Waiting' = Waiting \ {q}
    BY <1>3, <1>7, <2>1 DEF Assigned
  <2>2. CASE /\ queue'.assigned = [w.queue.assigned EXCEPT ![q] = None]
             /\ Waiting' = Waiting \cup {q}
    BY <1>3, <1>7, <2>2 DEF Assigned
  <2> QED BY <1>6, <2>1, <2>2
<1>9. Active \cup {q} \subseteq Active'
  BY <1>6, <1>8, ActiveIs, ActiveIsNext
<1>10. NoneLost
  <2>1. Finished' = Finished /\ Waitlisted' = Waitlisted
    BY <1>1, <1>6, SameRestDoes DEF SameRest
  <2> QED BY <1>6, <1>9, <2>1 DEF NoneLost, Everywhere
<1>11. NoneEnds
  <2>1. Asked(w, q, o)
    BY <1>1, <1>2, <1>4, <1>5, <1>9 DEF Asked, Carry
  <2> QED BY <1>1, <1>4, <2>1, CarryEndsNone
<1> QED BY <1>9, <1>10, <1>11

\* The end of the search for work forgets no task, because none has ended.
LEMMA ScheduleDoneLife ==
    ASSUME TypeOK, QueueInv, EndedIsDone, ScheduleDone
    PROVE  Active \subseteq Active' /\ NoneLost /\ NoneEnds
<1>1. UNCHANGED <<task, line, serving, arrived, completions, done, status>> /\ pc # "failed"
  BY DEF ScheduleDone, bins, ports
<1>2. AllLive
  BY <1>1, WaitingAreLive DEF AllLive
<1>3. /\ queue'.pending = queue.pending /\ queue'.assigned = queue.assigned
      /\ queue'.pickstation = queue.pickstation /\ queue'.waitlist = queue.waitlist
      /\ queue'.waiting = queue.waiting \/ (CanScheduleNew /\ queue'.waiting = WaitingAfterSearch)
  BY DEF ScheduleDone, TypeOK, QueueType
<1>4. Waiting' = Waiting
  <2>1. CASE CanScheduleNew /\ queue'.waiting = WaitingAfterSearch /\ pc = "schedule"
    <3>1. LiveWaiting = {}
      BY <2>1 DEF CanScheduleNew
    <3>2. Waiting = {}
      BY <1>2, <3>1 DEF AllLive, LiveWaiting, Waiting, ToSet
    <3>3. Waiting' = {}
      BY <2>1, EmptyList DEF WaitingAfterSearch, Waiting
    <3> QED BY <3>2, <3>3
  <2>2. CASE queue'.waiting = queue.waiting
    BY <2>2 DEF Waiting
  <2> QED BY <1>3, <2>1, <2>2 DEF WaitingAfterSearch
<1>5. Pending' = Pending /\ Assigned(queue') = Assigned(queue)
  BY <1>3 DEF Pending, Assigned
<1>6. Active' = Active
  BY <1>3, <1>4, <1>5, ActiveIs, ActiveIsNext
<1>7. Finished' = Finished /\ Waitlisted' = Waitlisted
  BY <1>1, <1>3, SameRestDoes DEF SameRest, SameBatches
<1>8. NoneLost
  BY <1>5, <1>6, <1>7 DEF NoneLost, Everywhere
<1> QED BY <1>1, <1>6, <1>8, SameTasksEndNone

\* The end of a service.
LEMMA PickstationCompleteEndsNone ==
    ASSUME TypeOK, NEW p \in Stations, NEW q \in Requests, PickstationComplete(p, q)
    PROVE  NoneEnds
<1>1. /\ task' = [task EXCEPT ![q] = MarkPickstationCompleted(@)]
      /\ UNCHANGED <<status, completions, done>>
  BY DEF PickstationComplete, bins
<1>2. \A t \in TaskType :
        /\ MarkPickstationCompleted(t).returned = t.returned
        /\ MarkPickstationCompleted(t).removed = t.removed
        /\ MarkPickstationCompleted(t).phase = "complete" => t.phase = "complete"
  BY DEF MarkPickstationCompleted, TaskType
<1>3. \A x \in Requests : task'[x] = IF x = q THEN MarkPickstationCompleted(task[x]) ELSE task[x]
  BY <1>1 DEF TypeOK
<1>4. \A x \in Requests : task[x] \in TaskType
  BY DEF TypeOK
<1> QED BY <1>1, <1>2, <1>3, <1>4 DEF NoneEnds

\* The hand-over of a target: it is at the station from then on.
LEMMA HandsInLife ==
    ASSUME TypeOK, OneChain, Loads, RemovedAtStation, EndedIsDone, Active' = Active, QueueInv,
           NEW e \in BagToSet(events), HandleDrop(e), HandsIn(e)
    PROVE  RemovedAtStation' /\ EndedIsDone'
<1> DEFINE r == e.robot
           q == robotTask[r]
           b == e.act.bin
           t == MarkWaitingAtPickstation(
                  AddBatchedRequests(task[q], ToSet(queue.waitlist[Target[q]])))
<1>1. /\ r \in Robots /\ q \in Requests /\ q # None /\ EventOf(r, e) /\ Ready
      /\ e.request = q /\ done' = done
  BY HandledDrop DEF HandleDrop
<1>2. b = Target[q] /\ b \in Bins
  BY <1>1, WarehouseAssumption DEF HandsIn, EventOf, TargetTypes
<1>3. /\ task' = [task EXCEPT ![q] = t] /\ completions' = completions
      /\ status' = [status EXCEPT ![b] = "at_pickstation"]
  BY <1>1, DropAtPortBins, DropAtPortOwn DEF HandsIn
<1>4. t.returned = task[q].returned /\ t.phase = "wait_for_pickstation"
  <2>1. task[q] \in TaskType
    BY <1>1 DEF TypeOK
  <2> HIDE DEF q
  <2> QED BY <2>1 DEF MarkWaitingAtPickstation, AddBatchedRequests, TaskType
<1>5. q \in Active
  BY <1>1, HeldIsLive
<1>6. /\ task'[q] = t /\ \A p \in Requests : p # q => task'[p] = task[p]
      /\ status'[b] = "at_pickstation" /\ \A c \in Bins : c # b => status'[c] = status[c]
  BY <1>1, <1>2, <1>3 DEF TypeOK
<1>7. \A p \in Requests : Target[p] \in Bins
  BY WarehouseAssumption
<1> HIDE DEF t, q, b, r
<1>8. RemovedAtStation'
  BY <1>2, <1>5, <1>6, <1>7 DEF RemovedAtStation
<1>9. EndedIsDone'
  BY <1>1, <1>3, <1>4, <1>6 DEF EndedIsDone, Live, Ready
<1> QED BY <1>8, <1>9

\* The return of a target ends its task, whose completion is due now, and takes
\* no other target from a station.
LEMMA ReturnsLife ==
    ASSUME TypeOK, EveryBinInOnePlace, OneChain, Loads, RemovedAtStation, EndedIsDone,
           Active' = Active, QueueInv,
           NEW e \in BagToSet(events), HandleDrop(e), Lays(e), DropTarget(e),
           e.act.type = "return_target"
    PROVE  RemovedAtStation' /\ EndedIsDone'
<1> DEFINE r == e.robot
           q == robotTask[r]
           b == e.act.bin
           t == MarkTargetReturned([task[q] EXCEPT !.actual = e.act.to])
<1>1. /\ r \in Robots /\ q \in Requests /\ q # None /\ EventOf(r, e) /\ Ready
      /\ e.request = q /\ done' = done /\ q \in Active
  BY HandledDrop, HeldTask DEF HandleDrop
<1>2. b = Target[q] /\ b \in Bins
  BY <1>1, WarehouseAssumption DEF EventOf, TargetTypes
<1>3. task' = [task EXCEPT ![q] = t] /\ completions' = completions \cup {<<r, q>>}
  BY <1>1 DEF DropTarget
<1>4. t.returned
  <2>1. task[q] \in TaskType
    BY <1>1 DEF TypeOK
  <2> HIDE DEF q
  <2> QED BY <2>1 DEF MarkTargetReturned, TaskType
<1>5. task'[q] = t /\ \A p \in Requests : p # q => task'[p] = task[p]
  BY <1>1, <1>3 DEF TypeOK
<1>6. \A c \in Bins : c # b => status'[c] = status[c]
  BY PutDownStatus
<1>7. \A p \in Active : p # q => Target[p] # b
  BY <1>1, <1>2 DEF QueueInv, DistinctTargets
<1>8. \A p \in Requests : Target[p] \in Bins
  BY WarehouseAssumption
<1> HIDE DEF t, q, b, r
<1>9. RemovedAtStation'
  BY <1>4, <1>5, <1>6, <1>7, <1>8 DEF RemovedAtStation
<1>10. EndedIsDone'
  BY <1>1, <1>3, <1>5 DEF EndedIsDone, Live, Ready
<1> QED BY <1>9, <1>10

\* The completion of a request records it as done, or ends the run.
LEMMA RequestCompleteLife ==
    ASSUME TypeOK, QueueInv, RemovedAtStation, EndedIsDone,
           NEW r \in Robots, NEW q \in Requests, RequestComplete(r, q)
    PROVE  RemovedAtStation' /\ EndedIsDone'
<1>1. /\ UNCHANGED <<task, status>> /\ pc # "failed"
      /\ completions' = completions \ {<<r, q>>}
  BY DEF RequestComplete, bins
<1>2. CASE pc' = "failed" /\ UNCHANGED <<done, queue, robotTask>>
  <2>1. Active' = Active
    BY <1>2 DEF Active
  <2> QED BY <1>1, <1>2, <2>1 DEF RemovedAtStation, EndedIsDone
<1>3. CASE /\ CanCompleteConsistently(q, task[q], stack)
           /\ done' = done \cup AllRequests(q, task[q])
  <2>1. task[q].returned /\ q \in done' /\ done \subseteq done'
    BY <1>3 DEF CanCompleteConsistently, AllRequests
  <2>2. Active \ {q} \subseteq Active'
    BY RequestCompleteInv
  <2>3. RemovedAtStation'
    BY <1>1, <2>1, <2>2 DEF RemovedAtStation
  <2>4. ASSUME NEW p \in Requests, ~Live(p)', p # q
        PROVE  p \in done' \/ pc' = "failed" \/ \E s \in Robots : <<s, p>> \in completions'
    BY <1>1, <2>1, <2>4 DEF EndedIsDone, Live
  <2> QED BY <2>1, <2>3, <2>4 DEF EndedIsDone
<1> QED BY <1>2, <1>3 DEF RequestComplete

----------------------------------------------------------------------------
(* The invariant *)

LifeInv == RemovedAtStation /\ EndedIsDone /\ Somewhere

\* A step that loses no request keeps Somewhere.
LEMMA SomewhereKept ==
    ASSUME Somewhere, NoneLost, arrived \in Nat,
           \/ arrived' = arrived
           \/ arrived' = arrived + 1 /\ arrived' \in Everywhere'
    PROVE  Somewhere'
BY DEF Somewhere, NoneLost

\* A step that ends no task and loses no request keeps the invariant.
LEMMA QuietStepLife ==
    ASSUME TypeOK, LifeInv, pc # "failed", NoneEnds, Active \subseteq Active', NoneLost,
           \/ arrived' = arrived
           \/ arrived' = arrived + 1 /\ arrived' \in Everywhere'
    PROVE  LifeInv'
<1>1. arrived \in Nat
  BY DEF TypeOK
<1> QED BY <1>1, NoneEndsInv, SomewhereKept DEF LifeInv

\* Handling an event moves requests only as Moves says.
LEMMA RobotEventMoves ==
    ASSUME TypeOK, QueueInv, NEW e \in BagToSet(events),
           Pickup(e) \/ HandleDrop(e) \/ RobotAction(e)
    PROVE  Active' = Active /\ NoneLost /\ arrived' = arrived /\ done' = done
<1>1. e.robot \in Robots
  BY EventFields
<1>2. Stays \/ GivesUp(e.robot) \/ Delivers(e.robot)
  BY PickupControl, HandleDropControl, RobotActionControl
<1>3. Active' = Active /\ NoneLost
  BY <1>1, <1>2, StaysInv, GivesUpInv, DeliversInv
<1>4. arrived' = arrived /\ done' = done
  BY DEF Pickup, HandleDrop, RobotAction
<1> QED BY <1>3, <1>4

\* Handling an event of a robot.
LEMMA RobotEventLife ==
    ASSUME TypeOK, QueueInv, EveryBinInOnePlace, ChainInv, LifeInv, requeues' = 0,
           NEW e \in BagToSet(events), Pickup(e) \/ HandleDrop(e) \/ RobotAction(e)
    PROVE  LifeInv'
<1>1. Active' = Active /\ NoneLost /\ arrived' = arrived /\ done' = done
  BY RobotEventMoves
<1>2. Ready /\ pc # "failed"
  BY DEF Pickup, HandleDrop, RobotAction, Ready
<1>3. OneChain /\ Loads /\ LoadsStored /\ RemovedAtStation /\ EndedIsDone
  BY DEF ChainInv, LifeInv
<1>4. Somewhere'
  <2>1. arrived \in Nat /\ Somewhere
    BY DEF TypeOK, LifeInv
  <2> QED BY <1>1, <2>1, SomewhereKept
<1>5. CASE NoneEnds
  BY <1>1, <1>2, <1>5, QuietStepLife
<1>6. CASE Pickup(e)
  BY <1>1, <1>3, <1>5, <1>6, PickupEndsNone
<1>7. CASE HandleDrop(e)
  <2>1. CASE HandsIn(e)
    BY <1>1, <1>3, <1>4, <1>7, <2>1, HandsInLife DEF LifeInv
  <2>2. CASE Lays(e) /\ DropTarget(e) /\ e.act.type = "return_target"
    BY <1>1, <1>3, <1>4, <1>7, <2>2, ReturnsLife DEF LifeInv
  <2> QED BY <1>1, <1>3, <1>5, <1>7, <2>1, <2>2, HandleDropEnds
<1>8. CASE RobotAction(e)
  <2>1. UNCHANGED bins
    BY <1>8 DEF RobotAction
  <2>2. CASE Discard(e)
    BY <1>1, <1>5, <2>1, <2>2, SameTasksEndNone DEF Discard, bins
  <2>3. CASE robotTask[e.robot] # None /\ ScheduleNext(Now, e.robot, robotTask[e.robot], Drop(events, e))
    <3>1. e.robot \in Robots
      BY EventFields
    <3> QED BY <1>1, <1>2, <1>3, <1>5, <2>1, <2>3, <3>1, NowIsAsked, ScheduleNextEndsNone DEF bins
  <2>4. ~Requeue(e.robot, task, queue, Drop(events, e))
    BY DEF Requeue, TypeOK
  <2> QED BY <1>8, <2>2, <2>3, <2>4 DEF RobotAction
<1> QED BY <1>6, <1>7, <1>8

\* Until the first recovery every step keeps it.
LEMMA LifeStep ==
    ASSUME TypeOK, QueueInv, EveryBinInOnePlace, ChainInv, LifeInv, [Next]_vars, requeues' = 0
    PROVE  LifeInv'
<1>1. CASE UNCHANGED vars
  <2>1. /\ UNCHANGED <<task, queue, status, done, completions, pc, arrived>>
    BY <1>1 DEF vars, bins
  <2>2. Active' = Active /\ Everywhere' = Everywhere
    BY <2>1 DEF Active, Everywhere, Pending, Waitlisted, BatchOf, Finished, Batched
  <2> QED BY <2>1, <2>2 DEF LifeInv, RemovedAtStation, EndedIsDone, Somewhere, Live
<1>2. CASE pc = "failed"
  BY <1>1, <1>2, FailedStops
<1>3. CASE pc # "failed" /\ Next
  <2>1. CASE Arrival
    <3>1. Active' = Active /\ NoneLost /\ arrived' \in Everywhere'
      BY <2>1, ArrivalInv
    <3>2. arrived' = arrived + 1 /\ UNCHANGED <<task, status, completions, done>>
      BY <2>1 DEF Arrival, bins
    <3> QED BY <1>3, <3>1, <3>2, SameTasksEndNone, QuietStepLife
  <2>2. ASSUME NEW r \in Robots, NEW q \in Requests, NEW w, StartsTask(r, q, w)
        PROVE  LifeInv'
    <3>1. Active \subseteq Active' /\ NoneLost /\ NoneEnds
      BY <2>2, StartsLife DEF LifeInv
    <3>2. arrived' = arrived
      BY <2>2 DEF StartsTask
    <3> QED BY <1>3, <3>1, <3>2, QuietStepLife
  <2>3. ASSUME NEW r \in Robots, NEW i \in DOMAIN queue.waiting, ScheduleWaiting(r, i)
        PROVE  LifeInv'
    BY <2>2, <2>3, WaitingStarts
  <2>4. ASSUME NEW r \in Robots, NEW i \in DOMAIN queue.pending, ScheduleNew(r, i)
        PROVE  LifeInv'
    BY <2>2, <2>4, PendingStarts
  <2>5. CASE ScheduleDone
    <3>1. Active \subseteq Active' /\ NoneLost /\ NoneEnds
      BY <2>5, ScheduleDoneLife DEF LifeInv
    <3>2. arrived' = arrived
      BY <2>5 DEF ScheduleDone
    <3> QED BY <1>3, <3>1, <3>2, QuietStepLife
  <2>6. CASE \E r \in Robots : RobotEvent(r)
    <3>1. PICK e \in BagToSet(events) : Pickup(e) \/ HandleDrop(e) \/ RobotAction(e)
      BY <2>6 DEF RobotEvent
    <3> QED BY <3>1, RobotEventLife
  <2>7. ASSUME NEW p \in Stations, NEW q \in Requests, PickstationComplete(p, q)
        PROVE  LifeInv'
    <3>1. Active' = Active /\ NoneLost
      BY <2>7, PickstationCompleteInv
    <3>2. NoneEnds /\ arrived' = arrived
      BY <2>7, PickstationCompleteEndsNone DEF PickstationComplete
    <3> QED BY <1>3, <3>1, <3>2, QuietStepLife
  <2>8. ASSUME NEW r \in Robots, NEW q \in Requests, RequestComplete(r, q)
        PROVE  LifeInv'
    <3>1. NoneLost
      BY <2>8, RequestCompleteInv
    <3>2. arrived' = arrived /\ arrived \in Nat
      BY <2>8 DEF RequestComplete, TypeOK
    <3> QED BY <2>8, <3>1, <3>2, RequestCompleteLife, SomewhereKept DEF LifeInv
  <2>9. ASSUME NEW r \in Robots, RequeueVictim(r)
        PROVE  FALSE
    BY <2>9 DEF RequeueVictim, Requeue, TypeOK
  <2>10. ASSUME NEW r \in Robots, ForceReplan(r)
         PROVE  LifeInv'
    <3> DEFINE q == robotTask[r]
    <3>1. Stays
      BY <2>10, ForceReplanControl
    <3>2. Active' = Active /\ NoneLost
      BY <3>1, StaysInv
    <3>3. Ready /\ q # None /\ UNCHANGED <<status, done, completions, arrived>>
      BY <2>10 DEF ForceReplan, bins
    <3>4. q \in Requests /\ Live(q) /\ q \in Active
      BY <3>3, HeldIsLive DEF LifeInv
    <3>5. PICK o \in NextAction(Now, q) : task' = [task EXCEPT ![q] = o.task]
      BY <2>10 DEF ForceReplan
    <3> HIDE DEF q
    <3>6. Asked(Now, q, o)
      BY <3>2, <3>4, <3>5, NowIsAsked DEF Asked
    <3>7. NoneEnds
      BY <3>3, <3>4, <3>6, AnswerEndsNone DEF LifeInv
    <3> QED BY <1>3, <3>2, <3>3, <3>7, QuietStepLife
  <2> QED BY <1>3, <2>1, <2>3, <2>4, <2>5, <2>6, <2>7, <2>8, <2>9, <2>10 DEF Next, Schedule
<1> QED BY <1>1, <1>2, <1>3

\* Initially no request has arrived.
LEMMA InitLife == Init => LifeInv
<1> SUFFICES ASSUME Init PROVE LifeInv
  OBVIOUS
<1>1. \A q \in Requests : task[q] = NewTask
  BY DEF Init
<1>2. RemovedAtStation
  BY <1>1 DEF RemovedAtStation, NewTask
<1>3. EndedIsDone
  BY <1>1 DEF EndedIsDone, Live, NewTask
<1>4. Somewhere
  BY DEF Somewhere, Init
<1> QED BY <1>2, <1>3, <1>4 DEF LifeInv

\* Until the first recovery no request is lost, and every task that has ended
\* is done or about to be.
LEMMA LifeInvariant == Spec => [](requeues = 0 => LifeInv)
<1>1. Init => (requeues = 0 => LifeInv)
  BY InitLife
<1>2. /\ TypeOK /\ QueueInv /\ EveryBinInOnePlace /\ (requeues = 0 => ChainInv)
      /\ (requeues = 0 => LifeInv) /\ [Next]_vars
      => (requeues = 0 => LifeInv)'
  <2> SUFFICES ASSUME TypeOK, QueueInv, EveryBinInOnePlace, requeues = 0 => ChainInv,
                      requeues = 0 => LifeInv, [Next]_vars, requeues' = 0
               PROVE  LifeInv'
    OBVIOUS
  <2>1. ChainInv /\ LifeInv
    BY RecoveriesCounted
  <2> QED BY <2>1, LifeStep
<1> QED BY <1>1, <1>2, ChainInvariant, QueueInvariant, BinsConserved, PTL DEF Spec

\* The containers of a request, as sets.
LEMMA ContainersAre ==
    ASSUME TypeOK, NEW q \in Requests
    PROVE  /\ Contains(queue.pending, q) <=> q \in Pending
           /\ Contains(queue.waiting, q) <=> q \in Waiting
           /\ (\E b \in Bins : Contains(queue.waitlist[b], q)) <=> q \in Waitlisted
           /\ queue.assigned[q] # None <=> q \in Assigned(queue)
<1>1. ASSUME NEW s \in Seq(Requests)
      PROVE  Contains(s, q) <=> q \in ToSet(s)
  BY DEF Contains, ToSet
<1>2. /\ queue.pending \in Seq(Requests) /\ queue.waiting \in Seq(Requests)
      /\ \A b \in Bins : queue.waitlist[b] \in Seq(Requests)
  BY DEF TypeOK, QueueType
<1>3. \A b \in Bins : Contains(queue.waitlist[b], q) <=> q \in BatchOf(b)
  BY <1>1, <1>2 DEF BatchOf
<1>4. (\E b \in Bins : Contains(queue.waitlist[b], q)) <=> q \in Waitlisted
  BY <1>3 DEF Waitlisted
<1> QED BY <1>1, <1>2, <1>4 DEF Pending, Waiting, Assigned

\* Until a recovery takes a task off its robot, a request is from its arrival
\* to its completion in exactly one of pending, the batch waiting list, the
\* assignments, the waiting list and the pickstation list (active_queue.py),
\* although the handlers move it from one to another in several calls.
THEOREM NoRequestLost == Spec => [](requeues = 0 => OneContainer)
<1>1. TypeOK /\ QueueInv /\ LifeInv => OneContainer
  <2> SUFFICES ASSUME TypeOK, QueueInv, LifeInv, NEW q \in Requests
               PROVE  Cardinality(ContainersOf(q)) =
                        IF q > arrived \/ q \in Finished THEN 0 ELSE 1
    BY DEF OneContainer, Finished
  <2> DEFINE In(c) == \/ c = "pending"     /\ q \in Pending
                      \/ c = "waitlist"    /\ q \in Waitlisted
                      \/ c = "assigned"    /\ q \in Assigned(queue)
                      \/ c = "waiting"     /\ q \in Waiting
                      \/ c = "pickstation" /\ q \in queue.pickstation
  <2>1. ContainersOf(q) =
          {c \in {"pending", "waitlist", "assigned", "waiting", "pickstation"} : In(c)}
    BY ContainersAre DEF ContainersOf
  <2>2. Apart /\ Came /\ Somewhere
    BY DEF QueueInv, LifeInv
  <2>3. Active = Assigned(queue) \cup Waiting \cup queue.pickstation
    BY ActiveIs
  <2>4. CASE q > arrived \/ q \in Finished
    <3>1. q \notin Pending \cup Waitlisted \cup Active
      <4>1. CASE q > arrived
        BY <4>1, <2>2 DEF Came, TypeOK, Requests
      <4>2. CASE q \in Finished
        BY <4>2, <2>2 DEF Apart
      <4> QED BY <2>4, <4>1, <4>2
    <3>2. ContainersOf(q) = {}
      BY <2>1, <2>3, <3>1
    <3> QED BY <2>4, <3>2, FS_EmptySet
  <2>5. CASE ~(q > arrived \/ q \in Finished)
    <3>1. q \in Pending \cup Waitlisted \cup Active
      <4>1. q \in 1 .. arrived
        BY <2>5 DEF TypeOK, Requests
      <4> QED BY <4>1, <2>2, <2>5 DEF Somewhere, Everywhere
    <3>2. \E c : ContainersOf(q) = {c}
      <4>1. CASE q \in Pending
        <5>1. ContainersOf(q) = {"pending"}
          BY <2>1, <2>2, <2>3, <4>1 DEF Apart
        <5> QED BY <5>1
      <4>2. CASE q \in Waitlisted
        <5>1. ContainersOf(q) = {"waitlist"}
          BY <2>1, <2>2, <2>3, <4>2 DEF Apart
        <5> QED BY <5>1
      <4>3. CASE q \in Assigned(queue)
        <5>1. ContainersOf(q) = {"assigned"}
          BY <2>1, <2>2, <2>3, <4>3 DEF Apart
        <5> QED BY <5>1
      <4>4. CASE q \in Waiting
        <5>1. ContainersOf(q) = {"waiting"}
          BY <2>1, <2>2, <2>3, <4>4 DEF Apart
        <5> QED BY <5>1
      <4>5. CASE q \in queue.pickstation
        <5>1. ContainersOf(q) = {"pickstation"}
          BY <2>1, <2>2, <2>3, <4>5 DEF Apart
        <5> QED BY <5>1
      <4> QED BY <2>3, <3>1, <4>1, <4>2, <4>3, <4>4, <4>5
    <3> QED BY <2>5, <3>2, FS_Singleton
  <2> QED BY <2>4, <2>5
<1> QED BY <1>1, LifeInvariant, QueueInvariant, PTL

----------------------------------------------------------------------------
(* A station with waiting tasks serves one *)

BusyBut(l, srv, p) ==
    /\ l \in [Stations -> Seq(Requests)]
    /\ srv \in [Stations -> SUBSET Requests]
    /\ \A s \in Stations : s # p /\ l[s] # <<>> => srv[s] # {}

\* Starting a service leaves no station idle before its queue.
LEMMA StartServiceBusy ==
    ASSUME NEW l, NEW srv, NEW p \in Stations, BusyBut(l, srv, p), StartService(l, srv, p)
    PROVE  StationBusy'
<1>1. Capacity \in Nat \ {0} /\ Cardinality({}) = 0
  BY LifecycleAssumption, FS_EmptySet
<1>2. CASE Starts(l, srv, p)
  <2>1. \A s \in Stations : line'[s] = IF s = p THEN Tail(l[p]) ELSE l[s]
    BY <1>2 DEF StartService, BusyBut
  <2>2. \A s \in Stations :
          serving'[s] = IF s = p THEN srv[p] \cup {Head(l[p])} ELSE srv[s]
    BY <1>2 DEF StartService, BusyBut
  <2> QED BY <2>1, <2>2 DEF StationBusy, BusyBut
<1>3. CASE ~Starts(l, srv, p)
  <2>1. line' = l /\ serving' = srv
    BY <1>3 DEF StartService
  <2>2. ASSUME srv[p] = {}
        PROVE  l[p] = <<>>
    <3>1. Cardinality(srv[p]) = 0
      BY <1>1, <2>2
    <3> QED BY <1>1, <1>3, <3>1 DEF Starts
  <2> QED BY <2>1, <2>2 DEF StationBusy, BusyBut
<1> QED BY <1>2, <1>3

\* A delivered target: its task queues, and a free slot takes the head.
LEMMA DropAtPortBusy ==
    ASSUME "exit_blocked" \notin Faults, TypeOK, StationBusy,
           NEW e \in BagToSet(events), DropAtPort(e)
    PROVE  StationBusy'
<1> DEFINE q == robotTask[e.robot]
           p == IF task[q].station # None THEN task[q].station
                ELSE CHOOSE s \in Stations : TRUE
           l == [line EXCEPT ![p] = Append(@, q)]
<1>1. CASE q = None
  BY <1>1, DropAtPortIdle DEF StationBusy, ports
<1>2. CASE q # None
  <2>1. e.robot \in Robots
    BY EventFields
  <2>2. q \in Requests
    BY <1>2, <2>1 DEF TypeOK
  <2>3. p \in Stations
    <3> HIDE DEF q
    <3>1. task[q].station \in Stations \cup {None}
      BY <2>2 DEF TypeOK, TaskType
    <3> QED BY <3>1, WarehouseAssumption
  <2>4. StartService(l, serving, p)
    BY <1>2, DropAtPortOwn
  <2> HIDE DEF q, p
  <2>5. /\ line \in [Stations -> Seq(Requests)] /\ serving \in [Stations -> SUBSET Requests]
    BY DEF TypeOK
  <2>6. l \in [Stations -> Seq(Requests)] /\ \A s \in Stations : s # p => l[s] = line[s]
    BY <2>2, <2>3, <2>5
  <2> HIDE DEF l
  <2>7. BusyBut(l, serving, p)
    BY <2>5, <2>6 DEF StationBusy, BusyBut
  <2> QED BY <2>3, <2>4, <2>7, StartServiceBusy
<1> QED BY <1>1, <1>2

\* A finished service: its slot is free for the head of the queue.
LEMMA PickstationCompleteBusy ==
    ASSUME TypeOK, StationBusy, NEW p \in Stations, NEW q \in Requests, PickstationComplete(p, q)
    PROVE  StationBusy'
<1> DEFINE srv == EndService(serving, p, q)
<1>1. line \in [Stations -> Seq(Requests)] /\ serving \in [Stations -> SUBSET Requests]
  BY DEF TypeOK
<1>2. /\ srv \in [Stations -> SUBSET Requests]
      /\ \A s \in Stations : s # p => srv[s] = serving[s]
  BY <1>1 DEF EndService
<1>3. BusyBut(line, srv, p)
  BY <1>1, <1>2 DEF StationBusy, BusyBut
<1>4. StartService(line, srv, p)
  BY DEF PickstationComplete
<1> HIDE DEF srv
<1> QED BY <1>3, <1>4, StartServiceBusy

\* While a robot can leave the port, no station idles while tasks queue at it:
\* both handlers that end a service or extend a queue start the next service
\* (_try_start_pickstation_service).
THEOREM StationsStayBusy ==
    ASSUME "exit_blocked" \notin Faults
    PROVE  Spec => []StationBusy
<1>1. Init => StationBusy
  BY DEF Init, StationBusy
<1>2. ASSUME TypeOK, StationBusy, [Next]_vars
      PROVE  StationBusy'
  <2>1. CASE UNCHANGED ports
    BY <1>2, <2>1 DEF StationBusy, ports
  <2>2. CASE Arrival \/ Schedule
    BY <2>1, <2>2 DEF Arrival, Schedule, ScheduleWaiting, ScheduleNew, ScheduleDone
  <2>3. ASSUME NEW e \in BagToSet(events), Pickup(e) \/ RobotAction(e)
        PROVE  StationBusy'
    BY <2>1, <2>3 DEF Pickup, RobotAction
  <2>4. ASSUME NEW e \in BagToSet(events), HandleDrop(e)
        PROVE  StationBusy'
    <3>1. CASE DropEffect(e)
      <4>1. e.act \in PhysicalActions
        BY <1>2, <2>4, EventFields DEF HandleDrop
      <4> DEFINE q == robotTask[e.robot]
      <4>2. \/ e.act.type = "remove_target"
            \/ q = None /\ e.act.type # "remove_target"
            \/ q # None /\ IsRelocate(e.act)
            \/ q # None /\ e.act.type = "return_blocker"
            \/ q # None /\ e.act.type = "return_target"
        BY <4>1 DEF PhysicalActions, IsRelocate
      <4>3. DropAtPort(e) \/ DropWithoutTask(e) \/ DropRelocated(e) \/ DropBlocker(e)
              \/ DropTarget(e)
        BY <3>1, <4>2 DEF DropEffect, IsRelocate
      <4>4. DropAtPort(e) \/ UNCHANGED ports
        BY <4>3 DEF DropWithoutTask, DropRelocated, DropBlocker, DropTarget
      <4> QED BY <1>2, <2>1, <4>4, DropAtPortBusy
    <3>2. CASE ~DropEffect(e)
      BY <2>1, <2>4, <3>2 DEF HandleDrop, RedirectBlockedDrop
    <3> QED BY <3>1, <3>2
  <2>5. ASSUME NEW p \in Stations, NEW q \in Requests, PickstationComplete(p, q)
        PROVE  StationBusy'
    BY <1>2, <2>5, PickstationCompleteBusy
  <2>6. CASE \E r \in Robots, q \in Requests : RequestComplete(r, q)
    BY <2>1, <2>6 DEF RequestComplete
  <2>7. CASE \E r \in Robots : RequeueVictim(r) \/ ForceReplan(r)
    BY <2>1, <2>7 DEF RequeueVictim, ForceReplan
  <2>8. CASE UNCHANGED vars
    BY <2>1, <2>8 DEF vars
  <2> QED BY <1>2, <2>2, <2>3, <2>4, <2>5, <2>6, <2>7, <2>8 DEF Next, RobotEvent
<1> QED BY <1>1, <1>2, TypeCorrect, PTL DEF Spec

================================================================================
