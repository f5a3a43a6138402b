--------------------------- MODULE RobotChain_proofs ---------------------------
(***************************************************************************)
(* What TaskLifecycle promises until a recovery takes a task off its robot *)
(* for the first time (requeues = 0), for every value of its constants:    *)
(* one chain of events per robot, loads and bins in transit that agree,    *)
(* bins that stay at their station, and no request lost.  Later on the     *)
(* pending events of the robot outlive its task, and none of this is       *)
(* certain any more.                                                       *)
(***************************************************************************)
EXTENDS TaskQueue_proofs, FiniteSetTheorems

----------------------------------------------------------------------------
(* The events of one robot *)

NoEvent(evs, r) == \A f \in BagToSet(evs) : f.robot # r

\* e is the one event of its robot.
Only(evs, e) ==
    /\ e \in BagToSet(evs) /\ evs[e] = 1
    /\ \A f \in BagToSet(evs) : f.robot = e.robot => f = e

\* The events of all robots but r are the same.
OthersKept(evs, fvs, r) ==
    /\ \A f \in BagToSet(evs) : f.robot # r => f \in BagToSet(fvs) /\ fvs[f] = evs[f]
    /\ \A f \in BagToSet(fvs) : f.robot # r => f \in BagToSet(evs)

\* Handling the one event of a robot leaves it without events.
LEMMA DropOnly ==
    ASSUME NEW evs, IsABag(evs), NEW e, Only(evs, e)
    PROVE  /\ IsABag(Drop(evs, e)) /\ NoEvent(Drop(evs, e), e.robot)
           /\ OthersKept(evs, Drop(evs, e), e.robot)
<1>1. /\ DOMAIN Drop(evs, e) = DOMAIN evs \ {e}
      /\ \A f \in DOMAIN evs \ {e} : Drop(evs, e)[f] = evs[f]
      /\ IsABag(Drop(evs, e))
  BY DEF Only, Drop, IsABag, BagToSet, SetToBag, (-)
<1> QED BY <1>1 DEF Only, NoEvent, OthersKept, BagToSet

\* Scheduling an event for a robot without events makes it the only one.
LEMMA PushOnly ==
    ASSUME NEW evs, IsABag(evs), NEW k, NEW r, NEW q, NEW a, NoEvent(evs, r)
    PROVE  /\ Only(Push(evs, k, r, q, a), [kind |-> k, robot |-> r, request |-> q, act |-> a])
           /\ OthersKept(evs, Push(evs, k, r, q, a), r)
<1> DEFINE n == [kind |-> k, robot |-> r, request |-> q, act |-> a]
           pushed == Push(evs, k, r, q, a)
<1>1. n \notin DOMAIN evs /\ n.robot = r
  BY DEF NoEvent, BagToSet
<1>2. pushed = evs (+) [x \in {n} |-> 1]
  BY DEF Push, SetToBag
<1>3. /\ DOMAIN pushed = DOMAIN evs \cup {n} /\ pushed[n] = 1
      /\ \A f \in DOMAIN evs : pushed[f] = evs[f]
  BY <1>1, <1>2 DEF (+), IsABag
<1> HIDE DEF n, pushed
<1>4. Only(pushed, n)
  BY <1>1, <1>3 DEF Only, NoEvent, BagToSet
<1>5. OthersKept(evs, pushed, r)
  BY <1>1, <1>3 DEF OthersKept, BagToSet
<1> QED BY <1>4, <1>5 DEF n, pushed

\* Two steps in a row keep what each keeps.
LEMMA OthersKeptChain ==
    ASSUME NEW evs, NEW fvs, NEW gvs, NEW r, OthersKept(evs, fvs, r), OthersKept(fvs, gvs, r)
    PROVE  OthersKept(evs, gvs, r)
BY DEF OthersKept

----------------------------------------------------------------------------
(* One chain of events per robot *)

\* e is the only event of r: it serves the robot's task, does nothing to
\* another target than the task's own, and as a DROP puts down what r carries.
\* (A run that has failed has put the bin down and keeps the event.)
EventOf(r, e) ==
    /\ Only(events, e)
    /\ e.robot = r /\ e.request = robotTask[r]
    /\ e.act.type \in TargetTypes => e.act.bin = Target[e.request]
    /\ e.kind = "drop" /\ pc # "failed" => carried[r] = e.act.bin
    /\ \A q \in Requests : <<r, q>> \notin completions

Busy(r) == \E e \in BagToSet(events) : EventOf(r, e)

\* Without events, a completion may be due for the task of r.
Quiet(r) ==
    /\ NoEvent(events, r)
    /\ \A q \in Requests : <<r, q>> \in completions => robotTask[r] = q

OneChain == \A r \in Robots : Quiet(r) \/ Busy(r)

\* The step concerns no robot but r.
OthersSame(r) ==
    /\ pc # "failed"
    /\ OthersKept(events, events', r)
    /\ \A s \in Robots \ {r} :
         /\ robotTask'[s] = robotTask[s] /\ carried'[s] = carried[s]
         /\ \A q \in Requests : <<s, q>> \in completions' => <<s, q>> \in completions

\* An event that is handled is the one event of its robot.
LEMMA HandledEvent ==
    ASSUME TypeOK, OneChain, NEW e \in BagToSet(events)
    PROVE  e.robot \in Robots /\ EventOf(e.robot, e)
<1>1. e.robot \in Robots
  BY EventFields
<1>2. Busy(e.robot)
  BY <1>1 DEF OneChain, Quiet, NoEvent
<1>3. PICK f \in BagToSet(events) : EventOf(e.robot, f)
  BY <1>2 DEF Busy
<1>4. e = f
  BY <1>3 DEF EventOf, Only
<1> QED BY <1>1, <1>3, <1>4

\* A robot the step does not concern keeps its chain.
LEMMA OtherChains ==
    ASSUME NEW r \in Robots, NEW s \in Robots \ {r}, OthersSame(r), Quiet(s) \/ Busy(s)
    PROVE  Quiet(s)' \/ Busy(s)'
<1>1. CASE Quiet(s)
  BY <1>1 DEF OthersSame, OthersKept, Quiet, NoEvent
<1>2. CASE Busy(s)
  <2>1. PICK e \in BagToSet(events) : EventOf(s, e)
    BY <1>2 DEF Busy
  <2>2. e.robot = s /\ e.robot # r
    BY <2>1 DEF EventOf
  <2>3. e \in BagToSet(events') /\ events'[e] = events[e]
    BY <2>2 DEF OthersSame, OthersKept
  <2>4. \A f \in BagToSet(events') : f.robot = s => f = e
    BY <2>1, <2>2 DEF OthersSame, OthersKept, EventOf, Only
  <2>5. Only(events', e)
    BY <2>1, <2>2, <2>3, <2>4 DEF EventOf, Only
  <2>6. EventOf(s, e)'
    BY <2>1, <2>5 DEF EventOf, OthersSame
  <2> QED BY <2>3, <2>6 DEF Busy
<1> QED BY <1>1, <1>2

\* A step of one robot, after which that robot has one chain, keeps them all.
LEMMA RobotStepChain ==
    ASSUME OneChain, NEW r \in Robots, OthersSame(r), Quiet(r)' \/ Busy(r)'
    PROVE  OneChain'
<1>1. \A s \in Robots : Quiet(s)' \/ Busy(s)'
  BY OtherChains DEF OneChain
<1> QED BY <1>1 DEF OneChain

\* A step that leaves events, robots, loads and completions alone.
LEMMA SameChain ==
    ASSUME OneChain, UNCHANGED <<robotTask, carried, events>>, completions' \subseteq completions,
           pc # "failed" \/ pc' = pc
    PROVE  OneChain'
<1>1. \A r \in Robots : Quiet(r) => Quiet(r)'
  BY DEF Quiet
<1>2. \A r \in Robots : \A e : EventOf(r, e) => EventOf(r, e)'
  BY DEF EventOf
<1>3. \A r \in Robots : Busy(r) => Busy(r)'
  BY <1>2 DEF Busy
<1> QED BY <1>1, <1>3 DEF OneChain

\* Carrying out what the strategy answers for a robot that has no other event
\* gives it one PICKUP event, one completion, or nothing.
LEMMA CarryChain ==
    ASSUME TypeOK, pc # "failed", NEW w, WorldOK(w), NEW r \in Robots, NEW q \in Requests,
           NEW o \in NextAction(w, q), NEW evs, IsABag(evs), NoEvent(evs, r),
           OthersKept(events, evs, r), \A p \in Requests : <<r, p>> \notin completions,
           NEW next, Carry(w, r, q, o, evs, next),
           \A s \in Robots \ {r} : carried'[s] = carried[s]
    PROVE  OthersSame(r) /\ (Quiet(r)' \/ Busy(r)')
<1>1. o.act.type \in TargetTypes => o.act.bin = Target[q]
  BY NextActionFrame DEF AnswerFor
<1>2. \A s \in Robots \ {r} : robotTask'[s] = robotTask[s]
  BY DEF Carry, TypeOK
<1>3. completions' = IF o.act.type = "request_complete"
                     THEN completions \cup {<<r, q>>} ELSE completions
  BY DEF Carry
<1>4. \A s \in Robots \ {r} : \A p : <<s, p>> \in completions' => <<s, p>> \in completions
  BY <1>3
<1>5. CASE IsPhysical(o.act)
  <2> DEFINE n == [kind |-> "pickup", robot |-> r, request |-> q, act |-> o.act]
  <2>1. events' = Push(evs, "pickup", r, q, o.act)
    BY <1>5 DEF Carry
  <2>2. Only(events', n) /\ OthersKept(evs, events', r)
    BY <2>1, PushOnly
  <2>3. OthersKept(events, events', r)
    BY <2>2, OthersKeptChain
  <2>4. OthersSame(r)
    BY <1>2, <1>4, <2>3 DEF OthersSame
  <2>5. o.act # NoAction /\ o.act.type # "request_complete"
    BY <1>5 DEF IsPhysical, IsRelocate, IsReturn, NoAction, Action
  <2>6. robotTask'[r] = q
    BY <2>5 DEF Carry, TypeOK
  <2>7. completions' = completions
    BY <1>3, <2>5
  <2>8. n \in BagToSet(events') /\ n.robot = r /\ n.request = q /\ n.act = o.act /\ n.kind = "pickup"
    BY <2>2 DEF Only
  <2> HIDE DEF n
  <2>9. EventOf(r, n)'
    BY <1>1, <2>2, <2>6, <2>7, <2>8 DEF EventOf
  <2>10. Busy(r)'
    BY <2>8, <2>9 DEF Busy
  <2> QED BY <2>4, <2>10
<1>6. CASE ~IsPhysical(o.act)
  <2>1. events' = evs
    BY <1>6 DEF Carry
  <2>2. OthersSame(r)
    BY <1>2, <1>4, <2>1 DEF OthersSame
  <2>3. \A p \in Requests : <<r, p>> \in completions' => robotTask'[r] = p
    <3>1. CASE o.act.type = "request_complete"
      <4>1. robotTask'[r] = q
        BY <3>1 DEF Carry, TypeOK, NoAction, Action
      <4> QED BY <1>3, <3>1, <4>1
    <3>2. CASE o.act.type # "request_complete"
      BY <1>3, <3>2
    <3> QED BY <3>1, <3>2
  <2>4. Quiet(r)'
    BY <2>1, <2>3 DEF Quiet
  <2> QED BY <2>2, <2>4
<1> QED BY <1>5, <1>6

\* The same for the task the robot of a handled event works on.
LEMMA ScheduleNextChain ==
    ASSUME TypeOK, Ready, NEW e \in BagToSet(events), NEW r \in Robots, EventOf(r, e),
           NEW w, WorldOK(w), NEW q \in Requests, ScheduleNext(w, r, q, Drop(events, e)),
           \A s \in Robots \ {r} : carried'[s] = carried[s]
    PROVE  OthersSame(r) /\ (Quiet(r)' \/ Busy(r)')
<1> DEFINE evs == Drop(events, e)
<1>1. PICK o \in NextAction(w, q) : Carry(w, r, q, o, evs, "handle")
  BY DEF ScheduleNext
<1>2. IsABag(evs) /\ NoEvent(evs, r) /\ OthersKept(events, evs, r)
  BY DropOnly DEF EventOf, TypeOK
<1>3. \A p \in Requests : <<r, p>> \notin completions
  BY DEF EventOf
<1> HIDE DEF evs
<1>4. pc # "failed"
  BY DEF Ready
<1> QED BY <1>1, <1>2, <1>3, <1>4, CarryChain

\* An event that is dropped leaves its robot without events.
LEMMA DiscardChain ==
    ASSUME TypeOK, Ready, NEW e \in BagToSet(events), NEW r \in Robots, EventOf(r, e),
           events' = Drop(events, e),
           \A s \in Robots \ {r} : robotTask'[s] = robotTask[s] /\ carried'[s] = carried[s],
           completions' \subseteq completions \cup {<<r, robotTask'[r]>>}
    PROVE  OthersSame(r) /\ Quiet(r)'
<1>1. NoEvent(events', r) /\ OthersKept(events, events', r)
  BY DropOnly DEF EventOf, TypeOK
<1>2. OthersSame(r)
  BY <1>1 DEF OthersSame, Ready
<1>3. \A q \in Requests : <<r, q>> \in completions' => robotTask'[r] = q
  BY DEF EventOf
<1> QED BY <1>1, <1>2, <1>3 DEF Quiet

\* An event that is followed by a DROP event leaves its robot with that one.
LEMMA NextDropChain ==
    ASSUME TypeOK, Ready, NEW e \in BagToSet(events), NEW r \in Robots, EventOf(r, e), NEW a,
           events' = Push(Drop(events, e), "drop", r, e.request, a),
           a.type = e.act.type, a.bin = e.act.bin, carried'[r] = a.bin,
           \A s \in Robots \ {r} : carried'[s] = carried[s],
           robotTask' = robotTask, completions' = completions
    PROVE  OthersSame(r) /\ Busy(r)'
<1> DEFINE evs == Drop(events, e)
           n == [kind |-> "drop", robot |-> r, request |-> e.request, act |-> a]
<1>1. IsABag(evs) /\ NoEvent(evs, r) /\ OthersKept(events, evs, r)
  BY DropOnly DEF EventOf, TypeOK
<1>2. Only(events', n) /\ OthersKept(evs, events', r)
  BY <1>1, PushOnly
<1>3. OthersSame(r)
  BY <1>1, <1>2, OthersKeptChain DEF OthersSame, Ready
<1>4. n.robot = r /\ n.request = e.request /\ n.act = a /\ n \in BagToSet(events')
  BY <1>2 DEF Only
<1> HIDE DEF n
<1>5. EventOf(r, n)'
  BY <1>2, <1>4 DEF EventOf
<1> QED BY <1>3, <1>4, <1>5 DEF Busy

\* The PICKUP handler.
LEMMA PickupChain ==
    ASSUME TypeOK, OneChain, NEW e \in BagToSet(events), Pickup(e), requeues' = 0
    PROVE  OneChain'
<1> DEFINE r == e.robot
           q == e.request
<1>1. r \in Robots /\ EventOf(r, e) /\ robotTask[r] = q /\ q \in Requests
  BY HandledEvent, EventFields DEF EventOf
<1>2. /\ Ready /\ pc # "failed" /\ WorldOK(Now) /\ carried \in [Robots -> Bins \cup {None}]
      /\ requeues \in Nat
  BY TypeOKParts, NowOK DEF Pickup, Ready, TypeOK
<1>3. \A tasks, aq, evs : ~Requeue(r, tasks, aq, evs)
  BY <1>2 DEF Requeue
<1>4. CASE ScheduleNext(Now, r, q, Drop(events, e)) /\ UNCHANGED bins
  BY <1>1, <1>2, <1>4, ScheduleNextChain, RobotStepChain DEF bins
<1>5. CASE Discard(e) /\ UNCHANGED bins
  BY <1>1, <1>2, <1>5, DiscardChain, RobotStepChain DEF bins, Discard
<1>6. CASE /\ carried[r] = e.act.bin
           /\ events' = Push(Drop(events, e), "drop", r, q, e.act)
           /\ UNCHANGED <<queue, task, robotTask, bins, completions, pc, requeues>>
  BY <1>1, <1>2, <1>6, NextDropChain, RobotStepChain DEF bins
<1>7. CASE PickupSucceeds(e)
  <2>1. /\ carried' = [carried EXCEPT ![r] = e.act.bin]
        /\ events' = Push(Drop(events, e), "drop", r, q, e.act)
        /\ robotTask' = robotTask /\ completions' = completions
    BY <1>7 DEF PickupSucceeds
  <2> QED BY <1>1, <1>2, <2>1, NextDropChain, RobotStepChain
<1>8. CASE PickupNotOnTop(e) /\ UNCHANGED bins
  <2>1. PICK o \in NextAction(Now, q) :
          \/ UNCHANGED <<robotTask, events, completions, pc, requeues>>
          \/ Carry(Now, r, q, o, Drop(events, e), "handle")
    BY <1>3, <1>8 DEF PickupNotOnTop
  <2>2. CASE UNCHANGED <<robotTask, events, completions, pc, requeues>>
    BY <1>2, <1>8, <2>2, SameChain DEF bins
  <2>3. CASE Carry(Now, r, q, o, Drop(events, e), "handle")
    <3>1. ScheduleNext(Now, r, q, Drop(events, e))
      BY <2>1, <2>3 DEF ScheduleNext
    <3> QED BY <1>4, <1>8, <3>1
  <2> QED BY <2>1, <2>2, <2>3
<1> QED BY <1>1, <1>3, <1>4, <1>5, <1>6, <1>7, <1>8 DEF Pickup

\* After the physical effect of a drop the other robots carry what they did.
LEMMA OtherLoads ==
    ASSUME TypeOK, NEW e, carried' = LoadCleared(e)
    PROVE  \A s \in Robots \ {e.robot} : carried'[s] = carried[s]
BY DEF LoadCleared, TypeOK

\* What a drop does.
LEMMA DropEffectChain ==
    ASSUME TypeOK, OneChain, NEW e \in BagToSet(events), e.act \in PhysicalActions,
           Ready, DropEffect(e)
    PROVE  OneChain'
<1> DEFINE r == e.robot
           q == robotTask[r]
<1>1. r \in Robots /\ EventOf(r, e) /\ q = e.request /\ q \in Requests /\ q # None
  BY HandledEvent, EventFields, WarehouseAssumption DEF EventOf
<1>2. ASSUME carried' = LoadCleared(e), NEW w, AsksAfterDrop(e, w)
      PROVE  OneChain'
  <2>1. \A s \in Robots \ {r} : carried'[s] = carried[s]
    BY <1>2, OtherLoads
  <2>2. WorldOK(w) /\ ScheduleNext(w, r, q, Drop(events, e))
    BY <1>2 DEF AsksAfterDrop, WorldNow
  <2> QED BY <1>1, <2>1, <2>2, ScheduleNextChain, RobotStepChain
<1>3. ASSUME carried' = LoadCleared(e), events' = Drop(events, e),
             \A s \in Robots \ {r} : robotTask'[s] = robotTask[s],
             completions' \subseteq completions \cup {<<r, robotTask'[r]>>}
      PROVE  OneChain'
  <2>1. \A s \in Robots \ {r} : carried'[s] = carried[s]
    BY <1>3, OtherLoads
  <2>2. OthersSame(r) /\ Quiet(r)'
    BY <1>1, <1>3, <2>1, DiscardChain
  <2> QED BY <1>1, <2>2, RobotStepChain
<1>4. ASSUME carried' = LoadCleared(e), UNCHANGED <<robotTask, events, completions>>,
             pc' = "failed"
      PROVE  OneChain'
  <2>1. \A s \in Robots \ {r} : carried'[s] = carried[s]
    BY <1>4, OtherLoads
  <2>2. OthersSame(r)
    BY <1>4, <2>1 DEF OthersSame, OthersKept, Ready
  <2>3. EventOf(r, e)'
    BY <1>1, <1>4 DEF EventOf
  <2>4. Busy(r)'
    BY <1>4, <2>3 DEF Busy
  <2> QED BY <1>1, <2>2, <2>4, RobotStepChain
<1>5. CASE e.act.type = "remove_target"
  <2>1. DropAtPort(e)
    BY <1>5 DEF DropEffect, IsRelocate
  <2>2. /\ carried' = LoadCleared(e) /\ events' = Drop(events, e) /\ completions' = completions
        /\ robotTask' = [robotTask EXCEPT ![r] = None]
    BY <1>1, <2>1, DropAtPortBins, DropAtPortOwn
  <2>3. \A s \in Robots \ {r} : robotTask'[s] = robotTask[s]
    BY <2>2 DEF TypeOK
  <2> QED BY <1>3, <2>2, <2>3
<1>6. CASE IsRelocate(e.act)
  <2>1. DropRelocated(e)
    BY <1>1, <1>6 DEF DropEffect, IsRelocate
  <2>2. carried' = LoadCleared(e)
    BY <2>1 DEF DropRelocated, PutDown
  <2> QED BY <1>1, <1>2, <1>6, <2>1, <2>2, DropRelocatedAsks
<1>7. CASE e.act.type = "return_blocker"
  <2>1. DropBlocker(e)
    BY <1>1, <1>7 DEF DropEffect, IsRelocate
  <2>2. carried' = LoadCleared(e)
    BY <2>1 DEF DropBlocker, PutDown
  <2> QED BY <1>1, <1>2, <1>4, <1>7, <2>1, <2>2, DropBlockerAsks
<1>8. CASE e.act.type = "return_target"
  <2>1. DropTarget(e)
    BY <1>1, <1>8 DEF DropEffect, IsRelocate
  <2>2. /\ carried' = LoadCleared(e) /\ events' = Drop(events, e) /\ robotTask' = robotTask
        /\ completions' = completions \cup {<<r, q>>}
    BY <1>1, <2>1 DEF DropTarget, PutDown
  <2> QED BY <1>3, <2>2
<1> QED BY <1>5, <1>6, <1>7, <1>8 DEF PhysicalActions, IsRelocate

\* The DROP handler.
LEMMA HandleDropChain ==
    ASSUME TypeOK, OneChain, NEW e \in BagToSet(events), HandleDrop(e)
    PROVE  OneChain'
<1> DEFINE r == e.robot
           q == robotTask[r]
<1>1. r \in Robots /\ EventOf(r, e) /\ q = e.request /\ q \in Requests /\ e.kind = "drop"
  BY HandledEvent, EventFields DEF EventOf, HandleDrop
<1>2. Ready /\ pc # "failed" /\ e.act \in PhysicalActions /\ WorldOK(Now)
  BY EventFields, TypeOKParts, NowOK DEF HandleDrop, Ready
<1>3. CASE ScheduleNext(Now, r, q, Drop(events, e)) /\ UNCHANGED bins
  BY <1>1, <1>2, <1>3, ScheduleNextChain, RobotStepChain DEF bins
<1>4. CASE Discard(e) /\ UNCHANGED bins
  BY <1>1, <1>2, <1>4, DiscardChain, RobotStepChain DEF bins, Discard
<1>5. ASSUME NEW s, events' = Redirected(e, s), UNCHANGED <<robotTask, bins, completions>>
      PROVE  OneChain'
  <2> DEFINE a == [e.act EXCEPT !.to = s]
  <2>1. a.type = e.act.type /\ a.bin = e.act.bin
    BY <1>2 DEF PhysicalActions
  <2>2. events' = Push(Drop(events, e), "drop", r, e.request, a)
    BY <1>5 DEF Redirected
  <2>3. carried'[r] = a.bin /\ carried' = carried
    BY <1>1, <1>2, <1>5, <2>1 DEF EventOf, bins
  <2> HIDE DEF a
  <2>4. OthersSame(r) /\ Busy(r)'
    BY <1>1, <1>2, <1>5, <2>1, <2>2, <2>3, NextDropChain
  <2> QED BY <1>1, <2>4, RobotStepChain
<1>6. CASE RedirectBlockedDrop(e)
  BY <1>5, <1>6 DEF RedirectBlockedDrop
<1>7. CASE DropEffect(e)
  BY <1>2, <1>7, DropEffectChain
<1> QED BY <1>3, <1>4, <1>5, <1>6, <1>7 DEF HandleDrop

\* The ROBOT_ACTION handler.
LEMMA RobotActionChain ==
    ASSUME TypeOK, OneChain, NEW e \in BagToSet(events), RobotAction(e), requeues' = 0
    PROVE  OneChain'
<1> DEFINE r == e.robot
           q == robotTask[r]
<1>1. r \in Robots /\ EventOf(r, e) /\ q = e.request /\ q \in Requests
  BY HandledEvent, EventFields DEF EventOf
<1>2. Ready /\ WorldOK(Now) /\ UNCHANGED bins /\ requeues \in Nat
  BY TypeOKParts, NowOK DEF RobotAction, TypeOK
<1>3. CASE ScheduleNext(Now, r, q, Drop(events, e))
  BY <1>1, <1>2, <1>3, ScheduleNextChain, RobotStepChain DEF bins
<1>4. CASE Discard(e)
  BY <1>1, <1>2, <1>4, DiscardChain, RobotStepChain DEF bins, Discard
<1>5. ~Requeue(r, task, queue, Drop(events, e))
  BY <1>2 DEF Requeue
<1> QED BY <1>3, <1>4, <1>5 DEF RobotAction

\* An idle robot has neither events nor a completion.
LEMMA IdleRobot ==
    ASSUME TypeOK, OneChain, NEW r \in Robots, robotTask[r] = None
    PROVE  NoEvent(events, r) /\ \A p \in Requests : <<r, p>> \notin completions
<1>1. None \notin Requests
  BY WarehouseAssumption
<1>2. ~Busy(r)
  BY <1>1, EventFields DEF Busy, EventOf
<1> QED BY <1>1, <1>2 DEF OneChain, Quiet

AllLive == \A q \in Waiting : Live(q)

\* The idle robot r is given the task of q, which waited or was pending, and
\* the strategy is asked in the world w.
StartsTask(r, q, w) ==
    /\ pc \in {"schedule", "schedule_new"} /\ robotTask[r] = None
    /\ q \in Pending \/ (q \in Waiting /\ Live(q))
    /\ WorldOK(w) /\ w.task = task /\ w.stack = stack /\ w.moving = moving
    /\ w.station = Now.station
    /\ w.queue.waitlist = queue.waitlist
    /\ w.queue.pickstation = queue.pickstation
    /\ w.queue.assigned = [queue.assigned EXCEPT ![q] = r]
    /\ ToSet(w.queue.pending) = Pending \ {q}
    /\ AllLive => ToSet(w.queue.waiting) = Waiting \ {q}
    /\ IsInjective(w.queue.waiting)
    /\ \E o \in NextAction(w, q), next \in {"handle", "schedule", "schedule_new"} :
          Carry(w, r, q, o, events, next)
    /\ UNCHANGED <<bins, ports, arrived, done, requeues>>

\* Handing out a waiting task is such a start.
LEMMA WaitingStarts ==
    ASSUME TypeOK, QueueInv, NEW r \in Robots, NEW i \in DOMAIN queue.waiting,
           ScheduleWaiting(r, i)
    PROVE  \E q \in Requests : \E w : StartsTask(r, q, w)
<1> DEFINE q == queue.waiting[i]
           n == Len(queue.waiting)
           rest == SubSeq(queue.waiting, i + 1, n)
           popped == [queue EXCEPT !.waiting = rest]
           aq == MarkTaskAssigned(popped, q, r)
           w == World(task, aq, stack, status, moving)
<1>1. /\ queue \in QueueType /\ queue.waiting \in Seq(Requests) /\ q \in Requests
      /\ IsInjective(queue.waiting) /\ q \in Waiting
      /\ DOMAIN queue.waiting = 1 .. n /\ n \in Nat
  BY ElementOfSeq, LenProperties DEF TypeOK, QueueType, QueueInv, Lists, Waiting, ToSet
<1>2. /\ rest \in Seq(Requests) /\ IsInjective(rest)
      /\ ToSet(rest) \subseteq Waiting \ {q}
  BY <1>1, RestOfList DEF Waiting
<1>3. popped \in QueueType
  BY <1>1, <1>2 DEF QueueType
<1>4. aq \in QueueType /\ WorldOK(w) /\ w.task = task /\ w.queue = aq
  <2>1. aq \in QueueType
    BY <1>1, <1>3, MarkTaskAssignedType
  <2> QED BY <2>1, WorldWithQueue
<1>5. w.stack = stack /\ w.moving = moving /\ w.station = Now.station
  BY DEF World, Now
<1>6. q \notin queue.pickstation /\ q \notin Pending
  BY <1>1, ActiveIs DEF QueueInv, Apart
<1>7. /\ aq.pending = queue.pending /\ aq.waitlist = queue.waitlist
      /\ aq.pickstation = queue.pickstation
      /\ aq.assigned = [queue.assigned EXCEPT ![q] = r]
      /\ aq.waiting = Without(rest, q)
  BY <1>1, <1>3, <1>6 DEF MarkTaskAssigned, QueueType
<1>8. IsInjective(aq.waiting) /\ ToSet(aq.waiting) = ToSet(rest) \ {q}
  BY <1>2, <1>7, WithoutList
<1>9. i \in LiveWaiting /\ \A j \in LiveWaiting : i <= j
  BY DEF ScheduleWaiting
<1>10. Live(q)
  BY <1>9 DEF LiveWaiting
<1>11. AllLive => ToSet(rest) = Waiting \ {q}
  <2> SUFFICES ASSUME AllLive PROVE ToSet(rest) = Waiting \ {q}
    OBVIOUS
  <2>1. LiveWaiting = 1 .. n
    BY <1>1 DEF AllLive, LiveWaiting, Waiting, ToSet
  <2>2. i = 1
    BY <1>1, <1>9, <2>1
  <2>3. queue.waiting # <<>>
    BY <1>1, EmptySeq
  <2>4. ToSet(Tail(queue.waiting)) = ToSet(queue.waiting) \ {Head(queue.waiting)}
    BY <1>1, <2>3, TailOfList
  <2>5. Tail(queue.waiting) = rest /\ Head(queue.waiting) = q
    BY <1>1, <2>2, <2>3, TailIsSubSeq
  <2> QED BY <2>4, <2>5 DEF Waiting
<1>12. \E o \in NextAction(w, q), next \in {"handle", "schedule", "schedule_new"} :
          Carry(w, r, q, o, events, next)
  <2>1. PICK o \in NextAction(w, q) :
           Carry(w, r, q, o, events, IF o.act = NoAction THEN "schedule_new" ELSE "schedule")
    BY DEF ScheduleWaiting
  <2> HIDE DEF w
  <2> QED BY <2>1
<1>13. /\ robotTask[r] = None /\ pc = "schedule"
       /\ UNCHANGED <<bins, ports, arrived, done, requeues>>
  BY DEF ScheduleWaiting, FirstIdle, IdleRobots
<1>14. ToSet(aq.pending) = Pending \ {q}
  BY <1>6, <1>7 DEF Pending
<1>15. AllLive => ToSet(aq.waiting) = Waiting \ {q}
  BY <1>8, <1>11
<1> HIDE DEF w, aq, q, rest
<1>16. StartsTask(r, q, w)
  BY <1>1, <1>4, <1>5, <1>7, <1>8, <1>10, <1>12, <1>13, <1>14, <1>15 DEF StartsTask
<1> QED BY <1>1, <1>16

\* Starting a task for a pending request is such a start.
LEMMA PendingStarts ==
    ASSUME TypeOK, QueueInv, NEW r \in Robots, NEW i \in DOMAIN queue.pending,
           ScheduleNew(r, i)
    PROVE  \E q \in Requests : \E w : StartsTask(r, q, w)
<1> DEFINE q == queue.pending[i]
           mid == [queue EXCEPT !.pending = RemoveAt(queue.pending, i),
                                !.waiting = WaitingAfterSearch]
           aq == MarkAssigned(mid, q, r)
           w == World(task, aq, stack, status, moving)
<1>1. /\ queue \in QueueType /\ queue.pending \in Seq(Requests) /\ q \in Requests
      /\ IsInjective(queue.waiting) /\ IsInjective(queue.pending) /\ q \in Pending
      /\ queue.waiting \in Seq(Requests)
  BY ElementOfSeq, LenProperties DEF TypeOK, QueueType, QueueInv, Lists, Pending, ToSet
<1>2. /\ RemoveAt(queue.pending, i) \in Seq(Requests)
      /\ ToSet(RemoveAt(queue.pending, i)) = Pending \ {q}
  BY <1>1, RemoveAtType, RemoveAtList DEF Pending
<1>3. q \notin Waiting
  BY <1>1, ActiveIs DEF QueueInv, Apart
<1>4. /\ WaitingAfterSearch \in Seq(Requests) /\ IsInjective(WaitingAfterSearch)
      /\ AllLive => ToSet(WaitingAfterSearch) = Waiting \ {q}
  <2>1. CASE pc = "schedule"
    <3>1. LiveWaiting = {}
      BY <2>1 DEF ScheduleNew, CanScheduleNew
    <3>2. AllLive => Waiting = {}
      BY <3>1 DEF AllLive, LiveWaiting, Waiting, ToSet
    <3> QED BY <2>1, <3>2, EmptySeq, EmptyList DEF WaitingAfterSearch
  <2>2. CASE pc # "schedule"
    BY <1>1, <1>3, <2>2 DEF WaitingAfterSearch, Waiting
  <2> QED BY <2>1, <2>2
<1>5. mid \in QueueType
  BY <1>1, <1>2, <1>4 DEF QueueType
<1>6. aq \in QueueType /\ WorldOK(w) /\ w.task = task /\ w.queue = aq
  <2>1. aq \in QueueType
    BY <1>1, <1>5, MarkAssignedType
  <2> QED BY <2>1, WorldWithQueue
<1>7. w.stack = stack /\ w.moving = moving /\ w.station = Now.station
  BY DEF World, Now
<1>8. /\ aq.pending = RemoveAt(queue.pending, i) /\ aq.waitlist = queue.waitlist
      /\ aq.pickstation = queue.pickstation
      /\ aq.assigned = [queue.assigned EXCEPT ![q] = r]
      /\ aq.waiting = WaitingAfterSearch
  BY <1>1, <1>5 DEF MarkAssigned, QueueType
<1>9. \E o \in NextAction(w, q), next \in {"handle", "schedule", "schedule_new"} :
          Carry(w, r, q, o, events, next)
  <2>1. PICK o \in NextAction(w, q) :
           Carry(w, r, q, o, events, IF o.act = NoAction THEN "handle" ELSE "schedule")
    BY DEF ScheduleNew
  <2> HIDE DEF w
  <2> QED BY <2>1
<1>10. /\ robotTask[r] = None /\ pc \in {"schedule", "schedule_new"}
       /\ UNCHANGED <<bins, ports, arrived, done, requeues>>
  BY DEF ScheduleNew, FirstIdle, IdleRobots, CanScheduleNew
<1> HIDE DEF w, aq, mid, q
<1>11. StartsTask(r, q, w)
  BY <1>1, <1>2, <1>4, <1>6, <1>7, <1>8, <1>9, <1>10 DEF StartsTask
<1> QED BY <1>1, <1>11

\* A robot that is given a task gets one chain for it.
LEMMA StartsChain ==
    ASSUME TypeOK, OneChain, NEW r \in Robots, NEW q \in Requests, NEW w, StartsTask(r, q, w)
    PROVE  OneChain'
<1>1. /\ pc # "failed" /\ WorldOK(w) /\ carried' = carried /\ IsABag(events)
      /\ NoEvent(events, r) /\ \A p \in Requests : <<r, p>> \notin completions
  BY IdleRobot DEF StartsTask, bins, TypeOK
<1>2. PICK o \in NextAction(w, q), next \in {"handle", "schedule", "schedule_new"} :
         Carry(w, r, q, o, events, next)
  BY DEF StartsTask
<1>3. OthersKept(events, events, r)
  BY DEF OthersKept
<1>4. OthersSame(r) /\ (Quiet(r)' \/ Busy(r)')
  BY <1>1, <1>2, <1>3, CarryChain
<1> QED BY <1>4, RobotStepChain

\* The end of a service: the robot sent to fetch the bin was idle.
LEMMA PickstationCompleteChain ==
    ASSUME TypeOK, OneChain, NEW p \in Stations, NEW q \in Requests, PickstationComplete(p, q)
    PROVE  OneChain'
<1> DEFINE fetch == Action("pickup_from_pickstation", Target[q], None, None)
<1>1. pc # "failed" /\ carried' = carried /\ completions' = completions
  BY DEF PickstationComplete, Ready, bins
<1>2. CASE UNCHANGED <<robotTask, events>>
  BY <1>1, <1>2, SameChain
<1>3. ASSUME NEW r \in IdleRobots, robotTask' = [robotTask EXCEPT ![r] = q],
             \/ events' = Push(events, "action", r, q, fetch)
             \/ UNCHANGED events
      PROVE  OneChain'
  <2>1. r \in Robots /\ robotTask[r] = None
    BY DEF IdleRobots
  <2>2. NoEvent(events, r) /\ \A x \in Requests : <<r, x>> \notin completions
    BY <2>1, IdleRobot
  <2>3. robotTask'[r] = q /\ \A s \in Robots \ {r} : robotTask'[s] = robotTask[s]
    BY <1>3, <2>1 DEF TypeOK
  <2>4. CASE UNCHANGED events
    <3>1. OthersSame(r) /\ Quiet(r)'
      BY <1>1, <2>2, <2>3, <2>4 DEF OthersSame, OthersKept, Quiet
    <3> QED BY <2>1, <3>1, RobotStepChain
  <2>5. CASE events' = Push(events, "action", r, q, fetch)
    <3> DEFINE n == [kind |-> "action", robot |-> r, request |-> q, act |-> fetch]
    <3>1. Only(events', n) /\ OthersKept(events, events', r)
      BY <2>2, <2>5, PushOnly DEF TypeOK
    <3>2. OthersSame(r)
      BY <1>1, <2>3, <3>1 DEF OthersSame
    <3>3. /\ n \in BagToSet(events') /\ n.robot = r /\ n.request = q /\ n.kind = "action"
          /\ n.act.bin = Target[q]
      BY <3>1 DEF Only, Action
    <3> HIDE DEF n
    <3>4. EventOf(r, n)'
      BY <1>1, <2>2, <2>3, <3>1, <3>3 DEF EventOf
    <3> QED BY <2>1, <3>2, <3>3, <3>4, RobotStepChain DEF Busy
  <2> QED BY <1>3, <2>4, <2>5
<1> QED BY <1>2, <1>3 DEF PickstationComplete

\* A completion: its robot has no events.
LEMMA RequestCompleteChain ==
    ASSUME TypeOK, OneChain, NEW r \in Robots, NEW q \in Requests, RequestComplete(r, q)
    PROVE  OneChain'
<1>1. /\ pc # "failed" /\ carried' = carried /\ events' = events /\ <<r, q>> \in completions
      /\ completions' = completions \ {<<r, q>>}
  BY DEF RequestComplete, bins
<1>2. CASE robotTask' = robotTask
  BY <1>1, <1>2, SameChain
<1>3. CASE robotTask' = [robotTask EXCEPT ![r] = None]
  <2>1. Quiet(r)
    BY <1>1 DEF OneChain, Busy, EventOf
  <2>2. \A x \in Requests : <<r, x>> \notin completions'
    BY <1>1, <2>1 DEF Quiet
  <2>3. \A s \in Robots \ {r} : robotTask'[s] = robotTask[s]
    BY <1>3 DEF TypeOK
  <2>4. OthersSame(r) /\ Quiet(r)'
    BY <1>1, <2>1, <2>2, <2>3 DEF OthersSame, OthersKept, Quiet
  <2> QED BY <2>4, RobotStepChain
<1> QED BY <1>2, <1>3 DEF RequestComplete

\* Until the first recovery every step leaves each robot with one chain.
LEMMA NextChain ==
    ASSUME TypeOK, QueueInv, OneChain, [Next]_vars, requeues' = 0
    PROVE  OneChain'
<1>1. CASE Arrival \/ ScheduleDone
  BY <1>1, SameChain DEF Arrival, ScheduleDone, Ready, bins
<1>2. CASE Schedule
  <2>1. CASE ScheduleDone
    BY <1>1, <2>1
  <2>2. ASSUME NEW r \in Robots, NEW i \in DOMAIN queue.waiting, ScheduleWaiting(r, i)
        PROVE  OneChain'
    BY <2>2, WaitingStarts, StartsChain
  <2>3. ASSUME NEW r \in Robots, NEW i \in DOMAIN queue.pending, ScheduleNew(r, i)
        PROVE  OneChain'
    BY <2>3, PendingStarts, StartsChain
  <2> QED BY <1>2, <2>1, <2>2, <2>3 DEF Schedule
<1>3. CASE \E r \in Robots : RobotEvent(r)
  <2>1. PICK e \in BagToSet(events) : Pickup(e) \/ HandleDrop(e) \/ RobotAction(e)
    BY <1>3 DEF RobotEvent
  <2> QED BY <2>1, PickupChain, HandleDropChain, RobotActionChain
<1>4. CASE \E p \in Stations, q \in Requests : PickstationComplete(p, q)
  BY <1>4, PickstationCompleteChain
<1>5. CASE \E r \in Robots, q \in Requests : RequestComplete(r, q)
  BY <1>5, RequestCompleteChain
<1>6. ASSUME NEW r \in Robots, RequeueVictim(r)
      PROVE  FALSE
  <2>1. requeues \in Nat
    BY DEF TypeOK
  <2> QED BY <1>6, <2>1 DEF RequeueVictim, Requeue
<1>7. CASE \E r \in Robots : ForceReplan(r)
  BY <1>7, SameChain DEF ForceReplan, Ready, bins
<1>8. CASE UNCHANGED vars
  BY <1>8, SameChain DEF vars, bins
<1> QED BY <1>2, <1>1, <1>3, <1>4, <1>5, <1>6, <1>7, <1>8 DEF Next

----------------------------------------------------------------------------
(* Loads *)

\* What robots carry is what is in transit, and no bin is carried twice.
Loads ==
    /\ \A r \in Robots : carried[r] # None => carried[r] \in moving
    /\ \A b \in moving : \E r \in Robots : carried[r] = b
    /\ \A r, s \in Robots : carried[r] # None /\ carried[r] = carried[s] => r = s

\* A robot with the DROP of a target that returns.
Returning(evs, r) ==
    \E f \in BagToSet(evs) : f.robot = r /\ f.kind = "drop" /\ f.act.type = "return_target"

\* The carried bins that still count as being at the station are targets on
\* their way back.
LoadsStored ==
    \A r \in Robots :
        carried[r] # None => status[carried[r]] = "stored" \/ Returning(events, r)

\* Handling one event ends no other.
LEMMA DropKeeps ==
    ASSUME NEW evs, IsABag(evs), NEW e
    PROVE  BagToSet(evs) \ {e} \subseteq BagToSet(Drop(evs, e))
BY DEF Drop, IsABag, BagToSet, SetToBag, (-)

\* No other event than e ends, and e not as the DROP of a returning target.
EndsOnly(e) ==
    /\ BagToSet(events) \ {e} \subseteq BagToSet(events')
    /\ e.kind = "drop" /\ e.act.type = "return_target" => Returning(events', e.robot)

\* The step moves no bin, no return ends and no task comes to a station.
Rests ==
    /\ UNCHANGED bins
    /\ \A r \in Robots : Returning(events, r) => Returning(events', r)
    /\ \A p \in Stations : AtPort(p)' \subseteq AtPort(p)

\* A step that ends at most e rests where it moves neither bins nor ports.
LEMMA EndsOnlyRests ==
    ASSUME NEW e, EndsOnly(e), UNCHANGED bins, UNCHANGED ports
    PROVE  Rests
<1>1. \A r \in Robots : Returning(events, r) => Returning(events', r)
  BY DEF EndsOnly, Returning
<1>2. \A p : AtPort(p)' = AtPort(p)
  BY DEF AtPort, ports
<1> QED BY <1>1, <1>2 DEF Rests

\* The three steps that move a bin: the robot of e lifts it, lays it on a
\* stack, or hands it over at a port.
Lifts(e) ==
    /\ e.act \in PhysicalActions /\ TakesBin(e)
    /\ carried[e.robot] = None
    /\ carried' = [carried EXCEPT ![e.robot] = e.act.bin]
    /\ events' = Push(Drop(events, e), "drop", e.robot, e.request, e.act)
    /\ UNCHANGED ports

Lays(e) ==
    /\ e.kind = "drop" /\ e.act \in PhysicalActions /\ PutsBin(e)
    /\ BagToSet(events) \ {e} \subseteq BagToSet(events')
    /\ UNCHANGED ports

HandsIn(e) ==
    /\ e.kind = "drop" /\ e.act \in PhysicalActions /\ HandsOver(e)
    /\ e.act.type = "remove_target" /\ DropAtPort(e)

\* Asking the strategy on behalf of e ends no other event.
LEMMA ScheduleNextEnds ==
    ASSUME TypeOK, NEW e, NEW w, NEW r, NEW q, ScheduleNext(w, r, q, Drop(events, e))
    PROVE  BagToSet(events) \ {e} \subseteq BagToSet(events')
<1>1. PICK o \in NextAction(w, q) : Carry(w, r, q, o, Drop(events, e), "handle")
  BY DEF ScheduleNext
<1>2. /\ IsABag(Drop(events, e))
      /\ BagToSet(events) \ {e} \subseteq BagToSet(Drop(events, e))
  BY DropKeeps, DropType DEF TypeOK
<1>3. \/ events' = Push(Drop(events, e), "pickup", r, q, o.act)
      \/ events' = Drop(events, e)
  BY <1>1 DEF Carry
<1>4. CASE events' = Push(Drop(events, e), "pickup", r, q, o.act)
  BY <1>2, <1>4, PushType
<1>5. CASE events' = Drop(events, e)
  BY <1>2, <1>5
<1> QED BY <1>3, <1>4, <1>5

\* Replacing an event by a DROP ends no other.
LEMMA NextDropEnds ==
    ASSUME TypeOK, NEW e, NEW r, NEW q, NEW a,
           events' = Push(Drop(events, e), "drop", r, q, a)
    PROVE  /\ BagToSet(events) \ {e} \subseteq BagToSet(events')
           /\ [kind |-> "drop", robot |-> r, request |-> q, act |-> a] \in BagToSet(events')
<1>1. /\ IsABag(Drop(events, e))
      /\ BagToSet(events) \ {e} \subseteq BagToSet(Drop(events, e))
  BY DropKeeps, DropType DEF TypeOK
<1> QED BY <1>1, PushType

\* The PICKUP handler lifts the bin or moves none.
LEMMA PickupLoads ==
    ASSUME TypeOK, OneChain, NEW e \in BagToSet(events), Pickup(e), requeues' = 0
    PROVE  Rests \/ Lifts(e)
<1> DEFINE r == e.robot
           q == e.request
<1>1. /\ r \in Robots /\ robotTask[r] = q /\ e.kind = "pickup"
      /\ UNCHANGED ports /\ e.act \in PhysicalActions
  BY HandledEvent, EventFields DEF EventOf, Pickup
<1>2. \A tasks, aq, evs : ~Requeue(r, tasks, aq, evs)
  BY DEF Requeue, TypeOK
<1>3. ASSUME BagToSet(events) \ {e} \subseteq BagToSet(events'), UNCHANGED bins
      PROVE  Rests
  BY <1>1, <1>3, EndsOnlyRests DEF EndsOnly
<1>4. CASE ScheduleNext(Now, r, q, Drop(events, e)) /\ UNCHANGED bins
  BY <1>3, <1>4, ScheduleNextEnds
<1>5. CASE Discard(e) /\ UNCHANGED bins
  BY <1>3, <1>5, DropKeeps DEF Discard, TypeOK
<1>6. CASE events' = Push(Drop(events, e), "drop", r, q, e.act) /\ UNCHANGED bins
  BY <1>3, <1>6, NextDropEnds
<1>7. CASE carried[r] = None /\ CanPickup(e.act) /\ PickupSucceeds(e)
  BY <1>1, <1>7 DEF PickupSucceeds, Lifts, TakesBin, StackAfterPickup
<1>8. CASE PickupNotOnTop(e) /\ UNCHANGED bins
  <2>1. PICK o \in NextAction(Now, q) :
          UNCHANGED events \/ Carry(Now, r, q, o, Drop(events, e), "handle")
    BY <1>2, <1>8 DEF PickupNotOnTop
  <2>2. CASE Carry(Now, r, q, o, Drop(events, e), "handle")
    <3>1. ScheduleNext(Now, r, q, Drop(events, e))
      BY <2>1, <2>2 DEF ScheduleNext
    <3> QED BY <1>4, <1>8, <3>1
  <2> QED BY <1>3, <1>8, <2>1, <2>2
<1> QED BY <1>1, <1>2, <1>4, <1>5, <1>6, <1>7, <1>8 DEF Pickup

\* Until the first recovery the DROP of a robot is never stale: it carries the
\* bin, and the bin of a return is its task's target.
LEMMA NeverStale ==
    ASSUME TypeOK, OneChain, Loads, NEW e \in BagToSet(events), HandleDrop(e)
    PROVE  ~StaleDrop(e) /\ carried[e.robot] = e.act.bin
<1>1. /\ e.robot \in Robots /\ EventOf(e.robot, e) /\ e.kind = "drop" /\ pc # "failed"
      /\ e.act \in PhysicalActions
  BY HandledEvent, EventFields DEF HandleDrop, Ready
<1>2. carried[e.robot] = e.act.bin
  BY <1>1 DEF EventOf
<1>3. e.act.bin # None
  BY <1>1, WarehouseAssumption DEF PhysicalActions
<1>4. e.act.bin \in moving
  BY <1>1, <1>2, <1>3 DEF Loads
<1>5. e.act.type = "return_target" => Target[robotTask[e.robot]] = e.act.bin
  BY <1>1 DEF EventOf, TargetTypes
<1> QED BY <1>2, <1>4, <1>5 DEF StaleDrop

\* What a handled DROP finds: the robot holds the request and carries the bin.
LEMMA HandledDrop ==
    ASSUME TypeOK, OneChain, Loads, NEW e \in BagToSet(events), HandleDrop(e)
    PROVE  /\ e.robot \in Robots /\ EventOf(e.robot, e) /\ e.kind = "drop" /\ Ready
           /\ e.act \in PhysicalActions /\ e.request = robotTask[e.robot]
           /\ robotTask[e.robot] \in Requests /\ robotTask[e.robot] # None
           /\ ~StaleDrop(e) /\ e.act.bin \in moving /\ carried[e.robot] = e.act.bin
<1>1. /\ e.robot \in Robots /\ EventOf(e.robot, e) /\ e.kind = "drop" /\ Ready
      /\ e.act \in PhysicalActions /\ e.request = robotTask[e.robot]
      /\ robotTask[e.robot] \in Requests /\ robotTask[e.robot] # None
  BY HandledEvent, EventFields, WarehouseAssumption DEF HandleDrop, EventOf
<1>2. ~StaleDrop(e) /\ carried[e.robot] = e.act.bin
  BY NeverStale
<1>3. e.act.bin # None
  BY <1>1, WarehouseAssumption DEF PhysicalActions
<1> QED BY <1>1, <1>2, <1>3 DEF Loads

\* A drop on a stack lays the bin down, and is one of three.
LEMMA DropEffectLays ==
    ASSUME TypeOK, OneChain, Loads, NEW e \in BagToSet(events), HandleDrop(e),
           ~FullOnDrop(e), DropEffect(e), e.act.type # "remove_target"
    PROVE  /\ Lays(e)
           /\ \/ DropRelocated(e) /\ IsRelocate(e.act)
              \/ DropBlocker(e) /\ e.act.type = "return_blocker"
              \/ DropTarget(e) /\ e.act.type = "return_target"
<1>1. /\ e.kind = "drop" /\ e.act \in PhysicalActions /\ robotTask[e.robot] # None
      /\ e.act.bin \in moving
  BY HandledDrop
<1>2. \/ DropRelocated(e) /\ IsRelocate(e.act)
      \/ DropBlocker(e) /\ e.act.type = "return_blocker"
      \/ DropTarget(e) /\ e.act.type = "return_target"
  BY <1>1 DEF DropEffect, PhysicalActions, IsRelocate
<1>3. PutDown(e) /\ UNCHANGED ports
  BY <1>2 DEF DropRelocated, DropBlocker, DropTarget
<1>4. e.act.to \in Stacks /\ e.act.to # None
  BY <1>1, WarehouseAssumption DEF PhysicalActions
<1>5. PutsBin(e)
  BY <1>1, <1>3, <1>4 DEF PutsBin, FullOnDrop
<1>6. \A w : AsksAfterDrop(e, w) => BagToSet(events) \ {e} \subseteq BagToSet(events')
  BY ScheduleNextEnds DEF AsksAfterDrop
<1>7. BagToSet(events) \ {e} \subseteq BagToSet(events')
  <2>1. CASE DropRelocated(e) /\ IsRelocate(e.act)
    BY <1>1, <1>6, <2>1, DropRelocatedAsks
  <2>2. CASE DropBlocker(e) /\ e.act.type = "return_blocker"
    BY <1>1, <1>6, <2>2, DropBlockerAsks
  <2>3. CASE DropTarget(e)
    BY <2>3, DropKeeps DEF DropTarget, Discard, TypeOK
  <2> QED BY <1>2, <2>1, <2>2, <2>3
<1> QED BY <1>1, <1>2, <1>3, <1>5, <1>7 DEF Lays

\* The DROP handler lays the bin down, hands it in, or moves none.
LEMMA HandleDropLoads ==
    ASSUME TypeOK, OneChain, Loads, NEW e \in BagToSet(events), HandleDrop(e)
    PROVE  Rests \/ Lays(e) \/ HandsIn(e)
<1> DEFINE r == e.robot
           q == robotTask[r]
<1>1. /\ e.kind = "drop" /\ e.act \in PhysicalActions /\ robotTask[r] # None
      /\ ~StaleDrop(e) /\ e.act.bin \in moving
  BY HandledDrop
<1>2. CASE OutdatedReturn(e) /\ ScheduleNext(Now, r, q, Drop(events, e)) /\ UNCHANGED <<bins, ports>>
  <2>1. EndsOnly(e)
    BY <1>2, ScheduleNextEnds DEF EndsOnly, OutdatedReturn
  <2> QED BY <1>2, <2>1, EndsOnlyRests
<1>3. ASSUME NEW s, events' = Redirected(e, s), UNCHANGED <<bins, ports>>
      PROVE  Rests
  <2> DEFINE a == [e.act EXCEPT !.to = s]
             n == [kind |-> "drop", robot |-> r, request |-> e.request, act |-> a]
  <2>1. a.type = e.act.type
    BY <1>1 DEF PhysicalActions
  <2>2. n.kind = "drop" /\ n.robot = r /\ n.act.type = e.act.type
    BY <2>1
  <2>3. BagToSet(events) \ {e} \subseteq BagToSet(events') /\ n \in BagToSet(events')
    <3>1. events' = Push(Drop(events, e), "drop", r, e.request, a)
      BY <1>3 DEF Redirected
    <3> HIDE DEF a, r
    <3> QED BY <3>1, NextDropEnds
  <2> HIDE DEF n
  <2>4. EndsOnly(e)
    BY <2>2, <2>3 DEF EndsOnly, Returning
  <2> QED BY <1>3, <2>4, EndsOnlyRests
<1>4. CASE RedirectBlockedDrop(e)
  BY <1>3, <1>4 DEF RedirectBlockedDrop
<1>5. CASE ~FullOnDrop(e) /\ DropEffect(e)
  <2>1. CASE e.act.type = "remove_target"
    <3>1. DropAtPort(e)
      BY <1>5, <2>1 DEF DropEffect, IsRelocate
    <3> QED BY <1>1, <2>1, <3>1, DropAtPortBins DEF HandsOver, HandsIn
  <2>2. CASE e.act.type # "remove_target"
    BY <1>5, <2>2, DropEffectLays
  <2> QED BY <2>1, <2>2
<1> QED BY <1>1, <1>2, <1>3, <1>4, <1>5 DEF HandleDrop

\* A station that starts a service, or does not, holds no new task.
LEMMA NoNewAtPorts ==
    ASSUME NEW l \in [Stations -> Seq(Requests)], NEW srv, NEW p,
           StartService(l, srv, p) \/ NoStart(l, srv, p),
           DOMAIN srv = Stations
    PROVE  \A s \in Stations : AtPort(s)' \subseteq ToSet(l[s]) \cup srv[s]
<1>1. CASE StartService(l, srv, p) /\ Starts(l, srv, p)
  <2> SUFFICES ASSUME NEW s \in Stations PROVE AtPort(s)' \subseteq ToSet(l[s]) \cup srv[s]
    OBVIOUS
  <2>1. CASE s = p
    <3>1. line'[p] = Tail(l[p]) /\ serving'[p] = srv[p] \cup {Head(l[p])} /\ l[p] # <<>>
      BY <1>1, <2>1 DEF StartService, Starts
    <3>2. l[p] \in Seq(Requests)
      BY <2>1
    <3>3. Len(l[p]) \in Nat \ {0} /\ DOMAIN l[p] = 1 .. Len(l[p])
      BY <3>1, <3>2, EmptySeq, LenProperties
    <3>4. Head(l[p]) \in ToSet(l[p])
      BY <3>3 DEF ToSet
    <3>5. ToSet(Tail(l[p])) \subseteq ToSet(l[p])
      <4>1. \A i \in DOMAIN Tail(l[p]) : Tail(l[p])[i] = l[p][i + 1] /\ i + 1 \in DOMAIN l[p]
        BY <3>1, <3>2, <3>3, HeadTailProperties, LenProperties
      <4> QED BY <4>1 DEF ToSet
    <3> QED BY <2>1, <3>1, <3>4, <3>5 DEF AtPort
  <2>2. CASE s # p
    BY <1>1, <2>2 DEF StartService, AtPort
  <2> QED BY <2>1, <2>2
<1>2. CASE NoStart(l, srv, p) \/ (StartService(l, srv, p) /\ ~Starts(l, srv, p))
  BY <1>2 DEF StartService, NoStart, AtPort
<1> QED BY <1>1, <1>2

\* The end of a service and the other steps bring no task to a station.
LEMMA PickstationCompleteRests ==
    ASSUME TypeOK, NEW p \in Stations, NEW q \in Requests, PickstationComplete(p, q)
    PROVE  Rests
<1> DEFINE srv == EndService(serving, p, q)
<1>1. UNCHANGED bins /\ StartService(line, srv, p)
  BY DEF PickstationComplete
<1>2. DOMAIN srv = Stations /\ \A s \in Stations : srv[s] \subseteq serving[s]
  BY DEF EndService, TypeOK
<1>3. line \in [Stations -> Seq(Requests)]
  BY DEF TypeOK
<1> HIDE DEF srv
<1>4. \A s \in Stations : AtPort(s)' \subseteq AtPort(s)
  <2>1. \A s \in Stations : AtPort(s)' \subseteq ToSet(line[s]) \cup srv[s]
    BY <1>1, <1>2, <1>3, NoNewAtPorts
  <2> QED BY <1>2, <2>1 DEF AtPort
<1>5. BagToSet(events) \subseteq BagToSet(events')
  BY PushType DEF PickstationComplete, TypeOK
<1>6. \A r \in Robots : Returning(events, r) => Returning(events', r)
  BY <1>5 DEF Returning
<1> QED BY <1>1, <1>4, <1>6 DEF Rests

\* Handing out a task rests.
LEMMA StartsRests ==
    ASSUME TypeOK, NEW r \in Robots, NEW q \in Requests, NEW w, StartsTask(r, q, w)
    PROVE  Rests
<1>1. UNCHANGED bins /\ UNCHANGED ports
  BY DEF StartsTask
<1>2. PICK o \in NextAction(w, q), next \in {"handle", "schedule", "schedule_new"} :
         Carry(w, r, q, o, events, next)
  BY DEF StartsTask
<1>3. BagToSet(events) \subseteq BagToSet(events')
  BY <1>2, PushType DEF Carry, TypeOK
<1>4. \A s \in Robots : Returning(events, s) => Returning(events', s)
  BY <1>3 DEF Returning
<1>5. \A p : AtPort(p)' = AtPort(p)
  BY <1>1 DEF AtPort, ports
<1> QED BY <1>1, <1>4, <1>5 DEF Rests

\* A step that touches neither bins, ports nor events rests.
LEMMA NothingRests ==
    ASSUME UNCHANGED bins, UNCHANGED ports, events' = events
    PROVE  Rests
<1>1. \A p : AtPort(p)' = AtPort(p)
  BY DEF AtPort, ports
<1> QED BY <1>1 DEF Rests, Returning

\* Until the first recovery, every step.
LEMMA LoadSteps ==
    ASSUME TypeOK, QueueInv, OneChain, Loads, [Next]_vars, requeues' = 0
    PROVE  \/ Rests
           \/ \E e \in BagToSet(events) : Lifts(e) \/ Lays(e) \/ HandsIn(e)
<1>1. CASE Arrival \/ ScheduleDone
  BY <1>1, NothingRests DEF Arrival, ScheduleDone
<1>2. CASE Schedule
  <2>1. ASSUME NEW r \in Robots, NEW i \in DOMAIN queue.waiting, ScheduleWaiting(r, i)
        PROVE  Rests
    BY <2>1, WaitingStarts, StartsRests
  <2>2. ASSUME NEW r \in Robots, NEW i \in DOMAIN queue.pending, ScheduleNew(r, i)
        PROVE  Rests
    BY <2>2, PendingStarts, StartsRests
  <2> QED BY <1>1, <1>2, <2>1, <2>2 DEF Schedule
<1>3. CASE \E r \in Robots : RobotEvent(r)
  <2>1. PICK e \in BagToSet(events) : Pickup(e) \/ HandleDrop(e) \/ RobotAction(e)
    BY <1>3 DEF RobotEvent
  <2>2. CASE RobotAction(e)
    <3>1. e.kind = "action" /\ UNCHANGED bins /\ UNCHANGED ports
      BY <2>2 DEF RobotAction
    <3>2. ~Requeue(e.robot, task, queue, Drop(events, e))
      BY DEF Requeue, TypeOK
    <3>3. Discard(e) => BagToSet(events) \ {e} \subseteq BagToSet(events')
      BY DropKeeps DEF Discard, TypeOK
    <3>4. BagToSet(events) \ {e} \subseteq BagToSet(events')
      BY <2>2, <3>2, <3>3, ScheduleNextEnds DEF RobotAction
    <3> QED BY <3>1, <3>4, EndsOnlyRests DEF EndsOnly
  <2> QED BY <2>1, <2>2, PickupLoads, HandleDropLoads
<1>4. CASE \E p \in Stations, q \in Requests : PickstationComplete(p, q)
  BY <1>4, PickstationCompleteRests
<1>5. CASE \E r \in Robots, q \in Requests : RequestComplete(r, q)
  BY <1>5, NothingRests DEF RequestComplete
<1>6. ASSUME NEW r \in Robots, RequeueVictim(r)
      PROVE  FALSE
  BY <1>6 DEF RequeueVictim, Requeue, TypeOK
<1>7. CASE \E r \in Robots : ForceReplan(r)
  BY <1>7, NothingRests DEF ForceReplan
<1>8. CASE UNCHANGED vars
  BY <1>8, NothingRests DEF vars
<1> QED BY <1>1, <1>2, <1>3, <1>4, <1>5, <1>6, <1>7, <1>8 DEF Next

\* A bin that is lifted was not in transit; off a stack it counts as stored,
\* at a station it is the target of a return.
LEMMA LiftedBin ==
    ASSUME TypeOK, EveryBinInOnePlace, NEW e, Lifts(e)
    PROVE  /\ e.act.bin \in Bins /\ e.act.bin \notin moving
           /\ \/ e.act.from # None /\ status[e.act.bin] = "stored"
              \/ e.act.from = None /\ e.act.type = "return_target"
<1> DEFINE b == e.act.bin
           s == e.act.from
<1>1. b \in Bins /\ e.act \in PhysicalActions /\ CanPickup(e.act)
  BY DEF Lifts, TakesBin, PhysicalActions
<1>2. CASE s = None
  BY <1>1, <1>2, WarehouseAssumption DEF CanPickup, PhysicalActions
<1>3. CASE s # None
  <2>1. s \in Stacks /\ stack[s] \in Seq(Bins) /\ stack[s] # <<>> /\ Top(stack[s]) = b
    BY <1>1, <1>3 DEF PhysicalActions, CanPickup, OnTop, TypeOK
  <2>2. Len(stack[s]) \in DOMAIN stack[s]
    BY <2>1, EmptySeq, LenProperties
  <2>3. OnSomeStack(b)
    BY <2>1, <2>2 DEF OnSomeStack, Holds, Top
  <2>4. b \notin moving /\ status[b] # "at_pickstation"
    BY <1>1, <2>3 DEF EveryBinInOnePlace
  <2> QED BY <1>1, <1>3, <2>4 DEF TypeOK
<1> QED BY <1>2, <1>3

\* What a robot that puts its bin down leaves: the same loads without it.
LEMMA UnloadedDoes ==
    ASSUME TypeOK, NEW e \in BagToSet(events), carried[e.robot] = e.act.bin,
           carried' = LoadCleared(e)
    PROVE  /\ carried'[e.robot] = None
           /\ \A s \in Robots : s # e.robot => carried'[s] = carried[s]
<1>1. e.robot \in Robots
  BY EventFields
<1> QED BY <1>1 DEF LoadCleared, TypeOK

\* A robot that lays its bin down or hands it in.
LEMMA UnloadingDoes ==
    ASSUME TypeOK, OneChain, pc # "failed", NEW e \in BagToSet(events), Lays(e) \/ HandsIn(e)
    PROVE  /\ e.robot \in Robots /\ EventOf(e.robot, e) /\ e.act.bin \in Bins
           /\ e.act.bin \in moving /\ moving' = moving \ {e.act.bin}
           /\ carried[e.robot] = e.act.bin /\ carried'[e.robot] = None
           /\ \A s \in Robots : s # e.robot => carried'[s] = carried[s]
<1>1. e.robot \in Robots /\ EventOf(e.robot, e)
  BY HandledEvent
<1>2. e.kind = "drop" /\ e.act \in PhysicalActions
  BY DEF Lays, HandsIn
<1>3. carried[e.robot] = e.act.bin
  BY <1>1, <1>2 DEF EventOf
<1>4. e.act.bin \in Bins
  BY <1>2 DEF PhysicalActions
<1>5. carried' = LoadCleared(e) /\ e.act.bin \in moving /\ moving' = moving \ {e.act.bin}
  <2>1. CASE Lays(e)
    BY <2>1 DEF Lays, PutsBin, PutDown
  <2>2. CASE HandsIn(e)
    BY <2>2, DropAtPortBins DEF HandsIn, HandsOver
  <2> QED BY <2>1, <2>2
<1>6. /\ carried'[e.robot] = None
      /\ \A s \in Robots : s # e.robot => carried'[s] = carried[s]
  BY <1>3, <1>5, UnloadedDoes
<1> QED BY <1>1, <1>3, <1>4, <1>5, <1>6

\* Loads and bins in transit keep agreeing.
LEMMA LoadsInv ==
    ASSUME TypeOK, EveryBinInOnePlace, OneChain, Loads, pc # "failed",
           \/ Rests
           \/ \E e \in BagToSet(events) : Lifts(e) \/ Lays(e) \/ HandsIn(e)
    PROVE  Loads'
<1>1. CASE Rests
  BY <1>1 DEF Rests, bins, Loads
<1>2. ASSUME NEW e \in BagToSet(events), Lifts(e)
      PROVE  Loads'
  <2> DEFINE r == e.robot
             b == e.act.bin
  <2>1. r \in Robots /\ b \in Bins /\ b \notin moving /\ b # None
    BY <1>2, EventFields, LiftedBin, WarehouseAssumption
  <2>2. carried[r] = None /\ moving' = moving \cup {b}
    BY <1>2 DEF Lifts, TakesBin
  <2>3. carried'[r] = b /\ \A s \in Robots : s # r => carried'[s] = carried[s]
    BY <1>2, <2>1 DEF Lifts, TypeOK
  <2>4. \A s \in Robots : carried[s] # b
    BY <2>1 DEF Loads
  <2>5. \A s \in Robots : carried'[s] # None => carried'[s] \in moving'
    BY <2>2, <2>3 DEF Loads
  <2>6. \A c \in moving' : \E s \in Robots : carried'[s] = c
    <3>1. ASSUME NEW c \in moving
          PROVE  \E s \in Robots : carried'[s] = c
      <4>1. c # None
        BY WarehouseAssumption DEF TypeOK
      <4>2. PICK s \in Robots : carried[s] = c
        BY DEF Loads
      <4> QED BY <2>2, <2>3, <4>1, <4>2
    <3> QED BY <2>1, <2>2, <2>3, <3>1
  <2>7. \A s, u \in Robots : carried'[s] # None /\ carried'[s] = carried'[u] => s = u
    BY <2>3, <2>4 DEF Loads
  <2> QED BY <2>5, <2>6, <2>7 DEF Loads
<1>3. ASSUME NEW e \in BagToSet(events), Lays(e) \/ HandsIn(e)
      PROVE  Loads'
  <2> DEFINE r == e.robot
             b == e.act.bin
  <2>1. /\ r \in Robots /\ moving' = moving \ {b} /\ b \in Bins
        /\ carried[r] = b /\ carried'[r] = None
        /\ \A s \in Robots : s # r => carried'[s] = carried[s]
    BY <1>3, UnloadingDoes
  <2>2. b # None
    BY <2>1, WarehouseAssumption
  <2> HIDE DEF r, b
  <2>3. \A s \in Robots : s # r => carried[s] # b
    BY <2>1, <2>2 DEF Loads
  <2>4. \A s \in Robots : carried'[s] # None => carried'[s] \in moving'
    BY <2>1, <2>3 DEF Loads
  <2>5. \A c \in moving' : \E s \in Robots : carried'[s] = c
    BY <2>1, <2>3 DEF Loads
  <2>6. \A s, u \in Robots : carried'[s] # None /\ carried'[s] = carried'[u] => s = u
    BY <2>1 DEF Loads
  <2> QED BY <2>4, <2>5, <2>6 DEF Loads
<1> QED BY <1>1, <1>2, <1>3

\* Bins that were brought back count as stored.
LEMMA PutDownStatus ==
    ASSUME TypeOK, EveryBinInOnePlace, NEW e, Lays(e)
    PROVE  /\ status'[e.act.bin] = "stored"
           /\ \A c \in Bins : c # e.act.bin => status'[c] = status[c]
<1> DEFINE s == e.act.to
           b == e.act.bin
           n == Len(stack[s])
<1>1. /\ b \in Bins /\ s \in Stacks /\ stack[s] \in Seq(Bins)
      /\ status' = StatusAfterDrop(e)
  BY DEF Lays, PutsBin, PutDown, PhysicalActions, TypeOK
<1>2. StackAfterDrop(e)[s] = Append(stack[s], b)
  BY <1>1 DEF StackAfterDrop, TypeOK
<1>3. n \in Nat /\ DOMAIN stack[s] = 1 .. n
  BY <1>1, LenProperties
<1>4. /\ DOMAIN Append(stack[s], b) = 1 .. (n + 1) /\ Append(stack[s], b)[n + 1] = b
      /\ \A i \in 1 .. n : Append(stack[s], b)[i] = stack[s][i]
  BY <1>1, <1>3, AppendProperties, LenProperties
<1>5. b \in ToSet(Append(stack[s], b))
  BY <1>3, <1>4 DEF ToSet
<1>6. ASSUME NEW c \in Bins, c # b, c \in ToSet(Append(stack[s], b))
      PROVE  status[c] = "stored"
  <2>1. PICK i \in 1 .. (n + 1) : Append(stack[s], b)[i] = c
    BY <1>4, <1>6 DEF ToSet
  <2>2. i \in 1 .. n
    BY <1>3, <1>4, <1>6, <2>1
  <2>3. OnSomeStack(c)
    BY <1>1, <1>3, <1>4, <2>1, <2>2 DEF OnSomeStack, Holds
  <2>4. status[c] # "at_pickstation"
    BY <2>3 DEF EveryBinInOnePlace
  <2> QED BY <2>4 DEF TypeOK
<1>7. \A c \in Bins : status'[c] = IF c \in ToSet(Append(stack[s], b)) THEN "stored" ELSE status[c]
  BY <1>1, <1>2 DEF StatusAfterDrop
<1> QED BY <1>1, <1>5, <1>6, <1>7

\* What robots carry keeps counting as stored, but for returning targets.
LEMMA LoadsStoredInv ==
    ASSUME TypeOK, EveryBinInOnePlace, OneChain, Loads, LoadsStored, pc # "failed",
           \/ Rests
           \/ \E e \in BagToSet(events) : Lifts(e) \/ Lays(e) \/ HandsIn(e)
    PROVE  LoadsStored'
<1>1. CASE Rests
  BY <1>1 DEF Rests, bins, LoadsStored
<1>2. ASSUME NEW e \in BagToSet(events), Lifts(e)
      PROVE  LoadsStored'
  <2> DEFINE r == e.robot
             b == e.act.bin
             n == [kind |-> "drop", robot |-> r, request |-> e.request, act |-> e.act]
  <2>1. r \in Robots /\ EventOf(r, e) /\ status' = status
    BY <1>2, HandledEvent DEF Lifts, TakesBin
  <2>2. /\ BagToSet(events) \ {e} \subseteq BagToSet(events')
        /\ n \in BagToSet(events')
    BY <1>2, NextDropEnds DEF Lifts
  <2>3. carried'[r] = b /\ \A s \in Robots : s # r => carried'[s] = carried[s]
    BY <1>2, <2>1 DEF Lifts, TypeOK
  <2>4. ASSUME NEW s \in Robots, s # r, Returning(events, s)
        PROVE  Returning(events', s)
    BY <2>1, <2>2, <2>4 DEF Returning, EventOf
  <2>5. status[b] = "stored" \/ Returning(events', r)
    BY <1>2, <2>2, LiftedBin DEF Returning
  <2> QED BY <2>1, <2>3, <2>4, <2>5 DEF LoadsStored
<1>3. ASSUME NEW e \in BagToSet(events), Lays(e) \/ HandsIn(e)
      PROVE  LoadsStored'
  <2> DEFINE r == e.robot
             b == e.act.bin
  <2>1. /\ r \in Robots /\ EventOf(r, e) /\ b \in Bins
        /\ carried[r] = b /\ carried'[r] = None
        /\ \A s \in Robots : s # r => carried'[s] = carried[s]
    BY <1>3, UnloadingDoes
  <2>2. \A s \in Robots : s # r => carried[s] # b
    <3>1. b # None
      BY <2>1, WarehouseAssumption
    <3> QED BY <2>1, <3>1 DEF Loads
  <2>3. BagToSet(events) \ {e} \subseteq BagToSet(events')
    <3>1. CASE Lays(e)
      BY <3>1 DEF Lays
    <3>2. CASE HandsIn(e)
      BY <3>2, DropAtPortBins, DropKeeps DEF HandsIn, TypeOK
    <3> QED BY <1>3, <3>1, <3>2
  <2>4. ASSUME NEW s \in Robots, s # r, Returning(events, s)
        PROVE  Returning(events', s)
    BY <2>3, <2>4 DEF Returning
  <2>5. \A c \in Bins : c # b => status'[c] = status[c]
    <3>1. CASE Lays(e)
      BY <3>1, PutDownStatus
    <3>2. CASE HandsIn(e)
      BY <3>2 DEF HandsIn, HandsOver, TypeOK
    <3> QED BY <1>3, <3>1, <3>2
  <2>6. ASSUME NEW s \in Robots, s # r, carried[s] # None
        PROVE  status'[carried[s]] = status[carried[s]]
    <3>1. carried[s] \in Bins /\ carried[s] # b
      BY <2>2, <2>6 DEF TypeOK
    <3> QED BY <2>5, <3>1
  <2> HIDE DEF r, b
  <2>7. ASSUME NEW s \in Robots, carried'[s] # None
        PROVE  status'[carried'[s]] = "stored" \/ Returning(events', s)
    <3>1. s # r /\ carried'[s] = carried[s]
      BY <2>1, <2>7
    <3> QED BY <2>4, <2>6, <2>7, <3>1 DEF LoadsStored
  <2> QED BY <2>7 DEF LoadsStored
<1> QED BY <1>1, <1>2, <1>3

\* What a robot that hands its target in adds to the stations: its own task.
LEMMA HandsInAtPorts ==
    ASSUME TypeOK, QueueInv, NEW e \in BagToSet(events), e.robot \in Robots, HandsIn(e)
    PROVE  \A p \in Stations : AtPort(p)' \subseteq AtPort(p) \cup {robotTask[e.robot]}
<1> DEFINE r == e.robot
           q == robotTask[r]
           at == IF task[q].station # None THEN task[q].station
                 ELSE CHOOSE s \in Stations : TRUE
           l == [line EXCEPT ![at] = Append(@, q)]
<1>1. DropAtPort(e)
  BY DEF HandsIn
<1>2. CASE q = None
  BY <1>1, <1>2, DropAtPortIdle DEF AtPort, ports
<1>3. CASE q # None
  <2>1. q \in Requests /\ at \in Stations
    BY <1>3, WarehouseAssumption DEF TypeOK, TaskType
  <2>2. StartService(l, serving, at) \/ NoStart(l, serving, at)
    BY <1>1, <1>3, DropAtPortOwn
  <2> HIDE DEF at
  <2>3. l \in [Stations -> Seq(Requests)]
    BY <2>1 DEF TypeOK
  <2>4. \A s \in Stations : l[s] = IF s = at THEN Append(line[s], q) ELSE line[s]
    BY <2>1 DEF TypeOK
  <2>5. ToSet(Append(line[at], q)) \subseteq ToSet(line[at]) \cup {q}
    <3>1. line[at] \in Seq(Requests)
      BY <2>1 DEF TypeOK
    <3>2. IsInjective(line[at]) /\ q \notin ToSet(line[at])
      <4>1. q \notin queue.pickstation
        BY <1>3, HeldTask
      <4> QED BY <2>1, <4>1 DEF QueueInv, AtPorts, AtPort
    <3> QED BY <2>1, <3>1, <3>2, AppendList
  <2>6. \A s \in Stations : ToSet(l[s]) \subseteq ToSet(line[s]) \cup {q}
    BY <2>4, <2>5
  <2>7. DOMAIN serving = Stations
    BY DEF TypeOK
  <2> HIDE DEF l
  <2>8. \A s \in Stations : AtPort(s)' \subseteq ToSet(l[s]) \cup serving[s]
    BY <2>1, <2>2, <2>3, <2>7, NoNewAtPorts
  <2> QED BY <2>6, <2>8 DEF AtPort
<1> QED BY <1>2, <1>3

\* Whoever moves a bin, a bin at its station stays there.
LEMMA BinAtItsStationInv ==
    ASSUME TypeOK, EveryBinInOnePlace, QueueInv, OneChain, BinAtItsStation, pc # "failed",
           \/ Rests
           \/ \E e \in BagToSet(events) : Lifts(e) \/ Lays(e) \/ HandsIn(e)
    PROVE  BinAtItsStation'
<1> DEFINE Here(q) == status[Target[q]] = "at_pickstation" /\ Target[q] \notin moving
<1>1. SUFFICES ASSUME NEW p \in Stations, NEW q \in AtPort(p)'
               PROVE  Here(q)'
  BY DEF BinAtItsStation, AtPort
<1>2. \A x \in AtPort(p) : Here(x)
  BY DEF BinAtItsStation, AtPort
<1>3. \A x \in AtPort(p) : x \in queue.pickstation /\ x \in Requests /\ Target[x] \in Bins
  BY WarehouseAssumption DEF QueueInv, AtPorts, TypeOK, QueueType
<1>4. CASE Rests
  BY <1>2, <1>4 DEF Rests, bins
<1>5. ASSUME NEW e \in BagToSet(events), Lifts(e)
      PROVE  Here(q)'
  <2> DEFINE b == e.act.bin
             r == e.robot
  <2>1. /\ q \in AtPort(p) /\ status' = status /\ moving' = moving \cup {b}
        /\ r \in Robots /\ EventOf(r, e)
    BY <1>5, HandledEvent DEF Lifts, TakesBin, AtPort, ports
  <2>2. Target[q] # b
    <3>1. CASE status[b] = "stored"
      BY <1>2, <2>1, <3>1
    <3>2. CASE e.act.type = "return_target"
      <4>1. b = Target[robotTask[r]] /\ robotTask[r] # None
        BY <2>1, <3>2, EventFields, WarehouseAssumption DEF EventOf, TargetTypes
      <4>2. robotTask[r] \in Active /\ robotTask[r] \notin queue.pickstation
        BY <2>1, <4>1, HeldTask
      <4>3. q \in Active /\ q \in queue.pickstation
        BY <1>3, <2>1 DEF Active
      <4> QED BY <4>1, <4>2, <4>3 DEF QueueInv, DistinctTargets
    <3> QED BY <1>5, <3>1, <3>2, LiftedBin
  <2> QED BY <1>2, <2>1, <2>2
<1>6. ASSUME NEW e \in BagToSet(events), Lays(e)
      PROVE  Here(q)'
  <2>1. q \in AtPort(p) /\ e.act.bin \in moving /\ moving' = moving \ {e.act.bin}
    BY <1>6, UnloadingDoes DEF Lays, AtPort, ports
  <2>2. Target[q] # e.act.bin
    BY <1>2, <2>1
  <2> QED BY <1>2, <1>3, <1>6, <2>1, <2>2, PutDownStatus
<1>7. ASSUME NEW e \in BagToSet(events), HandsIn(e)
      PROVE  Here(q)'
  <2> DEFINE b == e.act.bin
             r == e.robot
  <2>1. /\ r \in Robots /\ EventOf(r, e) /\ b \in Bins /\ moving' = moving \ {b}
        /\ status' = [status EXCEPT ![b] = "at_pickstation"]
    BY <1>7, UnloadingDoes DEF HandsIn, HandsOver
  <2>2. CASE q \in AtPort(p)
    BY <1>2, <1>3, <2>1, <2>2 DEF TypeOK
  <2>3. CASE q = robotTask[r]
    <3>1. Target[q] = b
      BY <1>7, <2>1, <2>3 DEF EventOf, HandsIn, TargetTypes
    <3> QED BY <2>1, <3>1 DEF TypeOK
  <2> QED BY <1>7, <2>1, <2>2, <2>3, HandsInAtPorts
<1> QED BY <1>4, <1>5, <1>6, <1>7

----------------------------------------------------------------------------
(* The invariant *)

\* What holds until the first recovery.
ChainInv == OneChain /\ Loads /\ LoadsStored /\ BinAtItsStation

\* A run that has failed takes no further step.
LEMMA FailedStops ==
    ASSUME pc = "failed", [Next]_vars
    PROVE  UNCHANGED vars
<1>1. ~Arrival /\ ~Schedule
  BY DEF Arrival, Schedule, ScheduleWaiting, ScheduleNew, CanScheduleNew, ScheduleDone, Ready
<1>2. \A r \in Robots : ~RobotEvent(r) /\ ~RequeueVictim(r) /\ ~ForceReplan(r)
  BY DEF RobotEvent, Pickup, HandleDrop, RobotAction, RequeueVictim, ForceReplan, Ready
<1>3. /\ \A p \in Stations, q \in Requests : ~PickstationComplete(p, q)
      /\ \A r \in Robots, q \in Requests : ~RequestComplete(r, q)
  BY DEF PickstationComplete, RequestComplete, Ready
<1> QED BY <1>1, <1>2, <1>3 DEF Next

\* Recoveries are counted.
LEMMA RecoveriesCounted ==
    ASSUME TypeOK, [Next]_vars, requeues' = 0
    PROVE  requeues = 0
<1>1. requeues \in Nat
  BY DEF TypeOK
<1>2. \A r, tasks, aq, evs : ~Requeue(r, tasks, aq, evs)
  BY <1>1 DEF Requeue
<1>3. CASE Arrival \/ Schedule
  BY <1>3 DEF Arrival, Schedule, ScheduleWaiting, ScheduleNew, ScheduleDone
<1>4. CASE \E r \in Robots : RobotEvent(r)
  <2>1. PICK e \in BagToSet(events) : Pickup(e) \/ HandleDrop(e) \/ RobotAction(e)
    BY <1>4 DEF RobotEvent
  <2>2. CASE Pickup(e)
    <3>1. PickupNotOnTop(e) => UNCHANGED requeues
      BY <1>2 DEF PickupNotOnTop
    <3> QED BY <1>2, <2>2, <3>1 DEF Pickup, PickupSucceeds
  <2>3. CASE HandleDrop(e) \/ RobotAction(e)
    BY <1>2, <2>3 DEF HandleDrop, RobotAction
  <2> QED BY <2>1, <2>2, <2>3
<1>5. CASE \E p \in Stations, q \in Requests : PickstationComplete(p, q)
  BY <1>5 DEF PickstationComplete
<1>6. CASE \E r \in Robots, q \in Requests : RequestComplete(r, q)
  BY <1>6 DEF RequestComplete
<1>7. CASE \E r \in Robots : RequeueVictim(r) \/ ForceReplan(r)
  BY <1>2, <1>7 DEF RequeueVictim, ForceReplan
<1>8. CASE UNCHANGED vars
  BY <1>8 DEF vars
<1> QED BY <1>3, <1>4, <1>5, <1>6, <1>7, <1>8 DEF Next

\* Initially nothing is scheduled, carried or delivered.
LEMMA InitChain == Init => ChainInv
<1> SUFFICES ASSUME Init PROVE ChainInv
  OBVIOUS
<1>1. OneChain
  BY DEF Init, OneChain, Quiet, NoEvent, EmptyBag, SetToBag, BagToSet
<1>2. Loads /\ LoadsStored
  BY DEF Init, Loads, LoadsStored
<1>3. \A p \in Stations : serving[p] \cup ToSet(line[p]) = {}
  BY EmptyList DEF Init
<1>4. BinAtItsStation
  BY <1>3 DEF BinAtItsStation
<1> QED BY <1>1, <1>2, <1>4 DEF ChainInv

\* Every step but a recovery keeps it.
LEMMA ChainStep ==
    ASSUME TypeOK, QueueInv, EveryBinInOnePlace, requeues = 0 => ChainInv, [Next]_vars
    PROVE  requeues' = 0 => ChainInv'
<1> SUFFICES ASSUME requeues' = 0 PROVE ChainInv'
  OBVIOUS
<1>1. ChainInv
  BY RecoveriesCounted
<1>2. CASE pc = "failed"
  <2>1. UNCHANGED vars
    BY <1>2, FailedStops
  <2> QED BY <1>1, <2>1 DEF vars, bins, ports, ChainInv, OneChain, Quiet, Busy, EventOf, NoEvent,
          Only, Loads, LoadsStored, Returning, BinAtItsStation
<1>3. CASE pc # "failed"
  <2>1. OneChain'
    BY <1>1, NextChain DEF ChainInv
  <2>2. \/ Rests
        \/ \E e \in BagToSet(events) : Lifts(e) \/ Lays(e) \/ HandsIn(e)
    BY <1>1, LoadSteps DEF ChainInv
  <2>3. Loads' /\ LoadsStored' /\ BinAtItsStation'
    BY <1>1, <1>3, <2>2, LoadsInv, LoadsStoredInv, BinAtItsStationInv DEF ChainInv
  <2> QED BY <2>1, <2>3 DEF ChainInv
<1> QED BY <1>2, <1>3

\* The invariant of the run, which holds until the first recovery.
LEMMA ChainInvariant == Spec => [](requeues = 0 => ChainInv)
<1>1. Init => (requeues = 0 => ChainInv)
  BY InitChain
<1>2. TypeOK /\ QueueInv /\ EveryBinInOnePlace /\ (requeues = 0 => ChainInv) /\ [Next]_vars
        => (requeues = 0 => ChainInv)'
  BY ChainStep
<1> QED BY <1>1, <1>2, QueueInvariant, BinsConserved, PTL DEF Spec

----------------------------------------------------------------------------
(* The theorems *)

\* Until a recovery takes a task off its robot, no handler starts a second
\* chain of events for a robot (event_handler.py schedules the next event of a
\* robot only in the handler of the last one).
THEOREM OneEventPerRobot == Spec => [](requeues = 0 => AtMostOneEvent)
<1>1. TypeOK /\ ChainInv => AtMostOneEvent
  <2> SUFFICES ASSUME TypeOK, ChainInv, NEW e \in BagToSet(events), NEW f \in BagToSet(events),
                      e.robot = f.robot
               PROVE  e = f /\ events[e] = 1
    BY DEF AtMostOneEvent
  <2>1. EventOf(e.robot, e)
    BY HandledEvent DEF ChainInv
  <2> QED BY <2>1 DEF EventOf, Only
<1> QED BY <1>1, ChainInvariant, QueueInvariant, PTL

\* Until then, carried_bin_id and in_transit agree: a bin in transit is on
\* exactly one robot, and a robot carries only a bin in transit.
THEOREM LoadsAgree == Spec => [](requeues = 0 => CarriedBinsMove)
<1>1. TypeOK /\ ChainInv => CarriedBinsMove
  <2> SUFFICES ASSUME TypeOK, ChainInv PROVE CarriedBinsMove
    OBVIOUS
  <2>1. Loads
    BY DEF ChainInv
  <2>2. ASSUME NEW b \in moving
        PROVE  Cardinality({r \in Robots : carried[r] = b}) = 1
    <3>1. b # None
      BY WarehouseAssumption DEF TypeOK
    <3>2. PICK s \in Robots : carried[s] = b
      BY <2>1 DEF Loads
    <3>3. {r \in Robots : carried[r] = b} = {s}
      BY <2>1, <3>1, <3>2 DEF Loads
    <3> QED BY <3>3, FS_Singleton
  <2> QED BY <2>1, <2>2 DEF CarriedBinsMove, Loads
<1> QED BY <1>1, ChainInvariant, QueueInvariant, PTL

\* Until then, the bin of every task that queues or is served at a station is
\* at the station: the hand-over books the service on the task whose target it
\* delivered, and no other task takes that bin away.
THEOREM BinsStayAtStation == Spec => [](requeues = 0 => BinAtItsStation)
<1>1. ChainInv => BinAtItsStation
  BY DEF ChainInv
<1> QED BY <1>1, ChainInvariant, PTL

=============================================================================
