----------------------------- MODULE ActiveQueue -----------------------------
(***************************************************************************)
(* requests_/active_queue.py: the containers a request passes through on   *)
(* its way from arrival to completion, and the ownership of the blockers a *)
(* task has relocated.  One operator per method; each takes the queue      *)
(* record and returns the changed one.                                     *)
(***************************************************************************)
EXTENDS RobotTask

QueueType ==
    [pending     : Seq(Requests),                   \* no task yet
     assigned    : [Requests -> Robots \cup {None}], \* held by a robot
     waiting     : Seq(Requests),                   \* tasks without a robot
     pickstation : SUBSET Requests,                 \* tasks at a station
     waitlist    : [Bins -> Seq(Requests)],         \* _batch_waitlist
     owner       : [Bins -> Requests \cup {None}]]  \* _blocker_ownership

EmptyQueue ==
    [pending |-> <<>>, assigned |-> [q \in Requests |-> None],
     waiting |-> <<>>, pickstation |-> {},
     waitlist |-> [b \in Bins |-> <<>>], owner |-> [b \in Bins |-> None]]

----------------------------------------------------------------------------
(* Queries *)

Assigned(aq) == {q \in Requests : aq.assigned[q] # None}
Owned(aq)    == {b \in Bins : aq.owner[b] # None}

ReservedByRobots(aq) == {Target[q] : q \in Assigned(aq)} \cup Owned(aq)

\* get_all_reserved_bin_ids: the bins on which no new task may start.
Reserved(aq) ==
    {Target[q] : q \in Assigned(aq) \cup ToSet(aq.waiting) \cup aq.pickstation}
        \cup Owned(aq)

\* get_pending_restore_stack_ids: where the owners of blockers must still put
\* their relocated bins back.
PendingRestoreStacks(aq, task) ==
    UNION {{task[q].temp[i].from : i \in DOMAIN task[q].temp} :
             q \in {aq.owner[b] : b \in Owned(aq)}}

----------------------------------------------------------------------------
(* Methods *)

\* A bug of the kind the waitlist invites: the batch check is left out.
AddNoBatch(aq, q) == [aq EXCEPT !.pending = Append(@, q)]

\* add: a request for a reserved bin is put on the bin's batch waitlist.
Add(aq, q) ==
    IF Target[q] \in Reserved(aq)
    THEN [aq EXCEPT !.waitlist[Target[q]] = Append(@, q)]
    ELSE [aq EXCEPT !.pending = Append(@, q)]

AddWaitingTaskKeepsAssigned(aq, q) ==
    [aq EXCEPT !.waiting = IF Contains(@, q) THEN @ ELSE Append(@, q)]

\* add_waiting_task: a waiting task is no longer assigned.
AddWaitingTask(aq, q) ==
    [aq EXCEPT !.assigned[q] = None,
               !.waiting = IF Contains(@, q) THEN @ ELSE Append(@, q)]

AddPickstationTaskKeepsAssigned(aq, q) == [aq EXCEPT !.pickstation = @ \cup {q}]

AddPickstationTask(aq, q) ==
    [aq EXCEPT !.assigned[q] = None, !.pickstation = @ \cup {q}]

MarkPickstationTaskCompletedForgets(aq, q) == [aq EXCEPT !.pickstation = @ \ {q}]

\* mark_pickstation_task_completed: the task waits for a robot again.
MarkPickstationTaskCompleted(aq, q) ==
    AddWaitingTask([aq EXCEPT !.pickstation = @ \ {q}], q)

MarkAssigned(aq, q, r) == [aq EXCEPT !.assigned[q] = r]

\* remove_waiting_task; a task waits at most once (add_waiting_task).
Without(tasks, q) ==
    IF Contains(tasks, q)
    THEN RemoveAt(tasks, CHOOSE i \in DOMAIN tasks : tasks[i] = q)
    ELSE tasks

MarkTaskAssignedKeepsWaiting(aq, q, r) ==
    [aq EXCEPT !.pickstation = @ \ {q}, !.assigned[q] = r]

\* mark_task_assigned: the task leaves the station list and the waiting list.
MarkTaskAssigned(aq, q, r) ==
    [aq EXCEPT !.pickstation = @ \ {q},
               !.waiting = Without(@, q),
               !.assigned[q] = r]

MarkCompletedKeepsWaitlist(aq, q) ==
    [aq EXCEPT
        !.assigned[q] = None,
        !.pickstation = @ \ {q},
        !.waiting     = Without(@, q),
        !.owner       = [b \in Bins |-> IF @[b] = q THEN None ELSE @[b]]]

\* mark_completed: the requests batched behind the target bin become pending,
\* and every blocker the task still owned is released.
MarkCompleted(aq, q) ==
    [aq EXCEPT
        !.assigned[q] = None,
        !.pickstation = @ \ {q},
        !.waiting     = Without(@, q),
        !.pending     = @ \o aq.waitlist[Target[q]],
        !.waitlist[Target[q]] = <<>>,
        !.owner       = [b \in Bins |-> IF @[b] = q THEN None ELSE @[b]]]

RegisterBlocker(aq, b, q)  == [aq EXCEPT !.owner[b] = q]
ReleaseBlockerKeeps(aq, b) == aq
ReleaseBlocker(aq, b)      == [aq EXCEPT !.owner[b] = None]

ReleaseNoBlockers(aq, q, t) == aq

\* clear_all_relocations drops the ownership of the bins q really owns.
ReleaseOwnBlockers(aq, q, t) ==
    [aq EXCEPT !.owner =
        [b \in Bins |-> IF @[b] = q /\ HasOpenRelocation(t, b)
                        THEN None ELSE @[b]]]

PopBatchWaitlist(aq, b) == [aq EXCEPT !.waitlist[b] = <<>>]
=============================================================================
