------------------------------ MODULE RobotTask ------------------------------
(***************************************************************************)
(* simulation/robot_task.py: the record of one logistic task, from digging *)
(* to the final return, and the methods that change it.  A task is         *)
(* identified with the request it serves: the code creates exactly one     *)
(* RobotTask per scheduled request and keeps it in the queue's containers. *)
(* The retrieval_* fields are measurements only and are left out.          *)
(***************************************************************************)
EXTENDS Warehouse, SequencesExt

Phases == {"retrieve_target", "restore_blockers", "wait_for_pickstation",
           "return_target", "complete"}

Relocation == [bin : Bins, from : Stacks, buffer : Stacks]

TaskType ==
    [phase     : Phases,
     home      : Stacks \cup {None},     \* target_stack_id
     actual    : Stacks \cup {None},     \* actual_return_stack_id
     station   : Stations \cup {None},   \* assigned_pickstation
     removed   : BOOLEAN,                \* target_removed
     delivered : BOOLEAN,                \* target_at_pickstation
     served    : BOOLEAN,                \* pickstation_completed
     returned  : BOOLEAN,                \* target_returned
     reordered : BOOLEAN,                \* blockers_reordered
     temp      : Seq(Relocation),        \* temp_storage
     batched   : SUBSET Requests]         \* batched_requests

NewTask ==
    [phase |-> "retrieve_target", home |-> None, actual |-> None,
     station |-> None, removed |-> FALSE, delivered |-> FALSE,
     served |-> FALSE, returned |-> FALSE, reordered |-> FALSE,
     temp |-> <<>>, batched |-> {}]

RememberRelocationSwapped(t, b, from, buffer) ==
    [t EXCEPT !.temp = Append(@, [bin |-> b, from |-> buffer, buffer |-> from])]

RememberRelocation(t, b, from, buffer) ==
    [t EXCEPT !.temp = Append(@, [bin |-> b, from |-> from, buffer |-> buffer])]

\* peek_last_relocation
PeekFirstRelocation(t) == Head(t.temp)
PeekLastRelocation(t)  == t.temp[Len(t.temp)]

\* The relocations of bin b still open in t, by position.
OpenRelocations(t, b) == {i \in DOMAIN t.temp : t.temp[i].bin = b}

HasOpenRelocation(t, b) == OpenRelocations(t, b) # {}

FirstRelocation(t, b) == CHOOSE i \in OpenRelocations(t, b) :
                            \A j \in OpenRelocations(t, b) : i <= j
LastRelocation(t, b)  == CHOOSE i \in OpenRelocations(t, b) :
                            \A j \in OpenRelocations(t, b) : j <= i

\* mark_last_relocation_restored: the newest entry of the bin is popped; the
\* two mismatch checks raise.  A bin without an entry is ignored.
RestoreMismatch(t, b, from, to) ==
    /\ HasOpenRelocation(t, b)
    /\ \/ t.temp[LastRelocation(t, b)].buffer # from
       \/ t.temp[LastRelocation(t, b)].from # to

MarkLastRelocationRestored(t, b) ==
    IF HasOpenRelocation(t, b)
    THEN [t EXCEPT !.temp = RemoveAt(@, LastRelocation(t, b))]
    ELSE t

\* release_blocker_ownership: another task takes over the bin.
ForgetRelocation(t, b) ==
    [t EXCEPT !.temp = RemoveAt(@, FirstRelocation(t, b))]

\* update_return_stack_for_blocker
UpdateReturnStack(t, b, to) ==
    [t EXCEPT !.temp[FirstRelocation(t, b)].from = to]

MarkWaitingNotRemoved(t) ==
    [t EXCEPT !.delivered = TRUE, !.phase = "wait_for_pickstation"]

MarkWaitingAtPickstation(t) ==
    [t EXCEPT !.removed = TRUE, !.delivered = TRUE,
              !.phase = "wait_for_pickstation"]

MarkPickstationCompleted(t) ==
    [t EXCEPT !.served = TRUE,
              !.phase = IF @ = "wait_for_pickstation"
                        THEN "restore_blockers" ELSE @]

MarkTargetReturnedMisspelt(t) == [t EXCEPT !.returned = TRUE, !.phase = "completed"]

\* mark_target_returned raises on a target that was never removed: callers
\* test t.removed.
MarkTargetReturned(t) == [t EXCEPT !.returned = TRUE, !.phase = "complete"]

AddBatchedRequests(t, reqs) == [t EXCEPT !.batched = @ \cup reqs]

AllRequests(q, t) == {q} \cup t.batched

\* The stack the finished task must have left its target on.
ReturnStack(t) == IF t.actual # None THEN t.actual ELSE t.home

CanCompleteConsistently(q, t, stack) ==
    /\ ReturnStack(t) # None
    /\ t.removed /\ t.delivered /\ t.served /\ t.returned
    /\ t.temp = <<>>
    /\ StackOf(stack, Target[q]) = ReturnStack(t)
=============================================================================
