------------------------ MODULE TaskLifecycle_proofs ------------------------
(***************************************************************************)
(* Theorems about TaskLifecycle, for every value of its constants.         *)
(***************************************************************************)
EXTENDS TaskLifecycle, TLAPS, SequenceTheorems, WellFoundedInduction, NaturalsInduction

----------------------------------------------------------------------------
(* Sequences and bags *)

\* Removing one element keeps the type of a sequence.
LEMMA RemoveAtType ==
    ASSUME NEW S, NEW seq \in Seq(S), NEW i \in DOMAIN seq
    PROVE  RemoveAt(seq, i) \in Seq(S)
<1>1. i \in 1 .. Len(seq)
  BY LenProperties
<1>2. SubSeq(seq, 1, i - 1) \in Seq(S) /\ SubSeq(seq, i + 1, Len(seq)) \in Seq(S)
  BY <1>1, SubSeqProperties, LenProperties
<1> QED BY <1>2, ConcatProperties DEF RemoveAt

\* Every element of a sequence lies in the set the sequence is over.
LEMMA ToSetType ==
    ASSUME NEW S, NEW seq \in Seq(S)
    PROVE  ToSet(seq) \subseteq S
BY ElementOfSeq DEF ToSet

\* Pushing an event adds it to the pending ones and nothing else.
LEMMA PushType ==
    ASSUME NEW evs, IsABag(evs), NEW k, NEW r, NEW q, NEW a
    PROVE  /\ IsABag(Push(evs, k, r, q, a))
           /\ BagToSet(Push(evs, k, r, q, a)) =
                BagToSet(evs) \cup
                  {[kind |-> k, robot |-> r, request |-> q, act |-> a]}
BY DEF Push, IsABag, BagToSet, SetToBag, (+)

\* Taking an event out leaves a part of the pending ones.
LEMMA DropType ==
    ASSUME NEW evs, IsABag(evs), NEW e
    PROVE  IsABag(Drop(evs, e)) /\ BagToSet(Drop(evs, e)) \subseteq BagToSet(evs)
BY DEF Drop, IsABag, BagToSet, SetToBag, (-)

\* The order of the naturals as a set of pairs.
Below == {p \in Nat \X Nat : p[1] < p[2]}

\* The order of the depths is well founded, so the recursive descent through a stack is defined.
LEMMA BelowWellFounded == IsWellFoundedOn(Below, Nat)
BY NatLessThanWellFounded DEF OpToRel, Below

\* Every non-empty set of naturals has a smallest member.
LEMMA SmallestExists ==
    ASSUME NEW S, S \subseteq Nat, S # {}
    PROVE  \E i \in S : \A j \in S : i <= j
<1>1. PICK i \in S : \A j \in S : <<j, i>> \notin Below
  BY BelowWellFounded, WFMin
<1>2. ASSUME NEW j \in S PROVE i <= j
  <2>1. i \in Nat /\ j \in Nat /\ <<j, i>> \notin Below
    BY <1>1
  <2> QED BY <2>1 DEF Below
<1> QED BY <1>2

\* Every non-empty set of naturals below a bound has a largest member.
LEMMA LargestExists ==
    ASSUME NEW S, NEW n \in Nat, S \subseteq 1 .. n, S # {}
    PROVE  \E i \in S : \A j \in S : j <= i
<1> DEFINE D == {n - j : j \in S}
<1>1. PICK d \in D : \A e \in D : d <= e
  <2>1. \A j \in S : n - j \in Nat
    OBVIOUS
  <2>2. D \subseteq Nat /\ D # {}
    BY <2>1
  <2>3. \E d \in D : \A e \in D : d <= e
    BY <2>2, SmallestExists
  <2> QED BY <2>3
<1>2. PICK i \in S : d = n - i
  OBVIOUS
<1>3. ASSUME NEW j \in S PROVE j <= i
  <2>1. d <= n - j
    BY <1>1
  <2> QED BY <1>2, <2>1
<1> QED BY <1>3

\* A bin with an open relocation has a first and a last one.
LEMMA RelocationExists ==
    ASSUME NEW t \in TaskType, NEW b, HasOpenRelocation(t, b)
    PROVE  /\ FirstRelocation(t, b) \in OpenRelocations(t, b)
           /\ LastRelocation(t, b) \in OpenRelocations(t, b)
           /\ OpenRelocations(t, b) \subseteq DOMAIN t.temp
<1> DEFINE O == OpenRelocations(t, b)
<1>1. /\ O \subseteq 1 .. Len(t.temp) /\ O # {}
      /\ Len(t.temp) \in Nat /\ DOMAIN t.temp = 1 .. Len(t.temp)
  BY LenProperties DEF OpenRelocations, HasOpenRelocation, TaskType
<1>2. \E i \in O : \A j \in O : i <= j
  BY <1>1, SmallestExists
<1>3. \E i \in O : \A j \in O : j <= i
  BY <1>1, LargestExists
<1> QED BY <1>1, <1>2, <1>3 DEF FirstRelocation, LastRelocation

----------------------------------------------------------------------------
(* RobotTask *)

\* A task as RobotTask.__init__ leaves it is a task record.
LEMMA NewTaskType == NewTask \in TaskType
BY DEF NewTask, TaskType, Phases

\* Every method of RobotTask yields a RobotTask.
LEMMA FieldTypes ==
    ASSUME NEW t \in TaskType
    PROVE  /\ \A p \in Stations : [t EXCEPT !.station = p] \in TaskType
           /\ \A s \in Stacks : [t EXCEPT !.actual = s] \in TaskType
           /\ MarkWaitingAtPickstation(t) \in TaskType
           /\ MarkPickstationCompleted(t) \in TaskType
           /\ MarkTargetReturned(t) \in TaskType
           /\ \A S \in SUBSET Requests : AddBatchedRequests(t, S) \in TaskType
BY DEF TaskType, Phases, MarkWaitingAtPickstation, MarkPickstationCompleted,
       MarkTargetReturned, AddBatchedRequests

\* Recording one more relocated blocker keeps a task a task.
LEMMA RememberRelocationType ==
    ASSUME NEW t \in TaskType, NEW b \in Bins, NEW s \in Stacks, NEW d \in Stacks
    PROVE  RememberRelocation(t, b, s, d) \in TaskType
<1>1. [bin |-> b, from |-> s, buffer |-> d] \in Relocation
  BY DEF Relocation
<1>2. Append(t.temp, [bin |-> b, from |-> s, buffer |-> d]) \in Seq(Relocation)
  BY <1>1, AppendProperties DEF TaskType
<1> QED BY <1>2 DEF RememberRelocation, TaskType

\* Marking the last open relocation as restored keeps a task a task.
LEMMA MarkLastRelocationRestoredType ==
    ASSUME NEW t \in TaskType, NEW b
    PROVE  MarkLastRelocationRestored(t, b) \in TaskType
<1>1. CASE HasOpenRelocation(t, b)
  <2>1. RemoveAt(t.temp, LastRelocation(t, b)) \in Seq(Relocation)
    BY <1>1, RelocationExists, RemoveAtType DEF TaskType
  <2> QED BY <1>1, <2>1 DEF MarkLastRelocationRestored, TaskType
<1>2. CASE ~HasOpenRelocation(t, b)
  BY <1>2 DEF MarkLastRelocationRestored
<1> QED BY <1>1, <1>2

\* Dropping a relocation from the record keeps a task a task.
LEMMA ForgetRelocationType ==
    ASSUME NEW t \in TaskType, NEW b, HasOpenRelocation(t, b)
    PROVE  ForgetRelocation(t, b) \in TaskType
<1>1. RemoveAt(t.temp, FirstRelocation(t, b)) \in Seq(Relocation)
  BY RelocationExists, RemoveAtType DEF TaskType
<1> QED BY <1>1 DEF ForgetRelocation, TaskType

\* Redirecting the stack a target returns to keeps a task a task.
LEMMA UpdateReturnStackType ==
    ASSUME NEW t \in TaskType, NEW b, NEW s \in Stacks, HasOpenRelocation(t, b)
    PROVE  UpdateReturnStack(t, b, s) \in TaskType
<1> DEFINE i == FirstRelocation(t, b)
           u == [t.temp EXCEPT ![i].from = s]
<1>1. /\ i \in DOMAIN t.temp
      /\ t.temp \in Seq(Relocation)
  BY RelocationExists DEF TaskType
<1>2. [t.temp[i] EXCEPT !.from = s] \in Relocation
  <2>1. t.temp[i] \in Relocation
    BY <1>1, ElementOfSeq, LenProperties
  <2> QED BY <2>1 DEF Relocation
<1>3. u = [t.temp EXCEPT ![i] = [t.temp[i] EXCEPT !.from = s]]
  BY <1>1
<1>4. u \in Seq(Relocation)
  BY <1>1, <1>2, <1>3, ExceptSeq, LenProperties
<1> QED BY <1>4 DEF UpdateReturnStack, TaskType

----------------------------------------------------------------------------
(* ActiveQueue *)

\* The queue a run starts with is a queue.
LEMMA EmptyQueueType == EmptyQueue \in QueueType
BY DEF EmptyQueue, QueueType

\* Removing a request from one of the queue's lists leaves a list of requests.
LEMMA WithoutType ==
    ASSUME NEW S, NEW seq \in Seq(S), NEW x
    PROVE  Without(seq, x) \in Seq(S)
<1>1. CASE Contains(seq, x)
  <2>1. \E i \in DOMAIN seq : seq[i] = x
    BY <1>1, LenProperties DEF Contains
  <2>2. (CHOOSE i \in DOMAIN seq : seq[i] = x) \in DOMAIN seq
    BY <2>1
  <2> QED BY <1>1, <2>2, RemoveAtType DEF Without
<1>2. CASE ~Contains(seq, x)
  BY <1>2 DEF Without
<1> QED BY <1>1, <1>2

\* Every method of ActiveQueue yields an ActiveQueue.
LEMMA AddType ==
    ASSUME NEW aq \in QueueType, NEW q \in Requests
    PROVE  Add(aq, q) \in QueueType
<1>1. Append(aq.pending, q) \in Seq(Requests)
  BY AppendProperties DEF QueueType
<1>2. Target[q] \in Bins
  BY WarehouseAssumption
<1>3. Append(aq.waitlist[Target[q]], q) \in Seq(Requests)
  BY <1>2, AppendProperties DEF QueueType
<1> QED BY <1>1, <1>2, <1>3 DEF Add, QueueType

\* Queueing an arrived request keeps the queue a queue.
LEMMA AddWaitingTaskType ==
    ASSUME NEW aq \in QueueType, NEW q \in Requests
    PROVE  AddWaitingTask(aq, q) \in QueueType
<1>1. Append(aq.waiting, q) \in Seq(Requests)
  BY AppendProperties DEF QueueType
<1> QED BY <1>1 DEF AddWaitingTask, QueueType

\* Listing a request at the station keeps the queue a queue.
LEMMA AddPickstationTaskType ==
    ASSUME NEW aq \in QueueType, NEW q \in Requests
    PROVE  AddPickstationTask(aq, q) \in QueueType
BY DEF AddPickstationTask, QueueType

\* Moving a served request to the done list keeps the queue a queue.
LEMMA MarkPickstationTaskCompletedType ==
    ASSUME NEW aq \in QueueType, NEW q \in Requests
    PROVE  MarkPickstationTaskCompleted(aq, q) \in QueueType
<1>1. [aq EXCEPT !.pickstation = @ \ {q}] \in QueueType
  BY DEF QueueType
<1> QED BY <1>1, AddWaitingTaskType DEF MarkPickstationTaskCompleted

\* Assigning a waiting request keeps the queue a queue.
LEMMA MarkAssignedType ==
    ASSUME NEW aq \in QueueType, NEW q \in Requests, NEW r \in Robots
    PROVE  MarkAssigned(aq, q, r) \in QueueType
BY DEF MarkAssigned, QueueType

\* Assigning a served request's return keeps the queue a queue.
LEMMA MarkTaskAssignedType ==
    ASSUME NEW aq \in QueueType, NEW q \in Requests, NEW r \in Robots
    PROVE  MarkTaskAssigned(aq, q, r) \in QueueType
<1>1. Without(aq.waiting, q) \in Seq(Requests)
  BY WithoutType DEF QueueType
<1> QED BY <1>1 DEF MarkTaskAssigned, QueueType

\* Finishing a request keeps the queue a queue.
LEMMA MarkCompletedType ==
    ASSUME NEW aq \in QueueType, NEW q \in Requests
    PROVE  MarkCompleted(aq, q) \in QueueType
<1>1. Without(aq.waiting, q) \in Seq(Requests)
  BY WithoutType DEF QueueType
<1>2. Target[q] \in Bins
  BY WarehouseAssumption
<1>3. aq.pending \o aq.waitlist[Target[q]] \in Seq(Requests)
  BY <1>2, ConcatProperties DEF QueueType
<1>4. [b \in Bins |-> IF aq.owner[b] = q THEN None ELSE aq.owner[b]]
         \in [Bins -> Requests \cup {None}]
  BY DEF QueueType
<1>5. [aq.waitlist EXCEPT ![Target[q]] = <<>>] \in [Bins -> Seq(Requests)]
  BY EmptySeq DEF QueueType
<1> QED BY <1>1, <1>3, <1>4, <1>5 DEF MarkCompleted, QueueType

\* The table of the bins that wait to be restored, built from the tasks, maps bins to owners.
LEMMA BlockerOwnershipType ==
    ASSUME NEW aq \in QueueType, NEW q \in Requests, NEW b \in Bins, NEW t
    PROVE  /\ RegisterBlocker(aq, b, q) \in QueueType
           /\ ReleaseBlocker(aq, b) \in QueueType
           /\ ReleaseOwnBlockers(aq, q, t) \in QueueType
           /\ PopBatchWaitlist(aq, b) \in QueueType
<1>1. RegisterBlocker(aq, b, q) \in QueueType /\ ReleaseBlocker(aq, b) \in QueueType
  BY DEF RegisterBlocker, ReleaseBlocker, QueueType
<1>2. ReleaseOwnBlockers(aq, q, t) \in QueueType
  <2>1. [x \in Bins |-> IF aq.owner[x] = q /\ HasOpenRelocation(t, x)
                        THEN None ELSE aq.owner[x]]
           \in [Bins -> Requests \cup {None}]
    BY DEF QueueType
  <2> QED BY <2>1 DEF ReleaseOwnBlockers, QueueType
<1>3. PopBatchWaitlist(aq, b) \in QueueType
  BY EmptySeq DEF PopBatchWaitlist, QueueType
<1> QED BY <1>1, <1>2, <1>3

----------------------------------------------------------------------------
(* TopAccessStrategy *)

\* What the lemmas below need to know of the world the strategy sees.
WorldOK(w) ==
    /\ w.task \in [Requests -> TaskType]
    /\ w.queue \in QueueType
    /\ w.stack \in [Stacks -> Seq(Bins)]

OutcomeOK(o) ==
    /\ o.task \in TaskType
    /\ o.queue \in QueueType
    /\ o.act \in Answers

\* The top of a non-empty stack is a bin.
LEMMA TopType ==
    ASSUME NEW S, NEW seq \in Seq(S), seq # <<>>
    PROVE  Len(seq) \in DOMAIN seq /\ Top(seq) \in S
BY EmptySeq, LenProperties, ElementOfSeq DEF Top

\* A stack that holds a bin is not empty.
LEMMA HoldsNonEmpty ==
    ASSUME NEW w, WorldOK(w), NEW s \in Stacks, NEW b, Holds(w.stack, s, b)
    PROVE  w.stack[s] # <<>> /\ b \in Bins
BY EmptySeq, LenProperties, ElementOfSeq DEF Holds, WorldOK

\* The stack found for a stored bin is one of the stacks.
LEMMA StackOfType ==
    ASSUME NEW stk, NEW b
    PROVE  /\ StackOf(stk, b) \in Stacks \cup {None}
           /\ StackOf(stk, b) # None => Holds(stk, StackOf(stk, b), b)
           /\ StackOf(stk, b) = None => \A s \in Stacks : ~Holds(stk, s, b)
BY WarehouseAssumption DEF StackOf

\* The action chosen for a target on its way back is a legal action or none.
LEMMA NextReturnTargetOK ==
    ASSUME NEW w, WorldOK(w), NEW q \in Requests, NEW t \in TaskType,
           NEW aq \in QueueType, NEW o \in NextReturnTarget(w, q, t, aq)
    PROVE  OutcomeOK(o)
<1>1. Target[q] \in Bins
  BY WarehouseAssumption
<1>2. CASE o = Outcome(t, aq, Raise) \/ o = Outcome(t, aq, NoStack)
  BY <1>2 DEF OutcomeOK, Outcome, Answers
<1>3. CASE o = Outcome(MarkTargetReturned(t), aq,
                       Action("request_complete", Target[q], None, None))
  BY <1>1, <1>3 DEF OutcomeOK, Outcome, Answers, Action, CompleteActions,
                    MarkTargetReturned, TaskType, Phases
<1>4. CASE \E s \in Stacks :
             o = Outcome([t EXCEPT !.actual = s], aq,
                         Action("return_target", Target[q], None, s))
  BY <1>1, <1>4 DEF OutcomeOK, Outcome, Answers, Action, PhysicalActions, TaskType
<1> QED BY <1>2, <1>3, <1>4 DEF NextReturnTarget, OrNoStack, ReturnStacks

\* The action chosen once a bin is to be restored is a legal action or none.
LEMMA AfterRestoreOK ==
    ASSUME NEW w, WorldOK(w), NEW q \in Requests, NEW t \in TaskType,
           NEW aq \in QueueType, NEW o \in AfterRestore(w, q, t, aq)
    PROVE  OutcomeOK(o)
<1>1. CASE t.served
  <2>1. [t EXCEPT !.phase = "return_target"] \in TaskType
    BY DEF TaskType, Phases
  <2> QED BY <1>1, <2>1, NextReturnTargetOK DEF AfterRestore
<1>2. CASE ~t.served
  BY <1>2 DEF AfterRestore, OutcomeOK, Outcome, Answers, TaskType, Phases
<1> QED BY <1>1, <1>2

\* Reordering the open relocations keeps the type of the task.
LEMMA ReorderingsType ==
    ASSUME NEW t \in TaskType, NEW u \in Reorderings(t)
    PROVE  /\ u \in TaskType
           /\ t.temp # <<>> => u.temp # <<>>
<1>1. CASE t.reordered \/ t.temp = <<>>
  BY <1>1 DEF Reorderings
<1>2. CASE ~(t.reordered \/ t.temp = <<>>) /\ Lofi
  BY <1>2 DEF Reorderings, TaskType
<1>3. CASE ~(t.reordered \/ t.temp = <<>>) /\ ~Lofi
  <2>1. PICK f \in Bijection(DOMAIN t.temp, DOMAIN t.temp) :
           u = [t EXCEPT !.temp = [i \in DOMAIN t.temp |-> t.temp[f[i]]],
                         !.reordered = TRUE]
    BY <1>3 DEF Reorderings, TaskType
  <2>2. /\ t.temp \in Seq(Relocation) /\ Len(t.temp) \in Nat
        /\ DOMAIN t.temp = 1 .. Len(t.temp) /\ Len(t.temp) # 0
    BY <1>3, LenProperties, EmptySeq DEF TaskType
  <2>3. \A i \in 1 .. Len(t.temp) : t.temp[f[i]] \in Relocation
    <3>1. f \in [DOMAIN t.temp -> DOMAIN t.temp]
      BY DEF Bijection, Injection
    <3> QED BY <2>2, <3>1, ElementOfSeq
  <2>4. [i \in 1 .. Len(t.temp) |-> t.temp[f[i]]] \in Seq(Relocation)
    BY <2>2, <2>3, IsASeq
  <2>5. u \in TaskType
    BY <2>1, <2>2, <2>4 DEF TaskType
  <2>6. u.temp = [i \in 1 .. Len(t.temp) |-> t.temp[f[i]]]
    BY <2>1, <2>2 DEF TaskType
  <2> QED BY <2>2, <2>4, <2>5, <2>6, EmptySeq, LenProperties
<1> QED BY <1>1, <1>2, <1>3

\* The action chosen while blockers wait to be restored is a legal action or none.
LEMMA NextRestoreBlockersOK ==
    ASSUME NEW w, WorldOK(w), NEW q \in Requests, NEW t \in TaskType,
           NEW aq \in QueueType, NEW o \in NextRestoreBlockers(w, q, t, aq)
    PROVE  OutcomeOK(o)
<1>1. CASE ~ReturnBlockingBins
  <2>1. [t EXCEPT !.temp = <<>>, !.reordered = TRUE] \in TaskType
    BY EmptySeq DEF TaskType
  <2>2. [aq EXCEPT !.owner = [b \in Bins |-> IF aq.owner[b] = q /\ HasOpenRelocation(t, b)
                                             THEN None ELSE aq.owner[b]]] \in QueueType
    BY DEF QueueType
  <2>3. ReleaseOwnBlockers(aq, q, t) \in QueueType
    BY <2>2 DEF ReleaseOwnBlockers, QueueType
  <2> QED BY <1>1, <2>1, <2>3, AfterRestoreOK DEF NextRestoreBlockers
<1>2. CASE ReturnBlockingBins /\ t.temp = <<>>
  BY <1>2, AfterRestoreOK DEF NextRestoreBlockers
<1>3. CASE ReturnBlockingBins /\ t.temp # <<>>
  <2>1. PICK u \in Reorderings(t) :
           o \in OrNoStack(u, aq,
                   IF Buried(w, PeekLastRelocation(u)) THEN Unbury(w, u, aq, PeekLastRelocation(u))
                                             ELSE RestoreBlocker(w, u, aq, PeekLastRelocation(u)))
    BY <1>3 DEF NextRestoreBlockers
  <2>2. u \in TaskType /\ u.temp \in Seq(Relocation) /\ u.temp # <<>>
    BY <1>3, <2>1, ReorderingsType DEF TaskType
  <2> DEFINE reloc == PeekLastRelocation(u)
  <2>3. reloc \in Relocation /\ Len(u.temp) \in DOMAIN u.temp
    BY <2>2, TopType DEF PeekLastRelocation, Top
  <2>4. CASE o = Outcome(u, aq, NoStack)
    BY <2>2, <2>4 DEF OutcomeOK, Outcome, Answers
  <2>5. CASE Buried(w, reloc) /\ o \in Unbury(w, u, aq, reloc)
    <3>1. Top(w.stack[reloc.buffer]) \in Bins
      BY <2>3, <2>5, HoldsNonEmpty, TopType DEF Buried, Relocation, WorldOK
    <3> QED BY <2>2, <2>3, <2>5, <3>1 DEF Unbury, OutcomeOK, Outcome, Answers, Action,
                     PhysicalActions, Relocation, RelocationStacks
  <2>6. CASE o \in RestoreBlocker(w, u, aq, reloc)
    <3>1. HasOpenRelocation(u, reloc.bin)
      BY <2>3 DEF HasOpenRelocation, OpenRelocations, PeekLastRelocation
    <3>2. CASE o = Outcome(u, aq, Action("return_blocker", reloc.bin, reloc.buffer, reloc.from))
      BY <2>2, <2>3, <3>2 DEF OutcomeOK, Outcome, Answers, Action, PhysicalActions, Relocation
    <3>3. CASE \E s \in Stacks :
                 o = Outcome(UpdateReturnStack(u, reloc.bin, s), aq,
                             Action("return_blocker", reloc.bin, reloc.buffer, s))
      BY <2>2, <2>3, <3>1, <3>3, UpdateReturnStackType
         DEF OutcomeOK, Outcome, Answers, Action, PhysicalActions, Relocation
    <3> QED BY <2>6, <3>2, <3>3 DEF RestoreBlocker, RelocationStacks
  <2> QED BY <2>1, <2>4, <2>5, <2>6 DEF OrNoStack
<1> QED BY <1>1, <1>2, <1>3

\* The action chosen while a target is to be retrieved is a legal action or none.
LEMMA NextRetrieveTargetOK ==
    ASSUME NEW w, WorldOK(w), NEW q \in Requests, NEW t \in TaskType,
           NEW aq \in QueueType, NEW o \in NextRetrieveTarget(w, q, t, aq)
    PROVE  OutcomeOK(o)
<1> DEFINE b == Target[q]
           s == StackOf(w.stack, b)
           t2 == IF t.home = None THEN [t EXCEPT !.home = s] ELSE t
<1>1. b \in Bins
  BY WarehouseAssumption
<1>2. CASE s = None
  <2>1. [t EXCEPT !.removed = TRUE, !.delivered = TRUE, !.phase = "restore_blockers"]
          \in TaskType
    BY DEF TaskType, Phases
  <2>2. CASE b \in w.station
    BY <1>2, <2>1, <2>2, NextRestoreBlockersOK DEF NextRetrieveTarget
  <2>3. CASE b \notin w.station
    BY <1>2, <2>3 DEF NextRetrieveTarget, OutcomeOK, Outcome, Answers
  <2> QED BY <2>2, <2>3
<1>3. CASE s # None
  <2>1. s \in Stacks /\ Holds(w.stack, s, b)
    BY <1>3, StackOfType
  <2>2. t2 \in TaskType
    BY <2>1 DEF TaskType
  <2>3. Top(w.stack[s]) \in Bins
    BY <2>1, HoldsNonEmpty, TopType DEF WorldOK
  <2>4. CASE o = Outcome(t2, aq, Action("remove_target", b, s, None))
    BY <1>1, <2>1, <2>2, <2>4 DEF OutcomeOK, Outcome, Answers, Action, PhysicalActions
  <2>5. CASE o = Outcome(t2, aq, NoStack)
    BY <2>2, <2>5 DEF OutcomeOK, Outcome, Answers
  <2>6. CASE \E d \in Stacks :
               o = Outcome(t2, aq, Action("relocate", Top(w.stack[s]), s, d))
    BY <2>1, <2>2, <2>3, <2>6 DEF OutcomeOK, Outcome, Answers, Action, PhysicalActions
  <2> QED BY <1>3, <2>4, <2>5, <2>6 DEF NextRetrieveTarget, OrNoStack, RelocationStacks
<1> QED BY <1>2, <1>3

\* Every answer of the strategy is a task, a queue and an action: with
\* WorldOK, next_action never yields a malformed action.
LEMMA NextActionOK ==
    ASSUME NEW w, WorldOK(w), NEW q \in Requests, NEW o \in NextAction(w, q)
    PROVE  OutcomeOK(o)
<1> DEFINE t == w.task[q]
<1>1. t \in TaskType /\ w.queue \in QueueType
  BY DEF WorldOK
<1>2. CASE t.phase = "retrieve_target"
  BY <1>1, <1>2, NextRetrieveTargetOK DEF NextAction
<1>3. CASE t.phase = "restore_blockers"
  BY <1>1, <1>3, NextRestoreBlockersOK DEF NextAction
<1>4. CASE t.phase = "return_target"
  BY <1>1, <1>4, NextReturnTargetOK DEF NextAction
<1>5. CASE t.phase \in {"wait_for_pickstation", "complete"}
  BY <1>1, <1>5 DEF NextAction, OutcomeOK, Outcome, Answers
<1> QED BY <1>1, <1>2, <1>3, <1>4, <1>5 DEF TaskType, Phases

----------------------------------------------------------------------------
(* Type correctness *)

\* TypeOK in four parts: what handlers change through the strategy, the
\* physical state, the ports, and the counters.
ControlOK ==
    /\ queue \in QueueType
    /\ task \in [Requests -> TaskType]
    /\ robotTask \in [Robots -> Requests \cup {None}]
    /\ IsABag(events) /\ BagToSet(events) \subseteq Event
    /\ completions \subseteq Robots \X Requests
    /\ pc \in {"handle", "schedule", "schedule_new", "failed", "no_stack"}

BinsOK ==
    /\ carried \in [Robots -> Bins \cup {None}]
    /\ stack \in [Stacks -> Seq(Bins)]
    /\ status \in [Bins -> {"stored", "at_pickstation"}]
    /\ moving \subseteq Bins

PortsOK ==
    /\ line \in [Stations -> Seq(Requests)]
    /\ serving \in [Stations -> SUBSET Requests]

CountersOK ==
    /\ arrived \in 0 .. NumRequests
    /\ done \subseteq Requests
    /\ requeues \in 0 .. MaxRequeues

\* The type invariant is the conjunction of its parts, so a step may be checked part by part.
LEMMA TypeOKParts ==
    /\ TypeOK  <=> ControlOK  /\ BinsOK  /\ PortsOK  /\ CountersOK
    /\ TypeOK' <=> ControlOK' /\ BinsOK' /\ PortsOK' /\ CountersOK'
BY DEF TypeOK, ControlOK, BinsOK, PortsOK, CountersOK

\* The parts a step leaves alone stay well typed.
LEMMA BinsFrame == BinsOK /\ UNCHANGED bins => BinsOK'
BY DEF BinsOK, bins

\* Steps that leave the ports alone keep their part of the type invariant.
LEMMA PortsFrame == PortsOK /\ UNCHANGED ports => PortsOK'
BY DEF PortsOK, ports

\* Steps that leave the counters alone keep their part of the type invariant.
LEMMA CountersFrame == CountersOK /\ UNCHANGED <<arrived, done, requeues>> => CountersOK'
BY DEF CountersOK

EventsOK(evs) == IsABag(evs) /\ BagToSet(evs) \subseteq Event

\* Cancelling the events of a robot leaves well-formed events.
LEMMA DropEventsOK ==
    ASSUME NEW evs, EventsOK(evs), NEW e
    PROVE  EventsOK(Drop(evs, e))
BY DropType DEF EventsOK

\* Scheduling one well-formed event leaves well-formed events.
LEMMA PushEventsOK ==
    ASSUME NEW evs, EventsOK(evs), NEW k \in {"pickup", "drop"}, NEW r \in Robots,
           NEW q \in Requests, NEW a \in PhysicalActions
    PROVE  EventsOK(Push(evs, k, r, q, a))
<1>1. [kind |-> k, robot |-> r, request |-> q, act |-> a] \in Event
  BY DEF Event
<1> QED BY <1>1, PushType DEF EventsOK

\* The physical actions are the ones the handler schedules a PICKUP for.
LEMMA PhysicalAnswers ==
    ASSUME NEW a \in Answers
    PROVE  IsPhysical(a) <=> a \in PhysicalActions
BY DEF Answers, PhysicalActions, CompleteActions, IsPhysical, IsRelocate, IsReturn,
       NoAction, Raise, NoStack, Action

\* A world built from well-typed parts is one the strategy can work with.
LEMMA WorldIsOK ==
    ASSUME NEW tasks \in [Requests -> TaskType], NEW aq \in QueueType,
           NEW stk \in [Stacks -> Seq(Bins)], NEW stat, NEW mov
    PROVE  /\ WorldOK(World(tasks, aq, stk, stat, mov))
           /\ World(tasks, aq, stk, stat, mov).task = tasks
BY DEF WorldOK, World

\* Carrying out an outcome keeps the control state well typed.
LEMMA CarryOK ==
    ASSUME ControlOK, NEW w, WorldOK(w), NEW r \in Robots, NEW q \in Requests,
           NEW o, OutcomeOK(o), NEW evs, EventsOK(evs),
           NEW next \in {"handle", "schedule", "schedule_new"},
           Carry(w, r, q, o, evs, next)
    PROVE  ControlOK'
<1>1. task' \in [Requests -> TaskType]
  BY DEF Carry, WorldOK, OutcomeOK
<1>2. queue' \in QueueType
  BY AddWaitingTaskType DEF Carry, OutcomeOK
<1>3. robotTask' \in [Robots -> Requests \cup {None}]
  BY DEF Carry, ControlOK
<1>4. EventsOK(events')
  BY PhysicalAnswers, PushEventsOK DEF Carry, OutcomeOK
<1>5. completions' \subseteq Robots \X Requests
  BY DEF Carry, ControlOK
<1>6. pc' \in {"handle", "schedule", "schedule_new", "failed", "no_stack"}
  BY DEF Carry, PcAfter
<1> QED BY <1>1, <1>2, <1>3, <1>4, <1>5, <1>6 DEF ControlOK, EventsOK

\* What the scheduler creates for a task's next action is well formed.
LEMMA ScheduleNextOK ==
    ASSUME ControlOK, NEW w, WorldOK(w), NEW r \in Robots, NEW q \in Requests,
           NEW evs, EventsOK(evs), ScheduleNext(w, r, q, evs)
    PROVE  ControlOK'
<1>1. PICK o \in NextAction(w, q) : Carry(w, r, q, o, evs, "handle")
  BY DEF ScheduleNext
<1> QED BY <1>1, NextActionOK, CarryOK

\* Taking an event off the list keeps robots and queue well formed.
LEMMA DiscardOK ==
    ASSUME ControlOK, NEW e, Discard(e)
    PROVE  ControlOK'
<1>1. EventsOK(events')
  BY DropEventsOK DEF Discard, ControlOK, EventsOK
<1> QED BY <1>1 DEF Discard, ControlOK, EventsOK

\* Returning the task of a victim to the queue keeps robots and queue well formed.
LEMMA RequeueOK ==
    ASSUME ControlOK, CountersOK, NEW r \in Robots, robotTask[r] # None,
           NEW tasks \in [Requests -> TaskType], NEW aq \in QueueType,
           NEW evs, EventsOK(evs), Requeue(r, tasks, aq, evs)
    PROVE  /\ ControlOK'
           /\ requeues' \in 0 .. MaxRequeues
<1>1. robotTask[r] \in Requests
  BY DEF ControlOK
<1>2. queue' \in QueueType
  BY <1>1, AddWaitingTaskType DEF Requeue
<1>3. requeues' \in 0 .. MaxRequeues
  BY LifecycleAssumption DEF Requeue, CountersOK
<1> QED BY <1>2, <1>3 DEF Requeue, ControlOK, EventsOK

\* What the strategy sees now.
LEMMA NowOK ==
    ASSUME ControlOK, BinsOK
    PROVE  WorldOK(Now)
BY WorldIsOK DEF Now, ControlOK, BinsOK

\* The arrival of a request keeps the types.
LEMMA ArrivalType == TypeOK /\ Arrival => TypeOK'
<1> SUFFICES ASSUME TypeOK, Arrival PROVE TypeOK'
  OBVIOUS
<1>1. arrived + 1 \in Requests
  BY WarehouseAssumption DEF TypeOK, Arrival, Requests
<1>2. queue' \in QueueType
  BY <1>1, AddType DEF TypeOK, Arrival
<1> QED BY <1>1, <1>2 DEF TypeOK, Arrival, bins, ports, Requests

\* Handing a waiting request back to a robot keeps the types.
LEMMA ScheduleWaitingType ==
    ASSUME TypeOK, NEW r \in Robots, NEW i \in DOMAIN queue.waiting,
           ScheduleWaiting(r, i)
    PROVE  TypeOK'
<1> DEFINE q == queue.waiting[i]
           popped == [queue EXCEPT !.waiting = SubSeq(queue.waiting, i + 1, Len(queue.waiting))]
           w == World(task, MarkTaskAssigned(popped, q, r), stack, status, moving)
<1>1. queue.waiting \in Seq(Requests) /\ q \in Requests
  BY ElementOfSeq, LenProperties DEF TypeOK, QueueType
<1>2. SubSeq(queue.waiting, i + 1, Len(queue.waiting)) \in Seq(Requests)
  BY <1>1, SubSeqProperties, LenProperties
<1>3. popped \in QueueType
  BY <1>2 DEF TypeOK, QueueType
<1>4. WorldOK(w)
  BY <1>1, <1>3, MarkTaskAssignedType, WorldIsOK DEF TypeOK
<1>5. PICK o \in NextAction(w, q) :
         Carry(w, r, q, o, events, IF o.act = NoAction THEN "schedule_new" ELSE "schedule")
  BY DEF ScheduleWaiting
<1>6. OutcomeOK(o)
  BY <1>1, <1>4, NextActionOK
<1>7. ControlOK'
  BY <1>1, <1>4, <1>5, <1>6, CarryOK, TypeOKParts DEF ControlOK, EventsOK
<1>8. UNCHANGED <<bins, ports, arrived, done, requeues>>
  BY DEF ScheduleWaiting
<1> QED BY <1>7, <1>8, TypeOKParts, BinsFrame, PortsFrame, CountersFrame

\* Handing a new request to a robot keeps the types.
LEMMA ScheduleNewType ==
    ASSUME TypeOK, NEW r \in Robots, NEW i \in DOMAIN queue.pending,
           ScheduleNew(r, i)
    PROVE  TypeOK'
<1> DEFINE q == queue.pending[i]
           aq == [queue EXCEPT !.pending = RemoveAt(queue.pending, i),
                               !.waiting = WaitingAfterSearch]
           w == World(task, MarkAssigned(aq, q, r), stack, status, moving)
<1>1. queue.pending \in Seq(Requests) /\ q \in Requests
  BY ElementOfSeq, LenProperties DEF TypeOK, QueueType
<1>2. RemoveAt(queue.pending, i) \in Seq(Requests) /\ WaitingAfterSearch \in Seq(Requests)
  BY <1>1, RemoveAtType, EmptySeq DEF WaitingAfterSearch, TypeOK, QueueType
<1>3. aq \in QueueType
  BY <1>2 DEF TypeOK, QueueType
<1>4. WorldOK(w)
  BY <1>1, <1>3, MarkAssignedType, WorldIsOK DEF TypeOK
<1>5. PICK o \in NextAction(w, q) :
         Carry(w, r, q, o, events, IF o.act = NoAction THEN "handle" ELSE "schedule")
  BY DEF ScheduleNew
<1>6. OutcomeOK(o)
  BY <1>1, <1>4, NextActionOK
<1>7. ControlOK'
  BY <1>1, <1>4, <1>5, <1>6, CarryOK, TypeOKParts DEF ControlOK, EventsOK
<1>8. UNCHANGED <<bins, ports, arrived, done, requeues>>
  BY DEF ScheduleNew
<1> QED BY <1>7, <1>8, TypeOKParts, BinsFrame, PortsFrame, CountersFrame

\* Handing the return of a served bin to a robot keeps the types.
LEMMA ScheduleDoneType == TypeOK /\ ScheduleDone => TypeOK'
<1> SUFFICES ASSUME TypeOK, ScheduleDone PROVE TypeOK'
  OBVIOUS
<1>1. queue' \in QueueType
  <2>1. WaitingAfterSearch \in Seq(Requests)
    BY EmptySeq DEF WaitingAfterSearch, TypeOK, QueueType
  <2> QED BY <2>1 DEF ScheduleDone, TypeOK, QueueType
<1>2. ControlOK'
  BY <1>1, TypeOKParts DEF ScheduleDone, ControlOK
<1>3. UNCHANGED <<bins, ports, arrived, done, requeues>>
  BY DEF ScheduleDone
<1> QED BY <1>2, <1>3, TypeOKParts, BinsFrame, PortsFrame, CountersFrame

\* An event in the bag has the fields its kind promises.
LEMMA EventFields ==
    ASSUME TypeOK, NEW e \in BagToSet(events)
    PROVE  /\ e \in Event /\ e.robot \in Robots /\ e.request \in Requests
           /\ e.kind \in {"pickup", "drop"} => e.act \in PhysicalActions
           /\ EventsOK(Drop(events, e))
BY DropEventsOK DEF TypeOK, Event, EventsOK

\* A pickup that takes the bin keeps the types.
LEMMA PickupSucceedsType ==
    ASSUME TypeOK, NEW e \in BagToSet(events), e.kind = "pickup",
           robotTask[e.robot] = e.request, CanPickup(e.act), PickupSucceeds(e)
    PROVE  ControlOK' /\ BinsOK' /\ UNCHANGED requeues
<1> DEFINE r == e.robot
           b == e.act.bin
           tasks == TasksAfterPickup(r, b)
<1>1. /\ e.act \in PhysicalActions /\ r \in Robots /\ e.request \in Requests
      /\ EventsOK(Drop(events, e)) /\ b \in Bins
      /\ e.act.from \in Stacks \cup {None}
  BY EventFields DEF PhysicalActions
<1>2. tasks \in [Requests -> TaskType]
  <2>1. queue.owner[b] \in Requests \cup {None}
    BY <1>1 DEF TypeOK, QueueType
  <2>2. CASE ForeignOwner(r, b) /\ HasOpenRelocation(task[queue.owner[b]], b)
    <3>1. queue.owner[b] \in Requests
      BY <2>1, <2>2 DEF ForeignOwner
    <3>2. ForgetRelocation(task[queue.owner[b]], b) \in TaskType
      BY <2>2, <3>1, ForgetRelocationType DEF TypeOK
    <3> QED BY <2>2, <3>1, <3>2 DEF TasksAfterPickup, TypeOK
  <2>3. CASE ~(ForeignOwner(r, b) /\ HasOpenRelocation(task[queue.owner[b]], b))
    BY <2>3 DEF TasksAfterPickup, TypeOK
  <2> QED BY <2>2, <2>3
<1>3. task' \in [Requests -> TaskType]
  <2>1. CASE e.act.type = "remove_target"
    <3>1. PICK p \in Stations : task' = [tasks EXCEPT ![robotTask[r]].station = p]
      BY <2>1 DEF PickupSucceeds
    <3>2. robotTask[r] \in Requests
      BY <1>1
    <3>3. [tasks[robotTask[r]] EXCEPT !.station = p] \in TaskType
      BY <1>2, <3>2, FieldTypes
    <3> QED BY <1>2, <3>1, <3>2, <3>3
  <2>2. CASE e.act.type # "remove_target"
    BY <1>2, <2>2 DEF PickupSucceeds
  <2> QED BY <2>1, <2>2
<1>4. queue' \in QueueType
  BY <1>1, BlockerOwnershipType DEF PickupSucceeds, QueueAfterPickup, TypeOK
<1>5. EventsOK(events')
  BY <1>1, PushEventsOK DEF PickupSucceeds
<1>6. stack' \in [Stacks -> Seq(Bins)]
  <2>1. CASE e.act.from = None
    BY <2>1 DEF PickupSucceeds, StackAfterPickup, TypeOK
  <2>2. CASE e.act.from # None
    <3>1. e.act.from \in Stacks /\ stack[e.act.from] \in Seq(Bins)
      BY <1>1, <2>2 DEF TypeOK
    <3>2. Front(stack[e.act.from]) \in Seq(Bins)
      <4>1. stack[e.act.from] # <<>>
        BY <2>2 DEF CanPickup, OnTop
      <4>2. Len(stack[e.act.from]) \in Nat \ {0}
        BY <3>1, <4>1, EmptySeq, LenProperties
      <4> QED BY <3>1, <4>2, SubSeqProperties DEF Front
    <3> QED BY <2>2, <3>1, <3>2 DEF PickupSucceeds, StackAfterPickup, TypeOK
  <2> QED BY <2>1, <2>2
<1>7. BinsOK'
  BY <1>1, <1>6 DEF PickupSucceeds, BinsOK, TypeOK
<1> QED BY <1>3, <1>4, <1>5, <1>7 DEF PickupSucceeds, ControlOK, TypeOK, EventsOK

\* A pickup that finds its bin covered keeps the types.
LEMMA PickupNotOnTopType ==
    ASSUME TypeOK, NEW e \in BagToSet(events), e.kind = "pickup",
           robotTask[e.robot] = e.request, PickupNotOnTop(e)
    PROVE  ControlOK' /\ requeues' \in 0 .. MaxRequeues
<1> DEFINE r == e.robot
           q == e.request
<1>1. r \in Robots /\ q \in Requests /\ EventsOK(Drop(events, e)) /\ ControlOK /\ BinsOK
      /\ CountersOK
  BY EventFields, TypeOKParts
<1>2. PICK o \in NextAction(Now, q) :
        LET tasks == [task EXCEPT ![q] = o.task] IN
        \/ /\ o.act = NoAction
           /\ task' = tasks
           /\ queue' = o.queue
           /\ UNCHANGED <<robotTask, events, completions, pc, requeues>>
        \/ /\ o.act # NoAction
           /\ Carry(Now, r, q, o, Drop(events, e), "handle")
           /\ UNCHANGED requeues
        \/ /\ o.act \in {e.act, NoAction}
           /\ Requeue(r, tasks, o.queue, Drop(events, e))
  BY DEF PickupNotOnTop
<1> DEFINE tasks == [task EXCEPT ![q] = o.task]
<1>3. WorldOK(Now) /\ OutcomeOK(o) /\ tasks \in [Requests -> TaskType]
  <2>1. WorldOK(Now) /\ OutcomeOK(o)
    BY <1>1, NowOK, NextActionOK
  <2> QED BY <2>1 DEF OutcomeOK, TypeOK
<1>4. CASE /\ task' = tasks /\ queue' = o.queue
           /\ UNCHANGED <<robotTask, events, completions, pc, requeues>>
  BY <1>1, <1>3, <1>4 DEF ControlOK, CountersOK, OutcomeOK
<1>5. CASE Carry(Now, r, q, o, Drop(events, e), "handle") /\ UNCHANGED requeues
  BY <1>1, <1>3, <1>5, CarryOK DEF CountersOK
<1>6. CASE Requeue(r, tasks, o.queue, Drop(events, e))
  <2>1. robotTask[r] # None
    BY <1>1, WarehouseAssumption
  <2> QED BY <1>1, <1>3, <1>6, <2>1, RequeueOK DEF OutcomeOK
<1> QED BY <1>2, <1>4, <1>5, <1>6

\* The pickup handler keeps the types, whichever way it ends.
LEMMA PickupType ==
    ASSUME TypeOK, NEW e \in BagToSet(events), Pickup(e)
    PROVE  TypeOK'
<1> DEFINE r == e.robot
           q == e.request
<1>1. /\ e.kind = "pickup" /\ e.act \in PhysicalActions
      /\ r \in Robots /\ q \in Requests /\ EventsOK(Drop(events, e))
      /\ ControlOK /\ BinsOK /\ PortsOK /\ CountersOK /\ WorldOK(Now)
  BY EventFields, TypeOKParts, NowOK DEF Pickup
<1>2. UNCHANGED <<ports, arrived, done>>
  BY DEF Pickup
<1> SUFFICES ControlOK' /\ BinsOK' /\ requeues' \in 0 .. MaxRequeues
  BY <1>1, <1>2, TypeOKParts, PortsFrame DEF CountersOK
<1>3. CASE /\ events' = Push(Drop(events, e), "drop", r, q, e.act)
           /\ UNCHANGED <<queue, task, robotTask, bins, completions, pc, requeues>>
  <2>1. EventsOK(events')
    BY <1>1, <1>3, PushEventsOK
  <2> QED BY <1>1, <1>3, <2>1, BinsFrame DEF ControlOK, EventsOK, CountersOK
<1>4. CASE ScheduleNext(Now, r, q, Drop(events, e)) /\ UNCHANGED <<bins, requeues>>
  BY <1>1, <1>4, ScheduleNextOK, BinsFrame DEF CountersOK
<1>5. CASE Discard(e) /\ UNCHANGED <<bins, requeues>>
  BY <1>1, <1>5, DiscardOK, BinsFrame DEF CountersOK
<1>6. CASE robotTask[r] = q /\ CanPickup(e.act) /\ PickupSucceeds(e)
  BY <1>1, <1>6, PickupSucceedsType DEF CountersOK
<1>7. CASE robotTask[r] = q /\ PickupNotOnTop(e) /\ UNCHANGED bins
  BY <1>1, <1>7, PickupNotOnTopType, BinsFrame
<1>8. CASE robotTask[r] = q /\ Requeue(r, task, queue, Drop(events, e)) /\ UNCHANGED bins
  <2>1. robotTask[r] # None
    BY <1>1, <1>8, WarehouseAssumption
  <2> QED BY <1>1, <1>8, <2>1, RequeueOK, BinsFrame DEF ControlOK
<1> QED BY <1>3, <1>4, <1>5, <1>6, <1>7, <1>8 DEF Pickup

\* Putting a bin down on a stack.
LEMMA PutDownType ==
    ASSUME TypeOK, NEW e \in BagToSet(events), e.act \in PhysicalActions,
           e.act.type # "remove_target"
    PROVE  /\ StackAfterDrop(e) \in [Stacks -> Seq(Bins)]
           /\ StatusAfterDrop(e) \in [Bins -> {"stored", "at_pickstation"}]
           /\ PutDown(e) => BinsOK'
<1>1. e.act.to \in Stacks /\ e.act.bin \in Bins
  BY DEF PhysicalActions
<1>2. StackAfterDrop(e) \in [Stacks -> Seq(Bins)]
  BY <1>1, AppendProperties DEF StackAfterDrop, TypeOK
<1>3. StatusAfterDrop(e) \in [Bins -> {"stored", "at_pickstation"}]
  BY DEF StatusAfterDrop, TypeOK
<1> QED BY <1>1, <1>2, <1>3 DEF PutDown, LoadCleared, BinsOK, TypeOK

\* Setting a relocated blocker down keeps the types.
LEMMA DropRelocatedType ==
    ASSUME TypeOK, NEW e \in BagToSet(events), e.act \in PhysicalActions,
           IsRelocate(e.act), robotTask[e.robot] # None, DropRelocated(e)
    PROVE  ControlOK' /\ BinsOK' /\ UNCHANGED ports
<1> DEFINE r == e.robot
           q == robotTask[r]
           b == e.act.bin
           w == IF e.act.type = "unbury" THEN WorldAfterDrop(e, task, queue)
                ELSE WorldAfterDrop(e,
                       [task EXCEPT ![q] = RememberRelocation(@, b, e.act.from, e.act.to)],
                       RegisterBlocker(queue, b, q))
<1>1. /\ r \in Robots /\ q \in Requests /\ b \in Bins
      /\ e.act.from \in Stacks /\ e.act.to \in Stacks /\ e.act.type # "remove_target"
      /\ EventsOK(Drop(events, e)) /\ ControlOK
  BY EventFields, TypeOKParts DEF PhysicalActions, IsRelocate, TypeOK
<1>2. BinsOK' /\ UNCHANGED ports
  BY <1>1, PutDownType DEF DropRelocated
<1>3. WorldOK(w)
  <2>1. [task EXCEPT ![q] = RememberRelocation(@, b, e.act.from, e.act.to)]
          \in [Requests -> TaskType]
    BY <1>1, RememberRelocationType DEF TypeOK
  <2>2. RegisterBlocker(queue, b, q) \in QueueType
    BY <1>1, BlockerOwnershipType DEF TypeOK
  <2> QED BY <1>1, <2>1, <2>2, PutDownType, WorldIsOK DEF WorldAfterDrop, TypeOK
<1>4. ScheduleNext(w, r, q, Drop(events, e))
  BY DEF DropRelocated
<1> QED BY <1>1, <1>2, <1>3, <1>4, ScheduleNextOK

\* Restoring a blocker keeps the types.
LEMMA DropBlockerType ==
    ASSUME TypeOK, NEW e \in BagToSet(events), e.act \in PhysicalActions,
           e.act.type = "return_blocker", robotTask[e.robot] # None, DropBlocker(e)
    PROVE  ControlOK' /\ BinsOK' /\ UNCHANGED ports
<1> DEFINE r == e.robot
           q == robotTask[r]
           b == e.act.bin
           w == WorldAfterDrop(e, [task EXCEPT ![q] = MarkLastRelocationRestored(@, b)],
                               ReleaseBlocker(queue, b))
<1>1. /\ r \in Robots /\ q \in Requests /\ b \in Bins /\ e.act.type # "remove_target"
      /\ EventsOK(Drop(events, e)) /\ ControlOK
  BY EventFields, TypeOKParts DEF PhysicalActions, TypeOK
<1>2. BinsOK' /\ UNCHANGED ports
  BY <1>1, PutDownType DEF DropBlocker
<1>3. WorldOK(w)
  <2>1. [task EXCEPT ![q] = MarkLastRelocationRestored(@, b)] \in [Requests -> TaskType]
    BY <1>1, MarkLastRelocationRestoredType DEF TypeOK
  <2>2. ReleaseBlocker(queue, b) \in QueueType
    BY <1>1, BlockerOwnershipType DEF TypeOK
  <2> QED BY <1>1, <2>1, <2>2, PutDownType, WorldIsOK DEF WorldAfterDrop
<1>4. CASE /\ pc' = "failed"
           /\ UNCHANGED <<queue, task, robotTask, events, completions>>
  BY <1>1, <1>2, <1>4 DEF ControlOK
<1>5. CASE ScheduleNext(w, r, q, Drop(events, e))
  BY <1>1, <1>2, <1>3, <1>5, ScheduleNextOK
<1> QED BY <1>4, <1>5 DEF DropBlocker

\* Setting the target back in storage keeps the types.
LEMMA DropTargetType ==
    ASSUME TypeOK, NEW e \in BagToSet(events), e.act \in PhysicalActions,
           e.act.type = "return_target", robotTask[e.robot] # None, DropTarget(e)
    PROVE  ControlOK' /\ BinsOK' /\ UNCHANGED ports
<1> DEFINE r == e.robot
           q == robotTask[r]
<1>1. /\ r \in Robots /\ q \in Requests /\ e.act.to \in Stacks
      /\ e.act.type # "remove_target" /\ EventsOK(Drop(events, e)) /\ ControlOK
  BY EventFields, TypeOKParts DEF PhysicalActions, TypeOK
<1>2. BinsOK' /\ UNCHANGED ports
  BY <1>1, PutDownType DEF DropTarget
<1>3. CASE Discard(e)
  BY <1>1, <1>2, <1>3, DiscardOK
<1>4. CASE /\ task' = [task EXCEPT ![q] =
                           MarkTargetReturned([@ EXCEPT !.actual = e.act.to])]
           /\ completions' = completions \cup {<<r, q>>}
           /\ events' = Drop(events, e)
           /\ pc' = IF task[q].removed THEN "handle" ELSE "failed"
           /\ UNCHANGED <<queue, robotTask>>
  <2>1. MarkTargetReturned([task[q] EXCEPT !.actual = e.act.to]) \in TaskType
    BY <1>1, FieldTypes DEF TypeOK
  <2>2. task' \in [Requests -> TaskType]
    BY <1>1, <1>4, <2>1 DEF TypeOK
  <2> QED BY <1>1, <1>2, <1>4, <2>2 DEF ControlOK, EventsOK
<1> QED BY <1>3, <1>4 DEF DropTarget

\* Starting the service of a bin at a port keeps the types.
LEMMA StartServiceType ==
    ASSUME NEW l \in [Stations -> Seq(Requests)],
           NEW srv \in [Stations -> SUBSET Requests], NEW p \in Stations,
           StartService(l, srv, p) \/ NoStart(l, srv, p)
    PROVE  PortsOK'
<1>1. CASE StartService(l, srv, p) /\ Starts(l, srv, p)
  <2>1. l[p] \in Seq(Requests) /\ l[p] # <<>>
    BY <1>1 DEF Starts
  <2>2. Head(l[p]) \in Requests /\ Tail(l[p]) \in Seq(Requests)
    BY <2>1, HeadTailProperties
  <2> QED BY <1>1, <2>2 DEF StartService, PortsOK
<1>2. CASE NoStart(l, srv, p) \/ (StartService(l, srv, p) /\ ~Starts(l, srv, p))
  BY <1>2 DEF StartService, NoStart, PortsOK
<1> QED BY <1>1, <1>2

\* Setting the target down at a port keeps the types.
LEMMA DropAtPortType ==
    ASSUME TypeOK, NEW e \in BagToSet(events), e.act \in PhysicalActions, DropAtPort(e)
    PROVE  ControlOK' /\ BinsOK' /\ PortsOK'
<1> DEFINE r == e.robot
           q == robotTask[r]
           p == IF task[q].station # None THEN task[q].station
                ELSE CHOOSE s \in Stations : TRUE
           batch == queue.waitlist[Target[q]]
           l == [line EXCEPT ![p] = Append(@, q)]
<1>1. /\ r \in Robots /\ q \in Requests \cup {None} /\ e.act.bin \in Bins
      /\ EventsOK(Drop(events, e)) /\ ControlOK /\ PortsOK
  BY EventFields, TypeOKParts DEF PhysicalActions, TypeOK
<1>2. BinsOK'
  BY <1>1 DEF DropAtPort, LoadCleared, BinsOK, TypeOK
<1>3. CASE q = None
  BY <1>1, <1>2, <1>3 DEF DropAtPort, ControlOK, EventsOK, PortsOK, ports
<1>4. CASE q # None
  <2>1. q \in Requests /\ Target[q] \in Bins /\ task[q] \in TaskType
    BY <1>1, <1>4, WarehouseAssumption DEF TypeOK
  <2>2. p \in Stations
    BY <2>1, WarehouseAssumption DEF TaskType
  <2>3. l \in [Stations -> Seq(Requests)]
    BY <2>1, <2>2, AppendProperties DEF TypeOK
  <2>4. /\ task' = [task EXCEPT ![q] = MarkWaitingAtPickstation(
                                        AddBatchedRequests(@, ToSet(batch)))]
        /\ queue' = AddPickstationTask(PopBatchWaitlist(queue, Target[q]), q)
        /\ robotTask' = [robotTask EXCEPT ![r] = None]
        /\ events' = Drop(events, e)
        /\ StartService(l, serving, p) \/ NoStart(l, serving, p)
        /\ UNCHANGED <<pc, completions>>
    BY <1>4 DEF DropAtPort
  <2>5. PortsOK'
    BY <2>2, <2>3, <2>4, StartServiceType DEF TypeOK
  <2>6. task' \in [Requests -> TaskType]
    <3>1. ToSet(batch) \subseteq Requests
      BY <2>1, ToSetType DEF TypeOK, QueueType
    <3>2. AddBatchedRequests(task[q], ToSet(batch)) \in TaskType
      BY <2>1, <3>1, FieldTypes
    <3>3. MarkWaitingAtPickstation(AddBatchedRequests(task[q], ToSet(batch))) \in TaskType
      BY <3>2, FieldTypes
    <3> QED BY <2>1, <2>4, <3>3 DEF TypeOK
  <2>7. queue' \in QueueType
    BY <2>1, <2>4, BlockerOwnershipType, AddPickstationTaskType DEF TypeOK
  <2> QED BY <1>1, <1>2, <2>4, <2>5, <2>6, <2>7 DEF ControlOK, EventsOK
<1> QED BY <1>3, <1>4

\* Each of the outcomes of a drop keeps the types.
LEMMA DropEffectType ==
    ASSUME TypeOK, NEW e \in BagToSet(events), e.act \in PhysicalActions, DropEffect(e)
    PROVE  ControlOK' /\ BinsOK' /\ PortsOK'
<1>1. PortsOK /\ ControlOK
  BY TypeOKParts
<1>2. CASE e.act.type = "remove_target" /\ DropAtPort(e)
  BY <1>2, DropAtPortType
<1>3. CASE e.act.type # "remove_target" /\ DropWithoutTask(e)
  BY <1>1, <1>3, PutDownType, DiscardOK, PortsFrame DEF DropWithoutTask
<1>4. CASE robotTask[e.robot] # None /\ IsRelocate(e.act) /\ DropRelocated(e)
  BY <1>1, <1>4, DropRelocatedType, PortsFrame
<1>5. CASE robotTask[e.robot] # None /\ e.act.type = "return_blocker" /\ DropBlocker(e)
  BY <1>1, <1>5, DropBlockerType, PortsFrame
<1>6. CASE robotTask[e.robot] # None /\ e.act.type = "return_target" /\ DropTarget(e)
  BY <1>1, <1>6, DropTargetType, PortsFrame
<1>7. \/ e.act.type = "remove_target"
      \/ robotTask[e.robot] = None /\ e.act.type # "remove_target"
      \/ robotTask[e.robot] # None /\ IsRelocate(e.act)
      \/ robotTask[e.robot] # None /\ e.act.type = "return_blocker"
      \/ robotTask[e.robot] # None /\ e.act.type = "return_target"
  BY DEF PhysicalActions, IsRelocate
<1> QED BY <1>2, <1>3, <1>4, <1>5, <1>6, <1>7 DEF DropEffect, IsRelocate

\* A redirected drop is a drop of the same kind onto another stack.
LEMMA RedirectedType ==
    ASSUME TypeOK, NEW e \in BagToSet(events), e.act \in PhysicalActions,
           e.act.type # "remove_target", NEW s \in Stacks
    PROVE  EventsOK(Redirected(e, s))
<1>1. [e.act EXCEPT !.to = s] \in PhysicalActions
  BY DEF PhysicalActions
<1> QED BY <1>1, EventFields, PushEventsOK DEF Redirected

\* The drop handler keeps the types.
LEMMA HandleDropType ==
    ASSUME TypeOK, NEW e \in BagToSet(events), HandleDrop(e)
    PROVE  TypeOK'
<1> DEFINE r == e.robot
           q == robotTask[r]
<1>1. /\ e.kind = "drop" /\ e.act \in PhysicalActions
      /\ r \in Robots /\ q \in Requests \cup {None} /\ EventsOK(Drop(events, e))
      /\ ControlOK /\ BinsOK /\ PortsOK /\ CountersOK /\ WorldOK(Now)
  BY EventFields, TypeOKParts, NowOK DEF HandleDrop, ControlOK
<1>2. UNCHANGED <<arrived, done, requeues>>
  BY DEF HandleDrop
<1> SUFFICES ControlOK' /\ BinsOK' /\ PortsOK'
  BY <1>1, <1>2, TypeOKParts, CountersFrame
<1>3. CASE /\ ScheduleNext(Now, r, q, Drop(events, e)) /\ q # None
           /\ UNCHANGED <<bins, ports>>
  BY <1>1, <1>3, ScheduleNextOK, BinsFrame, PortsFrame
<1>4. CASE Discard(e) /\ UNCHANGED <<bins, ports>>
  BY <1>1, <1>4, DiscardOK, BinsFrame, PortsFrame
<1>5. CASE /\ \E s \in RedirectStacks(e) : events' = Redirected(e, s)
           /\ UNCHANGED <<queue, task, robotTask, bins, ports, completions, pc>>
  <2>1. PICK s \in RedirectStacks(e) : events' = Redirected(e, s)
    BY <1>5
  <2>2. s \in Stacks
    BY <2>1 DEF RedirectStacks, RelocationStacks, ReturnStacks
  <2>3. e.act.type # "remove_target"
    BY <2>1 DEF RedirectStacks, IsRelocate
  <2> QED BY <1>1, <1>5, <2>1, <2>2, <2>3, RedirectedType, BinsFrame, PortsFrame
          DEF ControlOK, EventsOK
<1>6. CASE FullOnDrop(e) /\ RedirectBlockedDrop(e)
  <2>1. PICK s \in Stacks :
           /\ IF q # None /\ e.act.type = "return_blocker"
              THEN /\ HasOpenRelocation(task[q], e.act.bin)
                   /\ task' = [task EXCEPT ![q] = UpdateReturnStack(@, e.act.bin, s)]
              ELSE task' = task
           /\ events' = Redirected(e, s)
           /\ UNCHANGED <<queue, robotTask, bins, ports, completions, pc>>
    BY <1>6 DEF RedirectBlockedDrop, RelocationStacks
  <2>2. e.act.type # "remove_target"
    BY <1>1, <1>6, WarehouseAssumption DEF FullOnDrop, PhysicalActions
  <2>3. task' \in [Requests -> TaskType]
    BY <1>1, <2>1, UpdateReturnStackType DEF ControlOK
  <2> QED BY <1>1, <2>1, <2>2, <2>3, RedirectedType, BinsFrame, PortsFrame
          DEF ControlOK, EventsOK
<1>7. CASE DropEffect(e)
  BY <1>1, <1>7, DropEffectType
<1>8. OutdatedReturn(e) => q # None
  BY DEF OutdatedReturn
<1> QED BY <1>3, <1>4, <1>5, <1>6, <1>7, <1>8 DEF HandleDrop

\* A robot action event keeps the types, pickup or drop.
LEMMA RobotActionType ==
    ASSUME TypeOK, NEW e \in BagToSet(events), RobotAction(e)
    PROVE  TypeOK'
<1> DEFINE r == e.robot
           q == robotTask[r]
<1>1. /\ r \in Robots /\ q \in Requests \cup {None} /\ EventsOK(Drop(events, e))
      /\ ControlOK /\ BinsOK /\ PortsOK /\ CountersOK /\ WorldOK(Now)
  BY EventFields, TypeOKParts, NowOK DEF ControlOK
<1>2. UNCHANGED <<bins, ports, arrived, done>>
  BY DEF RobotAction
<1> SUFFICES ControlOK' /\ requeues' \in 0 .. MaxRequeues
  BY <1>1, <1>2, TypeOKParts, BinsFrame, PortsFrame DEF CountersOK
<1>3. CASE q # None /\ ScheduleNext(Now, r, q, Drop(events, e)) /\ UNCHANGED requeues
  BY <1>1, <1>3, ScheduleNextOK DEF CountersOK
<1>4. CASE Discard(e) /\ UNCHANGED requeues
  BY <1>1, <1>4, DiscardOK DEF CountersOK
<1>5. CASE q # None /\ Requeue(r, task, queue, Drop(events, e))
  BY <1>1, <1>5, RequeueOK DEF ControlOK
<1> QED BY <1>3, <1>4, <1>5 DEF RobotAction

\* The end of a service at a port keeps the types.
LEMMA PickstationCompleteType ==
    ASSUME TypeOK, NEW p \in Stations, NEW q \in Requests, PickstationComplete(p, q)
    PROVE  TypeOK'
<1> DEFINE aq == MarkPickstationTaskCompleted(queue, q)
           fetch == Action("pickup_from_pickstation", Target[q], None, None)
<1>1. ControlOK /\ BinsOK /\ PortsOK /\ CountersOK /\ Target[q] \in Bins
  BY TypeOKParts, WarehouseAssumption
<1>2. PortsOK'
  <2>1. EndService(serving, p, q) \in [Stations -> SUBSET Requests]
    BY <1>1 DEF PortsOK, EndService
  <2> QED BY <1>1, <2>1, StartServiceType DEF PickstationComplete, PortsOK
<1>3. task' \in [Requests -> TaskType]
  BY <1>1, FieldTypes DEF PickstationComplete, ControlOK
<1>4. aq \in QueueType
  BY <1>1, MarkPickstationTaskCompletedType DEF ControlOK
<1>5. ControlOK'
  <2>1. CASE queue' = aq /\ UNCHANGED <<robotTask, events>>
    BY <1>1, <1>3, <1>4, <2>1 DEF PickstationComplete, ControlOK
  <2>2. ASSUME NEW r \in Robots,
               queue' = MarkTaskAssigned(aq, q, r),
               robotTask' = [robotTask EXCEPT ![r] = q],
               events' = Push(events, "action", r, q, fetch) \/ UNCHANGED events
        PROVE  ControlOK'
    <3>1. queue' \in QueueType
      BY <1>4, <2>2, MarkTaskAssignedType
    <3>2. [kind |-> "action", robot |-> r, request |-> q, act |-> fetch] \in Event
      BY <1>1 DEF Event, FetchActions, Action
    <3>3. EventsOK(events')
      BY <1>1, <2>2, <3>2, PushType DEF EventsOK, ControlOK
    <3>4. robotTask' \in [Robots -> Requests \cup {None}]
      BY <1>1, <2>2 DEF ControlOK
    <3> QED BY <1>1, <1>3, <3>1, <3>3, <3>4 DEF PickstationComplete, ControlOK, EventsOK
  <2> QED BY <2>1, <2>2 DEF PickstationComplete, IdleRobots
<1>6. UNCHANGED bins /\ UNCHANGED <<arrived, done, requeues>>
  BY DEF PickstationComplete
<1> QED BY <1>1, <1>2, <1>5, <1>6, TypeOKParts, BinsFrame, CountersFrame

\* The end of a request keeps the types.
LEMMA RequestCompleteType ==
    ASSUME TypeOK, NEW r \in Robots, NEW q \in Requests, RequestComplete(r, q)
    PROVE  TypeOK'
<1>1. ControlOK /\ BinsOK /\ PortsOK /\ CountersOK
  BY TypeOKParts
<1>2. UNCHANGED <<task, bins, ports, events, arrived, requeues>>
  BY DEF RequestComplete
<1>3. queue' \in QueueType
  BY <1>1, MarkCompletedType DEF RequestComplete, ControlOK
<1>4. done' \subseteq Requests
  BY <1>1 DEF RequestComplete, CountersOK, AllRequests, ControlOK, TaskType
<1>5. robotTask' \in [Robots -> Requests \cup {None}]
  BY <1>1 DEF RequestComplete, ControlOK
<1>6. /\ completions' \subseteq Robots \X Requests
      /\ pc' \in {"schedule", "failed"}
  BY <1>1 DEF RequestComplete, ControlOK
<1> QED BY <1>1, <1>2, <1>3, <1>4, <1>5, <1>6, TypeOKParts, BinsFrame, PortsFrame
        DEF ControlOK, CountersOK

\* Requeueing a stuck robot's task keeps the types.
LEMMA RequeueVictimType ==
    ASSUME TypeOK, NEW r \in Robots, RequeueVictim(r)
    PROVE  TypeOK'
<1>1. ControlOK /\ BinsOK /\ PortsOK /\ CountersOK /\ EventsOK(events)
  BY TypeOKParts DEF ControlOK, EventsOK
<1>2. ControlOK' /\ requeues' \in 0 .. MaxRequeues
  BY <1>1, RequeueOK DEF RequeueVictim, ControlOK
<1>3. UNCHANGED <<bins, ports, arrived, done>>
  BY DEF RequeueVictim
<1> QED BY <1>1, <1>2, <1>3, TypeOKParts, BinsFrame, PortsFrame DEF CountersOK

\* Replanning a stuck robot's action keeps the types.
LEMMA ForceReplanType ==
    ASSUME TypeOK, NEW r \in Robots, ForceReplan(r)
    PROVE  TypeOK'
<1>1. ControlOK /\ BinsOK /\ PortsOK /\ CountersOK /\ WorldOK(Now)
  BY TypeOKParts, NowOK
<1>2. robotTask[r] \in Requests
  BY <1>1 DEF ForceReplan, ControlOK
<1>3. PICK o \in NextAction(Now, robotTask[r]) :
         /\ task' = [task EXCEPT ![robotTask[r]] = o.task]
         /\ queue' = o.queue
         /\ pc' = PcAfter(o.act, "handle")
  BY DEF ForceReplan
<1>4. OutcomeOK(o)
  BY <1>1, <1>2, NextActionOK
<1>5. UNCHANGED <<robotTask, bins, ports, events, completions, arrived, done, requeues>>
  BY DEF ForceReplan
<1>6. ControlOK'
  BY <1>1, <1>2, <1>3, <1>4, <1>5 DEF ControlOK, OutcomeOK, PcAfter
<1> QED BY <1>1, <1>5, <1>6, TypeOKParts, BinsFrame, PortsFrame, CountersFrame

\* The initial states have the types.
LEMMA InitType == Init => TypeOK
<1> SUFFICES ASSUME Init PROVE TypeOK
  OBVIOUS
<1>1. queue \in QueueType /\ task \in [Requests -> TaskType]
  BY EmptyQueueType, NewTaskType DEF Init
<1>2. stack \in [Stacks -> Seq(Bins)]
  BY LifecycleAssumption DEF Init
<1>3. IsABag(events) /\ BagToSet(events) = {}
  BY DEF Init, IsABag, BagToSet, EmptyBag, SetToBag
<1>4. line \in [Stations -> Seq(Requests)]
  BY EmptySeq DEF Init
<1>5. arrived \in 0 .. NumRequests /\ requeues \in 0 .. MaxRequeues
  BY WarehouseAssumption, LifecycleAssumption DEF Init
<1> QED BY <1>1, <1>2, <1>3, <1>4, <1>5 DEF Init, TypeOK

\* Every step keeps the types.
LEMMA NextType == TypeOK /\ [Next]_vars => TypeOK'
<1> SUFFICES ASSUME TypeOK, [Next]_vars PROVE TypeOK'
  OBVIOUS
<1>1. CASE Arrival
  BY <1>1, ArrivalType
<1>2. CASE Schedule
  BY <1>2, ScheduleWaitingType, ScheduleNewType, ScheduleDoneType DEF Schedule
<1>3. CASE \E r \in Robots : RobotEvent(r)
  BY <1>3, PickupType, HandleDropType, RobotActionType DEF RobotEvent
<1>4. CASE \E p \in Stations, q \in Requests : PickstationComplete(p, q)
  BY <1>4, PickstationCompleteType
<1>5. CASE \E r \in Robots, q \in Requests : RequestComplete(r, q)
  BY <1>5, RequestCompleteType
<1>6. CASE \E r \in Robots : RequeueVictim(r) \/ ForceReplan(r)
  BY <1>6, RequeueVictimType, ForceReplanType
<1>7. CASE UNCHANGED vars
  BY <1>7 DEF vars, bins, ports, TypeOK
<1> QED BY <1>1, <1>2, <1>3, <1>4, <1>5, <1>6, <1>7 DEF Next

\* Every state of every run is well typed: no handler, strategy outcome or
\* recovery stores a malformed task, queue, event or stack.
THEOREM TypeCorrect == Spec => []TypeOK
<1>1. Init => TypeOK
  BY InitType
<1>2. TypeOK /\ [Next]_vars => TypeOK'
  BY NextType
<1> QED BY <1>1, <1>2, PTL DEF Spec

----------------------------------------------------------------------------
(* Conservation of bins *)

\* The three ways a step moves a bin: a pickup, a drop onto a stack, and the
\* hand-over at the port.
TakesBin(e) ==
    /\ CanPickup(e.act)
    /\ stack' = IF e.act.from = None THEN stack
                ELSE [stack EXCEPT ![e.act.from] = Front(@)]
    /\ moving' = moving \cup {e.act.bin}
    /\ status' = status

PutsBin(e) ==
    /\ e.act.type # "remove_target" /\ e.act.bin \in moving
    /\ HasCapacity(stack, e.act.to)
    /\ PutDown(e)

HandsOver(e) ==
    /\ e.act.bin \in moving
    /\ stack' = stack
    /\ moving' = moving \ {e.act.bin}
    /\ status' = [status EXCEPT ![e.act.bin] = "at_pickstation"]

\* The pickup handler either leaves every bin in place or moves one from a stack to the robot.
LEMMA PickupMoves ==
    ASSUME TypeOK, NEW e \in BagToSet(events), Pickup(e)
    PROVE  UNCHANGED bins \/ (e.act \in PhysicalActions /\ TakesBin(e))
<1>1. e.act \in PhysicalActions
  BY EventFields DEF Pickup
<1> QED BY <1>1 DEF Pickup, PickupSucceeds, StackAfterPickup, TakesBin

\* The drop handler either leaves every bin in place or moves one from the robot to a stack or a port.
LEMMA DropMoves ==
    ASSUME TypeOK, NEW e \in BagToSet(events), HandleDrop(e)
    PROVE  \/ UNCHANGED bins
           \/ e.act \in PhysicalActions /\ (PutsBin(e) \/ HandsOver(e))
<1>1. e.act \in PhysicalActions
  BY EventFields DEF HandleDrop
<1>2. UNCHANGED bins \/ (~StaleDrop(e) /\ ~FullOnDrop(e) /\ DropEffect(e))
  BY DEF HandleDrop, RedirectBlockedDrop
<1>3. ASSUME ~StaleDrop(e), ~FullOnDrop(e), DropEffect(e)
      PROVE  PutsBin(e) \/ HandsOver(e)
  <2>1. e.act.bin \in moving
    BY <1>3 DEF StaleDrop
  <2>2. CASE e.act.type = "remove_target"
    <3>1. DropAtPort(e)
      BY <1>3, <2>2 DEF DropEffect, IsRelocate
    <3> QED BY <2>1, <3>1 DEF DropAtPort, HandsOver
  <2>3. CASE e.act.type # "remove_target"
    <3>1. PutDown(e)
      <4>1. DropWithoutTask(e) \/ DropRelocated(e) \/ DropBlocker(e) \/ DropTarget(e)
        <5>1. \/ robotTask[e.robot] = None
              \/ IsRelocate(e.act)
              \/ e.act.type \in {"return_blocker", "return_target"}
          BY <1>1, <2>3 DEF PhysicalActions, IsRelocate
        <5> QED BY <1>3, <2>3, <5>1 DEF DropEffect, IsRelocate
      <4>2. DropWithoutTask(e) => PutDown(e)
        BY DEF DropWithoutTask
      <4>3. DropRelocated(e) => PutDown(e)
        BY DEF DropRelocated
      <4>4. DropBlocker(e) => PutDown(e)
        BY DEF DropBlocker
      <4>5. DropTarget(e) => PutDown(e)
        BY DEF DropTarget
      <4> QED BY <4>1, <4>2, <4>3, <4>4, <4>5
    <3>2. e.act.to \in Stacks /\ e.act.to # None
      BY <1>1, <2>3, WarehouseAssumption DEF PhysicalActions
    <3> QED BY <1>3, <2>1, <2>3, <3>1, <3>2 DEF PutsBin, FullOnDrop
  <2> QED BY <2>2, <2>3
<1> QED BY <1>1, <1>2, <1>3

\* No other handler touches a bin.
LEMMA BinMoves ==
    ASSUME TypeOK, [Next]_vars
    PROVE  \/ UNCHANGED bins
           \/ \E e \in BagToSet(events) :
                /\ e.act \in PhysicalActions
                /\ TakesBin(e) \/ PutsBin(e) \/ HandsOver(e)
<1>1. CASE Arrival
  BY <1>1 DEF Arrival
<1>2. CASE Schedule
  BY <1>2 DEF Schedule, ScheduleWaiting, ScheduleNew, ScheduleDone
<1>3. CASE \E r \in Robots : RobotEvent(r)
  <2>1. PICK e \in BagToSet(events) : Pickup(e) \/ HandleDrop(e) \/ RobotAction(e)
    BY <1>3 DEF RobotEvent
  <2>2. CASE RobotAction(e)
    BY <2>2 DEF RobotAction
  <2> QED BY <2>1, <2>2, PickupMoves, DropMoves
<1>4. CASE \E p \in Stations, q \in Requests : PickstationComplete(p, q)
  BY <1>4 DEF PickstationComplete
<1>5. CASE \E r \in Robots, q \in Requests : RequestComplete(r, q)
  BY <1>5 DEF RequestComplete
<1>6. CASE \E r \in Robots : RequeueVictim(r) \/ ForceReplan(r)
  BY <1>6 DEF RequeueVictim, ForceReplan
<1>7. CASE UNCHANGED vars
  BY <1>7 DEF vars
<1> QED BY <1>1, <1>2, <1>3, <1>4, <1>5, <1>6, <1>7 DEF Next

\* The two parts of EveryBinInOnePlace.
NoBinTwice ==
    \A s, u \in Stacks : \A i \in DOMAIN stack[s], j \in DOMAIN stack[u] :
        stack[s][i] = stack[u][j] => s = u /\ i = j

NoBinLost ==
    \A b \in Bins : OnSomeStack(b) <=> b \notin moving /\ status[b] # "at_pickstation"

\* Moving a bin from the top of a stack to an empty robot duplicates and loses none.
LEMMA TakesBinConserves ==
    ASSUME TypeOK, EveryBinInOnePlace, NEW e, e.act \in PhysicalActions, TakesBin(e)
    PROVE  EveryBinInOnePlace'
<1> DEFINE s == e.act.from
           b == e.act.bin
<1>1. b \in Bins /\ s \in Stacks \cup {None}
  BY DEF PhysicalActions
<1>2. CASE s = None
  <2>1. stack' = stack /\ ~OnSomeStack(b)
    BY <1>1, <1>2 DEF TakesBin, CanPickup, EveryBinInOnePlace
  <2> QED BY <2>1 DEF TakesBin, EveryBinInOnePlace, OnSomeStack
<1>3. CASE s # None
  <2>1. /\ s \in Stacks /\ stack[s] \in Seq(Bins) /\ stack[s] # <<>>
        /\ Top(stack[s]) = b /\ stack' = [stack EXCEPT ![s] = Front(@)]
    BY <1>1, <1>3 DEF TakesBin, CanPickup, OnTop, TypeOK
  <2> DEFINE n == Len(stack[s])
  <2>2. n \in Nat \ {0} /\ DOMAIN stack[s] = 1 .. n /\ stack[s][n] = b
    BY <2>1, EmptySeq, LenProperties DEF Top
  <2>3. /\ DOMAIN stack'[s] = 1 .. (n - 1)
        /\ \A i \in 1 .. (n - 1) : stack'[s][i] = stack[s][i]
    <3>1. stack'[s] = SubSeq(stack[s], 1, n - 1)
      BY <2>1 DEF Front, TypeOK
    <3> QED BY <2>1, <2>2, <3>1, SubSeqProperties, LenProperties
  <2>4. \A u \in Stacks \ {s} : stack'[u] = stack[u]
    BY <2>1 DEF TypeOK
  <2>5. \A u \in Stacks : \A i \in DOMAIN stack'[u] :
           i \in DOMAIN stack[u] /\ stack'[u][i] = stack[u][i]
    BY <2>2, <2>3, <2>4
  <2>6. NoBinTwice'
    BY <2>5 DEF EveryBinInOnePlace, NoBinTwice
  <2>7. ~OnSomeStack(b)'
    <3>1. ASSUME NEW u \in Stacks, NEW i \in DOMAIN stack'[u], stack'[u][i] = b
          PROVE  FALSE
      <4>1. u = s /\ i = n
        BY <2>1, <2>2, <2>5, <3>1 DEF EveryBinInOnePlace
      <4> QED BY <2>2, <2>3, <3>1, <4>1
    <3> QED BY <3>1 DEF OnSomeStack, Holds
  <2>8. ASSUME NEW c \in Bins, c # b
        PROVE  OnSomeStack(c)' <=> OnSomeStack(c)
    <3>1. OnSomeStack(c)' => OnSomeStack(c)
      BY <2>5 DEF OnSomeStack, Holds
    <3>2. ASSUME NEW u \in Stacks, NEW i \in DOMAIN stack[u], stack[u][i] = c
          PROVE  i \in DOMAIN stack'[u] /\ stack'[u][i] = c
      BY <2>2, <2>3, <2>4, <2>8, <3>2
    <3>3. OnSomeStack(c) => OnSomeStack(c)'
      BY <3>2 DEF OnSomeStack, Holds
    <3> QED BY <3>1, <3>3
  <2>9. NoBinLost'
    BY <2>7, <2>8 DEF TakesBin, EveryBinInOnePlace, NoBinLost
  <2> QED BY <2>6, <2>9 DEF EveryBinInOnePlace, NoBinTwice, NoBinLost
<1> QED BY <1>2, <1>3

\* Moving a bin from a robot to the top of a stack duplicates and loses none.
LEMMA PutsBinConserves ==
    ASSUME TypeOK, EveryBinInOnePlace, NEW e, e.act \in PhysicalActions, PutsBin(e)
    PROVE  EveryBinInOnePlace'
<1> DEFINE s == e.act.to
           b == e.act.bin
           n == Len(stack[s])
<1>1. b \in Bins /\ s \in Stacks /\ b \in moving /\ stack[s] \in Seq(Bins)
  BY DEF PhysicalActions, PutsBin, TypeOK
<1>2. stack' = [stack EXCEPT ![s] = Append(@, b)]
  BY DEF PutsBin, PutDown, StackAfterDrop
<1>3. n \in Nat /\ DOMAIN stack[s] = 1 .. n
  BY <1>1, LenProperties
<1>4. /\ DOMAIN stack'[s] = 1 .. (n + 1)
      /\ stack'[s][n + 1] = b
      /\ \A i \in 1 .. n : stack'[s][i] = stack[s][i]
  <2>1. stack'[s] = Append(stack[s], b)
    BY <1>1, <1>2 DEF TypeOK
  <2> QED BY <1>1, <1>3, <2>1, AppendProperties, LenProperties
<1>5. \A u \in Stacks \ {s} : stack'[u] = stack[u]
  BY <1>2 DEF TypeOK
<1>6. \A u \in Stacks : \A i \in DOMAIN stack[u] : stack[u][i] # b
  BY <1>1 DEF EveryBinInOnePlace, OnSomeStack, Holds
<1>7. \A u \in Stacks : \A i \in DOMAIN stack'[u] :
         \/ u = s /\ i = n + 1 /\ stack'[u][i] = b
         \/ i \in DOMAIN stack[u] /\ stack'[u][i] = stack[u][i] /\ stack'[u][i] # b
  <2>1. ASSUME NEW u \in Stacks, NEW i \in DOMAIN stack'[u], u # s
        PROVE  i \in DOMAIN stack[u] /\ stack'[u][i] = stack[u][i] /\ stack'[u][i] # b
    BY <1>5, <1>6, <2>1
  <2>2. ASSUME NEW i \in DOMAIN stack'[s], i # n + 1
        PROVE  i \in DOMAIN stack[s] /\ stack'[s][i] = stack[s][i] /\ stack'[s][i] # b
    <3>1. i \in 1 .. n
      BY <1>3, <1>4, <2>2
    <3> QED BY <1>1, <1>3, <1>4, <1>6, <3>1
  <2> QED BY <1>4, <2>1, <2>2
<1>8. NoBinTwice'
  BY <1>7 DEF EveryBinInOnePlace, NoBinTwice
<1>9. OnSomeStack(b)'
  BY <1>1, <1>3, <1>4 DEF OnSomeStack, Holds
<1>10. ASSUME NEW c \in Bins, c # b
       PROVE  OnSomeStack(c)' <=> OnSomeStack(c)
  <2>1. OnSomeStack(c)' => OnSomeStack(c)
    BY <1>7, <1>10 DEF OnSomeStack, Holds
  <2>2. ASSUME NEW u \in Stacks, NEW i \in DOMAIN stack[u], stack[u][i] = c
        PROVE  i \in DOMAIN stack'[u] /\ stack'[u][i] = c
    BY <1>3, <1>4, <1>5, <2>2
  <2>3. OnSomeStack(c) => OnSomeStack(c)'
    BY <2>2 DEF OnSomeStack, Holds
  <2> QED BY <2>1, <2>3
<1>11. /\ moving' = moving \ {b}
       /\ \A c \in Bins : status'[c] = IF c \in ToSet(stack'[s]) THEN "stored" ELSE status[c]
  BY DEF PutsBin, PutDown, StatusAfterDrop
<1>12. \A c \in Bins : c \in ToSet(stack'[s]) => OnSomeStack(c)'
  BY <1>1 DEF ToSet, OnSomeStack, Holds
<1>13. b \in ToSet(stack'[s])
  BY <1>3, <1>4 DEF ToSet
<1>14. NoBinLost'
  <2>1. ASSUME NEW c \in Bins
        PROVE  OnSomeStack(c)' <=> c \notin moving' /\ status'[c] # "at_pickstation"
    <3>1. CASE c = b
      BY <1>1, <1>9, <1>11, <1>13, <3>1
    <3>2. CASE c # b
      BY <1>10, <1>11, <1>12, <3>2 DEF EveryBinInOnePlace
    <3> QED BY <3>1, <3>2
  <2> QED BY <2>1 DEF NoBinLost
<1> QED BY <1>8, <1>14 DEF EveryBinInOnePlace, NoBinTwice, NoBinLost

\* Moving a bin between a robot and a port duplicates and loses none.
LEMMA HandsOverConserves ==
    ASSUME TypeOK, EveryBinInOnePlace, NEW e, e.act \in PhysicalActions, HandsOver(e)
    PROVE  EveryBinInOnePlace'
<1>1. e.act.bin \in Bins /\ e.act.bin \in moving
  BY DEF PhysicalActions, HandsOver
<1>2. ~OnSomeStack(e.act.bin)
  BY <1>1 DEF EveryBinInOnePlace
<1> QED BY <1>1, <1>2 DEF HandsOver, EveryBinInOnePlace, OnSomeStack, TypeOK

\* Whatever the order of events, stale or duplicated events, redirects and
\* recoveries of any number included, a bin lies at exactly one position of
\* one stack, or it is under way or at a station and lies on none: the check
\* the engine makes after every event (_validate_bin_uniqueness) never fires.
THEOREM BinsConserved == Spec => []EveryBinInOnePlace
<1> DEFINE IInv == TypeOK /\ EveryBinInOnePlace
<1>1. Init => IInv
  <2> SUFFICES ASSUME Init PROVE EveryBinInOnePlace
    BY InitType
  <2> QED BY LifecycleAssumption DEF Init, EveryBinInOnePlace, OnSomeStack
<1>2. IInv /\ [Next]_vars => IInv'
  <2> SUFFICES ASSUME IInv, [Next]_vars PROVE EveryBinInOnePlace'
    BY NextType
  <2>1. CASE UNCHANGED bins
    BY <2>1 DEF bins, EveryBinInOnePlace, OnSomeStack
  <2> QED BY <2>1, BinMoves, TakesBinConserves, PutsBinConserves, HandsOverConserves
<1>3. IInv => EveryBinInOnePlace
  OBVIOUS
<1> QED BY <1>1, <1>2, <1>3, PTL DEF Spec

\* No sequence of relocations, returns and redirects builds a stack beyond
\* max_stack_height, although the capacity of a destination is checked when
\* the action is chosen and the bin arrives much later.
THEOREM StackHeights == Spec => []HeightOK
<1> DEFINE IInv == TypeOK /\ HeightOK
<1>1. Init => IInv
  BY InitType, LifecycleAssumption DEF Init, HeightOK
<1>2. IInv /\ [Next]_vars => IInv'
  <2> SUFFICES ASSUME IInv, [Next]_vars PROVE HeightOK'
    BY NextType
  <2>1. CASE UNCHANGED bins
    BY <2>1 DEF bins, HeightOK
  <2>2. ASSUME NEW e, e.act \in PhysicalActions, TakesBin(e)
        PROVE  HeightOK'
    <3>1. CASE e.act.from = None
      BY <2>2, <3>1 DEF TakesBin, HeightOK
    <3>2. CASE e.act.from # None
      <4>1. /\ e.act.from \in Stacks /\ stack[e.act.from] \in Seq(Bins)
            /\ stack[e.act.from] # <<>>
        BY <2>2, <3>2 DEF PhysicalActions, TakesBin, CanPickup, OnTop, TypeOK
      <4>2. Len(Front(stack[e.act.from])) <= Len(stack[e.act.from])
        BY <4>1, SubSeqProperties, LenProperties, EmptySeq DEF Front
      <4>3. Len(Front(stack[e.act.from])) <= MaxStackHeight
        <5>1. Len(Front(stack[e.act.from])) \in Nat /\ Len(stack[e.act.from]) \in Nat
          BY <4>1, SubSeqProperties, LenProperties, EmptySeq DEF Front
        <5> QED BY <4>1, <4>2, <5>1, WarehouseAssumption DEF HeightOK
      <4> QED BY <2>2, <3>2, <4>1, <4>3 DEF TakesBin, HeightOK, TypeOK
    <3> QED BY <3>1, <3>2
  <2>3. ASSUME NEW e, e.act \in PhysicalActions, PutsBin(e)
        PROVE  HeightOK'
    <3>1. /\ e.act.to \in Stacks /\ stack[e.act.to] \in Seq(Bins) /\ e.act.bin \in Bins
          /\ Len(stack[e.act.to]) < MaxStackHeight
      BY <2>3 DEF PhysicalActions, PutsBin, HasCapacity, TypeOK
    <3>2. Len(Append(stack[e.act.to], e.act.bin)) <= MaxStackHeight
      BY <3>1, AppendProperties, LenProperties, WarehouseAssumption
    <3> QED BY <2>3, <3>1, <3>2 DEF PutsBin, PutDown, StackAfterDrop, HeightOK, TypeOK
  <2>4. ASSUME NEW e, HandsOver(e)
        PROVE  HeightOK'
    BY <2>4 DEF HandsOver, HeightOK
  <2> QED BY <2>1, <2>2, <2>3, <2>4, BinMoves
<1>3. IInv => HeightOK
  OBVIOUS
<1> QED BY <1>1, <1>2, <1>3, PTL DEF Spec

=============================================================================
