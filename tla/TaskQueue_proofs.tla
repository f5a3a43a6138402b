--------------------------- MODULE TaskQueue_proofs ---------------------------
(***************************************************************************)
(* The containers a request passes through, for every value of the         *)
(* constants and with every fault and any number of recoveries: the queue  *)
(* and the robots agree on the assignments, no request is in two           *)
(* containers, and no two running tasks fetch the same bin.                *)
(***************************************************************************)
EXTENDS TaskLifecycle_proofs

----------------------------------------------------------------------------
(* Lists without repetitions *)

\* Appending a new element to a list without repetitions.
LEMMA AppendList ==
    ASSUME NEW S, NEW seq \in Seq(S), NEW x \in S,
           IsInjective(seq), x \notin ToSet(seq)
    PROVE  /\ IsInjective(Append(seq, x))
           /\ ToSet(Append(seq, x)) = ToSet(seq) \cup {x}
<1> DEFINE n == Len(seq)
           new == Append(seq, x)
<1>1. n \in Nat /\ DOMAIN seq = 1 .. n
  BY LenProperties
<1>2. /\ new \in Seq(S) /\ Len(new) = n + 1
      /\ \A i \in 1 .. n : new[i] = seq[i]
      /\ new[n + 1] = x
  BY AppendProperties
<1>3. DOMAIN new = 1 .. (n + 1)
  BY <1>2, LenProperties
<1>4. \A i \in 1 .. (n + 1) : i \in 1 .. n \/ i = n + 1
  BY <1>1
<1>5. \A i \in 1 .. n : seq[i] # x
  BY <1>1 DEF ToSet
<1>6. IsInjective(new)
  BY <1>1, <1>2, <1>3, <1>4, <1>5 DEF IsInjective
<1>7. \A i \in 1 .. n : i \in 1 .. (n + 1)
  BY <1>1
<1>8. n + 1 \in 1 .. (n + 1)
  BY <1>1
<1>9. ToSet(new) = ToSet(seq) \cup {x}
  BY <1>1, <1>2, <1>3, <1>4, <1>7, <1>8 DEF ToSet
<1> QED BY <1>6, <1>9

\* Joining two lists that have no element in common.
LEMMA JoinLists ==
    ASSUME NEW S, NEW s \in Seq(S), NEW t \in Seq(S),
           IsInjective(s), IsInjective(t), ToSet(s) \cap ToSet(t) = {}
    PROVE  /\ IsInjective(s \o t)
           /\ ToSet(s \o t) = ToSet(s) \cup ToSet(t)
<1> DEFINE m == Len(s)
           n == Len(t)
<1>1. m \in Nat /\ n \in Nat /\ DOMAIN s = 1 .. m /\ DOMAIN t = 1 .. n
  BY LenProperties
<1>2. /\ s \o t \in Seq(S) /\ Len(s \o t) = m + n
      /\ \A i \in 1 .. (m + n) : (s \o t)[i] = IF i <= m THEN s[i] ELSE t[i - m]
  BY ConcatProperties
<1>3. DOMAIN (s \o t) = 1 .. (m + n)
  BY <1>2, LenProperties
<1>4. \A i \in 1 .. m, j \in 1 .. n : s[i] # t[j]
  BY <1>1 DEF ToSet
<1>5. \A i \in 1 .. (m + n) : \/ i \in 1 .. m /\ (s \o t)[i] = s[i]
                              \/ i - m \in 1 .. n /\ ~(i <= m) /\ (s \o t)[i] = t[i - m]
  BY <1>1, <1>2
<1>6. IsInjective(s \o t)
  <2> SUFFICES ASSUME NEW i \in 1 .. (m + n), NEW j \in 1 .. (m + n),
                      (s \o t)[i] = (s \o t)[j]
               PROVE  i = j
    BY <1>3 DEF IsInjective
  <2>1. CASE i \in 1 .. m /\ j \in 1 .. m
    BY <1>1, <1>2, <2>1 DEF IsInjective
  <2>2. CASE i - m \in 1 .. n /\ ~(i <= m) /\ j - m \in 1 .. n /\ ~(j <= m)
    <3>1. t[i - m] = t[j - m]
      BY <1>2, <2>2
    <3>2. i - m = j - m
      BY <1>1, <2>2, <3>1 DEF IsInjective
    <3> QED BY <1>1, <3>2
  <2> QED BY <1>1, <1>4, <1>5, <2>1, <2>2
<1>7. \A j \in 1 .. n : j + m \in 1 .. (m + n) /\ (s \o t)[j + m] = t[j]
  BY <1>1, <1>2
<1>8. \A i \in 1 .. m : i \in 1 .. (m + n) /\ (s \o t)[i] = s[i]
  BY <1>1, <1>2
<1>9. ToSet(s \o t) \subseteq ToSet(s) \cup ToSet(t)
  BY <1>1, <1>3, <1>5 DEF ToSet
<1>10. ToSet(s) \cup ToSet(t) \subseteq ToSet(s \o t)
  BY <1>1, <1>3, <1>7, <1>8 DEF ToSet
<1> QED BY <1>6, <1>9, <1>10

\* A part of a list without repetitions is one.
LEMMA PartOfList ==
    ASSUME NEW S, NEW seq \in Seq(S), NEW m \in Int, NEW n \in Int, 1 <= m, n <= Len(seq),
           IsInjective(seq)
    PROVE  /\ SubSeq(seq, m, n) \in Seq(S)
           /\ IsInjective(SubSeq(seq, m, n))
           /\ ToSet(SubSeq(seq, m, n)) = {seq[i] : i \in m .. n}
<1> DEFINE sub == SubSeq(seq, m, n)
<1>1. Len(seq) \in Nat /\ DOMAIN seq = 1 .. Len(seq)
  BY LenProperties
<1>2. \A i \in m .. n : i \in DOMAIN seq /\ seq[i] \in S
  BY <1>1, ElementOfSeq
<1>3. /\ sub \in Seq(S)
      /\ Len(sub) = IF m <= n THEN n - m + 1 ELSE 0
      /\ \A i \in 1 .. (n - m + 1) : sub[i] = seq[m + i - 1]
  BY <1>2, SubSeqProperties
<1>4. DOMAIN sub = 1 .. Len(sub)
  BY <1>3, LenProperties
<1>5. \A i \in DOMAIN sub : i \in Int /\ m + i - 1 \in m .. n /\ sub[i] = seq[m + i - 1]
  BY <1>3, <1>4
<1>6. \A i \in m .. n : i - m + 1 \in DOMAIN sub /\ sub[i - m + 1] = seq[i]
  BY <1>3, <1>4
<1>7. IsInjective(sub)
  <2> SUFFICES ASSUME NEW i \in DOMAIN sub, NEW j \in DOMAIN sub, sub[i] = sub[j]
               PROVE  i = j
    BY DEF IsInjective
  <2>1. m + i - 1 = m + j - 1
    BY <1>2, <1>5 DEF IsInjective
  <2> QED BY <1>5, <2>1
<1>8. ToSet(sub) = {seq[i] : i \in m .. n}
  <2>1. \A x \in ToSet(sub) : \E i \in m .. n : x = seq[i]
    <3>1. ASSUME NEW i \in DOMAIN sub PROVE \E k \in m .. n : sub[i] = seq[k]
      BY <1>5
    <3> QED BY <3>1 DEF ToSet
  <2>2. \A i \in m .. n : seq[i] \in ToSet(sub)
    <3>1. ASSUME NEW i \in m .. n PROVE \E k \in DOMAIN sub : sub[k] = seq[i]
      BY <1>6
    <3> QED BY <3>1 DEF ToSet
  <2> QED BY <2>1, <2>2
<1> QED BY <1>3, <1>7, <1>8

\* Removing one position takes its element out, and only that.
LEMMA RemoveAtList ==
    ASSUME NEW S, NEW seq \in Seq(S), NEW i \in DOMAIN seq, IsInjective(seq)
    PROVE  /\ IsInjective(RemoveAt(seq, i))
           /\ ToSet(RemoveAt(seq, i)) = ToSet(seq) \ {seq[i]}
<1> DEFINE n == Len(seq)
           before == SubSeq(seq, 1, i - 1)
           after == SubSeq(seq, i + 1, n)
<1>1. n \in Nat /\ DOMAIN seq = 1 .. n /\ i \in 1 .. n
  BY LenProperties
<1>2. i - 1 \in Int /\ i + 1 \in Int /\ i - 1 <= n /\ 1 <= i + 1
  BY <1>1
<1>3. /\ before \in Seq(S) /\ IsInjective(before)
      /\ ToSet(before) = {seq[j] : j \in 1 .. (i - 1)}
  BY <1>1, <1>2, PartOfList
<1>4. /\ after \in Seq(S) /\ IsInjective(after)
      /\ ToSet(after) = {seq[j] : j \in (i + 1) .. n}
  BY <1>1, <1>2, PartOfList
<1>5. \A j \in 1 .. (i - 1), k \in (i + 1) .. n :
        j \in DOMAIN seq /\ k \in DOMAIN seq /\ j # k /\ j # i /\ k # i
  BY <1>1
<1>6. \A j \in 1 .. (i - 1) : j \in DOMAIN seq /\ j # i
  BY <1>1
<1>7. \A j \in (i + 1) .. n : j \in DOMAIN seq /\ j # i
  BY <1>1
<1>8. \A j \in DOMAIN seq : j = i \/ j \in 1 .. (i - 1) \/ j \in (i + 1) .. n
  BY <1>1
<1>9. ToSet(before) \cap ToSet(after) = {}
  <2>1. \A j \in 1 .. (i - 1), k \in (i + 1) .. n : seq[j] # seq[k]
    BY <1>5 DEF IsInjective
  <2> QED BY <1>3, <1>4, <2>1
<1>10. IsInjective(before \o after) /\ ToSet(before \o after) = ToSet(before) \cup ToSet(after)
  <2>1. /\ before \in Seq(S) /\ IsInjective(before)
        /\ after \in Seq(S) /\ IsInjective(after)
    BY <1>3, <1>4
  <2> HIDE DEF before, after, n
  <2> QED BY <1>9, <2>1, JoinLists
<1>11. ToSet(before) \cup ToSet(after) = ToSet(seq) \ {seq[i]}
  <2>1. \A j \in DOMAIN seq : j # i => seq[j] # seq[i]
    BY <1>1 DEF IsInjective
  <2>2. ToSet(before) \cup ToSet(after) = {seq[j] : j \in DOMAIN seq \ {i}}
    BY <1>3, <1>4, <1>6, <1>7, <1>8
  <2>3. {seq[j] : j \in DOMAIN seq \ {i}} = ToSet(seq) \ {seq[i]}
    BY <2>1 DEF ToSet
  <2> QED BY <2>2, <2>3
<1> QED BY <1>10, <1>11 DEF RemoveAt

\* Without takes the request out and nothing else.
LEMMA WithoutList ==
    ASSUME NEW S, NEW seq \in Seq(S), NEW x, IsInjective(seq)
    PROVE  /\ IsInjective(Without(seq, x))
           /\ ToSet(Without(seq, x)) = ToSet(seq) \ {x}
<1>1. DOMAIN seq = 1 .. Len(seq)
  BY LenProperties
<1>2. Contains(seq, x) <=> x \in ToSet(seq)
  BY <1>1 DEF Contains, ToSet
<1>3. CASE Contains(seq, x)
  <2> DEFINE i == CHOOSE i \in DOMAIN seq : seq[i] = x
  <2>1. i \in DOMAIN seq /\ seq[i] = x
    BY <1>1, <1>3 DEF Contains
  <2>2. IsInjective(RemoveAt(seq, i)) /\ ToSet(RemoveAt(seq, i)) = ToSet(seq) \ {seq[i]}
    BY <2>1, RemoveAtList
  <2> QED BY <1>3, <2>1, <2>2 DEF Without
<1>4. CASE ~Contains(seq, x)
  BY <1>2, <1>4 DEF Without
<1> QED BY <1>3, <1>4

\* The list after its first i elements.
LEMMA RestOfList ==
    ASSUME NEW S, NEW seq \in Seq(S), NEW i \in DOMAIN seq, IsInjective(seq)
    PROVE  /\ SubSeq(seq, i + 1, Len(seq)) \in Seq(S)
           /\ IsInjective(SubSeq(seq, i + 1, Len(seq)))
           /\ ToSet(SubSeq(seq, i + 1, Len(seq))) \subseteq ToSet(seq) \ {seq[i]}
<1> DEFINE n == Len(seq)
<1>1. n \in Nat /\ DOMAIN seq = 1 .. n /\ i \in 1 .. n
  BY LenProperties
<1>2. i + 1 \in Int /\ 1 <= i + 1 /\ n <= n
  BY <1>1
<1>3. /\ SubSeq(seq, i + 1, n) \in Seq(S) /\ IsInjective(SubSeq(seq, i + 1, n))
      /\ ToSet(SubSeq(seq, i + 1, n)) = {seq[j] : j \in (i + 1) .. n}
  BY <1>1, <1>2, PartOfList
<1>4. \A j \in (i + 1) .. n : j \in DOMAIN seq /\ j # i
  BY <1>1
<1> QED BY <1>3, <1>4 DEF ToSet, IsInjective

\* A list loses its head and nothing else.
LEMMA TailOfList ==
    ASSUME NEW S, NEW seq \in Seq(S), seq # <<>>, IsInjective(seq)
    PROVE  /\ IsInjective(Tail(seq))
           /\ Head(seq) \in ToSet(seq)
           /\ ToSet(Tail(seq)) = ToSet(seq) \ {Head(seq)}
<1> DEFINE n == Len(seq)
<1>1. n \in Nat \ {0} /\ DOMAIN seq = 1 .. n
  BY EmptySeq, LenProperties
<1>2. Tail(seq) = SubSeq(seq, 2, n)
  BY TailIsSubSeq
<1>3. /\ IsInjective(SubSeq(seq, 2, n))
      /\ ToSet(SubSeq(seq, 2, n)) = {seq[j] : j \in 2 .. n}
  BY <1>1, PartOfList
<1>4. \A j \in 2 .. n : j \in DOMAIN seq /\ j # 1
  BY <1>1
<1>5. \A j \in DOMAIN seq : j = 1 \/ j \in 2 .. n
  BY <1>1
<1>6. 1 \in DOMAIN seq /\ Head(seq) = seq[1]
  BY <1>1
<1>7. {seq[j] : j \in 2 .. n} = ToSet(seq) \ {seq[1]}
  BY <1>4, <1>5, <1>6 DEF ToSet, IsInjective
<1> QED BY <1>2, <1>3, <1>6, <1>7 DEF ToSet

\* The empty list.
LEMMA EmptyList == IsInjective(<<>>) /\ ToSet(<<>>) = {}
<1>1. DOMAIN <<>> = {}
  OBVIOUS
<1> QED BY <1>1 DEF IsInjective, ToSet

----------------------------------------------------------------------------
(* What the strategy leaves alone *)

\* Two queues that differ at most in the ownership of blockers.
SameContainers(aq, bq) ==
    /\ bq.pending = aq.pending
    /\ bq.assigned = aq.assigned
    /\ bq.waiting = aq.waiting
    /\ bq.pickstation = aq.pickstation
    /\ bq.waitlist = aq.waitlist

\* The actions that name the task's own target.
TargetTypes == {"remove_target", "return_target", "request_complete",
                "pickup_from_pickstation"}

\* An outcome for q: no request changes its container or its batch, and what
\* is done to a target is done to q's.
AnswerFor(q, t, aq, o) ==
    /\ SameContainers(aq, o.queue)
    /\ o.task.batched = t.batched
    /\ o.act.type \in TargetTypes => o.act.bin = Target[q]

\* The return of the target changes no container.
LEMMA NextReturnTargetFrame ==
    ASSUME NEW w, NEW q, NEW t \in TaskType, NEW aq \in QueueType,
           NEW o \in NextReturnTarget(w, q, t, aq)
    PROVE  AnswerFor(q, t, aq, o)
<1>1. CASE o = Outcome(t, aq, Raise) \/ o = Outcome(t, aq, NoStack)
  BY <1>1 DEF AnswerFor, SameContainers, Outcome, Raise, NoStack, Action, TargetTypes
<1>2. CASE o = Outcome(MarkTargetReturned(t), aq,
                       Action("request_complete", Target[q], None, None))
  BY <1>2 DEF AnswerFor, SameContainers, Outcome, Action, MarkTargetReturned, TaskType
<1>3. CASE \E s \in Stacks :
             o = Outcome([t EXCEPT !.actual = s], aq,
                         Action("return_target", Target[q], None, s))
  BY <1>3 DEF AnswerFor, SameContainers, Outcome, Action, TaskType
<1> QED BY <1>1, <1>2, <1>3 DEF NextReturnTarget, OrNoStack, ReturnStacks

\* So does what follows the restoring of the blockers.
LEMMA AfterRestoreFrame ==
    ASSUME NEW w, NEW q, NEW t \in TaskType, NEW aq \in QueueType,
           NEW o \in AfterRestore(w, q, t, aq)
    PROVE  AnswerFor(q, t, aq, o)
<1>1. CASE t.served
  <2> DEFINE u == [t EXCEPT !.phase = "return_target"]
  <2>1. u \in TaskType /\ u.batched = t.batched
    BY DEF TaskType, Phases
  <2>2. o \in NextReturnTarget(w, q, u, aq)
    BY <1>1 DEF AfterRestore
  <2>3. AnswerFor(q, u, aq, o)
    BY <2>1, <2>2, NextReturnTargetFrame
  <2> QED BY <2>1, <2>3 DEF AnswerFor
<1>2. CASE ~t.served
  BY <1>2 DEF AfterRestore, AnswerFor, SameContainers, Outcome, NoAction, Action,
              TargetTypes, TaskType
<1> QED BY <1>1, <1>2

\* Giving up the blockers of a task releases owners and nothing else.
LEMMA ReleaseOwnBlockersFrame ==
    ASSUME NEW aq \in QueueType, NEW q, NEW t
    PROVE  SameContainers(aq, ReleaseOwnBlockers(aq, q, t))
BY DEF ReleaseOwnBlockers, SameContainers, QueueType

\* Reordering the relocations keeps the batch.
LEMMA ReorderingsFrame ==
    ASSUME NEW t \in TaskType, NEW u \in Reorderings(t)
    PROVE  u.batched = t.batched
BY DEF Reorderings, TaskType

\* Restoring the blockers changes no container.
LEMMA NextRestoreBlockersFrame ==
    ASSUME NEW w, NEW q \in Requests, NEW t \in TaskType, NEW aq \in QueueType,
           NEW o \in NextRestoreBlockers(w, q, t, aq)
    PROVE  AnswerFor(q, t, aq, o)
<1>1. CASE ~ReturnBlockingBins
  <2> DEFINE u == [t EXCEPT !.temp = <<>>, !.reordered = TRUE]
             bq == ReleaseOwnBlockers(aq, q, t)
  <2>1. u \in TaskType /\ u.batched = t.batched
    BY EmptySeq DEF TaskType
  <2>2. bq \in QueueType /\ SameContainers(aq, bq)
    <3>1. [aq EXCEPT !.owner = [b \in Bins |-> IF aq.owner[b] = q /\ HasOpenRelocation(t, b)
                                               THEN None ELSE aq.owner[b]]] \in QueueType
      BY DEF QueueType
    <3>2. bq \in QueueType
      BY <3>1 DEF ReleaseOwnBlockers, QueueType
    <3> QED BY <3>2, ReleaseOwnBlockersFrame
  <2>3. o \in AfterRestore(w, q, u, bq)
    BY <1>1 DEF NextRestoreBlockers
  <2>4. AnswerFor(q, u, bq, o)
    BY <2>1, <2>2, <2>3, AfterRestoreFrame
  <2> QED BY <2>1, <2>2, <2>4 DEF AnswerFor, SameContainers
<1>2. CASE ReturnBlockingBins /\ t.temp = <<>>
  BY <1>2, AfterRestoreFrame DEF NextRestoreBlockers
<1>3. CASE ReturnBlockingBins /\ t.temp # <<>>
  <2>1. PICK u \in Reorderings(t) :
           o \in OrNoStack(u, aq,
                   IF Buried(w, PeekLastRelocation(u)) THEN Unbury(w, u, aq, PeekLastRelocation(u))
                                             ELSE RestoreBlocker(w, u, aq, PeekLastRelocation(u)))
    BY <1>3 DEF NextRestoreBlockers
  <2> DEFINE reloc == PeekLastRelocation(u)
  <2>2. u \in TaskType /\ u.batched = t.batched
    BY <2>1, ReorderingsType, ReorderingsFrame
  <2>3. CASE o = Outcome(u, aq, NoStack)
    BY <2>2, <2>3 DEF AnswerFor, SameContainers, Outcome, NoStack, Action, TargetTypes
  <2>4. CASE o \in Unbury(w, u, aq, reloc)
    BY <2>2, <2>4 DEF Unbury, AnswerFor, SameContainers, Outcome, Action, TargetTypes
  <2>5. CASE o \in RestoreBlocker(w, u, aq, reloc)
    <3>1. \A s : UpdateReturnStack(u, reloc.bin, s).batched = u.batched
      BY <2>2 DEF UpdateReturnStack, TaskType
    <3> QED BY <2>2, <2>5, <3>1 DEF RestoreBlocker, AnswerFor, SameContainers, Outcome,
                                    Action, TargetTypes
  <2> QED BY <2>1, <2>3, <2>4, <2>5 DEF OrNoStack
<1> QED BY <1>1, <1>2, <1>3

\* So does the retrieval of the target.
LEMMA NextRetrieveTargetFrame ==
    ASSUME NEW w, NEW q \in Requests, NEW t \in TaskType, NEW aq \in QueueType,
           NEW o \in NextRetrieveTarget(w, q, t, aq)
    PROVE  AnswerFor(q, t, aq, o)
<1> DEFINE b == Target[q]
           s == StackOf(w.stack, b)
           t2 == IF t.home = None THEN [t EXCEPT !.home = s] ELSE t
           t3 == [t EXCEPT !.removed = TRUE, !.delivered = TRUE,
                           !.phase = "restore_blockers"]
<1>1. t2.batched = t.batched
  BY DEF TaskType
<1>2. t3 \in TaskType /\ t3.batched = t.batched
  BY DEF TaskType, Phases
<1>3. CASE s = None /\ b \in w.station
  <2>1. o \in NextRestoreBlockers(w, q, t3, aq)
    BY <1>3 DEF NextRetrieveTarget
  <2>2. AnswerFor(q, t3, aq, o)
    BY <1>2, <2>1, NextRestoreBlockersFrame
  <2> QED BY <1>2, <2>2 DEF AnswerFor
<1>4. CASE s = None /\ b \notin w.station
  BY <1>4 DEF NextRetrieveTarget, AnswerFor, SameContainers, Outcome, NoAction, Raise,
              Action, TargetTypes
<1>5. CASE s # None
  <2>1. CASE o = Outcome(t2, aq, Action("remove_target", b, s, None))
    BY <1>1, <2>1 DEF AnswerFor, SameContainers, Outcome, Action
  <2>2. CASE o = Outcome(t2, aq, NoStack)
    BY <1>1, <2>2 DEF AnswerFor, SameContainers, Outcome, NoStack, Action, TargetTypes
  <2>3. CASE \E d \in Stacks :
               o = Outcome(t2, aq, Action("relocate", Top(w.stack[s]), s, d))
    BY <1>1, <2>3 DEF AnswerFor, SameContainers, Outcome, Action, TargetTypes
  <2> QED BY <1>5, <2>1, <2>2, <2>3 DEF NextRetrieveTarget, OrNoStack, RelocationStacks
<1> QED BY <1>3, <1>4, <1>5

\* next_action changes tasks and blocker ownership but never the container or
\* the batch of a request, and handles no target but the task's own.
LEMMA NextActionFrame ==
    ASSUME NEW w, WorldOK(w), NEW q \in Requests, NEW o \in NextAction(w, q)
    PROVE  AnswerFor(q, w.task[q], w.queue, o)
<1> DEFINE t == w.task[q]
<1>1. t \in TaskType /\ w.queue \in QueueType
  BY DEF WorldOK
<1>2. CASE t.phase = "retrieve_target"
  BY <1>1, <1>2, NextRetrieveTargetFrame DEF NextAction
<1>3. CASE t.phase = "restore_blockers"
  BY <1>1, <1>3, NextRestoreBlockersFrame DEF NextAction
<1>4. CASE t.phase = "return_target"
  BY <1>1, <1>4, NextReturnTargetFrame DEF NextAction
<1>5. CASE t.phase \in {"wait_for_pickstation", "complete"}
  BY <1>1, <1>5 DEF NextAction, AnswerFor, SameContainers, Outcome, NoAction, Action,
                    TargetTypes
<1> QED BY <1>1, <1>2, <1>3, <1>4, <1>5 DEF TaskType, Phases

----------------------------------------------------------------------------
(* What a step does to the containers *)

\* No task has requests added to its batch, in tasks or by the step.
BatchesOf(tasks) == \A p \in Requests : tasks[p].batched = task[p].batched
SameBatches == \A p \in Requests : task'[p].batched = task[p].batched

\* The step moves no request; a completion may become due for a robot's task.
Stays ==
    /\ SameContainers(queue, queue') /\ SameBatches
    /\ UNCHANGED <<robotTask, ports, arrived, done>>
    /\ \A c \in completions' \ completions : robotTask[c[1]] = c[2]

\* The task of robot r goes to the waiting list and the robot is free.
GivesUp(r) ==
    /\ robotTask[r] # None
    /\ SameContainers(AddWaitingTask(queue, robotTask[r]), queue') /\ SameBatches
    /\ robotTask' = [robotTask EXCEPT ![r] = None]
    /\ UNCHANGED <<ports, arrived, done>>
    /\ completions = {} /\ completions' = {}

\* Robot r hands its target over at a port.
Delivers(r) ==
    LET q == robotTask[r]
        batch == ToSet(queue.waitlist[Target[q]])
    IN
    /\ q # None
    /\ queue' = AddPickstationTask(PopBatchWaitlist(queue, Target[q]), q)
    /\ task' = [task EXCEPT ![q] = MarkWaitingAtPickstation(AddBatchedRequests(@, batch))]
    /\ robotTask' = [robotTask EXCEPT ![r] = None]
    /\ \E p \in Stations :
          LET l == [line EXCEPT ![p] = Append(@, q)] IN
          StartService(l, serving, p) \/ NoStart(l, serving, p)
    /\ UNCHANGED <<arrived, done>>
    /\ completions = {} /\ completions' = {}

\* What the handlers let the strategy see has the queue's own containers.
WorldNow(w) == WorldOK(w) /\ SameContainers(queue, w.queue) /\ BatchesOf(w.task)

\* Setting the task of q to an outcome's keeps the batches.
LEMMA OutcomeBatches ==
    ASSUME TypeOK, NEW w, WorldNow(w), NEW q \in Requests, NEW o \in NextAction(w, q),
           task' = [w.task EXCEPT ![q] = o.task]
    PROVE  SameBatches
<1>1. AnswerFor(q, w.task[q], w.queue, o)
  BY NextActionFrame DEF WorldNow
<1>2. o.task.batched = task[q].batched
  BY <1>1 DEF AnswerFor, WorldNow, BatchesOf
<1>3. w.task \in [Requests -> TaskType]
  BY DEF WorldNow, WorldOK
<1> QED BY <1>2, <1>3 DEF WorldNow, BatchesOf, SameBatches

\* Queues with the same containers as one with the same containers.
LEMMA SameContainersChain ==
    ASSUME NEW aq, NEW bq, NEW cq, SameContainers(aq, bq), SameContainers(bq, cq)
    PROVE  SameContainers(aq, cq)
BY DEF SameContainers

\* Two queues with the same containers have them after add_waiting_task.
LEMMA SameAfterWaiting ==
    ASSUME NEW aq \in QueueType, NEW bq \in QueueType, SameContainers(aq, bq), NEW q
    PROVE  SameContainers(AddWaitingTask(aq, q), AddWaitingTask(bq, q))
BY DEF SameContainers, AddWaitingTask, QueueType

\* A handler that asks the strategy for the task of its robot moves no
\* request, or the strategy has no action and the robot gives the task up.
LEMMA ScheduleNextMoves ==
    ASSUME TypeOK, Ready, NEW w, WorldNow(w), NEW r \in Robots, robotTask[r] # None, NEW evs,
           ScheduleNext(w, r, robotTask[r], evs), UNCHANGED <<ports, arrived, done>>
    PROVE  Stays \/ GivesUp(r)
<1> DEFINE q == robotTask[r]
<1>1. q \in Requests /\ queue \in QueueType /\ completions = {}
  BY DEF TypeOK, Ready
<1>2. PICK o \in NextAction(w, q) : Carry(w, r, q, o, evs, "handle")
  BY DEF ScheduleNext
<1>3. OutcomeOK(o) /\ SameContainers(w.queue, o.queue) /\ SameBatches
  BY <1>1, <1>2, NextActionOK, NextActionFrame, OutcomeBatches DEF WorldNow, AnswerFor, Carry
<1>4. o.queue \in QueueType /\ SameContainers(queue, o.queue)
  BY <1>3, SameContainersChain DEF OutcomeOK, WorldNow
<1>5. CASE o.act = NoAction
  <2>1. completions' = completions /\ queue' = AddWaitingTask(o.queue, q)
    BY <1>2, <1>5 DEF Carry, NoAction, Action
  <2>2. SameContainers(AddWaitingTask(queue, q), queue')
    BY <1>1, <1>4, <2>1, SameAfterWaiting
  <2> QED BY <1>1, <1>2, <1>3, <1>5, <2>1, <2>2 DEF Carry, GivesUp
<1>6. CASE o.act # NoAction
  <2>1. queue' = o.queue /\ robotTask' = [robotTask EXCEPT ![r] = q]
    BY <1>2, <1>6 DEF Carry
  <2>2. robotTask' = robotTask
    BY <2>1 DEF TypeOK
  <2>3. completions' \subseteq completions \cup {<<r, q>>}
    BY <1>2 DEF Carry
  <2> QED BY <1>3, <1>4, <2>1, <2>2, <2>3 DEF Stays
<1> QED BY <1>5, <1>6

\* A recovery that takes the task off its robot.
LEMMA RequeueMoves ==
    ASSUME TypeOK, Ready, NEW r \in Robots, robotTask[r] # None, NEW tasks, NEW aq \in QueueType,
           BatchesOf(tasks), SameContainers(queue, aq), NEW evs, Requeue(r, tasks, aq, evs),
           UNCHANGED <<ports, arrived, done>>
    PROVE  GivesUp(r)
<1>1. queue \in QueueType /\ completions = {}
  BY DEF TypeOK, Ready
<1>2. SameContainers(AddWaitingTask(queue, robotTask[r]), queue')
  BY <1>1, SameAfterWaiting DEF Requeue
<1>3. SameBatches
  BY DEF Requeue, BatchesOf, SameBatches
<1> QED BY <1>1, <1>2, <1>3 DEF Requeue, GivesUp

\* A handler that leaves tasks, queue and robots alone moves no request.
LEMMA NothingMoves ==
    ASSUME queue' = queue, robotTask' = robotTask, SameBatches,
           UNCHANGED <<ports, arrived, done>>, completions' = completions
    PROVE  Stays
BY DEF Stays, SameContainers

\* What the strategy sees now has the queue's containers.
LEMMA WorldNowIsNow == TypeOK => WorldNow(Now)
<1> SUFFICES ASSUME TypeOK PROVE WorldNow(Now)
  OBVIOUS
<1>1. WorldOK(Now)
  BY TypeOKParts, NowOK
<1>2. Now.task = task /\ Now.queue = queue
  BY DEF Now, World
<1> QED BY <1>1, <1>2 DEF WorldNow, SameContainers, BatchesOf

\* The PICKUP handler moves no request but by giving the robot's task up.
LEMMA PickupControl ==
    ASSUME TypeOK, NEW e \in BagToSet(events), Pickup(e)
    PROVE  Stays \/ GivesUp(e.robot)
<1> DEFINE r == e.robot
           q == e.request
<1>1. /\ Ready /\ e.act \in PhysicalActions /\ r \in Robots /\ q \in Requests
      /\ q # None /\ WorldNow(Now) /\ queue \in QueueType /\ task \in [Requests -> TaskType]
  BY EventFields, WorldNowIsNow, WarehouseAssumption DEF Pickup, TypeOK
<1>2. UNCHANGED <<ports, arrived, done>>
  BY DEF Pickup
<1>3. CASE UNCHANGED <<queue, task, robotTask, completions>>
  BY <1>2, <1>3, NothingMoves DEF SameBatches
<1>4. CASE robotTask[r] = q /\ ScheduleNext(Now, r, q, Drop(events, e))
  BY <1>1, <1>2, <1>4, ScheduleNextMoves
<1>5. CASE Discard(e)
  BY <1>3, <1>5 DEF Discard
<1>6. CASE robotTask[r] = q /\ PickupSucceeds(e)
  <2>1. UNCHANGED <<robotTask, completions>>
    BY <1>6 DEF PickupSucceeds
  <2>2. SameContainers(queue, queue')
    BY <1>1, <1>6 DEF PickupSucceeds, QueueAfterPickup, ReleaseBlocker, SameContainers, QueueType
  <2> DEFINE b == e.act.bin
             tasks == TasksAfterPickup(r, b)
  <2>3. BatchesOf(tasks) /\ DOMAIN tasks = Requests
    <3>1. \A t \in TaskType : ForgetRelocation(t, b).batched = t.batched
      BY DEF ForgetRelocation, TaskType
    <3> QED BY <1>1, <3>1 DEF TasksAfterPickup, BatchesOf
  <2>4. SameBatches
    <3>1. \/ task' = tasks
          \/ \E p \in Stations : task' = [tasks EXCEPT ![robotTask[r]].station = p]
      BY <1>6 DEF PickupSucceeds
    <3>2. ASSUME NEW p, task' = [tasks EXCEPT ![q].station = p]
          PROVE  SameBatches
      <4>1. \A x \in Requests : task'[x].batched = tasks[x].batched
        BY <1>1, <2>3, <3>2
      <4> QED BY <2>3, <4>1 DEF SameBatches, BatchesOf
    <3> QED BY <1>6, <2>3, <3>1, <3>2 DEF SameBatches, BatchesOf
  <2> QED BY <1>2, <2>1, <2>2, <2>4 DEF Stays
<1>7. CASE robotTask[r] = q /\ PickupNotOnTop(e)
  <2>1. PICK o \in NextAction(Now, q) :
          LET tasks == [task EXCEPT ![q] = o.task] IN
          \/ /\ task' = tasks
             /\ queue' = o.queue
             /\ UNCHANGED <<robotTask, events, completions, pc, requeues>>
          \/ Carry(Now, r, q, o, Drop(events, e), "handle")
          \/ Requeue(r, tasks, o.queue, Drop(events, e))
    BY <1>7 DEF PickupNotOnTop
  <2> DEFINE tasks == [task EXCEPT ![q] = o.task]
  <2>2. /\ o.queue \in QueueType /\ SameContainers(queue, o.queue)
        /\ o.task.batched = task[q].batched
    <3>1. OutcomeOK(o) /\ AnswerFor(q, Now.task[q], Now.queue, o)
      BY <1>1, <2>1, NextActionOK, NextActionFrame DEF WorldNow
    <3> QED BY <3>1 DEF OutcomeOK, AnswerFor, Now, World
  <2>3. BatchesOf(tasks)
    BY <1>1, <2>2 DEF BatchesOf
  <2>4. CASE task' = tasks /\ queue' = o.queue /\ UNCHANGED <<robotTask, completions>>
    BY <1>2, <2>2, <2>3, <2>4 DEF Stays, SameBatches, BatchesOf
  <2>5. CASE Carry(Now, r, q, o, Drop(events, e), "handle")
    <3>1. ScheduleNext(Now, r, q, Drop(events, e))
      BY <2>1, <2>5 DEF ScheduleNext
    <3> QED BY <1>4, <1>7, <3>1
  <2>6. CASE Requeue(r, tasks, o.queue, Drop(events, e))
    BY <1>1, <1>2, <1>7, <2>2, <2>3, <2>6, RequeueMoves
  <2> QED BY <2>1, <2>4, <2>5, <2>6
<1>8. CASE robotTask[r] = q /\ Requeue(r, task, queue, Drop(events, e))
  BY <1>1, <1>2, <1>8, RequeueMoves DEF BatchesOf, SameContainers
<1> QED BY <1>3, <1>4, <1>5, <1>6, <1>7, <1>8 DEF Pickup

\* What a world after a drop needs to have the queue's containers.
LEMMA WorldAfterDropNow ==
    ASSUME TypeOK, NEW e \in BagToSet(events), e.act \in PhysicalActions,
           e.act.type # "remove_target",
           NEW tasks \in [Requests -> TaskType], BatchesOf(tasks),
           NEW aq \in QueueType, SameContainers(queue, aq)
    PROVE  WorldNow(WorldAfterDrop(e, tasks, aq))
<1> DEFINE w == WorldAfterDrop(e, tasks, aq)
<1>1. WorldOK(w)
  BY PutDownType, WorldIsOK DEF WorldAfterDrop
<1>2. w.task = tasks /\ w.queue = aq
  BY DEF WorldAfterDrop, World
<1> QED BY <1>1, <1>2 DEF WorldNow, BatchesOf

\* The task has come neither nearer to its end nor further from it.
SameLife(t, u) ==
    /\ u.removed = t.removed /\ u.returned = t.returned /\ u.phase = t.phase
    /\ u.delivered = t.delivered /\ u.served = t.served /\ u.home = t.home

LivesOf(tasks) == \A p \in Requests : SameLife(task[p], tasks[p])

\* After the drop e of a bin on a stack the strategy is asked in the world w.
AsksAfterDrop(e, w) ==
    /\ WorldNow(w)
    /\ \E tasks, aq : w = WorldAfterDrop(e, tasks, aq)
    /\ LivesOf(w.task)
    /\ ScheduleNext(w, e.robot, robotTask[e.robot], Drop(events, e))

\* What the drop handlers pass to the strategy is such a world.
LEMMA AskingAfterDrop ==
    ASSUME TypeOK, NEW e \in BagToSet(events), e.act \in PhysicalActions,
           e.act.type # "remove_target",
           NEW tasks \in [Requests -> TaskType], BatchesOf(tasks), LivesOf(tasks),
           NEW aq \in QueueType, SameContainers(queue, aq),
           ScheduleNext(WorldAfterDrop(e, tasks, aq), e.robot, robotTask[e.robot],
                        Drop(events, e))
    PROVE  AsksAfterDrop(e, WorldAfterDrop(e, tasks, aq))
<1>1. WorldAfterDrop(e, tasks, aq).task = tasks
  BY DEF WorldAfterDrop, World
<1> QED BY <1>1, WorldAfterDropNow DEF AsksAfterDrop

\* The drop of a relocated bin: the strategy is asked what comes next.
LEMMA DropRelocatedAsks ==
    ASSUME TypeOK, NEW e \in BagToSet(events), e.act \in PhysicalActions,
           IsRelocate(e.act), robotTask[e.robot] # None, DropRelocated(e)
    PROVE  \E w : AsksAfterDrop(e, w)
<1> DEFINE r == e.robot
           q == robotTask[r]
           b == e.act.bin
           tasks == [task EXCEPT ![q] = RememberRelocation(@, b, e.act.from, e.act.to)]
           aq == RegisterBlocker(queue, b, q)
<1>1. /\ r \in Robots /\ q \in Requests /\ b \in Bins
      /\ e.act.from \in Stacks /\ e.act.to \in Stacks /\ e.act.type # "remove_target"
      /\ queue \in QueueType /\ task \in [Requests -> TaskType]
  BY EventFields DEF PhysicalActions, IsRelocate, TypeOK
<1>2. tasks \in [Requests -> TaskType] /\ BatchesOf(tasks) /\ LivesOf(tasks)
  <2>1. RememberRelocation(task[q], b, e.act.from, e.act.to) \in TaskType
    BY <1>1, RememberRelocationType
  <2>2. /\ RememberRelocation(task[q], b, e.act.from, e.act.to).batched = task[q].batched
        /\ SameLife(task[q], RememberRelocation(task[q], b, e.act.from, e.act.to))
    BY <1>1 DEF RememberRelocation, TaskType, SameLife
  <2>3. /\ tasks \in [Requests -> TaskType]
        /\ tasks[q] = RememberRelocation(task[q], b, e.act.from, e.act.to)
        /\ \A p \in Requests : p # q => tasks[p] = task[p]
    BY <1>1, <2>1
  <2> HIDE DEF tasks
  <2> QED BY <1>1, <2>2, <2>3 DEF BatchesOf, LivesOf, SameLife
<1>3. aq \in QueueType /\ SameContainers(queue, aq)
  BY <1>1, BlockerOwnershipType DEF RegisterBlocker, SameContainers, QueueType
<1>4. BatchesOf(task) /\ LivesOf(task) /\ SameContainers(queue, queue)
  BY DEF BatchesOf, LivesOf, SameLife, SameContainers
<1>5. CASE e.act.type = "unbury"
  <2>1. ScheduleNext(WorldAfterDrop(e, task, queue), r, q, Drop(events, e))
    BY <1>5 DEF DropRelocated
  <2> QED BY <1>1, <1>4, <2>1, AskingAfterDrop
<1>6. CASE e.act.type # "unbury"
  <2>1. ScheduleNext(WorldAfterDrop(e, tasks, aq), r, q, Drop(events, e))
    BY <1>6 DEF DropRelocated
  <2> HIDE DEF tasks, aq
  <2> QED BY <1>1, <1>2, <1>3, <2>1, AskingAfterDrop
<1> QED BY <1>5, <1>6

\* The drop of a returned blocker: a mismatch ends the run, otherwise the
\* strategy is asked what comes next.
LEMMA DropBlockerAsks ==
    ASSUME TypeOK, NEW e \in BagToSet(events), e.act \in PhysicalActions,
           e.act.type = "return_blocker", robotTask[e.robot] # None, DropBlocker(e)
    PROVE  \/ \E w : AsksAfterDrop(e, w)
           \/ /\ pc' = "failed" /\ UNCHANGED <<queue, task, robotTask, events, completions>>
              /\ RestoreMismatch(task[robotTask[e.robot]], e.act.bin, e.act.from, e.act.to)
<1> DEFINE r == e.robot
           q == robotTask[r]
           b == e.act.bin
           tasks == [task EXCEPT ![q] = MarkLastRelocationRestored(@, b)]
           aq == ReleaseBlocker(queue, b)
<1>1. /\ r \in Robots /\ q \in Requests /\ b \in Bins /\ e.act.type # "remove_target"
      /\ queue \in QueueType /\ task \in [Requests -> TaskType]
  BY EventFields DEF PhysicalActions, TypeOK
<1>2. tasks \in [Requests -> TaskType] /\ BatchesOf(tasks) /\ LivesOf(tasks)
  <2>1. MarkLastRelocationRestored(task[q], b) \in TaskType
    BY <1>1, MarkLastRelocationRestoredType
  <2>2. /\ MarkLastRelocationRestored(task[q], b).batched = task[q].batched
        /\ SameLife(task[q], MarkLastRelocationRestored(task[q], b))
    BY <1>1 DEF MarkLastRelocationRestored, TaskType, SameLife
  <2>3. /\ tasks \in [Requests -> TaskType]
        /\ tasks[q] = MarkLastRelocationRestored(task[q], b)
        /\ \A p \in Requests : p # q => tasks[p] = task[p]
    BY <1>1, <2>1
  <2> HIDE DEF tasks
  <2> QED BY <1>1, <2>2, <2>3 DEF BatchesOf, LivesOf, SameLife
<1>3. aq \in QueueType /\ SameContainers(queue, aq)
  BY <1>1, BlockerOwnershipType DEF ReleaseBlocker, SameContainers, QueueType
<1>4. CASE ScheduleNext(WorldAfterDrop(e, tasks, aq), r, q, Drop(events, e))
  <2> HIDE DEF tasks, aq
  <2> QED BY <1>1, <1>2, <1>3, <1>4, AskingAfterDrop
<1> QED BY <1>4 DEF DropBlocker

\* The two drops of a robot that goes on with its task.
LEMMA DropRelocatedControl ==
    ASSUME TypeOK, Ready, NEW e \in BagToSet(events), e.act \in PhysicalActions,
           IsRelocate(e.act), robotTask[e.robot] # None, DropRelocated(e),
           UNCHANGED <<arrived, done>>
    PROVE  Stays \/ GivesUp(e.robot)
<1>1. PICK w : AsksAfterDrop(e, w)
  BY DropRelocatedAsks
<1>2. e.robot \in Robots /\ UNCHANGED ports
  BY EventFields DEF DropRelocated
<1> QED BY <1>1, <1>2, ScheduleNextMoves DEF AsksAfterDrop

\* A returned blocker.
LEMMA DropBlockerControl ==
    ASSUME TypeOK, Ready, NEW e \in BagToSet(events), e.act \in PhysicalActions,
           e.act.type = "return_blocker", robotTask[e.robot] # None, DropBlocker(e),
           UNCHANGED <<arrived, done>>
    PROVE  Stays \/ GivesUp(e.robot)
<1>1. e.robot \in Robots /\ UNCHANGED ports
  BY EventFields DEF DropBlocker
<1>2. CASE UNCHANGED <<queue, task, robotTask, completions>>
  BY <1>1, <1>2, NothingMoves DEF SameBatches
<1>3. ASSUME NEW w, AsksAfterDrop(e, w)
      PROVE  Stays \/ GivesUp(e.robot)
  BY <1>1, <1>3, ScheduleNextMoves DEF AsksAfterDrop
<1> QED BY <1>2, <1>3, DropBlockerAsks

\* A returned target: the completion that becomes due is the robot's own.
LEMMA DropTargetControl ==
    ASSUME TypeOK, NEW e \in BagToSet(events), robotTask[e.robot] # None,
           DropTarget(e), UNCHANGED <<arrived, done>>
    PROVE  Stays
<1> DEFINE r == e.robot
           q == robotTask[r]
<1>1. r \in Robots /\ q \in Requests /\ task \in [Requests -> TaskType]
  BY EventFields DEF TypeOK
<1>2. UNCHANGED <<queue, robotTask, ports>>
  BY DEF DropTarget, Discard
<1>3. SameContainers(queue, queue')
  BY <1>2 DEF SameContainers
<1>4. CASE Discard(e)
  BY <1>2, <1>4, NothingMoves DEF Discard, SameBatches
<1>5. CASE /\ task' = [task EXCEPT ![q] = MarkTargetReturned([@ EXCEPT !.actual = e.act.to])]
           /\ completions' = completions \cup {<<r, q>>}
  <2>1. MarkTargetReturned([task[q] EXCEPT !.actual = e.act.to]).batched = task[q].batched
    BY <1>1 DEF MarkTargetReturned, TaskType
  <2>2. SameBatches
    BY <1>1, <1>5, <2>1 DEF SameBatches
  <2> QED BY <1>2, <1>3, <1>5, <2>2 DEF Stays
<1> QED BY <1>4, <1>5 DEF DropTarget

\* A delivered target, as seen by the bins and by the event list.
LEMMA DropAtPortBins ==
    ASSUME NEW e, DropAtPort(e)
    PROVE  /\ status' = [status EXCEPT ![e.act.bin] = "at_pickstation"]
           /\ moving' = moving \ {e.act.bin}
           /\ carried' = LoadCleared(e)
           /\ UNCHANGED <<stack, completions>>
           /\ events' = Drop(events, e)
BY Zenon DEF DropAtPort

\* A robot without a task cannot deliver.
LEMMA DropAtPortIdle ==
    ASSUME NEW e, DropAtPort(e), robotTask[e.robot] = None
    PROVE  UNCHANGED <<queue, task, robotTask, ports>>
BY Zenon DEF DropAtPort

\* A robot with one takes its task, with the batch behind it, to the station.
LEMMA DropAtPortOwn ==
    ASSUME NEW e, DropAtPort(e), robotTask[e.robot] # None
    PROVE  LET q == robotTask[e.robot]
               p == IF task[q].station # None THEN task[q].station
                    ELSE CHOOSE s \in Stations : TRUE
               l == [line EXCEPT ![p] = Append(@, q)]
           IN  /\ task' = [task EXCEPT ![q] = MarkWaitingAtPickstation(
                             AddBatchedRequests(@, ToSet(queue.waitlist[Target[q]])))]
               /\ queue' = AddPickstationTask(PopBatchWaitlist(queue, Target[q]), q)
               /\ robotTask' = [robotTask EXCEPT ![e.robot] = None]
               /\ \/ StartService(l, serving, p)
                  \/ "exit_blocked" \in Faults /\ NoStart(l, serving, p)
BY Zenon DEF DropAtPort

\* A delivered target.
LEMMA DropAtPortControl ==
    ASSUME TypeOK, Ready, NEW e \in BagToSet(events), DropAtPort(e), UNCHANGED <<arrived, done>>
    PROVE  Stays \/ Delivers(e.robot)
<1> DEFINE r == e.robot
           q == robotTask[r]
           p == IF task[q].station # None THEN task[q].station
                ELSE CHOOSE s \in Stations : TRUE
<1>1. r \in Robots /\ q \in Requests \cup {None} /\ completions = {} /\ completions' = {}
  BY EventFields, DropAtPortBins DEF TypeOK, Ready
<1>2. CASE q = None
  <2>1. UNCHANGED <<queue, task, robotTask, ports, completions>>
    BY <1>2, DropAtPortBins, DropAtPortIdle, Zenon
  <2> QED BY <2>1, NothingMoves DEF SameBatches
<1>3. CASE q # None
  <2> DEFINE l == [line EXCEPT ![p] = Append(@, q)]
  <2>1. p \in Stations
    BY <1>1, <1>3, WarehouseAssumption DEF TypeOK, TaskType
  <2>2. /\ task' = [task EXCEPT ![q] = MarkWaitingAtPickstation(
                      AddBatchedRequests(@, ToSet(queue.waitlist[Target[q]])))]
        /\ queue' = AddPickstationTask(PopBatchWaitlist(queue, Target[q]), q)
        /\ robotTask' = [robotTask EXCEPT ![r] = None]
        /\ StartService(l, serving, p) \/ NoStart(l, serving, p)
    BY <1>3, DropAtPortOwn
  <2> HIDE DEF p
  <2> QED BY <1>1, <1>3, <2>1, <2>2 DEF Delivers
<1> QED BY <1>2, <1>3

\* The DROP handler moves no request but by giving the task up or delivering.
LEMMA HandleDropControl ==
    ASSUME TypeOK, NEW e \in BagToSet(events), HandleDrop(e)
    PROVE  Stays \/ GivesUp(e.robot) \/ Delivers(e.robot)
<1> DEFINE r == e.robot
           q == robotTask[r]
<1>1. /\ Ready /\ e.act \in PhysicalActions /\ r \in Robots /\ WorldNow(Now)
      /\ task \in [Requests -> TaskType]
  BY EventFields, WorldNowIsNow DEF HandleDrop, TypeOK
<1>2. UNCHANGED <<arrived, done>>
  BY DEF HandleDrop
<1>3. CASE ScheduleNext(Now, r, q, Drop(events, e)) /\ q # None /\ UNCHANGED ports
  BY <1>1, <1>2, <1>3, ScheduleNextMoves
<1>4. CASE Discard(e) /\ UNCHANGED ports
  BY <1>2, <1>4, NothingMoves DEF Discard, SameBatches
<1>5. CASE UNCHANGED <<queue, task, robotTask, ports, completions>>
  BY <1>2, <1>5, NothingMoves DEF SameBatches
<1>6. CASE RedirectBlockedDrop(e)
  <2>1. UNCHANGED <<queue, robotTask, ports, completions>>
    BY <1>6 DEF RedirectBlockedDrop
  <2>2. SameBatches
    <3>1. \A t \in TaskType : \A b, s : UpdateReturnStack(t, b, s).batched = t.batched
      BY DEF UpdateReturnStack, TaskType
    <3>2. PICK s : \/ task' = task
                   \/ task' = [task EXCEPT ![q] = UpdateReturnStack(@, e.act.bin, s)]
      BY <1>6 DEF RedirectBlockedDrop
    <3> QED BY <1>1, <3>1, <3>2 DEF SameBatches
  <2> QED BY <1>2, <2>1, <2>2, NothingMoves
<1>7. CASE DropEffect(e)
  <2>1. CASE DropAtPort(e)
    BY <1>1, <1>2, <2>1, DropAtPortControl
  <2>2. CASE DropWithoutTask(e)
    BY <1>4, <2>2 DEF DropWithoutTask
  <2>3. CASE q # None /\ IsRelocate(e.act) /\ DropRelocated(e)
    BY <1>1, <1>2, <2>3, DropRelocatedControl
  <2>4. CASE q # None /\ e.act.type = "return_blocker" /\ DropBlocker(e)
    BY <1>1, <1>2, <2>4, DropBlockerControl
  <2>5. CASE q # None /\ DropTarget(e)
    BY <1>1, <1>2, <2>5, DropTargetControl
  <2>6. \/ e.act.type = "remove_target"
        \/ q = None /\ e.act.type # "remove_target"
        \/ q # None /\ IsRelocate(e.act)
        \/ q # None /\ e.act.type = "return_blocker"
        \/ q # None /\ e.act.type = "return_target"
    BY <1>1 DEF PhysicalActions, IsRelocate
  <2> QED BY <1>7, <2>1, <2>2, <2>3, <2>4, <2>5, <2>6 DEF DropEffect, IsRelocate
<1>8. OutdatedReturn(e) => q # None
  BY DEF OutdatedReturn
<1> QED BY <1>3, <1>4, <1>5, <1>6, <1>7, <1>8 DEF HandleDrop

\* The ROBOT_ACTION handler moves no request but by giving the task up.
LEMMA RobotActionControl ==
    ASSUME TypeOK, NEW e \in BagToSet(events), RobotAction(e)
    PROVE  Stays \/ GivesUp(e.robot)
<1> DEFINE r == e.robot
           q == robotTask[r]
<1>1. Ready /\ r \in Robots /\ WorldNow(Now) /\ queue \in QueueType
  BY EventFields, WorldNowIsNow DEF RobotAction, TypeOK
<1>2. UNCHANGED <<ports, arrived, done>>
  BY DEF RobotAction
<1>3. CASE q # None /\ ScheduleNext(Now, r, q, Drop(events, e))
  BY <1>1, <1>2, <1>3, ScheduleNextMoves
<1>4. CASE Discard(e)
  BY <1>2, <1>4, NothingMoves DEF Discard, SameBatches
<1>5. CASE q # None /\ Requeue(r, task, queue, Drop(events, e))
  BY <1>1, <1>2, <1>5, RequeueMoves DEF BatchesOf, SameContainers
<1> QED BY <1>3, <1>4, <1>5 DEF RobotAction

\* Asking the strategy again and throwing its answer away moves no request.
LEMMA ForceReplanControl ==
    ASSUME TypeOK, NEW r \in Robots, ForceReplan(r)
    PROVE  Stays
<1> DEFINE q == robotTask[r]
<1>1. q \in Requests /\ WorldNow(Now) /\ Now.task = task /\ Now.queue = queue
  BY WorldNowIsNow DEF ForceReplan, TypeOK, Now, World
<1>2. PICK o \in NextAction(Now, q) : task' = [task EXCEPT ![q] = o.task] /\ queue' = o.queue
  BY DEF ForceReplan
<1>3. SameBatches /\ SameContainers(queue, queue')
  BY <1>1, <1>2, OutcomeBatches, NextActionFrame DEF WorldNow, AnswerFor
<1> QED BY <1>3 DEF ForceReplan, Stays

\* Every step of the system, as seen by the containers.
LEMMA Moves ==
    ASSUME TypeOK, [Next]_vars
    PROVE  \/ Stays
           \/ \E r \in Robots : GivesUp(r) \/ Delivers(r)
           \/ Arrival
           \/ \E r \in Robots, i \in DOMAIN queue.waiting : ScheduleWaiting(r, i)
           \/ \E r \in Robots, i \in DOMAIN queue.pending : ScheduleNew(r, i)
           \/ ScheduleDone
           \/ \E p \in Stations, q \in Requests : PickstationComplete(p, q)
           \/ \E r \in Robots, q \in Requests : RequestComplete(r, q)
<1>1. CASE Arrival \/ Schedule
  BY <1>1 DEF Schedule
<1>2. CASE \E r \in Robots : RobotEvent(r)
  <2>1. PICK e \in BagToSet(events) : Pickup(e) \/ HandleDrop(e) \/ RobotAction(e)
    BY <1>2 DEF RobotEvent
  <2>2. e.robot \in Robots
    BY EventFields
  <2> QED BY <2>1, <2>2, PickupControl, HandleDropControl, RobotActionControl
<1>3. CASE \E p \in Stations, q \in Requests : PickstationComplete(p, q)
  BY <1>3
<1>4. CASE \E r \in Robots, q \in Requests : RequestComplete(r, q)
  BY <1>4
<1>5. ASSUME NEW r \in Robots, RequeueVictim(r)
      PROVE  GivesUp(r)
  <2>1. Ready /\ robotTask[r] # None /\ UNCHANGED <<ports, arrived, done>>
        /\ Requeue(r, task, queue, events)
    BY <1>5 DEF RequeueVictim
  <2>2. queue \in QueueType /\ BatchesOf(task) /\ SameContainers(queue, queue)
    BY DEF TypeOK, BatchesOf, SameContainers
  <2> QED BY <2>1, <2>2, RequeueMoves
<1>6. CASE \E r \in Robots : ForceReplan(r)
  BY <1>6, ForceReplanControl
<1>7. CASE UNCHANGED vars
  BY <1>7, NothingMoves DEF vars, ports, SameBatches
<1> QED BY <1>1, <1>2, <1>3, <1>4, <1>5, <1>6, <1>7 DEF Next

----------------------------------------------------------------------------
(* The invariant *)

Pending    == ToSet(queue.pending)
Waiting    == ToSet(queue.waiting)
BatchOf(b) == ToSet(queue.waitlist[b])
Waitlisted == UNION {BatchOf(b) : b \in Bins}
Finished   == done \cup Batched
AtPort(p)  == ToSet(line[p]) \cup serving[p]

\* A request is listed at most once, and behind its own bin.
Lists ==
    /\ IsInjective(queue.pending) /\ IsInjective(queue.waiting)
    /\ \A b \in Bins :
          IsInjective(queue.waitlist[b]) /\ \A q \in BatchOf(b) : Target[q] = b

\* No request is in two containers, nor in one after it is finished.
Apart ==
    /\ Pending \cap (Waitlisted \cup Active \cup Finished) = {}
    /\ Waitlisted \cap (Active \cup Finished) = {}
    /\ Active \cap Finished = {}
    /\ Assigned(queue) \cap (Waiting \cup queue.pickstation) = {}
    /\ Waiting \cap queue.pickstation = {}

\* Containers hold requests that have arrived.
Came == Pending \cup Waitlisted \cup Active \cup Finished \subseteq 1 .. arrived

\* The tasks that queue or are served at a station are on the station list,
\* each of them once.
AtPorts ==
    /\ \A p \in Stations : /\ AtPort(p) \subseteq queue.pickstation
                           /\ IsInjective(line[p])
                           /\ ToSet(line[p]) \cap serving[p] = {}
    /\ \A p, s \in Stations : p # s => AtPort(p) \cap AtPort(s) = {}

\* A completion is due for the task its robot holds.
CompletionsHeld == \A c \in completions : robotTask[c[1]] = c[2]

QueueInv ==
    /\ AssignmentsAgree /\ Lists /\ Apart /\ Came /\ AtPorts
    /\ CompletionsHeld /\ DistinctTargets

\* The requests some container holds or that are finished, and a step that
\* takes none of them away.
Everywhere == Pending \cup Waitlisted \cup Active \cup Finished
NoneLost   == Everywhere \subseteq Everywhere'

\* Active is the union of three containers.
LEMMA ActiveIs == Active = Assigned(queue) \cup Waiting \cup queue.pickstation
BY DEF Active, Waiting

\* Active after a step, likewise.
LEMMA ActiveIsNext == Active' = Assigned(queue') \cup Waiting' \cup queue'.pickstation
BY DEF Active, Waiting

\* Containers, tasks and ports that are left alone keep the invariant and every
\* request.
LEMMA StaysInv ==
    ASSUME TypeOK, QueueInv, Stays
    PROVE  QueueInv' /\ Active' = Active /\ NoneLost
<1>1. /\ queue'.pending = queue.pending /\ queue'.assigned = queue.assigned
      /\ queue'.waiting = queue.waiting /\ queue'.pickstation = queue.pickstation
      /\ queue'.waitlist = queue.waitlist
      /\ UNCHANGED <<robotTask, line, serving, arrived, done>>
  BY DEF Stays, SameContainers, ports
<1>2. Batched' = Batched
  BY DEF Stays, SameBatches, Batched
<1>3. Pending' = Pending /\ Waiting' = Waiting /\ Finished' = Finished
      /\ (\A b : BatchOf(b)' = BatchOf(b)) /\ (\A p : AtPort(p)' = AtPort(p))
  BY <1>1, <1>2 DEF Pending, Waiting, BatchOf, Finished, AtPort
<1>4. Waitlisted' = Waitlisted
  BY <1>3 DEF Waitlisted
<1>5. Assigned(queue') = Assigned(queue) /\ Active' = Active
  BY <1>1 DEF Assigned, Active
<1>6. AssignmentsAgree'
  BY <1>1 DEF AssignmentsAgree, QueueInv
<1>7. Lists'
  BY <1>1, <1>3 DEF Lists, QueueInv
<1>8. Apart' /\ Came'
  BY <1>1, <1>3, <1>4, <1>5 DEF Apart, Came, QueueInv
<1>9. AtPorts'
  BY <1>1, <1>3 DEF AtPorts, QueueInv
<1>10. CompletionsHeld'
  BY <1>1 DEF Stays, CompletionsHeld, QueueInv
<1>11. DistinctTargets'
  BY <1>5 DEF DistinctTargets, QueueInv
<1>12. NoneLost
  BY <1>3, <1>4, <1>5 DEF NoneLost, Everywhere
<1> QED BY <1>5, <1>6, <1>7, <1>8, <1>9, <1>10, <1>11, <1>12 DEF QueueInv

\* What QueueInv says of a task a robot holds.
LEMMA HeldTask ==
    ASSUME TypeOK, QueueInv, NEW r \in Robots, robotTask[r] # None
    PROVE  /\ robotTask[r] \in Requests /\ queue.assigned[robotTask[r]] = r
           /\ robotTask[r] \in Assigned(queue) /\ robotTask[r] \in Active
           /\ robotTask[r] \notin Pending /\ robotTask[r] \notin Waitlisted
           /\ robotTask[r] \notin Waiting /\ robotTask[r] \notin queue.pickstation
           /\ robotTask[r] \notin Finished
           /\ Target[robotTask[r]] \in Bins
           /\ \A s \in Robots : robotTask[s] = robotTask[r] => s = r
<1> DEFINE q == robotTask[r]
<1>1. q \in Requests /\ Target[q] \in Bins
  BY WarehouseAssumption DEF TypeOK
<1>2. queue.assigned[q] = r /\ \A s \in Robots : robotTask[s] = q => s = r
  BY <1>1 DEF QueueInv, AssignmentsAgree
<1>3. q \in Assigned(queue)
  BY <1>1, <1>2, WarehouseAssumption DEF Assigned
<1>4. q \in Active
  BY <1>3 DEF Active
<1> QED BY <1>1, <1>2, <1>3, <1>4 DEF QueueInv, Apart

\* What add_waiting_task does to the containers, for a queue of the system.
LEMMA AddWaitingTaskDoes ==
    ASSUME NEW aq \in QueueType, NEW q \in Requests, IsInjective(aq.waiting)
    PROVE  LET bq == AddWaitingTask(aq, q) IN
           /\ bq.pending = aq.pending /\ bq.pickstation = aq.pickstation
           /\ bq.waitlist = aq.waitlist
           /\ bq.assigned = [aq.assigned EXCEPT ![q] = None]
           /\ IsInjective(bq.waiting)
           /\ ToSet(bq.waiting) = ToSet(aq.waiting) \cup {q}
<1> DEFINE bq == AddWaitingTask(aq, q)
<1>1. /\ bq.pending = aq.pending /\ bq.pickstation = aq.pickstation
      /\ bq.waitlist = aq.waitlist
      /\ bq.assigned = [aq.assigned EXCEPT ![q] = None]
      /\ bq.waiting = IF Contains(aq.waiting, q) THEN aq.waiting ELSE Append(aq.waiting, q)
  BY DEF AddWaitingTask, QueueType
<1>2. aq.waiting \in Seq(Requests) /\ DOMAIN aq.waiting = 1 .. Len(aq.waiting)
  BY LenProperties DEF QueueType
<1>3. Contains(aq.waiting, q) <=> q \in ToSet(aq.waiting)
  BY <1>2 DEF Contains, ToSet
<1>4. CASE Contains(aq.waiting, q)
  BY <1>1, <1>3, <1>4
<1>5. CASE ~Contains(aq.waiting, q)
  <2>1. /\ IsInjective(Append(aq.waiting, q))
        /\ ToSet(Append(aq.waiting, q)) = ToSet(aq.waiting) \cup {q}
    BY <1>2, <1>3, <1>5, AppendList
  <2> QED BY <1>1, <1>5, <2>1
<1> QED BY <1>4, <1>5

\* The rest of the invariant is about batches and ports that a step may leave
\* alone.
SameRest ==
    /\ queue'.waitlist = queue.waitlist /\ SameBatches
    /\ UNCHANGED <<line, serving, arrived, done>>

\* A step that leaves batches alone.
LEMMA SameRestDoes ==
    ASSUME SameRest
    PROVE  /\ Finished' = Finished /\ Waitlisted' = Waitlisted
           /\ \A b : BatchOf(b)' = BatchOf(b)
           /\ \A p : AtPort(p)' = AtPort(p)
<1>1. Batched' = Batched
  BY DEF SameRest, SameBatches, Batched
<1> QED BY <1>1 DEF SameRest, Finished, Waitlisted, BatchOf, AtPort

\* A step that leaves batches alone and moves requests only among the other
\* containers keeps the invariant, once it is known to for the rest.
LEMMA SameRestInv ==
    ASSUME QueueInv, SameRest,
           AssignmentsAgree', CompletionsHeld', DistinctTargets',
           IsInjective(queue'.pending), IsInjective(queue'.waiting),
           Pending' \cup Active' \subseteq Pending \cup Active,
           Pending' \cap Active' = {},
           Assigned(queue') \cap (Waiting' \cup queue'.pickstation) = {},
           Waiting' \cap queue'.pickstation = {},
           queue.pickstation \subseteq queue'.pickstation
    PROVE  QueueInv'
<1>1. /\ Finished' = Finished /\ Waitlisted' = Waitlisted
      /\ \A b : BatchOf(b)' = BatchOf(b)
      /\ \A p : AtPort(p)' = AtPort(p)
  BY SameRestDoes
<1>2. Lists'
  BY <1>1 DEF Lists, QueueInv, SameRest
<1>3. Apart'
  BY <1>1 DEF Apart, QueueInv
<1>4. Came'
  BY <1>1 DEF Came, QueueInv, SameRest
<1>5. AtPorts'
  BY <1>1 DEF AtPorts, QueueInv, SameRest
<1> QED BY <1>2, <1>3, <1>4, <1>5 DEF QueueInv

\* Fewer running tasks still fetch distinct bins.
LEMMA FewerTargets == DistinctTargets /\ Active' \subseteq Active => DistinctTargets'
BY DEF DistinctTargets

\* A robot that gives its task up keeps the invariant and every request.
LEMMA GivesUpInv ==
    ASSUME TypeOK, QueueInv, NEW r \in Robots, GivesUp(r)
    PROVE  QueueInv' /\ Active' = Active /\ NoneLost
<1> DEFINE q == robotTask[r]
           aq == AddWaitingTask(queue, q)
<1>1. /\ q \in Requests /\ queue.assigned[q] = r /\ q \in Assigned(queue) /\ q \in Active
      /\ q \notin Pending /\ q \notin Waiting /\ q \notin queue.pickstation
      /\ \A s \in Robots : robotTask[s] = q => s = r
  BY HeldTask DEF GivesUp
<1>2. queue \in QueueType /\ IsInjective(queue.waiting)
  BY DEF TypeOK, QueueInv, Lists
<1>3. /\ queue'.pending = queue.pending /\ queue'.pickstation = queue.pickstation
      /\ queue'.waitlist = queue.waitlist
      /\ queue'.assigned = [queue.assigned EXCEPT ![q] = None]
      /\ IsInjective(queue'.waiting) /\ Waiting' = Waiting \cup {q}
  <2>1. /\ aq.pending = queue.pending /\ aq.pickstation = queue.pickstation
        /\ aq.waitlist = queue.waitlist
        /\ aq.assigned = [queue.assigned EXCEPT ![q] = None]
        /\ IsInjective(aq.waiting) /\ ToSet(aq.waiting) = Waiting \cup {q}
    BY <1>1, <1>2, AddWaitingTaskDoes DEF Waiting
  <2> QED BY <2>1 DEF GivesUp, SameContainers, Waiting
<1>4. Assigned(queue') = Assigned(queue) \ {q}
  BY <1>1, <1>2, <1>3 DEF Assigned, QueueType
<1>5. AssignmentsAgree'
  <2>1. \A s \in Robots : robotTask'[s] = IF s = r THEN None ELSE robotTask[s]
    BY DEF GivesUp, TypeOK
  <2>2. \A x \in Requests : queue'.assigned[x] = IF x = q THEN None ELSE queue.assigned[x]
    BY <1>2, <1>3 DEF QueueType
  <2>3. None \notin Requests /\ None \notin Robots
    BY WarehouseAssumption
  <2> QED BY <1>1, <2>1, <2>2, <2>3 DEF AssignmentsAgree, QueueInv
<1>6. CompletionsHeld'
  BY DEF GivesUp, CompletionsHeld
<1>7. Pending' = Pending
  BY <1>3 DEF Pending
<1>8. Active' = Active
  BY <1>1, <1>3, <1>4, ActiveIs, ActiveIsNext
<1>9. DistinctTargets'
  BY <1>8, FewerTargets DEF QueueInv
<1>10. SameRest
  BY <1>3 DEF GivesUp, SameRest, ports
<1>11. /\ Assigned(queue') \cap (Waiting' \cup queue'.pickstation) = {}
       /\ Waiting' \cap queue'.pickstation = {}
       /\ Pending' \cap Active' = {}
  BY <1>1, <1>3, <1>4, <1>7, <1>8 DEF QueueInv, Apart
<1>12. QueueInv'
  BY <1>3, <1>5, <1>6, <1>7, <1>8, <1>9, <1>10, <1>11, SameRestInv DEF QueueInv, Lists, Pending
<1>13. NoneLost
  BY <1>7, <1>8, <1>10, SameRestDoes DEF NoneLost, Everywhere
<1> QED BY <1>8, <1>12, <1>13

\* Carrying out the outcome for a task that an idle robot r was just given:
\* the robot holds it, or it goes to the waiting list.
LEMMA CarryDoes ==
    ASSUME TypeOK, NEW w, WorldOK(w), BatchesOf(w.task), NEW q \in Requests, NEW r \in Robots,
           NEW o \in NextAction(w, q), NEW evs, NEW next, Carry(w, r, q, o, evs, next),
           IsInjective(w.queue.waiting)
    PROVE  /\ SameBatches
           /\ queue'.pending = w.queue.pending /\ queue'.pickstation = w.queue.pickstation
           /\ queue'.waitlist = w.queue.waitlist
           /\ IsInjective(queue'.waiting)
           /\ \/ /\ queue'.assigned = w.queue.assigned
                 /\ Waiting' = ToSet(w.queue.waiting)
                 /\ robotTask' = [robotTask EXCEPT ![r] = q]
                 /\ completions' \subseteq completions \cup {<<r, q>>}
              \/ /\ queue'.assigned = [w.queue.assigned EXCEPT ![q] = None]
                 /\ Waiting' = ToSet(w.queue.waiting) \cup {q}
                 /\ robotTask' = [robotTask EXCEPT ![r] = None]
                 /\ completions' = completions
<1>1. OutcomeOK(o) /\ AnswerFor(q, w.task[q], w.queue, o)
  BY NextActionOK, NextActionFrame
<1>2. o.queue \in QueueType /\ SameContainers(w.queue, o.queue)
      /\ o.task.batched = task[q].batched
  BY <1>1 DEF OutcomeOK, AnswerFor, BatchesOf
<1>3. SameBatches
  <2>1. task' = [w.task EXCEPT ![q] = o.task] /\ w.task \in [Requests -> TaskType]
    BY DEF Carry, WorldOK
  <2> QED BY <1>2, <2>1 DEF SameBatches, BatchesOf
<1>4. CASE o.act = NoAction
  <2>1. /\ queue' = AddWaitingTask(o.queue, q)
        /\ robotTask' = [robotTask EXCEPT ![r] = None]
        /\ completions' = completions
    BY <1>4 DEF Carry, NoAction, Action
  <2>2. IsInjective(o.queue.waiting)
    BY <1>2 DEF SameContainers
  <2>3. /\ queue'.pending = o.queue.pending /\ queue'.pickstation = o.queue.pickstation
        /\ queue'.waitlist = o.queue.waitlist
        /\ queue'.assigned = [o.queue.assigned EXCEPT ![q] = None]
        /\ IsInjective(queue'.waiting)
        /\ Waiting' = ToSet(o.queue.waiting) \cup {q}
    BY <1>2, <2>1, <2>2, AddWaitingTaskDoes DEF Waiting
  <2> QED BY <1>2, <1>3, <2>1, <2>3 DEF SameContainers
<1>5. CASE o.act # NoAction
  <2>1. /\ queue' = o.queue
        /\ robotTask' = [robotTask EXCEPT ![r] = q]
        /\ completions' \subseteq completions \cup {<<r, q>>}
    BY <1>5 DEF Carry
  <2> QED BY <1>2, <1>3, <2>1 DEF SameContainers, Waiting
<1> QED BY <1>4, <1>5

\* An idle robot is given a task that was in a list, and then holds it or
\* sends it to the waiting list.
LEMMA StartInv ==
    ASSUME TypeOK, QueueInv, NEW w, WorldOK(w), w.task = task, NEW q \in Requests,
           NEW r \in Robots, robotTask[r] = None,
           NEW o \in NextAction(w, q), NEW next, Carry(w, r, q, o, events, next),
           UNCHANGED <<ports, arrived, done>>,
           w.queue.waitlist = queue.waitlist,
           w.queue.pickstation = queue.pickstation,
           w.queue.assigned = [queue.assigned EXCEPT ![q] = r],
           IsInjective(w.queue.waiting), ToSet(w.queue.waiting) \subseteq Waiting \ {q},
           IsInjective(w.queue.pending), ToSet(w.queue.pending) \subseteq Pending \ {q},
           q \in Pending \cup Waiting,
           \A p \in Active : p # q => Target[p] # Target[q]
    PROVE  QueueInv'
<1>1. /\ SameBatches
      /\ queue'.pending = w.queue.pending /\ queue'.pickstation = w.queue.pickstation
      /\ queue'.waitlist = w.queue.waitlist
      /\ IsInjective(queue'.waiting)
      /\ \/ /\ queue'.assigned = w.queue.assigned
            /\ Waiting' = ToSet(w.queue.waiting)
            /\ robotTask' = [robotTask EXCEPT ![r] = q]
            /\ completions' \subseteq completions \cup {<<r, q>>}
         \/ /\ queue'.assigned = [w.queue.assigned EXCEPT ![q] = None]
            /\ Waiting' = ToSet(w.queue.waiting) \cup {q}
            /\ robotTask' = [robotTask EXCEPT ![r] = None]
            /\ completions' = completions
  <2>1. BatchesOf(w.task)
    BY DEF BatchesOf
  <2> QED BY <2>1, CarryDoes
<1>2. q \notin Assigned(queue) /\ q \notin queue.pickstation
      /\ Pending \cap Waiting = {}
  BY ActiveIs DEF QueueInv, Apart
<1>3. queue.assigned \in [Requests -> Robots \cup {None}] /\ queue.assigned[q] = None
  BY <1>2 DEF TypeOK, QueueType, Assigned
<1>4. robotTask \in [Robots -> Requests \cup {None}] /\ None \notin Requests /\ None \notin Robots
  BY WarehouseAssumption DEF TypeOK
<1>5. \/ /\ \A x \in Requests : queue'.assigned[x] = IF x = q THEN r ELSE queue.assigned[x]
         /\ \A s \in Robots : robotTask'[s] = IF s = r THEN q ELSE robotTask[s]
         /\ Waiting' = ToSet(w.queue.waiting)
         /\ completions' \subseteq completions \cup {<<r, q>>}
      \/ /\ \A x \in Requests : queue'.assigned[x] = queue.assigned[x]
         /\ \A s \in Robots : robotTask'[s] = robotTask[s]
         /\ Waiting' = ToSet(w.queue.waiting) \cup {q}
         /\ completions' = completions
  BY <1>1, <1>3, <1>4
<1>6. /\ \A s \in Robots : robotTask[s] # q
      /\ \A x \in Requests : queue.assigned[x] # r
  BY <1>3, <1>4 DEF QueueInv, AssignmentsAgree
<1>7. AssignmentsAgree'
  BY <1>4, <1>5, <1>6 DEF QueueInv, AssignmentsAgree
<1>8. CompletionsHeld'
  <2>1. \A c \in completions : c[1] \in Robots /\ robotTask[c[1]] = c[2] /\ c[2] \in Requests
    BY DEF QueueInv, CompletionsHeld, TypeOK
  <2>2. \A c \in completions : c[1] # r
    BY <1>4, <2>1
  <2> QED BY <1>5, <2>1, <2>2 DEF CompletionsHeld
<1>9. \/ Assigned(queue') = Assigned(queue) \cup {q} /\ Waiting' \subseteq Waiting \ {q}
      \/ Assigned(queue') = Assigned(queue) /\ Waiting' \subseteq Waiting \cup {q}
  BY <1>4, <1>5 DEF Assigned
<1>10. Pending' \subseteq Pending \ {q} /\ queue'.pickstation = queue.pickstation
       /\ IsInjective(queue'.pending)
  BY <1>1 DEF Pending
<1>11. Active' \subseteq Active \cup {q}
  BY <1>9, <1>10, ActiveIs, ActiveIsNext
<1>12. DistinctTargets'
  BY <1>11 DEF DistinctTargets, QueueInv
<1>13. SameRest
  BY <1>1 DEF SameRest, ports
<1>14. /\ Pending' \cup Active' \subseteq Pending \cup Active
       /\ Pending' \cap Active' = {}
       /\ Assigned(queue') \cap (Waiting' \cup queue'.pickstation) = {}
       /\ Waiting' \cap queue'.pickstation = {}
  BY <1>2, <1>9, <1>10, <1>11, ActiveIs DEF QueueInv, Apart
<1> QED BY <1>1, <1>7, <1>8, <1>10, <1>12, <1>13, <1>14, SameRestInv

\* What the strategy sees when a changed queue is put before it.
LEMMA WorldWithQueue ==
    ASSUME TypeOK, NEW aq \in QueueType
    PROVE  /\ WorldOK(World(task, aq, stack, status, moving))
           /\ World(task, aq, stack, status, moving).task = task
           /\ World(task, aq, stack, status, moving).queue = aq
<1>1. WorldOK(World(task, aq, stack, status, moving))
  BY WorldIsOK DEF TypeOK
<1>2. /\ World(task, aq, stack, status, moving).task = task
      /\ World(task, aq, stack, status, moving).queue = aq
  BY DEF World
<1> QED BY <1>1, <1>2

\* Handing a waiting task to an idle robot keeps the invariant.
LEMMA ScheduleWaitingInv ==
    ASSUME TypeOK, QueueInv, NEW r \in Robots, NEW i \in DOMAIN queue.waiting,
           ScheduleWaiting(r, i)
    PROVE  QueueInv'
<1> DEFINE q == queue.waiting[i]
           rest == SubSeq(queue.waiting, i + 1, Len(queue.waiting))
           popped == [queue EXCEPT !.waiting = rest]
           aq == MarkTaskAssigned(popped, q, r)
           w == World(task, aq, stack, status, moving)
<1>1. /\ queue \in QueueType /\ queue.waiting \in Seq(Requests) /\ q \in Requests
      /\ IsInjective(queue.waiting) /\ IsInjective(queue.pending) /\ q \in Waiting
  BY ElementOfSeq, LenProperties DEF TypeOK, QueueType, QueueInv, Lists, Waiting, ToSet
<1>2. rest \in Seq(Requests) /\ IsInjective(rest) /\ ToSet(rest) \subseteq Waiting \ {q}
  BY <1>1, RestOfList DEF Waiting
<1>3. popped \in QueueType
  BY <1>1, <1>2 DEF QueueType
<1>4. aq \in QueueType /\ WorldOK(w) /\ w.task = task /\ w.queue = aq
  <2>1. aq \in QueueType
    BY <1>1, <1>3, MarkTaskAssignedType
  <2> QED BY <2>1, WorldWithQueue
<1>5. q \notin queue.pickstation /\ q \in Active /\ q \notin Pending
  BY <1>1, ActiveIs DEF QueueInv, Apart
<1>6. /\ aq.pending = queue.pending /\ aq.waitlist = queue.waitlist
      /\ aq.pickstation = queue.pickstation
      /\ aq.assigned = [queue.assigned EXCEPT ![q] = r]
      /\ aq.waiting = Without(rest, q)
  BY <1>1, <1>3, <1>5 DEF MarkTaskAssigned, QueueType
<1>7. IsInjective(aq.waiting) /\ ToSet(aq.waiting) \subseteq Waiting \ {q}
  BY <1>2, <1>6, WithoutList
<1>8. IsInjective(aq.pending) /\ ToSet(aq.pending) \subseteq Pending \ {q}
  BY <1>1, <1>5, <1>6 DEF Pending
<1>9. PICK o \in NextAction(w, q) :
         Carry(w, r, q, o, events, IF o.act = NoAction THEN "schedule_new" ELSE "schedule")
  BY DEF ScheduleWaiting
<1>10. robotTask[r] = None /\ UNCHANGED <<ports, arrived, done>>
  BY DEF ScheduleWaiting, FirstIdle, IdleRobots
<1>11. \A p \in Active : p # q => Target[p] # Target[q]
  BY <1>5 DEF QueueInv, DistinctTargets
<1> HIDE DEF w, aq
<1> QED BY <1>1, <1>4, <1>6, <1>7, <1>8, <1>9, <1>10, <1>11, StartInv

\* Starting a task for a pending request whose bin is not reserved keeps the
\* invariant.
LEMMA ScheduleNewInv ==
    ASSUME TypeOK, QueueInv, NEW r \in Robots, NEW i \in DOMAIN queue.pending,
           ScheduleNew(r, i)
    PROVE  QueueInv'
<1> DEFINE q == queue.pending[i]
           mid == [queue EXCEPT !.pending = RemoveAt(queue.pending, i),
                                !.waiting = WaitingAfterSearch]
           aq == MarkAssigned(mid, q, r)
           w == World(task, aq, stack, status, moving)
<1>1. /\ queue \in QueueType /\ queue.pending \in Seq(Requests) /\ q \in Requests
      /\ IsInjective(queue.waiting) /\ IsInjective(queue.pending) /\ q \in Pending
  BY ElementOfSeq, LenProperties DEF TypeOK, QueueType, QueueInv, Lists, Pending, ToSet
<1>2. /\ RemoveAt(queue.pending, i) \in Seq(Requests)
      /\ IsInjective(RemoveAt(queue.pending, i))
      /\ ToSet(RemoveAt(queue.pending, i)) = Pending \ {q}
  BY <1>1, RemoveAtType, RemoveAtList DEF Pending
<1>3. q \notin Active /\ q \notin Waiting
  BY <1>1, ActiveIs DEF QueueInv, Apart
<1>4. /\ WaitingAfterSearch \in Seq(Requests) /\ IsInjective(WaitingAfterSearch)
      /\ ToSet(WaitingAfterSearch) \subseteq Waiting \ {q}
  <2>1. CASE pc = "schedule"
    BY <2>1, EmptySeq, EmptyList DEF WaitingAfterSearch
  <2>2. CASE pc # "schedule"
    BY <1>1, <1>3, <2>2 DEF WaitingAfterSearch, QueueType, Waiting
  <2> QED BY <2>1, <2>2
<1>5. mid \in QueueType
  BY <1>1, <1>2, <1>4 DEF QueueType
<1>6. aq \in QueueType /\ WorldOK(w) /\ w.task = task /\ w.queue = aq
  <2>1. aq \in QueueType
    BY <1>1, <1>5, MarkAssignedType
  <2> QED BY <2>1, WorldWithQueue
<1>7. /\ aq.pending = RemoveAt(queue.pending, i) /\ aq.waitlist = queue.waitlist
      /\ aq.pickstation = queue.pickstation
      /\ aq.assigned = [queue.assigned EXCEPT ![q] = r]
      /\ aq.waiting = WaitingAfterSearch
  BY <1>1, <1>5 DEF MarkAssigned, QueueType
<1>8. PICK o \in NextAction(w, q) :
         Carry(w, r, q, o, events, IF o.act = NoAction THEN "handle" ELSE "schedule")
  BY DEF ScheduleNew
<1>9. robotTask[r] = None /\ UNCHANGED <<ports, arrived, done>>
  BY DEF ScheduleNew, FirstIdle, IdleRobots
<1>10. \A p \in Active : Target[p] # Target[q]
  BY DEF ScheduleNew, Preferred, Eligible, Reserved, Active
<1> HIDE DEF w, aq, mid
<1>11. /\ w.queue.waitlist = queue.waitlist
       /\ w.queue.pickstation = queue.pickstation
       /\ w.queue.assigned = [queue.assigned EXCEPT ![q] = r]
       /\ IsInjective(w.queue.waiting) /\ ToSet(w.queue.waiting) \subseteq Waiting \ {q}
       /\ IsInjective(w.queue.pending) /\ ToSet(w.queue.pending) \subseteq Pending \ {q}
  BY <1>2, <1>4, <1>6, <1>7
<1> QED BY <1>1, <1>6, <1>8, <1>9, <1>10, <1>11, StartInv

\* The end of the search for work keeps the invariant.
LEMMA ScheduleDoneInv ==
    ASSUME TypeOK, QueueInv, ScheduleDone
    PROVE  QueueInv'
<1>1. UNCHANGED <<task, robotTask, line, serving, arrived, completions, done>>
  BY DEF ScheduleDone, ports
<1>2. /\ queue'.pending = queue.pending /\ queue'.assigned = queue.assigned
      /\ queue'.pickstation = queue.pickstation /\ queue'.waitlist = queue.waitlist
      /\ queue'.waiting = queue.waiting \/ queue'.waiting = <<>>
  BY DEF ScheduleDone, WaitingAfterSearch, TypeOK, QueueType
<1>3. IsInjective(queue'.waiting) /\ Waiting' \subseteq Waiting
  BY <1>2, EmptyList DEF QueueInv, Lists, Waiting
<1>4. Pending' = Pending /\ Assigned(queue') = Assigned(queue) /\ IsInjective(queue'.pending)
  BY <1>2 DEF Pending, Assigned, QueueInv, Lists
<1>5. Active' \subseteq Active
  BY <1>2, <1>3, <1>4, ActiveIs, ActiveIsNext
<1>6. SameRest
  BY <1>1, <1>2 DEF SameRest, SameBatches
<1>7. AssignmentsAgree' /\ CompletionsHeld'
  BY <1>1, <1>2 DEF AssignmentsAgree, CompletionsHeld, QueueInv
<1>8. DistinctTargets'
  BY <1>5, FewerTargets DEF QueueInv
<1>9. /\ Pending' \cap Active' = {}
      /\ Assigned(queue') \cap (Waiting' \cup queue'.pickstation) = {}
      /\ Waiting' \cap queue'.pickstation = {}
  BY <1>2, <1>3, <1>4, <1>5 DEF QueueInv, Apart
<1> QED BY <1>2, <1>3, <1>4, <1>5, <1>6, <1>7, <1>8, <1>9, SameRestInv

\* The arrival of a request keeps the invariant and every request, the new one
\* included.
LEMMA ArrivalInv ==
    ASSUME TypeOK, QueueInv, Arrival
    PROVE  QueueInv' /\ Active' = Active /\ NoneLost /\ arrived' \in Everywhere'
<1> DEFINE q == arrived + 1
           b == Target[q]
<1>1. /\ q \in Requests /\ b \in Bins /\ queue \in QueueType
      /\ queue.pending \in Seq(Requests) /\ queue.waitlist[b] \in Seq(Requests)
  <2>1. q \in Requests
    BY WarehouseAssumption DEF TypeOK, Arrival, Requests
  <2> QED BY <2>1, WarehouseAssumption DEF TypeOK, QueueType
<1>2. /\ UNCHANGED <<task, robotTask, line, serving, completions, done>>
      /\ arrived' = arrived + 1 /\ arrived \in Nat
      /\ queue' = Add(queue, q)
  BY DEF Arrival, ports, TypeOK
<1>3. q \notin 1 .. arrived /\ 1 .. arrived \subseteq 1 .. arrived' /\ q \in 1 .. arrived'
  BY <1>2
<1>4. q \notin Pending /\ q \notin Waitlisted /\ q \notin Active /\ q \notin Finished
  BY <1>3 DEF QueueInv, Came
<1>5. /\ queue'.assigned = queue.assigned /\ queue'.waiting = queue.waiting
      /\ queue'.pickstation = queue.pickstation
      /\ \/ /\ queue'.waitlist = [queue.waitlist EXCEPT ![b] = Append(@, q)]
            /\ queue'.pending = queue.pending
         \/ /\ queue'.waitlist = queue.waitlist
            /\ queue'.pending = Append(queue.pending, q)
  BY <1>1, <1>2 DEF Add, QueueType
<1>6. /\ Active' = Active /\ Finished' = Finished /\ Waiting' = Waiting
      /\ Assigned(queue') = Assigned(queue)
      /\ \A p : AtPort(p)' = AtPort(p)
  BY <1>2, <1>5 DEF Active, Finished, Batched, Waiting, Assigned, AtPort
<1>7. \/ /\ Pending' = Pending /\ Waitlisted' = Waitlisted \cup {q}
      \/ /\ Pending' = Pending \cup {q} /\ Waitlisted' = Waitlisted
  <2>1. CASE /\ queue'.waitlist = queue.waitlist
             /\ queue'.pending = Append(queue.pending, q)
    <3>1. ToSet(Append(queue.pending, q)) = ToSet(queue.pending) \cup {q}
      BY <1>1, <1>4, AppendList DEF Pending, QueueInv, Lists
    <3> QED BY <2>1, <3>1 DEF Pending, Waitlisted, BatchOf
  <2>2. CASE /\ queue'.waitlist = [queue.waitlist EXCEPT ![b] = Append(@, q)]
             /\ queue'.pending = queue.pending
    <3>1. ToSet(Append(queue.waitlist[b], q)) = ToSet(queue.waitlist[b]) \cup {q}
      BY <1>1, <1>4, AppendList DEF Waitlisted, BatchOf, QueueInv, Lists
    <3>2. \A c \in Bins : BatchOf(c)' = IF c = b THEN BatchOf(c) \cup {q} ELSE BatchOf(c)
      BY <1>1, <2>2, <3>1 DEF BatchOf, QueueType
    <3>3. Waitlisted' = Waitlisted \cup {q}
      BY <1>1, <3>2 DEF Waitlisted
    <3> QED BY <2>2, <3>3 DEF Pending
  <2> QED BY <1>5, <2>1, <2>2
<1>8. Lists'
  <2>1. IsInjective(queue'.pending)
    <3>1. IsInjective(Append(queue.pending, q))
      BY <1>1, <1>4, AppendList DEF Pending, QueueInv, Lists
    <3> QED BY <1>5, <3>1 DEF QueueInv, Lists
  <2>2. ASSUME NEW c \in Bins
        PROVE  IsInjective(queue'.waitlist[c]) /\ \A x \in BatchOf(c)' : Target[x] = c
    <3>1. CASE queue'.waitlist[c] = queue.waitlist[c]
      BY <3>1 DEF QueueInv, Lists, BatchOf
    <3>2. CASE c = b /\ queue'.waitlist[b] = Append(queue.waitlist[b], q)
      <4>1. /\ IsInjective(Append(queue.waitlist[b], q))
            /\ ToSet(Append(queue.waitlist[b], q)) = BatchOf(b) \cup {q}
        BY <1>1, <1>4, AppendList DEF Waitlisted, BatchOf, QueueInv, Lists
      <4> QED BY <3>2, <4>1 DEF QueueInv, Lists, BatchOf
    <3>3. \/ queue'.waitlist[c] = queue.waitlist[c]
          \/ c = b /\ queue'.waitlist[b] = Append(queue.waitlist[b], q)
      <4>1. CASE queue'.waitlist = queue.waitlist
        BY <4>1
      <4>2. CASE queue'.waitlist = [queue.waitlist EXCEPT ![b] = Append(@, q)]
        BY <1>1, <4>2 DEF QueueType
      <4> QED BY <1>5, <4>1, <4>2
    <3> QED BY <3>1, <3>2, <3>3
  <2> QED BY <1>5, <2>1, <2>2 DEF Lists, QueueInv
<1>9. Apart' /\ Came'
  BY <1>2, <1>3, <1>4, <1>5, <1>6, <1>7 DEF Apart, Came, QueueInv
<1>10. AtPorts'
  BY <1>2, <1>5, <1>6 DEF AtPorts, QueueInv
<1>11. AssignmentsAgree' /\ CompletionsHeld'
  BY <1>2, <1>5 DEF AssignmentsAgree, CompletionsHeld, QueueInv
<1>12. DistinctTargets'
  BY <1>6 DEF DistinctTargets, QueueInv
<1>13. NoneLost /\ arrived' \in Everywhere'
  BY <1>2, <1>6, <1>7 DEF NoneLost, Everywhere
<1> QED BY <1>6, <1>8, <1>9, <1>10, <1>11, <1>12, <1>13 DEF QueueInv

\* The line l and the slots srv that a service may start from at p.
PortReady(l, srv, p) ==
    /\ l \in [Stations -> Seq(Requests)]
    /\ srv \in [Stations -> SUBSET Requests]
    /\ IsInjective(l[p])
    /\ ToSet(l[p]) \cap srv[p] = {}

\* A service is started at p, or is not.
ServiceStep(l, srv, p) == StartService(l, srv, p) \/ NoStart(l, srv, p)

\* The station p holds the tasks it had in l and srv, the others what they had.
PortAfter(l, srv, p) ==
    /\ AtPort(p)' = ToSet(l[p]) \cup srv[p]
    /\ IsInjective(line'[p])
    /\ ToSet(line'[p]) \cap serving'[p] = {}
    /\ \A s \in Stations : s # p => line'[s] = l[s] /\ serving'[s] = srv[s]

\* A station that starts a service, or does not, holds the same tasks.
LEMMA StartServiceDoes ==
    ASSUME NEW l, NEW srv, NEW p \in Stations, PortReady(l, srv, p), ServiceStep(l, srv, p)
    PROVE  PortAfter(l, srv, p)
<1>1. CASE StartService(l, srv, p) /\ Starts(l, srv, p)
  <2>1. line'[p] = Tail(l[p]) /\ serving'[p] = srv[p] \cup {Head(l[p])} /\ l[p] # <<>>
    BY <1>1 DEF StartService, Starts, PortReady
  <2>2. /\ IsInjective(Tail(l[p])) /\ Head(l[p]) \in ToSet(l[p])
        /\ ToSet(Tail(l[p])) = ToSet(l[p]) \ {Head(l[p])}
    BY <2>1, TailOfList DEF PortReady
  <2>3. \A s \in Stations : s # p => line'[s] = l[s] /\ serving'[s] = srv[s]
    BY <1>1 DEF StartService, PortReady
  <2> QED BY <2>1, <2>2, <2>3 DEF AtPort, PortAfter, PortReady
<1>2. CASE NoStart(l, srv, p) \/ (StartService(l, srv, p) /\ ~Starts(l, srv, p))
  BY <1>2 DEF StartService, NoStart, AtPort, PortReady, PortAfter
<1> QED BY <1>1, <1>2 DEF ServiceStep

\* The batch behind a bin leaves the waitlist, and no other does.
LEMMA PoppedBatch ==
    ASSUME TypeOK, QueueInv, NEW b \in Bins,
           queue'.waitlist = [queue.waitlist EXCEPT ![b] = <<>>]
    PROVE  /\ Waitlisted' = Waitlisted \ BatchOf(b)
           /\ \A c \in Bins : /\ IsInjective(queue'.waitlist[c])
                              /\ \A q \in BatchOf(c)' : Target[q] = c
<1>1. \A c \in Bins : queue'.waitlist[c] = IF c = b THEN <<>> ELSE queue.waitlist[c]
  BY DEF TypeOK, QueueType
<1>2. \A c \in Bins : BatchOf(c)' = IF c = b THEN {} ELSE BatchOf(c)
  BY <1>1, EmptyList DEF BatchOf
<1>3. \A c \in Bins : c # b => BatchOf(c) \cap BatchOf(b) = {}
  BY DEF QueueInv, Lists
<1>4. Waitlisted' = Waitlisted \ BatchOf(b)
  BY <1>2, <1>3 DEF Waitlisted
<1>5. \A c \in Bins : IsInjective(queue'.waitlist[c])
  BY <1>1, EmptyList DEF QueueInv, Lists
<1>6. \A c \in Bins : \A q \in BatchOf(c)' : Target[q] = c
  BY <1>2 DEF QueueInv, Lists
<1> QED BY <1>4, <1>5, <1>6

\* The hand-over at a port keeps the invariant and every request.
LEMMA DeliversInv ==
    ASSUME TypeOK, QueueInv, NEW r \in Robots, Delivers(r)
    PROVE  QueueInv' /\ Active' = Active /\ NoneLost
<1> DEFINE q == robotTask[r]
           b == Target[q]
<1>1. /\ q \in Requests /\ b \in Bins /\ queue.assigned[q] = r
      /\ q \in Assigned(queue) /\ q \in Active
      /\ q \notin Pending /\ q \notin Waitlisted /\ q \notin Waiting
      /\ q \notin queue.pickstation /\ q \notin Finished
      /\ \A s \in Robots : robotTask[s] = q => s = r
  BY HeldTask DEF Delivers
<1>2. /\ queue \in QueueType /\ task \in [Requests -> TaskType]
      /\ robotTask \in [Robots -> Requests \cup {None}]
      /\ None \notin Requests /\ None \notin Robots
  BY WarehouseAssumption DEF TypeOK
<1>3. /\ queue'.pending = queue.pending /\ queue'.waiting = queue.waiting
      /\ queue'.assigned = [queue.assigned EXCEPT ![q] = None]
      /\ queue'.pickstation = queue.pickstation \cup {q}
      /\ queue'.waitlist = [queue.waitlist EXCEPT ![b] = <<>>]
  BY <1>1, <1>2 DEF Delivers, AddPickstationTask, PopBatchWaitlist, QueueType
<1>4. Pending' = Pending /\ Waiting' = Waiting
  BY <1>3 DEF Pending, Waiting
<1>5. Assigned(queue') = Assigned(queue) \ {q}
  BY <1>1, <1>2, <1>3 DEF Assigned, QueueType
<1>6. Active' = Active
  BY <1>1, <1>3, <1>4, <1>5, ActiveIs, ActiveIsNext
<1>7. /\ Waitlisted' = Waitlisted \ BatchOf(b)
      /\ \A c \in Bins : /\ IsInjective(queue'.waitlist[c])
                         /\ \A x \in BatchOf(c)' : Target[x] = c
  BY <1>1, <1>3, PoppedBatch
<1>8. Finished' = Finished \cup BatchOf(b)
  <2>1. task'[q].batched = task[q].batched \cup BatchOf(b)
    <3>1. task'[q] = MarkWaitingAtPickstation(AddBatchedRequests(task[q], BatchOf(b)))
      BY <1>1, <1>2 DEF Delivers, BatchOf
    <3>2. task[q] \in TaskType
      BY <1>1, <1>2
    <3> QED BY <3>1, <3>2 DEF MarkWaitingAtPickstation, AddBatchedRequests, TaskType
  <2>2. \A p \in Requests : p # q => task'[p] = task[p]
    BY <1>2 DEF Delivers
  <2>3. Batched' = Batched \cup BatchOf(b)
    BY <1>1, <2>1, <2>2 DEF Batched
  <2> QED BY <2>3 DEF Finished, Delivers
<1>9. BatchOf(b) \subseteq Waitlisted
  BY <1>1 DEF Waitlisted
<1>10. AssignmentsAgree'
  <2>1. \A s \in Robots : robotTask'[s] = IF s = r THEN None ELSE robotTask[s]
    BY <1>2 DEF Delivers
  <2>2. \A x \in Requests : queue'.assigned[x] = IF x = q THEN None ELSE queue.assigned[x]
    BY <1>2, <1>3 DEF QueueType
  <2> QED BY <1>1, <1>2, <2>1, <2>2 DEF AssignmentsAgree, QueueInv
<1>11. Lists'
  BY <1>3, <1>7 DEF Lists, QueueInv
<1>12. Apart'
  BY <1>1, <1>3, <1>4, <1>5, <1>6, <1>7, <1>8, <1>9 DEF Apart, QueueInv
<1>13. Came'
  BY <1>4, <1>6, <1>7, <1>8, <1>9 DEF Came, QueueInv, Delivers
<1>14. AtPorts'
  <2>1. PICK p \in Stations :
          LET l == [line EXCEPT ![p] = Append(@, q)] IN
          StartService(l, serving, p) \/ NoStart(l, serving, p)
    BY DEF Delivers
  <2> DEFINE l == [line EXCEPT ![p] = Append(@, q)]
  <2>2. /\ q \notin ToSet(line[p]) /\ q \notin serving[p] /\ line[p] \in Seq(Requests)
        /\ IsInjective(line[p]) /\ ToSet(line[p]) \cap serving[p] = {}
    BY <1>1 DEF QueueInv, AtPorts, AtPort, TypeOK
  <2>3. /\ l \in [Stations -> Seq(Requests)] /\ l[p] = Append(line[p], q)
        /\ \A s \in Stations : s # p => l[s] = line[s]
    BY <1>1, <2>2, AppendProperties DEF TypeOK
  <2>4. IsInjective(l[p]) /\ ToSet(l[p]) = ToSet(line[p]) \cup {q}
    BY <1>1, <2>2, <2>3, AppendList
  <2>5. ToSet(l[p]) \cap serving[p] = {} /\ serving \in [Stations -> SUBSET Requests]
    BY <2>2, <2>4 DEF TypeOK
  <2>6. /\ AtPort(p)' = ToSet(l[p]) \cup serving[p]
        /\ IsInjective(line'[p]) /\ ToSet(line'[p]) \cap serving'[p] = {}
        /\ \A s \in Stations : s # p => line'[s] = l[s] /\ serving'[s] = serving[s]
    <3>1. PortReady(l, serving, p) /\ ServiceStep(l, serving, p)
      BY <2>1, <2>3, <2>4, <2>5 DEF PortReady, ServiceStep
    <3> HIDE DEF l
    <3>2. PortAfter(l, serving, p)
      BY <3>1, StartServiceDoes
    <3> QED BY <3>2 DEF PortAfter
  <2> HIDE DEF l
  <2>7. AtPort(p)' = AtPort(p) \cup {q}
    BY <2>4, <2>6 DEF AtPort
  <2>8. \A s \in Stations : s # p => AtPort(s)' = AtPort(s) /\ line'[s] = line[s]
                                       /\ serving'[s] = serving[s]
    BY <2>3, <2>6 DEF AtPort
  <2>9. \A s \in Stations : q \notin AtPort(s)
    BY <1>1 DEF QueueInv, AtPorts
  <2> QED BY <1>3, <2>6, <2>7, <2>8, <2>9 DEF AtPorts, QueueInv
<1>15. CompletionsHeld'
  BY DEF Delivers, CompletionsHeld
<1>16. DistinctTargets'
  BY <1>6, FewerTargets DEF QueueInv
<1>17. NoneLost
  BY <1>4, <1>6, <1>7, <1>8 DEF NoneLost, Everywhere
<1> QED BY <1>6, <1>10, <1>11, <1>12, <1>13, <1>14, <1>15, <1>16, <1>17 DEF QueueInv

\* The end of a service keeps the invariant: the task leaves its station for
\* the waiting list or goes straight to an idle robot, and no request is lost.
LEMMA PickstationCompleteInv ==
    ASSUME TypeOK, QueueInv, NEW p \in Stations, NEW q \in Requests, PickstationComplete(p, q)
    PROVE  QueueInv' /\ Active' = Active /\ NoneLost
<1> DEFINE left == [queue EXCEPT !.pickstation = @ \ {q}]
           aq == MarkPickstationTaskCompleted(queue, q)
           srv == EndService(serving, p, q)
<1>1. /\ q \in serving[p] /\ q \in AtPort(p) /\ q \in queue.pickstation
      /\ q \notin ToSet(line[p])
  BY DEF PickstationComplete, AtPort, QueueInv, AtPorts
<1>2. /\ queue \in QueueType /\ task \in [Requests -> TaskType]
      /\ robotTask \in [Robots -> Requests \cup {None}]
      /\ None \notin Requests /\ None \notin Robots
      /\ IsInjective(queue.waiting) /\ IsInjective(queue.pending)
  BY WarehouseAssumption DEF TypeOK, QueueInv, Lists
<1>3. /\ q \in Active /\ q \notin Pending /\ q \notin Waiting /\ q \notin Assigned(queue)
      /\ q \notin Waitlisted /\ q \notin Finished
  BY <1>1, ActiveIs DEF QueueInv, Apart
<1>4. queue.assigned[q] = None /\ \A s \in Robots : robotTask[s] # q
  <2>1. queue.assigned[q] = None
    BY <1>3 DEF Assigned
  <2> QED BY <1>2, <2>1 DEF QueueInv, AssignmentsAgree
<1>5. left \in QueueType /\ left.waiting = queue.waiting
  BY <1>2 DEF QueueType
<1>6. /\ aq \in QueueType
      /\ aq.pending = queue.pending /\ aq.waitlist = queue.waitlist
      /\ aq.pickstation = queue.pickstation \ {q}
      /\ aq.assigned = queue.assigned
      /\ IsInjective(aq.waiting) /\ ToSet(aq.waiting) = Waiting \cup {q}
  <2>1. aq = AddWaitingTask(left, q)
    BY DEF MarkPickstationTaskCompleted
  <2> HIDE DEF aq, left
  <2>2. /\ aq.pending = left.pending /\ aq.waitlist = left.waitlist
        /\ aq.pickstation = left.pickstation
        /\ aq.assigned = [left.assigned EXCEPT ![q] = None]
        /\ IsInjective(aq.waiting) /\ ToSet(aq.waiting) = ToSet(left.waiting) \cup {q}
    BY <1>2, <1>5, <2>1, AddWaitingTaskDoes
  <2>3. /\ left.pending = queue.pending /\ left.waitlist = queue.waitlist
        /\ left.pickstation = queue.pickstation \ {q} /\ left.assigned = queue.assigned
    BY <1>2 DEF left, QueueType
  <2>4. [queue.assigned EXCEPT ![q] = None] = queue.assigned
    BY <1>2, <1>4 DEF QueueType
  <2>5. aq \in QueueType
    BY <1>2, MarkPickstationTaskCompletedType DEF aq
  <2> QED BY <1>5, <2>2, <2>3, <2>4, <2>5 DEF Waiting
<1> HIDE DEF aq, left
<1>7. /\ queue'.pending = queue.pending /\ queue'.waitlist = queue.waitlist
      /\ queue'.pickstation = queue.pickstation \ {q}
      /\ IsInjective(queue'.waiting)
      /\ \/ /\ queue'.assigned = queue.assigned /\ robotTask' = robotTask
            /\ Waiting' = Waiting \cup {q}
         \/ \E r \in Robots :
               /\ robotTask[r] = None
               /\ queue'.assigned = [queue.assigned EXCEPT ![q] = r]
               /\ robotTask' = [robotTask EXCEPT ![r] = q]
               /\ Waiting' = Waiting
  <2>1. CASE queue' = aq /\ robotTask' = robotTask
    BY <1>6, <2>1 DEF Waiting
  <2>2. ASSUME NEW r \in IdleRobots, queue' = MarkTaskAssigned(aq, q, r),
               robotTask' = [robotTask EXCEPT ![r] = q]
        PROVE  /\ queue'.pending = queue.pending /\ queue'.waitlist = queue.waitlist
               /\ queue'.pickstation = queue.pickstation \ {q}
               /\ IsInjective(queue'.waiting)
               /\ r \in Robots /\ robotTask[r] = None
               /\ queue'.assigned = [queue.assigned EXCEPT ![q] = r]
               /\ Waiting' = Waiting
    <3>1. /\ queue'.pending = aq.pending /\ queue'.waitlist = aq.waitlist
          /\ queue'.pickstation = aq.pickstation \ {q}
          /\ queue'.assigned = [aq.assigned EXCEPT ![q] = r]
          /\ queue'.waiting = Without(aq.waiting, q)
      BY <1>6, <2>2 DEF MarkTaskAssigned, QueueType
    <3>2. aq.waiting \in Seq(Requests)
      BY <1>6 DEF QueueType
    <3>3. IsInjective(Without(aq.waiting, q)) /\ ToSet(Without(aq.waiting, q)) = ToSet(aq.waiting) \ {q}
      BY <1>6, <3>2, WithoutList
    <3>4. ToSet(aq.waiting) \ {q} = Waiting
      BY <1>3, <1>6
    <3> QED BY <1>6, <3>1, <3>3, <3>4 DEF Waiting, IdleRobots
  <2> QED BY <2>1, <2>2 DEF PickstationComplete, aq
<1>8. /\ UNCHANGED <<arrived, completions, done>>
      /\ StartService(line, srv, p)
      /\ SameBatches
  <2>1. SameBatches
    <3>1. \A t \in TaskType : MarkPickstationCompleted(t).batched = t.batched
      BY DEF MarkPickstationCompleted, TaskType
    <3> QED BY <1>2, <3>1 DEF PickstationComplete, SameBatches
  <2> QED BY <2>1 DEF PickstationComplete
<1>9. Finished' = Finished /\ Waitlisted' = Waitlisted /\ Pending' = Pending
      /\ \A b : BatchOf(b)' = BatchOf(b)
  <2>1. Batched' = Batched
    BY <1>8 DEF SameBatches, Batched
  <2> QED BY <1>7, <1>8, <2>1 DEF Finished, Waitlisted, BatchOf, Pending
<1>10. \/ Assigned(queue') = Assigned(queue) /\ Waiting' = Waiting \cup {q}
       \/ Assigned(queue') = Assigned(queue) \cup {q} /\ Waiting' = Waiting
  <2>1. CASE queue'.assigned = queue.assigned /\ Waiting' = Waiting \cup {q}
    BY <2>1 DEF Assigned
  <2>2. ASSUME NEW r \in Robots, queue'.assigned = [queue.assigned EXCEPT ![q] = r],
               Waiting' = Waiting
        PROVE  Assigned(queue') = Assigned(queue) \cup {q}
    BY <1>2, <2>2 DEF Assigned, QueueType
  <2> QED BY <1>7, <2>1, <2>2
<1>11. Active' = Active
  BY <1>1, <1>7, <1>10, ActiveIs, ActiveIsNext
<1>12. AssignmentsAgree'
  <2>1. CASE queue'.assigned = queue.assigned /\ robotTask' = robotTask
    BY <2>1 DEF AssignmentsAgree, QueueInv
  <2>2. ASSUME NEW r \in Robots, robotTask[r] = None,
               queue'.assigned = [queue.assigned EXCEPT ![q] = r],
               robotTask' = [robotTask EXCEPT ![r] = q]
        PROVE  AssignmentsAgree'
    <3>1. \A x \in Requests : queue'.assigned[x] = IF x = q THEN r ELSE queue.assigned[x]
      BY <1>2, <2>2 DEF QueueType
    <3>2. \A s \in Robots : robotTask'[s] = IF s = r THEN q ELSE robotTask[s]
      BY <1>2, <2>2
    <3>3. \A x \in Requests : queue.assigned[x] # r
      BY <1>2, <2>2 DEF AssignmentsAgree, QueueInv
    <3> QED BY <1>2, <1>4, <3>1, <3>2, <3>3 DEF AssignmentsAgree, QueueInv
  <2> QED BY <1>7, <2>1, <2>2
<1>13. Lists'
  BY <1>2, <1>7, <1>9 DEF Lists, QueueInv
<1>14. Apart' /\ Came'
  BY <1>3, <1>7, <1>8, <1>9, <1>10, <1>11 DEF Apart, Came, QueueInv
<1>15. AtPorts'
  <2>1. /\ line[p] \in Seq(Requests) /\ IsInjective(line[p])
        /\ ToSet(line[p]) \cap serving[p] = {} /\ line \in [Stations -> Seq(Requests)]
    BY DEF QueueInv, AtPorts, TypeOK
  <2>2. /\ srv \in [Stations -> SUBSET Requests] /\ srv[p] = serving[p] \ {q}
        /\ \A s \in Stations : s # p => srv[s] = serving[s]
    BY DEF EndService, TypeOK
  <2>3. ToSet(line[p]) \cap srv[p] = {}
    BY <2>1, <2>2
  <2>4. /\ AtPort(p)' = ToSet(line[p]) \cup srv[p]
        /\ IsInjective(line'[p]) /\ ToSet(line'[p]) \cap serving'[p] = {}
        /\ \A s \in Stations : s # p => line'[s] = line[s] /\ serving'[s] = srv[s]
    <3>1. PortReady(line, srv, p) /\ ServiceStep(line, srv, p)
      BY <1>8, <2>1, <2>2, <2>3 DEF PortReady, ServiceStep
    <3> HIDE DEF srv
    <3>2. PortAfter(line, srv, p)
      BY <3>1, StartServiceDoes
    <3> QED BY <3>2 DEF PortAfter
  <2>5. AtPort(p)' = AtPort(p) \ {q}
    BY <1>1, <2>2, <2>4 DEF AtPort
  <2>6. \A s \in Stations : s # p => AtPort(s)' = AtPort(s) /\ line'[s] = line[s]
                                       /\ serving'[s] = serving[s]
    BY <2>2, <2>4 DEF AtPort
  <2>7. \A s \in Stations : s # p => q \notin AtPort(s)
    BY <1>1 DEF QueueInv, AtPorts
  <2> QED BY <1>7, <2>4, <2>5, <2>6, <2>7 DEF AtPorts, QueueInv
<1>16. CompletionsHeld'
  <2>1. \A c \in completions : c[1] \in Robots /\ robotTask[c[1]] = c[2] /\ c[2] \in Requests
    BY DEF QueueInv, CompletionsHeld, TypeOK
  <2>2. completions = {}
    BY DEF PickstationComplete, Ready
  <2> QED BY <1>8, <2>2 DEF CompletionsHeld
<1>17. DistinctTargets'
  BY <1>11, FewerTargets DEF QueueInv
<1>18. NoneLost
  BY <1>9, <1>11 DEF NoneLost, Everywhere
<1> QED BY <1>11, <1>12, <1>13, <1>14, <1>15, <1>16, <1>17, <1>18 DEF QueueInv

\* The completion of a request keeps the invariant: the requests waiting for
\* its bin become pending, and none is lost.
LEMMA RequestCompleteInv ==
    ASSUME TypeOK, QueueInv, NEW r \in Robots, NEW q \in Requests, RequestComplete(r, q)
    PROVE  QueueInv' /\ Active \ {q} \subseteq Active' /\ NoneLost
<1>1. CASE UNCHANGED <<done, queue, robotTask>>
  <2>1. /\ UNCHANGED <<queue, task, robotTask, ports, arrived, done>>
        /\ completions' \subseteq completions
    BY <1>1 DEF RequestComplete
  <2>2. Stays
    BY <2>1 DEF Stays, SameContainers, SameBatches
  <2> QED BY <2>2, StaysInv
<1>2. CASE /\ robotTask[r] = q
           /\ done' = done \cup AllRequests(q, task[q])
           /\ queue' = MarkCompleted(queue, q)
           /\ robotTask' = [robotTask EXCEPT ![r] = None]
  <2> DEFINE b == Target[q]
  <2>1. /\ b \in Bins /\ queue.assigned[q] = r
        /\ q \in Assigned(queue) /\ q \in Active
        /\ q \notin Pending /\ q \notin Waitlisted /\ q \notin Waiting
        /\ q \notin queue.pickstation /\ q \notin Finished
        /\ \A s \in Robots : robotTask[s] = q => s = r
    BY <1>2, HeldTask, WarehouseAssumption
  <2>2. /\ queue \in QueueType /\ robotTask \in [Robots -> Requests \cup {None}]
        /\ None \notin Requests /\ None \notin Robots
        /\ queue.waiting \in Seq(Requests) /\ queue.pending \in Seq(Requests)
        /\ queue.waitlist[b] \in Seq(Requests)
        /\ IsInjective(queue.waiting) /\ IsInjective(queue.pending)
        /\ IsInjective(queue.waitlist[b])
    BY <2>1, WarehouseAssumption DEF TypeOK, QueueType, QueueInv, Lists
  <2>3. /\ queue'.pending = queue.pending \o queue.waitlist[b]
        /\ queue'.waiting = Without(queue.waiting, q)
        /\ queue'.assigned = [queue.assigned EXCEPT ![q] = None]
        /\ queue'.pickstation = queue.pickstation \ {q}
        /\ queue'.waitlist = [queue.waitlist EXCEPT ![b] = <<>>]
    BY <1>2, <2>2 DEF MarkCompleted, QueueType
  <2>4. UNCHANGED <<task, line, serving, arrived>> /\ completions' = completions \ {<<r, q>>}
    BY DEF RequestComplete, ports
  <2>5. Pending \cap BatchOf(b) = {} /\ BatchOf(b) \subseteq Waitlisted
    BY <2>1 DEF QueueInv, Apart, Waitlisted
  <2>6. IsInjective(queue'.pending) /\ Pending' = Pending \cup BatchOf(b)
    BY <2>2, <2>3, <2>5, JoinLists DEF Pending, BatchOf
  <2>7. IsInjective(queue'.waiting) /\ Waiting' = Waiting
    <3>1. /\ IsInjective(Without(queue.waiting, q))
          /\ ToSet(Without(queue.waiting, q)) = Waiting \ {q}
      BY <2>2, WithoutList DEF Waiting
    <3> QED BY <2>1, <2>3, <3>1 DEF Waiting
  <2>8. Assigned(queue') = Assigned(queue) \ {q} /\ queue'.pickstation = queue.pickstation
    BY <2>1, <2>2, <2>3 DEF Assigned, QueueType
  <2>9. Active' = Active \ {q}
    BY <2>1, <2>7, <2>8, ActiveIs, ActiveIsNext
  <2>10. /\ Waitlisted' = Waitlisted \ BatchOf(b)
         /\ \A c \in Bins : /\ IsInjective(queue'.waitlist[c])
                            /\ \A x \in BatchOf(c)' : Target[x] = c
    BY <2>1, <2>3, PoppedBatch
  <2>11. Finished' = Finished \cup {q}
    BY <1>2, <2>4 DEF Finished, Batched, AllRequests
  <2>12. Lists'
    BY <2>6, <2>7, <2>10 DEF Lists
  <2>13. Apart'
    BY <2>1, <2>5, <2>6, <2>7, <2>8, <2>9, <2>10, <2>11 DEF Apart, QueueInv
  <2>14. Came'
    BY <2>1, <2>4, <2>5, <2>6, <2>9, <2>10, <2>11 DEF Came, QueueInv
  <2>15. AtPorts'
    BY <2>4, <2>8 DEF AtPorts, AtPort, QueueInv
  <2>16. AssignmentsAgree'
    <3>1. \A s \in Robots : robotTask'[s] = IF s = r THEN None ELSE robotTask[s]
      BY <1>2, <2>2
    <3>2. \A x \in Requests : queue'.assigned[x] = IF x = q THEN None ELSE queue.assigned[x]
      BY <2>2, <2>3 DEF QueueType
    <3> QED BY <2>1, <2>2, <3>1, <3>2 DEF AssignmentsAgree, QueueInv
  <2>17. CompletionsHeld'
    <3>1. ASSUME NEW c \in completions, c # <<r, q>>
          PROVE  robotTask'[c[1]] = c[2]
      <4>1. c = <<c[1], c[2]>> /\ c[1] \in Robots /\ robotTask[c[1]] = c[2]
        BY DEF QueueInv, CompletionsHeld, TypeOK
      <4>2. c[1] # r
        BY <1>2, <3>1, <4>1
      <4> QED BY <1>2, <2>2, <4>1, <4>2
    <3> QED BY <2>4, <3>1 DEF CompletionsHeld
  <2>18. DistinctTargets'
    BY <2>9, FewerTargets DEF QueueInv
  <2>19. NoneLost
    BY <2>6, <2>9, <2>10, <2>11 DEF NoneLost, Everywhere
  <2> QED BY <2>9, <2>12, <2>13, <2>14, <2>15, <2>16, <2>17, <2>18, <2>19 DEF QueueInv
<1> QED BY <1>1, <1>2 DEF RequestComplete

\* The containers are empty at the start.
LEMMA InitInv == Init => QueueInv
<1> SUFFICES ASSUME Init PROVE QueueInv
  OBVIOUS
<1>1. /\ queue = EmptyQueue /\ done = {} /\ completions = {}
      /\ robotTask = [r \in Robots |-> None]
      /\ line = [p \in Stations |-> <<>>] /\ serving = [p \in Stations |-> {}]
      /\ task = [q \in Requests |-> NewTask]
  BY DEF Init
<1>2. /\ queue.pending = <<>> /\ queue.waiting = <<>> /\ queue.pickstation = {}
      /\ queue.assigned = [q \in Requests |-> None]
      /\ queue.waitlist = [b \in Bins |-> <<>>]
  BY <1>1 DEF EmptyQueue
<1>3. Pending = {} /\ Waiting = {} /\ \A b \in Bins : BatchOf(b) = {}
  BY <1>2, EmptyList DEF Pending, Waiting, BatchOf
<1>4. Waitlisted = {} /\ Assigned(queue) = {}
  BY <1>2, <1>3 DEF Waitlisted, Assigned
<1>5. Active = {}
  BY <1>2, <1>3, <1>4, ActiveIs
<1>6. Finished = {}
  BY <1>1 DEF Finished, Batched, NewTask
<1>7. Lists
  BY <1>2, <1>3, EmptyList DEF Lists
<1>8. Apart /\ Came
  BY <1>2, <1>3, <1>4, <1>5, <1>6 DEF Apart, Came
<1>9. AtPorts
  BY <1>1, EmptyList DEF AtPorts, AtPort
<1>10. AssignmentsAgree
  BY <1>1, <1>2, WarehouseAssumption DEF AssignmentsAgree
<1>11. CompletionsHeld /\ DistinctTargets
  BY <1>1, <1>5 DEF CompletionsHeld, DistinctTargets
<1> QED BY <1>7, <1>8, <1>9, <1>10, <1>11 DEF QueueInv

\* Every step keeps the invariant.
LEMMA NextInv == TypeOK /\ QueueInv /\ [Next]_vars => QueueInv'
<1> SUFFICES ASSUME TypeOK, QueueInv, [Next]_vars PROVE QueueInv'
  OBVIOUS
<1>1. CASE Stays
  BY <1>1, StaysInv
<1>2. CASE \E r \in Robots : GivesUp(r) \/ Delivers(r)
  BY <1>2, GivesUpInv, DeliversInv
<1>3. CASE Arrival
  BY <1>3, ArrivalInv
<1>4. CASE \E r \in Robots, i \in DOMAIN queue.waiting : ScheduleWaiting(r, i)
  BY <1>4, ScheduleWaitingInv
<1>5. CASE \E r \in Robots, i \in DOMAIN queue.pending : ScheduleNew(r, i)
  BY <1>5, ScheduleNewInv
<1>6. CASE ScheduleDone
  BY <1>6, ScheduleDoneInv
<1>7. CASE \E p \in Stations, q \in Requests : PickstationComplete(p, q)
  BY <1>7, PickstationCompleteInv
<1>8. CASE \E r \in Robots, q \in Requests : RequestComplete(r, q)
  BY <1>8, RequestCompleteInv
<1> QED BY <1>1, <1>2, <1>3, <1>4, <1>5, <1>6, <1>7, <1>8, Moves

\* The invariant holds in every state of every run.
LEMMA QueueInvariant == Spec => [](TypeOK /\ QueueInv)
<1>1. Init => TypeOK /\ QueueInv
  BY InitType, InitInv
<1>2. (TypeOK /\ QueueInv) /\ [Next]_vars => (TypeOK /\ QueueInv)'
  BY NextType, NextInv
<1> QED BY <1>1, <1>2, PTL DEF Spec

----------------------------------------------------------------------------
(* The theorems *)

\* ActiveQueue.assigned and the robots' current_task, which different methods
\* of different objects write, always say the same.
THEOREM AssignmentsMatch == Spec => []AssignmentsAgree
<1>1. TypeOK /\ QueueInv => AssignmentsAgree
  BY DEF QueueInv
<1> QED BY <1>1, QueueInvariant, PTL

\* Two running tasks never fetch the same bin, whatever recoveries put back
\* into the waiting list and however late batched requests become pending.
THEOREM TargetsDistinct == Spec => []DistinctTargets
<1>1. TypeOK /\ QueueInv => DistinctTargets
  BY DEF QueueInv
<1> QED BY <1>1, QueueInvariant, PTL

=============================================================================
