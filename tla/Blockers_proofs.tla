---------------------------- MODULE Blockers_proofs ----------------------------
(***************************************************************************)
(* The relocations that tasks remember, against the owners in the queue    *)
(* and against the stacks, and from that and the phases of the tasks that  *)
(* no consistency check raises (TaskLifecycle), for every value of the     *)
(* constants.                                                              *)
(***************************************************************************)
EXTENDS TaskLife_proofs

----------------------------------------------------------------------------
(* Where a task remembers to have put which bin *)

Places(t) == {<<t.temp[i].bin, t.temp[i].buffer>> : i \in DOMAIN t.temp}

\* No bin has two entries.
OneEntry(t) == \A i, j \in DOMAIN t.temp : t.temp[i].bin = t.temp[j].bin => i = j

\* An open relocation is a remembered place.
LEMMA OpenIsRemembered ==
    ASSUME NEW t, NEW b
    PROVE  HasOpenRelocation(t, b) <=> \E s : <<b, s>> \in Places(t)
BY DEF HasOpenRelocation, OpenRelocations, Places

\* Removing a position of a sequence moves up what follows.
LEMMA RemoveAtElements ==
    ASSUME NEW S, NEW seq \in Seq(S), NEW i \in DOMAIN seq
    PROVE  /\ DOMAIN RemoveAt(seq, i) = 1 .. (Len(seq) - 1)
           /\ \A k \in 1 .. (Len(seq) - 1) :
                RemoveAt(seq, i)[k] = IF k < i THEN seq[k] ELSE seq[k + 1]
<1> DEFINE n == Len(seq)
           before == SubSeq(seq, 1, i - 1)
           after == SubSeq(seq, i + 1, n)
<1>1. n \in Nat /\ DOMAIN seq = 1 .. n /\ i \in 1 .. n
  BY LenProperties
<1>2. /\ before \in Seq(S) /\ Len(before) = i - 1
      /\ \A k \in 1 .. (i - 1) : before[k] = seq[k]
  BY <1>1, SubSeqProperties
<1>3. /\ after \in Seq(S) /\ Len(after) = n - i
      /\ \A k \in 1 .. (n - i) : after[k] = seq[i + k]
  <2>1. /\ after \in Seq(S)
        /\ Len(after) = IF i + 1 <= n THEN n - (i + 1) + 1 ELSE 0
        /\ \A k \in 1 .. n - (i + 1) + 1 : after[k] = seq[i + 1 + k - 1]
    <3>1. i + 1 \in Int /\ n \in Int /\ \A k \in (i + 1) .. n : seq[k] \in S
      BY <1>1, ElementOfSeq
    <3> QED BY <3>1, SubSeqProperties
  <2> HIDE DEF after
  <2>2. \A k \in 1 .. (n - i) : k \in 1 .. n - (i + 1) + 1 /\ i + 1 + k - 1 = i + k
    BY <1>1
  <2> QED BY <1>1, <2>1, <2>2
<1> HIDE DEF before, after
<1>4. /\ before \o after \in Seq(S) /\ Len(before \o after) = n - 1
      /\ \A k \in 1 .. (n - 1) :
           (before \o after)[k] = IF k <= i - 1 THEN before[k] ELSE after[k - (i - 1)]
  <2>1. /\ before \in Seq(S) /\ after \in Seq(S)
        /\ Len(before) = i - 1 /\ Len(after) = n - i
    BY <1>2, <1>3
  <2>2. Len(before) + Len(after) = n - 1
    BY <1>1, <2>1
  <2>3. /\ before \o after \in Seq(S) /\ Len(before \o after) = Len(before) + Len(after)
        /\ \A k \in 1 .. Len(before) + Len(after) :
             (before \o after)[k] = IF k <= Len(before) THEN before[k]
                                    ELSE after[k - Len(before)]
    BY <2>1, ConcatProperties
  <2> QED BY <2>1, <2>2, <2>3
<1>5. DOMAIN (before \o after) = 1 .. (n - 1)
  BY <1>4, LenProperties
<1>6. ASSUME NEW k \in 1 .. (n - 1)
      PROVE  (before \o after)[k] = IF k < i THEN seq[k] ELSE seq[k + 1]
  <2>1. CASE k < i
    BY <1>1, <1>2, <1>4, <2>1
  <2>2. CASE ~(k < i)
    <3>1. k - (i - 1) \in 1 .. (n - i) /\ i + (k - (i - 1)) = k + 1
      BY <1>1, <2>2
    <3> QED BY <1>1, <1>3, <1>4, <2>2, <3>1
  <2> QED BY <2>1, <2>2
<1> QED BY <1>5, <1>6 DEF before, after, RemoveAt

\* Removing an entry of the bin b from the list.
LEMMA RemovedEntry ==
    ASSUME NEW t \in TaskType, NEW u \in TaskType, NEW b, NEW i \in OpenRelocations(t, b),
           u.temp = RemoveAt(t.temp, i)
    PROVE  /\ Places(u) \subseteq Places(t)
           /\ \A c, s : c # b /\ <<c, s>> \in Places(t) => <<c, s>> \in Places(u)
           /\ OneEntry(t) => OneEntry(u) /\ \A s : <<b, s>> \notin Places(u)
<1> DEFINE n == Len(t.temp)
<1>1. n \in Nat /\ DOMAIN t.temp = 1 .. n /\ i \in 1 .. n /\ t.temp[i].bin = b
  BY LenProperties DEF TaskType, OpenRelocations
<1>2. /\ DOMAIN u.temp = 1 .. (n - 1)
      /\ \A k \in 1 .. (n - 1) : u.temp[k] = IF k < i THEN t.temp[k] ELSE t.temp[k + 1]
  BY <1>1, RemoveAtElements DEF TaskType
<1> DEFINE at(k) == IF k < i THEN k ELSE k + 1
<1>3. \A k \in 1 .. (n - 1) : at(k) \in (1 .. n) \ {i} /\ u.temp[k] = t.temp[at(k)]
  BY <1>1, <1>2
<1>4. \A k, l \in 1 .. (n - 1) : at(k) = at(l) => k = l
  BY <1>1
<1>5. \A j \in (1 .. n) \ {i} : \E k \in 1 .. (n - 1) : at(k) = j
  <2> TAKE j \in (1 .. n) \ {i}
  <2>1. CASE j < i
    BY <1>1, <2>1
  <2>2. CASE ~(j < i)
    <3>1. j - 1 \in 1 .. (n - 1) /\ at(j - 1) = j
      BY <1>1, <2>2
    <3> QED BY <3>1
  <2> QED BY <2>1, <2>2
<1> HIDE DEF at, n
<1>6. Places(u) \subseteq Places(t)
  BY <1>1, <1>2, <1>3 DEF Places
<1>7. \A c, s : c # b /\ <<c, s>> \in Places(t) => <<c, s>> \in Places(u)
  <2> SUFFICES ASSUME NEW j \in 1 .. n, t.temp[j].bin # b
               PROVE  <<t.temp[j].bin, t.temp[j].buffer>> \in Places(u)
    BY <1>1 DEF Places
  <2>1. PICK k \in 1 .. (n - 1) : at(k) = j
    BY <1>1, <1>5
  <2> QED BY <1>2, <1>3, <2>1 DEF Places
<1>8. ASSUME OneEntry(t) PROVE OneEntry(u) /\ \A s : <<b, s>> \notin Places(u)
  <2>1. OneEntry(u)
    <3>1. ASSUME NEW k \in 1 .. (n - 1), NEW l \in 1 .. (n - 1), u.temp[k].bin = u.temp[l].bin
          PROVE  k = l
      <4>1. at(k) = at(l)
        BY <1>1, <1>3, <1>8, <3>1 DEF OneEntry
      <4> QED BY <1>4, <4>1
    <3> QED BY <1>2, <3>1 DEF OneEntry
  <2>2. \A k \in 1 .. (n - 1) : u.temp[k].bin # b
    BY <1>1, <1>3, <1>8 DEF OneEntry
  <2> QED BY <1>2, <2>1, <2>2 DEF Places
<1> QED BY <1>6, <1>7, <1>8

\* remember_relocation adds one place.
LEMMA RememberPlaces ==
    ASSUME NEW t \in TaskType, NEW b \in Bins, NEW f \in Stacks, NEW s \in Stacks
    PROVE  Places(RememberRelocation(t, b, f, s)) = Places(t) \cup {<<b, s>>}
<1> DEFINE u == RememberRelocation(t, b, f, s)
           n == Len(t.temp)
           e == [bin |-> b, from |-> f, buffer |-> s]
<1>1. n \in Nat /\ DOMAIN t.temp = 1 .. n /\ t.temp \in Seq(Relocation) /\ e \in Relocation
  BY LenProperties DEF TaskType, Relocation
<1>2. u.temp = Append(t.temp, e)
  BY DEF RememberRelocation, TaskType
<1>3. /\ DOMAIN u.temp = 1 .. (n + 1) /\ u.temp[n + 1] = e
      /\ \A k \in 1 .. n : u.temp[k] = t.temp[k]
  BY <1>1, <1>2, AppendProperties, LenProperties
<1>4. \A k \in 1 .. (n + 1) : k \in 1 .. n \/ k = n + 1
  BY <1>1
<1>5. n + 1 \in 1 .. (n + 1) /\ \A k \in 1 .. n : k \in 1 .. (n + 1)
  BY <1>1
<1>6. e.bin = b /\ e.buffer = s
  OBVIOUS
<1> HIDE DEF u, n, e
<1>7. Places(u) \subseteq Places(t) \cup {<<b, s>>}
  BY <1>1, <1>3, <1>4, <1>6 DEF Places
<1>8. Places(t) \cup {<<b, s>>} \subseteq Places(u)
  BY <1>1, <1>3, <1>5, <1>6 DEF Places
<1> QED BY <1>7, <1>8 DEF u

\* A foreign task takes the bin over.
LEMMA ForgetPlaces ==
    ASSUME NEW t \in TaskType, NEW b, HasOpenRelocation(t, b)
    PROVE  LET u == ForgetRelocation(t, b) IN
           /\ Places(u) \subseteq Places(t)
           /\ \A c, s : c # b /\ <<c, s>> \in Places(t) => <<c, s>> \in Places(u)
           /\ OneEntry(t) => OneEntry(u) /\ \A s : <<b, s>> \notin Places(u)
<1> DEFINE u == ForgetRelocation(t, b)
           i == FirstRelocation(t, b)
<1>1. u \in TaskType /\ i \in OpenRelocations(t, b)
  BY ForgetRelocationType, RelocationExists
<1>2. u.temp = RemoveAt(t.temp, i)
  BY DEF ForgetRelocation, TaskType
<1> HIDE DEF u, i
<1> QED BY <1>1, <1>2, RemovedEntry DEF u

\* The bin is back.
LEMMA RestoredPlaces ==
    ASSUME NEW t \in TaskType, NEW b
    PROVE  LET u == MarkLastRelocationRestored(t, b) IN
           /\ Places(u) \subseteq Places(t)
           /\ \A c, s : c # b /\ <<c, s>> \in Places(t) => <<c, s>> \in Places(u)
           /\ OneEntry(t) => OneEntry(u) /\ \A s : <<b, s>> \notin Places(u)
<1> DEFINE u == MarkLastRelocationRestored(t, b)
           i == LastRelocation(t, b)
<1>1. CASE HasOpenRelocation(t, b)
  <2>1. u \in TaskType /\ i \in OpenRelocations(t, b)
    BY <1>1, MarkLastRelocationRestoredType, RelocationExists
  <2>2. u.temp = RemoveAt(t.temp, i)
    BY <1>1 DEF MarkLastRelocationRestored, TaskType
  <2> HIDE DEF u, i
  <2> QED BY <2>1, <2>2, RemovedEntry DEF u
<1>2. CASE ~HasOpenRelocation(t, b)
  BY <1>2, OpenIsRemembered DEF MarkLastRelocationRestored
<1> QED BY <1>1, <1>2

\* Another stack to return to changes no place.
LEMMA UpdatedPlaces ==
    ASSUME NEW t \in TaskType, NEW b, NEW s \in Stacks, HasOpenRelocation(t, b)
    PROVE  Places(UpdateReturnStack(t, b, s)) = Places(t)
<1> DEFINE i == FirstRelocation(t, b)
           u == UpdateReturnStack(t, b, s)
<1>1. i \in DOMAIN t.temp /\ t.temp \in Seq(Relocation)
  BY RelocationExists DEF TaskType
<1>2. t.temp[i] \in Relocation
  BY <1>1, ElementOfSeq
<1>3. u.temp = [t.temp EXCEPT ![i] = [t.temp[i] EXCEPT !.from = s]]
  BY <1>1 DEF UpdateReturnStack, TaskType
<1>4. /\ DOMAIN u.temp = DOMAIN t.temp
      /\ \A k \in DOMAIN t.temp :
           u.temp[k] = IF k = i THEN [t.temp[i] EXCEPT !.from = s] ELSE t.temp[k]
  BY <1>1, <1>3
<1>5. \A k \in DOMAIN t.temp :
        u.temp[k].bin = t.temp[k].bin /\ u.temp[k].buffer = t.temp[k].buffer
  BY <1>2, <1>4 DEF Relocation
<1> HIDE DEF u
<1> QED BY <1>4, <1>5 DEF Places, u

\* Nor does another order.
LEMMA ReorderedPlaces ==
    ASSUME NEW t \in TaskType, NEW u \in Reorderings(t)
    PROVE  Places(u) = Places(t)
<1>1. CASE u.temp = t.temp
  BY <1>1 DEF Places
<1>2. CASE \E f \in Bijection(DOMAIN t.temp, DOMAIN t.temp) :
             u.temp = [i \in DOMAIN t.temp |-> t.temp[f[i]]]
  <2>1. PICK f \in Bijection(DOMAIN t.temp, DOMAIN t.temp) :
           u.temp = [i \in DOMAIN t.temp |-> t.temp[f[i]]]
    BY <1>2
  <2>2. /\ \A i \in DOMAIN t.temp : f[i] \in DOMAIN t.temp
        /\ \A j \in DOMAIN t.temp : \E i \in DOMAIN t.temp : f[i] = j
    <3>1. /\ f \in [DOMAIN t.temp -> DOMAIN t.temp]
          /\ \A j \in DOMAIN t.temp : \E i \in DOMAIN t.temp : f[i] = j
      BY <2>1 DEF Bijection, Injection, Surjection
    <3> QED BY <3>1
  <2>3. DOMAIN u.temp = DOMAIN t.temp /\ \A i \in DOMAIN t.temp : u.temp[i] = t.temp[f[i]]
    BY <2>1
  <2>4. Places(u) = {<<t.temp[f[i]].bin, t.temp[f[i]].buffer>> : i \in DOMAIN t.temp}
    BY <2>3 DEF Places
  <2> QED BY <2>2, <2>4 DEF Places
<1>3. CASE t.reordered \/ t.temp = <<>>
  BY <1>1, <1>3 DEF Reorderings
<1>4. CASE ~(t.reordered \/ t.temp = <<>>) /\ Lofi
  BY <1>1, <1>4 DEF Reorderings, TaskType
<1>5. CASE ~(t.reordered \/ t.temp = <<>>) /\ ~Lofi
  <2>1. PICK f \in Bijection(DOMAIN t.temp, DOMAIN t.temp) :
           u = [t EXCEPT !.temp = [i \in DOMAIN t.temp |-> t.temp[f[i]]],
                         !.reordered = TRUE]
    BY <1>5 DEF Reorderings, TaskType
  <2>2. u.temp = [i \in DOMAIN t.temp |-> t.temp[f[i]]]
    BY <2>1 DEF TaskType
  <2> QED BY <1>2, <2>2
<1> QED BY <1>3, <1>4, <1>5

----------------------------------------------------------------------------
(* What the strategy does to relocations and owners *)

\* Nothing, or it gives up all relocations of q with the owners of their bins.
Settles(q, t, aq, o) ==
    \/ o.queue = aq /\ Places(o.task) = Places(t)
    \/ o.queue = ReleaseOwnBlockers(aq, q, t) /\ Places(o.task) = {}

\* The return of the target.
LEMMA NextReturnTargetSettles ==
    ASSUME NEW w, NEW q, NEW t \in TaskType, NEW aq, NEW o \in NextReturnTarget(w, q, t, aq)
    PROVE  o.queue = aq /\ Places(o.task) = Places(t)
<1>1. CASE o = Outcome(t, aq, Raise) \/ o = Outcome(t, aq, NoStack)
  BY <1>1 DEF Outcome
<1>2. CASE o = Outcome(MarkTargetReturned(t), aq,
                       Action("request_complete", Target[q], None, None))
  BY <1>2 DEF Outcome, MarkTargetReturned, Places, TaskType
<1>3. CASE \E s \in Stacks :
             o = Outcome([t EXCEPT !.actual = s], aq,
                         Action("return_target", Target[q], None, s))
  BY <1>3 DEF Outcome, Places, TaskType
<1> QED BY <1>1, <1>2, <1>3 DEF NextReturnTarget, OrNoStack, ReturnStacks

\* What follows the restoring of the blockers.
LEMMA AfterRestoreSettles ==
    ASSUME NEW w, NEW q, NEW t \in TaskType, NEW aq, NEW o \in AfterRestore(w, q, t, aq)
    PROVE  o.queue = aq /\ Places(o.task) = Places(t)
<1>1. CASE t.served
  <2> DEFINE u == [t EXCEPT !.phase = "return_target"]
  <2>1. u \in TaskType /\ u.temp = t.temp
    BY DEF TaskType, Phases
  <2>2. o \in NextReturnTarget(w, q, u, aq)
    BY <1>1 DEF AfterRestore
  <2>3. o.queue = aq /\ Places(o.task) = Places(u)
    BY <2>1, <2>2, NextReturnTargetSettles
  <2> HIDE DEF u
  <2> QED BY <2>1, <2>3 DEF Places
<1>2. CASE ~t.served
  BY <1>2 DEF AfterRestore, Outcome, Places, TaskType
<1> QED BY <1>1, <1>2

\* The restoring of the blockers.
LEMMA NextRestoreBlockersSettles ==
    ASSUME NEW w, NEW q, NEW t \in TaskType, NEW aq, NEW o \in NextRestoreBlockers(w, q, t, aq)
    PROVE  Settles(q, t, aq, o)
<1>1. CASE ~ReturnBlockingBins
  <2> DEFINE u == [t EXCEPT !.temp = <<>>, !.reordered = TRUE]
  <2>1. u \in TaskType /\ u.temp = <<>>
    BY EmptySeq DEF TaskType
  <2>2. o \in AfterRestore(w, q, u, ReleaseOwnBlockers(aq, q, t))
    BY <1>1 DEF NextRestoreBlockers
  <2> HIDE DEF u
  <2>3. o.queue = ReleaseOwnBlockers(aq, q, t) /\ Places(o.task) = Places(u)
    BY <2>1, <2>2, AfterRestoreSettles
  <2>4. Places(u) = {}
    BY <2>1 DEF Places
  <2> QED BY <2>3, <2>4 DEF Settles
<1>2. CASE ReturnBlockingBins /\ t.temp = <<>>
  BY <1>2, AfterRestoreSettles DEF NextRestoreBlockers, Settles
<1>3. CASE ReturnBlockingBins /\ t.temp # <<>>
  <2>1. PICK u \in Reorderings(t) :
           o \in OrNoStack(u, aq,
                   IF Buried(w, PeekLastRelocation(u)) THEN Unbury(w, u, aq, PeekLastRelocation(u))
                                             ELSE RestoreBlocker(w, u, aq, PeekLastRelocation(u)))
    BY <1>3 DEF NextRestoreBlockers
  <2> DEFINE reloc == PeekLastRelocation(u)
  <2>2. u \in TaskType /\ u.temp # <<>> /\ Places(u) = Places(t)
    BY <1>3, <2>1, ReorderingsType, ReorderedPlaces
  <2>3. CASE o = Outcome(u, aq, NoStack)
    BY <2>2, <2>3 DEF Outcome, Settles
  <2>4. CASE o \in Unbury(w, u, aq, reloc)
    BY <2>2, <2>4 DEF Unbury, Outcome, Settles
  <2>5. CASE o \in RestoreBlocker(w, u, aq, reloc)
    <3>1. Len(u.temp) \in DOMAIN u.temp
      BY <2>2, TopType DEF TaskType
    <3>2. HasOpenRelocation(u, reloc.bin)
      BY <3>1 DEF HasOpenRelocation, OpenRelocations, PeekLastRelocation
    <3>3. \A s \in Stacks : Places(UpdateReturnStack(u, reloc.bin, s)) = Places(t)
      BY <2>2, <3>2, UpdatedPlaces
    <3> HIDE DEF reloc
    <3> QED BY <2>2, <2>5, <3>3 DEF RestoreBlocker, RelocationStacks, Outcome, Settles
  <2> QED BY <2>1, <2>3, <2>4, <2>5 DEF OrNoStack
<1> QED BY <1>1, <1>2, <1>3

\* The retrieval of the target.
LEMMA NextRetrieveTargetSettles ==
    ASSUME NEW w, NEW q, NEW t \in TaskType, NEW aq, NEW o \in NextRetrieveTarget(w, q, t, aq)
    PROVE  Settles(q, t, aq, o)
<1> DEFINE b == Target[q]
           s == StackOf(w.stack, b)
           t2 == IF t.home = None THEN [t EXCEPT !.home = s] ELSE t
           t3 == [t EXCEPT !.removed = TRUE, !.delivered = TRUE,
                           !.phase = "restore_blockers"]
<1>1. t2.temp = t.temp /\ t3.temp = t.temp /\ t3 \in TaskType
  BY DEF TaskType, Phases
<1>2. Places(t2) = Places(t) /\ Places(t3) = Places(t)
  BY <1>1 DEF Places
<1>3. CASE s = None /\ b \in w.station
  <2>1. o \in NextRestoreBlockers(w, q, t3, aq)
    BY <1>3 DEF NextRetrieveTarget
  <2>2. Settles(q, t3, aq, o)
    BY <1>1, <2>1, NextRestoreBlockersSettles
  <2>3. \A c : HasOpenRelocation(t3, c) <=> HasOpenRelocation(t, c)
    BY <1>2, OpenIsRemembered
  <2> HIDE DEF t3
  <2> QED BY <1>2, <2>2, <2>3 DEF Settles, ReleaseOwnBlockers
<1>4. CASE s = None /\ b \notin w.station
  BY <1>4 DEF NextRetrieveTarget, Settles, Outcome
<1>5. CASE s # None
  <2>1. o.queue = aq /\ o.task = t2
    BY <1>5 DEF NextRetrieveTarget, OrNoStack, Outcome
  <2> QED BY <1>2, <2>1 DEF Settles
<1> QED BY <1>3, <1>4, <1>5

\* next_action forgets relocations only together with the ownership of their
\* bins, and all of them.
LEMMA NextActionSettles ==
    ASSUME NEW w, WorldOK(w), NEW q \in Requests, NEW o \in NextAction(w, q)
    PROVE  Settles(q, w.task[q], w.queue, o)
<1> DEFINE t == w.task[q]
<1>1. t \in TaskType
  BY DEF WorldOK
<1>2. CASE t.phase = "retrieve_target"
  BY <1>1, <1>2, NextRetrieveTargetSettles DEF NextAction
<1>3. CASE t.phase = "restore_blockers"
  BY <1>1, <1>3, NextRestoreBlockersSettles DEF NextAction
<1>4. CASE t.phase = "return_target"
  BY <1>1, <1>4, NextReturnTargetSettles DEF NextAction, Settles
<1>5. CASE t.phase \in {"wait_for_pickstation", "complete"}
  BY <1>1, <1>5 DEF NextAction, Settles, Outcome
<1> QED BY <1>1, <1>2, <1>3, <1>4, <1>5 DEF TaskType, Phases

----------------------------------------------------------------------------
(* What a step does to relocations and owners *)

\* The strategy is asked with the tasks and owners given, or nobody is asked:
\* all stays, or one task gives up everything it has relocated.
NewClaims(tasks, owner) ==
    \/ /\ queue'.owner = owner
       /\ \A p \in Requests : Places(task'[p]) = Places(tasks[p])
    \/ \E q \in Requests :
          /\ Places(task'[q]) = {}
          /\ \A p \in Requests \ {q} : Places(task'[p]) = Places(tasks[p])
          /\ queue'.owner = [b \in Bins |-> IF owner[b] = q /\ HasOpenRelocation(tasks[q], b)
                                            THEN None ELSE owner[b]]

\* A bin put down that is no relocated blocker, or one whose return fails.
SetsDown(e) ==
    /\ HandleDrop(e)
    /\ PutsBin(e) \/ (HandsOver(e) /\ e.act.type = "remove_target")
    /\ robotTask[e.robot] # None =>
         /\ e.act.type # "relocate"
         /\ e.act.type = "return_blocker" =>
              RestoreMismatch(task[robotTask[e.robot]], e.act.bin, e.act.from, e.act.to)

KeepsClaims ==
    /\ NewClaims(task, queue.owner)
    /\ \/ UNCHANGED bins
       \/ \E e \in BagToSet(events) :
            e.act \in PhysicalActions /\ (TakesBin(e) \/ SetsDown(e))

\* A relocated blocker is put down: remembered and owned.
DigsOut(e) ==
    LET q == robotTask[e.robot]
        b == e.act.bin
    IN
    /\ HandleDrop(e) /\ PutsBin(e) /\ e.act.type = "relocate" /\ q \in Requests
    /\ NewClaims([task EXCEPT ![q] = RememberRelocation(@, b, e.act.from, e.act.to)],
                 [queue.owner EXCEPT ![b] = q])

\* It is back: forgotten and released.
PutsBack(e) ==
    LET q == robotTask[e.robot]
        b == e.act.bin
    IN
    /\ HandleDrop(e) /\ PutsBin(e) /\ e.act.type = "return_blocker" /\ q \in Requests
    /\ ~RestoreMismatch(task[q], b, e.act.from, e.act.to)
    /\ NewClaims([task EXCEPT ![q] = MarkLastRelocationRestored(@, b)],
                 [queue.owner EXCEPT ![b] = None])

\* It is lifted for another task: its owner forgets it.
TakesOver(e) ==
    LET b == e.act.bin IN
    /\ TakesBin(e) /\ ForeignOwner(e.robot, b)
    /\ queue'.owner = [queue.owner EXCEPT ![b] = None]
    /\ \A p \in Requests : Places(task'[p]) = Places(TasksAfterPickup(e.robot, b)[p])

\* The task of q is complete and owns nothing any more.
EndsTask(q) ==
    /\ UNCHANGED bins /\ task' = task /\ task[q].temp = <<>>
    /\ queue'.owner = [b \in Bins |-> IF queue.owner[b] = q THEN None ELSE queue.owner[b]]

ClaimStep ==
    \/ KeepsClaims
    \/ \E e \in BagToSet(events) :
          e.act \in PhysicalActions /\ (DigsOut(e) \/ PutsBack(e) \/ TakesOver(e))
    \/ \E q \in Requests : EndsTask(q)

\* An answer of the strategy, whatever is done with it.
LEMMA AnswerClaims ==
    ASSUME NEW w, WorldOK(w), NEW q \in Requests, NEW o \in NextAction(w, q),
           task' = [w.task EXCEPT ![q] = o.task], queue'.owner = o.queue.owner
    PROVE  NewClaims(w.task, w.queue.owner)
<1>1. Settles(q, w.task[q], w.queue, o)
  BY NextActionSettles
<1>2. w.task \in [Requests -> TaskType] /\ w.queue \in QueueType
  BY DEF WorldOK
<1>3. task'[q] = o.task /\ \A p \in Requests \ {q} : task'[p] = w.task[p]
  BY <1>2
<1>4. CASE o.queue = w.queue /\ Places(o.task) = Places(w.task[q])
  BY <1>3, <1>4 DEF NewClaims
<1>5. CASE o.queue = ReleaseOwnBlockers(w.queue, q, w.task[q]) /\ Places(o.task) = {}
  <2>1. o.queue.owner = [b \in Bins |-> IF w.queue.owner[b] = q /\ HasOpenRelocation(w.task[q], b)
                                        THEN None ELSE w.queue.owner[b]]
    BY <1>2, <1>5 DEF ReleaseOwnBlockers, QueueType
  <2> QED BY <1>3, <1>5, <2>1 DEF NewClaims
<1> QED BY <1>1, <1>4, <1>5 DEF Settles

\* Carrying the answer out keeps its owners.
LEMMA CarryClaims ==
    ASSUME NEW w, WorldOK(w), NEW q \in Requests, NEW o \in NextAction(w, q),
           NEW r, NEW evs, NEW next, Carry(w, r, q, o, evs, next)
    PROVE  /\ task' = [w.task EXCEPT ![q] = o.task] /\ queue'.owner = o.queue.owner
           /\ NewClaims(w.task, w.queue.owner)
<1>1. o.queue \in QueueType
  BY NextActionOK DEF OutcomeOK
<1>2. task' = [w.task EXCEPT ![q] = o.task] /\ queue'.owner = o.queue.owner
  BY <1>1 DEF Carry, AddWaitingTask, QueueType
<1> QED BY <1>2, AnswerClaims

\* Asking for the next action.
LEMMA ScheduleNextClaims ==
    ASSUME NEW w, WorldOK(w), NEW q \in Requests, NEW r, NEW evs, ScheduleNext(w, r, q, evs)
    PROVE  NewClaims(w.task, w.queue.owner)
BY CarryClaims DEF ScheduleNext

\* The strategy is asked about the present.
LEMMA NowClaims ==
    ASSUME TypeOK
    PROVE  WorldOK(Now) /\ Now.task = task /\ Now.queue = queue
BY NowOK, TypeOKParts DEF Now, World

\* Nothing happens to tasks and owners.
LEMMA SameClaims ==
    ASSUME task' = task, queue'.owner = queue.owner
    PROVE  NewClaims(task, queue.owner)
BY DEF NewClaims

\* The scheduler gives the task of q to the idle robot r.
Gives(r, q, w, o) ==
    /\ robotTask[r] = None
    /\ WorldOK(w) /\ w.task = task /\ w.queue.owner = queue.owner
    /\ w.stack = stack /\ w.moving = moving /\ w.station = Now.station
    /\ o \in NextAction(w, q)
    /\ \E next \in {"handle", "schedule", "schedule_new"} : Carry(w, r, q, o, events, next)
    /\ UNCHANGED bins

\* One scheduling step: it finishes, or it carries out an answer for a new robot.
LEMMA ScheduleGives ==
    ASSUME TypeOK, Schedule
    PROVE  \/ ScheduleDone
           \/ \E r \in Robots, q \in Requests : \E w, o : Gives(r, q, w, o)
<1>1. ASSUME NEW r \in Robots, NEW i \in DOMAIN queue.waiting, ScheduleWaiting(r, i)
      PROVE  \E q \in Requests : \E w, o : Gives(r, q, w, o)
  <2> DEFINE q == queue.waiting[i]
             popped == [queue EXCEPT !.waiting = SubSeq(queue.waiting, i + 1, Len(queue.waiting))]
             aq == MarkTaskAssigned(popped, q, r)
             w == World(task, aq, stack, status, moving)
  <2>1. queue.waiting \in Seq(Requests) /\ q \in Requests
    BY ElementOfSeq, LenProperties DEF TypeOK, QueueType
  <2>2. SubSeq(queue.waiting, i + 1, Len(queue.waiting)) \in Seq(Requests)
    BY <2>1, SubSeqProperties, LenProperties
  <2>3. popped \in QueueType /\ popped.owner = queue.owner
    BY <2>2 DEF TypeOK, QueueType
  <2>4. aq \in QueueType /\ aq.owner = queue.owner
    BY <2>1, <2>3, MarkTaskAssignedType DEF MarkTaskAssigned, QueueType
  <2>5. WorldOK(w) /\ w.task = task /\ w.queue = aq
    BY <2>4, WorldWithQueue
  <2>6. w.stack = stack /\ w.moving = moving /\ w.station = Now.station
    BY DEF World, Now
  <2>7. PICK o \in NextAction(w, q) :
           Carry(w, r, q, o, events, IF o.act = NoAction THEN "schedule_new" ELSE "schedule")
    BY <1>1 DEF ScheduleWaiting
  <2> HIDE DEF w, aq, q
  <2>8. /\ o \in NextAction(w, q)
        /\ \E next \in {"handle", "schedule", "schedule_new"} : Carry(w, r, q, o, events, next)
    BY <2>7
  <2>9. robotTask[r] = None /\ UNCHANGED bins
    BY <1>1 DEF ScheduleWaiting, FirstIdle, IdleRobots
  <2>10. Gives(r, q, w, o)
    BY <2>4, <2>5, <2>6, <2>8, <2>9, Zenon DEF Gives
  <2> QED BY <2>1, <2>10
<1>2. ASSUME NEW r \in Robots, NEW i \in DOMAIN queue.pending, ScheduleNew(r, i)
      PROVE  \E q \in Requests : \E w, o : Gives(r, q, w, o)
  <2> DEFINE q == queue.pending[i]
             mid == [queue EXCEPT !.pending = RemoveAt(queue.pending, i),
                                  !.waiting = WaitingAfterSearch]
             aq == MarkAssigned(mid, q, r)
             w == World(task, aq, stack, status, moving)
  <2>1. queue.pending \in Seq(Requests) /\ q \in Requests
    BY ElementOfSeq, LenProperties DEF TypeOK, QueueType
  <2>2. RemoveAt(queue.pending, i) \in Seq(Requests) /\ WaitingAfterSearch \in Seq(Requests)
    BY <2>1, RemoveAtType, EmptySeq DEF WaitingAfterSearch, TypeOK, QueueType
  <2>3. mid \in QueueType /\ mid.owner = queue.owner
    BY <2>2 DEF TypeOK, QueueType
  <2>4. aq \in QueueType /\ aq.owner = queue.owner
    BY <2>1, <2>3, MarkAssignedType DEF MarkAssigned, QueueType
  <2>5. WorldOK(w) /\ w.task = task /\ w.queue = aq
    BY <2>4, WorldWithQueue
  <2>6. w.stack = stack /\ w.moving = moving /\ w.station = Now.station
    BY DEF World, Now
  <2>7. PICK o \in NextAction(w, q) :
           Carry(w, r, q, o, events, IF o.act = NoAction THEN "handle" ELSE "schedule")
    BY <1>2 DEF ScheduleNew
  <2> HIDE DEF w, aq, mid, q
  <2>8. /\ o \in NextAction(w, q)
        /\ \E next \in {"handle", "schedule", "schedule_new"} : Carry(w, r, q, o, events, next)
    BY <2>7
  <2>9. robotTask[r] = None /\ UNCHANGED bins
    BY <1>2 DEF ScheduleNew, FirstIdle, IdleRobots
  <2>10. Gives(r, q, w, o)
    BY <2>4, <2>5, <2>6, <2>8, <2>9, Zenon DEF Gives
  <2> QED BY <2>1, <2>10
<1> QED BY <1>1, <1>2 DEF Schedule

\* What each handler does to the places and their owners.
LEMMA ScheduleClaims ==
    ASSUME TypeOK, Schedule
    PROVE  KeepsClaims
<1>1. CASE ScheduleDone
  <2>1. task' = task /\ queue'.owner = queue.owner /\ UNCHANGED bins
    BY <1>1 DEF ScheduleDone, TypeOK, QueueType
  <2> QED BY <2>1, SameClaims DEF KeepsClaims
<1>2. ASSUME NEW r \in Robots, NEW q \in Requests, NEW w, NEW o, Gives(r, q, w, o)
      PROVE  KeepsClaims
  BY <1>2, CarryClaims DEF Gives, KeepsClaims
<1> QED BY <1>1, <1>2, ScheduleGives

\* A bin is lifted; if a foreign task owned it, that task forgets it.
LEMMA PickupSucceedsClaims ==
    ASSUME TypeOK, NEW e \in BagToSet(events), e.act \in PhysicalActions,
           robotTask[e.robot] \in Requests, CanPickup(e.act), PickupSucceeds(e)
    PROVE  TakesBin(e) /\ (TakesOver(e) \/ NewClaims(task, queue.owner))
<1> DEFINE r == e.robot
           b == e.act.bin
           tasks == TasksAfterPickup(r, b)
<1>1. TakesBin(e)
  BY DEF PickupSucceeds, StackAfterPickup, TakesBin
<1>2. b \in Bins /\ queue \in QueueType /\ task \in [Requests -> TaskType] /\ r \in Robots
  BY EventFields DEF PhysicalActions, TypeOK
<1>3. tasks \in [Requests -> TaskType]
  <2>1. CASE ForeignOwner(r, b) /\ HasOpenRelocation(task[queue.owner[b]], b)
    <3>1. queue.owner[b] \in Requests
      BY <1>2, <2>1 DEF ForeignOwner, QueueType
    <3>2. ForgetRelocation(task[queue.owner[b]], b) \in TaskType
      BY <1>2, <2>1, <3>1, ForgetRelocationType
    <3> QED BY <1>2, <2>1, <3>1, <3>2 DEF TasksAfterPickup
  <2>2. CASE ~(ForeignOwner(r, b) /\ HasOpenRelocation(task[queue.owner[b]], b))
    BY <1>2, <2>2 DEF TasksAfterPickup
  <2> QED BY <2>1, <2>2
<1>4. \A p \in Requests : Places(task'[p]) = Places(tasks[p])
  <2>1. CASE task' = tasks
    BY <2>1
  <2>2. ASSUME NEW x \in Stations, task' = [tasks EXCEPT ![robotTask[r]].station = x]
        PROVE  \A p \in Requests : Places(task'[p]) = Places(tasks[p])
    <3> HIDE DEF tasks
    <3>1. \A p \in Requests : task'[p].temp = tasks[p].temp
      BY <1>3, <2>2 DEF TaskType
    <3> QED BY <3>1 DEF Places
  <2> QED BY <2>1, <2>2 DEF PickupSucceeds
<1>5. CASE ForeignOwner(r, b)
  <2>1. queue'.owner = [queue.owner EXCEPT ![b] = None]
    BY <1>2, <1>5 DEF PickupSucceeds, QueueAfterPickup, ReleaseBlocker, QueueType
  <2> QED BY <1>1, <1>4, <1>5, <2>1 DEF TakesOver
<1>6. CASE ~ForeignOwner(r, b)
  <2>1. queue' = queue /\ tasks = task
    BY <1>6 DEF PickupSucceeds, QueueAfterPickup, TasksAfterPickup
  <2> QED BY <1>1, <1>4, <2>1 DEF NewClaims
<1> QED BY <1>5, <1>6

\* A task handed back to the queue.
LEMMA RequeueClaims ==
    ASSUME NEW r, NEW tasks, NEW aq \in QueueType, NEW evs, Requeue(r, tasks, aq, evs)
    PROVE  task' = tasks /\ queue'.owner = aq.owner
BY DEF Requeue, AddWaitingTask, QueueType

\* A PICKUP fails, hands the task back, or lifts the bin.
LEMMA PickupClaims ==
    ASSUME TypeOK, NEW e \in BagToSet(events), Pickup(e)
    PROVE  ClaimStep
<1> DEFINE r == e.robot
           q == e.request
<1>1. /\ r \in Robots /\ q \in Requests /\ e.act \in PhysicalActions /\ queue \in QueueType
      /\ WorldOK(Now) /\ Now.task = task /\ Now.queue = queue
  BY EventFields, NowClaims DEF Pickup, TypeOK
<1>2. ASSUME NewClaims(task, queue.owner), UNCHANGED bins
      PROVE  ClaimStep
  BY <1>2 DEF ClaimStep, KeepsClaims
<1>3. CASE ScheduleNext(Now, r, q, Drop(events, e)) /\ UNCHANGED bins
  BY <1>1, <1>2, <1>3, ScheduleNextClaims
<1>4. CASE UNCHANGED <<queue, task, bins>>
  BY <1>2, <1>4, SameClaims
<1>5. CASE Requeue(r, task, queue, Drop(events, e)) /\ UNCHANGED bins
  BY <1>1, <1>2, <1>5, RequeueClaims, SameClaims
<1>6. CASE robotTask[r] = q /\ CanPickup(e.act) /\ PickupSucceeds(e)
  BY <1>1, <1>6, PickupSucceedsClaims DEF ClaimStep, KeepsClaims
<1>7. CASE PickupNotOnTop(e) /\ UNCHANGED bins
  <2>1. PICK o \in NextAction(Now, q) :
          \/ task' = [task EXCEPT ![q] = o.task] /\ queue' = o.queue
          \/ Carry(Now, r, q, o, Drop(events, e), "handle")
          \/ Requeue(r, [task EXCEPT ![q] = o.task], o.queue, Drop(events, e))
    BY <1>7 DEF PickupNotOnTop
  <2>2. o.queue \in QueueType
    BY <1>1, NextActionOK DEF OutcomeOK
  <2>3. task' = [Now.task EXCEPT ![q] = o.task] /\ queue'.owner = o.queue.owner
    BY <1>1, <2>1, <2>2, CarryClaims, RequeueClaims
  <2> QED BY <1>1, <1>2, <1>7, <2>3, AnswerClaims
<1> QED BY <1>3, <1>4, <1>5, <1>6, <1>7 DEF Pickup, Discard

\* A relocated bin is put down.
LEMMA DropRelocatedClaims ==
    ASSUME TypeOK, NEW e \in BagToSet(events), e.act \in PhysicalActions, HandleDrop(e),
           PutsBin(e), IsRelocate(e.act), robotTask[e.robot] # None, DropRelocated(e)
    PROVE  KeepsClaims \/ DigsOut(e)
<1> DEFINE r == e.robot
           q == robotTask[r]
           b == e.act.bin
           tasks == [task EXCEPT ![q] = RememberRelocation(@, b, e.act.from, e.act.to)]
           aq == RegisterBlocker(queue, b, q)
<1>1. /\ r \in Robots /\ q \in Requests /\ b \in Bins
      /\ e.act.from \in Stacks /\ e.act.to \in Stacks /\ e.act.type # "remove_target"
      /\ queue \in QueueType /\ task \in [Requests -> TaskType]
  BY EventFields DEF PhysicalActions, IsRelocate, TypeOK
<1>2. \A ts \in [Requests -> TaskType], bq \in QueueType :
         /\ WorldOK(WorldAfterDrop(e, ts, bq))
         /\ WorldAfterDrop(e, ts, bq).task = ts /\ WorldAfterDrop(e, ts, bq).queue = bq
  BY <1>1, PutDownType, WorldIsOK DEF WorldAfterDrop, World
<1>3. CASE e.act.type = "unbury"
  <2>1. ScheduleNext(WorldAfterDrop(e, task, queue), r, q, Drop(events, e))
    BY <1>3 DEF DropRelocated
  <2>2. NewClaims(task, queue.owner)
    BY <1>1, <1>2, <2>1, ScheduleNextClaims
  <2> QED BY <1>3, <2>2 DEF KeepsClaims, SetsDown
<1>4. CASE e.act.type = "relocate"
  <2>1. ScheduleNext(WorldAfterDrop(e, tasks, aq), r, q, Drop(events, e))
    BY <1>4 DEF DropRelocated
  <2>2. tasks \in [Requests -> TaskType]
    BY <1>1, RememberRelocationType
  <2>3. aq \in QueueType /\ aq.owner = [queue.owner EXCEPT ![b] = q]
    BY <1>1, BlockerOwnershipType DEF RegisterBlocker, QueueType
  <2> HIDE DEF tasks, aq
  <2>4. NewClaims(tasks, [queue.owner EXCEPT ![b] = q])
    BY <1>1, <1>2, <2>1, <2>2, <2>3, ScheduleNextClaims
  <2> QED BY <1>1, <1>4, <2>4 DEF DigsOut, tasks
<1> QED BY <1>3, <1>4 DEF IsRelocate

\* A blocker is put down where it was.
LEMMA DropBlockerClaims ==
    ASSUME TypeOK, NEW e \in BagToSet(events), e.act \in PhysicalActions, HandleDrop(e),
           PutsBin(e), e.act.type = "return_blocker", robotTask[e.robot] # None, DropBlocker(e)
    PROVE  KeepsClaims \/ PutsBack(e)
<1> DEFINE r == e.robot
           q == robotTask[r]
           b == e.act.bin
           tasks == [task EXCEPT ![q] = MarkLastRelocationRestored(@, b)]
           aq == ReleaseBlocker(queue, b)
<1>1. /\ r \in Robots /\ q \in Requests /\ b \in Bins /\ e.act.type # "remove_target"
      /\ queue \in QueueType /\ task \in [Requests -> TaskType]
  BY EventFields DEF PhysicalActions, TypeOK
<1>2. CASE RestoreMismatch(task[q], b, e.act.from, e.act.to)
  <2>1. NewClaims(task, queue.owner)
    BY <1>2, SameClaims DEF DropBlocker
  <2> QED BY <1>2, <2>1 DEF KeepsClaims, SetsDown
<1>3. CASE ~RestoreMismatch(task[q], b, e.act.from, e.act.to)
  <2>1. ScheduleNext(WorldAfterDrop(e, tasks, aq), r, q, Drop(events, e))
    BY <1>3 DEF DropBlocker
  <2>2. tasks \in [Requests -> TaskType]
    BY <1>1, MarkLastRelocationRestoredType
  <2>3. aq \in QueueType /\ aq.owner = [queue.owner EXCEPT ![b] = None]
    BY <1>1, BlockerOwnershipType DEF ReleaseBlocker, QueueType
  <2> HIDE DEF tasks, aq
  <2>4. /\ WorldOK(WorldAfterDrop(e, tasks, aq))
        /\ WorldAfterDrop(e, tasks, aq).task = tasks /\ WorldAfterDrop(e, tasks, aq).queue = aq
    BY <1>1, <2>2, <2>3, PutDownType, WorldIsOK DEF WorldAfterDrop, World
  <2>5. NewClaims(tasks, [queue.owner EXCEPT ![b] = None])
    BY <1>1, <2>1, <2>3, <2>4, ScheduleNextClaims
  <2> QED BY <1>1, <1>3, <2>5 DEF PutsBack, tasks
<1> QED BY <1>2, <1>3

\* A target is put down, at a port or on a stack.
LEMMA DropTargetClaims ==
    ASSUME TypeOK, NEW e \in BagToSet(events), e.act \in PhysicalActions,
           \/ DropAtPort(e)
           \/ DropTarget(e) /\ robotTask[e.robot] \in Requests
    PROVE  NewClaims(task, queue.owner)
<1> DEFINE r == e.robot
           q == robotTask[r]
<1>1. r \in Robots /\ queue \in QueueType /\ task \in [Requests -> TaskType]
  BY EventFields DEF TypeOK
<1>2. ASSUME q \in Requests, NEW u, u.temp = task[q].temp, task' = [task EXCEPT ![q] = u],
             queue'.owner = queue.owner
      PROVE  NewClaims(task, queue.owner)
  <2> HIDE DEF q
  <2>1. \A p \in Requests : task'[p].temp = task[p].temp
    BY <1>1, <1>2
  <2> QED BY <1>2, <2>1 DEF NewClaims, Places
<1>3. CASE UNCHANGED <<queue, task>>
  BY <1>3, SameClaims
<1>4. CASE DropAtPort(e) /\ q # None
  <2> DEFINE u == MarkWaitingAtPickstation(
                    AddBatchedRequests(task[q], ToSet(queue.waitlist[Target[q]])))
  <2>1. q \in Requests
    BY <1>1, <1>4 DEF TypeOK
  <2>2. /\ task' = [task EXCEPT ![q] = u]
        /\ queue' = AddPickstationTask(PopBatchWaitlist(queue, Target[q]), q)
    BY <1>4 DEF DropAtPort
  <2>3. task[q] \in TaskType
    BY <1>1, <2>1
  <2>4. u.temp = task[q].temp
    <3> HIDE DEF q
    <3> QED BY <2>3 DEF MarkWaitingAtPickstation, AddBatchedRequests, TaskType
  <2>5. queue'.owner = queue.owner
    BY <1>1, <2>2 DEF AddPickstationTask, PopBatchWaitlist, QueueType
  <2> HIDE DEF u, q
  <2> QED BY <1>2, <2>1, <2>2, <2>4, <2>5
<1>5. CASE DropTarget(e) /\ e.request = q /\ q \in Requests
  <2> DEFINE u == MarkTargetReturned([task[q] EXCEPT !.actual = e.act.to])
  <2>1. task' = [task EXCEPT ![q] = u] /\ queue' = queue
    BY <1>5 DEF DropTarget
  <2>2. task[q] \in TaskType
    BY <1>1, <1>5
  <2>3. u.temp = task[q].temp
    <3> HIDE DEF q
    <3> QED BY <2>2 DEF MarkTargetReturned, TaskType
  <2> HIDE DEF u, q
  <2> QED BY <1>2, <1>5, <2>1, <2>3
<1> QED BY <1>3, <1>4, <1>5 DEF DropAtPort, DropTarget, Discard

\* The DROP handler.
LEMMA HandleDropClaims ==
    ASSUME TypeOK, NEW e \in BagToSet(events), HandleDrop(e)
    PROVE  KeepsClaims \/ DigsOut(e) \/ PutsBack(e)
<1> DEFINE r == e.robot
           q == robotTask[r]
           b == e.act.bin
<1>1. /\ r \in Robots /\ q \in Requests \cup {None} /\ e.act \in PhysicalActions
      /\ WorldOK(Now) /\ Now.task = task /\ Now.queue = queue
      /\ task \in [Requests -> TaskType]
  BY EventFields, NowClaims DEF HandleDrop, TypeOK
<1>2. CASE ScheduleNext(Now, r, q, Drop(events, e)) /\ q # None /\ UNCHANGED bins
  BY <1>1, <1>2, ScheduleNextClaims DEF KeepsClaims
<1>3. CASE UNCHANGED <<queue, task, bins>>
  BY <1>3, SameClaims DEF KeepsClaims
<1>4. CASE RedirectBlockedDrop(e)
  <2>1. PICK s \in Stacks :
           /\ IF q # None /\ e.act.type = "return_blocker"
              THEN /\ HasOpenRelocation(task[q], b)
                   /\ task' = [task EXCEPT ![q] = UpdateReturnStack(@, b, s)]
              ELSE task' = task
           /\ UNCHANGED <<queue, bins>>
    BY <1>4 DEF RedirectBlockedDrop, RelocationStacks
  <2>2. CASE task' = task
    BY <2>1, <2>2, SameClaims DEF KeepsClaims
  <2>3. CASE /\ q \in Requests /\ HasOpenRelocation(task[q], b)
             /\ task' = [task EXCEPT ![q] = UpdateReturnStack(@, b, s)]
    <3>1. Places(UpdateReturnStack(task[q], b, s)) = Places(task[q])
      <4>1. task[q] \in TaskType
        BY <1>1, <2>3
      <4> HIDE DEF q, b
      <4> QED BY <2>3, <4>1, UpdatedPlaces
    <3> HIDE DEF q, b
    <3>2. \A p \in Requests : Places(task'[p]) = Places(task[p])
      BY <1>1, <2>3, <3>1
    <3> QED BY <2>1, <3>2 DEF KeepsClaims, NewClaims
  <2> QED BY <1>1, <2>1, <2>2, <2>3
<1>5. CASE ~StaleDrop(e) /\ ~FullOnDrop(e) /\ DropEffect(e)
  <2>1. b \in moving
    BY <1>5 DEF StaleDrop
  <2>2. CASE e.act.type = "remove_target"
    <3>1. DropAtPort(e)
      BY <1>5, <2>2 DEF DropEffect, IsRelocate
    <3>2. HandsOver(e) /\ NewClaims(task, queue.owner)
      BY <1>1, <2>1, <3>1, DropTargetClaims DEF DropAtPort, HandsOver
    <3> QED BY <1>1, <2>2, <3>2 DEF KeepsClaims, SetsDown
  <2>3. CASE e.act.type # "remove_target"
    <3>1. e.act.to \in Stacks /\ e.act.to # None
      BY <1>1, <2>3, WarehouseAssumption DEF PhysicalActions
    <3>2. HasCapacity(stack, e.act.to)
      BY <1>5, <3>1 DEF FullOnDrop
    <3>3. CASE q = None
      <4>1. DropWithoutTask(e)
        BY <1>5, <2>3, <3>3 DEF DropEffect
      <4>2. PutsBin(e) /\ NewClaims(task, queue.owner)
        BY <2>1, <2>3, <3>2, <4>1, SameClaims DEF DropWithoutTask, PutsBin, Discard
      <4> QED BY <1>1, <3>3, <4>2 DEF KeepsClaims, SetsDown
    <3>4. CASE q # None
      <4>1. \/ DropRelocated(e) /\ IsRelocate(e.act)
            \/ DropBlocker(e) /\ e.act.type = "return_blocker"
            \/ DropTarget(e) /\ e.act.type = "return_target"
        BY <1>1, <1>5, <2>3, <3>4 DEF DropEffect, PhysicalActions, IsRelocate
      <4>2. PutsBin(e)
        <5>1. PutDown(e)
          BY <4>1 DEF DropRelocated, DropBlocker, DropTarget
        <5> QED BY <2>1, <2>3, <3>2, <5>1 DEF PutsBin
      <4>3. CASE DropRelocated(e) /\ IsRelocate(e.act)
        BY <1>1, <3>4, <4>2, <4>3, DropRelocatedClaims
      <4>4. CASE DropBlocker(e) /\ e.act.type = "return_blocker"
        BY <1>1, <3>4, <4>2, <4>4, DropBlockerClaims
      <4>5. CASE DropTarget(e) /\ e.act.type = "return_target"
        <5>1. NewClaims(task, queue.owner)
          BY <1>1, <3>4, <4>5, DropTargetClaims
        <5> QED BY <1>1, <4>2, <4>5, <5>1 DEF KeepsClaims, SetsDown
      <4> QED BY <4>1, <4>3, <4>4, <4>5
    <3> QED BY <3>3, <3>4
  <2> QED BY <2>2, <2>3
<1> QED BY <1>1, <1>2, <1>3, <1>4, <1>5 DEF HandleDrop, OutdatedReturn, Discard

\* A service ends.
LEMMA PickstationCompleteClaims ==
    ASSUME TypeOK, NEW p \in Stations, NEW q \in Requests, PickstationComplete(p, q)
    PROVE  KeepsClaims
<1> DEFINE aq == MarkPickstationTaskCompleted(queue, q)
<1>1. queue \in QueueType /\ task \in [Requests -> TaskType]
  BY DEF TypeOK
<1>2. aq \in QueueType /\ aq.owner = queue.owner
  BY <1>1, MarkPickstationTaskCompletedType
     DEF MarkPickstationTaskCompleted, AddWaitingTask, QueueType
<1> HIDE DEF aq
<1>3. \A r \in Robots : MarkTaskAssigned(aq, q, r).owner = queue.owner
  BY <1>2 DEF MarkTaskAssigned, QueueType
<1>4. queue' = aq \/ \E r \in Robots : queue' = MarkTaskAssigned(aq, q, r)
  BY DEF PickstationComplete, IdleRobots, aq
<1>5. queue'.owner = queue.owner
  BY <1>2, <1>3, <1>4
<1>6. \A x \in Requests : task'[x].temp = task[x].temp
  <2>1. MarkPickstationCompleted(task[q]).temp = task[q].temp
    BY <1>1 DEF MarkPickstationCompleted, TaskType
  <2>2. task' = [task EXCEPT ![q] = MarkPickstationCompleted(task[q])]
    BY DEF PickstationComplete
  <2> QED BY <1>1, <2>1, <2>2
<1>7. UNCHANGED bins
  BY DEF PickstationComplete
<1> QED BY <1>5, <1>6, <1>7 DEF KeepsClaims, NewClaims, Places

\* A task is complete.
LEMMA RequestCompleteClaims ==
    ASSUME TypeOK, NEW r \in Robots, NEW q \in Requests, RequestComplete(r, q)
    PROVE  ClaimStep
<1>1. queue \in QueueType /\ UNCHANGED <<task, bins>>
  BY DEF RequestComplete, TypeOK
<1>2. CASE CanCompleteConsistently(q, task[q], stack) /\ queue' = MarkCompleted(queue, q)
  <2>1. task[q].temp = <<>>
    BY <1>2 DEF CanCompleteConsistently
  <2>2. queue'.owner = [b \in Bins |-> IF queue.owner[b] = q THEN None ELSE queue.owner[b]]
    BY <1>1, <1>2 DEF MarkCompleted, QueueType
  <2> QED BY <1>1, <2>1, <2>2 DEF ClaimStep, EndsTask
<1>3. CASE queue' = queue
  BY <1>1, <1>3, SameClaims DEF ClaimStep, KeepsClaims
<1> QED BY <1>2, <1>3 DEF RequestComplete

\* A robot is made to think again.
LEMMA ForceReplanClaims ==
    ASSUME TypeOK, NEW r \in Robots, ForceReplan(r)
    PROVE  KeepsClaims
<1> DEFINE q == robotTask[r]
<1>1. /\ q \in Requests /\ WorldOK(Now) /\ Now.task = task /\ Now.queue = queue
      /\ UNCHANGED bins
  BY NowClaims DEF ForceReplan, TypeOK
<1>2. PICK o \in NextAction(Now, q) : task' = [task EXCEPT ![q] = o.task] /\ queue' = o.queue
  BY DEF ForceReplan
<1> HIDE DEF q
<1> QED BY <1>1, <1>2, AnswerClaims DEF KeepsClaims

\* Every step.
LEMMA ClaimSteps ==
    ASSUME TypeOK, [Next]_vars
    PROVE  ClaimStep
<1>1. ASSUME task' = task, queue'.owner = queue.owner, UNCHANGED bins
      PROVE  ClaimStep
  BY <1>1, SameClaims DEF ClaimStep, KeepsClaims
<1>2. CASE Arrival
  <2>1. queue'.owner = queue.owner
    BY <1>2 DEF Arrival, Add, TypeOK, QueueType
  <2> QED BY <1>1, <1>2, <2>1 DEF Arrival
<1>3. CASE Schedule
  BY <1>3, ScheduleClaims DEF ClaimStep
<1>4. CASE \E r \in Robots : RobotEvent(r)
  <2>1. PICK e \in BagToSet(events) : Pickup(e) \/ HandleDrop(e) \/ RobotAction(e)
    BY <1>4 DEF RobotEvent
  <2>2. e.kind \in {"pickup", "drop"} => e.act \in PhysicalActions
    BY EventFields
  <2>3. CASE Pickup(e)
    BY <2>3, PickupClaims
  <2>4. CASE HandleDrop(e)
    BY <2>2, <2>4, HandleDropClaims DEF ClaimStep, HandleDrop
  <2>5. CASE RobotAction(e)
    <3> DEFINE r == e.robot
               q == robotTask[r]
    <3>1. r \in Robots /\ q \in Requests \cup {None} /\ UNCHANGED bins /\ queue \in QueueType
      BY <2>5, EventFields DEF RobotAction, TypeOK
    <3>2. CASE ScheduleNext(Now, r, q, Drop(events, e)) /\ q # None
      BY <3>1, <3>2, NowClaims, ScheduleNextClaims DEF ClaimStep, KeepsClaims
    <3>3. CASE Discard(e)
      BY <1>1, <3>1, <3>3 DEF Discard
    <3>4. CASE Requeue(r, task, queue, Drop(events, e))
      BY <1>1, <3>1, <3>4, RequeueClaims
    <3> QED BY <2>5, <3>2, <3>3, <3>4 DEF RobotAction
  <2> QED BY <2>1, <2>3, <2>4, <2>5
<1>5. CASE \E p \in Stations, q \in Requests : PickstationComplete(p, q)
  BY <1>5, PickstationCompleteClaims DEF ClaimStep
<1>6. CASE \E r \in Robots, q \in Requests : RequestComplete(r, q)
  BY <1>6, RequestCompleteClaims
<1>7. ASSUME NEW r \in Robots, RequeueVictim(r)
      PROVE  ClaimStep
  <2>1. queue \in QueueType /\ Requeue(r, task, queue, events) /\ UNCHANGED bins
    BY <1>7 DEF RequeueVictim, TypeOK
  <2> QED BY <1>1, <2>1, RequeueClaims
<1>8. CASE \E r \in Robots : ForceReplan(r)
  BY <1>8, ForceReplanClaims DEF ClaimStep
<1>9. CASE UNCHANGED vars
  BY <1>1, <1>9 DEF vars
<1> QED BY <1>2, <1>3, <1>4, <1>5, <1>6, <1>7, <1>8, <1>9 DEF Next

----------------------------------------------------------------------------
(* Owners remember *)

\* OwnersRemember for given tasks and owners.
Remembered(tasks, owner) ==
    \A b \in Bins, q \in Requests : owner[b] = q => \E s : <<b, s>> \in Places(tasks[q])

\* The strategy forgets a relocation only with its owner.
LEMMA RememberedByClaims ==
    ASSUME NEW tasks, NEW owner, Remembered(tasks, owner), NewClaims(tasks, owner)
    PROVE  Remembered(task', queue'.owner)
<1>1. CASE /\ queue'.owner = owner
           /\ \A p \in Requests : Places(task'[p]) = Places(tasks[p])
  BY <1>1 DEF Remembered
<1>2. ASSUME NEW q \in Requests,
             \A p \in Requests \ {q} : Places(task'[p]) = Places(tasks[p]),
             queue'.owner = [b \in Bins |-> IF owner[b] = q /\ HasOpenRelocation(tasks[q], b)
                                            THEN None ELSE owner[b]]
      PROVE  Remembered(task', queue'.owner)
  <2> SUFFICES ASSUME NEW b \in Bins, NEW p \in Requests, queue'.owner[b] = p
               PROVE  \E s : <<b, s>> \in Places(task'[p])
    BY DEF Remembered
  <2>1. owner[b] = p /\ ~(owner[b] = q /\ HasOpenRelocation(tasks[q], b))
    BY <1>2, WarehouseAssumption
  <2>2. \E s : <<b, s>> \in Places(tasks[p])
    BY <2>1 DEF Remembered
  <2>3. p # q
    BY <2>1, <2>2, OpenIsRemembered
  <2> QED BY <1>2, <2>2, <2>3
<1> QED BY <1>1, <1>2 DEF NewClaims

\* A bin without owner may be forgotten, and no other.
LEMMA RememberedByRelease ==
    ASSUME Remembered(task, queue.owner), queue \in QueueType, NEW b \in Bins, NEW tasks,
           \A p \in Requests : \A c, s :
              c # b /\ <<c, s>> \in Places(task[p]) => <<c, s>> \in Places(tasks[p])
    PROVE  Remembered(tasks, [queue.owner EXCEPT ![b] = None])
<1> SUFFICES ASSUME NEW c \in Bins, NEW p \in Requests,
                    [queue.owner EXCEPT ![b] = None][c] = p
             PROVE  \E s : <<c, s>> \in Places(tasks[p])
  BY DEF Remembered
<1>1. c # b /\ queue.owner[c] = p
  BY WarehouseAssumption DEF QueueType
<1> QED BY <1>1 DEF Remembered

\* Of all that a step may do to the places, nothing makes an owner forget.
LEMMA RememberedStep ==
    ASSUME TypeOK, Remembered(task, queue.owner), [Next]_vars
    PROVE  Remembered(task', queue'.owner)
<1>1. queue \in QueueType /\ task \in [Requests -> TaskType]
  BY DEF TypeOK
<1>2. CASE KeepsClaims
  BY <1>2, RememberedByClaims DEF KeepsClaims
<1>3. ASSUME NEW e \in BagToSet(events), e.act \in PhysicalActions, DigsOut(e)
      PROVE  Remembered(task', queue'.owner)
  <2> DEFINE q == robotTask[e.robot]
             b == e.act.bin
             f == e.act.from
             d == e.act.to
             tasks == [task EXCEPT ![q] = RememberRelocation(@, b, f, d)]
             owner == [queue.owner EXCEPT ![b] = q]
  <2>1. q \in Requests /\ b \in Bins /\ f \in Stacks /\ d \in Stacks
    BY <1>3 DEF DigsOut, PhysicalActions
  <2>2. NewClaims(tasks, owner)
    BY <1>3 DEF DigsOut
  <2>3. Places(RememberRelocation(task[q], b, f, d)) = Places(task[q]) \cup {<<b, d>>}
    <3>1. task[q] \in TaskType
      BY <1>1, <2>1
    <3> HIDE DEF q, b, f, d
    <3> QED BY <2>1, <3>1, RememberPlaces
  <2> HIDE DEF q, b, f, d
  <2>4. /\ Places(tasks[q]) = Places(task[q]) \cup {<<b, d>>}
        /\ \A p \in Requests : p # q => tasks[p] = task[p]
    BY <1>1, <2>1, <2>3
  <2>5. owner[b] = q /\ \A c \in Bins : c # b => owner[c] = queue.owner[c]
    BY <1>1, <2>1 DEF QueueType
  <2> HIDE DEF tasks, owner
  <2>6. Remembered(tasks, owner)
    BY <2>4, <2>5 DEF Remembered
  <2> QED BY <2>2, <2>6, RememberedByClaims
<1>4. ASSUME NEW e \in BagToSet(events), e.act \in PhysicalActions, PutsBack(e)
      PROVE  Remembered(task', queue'.owner)
  <2> DEFINE q == robotTask[e.robot]
             b == e.act.bin
             tasks == [task EXCEPT ![q] = MarkLastRelocationRestored(@, b)]
  <2>1. q \in Requests /\ b \in Bins
    BY <1>4 DEF PutsBack, PhysicalActions
  <2>2. NewClaims(tasks, [queue.owner EXCEPT ![b] = None])
    BY <1>4 DEF PutsBack
  <2>3. \A c, s : c # b /\ <<c, s>> \in Places(task[q]) =>
                    <<c, s>> \in Places(MarkLastRelocationRestored(task[q], b))
    <3>1. task[q] \in TaskType
      BY <1>1, <2>1
    <3> HIDE DEF q, b
    <3> QED BY <3>1, RestoredPlaces
  <2> HIDE DEF q, b
  <2>4. /\ tasks[q] = MarkLastRelocationRestored(task[q], b)
        /\ \A p \in Requests : p # q => tasks[p] = task[p]
    BY <1>1, <2>1
  <2> HIDE DEF tasks
  <2>5. \A p \in Requests : \A c, s :
           c # b /\ <<c, s>> \in Places(task[p]) => <<c, s>> \in Places(tasks[p])
    BY <2>3, <2>4
  <2> QED BY <1>1, <2>1, <2>2, <2>5, RememberedByRelease, RememberedByClaims
<1>5. ASSUME NEW e \in BagToSet(events), e.act \in PhysicalActions, TakesOver(e)
      PROVE  Remembered(task', queue'.owner)
  <2> DEFINE b == e.act.bin
             o == queue.owner[b]
  <2>1. b \in Bins /\ o \in Requests /\ queue'.owner = [queue.owner EXCEPT ![b] = None]
    BY <1>1, <1>5 DEF TakesOver, PhysicalActions, ForeignOwner, QueueType
  <2>2. HasOpenRelocation(task[o], b)
    BY <2>1, OpenIsRemembered DEF Remembered
  <2>3. \A p \in Requests : Places(task'[p]) =
           Places(IF p = o THEN ForgetRelocation(task[o], b) ELSE task[p])
    BY <1>1, <1>5, <2>1, <2>2 DEF TakesOver, TasksAfterPickup
  <2>4. \A c, s : c # b /\ <<c, s>> \in Places(task[o]) =>
                    <<c, s>> \in Places(ForgetRelocation(task[o], b))
    <3>1. task[o] \in TaskType
      BY <1>1, <2>1
    <3> HIDE DEF o, b
    <3> QED BY <2>2, <3>1, ForgetPlaces
  <2> HIDE DEF o, b
  <2>5. \A p \in Requests : \A c, s :
           c # b /\ <<c, s>> \in Places(task[p]) => <<c, s>> \in Places(task'[p])
    BY <2>3, <2>4
  <2> QED BY <1>1, <2>1, <2>5, RememberedByRelease
<1>6. ASSUME NEW q \in Requests, EndsTask(q)
      PROVE  Remembered(task', queue'.owner)
  <2>1. \A b \in Bins, p \in Requests : queue'.owner[b] = p => queue.owner[b] = p
    BY <1>6, WarehouseAssumption DEF EndsTask
  <2> QED BY <1>6, <2>1 DEF EndsTask, Remembered
<1>7. ClaimStep
  BY ClaimSteps
<1> QED BY <1>2, <1>3, <1>4, <1>5, <1>6, <1>7 DEF ClaimStep

\* Whoever owns a bin remembers a place for it.
LEMMA RememberedInvariant == Spec => []Remembered(task, queue.owner)
<1>1. Init => Remembered(task, queue.owner)
  BY WarehouseAssumption DEF Init, Remembered, EmptyQueue
<1>2. TypeOK /\ Remembered(task, queue.owner) /\ [Next]_vars => Remembered(task, queue.owner)'
  BY RememberedStep
<1> QED BY <1>1, <1>2, TypeCorrect, PTL DEF Spec

\* A bin is reserved as somebody's blocker only as long as that task has its
\* relocation to undo, whatever recoveries do (_blocker_ownership in
\* requests_/active_queue.py against temp_storage in simulation/robot_task.py):
\* no bin stays reserved for a task that has forgotten it.
THEOREM OwnersRememberTheirBlockers == Spec => []OwnersRemember
<1>1. Remembered(task, queue.owner) => OwnersRemember
  BY OpenIsRemembered DEF Remembered, OwnersRemember
<1> QED BY <1>1, RememberedInvariant, PTL

----------------------------------------------------------------------------
(* What a step does to the events *)

\* An event goes on, and its robot carries what it carried.
Still(f) == f \in BagToSet(events) /\ carried'[f.robot] = carried[f.robot]

\* The world the strategy is asked about is the one the step leaves.
Seen(w) ==
    /\ WorldOK(w) /\ w.stack = stack' /\ w.moving = moving'
    /\ w.station = {b \in Bins : status'[b] = "at_pickstation"}

\* An event for the action the strategy has just answered.
Fresh(f) ==
    /\ f.kind = "pickup" /\ f.request \in Requests
    /\ \E w : Seen(w) /\ \E o \in NextAction(w, f.request) :
          /\ f.act = o.act
          /\ task'[f.request] = o.task /\ queue'.owner = o.queue.owner

\* A PICKUP goes on as a DROP: the bin has just been lifted, or the robot
\* carried it already.
GoesOn(f) ==
    \E e \in BagToSet(events) :
        /\ e.kind = "pickup" /\ f.act = e.act /\ f.request = e.request /\ f.robot = e.robot
        /\ \/ UNCHANGED <<queue, task, bins>> /\ carried[e.robot] = e.act.bin
           \/ queue'.owner[e.act.bin] \in {None, e.request}

\* A DROP is redirected to another stack.
Turns(f) ==
    \E e \in BagToSet(events) : \E s \in Stacks :
        /\ e.kind = "drop" /\ e.act.type # "remove_target"
        /\ f.act = [e.act EXCEPT !.to = s] /\ f.request = e.request /\ f.robot = e.robot
        /\ IsRelocate(e.act) => \E x \in Stacks : s \in RelocationStacks(Now, x)
        /\ UNCHANGED <<queue, bins>>

EventStep ==
    \A f \in BagToSet(events') :
        Still(f) \/ Fresh(f) \/ GoesOn(f) \/ Turns(f) \/ f.act \in FetchActions

\* The return of a blocker fails.
Fails(e) ==
    /\ HandleDrop(e) /\ PutsBin(e) /\ e.act.type = "return_blocker"
    /\ RestoreMismatch(task[robotTask[e.robot]], e.act.bin, e.act.from, e.act.to)

\* The strategy's answer is carried out.
LEMMA CarryEvents ==
    ASSUME NEW w, Seen(w), NEW r, NEW q \in Requests, NEW o \in NextAction(w, q),
           NEW evs, IsABag(evs), \A f \in BagToSet(evs) : Still(f),
           NEW next, Carry(w, r, q, o, evs, next)
    PROVE  EventStep
<1> DEFINE n == [kind |-> "pickup", robot |-> r, request |-> q, act |-> o.act]
<1>1. w.task \in [Requests -> TaskType] /\ WorldOK(w)
  BY DEF Seen, WorldOK
<1>2. task' = [w.task EXCEPT ![q] = o.task] /\ queue'.owner = o.queue.owner
  BY <1>1, CarryClaims
<1>3. task'[q] = o.task
  BY <1>1, <1>2
<1>4. n.kind = "pickup" /\ n.request = q /\ n.act = o.act
  OBVIOUS
<1>5. BagToSet(events') \subseteq BagToSet(evs) \cup {n}
  <2>1. events' = Push(evs, "pickup", r, q, o.act) \/ events' = evs
    BY DEF Carry
  <2>2. BagToSet(Push(evs, "pickup", r, q, o.act)) = BagToSet(evs) \cup {n}
    BY PushType
  <2> HIDE DEF n
  <2> QED BY <2>1, <2>2
<1> HIDE DEF n
<1>6. Fresh(n)
  BY <1>2, <1>3, <1>4 DEF Fresh
<1> QED BY <1>5, <1>6 DEF EventStep

\* The events that remain while e is handled.
LEMMA OtherEvents ==
    ASSUME TypeOK, OneChain, NEW e \in BagToSet(events),
           \A s \in Robots : s # e.robot => carried'[s] = carried[s]
    PROVE  /\ IsABag(Drop(events, e))
           /\ \A f \in BagToSet(Drop(events, e)) : Still(f)
<1>1. e.robot \in Robots /\ Only(events, e) /\ IsABag(events)
  BY HandledEvent DEF EventOf, TypeOK
<1>2. IsABag(Drop(events, e)) /\ NoEvent(Drop(events, e), e.robot)
  BY <1>1, DropOnly
<1>3. BagToSet(Drop(events, e)) \subseteq BagToSet(events)
  BY <1>1, DropType
<1> QED BY <1>2, <1>3, EventFields DEF NoEvent, Still

\* The world of now, when no bin moves.
LEMMA NowIsSeen ==
    ASSUME TypeOK, UNCHANGED bins
    PROVE  Seen(Now)
<1>1. WorldOK(Now)
  BY NowClaims
<1> QED BY <1>1 DEF Seen, Now, World, bins

\* The strategy is asked, and no bin moves.
LEMMA AskNowEvents ==
    ASSUME TypeOK, OneChain, NEW e \in BagToSet(events), NEW q \in Requests,
           ScheduleNext(Now, e.robot, q, Drop(events, e)), UNCHANGED bins
    PROVE  EventStep
<1>1. PICK o \in NextAction(Now, q) : Carry(Now, e.robot, q, o, Drop(events, e), "handle")
  BY DEF ScheduleNext
<1>2. Seen(Now)
  BY NowIsSeen
<1>3. IsABag(Drop(events, e)) /\ \A f \in BagToSet(Drop(events, e)) : Still(f)
  BY OtherEvents DEF bins
<1> QED BY <1>1, <1>2, <1>3, CarryEvents

\* Events only end, and no bin moves.
LEMMA EndingEvents ==
    ASSUME TypeOK, BagToSet(events') \subseteq BagToSet(events), UNCHANGED bins
    PROVE  EventStep
BY DEF EventStep, Still, bins

\* One event is replaced.
LEMMA ReplacedEvents ==
    ASSUME TypeOK, OneChain, NEW e \in BagToSet(events), NEW a,
           \A s \in Robots : s # e.robot => carried'[s] = carried[s],
           events' = Push(Drop(events, e), "drop", e.robot, e.request, a),
           \A n : n.robot = e.robot /\ n.request = e.request /\ n.act = a =>
                    GoesOn(n) \/ Turns(n)
    PROVE  EventStep
<1> DEFINE n == [kind |-> "drop", robot |-> e.robot, request |-> e.request, act |-> a]
<1>1. IsABag(Drop(events, e)) /\ \A f \in BagToSet(Drop(events, e)) : Still(f)
  BY OtherEvents
<1>2. BagToSet(events') = BagToSet(Drop(events, e)) \cup {n}
  BY <1>1, PushType
<1>3. n.robot = e.robot /\ n.request = e.request /\ n.act = a
  OBVIOUS
<1> HIDE DEF n
<1> QED BY <1>1, <1>2, <1>3 DEF EventStep

\* After a PICKUP the event goes on as a DROP, or a new answer takes its place.
LEMMA PickupEvents ==
    ASSUME TypeOK, OneChain, NEW e \in BagToSet(events), Pickup(e), requeues' = 0
    PROVE  EventStep
<1> DEFINE r == e.robot
           q == e.request
           b == e.act.bin
<1>1. /\ r \in Robots /\ robotTask[r] = q /\ q \in Requests /\ e.kind = "pickup"
      /\ e.act \in PhysicalActions /\ b \in Bins
  BY HandledEvent, EventFields DEF EventOf, Pickup, PhysicalActions
<1>2. \A tasks, aq, evs : ~Requeue(r, tasks, aq, evs)
  BY DEF Requeue, TypeOK
<1>3. CASE ScheduleNext(Now, r, q, Drop(events, e)) /\ UNCHANGED bins
  BY <1>1, <1>3, AskNowEvents
<1>4. CASE Discard(e) /\ UNCHANGED bins
  BY <1>4, DropType, EndingEvents DEF Discard, TypeOK
<1>5. CASE /\ events' = Push(Drop(events, e), "drop", r, q, e.act) /\ carried[r] = b
           /\ UNCHANGED <<queue, task, bins>>
  <2>1. \A n : n.robot = r /\ n.request = q /\ n.act = e.act => GoesOn(n)
    BY <1>1, <1>5 DEF GoesOn
  <2> QED BY <1>5, <2>1, ReplacedEvents DEF bins
<1>6. CASE carried[r] = None /\ CanPickup(e.act) /\ PickupSucceeds(e)
  <2>1. queue'.owner[b] \in {None, q}
    <3>1. queue \in QueueType
      BY DEF TypeOK
    <3>2. CASE ForeignOwner(r, b)
      BY <1>1, <1>6, <3>1, <3>2 DEF PickupSucceeds, QueueAfterPickup, ReleaseBlocker, QueueType
    <3>3. CASE ~ForeignOwner(r, b)
      BY <1>1, <1>6, <3>3 DEF PickupSucceeds, QueueAfterPickup, ForeignOwner
    <3> QED BY <3>2, <3>3
  <2>2. \A n : n.robot = r /\ n.request = q /\ n.act = e.act => GoesOn(n)
    BY <1>1, <2>1 DEF GoesOn
  <2>3. /\ \A s \in Robots : s # r => carried'[s] = carried[s]
        /\ events' = Push(Drop(events, e), "drop", r, q, e.act)
    BY <1>6 DEF PickupSucceeds, TypeOK
  <2> QED BY <2>2, <2>3, ReplacedEvents
<1>7. CASE PickupNotOnTop(e) /\ UNCHANGED bins
  <2>1. PICK o \in NextAction(Now, q) :
          UNCHANGED events \/ Carry(Now, r, q, o, Drop(events, e), "handle")
    BY <1>2, <1>7 DEF PickupNotOnTop
  <2>2. CASE Carry(Now, r, q, o, Drop(events, e), "handle")
    <3>1. ScheduleNext(Now, r, q, Drop(events, e))
      BY <2>1, <2>2 DEF ScheduleNext
    <3> QED BY <1>3, <1>7, <3>1
  <2>3. CASE UNCHANGED events
    BY <1>7, <2>3, EndingEvents
  <2> QED BY <2>1, <2>2, <2>3
<1> QED BY <1>1, <1>2, <1>3, <1>4, <1>5, <1>6, <1>7 DEF Pickup

\* The strategy is asked in the world that a drop leaves.
LEMMA AskedIsSeen ==
    ASSUME NEW e, Lays(e), NEW w, AsksAfterDrop(e, w)
    PROVE  Seen(w)
<1>1. PICK tasks, aq : w = WorldAfterDrop(e, tasks, aq)
  BY DEF AsksAfterDrop
<1>2. /\ stack' = StackAfterDrop(e) /\ status' = StatusAfterDrop(e)
      /\ moving' = moving \ {e.act.bin}
  BY DEF Lays, PutsBin, PutDown
<1>3. WorldOK(w)
  BY DEF AsksAfterDrop, WorldNow
<1> QED BY <1>1, <1>2, <1>3 DEF Seen, WorldAfterDrop, World

\* The strategy is asked after a drop.
LEMMA AskAfterDropEvents ==
    ASSUME TypeOK, OneChain, Loads, NEW e \in BagToSet(events), HandleDrop(e),
           Lays(e), NEW w, AsksAfterDrop(e, w)
    PROVE  EventStep
<1> DEFINE r == e.robot
           q == robotTask[r]
<1>1. r \in Robots /\ q \in Requests /\ carried[r] = e.act.bin
  BY HandledDrop
<1>2. PICK o \in NextAction(w, q) : Carry(w, r, q, o, Drop(events, e), "handle")
  BY DEF AsksAfterDrop, ScheduleNext
<1>3. Seen(w)
  BY AskedIsSeen
<1>4. \A s \in Robots : s # r => carried'[s] = carried[s]
  BY <1>1, UnloadedDoes DEF Lays, PutsBin, PutDown
<1>5. IsABag(Drop(events, e)) /\ \A f \in BagToSet(Drop(events, e)) : Still(f)
  BY <1>4, OtherEvents
<1> HIDE DEF q
<1> QED BY <1>1, <1>2, <1>3, <1>5, CarryEvents

\* After a DROP the event is turned, a new answer takes its place, or it is done.
LEMMA HandleDropEvents ==
    ASSUME TypeOK, OneChain, Loads, NEW e \in BagToSet(events), HandleDrop(e), ~Fails(e)
    PROVE  EventStep
<1> DEFINE r == e.robot
           q == robotTask[r]
<1>1. /\ r \in Robots /\ e.act \in PhysicalActions /\ q \in Requests /\ q # None
      /\ e.kind = "drop" /\ ~StaleDrop(e) /\ carried[r] = e.act.bin
  BY HandledDrop
<1>2. CASE ScheduleNext(Now, r, q, Drop(events, e)) /\ UNCHANGED bins
  BY <1>1, <1>2, AskNowEvents
<1>3. ASSUME NEW s \in Stacks, events' = Redirected(e, s), UNCHANGED <<queue, bins>>,
             e.act.type # "remove_target",
             IsRelocate(e.act) => \E x \in Stacks : s \in RelocationStacks(Now, x)
      PROVE  EventStep
  <2>1. \A n : n.robot = r /\ n.request = e.request /\ n.act = [e.act EXCEPT !.to = s] => Turns(n)
    BY <1>1, <1>3 DEF Turns
  <2>2. events' = Push(Drop(events, e), "drop", r, e.request, [e.act EXCEPT !.to = s])
    BY <1>3 DEF Redirected
  <2> QED BY <1>3, <2>1, <2>2, ReplacedEvents DEF bins
<1>4. ASSUME NEW s \in RedirectStacks(e), events' = Redirected(e, s), UNCHANGED <<queue, bins>>
      PROVE  EventStep
  <2>1. IsRelocate(e.act) \/ e.act.type = "return_target"
    BY <1>4 DEF RedirectStacks
  <2>2. s \in Stacks /\ e.act.type # "remove_target"
    BY <1>4, <2>1 DEF RedirectStacks, RelocationStacks, ReturnStacks, IsRelocate
  <2>3. IsRelocate(e.act) => \E x \in Stacks : s \in RelocationStacks(Now, x)
    BY <1>1, <1>4 DEF RedirectStacks, IsRelocate, PhysicalActions
  <2> QED BY <1>3, <1>4, <2>2, <2>3
<1>5. CASE FullOnDrop(e) /\ RedirectBlockedDrop(e)
  <2>1. PICK s \in RelocationStacks(Now, e.act.to) :
           events' = Redirected(e, s) /\ UNCHANGED <<queue, bins>>
    BY <1>5 DEF RedirectBlockedDrop
  <2>2. s \in Stacks /\ e.act.to \in Stacks /\ e.act.type # "remove_target"
    BY <1>1, <1>5, <2>1, WarehouseAssumption DEF RelocationStacks, FullOnDrop, PhysicalActions
  <2> QED BY <1>3, <2>1, <2>2
<1>6. CASE ~FullOnDrop(e) /\ DropEffect(e)
  <2>1. CASE e.act.type = "remove_target"
    <3>1. DropAtPort(e)
      BY <1>6, <2>1 DEF DropEffect, IsRelocate
    <3>2. /\ \A s \in Robots : s # r => carried'[s] = carried[s]
          /\ events' = Drop(events, e)
      BY <1>1, <3>1, UnloadedDoes DEF DropAtPort
    <3> QED BY <3>2, OtherEvents DEF EventStep
  <2>2. CASE e.act.type # "remove_target"
    <3>1. /\ Lays(e)
          /\ \/ DropRelocated(e) /\ IsRelocate(e.act)
             \/ DropBlocker(e) /\ e.act.type = "return_blocker"
             \/ DropTarget(e) /\ e.act.type = "return_target"
      BY <1>6, <2>2, DropEffectLays
    <3>2. CASE DropRelocated(e) /\ IsRelocate(e.act)
      BY <1>1, <3>1, <3>2, DropRelocatedAsks, AskAfterDropEvents
    <3>3. CASE DropBlocker(e) /\ e.act.type = "return_blocker"
      <4>1. ~RestoreMismatch(task[q], e.act.bin, e.act.from, e.act.to)
        BY <3>1, <3>3 DEF Fails, Lays
      <4>2. \E w : AsksAfterDrop(e, w)
        BY <1>1, <3>3, <4>1, DropBlockerAsks
      <4> QED BY <3>1, <4>2, AskAfterDropEvents
    <3>4. CASE DropTarget(e) /\ e.act.type = "return_target"
      <4>1. /\ \A s \in Robots : s # r => carried'[s] = carried[s]
            /\ events' = Drop(events, e)
        BY <1>1, <3>4, UnloadedDoes DEF DropTarget, PutDown, Discard
      <4> QED BY <4>1, OtherEvents DEF EventStep
    <3> QED BY <3>1, <3>2, <3>3, <3>4
  <2> QED BY <2>1, <2>2
<1> QED BY <1>1, <1>2, <1>4, <1>5, <1>6 DEF HandleDrop, OutdatedReturn

\* The other handlers.
LEMMA RobotActionEvents ==
    ASSUME TypeOK, OneChain, NEW e \in BagToSet(events), RobotAction(e), requeues' = 0
    PROVE  EventStep
<1>1. e.robot \in Robots /\ UNCHANGED bins /\ robotTask \in [Robots -> Requests \cup {None}]
  BY EventFields DEF RobotAction, TypeOK
<1>2. \A tasks, aq, evs : ~Requeue(e.robot, tasks, aq, evs)
  BY DEF Requeue, TypeOK
<1>3. \/ /\ robotTask[e.robot] # None
         /\ ScheduleNext(Now, e.robot, robotTask[e.robot], Drop(events, e))
      \/ Discard(e)
  BY <1>2 DEF RobotAction
<1>4. CASE Discard(e)
  BY <1>1, <1>4, DropType, EndingEvents DEF Discard, TypeOK
<1> QED BY <1>1, <1>3, <1>4, AskNowEvents

\* The end of a service gives the robot a new answer, or sends it to fetch the bin.
LEMMA PickstationCompleteEvents ==
    ASSUME TypeOK, NEW p \in Stations, NEW q \in Requests, PickstationComplete(p, q)
    PROVE  EventStep
<1> DEFINE fetch == Action("pickup_from_pickstation", Target[q], None, None)
           n(r) == [kind |-> "action", robot |-> r, request |-> q, act |-> fetch]
<1>1. UNCHANGED bins /\ IsABag(events)
  BY DEF PickstationComplete, TypeOK
<1>2. \/ UNCHANGED events
      \/ \E r \in Robots : events' = Push(events, "action", r, q, fetch)
  BY DEF PickstationComplete, IdleRobots
<1>3. CASE UNCHANGED events
  BY <1>1, <1>3, EndingEvents
<1>4. ASSUME NEW r \in Robots, events' = Push(events, "action", r, q, fetch)
      PROVE  EventStep
  <2>1. BagToSet(events') = BagToSet(events) \cup {n(r)}
    BY <1>1, <1>4, PushType
  <2>2. n(r).act \in FetchActions
    BY WarehouseAssumption DEF FetchActions, Action
  <2> HIDE DEF n
  <2> QED BY <1>1, <2>1, <2>2 DEF EventStep, Still, bins
<1> QED BY <1>2, <1>3, <1>4

\* The scheduler adds the answer for the robot it has chosen.
LEMMA ScheduleEvents ==
    ASSUME TypeOK, Schedule
    PROVE  EventStep
<1>1. CASE ScheduleDone
  BY <1>1, EndingEvents DEF ScheduleDone
<1>2. ASSUME NEW r \in Robots, NEW q \in Requests, NEW w, NEW o, Gives(r, q, w, o)
      PROVE  EventStep
  <2>1. Seen(w)
    BY <1>2 DEF Gives, Seen, Now, World, bins
  <2>2. IsABag(events) /\ \A f \in BagToSet(events) : Still(f)
    BY <1>2 DEF Gives, Still, bins, TypeOK
  <2>3. PICK next : Carry(w, r, q, o, events, next)
    BY <1>2 DEF Gives
  <2> QED BY <1>2, <2>1, <2>2, <2>3, CarryEvents DEF Gives
<1> QED BY <1>1, <1>2, ScheduleGives

\* Every step.
LEMMA EventSteps ==
    ASSUME TypeOK, OneChain, Loads, [Next]_vars, requeues' = 0,
           \A e \in BagToSet(events) : ~Fails(e)
    PROVE  EventStep
<1>1. CASE UNCHANGED <<events, bins>>
  BY <1>1, EndingEvents
<1>2. CASE Schedule
  BY <1>2, ScheduleEvents
<1>3. ASSUME NEW r \in Robots, RobotEvent(r) PROVE EventStep
  BY <1>3, PickupEvents, HandleDropEvents, RobotActionEvents DEF RobotEvent
<1>4. ASSUME NEW p \in Stations, NEW q \in Requests, PickstationComplete(p, q) PROVE EventStep
  BY <1>4, PickstationCompleteEvents
<1>5. \A r \in Robots : ~RequeueVictim(r)
  BY DEF RequeueVictim, Requeue, TypeOK
<1>6. ASSUME NEW r \in Robots, ForceReplan(r) PROVE EventStep
  BY <1>1, <1>6 DEF ForceReplan
<1>7. ASSUME NEW r \in Robots, NEW q \in Requests, RequestComplete(r, q) PROVE EventStep
  BY <1>1, <1>7 DEF RequestComplete
<1> QED BY <1>1, <1>2, <1>3, <1>4, <1>5, <1>6, <1>7 DEF Next, vars, Arrival

----------------------------------------------------------------------------
(* What an answer says about the bin it is for *)

\* A bin to be dug out lies on top of the target's stack, one to be moved aside
\* on a relocated blocker, and a blocker that is to return is remembered at the
\* stack it is fetched from.
Tells(w, q, o) ==
    LET a == o.act IN
    /\ a.type \in {"relocate", "unbury", "remove_target"} =>
         a.from \in Stacks /\ OnTop(w.stack, a.from, a.bin)
    /\ a.type = "relocate" =>
         /\ o.queue = w.queue /\ a.to \in RelocationStacks(w, a.from)
         /\ Holds(w.stack, a.from, Target[q]) /\ a.bin # Target[q]
    /\ a.type = "unbury" =>
         \E c \in Bins : /\ c # a.bin /\ Holds(w.stack, a.from, c)
                         /\ <<c, a.from>> \in Places(o.task)
    /\ a.type = "return_blocker" => <<a.bin, a.from>> \in Places(o.task)
    /\ a.type = "return_target" => a.bin \in w.station

\* The answers that are not about a stack.
SilentTypes == {"none", "raise", "no_stack", "request_complete"}

\* An answer without a bin, or one that moves none, says nothing.
LEMMA SilentTells ==
    ASSUME NEW w, NEW q, NEW o, o.act.type \in SilentTypes
    PROVE  Tells(w, q, o)
BY DEF Tells, SilentTypes

\* The return of the target.
LEMMA NextReturnTargetTells ==
    ASSUME NEW w, NEW q, NEW t, NEW aq, NEW o \in NextReturnTarget(w, q, t, aq)
    PROVE  Tells(w, q, o)
<1>1. CASE \E s \in Stacks :
             /\ o = Outcome([t EXCEPT !.actual = s], aq,
                            Action("return_target", Target[q], None, s))
             /\ Target[q] \in w.station
  BY <1>1 DEF Outcome, Action, Tells
<1>2. CASE o.act.type \in SilentTypes
  BY <1>2, SilentTells
<1> QED BY <1>1, <1>2
    DEF NextReturnTarget, OrNoStack, ReturnStacks, Outcome, Raise, NoStack, Action, SilentTypes

\* What follows the restoring of the blockers.
LEMMA AfterRestoreTells ==
    ASSUME NEW w, NEW q, NEW t, NEW aq, NEW o \in AfterRestore(w, q, t, aq)
    PROVE  Tells(w, q, o)
<1>1. CASE o.act = NoAction
  BY <1>1, SilentTells DEF NoAction, Action, SilentTypes
<1>2. CASE o \in NextReturnTarget(w, q, [t EXCEPT !.phase = "return_target"], aq)
  BY <1>2, NextReturnTargetTells
<1> QED BY <1>1, <1>2 DEF AfterRestore, Outcome

\* The restoring of the blockers.
LEMMA NextRestoreBlockersTells ==
    ASSUME NEW w, WorldOK(w), NEW q, NEW t \in TaskType, NEW aq,
           NEW o \in NextRestoreBlockers(w, q, t, aq)
    PROVE  Tells(w, q, o)
<1>1. CASE ~ReturnBlockingBins \/ t.temp = <<>>
  BY <1>1, AfterRestoreTells DEF NextRestoreBlockers
<1>2. CASE ReturnBlockingBins /\ t.temp # <<>>
  <2>1. PICK u \in Reorderings(t) :
           o \in OrNoStack(u, aq,
                   IF Buried(w, PeekLastRelocation(u)) THEN Unbury(w, u, aq, PeekLastRelocation(u))
                                             ELSE RestoreBlocker(w, u, aq, PeekLastRelocation(u)))
    BY <1>2 DEF NextRestoreBlockers
  <2> DEFINE reloc == PeekLastRelocation(u)
             d == reloc.buffer
  <2>2. /\ u \in TaskType /\ Len(u.temp) \in DOMAIN u.temp
        /\ reloc = u.temp[Len(u.temp)] /\ reloc \in Relocation
    BY <1>2, <2>1, ReorderingsType, EmptySeq, LenProperties, ElementOfSeq
       DEF TaskType, PeekLastRelocation
  <2>3. /\ reloc.bin \in Bins /\ d \in Stacks /\ HasOpenRelocation(u, reloc.bin)
        /\ <<reloc.bin, d>> \in Places(u)
    BY <2>2 DEF Relocation, HasOpenRelocation, OpenRelocations, Places
  <2> HIDE DEF reloc
  <2>4. CASE o = Outcome(u, aq, NoStack)
    BY <2>4, SilentTells DEF Outcome, NoStack, Action, SilentTypes
  <2>5. CASE o \in Unbury(w, u, aq, reloc) /\ Buried(w, reloc)
    <3>1. w.stack[d] # <<>> /\ Holds(w.stack, d, reloc.bin) /\ Top(w.stack[d]) # reloc.bin
      BY <2>3, <2>5, HoldsNonEmpty DEF Buried, OnTop
    <3>2. o.task = u /\ o.act.type = "unbury" /\ o.act.from = d /\ o.act.bin = Top(w.stack[d])
      BY <2>5 DEF Unbury, Outcome, Action
    <3> QED BY <2>3, <3>1, <3>2 DEF Tells, OnTop
  <2>6. CASE o \in RestoreBlocker(w, u, aq, reloc)
    <3>1. \A s \in Stacks : Places(UpdateReturnStack(u, reloc.bin, s)) = Places(u)
      BY <2>2, <2>3, UpdatedPlaces
    <3>2. /\ Places(o.task) = Places(u) /\ o.act.type = "return_blocker"
          /\ o.act.bin = reloc.bin /\ o.act.from = d
      BY <2>6, <3>1 DEF RestoreBlocker, RelocationStacks, Outcome, Action
    <3> QED BY <2>3, <3>2 DEF Tells
  <2> QED BY <2>1, <2>4, <2>5, <2>6 DEF OrNoStack, reloc
<1> QED BY <1>1, <1>2

\* The retrieval of the target.
LEMMA NextRetrieveTargetTells ==
    ASSUME NEW w, WorldOK(w), NEW q, NEW t \in TaskType, NEW o \in NextRetrieveTarget(w, q, t, w.queue)
    PROVE  Tells(w, q, o)
<1> DEFINE b == Target[q]
           s == StackOf(w.stack, b)
           t2 == IF t.home = None THEN [t EXCEPT !.home = s] ELSE t
           t3 == [t EXCEPT !.removed = TRUE, !.delivered = TRUE,
                           !.phase = "restore_blockers"]
<1>1. CASE s = None /\ b \in w.station
  <2>1. t3 \in TaskType
    BY DEF TaskType, Phases
  <2>2. o \in NextRestoreBlockers(w, q, t3, w.queue)
    BY <1>1 DEF NextRetrieveTarget
  <2> HIDE DEF t3
  <2> QED BY <2>1, <2>2, NextRestoreBlockersTells
<1>2. CASE s = None /\ b \notin w.station
  BY <1>2, SilentTells DEF NextRetrieveTarget, Outcome, NoAction, Raise, Action, SilentTypes
<1>3. CASE s # None
  <2>1. s \in Stacks /\ Holds(w.stack, s, b) /\ w.stack[s] # <<>>
    BY <1>3, StackOfType, HoldsNonEmpty
  <2>2. CASE o = Outcome(t2, w.queue, Action("remove_target", b, s, None)) /\ OnTop(w.stack, s, b)
    BY <2>1, <2>2 DEF Tells, Outcome, Action
  <2>3. CASE o = Outcome(t2, w.queue, NoStack)
    BY <2>3, SilentTells DEF Outcome, NoStack, Action, SilentTypes
  <2>4. CASE \E d \in RelocationStacks(w, s) :
               /\ o = Outcome(t2, w.queue, Action("relocate", Top(w.stack[s]), s, d))
               /\ ~OnTop(w.stack, s, b)
    BY <2>1, <2>4 DEF Tells, Outcome, Action, OnTop
  <2> QED BY <1>3, <2>2, <2>3, <2>4 DEF NextRetrieveTarget, OrNoStack
<1> QED BY <1>1, <1>2, <1>3

\* next_action, whatever the phase.
LEMMA NextActionTells ==
    ASSUME NEW w, WorldOK(w), NEW q \in Requests, NEW o \in NextAction(w, q)
    PROVE  Tells(w, q, o)
<1> DEFINE t == w.task[q]
<1>1. t \in TaskType
  BY DEF WorldOK
<1>2. CASE t.phase = "retrieve_target"
  BY <1>1, <1>2, NextRetrieveTargetTells DEF NextAction
<1>3. CASE t.phase = "restore_blockers"
  BY <1>1, <1>3, NextRestoreBlockersTells DEF NextAction
<1>4. CASE t.phase = "return_target"
  BY <1>1, <1>4, NextReturnTargetTells DEF NextAction
<1>5. CASE t.phase \in {"wait_for_pickstation", "complete"}
  BY <1>1, <1>5, SilentTells DEF NextAction, Outcome, NoAction, Action, SilentTypes
<1> QED BY <1>1, <1>2, <1>3, <1>4, <1>5 DEF TaskType, Phases

----------------------------------------------------------------------------
(* Relocations are owned, as long as no bin is relocated twice by one task *)

Backs(tasks, owner) ==
    \A q \in Requests : \A b, s : <<b, s>> \in Places(tasks[q]) => owner[b] = q

\* Nobody but the request it is lifted for owns a bin a robot carries.
LoadsFree ==
    \A e \in BagToSet(events) :
        e.act \in PhysicalActions /\ carried[e.robot] = e.act.bin =>
            queue.owner[e.act.bin] \in {None, e.request}

OwnersInv == Backs(task, queue.owner) /\ LoadsFree

\* The elements of a place.
LEMMA PlacesType ==
    ASSUME NEW t \in TaskType, NEW b, NEW s, <<b, s>> \in Places(t)
    PROVE  b \in Bins /\ s \in Stacks
<1>1. PICK i \in DOMAIN t.temp : b = t.temp[i].bin /\ s = t.temp[i].buffer
  BY DEF Places
<1>2. t.temp[i] \in Relocation
  BY <1>1, ElementOfSeq, LenProperties DEF TaskType
<1> QED BY <1>1, <1>2 DEF Relocation

\* An answer keeps every relocation owned.
LEMMA BackedByClaims ==
    ASSUME NEW tasks \in [Requests -> TaskType], NEW owner, Backs(tasks, owner),
           NewClaims(tasks, owner)
    PROVE  Backs(task', queue'.owner)
<1>1. CASE /\ queue'.owner = owner
           /\ \A p \in Requests : Places(task'[p]) = Places(tasks[p])
  BY <1>1 DEF Backs
<1>2. ASSUME NEW q \in Requests, Places(task'[q]) = {},
             \A p \in Requests \ {q} : Places(task'[p]) = Places(tasks[p]),
             queue'.owner = [b \in Bins |-> IF owner[b] = q /\ HasOpenRelocation(tasks[q], b)
                                            THEN None ELSE owner[b]]
      PROVE  Backs(task', queue'.owner)
  <2> SUFFICES ASSUME NEW p \in Requests, NEW b, NEW s, <<b, s>> \in Places(task'[p])
               PROVE  queue'.owner[b] = p
    BY DEF Backs
  <2>1. p # q /\ <<b, s>> \in Places(tasks[p])
    BY <1>2
  <2>2. b \in Bins /\ owner[b] = p
    BY <2>1, PlacesType DEF Backs
  <2> QED BY <1>2, <2>1, <2>2
<1> QED BY <1>1, <1>2 DEF NewClaims

\* The robot that puts a bin down works for its owner, if it has one.
LEMMA LoadOwner ==
    ASSUME TypeOK, OneChain, Loads, LoadsFree, NEW e \in BagToSet(events), HandleDrop(e)
    PROVE  /\ robotTask[e.robot] \in Requests /\ e.act.bin \in Bins
           /\ queue.owner[e.act.bin] \in {None, robotTask[e.robot]}
BY HandledDrop DEF LoadsFree, PhysicalActions

\* A step keeps every relocation owned.
LEMMA BackingStep ==
    ASSUME TypeOK, TypeOK', ChainInv, RelocatedOnce, OwnersInv, [Next]_vars
    PROVE  Backs(task', queue'.owner)
<1>1. /\ queue \in QueueType /\ task \in [Requests -> TaskType] /\ None \notin Requests
      /\ queue.owner \in [Bins -> Requests \cup {None}] /\ \A q \in Requests : OneEntry(task[q])
  BY WarehouseAssumption DEF TypeOK, QueueType, RelocatedOnce, OneEntry
<1>2. Backs(task, queue.owner) /\ LoadsFree /\ OneChain /\ Loads
  BY DEF OwnersInv, ChainInv
<1>3. CASE KeepsClaims
  BY <1>1, <1>2, <1>3, BackedByClaims DEF KeepsClaims
<1>4. ASSUME NEW e \in BagToSet(events), e.act \in PhysicalActions, DigsOut(e)
      PROVE  Backs(task', queue'.owner)
  <2> DEFINE q == robotTask[e.robot]
             b == e.act.bin
             tasks == [task EXCEPT ![q] = RememberRelocation(@, b, e.act.from, e.act.to)]
             owner == [queue.owner EXCEPT ![b] = q]
  <2>1. /\ q \in Requests /\ b \in Bins /\ queue.owner[b] \in {None, q}
        /\ e.act.from \in Stacks /\ e.act.to \in Stacks
    BY <1>2, <1>4, LoadOwner DEF DigsOut, PhysicalActions
  <2>2. tasks \in [Requests -> TaskType]
    BY <1>1, <2>1, RememberRelocationType
  <2>3. /\ Places(tasks[q]) = Places(task[q]) \cup {<<b, e.act.to>>}
        /\ \A p \in Requests : p # q => tasks[p] = task[p]
    BY <1>1, <2>1, RememberPlaces
  <2>4. Backs(tasks, owner)
    <3> HIDE DEF tasks
    <3> SUFFICES ASSUME NEW p \in Requests, NEW c, NEW s, <<c, s>> \in Places(tasks[p])
                 PROVE  owner[c] = p
      BY DEF Backs
    <3>1. CASE <<c, s>> \in Places(task[p])
      <4>1. queue.owner[c] = p
        BY <1>2, <3>1 DEF Backs
      <4> QED BY <1>1, <2>1, <4>1
    <3>2. CASE <<c, s>> \notin Places(task[p])
      BY <1>1, <2>1, <2>3, <3>2
    <3> QED BY <3>1, <3>2
  <2>5. NewClaims(tasks, owner)
    BY <1>4 DEF DigsOut
  <2> HIDE DEF tasks, owner
  <2> QED BY <2>2, <2>4, <2>5, BackedByClaims
<1>5. ASSUME NEW e \in BagToSet(events), e.act \in PhysicalActions, PutsBack(e)
      PROVE  Backs(task', queue'.owner)
  <2> DEFINE q == robotTask[e.robot]
             b == e.act.bin
             tasks == [task EXCEPT ![q] = MarkLastRelocationRestored(@, b)]
             owner == [queue.owner EXCEPT ![b] = None]
  <2>1. q \in Requests /\ b \in Bins /\ queue.owner[b] \in {None, q}
    BY <1>2, <1>5, LoadOwner DEF PutsBack
  <2>2. tasks \in [Requests -> TaskType]
    BY <1>1, <2>1, MarkLastRelocationRestoredType
  <2>3. /\ Places(tasks[q]) \subseteq Places(task[q]) /\ \A s : <<b, s>> \notin Places(tasks[q])
        /\ \A p \in Requests : p # q => tasks[p] = task[p]
    BY <1>1, <2>1, RestoredPlaces
  <2>4. Backs(tasks, owner)
    <3> HIDE DEF tasks
    <3> SUFFICES ASSUME NEW p \in Requests, NEW c, NEW s, <<c, s>> \in Places(tasks[p])
                 PROVE  owner[c] = p
      BY DEF Backs
    <3>1. <<c, s>> \in Places(task[p]) /\ queue.owner[c] = p
      BY <1>2, <2>3 DEF Backs
    <3>2. c # b
      BY <1>1, <2>1, <2>3, <3>1
    <3> QED BY <1>1, <3>1, <3>2
  <2>5. NewClaims(tasks, owner)
    BY <1>5 DEF PutsBack
  <2> HIDE DEF tasks, owner
  <2> QED BY <2>2, <2>4, <2>5, BackedByClaims
<1>6. ASSUME NEW e \in BagToSet(events), e.act \in PhysicalActions, TakesOver(e)
      PROVE  Backs(task', queue'.owner)
  <2> DEFINE b == e.act.bin
             o == queue.owner[b]
  <2>1. b \in Bins /\ o \in Requests
    BY <1>1, <1>6 DEF TakesOver, ForeignOwner, PhysicalActions
  <2>2. ASSUME NEW p \in Requests, NEW c, NEW s, <<c, s>> \in Places(task'[p])
        PROVE  queue'.owner[c] = p
    <3>1. <<c, s>> \in Places(TasksAfterPickup(e.robot, b)[p])
      BY <1>6, <2>2 DEF TakesOver
    <3>2. <<c, s>> \in Places(task[p]) /\ (p = o => c # b)
      <4>1. CASE HasOpenRelocation(task[o], b)
        <5>1. TasksAfterPickup(e.robot, b) = [task EXCEPT ![o] = ForgetRelocation(@, b)]
          BY <1>6, <4>1 DEF TakesOver, TasksAfterPickup
        <5>2. /\ Places(ForgetRelocation(task[o], b)) \subseteq Places(task[o])
              /\ \A u : <<b, u>> \notin Places(ForgetRelocation(task[o], b))
          BY <1>1, <2>1, <4>1, ForgetPlaces
        <5> HIDE DEF o, b
        <5> QED BY <1>1, <2>1, <3>1, <5>1, <5>2
      <4>2. CASE ~HasOpenRelocation(task[o], b)
        <5>1. TasksAfterPickup(e.robot, b) = task
          BY <4>2 DEF TasksAfterPickup
        <5>2. \A u : <<b, u>> \notin Places(task[o])
          BY <4>2, OpenIsRemembered
        <5> HIDE DEF o, b
        <5> QED BY <3>1, <5>1, <5>2
      <4> QED BY <4>1, <4>2
    <3>3. c \in Bins /\ queue.owner[c] = p
      BY <1>1, <1>2, <3>2, PlacesType DEF Backs
    <3>4. queue'.owner = [queue.owner EXCEPT ![b] = None]
      BY <1>6 DEF TakesOver
    <3>5. c # b
      BY <3>2, <3>3
    <3> HIDE DEF b, o
    <3> QED BY <1>1, <3>3, <3>4, <3>5
  <2> QED BY <2>2 DEF Backs
<1>7. ASSUME NEW q \in Requests, EndsTask(q)
      PROVE  Backs(task', queue'.owner)
  <2>1. Places(task[q]) = {}
    BY <1>7, EmptySeq DEF EndsTask, Places
  <2> SUFFICES ASSUME NEW p \in Requests, NEW c, NEW s, <<c, s>> \in Places(task[p])
               PROVE  queue'.owner[c] = p
    BY <1>7 DEF EndsTask, Backs
  <2>2. c \in Bins /\ queue.owner[c] = p /\ p # q
    BY <1>1, <1>2, <2>1, PlacesType DEF Backs
  <2> QED BY <1>7, <2>2 DEF EndsTask
<1>8. ClaimStep
  BY ClaimSteps
<1> QED BY <1>3, <1>4, <1>5, <1>6, <1>7, <1>8 DEF ClaimStep

\* An owner is released, unless the bin is dug out.
LEMMA OwnerChanges ==
    ASSUME TypeOK, ClaimStep, NEW c \in Bins
    PROVE  \/ queue'.owner[c] \in {queue.owner[c], None}
           \/ \E e \in BagToSet(events) :
                 e.act \in PhysicalActions /\ DigsOut(e) /\ e.act.bin = c
<1>1. queue.owner \in [Bins -> Requests \cup {None}]
  BY DEF TypeOK, QueueType
<1>2. ASSUME NEW tasks, NEW owner, NewClaims(tasks, owner)
      PROVE  queue'.owner[c] \in {owner[c], None}
  BY <1>2 DEF NewClaims
<1>3. CASE KeepsClaims
  BY <1>2, <1>3 DEF KeepsClaims
<1>4. ASSUME NEW e \in BagToSet(events), e.act \in PhysicalActions, DigsOut(e)
      PROVE  queue'.owner[c] \in {queue.owner[c], None} \/ e.act.bin = c
  <2>1. queue'.owner[c] \in {[queue.owner EXCEPT ![e.act.bin] = robotTask[e.robot]][c], None}
    BY <1>2, <1>4 DEF DigsOut
  <2> QED BY <1>1, <2>1
<1>5. ASSUME NEW e \in BagToSet(events), PutsBack(e)
      PROVE  queue'.owner[c] \in {queue.owner[c], None}
  <2>1. queue'.owner[c] \in {[queue.owner EXCEPT ![e.act.bin] = None][c], None}
    BY <1>2, <1>5 DEF PutsBack
  <2> QED BY <1>1, <2>1
<1>6. ASSUME NEW e \in BagToSet(events), TakesOver(e)
      PROVE  queue'.owner[c] \in {queue.owner[c], None}
  BY <1>1, <1>6 DEF TakesOver
<1>7. ASSUME NEW q \in Requests, EndsTask(q)
      PROVE  queue'.owner[c] \in {queue.owner[c], None}
  BY <1>7 DEF EndsTask
<1> QED BY <1>3, <1>4, <1>5, <1>6, <1>7 DEF ClaimStep

\* A return that fails leaves the event, and nothing on the robot.
LEMMA FailingReturn ==
    ASSUME TypeOK, OneChain, Loads, NEW e \in BagToSet(events), Fails(e)
    PROVE  /\ UNCHANGED <<queue, task, events>> /\ carried'[e.robot] = None
           /\ \A s \in Robots : s # e.robot => carried'[s] = carried[s]
<1>1. /\ HandleDrop(e) /\ PutsBin(e) /\ e.act.type = "return_blocker" /\ e.robot \in Robots
      /\ robotTask[e.robot] # None /\ carried[e.robot] = e.act.bin
      /\ RestoreMismatch(task[robotTask[e.robot]], e.act.bin, e.act.from, e.act.to)
  BY HandledDrop DEF Fails
<1>2. ~UNCHANGED bins
  BY <1>1 DEF PutsBin, PutDown, bins
<1>3. DropEffect(e)
  BY <1>1, <1>2 DEF HandleDrop, RedirectBlockedDrop
<1>4. DropBlocker(e)
  BY <1>1, <1>3 DEF DropEffect, IsRelocate
<1>5. UNCHANGED <<queue, task, events>> /\ carried' = LoadCleared(e)
  BY <1>1, <1>4 DEF DropBlocker, PutDown
<1> QED BY <1>1, <1>5, UnloadedDoes

\* What the strategy asks to be fetched is not on the robot already, unless it
\* is the robot's own blocker.
LEMMA FreshIsLoaded ==
    ASSUME TypeOK', EveryBinInOnePlace', ChainInv', Backs(task', queue'.owner),
           NEW f \in BagToSet(events'), Fresh(f), f.act \in PhysicalActions,
           carried'[f.robot] = f.act.bin
    PROVE  f.act.type = "return_blocker" /\ queue'.owner[f.act.bin] = f.request
<1> DEFINE b == f.act.bin
           q == f.request
<1>1. /\ f.robot \in Robots /\ f.kind = "pickup" /\ q \in Requests /\ b \in Bins /\ b # None
      /\ BagToSet(events') \subseteq Event
  BY WarehouseAssumption DEF Fresh, TypeOK, PhysicalActions, Event, FetchActions
<1>2. PICK w : Seen(w) /\ \E o \in NextAction(w, q) :
                 /\ f.act = o.act
                 /\ task'[q] = o.task /\ queue'.owner = o.queue.owner
  BY DEF Fresh
<1>3. PICK o \in NextAction(w, q) : f.act = o.act /\ task'[q] = o.task
  BY <1>2
<1>4. Tells(w, q, o)
  BY <1>1, <1>2, NextActionTells DEF Seen
<1>5. b \in moving'
  BY <1>1 DEF ChainInv, Loads
<1>6. \A s \in Stacks : ~Holds(stack', s, b)
  BY <1>1, <1>5 DEF EveryBinInOnePlace, OnSomeStack
<1>7. f.act.type \notin {"relocate", "unbury", "remove_target"}
  <2> SUFFICES ASSUME f.act.type \in {"relocate", "unbury", "remove_target"} PROVE FALSE
    OBVIOUS
  <2>1. f.act.from \in Stacks /\ OnTop(stack', f.act.from, b)
    BY <1>2, <1>3, <1>4 DEF Tells, Seen
  <2>2. Holds(stack', f.act.from, b)
    <3>1. stack'[f.act.from] \in Seq(Bins)
      BY <2>1 DEF TypeOK
    <3> QED BY <2>1, <3>1, TopType DEF OnTop, Holds, Top
  <2> QED BY <1>6, <2>1, <2>2
<1>8. f.act.type # "return_target"
  <2> SUFFICES ASSUME f.act.type = "return_target" PROVE FALSE
    OBVIOUS
  <2>1. status'[b] = "at_pickstation"
    BY <1>2, <1>3, <1>4 DEF Tells, Seen
  <2>2. Returning(events', f.robot)
    BY <1>1, <2>1 DEF ChainInv, LoadsStored
  <2>3. PICK g \in BagToSet(events') : g.robot = f.robot /\ g.kind = "drop"
    BY <2>2 DEF Returning
  <2>4. ~Quiet(f.robot)'
    BY DEF Quiet, NoEvent
  <2>5. PICK h \in BagToSet(events') :
          h.robot = f.robot /\ \A k \in BagToSet(events') : k.robot = h.robot => k = h
    BY <1>1, <2>4 DEF ChainInv, OneChain, Busy, EventOf, Only
  <2> QED BY <1>1, <2>3, <2>5
<1>9. f.act.type = "return_blocker"
  BY <1>7, <1>8 DEF PhysicalActions
<1>10. <<b, f.act.from>> \in Places(task'[q])
  BY <1>3, <1>4, <1>9 DEF Tells
<1> QED BY <1>1, <1>9, <1>10 DEF Backs

\* No robot carries a bin of another task than its own.
LEMMA LoadsFreeStep ==
    ASSUME TypeOK, TypeOK', EveryBinInOnePlace', ChainInv, ChainInv', RelocatedOnce,
           OwnersInv, [Next]_vars, requeues' = 0
    PROVE  LoadsFree'
<1>1. /\ Backs(task', queue'.owner) /\ LoadsFree /\ OneChain /\ Loads /\ ClaimStep
  BY BackingStep, ClaimSteps DEF OwnersInv, ChainInv
<1> SUFFICES ASSUME NEW f \in BagToSet(events'), f.act \in PhysicalActions,
                    carried'[f.robot] = f.act.bin
             PROVE  queue'.owner[f.act.bin] \in {None, f.request}
  BY DEF LoadsFree
<1> DEFINE b == f.act.bin
<1>2. b \in Bins /\ b # None
  BY WarehouseAssumption DEF PhysicalActions
<1>3. CASE Still(f)
  <2>1. /\ f \in BagToSet(events) /\ carried[f.robot] = b /\ f.robot \in Robots
        /\ queue.owner[b] \in {None, f.request}
    BY <1>1, <1>3, EventFields DEF Still, LoadsFree
  <2>2. ASSUME NEW e \in BagToSet(events), e.act \in PhysicalActions, DigsOut(e), e.act.bin = b
        PROVE  FALSE
    <3>1. HandleDrop(e) /\ PutsBin(e)
      BY <2>2 DEF DigsOut
    <3>2. e.robot \in Robots /\ carried[e.robot] = b
      BY <1>1, <2>2, <3>1, HandledDrop
    <3>3. carried' = LoadCleared(e)
      BY <3>1 DEF PutsBin, PutDown
    <3>4. carried'[e.robot] = None
      BY <2>2, <3>2, <3>3, UnloadedDoes
    <3>5. e.robot = f.robot
      BY <1>1, <1>2, <2>1, <3>2 DEF Loads
    <3> QED BY <1>2, <3>4, <3>5
  <2>3. queue'.owner[b] \in {queue.owner[b], None}
    BY <1>1, <1>2, <2>2, OwnerChanges
  <2> QED BY <2>1, <2>3
<1>4. CASE Fresh(f)
  BY <1>1, <1>4, FreshIsLoaded
<1>5. CASE GoesOn(f)
  <2>1. PICK e \in BagToSet(events) :
          /\ f.act = e.act /\ f.request = e.request /\ f.robot = e.robot
          /\ \/ UNCHANGED <<queue, task, bins>> /\ carried[e.robot] = e.act.bin
             \/ queue'.owner[e.act.bin] \in {None, e.request}
    BY <1>5 DEF GoesOn
  <2>2. CASE UNCHANGED queue /\ carried[e.robot] = e.act.bin
    BY <1>1, <2>1, <2>2 DEF LoadsFree
  <2> QED BY <2>1, <2>2
<1>6. CASE Turns(f)
  <2>1. PICK e \in BagToSet(events), s \in Stacks :
          /\ e.kind = "drop" /\ f.act = [e.act EXCEPT !.to = s]
          /\ f.request = e.request /\ f.robot = e.robot /\ UNCHANGED <<queue, bins>>
    BY <1>6 DEF Turns
  <2>2. e.act \in PhysicalActions /\ f.act.bin = e.act.bin /\ carried[e.robot] = e.act.bin
    BY <2>1, EventFields DEF PhysicalActions, bins
  <2> QED BY <1>1, <2>1, <2>2 DEF LoadsFree
<1>7. f.act \notin FetchActions
  BY DEF FetchActions, PhysicalActions
<1>8. CASE \A e \in BagToSet(events) : ~Fails(e)
  <2>1. EventStep
    BY <1>1, <1>8, EventSteps
  <2> QED BY <1>3, <1>4, <1>5, <1>6, <1>7, <2>1 DEF EventStep
<1>9. ASSUME NEW e \in BagToSet(events), Fails(e)
      PROVE  Still(f)
  <2>1. /\ UNCHANGED <<queue, task, events>> /\ carried'[e.robot] = None
        /\ \A s \in Robots : s # e.robot => carried'[s] = carried[s]
    BY <1>1, <1>9, FailingReturn
  <2>2. f \in BagToSet(events) /\ f.robot \in Robots /\ f.robot # e.robot
    BY <1>2, <2>1, EventFields
  <2> QED BY <2>1, <2>2 DEF Still
<1> QED BY <1>3, <1>8, <1>9

\* Both in a step.
LEMMA OwnersStep ==
    ASSUME TypeOK, TypeOK', EveryBinInOnePlace', requeues = 0 => ChainInv,
           requeues' = 0 => ChainInv', RelocatedOnce, requeues = 0 => OwnersInv, [Next]_vars
    PROVE  requeues' = 0 => OwnersInv'
<1> SUFFICES ASSUME requeues' = 0 PROVE OwnersInv'
  OBVIOUS
<1>1. requeues = 0
  BY RecoveriesCounted
<1>2. Backs(task', queue'.owner) /\ LoadsFree'
  BY <1>1, BackingStep, LoadsFreeStep
<1> QED BY <1>2 DEF OwnersInv

\* Until the first recovery, and as long as no task relocates a bin twice.
LEMMA OwnersInvariant ==
    Spec /\ []RelocatedOnce => [](requeues = 0 => OwnersInv)
<1>1. Init => (requeues = 0 => OwnersInv)
  <2> SUFFICES ASSUME Init PROVE OwnersInv
    OBVIOUS
  <2>1. \A q \in Requests : Places(task[q]) = {}
    BY EmptySeq DEF Init, NewTask, Places
  <2>2. BagToSet(events) = {}
    BY DEF Init, EmptyBag, SetToBag, BagToSet
  <2> QED BY <2>1, <2>2 DEF OwnersInv, Backs, LoadsFree
<1>2. TypeOK /\ TypeOK' /\ EveryBinInOnePlace'
        /\ (requeues = 0 => ChainInv) /\ (requeues = 0 => ChainInv)'
        /\ RelocatedOnce /\ (requeues = 0 => OwnersInv) /\ [Next]_vars
        => (requeues = 0 => OwnersInv)'
  BY OwnersStep
<1> QED BY <1>1, <1>2, TypeCorrect, BinsConserved, ChainInvariant, PTL DEF Spec

\* Until the first recovery, and as long as no task relocates a bin twice, the
\* ownership of relocated blockers in the queue (_blocker_ownership in
\* requests_/active_queue.py) and what the tasks remember (temp_storage in
\* simulation/robot_task.py) say the same: two tasks never both believe they
\* must return a bin, and no relocated bin is without an owner.
THEOREM OwnershipMatches ==
    Spec /\ []RelocatedOnce => [](requeues = 0 => OwnershipBacked)
<1>1. Remembered(task, queue.owner) /\ OwnersInv => OwnershipBacked
  BY OpenIsRemembered DEF Remembered, OwnersInv, Backs, OwnershipBacked
<1> QED BY <1>1, RememberedInvariant, OwnersInvariant, PTL

----------------------------------------------------------------------------
(* Relocated blockers lie where they are remembered *)

\* A relocated blocker that is not under way lies where its task remembers.
Lying ==
    \A q \in Requests : \A b, s :
        <<b, s>> \in Places(task[q]) /\ b \notin moving => Holds(stack, s, b)

\* No stack holds two blockers of the same task.
Spread ==
    \A s \in Stacks : \A b, c \in Bins :
        /\ b # c /\ Holds(stack, s, b) /\ Holds(stack, s, c)
        /\ queue.owner[b] = queue.owner[c]
        => queue.owner[b] = None

\* No task relocates its target.
TargetApart == \A q \in Requests : \A s : <<Target[q], s>> \notin Places(task[q])

\* What an event is about to do fits what its task remembers.
Fits(e) ==
    /\ e.act.type = "relocate" =>
         /\ e.act.bin # Target[e.request]
         /\ \A c \in Bins : Holds(stack, e.act.to, c) => queue.owner[c] # e.request
    /\ e.act.type = "unbury" => queue.owner[e.act.bin] # e.request
    /\ e.act.type = "return_blocker" =>
         \A s : <<e.act.bin, s>> \in Places(task[e.request]) => s = e.act.from

PlacesInv == Lying /\ Spread /\ TargetApart /\ \A e \in BagToSet(events) : Fits(e)

\* What has held so far.
Context ==
    /\ TypeOK /\ EveryBinInOnePlace /\ QueueInv /\ ChainInv
    /\ Remembered(task, queue.owner) /\ RelocatedOnce /\ OwnersInv

\* The stacks after a bin has been lifted, and after one has been laid down.
LEMMA LiftedStacks ==
    ASSUME TypeOK, NEW e, e.act \in PhysicalActions, TakesBin(e), NEW s \in Stacks, NEW c
    PROVE  /\ Holds(stack', s, c) => Holds(stack, s, c)
           /\ Holds(stack, s, c) /\ c # e.act.bin => Holds(stack', s, c)
<1> DEFINE d == e.act.from
           n == Len(stack[d])
<1>1. CASE d = None \/ d # s
  <2>1. stack'[s] = stack[s]
    BY <1>1 DEF TakesBin, TypeOK
  <2> QED BY <2>1 DEF Holds
<1>2. CASE d # None /\ d = s
  <2>1. /\ stack[s] \in Seq(Bins) /\ stack[s] # <<>> /\ Top(stack[s]) = e.act.bin
        /\ stack'[s] = Front(stack[s])
    BY <1>2 DEF TakesBin, CanPickup, OnTop, TypeOK
  <2>2. n \in Nat \ {0} /\ DOMAIN stack[s] = 1 .. n /\ stack[s][n] = e.act.bin
    BY <1>2, <2>1, EmptySeq, LenProperties DEF Top
  <2>3. /\ DOMAIN stack'[s] = 1 .. (n - 1)
        /\ \A i \in 1 .. (n - 1) : stack'[s][i] = stack[s][i]
    <3>1. stack'[s] = SubSeq(stack[s], 1, n - 1)
      BY <1>2, <2>1 DEF Front
    <3> QED BY <2>1, <2>2, <3>1, SubSeqProperties, LenProperties
  <2>4. \A i : i \in 1 .. n <=> i \in 1 .. (n - 1) \/ i = n
    BY <2>2
  <2>5. Holds(stack', s, c) <=> \E i \in 1 .. (n - 1) : stack'[s][i] = c
    BY <2>3 DEF Holds
  <2>6. Holds(stack, s, c) <=> \E i \in 1 .. n : stack[s][i] = c
    BY <1>2, <2>2 DEF Holds
  <2> HIDE DEF n
  <2> QED BY <1>2, <2>2, <2>3, <2>4, <2>5, <2>6
<1> QED BY <1>1, <1>2

\* A stack gains the bin laid down on it, and nothing else changes.
LEMMA LaidStacks ==
    ASSUME TypeOK, NEW e, e.act \in PhysicalActions, PutsBin(e), NEW s \in Stacks, NEW c
    PROVE  Holds(stack', s, c) <=> Holds(stack, s, c) \/ (s = e.act.to /\ c = e.act.bin)
<1> DEFINE d == e.act.to
           n == Len(stack[d])
<1>1. e.act.bin \in Bins /\ d \in Stacks /\ stack[d] \in Seq(Bins)
  BY DEF PhysicalActions, PutsBin, TypeOK
<1>2. stack' = [stack EXCEPT ![d] = Append(@, e.act.bin)]
  BY DEF PutsBin, PutDown, StackAfterDrop
<1>3. CASE s # d
  <2>1. stack'[s] = stack[s]
    BY <1>2, <1>3 DEF TypeOK
  <2> QED BY <1>3, <2>1 DEF Holds
<1>4. CASE s = d
  <2>1. stack'[s] = Append(stack[s], e.act.bin) /\ n \in Nat /\ DOMAIN stack[s] = 1 .. n
    BY <1>1, <1>2, <1>4, LenProperties DEF TypeOK
  <2>2. /\ DOMAIN stack'[s] = 1 .. (n + 1) /\ stack'[s][n + 1] = e.act.bin
        /\ \A i \in 1 .. n : stack'[s][i] = stack[s][i]
    BY <1>1, <1>4, <2>1, AppendProperties, LenProperties
  <2>3. n + 1 \in 1 .. (n + 1) /\ \A i : i \in 1 .. (n + 1) <=> i \in 1 .. n \/ i = n + 1
    BY <2>1
  <2>4. Holds(stack', s, c) <=> \E i \in 1 .. (n + 1) : stack'[s][i] = c
    BY <2>2 DEF Holds
  <2>5. Holds(stack, s, c) <=> \E i \in 1 .. n : stack[s][i] = c
    BY <1>4, <2>1 DEF Holds
  <2> HIDE DEF n
  <2> QED BY <1>4, <2>2, <2>3, <2>4, <2>5
<1> QED BY <1>3, <1>4

\* A place a task remembers is old, or the bin has just been dug out.
LEMMA PlaceGrows ==
    ASSUME TypeOK, ClaimStep, NEW q \in Requests, NEW b, NEW s, <<b, s>> \in Places(task'[q])
    PROVE  \/ <<b, s>> \in Places(task[q])
           \/ \E e \in BagToSet(events) :
                 /\ e.act \in PhysicalActions /\ DigsOut(e) /\ e.act.bin = b
                 /\ e.act.to = s /\ robotTask[e.robot] = q
<1>1. task \in [Requests -> TaskType]
  BY DEF TypeOK
<1>2. ASSUME NEW tasks, NEW owner, NewClaims(tasks, owner)
      PROVE  Places(task'[q]) = Places(tasks[q])
  BY <1>2 DEF NewClaims
<1>3. CASE KeepsClaims
  BY <1>2, <1>3 DEF KeepsClaims
<1>4. ASSUME NEW e \in BagToSet(events), e.act \in PhysicalActions, DigsOut(e)
      PROVE  <<b, s>> \in Places(task[q]) \/ (e.act.bin = b /\ e.act.to = s /\ robotTask[e.robot] = q)
  <2> DEFINE p == robotTask[e.robot]
             u == RememberRelocation(task[p], e.act.bin, e.act.from, e.act.to)
  <2>1. p \in Requests /\ e.act.bin \in Bins /\ e.act.from \in Stacks /\ e.act.to \in Stacks
    BY <1>4 DEF DigsOut, PhysicalActions
  <2>2. Places(task'[q]) = Places([task EXCEPT ![p] = u][q])
    BY <1>1, <1>2, <1>4, <2>1 DEF DigsOut
  <2>3. Places(u) = Places(task[p]) \cup {<<e.act.bin, e.act.to>>}
    BY <1>1, <2>1, RememberPlaces
  <2> HIDE DEF u, p
  <2>4. CASE p = q
    <3>1. <<b, s>> \in Places(u)
      BY <1>1, <2>1, <2>2, <2>4
    <3> QED BY <2>3, <2>4, <3>1 DEF p
  <2>5. CASE p # q
    BY <1>1, <2>2, <2>5
  <2> QED BY <2>4, <2>5
<1>5. ASSUME NEW e \in BagToSet(events), PutsBack(e)
      PROVE  <<b, s>> \in Places(task[q])
  <2> DEFINE p == robotTask[e.robot]
             u == MarkLastRelocationRestored(task[p], e.act.bin)
  <2>1. p \in Requests /\ Places(u) \subseteq Places(task[p])
    BY <1>1, <1>5, RestoredPlaces DEF PutsBack
  <2>2. Places(task'[q]) = Places([task EXCEPT ![p] = u][q])
    BY <1>1, <1>2, <1>5, <2>1 DEF PutsBack
  <2> HIDE DEF u, p
  <2>3. CASE p = q
    BY <1>1, <2>1, <2>2, <2>3
  <2>4. CASE p # q
    BY <1>1, <2>2, <2>4
  <2> QED BY <2>3, <2>4
<1>6. ASSUME NEW e \in BagToSet(events), TakesOver(e)
      PROVE  <<b, s>> \in Places(task[q])
  <2> DEFINE o == queue.owner[e.act.bin]
             u == ForgetRelocation(task[o], e.act.bin)
  <2>1. Places(task'[q]) = Places(TasksAfterPickup(e.robot, e.act.bin)[q])
    BY <1>6 DEF TakesOver
  <2>2. CASE TasksAfterPickup(e.robot, e.act.bin) = task
    BY <2>1, <2>2
  <2>3. CASE /\ TasksAfterPickup(e.robot, e.act.bin) = [task EXCEPT ![o] = u]
             /\ HasOpenRelocation(task[o], e.act.bin)
    <3>1. CASE o = q
      <4>1. Places(u) \subseteq Places(task[q])
        BY <1>1, <2>3, <3>1, ForgetPlaces
      <4>2. [task EXCEPT ![o] = u][q] = u
        BY <1>1, <3>1
      <4> HIDE DEF u, o
      <4> QED BY <2>1, <2>3, <4>1, <4>2
    <3>2. CASE o # q
      <4>1. [task EXCEPT ![o] = u][q] = task[q]
        BY <1>1, <3>2
      <4> HIDE DEF u, o
      <4> QED BY <2>1, <2>3, <4>1
    <3> QED BY <3>1, <3>2
  <2> QED BY <2>2, <2>3 DEF TasksAfterPickup
<1>7. ASSUME NEW p \in Requests, EndsTask(p)
      PROVE  <<b, s>> \in Places(task[q])
  BY <1>7 DEF EndsTask
<1> QED BY <1>3, <1>4, <1>5, <1>6, <1>7 DEF ClaimStep

\* What a robot puts down cannot fail, because the event fits.
LEMMA NoReturnFails ==
    ASSUME Context, PlacesInv, NEW e \in BagToSet(events)
    PROVE  ~Fails(e)
<1> SUFFICES ASSUME Fails(e) PROVE FALSE
  OBVIOUS
<1> DEFINE q == robotTask[e.robot]
           b == e.act.bin
           t == task[q]
           i == LastRelocation(t, b)
<1>1. /\ HandleDrop(e) /\ PutsBin(e) /\ e.act.type = "return_blocker"
      /\ RestoreMismatch(t, b, e.act.from, e.act.to)
  BY DEF Fails
<1>2. q \in Requests /\ q # None /\ e.request = q /\ t \in TaskType
  BY <1>1, HandledDrop DEF Context, ChainInv, TypeOK
<1>3. /\ HasOpenRelocation(t, b) /\ i \in OpenRelocations(t, b)
      /\ FirstRelocation(t, b) \in OpenRelocations(t, b)
  BY <1>1, <1>2, RelocationExists DEF RestoreMismatch
<1>4. FirstRelocation(t, b) = i
  BY <1>2, <1>3 DEF Context, RelocatedOnce, OpenRelocations
<1>5. ~OutdatedReturn(e)
  <2>1. ~UNCHANGED bins
    BY <1>1 DEF PutsBin, PutDown, bins
  <2>2. ~StaleDrop(e)
    BY <1>1, HandledDrop DEF Context, ChainInv
  <2> QED BY <1>1, <2>1, <2>2 DEF HandleDrop
<1>6. t.temp[i].from = e.act.to
  BY <1>1, <1>2, <1>3, <1>4, <1>5 DEF OutdatedReturn
<1>7. <<b, t.temp[i].buffer>> \in Places(t)
  BY <1>3 DEF OpenRelocations, Places
<1>8. t.temp[i].buffer = e.act.from
  BY <1>1, <1>2, <1>7 DEF PlacesInv, Fits
<1> QED BY <1>1, <1>6, <1>8 DEF RestoreMismatch

\* A bin put down, but for a blocker dug out or returned, is nobody's blocker.
LEMMA SetDownIsFree ==
    ASSUME Context, PlacesInv, NEW e \in BagToSet(events), SetsDown(e)
    PROVE  /\ queue.owner[e.act.bin] = None
           /\ \A p \in Requests : \A s : <<e.act.bin, s>> \notin Places(task[p])
<1> DEFINE q == robotTask[e.robot]
           b == e.act.bin
<1>1. TypeOK /\ OneChain /\ Loads /\ LoadsFree /\ HandleDrop(e)
  BY DEF Context, ChainInv, OwnersInv, SetsDown
<1>2. /\ q \in Requests /\ q # None /\ e.request = q /\ b \in Bins /\ e.act \in PhysicalActions
      /\ queue.owner[b] \in {None, q} /\ EventOf(e.robot, e)
  BY <1>1, HandledDrop, LoadOwner
<1>3. \A s : <<b, s>> \notin Places(task[q])
  <2>1. CASE e.act.type \in {"return_target", "remove_target"}
    BY <1>2, <2>1 DEF EventOf, TargetTypes, PlacesInv, TargetApart
  <2>2. CASE e.act.type = "unbury"
    BY <1>2, <2>2 DEF PlacesInv, Fits, Context, OwnersInv, Backs
  <2>3. CASE e.act.type = "return_blocker"
    <3>1. Fails(e)
      BY <1>1, <1>2, <2>3 DEF SetsDown, Fails
    <3> QED BY <3>1, NoReturnFails
  <2>4. e.act.type # "relocate"
    BY <1>2 DEF SetsDown
  <2> QED BY <1>2, <2>1, <2>2, <2>3, <2>4 DEF PhysicalActions
<1>4. queue.owner[b] # q
  BY <1>2, <1>3 DEF Context, Remembered
<1>5. None \notin Requests
  BY WarehouseAssumption
<1> QED BY <1>2, <1>3, <1>4, <1>5 DEF Context, OwnersInv, Backs

\* The target stays apart.
LEMMA TargetApartStep ==
    ASSUME Context, PlacesInv, [Next]_vars
    PROVE  TargetApart'
<1> SUFFICES ASSUME NEW q \in Requests, NEW s, <<Target[q], s>> \in Places(task'[q])
             PROVE  FALSE
  BY DEF TargetApart
<1>1. <<Target[q], s>> \notin Places(task[q])
  BY DEF PlacesInv, TargetApart
<1>2. PICK e \in BagToSet(events) :
         DigsOut(e) /\ e.act.bin = Target[q] /\ robotTask[e.robot] = q
  BY <1>1, PlaceGrows, ClaimSteps DEF Context
<1>3. e.request = q /\ e.act.type = "relocate"
  BY <1>2, HandledDrop DEF DigsOut, Context, ChainInv
<1> QED BY <1>2, <1>3 DEF PlacesInv, Fits

\* Places of other bins after a bin has been lifted or put down.
LEMMA LyingOthers ==
    ASSUME Context, PlacesInv, NEW e \in BagToSet(events), e.act \in PhysicalActions,
           TakesBin(e) \/ PutsBin(e) \/ HandsOver(e),
           NEW q \in Requests, NEW b, NEW s, <<b, s>> \in Places(task[q]), b \notin moving',
           b # e.act.bin
    PROVE  Holds(stack', s, b)
<1>1. TypeOK /\ s \in Stacks
  BY PlacesType DEF Context, TypeOK
<1>2. b \notin moving
  BY DEF TakesBin, PutsBin, PutDown, HandsOver
<1>3. Holds(stack, s, b)
  BY <1>2 DEF PlacesInv, Lying
<1> QED BY <1>1, <1>3, LiftedStacks, LaidStacks DEF HandsOver

\* A step leaves the relocated blockers where their tasks remember them.
LEMMA LyingStep ==
    ASSUME Context, PlacesInv, TypeOK', RelocatedOnce', [Next]_vars
    PROVE  Lying'
<1> SUFFICES ASSUME NEW q \in Requests, NEW b, NEW s, <<b, s>> \in Places(task'[q]),
                    b \notin moving'
             PROVE  Holds(stack', s, b)
  BY DEF Lying
<1>1. /\ TypeOK /\ OneChain /\ Loads /\ LoadsFree /\ ClaimStep
      /\ Backs(task, queue.owner) /\ None \notin Requests
      /\ \A p \in Requests : OneEntry(task[p]) /\ OneEntry(task'[p])
  BY ClaimSteps, WarehouseAssumption
     DEF Context, ChainInv, OwnersInv, RelocatedOnce, OneEntry
<1>2. s \in Stacks /\ b \in Bins /\ task \in [Requests -> TaskType]
  BY <1>1, PlacesType DEF TypeOK
<1>3. ASSUME NEW e \in BagToSet(events), e.act \in PhysicalActions, DigsOut(e)
      PROVE  Holds(stack', s, b)
  <2> DEFINE p == robotTask[e.robot]
             d == e.act.to
             u == RememberRelocation(task[p], e.act.bin, e.act.from, d)
  <2>1. /\ p \in Requests /\ e.act.bin \in Bins /\ e.act.from \in Stacks /\ d \in Stacks
        /\ PutsBin(e) /\ queue.owner[e.act.bin] \in {None, p}
    BY <1>1, <1>3, LoadOwner DEF DigsOut, PhysicalActions
  <2>2. CASE <<b, s>> \in Places(task[q]) /\ b = e.act.bin
    <3>1. q = p
      BY <1>1, <2>1, <2>2 DEF Backs
    <3>2. Places(task'[q]) = Places([task EXCEPT ![p] = u][q])
      BY <1>3 DEF DigsOut, NewClaims
    <3>3. Places(u) = Places(task[p]) \cup {<<b, d>>}
      BY <1>2, <2>1, <2>2, RememberPlaces
    <3> HIDE DEF u, p
    <3>4. [task EXCEPT ![p] = u][q] = u
      BY <1>2, <3>1
    <3>5. <<b, d>> \in Places(task'[q])
      BY <3>2, <3>3, <3>4
    <3>6. s = d
      BY <1>1, <3>5 DEF Places, OneEntry
    <3> QED BY <1>1, <1>2, <1>3, <2>1, <2>2, <3>6, LaidStacks
  <2>3. CASE <<b, s>> \in Places(task[q]) /\ b # e.act.bin
    BY <1>3, <2>1, <2>3, LyingOthers
  <2>4. CASE <<b, s>> \notin Places(task[q])
    <3>1. PICK g \in BagToSet(events) :
             g.act \in PhysicalActions /\ DigsOut(g) /\ g.act.bin = b /\ g.act.to = s
      BY <1>1, <2>4, PlaceGrows
    <3> QED BY <1>1, <1>2, <3>1, LaidStacks DEF DigsOut
  <2> QED BY <2>2, <2>3, <2>4
<1>4. CASE \A e \in BagToSet(events) : e.act \in PhysicalActions => ~DigsOut(e)
  <2>1. <<b, s>> \in Places(task[q])
    BY <1>1, <1>4, PlaceGrows
  <2>2. CASE UNCHANGED bins
    BY <2>1, <2>2 DEF PlacesInv, Lying, bins
  <2>3. ASSUME NEW e \in BagToSet(events), e.act \in PhysicalActions, TakesBin(e)
        PROVE  Holds(stack', s, b)
    BY <2>1, <2>3, LyingOthers DEF TakesBin
  <2>4. ASSUME NEW e \in BagToSet(events), e.act \in PhysicalActions, SetsDown(e)
        PROVE  Holds(stack', s, b)
    <3>1. b # e.act.bin
      BY <2>1, <2>4, SetDownIsFree
    <3> QED BY <2>1, <2>4, <3>1, LyingOthers DEF SetsDown
  <2>5. ASSUME NEW e \in BagToSet(events), e.act \in PhysicalActions, PutsBack(e)
        PROVE  Holds(stack', s, b)
    <3> DEFINE p == robotTask[e.robot]
               u == MarkLastRelocationRestored(task[p], e.act.bin)
    <3>1. /\ p \in Requests /\ PutsBin(e) /\ queue.owner[e.act.bin] \in {None, p}
      BY <1>1, <2>5, LoadOwner DEF PutsBack
    <3>2. b # e.act.bin
      <4> SUFFICES ASSUME b = e.act.bin PROVE FALSE
        OBVIOUS
      <4>1. q = p
        BY <1>1, <2>1, <3>1 DEF Backs
      <4>2. Places(task'[q]) = Places([task EXCEPT ![p] = u][q])
        BY <2>5 DEF PutsBack, NewClaims
      <4>3. <<b, s>> \notin Places(u)
        BY <1>1, <1>2, <3>1, RestoredPlaces
      <4> HIDE DEF u, p
      <4>4. [task EXCEPT ![p] = u][q] = u
        BY <1>2, <4>1
      <4> QED BY <4>2, <4>3, <4>4
    <3> QED BY <2>1, <2>5, <3>1, <3>2, LyingOthers
  <2>6. ASSUME NEW e \in BagToSet(events), e.act \in PhysicalActions, TakesOver(e)
        PROVE  Holds(stack', s, b)
    BY <2>3, <2>6 DEF TakesOver
  <2>7. ASSUME NEW p \in Requests, EndsTask(p)
        PROVE  Holds(stack', s, b)
    BY <2>2, <2>7 DEF EndsTask
  <2> QED BY <1>1, <1>4, <2>2, <2>3, <2>4, <2>5, <2>6, <2>7 DEF ClaimStep, KeepsClaims
<1> QED BY <1>3, <1>4

\* A bin that is owned after a step lay there and was owned before, or it has
\* just been dug out.
LEMMA OwnedLies ==
    ASSUME Context, PlacesInv, [Next]_vars, NEW s \in Stacks, NEW c \in Bins,
           Holds(stack', s, c), queue'.owner[c] # None
    PROVE  \/ Holds(stack, s, c) /\ queue.owner[c] = queue'.owner[c]
           \/ \E e \in BagToSet(events) :
                 /\ e.act \in PhysicalActions /\ DigsOut(e) /\ e.act.bin = c /\ e.act.to = s
                 /\ queue'.owner[c] = robotTask[e.robot]
<1>1. /\ TypeOK /\ OneChain /\ Loads /\ LoadsFree /\ ClaimStep /\ EveryBinInOnePlace
      /\ queue.owner \in [Bins -> Requests \cup {None}]
  BY ClaimSteps DEF Context, ChainInv, OwnersInv, TypeOK, QueueType
<1>2. ASSUME NEW tasks, NEW owner, NewClaims(tasks, owner)
      PROVE  queue'.owner[c] = owner[c]
  BY <1>2 DEF NewClaims
<1>3. ASSUME NEW e \in BagToSet(events), e.act \in PhysicalActions, DigsOut(e)
      PROVE  \/ Holds(stack, s, c) /\ queue.owner[c] = queue'.owner[c]
             \/ e.act.bin = c /\ e.act.to = s /\ queue'.owner[c] = robotTask[e.robot]
  <2>1. queue'.owner[c] = [queue.owner EXCEPT ![e.act.bin] = robotTask[e.robot]][c]
    BY <1>2, <1>3 DEF DigsOut
  <2>2. Holds(stack', s, c) <=> Holds(stack, s, c) \/ (s = e.act.to /\ c = e.act.bin)
    BY <1>1, <1>3, LaidStacks DEF DigsOut
  <2>3. CASE c # e.act.bin
    BY <1>1, <2>1, <2>2, <2>3
  <2>4. CASE c = e.act.bin
    <3>1. ~Holds(stack, s, c)
      BY <1>1, <1>3, <2>4 DEF DigsOut, PutsBin, EveryBinInOnePlace, OnSomeStack
    <3> QED BY <1>1, <2>1, <2>2, <2>4, <3>1
  <2> QED BY <2>3, <2>4
<1>4. CASE UNCHANGED bins /\ queue'.owner[c] = queue.owner[c]
  BY <1>4 DEF bins
<1>5. ASSUME NEW e \in BagToSet(events), e.act \in PhysicalActions, TakesBin(e),
             queue'.owner[c] = queue.owner[c]
      PROVE  Holds(stack, s, c) /\ queue.owner[c] = queue'.owner[c]
  BY <1>1, <1>5, LiftedStacks
<1>6. ASSUME NEW e \in BagToSet(events), e.act \in PhysicalActions, SetsDown(e),
             queue'.owner[c] = queue.owner[c]
      PROVE  Holds(stack, s, c) /\ queue.owner[c] = queue'.owner[c]
  <2>1. c # e.act.bin
    BY <1>6, SetDownIsFree
  <2>2. PutsBin(e) \/ HandsOver(e)
    BY <1>6 DEF SetsDown
  <2> QED BY <1>1, <1>6, <2>1, <2>2, LaidStacks DEF HandsOver
<1>7. ASSUME NEW e \in BagToSet(events), e.act \in PhysicalActions, PutsBack(e)
      PROVE  Holds(stack, s, c) /\ queue.owner[c] = queue'.owner[c]
  <2>1. queue'.owner[c] = [queue.owner EXCEPT ![e.act.bin] = None][c]
    BY <1>2, <1>7 DEF PutsBack
  <2>2. c # e.act.bin /\ queue'.owner[c] = queue.owner[c]
    BY <1>1, <2>1
  <2> QED BY <1>1, <1>7, <2>2, LaidStacks DEF PutsBack
<1>8. ASSUME NEW e \in BagToSet(events), e.act \in PhysicalActions, TakesOver(e)
      PROVE  Holds(stack, s, c) /\ queue.owner[c] = queue'.owner[c]
  <2>1. queue'.owner[c] = queue.owner[c]
    BY <1>1, <1>8 DEF TakesOver
  <2> QED BY <1>5, <1>8, <2>1 DEF TakesOver
<1>9. ASSUME NEW p \in Requests, EndsTask(p)
      PROVE  UNCHANGED bins /\ queue'.owner[c] = queue.owner[c]
  BY <1>9 DEF EndsTask
<1>10. CASE KeepsClaims
  <2>1. queue'.owner[c] = queue.owner[c]
    BY <1>2, <1>10 DEF KeepsClaims
  <2> QED BY <1>4, <1>5, <1>6, <1>10, <2>1 DEF KeepsClaims
<1> QED BY <1>1, <1>3, <1>4, <1>7, <1>8, <1>9, <1>10 DEF ClaimStep

\* A step never puts two blockers of one task on the same stack.
LEMMA SpreadStep ==
    ASSUME Context, PlacesInv, [Next]_vars
    PROVE  Spread'
<1> SUFFICES ASSUME NEW s \in Stacks, NEW b \in Bins, NEW c \in Bins, b # c,
                    Holds(stack', s, b), Holds(stack', s, c),
                    queue'.owner[b] = queue'.owner[c], queue'.owner[b] # None
             PROVE  FALSE
  BY DEF Spread
<1> DEFINE Was(x) == Holds(stack, s, x) /\ queue.owner[x] = queue'.owner[x]
           Dug(x, e) == /\ e.act \in PhysicalActions /\ DigsOut(e) /\ e.act.bin = x
                        /\ e.act.to = s /\ queue'.owner[x] = robotTask[e.robot]
<1>1. ASSUME NEW x \in {b, c} PROVE Was(x) \/ \E e \in BagToSet(events) : Dug(x, e)
  BY <1>1, OwnedLies
<1>2. ASSUME NEW e \in BagToSet(events), NEW x \in {b, c}, NEW y \in {b, c}, Dug(x, e), Was(y)
      PROVE  FALSE
  <2>1. e.act.type = "relocate" /\ e.request = robotTask[e.robot]
    BY <1>2, HandledDrop DEF DigsOut, Context, ChainInv
  <2>2. queue.owner[y] # e.request
    BY <1>2, <2>1 DEF PlacesInv, Fits
  <2> QED BY <1>2, <2>1, <2>2
<1>3. ASSUME NEW e \in BagToSet(events), NEW g \in BagToSet(events), Dug(b, e), Dug(c, g)
      PROVE  FALSE
  <2>1. b \in moving /\ c \in moving /\ moving' = moving \ {b} /\ moving' = moving \ {c}
    BY <1>3 DEF DigsOut, PutsBin, PutDown
  <2> QED BY <2>1
<1>4. CASE Was(b) /\ Was(c)
  BY <1>4 DEF PlacesInv, Spread
<1> HIDE DEF Was, Dug
<1> QED BY <1>1, <1>2, <1>3, <1>4

\* An event that stays what it was, but for the stack it goes to: its bin is
\* not put down in this step.
Kept(f, e) ==
    /\ f.request = e.request /\ f.robot = e.robot
    /\ f.act.type = e.act.type /\ f.act.bin = e.act.bin /\ f.act.from = e.act.from
    /\ ~(HandleDrop(e) /\ PutsBin(e))
    /\ \/ f.act.to = e.act.to
       \/ /\ UNCHANGED <<queue, bins>>
          /\ IsRelocate(f.act) => \E x \in Stacks : f.act.to \in RelocationStacks(Now, x)

\* Every event after a step is a kept one, a fresh one, or one that fetches a bin.
LEMMA EventsKept ==
    ASSUME TypeOK, OneChain, Loads, EventStep, NEW f \in BagToSet(events')
    PROVE  \/ \E e \in BagToSet(events) : Kept(f, e)
           \/ Fresh(f) \/ f.act \in FetchActions
<1>1. CASE Still(f)
  <2>1. f \in BagToSet(events) /\ carried'[f.robot] = carried[f.robot]
    BY <1>1 DEF Still
  <2>2. ASSUME HandleDrop(f), PutsBin(f)
        PROVE  FALSE
    <3>1. carried[f.robot] = f.act.bin /\ f.act.bin # None
      BY <2>1, <2>2, HandledDrop, WarehouseAssumption DEF PhysicalActions
    <3>2. carried'[f.robot] = None
      BY <2>1, <2>2, <3>1, UnloadedDoes DEF PutsBin, PutDown
    <3> QED BY <2>1, <3>1, <3>2
  <2> QED BY <2>1, <2>2 DEF Kept
<1>2. CASE GoesOn(f)
  <2>1. PICK e \in BagToSet(events) :
          e.kind = "pickup" /\ f.act = e.act /\ f.request = e.request /\ f.robot = e.robot
    BY <1>2 DEF GoesOn
  <2>2. ~HandleDrop(e)
    BY <2>1 DEF HandleDrop
  <2> QED BY <2>1, <2>2 DEF Kept
<1>3. CASE Turns(f)
  <2>1. PICK e \in BagToSet(events), s \in Stacks :
          /\ e.kind = "drop" /\ f.act = [e.act EXCEPT !.to = s]
          /\ f.request = e.request /\ f.robot = e.robot
          /\ IsRelocate(e.act) => \E x \in Stacks : s \in RelocationStacks(Now, x)
          /\ UNCHANGED <<queue, bins>>
    BY <1>3 DEF Turns
  <2>2. e.act \in PhysicalActions
    BY <2>1, EventFields
  <2>3. /\ f.act.type = e.act.type /\ f.act.bin = e.act.bin /\ f.act.from = e.act.from
        /\ f.act.to = s
    BY <2>1, <2>2 DEF PhysicalActions
  <2>4. ~PutsBin(e)
    BY <2>1 DEF PutsBin, PutDown, bins
  <2> QED BY <2>1, <2>3, <2>4 DEF Kept, IsRelocate
<1> QED BY <1>1, <1>2, <1>3 DEF EventStep

\* What goes on fits.
LEMMA KeptFits ==
    ASSUME Context, PlacesInv, [Next]_vars,
           NEW f \in BagToSet(events'), NEW e \in BagToSet(events), Kept(f, e)
    PROVE  Fits(f)'
<1>1. /\ TypeOK /\ QueueInv /\ OneChain /\ Loads /\ ClaimStep /\ Fits(e)
      /\ queue.owner \in [Bins -> Requests \cup {None}]
  BY ClaimSteps DEF Context, ChainInv, PlacesInv, TypeOK, QueueType
<1>2. /\ f.request = e.request /\ f.act.type = e.act.type /\ f.act.bin = e.act.bin
      /\ f.act.from = e.act.from /\ e.request \in Requests /\ e.request # None
      /\ e.robot \in Robots /\ e.request = robotTask[e.robot]
  BY <1>1, HandledEvent, EventFields, WarehouseAssumption DEF Kept, EventOf
<1>3. ASSUME NEW g \in BagToSet(events), DigsOut(g)
      PROVE  robotTask[g.robot] # e.request
  <2> SUFFICES ASSUME robotTask[g.robot] = e.request PROVE FALSE
    OBVIOUS
  <2>1. g.robot \in Robots /\ HandleDrop(g) /\ PutsBin(g)
    BY <1>1, <1>3, EventFields DEF DigsOut
  <2>2. g.robot = e.robot
    BY <1>1, <1>2, <2>1, HeldTask
  <2>3. g = e
    BY <1>1, <2>2, HandledEvent DEF EventOf, Only
  <2> QED BY <2>1, <2>3 DEF Kept
<1>4. ASSUME f.act.type = "relocate"
      PROVE  /\ f.act.bin # Target[f.request]
             /\ \A c \in Bins : Holds(stack', f.act.to, c) => queue'.owner[c] # f.request
  <2>1. f.act.bin # Target[f.request]
    BY <1>1, <1>2, <1>4 DEF Fits
  <2>2. ASSUME NEW c \in Bins, Holds(stack', f.act.to, c), queue'.owner[c] = f.request
        PROVE  FALSE
    <3>1. f.act.to \in Stacks
      <4>1. CASE f.act.to = e.act.to
        <5>1. e.act \in PhysicalActions
          BY <1>2, <1>4, EventFields, <1>1 DEF Event, FetchActions
        <5> QED BY <1>2, <1>4, <4>1, <5>1 DEF PhysicalActions
      <4>2. CASE \E x \in Stacks : f.act.to \in RelocationStacks(Now, x)
        BY <4>2 DEF RelocationStacks
      <4> QED BY <1>4, <4>1, <4>2 DEF Kept, IsRelocate
    <3>2. Holds(stack, f.act.to, c) /\ queue.owner[c] = e.request
      <4>1. queue'.owner[c] # None
        BY <1>2, <2>2
      <4> QED BY <1>2, <1>3, <2>2, <3>1, <4>1, OwnedLies
    <3>3. CASE f.act.to = e.act.to
      BY <1>1, <1>2, <1>4, <3>2, <3>3 DEF Fits
    <3>4. CASE \E x \in Stacks : f.act.to \in RelocationStacks(Now, x)
      <4>1. ToSet(stack[f.act.to]) \cap Reserved(queue) = {}
        BY <3>4 DEF RelocationStacks, Now, World
      <4>2. c \in ToSet(stack[f.act.to])
        BY <3>2 DEF Holds, ToSet
      <4>3. c \in Reserved(queue)
        BY <1>2, <3>2 DEF Reserved, Owned
      <4> QED BY <4>1, <4>2, <4>3
    <3> QED BY <1>4, <3>3, <3>4 DEF Kept, IsRelocate
  <2> QED BY <2>1, <2>2
<1>5. ASSUME f.act.type = "unbury"
      PROVE  queue'.owner[f.act.bin] # f.request
  <2>1. queue.owner[e.act.bin] # e.request /\ e.act.bin \in Bins
    <3>1. e.act \in PhysicalActions
      BY <1>1, <1>2, <1>5, EventFields DEF Event, FetchActions
    <3> QED BY <1>1, <1>2, <1>5, <3>1 DEF Fits, PhysicalActions
  <2>2. CASE queue'.owner[e.act.bin] \in {queue.owner[e.act.bin], None}
    BY <1>2, <2>1, <2>2
  <2>3. ASSUME NEW g \in BagToSet(events), DigsOut(g), g.act.bin = e.act.bin
        PROVE  queue'.owner[e.act.bin] # e.request
    <3>1. queue'.owner[e.act.bin] \in
             {[queue.owner EXCEPT ![g.act.bin] = robotTask[g.robot]][e.act.bin], None}
      BY <2>1, <2>3 DEF DigsOut, NewClaims
    <3>2. [queue.owner EXCEPT ![g.act.bin] = robotTask[g.robot]][e.act.bin] = robotTask[g.robot]
      BY <1>1, <2>1, <2>3
    <3> QED BY <1>2, <1>3, <2>3, <3>1, <3>2
  <2> QED BY <1>1, <1>2, <2>1, <2>2, <2>3, OwnerChanges
<1>6. ASSUME f.act.type = "return_blocker",
             NEW s, <<f.act.bin, s>> \in Places(task'[f.request])
      PROVE  s = f.act.from
  <2>1. <<e.act.bin, s>> \in Places(task[e.request])
    BY <1>1, <1>2, <1>3, <1>6, PlaceGrows
  <2> QED BY <1>1, <1>2, <1>6, <2>1 DEF Fits
<1> QED BY <1>4, <1>5, <1>6 DEF Fits

\* What the strategy has just answered fits.
LEMMA FreshFits ==
    ASSUME TypeOK', Spread', Backs(task', queue'.owner), RelocatedOnce',
           NEW f \in BagToSet(events'), Fresh(f), f.act \in PhysicalActions
    PROVE  Fits(f)'
<1> DEFINE a == f.act
           q == f.request
<1>1. q \in Requests /\ a.bin \in Bins /\ None \notin Requests
  BY WarehouseAssumption DEF Fresh, PhysicalActions
<1>2. PICK w : Seen(w) /\ \E o \in NextAction(w, q) :
                 /\ a = o.act
                 /\ task'[q] = o.task /\ queue'.owner = o.queue.owner
  BY DEF Fresh
<1>3. PICK o \in NextAction(w, q) :
         a = o.act /\ task'[q] = o.task /\ queue'.owner = o.queue.owner
  BY <1>2
<1>4. Tells(w, q, o) /\ w.stack = stack'
  BY <1>1, <1>2, NextActionTells DEF Seen
<1>5. ASSUME a.type = "relocate"
      PROVE  /\ a.bin # Target[q]
             /\ \A c \in Bins : Holds(stack', a.to, c) => queue'.owner[c] # q
  <2>1. /\ a.bin # Target[q] /\ o.queue = w.queue /\ a.to \in RelocationStacks(w, a.from)
    BY <1>3, <1>4, <1>5 DEF Tells
  <2>2. ASSUME NEW c \in Bins, Holds(stack', a.to, c), queue'.owner[c] = q
        PROVE  FALSE
    <3>1. ToSet(stack'[a.to]) \cap Reserved(w.queue) = {}
      BY <1>4, <2>1 DEF RelocationStacks
    <3>2. c \in ToSet(stack'[a.to])
      BY <2>2 DEF Holds, ToSet
    <3>3. c \in Reserved(w.queue)
      BY <1>1, <1>3, <2>1, <2>2 DEF Reserved, Owned
    <3> QED BY <3>1, <3>2, <3>3
  <2> QED BY <2>1, <2>2
<1>6. ASSUME a.type = "unbury"
      PROVE  queue'.owner[a.bin] # q
  <2>1. PICK c \in Bins : /\ c # a.bin /\ Holds(stack', a.from, c)
                          /\ <<c, a.from>> \in Places(task'[q])
    BY <1>3, <1>4, <1>6 DEF Tells
  <2>2. a.from \in Stacks /\ OnTop(stack', a.from, a.bin)
    BY <1>3, <1>4, <1>6 DEF Tells
  <2>3. Holds(stack', a.from, a.bin)
    <3>1. stack'[a.from] \in Seq(Bins)
      BY <2>2 DEF TypeOK
    <3> QED BY <2>2, <3>1, TopType DEF OnTop, Holds, Top
  <2>4. queue'.owner[c] = q
    BY <1>1, <2>1 DEF Backs
  <2> QED BY <1>1, <2>1, <2>2, <2>3, <2>4 DEF Spread
<1>7. ASSUME a.type = "return_blocker", NEW s, <<a.bin, s>> \in Places(task'[q])
      PROVE  s = a.from
  <2>1. <<a.bin, a.from>> \in Places(task'[q])
    BY <1>3, <1>4, <1>7 DEF Tells
  <2> QED BY <1>1, <1>7, <2>1 DEF RelocatedOnce, Places
<1> QED BY <1>5, <1>6, <1>7 DEF Fits

\* A step keeps the places.
LEMMA PlacesStep ==
    ASSUME Context, TypeOK', RelocatedOnce', PlacesInv, [Next]_vars, requeues' = 0
    PROVE  PlacesInv'
<1>1. /\ TypeOK /\ OneChain /\ Loads /\ ChainInv /\ RelocatedOnce /\ OwnersInv
  BY DEF Context, ChainInv
<1>2. Lying' /\ Spread' /\ TargetApart'
  BY LyingStep, SpreadStep, TargetApartStep
<1>3. Backs(task', queue'.owner)
  BY <1>1, BackingStep
<1>4. EventStep
  BY <1>1, NoReturnFails, EventSteps
<1>5. ASSUME NEW f \in BagToSet(events') PROVE Fits(f)'
  <2>1. CASE \E e \in BagToSet(events) : Kept(f, e)
    BY <2>1, KeptFits
  <2>2. CASE Fresh(f)
    <3>1. f \in Event /\ f.kind = "pickup"
      BY <2>2 DEF Fresh, TypeOK
    <3>2. f.act \in PhysicalActions
      BY <3>1 DEF Event
    <3> QED BY <1>2, <1>3, <2>2, <3>2, FreshFits
  <2>3. CASE f.act \in FetchActions
    BY <2>3 DEF Fits, FetchActions
  <2> QED BY <1>1, <1>4, <2>1, <2>2, <2>3, EventsKept
<1> QED BY <1>2, <1>5 DEF PlacesInv

\* Until the first recovery, and as long as no task relocates a bin twice.
LEMMA PlacesInvariant ==
    Spec /\ []RelocatedOnce => [](requeues = 0 => PlacesInv)
<1>1. Init => (requeues = 0 => PlacesInv)
  <2> SUFFICES ASSUME Init PROVE PlacesInv
    OBVIOUS
  <2>1. \A q \in Requests : Places(task[q]) = {}
    BY EmptySeq DEF Init, NewTask, Places
  <2>2. BagToSet(events) = {}
    BY DEF Init, EmptyBag, SetToBag, BagToSet
  <2>3. \A b \in Bins : queue.owner[b] = None
    BY DEF Init, EmptyQueue
  <2> QED BY <2>1, <2>2, <2>3 DEF PlacesInv, Lying, Spread, TargetApart
<1>2. TypeOK /\ TypeOK' /\ EveryBinInOnePlace /\ QueueInv
        /\ (requeues = 0 => ChainInv) /\ Remembered(task, queue.owner)
        /\ RelocatedOnce /\ RelocatedOnce'
        /\ (requeues = 0 => OwnersInv) /\ (requeues = 0 => PlacesInv) /\ [Next]_vars
        => (requeues = 0 => PlacesInv)'
  <2> SUFFICES ASSUME TypeOK, TypeOK', EveryBinInOnePlace, QueueInv, requeues = 0 => ChainInv,
                      Remembered(task, queue.owner), RelocatedOnce, RelocatedOnce',
                      requeues = 0 => OwnersInv, requeues = 0 => PlacesInv, [Next]_vars,
                      requeues' = 0
               PROVE  PlacesInv'
    OBVIOUS
  <2>1. requeues = 0
    BY RecoveriesCounted
  <2>2. Context /\ PlacesInv
    BY <2>1 DEF Context
  <2> QED BY <2>2, PlacesStep
<1> QED BY <1>1, <1>2, TypeCorrect, BinsConserved, QueueInvariant, ChainInvariant,
           RememberedInvariant, OwnersInvariant, PTL DEF Spec

\* Until the first recovery, and as long as no task relocates a bin twice, a
\* relocated blocker that no robot carries lies on the very stack its task
\* remembers (temp_storage in simulation/robot_task.py), so that the return
\* fetches it from where it is.
THEOREM BlockersWhereRemembered ==
    Spec /\ []RelocatedOnce => [](requeues = 0 => BlockerWhereRemembered)
<1>1. TypeOK /\ EveryBinInOnePlace /\ PlacesInv => BlockerWhereRemembered
  <2> SUFFICES ASSUME TypeOK, EveryBinInOnePlace, PlacesInv,
                      NEW q \in Requests, NEW b \in Bins,
                      HasOpenRelocation(task[q], b), b \notin moving
               PROVE  StackOf(stack, b) = task[q].temp[LastRelocation(task[q], b)].buffer
    BY DEF BlockerWhereRemembered
  <2> DEFINE i == LastRelocation(task[q], b)
             s == task[q].temp[i].buffer
  <2>1. task[q] \in TaskType
    BY DEF TypeOK
  <2>2. i \in OpenRelocations(task[q], b)
    BY <2>1, RelocationExists
  <2>3. <<b, s>> \in Places(task[q])
    BY <2>2 DEF OpenRelocations, Places
  <2>4. s \in Stacks /\ Holds(stack, s, b)
    BY <2>1, <2>3, PlacesType DEF PlacesInv, Lying
  <2>5. StackOf(stack, b) \in Stacks /\ Holds(stack, StackOf(stack, b), b)
    BY <2>4, StackOfType, WarehouseAssumption
  <2>6. StackOf(stack, b) = s
    <3> HIDE DEF s
    <3> QED BY <2>4, <2>5 DEF EveryBinInOnePlace, Holds
  <2> QED BY <2>6
<1>2. TypeOK /\ EveryBinInOnePlace /\ (requeues = 0 => PlacesInv)
        => (requeues = 0 => BlockerWhereRemembered)
  BY <1>1
<1> QED BY <1>2, TypeCorrect, BinsConserved, PlacesInvariant, PTL

----------------------------------------------------------------------------
(* No consistency check raises *)

\* What has happened in each phase of a task.
Known(t) ==
    /\ t.phase = "retrieve_target" => ~t.removed
    /\ t.phase # "retrieve_target" => t.removed /\ t.delivered /\ t.home # None
    /\ t.phase = "return_target" => t.served

Between == {"restore_blockers", "wait_for_pickstation"}

\* The task goes on in its phase, or from the restoring of the blockers and the
\* wait for the station to the return; then all blockers are back.
Onward(t, u) ==
    /\ u.removed = t.removed /\ u.returned = t.returned
    /\ t.delivered => u.delivered
    /\ t.served => u.served
    /\ t.home # None => u.home # None
    /\ \/ u.phase = t.phase
       \/ /\ t.phase \in Between /\ u.phase \in Between \cup {"return_target"}
          /\ u.phase = "return_target" => u.served /\ u.temp = <<>>

\* What is known of a task stays known.
LEMMA OnwardKnown ==
    ASSUME NEW t, NEW u, Known(t), Onward(t, u)
    PROVE  Known(u)
BY DEF Known, Onward, Between

\* No check raises, and the task goes on.
Proceeds(t, o) == o.act # Raise /\ Onward(t, o.task)

\* The return of the target.
LEMMA NextReturnTargetProceeds ==
    ASSUME NEW w, NEW q, NEW t \in TaskType, NEW aq, NEW o \in NextReturnTarget(w, q, t, aq),
           t.home # None, Target[q] \in w.station
    PROVE  /\ o.act # Raise /\ SameLife(t, o.task) /\ o.task.temp = t.temp
<1>1. CASE o = Outcome(t, aq, NoStack)
  BY <1>1 DEF SameLife, Outcome, NoStack, Raise, Action
<1>2. CASE \E s \in Stacks :
             o = Outcome([t EXCEPT !.actual = s], aq,
                         Action("return_target", Target[q], None, s))
  BY <1>2 DEF SameLife, Outcome, Action, Raise, TaskType
<1> QED BY <1>1, <1>2 DEF NextReturnTarget, OrNoStack, ReturnStacks

\* What follows the restoring of the blockers.
LEMMA AfterRestoreProceeds ==
    ASSUME NEW w, NEW q, NEW t \in TaskType, NEW aq, NEW o \in AfterRestore(w, q, t, aq),
           t.home # None, Target[q] \in w.station, t.phase = "restore_blockers", t.temp = <<>>
    PROVE  Proceeds(t, o)
<1>1. CASE t.served
  <2> DEFINE u == [t EXCEPT !.phase = "return_target"]
  <2>1. /\ u \in TaskType /\ u.home = t.home /\ u.temp = <<>> /\ u.phase = "return_target"
        /\ u.removed = t.removed /\ u.returned = t.returned /\ u.delivered = t.delivered
        /\ u.served
    BY <1>1 DEF TaskType, Phases
  <2>2. o \in NextReturnTarget(w, q, u, aq)
    BY <1>1 DEF AfterRestore
  <2> HIDE DEF u
  <2>3. u.home # None
    BY <2>1
  <2>4. o.act # Raise /\ SameLife(u, o.task) /\ o.task.temp = u.temp
    BY <2>1, <2>2, <2>3, NextReturnTargetProceeds
  <2> QED BY <2>1, <2>4 DEF Proceeds, Onward, Between, SameLife
<1>2. CASE ~t.served
  <2>1. o = Outcome([t EXCEPT !.phase = "wait_for_pickstation"], aq, NoAction)
    BY <1>2 DEF AfterRestore
  <2> QED BY <2>1 DEF Proceeds, Onward, Between, Outcome, NoAction, Raise, Action, TaskType
<1> QED BY <1>1, <1>2

\* The restoring of the blockers.
LEMMA NextRestoreBlockersProceeds ==
    ASSUME NEW w, NEW q, NEW t \in TaskType, NEW aq, NEW o \in NextRestoreBlockers(w, q, t, aq),
           t.home # None, Target[q] \in w.station, t.phase = "restore_blockers"
    PROVE  Proceeds(t, o)
<1>1. CASE ~ReturnBlockingBins
  <2> DEFINE u == [t EXCEPT !.temp = <<>>, !.reordered = TRUE]
  <2>1. u \in TaskType /\ SameLife(t, u) /\ u.temp = <<>>
    BY EmptySeq DEF TaskType, SameLife
  <2>2. o \in AfterRestore(w, q, u, ReleaseOwnBlockers(aq, q, t))
    BY <1>1 DEF NextRestoreBlockers
  <2> HIDE DEF u
  <2>3. u.home # None /\ u.phase = "restore_blockers"
    BY <2>1 DEF SameLife
  <2>4. Proceeds(u, o)
    BY <2>1, <2>2, <2>3, AfterRestoreProceeds
  <2> QED BY <2>1, <2>4 DEF Proceeds, Onward, SameLife
<1>2. CASE ReturnBlockingBins /\ t.temp = <<>>
  BY <1>2, AfterRestoreProceeds DEF NextRestoreBlockers
<1>3. CASE ReturnBlockingBins /\ t.temp # <<>>
  <2>1. PICK u \in Reorderings(t) :
           o \in OrNoStack(u, aq,
                   IF Buried(w, PeekLastRelocation(u)) THEN Unbury(w, u, aq, PeekLastRelocation(u))
                                             ELSE RestoreBlocker(w, u, aq, PeekLastRelocation(u)))
    BY <1>3 DEF NextRestoreBlockers
  <2> DEFINE reloc == PeekLastRelocation(u)
  <2>2. u \in TaskType
    BY <2>1, ReorderingsType
  <2>3. SameLife(t, u)
    BY <2>1 DEF Reorderings, SameLife, TaskType
  <2>4. o.act # Raise /\ SameLife(u, o.task)
    <3>1. CASE o = Outcome(u, aq, NoStack)
      BY <3>1 DEF SameLife, Outcome, NoStack, Raise, Action
    <3>2. CASE o \in Unbury(w, u, aq, reloc)
      BY <3>2 DEF Unbury, SameLife, Outcome, Raise, Action
    <3>3. CASE o \in RestoreBlocker(w, u, aq, reloc)
      <4>1. \A s : SameLife(u, UpdateReturnStack(u, reloc.bin, s))
        BY <2>2 DEF UpdateReturnStack, SameLife, TaskType
      <4>2. SameLife(u, u)
        BY DEF SameLife
      <4>3. SameLife(u, o.task)
        BY <3>3, <4>1, <4>2 DEF RestoreBlocker, Outcome
      <4>4. o.act.type = "return_blocker"
        BY <3>3 DEF RestoreBlocker, Outcome, Action
      <4> QED BY <4>3, <4>4 DEF Raise, Action
    <3> QED BY <2>1, <3>1, <3>2, <3>3 DEF OrNoStack
  <2> QED BY <2>3, <2>4 DEF Proceeds, Onward, SameLife
<1> QED BY <1>1, <1>2, <1>3

\* The retrieval of a target that is not at the station.
LEMMA NextRetrieveTargetProceeds ==
    ASSUME NEW w, NEW q, NEW t \in TaskType, NEW aq, NEW o \in NextRetrieveTarget(w, q, t, aq),
           Target[q] \notin w.station,
           StackOf(w.stack, Target[q]) = None => Target[q] \in w.moving
    PROVE  Proceeds(t, o)
<1> DEFINE b == Target[q]
           s == StackOf(w.stack, b)
           t2 == IF t.home = None THEN [t EXCEPT !.home = s] ELSE t
<1>1. CASE s = None
  <2>1. o = Outcome(t, aq, NoAction)
    BY <1>1 DEF NextRetrieveTarget
  <2> QED BY <2>1 DEF Proceeds, Onward, Outcome, NoAction, Raise, Action
<1>2. CASE s # None
  <2>1. o.task = t2 /\ o.act.type \in {"remove_target", "no_stack", "relocate"}
    BY <1>2 DEF NextRetrieveTarget, OrNoStack, Outcome, Action, NoStack
  <2>2. Onward(t, t2)
    BY <1>2 DEF Onward, TaskType
  <2> QED BY <2>1, <2>2 DEF Proceeds, Raise, Action
<1> QED BY <1>1, <1>2

\* next_action, asked in a world in which the target is at the station exactly
\* if the task has removed it, and somewhere else if not.
LEMMA NextActionProceeds ==
    ASSUME NEW w, WorldOK(w), NEW q \in Requests, NEW o \in NextAction(w, q),
           Known(w.task[q]), w.task[q].phase # "complete",
           w.task[q].removed <=> Target[q] \in w.station,
           StackOf(w.stack, Target[q]) = None => Target[q] \in w.station \cup w.moving
    PROVE  Proceeds(w.task[q], o)
<1> DEFINE t == w.task[q]
<1>1. t \in TaskType
  BY DEF WorldOK
<1>2. CASE t.phase = "retrieve_target"
  BY <1>1, <1>2, NextRetrieveTargetProceeds DEF NextAction, Known
<1>3. CASE t.phase = "restore_blockers"
  BY <1>1, <1>3, NextRestoreBlockersProceeds DEF NextAction, Known
<1>4. CASE t.phase = "return_target"
  <2>1. o.act # Raise /\ SameLife(t, o.task)
    BY <1>1, <1>4, NextReturnTargetProceeds DEF NextAction, Known
  <2> QED BY <2>1 DEF Proceeds, Onward, SameLife
<1>5. CASE t.phase = "wait_for_pickstation"
  BY <1>1, <1>5 DEF NextAction, Proceeds, Onward, Outcome, NoAction, Raise, Action
<1> QED BY <1>1, <1>2, <1>3, <1>4, <1>5 DEF TaskType, Phases

\* The targets at the stations are those of tasks that have removed and not
\* returned them.
HeldAtStation ==
    \A b \in Bins : status[b] = "at_pickstation" =>
        \E q \in Active : Target[q] = b /\ task[q].removed /\ ~task[q].returned

\* The strategy is asked in the world that the step leaves; only its error
\* ends the run.
Consults ==
    \E q \in Requests : \E w, o :
        /\ Asked(w, q, o) /\ Seen(w) /\ UNCHANGED status
        /\ o.act.type = "request_complete" \/ completions' = completions
        /\ pc' = "failed" => o.act = Raise

\* The lives of the tasks go on as they are.
LivesGoOn == LivesOf(task') /\ UNCHANGED <<status, completions>> /\ pc' # "failed"

\* The answer is no error, and every task goes on.
LEMMA ConsultsProceeds ==
    ASSUME TypeOK, RemovedAtStation, HeldAtStation, \A p \in Requests : Known(task[p]),
           EveryBinInOnePlace', DistinctTargets', Active \subseteq Active', Consults
    PROVE  /\ UNCHANGED <<status, completions>> /\ pc' # "failed"
           /\ \A p \in Requests : Onward(task[p], task'[p])
<1> PICK q \in Requests : \E w, o :
        /\ Asked(w, q, o) /\ Seen(w) /\ UNCHANGED status
        /\ o.act.type = "request_complete" \/ completions' = completions
        /\ pc' = "failed" => o.act = Raise
  BY DEF Consults
<1>1. PICK w, o :
        /\ Asked(w, q, o) /\ Seen(w) /\ UNCHANGED status
        /\ o.act.type = "request_complete" \/ completions' = completions
        /\ pc' = "failed" => o.act = Raise
  OBVIOUS
<1> DEFINE b == Target[q]
<1>2. b \in Bins /\ \A p \in Requests : w.task[p] \in TaskType
  BY <1>1, WarehouseAssumption DEF Seen, WorldOK
<1>3. SameLife(task[q], w.task[q]) /\ ~task[q].returned /\ task[q].phase # "complete"
  BY <1>1 DEF Asked, LivesOf, Live
<1>4. b \in w.station <=> status[b] = "at_pickstation"
  BY <1>1, <1>2 DEF Seen
<1>5. task[q].removed <=> status[b] = "at_pickstation"
  <2>1. ASSUME status[b] = "at_pickstation" PROVE task[q].removed
    <3>1. PICK p \in Active : Target[p] = b /\ task[p].removed
      BY <1>2, <2>1 DEF HeldAtStation
    <3>2. p \in Active' /\ q \in Active'
      BY <1>1, <3>1 DEF Asked
    <3> QED BY <3>1, <3>2 DEF DistinctTargets
  <2> QED BY <1>3, <2>1 DEF RemovedAtStation
<1>6. StackOf(w.stack, b) = None => b \in w.station \cup w.moving
  <2>1. StackOf(stack', b) = None => b \in moving' \/ status'[b] = "at_pickstation"
    BY <1>2, StackOfType DEF EveryBinInOnePlace, OnSomeStack
  <2> QED BY <1>1, <1>2, <2>1 DEF Seen
<1>7. Known(w.task[q])
  BY <1>3 DEF Known, SameLife
<1>8. w.task[q].phase # "complete" /\ (w.task[q].removed <=> b \in w.station)
  BY <1>3, <1>4, <1>5 DEF SameLife
<1>9. o.act # Raise /\ Onward(w.task[q], o.task)
  BY <1>1, <1>6, <1>7, <1>8, NextActionProceeds DEF Asked, Proceeds
<1>10. o.act.type # "request_complete"
  <2>1. Follows(q, w.task[q], w.station, o)
    BY <1>1, NextActionLife DEF Asked
  <2> QED BY <1>8, <2>1 DEF Follows
<1>11. ASSUME NEW p \in Requests PROVE Onward(task[p], task'[p])
  <2>1. SameLife(task[p], w.task[p])
    BY <1>1 DEF Asked, LivesOf
  <2>2. task'[p] = IF p = q THEN o.task ELSE w.task[p]
    BY <1>1 DEF Asked, WorldOK
  <2>3. CASE p = q
    BY <1>9, <2>1, <2>2, <2>3 DEF Onward, SameLife
  <2>4. CASE p # q
    BY <2>1, <2>2, <2>4 DEF Onward, SameLife
  <2> QED BY <2>3, <2>4
<1> QED BY <1>1, <1>9, <1>10, <1>11

\* Asking for the task of a robot that goes on with it.
LEMMA ScheduleNextConsults ==
    ASSUME TypeOK, QueueInv, EndedIsDone, Ready, Active' = Active,
           NEW r \in Robots, robotTask[r] # None,
           NEW w, Seen(w), LivesOf(w.task), w.station = Now.station,
           NEW evs, ScheduleNext(w, r, robotTask[r], evs), UNCHANGED status
    PROVE  Consults
<1> DEFINE q == robotTask[r]
<1>1. q \in Requests /\ Live(q) /\ q \in Active'
  BY HeldIsLive
<1>2. PICK o \in NextAction(w, q) : Carry(w, r, q, o, evs, "handle")
  BY DEF ScheduleNext
<1>3. Asked(w, q, o)
  BY <1>1, <1>2 DEF Asked, Carry, Seen
<1>4. /\ o.act.type = "request_complete" \/ completions' = completions
      /\ pc' = "failed" => o.act = Raise
  BY <1>2 DEF Carry, PcAfter
<1> QED BY <1>1, <1>3, <1>4 DEF Consults

\* The same in the present.
LEMMA AskNowConsults ==
    ASSUME TypeOK, QueueInv, EndedIsDone, Ready, Active' = Active,
           NEW r \in Robots, robotTask[r] # None,
           NEW evs, ScheduleNext(Now, r, robotTask[r], evs), UNCHANGED bins
    PROVE  Consults
BY NowIsSeen, NowIsAsked, ScheduleNextConsults DEF bins

\* No task is touched.
LEMMA SameTasksGoOn ==
    ASSUME UNCHANGED <<task, status, completions>>, pc' # "failed"
    PROVE  LivesGoOn
BY DEF LivesGoOn, LivesOf, SameLife

\* A PICKUP.
LEMMA PickupKind ==
    ASSUME TypeOK, QueueInv, OneChain, EndedIsDone, Active' = Active,
           NEW e \in BagToSet(events), Pickup(e), requeues' = 0
    PROVE  Consults \/ LivesGoOn
<1> DEFINE r == e.robot
           q == e.request
           b == e.act.bin
<1>1. /\ r \in Robots /\ robotTask[r] = q /\ q \in Requests /\ q # None
      /\ Ready /\ b \in Bins /\ pc # "failed"
  BY HandledEvent, EventFields, WarehouseAssumption
     DEF EventOf, Pickup, PhysicalActions, Ready
<1>2. \A tasks, aq, evs : ~Requeue(r, tasks, aq, evs)
  BY DEF Requeue, TypeOK
<1>3. CASE ScheduleNext(Now, r, q, Drop(events, e)) /\ UNCHANGED bins
  BY <1>1, <1>3, AskNowConsults
<1>4. CASE Discard(e) /\ UNCHANGED bins
  BY <1>1, <1>4, SameTasksGoOn DEF Discard, bins
<1>5. CASE UNCHANGED <<task, bins, completions, pc>>
  BY <1>1, <1>5, SameTasksGoOn DEF bins
<1>6. CASE PickupSucceeds(e)
  <2>1. UNCHANGED <<status, completions, pc>>
    BY <1>6 DEF PickupSucceeds
  <2> QED BY <1>1, <1>6, <2>1, PickupLives DEF LivesGoOn
<1>7. CASE PickupNotOnTop(e) /\ UNCHANGED bins
  <2>1. PICK o \in NextAction(Now, q) :
          \/ task' = [task EXCEPT ![q] = o.task] /\ UNCHANGED <<completions, pc>>
          \/ Carry(Now, r, q, o, Drop(events, e), "handle")
    BY <1>2, <1>7 DEF PickupNotOnTop
  <2>2. CASE Carry(Now, r, q, o, Drop(events, e), "handle")
    <3>1. ScheduleNext(Now, r, q, Drop(events, e))
      BY <2>1, <2>2 DEF ScheduleNext
    <3> QED BY <1>3, <1>7, <3>1
  <2>3. CASE task' = [task EXCEPT ![q] = o.task] /\ UNCHANGED <<completions, pc>>
    <3>1. Asked(Now, q, o) /\ Seen(Now) /\ UNCHANGED status
      BY <1>1, <1>7, <2>3, NowIsAsked, NowIsSeen, HeldIsLive DEF Asked, bins
    <3> QED BY <1>1, <2>3, <3>1 DEF Consults
  <2> QED BY <2>1, <2>2, <2>3
<1> QED BY <1>1, <1>2, <1>3, <1>4, <1>5, <1>6, <1>7 DEF Pickup

\* A DROP: the strategy is asked, the task goes on, or its target changes hands.
LEMMA HandleDropKind ==
    ASSUME TypeOK, QueueInv, EveryBinInOnePlace, OneChain, Loads, LoadsStored, EndedIsDone,
           Active' = Active, NEW e \in BagToSet(events), HandleDrop(e), ~Fails(e)
    PROVE  \/ Consults \/ LivesGoOn \/ HandsIn(e)
           \/ Lays(e) /\ DropTarget(e) /\ e.act.type = "return_target"
<1> DEFINE r == e.robot
           q == robotTask[r]
<1>1. /\ r \in Robots /\ e.act \in PhysicalActions /\ q \in Requests /\ q # None
      /\ Ready /\ ~StaleDrop(e) /\ e.act.bin \in moving /\ pc # "failed" /\ e.kind = "drop"
  BY HandledDrop DEF Ready
<1>2. CASE ScheduleNext(Now, r, q, Drop(events, e)) /\ UNCHANGED bins
  BY <1>1, <1>2, AskNowConsults
<1>3. CASE UNCHANGED <<task, bins, completions, pc>>
  BY <1>1, <1>3, SameTasksGoOn DEF bins
<1>4. CASE RedirectBlockedDrop(e)
  <2>1. UNCHANGED <<status, completions, pc>>
    BY <1>4 DEF RedirectBlockedDrop, bins
  <2> QED BY <1>1, <1>4, <2>1, RedirectLives DEF LivesGoOn
<1>5. CASE ~FullOnDrop(e) /\ DropEffect(e)
  <2>1. CASE e.act.type = "remove_target"
    <3>1. DropAtPort(e)
      BY <1>5, <2>1 DEF DropEffect, IsRelocate
    <3> QED BY <1>1, <2>1, <3>1, DropAtPortBins DEF HandsOver, HandsIn
  <2>2. CASE e.act.type # "remove_target"
    <3>1. /\ Lays(e)
          /\ \/ DropRelocated(e) /\ IsRelocate(e.act)
             \/ DropBlocker(e) /\ e.act.type = "return_blocker"
             \/ DropTarget(e) /\ e.act.type = "return_target"
      BY <1>5, <2>2, DropEffectLays
    <3>2. ASSUME NEW w, AsksAfterDrop(e, w), e.act.type # "return_target"
          PROVE  Consults
      <4>1. status' = status /\ w.station = Now.station
        BY <3>1, <3>2, LaidWasStored DEF AsksAfterDrop
      <4>2. LivesOf(w.task) /\ ScheduleNext(w, r, q, Drop(events, e)) /\ Seen(w)
        BY <3>1, <3>2, AskedIsSeen DEF AsksAfterDrop
      <4> QED BY <1>1, <4>1, <4>2, ScheduleNextConsults
    <3>3. CASE DropRelocated(e) /\ IsRelocate(e.act)
      BY <1>1, <3>2, <3>3, DropRelocatedAsks DEF IsRelocate
    <3>4. CASE DropBlocker(e) /\ e.act.type = "return_blocker"
      <4>1. ~RestoreMismatch(task[q], e.act.bin, e.act.from, e.act.to)
        BY <3>1, <3>4 DEF Fails, Lays
      <4> QED BY <1>1, <3>2, <3>4, <4>1, DropBlockerAsks
    <3> QED BY <3>1, <3>3, <3>4
  <2> QED BY <2>1, <2>2, Zenon
<1> QED BY <1>1, <1>2, <1>3, <1>4, <1>5 DEF HandleDrop, OutdatedReturn

\* A ROBOT_ACTION.
LEMMA RobotActionKind ==
    ASSUME TypeOK, QueueInv, EndedIsDone, Active' = Active,
           NEW e \in BagToSet(events), RobotAction(e), requeues' = 0
    PROVE  Consults \/ LivesGoOn
<1>1. e.robot \in Robots /\ UNCHANGED bins /\ Ready /\ pc # "failed"
  BY EventFields DEF RobotAction, Ready
<1>2. \A tasks, aq, evs : ~Requeue(e.robot, tasks, aq, evs)
  BY DEF Requeue, TypeOK
<1>3. \/ /\ robotTask[e.robot] # None
         /\ ScheduleNext(Now, e.robot, robotTask[e.robot], Drop(events, e))
      \/ Discard(e)
  BY <1>2 DEF RobotAction
<1>4. CASE Discard(e)
  BY <1>1, <1>4, SameTasksGoOn DEF Discard, bins
<1> QED BY <1>1, <1>3, <1>4, AskNowConsults

\* The scheduler starts or resumes a task.
LEMMA StartsKind ==
    ASSUME TypeOK, QueueInv, RemovedAtStation, EndedIsDone,
           NEW r \in Robots, NEW q \in Requests, NEW w, StartsTask(r, q, w)
    PROVE  Consults
<1>1. /\ pc # "failed" /\ WorldOK(w) /\ w.task = task /\ w.station = Now.station
      /\ q \in Pending \cup Waiting /\ UNCHANGED bins
      /\ w.stack = stack /\ w.moving = moving
  BY DEF StartsTask
<1>2. Live(q)
  BY <1>1, WaitingAreLive
<1>3. PICK o \in NextAction(w, q), next \in {"handle", "schedule", "schedule_new"} :
         Carry(w, r, q, o, events, next)
  BY DEF StartsTask
<1>4. LivesOf(w.task) /\ Seen(w) /\ UNCHANGED status
  BY <1>1 DEF LivesOf, SameLife, Seen, Now, World, bins
<1>5. Asked(w, q, o)
  BY <1>1, <1>2, <1>3, <1>4, StartsLife DEF Asked, Carry
<1>6. /\ o.act.type = "request_complete" \/ completions' = completions
      /\ pc' = "failed" => o.act = Raise
  BY <1>3 DEF Carry, PcAfter
<1> QED BY <1>4, <1>5, <1>6 DEF Consults

\* The strategy is asked, and its answer thrown away.
LEMMA ForceReplanKind ==
    ASSUME TypeOK, QueueInv, EndedIsDone, Active' = Active, NEW r \in Robots, ForceReplan(r)
    PROVE  Consults
<1> DEFINE q == robotTask[r]
<1>1. Ready /\ q # None /\ UNCHANGED bins /\ UNCHANGED completions
  BY DEF ForceReplan
<1>2. q \in Requests /\ Live(q) /\ q \in Active
  BY <1>1, HeldIsLive
<1>3. PICK o \in NextAction(Now, q) :
         task' = [task EXCEPT ![q] = o.task] /\ pc' = PcAfter(o.act, "handle")
  BY DEF ForceReplan
<1>4. Asked(Now, q, o) /\ Seen(Now) /\ UNCHANGED status
  BY <1>1, <1>2, <1>3, NowIsAsked, NowIsSeen DEF Asked, bins
<1>5. pc' = "failed" => o.act = Raise
  BY <1>3 DEF PcAfter
<1> HIDE DEF q
<1> QED BY <1>1, <1>2, <1>4, <1>5 DEF Consults

\* An action fits the phase of the task that is to carry it out.
Timely(a, t) ==
    /\ a.type = "remove_target" => t.home # None
    /\ a.type = "relocate"      => t.phase = "retrieve_target"
    /\ a.type = "return_target" => t.phase = "return_target"

\* So does every answer: the return of the target.
LEMMA NextReturnTargetTimely ==
    ASSUME NEW w, NEW q, NEW t \in TaskType, NEW aq, NEW o \in NextReturnTarget(w, q, t, aq),
           t.phase = "return_target"
    PROVE  Timely(o.act, o.task)
<1>1. CASE \E s \in Stacks :
             o = Outcome([t EXCEPT !.actual = s], aq,
                         Action("return_target", Target[q], None, s))
  BY <1>1 DEF Outcome, Action, Timely, TaskType
<1>2. CASE o.act.type \in SilentTypes
  BY <1>2 DEF Timely, SilentTypes
<1> QED BY <1>1, <1>2
    DEF NextReturnTarget, OrNoStack, ReturnStacks, Outcome, Raise, NoStack, Action, SilentTypes

\* What follows the restoring of the blockers.
LEMMA AfterRestoreTimely ==
    ASSUME NEW w, NEW q, NEW t \in TaskType, NEW aq, NEW o \in AfterRestore(w, q, t, aq)
    PROVE  Timely(o.act, o.task)
<1>1. CASE o.act = NoAction
  BY <1>1 DEF NoAction, Action, Timely
<1>2. CASE o \in NextReturnTarget(w, q, [t EXCEPT !.phase = "return_target"], aq)
  <2> DEFINE u == [t EXCEPT !.phase = "return_target"]
  <2>1. u \in TaskType /\ u.phase = "return_target"
    BY DEF TaskType, Phases
  <2> HIDE DEF u
  <2> QED BY <1>2, <2>1, NextReturnTargetTimely DEF u
<1> QED BY <1>1, <1>2 DEF AfterRestore, Outcome

\* The restoring of the blockers.
LEMMA NextRestoreBlockersTimely ==
    ASSUME NEW w, NEW q, NEW t \in TaskType, NEW aq, NEW o \in NextRestoreBlockers(w, q, t, aq)
    PROVE  Timely(o.act, o.task)
<1>1. CASE ~ReturnBlockingBins
  <2> DEFINE u == [t EXCEPT !.temp = <<>>, !.reordered = TRUE]
  <2>1. u \in TaskType
    BY EmptySeq DEF TaskType
  <2>2. o \in AfterRestore(w, q, u, ReleaseOwnBlockers(aq, q, t))
    BY <1>1 DEF NextRestoreBlockers
  <2> HIDE DEF u
  <2> QED BY <2>1, <2>2, AfterRestoreTimely
<1>2. CASE ReturnBlockingBins /\ t.temp = <<>>
  BY <1>2, AfterRestoreTimely DEF NextRestoreBlockers
<1>3. CASE ReturnBlockingBins /\ t.temp # <<>>
  <2>1. PICK u \in Reorderings(t) :
           o \in OrNoStack(u, aq,
                   IF Buried(w, PeekLastRelocation(u)) THEN Unbury(w, u, aq, PeekLastRelocation(u))
                                             ELSE RestoreBlocker(w, u, aq, PeekLastRelocation(u)))
    BY <1>3 DEF NextRestoreBlockers
  <2>2. o.act.type \in {"no_stack", "unbury", "return_blocker"}
    BY <2>1 DEF OrNoStack, Unbury, RestoreBlocker, Outcome, NoStack, Action
  <2> QED BY <2>2 DEF Timely
<1> QED BY <1>1, <1>2, <1>3

\* next_action, whatever the phase.
LEMMA NextActionTimely ==
    ASSUME NEW w, WorldOK(w), NEW q \in Requests, NEW o \in NextAction(w, q)
    PROVE  Timely(o.act, o.task)
<1> DEFINE t == w.task[q]
           b == Target[q]
           s == StackOf(w.stack, b)
           t2 == IF t.home = None THEN [t EXCEPT !.home = s] ELSE t
           t3 == [t EXCEPT !.removed = TRUE, !.delivered = TRUE,
                           !.phase = "restore_blockers"]
<1>1. t \in TaskType
  BY DEF WorldOK
<1>2. CASE t.phase = "retrieve_target" /\ s = None /\ b \in w.station
  <2>1. t3 \in TaskType
    BY <1>1 DEF TaskType, Phases
  <2>2. o \in NextRestoreBlockers(w, q, t3, w.queue)
    BY <1>2 DEF NextAction, NextRetrieveTarget
  <2> HIDE DEF t3
  <2> QED BY <2>1, <2>2, NextRestoreBlockersTimely
<1>3. CASE t.phase = "retrieve_target" /\ s = None /\ b \notin w.station
  BY <1>3 DEF NextAction, NextRetrieveTarget, Outcome, NoAction, Raise, Action, Timely
<1>4. CASE t.phase = "retrieve_target" /\ s # None
  <2>1. o \in NextRetrieveTarget(w, q, t, w.queue)
    BY <1>4 DEF NextAction
  <2>2. o.task = t2 /\ o.act.type \in {"remove_target", "no_stack", "relocate"}
    BY <1>4, <2>1 DEF NextRetrieveTarget, OrNoStack, Outcome, Action, NoStack
  <2>3. t2.home # None /\ t2.phase = t.phase
    BY <1>1, <1>4 DEF TaskType
  <2> QED BY <1>4, <2>2, <2>3 DEF Timely
<1>5. CASE t.phase = "restore_blockers"
  BY <1>1, <1>5, NextRestoreBlockersTimely DEF NextAction
<1>6. CASE t.phase = "return_target"
  BY <1>1, <1>6, NextReturnTargetTimely DEF NextAction
<1>7. CASE t.phase \in {"wait_for_pickstation", "complete"}
  BY <1>7 DEF NextAction, Outcome, NoAction, Action, Timely
<1> QED BY <1>1, <1>2, <1>3, <1>4, <1>5, <1>6, <1>7 DEF TaskType, Phases

\* A task that goes on keeps the actions planned for it timely.
LEMMA OnwardTimely ==
    ASSUME NEW a, NEW t, NEW u, Timely(a, t), Onward(t, u)
    PROVE  Timely(a, u)
BY DEF Timely, Onward, Between

\* A task returns its target with all blockers back.
Emptied == \A q \in Requests : task[q].phase = "return_target" => task[q].temp = <<>>

\* A completion is due at once, and will be found consistent.
CompletionDue ==
    \A c, d \in completions :
        /\ c = d /\ pc = "handle"
        /\ CanCompleteConsistently(c[2], task[c[2]], stack)

PhaseInv ==
    /\ \A q \in Requests : Known(task[q])
    /\ Emptied /\ HeldAtStation /\ CompletionDue /\ pc # "failed"
    /\ \A e \in BagToSet(events) : Timely(e.act, task[e.request])

\* Every task goes on, and no target comes to or leaves a station.
AllGoOn ==
    /\ UNCHANGED <<status, completions>> /\ pc' # "failed" /\ Active \subseteq Active'
    /\ \A p \in Requests : Onward(task[p], task'[p])

\* The target of a task is back.
Returns(e) == Lays(e) /\ DropTarget(e) /\ e.act.type = "return_target"

\* What has held so far, before a step and what is needed of it after.
Setting ==
    /\ Context /\ PlacesInv /\ LifeInv
    /\ TypeOK' /\ EveryBinInOnePlace' /\ QueueInv'

\* While a completion is due nothing else happens.
LEMMA CompletionFirst ==
    ASSUME CompletionDue, completions # {}, [Next]_vars
    PROVE  UNCHANGED vars \/ \E r \in Robots, q \in Requests : RequestComplete(r, q)
<1>1. ~Ready /\ pc = "handle"
  BY DEF CompletionDue, Ready
<1> QED BY <1>1
    DEF Next, Arrival, Schedule, ScheduleWaiting, ScheduleNew, ScheduleDone, CanScheduleNew,
        RobotEvent, Pickup, HandleDrop, RobotAction, PickstationComplete, RequeueVictim, ForceReplan

\* The strategy is asked, or nobody is: all tasks go on.
LEMMA KindGoesOn ==
    ASSUME Setting, PhaseInv, Active \subseteq Active', Consults \/ LivesGoOn
    PROVE  AllGoOn
<1>1. CASE Consults
  <2>1. /\ TypeOK /\ RemovedAtStation /\ HeldAtStation /\ EveryBinInOnePlace' /\ DistinctTargets'
        /\ \A p \in Requests : Known(task[p])
    BY DEF Setting, Context, LifeInv, PhaseInv, QueueInv
  <2> QED BY <1>1, <2>1, ConsultsProceeds DEF AllGoOn
<1>2. CASE LivesGoOn
  BY <1>2 DEF LivesGoOn, LivesOf, SameLife, Onward, AllGoOn
<1> QED BY <1>1, <1>2

\* The end of a service takes its task on.
LEMMA PickstationCompleteGoesOn ==
    ASSUME TypeOK, QueueInv, NEW p \in Stations, NEW q \in Requests, PickstationComplete(p, q)
    PROVE  AllGoOn
<1>1. /\ task' = [task EXCEPT ![q] = MarkPickstationCompleted(@)]
      /\ UNCHANGED <<status, completions>> /\ pc' # "failed"
  BY DEF PickstationComplete, bins
<1>2. Active' = Active
  BY PickstationCompleteInv
<1>3. \A t \in TaskType : Onward(t, MarkPickstationCompleted(t)) /\ Onward(t, t)
  <2> SUFFICES ASSUME NEW t \in TaskType
               PROVE  Onward(t, MarkPickstationCompleted(t)) /\ Onward(t, t)
    OBVIOUS
  <2> DEFINE u == MarkPickstationCompleted(t)
  <2>1. /\ u.removed = t.removed /\ u.returned = t.returned /\ u.delivered = t.delivered
        /\ u.home = t.home /\ u.served
        /\ u.phase = IF t.phase = "wait_for_pickstation" THEN "restore_blockers" ELSE t.phase
    BY DEF MarkPickstationCompleted, TaskType
  <2> HIDE DEF u
  <2>2. Onward(t, u)
    BY <2>1 DEF Onward, Between
  <2>3. Onward(t, t)
    BY DEF Onward
  <2> QED BY <2>2, <2>3 DEF u
<1>4. \A x \in Requests : /\ task[x] \in TaskType
                          /\ task'[x] = IF x = q THEN MarkPickstationCompleted(task[x]) ELSE task[x]
  BY <1>1 DEF TypeOK
<1> QED BY <1>1, <1>2, <1>3, <1>4 DEF AllGoOn

\* A step completes a request, hands a target over, lays one down on its
\* return, or all tasks go on.
LEMMA StepKinds ==
    ASSUME Setting, PhaseInv, [Next]_vars, requeues' = 0
    PROVE  \/ AllGoOn
           \/ \E e \in BagToSet(events) :
                 HandleDrop(e) /\ Active' = Active /\ (HandsIn(e) \/ Returns(e))
           \/ \E r \in Robots, q \in Requests : RequestComplete(r, q)
<1>1. /\ TypeOK /\ QueueInv /\ EveryBinInOnePlace /\ OneChain /\ Loads /\ LoadsStored
      /\ RemovedAtStation /\ EndedIsDone /\ pc # "failed"
  BY DEF Setting, Context, ChainInv, LifeInv, PhaseInv
<1>2. CASE UNCHANGED vars
  <2>1. UNCHANGED <<task, status, completions, pc>> /\ Active' = Active
    BY <1>2 DEF vars, bins, Active
  <2> QED BY <1>1, <2>1, SameTasksGoOn, KindGoesOn
<1>3. CASE Arrival
  <2>1. UNCHANGED <<task, status, completions>> /\ pc' # "failed"
    BY <1>3 DEF Arrival, bins
  <2> QED BY <1>1, <1>3, <2>1, ArrivalInv, SameTasksGoOn, KindGoesOn
<1>4. ASSUME NEW r \in Robots, NEW q \in Requests, NEW w, StartsTask(r, q, w)
      PROVE  AllGoOn
  <2>1. Active \subseteq Active'
    BY <1>1, <1>4, StartsLife
  <2> QED BY <1>1, <1>4, <2>1, StartsKind, KindGoesOn
<1>5. CASE Schedule
  <2>1. CASE ScheduleDone
    <3>1. Active \subseteq Active'
      BY <1>1, <2>1, ScheduleDoneLife
    <3>2. UNCHANGED <<task, status, completions>> /\ pc' # "failed"
      BY <2>1 DEF ScheduleDone, bins
    <3> QED BY <3>1, <3>2, SameTasksGoOn, KindGoesOn
  <2> QED BY <1>1, <1>4, <1>5, <2>1, WaitingStarts, PendingStarts DEF Schedule
<1>6. ASSUME NEW e \in BagToSet(events), Pickup(e) \/ HandleDrop(e) \/ RobotAction(e)
      PROVE  AllGoOn \/ (HandleDrop(e) /\ Active' = Active /\ (HandsIn(e) \/ Returns(e)))
  <2>1. Active' = Active
    BY <1>1, <1>6, RobotEventMoves
  <2>2. CASE Pickup(e)
    BY <1>1, <2>1, <2>2, PickupKind, KindGoesOn
  <2>3. CASE RobotAction(e)
    BY <1>1, <2>1, <2>3, RobotActionKind, KindGoesOn
  <2>4. CASE HandleDrop(e)
    <3>1. ~Fails(e)
      BY NoReturnFails DEF Setting
    <3>2. Consults \/ LivesGoOn \/ HandsIn(e) \/ Returns(e)
      BY <1>1, <2>1, <2>4, <3>1, HandleDropKind DEF Returns
    <3> QED BY <2>1, <2>4, <3>2, KindGoesOn
  <2> QED BY <1>6, <2>2, <2>3, <2>4
<1>7. ASSUME NEW p \in Stations, NEW q \in Requests, PickstationComplete(p, q)
      PROVE  AllGoOn
  BY <1>1, <1>7, PickstationCompleteGoesOn
<1>8. \A r \in Robots : ~RequeueVictim(r)
  BY <1>1 DEF RequeueVictim, Requeue, TypeOK
<1>9. ASSUME NEW r \in Robots, ForceReplan(r)
      PROVE  AllGoOn
  <2>1. Active' = Active
    BY <1>1, <1>9, ForceReplanControl, StaysInv
  <2> QED BY <1>1, <1>9, <2>1, ForceReplanKind, KindGoesOn
<1> QED BY <1>2, <1>3, <1>5, <1>6, <1>7, <1>8, <1>9 DEF Next, RobotEvent

\* The task whose target e hands over, and that target.
LEMMA HandsInDoes ==
    ASSUME Setting, PhaseInv, NEW e \in BagToSet(events), HandleDrop(e), HandsIn(e)
    PROVE  LET q == e.request
               u == task'[q]
           IN  /\ q \in Active /\ ~task[q].returned /\ completions' = {} /\ pc' # "failed"
               /\ u.phase = "wait_for_pickstation" /\ u.removed /\ u.delivered
               /\ u.home # None /\ u.home = task[q].home /\ ~u.returned
               /\ \A p \in Requests : p # q => task'[p] = task[p]
               /\ \A c \in Bins : c # Target[q] => status'[c] = status[c]
<1> DEFINE r == e.robot
           q == robotTask[r]
           b == e.act.bin
           t == MarkWaitingAtPickstation(
                  AddBatchedRequests(task[q], ToSet(queue.waitlist[Target[q]])))
<1>1. TypeOK /\ QueueInv /\ OneChain /\ Loads /\ EndedIsDone /\ pc # "failed"
  BY DEF Setting, Context, ChainInv, LifeInv, PhaseInv
<1>2. /\ r \in Robots /\ q \in Requests /\ q # None /\ EventOf(r, e) /\ Ready /\ e.request = q
  BY <1>1, HandledDrop
<1>3. b = Target[q] /\ b \in Bins
  BY <1>2, WarehouseAssumption DEF HandsIn, EventOf, TargetTypes
<1>4. /\ task' = [task EXCEPT ![q] = t] /\ completions' = completions /\ pc' = pc
      /\ status' = [status EXCEPT ![b] = "at_pickstation"]
  <2>1. pc' = pc
    BY <1>2, Zenon DEF HandsIn, DropAtPort
  <2> QED BY <1>2, <2>1, DropAtPortBins, DropAtPortOwn DEF HandsIn
<1>5. q \in Active /\ ~task[q].returned
  BY <1>1, <1>2, HeldIsLive DEF Live
<1>6. task[q].home # None
  BY <1>2 DEF PhaseInv, Timely, HandsIn
<1>7. /\ t.phase = "wait_for_pickstation" /\ t.removed /\ t.delivered
      /\ t.home = task[q].home /\ t.returned = task[q].returned
  <2>1. task[q] \in TaskType
    BY <1>1, <1>2 DEF TypeOK
  <2> HIDE DEF q
  <2> QED BY <2>1 DEF MarkWaitingAtPickstation, AddBatchedRequests, TaskType
<1>8. /\ task'[q] = t /\ \A p \in Requests : p # q => task'[p] = task[p]
      /\ \A c \in Bins : c # b => status'[c] = status[c]
  BY <1>1, <1>2, <1>3, <1>4 DEF TypeOK
<1>9. completions' = {} /\ pc' # "failed"
  BY <1>1, <1>2, <1>4 DEF Ready
<1> HIDE DEF t, q, b, r
<1> QED BY <1>2, <1>3, <1>5, <1>6, <1>7, <1>8, <1>9

\* The task whose target e lays down, and why its completion is consistent.
LEMMA ReturnsDoes ==
    ASSUME Setting, PhaseInv, NEW e \in BagToSet(events), HandleDrop(e), Returns(e)
    PROVE  LET q == e.request
               u == task'[q]
           IN  /\ completions' = {<<e.robot, q>>} /\ pc' = "handle"
               /\ u.phase = "complete" /\ u.removed /\ u.delivered /\ u.home # None
               /\ CanCompleteConsistently(q, u, stack')
               /\ \A p \in Requests : p # q => task'[p] = task[p]
               /\ status'[Target[q]] = "stored"
               /\ \A c \in Bins : c # Target[q] => status'[c] = status[c]
<1> DEFINE r == e.robot
           q == robotTask[r]
           b == e.act.bin
           d == e.act.to
           t == MarkTargetReturned([task[q] EXCEPT !.actual = d])
<1>1. /\ TypeOK /\ QueueInv /\ OneChain /\ Loads /\ EveryBinInOnePlace
      /\ e.act.type = "return_target" /\ Lays(e) /\ DropTarget(e)
  BY DEF Setting, Context, ChainInv, Returns
<1>2. /\ r \in Robots /\ q \in Requests /\ q # None /\ EventOf(r, e) /\ Ready /\ e.request = q
      /\ e.act \in PhysicalActions
  BY <1>1, HandledDrop
<1>3. b = Target[q] /\ b \in Bins /\ d \in Stacks /\ d # None
  BY <1>1, <1>2, WarehouseAssumption DEF EventOf, TargetTypes, PhysicalActions
<1>4. /\ task' = [task EXCEPT ![q] = t] /\ completions' = completions \cup {<<r, q>>}
      /\ pc' = IF task[q].removed THEN "handle" ELSE "failed"
  BY <1>1, <1>2 DEF DropTarget
<1>5. /\ task[q] \in TaskType /\ task[q].phase = "return_target" /\ task[q].temp = <<>>
      /\ Known(task[q])
  BY <1>1, <1>2 DEF PhaseInv, Emptied, Timely, TypeOK
<1>6. task[q].removed /\ task[q].delivered /\ task[q].served /\ task[q].home # None
  BY <1>5 DEF Known
<1>7. /\ t.phase = "complete" /\ t.removed /\ t.delivered /\ t.served /\ t.returned
      /\ t.home = task[q].home /\ t.temp = <<>> /\ t.actual = d
  <2> HIDE DEF q, d
  <2> QED BY <1>3, <1>5, <1>6 DEF MarkTargetReturned, TaskType
<1>8. task'[q] = t /\ \A p \in Requests : p # q => task'[p] = task[p]
  BY <1>1, <1>2, <1>4 DEF TypeOK
<1>9. status'[b] = "stored" /\ \A c \in Bins : c # b => status'[c] = status[c]
  BY <1>1, PutDownStatus
<1>10. StackOf(stack', b) = d
  <2>1. Holds(stack', d, b)
    BY <1>1, <1>2, <1>3, LaidStacks DEF Lays
  <2>2. StackOf(stack', b) \in Stacks /\ Holds(stack', StackOf(stack', b), b)
    BY <1>3, <2>1, StackOfType, WarehouseAssumption
  <2> HIDE DEF d, b
  <2> QED BY <1>3, <2>1, <2>2 DEF Setting, EveryBinInOnePlace, Holds
<1>11. completions' = {<<r, q>>} /\ pc' = "handle"
  BY <1>2, <1>4, <1>6 DEF Ready
<1> HIDE DEF t, q, b, d
<1>12. CanCompleteConsistently(q, t, stack')
  BY <1>3, <1>7, <1>10 DEF CanCompleteConsistently, ReturnStack
<1> QED BY <1>2, <1>3, <1>6, <1>7, <1>8, <1>9, <1>11, <1>12

\* The completion that is due is consistent.
LEMMA RequestCompleteDoes ==
    ASSUME Setting, PhaseInv, NEW r \in Robots, NEW q \in Requests, RequestComplete(r, q)
    PROVE  /\ UNCHANGED <<task, status, events>> /\ completions' = {} /\ pc' # "failed"
           /\ task[q].returned /\ Active \ {q} \subseteq Active'
<1>1. TypeOK /\ QueueInv
  BY DEF Setting, Context
<1>2. UNCHANGED <<task, status, events>> /\ <<r, q>> \in completions
  BY DEF RequestComplete, bins
<1>3. robotTask[r] = q
  BY <1>1, <1>2 DEF QueueInv, CompletionsHeld
<1>4. /\ \A c \in completions : c = <<r, q>>
      /\ CanCompleteConsistently(q, task[q], stack)
  BY <1>2 DEF PhaseInv, CompletionDue
<1>5. completions' = {} /\ pc' = "schedule" /\ task[q].returned
  BY <1>3, <1>4 DEF RequestComplete, CanCompleteConsistently
<1> QED BY <1>1, <1>2, <1>5, RequestCompleteInv

\* The parts that speak of tasks and completions.
LEMMA PhasesStep ==
    ASSUME Setting, PhaseInv, [Next]_vars, requeues' = 0
    PROVE  /\ \A q \in Requests : Known(task'[q])
           /\ HeldAtStation' /\ CompletionDue' /\ pc' # "failed"
<1>1. CASE AllGoOn
  <2>1. \A q \in Requests : Known(task'[q])
    BY <1>1, OnwardKnown DEF AllGoOn, PhaseInv
  <2>2. HeldAtStation'
    <3> SUFFICES ASSUME NEW b \in Bins, status'[b] = "at_pickstation"
                 PROVE  \E q \in Active' : Target[q] = b /\ task'[q].removed /\ ~task'[q].returned
      BY DEF HeldAtStation
    <3>1. PICK q \in Active : Target[q] = b /\ task[q].removed /\ ~task[q].returned
      BY <1>1 DEF AllGoOn, PhaseInv, HeldAtStation
    <3>2. q \in Requests
      BY DEF Active, Assigned, ToSet, Setting, Context, TypeOK, QueueType
    <3> QED BY <1>1, <3>1, <3>2 DEF AllGoOn, Onward
  <2>3. CompletionDue'
    <3>1. CASE completions = {}
      BY <1>1, <3>1 DEF AllGoOn, CompletionDue
    <3>2. CASE UNCHANGED vars
      BY <3>2 DEF vars, bins, PhaseInv, CompletionDue
    <3>3. ASSUME NEW r \in Robots, NEW q \in Requests, RequestComplete(r, q)
          PROVE  CompletionDue'
      BY <3>3, RequestCompleteDoes DEF CompletionDue
    <3> QED BY <3>1, <3>2, <3>3, CompletionFirst DEF PhaseInv
  <2> QED BY <1>1, <2>1, <2>2, <2>3 DEF AllGoOn
<1>2. ASSUME NEW e \in BagToSet(events), HandleDrop(e), Active' = Active, HandsIn(e)
      PROVE  /\ \A q \in Requests : Known(task'[q])
             /\ HeldAtStation' /\ CompletionDue' /\ pc' # "failed"
  <2> DEFINE q == e.request
             u == task'[q]
  <2>1. /\ q \in Active /\ ~task[q].returned /\ completions' = {} /\ pc' # "failed"
        /\ u.phase = "wait_for_pickstation" /\ u.removed /\ u.delivered
        /\ u.home # None /\ ~u.returned
        /\ \A p \in Requests : p # q => task'[p] = task[p]
        /\ \A c \in Bins : c # Target[q] => status'[c] = status[c]
    BY <1>2, HandsInDoes
  <2> HIDE DEF q
  <2>2. \A p \in Requests : Known(task'[p])
    BY <2>1 DEF Known, PhaseInv
  <2>3. HeldAtStation'
    <3> SUFFICES ASSUME NEW b \in Bins, status'[b] = "at_pickstation"
                 PROVE  \E p \in Active : Target[p] = b /\ task'[p].removed /\ ~task'[p].returned
      BY <1>2 DEF HeldAtStation
    <3>1. CASE b = Target[q]
      BY <2>1, <3>1
    <3>2. CASE b # Target[q]
      <4>1. PICK p \in Active : Target[p] = b /\ task[p].removed /\ ~task[p].returned
        BY <2>1, <3>2 DEF PhaseInv, HeldAtStation
      <4>2. p \in Requests
        BY DEF Active, Assigned, ToSet, Setting, Context, TypeOK, QueueType
      <4> QED BY <2>1, <3>2, <4>1, <4>2
    <3> QED BY <3>1, <3>2
  <2>4. CompletionDue'
    BY <2>1 DEF CompletionDue
  <2> QED BY <2>1, <2>2, <2>3, <2>4
<1>3. ASSUME NEW e \in BagToSet(events), HandleDrop(e), Active' = Active, Returns(e)
      PROVE  /\ \A q \in Requests : Known(task'[q])
             /\ HeldAtStation' /\ CompletionDue' /\ pc' # "failed"
  <2> DEFINE q == e.request
             u == task'[q]
  <2>1. /\ completions' = {<<e.robot, q>>} /\ pc' = "handle"
        /\ u.phase = "complete" /\ u.removed /\ u.delivered /\ u.home # None
        /\ CanCompleteConsistently(q, u, stack')
        /\ \A p \in Requests : p # q => task'[p] = task[p]
        /\ status'[Target[q]] = "stored"
        /\ \A c \in Bins : c # Target[q] => status'[c] = status[c]
    BY <1>3, ReturnsDoes
  <2> HIDE DEF q
  <2>2. \A p \in Requests : Known(task'[p])
    BY <2>1 DEF Known, PhaseInv
  <2>3. HeldAtStation'
    <3> SUFFICES ASSUME NEW b \in Bins, status'[b] = "at_pickstation"
                 PROVE  \E p \in Active : Target[p] = b /\ task'[p].removed /\ ~task'[p].returned
      BY <1>3 DEF HeldAtStation
    <3>1. b # Target[q]
      BY <2>1
    <3>2. PICK p \in Active : Target[p] = b /\ task[p].removed /\ ~task[p].returned
      BY <2>1, <3>1 DEF PhaseInv, HeldAtStation
    <3>3. p \in Requests
      BY DEF Active, Assigned, ToSet, Setting, Context, TypeOK, QueueType
    <3> QED BY <2>1, <3>1, <3>2, <3>3
  <2>4. CompletionDue'
    BY <2>1 DEF CompletionDue
  <2> QED BY <2>1, <2>2, <2>3, <2>4
<1>4. ASSUME NEW r \in Robots, NEW q \in Requests, RequestComplete(r, q)
      PROVE  /\ \A p \in Requests : Known(task'[p])
             /\ HeldAtStation' /\ CompletionDue' /\ pc' # "failed"
  <2>1. /\ UNCHANGED <<task, status>> /\ completions' = {} /\ pc' # "failed"
        /\ task[q].returned /\ Active \ {q} \subseteq Active'
    BY <1>4, RequestCompleteDoes
  <2>2. HeldAtStation'
    BY <2>1 DEF PhaseInv, HeldAtStation
  <2> QED BY <2>1, <2>2 DEF PhaseInv, CompletionDue
<1> QED BY <1>1, <1>2, <1>3, <1>4, StepKinds

\* A task without places has no entries.
LEMMA NoPlaces ==
    ASSUME NEW t \in TaskType
    PROVE  t.temp = <<>> <=> Places(t) = {}
<1>1. t.temp \in Seq(Relocation)
  BY DEF TaskType
<1>2. t.temp = <<>> <=> DOMAIN t.temp = {}
  <2>1. DOMAIN t.temp = 1 .. Len(t.temp) /\ Len(t.temp) \in Nat
    BY <1>1, LenProperties
  <2>2. t.temp = <<>> <=> Len(t.temp) = 0
    BY <1>1, EmptySeq
  <2> QED BY <2>1, <2>2
<1> QED BY <1>2 DEF Places

\* No task that returns its target relocates anything.
LEMMA EmptiedStep ==
    ASSUME Setting, PhaseInv, [Next]_vars, requeues' = 0
    PROVE  Emptied'
<1> SUFFICES ASSUME NEW q \in Requests, task'[q].phase = "return_target"
             PROVE  task'[q].temp = <<>>
  BY DEF Emptied
<1>1. TypeOK /\ TypeOK' /\ OneChain /\ Loads /\ task[q] \in TaskType /\ task'[q] \in TaskType
  BY DEF Setting, Context, ChainInv, TypeOK
<1>2. CASE task[q].phase = "return_target"
  <2>1. Places(task[q]) = {}
    BY <1>1, <1>2, NoPlaces DEF PhaseInv, Emptied
  <2>2. ASSUME NEW e \in BagToSet(events), DigsOut(e), robotTask[e.robot] = q
        PROVE  FALSE
    <3>1. e.request = q /\ e.act.type = "relocate"
      BY <1>1, <2>2, HandledDrop DEF DigsOut
    <3> QED BY <1>2, <3>1 DEF PhaseInv, Timely
  <2>3. \A b, s : <<b, s>> \notin Places(task'[q])
    BY <1>1, <2>1, <2>2, PlaceGrows, ClaimSteps
  <2>4. Places(task'[q]) = {}
    BY <2>3 DEF Places
  <2> QED BY <1>1, <2>4, NoPlaces
<1>3. CASE task[q].phase # "return_target"
  <2>1. CASE AllGoOn
    BY <1>3, <2>1 DEF AllGoOn, Onward
  <2>2. ASSUME NEW e \in BagToSet(events), HandleDrop(e), HandsIn(e) \/ Returns(e)
        PROVE  task'[q].phase # "return_target"
    BY <1>3, <2>2, HandsInDoes, ReturnsDoes
  <2>3. ASSUME NEW r \in Robots, NEW p \in Requests, RequestComplete(r, p)
        PROVE  task'[q].phase # "return_target"
    BY <1>3, <2>3, RequestCompleteDoes
  <2> QED BY <2>1, <2>2, <2>3, StepKinds
<1> QED BY <1>2, <1>3

\* Every event after a step is for an action that fits the phase of its task.
LEMMA TimelyStep ==
    ASSUME Setting, PhaseInv, [Next]_vars, requeues' = 0, NEW f \in BagToSet(events')
    PROVE  Timely(f.act, task'[f.request])
<1>1. TypeOK /\ QueueInv /\ OneChain /\ Loads /\ RelocatedOnce
  BY DEF Setting, Context, ChainInv
<1>2. EventStep
  BY <1>1, NoReturnFails, EventSteps DEF Setting
<1>3. CASE f.act \in FetchActions
  BY <1>3 DEF Timely, FetchActions
<1>4. CASE Fresh(f)
  BY <1>4, NextActionTimely DEF Fresh, Seen
<1>5. ASSUME NEW e \in BagToSet(events), Kept(f, e)
      PROVE  Timely(f.act, task'[f.request])
  <2> DEFINE q == e.request
  <2>1. /\ f.request = q /\ f.act.type = e.act.type /\ q \in Requests
        /\ e.robot \in Robots /\ EventOf(e.robot, e) /\ Timely(e.act, task[q])
    BY <1>1, <1>5, EventFields, HandledEvent DEF Kept, PhaseInv
  <2>2. Timely(f.act, task[q])
    BY <2>1 DEF Timely
  <2>3. ASSUME NEW g \in BagToSet(events), HandleDrop(g), g.request = q
        PROVE  g = e
    <3>1. g.robot \in Robots /\ g.request = robotTask[g.robot] /\ robotTask[g.robot] # None
      BY <1>1, <2>3, HandledDrop
    <3>2. robotTask[e.robot] = q
      BY <2>1 DEF EventOf
    <3>3. g.robot = e.robot
      BY <1>1, <2>1, <2>3, <3>1, <3>2, HeldTask
    <3> QED BY <2>1, <3>3 DEF EventOf, Only
  <2> HIDE DEF q
  <2>4. CASE AllGoOn
    BY <2>1, <2>2, <2>4, OnwardTimely DEF AllGoOn
  <2>5. ASSUME NEW g \in BagToSet(events), HandleDrop(g), HandsIn(g)
        PROVE  Timely(f.act, task'[q])
    <3>1. CASE g.request = q
      <4>1. f.act.type = "remove_target"
        BY <2>1, <2>3, <2>5, <3>1 DEF HandsIn
      <4>2. task'[q].home # None
        BY <2>5, <3>1, HandsInDoes
      <4> QED BY <4>1, <4>2 DEF Timely
    <3>2. CASE g.request # q
      <4>1. task'[q] = task[q]
        BY <2>1, <2>5, <3>2, HandsInDoes
      <4> QED BY <2>2, <4>1
    <3> QED BY <3>1, <3>2
  <2>6. ASSUME NEW g \in BagToSet(events), HandleDrop(g), Returns(g)
        PROVE  Timely(f.act, task'[q])
    <3>1. g.request # q
      BY <1>5, <2>3, <2>6 DEF Kept, Returns, Lays
    <3>2. task'[q] = task[q]
      BY <2>1, <2>6, <3>1, ReturnsDoes
    <3> QED BY <2>2, <3>2
  <2>7. ASSUME NEW r \in Robots, NEW p \in Requests, RequestComplete(r, p)
        PROVE  Timely(f.act, task'[q])
    BY <2>2, <2>7, RequestCompleteDoes
  <2> QED BY <2>1, <2>4, <2>5, <2>6, <2>7, StepKinds
<1> QED BY <1>1, <1>2, <1>3, <1>4, <1>5, EventsKept

\* Until the first recovery, and as long as no task relocates a bin twice.
LEMMA PhaseInvariant ==
    Spec /\ []RelocatedOnce => [](requeues = 0 => PhaseInv)
<1>1. Init => (requeues = 0 => PhaseInv)
  <2> SUFFICES ASSUME Init PROVE PhaseInv
    OBVIOUS
  <2>1. \A q \in Requests : task[q] = NewTask
    BY DEF Init
  <2>2. BagToSet(events) = {}
    BY DEF Init, EmptyBag, SetToBag, BagToSet
  <2>3. (\A q \in Requests : Known(task[q])) /\ Emptied
    BY <2>1 DEF Known, NewTask, Emptied
  <2>4. HeldAtStation /\ CompletionDue /\ pc # "failed"
    BY DEF Init, HeldAtStation, CompletionDue
  <2> QED BY <2>2, <2>3, <2>4 DEF PhaseInv
<1>2. /\ TypeOK /\ TypeOK' /\ EveryBinInOnePlace /\ EveryBinInOnePlace' /\ QueueInv /\ QueueInv'
      /\ (requeues = 0 => ChainInv) /\ (requeues = 0 => LifeInv)
      /\ Remembered(task, queue.owner) /\ RelocatedOnce
      /\ (requeues = 0 => OwnersInv) /\ (requeues = 0 => PlacesInv)
      /\ (requeues = 0 => PhaseInv) /\ [Next]_vars
      => (requeues = 0 => PhaseInv)'
  <2> SUFFICES ASSUME TypeOK, TypeOK', EveryBinInOnePlace, EveryBinInOnePlace', QueueInv, QueueInv',
                      requeues = 0 => ChainInv, requeues = 0 => LifeInv,
                      Remembered(task, queue.owner), RelocatedOnce,
                      requeues = 0 => OwnersInv, requeues = 0 => PlacesInv,
                      requeues = 0 => PhaseInv, [Next]_vars, requeues' = 0
               PROVE  PhaseInv'
    OBVIOUS
  <2>1. requeues = 0
    BY RecoveriesCounted
  <2>2. Setting /\ PhaseInv
    BY <2>1 DEF Setting, Context
  <2>3. \A f \in BagToSet(events') : Timely(f.act, task'[f.request])
    BY <2>2, TimelyStep
  <2>4. /\ \A q \in Requests : Known(task'[q])
        /\ Emptied' /\ HeldAtStation' /\ CompletionDue' /\ pc' # "failed"
    BY <2>2, PhasesStep, EmptiedStep
  <2> QED BY <2>3, <2>4 DEF PhaseInv
<1> QED BY <1>1, <1>2, TypeCorrect, BinsConserved, QueueInvariant, ChainInvariant, LifeInvariant,
           RememberedInvariant, OwnersInvariant, PlacesInvariant, PTL DEF Spec

\* Until the first recovery, and as long as no task relocates a bin twice, no
\* consistency check raises, although each tests what events long past have
\* left behind: the strategy finds a target where its phase says it is
\* (top_access_strategy.py), a blocker goes back from where it was and to where
\* the task says (mark_last_relocation_restored in robot_task.py), a target
\* comes to a port and back with the task that removed it, and a REQUEST_COMPLETE
\* finds its robot, its task and its bin as they must be (event_handler.py).
THEOREM NoRuntimeErrors ==
    Spec /\ []RelocatedOnce => [](requeues = 0 => NoRuntimeError)
<1>1. (requeues = 0 => PhaseInv) => (requeues = 0 => NoRuntimeError)
  BY DEF PhaseInv, NoRuntimeError
<1> QED BY <1>1, PhaseInvariant, PTL

=============================================================================
