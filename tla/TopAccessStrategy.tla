-------------------------- MODULE TopAccessStrategy --------------------------
(***************************************************************************)
(* strategies/top_access_strategy.py with the two selectors it calls: what *)
(* a task does next.  next_action does more than compute: it may advance   *)
(* the phase, reorder or clear temp_storage, release blocker ownership and *)
(* fix the return stack.  NextAction therefore yields the set of possible  *)
(* outcomes [task, queue, act]; the set has several members where a        *)
(* selector picks one stack among the admissible ones (by distance, cost,  *)
(* popularity or at random).                                               *)
(***************************************************************************)
EXTENDS ActiveQueue

CONSTANTS
    ReturnBlockingBins,   \* config.return_blocking_bins
    OriginalPlacement,    \* config.placement_strategy = "ORIGINAL"
    Lofi                  \* config.reordering_strategy = "LOFI"

ASSUME StrategyAssumption ==
    {ReturnBlockingBins, OriginalPlacement, Lofi} \subseteq BOOLEAN

\* A snapshot of what the strategy reads:
\*   w.task   the tasks        w.queue   the active queue
\*   w.stack  the stacks       w.station, w.moving: the sets of bins with
\*   status at_pickstation and with in_transit set.
Outcome(t, aq, a) == [task |-> t, queue |-> aq, act |-> a]

\* A selector without a candidate raises.
OrNoStack(t, aq, outcomes) ==
    IF outcomes = {} THEN {Outcome(t, aq, NoStack)} ELSE outcomes

----------------------------------------------------------------------------
(* Selectors *)

\* RelocationSelection: not the source, not full, and not critical: no stack
\* with a reserved bin, none that waits for its blockers.
RelocationStacks(w, source) ==
    {s \in Stacks \ {source} :
        /\ HasCapacity(w.stack, s)
        /\ ToSet(w.stack[s]) \cap Reserved(w.queue) = {}
        /\ s \notin PendingRestoreStacks(w.queue, w.task)}

\* PlacementSelector: the home stack, or any stack below the height limit
\* without an owned blocker.
ReturnStacks(w, aq, home) ==
    IF OriginalPlacement
    THEN {s \in Stacks : s = home /\ HasCapacity(w.stack, s)}
    ELSE {s \in Stacks : /\ HasCapacity(w.stack, s)
                         /\ ToSet(w.stack[s]) \cap Owned(aq) = {}}

----------------------------------------------------------------------------
(* The phases *)

NextReturnTarget(w, q, t, aq) ==
    LET b == Target[q] IN
    IF t.home = None
    THEN {Outcome(t, aq, Raise)}
    ELSE IF b \notin w.station
    THEN IF ReturnStack(t) = StackOf(w.stack, b) /\ t.removed
         THEN {Outcome(MarkTargetReturned(t), aq,
                       Action("request_complete", b, None, None))}
         ELSE {Outcome(t, aq, Raise)}
    ELSE OrNoStack(t, aq,
            {Outcome([t EXCEPT !.actual = s], aq,
                     Action("return_target", b, None, s)) :
                s \in ReturnStacks(w, aq, t.home)})

\* All blockers are back: go on with the target once the station is done.
AfterRestore(w, q, t, aq) ==
    IF t.served
    THEN NextReturnTarget(w, q, [t EXCEPT !.phase = "return_target"], aq)
    ELSE {Outcome([t EXCEPT !.phase = "wait_for_pickstation"], aq, NoAction)}

\* reorder_blockers_for_return: LOFI keeps the order of relocation; the class
\* and popularity orders are left open.
Reorderings(t) ==
    IF t.reordered \/ t.temp = <<>> THEN {t}
    ELSE IF Lofi THEN {[t EXCEPT !.reordered = TRUE]}
    ELSE {[t EXCEPT !.temp = [i \in DOMAIN @ |-> @[f[i]]], !.reordered = TRUE] :
             f \in Bijection(DOMAIN t.temp, DOMAIN t.temp)}

Buried(w, reloc) ==
    /\ Holds(w.stack, reloc.buffer, reloc.bin)
    /\ ~OnTop(w.stack, reloc.buffer, reloc.bin)

\* _next_unbury_action: the foreign bin on top of the blocker goes elsewhere.
Unbury(w, t, aq, reloc) ==
    {Outcome(t, aq, Action("unbury", Top(w.stack[reloc.buffer]), reloc.buffer, s)) :
        s \in RelocationStacks(w, reloc.buffer)}

\* The blocker goes back to its origin, or elsewhere when the origin is full.
RestoreBlocker(w, t, aq, reloc) ==
    IF HasCapacity(w.stack, reloc.from)
    THEN {Outcome(t, aq, Action("return_blocker", reloc.bin, reloc.buffer, reloc.from))}
    ELSE {Outcome(UpdateReturnStack(t, reloc.bin, s), aq,
                  Action("return_blocker", reloc.bin, reloc.buffer, s)) :
             s \in RelocationStacks(w, reloc.from)}

NextRestoreBlockers(w, q, t, aq) ==
    IF ~ReturnBlockingBins
    THEN AfterRestore(w, q, [t EXCEPT !.temp = <<>>, !.reordered = TRUE],
                      ReleaseOwnBlockers(aq, q, t))
    ELSE IF t.temp = <<>>
    THEN AfterRestore(w, q, t, aq)
    ELSE UNION {LET reloc == PeekLastRelocation(t2) IN
                OrNoStack(t2, aq,
                    IF Buried(w, reloc) THEN Unbury(w, t2, aq, reloc)
                                        ELSE RestoreBlocker(w, t2, aq, reloc)) :
                t2 \in Reorderings(t)}

NextRetrieveTarget(w, q, t, aq) ==
    LET b == Target[q]
        s == StackOf(w.stack, b)
    IN
    IF s = None
    THEN IF b \in w.station
         THEN NextRestoreBlockers(w, q,
                [t EXCEPT !.removed = TRUE, !.delivered = TRUE,
                          !.phase = "restore_blockers"], aq)
         ELSE {Outcome(t, aq, IF b \in w.moving THEN NoAction ELSE Raise)}
    ELSE LET t2 == IF t.home = None THEN [t EXCEPT !.home = s] ELSE t IN
         IF OnTop(w.stack, s, b)
         THEN {Outcome(t2, aq, Action("remove_target", b, s, None))}
         ELSE OrNoStack(t2, aq,
                {Outcome(t2, aq, Action("relocate", Top(w.stack[s]), s, d)) :
                    d \in RelocationStacks(w, s)})

NextAction(w, q) ==
    LET t == w.task[q] IN
    CASE t.phase = "retrieve_target"      -> NextRetrieveTarget(w, q, t, w.queue)
      [] t.phase = "restore_blockers"     -> NextRestoreBlockers(w, q, t, w.queue)
      [] t.phase = "return_target"        -> NextReturnTarget(w, q, t, w.queue)
      [] t.phase = "wait_for_pickstation" -> {Outcome(t, w.queue, NoAction)}
      [] t.phase = "complete"             -> {Outcome(t, w.queue, NoAction)}
=============================================================================
