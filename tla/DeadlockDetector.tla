-------------------------- MODULE DeadlockDetector --------------------------
(***************************************************************************)
(* traffic/deadlock_detector.py: who waits for whom, the search for a      *)
(* cycle, and the choice of the robot that gives way.  A robot waits for   *)
(* at most one other, so the wait graph is a function; the order in which  *)
(* the dictionary of the code holds its entries is a parameter.            *)
(***************************************************************************)
EXTENDS Integers, Sequences, FiniteSets, SequencesExt

CONSTANTS
    Robots,     \* ids, integers: the code compares them, and tests them for truth
    None

WaitGraphs == [Robots -> Robots \cup {None}]

\* register_wait and clear_wait.
RegisterWait(g, r, blocker) == [g EXCEPT ![r] = blocker]
ClearWait(g, r) == [g EXCEPT ![r] = None]

\* The orders the entries may have been made in.
EntryOrders(g) == SetToSeqs({r \in DOMAIN g : g[r] # None})

\* (mutant) Only a cycle that the first robot itself is part of is seen.
DfsCycleOfStart(g, start, visited) ==
    LET walk[n \in 0 .. Cardinality(DOMAIN g)] ==
            IF n = 0 THEN [path |-> <<>>, node |-> start]
            ELSE LET w == walk[n - 1] IN
                 IF w.node = None \/ w.node \in visited \cup ToSet(w.path)
                 THEN w
                 ELSE [path |-> Append(w.path, w.node), node |-> g[w.node]]
        end == walk[Cardinality(DOMAIN g)]
    IN  [visited |-> visited \cup ToSet(end.path),
         cycle   |-> IF end.node = start THEN end.path ELSE <<>>]

\* _dfs_cycle: from start along the edges, until the path meets itself, a
\* robot visited by an earlier search, or a robot that does not wait.
DfsCycle(g, start, visited) ==
    LET walk[n \in 0 .. Cardinality(DOMAIN g)] ==
            IF n = 0 THEN [path |-> <<>>, node |-> start]
            ELSE LET w == walk[n - 1] IN
                 IF w.node = None \/ w.node \in visited \cup ToSet(w.path)
                 THEN w
                 ELSE [path |-> Append(w.path, w.node), node |-> g[w.node]]
        end == walk[Cardinality(DOMAIN g)]
    IN  [visited |-> visited \cup ToSet(end.path),
         cycle   |-> IF Contains(end.path, end.node)
                     THEN SubSeq(end.path,
                                 SelectInSeq(end.path, LAMBDA r : r = end.node),
                                 Len(end.path))
                     ELSE <<>>]

\* detect_cycle: a search from every entry that no earlier one has visited;
\* the first cycle found, or <<>>.
DetectCycle(g, order) ==
    FoldLeft(LAMBDA s, start : IF s.cycle # <<>> \/ start \in s.visited
                               THEN s ELSE DfsCycle(g, start, s.visited),
             [visited |-> {}, cycle |-> <<>>],
             order).cycle

\* _resolve_lowest_priority: a robot without a task comes before all with one,
\* the highest id first.  The priorities of the tasks are left open.
Victims(cycle, taskless) ==
    LET free == ToSet(cycle) \cap taskless IN
    IF free = {} THEN ToSet(cycle) ELSE {r \in free : \A s \in free : s <= r}

----------------------------------------------------------------------------
(* What the search should find *)

\* The robots that r waits for, at once or through others.
WaitsFor(g, r) ==
    LET reach[n \in 1 .. Cardinality(DOMAIN g)] ==
            IF n = 1 THEN {g[r]} \ {None}
            ELSE LET known == reach[n - 1] IN known \cup ({g[s] : s \in known} \ {None})
    IN reach[Cardinality(DOMAIN g)]

\* The search finds a cycle if and only if there is one, whatever the order of
\* the entries, and every robot in it waits for the next one, the last for the
\* first.
SearchIsExact(g) ==
    LET circular == \E r \in DOMAIN g : r \in WaitsFor(g, r) IN
    \A order \in EntryOrders(g) :
        LET cycle == DetectCycle(g, order) IN
        /\ (cycle # <<>>) <=> circular
        /\ \A i \in DOMAIN cycle : g[cycle[i]] = cycle[(i % Len(cycle)) + 1]

=============================================================================
