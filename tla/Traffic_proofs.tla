---------------------------- MODULE Traffic_proofs ----------------------------
(***************************************************************************)
(* Four invariants of Traffic, for every grid, every number of robots and  *)
(* ports, and every bound: OneRobotPerCell, PortPresence, PathHasMove and  *)
(* PathsAreWalks.                                                          *)
(*                                                                         *)
(* The handlers are long chains of small steps (evade, park, replan, ...)  *)
(* that call one another.  What all of them keep is the relation Step      *)
(* between the plan before and after; a lemma for each of them says so,    *)
(* and StepsAdd composes them.  The invariant Holds adds what a move needs. *)
(***************************************************************************)
EXTENDS Traffic, TLAPS

----------------------------------------------------------------------------
(* Walks *)

\* A path that leads on from c, a step or a wait at a time.

WalkFrom(c, path) ==
    /\ path \in Seq(Cells)
    /\ \A i \in DOMAIN path : Distance(path[i], IF i = 1 THEN c ELSE path[i - 1]) <= 1

\* The coordinates of a cell are integers.
LEMMA CellsAreIntegers == \A c \in Cells : c[1] \in Int /\ c[2] \in Int
  BY TrafficAssumption DEF Cells

\* The distance of two cells is an integer and the same both ways.
LEMMA DistanceSymmetric ==
    ASSUME NEW a \in Cells, NEW b \in Cells
    PROVE  Distance(a, b) = Distance(b, a) /\ Distance(a, b) \in Int
  BY CellsAreIntegers DEF Distance, Abs

\* The ways over the grid are walks.
LEMMA WaysWalk ==
    ASSUME NEW n \in 1 .. MaxPath, NEW from \in Cells, NEW to \in Cells,
           NEW path \in Ways[n][<<from, to>>]
    PROVE  path # <<>> /\ WalkFrom(from, path)
<1>1. /\ path \in [1 .. n -> Cells]
      /\ \A i \in 1 .. n : Distance(At(path, from, i - 1), path[i]) <= 1
  BY DEF Ways
<1>2. path \in Seq(Cells) /\ DOMAIN path = 1 .. n /\ path # <<>>
  BY <1>1, TrafficAssumption
<1>3. ASSUME NEW i \in 1 .. n
      PROVE  Distance(path[i], IF i = 1 THEN from ELSE path[i - 1]) <= 1
  <2>1. At(path, from, i - 1) = IF i = 1 THEN from ELSE path[i - 1]
    BY TrafficAssumption DEF At
  <2>2. At(path, from, i - 1) \in Cells /\ path[i] \in Cells
    BY <1>1, <2>1, TrafficAssumption
  <2> QED BY <1>1, <2>1, <2>2, DistanceSymmetric
<1> QED BY <1>2, <1>3 DEF WalkFrom

\* What find_path returns is a walk from the start.
LEMMA FoundPathWalks ==
    ASSUME NEW held, NEW r, NEW from \in Cells, NEW to \in Cells, NEW start, NEW blocked,
           NEW path \in FindPath(held, r, from, to, start, blocked)
    PROVE  path # <<>> /\ WalkFrom(from, path)
  BY WaysWalk DEF FindPath

\* The n integers of B lead from a to b, one by one.
Leads(B, n, a, b) ==
    /\ DOMAIN B = 1 .. n
    /\ \A i \in 1 .. n :
          /\ B[i] \in Int
          /\ \/ a <= B[i] /\ B[i] <= b
             \/ b <= B[i] /\ B[i] <= a
          /\ Abs(B[i] - (IF i = 1 THEN a ELSE B[i - 1])) <= 1
    /\ n > 0 => B[n] = b
    /\ n = 0 => a = b

\* Between goes from a to b in steps of one.
LEMMA BetweenLeads ==
    ASSUME NEW a \in Int, NEW b \in Int
    PROVE  \E n \in Nat : Leads(Between(a, b), n, a, b)
<1>1. CASE a <= b
  <2>1. Between(a, b) = [i \in 1 .. b - a |-> a + i] /\ b - a \in Nat
    BY <1>1 DEF Between
  <2>2. ASSUME NEW i \in 1 .. b - a
        PROVE  /\ Between(a, b)[i] = a + i
               /\ i # 1 => Between(a, b)[i - 1] = a + i - 1
    BY <2>1
  <2>3. DOMAIN Between(a, b) = 1 .. b - a
    BY <2>1
  <2>4. ASSUME NEW i \in 1 .. b - a
        PROVE  /\ Between(a, b)[i] \in Int
               /\ a <= Between(a, b)[i] /\ Between(a, b)[i] <= b
               /\ Abs(Between(a, b)[i] - (IF i = 1 THEN a ELSE Between(a, b)[i - 1])) <= 1
    BY <2>2 DEF Abs
  <2>5. b - a > 0 => Between(a, b)[b - a] = b
    BY <2>2
  <2>6. Leads(Between(a, b), b - a, a, b)
    BY <2>3, <2>4, <2>5 DEF Leads
  <2> QED BY <2>1, <2>6
<1>2. CASE ~(a <= b)
  <2>1. Between(a, b) = [i \in 1 .. a - b |-> a - i] /\ a - b \in Nat
    BY <1>2 DEF Between
  <2>2. ASSUME NEW i \in 1 .. a - b
        PROVE  /\ Between(a, b)[i] = a - i
               /\ i # 1 => Between(a, b)[i - 1] = a - i + 1
    BY <2>1
  <2>3. DOMAIN Between(a, b) = 1 .. a - b
    BY <2>1
  <2>4. ASSUME NEW i \in 1 .. a - b
        PROVE  /\ Between(a, b)[i] \in Int
               /\ b <= Between(a, b)[i] /\ Between(a, b)[i] <= a
               /\ Abs(Between(a, b)[i] - (IF i = 1 THEN a ELSE Between(a, b)[i - 1])) <= 1
    BY <2>2 DEF Abs
  <2>5. a - b > 0 => Between(a, b)[a - b] = b
    BY <2>2
  <2>6. Leads(Between(a, b), a - b, a, b)
    BY <1>2, <2>3, <2>4, <2>5 DEF Leads
  <2> QED BY <2>1, <2>6
<1> QED BY <1>1, <1>2

\* The fallback path is a walk from the start.
LEMMA ManhattanWalks ==
    ASSUME NEW from \in Cells, NEW to \in Cells
    PROVE  WalkFrom(from, ManhattanPath(from, to))
<1> DEFINE X == Between(from[1], to[1])
           Y == Between(from[2], to[2])
           s == [i \in DOMAIN X |-> <<X[i], from[2]>>]
           t == [i \in DOMAIN Y |-> <<to[1], Y[i]>>]
           p == s \o t
<1>1. /\ from[1] \in 0 .. Width - 1 /\ from[2] \in 0 .. Depth - 1
      /\ to[1] \in 0 .. Width - 1 /\ to[2] \in 0 .. Depth - 1
      /\ from = <<from[1], from[2]>> /\ Width \in Nat /\ Depth \in Nat
  BY TrafficAssumption DEF Cells
<1>0. from[1] \in Int /\ from[2] \in Int /\ to[1] \in Int /\ to[2] \in Int
  BY CellsAreIntegers
<1>2. PICK m \in Nat : Leads(X, m, from[1], to[1])
  BY <1>0, BetweenLeads
<1>3. PICK n \in Nat : Leads(Y, n, from[2], to[2])
  BY <1>0, BetweenLeads
<1> HIDE DEF X, Y
<1>4. s \in Seq(Cells) /\ Len(s) = m
  <2>1. \A i \in 1 .. m : <<X[i], from[2]>> \in Cells
    <3> SUFFICES ASSUME NEW i \in 1 .. m PROVE X[i] \in 0 .. Width - 1
      BY <1>1 DEF Cells
    <3>1. /\ X[i] \in Int
          /\ \/ from[1] <= X[i] /\ X[i] <= to[1]
             \/ to[1] <= X[i] /\ X[i] <= from[1]
      BY <1>2 DEF Leads
    <3> QED BY <1>1, <3>1
  <2>2. s = [i \in 1 .. m |-> <<X[i], from[2]>>]
    BY <1>2 DEF Leads
  <2> HIDE DEF s
  <2> QED BY <2>1, <2>2
<1>5. t \in Seq(Cells) /\ Len(t) = n
  <2>1. \A i \in 1 .. n : <<to[1], Y[i]>> \in Cells
    <3> SUFFICES ASSUME NEW i \in 1 .. n PROVE Y[i] \in 0 .. Depth - 1
      BY <1>1 DEF Cells
    <3>1. /\ Y[i] \in Int
          /\ \/ from[2] <= Y[i] /\ Y[i] <= to[2]
             \/ to[2] <= Y[i] /\ Y[i] <= from[2]
      BY <1>3 DEF Leads
    <3> QED BY <1>1, <3>1
  <2>2. t = [i \in 1 .. n |-> <<to[1], Y[i]>>]
    BY <1>3 DEF Leads
  <2> HIDE DEF t
  <2> QED BY <2>1, <2>2
<1>6. /\ p \in Seq(Cells) /\ DOMAIN p = 1 .. m + n
      /\ \A i \in 1 .. m : p[i] = <<X[i], from[2]>>
      /\ \A i \in m + 1 .. m + n : p[i] = <<to[1], Y[i - m]>>
  <2>1. p \in Seq(Cells) /\ Len(p) = m + n
    BY <1>4, <1>5
  <2>2. \A i \in 1 .. m : p[i] = s[i]
    BY <1>4, <1>5
  <2>3. \A i \in m + 1 .. m + n : p[i] = t[i - m]
    BY <1>4, <1>5
  <2>4. DOMAIN X = 1 .. m /\ DOMAIN Y = 1 .. n
    BY <1>2, <1>3 DEF Leads
  <2> QED BY <2>1, <2>2, <2>3, <2>4
<1> HIDE DEF s, t, p
<1>7. ASSUME NEW i \in 1 .. m + n
      PROVE  Distance(p[i], IF i = 1 THEN from ELSE p[i - 1]) <= 1
  <2>0. /\ \A a, b, c \in Int : Abs(b - c) <= 1 => Distance(<<a, b>>, <<a, c>>) <= 1
        /\ \A a, b, c \in Int : Abs(b - c) <= 1 => Distance(<<b, a>>, <<c, a>>) <= 1
        /\ {from[1], from[2], to[1], to[2]} \subseteq Int
    <3>1. \A a, b, c \in Int : Abs(b - c) <= 1 => Distance(<<a, b>>, <<a, c>>) <= 1
      BY DEF Distance, Abs
    <3>2. \A a, b, c \in Int : Abs(b - c) <= 1 => Distance(<<b, a>>, <<c, a>>) <= 1
      BY DEF Distance, Abs
    <3>3. {from[1], from[2], to[1], to[2]} \subseteq Int
      BY <1>1
    <3> QED BY <3>1, <3>2, <3>3
  <2>1. CASE i <= m
    <3>1. p[i] = <<X[i], from[2]>> /\ (i # 1 => p[i - 1] = <<X[i - 1], from[2]>>)
      BY <1>6, <2>1
    <3>2. Abs(X[i] - (IF i = 1 THEN from[1] ELSE X[i - 1])) <= 1 /\ X[i] \in Int
      BY <1>2, <2>1 DEF Leads
    <3>3. i # 1 => X[i - 1] \in Int
      BY <1>2, <2>1 DEF Leads
    <3>4. CASE i = 1
      BY <1>1, <2>0, <3>1, <3>2, <3>4
    <3>5. CASE i # 1
      BY <2>0, <3>1, <3>2, <3>3, <3>5
    <3> QED BY <3>4, <3>5
  <2>2. CASE i = m + 1
    <3>1. p[i] = <<to[1], Y[1]>> /\ (i # 1 => p[i - 1] = <<to[1], from[2]>>)
      BY <1>2, <1>6, <2>2 DEF Leads
    <3>2. i = 1 => from[1] = to[1]
      BY <1>2, <2>2 DEF Leads
    <3>3. Abs(Y[1] - from[2]) <= 1 /\ Y[1] \in Int
      BY <1>3, <2>2 DEF Leads
    <3>4. i = 1 => from = <<to[1], from[2]>>
      BY <1>1, <3>2
    <3> QED BY <2>0, <3>1, <3>3, <3>4
  <2>3. CASE i > m + 1
    <3>0. i \in m + 1 .. m + n /\ i - 1 \in m + 1 .. m + n /\ i # 1 /\ (i - 1) - m = i - m - 1
      BY <2>3
    <3>1. p[i] = <<to[1], Y[i - m]>> /\ p[i - 1] = <<to[1], Y[i - m - 1]>> /\ i # 1
      BY <1>6, <3>0
    <3>2. i - m \in 1 .. n /\ i - m # 1 /\ i - m - 1 \in 1 .. n
      BY <2>3
    <3>3. Abs(Y[i - m] - Y[i - m - 1]) <= 1 /\ Y[i - m] \in Int /\ Y[i - m - 1] \in Int
      BY <1>3, <3>2 DEF Leads
    <3> QED BY <2>0, <3>1, <3>3
  <2> QED BY <2>1, <2>2, <2>3
<1>8. ManhattanPath(from, to) = p
  BY DEF ManhattanPath, X, Y, s, t, p
<1> QED BY <1>6, <1>7, <1>8 DEF WalkFrom


\* A robot without a path walks nowhere.
LEMMA NoWalk == \A c : WalkFrom(c, <<>>)
  BY DEF WalkFrom

----------------------------------------------------------------------------
(* What the small steps of the handlers keep *)

Fields == {"path", "moves", "reserved", "raised"}

\* The types that the steps depend on.
Lite(w) ==
    /\ Fields \subseteq DOMAIN w
    /\ w.path \in [Robots -> Seq(Cells)]
    /\ w.moves \in [Robots -> SUBSET (Nat \X Nat)]
    /\ w.reserved \in [Ports -> Robots \cup {None}]

\* The plans agree but for the table, the waits and the tasks.
Same(w, o) ==
    /\ Fields \subseteq DOMAIN o
    /\ o.path = w.path /\ o.moves = w.moves
    /\ o.reserved = w.reserved /\ o.raised = w.raised

ToCome(w, r) == \E m \in w.moves[r] : m[1] > 0

\* From w to o: no event is taken away, a path stays, goes, or is a walk with
\* an event to come, and who is on a port keeps his reservation.
Step(f, w, o) ==
    /\ Lite(o)
    /\ o.raised \in {w.raised, "retries"}
    /\ \A p \in Ports : f.onPort[p] # None /\ w.reserved[p] = f.onPort[p]
                          => o.reserved[p] = f.onPort[p]
    /\ \A r \in Robots :
          /\ w.moves[r] \subseteq o.moves[r]
          /\ \/ o.path[r] = w.path[r]
             \/ o.path[r] = <<>>
             \/ WalkFrom(f.pos[r], o.path[r]) /\ ToCome(o, r)

\* Plans that agree are a step apart.
LEMMA SameSteps ==
    ASSUME NEW f, NEW w, NEW o, Lite(w), Same(w, o)
    PROVE  Step(f, w, o)
  BY DEF Same, Lite, Step

\* Two steps are a step.
LEMMA StepsAdd ==
    ASSUME NEW f, NEW w, NEW o, NEW q, Step(f, w, o), Step(f, o, q)
    PROVE  Step(f, w, q)
<1>1. ASSUME NEW r \in Robots
      PROVE  /\ w.moves[r] \subseteq q.moves[r]
             /\ \/ q.path[r] = w.path[r]
                \/ q.path[r] = <<>>
                \/ WalkFrom(f.pos[r], q.path[r]) /\ ToCome(q, r)
  BY DEF Step, ToCome
<1> QED BY <1>1 DEF Step

\* The step may begin from a plan that agrees.
LEMMA SameThenStep ==
    ASSUME NEW f, NEW w, NEW o, NEW q, Lite(w), Same(w, o), Step(f, o, q)
    PROVE  Step(f, w, q)
  BY SameSteps, StepsAdd

\* Plans that agree are both well formed.
LEMMA SameLite ==
    ASSUME NEW w, NEW o, Lite(w), Same(w, o)
    PROVE  Lite(o)
  BY DEF Same, Lite

\* The events of r and new ones.
Grown(moves, r, new) == [moves EXCEPT ![r] = @ \cup new]

\* New events are added to those of one robot and take none away.
LEMMA EventsGrow ==
    ASSUME NEW moves \in [Robots -> SUBSET (Nat \X Nat)], NEW r, NEW new,
           r \in Robots => new \subseteq Nat \X Nat
    PROVE  /\ Grown(moves, r, new) \in [Robots -> SUBSET (Nat \X Nat)]
           /\ \A s \in Robots : moves[s] \subseteq Grown(moves, r, new)[s]
           /\ r \in Robots => new \subseteq Grown(moves, r, new)[r]
<1> DEFINE E == Nat \X Nat
           grown == Grown(moves, r, new)
<1>1. moves \in [Robots -> SUBSET E] /\ (r \in Robots => new \subseteq E)
  OBVIOUS
<1>2. grown = [moves EXCEPT ![r] = @ \cup new]
  BY DEF Grown
<1> HIDE DEF E, grown
<1>3. ASSUME NEW s \in Robots
      PROVE  /\ grown[s] \in SUBSET E
             /\ moves[s] \subseteq grown[s]
             /\ s = r => new \subseteq grown[s]
  <2>1. CASE s = r
    BY <1>1, <1>2, <2>1
  <2>2. CASE s # r
    BY <1>1, <1>2, <2>2
  <2> QED BY <2>1, <2>2
<1>4. grown \in [Robots -> SUBSET E]
  BY <1>1, <1>2, <1>3
<1> QED BY <1>3, <1>4 DEF E, grown

\* An event more is a step.
LEMMA PushSteps ==
    ASSUME NEW f, NEW w, Lite(w), NEW r, NEW d \in Nat, NEW retry \in Nat
    PROVE  /\ Step(f, w, Push(w, r, d, retry))
           /\ r \in Robots /\ d > 0 => ToCome(Push(w, r, d, retry), r)
<1> DEFINE o == Push(w, r, d, retry)
           e == <<d, retry>>
<1>1. /\ Fields \subseteq DOMAIN o /\ o.path = w.path /\ o.reserved = w.reserved
      /\ o.raised = w.raised /\ o.moves = [w.moves EXCEPT ![r] = @ \cup {e}]
  BY DEF Push, Lite, Fields
<1>2. e \in Nat \X Nat /\ e[1] = d
  OBVIOUS
<1> HIDE DEF o, e
<1>3. /\ o.moves \in [Robots -> SUBSET (Nat \X Nat)]
      /\ \A s \in Robots : w.moves[s] \subseteq o.moves[s]
      /\ r \in Robots => e \in o.moves[r]
  <2>1. w.moves \in [Robots -> SUBSET (Nat \X Nat)] /\ {e} \subseteq Nat \X Nat
    BY <1>2 DEF Lite
  <2>2. o.moves = Grown(w.moves, r, {e})
    BY <1>1 DEF Grown
  <2> QED BY <2>1, <2>2, EventsGrow
<1>4. Step(f, w, o)
  BY <1>1, <1>3 DEF Step, Lite
<1>5. r \in Robots /\ d > 0 => ToCome(o, r)
  BY <1>2, <1>3 DEF ToCome
<1> QED BY <1>4, <1>5 DEF o

\* A delayed event is a step, and an event to come unless it raises.
LEMMA DelaySteps ==
    ASSUME NEW f, NEW w, Lite(w), NEW r, NEW retry \in Nat
    PROVE  /\ Step(f, w, Delay(w, r, retry))
           /\ r \in Robots /\ Delay(w, r, retry).raised = "no" => ToCome(Delay(w, r, retry), r)
<1>1. CASE retry < MaxRetries
  BY <1>1, PushSteps, retry + 1 \in Nat, 1 \in Nat DEF Delay
<1>2. CASE ~(retry < MaxRetries)
  <2>1. Delay(w, r, retry) = [w EXCEPT !.raised = "retries"]
    BY <1>2 DEF Delay
  <2> QED BY <2>1 DEF Step, Lite, Fields
<1> QED BY <1>1, <1>2

\* What a new path needs: a walk from where r is, and an event to come for it.
EventsFor(f, r, path, events) ==
    r \in Robots => /\ WalkFrom(f.pos[r], path)
                    /\ events \subseteq Nat \X Nat
                    /\ path # <<>> => \E m \in events : m[1] > 0

\* o is w after r got the path with the events.
GetsPath(f, w, o, r, path, events) ==
    /\ EventsFor(f, r, path, events)
    /\ Fields \subseteq DOMAIN o /\ o.reserved = w.reserved /\ o.raised = w.raised
    /\ o.path = [w.path EXCEPT ![r] = path]
    /\ o.moves = Grown(w.moves, r, events)

\* A robot that gets a path, and the events for it, takes a step.
LEMMA NewPathSteps ==
    ASSUME NEW f, NEW w, NEW o, NEW r, NEW path, NEW events,
           Lite(w), GetsPath(f, w, o, r, path, events)
    PROVE  Step(f, w, o)
<1>1. /\ o.moves \in [Robots -> SUBSET (Nat \X Nat)]
      /\ \A s \in Robots : w.moves[s] \subseteq o.moves[s]
      /\ r \in Robots => events \subseteq o.moves[r]
  <2>1. w.moves \in [Robots -> SUBSET (Nat \X Nat)]
    BY DEF Lite
  <2>2. o.moves = Grown(w.moves, r, events)
    BY DEF GetsPath
  <2>3. r \in Robots => events \subseteq Nat \X Nat
    BY DEF GetsPath, EventsFor
  <2> QED BY <2>1, <2>2, <2>3, EventsGrow
<1>2. o.path \in [Robots -> Seq(Cells)]
  <2>1. w.path \in [Robots -> Seq(Cells)] /\ (r \in Robots => path \in Seq(Cells))
    BY DEF Lite, GetsPath, EventsFor, WalkFrom
  <2> QED BY <2>1 DEF GetsPath
<1>3. ASSUME NEW s \in Robots
      PROVE  \/ o.path[s] = w.path[s]
             \/ o.path[s] = <<>>
             \/ WalkFrom(f.pos[s], o.path[s]) /\ ToCome(o, s)
  <2>1. CASE s # r
    BY <2>1 DEF Lite, GetsPath
  <2>2. CASE s = r
    <3>1. o.path[s] = path
      BY <2>2 DEF Lite, GetsPath
    <3>2. path # <<>> => \E m \in o.moves[r] : m[1] > 0
      BY <1>1, <2>2 DEF GetsPath, EventsFor
    <3> QED BY <2>2, <3>1, <3>2 DEF ToCome, GetsPath, EventsFor
  <2> QED BY <2>1, <2>2
<1>4. Fields \subseteq DOMAIN o /\ o.reserved = w.reserved /\ o.raised = w.raised
  BY DEF GetsPath
<1> QED BY <1>1, <1>2, <1>3, <1>4 DEF Step, Lite

\* set_path with the events for its waypoints is a step.
LEMMA SetPathSteps ==
    ASSUME NEW f, NEW w, Lite(w), NEW r, NEW path,
           r \in Robots => WalkFrom(f.pos[r], path)
    PROVE  Step(f, w, SetPath(w, r, path))
<1> DEFINE o == SetPath(w, r, path)
           events == {<<i, 0>> : i \in DOMAIN path}
<1>1. /\ Fields \subseteq DOMAIN o /\ o.reserved = w.reserved /\ o.raised = w.raised
      /\ o.path = [w.path EXCEPT ![r] = path]
      /\ o.moves = Grown(w.moves, r, events)
  BY DEF SetPath, Lite, Fields, Grown
<1>2. r \in Robots => path \in Seq(Cells) /\ events \subseteq Nat \X Nat
  BY DEF WalkFrom
<1>3. r \in Robots /\ path # <<>> => <<1, 0>> \in events
  BY <1>2
<1> HIDE DEF o, events
<1>4. r \in Robots /\ path # <<>> => \E m \in events : m[1] > 0
  <2>1. <<1, 0>>[1] > 0
    OBVIOUS
  <2> QED BY <1>3, <2>1, Zenon
<1>5. EventsFor(f, r, path, events)
  BY <1>2, <1>4 DEF EventsFor
<1>6. GetsPath(f, w, o, r, path, events)
  BY <1>1, <1>5 DEF GetsPath
<1> QED BY <1>6, NewPathSteps DEF o

\* clear_task is a step: the path goes.
LEMMA ClearTaskSteps ==
    ASSUME NEW f, NEW w, Lite(w), NEW r
    PROVE  Step(f, w, ClearTask(w, r))
<1> DEFINE o == ClearTask(w, r)
<1>1. /\ Fields \subseteq DOMAIN o /\ o.reserved = w.reserved /\ o.raised = w.raised
      /\ o.moves = w.moves /\ o.path = [w.path EXCEPT ![r] = <<>>]
  BY DEF ClearTask, Lite, Fields
<1> HIDE DEF o
<1>2. /\ o.path \in [Robots -> Seq(Cells)]
      /\ \A s \in Robots : o.path[s] \in {w.path[s], <<>>}
  <2>1. <<>> \in Seq(Cells)
    OBVIOUS
  <2> QED BY <1>1, <2>1 DEF Lite
<1>3. Step(f, w, o)
  BY <1>1, <1>2 DEF Step, Lite
<1> QED BY <1>3 DEF o

----------------------------------------------------------------------------
(* Planned paths *)

\* What an attempt of request_path may book is a walk.
LEMMA AttemptWalks ==
    ASSUME NEW w, NEW r, NEW from \in Cells, NEW to \in Cells, NEW avoid, NEW start,
           NEW path \in Attempt(w, r, from, to, avoid, start).accepted
    PROVE  WalkFrom(from, path)
<1>1. path \in FindPath(w.held, r, from, to, start, avoid)
  BY DEF Attempt
<1> QED BY <1>1, FoundPathWalks

\* request_path books a walk or nothing, and leaves the rest of the plan.
LEMMA RequestedPath ==
    ASSUME NEW w, Fields \subseteq DOMAIN w, NEW r, NEW from, NEW to, NEW avoid,
           NEW o \in RequestPath(w, r, from, to, avoid).booked
    PROVE  /\ Same(w, o.plan)
           /\ from \in Cells /\ to \in Cells => WalkFrom(from, o.path)
<1>1. PICK x, path :
         /\ \E start : x = Attempt(w, r, from, to, avoid, start)
         /\ path \in x.accepted
         /\ o = Path([w EXCEPT !.held = Take(@, r, PathSlots(path, x.start)),
                               !.waits = ClearWait(@, r)], path)
  <2> DEFINE Make(path, start) == Path([w EXCEPT !.held = Take(@, r, PathSlots(path, start)),
                                                 !.waits = ClearWait(@, r)], path)
             attempts == {Attempt(w, r, from, to, avoid, a) : a \in 0 .. Attempts - 1}
             tried    == {x \in attempts : \A y \in attempts : y.start < x.start => MayFail(y)}
  <2>1. o \in UNION {{Make(path, x.start) : path \in x.accepted} : x \in tried}
    BY DEF RequestPath, Requested
  <2>2. \A x \in tried : \E start : x = Attempt(w, r, from, to, avoid, start)
    OBVIOUS
  <2> HIDE DEF tried, Make
  <2>3. PICK x \in tried : \E path \in x.accepted : o = Make(path, x.start)
    BY <2>1
  <2> QED BY <2>2, <2>3 DEF Make
<1>2. Same(w, o.plan) /\ o.path = path
  BY <1>1 DEF Path, Same, Fields
<1> QED BY <1>1, <1>2, AttemptWalks

\* calculate_path returns a walk, and leaves the rest of the plan.
LEMMA CalculatedPath ==
    ASSUME NEW f \in FloorType, NEW w, Fields \subseteq DOMAIN w, NEW r, NEW to \in Cells,
           NEW blocked, NEW o \in CalculatePath(f, w, r, to, blocked)
    PROVE  /\ Same(w, o.plan)
           /\ r \in Robots => WalkFrom(f.pos[r], o.path)
           /\ o.path # <<>> => f.pos[r] # to
<1> DEFINE from == f.pos[r]
<1>1. r \in Robots => from \in Cells
  BY DEF FloorType
<1>2. CASE from = to
  <2>1. o = Path(w, <<>>)
    BY <1>2 DEF CalculatePath
  <2> QED BY <1>2, <2>1, NoWalk DEF Path, Same
<1>3. CASE from # to
  <2>1. \/ \E avoid : o \in RequestPath(w, r, from, to, avoid).booked
        \/ \E s, path : /\ path \in {ManhattanPath(from, to), <<>>}
                        /\ o = Path([w EXCEPT !.waits = RegisterWait(@, r, s)], path)
    BY <1>3 DEF CalculatePath, Calculated, Fallback
  <2>2. CASE \E avoid : o \in RequestPath(w, r, from, to, avoid).booked
    BY <1>1, <1>3, <2>2, RequestedPath
  <2>3. CASE \E s, path : /\ path \in {ManhattanPath(from, to), <<>>}
                          /\ o = Path([w EXCEPT !.waits = RegisterWait(@, r, s)], path)
    <3>1. PICK s, path : /\ path \in {ManhattanPath(from, to), <<>>}
                         /\ o = Path([w EXCEPT !.waits = RegisterWait(@, r, s)], path)
      BY <2>3
    <3>2. Same(w, o.plan) /\ o.path = path
      BY <3>1 DEF Path, Same, Fields
    <3>3. r \in Robots => WalkFrom(from, path)
      BY <1>1, <3>1, NoWalk, ManhattanWalks
    <3> QED BY <1>3, <3>2, <3>3
  <2> QED BY <2>1, <2>2, <2>3
<1> QED BY <1>2, <1>3

\* build_path_events is a step.
LEMMA BuildPathEventsSteps ==
    ASSUME NEW f, NEW w, Lite(w), NEW r, NEW path, r \in Robots => WalkFrom(f.pos[r], path)
    PROVE  Step(f, w, BuildPathEvents(w, r, path))
<1> DEFINE o == [w EXCEPT !.held = Take(@, r, PathSlots(path, 0))]
<1>1. Same(w, o)
  BY DEF Same, Lite, Fields
<1>2. BuildPathEvents(w, r, path) = SetPath(o, r, path)
  BY DEF BuildPathEvents
<1> HIDE DEF o
<1>3. Lite(o)
  BY <1>1, SameLite
<1>4. Step(f, o, SetPath(o, r, path))
  BY <1>3, SetPathSteps
<1> QED BY <1>1, <1>2, <1>4, SameThenStep

\* _handle_robot_becomes_idle is a step.
LEMMA BecomesIdleSteps ==
    ASSUME NEW f \in FloorType, NEW w, Lite(w), NEW r, NEW o \in BecomesIdle(f, w, r)
    PROVE  Step(f, w, o)
<1>0. Step(f, w, w)
  BY SameSteps DEF Same, Lite
<1>1. CASE o = w
  BY <1>0, <1>1
<1>2. CASE o # w
  <2>1. PICK c \in NearestParking(f, r) : \E p \in CalculatePath(f, w, r, c, {}) :
           \/ o = BuildPathEvents(p.plan, r, p.path)
           \/ o = p.plan
    BY <1>2 DEF BecomesIdle
  <2>2. PICK p \in CalculatePath(f, w, r, c, {}) :
           \/ o = BuildPathEvents(p.plan, r, p.path)
           \/ o = p.plan
    BY <2>1
  <2>3. c \in Cells
    BY DEF NearestParking, Parking
  <2>4. Same(w, p.plan) /\ (r \in Robots => WalkFrom(f.pos[r], p.path))
    BY <2>2, <2>3, CalculatedPath DEF Lite
  <2>5. Lite(p.plan) /\ Step(f, w, p.plan)
    BY <2>4, SameLite, SameSteps
  <2>6. Step(f, p.plan, BuildPathEvents(p.plan, r, p.path))
    BY <2>4, <2>5, BuildPathEventsSteps
  <2> QED BY <2>2, <2>5, <2>6, StepsAdd
<1> QED BY <1>1, <1>2

\* _evade_robot is a step.
LEMMA EvadeSteps ==
    ASSUME NEW f \in FloorType, NEW w, Lite(w), NEW r, NEW forbidden,
           NEW o \in Evade(f, w, r, forbidden)
    PROVE  Step(f, w, o)
<1>1. PICK c \in EvadeCells(f, w, r, forbidden) :
         o = SetPath([w EXCEPT !.held = Take(ReleaseAll(@, r), r, {<<c, 1>>}),
                               !.waits = ClearWait(@, r)], r, <<c>>)
  BY DEF Evade
<1> DEFINE v == [w EXCEPT !.held = Take(ReleaseAll(@, r), r, {<<c, 1>>}),
                          !.waits = ClearWait(@, r)]
<1>2. Same(w, v)
  BY DEF Same, Lite, Fields
<1>3. r \in Robots => WalkFrom(f.pos[r], <<c>>)
  <2>1. c \in Cells /\ c \in Around(f.pos[r])
    BY DEF EvadeCells, Neighbours
  <2>2. r \in Robots => f.pos[r] \in Cells
    BY DEF FloorType
  <2>3. ASSUME r \in Robots PROVE Distance(c, f.pos[r]) <= 1
    <3> DEFINE a == f.pos[r]
    <3>1. a[1] \in Int /\ a[2] \in Int
      BY <2>2, <2>3, CellsAreIntegers
    <3>2. c \in {<<a[1] + 1, a[2]>>, <<a[1] - 1, a[2]>>, <<a[1], a[2] + 1>>, <<a[1], a[2] - 1>>}
      BY <2>1 DEF Around
    <3> HIDE DEF a
    <3>3. Distance(c, a) <= 1
      BY <3>1, <3>2 DEF Distance, Abs
    <3> QED BY <3>3 DEF a
  <2>4. <<c>> \in Seq(Cells) /\ DOMAIN <<c>> = {1} /\ <<c>>[1] = c
    BY <2>1
  <2> QED BY <2>3, <2>4 DEF WalkFrom
<1> HIDE DEF v
<1>4. Step(f, v, SetPath(v, r, <<c>>))
  BY <1>2, <1>3, SameLite, SetPathSteps
<1>5. o = SetPath(v, r, <<c>>)
  BY <1>1 DEF v
<1> QED BY <1>2, <1>4, <1>5, SameThenStep

----------------------------------------------------------------------------
(* The handlers *)

\* release_robot_reservations only changes the table and the waits.
LEMMA ReleaseRobotSame ==
    ASSUME NEW w, Fields \subseteq DOMAIN w, NEW r
    PROVE  Same(w, ReleaseRobot(w, r))
  BY DEF ReleaseRobot, Same, Fields

\* A robot that loses its task and its bookings is a step.
LEMMA FreedSteps ==
    ASSUME NEW f, NEW w, Lite(w), NEW r
    PROVE  Step(f, w, ClearTask(ReleaseRobot(w, r), r))
<1>1. Same(w, ReleaseRobot(w, r))
  BY ReleaseRobotSame DEF Lite
<1> QED BY <1>1, SameLite, ClearTaskSteps, SameThenStep

\* A step ends in a well-formed plan.
LEMMA StepLite == ASSUME NEW f, NEW w, NEW o, Step(f, w, o) PROVE Lite(o)
  BY DEF Step

\* A task given up is a step.
LEMMA GiveUpSteps ==
    ASSUME NEW f \in FloorType, NEW w, Lite(w), NEW r, NEW o \in GiveUp(f, w, r)
    PROVE  Step(f, w, o)
<1> DEFINE freed == ClearTask(ReleaseRobot(w, r), r)
<1>1. Step(f, w, freed) /\ Lite(freed)
  BY FreedSteps, StepLite
<1>2. o \in Evade(f, freed, r, {}) \/ o \in BecomesIdle(f, freed, r)
  BY DEF GiveUp
<1> HIDE DEF freed
<1>3. Step(f, freed, o)
  BY <1>1, <1>2, EvadeSteps, BecomesIdleSteps
<1> QED BY <1>1, <1>3, StepsAdd

\* Making room is a step, whoever makes it.
LEMMA ResolveFirstSteps ==
    ASSUME NEW f \in FloorType, NEW w, Lite(w), NEW xs, NEW o \in ResolveFirst(f, w, xs)
    PROVE  Step(f, w, o)
<1>1. PICK x : o \in Resolve(f, w, x)
  BY DEF ResolveFirst
<1> DEFINE freed == ClearTask(ReleaseRobot(w, x.victim), x.victim)
<1>2. Step(f, w, freed) /\ Lite(freed)
  BY FreedSteps, StepLite
<1>3. o \in Evade(f, w, x.victim, Forbidden(f, x)) \/ o \in BecomesIdle(f, freed, x.victim)
  BY <1>1 DEF Resolve
<1> HIDE DEF freed
<1>4. CASE o \in Evade(f, w, x.victim, Forbidden(f, x))
  BY <1>4, EvadeSteps
<1>5. CASE o \in BecomesIdle(f, freed, x.victim)
  BY <1>2, <1>5, BecomesIdleSteps, StepsAdd
<1> QED BY <1>3, <1>4, <1>5

\* The robot that called is called again, or the run has ended.
Again(o, r) == o.raised = "no" => ToCome(o, r)

\* _recover_stalled_move is a step, and the robot tries again.
LEMMA RecoverSteps ==
    ASSUME NEW f \in FloorType, NEW w, Lite(w), NEW r \in Robots, NEW next,
           NEW o \in Recover(f, w, r, next)
    PROVE  Step(f, w, o) /\ Again(o, r)
<1>1. PICK v \in ResolveFirst(f, w, Rescues(f, r, next)) :
         o = Push([v EXCEPT !.tried[r] = @ /\ ~CanResolve(f, w, Rescues(f, r, next)[1])], r, 1, 0)
  BY DEF Recover
<1> DEFINE u == [v EXCEPT !.tried[r] = @ /\ ~CanResolve(f, w, Rescues(f, r, next)[1])]
<1>2. Step(f, w, v) /\ Lite(v)
  BY <1>1, ResolveFirstSteps, StepLite
<1>3. Same(v, u)
  BY <1>2 DEF Same, Lite, Fields
<1>4. o = Push(u, r, 1, 0)
  BY <1>1
<1> HIDE DEF u
<1>5. Step(f, u, o) /\ ToCome(o, r)
  BY <1>2, <1>3, <1>4, SameLite, PushSteps
<1>6. Step(f, v, o)
  BY <1>2, <1>3, <1>5, SameThenStep
<1> QED BY <1>2, <1>5, <1>6, StepsAdd DEF Again

\* After a delay the robot tries again.
LEMMA DelayAgain ==
    ASSUME NEW f, NEW w, NEW v, Step(f, w, v), NEW r \in Robots, NEW retry \in Nat
    PROVE  Step(f, w, Delay(v, r, retry)) /\ Again(Delay(v, r, retry), r)
  BY StepLite, DelaySteps, StepsAdd DEF Again

\* A resolved circle of waits is a step, and the robot tries again.
LEMMA ResolvedSteps ==
    ASSUME NEW f \in FloorType, NEW w, Lite(w), NEW r \in Robots, NEW contested,
           NEW retry \in Nat, NEW o \in Resolved(f, w, r, contested, retry)
    PROVE  Step(f, w, o) /\ Again(o, r)
<1>1. PICK xs : \E v \in ResolveFirst(f, w, xs) : o = Delay(v, r, retry)
  BY DEF Resolved
<1>2. PICK v \in ResolveFirst(f, w, xs) : o = Delay(v, r, retry)
  BY <1>1
<1> QED BY <1>2, ResolveFirstSteps, DelayAgain

\* _replan_path_around_obstacle is a step, and the robot tries again.
LEMMA ReplanSteps ==
    ASSUME NEW f \in FloorType, NEW w, Lite(w), NEW r \in Robots, w.path[r] # <<>>,
           NEW blocked, NEW retry \in Nat, NEW o \in Replan(f, w, r, blocked, retry)
    PROVE  Step(f, w, o) /\ Again(o, r)
<1>0. Step(f, w, w)
  BY SameSteps DEF Same, Lite
<1>1. CASE o = Delay(w, r, retry)
  BY <1>0, <1>1, DelayAgain
<1>2. CASE o # Delay(w, r, retry)
  <2> DEFINE to == Last(w.path[r])
  <2>1. to \in Cells
    BY DEF Lite, Last
  <2> HIDE DEF to
  <2>2. PICK p \in CalculatePath(f, w, r, to, {blocked}) :
           LET freed == [p.plan EXCEPT !.held = ReleaseAll(@, r)] IN
           o = IF p.path = <<>> THEN Delay(p.plan, r, retry)
               ELSE IF ~CanBuildPath(freed, r, p.path) THEN Delay(freed, r, retry)
               ELSE Push([freed EXCEPT !.held = Take(@, r, PathSlots(p.path, 0)),
                                       !.waits = ClearWait(@, r),
                                       !.path[r] = p.path], r, 1, 0)
    BY <1>2 DEF Replan, to
  <2>3. Same(w, p.plan) /\ WalkFrom(f.pos[r], p.path)
    BY <2>1, CalculatedPath DEF Lite
  <2> DEFINE freed == [p.plan EXCEPT !.held = ReleaseAll(@, r)]
             v == [freed EXCEPT !.held = Take(@, r, PathSlots(p.path, 0)),
                                !.waits = ClearWait(@, r), !.path[r] = p.path]
  <2>4. Same(w, freed)
    BY <2>3 DEF Same, Fields
  <2>5. /\ Fields \subseteq DOMAIN v /\ v.moves = w.moves /\ v.reserved = w.reserved
        /\ v.raised = w.raised /\ v.path = [w.path EXCEPT ![r] = p.path]
    BY <2>3 DEF Same, Fields
  <2>6. \/ o = Delay(p.plan, r, retry)
        \/ o = Delay(freed, r, retry)
        \/ o = Push(v, r, 1, 0)
    BY <2>2
  <2> HIDE DEF freed, v
  <2>7. CASE o = Delay(p.plan, r, retry)
    BY <2>3, <2>7, SameSteps, DelayAgain
  <2>8. CASE o = Delay(freed, r, retry)
    BY <2>4, <2>8, SameSteps, DelayAgain
  <2>9. CASE o = Push(v, r, 1, 0)
    <3>1. Lite(v)
      BY <2>3, <2>5 DEF Lite, WalkFrom
    <3>2. 0 \in Nat /\ 1 \in Nat /\ 1 > 0
      OBVIOUS
    <3>3. Step(f, v, o) /\ ToCome(o, r)
      BY <2>9, <3>1, <3>2, PushSteps
    <3>4. o.path = v.path
      BY <2>5, <2>9 DEF Push, Fields
    <3>5. \A s \in Robots : o.path[s] = w.path[s] \/ (s = r /\ o.path[s] = p.path)
      BY <2>5, <3>4 DEF Lite
    <3>6. Step(f, w, o)
      BY <2>3, <2>5, <3>3, <3>5 DEF Step
    <3> QED BY <3>3, <3>6 DEF Again
  <2> QED BY <2>6, <2>7, <2>8, <2>9
<1> QED BY <1>1, <1>2

\* A move to a pickup or a drop is a step.
LEMMA TravelSteps ==
    ASSUME NEW f \in FloorType, NEW w, Lite(w), NEW r, NEW g \in Cells, NEW late \in Nat,
           NEW o \in Travel(f, w, r, g, late)
    PROVE  Step(f, w, o)
<1>1. PICK p \in CalculatePath(f, w, r, g, {}) :
         o = IF p.path = <<>> THEN [p.plan EXCEPT !.due[r] = 1 + late]
             ELSE [p.plan EXCEPT !.path[r]  = p.path,
                                 !.moves[r] = @ \cup {<<late + i, 0>> : i \in DOMAIN p.path},
                                 !.due[r]   = late + Len(p.path) + 1]
  BY DEF Travel
<1>2. Same(w, p.plan) /\ (r \in Robots => WalkFrom(f.pos[r], p.path))
  BY <1>1, CalculatedPath DEF Lite
<1>3. CASE p.path = <<>>
  <2>1. Same(w, o)
    BY <1>1, <1>2, <1>3 DEF Same, Fields
  <2> QED BY <2>1, SameSteps
<1>4. CASE p.path # <<>>
  <2> DEFINE events == {<<late + i, 0>> : i \in DOMAIN p.path}
  <2>1. /\ Fields \subseteq DOMAIN o /\ o.reserved = w.reserved /\ o.raised = w.raised
        /\ o.path = [w.path EXCEPT ![r] = p.path]
        /\ o.moves = Grown(w.moves, r, events)
    BY <1>1, <1>2, <1>4 DEF Same, Fields, Grown
  <2>2. r \in Robots => p.path \in Seq(Cells) /\ events \subseteq Nat \X Nat
    BY <1>2 DEF WalkFrom
  <2>3. r \in Robots => <<late + 1, 0>> \in events
    BY <1>4, <2>2, SMTT(30)
  <2> HIDE DEF events
  <2>4. r \in Robots => \E m \in events : m[1] > 0
    BY <2>3
  <2>5. EventsFor(f, r, p.path, events)
    BY <1>2, <2>2, <2>4 DEF EventsFor
  <2>6. GetsPath(f, w, o, r, p.path, events)
    BY <2>1, <2>5 DEF GetsPath
  <2> QED BY <2>6, NewPathSteps
<1> QED BY <1>3, <1>4, SMTT(30)

\* No two robots on one cell; who is noted on a port stands there.
Apart(f)   == \A r, s \in Robots : r # s => f.pos[r] # f.pos[s]
OnPorts(f) == \A p \in Ports : f.onPort[p] # None => f.pos[f.onPort[p]] = p

\* None is no robot.
LEMMA NoneIsNoRobot == None \notin Robots
  BY TrafficAssumption

\* Nothing done is a step.
LEMMA SelfSteps == ASSUME NEW f, NEW w, Lite(w) PROVE Step(f, w, w)
  BY SameSteps DEF Same, Lite

\* A port is reserved or freed, with nobody else on it: a step.
LEMMA ReservedSteps ==
    ASSUME NEW f, NEW w, Lite(w), NEW p \in Ports, NEW holder \in Robots \cup {None},
           f.onPort[p] \in {None, holder}
    PROVE  Step(f, w, [w EXCEPT !.reserved[p] = holder])
<1> DEFINE o == [w EXCEPT !.reserved[p] = holder]
<1>1. /\ Fields \subseteq DOMAIN o /\ o.path = w.path /\ o.moves = w.moves
      /\ o.raised = w.raised /\ o.reserved = [w.reserved EXCEPT ![p] = holder]
  BY DEF Lite, Fields
<1> HIDE DEF o
<1>2. Step(f, w, o)
  BY <1>1 DEF Step, Lite
<1> QED BY <1>2 DEF o

\* PICKSTATION_COMPLETE is a step.
LEMMA FetchSteps ==
    ASSUME NEW f \in FloorType, Apart(f), OnPorts(f), NEW w, Lite(w),
           NEW r \in Robots, NEW p \in Ports, NEW o \in Fetch(f, w, r, p)
    PROVE  Step(f, w, o)
<1> DEFINE ready == [w EXCEPT !.reserved[p] = r]
           NoPath(v) == [ClearTask(v, r) EXCEPT !.reserved[p] = None]
<1>1. CASE ~MayReserve(f, w, r, p)
  BY <1>1, SelfSteps DEF Fetch
<1>2. CASE MayReserve(f, w, r, p)
  <2>1. f.onPort[p] \in {None, r}
    BY <1>2 DEF MayReserve
  <2>2. Step(f, w, ready) /\ Lite(ready)
    BY <2>1, ReservedSteps, StepLite
  <2> HIDE DEF ready
  <2>3. ASSUME NEW v, Step(f, w, v), f.onPort[p] = None
        PROVE  Step(f, w, NoPath(v))
    <3>1. Step(f, v, ClearTask(v, r)) /\ Lite(ClearTask(v, r))
      BY <2>3, StepLite, ClearTaskSteps
    <3>2. Step(f, ClearTask(v, r), NoPath(v))
      BY <2>3, <3>1, ReservedSteps
    <3> HIDE DEF NoPath
    <3> QED BY <2>3, <3>1, <3>2, StepsAdd
  <2>4. CASE OthersOn(f, r, p) # {}
    <3>1. o = NoPath(ready)
      BY <1>2, <2>4 DEF Fetch, ready
    <3>2. f.onPort[p] # r
      BY <2>4, NoneIsNoRobot DEF OthersOn, Apart, OnPorts
    <3> QED BY <2>1, <2>2, <2>3, <3>1, <3>2
  <2>5. CASE OthersOn(f, r, p) = {}
    <3> DEFINE Assigned(v) == [v EXCEPT !.task[r] = "empty", !.due[r] = None]
    <3>1. PICK q \in CalculatePath(f, ready, r, p, {}) :
             o = IF q.path = <<>> THEN Assigned(q.plan)
                 ELSE IF ~CanBuildPath(q.plan, r, q.path) THEN NoPath(q.plan)
                 ELSE [BuildPathEvents(Assigned(q.plan), r, q.path) EXCEPT
                         !.due[r] = Len(q.path) + 1]
      BY <1>2, <2>5 DEF Fetch, ready
    <3>2. /\ Same(ready, q.plan) /\ WalkFrom(f.pos[r], q.path)
          /\ q.path # <<>> => f.pos[r] # p
      <4>1. p \in Cells
        BY TrafficAssumption
      <4>2. Fields \subseteq DOMAIN ready
        BY <2>2 DEF Lite
      <4> QED BY <3>1, <4>1, <4>2, CalculatedPath
    <3>3. Lite(q.plan) /\ Step(f, w, q.plan)
      BY <2>2, <3>2, SameLite, SameSteps, StepsAdd
    <3>4. Same(q.plan, Assigned(q.plan))
      BY <3>3 DEF Same, Lite, Fields
    <3> HIDE DEF Assigned
    <3>5. Lite(Assigned(q.plan)) /\ Step(f, w, Assigned(q.plan))
      BY <3>3, <3>4, SameLite, SameSteps, StepsAdd
    <3>6. CASE q.path = <<>>
      BY <3>1, <3>5, <3>6
    <3>7. CASE q.path # <<>> /\ o = NoPath(q.plan)
      <4>1. f.onPort[p] # r
        BY <3>2, <3>7, NoneIsNoRobot DEF OnPorts
      <4> QED BY <2>1, <2>3, <3>3, <3>7, <4>1
    <3>8. CASE q.path # <<>> /\ o = [BuildPathEvents(Assigned(q.plan), r, q.path) EXCEPT
                                        !.due[r] = Len(q.path) + 1]
      <4> DEFINE b == BuildPathEvents(Assigned(q.plan), r, q.path)
      <4>1. Step(f, Assigned(q.plan), b) /\ Lite(b)
        BY <3>2, <3>5, BuildPathEventsSteps, StepLite
      <4>2. Step(f, w, b)
        BY <3>5, <4>1, StepsAdd
      <4> HIDE DEF b
      <4>3. Same(b, [b EXCEPT !.due[r] = Len(q.path) + 1])
        BY <4>1 DEF Same, Lite, Fields
      <4>4. Step(f, b, o)
        BY <3>8, <4>1, <4>3, SameSteps DEF b
      <4> QED BY <4>2, <4>4, StepsAdd
    <3> QED BY <3>1, <3>6, <3>7, <3>8
  <2> QED BY <2>4, <2>5
<1> QED BY <1>1, <1>2

\* The start of the service at a port is a step.
LEMMA DeliverSteps ==
    ASSUME NEW f, NEW w, Lite(w), NEW r
    PROVE  Step(f, w, Deliver(f, w, r))
<1>1. PICK left : /\ Same(w, left)
                  /\ Deliver(f, w, r) \in {ClearTask(w, r), Push(ClearTask(left, r), r, 1, 0)}
  <2>1. Same(w, w)
    BY DEF Same, Lite
  <2>2. ASSUME NEW H PROVE Same(w, [w EXCEPT !.held = H])
    BY DEF Same, Lite, Fields
  <2> QED BY <2>1, <2>2 DEF Deliver
<1>2. Step(f, w, ClearTask(w, r))
  BY ClearTaskSteps
<1>3. Step(f, w, ClearTask(left, r)) /\ Lite(ClearTask(left, r))
  BY <1>1, SameLite, ClearTaskSteps, SameThenStep, StepLite
<1>4. Step(f, w, Push(ClearTask(left, r), r, 1, 0))
  <2>1. 0 \in Nat /\ 1 \in Nat
    OBVIOUS
  <2> QED BY <1>3, <2>1, PushSteps, StepsAdd
<1> QED BY <1>1, <1>2, <1>4

----------------------------------------------------------------------------
(* The invariant *)

\* On floor f with plan w, when the robots of H have had their event of this
\* time: robots stand apart, ports know their robot, paths are walks, and a
\* robot with a path has an event to come.
Holds(f, w, H) ==
    /\ f \in FloorType /\ Lite(w)
    /\ Apart(f) /\ OnPorts(f)
    /\ \A p \in Ports : f.onPort[p] # None => w.reserved[p] = f.onPort[p]
    /\ w.raised # "port"
    /\ \A r \in Robots : WalkFrom(f.pos[r], w.path[r])
    /\ w.raised = "no" => \A r \in Robots :
          w.path[r] # <<>> => \E m \in w.moves[r] : m[1] > 0 \/ r \notin H

\* A step on the same floor keeps the invariant.
LEMMA StepHolds ==
    ASSUME NEW f, NEW w, NEW H, NEW o, Holds(f, w, H), Step(f, w, o)
    PROVE  Holds(f, o, H)
<1>1. \A r \in Robots : WalkFrom(f.pos[r], o.path[r])
  BY NoWalk DEF Holds, Step
<1>2. ASSUME o.raised = "no", NEW r \in Robots, o.path[r] # <<>>
      PROVE  \E m \in o.moves[r] : m[1] > 0 \/ r \notin H
  BY <1>2 DEF Holds, Step, ToCome
<1>3. \A p \in Ports : f.onPort[p] # None => o.reserved[p] = f.onPort[p]
  BY DEF Holds, Step
<1>4. o.raised # "port"
  BY DEF Holds, Step
<1> QED BY <1>1, <1>2, <1>3, <1>4 DEF Holds, Step

\* What the event of robot r leaves of the plan.
Without(w, r) == [w EXCEPT !.moves[r] = {m \in @ : m[1] > 0}, !.tried[r] = w.path[r] # <<>>]

\* What the event leaves of the plan differs in the events of its robot only.
LEMMA WithoutLite ==
    ASSUME NEW w, Lite(w), NEW r \in Robots
    PROVE  /\ Lite(Without(w, r))
           /\ Without(w, r).path = w.path /\ Without(w, r).reserved = w.reserved
           /\ Without(w, r).raised = w.raised
           /\ \A s \in Robots \ {r} : Without(w, r).moves[s] = w.moves[s]
<1> DEFINE o == Without(w, r)
<1>1. /\ Fields \subseteq DOMAIN o /\ o.path = w.path /\ o.reserved = w.reserved
      /\ o.raised = w.raised /\ o.moves = [w.moves EXCEPT ![r] = {m \in @ : m[1] > 0}]
  BY DEF Without, Lite, Fields
<1> HIDE DEF o
<1>2. o.moves \in [Robots -> SUBSET (Nat \X Nat)] /\ \A s \in Robots \ {r} : o.moves[s] = w.moves[s]
  BY <1>1 DEF Lite
<1>3. Lite(o)
  BY <1>1, <1>2 DEF Lite
<1> QED BY <1>1, <1>2, <1>3 DEF o

\* An event of robot r, if r does not move and tries again or has no path left.
LEMMA MoveHolds ==
    ASSUME NEW f, NEW w, NEW H, Holds(f, w, H), NEW r \in Robots,
           NEW o, Step(f, Without(w, r), o), Again(o, r) \/ o.path[r] = <<>>
    PROVE  Holds(f, o, H \cup {r})
<1> DEFINE v == Without(w, r)
<1>0. /\ v.path = w.path /\ v.reserved = w.reserved /\ v.raised = w.raised
      /\ \A s \in Robots \ {r} : v.moves[s] = w.moves[s]
  BY WithoutLite DEF Holds
<1> HIDE DEF v
<1>s. Step(f, v, o)
  BY DEF v
<1>1. \A s \in Robots : WalkFrom(f.pos[s], o.path[s])
  BY <1>0, <1>s, NoWalk DEF Holds, Step
<1>2. ASSUME o.raised = "no", NEW s \in Robots, o.path[s] # <<>>
      PROVE  \E m \in o.moves[s] : m[1] > 0 \/ s \notin H \cup {r}
  <2>1. CASE s = r
    BY <1>2, <2>1 DEF Again, ToCome
  <2>2. CASE s # r
    BY <1>0, <1>s, <1>2, <2>2 DEF Holds, Step, ToCome
  <2> QED BY <2>1, <2>2
<1>3. \A p \in Ports : f.onPort[p] # None => o.reserved[p] = f.onPort[p]
  BY <1>0, <1>s DEF Holds, Step
<1>4. o.raised # "port"
  BY <1>0, <1>s DEF Holds, Step
<1> QED BY <1>s, <1>1, <1>2, <1>3, <1>4 DEF Holds, Step

TrafficInv == Holds(floor, plan, handled)

\* What the event leaves, by its name in the actions.
LEMMA TakenIsWithout == \A r : Taken(r) = Without(plan, r)
  BY DEF Taken, Without

\* Goals, ports and stacks are cells.
LEMMA GridCells == Goals \subseteq Cells /\ Ports \subseteq Cells /\ Stacks \subseteq Cells
  BY TrafficAssumption DEF Goals

\* The robots start apart, without paths.
LEMMA InitHolds == Init => TrafficInv
<1> SUFFICES ASSUME Init PROVE TrafficInv
  OBVIOUS
<1>1. PICK at \in Starts : floor = [pos |-> at, onPort |-> [p \in Ports |-> None]]
  BY DEF Init
<1>2. /\ at \in [Robots -> Cells] /\ \A r, s \in Robots : r # s => at[r] # at[s]
      /\ floor.pos = at /\ floor.onPort = [p \in Ports |-> None]
  BY <1>1, TrafficAssumption
<1>3. floor \in FloorType /\ Apart(floor) /\ OnPorts(floor)
      /\ \A p \in Ports : floor.onPort[p] = None
  BY <1>1, <1>2 DEF FloorType, Apart, OnPorts
<1>4. /\ Fields \subseteq DOMAIN plan /\ plan.raised = "no"
      /\ plan.path = [r \in Robots |-> <<>>] /\ plan.moves = [r \in Robots |-> {}]
      /\ plan.reserved = [p \in Ports |-> None]
  BY DEF Init, Fields
<1>5. Lite(plan)
  <2>1. <<>> \in Seq(Cells)
    OBVIOUS
  <2> QED BY <1>4, <2>1 DEF Lite
<1> QED BY <1>3, <1>4, <1>5, NoWalk DEF TrafficInv, Holds

\* The other events: a step of the plan, and the robots stand.
LEMMA StandHolds ==
    ASSUME TrafficInv, UNCHANGED <<floor, handled>>, Step(floor, plan, plan')
    PROVE  TrafficInv'
<1>1. Holds(floor, plan', handled)
  BY StepHolds DEF TrafficInv
<1> QED BY <1>1 DEF TrafficInv

\* What the other events do to the plan before they plan a path.
LEMMA TweakSame ==
    ASSUME Lite(plan), NEW r
    PROVE  /\ Same(plan, Fired(r))
           /\ \A x : Same(plan, [plan EXCEPT !.task[r] = x])
           /\ \A x, y : Same(plan, [Fired(r) EXCEPT !.task[r] = x, !.tried[r] = y])
           /\ Same(plan, [plan EXCEPT !.due[r] = 1])
           /\ \A x : Same(plan, [Fired(r) EXCEPT !.held = x])
           /\ Same(plan, Stay(r)) /\ Same(plan, [Stay(r) EXCEPT !.due[r] = 1])
  BY DEF Fired, Stay, Same, Lite, Fields

\* The other events keep the invariant.
LEMMA SurroundingsHold ==
    ASSUME TrafficInv, NEW r \in Robots,
           \/ \E g \in Goals :
                 Assign(r, g) \/ HandleAction(r, g) \/ PlanAnew(r, g) \/ PickUp(r, g) \/ PutDown(r, g)
           \/ \E p \in Ports : FetchBin(r, p)
           \/ Retry(r) \/ DeliverBin(r) \/ Requeue(r) \/ Complete(r) \/ Orphaned(r)
    PROVE  TrafficInv'
<1>1. floor \in FloorType /\ Lite(plan) /\ Apart(floor) /\ OnPorts(floor)
  BY DEF TrafficInv, Holds
<1>2. UNCHANGED <<floor, handled>>
  BY DEF Assign, HandleAction, PlanAnew, PickUp, PutDown, FetchBin, Retry, DeliverBin, Requeue,
         Complete, Orphaned, Event, Surroundings
<1>3. ASSUME NEW v, Same(plan, v), Step(floor, v, plan')
      PROVE  TrafficInv'
  BY <1>1, <1>2, <1>3, SameThenStep, StandHolds
<1>4. ASSUME NEW v, Same(plan, v), NEW g \in Goals, NEW late \in Nat,
             plan' \in Travel(floor, v, r, g, late)
      PROVE  TrafficInv'
  BY <1>1, <1>3, <1>4, SameLite, TravelSteps, GridCells
<1>5. ASSUME NEW v, Same(plan, v), NEW u, Step(floor, v, u), plan' \in BecomesIdle(floor, u, r)
      PROVE  TrafficInv'
  BY <1>1, <1>3, <1>5, StepLite, BecomesIdleSteps, StepsAdd
<1>6. 0 \in Nat /\ PickupTime \in Nat
  BY TrafficAssumption
<1>7. ASSUME NEW g \in Goals, Assign(r, g) PROVE TrafficInv'
  BY <1>1, <1>4, <1>6, <1>7, TweakSame DEF Assign
<1>8. ASSUME NEW g \in Goals, PlanAnew(r, g) PROVE TrafficInv'
  BY <1>1, <1>4, <1>6, <1>8, TweakSame DEF PlanAnew
<1>9. ASSUME NEW g \in Goals, PickUp(r, g) PROVE TrafficInv'
  BY <1>1, <1>4, <1>6, <1>9, TweakSame DEF PickUp
<1>10. ASSUME NEW g \in Goals, PutDown(r, g) PROVE TrafficInv'
  BY <1>1, <1>4, <1>6, <1>10, TweakSame DEF PutDown
<1>11. ASSUME NEW p \in Ports, FetchBin(r, p) PROVE TrafficInv'
  <2>1. Step(floor, plan, plan')
    BY <1>1, <1>11, FetchSteps DEF FetchBin
  <2> QED BY <1>2, <2>1, StandHolds
<1>12. ASSUME Retry(r) PROVE TrafficInv'
  <2>1. Step(floor, plan, plan')
    BY <1>1, <1>12, TweakSame, SameSteps DEF Retry
  <2> QED BY <1>2, <2>1, StandHolds
<1>13. ASSUME DeliverBin(r) PROVE TrafficInv'
  <2>1. Step(floor, Fired(r), plan')
    BY <1>1, <1>13, TweakSame, SameLite, DeliverSteps DEF DeliverBin
  <2> QED BY <1>1, <1>3, <2>1, TweakSame
<1>14. ASSUME Requeue(r) PROVE TrafficInv'
  <2>1. Lite(Fired(r)) /\ Same(plan, Fired(r))
    BY <1>1, TweakSame, SameLite
  <2>2. Step(floor, Fired(r), plan')
    BY <1>1, <1>14, <2>1, GiveUpSteps, ClearTaskSteps DEF Requeue
  <2> QED BY <1>3, <2>1, <2>2
<1>15. ASSUME Complete(r) PROVE TrafficInv'
  <2> DEFINE v == [Fired(r) EXCEPT !.held = ReleaseAll(@, r)]
  <2>1. Same(plan, v)
    BY <1>1, TweakSame
  <2>2. plan' \in BecomesIdle(floor, ClearTask(v, r), r)
    BY <1>15 DEF Complete
  <2> HIDE DEF v
  <2>3. Step(floor, v, ClearTask(v, r))
    BY <1>1, <2>1, SameLite, ClearTaskSteps
  <2> QED BY <1>5, <2>1, <2>2, <2>3
<1>16. ASSUME Orphaned(r) PROVE TrafficInv'
  <2>1. Lite(Fired(r)) /\ Same(plan, Fired(r))
    BY <1>1, TweakSame, SameLite
  <2>2. Step(floor, Fired(r), Fired(r))
    BY <2>1, SelfSteps
  <2> QED BY <1>5, <1>16, <2>1, <2>2 DEF Orphaned
<1>17. ASSUME NEW g \in Goals, HandleAction(r, g) PROVE TrafficInv'
  <2>1. CASE plan' \in Travel(floor, Stay(r), r, g, 0)
    BY <1>1, <1>4, <1>6, <2>1, TweakSame
  <2>2. CASE plan' = [Stay(r) EXCEPT !.due[r] = 1]
    <3>1. Step(floor, plan, plan')
      BY <1>1, <2>2, TweakSame, SameSteps
    <3> QED BY <1>2, <3>1, StandHolds
  <2> QED BY <1>17, <2>1, <2>2 DEF HandleAction
<1> QED BY <1>7, <1>8, <1>9, <1>10, <1>11, <1>12, <1>13, <1>14, <1>15, <1>16, <1>17

\* _handle_robot_becomes_idle changes no path but that of its robot.
LEMMA BecomesIdleOnly ==
    ASSUME NEW f \in FloorType, NEW w, Lite(w), NEW s, NEW o \in BecomesIdle(f, w, s),
           NEW r \in Robots \ {s}
    PROVE  o.path[r] = w.path[r]
<1>1. CASE o = w
  BY <1>1
<1>2. CASE o # w
  <2>1. PICK c \in NearestParking(f, s) : \E p \in CalculatePath(f, w, s, c, {}) :
           \/ o = BuildPathEvents(p.plan, s, p.path)
           \/ o = p.plan
    BY <1>2 DEF BecomesIdle
  <2>2. PICK p \in CalculatePath(f, w, s, c, {}) :
           \/ o = BuildPathEvents(p.plan, s, p.path)
           \/ o = p.plan
    BY <2>1
  <2>3. Same(w, p.plan)
    BY <2>2, CalculatedPath DEF Lite, NearestParking, Parking
  <2>4. o.path \in {w.path, [w.path EXCEPT ![s] = p.path]}
    BY <2>2, <2>3 DEF Same, Fields, BuildPathEvents, SetPath
  <2> QED BY <2>4 DEF Lite
<1> QED BY <1>1, <1>2

\* The reservation of the port before a move is a step.
LEMMA WithPortSteps ==
    ASSUME TrafficInv, NEW r \in Robots
    PROVE  /\ Lite(Taken(r)) /\ Taken(r).path = plan.path
           /\ Step(floor, Taken(r), WithPort(r)) /\ WithPort(r).path = plan.path
<1>1. Lite(plan)
  BY DEF TrafficInv, Holds
<1>2. Lite(Taken(r)) /\ Taken(r).path = plan.path
  BY <1>1, TakenIsWithout, WithoutLite
<1>3. CASE WithPort(r) = Taken(r)
  BY <1>2, <1>3, SelfSteps
<1>4. CASE WithPort(r) # Taken(r)
  <2>1. /\ Next_(r) \in Ports /\ floor.onPort[Next_(r)] \in {None, r}
        /\ WithPort(r) = [Taken(r) EXCEPT !.reserved[Next_(r)] = r]
    BY <1>4 DEF WithPort, OnPort, MayReserve, StaleReservation
  <2>2. WithPort(r).path = Taken(r).path
    BY <1>2, <2>1 DEF Lite, Fields
  <2>3. Step(floor, Taken(r), WithPort(r))
    BY <1>2, <2>1, ReservedSteps
  <2> QED BY <1>2, <2>2, <2>3
<1> QED BY <1>2, <1>3, <1>4

\* A wait is neither path nor event.
LEMMA WaitsSame == ASSUME NEW w, Lite(w), NEW g PROVE Same(w, [w EXCEPT !.waits = g])
  BY DEF Same, Lite, Fields

\* The events of a robot that does not get on.
LEMMA StuckHolds ==
    ASSUME TrafficInv, NEW r \in Robots, NEW retry \in 0 .. MaxRetries,
           \/ MoveWithoutPath(r, retry) \/ RecoverMove(r, retry) \/ MoveLater(r, retry)
           \/ \E g \in Stacks \cup Ports : ForceBlocker(r, retry, g)
           \/ MeetRobot(r, retry) \/ AwaitPort(r, retry) \/ AwaitSlot(r, retry)
    PROVE  TrafficInv'
<1>1. floor \in FloorType /\ retry \in Nat
  BY TrafficAssumption DEF TrafficInv, Holds
<1>2. floor' = floor /\ handled' = handled \cup {r}
  BY DEF MoveWithoutPath, RecoverMove, MoveLater, ForceBlocker, MeetRobot, AwaitPort,
         AwaitSlot, HandlePath, HandleMove
<1> DEFINE v == Taken(r)
<1>3. Lite(v) /\ v.path = plan.path /\ Step(floor, v, WithPort(r))
  BY WithPortSteps
<1>4. ASSUME Step(floor, v, plan'), Again(plan', r) \/ plan'.path[r] = <<>>
      PROVE  TrafficInv'
  <2>1. Holds(floor, plan', handled \cup {r})
    BY <1>4, TakenIsWithout, MoveHolds DEF TrafficInv
  <2> QED BY <1>2, <2>1 DEF TrafficInv
<1> HIDE DEF v
<1>5. ASSUME NEW u, Step(floor, v, u), plan' = Delay(u, r, retry)
      PROVE  TrafficInv'
  BY <1>1, <1>4, <1>5, DelayAgain
<1>6. ASSUME NEW u, Step(floor, v, u), NEW c, plan' \in Resolved(floor, u, r, c, retry)
      PROVE  TrafficInv'
  BY <1>1, <1>4, <1>6, StepLite, ResolvedSteps, StepsAdd
<1>7. CASE MoveWithoutPath(r, retry)
  BY <1>3, <1>4, <1>7, SelfSteps DEF MoveWithoutPath, v
<1>8. CASE RecoverMove(r, retry)
  BY <1>1, <1>3, <1>4, <1>8, RecoverSteps DEF RecoverMove, v
<1>9. CASE MoveLater(r, retry)
  BY <1>3, <1>5, <1>9, SelfSteps DEF MoveLater, v
<1>10. ASSUME NEW g \in Stacks \cup Ports, ForceBlocker(r, retry, g) PROVE TrafficInv'
  <2>1. PICK u \in Travel(floor, v, InFront(r), g, 0) : plan' = Delay(u, r, retry)
    BY <1>10 DEF ForceBlocker, v
  <2>2. g \in Cells /\ 0 \in Nat
    BY GridCells
  <2> QED BY <1>1, <1>3, <1>5, <2>1, <2>2, TravelSteps
<1>11. CASE MeetRobot(r, retry)
  <2>1. plan.path[r] # <<>> /\ InFront(r) # r
    BY <1>11 DEF MeetRobot, HandlePath, InWay, Crowded, InFront, OthersOn
  <2>2. PICK w :
           /\ w \in BecomesIdle(floor, v, InFront(r)) \cup {v}
           /\ LET waiting == [w EXCEPT !.waits = RegisterWait(@, r, InFront(r))] IN
              \/ plan' \in Resolved(floor, waiting, r, Next_(r), retry)
              \/ plan' \in Replan(floor, waiting, r, Next_(r), retry)
    BY <1>11 DEF MeetRobot, v
  <2>3. Step(floor, v, w) /\ Lite(w) /\ w.path[r] # <<>>
    BY <1>1, <1>3, <2>1, <2>2, SelfSteps, BecomesIdleSteps, BecomesIdleOnly, StepLite
  <2> DEFINE waiting == [w EXCEPT !.waits = RegisterWait(@, r, InFront(r))]
  <2>4. Same(w, waiting)
    BY <2>3, WaitsSame
  <2>5. \/ plan' \in Resolved(floor, waiting, r, Next_(r), retry)
        \/ plan' \in Replan(floor, waiting, r, Next_(r), retry)
    BY <2>2
  <2> HIDE DEF waiting
  <2>6. Step(floor, v, waiting) /\ Lite(waiting) /\ waiting.path[r] # <<>>
    BY <2>3, <2>4, SameSteps, SameLite, StepsAdd DEF Same
  <2>7. CASE plan' \in Replan(floor, waiting, r, Next_(r), retry)
    BY <1>1, <1>4, <2>6, <2>7, ReplanSteps, StepsAdd
  <2> QED BY <1>6, <2>5, <2>6, <2>7
<1>12. CASE AwaitPort(r, retry)
  <2> DEFINE w == WithPort(r)
             waiting == [w EXCEPT !.waits = RegisterWait(@, r, w.reserved[Next_(r)])]
  <2>1. Lite(w)
    BY <1>3, StepLite
  <2>2. Same(w, waiting)
    BY <2>1, WaitsSame
  <2>3. \/ plan' = Delay(w, r, retry)
        \/ plan' \in Resolved(floor, waiting, r, floor.pos[w.reserved[Next_(r)]], retry)
        \/ plan' = Delay(waiting, r, retry)
    BY <1>12 DEF AwaitPort
  <2>4. Step(floor, v, w)
    BY <1>3
  <2> HIDE DEF w, waiting
  <2>5. Step(floor, v, waiting)
    BY <2>1, <2>2, <2>4, SameSteps, StepsAdd
  <2> QED BY <1>5, <1>6, <2>3, <2>4, <2>5
<1>13. CASE AwaitSlot(r, retry)
  BY <1>3, <1>5, <1>13 DEF AwaitSlot
<1> QED BY <1>7, <1>8, <1>9, <1>10, <1>11, <1>12, <1>13

\* With the port reserved, the other ports are as before.
LEMMA WithPortFields ==
    ASSUME TrafficInv, NEW r \in Robots
    PROVE  LET w == WithPort(r) IN
           /\ Lite(w) /\ w.path = plan.path /\ w.raised = plan.raised
           /\ \A s \in Robots \ {r} : w.moves[s] = plan.moves[s]
           /\ \A p \in Ports \ {Next_(r)} : w.reserved[p] = plan.reserved[p]
<1> DEFINE w == WithPort(r)
<1>1. /\ Lite(Taken(r)) /\ Taken(r).path = plan.path /\ Taken(r).reserved = plan.reserved
      /\ Taken(r).raised = plan.raised
      /\ \A s \in Robots \ {r} : Taken(r).moves[s] = plan.moves[s]
  BY TakenIsWithout, WithoutLite DEF TrafficInv, Holds
<1>2. Lite(w) /\ w.path = plan.path
  BY WithPortSteps, StepLite
<1>3. w \in {Taken(r), [Taken(r) EXCEPT !.reserved[Next_(r)] = r]}
  BY DEF WithPort
<1>4. /\ w.raised = Taken(r).raised /\ w.moves = Taken(r).moves
      /\ w.reserved \in {Taken(r).reserved, [Taken(r).reserved EXCEPT ![Next_(r)] = r]}
  BY <1>1, <1>3 DEF Lite, Fields
<1> HIDE DEF w
<1>5. \A p \in Ports \ {Next_(r)} : w.reserved[p] = plan.reserved[p]
  BY <1>1, <1>4 DEF Lite
<1> QED BY <1>1, <1>2, <1>4, <1>5 DEF w

\* All of the invariant but for the event of robot r.
AlmostHolds(f, w, H, r) ==
    /\ f \in FloorType /\ Lite(w)
    /\ Apart(f) /\ OnPorts(f)
    /\ \A p \in Ports : f.onPort[p] # None => w.reserved[p] = f.onPort[p]
    /\ w.raised # "port"
    /\ \A s \in Robots : WalkFrom(f.pos[s], w.path[s])
    /\ w.raised = "no" => \A s \in Robots \ {r} :
          w.path[s] # <<>> => \E m \in w.moves[s] : m[1] > 0 \/ s \notin H

\* A step that gives robot r an event, or leaves it without a path, completes it.
LEMMA AlmostSteps ==
    ASSUME NEW f, NEW w, NEW H, NEW r, AlmostHolds(f, w, H, r), NEW o, Step(f, w, o),
           ToCome(o, r) \/ o.path[r] = <<>> \/ w.path[r] = <<>>
    PROVE  Holds(f, o, H)
<1>1. \A s \in Robots : WalkFrom(f.pos[s], o.path[s])
  BY NoWalk DEF AlmostHolds, Step
<1>2. ASSUME o.raised = "no", NEW s \in Robots, o.path[s] # <<>>
      PROVE  \E m \in o.moves[s] : m[1] > 0 \/ s \notin H
  <2>1. CASE s = r
    BY <1>2, <2>1 DEF Step, ToCome
  <2>2. CASE s # r
    BY <1>2, <2>2 DEF AlmostHolds, Step, ToCome
  <2> QED BY <2>1, <2>2
<1>3. \A p \in Ports : f.onPort[p] # None => o.reserved[p] = f.onPort[p]
  BY DEF AlmostHolds, Step
<1>4. o.raised # "port"
  BY DEF AlmostHolds, Step
<1> QED BY <1>1, <1>2, <1>3, <1>4 DEF AlmostHolds, Holds, Step

\* The rest of a walk is a walk from its first cell.
LEMMA RestWalks ==
    ASSUME NEW c, NEW path, WalkFrom(c, path), path # <<>>
    PROVE  Head(path) \in Cells /\ WalkFrom(Head(path), Tail(path))
<1>1. /\ path \in Seq(Cells) /\ Len(path) \in Nat /\ Len(path) > 0
      /\ DOMAIN path = 1 .. Len(path)
      /\ \A i \in 1 .. Len(path) :
            Distance(path[i], IF i = 1 THEN c ELSE path[i - 1]) <= 1
  <2>1. path \in Seq(Cells)
    BY DEF WalkFrom
  <2>2. Len(path) \in Nat /\ Len(path) > 0 /\ DOMAIN path = 1 .. Len(path)
    BY <2>1
  <2> QED BY <2>1, <2>2 DEF WalkFrom
<1>2. /\ Tail(path) \in Seq(Cells) /\ Len(Tail(path)) = Len(path) - 1
      /\ DOMAIN Tail(path) = 1 .. Len(path) - 1 /\ Head(path) = path[1]
      /\ \A i \in 1 .. Len(path) - 1 : Tail(path)[i] = path[i + 1]
  BY <1>1
<1>3. ASSUME NEW i \in DOMAIN Tail(path)
      PROVE  Distance(Tail(path)[i], IF i = 1 THEN Head(path) ELSE Tail(path)[i - 1]) <= 1
  <2>1. i + 1 \in 1 .. Len(path) /\ i + 1 # 1 /\ i + 1 - 1 = i /\ i \in 1 .. Len(path) - 1
    BY <1>1, <1>2
  <2>2. Distance(path[i + 1], path[i]) <= 1
    BY <1>1, <2>1
  <2>3. (IF i = 1 THEN Head(path) ELSE Tail(path)[i - 1]) = path[i]
    <3>1. CASE i = 1
      BY <1>2, <3>1
    <3>2. CASE i # 1
      <4>1. i - 1 \in 1 .. Len(path) - 1 /\ i - 1 + 1 = i
        BY <2>1, <3>2, <1>1
      <4> QED BY <1>2, <3>2, <4>1
    <3> QED BY <3>1, <3>2
  <2> QED BY <1>2, <2>1, <2>2, <2>3
<1>4. Head(path) \in Cells
  BY <1>1, <1>2
<1> QED BY <1>2, <1>3, <1>4 DEF WalkFrom

\* The floor after robot r has moved on.
Moved(r) ==
    [pos    |-> [floor.pos EXCEPT ![r] = Next_(r)],
     onPort |-> [p \in Ports |-> IF p = Next_(r) THEN r
                                 ELSE IF p = floor.pos[r] THEN None
                                 ELSE floor.onPort[p]]]

\* A robot that moves on to a cell nobody is on, with the port reserved if it is one.
LEMMA ArrivedHolds ==
    ASSUME TrafficInv, NEW r \in Robots, plan.path[r] # <<>>, ~Crowded(r),
           OnPort(r) => WithPort(r).reserved[Next_(r)] = r
    PROVE  AlmostHolds(Moved(r), Arrived(r), handled \cup {r}, r)
<1> DEFINE f == Moved(r)
           w == WithPort(r)
           v == Arrived(r)
           next == Next_(r)
<1>1. /\ floor.pos \in [Robots -> Cells] /\ floor.onPort \in [Ports -> Robots \cup {None}]
      /\ Apart(floor) /\ OnPorts(floor)
      /\ \A p \in Ports : floor.onPort[p] # None => plan.reserved[p] = floor.onPort[p]
      /\ plan.raised # "port"
      /\ \A s \in Robots : WalkFrom(floor.pos[s], plan.path[s])
      /\ plan.raised = "no" => \A s \in Robots :
            plan.path[s] # <<>> => \E m \in plan.moves[s] : m[1] > 0 \/ s \notin handled
  BY DEF TrafficInv, Holds, FloorType
<1>2. next \in Cells /\ WalkFrom(next, Tail(plan.path[r]))
  BY <1>1, RestWalks DEF Next_
<1>3. \A s \in Robots \ {r} : floor.pos[s] # next
  BY DEF Crowded, OthersOn
<1>4. /\ f.pos = [floor.pos EXCEPT ![r] = next]
      /\ f.onPort = [p \in Ports |-> IF p = next THEN r
                                    ELSE IF p = floor.pos[r] THEN None ELSE floor.onPort[p]]
      /\ f = [pos |-> f.pos, onPort |-> f.onPort]
  BY DEF Moved
<1>5. /\ Lite(w) /\ w.path = plan.path /\ w.raised = plan.raised
      /\ \A s \in Robots \ {r} : w.moves[s] = plan.moves[s]
      /\ \A p \in Ports \ {next} : w.reserved[p] = plan.reserved[p]
  BY WithPortFields
<1>6. /\ Fields \subseteq DOMAIN v /\ v.moves = w.moves /\ v.raised = w.raised
      /\ v.path = [w.path EXCEPT ![r] = Tail(plan.path[r])]
      /\ v.reserved \in [Ports -> Robots \cup {None}]
      /\ \A p \in Ports :
            \/ v.reserved[p] = w.reserved[p]
            \/ v.reserved[p] = None /\ w.reserved[p] = r /\ floor.onPort[p] # r /\ p # next
            \/ v.reserved[p] = None /\ p = floor.pos[r] /\ p # next
  <2> DEFINE lost(p) ==
               \/ w.reserved[p] = r /\ floor.onPort[p] # r /\ p # next
                    /\ p \notin ToSet(Tail(plan.path[r]))
               \/ p = floor.pos[r] /\ p # next
             R == [p \in Ports |-> IF lost(p) THEN None ELSE w.reserved[p]]
  <2>1. /\ Fields \subseteq DOMAIN v /\ v.moves = w.moves /\ v.raised = w.raised
        /\ v.path = [w.path EXCEPT ![r] = Tail(plan.path[r])]
        /\ v.reserved = R
    BY <1>5 DEF Arrived, Lite, Fields
  <2>2. R \in [Ports -> Robots \cup {None}]
    BY <1>5 DEF Lite
  <2>3. \A p \in Ports : R[p] = IF lost(p) THEN None ELSE w.reserved[p]
    OBVIOUS
  <2>4. \A p \in Ports : lost(p) =>
           \/ w.reserved[p] = r /\ floor.onPort[p] # r /\ p # next
           \/ p = floor.pos[r] /\ p # next
    OBVIOUS
  <2> HIDE DEF R, lost, w, v, next
  <2> QED BY <2>1, <2>2, <2>3, <2>4
<1>7. next \in Ports => w.reserved[next] = r
  BY DEF OnPort
<1> HIDE DEF f, w, v, next
<1>8. f \in FloorType
  <2>1. f.pos \in [Robots -> Cells]
    BY <1>1, <1>2, <1>4
  <2>2. f.onPort \in [Ports -> Robots \cup {None}]
    BY <1>1, <1>4
  <2> QED BY <1>4, <2>1, <2>2 DEF FloorType
<1>9. Apart(f)
  BY <1>1, <1>3, <1>4 DEF Apart
<1>10. ASSUME NEW p \in Ports, f.onPort[p] # None
       PROVE  f.pos[f.onPort[p]] = p /\ v.reserved[p] = f.onPort[p]
  <2>1. CASE p = next
    BY <1>1, <1>4, <1>6, <1>7, <2>1
  <2>2. CASE p # next
    <3>1. /\ f.onPort[p] = floor.onPort[p] /\ p # floor.pos[r]
          /\ floor.onPort[p] \in Robots
      BY <1>1, <1>4, <1>10, <2>2
    <3>2. floor.pos[floor.onPort[p]] = p /\ floor.onPort[p] # r
      BY <1>1, <3>1, NoneIsNoRobot DEF OnPorts
    <3>3. f.pos[f.onPort[p]] = p
      BY <1>1, <1>4, <3>1, <3>2
    <3>4. w.reserved[p] = floor.onPort[p]
      BY <1>1, <1>5, <2>2, <3>1, NoneIsNoRobot
    <3> QED BY <1>6, <3>1, <3>2, <3>3, <3>4
  <2> QED BY <2>1, <2>2
<1>11. v.path \in [Robots -> Seq(Cells)]
  BY <1>2, <1>5, <1>6 DEF Lite, WalkFrom
<1>12. Lite(v)
  BY <1>5, <1>6, <1>11 DEF Lite
<1>13. ASSUME NEW s \in Robots PROVE WalkFrom(f.pos[s], v.path[s])
  <2>1. CASE s = r
    <3>1. f.pos[s] = next /\ v.path[s] = Tail(plan.path[r])
      BY <1>1, <1>4, <1>5, <1>6, <2>1 DEF Lite
    <3> QED BY <1>2, <3>1
  <2>2. CASE s # r
    <3>1. f.pos[s] = floor.pos[s] /\ v.path[s] = plan.path[s]
      BY <1>1, <1>4, <1>5, <1>6, <2>2 DEF Lite
    <3> QED BY <1>1, <3>1
  <2> QED BY <2>1, <2>2
<1>14. ASSUME v.raised = "no", NEW s \in Robots \ {r}, v.path[s] # <<>>
       PROVE  \E m \in v.moves[s] : m[1] > 0 \/ s \notin handled \cup {r}
  <2>1. v.path[s] = plan.path[s] /\ v.moves[s] = plan.moves[s] /\ plan.raised = "no"
    BY <1>5, <1>6, <1>14 DEF Lite
  <2> QED BY <1>1, <1>14, <2>1
<1>15. v.raised # "port"
  BY <1>1, <1>5, <1>6
<1>16. OnPorts(f) /\ \A p \in Ports : f.onPort[p] # None => v.reserved[p] = f.onPort[p]
  BY <1>10 DEF OnPorts
<1>17. AlmostHolds(f, v, handled \cup {r}, r)
  BY <1>8, <1>9, <1>12, <1>13, <1>14, <1>15, <1>16 DEF AlmostHolds
<1> QED BY <1>17 DEF f, v

\* Robot r moves on; it parks, stops, or gets its next event.
LEMMA AdvanceHolds ==
    ASSUME TrafficInv, NEW r \in Robots, NEW retry \in 0 .. MaxRetries, Advance(r, retry)
    PROVE  TrafficInv'
<1> DEFINE f == Moved(r)
           v == Arrived(r)
           last == [v EXCEPT !.held = ForgetPast(@, r)]
<1>1. /\ plan.path[r] # <<>> /\ ~Crowded(r)
      /\ OnPort(r) => WithPort(r).reserved[Next_(r)] = r
      /\ floor' = f /\ handled' = handled \cup {r}
  BY DEF Advance, HandlePath, HandleMove, Moved
<1>2. MayEnter(floor, WithPort(r), r, Next_(r))
  <2> SUFFICES ASSUME Next_(r) \in Ports
               PROVE  WithPort(r).reserved[Next_(r)] = r /\ floor.onPort[Next_(r)] \in {None, r}
    BY DEF MayEnter
  <2>1. WithPort(r).reserved[Next_(r)] = r
    BY <1>1 DEF OnPort
  <2>2. floor.onPort[Next_(r)] # None =>
           floor.onPort[Next_(r)] \in Robots /\ floor.pos[floor.onPort[Next_(r)]] = Next_(r)
    BY DEF TrafficInv, Holds, FloorType, OnPorts
  <2>3. floor.onPort[Next_(r)] \in {None, r}
    BY <1>1, <2>2 DEF Crowded, OthersOn
  <2> QED BY <2>1, <2>3
<1>3. \/ plan' = Push(v, r, 1, 0)
      \/ v.path[r] = <<>> /\ plan' = last
      \/ v.path[r] = <<>> /\ plan' \in BecomesIdle(f, last, r)
  BY <1>2 DEF Advance, Moved
<1>4. AlmostHolds(f, v, handled \cup {r}, r)
  BY <1>1, ArrivedHolds
<1>5. Lite(v) /\ f \in FloorType
  BY <1>4 DEF AlmostHolds
<1>6. Same(v, last)
  BY <1>5 DEF Same, Lite, Fields
<1> HIDE DEF f, v, last
<1>7. Step(f, v, last) /\ Lite(last) /\ last.path[r] = v.path[r]
  BY <1>5, <1>6, SameSteps, SameLite DEF Same
<1>8. CASE plan' = Push(v, r, 1, 0)
  <2>1. 1 \in Nat /\ 0 \in Nat /\ 1 > 0
    OBVIOUS
  <2>2. Step(f, v, plan') /\ ToCome(plan', r)
    BY <1>5, <1>8, <2>1, PushSteps
  <2>3. Holds(f, plan', handled \cup {r})
    BY <1>4, <2>2, AlmostSteps
  <2> QED BY <1>1, <2>3 DEF TrafficInv
<1>9. CASE v.path[r] = <<>> /\ plan' = last
  <2>1. Holds(f, plan', handled \cup {r})
    BY <1>4, <1>7, <1>9, AlmostSteps
  <2> QED BY <1>1, <2>1 DEF TrafficInv
<1>10. CASE v.path[r] = <<>> /\ plan' \in BecomesIdle(f, last, r)
  <2>1. Step(f, v, plan')
    BY <1>5, <1>7, <1>10, BecomesIdleSteps, StepsAdd
  <2>2. Holds(f, plan', handled \cup {r})
    BY <1>4, <1>10, <2>1, AlmostSteps
  <2> QED BY <1>1, <2>2 DEF TrafficInv
<1> QED BY <1>3, <1>8, <1>9, <1>10

\* The clock moves no robot, and every robot with a path left has an event to
\* come once nothing is left to do now.
LEMMA TickHolds ==
    ASSUME TrafficInv, Tick
    PROVE  TrafficInv'
<1>1. /\ floor' = floor /\ handled' = {}
      /\ Running /\ TimeIsUp
      /\ plan' = [plan EXCEPT
           !.held  = Shifted(@, phase' = 0),
           !.moves = [r \in Robots |-> {<<m[1] - 1, m[2]>> : m \in {n \in @[r] : n[1] > 0}}],
           !.due   = [r \in Robots |-> IF @[r] = None THEN None ELSE @[r] - 1]]
  BY DEF Tick
<1>2. PICK w : w = plan'
  OBVIOUS
<1>3. /\ Fields \subseteq DOMAIN w /\ w.path = plan.path /\ w.reserved = plan.reserved
      /\ w.raised = plan.raised
      /\ w.moves = [r \in Robots |-> {<<m[1] - 1, m[2]>> : m \in {n \in plan.moves[r] : n[1] > 0}}]
  BY <1>1, <1>2 DEF TrafficInv, Holds, Lite, Fields
<1>4. plan.moves \in [Robots -> SUBSET (Nat \X Nat)]
  BY DEF TrafficInv, Holds, Lite
<1>5. ASSUME NEW r \in Robots, NEW m \in plan.moves[r], m[1] > 0
      PROVE  <<m[1] - 1, m[2]>> \in Nat \X Nat
  <2>1. m \in Nat \X Nat
    BY <1>4
  <2>2. m[1] \in Nat /\ m[2] \in Nat
    BY <2>1
  <2> QED BY <1>5, <2>2
<1>6. w.moves \in [Robots -> SUBSET (Nat \X Nat)]
  BY <1>3, <1>5
<1>7. Lite(w)
  BY <1>3, <1>6 DEF TrafficInv, Holds, Lite
<1>8. ASSUME w.raised = "no", NEW r \in Robots, w.path[r] # <<>>
      PROVE  \E m \in w.moves[r] : m[1] > 0 \/ r \notin {}
  <2>1. PICK m \in plan.moves[r] : m[1] > 0 \/ r \notin handled
    BY <1>3, <1>8 DEF TrafficInv, Holds
  <2>2. m \in Nat \X Nat
    BY <1>4
  <2>3. m[1] > 0
    BY <1>1, <2>1, <2>2 DEF TimeIsUp
  <2>4. <<m[1] - 1, m[2]>> \in w.moves[r]
    BY <1>3, <2>3
  <2> QED BY <2>4
<1>9. Holds(floor, w, {})
  BY <1>3, <1>7, <1>8 DEF TrafficInv, Holds
<1> QED BY <1>1, <1>2, <1>9 DEF TrafficInv

\* Every step of the system keeps the invariant.
LEMMA NextHolds ==
    ASSUME TrafficInv, [Next]_vars
    PROVE  TrafficInv'
<1>1. ASSUME NEW r \in Robots, NEW retry \in 0 .. MaxRetries, MoveStep(r, retry)
      PROVE  TrafficInv'
  BY <1>1, StuckHolds, AdvanceHolds DEF MoveStep
<1>2. ASSUME NEW r \in Robots,
             \/ \E g \in Goals :
                   Assign(r, g) \/ HandleAction(r, g) \/ PlanAnew(r, g) \/ PickUp(r, g) \/ PutDown(r, g)
             \/ \E p \in Ports : FetchBin(r, p)
             \/ Retry(r) \/ DeliverBin(r) \/ Requeue(r) \/ Complete(r) \/ Orphaned(r)
      PROVE  TrafficInv'
  BY <1>2, SurroundingsHold
<1>3. CASE Tick
  BY <1>3, TickHolds
<1>4. CASE UNCHANGED vars
  BY <1>4 DEF vars, TrafficInv
<1> QED BY <1>1, <1>2, <1>3, <1>4 DEF Next

\* The invariant holds in every state.
LEMMA TrafficInvariant == Spec => []TrafficInv
<1>1. Init => TrafficInv
  BY InitHolds
<1>2. TrafficInv /\ [Next]_vars => TrafficInv'
  BY NextHolds
<1> QED BY <1>1, <1>2, PTL DEF Spec

----------------------------------------------------------------------------
(* The theorems *)

\* No two robots ever stand on one cell, whatever becomes of their bookings:
\* a move onto a cell is only made when no other robot is on it.
THEOREM NoCollisions == Spec => []OneRobotPerCell
<1>1. TrafficInv => OneRobotPerCell
  BY DEF TrafficInv, Holds, Apart, OneRobotPerCell
<1> QED BY <1>1, TrafficInvariant, PTL

\* The robot that a port has on it stands there and holds its reservation;
\* robot_enters never raises, for every grid and every number of robots.
THEOREM PortsKnowTheirRobot == Spec => []PortPresence
<1>1. TrafficInv => PortPresence
  BY DEF TrafficInv, Holds, OnPorts, PortPresence
<1> QED BY <1>1, TrafficInvariant, PTL

\* Every robot with a path left has a ROBOT_MOVE event to come, unless the run
\* has been stopped by an error: no handler leaves a robot behind on its way.
THEOREM NoLostWakeUp == Spec => []PathHasMove
<1>1. TrafficInv => PathHasMove
  BY DEF TrafficInv, Holds, PathHasMove, Running
<1> QED BY <1>1, TrafficInvariant, PTL

\* What is left of every path is a walk from where its robot stands: each path
\* that any handler sets is one, and a move takes the first cell of it.
THEOREM NoJumps == Spec => []PathsAreWalks
<1>1. TrafficInv => PathsAreWalks
  BY DEF TrafficInv, Holds, WalkFrom, PathsAreWalks
<1> QED BY <1>1, TrafficInvariant, PTL

=============================================================================
