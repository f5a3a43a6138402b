----------------------- MODULE ReservationTable_proofs ----------------------
(***************************************************************************)
(* The two halves of the reservation table agree, a slot has at most one   *)
(* robot, and the cleanup bounds the table: for every grid, every number of *)
(* robots and every order of calls.                                         *)
(***************************************************************************)
EXTENDS ReservationTable, TLAPS

\* IndexesAgree, of any table.
Agree(t) ==
    \A r \in Robots, k \in Slots : t.listed[r][k] = IF t.held[k] = r THEN 1 ELSE 0

\* What every call preserves.
Good(t) == t \in TableType /\ Agree(t)

\* A change of the table by which new slots, if any, lie at or after the time.
OnlyNewAfter(t, u, time) ==
    \A k \in Slots : u.held[k] # None => t.held[k] # None \/ time <= SlotTime(k)

----------------------------------------------------------------------------
(* The methods *)

\* The table a run starts with is good.
LEMMA EmptyTableGood == Good(EmptyTable)
BY TableAssumption DEF Good, Agree, EmptyTable, TableType

\* Entering slots that no other robot holds.
LEMMA EnterGood ==
    ASSUME NEW t, Good(t), NEW r \in Robots, NEW K,
           \A k \in K : IsFree(t, k, r)
    PROVE  Good(Enter(t, r, K))
<1> DEFINE u == Enter(t, r, K)
<1>1. \A k \in Slots : u.held[k] = IF k \in K THEN r ELSE t.held[k]
  BY DEF Enter
<1>2. u.listed = [t.listed EXCEPT ![r] =
                    [k \in Slots |-> IF k \in K /\ t.held[k] # r THEN @[k] + 1 ELSE @[k]]]
  BY DEF Enter
<1>3. /\ t.held \in [Slots -> Robots \cup {None}]
      /\ t.listed \in [Robots -> [Slots -> Nat]]
  BY DEF Good, TableType
<1>4. u \in TableType
  <2>1. [k \in Slots |-> IF k \in K /\ t.held[k] # r
                         THEN t.listed[r][k] + 1 ELSE t.listed[r][k]] \in [Slots -> Nat]
    BY <1>3
  <2>2. u.listed \in [Robots -> [Slots -> Nat]]
    BY <1>2, <1>3, <2>1
  <2>3. [k \in Slots |-> IF k \in K THEN r ELSE t.held[k]] \in [Slots -> Robots \cup {None}]
    BY <1>3
  <2> QED BY <2>2, <2>3 DEF Enter, TableType
<1>5. ASSUME NEW s \in Robots, NEW k \in Slots
      PROVE  u.listed[s][k] = IF u.held[k] = s THEN 1 ELSE 0
  <2>1. t.listed[s][k] = IF t.held[k] = s THEN 1 ELSE 0
    BY DEF Good, Agree
  <2>2. k \in K => t.held[k] \in {None, r}
    BY DEF IsFree
  <2>3. CASE s = r
    BY <1>1, <1>2, <1>3, <2>1, <2>2, <2>3
  <2>4. CASE s # r
    BY <1>1, <1>2, <1>3, <2>1, <2>2, <2>4, TableAssumption
  <2> QED BY <2>3, <2>4
<1> QED BY <1>4, <1>5 DEF Good, Agree

\* Deleting slots, whoever holds them.
LEMMA DeleteGood ==
    ASSUME NEW t, Good(t), NEW K
    PROVE  Good(Delete(t, K))
<1> DEFINE u == Delete(t, K)
<1>1. /\ t.held \in [Slots -> Robots \cup {None}]
      /\ t.listed \in [Robots -> [Slots -> Nat]]
  BY DEF Good, TableType
<1>2. u \in TableType
  BY <1>1 DEF Delete, TableType
<1>3. ASSUME NEW s \in Robots, NEW k \in Slots
      PROVE  u.listed[s][k] = IF u.held[k] = s THEN 1 ELSE 0
  <2>1. t.listed[s][k] = IF t.held[k] = s THEN 1 ELSE 0
    BY DEF Good, Agree
  <2>2. u.held[k] = IF k \in K THEN None ELSE t.held[k]
    BY DEF Delete
  <2>3. u.listed[s][k] = IF k \in K /\ t.held[k] = s /\ t.listed[s][k] > 0
                         THEN t.listed[s][k] - 1 ELSE t.listed[s][k]
    BY DEF Delete
  <2> QED BY <2>1, <2>2, <2>3, TableAssumption
<1> QED BY <1>2, <1>3 DEF Good, Agree

\* release_all.
LEMMA ReleaseAllGood ==
    ASSUME NEW t, Good(t), NEW r \in Robots
    PROVE  Good(ReleaseAll(t, r))
<1> DEFINE u == ReleaseAll(t, r)
<1>1. /\ t.held \in [Slots -> Robots \cup {None}]
      /\ t.listed \in [Robots -> [Slots -> Nat]]
  BY DEF Good, TableType
<1>2. u \in TableType
  BY <1>1 DEF ReleaseAll, TableType
<1>3. ASSUME NEW s \in Robots, NEW k \in Slots
      PROVE  u.listed[s][k] = IF u.held[k] = s THEN 1 ELSE 0
  <2>1. /\ t.listed[s][k] = IF t.held[k] = s THEN 1 ELSE 0
        /\ t.listed[r][k] = IF t.held[k] = r THEN 1 ELSE 0
    BY DEF Good, Agree
  <2>2. u.held[k] = IF t.listed[r][k] > 0 /\ t.held[k] = r THEN None ELSE t.held[k]
    BY DEF ReleaseAll
  <2>3. u.listed[s][k] = IF s = r THEN 0 ELSE t.listed[s][k]
    BY <1>1 DEF ReleaseAll
  <2> QED BY <2>1, <2>2, <2>3, TableAssumption
<1> QED BY <1>2, <1>3 DEF Good, Agree

\* reserve, of any slot.
LEMMA ReserveGood ==
    ASSUME NEW t, Good(t), NEW r \in Robots, NEW k
    PROVE  Good(Reserve(t, r, k))
BY EnterGood, \A j \in {k} : j = k DEF Reserve

\* release, of any slot.
LEMMA ReleaseGood ==
    ASSUME NEW t, Good(t), NEW r \in Robots, NEW k
    PROVE  Good(Release(t, r, k))
BY DeleteGood DEF Release

\* reserve_path, of any path.
LEMMA ReservePathGood ==
    ASSUME NEW t, Good(t), NEW r \in Robots, NEW path, NEW start
    PROVE  Good(ReservePath(t, r, path, start))
BY EnterGood DEF ReservePath, ReserveEach

\* Deleting brings no slots, and what is deleted is not held any more.
LEMMA DeleteChanges ==
    ASSUME NEW t, NEW K, NEW time
    PROVE  /\ OnlyNewAfter(t, Delete(t, K), time)
           /\ \A k \in Slots \cap K : Delete(t, K).held[k] = None
BY DEF Delete, OnlyNewAfter

\* The same for the calls that release.
LEMMA ReleaseChanges ==
    ASSUME NEW t, NEW r, NEW k, NEW time
    PROVE  /\ OnlyNewAfter(t, Release(t, r, k), time)
           /\ OnlyNewAfter(t, ReleaseAll(t, r), time)
<1>1. OnlyNewAfter(t, Release(t, r, k), time)
  BY DeleteChanges DEF Release, OnlyNewAfter
<1>2. OnlyNewAfter(t, ReleaseAll(t, r), time)
  BY DEF ReleaseAll, OnlyNewAfter
<1> QED BY <1>1, <1>2

\* Entering brings the slots that are entered.
LEMMA EnterChanges ==
    ASSUME NEW t, NEW r, NEW K, NEW time, \A k \in K : time <= SlotTime(k)
    PROVE  OnlyNewAfter(t, Enter(t, r, K), time)
BY DEF Enter, OnlyNewAfter

\* So do the calls that book.
LEMMA BookChanges ==
    ASSUME NEW t, NEW r, NEW time
    PROVE  /\ \A k : time <= SlotTime(k) => OnlyNewAfter(t, Reserve(t, r, k), time)
           /\ \A path, start : (\A k \in PathSlots(path, start) : time <= SlotTime(k))
                                 => OnlyNewAfter(t, ReservePath(t, r, path, start), time)
<1>1. OnlyNewAfter(t, t, time)
  BY DEF OnlyNewAfter
<1>2. ASSUME NEW k, time <= SlotTime(k)
      PROVE  OnlyNewAfter(t, Reserve(t, r, k), time)
  <2>1. OnlyNewAfter(t, Enter(t, r, {k}), time)
    BY <1>2, EnterChanges, \A j \in {k} : j = k
  <2> QED BY <1>1, <2>1 DEF Reserve
<1>3. ASSUME NEW path, NEW start, \A k \in PathSlots(path, start) : time <= SlotTime(k)
      PROVE  OnlyNewAfter(t, ReservePath(t, r, path, start), time)
  <2>1. OnlyNewAfter(t, ReserveEach(t, r, PathSlots(path, start)), time)
    BY <1>3, EnterChanges DEF ReserveEach
  <2> QED BY <1>1, <2>1 DEF ReservePath
<1> QED BY <1>2, <1>3

----------------------------------------------------------------------------
(* The steps *)

\* The start of a run.
LEMMA TableInit == Init => Good(table) /\ TableTypeOK /\ NoOldSlots
<1> SUFFICES ASSUME Init PROVE Good(table) /\ TableTypeOK /\ NoOldSlots
  OBVIOUS
<1>1. Good(table)
  BY EmptyTableGood DEF Init
<1>2. now \in Times
  BY TableAssumption DEF Init, Times
<1>3. NoOldSlots
  BY DEF Init, EmptyTable, NoOldSlots
<1> QED BY <1>1, <1>2, <1>3 DEF Good, TableTypeOK, Init

\* Whatever call is made, the table stays good.
LEMMA TableStep == Good(table) /\ TableTypeOK /\ [Next]_vars => Good(table)' /\ TableTypeOK'
<1> SUFFICES ASSUME Good(table), TableTypeOK, [Next]_vars
             PROVE  Good(table') /\ pos' \in [Robots -> Cells] /\ now' \in Times
  BY DEF Good, Agree, TableTypeOK, TableType
<1> USE DEF TableTypeOK
<1>1. ASSUME NEW r \in Robots, ReserveCell(r) \/ ForgetPast(r) \/ ReleaseRobot(r)
      PROVE  Good(table') /\ UNCHANGED <<pos, now>>
  BY <1>1, ReserveGood, DeleteGood, ReleaseAllGood DEF ReserveCell, ForgetPast, ReleaseRobot
<1>2. ASSUME NEW r \in Robots, NEW c \in Cells, LeavePort(r, c)
      PROVE  Good(table') /\ UNCHANGED <<pos, now>>
  BY <1>2, ReserveGood, ReleaseGood DEF LeavePort
<1>3. ASSUME NEW r \in Robots, NEW c \in Cells, Move(r, c)
      PROVE  Good(table') /\ pos' \in [Robots -> Cells] /\ UNCHANGED now
  BY <1>3, ReleaseGood DEF Move
<1>4. ASSUME NEW r \in Robots, NEW path \in Paths, NEW start \in Times, BookPath(r, path, start)
      PROVE  Good(table') /\ UNCHANGED <<pos, now>>
  BY <1>4, ReservePathGood DEF BookPath
<1>5. ASSUME AdvanceTime
      PROVE  Good(table') /\ UNCHANGED pos /\ now' \in Times
  <2>1. now' \in Times
    BY <1>5, TableAssumption DEF AdvanceTime, Times
  <2> QED BY <1>5, <2>1, DeleteGood DEF AdvanceTime, CleanupBefore
<1>6. CASE UNCHANGED vars
  BY <1>6 DEF vars
<1> QED BY <1>1, <1>2, <1>3, <1>4, <1>5, <1>6 DEF Next

\* A step brings only slots that do not lie in the past, and the clock goes on
\* only one time unit at a time.
LEMMA NothingFromThePast ==
    ASSUME TableTypeOK, Next
    PROVE  \/ now' = now /\ OnlyNewAfter(table, table', now)
           \/ AdvanceTime
<1>1. now \in Nat
  BY TableAssumption DEF TableTypeOK, Times
<1>2. ASSUME NEW r \in Robots, ReserveCell(r)
      PROVE  OnlyNewAfter(table, table', now)
  BY <1>1, <1>2, BookChanges DEF ReserveCell, SlotTime
<1>3. ASSUME NEW r \in Robots, ForgetPast(r) \/ ReleaseRobot(r)
      PROVE  OnlyNewAfter(table, table', now)
  BY <1>3, DeleteChanges, ReleaseChanges DEF ForgetPast, ReleaseRobot
<1>4. ASSUME NEW r \in Robots, NEW c \in Cells, LeavePort(r, c)
      PROVE  OnlyNewAfter(table, table', now)
  <2> DEFINE t == Reserve(table, r, <<c, now + 1>>)
  <2>1. OnlyNewAfter(table, t, now)
    BY <1>1, BookChanges DEF SlotTime
  <2>2. OnlyNewAfter(t, Release(t, r, <<pos[r], now>>), now)
    BY ReleaseChanges
  <2> QED BY <1>4, <2>1, <2>2 DEF LeavePort, OnlyNewAfter
<1>5. ASSUME NEW r \in Robots, NEW c \in Cells, Move(r, c)
      PROVE  OnlyNewAfter(table, table', now)
  BY <1>5, ReleaseChanges DEF Move, OnlyNewAfter
<1>6. ASSUME NEW r \in Robots, NEW path \in Paths, NEW start \in Times, BookPath(r, path, start)
      PROVE  OnlyNewAfter(table, table', now)
  <2>1. now <= start /\ start \in Nat
    BY <1>6, TableAssumption DEF BookPath, Bookable, Times
  <2>2. DOMAIN path \subseteq Nat \ {0}
    BY DEF Paths
  <2>3. \A k \in PathSlots(path, start) : now <= SlotTime(k)
    BY <1>1, <2>1, <2>2 DEF PathSlots, PathSlot, SlotTime
  <2> QED BY <1>6, <2>3, BookChanges DEF BookPath
<1>7. Next => AdvanceTime \/ now' = now
  BY DEF Next, ReserveCell, ForgetPast, ReleaseRobot, LeavePort, Move, BookPath
<1> QED BY <1>2, <1>3, <1>4, <1>5, <1>6, <1>7 DEF Next

\* The cleanup keeps pace with the clock.
LEMMA OldSlotsStep == TableTypeOK /\ NoOldSlots /\ [Next]_vars => NoOldSlots'
<1> SUFFICES ASSUME TableTypeOK, NoOldSlots, [Next]_vars,
                    NEW k \in Slots, NEW m \in Times,
                    table'.held[k] # None, m <= now', m % CleanupPeriod = 0
             PROVE  m <= SlotTime(k)
  BY DEF NoOldSlots
<1>1. now \in Nat /\ m \in Nat /\ SlotTime(k) \in Nat
  BY TableAssumption DEF TableTypeOK, Times, Slots, SlotTime
<1>2. table.held[k] # None /\ m <= now => m <= SlotTime(k)
  BY DEF NoOldSlots
<1>3. CASE now' = now /\ OnlyNewAfter(table, table', now)
  BY <1>1, <1>2, <1>3 DEF OnlyNewAfter
<1>4. CASE AdvanceTime
  <2>1. CASE now' % CleanupPeriod = 0
    <3>1. table' = Delete(table, {j \in Slots : SlotTime(j) < now'})
      BY <1>4, <2>1 DEF AdvanceTime, CleanupBefore
    <3>2. SlotTime(k) < now' => table'.held[k] = None
      BY <3>1, DeleteChanges
    <3> QED BY <1>1, <1>4, <3>2 DEF AdvanceTime
  <2>2. CASE now' % CleanupPeriod # 0
    <3>1. table' = table /\ m # now'
      BY <1>4, <2>2 DEF AdvanceTime
    <3> QED BY <1>1, <1>2, <1>4, <3>1 DEF AdvanceTime
  <2> QED BY <2>1, <2>2
<1>5. CASE UNCHANGED vars
  BY <1>2, <1>5 DEF vars
<1> QED BY <1>3, <1>4, <1>5, NothingFromThePast

----------------------------------------------------------------------------
(* Theorems *)

\* The invariant behind the others.
LEMMA TableGood == Spec => [](Good(table) /\ TableTypeOK)
BY TableInit, TableStep, PTL DEF Spec

\* Types are kept.
THEOREM TableTypeCorrect == Spec => []TableTypeOK
BY TableGood, PTL

\* The dictionary and the lists agree after every call, in any order.
THEOREM TableIndexesAgree == Spec => []IndexesAgree
<1>1. Good(table) => IndexesAgree
  BY DEF Good, Agree, IndexesAgree
<1> QED BY <1>1, TableGood, PTL

\* INV-R1: no slot is listed for two robots.
THEOREM SlotsExclusive == Spec => []OneRobotPerSlot
<1>1. Good(table) => OneRobotPerSlot
  BY DEF Good, Agree, OneRobotPerSlot
<1> QED BY <1>1, TableGood, PTL

\* The engine's cleanup bounds what the table remembers.
THEOREM PastForgotten == Spec => []NoOldSlots
<1>1. Init => NoOldSlots
  BY TableInit
<1>2. TableTypeOK /\ NoOldSlots /\ [Next]_vars => NoOldSlots'
  BY OldSlotsStep
<1> QED BY <1>1, <1>2, TableTypeCorrect, PTL DEF Spec

\* What Enter leaves in a slot.
LEMMA EnterHeld ==
    ASSUME NEW t, NEW r, NEW K, NEW k \in Slots
    PROVE  Enter(t, r, K).held[k] = IF k \in K THEN r ELSE t.held[k]
BY DEF Enter

----------------------------------------------------------------------------
(* The abstract book *)

\* What a call for robot r may do to the dictionary.
Trades(r, t, u) ==
    /\ DOMAIN u.held = DOMAIN t.held
    /\ \A k \in DOMAIN t.held : u.held[k] # t.held[k] => {t.held[k], u.held[k]} = {r, None}

\* Entering free slots and deleting slots of one robot are trades of its.
LEMMA OwnTrades ==
    ASSUME NEW t, t.held \in [Slots -> Robots \cup {None}], NEW r \in Robots, NEW K
    PROVE  /\ Trades(r, t, t)
           /\ (\A k \in K : IsFree(t, k, r)) => Trades(r, t, Enter(t, r, K))
           /\ (\A k \in K \cap Slots : t.held[k] = r) => Trades(r, t, Delete(t, K))
           /\ Trades(r, t, ReleaseAll(t, r))
<1>1. DOMAIN t.held = Slots
  OBVIOUS
<1>2. ASSUME \A k \in K : IsFree(t, k, r)
      PROVE  Trades(r, t, Enter(t, r, K))
  BY <1>1, <1>2 DEF Trades, Enter, IsFree
<1>3. ASSUME \A k \in K \cap Slots : t.held[k] = r
      PROVE  Trades(r, t, Delete(t, K))
  BY <1>1, <1>3 DEF Trades, Delete
<1>4. Trades(r, t, ReleaseAll(t, r))
  BY <1>1 DEF Trades, ReleaseAll
<1> QED BY <1>2, <1>3, <1>4 DEF Trades

\* Every method for one robot is a trade of its.
LEMMA CallTrades ==
    ASSUME NEW t, t.held \in [Slots -> Robots \cup {None}], NEW r \in Robots
    PROVE  /\ \A k : Trades(r, t, Reserve(t, r, k)) /\ Trades(r, t, Release(t, r, k))
           /\ \A path, start : Trades(r, t, ReservePath(t, r, path, start))
<1>1. ASSUME NEW k
      PROVE  Trades(r, t, Reserve(t, r, k)) /\ Trades(r, t, Release(t, r, k))
  BY OwnTrades, \A j \in {k} : j = k DEF Reserve, Release
<1>2. ASSUME NEW path, NEW start
      PROVE  Trades(r, t, ReservePath(t, r, path, start))
  BY OwnTrades DEF ReservePath, ReserveEach
<1> QED BY <1>1, <1>2

\* A run starts with an empty book.
LEMMA BookStarts == Init => Book!BookInit
BY DEF Init, EmptyTable, Book!BookInit

\* Every step of the table is one of the book, or none.
LEMMA BookStep ==
    Good(table) /\ TableTypeOK /\ [Next]_vars => [Book!BookNext]_<<table.held, now>>
<1> SUFFICES ASSUME Good(table), TableTypeOK, [Next]_vars
             PROVE  Book!BookNext \/ UNCHANGED <<table.held, now>>
  OBVIOUS
<1>1. table.held \in [Slots -> Robots \cup {None}]
  BY DEF Good, TableType
<1>2. ASSUME NEW r \in Robots, Trades(r, table, table'), UNCHANGED now
      PROVE  Book!BookNext
  BY <1>2 DEF Trades, Book!BookNext, Book!Trade
<1>3. ASSUME NEW r \in Robots, ReserveCell(r) \/ ForgetPast(r) \/ ReleaseRobot(r)
      PROVE  Trades(r, table, table') /\ UNCHANGED now
  BY <1>1, <1>3, OwnTrades, CallTrades DEF ReserveCell, ForgetPast, ReleaseRobot
<1>4. ASSUME NEW r \in Robots, NEW c \in Cells, LeavePort(r, c)
      PROVE  Trades(r, table, table') /\ UNCHANGED now
  <2> DEFINE exit == <<c, now + 1>>
             here == <<pos[r], now>>
             t == Reserve(table, r, exit)
  <2>1. IsFree(table, exit, r) /\ table' = Release(t, r, here) /\ UNCHANGED now
    BY <1>4 DEF LeavePort
  <2>2. t = Enter(table, r, {exit})
    BY <2>1 DEF Reserve
  <2>3. t.held \in [Slots -> Robots \cup {None}]
    BY <1>1, <2>2 DEF Enter
  <2>4. exit # here
    BY <1>4 DEF LeavePort
  <2>5. ASSUME NEW k \in Slots
        PROVE  t.held[k] = IF k = exit THEN r ELSE table.held[k]
    BY <2>2, EnterHeld
  <2>6. /\ DOMAIN table'.held = Slots
        /\ \A k \in Slots : table'.held[k] = IF k = here /\ t.held[here] = r THEN None
                                             ELSE t.held[k]
    BY <2>1, <2>3 DEF Release, Delete
  <2>7. ASSUME NEW k \in Slots, table'.held[k] # table.held[k]
        PROVE  {table.held[k], table'.held[k]} = {r, None}
    <3>1. CASE k = exit
      BY <2>1, <2>4, <2>5, <2>6, <2>7, <3>1 DEF IsFree
    <3>2. CASE k # exit
      BY <2>5, <2>6, <2>7, <3>2
    <3> QED BY <3>1, <3>2
  <2> QED BY <1>1, <2>1, <2>6, <2>7 DEF Trades
<1>5. ASSUME NEW r \in Robots, NEW c \in Cells, Move(r, c)
      PROVE  Trades(r, table, table') /\ UNCHANGED now
  BY <1>1, <1>5, OwnTrades, CallTrades DEF Move
<1>6. ASSUME NEW r \in Robots, NEW path \in Paths, NEW start \in Times, BookPath(r, path, start)
      PROVE  Trades(r, table, table') /\ UNCHANGED now
  BY <1>1, <1>6, CallTrades DEF BookPath
<1>7. ASSUME AdvanceTime
      PROVE  Book!BookNext
  <2>1. /\ DOMAIN table'.held = DOMAIN table.held
        /\ \A k \in DOMAIN table.held : table'.held[k] # table.held[k] =>
               table'.held[k] = None /\ SlotTime(k) < now'
    BY <1>1, <1>7 DEF AdvanceTime, CleanupBefore, Delete
  <2> QED BY <1>7, <2>1 DEF AdvanceTime, Book!BookNext, Book!Pass, Book!SlotTime, SlotTime
<1>8. CASE UNCHANGED vars
  BY <1>8 DEF vars
<1> QED BY <1>2, <1>3, <1>4, <1>5, <1>6, <1>7, <1>8 DEF Next

\* The table implements the abstract book of slots.
THEOREM TableImplementsBook == Spec => BookKept
BY BookStarts, BookStep, TableGood, PTL DEF Spec, BookKept, Book!BookSpec

=============================================================================
