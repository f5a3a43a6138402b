-------------------------- MODULE Campaign_proofs --------------------------
(***************************************************************************)
(* What the campaign leaves on the disk, for every set of runs, every      *)
(* number of rows and faults, and every sequence of calls: the types       *)
(* (TypesOK), the logs of failed attempts (LogsOK), the lines of completed *)
(* runs in runs.csv and the metadata (ExportOK), and the rows of all       *)
(* tables, on which PASS rests (RowsOK).                                   *)
(***************************************************************************)
EXTENDS Campaign, TLAPS, WellFoundedInduction, SequenceTheorems, FiniteSetTheorems

----------------------------------------------------------------------------
(* Sequences with places left out *)

\* Pairs of numbers in their order.
Below == {ss \in Nat \X Nat : ss[1] < ss[2]}

\* The order of the numbers has no infinite descent.
LEMMA BelowWF == IsWellFoundedOn(Below, Nat)
BY NatLessThanWellFounded, Zenon DEF OpToRel, Below

\* A set with 0, and with every number up to n whose predecessor it has, has
\* all numbers up to n.
LEMMA Induct ==
    ASSUME NEW n \in Nat, NEW P, 0 \in P, \A i \in 1 .. n : i - 1 \in P => i \in P
    PROVE  0 .. n \subseteq P
<1> DEFINE T == (0 .. n) \ P
<1>1. SUFFICES ASSUME T # {} PROVE FALSE
  OBVIOUS
<1>2. T \subseteq Nat
  OBVIOUS
<1>3. PICK x \in T : \A y \in T : <<y, x>> \notin Below
  <2> HIDE DEF T
  <2> QED BY <1>1, <1>2, BelowWF, WFMin
<1>4. \A y \in T : ~(y < x)
  BY <1>2, <1>3 DEF Below
<1>5. x \in 1 .. n /\ x - 1 \in 0 .. n
  OBVIOUS
<1> QED BY <1>4, <1>5

\* The prefixes of what is kept are well defined.
PrefixesKept(s, out, n, g) ==
    /\ DOMAIN g = 0 .. n
    /\ g[0] = <<>>
    /\ \A i \in 1 .. n : g[i] = IF i \in out THEN g[i - 1] ELSE Append(g[i - 1], s[i])

\* The recursion of Without has the prefixes that it should have.
LEMMA PrefixesExist ==
    ASSUME NEW S, NEW s \in Seq(S), NEW out
    PROVE  \E g : PrefixesKept(s, out, Len(s), g) /\ Without(s, out) = g[Len(s)]
<1> DEFINE n == Len(s)
           Step(g, i) == IF i = 0 THEN <<>>
                         ELSE IF i \in out THEN g[i - 1] ELSE Append(g[i - 1], s[i])
           Good(k) == \E g : g = [i \in 0 .. k |-> Step(g, i)]
           P == {k \in 0 .. n : Good(k)}
<1>1. n \in Nat
  BY LenProperties
<1>2. 0 \in P
  <2> DEFINE g == [i \in 0 .. 0 |-> <<>>]
  <2>1. g = [i \in 0 .. 0 |-> Step(g, i)]
    OBVIOUS
  <2> HIDE DEF g
  <2>2. Good(0)
    BY <2>1
  <2> HIDE DEF Good
  <2> QED BY <1>1, <2>2
<1>3. ASSUME NEW k \in 1 .. n, k - 1 \in P
      PROVE  k \in P
  <2>1. PICK g : g = [i \in 0 .. k - 1 |-> Step(g, i)]
    BY <1>3
  <2> DEFINE h == [i \in 0 .. k |-> IF i = k THEN Step(g, k) ELSE g[i]]
  <2>2. \A i \in 0 .. k : h[i] = Step(h, i)
    <3>1. \A i \in 0 .. k - 1 : g[i] = Step(g, i)
      <4> DEFINE f == [i \in 0 .. k - 1 |-> Step(g, i)]
      <4>1. \A i \in 0 .. k - 1 : f[i] = Step(g, i)
        OBVIOUS
      <4>2. f = g
        BY <2>1
      <4> HIDE DEF f, Step
      <4> QED BY <4>1, <4>2
    <3> TAKE i \in 0 .. k
    <3>2. CASE i = 0
      BY <1>1, <3>1, <3>2
    <3>3. CASE i \in 1 .. k
      <4>1. h[i - 1] = g[i - 1]
        BY <1>1, <3>3
      <4>2. h[i] = Step(g, i)
        BY <1>1, <3>1, <3>3
      <4> HIDE DEF h
      <4> QED BY <3>3, <4>1, <4>2
    <3> QED BY <1>1, <3>2, <3>3
  <2>3. h = [i \in 0 .. k |-> Step(h, i)]
    <3>1. h = [i \in 0 .. k |-> h[i]]
      OBVIOUS
    <3> HIDE DEF h, Step
    <3> QED BY <2>2, <3>1
  <2> HIDE DEF h
  <2>4. Good(k)
    BY <2>3
  <2> HIDE DEF Good
  <2> QED BY <1>1, <2>4
<1>4. Good(n)
  <2> HIDE DEF P
  <2>1. 0 .. n \subseteq P
    BY <1>1, <1>2, <1>3, Induct
  <2> USE DEF P
  <2> HIDE DEF Good
  <2> QED BY <1>1, <2>1
<1> DEFINE kept[i \in 0 .. n] ==
             IF i = 0 THEN <<>>
             ELSE IF i \in out THEN kept[i - 1] ELSE Append(kept[i - 1], s[i])
<1>5. kept = [i \in 0 .. n |-> Step(kept, i)]
  BY <1>4, Zenon
<1>6. Without(s, out) = kept[n]
  BY Zenon DEF Without
<1> HIDE DEF kept
<1>7. DOMAIN kept = 0 .. n /\ \A i \in 0 .. n : kept[i] = Step(kept, i)
  <2> DEFINE f == [i \in 0 .. n |-> Step(kept, i)]
  <2>1. DOMAIN f = 0 .. n /\ \A i \in 0 .. n : f[i] = Step(kept, i)
    OBVIOUS
  <2>2. f = kept
    BY <1>5
  <2> HIDE DEF f, Step
  <2> QED BY <2>1, <2>2
<1>8. PrefixesKept(s, out, n, kept)
  <2>1. kept[0] = <<>>
    BY <1>1, <1>7
  <2>2. \A i \in 1 .. n : kept[i] = IF i \in out THEN kept[i - 1] ELSE Append(kept[i - 1], s[i])
    <3>1. \A i \in 1 .. n : i \in 0 .. n /\ i # 0
      BY <1>1
    <3> HIDE DEF n
    <3> QED BY <1>7, <3>1
  <2> HIDE DEF n
  <2> QED BY <1>7, <2>1, <2>2 DEF PrefixesKept
<1> QED BY <1>6, <1>8

\* Keeping the places outside a set keeps their elements and no other; of a class
\* there are as many as before if none of it was dropped, and no more in any case.
AtMostOne(s, V) == \A i, j \in DOMAIN s : s[i] \in V /\ s[j] \in V => i = j

LEMMA WithoutKeeps ==
    ASSUME NEW S, NEW s \in Seq(S), NEW out
    PROVE  /\ Without(s, out) \in Seq(S)
           /\ \A j \in DOMAIN Without(s, out) : \E i \in DOMAIN s \ out : Without(s, out)[j] = s[i]
           /\ \A i \in DOMAIN s \ out : \E j \in DOMAIN Without(s, out) : Without(s, out)[j] = s[i]
           /\ \A V : AtMostOne(s, V) => AtMostOne(Without(s, out), V)
           /\ \A V : (\A i \in DOMAIN s : s[i] \in V => i \notin out) /\ AtMostOne(Without(s, out), V)
                     => AtMostOne(s, V)
<1> DEFINE n == Len(s)
<1>1. n \in Nat /\ DOMAIN s = 1 .. n /\ \A i \in 1 .. n : s[i] \in S
  BY LenProperties
<1>2. PICK g : PrefixesKept(s, out, n, g) /\ Without(s, out) = g[n]
  BY PrefixesExist
<1> DEFINE From(i) == \A j \in DOMAIN g[i] : \E m \in 1 .. i \ out : g[i][j] = s[m]
           Into(i) == \A m \in 1 .. i \ out : \E j \in DOMAIN g[i] : g[i][j] = s[m]
           Once(i) == \A V : AtMostOne(s, V) => AtMostOne(g[i], V)
           Sep(r, M) == \A x \in M, y \in M : x # y =>
                           \E j \in DOMAIN r, l \in DOMAIN r :
                              j # l /\ r[j] = s[x] /\ r[l] = s[y]
           Apart(i) == Sep(g[i], 1 .. i \ out)
           P == {i \in 0 .. n : g[i] \in Seq(S) /\ From(i) /\ Into(i) /\ Once(i) /\ Apart(i)}
<1>3. 0 \in P
  <2>1. g[0] = <<>> /\ <<>> \in Seq(S) /\ DOMAIN <<>> = {}
    BY <1>2 DEF PrefixesKept
  <2>2. From(0) /\ Into(0) /\ Apart(0)
    BY <2>1
  <2>3. Once(0)
    BY <2>1 DEF AtMostOne
  <2>4. g[0] \in Seq(S) /\ 0 \in 0 .. n
    BY <1>1, <2>1
  <2> HIDE DEF From, Into, Once, Apart, n
  <2> QED BY <2>2, <2>3, <2>4
<1>4. ASSUME NEW i \in 1 .. n, i - 1 \in P
      PROVE  i \in P
  <2> DEFINE a == g[i - 1]
             k == Len(a)
  <2>1. a \in Seq(S) /\ From(i - 1) /\ Into(i - 1) /\ Once(i - 1)
    BY <1>4
  <2>5. Apart(i - 1)
    BY <1>4
  <2>2. k \in Nat /\ DOMAIN a = 1 .. k
    BY <2>1, LenProperties
  <2>3. CASE i \in out
    <3>1. g[i] = a
      BY <1>2, <2>3 DEF PrefixesKept
    <3>2. 1 .. i \ out = 1 .. i - 1 \ out
      BY <1>1, <2>3
    <3>3. From(i) /\ Into(i) /\ Once(i)
      BY <2>1, <3>1, <3>2
    <3>5. Apart(i)
      <4> HIDE DEF Sep
      <4> QED BY <2>5, <3>1, <3>2
    <3>4. g[i] \in Seq(S)
      BY <2>1, <3>1
    <3> HIDE DEF a, From, Into, Once, Apart
    <3> QED BY <1>1, <3>3, <3>4, <3>5
  <2>4. CASE i \notin out
    <3>1. g[i] = Append(a, s[i]) /\ s[i] \in S
      BY <1>1, <1>2, <2>4 DEF PrefixesKept
    <3>2. /\ g[i] \in Seq(S) /\ DOMAIN g[i] = 1 .. k + 1 /\ g[i][k + 1] = s[i]
          /\ \A j \in 1 .. k : g[i][j] = a[j]
      <4> HIDE DEF a
      <4> QED BY <2>1, <2>2, <3>1
    <3>3. From(i)
      <4> SUFFICES ASSUME NEW j \in 1 .. k + 1
                   PROVE  \E m \in 1 .. i \ out : g[i][j] = s[m]
        BY <3>2
      <4>1. CASE j = k + 1
        BY <1>1, <2>4, <3>2, <4>1
      <4>2. CASE j \in 1 .. k
        <5>1. PICK m \in 1 .. i - 1 \ out : a[j] = s[m]
          BY <2>1, <2>2, <4>2
        <5> QED BY <1>1, <3>2, <4>2, <5>1
      <4> QED BY <2>2, <4>1, <4>2
    <3>4. Into(i)
      <4> SUFFICES ASSUME NEW m \in 1 .. i \ out
                   PROVE  \E j \in 1 .. k + 1 : g[i][j] = s[m]
        BY <3>2
      <4>1. CASE m = i
        BY <2>2, <3>2, <4>1
      <4>2. CASE m \in 1 .. i - 1
        <5>1. PICK j \in 1 .. k : a[j] = s[m]
          BY <2>1, <2>2, <4>2
        <5> QED BY <2>2, <3>2, <5>1
      <4> QED BY <1>1, <4>1, <4>2
    <3>5. Once(i)
      <4> SUFFICES ASSUME NEW V, AtMostOne(s, V), NEW j \in 1 .. k + 1, NEW l \in 1 .. k + 1,
                          g[i][j] \in V, g[i][l] \in V
                   PROVE  j = l
        BY <3>2 DEF AtMostOne
      <4>1. ASSUME NEW x \in 1 .. k, a[x] \in V
            PROVE  s[i] \notin V
        <5>1. PICK m \in 1 .. i - 1 \ out : a[x] = s[m]
          BY <2>1, <2>2
        <5>2. m # i /\ m \in DOMAIN s /\ i \in DOMAIN s
          BY <1>1
        <5> QED BY <4>1, <5>1, <5>2 DEF AtMostOne
      <4>2. AtMostOne(a, V)
        BY <2>1
      <4>3. CASE j \in 1 .. k /\ l \in 1 .. k
        BY <2>2, <3>2, <4>2, <4>3 DEF AtMostOne
      <4>4. CASE j = k + 1 /\ l \in 1 .. k
        BY <3>2, <4>1, <4>4
      <4>5. CASE l = k + 1 /\ j \in 1 .. k
        BY <3>2, <4>1, <4>5
      <4> QED BY <2>2, <4>3, <4>4, <4>5
    <3>6. Apart(i)
      <4> DEFINE b == g[i]
      <4>0. b = g[i] /\ DOMAIN b = 1 .. k + 1
        BY <3>2
      <4> HIDE DEF b
      <4> SUFFICES ASSUME NEW x \in 1 .. i \ out, NEW y \in 1 .. i \ out, x # y
                   PROVE  \E j \in 1 .. k + 1, l \in 1 .. k + 1 :
                             j # l /\ b[j] = s[x] /\ b[l] = s[y]
        <5>1. Sep(b, 1 .. i \ out)
          <6> HIDE DEF k
          <6> QED BY <4>0
        <5> HIDE DEF Sep
        <5> QED BY <4>0, <5>1
      <4>1. ASSUME NEW z \in 1 .. i - 1 \ out
            PROVE  \E j \in 1 .. k : b[j] = s[z] /\ j # k + 1
        <5>1. PICK j \in 1 .. k : a[j] = s[z]
          BY <2>1, <2>2
        <5> QED BY <2>2, <3>2, <4>0, <5>1
      <4>2. CASE x \in 1 .. i - 1 /\ y \in 1 .. i - 1
        <5>1. PICK j \in 1 .. k, l \in 1 .. k : j # l /\ a[j] = s[x] /\ a[l] = s[y]
          <6>1. x \in 1 .. i - 1 \ out /\ y \in 1 .. i - 1 \ out
            BY <4>2
          <6>2. DOMAIN a = 1 .. k /\ Sep(a, 1 .. i - 1 \ out)
            BY <2>2, <2>5
          <6> HIDE DEF a, k, n
          <6> QED BY <6>1, <6>2
        <5> QED BY <2>2, <3>2, <4>0, <5>1
      <4>3. k + 1 \in 1 .. k + 1 /\ 1 .. k \subseteq 1 .. k + 1
        BY <2>2
      <4>4. CASE x = i /\ y \in 1 .. i - 1
        <5>1. PICK l \in 1 .. k : b[l] = s[y] /\ l # k + 1
          BY <4>1, <4>4
        <5> QED BY <3>2, <4>0, <4>3, <4>4, <5>1
      <4>5. CASE y = i /\ x \in 1 .. i - 1
        <5>1. PICK l \in 1 .. k : b[l] = s[x] /\ l # k + 1
          BY <4>1, <4>5
        <5> QED BY <3>2, <4>0, <4>3, <4>5, <5>1
      <4> QED BY <1>1, <4>2, <4>4, <4>5
    <3> HIDE DEF From, Into, Once, Apart
    <3> QED BY <1>1, <3>2, <3>3, <3>4, <3>5, <3>6
  <2> QED BY <2>3, <2>4
<1>5. n \in P
  <2> HIDE DEF P
  <2>1. 0 .. n \subseteq P
    BY <1>1, <1>3, <1>4, Induct
  <2> QED BY <1>1, <2>1
<1>6. g[n] \in Seq(S) /\ From(n) /\ Into(n) /\ Once(n) /\ Apart(n)
  BY <1>5
<1>7. ASSUME NEW V, \A i \in DOMAIN s : s[i] \in V => i \notin out, AtMostOne(g[n], V)
      PROVE  AtMostOne(s, V)
  <2> SUFFICES ASSUME NEW x \in 1 .. n, NEW y \in 1 .. n, s[x] \in V, s[y] \in V, x # y
               PROVE  FALSE
    BY <1>1 DEF AtMostOne
  <2>1. x \in 1 .. n \ out /\ y \in 1 .. n \ out
    BY <1>1, <1>7
  <2>2. PICK j \in DOMAIN g[n], l \in DOMAIN g[n] : j # l /\ g[n][j] = s[x] /\ g[n][l] = s[y]
    BY <1>6, <2>1
  <2> QED BY <1>7, <2>2 DEF AtMostOne
<1>8. \A V : (\A i \in DOMAIN s : s[i] \in V => i \notin out) /\ AtMostOne(Without(s, out), V)
                => AtMostOne(s, V)
  BY <1>2, <1>7, Zenon
<1> HIDE DEF Sep
<1> QED BY <1>1, <1>2, <1>6, <1>8

----------------------------------------------------------------------------
(* Types *)

\* A run is being done.
Doing == proc.pc \in {"run", "ran", "write", "flush", "meta", "done"}

\* Lines of a table are made or wait for its flush.
Exporting == proc.pc \in {"write", "flush"}

\* A broken line is there.
EndsWell(f) == f.cut # "no" => f.lines # <<>>

\* Types, and what they rest on: a table whose last line is broken has one; a run
\* that failed was tried; the tables are gone through one by one.
TypesOK ==
    /\ CampaignTypeOK
    /\ \A t \in TableNames : EndsWell(table[t])
    /\ \A k \in Runs : FailedBefore(k) => status[k].tries > 0
    /\ Doing \/ proc.pc = "close" => proc.run \in Runs
    /\ proc.pc = "purge" => proc.step \in 1 .. 5
    /\ Exporting => proc.step \in 1 .. 4
    /\ proc.buffer # <<>> => proc.pc \in {"flush", "close"} /\ proc.step \in 1 .. 4

\* The tables, one by one.
LEMMA FourTables ==
    /\ TableNames = {"runs", "retrievals", "requests", "distribution"}
    /\ DOMAIN Tables = 1 .. 4 /\ Len(Tables) = 4
    /\ Tables[1] = "runs" /\ \A i \in 2 .. 4 : Tables[i] \in TableNames \ {"runs"}
BY DEF TableNames, Tables, ToSet

\* Division with a rest.
LEMMA Division ==
    ASSUME NEW a \in Nat, NEW m \in Nat \ {0}, NEW l \in Nat, a < l * m
    PROVE  a % m \in 0 .. m - 1 /\ a \div m \in 0 .. l - 1
<1>1. a % m \in 0 .. m - 1 /\ a \div m \in Nat /\ a = m * (a \div m) + (a % m)
  OBVIOUS
<1> DEFINE q == a \div m
           r == a % m
<1>2. q \in Nat /\ r \in 0 .. m - 1 /\ a = m * q + r
  BY <1>1
<1> HIDE DEF q, r
<1>3. q < l
  <2> SUFFICES ASSUME q >= l PROVE FALSE
    BY <1>2
  <2> DEFINE d == q - l
  <2>1. d \in Nat /\ q = l + d
    BY <1>2
  <2> HIDE DEF d
  <2>2. m * q = l * m + d * m
    BY <2>1
  <2>3. d * m >= 0 /\ d * m \in Int
    BY <2>1
  <2>4. l * m \in Int
    OBVIOUS
  <2> QED BY <1>2, <2>2, <2>3, <2>4
<1> QED BY <1>1, <1>2, <1>3 DEF q

\* A plan is a list of runs.
LEMMA PlanType ==
    ASSUME NEW policies \in PolicyLists, NEW seeds \in SeedLists
    PROVE  Plan(policies, seeds) \in Seq(Runs)
<1> DEFINE m == Len(seeds)
           l == Len(policies)
           run(i) == <<policies[((i - 1) \div m) + 1], seeds[((i - 1) % m) + 1]>>
<1>1. policies \in Seq(Policies) /\ seeds \in Seq(Seeds)
  BY CampaignAssumption
<1>2. m \in Nat /\ l \in Nat /\ l * m \in Nat
  <2>1. m \in Nat /\ l \in Nat
    BY <1>1
  <2> HIDE DEF m, l
  <2> QED BY <2>1
<1>3. ASSUME NEW i \in 1 .. l * m
      PROVE  run(i) \in Runs
  <2>1. m # 0
    <3> HIDE DEF m, l
    <3> QED BY <1>2, <1>3
  <2>2. (i - 1) % m \in 0 .. m - 1 /\ (i - 1) \div m \in 0 .. l - 1
    <3> HIDE DEF m, l
    <3>1. i - 1 \in Nat /\ i - 1 < l * m
      BY <1>2, <1>3
    <3> QED BY <1>2, <2>1, <3>1, Division
  <2>3. ((i - 1) % m) + 1 \in 1 .. m /\ ((i - 1) \div m) + 1 \in 1 .. l
    <3> DEFINE q == (i - 1) \div m
               r == (i - 1) % m
    <3>1. r \in 0 .. m - 1 /\ q \in 0 .. l - 1
      BY <2>2
    <3> HIDE DEF q, r, m, l
    <3>2. r + 1 \in 1 .. m /\ q + 1 \in 1 .. l
      BY <1>2, <3>1
    <3> QED BY <3>2 DEF q, r
  <2>4. \A j \in 1 .. m : seeds[j] \in Seeds
    BY <1>1
  <2>5. \A j \in 1 .. l : policies[j] \in Policies
    BY <1>1
  <2> QED BY <2>3, <2>4, <2>5 DEF Runs
<1>4. Plan(policies, seeds) = [i \in 1 .. l * m |-> run(i)]
  BY DEF Plan
<1> HIDE DEF m, l, run
<1>5. [i \in 1 .. l * m |-> run(i)] \in Seq(Runs)
  BY <1>2, <1>3
<1> QED BY <1>4, <1>5

\* All but the last element of a sequence, the last, and all but the first.
LEMMA Parts ==
    ASSUME NEW S, NEW s \in Seq(S), s # <<>>
    PROVE  /\ Last(s) \in S /\ Front(s) \in Seq(S)
           /\ Head(s) \in S /\ Tail(s) \in Seq(S)
BY DEF Last, Front

\* A table takes up lines.
LEMMA AddedType ==
    ASSUME NEW f \in TableType, EndsWell(f), NEW new \in Seq(Line)
    PROVE  /\ Added(f, new) \in TableType /\ EndsWell(Added(f, new))
           /\ new # <<>> => Added(f, new).lines # <<>>
<1>1. f.lines \in Seq(Line) /\ f.some \in BOOLEAN /\ f.cut \in {"no", "id", "fields"}
  BY DEF TableType
<1>2. CASE f.cut = "no" \/ new = <<>>
  <2>1. Added(f, new) = [f EXCEPT !.lines = @ \o new, !.some = @ \/ new # <<>>]
    BY <1>2 DEF Added
  <2>2. f.lines \o new \in Seq(Line)
    BY <1>1
  <2>3. (f.some \/ new # <<>>) \in BOOLEAN
    OBVIOUS
  <2>4. Added(f, new) \in TableType
    BY <2>1, <2>2, <2>3 DEF TableType
  <2>5. Added(f, new).cut = f.cut /\ Added(f, new).lines = f.lines \o new
    BY <2>1 DEF TableType
  <2>6. f.cut # "no" => Added(f, new).lines = f.lines
    BY <1>1, <1>2, <2>5
  <2>7. new # <<>> => f.lines \o new # <<>>
    BY <1>1
  <2> QED BY <2>4, <2>5, <2>6, <2>7 DEF EndsWell
<1>3. CASE ~(f.cut = "no" \/ new = <<>>)
  <2> DEFINE broken == Last(f.lines)
             merged == IF f.cut = "id" THEN [broken EXCEPT !.run = Unknown]
                                       ELSE [broken EXCEPT !.wide = TRUE]
  <2>1. Last(f.lines) \in Line /\ Front(f.lines) \in Seq(Line) /\ Tail(new) \in Seq(Line)
    BY <1>1, <1>3, Parts DEF EndsWell
  <2>2. merged \in Line
    BY <2>1 DEF Line
  <2>3. Added(f, new)
          = [lines |-> Append(Front(f.lines), merged) \o Tail(new), cut |-> "no", some |-> TRUE]
    BY <1>3 DEF Added
  <2> HIDE DEF merged
  <2>4. /\ Append(Front(f.lines), merged) \in Seq(Line)
        /\ Len(Append(Front(f.lines), merged)) \in Nat \ {0}
    BY <2>1, <2>2
  <2> DEFINE first == Append(Front(f.lines), merged)
             rest  == Tail(new)
  <2>5. first \o rest \in Seq(Line) /\ first \o rest # <<>>
    <3>1. first \in Seq(Line) /\ rest \in Seq(Line) /\ Len(first) \in Nat \ {0}
      BY <2>1, <2>4
    <3> HIDE DEF first, rest
    <3> QED BY <3>1
  <2> QED BY <2>3, <2>5 DEF TableType, EndsWell
<1> QED BY <1>2, <1>3

\* A broken line is a line, with number 0.
LEMMA BrokenType ==
    ASSUME NEW line \in Line, NEW b \in Broken(line)
    PROVE  b[1] \in Line /\ b[1].n = 0 /\ b[2] \in {"id", "fields"}
<1>1. 0 \in 0 .. Lines
  BY CampaignAssumption
<1>2. CASE b = <<[line EXCEPT !.n = 0], "fields">>
  <2>1. [line EXCEPT !.n = 0] \in Line /\ [line EXCEPT !.n = 0].n = 0
    BY <1>1 DEF Line
  <2> QED BY <1>2, <2>1
<1>3. CASE b # <<[line EXCEPT !.n = 0], "fields">>
  <2>1. PICK j \in {Unknown} \cup {i \in Runs : <<i, line.run>> \in Begins} :
               b = <<[line EXCEPT !.n = 0, !.run = j], "id">>
    BY <1>3 DEF Broken
  <2>2. /\ [line EXCEPT !.n = 0, !.run = j] \in Line
        /\ [line EXCEPT !.n = 0, !.run = j].n = 0
    BY <1>1 DEF Line
  <2> QED BY <2>1, <2>2
<1> QED BY <1>2, <1>3

\* A table is torn: its last line is broken, or is the broken line it had, or has
\* become one with it.
LEMMA TornIs ==
    ASSUME NEW f \in TableType, EndsWell(f), NEW line \in Line, NEW g \in Torn(f, line)
    PROVE  /\ g \in TableType /\ EndsWell(g) /\ g.cut # "no"
           /\ \/ g = f
              \/ \E b \in Broken(line) : g.lines = Added(f, <<b[1]>>).lines
<1>1. CASE f.cut = "fields" /\ g = f
  BY <1>1
<1>2. ASSUME NEW b \in Broken(line),
             g = [Added(f, <<b[1]>>) EXCEPT !.cut = IF f.cut = "fields" THEN "fields" ELSE b[2]]
      PROVE  g \in TableType /\ EndsWell(g) /\ g.cut # "no" /\ g.lines = Added(f, <<b[1]>>).lines
  <2>1. b[1] \in Line /\ b[2] \in {"id", "fields"}
    BY BrokenType
  <2>2. <<b[1]>> \in Seq(Line) /\ <<b[1]>> # <<>>
    BY <2>1
  <2> DEFINE a   == Added(f, <<b[1]>>)
             cut == IF f.cut = "fields" THEN "fields" ELSE b[2]
  <2>3. a \in TableType /\ a.lines # <<>>
    BY <2>2, AddedType
  <2>4. cut \in {"id", "fields"}
    BY <2>1
  <2>5. g = [a EXCEPT !.cut = cut]
    BY <1>2
  <2> HIDE DEF a, cut
  <2>6. g \in TableType /\ EndsWell(g) /\ g.cut # "no" /\ g.lines = a.lines
    BY <2>3, <2>4, <2>5 DEF TableType, EndsWell
  <2> QED BY <2>6 DEF a
<1>3. \/ f.cut = "fields" /\ g = f
      \/ \E b \in Broken(line) :
            g = [Added(f, <<b[1]>>) EXCEPT !.cut = IF f.cut = "fields" THEN "fields" ELSE b[2]]
  BY DEF Torn
<1> QED BY <1>1, <1>2, <1>3

\* A table is purged.
LEMMA PurgedType ==
    ASSUME NEW f \in TableType, EndsWell(f), NEW ids
    PROVE  Purged(f, ids) \in TableType /\ EndsWell(Purged(f, ids))
<1> DEFINE keep == Without(f.lines, {i \in DOMAIN f.lines : f.lines[i].run \in ids})
<1>1. f.lines \in Seq(Line)
  BY DEF TableType
<1>2. keep \in Seq(Line)
  BY <1>1, WithoutKeeps
<1>3. Purged(f, ids) = IF keep = f.lines THEN f ELSE [lines |-> keep, cut |-> "no", some |-> TRUE]
  BY DEF Purged
<1> HIDE DEF keep
<1> QED BY <1>2, <1>3 DEF TableType, EndsWell

\* The rows of a run are lines, and only one of them is for runs.csv.
LEMMA RowsType ==
    ASSUME NEW k \in Runs, NEW smoke \in BOOLEAN, NEW i \in 1 .. 4
    PROVE  /\ RowsOf(k, smoke)[Tables[i]] \in Seq(Line)
           /\ i = 1 => RowsOf(k, smoke)[Tables[i]] = <<RunLine(k, 1, smoke)>>
<1>1. Lines \in Nat \ {0}
  BY CampaignAssumption
<1>2. \A n \in 1 .. Lines : RunLine(k, n, smoke) \in Line
  BY <1>1 DEF RunLine, Line
<1>3. SummariseRun(k, smoke) \in Seq(Line)
  BY <1>1, <1>2 DEF SummariseRun
<1>4. [n \in 1 .. Lines |-> RunLine(k, n, smoke)] \in Seq(Line)
  BY <1>1, <1>2
<1>5. /\ RetrievalRows(k, smoke) \in Seq(Line)
      /\ RequestRows(k, smoke) \in Seq(Line)
      /\ SnapshotRows(k, smoke) \in Seq(Line)
  BY <1>4 DEF RetrievalRows, RequestRows, SnapshotRows
<1>6. RowsOf(k, smoke)["runs"] = SummariseRun(k, smoke)
  BY FourTables DEF RowsOf
<1>7. /\ RowsOf(k, smoke)["retrievals"] = RetrievalRows(k, smoke)
      /\ RowsOf(k, smoke)["requests"] = RequestRows(k, smoke)
      /\ RowsOf(k, smoke)["distribution"] = SnapshotRows(k, smoke)
  BY FourTables DEF RowsOf
<1>8. Tables[i] \in TableNames /\ (i = 1 => Tables[i] = "runs")
  BY FourTables
<1>9. RowsOf(k, smoke)[Tables[i]] \in Seq(Line)
  BY <1>3, <1>5, <1>6, <1>7, <1>8, FourTables
<1> QED BY <1>6, <1>8, <1>9 DEF SummariseRun

\* The end of a process, whichever way.
LEMMA IdleType == Idle \in ProcType
BY DEF Idle, ProcType

\* At first all tables are empty.
LEMMA TypesInit == Init => TypesOK
<1> SUFFICES ASSUME Init PROVE TypesOK
  OBVIOUS
<1>1. \A k \in Runs : status[k] = [state |-> "none", tries |-> 0, smoke |-> FALSE]
  BY DEF Init
<1>2. MaxFaults \in Nat
  BY CampaignAssumption
<1>3. Empty \in TableType /\ EndsWell(Empty)
  BY DEF Empty, TableType, EndsWell
<1>4. /\ status \in [Runs -> [state : States, tries : Nat, smoke : BOOLEAN]]
      /\ log \in [Runs -> LogType]
  BY DEF Init, States, LogType
<1>5. CampaignTypeOK
  BY <1>2, <1>3, <1>4, IdleType DEF CampaignTypeOK, Init
<1>6. \A t \in TableNames : EndsWell(table[t])
  BY <1>3 DEF Init
<1>7. proc.pc = "off" /\ proc.buffer = <<>>
  BY DEF Init, Idle
<1>8. \A k \in Runs : ~FailedBefore(k)
  BY <1>1 DEF FailedBefore, FailureStates
<1> QED BY <1>5, <1>6, <1>7, <1>8 DEF TypesOK, Exporting, Doing

\* What may go wrong is bounded.
FaultsType == [deaths : 0 .. MaxFaults, failures : 0 .. MaxFaults]

\* Each fault is counted, up to the bound.
LEMMA FaultsCounted ==
    ASSUME faults \in FaultsType
    PROVE  /\ Fails => faults' \in FaultsType /\ faults'.deaths = faults.deaths
           /\ Crash => faults' \in FaultsType /\ faults'.deaths > 0
<1>1. MaxFaults \in Nat /\ faults.deaths \in 0 .. MaxFaults /\ faults.failures \in 0 .. MaxFaults
  BY CampaignAssumption DEF FaultsType
<1>2. ASSUME Fails
      PROVE  faults' \in FaultsType /\ faults'.deaths = faults.deaths
  <2> DEFINE n == faults.failures + 1
  <2>1. n \in 0 .. MaxFaults /\ faults' = [faults EXCEPT !.failures = n]
    BY <1>1, <1>2 DEF Fails, MayGoWrong
  <2> HIDE DEF n
  <2> QED BY <2>1 DEF FaultsType
<1>3. ASSUME Crash
      PROVE  faults' \in FaultsType /\ faults'.deaths > 0
  <2> DEFINE n == faults.deaths + 1
  <2>1. n \in 1 .. MaxFaults /\ faults' = [faults EXCEPT !.deaths = n]
    BY <1>1, <1>3 DEF Crash, MayGoWrong
  <2> HIDE DEF n
  <2> QED BY <2>1 DEF FaultsType
<1> QED BY <1>2, <1>3

\* The types, one by one.
LEMMA TypesAre ==
    ASSUME TypesOK
    PROVE  /\ status \in [Runs -> [state : States, tries : Nat, smoke : BOOLEAN]]
           /\ table \in [TableNames -> TableType] /\ \A t \in TableNames : EndsWell(table[t])
           /\ meta \in Seq(Runs) /\ log \in [Runs -> LogType] /\ proc \in ProcType
           /\ faults \in FaultsType
           /\ proc.todo \in Seq(Runs) /\ proc.plan \subseteq Runs /\ proc.smoke \in BOOLEAN
           /\ proc.append \in BOOLEAN /\ proc.step \in Nat /\ proc.buffer \in Seq(Line)
           /\ proc.meta \in Seq(Runs) /\ proc.failed \in BOOLEAN
<1>1. /\ status \in [Runs -> [state : States, tries : Nat, smoke : BOOLEAN]]
      /\ table \in [TableNames -> TableType] /\ \A t \in TableNames : EndsWell(table[t])
      /\ meta \in Seq(Runs) /\ log \in [Runs -> LogType] /\ proc \in ProcType
      /\ faults \in FaultsType
  BY DEF TypesOK, CampaignTypeOK, FaultsType
<1>2. /\ proc.todo \in Seq(Runs) /\ proc.plan \subseteq Runs /\ proc.smoke \in BOOLEAN
      /\ proc.append \in BOOLEAN /\ proc.step \in Nat /\ proc.buffer \in Seq(Line)
      /\ proc.meta \in Seq(Runs) /\ proc.failed \in BOOLEAN
  BY <1>1 DEF ProcType
<1> QED BY <1>1, <1>2

\* Steps that change neither the status nor the logs.
LEMMA TypesFrame ==
    ASSUME TypesOK, UNCHANGED <<status, log>>, faults' \in FaultsType,
           table' \in [TableNames -> TableType], \A t \in TableNames : EndsWell(table'[t]),
           meta' \in Seq(Runs), proc' \in ProcType,
           Doing' \/ proc'.pc = "close" => proc'.run \in Runs,
           proc'.pc = "purge" => proc'.step \in 1 .. 5,
           Exporting' => proc'.step \in 1 .. 4,
           proc'.buffer # <<>> => proc'.pc \in {"flush", "close"} /\ proc'.step \in 1 .. 4
    PROVE  TypesOK'
<1>1. CampaignTypeOK'
  BY DEF TypesOK, CampaignTypeOK, FaultsType
<1>2. \A k \in Runs : FailedBefore(k)' => status'[k].tries > 0
  BY DEF TypesOK, FailedBefore
<1> QED BY <1>1, <1>2 DEF TypesOK

\* A call of the program.
LEMMA TypesStart ==
    ASSUME TypesOK, NEW policies \in PolicyLists, NEW seeds \in SeedLists, NEW smoke \in BOOLEAN,
           Start(policies, seeds, smoke)
    PROVE  TypesOK'
<1> DEFINE plan    == Plan(policies, seeds)
           open    == Without(plan, {i \in DOMAIN plan : IsCompleted(plan[i])})
           pc      == IF open = <<>> THEN "off" ELSE IF HasData THEN "purge" ELSE "open"
           append  == Appends(plan, open)
           verdict == IF open = <<>> THEN Verdict(ToSet(plan), smoke) ELSE "none"
           runs    == ToSet(plan)
<1>1. /\ proc' = [Idle EXCEPT !.pc = pc, !.todo = open, !.plan = runs, !.smoke = smoke,
                              !.append = append, !.verdict = verdict]
      /\ UNCHANGED <<status, table, meta, log, faults>>
  BY DEF Start, disk
<1>2. plan \in Seq(Runs)
  BY PlanType
<1>3. open \in Seq(Runs) /\ runs \subseteq Runs /\ pc \in {"off", "purge", "open"}
  <2> HIDE DEF plan
  <2>1. open \in Seq(Runs)
    BY <1>2, WithoutKeeps
  <2>2. runs \subseteq Runs
    BY <1>2 DEF ToSet
  <2> QED BY <2>1, <2>2
<1>4. append \in BOOLEAN
  BY DEF Appends, HasData
<1>5. verdict \in {"none", "open", "failed", "PASS", "FAIL"}
  BY DEF Verdict
<1> HIDE DEF plan, open, pc, append, verdict, runs
<1>6. proc' \in ProcType
  <2>1. proc' = [pc |-> pc, todo |-> open, plan |-> runs, smoke |-> smoke, append |-> append,
                 run |-> Unknown, result |-> "healthy", step |-> 1, buffer |-> <<>>,
                 meta |-> <<>>, failed |-> FALSE, verdict |-> verdict]
    BY <1>1 DEF Idle
  <2>2. /\ <<>> \in Seq(Line) /\ <<>> \in Seq(Runs) /\ FALSE \in BOOLEAN
        /\ Unknown \in Runs \cup {Unknown} /\ 1 \in Nat
    OBVIOUS
  <2> QED BY <1>3, <1>4, <1>5, <2>1, <2>2 DEF ProcType
<1>7. proc'.pc \in {"off", "purge", "open"} /\ proc'.step = 1 /\ proc'.buffer = <<>>
  BY <1>1, <1>3 DEF Idle
<1> QED BY <1>1, <1>6, <1>7, TypesFrame, TypesAre DEF Exporting, Doing

\* The tables are purged, or cannot be, and opened.
LEMMA TypesOpen ==
    ASSUME TypesOK, PurgeTable \/ PurgeMeta \/ PurgeRaises \/ Open
    PROVE  TypesOK'
<1>1. /\ table \in [TableNames -> TableType] /\ (\A t \in TableNames : EndsWell(table[t]))
      /\ meta \in Seq(Runs) /\ proc \in ProcType /\ faults \in FaultsType
  BY TypesAre
<1>2. proc.pc \in {"purge", "open"} /\ proc.buffer = <<>>
  BY DEF PurgeTable, PurgeMeta, PurgeRaises, Open, TypesOK
<1>3. CASE PurgeTable
  <2> DEFINE t == Tables[proc.step]
             f == IF t \in PurgedTables THEN Purged(table[t], ToPurge) ELSE table[t]
  <2>1. /\ table' = [table EXCEPT ![t] = f] /\ proc' = [proc EXCEPT !.step = @ + 1]
        /\ UNCHANGED <<meta, status, log, faults>> /\ proc.pc = "purge"
    BY <1>3 DEF PurgeTable
  <2>2. t \in TableNames /\ proc.step \in 1 .. 4
    BY <1>3, FourTables DEF PurgeTable
  <2>3. f \in TableType /\ EndsWell(f)
    BY <1>1, <2>2, PurgedType
  <2> HIDE DEF t, f
  <2>4. table' \in [TableNames -> TableType] /\ \A u \in TableNames : EndsWell(table'[u])
    BY <1>1, <2>1, <2>2, <2>3
  <2>5. proc' \in ProcType
    <3>1. proc.step + 1 \in Nat
      BY <2>2
    <3> DEFINE step == proc.step + 1
    <3>2. proc' = [proc EXCEPT !.step = step]
      BY <2>1
    <3> HIDE DEF step
    <3> QED BY <1>1, <3>1, <3>2 DEF ProcType, step
  <2>6. proc'.pc = "purge" /\ proc'.step \in 1 .. 5 /\ proc'.buffer = <<>>
    BY <1>1, <1>2, <2>1, <2>2 DEF ProcType
  <2> QED BY <1>1, <2>1, <2>4, <2>5, <2>6, TypesFrame DEF Exporting, Doing
<1>4. CASE PurgeMeta
  <2>1. /\ meta' = Without(meta, {i \in DOMAIN meta : meta[i] \in ToPurge})
        /\ proc' = [proc EXCEPT !.pc = "open"] /\ UNCHANGED <<table, status, log, faults>>
    BY <1>4 DEF PurgeMeta, Goto
  <2>2. meta' \in Seq(Runs)
    BY <1>1, <2>1, WithoutKeeps
  <2>3. proc' \in ProcType /\ proc'.pc = "open" /\ proc'.buffer = <<>>
    BY <1>1, <1>2, <2>1 DEF ProcType
  <2> QED BY <1>1, <2>1, <2>2, <2>3, TypesFrame DEF Exporting, Doing
<1>5. CASE PurgeRaises
  <2>1. proc' = Idle /\ UNCHANGED <<table, status, meta, log, faults>>
    BY <1>5 DEF PurgeRaises, disk
  <2>2. proc' \in ProcType /\ proc'.pc = "off" /\ proc'.buffer = <<>>
    BY <2>1, IdleType DEF Idle
  <2> QED BY <1>1, <2>1, <2>2, TypesFrame DEF Exporting, Doing
<1>6. CASE Open
  <2> DEFINE m == IF proc.append THEN meta ELSE <<>>
  <2>1. /\ table' = IF proc.append THEN table ELSE [t \in TableNames |-> Empty]
        /\ proc' = [proc EXCEPT !.pc = "next", !.meta = m]
        /\ UNCHANGED <<status, meta, log, faults>>
    BY <1>6 DEF Open
  <2>2. Empty \in TableType /\ EndsWell(Empty)
    BY DEF Empty, TableType, EndsWell
  <2>3. table' \in [TableNames -> TableType] /\ \A u \in TableNames : EndsWell(table'[u])
    BY <1>1, <2>1, <2>2
  <2>4. m \in Seq(Runs)
    BY <1>1
  <2> HIDE DEF m
  <2>5. proc' \in ProcType /\ proc'.pc = "next" /\ proc'.buffer = <<>>
    BY <1>1, <1>2, <2>1, <2>4 DEF ProcType
  <2> QED BY <1>1, <2>1, <2>3, <2>5, TypesFrame DEF Exporting, Doing
<1> QED BY <1>3, <1>4, <1>5, <1>6

\* A run begins and ends.
LEMMA TypesRun ==
    ASSUME TypesOK,
           \/ BeginRun
           \/ \E raised \in BOOLEAN, signals \in SUBSET HardSignals : EndRun(raised, signals)
    PROVE  TypesOK'
<1>1. /\ table \in [TableNames -> TableType] /\ (\A t \in TableNames : EndsWell(table[t]))
      /\ meta \in Seq(Runs) /\ proc \in ProcType /\ faults \in FaultsType
      /\ status \in [Runs -> [state : States, tries : Nat, smoke : BOOLEAN]]
      /\ log \in [Runs -> LogType] /\ proc.todo \in Seq(Runs)
  BY TypesAre
<1>2. /\ \A k \in Runs : FailedBefore(k) => status[k].tries > 0
      /\ proc.pc \in {"next", "run"} /\ proc.buffer = <<>>
  BY DEF BeginRun, EndRun, TypesOK
<1>3. CASE BeginRun
  <2> DEFINE k == Head(proc.todo)
             rest == Tail(proc.todo)
             n == status[k].tries
             aside == SetAside(log[k], n)
  <2>1. /\ log' = IF FailedBefore(k) /\ log[k].main # 0 THEN [log EXCEPT ![k] = aside] ELSE log
        /\ proc' = [proc EXCEPT !.pc = "run", !.run = k, !.todo = rest]
        /\ UNCHANGED <<status, table, meta, faults>> /\ proc.todo # <<>>
    BY <1>3 DEF BeginRun, KeepsLog
  <2>2. k \in Runs /\ rest \in Seq(Runs)
    BY <1>1, <2>1, Parts
  <2>3. FailedBefore(k) /\ log[k].main # 0 => aside \in LogType
    <3> SUFFICES ASSUME FailedBefore(k), log[k].main # 0 PROVE aside \in LogType
      OBVIOUS
    <3>1. n \in Nat \ {0} /\ log[k] \in LogType
      BY <1>1, <1>2, <2>2
    <3> HIDE DEF k, n
    <3>2. log[k].main \in Nat \ {0} /\ log[k].kept \subseteq (Nat \ {0}) \X (Nat \ {0})
      BY <3>1 DEF LogType
    <3> QED BY <3>1, <3>2 DEF SetAside, LogType
  <2> HIDE DEF k, rest, aside
  <2>4. log' \in [Runs -> LogType]
    BY <1>1, <2>1, <2>2, <2>3
  <2>5. /\ proc' \in ProcType /\ proc'.pc = "run" /\ proc'.buffer = <<>>
        /\ proc'.run \in Runs
    BY <1>1, <1>2, <2>1, <2>2 DEF ProcType
  <2>6. CampaignTypeOK'
    BY <1>1, <2>1, <2>4, <2>5 DEF CampaignTypeOK, FaultsType
  <2>7. \A j \in Runs : FailedBefore(j)' => status'[j].tries > 0
    BY <1>2, <2>1 DEF FailedBefore
  <2> QED BY <1>1, <2>1, <2>5, <2>6, <2>7 DEF TypesOK, Exporting
<1>4. ASSUME NEW raised \in BOOLEAN, NEW signals, EndRun(raised, signals)
      PROVE  TypesOK'
  <2> DEFINE result == IF raised THEN "error" ELSE Evaluate(signals)
             n == status[proc.run].tries + 1
  <2>1. /\ UNCHANGED faults \/ Fails
        /\ log' = [log EXCEPT ![proc.run].main = n]
        /\ proc' = [proc EXCEPT !.pc = "ran", !.result = result]
        /\ UNCHANGED <<status, table, meta>>
        /\ proc.run \in Runs
    BY <1>4 DEF EndRun, Doing, TypesOK
  <2>2. result \in {"healthy", "error", "unhealthy"}
    BY DEF Evaluate
  <2>3. n \in Nat
    BY <1>1, <2>1
  <2> HIDE DEF result, n
  <2>4. log' \in [Runs -> LogType]
    BY <1>1, <2>1, <2>3 DEF LogType
  <2>5. /\ proc' \in ProcType /\ proc'.pc = "ran" /\ proc'.buffer = <<>>
        /\ proc'.run = proc.run
    BY <1>1, <1>2, <2>1, <2>2 DEF ProcType
  <2>6. faults' \in FaultsType
    BY <1>1, <2>1, FaultsCounted
  <2>7. CampaignTypeOK'
    BY <1>1, <2>1, <2>4, <2>5, <2>6 DEF CampaignTypeOK, FaultsType
  <2>8. \A j \in Runs : FailedBefore(j)' => status'[j].tries > 0
    BY <1>2, <2>1 DEF FailedBefore
  <2> QED BY <1>1, <2>1, <2>5, <2>7, <2>8 DEF TypesOK, Exporting
<1> QED BY <1>3, <1>4

\* The outcome of an attempt is counted.
LEMMA TypesRecord ==
    ASSUME TypesOK, proc.run \in Runs, NEW state \in States \ {"none"},
           status' = Recorded(proc.run, state), UNCHANGED <<table, meta, log>>,
           faults' \in FaultsType, proc' \in ProcType, proc'.pc \in {"next", "close"},
           proc'.run = proc.run,
           proc'.buffer # <<>> => proc'.pc = "close" /\ proc'.step \in 1 .. 4
    PROVE  TypesOK'
<1> DEFINE k == proc.run
           tries == status[k].tries + 1
<1>1. /\ status \in [Runs -> [state : States, tries : Nat, smoke : BOOLEAN]]
      /\ proc.smoke \in BOOLEAN
  BY TypesAre
<1>2. tries \in Nat \ {0}
  BY <1>1
<1>3. status' = [status EXCEPT ![k] = [state |-> state, tries |-> tries, smoke |-> proc.smoke]]
  BY DEF Recorded
<1> HIDE DEF tries
<1>4. status' \in [Runs -> [state : States, tries : Nat, smoke : BOOLEAN]]
  BY <1>1, <1>2, <1>3
<1>5. CampaignTypeOK'
  BY <1>4 DEF TypesOK, CampaignTypeOK, FaultsType
<1>6. ASSUME NEW j \in Runs, FailedBefore(j)'
      PROVE  status'[j].tries > 0
  <2>1. CASE j = k
    <3>1. status'[j] = [state |-> state, tries |-> tries, smoke |-> proc.smoke]
      BY <1>1, <1>3, <2>1
    <3> QED BY <1>2, <3>1
  <2>2. CASE j # k
    <3>1. status'[j] = status[j]
      BY <1>1, <1>3, <2>2
    <3> QED BY <1>6, <3>1 DEF TypesOK, FailedBefore
  <2> QED BY <2>1, <2>2
<1> QED BY <1>5, <1>6 DEF TypesOK, Exporting, Doing

\* The rows of the run that is being done.
LEMMA RowsAreLines ==
    ASSUME TypesOK, Exporting
    PROVE  /\ proc.run \in Runs /\ proc.step \in 1 .. 4 /\ Rows \in Seq(Line)
           /\ proc.step = 1 => Rows = <<RunLine(proc.run, 1, proc.smoke)>>
<1>1. proc.run \in Runs /\ proc.step \in 1 .. 4 /\ proc.smoke \in BOOLEAN
  BY TypesAre DEF TypesOK, Exporting, Doing
<1> QED BY <1>1, RowsType DEF Rows

\* The export raises: what is left of the rows, in the buffer and in the list.
LEMMA ExportRaises ==
    ASSUME TypesOK, FlushFails \/ MetaFails \/ \E n \in 0 .. Lines - 1 : RowFails(n)
    PROVE  \E buffer \in Seq(Line), entries \in Seq(Runs) :
              /\ ExportFailed(buffer, entries)
              /\ \/ /\ Exporting /\ entries = proc.meta /\ proc.step \in 1 .. 4
                    /\ \/ proc.pc = "flush" /\ buffer = proc.buffer
                       \/ /\ proc.pc = "write"
                          /\ \E n \in Nat : n < Len(Rows) /\ buffer = SubSeq(Rows, 1, n)
                 \/ /\ proc.pc = "meta" /\ buffer = <<>>
                    /\ entries = Append(proc.meta, proc.run)
<1>1. /\ proc.buffer \in Seq(Line) /\ proc.meta \in Seq(Runs)
      /\ Doing => proc.run \in Runs
      /\ Exporting => proc.step \in 1 .. 4
  BY TypesAre DEF TypesOK
<1>2. CASE FlushFails
  <2>1. proc.pc = "flush" /\ ExportFailed(proc.buffer, proc.meta)
    BY <1>2 DEF FlushFails
  <2> QED BY <1>1, <2>1 DEF Exporting
<1>3. CASE MetaFails
  <2> DEFINE entries == Append(proc.meta, proc.run)
  <2>1. proc.pc = "meta" /\ ExportFailed(<<>>, entries) /\ entries \in Seq(Runs)
    BY <1>1, <1>3 DEF MetaFails, Doing
  <2>2. <<>> \in Seq(Line)
    OBVIOUS
  <2> HIDE DEF entries
  <2>3. entries = Append(proc.meta, proc.run)
    BY DEF entries
  <2> QED BY <2>1, <2>2, <2>3
<1>4. ASSUME NEW n \in 0 .. Lines - 1, RowFails(n)
      PROVE  \E buffer \in Seq(Line) :
                /\ ExportFailed(buffer, proc.meta)
                /\ \E m \in Nat : m < Len(Rows) /\ buffer = SubSeq(Rows, 1, m)
  <2> DEFINE buffer == SubSeq(Rows, 1, n)
  <2>1. /\ proc.pc = "write" /\ n < Len(Rows) /\ ExportFailed(buffer, proc.meta)
        /\ n \in Nat
    BY <1>4, CampaignAssumption DEF RowFails
  <2>2. buffer \in Seq(Line)
    <3>1. Rows \in Seq(Line)
      BY <2>1, RowsAreLines DEF Exporting
    <3> HIDE DEF Rows
    <3>2. Len(Rows) \in Nat /\ \A i \in 1 .. Len(Rows) : Rows[i] \in Line
      BY <3>1
    <3> QED BY <2>1, <3>1, <3>2
  <2>3. \E m \in Nat : m < Len(Rows) /\ buffer = SubSeq(Rows, 1, m)
    BY <2>1
  <2> HIDE DEF buffer
  <2> QED BY <2>1, <2>2, <2>3
<1>5. ASSUME NEW n \in 0 .. Lines - 1, RowFails(n)
      PROVE  proc.pc = "write"
  BY <1>5 DEF RowFails
<1> QED BY <1>1, <1>2, <1>3, <1>4, <1>5 DEF Exporting

\* The steps in which the export raises are steps in which a run fails.
LEMMA ExportRaisesIn ==
    ASSUME TypesOK, NEW buffer \in Seq(Line), NEW entries \in Seq(Runs),
           ExportFailed(buffer, entries), Doing, buffer # <<>> => proc.step \in 1 .. 4
    PROVE  TypesOK'
<1>1. /\ Fails /\ status' = Recorded(proc.run, "export_failed")
      /\ proc' = [proc EXCEPT !.pc = "close", !.buffer = buffer, !.meta = entries,
                              !.failed = TRUE]
      /\ UNCHANGED <<table, meta, log>> /\ proc.run \in Runs
  BY DEF ExportFailed, TypesOK
<1>2. /\ proc' \in ProcType /\ proc'.pc = "close" /\ proc'.step = proc.step
      /\ proc'.run = proc.run /\ proc'.buffer = buffer
  BY <1>1, TypesAre DEF ProcType
<1>3. faults' \in FaultsType
  BY <1>1, FaultsCounted, TypesAre
<1>4. "export_failed" \in States \ {"none"}
  BY DEF States
<1> QED BY <1>1, <1>2, <1>3, <1>4, TypesRecord

\* An attempt is recorded.
LEMMA TypesOutcome ==
    ASSUME TypesOK,
           \/ RecordFailure \/ RecordCompleted \/ FlushFails \/ MetaFails
           \/ \E n \in 0 .. Lines - 1 : RowFails(n)
    PROVE  TypesOK'
<1>1. proc \in ProcType /\ faults \in FaultsType
  BY TypesAre
<1>2. CASE RecordFailure
  <2> DEFINE state == IF proc.result = "error" THEN "failed" ELSE "health_failed"
  <2>1. /\ status' = Recorded(proc.run, state)
        /\ proc' = [proc EXCEPT !.pc = "next", !.failed = TRUE]
        /\ UNCHANGED <<table, meta, log, faults>>
        /\ proc.buffer = <<>> /\ proc.run \in Runs
    BY <1>2 DEF RecordFailure, TypesOK, Doing
  <2>2. proc' \in ProcType /\ proc'.pc = "next" /\ proc'.buffer = <<>> /\ proc'.run = proc.run
    BY <1>1, <2>1 DEF ProcType
  <2>3. state \in States \ {"none"}
    BY DEF States
  <2> HIDE DEF state
  <2> QED BY <1>1, <2>1, <2>2, <2>3, TypesRecord
<1>3. CASE RecordCompleted
  <2>1. /\ status' = Recorded(proc.run, "completed") /\ proc' = [proc EXCEPT !.pc = "next"]
        /\ UNCHANGED <<table, meta, log, faults>> /\ proc.buffer = <<>> /\ proc.run \in Runs
    BY <1>3 DEF RecordCompleted, Goto, TypesOK, Doing
  <2>2. proc' \in ProcType /\ proc'.pc = "next" /\ proc'.buffer = <<>> /\ proc'.run = proc.run
    BY <1>1, <2>1 DEF ProcType
  <2>3. "completed" \in States \ {"none"}
    BY DEF States
  <2> QED BY <1>1, <2>1, <2>2, <2>3, TypesRecord
<1>4. CASE FlushFails \/ MetaFails \/ \E n \in 0 .. Lines - 1 : RowFails(n)
  <2>1. PICK buffer \in Seq(Line), entries \in Seq(Runs) :
               /\ ExportFailed(buffer, entries) /\ Doing
               /\ buffer # <<>> => proc.step \in 1 .. 4
    BY <1>4, ExportRaises DEF Doing
  <2> QED BY <2>1, ExportRaisesIn
<1> QED BY <1>2, <1>3, <1>4

\* Lines are made, flushed and closed.
LEMMA TypesExport ==
    ASSUME TypesOK, BeginExport \/ WriteRows \/ Flush \/ AddMeta \/ Close
    PROVE  TypesOK'
<1>1. /\ table \in [TableNames -> TableType] /\ (\A t \in TableNames : EndsWell(table[t]))
      /\ meta \in Seq(Runs) /\ proc \in ProcType /\ faults \in FaultsType
      /\ proc.buffer \in Seq(Line) /\ proc.meta \in Seq(Runs) /\ proc.step \in Nat
      /\ proc.smoke \in BOOLEAN
  BY TypesAre
<1>2. /\ Exporting => proc.step \in 1 .. 4
      /\ proc.buffer # <<>> => proc.pc \in {"flush", "close"} /\ proc.step \in 1 .. 4
      /\ Doing => proc.run \in Runs
  BY DEF TypesOK
<1>3. CASE BeginExport
  <2>1. /\ proc' = [proc EXCEPT !.pc = "write", !.step = 1] /\ UNCHANGED <<disk, faults>>
        /\ proc.run \in Runs /\ proc.buffer = <<>>
    BY <1>2, <1>3 DEF BeginExport, Doing
  <2>2. /\ proc' \in ProcType /\ proc'.pc = "write" /\ proc'.step = 1 /\ proc'.buffer = <<>>
        /\ proc'.run = proc.run
    BY <1>1, <2>1 DEF ProcType
  <2> QED BY <1>1, <2>1, <2>2, TypesFrame DEF disk
<1>4. CASE WriteRows
  <2>1. /\ proc' = [proc EXCEPT !.pc = "flush", !.buffer = Rows]
        /\ UNCHANGED <<disk, faults>> /\ proc.run \in Runs /\ proc.step \in 1 .. 4
        /\ Rows \in Seq(Line)
    BY <1>4, RowsAreLines DEF WriteRows, Exporting
  <2>2. proc' \in ProcType /\ proc'.pc = "flush" /\ proc'.step = proc.step /\ proc'.run = proc.run
    <3> HIDE DEF Rows
    <3> QED BY <1>1, <2>1 DEF ProcType
  <2> QED BY <1>1, <2>1, <2>2, TypesFrame DEF disk
<1>5. CASE Flush
  <2> DEFINE t  == Tables[proc.step]
             f  == Added(table[t], proc.buffer)
             pc == IF proc.step = Len(Tables) THEN "meta" ELSE "write"
             step == proc.step + 1
  <2>1. /\ table' = [table EXCEPT ![t] = f] /\ UNCHANGED <<status, meta, log, faults>>
        /\ proc' = [proc EXCEPT !.buffer = <<>>, !.step = step, !.pc = pc]
        /\ proc.step \in 1 .. 4 /\ proc.run \in Runs
    BY <1>2, <1>5 DEF Flush, Exporting, Doing
  <2>2. t \in TableNames /\ pc \in {"meta", "write"} /\ (pc = "write" => step \in 1 .. 4)
    BY <2>1, FourTables
  <2>3. f \in TableType /\ EndsWell(f)
    BY <1>1, <2>2, AddedType
  <2>4. step \in Nat /\ <<>> \in Seq(Line)
    BY <1>1
  <2> HIDE DEF t, f, pc, step
  <2>5. table' \in [TableNames -> TableType] /\ \A u \in TableNames : EndsWell(table'[u])
    BY <1>1, <2>1, <2>2, <2>3
  <2>6. /\ proc' \in ProcType /\ proc'.pc = pc /\ proc'.step = step /\ proc'.buffer = <<>>
        /\ proc'.run = proc.run
    BY <1>1, <2>1, <2>2, <2>4 DEF ProcType
  <2> QED BY <1>1, <2>1, <2>2, <2>5, <2>6, TypesFrame DEF Exporting
<1>6. CASE AddMeta
  <2>1. /\ meta' = Append(proc.meta, proc.run) /\ UNCHANGED <<status, table, log, faults>>
        /\ proc' = [proc EXCEPT !.pc = "done", !.meta = meta'] /\ proc.run \in Runs
        /\ proc.buffer = <<>>
    BY <1>2, <1>6 DEF AddMeta, Doing
  <2>2. meta' \in Seq(Runs)
    BY <1>1, <2>1
  <2>3. proc' \in ProcType /\ proc'.pc = "done" /\ proc'.buffer = <<>> /\ proc'.run = proc.run
    BY <1>1, <2>1, <2>2 DEF ProcType
  <2> QED BY <1>1, <2>1, <2>2, <2>3, TypesFrame DEF Exporting
<1>7. CASE Close
  <2> DEFINE verdict == IF proc.failed THEN "failed" ELSE Verdict(proc.plan, proc.smoke)
  <2>1. /\ table' = [t \in TableNames |-> [Added(table[t], Pending(t)) EXCEPT !.some = TRUE]]
        /\ meta' = proc.meta /\ UNCHANGED <<status, log, faults>>
        /\ proc' = [Idle EXCEPT !.smoke = proc.smoke, !.verdict = verdict]
    BY <1>7 DEF Close
  <2>2. verdict \in {"none", "open", "failed", "PASS", "FAIL"}
    BY DEF Verdict
  <2>3. \A t \in TableNames : Pending(t) \in Seq(Line)
    BY <1>1 DEF Pending
  <2> HIDE DEF verdict
  <2>4. ASSUME NEW t \in TableNames
        PROVE  /\ [Added(table[t], Pending(t)) EXCEPT !.some = TRUE] \in TableType
               /\ EndsWell([Added(table[t], Pending(t)) EXCEPT !.some = TRUE])
    <3> DEFINE f == Added(table[t], Pending(t))
    <3>1. f \in TableType /\ EndsWell(f)
      BY <1>1, <2>3, AddedType
    <3> HIDE DEF f
    <3>2. [f EXCEPT !.some = TRUE] \in TableType /\ EndsWell([f EXCEPT !.some = TRUE])
      BY <3>1 DEF TableType, EndsWell
    <3> QED BY <3>2 DEF f
  <2>5. table' \in [TableNames -> TableType] /\ \A u \in TableNames : EndsWell(table'[u])
    BY <2>1, <2>4
  <2>6. proc' \in ProcType /\ proc'.pc = "off" /\ proc'.buffer = <<>>
    BY <1>1, <2>1, <2>2, IdleType DEF Idle, ProcType
  <2> QED BY <1>1, <2>1, <2>5, <2>6, TypesFrame DEF Exporting, Doing
<1> QED BY <1>3, <1>4, <1>5, <1>6, <1>7

\* What the process leaves of its lines when it dies: nothing, some of them, or
\* some of them and the next one torn.
LEMMA CrashLeaves ==
    ASSUME TypesOK, Crash
    PROVE  \/ table' = table
           \/ \E n \in 0 .. Len(proc.buffer), g \in TableType :
                 LET t     == Tables[proc.step]
                     whole == Added(table[t], SubSeq(proc.buffer, 1, n))
                 IN  /\ proc.pc \in {"flush", "close"} /\ proc.step \in 1 .. 4
                     /\ SubSeq(proc.buffer, 1, n) \in Seq(Line)
                     /\ table' = [table EXCEPT ![t] = g] /\ EndsWell(g)
                     /\ whole \in TableType /\ EndsWell(whole)
                     /\ \/ g = whole
                        \/ /\ t # "runs" /\ n < Len(proc.buffer) /\ proc.buffer[n + 1] \in Line
                           /\ g \in Torn(whole, proc.buffer[n + 1])
<1> DEFINE t == Tables[proc.step]
           buffer == proc.buffer
           whole(n) == Added(table[t], SubSeq(buffer, 1, n))
<1>1. SUFFICES ASSUME proc.buffer # <<>>
               PROVE  \E n \in 0 .. Len(buffer), g \in TableType :
                        /\ proc.pc \in {"flush", "close"} /\ proc.step \in 1 .. 4
                        /\ SubSeq(buffer, 1, n) \in Seq(Line)
                        /\ table' = [table EXCEPT ![t] = g] /\ EndsWell(g)
                        /\ whole(n) \in TableType /\ EndsWell(whole(n))
                        /\ \/ g = whole(n)
                           \/ /\ t # "runs" /\ n < Len(buffer) /\ buffer[n + 1] \in Line
                              /\ g \in Torn(whole(n), buffer[n + 1])
  BY DEF Crash
<1>2. proc.pc \in {"flush", "close"} /\ proc.step \in 1 .. 4 /\ t \in TableNames
  BY <1>1, FourTables DEF TypesOK
<1>3. buffer \in Seq(Line) /\ Len(buffer) \in Nat /\ \A i \in 1 .. Len(buffer) : buffer[i] \in Line
  <2>1. buffer \in Seq(Line)
    BY TypesAre
  <2> HIDE DEF buffer
  <2> QED BY <2>1
<1>4. PICK n \in 0 .. Len(buffer) :
        \/ table' = [table EXCEPT ![t] = whole(n)]
        \/ /\ n < Len(buffer) /\ t # "runs"
           /\ \E g \in Torn(whole(n), buffer[n + 1]) : table' = [table EXCEPT ![t] = g]
  BY <1>1 DEF Crash
<1>5. SubSeq(buffer, 1, n) \in Seq(Line)
  <2> HIDE DEF buffer
  <2> QED BY <1>3, <1>4
<1>6. whole(n) \in TableType /\ EndsWell(whole(n))
  BY <1>2, <1>5, AddedType, TypesAre
<1>7. n < Len(buffer) => buffer[n + 1] \in Line
  BY <1>3
<1> HIDE DEF t, buffer, whole
<1>8. CASE table' = [table EXCEPT ![t] = whole(n)]
  BY <1>2, <1>5, <1>6, <1>8
<1>9. ASSUME n < Len(buffer), t # "runs", NEW g \in Torn(whole(n), buffer[n + 1]),
             table' = [table EXCEPT ![t] = g]
      PROVE  /\ g \in TableType /\ EndsWell(g) /\ n < Len(buffer) /\ t # "runs"
             /\ buffer[n + 1] \in Line
  BY <1>6, <1>7, <1>9, TornIs
<1> QED BY <1>2, <1>4, <1>5, <1>6, <1>8, <1>9

\* The process dies.
LEMMA TypesCrash == ASSUME TypesOK, Crash PROVE TypesOK'
<1>1. /\ proc' = Idle /\ UNCHANGED <<status, log, meta>>
      /\ faults' \in FaultsType /\ meta \in Seq(Runs)
      /\ table \in [TableNames -> TableType] /\ \A t \in TableNames : EndsWell(table[t])
  BY TypesAre, FaultsCounted DEF Crash
<1>2. proc' \in ProcType /\ proc'.pc = "off" /\ proc'.buffer = <<>>
  BY <1>1, IdleType DEF Idle
<1>3. table' \in [TableNames -> TableType] /\ \A u \in TableNames : EndsWell(table'[u])
  <2>1. CASE table' = table
    BY <1>1, <2>1
  <2>2. ASSUME NEW t \in TableNames, NEW g \in TableType, EndsWell(g),
               table' = [table EXCEPT ![t] = g]
        PROVE  table' \in [TableNames -> TableType] /\ \A u \in TableNames : EndsWell(table'[u])
    BY <1>1, <2>2
  <2> QED BY <2>1, <2>2, CrashLeaves, FourTables
<1> QED BY <1>1, <1>2, <1>3, TypesFrame DEF Exporting, Doing

\* The invariant of the types.
LEMMA TypesInvariant == Spec => []TypesOK
<1>1. TypesOK /\ [Next]_vars => TypesOK'
  <2> SUFFICES ASSUME TypesOK, [Next]_vars PROVE TypesOK'
    OBVIOUS
  <2>1. ASSUME NEW policies \in PolicyLists, NEW seeds \in SeedLists, NEW smoke \in BOOLEAN,
               Start(policies, seeds, smoke)
        PROVE  TypesOK'
    BY <2>1, TypesStart
  <2>2. CASE UNCHANGED vars
    BY <2>2 DEF vars, disk, TypesOK, CampaignTypeOK, EndsWell, FailedBefore, Exporting, Doing
  <2> QED BY <2>1, <2>2, TypesOpen, TypesRun, TypesOutcome, TypesExport, TypesCrash DEF Next
<1> QED BY <1>1, TypesInit, PTL DEF Spec

\* The types hold in every campaign, whatever fails.
THEOREM CampaignTypes == Spec => []CampaignTypeOK
<1>1. TypesOK => CampaignTypeOK
  BY DEF TypesOK
<1> QED BY <1>1, TypesInvariant, PTL

----------------------------------------------------------------------------
(* The logs *)

\* The log of the last recorded attempt of a run, or of the one after it if the
\* process died in that one, is kept under the number of the recorded one.
Kept(k) ==
    LET n == status[k].tries IN
    <<n, n>> \in log[k].kept \/ (faults.deaths > 0 /\ <<n, n + 1>> \in log[k].kept)

\* A run of which a log was written and no status yet.
Unrecorded(k) == Doing /\ proc.pc # "run" /\ proc.run = k

\* A log is that of the last recorded attempt or of the one after it.  Before a
\* run begins, the log of its failure is set aside.
RunLogsOK(k) ==
    /\ log[k].main \in {0, status[k].tries, status[k].tries + 1}
    /\ log[k].main = status[k].tries + 1 => faults.deaths > 0 \/ Unrecorded(k)
    /\ FailedBefore(k) => log[k].main = status[k].tries \/ Kept(k)
    /\ Unrecorded(k) => log[k].main = status[k].tries + 1
    /\ Doing /\ proc.run = k /\ FailedBefore(k) => Kept(k)

LogsOK == \A k \in Runs : RunLogsOK(k)

\* A campaign starts without logs.
LEMMA LogsInit == Init => LogsOK
<1> SUFFICES ASSUME Init, NEW k \in Runs PROVE RunLogsOK(k)
  BY DEF LogsOK
<1>1. /\ status[k] = [state |-> "none", tries |-> 0, smoke |-> FALSE]
      /\ log[k] = [main |-> 0, kept |-> {}] /\ proc.pc = "off"
  BY DEF Init, Idle
<1> QED BY <1>1 DEF RunLogsOK, FailedBefore, FailureStates, Doing, Unrecorded

\* Steps that leave the logs and the status of a run alone, and of which it either
\* has no part or goes on being done.
LEMMA LogsFrame ==
    ASSUME TypesOK, NEW k \in Runs, RunLogsOK(k), status'[k] = status[k], log'[k] = log[k],
           faults'.deaths > 0 \/ (faults.deaths = 0 /\ (Unrecorded(k) => Unrecorded(k)')),
           Unrecorded(k)' => Unrecorded(k),
           Doing' /\ proc'.run = k => Doing /\ proc.run = k
    PROVE  RunLogsOK(k)'
<1>1. faults.deaths \in Nat
  BY TypesAre, CampaignAssumption DEF FaultsType
<1>2. Kept(k) => Kept(k)'
  BY <1>1 DEF Kept
<1>3. FailedBefore(k)' = FailedBefore(k)
  BY DEF FailedBefore
<1> HIDE DEF Kept, FailedBefore, Doing
<1> QED BY <1>1, <1>2, <1>3 DEF RunLogsOK

\* Steps in which no log is written and no attempt is recorded.
LEMMA LogsUntouched ==
    ASSUME TypesOK, LogsOK,
           \/ \E policies \in PolicyLists, seeds \in SeedLists, smoke \in BOOLEAN :
                 Start(policies, seeds, smoke)
           \/ PurgeTable \/ PurgeMeta \/ PurgeRaises \/ Open \/ Close
           \/ BeginExport \/ WriteRows \/ Flush \/ AddMeta
           \/ UNCHANGED vars
    PROVE  LogsOK'
<1>1. UNCHANGED <<status, log, faults>>
  BY DEF Start, PurgeTable, PurgeMeta, PurgeRaises, Open, Close, BeginExport, WriteRows,
         Flush, AddMeta, vars, disk
<1>2. proc \in ProcType /\ faults.deaths \in Nat
  BY TypesAre, CampaignAssumption DEF FaultsType
<1>3. \/ ~Doing /\ ~Doing'
      \/ proc' = proc
      \/ Doing /\ proc.pc # "run" /\ Doing' /\ proc'.pc # "run" /\ proc'.run = proc.run
  <2>1. ASSUME NEW policies, NEW seeds, NEW smoke, Start(policies, seeds, smoke)
        PROVE  ~Doing /\ ~Doing'
    BY <2>1 DEF Start, Idle, Doing
  <2>2. CASE PurgeTable \/ PurgeMeta \/ PurgeRaises \/ Open \/ Close
    <3>1. proc.pc \in {"purge", "open", "next", "close"}
      BY <2>2 DEF PurgeTable, PurgeMeta, PurgeRaises, Open, Close
    <3>2. CASE PurgeTable
      BY <1>2, <3>1, <3>2 DEF PurgeTable, Doing, ProcType
    <3>3. CASE PurgeMeta
      BY <1>2, <3>1, <3>3 DEF PurgeMeta, Goto, Doing, ProcType
    <3>4. CASE PurgeRaises
      BY <3>1, <3>4 DEF PurgeRaises, Idle, Doing
    <3>6. CASE Close
      <4> DEFINE verdict == IF proc.failed THEN "failed" ELSE Verdict(proc.plan, proc.smoke)
      <4>1. proc' = [Idle EXCEPT !.smoke = proc.smoke, !.verdict = verdict]
        BY <3>6 DEF Close
      <4> HIDE DEF verdict
      <4> QED BY <3>1, <3>6, <4>1 DEF Close, Idle, Doing
    <3>5. CASE Open
      <4>1. proc'.pc = "next"
        BY <1>2, <3>5 DEF Open, ProcType
      <4> QED BY <3>1, <3>5, <4>1 DEF Open, Doing
    <3> QED BY <2>2, <3>2, <3>3, <3>4, <3>5, <3>6
  <2>3. CASE BeginExport \/ WriteRows \/ Flush \/ AddMeta
    BY <1>2, <2>3 DEF BeginExport, WriteRows, Flush, AddMeta, Doing, ProcType
  <2> QED BY <2>1, <2>2, <2>3 DEF vars
<1> SUFFICES ASSUME NEW k \in Runs PROVE RunLogsOK(k)'
  BY DEF LogsOK
<1>4. /\ Unrecorded(k) <=> Unrecorded(k)'
      /\ Doing' /\ proc'.run = k => Doing /\ proc.run = k
  BY <1>3 DEF Unrecorded, Doing
<1>5. faults'.deaths > 0 \/ faults.deaths = 0
  BY <1>1, <1>2
<1>6. RunLogsOK(k)
  BY DEF LogsOK
<1> HIDE DEF Unrecorded, Doing, RunLogsOK
<1> QED BY <1>1, <1>4, <1>5, <1>6, LogsFrame

\* A run begins.
LEMMA LogsBegin == ASSUME TypesOK, LogsOK, BeginRun PROVE LogsOK'
<1> DEFINE r == Head(proc.todo)
           n == status[r].tries
<1>1. /\ proc.pc = "next" /\ proc.todo # <<>>
      /\ proc' = [proc EXCEPT !.pc = "run", !.run = r, !.todo = Tail(@)]
      /\ log' = IF FailedBefore(r) /\ log[r].main # 0
                THEN [log EXCEPT ![r] = SetAside(@, n)] ELSE log
      /\ UNCHANGED <<status, faults>>
  BY DEF BeginRun, KeepsLog
<1>2. /\ proc \in ProcType /\ log \in [Runs -> LogType] /\ faults.deaths \in Nat
      /\ status \in [Runs -> [state : States, tries : Nat, smoke : BOOLEAN]]
      /\ proc.todo \in Seq(Runs)
  BY TypesAre, CampaignAssumption DEF FaultsType
<1>3. r \in Runs
  BY <1>1, <1>2, Parts
<1>4. n \in Nat /\ (FailedBefore(r) => n > 0) /\ log[r].main \in Nat
  BY <1>2, <1>3 DEF TypesOK, LogType
<1> HIDE DEF r
<1>5. ~Doing /\ Doing' /\ proc'.pc = "run" /\ proc'.run = r
  BY <1>1, <1>2 DEF Doing, ProcType
<1> SUFFICES ASSUME NEW k \in Runs PROVE RunLogsOK(k)'
  BY DEF LogsOK
<1>6. RunLogsOK(k) /\ ~Unrecorded(k) /\ ~Unrecorded(k)'
  BY <1>5 DEF LogsOK, Unrecorded
<1>7. CASE k # r
  <2>1. log'[k] = log[k] /\ status'[k] = status[k]
    BY <1>1, <1>2, <1>7
  <2>2. faults'.deaths > 0 \/ faults.deaths = 0
    BY <1>1, <1>2
  <2> HIDE DEF Unrecorded, Doing, RunLogsOK
  <2> QED BY <1>5, <1>6, <1>7, <2>1, <2>2, LogsFrame
<1>8. CASE k = r
  <2>1. /\ log[k].main \in {0, n, n + 1}
        /\ log[k].main = n + 1 => faults.deaths > 0
        /\ FailedBefore(k) => log[k].main = n \/ Kept(k)
    BY <1>6, <1>8 DEF RunLogsOK
  <2>2. CASE FailedBefore(k) /\ log[k].main # 0
    <3>1. log'[k] = SetAside(log[k], n)
      BY <1>1, <1>2, <1>3, <1>8, <2>2
    <3>2. log'[k].main = 0 /\ <<n, log[k].main>> \in log'[k].kept
      BY <3>1 DEF SetAside
    <3>3. Kept(k)'
      BY <1>1, <1>8, <2>1, <2>2, <3>2 DEF Kept
    <3>4. FailedBefore(k)' = FailedBefore(k) /\ status'[k].tries = n
      BY <1>1, <1>8 DEF FailedBefore
    <3> HIDE DEF Kept, FailedBefore
    <3> QED BY <1>4, <1>6, <3>2, <3>3, <3>4 DEF RunLogsOK
  <2>3. CASE ~(FailedBefore(k) /\ log[k].main # 0)
    <3>1. log' = log /\ status' = status /\ faults' = faults
      BY <1>1, <1>8, <2>3
    <3>2. FailedBefore(k) => Kept(k)
      BY <1>4, <1>8, <2>1, <2>3
    <3>3. Kept(k)' = Kept(k) /\ FailedBefore(k)' = FailedBefore(k)
      BY <3>1 DEF Kept, FailedBefore
    <3> HIDE DEF Kept, FailedBefore
    <3> QED BY <1>6, <1>8, <2>1, <3>1, <3>2, <3>3 DEF RunLogsOK
  <2> QED BY <2>2, <2>3
<1> QED BY <1>7, <1>8

\* The log of a run is written.
LEMMA LogsEnd ==
    ASSUME TypesOK, LogsOK, NEW raised \in BOOLEAN, NEW signals, EndRun(raised, signals)
    PROVE  LogsOK'
<1> DEFINE r == proc.run
           n == status[r].tries
<1>1. /\ proc.pc = "run" /\ (UNCHANGED faults \/ Fails)
      /\ log' = [log EXCEPT ![r].main = n + 1]
      /\ proc' = [proc EXCEPT !.pc = "ran", !.result = IF raised THEN "error" ELSE Evaluate(signals)]
      /\ UNCHANGED status /\ r \in Runs
  BY DEF EndRun, TypesOK, Doing
<1>2. /\ proc \in ProcType /\ log \in [Runs -> LogType]
      /\ faults.deaths \in Nat /\ faults'.deaths = faults.deaths
      /\ status \in [Runs -> [state : States, tries : Nat, smoke : BOOLEAN]]
  BY <1>1, TypesAre, FaultsCounted, CampaignAssumption DEF FaultsType
<1>3. Doing /\ Doing' /\ proc'.pc = "ran" /\ proc'.run = r
  BY <1>1, <1>2 DEF Doing, ProcType
<1> SUFFICES ASSUME NEW k \in Runs PROVE RunLogsOK(k)'
  BY DEF LogsOK
<1>4. RunLogsOK(k)
  BY DEF LogsOK
<1>5. CASE k # r
  <2>1. log'[k] = log[k] /\ status'[k] = status[k]
    BY <1>1, <1>2, <1>5
  <2>2. ~Unrecorded(k) /\ ~Unrecorded(k)'
    BY <1>3, <1>5 DEF Unrecorded
  <2>3. faults'.deaths > 0 \/ faults.deaths = 0
    BY <1>2
  <2> HIDE DEF Unrecorded, Doing, RunLogsOK, r
  <2> QED BY <1>3, <1>4, <1>5, <2>1, <2>2, <2>3, LogsFrame DEF r
<1>6. CASE k = r
  <2>1. log'[k].main = n + 1 /\ log'[k].kept = log[k].kept /\ n \in Nat
    BY <1>1, <1>2, <1>6 DEF LogType
  <2>2. FailedBefore(k) => Kept(k)
    BY <1>3, <1>4, <1>6 DEF RunLogsOK
  <2>3. Kept(k)' = Kept(k) /\ FailedBefore(k)' = FailedBefore(k)
    BY <1>1, <1>2, <2>1 DEF Kept, FailedBefore
  <2>4. Unrecorded(k)' /\ status'[k].tries = n
    BY <1>1, <1>3, <1>6 DEF Unrecorded
  <2> HIDE DEF Kept, FailedBefore
  <2> QED BY <2>1, <2>2, <2>3, <2>4 DEF RunLogsOK
<1> QED BY <1>5, <1>6

\* An attempt is recorded.
LEMMA LogsOutcome ==
    ASSUME TypesOK, LogsOK,
           \/ RecordFailure \/ RecordCompleted \/ FlushFails \/ MetaFails
           \/ \E n \in 0 .. Lines - 1 : RowFails(n)
    PROVE  LogsOK'
<1> DEFINE r == proc.run
           n == status[r].tries
<1>1. /\ Doing /\ proc.pc # "run" /\ r \in Runs
      /\ \E state \in States : status' = Recorded(r, state)
      /\ log' = log /\ (UNCHANGED faults \/ Fails) /\ proc'.pc \in {"next", "close"}
  <2>1. proc \in ProcType
    BY TypesAre
  <2>2. CASE RecordFailure \/ RecordCompleted
    BY <2>1, <2>2 DEF RecordFailure, RecordCompleted, Goto, Doing, TypesOK, States, ProcType
  <2>3. ASSUME NEW buffer, NEW entries, ExportFailed(buffer, entries)
        PROVE  /\ \E state \in States : status' = Recorded(r, state)
               /\ log' = log /\ Fails /\ proc'.pc = "close"
    BY <2>1, <2>3 DEF ExportFailed, States, ProcType
  <2>4. CASE FlushFails \/ MetaFails \/ \E m \in 0 .. Lines - 1 : RowFails(m)
    <3>1. Doing /\ proc.pc # "run"
      BY <2>4 DEF FlushFails, MetaFails, RowFails, Doing
    <3>2. \E buffer, entries : ExportFailed(buffer, entries)
      BY <2>4 DEF FlushFails, MetaFails, RowFails
    <3> QED BY <2>3, <3>1, <3>2 DEF TypesOK
  <2> QED BY <2>2, <2>4
<1>2. /\ faults.deaths \in Nat /\ faults'.deaths = faults.deaths
      /\ status \in [Runs -> [state : States, tries : Nat, smoke : BOOLEAN]]
  BY <1>1, TypesAre, FaultsCounted, CampaignAssumption DEF FaultsType
<1>3. PICK state \in States : status' = Recorded(r, state)
  BY <1>1
<1>4. /\ status' = [status EXCEPT ![r] = [state |-> state, tries |-> n + 1, smoke |-> proc.smoke]]
      /\ ~Doing'
  BY <1>1, <1>3 DEF Recorded, Doing
<1> SUFFICES ASSUME NEW k \in Runs PROVE RunLogsOK(k)'
  BY DEF LogsOK
<1>5. RunLogsOK(k)
  BY DEF LogsOK
<1>6. CASE k # r
  <2>1. log'[k] = log[k] /\ status'[k] = status[k]
    BY <1>1, <1>2, <1>4, <1>6
  <2>2. ~Unrecorded(k) /\ ~Unrecorded(k)'
    BY <1>4, <1>6 DEF Unrecorded
  <2>3. faults'.deaths > 0 \/ faults.deaths = 0
    BY <1>2
  <2> HIDE DEF Unrecorded, Doing, RunLogsOK, r
  <2> QED BY <1>4, <1>5, <2>1, <2>2, <2>3, LogsFrame
<1>7. CASE k = r
  <2>1. status'[k].tries = n + 1 /\ n \in Nat
    BY <1>1, <1>2, <1>4, <1>7
  <2>2. log'[k].main = n + 1
    BY <1>1, <1>5, <1>7 DEF RunLogsOK, Unrecorded
  <2> QED BY <1>4, <2>1, <2>2 DEF RunLogsOK, Unrecorded
<1> QED BY <1>6, <1>7

\* The process dies.
LEMMA LogsCrash == ASSUME TypesOK, LogsOK, Crash PROVE LogsOK'
<1>1. UNCHANGED <<status, log>> /\ ~Doing' /\ faults'.deaths > 0
  BY TypesAre, FaultsCounted DEF Crash, Idle, Doing
<1> SUFFICES ASSUME NEW k \in Runs PROVE RunLogsOK(k)'
  BY DEF LogsOK
<1>2. RunLogsOK(k) /\ ~Unrecorded(k)'
  BY <1>1 DEF LogsOK, Unrecorded
<1> HIDE DEF Unrecorded, Doing, RunLogsOK
<1> QED BY <1>1, <1>2, LogsFrame

\* The invariant of the logs.
LEMMA LogsInvariant == Spec => []LogsOK
<1>1. TypesOK /\ LogsOK /\ [Next]_vars => LogsOK'
  <2> SUFFICES ASSUME TypesOK, LogsOK, [Next]_vars PROVE LogsOK'
    OBVIOUS
  <2>1. ASSUME NEW raised \in BOOLEAN, NEW signals \in SUBSET HardSignals, EndRun(raised, signals)
        PROVE  LogsOK'
    BY <2>1, LogsEnd
  <2> QED BY <2>1, LogsUntouched, LogsBegin, LogsOutcome, LogsCrash DEF Next
<1> QED BY <1>1, LogsInit, TypesInvariant, PTL DEF Spec

\* The log of a recorded failure stays the run's log until the next attempt of
\* the run begins, and is then kept, whatever fails; only the log of an attempt
\* that the process died in may take its place.
THEOREM LogsKept == Spec => []FailuresKeepTheirLogs
<1>1. LogsOK => FailuresKeepTheirLogs
  BY DEF LogsOK, RunLogsOK, Kept, FailuresKeepTheirLogs
<1> QED BY <1>1, LogsInvariant, PTL

----------------------------------------------------------------------------
(* runs.csv and the metadata *)

\* A table has a line of a run with a horizon; a list has an entry of a run.
HasLine(L, k, smoke) == \E i \in DOMAIN L : L[i].run = k /\ L[i].smoke = smoke
HasEntry(m, k)       == \E i \in DOMAIN m : m[i] = k

\* The lines of runs.csv.
RunLines == table["runs"].lines

\* A table without a broken line, and not empty if it has lines.
Whole(f) == f.cut = "no" /\ (f.lines # <<>> => f.some)

\* What is completed is on disk, and in the list that the writer will write.
CompletedOK ==
    \A k \in Runs : IsCompleted(k) =>
        /\ HasLine(RunLines, k, status[k].smoke) /\ HasEntry(meta, k)
        /\ proc.pc \notin {"off", "purge", "open"} => HasEntry(proc.meta, k)

\* Until the writer is there, no run of the plan that is open is completed, and
\* no run at all if the tables will be emptied.
TodoOK ==
    proc.pc \in {"purge", "open"} =>
        /\ \A i \in DOMAIN proc.todo : ~IsCompleted(proc.todo[i])
        /\ ~proc.append => \A k \in Runs : ~IsCompleted(k)

\* Before the flush of runs.csv.
BeforeFlush ==
    proc.pc \in {"run", "ran"} \/ (proc.pc \in {"write", "flush"} /\ proc.step = 1)

\* The run that is being done has a line after the first flush, and an entry at
\* the end.
RunOK ==
    Doing => /\ ~BeforeFlush => HasLine(RunLines, proc.run, proc.smoke)
             /\ proc.pc = "done" => meta = proc.meta /\ HasEntry(meta, proc.run)

\* The buffer of runs.csv holds the one line of the run until it is flushed.
BufferOK ==
    proc.pc = "flush" /\ proc.step = 1 => proc.buffer = <<RunLine(proc.run, 1, proc.smoke)>>

\* The invariant of runs.csv and the metadata.
ExportOK == Whole(table["runs"]) /\ CompletedOK /\ TodoOK /\ RunOK /\ BufferOK

\* Lines are added to a table without a broken line.
LEMMA WholeAdded ==
    ASSUME NEW f \in TableType, Whole(f), NEW new \in Seq(Line)
    PROVE  LET g == Added(f, new) IN
           /\ Whole(g) /\ g.lines = f.lines \o new
           /\ \A i \in DOMAIN f.lines : i \in DOMAIN g.lines /\ g.lines[i] = f.lines[i]
           /\ \A k, b : HasLine(f.lines, k, b) => HasLine(g.lines, k, b)
           /\ \A k, b : HasLine(new, k, b) => HasLine(g.lines, k, b)
<1> DEFINE g == Added(f, new)
           L == f.lines
<1>1. L \in Seq(Line) /\ f.some \in BOOLEAN
  BY DEF TableType
<1>2. g = [f EXCEPT !.lines = @ \o new, !.some = @ \/ new # <<>>]
  BY DEF Added, Whole
<1>3. g.lines = L \o new /\ g.cut = "no" /\ (g.some <=> f.some \/ new # <<>>)
  BY <1>2 DEF TableType, Whole
<1>4. L = <<>> /\ new = <<>> => L \o new = <<>>
  BY <1>1
<1> HIDE DEF g, L
<1>5. DOMAIN L = 1 .. Len(L) /\ DOMAIN new = 1 .. Len(new) /\ Len(L) \in Nat /\ Len(new) \in Nat
  BY <1>1
<1>6. /\ \A i \in DOMAIN L : i \in DOMAIN (L \o new) /\ (L \o new)[i] = L[i]
      /\ \A i \in DOMAIN new : Len(L) + i \in DOMAIN (L \o new) /\ (L \o new)[Len(L) + i] = new[i]
  BY <1>1, <1>5
<1>7. \A k, b : HasLine(L, k, b) => HasLine(L \o new, k, b)
  BY <1>6 DEF HasLine
<1>8. \A k, b : HasLine(new, k, b) => HasLine(L \o new, k, b)
  BY <1>6 DEF HasLine
<1>9. Whole(g)
  BY <1>3, <1>4 DEF Whole, L
<1> QED BY <1>3, <1>6, <1>7, <1>8, <1>9 DEF g, L

\* Lines of some runs are purged; the others are there.
LEMMA LinesPurged ==
    ASSUME NEW f \in TableType, Whole(f), NEW ids
    PROVE  LET g == Purged(f, ids) IN
           /\ Whole(g)
           /\ \A k, b : k \notin ids /\ HasLine(f.lines, k, b) => HasLine(g.lines, k, b)
<1> DEFINE L == f.lines
           out == {i \in DOMAIN L : L[i].run \in ids}
           keep == Without(L, out)
<1>1. L \in Seq(Line)
  BY DEF TableType
<1>2. \A i \in DOMAIN L \ out : \E j \in DOMAIN keep : keep[j] = L[i]
  <2> HIDE DEF L, out
  <2> QED BY <1>1, WithoutKeeps, SMTT(40)
<1>3. Purged(f, ids) = IF keep = L THEN f ELSE [lines |-> keep, cut |-> "no", some |-> TRUE]
  BY DEF Purged
<1> HIDE DEF keep
<1>4. Whole(Purged(f, ids)) /\ Purged(f, ids).lines = keep
  BY <1>3 DEF Whole
<1>5. \A k, b : k \notin ids /\ HasLine(L, k, b) => HasLine(keep, k, b)
  BY <1>2 DEF HasLine
<1> QED BY <1>4, <1>5

\* Entries are purged.
LEMMA EntriesPurged ==
    ASSUME NEW m \in Seq(Runs), NEW ids
    PROVE  LET new == Without(m, {i \in DOMAIN m : m[i] \in ids}) IN
           \A k : k \notin ids /\ HasEntry(m, k) => HasEntry(new, k)
<1> DEFINE out == {i \in DOMAIN m : m[i] \in ids}
           new == Without(m, out)
<1>1. \A i \in DOMAIN m \ out : \E j \in DOMAIN new : new[j] = m[i]
  <2> HIDE DEF out
  <2> QED BY WithoutKeeps, ZenonT(40)
<1> HIDE DEF new
<1>2. \A k : k \notin ids /\ HasEntry(m, k) => HasEntry(new, k)
  BY <1>1 DEF HasEntry
<1> QED BY <1>2 DEF new

\* An entry is added.
LEMMA EntryAdded ==
    ASSUME NEW m \in Seq(Runs), NEW k \in Runs
    PROVE  /\ HasEntry(Append(m, k), k)
           /\ \A j : HasEntry(m, j) => HasEntry(Append(m, k), j)
<1> DEFINE n == Len(m)
           a == Append(m, k)
<1>1. n \in Nat /\ DOMAIN m = 1 .. n
  BY LenProperties
<1>2. DOMAIN a = 1 .. n + 1 /\ a[n + 1] = k /\ \A i \in 1 .. n : a[i] = m[i]
  BY AppendProperties
<1> HIDE DEF n, a
<1>3. HasEntry(a, k)
  BY <1>1, <1>2 DEF HasEntry
<1>4. \A j : HasEntry(m, j) => HasEntry(a, j)
  BY <1>1, <1>2 DEF HasEntry
<1> QED BY <1>3, <1>4 DEF a

\* At first nothing is completed.
LEMMA ExportInit == Init => ExportOK
<1> SUFFICES ASSUME Init PROVE ExportOK
  OBVIOUS
<1>1. \A k \in Runs : ~IsCompleted(k)
  BY DEF Init, IsCompleted
<1>2. table["runs"] = Empty
  BY FourTables DEF Init
<1>3. proc.pc = "off"
  BY DEF Init, Idle
<1> QED BY <1>1, <1>2, <1>3 DEF ExportOK, Whole, Empty, CompletedOK, TodoOK, RunOK, Doing, BufferOK

\* A call of the program.
LEMMA ExportStart ==
    ASSUME TypesOK, ExportOK,
           NEW policies \in PolicyLists, NEW seeds \in SeedLists, NEW smoke \in BOOLEAN,
           Start(policies, seeds, smoke)
    PROVE  ExportOK'
<1> DEFINE plan    == Plan(policies, seeds)
           out     == {i \in DOMAIN plan : IsCompleted(plan[i])}
           open    == Without(plan, out)
           pc      == IF open = <<>> THEN "off" ELSE IF HasData THEN "purge" ELSE "open"
           append  == Appends(plan, open)
           verdict == IF open = <<>> THEN Verdict(ToSet(plan), smoke) ELSE "none"
<1>1. /\ proc' = [Idle EXCEPT !.pc = pc, !.todo = open, !.plan = ToSet(plan), !.smoke = smoke,
                              !.append = append, !.verdict = verdict]
      /\ UNCHANGED <<status, table, meta>>
  BY DEF Start, disk
<1>2. append <=> HasData
  BY DEF Appends
<1>3. ~HasData => \A k \in Runs : ~IsCompleted(k)
  <2>1. ~HasData => RunLines = <<>>
    BY FourTables DEF HasData, ExportOK, Whole, RunLines
  <2> QED BY <2>1 DEF ExportOK, CompletedOK, HasLine
<1>4. pc \in {"off", "purge", "open"}
  OBVIOUS
<1>5. \A j \in DOMAIN open : ~IsCompleted(open[j])
  <2>1. plan \in Seq(Runs)
    BY PlanType
  <2> HIDE DEF plan
  <2>2. \A j \in DOMAIN open : \E i \in DOMAIN plan \ out : open[j] = plan[i]
    <3> HIDE DEF out
    <3> QED BY <2>1, WithoutKeeps, SMTT(40)
  <2> HIDE DEF open
  <2> QED BY <2>2
<1> HIDE DEF plan, open, pc, append, verdict
<1>6. proc'.pc = pc /\ proc'.todo = open /\ proc'.append = append
  BY <1>1 DEF Idle
<1>7. RunLines' = RunLines /\ \A k : IsCompleted(k)' <=> IsCompleted(k)
  BY <1>1 DEF RunLines, IsCompleted
<1>8. Whole(table["runs"])' /\ BufferOK' /\ RunOK'
  BY <1>1, <1>4, <1>6 DEF ExportOK, BufferOK, RunOK, Doing
<1>9. CompletedOK'
  BY <1>1, <1>4, <1>6, <1>7 DEF ExportOK, CompletedOK
<1>10. TodoOK'
  BY <1>1, <1>2, <1>3, <1>5, <1>6, <1>7 DEF TodoOK
<1> QED BY <1>8, <1>9, <1>10 DEF ExportOK

\* Steps that leave the status alone, after which no run is done, and no list of
\* metadata is there that the disk has not.
LEMMA ExportFrame ==
    ASSUME ExportOK, status' = status, Whole(table["runs"])', ~Doing', TodoOK',
           \A k \in Runs : IsCompleted(k) =>
              /\ HasLine(RunLines', k, status[k].smoke) /\ HasEntry(meta', k)
              /\ proc'.pc \notin {"off", "purge", "open"} => HasEntry(proc'.meta, k)
    PROVE  ExportOK'
<1>1. \A k : IsCompleted(k)' <=> IsCompleted(k)
  BY DEF IsCompleted
<1>2. CompletedOK'
  BY <1>1 DEF CompletedOK
<1>3. RunOK' /\ BufferOK'
  BY DEF RunOK, BufferOK, Doing
<1> QED BY <1>2, <1>3 DEF ExportOK

\* The tables are purged, one after the other, and the metadata, or the program
\* ends in an exception.
LEMMA ExportPurge ==
    ASSUME TypesOK, ExportOK, PurgeTable \/ PurgeMeta \/ PurgeRaises
    PROVE  ExportOK'
<1>1. /\ proc.pc = "purge" /\ status' = status /\ proc \in ProcType
      /\ table \in [TableNames -> TableType] /\ "runs" \in TableNames /\ meta \in Seq(Runs)
  BY TypesAre, FourTables DEF PurgeTable, PurgeMeta, PurgeRaises, disk
<1>2. \A k \in ToPurge : ~IsCompleted(k)
  BY <1>1 DEF ExportOK, TodoOK, ToPurge, ToSet
<1>3. \A k \in Runs : IsCompleted(k) =>
         /\ k \notin ToPurge
         /\ HasLine(table["runs"].lines, k, status[k].smoke) /\ HasEntry(meta, k)
  BY <1>2 DEF ExportOK, CompletedOK, RunLines
<1>4. \A k : IsCompleted(k)' <=> IsCompleted(k)
  BY <1>1 DEF IsCompleted
<1>5. Whole(table["runs"]) /\ TodoOK
  BY DEF ExportOK
<1>6. CASE PurgeTable
  <2> DEFINE t == Tables[proc.step]
  <2>1. /\ table' = [table EXCEPT ![t] = Purged(@, ToPurge)] /\ meta' = meta
        /\ proc' = [proc EXCEPT !.step = @ + 1]
    <3>1. t \in PurgedTables
      BY <1>1, <1>6, FourTables DEF PurgeTable, PurgedTables
    <3>2. /\ table' = [table EXCEPT ![t] = IF t \in PurgedTables THEN Purged(@, ToPurge) ELSE @]
          /\ meta' = meta /\ proc' = [proc EXCEPT !.step = @ + 1]
      BY <1>6 DEF PurgeTable
    <3> QED BY <3>1, <3>2
  <2>2. proc'.pc = "purge" /\ proc'.todo = proc.todo /\ proc'.append = proc.append
    BY <1>1, <2>1 DEF ProcType
  <2> HIDE DEF t
  <2>3. table'["runs"] = table["runs"] \/ table'["runs"] = Purged(table["runs"], ToPurge)
    BY <1>1, <2>1
  <2>4. /\ Whole(Purged(table["runs"], ToPurge))
        /\ \A k, b : k \notin ToPurge /\ HasLine(table["runs"].lines, k, b)
                        => HasLine(Purged(table["runs"], ToPurge).lines, k, b)
    BY <1>1, <1>5, LinesPurged
  <2>5. /\ Whole(table["runs"])'
        /\ \A k \in Runs : IsCompleted(k) => HasLine(RunLines', k, status[k].smoke)
    BY <1>3, <1>5, <2>3, <2>4 DEF RunLines
  <2>6. TodoOK' /\ ~Doing'
    BY <1>1, <1>4, <1>5, <2>2 DEF TodoOK, Doing
  <2> QED BY <1>1, <1>3, <2>1, <2>2, <2>5, <2>6, ExportFrame
<1>7. CASE PurgeMeta
  <2>1. /\ meta' = Without(meta, {i \in DOMAIN meta : meta[i] \in ToPurge}) /\ table' = table
        /\ proc' = [proc EXCEPT !.pc = "open"]
    BY <1>7 DEF PurgeMeta, Goto
  <2>2. proc'.pc = "open" /\ proc'.todo = proc.todo /\ proc'.append = proc.append
    BY <1>1, <2>1 DEF ProcType
  <2>3. \A k : k \notin ToPurge /\ HasEntry(meta, k) => HasEntry(meta', k)
    BY <1>1, <2>1, EntriesPurged
  <2>4. TodoOK' /\ ~Doing'
    BY <1>1, <1>4, <1>5, <2>2 DEF TodoOK, Doing
  <2> QED BY <1>1, <1>3, <1>5, <2>1, <2>2, <2>3, <2>4, ExportFrame DEF RunLines
<1>8. CASE PurgeRaises
  <2>1. table' = table /\ meta' = meta /\ proc' = Idle
    BY <1>8 DEF PurgeRaises, disk
  <2>2. proc'.pc = "off"
    BY <2>1 DEF Idle
  <2>3. TodoOK' /\ ~Doing'
    BY <2>2 DEF TodoOK, Doing
  <2> QED BY <1>1, <1>3, <1>5, <2>1, <2>2, <2>3, ExportFrame DEF RunLines
<1> QED BY <1>6, <1>7, <1>8

\* The writer appends to the tables, or empties them when nothing is completed.
LEMMA ExportOpen == ASSUME TypesOK, ExportOK, Open PROVE ExportOK'
<1> DEFINE m == IF proc.append THEN meta ELSE <<>>
<1>1. /\ table' = IF proc.append THEN table ELSE [t \in TableNames |-> Empty]
      /\ proc' = [proc EXCEPT !.pc = "next", !.meta = m]
      /\ status' = status /\ meta' = meta /\ proc.pc = "open" /\ proc \in ProcType
  BY TypesAre DEF Open
<1>2. proc.append => m = meta
  OBVIOUS
<1> HIDE DEF m
<1>3. proc'.pc = "next" /\ proc'.meta = m
  BY <1>1 DEF ProcType
<1>4. TodoOK' /\ ~Doing'
  BY <1>3 DEF TodoOK, Doing
<1>5. CASE proc.append
  <2>1. table' = table /\ m = meta
    BY <1>1, <1>2, <1>5
  <2> QED BY <1>1, <1>3, <1>4, <2>1, ExportFrame DEF ExportOK, CompletedOK, RunLines
<1>6. CASE ~proc.append
  <2>1. table'["runs"] = Empty
    BY <1>1, <1>6, FourTables
  <2>2. Whole(table["runs"])'
    BY <2>1 DEF Whole, Empty
  <2>3. \A k \in Runs : ~IsCompleted(k)
    BY <1>1, <1>6 DEF ExportOK, TodoOK
  <2> QED BY <1>1, <1>4, <2>2, <2>3, ExportFrame
<1> QED BY <1>5, <1>6

\* Steps of a run that leave runs.csv and the status alone.
LEMMA ExportQuiet ==
    ASSUME TypesOK, ExportOK,
           \/ BeginRun
           \/ \E raised \in BOOLEAN, signals \in SUBSET HardSignals : EndRun(raised, signals)
           \/ BeginExport \/ WriteRows \/ AddMeta
    PROVE  ExportOK'
<1>1. /\ status' = status /\ table' = table /\ proc \in ProcType
      /\ proc.pc \in {"next", "run", "ran", "write", "meta"}
  BY TypesAre DEF BeginRun, EndRun, BeginExport, WriteRows, AddMeta, disk
<1>2. /\ RunLines' = RunLines /\ Whole(table["runs"])'
      /\ \A k : IsCompleted(k)' <=> IsCompleted(k)
  BY <1>1 DEF ExportOK, RunLines, IsCompleted
<1>3. CASE BeginRun
  <2>1. /\ proc' = [proc EXCEPT !.pc = "run", !.run = Head(proc.todo), !.todo = Tail(@)]
        /\ proc.pc = "next" /\ meta' = meta
    BY <1>3 DEF BeginRun
  <2>2. proc'.pc = "run" /\ proc'.meta = proc.meta
    BY <1>1, <2>1 DEF ProcType
  <2>3. CompletedOK' /\ TodoOK' /\ RunOK' /\ BufferOK'
    BY <1>1, <1>2, <2>1, <2>2
       DEF ExportOK, CompletedOK, TodoOK, RunOK, Doing, BeforeFlush, BufferOK
  <2> QED BY <1>2, <2>3 DEF ExportOK
<1>4. ASSUME NEW raised, NEW signals, EndRun(raised, signals)
      PROVE  ExportOK'
  <2>1. proc'.pc = "ran" /\ proc'.meta = proc.meta /\ proc.pc = "run" /\ meta' = meta
    BY <1>1, <1>4 DEF EndRun, ProcType
  <2>2. CompletedOK' /\ TodoOK' /\ RunOK' /\ BufferOK'
    BY <1>1, <1>2, <2>1
       DEF ExportOK, CompletedOK, TodoOK, RunOK, Doing, BeforeFlush, BufferOK
  <2> QED BY <1>2, <2>2 DEF ExportOK
<1>5. CASE BeginExport
  <2>1. /\ proc'.pc = "write" /\ proc'.step = 1 /\ proc'.meta = proc.meta
        /\ proc.pc = "ran" /\ meta' = meta
    BY <1>1, <1>5 DEF BeginExport, ProcType, disk
  <2>2. CompletedOK' /\ TodoOK' /\ RunOK' /\ BufferOK'
    BY <1>1, <1>2, <2>1
       DEF ExportOK, CompletedOK, TodoOK, RunOK, Doing, BeforeFlush, BufferOK
  <2> QED BY <1>2, <2>2 DEF ExportOK
<1>6. CASE WriteRows
  <2>1. /\ proc' = [proc EXCEPT !.pc = "flush", !.buffer = Rows]
        /\ proc.pc = "write" /\ meta' = meta
    BY <1>6 DEF WriteRows, disk
  <2>2. proc.step = 1 => Rows = <<RunLine(proc.run, 1, proc.smoke)>>
    BY <2>1, RowsAreLines DEF Exporting
  <2> HIDE DEF Rows
  <2>3. /\ proc'.pc = "flush" /\ proc'.run = proc.run /\ proc'.step = proc.step
        /\ proc'.meta = proc.meta /\ proc'.smoke = proc.smoke /\ proc'.buffer = Rows
    BY <1>1, <2>1 DEF ProcType
  <2>4. CompletedOK' /\ TodoOK' /\ RunOK' /\ BufferOK'
    BY <1>1, <1>2, <2>1, <2>2, <2>3
       DEF ExportOK, CompletedOK, TodoOK, RunOK, Doing, BeforeFlush, BufferOK
  <2> QED BY <1>2, <2>4 DEF ExportOK
<1>7. CASE AddMeta
  <2> DEFINE new == Append(proc.meta, proc.run)
  <2>1. /\ proc' = [proc EXCEPT !.pc = "done", !.meta = new] /\ proc.pc = "meta"
        /\ meta' = new
    BY <1>7 DEF AddMeta
  <2>2. proc.run \in Runs /\ proc.meta \in Seq(Runs)
    BY <2>1, TypesAre DEF TypesOK, Doing
  <2>3. HasEntry(new, proc.run) /\ \A j : HasEntry(proc.meta, j) => HasEntry(new, j)
    BY <2>2, EntryAdded
  <2> HIDE DEF new
  <2>4. /\ proc'.pc = "done" /\ proc'.run = proc.run /\ proc'.meta = new
        /\ proc'.smoke = proc.smoke
    BY <1>1, <2>1 DEF ProcType
  <2>5. CompletedOK'
    BY <1>1, <1>2, <2>1, <2>3, <2>4 DEF ExportOK, CompletedOK
  <2>6. TodoOK' /\ RunOK' /\ BufferOK'
    BY <1>2, <2>1, <2>3, <2>4 DEF ExportOK, TodoOK, RunOK, Doing, BeforeFlush, BufferOK
  <2> QED BY <1>2, <2>5, <2>6 DEF ExportOK
<1> QED BY <1>3, <1>4, <1>5, <1>6, <1>7

\* Lines are flushed: the run's only line to runs.csv first.
LEMMA ExportFlush == ASSUME TypesOK, ExportOK, Flush PROVE ExportOK'
<1> DEFINE t    == Tables[proc.step]
           pc   == IF proc.step = Len(Tables) THEN "meta" ELSE "write"
           step == proc.step + 1
<1>1. /\ table' = [table EXCEPT ![t] = Added(@, proc.buffer)]
      /\ status' = status /\ meta' = meta
      /\ proc' = [proc EXCEPT !.buffer = <<>>, !.step = step, !.pc = pc]
      /\ proc.pc = "flush" /\ proc.step \in 1 .. 4 /\ proc \in ProcType
      /\ table \in [TableNames -> TableType] /\ "runs" \in TableNames
      /\ proc.buffer \in Seq(Line)
  BY TypesAre, FourTables DEF Flush, Exporting, TypesOK
<1>2. /\ t \in TableNames /\ (t = "runs" <=> proc.step = 1)
      /\ pc \in {"write", "meta"} /\ step # 1
  BY <1>1, FourTables
<1>3. Whole(table["runs"])
  BY DEF ExportOK
<1>4. /\ Whole(table["runs"])' /\ HasLine(RunLines', proc.run, proc.smoke)
      /\ \A k, b : HasLine(RunLines, k, b) => HasLine(RunLines', k, b)
  <2>1. CASE proc.step = 1
    <3>1. table'["runs"] = Added(table["runs"], proc.buffer)
      BY <1>1, <1>2, <2>1
    <3>2. HasLine(proc.buffer, proc.run, proc.smoke)
      <4>1. proc.buffer = <<RunLine(proc.run, 1, proc.smoke)>>
        BY <1>1, <2>1 DEF ExportOK, BufferOK
      <4> QED BY <4>1 DEF HasLine, RunLine
    <3> QED BY <1>1, <1>3, <3>1, <3>2, WholeAdded DEF RunLines
  <2>2. CASE proc.step # 1
    <3>1. table'["runs"] = table["runs"]
      BY <1>1, <1>2, <2>2
    <3>2. HasLine(RunLines, proc.run, proc.smoke)
      BY <1>1, <2>2 DEF ExportOK, RunOK, Doing, BeforeFlush
    <3> QED BY <1>3, <3>1, <3>2 DEF RunLines
  <2> QED BY <2>1, <2>2
<1> HIDE DEF t, pc, step
<1>5. /\ proc'.pc = pc /\ proc'.step = step /\ proc'.run = proc.run
      /\ proc'.meta = proc.meta /\ proc'.smoke = proc.smoke
  BY <1>1 DEF ProcType
<1>6. \A k : IsCompleted(k)' <=> IsCompleted(k)
  BY <1>1 DEF IsCompleted
<1>7. CompletedOK'
  BY <1>1, <1>2, <1>4, <1>5, <1>6 DEF ExportOK, CompletedOK
<1>8. TodoOK' /\ RunOK' /\ BufferOK'
  BY <1>1, <1>2, <1>4, <1>5 DEF TodoOK, RunOK, Doing, BeforeFlush, BufferOK
<1> QED BY <1>4, <1>7, <1>8 DEF ExportOK

\* The outcome of an attempt that is not "completed".
LEMMA ExportRecord ==
    ASSUME TypesOK, ExportOK, Doing, NEW state, state # "completed",
           status' = Recorded(proc.run, state), table' = table, meta' = meta,
           proc'.pc \in {"next", "close"}, NEW entries, proc'.meta = entries,
           \A k : HasEntry(proc.meta, k) => HasEntry(entries, k)
    PROVE  ExportOK'
<1>1. ASSUME NEW k \in Runs, IsCompleted(k)'
      PROVE  IsCompleted(k) /\ status'[k] = status[k]
  <2>1. proc.run \in Runs /\ status \in [Runs -> [state : States, tries : Nat, smoke : BOOLEAN]]
    BY TypesAre DEF TypesOK
  <2>2. status'[proc.run].state = state /\ \A j \in Runs : j # proc.run => status'[j] = status[j]
    BY <2>1 DEF Recorded
  <2> QED BY <1>1, <2>2 DEF IsCompleted
<1>2. CompletedOK'
  BY <1>1 DEF ExportOK, CompletedOK, RunLines, Doing
<1>3. Whole(table["runs"])' /\ TodoOK' /\ RunOK' /\ BufferOK'
  BY DEF ExportOK, TodoOK, RunOK, Doing, BufferOK
<1> QED BY <1>2, <1>3 DEF ExportOK

\* The outcome is recorded: "completed" of a run whose line and entry are there.
LEMMA ExportOutcome ==
    ASSUME TypesOK, ExportOK,
           \/ RecordFailure \/ RecordCompleted \/ FlushFails \/ MetaFails
           \/ \E n \in 0 .. Lines - 1 : RowFails(n)
    PROVE  ExportOK'
<1>1. proc \in ProcType /\ (Doing => proc.run \in Runs) /\ proc.meta \in Seq(Runs)
  BY TypesAre DEF TypesOK
<1>2. CASE RecordFailure
  <2> DEFINE state == IF proc.result = "error" THEN "failed" ELSE "health_failed"
  <2>1. /\ status' = Recorded(proc.run, state) /\ Doing /\ table' = table /\ meta' = meta
        /\ proc' = [proc EXCEPT !.pc = "next", !.failed = TRUE]
    BY <1>2 DEF RecordFailure, Doing
  <2>2. state # "completed"
    OBVIOUS
  <2>3. proc'.pc = "next" /\ proc'.meta = proc.meta
    BY <1>1, <2>1 DEF ProcType
  <2> HIDE DEF state
  <2> QED BY <2>1, <2>2, <2>3, ExportRecord
<1>3. CASE FlushFails \/ MetaFails \/ \E n \in 0 .. Lines - 1 : RowFails(n)
  <2>1. PICK buffer \in Seq(Line), entries \in Seq(Runs) :
               /\ ExportFailed(buffer, entries) /\ Doing
               /\ entries = proc.meta \/ entries = Append(proc.meta, proc.run)
    BY <1>3, ExportRaises DEF Doing
  <2>2. /\ status' = Recorded(proc.run, "export_failed") /\ table' = table /\ meta' = meta
        /\ proc'.pc = "close" /\ proc'.meta = entries
    BY <1>1, <2>1 DEF ExportFailed, ProcType
  <2>3. \A k : HasEntry(proc.meta, k) => HasEntry(entries, k)
    BY <1>1, <2>1, EntryAdded
  <2> QED BY <2>1, <2>2, <2>3, ExportRecord
<1>4. CASE RecordCompleted
  <2>1. /\ status' = Recorded(proc.run, "completed") /\ proc.pc = "done"
        /\ proc' = [proc EXCEPT !.pc = "next"] /\ table' = table /\ meta' = meta
    BY <1>4 DEF RecordCompleted, Goto
  <2>2. proc'.pc = "next" /\ proc'.meta = proc.meta
    BY <1>1, <2>1 DEF ProcType
  <2>3. /\ HasLine(RunLines, proc.run, proc.smoke) /\ meta = proc.meta /\ HasEntry(meta, proc.run)
    BY <2>1 DEF ExportOK, RunOK, Doing, BeforeFlush
  <2>4. /\ status'[proc.run].smoke = proc.smoke
        /\ \A j \in Runs : j # proc.run => status'[j] = status[j]
    <3>1. /\ proc.run \in Runs
          /\ status \in [Runs -> [state : States, tries : Nat, smoke : BOOLEAN]]
      BY <1>1, <2>1, TypesAre DEF Doing
    <3> QED BY <2>1, <3>1 DEF Recorded
  <2>5. ASSUME NEW k \in Runs, IsCompleted(k)'
        PROVE  /\ HasLine(RunLines', k, status'[k].smoke) /\ HasEntry(meta', k)
               /\ HasEntry(proc'.meta, k)
    <3>1. CASE k = proc.run
      BY <2>1, <2>2, <2>3, <2>4, <3>1 DEF RunLines
    <3>2. CASE k # proc.run
      <4>1. IsCompleted(k) /\ status'[k] = status[k]
        BY <2>4, <2>5, <3>2 DEF IsCompleted
      <4> QED BY <2>1, <2>2, <4>1 DEF ExportOK, CompletedOK, RunLines
    <3> QED BY <3>1, <3>2
  <2>6. CompletedOK'
    BY <2>5 DEF CompletedOK
  <2>7. Whole(table["runs"])' /\ TodoOK' /\ RunOK' /\ BufferOK'
    BY <2>1, <2>2 DEF ExportOK, TodoOK, RunOK, Doing, BufferOK
  <2> QED BY <2>6, <2>7 DEF ExportOK
<1> QED BY <1>2, <1>3, <1>4

\* The writer closes: lines left for runs.csv are added, and its metadata written.
LEMMA ExportClose == ASSUME TypesOK, ExportOK, Close PROVE ExportOK'
<1> DEFINE verdict == IF proc.failed THEN "failed" ELSE Verdict(proc.plan, proc.smoke)
<1>1. /\ table' = [t \in TableNames |-> [Added(table[t], Pending(t)) EXCEPT !.some = TRUE]]
      /\ meta' = proc.meta /\ status' = status /\ proc.pc \in {"close", "next"}
      /\ proc' = [Idle EXCEPT !.smoke = proc.smoke, !.verdict = verdict]
  BY DEF Close
<1> HIDE DEF verdict
<1>2. proc'.pc = "off"
  BY <1>1 DEF Idle
<1>3. /\ "runs" \in TableNames /\ table["runs"] \in TableType /\ Whole(table["runs"])
      /\ Pending("runs") \in Seq(Line)
  BY TypesAre, FourTables DEF ExportOK, Pending
<1> DEFINE f == Added(table["runs"], Pending("runs"))
<1>4. /\ Whole(f) /\ f \in TableType
      /\ \A k, b : HasLine(RunLines, k, b) => HasLine(f.lines, k, b)
  BY <1>3, WholeAdded, AddedType DEF RunLines, EndsWell, Whole
<1>5. table'["runs"] = [f EXCEPT !.some = TRUE]
  BY <1>1, <1>3
<1> HIDE DEF f
<1>6. Whole(table["runs"])' /\ RunLines' = f.lines
  BY <1>4, <1>5 DEF Whole, TableType, RunLines
<1>7. TodoOK' /\ ~Doing'
  BY <1>2 DEF TodoOK, Doing
<1> QED BY <1>1, <1>2, <1>4, <1>6, <1>7, ExportFrame DEF ExportOK, CompletedOK

\* The process dies.
LEMMA ExportCrash == ASSUME TypesOK, ExportOK, Crash PROVE ExportOK'
<1>1. status' = status /\ meta' = meta /\ proc' = Idle
  BY DEF Crash
<1>2. proc'.pc = "off" /\ ~Doing' /\ TodoOK'
  BY <1>1 DEF Idle, Doing, TodoOK
<1>3. /\ "runs" \in TableNames /\ table \in [TableNames -> TableType] /\ Whole(table["runs"])
  BY TypesAre, FourTables DEF ExportOK
<1>4. Whole(table["runs"])' /\ \A k, b : HasLine(RunLines, k, b) => HasLine(RunLines', k, b)
  <2>1. CASE table'["runs"] = table["runs"]
    BY <1>3, <2>1 DEF RunLines
  <2>2. CASE table'["runs"] # table["runs"]
    <3>1. PICK n \in 0 .. Len(proc.buffer), g \in TableType :
            /\ SubSeq(proc.buffer, 1, n) \in Seq(Line)
            /\ table' = [table EXCEPT ![Tables[proc.step]] = g]
            /\ \/ g = Added(table[Tables[proc.step]], SubSeq(proc.buffer, 1, n))
               \/ Tables[proc.step] # "runs"
      BY <2>2, CrashLeaves
    <3>2. Tables[proc.step] = "runs"
      BY <1>3, <2>2, <3>1
    <3>3. table'["runs"] = Added(table["runs"], SubSeq(proc.buffer, 1, n))
      BY <1>3, <3>1, <3>2
    <3> QED BY <1>3, <3>1, <3>3, WholeAdded DEF RunLines
  <2> QED BY <2>1, <2>2
<1> QED BY <1>1, <1>2, <1>4, ExportFrame DEF ExportOK, CompletedOK

\* The invariant of runs.csv and the metadata.
LEMMA ExportInvariant == Spec => []ExportOK
<1>1. TypesOK /\ ExportOK /\ [Next]_vars => ExportOK'
  <2> SUFFICES ASSUME TypesOK, ExportOK, [Next]_vars PROVE ExportOK'
    OBVIOUS
  <2>1. ASSUME NEW policies \in PolicyLists, NEW seeds \in SeedLists, NEW smoke \in BOOLEAN,
               Start(policies, seeds, smoke)
        PROVE  ExportOK'
    BY <2>1, ExportStart
  <2>2. CASE UNCHANGED vars
    BY <2>2 DEF vars, disk, ExportOK, RunLines, CompletedOK, IsCompleted, TodoOK, RunOK, Doing,
                BeforeFlush, BufferOK
  <2> QED BY <2>1, <2>2, ExportPurge, ExportOpen, ExportQuiet, ExportFlush, ExportOutcome,
             ExportClose, ExportCrash DEF Next
<1> QED BY <1>1, ExportInit, TypesInvariant, PTL DEF Spec

\* A completed run keeps a line in runs.csv, with its horizon, and an entry in the
\* metadata, for every set of runs, every sequence of calls and whatever fails.
THEOREM CompletedExported == Spec => []CompletedIsExported
<1>1. ExportOK => CompletedIsExported
  <2> SUFFICES ASSUME ExportOK, NEW k \in Runs, IsCompleted(k)
               PROVE  /\ \E x \in ToSet(table["runs"].lines) : x.run = k /\ x.smoke = status[k].smoke
                      /\ k \in ToSet(meta)
    BY DEF CompletedIsExported
  <2>1. HasLine(RunLines, k, status[k].smoke) /\ HasEntry(meta, k)
    BY DEF ExportOK, CompletedOK
  <2> QED BY <2>1 DEF HasLine, HasEntry, RunLines, ToSet
<1> QED BY <1>1, ExportInvariant, PTL

----------------------------------------------------------------------------
(* The rows *)

\* No line of a run, and not more than one.
NoLine(L, k) == \A i \in DOMAIN L : L[i].run # k
Single(L, k) == \A i, j \in DOMAIN L : L[i].run = k /\ L[j].run = k => i = j

\* A line is not there, or once.
NoEntry(L, x)  == \A i \in DOMAIN L : L[i] # x
OneEntry(L, x) == \E i \in DOMAIN L : L[i] = x /\ \A j \in DOMAIN L : L[j] = x => j = i

\* A line that the process died in is the last, and has number 0; the lines of
\* runs.csv are whole.
LinesOK ==
    /\ \A t \in TableNames : table[t].cut # "no" => Last(table[t].lines).n = 0
    /\ \A i \in DOMAIN RunLines : RunLines[i].n = 1 /\ ~RunLines[i].wide

\* A table other than runs.csv has every row of a run once, but the first
\* perhaps not.
RowsOnce(L, k, smoke) ==
    \A n \in 1 .. Lines : /\ AtMostOne(L, {RunLine(k, n, smoke)})
                          /\ n > 1 => OneEntry(L, RunLine(k, n, smoke))

\* The lines of the i-th table.
LinesOf(i) == table[Tables[i]].lines

\* Completed runs with one line in runs.csv have their rows once.
CompletedRows ==
    \A k \in Runs, i \in 2 .. 4 :
        IsCompleted(k) /\ Single(RunLines, k) => RowsOnce(LinesOf(i), k, status[k].smoke)

\* Runs still to do have no rows in the tables that have been purged; a run that
\* was named twice may have, with a line in runs.csv.
OpenRows ==
    \A k \in ToSet(proc.todo), i \in 2 .. 4 :
        \/ proc.pc = "purge" /\ proc.step <= i
        \/ proc.pc = "open" /\ ~proc.append
        \/ NoLine(RunLines, k) => NoLine(LinesOf(i), k)

\* The table has not been flushed for the run that is being done.
Awaits(i) == proc.pc \in {"run", "ran"} \/ (proc.pc \in {"write", "flush"} /\ proc.step <= i)

\* The run that is being done was not exported before in this call.
First == IF Awaits(1) THEN NoLine(RunLines, proc.run) ELSE Single(RunLines, proc.run)

\* Such a run has all rows in the tables that have been flushed, and none in the
\* others.  A run that is exported again has two lines in runs.csv.
DoneRows ==
    Doing => /\ First => \A i \in 2 .. 4 : IF Awaits(i) THEN NoLine(LinesOf(i), proc.run)
                                           ELSE RowsOnce(LinesOf(i), proc.run, proc.smoke)
             /\ IsCompleted(proc.run) /\ ~Awaits(1) => ~Single(RunLines, proc.run)

\* The buffer holds the rows of the run for the table, or some of them when the
\* export failed.
BufferRows ==
    /\ proc.pc = "flush" => proc.buffer = Rows
    /\ proc.pc = "close" =>
          /\ proc.failed /\ ~IsCompleted(proc.run)
          /\ \A i \in DOMAIN proc.buffer :
                /\ proc.buffer[i].run = proc.run
                /\ proc.step = 1 => proc.buffer[i].n = 1 /\ ~proc.buffer[i].wide

\* PASS is said at the end, of runs that are completed, no smoke test and have one
\* line in runs.csv.
PassOK ==
    /\ proc.verdict # "none" => proc.pc = "off"
    /\ proc.verdict = "PASS" /\ ~proc.smoke =>
          \A k \in Runs : IsCompleted(k) /\ ~status[k].smoke /\ Single(RunLines, k)

\* The invariant of the rows.
RowsOK == LinesOK /\ CompletedRows /\ OpenRows /\ DoneRows /\ BufferRows /\ PassOK

\* A table whose last line, if it is broken, has number 0.
LastBroken(f) == f.cut # "no" => Last(f.lines).n = 0

\* What the lines of a table are after others were added: the broken line at the
\* end takes the place of the first that is added.
LEMMA AddedLines ==
    ASSUME NEW f \in TableType, EndsWell(f), LastBroken(f), NEW new \in Seq(Line)
    PROVE  LET L == f.lines  A == Added(f, new).lines  p == Len(L)  q == Len(new) IN
           /\ A \in Seq(Line) /\ LastBroken(Added(f, new))
           /\ f.cut = "no" \/ new # <<>> => Added(f, new).cut = "no"
           /\ \/ /\ DOMAIN A = 1 .. p + q
                 /\ \A i \in 1 .. p : A[i] = L[i]
                 /\ \A i \in 1 .. q : A[p + i] = new[i]
                 /\ f.cut = "no" \/ new = <<>>
              \/ /\ p > 0 /\ q > 0 /\ DOMAIN A = 1 .. p + q - 1
                 /\ \A i \in 1 .. p - 1 : A[i] = L[i]
                 /\ L[p].n = 0 /\ A[p].n = 0 /\ A[p].run \in {L[p].run, Unknown}
                 /\ \A i \in 2 .. q : A[p + i - 1] = new[i]
<1> DEFINE L == f.lines
           A == Added(f, new).lines
           p == Len(L)
           q == Len(new)
<1>1. /\ L \in Seq(Line) /\ f.cut \in {"no", "id", "fields"} /\ p \in Nat /\ q \in Nat
      /\ DOMAIN L = 1 .. p
  BY DEF TableType
<1>2. A \in Seq(Line)
  BY AddedType DEF TableType
<1>3. CASE f.cut = "no" \/ new = <<>>
  <2>1. Added(f, new) = [f EXCEPT !.lines = @ \o new, !.some = @ \/ new # <<>>]
    BY <1>3 DEF Added
  <2>2. A = L \o new /\ Added(f, new).cut = f.cut
    BY <2>1 DEF TableType
  <2>3. f.cut # "no" => A = L
    BY <1>1, <1>3, <2>2
  <2>4. LastBroken(Added(f, new))
    BY <2>2, <2>3 DEF LastBroken
  <2>5. DOMAIN A = 1 .. p + q /\ (\A i \in 1 .. p : A[i] = L[i]) /\ (\A i \in 1 .. q : A[p + i] = new[i])
    BY <1>1, <2>2
  <2>6. new # <<>> => f.cut = "no"
    BY <1>3
  <2> HIDE DEF A, L, p, q
  <2> QED BY <1>2, <1>3, <2>2, <2>4, <2>5, <2>6 DEF A, L, p, q
<1>4. CASE ~(f.cut = "no" \/ new = <<>>)
  <2> DEFINE broken == Last(L)
             merged == IF f.cut = "id" THEN [broken EXCEPT !.run = Unknown]
                                           ELSE [broken EXCEPT !.wide = TRUE]
             front  == Append(Front(L), merged)
  <2>1. Added(f, new) = [lines |-> front \o Tail(new), cut |-> "no", some |-> TRUE]
    BY <1>4 DEF Added
  <2>13. A = front \o Tail(new) /\ Added(f, new).cut = "no"
    <3> DEFINE lines == front \o Tail(new)
    <3>1. Added(f, new) = [lines |-> lines, cut |-> "no", some |-> TRUE]
      BY <2>1
    <3> HIDE DEF lines
    <3>2. A = lines /\ Added(f, new).cut = "no"
      BY <3>1
    <3> QED BY <3>2 DEF lines
  <2>2. p > 0 /\ q > 0 /\ L # <<>>
    BY <1>1, <1>4 DEF EndsWell
  <2>3. broken = L[p] /\ broken \in Line /\ broken.n = 0
    BY <1>1, <1>4, <2>2 DEF Last, LastBroken
  <2>4. merged \in Line /\ merged.n = 0 /\ merged.run \in {broken.run, Unknown}
    BY <2>3 DEF Line
  <2>5. Front(L) \in Seq(Line) /\ Len(Front(L)) = p - 1 /\ \A i \in 1 .. p - 1 : Front(L)[i] = L[i]
    BY <1>1, <2>2 DEF Front
  <2>6. Tail(new) \in Seq(Line) /\ Len(Tail(new)) = q - 1 /\ \A i \in 2 .. q : Tail(new)[i - 1] = new[i]
    BY <1>1, <2>2
  <2> HIDE DEF broken, merged, L, p, q
  <2>7. /\ front \in Seq(Line) /\ Len(front) = p /\ front[p] = merged
        /\ \A i \in 1 .. p - 1 : front[i] = L[i]
    BY <1>1, <2>2, <2>4, <2>5
  <2> DEFINE tail == Tail(new)
             all  == front \o tail
  <2>8. tail \in Seq(Line) /\ Len(tail) = q - 1 /\ \A i \in 2 .. q : tail[i - 1] = new[i]
    BY <2>6
  <2> HIDE DEF front, tail
  <2>9. /\ DOMAIN all = 1 .. p + q - 1 /\ \A i \in 1 .. p : all[i] = front[i]
        /\ \A i \in 2 .. q : all[p + i - 1] = tail[i - 1]
    <3>1. /\ all \in Seq(Line) /\ Len(all) = p + (q - 1)
          /\ \A i \in 1 .. p + (q - 1) : all[i] = IF i <= p THEN front[i] ELSE tail[i - p]
      <4>1. /\ front \o tail \in Seq(Line) /\ Len(front \o tail) = Len(front) + Len(tail)
            /\ \A i \in 1 .. Len(front) + Len(tail) :
                  (front \o tail)[i] = IF i <= Len(front) THEN front[i] ELSE tail[i - Len(front)]
        BY <2>7, <2>8, ConcatProperties, Zenon
      <4>2. Len(front) = p /\ Len(tail) = q - 1
        BY <2>7, <2>8
      <4> HIDE DEF all
      <4> QED BY <4>1, <4>2 DEF all
    <3> HIDE DEF all
    <3>2. DOMAIN all = 1 .. p + q - 1
      BY <1>1, <3>1
    <3>3. \A i \in 1 .. p : all[i] = front[i]
      BY <1>1, <2>2, <3>1
    <3>4. ASSUME NEW i \in 2 .. q
          PROVE  all[p + i - 1] = tail[i - 1]
      <4> DEFINE l == p + i - 1
      <4>1. l \in 1 .. p + (q - 1) /\ ~(l <= p) /\ l - p = i - 1
        BY <1>1
      <4> HIDE DEF l
      <4>2. all[l] = tail[l - p]
        BY <3>1, <4>1
      <4> QED BY <4>1, <4>2 DEF l
    <3> QED BY <3>2, <3>3, <3>4
  <2>10. A = all /\ Added(f, new).cut = "no"
    BY <2>13 DEF tail
  <2> HIDE DEF all, A
  <2>11. /\ DOMAIN A = 1 .. p + q - 1 /\ \A i \in 1 .. p - 1 : A[i] = L[i]
         /\ A[p] = merged /\ \A i \in 2 .. q : A[p + i - 1] = new[i]
    <3>1. p \in 1 .. p /\ \A i \in 1 .. p - 1 : i \in 1 .. p
      BY <1>1, <2>2
    <3>2. (\A i \in 1 .. p - 1 : A[i] = L[i]) /\ A[p] = merged
      BY <2>7, <2>9, <2>10, <3>1
    <3>3. \A i \in 2 .. q : A[p + i - 1] = new[i]
      BY <2>8, <2>9, <2>10
    <3> QED BY <2>9, <2>10, <3>2, <3>3
  <2>12. LastBroken(Added(f, new))
    BY <2>10 DEF LastBroken
  <2> QED BY <1>2, <2>2, <2>3, <2>4, <2>10, <2>11, <2>12 DEF A, L, p, q
<1> QED BY <1>3, <1>4

\* A row that is not added is there as often as before, and a run without lines
\* to which none is added stays without.
LEMMA OthersKept ==
    ASSUME NEW f \in TableType, EndsWell(f), LastBroken(f), NEW new \in Seq(Line)
    PROVE  LET L == f.lines  A == Added(f, new).lines IN
           /\ \A x \in Line : x.n > 0 /\ NoEntry(new, x)
                => /\ AtMostOne(L, {x}) => AtMostOne(A, {x})
                   /\ OneEntry(L, x) => OneEntry(A, x)
           /\ \A j \in Runs : NoLine(L, j) /\ NoLine(new, j) => NoLine(A, j)
<1> DEFINE L == f.lines
           A == Added(f, new).lines
           p == Len(L)
           q == Len(new)
           Behind  == /\ DOMAIN A = 1 .. p + q
                      /\ \A i \in 1 .. p : A[i] = L[i]
                      /\ \A i \in 1 .. q : A[p + i] = new[i]
           Instead == /\ p > 0 /\ q > 0 /\ DOMAIN A = 1 .. p + q - 1
                      /\ \A i \in 1 .. p - 1 : A[i] = L[i]
                      /\ L[p].n = 0 /\ A[p].n = 0 /\ A[p].run \in {L[p].run, Unknown}
                      /\ \A i \in 2 .. q : A[p + i - 1] = new[i]
<1>1. L \in Seq(Line) /\ p \in Nat /\ q \in Nat /\ DOMAIN L = 1 .. p /\ DOMAIN new = 1 .. q
  BY DEF TableType
<1>2. Behind \/ Instead
  BY AddedLines
<1> HIDE DEF L, A, p, q
<1>3. ASSUME NEW x, x.n > 0, NoEntry(new, x), NEW i \in DOMAIN A, A[i] = x
      PROVE  i \in 1 .. p /\ L[i] = x
  <2>1. CASE Behind
    <3>1. CASE i \in 1 .. p
      BY <1>3, <2>1, <3>1
    <3>2. CASE i \notin 1 .. p
      <4>1. i - p \in 1 .. q /\ p + (i - p) = i
        BY <1>1, <2>1, <3>2
      <4> QED BY <1>1, <1>3, <2>1, <4>1 DEF NoEntry
    <3> QED BY <3>1, <3>2
  <2>2. CASE Instead
    <3>1. CASE i \in 1 .. p - 1
      BY <1>1, <1>3, <2>2, <3>1
    <3>2. CASE i = p
      BY <1>3, <2>2, <3>2
    <3>3. CASE i \notin 1 .. p
      <4> DEFINE l == i - p + 1
      <4>1. l \in 2 .. q /\ p + l - 1 = i
        BY <1>1, <2>2, <3>3
      <4> HIDE DEF l
      <4>2. A[i] = new[l] /\ l \in DOMAIN new
        BY <1>1, <2>2, <4>1
      <4> QED BY <1>3, <4>2 DEF NoEntry
    <3> QED BY <1>1, <2>2, <3>1, <3>2, <3>3
  <2> QED BY <1>2, <2>1, <2>2
<1>4. ASSUME NEW x, x.n > 0, NEW i \in 1 .. p, L[i] = x
      PROVE  i \in DOMAIN A /\ A[i] = x
  <2>1. CASE Behind
    BY <1>1, <1>4, <2>1
  <2>2. CASE Instead
    <3>1. i # p
      BY <1>4, <2>2
    <3>2. i \in 1 .. p - 1 /\ i \in 1 .. p + q - 1
      BY <1>1, <2>2, <3>1
    <3> QED BY <1>4, <2>2, <3>2
  <2> QED BY <1>2, <2>1, <2>2
<1>5. ASSUME NEW x \in Line, x.n > 0, NoEntry(new, x)
      PROVE  /\ AtMostOne(L, {x}) => AtMostOne(A, {x})
             /\ OneEntry(L, x) => OneEntry(A, x)
  <2>1. AtMostOne(L, {x}) => AtMostOne(A, {x})
    BY <1>1, <1>3, <1>5 DEF AtMostOne
  <2>2. ASSUME OneEntry(L, x)
        PROVE  OneEntry(A, x)
    <3>1. PICK i \in 1 .. p : L[i] = x /\ \A j \in 1 .. p : L[j] = x => j = i
      BY <1>1, <2>2 DEF OneEntry
    <3>2. i \in DOMAIN A /\ A[i] = x
      BY <1>4, <1>5, <3>1
    <3>3. \A j \in DOMAIN A : A[j] = x => j = i
      BY <1>3, <1>5, <3>1
    <3> QED BY <3>2, <3>3 DEF OneEntry
  <2> QED BY <2>1, <2>2
<1>6. ASSUME NEW j \in Runs, NoLine(L, j), NoLine(new, j), NEW i \in DOMAIN A
      PROVE  A[i].run # j
  <2>1. CASE Behind
    <3>1. CASE i \in 1 .. p
      BY <1>1, <1>6, <2>1, <3>1 DEF NoLine
    <3>2. CASE i \notin 1 .. p
      <4>1. i - p \in 1 .. q /\ p + (i - p) = i
        BY <1>1, <2>1, <3>2
      <4> QED BY <1>1, <1>6, <2>1, <4>1 DEF NoLine
    <3> QED BY <3>1, <3>2
  <2>2. CASE Instead
    <3>1. CASE i \in 1 .. p - 1
      <4>1. i \in 1 .. p
        BY <1>1, <3>1
      <4> QED BY <1>1, <1>6, <2>2, <3>1, <4>1 DEF NoLine
    <3>2. CASE i = p
      <4>1. p \in DOMAIN L /\ j # Unknown
        BY <1>1, <2>2, CampaignAssumption
      <4> QED BY <1>6, <2>2, <3>2, <4>1 DEF NoLine
    <3>3. CASE i \notin 1 .. p
      <4> DEFINE l == i - p + 1
      <4>1. l \in 2 .. q /\ p + l - 1 = i
        BY <1>1, <2>2, <3>3
      <4> HIDE DEF l
      <4>2. A[i] = new[l] /\ l \in DOMAIN new
        BY <1>1, <2>2, <4>1
      <4> QED BY <1>6, <4>2 DEF NoLine
    <3> QED BY <1>1, <2>2, <3>1, <3>2, <3>3
  <2> QED BY <1>2, <2>1, <2>2
<1>7. \A j \in Runs : NoLine(L, j) /\ NoLine(new, j) => NoLine(A, j)
  BY <1>6 DEF NoLine
<1> QED BY <1>5, <1>7 DEF L, A

\* The rows of a run without lines are added: each is there once, but the first
\* is lost behind a broken line.
LEMMA RowsAdded ==
    ASSUME NEW f \in TableType, EndsWell(f), LastBroken(f), NEW k \in Runs, NoLine(f.lines, k),
           NEW smoke, NEW new \in Seq(Line), Len(new) = Lines,
           \A n \in 1 .. Lines : new[n] = RunLine(k, n, smoke)
    PROVE  RowsOnce(Added(f, new).lines, k, smoke)
<1> DEFINE L == f.lines
           A == Added(f, new).lines
           p == Len(L)
           q == Len(new)
           Behind  == /\ DOMAIN A = 1 .. p + q
                      /\ \A i \in 1 .. p : A[i] = L[i]
                      /\ \A i \in 1 .. q : A[p + i] = new[i]
           Instead == /\ p > 0 /\ q > 0 /\ DOMAIN A = 1 .. p + q - 1
                      /\ \A i \in 1 .. p - 1 : A[i] = L[i]
                      /\ L[p].n = 0 /\ A[p].n = 0 /\ A[p].run \in {L[p].run, Unknown}
                      /\ \A i \in 2 .. q : A[p + i - 1] = new[i]
<1>1. L \in Seq(Line) /\ p \in Nat /\ DOMAIN L = 1 .. p /\ q \in Nat \ {0} /\ k # Unknown
  BY CampaignAssumption DEF TableType
<1>2. q = Lines
  OBVIOUS
<1>3. Behind \/ Instead
  BY AddedLines
<1>4. \A n \in 1 .. q : new[n] = RunLine(k, n, smoke)
  BY <1>2
<1>5. \A n : RunLine(k, n, smoke).run = k /\ RunLine(k, n, smoke).n = n
  BY DEF RunLine
<1>6. \A i \in 1 .. p : L[i].run # k
  BY <1>1 DEF NoLine
<1> HIDE DEF L, A, p, q
<1>7. CASE Behind
  <2>1. ASSUME NEW n \in 1 .. q, NEW i \in DOMAIN A, A[i] = RunLine(k, n, smoke)
        PROVE  i = p + n
    <3>1. i \notin 1 .. p
      BY <1>5, <1>6, <1>7, <2>1
    <3>2. i - p \in 1 .. q /\ p + (i - p) = i
      BY <1>1, <1>7, <3>1
    <3>3. A[i] = RunLine(k, i - p, smoke)
      BY <1>4, <1>7, <3>2
    <3>4. i - p = n
      BY <2>1, <3>3 DEF RunLine
    <3> QED BY <3>2, <3>4
  <2>2. ASSUME NEW n \in 1 .. q
        PROVE  p + n \in DOMAIN A /\ A[p + n] = RunLine(k, n, smoke)
    BY <1>1, <1>4, <1>7
  <2>3. ASSUME NEW n \in 1 .. q
        PROVE  AtMostOne(A, {RunLine(k, n, smoke)}) /\ OneEntry(A, RunLine(k, n, smoke))
    BY <2>1, <2>2 DEF AtMostOne, OneEntry
  <2> QED BY <1>2, <2>3 DEF RowsOnce, A
<1>8. CASE Instead
  <2>1. ASSUME NEW n \in 1 .. q, NEW i \in DOMAIN A, A[i] = RunLine(k, n, smoke)
        PROVE  i = p + n - 1
    <3>1. i \notin 1 .. p - 1
      <4>1. \A j \in 1 .. p - 1 : j \in 1 .. p
        BY <1>1
      <4> QED BY <1>5, <1>6, <1>8, <2>1, <4>1
    <3>2. i # p
      BY <1>1, <1>5, <1>8, <2>1
    <3> DEFINE l == i - p + 1
    <3>3. l \in 2 .. q /\ p + l - 1 = i /\ l \in 1 .. q
      BY <1>1, <1>8, <3>1, <3>2, SMTT(40)
    <3> HIDE DEF l
    <3>4. A[i] = RunLine(k, l, smoke)
      BY <1>4, <1>8, <3>3
    <3>5. l = n
      BY <2>1, <3>4 DEF RunLine
    <3> QED BY <3>3, <3>5
  <2>2. ASSUME NEW n \in 2 .. q
        PROVE  p + n - 1 \in DOMAIN A /\ A[p + n - 1] = RunLine(k, n, smoke)
    <3>1. n \in 1 .. q /\ p + n - 1 \in 1 .. p + q - 1
      BY <1>1, <1>8
    <3> QED BY <1>4, <1>8, <3>1
  <2>3. ASSUME NEW n \in 1 .. q
        PROVE  AtMostOne(A, {RunLine(k, n, smoke)})
    BY <2>1 DEF AtMostOne
  <2>4. ASSUME NEW n \in 1 .. q, n > 1
        PROVE  OneEntry(A, RunLine(k, n, smoke))
    <3>1. n \in 2 .. q
      BY <1>1, <2>4
    <3> QED BY <2>1, <2>2, <3>1 DEF OneEntry
  <2> QED BY <1>2, <2>3, <2>4 DEF RowsOnce, A
<1> QED BY <1>3, <1>7, <1>8

\* A table is purged: the lines of the runs are gone, the rows of others there,
\* and as many lines of them.
LEMMA FilePurged ==
    ASSUME NEW f \in TableType, EndsWell(f), LastBroken(f), NEW ids
    PROVE  LET g == Purged(f, ids) IN
           /\ LastBroken(g)
           /\ \A k \in ids : NoLine(g.lines, k)
           /\ \A k, smoke : k \notin ids /\ RowsOnce(f.lines, k, smoke) => RowsOnce(g.lines, k, smoke)
           /\ \A k : k \notin ids /\ Single(g.lines, k) => Single(f.lines, k)
           /\ \A j \in DOMAIN g.lines : \E i \in DOMAIN f.lines : g.lines[j] = f.lines[i]
<1> DEFINE L == f.lines
           out == {i \in DOMAIN L : L[i].run \in ids}
           new == Without(L, out)
           g == Purged(f, ids)
<1>1. L \in Seq(Line)
  BY DEF TableType
<1>2. /\ \A j \in DOMAIN new : \E i \in DOMAIN L \ out : new[j] = L[i]
      /\ \A i \in DOMAIN L \ out : \E j \in DOMAIN new : new[j] = L[i]
      /\ \A V : AtMostOne(L, V) => AtMostOne(new, V)
      /\ \A V : (\A i \in DOMAIN L : L[i] \in V => i \notin out) /\ AtMostOne(new, V)
                => AtMostOne(L, V)
  <2> HIDE DEF L, out
  <2>1. \A j \in DOMAIN new : \E i \in DOMAIN L \ out : new[j] = L[i]
    BY <1>1, WithoutKeeps, SMTT(40)
  <2>2. ASSUME NEW i \in DOMAIN L \ out
        PROVE  \E j \in DOMAIN new : new[j] = L[i]
    BY <1>1, WithoutKeeps, SMTT(40)
  <2>3. \A V : AtMostOne(L, V) => AtMostOne(new, V)
    BY <1>1, WithoutKeeps, ZenonT(40)
  <2>4. \A V : (\A i \in DOMAIN L : L[i] \in V => i \notin out) /\ AtMostOne(new, V)
                => AtMostOne(L, V)
    BY <1>1, WithoutKeeps, ZenonT(40)
  <2> QED BY <2>1, <2>2, <2>3, <2>4
<1>3. g = IF new = L THEN f ELSE [lines |-> new, cut |-> "no", some |-> TRUE]
  BY DEF Purged
<1> HIDE DEF new, g
<1>4. g.lines = new /\ LastBroken(g)
  BY <1>3 DEF LastBroken
<1>5. ASSUME NEW k \in ids
      PROVE  NoLine(new, k)
  BY <1>2 DEF NoLine
<1>6. ASSUME NEW k, NEW smoke, k \notin ids, RowsOnce(L, k, smoke)
      PROVE  RowsOnce(new, k, smoke)
  <2> SUFFICES ASSUME NEW n \in 1 .. Lines
               PROVE  /\ AtMostOne(new, {RunLine(k, n, smoke)})
                      /\ n > 1 => OneEntry(new, RunLine(k, n, smoke))
    BY DEF RowsOnce
  <2> DEFINE x == RunLine(k, n, smoke)
  <2>1. AtMostOne(L, {x}) /\ (n > 1 => OneEntry(L, x)) /\ x.run = k
    BY <1>6 DEF RowsOnce, RunLine
  <2> HIDE DEF x
  <2>2. AtMostOne(new, {x})
    BY <1>2, <2>1
  <2>3. ASSUME n > 1
        PROVE  OneEntry(new, x)
    <3>1. PICK i \in DOMAIN L : L[i] = x
      BY <2>1, <2>3 DEF OneEntry
    <3>2. PICK j \in DOMAIN new : new[j] = x
      BY <1>2, <1>6, <2>1, <3>1
    <3> QED BY <2>2, <3>2 DEF AtMostOne, OneEntry
  <2> QED BY <2>2, <2>3 DEF x
<1>7. ASSUME NEW k, k \notin ids, Single(new, k)
      PROVE  Single(L, k)
  <2> DEFINE V == {L[i] : i \in {j \in DOMAIN L : L[j].run = k}}
  <2>1. \A i \in DOMAIN L : L[i] \in V => L[i].run = k /\ i \notin out
    BY <1>7
  <2>2. AtMostOne(new, V)
    BY <1>7 DEF AtMostOne, Single
  <2>3. AtMostOne(L, V)
    <3>1. \A i \in DOMAIN L : L[i] \in V => i \notin out
      BY <2>1
    <3> HIDE DEF V, L, out
    <3> QED BY <1>2, <2>2, <3>1, ZenonT(60)
  <2> QED BY <2>3 DEF AtMostOne, Single
<1> QED BY <1>2, <1>4, <1>5, <1>6, <1>7 DEF g

\* The tables are different files.
LEMMA TablesDiffer == \A i \in 1 .. 4, j \in 1 .. 4 : Tables[i] = Tables[j] => i = j
BY DEF Tables

\* The rows of a run for a table.
LEMMA RowsAre ==
    ASSUME NEW k \in Runs, NEW smoke \in BOOLEAN, NEW i \in 2 .. 4
    PROVE  LET rows == RowsOf(k, smoke)[Tables[i]] IN
           Len(rows) = Lines /\ \A n \in 1 .. Lines : rows[n] = RunLine(k, n, smoke)
<1> DEFINE all == [n \in 1 .. Lines |-> RunLine(k, n, smoke)]
<1>1. Lines \in Nat
  BY CampaignAssumption
<1>2. Tables[i] \in {"retrievals", "requests", "distribution"}
  BY FourTables
<1>3. RowsOf(k, smoke)[Tables[i]] = all
  BY <1>2, FourTables DEF RowsOf, RetrievalRows, RequestRows, SnapshotRows
<1>4. \A n \in 1 .. Lines : RunLine(k, n, smoke) \in Line
  BY <1>1 DEF RunLine, Line
<1>5. all \in Seq(Line) /\ DOMAIN all = 1 .. Lines
  BY <1>1, <1>4
<1>6. \A n \in 1 .. Lines : all[n] = RunLine(k, n, smoke)
  OBVIOUS
<1> HIDE DEF all
<1>7. Len(all) = Lines
  <2>1. Len(all) \in Nat /\ DOMAIN all = 1 .. Len(all)
    BY <1>5, LenProperties
  <2> QED BY <1>1, <1>5, <2>1
<1> QED BY <1>3, <1>6, <1>7

\* PASS, and no smoke test: all runs are completed, each with the final horizon
\* and one line in runs.csv.
LEMMA PassMeans ==
    ASSUME ExportOK, NEW plan, NEW smoke \in BOOLEAN, ~smoke, Verdict(plan, smoke) = "PASS"
    PROVE  \A k \in Runs : IsCompleted(k) /\ ~status[k].smoke /\ Single(RunLines, k)
<1>1. (\A k \in Runs : IsCompleted(k)) /\ WindowsMatch(smoke) /\ RunsMatch(Runs)
  BY DEF Verdict, Integrity
<1>2. \A i \in DOMAIN RunLines : RunLines[i].smoke = smoke
  BY <1>1 DEF WindowsMatch, RunLines, ToSet
<1>3. \A k \in Runs : HasLine(RunLines, k, status[k].smoke)
  BY <1>1 DEF ExportOK, CompletedOK
<1>4. \A k \in Runs : Single(RunLines, k)
  BY <1>1 DEF RunsMatch, Single, RunLines
<1> QED BY <1>1, <1>2, <1>3, <1>4 DEF HasLine

\* One table is changed: what this asks of it.
LEMMA OneTable ==
    ASSUME TypesOK, RowsOK, status' = status,
           NEW i \in 1 .. 4, NEW g, table' = [table EXCEPT ![Tables[i]] = g], LastBroken(g),
           i = 1 => /\ \A j \in DOMAIN g.lines : g.lines[j].n = 1 /\ ~g.lines[j].wide
                    /\ \A k \in Runs : IsCompleted(k) /\ Single(g.lines, k) => Single(RunLines, k),
           i # 1 => \A k \in Runs, smoke \in BOOLEAN :
                      IsCompleted(k) /\ Single(RunLines, k) /\ RowsOnce(LinesOf(i), k, smoke)
                        => RowsOnce(g.lines, k, smoke)
    PROVE  /\ LinesOK' /\ CompletedRows'
           /\ RunLines' = (IF i = 1 THEN g.lines ELSE RunLines)
           /\ \A j \in 1 .. 4 : LinesOf(j)' = IF j = i THEN g.lines ELSE LinesOf(j)
<1>1. /\ table \in [TableNames -> TableType] /\ \A j \in 1 .. 4 : Tables[j] \in TableNames
      /\ Tables[1] = "runs" /\ TableNames = {Tables[j] : j \in 1 .. 4}
      /\ status \in [Runs -> [state : States, tries : Nat, smoke : BOOLEAN]]
  BY TypesAre, FourTables DEF Tables, TableNames, ToSet
<1>2. \A j \in 1 .. 4 : table'[Tables[j]] = IF j = i THEN g ELSE table[Tables[j]]
  BY <1>1, TablesDiffer
<1>3. \A j \in 1 .. 4 : LinesOf(j)' = IF j = i THEN g.lines ELSE LinesOf(j)
  BY <1>2 DEF LinesOf
<1>4. RunLines' = IF i = 1 THEN g.lines ELSE RunLines
  BY <1>1, <1>2 DEF RunLines
<1>5. LinesOK'
  <2>1. \A j \in 1 .. 4 : LastBroken(table'[Tables[j]])
    BY <1>1, <1>2 DEF RowsOK, LinesOK, LastBroken
  <2>2. \A j \in DOMAIN RunLines' : RunLines'[j].n = 1 /\ ~RunLines'[j].wide
    BY <1>4 DEF RowsOK, LinesOK
  <2> QED BY <1>1, <2>1, <2>2 DEF LinesOK, LastBroken
<1>6. CompletedRows'
  <2> SUFFICES ASSUME NEW k \in Runs, NEW j \in 2 .. 4, IsCompleted(k)', Single(RunLines', k)
               PROVE  RowsOnce(LinesOf(j)', k, status'[k].smoke)
    BY DEF CompletedRows, RowsOnce, Single
  <2>1. IsCompleted(k) /\ Single(RunLines, k)
    BY <1>4 DEF IsCompleted
  <2>2. RowsOnce(LinesOf(j), k, status[k].smoke) /\ status[k].smoke \in BOOLEAN
    BY <1>1, <2>1 DEF RowsOK, CompletedRows
  <2> QED BY <1>3, <2>1, <2>2
<1> QED BY <1>3, <1>4, <1>5, <1>6

\* At first the tables are empty.
LEMMA RowsInit == Init => RowsOK
<1> SUFFICES ASSUME Init PROVE RowsOK
  OBVIOUS
<1>1. \A k \in Runs : ~IsCompleted(k)
  BY DEF Init, IsCompleted
<1>2. \A t \in TableNames : table[t] = Empty
  BY DEF Init
<1>3. proc.pc = "off" /\ proc.todo = <<>> /\ proc.verdict = "none"
  BY DEF Init, Idle
<1>4. LinesOK
  BY <1>2, FourTables DEF LinesOK, RunLines, Empty
<1> QED BY <1>1, <1>3, <1>4
       DEF RowsOK, CompletedRows, OpenRows, ToSet, DoneRows, Doing, BufferRows, PassOK

\* Steps that leave the tables and the status alone.
LEMMA RowsFrame ==
    ASSUME RowsOK, table' = table, status' = status
    PROVE  /\ LinesOK' /\ CompletedRows' /\ RunLines' = RunLines
           /\ \A i : LinesOf(i)' = LinesOf(i)
           /\ \A k : IsCompleted(k)' <=> IsCompleted(k)
<1>1. /\ (\A i : LinesOf(i)' = LinesOf(i)) /\ RunLines' = RunLines
      /\ \A k : IsCompleted(k)' <=> IsCompleted(k)
  BY DEF LinesOf, RunLines, IsCompleted
<1>2. LinesOK'
  BY DEF RowsOK, LinesOK, RunLines
<1>3. CompletedRows'
  BY <1>1 DEF RowsOK, CompletedRows
<1> QED BY <1>1, <1>2, <1>3

\* No process any more, and nothing said: the tables and the status are all.
LEMMA RowsOff ==
    ASSUME LinesOK', CompletedRows', proc' = Idle
    PROVE  RowsOK'
<1>1. proc'.pc = "off" /\ proc'.todo = <<>> /\ proc'.verdict = "none"
  BY DEF Idle
<1> QED BY <1>1 DEF RowsOK, OpenRows, ToSet, DoneRows, Doing, BufferRows, PassOK

\* A call of the program, which may find nothing to do and say PASS.
LEMMA RowsStart ==
    ASSUME TypesOK, ExportOK, RowsOK,
           NEW policies \in PolicyLists, NEW seeds \in SeedLists, NEW smoke \in BOOLEAN,
           Start(policies, seeds, smoke)
    PROVE  RowsOK'
<1> DEFINE plan    == Plan(policies, seeds)
           open    == Without(plan, {i \in DOMAIN plan : IsCompleted(plan[i])})
           pc      == IF open = <<>> THEN "off" ELSE IF HasData THEN "purge" ELSE "open"
           append  == Appends(plan, open)
           verdict == IF open = <<>> THEN Verdict(ToSet(plan), smoke) ELSE "none"
<1>1. /\ proc' = [Idle EXCEPT !.pc = pc, !.todo = open, !.plan = ToSet(plan), !.smoke = smoke,
                              !.append = append, !.verdict = verdict]
      /\ UNCHANGED <<status, table>>
  BY DEF Start, disk
<1>2. append <=> HasData
  BY DEF Appends
<1>3. /\ pc \in {"off", "purge", "open"} /\ (pc = "purge" => HasData)
      /\ (pc = "open" => ~HasData) /\ (pc = "off" => open = <<>>)
      /\ (verdict # "none" => pc = "off")
  OBVIOUS
<1>4. verdict = "PASS" /\ ~smoke
        => \A k \in Runs : IsCompleted(k) /\ ~status[k].smoke /\ Single(RunLines, k)
  BY PassMeans
<1> HIDE DEF plan, open, pc, append, verdict
<1>5. /\ proc'.pc = pc /\ proc'.todo = open /\ proc'.append = append /\ proc'.step = 1
      /\ proc'.smoke = smoke /\ proc'.verdict = verdict
  BY <1>1 DEF Idle
<1>6. /\ LinesOK' /\ CompletedRows' /\ RunLines' = RunLines
      /\ \A k : IsCompleted(k)' <=> IsCompleted(k)
  BY <1>1, RowsFrame
<1>7. OpenRows'
  BY <1>2, <1>3, <1>5 DEF OpenRows, ToSet
<1>8. DoneRows' /\ BufferRows'
  BY <1>3, <1>5 DEF DoneRows, Doing, BufferRows
<1>9. PassOK'
  BY <1>1, <1>3, <1>4, <1>5, <1>6 DEF PassOK
<1> QED BY <1>6, <1>7, <1>8, <1>9 DEF RowsOK

\* One table after the other is purged, then the metadata; or a table cannot be.
LEMMA RowsPurge ==
    ASSUME TypesOK, ExportOK, RowsOK, PurgeTable \/ PurgeMeta \/ PurgeRaises
    PROVE  RowsOK'
<1>1. proc.pc = "purge" /\ status' = status /\ proc \in ProcType /\ proc.step \in 1 .. 5
  BY TypesAre DEF PurgeTable, PurgeMeta, PurgeRaises, disk, TypesOK
<1>2. proc.verdict = "none"
  BY <1>1 DEF RowsOK, PassOK
<1>3. CASE PurgeTable
  <2> DEFINE s == proc.step
             f == table[Tables[s]]
             g == Purged(f, ToPurge)
  <2>1. s \in 1 .. 4 /\ Tables[s] \in TableNames /\ Tables[s] \in PurgedTables
    BY <1>3, FourTables DEF PurgeTable, PurgedTables
  <2>2. table' = [table EXCEPT ![Tables[s]] = g] /\ proc' = [proc EXCEPT !.step = @ + 1]
    <3>1. /\ table' = [table EXCEPT ![Tables[s]] =
                          IF Tables[s] \in PurgedTables THEN Purged(@, ToPurge) ELSE @]
          /\ proc' = [proc EXCEPT !.step = @ + 1]
      BY <1>3 DEF PurgeTable
    <3> QED BY <2>1, <3>1
  <2>3. f \in TableType /\ EndsWell(f) /\ LastBroken(f)
    BY <2>1, TypesAre DEF RowsOK, LinesOK, LastBroken
  <2>4. /\ LastBroken(g)
        /\ \A k \in ToPurge : NoLine(g.lines, k)
        /\ \A k, smoke : k \notin ToPurge /\ RowsOnce(f.lines, k, smoke) => RowsOnce(g.lines, k, smoke)
        /\ \A k : k \notin ToPurge /\ Single(g.lines, k) => Single(f.lines, k)
        /\ \A j \in DOMAIN g.lines : \E i \in DOMAIN f.lines : g.lines[j] = f.lines[i]
    BY <2>3, FilePurged
  <2>5. /\ proc'.pc = "purge" /\ proc'.step = s + 1 /\ proc'.todo = proc.todo
        /\ proc'.verdict = "none"
    BY <1>1, <1>2, <2>2 DEF ProcType
  <2>6. LinesOf(s) = f.lines /\ (s = 1 => f.lines = RunLines)
    BY FourTables DEF LinesOf, RunLines
  <2> HIDE DEF f, g
  <2>7. s = 1 => \A j \in DOMAIN g.lines : g.lines[j].n = 1 /\ ~g.lines[j].wide
    BY <2>4, <2>6 DEF RowsOK, LinesOK
  <2> HIDE DEF s
  <2>8. \A k \in Runs : IsCompleted(k) => k \notin ToPurge
    BY <1>1 DEF ExportOK, TodoOK, ToPurge, ToSet
  <2>9. /\ LinesOK' /\ CompletedRows'
        /\ \A j \in 1 .. 4 : LinesOf(j)' = IF j = s THEN g.lines ELSE LinesOf(j)
    BY <1>1, <2>1, <2>2, <2>4, <2>6, <2>7, <2>8, OneTable
  <2>10. ASSUME NEW k \in ToPurge, NEW i \in 2 .. 4, ~(s + 1 <= i)
         PROVE  NoLine(RunLines', k) => NoLine(LinesOf(i)', k)
    <3>1. CASE i = s
      BY <2>4, <2>9, <3>1
    <3>2. CASE i # s
      <4>1. ~(s <= i) /\ i \in 1 .. 4 /\ s # 1
        BY <2>1, <2>10, <3>2
      <4>2. NoLine(RunLines, k) => NoLine(LinesOf(i), k)
        BY <1>1, <2>10, <4>1 DEF RowsOK, OpenRows, s, ToPurge
      <4>3. RunLines' = RunLines
        <5>1. Tables[1] = "runs" /\ Tables[s] # "runs" /\ "runs" \in TableNames
          BY <2>1, <4>1, FourTables
        <5> QED BY <2>2, <5>1, TypesAre DEF RunLines
      <4> QED BY <2>9, <3>2, <4>1, <4>2, <4>3
    <3> QED BY <3>1, <3>2
  <2>11. OpenRows'
    BY <2>5, <2>10 DEF OpenRows, NoLine, ToPurge
  <2>12. DoneRows' /\ BufferRows' /\ PassOK'
    BY <2>5 DEF DoneRows, Doing, BufferRows, PassOK
  <2> QED BY <2>9, <2>11, <2>12 DEF RowsOK
<1>4. CASE PurgeMeta
  <2>1. table' = table /\ proc' = [proc EXCEPT !.pc = "open"] /\ proc.step \notin DOMAIN Tables
    BY <1>4 DEF PurgeMeta, Goto
  <2>2. /\ LinesOK' /\ CompletedRows' /\ RunLines' = RunLines
        /\ \A i : LinesOf(i)' = LinesOf(i)
    BY <1>1, <2>1, RowsFrame
  <2>3. proc.step = 5
    BY <1>1, <2>1, FourTables
  <2>4. proc'.pc = "open" /\ proc'.todo = proc.todo /\ proc'.verdict = "none"
    BY <1>1, <1>2, <2>1 DEF ProcType
  <2>5. \A k \in ToSet(proc.todo), i \in 2 .. 4 : NoLine(RunLines, k) => NoLine(LinesOf(i), k)
    BY <1>1, <2>3 DEF RowsOK, OpenRows
  <2>6. OpenRows'
    BY <2>2, <2>4, <2>5 DEF OpenRows
  <2>7. DoneRows' /\ BufferRows' /\ PassOK'
    BY <2>4 DEF DoneRows, Doing, BufferRows, PassOK
  <2> QED BY <2>2, <2>6, <2>7 DEF RowsOK
<1>5. CASE PurgeRaises
  <2>1. table' = table /\ proc' = Idle
    BY <1>5 DEF PurgeRaises, disk
  <2> QED BY <1>1, <2>1, RowsFrame, RowsOff
<1> QED BY <1>3, <1>4, <1>5

\* The writer appends to the tables, or empties them when nothing is completed.
LEMMA RowsOpen == ASSUME TypesOK, ExportOK, RowsOK, Open PROVE RowsOK'
<1>1. proc.pc = "open" /\ status' = status /\ proc \in ProcType
  BY TypesAre DEF Open
<1>2. /\ proc'.todo = proc.todo /\ proc'.verdict = proc.verdict /\ proc'.pc = "next"
  BY <1>1 DEF Open, ProcType
<1>3. DoneRows' /\ BufferRows' /\ PassOK'
  BY <1>1, <1>2 DEF DoneRows, Doing, BufferRows, PassOK, RowsOK
<1>4. CASE proc.append
  <2>1. table' = table
    BY <1>4 DEF Open
  <2>2. /\ LinesOK' /\ CompletedRows' /\ RunLines' = RunLines
        /\ \A i : LinesOf(i)' = LinesOf(i)
    BY <1>1, <2>1, RowsFrame
  <2>3. OpenRows'
    BY <1>1, <1>2, <1>4, <2>2 DEF RowsOK, OpenRows
  <2> QED BY <1>3, <2>2, <2>3 DEF RowsOK
<1>5. CASE ~proc.append
  <2>1. \A t \in TableNames : table'[t] = Empty
    BY <1>5 DEF Open
  <2>2. \A k \in Runs : ~IsCompleted(k)'
    BY <1>1, <1>5 DEF ExportOK, TodoOK, IsCompleted
  <2>3. LinesOK'
    BY <2>1, FourTables DEF LinesOK, RunLines, Empty
  <2>4. CompletedRows'
    BY <2>2 DEF CompletedRows
  <2>5. \A i \in 2 .. 4 : LinesOf(i)' = <<>>
    BY <2>1, FourTables DEF LinesOf, Empty
  <2>6. OpenRows'
    BY <2>5 DEF OpenRows, NoLine
  <2> QED BY <1>3, <2>3, <2>4, <2>6 DEF RowsOK
<1> QED BY <1>4, <1>5

\* The run that is being done goes on, and no table is flushed.
LEMMA DoneFrame ==
    ASSUME RowsOK, table' = table, status' = status, Doing, Doing',
           proc'.run = proc.run, proc'.smoke = proc.smoke, proc'.todo = proc.todo,
           proc'.verdict = proc.verdict, \A i \in 1 .. 4 : Awaits(i)' <=> Awaits(i),
           BufferRows'
    PROVE  RowsOK'
<1>1. /\ LinesOK' /\ CompletedRows' /\ RunLines' = RunLines
      /\ \A i : LinesOf(i)' = LinesOf(i)
      /\ \A k : IsCompleted(k)' <=> IsCompleted(k)
  BY RowsFrame
<1>2. OpenRows'
  BY <1>1 DEF RowsOK, OpenRows, Doing
<1>3. First' <=> First
  BY <1>1 DEF First, NoLine, Single
<1>4. DoneRows'
  <2>1. \A i \in 2 .. 4 : Awaits(i)' <=> Awaits(i)
    OBVIOUS
  <2>2. Awaits(1)' <=> Awaits(1)
    OBVIOUS
  <2> HIDE DEF First, Awaits
  <2> QED BY <1>1, <1>3, <2>1, <2>2 DEF RowsOK, DoneRows, NoLine, RowsOnce, Single
<1>5. PassOK'
  BY DEF RowsOK, PassOK, Doing
<1> QED BY <1>1, <1>2, <1>4, <1>5 DEF RowsOK

\* Steps of a run that leave the tables and the status alone.
LEMMA RowsQuiet ==
    ASSUME TypesOK, RowsOK,
           \/ BeginRun
           \/ \E raised \in BOOLEAN, signals \in SUBSET HardSignals : EndRun(raised, signals)
           \/ BeginExport \/ WriteRows \/ AddMeta
    PROVE  RowsOK'
<1>1. table' = table /\ status' = status /\ proc \in ProcType /\ proc.todo \in Seq(Runs)
  BY TypesAre DEF BeginRun, EndRun, BeginExport, WriteRows, AddMeta, disk
<1>2. CASE BeginRun
  <2> DEFINE k == Head(proc.todo)
             rest == Tail(proc.todo)
  <2>1. /\ proc' = [proc EXCEPT !.pc = "run", !.run = k, !.todo = rest]
        /\ proc.pc = "next" /\ proc.todo # <<>>
    BY <1>2 DEF BeginRun
  <2>2. k \in ToSet(proc.todo) /\ ToSet(rest) \subseteq ToSet(proc.todo)
    BY <1>1, <2>1 DEF ToSet
  <2> HIDE DEF k, rest
  <2>3. /\ proc'.pc = "run" /\ proc'.run = k /\ proc'.todo = rest
        /\ proc'.verdict = proc.verdict
    BY <1>1, <2>1 DEF ProcType
  <2>4. /\ LinesOK' /\ CompletedRows' /\ RunLines' = RunLines
        /\ \A i : LinesOf(i)' = LinesOf(i)
    BY <1>1, RowsFrame
  <2>5. \A j \in ToSet(proc.todo), i \in 2 .. 4 : NoLine(RunLines, j) => NoLine(LinesOf(i), j)
    BY <2>1 DEF RowsOK, OpenRows
  <2>6. OpenRows'
    BY <2>2, <2>3, <2>4, <2>5 DEF OpenRows
  <2>7. \A i : Awaits(i)'
    BY <2>3 DEF Awaits
  <2>8. DoneRows'
    BY <2>2, <2>3, <2>4, <2>5, <2>7 DEF DoneRows, First, NoLine
  <2>9. BufferRows' /\ PassOK'
    BY <2>1, <2>3 DEF BufferRows, PassOK, RowsOK
  <2> QED BY <2>4, <2>6, <2>8, <2>9 DEF RowsOK
<1>3. ASSUME NEW raised, NEW signals, EndRun(raised, signals)
      PROVE  RowsOK'
  <2>1. /\ proc'.pc = "ran" /\ proc'.run = proc.run /\ proc'.todo = proc.todo
        /\ proc'.smoke = proc.smoke /\ proc'.verdict = proc.verdict /\ proc.pc = "run"
    BY <1>1, <1>3 DEF EndRun, ProcType
  <2>2. Doing /\ Doing' /\ (\A i \in 1 .. 4 : Awaits(i)' <=> Awaits(i)) /\ BufferRows'
    BY <2>1 DEF Doing, Awaits, BufferRows
  <2> QED BY <1>1, <2>1, <2>2, DoneFrame
<1>4. CASE BeginExport
  <2>1. /\ proc'.pc = "write" /\ proc'.run = proc.run /\ proc'.todo = proc.todo
        /\ proc'.smoke = proc.smoke /\ proc'.verdict = proc.verdict /\ proc'.step = 1
        /\ proc.pc = "ran"
    BY <1>1, <1>4 DEF BeginExport, ProcType
  <2>2. \A i \in 1 .. 4 : 1 <= i
    OBVIOUS
  <2>3. Doing /\ Doing' /\ (\A i \in 1 .. 4 : Awaits(i)' <=> Awaits(i)) /\ BufferRows'
    BY <2>1, <2>2 DEF Doing, Awaits, BufferRows
  <2> QED BY <1>1, <2>1, <2>3, DoneFrame
<1>5. CASE WriteRows
  <2>1. proc' = [proc EXCEPT !.pc = "flush", !.buffer = Rows] /\ proc.pc = "write"
    BY <1>5 DEF WriteRows
  <2>2. /\ proc'.pc = "flush" /\ proc'.run = proc.run /\ proc'.todo = proc.todo
        /\ proc'.smoke = proc.smoke /\ proc'.verdict = proc.verdict
        /\ proc'.step = proc.step /\ proc'.buffer = Rows
    <3> HIDE DEF Rows
    <3> QED BY <1>1, <2>1 DEF ProcType
  <2>3. Doing /\ Doing' /\ (\A i \in 1 .. 4 : Awaits(i)' <=> Awaits(i)) /\ BufferRows'
    BY <2>1, <2>2 DEF Doing, Awaits, BufferRows, Rows
  <2> QED BY <1>1, <2>2, <2>3, DoneFrame
<1>6. CASE AddMeta
  <2> DEFINE new == Append(proc.meta, proc.run)
  <2>1. proc' = [proc EXCEPT !.pc = "done", !.meta = new] /\ proc.pc = "meta"
    BY <1>6 DEF AddMeta
  <2> HIDE DEF new
  <2>2. /\ proc'.pc = "done" /\ proc'.run = proc.run /\ proc'.todo = proc.todo
        /\ proc'.smoke = proc.smoke /\ proc'.verdict = proc.verdict
    BY <1>1, <2>1 DEF ProcType
  <2>3. Doing /\ Doing' /\ (\A i \in 1 .. 4 : Awaits(i)' <=> Awaits(i)) /\ BufferRows'
    BY <2>1, <2>2 DEF Doing, Awaits, BufferRows
  <2> QED BY <1>1, <2>2, <2>3, DoneFrame
<1> QED BY <1>2, <1>3, <1>4, <1>5, <1>6

\* Lines of a run that is not completed go to a table, or a broken line is
\* completed: the rows of completed runs stay.
LEMMA ForeignLines ==
    ASSUME NEW f \in TableType, EndsWell(f), LastBroken(f), NEW new \in Seq(Line),
           NEW k \in Runs, \A i \in DOMAIN new : new[i].run # k \/ new[i].n = 0,
           NEW smoke \in BOOLEAN, RowsOnce(f.lines, k, smoke)
    PROVE  RowsOnce(Added(f, new).lines, k, smoke)
<1>1. /\ \A x \in Line : x.n > 0 /\ NoEntry(new, x)
           => /\ AtMostOne(f.lines, {x}) => AtMostOne(Added(f, new).lines, {x})
              /\ OneEntry(f.lines, x) => OneEntry(Added(f, new).lines, x)
  BY OthersKept
<1>2. \A n \in 1 .. Lines : /\ RunLine(k, n, smoke) \in Line /\ RunLine(k, n, smoke).n > 0
                            /\ RunLine(k, n, smoke).run = k /\ RunLine(k, n, smoke).n # 0
  BY CampaignAssumption DEF RunLine, Line
<1>3. \A n \in 1 .. Lines : NoEntry(new, RunLine(k, n, smoke))
  BY <1>2 DEF NoEntry
<1> QED BY <1>1, <1>2, <1>3 DEF RowsOnce

\* The rows of a run are its own, and the one for runs.csv has number 1.
LEMMA OwnRows ==
    ASSUME NEW k \in Runs, NEW smoke \in BOOLEAN, NEW i \in 1 .. 4,
           NEW rows, rows = RowsOf(k, smoke)[Tables[i]]
    PROVE  \A j \in DOMAIN rows : rows[j].run = k /\ (i = 1 => rows[j].n = 1 /\ ~rows[j].wide)
<1>1. \A n : RunLine(k, n, smoke).run = k /\ RunLine(k, n, smoke).n = n /\ ~RunLine(k, n, smoke).wide
  BY DEF RunLine
<1>2. rows \in Seq(Line) /\ (i = 1 => rows = <<RunLine(k, 1, smoke)>>)
  BY RowsType
<1>3. i # 1 => Len(rows) = Lines /\ \A n \in 1 .. Lines : rows[n] = RunLine(k, n, smoke)
  <2>1. i # 1 => i \in 2 .. 4
    OBVIOUS
  <2> QED BY <2>1, RowsAre
<1>4. ASSUME i = 1
      PROVE  \A j \in DOMAIN rows : rows[j].run = k /\ rows[j].n = 1 /\ ~rows[j].wide
  <2> DEFINE line == RunLine(k, 1, smoke)
  <2>1. rows = <<line>> /\ line.run = k /\ line.n = 1 /\ ~line.wide
    BY <1>1, <1>2, <1>4
  <2> HIDE DEF line
  <2> QED BY <2>1
<1>5. ASSUME i # 1
      PROVE  \A j \in DOMAIN rows : rows[j].run = k
  <2>1. DOMAIN rows = 1 .. Lines
    BY <1>2, <1>3, <1>5, LenProperties
  <2>2. \A n \in 1 .. Lines : rows[n].run = k
    <3>1. \A n : RunLine(k, n, smoke).run = k
      BY DEF RunLine
    <3> QED BY <1>3, <1>5, <3>1
  <2> QED BY <2>1, <2>2
<1> QED BY <1>4, <1>5

LEMMA RowsOwned ==
    ASSUME TypesOK, Exporting
    PROVE  \A j \in DOMAIN Rows :
              Rows[j].run = proc.run /\ (proc.step = 1 => Rows[j].n = 1 /\ ~Rows[j].wide)
<1> DEFINE rows  == Rows
           run   == proc.run
           smoke == proc.smoke
           s     == proc.step
<1>1. run \in Runs /\ smoke \in BOOLEAN /\ rows = RowsOf(run, smoke)[Tables[s]] /\ s \in 1 .. 4
  BY TypesAre DEF Rows, TypesOK, Exporting, Doing
<1> HIDE DEF rows, run, smoke, s
<1>2. \A j \in DOMAIN rows : rows[j].run = run /\ (s = 1 => rows[j].n = 1 /\ ~rows[j].wide)
  BY <1>1, OwnRows, SMTT(20)
<1> QED BY <1>2 DEF rows, run, s

\* All rows of the run go to a table.
LEMMA RowsFlush == ASSUME TypesOK, ExportOK, RowsOK, Flush PROVE RowsOK'
<1> DEFINE s    == proc.step
           f    == table[Tables[s]]
           g    == Added(f, proc.buffer)
           pc   == IF s = Len(Tables) THEN "meta" ELSE "write"
           step == s + 1
           run  == proc.run
<1>1. /\ table' = [table EXCEPT ![Tables[s]] = g] /\ status' = status
      /\ proc' = [proc EXCEPT !.buffer = <<>>, !.step = step, !.pc = pc]
      /\ proc.pc = "flush" /\ s \in 1 .. 4 /\ proc \in ProcType
  BY TypesAre DEF Flush, Exporting, TypesOK
<1>2. Tables[s] \in TableNames /\ (pc = "write" \/ (pc = "meta" /\ s = 4))
  BY <1>1, FourTables
<1>3. run \in Runs /\ proc.smoke \in BOOLEAN /\ proc.todo \in Seq(Runs)
  BY <1>1, TypesAre DEF Doing, TypesOK
<1>4. f \in TableType /\ EndsWell(f) /\ LastBroken(f)
  BY <1>2, TypesAre DEF RowsOK, LinesOK, LastBroken
<1>5. /\ proc.buffer = RowsOf(run, proc.smoke)[Tables[s]] /\ proc.buffer \in Seq(Line)
  BY <1>1, TypesAre DEF RowsOK, BufferRows, Rows
<1>6. \A i \in DOMAIN proc.buffer :
         /\ proc.buffer[i].run = run
         /\ s = 1 => proc.buffer[i].n = 1 /\ ~proc.buffer[i].wide
  <2>1. proc.buffer = Rows /\ Exporting
    BY <1>1 DEF RowsOK, BufferRows, Exporting
  <2> QED BY <2>1, RowsOwned
<1>7. LastBroken(g)
  BY <1>4, <1>5, AddedLines
<1>8. \A k \in Runs : k # run /\ NoLine(f.lines, k) => NoLine(g.lines, k)
  <2>1. \A k \in Runs : k # run => NoLine(proc.buffer, k)
    BY <1>6 DEF NoLine
  <2> QED BY <1>4, <1>5, <2>1, OthersKept
<1>9. LinesOf(s) = f.lines /\ (s = 1 => f = table["runs"] /\ f.lines = RunLines)
  BY FourTables DEF LinesOf, RunLines
<1>10. ASSUME NEW k \in Runs, NEW smoke \in BOOLEAN, IsCompleted(k), Single(RunLines, k), s # 1,
              RowsOnce(f.lines, k, smoke)
       PROVE  RowsOnce(g.lines, k, smoke)
  <2>1. k # run
    <3>1. Doing /\ ~Awaits(1)
      BY <1>1, <1>10 DEF Doing, Awaits
    <3> QED BY <1>10, <3>1 DEF RowsOK, DoneRows
  <2>2. \A i \in DOMAIN proc.buffer : proc.buffer[i].run # k \/ proc.buffer[i].n = 0
    BY <1>6, <2>1
  <2> HIDE DEF f
  <2> QED BY <1>4, <1>5, <1>10, <2>2, ForeignLines
<1>11. ASSUME s = 1
       PROVE  /\ \A j \in DOMAIN g.lines : g.lines[j].n = 1 /\ ~g.lines[j].wide
              /\ \A k : Single(g.lines, k) => Single(RunLines, k)
              /\ \A k : NoLine(g.lines, k) => NoLine(RunLines, k)
              /\ Single(g.lines, run) => NoLine(RunLines, run)
              /\ ~NoLine(g.lines, run)
  <2> DEFINE L == RunLines
             line == RunLine(run, 1, proc.smoke)
  <2>1. Whole(f)
    BY <1>9, <1>11 DEF ExportOK
  <2>2. g.lines = f.lines \o proc.buffer
    BY <1>4, <1>5, <2>1, WholeAdded
  <2>3. proc.buffer = <<line>>
    BY <1>1, <1>3, <1>5, <1>11, RowsType
  <2>4. L \in Seq(Line) /\ \A i \in DOMAIN L : L[i].n = 1 /\ ~L[i].wide
    BY <1>4, <1>9, <1>11 DEF RowsOK, LinesOK, TableType
  <2>5. line.run = run /\ line.n = 1 /\ ~line.wide
    BY DEF RunLine
  <2>6. g.lines = L \o <<line>>
    BY <1>9, <1>11, <2>2, <2>3
  <2> HIDE DEF L, line, g, f
  <2> DEFINE A == g.lines
             p == Len(L)
  <2>7. /\ DOMAIN A = 1 .. p + 1 /\ DOMAIN L = 1 .. p /\ p \in Nat
        /\ A[p + 1] = line /\ \A i \in 1 .. p : A[i] = L[i]
    BY <2>4, <2>6
  <2> HIDE DEF A, p
  <2>8. \A j \in DOMAIN A : A[j].n = 1 /\ ~A[j].wide
    BY <2>4, <2>5, <2>7
  <2>9. \A k : (Single(A, k) => Single(L, k)) /\ (NoLine(A, k) => NoLine(L, k))
    BY <2>7 DEF Single, NoLine
  <2>10. (Single(A, run) => NoLine(L, run)) /\ ~NoLine(A, run)
    BY <2>5, <2>7 DEF Single, NoLine
  <2> QED BY <2>8, <2>9, <2>10 DEF A, L
<1>12. ASSUME s # 1, NoLine(f.lines, run)
       PROVE  RowsOnce(g.lines, run, proc.smoke)
  <2>1. s \in 2 .. 4
    BY <1>1, <1>12
  <2>2. /\ Len(proc.buffer) = Lines
        /\ \A n \in 1 .. Lines : proc.buffer[n] = RunLine(run, n, proc.smoke)
    BY <1>3, <1>5, <2>1, RowsAre
  <2> HIDE DEF f, run
  <2> QED BY <1>3, <1>4, <1>5, <1>12, <2>2, RowsAdded
<1> HIDE DEF s, f, g, pc, step, run
<1>13. /\ LinesOK' /\ CompletedRows' /\ RunLines' = (IF s = 1 THEN g.lines ELSE RunLines)
       /\ \A j \in 1 .. 4 : LinesOf(j)' = IF j = s THEN g.lines ELSE LinesOf(j)
  BY <1>1, <1>7, <1>9, <1>10, <1>11, OneTable
<1>14. /\ proc'.pc = pc /\ proc'.step = step /\ proc'.run = run /\ proc'.todo = proc.todo
       /\ proc'.smoke = proc.smoke /\ proc'.verdict = proc.verdict
  BY <1>1 DEF ProcType, run
<1>15. pc \in {"write", "meta"} /\ step = s + 1
  BY <1>2 DEF step
<1>16. ~NoLine(RunLines', run)
  <2>1. CASE s = 1
    BY <1>11, <1>13, <2>1
  <2>2. CASE s # 1
    <3>1. HasLine(RunLines, run, proc.smoke)
      BY <1>1, <2>2 DEF ExportOK, RunOK, Doing, BeforeFlush, s, run
    <3> QED BY <1>13, <2>2, <3>1 DEF HasLine, NoLine
  <2> QED BY <2>1, <2>2
<1>17. OpenRows'
  <2>1. ASSUME NEW k \in ToSet(proc.todo), NEW i \in 2 .. 4, NoLine(RunLines', k)
        PROVE  NoLine(LinesOf(i)', k)
    <3>1. k \in Runs /\ k # run
      BY <1>3, <1>16, <2>1 DEF ToSet
    <3>2. NoLine(RunLines, k)
      BY <1>11, <1>13, <2>1
    <3>3. NoLine(LinesOf(i), k)
      BY <1>1, <3>2 DEF RowsOK, OpenRows
    <3> QED BY <1>8, <1>9, <1>13, <3>1, <3>3
  <2> QED BY <1>14, <2>1 DEF OpenRows, NoLine
<1>18. DoneRows'
  <2>1. \A i \in 1 .. 4 : Awaits(i) <=> s <= i
    BY <1>1 DEF Awaits, s
  <2>2. \A i \in 1 .. 4 : Awaits(i)' <=> s < i
    BY <1>1, <1>2, <1>14, <1>15 DEF Awaits
  <2>3. ~Awaits(1)' /\ (Awaits(1) <=> s = 1)
    BY <1>1, <2>1, <2>2
  <2>4. First' => First
    BY <1>11, <1>13, <1>14, <2>3 DEF First, Single, NoLine, run
  <2>5. ASSUME NEW i \in 2 .. 4, First
        PROVE  IF s < i THEN NoLine(LinesOf(i)', run)
                        ELSE RowsOnce(LinesOf(i)', run, proc.smoke)
    <3>1. IF s <= i THEN NoLine(LinesOf(i), run)
                    ELSE RowsOnce(LinesOf(i), run, proc.smoke)
      <4>1. IF Awaits(i) THEN NoLine(LinesOf(i), run)
                         ELSE RowsOnce(LinesOf(i), run, proc.smoke)
        BY <1>1, <2>5 DEF RowsOK, DoneRows, Doing, run
      <4> QED BY <2>1, <4>1
    <3>2. CASE i = s
      BY <1>1, <1>9, <1>12, <1>13, <3>1, <3>2
    <3>3. CASE i # s
      BY <1>1, <1>13, <3>1, <3>3
    <3> QED BY <3>2, <3>3
  <2>6. ASSUME IsCompleted(run)
        PROVE  ~Single(RunLines', run)
    <3>1. CASE s = 1
      <4>1. HasLine(RunLines, run, status[run].smoke)
        BY <1>3, <2>6 DEF ExportOK, CompletedOK
      <4> QED BY <1>11, <1>13, <3>1, <4>1 DEF HasLine, NoLine
    <3>2. CASE s # 1
      BY <1>1, <1>13, <2>3, <2>6, <3>2 DEF RowsOK, DoneRows, Doing, run
    <3> QED BY <3>1, <3>2
  <2>7. status'[run].state = "completed" <=> IsCompleted(run)
    BY <1>1 DEF IsCompleted
  <2>8. ASSUME First'
        PROVE  \A i \in 2 .. 4 : IF Awaits(i)' THEN NoLine(LinesOf(i)', run)
                                 ELSE RowsOnce(LinesOf(i)', run, proc.smoke)
    <3>1. \A i \in 2 .. 4 : Awaits(i)' <=> s < i
      BY <2>2
    <3> QED BY <2>4, <2>5, <2>8, <3>1
  <2> HIDE DEF First, Awaits
  <2> QED BY <1>14, <2>6, <2>7, <2>8 DEF DoneRows, NoLine, RowsOnce, Single, IsCompleted
<1>19. BufferRows' /\ PassOK'
  BY <1>1, <1>14, <1>15 DEF RowsOK, BufferRows, PassOK
<1> QED BY <1>13, <1>17, <1>18, <1>19 DEF RowsOK

\* An outcome is recorded; if it is "completed", all tables have been flushed.
LEMMA RowsRecord ==
    ASSUME TypesOK, RowsOK, Doing, NEW state, state = "completed" => proc.pc = "done",
           status' = Recorded(proc.run, state), table' = table,
           proc'.pc \in {"next", "close"}, proc'.todo = proc.todo, proc'.verdict = proc.verdict,
           BufferRows'
    PROVE  RowsOK'
<1> DEFINE k == proc.run
<1>1. k \in Runs /\ status \in [Runs -> [state : States, tries : Nat, smoke : BOOLEAN]]
  BY TypesAre DEF TypesOK
<1>2. /\ \A j \in Runs \ {k} : status'[j] = status[j]
      /\ status'[k].state = state /\ status'[k].smoke = proc.smoke
  BY <1>1 DEF Recorded
<1>3. (\A i : LinesOf(i)' = LinesOf(i)) /\ RunLines' = RunLines /\ LinesOK'
  BY DEF LinesOf, RunLines, RowsOK, LinesOK
<1>4. OpenRows'
  BY <1>3 DEF RowsOK, OpenRows, Doing
<1>5. DoneRows' /\ PassOK'
  BY DEF RowsOK, DoneRows, Doing, PassOK
<1>6. CompletedRows'
  <2>1. ASSUME NEW j \in Runs, NEW i \in 2 .. 4, IsCompleted(j)', Single(RunLines, j)
        PROVE  RowsOnce(LinesOf(i), j, status'[j].smoke)
    <3>1. CASE j = k
      <4>1. proc.pc = "done" /\ status'[j].smoke = proc.smoke
        BY <1>2, <2>1, <3>1 DEF IsCompleted
      <4>2. ~Awaits(1) /\ ~Awaits(i)
        BY <4>1 DEF Awaits
      <4> QED BY <2>1, <3>1, <4>1, <4>2 DEF RowsOK, DoneRows, First
    <3>2. CASE j # k
      <4>1. status'[j] = status[j]
        BY <1>2, <3>2
      <4> QED BY <2>1, <4>1 DEF RowsOK, CompletedRows, IsCompleted
    <3> QED BY <3>1, <3>2
  <2> QED BY <1>3, <2>1 DEF CompletedRows, RowsOnce, Single
<1> QED BY <1>3, <1>4, <1>5, <1>6 DEF RowsOK

\* The outcome of an attempt: of a run with all rows, or of one that failed and
\* whose buffer, if it is not empty, holds rows of its own.
LEMMA RowsOutcome ==
    ASSUME TypesOK, RowsOK,
           \/ RecordFailure \/ RecordCompleted \/ FlushFails \/ MetaFails
           \/ \E n \in 0 .. Lines - 1 : RowFails(n)
    PROVE  RowsOK'
<1>1. /\ proc \in ProcType /\ proc.smoke \in BOOLEAN
      /\ status \in [Runs -> [state : States, tries : Nat, smoke : BOOLEAN]]
  BY TypesAre
<1>2. CASE RecordFailure
  <2> DEFINE state == IF proc.result = "error" THEN "failed" ELSE "health_failed"
  <2>1. /\ status' = Recorded(proc.run, state) /\ Doing /\ table' = table
        /\ proc' = [proc EXCEPT !.pc = "next", !.failed = TRUE]
    BY <1>2 DEF RecordFailure, Doing
  <2>2. state # "completed"
    OBVIOUS
  <2>3. proc'.pc = "next" /\ proc'.todo = proc.todo /\ proc'.verdict = proc.verdict
    BY <1>1, <2>1 DEF ProcType
  <2> HIDE DEF state
  <2> QED BY <2>1, <2>2, <2>3, RowsRecord DEF BufferRows
<1>3. CASE RecordCompleted
  <2>1. /\ status' = Recorded(proc.run, "completed") /\ Doing /\ table' = table
        /\ proc' = [proc EXCEPT !.pc = "next"] /\ proc.pc = "done"
    BY <1>3 DEF RecordCompleted, Goto, Doing
  <2>2. proc'.pc = "next" /\ proc'.todo = proc.todo /\ proc'.verdict = proc.verdict
    BY <1>1, <2>1 DEF ProcType
  <2> QED BY <2>1, <2>2, RowsRecord DEF BufferRows
<1>4. CASE FlushFails \/ MetaFails \/ \E n \in 0 .. Lines - 1 : RowFails(n)
  <2>1. PICK buffer \in Seq(Line), entries \in Seq(Runs) :
               /\ ExportFailed(buffer, entries)
               /\ \/ /\ Exporting /\ proc.step \in 1 .. 4
                     /\ \/ proc.pc = "flush" /\ buffer = proc.buffer
                        \/ /\ proc.pc = "write"
                           /\ \E n \in Nat : n < Len(Rows) /\ buffer = SubSeq(Rows, 1, n)
                  \/ proc.pc = "meta" /\ buffer = <<>>
    BY <1>4, ExportRaises
  <2>2. /\ status' = Recorded(proc.run, "export_failed") /\ table' = table
        /\ proc' = [proc EXCEPT !.pc = "close", !.buffer = buffer, !.meta = entries,
                                !.failed = TRUE]
    BY <2>1 DEF ExportFailed
  <2>3. /\ proc'.pc = "close" /\ proc'.buffer = buffer /\ proc'.failed /\ proc'.step = proc.step
        /\ proc'.run = proc.run /\ proc'.todo = proc.todo /\ proc'.verdict = proc.verdict
    BY <1>1, <2>2 DEF ProcType
  <2>4. Doing /\ proc.run \in Runs
    BY <2>1 DEF Exporting, Doing, TypesOK
  <2>5. Exporting => \A i \in DOMAIN Rows :
                        /\ Rows[i].run = proc.run
                        /\ proc.step = 1 => Rows[i].n = 1 /\ ~Rows[i].wide
    BY RowsOwned
  <2>6. \A i \in DOMAIN buffer :
           /\ buffer[i].run = proc.run
           /\ proc.step = 1 => buffer[i].n = 1 /\ ~buffer[i].wide
    <3>1. CASE proc.pc = "flush"
      <4>1. buffer = Rows
        BY <2>1, <3>1 DEF RowsOK, BufferRows
      <4> QED BY <2>5, <3>1, <4>1 DEF Exporting
    <3>2. ASSUME proc.pc = "write", NEW n \in Nat, n < Len(Rows), buffer = SubSeq(Rows, 1, n)
          PROVE  \A i \in DOMAIN buffer : i \in DOMAIN Rows /\ buffer[i] = Rows[i]
      <4>1. Rows \in Seq(Line)
        BY <3>2, RowsAreLines DEF Exporting
      <4> HIDE DEF Rows
      <4>2. DOMAIN buffer = 1 .. n /\ \A i \in 1 .. n : buffer[i] = Rows[i]
        BY <3>2, <4>1
      <4> QED BY <3>2, <4>1, <4>2, LenProperties
    <3>3. CASE proc.pc = "write"
      <4>1. \A i \in DOMAIN buffer : i \in DOMAIN Rows /\ buffer[i] = Rows[i]
        BY <2>1, <3>2, <3>3
      <4> QED BY <2>5, <3>3, <4>1 DEF Exporting
    <3>4. CASE proc.pc = "meta"
      BY <2>1, <3>4 DEF Exporting
    <3> QED BY <2>1, <3>1, <3>3, <3>4 DEF Exporting
  <2>7. ~IsCompleted(proc.run)'
    BY <1>1, <2>2, <2>3, <2>4 DEF IsCompleted, Recorded
  <2>8. BufferRows'
    BY <2>3, <2>6, <2>7 DEF BufferRows, IsCompleted
  <2> QED BY <2>2, <2>3, <2>4, <2>8, RowsRecord
<1> QED BY <1>2, <1>3, <1>4

\* Whole lines are appended to whole lines, and none is taken away.
LEMMA LinesAppended ==
    ASSUME NEW L \in Seq(Line), \A i \in DOMAIN L : L[i].n = 1 /\ ~L[i].wide,
           NEW m \in Seq(Line), \A i \in DOMAIN m : m[i].n = 1 /\ ~m[i].wide
    PROVE  /\ \A j \in DOMAIN (L \o m) : (L \o m)[j].n = 1 /\ ~(L \o m)[j].wide
           /\ \A k : Single(L \o m, k) => Single(L, k)
<1> DEFINE A == L \o m
           p == Len(L)
           q == Len(m)
<1>1. /\ p \in Nat /\ q \in Nat /\ DOMAIN L = 1 .. p /\ DOMAIN m = 1 .. q /\ DOMAIN A = 1 .. p + q
      /\ \A i \in 1 .. p : A[i] = L[i] /\ i \in 1 .. p + q
      /\ \A i \in 1 .. q : A[p + i] = m[i]
  OBVIOUS
<1> HIDE DEF A, p, q
<1>2. ASSUME NEW j \in DOMAIN A
      PROVE  A[j].n = 1 /\ ~A[j].wide
  <2>1. CASE j <= p
    <3>1. j \in 1 .. p
      BY <1>1, <2>1
    <3> QED BY <1>1, <3>1
  <2>2. CASE ~(j <= p)
    <3>1. j - p \in 1 .. q /\ p + (j - p) = j
      BY <1>1, <2>2
    <3>2. A[j] = m[j - p]
      BY <1>1, <3>1
    <3> QED BY <1>1, <3>1, <3>2
  <2> QED BY <2>1, <2>2
<1>3. \A k : Single(A, k) => Single(L, k)
  BY <1>1 DEF Single
<1> QED BY <1>2, <1>3 DEF A

\* The writer closes, and says PASS only of a complete campaign.
LEMMA RowsClose == ASSUME TypesOK, ExportOK, RowsOK, Close PROVE RowsOK'
<1> DEFINE verdict == IF proc.failed THEN "failed" ELSE Verdict(proc.plan, proc.smoke)
           g(t)    == Added(table[t], Pending(t))
<1>1. /\ table' = [t \in TableNames |-> [g(t) EXCEPT !.some = TRUE]]
      /\ status' = status /\ proc.pc \in {"close", "next"}
      /\ proc' = [Idle EXCEPT !.smoke = proc.smoke, !.verdict = verdict]
  BY DEF Close
<1>2. \A t \in TableNames : table[t] \in TableType /\ EndsWell(table[t]) /\ LastBroken(table[t])
  BY TypesAre DEF RowsOK, LinesOK, LastBroken
<1>3. proc.smoke \in BOOLEAN /\ proc.buffer \in Seq(Line) /\ proc.step \in Nat
  BY TypesAre
<1>4. \A t : /\ Pending(t) \in Seq(Line)
             /\ Pending(t) # <<>>
                  => /\ proc.pc = "close" /\ proc.step \in 1 .. 4
                     /\ t = Tables[proc.step] /\ Pending(t) = proc.buffer
  BY <1>1, <1>3 DEF Pending, TypesOK
<1>5. verdict = "PASS" /\ ~proc.smoke
        => /\ \A k \in Runs : IsCompleted(k) /\ ~status[k].smoke /\ Single(RunLines, k)
           /\ ~proc.failed
  BY <1>3, PassMeans
<1> HIDE DEF verdict
<1>6. ASSUME NEW t \in TableNames
      PROVE  /\ table'[t].lines = g(t).lines /\ LastBroken(table'[t])
             /\ \A i \in DOMAIN Pending(t) : Pending(t)[i].run = proc.run
             /\ \A k \in Runs, smoke \in BOOLEAN : IsCompleted(k) /\ RowsOnce(table[t].lines, k, smoke)
                  => RowsOnce(table'[t].lines, k, smoke)
  <2>1. g(t) \in TableType /\ LastBroken(g(t))
    BY <1>2, <1>4, AddedType, AddedLines
  <2>2. table'[t] = [g(t) EXCEPT !.some = TRUE]
    BY <1>1
  <2>3. \A i \in DOMAIN Pending(t) : Pending(t)[i].run = proc.run
    BY <1>4 DEF RowsOK, BufferRows
  <2>4. ASSUME NEW k \in Runs, NEW smoke \in BOOLEAN, IsCompleted(k),
               RowsOnce(table[t].lines, k, smoke)
        PROVE  RowsOnce(g(t).lines, k, smoke)
    <3> DEFINE f == table[t]
               m == Pending(t)
    <3>1. f \in TableType /\ EndsWell(f) /\ LastBroken(f) /\ m \in Seq(Line)
      BY <1>2, <1>4
    <3>2. \A i \in DOMAIN m : m[i].run # k \/ m[i].n = 0
      <4>1. CASE m = <<>>
        BY <4>1
      <4>2. CASE m # <<>>
        <5>1. proc.run # k
          BY <1>4, <2>4, <4>2 DEF RowsOK, BufferRows
        <5> QED BY <2>3, <5>1
      <4> QED BY <4>1, <4>2
    <3>3. RowsOnce(f.lines, k, smoke)
      BY <2>4
    <3> HIDE DEF f, m
    <3>4. RowsOnce(Added(f, m).lines, k, smoke)
      BY <3>1, <3>2, <3>3, ForeignLines
    <3> QED BY <3>4 DEF f, m
  <2> HIDE DEF g
  <2>5. table'[t].lines = g(t).lines /\ LastBroken(table'[t])
    BY <2>1, <2>2 DEF TableType, LastBroken
  <2> QED BY <2>3, <2>4, <2>5
<1>7. /\ "runs" \in TableNames /\ \A i \in 2 .. 4 : Tables[i] \in TableNames
      /\ \A i \in 1 .. 4 : Tables[i] = "runs" => i = 1
  BY FourTables
<1>8. RunLines' = RunLines \o Pending("runs")
  <2> DEFINE f == table["runs"]
             m == Pending("runs")
  <2>1. f \in TableType /\ Whole(f) /\ m \in Seq(Line)
    BY <1>2, <1>4, <1>7 DEF ExportOK
  <2>2. Added(f, m).lines = f.lines \o m
    <3> HIDE DEF f, m
    <3> QED BY <2>1, WholeAdded
  <2> QED BY <1>6, <1>7, <2>2 DEF RunLines
<1> HIDE DEF g
<1>9. /\ RunLines \in Seq(Line) /\ Pending("runs") \in Seq(Line)
      /\ \A i \in DOMAIN Pending("runs") : Pending("runs")[i].n = 1 /\ ~Pending("runs")[i].wide
  <2>1. \A i \in DOMAIN Pending("runs") : Pending("runs")[i].n = 1 /\ ~Pending("runs")[i].wide
    <3>1. CASE Pending("runs") = <<>>
      BY <3>1
    <3>2. CASE Pending("runs") # <<>>
      <4>1. proc.pc = "close" /\ proc.step = 1 /\ Pending("runs") = proc.buffer
        BY <1>4, <1>7, <3>2
      <4> QED BY <4>1 DEF RowsOK, BufferRows
    <3> QED BY <3>1, <3>2
  <2> QED BY <1>2, <1>4, <1>7, <2>1 DEF RunLines, TableType
<1>10. /\ \A j \in DOMAIN RunLines' : RunLines'[j].n = 1 /\ ~RunLines'[j].wide
       /\ \A k : Single(RunLines', k) => Single(RunLines, k)
  <2> DEFINE L == RunLines
             m == Pending("runs")
  <2>1. \A i \in DOMAIN L : L[i].n = 1 /\ ~L[i].wide
    BY DEF RowsOK, LinesOK
  <2>2. L \in Seq(Line) /\ m \in Seq(Line) /\ \A i \in DOMAIN m : m[i].n = 1 /\ ~m[i].wide
    BY <1>9
  <2> HIDE DEF L, m
  <2>3. /\ \A j \in DOMAIN (L \o m) : (L \o m)[j].n = 1 /\ ~(L \o m)[j].wide
        /\ \A k : Single(L \o m, k) => Single(L, k)
    BY <2>1, <2>2, LinesAppended
  <2> QED BY <1>8, <2>3 DEF L, m
<1>11. CompletedRows'
  <2>1. ASSUME NEW k \in Runs, NEW i \in 2 .. 4, IsCompleted(k), Single(RunLines', k)
        PROVE  RowsOnce(LinesOf(i)', k, status[k].smoke)
    <3>1. RowsOnce(LinesOf(i), k, status[k].smoke) /\ status[k].smoke \in BOOLEAN
      BY <1>10, <2>1, TypesAre DEF RowsOK, CompletedRows
    <3> QED BY <1>6, <1>7, <2>1, <3>1 DEF LinesOf
  <2> QED BY <1>1, <2>1 DEF CompletedRows, IsCompleted, RowsOnce, Single
<1>12. LinesOK'
  BY <1>6, <1>10 DEF LinesOK, LastBroken
<1>13. /\ proc'.pc = "off" /\ proc'.todo = <<>> /\ proc'.smoke = proc.smoke
       /\ proc'.verdict = verdict
  BY <1>1 DEF Idle
<1>14. PassOK'
  <2>1. ~proc.failed => RunLines' = RunLines
    <3>1. ~proc.failed => Pending("runs") = <<>>
      BY <1>4 DEF RowsOK, BufferRows
    <3> QED BY <1>8, <1>9, <3>1
  <2> QED BY <1>1, <1>5, <1>13, <2>1 DEF PassOK, IsCompleted
<1> QED BY <1>11, <1>12, <1>13, <1>14
       DEF RowsOK, OpenRows, ToSet, DoneRows, Doing, BufferRows

\* What is in the buffer is of the run that is being done; if this is exported
\* again, it has two lines in runs.csv already.
LEMMA BufferOwned ==
    ASSUME TypesOK, RowsOK, proc.pc \in {"flush", "close"}, proc.step \in 1 .. 4
    PROVE  /\ \A i \in DOMAIN proc.buffer :
                 /\ proc.buffer[i].run = proc.run
                 /\ proc.step = 1 => proc.buffer[i].n = 1 /\ ~proc.buffer[i].wide
           /\ IsCompleted(proc.run) /\ proc.step # 1 => ~Single(RunLines, proc.run)
<1>1. CASE proc.pc = "close"
  BY <1>1 DEF RowsOK, BufferRows
<1>2. CASE proc.pc = "flush"
  <2>1. proc.buffer = Rows /\ Exporting
    BY <1>2 DEF RowsOK, BufferRows, Exporting
  <2>2. \A i \in DOMAIN proc.buffer :
           /\ proc.buffer[i].run = proc.run
           /\ proc.step = 1 => proc.buffer[i].n = 1 /\ ~proc.buffer[i].wide
    BY <2>1, RowsOwned
  <2>3. Doing /\ (proc.step # 1 => ~Awaits(1))
    BY <1>2 DEF Doing, Awaits
  <2> QED BY <2>2, <2>3 DEF RowsOK, DoneRows
<1> QED BY <1>1, <1>2

\* A line with number 0 is added: it is the last.
LEMMA BrokenAdded ==
    ASSUME NEW f \in TableType, EndsWell(f), LastBroken(f), NEW x \in Line, x.n = 0
    PROVE  Last(Added(f, <<x>>).lines).n = 0
<1> DEFINE L == f.lines
           new == <<x>>
           A == Added(f, new).lines
           p == Len(L)
           q == Len(new)
           Behind  == /\ DOMAIN A = 1 .. p + q
                      /\ \A i \in 1 .. p : A[i] = L[i]
                      /\ \A i \in 1 .. q : A[p + i] = new[i]
           Instead == /\ p > 0 /\ q > 0 /\ DOMAIN A = 1 .. p + q - 1
                      /\ \A i \in 1 .. p - 1 : A[i] = L[i]
                      /\ L[p].n = 0 /\ A[p].n = 0 /\ A[p].run \in {L[p].run, Unknown}
                      /\ \A i \in 2 .. q : A[p + i - 1] = new[i]
<1>1. new \in Seq(Line) /\ q = 1 /\ new[1] = x /\ p \in Nat
  BY DEF TableType
<1> HIDE DEF new
<1>2. A \in Seq(Line) /\ (Behind \/ Instead)
  BY <1>1, AddedLines
<1> HIDE DEF A, L, p, q
<1>3. \E l \in Nat : DOMAIN A = 1 .. l /\ A[l].n = 0
  BY <1>1, <1>2
<1>4. Last(A).n = 0
  <2>1. Len(A) \in Nat /\ DOMAIN A = 1 .. Len(A)
    BY <1>2, LenProperties
  <2>2. PICK l \in Nat : DOMAIN A = 1 .. l /\ A[l].n = 0
    BY <1>3
  <2>3. Len(A) = l
    BY <2>1, <2>2
  <2> QED BY <2>2, <2>3 DEF Last
<1> QED BY <1>4 DEF A, new

\* The process dies with lines in the buffer, the last of which may be broken.
LEMMA RowsCrash == ASSUME TypesOK, ExportOK, RowsOK, Crash PROVE RowsOK'
<1>1. status' = status /\ proc' = Idle
  BY DEF Crash
<1>2. CASE table' = table
  BY <1>1, <1>2, RowsFrame, RowsOff
<1>3. CASE table' # table
  <2> DEFINE s      == proc.step
             f      == table[Tables[s]]
             buffer == proc.buffer
  <2>1. PICK n \in 0 .. Len(buffer), g \in TableType :
               LET whole == Added(f, SubSeq(buffer, 1, n))
               IN  /\ proc.pc \in {"flush", "close"} /\ s \in 1 .. 4
                   /\ SubSeq(buffer, 1, n) \in Seq(Line)
                   /\ table' = [table EXCEPT ![Tables[s]] = g] /\ EndsWell(g)
                   /\ whole \in TableType /\ EndsWell(whole)
                   /\ \/ g = whole
                      \/ /\ Tables[s] # "runs" /\ n < Len(buffer) /\ buffer[n + 1] \in Line
                         /\ g \in Torn(whole, buffer[n + 1])
    BY <1>3, CrashLeaves
  <2> DEFINE new   == SubSeq(buffer, 1, n)
             whole == Added(f, new)
  <2>2. f \in TableType /\ EndsWell(f) /\ LastBroken(f) /\ (s = 1 => f = table["runs"])
    BY <2>1, TypesAre, FourTables DEF RowsOK, LinesOK, LastBroken
  <2>3. /\ \A i \in DOMAIN buffer : /\ buffer[i].run = proc.run
                                    /\ s = 1 => buffer[i].n = 1 /\ ~buffer[i].wide
        /\ IsCompleted(proc.run) /\ s # 1 => ~Single(RunLines, proc.run)
    BY <2>1, BufferOwned
  <2>4. \A i \in DOMAIN new : /\ new[i].run = proc.run
                              /\ s = 1 => new[i].n = 1 /\ ~new[i].wide
    <3>1. buffer \in Seq(Line)
      BY TypesAre
    <3> HIDE DEF buffer
    <3>2. DOMAIN new = 1 .. n /\ \A i \in 1 .. n : new[i] = buffer[i] /\ i \in DOMAIN buffer
      BY <2>1, <3>1
    <3> HIDE DEF new
    <3> QED BY <2>3, <3>2
  <2>5. LastBroken(whole) /\ new \in Seq(Line)
    BY <2>1, <2>2, AddedLines
  <2>6. ASSUME s = 1
        PROVE  /\ \A j \in DOMAIN g.lines : g.lines[j].n = 1 /\ ~g.lines[j].wide
               /\ \A k : Single(g.lines, k) => Single(RunLines, k)
    <3> DEFINE L == RunLines
    <3>1. L \in Seq(Line) /\ f.lines = L /\ \A i \in DOMAIN L : L[i].n = 1 /\ ~L[i].wide
      BY <2>2, <2>6 DEF RunLines, TableType, RowsOK, LinesOK
    <3>2. g = whole /\ Whole(f)
      BY <2>1, <2>2, <2>6, FourTables DEF ExportOK
    <3> HIDE DEF L, f, new
    <3>3. g.lines = L \o new
      BY <2>2, <2>5, <3>1, <3>2, WholeAdded
    <3>4. \A i \in DOMAIN new : new[i].n = 1 /\ ~new[i].wide
      BY <2>4, <2>6
    <3>5. /\ \A j \in DOMAIN (L \o new) : (L \o new)[j].n = 1 /\ ~(L \o new)[j].wide
          /\ \A k : Single(L \o new, k) => Single(L, k)
      BY <2>5, <3>1, <3>4, LinesAppended
    <3> QED BY <3>3, <3>5 DEF L
  <2>7. ASSUME NEW k \in Runs, NEW smoke \in BOOLEAN, s # 1, IsCompleted(k),
               Single(RunLines, k), RowsOnce(f.lines, k, smoke)
        PROVE  RowsOnce(whole.lines, k, smoke)
    <3>1. \A i \in DOMAIN new : new[i].run # k \/ new[i].n = 0
      BY <2>3, <2>4, <2>7
    <3> HIDE DEF f, new
    <3> QED BY <2>2, <2>5, <2>7, <3>1, ForeignLines
  <2> HIDE DEF whole
  <2>8. ASSUME NEW line \in Line, g \in Torn(whole, line)
        PROVE  /\ LastBroken(g)
               /\ \A k \in Runs, smoke \in BOOLEAN :
                     RowsOnce(whole.lines, k, smoke) => RowsOnce(g.lines, k, smoke)
    <3>1. whole \in TableType /\ EndsWell(whole)
      BY <2>1 DEF whole
    <3>2. CASE g = whole
      BY <2>5, <3>2
    <3>3. ASSUME NEW b \in Broken(line), g.lines = Added(whole, <<b[1]>>).lines
          PROVE  /\ LastBroken(g)
                 /\ \A k \in Runs, smoke \in BOOLEAN :
                       RowsOnce(whole.lines, k, smoke) => RowsOnce(g.lines, k, smoke)
      <4> DEFINE x == b[1]
      <4>1. x \in Line /\ x.n = 0
        BY BrokenType
      <4> HIDE DEF x
      <4>2. Last(Added(whole, <<x>>).lines).n = 0
        BY <2>5, <3>1, <4>1, BrokenAdded
      <4>3. <<x>> \in Seq(Line) /\ \A i \in DOMAIN <<x>> : <<x>>[i].n = 0
        BY <4>1
      <4>4. \A k \in Runs, smoke \in BOOLEAN :
               RowsOnce(whole.lines, k, smoke) => RowsOnce(Added(whole, <<x>>).lines, k, smoke)
        BY <2>5, <3>1, <4>3, ForeignLines
      <4> QED BY <3>3, <4>2, <4>4 DEF LastBroken, x
    <3> QED BY <2>8, <3>1, <3>2, <3>3, TornIs
  <2>9. LastBroken(g)
    BY <2>1, <2>5, <2>8 DEF whole
  <2>10. ASSUME NEW k \in Runs, NEW smoke \in BOOLEAN, s # 1, IsCompleted(k),
                Single(RunLines, k), RowsOnce(LinesOf(s), k, smoke)
         PROVE  RowsOnce(g.lines, k, smoke)
    <3>1. RowsOnce(whole.lines, k, smoke)
      BY <2>7, <2>10 DEF LinesOf
    <3> QED BY <2>1, <2>8, <3>1 DEF whole
  <2>11. table' = [table EXCEPT ![Tables[s]] = g] /\ s \in 1 .. 4
    BY <2>1
  <2> HIDE DEF s, f, buffer, new
  <2>12. LinesOK' /\ CompletedRows'
    BY <1>1, <2>6, <2>9, <2>10, <2>11, OneTable
  <2> QED BY <1>1, <2>12, RowsOff
<1> QED BY <1>2, <1>3

\* The invariant of the rows.
LEMMA RowsInvariant == Spec => []RowsOK
<1>1. TypesOK /\ ExportOK /\ RowsOK /\ [Next]_vars => RowsOK'
  <2> SUFFICES ASSUME TypesOK, ExportOK, RowsOK, [Next]_vars PROVE RowsOK'
    OBVIOUS
  <2>1. ASSUME NEW policies \in PolicyLists, NEW seeds \in SeedLists, NEW smoke \in BOOLEAN,
               Start(policies, seeds, smoke)
        PROVE  RowsOK'
    BY <2>1, RowsStart
  <2>2. CASE UNCHANGED vars
    <3>1. /\ LinesOK' /\ CompletedRows' /\ RunLines' = RunLines
          /\ \A i : LinesOf(i)' = LinesOf(i)
      BY <2>2, RowsFrame DEF vars, disk
    <3> QED BY <2>2, <3>1 DEF vars, disk, RowsOK, OpenRows, DoneRows, Doing, Awaits, First,
               BufferRows, Rows, PassOK, IsCompleted
  <2> QED BY <2>1, <2>2, RowsPurge, RowsOpen, RowsQuiet, RowsFlush, RowsOutcome,
             RowsClose, RowsCrash DEF Next
<1> QED BY <1>1, RowsInit, ExportInvariant, TypesInvariant, PTL DEF Spec

\* After PASS every row of every run is in its table once, but the first row of a
\* run in a table other than runs.csv perhaps not: for every campaign, every
\* sequence of calls, runs that are named twice, and whatever fails.
THEOREM PassExact == Spec => []PassMeansExact
<1>1. TypesOK /\ ExportOK /\ RowsOK => PassMeansExact
  <2> SUFFICES ASSUME TypesOK, ExportOK, RowsOK, proc.verdict = "PASS", ~proc.smoke,
                      NEW k \in Runs, NEW t \in TableNames, NEW n \in DOMAIN RowsOf(k, FALSE)[t]
               PROVE  LET count == CountIn(t, LAMBDA x : x = RunLine(k, n, FALSE))
                      IN  count = 1 \/ (n = 1 /\ t # "runs" /\ count = 0)
    BY DEF PassMeansExact
  <2> DEFINE x == RunLine(k, n, FALSE)
             L == table[t].lines
             C == {i \in DOMAIN L : L[i] = x}
  <2>1. CountIn(t, LAMBDA y : y = RunLine(k, n, FALSE)) = Cardinality(C)
    BY DEF CountIn
  <2>2. IsCompleted(k) /\ status[k].smoke = FALSE /\ Single(RunLines, k)
    <3>1. status[k].smoke \in BOOLEAN
      BY TypesAre
    <3> QED BY <3>1 DEF RowsOK, PassOK
  <2>3. FALSE \in BOOLEAN /\ Lines \in Nat
    BY CampaignAssumption
  <2>4. CASE t = "runs"
    <3>1. PICK i \in DOMAIN L : L[i].run = k /\ L[i].smoke = FALSE
      BY <2>2, <2>4 DEF ExportOK, CompletedOK, HasLine, RunLines
    <3>2. L[i].n = 1 /\ ~L[i].wide /\ L[i] \in Line
      BY <2>4, TypesAre DEF RowsOK, LinesOK, RunLines, TableType
    <3>3. n = 1
      <4>1. RowsOf(k, FALSE)[t] = <<RunLine(k, 1, FALSE)>>
        <5>1. Tables[1] = "runs" /\ 1 \in 1 .. 4
          BY FourTables
        <5> QED BY <2>3, <2>4, <5>1, RowsType
      <4>2. n \in DOMAIN <<RunLine(k, 1, FALSE)>>
        BY <4>1
      <4> QED BY <4>2
    <3>4. L[i] = x
      BY <3>1, <3>2, <3>3 DEF RunLine, Line
    <3>5. \A j \in DOMAIN L : L[j] = x => j = i
      BY <2>2, <2>4, <3>1, <3>4 DEF Single, RunLines
    <3> HIDE DEF x, L
    <3>6. C = {i}
      BY <3>4, <3>5
    <3> HIDE DEF C
    <3> QED BY <2>1, <3>6, FS_Singleton
  <2>5. CASE t # "runs"
    <3>1. PICK i \in 2 .. 4 : t = Tables[i]
      BY <2>5 DEF TableNames, Tables, ToSet
    <3>2. RowsOnce(L, k, FALSE)
      BY <2>2, <3>1 DEF RowsOK, CompletedRows, LinesOf
    <3>3. n \in 1 .. Lines
      <4> DEFINE rows == RowsOf(k, FALSE)[t]
      <4>1. rows \in Seq(Line) /\ Len(rows) = Lines
        <5>1. i \in 1 .. 4 /\ rows = RowsOf(k, FALSE)[Tables[i]]
          BY <3>1
        <5> HIDE DEF rows
        <5>2. rows \in Seq(Line)
          BY <2>3, <5>1, RowsType
        <5>3. Len(rows) = Lines
          BY <2>3, <5>1, RowsAre
        <5> QED BY <5>2, <5>3
      <4> HIDE DEF rows
      <4>2. DOMAIN rows = 1 .. Lines
        BY <4>1, LenProperties
      <4> QED BY <4>2 DEF rows
    <3>4. AtMostOne(L, {x}) /\ (n > 1 => OneEntry(L, x))
      BY <3>2, <3>3 DEF RowsOnce
    <3> HIDE DEF x, L
    <3>5. CASE C = {}
      <4>1. ~OneEntry(L, x)
        BY <3>5 DEF OneEntry
      <4>2. n = 1
        BY <2>3, <3>3, <3>4, <4>1
      <4>3. Cardinality(C) = 0
        BY <3>5, FS_EmptySet
      <4> HIDE DEF C
      <4> QED BY <2>1, <2>5, <4>2, <4>3
    <3>6. CASE C # {}
      <4>1. PICK l : l \in C
        BY <3>6
      <4>2. C = {l}
        BY <3>4, <4>1 DEF AtMostOne
      <4> HIDE DEF C
      <4> QED BY <2>1, <4>2, FS_Singleton
    <3> QED BY <3>5, <3>6
  <2> QED BY <2>4, <2>5
<1> QED BY <1>1, RowsInvariant, ExportInvariant, TypesInvariant, PTL

=============================================================================
