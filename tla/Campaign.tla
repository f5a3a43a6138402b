------------------------------ MODULE Campaign ------------------------------
(***************************************************************************)
(* experiments/run_final_campaign.py with run_export.py, run_health.py and *)
(* campaign_matrix.py: a campaign of runs whose results are appended to     *)
(* four tables and a list of metadata, with a status file that says which   *)
(* runs are finished.  The process may die at any step and be called again  *)
(* with --resume, for all runs or for some.                                 *)
(*                                                                         *)
(* A table is what its file holds: lines that have a run and a number, and  *)
(* how the last one ends.  A line that the process died in has number 0.    *)
(* An attempt has the number that the status gives it, or would have given  *)
(* if the process had not died.                                            *)
(***************************************************************************)
EXTENDS Naturals, Sequences, FiniteSets, SequencesExt

CONSTANTS
    Policies, Seeds,    \* FINAL_POLICIES, FINAL_SEEDS
    PolicyLists, SeedLists,     \* what --policy and --seed are given
    Begins,             \* <<j, k>>: the run_id of k begins with that of j, or is it
    Lines,              \* bound: lines of a run in a table, but one in runs.csv
    MaxFaults,          \* bound: deaths of the process and failures of a run
    Unknown             \* a run_id that is none

Runs == Policies \X Seeds

ASSUME CampaignAssumption ==
    /\ Begins \subseteq Runs \X Runs
    /\ Unknown \notin Runs
    /\ \A list \in PolicyLists : list \in Seq(Policies)
    /\ \A list \in SeedLists : list \in Seq(Seeds)
    /\ Lines \in Nat \ {0} /\ MaxFaults \in Nat

\* RUN_SCOPED_CSVS, in the order in which add_run writes them.
Tables == <<"runs", "retrievals", "requests", "distribution">>
TableNames == ToSet(Tables)

HardSignals == {"move_recovery_unresolved", "task_deadlock"}

States == {"none", "failed", "export_failed", "health_failed", "completed"}

VARIABLES
    status,     \* campaign_status.json: [Runs -> [state, tries, smoke]]
    table,      \* [TableNames -> [lines, cut, some]]
    meta,       \* run_meta.json: the runs it has an entry for
    log,        \* the files in logs/: [Runs -> [main, kept]] (see LogType)
    proc,       \* the process (see ProcType)
    faults      \* how often the process died, and how often a run failed

disk == <<status, table, meta, log>>
vars == <<disk, proc, faults>>

\* smoke: the line is from the horizon and window of a smoke test.
\* wide: it has more fields than the header.
Line == [run : Runs \cup {Unknown}, n : 0 .. Lines, smoke : BOOLEAN, wide : BOOLEAN]

\* cut: the last line ends within the run_id, or after it, without a newline.
\* some: the file is not empty.
TableType == [lines : Seq(Line), cut : {"no", "id", "fields"}, some : BOOLEAN]

\* main: the attempt whose log <run_id>.log is, 0 if there is no such file.
\* kept: <<n, m>> if <run_id>.failed-n.log is the log of attempt m.
LogType == [main : Nat, kept : SUBSET ((Nat \ {0}) \X (Nat \ {0}))]

\* buffer: lines written but not flushed to table Tables[step].
ProcType ==
    [pc     : {"off", "purge", "open", "next", "run", "ran", "write", "flush",
               "meta", "done", "close"},
     todo   : Seq(Runs),                \* open runs of the plan, still to do
     plan   : SUBSET Runs,
     smoke  : BOOLEAN,
     append : BOOLEAN,                  \* mode of the writer
     run    : Runs \cup {Unknown},      \* the run being done
     result : {"healthy", "error", "unhealthy"},
     step   : Nat,
     buffer : Seq(Line),
     meta   : Seq(Runs),                \* the writer's own list
     failed : BOOLEAN,                  \* some run of this call failed
     verdict : {"none", "open", "failed", "PASS", "FAIL"}]

----------------------------------------------------------------------------
(* Tables and the status *)

\* What a run adds to the tables: a summary, its retrievals, its requests and
\* the snapshots of the distribution.
RunLine(k, n, smoke) == [run |-> k, n |-> n, smoke |-> smoke, wide |-> FALSE]

SummariseRun(k, smoke)  == <<RunLine(k, 1, smoke)>>
RetrievalRows(k, smoke) == [n \in 1 .. Lines |-> RunLine(k, n, smoke)]
RequestRows(k, smoke)   == [n \in 1 .. Lines |-> RunLine(k, n, smoke)]
SnapshotRows(k, smoke)  == [n \in 1 .. Lines |-> RunLine(k, n, smoke)]

RowsOf(k, smoke) ==
    [t \in TableNames |-> CASE t = "runs"         -> SummariseRun(k, smoke)
                            [] t = "retrievals"   -> RetrievalRows(k, smoke)
                            [] t = "requests"     -> RequestRows(k, smoke)
                            [] t = "distribution" -> SnapshotRows(k, smoke)]

\* in_measurement_window: the first retrieval of a run comes before the window.
InWindow(line) == line.n > 1

\* Lines added behind a line that has no end become one with it.  If the run_id
\* was complete, it keeps it, and has fields too many.
Added(f, new) ==
    IF f.cut = "no" \/ new = <<>> THEN [f EXCEPT !.lines = @ \o new, !.some = @ \/ new # <<>>]
    ELSE LET broken == Last(f.lines)
             merged == IF f.cut = "id" THEN [broken EXCEPT !.run = Unknown]
                                       ELSE [broken EXCEPT !.wide = TRUE] IN
         [lines |-> Append(Front(f.lines), merged) \o Tail(new), cut |-> "no", some |-> TRUE]

Empty == [lines |-> <<>>, cut |-> "no", some |-> FALSE]

\* hat_bestand.
HasData == \E t \in TableNames : table[t].some

\* (mutant) The tables are continued only if a run of the plan was skipped.
AppendsIfSkipped(plan, open) == plan # open

Appends(plan, open) == HasData

\* The elements at the places outside a set, in their order.
Without(s, out) ==
    LET kept[n \in 0 .. Len(s)] ==
          IF n = 0 THEN <<>>
          ELSE IF n \in out THEN kept[n - 1] ELSE Append(kept[n - 1], s[n])
    IN  kept[Len(s)]

\* purge_runs for a table: rewritten, hence with all lines ended, if a line of
\* the runs is found.
Purged(f, ids) ==
    LET keep == Without(f.lines, {i \in DOMAIN f.lines : f.lines[i].run \in ids}) IN
    IF keep = f.lines THEN f ELSE [lines |-> keep, cut |-> "no", some |-> TRUE]

\* DictWriter refuses a line that is kept and has fields too many.
PurgeRefused(f, ids) ==
    LET g == Purged(f, ids) IN g # f /\ \E x \in ToSet(g.lines) : x.wide

\* (mutant) One table is forgotten.
PurgedTablesButRequests == {"runs", "retrievals", "distribution"}

\* The tables that purge_runs looks at.
PurgedTables == TableNames

\* (mutant) A run that is not healthy is no failure.
FailureStatesButHealth == {"failed", "export_failed"}

\* GESCHEITERT.
FailureStates == {"failed", "export_failed", "health_failed"}

IsCompleted(k) == status[k].state = "completed"

\* schreibe_status: the file is replaced as a whole.
Recorded(k, state) ==
    [status EXCEPT ![k] = [state |-> state, tries |-> @.tries + 1, smoke |-> proc.smoke]]

----------------------------------------------------------------------------
(* abschlusspruefung with pruefe_integritaet *)

Ids(t) == {x.run : x \in ToSet(table[t].lines)}

CountIn(t, Test(_)) == Cardinality({i \in DOMAIN table[t].lines : Test(table[t].lines[i])})

\* runs.csv against the plan: no run missing, unexpected or there twice.
RunsMatch(expected) ==
    LET lines == table["runs"].lines IN
    /\ Ids("runs") = expected
    /\ \A i, j \in DOMAIN lines : lines[i].run = lines[j].run => i = j

\* Every line of runs.csv has the right window and counts what retrievals.csv
\* marks.
WindowsMatch(smoke) ==
    \A x \in ToSet(table["runs"].lines) :
        /\ x.smoke = smoke
        /\ CountIn("retrievals", LAMBDA y : y.run = x.run /\ InWindow(y))
             = Cardinality({y \in ToSet(RetrievalRows(x.run, smoke)) : InWindow(y)})

\* The other tables speak of the same runs; so do the metadata.
ReferencesMatch ==
    /\ \A t \in TableNames : Ids(t) = Ids("runs")
    /\ ToSet(meta) = Ids("runs")
    /\ IsInjective(meta)

Integrity(expected, smoke) ==
    /\ RunsMatch(expected) /\ WindowsMatch(smoke) /\ ReferencesMatch
    /\ \A k \in expected : IsCompleted(k)

Verdict(plan, smoke) ==
    IF ~smoke /\ \E k \in Runs : ~IsCompleted(k) THEN "open"
    ELSE IF Integrity(IF smoke THEN plan ELSE Runs, smoke) THEN "PASS" ELSE "FAIL"

----------------------------------------------------------------------------
(* Actions *)

\* No process, or none any more.
Idle ==
    [pc |-> "off", todo |-> <<>>, plan |-> {}, smoke |-> FALSE, append |-> FALSE,
     run |-> Unknown, result |-> "healthy", step |-> 1, buffer |-> <<>>,
     meta |-> <<>>, failed |-> FALSE, verdict |-> "none"]

Goto(pc) == proc' = [proc EXCEPT !.pc = pc]

MayGoWrong == faults.deaths + faults.failures < MaxFaults

Fails == MayGoWrong /\ faults' = [faults EXCEPT !.failures = @ + 1]

\* plan: every policy named with every seed named, in this order; a policy or a
\* seed that is named twice is there twice.
Plan(policies, seeds) ==
    LET m == Len(seeds) IN
    [i \in 1 .. Len(policies) * m |-> <<policies[((i - 1) \div m) + 1], seeds[((i - 1) % m) + 1]>>]

\* main and the beginning of fahre_kampagne.  A directory that is not empty is
\* only touched with --resume, which has no other effect; a smoke test does not
\* start beside final runs.
Start(policies, seeds, smoke) ==
    LET plan == Plan(policies, seeds)
        open == Without(plan, {i \in DOMAIN plan : IsCompleted(plan[i])}) IN
    /\ proc.pc = "off"
    /\ smoke => \A k \in Runs : status[k].state = "none" \/ status[k].smoke
    /\ proc' = [Idle EXCEPT
         !.pc = IF open = <<>> THEN "off" ELSE IF HasData THEN "purge" ELSE "open",
         !.todo = open, !.plan = ToSet(plan), !.smoke = smoke,
         !.append = Appends(plan, open),
         !.verdict = IF open = <<>> THEN Verdict(ToSet(plan), smoke) ELSE "none"]
    /\ UNCHANGED <<disk, faults>>

\* purge_runs: one file after the other, the metadata last.
ToPurge == ToSet(proc.todo)

PurgeTable ==
    LET t == Tables[proc.step] IN
    /\ proc.pc = "purge" /\ proc.step \in DOMAIN Tables
    /\ ~PurgeRefused(table[t], ToPurge)
    /\ table' = [table EXCEPT ![t] = IF t \in PurgedTables THEN Purged(@, ToPurge) ELSE @]
    /\ proc' = [proc EXCEPT !.step = @ + 1]
    /\ UNCHANGED <<status, meta, log, faults>>

PurgeMeta ==
    /\ proc.pc = "purge" /\ proc.step \notin DOMAIN Tables
    /\ meta' = Without(meta, {i \in DOMAIN meta : meta[i] \in ToPurge})
    /\ Goto("open")
    /\ UNCHANGED <<status, table, log, faults>>

\* The exception ends the program; the file is as it was.
PurgeRaises ==
    /\ proc.pc = "purge" /\ proc.step \in DOMAIN Tables
    /\ PurgeRefused(table[Tables[proc.step]], ToPurge)
    /\ proc' = Idle
    /\ UNCHANGED <<disk, faults>>

\* ExperimentWriter.__init__: to append, or with all tables emptied.
Open ==
    /\ proc.pc = "open"
    /\ table' = IF proc.append THEN table ELSE [t \in TableNames |-> Empty]
    /\ proc' = [proc EXCEPT !.pc = "next", !.meta = IF proc.append THEN meta ELSE <<>>]
    /\ UNCHANGED <<status, meta, log, faults>>

\* fahre_lauf: the log of a failed attempt is set aside.
FailedBefore(k) == status[k].state \in FailureStates

\* (mutant) Whatever log there is is set aside.
AnyLogBefore(k) == TRUE

\* (mutant) The log of a run that was not healthy is not set aside.
KeepsLogOfErrors(k) == status[k].state \in FailureStatesButHealth

KeepsLog(k) == FailedBefore(k)

\* Path.replace: what was kept under the number is gone.
SetAside(l, n) == [main |-> 0, kept |-> {x \in l.kept : x[1] # n} \cup {<<n, l.main>>}]

BeginRun ==
    LET k == Head(proc.todo) IN
    /\ proc.pc = "next" /\ proc.todo # <<>>
    /\ proc' = [proc EXCEPT !.pc = "run", !.run = k, !.todo = Tail(@)]
    /\ log' = IF KeepsLog(k) /\ log[k].main # 0
              THEN [log EXCEPT ![k] = SetAside(@, status[k].tries)] ELSE log
    /\ UNCHANGED <<status, table, meta, faults>>

\* run_health.py: a run with a hard signal in its log is not healthy; the
\* number of rescues that succeeded plays no part.
Evaluate(signals) == IF signals = {} THEN "healthy" ELSE "unhealthy"

\* The engine ends by itself or raises; the log is written, and searched for
\* signals if the run did not raise.
EndRun(raised, signals) ==
    LET result == IF raised THEN "error" ELSE Evaluate(signals) IN
    /\ proc.pc = "run"
    /\ IF result = "healthy" THEN UNCHANGED faults ELSE Fails
    /\ log' = [log EXCEPT ![proc.run].main = status[proc.run].tries + 1]
    /\ proc' = [proc EXCEPT !.pc = "ran", !.result = result]
    /\ UNCHANGED <<status, table, meta>>

\* A run that raised or is not healthy is recorded and not exported.
RecordFailure ==
    /\ proc.pc = "ran" /\ proc.result # "healthy"
    /\ status' = Recorded(proc.run, IF proc.result = "error" THEN "failed" ELSE "health_failed")
    /\ proc' = [proc EXCEPT !.pc = "next", !.failed = TRUE]
    /\ UNCHANGED <<table, meta, log, faults>>

BeginExport ==
    /\ proc.pc = "ran" /\ proc.result = "healthy"
    /\ proc' = [proc EXCEPT !.pc = "write", !.step = 1]
    /\ UNCHANGED <<disk, faults>>

Rows == RowsOf(proc.run, proc.smoke)[Tables[proc.step]]

\* add_run: the lines of a table, then a flush; at last the metadata.
WriteRows ==
    /\ proc.pc = "write"
    /\ proc' = [proc EXCEPT !.pc = "flush", !.buffer = Rows]
    /\ UNCHANGED <<disk, faults>>

Flush ==
    /\ proc.pc = "flush"
    /\ table' = [table EXCEPT ![Tables[proc.step]] = Added(@, proc.buffer)]
    /\ proc' = [proc EXCEPT !.buffer = <<>>, !.step = @ + 1,
                            !.pc = IF proc.step = Len(Tables) THEN "meta" ELSE "write"]
    /\ UNCHANGED <<status, meta, log, faults>>

AddMeta ==
    /\ proc.pc = "meta"
    /\ meta' = Append(proc.meta, proc.run)
    /\ proc' = [proc EXCEPT !.pc = "done", !.meta = meta']
    /\ UNCHANGED <<status, table, log, faults>>

RecordCompleted ==
    /\ proc.pc = "done"
    /\ status' = Recorded(proc.run, "completed")
    /\ Goto("next")
    /\ UNCHANGED <<table, meta, log, faults>>

\* The export raises: the campaign ends, and close flushes what is in the buffer.
\* If that raises too, the program ends as in Crash.
ExportFailed(buffer, entries) ==
    /\ Fails
    /\ status' = Recorded(proc.run, "export_failed")
    /\ proc' = [proc EXCEPT !.pc = "close", !.buffer = buffer, !.meta = entries, !.failed = TRUE]
    /\ UNCHANGED <<table, meta, log>>

\* A row cannot be made; the lines before it are in the buffer.
RowFails(n) == proc.pc = "write" /\ n < Len(Rows) /\ ExportFailed(SubSeq(Rows, 1, n), proc.meta)

\* A flush raises; what it did not write stays in the buffer.
FlushFails == proc.pc = "flush" /\ ExportFailed(proc.buffer, proc.meta)

\* _schreibe_meta raises; the entry is in the writer's list.
MetaFails == proc.pc = "meta" /\ ExportFailed(<<>>, Append(proc.meta, proc.run))

\* ExperimentWriter.close, after the last run too; then the verdict.
Pending(t) == IF proc.step \in DOMAIN Tables /\ t = Tables[proc.step] THEN proc.buffer ELSE <<>>

Close ==
    /\ proc.pc = "close" \/ (proc.pc = "next" /\ proc.todo = <<>>)
    /\ table' = [t \in TableNames |-> [Added(table[t], Pending(t)) EXCEPT !.some = TRUE]]
    /\ meta' = proc.meta
    /\ proc' = [Idle EXCEPT !.smoke = proc.smoke,
                            !.verdict = IF proc.failed THEN "failed"
                                        ELSE Verdict(proc.plan, proc.smoke)]
    /\ UNCHANGED <<status, log, faults>>

\* Where a line may break off: within its run_id, which may then look like that
\* of another run, or after it.
Broken(line) ==
    {<<[line EXCEPT !.n = 0, !.run = j], "id">> :
        j \in {Unknown} \cup {i \in Runs : <<i, line.run>> \in Begins}}
      \cup {<<[line EXCEPT !.n = 0], "fields">>}

\* The tables that dying within a line may leave.  Behind a line without an end
\* the two are one, still without an end; it may not have fields too many yet.
Torn(f, line) ==
    {[Added(f, <<b[1]>>) EXCEPT !.cut = IF f.cut = "fields" THEN "fields" ELSE b[2]] :
        b \in Broken(line)}
      \cup {g \in {f} : f.cut = "fields"}

\* The process dies.  Of the lines in the buffer the first may have reached the
\* file, the last of them broken off; the only line of a run in runs.csv is
\* shorter than the buffer and gets there whole or not at all.
Crash ==
    /\ proc.pc # "off" /\ MayGoWrong
    /\ faults' = [faults EXCEPT !.deaths = @ + 1]
    /\ proc' = Idle
    /\ IF proc.buffer = <<>> THEN UNCHANGED table
       ELSE LET t == Tables[proc.step] IN
            \E n \in 0 .. Len(proc.buffer) :
               LET whole == Added(table[t], SubSeq(proc.buffer, 1, n)) IN
               \/ table' = [table EXCEPT ![t] = whole]
               \/ /\ n < Len(proc.buffer) /\ t # "runs"
                  /\ \E g \in Torn(whole, proc.buffer[n + 1]) : table' = [table EXCEPT ![t] = g]
    /\ UNCHANGED <<status, meta, log>>

----------------------------------------------------------------------------

Init ==
    /\ status = [k \in Runs |-> [state |-> "none", tries |-> 0, smoke |-> FALSE]]
    /\ table = [t \in TableNames |-> Empty]
    /\ meta = <<>>
    /\ log = [k \in Runs |-> [main |-> 0, kept |-> {}]]
    /\ proc = Idle
    /\ faults = [deaths |-> 0, failures |-> 0]

Next ==
    \/ \E policies \in PolicyLists, seeds \in SeedLists, smoke \in BOOLEAN :
          Start(policies, seeds, smoke)
    \/ PurgeTable \/ PurgeMeta \/ PurgeRaises \/ Open \/ BeginRun \/ Close \/ Crash
    \/ \E raised \in BOOLEAN, signals \in SUBSET HardSignals : EndRun(raised, signals)
    \/ RecordFailure \/ BeginExport \/ WriteRows \/ Flush \/ AddMeta \/ RecordCompleted
    \/ (\E n \in 0 .. Lines - 1 : RowFails(n)) \/ FlushFails \/ MetaFails

Spec == Init /\ [][Next]_vars

----------------------------------------------------------------------------
(* Properties *)

\* Types.
CampaignTypeOK ==
    /\ status \in [Runs -> [state : States, tries : Nat, smoke : BOOLEAN]]
    /\ table \in [TableNames -> TableType]
    /\ meta \in Seq(Runs)
    /\ log \in [Runs -> LogType]
    /\ proc \in ProcType
    /\ faults \in [deaths : 0 .. MaxFaults, failures : 0 .. MaxFaults]

\* A run that the status calls completed is never lost: whatever is interrupted,
\* repeated, purged or exported again before and after, runs.csv has a line of it,
\* with the horizon it was done with, and the metadata have an entry.
CompletedIsExported ==
    \A k \in Runs : IsCompleted(k) =>
        /\ \E x \in ToSet(table["runs"].lines) : x.run = k /\ x.smoke = status[k].smoke
        /\ k \in ToSet(meta)

\* If the campaign ends with PASS, the tables hold every row of every run
\* exactly once, even if a call named a run twice and exported it twice.  Only
\* the first row of a run may be missing: it is lost when it is appended to a
\* line that the process died in.
PassMeansExact ==
    proc.verdict = "PASS" /\ ~proc.smoke =>
        \A k \in Runs, t \in TableNames : \A n \in DOMAIN RowsOf(k, FALSE)[t] :
            LET count == CountIn(t, LAMBDA x : x = RunLine(k, n, FALSE)) IN
            count = 1 \/ (n = 1 /\ t # "runs" /\ count = 0)

\* The log of the failure that the status has of a run is still the run's log or
\* is kept under its number.  It is lost only to that of the next attempt, if
\* the process died in it after it wrote its log: then this is kept in its place.
FailuresKeepTheirLogs ==
    \A k \in Runs : FailedBefore(k) =>
        LET n == status[k].tries IN
        log[k].main = n \/ <<n, n>> \in log[k].kept \/ (faults.deaths > 0 /\ <<n, n + 1>> \in log[k].kept)

=============================================================================
