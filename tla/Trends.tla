------------------------------- MODULE Trends -------------------------------
(***************************************************************************)
(* Reading the runs of a project from their report directories (cll.rs)    *)
(* while the workers of RunQueue write them, and the trends file those     *)
(* readers write and the workers read back.                                *)
(*                                                                         *)
(* A reader is a slot for sce_cli processes that run one job after the     *)
(* other: trends, one cycle of watch-trends, or a job that only reads the  *)
(* valid runs (ci-check, suggest-constitution, constitution impact).  No   *)
(* reader looks at the database or takes a lock.                           *)
(***************************************************************************)
EXTENDS RunQueue, FiniteSets

CONSTANTS Readers,
          ReaderJobs,   \* "answer": only reads the runs; "open": writes trends
          Windows,      \* values of --last-n, 0 for the whole history
          NoWindow, NoFile, Torn

ASSUME TrendsAssumption ==
    /\ ReaderJobs \subseteq {"answer", "open"}
    /\ Windows \subseteq Nat
    /\ NoFile # Torn
    /\ {NoFile, Torn} \intersect [last_n : Windows, runs : SUBSET Runs, gaps : SUBSET Runs] = {}
    /\ NoWindow \notin Windows

VARIABLES
    dirs,      \* runs whose report directory exists
    stamp,     \* stamp[r]: finished_at in the meta of r's report files
    wrote,     \* history: <<d, r>> once daemon d has stamped the report of r
    trends,    \* trends/project_trends.json
    missed,    \* history: runs whose report.html says "Trends unavailable"
               \* although the trends file was whole
    rpc,       \* where reader x stands
    wants,     \* its --last-n, once it uses it
    listed,    \* runs it has found a directory of
    reading,   \* the run it is reading, or NoRun
    part,      \* how many artifacts of that run it has read
    got,       \* runs it has accepted
    gaps,      \* runs it has skipped, with a data gap warning
    before,    \* history: runs whose artifacts were complete when it began
    died,      \* watchers that ended on an unreadable trends file
    collided   \* history: two processes had the trends file in use at once

reportVars == <<dirs, stamp, wrote, missed>>
scanVars == <<listed, reading, part, got, gaps>>
readerVars == <<rpc, wants, scanVars, before, died, collided>>
allVars == <<vars, reportVars, trends, readerVars>>

ReaderPoints == {"idle", "scan", "read", "answer", "open", "fill", "back"}

\* metrics.json, gates.json and drift.json, the first three files of a report
Artifacts == 3
Complete == {r \in Runs : written[r] >= Artifacts}

\* What a trends file tells: the window it was made with, the selected runs and
\* the warnings; the same content has the same layout.
Documents == [last_n : Windows, runs : SUBSET Runs, gaps : SUBSET Runs]
IsWhole(f) == f \notin {NoFile, Torn}

TrendsInit ==
    /\ Init
    /\ dirs = {}
    /\ stamp = [r \in Runs |-> 0]
    /\ wrote = {}
    /\ trends = NoFile
    /\ missed = {}
    /\ rpc = [x \in Readers |-> "idle"]
    /\ wants = [x \in Readers |-> NoWindow]
    /\ listed = [x \in Readers |-> {}]
    /\ reading = [x \in Readers |-> NoRun]
    /\ part = [x \in Readers |-> 0]
    /\ got = [x \in Readers |-> {}]
    /\ gaps = [x \in Readers |-> {}]
    /\ before = [x \in Readers |-> {}]
    /\ died = {}
    /\ collided = FALSE

-----------------------------------------------------------------------------
(* The workers, seen from the report directories.                          *)

\* process_run ends the analysis: it stamps finished_at and makes the directory.
StampsReport(d) == pc[d] = "process" /\ pc'[d] = "report"

\* Faulty: the time the run was queued.
FinishedAtQueued(r) == queuedAt[r]

FinishedAt(r) == clock

\* write_report loads the trends snippet between report.json and report.html.
OpensHtml(d) == cur[d] \in torn' \ torn /\ written[cur[d]] = ReportFiles - 1

\* load_trends_snippet looks for trends/ next to the constitution's file, which
\* for a run pinned by an enqueue is in the registry.
TrendsParent == <<"SCE">>
PinnedParent == <<"SCE", "registry", "constitutions">>
SnippetFound == PinnedParent = TrendsParent /\ IsWhole(trends)

\* Any step of the queue, with what it does to the report directories.
QueueStep ==
    /\ Next
    /\ LET stamps == {<<d, cur[d]>> : d \in {e \in Daemons : StampsReport(e)}}
           stamping == {p[2] : p \in stamps}
           html == {cur[d] : d \in {e \in Daemons : OpensHtml(e)}}
       IN
       /\ dirs' = dirs \union stamping
       /\ stamp' = [r \in Runs |-> IF r \in stamping THEN FinishedAt(r) ELSE stamp[r]]
       /\ wrote' = wrote \union stamps
       /\ missed' = IF IsWhole(trends) /\ ~SnippetFound THEN missed \union html ELSE missed
    /\ UNCHANGED <<trends, readerVars>>

-----------------------------------------------------------------------------
(* load_valid_runs.                                                        *)

Goes(x, from, to) == rpc[x] = from /\ rpc' = [rpc EXCEPT ![x] = to]

Begin(x) ==
    /\ Goes(x, "idle", "scan")
    /\ before' = [before EXCEPT ![x] = Complete]
    /\ listed' = [listed EXCEPT ![x] = dirs]
    /\ UNCHANGED <<vars, reportVars, trends, wants, reading, part, got, gaps, died, collided>>

\* discover_runs lists one asset's runs after the other: of the directories
\* created meanwhile it may find any.
DiscoverRuns(x) ==
    /\ Goes(x, "scan", "read")
    /\ \E more \in SUBSET (dirs \ listed[x]) : listed' = [listed EXCEPT ![x] = @ \union more]
    /\ UNCHANGED <<vars, reportVars, trends, wants, reading, part, got, gaps, before,
                   died, collided>>

\* Assets are listed by their random ids, so the runs are read in any order.
Unread(x) == listed[x] \ (got[x] \union gaps[x])
Readable(x) == IF reading[x] = NoRun THEN Unread(x) ELSE {reading[x]}

\* Faulty: a missing or torn drift.json counts as an empty one.
ReadsWithoutDrift(r, n) == written[r] > n \/ n = 2

\* The artifact is on disk and whole: it parses, and its meta is that of the
\* one report that is ever written for r.
ReadsArtifact(r, n) == written[r] > n

SetAside(x) ==
    /\ reading' = [reading EXCEPT ![x] = NoRun]
    /\ part' = [part EXCEPT ![x] = 0]

ReadArtifact(x) ==
    /\ rpc[x] = "read"
    /\ \E r \in Readable(x) :
          /\ ReadsArtifact(r, part[x])
          /\ IF part[x] + 1 < Artifacts
             THEN /\ reading' = [reading EXCEPT ![x] = r]
                  /\ part' = [part EXCEPT ![x] = @ + 1]
                  /\ UNCHANGED got
             ELSE got' = [got EXCEPT ![x] = @ \union {r}] /\ SetAside(x)
    /\ UNCHANGED <<vars, reportVars, trends, rpc, wants, listed, gaps, before, died,
                   collided>>

SkipRun(x) ==
    /\ rpc[x] = "read"
    /\ \E r \in Readable(x) :
          /\ ~ReadsArtifact(r, part[x])
          /\ gaps' = [gaps EXCEPT ![x] = @ \union {r}]
          /\ SetAside(x)
    /\ UNCHANGED <<vars, reportVars, trends, rpc, wants, listed, got, before, died,
                   collided>>

\* All listed runs are read: on to the window, and to the file or the answer.
FinishRead(x) ==
    /\ Unread(x) = {} /\ reading[x] = NoRun
    /\ \E to \in ReaderJobs : Goes(x, "read", to)
    /\ \E n \in Windows : wants' = [wants EXCEPT ![x] = n]
    /\ UNCHANGED <<vars, reportVars, trends, scanVars, before, died, collided>>

\* The job ends, and with it what it has read.
Ends(x) ==
    /\ rpc' = [rpc EXCEPT ![x] = "idle"]
    /\ wants' = [wants EXCEPT ![x] = NoWindow]
    /\ listed' = [listed EXCEPT ![x] = {}]
    /\ reading' = [reading EXCEPT ![x] = NoRun]
    /\ part' = [part EXCEPT ![x] = 0]
    /\ got' = [got EXCEPT ![x] = {}]
    /\ gaps' = [gaps EXCEPT ![x] = {}]
    /\ before' = [before EXCEPT ![x] = {}]

-----------------------------------------------------------------------------
(* The window, the trends file and the watcher.                            *)

\* By finished_at, then run id.
Before(r, s) == stamp[r] < stamp[s] \/ (stamp[r] = stamp[s] /\ r < s)

\* The last n valid runs.
SelectWindow(runs, n) ==
    IF n = 0 THEN runs ELSE {r \in runs : Cardinality({s \in runs : Before(r, s)}) < n}

Selected(x) == SelectWindow(got[x], wants[x])
Document(x) == [last_n |-> wants[x], runs |-> Selected(x), gaps |-> gaps[x]]

\* ci-check, suggest-constitution and impact are done with the runs.
Answer(x) ==
    /\ rpc[x] = "answer"
    /\ Ends(x)
    /\ UNCHANGED <<vars, reportVars, trends, died, collided>>

\* fs::write truncates the file ...
OpenOutput(x) ==
    /\ Goes(x, "open", "fill")
    /\ trends' = Torn
    /\ collided' = (collided \/ \E y \in Readers \ {x} : rpc[y] \in {"fill", "back"})
    /\ UNCHANGED <<vars, reportVars, wants, scanVars, before, died>>

\* Faulty: the result of the write is ignored.
WrittenUnchecked(x) == {Document(x), trends}

\* ... and writes from its start, over what another process has written since:
\* the tail of a longer text stays behind.
Written(x) ==
    {Document(x)} \union IF IsWhole(trends) /\ trends # Document(x) THEN {Torn} ELSE {}

FillOutput(x) ==
    /\ rpc[x] = "fill"
    /\ \E f \in Written(x) : trends' = f
    /\ \/ Goes(x, "fill", "back") /\ UNCHANGED <<wants, scanVars, before>>
       \/ Ends(x)
    /\ UNCHANGED <<vars, reportVars, died, collided>>

\* watch-trends reads the file back to compare it with the last cycle's; a file
\* it cannot parse ends it.
ReadBack(x) ==
    /\ rpc[x] = "back"
    /\ Ends(x)
    /\ died' = IF IsWhole(trends) THEN died ELSE died \union {x}
    /\ UNCHANGED <<vars, reportVars, trends, collided>>

\* The process is interrupted, or one of its reads or writes fails.
Stop(x) ==
    /\ rpc[x] # "idle"
    /\ Ends(x)
    /\ UNCHANGED <<vars, reportVars, trends, died, collided>>

ReaderStep(x) ==
    \/ Begin(x) \/ DiscoverRuns(x) \/ ReadArtifact(x) \/ SkipRun(x) \/ FinishRead(x)
    \/ Answer(x) \/ OpenOutput(x) \/ FillOutput(x) \/ ReadBack(x) \/ Stop(x)

TrendsNext == QueueStep \/ \E x \in Readers : ReaderStep(x)

TrendsSpec == TrendsInit /\ [][TrendsNext]_allVars

-----------------------------------------------------------------------------
TrendsTypeOK ==
    /\ TypeOK
    /\ dirs \subseteq Runs
    /\ stamp \in [Runs -> 0..MaxClock]
    /\ wrote \subseteq Daemons \X Runs
    /\ trends \in Documents \union {NoFile, Torn}
    /\ missed \subseteq Runs
    /\ rpc \in [Readers -> ReaderPoints]
    /\ wants \in [Readers -> Windows \union {NoWindow}]
    /\ listed \in [Readers -> SUBSET Runs]
    /\ reading \in [Readers -> Runs \union {NoRun}]
    /\ part \in [Readers -> 0..(Artifacts - 1)]
    /\ got \in [Readers -> SUBSET Runs]
    /\ gaps \in [Readers -> SUBSET Runs]
    /\ before \in [Readers -> SUBSET Runs]
    /\ died \subseteq Readers
    /\ collided \in BOOLEAN

HasRead(x) == rpc[x] \in {"answer", "open", "fill", "back"}

\* Reading directories without a lock is as good as a snapshot: a reader has
\* accepted every run that was complete when it began (so every run that was
\* done), and none that is not complete when it ends.
ReadIsBracketed ==
    \A x \in Readers : HasRead(x) => before[x] \subseteq got[x] /\ got[x] \subseteq Complete

\* The window never hides a run behind an older one: a run that was complete
\* when the reader began is selected, or everything selected is newer.
WindowIsRecent ==
    \A x \in Readers : HasRead(x) =>
       \A r \in before[x] \ Selected(x) :
          Selected(x) # {} /\ \A s \in Selected(x) : Before(r, s)

\* What a reader reports on is what was there, and the latest of it.
ReadersAreRight == ReadIsBracketed /\ WindowIsRecent

\* A daemon only appends to the history: the run whose report it completes is
\* not stamped before any other it has reported on, so a run that turns up behind
\* the end of the series comes from another daemon, and with a single daemon the
\* series grow at their end.
HistoryAppends ==
    [][\A d \in Daemons, r \in Complete, s \in Complete' \ Complete :
          cur[d] = s /\ <<d, r>> \in wrote => stamp[r] <= stamp'[s]]_allVars

\* A watcher ends on its own trends file only if another process wrote the
\* file at the same time, not because one was interrupted half-way before.
WatchDiesOfCollision == died # {} => collided

\* What report_html_includes_trends_snippet_when_available says: a report
\* shows the trends that are on disk.
ReportShowsTrends == missed = {}
=============================================================================
