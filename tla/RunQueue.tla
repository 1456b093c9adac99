------------------------------ MODULE RunQueue ------------------------------
(***************************************************************************)
(* The analysis_runs table, the worker loop of every daemon that shares    *)
(* the database, and the life of those daemons (start, Ctrl-C, crash).     *)
(*                                                                         *)
(* A run enters the table when an enqueue request commits; the request     *)
(* stamped queued_at earlier (ingest.rs takes the time before it waits for *)
(* the registry lock), so commit order and queued_at order may differ.     *)
(* Each daemon runs one worker: poll, claim the oldest queued row with one *)
(* UPDATE ... RETURNING, analyse, write the five report files one by one,  *)
(* mark the row done or failed.                                            *)
(***************************************************************************)
EXTENDS Naturals

CONSTANTS Runs,         \* run ids (uuids); numbers, because ties are broken by id
          Daemons,      \* sce_daemon processes on the same database
          NoRun, NoDaemon,
          MaxClock,     \* bound on the millisecond clock
          MaxCrashes,   \* bound on process crashes
          MaxDbErrors   \* bound on failing database statements

ASSUME RunQueueAssumption ==
    /\ Runs \subseteq Nat
    /\ NoRun \notin Runs
    /\ NoDaemon \notin Daemons
    /\ MaxClock \in Nat /\ MaxCrashes \in Nat /\ MaxDbErrors \in Nat

VARIABLES
    status,    \* analysis_runs.status, "absent" when there is no row
    queuedAt,  \* queued_at, as stamped by the request
    started,   \* rows whose started_at is not NULL
    finished,  \* rows whose finished_at is not NULL
    request,   \* request[r]: daemon serving the enqueue of r that has stamped
               \* queued_at but has not committed, or NoDaemon
    ahead,     \* history: rows with an earlier stamp than r that were in the
               \* queue together with r, whichever of the two committed first
    pc,        \* where daemon d's worker loop stands, "down" with no process
    cur,       \* the run the worker holds
    shutdown,  \* daemons whose watch channel holds true
    written,   \* report files of r completely on disk, in write order
    torn,      \* runs whose next report file is created but not complete
    clock, crashes, dbErrors

tableVars == <<status, queuedAt, started, finished>>
requestVars == <<request, ahead>>
workerVars == <<pc, cur>>
fileVars == <<written, torn>>
faultVars == <<crashes, dbErrors>>
vars == <<status, queuedAt, started, finished, request, ahead, pc, cur,
          shutdown, written, torn, clock, crashes, dbErrors>>

Statuses == {"absent", "queued", "running", "done", "failed"}
Settled == {"done", "failed"}

\* Where a worker holds a claimed run, and where the loop has ended for good.
Holding == {"process", "report", "mark", "fail", "lastfail"}
Ended == {"down", "stopped", "dead"}
WorkerPoints == {"recover", "top", "sleep", "claim"} \union Holding \union Ended

\* metrics.json, gates.json, drift.json, report.json, report.html
ReportFiles == 5

-----------------------------------------------------------------------------
Init ==
    /\ status = [r \in Runs |-> "absent"]
    /\ queuedAt = [r \in Runs |-> 0]
    /\ started = {}
    /\ finished = {}
    /\ request = [r \in Runs |-> NoDaemon]
    /\ ahead = [r \in Runs |-> {}]
    /\ pc = [d \in Daemons |-> "down"]
    /\ cur = [d \in Daemons |-> NoRun]
    /\ shutdown = {}
    /\ written = [r \in Runs |-> 0]
    /\ torn = {}
    /\ clock = 0
    /\ crashes = 0
    /\ dbErrors = 0

Tick ==
    /\ clock < MaxClock
    /\ clock' = clock + 1
    /\ UNCHANGED <<tableVars, requestVars, workerVars, shutdown, fileVars, faultVars>>

-----------------------------------------------------------------------------
(* The enqueue request, as far as the queue sees it.                       *)

\* Faulty: the sub-select and the outer WHERE lose the status filter.
QueuedOrRunning == {r \in Runs : status[r] \in {"queued", "running"}}

\* Faulty: failed rows are claimed again.
QueuedOrFailed == {r \in Runs : status[r] \in {"queued", "failed"}}

Queued == {r \in Runs : status[r] = "queued"}

\* A fresh run id and queued_at are taken before the registry lock.  Ctrl-C
\* does not stop a request that was accepted before it: graceful shutdown lets
\* it run to its end, so the stamp may come after the signal.
StampRequest(d, r) ==
    /\ pc[d] # "down"
    /\ status[r] = "absent"
    /\ request[r] = NoDaemon
    /\ request' = [request EXCEPT ![r] = d]
    /\ queuedAt' = [queuedAt EXCEPT ![r] = clock]
    /\ UNCHANGED <<status, started, finished, ahead, workerVars, shutdown, fileVars,
                   clock, faultVars>>

\* What r finds ahead of it, and the queued rows that now have r ahead of them.
MeetQueue(r) ==
    [s \in Runs |->
        IF s = r THEN {q \in Queued : queuedAt[q] < queuedAt[r]}
        ELSE ahead[s] \union {q \in {r} : s \in Queued /\ queuedAt[r] < queuedAt[s]}]

\* The enqueue transaction commits.
InsertRun(r) ==
    /\ request[r] # NoDaemon
    /\ status' = [status EXCEPT ![r] = "queued"]
    /\ request' = [request EXCEPT ![r] = NoDaemon]
    /\ ahead' = MeetQueue(r)
    /\ UNCHANGED <<queuedAt, started, finished, workerVars, shutdown,
                   fileVars, clock, faultVars>>

\* Any error after the stamp: no registry lock, no active pointer, missing
\* candidate file, failed transaction.
RejectRequest(r) ==
    /\ request[r] # NoDaemon
    /\ request' = [request EXCEPT ![r] = NoDaemon]
    /\ UNCHANGED <<tableVars, ahead, workerVars, shutdown, fileVars, clock, faultVars>>

-----------------------------------------------------------------------------
(* The worker loop.                                                        *)

MoveTo(d, point) == pc' = [pc EXCEPT ![d] = point]

Goto(d, from, point) ==
    /\ pc[d] = from
    /\ MoveTo(d, point)
    /\ UNCHANGED <<tableVars, requestVars, cur, shutdown, fileVars, clock, faultVars>>

\* The startup UPDATE sets finished_at on rows that have no started_at; the
\* table's CHECK rejects such a row, so the statement succeeds only when it
\* matches nothing, and its error ends the worker.
RecoverRunningWithoutStartedAt(d) ==
    LET matched == {r \in Runs : status[r] = "running" /\ r \notin started} IN
    Goto(d, "recover", IF matched = {} THEN "top" ELSE "dead")

LoopTop(d) == Goto(d, "top", IF d \in shutdown THEN "stopped" ELSE "sleep")

\* Faulty: the timer branch starts the loop over instead of claiming.
TimerRestarts(d) == Goto(d, "sleep", "top")

\* tokio::select!: the 500 ms timer, or the shutdown signal; when both are
\* ready either branch may be taken.
TimerFires(d) == Goto(d, "sleep", "claim")

\* Faulty: the select also covers process_run, so the signal drops a claimed run.
SignalAborts(d) ==
    /\ pc[d] \in {"sleep", "process"}
    /\ d \in shutdown
    /\ MoveTo(d, "stopped")
    /\ cur' = [cur EXCEPT ![d] = NoRun]
    /\ UNCHANGED <<tableVars, requestVars, shutdown, fileVars, clock, faultVars>>

SignalWakes(d) == d \in shutdown /\ Goto(d, "sleep", "stopped")

\* Faulty: ORDER BY id only.
IsLowestId(r, rows) == r \in rows /\ \A s \in rows : r <= s

\* ORDER BY queued_at ASC, id ASC LIMIT 1
IsOldest(r, rows) ==
    /\ r \in rows
    /\ \A s \in rows : \/ queuedAt[r] < queuedAt[s]
                       \/ queuedAt[r] = queuedAt[s] /\ r <= s

\* One UPDATE ... RETURNING, atomic against every other connection.
ClaimNextRun(d) ==
    /\ pc[d] = "claim"
    /\ \E r \in Runs :
          /\ IsOldest(r, Queued)
          /\ status' = [status EXCEPT ![r] = "running"]
          /\ started' = started \union {r}
          /\ cur' = [cur EXCEPT ![d] = r]
    /\ MoveTo(d, "process")
    /\ UNCHANGED <<queuedAt, finished, requestVars, shutdown, fileVars, clock, faultVars>>

\* Faulty: an empty queue goes straight back to the select.
ClaimNothingSleeps(d) == Queued = {} /\ Goto(d, "claim", "sleep")

ClaimNothing(d) == Queued = {} /\ Goto(d, "claim", "top")

\* Context loaded, constitution resolved, audio analysed, gates and drift
\* computed, run directory created.
AnalysisSucceeds(d) == Goto(d, "process", "report")

\* A missing internal copy, an unresolvable constitution or a decode or
\* analysis error is marked by process_run itself ("fail"); an error it
\* returns is marked by the loop ("lastfail").
AnalysisFails(d) == \E point \in {"fail", "lastfail"} : Goto(d, "process", point)

\* fs::write creates or truncates the file, then fills it.
BeginFile(d) ==
    /\ pc[d] = "report"
    /\ cur[d] \notin torn
    /\ torn' = torn \union {cur[d]}
    /\ UNCHANGED <<tableVars, requestVars, workerVars, shutdown, written, clock, faultVars>>

\* Faulty: the last file is left to the background.
AfterFileEarly(n) == IF n + 1 = ReportFiles THEN "mark" ELSE "report"
\* write_report returns after its fifth file.
AfterFile(n) == IF n = ReportFiles THEN "mark" ELSE "report"

EndFile(d) ==
    /\ pc[d] = "report"
    /\ cur[d] \in torn
    /\ torn' = torn \ {cur[d]}
    /\ written' = [written EXCEPT ![cur[d]] = @ + 1]
    /\ MoveTo(d, AfterFile(written[cur[d]] + 1))
    /\ UNCHANGED <<tableVars, requestVars, cur, shutdown, clock, faultVars>>

\* "report write failed": files already written stay, the current one may be torn.
WriteFails(d) == Goto(d, "report", "fail")

Release(d) ==
    /\ cur' = [cur EXCEPT ![d] = NoRun]
    /\ MoveTo(d, "top")

MarkDone(d) ==
    /\ pc[d] = "mark"
    /\ IF status[cur[d]] = "running"
       THEN /\ status' = [status EXCEPT ![cur[d]] = "done"]
            /\ finished' = finished \union {cur[d]}
       ELSE UNCHANGED <<status, finished>>
    /\ Release(d)
    /\ UNCHANGED <<queuedAt, started, requestVars, shutdown, fileVars, clock, faultVars>>

\* No condition on the row's status.
MarkFailed(d) ==
    /\ pc[d] \in {"fail", "lastfail"}
    /\ status' = [status EXCEPT ![cur[d]] = "failed"]
    /\ finished' = finished \union {cur[d]}
    /\ Release(d)
    /\ UNCHANGED <<queuedAt, started, requestVars, shutdown, fileVars, clock, faultVars>>

-----------------------------------------------------------------------------
(* Failures, and the life of a daemon.                                     *)

\* A database statement of the worker fails.  Inside process_run the error
\* goes to the loop, which tries mark_failed; anywhere else it ends the
\* worker, while the daemon keeps accepting requests.
DbError(d) ==
    /\ dbErrors < MaxDbErrors
    /\ pc[d] \in {"recover", "claim", "mark", "fail", "lastfail"}
    /\ dbErrors' = dbErrors + 1
    /\ IF pc[d] \in {"mark", "fail"}
       THEN MoveTo(d, "lastfail") /\ UNCHANGED cur
       ELSE MoveTo(d, "dead") /\ cur' = [cur EXCEPT ![d] = NoRun]
    /\ UNCHANGED <<tableVars, requestVars, shutdown, fileVars, clock, crashes>>

Boot(d) == Goto(d, "down", "recover")

\* Ctrl-C: the watch channel is set and the server accepts no new connection.
Signal(d) ==
    /\ pc[d] # "down"
    /\ d \notin shutdown
    /\ shutdown' = shutdown \union {d}
    /\ UNCHANGED <<tableVars, requestVars, workerVars, fileVars, clock, faultVars>>

\* main returns once the in-flight requests and the worker have ended.
Exit(d) ==
    /\ d \in shutdown
    /\ pc[d] \in {"stopped", "dead"}
    /\ \A r \in Runs : request[r] # d
    /\ MoveTo(d, "down")
    /\ shutdown' = shutdown \ {d}
    /\ UNCHANGED <<tableVars, requestVars, cur, fileVars, clock, faultVars>>

\* The process dies: worker position, requests and channel are lost, the
\* database and the files are not.
Crash(d) ==
    /\ crashes < MaxCrashes
    /\ pc[d] # "down"
    /\ crashes' = crashes + 1
    /\ MoveTo(d, "down")
    /\ cur' = [cur EXCEPT ![d] = NoRun]
    /\ request' = [r \in Runs |-> IF request[r] = d THEN NoDaemon ELSE request[r]]
    /\ shutdown' = shutdown \ {d}
    /\ UNCHANGED <<tableVars, ahead, fileVars, clock, dbErrors>>

-----------------------------------------------------------------------------
RequestStep(r) == InsertRun(r) \/ RejectRequest(r)

WorkerStep(d) ==
    \/ RecoverRunningWithoutStartedAt(d)
    \/ LoopTop(d) \/ TimerFires(d) \/ SignalWakes(d)
    \/ ClaimNextRun(d) \/ ClaimNothing(d)
    \/ AnalysisSucceeds(d) \/ AnalysisFails(d)
    \/ BeginFile(d) \/ EndFile(d) \/ WriteFails(d)
    \/ MarkDone(d) \/ MarkFailed(d)

Next ==
    \/ Tick
    \/ \E d \in Daemons, r \in Runs : StampRequest(d, r)
    \/ \E r \in Runs : RequestStep(r)
    \/ \E d \in Daemons :
          WorkerStep(d) \/ DbError(d) \/ Boot(d) \/ Signal(d) \/ Exit(d) \/ Crash(d)

Spec == Init /\ [][Next]_vars

\* A live worker task and a live request keep running; nobody has to start a
\* daemon, signal it, or send requests.  Exit is strongly fair: only the
\* requests accepted before the signal may still stamp after it, and StampRequest
\* does not count them, so a rejected one could come back for ever.
FairSpec ==
    /\ Spec
    /\ \A d \in Daemons : WF_vars(WorkerStep(d)) /\ SF_vars(Exit(d))
    /\ \A r \in Runs : WF_vars(RequestStep(r))

-----------------------------------------------------------------------------
TypeOK ==
    /\ status \in [Runs -> Statuses]
    /\ queuedAt \in [Runs -> 0..MaxClock]
    /\ started \subseteq Runs
    /\ finished \subseteq Runs
    /\ request \in [Runs -> Daemons \union {NoDaemon}]
    /\ ahead \in [Runs -> SUBSET Runs]
    /\ pc \in [Daemons -> WorkerPoints]
    /\ cur \in [Daemons -> Runs \union {NoRun}]
    /\ shutdown \subseteq Daemons
    /\ written \in [Runs -> 0..ReportFiles]
    /\ torn \subseteq Runs
    /\ clock \in 0..MaxClock
    /\ crashes \in 0..MaxCrashes
    /\ dbErrors \in 0..MaxDbErrors

\* A claimed run has one holder (the claim is exclusive across daemons), and
\* the row of a held run says "running".
OneHolder ==
    /\ \A d \in Daemons : cur[d] # NoRun => status[cur[d]] = "running"
    /\ \A d, e \in Daemons : cur[d] = cur[e] /\ cur[d] # NoRun => d = e

\* The row and its timestamps agree: the table's CHECK (finished_at only with
\* started_at) is never what stops an UPDATE, and the startup recovery, which
\* looks for running rows without started_at, has nothing to find.
RowConsistent ==
    \A r \in Runs :
       /\ r \in started <=> status[r] \in {"running"} \union Settled
       /\ r \in finished <=> status[r] \in Settled

\* A run is marked done only after its five report files are complete.
DoneIsReported ==
    \A r \in Runs : status[r] = "done" => written[r] = ReportFiles /\ r \notin torn

\* Without a database error a run with a complete report is never "failed":
\* report.json says "done" and the table does not contradict it.
CompleteReportIsNotFailed ==
    \A r \in Runs : status[r] = "failed" /\ dbErrors = 0 => written[r] < ReportFiles

\* The table tells the truth about each run and its report directory.
TableTellsTruth == RowConsistent /\ DoneIsReported /\ CompleteReportIsNotFailed

\* No overtaking: of two runs that wait in the queue together the one with the
\* earlier stamp is claimed first, also when the other one committed first.
\* Only a run that commits after a later-stamped one was claimed comes behind it.
NoOvertaking ==
    \A r \in Runs : status[r] \notin {"absent", "queued"} =>
                       \A s \in ahead[r] : status[s] # "queued"

\* Graceful shutdown and restarts strand no run: a running row nobody holds
\* needs a crash or a database error.  And a daemon that serves requests with a
\* dead worker needs a database error: the recovery statement, which ends the
\* worker when it matches a row, never matches one, whatever crashed before.
StrandedNeedsFault ==
    /\ crashes = 0 /\ dbErrors = 0 =>
          \A r \in Runs : status[r] = "running" => \E d \in Daemons : cur[d] = r
    /\ dbErrors = 0 => \A d \in Daemons : pc[d] # "dead"

Stranded(r) == status[r] = "running" /\ \A d \in Daemons : cur[d] # r

\* A settled run keeps its verdict and its report files: the unconditional
\* UPDATE of mark_failed and the report writer never reach one.
SettledIsFinal ==
    [][\A r \in Runs : status[r] \in Settled =>
          /\ status'[r] = status[r]
          /\ written'[r] = written[r]
          /\ r \in torn' <=> r \in torn]_vars

\* A run stranded by a crash stays "running" for ever: no restart recovers it.
StrandedIsForever ==
    [][\A r \in Runs : Stranded(r) => Stranded(r)']_vars

\* What no step changes any more: the rows of settled runs and of stranded ones.
RowsStay == SettledIsFinal /\ StrandedIsForever

\* If some worker keeps polling from some point on, every queued run leaves
\* the queue.
QueuedIsServed ==
    (\E d \in Daemons : <>[](pc[d] \notin Ended)) =>
       \A r \in Runs : (status[r] = "queued") ~> (status[r] # "queued")

\* A held run is settled unless its worker ends first.
HeldIsSettled ==
    \A d \in Daemons, r \in Runs :
       (cur[d] = r) ~> (status[r] \in Settled \/ pc[d] \in Ended)

\* Together: a run that is enqueued gets its verdict if a worker lives long enough.
RunsAreServed == QueuedIsServed /\ HeldIsSettled

\* Graceful shutdown ends: after Ctrl-C the process goes down.
ShutdownCompletes ==
    \A d \in Daemons : (d \in shutdown) ~> (pc[d] = "down")

\* The table and the workers implement the promised queue.
Jobs == INSTANCE JobQueue WITH Jobs <- Runs, Executors <- Daemons, NoJob <- NoRun,
                               state <- status, busy <- cur
ImplementsJobQueue == Jobs!JobSpec
=============================================================================
