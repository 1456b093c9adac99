------------------------------- MODULE Daemon -------------------------------
(***************************************************************************)
(* The HTTP side of one sce_daemon (api.rs, main.rs): its request handlers *)
(* are tasks on Threads threads of the tokio runtime and share the pool of *)
(* database connections.  A handler gives its thread back at every await,  *)
(* but RegistryLock::acquire is a blocking flock(2): the thread waits with *)
(* it.  create_project takes the lock exclusively and without awaiting     *)
(* under it; register_asset takes it shared and awaits the database while  *)
(* it holds it.                                                            *)
(*                                                                         *)
(* All requests are about one project root, whose registry is the abstract *)
(* VersionLog that Registry implements.                                    *)
(***************************************************************************)
EXTENDS VersionLog, Naturals, FiniteSets

CONSTANTS Creates, Enqueues, Lists,  \* POST projects, POST assets, GET projects
          Threads,                   \* worker threads of the runtime
          Connections,               \* max_connections of the pool
          FirstVersion,              \* "v1.0"
          DefaultContent,            \* DEFAULT_CONSTITUTION_YAML
          NoTemplate, Truncated,
          MaxCommands,               \* bound on commands of other processes
          MaxCrashes                 \* bound on crashes of the daemon

Handlers == Creates \union Enqueues \union Lists

ASSUME DaemonAssumption ==
    /\ Creates \intersect Enqueues = {}
    /\ Lists \intersect (Creates \union Enqueues) = {}
    /\ IsFiniteSet(Handlers)
    /\ Threads \in Nat \ {0} /\ Connections \in Nat \ {0}
    /\ FirstVersion \in Versions
    /\ DefaultContent \in Contents
    /\ NoContent \notin Contents
    /\ {NoTemplate, Truncated} \intersect Contents = {} /\ NoTemplate # Truncated
    /\ NoPointer \notin [version : Versions, hash : Contents]
    /\ MaxCommands \in Nat /\ MaxCrashes \in Nat

VARIABLES
    at,         \* at[h]: where request h stands
    template,   \* SCE/constitution.yaml
    write,      \* write[h]: the blocking write of the template that h started
    rows,       \* creates that have their row in the projects table
    worker,     \* "idle", "claimed" a run, or "busy" on a thread analysing it
    outside,    \* how another process (sce_cli) holds the lock
    commands,
    daemon,     \* "up", "closing" after Ctrl-C, "down"
    crashes,
    overlapped, \* history: creates that ran at the same time as another
    meddled     \* history: another process changed the template or FirstVersion

daemonVars == <<at, template, write, rows, worker, outside, commands, daemon, crashes,
                overlapped, meddled>>
vars == <<logVars, daemonVars>>

Final == {"answered", "refused", "failed"}
Points == {"idle", "template", "flock", "connect", "query", "begin", "commit"} \union Final

Init ==
    /\ LogInit
    /\ at = [h \in Handlers |-> "idle"]
    /\ template = NoTemplate
    /\ write = [h \in Creates |-> "none"]
    /\ rows = {}
    /\ worker = "idle"
    /\ outside = "free"
    /\ commands = 0
    /\ daemon = "up"
    /\ crashes = 0
    /\ overlapped = {}
    /\ meddled = FALSE

-----------------------------------------------------------------------------
(* Threads, connections and the registry lock.                             *)

InFlight == {h \in Handlers : at[h] \notin {"idle"} \union Final}

\* A handler in flock keeps its thread, and so does the analysis of a run.
Blocked == {h \in Handlers : at[h] = "flock"}
ThreadsInUse == Cardinality(Blocked) + IF worker = "busy" THEN 1 ELSE 0
ThreadFree == ThreadsInUse < Threads

Connected == {h \in Handlers : at[h] \in {"query", "commit"}}
ConnectionFree == Cardinality(Connected) < Connections

\* Enqueues between acquire and the end of the request.
Holders == {h \in Enqueues : at[h] \in {"begin", "commit"}}

Reach(h, from, to) == at[h] = from /\ at' = [at EXCEPT ![h] = to]

\* What a step that only moves a handler leaves alone.
Elsewhere == UNCHANGED <<template, write, worker, outside, commands, daemon, crashes,
                         overlapped, meddled>>
OnlyMoves == UNCHANGED <<logVars, rows>> /\ Elsewhere

-----------------------------------------------------------------------------
(* create_project.                                                         *)

\* Creates that are under way, or whose write of the template is.
Creating == {h \in Creates : h \in InFlight \/ write[h] \in {"open", "fill"}}

\* Faulty: the write of the template is spawned and not awaited.
BeginCreateUnawaited(h) ==
    /\ daemon = "up" /\ ThreadFree
    /\ Reach(h, "idle", "flock")
    /\ write' = IF template = NoTemplate THEN [write EXCEPT ![h] = "open"] ELSE write
    /\ overlapped' = IF Creating = {} THEN overlapped ELSE overlapped \union Creating \union {h}
    /\ UNCHANGED <<logVars, template, rows, worker, outside, commands, daemon, crashes, meddled>>

\* Without a template the default one is written; a handler that finds one
\* goes on to the lock in the same poll.
BeginCreate(h) ==
    /\ daemon = "up" /\ ThreadFree
    /\ Reach(h, "idle", IF template = NoTemplate THEN "template" ELSE "flock")
    /\ write' = IF template = NoTemplate THEN [write EXCEPT ![h] = "open"] ELSE write
    /\ overlapped' = IF Creating = {} THEN overlapped ELSE overlapped \union Creating \union {h}
    /\ UNCHANGED <<logVars, template, rows, worker, outside, commands, daemon, crashes, meddled>>

\* tokio::fs::write runs on a thread of the blocking pool, also when the
\* request that started it is dropped: it truncates the file, then fills it.
OpenTemplate(h) ==
    /\ write[h] = "open"
    /\ write' = [write EXCEPT ![h] = "fill"]
    /\ template' = Truncated
    /\ UNCHANGED <<logVars, at, rows, worker, outside, commands, daemon, crashes,
                   overlapped, meddled>>

FillTemplate(h) ==
    /\ write[h] = "fill"
    /\ write' = [write EXCEPT ![h] = "done"]
    /\ template' = DefaultContent
    /\ UNCHANGED <<logVars, at, rows, worker, outside, commands, daemon, crashes,
                   overlapped, meddled>>

TemplateWritten(h) ==
    /\ ThreadFree
    /\ write[h] = "done"
    /\ Reach(h, "template", "flock")
    /\ OnlyMoves

LockIdle == outside = "free" /\ Holders = {}

\* An admissible template that FirstVersion is not bound to otherwise.
Admissible == template \in Contents /\ bound[FirstVersion] \in {NoContent, template}

\* init_registry: under the exclusive lock from its first to its last file.
InitRegistry(h) ==
    /\ h \in Creates /\ LockIdle
    /\ Admissible
    /\ Reach(h, "flock", "connect")
    /\ Activate(FirstVersion, template)
    /\ UNCHANGED rows /\ Elsewhere

\* A torn or foreign template, or other bytes under FirstVersion.
RefuseInit(h) ==
    /\ h \in Creates /\ LockIdle
    /\ ~Admissible
    /\ Reach(h, "flock", "refused")
    /\ OnlyMoves

-----------------------------------------------------------------------------
(* Statements.  create_project inserts its row, register_asset looks up    *)
(* the project and the asset, list_projects selects.                       *)

BeginStatement(h) ==
    /\ h \notin Creates
    /\ daemon = "up" /\ ThreadFree
    /\ Reach(h, "idle", "connect")
    /\ OnlyMoves

Connect(h) ==
    /\ ThreadFree /\ ConnectionFree
    /\ Reach(h, "connect", "query")
    /\ OnlyMoves

InsertProject(h) ==
    /\ h \in Creates /\ ThreadFree
    /\ Reach(h, "query", "answered")
    /\ rows' = rows \union {h}
    /\ UNCHANGED logVars /\ Elsewhere

ListProjects(h) ==
    /\ h \in Lists /\ ThreadFree
    /\ Reach(h, "query", "answered")
    /\ OnlyMoves

FindProject(h) ==
    /\ h \in Enqueues /\ ThreadFree
    /\ Reach(h, "query", IF rows = {} THEN "refused" ELSE "flock")
    /\ OnlyMoves

-----------------------------------------------------------------------------
(* register_asset under the shared lock.                                   *)

\* Faulty: the enqueue takes the lock exclusively.
AcquireAlone(h) ==
    /\ h \in Enqueues /\ LockIdle
    /\ Reach(h, "flock", IF current = NoPointer THEN "failed" ELSE "begin")
    /\ OnlyMoves

AcquireShared(h) ==
    /\ h \in Enqueues /\ outside # "exclusive"
    /\ Reach(h, "flock", IF current = NoPointer THEN "failed" ELSE "begin")
    /\ OnlyMoves

BeginTransaction(h) ==
    /\ ThreadFree /\ ConnectionFree
    /\ Reach(h, "begin", "commit")
    /\ OnlyMoves

Commit(h) ==
    /\ ThreadFree
    /\ Reach(h, "commit", "answered")
    /\ OnlyMoves

\* A failing statement, no connection in time, or the client hangs up and the
\* handler is dropped where it awaits, with its lock guard and transaction.
Abandon(h) ==
    /\ ThreadFree
    /\ \E from \in {"template", "connect", "query", "begin", "commit"} : Reach(h, from, "failed")
    /\ OnlyMoves

-----------------------------------------------------------------------------
(* The rest of the process, and other processes.                           *)

WorkerGoes(from, to) ==
    /\ worker = from /\ worker' = to
    /\ UNCHANGED <<logVars, at, template, write, rows, outside, commands, daemon, crashes,
                   overlapped, meddled>>

\* Faulty: the worker does not look at the shutdown channel.
ClaimRunAlways == ThreadFree /\ WorkerGoes("idle", "claimed")

ClaimRun == ThreadFree /\ daemon = "up" /\ WorkerGoes("idle", "claimed")

\* analyze_file decodes and measures without an await.
BeginAnalysis == ThreadFree /\ WorkerGoes("claimed", "busy")
EndAnalysis == WorkerGoes("busy", "idle")

\* Ctrl-C reaches the task that waits for it, and no request is accepted.
CtrlC ==
    /\ daemon = "up" /\ ThreadFree
    /\ daemon' = "closing"
    /\ UNCHANGED <<logVars, at, template, write, rows, worker, outside, commands, crashes,
                   overlapped, meddled>>

\* serve returns once the requests in flight are answered.
Drained ==
    /\ daemon = "closing" /\ InFlight = {} /\ worker = "idle"
    /\ daemon' = "down"
    /\ UNCHANGED <<logVars, at, template, write, rows, worker, outside, commands, crashes,
                   overlapped, meddled>>

\* The process is killed, and started again.
Crash ==
    /\ crashes < MaxCrashes /\ daemon = "up"
    /\ crashes' = crashes + 1
    /\ at' = [h \in Handlers |-> IF h \in InFlight THEN "failed" ELSE at[h]]
    /\ write' = [h \in Creates |-> "none"]
    /\ worker' = "idle"
    /\ UNCHANGED <<logVars, template, rows, outside, commands, daemon, overlapped, meddled>>

CommandBegins(mode) ==
    /\ commands < MaxCommands
    /\ outside = "free" /\ (mode = "exclusive" => Holders = {})
    /\ outside' = mode
    /\ commands' = commands + 1
    /\ UNCHANGED <<logVars, at, template, write, rows, worker, daemon, crashes,
                   overlapped, meddled>>

CommandWrites ==
    /\ outside = "exclusive"
    /\ LogNext
    /\ meddled' = (meddled \/ bound'[FirstVersion] # bound[FirstVersion])
    /\ UNCHANGED <<at, template, write, rows, worker, outside, commands, daemon, crashes,
                   overlapped>>

CommandEnds ==
    /\ outside # "free"
    /\ outside' = "free"
    /\ UNCHANGED <<logVars, at, template, write, rows, worker, commands, daemon, crashes,
                   overlapped, meddled>>

\* Users edit the file that create_project leaves in the project.
EditTemplate ==
    /\ template \in Contents
    /\ \E c \in Contents \ {template} : template' = c
    /\ meddled' = TRUE
    /\ UNCHANGED <<logVars, at, write, rows, worker, outside, commands, daemon, crashes,
                   overlapped>>

-----------------------------------------------------------------------------
\* The steps of a task: on a thread of the runtime.
Runs(h) ==
    \/ h \in Creates /\ (BeginCreate(h) \/ TemplateWritten(h))
    \/ BeginStatement(h) \/ Connect(h)
    \/ InsertProject(h) \/ ListProjects(h) \/ FindProject(h)
    \/ BeginTransaction(h) \/ Commit(h)

\* The kernel grants the lock.
Granted(h) == InitRegistry(h) \/ RefuseInit(h) \/ AcquireShared(h)

Writes(h) == h \in Creates /\ (OpenTemplate(h) \/ FillTemplate(h))

Next ==
    \/ \E h \in Handlers : Runs(h) \/ Granted(h) \/ Writes(h) \/ Abandon(h)
    \/ ClaimRun \/ BeginAnalysis \/ EndAnalysis
    \/ CtrlC \/ Drained \/ Crash
    \/ \E mode \in {"shared", "exclusive"} : CommandBegins(mode)
    \/ CommandWrites \/ CommandEnds \/ EditTemplate

Spec == Init /\ [][Next]_vars

\* The runtime polls every task that is ready again and again while threads
\* come free, the kernel grants a lock that stays free, blocking writes and
\* analyses end, and so do the commands of other processes.
Fairness ==
    /\ \A h \in Handlers : SF_vars(Runs(h) /\ at[h] # "idle") /\ WF_vars(Granted(h))
    /\ \A h \in Creates : WF_vars(Writes(h))
    /\ SF_vars(BeginAnalysis) /\ WF_vars(EndAnalysis)
    /\ WF_vars(CommandEnds) /\ WF_vars(Drained)

FairSpec == Spec /\ Fairness

-----------------------------------------------------------------------------
DaemonTypeOK ==
    /\ at \in [Handlers -> Points]
    /\ template \in Contents \union {NoTemplate, Truncated}
    /\ write \in [Creates -> {"none", "open", "fill", "done"}]
    /\ rows \subseteq Creates
    /\ bound \in [Versions -> Contents \union {NoContent}]
    /\ current \in [version : Versions, hash : Contents] \union {NoPointer}
    /\ worker \in {"idle", "claimed", "busy"}
    /\ outside \in {"free", "shared", "exclusive"}
    /\ commands \in 0..MaxCommands
    /\ daemon \in {"up", "closing", "down"}
    /\ crashes \in 0..MaxCrashes
    /\ overlapped \subseteq Creates
    /\ meddled \in BOOLEAN

\* Every thread waits for the lock, behind an enqueue that needs a thread to
\* release it.
Standstill ==
    /\ Cardinality(Blocked) >= Threads
    /\ Blocked \subseteq Creates
    /\ Holders # {}

\* Requests are answered, or the daemon stands still: as many creates as it has
\* threads wait for an enqueue.  Nothing else blocks a request for good, be it
\* the connection pool, other processes or the worker's analyses.
RequestsAnswered == InFlight # {} ~> (InFlight = {} \/ Standstill)

\* A standstill stays: no step of the daemon or of another process ends it,
\* Ctrl-C included, until the process is killed.
StandstillIsForever == [][Standstill => Standstill' \/ crashes' > crashes]_vars

\* Ctrl-C ends the process, unless it stands still.
ShutdownDrains == daemon = "closing" ~> (daemon = "down" \/ Standstill)

\* A project in the database has an active version, so that enqueues find one,
\* whatever creates overlapped, failed or were cut off.
ProjectHasRegistry ==
    /\ rows # {} => current # NoPointer
    /\ \A h \in Enqueues : at[h] \in {"flock", "begin", "commit"} => current # NoPointer

\* A create of an untouched root is refused only because another create has
\* its template truncated, or because a crash has left it so.
LoneCreateSucceeds ==
    \A h \in Creates : at[h] = "refused" => h \in overlapped \/ crashes > 0 \/ meddled

\* What POST /projects leaves is a project that enqueues can use.
ProjectsAreUsable == ProjectHasRegistry /\ LoneCreateSucceeds
=============================================================================
