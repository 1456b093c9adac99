------------------------------- MODULE Ingest -------------------------------
(***************************************************************************)
(* Enqueueing an asset (ingest.rs) and granting a canary budget            *)
(* (set_canary_budget in policy_registry.rs), on top of the registry of    *)
(* one project.                                                            *)
(*                                                                         *)
(* A request registers its audio once per content hash, takes the registry *)
(* lock shared, reads the active pointer, consumes one unit of canary      *)
(* budget and inserts its run in one transaction, and then, still under    *)
(* the lock, projects the canary row to a JSON file.  A granter is a CLI   *)
(* process that replaces the canary row under the exclusive lock.          *)
(***************************************************************************)
EXTENDS Registry, Naturals, FiniteSets

CONSTANTS Requests,    \* enqueue requests, all served by one daemon process
          Granters,    \* `constitution canary` processes
          Audio,       \* content hashes of source files
          Budgets,     \* budgets a granter may set
          MaxGrants,   \* bound on canary grants
          MaxFaults,   \* bound on daemon crashes and failing projection writes
          NoRequest, NoRow, NoFile, Torn

ASSUME IngestAssumption ==
    /\ Requests \union Granters \subseteq Clients
    /\ Requests \intersect Granters = {}
    /\ Operators \intersect (Requests \union Granters) = {}
    /\ NoRequest \notin Requests
    /\ IsFiniteSet(Requests)
    /\ Budgets \subseteq Nat
    /\ NoRow \notin [version : Versions, left : Nat, grant : Nat, budget : Nat]
                      \union [version : Versions, grant : Nat]
    /\ {NoFile, Torn} \intersect [left : Nat, grant : Nat] = {} /\ NoFile # Torn
    /\ MaxGrants \in Nat /\ MaxFaults \in Nat

VARIABLES
    step,        \* step[x]: where request or granter x stands
    audio,       \* audio[q]: the content hash of the file of q
    asset,       \* asset[a]: the request whose asset row holds hash a
    copies,      \* requests whose internal copy is materialized
    pointer,     \* pointer[q]: the active version q has read
    writer,      \* the request whose transaction holds SQLite's write lock
    canary,      \* the policy_canary_state row, or NoRow
    grants,      \* grants so far; a grant's number stands for its started_at
    run,         \* run[q]: version and grant its analysis_runs row pins, or NoRow
    fetched,     \* fetched[q]: the canary row q is going to project
    projection,  \* projection[v]: canary/<v>/canary_state.json
    tmp,         \* tmp[v]: the daemon's temporary file next to it
    handle,      \* handle[q]: where the file q has opened for writing is now
    faults

assetVars == <<audio, asset, copies>>
localVars == <<pointer, fetched>>
dbVars == <<writer, canary, grants, run>>
fileVars == <<projection, tmp, handle>>
ingestVars == <<step, assetVars, localVars, dbVars, fileVars, faults>>
vars == <<registryVars, ingestVars>>

RequestPoints == {"idle", "copy", "insert", "lock", "pointer", "consume", "commit",
                  "fetch", "open", "write", "rename", "done", "failed"}
GranterPoints == {"idle", "lock", "upsert", "project"}

\* The grant number of a run that pins the active version.
ByPointer == 0

\* A row that a former life of the project directory left in the database: the
\* registry files it names are gone.
LeftoverRow(v) == [version |-> v, left |-> 1, grant |-> 1, budget |-> 1]

Init ==
    /\ RegistryInit
    /\ step = [x \in Requests \union Granters |-> "idle"]
    /\ audio \in [Requests -> Audio]
    /\ asset = [a \in Audio |-> NoRequest]
    /\ copies = {}
    /\ pointer = [q \in Requests |-> NoVersion]
    /\ writer = NoRequest
    /\ \/ canary = NoRow /\ grants = 0
       \/ \E v \in Versions : canary = LeftoverRow(v) /\ grants = 1
    /\ run = [q \in Requests |-> NoRow]
    /\ fetched = [q \in Requests |-> NoRow]
    /\ projection = [v \in Versions |-> NoFile]
    /\ tmp = [v \in Versions |-> NoFile]
    /\ handle = [q \in Requests |-> "none"]
    /\ faults = 0

Advance(x, from, to) == step[x] = from /\ step' = [step EXCEPT ![x] = to]

\* The request is answered: its locals and its lock guard are dropped.
Answer(q) ==
    /\ Unlock(q)
    /\ pointer' = [pointer EXCEPT ![q] = NoVersion]
    /\ fetched' = [fetched EXCEPT ![q] = NoRow]

\* What no request and no granter touches.
RegistryKept == UNCHANGED <<registryFiles, operatorVars, broken>>

-----------------------------------------------------------------------------
(* A request, up to the lock.                                              *)

\* Faulty: a new asset is inserted before its copy is made.
FindAssetSkipsCopy(q) ==
    /\ Advance(q, "idle", IF asset[audio[q]] = NoRequest THEN "insert" ELSE "lock")
    /\ RegistryKept /\ UNCHANGED <<lock, assetVars, localVars, dbVars, fileVars, faults>>

FindAsset(q) ==
    /\ Advance(q, "idle", IF asset[audio[q]] = NoRequest THEN "copy" ELSE "lock")
    /\ RegistryKept /\ UNCHANGED <<lock, assetVars, localVars, dbVars, fileVars, faults>>

CopySource(q) ==
    /\ Advance(q, "copy", "insert")
    /\ copies' = copies \union {q}
    /\ RegistryKept /\ UNCHANGED <<lock, audio, asset, localVars, dbVars, fileVars, faults>>

\* Accepted by the unique index on project and hash.
InsertAsset(q) ==
    /\ writer = NoRequest
    /\ asset[audio[q]] = NoRequest
    /\ Advance(q, "insert", "lock")
    /\ asset' = [asset EXCEPT ![audio[q]] = q]
    /\ RegistryKept
    /\ UNCHANGED <<lock, audio, copies, localVars, dbVars, fileVars, faults>>

-----------------------------------------------------------------------------
(* A request under the shared lock.                                        *)

AcquireShared(q) ==
    /\ Advance(q, "lock", "pointer")
    /\ NoWriter
    /\ Take(q, "shared")
    /\ RegistryKept /\ UNCHANGED <<assetVars, localVars, dbVars, fileVars, faults>>

\* Faulty: the guard lives only as long as active.json is read.
ReadPointerUnlocks(q) ==
    /\ active # NoPointer
    /\ Advance(q, "pointer", "consume")
    /\ pointer' = [pointer EXCEPT ![q] = active.version]
    /\ Unlock(q)
    /\ RegistryKept /\ UNCHANGED <<assetVars, fetched, dbVars, fileVars, faults>>

ReadPointer(q) ==
    /\ active # NoPointer
    /\ Advance(q, "pointer", "consume")
    /\ pointer' = [pointer EXCEPT ![q] = active.version]
    /\ RegistryKept
    /\ UNCHANGED <<lock, assetVars, fetched, dbVars, fileVars, faults>>

HasBudget == canary # NoRow /\ canary.left > 0

CandidateExists == file[canary.version] # NoContent

\* The transaction begins and its UPDATE takes the database's write lock; what
\* it consumes stays invisible until the commit.
ConsumeCanary(q) ==
    /\ writer = NoRequest
    /\ Advance(q, "consume", "commit")
    /\ writer' = q
    /\ RegistryKept
    /\ UNCHANGED <<lock, assetVars, localVars, canary, grants, run, fileVars, faults>>

\* Faulty: the guard is dropped with the transaction, before the projection.
CommitUnlocks(q) ==
    /\ writer = q
    /\ HasBudget /\ CandidateExists
    /\ Advance(q, "commit", "fetch")
    /\ canary' = [canary EXCEPT !.left = @ - 1]
    /\ run' = [run EXCEPT ![q] = [version |-> canary.version, grant |-> canary.grant]]
    /\ writer' = NoRequest
    /\ Unlock(q)
    /\ RegistryKept
    /\ UNCHANGED <<assetVars, localVars, grants, fileVars, faults>>

CommitCandidate(q) ==
    /\ writer = q
    /\ HasBudget /\ CandidateExists
    /\ Advance(q, "commit", "fetch")
    /\ canary' = [canary EXCEPT !.left = @ - 1]
    /\ run' = [run EXCEPT ![q] = [version |-> canary.version, grant |-> canary.grant]]
    /\ writer' = NoRequest
    /\ RegistryKept
    /\ UNCHANGED <<lock, assetVars, localVars, grants, fileVars, faults>>

CommitActive(q) ==
    /\ writer = q
    /\ ~HasBudget
    /\ Advance(q, "commit", "done")
    /\ run' = [run EXCEPT ![q] = [version |-> pointer[q], grant |-> ByPointer]]
    /\ writer' = NoRequest
    /\ Answer(q)
    /\ RegistryKept
    /\ UNCHANGED <<assetVars, canary, grants, fileVars, faults>>

\* Faulty: the error path commits the transaction.
RejectCandidateCommits(q) ==
    /\ writer = q
    /\ HasBudget /\ ~CandidateExists
    /\ Advance(q, "commit", "failed")
    /\ canary' = [canary EXCEPT !.left = @ - 1]
    /\ writer' = NoRequest
    /\ Answer(q)
    /\ RegistryKept
    /\ UNCHANGED <<assetVars, grants, run, fileVars, faults>>

\* "canary candidate constitution missing": the transaction rolls back.
RejectCandidate(q) ==
    /\ writer = q
    /\ HasBudget /\ ~CandidateExists
    /\ Advance(q, "commit", "failed")
    /\ writer' = NoRequest
    /\ Answer(q)
    /\ RegistryKept
    /\ UNCHANGED <<assetVars, canary, grants, run, fileVars, faults>>

\* Any error before the commit: a bad path, a failed copy, a lost race for the
\* asset row, no active pointer, a busy database.
Fail(q) ==
    /\ \E from \in {"idle", "copy", "insert", "lock", "pointer", "consume", "commit"} :
          Advance(q, from, "failed")
    /\ writer' = IF writer = q THEN NoRequest ELSE writer
    /\ Answer(q)
    /\ RegistryKept
    /\ UNCHANGED <<assetVars, canary, grants, run, fileVars, faults>>

-----------------------------------------------------------------------------
(* The projection, after the commit and still under the shared lock.       *)

View(row) == [left |-> row.left, grant |-> row.grant]

Fetch(q) ==
    /\ Advance(q, "fetch", "open")
    /\ fetched' = [fetched EXCEPT ![q] = canary]
    /\ RegistryKept
    /\ UNCHANGED <<lock, assetVars, pointer, dbVars, fileVars, faults>>

\* fs::write opens and truncates canary_state.json.tmp.<pid>, the same name
\* for every request of the daemon.
OpenTmp(q) ==
    /\ Advance(q, "open", "write")
    /\ tmp' = [tmp EXCEPT ![fetched[q].version] = Torn]
    /\ handle' = [handle EXCEPT ![q] = "tmp"]
    /\ RegistryKept
    /\ UNCHANGED <<lock, assetVars, localVars, dbVars, projection, faults>>

\* Faulty: a buffered writer that is not flushed before the rename.
WriteTmpUnflushed(q) ==
    /\ Advance(q, "write", "rename")
    /\ handle' = [handle EXCEPT ![q] = "none"]
    /\ RegistryKept
    /\ UNCHANGED <<lock, assetVars, localVars, dbVars, projection, tmp, faults>>

\* The bytes go to the open file, wherever another request renamed it since.
WriteTmp(q) ==
    LET v == fetched[q].version IN
    /\ Advance(q, "write", "rename")
    /\ tmp' = IF handle[q] = "tmp" THEN [tmp EXCEPT ![v] = View(fetched[q])] ELSE tmp
    /\ projection' = IF handle[q] = "projection"
                     THEN [projection EXCEPT ![v] = View(fetched[q])] ELSE projection
    /\ handle' = [handle EXCEPT ![q] = "none"]
    /\ RegistryKept
    /\ UNCHANGED <<lock, assetVars, localVars, dbVars, faults>>

\* The temporary file becomes the projection, also under the handles of the
\* other requests; when it is gone the rename fails, with a warning.
RenameTmp(q) ==
    LET v == fetched[q].version IN
    /\ Advance(q, "rename", "done")
    /\ IF tmp[v] = NoFile
       THEN UNCHANGED <<projection, tmp, handle>>
       ELSE /\ projection' = [projection EXCEPT ![v] = tmp[v]]
            /\ tmp' = [tmp EXCEPT ![v] = NoFile]
            /\ handle' = [r \in Requests |->
                             IF handle[r] = "none" \/ fetched[r].version # v THEN handle[r]
                             ELSE IF handle[r] = "tmp" THEN "projection" ELSE "gone"]
    /\ Answer(q)
    /\ RegistryKept
    /\ UNCHANGED <<assetVars, dbVars, faults>>

\* A failing read of the row or write of the projection is only a warning.
ProjectionFails(q) ==
    /\ faults < MaxFaults
    /\ \E from \in {"fetch", "open", "write", "rename"} : Advance(q, from, "done")
    /\ faults' = faults + 1
    /\ handle' = [handle EXCEPT ![q] = "none"]
    /\ Answer(q)
    /\ RegistryKept
    /\ UNCHANGED <<assetVars, dbVars, projection, tmp>>

\* The daemon dies with all its requests; SQLite rolls the open transaction
\* back, the kernel drops the locks, and the next process has another pid.
CrashDaemon ==
    LET alive == {q \in Requests : step[q] \notin {"idle", "done", "failed"}} IN
    /\ faults < MaxFaults
    /\ alive # {}
    /\ faults' = faults + 1
    /\ step' = [x \in DOMAIN step |-> IF x \in alive THEN "failed" ELSE step[x]]
    /\ lock' = [x \in Clients |-> IF x \in alive THEN "free" ELSE lock[x]]
    /\ pointer' = [q \in Requests |-> NoVersion]
    /\ fetched' = [q \in Requests |-> NoRow]
    /\ writer' = NoRequest
    /\ tmp' = [v \in Versions |-> NoFile]
    /\ handle' = [q \in Requests |-> "none"]
    /\ RegistryKept
    /\ UNCHANGED <<assetVars, canary, grants, run, projection>>

-----------------------------------------------------------------------------
(* set_canary_budget.                                                      *)

BeginGrant(g) ==
    /\ grants < MaxGrants
    /\ Advance(g, "idle", "lock")
    /\ RegistryKept /\ UNCHANGED <<lock, assetVars, localVars, dbVars, fileVars, faults>>

LockForGrant(g) ==
    /\ Advance(g, "lock", "upsert")
    /\ LockFree
    /\ Take(g, "exclusive")
    /\ RegistryKept /\ UNCHANGED <<assetVars, localVars, dbVars, fileVars, faults>>

Grant(g) ==
    /\ writer = NoRequest
    /\ Advance(g, "upsert", "project")
    /\ \E v \in Versions, n \in Budgets :
          /\ file[v] # NoContent
          /\ canary' = [version |-> v, left |-> n, grant |-> grants + 1, budget |-> n]
    /\ grants' = grants + 1
    /\ RegistryKept /\ UNCHANGED <<lock, assetVars, localVars, writer, run, fileVars, faults>>

\* Read back and projected through a temporary file of its own pid.
ProjectGrant(g) ==
    /\ Advance(g, "project", "idle")
    /\ projection' = [projection EXCEPT ![canary.version] = View(canary)]
    /\ Unlock(g)
    /\ RegistryKept /\ UNCHANGED <<assetVars, localVars, dbVars, tmp, handle, faults>>

\* No such version, an error, a failing projection, or the process dies.
EndGrant(g) ==
    /\ \E from \in {"lock", "upsert", "project"} : Advance(g, from, "idle")
    /\ Unlock(g)
    /\ RegistryKept /\ UNCHANGED <<assetVars, localVars, dbVars, fileVars, faults>>

-----------------------------------------------------------------------------
RequestStep(q) ==
    \/ FindAsset(q) \/ CopySource(q) \/ InsertAsset(q)
    \/ AcquireShared(q) \/ ReadPointer(q) \/ ConsumeCanary(q)
    \/ CommitCandidate(q) \/ CommitActive(q) \/ RejectCandidate(q) \/ Fail(q)
    \/ Fetch(q) \/ OpenTmp(q) \/ WriteTmp(q) \/ RenameTmp(q) \/ ProjectionFails(q)

GranterStep(g) ==
    BeginGrant(g) \/ LockForGrant(g) \/ Grant(g) \/ ProjectGrant(g) \/ EndGrant(g)

Next ==
    \/ RegistryNext /\ UNCHANGED ingestVars
    \/ \E q \in Requests : RequestStep(q)
    \/ \E g \in Granters : GranterStep(g)
    \/ CrashDaemon

Spec == Init /\ [][Next]_vars

-----------------------------------------------------------------------------
Rows == [version : Versions, left : Nat, grant : Nat, budget : Nat]
Pins == [version : Versions, grant : Nat]
Views == [left : Nat, grant : Nat]
Steps == RequestPoints \union GranterPoints

TypeOK ==
    /\ RegistryTypeOK
    /\ step \in [Requests \union Granters -> Steps]
    /\ audio \in [Requests -> Audio]
    /\ asset \in [Audio -> Requests \union {NoRequest}]
    /\ copies \subseteq Requests
    /\ pointer \in [Requests -> Versions \union {NoVersion}]
    /\ writer \in Requests \union {NoRequest}
    /\ canary \in Rows \union {NoRow}
    /\ grants \in Nat
    /\ run \in [Requests -> Pins \union {NoRow}]
    /\ fetched \in [Requests -> Rows \union {NoRow}]
    /\ {projection, tmp} \subseteq [Versions -> Views \union {NoFile, Torn}]
    /\ handle \in [Requests -> {"none", "tmp", "projection", "gone"}]
    /\ faults \in 0..MaxFaults

\* Runs that spent the current grant.
Spent == {q \in Requests : run[q] # NoRow /\ run[q].grant = canary.grant}

\* The budget is exact: what is left and the runs the grant pinned add up to
\* it, over concurrent requests, rollbacks, crashes and new grants.
CanaryExact == canary # NoRow => canary.left + Cardinality(Spent) = canary.budget

\* A run that pins by the active pointer pins the version that is active when
\* it commits, and only when there is no budget left to spend.
PinIsCurrent ==
    [][\A q \in Requests :
          run[q] = NoRow /\ run'[q] # NoRow /\ run'[q].grant = ByPointer =>
             run'[q].version = active.version /\ ~HasBudget]_vars

\* Every enqueued run can be resolved by the worker: its version has a file.
PinnedHasFile == \A q \in Requests : run[q] # NoRow => file[run[q].version] # NoContent

\* Every enqueued run has an asset row, whose internal copy exists, also when
\* requests race to register the same bytes.
RunHasCopy == \A q \in Requests : run[q] # NoRow => asset[audio[q]] \in copies

\* So the worker will find what an enqueued run needs.
PinsAreGood == PinnedHasFile /\ RunHasCopy

\* A stale projection of the current grant errs on one side: it never shows
\* less budget than the database has.
ProjectionOverstates ==
    \A v \in Versions :
       projection[v] \notin {NoFile, Torn} /\ canary # NoRow /\ canary.version = v
          /\ projection[v].grant = canary.grant => projection[v].left >= canary.left

\* A request still projecting an old grant never overwrites the projection of
\* a newer one: the registry lock covers the projection.
ProjectionKeepsUp ==
    [][\A v \in Versions :
          projection[v] \notin {NoFile, Torn} /\ projection'[v] \notin {NoFile, Torn} =>
             projection'[v].grant >= projection[v].grant]_vars

\* With all requests at rest, and no crash or failed write, the projection is
\* whole although the requests share one temporary file.
ProjectionWholeAtRest ==
    (\A q \in Requests : step[q] \notin {"write", "rename"}) /\ faults = 0 =>
       \A v \in Versions : projection[v] # Torn

\* Stale or not, what a reader is shown when the writers rest can be relied on.
ProjectionIsSound == ProjectionOverstates /\ ProjectionWholeAtRest

\* What write_atomic_json and its test promise: readers never see a torn file.
ProjectionIsAtomic == \A v \in Versions : projection[v] # Torn
=============================================================================
