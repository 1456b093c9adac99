------------------------------- MODULE Resolve -------------------------------
(***************************************************************************)
(* One run from the user's file to its report and on to its translation    *)
(* matrix, while an operator changes the registry and the user saves the   *)
(* file again.                                                             *)
(*                                                                         *)
(* Enqueueing hashes the file, then materializes the internal copy, then   *)
(* pins a version (ingest.rs).  The worker resolves the pinned version and *)
(* analyses the copy (worker.rs, resolve_worker_constitution); much later  *)
(* `translation-matrix` resolves the version that the run recorded and     *)
(* decodes the copy again (translation_matrix.rs).  Neither takes the      *)
(* registry lock.                                                          *)
(***************************************************************************)
EXTENDS Registry, Naturals

CONSTANTS Takes,       \* what the user's file may hold
          LegacyPin,   \* "active", the version of rows older than the registry
          NoTake,
          MaxSaves     \* bound on the times the user saves

ASSUME ResolveAssumption ==
    /\ NoTake \notin Takes
    /\ LegacyPin \notin Versions \union {NoVersion}
    /\ MaxSaves \in Nat

VARIABLES
    dir,        \* the registry directory exists
    contract,   \* SCE/constitution.yaml of a project older than the registry, if it
                \* has one: its bytes and the version they name, if any
    original,   \* the user's file
    copy,       \* original.* in the asset's directory
    linked,     \* the copy is a hard link to the user's file
    saves,
    run,        \* the run: its stage, its pin, the hash of its asset, and what the
                \* worker has resolved and read so far
    meta,       \* the meta of its report
    matrix,     \* the same of `translation-matrix`, up to the file it writes
    rewritten,  \* history: the file of the run's version changed after it was loaded
    resaved     \* history: the user saved between hash and copy, or through the link

audioVars == <<original, copy, linked, saves, resaved>>
resolveVars == <<dir, contract, audioVars, run, meta, matrix, rewritten>>

\* What one reading of constitution and audio is made of.
Nothing == [version |-> NoVersion, hash |-> NoContent, take |-> NoTake]
NoContract == [version |-> NoVersion, hash |-> NoContent]
Stages == {"absent", "hashed", "copied", "queued", "load", "analyse", "done", "failed"}

ResolveInit ==
    /\ RegistryInit
    /\ dir = FALSE
    /\ contract \in [version : Versions \union {NoVersion}, hash : Contents] \union {NoContract}
    /\ original \in Takes
    /\ copy = NoTake /\ linked = FALSE /\ saves = 0
    /\ run = [at |-> "absent", pin |-> NoVersion, take |-> NoTake, read |-> Nothing]
    /\ meta = Nothing
    /\ matrix = [at |-> "absent", read |-> Nothing]
    /\ rewritten = FALSE /\ resaved = FALSE

-----------------------------------------------------------------------------
(* The user and the operator.                                              *)

\* An editor writes the file in place, or replaces it by a new one.
Save ==
    /\ saves < MaxSaves
    /\ saves' = saves + 1
    /\ \E t \in Takes \ {original} :
          /\ original' = t
          /\ \/ /\ copy' = IF linked THEN t ELSE copy
                /\ UNCHANGED linked
             \/ linked' = FALSE /\ UNCHANGED copy
    /\ resaved' = (resaved \/ run.at = "hashed" \/ copy' # copy)
    /\ UNCHANGED <<registryVars, dir, contract, run, meta, matrix, rewritten>>

\* RegistryLock::acquire makes the directory before it asks for the lock.
OperatorActs ==
    /\ RegistryNext
    /\ dir' = (dir \/ \E o \in Operators : at[o] = "lock")
    /\ rewritten' = (rewritten \/ \E v \in Versions : v = run.read.version /\ file'[v] # file[v])
    /\ UNCHANGED <<contract, audioVars, run, meta, matrix>>

-----------------------------------------------------------------------------
(* Enqueueing.                                                             *)

Moves(from, to) == run.at = from /\ run' = [run EXCEPT !.at = to]

HashSource ==
    /\ run.at = "absent"
    /\ run' = [run EXCEPT !.at = "hashed", !.take = original]
    /\ UNCHANGED <<registryVars, dir, contract, audioVars, meta, matrix, rewritten>>

\* A hard link where the file system allows one, a copy otherwise.
MaterializeInternalCopy ==
    /\ Moves("hashed", "copied")
    /\ copy' = original
    /\ linked' \in BOOLEAN
    /\ UNCHANGED <<registryVars, dir, contract, original, saves, resaved, meta, matrix, rewritten>>

\* Faulty: the candidate's file is not looked for.
PinUnchecked ==
    /\ run.at = "copied" /\ NoWriter /\ active # NoPointer
    /\ \E v \in Versions : run' = [run EXCEPT !.at = "queued", !.pin = v]
    /\ dir' = TRUE
    /\ UNCHANGED <<registryVars, contract, audioVars, meta, matrix, rewritten>>

\* Under the shared lock: the active version, or a canary's candidate, whose
\* file must exist.
Pin ==
    /\ run.at = "copied" /\ NoWriter /\ active # NoPointer
    /\ \E v \in {active.version} \union {w \in Versions : file[w] # NoContent} :
          run' = [run EXCEPT !.at = "queued", !.pin = v]
    /\ dir' = TRUE
    /\ UNCHANGED <<registryVars, contract, audioVars, meta, matrix, rewritten>>

\* The row was inserted before the registry existed.
PinOfOld ==
    /\ run.at = "copied" /\ ~dir
    /\ run' = [run EXCEPT !.at = "queued", !.pin = LegacyPin]
    /\ UNCHANGED <<registryVars, dir, contract, audioVars, meta, matrix, rewritten>>

-----------------------------------------------------------------------------
(* resolve_worker_constitution, which the worker and the matrix both call. *)

\* Faulty: always the version that is active now.
PointedAt(pin) == IF active = NoPointer THEN pin ELSE active.version

\* The registry's version to load; read_active_pointer comes before the file.
VersionFor(pin) == IF pin = LegacyPin THEN active.version ELSE pin

\* A reading of the pointer, or of the legacy file, or no constitution at all.
Resolved(pin) ==
    IF pin = LegacyPin /\ active = NoPointer
    THEN IF dir \/ contract = NoContract THEN {}
         ELSE {[version |-> IF contract.version = NoVersion THEN LegacyPin ELSE contract.version,
                hash |-> contract.hash, take |-> NoTake]}
    ELSE {[Nothing EXCEPT !.version = VersionFor(pin)]}

\* The file of the version as it is now, unless the legacy file has been read.
Loaded(read) ==
    IF read.hash # NoContent THEN {read}
    ELSE IF file[read.version] = NoContent THEN {}
    ELSE {[read EXCEPT !.hash = file[read.version]]}

ResolvePin ==
    /\ run.at = "queued"
    /\ IF Resolved(run.pin) = {} THEN run' = [run EXCEPT !.at = "failed"]
       ELSE \E r \in Resolved(run.pin) : run' = [run EXCEPT !.at = "load", !.read = r]
    /\ UNCHANGED <<registryVars, dir, contract, audioVars, meta, matrix, rewritten>>

LoadConstitution ==
    /\ run.at = "load"
    /\ IF Loaded(run.read) = {} THEN run' = [run EXCEPT !.at = "failed"]
       ELSE \E r \in Loaded(run.read) : run' = [run EXCEPT !.at = "analyse", !.read = r]
    /\ rewritten' = FALSE
    /\ UNCHANGED <<registryVars, dir, contract, audioVars, meta, matrix>>

AnalysedFile == copy

\* The analysis may fail; the report records the version and hash resolved and
\* the hash of the asset's row.
Report ==
    /\ run.at = "analyse"
    /\ \/ /\ run' = [run EXCEPT !.at = "done", !.read.take = AnalysedFile]
          /\ meta' = [run.read EXCEPT !.take = run.take]
       \/ run' = [run EXCEPT !.at = "failed"] /\ UNCHANGED meta
    /\ UNCHANGED <<registryVars, dir, contract, audioVars, matrix, rewritten>>

-----------------------------------------------------------------------------
(* translation-matrix.                                                     *)

\* The run's meta is read, and its one original.* is found; the version goes
\* through the same resolution.  A repeated command starts from nothing again.
ReadRun ==
    /\ matrix.at = "absent" /\ meta # Nothing
    /\ IF Resolved(meta.version) = {} THEN matrix' = [at |-> "failed", read |-> Nothing]
       ELSE \E r \in Resolved(meta.version) : matrix' = [at |-> "load", read |-> r]
    /\ UNCHANGED <<registryVars, dir, contract, audioVars, run, meta, rewritten>>

LoadAgain ==
    /\ matrix.at = "load"
    /\ IF Loaded(matrix.read) = {} THEN matrix' = [at |-> "failed", read |-> Nothing]
       ELSE \E r \in Loaded(matrix.read) : matrix' = [at |-> "decode", read |-> r]
    /\ UNCHANGED <<registryVars, dir, contract, audioVars, run, meta, rewritten>>

\* Decode, simulate, and replace the output by one rename.
WriteMatrix ==
    /\ matrix.at = "decode"
    /\ matrix' = [at |-> "done", read |-> [matrix.read EXCEPT !.take = copy]]
    /\ UNCHANGED <<registryVars, dir, contract, audioVars, run, meta, rewritten>>

ResolveNext ==
    \/ Save \/ OperatorActs
    \/ HashSource \/ MaterializeInternalCopy \/ Pin \/ PinOfOld
    \/ ResolvePin \/ LoadConstitution \/ Report
    \/ ReadRun \/ LoadAgain \/ WriteMatrix

ResolveSpec == ResolveInit /\ [][ResolveNext]_<<registryVars, resolveVars>>

-----------------------------------------------------------------------------
Pinned == run.pin \in Versions

\* A run is judged under the version it was queued with, however often the
\* active version changes while it waits, and by the audio whose hash its
\* report carries, unless the user saved in the way.
ReportIsOfThePin ==
    /\ Pinned /\ meta # Nothing => meta.version = run.pin
    /\ run.at = "done" => run.read.take = meta.take \/ resaved

\* The matrix is computed for the audio and under the constitution that its
\* run was judged by.  It compares no hash: it is right only as long as nobody
\* rewrites the version's file or saves through the link.
MatrixMatchesRun ==
    Pinned /\ matrix.at = "done" =>
       /\ matrix.read.version = meta.version
       /\ matrix.read.hash = meta.hash \/ rewritten
       /\ matrix.read.take = run.read.take \/ resaved

ResultsAreTraceable == ReportIsOfThePin /\ MatrixMatchesRun

\* The version of a run resolves.  Only a row older than the registry may not: from
\* the first time that anybody takes the registry lock, if only to look at the
\* status, until an activation.
OnlyOldRunsAreLost ==
    [][run.at \in {"queued", "load"} /\ run'.at = "failed" =>
          run.pin = LegacyPin /\ active = NoPointer /\ (dir \/ contract = NoContract)]_resolveVars
=============================================================================
