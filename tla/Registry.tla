------------------------------ MODULE Registry ------------------------------
(***************************************************************************)
(* The constitution registry of one project root (policy_registry.rs):     *)
(* registry/constitutions/<version>.yaml, active.json, index.json, and the *)
(* flock on registry/.lock that every command takes.                       *)
(*                                                                         *)
(* An operator is a sce_cli process, or the create_project handler of the  *)
(* daemon, running one command at a time.  Every file is replaced by one   *)
(* rename, so a command is a sequence of atomic file updates, and an I/O   *)
(* error or the death of the process may end it between any two of them.   *)
(***************************************************************************)
CONSTANTS Versions,
          Contents,     \* admissible constitution files, told apart by their hash
          Operators,
          Clients,      \* everything that takes the registry lock
          Commands,     \* the kinds of command the operators give
          NoContent, NoPointer, NoVersion

ASSUME RegistryAssumption ==
    /\ NoContent \notin Contents
    /\ NoVersion \notin Versions
    /\ NoPointer \notin [version : Versions, hash : Contents]
    /\ Operators \subseteq Clients
    /\ Commands \subseteq {"add", "init", "activate", "status"}

VARIABLES
    lock,    \* lock[x]: how client x holds the flock
    file,    \* file[v]: bytes of constitutions/v.yaml
    index,   \* index[v]: hash index.json records for v
    active,  \* active.json
    logged,  \* last entry of index.json's active_history
    at,      \* at[o]: the next step of operator o's command
    job,     \* job[o]: the command's kind, version and bytes
    seen,    \* seen[o]: the active pointer a status command has read
    broken   \* history: the last command to write active.json ended before index.json

registryFiles == <<file, index, active, logged>>
operatorVars == <<at, job, seen>>
registryVars == <<lock, file, index, active, logged, at, job, seen, broken>>

Pointers == [version : Versions, hash : Contents]
Kinds == {"add", "init", "activate", "status"}
Points == {"idle", "lock", "write", "index", "read", "active", "log", "seeActive", "seeIndex"}
Jobs == [kind : Kinds, version : Versions \union {NoVersion}, content : Contents \union {NoContent}]
NoJob == [kind |-> "status", version |-> NoVersion, content |-> NoContent]

RegistryInit ==
    /\ lock = [x \in Clients |-> "free"]
    /\ file = [v \in Versions |-> NoContent]
    /\ index = [v \in Versions |-> NoContent]
    /\ active = NoPointer
    /\ logged = NoPointer
    /\ at = [o \in Operators |-> "idle"]
    /\ job = [o \in Operators |-> NoJob]
    /\ seen = [o \in Operators |-> NoPointer]
    /\ broken = FALSE

-----------------------------------------------------------------------------
(* The lock.                                                               *)

LockFree == \A x \in Clients : lock[x] = "free"
NoWriter == \A x \in Clients : lock[x] # "exclusive"

Take(x, mode) == lock' = [lock EXCEPT ![x] = mode]
Unlock(x) == Take(x, "free")

-----------------------------------------------------------------------------
(* Commands.                                                               *)

MoveTo(o, point) == at' = [at EXCEPT ![o] = point]

\* The command returns, successfully or not; the lock guard is dropped.
Return(o) ==
    /\ MoveTo(o, "idle")
    /\ job' = [job EXCEPT ![o] = NoJob]
    /\ seen' = [seen EXCEPT ![o] = NoPointer]
    /\ Unlock(o)

\* init reads SCE/constitution.yaml and add reads the file it is given; users
\* edit both, so the bytes may be any.
Begin(o) ==
    /\ at[o] = "idle"
    /\ \/ \E kind \in Commands \intersect {"add", "init"}, v \in Versions, c \in Contents :
             job' = [job EXCEPT ![o] = [kind |-> kind, version |-> v, content |-> c]]
       \/ /\ "activate" \in Commands
          /\ \E v \in Versions :
                job' = [job EXCEPT ![o] = [NoJob EXCEPT !.kind = "activate", !.version = v]]
       \/ "status" \in Commands /\ job' = [job EXCEPT ![o] = NoJob]
    /\ MoveTo(o, "lock")
    /\ UNCHANGED <<lock, registryFiles, seen, broken>>

LockExclusive(o) ==
    /\ at[o] = "lock" /\ job[o].kind # "status"
    /\ LockFree
    /\ Take(o, "exclusive")
    /\ MoveTo(o, IF job[o].kind = "activate" THEN "read" ELSE "write")
    /\ UNCHANGED <<registryFiles, job, seen, broken>>

\* Faulty: `let _ = RegistryLock::acquire(..)` drops the guard at once.
LockSharedDropped(o) ==
    /\ at[o] = "lock" /\ job[o].kind = "status"
    /\ NoWriter
    /\ MoveTo(o, "seeActive")
    /\ UNCHANGED <<lock, registryFiles, job, seen, broken>>

LockShared(o) ==
    /\ at[o] = "lock" /\ job[o].kind = "status"
    /\ NoWriter
    /\ Take(o, "shared")
    /\ MoveTo(o, "seeActive")
    /\ UNCHANGED <<registryFiles, job, seen, broken>>

\* The source is unreadable, is no constitution, or has no audio_contract.
RejectSource(o) ==
    /\ at[o] = "write"
    /\ Return(o)
    /\ UNCHANGED <<registryFiles, broken>>

WriteVersion(o) ==
    /\ at[o] = "write"
    /\ file' = [file EXCEPT ![job[o].version] = job[o].content]
    /\ MoveTo(o, "index")
    /\ UNCHANGED <<lock, index, active, logged, job, seen, broken>>

\* Faulty: a version already indexed takes the new hash.
AdmitsAnyHash(v, c) == TRUE

\* upsert_index_version: a version keeps the hash it was first indexed with.
AdmitsHash(v, c) == index[v] \in {NoContent, c}

\* The stored bytes are read back, hashed and indexed; init goes on to
\* activate the version.
IndexVersion(o) ==
    /\ at[o] = "index"
    /\ AdmitsHash(job[o].version, job[o].content)
    /\ index' = [index EXCEPT ![job[o].version] = job[o].content]
    /\ IF job[o].kind = "init"
       THEN MoveTo(o, "active") /\ UNCHANGED <<lock, job, seen>>
       ELSE Return(o)
    /\ UNCHANGED <<file, active, logged, broken>>

\* "version already exists with different hash": the command fails.
RefuseVersion(o) ==
    /\ at[o] = "index"
    /\ ~AdmitsHash(job[o].version, job[o].content)
    /\ Return(o)
    /\ UNCHANGED <<registryFiles, broken>>

\* activate hashes the version's file as it is now.
ReadVersion(o) ==
    LET v == job[o].version IN
    /\ at[o] = "read"
    /\ IF file[v] # NoContent /\ AdmitsHash(v, file[v])
       THEN /\ job' = [job EXCEPT ![o].content = file[v]]
            /\ MoveTo(o, "active")
            /\ UNCHANGED <<lock, seen>>
       ELSE Return(o)
    /\ UNCHANGED <<registryFiles, broken>>

WriteActive(o) ==
    /\ at[o] = "active"
    /\ active' = [version |-> job[o].version, hash |-> job[o].content]
    /\ MoveTo(o, "log")
    /\ UNCHANGED <<lock, file, index, logged, job, seen, broken>>

\* Faulty: active_history is pushed to an index that is not written back.
LogActivationUnsaved(o) ==
    /\ at[o] = "log"
    /\ broken' = FALSE
    /\ Return(o)
    /\ UNCHANGED registryFiles

\* index.json, with the version upserted and the activation pushed.
LogActivation(o) ==
    /\ at[o] = "log"
    /\ index' = [index EXCEPT ![job[o].version] = job[o].content]
    /\ logged' = [version |-> job[o].version, hash |-> job[o].content]
    /\ broken' = FALSE
    /\ Return(o)
    /\ UNCHANGED <<file, active>>

\* status reads active.json, then index.json.
SeeActive(o) ==
    /\ at[o] = "seeActive"
    /\ seen' = [seen EXCEPT ![o] = active]
    /\ MoveTo(o, "seeIndex")
    /\ UNCHANGED <<lock, registryFiles, job, broken>>

SeeIndex(o) ==
    /\ at[o] = "seeIndex"
    /\ Return(o)
    /\ UNCHANGED <<registryFiles, broken>>

\* An I/O error ends the command, or its process dies and the kernel drops
\* the flock.
Break(o) ==
    /\ at[o] # "idle"
    /\ Return(o)
    /\ broken' = (broken \/ at[o] = "log")
    /\ UNCHANGED registryFiles

OperatorStep(o) ==
    \/ Begin(o)
    \/ LockExclusive(o) \/ LockShared(o)
    \/ RejectSource(o) \/ WriteVersion(o) \/ IndexVersion(o) \/ RefuseVersion(o)
    \/ ReadVersion(o) \/ WriteActive(o) \/ LogActivation(o)
    \/ SeeActive(o) \/ SeeIndex(o)
    \/ Break(o)

RegistryNext == \E o \in Operators : OperatorStep(o)

RegistrySpec == RegistryInit /\ [][RegistryNext]_registryVars

-----------------------------------------------------------------------------
RegistryTypeOK ==
    /\ lock \in [Clients -> {"free", "shared", "exclusive"}]
    /\ file \in [Versions -> Contents \union {NoContent}]
    /\ index \in [Versions -> Contents \union {NoContent}]
    /\ active \in Pointers \union {NoPointer}
    /\ logged \in Pointers \union {NoPointer}
    /\ at \in [Operators -> Points]
    /\ job \in [Operators -> Jobs]
    /\ seen \in [Operators -> Pointers \union {NoPointer}]
    /\ broken \in BOOLEAN

\* An activation is under way: active.json is written, index.json is not.
Activating == \E o \in Operators : at[o] = "log"

\* active.json is the last activation index.json knows of, unless a command
\* broke off between the two files; the next activation repairs it.
ActiveIsLogged == ~broken /\ ~Activating => active = logged

\* The active pointer's hash is the hash its version was registered with.
ActiveIsIndexed ==
    ~broken /\ ~Activating /\ active # NoPointer => index[active.version] = active.hash

\* Between commands the pointer is the last logged activation of a version
\* registered with that hash.
ActiveIsRegistered == ActiveIsLogged /\ ActiveIsIndexed

\* The shared lock gives status one registry: the history it is about to read
\* ends with the pointer it has read.
StatusIsConsistent ==
    \A o \in Operators : at[o] = "seeIndex" /\ ~broken => seen[o] = logged

\* index.json alone is a registry that binds each version once.
Promised == INSTANCE VersionLog WITH bound <- index, current <- logged
ImplementsVersionLog == Promised!LogSpec

\* A refused add leaves the registered bytes alone: between commands every
\* indexed version's file has the indexed hash.
FilesMatchIndex ==
    LockFree => \A v \in Versions : index[v] # NoContent => file[v] = index[v]
=============================================================================
