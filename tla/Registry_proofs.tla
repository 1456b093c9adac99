--------------------------- MODULE Registry_proofs ---------------------------
(***************************************************************************)
(* Proofs about Registry: the lock discipline of the commands, what holds  *)
(* of active.json and index.json between and after broken commands, and    *)
(* that index.json by itself implements VersionLog.                        *)
(***************************************************************************)
EXTENDS Registry, TLAPS

-----------------------------------------------------------------------------
(* The inductive invariant.                                                *)

\* An exclusive lock excludes every other lock.
LockInv ==
    \A x, y \in Clients : lock[x] = "exclusive" /\ x # y => lock[y] = "free"

Writing == {"write", "index", "read", "active", "log"}

\* A command is past "lock" exactly while it holds its lock.
HoldInv ==
    \A o \in Operators :
       /\ at[o] \in Writing => lock[o] = "exclusive"
       /\ at[o] \in {"seeActive", "seeIndex"} => lock[o] = "shared"

\* The arguments a command needs at each point, and how far it has got.
JobInv ==
    \A o \in Operators :
       /\ at[o] = "lock" /\ job[o].kind # "status" => job[o].version \in Versions
       /\ at[o] \in Writing => job[o].version \in Versions
       /\ at[o] = "lock" /\ job[o].kind \in {"add", "init"} => job[o].content \in Contents
       /\ at[o] \in {"write", "index", "active", "log"} => job[o].content \in Contents
       /\ at[o] \in {"active", "log"} => AdmitsHash(job[o].version, job[o].content)
       /\ at[o] = "log" => active = [version |-> job[o].version, hash |-> job[o].content]

RInv ==
    /\ RegistryTypeOK /\ LockInv /\ HoldInv /\ JobInv
    /\ ActiveIsLogged /\ ActiveIsIndexed /\ StatusIsConsistent

-----------------------------------------------------------------------------
LEMMA NoJobIsJob == NoJob \in Jobs
  BY DEF NoJob, Jobs, Kinds

LEMMA InitRInv == RegistryInit => RInv
  <1> SUFFICES ASSUME RegistryInit PROVE RInv
    OBVIOUS
  <1> USE DEF RegistryInit
  <1>1. RegistryTypeOK
    BY NoJobIsJob DEF RegistryTypeOK, Points
  <1>2. LockInv /\ HoldInv /\ JobInv
    BY DEF LockInv, HoldInv, JobInv, Writing
  <1>3. ActiveIsLogged /\ ActiveIsIndexed /\ StatusIsConsistent
    BY DEF ActiveIsLogged, ActiveIsIndexed, StatusIsConsistent
  <1> QED BY <1>1, <1>2, <1>3 DEF RInv

\* Two commands that both hold a lock are readers, or the same command.
LEMMA OneWriter ==
    ASSUME RInv, NEW o \in Operators, at[o] \in Writing
    PROVE  \A p \in Operators : p # o => at[p] \in {"idle", "lock"}
  BY RegistryAssumption DEF RInv, LockInv, HoldInv, RegistryTypeOK, Points, Writing

\* Steps that only start, lock, or move a command, or that end it early: they
\* write no registry file.
LEMMA QuietStep ==
    ASSUME RInv, NEW o \in Operators,
           \/ Begin(o) \/ LockExclusive(o) \/ LockShared(o) \/ RejectSource(o)
           \/ RefuseVersion(o) \/ SeeActive(o) \/ SeeIndex(o) \/ Break(o)
    PROVE  RInv'
  <1> USE RegistryAssumption DEF RInv, registryFiles, MoveTo, Return, Take, Unlock
  <1>1. CASE Begin(o)
    <2> USE <1>1 DEF Begin
    <2>0. PICK new \in Jobs :
             /\ job' = [job EXCEPT ![o] = new]
             /\ new.kind # "status" => new.version \in Versions
             /\ new.kind \in {"add", "init"} => new.content \in Contents
      <3>1. ASSUME NEW kind \in {"add", "init"}, NEW v \in Versions, NEW c \in Contents
            PROVE  [kind |-> kind, version |-> v, content |-> c] \in Jobs
        BY DEF Jobs, Kinds
      <3>2. ASSUME NEW v \in Versions
            PROVE  /\ [NoJob EXCEPT !.kind = "activate", !.version = v] \in Jobs
                   /\ [NoJob EXCEPT !.kind = "activate", !.version = v].version = v
                   /\ [NoJob EXCEPT !.kind = "activate", !.version = v].kind = "activate"
        BY DEF Jobs, Kinds, NoJob
      <3>3. NoJob.kind = "status"
        BY DEF NoJob
      <3>4. CASE \E kind \in Commands \intersect {"add", "init"}, v \in Versions, c \in Contents :
                    job' = [job EXCEPT ![o] = [kind |-> kind, version |-> v, content |-> c]]
        BY <3>1, <3>4, ZenonT(30)
      <3>5. CASE \E v \in Versions :
                    job' = [job EXCEPT ![o] = [NoJob EXCEPT !.kind = "activate", !.version = v]]
        <4>1. PICK v \in Versions :
                 job' = [job EXCEPT ![o] = [NoJob EXCEPT !.kind = "activate", !.version = v]]
          BY <3>5
        <4>2. PICK new \in Jobs : /\ new = [NoJob EXCEPT !.kind = "activate", !.version = v]
                                  /\ new.version = v /\ new.kind = "activate"
          BY <3>2
        <4> QED BY <4>1, <4>2
      <3>6. CASE job' = [job EXCEPT ![o] = NoJob]
        BY <3>3, <3>6, NoJobIsJob
      <3> QED BY <3>4, <3>5, <3>6
    <2>1. RegistryTypeOK'
      BY <2>0 DEF RegistryTypeOK, Points
    <2>2. LockInv' /\ HoldInv'
      BY DEF RegistryTypeOK, LockInv, HoldInv, Writing
    <2>3. JobInv'
      BY <2>0 DEF RegistryTypeOK, JobInv, Writing, AdmitsHash
    <2>4. ActiveIsLogged' /\ ActiveIsIndexed' /\ StatusIsConsistent'
      BY DEF RegistryTypeOK, ActiveIsLogged, ActiveIsIndexed, StatusIsConsistent, Activating
    <2> QED BY <2>1, <2>2, <2>3, <2>4
  <1>2. CASE LockExclusive(o)
    <2> USE <1>2 DEF LockExclusive, LockFree
    <2>1. RegistryTypeOK'
      BY DEF RegistryTypeOK, Points
    <2>2. LockInv' /\ HoldInv'
      BY DEF RegistryTypeOK, LockInv, HoldInv, Writing
    <2>3. JobInv'
      BY DEF RegistryTypeOK, JobInv, Writing, AdmitsHash, Jobs, Kinds
    <2>4. ActiveIsLogged' /\ ActiveIsIndexed' /\ StatusIsConsistent'
      BY DEF RegistryTypeOK, ActiveIsLogged, ActiveIsIndexed, StatusIsConsistent, Activating
    <2> QED BY <2>1, <2>2, <2>3, <2>4
  <1>3. CASE LockShared(o)
    <2> USE <1>3 DEF LockShared, NoWriter
    <2>1. RegistryTypeOK'
      BY DEF RegistryTypeOK, Points
    <2>2. LockInv' /\ HoldInv'
      BY DEF RegistryTypeOK, LockInv, HoldInv, Writing
    <2>3. JobInv'
      BY DEF RegistryTypeOK, JobInv, Writing, AdmitsHash
    <2>4. ActiveIsLogged' /\ ActiveIsIndexed' /\ StatusIsConsistent'
      BY DEF RegistryTypeOK, ActiveIsLogged, ActiveIsIndexed, StatusIsConsistent, Activating
    <2> QED BY <2>1, <2>2, <2>3, <2>4
  <1>4. CASE RejectSource(o) \/ RefuseVersion(o) \/ SeeIndex(o)
    <2> USE <1>4 DEF RejectSource, RefuseVersion, SeeIndex
    <2>1. RegistryTypeOK'
      BY NoJobIsJob DEF RegistryTypeOK, Points
    <2>2. LockInv' /\ HoldInv'
      BY DEF RegistryTypeOK, LockInv, HoldInv, Writing
    <2>3. JobInv'
      BY DEF RegistryTypeOK, JobInv, Writing, AdmitsHash
    <2>4. ActiveIsLogged' /\ ActiveIsIndexed' /\ StatusIsConsistent'
      BY DEF RegistryTypeOK, ActiveIsLogged, ActiveIsIndexed, StatusIsConsistent, Activating
    <2> QED BY <2>1, <2>2, <2>3, <2>4
  <1>5. CASE SeeActive(o)
    <2> USE <1>5 DEF SeeActive
    <2>1. RegistryTypeOK'
      BY DEF RegistryTypeOK, Points
    <2>2. LockInv' /\ HoldInv'
      BY DEF RegistryTypeOK, LockInv, HoldInv, Writing
    <2>3. JobInv'
      BY DEF RegistryTypeOK, JobInv, Writing, AdmitsHash
    <2>4. ~Activating
      BY DEF Activating, HoldInv, LockInv, Writing
    <2>5. ActiveIsLogged' /\ ActiveIsIndexed' /\ StatusIsConsistent'
      BY <2>4 DEF RegistryTypeOK, ActiveIsLogged, ActiveIsIndexed, StatusIsConsistent, Activating
    <2> QED BY <2>1, <2>2, <2>3, <2>5
  <1>6. CASE Break(o)
    <2> USE <1>6 DEF Break
    <2>1. RegistryTypeOK'
      BY NoJobIsJob DEF RegistryTypeOK, Points
    <2>2. LockInv' /\ HoldInv'
      BY DEF RegistryTypeOK, LockInv, HoldInv, Writing
    <2>3. JobInv'
      BY DEF RegistryTypeOK, JobInv, Writing, AdmitsHash
    <2>4. ActiveIsLogged' /\ ActiveIsIndexed' /\ StatusIsConsistent'
      BY DEF RegistryTypeOK, ActiveIsLogged, ActiveIsIndexed, StatusIsConsistent, Activating
    <2> QED BY <2>1, <2>2, <2>3, <2>4
  <1> QED BY <1>1, <1>2, <1>3, <1>4, <1>5, <1>6

\* Steps that write a registry file or pass on what they have read of one.
LEMMA WritingStep ==
    ASSUME RInv, NEW o \in Operators,
           \/ WriteVersion(o) \/ IndexVersion(o) \/ ReadVersion(o)
           \/ WriteActive(o) \/ LogActivation(o)
    PROVE  RInv'
  <1> USE RegistryAssumption DEF RInv, registryFiles, MoveTo, Return, Take, Unlock
  <1>0. /\ at[o] \in Writing
        /\ job[o].version \in Versions /\ job[o] \in Jobs
        /\ \A p \in Operators : p # o => at[p] \in {"idle", "lock"}
    BY OneWriter DEF WriteVersion, IndexVersion, ReadVersion, WriteActive, LogActivation,
                     Writing, JobInv, RegistryTypeOK
  <1>1. CASE WriteVersion(o)
    <2> USE <1>1 DEF WriteVersion
    <2>1. RegistryTypeOK'
      BY <1>0 DEF RegistryTypeOK, Points, JobInv
    <2>2. LockInv' /\ HoldInv' /\ JobInv'
      BY DEF RegistryTypeOK, LockInv, HoldInv, JobInv, Writing, AdmitsHash
    <2>3. ActiveIsLogged' /\ ActiveIsIndexed' /\ StatusIsConsistent'
      BY DEF RegistryTypeOK, ActiveIsLogged, ActiveIsIndexed, StatusIsConsistent, Activating
    <2> QED BY <2>1, <2>2, <2>3
  <1>2. CASE IndexVersion(o)
    <2> USE <1>2 DEF IndexVersion
    <2>0. job[o].content \in Contents
      BY DEF JobInv
    <2>1. RegistryTypeOK'
      BY <1>0, <2>0, NoJobIsJob DEF RegistryTypeOK, Points
    <2>2. LockInv' /\ HoldInv'
      BY DEF RegistryTypeOK, LockInv, HoldInv, Writing
    <2>3. JobInv'
      BY <1>0, <2>0 DEF RegistryTypeOK, JobInv, Writing, AdmitsHash
    <2>4. active # NoPointer => active.version \in Versions /\ active.hash \in Contents
      BY DEF RegistryTypeOK, Pointers
    <2>5. ActiveIsLogged' /\ StatusIsConsistent'
      BY DEF RegistryTypeOK, ActiveIsLogged, StatusIsConsistent, Activating
    <2>6. ActiveIsIndexed'
      BY <1>0, <2>4 DEF RegistryTypeOK, ActiveIsIndexed, AdmitsHash, Activating
    <2> QED BY <2>1, <2>2, <2>3, <2>5, <2>6
  <1>3. CASE ReadVersion(o)
    <2> USE <1>3 DEF ReadVersion
    <2>0. ASSUME file[job[o].version] # NoContent
          PROVE  [job[o] EXCEPT !.content = file[job[o].version]] \in Jobs
      BY <1>0, <2>0 DEF RegistryTypeOK, Jobs
    <2>1. RegistryTypeOK'
      BY <1>0, <2>0, NoJobIsJob DEF RegistryTypeOK, Points
    <2>2. LockInv' /\ HoldInv'
      BY DEF RegistryTypeOK, LockInv, HoldInv, Writing
    <2>3. JobInv'
      BY <1>0 DEF RegistryTypeOK, JobInv, Writing, AdmitsHash, Jobs
    <2>4. ActiveIsLogged' /\ ActiveIsIndexed' /\ StatusIsConsistent'
      BY DEF RegistryTypeOK, ActiveIsLogged, ActiveIsIndexed, StatusIsConsistent, Activating
    <2> QED BY <2>1, <2>2, <2>3, <2>4
  <1>4. CASE WriteActive(o)
    <2> USE <1>4 DEF WriteActive
    <2>0. job[o].content \in Contents
      BY DEF JobInv
    <2>1. RegistryTypeOK'
      BY <1>0, <2>0 DEF RegistryTypeOK, Points, Pointers
    <2>2. LockInv' /\ HoldInv'
      BY DEF RegistryTypeOK, LockInv, HoldInv, Writing
    <2>3. JobInv'
      BY <1>0 DEF RegistryTypeOK, JobInv, Writing, AdmitsHash
    <2>4. Activating'
      BY DEF RegistryTypeOK, Activating
    <2>5. ActiveIsLogged' /\ ActiveIsIndexed' /\ StatusIsConsistent'
      BY <1>0, <2>4 DEF RegistryTypeOK, ActiveIsLogged, ActiveIsIndexed, StatusIsConsistent
    <2> QED BY <2>1, <2>2, <2>3, <2>5
  <1>5. CASE LogActivation(o)
    <2> USE <1>5 DEF LogActivation
    <2>0. job[o].content \in Contents /\ active = [version |-> job[o].version, hash |-> job[o].content]
      BY DEF JobInv
    <2>1. RegistryTypeOK'
      BY <1>0, <2>0, NoJobIsJob DEF RegistryTypeOK, Points, Pointers
    <2>2. LockInv' /\ HoldInv'
      BY DEF RegistryTypeOK, LockInv, HoldInv, Writing
    <2>3. JobInv'
      BY <1>0 DEF RegistryTypeOK, JobInv, Writing, AdmitsHash
    <2>4. ActiveIsLogged' /\ ActiveIsIndexed'
      BY <1>0, <2>0 DEF RegistryTypeOK, ActiveIsLogged, ActiveIsIndexed
    <2>5. StatusIsConsistent'
      BY <1>0 DEF RegistryTypeOK, StatusIsConsistent
    <2> QED BY <2>1, <2>2, <2>3, <2>4, <2>5
  <1> QED BY <1>1, <1>2, <1>3, <1>4, <1>5

LEMMA StutterRInv ==
    ASSUME RInv, UNCHANGED registryVars
    PROVE  RInv'
  BY DEF RInv, registryVars, RegistryTypeOK, LockInv, HoldInv, JobInv, ActiveIsLogged,
         ActiveIsIndexed, StatusIsConsistent, Activating, AdmitsHash

LEMMA StepRInv == RInv /\ [RegistryNext]_registryVars => RInv'
  BY QuietStep, WritingStep, StutterRInv DEF RegistryNext, OperatorStep

\* Commands interleave only as the lock of policy_registry.rs lets them.
THEOREM RegistryInvariant == RegistrySpec => []RInv
  BY InitRInv, StepRInv, PTL DEF RegistrySpec

-----------------------------------------------------------------------------
(* The safety properties the run checks, for every instance.               *)

\* Every registry file, lock and command keeps its type.
THEOREM RegistryTypeCorrect == RegistrySpec => []RegistryTypeOK
  BY RegistryInvariant, PTL DEF RInv

\* active.json and the history in index.json part only where a command broke.
THEOREM ActivationIsLogged == RegistrySpec => []ActiveIsLogged
  BY RegistryInvariant, PTL DEF RInv

\* The activated hash is the registered one, whatever adds were refused.
THEOREM ActivationIsIndexed == RegistrySpec => []ActiveIsIndexed
  BY RegistryInvariant, PTL DEF RInv

\* The activation in force is the history's last and registered with its hash.
THEOREM ActivationIsRegistered == RegistrySpec => []ActiveIsRegistered
  BY ActivationIsLogged, ActivationIsIndexed, PTL DEF ActiveIsRegistered

\* status reads both files of one registry state.
THEOREM StatusReadsOneRegistry == RegistrySpec => []StatusIsConsistent
  BY RegistryInvariant, PTL DEF RInv

-----------------------------------------------------------------------------
(* Registry implements VersionLog.                                         *)

\* Indexing a new version is a Register, the last write of an activation an
\* Activate; no other step of any command touches index.json.
THEOREM RegistryRefinement == RegistrySpec => ImplementsVersionLog
  <1>1. RegistryInit => Promised!LogInit
    BY DEF RegistryInit, Promised!LogInit
  <1>2. ASSUME RInv, [RegistryNext]_registryVars
        PROVE  [Promised!LogNext]_(Promised!logVars)
    <2> USE <1>2 DEF Promised!logVars
    <2>1. CASE UNCHANGED registryVars
      BY <2>1 DEF registryVars
    <2>2. ASSUME NEW o \in Operators,
                 \/ Begin(o) \/ LockExclusive(o) \/ LockShared(o) \/ RejectSource(o)
                 \/ RefuseVersion(o) \/ SeeActive(o) \/ SeeIndex(o) \/ Break(o)
                 \/ WriteVersion(o) \/ ReadVersion(o) \/ WriteActive(o)
          PROVE  UNCHANGED <<index, logged>>
      BY <2>2 DEF Begin, LockExclusive, LockShared, RejectSource, RefuseVersion, SeeActive,
                  SeeIndex, Break, WriteVersion, ReadVersion, WriteActive, registryFiles
    <2>3. ASSUME NEW o \in Operators, IndexVersion(o)
          PROVE  [Promised!LogNext]_(Promised!logVars)
      <3>1. job[o].version \in Versions /\ job[o].content \in Contents
        BY <2>3 DEF IndexVersion, RInv, JobInv, Writing
      <3>2. CASE index[job[o].version] = NoContent
        BY <2>3, <3>1, <3>2 DEF IndexVersion, Promised!LogNext, Promised!Register
      <3>3. CASE index[job[o].version] = job[o].content
        BY <2>3, <3>1, <3>3 DEF IndexVersion, RInv, RegistryTypeOK
      <3> QED BY <2>3, <3>2, <3>3 DEF IndexVersion, AdmitsHash
    <2>4. ASSUME NEW o \in Operators, LogActivation(o)
          PROVE  Promised!LogNext
      <3>1. job[o].version \in Versions /\ job[o].content \in Contents
        BY <2>4 DEF LogActivation, RInv, JobInv, Writing
      <3>2. AdmitsHash(job[o].version, job[o].content)
        BY <2>4 DEF LogActivation, RInv, JobInv
      <3> QED
        BY <2>4, <3>1, <3>2 DEF LogActivation, AdmitsHash, Promised!LogNext, Promised!Activate
    <2> QED
      BY <2>1, <2>2, <2>3, <2>4 DEF RegistryNext, OperatorStep
  <1> QED
    BY <1>1, <1>2, RegistryInvariant, PTL DEF RegistrySpec, ImplementsVersionLog, Promised!LogSpec
=============================================================================
