--------------------------- MODULE Resolve_proofs ---------------------------
(***************************************************************************)
(* Proofs about Resolve: however the operators' commands and the user's    *)
(* saves interleave with one run and its translation matrix, their results *)
(* can be traced to the version that was pinned and the file that was      *)
(* hashed.  The registry's part of every state keeps RInv (Registry_proofs)*)
(* since nothing but OperatorActs writes it.                               *)
(***************************************************************************)
EXTENDS Resolve, Registry_proofs

-----------------------------------------------------------------------------
(* The inductive invariant.                                                *)

Readings ==
    [version : Versions \union {NoVersion, LegacyPin},
     hash : Contents \union {NoContent}, take : Takes \union {NoTake}]

ResolveTypeOK ==
    /\ dir \in BOOLEAN
    /\ contract \in [version : Versions \union {NoVersion}, hash : Contents] \union {NoContract}
    /\ original \in Takes /\ copy \in Takes \union {NoTake}
    /\ linked \in BOOLEAN /\ saves \in 0..MaxSaves
    /\ run \in [at : Stages, pin : Versions \union {NoVersion, LegacyPin},
                take : Takes \union {NoTake}, read : Readings]
    /\ meta \in Readings
    /\ matrix \in [at : {"absent", "load", "decode", "done", "failed"}, read : Readings]
    /\ rewritten \in BOOLEAN /\ resaved \in BOOLEAN

\* No command takes a version's file away, so the version a command is to index
\* or activate, and the active version, have files.
FilesStayInv ==
    /\ \A o \in Operators : at[o] \in {"index", "active", "log"} => file[job[o].version] # NoContent
    /\ active # NoPointer => file[active.version] # NoContent

\* The version a reading has still to load has a file.
Loadable(read) ==
    read.hash # NoContent \/ (read.version \in Versions /\ file[read.version] # NoContent)

\* A pinned version is there when the worker asks for it, and is what it asks for.
PinInv ==
    /\ run.at = "queued" => run.pin \in Versions \union {LegacyPin}
    /\ run.at = "queued" /\ Pinned => file[run.pin] # NoContent
    /\ run.at = "load" => Loadable(run.read)
    /\ run.at \in {"load", "analyse", "done"} => run.read.version # NoVersion
    /\ run.at = "load" /\ Pinned => run.read.hash = NoContent
    /\ run.at \in {"load", "analyse", "done"} /\ Pinned => run.read.version = run.pin
    /\ run.at \in {"analyse", "done"} /\ Pinned /\ ~rewritten =>
          file[run.read.version] = run.read.hash

\* The copy is the file that was hashed, until the user saves in the way.
TakeInv ==
    ~resaved =>
       /\ run.at = "hashed" => original = run.take
       /\ run.at \in {"copied", "queued", "load", "analyse", "done"} => copy = run.take
       /\ run.at = "done" => run.read.take = run.take

\* The report's meta is what the worker has read, with the row's hash.
MetaInv ==
    /\ meta = IF run.at = "done" THEN [run.read EXCEPT !.take = run.take] ELSE Nothing
    /\ matrix.at # "absent" => run.at = "done"

\* The matrix resolves the version that the meta records.
MatrixInv ==
    /\ matrix.at \in {"load", "decode", "done"} /\ Pinned => matrix.read.version = meta.version
    /\ matrix.at = "load" =>
          /\ matrix.read.hash = NoContent => matrix.read.version \in Versions
          /\ Pinned => matrix.read.hash = NoContent
    /\ matrix.at \in {"decode", "done"} /\ Pinned /\ ~rewritten => matrix.read.hash = meta.hash
    /\ matrix.at = "done" /\ ~resaved => matrix.read.take = copy

ResolveInv ==
    /\ RInv /\ FilesStayInv
    /\ ResolveTypeOK /\ PinInv /\ TakeInv /\ MetaInv /\ MatrixInv

-----------------------------------------------------------------------------
(* The registry's files only grow in what they hold.                       *)

LEMMA ResolveInitInv == ResolveInit => ResolveInv
  <1> SUFFICES ASSUME ResolveInit PROVE ResolveInv
    OBVIOUS
  <1> USE DEF ResolveInit
  <1>1. RInv
    BY InitRInv
  <1>2. FilesStayInv
    BY DEF RegistryInit, FilesStayInv
  <1>3. Nothing \in Readings
    BY DEF Nothing, Readings
  <1>4. ResolveTypeOK
    <2>1. dir \in BOOLEAN /\ original \in Takes /\ copy \in Takes \union {NoTake}
          /\ linked \in BOOLEAN /\ rewritten \in BOOLEAN /\ resaved \in BOOLEAN
      OBVIOUS
    <2>2. saves \in 0..MaxSaves
      BY ResolveAssumption
    <2>3. contract \in [version : Versions \union {NoVersion}, hash : Contents] \union {NoContract}
      OBVIOUS
    <2>4. run \in [at : Stages, pin : Versions \union {NoVersion, LegacyPin},
                   take : Takes \union {NoTake}, read : Readings]
      BY <1>3 DEF Stages
    <2>5. meta \in Readings /\ matrix \in [at : {"absent", "load", "decode", "done", "failed"},
                                          read : Readings]
      BY <1>3
    <2> QED BY <2>1, <2>2, <2>3, <2>4, <2>5 DEF ResolveTypeOK
  <1>5. PinInv /\ TakeInv /\ MetaInv /\ MatrixInv
    BY DEF PinInv, TakeInv, MetaInv, MatrixInv
  <1> QED BY <1>1, <1>2, <1>4, <1>5 DEF ResolveInv

\* Only WriteVersion writes files, and it writes one with contents.
LEMMA FilesNotDropped ==
    ASSUME RInv, FilesStayInv, RegistryNext
    PROVE  /\ FilesStayInv'
           /\ \A v \in Versions : file[v] # NoContent => file'[v] # NoContent
  <1> USE RegistryAssumption DEF RInv, RegistryTypeOK, MoveTo, Return, Take, Unlock, registryFiles
  <1>0. PICK o \in Operators : OperatorStep(o)
    BY DEF RegistryNext
  <1>1. CASE WriteVersion(o)
    <2>1. /\ job[o].version \in Versions /\ job[o].content # NoContent
          /\ \A p \in Operators : p # o => at[p] \in {"idle", "lock"}
      BY <1>1, OneWriter DEF WriteVersion, Writing, JobInv
    <2>2. \A v \in Versions : file[v] # NoContent => file'[v] # NoContent
      BY <1>1, <2>1 DEF WriteVersion
    <2>3. FilesStayInv'
      BY <1>1, <2>1, <2>2 DEF WriteVersion, FilesStayInv, Pointers
    <2> QED BY <2>2, <2>3
  <1>2. CASE ReadVersion(o)
    BY <1>2 DEF ReadVersion, FilesStayInv, Jobs
  <1>3. CASE WriteActive(o)
    BY <1>3 DEF WriteActive, FilesStayInv, Pointers, JobInv, Writing
  <1>4. CASE Begin(o)
    BY <1>4 DEF Begin, FilesStayInv
  <1>5. CASE \/ LockExclusive(o) \/ LockShared(o) \/ RejectSource(o) \/ IndexVersion(o)
             \/ RefuseVersion(o) \/ LogActivation(o) \/ SeeActive(o) \/ SeeIndex(o) \/ Break(o)
    BY <1>5 DEF LockExclusive, LockShared, RejectSource, IndexVersion, RefuseVersion,
                LogActivation, SeeActive, SeeIndex, Break, FilesStayInv
  <1> QED BY <1>0, <1>1, <1>2, <1>3, <1>4, <1>5 DEF OperatorStep

\* Steps of the run, the matrix and the user leave the registry alone.
LEMMA RegistryKept ==
    ASSUME RInv, FilesStayInv, UNCHANGED registryVars
    PROVE  RInv' /\ FilesStayInv'
  BY StutterRInv DEF FilesStayInv, registryVars

LEMMA OperatorActsInv ==
    ASSUME ResolveInv, OperatorActs
    PROVE  ResolveInv'
  <1> USE DEF ResolveInv, OperatorActs, audioVars
  <1>1. RInv' /\ FilesStayInv'
    BY StepRInv, FilesNotDropped
  <1>2. ResolveTypeOK'
    BY DEF ResolveTypeOK
  <1>3. PinInv'
    <2>1. \A v \in Versions : file[v] # NoContent => file'[v] # NoContent
      BY FilesNotDropped
    <2>2. run.read.version \in Versions /\ ~rewritten' =>
             ~rewritten /\ file'[run.read.version] = file[run.read.version]
      OBVIOUS
    <2> QED BY <2>1, <2>2 DEF PinInv, Loadable, Pinned
  <1>4. TakeInv' /\ MetaInv' /\ MatrixInv'
    BY DEF TakeInv, MetaInv, MatrixInv, Pinned
  <1> QED BY <1>1, <1>2, <1>3, <1>4

-----------------------------------------------------------------------------
(* Every other step keeps the invariant.                                   *)

LEMMA SaveInv ==
    ASSUME ResolveInv, Save
    PROVE  ResolveInv'
  <1> USE DEF ResolveInv, Save
  <1>1. RInv' /\ FilesStayInv'
    BY RegistryKept
  <1>2. ResolveTypeOK'
    <2>1. saves' \in 0..MaxSaves
      BY ResolveAssumption DEF ResolveTypeOK
    <2>2. /\ original' \in Takes /\ copy' \in Takes \union {NoTake}
          /\ linked' \in BOOLEAN /\ resaved' \in BOOLEAN
      BY DEF ResolveTypeOK
    <2> QED BY <2>1, <2>2 DEF ResolveTypeOK
  <1>3. PinInv' /\ MetaInv'
    BY DEF PinInv, MetaInv, Loadable, Pinned, registryVars
  <1>4. TakeInv' /\ MatrixInv'
    BY DEF TakeInv, MatrixInv, Pinned
  <1> QED BY <1>1, <1>2, <1>3, <1>4

\* Before the run is queued, nothing has been resolved.
LEMMA EnqueueInv ==
    ASSUME ResolveInv, HashSource \/ MaterializeInternalCopy \/ Pin \/ PinOfOld
    PROVE  ResolveInv'
  <1> USE DEF ResolveInv, HashSource, MaterializeInternalCopy, Moves, Pin, PinOfOld, audioVars
  <1>1. RInv' /\ FilesStayInv'
    BY RegistryKept
  <1>2. ResolveTypeOK'
    BY ZenonT(30) DEF ResolveTypeOK, Stages, RInv, RegistryTypeOK, Pointers
  <1>3. meta = Nothing /\ matrix.at = "absent" /\ run'.at \in {"hashed", "copied", "queued"}
    BY DEF MetaInv, ResolveTypeOK
  <1>4. MetaInv' /\ MatrixInv'
    BY <1>3 DEF MetaInv, MatrixInv
  <1>5. TakeInv'
    BY DEF TakeInv, ResolveTypeOK
  <1>6. PinInv'
    <2>1. CASE run'.at # "queued"
      BY <1>3, <2>1 DEF PinInv
    <2>2. CASE run' = [run EXCEPT !.at = "queued", !.pin = LegacyPin]
      BY <2>2, ResolveAssumption DEF PinInv, Pinned, ResolveTypeOK
    <2>3. ASSUME NEW v \in {active.version} \union {w \in Versions : file[w] # NoContent},
                 run' = [run EXCEPT !.at = "queued", !.pin = v], Pin
          PROVE  PinInv'
      <3>1. v \in Versions /\ file[v] # NoContent
        BY <2>3 DEF FilesStayInv, RInv, RegistryTypeOK, Pointers
      <3>2. run'.at = "queued" /\ run'.pin = v /\ file' = file
        BY <2>3 DEF ResolveTypeOK, registryVars
      <3> QED BY <3>1, <3>2 DEF PinInv, Pinned
    <2>4. CASE Pin
      BY <2>3, <2>4
    <2>5. CASE PinOfOld
      BY <2>2, <2>5
    <2>6. CASE HashSource \/ MaterializeInternalCopy
      BY <2>1, <2>6 DEF ResolveTypeOK
    <2> QED BY <2>4, <2>5, <2>6
  <1> QED BY <1>1, <1>2, <1>4, <1>5, <1>6

\* What resolving a version gives: of a pinned one, that version, to be loaded.
LEMMA ResolvedReading ==
    ASSUME ResolveInv, NEW pin \in Versions \union {LegacyPin}, NEW r \in Resolved(pin)
    PROVE  /\ r \in Readings /\ r.version # NoVersion
           /\ r.hash = NoContent => r.version \in Versions
           /\ pin \in Versions => r = [Nothing EXCEPT !.version = pin]
           /\ pin = LegacyPin => Loadable(r)
  BY ResolveAssumption, RegistryAssumption
     DEF ResolveInv, ResolveTypeOK, FilesStayInv, RInv, RegistryTypeOK, Pointers, Resolved,
         VersionFor, Nothing, NoContract, Readings, Loadable

LEMMA LoadedReading ==
    ASSUME ResolveInv, NEW read \in Readings, NEW r \in Loaded(read),
           read.hash = NoContent => read.version \in Versions
    PROVE  /\ r \in Readings /\ r.version = read.version
           /\ read.hash = NoContent => r.hash = file[read.version]
  BY DEF ResolveInv, RInv, RegistryTypeOK, Loaded, Readings

LEMMA ResolvePinInv ==
    ASSUME ResolveInv, ResolvePin
    PROVE  ResolveInv'
  <1> USE DEF ResolveInv, ResolvePin, audioVars
  <1>0. RInv' /\ FilesStayInv'
    BY RegistryKept
  <1>1. run.pin \in Versions \union {LegacyPin} /\ meta = Nothing /\ matrix.at = "absent"
    BY DEF PinInv, MetaInv, ResolveTypeOK
  <1>2. CASE Resolved(run.pin) = {}
    BY <1>0, <1>1, <1>2 DEF ResolveTypeOK, Stages, PinInv, TakeInv, MetaInv, MatrixInv
  <1>3. ASSUME NEW r \in Resolved(run.pin), run' = [run EXCEPT !.at = "load", !.read = r]
        PROVE  ResolveInv'
    <2>1. /\ r \in Readings /\ r.version # NoVersion
          /\ run.pin \in Versions => r.version = run.pin /\ r.hash = NoContent
          /\ run.pin = LegacyPin => Loadable(r)
      <3>1. /\ r \in Readings /\ r.version # NoVersion
            /\ run.pin \in Versions => r = [Nothing EXCEPT !.version = run.pin]
            /\ run.pin = LegacyPin => Loadable(r)
        BY <1>1, <1>3, ResolvedReading
      <3>2. run.pin \in Versions => r.version = run.pin /\ r.hash = NoContent
        BY <3>1 DEF Nothing
      <3> QED BY <3>1, <3>2
    <2>2. ResolveTypeOK'
      BY <1>3, <2>1 DEF ResolveTypeOK, Stages
    <2>3. run'.at = "load" /\ run'.pin = run.pin /\ run'.read = r /\ run'.take = run.take
      BY <1>3 DEF ResolveTypeOK
    <2>4. PinInv'
      BY <1>1, <2>1, <2>3, ResolveAssumption
         DEF PinInv, Pinned, Loadable, registryVars
    <2>5. TakeInv' /\ MetaInv' /\ MatrixInv'
      BY <1>1, <2>3 DEF TakeInv, MetaInv, MatrixInv
    <2> QED BY <1>0, <2>2, <2>4, <2>5
  <1> QED BY <1>2, <1>3

LEMMA LoadConstitutionInv ==
    ASSUME ResolveInv, LoadConstitution
    PROVE  ResolveInv'
  <1> USE DEF ResolveInv, LoadConstitution, audioVars
  <1>0. RInv' /\ FilesStayInv'
    BY RegistryKept
  <1>1. meta = Nothing /\ matrix.at = "absent" /\ run.read \in Readings /\ Loadable(run.read)
    BY DEF PinInv, MetaInv, ResolveTypeOK
  <1>2. PICK r \in Loaded(run.read) : run' = [run EXCEPT !.at = "analyse", !.read = r]
    BY <1>1 DEF Loaded, Loadable
  <1>3. /\ r \in Readings /\ r.version = run.read.version
        /\ run.read.hash = NoContent => r.hash = file[run.read.version]
    BY <1>1, LoadedReading DEF Loadable
  <1>4. ResolveTypeOK'
    BY <1>2, <1>3 DEF ResolveTypeOK, Stages
  <1>5. run'.at = "analyse" /\ run'.pin = run.pin /\ run'.read = r /\ run'.take = run.take
    BY <1>2 DEF ResolveTypeOK
  <1>6. PinInv'
    BY <1>3, <1>5 DEF PinInv, Pinned, registryVars
  <1>7. TakeInv' /\ MetaInv' /\ MatrixInv'
    BY <1>1, <1>5 DEF TakeInv, MetaInv, MatrixInv
  <1> QED BY <1>0, <1>4, <1>6, <1>7

LEMMA ReportInv ==
    ASSUME ResolveInv, Report
    PROVE  ResolveInv'
  <1> USE DEF ResolveInv, Report, audioVars, AnalysedFile
  <1>0. RInv' /\ FilesStayInv'
    BY RegistryKept
  <1>1. meta = Nothing /\ matrix.at = "absent"
    BY DEF MetaInv, ResolveTypeOK
  <1>2. CASE run' = [run EXCEPT !.at = "done", !.read.take = copy]
             /\ meta' = [run.read EXCEPT !.take = run.take]
    <2>1. ResolveTypeOK'
      <3>1. /\ [run.read EXCEPT !.take = copy] \in Readings
            /\ [run.read EXCEPT !.take = run.take] \in Readings
        BY DEF ResolveTypeOK, Readings
      <3> QED BY <1>2, <3>1, ZenonT(30) DEF ResolveTypeOK, Stages
    <2>2. /\ run'.at = "done" /\ run'.pin = run.pin /\ run'.take = run.take
          /\ run'.read = [run.read EXCEPT !.take = copy]
      BY <1>2 DEF ResolveTypeOK
    <2>3. /\ run'.read.version = run.read.version /\ run'.read.hash = run.read.hash
          /\ run'.read.take = copy
          /\ meta' = [run'.read EXCEPT !.take = run'.take]
      BY <1>2, <2>2 DEF ResolveTypeOK, Readings
    <2>4. PinInv'
      BY <2>2, <2>3 DEF PinInv, Pinned, registryVars
    <2>5. TakeInv' /\ MetaInv' /\ MatrixInv'
      BY <1>1, <2>2, <2>3 DEF TakeInv, MetaInv, MatrixInv
    <2> QED BY <1>0, <2>1, <2>4, <2>5
  <1>3. CASE run' = [run EXCEPT !.at = "failed"] /\ UNCHANGED meta
    BY <1>0, <1>1, <1>3 DEF ResolveTypeOK, Stages, PinInv, TakeInv, MetaInv, MatrixInv
  <1> QED BY <1>2, <1>3

\* The matrix's steps leave the run and its report alone.
LEMMA MatrixStepInv ==
    ASSUME ResolveInv, ReadRun \/ LoadAgain \/ WriteMatrix
    PROVE  ResolveInv'
  <1> USE DEF ResolveInv, ReadRun, LoadAgain, WriteMatrix, audioVars
  <1>1. RInv' /\ FilesStayInv'
    BY RegistryKept
  <1>2. run.at = "done" /\ meta = [run.read EXCEPT !.take = run.take]
    BY DEF MetaInv, ResolveTypeOK, Nothing
  <1>3. /\ meta.version = run.read.version /\ meta.hash = run.read.hash
        /\ meta.version \in Versions \union {LegacyPin}
    BY <1>2 DEF ResolveTypeOK, Readings, PinInv
  <1>4. PinInv' /\ TakeInv' /\ MetaInv'
    BY <1>2 DEF PinInv, Loadable, Pinned, TakeInv, MetaInv, registryVars
  <1>5. CASE ReadRun
    <2>1. CASE Resolved(meta.version) = {}
      <3>1. matrix' = [at |-> "failed", read |-> Nothing] /\ Nothing \in Readings
        BY <1>5, <2>1 DEF Nothing, Readings
      <3> QED BY <1>1, <1>4, <1>5, <3>1 DEF ResolveTypeOK, MatrixInv
    <2>2. ASSUME NEW r \in Resolved(meta.version), matrix' = [at |-> "load", read |-> r]
          PROVE  ResolveInv'
      <3>1. Pinned => r.version = meta.version /\ r.hash = NoContent
        BY <1>2, <1>3, <2>2, ResolvedReading DEF PinInv, Pinned, Nothing
      <3>2. r \in Readings /\ (r.hash = NoContent => r.version \in Versions)
        BY <1>3, <2>2, ResolvedReading
      <3> QED BY <1>1, <1>4, <1>5, <2>2, <3>1, <3>2 DEF ResolveTypeOK, MatrixInv, Pinned
    <2> QED BY <1>5, <2>1, <2>2
  <1>6. CASE LoadAgain
    <2>1. CASE Loaded(matrix.read) = {}
      <3>1. matrix' = [at |-> "failed", read |-> Nothing] /\ Nothing \in Readings
        BY <1>6, <2>1 DEF Nothing, Readings
      <3> QED BY <1>1, <1>4, <1>6, <3>1 DEF ResolveTypeOK, MatrixInv
    <2>2. ASSUME NEW r \in Loaded(matrix.read), matrix' = [at |-> "decode", read |-> r]
          PROVE  ResolveInv'
      <3>1. Pinned => /\ matrix.read.version = run.pin /\ matrix.read.hash = NoContent
                      /\ meta.version = run.pin
        BY <1>2, <1>3, <1>6 DEF MatrixInv, PinInv
      <3>2. Pinned => r.version = meta.version /\ r.hash = file[run.pin]
        BY <2>2, <3>1, LoadedReading DEF Pinned, ResolveTypeOK
      <3>3. Pinned /\ ~rewritten => r.hash = meta.hash
        BY <1>2, <1>3, <3>2 DEF PinInv
      <3>4. r \in Readings
        BY <1>6, <2>2, LoadedReading DEF ResolveTypeOK, MatrixInv
      <3> QED BY <1>1, <1>4, <1>6, <2>2, <3>2, <3>3, <3>4 DEF ResolveTypeOK, MatrixInv, Pinned
    <2> QED BY <1>6, <2>1, <2>2
  <1>7. CASE WriteMatrix
    <2>1. /\ [matrix.read EXCEPT !.take = copy] \in Readings
          /\ [matrix.read EXCEPT !.take = copy].version = matrix.read.version
          /\ [matrix.read EXCEPT !.take = copy].hash = matrix.read.hash
          /\ [matrix.read EXCEPT !.take = copy].take = copy
      BY DEF ResolveTypeOK, Readings
    <2> QED BY <1>1, <1>4, <1>7, <2>1, ZenonT(30) DEF ResolveTypeOK, MatrixInv, Pinned
  <1> QED BY <1>5, <1>6, <1>7

LEMMA ResolveStepInv ==
    ResolveInv /\ [ResolveNext]_<<registryVars, resolveVars>> => ResolveInv'
  <1> SUFFICES ASSUME ResolveInv, [ResolveNext]_<<registryVars, resolveVars>> PROVE ResolveInv'
    OBVIOUS
  <1>1. CASE ResolveNext
    BY <1>1, OperatorActsInv, SaveInv, EnqueueInv, ResolvePinInv, LoadConstitutionInv,
       ReportInv, MatrixStepInv DEF ResolveNext
  <1>2. CASE UNCHANGED <<registryVars, resolveVars>>
    <2>1. RInv' /\ FilesStayInv'
      BY <1>2, RegistryKept DEF ResolveInv
    <2> QED
      BY <1>2, <2>1 DEF ResolveInv, resolveVars, audioVars, registryVars, ResolveTypeOK, PinInv,
                        Loadable, Pinned, TakeInv, MetaInv, MatrixInv
  <1> QED BY <1>1, <1>2

-----------------------------------------------------------------------------
\* Runs, users and the matrix only read the registry: next to them it behaves
\* as Registry says, so what is proved of RegistrySpec holds here too.
THEOREM RegistryIsOnlyRead == ResolveSpec => RegistrySpec
  <1>1. ResolveInit => RegistryInit
    BY DEF ResolveInit
  <1>2. [ResolveNext]_<<registryVars, resolveVars>> => [RegistryNext]_registryVars
    BY DEF ResolveNext, OperatorActs, Save, HashSource, MaterializeInternalCopy, Pin, PinOfOld,
           ResolvePin, LoadConstitution, Report, ReadRun, LoadAgain, WriteMatrix
  <1> QED BY <1>1, <1>2, PTL DEF ResolveSpec, RegistrySpec

\* The registry, the run, its report and the matrix keep their types and what
\* relates them, whatever the order of commands, saves and the worker's steps.
THEOREM ResolveInvariant == ResolveSpec => []ResolveInv
  BY ResolveInitInv, ResolveStepInv, PTL DEF ResolveSpec

\* The report is of the pinned version and the hashed file, and the matrix of
\* what its report records, unless a version's file is rewritten or the user
\* saves in the way (worker.rs, translation_matrix.rs).
THEOREM ResultsStayTraceable == ResolveSpec => []ResultsAreTraceable
  <1>1. ResolveInv => ResultsAreTraceable
    <2> SUFFICES ASSUME ResolveInv PROVE ResultsAreTraceable
      OBVIOUS
    <2> USE DEF ResolveInv
    <2>1. run.at = "done" =>
             /\ meta.version = run.read.version /\ meta.hash = run.read.hash
             /\ meta.take = run.take
      BY DEF MetaInv, ResolveTypeOK, Readings
    <2>2. ReportIsOfThePin
      BY <2>1 DEF ReportIsOfThePin, PinInv, TakeInv, MetaInv
    <2>3. MatrixMatchesRun
      BY <2>1 DEF MatrixMatchesRun, MatrixInv, TakeInv, MetaInv
    <2> QED BY <2>2, <2>3 DEF ResultsAreTraceable
  <1> QED BY <1>1, ResolveInvariant, PTL

\* The worker loses no run whose pin is a version: that file is there when it
\* is asked for.  A run older than the registry is lost only in the window
\* between the registry's directory and its first activation.
THEOREM PinnedRunsResolve == ResolveSpec => OnlyOldRunsAreLost
  <1> DEFINE Lost == run.at \in {"queued", "load"} /\ run'.at = "failed"
             OldRun == run.pin = LegacyPin /\ active = NoPointer /\ (dir \/ contract = NoContract)
  <1>1. ASSUME ResolveInv, [ResolveNext]_<<registryVars, resolveVars>>, Lost
        PROVE  OldRun
    <2>1. ResolvePin \/ LoadConstitution
      BY <1>1 DEF ResolveNext, resolveVars, audioVars, OperatorActs, Save, HashSource,
                  MaterializeInternalCopy, Moves, Pin, PinOfOld, Report, ReadRun, LoadAgain,
                  WriteMatrix
    <2>2. CASE ResolvePin
      <3>1. Resolved(run.pin) = {}
        BY <1>1, <2>2 DEF ResolvePin, ResolveInv, ResolveTypeOK
      <3> QED BY <3>1 DEF Resolved
    <2>3. CASE LoadConstitution
      <3>1. Loaded(run.read) # {}
        BY <1>1, <2>3 DEF LoadConstitution, ResolveInv, PinInv, Loadable, Loaded
      <3> QED BY <1>1, <2>3, <3>1 DEF LoadConstitution, ResolveInv, ResolveTypeOK
    <2> QED BY <2>1, <2>2, <2>3
  <1>2. ResolveInv /\ [ResolveNext]_<<registryVars, resolveVars>> => [Lost => OldRun]_resolveVars
    BY <1>1
  <1> QED BY <1>2, ResolveInvariant, PTL DEF ResolveSpec, OnlyOldRunsAreLost
=============================================================================
