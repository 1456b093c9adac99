---------------------------- MODULE Ingest_proofs ----------------------------
(***************************************************************************)
(* Theorems about Ingest for any number of requests, granters, versions,   *)
(* budgets and faults: the budget is exact, pins are current and can be    *)
(* resolved, and what the projection of a canary grant can show.           *)
(***************************************************************************)
EXTENDS Ingest, Registry_proofs, FiniteSetTheorems

-----------------------------------------------------------------------------
(* The inductive invariant, on top of RInv of Registry_proofs.             *)

\* Requests hold the lock shared from the pointer to the answer, granters
\* exclusively around the row and its projection.
UnderLock == {"pointer", "consume", "commit", "fetch", "open", "write", "rename"}
GuardInv ==
    /\ \A q \in Requests : step[q] \in UnderLock => lock[q] = "shared"
    /\ \A g \in Granters : step[g] \in {"upsert", "project"} => lock[g] = "exclusive"

\* One transaction at a time; runs of a request come with its commit; and the
\* row is the last grant's.
Committed == {"fetch", "open", "write", "rename", "done", "failed"}
CanaryInv ==
    /\ \A q \in Requests : step[q] = "commit" <=> writer = q
    /\ \A q \in Requests : run[q] # NoRow => step[q] \in Committed /\ run[q].grant <= grants
    /\ canary # NoRow => canary.grant = grants /\ grants > 0
    /\ CanaryExact

\* A command past its first file has its version's file, the active version has
\* one, and the pointer a request has read is the one in force.
PinInv ==
    /\ \A o \in Operators : at[o] \in {"index", "active", "log"} => file[job[o].version] # NoContent
    /\ active # NoPointer => file[active.version] # NoContent
    /\ \A q \in Requests : step[q] \in {"consume", "commit"} =>
                              active # NoPointer /\ pointer[q] = active.version
    /\ PinnedHasFile

\* An asset row comes after its copy, and a run after its asset row.
Registered == UnderLock \union {"lock", "done"}
CopyInv ==
    /\ \A q \in Requests : step[q] = "insert" => q \in copies
    /\ \A a \in Audio : asset[a] # NoRequest => asset[a] \in copies
    /\ \A q \in Requests : step[q] \in Registered \/ run[q] # NoRow => asset[audio[q]] # NoRequest

\* What a request projects is the row of the last grant, as it was or is.
Projecting == {"open", "write", "rename"}
FetchInv ==
    /\ \A q \in Requests : step[q] \in Projecting =>
          /\ fetched[q] \in Rows /\ canary # NoRow
          /\ fetched[q].version = canary.version
          /\ fetched[q].grant = grants /\ fetched[q].left >= canary.left
    /\ \A q \in Requests : step[q] = "fetch" => canary # NoRow
    /\ \A g \in Granters : step[g] = "project" => canary # NoRow
    /\ \A q \in Requests : handle[q] # "none" => step[q] = "write"

\* Nothing in the projection or next to it is newer than the row, or shows less
\* than it of the same grant; and what is about to be renamed is of this grant.
Sound(view, v) ==
    view \in Views => /\ view.grant <= grants
                      /\ canary # NoRow /\ canary.version = v /\ view.grant = grants
                            => view.left >= canary.left
ViewInv ==
    /\ \A v \in Versions : Sound(projection[v], v) /\ Sound(tmp[v], v)
    /\ \A q \in Requests : step[q] \in {"write", "rename"} /\ tmp[fetched[q].version] \in Views =>
          tmp[fetched[q].version].grant = grants

\* Without faults, a torn file has a request that is writing it.
Tears(q, where, v) == step[q] = "write" /\ handle[q] = where /\ fetched[q].version = v
TornInv ==
    faults = 0 => \A v \in Versions :
       /\ tmp[v] = Torn => \E q \in Requests : Tears(q, "tmp", v)
       /\ projection[v] = Torn => \E q \in Requests : Tears(q, "projection", v)

IngestInv ==
    RInv /\ TypeOK /\ GuardInv /\ CanaryInv /\ PinInv /\ CopyInv /\ FetchInv /\ ViewInv /\ TornInv

-----------------------------------------------------------------------------
(* The initial states.                                                     *)

LEMMA LeftoverIsRow ==
    ASSUME NEW v \in Versions
    PROVE  /\ LeftoverRow(v) \in Rows
           /\ LeftoverRow(v).grant = 1 /\ LeftoverRow(v).left = 1 /\ LeftoverRow(v).budget = 1
  BY DEF LeftoverRow, Rows

LEMMA InitIngest == Init => IngestInv
  <1> SUFFICES ASSUME Init PROVE IngestInv
    OBVIOUS
  <1> USE IngestAssumption DEF Init
  <1>1. RInv
    BY InitRInv
  <1>2. \/ canary = NoRow /\ grants = 0
        \/ \E v \in Versions : canary = LeftoverRow(v) /\ grants = 1
    OBVIOUS
  <1>3. TypeOK
    <2>1. canary \in Rows \union {NoRow} /\ grants \in Nat
      BY <1>2, LeftoverIsRow
    <2>2. {projection, tmp} \subseteq [Versions -> Views \union {NoFile, Torn}]
      OBVIOUS
    <2>3. step \in [Requests \union Granters -> Steps]
      BY DEF Steps, RequestPoints
    <2> QED BY <1>1, <2>1, <2>2, <2>3 DEF TypeOK, RInv
  <1>4. GuardInv
    BY DEF GuardInv, UnderLock
  <1>5. CanaryInv
    <2>1. Spent = {} /\ Cardinality(Spent) = 0
      BY FS_EmptySet DEF Spent
    <2>2. CanaryExact
      BY <1>2, <2>1, LeftoverIsRow DEF CanaryExact
    <2>3. canary # NoRow => canary.grant = grants /\ grants > 0
      BY <1>2, LeftoverIsRow
    <2> QED BY <2>2, <2>3 DEF CanaryInv, Committed
  <1>6. PinInv /\ CopyInv
    BY DEF PinInv, CopyInv, RegistryInit, PinnedHasFile, UnderLock, Registered
  <1>7. FetchInv /\ ViewInv /\ TornInv
    BY DEF FetchInv, ViewInv, TornInv, Sound, Views, Projecting
  <1> QED BY <1>1, <1>3, <1>4, <1>5, <1>6, <1>7 DEF IngestInv

-----------------------------------------------------------------------------
(* The lock.                                                               *)

\* What requests, granters and a crash of the daemon do to it.
LockMoves ==
    \/ UNCHANGED lock
    \/ \E x \in Requests \union Granters : Unlock(x)
    \/ \E q \in Requests : NoWriter /\ Take(q, "shared")
    \/ \E g \in Granters : LockFree /\ Take(g, "exclusive")
    \/ \E S \in SUBSET Requests : lock' = [x \in Clients |-> IF x \in S THEN "free" ELSE lock[x]]

LEMMA LockStep ==
    ASSUME RInv, RegistryKept, LockMoves
    PROVE  RInv'
  <1> USE IngestAssumption, RegistryAssumption DEF RInv, RegistryKept, registryFiles, operatorVars
  <1>1. /\ lock' \in [Clients -> {"free", "shared", "exclusive"}]
        /\ LockInv'
        /\ \A o \in Operators : lock'[o] = lock[o]
    <2>1. CASE \E x \in Requests \union Granters : Unlock(x)
      BY <2>1 DEF Unlock, Take, RegistryTypeOK, LockInv
    <2>2. CASE \E q \in Requests : NoWriter /\ Take(q, "shared")
      BY <2>2 DEF NoWriter, Take, RegistryTypeOK, LockInv
    <2>3. CASE \E g \in Granters : LockFree /\ Take(g, "exclusive")
      BY <2>3 DEF LockFree, Take, RegistryTypeOK, LockInv
    <2>4. CASE \E S \in SUBSET Requests : lock' = [x \in Clients |-> IF x \in S THEN "free" ELSE lock[x]]
      BY <2>4 DEF RegistryTypeOK, LockInv
    <2>5. CASE UNCHANGED lock
      BY <2>5 DEF RegistryTypeOK, LockInv
    <2> QED BY <2>1, <2>2, <2>3, <2>4, <2>5 DEF LockMoves
  <1>2. RegistryTypeOK'
    BY <1>1 DEF RegistryTypeOK
  <1>3. HoldInv' /\ JobInv'
    BY <1>1 DEF HoldInv, JobInv, AdmitsHash
  <1>4. ActiveIsLogged' /\ ActiveIsIndexed' /\ StatusIsConsistent'
    BY DEF ActiveIsLogged, ActiveIsIndexed, StatusIsConsistent, Activating
  <1> QED BY <1>1, <1>2, <1>3, <1>4

\* Operators leave the locks of others alone, and write a file only when no one
\* else holds the lock.
LEMMA OperatorKeeps ==
    ASSUME RInv, GuardInv, RegistryNext
    PROVE  /\ \A x \in Requests \union Granters : lock'[x] = lock[x]
           /\ (\E q \in Requests : step[q] \in UnderLock) => UNCHANGED <<active, file>>
  <1> USE IngestAssumption, RegistryAssumption DEF RInv, RegistryTypeOK
  <1>1. PICK o \in Operators : OperatorStep(o)
    BY DEF RegistryNext
  <1>2. ASSUME NEW x \in Requests \union Granters
        PROVE  lock'[x] = lock[x]
    BY <1>1 DEF OperatorStep, Begin, LockExclusive, LockShared, RejectSource, WriteVersion,
            IndexVersion, RefuseVersion, ReadVersion, WriteActive, LogActivation, SeeActive,
            SeeIndex, Break, Return, Unlock, Take
  <1>3. ASSUME NEW q \in Requests, step[q] \in UnderLock
        PROVE  UNCHANGED <<active, file>>
    <2>1. at[o] \notin Writing
      BY <1>3 DEF GuardInv, LockInv, HoldInv
    <2> QED BY <1>1, <2>1 DEF OperatorStep, Begin, LockExclusive, LockShared, RejectSource,
            WriteVersion, IndexVersion, RefuseVersion, ReadVersion, WriteActive, LogActivation,
            SeeActive, SeeIndex, Break, registryFiles, Writing
  <1> QED BY <1>2, <1>3

\* A step of one request or one granter takes or drops its own lock at most.
OthersKeep(x) ==
    \A y \in (Requests \union Granters) \ {x} : lock'[y] = lock[y] /\ step'[y] = step[y]

LEMMA RequestLock ==
    ASSUME IngestInv, NEW x \in Requests, RequestStep(x)
    PROVE  /\ RegistryKept /\ LockMoves /\ OthersKeep(x)
           /\ step'[x] \in UnderLock => lock'[x] = "shared"
  <1> USE IngestAssumption DEF Advance, Unlock, Take, Answer, UnderLock, OthersKeep
  <1>0. /\ step \in [Requests \union Granters -> Steps]
        /\ lock \in [Clients -> {"free", "shared", "exclusive"}]
        /\ x \in Clients
        /\ step[x] \in UnderLock => lock[x] = "shared"
    BY DEF IngestInv, TypeOK, RegistryTypeOK, GuardInv
  <1>1. CASE FindAsset(x) \/ CopySource(x) \/ InsertAsset(x) \/ ReadPointer(x)
                \/ ConsumeCanary(x) \/ CommitCandidate(x) \/ Fetch(x) \/ OpenTmp(x) \/ WriteTmp(x)
    BY <1>0, <1>1 DEF LockMoves, FindAsset, CopySource, InsertAsset, ReadPointer, ConsumeCanary,
                      CommitCandidate, Fetch, OpenTmp, WriteTmp
  <1>2. CASE AcquireShared(x)
    BY <1>0, <1>2 DEF LockMoves, AcquireShared
  <1>3. CASE CommitActive(x) \/ RejectCandidate(x) \/ Fail(x) \/ RenameTmp(x) \/ ProjectionFails(x)
    BY <1>0, <1>3 DEF LockMoves, CommitActive, RejectCandidate, Fail, RenameTmp, ProjectionFails
  <1> QED BY <1>1, <1>2, <1>3 DEF RequestStep

LEMMA GranterLock ==
    ASSUME IngestInv, NEW x \in Granters, GranterStep(x)
    PROVE  /\ RegistryKept /\ LockMoves /\ OthersKeep(x)
           /\ step'[x] \in {"upsert", "project"} => lock'[x] = "exclusive"
  <1> USE IngestAssumption DEF Advance, Unlock, Take, OthersKeep
  <1>0. /\ step \in [Requests \union Granters -> Steps]
        /\ lock \in [Clients -> {"free", "shared", "exclusive"}]
        /\ x \in Clients
        /\ step[x] \in {"upsert", "project"} => lock[x] = "exclusive"
    BY DEF IngestInv, TypeOK, RegistryTypeOK, GuardInv
  <1> QED
    BY <1>0 DEF LockMoves, GranterStep, BeginGrant, LockForGrant, Grant, ProjectGrant, EndGrant

LEMMA CrashLock ==
    ASSUME IngestInv, CrashDaemon
    PROVE  /\ RegistryKept /\ LockMoves
           /\ \A q \in Requests : step'[q] \notin UnderLock
           /\ \A g \in Granters : step'[g] = step[g] /\ lock'[g] = lock[g]
  <1> USE IngestAssumption DEF CrashDaemon, UnderLock
  <1>0. step \in [Requests \union Granters -> Steps]
    BY DEF IngestInv, TypeOK
  <1> QED BY <1>0 DEF LockMoves

LEMMA GuardStep ==
    ASSUME IngestInv, Next
    PROVE  RInv' /\ GuardInv'
  <1>0. RInv /\ GuardInv
    BY DEF IngestInv
  <1>1. CASE RegistryNext /\ UNCHANGED ingestVars
    <2>1. RInv'
      BY <1>0, <1>1, StepRInv
    <2>2. GuardInv'
      BY <1>0, <1>1, OperatorKeeps DEF GuardInv, ingestVars
    <2> QED BY <2>1, <2>2
  <1>2. ASSUME NEW q \in Requests, RequestStep(q)
        PROVE  RInv' /\ GuardInv'
    <2>1. RInv'
      BY <1>0, <1>2, RequestLock, LockStep
    <2>2. GuardInv'
      BY <1>0, <1>2, RequestLock, IngestAssumption DEF GuardInv, OthersKeep
    <2> QED BY <2>1, <2>2
  <1>4. ASSUME NEW g \in Granters, GranterStep(g)
        PROVE  RInv' /\ GuardInv'
    <2>1. RInv'
      BY <1>0, <1>4, GranterLock, LockStep
    <2>2. GuardInv'
      BY <1>0, <1>4, GranterLock, IngestAssumption DEF GuardInv, OthersKeep
    <2> QED BY <2>1, <2>2
  <1>3. CASE CrashDaemon
    <2>1. RInv'
      BY <1>0, <1>3, CrashLock, LockStep
    <2>2. GuardInv'
      BY <1>0, <1>3, CrashLock DEF GuardInv
    <2> QED BY <2>1, <2>2
  <1> QED BY <1>1, <1>2, <1>3, <1>4 DEF Next

-----------------------------------------------------------------------------
(* The types.                                                              *)

LEMMA SpentRow ==
    ASSUME NEW row \in Rows, row.left > 0
    PROVE  /\ [row EXCEPT !.left = @ - 1] \in Rows
           /\ [row EXCEPT !.left = @ - 1].left = row.left - 1
           /\ [row EXCEPT !.left = @ - 1].version = row.version
           /\ [row EXCEPT !.left = @ - 1].grant = row.grant
           /\ [row EXCEPT !.left = @ - 1].budget = row.budget
  BY DEF Rows

LEMMA ViewOfRow ==
    ASSUME NEW row \in Rows
    PROVE  /\ row.version \in Versions /\ row.left \in Nat /\ row.grant \in Nat
           /\ View(row) \in Views /\ View(row).left = row.left /\ View(row).grant = row.grant
  BY DEF Rows, Views, View

\* NoRow, NoFile and Torn are none of the values they stand in for.
LEMMA Distinct ==
    /\ NoRow \notin Rows /\ NoRow \notin Pins
    /\ NoFile \notin Views /\ Torn \notin Views /\ NoFile # Torn
  BY IngestAssumption DEF Rows, Pins, Views

\* TypeOK without the registry's part.
LocalTypes ==
    /\ step \in [Requests \union Granters -> Steps]
    /\ audio \in [Requests -> Audio]
    /\ asset \in [Audio -> Requests \union {NoRequest}]
    /\ copies \subseteq Requests
    /\ pointer \in [Requests -> Versions \union {NoVersion}]
    /\ writer \in Requests \union {NoRequest}
    /\ canary \in Rows \union {NoRow}
    /\ grants \in Nat
    /\ run \in [Requests -> Pins \union {NoRow}]
    /\ fetched \in [Requests -> Rows \union {NoRow}]
    /\ projection \in [Versions -> Views \union {NoFile, Torn}]
    /\ tmp \in [Versions -> Views \union {NoFile, Torn}]
    /\ handle \in [Requests -> {"none", "tmp", "projection", "gone"}]
    /\ faults \in 0..MaxFaults

LEMMA TypesApart == TypeOK <=> RegistryTypeOK /\ LocalTypes
  BY DEF TypeOK, LocalTypes

LEMMA RequestTypes ==
    ASSUME IngestInv, NEW q \in Requests, RequestStep(q)
    PROVE  LocalTypes'
  <1> USE IngestAssumption DEF Advance, Answer, Unlock, Take, assetVars, localVars, dbVars, fileVars
  <1>0. /\ LocalTypes /\ RegistryTypeOK
        /\ step[q] \in Projecting => fetched[q] \in Rows
    BY TypesApart DEF IngestInv, FetchInv
  <1> USE <1>0 DEF LocalTypes
  <1>a. step' \in [Requests \union Granters -> Steps]
    BY DEF RequestStep, FindAsset, CopySource, InsertAsset, AcquireShared, ReadPointer,
           ConsumeCanary, CommitCandidate, CommitActive, RejectCandidate, Fail, Fetch, OpenTmp,
           WriteTmp, RenameTmp, ProjectionFails, Steps, RequestPoints
  <1>1. CASE FindAsset(q) \/ CopySource(q) \/ InsertAsset(q) \/ AcquireShared(q)
    BY <1>1, <1>a DEF FindAsset, CopySource, InsertAsset, AcquireShared
  <1>2. CASE ReadPointer(q) \/ ConsumeCanary(q)
    BY <1>2, <1>a DEF ReadPointer, ConsumeCanary, RegistryTypeOK, Pointers
  <1>3. CASE CommitCandidate(q)
    <2>1. canary \in Rows /\ canary.left > 0
      BY <1>3 DEF CommitCandidate, HasBudget
    <2>2. canary' \in Rows
      BY <1>3, <2>1, SpentRow DEF CommitCandidate
    <2>3. [version |-> canary.version, grant |-> canary.grant] \in Pins
      BY <2>1 DEF Rows, Pins
    <2> QED BY <1>3, <1>a, <2>2, <2>3 DEF CommitCandidate
  <1>4. CASE CommitActive(q)
    <2>1. pointer[q] \in Versions
      BY <1>4 DEF CommitActive, IngestInv, PinInv, RegistryTypeOK, Pointers
    <2>2. [version |-> pointer[q], grant |-> ByPointer] \in Pins
      BY <2>1 DEF Pins, ByPointer
    <2> QED BY <1>4, <1>a, <2>2 DEF CommitActive
  <1>5. CASE RejectCandidate(q) \/ Fail(q)
    BY <1>5, <1>a DEF RejectCandidate, Fail
  <1>6. CASE Fetch(q) \/ OpenTmp(q)
    BY <1>6, <1>a DEF Fetch, OpenTmp
  <1>7. CASE WriteTmp(q)
    <2>1. View(fetched[q]) \in Views
      BY <1>7, ViewOfRow DEF WriteTmp, Projecting
    <2> QED BY <1>7, <1>a, <2>1 DEF WriteTmp
  <1>8. CASE RenameTmp(q)
    <2>1. fetched[q].version \in Versions
      BY <1>8, ViewOfRow DEF RenameTmp, Projecting
    <2> QED BY <1>8, <1>a, <2>1 DEF RenameTmp
  <1>9. CASE ProjectionFails(q)
    BY <1>9, <1>a DEF ProjectionFails
  <1> QED BY <1>1, <1>2, <1>3, <1>4, <1>5, <1>6, <1>7, <1>8, <1>9 DEF RequestStep

LEMMA TypeStep ==
    ASSUME IngestInv, Next
    PROVE  TypeOK'
  <1> USE IngestAssumption
  <1>0. LocalTypes /\ RegistryTypeOK'
    BY GuardStep, TypesApart DEF IngestInv, RInv
  <1>1. CASE RegistryNext /\ UNCHANGED ingestVars
    BY <1>0, <1>1, TypesApart DEF LocalTypes, ingestVars, assetVars, localVars, dbVars, fileVars, TypeOK
  <1>2. ASSUME NEW q \in Requests, RequestStep(q)
        PROVE  TypeOK'
    BY <1>0, <1>2, RequestTypes DEF TypeOK, LocalTypes
  <1>3. ASSUME NEW g \in Granters, GranterStep(g)
        PROVE  TypeOK'
    <2> USE <1>0, <1>3 DEF LocalTypes, TypeOK, Advance, Take, Unlock, assetVars, localVars, dbVars,
            fileVars
    <2>1. CASE BeginGrant(g) \/ LockForGrant(g) \/ EndGrant(g)
      BY <2>1 DEF BeginGrant, LockForGrant, EndGrant, Steps, GranterPoints, RequestPoints
    <2>2. CASE Grant(g)
      <3>1. PICK v \in Versions, n \in Budgets :
               canary' = [version |-> v, left |-> n, grant |-> grants + 1, budget |-> n]
        BY <2>2 DEF Grant
      <3>2. canary' \in Rows
        BY <3>1 DEF Rows
      <3> QED BY <2>2, <3>2 DEF Grant, Steps, GranterPoints
    <2>3. CASE ProjectGrant(g)
      <3>1. View(canary) \in Views
        BY <2>3, ViewOfRow DEF ProjectGrant, IngestInv, FetchInv
      <3>2. projection' \in [Versions -> Views \union {NoFile, Torn}]
        BY <2>3, <3>1 DEF ProjectGrant
      <3>3. step' \in [Requests \union Granters -> Steps]
        BY <2>3 DEF ProjectGrant, Steps, GranterPoints
      <3> HIDE DEF LocalTypes, TypeOK
      <3>4. LocalTypes'
        BY <2>3, <3>2, <3>3 DEF ProjectGrant, LocalTypes
      <3> QED BY <3>4 DEF TypeOK, LocalTypes
    <2> QED BY <2>1, <2>2, <2>3 DEF GranterStep
  <1>4. CASE CrashDaemon
    BY <1>0, <1>4 DEF LocalTypes, TypeOK, CrashDaemon, assetVars, Steps, RequestPoints
  <1> QED BY <1>1, <1>2, <1>3, <1>4 DEF Next

-----------------------------------------------------------------------------
(* The budget.                                                             *)

LEMMA SpentIsFinite ==
    ASSUME IngestInv
    PROVE  IsFiniteSet(Spent) /\ Cardinality(Spent) \in Nat
  BY IngestAssumption, FS_Subset, FS_CardinalityType DEF Spent

LEMMA QuietCanary ==
    ASSUME CanaryExact, UNCHANGED <<canary, run>>
    PROVE  CanaryExact'
  <1>1. Spent' = Spent
    BY DEF Spent
  <1> QED BY <1>1 DEF CanaryExact

LEMMA RequestCanary ==
    ASSUME IngestInv, NEW q \in Requests, RequestStep(q)
    PROVE  CanaryInv'
  <1> USE IngestAssumption DEF Advance, Answer, dbVars
  <1>0. /\ CanaryInv /\ LocalTypes /\ GuardInv
        /\ NoRow \notin Rows /\ NoRow \notin Pins
    BY TypesApart, Distinct DEF IngestInv
  <1> USE <1>0 DEF LocalTypes, CanaryInv
  <1>1. CASE \/ FindAsset(q) \/ CopySource(q) \/ InsertAsset(q) \/ AcquireShared(q) \/ ReadPointer(q)
             \/ ConsumeCanary(q) \/ RejectCandidate(q) \/ Fail(q) \/ Fetch(q) \/ OpenTmp(q)
             \/ WriteTmp(q) \/ RenameTmp(q) \/ ProjectionFails(q)
    <2> USE <1>1 DEF FindAsset, CopySource, InsertAsset, AcquireShared, ReadPointer, ConsumeCanary,
            RejectCandidate, Fail, Fetch, OpenTmp, WriteTmp, RenameTmp, ProjectionFails
    <2>1. UNCHANGED <<canary, grants, run>>
      OBVIOUS
    <2>2. CanaryExact'
      BY <2>1, QuietCanary
    <2>3. \A r \in Requests : step'[r] = "commit" <=> writer' = r
      OBVIOUS
    <2>4. \A r \in Requests : step[r] \in Committed => step'[r] \in Committed
      BY DEF Committed
    <2> QED BY <2>1, <2>2, <2>3, <2>4
  <1>2. CASE CommitCandidate(q)
    <2>1. canary \in Rows /\ canary.left > 0 /\ canary.grant = grants /\ grants > 0
      BY <1>2 DEF CommitCandidate, HasBudget
    <2>2. /\ canary' \in Rows /\ canary'.left = canary.left - 1
          /\ canary'.grant = canary.grant /\ canary'.budget = canary.budget
      BY <1>2, <2>1, SpentRow DEF CommitCandidate
    <2>3. /\ run[q] = NoRow /\ run'[q] # NoRow /\ run'[q].grant = canary.grant
          /\ \A r \in Requests \ {q} : run'[r] = run[r]
      <3>1. [version |-> canary.version, grant |-> canary.grant] \in Pins
        BY <2>1 DEF Rows, Pins
      <3> QED BY <1>2, <3>1 DEF CommitCandidate, Committed
    <2>4. Spent' = Spent \union {q} /\ q \notin Spent
      BY <2>2, <2>3 DEF Spent
    <2>5. Cardinality(Spent') = Cardinality(Spent) + 1
      BY <2>4, SpentIsFinite, FS_AddElement
    <2>6. CanaryExact'
      BY <2>1, <2>2, <2>5, SpentIsFinite DEF CanaryExact, Rows
    <2>7. \A r \in Requests : step'[r] = "commit" <=> writer' = r
      BY <1>2 DEF CommitCandidate
    <2>8. \A r \in Requests : run'[r] # NoRow => step'[r] \in Committed /\ run'[r].grant <= grants'
      BY <1>2, <2>1, <2>3 DEF CommitCandidate, Committed
    <2> QED BY <1>2, <2>1, <2>2, <2>6, <2>7, <2>8 DEF CommitCandidate
  <1>3. CASE CommitActive(q)
    <2>1. UNCHANGED <<canary, grants>>
      BY <1>3 DEF CommitActive
    <2>2. /\ run'[q].grant = 0 /\ run[q] = NoRow
          /\ \A r \in Requests \ {q} : run'[r] = run[r]
      BY <1>3 DEF CommitActive, ByPointer, Committed
    <2>3. canary # NoRow => Spent' = Spent
      BY <2>1, <2>2 DEF Spent
    <2>4. CanaryExact'
      BY <2>1, <2>3 DEF CanaryExact
    <2>5. \A r \in Requests : step'[r] = "commit" <=> writer' = r
      BY <1>3 DEF CommitActive
    <2>6. \A r \in Requests : run'[r] # NoRow => step'[r] \in Committed /\ run'[r].grant <= grants'
      BY <1>3, <2>1, <2>2 DEF CommitActive, Committed
    <2> QED BY <2>1, <2>4, <2>5, <2>6
  <1> QED BY <1>1, <1>2, <1>3 DEF RequestStep

LEMMA CanaryStep ==
    ASSUME IngestInv, Next
    PROVE  CanaryInv'
  <1> USE IngestAssumption
  <1>0. /\ CanaryInv /\ LocalTypes /\ GuardInv
        /\ NoRow \notin Rows /\ NoRow \notin Pins
    BY TypesApart, Distinct DEF IngestInv
  <1>1. CASE RegistryNext /\ UNCHANGED ingestVars
    BY <1>0, <1>1 DEF CanaryInv, CanaryExact, Spent, ingestVars, dbVars
  <1>2. ASSUME NEW q \in Requests, RequestStep(q)
        PROVE  CanaryInv'
    BY <1>2, RequestCanary
  <1>3. ASSUME NEW g \in Granters, GranterStep(g)
        PROVE  CanaryInv'
    <2> USE <1>0, <1>3 DEF LocalTypes, Advance, dbVars
    <2>1. CASE BeginGrant(g) \/ LockForGrant(g) \/ ProjectGrant(g) \/ EndGrant(g)
      <3> USE <2>1 DEF BeginGrant, LockForGrant, ProjectGrant, EndGrant
      <3>1. UNCHANGED <<canary, grants, run, writer>> /\ \A r \in Requests : step'[r] = step[r]
        OBVIOUS
      <3>2. CanaryExact'
        BY <3>1, QuietCanary DEF CanaryInv
      <3> QED BY <3>1, <3>2 DEF CanaryInv
    <2>2. CASE Grant(g)
      <3>1. PICK v \in Versions, n \in Budgets :
               canary' = [version |-> v, left |-> n, grant |-> grants + 1, budget |-> n]
        BY <2>2 DEF Grant
      <3>2. /\ UNCHANGED <<run, writer>> /\ grants' = grants + 1
            /\ \A r \in Requests : step'[r] = step[r]
        BY <2>2 DEF Grant
      <3>3. Spent' = {}
        BY <3>1, <3>2 DEF Spent, CanaryInv, Pins
      <3>4. CanaryExact'
        BY <3>1, <3>3, FS_EmptySet DEF CanaryExact
      <3>5. \A r \in Requests : run'[r] # NoRow => step'[r] \in Committed /\ run'[r].grant <= grants'
        BY <3>2 DEF CanaryInv, Pins
      <3> QED BY <3>1, <3>2, <3>4, <3>5 DEF CanaryInv
    <2> QED BY <2>1, <2>2 DEF GranterStep
  <1>4. CASE CrashDaemon
    <2>1. UNCHANGED <<canary, grants, run>> /\ writer' = NoRequest
      BY <1>4 DEF CrashDaemon
    <2>2. \A r \in Requests : step'[r] # "commit" /\ (step[r] \in Committed => step'[r] \in Committed)
      BY <1>0, <1>4 DEF CrashDaemon, LocalTypes, Committed
    <2>3. CanaryExact'
      BY <1>0, <2>1, QuietCanary DEF CanaryInv
    <2> QED BY <1>0, <2>1, <2>2, <2>3 DEF CanaryInv
  <1> QED BY <1>1, <1>2, <1>3, <1>4 DEF Next

-----------------------------------------------------------------------------
(* The pins.                                                               *)

\* What a registry command has written stays, and what it points to is there.
LEMMA OperatorPins ==
    ASSUME RInv, PinInv, RegistryNext
    PROVE  /\ \A v \in Versions : file[v] # NoContent => file'[v] # NoContent
           /\ \A o \in Operators :
                 at'[o] \in {"index", "active", "log"} => file'[job'[o].version] # NoContent
           /\ active' # NoPointer => file'[active'.version] # NoContent
  <1> USE RegistryAssumption DEF MoveTo, Return, registryFiles
  <1>0. /\ RegistryTypeOK /\ JobInv
        /\ active # NoPointer => active.version \in Versions
        /\ \A p \in Operators : job[p].version \in Versions \union {NoVersion}
    BY DEF RInv, RegistryTypeOK, Pointers, Jobs
  <1> USE <1>0
  <1>1. PICK o \in Operators : OperatorStep(o)
    BY DEF RegistryNext
  <1>2. CASE Begin(o)
    <2>1. UNCHANGED <<file, active>> /\ at' = [at EXCEPT ![o] = "lock"]
          /\ \A p \in Operators \ {o} : job'[p] = job[p]
      BY <1>2 DEF Begin, RegistryTypeOK
    <2> QED BY <2>1 DEF PinInv, RegistryTypeOK
  <1>3. CASE LockExclusive(o) \/ LockShared(o) \/ RejectSource(o) \/ RefuseVersion(o)
                \/ SeeActive(o) \/ SeeIndex(o) \/ Break(o) \/ LogActivation(o)
    BY <1>3 DEF LockExclusive, LockShared, RejectSource, RefuseVersion, SeeActive, SeeIndex, Break,
                LogActivation, PinInv, RegistryTypeOK
  <1>4. CASE WriteVersion(o)
    <2>1. job[o].content \in Contents /\ job[o].version \in Versions
      BY <1>4 DEF WriteVersion, JobInv, Writing
    <2>2. \A v \in Versions : file[v] # NoContent => file'[v] # NoContent
      BY <1>4, <2>1 DEF WriteVersion, RegistryTypeOK
    <2>3. file'[job[o].version] # NoContent
      BY <1>4, <2>1 DEF WriteVersion, RegistryTypeOK
    <2>4. ASSUME NEW p \in Operators, at'[p] \in {"index", "active", "log"}
          PROVE  file'[job'[p].version] # NoContent
      <3>1. CASE p = o
        BY <1>4, <2>3, <3>1 DEF WriteVersion
      <3>2. CASE p # o
        BY <1>4, <2>2, <2>4, <3>2 DEF WriteVersion, PinInv, RegistryTypeOK, JobInv, Writing
      <3> QED BY <3>1, <3>2
    <2> QED BY <1>4, <2>2, <2>4 DEF WriteVersion, PinInv
  <1>5. CASE IndexVersion(o) \/ ReadVersion(o) \/ WriteActive(o)
    <2>1. UNCHANGED file
      BY <1>5 DEF IndexVersion, ReadVersion, WriteActive
    <2>2. CASE IndexVersion(o)
      BY <2>1, <2>2 DEF IndexVersion, PinInv, RegistryTypeOK
    <2>3. CASE ReadVersion(o)
      <3>1. at'[o] = "active" => job'[o].version = job[o].version /\ file[job[o].version] # NoContent
        BY <2>3 DEF ReadVersion, RegistryTypeOK, Jobs
      <3>2. at'[o] \in {"active", "idle"} /\ UNCHANGED active
        BY <2>3 DEF ReadVersion, RegistryTypeOK
      <3>3. \A p \in Operators \ {o} : at'[p] = at[p] /\ job'[p] = job[p]
        BY <2>3 DEF ReadVersion, RegistryTypeOK
      <3> QED BY <2>1, <3>1, <3>2, <3>3 DEF PinInv
    <2>4. CASE WriteActive(o)
      <3>1. active'.version = job[o].version
        BY <2>4 DEF WriteActive
      <3> QED BY <2>1, <2>4, <3>1 DEF WriteActive, PinInv, RegistryTypeOK
    <2> QED BY <1>5, <2>2, <2>3, <2>4
  <1> QED BY <1>1, <1>2, <1>3, <1>4, <1>5 DEF OperatorStep

LEMMA PinStep ==
    ASSUME IngestInv, Next
    PROVE  PinInv'
  <1> USE IngestAssumption
  <1>0. /\ RInv /\ GuardInv /\ PinInv /\ LocalTypes /\ RegistryTypeOK
        /\ NoRow \notin Rows /\ NoRow \notin Pins
        /\ active # NoPointer => active.version \in Versions
    BY TypesApart, Distinct DEF IngestInv, RegistryTypeOK, Pointers
  <1>1. CASE RegistryNext /\ UNCHANGED ingestVars
    <2>1. PinnedHasFile'
      <3>1. UNCHANGED run
        BY <1>1 DEF ingestVars, dbVars
      <3>2. \A q \in Requests : run[q] # NoRow => run[q].version \in Versions
        BY <1>0 DEF LocalTypes, Pins
      <3> QED BY <1>0, <1>1, <3>1, <3>2, OperatorPins DEF PinInv, PinnedHasFile
    <2>2. \A q \in Requests : step'[q] \in {"consume", "commit"} =>
                                 active' # NoPointer /\ pointer'[q] = active'.version
      BY <1>0, <1>1, OperatorKeeps DEF PinInv, ingestVars, localVars, UnderLock
    <2> QED BY <1>0, <1>1, <2>1, <2>2, OperatorPins DEF PinInv
  <1>2. ASSUME NEW q \in Requests, RequestStep(q)
        PROVE  PinInv'
    <2> USE <1>0, <1>2 DEF LocalTypes, Advance, Answer, dbVars, localVars, RegistryKept, registryFiles,
            operatorVars
    <2>1. UNCHANGED <<file, active, at, job>>
      BY RequestLock
    <2>2. \A r \in Requests : step'[r] \in {"consume", "commit"} =>
                                 active # NoPointer /\ pointer'[r] = active.version
      BY DEF PinInv, RequestStep, FindAsset, CopySource, InsertAsset, AcquireShared, ReadPointer,
             ConsumeCanary, CommitCandidate, CommitActive, RejectCandidate, Fail, Fetch, OpenTmp,
             WriteTmp, RenameTmp, ProjectionFails
    <2>3. PinnedHasFile'
      <3>1. CASE CommitCandidate(q)
        BY <2>1, <3>1 DEF CommitCandidate, CandidateExists, PinInv, PinnedHasFile
      <3>2. CASE CommitActive(q)
        BY <2>1, <3>2 DEF CommitActive, PinInv, PinnedHasFile
      <3>3. CASE ~CommitCandidate(q) /\ ~CommitActive(q)
        <4>1. UNCHANGED run
          BY <3>3 DEF RequestStep, FindAsset, CopySource, InsertAsset, AcquireShared, ReadPointer,
             ConsumeCanary, RejectCandidate, Fail, Fetch, OpenTmp, WriteTmp, RenameTmp, ProjectionFails
        <4> QED BY <2>1, <4>1 DEF PinInv, PinnedHasFile
      <3> QED BY <3>1, <3>2, <3>3
    <2> QED BY <2>1, <2>2, <2>3 DEF PinInv
  <1>3. ASSUME NEW g \in Granters, GranterStep(g)
        PROVE  PinInv'
    <2> USE <1>0, <1>3 DEF LocalTypes, RegistryKept, registryFiles, operatorVars, dbVars, localVars
    <2>1. UNCHANGED <<file, active, at, job>>
      BY GranterLock
    <2>2. /\ UNCHANGED <<run, pointer>>
          /\ \A q \in Requests : step'[q] = step[q]
      BY DEF Advance, GranterStep, BeginGrant, LockForGrant, Grant, ProjectGrant, EndGrant
    <2> QED BY <2>1, <2>2 DEF PinInv, PinnedHasFile
  <1>4. CASE CrashDaemon
    <2>1. UNCHANGED <<file, active, at, job, run>>
      BY <1>4 DEF CrashDaemon, RegistryKept, registryFiles, operatorVars
    <2>2. \A q \in Requests : step'[q] \notin {"consume", "commit"}
      BY <1>4, CrashLock DEF UnderLock
    <2> QED BY <1>0, <2>1, <2>2 DEF PinInv, PinnedHasFile
  <1> QED BY <1>1, <1>2, <1>3, <1>4 DEF Next

-----------------------------------------------------------------------------
(* The copies.                                                             *)

LEMMA CopyStep ==
    ASSUME IngestInv, Next
    PROVE  CopyInv'
  <1> USE IngestAssumption
  <1>0. CopyInv /\ CanaryInv /\ LocalTypes
    BY TypesApart DEF IngestInv
  <1> USE <1>0 DEF LocalTypes, Advance, Answer, assetVars, dbVars
  <1>1. CASE RegistryNext /\ UNCHANGED ingestVars
    BY <1>1 DEF CopyInv, ingestVars
  <1>2. ASSUME NEW q \in Requests, RequestStep(q)
        PROVE  CopyInv'
    <2>1. CASE FindAsset(q) \/ CopySource(q) \/ InsertAsset(q) \/ AcquireShared(q)
      BY <2>1 DEF FindAsset, CopySource, InsertAsset, AcquireShared, CopyInv, Registered, UnderLock
    <2>2. CASE CommitCandidate(q) \/ CommitActive(q)
      BY <2>2 DEF CommitCandidate, CommitActive, CopyInv, Registered, UnderLock
    <2>3. CASE \/ ReadPointer(q) \/ ConsumeCanary(q) \/ RejectCandidate(q) \/ Fail(q) \/ Fetch(q)
               \/ OpenTmp(q) \/ WriteTmp(q) \/ RenameTmp(q) \/ ProjectionFails(q)
      BY <2>3 DEF ReadPointer, ConsumeCanary, RejectCandidate, Fail, Fetch, OpenTmp, WriteTmp,
                  RenameTmp, ProjectionFails, CopyInv, Registered, UnderLock
    <2> QED BY <1>2, <2>1, <2>2, <2>3 DEF RequestStep
  <1>3. ASSUME NEW g \in Granters, GranterStep(g)
        PROVE  CopyInv'
    <2>1. /\ UNCHANGED <<audio, asset, copies, run>>
          /\ \A q \in Requests : step'[q] = step[q]
      BY <1>3 DEF GranterStep, BeginGrant, LockForGrant, Grant, ProjectGrant, EndGrant
    <2> QED BY <2>1 DEF CopyInv
  <1>4. CASE CrashDaemon
    BY <1>4 DEF CrashDaemon, CopyInv, Registered, UnderLock
  <1> QED BY <1>1, <1>2, <1>3, <1>4 DEF Next

-----------------------------------------------------------------------------
(* What is projected.                                                      *)

\* How the row may move under a request that holds the lock: not at all, or by
\* one unit of the same grant.
RowKeeps ==
    /\ grants' = grants
    /\ canary # NoRow =>
          /\ canary' # NoRow /\ canary'.version = canary.version
          /\ canary'.grant = canary.grant /\ canary'.left \in Nat /\ canary'.left <= canary.left
    /\ canary = NoRow => canary' = NoRow

LEMMA RequestRow ==
    ASSUME IngestInv, NEW q \in Requests, RequestStep(q)
    PROVE  RowKeeps
  <1>0. LocalTypes /\ NoRow \notin Rows
    BY TypesApart, Distinct DEF IngestInv
  <1>1. CASE CommitCandidate(q)
    <2>1. canary \in Rows /\ canary.left > 0
      BY <1>0, <1>1 DEF CommitCandidate, HasBudget, LocalTypes
    <2>2. /\ canary' \in Rows /\ canary'.left = canary.left - 1
          /\ canary'.grant = canary.grant /\ canary'.version = canary.version
      BY <1>1, <2>1, SpentRow DEF CommitCandidate
    <2> QED BY <1>0, <1>1, <2>1, <2>2 DEF CommitCandidate, RowKeeps, Rows
  <1>2. CASE ~CommitCandidate(q)
    <2>1. UNCHANGED <<canary, grants>>
      BY <1>2 DEF RequestStep, FindAsset, CopySource, InsertAsset, AcquireShared, ReadPointer,
                  ConsumeCanary, CommitActive, RejectCandidate, Fail, Fetch, OpenTmp, WriteTmp,
                  RenameTmp, ProjectionFails, dbVars
    <2>2. canary # NoRow => canary.left \in Nat
      BY <1>0 DEF LocalTypes, Rows
    <2> QED BY <2>1, <2>2 DEF RowKeeps
  <1> QED BY <1>1, <1>2

\* A granter past the lock has no request beside it.
LEMMA GranterAlone ==
    ASSUME IngestInv, NEW g \in Granters, step[g] \in {"upsert", "project"}
    PROVE  \A q \in Requests : step[q] \notin UnderLock
  BY IngestAssumption DEF IngestInv, RInv, LockInv, GuardInv

LEMMA GrantedRow ==
    ASSUME IngestInv, NEW g \in Granters, Grant(g)
    PROVE  /\ canary' \in Rows /\ canary'.grant = grants' /\ grants' = grants + 1
           /\ step[g] \in {"upsert", "project"}
           /\ UNCHANGED <<fileVars, fetched, faults>>
           /\ \A q \in Requests : step'[q] = step[q]
  <1>0. LocalTypes
    BY TypesApart DEF IngestInv
  <1>1. PICK v \in Versions, n \in Budgets :
           canary' = [version |-> v, left |-> n, grant |-> grants + 1, budget |-> n]
    BY DEF Grant
  <1> QED
    BY <1>0, <1>1, IngestAssumption DEF Grant, Advance, Rows, LocalTypes, localVars

LEMMA FetchStep ==
    ASSUME IngestInv, Next
    PROVE  FetchInv'
  <1> USE IngestAssumption
  <1>0. /\ FetchInv /\ CanaryInv /\ LocalTypes /\ NoRow \notin Rows
        /\ \A row \in Rows : row.left \in Nat
    BY TypesApart, Distinct DEF IngestInv, Rows
  <1> USE <1>0 DEF LocalTypes
  <1>1. CASE RegistryNext /\ UNCHANGED ingestVars
    BY <1>1 DEF FetchInv, ingestVars, localVars, dbVars, fileVars
  <1>2. ASSUME NEW q \in Requests, RequestStep(q)
        PROVE  FetchInv'
    <2> USE <1>2 DEF Advance, Answer, localVars, fileVars
    <2>0. RowKeeps
      BY RequestRow
    <2>1. /\ \A r \in Requests \ {q} :
                step'[r] = step[r] /\ fetched'[r] = fetched[r]
          /\ \A g \in Granters : step'[g] = step[g]
      BY DEF RequestStep, FindAsset, CopySource, InsertAsset, AcquireShared, ReadPointer,
             ConsumeCanary, CommitCandidate, CommitActive, RejectCandidate, Fail, Fetch, OpenTmp,
             WriteTmp, RenameTmp, ProjectionFails
    <2>2. ASSUME step'[q] \in Projecting
          PROVE  /\ fetched'[q] \in Rows /\ canary # NoRow
                 /\ fetched'[q].version = canary.version
                 /\ fetched'[q].grant = grants /\ fetched'[q].left >= canary.left
      <3>1. CASE Fetch(q)
        BY <3>1 DEF Fetch, FetchInv, CanaryInv
      <3>2. CASE OpenTmp(q) \/ WriteTmp(q)
        BY <3>2 DEF OpenTmp, WriteTmp, FetchInv, Projecting
      <3> QED BY <2>2, <3>1, <3>2 DEF RequestStep, FindAsset, CopySource, InsertAsset, AcquireShared,
             ReadPointer, ConsumeCanary, CommitCandidate, CommitActive, RejectCandidate, Fail,
             RenameTmp, ProjectionFails, Projecting
    <2>3. ASSUME NEW r \in Requests, step'[r] \in Projecting
          PROVE  /\ fetched'[r] \in Rows /\ canary' # NoRow
                 /\ fetched'[r].version = canary'.version
                 /\ fetched'[r].grant = grants' /\ fetched'[r].left >= canary'.left
      <3>1. /\ fetched'[r] \in Rows /\ canary # NoRow
            /\ fetched'[r].version = canary.version
            /\ fetched'[r].grant = grants /\ fetched'[r].left >= canary.left
        BY <2>1, <2>2, <2>3 DEF FetchInv
      <3> QED BY <2>0, <3>1 DEF RowKeeps
    <2>4. \A r \in Requests : step'[r] = "fetch" => canary' # NoRow
      <3>1. step'[q] = "fetch" => canary # NoRow
        BY DEF RequestStep, FindAsset, CopySource, InsertAsset, AcquireShared, ReadPointer,
               ConsumeCanary, CommitCandidate, CommitActive, RejectCandidate, Fail, Fetch, OpenTmp,
               WriteTmp, RenameTmp, ProjectionFails, HasBudget
      <3> QED BY <2>0, <2>1, <3>1 DEF FetchInv, RowKeeps
    <2>5. \A g \in Granters : step'[g] = "project" => canary' # NoRow
      BY <2>0, <2>1 DEF FetchInv, RowKeeps
    <2>6. \A r \in Requests : handle'[r] # "none" => step'[r] = "write"
      <3>1. CASE OpenTmp(q)
        BY <3>1 DEF OpenTmp, FetchInv
      <3>2. CASE WriteTmp(q) \/ ProjectionFails(q)
        BY <3>2 DEF WriteTmp, ProjectionFails, FetchInv
      <3>3. CASE RenameTmp(q)
        BY <3>3 DEF RenameTmp, FetchInv
      <3>4. CASE ~OpenTmp(q) /\ ~WriteTmp(q) /\ ~ProjectionFails(q) /\ ~RenameTmp(q)
        BY <3>4 DEF RequestStep, FindAsset, CopySource, InsertAsset, AcquireShared, ReadPointer,
               ConsumeCanary, CommitCandidate, CommitActive, RejectCandidate, Fail, Fetch, FetchInv
      <3> QED BY <3>1, <3>2, <3>3, <3>4
    <2> QED BY <2>3, <2>4, <2>5, <2>6 DEF FetchInv
  <1>3. ASSUME NEW g \in Granters, GranterStep(g)
        PROVE  FetchInv'
    <2>1. CASE BeginGrant(g) \/ LockForGrant(g) \/ ProjectGrant(g) \/ EndGrant(g)
      BY <2>1 DEF BeginGrant, LockForGrant, ProjectGrant, EndGrant, Advance, FetchInv, localVars,
                  dbVars, fileVars
    <2>2. CASE Grant(g)
      BY <2>2, GrantedRow, GranterAlone DEF FetchInv, UnderLock, Projecting, fileVars
    <2> QED BY <1>3, <2>1, <2>2 DEF GranterStep
  <1>4. CASE CrashDaemon
    BY <1>4 DEF CrashDaemon, FetchInv, Projecting
  <1> QED BY <1>1, <1>2, <1>3, <1>4 DEF Next

-----------------------------------------------------------------------------
(* What the projection shows.                                              *)

\* The request steps that touch neither the projection nor its temporary file.
Untouched(q) ==
    \/ FindAsset(q) \/ CopySource(q) \/ InsertAsset(q) \/ AcquireShared(q) \/ ReadPointer(q)
    \/ ConsumeCanary(q) \/ CommitCandidate(q) \/ CommitActive(q) \/ RejectCandidate(q) \/ Fail(q)
    \/ Fetch(q)

LEMMA UntouchedStep ==
    ASSUME IngestInv, NEW q \in Requests, Untouched(q)
    PROVE  /\ UNCHANGED <<fileVars, faults>>
           /\ step[q] \notin {"write", "rename"} /\ step'[q] \notin {"write", "rename"}
           /\ \A r \in Requests \ {q} : step'[r] = step[r] /\ fetched'[r] = fetched[r]
  <1>0. LocalTypes
    BY TypesApart DEF IngestInv
  <1> QED
    BY <1>0 DEF Untouched, LocalTypes, FindAsset, CopySource, InsertAsset, AcquireShared,
           ReadPointer, ConsumeCanary, CommitCandidate, CommitActive, RejectCandidate, Fail, Fetch,
           Advance, Answer, localVars, fileVars

\* Sound, of the row after the step.
StaysSound(view, v) ==
    view \in Views => /\ view.grant <= grants'
                      /\ canary' # NoRow /\ canary'.version = v /\ view.grant = grants'
                            => view.left >= canary'.left

LEMMA KeptRowStaysSound ==
    ASSUME IngestInv, RowKeeps
    PROVE  \A view, v : Sound(view, v) => StaysSound(view, v)
  <1>1. canary # NoRow => canary.left \in Nat
    BY TypesApart DEF IngestInv, LocalTypes, Rows
  <1> QED BY <1>1 DEF Sound, StaysSound, RowKeeps, Views

LEMMA RequestViews ==
    ASSUME IngestInv, NEW q \in Requests, RequestStep(q)
    PROVE  ViewInv'
  <1>0. /\ ViewInv /\ FetchInv /\ LocalTypes
        /\ NoFile \notin Views /\ Torn \notin Views
        /\ grants' = grants
        /\ \A view, v : Sound(view, v) => StaysSound(view, v)
    BY TypesApart, Distinct, RequestRow, KeptRowStaysSound DEF IngestInv, RowKeeps
  <1> USE IngestAssumption, <1>0 DEF LocalTypes
  <1> SUFFICES /\ \A v \in Versions : StaysSound(projection'[v], v) /\ StaysSound(tmp'[v], v)
               /\ \A r \in Requests :
                     step'[r] \in {"write", "rename"} /\ tmp'[fetched'[r].version] \in Views =>
                        tmp'[fetched'[r].version].grant = grants
    BY DEF ViewInv, Sound, StaysSound
  <1>1. CASE Untouched(q)
    BY <1>1, UntouchedStep DEF ViewInv, fileVars
  <1>2. CASE OpenTmp(q)
    <2>1. \A v \in Versions : StaysSound(Torn, v)
      BY DEF StaysSound
    <2>2. /\ tmp' = [tmp EXCEPT ![fetched[q].version] = Torn] /\ UNCHANGED <<projection, fetched>>
          /\ \A r \in Requests \ {q} : step'[r] = step[r]
      BY <1>2 DEF OpenTmp, Advance, localVars
    <2>3. fetched[q].version \in Versions
      BY <1>2, ViewOfRow DEF OpenTmp, Advance, FetchInv, Projecting
    <2>4. \A v \in Versions : tmp'[v] = tmp[v] \/ tmp'[v] = Torn
      BY <2>2
    <2>5. tmp'[fetched[q].version] = Torn
      BY <2>2, <2>3
    <2>6. \A r \in Requests : step[r] \in {"write", "rename"} => fetched[r].version \in Versions
      BY ViewOfRow DEF FetchInv, Projecting
    <2>7. \A v \in Versions : StaysSound(projection'[v], v) /\ StaysSound(tmp'[v], v)
      BY <2>1, <2>2, <2>4 DEF ViewInv
    <2> QED BY <2>2, <2>4, <2>5, <2>6, <2>7 DEF ViewInv
  <1>3. CASE WriteTmp(q)
    <2> DEFINE row == fetched[q]
               view == View(row)
    <2>1. /\ row \in Rows /\ view \in Views /\ view.grant = grants /\ row.version \in Versions
          /\ view.left >= canary.left /\ canary # NoRow /\ canary.version = row.version
      BY <1>3, ViewOfRow DEF WriteTmp, Advance, FetchInv, Projecting
    <2>2. Sound(view, row.version)
      BY <2>1 DEF Sound
    <2>3. StaysSound(view, row.version)
      BY <2>2
    <2>4. \A v \in Versions : /\ projection'[v] = projection[v] \/ (v = row.version /\ projection'[v] = view)
                              /\ tmp'[v] = tmp[v] \/ (v = row.version /\ tmp'[v] = view)
      <3>1. /\ tmp' = IF handle[q] = "tmp" THEN [tmp EXCEPT ![row.version] = view] ELSE tmp
            /\ projection' = IF handle[q] = "projection"
                             THEN [projection EXCEPT ![row.version] = view] ELSE projection
        BY <1>3 DEF WriteTmp
      <3> HIDE DEF view, row
      <3> QED BY <2>1, <3>1
    <2> HIDE DEF view, row
    <2>5. \A v \in Versions : StaysSound(projection'[v], v) /\ StaysSound(tmp'[v], v)
      BY <2>3, <2>4 DEF ViewInv
    <2>6. /\ UNCHANGED fetched /\ step[q] = "write"
          /\ \A r \in Requests : step'[r] \in {"write", "rename"} => step[r] \in {"write", "rename"}
      BY <1>3 DEF WriteTmp, Advance, localVars
    <2>7. \A r \in Requests : step[r] \in {"write", "rename"} => fetched[r].version \in Versions
      BY ViewOfRow DEF FetchInv, Projecting
    <2> QED BY <2>1, <2>4, <2>5, <2>6, <2>7 DEF ViewInv
  <1>4. CASE RenameTmp(q)
    <2>1. fetched[q].version \in Versions
      BY <1>4, ViewOfRow DEF RenameTmp, Advance, FetchInv, Projecting
    <2>2. \A v \in Versions : StaysSound(NoFile, v)
      BY DEF StaysSound
    <2>3. \A r \in Requests \ {q} : step'[r] = step[r] /\ fetched'[r] = fetched[r]
      BY <1>4 DEF RenameTmp, Advance, Answer
    <2>4. step'[q] = "done"
      BY <1>4 DEF RenameTmp, Advance
    <2>5. CASE tmp[fetched[q].version] = NoFile
      BY <1>4, <2>3, <2>4, <2>5 DEF RenameTmp, ViewInv
    <2>6. CASE tmp[fetched[q].version] # NoFile
      <3> DEFINE w == fetched[q].version
      <3>1. projection' = [projection EXCEPT ![w] = tmp[w]] /\ tmp' = [tmp EXCEPT ![w] = NoFile]
        BY <1>4, <2>6 DEF RenameTmp
      <3> HIDE DEF w
      <3>2. w \in Versions
        BY <2>1 DEF w
      <3>3. \A v \in Versions : tmp'[v] \in {tmp[v], NoFile}
                                   /\ (projection'[v] = projection[v] \/ (v = w /\ projection'[v] = tmp[w]))
        BY <3>1
      <3>4. \A v \in Versions : StaysSound(projection'[v], v) /\ StaysSound(tmp'[v], v)
        BY <2>2, <3>2, <3>3 DEF ViewInv
      <3>5. \A r \in Requests : step[r] \in {"write", "rename"} => fetched[r].version \in Versions
        BY ViewOfRow DEF FetchInv, Projecting
      <3> QED BY <2>3, <2>4, <3>3, <3>4, <3>5 DEF ViewInv
    <2> QED BY <2>5, <2>6
  <1>5. CASE ProjectionFails(q)
    <2>1. /\ \A r \in Requests \ {q} : step'[r] = step[r] /\ fetched'[r] = fetched[r]
          /\ step'[q] = "done" /\ UNCHANGED <<projection, tmp>>
      BY <1>5 DEF ProjectionFails, Advance, Answer
    <2> QED BY <2>1 DEF ViewInv
  <1> QED BY <1>1, <1>2, <1>3, <1>4, <1>5 DEF RequestStep, Untouched

LEMMA ViewStep ==
    ASSUME IngestInv, Next
    PROVE  ViewInv'
  <1> USE IngestAssumption
  <1>0. /\ ViewInv /\ FetchInv /\ CanaryInv /\ LocalTypes
        /\ NoFile \notin Views /\ Torn \notin Views
    BY TypesApart, Distinct DEF IngestInv
  <1> USE <1>0 DEF LocalTypes
  <1>1. CASE RegistryNext /\ UNCHANGED ingestVars
    BY <1>1 DEF ViewInv, Sound, ingestVars, localVars, dbVars, fileVars
  <1>2. ASSUME NEW q \in Requests, RequestStep(q)
        PROVE  ViewInv'
    BY <1>2, RequestViews
  <1>3. ASSUME NEW g \in Granters, GranterStep(g)
        PROVE  ViewInv'
    <2>1. CASE BeginGrant(g) \/ LockForGrant(g) \/ EndGrant(g)
      BY <2>1 DEF BeginGrant, LockForGrant, EndGrant, Advance, ViewInv, Sound, localVars, dbVars,
                  fileVars
    <2>2. CASE Grant(g)
      BY <2>2, GrantedRow, GranterAlone DEF ViewInv, Sound, UnderLock, fileVars, Views
    <2>3. CASE ProjectGrant(g)
      <3>1. canary \in Rows /\ canary.version \in Versions /\ canary.grant = grants
            /\ View(canary) \in Views /\ View(canary).left = canary.left
            /\ View(canary).grant = canary.grant /\ canary.left \in Nat
        BY <2>3, ViewOfRow DEF ProjectGrant, Advance, FetchInv, CanaryInv
      <3>2. /\ projection' = [projection EXCEPT ![canary.version] = View(canary)]
            /\ UNCHANGED <<canary, grants, tmp, fetched>>
            /\ \A q \in Requests : step'[q] = step[q]
        BY <2>3 DEF ProjectGrant, Advance, dbVars, localVars
      <3>3. \A v \in Versions : projection'[v] = projection[v] \/ projection'[v] = View(canary)
        BY <3>2
      <3>4. \A v \in Versions : Sound(View(canary), v)
        BY <3>1 DEF Sound
      <3>5. \A v \in Versions : Sound(projection'[v], v) /\ Sound(tmp[v], v)
        BY <3>3, <3>4 DEF ViewInv
      <3> QED BY <3>2, <3>5 DEF ViewInv, Sound
    <2> QED BY <1>3, <2>1, <2>2, <2>3 DEF GranterStep
  <1>4. CASE CrashDaemon
    BY <1>4 DEF CrashDaemon, ViewInv, Sound
  <1> QED BY <1>1, <1>2, <1>3, <1>4 DEF Next

-----------------------------------------------------------------------------
(* Torn files.                                                             *)

\* Tears, after the step.
StillTears(q, where, v) ==
    step'[q] = "write" /\ handle'[q] = where /\ fetched'[q].version = v

\* Without a fault before or in it, a step of a request leaves every torn file
\* a request that is writing it.
LEMMA RequestTorn ==
    ASSUME IngestInv, NEW q \in Requests, RequestStep(q)
    PROVE  TornInv'
  <1>0. /\ TornInv /\ FetchInv /\ LocalTypes
        /\ NoFile \notin Views /\ Torn \notin Views /\ NoFile # Torn
        /\ \A row \in Rows : row.version \in Versions
    BY TypesApart, Distinct DEF IngestInv, Rows
  <1> USE <1>0 DEF LocalTypes
  <1> SUFFICES faults' = 0 => \A v \in Versions :
         /\ tmp'[v] = Torn => \E r \in Requests : StillTears(r, "tmp", v)
         /\ projection'[v] = Torn => \E r \in Requests : StillTears(r, "projection", v)
    BY DEF TornInv, Tears, StillTears
  <1>1. CASE Untouched(q)
    BY <1>1, UntouchedStep DEF TornInv, Tears, StillTears, fileVars
  <1>2. CASE OpenTmp(q)
    <2> DEFINE w == fetched[q].version
    <2>1. /\ w \in Versions /\ step[q] = "open"
          /\ tmp' = [tmp EXCEPT ![w] = Torn]
          /\ UNCHANGED <<projection, fetched, faults>>
          /\ step' = [step EXCEPT ![q] = "write"]
          /\ handle' = [handle EXCEPT ![q] = "tmp"]
      BY <1>2 DEF OpenTmp, Advance, localVars, FetchInv, Projecting
    <2>2. StillTears(q, "tmp", w)
      BY <2>1 DEF Tears, StillTears
    <2>3. \A where, v : \A r \in Requests : Tears(r, where, v) => StillTears(r, where, v)
      BY <2>1 DEF Tears, StillTears
    <2>4. \A v \in Versions : tmp'[v] = tmp[v] \/ v = w
      BY <2>1
    <2> HIDE DEF w
    <2> QED BY <2>1, <2>2, <2>3, <2>4 DEF TornInv
  <1>3. CASE WriteTmp(q)
    <2> DEFINE w == fetched[q].version
               view == View(fetched[q])
    <2>1. /\ w \in Versions /\ view \in Views /\ step[q] = "write"
          /\ UNCHANGED <<fetched, faults>>
          /\ tmp' = IF handle[q] = "tmp" THEN [tmp EXCEPT ![w] = view] ELSE tmp
          /\ projection' = IF handle[q] = "projection" THEN [projection EXCEPT ![w] = view]
                                                       ELSE projection
      BY <1>3, ViewOfRow DEF WriteTmp, Advance, localVars, FetchInv, Projecting
    <2>2. \A r \in Requests \ {q} : step'[r] = step[r] /\ handle'[r] = handle[r]
      BY <1>3 DEF WriteTmp, Advance
    <2>3. \A where, v : \A r \in Requests : Tears(r, where, v) /\ r # q => StillTears(r, where, v)
      BY <2>1, <2>2 DEF Tears, StillTears
    <2>4. \A where, v : Tears(q, where, v) => v = w /\ handle[q] = where
      BY DEF Tears
    <2>5. \A v \in Versions : tmp'[v] = Torn => tmp[v] = Torn /\ ~(v = w /\ handle[q] = "tmp")
      <3> HIDE DEF w, view
      <3> QED BY <2>1
    <2>6. \A v \in Versions : projection'[v] = Torn =>
                                 projection[v] = Torn /\ ~(v = w /\ handle[q] = "projection")
      <3> HIDE DEF w, view
      <3> QED BY <2>1
    <2> HIDE DEF w, view
    <2> QED BY <2>1, <2>3, <2>4, <2>5, <2>6 DEF TornInv
  <1>4. CASE RenameTmp(q)
    <2> DEFINE w == fetched[q].version
    <2>1. /\ w \in Versions /\ step[q] = "rename" /\ UNCHANGED faults
          /\ \A r \in Requests \ {q} : step'[r] = step[r] /\ fetched'[r] = fetched[r]
      BY <1>4 DEF RenameTmp, Advance, Answer, FetchInv, Projecting
    <2>2. CASE tmp[w] = NoFile
      <3>1. UNCHANGED <<projection, tmp, handle>>
        BY <1>4, <2>2 DEF RenameTmp
      <3> HIDE DEF w
      <3> QED BY <2>1, <3>1 DEF TornInv, Tears, StillTears
    <2>3. CASE tmp[w] # NoFile
      <3>1. /\ projection' = [projection EXCEPT ![w] = tmp[w]]
            /\ tmp' = [tmp EXCEPT ![w] = NoFile]
            /\ handle' = [r \in Requests |->
                             IF handle[r] = "none" \/ fetched[r].version # w THEN handle[r]
                             ELSE IF handle[r] = "tmp" THEN "projection" ELSE "gone"]
        BY <1>4, <2>3 DEF RenameTmp
      <3> HIDE DEF w
      <3>2. \A where, v : \A r \in Requests : Tears(r, where, v) /\ v # w => StillTears(r, where, v)
        BY <2>1, <3>1 DEF Tears, StillTears
      <3>3. \A r \in Requests : Tears(r, "tmp", w) => StillTears(r, "projection", w)
        BY <2>1, <3>1 DEF Tears, StillTears
      <3>4. tmp'[w] = NoFile /\ projection'[w] = tmp[w]
        BY <2>1, <3>1
      <3>5. \A v \in Versions \ {w} : tmp'[v] = tmp[v] /\ projection'[v] = projection[v]
        BY <3>1
      <3> QED BY <2>1, <3>2, <3>3, <3>4, <3>5 DEF TornInv
    <2> QED BY <2>2, <2>3
  <1>5. CASE ProjectionFails(q)
    BY <1>5, IngestAssumption DEF ProjectionFails, TornInv
  <1> QED BY <1>1, <1>2, <1>3, <1>4, <1>5 DEF RequestStep, Untouched

LEMMA TornStep ==
    ASSUME IngestInv, Next
    PROVE  TornInv'
  <1> USE IngestAssumption
  <1>0. TornInv /\ LocalTypes /\ Torn \notin Views
    BY TypesApart, Distinct DEF IngestInv
  <1> USE <1>0 DEF LocalTypes
  <1>1. CASE RegistryNext /\ UNCHANGED ingestVars
    BY <1>1 DEF TornInv, Tears, ingestVars, localVars, fileVars
  <1>2. ASSUME NEW q \in Requests, RequestStep(q)
        PROVE  TornInv'
    BY <1>2, RequestTorn
  <1>3. ASSUME NEW g \in Granters, GranterStep(g)
        PROVE  TornInv'
    <2>1. CASE BeginGrant(g) \/ LockForGrant(g) \/ EndGrant(g) \/ Grant(g)
      BY <2>1 DEF BeginGrant, LockForGrant, EndGrant, Grant, Advance, TornInv, Tears, localVars,
                  fileVars
    <2>2. CASE ProjectGrant(g)
      <3>1. View(canary) \in Views
        BY <2>2, ViewOfRow DEF ProjectGrant, Advance, IngestInv, FetchInv
      <3>2. \A v \in Versions : projection'[v] = Torn => projection[v] = Torn
        BY <2>2, <3>1 DEF ProjectGrant
      <3>3. /\ UNCHANGED <<tmp, handle, faults, fetched>>
            /\ \A q \in Requests : step'[q] = step[q]
        BY <2>2 DEF ProjectGrant, Advance, localVars
      <3> QED BY <3>2, <3>3 DEF TornInv, Tears
    <2> QED BY <1>3, <2>1, <2>2 DEF GranterStep
  <1>4. CASE CrashDaemon
    BY <1>4 DEF CrashDaemon, TornInv
  <1> QED BY <1>1, <1>2, <1>3, <1>4 DEF Next

-----------------------------------------------------------------------------
(* The theorems.                                                           *)

LEMMA StutterIngest ==
    ASSUME IngestInv, UNCHANGED vars
    PROVE  IngestInv'
  <1> USE DEF IngestInv, vars, ingestVars, assetVars, localVars, dbVars, fileVars
  <1>1. RInv'
    BY StutterRInv
  <1>2. TypeOK'
    <2>1. RegistryTypeOK'
      BY <1>1 DEF RInv
    <2> QED BY <2>1, TypesApart DEF LocalTypes, TypeOK
  <1>3. GuardInv'
    BY DEF GuardInv, registryVars
  <1>4. CanaryInv' /\ CopyInv'
    BY DEF CanaryInv, CanaryExact, Spent, CopyInv
  <1>5. PinInv'
    BY DEF PinInv, PinnedHasFile, registryVars
  <1>6. FetchInv' /\ ViewInv' /\ TornInv'
    BY DEF FetchInv, ViewInv, Sound, TornInv, Tears
  <1> QED BY <1>1, <1>2, <1>3, <1>4, <1>5, <1>6

LEMMA StepIngest == IngestInv /\ [Next]_vars => IngestInv'
  <1>1. ASSUME IngestInv, Next
        PROVE  IngestInv'
    BY <1>1, GuardStep, TypeStep, CanaryStep, PinStep, CopyStep, FetchStep, ViewStep, TornStep
       DEF IngestInv
  <1> QED BY <1>1, StutterIngest

\* What requests, granters and operators of one project never lose, whatever
\* the requests do in between and wherever the daemon dies.
THEOREM IngestInvariant == Spec => []IngestInv
  BY InitIngest, StepIngest, PTL DEF Spec

\* Requests, rows and files keep their types.
THEOREM IngestTypeCorrect == Spec => []TypeOK
  BY IngestInvariant, PTL DEF IngestInv

\* What is left of a canary budget and the runs that spent it add up to it.
THEOREM BudgetsAreExact == Spec => []CanaryExact
  <1>1. IngestInv => CanaryExact
    BY DEF IngestInv, CanaryInv
  <1> QED BY <1>1, IngestInvariant, PTL

\* Every enqueued run has its constitution's file and its asset's copy.
THEOREM PinsAreResolvable == Spec => []PinsAreGood
  <1>1. IngestInv => PinsAreGood
    BY DEF IngestInv, PinInv, CopyInv, PinsAreGood, RunHasCopy, TypeOK
  <1> QED BY <1>1, IngestInvariant, PTL

\* No activation slips in between a request's reading of the pointer and its
\* commit, and no budget is passed over.
THEOREM PinsAreOfTheActive == Spec => PinIsCurrent
  <1> DEFINE Pin == \A q \in Requests :
          run[q] = NoRow /\ run'[q] # NoRow /\ run'[q].grant = ByPointer =>
             run'[q].version = active.version /\ ~HasBudget
  <1>1. ASSUME IngestInv, Next
        PROVE  Pin
    <2>0. LocalTypes /\ PinInv /\ CanaryInv
      BY <1>1, TypesApart DEF IngestInv
    <2>1. ASSUME NEW q \in Requests, RequestStep(q)
          PROVE  Pin
      <3>1. CASE CommitActive(q)
        BY <2>0, <3>1 DEF CommitActive, Advance, PinInv, LocalTypes
      <3>2. CASE CommitCandidate(q)
        BY <2>0, <3>2 DEF CommitCandidate, HasBudget, CanaryInv, ByPointer, LocalTypes
      <3>3. CASE ~CommitActive(q) /\ ~CommitCandidate(q)
        BY <2>1, <3>3 DEF RequestStep, FindAsset, CopySource, InsertAsset, AcquireShared, ReadPointer,
              ConsumeCanary, RejectCandidate, Fail, Fetch, OpenTmp, WriteTmp, RenameTmp,
              ProjectionFails, dbVars
      <3> QED BY <3>1, <3>2, <3>3
    <2>2. ASSUME NEW g \in Granters, GranterStep(g)
          PROVE  UNCHANGED run
      BY <2>2 DEF GranterStep, BeginGrant, LockForGrant, Grant, ProjectGrant, EndGrant, dbVars
    <2>3. CrashDaemon \/ (RegistryNext /\ UNCHANGED ingestVars) => UNCHANGED run
      BY DEF CrashDaemon, ingestVars, dbVars
    <2> QED BY <1>1, <2>1, <2>2, <2>3 DEF Next
  <1>2. IngestInv /\ [Next]_vars => [Pin]_vars
    BY <1>1
  <1> QED BY <1>2, IngestInvariant, PTL DEF Spec, PinIsCurrent

\* A reader never sees less budget than there is, nor, faults apart, a torn
\* projection while no request is at writing one.
THEOREM ProjectionsAreSound == Spec => []ProjectionIsSound
  <1>1. IngestInv => ProjectionOverstates
    <2> SUFFICES ASSUME IngestInv PROVE ProjectionOverstates
      OBVIOUS
    <2>1. /\ \A v \in Versions : projection[v] \in Views \union {NoFile, Torn}
          /\ canary # NoRow => canary.grant = grants
      BY TypesApart DEF IngestInv, LocalTypes, CanaryInv
    <2> QED BY <2>1 DEF IngestInv, ViewInv, Sound, ProjectionOverstates
  <1>2. IngestInv => ProjectionWholeAtRest
    BY DEF IngestInv, TornInv, Tears, ProjectionWholeAtRest
  <1> QED BY <1>1, <1>2, IngestInvariant, PTL DEF ProjectionIsSound

\* What is written over a projection is of the last grant, so a request that
\* projects late never brings back an older one.
THEOREM ProjectionsKeepUp == Spec => ProjectionKeepsUp
  <1> DEFINE Up == \A v \in Versions :
          projection[v] \notin {NoFile, Torn} /\ projection'[v] \notin {NoFile, Torn} =>
             projection'[v].grant >= projection[v].grant
  <1>1. ASSUME IngestInv, Next
        PROVE  Up
    <2>0. /\ LocalTypes /\ FetchInv /\ CanaryInv
          /\ \A v \in Versions : projection[v] \notin {NoFile, Torn} =>
                projection[v].grant \in Nat /\ projection[v].grant <= grants
      <3>1. LocalTypes /\ FetchInv /\ CanaryInv /\ ViewInv
        BY <1>1, TypesApart DEF IngestInv
      <3>2. \A view \in Views : view.grant \in Nat
        BY DEF Views
      <3> QED BY <3>1, <3>2 DEF LocalTypes, ViewInv, Sound
    <2> SUFFICES \A v \in Versions : \/ projection'[v] \in {projection[v], NoFile, Torn}
                                     \/ projection'[v].grant = grants
      BY <2>0
    <2>1. ASSUME NEW q \in Requests, RequestStep(q)
          PROVE  \A v \in Versions : \/ projection'[v] \in {projection[v], NoFile, Torn}
                                     \/ projection'[v].grant = grants
      <3>1. CASE WriteTmp(q)
        <4>1. View(fetched[q]).grant = grants
          BY <2>0, <3>1, ViewOfRow DEF WriteTmp, Advance, FetchInv, Projecting
        <4> QED BY <2>0, <3>1, <4>1 DEF WriteTmp, LocalTypes
      <3>2. CASE RenameTmp(q)
        <4> DEFINE w == fetched[q].version
        <4>1. tmp[w] \in Views => tmp[w].grant = grants
          BY <1>1, <3>2 DEF RenameTmp, Advance, IngestInv, ViewInv
        <4>2. w \in Versions
          BY <2>0, <3>2, ViewOfRow DEF RenameTmp, Advance, FetchInv, Projecting
        <4>3. tmp[w] \in Views \union {NoFile, Torn}
          BY <2>0, <4>2 DEF LocalTypes
        <4>4. UNCHANGED projection \/ projection' = [projection EXCEPT ![w] = tmp[w]]
          BY <3>2 DEF RenameTmp
        <4> HIDE DEF w
        <4> QED BY <2>0, <4>1, <4>3, <4>4 DEF LocalTypes
      <3>3. CASE ~WriteTmp(q) /\ ~RenameTmp(q)
        BY <2>1, <3>3 DEF RequestStep, FindAsset, CopySource, InsertAsset, AcquireShared, ReadPointer,
              ConsumeCanary, CommitCandidate, CommitActive, RejectCandidate, Fail, Fetch, OpenTmp,
              ProjectionFails, fileVars
      <3> QED BY <3>1, <3>2, <3>3
    <2>2. ASSUME NEW g \in Granters, GranterStep(g)
          PROVE  \A v \in Versions : \/ projection'[v] \in {projection[v], NoFile, Torn}
                                     \/ projection'[v].grant = grants
      <3>1. CASE ProjectGrant(g)
        <4>1. View(canary).grant = grants
          BY <2>0, <3>1, ViewOfRow DEF ProjectGrant, Advance, FetchInv, CanaryInv, LocalTypes
        <4> QED BY <2>0, <3>1, <4>1 DEF ProjectGrant, LocalTypes
      <3>2. CASE BeginGrant(g) \/ LockForGrant(g) \/ Grant(g) \/ EndGrant(g)
        BY <3>2 DEF BeginGrant, LockForGrant, Grant, EndGrant, fileVars
      <3> QED BY <2>2, <3>1, <3>2 DEF GranterStep
    <2>3. CrashDaemon \/ (RegistryNext /\ UNCHANGED ingestVars) => UNCHANGED projection
      BY DEF CrashDaemon, ingestVars, fileVars
    <2> QED BY <1>1, <2>1, <2>2, <2>3 DEF Next
  <1>2. IngestInv /\ [Next]_vars => [Up]_vars
    BY <1>1
  <1> QED BY <1>2, IngestInvariant, PTL DEF Spec, ProjectionKeepsUp
=============================================================================
