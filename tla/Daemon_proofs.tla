---------------------------- MODULE Daemon_proofs ----------------------------
(***************************************************************************)
(* Theorems about Daemon for any number of requests, threads and           *)
(* connections: types, what a create leaves behind, and that a daemon that *)
(* stands still does so for good.                                          *)
(***************************************************************************)
EXTENDS Daemon, FiniteSetTheorems, TLAPS

-----------------------------------------------------------------------------
(* The inductive invariant.                                                *)

\* Who has got past the registry has an active version.
RegistryInv ==
    /\ rows # {} => current # NoPointer
    /\ \A h \in Creates : at[h] \in {"connect", "query"} => current # NoPointer
    /\ \A h \in Enqueues : at[h] \in {"flock", "begin", "commit"} => current # NoPointer

\* A create goes to the lock only when its write of the template has ended.
WriteInv ==
    \A h \in Creates :
       /\ at[h] = "idle" => write[h] = "none"
       /\ at[h] \in {"flock", "connect", "query"} => write[h] \in {"none", "done"}

\* Two that are creating at the same time know of each other.
OverlapInv == \A h, k \in Creating : h # k => h \in overlapped

\* Nobody else at work, the template is the default one, or someone's write of
\* it is between truncating and filling; and v1.0 is bound to nothing else.
TemplateInv ==
    crashes = 0 /\ ~meddled =>
       /\ template \in {NoTemplate, Truncated, DefaultContent}
       /\ template = Truncated => \E k \in Creates : write[k] = "fill"
       /\ template = NoTemplate => \A k \in Creates : write[k] \in {"none", "open"} /\ at[k] # "flock"
       /\ bound[FirstVersion] \in {NoContent, DefaultContent}

DaemonInv ==
    DaemonTypeOK /\ RegistryInv /\ WriteInv /\ OverlapInv /\ TemplateInv /\ LoneCreateSucceeds

-----------------------------------------------------------------------------
USE DEF Handlers, Final, InFlight, Creating

LEMMA InitDaemon == Init => DaemonInv
  <1> SUFFICES ASSUME Init PROVE DaemonInv
    OBVIOUS
  <1> USE DaemonAssumption DEF Init, LogInit
  <1>1. DaemonTypeOK
    <2>1. at \in [Handlers -> Points] /\ write \in [Creates -> {"none", "open", "fill", "done"}]
      BY DEF Points
    <2>2. bound \in [Versions -> Contents \union {NoContent}]
      OBVIOUS
    <2>3. commands \in 0..MaxCommands /\ crashes \in 0..MaxCrashes
      OBVIOUS
    <2> QED BY <2>1, <2>2, <2>3 DEF DaemonTypeOK
  <1>2. RegistryInv /\ WriteInv
    BY DEF RegistryInv, WriteInv
  <1>3. OverlapInv
    BY DEF OverlapInv
  <1>4. TemplateInv
    BY DEF TemplateInv
  <1>5. LoneCreateSucceeds
    BY DEF LoneCreateSucceeds
  <1> QED BY <1>1, <1>2, <1>3, <1>4, <1>5 DEF DaemonInv

\* A handler goes on, and nothing that the invariant speaks of changes with it
\* but rows; before the lock a create goes only when its write has ended.
LEMMA MoveStep ==
    ASSUME DaemonInv, NEW h \in Handlers, NEW from \in Points, NEW to \in Points,
           Reach(h, from, to), from \notin Final,
           to # "idle",
           UNCHANGED <<logVars, template, write, overlapped, meddled, crashes>>,
           UNCHANGED <<worker, outside, commands, daemon>>,
           rows' \subseteq Creates,
           rows' # {} => current # NoPointer,
           h \in Creates =>
              /\ to # "refused"
              /\ from # "idle"
              /\ to \in {"connect", "query"} => from \in {"flock", "connect"} /\ current # NoPointer
              /\ to = "flock" => write[h] = "done",
           h \in Enqueues /\ to \in {"flock", "begin", "commit"} => current # NoPointer
    PROVE  DaemonInv'
  <1> USE DaemonAssumption DEF Reach, DaemonInv, logVars
  <1>1. DaemonTypeOK'
    BY DEF DaemonTypeOK, Points
  <1>2. RegistryInv'
    BY DEF RegistryInv, DaemonTypeOK
  <1>3. WriteInv'
    BY DEF WriteInv, DaemonTypeOK, Points
  <1>4. OverlapInv'
    BY DEF OverlapInv, DaemonTypeOK
  <1>5. TemplateInv'
    BY DEF TemplateInv, DaemonTypeOK
  <1>6. LoneCreateSucceeds'
    BY DEF LoneCreateSucceeds, DaemonTypeOK
  <1> QED BY <1>1, <1>2, <1>3, <1>4, <1>5, <1>6

\* Steps of the rest of the process and of other processes, as far as they
\* leave requests, template and registry alone.
LEMMA ElsewhereStep ==
    ASSUME DaemonInv, DaemonTypeOK',
           UNCHANGED <<logVars, at, template, write, rows, overlapped, meddled, crashes>>
    PROVE  DaemonInv'
  <1> USE DEF DaemonInv, logVars
  <1>1. RegistryInv' /\ WriteInv' /\ OverlapInv'
    BY DEF RegistryInv, WriteInv, OverlapInv
  <1>2. TemplateInv' /\ LoneCreateSucceeds'
    BY DEF TemplateInv, LoneCreateSucceeds
  <1> QED BY <1>1, <1>2

LEMMA BeginCreateStep ==
    ASSUME DaemonInv, NEW h \in Creates, BeginCreate(h)
    PROVE  DaemonInv'
  <1> USE DaemonAssumption DEF BeginCreate, Reach, DaemonInv, logVars
  <1>1. DaemonTypeOK'
    BY DEF DaemonTypeOK, Points
  <1>2. RegistryInv'
    BY DEF RegistryInv, DaemonTypeOK
  <1>3. WriteInv'
    BY DEF WriteInv, DaemonTypeOK
  <1>4. OverlapInv'
    <2>1. Creating' \subseteq Creating \union {h}
      BY DEF DaemonTypeOK
    <2>2. Creating = {} \/ overlapped' = overlapped \union Creating \union {h}
      OBVIOUS
    <2>3. overlapped \subseteq overlapped'
      OBVIOUS
    <2>4. ASSUME NEW k \in Creating', NEW l \in Creating', k # l
          PROVE  k \in overlapped'
      <3>1. CASE Creating = {}
        BY <2>1, <2>4, <3>1
      <3>2. CASE Creating # {}
        BY <2>1, <2>2, <2>4, <3>2
      <3> QED BY <3>1, <3>2
    <2> QED BY <2>4 DEF OverlapInv
  <1>5. TemplateInv'
    BY DEF TemplateInv, WriteInv, DaemonTypeOK
  <1>6. LoneCreateSucceeds'
    BY DEF LoneCreateSucceeds, DaemonTypeOK
  <1> QED BY <1>1, <1>2, <1>3, <1>4, <1>5, <1>6

LEMMA WriteStep ==
    ASSUME DaemonInv, NEW h \in Creates, Writes(h)
    PROVE  DaemonInv'
  <1> USE DaemonAssumption DEF Writes, OpenTemplate, FillTemplate, DaemonInv, logVars
  <1>1. DaemonTypeOK'
    BY DEF DaemonTypeOK
  <1>2. RegistryInv' /\ LoneCreateSucceeds'
    BY DEF RegistryInv, LoneCreateSucceeds
  <1>3. WriteInv'
    BY DEF WriteInv, DaemonTypeOK
  <1>4. OverlapInv'
    <2>1. Creating' \subseteq Creating /\ overlapped' = overlapped
      BY DEF DaemonTypeOK
    <2> QED BY <2>1 DEF OverlapInv
  <1>5. TemplateInv'
    BY DEF TemplateInv, DaemonTypeOK
  <1> QED BY <1>1, <1>2, <1>3, <1>4, <1>5

\* The registry comes to know what the template holds.
LEMMA InitRegistryStep ==
    ASSUME DaemonInv, NEW h \in Handlers, InitRegistry(h)
    PROVE  DaemonInv'
  <1> USE DaemonAssumption DEF InitRegistry, Activate, Elsewhere, Reach, DaemonInv
  <1>1. /\ template \in Contents
        /\ current' = [version |-> FirstVersion, hash |-> template]
        /\ current' # NoPointer
    BY DEF Admissible
  <1>2. DaemonTypeOK'
    BY <1>1 DEF DaemonTypeOK, Points
  <1>3. RegistryInv'
    BY <1>1 DEF RegistryInv
  <1>4. WriteInv'
    BY DEF WriteInv, DaemonTypeOK
  <1>5. OverlapInv' /\ LoneCreateSucceeds'
    BY DEF OverlapInv, LoneCreateSucceeds, DaemonTypeOK
  <1>6. TemplateInv'
    BY <1>1 DEF TemplateInv, DaemonTypeOK
  <1> QED BY <1>2, <1>3, <1>4, <1>5, <1>6

\* An untouched root whose creates do not overlap has the default template and
\* no other bytes under v1.0 by the time of the lock.
LEMMA RefuseInitStep ==
    ASSUME DaemonInv, NEW h \in Handlers, RefuseInit(h)
    PROVE  DaemonInv'
  <1> USE DaemonAssumption DEF RefuseInit, OnlyMoves, Elsewhere, Reach, DaemonInv, logVars
  <1>1. h \in overlapped \/ crashes > 0 \/ meddled
    <2>1. SUFFICES ASSUME crashes = 0, ~meddled
                   PROVE  h \in overlapped
      BY DEF DaemonTypeOK
    <2>2. template \in {Truncated, DefaultContent}
      BY <2>1 DEF TemplateInv
    <2>3. template = Truncated
      BY <2>1, <2>2 DEF TemplateInv, Admissible
    <2>4. PICK k \in Creates : write[k] = "fill"
      BY <2>1, <2>3 DEF TemplateInv
    <2>5. k # h /\ {k, h} \subseteq Creating
      BY <2>4 DEF WriteInv
    <2> QED BY <2>5 DEF OverlapInv
  <1>2. DaemonTypeOK' /\ RegistryInv'
    BY DEF DaemonTypeOK, RegistryInv, Points
  <1>3. WriteInv' /\ OverlapInv'
    BY DEF WriteInv, OverlapInv, DaemonTypeOK
  <1>4. TemplateInv'
    BY DEF TemplateInv, DaemonTypeOK
  <1>5. LoneCreateSucceeds'
    BY <1>1 DEF LoneCreateSucceeds, DaemonTypeOK
  <1> QED BY <1>2, <1>3, <1>4, <1>5

LEMMA CrashStep ==
    ASSUME DaemonInv, Crash
    PROVE  DaemonInv'
  <1> USE DaemonAssumption DEF Crash, DaemonInv, logVars
  <1>1. DaemonTypeOK'
    BY DEF DaemonTypeOK, Points
  <1>2. RegistryInv'
    BY DEF RegistryInv, DaemonTypeOK
  <1>3. WriteInv'
    BY DEF WriteInv, DaemonTypeOK
  <1>4. OverlapInv'
    <2>1. Creating' = {}
      BY DEF DaemonTypeOK
    <2> QED BY <2>1 DEF OverlapInv
  <1>5. crashes' > 0
    BY DEF DaemonTypeOK
  <1>6. TemplateInv' /\ LoneCreateSucceeds'
    BY <1>5 DEF TemplateInv, LoneCreateSucceeds
  <1> QED BY <1>1, <1>2, <1>3, <1>4, <1>6

\* Another process changes the registry, or the user the template.
LEMMA MeddlingStep ==
    ASSUME DaemonInv, CommandWrites \/ EditTemplate
    PROVE  DaemonInv'
  <1> USE DaemonAssumption DEF DaemonInv
  <1>1. CASE CommandWrites
    <2>1. PICK v \in Versions, c \in Contents : Register(v, c) \/ Activate(v, c)
      BY <1>1 DEF CommandWrites, LogNext
    <2>2. /\ UNCHANGED <<at, template, write, rows, worker, outside, commands, daemon, crashes,
                         overlapped>>
          /\ meddled' = (meddled \/ bound'[FirstVersion] # bound[FirstVersion])
      BY <1>1 DEF CommandWrites
    <2>3. bound' \in [Versions -> Contents \union {NoContent}]
      BY <2>1 DEF Register, Activate, DaemonTypeOK
    <2>4. current' = current \/ current' = [version |-> v, hash |-> c]
      BY <2>1 DEF Register, Activate
    <2>5. DaemonTypeOK'
      BY <2>2, <2>3, <2>4 DEF DaemonTypeOK
    <2>6. current # NoPointer => current' # NoPointer
      BY <2>4
    <2>7. RegistryInv'
      BY <2>2, <2>6 DEF RegistryInv
    <2>8. WriteInv' /\ OverlapInv' /\ LoneCreateSucceeds'
      BY <2>2 DEF WriteInv, OverlapInv, LoneCreateSucceeds, DaemonTypeOK
    <2>9. TemplateInv'
      BY <2>2 DEF TemplateInv, DaemonTypeOK
    <2> QED BY <2>5, <2>7, <2>8, <2>9
  <1>2. CASE EditTemplate
    <2> USE <1>2 DEF EditTemplate, logVars
    <2>1. DaemonTypeOK'
      BY DEF DaemonTypeOK
    <2>2. RegistryInv' /\ WriteInv' /\ OverlapInv'
      BY DEF RegistryInv, WriteInv, OverlapInv
    <2>3. TemplateInv' /\ LoneCreateSucceeds'
      BY DEF TemplateInv, LoneCreateSucceeds
    <2> QED BY <2>1, <2>2, <2>3
  <1> QED BY <1>1, <1>2

-----------------------------------------------------------------------------
(* All steps.                                                              *)

LEMMA RequestStep ==
    ASSUME DaemonInv, NEW h \in Handlers,
           Runs(h) \/ Granted(h) \/ Writes(h) \/ Abandon(h)
    PROVE  DaemonInv'
  <1> USE DaemonAssumption DEF OnlyMoves, Elsewhere, Points
  <1>1. /\ rows \subseteq Creates
        /\ rows # {} => current # NoPointer
        /\ h \in Creates /\ at[h] \in {"connect", "query"} => current # NoPointer
        /\ h \in Enqueues /\ at[h] \in {"flock", "begin", "commit"} => current # NoPointer
    BY DEF DaemonInv, DaemonTypeOK, RegistryInv
  <1>2. CASE Writes(h) \/ (h \in Creates /\ BeginCreate(h))
    BY <1>2, WriteStep, BeginCreateStep DEF Writes
  <1>3. CASE InitRegistry(h) \/ RefuseInit(h)
    BY <1>3, InitRegistryStep, RefuseInitStep
  <1>4. CASE h \in Creates /\ TemplateWritten(h)
    <2>1. Reach(h, "template", "flock")
      BY <1>4 DEF TemplateWritten
    <2> QED BY <1>1, <1>4, <2>1, MoveStep DEF TemplateWritten
  <1>5. CASE BeginStatement(h)
    <2>1. Reach(h, "idle", "connect") /\ h \notin Creates
      BY <1>5 DEF BeginStatement
    <2> QED BY <1>1, <1>5, <2>1, MoveStep DEF BeginStatement
  <1>6. CASE Connect(h)
    <2>1. Reach(h, "connect", "query")
      BY <1>6 DEF Connect
    <2>2. h \in Creates => current # NoPointer
      BY <1>1, <2>1 DEF Reach
    <2> QED BY <1>1, <1>6, <2>1, <2>2, MoveStep DEF Connect
  <1>7. CASE InsertProject(h)
    <2>1. Reach(h, "query", "answered") /\ h \in Creates /\ rows' = rows \union {h}
      BY <1>7 DEF InsertProject
    <2>2. current # NoPointer
      BY <1>1, <2>1 DEF Reach
    <2> QED BY <1>1, <1>7, <2>1, <2>2, MoveStep DEF InsertProject
  <1>8. CASE ListProjects(h)
    <2>1. Reach(h, "query", "answered")
      BY <1>8 DEF ListProjects
    <2> QED BY <1>1, <1>8, <2>1, MoveStep DEF ListProjects
  <1>9. CASE FindProject(h)
    <2>1. \/ Reach(h, "query", "refused") /\ rows = {}
          \/ Reach(h, "query", "flock") /\ rows # {}
      BY <1>9 DEF FindProject
    <2>2. h \notin Creates
      BY <1>9 DEF FindProject
    <2> QED BY <1>1, <1>9, <2>1, <2>2, MoveStep DEF FindProject
  <1>10. CASE AcquireShared(h)
    <2>1. \/ Reach(h, "flock", "failed")
          \/ Reach(h, "flock", "begin") /\ current # NoPointer
      BY <1>10 DEF AcquireShared
    <2>2. h \notin Creates
      BY <1>10 DEF AcquireShared
    <2> QED BY <1>1, <1>10, <2>1, <2>2, MoveStep DEF AcquireShared
  <1>11. CASE BeginTransaction(h)
    <2>1. Reach(h, "begin", "commit")
      BY <1>11 DEF BeginTransaction
    <2>2. h \in Enqueues => current # NoPointer
      BY <1>1, <2>1 DEF Reach
    <2> QED BY <1>1, <1>11, <2>1, <2>2, MoveStep DEF BeginTransaction
  <1>12. CASE Commit(h)
    <2>1. Reach(h, "commit", "answered")
      BY <1>12 DEF Commit
    <2> QED BY <1>1, <1>12, <2>1, MoveStep DEF Commit
  <1>13. CASE Abandon(h)
    <2>1. PICK from \in {"template", "connect", "query", "begin", "commit"} : Reach(h, from, "failed")
      BY <1>13 DEF Abandon
    <2> QED BY <1>1, <1>13, <2>1, MoveStep DEF Abandon
  <1> QED BY <1>2, <1>3, <1>4, <1>5, <1>6, <1>7, <1>8, <1>9, <1>10, <1>11, <1>12, <1>13
          DEF Runs, Granted

LEMMA StepDaemon ==
    ASSUME DaemonInv, [Next]_vars
    PROVE  DaemonInv'
  <1> USE DEF daemonVars, logVars
  <1>1. CASE UNCHANGED vars
    <2>1. DaemonTypeOK'
      BY <1>1 DEF vars, DaemonInv, DaemonTypeOK
    <2> QED BY <1>1, <2>1, ElsewhereStep DEF vars
  <1>2. ASSUME NEW h \in Handlers, Runs(h) \/ Granted(h) \/ Writes(h) \/ Abandon(h)
        PROVE  DaemonInv'
    BY <1>2, RequestStep
  <1>3. CASE ClaimRun \/ BeginAnalysis \/ EndAnalysis
    <2>1. DaemonTypeOK'
      BY <1>3 DEF ClaimRun, BeginAnalysis, EndAnalysis, WorkerGoes, DaemonInv, DaemonTypeOK
    <2> QED BY <1>3, <2>1, ElsewhereStep DEF ClaimRun, BeginAnalysis, EndAnalysis, WorkerGoes
  <1>4. CASE CtrlC \/ Drained
    <2>1. DaemonTypeOK'
      BY <1>4 DEF CtrlC, Drained, DaemonInv, DaemonTypeOK
    <2> QED BY <1>4, <2>1, ElsewhereStep DEF CtrlC, Drained
  <1>5. CASE Crash
    BY <1>5, CrashStep
  <1>6. CASE (\E mode \in {"shared", "exclusive"} : CommandBegins(mode)) \/ CommandEnds
    <2>1. DaemonTypeOK'
      BY <1>6, DaemonAssumption DEF CommandBegins, CommandEnds, DaemonInv, DaemonTypeOK
    <2> QED BY <1>6, <2>1, ElsewhereStep DEF CommandBegins, CommandEnds
  <1>7. CASE CommandWrites \/ EditTemplate
    BY <1>7, MeddlingStep
  <1> QED BY <1>1, <1>2, <1>3, <1>4, <1>5, <1>6, <1>7 DEF Next

LEMMA DaemonInvariant == Spec => []DaemonInv
  BY InitDaemon, StepDaemon, PTL DEF Spec

-----------------------------------------------------------------------------
(* The theorems.                                                           *)

\* Requests, template, registry and database keep their types.
THEOREM DaemonTypeCorrect == Spec => []DaemonTypeOK
  <1>1. DaemonInv => DaemonTypeOK
    BY DEF DaemonInv
  <1> QED BY <1>1, DaemonInvariant, PTL

\* Whatever creates overlap, fail or are cut off, an enqueue that has found the
\* project finds an active version, and a create that is refused has met another
\* create, a crash or another process.
THEOREM CreatedProjectsAreUsable == Spec => []ProjectsAreUsable
  <1>1. DaemonInv => ProjectHasRegistry
    BY DEF DaemonInv, RegistryInv, ProjectHasRegistry
  <1>2. DaemonInv => ProjectsAreUsable
    BY <1>1 DEF DaemonInv, ProjectsAreUsable
  <1> QED BY <1>2, DaemonInvariant, PTL

\* When as many creates as there are threads wait for an enqueue, no step of the
\* daemon or of any other process lets it answer again: flock keeps the threads.
THEOREM StandstillsStay == Spec => StandstillIsForever
  <1>1. ASSUME DaemonTypeOK, [Next]_vars, Standstill
        PROVE  Standstill' \/ crashes' > crashes
    <2>1. ~ThreadFree
      <3>1. IsFiniteSet(Blocked)
        BY DaemonAssumption, FS_Subset DEF Blocked
      <3>2. Cardinality(Blocked) \in Nat
        BY <3>1, FS_CardinalityType
      <3> QED BY <1>1, <3>2, DaemonAssumption DEF ThreadFree, ThreadsInUse, Standstill
    <2>2. ASSUME NEW h \in Handlers
          PROVE  ~Granted(h) /\ ~Runs(h) /\ ~Abandon(h)
      <3>1. ~InitRegistry(h) /\ ~RefuseInit(h)
        BY <1>1 DEF InitRegistry, RefuseInit, LockIdle, Standstill
      <3>2. ~AcquireShared(h)
        BY <1>1, DaemonAssumption DEF AcquireShared, Reach, Standstill, Blocked
      <3>3. ~Runs(h) /\ ~Abandon(h)
        BY <2>1 DEF Runs, BeginCreate, TemplateWritten, BeginStatement, Connect, InsertProject,
                    ListProjects, FindProject, BeginTransaction, Commit, Abandon
      <3> QED BY <3>1, <3>2, <3>3 DEF Granted
    <2>3. CASE Crash
      BY <1>1, <2>3 DEF Crash, DaemonTypeOK
    <2>4. CASE UNCHANGED at
      BY <1>1, <2>4 DEF Standstill, Blocked, Holders
    <2>5. UNCHANGED at \/ Crash
      BY <1>1, <2>2 DEF Next, Writes, OpenTemplate, FillTemplate, ClaimRun, BeginAnalysis,
              EndAnalysis, WorkerGoes, CtrlC, Drained, CommandBegins, CommandWrites, CommandEnds,
              EditTemplate, vars, daemonVars
    <2> QED BY <2>3, <2>4, <2>5
  <1>2. DaemonTypeOK /\ [Next]_vars => [Standstill => Standstill' \/ crashes' > crashes]_vars
    BY <1>1
  <1> QED BY <1>2, DaemonTypeCorrect, PTL DEF Spec, StandstillIsForever
=============================================================================
