----------------------------- MODULE Runs_proofs -----------------------------
(***************************************************************************)
(* Proofs about RunQueue and then about Trends.                            *)
(*                                                                         *)
(* RunQueue, for every set of runs and daemons and every bound: the safety *)
(* properties the runs check, and that RunQueue implements JobQueue.       *)
(*                                                                         *)
(* Trends: that reading report directories without a lock gives what a     *)
(* snapshot would give, for any number of runs, daemons and readers, and   *)
(* that every daemon only appends to the history.                          *)
(***************************************************************************)
EXTENDS Trends, FiniteSetTheorems, TLAPS

-----------------------------------------------------------------------------
(* The inductive invariant.                                                *)

\* A worker holds a run exactly while it processes one.
HoldInv == \A d \in Daemons : pc[d] \in Holding <=> cur[d] # NoRun

\* A request in flight has no row yet.
RequestInv == \A r \in Runs : request[r] # NoDaemon => status[r] = "absent"

\* What was ahead of a run is in the table with an earlier stamp.
AheadInv ==
    \A r \in Runs :
       status[r] # "absent" =>
          \A s \in ahead[r] : status[s] # "absent" /\ queuedAt[s] < queuedAt[r]

\* How far the report of a run is, by where the run and its worker stand.
UnclaimedFiles ==
    \A r \in Runs : status[r] \in {"absent", "queued"} => written[r] = 0 /\ r \notin torn

WorkerFiles ==
    \A d \in Daemons :
       /\ pc[d] = "process" => written[cur[d]] = 0 /\ cur[d] \notin torn
       /\ pc[d] = "report" => written[cur[d]] < ReportFiles
       /\ pc[d] = "mark" => written[cur[d]] = ReportFiles /\ cur[d] \notin torn
       /\ pc[d] \in {"fail", "lastfail"} /\ dbErrors = 0 =>
             written[cur[d]] < ReportFiles

IInv ==
    /\ TypeOK /\ HoldInv /\ OneHolder /\ RowConsistent
    /\ RequestInv /\ AheadInv /\ NoOvertaking
    /\ UnclaimedFiles /\ WorkerFiles /\ DoneIsReported /\ CompleteReportIsNotFailed
    /\ StrandedNeedsFault

-----------------------------------------------------------------------------
(* The moves of a worker that touch nothing but its position.              *)
Moves(d) ==
    \/ RecoverRunningWithoutStartedAt(d)
    \/ LoopTop(d) \/ TimerFires(d) \/ SignalWakes(d) \/ ClaimNothing(d)
    \/ AnalysisSucceeds(d) \/ AnalysisFails(d) \/ WriteFails(d)
    \/ Boot(d)

MovePairs ==
    {<<"recover", "top">>, <<"top", "stopped">>, <<"top", "sleep">>,
     <<"sleep", "claim">>, <<"sleep", "stopped">>, <<"claim", "top">>,
     <<"process", "report">>, <<"process", "fail">>, <<"process", "lastfail">>,
     <<"report", "fail">>, <<"down", "recover">>}

Move(d) == \E from, point \in WorkerPoints : <<from, point>> \in MovePairs /\ Goto(d, from, point)

\* The recovery never finds a row (RowConsistent), so it never ends the worker.
LEMMA MovesAreMoves ==
    ASSUME IInv, NEW d \in Daemons, Moves(d)
    PROVE  Move(d)
  <1> USE DEF Move, MovePairs, WorkerPoints, Holding, Ended
  <1>1. CASE RecoverRunningWithoutStartedAt(d)
    <2>1. {r \in Runs : status[r] = "running" /\ r \notin started} = {}
      BY DEF IInv, RowConsistent
    <2> QED BY <1>1, <2>1 DEF RecoverRunningWithoutStartedAt
  <1>2. CASE LoopTop(d)
    <2>1. CASE d \in shutdown
      BY <1>2, <2>1 DEF LoopTop
    <2>2. CASE d \notin shutdown
      BY <1>2, <2>2 DEF LoopTop
    <2> QED BY <2>1, <2>2
  <1>3. CASE TimerFires(d)
    BY <1>3 DEF TimerFires
  <1>4. CASE SignalWakes(d)
    BY <1>4 DEF SignalWakes
  <1>5. CASE ClaimNothing(d)
    BY <1>5 DEF ClaimNothing
  <1>6. CASE AnalysisSucceeds(d)
    BY <1>6 DEF AnalysisSucceeds
  <1>7. CASE AnalysisFails(d)
    BY <1>7 DEF AnalysisFails
  <1>8. CASE WriteFails(d)
    BY <1>8 DEF WriteFails
  <1>9. CASE Boot(d)
    BY <1>9 DEF Boot
  <1> QED
    BY <1>1, <1>2, <1>3, <1>4, <1>5, <1>6, <1>7, <1>8, <1>9 DEF Moves

-----------------------------------------------------------------------------
(* Init => IInv.                                                           *)
LEMMA InitIInv == Init => IInv
  <1> SUFFICES ASSUME Init PROVE IInv
    OBVIOUS
  <1> USE RunQueueAssumption DEF Init
  <1>1. TypeOK
    BY DEF TypeOK, Statuses, WorkerPoints, Holding, Ended, ReportFiles
  <1>2. HoldInv /\ OneHolder /\ RowConsistent /\ RequestInv /\ AheadInv /\ NoOvertaking
    BY DEF HoldInv, OneHolder, RowConsistent, RequestInv, AheadInv, NoOvertaking,
           Holding, Settled
  <1>3. UnclaimedFiles /\ WorkerFiles
    BY DEF UnclaimedFiles, WorkerFiles
  <1>4. DoneIsReported /\ CompleteReportIsNotFailed /\ StrandedNeedsFault
    BY DEF DoneIsReported, CompleteReportIsNotFailed, StrandedNeedsFault
  <1> QED BY <1>1, <1>2, <1>3, <1>4 DEF IInv

-----------------------------------------------------------------------------
(* IInv is preserved: one lemma per action.                                *)

\* The conjuncts about rows and requests only.
RowInv == RowConsistent /\ RequestInv /\ AheadInv /\ NoOvertaking
\* The conjuncts about rows and report files only.
FileInv == UnclaimedFiles /\ DoneIsReported /\ CompleteReportIsNotFailed

LEMMA RowFrame ==
    ASSUME RowInv, UNCHANGED <<tableVars, requestVars>>
    PROVE  RowInv'
  BY DEF RowInv, RowConsistent, RequestInv, AheadInv, NoOvertaking, tableVars, requestVars

LEMMA FileFrame ==
    ASSUME FileInv, UNCHANGED <<status, fileVars, dbErrors>>
    PROVE  FileInv'
  BY DEF FileInv, UnclaimedFiles, DoneIsReported, CompleteReportIsNotFailed, fileVars

LEMMA WorkerFrame ==
    ASSUME HoldInv /\ OneHolder /\ WorkerFiles /\ StrandedNeedsFault,
           UNCHANGED <<status, workerVars, fileVars, faultVars>>
    PROVE  (HoldInv /\ OneHolder /\ WorkerFiles /\ StrandedNeedsFault)'
  BY DEF HoldInv, OneHolder, WorkerFiles, StrandedNeedsFault, workerVars, fileVars, faultVars

LEMMA TickIInv ==
    ASSUME IInv, Tick
    PROVE  IInv'
  <1>1. TypeOK'
    BY RunQueueAssumption DEF IInv, TypeOK, Tick, tableVars, requestVars, workerVars, fileVars, faultVars
  <1>2. RowInv' /\ FileInv'
    BY RowFrame, FileFrame DEF IInv, RowInv, FileInv, Tick, tableVars, faultVars
  <1>3. (HoldInv /\ OneHolder /\ WorkerFiles /\ StrandedNeedsFault)'
    BY WorkerFrame DEF IInv, Tick, tableVars
  <1> QED BY <1>1, <1>2, <1>3 DEF IInv, RowInv, FileInv

LEMMA StampIInv ==
    ASSUME NEW d \in Daemons, NEW r \in Runs, IInv, StampRequest(d, r)
    PROVE  IInv'
  <1>1. TypeOK'
    BY DEF IInv, TypeOK, StampRequest, workerVars, fileVars, faultVars
  <1>2. RowConsistent' /\ RequestInv' /\ NoOvertaking'
    BY DEF IInv, TypeOK, RowConsistent, RequestInv, NoOvertaking, StampRequest
  <1>3. AheadInv'
    BY DEF IInv, TypeOK, AheadInv, StampRequest
  <1>4. FileInv'
    BY FileFrame DEF IInv, FileInv, StampRequest, faultVars
  <1>5. (HoldInv /\ OneHolder /\ WorkerFiles /\ StrandedNeedsFault)'
    BY WorkerFrame DEF IInv, StampRequest
  <1> QED BY <1>1, <1>2, <1>3, <1>4, <1>5 DEF IInv, FileInv

LEMMA InsertIInv ==
    ASSUME NEW r \in Runs, IInv, InsertRun(r)
    PROVE  IInv'
  <1> USE DEF InsertRun, IInv
  <1>1. status[r] = "absent"
    BY DEF RequestInv
  <1>2. MeetQueue(r) \in [Runs -> SUBSET Runs]
    BY DEF MeetQueue, TypeOK, Queued
  <1>3. TypeOK'
    BY <1>2 DEF TypeOK, Statuses, workerVars, fileVars, faultVars
  <1>4. RowConsistent' /\ RequestInv'
    BY <1>1 DEF TypeOK, RowConsistent, RequestInv, Settled
  <1>5. NoOvertaking'
    <2> SUFFICES ASSUME NEW s \in Runs, status'[s] \notin {"absent", "queued"},
                        NEW q \in ahead'[s]
                 PROVE  status'[q] # "queued"
      BY DEF NoOvertaking
    <2>1. s # r /\ status[s] \notin {"absent", "queued"}
      BY DEF TypeOK
    <2>2. q \in ahead[s]
      BY <2>1 DEF MeetQueue, Queued
    <2>3. status[q] # "queued" /\ status[q] # "absent" /\ q \in Runs
      BY <2>1, <2>2 DEF NoOvertaking, AheadInv, TypeOK
    <2> QED BY <1>1, <2>3 DEF TypeOK
  <1>6. AheadInv'
    <2> SUFFICES ASSUME NEW s \in Runs, status'[s] # "absent", NEW q \in ahead'[s]
                 PROVE  status'[q] # "absent" /\ queuedAt[q] < queuedAt[s]
      BY DEF AheadInv
    <2>1. CASE s = r
      BY <2>1 DEF MeetQueue, Queued, TypeOK
    <2>2. CASE s # r /\ q \in ahead[s]
      BY <2>2, <1>1 DEF AheadInv, TypeOK
    <2>3. CASE s # r /\ q \notin ahead[s]
      <3>1. q = r /\ queuedAt[r] < queuedAt[s]
        BY <2>3 DEF MeetQueue
      <3> QED BY <3>1 DEF TypeOK
    <2> QED BY <2>1, <2>2, <2>3
  <1>7. FileInv'
    BY <1>1 DEF TypeOK, FileInv, UnclaimedFiles, DoneIsReported,
                CompleteReportIsNotFailed, fileVars, faultVars
  <1>8. HoldInv' /\ OneHolder'
    BY <1>1 DEF TypeOK, HoldInv, OneHolder, workerVars
  <1>9. WorkerFiles' /\ StrandedNeedsFault'
    BY <1>1 DEF TypeOK, WorkerFiles, StrandedNeedsFault, workerVars, fileVars, faultVars
  <1> QED BY <1>3, <1>4, <1>5, <1>6, <1>7, <1>8, <1>9 DEF FileInv

LEMMA RejectIInv ==
    ASSUME NEW r \in Runs, IInv, RejectRequest(r)
    PROVE  IInv'
  <1> USE DEF RejectRequest, IInv, tableVars
  <1>1. TypeOK'
    BY DEF TypeOK, workerVars, fileVars, faultVars
  <1>2. RowInv'
    BY DEF TypeOK, RowInv, RowConsistent, RequestInv, AheadInv, NoOvertaking
  <1>3. FileInv'
    BY FileFrame DEF FileInv, faultVars
  <1>4. (HoldInv /\ OneHolder /\ WorkerFiles /\ StrandedNeedsFault)'
    BY WorkerFrame
  <1> QED BY <1>1, <1>2, <1>3, <1>4 DEF RowInv, FileInv

LEMMA MoveIInv ==
    ASSUME NEW d \in Daemons, IInv, Move(d)
    PROVE  IInv'
  <1>1. PICK from, point \in WorkerPoints : <<from, point>> \in MovePairs /\ Goto(d, from, point)
    BY DEF Move
  <1> USE <1>1 DEF Goto, MoveTo, IInv
  <1>2. TypeOK'
    BY DEF TypeOK, tableVars, requestVars, fileVars, faultVars
  <1>3. RowInv' /\ FileInv'
    BY RowFrame, FileFrame DEF RowInv, FileInv, tableVars, faultVars
  <1>4. HoldInv' /\ OneHolder' /\ StrandedNeedsFault'
    BY DEF TypeOK, HoldInv, OneHolder, StrandedNeedsFault, MovePairs, Holding, tableVars, faultVars
  <1>5. WorkerFiles'
    BY DEF TypeOK, WorkerFiles, MovePairs, ReportFiles, fileVars, faultVars
  <1> QED BY <1>2, <1>3, <1>4, <1>5 DEF RowInv, FileInv

LEMMA ClaimIInv ==
    ASSUME NEW d \in Daemons, IInv, ClaimNextRun(d)
    PROVE  IInv'
  <1>1. PICK r \in Runs : /\ IsOldest(r, Queued)
                          /\ status' = [status EXCEPT ![r] = "running"]
                          /\ started' = started \union {r}
                          /\ cur' = [cur EXCEPT ![d] = r]
    BY DEF ClaimNextRun
  <1> USE <1>1, RunQueueAssumption DEF IInv, ClaimNextRun, MoveTo
  <1>2. status[r] = "queued" /\ cur[d] = NoRun
    BY DEF IsOldest, Queued, HoldInv, Holding
  <1>3. \A s \in Runs : status[s] = "queued" => queuedAt[r] \leq queuedAt[s]
    BY DEF IsOldest, Queued, TypeOK
  <1>4. TypeOK'
    BY DEF TypeOK, Statuses, WorkerPoints, Holding, requestVars, fileVars, faultVars
  <1>5. RowConsistent' /\ RequestInv'
    BY <1>2 DEF TypeOK, RowConsistent, RequestInv, Settled, requestVars
  <1>6. AheadInv' /\ NoOvertaking'
    BY <1>2, <1>3 DEF TypeOK, AheadInv, NoOvertaking, requestVars
  <1>7. FileInv'
    BY <1>2 DEF TypeOK, FileInv, UnclaimedFiles, DoneIsReported,
                CompleteReportIsNotFailed, fileVars, faultVars
  <1>8. HoldInv'
    BY DEF TypeOK, HoldInv, Holding
  <1>9. OneHolder' /\ StrandedNeedsFault'
    BY <1>2 DEF TypeOK, OneHolder, StrandedNeedsFault, faultVars
  <1>10. WorkerFiles'
    BY <1>2 DEF TypeOK, UnclaimedFiles, WorkerFiles, fileVars, faultVars
  <1> QED BY <1>4, <1>5, <1>6, <1>7, <1>8, <1>9, <1>10 DEF FileInv

\* The run a working daemon holds, and why nobody else's files are its files.
LEMMA Held ==
    ASSUME IInv, NEW d \in Daemons, pc[d] \in Holding
    PROVE  /\ cur[d] \in Runs /\ cur[d] # NoRun
           /\ status[cur[d]] = "running"
           /\ \A e \in Daemons : e # d => cur[e] # cur[d]
           /\ \A e \in Daemons : pc[e] \in Holding => cur[e] \in Runs
  BY DEF IInv, TypeOK, HoldInv, OneHolder

LEMMA BeginFileIInv ==
    ASSUME NEW d \in Daemons, IInv, BeginFile(d)
    PROVE  IInv'
  <1> USE DEF IInv, BeginFile
  <1>1. pc[d] \in Holding
    BY DEF Holding
  <1>2. TypeOK'
    BY <1>1, Held DEF TypeOK, tableVars, requestVars, workerVars, faultVars
  <1>3. RowInv'
    BY RowFrame DEF RowInv
  <1>4. FileInv'
    BY <1>1, Held DEF FileInv, UnclaimedFiles, DoneIsReported,
                      CompleteReportIsNotFailed, tableVars, faultVars
  <1>5. HoldInv' /\ OneHolder' /\ StrandedNeedsFault'
    BY DEF HoldInv, OneHolder, StrandedNeedsFault, tableVars, workerVars, faultVars
  <1>6. WorkerFiles'
    BY <1>1, Held DEF TypeOK, WorkerFiles, Holding, workerVars, faultVars
  <1> QED BY <1>2, <1>3, <1>4, <1>5, <1>6 DEF RowInv, FileInv

LEMMA EndFileIInv ==
    ASSUME NEW d \in Daemons, IInv, EndFile(d)
    PROVE  IInv'
  <1> USE DEF IInv, EndFile, MoveTo, AfterFile, ReportFiles
  <1>1. pc[d] \in Holding
    BY DEF Holding
  <1>2. written[cur[d]] \in 0..4
    BY <1>1, Held DEF TypeOK, WorkerFiles
  <1>3. TypeOK'
    BY <1>1, <1>2, Held DEF TypeOK, WorkerPoints, Holding, tableVars, requestVars, faultVars
  <1>4. RowInv'
    BY RowFrame DEF RowInv
  <1>5. FileInv'
    BY <1>1, Held DEF TypeOK, FileInv, UnclaimedFiles, DoneIsReported,
                      CompleteReportIsNotFailed, tableVars, faultVars
  <1>6. HoldInv' /\ OneHolder' /\ StrandedNeedsFault'
    BY <1>1, Held DEF TypeOK, HoldInv, OneHolder, StrandedNeedsFault, Holding,
                      tableVars, faultVars
  <1>7. WorkerFiles'
    BY <1>1, <1>2, Held DEF TypeOK, WorkerFiles, Holding, faultVars
  <1> QED BY <1>3, <1>4, <1>5, <1>6, <1>7 DEF RowInv, FileInv

LEMMA MarkDoneIInv ==
    ASSUME NEW d \in Daemons, IInv, MarkDone(d)
    PROVE  IInv'
  <1> USE DEF IInv, MarkDone, Release, MoveTo
  <1>1. pc[d] \in Holding
    BY DEF Holding
  <1>2. /\ status' = [status EXCEPT ![cur[d]] = "done"]
        /\ finished' = finished \union {cur[d]}
    BY <1>1, Held
  <1>3. TypeOK'
    BY <1>1, <1>2, Held DEF TypeOK, Statuses, WorkerPoints, requestVars, fileVars, faultVars
  <1>4. RowInv'
    BY <1>1, <1>2, Held DEF TypeOK, RowInv, RowConsistent, RequestInv, AheadInv,
                            NoOvertaking, Settled, requestVars
  <1>5. FileInv'
    BY <1>1, <1>2, Held DEF TypeOK, FileInv, UnclaimedFiles, DoneIsReported,
                            CompleteReportIsNotFailed, WorkerFiles, fileVars, faultVars
  <1>6. HoldInv' /\ OneHolder' /\ StrandedNeedsFault'
    BY <1>1, <1>2, Held DEF TypeOK, HoldInv, OneHolder, StrandedNeedsFault, Holding, faultVars
  <1>7. WorkerFiles'
    BY DEF TypeOK, WorkerFiles, fileVars, faultVars
  <1> QED BY <1>3, <1>4, <1>5, <1>6, <1>7 DEF RowInv, FileInv

LEMMA MarkFailedIInv ==
    ASSUME NEW d \in Daemons, IInv, MarkFailed(d)
    PROVE  IInv'
  <1> USE DEF IInv, MarkFailed, Release, MoveTo
  <1>1. pc[d] \in Holding
    BY DEF Holding
  <1>2. TypeOK'
    BY <1>1, Held DEF TypeOK, Statuses, WorkerPoints, requestVars, fileVars, faultVars
  <1>3. RowInv'
    BY <1>1, Held DEF TypeOK, RowInv, RowConsistent, RequestInv, AheadInv,
                      NoOvertaking, Settled, requestVars
  <1>4. FileInv'
    BY <1>1, Held DEF TypeOK, FileInv, UnclaimedFiles, DoneIsReported,
                      CompleteReportIsNotFailed, WorkerFiles, fileVars, faultVars
  <1>5. HoldInv' /\ OneHolder' /\ StrandedNeedsFault'
    BY <1>1, Held DEF TypeOK, HoldInv, OneHolder, StrandedNeedsFault, Holding, faultVars
  <1>6. WorkerFiles'
    BY DEF TypeOK, WorkerFiles, fileVars, faultVars
  <1> QED BY <1>2, <1>3, <1>4, <1>5, <1>6 DEF RowInv, FileInv

LEMMA DbErrorIInv ==
    ASSUME NEW d \in Daemons, IInv, DbError(d)
    PROVE  IInv'
  <1> USE RunQueueAssumption DEF IInv, DbError, MoveTo
  <1>1. dbErrors' # 0 /\ dbErrors' \in 0..MaxDbErrors
    BY DEF TypeOK
  <1>2. TypeOK'
    BY <1>1 DEF TypeOK, WorkerPoints, Holding, Ended, tableVars, requestVars, fileVars
  <1>3. RowInv'
    BY RowFrame DEF RowInv
  <1>4. FileInv'
    BY <1>1 DEF FileInv, UnclaimedFiles, DoneIsReported, CompleteReportIsNotFailed,
                tableVars, fileVars
  <1>5. HoldInv' /\ OneHolder'
    BY DEF TypeOK, HoldInv, OneHolder, Holding, tableVars
  <1>6. WorkerFiles' /\ StrandedNeedsFault'
    BY <1>1 DEF TypeOK, WorkerFiles, StrandedNeedsFault, fileVars
  <1> QED BY <1>2, <1>3, <1>4, <1>5, <1>6 DEF RowInv, FileInv

LEMMA SignalIInv ==
    ASSUME NEW d \in Daemons, IInv, Signal(d)
    PROVE  IInv'
  <1> USE DEF IInv, Signal, tableVars
  <1>1. TypeOK'
    BY DEF TypeOK, requestVars, workerVars, fileVars, faultVars
  <1>2. RowInv' /\ FileInv'
    BY RowFrame, FileFrame DEF RowInv, FileInv, faultVars
  <1>3. (HoldInv /\ OneHolder /\ WorkerFiles /\ StrandedNeedsFault)'
    BY WorkerFrame
  <1> QED BY <1>1, <1>2, <1>3 DEF RowInv, FileInv

LEMMA ExitIInv ==
    ASSUME NEW d \in Daemons, IInv, Exit(d)
    PROVE  IInv'
  <1> USE DEF IInv, Exit, MoveTo, tableVars
  <1>1. TypeOK'
    BY DEF TypeOK, WorkerPoints, Ended, requestVars, fileVars, faultVars
  <1>2. RowInv' /\ FileInv'
    BY RowFrame, FileFrame DEF RowInv, FileInv, faultVars
  <1>3. HoldInv' /\ OneHolder' /\ StrandedNeedsFault'
    BY DEF TypeOK, HoldInv, OneHolder, StrandedNeedsFault, Holding, faultVars
  <1>4. WorkerFiles'
    BY DEF TypeOK, WorkerFiles, fileVars, faultVars
  <1> QED BY <1>1, <1>2, <1>3, <1>4 DEF RowInv, FileInv

LEMMA CrashIInv ==
    ASSUME NEW d \in Daemons, IInv, Crash(d)
    PROVE  IInv'
  <1> USE RunQueueAssumption DEF IInv, Crash, MoveTo, tableVars
  <1>1. crashes' # 0 /\ crashes' \in 0..MaxCrashes
    BY DEF TypeOK
  <1>2. TypeOK'
    BY <1>1 DEF TypeOK, WorkerPoints, Ended, fileVars
  <1>3. RowInv'
    BY DEF TypeOK, RowInv, RowConsistent, RequestInv, AheadInv, NoOvertaking
  <1>4. FileInv'
    BY FileFrame DEF FileInv
  <1>5. HoldInv' /\ OneHolder'
    BY DEF TypeOK, HoldInv, OneHolder, Holding
  <1>6. WorkerFiles' /\ StrandedNeedsFault'
    BY <1>1 DEF TypeOK, WorkerFiles, StrandedNeedsFault, fileVars
  <1> QED BY <1>2, <1>3, <1>4, <1>5, <1>6 DEF RowInv, FileInv

LEMMA StutterIInv ==
    ASSUME IInv, UNCHANGED vars
    PROVE  IInv'
  <1> USE DEF IInv, vars
  <1>1. TypeOK'
    BY DEF TypeOK
  <1>2. RowInv' /\ FileInv'
    BY RowFrame, FileFrame DEF RowInv, FileInv, tableVars, requestVars, fileVars
  <1>3. (HoldInv /\ OneHolder /\ WorkerFiles /\ StrandedNeedsFault)'
    BY WorkerFrame DEF workerVars, fileVars, faultVars
  <1> QED BY <1>1, <1>2, <1>3 DEF RowInv, FileInv

\* The actions of Next, the position-only ones gathered in Move.
LEMMA NextCases ==
    ASSUME IInv, Next
    PROVE  \/ Tick
           \/ \E r \in Runs : InsertRun(r) \/ RejectRequest(r)
           \/ \E d \in Daemons, r \in Runs : StampRequest(d, r)
           \/ \E d \in Daemons :
                 \/ Move(d) \/ ClaimNextRun(d) \/ BeginFile(d) \/ EndFile(d)
                 \/ MarkDone(d) \/ MarkFailed(d) \/ DbError(d)
                 \/ Signal(d) \/ Exit(d) \/ Crash(d)
  BY MovesAreMoves DEF Next, RequestStep, WorkerStep, Moves

LEMMA StepIInv == IInv /\ [Next]_vars => IInv'
  BY StutterIInv, NextCases, TickIInv, StampIInv, InsertIInv, RejectIInv, MoveIInv,
     ClaimIInv, BeginFileIInv, EndFileIInv, MarkDoneIInv, MarkFailedIInv, DbErrorIInv,
     SignalIInv, ExitIInv, CrashIInv

\* Every reachable state satisfies the inductive invariant: rows, stamps,
\* report files and worker positions of worker.rs agree.
THEOREM Invariant == Spec => []IInv
  BY InitIInv, StepIInv, PTL DEF Spec

-----------------------------------------------------------------------------
(* The safety properties the runs check, for every instance.               *)

\* Every variable keeps its type; with it, the report writer never starts a
\* sixth file.
THEOREM TypeCorrect == Spec => []TypeOK
  BY Invariant, PTL DEF IInv

\* The claim of worker.rs is exclusive: a run has at most one holder.
THEOREM ClaimIsExclusive == Spec => []OneHolder
  BY Invariant, PTL DEF IInv

\* Status, started_at and finished_at agree, so the table's CHECK never stops
\* an UPDATE and the startup recovery of worker.rs finds no row.
THEOREM RowsAreConsistent == Spec => []RowConsistent
  BY Invariant, PTL DEF IInv

\* mark_done comes after the five report files.
THEOREM DoneRunsAreReported == Spec => []DoneIsReported
  BY Invariant, PTL DEF IInv

\* The report and the table disagree only after a database error.
THEOREM CompleteReportsAreNotFailed == Spec => []CompleteReportIsNotFailed
  BY Invariant, PTL DEF IInv

\* Row and report together: what index.sqlite tells of a run.
THEOREM TheTableTellsTheTruth == Spec => []TableTellsTruth
  BY RowsAreConsistent, DoneRunsAreReported, CompleteReportsAreNotFailed, PTL DEF TableTellsTruth

\* claim_next_run respects the stamps of ingest.rs: of two runs that wait in
\* the queue together the earlier-stamped is claimed first, whichever of the two
\* committed first.  (A run that commits after a later-stamped one was claimed
\* never waits with it, and comes behind it.)
THEOREM ClaimsDoNotOvertake == Spec => []NoOvertaking
  BY Invariant, PTL DEF IInv

\* Only a crash or a database error leaves a running row without a worker, and
\* only a database error leaves a daemon with a dead one.
THEOREM OnlyFaultsStrand == Spec => []StrandedNeedsFault
  BY Invariant, PTL DEF IInv

-----------------------------------------------------------------------------
(* The action properties.                                                  *)

\* No step, not even the unconditional UPDATE of mark_failed, changes the
\* verdict or the files of a settled run.
THEOREM SettledRunsAreFinal == Spec => SettledIsFinal
  <1>1. ASSUME IInv, [Next]_vars, NEW r \in Runs, status[r] \in Settled
        PROVE  status'[r] = status[r] /\ written'[r] = written[r] /\ (r \in torn' <=> r \in torn)
    <2> USE <1>1
    <2>1. TypeOK /\ RequestInv
      BY DEF IInv
    <2>2. ASSUME NEW d \in Daemons, pc[d] \in Holding
          PROVE  cur[d] # r
      BY <2>2, Held DEF Settled
    <2>3. CASE UNCHANGED vars
      BY <2>3 DEF vars
    <2>4. CASE Tick
      BY <2>4 DEF Tick, tableVars, fileVars
    <2>5. ASSUME NEW s \in Runs, InsertRun(s) \/ RejectRequest(s)
          PROVE  status'[r] = status[r] /\ UNCHANGED fileVars
      BY <2>5, <2>1 DEF InsertRun, RejectRequest, RequestInv, TypeOK, Settled, tableVars
    <2>6. ASSUME NEW d \in Daemons, NEW s \in Runs, StampRequest(d, s)
          PROVE  UNCHANGED <<status, fileVars>>
      BY <2>6 DEF StampRequest
    <2>7. ASSUME NEW d \in Daemons,
                 Move(d) \/ DbError(d) \/ Signal(d) \/ Exit(d) \/ Crash(d)
          PROVE  UNCHANGED <<status, fileVars>>
      BY <2>7 DEF Move, Goto, DbError, Signal, Exit, Crash, tableVars
    <2>8. ASSUME NEW d \in Daemons, ClaimNextRun(d)
          PROVE  status'[r] = status[r] /\ UNCHANGED fileVars
      BY <2>8, <2>1 DEF ClaimNextRun, IsOldest, Queued, TypeOK, Settled
    <2>9. ASSUME NEW d \in Daemons, BeginFile(d) \/ EndFile(d)
          PROVE  status'[r] = status[r] /\ written'[r] = written[r] /\ (r \in torn' <=> r \in torn)
      BY <2>9, <2>1, <2>2 DEF BeginFile, EndFile, Holding, TypeOK, tableVars
    <2>10. ASSUME NEW d \in Daemons, MarkDone(d) \/ MarkFailed(d)
           PROVE  status'[r] = status[r] /\ UNCHANGED fileVars
      BY <2>10, <2>1, <2>2 DEF MarkDone, MarkFailed, Holding, TypeOK
    <2> QED
      BY NextCases, <2>3, <2>4, <2>5, <2>6, <2>7, <2>8, <2>9, <2>10 DEF fileVars
  <1>2. IInv /\ [Next]_vars =>
           [\A r \in Runs : status[r] \in Settled =>
               /\ status'[r] = status[r]
               /\ written'[r] = written[r]
               /\ r \in torn' <=> r \in torn]_vars
    BY <1>1
  <1> QED
    BY <1>2, Invariant, PTL DEF Spec, SettledIsFinal

\* A running row whose worker is gone stays that way through every restart:
\* recover_running_without_started_at never matches it.
THEOREM StrandedRunsStay == Spec => StrandedIsForever
  <1>1. ASSUME IInv, [Next]_vars, NEW r \in Runs, Stranded(r)
        PROVE  Stranded(r)'
    <2> USE <1>1
    <2>1. TypeOK /\ RequestInv
      BY DEF IInv
    <2>2. status[r] = "running" /\ \A d \in Daemons : cur[d] # r
      BY DEF Stranded
    <2>3. CASE UNCHANGED vars \/ Tick
      BY <2>3, <2>2 DEF Stranded, Tick, vars, tableVars, workerVars
    <2>4. ASSUME NEW s \in Runs, InsertRun(s) \/ RejectRequest(s)
          PROVE  Stranded(r)'
      BY <2>4, <2>1, <2>2 DEF Stranded, InsertRun, RejectRequest, RequestInv, TypeOK,
                              tableVars, workerVars
    <2>5. ASSUME NEW d \in Daemons, NEW s \in Runs, StampRequest(d, s)
          PROVE  Stranded(r)'
      BY <2>5, <2>2 DEF Stranded, StampRequest, workerVars
    <2>6. ASSUME NEW d \in Daemons,
                 Move(d) \/ BeginFile(d) \/ EndFile(d) \/ Signal(d) \/ Exit(d)
          PROVE  Stranded(r)'
      BY <2>6, <2>2 DEF Stranded, Move, Goto, BeginFile, EndFile, Signal, Exit,
                        tableVars, workerVars
    <2>7. ASSUME NEW d \in Daemons, DbError(d) \/ Crash(d)
          PROVE  Stranded(r)'
      BY <2>7, <2>1, <2>2, RunQueueAssumption DEF Stranded, DbError, Crash, TypeOK, tableVars
    <2>8. ASSUME NEW d \in Daemons, ClaimNextRun(d)
          PROVE  Stranded(r)'
      BY <2>8, <2>1, <2>2 DEF Stranded, ClaimNextRun, IsOldest, Queued, TypeOK
    <2>9. ASSUME NEW d \in Daemons, MarkDone(d) \/ MarkFailed(d)
          PROVE  Stranded(r)'
      BY <2>9, <2>1, <2>2, RunQueueAssumption DEF Stranded, MarkDone, MarkFailed, Release, TypeOK
    <2> QED
      BY NextCases, <2>3, <2>4, <2>5, <2>6, <2>7, <2>8, <2>9
  <1>2. IInv /\ [Next]_vars => [\A r \in Runs : Stranded(r) => Stranded(r)']_vars
    BY <1>1
  <1> QED
    BY <1>2, Invariant, PTL DEF Spec, StrandedIsForever

\* A run with a verdict keeps it, and one without a worker stays without.
THEOREM RowsStayAsTheyAre == Spec => RowsStay
  BY SettledRunsAreFinal, StrandedRunsStay, PTL DEF RowsStay

-----------------------------------------------------------------------------
(* RunQueue implements JobQueue: status is the state of a job, cur is what *)
(* an executor is busy with.                                               *)

\* The claim and the two marks are the queue's Start and Settle; a crash or a
\* failing statement is an Abandon; everything else is a Submit or a stutter.
THEOREM Refinement == Spec => ImplementsJobQueue
  <1>1. Init => Jobs!JobInit
    BY DEF Init, Jobs!JobInit
  <1>2. ASSUME IInv, [Next]_vars
        PROVE  [Jobs!JobNext]_(Jobs!jobVars)
    <2> USE <1>2
    <2>1. TypeOK /\ RequestInv /\ HoldInv
      BY DEF IInv
    <2> USE DEF Jobs!jobVars
    <2>2. CASE UNCHANGED vars \/ Tick
      BY <2>2 DEF Tick, vars, tableVars, workerVars
    <2>3. ASSUME NEW r \in Runs, InsertRun(r)
          PROVE  Jobs!Submit(r)
      BY <2>3, <2>1 DEF InsertRun, RequestInv, workerVars, Jobs!Submit
    <2>4. ASSUME NEW r \in Runs, RejectRequest(r)
          PROVE  UNCHANGED <<status, cur>>
      BY <2>4 DEF RejectRequest, tableVars, workerVars
    <2>5. ASSUME NEW d \in Daemons, NEW r \in Runs, StampRequest(d, r)
          PROVE  UNCHANGED <<status, cur>>
      BY <2>5 DEF StampRequest, workerVars
    <2>6. ASSUME NEW d \in Daemons,
                 Move(d) \/ BeginFile(d) \/ EndFile(d) \/ Signal(d) \/ Exit(d)
          PROVE  UNCHANGED <<status, cur>>
      BY <2>6 DEF Move, Goto, BeginFile, EndFile, Signal, Exit, tableVars, workerVars
    <2>7. ASSUME NEW d \in Daemons, ClaimNextRun(d)
          PROVE  \E r \in Runs : Jobs!Start(d, r)
      BY <2>7, <2>1 DEF ClaimNextRun, IsOldest, Queued, HoldInv, Holding, Jobs!Start
    <2>8. ASSUME NEW d \in Daemons, MarkDone(d)
          PROVE  cur[d] \in Runs /\ Jobs!Settle(d, cur[d], "done")
      BY <2>8, Held DEF MarkDone, Release, Holding, Jobs!Settle
    <2>9. ASSUME NEW d \in Daemons, MarkFailed(d)
          PROVE  cur[d] \in Runs /\ Jobs!Settle(d, cur[d], "failed")
      BY <2>9, Held DEF MarkFailed, Release, Holding, Jobs!Settle
    <2>10. ASSUME NEW d \in Daemons, DbError(d) \/ Crash(d)
           PROVE  Jobs!Abandon(d) \/ UNCHANGED <<status, cur>>
      BY <2>10 DEF DbError, Crash, tableVars, Jobs!Abandon
    <2> QED
      BY NextCases, <2>2, <2>3, <2>4, <2>5, <2>6, <2>7, <2>8, <2>9, <2>10 DEF Jobs!JobNext
  <1> QED
    BY <1>1, <1>2, Invariant, PTL DEF Spec, ImplementsJobQueue, Jobs!JobSpec

-----------------------------------------------------------------------------
(* The inductive invariant of the readers.                                 *)

\* A run with an artifact, or whose report is being written, has a directory.
DirInv ==
    /\ \A r \in Runs : written[r] > 0 => r \in dirs
    /\ \A d \in Daemons : pc[d] = "report" => cur[d] \in dirs

\* A reader lists every run that was complete when it began; it accepts only
\* complete runs and never skips one that was complete then; it goes on when it
\* has accepted or skipped all it has listed.
ReaderInv ==
    \A x \in Readers :
       /\ before[x] \subseteq listed[x] \intersect Complete
       /\ got[x] \subseteq Complete
       /\ gaps[x] \intersect before[x] = {}
       /\ rpc[x] = "idle" => gaps[x] = {}
       /\ HasRead(x) => listed[x] \subseteq got[x] \union gaps[x] /\ wants[x] \in Windows

TInv == IInv /\ TrendsTypeOK /\ DirInv /\ ReaderInv

-----------------------------------------------------------------------------
(* What a step of the queue does to reports, seen from the directories.    *)

LEMMA InitTInv == TrendsInit => TInv
  <1> SUFFICES ASSUME TrendsInit PROVE TInv
    OBVIOUS
  <1>1. IInv
    BY InitIInv DEF TrendsInit
  <1>2. TrendsTypeOK
    <2>1. TypeOK
      BY <1>1 DEF IInv
    <2>2. stamp \in [Runs -> 0..MaxClock] /\ part \in [Readers -> 0..(Artifacts - 1)]
      BY RunQueueAssumption DEF TrendsInit, Artifacts
    <2>3. /\ dirs \subseteq Runs /\ wrote \subseteq Daemons \X Runs /\ missed \subseteq Runs /\ died \subseteq Readers
          /\ trends \in Documents \union {NoFile, Torn} /\ collided \in BOOLEAN
      BY DEF TrendsInit
    <2>4. /\ rpc \in [Readers -> ReaderPoints]
          /\ wants \in [Readers -> Windows \union {NoWindow}]
          /\ reading \in [Readers -> Runs \union {NoRun}]
      BY DEF TrendsInit, ReaderPoints
    <2>5. /\ listed \in [Readers -> SUBSET Runs] /\ got \in [Readers -> SUBSET Runs]
          /\ gaps \in [Readers -> SUBSET Runs] /\ before \in [Readers -> SUBSET Runs]
      BY DEF TrendsInit
    <2> QED BY <2>1, <2>2, <2>3, <2>4, <2>5 DEF TrendsTypeOK
  <1>3. DirInv /\ ReaderInv
    BY DEF TrendsInit, Init, DirInv, ReaderInv, HasRead
  <1> QED BY <1>1, <1>2, <1>3 DEF TInv

\* Only the worker that writes r's report adds a file to it.
LEMMA FilesGrow ==
    ASSUME IInv, Next, NEW r \in Runs
    PROVE  \/ written'[r] = written[r]
           \/ /\ written'[r] = written[r] + 1
              /\ \E d \in Daemons : pc[d] = "report" /\ cur[d] = r
  <1> USE DEF IInv, TypeOK
  <1>1. ASSUME NEW d \in Daemons, EndFile(d)
        PROVE  \/ written'[r] = written[r]
               \/ written'[r] = written[r] + 1 /\ pc[d] = "report" /\ cur[d] = r
    BY <1>1 DEF EndFile
  <1>2. CASE Tick \/ \E s \in Runs : InsertRun(s) \/ RejectRequest(s)
    BY <1>2 DEF Tick, InsertRun, RejectRequest, fileVars
  <1>3. CASE \E d \in Daemons, s \in Runs : StampRequest(d, s)
    BY <1>3 DEF StampRequest, fileVars
  <1>4. ASSUME NEW d \in Daemons,
               \/ Move(d) \/ ClaimNextRun(d) \/ BeginFile(d) \/ MarkDone(d) \/ MarkFailed(d)
               \/ DbError(d) \/ Signal(d) \/ Exit(d) \/ Crash(d)
        PROVE  written'[r] = written[r]
    BY <1>4 DEF Move, Goto, ClaimNextRun, BeginFile, MarkDone, MarkFailed, DbError,
                Signal, Exit, Crash, fileVars
  <1> QED BY NextCases, <1>1, <1>2, <1>3, <1>4

\* A worker that writes a report was writing it before, or has just stamped it.
LEMMA ReportEntry ==
    ASSUME IInv, Next, NEW d \in Daemons, pc'[d] = "report"
    PROVE  /\ cur'[d] = cur[d] /\ cur[d] \in Runs
           /\ pc[d] = "report" \/ StampsReport(d)
  <1> USE DEF IInv, TypeOK
  <1>1. CASE Tick \/ \E s \in Runs : InsertRun(s) \/ RejectRequest(s)
    BY <1>1, Held DEF Tick, InsertRun, RejectRequest, workerVars, Holding
  <1>2. CASE \E e \in Daemons, s \in Runs : StampRequest(e, s)
    BY <1>2, Held DEF StampRequest, workerVars, Holding
  <1>3. ASSUME NEW e \in Daemons, Move(e)
        PROVE  /\ cur'[d] = cur[d] /\ cur[d] \in Runs
               /\ pc[d] = "report" \/ StampsReport(d)
    BY <1>3, Held DEF Move, MovePairs, Goto, MoveTo, StampsReport, Holding
  <1>4. ASSUME NEW e \in Daemons, BeginFile(e) \/ EndFile(e)
        PROVE  cur'[d] = cur[d] /\ cur[d] \in Runs /\ pc[d] = "report"
    BY <1>4, Held DEF BeginFile, EndFile, MoveTo, AfterFile, workerVars, Holding
  <1>5. ASSUME NEW e \in Daemons, ClaimNextRun(e) \/ MarkDone(e) \/ MarkFailed(e)
        PROVE  cur'[d] = cur[d] /\ cur[d] \in Runs /\ pc[d] = "report"
    BY <1>5, Held DEF ClaimNextRun, MarkDone, MarkFailed, Release, MoveTo, Holding
  <1>6. ASSUME NEW e \in Daemons, DbError(e) \/ Signal(e) \/ Exit(e) \/ Crash(e)
        PROVE  cur'[d] = cur[d] /\ cur[d] \in Runs /\ pc[d] = "report"
    BY <1>6, Held DEF DbError, Signal, Exit, Crash, MoveTo, workerVars, Holding
  <1> QED BY NextCases, <1>1, <1>2, <1>3, <1>4, <1>5, <1>6

LEMMA StampedAreRuns ==
    ASSUME IInv
    PROVE  \A d \in Daemons : StampsReport(d) => cur[d] \in Runs
  BY Held DEF StampsReport, Holding

LEMMA QueueTInv ==
    ASSUME TInv, QueueStep
    PROVE  TInv'
  <1> DEFINE stamps == {<<d, cur[d]>> : d \in {e \in Daemons : StampsReport(e)}}
             stamping == {p[2] : p \in stamps}
  <1> USE DEF TInv, QueueStep
  <1>1. IInv'
    BY StepIInv
  <1>2. stamps \subseteq Daemons \X Runs /\ stamping \subseteq Runs
    BY StampedAreRuns
  <1>3. \A r \in Runs : written[r] \in Nat /\ written'[r] \in Nat
    BY <1>1 DEF IInv, TypeOK
  <1>4. Complete \subseteq Complete'
    BY FilesGrow, <1>3 DEF Complete, Artifacts
  <1>5. TrendsTypeOK'
    <2>1. clock \in 0..MaxClock
      BY DEF IInv, TypeOK
    <2>2. missed' \subseteq Runs
      <3>1. \A d \in Daemons : OpensHtml(d) => cur[d] \in Runs
        BY <1>1 DEF OpensHtml, IInv, TypeOK
      <3> QED BY <3>1 DEF TrendsTypeOK
    <2>3. stamp' \in [Runs -> 0..MaxClock]
      BY <2>1 DEF TrendsTypeOK, FinishedAt
    <2>4. UNCHANGED <<trends, rpc, wants, listed, reading, part, got, gaps, before, died, collided>>
      BY DEF readerVars, scanVars
    <2>5. TypeOK' /\ dirs' \subseteq Runs /\ wrote' \subseteq Daemons \X Runs
      BY <1>1, <1>2 DEF IInv, TrendsTypeOK
    <2> QED BY <2>2, <2>3, <2>4, <2>5 DEF TrendsTypeOK
  <1>6. DirInv'
    <2>1. dirs' = dirs \union stamping
      OBVIOUS
    <2>2. ASSUME NEW r \in Runs, written'[r] > 0
          PROVE  r \in dirs'
      BY <2>1, <2>2, FilesGrow, <1>3 DEF DirInv
    <2>3. ASSUME NEW d \in Daemons, pc'[d] = "report"
          PROVE  cur'[d] \in dirs'
      <3>1. cur'[d] = cur[d] /\ (pc[d] = "report" \/ StampsReport(d))
        BY <2>3, ReportEntry
      <3>2. StampsReport(d) => cur[d] \in stamping
        <4>1. StampsReport(d) => <<d, cur[d]>> \in stamps /\ <<d, cur[d]>>[2] = cur[d]
          OBVIOUS
        <4> QED BY <4>1
      <3> QED BY <2>1, <3>1, <3>2 DEF DirInv
    <2> QED BY <2>2, <2>3 DEF DirInv
  <1>7. ReaderInv'
    BY <1>4 DEF ReaderInv, HasRead, readerVars, scanVars
  <1> QED BY <1>1, <1>5, <1>6, <1>7

-----------------------------------------------------------------------------
(* The steps of a reader.                                                  *)

\* A reader's step leaves the queue and the directories alone.
LEMMA ReaderFrame ==
    ASSUME TInv, UNCHANGED <<vars, dirs>>
    PROVE  IInv' /\ TypeOK' /\ DirInv' /\ Complete' = Complete
  <1>1. IInv'
    BY StepIInv DEF TInv
  <1>2. DirInv'
    BY DEF TInv, DirInv, vars
  <1> QED BY <1>1, <1>2 DEF IInv, Complete, vars

LEMMA CompleteIsRuns == Complete \subseteq Runs
  BY DEF Complete

LEMMA BeginTInv ==
    ASSUME TInv, NEW x \in Readers, Begin(x)
    PROVE  TInv'
  <1> USE DEF TInv, Begin, Goes, reportVars
  <1>1. IInv' /\ TypeOK' /\ DirInv' /\ Complete' = Complete
    BY ReaderFrame
  <1>2. TrendsTypeOK'
    BY <1>1, CompleteIsRuns DEF TrendsTypeOK, ReaderPoints
  <1>3. Complete \subseteq dirs
    BY DEF Complete, DirInv, Artifacts, IInv, TypeOK
  <1>4. ReaderInv'
    BY <1>1, <1>3 DEF ReaderInv, HasRead, TrendsTypeOK
  <1> QED BY <1>1, <1>2, <1>4

LEMMA DiscoverTInv ==
    ASSUME TInv, NEW x \in Readers, DiscoverRuns(x)
    PROVE  TInv'
  <1> USE DEF TInv, DiscoverRuns, Goes, reportVars
  <1>1. IInv' /\ TypeOK' /\ DirInv' /\ Complete' = Complete
    BY ReaderFrame
  <1>2. PICK more \in SUBSET (dirs \ listed[x]) :
           listed' = [listed EXCEPT ![x] = @ \union more]
    OBVIOUS
  <1>3. TrendsTypeOK'
    BY <1>1, <1>2 DEF TrendsTypeOK, ReaderPoints
  <1>4. ReaderInv'
    BY <1>1, <1>2 DEF ReaderInv, HasRead, TrendsTypeOK
  <1> QED BY <1>1, <1>3, <1>4

\* The third artifact on disk makes the run complete.
LEMMA ReadTInv ==
    ASSUME TInv, NEW x \in Readers, ReadArtifact(x)
    PROVE  TInv'
  <1> USE DEF TInv, ReadArtifact, reportVars
  <1>1. IInv' /\ TypeOK' /\ DirInv' /\ Complete' = Complete
    BY ReaderFrame
  <1>2. PICK r \in Readable(x) :
          /\ ReadsArtifact(r, part[x])
          /\ IF part[x] + 1 < Artifacts
             THEN /\ reading' = [reading EXCEPT ![x] = r]
                  /\ part' = [part EXCEPT ![x] = @ + 1]
                  /\ UNCHANGED got
             ELSE got' = [got EXCEPT ![x] = @ \union {r}] /\ SetAside(x)
    OBVIOUS
  <1>3. r \in Runs
    BY DEF TrendsTypeOK, Readable, Unread
  <1>4. TrendsTypeOK'
    <2>1. CASE part[x] + 1 < Artifacts
      BY <1>1, <1>2, <1>3, <2>1 DEF TrendsTypeOK, Artifacts
    <2>2. CASE ~(part[x] + 1 < Artifacts)
      BY <1>1, <1>2, <1>3, <2>2 DEF TrendsTypeOK, Artifacts, SetAside
    <2> QED BY <2>1, <2>2
  <1>5. ReaderInv'
    <2>1. CASE part[x] + 1 < Artifacts
      BY <1>1, <1>2, <2>1 DEF ReaderInv, HasRead
    <2>2. CASE ~(part[x] + 1 < Artifacts)
      <3>1. r \in Complete
        <4>1. part[x] = 2
          BY <2>2 DEF Artifacts, TrendsTypeOK
        <4>2. written[r] > 2 /\ written[r] \in Nat
          BY <1>2, <1>3, <4>1 DEF ReadsArtifact, IInv, TypeOK
        <4> QED BY <1>3, <4>2 DEF Complete, Artifacts
      <3> QED BY <1>1, <1>2, <2>2, <3>1 DEF ReaderInv, HasRead, SetAside, TrendsTypeOK
    <2> QED BY <2>1, <2>2
  <1> QED BY <1>1, <1>4, <1>5

\* A run that was complete when the reader began has every artifact.
LEMMA SkipTInv ==
    ASSUME TInv, NEW x \in Readers, SkipRun(x)
    PROVE  TInv'
  <1> USE DEF TInv, SkipRun, SetAside, reportVars
  <1>1. IInv' /\ TypeOK' /\ DirInv' /\ Complete' = Complete
    BY ReaderFrame
  <1>2. PICK r \in Readable(x) :
          /\ ~ReadsArtifact(r, part[x])
          /\ gaps' = [gaps EXCEPT ![x] = @ \union {r}]
    OBVIOUS
  <1>3. r \in Runs
    BY DEF TrendsTypeOK, Readable, Unread
  <1>4. TrendsTypeOK'
    BY <1>1, <1>2, <1>3 DEF TrendsTypeOK, Artifacts
  <1>5. r \notin Complete
    BY <1>2, <1>3 DEF Complete, Artifacts, ReadsArtifact, TrendsTypeOK, IInv, TypeOK
  <1>6. ReaderInv'
    BY <1>1, <1>2, <1>5 DEF ReaderInv, HasRead, TrendsTypeOK
  <1> QED BY <1>1, <1>4, <1>6

LEMMA FinishReadTInv ==
    ASSUME TInv, NEW x \in Readers, FinishRead(x)
    PROVE  TInv'
  <1> USE DEF TInv, FinishRead, Goes, reportVars, scanVars
  <1>1. IInv' /\ TypeOK' /\ DirInv' /\ Complete' = Complete
    BY ReaderFrame
  <1>2. PICK to \in ReaderJobs : rpc[x] = "read" /\ rpc' = [rpc EXCEPT ![x] = to]
    OBVIOUS
  <1>3. PICK n \in Windows : wants' = [wants EXCEPT ![x] = n]
    OBVIOUS
  <1>4. TrendsTypeOK'
    BY <1>1, <1>2, <1>3, TrendsAssumption DEF TrendsTypeOK, ReaderPoints
  <1>5. ReaderInv'
    BY <1>1, <1>2, <1>3, TrendsAssumption DEF ReaderInv, HasRead, TrendsTypeOK, Unread
  <1> QED BY <1>1, <1>4, <1>5

\* What the end of a job leaves.
LEMMA EndsInv ==
    ASSUME TInv, NEW x \in Readers, Ends(x), UNCHANGED <<vars, reportVars, collided>>,
           trends' \in Documents \union {NoFile, Torn}, died' \subseteq Readers
    PROVE  TInv'
  <1> USE DEF TInv, Ends, reportVars
  <1>1. IInv' /\ TypeOK' /\ DirInv' /\ Complete' = Complete
    BY ReaderFrame
  <1>2. TrendsTypeOK'
    BY <1>1 DEF TrendsTypeOK, ReaderPoints, Artifacts
  <1>3. ReaderInv'
    BY <1>1 DEF ReaderInv, HasRead, TrendsTypeOK
  <1> QED BY <1>1, <1>2, <1>3

\* From the window to the file, nothing of what was read changes.
LEMMA KeepsInv ==
    ASSUME TInv, NEW x \in Readers, NEW from, NEW to,
           <<from, to>> \in {<<"open", "fill">>, <<"fill", "back">>}, Goes(x, from, to),
           UNCHANGED <<vars, reportVars, wants, scanVars, before, died>>,
           trends' \in Documents \union {NoFile, Torn}, collided' \in BOOLEAN
    PROVE  TInv'
  <1> USE DEF TInv, Goes, reportVars, scanVars
  <1>1. IInv' /\ TypeOK' /\ DirInv' /\ Complete' = Complete
    BY ReaderFrame
  <1>2. TrendsTypeOK'
    BY <1>1 DEF TrendsTypeOK, ReaderPoints
  <1>3. ReaderInv'
    BY <1>1 DEF ReaderInv, HasRead, TrendsTypeOK
  <1> QED BY <1>1, <1>2, <1>3

LEMMA DocumentType ==
    ASSUME TrendsTypeOK, NEW x \in Readers, wants[x] \in Windows
    PROVE  Document(x) \in Documents
  BY DEF TrendsTypeOK, Document, Documents, Selected, SelectWindow

\* The steps after the reading: what is left on disk is a document or torn.
LEMMA OutputTInv ==
    ASSUME TInv, NEW x \in Readers,
           Answer(x) \/ OpenOutput(x) \/ FillOutput(x) \/ ReadBack(x) \/ Stop(x)
    PROVE  TInv'
  <1> DEFINE Contents == Documents \union {NoFile, Torn}
  <1>1. trends \in Contents /\ died \subseteq Readers /\ collided \in BOOLEAN
    BY DEF TInv, TrendsTypeOK
  <1>2. CASE Answer(x) \/ Stop(x) \/ ReadBack(x)
    <2>1. Ends(x) /\ UNCHANGED <<vars, reportVars, trends, collided>>
      BY <1>2 DEF Answer, Stop, ReadBack
    <2>2. died' \subseteq Readers
      BY <1>1, <1>2 DEF Answer, Stop, ReadBack
    <2> QED BY <1>1, <2>1, <2>2, EndsInv
  <1>3. CASE OpenOutput(x)
    BY <1>3, KeepsInv DEF OpenOutput
  <1>4. CASE FillOutput(x)
    <2>1. wants[x] \in Windows
      BY <1>4 DEF FillOutput, TInv, ReaderInv, HasRead
    <2>2. trends' \in Contents
      <3>1. Document(x) \in Documents
        BY <2>1, DocumentType DEF TInv
      <3> QED BY <1>4, <3>1 DEF FillOutput, Written
    <2>3. CASE Goes(x, "fill", "back") /\ UNCHANGED <<wants, scanVars, before>>
      BY <1>1, <1>4, <2>2, <2>3, KeepsInv DEF FillOutput
    <2>4. CASE Ends(x)
      BY <1>1, <1>4, <2>2, <2>4, EndsInv DEF FillOutput
    <2> QED BY <1>4, <2>3, <2>4 DEF FillOutput
  <1> QED BY <1>2, <1>3, <1>4

LEMMA StepTInv == TInv /\ [TrendsNext]_allVars => TInv'
  <1> SUFFICES ASSUME TInv, [TrendsNext]_allVars PROVE TInv'
    OBVIOUS
  <1>1. CASE UNCHANGED allVars
    <2>1. IInv' /\ TypeOK' /\ DirInv' /\ Complete' = Complete
      BY <1>1, ReaderFrame DEF allVars, reportVars
    <2> QED
      BY <1>1, <2>1 DEF TInv, TrendsTypeOK, ReaderInv, HasRead, allVars, reportVars,
                        readerVars, scanVars
  <1> QED
    BY <1>1, QueueTInv, BeginTInv, DiscoverTInv, ReadTInv, SkipTInv, FinishReadTInv, OutputTInv
       DEF TrendsNext, ReaderStep

\* Every reachable state satisfies the readers' invariant.
THEOREM TrendsInvariant == TrendsSpec => []TInv
  BY InitTInv, StepTInv, PTL DEF TrendsSpec

-----------------------------------------------------------------------------
\* Report directories, trends file and readers keep their types.
THEOREM TrendsTypeCorrect == TrendsSpec => []TrendsTypeOK
  BY TrendsInvariant, PTL DEF TInv

\* What load_valid_runs of cll.rs accepts lies between the runs complete when
\* it begins and the runs complete when it ends, without any lock.
THEOREM ReadsAreBracketed == TrendsSpec => []ReadIsBracketed
  <1>1. TInv => ReadIsBracketed
    BY DEF TInv, ReaderInv, ReadIsBracketed
  <1> QED BY <1>1, TrendsInvariant, PTL

-----------------------------------------------------------------------------
(* The history each daemon writes.                                         *)

\* Nothing is stamped later than now, and of the runs a daemon has stamped the
\* one whose report it is writing is the last.
StampInv ==
    /\ \A r \in Runs : stamp[r] <= clock
    /\ \A d \in Daemons : pc[d] = "report" =>
          \A r \in Runs : <<d, r>> \in wrote => stamp[r] <= stamp[cur[d]]

\* A run is stamped once: after that nobody analyses it again.
WroteInv ==
    \A d \in Daemons, r \in Runs : <<d, r>> \in wrote =>
       /\ status[r] \notin {"absent", "queued"}
       /\ \A e \in Daemons : pc[e] = "process" => cur[e] # r

HInv == TInv /\ StampInv /\ WroteInv

LEMMA ClockGrows ==
    ASSUME IInv, Next
    PROVE  clock \in Nat /\ clock' \in Nat /\ clock <= clock'
  <1> USE RunQueueAssumption DEF IInv, TypeOK
  <1>1. CASE Tick
    BY <1>1 DEF Tick
  <1>2. CASE \E r \in Runs : InsertRun(r) \/ RejectRequest(r)
    BY <1>2 DEF InsertRun, RejectRequest
  <1>3. CASE \E d \in Daemons, r \in Runs : StampRequest(d, r)
    BY <1>3 DEF StampRequest
  <1>4. ASSUME NEW d \in Daemons,
               \/ Move(d) \/ ClaimNextRun(d) \/ BeginFile(d) \/ EndFile(d)
               \/ MarkDone(d) \/ MarkFailed(d)
               \/ DbError(d) \/ Signal(d) \/ Exit(d) \/ Crash(d)
        PROVE  clock' = clock
    BY <1>4 DEF Move, Goto, ClaimNextRun, BeginFile, EndFile, MarkDone, MarkFailed, DbError,
                Signal, Exit, Crash
  <1> QED BY NextCases, <1>1, <1>2, <1>3, <1>4

\* No row goes back to the queue.
LEMMA ClaimedStaysClaimed ==
    ASSUME IInv, Next, NEW r \in Runs, status[r] \notin {"absent", "queued"}
    PROVE  status'[r] \notin {"absent", "queued"}
  <1> USE DEF IInv, TypeOK
  <1>1. CASE Tick \/ \E s \in Runs : InsertRun(s) \/ RejectRequest(s)
    BY <1>1 DEF Tick, InsertRun, RejectRequest, RequestInv, tableVars
  <1>2. CASE \E d \in Daemons, s \in Runs : StampRequest(d, s)
    BY <1>2 DEF StampRequest
  <1>3. ASSUME NEW d \in Daemons,
               Move(d) \/ BeginFile(d) \/ EndFile(d) \/ DbError(d) \/ Signal(d) \/ Exit(d) \/ Crash(d)
        PROVE  status' = status
    BY <1>3 DEF Move, Goto, BeginFile, EndFile, DbError, Signal, Exit, Crash, tableVars
  <1>4. ASSUME NEW d \in Daemons, ClaimNextRun(d) \/ MarkDone(d) \/ MarkFailed(d)
        PROVE  status'[r] \notin {"absent", "queued"}
    BY <1>4 DEF ClaimNextRun, MarkDone, MarkFailed
  <1> QED BY NextCases, <1>1, <1>2, <1>3, <1>4

\* A worker that analyses a run was analysing it before, or has just claimed it.
LEMMA ProcessEntry ==
    ASSUME IInv, Next, NEW d \in Daemons, pc'[d] = "process"
    PROVE  \/ pc[d] = "process" /\ cur'[d] = cur[d]
           \/ status[cur'[d]] = "queued"
  <1> USE DEF IInv, TypeOK
  <1>1. CASE Tick \/ \E s \in Runs : InsertRun(s) \/ RejectRequest(s)
    BY <1>1 DEF Tick, InsertRun, RejectRequest, workerVars
  <1>2. CASE \E e \in Daemons, s \in Runs : StampRequest(e, s)
    BY <1>2 DEF StampRequest, workerVars
  <1>3. ASSUME NEW e \in Daemons, Move(e)
        PROVE  pc[d] = "process" /\ cur'[d] = cur[d]
    BY <1>3 DEF Move, MovePairs, Goto, MoveTo
  <1>4. ASSUME NEW e \in Daemons, ClaimNextRun(e)
        PROVE  \/ pc[d] = "process" /\ cur'[d] = cur[d]
               \/ status[cur'[d]] = "queued"
    BY <1>4 DEF ClaimNextRun, IsOldest, Queued, MoveTo
  <1>5. ASSUME NEW e \in Daemons, BeginFile(e) \/ EndFile(e) \/ MarkDone(e) \/ MarkFailed(e)
        PROVE  pc[d] = "process" /\ cur'[d] = cur[d]
    BY <1>5 DEF BeginFile, EndFile, MarkDone, MarkFailed, Release, MoveTo, AfterFile, workerVars
  <1>6. ASSUME NEW e \in Daemons, DbError(e) \/ Signal(e) \/ Exit(e) \/ Crash(e)
        PROVE  pc[d] = "process" /\ cur'[d] = cur[d]
    BY <1>6 DEF DbError, Signal, Exit, Crash, MoveTo, workerVars
  <1> QED BY NextCases, <1>1, <1>2, <1>3, <1>4, <1>5, <1>6

\* What a step of the queue adds to the history.
LEMMA WroteGrows ==
    ASSUME QueueStep
    PROVE  /\ \A d \in Daemons, r \in Runs :
                 <<d, r>> \in wrote' <=> <<d, r>> \in wrote \/ (StampsReport(d) /\ cur[d] = r)
           /\ \A r \in Runs :
                 \/ stamp'[r] = stamp[r]
                 \/ stamp'[r] = clock /\ \E d \in Daemons : StampsReport(d) /\ cur[d] = r
           /\ \A d \in Daemons : StampsReport(d) /\ cur[d] \in Runs => stamp'[cur[d]] = clock
  <1> DEFINE stamps == {<<d, cur[d]>> : d \in {e \in Daemons : StampsReport(e)}}
             stamping == {p[2] : p \in stamps}
  <1>1. /\ wrote' = wrote \union stamps
        /\ stamp' = [r \in Runs |-> IF r \in stamping THEN clock ELSE stamp[r]]
    BY DEF QueueStep, FinishedAt
  <1>2. \A d \in Daemons : StampsReport(d) => <<d, cur[d]>> \in stamps /\ <<d, cur[d]>>[2] = cur[d]
    OBVIOUS
  <1>3. ASSUME NEW r
        PROVE  r \in stamping <=> \E d \in Daemons : StampsReport(d) /\ cur[d] = r
    <2>1. ASSUME NEW d \in Daemons, StampsReport(d), cur[d] = r
          PROVE  r \in stamping
      <3>1. <<d, cur[d]>> \in stamps /\ <<d, cur[d]>>[2] = r
        BY <2>1, <1>2
      <3> QED BY <3>1
    <2>2. ASSUME r \in stamping
          PROVE  \E d \in Daemons : StampsReport(d) /\ cur[d] = r
      <3>1. PICK p \in stamps : p[2] = r
        BY <2>2
      <3>2. PICK d \in Daemons : StampsReport(d) /\ p = <<d, cur[d]>>
        OBVIOUS
      <3> QED BY <3>1, <3>2
    <2> QED BY <2>1, <2>2
  <1>4. \A d, r : <<d, r>> \in stamps <=> d \in Daemons /\ StampsReport(d) /\ cur[d] = r
    OBVIOUS
  <1> HIDE DEF stamps, stamping
  <1> QED BY <1>1, <1>3, <1>4

LEMMA StepWroteInv ==
    ASSUME TInv, WroteInv, QueueStep
    PROVE  WroteInv'
  <1> SUFFICES ASSUME NEW d \in Daemons, NEW r \in Runs, <<d, r>> \in wrote'
               PROVE  /\ status'[r] \notin {"absent", "queued"}
                      /\ \A e \in Daemons : pc'[e] = "process" => cur'[e] # r
    BY DEF WroteInv
  <1>1. IInv /\ Next
    BY DEF TInv, QueueStep
  <1>2. /\ status[r] \notin {"absent", "queued"}
        /\ \A e \in Daemons : pc[e] = "process" /\ cur[e] = r => StampsReport(e)
    <2>1. CASE <<d, r>> \in wrote
      BY <2>1 DEF WroteInv
    <2>2. CASE StampsReport(d) /\ cur[d] = r
      <3>1. status[r] = "running" /\ \A e \in Daemons : e # d => cur[e] # r
        BY <1>1, <2>2, Held DEF StampsReport, Holding
      <3> QED BY <2>2, <3>1
    <2> QED BY <2>1, <2>2, WroteGrows
  <1>3. \A e \in Daemons : pc'[e] = "process" => cur'[e] # r
    BY <1>1, <1>2, ProcessEntry DEF StampsReport
  <1> QED BY <1>1, <1>2, <1>3, ClaimedStaysClaimed

\* While a daemon writes a report it stamps no other, and no other daemon
\* stamps a run it has reported on.
LEMMA StepStampInv ==
    ASSUME TInv, StampInv, WroteInv, QueueStep
    PROVE  StampInv'
  <1> USE DEF StampInv
  <1>1. clock \in Nat /\ clock' \in Nat /\ clock <= clock'
    BY ClockGrows DEF TInv, QueueStep
  <1>2. \A r \in Runs : stamp[r] \in Nat
    <2>1. stamp \in [Runs -> 0..MaxClock]
      BY DEF TInv, TrendsTypeOK
    <2>2. 0..MaxClock \subseteq Nat
      BY RunQueueAssumption
    <2> QED BY <2>1, <2>2
  <1>3. \A r \in Runs : stamp[r] <= stamp'[r] /\ stamp'[r] <= clock /\ stamp'[r] \in Nat
    BY <1>1, <1>2, WroteGrows
  <1>4. \A r \in Runs : stamp'[r] <= clock'
    BY <1>1, <1>3
  <1>5. ASSUME NEW d \in Daemons, pc'[d] = "report", NEW r \in Runs, <<d, r>> \in wrote'
        PROVE  stamp'[r] <= stamp'[cur'[d]]
    <2>1. cur'[d] = cur[d] /\ cur[d] \in Runs /\ (pc[d] = "report" \/ StampsReport(d))
      BY <1>5, ReportEntry DEF TInv, QueueStep
    <2>2. CASE StampsReport(d)
      BY <1>3, <2>1, <2>2, WroteGrows
    <2>3. CASE pc[d] = "report"
      <3>1. <<d, r>> \in wrote
        BY <1>5, <2>3, WroteGrows DEF StampsReport
      <3>2. stamp'[r] = stamp[r]
        BY <3>1, WroteGrows DEF WroteInv, StampsReport
      <3> QED BY <1>2, <1>3, <2>1, <2>3, <3>1, <3>2
    <2> QED BY <2>1, <2>2, <2>3
  <1> QED BY <1>4, <1>5

LEMMA StepHInv == HInv /\ [TrendsNext]_allVars => HInv'
  <1> SUFFICES ASSUME HInv, [TrendsNext]_allVars PROVE HInv'
    OBVIOUS
  <1>1. CASE QueueStep
    BY <1>1, StepTInv, StepWroteInv, StepStampInv DEF HInv
  <1>2. ASSUME UNCHANGED allVars \/ \E x \in Readers : ReaderStep(x)
        PROVE  UNCHANGED <<vars, stamp, wrote>>
    BY <1>2 DEF ReaderStep, Begin, DiscoverRuns, ReadArtifact, SkipRun, FinishRead, Answer,
                OpenOutput, FillOutput, ReadBack, Stop, allVars, reportVars
  <1>3. CASE UNCHANGED <<vars, stamp, wrote>>
    BY <1>3, StepTInv DEF HInv, StampInv, WroteInv, vars
  <1> QED BY <1>1, <1>2, <1>3 DEF TrendsNext

\* For any number of daemons: none completes a report with a stamp older than
\* that of a report it has completed before, so what cll.rs reads of one daemon
\* is only ever appended to, and with a single daemon the series grow at their end.
THEOREM HistoryOfADaemonAppends == TrendsSpec => HistoryAppends
  <1> DEFINE Appends == \A d \in Daemons, r \in Complete, s \in Complete' \ Complete :
                           cur[d] = s /\ <<d, r>> \in wrote => stamp[r] <= stamp'[s]
  <1>1. TrendsInit => HInv
    BY InitTInv DEF HInv, StampInv, WroteInv, TrendsInit, Init
  <1>2. ASSUME HInv, [TrendsNext]_allVars
        PROVE  [Appends]_allVars
    <2> SUFFICES ASSUME NEW d \in Daemons, NEW r \in Complete, NEW s \in Complete' \ Complete,
                        cur[d] = s, <<d, r>> \in wrote
                 PROVE  stamp[r] <= stamp'[s]
      OBVIOUS
    <2>1. s \in Runs /\ r \in Runs /\ written'[s] # written[s]
      BY DEF Complete
    <2>2. QueueStep
      BY <1>2, <2>1 DEF TrendsNext, ReaderStep, Begin, DiscoverRuns, ReadArtifact, SkipRun,
            FinishRead, Answer, OpenOutput, FillOutput, ReadBack, Stop, reportVars, allVars, vars
    <2>3. PICK e \in Daemons : pc[e] = "report" /\ cur[e] = s
      BY <1>2, <2>1, <2>2, FilesGrow DEF HInv, TInv, QueueStep
    <2>4. e = d
      BY <1>2, <2>3, Held DEF HInv, TInv, Holding
    <2>5. stamp[r] <= stamp[s] /\ stamp[r] <= clock
      BY <1>2, <2>1, <2>3, <2>4 DEF HInv, StampInv
    <2> QED BY <2>1, <2>2, <2>5, WroteGrows
  <1>3. HInv /\ [TrendsNext]_allVars => [Appends]_allVars
    BY <1>2
  <1> QED BY <1>1, StepHInv, <1>3, PTL DEF TrendsSpec, HistoryAppends

-----------------------------------------------------------------------------
(* The trends file.                                                        *)

Writers == {x \in Readers : rpc[x] \in {"fill", "back"}}

\* Until two processes have had the file in use at once, it is torn only while
\* its one writer fills it.
TrendsFileInv ==
    ~collided =>
       /\ \A x, y \in Writers : x = y
       /\ \A x \in Writers : rpc[x] = "fill" => trends = Torn
       /\ \A x \in Writers : rpc[x] = "back" => IsWhole(trends)
       /\ died = {}

\* A reader has accepted its runs one after the other.
GotInv == \A x \in Readers : IsFiniteSet(got[x])

WInv == TInv /\ TrendsFileInv /\ GotInv

LEMMA DocumentsAreWhole == \A f \in Documents : IsWhole(f)
  BY TrendsAssumption DEF Documents, IsWhole

LEMMA TrendsFileStep ==
    ASSUME TInv, TrendsFileInv, [TrendsNext]_allVars
    PROVE  TrendsFileInv'
  <1> USE DEF TInv, TrendsTypeOK
  <1>1. CASE UNCHANGED <<trends, rpc, died, collided>>
    BY <1>1 DEF TrendsFileInv, Writers, IsWhole
  <1>2. ASSUME NEW x \in Readers,
               Begin(x) \/ DiscoverRuns(x) \/ FinishRead(x) \/ Answer(x) \/ Stop(x)
        PROVE  TrendsFileInv'
    <2>1. /\ UNCHANGED <<trends, died, collided>>
          /\ \E to \in ReaderPoints \ {"fill", "back"} : rpc' = [rpc EXCEPT ![x] = to]
      BY <1>2, TrendsAssumption DEF Begin, DiscoverRuns, FinishRead, Answer, Stop, Ends, Goes,
                                    ReaderPoints
    <2>2. Writers' \subseteq Writers /\ \A y \in Writers' : rpc'[y] = rpc[y]
      BY <2>1 DEF Writers
    <2> QED BY <2>1, <2>2 DEF TrendsFileInv, IsWhole
  <1>3. ASSUME NEW x \in Readers, OpenOutput(x)
        PROVE  TrendsFileInv'
    <2> SUFFICES ASSUME ~collided' PROVE TrendsFileInv'
      BY DEF TrendsFileInv
    <2>1. ~collided /\ died' = died /\ trends' = Torn /\ rpc' = [rpc EXCEPT ![x] = "fill"]
      BY <1>3 DEF OpenOutput, Goes
    <2>2. Writers' = {x} /\ rpc'[x] = "fill"
      <3>1. \A y \in Readers \ {x} : rpc[y] \notin {"fill", "back"}
        BY <1>3, <2>1 DEF OpenOutput
      <3>2. \A y \in Readers : rpc'[y] = IF y = x THEN "fill" ELSE rpc[y]
        BY <2>1
      <3> QED BY <3>1, <3>2 DEF Writers
    <2> QED BY <2>1, <2>2 DEF TrendsFileInv
  <1>4. ASSUME NEW x \in Readers, FillOutput(x)
        PROVE  TrendsFileInv'
    <2> SUFFICES ASSUME ~collided' PROVE TrendsFileInv'
      BY DEF TrendsFileInv
    <2>1. ~collided /\ died' = died /\ rpc[x] = "fill"
      BY <1>4 DEF FillOutput
    <2>2. Writers = {x} /\ trends = Torn /\ died = {}
      BY <2>1 DEF TrendsFileInv, Writers
    <2>3. IsWhole(trends')
      <3>1. trends' = Document(x)
        BY <1>4, <2>2 DEF FillOutput, Written, IsWhole
      <3>2. wants[x] \in Windows
        BY <2>1 DEF ReaderInv, HasRead
      <3> QED BY <3>1, <3>2, DocumentType, DocumentsAreWhole
    <2>4. \E to \in {"back", "idle"} : rpc' = [rpc EXCEPT ![x] = to]
      BY <1>4 DEF FillOutput, Ends, Goes
    <2>5. Writers' \subseteq {x} /\ rpc'[x] # "fill"
      BY <2>2, <2>4 DEF Writers
    <2> QED BY <2>1, <2>2, <2>3, <2>5 DEF TrendsFileInv
  <1>5. ASSUME NEW x \in Readers, ReadBack(x)
        PROVE  TrendsFileInv'
    <2> SUFFICES ASSUME ~collided' PROVE TrendsFileInv'
      BY DEF TrendsFileInv
    <2>1. ~collided /\ trends' = trends /\ rpc[x] = "back" /\ rpc' = [rpc EXCEPT ![x] = "idle"]
      BY <1>5 DEF ReadBack, Ends
    <2>2. Writers = {x} /\ IsWhole(trends) /\ died = {}
      BY <2>1 DEF TrendsFileInv, Writers
    <2>3. Writers' = {} /\ died' = {}
      BY <1>5, <2>1, <2>2 DEF Writers, ReadBack
    <2> QED BY <2>3 DEF TrendsFileInv
  <1>6. ASSUME QueueStep \/ (\E x \in Readers : ReadArtifact(x) \/ SkipRun(x)) \/ UNCHANGED allVars
        PROVE  UNCHANGED <<trends, rpc, died, collided>>
    BY <1>6 DEF QueueStep, ReadArtifact, SkipRun, allVars, readerVars
  <1> QED BY <1>1, <1>2, <1>3, <1>4, <1>5, <1>6 DEF TrendsNext, ReaderStep

LEMMA GotStep ==
    ASSUME TInv, GotInv, [TrendsNext]_allVars
    PROVE  GotInv'
  <1> USE DEF TInv, TrendsTypeOK
  <1>1. ASSUME NEW x \in Readers, ReadArtifact(x)
        PROVE  GotInv'
    <2>1. PICK r : got' = got \/ got' = [got EXCEPT ![x] = @ \union {r}]
      BY <1>1 DEF ReadArtifact
    <2>2. \A y \in Readers : got'[y] = got[y] \/ got'[y] = got[y] \union {r}
      BY <2>1
    <2>3. \A y \in Readers : IsFiniteSet(got[y] \union {r})
      BY FS_AddElement DEF GotInv
    <2> QED BY <2>2, <2>3 DEF GotInv
  <1>2. CASE UNCHANGED got
    BY <1>2 DEF GotInv
  <1>3. ASSUME NEW x \in Readers, got' = [got EXCEPT ![x] = {}]
        PROVE  GotInv'
    <2>1. \A y \in Readers : got'[y] = got[y] \/ got'[y] = {}
      BY <1>3
    <2> QED BY <2>1, FS_EmptySet DEF GotInv
  <1>4. ASSUME NEW x \in Readers, ReaderStep(x), ~ReadArtifact(x)
        PROVE  UNCHANGED got \/ got' = [got EXCEPT ![x] = {}]
    BY <1>4 DEF ReaderStep, Begin, DiscoverRuns, SkipRun, FinishRead, Answer, OpenOutput,
                FillOutput, ReadBack, Stop, Ends, scanVars
  <1>5. ASSUME QueueStep \/ UNCHANGED allVars
        PROVE  UNCHANGED got
    BY <1>5 DEF QueueStep, allVars, readerVars, scanVars
  <1> QED BY <1>1, <1>2, <1>3, <1>4, <1>5 DEF TrendsNext

\* Every reachable state satisfies the invariant of the trends file too.
THEOREM TrendsFileInvariant == TrendsSpec => []WInv
  <1>1. TrendsInit => WInv
    BY InitTInv, FS_EmptySet DEF WInv, TrendsFileInv, GotInv, Writers, TrendsInit
  <1>2. WInv /\ [TrendsNext]_allVars => WInv'
    BY StepTInv, TrendsFileStep, GotStep DEF WInv
  <1> QED BY <1>1, <1>2, PTL DEF TrendsSpec

\* However watchers, readers and workers interleave, and wherever one is
\* interrupted, watch-trends ends on its own trends file only after two
\* processes had the file in use at once (cll.rs).
THEOREM WatchersOutliveInterrupts == TrendsSpec => []WatchDiesOfCollision
  <1>1. WInv => WatchDiesOfCollision
    BY DEF WInv, TrendsFileInv, WatchDiesOfCollision
  <1> QED BY <1>1, TrendsFileInvariant, PTL

-----------------------------------------------------------------------------
(* The window.                                                             *)

Below == {p \in Nat \X Nat : p[1] < p[2]}

\* A set of numbers that is not empty has a least.
LEMMA LeastNat ==
    ASSUME NEW T \in SUBSET Nat, T # {}
    PROVE  \E n \in T : \A m \in T : n <= m
  <1>1. IsWellFoundedOn(Below, Nat)
    BY NatLessThanWellFounded DEF OpToRel, Below
  <1>2. PICK n \in T : \A m \in T : <<m, n>> \notin Below
    BY <1>1, WFMin
  <1>3. \A m \in T : ~(m < n)
    BY <1>2 DEF Below
  <1> QED BY <1>3

\* The runs of a set that come after r, and their number.
After(runs, r) == {s \in runs : Before(r, s)}

\* Before orders the runs linearly, by their stamps and then their numbers.
LEMMA RunsAreOrdered ==
    ASSUME TInv
    PROVE  /\ \A r \in Runs : ~Before(r, r)
           /\ \A r, s \in Runs : r = s \/ Before(r, s) \/ Before(s, r)
           /\ \A r, s, t \in Runs : Before(r, s) /\ Before(s, t) => Before(r, t)
  BY RunQueueAssumption DEF TInv, TrendsTypeOK, Before

\* What comes after a later run also comes after an earlier one.
LEMMA LaterHasFewerAfter ==
    ASSUME TInv, NEW runs \in SUBSET Runs, IsFiniteSet(runs),
           NEW r \in runs, NEW s \in runs, Before(r, s)
    PROVE  /\ Cardinality(After(runs, r)) \in Nat /\ Cardinality(After(runs, s)) \in Nat
           /\ Cardinality(After(runs, s)) < Cardinality(After(runs, r))
  <1>1. /\ After(runs, s) \subseteq After(runs, r)
        /\ s \in After(runs, r) /\ s \notin After(runs, s)
    BY RunsAreOrdered DEF After
  <1>2. IsFiniteSet(After(runs, r)) /\ IsFiniteSet(After(runs, s))
    BY FS_Subset DEF After
  <1>3. /\ Cardinality(After(runs, s)) <= Cardinality(After(runs, r))
        /\ Cardinality(After(runs, s)) # Cardinality(After(runs, r))
    BY <1>1, <1>2, FS_Subset
  <1> QED BY <1>2, <1>3, FS_CardinalityType

\* A finite set of runs has a last one.
LEMMA LastRun ==
    ASSUME TInv, NEW runs \in SUBSET Runs, IsFiniteSet(runs), runs # {}
    PROVE  \E r \in runs : After(runs, r) = {}
  <1> DEFINE Count(r) == Cardinality(After(runs, r))
             Counts == {Count(r) : r \in runs}
  <1>1. \A r \in runs : Count(r) \in Nat
    BY FS_Subset, FS_CardinalityType DEF After
  <1>2. PICK r \in runs : \A s \in runs : Count(r) <= Count(s)
    <2>1. Counts \in SUBSET Nat /\ Counts # {}
      BY <1>1
    <2>2. PICK least \in Counts : \A m \in Counts : least <= m
      BY <2>1, LeastNat
    <2>3. PICK r \in runs : Count(r) = least
      OBVIOUS
    <2> QED BY <2>2, <2>3
  <1>3. ASSUME NEW s \in After(runs, r)
        PROVE  FALSE
    <2>1. s \in runs /\ Before(r, s)
      BY DEF After
    <2>2. Count(s) < Count(r)
      BY <2>1, LaterHasFewerAfter
    <2> QED BY <1>1, <1>2, <2>1, <2>2
  <1> QED BY <1>3

\* A window of the last runs leaves out only runs older than all it keeps, and
\* keeps one of any that there are.
LEMMA WindowKeepsTheLast ==
    ASSUME TInv, NEW runs \in SUBSET Runs, IsFiniteSet(runs), NEW n \in Nat,
           NEW r \in runs \ SelectWindow(runs, n)
    PROVE  /\ SelectWindow(runs, n) # {}
           /\ \A s \in SelectWindow(runs, n) : Before(r, s)
  <1>1. n # 0 /\ SelectWindow(runs, n) = {s \in runs : Cardinality(After(runs, s)) < n}
    BY DEF SelectWindow, After
  <1>2. \A s \in runs : Cardinality(After(runs, s)) \in Nat
    BY FS_Subset, FS_CardinalityType DEF After
  <1>3. PICK last \in runs : After(runs, last) = {}
    BY LastRun
  <1>4. last \in SelectWindow(runs, n)
    <2>1. Cardinality(After(runs, last)) = 0
      BY <1>3, FS_EmptySet
    <2> QED BY <1>1, <2>1
  <1>5. ASSUME NEW s \in SelectWindow(runs, n)
        PROVE  Before(r, s)
    <2>1. s \in runs /\ Cardinality(After(runs, s)) < n /\ ~(Cardinality(After(runs, r)) < n)
      BY <1>1
    <2>2. ~Before(s, r)
      BY <1>2, <2>1, LaterHasFewerAfter
    <2> QED BY <2>1, <2>2, RunsAreOrdered
  <1> QED BY <1>4, <1>5

\* What load_valid_runs and select_window of cll.rs report on is what was there
\* when the reader began, and the latest of it.
THEOREM ReadersReportTheLatest == TrendsSpec => []ReadersAreRight
  <1>1. WInv => ReadIsBracketed
    BY DEF WInv, TInv, ReaderInv, ReadIsBracketed
  <1>2. WInv => WindowIsRecent
    <2> SUFFICES ASSUME WInv, NEW x \in Readers, HasRead(x), NEW r \in before[x] \ Selected(x)
                 PROVE  Selected(x) # {} /\ \A s \in Selected(x) : Before(r, s)
      BY DEF WindowIsRecent
    <2>1. r \in got[x] \ SelectWindow(got[x], wants[x])
      BY <1>1 DEF ReadIsBracketed, Selected
    <2>2. got[x] \in SUBSET Runs /\ IsFiniteSet(got[x]) /\ wants[x] \in Nat
      BY TrendsAssumption DEF WInv, TInv, TrendsTypeOK, GotInv, ReaderInv
    <2> QED BY <2>1, <2>2, WindowKeepsTheLast DEF WInv, Selected
  <1>3. WInv => ReadersAreRight
    BY <1>1, <1>2 DEF ReadersAreRight
  <1> QED BY <1>3, TrendsFileInvariant, PTL

=============================================================================
