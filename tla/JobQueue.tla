------------------------------ MODULE JobQueue ------------------------------
(***************************************************************************)
(* What the analysis queue promises its users, without tables, polling or  *)
(* report files: a job is submitted once, is given to at most one          *)
(* executor, and is settled once by the executor that holds it.  An        *)
(* executor may abandon its job (its process dies); an abandoned job is    *)
(* never given to anybody else.                                            *)
(***************************************************************************)
CONSTANTS Jobs, Executors, NoJob

VARIABLES state,  \* state[j]: what the queue says of job j
          busy    \* busy[e]: the job executor e holds, or NoJob

jobVars == <<state, busy>>

JobStates == {"absent", "queued", "running", "done", "failed"}

JobInit ==
    /\ state = [j \in Jobs |-> "absent"]
    /\ busy = [e \in Executors |-> NoJob]

Submit(j) ==
    /\ state[j] = "absent"
    /\ state' = [state EXCEPT ![j] = "queued"]
    /\ UNCHANGED busy

Start(e, j) ==
    /\ state[j] = "queued"
    /\ busy[e] = NoJob
    /\ state' = [state EXCEPT ![j] = "running"]
    /\ busy' = [busy EXCEPT ![e] = j]

Settle(e, j, outcome) ==
    /\ busy[e] = j
    /\ state[j] = "running"
    /\ state' = [state EXCEPT ![j] = outcome]
    /\ busy' = [busy EXCEPT ![e] = NoJob]

Abandon(e) ==
    /\ busy' = [busy EXCEPT ![e] = NoJob]
    /\ UNCHANGED state

JobNext ==
    \/ \E j \in Jobs : Submit(j)
    \/ \E e \in Executors, j \in Jobs :
          \/ Start(e, j)
          \/ \E outcome \in {"done", "failed"} : Settle(e, j, outcome)
    \/ \E e \in Executors : Abandon(e)

JobSpec == JobInit /\ [][JobNext]_jobVars
=============================================================================
