------------------------------ MODULE MCIngest ------------------------------
(* Small instances of Ingest for TLC: two requests, two versions and renewed *)
(* grants, or three requests that spend one grant.                           *)
EXTENDS Ingest, TLC

CONSTANTS v1, v2, c1, o1, g1, q1, q2, q3,
          Scenes

VARIABLE scene

TwoVersions == {v1, v2}
OneContent == {c1}
OneOperator == {o1}
OneGranter == {g1}
ThreeRequests == {q1, q2, q3}
AllClients == {o1, g1, q1, q2, q3}
IngestSymmetry == Permutations(TwoVersions) \union Permutations(ThreeRequests)

BudgetSet == IF canary = NoRow THEN 0 ELSE canary.budget

VersionsInUse ==
    {v \in TwoVersions : file[v] # NoContent \/ job[o1].version = v
                            \/ (BudgetSet > 0 /\ canary.version = v)}

\* With one content, a second init of a version is an activation.
InitsAgain == at'[o1] = "lock" /\ job'[o1].kind = "init" /\ file[job'[o1].version] # NoContent

SceneInit ==
    /\ scene \in Scenes
    /\ Init
    /\ scene # "renewals" => grants = 0

SceneNext ==
    /\ Next
    /\ CASE scene = "renewals" ->
              /\ \E q \in Requests : step'[q] = "idle"
              /\ BudgetSet' < 3
              /\ ~InitsAgain
         [] scene = "trio" ->
              /\ Cardinality(VersionsInUse') < 2 /\ job'[o1].kind # "activate"
              /\ BudgetSet' \in {0, 3}
              /\ grants' <= 1
    /\ UNCHANGED scene

SceneSpec == SceneInit /\ [][SceneNext]_<<scene, vars>>
=============================================================================
