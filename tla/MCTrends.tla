------------------------------ MODULE MCTrends ------------------------------
(* Small instances of Trends for TLC: one process that reads the reports of  *)
(* two runs in the making, two that write the trends file of one run, or two *)
(* daemons that add to the history of a project while nobody reads it.       *)
(* Nobody presses Ctrl-C: to a reader a stopped worker is a slow one.        *)
EXTENDS Trends, TLC

CONSTANTS d1, d2, x1, x2,
          Scenes

VARIABLE scene

TwoDaemons == {d1, d2}
TwoReaders == {x1, x2}
ReaderSymmetry == Permutations(TwoReaders)

SceneInit == scene \in Scenes /\ TrendsInit

SceneNext ==
    /\ TrendsNext
    /\ shutdown' = {}
    /\ CASE scene = "reading" ->
              /\ pc'[d2] = "down" /\ request'[3] = NoDaemon
              /\ \E x \in Readers : {rpc[x], rpc'[x]} = {"idle"}
              /\ \A x \in Readers : rpc'[x] # "open"
         [] scene = "writing" ->
              /\ pc'[d2] = "down" /\ clock' = 0
              /\ request'[2] = NoDaemon /\ request'[3] = NoDaemon
              /\ \A x \in Readers : rpc'[x] # "answer" /\ wants'[x] # 1
         [] scene = "appending" ->
              /\ \A d \in Daemons : pc'[d] \notin {"fail", "lastfail"}
              /\ \A x \in Readers : rpc'[x] = "idle"
    /\ UNCHANGED scene

SceneSpec == SceneInit /\ [][SceneNext]_<<scene, allVars>>
=============================================================================
