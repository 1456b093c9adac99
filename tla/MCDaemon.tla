------------------------------ MODULE MCDaemon ------------------------------
(* Small instances of Daemon for TLC.  A behaviour has one of five casts:    *)
(* its requests, and what else goes on.                                      *)
EXTENDS Daemon

VARIABLE cast

CONSTANTS v1, default, edited, create1, create2, enqueue1, enqueue2, list1
OneVersion == {v1}
TwoContents == {default, edited}
TwoCreates == {create1, create2}
TwoEnqueues == {enqueue1, enqueue2}
OneList == {list1}

Cast(requests, others) == [requests |-> requests, others |-> others]
Casts ==
    {Cast({create1, create2, enqueue1}, {"command"}),
     Cast({create1, create2, enqueue1, enqueue2}, {}),
     Cast({create1, create2}, {"faults"}),
     Cast({create1, enqueue1, enqueue2}, {"worker"}),
     Cast({create1, enqueue1, list1}, {"worker", "command"})}

CastInit ==
    /\ Init
    /\ cast \in Casts

CastNext ==
    /\ Next
    /\ \A h \in Handlers \ cast.requests : at'[h] = "idle"
    /\ "worker" \in cast.others \/ worker' = "idle"
    /\ "command" \in cast.others \/ "faults" \in cast.others \/ outside' = "free"
    /\ "faults" \in cast.others => daemon' = "up" /\ outside' # "shared"
    /\ "faults" \in cast.others \/
          (crashes' = 0 /\ ~meddled' /\ (outside = "free" \/ UNCHANGED logVars))
    /\ UNCHANGED cast

CastSpec == CastInit /\ [][CastNext]_<<vars, cast>> /\ Fairness
=============================================================================
