----------------------------- MODULE VersionLog -----------------------------
(***************************************************************************)
(* What the constitution registry promises: a version is registered once   *)
(* and never rebound to other bytes, and the current version is always a   *)
(* registered one.                                                         *)
(***************************************************************************)
CONSTANTS Versions, Contents, NoContent, NoPointer

VARIABLES bound,    \* bound[v]: the content version v stands for, or NoContent
          current   \* the activated version and its content, or NoPointer

logVars == <<bound, current>>

LogInit ==
    /\ bound = [v \in Versions |-> NoContent]
    /\ current = NoPointer

Register(v, c) ==
    /\ bound[v] = NoContent
    /\ bound' = [bound EXCEPT ![v] = c]
    /\ UNCHANGED current

Activate(v, c) ==
    /\ bound[v] \in {NoContent, c}
    /\ bound' = [bound EXCEPT ![v] = c]
    /\ current' = [version |-> v, hash |-> c]

LogNext == \E v \in Versions, c \in Contents : Register(v, c) \/ Activate(v, c)

LogSpec == LogInit /\ [][LogNext]_logVars
=============================================================================
