----------------------------- MODULE MCRegistry -----------------------------
(* Small instances of Registry and Resolve for TLC: two operators, or one    *)
(* operator and the life of one run.                                         *)
EXTENDS Resolve, TLC

CONSTANTS v1, v2, c1, c2, o1, o2, t1, t2,
          Scenes

VARIABLE scene

TwoVersions == {v1, v2}
TwoContents == {c1, c2}
TwoOperators == {o1, o2}
TwoTakes == {t1, t2}
RegistrySymmetry ==
    Permutations(TwoVersions) \union Permutations(TwoContents) \union Permutations(TwoTakes)
        \union Permutations(TwoOperators)

SceneInit ==
    /\ scene \in Scenes
    /\ ResolveInit
    /\ scene # "file" => contract = NoContract

\* The operator knows one version and one file for it.
OneVersion ==
    \E v \in Versions, c \in Contents :
        /\ \A o \in Operators :
              job'[o].version \in {v, NoVersion} /\ job'[o].content \in {c, NoContent}
        /\ \A w \in Versions : file'[w] = (IF w = v THEN file'[v] ELSE NoContent)
        /\ file'[v] \in {c, NoContent}

\* Two operators alone; or one operator next to a run whose file stays as it
\* is; or a run whose file the user saves, with one version to be judged under.
SceneNext ==
    /\ IF scene = "operators" THEN RegistryNext /\ UNCHANGED resolveVars
       ELSE ResolveNext /\ \E o \in Operators : at'[o] = "idle" /\ at[o] = "idle"
    /\ scene = "run" => saves' = 0 /\ \A o \in Operators : job'[o].kind # "init" /\ at'[o] # "seeActive"
    /\ scene = "file" => OneVersion
    /\ UNCHANGED scene

SceneSpec == SceneInit /\ [][SceneNext]_<<scene, registryVars, resolveVars>>
=============================================================================
