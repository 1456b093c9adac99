------------------------------ MODULE MCStores ------------------------------
(* The two stores without a lock.  They share no file, so a behaviour        *)
(* exercises one of them.                                                    *)
EXTENDS Lineage, RefCanon, TLC

VARIABLE store

StoresInit == LineageInit /\ CanonInit /\ store \in {"lineage", "canon"}

StoresNext ==
    \/ store = "lineage" /\ LineageNext /\ UNCHANGED <<store, canonVars>>
    \/ store = "canon" /\ CanonNext /\ UNCHANGED <<store, lineageVars>>

StoresSpec == StoresInit /\ [][StoresNext]_<<store, lineageVars, canonVars>>

CONSTANTS p1, p2, h1, h2, wav, flac
TwoProcesses == {p1, p2}
TwoHashes == {h1, h2}
TwoExtensions == {wav, flac}
StoresSymmetry ==
    Permutations(TwoProcesses) \union Permutations(TwoHashes) \union Permutations(TwoExtensions)
=============================================================================
