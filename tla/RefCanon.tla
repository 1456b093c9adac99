------------------------------ MODULE RefCanon ------------------------------
(***************************************************************************)
(* The reference canon (ref_canon.rs): an index of references, and for     *)
(* each a profile and perhaps a copy of its file.  Processes of sce_cli    *)
(* read the index, change files and replace the index, without a lock.     *)
(* Every file is replaced by a rename from a temporary file of the         *)
(* process's own.                                                          *)
(***************************************************************************)
CONSTANTS Curators,   \* processes
          Hashes,     \* contents of reference files
          Extensions, \* of their names
          NoEntry, NoCopy, NoJob

ASSUME CanonAssumption ==
    /\ NoCopy \notin Extensions
    /\ NoEntry \notin Extensions \union {NoCopy}
    /\ NoJob \notin [hash : Hashes, copy : Extensions \union {NoCopy}]

VARIABLES
    index,     \* index[h]: the extension of its copy, NoCopy, or NoEntry
    profiles,  \* hashes with a profile file
    copies,    \* files/<hash>.<extension>
    step,      \* where process p stands
    job,       \* the hash it works on, and the copy to make or to remove
    seen,      \* the index it has read
    disturbed, \* history: two commands overlapped, or one was broken off
    removing,  \* history: a remove and another command overlapped
    renamed    \* history: hashes copied again under another extension

canonFiles == <<index, profiles, copies>>
canonHistory == <<disturbed, removing, renamed>>
canonVars == <<canonFiles, step, job, seen, canonHistory>>

Entries == Extensions \union {NoCopy, NoEntry}
Jobs == [hash : Hashes, copy : Extensions \union {NoCopy}]
Removal == {"unlist", "unprofile", "uncopy"}
CanonSteps == Removal \union {"idle", "analyze", "load", "copy", "list"}
NoIndex == [h \in Hashes |-> NoEntry]

CanonInit ==
    /\ index = NoIndex
    /\ profiles = {}
    /\ copies = {}
    /\ step = [p \in Curators |-> "idle"]
    /\ job = [p \in Curators |-> NoJob]
    /\ seen = [p \in Curators |-> NoIndex]
    /\ disturbed = FALSE
    /\ removing = FALSE
    /\ renamed = {}

Hash(p) == job[p].hash
Moves(p, from, to) == step[p] = from /\ step' = [step EXCEPT ![p] = to]

\* A command begins.
Starts(p, to, j) ==
    LET others == {step[q] : q \in Curators \ {p}} \ {"idle"} IN
    /\ Moves(p, "idle", to)
    /\ job' = [job EXCEPT ![p] = j]
    /\ disturbed' = (disturbed \/ others # {})
    /\ removing' = (removing \/ (others # {} /\ (others \union {to}) \intersect Removal # {}))
    /\ UNCHANGED <<canonFiles, renamed>>

\* A command ends, and with it what it knew.
Finishes(p) ==
    /\ step' = [step EXCEPT ![p] = "idle"]
    /\ job' = [job EXCEPT ![p] = NoJob]
    /\ seen' = [seen EXCEPT ![p] = NoIndex]

-----------------------------------------------------------------------------
(* add_ref.                                                                *)

\* Any file, with or without --copy-file; it is hashed and analyzed.
AddRef(p) ==
    /\ \E j \in Jobs : Starts(p, "analyze", j)
    /\ UNCHANGED seen

WriteProfile(p) ==
    /\ Moves(p, "analyze", "load")
    /\ profiles' = profiles \union {Hash(p)}
    /\ UNCHANGED <<index, copies, job, seen, canonHistory>>

CopiesFile(p) == job[p].copy # NoCopy

LoadIndex(p) ==
    /\ Moves(p, "load", IF CopiesFile(p) THEN "copy" ELSE "list")
    /\ seen' = [seen EXCEPT ![p] = index]
    /\ UNCHANGED <<canonFiles, job, canonHistory>>

CopyRefFile(p) ==
    /\ Moves(p, "copy", "list")
    /\ copies' = copies \union {<<Hash(p), job[p].copy>>}
    /\ renamed' = IF seen[p][Hash(p)] \in Extensions \ {job[p].copy}
                  THEN renamed \union {Hash(p)} ELSE renamed
    /\ UNCHANGED <<index, profiles, job, seen, disturbed, removing>>

\* Without --copy-file an earlier copy stays the entry's.
Entry(p) ==
    IF CopiesFile(p) \/ seen[p][Hash(p)] = NoEntry THEN job[p].copy ELSE seen[p][Hash(p)]

UpsertEntry(p) ==
    /\ step[p] = "list"
    /\ index' = [seen[p] EXCEPT ![Hash(p)] = Entry(p)]
    /\ Finishes(p)
    /\ UNCHANGED <<profiles, copies, canonHistory>>

-----------------------------------------------------------------------------
(* remove_ref.                                                             *)

RemoveRef(p) ==
    /\ \E h \in Hashes :
          /\ index[h] # NoEntry
          /\ Starts(p, "unlist", [hash |-> h, copy |-> index[h]])
    /\ seen' = [seen EXCEPT ![p] = index]

\* Faulty: the shortened index is not written.
RemoveUnsaved(p) ==
    /\ Moves(p, "unlist", "unprofile")
    /\ UNCHANGED <<canonFiles, job, seen, canonHistory>>

RemoveEntry(p) ==
    /\ Moves(p, "unlist", "unprofile")
    /\ index' = [seen[p] EXCEPT ![Hash(p)] = NoEntry]
    /\ seen' = [seen EXCEPT ![p] = NoIndex]
    /\ UNCHANGED <<profiles, copies, job, canonHistory>>

RemoveProfile(p) ==
    /\ Moves(p, "unprofile", "uncopy")
    /\ profiles' = profiles \ {Hash(p)}
    /\ UNCHANGED <<index, copies, job, seen, canonHistory>>

RemoveCopy(p) ==
    /\ step[p] = "uncopy"
    /\ copies' = copies \ {<<Hash(p), job[p].copy>>}
    /\ Finishes(p)
    /\ UNCHANGED <<index, profiles, canonHistory>>

\* The process is interrupted, or one of its reads or writes fails.
BreakOff(p) ==
    /\ step[p] # "idle"
    /\ disturbed' = TRUE
    /\ Finishes(p)
    /\ UNCHANGED <<canonFiles, removing, renamed>>

CanonNext ==
    \E p \in Curators :
        \/ AddRef(p) \/ WriteProfile(p) \/ LoadIndex(p) \/ CopyRefFile(p) \/ UpsertEntry(p)
        \/ RemoveRef(p) \/ RemoveEntry(p) \/ RemoveProfile(p) \/ RemoveCopy(p)
        \/ BreakOff(p)

CanonSpec == CanonInit /\ [][CanonNext]_canonVars

-----------------------------------------------------------------------------
CanonTypeOK ==
    /\ index \in [Hashes -> Entries]
    /\ profiles \subseteq Hashes
    /\ copies \subseteq Hashes \X Extensions
    /\ step \in [Curators -> CanonSteps]
    /\ job \in [Curators -> Jobs \union {NoJob}]
    /\ seen \in [Curators -> [Hashes -> Entries]]
    /\ {disturbed, removing} \subseteq BOOLEAN
    /\ renamed \subseteq Hashes

\* A listed reference has its files, at every step, whatever was broken off and
\* whichever adds overlapped; only a remove that overlaps can take them away.
EntriesHaveFiles ==
    removing \/ \A h \in Hashes :
       /\ index[h] # NoEntry => h \in profiles
       /\ index[h] \in Extensions => <<h, index[h]>> \in copies

\* When nothing overlapped or broke off, commands leave no file behind, except
\* copies of a content that was copied again under another extension.
NoLeftovers ==
    ~disturbed /\ (\A p \in Curators : step[p] = "idle") =>
       /\ \A h \in profiles : index[h] # NoEntry
       /\ \A c \in copies : index[c[1]] = c[2] \/ c[1] \in renamed

\* The index and the files of the store tell the same.
CanonIsWhole == EntriesHaveFiles /\ NoLeftovers
=============================================================================
