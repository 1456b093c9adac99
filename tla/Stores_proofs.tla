---------------------------- MODULE Stores_proofs ----------------------------
(***************************************************************************)
(* Theorems about the two stores without a lock, Lineage and RefCanon, for *)
(* any number of processes, nodes, contents and extensions.  lineage.json  *)
(* is acyclic because what is written is an acyclic graph that was read,   *)
(* with one edge whose cycle was looked for in that same graph; what a     *)
(* store promises beyond that needs its commands not to overlap.           *)
(***************************************************************************)
EXTENDS Lineage, RefCanon, TLAPS

-----------------------------------------------------------------------------
(* Lineage: the inductive invariant.                                       *)

\* A process that is about to write has read an acyclic graph in which its edge
\* closes no cycle.
PendingInv ==
    \A p \in Linkers : ~Idle(p) =>
       /\ Acyclic(loaded[p])
       /\ ~PathBetween(loaded[p], linking[p][2], linking[p][1])

\* Until links have overlapped, one process at most is about to write, and what
\* it has read is the file.
AloneInv ==
    ~linksOverlap =>
       /\ linked \subseteq lineage
       /\ \A p \in Linkers : ~Idle(p) =>
             loaded[p] = lineage /\ \A q \in Linkers \ {p} : Idle(q)

LineageInv == LineageTypeOK /\ PendingInv /\ LineageIsAcyclic /\ AloneInv

-----------------------------------------------------------------------------
(* Closed sets separate the ends of an edge that lies on no cycle.         *)

LEMMA Separation ==
    ASSUME NEW edges, NEW start, NEW goal, ~PathBetween(edges, start, goal)
    PROVE  \E S \in SUBSET Nodes : start \in S /\ goal \notin S /\ Closed(edges, S)
  BY DEF PathBetween

LEMMA NoPath ==
    ASSUME NEW edges, NEW start, NEW goal, NEW S \in SUBSET Nodes,
           start \in S, goal \notin S, Closed(edges, S)
    PROVE  ~PathBetween(edges, start, goal)
  BY DEF PathBetween

\* An edge from f to t keeps a graph acyclic if there is no path from t to f: if
\* the set that separates an older edge contains f, its intersection with the
\* set that separates t from f does not, or their union is closed.
LEMMA NewEdgeIsSafe ==
    ASSUME NEW edges, Acyclic(edges), NEW new, ~PathBetween(edges, new[2], new[1])
    PROVE  Acyclic(edges \union {new})
  <1> DEFINE after == edges \union {new}
  <1>1. PICK T \in SUBSET Nodes : new[2] \in T /\ new[1] \notin T /\ Closed(edges, T)
    BY Separation
  <1>2. ~PathBetween(after, new[2], new[1])
    <2>1. Closed(after, T)
      BY <1>1 DEF Closed
    <2> QED BY <1>1, <2>1, NoPath
  <1>3. ASSUME NEW e \in edges
        PROVE  ~PathBetween(after, e[2], e[1])
    <2>1. PICK S \in SUBSET Nodes : e[2] \in S /\ e[1] \notin S /\ Closed(edges, S)
      BY <1>3, Separation DEF Acyclic
    <2>2. CASE e[1] \in T
      <3>1. e[2] \in T
        BY <1>1, <1>3, <2>2 DEF Closed
      <3>2. Closed(after, S \intersect T)
        BY <1>1, <2>1 DEF Closed
      <3>3. e[2] \in S \intersect T /\ e[1] \notin S \intersect T /\ S \intersect T \in SUBSET Nodes
        BY <2>1, <3>1
      <3> QED BY <3>2, <3>3, NoPath
    <2>3. CASE e[1] \notin T
      <3>1. Closed(after, S \union T)
        BY <1>1, <2>1 DEF Closed
      <3>2. e[2] \in S \union T /\ e[1] \notin S \union T /\ S \union T \in SUBSET Nodes
        BY <2>1, <2>3
      <3> QED BY <3>1, <3>2, NoPath
    <2> QED BY <2>2, <2>3
  <1> QED BY <1>2, <1>3 DEF Acyclic

-----------------------------------------------------------------------------
(* Every step keeps the invariant.                                         *)

LEMMA LinkAgainInv ==
    ASSUME LineageInv, NEW p \in Linkers, NEW e \in Edges, LinkAgain(p, e)
    PROVE  LineageInv'
  BY DEF LineageInv, LineageTypeOK, PendingInv, LineageIsAcyclic, AloneInv, LinkAgain, Reads, Idle

LEMMA LoadGraphInv ==
    ASSUME LineageInv, NEW p \in Linkers, NEW e \in Edges, LoadGraph(p, e)
    PROVE  LineageInv'
  <1> USE DEF LineageInv
  <1>1. LineageTypeOK'
    BY DEF LineageTypeOK, LoadGraph, Reads
  <1>2. PendingInv'
    <2> SUFFICES ASSUME NEW q \in Linkers, ~Idle(q)'
                 PROVE  /\ Acyclic(loaded'[q])
                        /\ ~PathBetween(loaded'[q], linking'[q][2], linking'[q][1])
      BY DEF PendingInv
    <2>1. CASE q = p
      BY <2>1 DEF LineageTypeOK, LineageIsAcyclic, LoadGraph
    <2>2. CASE q # p
      BY <2>2 DEF LineageTypeOK, PendingInv, LoadGraph, Idle
    <2> QED BY <2>1, <2>2
  <1>3. LineageIsAcyclic'
    BY DEF LineageIsAcyclic, LoadGraph
  <1>4. AloneInv'
    <2> SUFFICES ASSUME ~linksOverlap' PROVE AloneInv'
      BY DEF AloneInv
    <2>1. ~linksOverlap /\ \A q \in Linkers \ {p} : Idle(q)
      BY DEF LoadGraph, Reads
    <2>2. loaded'[p] = lineage /\ linked' = linked /\ lineage' = lineage
      BY DEF LineageTypeOK, LoadGraph
    <2>3. \A q \in Linkers \ {p} : Idle(q)'
      BY <2>1 DEF LineageTypeOK, LoadGraph, Idle
    <2> QED BY <2>1, <2>2, <2>3 DEF AloneInv
  <1> QED BY <1>1, <1>2, <1>3, <1>4

\* A process that ends its command leaves the others' pending edges alone.
LEMMA ForgetInv ==
    ASSUME LineageTypeOK, PendingInv, NEW p \in Linkers, Forget(p)
    PROVE  /\ PendingInv'
           /\ linking' \in [Linkers -> Edges \union {NoLink}]
           /\ loaded' \in [Linkers -> SUBSET Edges]
           /\ \A q \in Linkers : ~Idle(q)' => q # p /\ ~Idle(q) /\ loaded'[q] = loaded[q]
  BY DEF LineageTypeOK, PendingInv, Forget, Idle

LEMMA WriteGraphInv ==
    ASSUME LineageInv, NEW p \in Linkers, WriteGraph(p)
    PROVE  LineageInv'
  <1> USE DEF LineageInv
  <1>1. linking[p] \in Edges /\ loaded[p] \subseteq Edges
    BY DEF LineageTypeOK, WriteGraph, Idle
  <1>2. PendingInv' /\ LineageTypeOK'
    BY <1>1, ForgetInv DEF LineageTypeOK, WriteGraph, Written, Normalized
  <1>3. LineageIsAcyclic'
    <2>1. Acyclic(loaded[p]) /\ ~PathBetween(loaded[p], linking[p][2], linking[p][1])
      BY DEF PendingInv, WriteGraph
    <2>2. lineage' = loaded[p] \union {linking[p]}
      BY DEF WriteGraph, Written, Normalized
    <2>3. Acyclic(loaded[p] \union {linking[p]})
      BY <2>1, NewEdgeIsSafe
    <2> QED BY <2>2, <2>3 DEF LineageIsAcyclic
  <1>4. AloneInv'
    <2> SUFFICES ASSUME ~linksOverlap' PROVE AloneInv'
      BY DEF AloneInv
    <2>1. ~linksOverlap
      BY DEF WriteGraph
    <2>2. linked \subseteq lineage /\ loaded[p] = lineage /\ \A q \in Linkers \ {p} : Idle(q)
      BY <2>1 DEF AloneInv, WriteGraph
    <2>3. linked' \subseteq lineage'
      BY <2>2 DEF WriteGraph, Written, Normalized
    <2>4. \A q \in Linkers : Idle(q)'
      BY <2>2, ForgetInv DEF WriteGraph
    <2> QED BY <2>3, <2>4 DEF AloneInv
  <1> QED BY <1>2, <1>3, <1>4

LEMMA AbandonInv ==
    ASSUME LineageInv, NEW p \in Linkers, AbandonLink(p)
    PROVE  LineageInv'
  BY ForgetInv DEF LineageInv, LineageTypeOK, LineageIsAcyclic, AloneInv, AbandonLink

LEMMA StepLineageInv == LineageInv /\ [LineageNext]_lineageVars => LineageInv'
  <1> SUFFICES ASSUME LineageInv, [LineageNext]_lineageVars PROVE LineageInv'
    OBVIOUS
  <1>1. CASE LineageNext
    BY <1>1, LinkAgainInv, LoadGraphInv, WriteGraphInv, AbandonInv DEF LineageNext
  <1>2. CASE UNCHANGED lineageVars
    BY <1>2 DEF lineageVars, LineageInv, LineageTypeOK, PendingInv, LineageIsAcyclic, AloneInv, Idle
  <1> QED BY <1>1, <1>2

-----------------------------------------------------------------------------
LEMMA InitLineageInv == LineageInit => LineageInv
  BY LineageAssumption
     DEF LineageInit, LineageInv, LineageTypeOK, PendingInv, LineageIsAcyclic, AloneInv,
         Acyclic, Idle

\* The edges, what processes have read of them and what they add keep their
\* types (graph.rs, link).
THEOREM LineageTypeCorrect == LineageSpec => []LineageTypeOK
  <1>1. LineageInv => LineageTypeOK
    BY DEF LineageInv
  <1> QED BY <1>1, InitLineageInv, StepLineageInv, PTL DEF LineageSpec

\* Unlocked links never put a cycle into lineage.json, for any number of nodes
\* and processes.
THEOREM LineageStaysAcyclic == LineageSpec => []LineageIsAcyclic
  <1>1. LineageInv => LineageIsAcyclic
    BY DEF LineageInv
  <1> QED BY <1>1, InitLineageInv, StepLineageInv, PTL DEF LineageSpec


\* Only processes whose links overlap can lose an edge that was linked: each
\* writes the graph it has read (graph.rs, link).
THEOREM SuccessfulLinksStay == LineageSpec => []LinksAreKept
  <1>1. LineageInv => LinksAreKept
    BY DEF LineageInv, AloneInv, LinksAreKept
  <1> QED BY <1>1, InitLineageInv, StepLineageInv, PTL DEF LineageSpec

-----------------------------------------------------------------------------
(* RefCanon: the inductive invariant.                                      *)

\* The command at work has a job, and copies only under an extension.
JobInv ==
    \A p \in Curators :
       /\ step[p] # "idle" => job[p] \in Jobs
       /\ step[p] = "copy" => job[p].copy \in Extensions

\* The files of what an index lists.
Filed(i) ==
    \A h \in Hashes :
       /\ i[h] # NoEntry => h \in profiles
       /\ i[h] \in Extensions => <<h, i[h]>> \in copies

\* Until a remove has overlapped another command, a remover is alone, ...
RemovesAlone ==
    \A p, q \in Curators : p # q /\ step[p] \in Removal => step[q] = "idle"

\* ... an add has the files of its own entry and of the index it has read, and
\* a remover has taken its entry out before it deletes.
Prepared(p) ==
    /\ step[p] \in {"load", "copy", "list"} => Hash(p) \in profiles
    /\ step[p] \in {"copy", "list", "unlist"} => Filed(seen[p])
    /\ step[p] = "list" /\ CopiesFile(p) => <<Hash(p), job[p].copy>> \in copies
    /\ step[p] \in {"unprofile", "uncopy"} => index[Hash(p)] = NoEntry

FilesInv ==
    ~removing => Filed(index) /\ RemovesAlone /\ \A p \in Curators : Prepared(p)

\* Until commands have overlapped or broken off, one is at work at a time, what
\* it has read is the index, ...
Undisturbed ==
    /\ \A p, q \in Curators : p # q /\ step[p] # "idle" => step[q] = "idle"
    /\ \A p \in Curators :
          /\ step[p] \in {"copy", "list", "unlist"} => seen[p] = index
          /\ step[p] = "unlist" => job[p].copy = index[Hash(p)]
          /\ step[p] \in {"unprofile", "uncopy"} => index[Hash(p)] = NoEntry
          /\ step[p] = "list" /\ CopiesFile(p)
                /\ seen[p][Hash(p)] \in Extensions \ {job[p].copy} => Hash(p) \in renamed

\* ... and every file is listed, was left by a renaming, or is its business.
Expected(h) ==
    \/ index[h] # NoEntry
    \/ \E p \in Curators : step[p] \in {"load", "copy", "list", "unprofile"} /\ Hash(p) = h

ExpectedCopy(c) ==
    \/ index[c[1]] = c[2]
    \/ c[1] \in renamed
    \/ \E p \in Curators : step[p] \in {"list", "unprofile", "uncopy"} /\ <<Hash(p), job[p].copy>> = c

LeftoverInv ==
    ~disturbed =>
       /\ Undisturbed
       /\ \A h \in profiles : Expected(h)
       /\ \A c \in copies : ExpectedCopy(c)

CanonInv == CanonTypeOK /\ JobInv /\ FilesInv /\ LeftoverInv

-----------------------------------------------------------------------------
(* Types.                                                                  *)

USE DEF Jobs, Entries, Removal, CanonSteps, NoIndex, Hash, CopiesFile, canonHistory

LEMMA InitCanon == CanonInit => CanonInv
  <1> SUFFICES ASSUME CanonInit PROVE CanonInv
    OBVIOUS
  <1> USE CanonAssumption DEF CanonInit
  <1>1. CanonTypeOK
    BY DEF CanonTypeOK
  <1>2. JobInv
    BY DEF JobInv
  <1>3. FilesInv
    <2>1. Filed(index)
      BY DEF Filed
    <2>2. RemovesAlone /\ \A p \in Curators : Prepared(p)
      BY DEF RemovesAlone, Prepared
    <2> QED BY <2>1, <2>2 DEF FilesInv
  <1>4. LeftoverInv
    BY DEF LeftoverInv, Undisturbed
  <1> QED BY <1>1, <1>2, <1>3, <1>4 DEF CanonInv

LEMMA StartTypes ==
    ASSUME CanonTypeOK, JobInv, NEW p \in Curators, NEW to \in {"analyze", "unlist"},
           NEW j \in Jobs, Starts(p, to, j),
           seen' \in [Curators -> [Hashes -> Entries]]
    PROVE  CanonTypeOK' /\ JobInv'
  BY DEF Starts, Moves, CanonTypeOK, JobInv, canonFiles

LEMMA TypeStep ==
    ASSUME CanonTypeOK, JobInv, CanonNext
    PROVE  CanonTypeOK' /\ JobInv'
  <1>1. PICK p \in Curators :
            \/ AddRef(p) \/ WriteProfile(p) \/ LoadIndex(p) \/ CopyRefFile(p) \/ UpsertEntry(p)
            \/ RemoveRef(p) \/ RemoveEntry(p) \/ RemoveProfile(p) \/ RemoveCopy(p)
            \/ BreakOff(p)
    BY DEF CanonNext
  <1> USE DEF CanonTypeOK, JobInv, Moves, Finishes, canonFiles
  <1>2. CASE AddRef(p)
    <2>1. PICK j \in Jobs : Starts(p, "analyze", j)
      BY <1>2 DEF AddRef
    <2> QED BY <2>1, <1>2, StartTypes DEF AddRef
  <1>3. CASE RemoveRef(p)
    <2>1. PICK h \in Hashes : index[h] # NoEntry
                              /\ Starts(p, "unlist", [hash |-> h, copy |-> index[h]])
      BY <1>3 DEF RemoveRef
    <2>2. [hash |-> h, copy |-> index[h]] \in Jobs
      BY <2>1
    <2>3. seen' \in [Curators -> [Hashes -> Entries]]
      BY <1>3 DEF RemoveRef
    <2> QED BY <2>1, <2>2, <2>3, StartTypes
  <1>4. CASE WriteProfile(p)
    BY <1>4 DEF WriteProfile
  <1>5. CASE LoadIndex(p)
    BY <1>5 DEF LoadIndex
  <1>6. CASE CopyRefFile(p)
    BY <1>6 DEF CopyRefFile
  <1>7. CASE UpsertEntry(p)
    <2>1. Entry(p) \in Entries
      BY <1>7, CanonAssumption DEF UpsertEntry, Entry
    <2> QED BY <1>7, <2>1 DEF UpsertEntry
  <1>8. CASE RemoveEntry(p)
    BY <1>8 DEF RemoveEntry
  <1>9. CASE RemoveProfile(p)
    BY <1>9 DEF RemoveProfile
  <1>10. CASE RemoveCopy(p)
    BY <1>10 DEF RemoveCopy
  <1>11. CASE BreakOff(p)
    BY <1>11 DEF BreakOff
  <1> QED BY <1>1, <1>2, <1>3, <1>4, <1>5, <1>6, <1>7, <1>8, <1>9, <1>10, <1>11

-----------------------------------------------------------------------------
(* The index and the files.                                                *)

\* A command that begins among adds, or alone.
LEMMA StartFiles ==
    ASSUME CanonTypeOK, JobInv, FilesInv, ~removing',
           NEW p \in Curators, NEW to \in {"analyze", "unlist"}, NEW j \in Jobs,
           Starts(p, to, j),
           seen' = IF to = "unlist" THEN [seen EXCEPT ![p] = index] ELSE seen
    PROVE  FilesInv'
  <1> USE DEF CanonTypeOK, Starts, Moves, canonFiles
  <1>1. ~removing
    OBVIOUS
  <1>2. Filed(index)'
    BY <1>1 DEF FilesInv, Filed
  <1>3. RemovesAlone'
    BY <1>1 DEF FilesInv, RemovesAlone
  <1>4. ASSUME NEW q \in Curators
        PROVE  Prepared(q)'
    <2>1. Prepared(q) /\ Filed(index)
      BY <1>1 DEF FilesInv
    <2>2. CASE q # p
      BY <2>1, <2>2 DEF Prepared, Filed
    <2>3. CASE q = p /\ to = "analyze"
      BY <2>3 DEF Prepared
    <2>4. CASE q = p /\ to = "unlist"
      BY <2>1, <2>4 DEF Prepared, Filed
    <2> QED BY <2>2, <2>3, <2>4
  <1> QED BY <1>2, <1>3, <1>4 DEF FilesInv

\* Steps of a command at work.  Those of an add only add files; a remover is
\* alone, so that no one else counts on what it deletes.
LEMMA FilesStep ==
    ASSUME CanonTypeOK, JobInv, FilesInv, CanonNext
    PROVE  FilesInv'
  <1> SUFFICES ASSUME ~removing'
               PROVE  FilesInv'
    BY DEF FilesInv
  <1>1. PICK p \in Curators :
            \/ AddRef(p) \/ WriteProfile(p) \/ LoadIndex(p) \/ CopyRefFile(p) \/ UpsertEntry(p)
            \/ RemoveRef(p) \/ RemoveEntry(p) \/ RemoveProfile(p) \/ RemoveCopy(p)
            \/ BreakOff(p)
    BY DEF CanonNext
  <1>2. CASE AddRef(p)
    <2>1. PICK j \in Jobs : Starts(p, "analyze", j)
      BY <1>2 DEF AddRef
    <2> QED BY <2>1, <1>2, StartFiles DEF AddRef
  <1>3. CASE RemoveRef(p)
    <2>1. PICK h \in Hashes : index[h] # NoEntry
                              /\ Starts(p, "unlist", [hash |-> h, copy |-> index[h]])
      BY <1>3 DEF RemoveRef
    <2>2. [hash |-> h, copy |-> index[h]] \in Jobs
      BY <2>1 DEF CanonTypeOK
    <2> QED BY <1>3, <2>1, <2>2, StartFiles DEF RemoveRef
  <1>4. CASE ~(AddRef(p) \/ RemoveRef(p))
    <2> USE DEF CanonTypeOK, JobInv, Moves, Finishes, canonFiles
    <2>1. /\ ~removing /\ RemovesAlone /\ Filed(index)
          /\ \A q \in Curators : Prepared(q)
      BY <1>1, <1>4 DEF FilesInv, WriteProfile, LoadIndex, CopyRefFile, UpsertEntry,
                        RemoveEntry, RemoveProfile, RemoveCopy, BreakOff
    <2>2. RemovesAlone'
      BY <1>1, <1>4, <2>1 DEF RemovesAlone, WriteProfile, LoadIndex, CopyRefFile, UpsertEntry,
                        RemoveEntry, RemoveProfile, RemoveCopy, BreakOff
    <2>3. ASSUME step[p] \in Removal, NEW q \in Curators \ {p}
          PROVE  step[q] = "idle"
      BY <2>1, <2>3 DEF RemovesAlone
    <2>4. Prepared(p)
      BY <2>1
    <2>5. Filed(index)' /\ \A q \in Curators : Prepared(q)'
      <3>1. CASE WriteProfile(p)
        BY <3>1, <2>1 DEF WriteProfile, Filed, Prepared
      <3>2. CASE LoadIndex(p)
        BY <3>2, <2>1 DEF LoadIndex, Filed, Prepared
      <3>3. CASE CopyRefFile(p)
        BY <3>3, <2>1 DEF CopyRefFile, Filed, Prepared
      <3>4. CASE UpsertEntry(p)
        <4>1. Filed(index)'
          BY <3>4, <2>4, CanonAssumption DEF UpsertEntry, Entry, Filed, Prepared
        <4>2. ASSUME NEW q \in Curators
              PROVE  Prepared(q)'
          <5>1. step[q] \notin {"unprofile", "uncopy"}
            BY <3>4, <2>1 DEF UpsertEntry, RemovesAlone
          <5> QED BY <5>1, <3>4, <2>1 DEF UpsertEntry, Filed, Prepared
        <4> QED BY <4>1, <4>2
      <3>5. CASE RemoveEntry(p)
        <4>1. Filed(index)'
          BY <3>5, <2>4, CanonAssumption DEF RemoveEntry, Filed, Prepared
        <4>2. ASSUME NEW q \in Curators
              PROVE  Prepared(q)'
          <5>1. CASE q = p
            BY <5>1, <3>5, <2>4 DEF RemoveEntry, Prepared
          <5>2. CASE q # p
            BY <5>2, <3>5, <2>3 DEF RemoveEntry, Prepared
          <5> QED BY <5>1, <5>2
        <4> QED BY <4>1, <4>2
      <3>6. CASE RemoveProfile(p)
        BY <3>6, <2>1, <2>3, <2>4 DEF RemoveProfile, Filed, Prepared
      <3>7. CASE RemoveCopy(p)
        <4>1. Filed(index)'
          BY <3>7, <2>1, <2>4, CanonAssumption DEF RemoveCopy, Filed, Prepared
        <4> QED BY <4>1, <3>7, <2>3 DEF RemoveCopy, Prepared
      <3>8. CASE BreakOff(p)
        BY <3>8, <2>1 DEF BreakOff, Filed, Prepared
      <3> QED BY <1>1, <1>4, <3>1, <3>2, <3>3, <3>4, <3>5, <3>6, <3>7, <3>8
    <2> QED BY <2>2, <2>5 DEF FilesInv
  <1> QED BY <1>2, <1>3, <1>4

-----------------------------------------------------------------------------
(* What is left when nothing is at work.                                   *)

\* Who is at work is alone until commands overlap; a file it has written is
\* listed by its last write, a file it has unlisted deleted by its last steps.
LEMMA LeftoverStep ==
    ASSUME CanonTypeOK, JobInv, LeftoverInv, CanonNext
    PROVE  LeftoverInv'
  <1> SUFFICES ASSUME ~disturbed'
               PROVE  /\ Undisturbed'
                      /\ \A h \in profiles' : Expected(h)'
                      /\ \A c \in copies' : ExpectedCopy(c)'
    BY DEF LeftoverInv
  <1>1. PICK p \in Curators :
            \/ AddRef(p) \/ WriteProfile(p) \/ LoadIndex(p) \/ CopyRefFile(p) \/ UpsertEntry(p)
            \/ RemoveRef(p) \/ RemoveEntry(p) \/ RemoveProfile(p) \/ RemoveCopy(p)
            \/ BreakOff(p)
    BY DEF CanonNext
  <1> USE DEF CanonTypeOK, JobInv, Moves, Finishes, canonFiles
  <1>2. /\ ~disturbed
        /\ \A q \in Curators \ {p} : step[q] = "idle" /\ step'[q] = "idle" /\ UNCHANGED job[q]
    <2>1. ~disturbed
      BY <1>1 DEF AddRef, Starts, WriteProfile, LoadIndex, CopyRefFile, UpsertEntry, RemoveRef,
                  RemoveEntry, RemoveProfile, RemoveCopy, BreakOff
    <2>2. CASE AddRef(p) \/ RemoveRef(p)
      <3>1. PICK to \in {"analyze", "unlist"}, j \in Jobs : Starts(p, to, j)
        <4>1. CASE AddRef(p)
          BY <4>1 DEF AddRef
        <4>2. CASE RemoveRef(p)
          BY <4>2 DEF RemoveRef
        <4> QED BY <2>2, <4>1, <4>2
      <3>2. {step[q] : q \in Curators \ {p}} \ {"idle"} = {}
        BY <3>1 DEF Starts
      <3>3. ASSUME NEW q \in Curators \ {p}
            PROVE  step[q] = "idle"
        <4>1. step[q] \in {step[r] : r \in Curators \ {p}}
          OBVIOUS
        <4> QED BY <3>2, <4>1
      <3> QED BY <2>1, <3>1, <3>3 DEF Starts
    <2>3. CASE ~(AddRef(p) \/ RemoveRef(p))
      <3>1. step[p] # "idle"
        BY <1>1, <2>3 DEF WriteProfile, LoadIndex, CopyRefFile, UpsertEntry,
                          RemoveEntry, RemoveProfile, RemoveCopy, BreakOff
      <3>2. \A q \in Curators \ {p} : step[q] = "idle"
        BY <2>1, <3>1 DEF LeftoverInv, Undisturbed
      <3> QED BY <1>1, <2>1, <2>3, <3>2
              DEF WriteProfile, LoadIndex, CopyRefFile, UpsertEntry,
                  RemoveEntry, RemoveProfile, RemoveCopy, BreakOff
    <2> QED BY <2>1, <2>2, <2>3
  <1>3. /\ Undisturbed
        /\ \A h \in profiles : index[h] # NoEntry
              \/ (step[p] \in {"load", "copy", "list", "unprofile"} /\ Hash(p) = h)
        /\ \A c \in copies : index[c[1]] = c[2] \/ c[1] \in renamed
              \/ (step[p] \in {"list", "unprofile", "uncopy"} /\ <<Hash(p), job[p].copy>> = c)
    BY <1>2 DEF LeftoverInv, Expected, ExpectedCopy
  <1> DEFINE
        Whole ==
           /\ step'[p] \in {"copy", "list", "unlist"} => seen'[p] = index'
           /\ step'[p] = "unlist" => job'[p].copy = index'[Hash(p)']
           /\ step'[p] \in {"unprofile", "uncopy"} => index'[Hash(p)'] = NoEntry
           /\ step'[p] = "list" /\ CopiesFile(p)'
                 /\ seen'[p][Hash(p)'] \in Extensions \ {job'[p].copy} => Hash(p)' \in renamed'
           /\ \A h \in profiles' : index'[h] # NoEntry
                 \/ (step'[p] \in {"load", "copy", "list", "unprofile"} /\ Hash(p)' = h)
           /\ \A c \in copies' : index'[c[1]] = c[2] \/ c[1] \in renamed'
                 \/ (step'[p] \in {"list", "unprofile", "uncopy"} /\ <<Hash(p)', job'[p].copy>> = c)
  <1>4. SUFFICES Whole
    <2>1. ASSUME Whole
          PROVE  Undisturbed'
      BY <2>1, <1>2 DEF Undisturbed
    <2>2. ASSUME Whole
          PROVE  /\ \A h \in profiles' : Expected(h)'
                 /\ \A c \in copies' : ExpectedCopy(c)'
      BY <2>2 DEF Expected, ExpectedCopy
    <2> QED BY <2>1, <2>2
  <1>5. CASE AddRef(p)
    BY <1>5, <1>3 DEF AddRef, Starts
  <1>6. CASE WriteProfile(p)
    BY <1>6, <1>3 DEF WriteProfile
  <1>7. CASE LoadIndex(p)
    BY <1>7, <1>3, CanonAssumption DEF LoadIndex
  <1>8. CASE CopyRefFile(p)
    BY <1>8, <1>3 DEF CopyRefFile, Undisturbed
  <1>9. CASE UpsertEntry(p)
    BY <1>9, <1>3, CanonAssumption DEF UpsertEntry, Entry, Undisturbed
  <1>10. CASE RemoveRef(p)
    BY <1>10, <1>3 DEF RemoveRef, Starts
  <1>11. CASE RemoveEntry(p)
    BY <1>11, <1>3 DEF RemoveEntry, Undisturbed
  <1>12. CASE RemoveProfile(p)
    BY <1>12, <1>3 DEF RemoveProfile, Undisturbed
  <1>13. CASE RemoveCopy(p)
    BY <1>13, <1>3 DEF RemoveCopy, Undisturbed
  <1>14. CASE BreakOff(p)
    BY <1>14 DEF BreakOff
  <1> QED BY <1>1, <1>5, <1>6, <1>7, <1>8, <1>9, <1>10, <1>11, <1>12, <1>13, <1>14

-----------------------------------------------------------------------------
(* The theorems.                                                           *)

LEMMA StutterCanon ==
    ASSUME CanonInv, UNCHANGED canonVars
    PROVE  CanonInv'
  <1> USE DEF canonVars, canonFiles
  <1>1. CanonTypeOK' /\ JobInv'
    BY DEF CanonInv, CanonTypeOK, JobInv
  <1>2. FilesInv'
    BY DEF CanonInv, FilesInv, Filed, RemovesAlone, Prepared
  <1>3. LeftoverInv'
    BY DEF CanonInv, LeftoverInv, Undisturbed, Expected, ExpectedCopy
  <1> QED BY <1>1, <1>2, <1>3 DEF CanonInv

LEMMA StepCanon ==
    ASSUME CanonInv, [CanonNext]_canonVars
    PROVE  CanonInv'
  <1>1. CASE CanonNext
    BY <1>1, TypeStep, FilesStep, LeftoverStep DEF CanonInv
  <1>2. CASE UNCHANGED canonVars
    BY <1>2, StutterCanon
  <1> QED BY <1>1, <1>2

LEMMA CanonInvariant == CanonSpec => []CanonInv
  BY InitCanon, StepCanon, PTL DEF CanonSpec

\* Index, files and processes keep their types.
THEOREM CanonTypeCorrect == CanonSpec => []CanonTypeOK
  <1>1. CanonInv => CanonTypeOK
    BY DEF CanonInv
  <1> QED BY <1>1, CanonInvariant, PTL

\* However many processes add, remove and break off: what the index lists has
\* its files unless a remove has overlapped another command, and no file is left
\* behind as long as nothing has overlapped or broken off.
THEOREM CanonStaysWhole == CanonSpec => []CanonIsWhole
  <1>1. CanonInv => EntriesHaveFiles
    BY DEF CanonInv, FilesInv, Filed, EntriesHaveFiles
  <1>2. CanonInv => NoLeftovers
    BY DEF CanonInv, LeftoverInv, Expected, ExpectedCopy, NoLeftovers
  <1>3. CanonInv => CanonIsWhole
    BY <1>1, <1>2 DEF CanonIsWhole
  <1> QED BY <1>3, CanonInvariant, PTL
=============================================================================
