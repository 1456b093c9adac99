------------------------------- MODULE Lineage -------------------------------
(***************************************************************************)
(* graph/lineage.json (graph.rs): processes of sce_cli read it, check one  *)
(* new edge and replace the file, without a lock.  Every process writes to *)
(* a temporary file of its own and renames it, so reads and writes of the  *)
(* file are single steps.                                                  *)
(***************************************************************************)
EXTENDS Naturals

CONSTANTS Nodes, Linkers, NoLink

Edges == Nodes \X Nodes

ASSUME LineageAssumption == NoLink \notin Edges

VARIABLES
    lineage,      \* edges in the file; its nodes are their ends
    linking,      \* the edge process p is about to write, or NoLink
    loaded,       \* the edges p has read
    linked,       \* history: edges whose link succeeded
    linksOverlap  \* history: a process read the file while another was to write it

lineageVars == <<lineage, linking, loaded, linked, linksOverlap>>

-----------------------------------------------------------------------------
\* Sets of nodes that no edge leaves.
Closed(edges, S) == \A e \in edges : e[1] \in S => e[2] \in S

\* What path_between searches for: goal is in every closed set that start is in.
PathBetween(edges, start, goal) ==
    \A S \in SUBSET Nodes : start \in S /\ Closed(edges, S) => goal \in S

LineageInit ==
    /\ lineage = {}
    /\ linking = [p \in Linkers |-> NoLink]
    /\ loaded = [p \in Linkers |-> {}]
    /\ linked = {}
    /\ linksOverlap = FALSE

Idle(p) == linking[p] = NoLink

Reads(p) ==
    linksOverlap' = (linksOverlap \/ \E q \in Linkers \ {p} : ~Idle(q))

\* link answers with the graph it has read when the edge is there already.
LinkAgain(p, e) ==
    /\ Idle(p) /\ e[1] # e[2]
    /\ e \in lineage
    /\ linked' = linked \union {e}
    /\ Reads(p)
    /\ UNCHANGED <<lineage, linking, loaded>>

\* The edge is new and closes no cycle in the graph that was read.
LoadGraph(p, e) ==
    /\ Idle(p) /\ e[1] # e[2]
    /\ e \notin lineage
    /\ ~PathBetween(lineage, e[2], e[1])
    /\ linking' = [linking EXCEPT ![p] = e]
    /\ loaded' = [loaded EXCEPT ![p] = lineage]
    /\ Reads(p)
    /\ UNCHANGED <<lineage, linked>>

\* Faulty: one edge per node is kept.
DedupByFrom(edges, e) == {f \in edges : f[1] # e[1]} \union {e}

\* normalize_graph sorts, and drops duplicates of whole edges.
Normalized(edges, e) == edges \union {e}

Forget(p) ==
    /\ linking' = [linking EXCEPT ![p] = NoLink]
    /\ loaded' = [loaded EXCEPT ![p] = {}]

\* Faulty: adds the edge to what is in the file by now.
WriteMerged(p) == Normalized(lineage, linking[p])

Written(p) == Normalized(loaded[p], linking[p])

WriteGraph(p) ==
    /\ ~Idle(p)
    /\ lineage' = Written(p)
    /\ linked' = linked \union {linking[p]}
    /\ Forget(p)
    /\ UNCHANGED linksOverlap

\* The process is interrupted, or its write fails: the file is left alone.
AbandonLink(p) ==
    /\ ~Idle(p)
    /\ Forget(p)
    /\ UNCHANGED <<lineage, linked, linksOverlap>>

LineageNext ==
    \E p \in Linkers :
        \/ \E e \in Edges : LinkAgain(p, e) \/ LoadGraph(p, e)
        \/ WriteGraph(p)
        \/ AbandonLink(p)

LineageSpec == LineageInit /\ [][LineageNext]_lineageVars

-----------------------------------------------------------------------------
LineageTypeOK ==
    /\ lineage \subseteq Edges
    /\ linking \in [Linkers -> Edges \union {NoLink}]
    /\ loaded \in [Linkers -> SUBSET Edges]
    /\ linked \subseteq Edges
    /\ linksOverlap \in BOOLEAN

\* No edge can be walked back along the others.
Acyclic(edges) == \A e \in edges : ~PathBetween(edges, e[2], e[1])

\* The file never holds a cycle, however links overlap: the graph that is
\* written is the one that was checked.
LineageIsAcyclic == Acyclic(lineage)

\* A link that succeeded stays in the file unless links overlapped.
LinksAreKept == linksOverlap \/ linked \subseteq lineage
=============================================================================
