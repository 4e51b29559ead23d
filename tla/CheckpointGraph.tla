--------------------------- MODULE CheckpointGraph ---------------------------
(***************************************************************************)
(* The checkpoint graph file that the protected runs of several agents     *)
(* share (internal/checkpoint).  Every run process and every `rewind       *)
(* checkpoint graph` command reads the whole file, decides on what it      *)
(* read, and replaces the whole file by a rename; the mutex of a Store     *)
(* orders the calls of one process only.  So an operation here is a read   *)
(* and, later, a write by the same process.                                *)
(***************************************************************************)
EXTENDS Naturals

CONSTANTS
    Ids,         \* checkpoint ids
    Clients,     \* processes
    NoView,      \* a process that has not read the file
    MaxReads     \* bound on the operations that are started

ASSUME ReadsAssumption == MaxReads \in Nat

VARIABLES
    nodes,    \* the graph on disk; an id without a node is "absent"
    view,     \* view[c]: what process c has read
    reads     \* number of operations started

graphVars == <<nodes, view, reads>>

Pending == "pending"
Live == {Pending, "running", "succeeded"}
Final == {"rolled_back", "blocked"}
NodeStates == Live \cup Final

Graph == [Ids -> [state : NodeStates \cup {"absent"}, parents : SUBSET Ids]]
EmptyGraph == [i \in Ids |-> [state |-> "absent", parents |-> {}]]
Present(g) == {i \in Ids : g[i].state # "absent"}

ASSUME ViewAssumption == NoView \notin Graph

GraphTypeOK ==
    /\ nodes \in Graph
    /\ view \in [Clients -> Graph \cup {NoView}]
    /\ reads \in 0..MaxReads

GraphInit ==
    /\ nodes = EmptyGraph
    /\ view = [c \in Clients |-> NoView]
    /\ reads = 0

\* A mutant of allowedTransition: a blocked node may be rolled back.
Mut_AllowedTransition(from, to) ==
    \/ from = to
    \/ to = "rolled_back"
    \/ from \in {Pending, "running"} /\ to = "blocked"
    \/ from = Pending /\ to = "running"
    \/ from = "running" /\ to = "succeeded"

AllowedTransition(from, to) ==
    \/ from = to
    \/ from \in Live /\ to = "rolled_back"
    \/ from \in {Pending, "running"} /\ to = "blocked"
    \/ from = Pending /\ to = "running"
    \/ from = "running" /\ to = "succeeded"

Children(g, id) == {i \in Present(g) : id \in g[i].parents}

\* A mutant of descendantOrder: the node and its children.
Mut_Descendants(g, id) == {id} \cup Children(g, id)

\* What descendantOrder visits: the least set with id that contains the
\* children of its members.
Descendants(g, id) ==
    {i \in Ids : \A S \in SUBSET Ids :
        id \in S /\ (\A j \in S : Children(g, j) \subseteq S) => i \in S}

-----------------------------------------------------------------------------
(* Add, Transition and Rollback: readLocked, and then the check on what was *)
(* read and writeLocked.                                                    *)

ReadGraph(c) ==
    /\ view[c] = NoView /\ reads < MaxReads
    /\ view' = [view EXCEPT ![c] = nodes]
    /\ reads' = reads + 1
    /\ UNCHANGED nodes

\* The operation is refused, the write fails, or the process is killed: the
\* file stays as it is.
GiveUp(c) ==
    /\ view[c] # NoView
    /\ view' = [view EXCEPT ![c] = NoView]
    /\ UNCHANGED <<nodes, reads>>

WriteGraph(c, g) ==
    /\ nodes' = g
    /\ view' = [view EXCEPT ![c] = NoView]
    /\ UNCHANGED reads

\* A mutant of Add: parents are not looked up.
Mut_Add(c, id, parents) ==
    LET g == view[c] IN
    /\ g # NoView
    /\ id \notin Present(g)
    /\ WriteGraph(c, [g EXCEPT ![id] = [state |-> Pending, parents |-> parents]])

Add(c, id, parents) ==
    LET g == view[c] IN
    /\ g # NoView
    /\ id \notin Present(g) /\ parents \subseteq Present(g)
    /\ WriteGraph(c, [g EXCEPT ![id] = [state |-> Pending, parents |-> parents]])

Transition(c, id, state) ==
    LET g == view[c] IN
    /\ g # NoView
    /\ id \in Present(g) /\ AllowedTransition(g[id].state, state)
    /\ state = "succeeded" => \A i \in Children(g, id) : g[i].state # Pending
    /\ WriteGraph(c, [g EXCEPT ![id].state = state])

\* All descendants are rolled back, or nothing is written.
Rollback(c, id) ==
    LET g == view[c]
        down == Descendants(g, id)
    IN
    /\ g # NoView
    /\ id \in Present(g)
    /\ \A i \in down : AllowedTransition(g[i].state, "rolled_back")
    /\ WriteGraph(c, [i \in Ids |-> IF i \in down THEN [g[i] EXCEPT !.state = "rolled_back"] ELSE g[i]])

GraphNext ==
    \E c \in Clients :
        \/ ReadGraph(c)
        \/ GiveUp(c)
        \/ \E id \in Ids :
            \/ \E parents \in SUBSET Ids : Add(c, id, parents)
            \/ \E state \in NodeStates : Transition(c, id, state)
            \/ Rollback(c, id)

GraphSpec == GraphInit /\ [][GraphNext]_graphVars

-----------------------------------------------------------------------------
(* Properties *)

ParentsExist(g) == \A i \in Present(g) : g[i].parents \subseteq Present(g)

\* Every non-empty set of nodes has one that depends on none of the set.
Acyclic(g) ==
    \A S \in SUBSET Present(g) :
        S # {} => \E i \in S : g[i].parents \cap S = {}

\* The file always holds a dependency graph, whatever old copy of it a process
\* wrote back: no dangling parent and no cycle, so that descendantOrder is a
\* descendant-first order of existing nodes.
FileIsDAG == ParentsExist(nodes) /\ Acyclic(nodes)

\* Does some process work on a copy that another one has replaced?
Stale == \E c \in Clients : view[c] \notin {NoView, nodes}

\* As long as nobody works on an old copy, a node that is rolled back or
\* blocked stays so, no node vanishes, and dependencies never change.
HistoryIsKept ==
    [][~Stale => \A i \in Present(nodes) :
            /\ i \in Present(nodes)'
            /\ nodes'[i].parents = nodes[i].parents
            /\ nodes[i].state \in Final => nodes'[i].state = nodes[i].state]_graphVars

\* A Rollback leaves nothing live below its node, at any depth: the rolled back
\* nodes include a set with that node that is closed under dependents.
RollbackTakesDependents ==
    [][\A c \in Clients, id \in Ids : Rollback(c, id) =>
          \E S \in SUBSET {i \in Ids : nodes'[i].state = "rolled_back"} :
              id \in S /\ \A j \in S : Children(nodes', j) \subseteq S]_graphVars
=============================================================================
