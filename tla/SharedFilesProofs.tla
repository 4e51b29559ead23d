-------------------------- MODULE SharedFilesProofs --------------------------
(***************************************************************************)
(* The two files that processes share, each read and replaced as a whole:  *)
(* the checkpoint graph, which no lock protects between processes, and the *)
(* session store, which a lock file does.                                  *)
(*                                                                         *)
(* The graph stays a graph for any number of checkpoints and of processes, *)
(* whatever old copies they write back.  Until a lock file is removed that *)
(* was not old, two operators never both count on a run and no update is   *)
(* lost: for any number of operators, requests and supervisors, any        *)
(* lifetimes, either store, and wherever supervisors die.                  *)
(***************************************************************************)
EXTENDS CheckpointGraph, Sessions, TLAPS

-----------------------------------------------------------------------------
(* The checkpoint graph *)

DAG(g) == ParentsExist(g) /\ Acyclic(g)

\* The copies in the processes are graphs as good as the one on disk, since
\* each was once on disk.
GraphInv == GraphTypeOK /\ DAG(nodes) /\ \A c \in Clients : view[c] # NoView => DAG(view[c])

-----------------------------------------------------------------------------

\* Adding a node below existing ones keeps a graph a graph without cycles.
LEMMA AddKeepsDAG ==
    ASSUME NEW g \in Graph, DAG(g), NEW id \in Ids \ Present(g),
           NEW parents \in SUBSET Present(g),
           NEW h, h = [g EXCEPT ![id] = [state |-> Pending, parents |-> parents]]
    PROVE  h \in Graph /\ DAG(h)
<1>1. h \in Graph
  BY DEF Graph, Present, NodeStates, Live, Pending
<1>2. Present(h) = Present(g) \cup {id}
  BY DEF Graph, Present, Pending
<1>3. h[id].parents = parents /\ \A i \in Present(g) : h[i].parents = g[i].parents
  BY DEF Graph, Present
<1>4. ParentsExist(h)
  BY <1>2, <1>3 DEF DAG, ParentsExist
<1>5. ASSUME NEW S \in SUBSET Present(h), S # {}
      PROVE  \E i \in S : h[i].parents \cap S = {}
  <2>1. CASE S = {id}
    BY <1>3, <2>1
  <2>2. CASE S # {id}
    <3>1. S \ {id} \in SUBSET Present(g) /\ S \ {id} # {}
      BY <1>2, <1>5, <2>2
    <3>2. PICK i \in S \ {id} : g[i].parents \cap (S \ {id}) = {}
      BY <3>1 DEF DAG, Acyclic
    <3>3. id \notin g[i].parents
      BY <3>1, <3>2 DEF DAG, ParentsExist
    <3>4. QED
      BY <1>3, <3>1, <3>2, <3>3
  <2>3. QED
    BY <2>1, <2>2
<1>6. QED
  BY <1>1, <1>4, <1>5 DEF DAG, Acyclic

\* A write that only changes the states of nodes keeps the graph.
LEMMA StatesKeepDAG ==
    ASSUME NEW g \in Graph, DAG(g), NEW h \in Graph,
           Present(h) = Present(g),
           \A i \in Ids : h[i].parents = g[i].parents
    PROVE  DAG(h)
<1>1. Present(g) \subseteq Ids
  BY DEF Present
<1>2. ParentsExist(h)
  BY <1>1 DEF DAG, ParentsExist
<1>3. Acyclic(h)
  BY <1>1 DEF DAG, Acyclic
<1>4. QED
  BY <1>2, <1>3 DEF DAG

\* The descendants of a node are nodes, with it among them, and every child of
\* one of them is one.
LEMMA DescendantsAreClosed ==
    ASSUME NEW g, NEW id \in Ids
    PROVE  /\ id \in Descendants(g, id)
           /\ Descendants(g, id) \subseteq Ids
           /\ \A j \in Descendants(g, id) : Children(g, j) \subseteq Descendants(g, id)
<1>1. ASSUME NEW j \in Descendants(g, id), NEW i \in Children(g, j)
      PROVE  i \in Descendants(g, id)
  <2>1. i \in Ids
    BY DEF Children, Present
  <2>2. ASSUME NEW S \in SUBSET Ids, id \in S, \A k \in S : Children(g, k) \subseteq S
        PROVE  i \in S
    <3>1. j \in S
      BY <2>2 DEF Descendants
    <3>2. QED
      BY <2>2, <3>1
  <2>3. QED
    BY <2>1, <2>2 DEF Descendants
<1>2. QED
  BY <1>1 DEF Descendants

\* All descendants of an existing node exist.
LEMMA DescendantsExist ==
    ASSUME NEW g, NEW id \in Present(g)
    PROVE  Descendants(g, id) \subseteq Present(g)
<1>1. Present(g) \in SUBSET Ids /\ \A k \in Ids : Children(g, k) \subseteq Present(g)
  BY DEF Present, Children
<1>2. QED
  BY <1>1 DEF Descendants

-----------------------------------------------------------------------------

\* What a write leaves: a good graph on disk and in every copy.
LEMMA WriteGraphInvariance ==
    ASSUME GraphInv, NEW c \in Clients, NEW g \in Graph, DAG(g), WriteGraph(c, g)
    PROVE  GraphInv'
<1>1. GraphTypeOK'
  BY DEF GraphInv, GraphTypeOK, WriteGraph
<1>2. DAG(nodes)'
  BY DEF WriteGraph, DAG, ParentsExist, Acyclic, Present
<1>3. ASSUME NEW d \in Clients, view'[d] # NoView
      PROVE  DAG(view'[d])
  <2>1. view'[d] = view[d]
    BY <1>3 DEF GraphInv, GraphTypeOK, WriteGraph
  <2>2. QED
    BY <1>3, <2>1 DEF GraphInv
<1>4. (\A d \in Clients : view[d] # NoView => DAG(view[d]))'
  BY <1>3 DEF DAG, ParentsExist, Acyclic, Present
<1>5. QED
  BY <1>1, <1>2, <1>4 DEF GraphInv

\* What Rollback writes: a graph of the same nodes.
LEMMA RollbackKeepsDAG ==
    ASSUME NEW g \in Graph, DAG(g), NEW id \in Present(g), NEW h,
           h = [i \in Ids |-> IF i \in Descendants(g, id)
                                 THEN [g[i] EXCEPT !.state = "rolled_back"] ELSE g[i]]
    PROVE  h \in Graph /\ DAG(h) /\ Present(h) = Present(g)
<1>1. h \in Graph
  BY DEF Graph, NodeStates, Final
<1>2. \A i \in Ids : h[i].parents = g[i].parents
  BY DEF Graph
<1>3. Present(h) = Present(g)
  <2>1. ASSUME NEW i \in Descendants(g, id)
        PROVE  i \in Present(g) /\ i \in Present(h)
    <3>1. i \in Present(g)
      BY DescendantsExist
    <3>2. QED
      BY <3>1 DEF Present, Graph
  <2>2. \A i \in Ids \ Descendants(g, id) : i \in Present(h) <=> i \in Present(g)
    BY DEF Present
  <2>3. Present(h) \subseteq Ids /\ Present(g) \subseteq Ids
    BY DEF Present
  <2>4. QED
    BY <2>1, <2>2, <2>3
<1>4. QED
  BY <1>1, <1>2, <1>3, StatesKeepDAG

\* Every step keeps the invariant, a late write of an old copy included.
LEMMA GraphStepInvariance == GraphInv /\ [GraphNext]_graphVars => GraphInv'
<1> SUFFICES ASSUME GraphInv, [GraphNext]_graphVars PROVE GraphInv'
  OBVIOUS
<1>1. CASE UNCHANGED graphVars
  BY <1>1 DEF GraphInv, GraphTypeOK, graphVars, DAG, ParentsExist, Acyclic, Present
<1>2. ASSUME NEW c \in Clients, ReadGraph(c)
      PROVE  GraphInv'
  <2>1. GraphTypeOK'
    BY <1>2, ReadsAssumption DEF GraphInv, GraphTypeOK, ReadGraph
  <2>2. DAG(nodes)'
    BY <1>2 DEF GraphInv, ReadGraph, DAG, ParentsExist, Acyclic, Present
  <2>3. \A d \in Clients : view'[d] = view[d] \/ view'[d] = nodes
    BY <1>2 DEF GraphInv, GraphTypeOK, ReadGraph
  <2>4. \A d \in Clients : view'[d] # NoView => DAG(view'[d])
    BY <2>3 DEF GraphInv
  <2>5. (\A d \in Clients : view[d] # NoView => DAG(view[d]))'
    BY <2>4 DEF DAG, ParentsExist, Acyclic, Present
  <2>6. QED
    BY <2>1, <2>2, <2>5 DEF GraphInv
<1>3. ASSUME NEW c \in Clients, GiveUp(c)
      PROVE  GraphInv'
  <2>1. nodes \in Graph /\ DAG(nodes) /\ WriteGraph(c, nodes)
    BY <1>3 DEF GraphInv, GraphTypeOK, GiveUp, WriteGraph
  <2>2. QED
    BY <2>1, WriteGraphInvariance
<1>4. ASSUME NEW c \in Clients, NEW id \in Ids, NEW parents \in SUBSET Ids, Add(c, id, parents)
      PROVE  GraphInv'
  <2>1. view[c] \in Graph /\ DAG(view[c])
    BY <1>4 DEF GraphInv, GraphTypeOK, Add
  <2>2. id \in Ids \ Present(view[c]) /\ parents \in SUBSET Present(view[c])
    BY <1>4 DEF Add
  <2> DEFINE h == [view[c] EXCEPT ![id] = [state |-> Pending, parents |-> parents]]
  <2>3. h \in Graph /\ DAG(h)
    BY <2>1, <2>2, AddKeepsDAG
  <2>4. WriteGraph(c, h)
    BY <1>4 DEF Add
  <2>5. QED
    BY <2>3, <2>4, WriteGraphInvariance
<1>5. ASSUME NEW c \in Clients, NEW id \in Ids, NEW state \in NodeStates, Transition(c, id, state)
      PROVE  GraphInv'
  <2>1. view[c] \in Graph /\ DAG(view[c]) /\ id \in Present(view[c])
    BY <1>5 DEF GraphInv, GraphTypeOK, Transition
  <2> DEFINE h == [view[c] EXCEPT ![id].state = state]
  <2>2. h \in Graph
    BY <2>1 DEF Graph
  <2>3. \A i \in Ids : h[i].parents = view[c][i].parents
    BY <2>1 DEF Graph
  <2>4. \A i \in Ids : h[i].state # "absent" <=> view[c][i].state # "absent"
    BY <2>1 DEF Graph, Present, NodeStates, Live, Final, Pending
  <2>5. DAG(h)
    <3>1. Present(h) = Present(view[c])
      BY <2>4 DEF Present
    <3>2. QED
      BY <2>1, <2>2, <2>3, <3>1, StatesKeepDAG
  <2>6. WriteGraph(c, h)
    BY <1>5 DEF Transition
  <2>7. QED
    BY <2>2, <2>5, <2>6, WriteGraphInvariance
<1>6. ASSUME NEW c \in Clients, NEW id \in Ids, Rollback(c, id)
      PROVE  GraphInv'
  <2>1. view[c] \in Graph /\ DAG(view[c]) /\ id \in Present(view[c])
    BY <1>6 DEF GraphInv, GraphTypeOK, Rollback
  <2> DEFINE h == [i \in Ids |-> IF i \in Descendants(view[c], id)
                                   THEN [view[c][i] EXCEPT !.state = "rolled_back"]
                                   ELSE view[c][i]]
  <2>2. h \in Graph /\ DAG(h)
    BY <2>1, RollbackKeepsDAG
  <2>3. WriteGraph(c, h)
    BY <1>6 DEF Rollback
  <2>4. QED
    BY <2>2, <2>3, WriteGraphInvariance
<1>7. QED
  BY <1>1, <1>2, <1>3, <1>4, <1>5, <1>6 DEF GraphNext

\* No process knows a graph before the first one is written.
LEMMA GraphInitInvariance == GraphInit => GraphInv
<1> SUFFICES ASSUME GraphInit PROVE GraphInv
  OBVIOUS
<1>1. GraphTypeOK
  BY ReadsAssumption DEF GraphInit, GraphTypeOK, EmptyGraph, Graph
<1>2. Present(nodes) = {}
  BY DEF GraphInit, EmptyGraph, Present
<1>3. DAG(nodes)
  BY <1>2 DEF DAG, ParentsExist, Acyclic
<1>4. QED
  BY <1>1, <1>3 DEF GraphInit, GraphInv

\* The file and every copy of it are well typed and a graph without cycles.
THEOREM GraphInvariance == GraphSpec => []GraphInv
  BY GraphInitInvariance, GraphStepInvariance, PTL DEF GraphSpec

\* The file on disk is a dependency graph at every moment, however operations
\* of several processes overlap: Add, Transition and Rollback never leave a
\* dangling parent or a cycle, so descendantOrder ends and finds only nodes.
THEOREM FileStaysDAG == GraphSpec => []FileIsDAG
<1>1. GraphInv => FileIsDAG
  BY DEF GraphInv, DAG, FileIsDAG
<1>2. QED
  BY <1>1, GraphInvariance, PTL

-----------------------------------------------------------------------------

\* One rollback: the descendants it marks are closed under dependents.
LEMMA RollbackStep ==
    ASSUME GraphInv, NEW c \in Clients, NEW id \in Ids, Rollback(c, id)
    PROVE  \E S \in SUBSET {i \in Ids : nodes'[i].state = "rolled_back"} :
               id \in S /\ \A j \in S : Children(nodes', j) \subseteq S
<1> DEFINE g == view[c]
           D == Descendants(g, id)
           h == [i \in Ids |-> IF i \in D THEN [g[i] EXCEPT !.state = "rolled_back"] ELSE g[i]]
<1>1. g \in Graph /\ DAG(g) /\ id \in Present(g) /\ nodes' = h
  BY DEF GraphInv, GraphTypeOK, Rollback, WriteGraph
<1>2. Present(h) = Present(g)
  BY <1>1, RollbackKeepsDAG
<1>3. \A i \in Ids : h[i].parents = g[i].parents
  BY <1>1 DEF Graph
<1>4. \A j \in D : Children(h, j) = Children(g, j)
  <2>1. Present(g) \subseteq Ids
    BY DEF Present
  <2>2. QED
    BY <1>2, <1>3, <2>1 DEF Children
<1>5. id \in D /\ D \subseteq Ids /\ \A j \in D : Children(g, j) \subseteq D
  BY DescendantsAreClosed
<1>6. D \in SUBSET {i \in Ids : nodes'[i].state = "rolled_back"}
  BY <1>1, <1>5 DEF Graph
<1>7. \A j \in D : Children(nodes', j) \subseteq D
  BY <1>1, <1>4, <1>5
<1>8. QED
  BY <1>5, <1>6, <1>7

\* Store.Rollback reaches every dependent of its node at any depth, in graphs
\* of any size, even when it works on an old copy.
THEOREM RollbackIsDeep == GraphSpec => RollbackTakesDependents
<1>1. GraphInv /\ [GraphNext]_graphVars =>
        [\A c \in Clients, id \in Ids : Rollback(c, id) =>
          \E S \in SUBSET {i \in Ids : nodes'[i].state = "rolled_back"} :
              id \in S /\ \A j \in S : Children(nodes', j) \subseteq S]_graphVars
  BY RollbackStep
<1>2. QED
  BY <1>1, GraphInvariance, PTL DEF GraphSpec, RollbackTakesDependents

-----------------------------------------------------------------------------

Kept(g, h) ==
    \A i \in Present(g) :
        /\ i \in Present(h)
        /\ h[i].parents = g[i].parents
        /\ g[i].state \in Final => h[i].state = g[i].state

\* An up-to-date write loses nothing: allowedTransition has no edge out of a
\* final state, and Add only appends.
LEMMA FreshStepKeeps ==
    ASSUME GraphInv, [GraphNext]_graphVars, ~Stale
    PROVE  Kept(nodes, nodes')
<1>1. CASE nodes' = nodes
  BY <1>1 DEF Kept, Present
<1>2. \A c \in Clients : view[c] # NoView => view[c] = nodes
  BY DEF Stale
<1>3. nodes \in Graph
  BY DEF GraphInv, GraphTypeOK
<1>4. ASSUME NEW c \in Clients, NEW id \in Ids, NEW parents \in SUBSET Ids, Add(c, id, parents)
      PROVE  Kept(nodes, nodes')
  <2>1. id \notin Present(nodes)
        /\ nodes' = [nodes EXCEPT ![id] = [state |-> Pending, parents |-> parents]]
    BY <1>2, <1>4 DEF Add, WriteGraph
  <2>2. QED
    BY <1>3, <2>1 DEF Kept, Present, Graph
<1>5. ASSUME NEW c \in Clients, NEW id \in Ids, NEW state \in NodeStates, Transition(c, id, state)
      PROVE  Kept(nodes, nodes')
  <2>1. AllowedTransition(nodes[id].state, state) /\ nodes' = [nodes EXCEPT ![id].state = state]
    BY <1>2, <1>5 DEF Transition, WriteGraph
  <2>2. QED
    BY <1>3, <2>1 DEF Kept, Present, Graph, AllowedTransition, NodeStates, Live, Final, Pending
<1>6. ASSUME NEW c \in Clients, NEW id \in Ids, Rollback(c, id)
      PROVE  Kept(nodes, nodes')
  <2> DEFINE D == Descendants(nodes, id)
  <2>1. /\ nodes' = [i \in Ids |-> IF i \in D THEN [nodes[i] EXCEPT !.state = "rolled_back"]
                                           ELSE nodes[i]]
        /\ \A i \in D : AllowedTransition(nodes[i].state, "rolled_back")
    BY <1>2, <1>6 DEF Rollback, WriteGraph
  <2>2. QED
    BY <1>3, <2>1 DEF Kept, Present, Graph, AllowedTransition, NodeStates, Live, Final, Pending
<1>7. QED
  BY <1>1, <1>4, <1>5, <1>6 DEF GraphNext, ReadGraph, GiveUp, graphVars

\* As long as the operations do not overlap, no node of the graph vanishes, no
\* dependency changes and nothing rolled back or blocked comes back.
THEOREM HistoryStays == GraphSpec => HistoryIsKept
<1>1. GraphInv /\ [GraphNext]_graphVars =>
        [~Stale => \A i \in Present(nodes) :
            /\ i \in Present(nodes)'
            /\ nodes'[i].parents = nodes[i].parents
            /\ nodes[i].state \in Final => nodes'[i].state = nodes[i].state]_graphVars
  <2> SUFFICES ASSUME GraphInv, [GraphNext]_graphVars, ~Stale
               PROVE  \A i \in Present(nodes) :
                        /\ i \in Present(nodes)'
                        /\ nodes'[i].parents = nodes[i].parents
                        /\ nodes[i].state \in Final => nodes'[i].state = nodes[i].state
    OBVIOUS
  <2>1. QED
    BY FreshStepKeeps DEF Kept, Present
<1>2. QED
  BY <1>1, GraphInvariance, PTL DEF GraphSpec, HistoryIsKept

-----------------------------------------------------------------------------
(* The session store *)

\* Whoever is between lockFile and unlockFile created the lock file, and only a
\* dead request's lock file is old.
LockInv ==
    ~seized =>
        /\ \A r \in Requests : req[r].pc \in Locked => lock = r
        /\ old => lock \in Requests /\ req[lock].pc = "killed"
        /\ backend = "sqlite" => lock = Free

\* An operator has one request at a time, a request its time from the past,
\* only an answered one has a grant, and a list writes nothing.
RequestInv ==
    /\ \A q, r \in Requests : By[q] = By[r] /\ InFlight(q) /\ InFlight(r) => q = r
    /\ \A r \in Requests :
        /\ req[r].now <= clock
        /\ req[r].until # 0 => req[r].pc \in {"unlock", "reply"}
        /\ req[r].pc = "write" => req[r].action # "list"
        /\ req[r].pc = "idle" => req[r].action = "list"

\* What an operator counts on while its request is on the way is no more than
\* what the request will give it.
PromiseInv ==
    \A r \in Requests :
        /\ InFlight(r) /\ req[r].action = "release" => hold[By[r]] = 0
        /\ req[r].action \in {"acquire", "heartbeat", "takeover"} =>
            /\ req[r].pc = "sent" => hold[By[r]] <= clock + req[r].ttl
            /\ req[r].pc \in Inside => hold[By[r]] <= req[r].now + req[r].ttl

\* The store backs u: the time until which o counts on the run, or will.
Backed(o, u) == u > clock => file # NoLease /\ file.owner = o /\ file.expires >= u

ClaimInv ==
    ~seized =>
        /\ \A o \in Owners : Backed(o, hold[o])
        /\ \A r \in Requests : Backed(By[r], req[r].until)

IInv == TypeOK /\ LockInv /\ RequestInv /\ PromiseInv /\ ViewIsCurrent /\ ClaimInv

-----------------------------------------------------------------------------

USE DEF Is, To, Ends, InFlight, Inside, Locked, Ended, Actions

\* Lifetimes are numbers.
LEMMA Lifetimes == \A t \in TTLs \cup {0} : t \in Nat
  BY ConfigAssumption

\* The fields of a request.
LEMMA Types ==
    ASSUME TypeOK, NEW r \in Requests
    PROVE  /\ req[r] \in Request /\ By[r] \in Owners
           /\ req[r].ttl \in Nat /\ req[r].now \in Nat /\ req[r].until \in Nat
           /\ clock \in Nat /\ hold[By[r]] \in Nat
<1>1. req[r] \in Request /\ By[r] \in Owners /\ hold[By[r]] \in Nat /\ clock \in Nat
  BY ConfigAssumption DEF TypeOK
<1>2. req[r].ttl \in Nat
  <2>1. req[r].ttl \in TTLs \cup {0}
    BY <1>1 DEF Request
  <2>2. QED
    BY <2>1, Lifetimes
<1>3. QED
  BY <1>1, <1>2 DEF Request

\* An operator that asks counts on less at once.
LEMMA SendInvariance ==
    ASSUME IInv, NEW r \in Requests, NEW action \in Actions \ {"list"}, NEW ttl \in TTLs \cup {0},
           Send(r, action, ttl)
    PROVE  IInv'
<1>1. TypeOK'
  <2>1. [req[r] EXCEPT !.pc = "sent", !.action = action, !.ttl = ttl] \in Request
    BY Types DEF IInv, Request
  <2>2. hold' \in [Owners -> Nat]
    <3>1. clock + ttl \in Nat /\ hold[By[r]] \in Nat
      BY Types, Lifetimes DEF IInv
    <3>2. QED
      BY <3>1 DEF IInv, TypeOK, Send, Earlier
  <2>3. QED
    BY <2>1, <2>2 DEF IInv, TypeOK, Send
<1>2. LockInv'
  BY DEF IInv, TypeOK, LockInv, Request, Send, Earlier
<1>3. RequestInv'
  BY DEF IInv, TypeOK, LockInv, RequestInv, Request, Send, Earlier
<1>4. PromiseInv'
  <2> SUFFICES ASSUME NEW q \in Requests
               PROVE  (/\ InFlight(q) /\ req[q].action = "release" => hold[By[q]] = 0
                       /\ req[q].action \in {"acquire", "heartbeat", "takeover"} =>
                           /\ req[q].pc = "sent" => hold[By[q]] <= clock + req[q].ttl
                           /\ req[q].pc \in Inside => hold[By[q]] <= req[q].now + req[q].ttl)'
    BY DEF PromiseInv
  <2>1. clock + ttl \in Nat /\ hold[By[r]] \in Nat
    BY Types, Lifetimes DEF IInv
  <2>2. CASE q = r
    BY <2>1, <2>2, Types DEF IInv, TypeOK, Request, Send, Earlier
  <2>3. CASE q # r /\ By[q] = By[r]
    BY <2>3 DEF IInv, TypeOK, RequestInv, Send
  <2>4. CASE By[q] # By[r]
    BY <2>4, ConfigAssumption DEF IInv, TypeOK, PromiseInv, Send
  <2>5. QED
    BY <2>2, <2>3, <2>4
<1>5. ViewIsCurrent'
  BY DEF IInv, TypeOK, ViewIsCurrent, Request, Send, Earlier
<1>6. ClaimInv'
  <2>1. \A o \in Owners : hold'[o] \in Nat /\ hold'[o] <= hold[o]
    <3>1. clock + ttl \in Nat
      BY Lifetimes DEF IInv, TypeOK
    <3>2. QED
      BY <3>1 DEF IInv, TypeOK, Send, Earlier
  <2>2. \A q \in Requests : req'[q].until = req[q].until
    BY DEF IInv, TypeOK, Request, Send
  <2>3. clock' = clock /\ file' = file /\ seized' = seized /\ clock \in Nat /\ hold \in [Owners -> Nat]
        /\ (file = NoLease \/ file.expires \in Nat)
    BY DEF IInv, TypeOK, Lease, Send
  <2>4. ASSUME NEW o \in Owners, ~seized PROVE Backed(o, hold[o])'
    BY <2>1, <2>3, <2>4 DEF IInv, ClaimInv, Backed
  <2>5. ASSUME NEW q \in Requests, ~seized PROVE Backed(By[q], req[q].until)'
    BY <2>2, <2>3, <2>5 DEF IInv, ClaimInv, Backed
  <2>6. QED
    BY <2>3, <2>4, <2>5 DEF ClaimInv
<1>7. QED
  BY <1>1, <1>2, <1>3, <1>4, <1>5, <1>6 DEF IInv

\* A list changes nothing for its operator.
LEMMA SendListInvariance ==
    ASSUME IInv, NEW r \in Requests, SendList(r)
    PROVE  IInv'
<1>1. TypeOK'
  BY DEF IInv, TypeOK, Lease, Request, SendList
<1>2. LockInv'
  BY DEF IInv, TypeOK, LockInv, Request, SendList
<1>3. RequestInv'
  BY DEF IInv, TypeOK, LockInv, RequestInv, Request, SendList
<1>4. PromiseInv'
  BY DEF IInv, TypeOK, LockInv, RequestInv, PromiseInv, Request, SendList
<1>5. ViewIsCurrent'
  BY DEF IInv, TypeOK, ViewIsCurrent, Request, SendList
<1>6. ClaimInv'
  BY DEF IInv, TypeOK, LockInv, RequestInv, PromiseInv, ClaimInv, Backed, Lease, Request, SendList
<1>7. QED
  BY <1>1, <1>2, <1>3, <1>4, <1>5, <1>6 DEF IInv

\* The answer brings the operator what the store already backs.
LEMMA AnsweredInvariance ==
    ASSUME IInv, NEW r \in Requests, Answered(r)
    PROVE  IInv'
<1>1. TypeOK'
  BY DEF IInv, TypeOK, Lease, Request, Answered, Blank
<1>2. LockInv'
  BY DEF IInv, TypeOK, LockInv, Request, Answered, Blank
<1>3. RequestInv'
  BY DEF IInv, TypeOK, LockInv, RequestInv, Request, Answered, Blank
<1>4. PromiseInv'
  BY DEF IInv, TypeOK, LockInv, RequestInv, PromiseInv, Request, Answered, Blank
<1>5. ViewIsCurrent'
  BY DEF IInv, TypeOK, ViewIsCurrent, Request, Answered, Blank
<1>6. ClaimInv'
  BY DEF IInv, TypeOK, LockInv, RequestInv, PromiseInv, ClaimInv, Backed, Lease, Request, Answered, Blank
<1>7. QED
  BY <1>1, <1>2, <1>3, <1>4, <1>5, <1>6 DEF IInv

\* A lost message leaves the operator with less than the store backs.
LEMMA LostInvariance ==
    ASSUME IInv, NEW r \in Requests, Lost(r)
    PROVE  IInv'
<1>1. TypeOK'
  BY DEF IInv, TypeOK, Lease, Request, Lost, Blank
<1>2. LockInv'
  BY DEF IInv, TypeOK, LockInv, Request, Lost, Blank
<1>3. RequestInv'
  BY DEF IInv, TypeOK, LockInv, RequestInv, Request, Lost, Blank
<1>4. PromiseInv'
  BY DEF IInv, TypeOK, LockInv, RequestInv, PromiseInv, Request, Lost, Blank
<1>5. ViewIsCurrent'
  BY DEF IInv, TypeOK, ViewIsCurrent, Request, Lost, Blank
<1>6. ClaimInv'
  BY DEF IInv, TypeOK, LockInv, RequestInv, PromiseInv, ClaimInv, Backed, Lease, Request, Lost, Blank
<1>7. QED
  BY <1>1, <1>2, <1>3, <1>4, <1>5, <1>6 DEF IInv

\* Time only ends claims.
LEMMA TickInvariance ==
    ASSUME IInv, Tick
    PROVE  IInv'
<1>1. TypeOK'
  BY DEF IInv, TypeOK, Lease, Request, Tick
<1>2. LockInv'
  BY DEF IInv, TypeOK, LockInv, Request, Tick
<1>3. RequestInv'
  BY DEF IInv, TypeOK, LockInv, RequestInv, Request, Tick
<1>4. PromiseInv'
  <2>1. \A q \in Requests : req[q].ttl \in Nat /\ hold[By[q]] \in Nat /\ clock \in Nat
    BY Types DEF IInv
  <2>2. QED
    BY <2>1 DEF IInv, TypeOK, PromiseInv, Request, Tick
<1>5. ViewIsCurrent'
  BY DEF IInv, TypeOK, ViewIsCurrent, Request, Tick
<1>6. ClaimInv'
  BY DEF IInv, TypeOK, LockInv, RequestInv, PromiseInv, ClaimInv, Backed, Lease, Request, Tick
<1>7. QED
  BY <1>1, <1>2, <1>3, <1>4, <1>5, <1>6 DEF IInv

\* The time of the request is not in the future.
LEMMA ReceiveInvariance ==
    ASSUME IInv, NEW r \in Requests, Receive(r)
    PROVE  IInv'
<1>1. TypeOK'
  <2>1. [req[r] EXCEPT !.pc = IF req[r].action = "list" THEN "lock" ELSE "mutex", !.now = clock] \in Request
    BY Types DEF IInv, Request
  <2>2. req' = [req EXCEPT ![r] = [req[r] EXCEPT !.pc = IF req[r].action = "list" THEN "lock" ELSE "mutex",
                                               !.now = clock]]
    BY DEF IInv, TypeOK, Request, Receive
  <2>3. QED
    BY <2>1, <2>2 DEF IInv, TypeOK, Receive
<1>2. LockInv'
  BY DEF IInv, TypeOK, LockInv, Request, Receive
<1>3. RequestInv'
  BY DEF IInv, TypeOK, LockInv, RequestInv, Request, Receive
<1>4. PromiseInv'
  BY DEF IInv, TypeOK, LockInv, RequestInv, PromiseInv, Request, Receive
<1>5. ViewIsCurrent'
  BY DEF IInv, TypeOK, ViewIsCurrent, Request, Receive
<1>6. ClaimInv'
  BY DEF IInv, TypeOK, LockInv, RequestInv, PromiseInv, ClaimInv, Backed, Lease, Request, Receive
<1>7. QED
  BY <1>1, <1>2, <1>3, <1>4, <1>5, <1>6 DEF IInv

\* The mutex orders requests; it changes nothing.
LEMMA MutexInvariance ==
    ASSUME IInv, NEW r \in Requests, Mutex(r)
    PROVE  IInv'
<1>1. TypeOK'
  BY DEF IInv, TypeOK, Lease, Request, Mutex
<1>2. LockInv'
  BY DEF IInv, TypeOK, LockInv, Request, Mutex
<1>3. RequestInv'
  BY DEF IInv, TypeOK, LockInv, RequestInv, Request, Mutex
<1>4. PromiseInv'
  BY DEF IInv, TypeOK, LockInv, RequestInv, PromiseInv, Request, Mutex
<1>5. ViewIsCurrent'
  BY DEF IInv, TypeOK, ViewIsCurrent, Request, Mutex
<1>6. ClaimInv'
  BY DEF IInv, TypeOK, LockInv, RequestInv, PromiseInv, ClaimInv, Backed, Lease, Request, Mutex
<1>7. QED
  BY <1>1, <1>2, <1>3, <1>4, <1>5, <1>6 DEF IInv

\* O_EXCL: only one request gets past the lock file.
LEMMA LockFileInvariance ==
    ASSUME IInv, NEW r \in Requests, LockFile(r)
    PROVE  IInv'
<1>1. TypeOK'
  <2>1. [req[r] EXCEPT !.pc = "read"] \in Request /\ [req[r] EXCEPT !.pc = "steal"] \in Request
    BY Types DEF IInv, Request
  <2>2. QED
    BY <2>1 DEF IInv, TypeOK, LockFile, CreateLock
<1>2. LockInv'
  <2>1. Free \notin Requests
    BY ConfigAssumption
  <2>2. CASE CreateLock(r)
    BY <2>1, <2>2 DEF IInv, TypeOK, LockInv, Request, LockFile, CreateLock
  <2>3. CASE ~CreateLock(r)
    BY <2>3 DEF IInv, TypeOK, LockInv, Request, LockFile
  <2>4. QED
    BY <2>2, <2>3
<1>3. RequestInv'
  BY DEF IInv, TypeOK, LockInv, RequestInv, Request, LockFile, CreateLock
<1>4. PromiseInv'
  BY DEF IInv, TypeOK, LockInv, RequestInv, PromiseInv, Request, LockFile, CreateLock
<1>5. ViewIsCurrent'
  BY DEF IInv, TypeOK, ViewIsCurrent, Request, LockFile, CreateLock
<1>6. ClaimInv'
  BY DEF IInv, TypeOK, LockInv, RequestInv, PromiseInv, ClaimInv, Backed, Lease, Request, LockFile, CreateLock
<1>7. QED
  BY <1>1, <1>2, <1>3, <1>4, <1>5, <1>6 DEF IInv

\* A busy store is left alone.
LEMMA BusyInvariance ==
    ASSUME IInv, NEW r \in Requests, Busy(r)
    PROVE  IInv'
<1>1. TypeOK'
  BY DEF IInv, TypeOK, Request, Busy, Replies, Blank
<1>2. LockInv'
  BY DEF IInv, TypeOK, LockInv, Request, Busy, Replies, Blank
<1>3. RequestInv'
  BY DEF IInv, TypeOK, LockInv, RequestInv, Request, Busy, Replies, Blank
<1>4. PromiseInv'
  BY DEF IInv, TypeOK, LockInv, RequestInv, PromiseInv, Request, Busy, Replies, Blank
<1>5. ViewIsCurrent'
  BY DEF IInv, TypeOK, ViewIsCurrent, Request, Busy, Replies, Blank
<1>6. ClaimInv'
  BY DEF IInv, TypeOK, LockInv, RequestInv, PromiseInv, ClaimInv, Backed, Lease, Request, Busy, Replies, Blank
<1>7. QED
  BY <1>1, <1>2, <1>3, <1>4, <1>5, <1>6 DEF IInv

\* What is read under the lock is the current lease.
LEMMA ReadInvariance ==
    ASSUME IInv, NEW r \in Requests, Read(r)
    PROVE  IInv'
<1>1. TypeOK'
  <2>1. Unexpired(file, req[r].now) \in Lease \cup {NoLease}
    BY DEF IInv, TypeOK, Unexpired
  <2>2. [req[r] EXCEPT !.pc = IF req[r].action = "list" THEN "unlock" ELSE "write",
                       !.view = Unexpired(file, req[r].now)] \in Request
    BY <2>1, Types DEF IInv, Request
  <2>3. req' = [req EXCEPT ![r] = [req[r] EXCEPT !.pc = IF req[r].action = "list" THEN "unlock" ELSE "write",
                                               !.view = Unexpired(file, req[r].now)]]
    BY DEF IInv, TypeOK, Request, Read
  <2>4. QED
    BY <2>2, <2>3 DEF IInv, TypeOK, Read
<1>2. LockInv'
  BY DEF IInv, TypeOK, LockInv, Request, Read, Unexpired
<1>3. RequestInv'
  BY DEF IInv, TypeOK, LockInv, RequestInv, Request, Read, Unexpired
<1>4. PromiseInv'
  BY DEF IInv, TypeOK, LockInv, RequestInv, PromiseInv, Request, Read, Unexpired
<1>5. ViewIsCurrent'
  BY DEF IInv, TypeOK, ViewIsCurrent, Request, Read, Unexpired
<1>6. ClaimInv'
  BY DEF IInv, TypeOK, LockInv, RequestInv, PromiseInv, ClaimInv, Backed, Lease, Request, Read, Unexpired
<1>7. QED
  BY <1>1, <1>2, <1>3, <1>4, <1>5, <1>6 DEF IInv

\* A refused request goes to its unlock.
LEMMA RefuseInvariance ==
    ASSUME IInv, NEW r \in Requests, Refuse(r)
    PROVE  IInv'
<1>1. TypeOK'
  BY DEF IInv, TypeOK, Lease, Request, Refuse
<1>2. LockInv'
  BY DEF IInv, TypeOK, LockInv, Request, Refuse
<1>3. RequestInv'
  BY DEF IInv, TypeOK, LockInv, RequestInv, Request, Refuse
<1>4. PromiseInv'
  BY DEF IInv, TypeOK, LockInv, RequestInv, PromiseInv, Request, Refuse
<1>5. ViewIsCurrent'
  BY DEF IInv, TypeOK, ViewIsCurrent, Request, Refuse
<1>6. ClaimInv'
  BY DEF IInv, TypeOK, LockInv, RequestInv, PromiseInv, ClaimInv, Backed, Lease, Request, Refuse
<1>7. QED
  BY <1>1, <1>2, <1>3, <1>4, <1>5, <1>6 DEF IInv

\* The request that unlocks is the one that holds the lock.
LEMMA UnlockInvariance ==
    ASSUME IInv, NEW r \in Requests, Unlock(r)
    PROVE  IInv'
<1>1. TypeOK'
  <2>1. [Blank("reply") EXCEPT !.until = req[r].until] \in Request
    BY Types DEF IInv, Request, Blank
  <2>2. QED
    BY <2>1 DEF IInv, TypeOK, Unlock, Replies
<1>2. LockInv'
  BY DEF IInv, TypeOK, LockInv, Request, Unlock, Replies, Blank
<1>3. RequestInv'
  BY DEF IInv, TypeOK, LockInv, RequestInv, Request, Unlock, Replies, Blank
<1>4. PromiseInv'
  BY DEF IInv, TypeOK, LockInv, RequestInv, PromiseInv, Request, Unlock, Replies, Blank
<1>5. ViewIsCurrent'
  BY DEF IInv, TypeOK, ViewIsCurrent, Request, Unlock, Replies, Blank
<1>6. ClaimInv'
  BY DEF IInv, TypeOK, LockInv, RequestInv, PromiseInv, ClaimInv, Backed, Lease, Request, Unlock, Replies, Blank
<1>7. QED
  BY <1>1, <1>2, <1>3, <1>4, <1>5, <1>6 DEF IInv

-----------------------------------------------------------------------------
(* A request that takes effect. *)

\* Nobody else counts on the run when request r is granted without a takeover.
LEMMA NoOtherClaim ==
    ASSUME IInv, NEW r \in Requests, Allowed(r, Unexpired(file, req[r].now)),
           req[r].action \in {"acquire", "heartbeat", "release"},
           NEW o \in Owners, o # By[r], NEW u \in Nat, u > clock, Backed(o, u)
    PROVE  FALSE
<1>1. file # NoLease /\ file.owner = o /\ file.expires >= u
  BY DEF Backed
<1>2. file.expires > req[r].now
  BY <1>1, Types DEF IInv, RequestInv, TypeOK, Lease
<1>3. Unexpired(file, req[r].now) = file
  BY <1>1, <1>2 DEF Unexpired
<1>4. OwnersOf(file) = {o}
  BY <1>1 DEF OwnersOf
<1>5. QED
  BY <1>3, <1>4 DEF Allowed

\* The parts of the invariant that do not depend on the kind of store.
LEMMA EffectInvariance ==
    ASSUME IInv, NEW r \in Requests, req[r].pc \in {"write", "lock"}, req[r].action # "list",
           ~seized => Allowed(r, Unexpired(file, req[r].now)),
           NEW step \in {"unlock", "reply"}, Effect(r, step), UNCHANGED <<clock, backend, seized>>
    PROVE  /\ file' \in Lease \cup {NoLease} /\ req' \in [Requests -> Request]
           /\ hold' \in [Owners -> Nat]
           /\ RequestInv' /\ PromiseInv' /\ ClaimInv'
<1> DEFINE ends(o) == req[r].action = "takeover" /\ o # By[r]
<1>1. /\ req' = [q \in Requests |->
                 IF q = r THEN [req[q] EXCEPT !.pc = step, !.until = Until(r)]
                 ELSE IF ends(By[q]) THEN [req[q] EXCEPT !.until = 0]
                 ELSE req[q]]
      /\ hold' = [o \in Owners |-> IF ends(o) THEN 0 ELSE hold[o]]
      /\ file' = IF req[r].action = "release" THEN NoLease
                ELSE [owner |-> By[r], expires |-> Until(r)]
  BY DEF Effect
<1> HIDE DEF ends
<1>0. clock' = clock /\ clock \in Nat /\ ~ends(By[r])
  BY DEF IInv, TypeOK, ends
<1>2. Until(r) \in Nat /\ By[r] \in Owners
  BY Types DEF IInv, Until
<1>3. file' \in Lease \cup {NoLease}
  BY <1>1, <1>2 DEF Lease
<1>4. hold' \in [Owners -> Nat]
  BY <1>1 DEF IInv, TypeOK
<1>5. req' \in [Requests -> Request]
  <2>1. [req[r] EXCEPT !.pc = step, !.until = Until(r)] \in Request
    BY <1>2, Types DEF IInv, Request
  <2>2. ASSUME NEW q \in Requests
        PROVE  [req[q] EXCEPT !.until = 0] \in Request /\ req[q] \in Request
    BY Types DEF IInv, Request
  <2>3. QED
    BY <1>1, <2>1, <2>2
<1>6. ASSUME NEW q \in Requests, q # r
      PROVE  /\ req'[q].pc = req[q].pc /\ req'[q].action = req[q].action
             /\ req'[q].ttl = req[q].ttl /\ req'[q].now = req[q].now
             /\ req'[q].until = IF ends(By[q]) THEN 0 ELSE req[q].until
  <2>1. req[q] \in Request
    BY Types DEF IInv
  <2>2. QED
    BY <1>1, <1>6, <2>1 DEF Request
<1>7. /\ req'[r].pc = step /\ req'[r].action = req[r].action /\ req'[r].ttl = req[r].ttl
      /\ req'[r].now = req[r].now /\ req'[r].until = Until(r)
  <2>1. req[r] \in Request
    BY Types DEF IInv
  <2>2. QED
    BY <1>1, <2>1 DEF Request
<1>8. \A o \in Owners : hold'[o] = IF ends(o) THEN 0 ELSE hold[o]
  BY <1>1
<1>9. RequestInv'
  BY <1>0, <1>6, <1>7, Types DEF IInv, RequestInv
<1>10. PromiseInv'
  <2> SUFFICES ASSUME NEW q \in Requests
               PROVE  (/\ InFlight(q) /\ req[q].action = "release" => hold[By[q]] = 0
                       /\ req[q].action \in {"acquire", "heartbeat", "takeover"} =>
                           /\ req[q].pc = "sent" => hold[By[q]] <= clock + req[q].ttl
                           /\ req[q].pc \in Inside => hold[By[q]] <= req[q].now + req[q].ttl)'
    BY DEF PromiseInv
  <2>1. /\ By[q] \in Owners /\ hold[By[q]] \in Nat /\ clock \in Nat
        /\ req[q].ttl \in Nat /\ req[q].now \in Nat
    BY Types DEF IInv
  <2>2. CASE q = r
    BY <1>0, <1>7, <1>8, <2>1, <2>2 DEF IInv, PromiseInv
  <2>3. CASE q # r
    <3>1. hold'[By[q]] \in Nat /\ hold'[By[q]] <= hold[By[q]]
      BY <1>8, <2>1
    <3>2. QED
      BY <1>0, <1>6, <1>8, <2>1, <2>3, <3>1 DEF IInv, PromiseInv
  <2>4. QED
    BY <2>2, <2>3
<1>11. ASSUME NEW o \in Owners, ~seized
       PROVE  Backed(o, hold[o])'
  <2>1. hold[o] \in Nat /\ clock \in Nat
    BY DEF IInv, TypeOK
  <2>2. CASE o = By[r]
    <3>1. CASE req[r].action = "release"
      <4>1. hold[o] = 0
        BY <2>2, <3>1 DEF IInv, PromiseInv
      <4>2. QED
        BY <1>0, <1>8, <2>1, <4>1 DEF Backed
    <3>2. CASE req[r].action # "release"
      <4>1. hold[o] <= Until(r)
        <5>1. req[r].action \in {"acquire", "heartbeat", "takeover"}
          BY <3>2, Types DEF IInv, Request
        <5>2. QED
          BY <2>2, <3>2, <5>1 DEF IInv, PromiseInv, Until
      <4>2. file' = [owner |-> o, expires |-> Until(r)]
        BY <1>1, <2>2, <3>2
      <4>3. file' # NoLease
        BY <1>2, <2>2, <4>2, NoLeaseAssumption DEF Lease
      <4>4. QED
        BY <1>0, <1>2, <1>8, <2>1, <2>2, <4>1, <4>2, <4>3 DEF Backed
    <3>3. QED
      BY <3>1, <3>2
  <2>3. CASE o # By[r] /\ req[r].action = "takeover"
    BY <1>0, <1>8, <2>1, <2>3 DEF Backed, ends
  <2>4. CASE o # By[r] /\ req[r].action # "takeover"
    <3>1. req[r].action \in {"acquire", "heartbeat", "release"}
      BY <2>4, Types DEF IInv, Request
    <3>2. ~(hold[o] > clock)
      BY <1>11, <2>1, <2>4, <3>1, NoOtherClaim DEF IInv, ClaimInv
    <3>3. QED
      BY <1>0, <1>8, <2>1, <2>4, <3>2 DEF Backed, ends
  <2>5. QED
    BY <2>2, <2>3, <2>4
<1>12. ASSUME NEW q \in Requests, ~seized
       PROVE  Backed(By[q], req[q].until)'
  <2>1. By[q] \in Owners /\ req[q].until \in Nat /\ clock \in Nat
    BY Types DEF IInv
  <2>2. CASE q = r
    <3>1. CASE req[r].action = "release"
      BY <1>0, <1>7, <2>1, <2>2, <3>1 DEF Backed, Until
    <3>2. CASE req[r].action # "release"
      <4>1. file' = [owner |-> By[r], expires |-> Until(r)]
        BY <1>1, <3>2
      <4>2. file' # NoLease
        BY <1>2, <4>1, NoLeaseAssumption DEF Lease
      <4>3. QED
        BY <1>0, <1>2, <1>7, <2>2, <4>1, <4>2 DEF Backed
    <3>3. QED
      BY <3>1, <3>2
  <2>3. CASE q # r /\ By[q] = By[r]
    <3>1. req[q].until = 0
      BY <2>3 DEF IInv, RequestInv
    <3>2. QED
      BY <1>0, <1>6, <2>1, <2>3, <3>1 DEF Backed
  <2>4. CASE By[q] # By[r] /\ req[r].action = "takeover"
    <3>1. req'[q].until = 0
      BY <1>6, <2>4 DEF ends
    <3>2. QED
      BY <1>0, <3>1 DEF Backed
  <2>5. CASE By[q] # By[r] /\ req[r].action # "takeover"
    <3>1. req[r].action \in {"acquire", "heartbeat", "release"}
      BY <2>5, Types DEF IInv, Request
    <3>2. ~(req[q].until > clock)
      BY <1>12, <2>1, <2>5, <3>1, NoOtherClaim DEF IInv, ClaimInv
    <3>3. QED
      BY <1>0, <1>6, <2>1, <2>5, <3>2 DEF Backed, ends
  <2>6. QED
    BY <2>2, <2>3, <2>4, <2>5
<1>13. QED
  BY <1>3, <1>4, <1>5, <1>9, <1>10, <1>11, <1>12 DEF ClaimInv

\* Decide and write, under the lock: what was read is what is there.
LEMMA WriteInvariance == ASSUME IInv, NEW r \in Requests, Write(r) PROVE IInv'
<1>1. req[r].pc = "write" /\ req[r].action # "list" /\ Effect(r, "unlock")
      /\ UNCHANGED <<clock, backend, lock, old, seized>>
  BY DEF Write, IInv, RequestInv
<1>2. ~seized => Allowed(r, Unexpired(file, req[r].now))
  <2>1. ~seized => req[r].view = Unexpired(file, req[r].now)
    BY <1>1 DEF IInv, ViewIsCurrent
  <2>2. QED
    BY <2>1 DEF Write
<1>3. TypeOK' /\ RequestInv' /\ PromiseInv' /\ ClaimInv'
  BY <1>1, <1>2, EffectInvariance DEF IInv, TypeOK
<1>4. \A q \in Requests : req'[q].pc = IF q = r THEN "unlock" ELSE req[q].pc
  BY <1>1, Types DEF Effect, IInv, Request
<1>5. LockInv'
  BY <1>1, <1>4 DEF IInv, LockInv
<1>6. ViewIsCurrent'
  <2>1. ~seized => \A q \in Requests : req'[q].pc # "write"
    BY <1>1, <1>4 DEF IInv, LockInv
  <2>2. QED
    BY <1>1, <2>1 DEF ViewIsCurrent
<1>7. QED
  BY <1>3, <1>5, <1>6 DEF IInv

\* One transaction, when nobody uses the lock file.
LEMMA TransactionInvariance == ASSUME IInv, NEW r \in Requests, Transaction(r) PROVE IInv'
<1>1. req[r].pc = "lock" /\ UNCHANGED <<clock, backend, lock, old, seized>>
  BY DEF Transaction
<1>2. ~seized => \A q \in Requests : req[q].pc \notin Locked
  BY ConfigAssumption DEF Transaction, IInv, LockInv
<1>3. TypeOK' /\ RequestInv' /\ PromiseInv' /\ ClaimInv'
  <2>1. CASE /\ req[r].action # "list" /\ Allowed(r, Unexpired(file, req[r].now))
             /\ Effect(r, "reply")
    BY <1>1, <2>1, EffectInvariance DEF IInv, TypeOK
  <2>2. CASE Replies(r, 0) /\ file' \in {file, Unexpired(file, clock)} /\ UNCHANGED hold
    <3>1. file' = file \/ (file' = NoLease /\ file # NoLease /\ ~(file.expires > clock))
      BY <2>2 DEF Unexpired
    <3>2. [Blank("reply") EXCEPT !.until = 0] \in Request
      BY DEF Request, Blank
    <3>3. TypeOK'
      BY <1>1, <2>2, <3>1, <3>2 DEF IInv, TypeOK, Replies
    <3>4. RequestInv' /\ PromiseInv'
      BY <1>1, <2>2 DEF IInv, TypeOK, RequestInv, PromiseInv, Request, Replies, Blank
    <3>5. clock \in Nat /\ (file = NoLease \/ file.expires \in Nat)
      BY DEF IInv, TypeOK, Lease
    <3>6. ASSUME NEW o \in Owners, ~seized PROVE Backed(o, hold[o])'
      <4>1. hold[o] \in Nat /\ Backed(o, hold[o])
        BY <3>6 DEF IInv, TypeOK, ClaimInv
      <4>2. QED
        BY <1>1, <2>2, <3>1, <3>5, <4>1 DEF Backed
    <3>7. ASSUME NEW q \in Requests, ~seized PROVE Backed(By[q], req[q].until)'
      <4>1. req[q].until \in Nat /\ Backed(By[q], req[q].until)
        BY <3>7, Types DEF IInv, ClaimInv
      <4>2. req'[q].until = IF q = r THEN 0 ELSE req[q].until
        BY <2>2 DEF IInv, TypeOK, Request, Replies, Blank
      <4>3. QED
        BY <1>1, <3>1, <3>5, <4>1, <4>2 DEF Backed
    <3>8. QED
      BY <1>1, <3>3, <3>4, <3>6, <3>7 DEF ClaimInv
  <2>3. QED
    BY <2>1, <2>2 DEF Transaction
<1>4. \A q \in Requests : req'[q].pc = IF q = r THEN "reply" ELSE req[q].pc
  <2>1. \A q \in Requests : req[q] \in Request
    BY Types DEF IInv
  <2>2. CASE Effect(r, "reply")
    BY <2>1, <2>2 DEF Effect, Request
  <2>3. CASE Replies(r, 0)
    BY <2>1, <2>3 DEF IInv, TypeOK, Request, Replies, Blank
  <2>4. QED
    BY <2>2, <2>3 DEF Transaction
<1>5. LockInv'
  BY <1>1, <1>2, <1>4 DEF IInv, LockInv
<1>6. ViewIsCurrent'
  BY <1>1, <1>2, <1>4 DEF ViewIsCurrent
<1>7. QED
  BY <1>3, <1>5, <1>6 DEF IInv

-----------------------------------------------------------------------------
(* Deaths and old lock files. *)

\* An old lock file is in nobody's way, or seized says that it was not old.
LEMMA StealInvariance ==
    ASSUME IInv, NEW r \in Requests, Steal(r)
    PROVE  IInv'
<1>1. TypeOK'
  <2>1. [req[r] EXCEPT !.pc = "lock"] \in Request
    BY Types DEF IInv, Request
  <2>2. QED
    BY <2>1 DEF IInv, TypeOK, Steal
<1>2. LockInv'
  <2>1. ~seized' => ~seized /\ (lock = Free \/ old)
    BY DEF Steal
  <2>2. ~seized' => \A q \in Requests : req[q].pc \notin Locked
    BY <2>1, ConfigAssumption DEF IInv, LockInv
  <2>3. QED
    BY <2>1, <2>2 DEF IInv, TypeOK, LockInv, Request, Steal
<1>3. RequestInv'
  BY DEF IInv, TypeOK, RequestInv, Request, Steal
<1>4. PromiseInv'
  BY DEF IInv, TypeOK, RequestInv, PromiseInv, Request, Steal
<1>5. ViewIsCurrent'
  BY DEF IInv, TypeOK, ViewIsCurrent, Request, Steal
<1>6. ClaimInv'
  BY DEF IInv, TypeOK, RequestInv, PromiseInv, ClaimInv, Backed, Lease, Request, Steal
<1>7. QED
  BY <1>1, <1>2, <1>3, <1>4, <1>5, <1>6 DEF IInv

\* A dead supervisor's lock file stays its request's.
LEMMA CrashInvariance ==
    ASSUME IInv, NEW s \in Supervisors, Crash(s)
    PROVE  IInv'
<1>1. TypeOK'
  <2>1. Blank("killed") \in Request
    BY DEF Blank, Request
  <2>2. QED
    BY <2>1 DEF IInv, TypeOK, Crash
<1>2. \A r \in Requests :
        \/ req'[r] = req[r]
        \/ req'[r] = Blank("killed") /\ InFlight(r)
  BY DEF Crash
<1>3. LockInv'
  BY <1>2 DEF IInv, LockInv, Crash, Blank
<1>4. RequestInv'
  BY <1>2 DEF IInv, TypeOK, RequestInv, Crash, Blank
<1>5. PromiseInv'
  BY <1>2 DEF IInv, PromiseInv, Crash, Blank
<1>6. ViewIsCurrent'
  BY <1>2 DEF IInv, ViewIsCurrent, Crash, Blank
<1>7. ClaimInv'
  BY <1>2 DEF IInv, TypeOK, ClaimInv, Backed, Crash, Blank
<1>8. QED
  BY <1>1, <1>3, <1>4, <1>5, <1>6, <1>7 DEF IInv

\* Only a dead request's lock file becomes old.
LEMMA LockAgesInvariance ==
    ASSUME IInv, LockAges
    PROVE  IInv'
<1>1. TypeOK' /\ RequestInv' /\ PromiseInv' /\ ViewIsCurrent' /\ ClaimInv'
  BY DEF IInv, TypeOK, RequestInv, PromiseInv, ViewIsCurrent, ClaimInv, Backed, LockAges
<1>2. LockInv'
  BY DEF IInv, TypeOK, LockInv, LockAges
<1>3. QED
  BY <1>1, <1>2 DEF IInv

-----------------------------------------------------------------------------

\* Nothing is promised before the first request.
LEMMA InitInvariance == Init => IInv
<1> SUFFICES ASSUME Init PROVE IInv
  OBVIOUS
<1>1. TypeOK
  <2>1. Blank("idle") \in Request
    BY DEF Blank, Request
  <2>2. QED
    BY <2>1, ConfigAssumption DEF Init, TypeOK
<1>2. LockInv /\ RequestInv /\ PromiseInv /\ ViewIsCurrent
  BY DEF Init, Blank, LockInv, RequestInv, PromiseInv, ViewIsCurrent
<1>3. ClaimInv
  BY DEF Init, Blank, ClaimInv, Backed
<1>4. QED
  BY <1>1, <1>2, <1>3 DEF IInv

\* Every step keeps the invariant.
LEMMA StepInvariance == IInv /\ [Next]_vars => IInv'
<1> SUFFICES ASSUME IInv, [Next]_vars PROVE IInv'
  OBVIOUS
<1>1. CASE UNCHANGED vars
  <2>1. TypeOK' /\ LockInv' /\ RequestInv' /\ PromiseInv' /\ ViewIsCurrent' /\ ClaimInv'
    BY <1>1 DEF IInv, vars, TypeOK, LockInv, RequestInv, PromiseInv, ViewIsCurrent, ClaimInv, Backed
  <2>2. QED
    BY <2>1 DEF IInv
<1>2. ASSUME NEW r \in Requests,
             \/ \E action \in {"acquire", "heartbeat", "takeover"}, ttl \in TTLs : Send(r, action, ttl)
             \/ Send(r, "release", 0)
             \/ SendList(r) \/ Answered(r) \/ Lost(r)
      PROVE  IInv'
  BY <1>2, SendInvariance, SendListInvariance, AnsweredInvariance, LostInvariance
<1>3. ASSUME NEW r \in Requests, Serve(r)
      PROVE  IInv'
  BY <1>3, ReceiveInvariance, MutexInvariance, LockFileInvariance, BusyInvariance,
     StealInvariance, ReadInvariance, WriteInvariance, RefuseInvariance, UnlockInvariance,
     TransactionInvariance DEF Serve
<1>4. CASE Tick
  BY <1>4, TickInvariance
<1>5. CASE LockAges
  BY <1>5, LockAgesInvariance
<1>6. ASSUME NEW s \in Supervisors, Crash(s)
      PROVE  IInv'
  BY <1>6, CrashInvariance
<1>7. QED
  BY <1>1, <1>2, <1>3, <1>4, <1>5, <1>6 DEF Next

\* The lock file is exclusive, requests decide on the current lease, and the
\* store backs every claim, until a lock file is removed that was not old.
THEOREM Invariance == Spec => []IInv
  BY InitInvariance, StepInvariance, PTL DEF Spec

\* Apply never gives the run to an operator while another one still counts on
\* it, for any number of operators, requests and supervisors sharing the store
\* and wherever they die, until lockFile removes a lock that was not old.
THEOREM OneHolder == Spec => []LockedHolder
<1>1. IInv => LockedHolder
  BY DEF IInv, ClaimInv, Backed, LockedHolder
<1>2. QED
  BY <1>1, Invariance, PTL

\* What Apply read from the JSON file under its lock is still there when it
\* writes, until lockFile removes a lock that was not old.
THEOREM NoLostUpdate == Spec => []ViewIsCurrent
<1>1. IInv => ViewIsCurrent
  BY DEF IInv
<1>2. QED
  BY <1>1, Invariance, PTL
=============================================================================
