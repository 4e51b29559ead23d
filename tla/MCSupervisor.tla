---- MODULE MCSupervisor ----
(* Instances of Supervisor: a few requests at a time. *)
EXTENDS Supervisor, TLC

CONSTANTS h1, h2, h3, h4, linux, mac

Requests(a, b, c, d) == h1 :> a @@ h2 :> b @@ h3 :> c @@ h4 :> d
States(l, m) == linux :> l @@ mac :> m
Load(ops, runs, streams, lines, may) ==
    [ops |-> ops, runs |-> runs, streams |-> streams, lines |-> lines, faults |-> may]
Both == {"write", "kill"}

\* One challenge sent twice, at either side; two actions on one run; actions
\* and prunes next to a run process; three changes of the catalog; leases; and
\* the events of a run while it goes on or is rolled back.
TheWorkloads ==
    {Load(Requests("challenge", "action", "action", "none"), States("review", "none"), {}, 0, Both),
     Load(Requests("challenge", "action", "prune", "none"), States("review", "review"), {}, 0, Both),
     Load(Requests("challenge", "challenge", "action", "action"), States("none", "review"), {}, 0, {}),
     Load(Requests("challenge", "action", "none", "none"), States("new", "none"), {}, 0, {"kill"}),
     Load(Requests("prune", "none", "none", "none"), States("new", "review"), {}, 0, Both),
     Load(Requests("create", "import", "update", "none"), States("none", "none"), {}, 0, Both),
     Load(Requests("create", "update", "assign", "none"), States("none", "none"), {}, 0, Both),
     Load(Requests("lease", "lease", "none", "none"), States("none", "none"), {}, 0, Both),
     Load(Requests("none", "none", "none", "none"), States("new", "none"), {"s"}, 3, Both),
     Load(Requests("none", "none", "none", "none"), States("none", "new"), {"s"}, 3, Both),
     Load(Requests("challenge", "action", "none", "none"), States("none", "review"), {"s"}, 0, {"kill"})}
=============================
