----------------------------- MODULE NetBoundary -----------------------------
(***************************************************************************)
(* The namespace backend of the network policy: a broker that builds a     *)
(* veth pair, NAT and a packet filter on the host before the agent starts, *)
(* moves one end of the pair into the agent's network namespace, replaces  *)
(* the allowed addresses while the agent runs and takes everything down    *)
(* afterwards.                                                             *)
(*                                                                         *)
(* The host has one link, one chain and two address sets with fixed names, *)
(* whichever run made them.  Every action is one command.                  *)
(***************************************************************************)
EXTENDS Sequences, Naturals, FiniteSets

CONSTANTS
    Runs,         \* protected runs with the namespace backend
    Address,      \* addresses on the network
    Resolutions,  \* sets of addresses that the domains and resolvers may have
    Default,      \* where the host forwards packets that no rule decides
    FaultSets,    \* the combinations of faults to consider
    MaxRefresh    \* bound on the refreshes

\* refresher: the run has --network-refresh-interval.  install, move, undo,
\* refresh: a command of that part fails.  attach: the run fails between
\* Prepare and the gate.  kill: the run process is killed.  stray: a
\* descendant of the agent outlives it.  overlap: two runs at a time.
FaultKinds == {"refresher", "install", "move", "undo", "refresh", "attach",
               "kill", "stray", "overlap"}

ASSUME NetAssumption ==
    /\ Resolutions \subseteq SUBSET Address /\ {} \notin Resolutions
    /\ Default \subseteq Address
    /\ FaultSets \subseteq SUBSET FaultKinds
    /\ MaxRefresh \in Nat
    /\ Runs \cap {"none", "host"} = {}

VARIABLES
    host,       \* link, forwarding, rules and address sets of the host
    run,        \* one record per run: Coordinator and Broker
    agent,      \* the processes in each run's network namespace
    refresher,  \* one record per run: the goroutine of StartRefresh
    resolved,   \* history: the resolutions of each run's domains
    refreshes,  \* number of refreshes so far
    faults      \* what may go wrong in this behaviour: never changes

vars == <<host, run, agent, refresher, resolved, refreshes, faults>>

-----------------------------------------------------------------------------
(* Types *)

Rules == {"match", "reject"}

\* link: not there, both ends on the host, or one end in the namespace of a
\* run.  jump and nat count rules, for -A adds another one each time.
HostType == [link : {"none", "host"} \cup Runs, forward : {"on", "off"},
             chain : BOOLEAN, rules : SUBSET Rules, jump : Nat, nat : Nat,
             sets : SUBSET {"allow", "next"},
             allow : SUBSET Address, next : SUBSET Address]

RunSteps == {"idle", "install", "move", "attach", "wait", "cancel", "undo",
             "restore", "abandon", "scope", "over", "killed"}

\* i: the next command.  saved: previousForwarding.  ips: what Plan holds.
RunType == [at : RunSteps, i : Nat, saved : {"unset", "on", "off"}, ips : Resolutions]

RefreshSteps == {"off", "sleep", "create", "flush", "add", "swap", "destroy"}
RefresherType == [at : RefreshSteps, ips : SUBSET Address, todo : SUBSET Address,
                  cancelled : BOOLEAN]

Agents == {"none", "gated", "running", "stray", "gone"}

TypeOK ==
    /\ host \in HostType
    /\ run \in [Runs -> RunType]
    /\ agent \in [Runs -> Agents]
    /\ refresher \in [Runs -> RefresherType]
    /\ resolved \in [Runs -> SUBSET Resolutions]
    /\ refreshes \in 0..MaxRefresh
    /\ faults \in FaultSets

-----------------------------------------------------------------------------
(* What the commands do *)

\* AllowlistPlan.install and Broker.Prepare.  Adding the addresses of the plan
\* one by one is one command here: the agent waits.
InstallCommands == <<"addLink", "linkUp", "forward", "newChain", "newSet", "nat",
                     "jump", "established", "match", "reject", "fill">>
MoveCommands == <<"giveLink", "configure">>

\* A mutant of UndoCommands: the set goes before the rule that uses it.
Mut_UndoCommands == <<"noJump", "noNat", "noSet", "flushChain", "noChain", "noLink">>

\* AllowlistPlan.cleanup.
UndoCommands == <<"noJump", "noNat", "flushChain", "noChain", "noSet", "noLink">>

Works(command, r) ==
    CASE command = "addLink" -> host.link = "none"
      [] command \in {"linkUp", "giveLink"} -> host.link = "host"
      [] command = "configure" -> host.link = r
      [] command = "newChain" -> ~host.chain
      [] command \in {"jump", "established", "reject", "flushChain"} -> host.chain
      [] command = "match" -> host.chain /\ "allow" \in host.sets
      [] command = "fill" -> "allow" \in host.sets
      [] command = "noJump" -> host.jump > 0
      [] command = "noNat" -> host.nat > 0
      [] command = "noChain" -> host.chain /\ host.rules = {} /\ host.jump = 0
      [] command = "noSet" -> "allow" \in host.sets /\ "match" \notin host.rules
      [] command = "noLink" -> host.link # "none"
      [] OTHER -> TRUE

\* A set that is not there is empty, and -exist leaves an old one as it is.
Effect(command, r) ==
    [link    |-> CASE command = "addLink" -> "host"
                   [] command = "giveLink" -> r
                   [] command = "noLink" -> "none"
                   [] OTHER -> host.link,
     forward |-> IF command = "forward" THEN "on" ELSE host.forward,
     chain   |-> command = "newChain" \/ (host.chain /\ command # "noChain"),
     rules   |-> IF command = "flushChain" THEN {} ELSE host.rules \cup (Rules \cap {command}),
     jump    |-> CASE command = "jump" -> host.jump + 1
                   [] command = "noJump" -> host.jump - 1
                   [] OTHER -> host.jump,
     nat     |-> CASE command = "nat" -> host.nat + 1
                   [] command = "noNat" -> host.nat - 1
                   [] OTHER -> host.nat,
     sets    |-> IF command = "noSet" THEN host.sets \ {"allow"}
                 ELSE host.sets \cup (IF command = "newSet" THEN {"allow"} ELSE {}),
     allow   |-> CASE command = "noSet" -> {}
                   [] command = "fill" -> host.allow \cup run[r].ips
                   [] OTHER -> host.allow,
     next    |-> host.next]

\* The next command of a program, at a point where it either takes effect or
\* is refused by the host, or fails for a reason of its own.
Succeeds(program, r) ==
    /\ run[r].i <= Len(program)
    /\ Works(program[run[r].i], r)
    /\ host' = Effect(program[run[r].i], r)
Fails(program, r, kind) ==
    /\ run[r].i <= Len(program)
    /\ ~Works(program[run[r].i], r) \/ kind \in faults
    /\ UNCHANGED host

Goto(r, step) == run' = [run EXCEPT ![r].at = step, ![r].i = 1]
Advance(r) == run' = [run EXCEPT ![r].i = @ + 1]

-----------------------------------------------------------------------------
(* One run *)

Idle == [at |-> "off", ips |-> {}, todo |-> {}, cancelled |-> FALSE]
Bare == [link |-> "none", forward |-> "off", chain |-> FALSE, rules |-> {}, jump |-> 0,
         nat |-> 0, sets |-> {}, allow |-> {}, next |-> {}]

Init ==
    /\ host = Bare
    /\ run \in [Runs -> [at : {"idle"}, i : {1}, saved : {"unset"}, ips : Resolutions]]
    /\ agent = [r \in Runs |-> "none"]
    /\ refresher = [r \in Runs |-> Idle]
    /\ resolved = [r \in Runs |-> {}]
    /\ refreshes = 0
    /\ faults \in FaultSets

Alone(r) == \A s \in Runs \ {r} : /\ run[s].at \in {"idle", "over", "killed"}
                                  /\ agent[s] \in {"none", "gone"}
                                  /\ refresher[s].at = "off"

\* The domains were resolved when the plan was built; Prepare reads the
\* forwarding state while the helper waits at the gate.
Begin(r) ==
    /\ run[r].at = "idle"
    /\ "overlap" \in faults \/ Alone(r)
    /\ run' = [run EXCEPT ![r].at = "install", ![r].saved = host.forward]
    /\ agent' = [agent EXCEPT ![r] = "gated"]
    /\ resolved' = [resolved EXCEPT ![r] = @ \cup {run[r].ips}]
    /\ UNCHANGED <<host, refresher, refreshes>>

\* An error takes everything down again.
Install(r) ==
    /\ run[r].at = "install"
    /\ \/ Succeeds(InstallCommands, r) /\ Advance(r)
       \/ Fails(InstallCommands, r, "install") /\ Goto(r, "undo")
       \/ /\ run[r].i > Len(InstallCommands)
          /\ Goto(r, "move") /\ UNCHANGED host
    /\ UNCHANGED <<agent, refresher, resolved, refreshes>>

\* An error here calls Plan.Cleanup, which knows nothing of the forwarding
\* state: it stays as it is.
Move(r) ==
    /\ run[r].at = "move"
    /\ \/ /\ Succeeds(MoveCommands, r) /\ Advance(r)
          /\ UNCHANGED refresher
       \/ /\ Fails(MoveCommands, r, "move")
          /\ run' = [run EXCEPT ![r].at = "undo", ![r].i = 1, ![r].saved = "unset"]
          /\ UNCHANGED refresher
       \/ /\ run[r].i > Len(MoveCommands)
          /\ Goto(r, "attach") /\ UNCHANGED host
          /\ refresher' = IF "refresher" \in faults
                          THEN [refresher EXCEPT ![r].at = "sleep"] ELSE refresher
    /\ UNCHANGED <<agent, resolved, refreshes>>

\* The sensor is attached and the gate opened, or the helper is killed.
Attach(r) ==
    /\ run[r].at = "attach"
    /\ \/ /\ agent[r] = "gated"
          /\ agent' = [agent EXCEPT ![r] = "running"]
          /\ Goto(r, "wait")
       \/ /\ "attach" \in faults
          /\ agent' = [agent EXCEPT ![r] = "gone"]
          /\ Goto(r, "abandon")
    /\ UNCHANGED <<host, refresher, resolved, refreshes>>

\* The agent ends by itself or is killed by Handle.Rollback; what it has
\* started may live on until the process scope is terminated.
AgentExits(r) ==
    /\ agent[r] = "running"
    /\ \E left \in {"gone", "stray"} :
         /\ left = "stray" => "stray" \in faults
         /\ agent' = [agent EXCEPT ![r] = left]
    /\ UNCHANGED <<host, run, refresher, resolved, refreshes>>

StrayExits(r) ==
    /\ agent[r] = "stray"
    /\ agent' = [agent EXCEPT ![r] = "gone"]
    /\ UNCHANGED <<host, run, refresher, resolved, refreshes>>

\* The kernel removes a link whose namespace has no process left.
NamespaceGone(r) ==
    /\ host.link = r /\ agent[r] = "gone"
    /\ host' = [host EXCEPT !.link = "none"]
    /\ UNCHANGED <<run, agent, refresher, resolved, refreshes>>

\* A mutant of Wait: the boundary is taken down when the record of the
\* running run cannot be written, before the agent is killed.
Mut_Wait(r) ==
    /\ run[r].at = "wait"
    /\ Goto(r, "cancel")
    /\ UNCHANGED <<host, agent, refresher, resolved, refreshes>>

Wait(r) ==
    /\ run[r].at = "wait" /\ agent[r] # "running"
    /\ Goto(r, "cancel")
    /\ UNCHANGED <<host, agent, refresher, resolved, refreshes>>

\* Cancelling does not wait: a command that runs already may take effect.
Stopped(r) == IF refresher[r].at = "sleep" THEN Idle
              ELSE [refresher[r] EXCEPT !.cancelled = TRUE]

StopRefresh(r) ==
    /\ run[r].at \in {"cancel", "abandon"}
    /\ refresher' = [refresher EXCEPT ![r] = Stopped(r)]
    /\ Goto(r, IF run[r].at = "cancel" THEN "undo" ELSE "scope")
    /\ UNCHANGED <<host, agent, resolved, refreshes>>

\* Every command is tried, whatever became of the one before.
Undo(r) ==
    /\ run[r].at = "undo"
    /\ \/ Succeeds(UndoCommands, r) /\ Advance(r)
       \/ Fails(UndoCommands, r, "undo") /\ Advance(r)
       \/ /\ run[r].i > Len(UndoCommands)
          /\ Goto(r, IF run[r].saved = "unset" THEN "scope" ELSE "restore")
          /\ UNCHANGED host
    /\ UNCHANGED <<agent, refresher, resolved, refreshes>>

Restore(r) ==
    /\ run[r].at = "restore"
    /\ \/ host' = [host EXCEPT !.forward = run[r].saved]
       \/ "undo" \in faults /\ UNCHANGED host
    /\ run' = [run EXCEPT ![r].at = "scope", ![r].saved = "unset"]
    /\ UNCHANGED <<agent, refresher, resolved, refreshes>>

\* The process scope is terminated last.
EndScope(r) ==
    /\ run[r].at = "scope"
    /\ agent' = [agent EXCEPT ![r] = "gone"]
    /\ Goto(r, "over")
    /\ UNCHANGED <<host, refresher, resolved, refreshes>>

\* The agent and a command that is under way survive the run process; a
\* helper at its gate ends.
RunKilled(r) ==
    /\ "kill" \in faults
    /\ run[r].at \notin {"idle", "over", "killed"}
    /\ Goto(r, "killed")
    /\ agent' = [agent EXCEPT ![r] = IF @ = "gated" THEN "gone" ELSE @]
    /\ refresher' = [refresher EXCEPT ![r] = Stopped(r)]
    /\ UNCHANGED <<host, resolved, refreshes>>

-----------------------------------------------------------------------------
(* The refresher *)

\* The domains are resolved before anything is touched; a failure to resolve
\* is a tick without effect.
Resolve(r, ips) ==
    /\ refresher[r].at = "sleep"
    /\ refreshes < MaxRefresh /\ refreshes' = refreshes + 1
    /\ refresher' = [refresher EXCEPT ![r] = [at |-> "create", ips |-> ips, todo |-> ips,
                                              cancelled |-> FALSE]]
    /\ resolved' = [resolved EXCEPT ![r] = @ \cup {ips}]
    /\ UNCHANGED <<host, run, agent>>

\* The refresher after a command: a cancelled one does not start another.
Resume(r, next) == IF refresher[r].cancelled \/ next.at = "sleep"
                   THEN [Idle EXCEPT !.at = IF refresher[r].cancelled THEN "off" ELSE "sleep"]
                   ELSE next

RefreshCreate(r) ==
    /\ refresher[r].at = "create"
    /\ host' = [host EXCEPT !.sets = @ \cup {"next"}]
    /\ refresher' = [refresher EXCEPT ![r] = Resume(r, [@ EXCEPT !.at = "flush"])]
    /\ UNCHANGED <<run, agent, resolved, refreshes>>

RefreshFlush(r) ==
    /\ refresher[r].at = "flush" /\ "next" \in host.sets
    /\ host' = [host EXCEPT !.next = {}]
    /\ refresher' = [refresher EXCEPT ![r] = Resume(r, [@ EXCEPT !.at = "add"])]
    /\ UNCHANGED <<run, agent, resolved, refreshes>>

Added(r, a) == LET left == refresher[r].todo \ {a}
               IN  [refresher[r] EXCEPT !.todo = left, !.at = IF left = {} THEN "swap" ELSE "add"]

\* A mutant of RefreshAdd: the addresses go into the set that is in use.
Mut_RefreshAdd(r, a) ==
    /\ refresher[r].at = "add" /\ "next" \in host.sets
    /\ a \in refresher[r].todo
    /\ host' = [host EXCEPT !.next = @ \cup {a}, !.allow = {a}]
    /\ refresher' = [refresher EXCEPT ![r] = Resume(r, Added(r, a))]
    /\ UNCHANGED <<run, agent, resolved, refreshes>>

RefreshAdd(r, a) ==
    /\ refresher[r].at = "add" /\ "next" \in host.sets
    /\ a \in refresher[r].todo
    /\ host' = [host EXCEPT !.next = @ \cup {a}]
    /\ refresher' = [refresher EXCEPT ![r] = Resume(r, Added(r, a))]
    /\ UNCHANGED <<run, agent, resolved, refreshes>>

RefreshSwap(r) ==
    /\ refresher[r].at = "swap" /\ {"allow", "next"} \subseteq host.sets
    /\ host' = [host EXCEPT !.allow = host.next, !.next = host.allow]
    /\ refresher' = [refresher EXCEPT ![r] = Resume(r, [@ EXCEPT !.at = "destroy"])]
    /\ UNCHANGED <<run, agent, resolved, refreshes>>

RefreshDestroy(r) ==
    /\ refresher[r].at = "destroy" /\ "next" \in host.sets
    /\ host' = [host EXCEPT !.sets = @ \ {"next"}, !.next = {}]
    /\ refresher' = [refresher EXCEPT ![r] = Resume(r, [@ EXCEPT !.at = "sleep"])]
    /\ UNCHANGED <<run, agent, resolved, refreshes>>

\* A command of Refresh is refused, fails or is killed with its context.
RefreshFails(r) ==
    /\ refresher[r].at \in RefreshSteps \ {"off", "sleep"}
    /\ \/ refresher[r].cancelled \/ "refresh" \in faults
       \/ refresher[r].at \in {"flush", "add", "swap", "destroy"} /\ "next" \notin host.sets
       \/ refresher[r].at = "swap" /\ "allow" \notin host.sets
    /\ refresher' = [refresher EXCEPT ![r] = Resume(r, [@ EXCEPT !.at = "sleep"])]
    /\ UNCHANGED <<host, run, agent, resolved, refreshes>>

-----------------------------------------------------------------------------

RunStep(r) ==
    \/ Begin(r) \/ Install(r) \/ Move(r) \/ Attach(r) \/ Wait(r) \/ StopRefresh(r)
    \/ Undo(r) \/ Restore(r) \/ EndScope(r) \/ RunKilled(r)
AgentStep(r) == AgentExits(r) \/ StrayExits(r) \/ NamespaceGone(r)
RefreshStep(r) ==
    \/ \E ips \in Resolutions : Resolve(r, ips)
    \/ RefreshCreate(r) \/ RefreshFlush(r)
    \/ \E a \in Address : RefreshAdd(r, a)
    \/ RefreshSwap(r) \/ RefreshDestroy(r) \/ RefreshFails(r)

Next ==
    /\ \E r \in Runs : RunStep(r) \/ AgentStep(r) \/ RefreshStep(r)
    /\ UNCHANGED faults

Spec == Init /\ [][Next]_vars

-----------------------------------------------------------------------------
(* Properties *)

\* Where the packets of a run's namespace get to.
Reach(r) ==
    IF host.link # r \/ host.forward = "off" THEN {}
    ELSE IF host.jump = 0 THEN Default
    ELSE (IF "match" \in host.rules THEN host.allow ELSE {})
         \cup (IF "reject" \in host.rules THEN {} ELSE Default)

Vetted == UNION {UNION resolved[r] : r \in Runs}

\* A running agent reaches only addresses that belong or belonged to allowed
\* domains, whatever the refresher is doing and even if the run process is
\* dead; they may be the domains of a run whose set was left behind.
AllowlistEnforced ==
    "overlap" \notin faults =>
        \A r \in Runs : agent[r] = "running" => Reach(r) \subseteq Vetted

\* A running agent never finds the list half filled, nor anything on it from
\* another run: it is always one whole resolution of its own domains.
WholeResolution ==
    faults \cap {"overlap", "kill", "undo"} = {} =>
        \A r \in Runs : agent[r] = "running" => host.allow \in resolved[r]

\* A run whose Prepare fails at any command, or whose agent has ended, leaves
\* neither rule nor link nor set behind and forwarding as it was; only the
\* set that a cancelled refresh was filling may stay.
RulesRemoved ==
    /\ faults \cap {"move", "undo", "attach", "kill", "overlap"} = {}
    /\ \A r \in Runs : run[r].at \in {"idle", "over"}
    => [host EXCEPT !.next = {}, !.sets = @ \ {"next"}] = Bare
=============================================================================
