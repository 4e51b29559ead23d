-------------------------- MODULE NetBoundaryProofs --------------------------
(***************************************************************************)
(* Theorems about NetBoundary, for any number of runs, addresses and       *)
(* resolutions, commands that fail anywhere, and run processes that are    *)
(* killed anywhere.                                                        *)
(***************************************************************************)
EXTENDS NetBoundary, TLAPS

\* A run that holds any part of the boundary, or whose commands may.
Busy(r) == \/ run[r].at \notin {"idle", "over", "killed"}
           \/ agent[r] \notin {"none", "gone"}
           \/ refresher[r].at # "off"

\* Without an overlap at most one run is busy, and a running agent is waited
\* for or orphaned.
AloneInv == "overlap" \notin faults => \A r, s \in Runs : Busy(r) /\ Busy(s) => r = s
PhaseInv == \A r \in Runs :
    /\ run[r].i > 0
    /\ run[r].at = "idle" => run[r].i = 1
    /\ run[r].at = "restore" => run[r].saved # "unset"
    /\ agent[r] = "running" => run[r].at \in {"wait", "killed"}
    /\ agent[r] = "gated" => run[r].at \in {"install", "move", "attach", "undo", "restore", "scope"}
    /\ run[r].at = "idle" => agent[r] = "none" /\ refresher[r].at = "off"

\* Every address on the host comes from a resolution.
AddressInv ==
    /\ host.allow \subseteq Vetted /\ host.next \subseteq Vetted
    /\ \A r \in Runs : /\ refresher[r].ips \subseteq Vetted /\ refresher[r].todo \subseteq Vetted
                       /\ run[r].at # "idle" => run[r].ips \subseteq Vetted

\* What the install program has done so far stays done.
Filtered == host.jump > 0 /\ "match" \in host.rules /\ "reject" \in host.rules
FilterInv == "overlap" \notin faults => \A r \in Runs :
    /\ run[r].at = "install" =>
         /\ run[r].i > 7 => host.jump > 0
         /\ run[r].i > 9 => "match" \in host.rules
         /\ run[r].i > 10 => "reject" \in host.rules
    /\ run[r].at \in {"move", "attach", "wait"} \/ agent[r] = "running" => Filtered

IInv == TypeOK /\ AloneInv /\ PhaseInv /\ AddressInv /\ FilterInv

-----------------------------------------------------------------------------
(* The commands *)

LEMMA Constants ==
    /\ Resolutions \subseteq SUBSET Address
    /\ FaultSets \subseteq SUBSET FaultKinds /\ MaxRefresh \in Nat
    /\ \A r \in Runs : r # "none" /\ r # "host"
  BY NetAssumption

LEMMA InstallPrograms ==
    /\ Len(InstallCommands) = 11 /\ Len(MoveCommands) = 2 /\ Len(UndoCommands) = 6
    /\ InstallCommands[7] = "jump" /\ InstallCommands[9] = "match" /\ InstallCommands[10] = "reject"
    /\ \A i \in 1..11 : InstallCommands[i] \notin
          {"noJump", "noNat", "flushChain", "noChain", "noSet", "noLink", "giveLink"}
    /\ \A i \in 1..2 : MoveCommands[i] \in {"giveLink", "configure"}
  BY DEF InstallCommands, MoveCommands, UndoCommands

\* A command gives a host again.
LEMMA EffectTyped ==
    ASSUME TypeOK, NEW r \in Runs, NEW command, Works(command, r)
    PROVE  Effect(command, r) \in HostType
<1>1. /\ host.link \in {"none", "host"} \cup Runs /\ host.forward \in {"on", "off"}
      /\ host.chain \in BOOLEAN /\ host.rules \in SUBSET Rules
      /\ host.jump \in Nat /\ host.nat \in Nat /\ host.sets \in SUBSET {"allow", "next"}
      /\ host.allow \in SUBSET Address /\ host.next \in SUBSET Address
  BY DEF TypeOK, HostType
<1>2. run[r].ips \subseteq Address
  BY Constants DEF TypeOK, RunType
<1>3. /\ command = "noJump" => host.jump > 0
      /\ command = "noNat" => host.nat > 0
  BY DEF Works
<1> DEFINE e == Effect(command, r)
<1>4. e.link \in {"none", "host"} \cup Runs /\ e.forward \in {"on", "off"}
  BY <1>1 DEF Effect
<1>5. e.chain \in BOOLEAN
  BY <1>1 DEF Effect
<1>6. e.rules \in SUBSET Rules
  BY <1>1 DEF Effect
<1>7. e.jump \in Nat /\ e.nat \in Nat
  <2>1. /\ command = "jump" => e.jump = host.jump + 1
        /\ command = "noJump" => e.jump = host.jump - 1
        /\ command \notin {"jump", "noJump"} => e.jump = host.jump
    BY DEF Effect
  <2>2. /\ command = "nat" => e.nat = host.nat + 1
        /\ command = "noNat" => e.nat = host.nat - 1
        /\ command \notin {"nat", "noNat"} => e.nat = host.nat
    BY DEF Effect
  <2> HIDE DEF e
  <2>3. host.jump \in Nat /\ host.nat \in Nat
    BY <1>1
  <2>4. e.jump \in Nat
    BY <1>3, <2>1, <2>3
  <2>5. e.nat \in Nat
    BY <1>3, <2>2, <2>3
  <2> QED
    BY <2>4, <2>5
<1>8. e.sets \in SUBSET {"allow", "next"}
  BY <1>1 DEF Effect
<1>9. e.allow \in SUBSET Address /\ e.next \in SUBSET Address
  BY <1>1, <1>2 DEF Effect
<1>10. e = [link |-> e.link, forward |-> e.forward, chain |-> e.chain, rules |-> e.rules,
            jump |-> e.jump, nat |-> e.nat, sets |-> e.sets, allow |-> e.allow, next |-> e.next]
  BY DEF Effect
<1> HIDE DEF e
<1>11. e \in HostType
  BY <1>4, <1>5, <1>6, <1>7, <1>8, <1>9, <1>10 DEF HostType
<1> QED
  BY <1>11 DEF e

\* No command brings addresses from elsewhere.
LEMMA EffectVetted ==
    ASSUME TypeOK, AddressInv, NEW r \in Runs, NEW command, run[r].at # "idle"
    PROVE  /\ Effect(command, r).allow \subseteq Vetted
           /\ Effect(command, r).next \subseteq Vetted
  BY DEF Effect, AddressInv

\* A command that takes nothing away keeps the rules that are there.
LEMMA EffectKeeps ==
    ASSUME TypeOK, NEW r \in Runs, NEW command,
           command \notin {"noJump", "flushChain"}
    PROVE  /\ host.rules \subseteq Effect(command, r).rules
           /\ host.jump > 0 => Effect(command, r).jump > 0
           /\ command = "jump" => Effect(command, r).jump > 0
           /\ command \in Rules => command \in Effect(command, r).rules
<1>1. host.jump \in Nat /\ host.rules \subseteq Rules
  BY DEF TypeOK, HostType
<1>2. Effect(command, r).rules = host.rules \cup (Rules \cap {command})
  BY DEF Effect
<1>3. /\ command = "jump" => Effect(command, r).jump = host.jump + 1
      /\ command # "jump" => Effect(command, r).jump = host.jump
  BY DEF Effect
<1>4. /\ host.jump > 0 => Effect(command, r).jump > 0
      /\ command = "jump" => Effect(command, r).jump > 0
  BY <1>1, <1>3
<1> QED
  BY <1>2, <1>4

-----------------------------------------------------------------------------
(* Types *)

LEMMA TypeInit == Init => TypeOK
<1> SUFFICES ASSUME Init PROVE TypeOK
  OBVIOUS
<1>1. Bare \in HostType
  BY DEF Bare, HostType, Rules
<1>2. [at : {"idle"}, i : {1}, saved : {"unset"}, ips : Resolutions] \subseteq RunType
  BY DEF RunType, RunSteps
<1>3. Idle \in RefresherType
  BY DEF Idle, RefresherType, RefreshSteps
<1> QED
  BY <1>1, <1>2, <1>3, Constants DEF Init, TypeOK, Agents

LEMMA HostTyped ==
    ASSUME TypeOK, PhaseInv, NEW r \in Runs, RunStep(r) \/ AgentStep(r) \/ RefreshStep(r)
    PROVE  host' \in HostType
<1> USE DEF TypeOK
<1>1. ASSUME NEW program, Succeeds(program, r)
      PROVE  host' \in HostType
  BY <1>1, EffectTyped DEF Succeeds
<1>2. ASSUME NEW program, NEW kind, Fails(program, r, kind)
      PROVE  host' \in HostType
  BY <1>2 DEF Fails
<1>3. CASE Install(r) \/ Move(r) \/ Undo(r)
  BY <1>1, <1>2, <1>3 DEF Install, Move, Undo
<1>4. CASE Begin(r) \/ Attach(r) \/ Wait(r) \/ StopRefresh(r) \/ EndScope(r) \/ RunKilled(r)
           \/ AgentExits(r) \/ StrayExits(r)
  BY <1>4 DEF Begin, Attach, Wait, StopRefresh, EndScope, RunKilled, AgentExits, StrayExits
<1>5. CASE Restore(r)
  BY <1>5 DEF Restore, HostType, RunType, PhaseInv
<1>6. CASE NamespaceGone(r)
  BY <1>6 DEF NamespaceGone, HostType
<1>7. CASE RefreshCreate(r)
  BY <1>7 DEF RefreshCreate, HostType
<1>8. CASE RefreshFlush(r)
  BY <1>8 DEF RefreshFlush, HostType
<1>12. CASE RefreshDestroy(r)
  <2>1. host.sets \ {"next"} \in SUBSET {"allow", "next"}
    BY DEF HostType
  <2> QED
    BY <1>12, <2>1 DEF RefreshDestroy, HostType
<1>9. CASE \E a \in Address : RefreshAdd(r, a)
  BY <1>9 DEF RefreshAdd, HostType
<1>10. CASE RefreshSwap(r)
  BY <1>10 DEF RefreshSwap, HostType
<1>11. CASE RefreshFails(r) \/ \E ips \in Resolutions : Resolve(r, ips)
  BY <1>11 DEF RefreshFails, Resolve
<1> QED
  BY <1>3, <1>4, <1>5, <1>6, <1>7, <1>8, <1>9, <1>10, <1>11, <1>12 DEF RunStep, AgentStep, RefreshStep

LEMMA RunsTyped ==
    ASSUME TypeOK, NEW r \in Runs, RunStep(r) \/ AgentStep(r) \/ RefreshStep(r)
    PROVE  /\ run' \in [Runs -> RunType] /\ agent' \in [Runs -> Agents]
           /\ resolved' \in [Runs -> SUBSET Resolutions] /\ refreshes' \in 0..MaxRefresh
<1>1. /\ run \in [Runs -> RunType] /\ agent \in [Runs -> Agents] /\ host \in HostType
      /\ resolved \in [Runs -> SUBSET Resolutions] /\ refreshes \in 0..MaxRefresh
      /\ run[r] \in RunType
  BY DEF TypeOK
<1> USE DEF RunSteps, Agents
<1>10. ASSUME NEW step \in RunSteps, Goto(r, step)
       PROVE  run' \in [Runs -> RunType]
  BY <1>1, <1>10 DEF Goto, RunType
<1>11. Advance(r) => run' \in [Runs -> RunType]
  BY <1>1 DEF Advance, RunType
<1>2. CASE Begin(r)
  BY <1>1, <1>2 DEF Begin, RunType, HostType
<1>3. CASE Install(r)
  BY <1>1, <1>3, <1>10, <1>11 DEF Install
<1>12. CASE Move(r)
  <2>1. run' = [run EXCEPT ![r].at = "undo", ![r].i = 1, ![r].saved = "unset"]
          => run' \in [Runs -> RunType]
    <3>1. [run[r] EXCEPT !.at = "undo", !.i = 1, !.saved = "unset"] \in RunType
      BY <1>1 DEF RunType
    <3> QED
      BY <1>1, <3>1
  <2> QED
    BY <1>1, <1>12, <1>10, <1>11, <2>1 DEF Move
<1>4. CASE Attach(r) \/ Wait(r) \/ StopRefresh(r) \/ EndScope(r)
  BY <1>1, <1>4, <1>10 DEF Attach, Wait, StopRefresh, EndScope
<1>5. CASE Undo(r)
  BY <1>1, <1>5, <1>10, <1>11 DEF Undo
<1>13. CASE Restore(r)
  BY <1>1, <1>13 DEF Restore, RunType
<1>6. CASE RunKilled(r)
  BY <1>1, <1>6, <1>10 DEF RunKilled
<1>7. CASE AgentStep(r)
  BY <1>1, <1>7 DEF AgentStep, AgentExits, StrayExits, NamespaceGone
<1>8. CASE \E ips \in Resolutions : Resolve(r, ips)
  BY <1>1, <1>8, Constants DEF Resolve
<1>9. CASE RefreshCreate(r) \/ RefreshFlush(r) \/ (\E a \in Address : RefreshAdd(r, a))
           \/ RefreshSwap(r) \/ RefreshDestroy(r) \/ RefreshFails(r)
  BY <1>1, <1>9 DEF RefreshCreate, RefreshFlush, RefreshAdd, RefreshSwap, RefreshDestroy, RefreshFails
<1> QED
  BY <1>2, <1>3, <1>4, <1>5, <1>6, <1>7, <1>8, <1>9, <1>12, <1>13 DEF RunStep, RefreshStep

LEMMA RefreshersTyped ==
    ASSUME TypeOK, NEW r \in Runs, RunStep(r) \/ AgentStep(r) \/ RefreshStep(r)
    PROVE  refresher' \in [Runs -> RefresherType]
<1>1. refresher \in [Runs -> RefresherType] /\ refresher[r] \in RefresherType
  BY DEF TypeOK
<1>2. Idle \in RefresherType /\ Stopped(r) \in RefresherType
  BY <1>1 DEF Idle, Stopped, RefresherType, RefreshSteps
<1>3. \A next \in RefresherType : Resume(r, next) \in RefresherType
  BY <1>1 DEF Resume, Idle, RefresherType, RefreshSteps
<1> USE DEF RefreshSteps
<1>4. CASE Begin(r) \/ Install(r) \/ Attach(r) \/ Wait(r) \/ Undo(r) \/ Restore(r) \/ EndScope(r)
           \/ AgentStep(r)
  BY <1>1, <1>4 DEF Begin, Install, Attach, Wait, Undo, Restore, EndScope, AgentStep,
      AgentExits, StrayExits, NamespaceGone
<1>5. CASE Move(r)
  BY <1>1, <1>5 DEF Move, RefresherType
<1>6. CASE StopRefresh(r) \/ RunKilled(r)
  BY <1>1, <1>2, <1>6 DEF StopRefresh, RunKilled
<1>7. ASSUME NEW ips \in Resolutions, Resolve(r, ips)
      PROVE  refresher' \in [Runs -> RefresherType]
  BY <1>1, <1>7, Constants DEF Resolve, RefresherType
<1>8. \A step \in RefreshSteps, left \in SUBSET Address :
        /\ [refresher[r] EXCEPT !.at = step] \in RefresherType
        /\ [refresher[r] EXCEPT !.todo = left, !.at = step] \in RefresherType
  BY <1>1 DEF RefresherType
<1>9. CASE RefreshCreate(r) \/ RefreshFlush(r) \/ RefreshSwap(r) \/ RefreshDestroy(r) \/ RefreshFails(r)
  BY <1>1, <1>3, <1>8, <1>9 DEF RefreshCreate, RefreshFlush, RefreshSwap, RefreshDestroy, RefreshFails
<1>10. ASSUME NEW a \in Address, RefreshAdd(r, a)
       PROVE  refresher' \in [Runs -> RefresherType]
  <2>1. refresher[r].todo \ {a} \in SUBSET Address
    BY <1>1 DEF RefresherType
  <2>2. Added(r, a) \in RefresherType
    BY <1>8, <2>1 DEF Added
  <2> QED
    BY <1>1, <1>3, <1>10, <2>2 DEF RefreshAdd
<1> QED
  BY <1>4, <1>5, <1>6, <1>7, <1>9, <1>10 DEF RunStep, RefreshStep

LEMMA TypeStep ==
    ASSUME TypeOK, PhaseInv, Next
    PROVE  TypeOK'
<1>1. PICK r \in Runs : RunStep(r) \/ AgentStep(r) \/ RefreshStep(r)
  BY DEF Next
<1>2. faults' \in FaultSets
  BY DEF Next, TypeOK
<1> QED
  BY <1>1, <1>2, HostTyped, RunsTyped, RefreshersTyped DEF TypeOK

-----------------------------------------------------------------------------
(* Who may act *)

Step(r) == RunStep(r) \/ AgentStep(r) \/ RefreshStep(r)

\* A step of a run changes nothing of another one but the host.
LEMMA OthersStay ==
    ASSUME TypeOK, NEW r \in Runs, NEW s \in Runs, s # r, Step(r)
    PROVE  run'[s] = run[s] /\ agent'[s] = agent[s] /\ refresher'[s] = refresher[s]
<1>1. run \in [Runs -> RunType] /\ agent \in [Runs -> Agents] /\ refresher \in [Runs -> RefresherType]
  BY DEF TypeOK
<1>2. CASE RunStep(r)
  BY <1>1, <1>2 DEF RunStep, Begin, Install, Move, Attach, Wait, StopRefresh, Undo, Restore,
      EndScope, RunKilled, Goto, Advance
<1>3. CASE AgentStep(r)
  BY <1>1, <1>3 DEF AgentStep, AgentExits, StrayExits, NamespaceGone
<1>4. CASE RefreshStep(r)
  BY <1>1, <1>4 DEF RefreshStep, Resolve, RefreshCreate, RefreshFlush, RefreshAdd, RefreshSwap,
      RefreshDestroy, RefreshFails
<1> QED
  BY <1>2, <1>3, <1>4 DEF Step

\* Only a run that is busy acts, but for one that begins.
LEMMA Actor ==
    ASSUME NEW r \in Runs, Step(r), ~Begin(r), ~NamespaceGone(r)
    PROVE  Busy(r)
  BY DEF Step, RunStep, AgentStep, RefreshStep, Busy, Install, Move, Attach, Wait, StopRefresh,
      Undo, Restore, EndScope, RunKilled, AgentExits, StrayExits, Resolve, RefreshCreate,
      RefreshFlush, RefreshAdd, RefreshSwap, RefreshDestroy, RefreshFails, RefreshSteps

LEMMA AloneStep ==
    ASSUME TypeOK, AloneInv, Next
    PROVE  AloneInv'
<1> SUFFICES ASSUME "overlap" \notin faults, NEW s \in Runs, NEW t \in Runs,
                    Busy(s)', Busy(t)', s # t
             PROVE  FALSE
  BY DEF AloneInv, Next
<1>1. PICK r \in Runs : Step(r)
  BY DEF Next, Step
<1>2. \A u \in Runs \ {r} : Busy(u)' => Busy(u)
  BY <1>1, OthersStay DEF Busy
<1>3. CASE Begin(r)
  <2>1. \A u \in Runs \ {r} : ~Busy(u)
    BY <1>3 DEF Begin, Alone, Busy
  <2> QED
    BY <1>2, <2>1
<1>4. CASE NamespaceGone(r)
  <2>1. Busy(r)' => Busy(r)
    BY <1>4 DEF NamespaceGone, Busy
  <2> QED
    BY <1>2, <2>1 DEF AloneInv
<1>5. CASE ~Begin(r) /\ ~NamespaceGone(r)
  BY <1>1, <1>2, <1>5, Actor DEF AloneInv
<1> QED
  BY <1>3, <1>4, <1>5

LEMMA PhaseStep ==
    ASSUME TypeOK, PhaseInv, Next
    PROVE  PhaseInv'
<1> SUFFICES ASSUME NEW s \in Runs
             PROVE  /\ run'[s].i > 0
                    /\ run'[s].at = "idle" => run'[s].i = 1
                    /\ run'[s].at = "restore" => run'[s].saved # "unset"
                    /\ agent'[s] = "running" => run'[s].at \in {"wait", "killed"}
                    /\ agent'[s] = "gated" => run'[s].at \in {"install", "move", "attach", "undo", "restore", "scope"}
                    /\ run'[s].at = "idle" => agent'[s] = "none" /\ refresher'[s].at = "off"
  BY DEF PhaseInv
<1>1. PICK r \in Runs : Step(r)
  BY DEF Next, Step
<1>2. CASE s # r
  BY <1>1, <1>2, OthersStay DEF PhaseInv
<1>3. CASE s = r
  <2>1. /\ run \in [Runs -> RunType] /\ agent \in [Runs -> Agents]
        /\ refresher \in [Runs -> RefresherType] /\ run[r].i \in Nat
    BY DEF TypeOK, RunType
  <2> USE <1>3, <2>1 DEF PhaseInv
  <2>11. \A step : Goto(r, step) =>
           run'[r].at = step /\ run'[r].i = 1 /\ run'[r].saved = run[r].saved
    BY DEF Goto, RunType
  <2>12. Advance(r) => run'[r].at = run[r].at /\ run'[r].i > 0 /\ run'[r].saved = run[r].saved
    BY DEF Advance, RunType
  <2>2. CASE Begin(r)
    BY <2>2 DEF Begin
  <2>3. CASE Install(r)
    <3>1. agent' = agent /\ agent[r] # "running" /\ run[r].at = "install"
      BY <2>3 DEF Install
    <3>2. run'[r].at \in {"install", "undo", "move"} /\ run'[r].i > 0
      BY <2>3, <2>11, <2>12, <3>1 DEF Install
    <3> QED
      BY <3>1, <3>2
  <2>4. CASE Move(r)
    <3>1. agent' = agent /\ agent[r] # "running" /\ run[r].at = "move"
      BY <2>4 DEF Move
    <3>2. run'[r].at \in {"undo", "move", "attach"} /\ run'[r].i > 0
      <4>1. CASE run' = [run EXCEPT ![r].at = "undo", ![r].i = 1, ![r].saved = "unset"]
        BY <4>1 DEF RunType
      <4>2. CASE Advance(r)
        BY <2>12, <3>1, <4>2
      <4>3. CASE Goto(r, "attach")
        BY <2>11, <4>3
      <4> QED
        BY <2>4, <4>1, <4>2, <4>3 DEF Move
    <3> QED
      BY <3>1, <3>2
  <2>5. CASE Attach(r)
    <3>1. /\ agent'[r] \in {"running", "gone"} /\ run'[r].i = 1
          /\ run'[r].at \in {"wait", "abandon"}
          /\ agent'[r] = "running" => run'[r].at = "wait"
      <4>1. CASE agent' = [agent EXCEPT ![r] = "running"] /\ Goto(r, "wait")
        BY <2>11, <4>1
      <4>2. CASE agent' = [agent EXCEPT ![r] = "gone"] /\ Goto(r, "abandon")
        BY <2>11, <4>2
      <4> QED
        BY <2>5, <4>1, <4>2 DEF Attach
    <3> QED
      BY <3>1
  <2>14. CASE Wait(r)
    BY <2>14, <2>11 DEF Wait
  <2>15. CASE EndScope(r)
    BY <2>15, <2>11 DEF EndScope
  <2>13. CASE StopRefresh(r)
    <3>1. run[r].at \in {"cancel", "abandon"} /\ agent' = agent
      BY <2>13 DEF StopRefresh
    <3>2. run'[r].at \in {"undo", "scope"} /\ run'[r].i = 1
      BY <2>13, <2>11, <3>1 DEF StopRefresh
    <3> QED
      BY <3>1, <3>2
  <2>6. CASE Undo(r)
    BY <2>6, <2>11, <2>12 DEF Undo
  <2>7. CASE Restore(r)
    <3>1. run'[r].at = "scope" /\ run'[r].i = run[r].i
      BY <2>7 DEF Restore, RunType
    <3> QED
      BY <2>7, <3>1 DEF Restore
  <2>8. CASE RunKilled(r)
    <3>1. run'[r].at = "killed" /\ run'[r].i = 1
      BY <2>8, <2>11 DEF RunKilled
    <3>2. agent'[r] = IF agent[r] = "gated" THEN "gone" ELSE agent[r]
      BY <2>8 DEF RunKilled
    <3> QED
      BY <3>1, <3>2
  <2>9. CASE AgentStep(r)
    BY <2>9 DEF AgentStep, AgentExits, StrayExits, NamespaceGone
  <2>10. CASE RefreshStep(r)
    <3>1. UNCHANGED <<run, agent>> /\ refresher[r].at # "off"
      BY <2>10 DEF RefreshStep, Resolve, RefreshCreate, RefreshFlush, RefreshAdd, RefreshSwap,
          RefreshDestroy, RefreshFails, RefreshSteps
    <3> QED
      BY <3>1
  <2> QED
    BY <1>1, <2>2, <2>3, <2>4, <2>5, <2>6, <2>7, <2>8, <2>9, <2>10, <2>13, <2>14, <2>15
      DEF Step, RunStep
<1> QED
  BY <1>2, <1>3

-----------------------------------------------------------------------------
(* The addresses *)

\* The resolutions of a run are remembered.
LEMMA ResolvedGrows ==
    ASSUME TypeOK, NEW r \in Runs, Step(r)
    PROVE  \A s \in Runs : resolved[s] \subseteq resolved'[s]
<1>1. resolved \in [Runs -> SUBSET Resolutions]
  BY DEF TypeOK
<1>2. CASE RunStep(r)
  BY <1>1, <1>2 DEF RunStep, Begin, Install, Move, Attach, Wait, StopRefresh, Undo, Restore,
      EndScope, RunKilled
<1>3. CASE AgentStep(r)
  BY <1>1, <1>3 DEF AgentStep, AgentExits, StrayExits, NamespaceGone
<1>4. CASE RefreshStep(r)
  BY <1>1, <1>4 DEF RefreshStep, Resolve, RefreshCreate, RefreshFlush, RefreshAdd, RefreshSwap,
      RefreshDestroy, RefreshFails
<1> QED
  BY <1>2, <1>3, <1>4 DEF Step

LEMMA VettedGrows ==
    ASSUME TypeOK, NEW r \in Runs, Step(r)
    PROVE  Vetted \subseteq Vetted'
  BY ResolvedGrows DEF Vetted

\* The sets on the host hold only addresses of resolutions.
LEMMA HostVetted ==
    ASSUME TypeOK, AddressInv, NEW r \in Runs, Step(r)
    PROVE  host'.allow \subseteq Vetted /\ host'.next \subseteq Vetted
<1>1. host \in HostType
  BY DEF TypeOK
<1>2. ASSUME NEW program, run[r].at # "idle", Succeeds(program, r)
      PROVE  host'.allow \subseteq Vetted /\ host'.next \subseteq Vetted
  BY <1>2, EffectVetted DEF Succeeds
<1>3. UNCHANGED host => host'.allow \subseteq Vetted /\ host'.next \subseteq Vetted
  BY DEF AddressInv
<1>4. CASE Install(r) \/ Move(r) \/ Undo(r)
  BY <1>2, <1>3, <1>4 DEF Install, Move, Undo, Fails
<1>5. CASE Begin(r) \/ Attach(r) \/ Wait(r) \/ StopRefresh(r) \/ EndScope(r) \/ RunKilled(r)
           \/ AgentExits(r) \/ StrayExits(r) \/ RefreshFails(r)
           \/ \E ips \in Resolutions : Resolve(r, ips)
  BY <1>3, <1>5 DEF Begin, Attach, Wait, StopRefresh, EndScope, RunKilled, AgentExits, StrayExits,
      RefreshFails, Resolve
<1>6. CASE Restore(r) \/ NamespaceGone(r) \/ RefreshCreate(r)
  BY <1>1, <1>6 DEF Restore, NamespaceGone, RefreshCreate, HostType, AddressInv
<1>7. CASE RefreshFlush(r) \/ RefreshSwap(r) \/ RefreshDestroy(r)
  BY <1>1, <1>7 DEF RefreshFlush, RefreshSwap, RefreshDestroy, HostType, AddressInv
<1>8. ASSUME NEW a \in Address, RefreshAdd(r, a)
      PROVE  host'.allow \subseteq Vetted /\ host'.next \subseteq Vetted
  <2>1. a \in Vetted
    BY <1>8 DEF RefreshAdd, AddressInv
  <2> QED
    BY <1>1, <1>8, <2>1 DEF RefreshAdd, HostType, AddressInv
<1> QED
  BY <1>4, <1>5, <1>6, <1>7, <1>8 DEF Step, RunStep, AgentStep, RefreshStep

\* So do the plan and the refresher of every run.
LEMMA ActorVetted ==
    ASSUME TypeOK, AddressInv, NEW r \in Runs, Step(r)
    PROVE  /\ refresher'[r].ips \subseteq Vetted' /\ refresher'[r].todo \subseteq Vetted'
           /\ run'[r].at # "idle" => run'[r].ips \subseteq Vetted'
<1>1. /\ run \in [Runs -> RunType] /\ refresher \in [Runs -> RefresherType]
      /\ resolved \in [Runs -> SUBSET Resolutions]
  BY DEF TypeOK
<1>2. /\ refresher[r].ips \subseteq Vetted' /\ refresher[r].todo \subseteq Vetted'
      /\ run[r].at # "idle" => run[r].ips \subseteq Vetted'
  BY VettedGrows DEF AddressInv
<1>3. Idle.ips = {} /\ Idle.todo = {}
  BY DEF Idle
<1>4. \A next : \/ Resume(r, next) = next
                \/ Resume(r, next).ips = {} /\ Resume(r, next).todo = {}
  BY DEF Resume, Idle
<1>5. run'[r].ips = run[r].ips
  <2>1. CASE RunStep(r)
    BY <1>1, <2>1 DEF RunStep, Begin, Install, Move, Attach, Wait, StopRefresh, Undo, Restore,
        EndScope, RunKilled, Goto, Advance, RunType
  <2>2. CASE AgentStep(r) \/ RefreshStep(r)
    BY <2>2 DEF AgentStep, AgentExits, StrayExits, NamespaceGone, RefreshStep, Resolve,
        RefreshCreate, RefreshFlush, RefreshAdd, RefreshSwap, RefreshDestroy, RefreshFails
  <2> QED
    BY <2>1, <2>2 DEF Step
<1>6. run'[r].at # "idle" => run[r].at # "idle" \/ Begin(r)
  <2>1. CASE RunStep(r)
    BY <2>1 DEF RunStep, Install, Move, Attach, Wait, StopRefresh, Undo, Restore, EndScope, RunKilled
  <2>2. CASE AgentStep(r) \/ RefreshStep(r)
    BY <2>2 DEF AgentStep, AgentExits, StrayExits, NamespaceGone, RefreshStep, Resolve,
        RefreshCreate, RefreshFlush, RefreshAdd, RefreshSwap, RefreshDestroy, RefreshFails
  <2> QED
    BY <2>1, <2>2 DEF Step
<1>7. Begin(r) => run[r].ips \subseteq Vetted'
  <2>1. Begin(r) => run[r].ips \in resolved'[r]
    BY <1>1 DEF Begin
  <2> QED
    BY <2>1 DEF Vetted
<1>8. /\ refresher'[r].ips \subseteq Vetted' /\ refresher'[r].todo \subseteq Vetted'
  <2>1. CASE UNCHANGED refresher
    BY <1>2, <2>1
  <2>2. CASE Move(r)
    BY <1>1, <1>2, <2>2 DEF Move, RefresherType
  <2>3. CASE StopRefresh(r) \/ RunKilled(r)
    <3>1. refresher'[r] = Stopped(r)
      BY <1>1, <2>3 DEF StopRefresh, RunKilled
    <3> QED
      BY <1>1, <1>2, <1>3, <3>1 DEF Stopped, RefresherType
  <2>4. ASSUME NEW ips \in Resolutions, Resolve(r, ips)
        PROVE  refresher'[r].ips \subseteq Vetted' /\ refresher'[r].todo \subseteq Vetted'
    <3>1. refresher'[r].ips = ips /\ refresher'[r].todo = ips /\ ips \in resolved'[r]
      BY <1>1, <2>4 DEF Resolve
    <3> QED
      BY <3>1 DEF Vetted
  <2>5. ASSUME NEW next, refresher' = [refresher EXCEPT ![r] = Resume(r, next)],
               next.ips = refresher[r].ips, next.todo \subseteq refresher[r].todo
        PROVE  refresher'[r].ips \subseteq Vetted' /\ refresher'[r].todo \subseteq Vetted'
    BY <1>1, <1>2, <1>4, <2>5
  <2>6. \A step : LET next == [refresher[r] EXCEPT !.at = step]
                  IN  next.ips = refresher[r].ips /\ next.todo = refresher[r].todo
    BY <1>1 DEF RefresherType
  <2>7. CASE RefreshCreate(r) \/ RefreshFlush(r) \/ RefreshSwap(r) \/ RefreshDestroy(r) \/ RefreshFails(r)
    BY <2>5, <2>6, <2>7 DEF RefreshCreate, RefreshFlush, RefreshSwap, RefreshDestroy, RefreshFails
  <2>8. ASSUME NEW a \in Address, RefreshAdd(r, a)
        PROVE  refresher'[r].ips \subseteq Vetted' /\ refresher'[r].todo \subseteq Vetted'
    <3>1. Added(r, a).ips = refresher[r].ips /\ Added(r, a).todo = refresher[r].todo \ {a}
      BY <1>1 DEF Added, RefresherType
    <3> QED
      BY <2>5, <2>8, <3>1 DEF RefreshAdd
  <2>9. UNCHANGED refresher \/ Move(r) \/ StopRefresh(r) \/ RunKilled(r) \/ RefreshStep(r)
    BY DEF Step, RunStep, AgentStep, Begin, Install, Attach, Wait, Undo, Restore, EndScope,
        AgentExits, StrayExits, NamespaceGone
  <2> QED
    BY <2>1, <2>2, <2>3, <2>4, <2>7, <2>8, <2>9 DEF RefreshStep
<1> QED
  BY <1>2, <1>5, <1>6, <1>7, <1>8

LEMMA AddressStep ==
    ASSUME TypeOK, AddressInv, Next
    PROVE  AddressInv'
<1>1. PICK r \in Runs : Step(r)
  BY DEF Next, Step
<1>2. host'.allow \subseteq Vetted' /\ host'.next \subseteq Vetted'
  BY <1>1, HostVetted, VettedGrows
<1>3. ASSUME NEW s \in Runs
      PROVE  /\ refresher'[s].ips \subseteq Vetted' /\ refresher'[s].todo \subseteq Vetted'
             /\ run'[s].at # "idle" => run'[s].ips \subseteq Vetted'
  <2>1. CASE s = r
    BY <1>1, <2>1, ActorVetted
  <2>2. CASE s # r
    BY <1>1, <2>2, OthersStay, VettedGrows DEF AddressInv
  <2> QED
    BY <2>1, <2>2
<1> QED
  BY <1>2, <1>3 DEF AddressInv

-----------------------------------------------------------------------------
(* The rules *)

Protects(r) ==
    /\ run[r].at = "install" =>
         /\ run[r].i > 7 => host.jump > 0
         /\ run[r].i > 9 => "match" \in host.rules
         /\ run[r].i > 10 => "reject" \in host.rules
    /\ run[r].at \in {"move", "attach", "wait"} \/ agent[r] = "running" => Filtered

\* The next command of the install program keeps what the ones before it did.
LEMMA InstallProtects ==
    ASSUME TypeOK, PhaseInv, NEW r \in Runs, Install(r), Protects(r)
    PROVE  Protects(r)'
<1>1. /\ run \in [Runs -> RunType] /\ run[r].i \in Nat /\ run[r].i > 0 /\ run[r].at = "install"
      /\ agent' = agent /\ agent[r] # "running" /\ host.jump \in Nat
  BY DEF TypeOK, RunType, HostType, PhaseInv, Install
<1>2. CASE Succeeds(InstallCommands, r) /\ Advance(r)
  <2> DEFINE i == run[r].i
             command == InstallCommands[i]
  <2>9. i \in 1..11
    BY <1>1, <1>2, InstallPrograms DEF Succeeds
  <2>10. host' = Effect(command, r)
    BY <1>2 DEF Succeeds
  <2>11. run'[r].at = "install" /\ run'[r].i = i + 1
    BY <1>1, <1>2 DEF Advance, RunType
  <2>1. i \in 1..11 /\ host' = Effect(command, r) /\ run'[r].at = "install" /\ run'[r].i = i + 1
    BY <2>9, <2>10, <2>11
  <2>2. /\ host.rules \subseteq host'.rules
        /\ host.jump > 0 => host'.jump > 0
        /\ command = "jump" => host'.jump > 0
        /\ command \in Rules => command \in host'.rules
    BY <2>1, EffectKeeps, InstallPrograms
  <2>3. i = 7 => host'.jump > 0
    BY <2>2, InstallPrograms
  <2>4. /\ i = 9 => "match" \in host'.rules
        /\ i = 10 => "reject" \in host'.rules
    BY <2>2, InstallPrograms DEF Rules
  <2> HIDE DEF command
  <2>5. run[r].i > 7 => host.jump > 0
    BY <1>1 DEF Protects
  <2>6. /\ run[r].i > 9 => "match" \in host.rules
        /\ run[r].i > 10 => "reject" \in host.rules
    BY <1>1 DEF Protects
  <2>7. run'[r].i > 7 => host'.jump > 0
    BY <2>1, <2>2, <2>3, <2>5
  <2>8. /\ run'[r].i > 9 => "match" \in host'.rules
        /\ run'[r].i > 10 => "reject" \in host'.rules
    BY <2>1, <2>2, <2>4, <2>6
  <2> QED
    BY <1>1, <2>1, <2>7, <2>8 DEF Protects
<1>3. CASE Goto(r, "undo")
  <2>1. run'[r].at = "undo"
    BY <1>1, <1>3 DEF Goto
  <2> QED
    BY <1>1, <2>1 DEF Protects
<1>4. CASE run[r].i > Len(InstallCommands) /\ Goto(r, "move") /\ UNCHANGED host
  <2>1. run[r].i > 10 /\ run'[r].at = "move"
    BY <1>1, <1>4, InstallPrograms DEF Goto
  <2>2. Filtered
    BY <1>1, <2>1 DEF Protects, Filtered
  <2>3. Filtered'
    BY <1>4, <2>2 DEF Filtered
  <2> QED
    BY <1>1, <2>1, <2>3 DEF Protects
<1> QED
  BY <1>2, <1>3, <1>4 DEF Install

LEMMA ActorProtects ==
    ASSUME TypeOK, PhaseInv, NEW r \in Runs, Step(r), Protects(r)
    PROVE  Protects(r)'
<1>1. /\ run \in [Runs -> RunType] /\ agent \in [Runs -> Agents] /\ host \in HostType
      /\ host.jump \in Nat
  BY DEF TypeOK, HostType
<1>2. \A step : Goto(r, step) => run'[r].at = step
  BY <1>1 DEF Goto
<1>3. host'.jump = host.jump /\ host'.rules = host.rules => (Filtered' <=> Filtered)
  BY DEF Filtered
<1>4. CASE Begin(r)
  <2>1. run'[r].at = "install" /\ run'[r].i = run[r].i /\ run[r].at = "idle" /\ agent'[r] = "gated"
    BY <1>1, <1>4 DEF Begin, RunType
  <2>2. run'[r].i = 1
    BY <2>1 DEF PhaseInv
  <2> QED
    BY <2>1, <2>2 DEF Protects
<1>5. CASE Install(r)
  BY <1>5, InstallProtects
<1>6. CASE Move(r)
  <2>1. agent' = agent /\ agent[r] # "running" /\ Filtered
    BY <1>6 DEF Move, PhaseInv, Protects
  <2>2. CASE Succeeds(MoveCommands, r) /\ Advance(r)
    <3>4. run[r].i \in Nat /\ run[r].i > 0 /\ run[r].at = "move"
      BY <1>1, <1>6 DEF PhaseInv, RunType, Move
    <3>5. run[r].i \in 1..2
      BY <2>2, <3>4, InstallPrograms DEF Succeeds
    <3>6. host' = Effect(MoveCommands[run[r].i], r)
      BY <2>2 DEF Succeeds
    <3>7. run'[r].at = "move"
      BY <1>1, <2>2, <3>4 DEF Advance, RunType
    <3>1. run[r].i \in 1..2 /\ host' = Effect(MoveCommands[run[r].i], r) /\ run'[r].at = "move"
      BY <3>5, <3>6, <3>7
    <3>2. Filtered'
      BY <2>1, <3>1, EffectKeeps, InstallPrograms DEF Filtered
    <3> QED
      BY <2>1, <3>1, <3>2 DEF Protects
  <2>3. CASE run' = [run EXCEPT ![r].at = "undo", ![r].i = 1, ![r].saved = "unset"]
    <3>1. run'[r].at = "undo"
      BY <1>1, <2>3 DEF RunType
    <3> QED
      BY <2>1, <3>1 DEF Protects
  <2>4. CASE Goto(r, "attach") /\ UNCHANGED host
    <3>1. run'[r].at = "attach" /\ Filtered'
      BY <1>2, <1>3, <2>1, <2>4
    <3> QED
      BY <2>1, <3>1 DEF Protects
  <2> QED
    BY <1>6, <2>2, <2>3, <2>4 DEF Move
<1>7. CASE Attach(r) \/ Wait(r) \/ StopRefresh(r)
  <2>1. UNCHANGED host /\ run'[r].at \in {"wait", "abandon", "cancel", "undo", "scope"}
    BY <1>2, <1>7 DEF Attach, Wait, StopRefresh
  <2>2. run'[r].at = "wait" \/ agent'[r] = "running" => Filtered
    BY <1>1, <1>2, <1>7 DEF Attach, Wait, StopRefresh, Protects, PhaseInv
  <2> QED
    BY <1>3, <2>1, <2>2 DEF Protects
<1>8. CASE Undo(r) \/ Restore(r) \/ EndScope(r)
  <2>1. run'[r].at \in {"undo", "restore", "scope", "over"}
    BY <1>1, <1>2, <1>8 DEF Undo, Restore, EndScope, Advance, RunType
  <2>2. agent'[r] # "running"
    BY <1>1, <1>8 DEF Undo, Restore, EndScope, PhaseInv
  <2> QED
    BY <2>1, <2>2 DEF Protects
<1>9. CASE RunKilled(r)
  <2>1. UNCHANGED host /\ run'[r].at = "killed"
    BY <1>2, <1>9 DEF RunKilled
  <2>2. agent'[r] = "running" => agent[r] = "running"
    BY <1>1, <1>9 DEF RunKilled
  <2> QED
    BY <1>3, <2>1, <2>2 DEF Protects
<1>10. CASE AgentStep(r) \/ RefreshStep(r)
  <2>1. UNCHANGED run
    BY <1>10 DEF AgentStep, AgentExits, StrayExits, NamespaceGone, RefreshStep, Resolve,
        RefreshCreate, RefreshFlush, RefreshAdd, RefreshSwap, RefreshDestroy, RefreshFails
  <2>2. agent'[r] = "running" => agent[r] = "running"
    BY <1>1, <1>10 DEF AgentStep, AgentExits, StrayExits, NamespaceGone, RefreshStep, Resolve,
        RefreshCreate, RefreshFlush, RefreshAdd, RefreshSwap, RefreshDestroy, RefreshFails
  <2>3. host'.jump = host.jump /\ host'.rules = host.rules
    BY <1>1, <1>10 DEF AgentStep, AgentExits, StrayExits, NamespaceGone, RefreshStep, Resolve,
        RefreshCreate, RefreshFlush, RefreshAdd, RefreshSwap, RefreshDestroy, RefreshFails, HostType
  <2> QED
    BY <1>3, <2>1, <2>2, <2>3 DEF Protects
<1> QED
  BY <1>4, <1>5, <1>6, <1>7, <1>8, <1>9, <1>10 DEF Step, RunStep

LEMMA FilterStep ==
    ASSUME TypeOK, AloneInv, PhaseInv, FilterInv, Next
    PROVE  FilterInv'
<1> SUFFICES ASSUME "overlap" \notin faults, NEW s \in Runs
             PROVE  Protects(s)'
  BY DEF FilterInv, Protects, Next
<1>1. PICK r \in Runs : Step(r)
  BY DEF Next, Step
<1>2. Protects(s)
  BY DEF FilterInv, Protects
<1>3. CASE s = r
  BY <1>1, <1>2, <1>3, ActorProtects
<1>4. CASE s # r /\ ~Busy(s)
  <2>1. run'[s].at \in {"idle", "over", "killed"} /\ agent'[s] # "running"
    BY <1>1, <1>4, OthersStay DEF Busy
  <2> QED
    BY <2>1 DEF Protects
<1>5. CASE s # r /\ Busy(s)
  <2>1. NamespaceGone(r)
    BY <1>1, <1>5, Actor DEF AloneInv, Begin, Alone, Busy
  <2>2. UNCHANGED <<run, agent>> /\ host'.jump = host.jump /\ host'.rules = host.rules
    BY <2>1 DEF NamespaceGone, TypeOK, HostType
  <2> QED
    BY <1>2, <2>2 DEF Protects, Filtered
<1> QED
  BY <1>3, <1>4, <1>5

-----------------------------------------------------------------------------
(* The inductive invariant *)

LEMMA InitInv == Init => IInv
<1> SUFFICES ASSUME Init PROVE IInv
  OBVIOUS
<1>1. TypeOK
  BY TypeInit
<1>2. \A r \in Runs : /\ run[r].at = "idle" /\ run[r].i = 1 /\ agent[r] = "none"
                      /\ refresher[r] = Idle
  BY DEF Init
<1>3. AloneInv /\ PhaseInv
  BY <1>2 DEF AloneInv, PhaseInv, Busy, Idle
<1>4. AddressInv
  BY <1>2 DEF AddressInv, Idle, Init, Bare
<1>5. FilterInv
  BY <1>2 DEF FilterInv
<1> QED
  BY <1>1, <1>3, <1>4, <1>5 DEF IInv

LEMMA StepInv == IInv /\ [Next]_vars => IInv'
<1> SUFFICES ASSUME IInv, [Next]_vars PROVE IInv'
  OBVIOUS
<1>1. CASE Next
  BY <1>1, TypeStep, AloneStep, PhaseStep, AddressStep, FilterStep DEF IInv
<1>2. CASE UNCHANGED vars
  BY <1>2 DEF vars, IInv, TypeOK, AloneInv, Busy, PhaseInv, AddressInv, Vetted, FilterInv, Filtered
<1> QED
  BY <1>1, <1>2

THEOREM Invariance == Spec => []IInv
  BY InitInv, StepInv, PTL DEF Spec

\* Every variable has its type, whichever command fails and whichever
\* process is killed.
THEOREM TypeCorrect == Spec => []TypeOK
<1>1. IInv => TypeOK
  BY DEF IInv
<1> QED
  BY <1>1, Invariance, PTL

\* As long as runs do not overlap, a running agent reaches only addresses of
\* allowed domains: through every failure of install and cleanup, every step
\* of the refresher and after the death of the run process.
THEOREM Enforced == Spec => []AllowlistEnforced
<1>1. IInv => AllowlistEnforced
  <2> SUFFICES ASSUME IInv, "overlap" \notin faults, NEW r \in Runs, agent[r] = "running"
               PROVE  Reach(r) \subseteq Vetted
    BY DEF AllowlistEnforced
  <2>1. Filtered /\ host.jump \in Nat /\ host.allow \subseteq Vetted
    BY DEF IInv, FilterInv, AddressInv, TypeOK, HostType
  <2> QED
    BY <2>1 DEF Filtered, Reach
<1> QED
  BY <1>1, Invariance, PTL
-----------------------------------------------------------------------------
(* What the commands leave on the host                                     *)

\* No runs that overlap, no run process that is killed, and no cleanup
\* command that fails for a reason of its own.
Tidy == faults \cap {"overlap", "kill", "undo"} = {}

\* The host holds at most one rule of each kind; without the chain there is
\* nothing of the others, but for the set in the middle of a cleanup; and a
\* set that is not there is empty.
Consistent ==
    /\ host.jump \in {0, 1} /\ host.nat \in {0, 1}
    /\ ~host.chain => /\ host.jump = 0 /\ host.nat = 0 /\ host.rules = {}
                      /\ "allow" \in host.sets =>
                            \E r \in Runs : run[r].at = "undo" /\ run[r].i = 5
    /\ "allow" \notin host.sets => host.allow = {}

\* From a chain of its own on, a run builds on an empty host.
Built(r) ==
    /\ run[r].at = "install" /\ run[r].i > 4 =>
         /\ run[r].i < 6 => "allow" \notin host.sets
         /\ host.chain
         /\ run[r].i < 7 => host.nat = 0
         /\ run[r].i < 8 => host.jump = 0
         /\ run[r].i < 12 => host.allow = {}
         /\ run[r].i > 11 => host.allow = run[r].ips
    /\ run[r].at \in {"move", "attach", "wait"} => host.allow \in resolved[r]
    /\ run[r].at # "idle" => run[r].ips \in resolved[r]
    /\ run[r].at # "killed"

\* Every command of the cleanup that was tried has done its work, or there was
\* nothing to do.
Undone(r) ==
    run[r].at = "undo" =>
        /\ run[r].i > 1 => host.jump = 0
        /\ run[r].i > 2 => host.nat = 0
        /\ run[r].i > 3 => host.rules = {}
        /\ run[r].i > 4 => ~host.chain
        /\ run[r].i > 5 => "allow" \notin host.sets
        /\ run[r].i > 6 => host.link = "none"

\* The set that is being filled holds what is no longer to do of one resolution.
Refilled(r) ==
    /\ run[r].at \in {"idle", "install", "move"} => refresher[r].at = "off"
    /\ refresher[r].at \notin {"off", "sleep"} =>
         refresher[r].ips \in resolved[r] /\ refresher[r].todo \subseteq refresher[r].ips
    /\ refresher[r].at \in {"add", "swap"} =>
         host.next = refresher[r].ips \ refresher[r].todo
    /\ refresher[r].at \in {"create", "flush"} => refresher[r].todo = refresher[r].ips
    /\ refresher[r].at = "swap" => refresher[r].todo = {}

HostInv == Tidy => Consistent /\ \A r \in Runs : Built(r) /\ Undone(r) /\ Refilled(r)

\* Runs that do not fail between the install program and the gate, either.
Orderly == Tidy /\ faults \cap {"move", "attach"} = {}

Empty == ~host.chain /\ "allow" \notin host.sets /\ host.link = "none"

\* Between runs the host is as it was; a run remembers that forwarding was off
\* until it has restored it, and holds the link until its cleanup.
Kept(r) ==
    /\ run[r].at \in {"install", "move", "attach", "wait", "cancel", "undo", "restore"}
         => run[r].saved = "off"
    /\ run[r].at = "install" /\ run[r].i > 1 => host.link = "host"
    /\ run[r].at = "move" => /\ run[r].i = 1 => host.link = "host"
                             /\ run[r].i = 2 => host.link = r
    /\ run[r].at \in {"install", "move", "attach"} => agent[r] = "gated"
    /\ run[r].at = "restore" => Empty
    /\ run[r].at # "abandon"
ReturnInv ==
    Orderly => /\ \A r \in Runs : Kept(r)
               /\ (\A r \in Runs : run[r].at \in {"idle", "scope", "over"})
                    => Empty /\ host.forward = "off"

\* What a command does to each part of the host.
LEMMA EffectParts ==
    ASSUME NEW command, NEW r
    PROVE  LET e == Effect(command, r) IN
           /\ command = "addLink" => e.link = "host"
           /\ command = "giveLink" => e.link = r
           /\ command = "noLink" => e.link = "none"
           /\ command \notin {"addLink", "giveLink", "noLink"} => e.link = host.link
           /\ command # "forward" => e.forward = host.forward
           /\ e.chain <=> command = "newChain" \/ (host.chain /\ command # "noChain")
           /\ command = "flushChain" => e.rules = {}
           /\ command \notin {"flushChain", "match", "reject"} => e.rules = host.rules
           /\ command = "jump" => e.jump = host.jump + 1
           /\ command = "noJump" => e.jump = host.jump - 1
           /\ command \notin {"jump", "noJump"} => e.jump = host.jump
           /\ command = "nat" => e.nat = host.nat + 1
           /\ command = "noNat" => e.nat = host.nat - 1
           /\ command \notin {"nat", "noNat"} => e.nat = host.nat
           /\ command = "noSet" => e.sets = host.sets \ {"allow"} /\ e.allow = {}
           /\ command = "newSet" => e.sets = host.sets \cup {"allow"}
           /\ command \notin {"noSet", "newSet"} => e.sets = host.sets
           /\ command = "fill" => e.allow = host.allow \cup run[r].ips
           /\ command \notin {"noSet", "fill"} => e.allow = host.allow
           /\ e.next = host.next
<1> DEFINE e == Effect(command, r)
<1>1. /\ command = "addLink" => e.link = "host"
      /\ command = "giveLink" => e.link = r
      /\ command = "noLink" => e.link = "none"
      /\ command \notin {"addLink", "giveLink", "noLink"} => e.link = host.link
      /\ command # "forward" => e.forward = host.forward
      /\ e.chain <=> command = "newChain" \/ (host.chain /\ command # "noChain")
  BY DEF Effect
<1>2. /\ command = "flushChain" => e.rules = {}
      /\ command \notin {"flushChain", "match", "reject"} => e.rules = host.rules
  <2>1. e.rules = IF command = "flushChain" THEN {} ELSE host.rules \cup (Rules \cap {command})
    BY DEF Effect
  <2> HIDE DEF e
  <2> QED
    BY <2>1 DEF Rules
<1>3. /\ command = "jump" => e.jump = host.jump + 1
      /\ command = "noJump" => e.jump = host.jump - 1
      /\ command \notin {"jump", "noJump"} => e.jump = host.jump
      /\ command = "nat" => e.nat = host.nat + 1
      /\ command = "noNat" => e.nat = host.nat - 1
      /\ command \notin {"nat", "noNat"} => e.nat = host.nat
  BY DEF Effect
<1>4. /\ command = "noSet" => e.sets = host.sets \ {"allow"} /\ e.allow = {}
      /\ command = "newSet" => e.sets = host.sets \cup {"allow"}
      /\ command \notin {"noSet", "newSet"} => e.sets = host.sets
      /\ command = "fill" => e.allow = host.allow \cup run[r].ips
      /\ command \notin {"noSet", "fill"} => e.allow = host.allow
      /\ e.next = host.next
  BY DEF Effect
<1> QED
  BY <1>1, <1>2, <1>3, <1>4

LEMMA Programs ==
    /\ InstallCommands[1] = "addLink" /\ InstallCommands[2] = "linkUp"
    /\ InstallCommands[3] = "forward" /\ InstallCommands[4] = "newChain"
    /\ InstallCommands[5] = "newSet" /\ InstallCommands[6] = "nat"
    /\ InstallCommands[7] = "jump" /\ InstallCommands[8] = "established"
    /\ InstallCommands[9] = "match" /\ InstallCommands[10] = "reject" /\ InstallCommands[11] = "fill"
    /\ UndoCommands[1] = "noJump" /\ UndoCommands[2] = "noNat" /\ UndoCommands[3] = "flushChain"
    /\ UndoCommands[4] = "noChain" /\ UndoCommands[5] = "noSet" /\ UndoCommands[6] = "noLink"
    /\ MoveCommands[1] = "giveLink" /\ MoveCommands[2] = "configure"
  BY DEF InstallCommands, UndoCommands, MoveCommands

\* The effect of the next command of the install program, by its number.
LEMMA InstallEffect ==
    ASSUME NEW r \in Runs, run[r].i \in Nat \ {0}, Succeeds(InstallCommands, r)
    PROVE  LET i == run[r].i IN
           /\ i \in 1..11
           /\ host'.chain <=> host.chain \/ i = 4
           /\ i = 4 => ~host.chain
           /\ i = 7 => host'.jump = host.jump + 1
           /\ i # 7 => host'.jump = host.jump
           /\ i = 6 => host'.nat = host.nat + 1
           /\ i # 6 => host'.nat = host.nat
           /\ i \notin {9, 10} => host'.rules = host.rules
           /\ "allow" \in host'.sets <=> "allow" \in host.sets \/ i = 5
           /\ i = 11 => host'.allow = host.allow \cup run[r].ips
           /\ i # 11 => host'.allow = host.allow
           /\ i = 1 => host'.link = "host"
           /\ i # 1 => host'.link = host.link
           /\ host'.next = host.next
<1> DEFINE i == run[r].i
           command == InstallCommands[i]
<1>1. i \in 1..11
  BY InstallPrograms DEF Succeeds
<1>2. host' = Effect(command, r) /\ Works(command, r)
  BY DEF Succeeds
<1>3. /\ command = "addLink" <=> i = 1
      /\ command = "newChain" <=> i = 4
      /\ command = "newSet" <=> i = 5
      /\ command = "nat" <=> i = 6
      /\ command = "jump" <=> i = 7
      /\ command \in {"match", "reject"} <=> i \in {9, 10}
      /\ command = "fill" <=> i = 11
      /\ command \notin {"giveLink", "noLink", "noChain", "flushChain", "noJump", "noNat", "noSet"}
  BY <1>1, Programs
<1>4. command = "newChain" => ~host.chain
  BY <1>2 DEF Works
<1> HIDE DEF i, command
<1>5. /\ host'.chain <=> command = "newChain" \/ host.chain
      /\ command = "jump" => host'.jump = host.jump + 1
      /\ command # "jump" => host'.jump = host.jump
      /\ command = "nat" => host'.nat = host.nat + 1
      /\ command # "nat" => host'.nat = host.nat
      /\ command \notin {"match", "reject"} => host'.rules = host.rules
      /\ command = "newSet" => host'.sets = host.sets \cup {"allow"}
      /\ command # "newSet" => host'.sets = host.sets
      /\ command = "fill" => host'.allow = host.allow \cup run[r].ips
      /\ command # "fill" => host'.allow = host.allow
      /\ command = "addLink" => host'.link = "host"
      /\ command # "addLink" => host'.link = host.link
      /\ host'.next = host.next
  BY <1>2, <1>3, EffectParts
<1>6. "allow" \in host'.sets <=> "allow" \in host.sets \/ command = "newSet"
  BY <1>5
<1>7. /\ host'.chain <=> host.chain \/ i = 4
      /\ i = 4 => ~host.chain
      /\ i = 7 => host'.jump = host.jump + 1
      /\ i # 7 => host'.jump = host.jump
      /\ i = 6 => host'.nat = host.nat + 1
      /\ i # 6 => host'.nat = host.nat
      /\ i \notin {9, 10} => host'.rules = host.rules
      /\ "allow" \in host'.sets <=> "allow" \in host.sets \/ i = 5
      /\ i = 11 => host'.allow = host.allow \cup run[r].ips
      /\ i # 11 => host'.allow = host.allow
      /\ i = 1 => host'.link = "host"
      /\ i # 1 => host'.link = host.link
      /\ host'.next = host.next
  BY <1>3, <1>4, <1>5, <1>6
<1> QED
  BY <1>1, <1>7 DEF i

\* One command of the cleanup, when none fails for a reason of its own.
LEMMA UndoEffect ==
    ASSUME NEW r \in Runs, run[r].i \in Nat \ {0}, host.jump \in {0, 1}, host.nat \in {0, 1},
           "undo" \notin faults,
           Succeeds(UndoCommands, r) \/ Fails(UndoCommands, r, "undo")
    PROVE  LET i == run[r].i IN
           /\ i \in 1..6
           /\ i = 1 => host'.jump = 0
           /\ i # 1 => host'.jump = host.jump
           /\ i = 2 => host'.nat = 0
           /\ i # 2 => host'.nat = host.nat
           /\ i = 3 => host'.rules = {} \/ (host'.rules = host.rules /\ ~host.chain)
           /\ i # 3 => host'.rules = host.rules
           /\ host'.chain => host.chain
           /\ i = 4 /\ host.rules = {} /\ host.jump = 0 => ~host'.chain
           /\ i # 4 => (host'.chain <=> host.chain)
           /\ i = 5 /\ host.rules = {} => "allow" \notin host'.sets
           /\ i # 5 => host'.sets = host.sets
           /\ host'.allow = {} \/ (host'.allow = host.allow /\ host'.sets = host.sets)
           /\ i = 6 => host'.link = "none"
           /\ i # 6 => host'.link = host.link
           /\ host'.next = host.next
<1> DEFINE i == run[r].i
           command == UndoCommands[i]
<1>1. i \in 1..6
  BY InstallPrograms DEF Succeeds, Fails
<1>2. \/ host' = Effect(command, r) /\ Works(command, r)
      \/ host' = host /\ ~Works(command, r)
  BY DEF Succeeds, Fails
<1>3. /\ i = 1 => command = "noJump"
      /\ i = 2 => command = "noNat"
      /\ i = 3 => command = "flushChain"
      /\ i = 4 => command = "noChain"
      /\ i = 5 => command = "noSet"
      /\ i = 6 => command = "noLink"
  BY Programs
<1> HIDE DEF i, command
<1>4. /\ Works("noJump", r) <=> host.jump > 0
      /\ Works("noNat", r) <=> host.nat > 0
      /\ Works("flushChain", r) <=> host.chain
      /\ Works("noChain", r) <=> host.chain /\ host.rules = {} /\ host.jump = 0
      /\ Works("noSet", r) <=> "allow" \in host.sets /\ "match" \notin host.rules
      /\ Works("noLink", r) <=> host.link # "none"
  BY DEF Works
<1>5. /\ i = 1 => host'.jump = 0
      /\ i # 1 => host'.jump = host.jump
  BY <1>1, <1>2, <1>3, <1>4, EffectParts
<1>6. /\ i = 2 => host'.nat = 0
      /\ i # 2 => host'.nat = host.nat
  BY <1>1, <1>2, <1>3, <1>4, EffectParts
<1>7. /\ i = 3 => host'.rules = {} \/ (host'.rules = host.rules /\ ~host.chain)
      /\ i # 3 => host'.rules = host.rules
  BY <1>1, <1>2, <1>3, <1>4, EffectParts
<1>8. /\ host'.chain => host.chain
      /\ i = 4 /\ host.rules = {} /\ host.jump = 0 => ~host'.chain
      /\ i # 4 => (host'.chain <=> host.chain)
  BY <1>1, <1>2, <1>3, <1>4, EffectParts
<1>9. /\ i = 5 /\ host.rules = {} => "allow" \notin host'.sets
      /\ i # 5 => host'.sets = host.sets
      /\ host'.allow = {} \/ (host'.allow = host.allow /\ host'.sets = host.sets)
      /\ host'.next = host.next
  <2>1. /\ host'.allow = {} \/ (host'.allow = host.allow /\ host'.sets = host.sets)
        /\ i # 5 => host'.sets = host.sets
        /\ host'.next = host.next
    BY <1>1, <1>2, <1>3, <1>4, EffectParts
  <2>2. i = 5 /\ Works("noSet", r) => host'.sets = host.sets \ {"allow"}
    BY <1>2, <1>3, EffectParts
  <2>3. i = 5 /\ ~Works("noSet", r) => host'.sets = host.sets
    BY <1>2, <1>3
  <2> QED
    BY <1>4, <2>1, <2>2, <2>3
<1>10. /\ i = 6 => host'.link = "none"
       /\ i # 6 => host'.link = host.link
  BY <1>1, <1>2, <1>3, <1>4, EffectParts
<1> QED
  BY <1>1, <1>5, <1>6, <1>7, <1>8, <1>9, <1>10 DEF i

\* The host as the run at work knows it.
Local(r) == Consistent /\ Built(r) /\ Undone(r) /\ Refilled(r)

\* A run that acts is the only one that does; a namespace may go at any time.
LEMMA OnlyActor ==
    ASSUME TypeOK, AloneInv, Tidy, NEW r \in Runs, Step(r), Busy(r) \/ Begin(r)
    PROVE  \A s \in Runs \ {r} : ~Busy(s) /\ run'[s] = run[s] /\ run[s].at \in {"idle", "over", "killed"}
<1>1. "overlap" \notin faults
  BY DEF Tidy
<1>2. CASE Begin(r)
  BY <1>1, <1>2, OthersStay DEF Begin, Alone, Busy
<1>3. CASE Busy(r)
  BY <1>1, <1>3, OthersStay DEF AloneInv, Busy
<1> QED
  BY <1>2, <1>3

\* A step that changes neither rules nor sets nor the stage of a cleanup.
LEMMA QuietHost ==
    ASSUME TypeOK, AloneInv, Tidy, Consistent, NEW r \in Runs, Step(r), Busy(r) \/ Begin(r),
           run[r].at # "undo" \/ run[r].i # 5,
           host'.jump = host.jump, host'.nat = host.nat, host'.rules = host.rules,
           host'.chain <=> host.chain, host'.sets = host.sets, host'.allow = host.allow
    PROVE  Consistent'
<1>1. \A s \in Runs : ~(run[s].at = "undo" /\ run[s].i = 5)
  BY OnlyActor
<1> QED
  BY <1>1 DEF Consistent

LEMMA InstallTidy ==
    ASSUME TypeOK, AloneInv, PhaseInv, Tidy, NEW r \in Runs, Local(r), Install(r)
    PROVE  Local(r)'
<1>1. /\ run \in [Runs -> RunType] /\ run[r].i \in Nat \ {0} /\ run[r].at = "install"
      /\ refresher' = refresher /\ resolved' = resolved
      /\ host.rules \subseteq Rules /\ Step(r) /\ Busy(r)
      /\ refresher[r].at = "off"
  <2>1. run[r].at = "install" /\ refresher' = refresher /\ resolved' = resolved
        /\ Step(r) /\ Busy(r)
    BY DEF Install, Step, RunStep, Busy
  <2> QED
    BY <2>1 DEF TypeOK, RunType, HostType, PhaseInv, Local, Refilled
<1>2. \A s \in Runs \ {r} : run'[s] = run[s] /\ run[s].at # "undo"
  BY <1>1, OnlyActor
<1>3. ~host.chain => "allow" \notin host.sets
  BY <1>1, <1>2 DEF Local, Consistent
<1>4. Refilled(r)' /\ \A step \in {"install", "undo", "move"} : run'[r].at = step => ~(run'[r].at = "idle")
  BY <1>1 DEF Refilled
<1>5. CASE Succeeds(InstallCommands, r) /\ Advance(r)
  <2> DEFINE i == run[r].i
  <2>1. run'[r].at = "install" /\ run'[r].i = i + 1 /\ run'[r].ips = run[r].ips
    BY <1>1, <1>5 DEF Advance, RunType
  <2>2. i \in 1..11
    BY <1>1, <1>5, InstallEffect
  <2>3. /\ i > 4 => host.chain
        /\ i = 5 => "allow" \notin host.sets
        /\ i > 4 /\ i < 7 => host.nat = 0
        /\ i > 4 /\ i < 8 => host.jump = 0
        /\ i > 4 /\ i < 12 => host.allow = {}
        /\ run[r].ips \in resolved[r]
    BY <1>1, <2>2 DEF Local, Built
  <2>4. /\ host.jump \in {0, 1} /\ host.nat \in {0, 1}
        /\ ~host.chain => host.jump = 0 /\ host.nat = 0 /\ host.rules = {}
        /\ "allow" \notin host.sets => host.allow = {}
    BY DEF Local, Consistent
  <2>5. /\ host'.chain <=> host.chain \/ i = 4
        /\ i = 4 => ~host.chain
        /\ i = 7 => host'.jump = host.jump + 1
        /\ i # 7 => host'.jump = host.jump
        /\ i = 6 => host'.nat = host.nat + 1
        /\ i # 6 => host'.nat = host.nat
        /\ i \notin {9, 10} => host'.rules = host.rules
        /\ "allow" \in host'.sets <=> "allow" \in host.sets \/ i = 5
        /\ i = 11 => host'.allow = host.allow \cup run[r].ips
        /\ i # 11 => host'.allow = host.allow
    BY <1>1, <1>5, InstallEffect
  <2> HIDE DEF i
  <2>6. host'.jump \in {0, 1} /\ host'.nat \in {0, 1}
    BY <2>2, <2>3, <2>4, <2>5
  <2>7. /\ ~host'.chain => host'.jump = 0 /\ host'.nat = 0 /\ host'.rules = {}
        /\ ~host'.chain => "allow" \notin host'.sets
        /\ "allow" \notin host'.sets => host'.allow = {}
    <3>1. ~host'.chain => i < 4 /\ ~host.chain
      BY <2>2, <2>3, <2>5
    <3>2. "allow" \notin host'.sets => host'.allow = {}
      <4>1. i = 11 => "allow" \in host.sets
        BY <1>5, Programs DEF Succeeds, Works, i
      <4> QED
        BY <2>4, <2>5, <4>1
    <3> QED
      BY <1>3, <2>2, <2>4, <2>5, <3>1, <3>2
  <2>8. Consistent'
    BY <2>6, <2>7 DEF Consistent
  <2>9. Built(r)'
    <3>1. /\ i + 1 > 4 => host'.chain
          /\ i + 1 = 5 => "allow" \notin host'.sets
      BY <1>3, <2>2, <2>3, <2>5
    <3>2. /\ i + 1 > 4 /\ i + 1 < 7 => host'.nat = 0
          /\ i + 1 > 4 /\ i + 1 < 8 => host'.jump = 0
      BY <2>2, <2>3, <2>4, <2>5
    <3>3. i + 1 > 4 /\ i + 1 < 12 => host'.allow = {}
      BY <1>3, <2>2, <2>3, <2>4, <2>5
    <3>4. i + 1 > 11 => host'.allow = run[r].ips
      BY <2>2, <2>3, <2>5
    <3> QED
      BY <1>1, <2>1, <2>2, <2>3, <3>1, <3>2, <3>3, <3>4 DEF Built
  <2> QED
    BY <1>4, <2>1, <2>8, <2>9 DEF Local, Undone
<1>6. CASE Goto(r, "undo") /\ UNCHANGED host
  <2>1. run'[r].at = "undo" /\ run'[r].i = 1 /\ run'[r].ips = run[r].ips
    BY <1>1, <1>6 DEF Goto, RunType
  <2>2. Consistent'
    BY <1>1, <1>6, QuietHost DEF Local
  <2> QED
    BY <1>1, <1>4, <2>1, <2>2 DEF Local, Undone, Built
<1>7. CASE run[r].i > Len(InstallCommands) /\ Goto(r, "move") /\ UNCHANGED host
  <2>1. run'[r].at = "move" /\ run'[r].i = 1 /\ run'[r].ips = run[r].ips
    BY <1>1, <1>7 DEF Goto, RunType
  <2>2. Consistent'
    BY <1>1, <1>7, QuietHost DEF Local
  <2>3. run[r].i > 11
    BY <1>7, InstallPrograms
  <2> QED
    BY <1>1, <1>4, <1>7, <2>1, <2>2, <2>3 DEF Local, Undone, Built
<1> QED
  BY <1>5, <1>6, <1>7 DEF Install, Fails

LEMMA MoveTidy ==
    ASSUME TypeOK, AloneInv, PhaseInv, Tidy, NEW r \in Runs, Local(r), Move(r)
    PROVE  /\ Local(r)'
           /\ \/ run'[r].at = "move" /\ run'[r].i = run[r].i + 1 /\ run'[r].saved = run[r].saved
                 /\ run[r].i \in {1, 2} /\ Works(MoveCommands[run[r].i], r)
                 /\ host'.link = IF run[r].i = 1 THEN r ELSE host.link
              \/ run'[r].at = "undo" /\ run'[r].i = 1 /\ run[r].i \in {1, 2}
                 /\ ("move" \in faults \/ ~Works(MoveCommands[run[r].i], r))
              \/ run'[r].at = "attach" /\ run'[r].saved = run[r].saved /\ UNCHANGED host
<1>1. /\ run \in [Runs -> RunType] /\ run[r].i \in Nat \ {0} /\ run[r].at = "move"
      /\ resolved' = resolved /\ refresher \in [Runs -> RefresherType]
      /\ Step(r) /\ Busy(r) /\ refresher[r].at = "off"
      /\ host.allow \in resolved[r] /\ run[r].ips \in resolved[r]
  <2>1. run[r].at = "move" /\ resolved' = resolved /\ Step(r) /\ Busy(r)
    BY DEF Move, Step, RunStep, Busy
  <2> QED
    BY <2>1 DEF TypeOK, RunType, PhaseInv, Local, Refilled, Built
<1>2. CASE Succeeds(MoveCommands, r) /\ Advance(r) /\ UNCHANGED refresher
  <2>1. run'[r].at = "move" /\ run'[r].i = run[r].i + 1 /\ run'[r].ips = run[r].ips
        /\ run'[r].saved = run[r].saved
    BY <1>1, <1>2 DEF Advance, RunType
  <2>2. /\ run[r].i \in {1, 2} /\ host' = Effect(MoveCommands[run[r].i], r)
        /\ Works(MoveCommands[run[r].i], r)
    BY <1>1, <1>2, InstallPrograms DEF Succeeds
  <2>3. /\ host'.jump = host.jump /\ host'.nat = host.nat /\ host'.rules = host.rules
        /\ (host'.chain <=> host.chain) /\ host'.sets = host.sets /\ host'.allow = host.allow
        /\ host'.link = IF run[r].i = 1 THEN r ELSE host.link
    BY <2>2, Programs, EffectParts
  <2>4. Consistent'
    BY <1>1, <2>3, QuietHost DEF Local
  <2> QED
    BY <1>1, <1>2, <2>1, <2>2, <2>3, <2>4 DEF Local, Built, Undone, Refilled
<1>3. CASE /\ run' = [run EXCEPT ![r].at = "undo", ![r].i = 1, ![r].saved = "unset"]
           /\ Fails(MoveCommands, r, "move")
           /\ UNCHANGED refresher
  <2>1. run'[r].at = "undo" /\ run'[r].i = 1 /\ run'[r].ips = run[r].ips
    <3>1. run'[r] = [run[r] EXCEPT !.at = "undo", !.i = 1, !.saved = "unset"]
      BY <1>1, <1>3
    <3> QED
      BY <1>1, <3>1 DEF RunType
  <2>2. Consistent'
    BY <1>1, <1>3, QuietHost DEF Local, Fails
  <2>3. run[r].i \in {1, 2} /\ ("move" \in faults \/ ~Works(MoveCommands[run[r].i], r))
    BY <1>1, <1>3, InstallPrograms DEF Fails
  <2> QED
    BY <1>1, <1>3, <2>1, <2>2, <2>3 DEF Local, Built, Undone, Refilled
<1>4. CASE Goto(r, "attach") /\ UNCHANGED host
           /\ refresher' = IF "refresher" \in faults
                           THEN [refresher EXCEPT ![r].at = "sleep"] ELSE refresher
  <2>1. run'[r].at = "attach" /\ run'[r].i = 1 /\ run'[r].ips = run[r].ips
        /\ run'[r].saved = run[r].saved
    BY <1>1, <1>4 DEF Goto, RunType
  <2>2. Consistent'
    BY <1>1, <1>4, QuietHost DEF Local
  <2>3. refresher'[r].at \in {"off", "sleep"}
    BY <1>1, <1>4 DEF RefresherType
  <2> QED
    BY <1>1, <1>4, <2>1, <2>2, <2>3 DEF Local, Built, Undone, Refilled
<1> QED
  BY <1>2, <1>3, <1>4 DEF Move

LEMMA UndoTidy ==
    ASSUME TypeOK, AloneInv, PhaseInv, Tidy, NEW r \in Runs, Local(r), Undo(r)
    PROVE  /\ Local(r)'
           /\ \/ run'[r].at = "undo" /\ run'[r].saved = run[r].saved
              \/ /\ run'[r].at = IF run[r].saved = "unset" THEN "scope" ELSE "restore"
                 /\ run'[r].saved = run[r].saved /\ UNCHANGED host
                 /\ ~host.chain /\ "allow" \notin host.sets /\ host.link = "none"
<1>1. /\ run \in [Runs -> RunType] /\ run[r].i \in Nat \ {0} /\ run[r].at = "undo"
      /\ resolved' = resolved /\ refresher' = refresher
      /\ Step(r) /\ Busy(r) /\ run[r].ips \in resolved[r]
      /\ host.jump \in {0, 1} /\ host.nat \in {0, 1} /\ "undo" \notin faults
  <2>1. run[r].at = "undo" /\ resolved' = resolved /\ refresher' = refresher /\ Step(r) /\ Busy(r)
    BY DEF Undo, Step, RunStep, Busy
  <2> QED
    BY <2>1 DEF TypeOK, RunType, PhaseInv, Local, Built, Consistent, Tidy
<1>2. \A s \in Runs \ {r} : run'[s] = run[s] /\ run[s].at # "undo"
  BY <1>1, OnlyActor
<1>3. /\ run[r].i > 1 => host.jump = 0
      /\ run[r].i > 2 => host.nat = 0
      /\ run[r].i > 3 => host.rules = {}
      /\ run[r].i > 4 => ~host.chain
      /\ run[r].i > 5 => "allow" \notin host.sets
      /\ run[r].i > 6 => host.link = "none"
      /\ "allow" \notin host.sets => host.allow = {}
      /\ ~host.chain => host.jump = 0 /\ host.nat = 0 /\ host.rules = {}
      /\ ~host.chain /\ "allow" \in host.sets => run[r].i = 5
  BY <1>1, <1>2 DEF Local, Undone, Consistent
<1>4. CASE (Succeeds(UndoCommands, r) \/ Fails(UndoCommands, r, "undo")) /\ Advance(r)
  <2> DEFINE i == run[r].i
  <2>1. run'[r].at = "undo" /\ run'[r].i = i + 1 /\ run'[r].ips = run[r].ips
        /\ run'[r].saved = run[r].saved
    BY <1>1, <1>4 DEF Advance, RunType
  <2>2. /\ i \in 1..6
        /\ i = 1 => host'.jump = 0
        /\ i # 1 => host'.jump = host.jump
        /\ i = 2 => host'.nat = 0
        /\ i # 2 => host'.nat = host.nat
        /\ i = 3 => host'.rules = {} \/ (host'.rules = host.rules /\ ~host.chain)
        /\ i # 3 => host'.rules = host.rules
        /\ host'.chain => host.chain
        /\ i = 4 /\ host.rules = {} /\ host.jump = 0 => ~host'.chain
        /\ i # 4 => (host'.chain <=> host.chain)
        /\ i = 5 /\ host.rules = {} => "allow" \notin host'.sets
        /\ i # 5 => host'.sets = host.sets
        /\ host'.allow = {} \/ (host'.allow = host.allow /\ host'.sets = host.sets)
        /\ i = 6 => host'.link = "none"
        /\ i # 6 => host'.link = host.link
        /\ host'.next = host.next
    BY <1>1, <1>4, UndoEffect
  <2>3. /\ i > 1 => host.jump = 0
        /\ i > 2 => host.nat = 0
        /\ i > 3 => host.rules = {}
        /\ i > 4 => ~host.chain
        /\ i > 5 => "allow" \notin host.sets
        /\ i > 6 => host.link = "none"
        /\ ~host.chain /\ "allow" \in host.sets => i = 5
    BY <1>3
  <2> HIDE DEF i
  <2>4. /\ i + 1 > 1 => host'.jump = 0
        /\ i + 1 > 2 => host'.nat = 0
        /\ i + 1 > 3 => host'.rules = {}
    BY <1>3, <2>2, <2>3
  <2>5. i + 1 > 4 => ~host'.chain
    BY <2>2, <2>3
  <2>6. /\ i + 1 > 5 => "allow" \notin host'.sets
        /\ i + 1 > 6 => host'.link = "none"
    BY <2>2, <2>3
  <2>7. Undone(r)'
    BY <2>1, <2>4, <2>5, <2>6 DEF Undone
  <2>8. /\ host'.jump \in {0, 1} /\ host'.nat \in {0, 1}
        /\ "allow" \notin host'.sets => host'.allow = {}
        /\ ~host'.chain => host'.jump = 0 /\ host'.nat = 0 /\ host'.rules = {}
    <3>1. host'.jump \in {0, 1} /\ host'.nat \in {0, 1}
      BY <1>1, <2>2
    <3>2. "allow" \notin host'.sets => host'.allow = {}
      BY <1>3, <2>2
    <3>3. ~host'.chain => host'.jump = 0 /\ host'.nat = 0 /\ host'.rules = {}
      <4>1. ~host'.chain => ~host.chain \/ i = 4
        BY <2>2
      <4>2. i = 4 => host'.jump = 0 /\ host'.nat = 0 /\ host'.rules = {}
        BY <2>4
      <4>3. ~host.chain => host'.jump = 0 /\ host'.nat = 0 /\ host'.rules = {}
        BY <1>3, <2>2
      <4> QED
        BY <4>1, <4>2, <4>3
    <3> QED
      BY <3>1, <3>2, <3>3
  <2>9. ~host'.chain /\ "allow" \in host'.sets => i = 4
    BY <2>2, <2>3
  <2>10. Consistent'
    BY <2>1, <2>8, <2>9 DEF Consistent
  <2> QED
    BY <1>1, <2>1, <2>2, <2>7, <2>10 DEF Local, Built, Refilled
<1>5. CASE run[r].i > 6 /\ UNCHANGED host
           /\ Goto(r, IF run[r].saved = "unset" THEN "scope" ELSE "restore")
  <2>1. /\ run'[r].at = IF run[r].saved = "unset" THEN "scope" ELSE "restore"
        /\ run'[r].ips = run[r].ips /\ run'[r].saved = run[r].saved
    BY <1>1, <1>5 DEF Goto, RunType
  <2>2. ~host.chain /\ "allow" \notin host.sets /\ host.link = "none" /\ run[r].i # 5
    BY <1>1, <1>3, <1>5
  <2>3. Consistent'
    BY <1>1, <1>5, <2>2, QuietHost DEF Local
  <2> QED
    BY <1>1, <1>5, <2>1, <2>2, <2>3 DEF Local, Built, Undone, Refilled
<1> QED
  BY <1>4, <1>5, InstallPrograms DEF Undo

\* The steps of a run that leave rules and sets alone.
LEMMA StageTidy ==
    ASSUME TypeOK, AloneInv, PhaseInv, Tidy, NEW r \in Runs, Local(r),
           Begin(r) \/ Attach(r) \/ Wait(r) \/ StopRefresh(r) \/ Restore(r) \/ EndScope(r)
    PROVE  Local(r)'
<1>1. /\ run \in [Runs -> RunType] /\ run[r].i \in Nat \ {0} /\ refresher \in [Runs -> RefresherType]
      /\ resolved \in [Runs -> SUBSET Resolutions]
      /\ Step(r) /\ (Busy(r) \/ Begin(r)) /\ run[r].at # "undo"
      /\ run[r].at = "idle" => run[r].i = 1 /\ refresher[r].at = "off"
  <2>1. Step(r) /\ (Busy(r) \/ Begin(r)) /\ run[r].at # "undo"
    BY DEF Begin, Attach, Wait, StopRefresh, Restore, EndScope, Step, RunStep, Busy
  <2> QED
    BY <2>1 DEF TypeOK, RunType, PhaseInv
<1>2. /\ host'.jump = host.jump /\ host'.nat = host.nat /\ host'.rules = host.rules
      /\ (host'.chain <=> host.chain) /\ host'.sets = host.sets /\ host'.allow = host.allow
      /\ host'.next = host.next
  BY DEF Begin, Attach, Wait, StopRefresh, Restore, EndScope, TypeOK, HostType
<1>3. Consistent'
  BY <1>1, <1>2, QuietHost DEF Local
<1>4. /\ run'[r].ips = run[r].ips
      /\ \/ Begin(r) /\ run'[r].at = "install" /\ run'[r].i = 1
         \/ run[r].at \in {"attach", "wait"} /\ run'[r].at \in {"wait", "cancel", "abandon"}
            /\ resolved' = resolved /\ refresher' = refresher
         \/ run[r].at \in {"cancel", "abandon"} /\ run'[r].at \in {"undo", "scope"} /\ run'[r].i = 1
            /\ StopRefresh(r) /\ resolved' = resolved
         \/ run[r].at \in {"restore", "scope"} /\ run'[r].at \in {"scope", "over"}
            /\ resolved' = resolved /\ refresher' = refresher
  <2> USE <1>1 DEF RunType, Goto
  <2>1. CASE Begin(r)
    BY <2>1 DEF Begin
  <2>2. CASE Attach(r)
    BY <2>2 DEF Attach
  <2>3. CASE Wait(r)
    BY <2>3 DEF Wait
  <2>4. CASE StopRefresh(r)
    BY <2>4 DEF StopRefresh
  <2>5. CASE Restore(r)
    BY <2>5 DEF Restore
  <2>6. CASE EndScope(r)
    BY <2>6 DEF EndScope
  <2> QED
    BY <2>1, <2>2, <2>3, <2>4, <2>5, <2>6
<1>5. CASE Begin(r)
  <2>1. run'[r].at = "install" /\ run'[r].i = 1 /\ refresher' = refresher /\ run[r].at = "idle"
        /\ run[r].ips \in resolved'[r]
    <3>1. run' = [run EXCEPT ![r].at = "install", ![r].saved = host.forward] /\ refresher' = refresher
          /\ run[r].at = "idle"
          /\ resolved' = [resolved EXCEPT ![r] = @ \cup {run[r].ips}]
      BY <1>5 DEF Begin
    <3>2. run'[r].at = "install" /\ run'[r].i = run[r].i
      BY <1>1, <3>1 DEF RunType
    <3> QED
      BY <1>1, <3>1, <3>2
  <2> QED
    BY <1>1, <1>3, <1>4, <2>1 DEF Local, Built, Undone, Refilled
<1>6. CASE run[r].at \in {"attach", "wait"} /\ run'[r].at \in {"wait", "cancel", "abandon"}
           /\ resolved' = resolved /\ refresher' = refresher
  BY <1>2, <1>3, <1>4, <1>6 DEF Local, Built, Undone, Refilled
<1>7. CASE run[r].at \in {"cancel", "abandon"} /\ run'[r].at \in {"undo", "scope"} /\ run'[r].i = 1
           /\ StopRefresh(r) /\ resolved' = resolved
  <2>1. \/ refresher'[r].at = "off"
        \/ /\ refresher'[r].at = refresher[r].at /\ refresher'[r].ips = refresher[r].ips
           /\ refresher'[r].todo = refresher[r].todo
    BY <1>1, <1>7 DEF StopRefresh, Stopped, Idle, RefresherType
  <2> QED
    BY <1>2, <1>3, <1>4, <1>7, <2>1 DEF Local, Built, Undone, Refilled
<1>8. CASE run[r].at \in {"restore", "scope"} /\ run'[r].at \in {"scope", "over"}
           /\ resolved' = resolved /\ refresher' = refresher
  BY <1>2, <1>3, <1>4, <1>8 DEF Local, Built, Undone, Refilled
<1> QED
  BY <1>4, <1>5, <1>6, <1>7, <1>8

LEMMA AgentTidy ==
    ASSUME TypeOK, Tidy, NEW r \in Runs, NEW s \in Runs, Local(s), AgentStep(r)
    PROVE  Local(s)'
<1>1. /\ UNCHANGED <<run, refresher, resolved>>
      /\ host'.jump = host.jump /\ host'.nat = host.nat /\ host'.rules = host.rules
      /\ (host'.chain <=> host.chain) /\ host'.sets = host.sets /\ host'.allow = host.allow
      /\ host'.next = host.next /\ host'.link \in {host.link, "none"}
  BY DEF AgentStep, AgentExits, StrayExits, NamespaceGone, TypeOK, HostType
<1> QED
  BY <1>1 DEF Local, Consistent, Built, Undone, Refilled

\* The refresher touches nothing but the sets, and never makes or destroys the
\* one in use.
LEMMA RefreshHost ==
    ASSUME TypeOK, NEW r \in Runs, RefreshStep(r)
    PROVE  /\ host'.jump = host.jump /\ host'.nat = host.nat /\ host'.rules = host.rules
           /\ (host'.chain <=> host.chain) /\ host'.link = host.link /\ host'.forward = host.forward
           /\ ("allow" \in host'.sets <=> "allow" \in host.sets)
           /\ UNCHANGED <<run, agent>>
<1>1. host \in HostType
  BY DEF TypeOK
<1>2. CASE RefreshCreate(r)
  BY <1>1, <1>2 DEF RefreshCreate, HostType
<1>3. CASE RefreshFlush(r)
  BY <1>1, <1>3 DEF RefreshFlush, HostType
<1>4. CASE RefreshSwap(r)
  BY <1>1, <1>4 DEF RefreshSwap, HostType
<1>5. CASE \E a \in Address : RefreshAdd(r, a)
  BY <1>1, <1>5 DEF RefreshAdd, HostType
<1>6. CASE RefreshDestroy(r)
  <2>1. host'.sets = host.sets \ {"next"}
    BY <1>1, <1>6 DEF RefreshDestroy, HostType
  <2>2. host'.jump = host.jump /\ host'.nat = host.nat /\ host'.rules = host.rules
           /\ (host'.chain <=> host.chain) /\ host'.link = host.link /\ host'.forward = host.forward
    BY <1>1, <1>6 DEF RefreshDestroy, HostType
  <2> QED
    BY <1>6, <2>1, <2>2 DEF RefreshDestroy
<1>7. CASE RefreshFails(r) \/ \E ips \in Resolutions : Resolve(r, ips)
  BY <1>7 DEF RefreshFails, Resolve
<1> QED
  BY <1>2, <1>3, <1>4, <1>5, <1>6, <1>7 DEF RefreshStep

LEMMA RefreshTidy ==
    ASSUME TypeOK, AloneInv, PhaseInv, Tidy, NEW r \in Runs, Local(r), RefreshStep(r)
    PROVE  Local(r)'
<1>1. /\ run \in [Runs -> RunType] /\ refresher \in [Runs -> RefresherType]
      /\ resolved \in [Runs -> SUBSET Resolutions] /\ host \in HostType
      /\ run' = run /\ refresher[r].at # "off" /\ run[r].at \notin {"idle", "install", "move"}
  <2>1. run' = run /\ refresher[r].at # "off"
    BY DEF RefreshStep, Resolve, RefreshCreate, RefreshFlush, RefreshAdd, RefreshSwap, RefreshDestroy,
        RefreshFails, RefreshSteps
  <2> QED
    BY <2>1 DEF TypeOK, Local, Refilled
<1>2. /\ host'.jump = host.jump /\ host'.nat = host.nat /\ host'.rules = host.rules
      /\ (host'.chain <=> host.chain) /\ host'.link = host.link
      /\ ("allow" \in host'.sets <=> "allow" \in host.sets)
  BY <1>1, RefreshHost
<1>3. ASSUME NEW next
      PROVE  \/ Resume(r, next).at \in {"off", "sleep"}
             \/ Resume(r, next) = next
  BY DEF Resume, Idle
<1>4. \A step : /\ [refresher[r] EXCEPT !.at = step].at = step
                /\ [refresher[r] EXCEPT !.at = step].ips = refresher[r].ips
                /\ [refresher[r] EXCEPT !.at = step].todo = refresher[r].todo
  BY <1>1 DEF RefresherType
<1>11. ASSUME NEW step,
              refresher' = [refresher EXCEPT ![r] = Resume(r, [@ EXCEPT !.at = step])]
       PROVE  \/ refresher'[r].at \in {"off", "sleep"}
              \/ refresher'[r].at = step /\ refresher'[r].ips = refresher[r].ips
                 /\ refresher'[r].todo = refresher[r].todo
  <2> DEFINE next == [refresher[r] EXCEPT !.at = step]
  <2>1. refresher'[r] = Resume(r, next)
    BY <1>1, <1>11
  <2>2. next.at = step /\ next.ips = refresher[r].ips /\ next.todo = refresher[r].todo
    BY <1>4
  <2> HIDE DEF next
  <2>3. refresher'[r].at \in {"off", "sleep"} \/ refresher'[r] = next
    BY <1>3, <2>1
  <2> QED
    BY <2>2, <2>3
<1>5. host'.allow = host.allow => Consistent' /\ Undone(r)'
  BY <1>1, <1>2 DEF Local, Consistent, Undone
<1>6. host'.allow = host.allow /\ resolved' = resolved => Built(r)'
  BY <1>1, <1>2 DEF Local, Built
<1>7. ASSUME NEW ips \in Resolutions, Resolve(r, ips)
      PROVE  Local(r)'
  <2>1. /\ host' = host /\ resolved' = [resolved EXCEPT ![r] = @ \cup {ips}]
        /\ refresher' = [refresher EXCEPT ![r] = [at |-> "create", ips |-> ips, todo |-> ips,
                                                  cancelled |-> FALSE]]
    BY <1>7 DEF Resolve
  <2>2. /\ resolved[r] \subseteq resolved'[r] /\ ips \in resolved'[r]
        /\ refresher'[r].at = "create" /\ refresher'[r].ips = ips /\ refresher'[r].todo = ips
    BY <1>1, <2>1
  <2>3. Built(r)'
    BY <1>1, <2>1, <2>2 DEF Local, Built
  <2>4. Refilled(r)'
    BY <1>1, <2>2 DEF Refilled
  <2> QED
    BY <1>5, <2>1, <2>3, <2>4 DEF Local
<1>8. CASE RefreshCreate(r) \/ RefreshFlush(r) \/ RefreshDestroy(r) \/ RefreshFails(r)
  <2>1. host'.allow = host.allow /\ resolved' = resolved
    BY <1>1, <1>8 DEF RefreshCreate, RefreshFlush, RefreshDestroy, RefreshFails, HostType
  <2>2. \/ refresher'[r].at \in {"off", "sleep"}
        \/ refresher'[r].at = "flush" /\ refresher[r].at = "create"
           /\ refresher'[r].ips = refresher[r].ips /\ refresher'[r].todo = refresher[r].todo
        \/ RefreshFlush(r) /\ refresher'[r].at = "add" /\ refresher[r].at = "flush"
           /\ refresher'[r].ips = refresher[r].ips /\ refresher'[r].todo = refresher[r].todo
    <3>1. CASE RefreshCreate(r)
      BY <1>11, <3>1 DEF RefreshCreate
    <3>2. CASE RefreshFlush(r)
      BY <1>11, <3>2 DEF RefreshFlush
    <3>3. CASE RefreshDestroy(r) \/ RefreshFails(r)
      <4>1. refresher' = [refresher EXCEPT ![r] = Resume(r, [@ EXCEPT !.at = "sleep"])]
        BY <3>3 DEF RefreshDestroy, RefreshFails
      <4> QED
        BY <1>11, <4>1
    <3> QED
      BY <1>8, <3>1, <3>2, <3>3
  <2>3. RefreshFlush(r) => host'.next = {}
    BY <1>1 DEF RefreshFlush, HostType
  <2>4. Refilled(r)'
    BY <1>1, <2>1, <2>2, <2>3 DEF Local, Refilled
  <2> QED
    BY <1>5, <1>6, <2>1, <2>4 DEF Local
<1>9. ASSUME NEW a \in Address, RefreshAdd(r, a)
      PROVE  Local(r)'
  <2>1. /\ host'.allow = host.allow /\ resolved' = resolved /\ host'.next = host.next \cup {a}
        /\ refresher[r].at = "add" /\ a \in refresher[r].todo
    BY <1>1, <1>9 DEF RefreshAdd, HostType
  <2>2. /\ Added(r, a).ips = refresher[r].ips /\ Added(r, a).todo = refresher[r].todo \ {a}
        /\ Added(r, a).at \in {"add", "swap"}
        /\ Added(r, a).at = "swap" => refresher[r].todo \ {a} = {}
    BY <1>1 DEF Added, RefresherType
  <2>3. refresher'[r] = Resume(r, Added(r, a))
    BY <1>1, <1>9 DEF RefreshAdd
  <2>4. refresher'[r].at \in {"off", "sleep"} \/ refresher'[r] = Added(r, a)
    BY <1>3, <2>3
  <2>5. host.next = refresher[r].ips \ refresher[r].todo /\ refresher[r].todo \subseteq refresher[r].ips
        /\ refresher[r].ips \in resolved[r]
    BY <2>1 DEF Local, Refilled
  <2>6. host'.next = refresher[r].ips \ (refresher[r].todo \ {a})
    BY <2>1, <2>5
  <2>7. Refilled(r)'
    BY <1>1, <2>1, <2>2, <2>4, <2>5, <2>6 DEF Refilled
  <2> QED
    BY <1>5, <1>6, <2>1, <2>7 DEF Local
<1>10. CASE RefreshSwap(r)
  <2>1. /\ host'.allow = host.next /\ resolved' = resolved /\ host'.next = host.allow
        /\ refresher[r].at = "swap" /\ "allow" \in host.sets /\ host'.sets = host.sets
    BY <1>1, <1>10 DEF RefreshSwap, HostType
  <2>2. host.next \in resolved[r]
    BY <2>1 DEF Local, Refilled
  <2>3. \/ refresher'[r].at \in {"off", "sleep"}
        \/ refresher'[r].at = "destroy" /\ refresher'[r].ips = refresher[r].ips
           /\ refresher'[r].todo = refresher[r].todo
    BY <1>11, <1>10 DEF RefreshSwap
  <2>4. Refilled(r)'
    BY <1>1, <2>1, <2>3 DEF Local, Refilled
  <2>5. Built(r)'
    BY <1>1, <2>1, <2>2 DEF Local, Built
  <2>6. Consistent' /\ Undone(r)'
    BY <1>1, <1>2, <2>1 DEF Local, Consistent, Undone
  <2> QED
    BY <2>4, <2>5, <2>6 DEF Local
<1> QED
  BY <1>7, <1>8, <1>9, <1>10 DEF RefreshStep

LEMMA ActorTidy ==
    ASSUME IInv, Tidy, NEW r \in Runs, Local(r), Step(r)
    PROVE  Local(r)'
<1> USE DEF IInv
<1>1. CASE RunStep(r)
  <2>1. ~RunKilled(r)
    BY DEF Tidy, RunKilled
  <2> QED
    BY <1>1, <2>1, InstallTidy, MoveTidy, UndoTidy, StageTidy DEF RunStep
<1>2. CASE AgentStep(r)
  BY <1>2, AgentTidy
<1>3. CASE RefreshStep(r)
  BY <1>3, RefreshTidy
<1> QED
  BY <1>1, <1>2, <1>3 DEF Step

\* A namespace that goes is the business of a run that has ended.
LEMMA WhoActs ==
    ASSUME NEW r \in Runs, Step(r)
    PROVE  AgentStep(r) \/ Busy(r) \/ Begin(r)
  BY Actor DEF AgentStep

LEMMA HostStep ==
    ASSUME IInv, HostInv, Next
    PROVE  HostInv'
<1> SUFFICES ASSUME Tidy
             PROVE  Consistent' /\ \A s \in Runs : Built(s)' /\ Undone(s)' /\ Refilled(s)'
  BY DEF HostInv, Next, Tidy
<1>1. PICK r \in Runs : Step(r)
  BY DEF Next, Step
<1>2. \A s \in Runs : Local(s)
  BY DEF HostInv, Local
<1>3. CASE AgentStep(r)
  <2>1. \A s \in Runs : Local(s)'
    BY <1>2, <1>3, AgentTidy DEF IInv
  <2> QED
    BY <2>1 DEF Local
<1>4. CASE Busy(r) \/ Begin(r)
  <2>1. Local(r)'
    BY <1>1, <1>2, ActorTidy
  <2>2. ASSUME NEW s \in Runs \ {r}
        PROVE  Built(s)' /\ Undone(s)' /\ Refilled(s)'
    <3>1. /\ run'[s] = run[s] /\ refresher'[s] = refresher[s]
          /\ run[s].at \in {"idle", "over", "killed"} /\ refresher[s].at = "off"
      BY <1>1, <1>4, OnlyActor, OthersStay DEF IInv, Busy
    <3>2. resolved[s] \subseteq resolved'[s]
      BY <1>1, ResolvedGrows DEF IInv
    <3> QED
      BY <1>2, <3>1, <3>2 DEF Local, Built, Undone, Refilled
  <2> QED
    BY <2>1, <2>2 DEF Local
<1> QED
  BY <1>1, <1>3, <1>4, WhoActs

-----------------------------------------------------------------------------
(* The host is given back *)

\* What a run of an orderly host does to the link and to forwarding.
LEMMA ActorKeeps ==
    ASSUME IInv, Orderly, NEW r \in Runs, RunStep(r), Local(r), Kept(r),
           \A s \in Runs \ {r} : run'[s] = run[s],
           Begin(r) => host.forward = "off",
           run[r].at \in {"scope", "over"} /\ (\A s \in Runs : run[s].at \in {"idle", "scope", "over"})
             => Empty /\ host.forward = "off"
    PROVE  /\ Kept(r)'
           /\ run'[r].at \in {"idle", "scope", "over"}
                /\ (\A s \in Runs : run'[s].at \in {"idle", "scope", "over"})
              => (Empty /\ host.forward = "off")'
<1>1. /\ run \in [Runs -> RunType] /\ agent \in [Runs -> Agents] /\ host \in HostType
      /\ run[r].i \in Nat \ {0} /\ Tidy /\ TypeOK /\ AloneInv /\ PhaseInv
      /\ run[r].at = "idle" => run[r].i = 1
      /\ "move" \notin faults /\ "attach" \notin faults /\ "undo" \notin faults /\ "kill" \notin faults
  BY DEF IInv, TypeOK, RunType, PhaseInv, Orderly, Tidy
<1>2. \A step : Goto(r, step) => run'[r].at = step /\ run'[r].i = 1 /\ run'[r].saved = run[r].saved
  BY <1>1 DEF Goto, RunType
<1>3. Advance(r) => run'[r].at = run[r].at /\ run'[r].i = run[r].i + 1 /\ run'[r].saved = run[r].saved
  BY <1>1 DEF Advance, RunType
<1>4. CASE Begin(r)
  <2>1. /\ run' = [run EXCEPT ![r].at = "install", ![r].saved = host.forward]
        /\ agent'[r] = "gated" /\ run[r].at = "idle" /\ host.forward = "off"
    BY <1>1, <1>4 DEF Begin
  <2>2. run'[r].at = "install" /\ run'[r].saved = "off" /\ run'[r].i = 1
    BY <1>1, <2>1 DEF RunType
  <2> QED
    BY <2>1, <2>2 DEF Kept
<1>5. CASE Install(r)
  <2>1. run[r].at = "install" /\ agent' = agent /\ run[r].saved = "off" /\ agent[r] = "gated"
    BY <1>5 DEF Install, Kept
  <2>2. CASE Succeeds(InstallCommands, r) /\ Advance(r)
    <3>1. /\ run[r].i = 1 => host'.link = "host"
          /\ run[r].i # 1 => host'.link = host.link
      BY <1>1, <2>2, InstallEffect
    <3>2. run[r].i # 1 => host.link = "host"
      BY <1>1, <2>1 DEF Kept
    <3> QED
      BY <1>3, <2>1, <2>2, <3>1, <3>2 DEF Kept
  <2>3. CASE Goto(r, "undo")
    BY <1>2, <2>1, <2>3 DEF Kept
  <2>4. CASE run[r].i > Len(InstallCommands) /\ Goto(r, "move") /\ UNCHANGED host
    <3>1. host.link = "host"
      BY <1>1, <2>1, <2>4, InstallPrograms DEF Kept
    <3> QED
      BY <1>2, <2>1, <2>4, <3>1 DEF Kept
  <2> QED
    BY <1>5, <2>2, <2>3, <2>4 DEF Install
<1>6. CASE Move(r)
  <2>1. /\ agent' = agent /\ run[r].saved = "off" /\ agent[r] = "gated" /\ run[r].at = "move"
        /\ run[r].i = 1 => host.link = "host"
        /\ run[r].i = 2 => host.link = r
    BY <1>6 DEF Move, Kept
  <2>2. run[r].i \in {1, 2} => Works(MoveCommands[run[r].i], r)
    BY <2>1, Programs DEF Works
  <2>3. \/ /\ run'[r].at = "move" /\ run'[r].i = run[r].i + 1 /\ run'[r].saved = "off"
           /\ run[r].i \in {1, 2}
           /\ host'.link = IF run[r].i = 1 THEN r ELSE host.link
        \/ run'[r].at = "attach" /\ run'[r].saved = "off"
    BY <1>1, <1>6, <2>1, <2>2, MoveTidy
  <2> QED
    BY <2>1, <2>3 DEF Kept
<1>7. CASE Attach(r)
  <2>1. run'[r].at = "wait" /\ run'[r].saved = "off"
    BY <1>1, <1>2, <1>7 DEF Attach, Kept
  <2> QED
    BY <2>1 DEF Kept
<1>8. CASE Wait(r)
  <2>1. run'[r].at = "cancel" /\ run'[r].saved = "off"
    BY <1>2, <1>8 DEF Wait, Kept
  <2> QED
    BY <2>1 DEF Kept
<1>9. CASE StopRefresh(r)
  <2>1. run[r].at = "cancel"
    BY <1>9 DEF StopRefresh, Kept
  <2>2. run'[r].at = "undo" /\ run'[r].saved = "off"
    BY <1>2, <1>9, <2>1 DEF StopRefresh, Kept
  <2> QED
    BY <2>2 DEF Kept
<1>10. CASE Undo(r)
  <2>1. run[r].saved = "off"
    BY <1>10 DEF Undo, Kept
  <2>2. \/ run'[r].at = "undo" /\ run'[r].saved = "off"
        \/ /\ run'[r].at = "restore" /\ run'[r].saved = "off" /\ UNCHANGED host
           /\ ~host.chain /\ "allow" \notin host.sets /\ host.link = "none"
    BY <1>1, <1>10, <2>1, UndoTidy
  <2> QED
    BY <2>2 DEF Kept, Empty
<1>11. CASE Restore(r)
  <2>1. run[r].at = "restore" /\ run[r].saved = "off" /\ Empty
    BY <1>11 DEF Restore, Kept
  <2>2. host' = [host EXCEPT !.forward = "off"]
    BY <1>1, <1>11, <2>1 DEF Restore
  <2>3. Empty' /\ host'.forward = "off"
    BY <1>1, <2>1, <2>2 DEF Empty, HostType
  <2>4. run'[r].at = "scope"
    BY <1>1, <1>11 DEF Restore, RunType
  <2> QED
    BY <2>3, <2>4 DEF Kept
<1>12. CASE EndScope(r)
  <2>1. run'[r].at = "over" /\ run[r].at = "scope" /\ UNCHANGED host
    BY <1>2, <1>12 DEF EndScope
  <2>2. (\A s \in Runs : run'[s].at \in {"idle", "scope", "over"})
          => \A s \in Runs : run[s].at \in {"idle", "scope", "over"}
    BY <2>1
  <2> QED
    BY <2>1, <2>2 DEF Kept, Empty
<1> QED
  BY <1>1, <1>4, <1>5, <1>6, <1>7, <1>8, <1>9, <1>10, <1>11, <1>12 DEF RunStep, RunKilled

LEMMA ReturnStep ==
    ASSUME IInv, HostInv, ReturnInv, Next
    PROVE  ReturnInv'
<1> SUFFICES ASSUME Orderly
             PROVE  /\ \A s \in Runs : Kept(s)'
                    /\ (\A s \in Runs : run'[s].at \in {"idle", "scope", "over"})
                       => (Empty /\ host.forward = "off")'
  BY DEF ReturnInv, Next, Orderly, Tidy
<1>1. PICK r \in Runs : Step(r)
  BY DEF Next, Step
<1>2. Tidy /\ \A s \in Runs : Local(s) /\ Kept(s)
  BY DEF HostInv, ReturnInv, Orderly, Local
<1>3. (\A s \in Runs : run[s].at \in {"idle", "scope", "over"}) => Empty /\ host.forward = "off"
  BY DEF ReturnInv
<1>4. CASE AgentStep(r)
  <2>1. CASE NamespaceGone(r)
    <3>1. /\ host.link = r /\ agent[r] = "gone" /\ UNCHANGED <<run, agent>>
          /\ host.link # "none" /\ host.link # "host"
      BY <2>1, Constants DEF NamespaceGone
    <3>2. ~Empty
      BY <3>1 DEF Empty
    <3>3. \A s \in Runs : Kept(s)'
      BY <1>2, <3>1, <3>2 DEF Kept
    <3> QED
      BY <1>3, <3>1, <3>2, <3>3
  <2>2. CASE AgentExits(r) \/ StrayExits(r)
    <3>1. UNCHANGED <<run, host>> /\ \A s \in Runs : agent[s] = "gated" => agent'[s] = "gated"
      BY <2>2 DEF AgentExits, StrayExits, IInv, TypeOK
    <3> QED
      BY <1>2, <1>3, <3>1 DEF Kept, Empty
  <2> QED
    BY <1>4, <2>1, <2>2 DEF AgentStep
<1>5. CASE RefreshStep(r)
  <2>1. /\ host'.link = host.link /\ host'.forward = host.forward /\ (host'.chain <=> host.chain)
        /\ ("allow" \in host'.sets <=> "allow" \in host.sets)
        /\ UNCHANGED <<run, agent>>
    BY <1>5, RefreshHost DEF IInv
  <2> QED
    BY <1>2, <1>3, <2>1 DEF Kept, Empty
<1>6. CASE RunStep(r)
  <2>1. Busy(r) \/ Begin(r)
    BY <1>6 DEF RunStep, Busy, Install, Move, Attach, Wait, StopRefresh, Undo, Restore, EndScope, RunKilled
  <2>2. \A s \in Runs \ {r} : run'[s] = run[s] /\ run[s].at \in {"idle", "over", "killed"}
    BY <1>1, <1>2, <2>1, OnlyActor DEF IInv
  <2>3. \A s \in Runs \ {r} : run[s].at \in {"idle", "over"}
    BY <1>2, <2>2 DEF Local, Built
  <2>4. Begin(r) => host.forward = "off"
    BY <1>3, <2>3 DEF Begin
  <2>5. \A s \in Runs \ {r} : Kept(s)'
    BY <2>2, <2>3 DEF Kept
  <2>6. /\ Kept(r)'
        /\ run'[r].at \in {"idle", "scope", "over"}
             /\ (\A s \in Runs : run'[s].at \in {"idle", "scope", "over"})
           => (Empty /\ host.forward = "off")'
    BY <1>2, <1>3, <1>6, <2>2, <2>4, ActorKeeps
  <2> QED
    BY <2>5, <2>6
<1> QED
  BY <1>1, <1>4, <1>5, <1>6 DEF Step

-----------------------------------------------------------------------------
(* The theorems about the host *)

LEMMA HostInit == Init => HostInv /\ ReturnInv
<1> SUFFICES ASSUME Init PROVE HostInv /\ ReturnInv
  OBVIOUS
<1>1. \A r \in Runs : run[r].at = "idle" /\ refresher[r].at = "off"
  BY DEF Init, Idle
<1>2. Empty /\ host.forward = "off" /\ host.jump = 0 /\ host.nat = 0 /\ host.rules = {}
      /\ host.allow = {} /\ "allow" \notin host.sets
  BY DEF Init, Bare, Empty
<1> QED
  BY <1>1, <1>2 DEF HostInv, ReturnInv, Consistent, Built, Undone, Refilled, Kept

HInv == IInv /\ HostInv /\ ReturnInv

LEMMA HostInvariance == Spec => []HInv
<1>1. Init => HInv
  BY InitInv, HostInit DEF HInv
<1>2. HInv /\ [Next]_vars => HInv'
  <2> SUFFICES ASSUME HInv, [Next]_vars PROVE HInv'
    OBVIOUS
  <2>1. CASE Next
    BY <2>1, StepInv, HostStep, ReturnStep DEF HInv
  <2>2. CASE UNCHANGED vars
    <3>1. IInv'
      BY <2>2, StepInv DEF HInv
    <3>2. HostInv'
      BY <2>2 DEF vars, HInv, HostInv, Tidy, Consistent, Built, Undone, Refilled
    <3>3. ReturnInv'
      BY <2>2 DEF vars, HInv, ReturnInv, Orderly, Tidy, Kept, Empty
    <3> QED
      BY <3>1, <3>2, <3>3 DEF HInv
  <2> QED
    BY <2>1, <2>2
<1> QED
  BY <1>1, <1>2, PTL DEF Spec

\* A running agent finds on the list one whole resolution of its own domains,
\* whatever an earlier run has left on the host and however often the
\* refresher fails or is cancelled between two commands.
THEOREM ListIsWhole == Spec => []WholeResolution
<1>1. HInv => WholeResolution
  <2> SUFFICES ASSUME HInv, Tidy, NEW r \in Runs, agent[r] = "running"
               PROVE  host.allow \in resolved[r]
    BY DEF WholeResolution, Tidy
  <2>1. Built(r) /\ run[r].at \in {"wait", "killed"}
    BY DEF HInv, IInv, PhaseInv, HostInv
  <2> QED
    BY <2>1 DEF Built
<1> QED
  BY <1>1, HostInvariance, PTL

\* A run whose install fails at any command, or whose agent has ended, gives
\* the host back as it was, but for a set that a cancelled refresh was filling.
THEOREM HostIsGivenBack == Spec => []RulesRemoved
<1>1. HInv => RulesRemoved
  <2> SUFFICES ASSUME HInv, faults \cap {"move", "undo", "attach", "kill", "overlap"} = {},
                      \A r \in Runs : run[r].at \in {"idle", "over"}
               PROVE  [host EXCEPT !.next = {}, !.sets = @ \ {"next"}] = Bare
    BY DEF RulesRemoved
  <2>1. Tidy /\ Orderly
    BY DEF Orderly, Tidy
  <2>2. Empty /\ host.forward = "off"
    BY <2>1 DEF HInv, ReturnInv
  <2>3. /\ host.jump = 0 /\ host.nat = 0 /\ host.rules = {} /\ host.allow = {}
        /\ ~host.chain /\ host.link = "none" /\ "allow" \notin host.sets
    BY <2>1, <2>2 DEF HInv, HostInv, Consistent, Empty
  <2>4. host \in HostType /\ host.chain = FALSE /\ host.sets \ {"next"} = {}
    BY <2>3 DEF HInv, IInv, TypeOK, HostType
  <2> DEFINE h == [host EXCEPT !.next = {}, !.sets = @ \ {"next"}]
  <2>5. h \in HostType
    BY <2>4 DEF HostType
  <2>6. /\ h.link = "none" /\ h.forward = "off" /\ h.chain = FALSE /\ h.rules = {} /\ h.jump = 0
        /\ h.nat = 0 /\ h.sets = {} /\ h.allow = {} /\ h.next = {}
    BY <2>2, <2>3, <2>4 DEF HostType
  <2> HIDE DEF h
  <2>7. h = [link |-> h.link, forward |-> h.forward, chain |-> h.chain, rules |-> h.rules,
             jump |-> h.jump, nat |-> h.nat, sets |-> h.sets, allow |-> h.allow, next |-> h.next]
    BY <2>5 DEF HostType
  <2>8. h = Bare
    BY <2>6, <2>7, Zenon DEF Bare
  <2> QED
    BY <2>8 DEF h
<1> QED
  BY <1>1, HostInvariance, PTL
=============================================================================
