---------------------------- MODULE ProtectedRun ----------------------------
(***************************************************************************)
(* One protected run on Linux: the `rewind run` process (handleRun and the *)
(* protectedrun.Coordinator), the agent it launches into an overlay mount  *)
(* and a cgroup, the run record on disk, and the later commands that read  *)
(* that record: `rewind rollback`, `rewind recover` and `rewind commit`,   *)
(* from the command line or through the supervisor.                        *)
(*                                                                         *)
(* Nothing in the code serialises these processes: the record is read once *)
(* and written once per command, by an atomic rename and without a lock,   *)
(* and any of them may be killed between two steps.  The model has one     *)
(* action per externally visible step, so that crashes and interleavings   *)
(* fall between the same steps as in the code.                             *)
(*                                                                         *)
(* Paths, Entries: the workspace tree (see Manifests).  Through marks a    *)
(* path for which the upper layer has no entry, so that the merged view    *)
(* shows the lower one; NoEntry in the upper layer is a whiteout.          *)
(***************************************************************************)
EXTENDS Lifecycle, Manifests

CONSTANTS
    Through,     \* no entry in the upper layer
    Base,        \* the manifest of the workspace taken by runplan.Build
    Ops,         \* invocations of rollback, recover or commit
    Backend,     \* "fuse" or "kernel": the overlay backend
    OnSuccess,   \* the values that --on-success may have
    UseNetwork,  \* is a network namespace boundary configured?
    UseSensor,   \* is a telemetry object configured?
    UseGraph,    \* is a checkpoint graph configured?
    Overlap,     \* may commands and edits overlap other commands?
    Faults,      \* which calls may fail, and which processes may crash
    MaxEdits     \* bound on the edits a person makes to the workspace

FaultKinds == {"prepare", "persist", "history", "ckpt", "mount", "start",
               "addpid", "network", "attach", "gate", "close", "scope",
               "scan", "unmount", "discard", "copy", "loss",
               "fuse", "crash", "opcrash"}

ASSUME ThroughAssumption == Through \notin Entries \cup {NoEntry}
ASSUME BaseAssumption == Base \in Manifest
ASSUME ConfigAssumption ==
    /\ Backend \in {"fuse", "kernel"}
    /\ OnSuccess \subseteq {"review", "discard"}
    /\ {UseNetwork, UseSensor, UseGraph, Overlap} \subseteq BOOLEAN
    /\ Faults \subseteq FaultKinds
    /\ MaxEdits \in Nat

VARIABLES
    \* ---- on disk and in the kernel: survive the death of any process
    record,      \* the run record: lifecycle state and evidence completeness
    hist,        \* this run's state in the history index
    ckpt,        \* this run's node in the checkpoint graph
    lower,       \* the person's workspace
    upper,       \* the staged writes (upperdir and workdir)
    mounted,     \* is the merged view mounted?
    procs,       \* live processes of the agent: the agent and one descendant
    gate,        \* has the helper been released to exec the agent?
    scoped,      \* was the helper admitted to the run's cgroup?
    cgroup,      \* does the run's cgroup exist?
    network,     \* are the host veth and firewall rules installed?
    exit,        \* how the agent ended: "none", "ok" or "fail"
    \* ---- in the memory of one process
    run,         \* handleRun: its control point, plan.Run.State and Handle
    op,          \* one record per rollback/recover/commit invocation
    \* ---- history variables: read by properties, never by guards
    lossy,       \* telemetry lost an event while the agent ran
    user,        \* the base tree with the person's own edits
    reviewed,    \* the result of the run when the record first said succeeded
    edits        \* number of edits so far

durable == <<record, hist, ckpt>>
tree    == <<lower, upper, mounted>>
agent   == <<procs, gate, exit>>
bounds  == <<scoped, cgroup, network>>
ghosts  == <<lossy, user, reviewed, edits>>
vars    == <<durable, tree, agent, bounds, run, op, ghosts>>

-----------------------------------------------------------------------------
(* Types *)

Upper == [Paths -> Entries \cup {NoEntry, Through}]
EmptyUpper == [p \in Paths |-> Through]

RecordStates == States \cup {"none"}
RecordType == [state : RecordStates, complete : BOOLEAN]
CheckpointStates == {"off", "none", "pending", "running", "succeeded", "rolled_back"}

RunSteps == {"plan", "prepare", "persistPrepared", "historyPrepared",
             "mount", "start", "addPID", "network", "attach", "gate",
             "ckptRunning", "persistRunning", "historyRunning",
             "wait", "waitNetwork", "waitSensor", "waitScope",
             "ckptRollback", "scan", "persistReview", "historyReview", "ckptSucceeded",
             "kill", "boundary", "scope", "unmount", "discard",
             "persistFinal", "ckptFinal", "historyFinal"}
Ended == {"exited", "crashed"}

\* Why the handle is being torn down: failAndRollback, a fatal error after
\* Start, a failed Wait, or the default discard of a successful run.
Flows == {"none", "startFailed", "abort", "waitFailed", "discard"}

RunType == [pc : RunSteps \cup Ended, state : States, flow : Flows,
            process : BOOLEAN, waited : BOOLEAN, scope : BOOLEAN,
            net : BOOLEAN, sensor : BOOLEAN, waitErr : BOOLEAN, err : BOOLEAN]

OpSteps == {"idle", "scope", "unmount", "discard", "ckpt", "persist", "history",
            "candidate", "check", "apply"}
\* How a command ends: it exits 0, it reports an error, or it is killed.
OpEnded == {"done", "refused", "killed"}
OpType == [pc : OpSteps \cup OpEnded, kind : {"rollback", "commit"}, via : {"cli", "supervisor"},
           state : States, complete : BOOLEAN, scope : BOOLEAN, err : BOOLEAN,
           cand : Manifest, todo : SUBSET Paths]

TypeOK ==
    /\ record \in RecordType
    /\ hist \in RecordStates
    /\ ckpt \in CheckpointStates
    /\ lower \in Manifest /\ upper \in Upper /\ mounted \in BOOLEAN
    /\ procs \subseteq {"agent", "child"}
    /\ gate \in {"closed", "open"}
    /\ exit \in {"none", "ok", "fail"}
    /\ scoped \in BOOLEAN /\ cgroup \in BOOLEAN /\ network \in BOOLEAN
    /\ run \in RunType
    /\ op \in [Ops -> OpType]
    /\ lossy \in BOOLEAN /\ user \in Manifest /\ reviewed \in Manifest
    /\ edits \in 0..MaxEdits

-----------------------------------------------------------------------------
(* Initial state: runplan.Build has taken the manifest of the workspace.   *)

Init ==
    /\ record = [state |-> "none", complete |-> FALSE]
    /\ hist = "none"
    /\ ckpt = IF UseGraph THEN "none" ELSE "off"
    /\ lower = Base /\ upper = EmptyUpper /\ mounted = FALSE
    /\ procs = {} /\ gate = "closed" /\ exit = "none"
    /\ scoped = FALSE /\ cgroup = FALSE /\ network = FALSE
    /\ run = [pc |-> "plan", state |-> "preparing", flow |-> "none",
              process |-> FALSE, waited |-> FALSE, scope |-> FALSE,
              net |-> FALSE, sensor |-> FALSE, waitErr |-> FALSE, err |-> FALSE]
    /\ op = [o \in Ops |->
              [pc |-> "idle", kind |-> "rollback", via |-> "cli",
               state |-> "preparing", complete |-> FALSE, scope |-> FALSE,
               err |-> FALSE, cand |-> EmptyManifest, todo |-> {}]]
    /\ lossy = FALSE /\ user = Base /\ reviewed = EmptyManifest /\ edits = 0

-----------------------------------------------------------------------------
(* The overlay, the cgroup and the checkpoint graph as their callers see   *)
(* them.                                                                   *)

Fails(f) == f \in Faults

\* What the merged directory shows: an unmounted one is an empty directory.
Merged == [p \in Paths |->
            IF ~mounted THEN NoEntry
            ELSE IF upper[p] = Through THEN lower[p] ELSE upper[p]]

\* What the run itself has made of the base.  (The merged view also shows what
\* the owner has meanwhile done to the paths that the upper layer lacks.)
Result == [p \in Paths |-> IF upper[p] = Through THEN Base[p] ELSE upper[p]]

\* Unmount either removes the mount or leaves it: busy while a process has a
\* file or its directory there, for all of the bounded retries.
Unmounts == mounted /\ mounted' = FALSE
UnmountBusy == mounted /\ (procs # {} \/ Fails("unmount")) /\ UNCHANGED mounted

\* Manager.Rollback up to the discard.  fusermount3's "not mounted" error
\* counts as success; umount's does not.
RollbackUnmounts == Unmounts \/ (~mounted /\ Backend = "fuse" /\ UNCHANGED mounted)

RollbackRefuses == UnmountBusy \/ (~mounted /\ Backend = "kernel" /\ UNCHANGED mounted)

\* RemoveAll of upper and work; when it fails some of it may be gone.
Discards == upper' = EmptyUpper
DiscardFails == Fails("discard") /\ upper' \in {upper, EmptyUpper}

\* The cgroup sees only the processes admitted to it.
Members == IF scoped THEN procs ELSE {}

\* Terminate then Close: kill every member, remove the empty cgroup.
ScopeEmptied ==
    /\ procs' = procs \ Members
    /\ exit' = IF "agent" \in Members THEN "fail" ELSE exit
    /\ cgroup' = FALSE
ScopeRemains ==
    /\ Fails("scope")
    /\ cgroup' = (cgroup /\ Members # {})
    /\ UNCHANGED <<procs, exit>>

\* A mutant of allowedTransition: only the way back to pending is closed.
Mut_CkptAllowed(from, to) == from = to \/ to # "pending"

\* allowedTransition of the checkpoint graph, for this run's own node.
CkptAllowed(from, to) ==
    \/ from = to
    \/ from = "pending" /\ to \in {"running", "rolled_back"}
    \/ from = "running" /\ to \in {"succeeded", "rolled_back"}
    \/ from = "succeeded" /\ to = "rolled_back"

\* transitionCheckpoint and rollbackCheckpoint: nothing without a graph.
CkptMoves(to) ==
    \/ ckpt = "off" /\ UNCHANGED ckpt
    \/ ckpt # "off" /\ CkptAllowed(ckpt, to) /\ ckpt' = to
CkptRefuses(to) ==
    /\ ckpt # "off"
    /\ Fails("ckpt") \/ ~CkptAllowed(ckpt, to)
    /\ UNCHANGED ckpt

-----------------------------------------------------------------------------
(* handleRun before the coordinator starts.                                *)

Goto(step) == run' = [run EXCEPT !.pc = step]

\* checkpoint.Add of this run's node; an error is fatal.
RunAddCheckpoint ==
    /\ run.pc = "plan"
    /\ \/ ckpt' = (IF ckpt = "off" THEN "off" ELSE "pending") /\ Goto("prepare")
       \/ ckpt # "off" /\ Fails("ckpt") /\ UNCHANGED ckpt /\ Goto("exited")
    /\ UNCHANGED <<record, hist, tree, agent, bounds, op, ghosts>>

\* Layout.Prepare, the network plan, the cgroup and its limits; a scope whose
\* limits cannot be written is closed again.
RunPrepare ==
    /\ run.pc = "prepare"
    /\ \/ cgroup' = TRUE /\ run' = [run EXCEPT !.pc = "persistPrepared", !.scope = TRUE]
       \/ Fails("prepare") /\ UNCHANGED cgroup /\ Goto("exited")
    /\ UNCHANGED <<durable, tree, agent, scoped, network, op, ghosts>>

\* persistRecordState: one atomic rename, after which the file is handed to the
\* invoker; an error before the rename leaves the old record, one after it the new.
NewRecord == [state |-> run.state, complete |-> ~lossy]
WritesRecord == record' = NewRecord
RecordWriteFails(new) == Fails("persist") /\ record' \in {record, new}

\* persistHistory: the entry of this run, or an error that leaves it.
WritesHistory == hist' = run.state
HistoryWriteFails == Fails("history") /\ UNCHANGED hist

RunPersistPrepared ==
    /\ run.pc = "persistPrepared"
    /\ \/ WritesRecord /\ Goto("historyPrepared")
       \/ RecordWriteFails(NewRecord) /\ Goto("exited")
    /\ UNCHANGED <<hist, ckpt, tree, agent, bounds, op, ghosts>>

RunHistoryPrepared ==
    /\ run.pc = "historyPrepared"
    /\ \/ WritesHistory /\ Goto("mount")
       \/ HistoryWriteFails /\ Goto("exited")
    /\ UNCHANGED <<record, ckpt, tree, agent, bounds, op, ghosts>>

-----------------------------------------------------------------------------
(* Coordinator.Start.  Until RunPersistRunning the record on disk still    *)
(* says preparing, whatever has been mounted or started.                   *)

\* A start failure goes to failAndRollback, which tears the handle down with
\* flow "startFailed"; a fatal error after Start calls Handle.Rollback.
TearDown(flow) == run' = [run EXCEPT !.pc = "kill", !.flow = flow]
FailAndRollback == TearDown("startFailed")

\* Overlay.Mount, then Mounted and Running in memory.  A failed mount returns
\* before there is a handle: nothing is rolled back.
CoordMount ==
    /\ run.pc = "mount"
    /\ \/ /\ mounted' = TRUE
          /\ run' = [run EXCEPT !.pc = "start",
                                !.state = Transition(Transition(run.state, "mounted"), "running")]
       \/ /\ Fails("mount") /\ UNCHANGED mounted
          /\ run' = [run EXCEPT !.pc = "persistFinal", !.flow = "startFailed"]
    /\ UNCHANGED <<durable, lower, upper, agent, bounds, op, ghosts>>

\* Starter.Start: the helper waits at the gate, its directory is the mount.
CoordStart ==
    /\ run.pc = "start"
    /\ \/ procs' = {"agent"} /\ run' = [run EXCEPT !.pc = "addPID", !.process = TRUE]
       \/ Fails("start") /\ UNCHANGED procs /\ FailAndRollback
    /\ UNCHANGED <<durable, tree, gate, exit, bounds, op, ghosts>>

\* A mutant of Start: the gate is released as soon as the helper runs,
\* before it is in the cgroup.
Mut_CoordAddPID ==
    /\ run.pc = "addPID"
    /\ \/ gate' = "open" /\ Goto("network") /\ UNCHANGED scoped
       \/ Fails("addpid") /\ UNCHANGED <<gate, scoped>> /\ FailAndRollback
    /\ UNCHANGED <<durable, tree, procs, exit, cgroup, network, op, ghosts>>

CoordAddPID ==
    /\ run.pc = "addPID"
    /\ \/ scoped' = TRUE /\ Goto("network")
       \/ /\ "agent" \notin procs \/ Fails("addpid")
          /\ UNCHANGED scoped /\ FailAndRollback
    /\ UNCHANGED <<durable, tree, agent, cgroup, network, op, ghosts>>

\* Network.Prepare: the handle owns the boundary only once it succeeded.
CoordPrepareNetwork ==
    /\ run.pc = "network"
    /\ \/ ~UseNetwork /\ UNCHANGED network /\ Goto("attach")
       \/ UseNetwork /\ network' = TRUE /\ run' = [run EXCEPT !.pc = "attach", !.net = TRUE]
       \/ UseNetwork /\ Fails("network") /\ UNCHANGED network /\ FailAndRollback
    /\ UNCHANGED <<durable, tree, agent, scoped, cgroup, op, ghosts>>

CoordAttachSensor ==
    /\ run.pc = "attach"
    /\ \/ run' = [run EXCEPT !.pc = "gate", !.sensor = UseSensor]
       \/ UseSensor /\ Fails("attach") /\ FailAndRollback
    /\ UNCHANGED <<durable, tree, agent, bounds, op, ghosts>>

\* gate.Release: writing to a helper that is gone is an error.
CoordReleaseGate ==
    /\ run.pc = "gate"
    /\ \/ "agent" \in procs /\ gate' = "open" /\ Goto("ckptRunning")
       \/ ("agent" \notin procs \/ Fails("gate")) /\ UNCHANGED gate /\ FailAndRollback
    /\ UNCHANGED <<durable, tree, procs, exit, bounds, op, ghosts>>

-----------------------------------------------------------------------------
(* handleRun between Start and Wait.                                       *)

RunCheckpointRunning ==
    /\ run.pc = "ckptRunning"
    /\ \/ CkptMoves("running") /\ Goto("persistRunning")
       \/ CkptRefuses("running") /\ TearDown("abort")
    /\ UNCHANGED <<record, hist, tree, agent, bounds, op, ghosts>>

RunPersistRunning ==
    /\ run.pc = "persistRunning"
    /\ \/ WritesRecord /\ Goto("historyRunning")
       \/ RecordWriteFails(NewRecord) /\ TearDown("abort")
    /\ UNCHANGED <<hist, ckpt, tree, agent, bounds, op, ghosts>>

RunHistoryRunning ==
    /\ run.pc = "historyRunning"
    /\ \/ WritesHistory /\ Goto("wait")
       \/ HistoryWriteFails /\ TearDown("abort")
    /\ UNCHANGED <<record, ckpt, tree, agent, bounds, op, ghosts>>

-----------------------------------------------------------------------------
(* Handle.wait.                                                            *)

\* process.Wait returns when the agent itself is gone; descendants may stay.
WaitAgent ==
    /\ run.pc = "wait"
    /\ "agent" \notin procs
    /\ run' = [run EXCEPT !.pc = "waitNetwork", !.waited = TRUE]
    /\ UNCHANGED <<durable, tree, agent, bounds, op, ghosts>>

WaitNetwork ==
    /\ run.pc = "waitNetwork"
    /\ \/ network' = (network /\ ~run.net)
          /\ run' = [run EXCEPT !.pc = "waitSensor", !.net = FALSE]
       \/ run.net /\ Fails("network") /\ UNCHANGED network
          /\ run' = [run EXCEPT !.pc = "waitSensor", !.net = FALSE, !.waitErr = TRUE]
    /\ UNCHANGED <<durable, tree, agent, scoped, cgroup, op, ghosts>>

\* The proxy is closed, then the sensor.
WaitSensor ==
    /\ run.pc = "waitSensor"
    /\ \E failed \in {b \in BOOLEAN : b => run.sensor /\ Fails("close")} :
         run' = [run EXCEPT !.pc = "waitScope", !.sensor = FALSE, !.waitErr = @ \/ failed]
    /\ UNCHANGED <<durable, tree, agent, bounds, op, ghosts>>

\* A mutant of closeScope: a drain that needed a kill is reported as clean.
Mut_WaitCloseScope ==
    /\ run.pc = "waitScope"
    /\ cgroup' = FALSE
    /\ run' = [run EXCEPT !.scope = FALSE,
                          !.state = Transition(@, IF exit = "fail" THEN "failed" ELSE "succeeded"),
                          !.pc = IF run.waitErr \/ exit = "fail" THEN "ckptRollback" ELSE "scan"]
    /\ UNCHANGED <<durable, tree, agent, scoped, network, op, ghosts>>

\* closeScope: Close succeeds on an empty cgroup.  Otherwise the remaining
\* members are killed, and the run has failed even though the agent exited 0.
\* The state is Succeeded even when the network or the sensor failed to close,
\* but Wait then returns an error and the run is rolled back.
WaitCloseScope ==
    /\ run.pc = "waitScope"
    /\ LET drained == Members = {}
           failed  == exit = "fail" \/ ~drained
           next    == IF failed THEN "failed" ELSE "succeeded"
       IN /\ \/ drained /\ cgroup' = FALSE /\ UNCHANGED <<procs, exit>>
             \/ ~drained /\ (ScopeEmptied \/ ScopeRemains)
          /\ run' = [run EXCEPT !.scope = FALSE,
                                !.state = Transition(@, next),
                                !.pc = IF failed \/ run.waitErr THEN "ckptRollback" ELSE "scan"]
    /\ UNCHANGED <<durable, tree, gate, scoped, network, op, ghosts>>

\* rollbackCheckpoint after a failed Wait; its error is ignored.
RunCheckpointWaitFailed ==
    /\ run.pc = "ckptRollback"
    /\ CkptMoves("rolled_back") \/ CkptRefuses("rolled_back")
    /\ TearDown("waitFailed")
    /\ UNCHANGED <<record, hist, tree, agent, bounds, op, ghosts>>

-----------------------------------------------------------------------------
(* handleRun after a successful Wait.                                      *)

\* scanPIIAfterRun, then the branch on --on-success.
RunScan ==
    /\ run.pc = "scan"
    /\ \/ Fails("scan") /\ TearDown("abort")
       \/ "discard" \in OnSuccess /\ TearDown("discard")
       \/ "review" \in OnSuccess /\ Goto("persistReview")
    /\ UNCHANGED <<durable, tree, agent, bounds, op, ghosts>>

RunPersistReview ==
    /\ run.pc = "persistReview"
    /\ \/ WritesRecord /\ Goto("historyReview")
       \/ RecordWriteFails(NewRecord) /\ TearDown("abort")
    /\ reviewed' = IF record'.state = "succeeded" THEN Result ELSE reviewed
    /\ UNCHANGED <<hist, ckpt, tree, agent, bounds, op, lossy, user, edits>>

RunHistoryReview ==
    /\ run.pc = "historyReview"
    /\ \/ WritesHistory /\ Goto("ckptSucceeded")
       \/ HistoryWriteFails /\ TearDown("abort")
    /\ UNCHANGED <<record, ckpt, tree, agent, bounds, op, ghosts>>

RunCheckpointSucceeded ==
    /\ run.pc = "ckptSucceeded"
    /\ CkptMoves("succeeded") \/ CkptRefuses("succeeded")
    /\ Goto("exited")
    /\ UNCHANGED <<record, hist, tree, agent, bounds, op, ghosts>>

-----------------------------------------------------------------------------
(* Handle.Rollback and failAndRollback: the same steps in the same order,  *)
(* except that failAndRollback leaves the network boundary alone and       *)
(* ignores the outcome of Kill.                                            *)

\* A mutant of failAndRollback: the process is left to the cgroup.
Mut_TeardownKill ==
    /\ run.pc = "kill"
    /\ Goto("boundary")
    /\ UNCHANGED <<durable, tree, agent, bounds, op, ghosts>>

\* Kill the agent (not its descendants) unless it was already waited for.
TeardownKill ==
    /\ run.pc = "kill"
    /\ LET kills == run.process /\ ~run.waited
       IN /\ procs' = IF kills THEN procs \ {"agent"} ELSE procs
          /\ exit' = IF kills /\ "agent" \in procs THEN "fail" ELSE exit
          /\ run' = [run EXCEPT !.pc = "boundary",
                                !.waited = @ \/ kills,
                                !.err = @ \/ (/\ kills /\ "agent" \notin procs
                                             /\ run.flow # "startFailed")]
    /\ UNCHANGED <<durable, tree, gate, bounds, op, ghosts>>

\* Network.Cleanup (not on the start-failure path) and closeSensor.
TeardownBoundary ==
    /\ run.pc = "boundary"
    /\ \E netFailed, closeFailed \in BOOLEAN :
         LET cleans == run.net /\ run.flow # "startFailed"
         IN /\ netFailed => cleans /\ Fails("network")
            /\ closeFailed => run.sensor /\ Fails("close")
            /\ network' = (network /\ (~cleans \/ netFailed))
            /\ run' = [run EXCEPT !.pc = "scope", !.net = @ /\ ~cleans, !.sensor = FALSE,
                                  !.err = @ \/ netFailed \/ closeFailed]
    /\ UNCHANGED <<durable, tree, agent, scoped, cgroup, op, ghosts>>

\* Scope.Terminate and Scope.Close, then Running -> Failed in memory.  A scope
\* that somebody else removed makes Terminate fail.
TeardownScope ==
    /\ run.pc = "scope"
    /\ \/ /\ run.scope /\ cgroup /\ ScopeEmptied
          /\ run' = [run EXCEPT !.pc = "unmount", !.state = Transition(@, "failed")]
       \/ /\ run.scope /\ cgroup /\ ScopeRemains
          /\ run' = [run EXCEPT !.pc = "unmount", !.state = Transition(@, "failed"), !.err = TRUE]
       \/ /\ ~(run.scope /\ cgroup) /\ UNCHANGED <<procs, exit, cgroup>>
          /\ run' = [run EXCEPT !.pc = "unmount", !.state = Transition(@, "failed"),
                                !.err = @ \/ run.scope]
    /\ UNCHANGED <<durable, tree, gate, scoped, network, op, ghosts>>

\* What handleRun does once the handle is torn down: "abort" is fatal without
\* writing the record; the other flows persist it first.
AfterTeardown(flow) == IF flow = "abort" THEN "exited" ELSE "persistFinal"

\* A mutant of Unmount: the retries of a refused unmount are not bounded.
Mut_TeardownUnmount ==
    /\ run.pc = "unmount"
    /\ \/ RollbackUnmounts /\ Goto("discard")
       \/ RollbackRefuses /\ UNCHANGED run
    /\ UNCHANGED <<durable, lower, upper, agent, bounds, op, ghosts>>

TeardownUnmount ==
    /\ run.pc = "unmount"
    /\ \/ RollbackUnmounts /\ Goto("discard")
       \/ RollbackRefuses /\ run' = [run EXCEPT !.pc = AfterTeardown(run.flow), !.err = TRUE]
    /\ UNCHANGED <<durable, lower, upper, agent, bounds, op, ghosts>>

TeardownDiscard ==
    /\ run.pc = "discard"
    /\ \/ Discards /\ run' = [run EXCEPT !.pc = AfterTeardown(run.flow),
                                         !.state = Transition(@, "rolled_back")]
       \/ DiscardFails /\ run' = [run EXCEPT !.pc = AfterTeardown(run.flow), !.err = TRUE]
    /\ UNCHANGED <<durable, lower, mounted, agent, bounds, op, ghosts>>

\* The last writes of handleRun.  A start failure and a failed discard write
\* only the record; a failed Wait also the history, ignoring errors; a discard
\* stops at the first error.
RunPersistFinal ==
    /\ run.pc = "persistFinal"
    /\ \/ /\ WritesRecord
          /\ Goto(CASE run.flow = "waitFailed" -> "historyFinal"
                    [] run.flow = "discard" /\ ~run.err -> "ckptFinal"
                    [] OTHER -> "exited")
       \/ /\ RecordWriteFails(NewRecord)
          /\ Goto(IF run.flow = "waitFailed" THEN "historyFinal" ELSE "exited")
    /\ UNCHANGED <<hist, ckpt, tree, agent, bounds, op, ghosts>>

RunCheckpointFinal ==
    /\ run.pc = "ckptFinal"
    /\ \/ CkptMoves("rolled_back") /\ Goto("historyFinal")
       \/ CkptRefuses("rolled_back") /\ Goto("exited")
    /\ UNCHANGED <<record, hist, tree, agent, bounds, op, ghosts>>

RunHistoryFinal ==
    /\ run.pc = "historyFinal"
    /\ WritesHistory \/ HistoryWriteFails
    /\ Goto("exited")
    /\ UNCHANGED <<record, ckpt, tree, agent, bounds, op, ghosts>>

\* The rewind process is killed between any two steps.  Its sensor and its
\* end of the start gate go with it; everything else stays.
RunCrash ==
    /\ run.pc \notin Ended
    /\ Fails("crash")
    /\ run' = [run EXCEPT !.pc = "crashed", !.sensor = FALSE]
    /\ UNCHANGED <<durable, tree, agent, bounds, op, ghosts>>

RunNext ==
    \/ RunAddCheckpoint \/ RunPrepare \/ RunPersistPrepared \/ RunHistoryPrepared
    \/ CoordMount \/ CoordStart \/ CoordAddPID \/ CoordPrepareNetwork
    \/ CoordAttachSensor \/ CoordReleaseGate
    \/ RunCheckpointRunning \/ RunPersistRunning \/ RunHistoryRunning
    \/ WaitAgent \/ WaitNetwork \/ WaitSensor \/ WaitCloseScope
    \/ RunCheckpointWaitFailed
    \/ RunScan \/ RunPersistReview \/ RunHistoryReview \/ RunCheckpointSucceeded
    \/ TeardownKill \/ TeardownBoundary \/ TeardownScope
    \/ TeardownUnmount \/ TeardownDiscard
    \/ RunPersistFinal \/ RunCheckpointFinal \/ RunHistoryFinal

-----------------------------------------------------------------------------
(* The agent and its surroundings.                                         *)

\* A mutant of the helper: it keeps a write end of its own gate pipe and never
\* sees the end of it.
Mut_HelperFails ==
    /\ gate = "closed" /\ "agent" \in procs /\ run.pc \notin Ended
    /\ procs' = procs \ {"agent"} /\ exit' = "fail"
    /\ UNCHANGED <<durable, tree, gate, bounds, run, op, ghosts>>

\* The helper gives up before the gate: a sandbox step fails, or the gate
\* pipe ends because the rewind process is gone.
HelperFails ==
    /\ gate = "closed" /\ "agent" \in procs
    /\ procs' = procs \ {"agent"} /\ exit' = "fail"
    /\ UNCHANGED <<durable, tree, gate, bounds, run, op, ghosts>>

\* The agent writes or deletes a path; the overlay keeps it in the upper layer.
AgentWrite(p, v) ==
    /\ gate = "open" /\ procs # {} /\ mounted
    /\ upper[p] # v
    /\ upper' = [upper EXCEPT ![p] = v]
    /\ UNCHANGED <<durable, lower, mounted, agent, bounds, run, op, ghosts>>

AgentForks ==
    /\ gate = "open" /\ procs = {"agent"}
    /\ procs' = {"agent", "child"}
    /\ UNCHANGED <<durable, tree, gate, exit, bounds, run, op, ghosts>>

AgentExits(code) ==
    /\ gate = "open" /\ "agent" \in procs
    /\ procs' = procs \ {"agent"} /\ exit' = code
    /\ UNCHANGED <<durable, tree, gate, bounds, run, op, ghosts>>

ChildExits ==
    /\ "child" \in procs
    /\ procs' = procs \ {"child"}
    /\ UNCHANGED <<durable, tree, gate, exit, bounds, run, op, ghosts>>

\* The ring buffer or the journal cap loses an event; the adapter counts it.
EventLost ==
    /\ Fails("loss") /\ run.sensor /\ gate = "open" /\ procs # {} /\ ~lossy
    /\ lossy' = TRUE
    /\ UNCHANGED <<durable, tree, agent, bounds, run, op, user, reviewed, edits>>

\* fuse-overlayfs ends on its own and takes the mount with it.
FuseExits ==
    /\ Fails("fuse") /\ Backend = "fuse" /\ mounted
    /\ mounted' = FALSE
    /\ UNCHANGED <<durable, lower, upper, agent, bounds, run, op, ghosts>>

-----------------------------------------------------------------------------
(* rollback, recover and commit.  Each invocation reads the record once and *)
(* works on its own copy.                                                   *)

Active(o) == op[o].pc \in OpSteps \ {"idle"}
Quiet == run.pc \in Ended /\ \A o \in Ops : ~Active(o)

\* A person edits the workspace itself.
UserEdits(p, v) ==
    /\ edits < MaxEdits
    /\ Overlap \/ \A o \in Ops : ~Active(o)
    /\ lower[p] # v
    /\ lower' = [lower EXCEPT ![p] = v]
    /\ user' = [user EXCEPT ![p] = v]
    /\ edits' = edits + 1
    /\ UNCHANGED <<durable, upper, mounted, agent, bounds, run, op, lossy, reviewed>>

OpGoto(o, step) == op' = [op EXCEPT ![o].pc = step]

\* The command can start: the record exists, and the supervisor finds it
\* through the history index.
OpReads(o, via) ==
    /\ op[o].pc = "idle"
    /\ Overlap \/ Quiet
    /\ record.state # "none"
    /\ via = "supervisor" => hist # "none"

\* A mutant of supervisorRollback: the record is not written back.
Mut_AfterRollbackPlan(via) == IF via = "cli" THEN "ckpt" ELSE "history"

\* After RollbackPlan the CLI also rolls the checkpoint back; the supervisor
\* goes straight to the record.
AfterRollbackPlan(via) == IF via = "cli" THEN "ckpt" ELSE "persist"

\* runstore.Read, persistedScope and the state tests of RollbackPlan: a
\* preparing run is only marked, a rolled back one is left alone, a committed
\* one is refused, every other is taken through failed.
OpStartRollback(o, via) ==
    /\ OpReads(o, via)
    /\ LET state == IF record.state \in {"running", "mounted"}
                      THEN Transition(record.state, "failed") ELSE record.state
       IN op' = [op EXCEPT ![o] =
            [@ EXCEPT !.kind = "rollback", !.via = via,
                      !.complete = record.complete, !.scope = cgroup,
                      !.state = IF state = "preparing" THEN Transition(state, "rolled_back")
                                ELSE state,
                      !.pc = CASE state \in {"preparing", "rolled_back"} -> AfterRollbackPlan(via)
                               [] state \in {"failed", "succeeded", "paused"} -> "scope"
                               [] OTHER -> "refused"]]
    /\ UNCHANGED <<durable, tree, agent, bounds, run, ghosts>>

\* A commit is refused unless the record says succeeded with whole evidence.
OpStartCommit(o, via) ==
    /\ OpReads(o, via)
    /\ op' = [op EXCEPT ![o] =
         [@ EXCEPT !.kind = "commit", !.via = via,
                   !.complete = record.complete, !.state = record.state,
                   !.pc = IF record.state = "succeeded" /\ record.complete
                          THEN "candidate" ELSE "refused"]]
    /\ UNCHANGED <<durable, tree, agent, bounds, run, ghosts>>

\* RollbackPlan: Terminate and Close of the scope that was there at the start;
\* errors are collected and the overlay is rolled back all the same.
OpScope(o) ==
    /\ op[o].pc = "scope"
    /\ \/ /\ op[o].scope /\ cgroup /\ ScopeEmptied
          /\ OpGoto(o, "unmount")
       \/ /\ op[o].scope /\ cgroup /\ ScopeRemains
          /\ op' = [op EXCEPT ![o] = [@ EXCEPT !.pc = "unmount", !.err = TRUE]]
       \/ /\ ~(op[o].scope /\ cgroup) /\ UNCHANGED <<procs, exit, cgroup>>
          /\ op' = [op EXCEPT ![o] = [@ EXCEPT !.pc = "unmount", !.err = op[o].scope]]
    /\ UNCHANGED <<durable, tree, gate, scoped, network, run, ghosts>>

\* A mutant of Manager.Rollback: a failed unmount does not stop the discard.
Mut_OpUnmount(o) ==
    /\ op[o].pc = "unmount"
    /\ RollbackUnmounts \/ RollbackRefuses
    /\ OpGoto(o, "discard")
    /\ UNCHANGED <<durable, lower, upper, agent, bounds, run, ghosts>>

OpUnmount(o) ==
    /\ op[o].pc = "unmount"
    /\ \/ RollbackUnmounts /\ OpGoto(o, "discard")
       \/ RollbackRefuses /\ OpGoto(o, "refused")
    /\ UNCHANGED <<durable, lower, upper, agent, bounds, run, ghosts>>

\* The discard, then the new state in memory.  A rollback whose scope step
\* failed ends here, with the record untouched.
OpDiscard(o) ==
    /\ op[o].pc = "discard"
    /\ \/ /\ Discards
          /\ LET goal == IF op[o].kind = "commit" THEN "committed" ELSE "rolled_back"
             IN op' = [op EXCEPT ![o] =
                  [@ EXCEPT !.state = Transition(op[o].state, goal),
                            !.pc = IF op[o].err THEN "refused"
                                   ELSE IF op[o].kind = "commit" THEN "persist"
                                   ELSE AfterRollbackPlan(op[o].via)]]
       \/ DiscardFails /\ OpGoto(o, "refused")
    /\ UNCHANGED <<durable, lower, mounted, agent, bounds, run, ghosts>>

OpCheckpoint(o) ==
    /\ op[o].pc = "ckpt"
    /\ \/ CkptMoves("rolled_back") /\ OpGoto(o, "persist")
       \/ CkptRefuses("rolled_back") /\ OpGoto(o, "refused")
    /\ UNCHANGED <<record, hist, tree, agent, bounds, run, ghosts>>

OpPersist(o) ==
    /\ op[o].pc = "persist"
    /\ LET new == [state |-> op[o].state, complete |-> op[o].complete]
       IN \/ record' = new /\ OpGoto(o, "history")
          \/ RecordWriteFails(new) /\ OpGoto(o, "refused")
    /\ UNCHANGED <<hist, ckpt, tree, agent, bounds, run, ghosts>>

OpHistory(o) ==
    /\ op[o].pc = "history"
    /\ \/ hist' = op[o].state /\ OpGoto(o, "done")
       \/ HistoryWriteFails /\ OpGoto(o, "refused")
    /\ UNCHANGED <<record, ckpt, tree, agent, bounds, run, ghosts>>

\* manifest.Build of the merged directory: an empty manifest when nothing is
\* mounted there.
OpCandidate(o) ==
    /\ op[o].pc = "candidate"
    /\ op' = [op EXCEPT ![o] = [@ EXCEPT !.pc = "check", !.cand = Merged]]
    /\ UNCHANGED <<durable, tree, agent, bounds, run, ghosts>>

\* manifest.Build of the workspace and acceptance.Check.
OpCheck(o) ==
    /\ op[o].pc = "check"
    /\ op' = [op EXCEPT ![o] =
         IF CanApply(Base, lower, op[o].cand)
         THEN [@ EXCEPT !.pc = "apply", !.todo = Compare(Base, op[o].cand)]
         ELSE [@ EXCEPT !.pc = "refused"]]
    /\ UNCHANGED <<durable, tree, agent, bounds, run, ghosts>>

\* Apply takes the next change: copies come before deletions.
NextChange(o, p) ==
    /\ p \in op[o].todo
    /\ op[o].cand[p] = NoEntry => \A q \in op[o].todo : op[o].cand[q] = NoEntry

\* A mutant of Apply: deletions are skipped.
Mut_OpApply(o, p) ==
    /\ op[o].pc = "apply" /\ NextChange(o, p)
    /\ lower' = [lower EXCEPT ![p] = IF op[o].cand[p] = NoEntry THEN @ ELSE Merged[p]]
    /\ op' = [op EXCEPT ![o].todo = @ \ {p}]
    /\ UNCHANGED <<durable, upper, mounted, agent, bounds, run, ghosts>>

\* A file is copied from the merged view as it is now, not as it was when the
\* manifest was built; without a source there is nothing to rename into place.
OpApply(o, p) ==
    /\ op[o].pc = "apply" /\ NextChange(o, p)
    /\ \/ /\ op[o].cand[p] = NoEntry \/ Merged[p] # NoEntry
          /\ lower' = [lower EXCEPT ![p] = IF op[o].cand[p] = NoEntry THEN NoEntry ELSE Merged[p]]
          /\ op' = [op EXCEPT ![o].todo = @ \ {p}]
       \/ /\ Fails("copy") \/ (op[o].cand[p] # NoEntry /\ Merged[p] = NoEntry)
          /\ UNCHANGED lower
          /\ OpGoto(o, "refused")
    /\ UNCHANGED <<durable, upper, mounted, agent, bounds, run, ghosts>>

OpApplied(o) ==
    /\ op[o].pc = "apply" /\ op[o].todo = {}
    /\ OpGoto(o, "unmount")
    /\ UNCHANGED <<durable, tree, agent, bounds, run, ghosts>>

\* The command is killed, or the supervisor with it.
OpCrash(o) ==
    /\ Active(o) /\ Fails("opcrash")
    /\ OpGoto(o, "killed")
    /\ UNCHANGED <<durable, tree, agent, bounds, run, ghosts>>

OpStep(o) ==
    \/ OpScope(o) \/ OpUnmount(o) \/ OpDiscard(o) \/ OpCheckpoint(o)
    \/ OpPersist(o) \/ OpHistory(o)
    \/ OpCandidate(o) \/ OpCheck(o) \/ (\E p \in Paths : OpApply(o, p)) \/ OpApplied(o)

OpStart(o) ==
    \E via \in {"cli", "supervisor"} : OpStartRollback(o, via) \/ OpStartCommit(o, via)

-----------------------------------------------------------------------------
AgentNext ==
    \/ HelperFails
    \/ \E p \in Paths, v \in Entries \cup {NoEntry} : AgentWrite(p, v)
    \/ AgentForks
    \/ \E code \in {"ok", "fail"} : AgentExits(code)
    \/ ChildExits

EnvNext ==
    \/ EventLost
    \/ FuseExits
    \/ \E p \in Paths, v \in Entries \cup {NoEntry} : UserEdits(p, v)

\* Every command has ended: nothing more need happen.
Done == Quiet /\ UNCHANGED vars

Next ==
    \/ RunNext
    \/ RunCrash
    \/ AgentNext
    \/ EnvNext
    \/ \E o \in Ops : OpStart(o) \/ OpStep(o) \/ OpCrash(o)
    \/ Done

\* A live process runs its next step, and a helper whose gate pipe has ended
\* gives up; nothing forces the agent to finish or a person to act.
Fairness ==
    /\ WF_vars(RunNext)
    /\ \A o \in Ops : WF_vars(OpStep(o))
    /\ WF_vars(HelperFails /\ run.pc \in Ended)

Spec == Init /\ [][Next]_vars
FairSpec == Spec /\ Fairness

-----------------------------------------------------------------------------
(* Properties *)

\* A run whose record says succeeded has no live process left: Wait reports
\* success only after the cgroup drained by itself (closeScope), and a kill
\* counts as a failure.
SucceededIsDrained == record.state = "succeeded" => procs = {}

\* The agent executes only behind its boundaries: released from the gate it
\* is in the run's cgroup, its network boundary is up for as long as it lives,
\* and until the run process tears down or dies the sensor watches it.
AgentConfined ==
    gate = "open" /\ procs # {} =>
        /\ scoped /\ cgroup
        /\ "agent" \in procs /\ UseNetwork => network
        /\ UseSensor /\ run.pc \in {"ckptRunning", "persistRunning", "historyRunning", "wait"}
             => run.sensor

\* The staged layer is discarded only while nothing is mounted over it
\* (Manager.Rollback refuses to go on after a failed unmount).
DiscardFollowsUnmount ==
    [][upper' = EmptyUpper /\ upper' # upper => ~mounted]_vars

\* A rolled back run whose process came to its own end has left no mount and
\* no process, whatever failed in Start or after Wait, and also after the
\* commands that follow it (failAndRollback, Handle.Rollback, RollbackPlan).
ExitedRunIsClean ==
    run.pc = "exited" /\ record.state = "rolled_back" => ~mounted /\ procs = {}

\* A run that is offered for review still has its staged tree mounted.
SucceededIsReviewable ==
    record.state = "succeeded" /\ Quiet => mounted

\* After a rollback from the command line the run's checkpoint node stays rolled
\* back, even if the run process was still alive.  (The supervisor's rollback
\* leaves the node as it was.)
RollbackCoversCheckpoint ==
    \A o \in Ops : op[o].kind = "rollback" /\ op[o].via = "cli" /\ op[o].pc = "done"
                     => ckpt \in {"off", "rolled_back"}

\* Once the agent is gone the run process comes to its end.
RunEnds == (run.pc = "wait" /\ "agent" \notin procs) ~> run.pc \in Ended

\* A helper whose gate was never opened does not outlive the run process.
NoStrandedHelper == (run.pc \in Ended /\ gate = "closed") ~> "agent" \notin procs

-----------------------------------------------------------------------------
(* The inductive invariant of the proofs: what every step relies on and     *)
(* keeps, in four parts.                                                    *)

BeforeMount == {"plan", "prepare", "persistPrepared", "historyPrepared", "mount"}
Admitted == {"network", "attach", "gate", "ckptRunning", "persistRunning", "historyRunning",
             "wait", "waitNetwork", "waitSensor", "waitScope"}

\* Up to the mount the run is preparing, up to Wait its helper is in the cgroup.
RunInv ==
    /\ run.pc \in BeforeMount => run.state = "preparing"
    /\ run.pc = "start" => run.state = "running"
    /\ run.pc \in Admitted => scoped

\* What a command is about to do fits the state it read: it never writes back
\* a state other than its goal.
OpAims(c) ==
    /\ c.pc = "scope" => c.kind = "rollback"
    /\ c.pc \in {"candidate", "check", "apply"} => c.kind = "commit"
    /\ c.pc \in {"scope", "unmount", "discard"} /\ c.kind = "rollback"
         => c.state \in {"failed", "succeeded", "paused"}
    /\ c.pc \in {"candidate", "check", "apply", "unmount", "discard"} /\ c.kind = "commit"
         => c.state = "succeeded"
    /\ c.pc \in {"ckpt", "persist", "history"} => c.state \in {"rolled_back", "committed"}
OpInv == \A o \in Ops : OpAims(op[o])

\* Success, in memory or on disk, means that nothing runs or will run.
DrainInv ==
    /\ run.state = "succeeded" => procs = {}
    /\ record.state = "succeeded" => procs = {} /\ run.pc \notin BeforeMount \cup {"start"}

\* Whoever is about to discard the staged layer has unmounted it, and nobody
\* will mount it again.
Committing(o) == op[o].pc \in {"ckpt", "persist", "history"} /\ op[o].state = "committed"
Untouched ==
    /\ record.state \in {"none", "preparing", "rolled_back"}
    /\ \A o \in Ops :
         /\ op[o].pc \notin {"scope", "unmount", "discard", "candidate", "check", "apply"}
         /\ ~Committing(o)
MountInv ==
    /\ run.pc \in BeforeMount => Untouched
    /\ run.pc = "discard" => ~mounted
    /\ \A o \in Ops : op[o].pc = "discard" => ~mounted

IInv == TypeOK /\ RunInv /\ OpInv /\ DrainInv /\ MountInv

\* Up to the gate nobody else touches the run: the record does not yet say that
\* it was mounted, so no command stops its scope or gets to the overlay.
Starting == BeforeMount \cup {"start", "addPID", "network", "attach", "gate"}
StartInv ==
    run.pc \in Starting =>
      /\ gate = "closed" /\ ~run.waited
      /\ Untouched
      /\ run.pc \notin {"plan", "prepare"} => cgroup
      /\ run.pc \in {"addPID", "network", "attach", "gate"} => run.process
      /\ run.pc \in {"attach", "gate"} /\ UseNetwork => network

\* From the gate on: the cgroup stays as long as it has members, and the
\* network boundary as long as the agent, whom only this handle waits for.
Watched == {"ckptRunning", "persistRunning", "historyRunning", "wait"}
GateInv ==
    /\ run.pc \in {"gate"} \cup Watched /\ UseSensor => run.sensor
    /\ gate = "open" =>
         /\ scoped /\ run.process
         /\ procs # {} => cgroup
         /\ "agent" \in procs =>
              /\ ~run.waited
              /\ run.pc \in Watched \cup {"kill", "crashed"}
              /\ UseNetwork => network

ConfInv == StartInv /\ GateInv

\* The hypothesis of the promises about the workspace: commands follow one
\* another, and no call fails that would leave half of a commit, a record that
\* outlives its staged tree, or an overlay without its mount.
Severing == {"persist", "history", "ckpt", "unmount", "discard", "copy", "fuse", "opcrash"}
Sequential == ~Overlap /\ Faults \cap Severing = {}

\* The hypothesis of a clean end: commands follow one another, and every unmount
\* and every scope operation that is tried succeeds.
Sound == ~Overlap /\ "unmount" \notin Faults /\ "scope" \notin Faults

\* The control points of the run process by what the record says there.
Launched == {"start", "addPID", "network", "attach", "gate", "ckptRunning", "persistRunning"}
Attended == {"historyRunning", "wait", "waitNetwork", "waitSensor", "waitScope"}
Reviewing == {"scan", "persistReview"}
Offering == {"historyReview", "ckptSucceeded"}
Undoing == {"ckptRollback", "kill", "boundary", "scope", "unmount", "discard", "persistFinal"}
Finishing == {"persistFinal", "ckptFinal", "historyFinal"}
Released == Watched \cup {"waitNetwork", "waitSensor", "waitScope", "ckptRollback"}
              \cup Reviewing \cup Offering

\* A command that is between its check and its last write.
Applying == {"apply", "unmount", "discard", "persist"}
Installs(o) == op[o].kind = "commit" /\ op[o].pc \in Applying

\* One process at a time: no command while the run process lives, and no two
\* commands.
TurnInv ==
    /\ run.pc \notin Ended => \A o \in Ops : op[o].pc = "idle"
    /\ \A o, q \in Ops : Active(o) /\ Active(q) => o = q

\* The state in the memory of the run process at its control points.
MemoryInv ==
    /\ run.pc \in Launched \cup Attended => run.state = "running"
    /\ run.pc \in Reviewing \cup Offering => run.state = "succeeded"
    /\ run.state # "committed"

\* The record follows the run process.
StageInv ==
    /\ run.pc \in BeforeMount => record.state \in {"none", "preparing"} /\ ~mounted
    /\ run.pc \in {"historyPrepared", "mount"} => record.state = "preparing"
    /\ run.pc \in Launched => record.state = "preparing" /\ mounted
    /\ run.pc \in Attended \cup Reviewing => record.state = "running" /\ mounted
    /\ run.pc \in Offering => record.state = "succeeded"
    /\ run.pc \in Undoing => record.state \in {"preparing", "running"}
    /\ run.pc \in Undoing \ {"discard", "persistFinal"} => mounted
    /\ run.pc \in Finishing => run.state # "succeeded"
    /\ run.pc \in Finishing \ {"persistFinal"} => record.state # "succeeded"

\* Nothing is in the way of the command that takes an offered result: its scope is
\* gone, its checkpoint is in the graph, and a commit is for good.
Goal(kind) == IF kind = "commit" THEN "committed" ELSE "rolled_back"
WayInv ==
    /\ record.state = "none" => \A o \in Ops : op[o].pc = "idle"
    /\ ckpt = "none" => record.state = "none" /\ run.pc \in {"plan"} \cup Ended
    /\ "succeeded" \in {run.state, record.state} => ~cgroup
    /\ \A o \in Ops :
         /\ op[o].pc = "idle" => ~op[o].err
         /\ op[o].pc \in {"ckpt", "persist", "history"} => op[o].state = Goal(op[o].kind)
         /\ op[o].pc = "ckpt" => op[o].kind = "rollback"
         /\ Active(o) /\ record.state = "succeeded" =>
              ~op[o].err /\ (op[o].pc = "scope" => ~op[o].scope)
         /\ Active(o) /\ op[o].kind = "rollback" /\ op[o].pc # "history" =>
              record.state # "committed"

\* An offered result is mounted and complete until a command takes it away; the
\* owner's tree is the owner's alone, except under a commit.
OfferInv ==
    /\ record.state = "succeeded" /\ (\A o \in Ops : op[o].pc \notin {"ckpt", "persist"})
         => reviewed = Result
    /\ record.state = "succeeded" /\ (\A o \in Ops : op[o].pc \notin {"discard", "ckpt", "persist"})
         => mounted
    /\ record.state # "committed" /\ (\A o \in Ops : ~Installs(o)) => lower = user

\* What is still to be copied is as it was checked, what is no longer to be
\* copied is in the workspace.
CommitInv ==
    \A o \in Ops : Active(o) /\ op[o].kind = "commit" /\ op[o].pc # "history" =>
        /\ record.state = "succeeded"
        /\ op[o].pc = "check" => op[o].cand = Merged
        /\ op[o].pc \in Applying \cup {"check"} => \A p \in Paths :
              reviewed[p] # Base[p] => op[o].cand[p] = reviewed[p]
        /\ op[o].pc \in Applying => \A p \in Paths :
              IF p \in op[o].todo
                THEN /\ reviewed[p] # Base[p] /\ lower[p] = Base[p]
                     /\ user[p] = Base[p]
                ELSE IF reviewed[p] = Base[p] THEN lower[p] = user[p] ELSE lower[p] = reviewed[p]
        /\ op[o].pc \in {"unmount", "discard", "persist"} => op[o].todo = {}

\* The processes of the run by control point: none before the start, at most the
\* helper behind a closed gate, none after the teardown; and what a run that has
\* come to its own end leaves mounted is on offer.
CleanInv ==
    /\ run.pc \in BeforeMount \cup Finishing => ~mounted
    /\ run.pc \in BeforeMount \cup {"start", "unmount", "discard", "exited"} \cup Finishing
         => procs = {}
    /\ run.pc \notin Ended => (~run.process => procs = {})
    /\ run.pc \in Starting \ {"plan", "prepare"} => run.scope
    /\ run.pc \notin Ended \cup {"plan", "prepare"} => (~run.scope => procs = {})
    /\ run.pc \in Released => gate = "open"
    /\ gate = "closed" =>
         /\ procs \subseteq {"agent"}
         /\ run.pc = "kill" => ~run.waited
         /\ run.pc \in {"boundary", "scope"} => procs = {}
    /\ run.pc \in Offering => record.state = "succeeded"
    /\ run.pc = "exited" =>
         /\ mounted => record.state = "succeeded"
         /\ \A o \in Ops : op[o].pc \in {"ckpt", "persist", "history"} => ~mounted

\* Before the run has added its checkpoint there is no record, hence no command;
\* a rollback from the command line that is past its checkpoint step has rolled
\* the node back, and nothing leads out of that state.
CkptInv ==
    /\ run.pc \in {"plan", "prepare"} =>
         record.state = "none" /\ \A o \in Ops : op[o].pc = "idle"
    /\ \A o \in Ops :
         op[o].kind = "rollback" /\ op[o].via = "cli" /\ op[o].pc \in {"persist", "history", "done"}
           => ckpt \in {"off", "rolled_back"}
=============================================================================
