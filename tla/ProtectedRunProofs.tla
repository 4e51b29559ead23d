------------------------- MODULE ProtectedRunProofs -------------------------
(***************************************************************************)
(* Theorems about ProtectedRun, for every number of commands, every set of *)
(* paths, every configuration and every combination of faults.             *)
(***************************************************************************)
EXTENDS ProtectedRunRefines, TLAPS

USE DEF durable, tree, agent, bounds, ghosts

-----------------------------------------------------------------------------
(* Types *)

\* lifecycle.Transition returns a state of the machine, refused or not.
LEMMA TransitionTyped ==
    ASSUME NEW from \in States, NEW to \in States
    PROVE  Transition(from, to) \in States
  BY DEF Transition

\* The run's options are Booleans.
LEMMA ConfigTyped == UseNetwork \in BOOLEAN /\ UseSensor \in BOOLEAN /\ UseGraph \in BOOLEAN
  BY ConfigAssumption

\* handleRun goes from one control point to another.
LEMMA GotoTyped ==
    ASSUME run \in RunType, NEW step \in RunSteps \cup Ended, Goto(step)
    PROVE  run' \in RunType
  BY DEF RunType, Goto

\* Every way into the teardown names a flow that RunPersistFinal knows.
LEMMA TearDownTyped ==
    ASSUME run \in RunType, NEW flow \in Flows, TearDown(flow)
    PROVE  run' \in RunType
  BY DEF RunType, TearDown, RunSteps

\* What the record's writers, the checkpoint graph, the overlay and the cgroup
\* leave behind.
LEMMA WritesRecordTyped ==
    ASSUME TypeOK, WritesRecord \/ RecordWriteFails(NewRecord)
    PROVE  record' \in RecordType
<1>1. NewRecord \in RecordType
  <2>1. run.state \in RecordStates
    BY DEF TypeOK, RunType, RecordStates
  <2>2. (~lossy) \in BOOLEAN
    OBVIOUS
  <2> QED
    BY <2>1, <2>2 DEF NewRecord, RecordType
<1>2. record' = record \/ record' = NewRecord
  BY DEF WritesRecord, RecordWriteFails
<1> QED
  BY <1>1, <1>2 DEF TypeOK

\* A move of the checkpoint node, made or refused, leaves one of its states.
LEMMA CkptTyped ==
    ASSUME TypeOK, NEW to \in {"running", "succeeded", "rolled_back"},
           CkptMoves(to) \/ CkptRefuses(to)
    PROVE  ckpt' \in CheckpointStates
  BY DEF TypeOK, CkptMoves, CkptRefuses, CheckpointStates

\* What the merged directory shows is a manifest: whiteouts and paths that the
\* upper layer lacks are resolved.
LEMMA MergedTyped ==
    ASSUME TypeOK
    PROVE  Merged \in Manifest
  BY DEF TypeOK, Merged, Manifest, Upper

\* What the run has made of the base is a manifest.
LEMMA ResultTyped ==
    ASSUME TypeOK
    PROVE  Result \in Manifest
  BY BaseAssumption DEF TypeOK, Result, Manifest, Upper

\* Manager.Rollback's unmount leaves the overlay mounted or not.
LEMMA UnmountTyped ==
    ASSUME TypeOK, RollbackUnmounts \/ RollbackRefuses
    PROVE  mounted' \in BOOLEAN
  BY DEF TypeOK, RollbackUnmounts, RollbackRefuses, Unmounts, UnmountBusy

\* RemoveAll of the upper layer, complete or not, leaves an upper layer.
LEMMA DiscardTyped ==
    ASSUME TypeOK, Discards \/ DiscardFails
    PROVE  upper' \in Upper
  BY DEF TypeOK, Discards, DiscardFails, EmptyUpper, Upper

\* Terminate and Close of the cgroup only take processes away.
LEMMA ScopeTyped ==
    ASSUME TypeOK, ScopeEmptied \/ ScopeRemains
    PROVE  /\ procs' \subseteq {"agent", "child"}
           /\ exit' \in {"none", "ok", "fail"}
           /\ cgroup' \in BOOLEAN
<1>1. CASE ScopeEmptied
  BY <1>1 DEF TypeOK, ScopeEmptied
<1>2. CASE ScopeRemains
  <2>1. cgroup' \in BOOLEAN
    BY <1>2 DEF ScopeRemains
  <2> QED
    BY <1>2, <2>1 DEF TypeOK, ScopeRemains
<1> QED
  BY <1>1, <1>2

\* The run process keeps its own state typed.
LEMMA RunStepTyped ==
    ASSUME run \in RunType, RunNext \/ RunCrash
    PROVE  run' \in RunType
<1> USE GotoTyped, TearDownTyped, ConfigTyped
<1>1. CASE RunAddCheckpoint
  BY <1>1 DEF RunAddCheckpoint, FailAndRollback, RunSteps, Ended, Flows
<1>2. CASE RunPrepare
  <2>1. CASE run' = [run EXCEPT !.pc = "persistPrepared", !.scope = TRUE]
    BY <2>1 DEF RunType, RunSteps
  <2>2. CASE Goto("exited")
    BY <2>2 DEF Ended
  <2> QED
    BY <1>2, <2>1, <2>2 DEF RunPrepare
<1>3. CASE RunPersistPrepared
  BY <1>3 DEF RunPersistPrepared, FailAndRollback, RunSteps, Ended, Flows
<1>4. CASE RunHistoryPrepared
  BY <1>4 DEF RunHistoryPrepared, FailAndRollback, RunSteps, Ended, Flows
<1>5. CASE CoordMount
  <2>1. CASE run' = [run EXCEPT !.pc = "start",
                                !.state = Transition(Transition(run.state, "mounted"), "running")]
    BY <2>1, TransitionTyped DEF RunType, RunSteps, States
  <2>2. CASE run' = [run EXCEPT !.pc = "persistFinal", !.flow = "startFailed"]
    BY <2>2 DEF RunType, RunSteps, Flows
  <2> QED
    BY <1>5, <2>1, <2>2 DEF CoordMount
<1>6. CASE CoordStart
  BY <1>6 DEF CoordStart, RunType, Goto, RunSteps, Ended, FailAndRollback, TearDown, Flows
<1>7. CASE CoordAddPID
  BY <1>7 DEF CoordAddPID, FailAndRollback, RunSteps, Ended, Flows
<1>8. CASE CoordPrepareNetwork
  <2>1. CASE run' = [run EXCEPT !.pc = "attach", !.net = TRUE]
    BY <2>1 DEF RunType, RunSteps
  <2>2. CASE Goto("attach") \/ FailAndRollback
    BY <2>2 DEF FailAndRollback, RunSteps, Flows
  <2> QED
    BY <1>8, <2>1, <2>2 DEF CoordPrepareNetwork
<1>9. CASE CoordAttachSensor
  <2>1. CASE run' = [run EXCEPT !.pc = "gate", !.sensor = UseSensor]
    BY <2>1 DEF RunType, RunSteps
  <2>2. CASE FailAndRollback
    BY <2>2 DEF FailAndRollback, Flows
  <2> QED
    BY <1>9, <2>1, <2>2 DEF CoordAttachSensor
<1>10. CASE CoordReleaseGate
  BY <1>10 DEF CoordReleaseGate, FailAndRollback, RunSteps, Ended, Flows
<1>11. CASE RunCheckpointRunning
  BY <1>11 DEF RunCheckpointRunning, FailAndRollback, RunSteps, Ended, Flows
<1>12. CASE RunPersistRunning
  BY <1>12 DEF RunPersistRunning, FailAndRollback, RunSteps, Ended, Flows
<1>13. CASE RunHistoryRunning
  BY <1>13 DEF RunHistoryRunning, FailAndRollback, RunSteps, Ended, Flows
<1>14. CASE WaitAgent
  BY <1>14 DEF WaitAgent, RunType, Goto, RunSteps, Ended, FailAndRollback, TearDown, Flows
<1>15. CASE WaitNetwork
  <2>1. CASE run' = [run EXCEPT !.pc = "waitSensor", !.net = FALSE]
    BY <2>1 DEF RunType, RunSteps
  <2>2. CASE run' = [run EXCEPT !.pc = "waitSensor", !.net = FALSE, !.waitErr = TRUE]
    BY <2>2 DEF RunType, RunSteps
  <2> QED
    BY <1>15, <2>1, <2>2 DEF WaitNetwork
<1>16. CASE WaitSensor
  <2>1. PICK err \in BOOLEAN :
          run' = [run EXCEPT !.pc = "waitScope", !.sensor = FALSE, !.waitErr = err]
    BY <1>16 DEF WaitSensor, RunType
  <2> QED
    BY <2>1 DEF RunType, RunSteps
<1>17. CASE WaitCloseScope
  <2>1. PICK next \in {"failed", "succeeded"}, step \in {"ckptRollback", "scan"} :
          run' = [run EXCEPT !.scope = FALSE, !.state = Transition(@, next), !.pc = step]
    BY <1>17 DEF WaitCloseScope
  <2> DEFINE state == Transition(run.state, next)
  <2>2. state \in States /\ step \in RunSteps
    BY TransitionTyped DEF RunType, RunSteps, States
  <2>3. run' = [run EXCEPT !.scope = FALSE, !.state = state, !.pc = step]
    BY <2>1
  <2> HIDE DEF state
  <2> QED
    BY <2>2, <2>3 DEF RunType
<1>18. CASE RunCheckpointWaitFailed
  BY <1>18 DEF RunCheckpointWaitFailed, FailAndRollback, RunSteps, Ended, Flows
<1>19. CASE RunScan
  BY <1>19 DEF RunScan, FailAndRollback, RunSteps, Ended, Flows
<1>20. CASE RunPersistReview
  BY <1>20 DEF RunPersistReview, FailAndRollback, RunSteps, Ended, Flows
<1>21. CASE RunHistoryReview
  BY <1>21 DEF RunHistoryReview, FailAndRollback, RunSteps, Ended, Flows
<1>22. CASE RunCheckpointSucceeded
  BY <1>22 DEF RunCheckpointSucceeded, FailAndRollback, RunSteps, Ended, Flows
<1>23. CASE TeardownKill
  <2>1. PICK waited, err \in BOOLEAN :
          run' = [run EXCEPT !.pc = "boundary", !.waited = waited, !.err = err]
    BY <1>23 DEF TeardownKill, RunType
  <2> QED
    BY <2>1 DEF RunType, RunSteps
<1>24. CASE TeardownBoundary
  <2>1. PICK net, err \in BOOLEAN :
          run' = [run EXCEPT !.pc = "scope", !.net = net, !.sensor = FALSE, !.err = err]
    BY <1>24 DEF TeardownBoundary, RunType
  <2> QED
    BY <2>1 DEF RunType, RunSteps
<1>25. CASE TeardownScope
  <2>1. PICK err \in BOOLEAN :
          run' = [run EXCEPT !.pc = "unmount", !.state = Transition(@, "failed"), !.err = err]
    BY <1>25 DEF TeardownScope, RunType
  <2> QED
    BY <2>1, TransitionTyped DEF RunType, RunSteps, States
<1>26. CASE TeardownUnmount
  <2>1. CASE Goto("discard")
    BY <2>1 DEF RunSteps
  <2>2. CASE run' = [run EXCEPT !.pc = AfterTeardown(run.flow), !.err = TRUE]
    <3>1. AfterTeardown(run.flow) \in RunSteps \cup Ended
      BY DEF RunSteps, Ended, AfterTeardown
    <3> QED
      BY <2>2, <3>1 DEF RunType
  <2> QED
    BY <1>26, <2>1, <2>2 DEF TeardownUnmount
<1>27. CASE TeardownDiscard
  <2>1. PICK step \in {"exited", "persistFinal"} :
          \/ run' = [run EXCEPT !.pc = step, !.state = Transition(@, "rolled_back")]
          \/ run' = [run EXCEPT !.pc = step, !.err = TRUE]
    BY <1>27 DEF TeardownDiscard, AfterTeardown
  <2>2. CASE run' = [run EXCEPT !.pc = step, !.state = Transition(@, "rolled_back")]
    <3>1. Transition(run.state, "rolled_back") \in States /\ step \in RunSteps \cup Ended
      BY TransitionTyped DEF RunType, RunSteps, Ended, States
    <3> QED
      BY <2>2, <3>1 DEF RunType
  <2>3. CASE run' = [run EXCEPT !.pc = step, !.err = TRUE]
    BY <2>3 DEF RunType, RunSteps, Ended
  <2> QED
    BY <2>1, <2>2, <2>3
<1>28. CASE RunPersistFinal
  BY <1>28 DEF RunPersistFinal, FailAndRollback, RunSteps, Ended, Flows
<1>29. CASE RunCheckpointFinal
  BY <1>29 DEF RunCheckpointFinal, FailAndRollback, RunSteps, Ended, Flows
<1>30. CASE RunHistoryFinal
  BY <1>30 DEF RunHistoryFinal, FailAndRollback, RunSteps, Ended, Flows
<1>31. CASE RunCrash
  BY <1>31 DEF RunCrash, RunType, Goto, RunSteps, Ended, FailAndRollback, TearDown, Flows
<1> QED
  BY <1>1, <1>2, <1>3, <1>4, <1>5, <1>6, <1>7, <1>8, <1>9, <1>10,
     <1>11, <1>12, <1>13, <1>14, <1>15, <1>16, <1>17, <1>18, <1>19, <1>20,
     <1>21, <1>22, <1>23, <1>24, <1>25, <1>26, <1>27, <1>28, <1>29, <1>30,
     <1>31
  DEF RunNext

\* A step of the run process keeps everything else typed.
LEMMA RunKeepsTypes ==
    ASSUME TypeOK, RunNext \/ RunCrash
    PROVE  TypeOK'
<1> run' \in RunType
  BY RunStepTyped DEF TypeOK
<1>1. CASE RunAddCheckpoint
  <2>1. ckpt' \in CheckpointStates
    BY <1>1 DEF RunAddCheckpoint, TypeOK, CheckpointStates
  <2> QED
    BY <1>1, <2>1 DEF RunAddCheckpoint, TypeOK
<1>2. CASE RunPrepare
  <2>1. cgroup' \in BOOLEAN
    BY <1>2 DEF RunPrepare, TypeOK
  <2> QED
    BY <1>2, <2>1 DEF RunPrepare, TypeOK
<1>3. CASE RunPersistPrepared
  <2>1. record' \in RecordType
    BY <1>3, WritesRecordTyped DEF RunPersistPrepared, TypeOK
  <2> QED
    BY <1>3, <2>1 DEF RunPersistPrepared, TypeOK
<1>4. CASE RunHistoryPrepared
  <2>1. hist' \in RecordStates
    BY <1>4 DEF RunHistoryPrepared, TypeOK, RunType, RecordStates, WritesHistory, HistoryWriteFails
  <2> QED
    BY <1>4, <2>1 DEF RunHistoryPrepared, TypeOK
<1>5. CASE CoordMount
  <2>1. mounted' \in BOOLEAN
    BY <1>5 DEF CoordMount, TypeOK
  <2> QED
    BY <1>5, <2>1 DEF CoordMount, TypeOK
<1>6. CASE CoordStart
  BY <1>6 DEF CoordStart, TypeOK
<1>7. CASE CoordAddPID
  <2>1. scoped' \in BOOLEAN
    BY <1>7 DEF CoordAddPID, TypeOK
  <2> QED
    BY <1>7, <2>1 DEF CoordAddPID, TypeOK
<1>8. CASE CoordPrepareNetwork
  <2>1. network' \in BOOLEAN
    BY <1>8 DEF CoordPrepareNetwork, TypeOK
  <2> QED
    BY <1>8, <2>1 DEF CoordPrepareNetwork, TypeOK
<1>9. CASE CoordAttachSensor
  BY <1>9 DEF CoordAttachSensor, TypeOK
<1>10. CASE CoordReleaseGate
  BY <1>10 DEF CoordReleaseGate, TypeOK
<1>11. CASE RunCheckpointRunning
  <2>1. ckpt' \in CheckpointStates
    BY <1>11, CkptTyped DEF RunCheckpointRunning
  <2> QED
    BY <1>11, <2>1 DEF RunCheckpointRunning, TypeOK
<1>12. CASE RunPersistRunning
  <2>1. record' \in RecordType
    BY <1>12, WritesRecordTyped DEF RunPersistRunning, TypeOK
  <2> QED
    BY <1>12, <2>1 DEF RunPersistRunning, TypeOK
<1>13. CASE RunHistoryRunning
  <2>1. hist' \in RecordStates
    BY <1>13 DEF RunHistoryRunning, TypeOK, RunType, RecordStates, WritesHistory, HistoryWriteFails
  <2> QED
    BY <1>13, <2>1 DEF RunHistoryRunning, TypeOK
<1>14. CASE WaitAgent
  BY <1>14 DEF WaitAgent, TypeOK
<1>15. CASE WaitNetwork
  <2>1. network' \in BOOLEAN
    BY <1>15 DEF WaitNetwork, TypeOK
  <2> QED
    BY <1>15, <2>1 DEF WaitNetwork, TypeOK
<1>16. CASE WaitSensor
  BY <1>16 DEF WaitSensor, TypeOK
<1>17. CASE WaitCloseScope
  <2>1. procs' \subseteq {"agent", "child"} /\ exit' \in {"none", "ok", "fail"} /\ cgroup' \in BOOLEAN
    BY <1>17, ScopeTyped DEF WaitCloseScope, TypeOK
  <2> QED
    BY <1>17, <2>1 DEF WaitCloseScope, TypeOK
<1>18. CASE RunCheckpointWaitFailed
  <2>1. ckpt' \in CheckpointStates
    BY <1>18, CkptTyped DEF RunCheckpointWaitFailed
  <2> QED
    BY <1>18, <2>1 DEF RunCheckpointWaitFailed, TypeOK
<1>19. CASE RunScan
  BY <1>19 DEF RunScan, TypeOK
<1>20. CASE RunPersistReview
  <2>1. record' \in RecordType /\ reviewed' \in Manifest
    BY <1>20, WritesRecordTyped, ResultTyped DEF RunPersistReview, TypeOK
  <2> QED
    BY <1>20, <2>1 DEF RunPersistReview, TypeOK
<1>21. CASE RunHistoryReview
  <2>1. hist' \in RecordStates
    BY <1>21 DEF RunHistoryReview, TypeOK, RunType, RecordStates, WritesHistory, HistoryWriteFails
  <2> QED
    BY <1>21, <2>1 DEF RunHistoryReview, TypeOK
<1>22. CASE RunCheckpointSucceeded
  <2>1. ckpt' \in CheckpointStates
    BY <1>22, CkptTyped DEF RunCheckpointSucceeded
  <2> QED
    BY <1>22, <2>1 DEF RunCheckpointSucceeded, TypeOK
<1>23. CASE TeardownKill
  BY <1>23 DEF TeardownKill, TypeOK
<1>24. CASE TeardownBoundary
  <2>1. network' \in BOOLEAN
    BY <1>24 DEF TeardownBoundary, TypeOK
  <2> QED
    BY <1>24, <2>1 DEF TeardownBoundary, TypeOK
<1>25. CASE TeardownScope
  <2>1. procs' \subseteq {"agent", "child"} /\ exit' \in {"none", "ok", "fail"} /\ cgroup' \in BOOLEAN
    BY <1>25, ScopeTyped DEF TeardownScope, TypeOK
  <2> QED
    BY <1>25, <2>1 DEF TeardownScope, TypeOK
<1>26. CASE TeardownUnmount
  <2>1. mounted' \in BOOLEAN
    BY <1>26, UnmountTyped DEF TeardownUnmount
  <2> QED
    BY <1>26, <2>1 DEF TeardownUnmount, TypeOK
<1>27. CASE TeardownDiscard
  <2>1. upper' \in Upper
    BY <1>27, DiscardTyped DEF TeardownDiscard
  <2> QED
    BY <1>27, <2>1 DEF TeardownDiscard, TypeOK
<1>28. CASE RunPersistFinal
  <2>1. record' \in RecordType
    BY <1>28, WritesRecordTyped DEF RunPersistFinal, TypeOK
  <2> QED
    BY <1>28, <2>1 DEF RunPersistFinal, TypeOK
<1>29. CASE RunCheckpointFinal
  <2>1. ckpt' \in CheckpointStates
    BY <1>29, CkptTyped DEF RunCheckpointFinal
  <2> QED
    BY <1>29, <2>1 DEF RunCheckpointFinal, TypeOK
<1>30. CASE RunHistoryFinal
  <2>1. hist' \in RecordStates
    BY <1>30 DEF RunHistoryFinal, TypeOK, RunType, RecordStates, WritesHistory, HistoryWriteFails
  <2> QED
    BY <1>30, <2>1 DEF RunHistoryFinal, TypeOK
<1>31. CASE RunCrash
  BY <1>31 DEF RunCrash, TypeOK
<1> QED
  BY <1>1, <1>2, <1>3, <1>4, <1>5, <1>6, <1>7, <1>8, <1>9, <1>10,
     <1>11, <1>12, <1>13, <1>14, <1>15, <1>16, <1>17, <1>18, <1>19, <1>20,
     <1>21, <1>22, <1>23, <1>24, <1>25, <1>26, <1>27, <1>28, <1>29, <1>30,
     <1>31
  DEF RunNext

\* The agent, the kernel and the workspace's owner keep everything typed.
LEMMA SurroundingsKeepTypes ==
    ASSUME TypeOK, AgentNext \/ EnvNext
    PROVE  TypeOK'
<1>1. CASE HelperFails
  BY <1>1 DEF HelperFails, TypeOK
<1>2. ASSUME NEW p \in Paths, NEW v \in Entries \cup {NoEntry}, AgentWrite(p, v)
      PROVE  TypeOK'
  <2>1. upper' \in Upper
    BY <1>2 DEF AgentWrite, TypeOK, Upper
  <2> QED
    BY <1>2, <2>1 DEF AgentWrite, TypeOK
<1>3. CASE AgentForks
  BY <1>3 DEF AgentForks, TypeOK
<1>4. ASSUME NEW code \in {"ok", "fail"}, AgentExits(code)
      PROVE  TypeOK'
  BY <1>4 DEF AgentExits, TypeOK
<1>5. CASE ChildExits
  BY <1>5 DEF ChildExits, TypeOK
<1>6. CASE EventLost
  BY <1>6 DEF EventLost, TypeOK
<1>7. CASE FuseExits
  BY <1>7 DEF FuseExits, TypeOK
<1>8. ASSUME NEW p \in Paths, NEW v \in Entries \cup {NoEntry}, UserEdits(p, v)
      PROVE  TypeOK'
  <2>1. lower' \in Manifest /\ user' \in Manifest
    BY <1>8 DEF UserEdits, TypeOK, Manifest
  <2>2. edits' \in 0..MaxEdits
    BY <1>8, ConfigAssumption DEF UserEdits, TypeOK
  <2> QED
    BY <1>8, <2>1, <2>2 DEF UserEdits, TypeOK
<1> QED
  BY <1>1, <1>2, <1>3, <1>4, <1>5, <1>6, <1>7, <1>8 DEF AgentNext, EnvNext

\* A command's step replaces its own entry.
LEMMA OpUpdateTyped ==
    ASSUME op \in [Ops -> OpType], NEW o \in Ops, NEW r \in OpType,
           op' = [op EXCEPT ![o] = r]
    PROVE  op' \in [Ops -> OpType]
  OBVIOUS

\* A command goes from one control point to another.
LEMMA OpGotoTyped ==
    ASSUME op \in [Ops -> OpType], NEW o \in Ops, NEW step \in OpSteps \cup OpEnded,
           OpGoto(o, step)
    PROVE  op' \in [Ops -> OpType]
  BY DEF OpGoto, OpType

\* A command reads the record into its own state.
LEMMA OpStartKeepsTypes ==
    ASSUME TypeOK, NEW o \in Ops, OpStart(o)
    PROVE  TypeOK'
<1>1. PICK via \in {"cli", "supervisor"} : OpStartRollback(o, via) \/ OpStartCommit(o, via)
  BY DEF OpStart
<1>2. /\ op \in [Ops -> OpType] /\ op[o] \in OpType /\ cgroup \in BOOLEAN
      /\ record.complete \in BOOLEAN
  BY DEF TypeOK, RecordType
<1>3. record.state \in States
  BY <1>1 DEF TypeOK, RecordType, RecordStates, OpReads, OpStartRollback, OpStartCommit
<1>4. op' \in [Ops -> OpType]
  <2>1. CASE OpStartRollback(o, via)
    <3>1. PICK state \in States, step \in OpSteps \cup OpEnded :
            op' = [op EXCEPT ![o] = [@ EXCEPT !.kind = "rollback", !.via = via,
                                              !.complete = record.complete, !.scope = cgroup,
                                              !.state = state, !.pc = step]]
      <4> DEFINE failed == IF record.state \in {"running", "mounted"}
                             THEN Transition(record.state, "failed") ELSE record.state
                 state == IF failed = "preparing" THEN Transition(failed, "rolled_back") ELSE failed
                 step == CASE failed \in {"preparing", "rolled_back"} -> AfterRollbackPlan(via)
                           [] failed \in {"failed", "succeeded", "paused"} -> "scope"
                           [] OTHER -> "refused"
      <4>1. failed \in States
        BY <1>3, TransitionTyped DEF States
      <4>2. state \in States
        BY <4>1, TransitionTyped DEF States
      <4>3. step \in OpSteps \cup OpEnded
        BY DEF AfterRollbackPlan, OpSteps, OpEnded
      <4>4. op' = [op EXCEPT ![o] = [@ EXCEPT !.kind = "rollback", !.via = via,
                                              !.complete = record.complete, !.scope = cgroup,
                                              !.state = state, !.pc = step]]
        BY <2>1 DEF OpStartRollback
      <4> QED
        BY <4>2, <4>3, <4>4
    <3> DEFINE r == [op[o] EXCEPT !.kind = "rollback", !.via = via,
                                  !.complete = record.complete, !.scope = cgroup,
                                  !.state = state, !.pc = step]
    <3>2. r \in OpType
      BY <1>2 DEF OpType
    <3> QED
      BY <1>2, <3>1, <3>2, OpUpdateTyped
  <2>2. CASE OpStartCommit(o, via)
    <3>1. PICK step \in OpSteps \cup OpEnded :
            op' = [op EXCEPT ![o] = [@ EXCEPT !.kind = "commit", !.via = via,
                                              !.complete = record.complete,
                                              !.state = record.state, !.pc = step]]
      BY <2>2 DEF OpStartCommit, OpSteps, OpEnded
    <3> DEFINE r == [op[o] EXCEPT !.kind = "commit", !.via = via, !.complete = record.complete,
                                  !.state = record.state, !.pc = step]
    <3>2. r \in OpType
      BY <1>2, <1>3 DEF OpType
    <3> QED
      BY <1>2, <3>1, <3>2, OpUpdateTyped
  <2> QED
    BY <1>1, <2>1, <2>2
<1> QED
  BY <1>1, <1>4 DEF OpStartRollback, OpStartCommit, TypeOK

\* Each step of a command keeps its own state typed.
LEMMA OpStepTyped ==
    ASSUME TypeOK, NEW o \in Ops, OpStep(o) \/ OpCrash(o)
    PROVE  op' \in [Ops -> OpType]
<1> op \in [Ops -> OpType] /\ op[o] \in OpType
  BY DEF TypeOK
<1>1. CASE OpScope(o)
  <2>1. CASE OpGoto(o, "unmount")
    BY <2>1, OpGotoTyped DEF OpSteps
  <2>2. PICK err \in BOOLEAN : \/ OpGoto(o, "unmount")
                              \/ op' = [op EXCEPT ![o] = [@ EXCEPT !.pc = "unmount", !.err = err]]
    BY <1>1 DEF OpScope, OpType
  <2>3. [op[o] EXCEPT !.pc = "unmount", !.err = err] \in OpType
    BY DEF OpType, OpSteps
  <2>4. CASE op' = [op EXCEPT ![o] = [@ EXCEPT !.pc = "unmount", !.err = err]]
    BY <2>3, <2>4, OpUpdateTyped
  <2> QED
    BY <2>1, <2>2, <2>4
<1>2. CASE OpUnmount(o)
  BY <1>2, OpGotoTyped DEF OpUnmount, OpSteps, OpEnded
<1>3. CASE OpDiscard(o)
  <2>1. CASE OpGoto(o, "refused")
    BY <2>1, OpGotoTyped DEF OpEnded
  <2>2. PICK goal \in States, step \in OpSteps \cup OpEnded :
          \/ OpGoto(o, "refused")
          \/ op' = [op EXCEPT ![o] = [@ EXCEPT !.state = Transition(op[o].state, goal), !.pc = step]]
    BY <1>3 DEF OpDiscard, AfterRollbackPlan, States, OpSteps, OpEnded
  <2>3. [op[o] EXCEPT !.state = Transition(op[o].state, goal), !.pc = step] \in OpType
    BY TransitionTyped DEF OpType
  <2>4. CASE op' = [op EXCEPT ![o] = [@ EXCEPT !.state = Transition(op[o].state, goal), !.pc = step]]
    BY <2>3, <2>4, OpUpdateTyped
  <2> QED
    BY <2>1, <2>2, <2>4
<1>4. CASE OpCheckpoint(o)
  BY <1>4, OpGotoTyped DEF OpCheckpoint, OpSteps, OpEnded
<1>5. CASE OpPersist(o)
  BY <1>5, OpGotoTyped DEF OpPersist, OpSteps, OpEnded
<1>6. CASE OpHistory(o)
  BY <1>6, OpGotoTyped DEF OpHistory, OpSteps, OpEnded
<1>7. CASE OpCandidate(o)
  <2>1. [op[o] EXCEPT !.pc = "check", !.cand = Merged] \in OpType
    BY MergedTyped DEF OpType, OpSteps
  <2> QED
    BY <1>7, <2>1, OpUpdateTyped DEF OpCandidate
<1>8. CASE OpCheck(o)
  <2>1. [op[o] EXCEPT !.pc = "apply", !.todo = Compare(Base, op[o].cand)] \in OpType
    BY DEF OpType, OpSteps, Compare, Created, Deleted, Modified
  <2>2. [op[o] EXCEPT !.pc = "refused"] \in OpType
    BY DEF OpType, OpEnded
  <2> QED
    BY <1>8, <2>1, <2>2, OpUpdateTyped DEF OpCheck
<1>9. ASSUME NEW p \in Paths, OpApply(o, p)
      PROVE  op' \in [Ops -> OpType]
  <2>2. CASE op' = [op EXCEPT ![o].todo = @ \ {p}]
    BY <2>2 DEF OpType
  <2>3. CASE OpGoto(o, "refused")
    BY <2>3, OpGotoTyped DEF OpEnded
  <2> QED
    BY <1>9, <2>2, <2>3 DEF OpApply
<1>10. CASE OpApplied(o)
  BY <1>10, OpGotoTyped DEF OpApplied, OpSteps
<1>11. CASE OpCrash(o)
  BY <1>11, OpGotoTyped DEF OpCrash, OpEnded
<1> QED
  BY <1>1, <1>2, <1>3, <1>4, <1>5, <1>6, <1>7, <1>8, <1>9, <1>10, <1>11 DEF OpStep

\* A step of a command keeps everything else typed.
LEMMA OpStepKeepsTypes ==
    ASSUME TypeOK, NEW o \in Ops, OpStep(o) \/ OpCrash(o)
    PROVE  TypeOK'
<1> op' \in [Ops -> OpType]
  BY OpStepTyped
<1> op[o] \in OpType
  BY DEF TypeOK
<1>1. CASE OpScope(o)
  <2>1. /\ procs' \subseteq {"agent", "child"} /\ exit' \in {"none", "ok", "fail"}
        /\ cgroup' \in BOOLEAN
    BY <1>1, ScopeTyped DEF OpScope, TypeOK
  <2> QED
    BY <1>1, <2>1 DEF OpScope, TypeOK
<1>2. CASE OpUnmount(o)
  <2>1. mounted' \in BOOLEAN
    BY <1>2, UnmountTyped DEF OpUnmount
  <2> QED
    BY <1>2, <2>1 DEF OpUnmount, TypeOK
<1>3. CASE OpDiscard(o)
  <2>1. upper' \in Upper
    BY <1>3, DiscardTyped DEF OpDiscard
  <2> QED
    BY <1>3, <2>1 DEF OpDiscard, TypeOK
<1>4. CASE OpCheckpoint(o)
  <2>1. ckpt' \in CheckpointStates
    BY <1>4, CkptTyped DEF OpCheckpoint
  <2> QED
    BY <1>4, <2>1 DEF OpCheckpoint, TypeOK
<1>5. CASE OpPersist(o)
  <2>1. record' \in RecordType
    BY <1>5 DEF OpPersist, TypeOK, RecordType, RecordStates, OpType, RecordWriteFails
  <2> QED
    BY <1>5, <2>1 DEF OpPersist, TypeOK
<1>6. CASE OpHistory(o)
  <2>1. hist' \in RecordStates
    BY <1>6 DEF OpHistory, TypeOK, RecordStates, OpType, HistoryWriteFails
  <2> QED
    BY <1>6, <2>1 DEF OpHistory, TypeOK
<1>7. CASE OpCandidate(o)
  BY <1>7 DEF OpCandidate, TypeOK
<1>8. CASE OpCheck(o)
  BY <1>8 DEF OpCheck, TypeOK
<1>9. ASSUME NEW p \in Paths, OpApply(o, p)
      PROVE  TypeOK'
  <2>1. lower' \in Manifest
    BY <1>9, MergedTyped DEF OpApply, TypeOK, Manifest
  <2> QED
    BY <1>9, <2>1 DEF OpApply, TypeOK
<1>10. CASE OpApplied(o)
  BY <1>10 DEF OpApplied, TypeOK
<1>11. CASE OpCrash(o)
  BY <1>11 DEF OpCrash, TypeOK
<1> QED
  BY <1>1, <1>2, <1>3, <1>4, <1>5, <1>6, <1>7, <1>8, <1>9, <1>10, <1>11 DEF OpStep

\* Every state of a run is well typed, for any number of concurrent commands.
THEOREM TypeCorrect == Spec => []TypeOK
<1>1. Init => TypeOK
  <2> SUFFICES ASSUME Init
               PROVE  TypeOK
    OBVIOUS
  <2>1. run \in RunType
    BY DEF Init, RunType, RunSteps, States, Flows
  <2>2. op \in [Ops -> OpType]
    BY DEF Init, OpType, OpSteps, States, EmptyManifest, Manifest
  <2>3. /\ lower \in Manifest /\ user \in Manifest /\ reviewed \in Manifest
        /\ upper \in Upper
    BY BaseAssumption DEF Init, Manifest, EmptyManifest, EmptyUpper, Upper
  <2>4. /\ record \in RecordType /\ hist \in RecordStates /\ ckpt \in CheckpointStates
        /\ edits \in 0..MaxEdits
    BY ConfigAssumption DEF Init, RecordType, RecordStates, CheckpointStates
  <2> QED
    BY <2>1, <2>2, <2>3, <2>4 DEF Init, TypeOK
<1>2. TypeOK /\ [Next]_vars => TypeOK'
  <2> SUFFICES ASSUME TypeOK, [Next]_vars
               PROVE  TypeOK'
    OBVIOUS
  <2>1. CASE RunNext \/ RunCrash
    BY <2>1, RunKeepsTypes
  <2>2. CASE AgentNext \/ EnvNext
    BY <2>2, SurroundingsKeepTypes
  <2>3. ASSUME NEW o \in Ops, OpStart(o)
        PROVE  TypeOK'
    BY <2>3, OpStartKeepsTypes
  <2>4. ASSUME NEW o \in Ops, OpStep(o) \/ OpCrash(o)
        PROVE  TypeOK'
    BY <2>4, OpStepKeepsTypes
  <2>5. CASE UNCHANGED vars
    BY <2>5 DEF vars, TypeOK
  <2> QED
    BY <2>1, <2>2, <2>3, <2>4, <2>5 DEF Next, Done
<1> QED
  BY <1>1, <1>2, PTL DEF Spec

-----------------------------------------------------------------------------
(* The inductive invariant *)

\* handleRun and the coordinator pass through the states and control points in
\* order: no mount before "start", no step past AddPID without the cgroup.
LEMMA RunKeepsRunInv ==
    ASSUME run \in RunType, RunInv, RunNext \/ RunCrash
    PROVE  RunInv'
<1> USE DEF RunInv, BeforeMount, Admitted, Goto, TearDown, FailAndRollback, RunType
<1>1. CASE RunAddCheckpoint
  BY <1>1 DEF RunAddCheckpoint
<1>2. CASE RunPrepare
  BY <1>2 DEF RunPrepare
<1>3. CASE RunPersistPrepared
  BY <1>3 DEF RunPersistPrepared
<1>4. CASE RunHistoryPrepared
  BY <1>4 DEF RunHistoryPrepared
<1>5. CASE CoordMount
  BY <1>5 DEF CoordMount, Transition, CanTransition, Edges
<1>6. CASE CoordStart
  BY <1>6 DEF CoordStart
<1>7. CASE CoordAddPID
  BY <1>7 DEF CoordAddPID
<1>8. CASE CoordPrepareNetwork
  BY <1>8 DEF CoordPrepareNetwork
<1>9. CASE CoordAttachSensor
  BY <1>9 DEF CoordAttachSensor
<1>10. CASE CoordReleaseGate
  BY <1>10 DEF CoordReleaseGate
<1>11. CASE RunCheckpointRunning
  BY <1>11 DEF RunCheckpointRunning
<1>12. CASE RunPersistRunning
  BY <1>12 DEF RunPersistRunning
<1>13. CASE RunHistoryRunning
  BY <1>13 DEF RunHistoryRunning
<1>14. CASE WaitAgent
  BY <1>14 DEF WaitAgent
<1>15. CASE WaitNetwork
  BY <1>15 DEF WaitNetwork
<1>16. CASE WaitSensor
  BY <1>16 DEF WaitSensor
<1>17. CASE WaitCloseScope
  BY <1>17 DEF WaitCloseScope
<1>18. CASE RunCheckpointWaitFailed
  BY <1>18 DEF RunCheckpointWaitFailed
<1>19. CASE RunScan
  <2>1. run'.pc \in {"kill", "persistReview"}
    BY <1>19 DEF RunScan
  <2> QED
    BY <2>1
<1>20. CASE RunPersistReview
  <2>1. run'.pc \in {"historyReview", "kill"}
    BY <1>20 DEF RunPersistReview
  <2> QED
    BY <2>1
<1>21. CASE RunHistoryReview
  <2>1. run'.pc \in {"ckptSucceeded", "kill"}
    BY <1>21 DEF RunHistoryReview
  <2> QED
    BY <2>1
<1>22. CASE RunCheckpointSucceeded
  BY <1>22 DEF RunCheckpointSucceeded
<1>23. CASE TeardownKill
  BY <1>23 DEF TeardownKill
<1>24. CASE TeardownBoundary
  BY <1>24 DEF TeardownBoundary
<1>25. CASE TeardownScope
  <2>1. run.pc = "scope" /\ run'.pc = "unmount" /\ scoped' = scoped
    BY <1>25 DEF TeardownScope
  <2> QED
    BY <2>1
<1>26. CASE TeardownUnmount
  BY <1>26 DEF TeardownUnmount, AfterTeardown
<1>27. CASE TeardownDiscard
  <2>1. run'.pc \in {"exited", "persistFinal"}
    BY <1>27 DEF TeardownDiscard, AfterTeardown
  <2> QED
    BY <2>1
<1>28. CASE RunPersistFinal
  BY <1>28 DEF RunPersistFinal
<1>29. CASE RunCheckpointFinal
  BY <1>29 DEF RunCheckpointFinal
<1>30. CASE RunHistoryFinal
  BY <1>30 DEF RunHistoryFinal
<1>31. CASE RunCrash
  BY <1>31 DEF RunCrash
<1> QED
  BY <1>1, <1>2, <1>3, <1>4, <1>5, <1>6, <1>7, <1>8, <1>9, <1>10,
     <1>11, <1>12, <1>13, <1>14, <1>15, <1>16, <1>17, <1>18, <1>19, <1>20,
     <1>21, <1>22, <1>23, <1>24, <1>25, <1>26, <1>27, <1>28, <1>29, <1>30,
     <1>31
  DEF RunNext

\* A command step that changes only its own state keeps the others' aims.
LEMMA OpKeepsOthers ==
    ASSUME op \in [Ops -> OpType], OpInv, NEW o \in Ops, OpStart(o) \/ OpStep(o) \/ OpCrash(o)
    PROVE  \A q \in Ops \ {o} : op'[q] = op[q]
<1> USE DEF OpGoto
<1>1. CASE OpStart(o)
  BY <1>1 DEF OpStart, OpStartRollback, OpStartCommit
<1>2. CASE OpScope(o) \/ OpUnmount(o)
  BY <1>2 DEF OpScope, OpUnmount
<1>3. CASE OpDiscard(o)
  BY <1>3 DEF OpDiscard
<1>4. CASE OpCheckpoint(o) \/ OpPersist(o) \/ OpHistory(o)
  BY <1>4 DEF OpCheckpoint, OpPersist, OpHistory
<1>5. CASE OpCandidate(o) \/ OpCheck(o)
  BY <1>5 DEF OpCandidate, OpCheck
<1>6. CASE (\E p \in Paths : OpApply(o, p)) \/ OpApplied(o)
  BY <1>6 DEF OpApply, OpApplied
<1>7. CASE OpCrash(o)
  BY <1>7 DEF OpCrash
<1> QED
  BY <1>1, <1>2, <1>3, <1>4, <1>5, <1>6, <1>7 DEF OpStep

\* A command keeps what it read until it writes: RollbackPlan goes to the scope
\* only with a failed, succeeded or paused run, commit only with a succeeded one.
LEMMA OpKeepsOpInv ==
    ASSUME op \in [Ops -> OpType], record \in RecordType, OpInv,
           NEW o \in Ops, OpStart(o) \/ OpStep(o) \/ OpCrash(o)
    PROVE  OpInv'
<1> SUFFICES OpAims(op'[o])
  BY OpKeepsOthers DEF OpInv
<1> op[o] \in OpType /\ OpAims(op[o])
  BY DEF OpInv
<1> USE DEF OpGoto, OpAims, OpType
<1>1. ASSUME NEW via \in {"cli", "supervisor"}, OpStartRollback(o, via)
      PROVE  OpAims(op'[o])
  BY <1>1 DEF OpStartRollback, AfterRollbackPlan, Transition, CanTransition, Edges
<1>2. ASSUME NEW via \in {"cli", "supervisor"}, OpStartCommit(o, via)
      PROVE  OpAims(op'[o])
  BY <1>2 DEF OpStartCommit
<1>3. CASE OpScope(o)
  <2>1. PICK err \in BOOLEAN : \/ OpGoto(o, "unmount")
                              \/ op' = [op EXCEPT ![o] = [@ EXCEPT !.pc = "unmount", !.err = err]]
    BY <1>3 DEF OpScope
  <2>2. op'[o].pc = "unmount" /\ op'[o].kind = op[o].kind /\ op'[o].state = op[o].state
    <3>1. CASE OpGoto(o, "unmount")
      BY <3>1
    <3>2. CASE op' = [op EXCEPT ![o] = [@ EXCEPT !.pc = "unmount", !.err = err]]
      <4>1. op'[o] = [op[o] EXCEPT !.pc = "unmount", !.err = err]
        BY <3>2
      <4> QED
        BY <4>1
    <3> QED
      BY <2>1, <3>1, <3>2
  <2>3. op[o].pc = "scope"
    BY <1>3 DEF OpScope
  <2> QED
    BY <2>2, <2>3
<1>4. CASE OpUnmount(o)
  BY <1>4 DEF OpUnmount
<1>5. CASE OpDiscard(o)
  <2> DEFINE goal == IF op[o].kind = "commit" THEN "committed" ELSE "rolled_back"
  <2>1. op[o].pc = "discard"
    BY <1>5 DEF OpDiscard
  <2>2. Transition(op[o].state, goal) = goal
    BY <2>1 DEF Transition, CanTransition, Edges
  <2>3. CASE OpGoto(o, "refused")
    BY <2>3
  <2>4. PICK step \in {"refused", "persist", "ckpt"} :
          \/ OpGoto(o, "refused")
          \/ op' = [op EXCEPT ![o] = [@ EXCEPT !.state = Transition(op[o].state, goal), !.pc = step]]
    BY <1>5 DEF OpDiscard, AfterRollbackPlan
  <2>5. CASE op' = [op EXCEPT ![o] = [@ EXCEPT !.state = Transition(op[o].state, goal), !.pc = step]]
    <3>1. op'[o].pc = step /\ op'[o].state = goal
      BY <2>2, <2>5
    <3> QED
      BY <3>1
  <2> QED
    BY <2>3, <2>4, <2>5
<1>6. CASE OpCheckpoint(o)
  BY <1>6 DEF OpCheckpoint
<1>7. CASE OpPersist(o)
  BY <1>7 DEF OpPersist
<1>8. CASE OpHistory(o)
  BY <1>8 DEF OpHistory
<1>9. CASE OpCandidate(o)
  BY <1>9 DEF OpCandidate
<1>10. CASE OpCheck(o)
  BY <1>10 DEF OpCheck
<1>11. ASSUME NEW p \in Paths, OpApply(o, p)
       PROVE  OpAims(op'[o])
  BY <1>11 DEF OpApply
<1>12. CASE OpApplied(o)
  BY <1>12 DEF OpApplied
<1>13. CASE OpCrash(o)
  BY <1>13 DEF OpCrash
<1> QED
  BY <1>1, <1>2, <1>3, <1>4, <1>5, <1>6, <1>7, <1>8, <1>9, <1>10, <1>11, <1>12, <1>13
  DEF OpStart, OpStep

\* Success is only ever entered by WaitCloseScope, with the cgroup empty and
\* the helper in it.
LEMMA RunKeepsDrainInv ==
    ASSUME run \in RunType, record \in RecordType, RunInv, DrainInv, RunNext \/ RunCrash
    PROVE  DrainInv'
<1> USE DEF RunInv, DrainInv, BeforeMount, Admitted, Goto, TearDown, FailAndRollback, RunType,
            RecordType
<1>1. CASE RunAddCheckpoint
  BY <1>1 DEF RunAddCheckpoint
<1>2. CASE RunPrepare
  BY <1>2 DEF RunPrepare
<1>3. CASE RunPersistPrepared
  BY <1>3 DEF RunPersistPrepared, WritesRecord, RecordWriteFails, NewRecord
<1>4. CASE RunHistoryPrepared
  BY <1>4 DEF RunHistoryPrepared
<1>5. CASE CoordMount
  BY <1>5 DEF CoordMount, Transition
<1>6. CASE CoordStart
  BY <1>6 DEF CoordStart
<1>7. CASE CoordAddPID
  <2>1. run.pc = "addPID" /\ run'.pc \in {"network", "kill"} /\ UNCHANGED <<record, procs>>
    BY <1>7 DEF CoordAddPID
  <2>2. run'.state = run.state
    BY <1>7 DEF CoordAddPID
  <2> QED
    BY <2>1, <2>2
<1>8. CASE CoordPrepareNetwork
  <2>1. run.pc = "network" /\ run'.pc \in {"attach", "kill"} /\ UNCHANGED <<record, procs>>
    BY <1>8 DEF CoordPrepareNetwork
  <2>2. run'.state = run.state
    BY <1>8 DEF CoordPrepareNetwork
  <2> QED
    BY <2>1, <2>2
<1>9. CASE CoordAttachSensor
  <2>1. run.pc = "attach" /\ run'.pc \in {"gate", "kill"} /\ UNCHANGED <<record, procs>>
    BY <1>9 DEF CoordAttachSensor
  <2>2. run'.state = run.state
    BY <1>9 DEF CoordAttachSensor
  <2> QED
    BY <2>1, <2>2
<1>10. CASE CoordReleaseGate
  <2>1. run.pc = "gate" /\ run'.pc \in {"ckptRunning", "kill"} /\ UNCHANGED <<record, procs>>
    BY <1>10 DEF CoordReleaseGate
  <2>2. run'.state = run.state
    BY <1>10 DEF CoordReleaseGate
  <2> QED
    BY <2>1, <2>2
<1>11. CASE RunCheckpointRunning
  <2>1. run.pc = "ckptRunning" /\ run'.pc \in {"persistRunning", "kill"} /\ UNCHANGED <<record, procs>>
    BY <1>11 DEF RunCheckpointRunning
  <2>2. run'.state = run.state
    BY <1>11 DEF RunCheckpointRunning
  <2> QED
    BY <2>1, <2>2
<1>12. CASE RunPersistRunning
  <2>1. record'.state \in {record.state, run.state}
    BY <1>12 DEF RunPersistRunning, WritesRecord, RecordWriteFails, NewRecord
  <2>2. run'.state = run.state /\ procs' = procs /\ run'.pc \notin BeforeMount \cup {"start"}
    BY <1>12 DEF RunPersistRunning
  <2> QED
    BY <1>12, <2>1, <2>2 DEF RunPersistRunning
<1>13. CASE RunHistoryRunning
  <2>1. run.pc = "historyRunning" /\ run'.pc \in {"wait", "kill"} /\ UNCHANGED <<record, procs>>
    BY <1>13 DEF RunHistoryRunning
  <2>2. run'.state = run.state
    BY <1>13 DEF RunHistoryRunning
  <2> QED
    BY <2>1, <2>2
<1>14. CASE WaitAgent
  BY <1>14 DEF WaitAgent
<1>15. CASE WaitNetwork
  <2>1. run.pc = "waitNetwork" /\ run'.pc \in {"waitSensor"} /\ UNCHANGED <<record, procs>>
    BY <1>15 DEF WaitNetwork
  <2>2. run'.state = run.state
    BY <1>15 DEF WaitNetwork
  <2> QED
    BY <2>1, <2>2
<1>16. CASE WaitSensor
  <2>1. run.pc = "waitSensor" /\ run'.pc \in {"waitScope"} /\ UNCHANGED <<record, procs>>
    BY <1>16 DEF WaitSensor
  <2>2. run'.state = run.state
    BY <1>16 DEF WaitSensor
  <2> QED
    BY <2>1, <2>2
<1>17. CASE WaitCloseScope
  BY <1>17 DEF WaitCloseScope, ScopeEmptied, ScopeRemains, Members, Transition
<1>18. CASE RunCheckpointWaitFailed
  BY <1>18 DEF RunCheckpointWaitFailed
<1>19. CASE RunScan
  <2>1. run.pc = "scan" /\ run'.pc \in {"kill", "persistReview"} /\ UNCHANGED <<record, procs>>
    BY <1>19 DEF RunScan
  <2>2. run'.state = run.state
    BY <1>19 DEF RunScan
  <2> QED
    BY <2>1, <2>2
<1>20. CASE RunPersistReview
  <2>1. record'.state \in {record.state, run.state}
    BY <1>20 DEF RunPersistReview, WritesRecord, RecordWriteFails, NewRecord
  <2>2. run'.state = run.state /\ procs' = procs /\ run'.pc \notin BeforeMount \cup {"start"}
    BY <1>20 DEF RunPersistReview
  <2> QED
    BY <1>20, <2>1, <2>2 DEF RunPersistReview
<1>21. CASE RunHistoryReview
  <2>1. run.pc = "historyReview" /\ run'.pc \in {"ckptSucceeded", "kill"} /\ UNCHANGED <<record, procs>>
    BY <1>21 DEF RunHistoryReview
  <2>2. run'.state = run.state
    BY <1>21 DEF RunHistoryReview
  <2> QED
    BY <2>1, <2>2
<1>22. CASE RunCheckpointSucceeded
  BY <1>22 DEF RunCheckpointSucceeded
<1>23. CASE TeardownKill
  BY <1>23 DEF TeardownKill
<1>24. CASE TeardownBoundary
  <2>1. run.pc = "boundary" /\ run'.pc \in {"scope"} /\ UNCHANGED <<record, procs>>
    BY <1>24 DEF TeardownBoundary
  <2>2. run'.state = run.state
    BY <1>24 DEF TeardownBoundary
  <2> QED
    BY <2>1, <2>2
<1>25. CASE TeardownScope
  <2>1. run.pc = "scope" /\ run'.pc = "unmount" /\ record' = record
    BY <1>25 DEF TeardownScope
  <2>2. procs' \subseteq procs
    BY <1>25 DEF TeardownScope, ScopeEmptied, ScopeRemains
  <2>3. run'.state = Transition(run.state, "failed")
    BY <1>25 DEF TeardownScope
  <2>4. run'.state = "succeeded" => run.state = "succeeded"
    BY <2>3 DEF Transition
  <2> QED
    BY <2>1, <2>2, <2>4
<1>26. CASE TeardownUnmount
  <2>1. run.pc = "unmount" /\ run'.pc \in {"discard", "exited", "persistFinal"} /\ UNCHANGED <<record, procs>>
    BY <1>26 DEF TeardownUnmount, AfterTeardown
  <2>2. run'.state = run.state
    BY <1>26 DEF TeardownUnmount
  <2> QED
    BY <2>1, <2>2
<1>27. CASE TeardownDiscard
  <2>1. run'.pc \in {"exited", "persistFinal"} /\ UNCHANGED <<record, procs>>
    BY <1>27 DEF TeardownDiscard, AfterTeardown
  <2>2. run'.state \in {run.state, Transition(run.state, "rolled_back")}
    BY <1>27 DEF TeardownDiscard
  <2>3. run'.state = "succeeded" => run.state = "succeeded"
    BY <2>2 DEF Transition
  <2> QED
    BY <2>1, <2>3
<1>28. CASE RunPersistFinal
  BY <1>28 DEF RunPersistFinal, WritesRecord, RecordWriteFails, NewRecord
<1>29. CASE RunCheckpointFinal
  BY <1>29 DEF RunCheckpointFinal
<1>30. CASE RunHistoryFinal
  BY <1>30 DEF RunHistoryFinal
<1>31. CASE RunCrash
  BY <1>31 DEF RunCrash
<1> QED
  BY <1>1, <1>2, <1>3, <1>4, <1>5, <1>6, <1>7, <1>8, <1>9, <1>10,
     <1>11, <1>12, <1>13, <1>14, <1>15, <1>16, <1>17, <1>18, <1>19, <1>20,
     <1>21, <1>22, <1>23, <1>24, <1>25, <1>26, <1>27, <1>28, <1>29, <1>30,
     <1>31
  DEF RunNext

\* A step that leaves the run, the record and the processes alone cannot revive
\* a run that succeeded.
LEMMA DrainInvFrame ==
    ASSUME DrainInv, run' = run, record' = record, procs' = procs
    PROVE  DrainInv'
  BY DEF DrainInv

\* Nothing else starts a process of a run that has succeeded.
LEMMA OthersKeepDrainInv ==
    ASSUME DrainInv, OpInv, record \in RecordType,
           \/ AgentNext \/ EnvNext
           \/ \E o \in Ops : OpStart(o) \/ OpStep(o) \/ OpCrash(o)
    PROVE  DrainInv'
<1>1. CASE AgentNext
  BY <1>1 DEF AgentNext, HelperFails, AgentWrite, AgentForks, AgentExits, ChildExits, DrainInv
<1>2. CASE EnvNext
  BY <1>2 DEF EnvNext, EventLost, FuseExits, UserEdits, DrainInv
<1>3. ASSUME NEW o \in Ops, OpScope(o)
      PROVE  DrainInv'
  BY <1>3 DEF OpScope, ScopeEmptied, ScopeRemains, DrainInv
<1>4. ASSUME NEW o \in Ops, OpPersist(o)
      PROVE  DrainInv'
  <2>1. record' = record \/ record'.state \in {"rolled_back", "committed"}
    BY <1>4 DEF OpPersist, RecordWriteFails, OpInv, OpAims
  <2> QED
    BY <1>4, <2>1 DEF OpPersist, DrainInv
<1>5. ASSUME NEW o \in Ops,
             \/ OpStart(o) \/ OpUnmount(o) \/ OpDiscard(o) \/ OpCheckpoint(o) \/ OpHistory(o)
             \/ OpCandidate(o) \/ OpCheck(o) \/ (\E p \in Paths : OpApply(o, p)) \/ OpApplied(o)
             \/ OpCrash(o)
      PROVE  run' = run /\ record' = record /\ procs' = procs
  BY <1>5 DEF OpStart, OpStartRollback, OpStartCommit, OpUnmount, OpDiscard, OpCheckpoint,
              OpHistory, OpCandidate, OpCheck, OpApply, OpApplied, OpCrash
<1> QED
  BY <1>1, <1>2, <1>3, <1>4, <1>5, DrainInvFrame DEF OpStep

\* The run process discards only what it has unmounted, and mounts only while
\* no command is at work on the overlay.
LEMMA RunKeepsMountInv ==
    ASSUME run \in RunType, record \in RecordType, RunInv, MountInv, RunNext \/ RunCrash
    PROVE  MountInv'
<1> USE DEF RunInv, MountInv, Untouched, BeforeMount, Goto, TearDown, FailAndRollback,
            RunType, RecordType, Committing
<1>1. CASE RunAddCheckpoint
  BY <1>1 DEF RunAddCheckpoint
<1>2. CASE RunPrepare
  BY <1>2 DEF RunPrepare
<1>3. CASE RunPersistPrepared
  BY <1>3 DEF RunPersistPrepared, WritesRecord, RecordWriteFails, NewRecord
<1>4. CASE RunHistoryPrepared
  BY <1>4 DEF RunHistoryPrepared
<1>5. CASE CoordMount
  <2>1. run.pc = "mount" /\ run'.pc \in {"start", "persistFinal"} /\ UNCHANGED op
    BY <1>5 DEF CoordMount
  <2> QED
    BY <2>1
<1>6. CASE CoordStart
  <2>1. run.pc = "start" /\ run'.pc \in {"addPID", "kill"} /\ UNCHANGED <<op, mounted>>
    BY <1>6 DEF CoordStart
  <2> QED
    BY <2>1
<1>7. CASE CoordAddPID
  <2>1. run.pc = "addPID" /\ run'.pc \in {"network", "kill"} /\ UNCHANGED <<op, mounted>>
    BY <1>7 DEF CoordAddPID
  <2> QED
    BY <2>1
<1>8. CASE CoordPrepareNetwork
  <2>1. run.pc = "network" /\ run'.pc \in {"attach", "kill"} /\ UNCHANGED <<op, mounted>>
    BY <1>8 DEF CoordPrepareNetwork
  <2> QED
    BY <2>1
<1>9. CASE CoordAttachSensor
  <2>1. run.pc = "attach" /\ run'.pc \in {"gate", "kill"} /\ UNCHANGED <<op, mounted>>
    BY <1>9 DEF CoordAttachSensor
  <2> QED
    BY <2>1
<1>10. CASE CoordReleaseGate
  <2>1. run.pc = "gate" /\ run'.pc \in {"ckptRunning", "kill"} /\ UNCHANGED <<op, mounted>>
    BY <1>10 DEF CoordReleaseGate
  <2> QED
    BY <2>1
<1>11. CASE RunCheckpointRunning
  <2>1. run.pc = "ckptRunning" /\ run'.pc \in {"persistRunning", "kill"} /\ UNCHANGED <<op, mounted>>
    BY <1>11 DEF RunCheckpointRunning
  <2> QED
    BY <2>1
<1>12. CASE RunPersistRunning
  <2>1. run.pc = "persistRunning" /\ run'.pc \in {"historyRunning", "kill"} /\ UNCHANGED <<op, mounted>>
    BY <1>12 DEF RunPersistRunning
  <2> QED
    BY <2>1
<1>13. CASE RunHistoryRunning
  <2>1. run.pc = "historyRunning" /\ run'.pc \in {"wait", "kill"} /\ UNCHANGED <<op, mounted>>
    BY <1>13 DEF RunHistoryRunning
  <2> QED
    BY <2>1
<1>14. CASE WaitAgent
  BY <1>14 DEF WaitAgent
<1>15. CASE WaitNetwork
  <2>1. run.pc = "waitNetwork" /\ run'.pc \in {"waitSensor"} /\ UNCHANGED <<op, mounted>>
    BY <1>15 DEF WaitNetwork
  <2> QED
    BY <2>1
<1>16. CASE WaitSensor
  <2>1. run.pc = "waitSensor" /\ run'.pc \in {"waitScope"} /\ UNCHANGED <<op, mounted>>
    BY <1>16 DEF WaitSensor
  <2> QED
    BY <2>1
<1>17. CASE WaitCloseScope
  BY <1>17 DEF WaitCloseScope
<1>18. CASE RunCheckpointWaitFailed
  BY <1>18 DEF RunCheckpointWaitFailed
<1>19. CASE RunScan
  <2>1. run.pc = "scan" /\ run'.pc \in {"kill", "persistReview"} /\ UNCHANGED <<op, mounted>>
    BY <1>19 DEF RunScan
  <2> QED
    BY <2>1
<1>20. CASE RunPersistReview
  <2>1. run.pc = "persistReview" /\ run'.pc \in {"historyReview", "kill"} /\ UNCHANGED <<op, mounted>>
    BY <1>20 DEF RunPersistReview
  <2> QED
    BY <2>1
<1>21. CASE RunHistoryReview
  <2>1. run.pc = "historyReview" /\ run'.pc \in {"ckptSucceeded", "kill"} /\ UNCHANGED <<op, mounted>>
    BY <1>21 DEF RunHistoryReview
  <2> QED
    BY <2>1
<1>22. CASE RunCheckpointSucceeded
  BY <1>22 DEF RunCheckpointSucceeded
<1>23. CASE TeardownKill
  <2>1. run.pc = "kill" /\ run'.pc \in {"boundary"} /\ UNCHANGED <<op, mounted>>
    BY <1>23 DEF TeardownKill
  <2> QED
    BY <2>1
<1>24. CASE TeardownBoundary
  <2>1. run.pc = "boundary" /\ run'.pc \in {"scope"} /\ UNCHANGED <<op, mounted>>
    BY <1>24 DEF TeardownBoundary
  <2> QED
    BY <2>1
<1>25. CASE TeardownScope
  <2>1. run.pc = "scope" /\ run'.pc = "unmount" /\ UNCHANGED <<record, op, mounted>>
    BY <1>25 DEF TeardownScope
  <2> QED
    BY <2>1
<1>26. CASE TeardownUnmount
  <2>1. run.pc = "unmount" /\ UNCHANGED <<record, op>> /\ (mounted' => mounted)
    BY <1>26 DEF TeardownUnmount, RollbackUnmounts, RollbackRefuses, Unmounts, UnmountBusy
  <2>2. run'.pc \in {"discard", "exited", "persistFinal"}
    BY <1>26 DEF TeardownUnmount, AfterTeardown
  <2>3. run'.pc = "discard" => ~mounted'
    BY <1>26 DEF TeardownUnmount, AfterTeardown, RollbackUnmounts, Unmounts
  <2> QED
    BY <2>1, <2>2, <2>3
<1>27. CASE TeardownDiscard
  <2>1. run.pc = "discard" /\ run'.pc \in {"exited", "persistFinal"} /\ UNCHANGED <<op, mounted>>
    BY <1>27 DEF TeardownDiscard, AfterTeardown
  <2> QED
    BY <2>1
<1>28. CASE RunPersistFinal
  BY <1>28 DEF RunPersistFinal, WritesRecord, RecordWriteFails, NewRecord
<1>29. CASE RunCheckpointFinal
  BY <1>29 DEF RunCheckpointFinal
<1>30. CASE RunHistoryFinal
  BY <1>30 DEF RunHistoryFinal
<1>31. CASE RunCrash
  BY <1>31 DEF RunCrash
<1> QED
  BY <1>1, <1>2, <1>3, <1>4, <1>5, <1>6, <1>7, <1>8, <1>9, <1>10,
     <1>11, <1>12, <1>13, <1>14, <1>15, <1>16, <1>17, <1>18, <1>19, <1>20,
     <1>21, <1>22, <1>23, <1>24, <1>25, <1>26, <1>27, <1>28, <1>29, <1>30,
     <1>31
  DEF RunNext

\* The agent, the kernel and the owner of the workspace never mount the overlay.
LEMMA SurroundingsKeepMountInv ==
    ASSUME MountInv, AgentNext \/ EnvNext
    PROVE  MountInv'
<1>1. UNCHANGED <<run, op, record>> /\ (mounted' => mounted)
  BY DEF AgentNext, HelperFails, AgentWrite, AgentForks, AgentExits, ChildExits,
         EnvNext, EventLost, FuseExits, UserEdits
<1> QED
  BY <1>1 DEF MountInv, Untouched, Committing

\* A command comes to the discard only from a successful unmount.
LEMMA OpStepTargets ==
    ASSUME op \in [Ops -> OpType], NEW o \in Ops, OpStart(o) \/ OpStep(o) \/ OpCrash(o),
           op'[o].pc = "discard"
    PROVE  OpUnmount(o)
<1> USE DEF OpGoto, OpType
<1>1. ~OpStart(o)
  <2>1. ASSUME NEW via \in {"cli", "supervisor"}, OpStartRollback(o, via)
        PROVE  FALSE
    <3>1. PICK state, step \in {"ckpt", "persist", "scope", "refused"} :
            op' = [op EXCEPT ![o] = [@ EXCEPT !.kind = "rollback", !.via = via,
                                              !.complete = record.complete, !.scope = cgroup,
                                              !.state = state, !.pc = step]]
      BY <2>1 DEF OpStartRollback, AfterRollbackPlan
    <3>2. op'[o].pc = step
      BY <3>1
    <3> QED
      BY <3>2
  <2>2. ASSUME NEW via \in {"cli", "supervisor"}, OpStartCommit(o, via)
        PROVE  FALSE
    BY <2>2 DEF OpStartCommit
  <2> QED
    BY <2>1, <2>2 DEF OpStart
<1>2. ~OpScope(o)
  BY DEF OpScope
<1>3. ~OpDiscard(o)
  <2>1. ASSUME OpDiscard(o)
        PROVE  FALSE
    <3>1. CASE OpGoto(o, "refused")
      BY <3>1
    <3> DEFINE goal == IF op[o].kind = "commit" THEN "committed" ELSE "rolled_back"
               state == Transition(op[o].state, goal)
    <3>2. PICK step \in {"refused", "persist", "ckpt"} :
            \/ OpGoto(o, "refused")
            \/ op' = [op EXCEPT ![o] = [@ EXCEPT !.state = state, !.pc = step]]
      BY <2>1 DEF OpDiscard, AfterRollbackPlan
    <3>3. CASE op' = [op EXCEPT ![o] = [@ EXCEPT !.state = state, !.pc = step]]
      <4>1. op'[o].pc = step
        BY <3>3
      <4> QED
        BY <4>1
    <3> QED
      BY <3>1, <3>2, <3>3
  <2> QED
    BY <2>1
<1>4. ~OpCheckpoint(o) /\ ~OpPersist(o) /\ ~OpHistory(o)
  BY DEF OpCheckpoint, OpPersist, OpHistory
<1>5. ~OpCandidate(o) /\ ~OpCheck(o)
  <2>1. ASSUME OpCheck(o)
        PROVE  FALSE
    <3>1. op'[o] \in {[op[o] EXCEPT !.pc = "apply", !.todo = Compare(Base, op[o].cand)],
                      [op[o] EXCEPT !.pc = "refused"]}
      BY <2>1 DEF OpCheck
    <3> QED
      BY <3>1
  <2> QED
    BY <2>1 DEF OpCandidate
<1>6. ~(\E p \in Paths : OpApply(o, p)) /\ ~OpApplied(o)
  BY DEF OpApply, OpApplied
<1>7. ~OpCrash(o)
  BY DEF OpCrash
<1> QED
  BY <1>1, <1>2, <1>3, <1>4, <1>5, <1>6, <1>7 DEF OpStep

\* A command reaches the scope and the overlay only if the record it read says
\* that the run has been mounted, and none writes such a record.
LEMMA OpKeepsUntouched ==
    ASSUME op \in [Ops -> OpType], record \in RecordType, OpInv, Untouched,
           NEW o \in Ops, OpStart(o) \/ OpStep(o) \/ OpCrash(o)
    PROVE  Untouched'
<1> DEFINE Early(c) == /\ c.pc \notin {"scope", "unmount", "discard", "candidate", "check", "apply"}
                       /\ ~(c.pc \in {"ckpt", "persist", "history"} /\ c.state = "committed")
<1> op[o] \in OpType /\ OpAims(op[o])
  BY DEF OpInv
<1> Early(op[o]) /\ record.state \in {"none", "preparing", "rolled_back"}
  BY DEF Untouched, Committing
<1> USE DEF OpGoto, OpType, RecordType
<1>1. ASSUME NEW via \in {"cli", "supervisor"}, OpStartRollback(o, via)
      PROVE  Early(op'[o])
  BY <1>1 DEF OpStartRollback, OpReads, AfterRollbackPlan, Transition, CanTransition, Edges
<1>2. ASSUME NEW via \in {"cli", "supervisor"}, OpStartCommit(o, via)
      PROVE  Early(op'[o])
  BY <1>2 DEF OpStartCommit, OpReads
<1>3. ASSUME OpCheckpoint(o) \/ OpHistory(o) \/ OpCrash(o)
      PROVE  Early(op'[o])
  BY <1>3 DEF OpCheckpoint, OpHistory, OpCrash
<1>4. ASSUME OpPersist(o)
      PROVE  Early(op'[o]) /\ record'.state \in {"none", "preparing", "rolled_back"}
  <2>1. op[o].state = "rolled_back"
    BY <1>4 DEF OpPersist, OpAims
  <2> QED
    BY <1>4, <2>1 DEF OpPersist, RecordWriteFails
<1>5. ~(\/ OpScope(o) \/ OpUnmount(o) \/ OpDiscard(o) \/ OpCandidate(o) \/ OpCheck(o)
        \/ (\E p \in Paths : OpApply(o, p)) \/ OpApplied(o))
  BY DEF OpScope, OpUnmount, OpDiscard, OpCandidate, OpCheck, OpApply, OpApplied
<1>6. ~OpPersist(o) => record' = record
  BY <1>5 DEF OpStart, OpStep, OpStartRollback, OpStartCommit, OpCheckpoint, OpHistory, OpCrash
<1>7. Early(op'[o]) /\ record'.state \in {"none", "preparing", "rolled_back"}
  BY <1>1, <1>2, <1>3, <1>4, <1>5, <1>6 DEF OpStart, OpStep
<1> QED
  BY <1>7, OpKeepsOthers DEF Untouched, Committing

\* A command discards only what it has unmounted, and leaves a run alone that
\* has not been mounted.
LEMMA OpKeepsMountInv ==
    ASSUME op \in [Ops -> OpType], record \in RecordType, OpInv, MountInv,
           NEW o \in Ops, OpStart(o) \/ OpStep(o) \/ OpCrash(o)
    PROVE  MountInv'
<1>1. run' = run /\ (mounted' => mounted)
  BY DEF OpStart, OpStep, OpStartRollback, OpStartCommit, OpScope, OpUnmount, OpDiscard,
         OpCheckpoint, OpPersist, OpHistory, OpCandidate, OpCheck, OpApply, OpApplied, OpCrash,
         RollbackUnmounts, RollbackRefuses, Unmounts, UnmountBusy
<1>2. op'[o].pc = "discard" => ~mounted'
  <2> SUFFICES ASSUME op'[o].pc = "discard"
               PROVE  ~mounted'
    OBVIOUS
  <2>1. OpUnmount(o)
    BY OpStepTargets
  <2> QED
    BY <2>1 DEF OpUnmount, OpGoto, OpType, RollbackUnmounts, Unmounts
<1>3. run.pc \in BeforeMount => Untouched'
  BY OpKeepsUntouched DEF MountInv
<1> QED
  BY <1>1, <1>2, <1>3, OpKeepsOthers DEF MountInv

\* The frames of the two kinds of process.
LEMMA RunLeavesCommands ==
    ASSUME RunNext \/ RunCrash
    PROVE  UNCHANGED op
  BY DEF RunNext,
      RunAddCheckpoint, RunPrepare, RunPersistPrepared, RunHistoryPrepared, CoordMount,
      CoordStart, CoordAddPID, CoordPrepareNetwork, CoordAttachSensor, CoordReleaseGate,
      RunCheckpointRunning, RunPersistRunning, RunHistoryRunning, WaitAgent,
      WaitNetwork, WaitSensor, WaitCloseScope, RunCheckpointWaitFailed, RunScan,
      RunPersistReview, RunHistoryReview, RunCheckpointSucceeded, TeardownKill,
      TeardownBoundary, TeardownScope, TeardownUnmount, TeardownDiscard,
      RunPersistFinal, RunCheckpointFinal, RunHistoryFinal, RunCrash

\* In the run process only TeardownDiscard touches the upper layer.
LEMMA OnlyDiscardsReset ==
    ASSUME RunNext \/ RunCrash, upper' # upper
    PROVE  TeardownDiscard
  BY DEF RunNext,
      RunAddCheckpoint, RunPrepare, RunPersistPrepared, RunHistoryPrepared, CoordMount,
      CoordStart, CoordAddPID, CoordPrepareNetwork, CoordAttachSensor, CoordReleaseGate,
      RunCheckpointRunning, RunPersistRunning, RunHistoryRunning, WaitAgent,
      WaitNetwork, WaitSensor, WaitCloseScope, RunCheckpointWaitFailed, RunScan,
      RunPersistReview, RunHistoryReview, RunCheckpointSucceeded, TeardownKill,
      TeardownBoundary, TeardownScope, TeardownUnmount,
      RunPersistFinal, RunCheckpointFinal, RunHistoryFinal, RunCrash

\* rollback, recover and commit share no memory with the run process and never
\* admit a process to its cgroup.
LEMMA CommandsLeaveRun ==
    ASSUME NEW o \in Ops, OpStart(o) \/ OpStep(o) \/ OpCrash(o)
    PROVE  UNCHANGED <<run, scoped>>
  BY DEF OpStart, OpStep, OpStartRollback, OpStartCommit, OpScope, OpUnmount, OpDiscard,
      OpCheckpoint, OpPersist, OpHistory, OpCandidate, OpCheck, OpApply, OpApplied, OpCrash

-----------------------------------------------------------------------------
(* The agent's boundaries *)

\* Stopping a cgroup that holds every process leaves none, or leaves it there.
LEMMA ScopeStopped ==
    ASSUME TypeOK, scoped, ScopeEmptied \/ ScopeRemains
    PROVE  /\ procs' # {} /\ (procs # {} => cgroup) => cgroup'
           /\ "agent" \in procs' => "agent" \in procs
<1>1. CASE ScopeEmptied
  BY <1>1 DEF ScopeEmptied, Members
<1>2. CASE ScopeRemains
  BY <1>2 DEF ScopeRemains, Members, TypeOK
<1> QED
  BY <1>1, <1>2

\* What the run process does before the gate: the cgroup, the boundary and the
\* sensor are there when it opens.
LEMMA StartKeepsConfInv ==
    ASSUME TypeOK, RunInv, ConfInv,
           \/ RunAddCheckpoint \/ RunPrepare \/ RunPersistPrepared \/ RunHistoryPrepared
           \/ CoordMount \/ CoordStart \/ CoordAddPID \/ CoordPrepareNetwork
           \/ CoordAttachSensor \/ CoordReleaseGate
    PROVE  ConfInv'
<1> USE ConfigTyped DEF TypeOK, RunInv, ConfInv, StartInv, GateInv, Untouched, Committing, Starting,
            BeforeMount, Watched, Admitted, Goto, TearDown, FailAndRollback, RunType, RecordType
<1>1. CASE RunAddCheckpoint
  BY <1>1 DEF RunAddCheckpoint
<1>2. CASE RunPrepare
  <2>1. /\ run.pc = "prepare" /\ run'.pc \in {"persistPrepared", "exited"}
        /\ run'.pc = "persistPrepared" => cgroup'
        /\ UNCHANGED <<run.waited, gate, record, op, scoped>>
    BY <1>2 DEF RunPrepare
  <2> QED
    BY <2>1
<1>3. CASE RunPersistPrepared
  BY <1>3 DEF RunPersistPrepared, WritesRecord, RecordWriteFails, NewRecord
<1>4. CASE RunHistoryPrepared
  BY <1>4 DEF RunHistoryPrepared
<1>5. CASE CoordMount
  <2>1. /\ run.pc = "mount" /\ run'.pc \in {"start", "persistFinal"}
        /\ UNCHANGED <<run.waited, run.process, gate, record, op, cgroup, network, scoped, procs>>
    BY <1>5 DEF CoordMount
  <2> QED
    BY <2>1
<1>6. CASE CoordStart
  <2>1. /\ run.pc = "start" /\ run'.pc \in {"addPID", "kill"}
        /\ run'.pc = "addPID" => run'.process
        /\ UNCHANGED <<run.waited, gate, record, op, cgroup, network, scoped>>
    BY <1>6 DEF CoordStart
  <2> QED
    BY <2>1
<1>7. CASE CoordAddPID
  <2>1. /\ run.pc = "addPID" /\ run'.pc \in {"network", "kill"}
        /\ UNCHANGED <<run.waited, run.process, gate, record, op, procs, cgroup, network>>
    BY <1>7 DEF CoordAddPID
  <2> QED
    BY <2>1
<1>8. CASE CoordPrepareNetwork
  <2>1. /\ run.pc = "network" /\ run'.pc \in {"attach", "kill"}
        /\ run'.pc = "attach" /\ UseNetwork => network'
        /\ UNCHANGED <<run.waited, run.process, gate, record, op, procs, cgroup, scoped>>
    BY <1>8 DEF CoordPrepareNetwork
  <2> QED
    BY <2>1
<1>9. CASE CoordAttachSensor
  BY <1>9 DEF CoordAttachSensor
<1>10. CASE CoordReleaseGate
  <2>1. /\ run.pc = "gate"
        /\ UNCHANGED <<run.waited, run.process, run.sensor, record, op, procs, cgroup, network, scoped>>
    BY <1>10 DEF CoordReleaseGate
  <2>2. \/ run'.pc = "ckptRunning" /\ gate' = "open"
        \/ run'.pc = "kill" /\ gate' = gate
    BY <1>10 DEF CoordReleaseGate
  <2> QED
    BY <2>1, <2>2
<1> QED
  BY <1>1, <1>2, <1>3, <1>4, <1>5, <1>6, <1>7, <1>8, <1>9, <1>10

\* What it does after the gate was opened, or was given up: the boundary goes
\* only after the agent, the cgroup only with its members.
LEMMA RunKeepsConfInv ==
    ASSUME TypeOK, RunInv, ConfInv, RunNext \/ RunCrash
    PROVE  ConfInv'
<1> USE DEF TypeOK, RunInv, ConfInv, StartInv, GateInv, Starting, BeforeMount, Watched,
            Goto, TearDown, RunType
<1>1. CASE \/ RunAddCheckpoint \/ RunPrepare \/ RunPersistPrepared \/ RunHistoryPrepared
           \/ CoordMount \/ CoordStart \/ CoordAddPID \/ CoordPrepareNetwork
           \/ CoordAttachSensor \/ CoordReleaseGate
  BY <1>1, StartKeepsConfInv
<1>11. CASE RunCheckpointRunning
  BY <1>11 DEF RunCheckpointRunning
<1>12. CASE RunPersistRunning
  BY <1>12 DEF RunPersistRunning
<1>13. CASE RunHistoryRunning
  BY <1>13 DEF RunHistoryRunning
<1>14. CASE WaitAgent
  BY <1>14 DEF WaitAgent
<1>15. CASE WaitNetwork
  BY <1>15 DEF WaitNetwork
<1>16. CASE WaitSensor
  BY <1>16 DEF WaitSensor
<1>17. CASE WaitCloseScope
  <2>1. /\ run.pc = "waitScope" /\ run'.pc \in {"ckptRollback", "scan"}
        /\ UNCHANGED <<run.process, gate, scoped, network>>
    BY <1>17 DEF WaitCloseScope
  <2>2. gate = "open" => (procs' # {} => cgroup')
    BY <1>17, ScopeStopped DEF WaitCloseScope, Members
  <2>3. gate = "open" => "agent" \notin procs'
    BY <1>17, ScopeStopped DEF WaitCloseScope
  <2> QED
    BY <2>1, <2>2, <2>3
<1>18. CASE RunCheckpointWaitFailed
  BY <1>18 DEF RunCheckpointWaitFailed
<1>19. CASE RunScan
  BY <1>19 DEF RunScan
<1>20. CASE RunPersistReview
  BY <1>20 DEF RunPersistReview
<1>21. CASE RunHistoryReview
  BY <1>21 DEF RunHistoryReview
<1>22. CASE RunCheckpointSucceeded
  BY <1>22 DEF RunCheckpointSucceeded
<1>23. CASE TeardownKill
  BY <1>23 DEF TeardownKill
<1>24. CASE TeardownBoundary
  <2>1. /\ run.pc = "boundary" /\ run'.pc = "scope"
        /\ UNCHANGED <<run.process, gate, scoped, procs, cgroup>>
    BY <1>24 DEF TeardownBoundary
  <2> QED
    BY <2>1
<1>25. CASE TeardownScope
  <2>1. /\ run.pc = "scope" /\ run'.pc = "unmount"
        /\ UNCHANGED <<run.process, gate, scoped, network>>
    BY <1>25 DEF TeardownScope
  <2>2. gate = "open" => (procs' # {} => cgroup')
    BY <1>25, ScopeStopped DEF TeardownScope
  <2>3. gate = "open" => "agent" \notin procs'
    BY <1>25, ScopeStopped DEF TeardownScope
  <2> QED
    BY <2>1, <2>2, <2>3
<1>26. CASE TeardownUnmount
  <2>1. /\ run.pc = "unmount" /\ run'.pc \in {"discard", "exited", "persistFinal"}
        /\ UNCHANGED <<run.process, gate, scoped, procs, cgroup, network>>
    BY <1>26 DEF TeardownUnmount, AfterTeardown
  <2> QED
    BY <2>1
<1>27. CASE TeardownDiscard
  <2>1. /\ run.pc = "discard" /\ run'.pc \in {"exited", "persistFinal"}
        /\ UNCHANGED <<run.process, gate, scoped, procs, cgroup, network>>
    BY <1>27 DEF TeardownDiscard, AfterTeardown
  <2> QED
    BY <2>1
<1>28. CASE RunPersistFinal
  BY <1>28 DEF RunPersistFinal
<1>29. CASE RunCheckpointFinal
  BY <1>29 DEF RunCheckpointFinal
<1>30. CASE RunHistoryFinal
  BY <1>30 DEF RunHistoryFinal
<1>31. CASE RunCrash
  BY <1>31 DEF RunCrash
<1> QED
  BY <1>1, <1>11, <1>12, <1>13, <1>14, <1>15, <1>16, <1>17, <1>18, <1>19, <1>20, <1>21, <1>22,
     <1>23, <1>24, <1>25, <1>26, <1>27, <1>28, <1>29, <1>30, <1>31
  DEF RunNext

\* Processes appear only behind the gate, as children of the agent.
LEMMA SurroundingsKeepConfInv ==
    ASSUME TypeOK, ConfInv, AgentNext \/ EnvNext
    PROVE  ConfInv'
<1>1. /\ UNCHANGED <<run, op, record, gate, scoped, cgroup, network>>
      /\ gate = "open" => (procs = {} => procs' = {})
      /\ "agent" \in procs' => "agent" \in procs
  BY DEF AgentNext, HelperFails, AgentWrite, AgentForks, AgentExits, ChildExits,
         EnvNext, EventLost, FuseExits, UserEdits
<1> QED
  BY <1>1 DEF ConfInv, StartInv, GateInv, Untouched, Committing

\* A command stops the cgroup only of a run that has been mounted, and then it
\* takes all members with it.
LEMMA OpKeepsConfInv ==
    ASSUME TypeOK, OpInv, ConfInv, NEW o \in Ops, OpStart(o) \/ OpStep(o) \/ OpCrash(o)
    PROVE  ConfInv'
<1>1. UNCHANGED <<run, gate, scoped, network>>
  BY DEF OpStart, OpStep, OpStartRollback, OpStartCommit, OpScope, OpUnmount, OpDiscard,
         OpCheckpoint, OpPersist, OpHistory, OpCandidate, OpCheck, OpApply, OpApplied, OpCrash
<1>2. ~OpScope(o) => UNCHANGED <<procs, cgroup>>
  BY DEF OpStart, OpStep, OpStartRollback, OpStartCommit, OpUnmount, OpDiscard,
         OpCheckpoint, OpPersist, OpHistory, OpCandidate, OpCheck, OpApply, OpApplied, OpCrash
<1>3. CASE run.pc \in Starting
  <2>1. Untouched /\ Untouched'
    BY <1>3, OpKeepsUntouched DEF ConfInv, StartInv, TypeOK
  <2>2. ~OpScope(o)
    BY <2>1 DEF Untouched, OpScope
  <2> QED
    BY <1>1, <1>2, <1>3, <2>1, <2>2 DEF ConfInv, StartInv, GateInv
<1>4. CASE run.pc \notin Starting
  <2>1. gate = "open" => (procs' # {} => cgroup') /\ ("agent" \in procs' => "agent" \in procs)
    BY <1>2, ScopeStopped DEF OpScope, ConfInv, GateInv
  <2> QED
    BY <1>1, <1>4, <2>1 DEF ConfInv, StartInv, GateInv
<1> QED
  BY <1>3, <1>4

-----------------------------------------------------------------------------
(* The checkpoint of the run *)

\* After the plan the run process never takes its node back from rolled_back.
LEMMA RunKeepsCkptInv ==
    ASSUME TypeOK, CkptInv, RunNext \/ RunCrash
    PROVE  CkptInv'
<1> run \in RunType
  BY DEF TypeOK
<1>1. UNCHANGED op
  BY RunLeavesCommands
<1>2. run'.pc \in {"plan", "prepare"} => run.pc = "plan" /\ UNCHANGED record
  BY DEF RunNext, Goto, TearDown, FailAndRollback, AfterTeardown, RunType,
      RunAddCheckpoint, RunPrepare, RunPersistPrepared, RunHistoryPrepared, CoordMount,
      CoordStart, CoordAddPID, CoordPrepareNetwork, CoordAttachSensor, CoordReleaseGate,
      RunCheckpointRunning, RunPersistRunning, RunHistoryRunning, WaitAgent,
      WaitNetwork, WaitSensor, WaitCloseScope, RunCheckpointWaitFailed, RunScan,
      RunPersistReview, RunHistoryReview, RunCheckpointSucceeded, TeardownKill,
      TeardownBoundary, TeardownScope, TeardownUnmount, TeardownDiscard,
      RunPersistFinal, RunCheckpointFinal, RunHistoryFinal, RunCrash
<1>3. run.pc # "plan" /\ ckpt \in {"off", "rolled_back"} => ckpt' = ckpt
  BY DEF RunNext, CkptMoves, CkptRefuses, CkptAllowed,
      RunAddCheckpoint, RunPrepare, RunPersistPrepared, RunHistoryPrepared, CoordMount,
      CoordStart, CoordAddPID, CoordPrepareNetwork, CoordAttachSensor, CoordReleaseGate,
      RunCheckpointRunning, RunPersistRunning, RunHistoryRunning, WaitAgent,
      WaitNetwork, WaitSensor, WaitCloseScope, RunCheckpointWaitFailed, RunScan,
      RunPersistReview, RunHistoryReview, RunCheckpointSucceeded, TeardownKill,
      TeardownBoundary, TeardownScope, TeardownUnmount, TeardownDiscard,
      RunPersistFinal, RunCheckpointFinal, RunHistoryFinal, RunCrash
<1> QED
  BY <1>1, <1>2, <1>3 DEF CkptInv

\* A rollback from the command line comes to the record only past its
\* checkpoint step, and no command takes the node out of rolled_back.
LEMMA OpKeepsCkptInv ==
    ASSUME TypeOK, OpInv, CkptInv, NEW o \in Ops, OpStart(o) \/ OpStep(o) \/ OpCrash(o)
    PROVE  CkptInv'
<1> DEFINE Past(c) == c.kind = "rollback" /\ c.via = "cli" /\ c.pc \in {"persist", "history", "done"}
<1> op \in [Ops -> OpType] /\ op[o] \in OpType
  BY DEF TypeOK
<1>1. UNCHANGED run
  BY CommandsLeaveRun
<1>2. run.pc \notin {"plan", "prepare"}
  <2>1. ASSUME run.pc \in {"plan", "prepare"}
        PROVE  FALSE
    BY <2>1 DEF CkptInv, OpStart, OpStep, OpStartRollback, OpStartCommit, OpReads, OpScope,
           OpUnmount, OpDiscard, OpCheckpoint, OpPersist, OpHistory, OpCandidate, OpCheck,
           OpApply, OpApplied, OpCrash, Active
  <2> QED
    BY <2>1
<1>3. ckpt \in {"off", "rolled_back"} => ckpt' = ckpt
  BY DEF OpStart, OpStep, OpStartRollback, OpStartCommit, OpScope, OpUnmount, OpDiscard,
         OpCheckpoint, OpPersist, OpHistory, OpCandidate, OpCheck, OpApply, OpApplied, OpCrash,
         CkptMoves, CkptRefuses, CkptAllowed
<1>4. Past(op'[o]) => ckpt' \in {"off", "rolled_back"}
  <2> USE DEF OpGoto, OpType
  <2>1. ASSUME NEW via \in {"cli", "supervisor"}, OpStartRollback(o, via)
        PROVE  ~Past(op'[o])
    BY <2>1 DEF OpStartRollback, AfterRollbackPlan
  <2>2. ASSUME NEW via \in {"cli", "supervisor"}, OpStartCommit(o, via)
        PROVE  ~Past(op'[o])
    BY <2>2 DEF OpStartCommit
  <2>3. CASE OpScope(o) \/ OpUnmount(o) \/ OpCandidate(o) \/ OpApplied(o) \/ OpCrash(o)
             \/ \E p \in Paths : OpApply(o, p)
    <3>1. CASE OpScope(o)
      <4>1. PICK err \in BOOLEAN : \/ op' = [op EXCEPT ![o].pc = "unmount"]
                                  \/ op' = [op EXCEPT ![o] = [@ EXCEPT !.pc = "unmount", !.err = err]]
        BY <3>1 DEF OpScope
      <4>2. op'[o] \in {[op[o] EXCEPT !.pc = "unmount"], [op[o] EXCEPT !.pc = "unmount", !.err = err]}
        BY <4>1
      <4>3. op'[o].pc = "unmount"
        BY <4>2
      <4> QED
        BY <4>3
    <3>2. CASE OpUnmount(o) \/ OpApplied(o) \/ OpCrash(o)
      BY <3>2 DEF OpUnmount, OpApplied, OpCrash
    <3>3. CASE OpCandidate(o)
      BY <3>3 DEF OpCandidate
    <3>4. ASSUME NEW p \in Paths, OpApply(o, p)
          PROVE  ~Past(op'[o])
      BY <3>4 DEF OpApply
    <3> QED
      BY <2>3, <3>1, <3>2, <3>3, <3>4
  <2>4. CASE OpDiscard(o)
    <3> DEFINE state == Transition(op[o].state, IF op[o].kind = "commit" THEN "committed" ELSE "rolled_back")
               step == IF op[o].err THEN "refused"
                       ELSE IF op[o].kind = "commit" THEN "persist" ELSE AfterRollbackPlan(op[o].via)
    <3>1. \/ OpGoto(o, "refused")
          \/ op' = [op EXCEPT ![o] = [@ EXCEPT !.state = state, !.pc = step]]
      BY <2>4 DEF OpDiscard
    <3>2. op[o].kind = "rollback" /\ op[o].via = "cli" => step \in {"refused", "ckpt"}
      BY DEF AfterRollbackPlan
    <3> HIDE DEF state, step
    <3>3. CASE OpGoto(o, "refused")
      BY <3>3
    <3>4. CASE op' = [op EXCEPT ![o] = [@ EXCEPT !.state = state, !.pc = step]]
      <4>1. op'[o] = [op[o] EXCEPT !.state = state, !.pc = step]
        BY <3>4
      <4>2. op'[o].kind = op[o].kind /\ op'[o].via = op[o].via /\ op'[o].pc = step
        BY <4>1
      <4> QED
        BY <3>2, <4>2
    <3> QED
      BY <3>1, <3>3, <3>4
  <2>5. CASE OpCheckpoint(o)
    BY <2>5 DEF OpCheckpoint, CkptMoves
  <2>6. CASE OpPersist(o) \/ OpHistory(o)
    BY <1>3, <2>6 DEF OpPersist, OpHistory, CkptInv
  <2>7. CASE OpCheck(o)
    <3>1. op'[o] \in {[op[o] EXCEPT !.pc = "apply", !.todo = Compare(Base, op[o].cand)],
                      [op[o] EXCEPT !.pc = "refused"]}
      BY <2>7 DEF OpCheck
    <3> QED
      BY <3>1
  <2> QED
    BY <2>1, <2>2, <2>3, <2>4, <2>5, <2>6, <2>7 DEF OpStart, OpStep
<1> QED
  BY <1>1, <1>2, <1>3, <1>4, OpKeepsOthers DEF CkptInv

-----------------------------------------------------------------------------
(* Theorems *)

\* The inductive invariant: the run, the commands, the processes and the mount
\* stay in step through every interleaving, failed call and crash.
THEOREM Invariance == Spec => []IInv
<1>1. Init => RunInv /\ OpInv /\ DrainInv /\ MountInv
  BY DEF Init, RunInv, OpInv, OpAims, DrainInv, MountInv, Untouched, BeforeMount, Admitted, Committing
<1>2. TypeOK /\ RunInv /\ OpInv /\ DrainInv /\ MountInv /\ [Next]_vars
        => (RunInv /\ OpInv /\ DrainInv /\ MountInv)'
  <2> SUFFICES ASSUME TypeOK, RunInv, OpInv, DrainInv, MountInv, [Next]_vars
               PROVE  (RunInv /\ OpInv /\ DrainInv /\ MountInv)'
    OBVIOUS
  <2> run \in RunType /\ record \in RecordType /\ op \in [Ops -> OpType]
    BY DEF TypeOK
  <2>1. CASE RunNext \/ RunCrash
    <3>1. UNCHANGED op
      BY <2>1, RunLeavesCommands
    <3>2. OpInv'
      BY <3>1 DEF OpInv, OpAims
    <3> QED
      BY <2>1, <3>2, RunKeepsRunInv, RunKeepsDrainInv, RunKeepsMountInv
  <2>2. CASE AgentNext \/ EnvNext
    <3>1. UNCHANGED <<run, scoped, op>>
      BY <2>2 DEF AgentNext, HelperFails, AgentWrite, AgentForks, AgentExits, ChildExits,
                  EnvNext, EventLost, FuseExits, UserEdits, bounds
    <3>2. RunInv' /\ OpInv'
      BY <3>1 DEF RunInv, OpInv, OpAims
    <3> QED
      BY <2>2, <3>2, OthersKeepDrainInv, SurroundingsKeepMountInv
  <2>3. ASSUME NEW o \in Ops, OpStart(o) \/ OpStep(o) \/ OpCrash(o)
        PROVE  (RunInv /\ OpInv /\ DrainInv /\ MountInv)'
    <3>1. UNCHANGED <<run, scoped>>
      BY <2>3, CommandsLeaveRun
    <3>2. RunInv'
      BY <3>1 DEF RunInv
    <3> QED
      BY <2>3, <3>2, OpKeepsOpInv, OthersKeepDrainInv, OpKeepsMountInv
  <2>4. CASE UNCHANGED vars
    BY <2>4 DEF vars, RunInv, OpInv, OpAims, DrainInv, MountInv, Untouched, Committing
  <2> QED
    BY <2>1, <2>2, <2>3, <2>4 DEF Next, Done
<1> QED
  BY <1>1, <1>2, TypeCorrect, PTL DEF Spec, IInv

\* A run whose record says succeeded has no live process: whoever writes the
\* record, however the commands interleave and wherever they are killed.
THEOREM SuccessIsDrained == Spec => []SucceededIsDrained
<1>1. IInv => SucceededIsDrained
  BY DEF IInv, DrainInv, SucceededIsDrained
<1> QED
  BY <1>1, Invariance, PTL

\* The staged layer is never discarded under a mount, by the run process or by
\* any of the commands.
THEOREM DiscardIsSafe == Spec => DiscardFollowsUnmount
<1>1. IInv /\ [Next]_vars => [upper' = EmptyUpper /\ upper' # upper => ~mounted]_vars
  <2> SUFFICES ASSUME IInv, [Next]_vars, upper' = EmptyUpper, upper' # upper
               PROVE  ~mounted
    OBVIOUS
  <2> MountInv
    BY DEF IInv
  <2>1. TeardownDiscard \/ \E o \in Ops : OpDiscard(o)
    <3>1. ASSUME NEW p \in Paths, NEW v \in Entries \cup {NoEntry}, AgentWrite(p, v)
          PROVE  FALSE
      <4>1. upper' = [upper EXCEPT ![p] = v] /\ upper \in Upper
        BY <3>1 DEF AgentWrite, IInv, TypeOK
      <4>2. upper'[p] = v /\ upper'[p] = Through
        BY <4>1 DEF Upper, EmptyUpper
      <4> QED
        BY <4>2, ThroughAssumption
    <3>2. CASE RunNext \/ RunCrash
      BY <3>2, OnlyDiscardsReset
    <3>3. CASE EnvNext
      BY <3>3 DEF EnvNext, EventLost, FuseExits, UserEdits
    <3>4. CASE AgentNext
      BY <3>1, <3>4 DEF AgentNext, HelperFails, AgentForks, AgentExits, ChildExits
    <3>5. ASSUME NEW o \in Ops, OpStart(o) \/ OpStep(o) \/ OpCrash(o)
          PROVE  OpDiscard(o)
      BY <3>5 DEF OpStart, OpStep, OpStartRollback, OpStartCommit, OpScope, OpUnmount,
                  OpCheckpoint, OpPersist, OpHistory, OpCandidate, OpCheck, OpApply, OpApplied,
                  OpCrash
    <3>6. CASE UNCHANGED vars
      BY <3>6 DEF vars
    <3> QED
      BY <3>2, <3>3, <3>4, <3>5, <3>6 DEF Next, Done
  <2> QED
    BY <2>1 DEF TeardownDiscard, OpDiscard, MountInv
<1> QED
  BY <1>1, Invariance, PTL DEF Spec, DiscardFollowsUnmount

\* The boundaries and whoever touches them keep what the confinement rests on.
LEMMA Confined == Spec => []ConfInv
<1>1. Init => ConfInv
  BY DEF Init, ConfInv, StartInv, GateInv, Untouched, Committing, Starting, BeforeMount, Watched
<1>2. IInv /\ ConfInv /\ [Next]_vars => ConfInv'
  <2> SUFFICES ASSUME IInv, ConfInv, [Next]_vars
               PROVE  ConfInv'
    OBVIOUS
  <2> TypeOK /\ RunInv /\ OpInv
    BY DEF IInv
  <2>1. CASE UNCHANGED vars
    BY <2>1 DEF vars, ConfInv, StartInv, GateInv, Untouched, Committing
  <2> QED
    BY <2>1, RunKeepsConfInv, SurroundingsKeepConfInv, OpKeepsConfInv DEF Next, Done
<1> QED
  BY <1>1, <1>2, Invariance, PTL DEF Spec

\* A running agent is behind all of its boundaries, with any commands beside the
\* run, calls that fail and processes that are killed.
THEOREM AgentIsConfined == Spec => []AgentConfined
<1>1. ConfInv => AgentConfined
  BY ConfigTyped DEF ConfInv, GateInv, AgentConfined, Watched
<1> QED
  BY <1>1, Confined, PTL

\* A rollback from the command line leaves the checkpoint node rolled back for
\* good, whatever the run process and other commands do to the node meanwhile.
THEOREM RollbackReachesCheckpoint == Spec => []RollbackCoversCheckpoint
<1>1. Init => CkptInv
  BY DEF Init, CkptInv
<1>2. IInv /\ CkptInv /\ [Next]_vars => CkptInv'
  <2> SUFFICES ASSUME IInv, CkptInv, [Next]_vars
               PROVE  CkptInv'
    OBVIOUS
  <2> TypeOK /\ OpInv
    BY DEF IInv
  <2>1. CASE UNCHANGED vars
    BY <2>1 DEF vars, CkptInv
  <2>2. CASE AgentNext \/ EnvNext
    <3>1. UNCHANGED <<run, op, record, ckpt>>
      BY <2>2 DEF AgentNext, HelperFails, AgentWrite, AgentForks, AgentExits, ChildExits,
                  EnvNext, EventLost, FuseExits, UserEdits
    <3> QED
      BY <3>1 DEF CkptInv
  <2> QED
    BY <2>1, <2>2, RunKeepsCkptInv, OpKeepsCkptInv DEF Next, Done
<1>3. CkptInv => RollbackCoversCheckpoint
  BY DEF CkptInv, RollbackCoversCheckpoint
<1> QED
  BY <1>1, <1>2, <1>3, Invariance, PTL DEF Spec
-----------------------------------------------------------------------------
(* One process at a time *)

\* No run that has ended comes back.
LEMMA EndedStays ==
    ASSUME run \in RunType, run.pc \in Ended, RunNext \/ RunCrash
    PROVE  FALSE
  BY DEF RunNext, Ended,
      RunAddCheckpoint, RunPrepare, RunPersistPrepared, RunHistoryPrepared, CoordMount,
      CoordStart, CoordAddPID, CoordPrepareNetwork, CoordAttachSensor, CoordReleaseGate,
      RunCheckpointRunning, RunPersistRunning, RunHistoryRunning, WaitAgent,
      WaitNetwork, WaitSensor, WaitCloseScope, RunCheckpointWaitFailed, RunScan,
      RunPersistReview, RunHistoryReview, RunCheckpointSucceeded, TeardownKill,
      TeardownBoundary, TeardownScope, TeardownUnmount, TeardownDiscard,
      RunPersistFinal, RunCheckpointFinal, RunHistoryFinal, RunCrash

\* A command that starts is idle and has its turn; any other step is of a command
\* at work.
LEMMA CommandMoves ==
    ASSUME NEW o \in Ops, OpStart(o) \/ OpStep(o) \/ OpCrash(o)
    PROVE  Overlap \/ Quiet \/ Active(o)
<1>1. OpStart(o) => Overlap \/ Quiet
  BY DEF OpStart, OpStartRollback, OpStartCommit, OpReads
<1>2. OpStep(o) \/ OpCrash(o) => Active(o)
  BY DEF OpStep, OpCrash, Active, OpSteps, OpScope, OpUnmount, OpDiscard, OpCheckpoint, OpPersist,
         OpHistory, OpCandidate, OpCheck, OpApply, OpApplied
<1> QED
  BY <1>1, <1>2, Zenon

\* Where commands may not overlap, they wait for the run process and for one
\* another.
LEMMA TurnStep ==
    ASSUME ~Overlap, TypeOK, OpInv, TurnInv, [Next]_vars
    PROVE  TurnInv'
<1> run \in RunType /\ op \in [Ops -> OpType]
  BY DEF TypeOK
<1>1. CASE RunNext \/ RunCrash
  <2>1. UNCHANGED op /\ run.pc \notin Ended
    BY <1>1, RunLeavesCommands, EndedStays
  <2> QED
    BY <2>1 DEF TurnInv, Active
<1>2. CASE AgentNext \/ EnvNext \/ UNCHANGED vars
  <2>1. UNCHANGED <<run, op>>
    BY <1>2 DEF AgentNext, HelperFails, AgentWrite, AgentForks, AgentExits, ChildExits,
                EnvNext, EventLost, FuseExits, UserEdits, vars
  <2> QED
    BY <2>1 DEF TurnInv, Active
<1>3. ASSUME NEW o \in Ops, OpStart(o) \/ OpStep(o) \/ OpCrash(o)
      PROVE  TurnInv'
  <2>1. UNCHANGED run /\ \A q \in Ops \ {o} : op'[q] = op[q]
    BY <1>3, CommandsLeaveRun, OpKeepsOthers
  <2>2. Quiet \/ Active(o)
    BY <1>3, CommandMoves
  <2>3. \A q \in Ops \ {o} : ~Active(q)
    BY <2>2 DEF TurnInv, Quiet
  <2>4. run.pc \in Ended
    BY <2>2 DEF TurnInv, Quiet, Active
  <2> QED
    BY <2>1, <2>3, <2>4 DEF TurnInv, Active
<1> QED
  BY <1>1, <1>2, <1>3 DEF Next, Done

\* What a run process that is at work may rely on, and a command on its side.
LEMMA TurnFacts ==
    ASSUME TypeOK, OpInv, TurnInv
    PROVE  /\ RunNext \/ RunCrash => \A o \in Ops : op[o].pc = "idle"
           /\ ~Overlap => \A o \in Ops : OpStart(o) \/ OpStep(o) \/ OpCrash(o) =>
                /\ run.pc \in Ended
                /\ \A q \in Ops \ {o} : ~Active(q)
<1> run \in RunType /\ op \in [Ops -> OpType]
  BY DEF TypeOK
<1>1. RunNext \/ RunCrash => run.pc \notin Ended
  BY EndedStays
<1>2. ASSUME ~Overlap, NEW o \in Ops, OpStart(o) \/ OpStep(o) \/ OpCrash(o)
      PROVE  run.pc \in Ended /\ \A q \in Ops \ {o} : ~Active(q)
  <2>1. Quiet \/ Active(o)
    BY <1>2, CommandMoves
  <2> QED
    BY <2>1 DEF TurnInv, Quiet, Active
<1> QED
  BY <1>1, <1>2 DEF TurnInv
-----------------------------------------------------------------------------
(* What a run that came to its own end leaves behind *)

\* Only a commit writes committed, and the run process makes none.
LEMMA NeverCommitted ==
    ASSUME run \in RunType, run.state # "committed", RunNext \/ RunCrash
    PROVE  run'.state # "committed"
<1> USE DEF RunType, Goto, TearDown, FailAndRollback, Transition, CanTransition, Edges
<1>1. CASE WaitCloseScope
  <2>1. PICK next \in {"failed", "succeeded"}, step \in {"ckptRollback", "scan"} :
          run' = [run EXCEPT !.scope = FALSE, !.state = Transition(@, next), !.pc = step]
    BY <1>1 DEF WaitCloseScope
  <2>2. run'.state = Transition(run.state, next)
    BY <2>1
  <2> QED
    BY <2>2
<1>2. CASE TeardownKill \/ TeardownBoundary
  <2>1. run'.state = run.state
    BY <1>2 DEF TeardownKill, TeardownBoundary
  <2> QED
    BY <2>1
<1>3. CASE TeardownScope
  <2>1. run'.state = Transition(run.state, "failed")
    BY <1>3 DEF TeardownScope
  <2> QED
    BY <2>1
<1>4. CASE TeardownUnmount \/ TeardownDiscard
  <2>1. run'.state \in {run.state, Transition(run.state, "rolled_back")}
    BY <1>4 DEF TeardownUnmount, TeardownDiscard
  <2> QED
    BY <2>1
<1>5. CASE CoordMount
  BY <1>5 DEF CoordMount
<1>6. CASE \/ RunAddCheckpoint \/ RunPrepare \/ RunPersistPrepared \/ RunHistoryPrepared
            \/ CoordStart \/ CoordAddPID \/ CoordPrepareNetwork \/ CoordAttachSensor
            \/ CoordReleaseGate \/ RunCheckpointRunning \/ RunPersistRunning
            \/ RunHistoryRunning
  <2>1. run'.state = run.state
    BY <1>6 DEF RunAddCheckpoint, RunPrepare, RunPersistPrepared, RunHistoryPrepared,
                CoordStart, CoordAddPID, CoordPrepareNetwork, CoordAttachSensor,
                CoordReleaseGate, RunCheckpointRunning, RunPersistRunning, RunHistoryRunning
  <2> QED
    BY <2>1
<1>7. CASE \/ WaitAgent \/ WaitNetwork \/ WaitSensor \/ RunCheckpointWaitFailed
            \/ RunScan \/ RunPersistReview \/ RunHistoryReview \/ RunCheckpointSucceeded
            \/ RunPersistFinal \/ RunCheckpointFinal \/ RunHistoryFinal \/ RunCrash
  <2>1. run'.state = run.state
    BY <1>7 DEF WaitAgent, WaitNetwork, WaitSensor, RunCheckpointWaitFailed,
                RunScan, RunPersistReview, RunHistoryReview, RunCheckpointSucceeded,
                RunPersistFinal, RunCheckpointFinal, RunHistoryFinal, RunCrash
  <2> QED
    BY <2>1
<1> QED
  BY <1>1, <1>2, <1>3, <1>4, <1>5, <1>6, <1>7 DEF RunNext

\* The in-memory state at each control point, from Start to the review.
LEMMA MemoryStep ==
    ASSUME TypeOK, RunInv, MemoryInv, [Next]_vars
    PROVE  MemoryInv'
<1> run \in RunType
  BY DEF TypeOK
<1>1. CASE UNCHANGED run
  BY <1>1 DEF MemoryInv
<1>2. CASE RunNext \/ RunCrash
  <2> USE DEF MemoryInv, RunInv, Launched, Attended, Reviewing, Offering, BeforeMount, RunType,
              Goto, TearDown, FailAndRollback
  <2>0. run'.state # "committed"
    BY <1>2, NeverCommitted
  <2>1. CASE \/ RunAddCheckpoint \/ RunPrepare \/ RunPersistPrepared \/ RunHistoryPrepared
    BY <2>1 DEF RunAddCheckpoint, RunPrepare, RunPersistPrepared, RunHistoryPrepared
  <2>2. CASE CoordMount
    BY <2>2 DEF CoordMount, Transition, CanTransition, Edges
  <2>3. CASE CoordStart \/ CoordAddPID \/ CoordPrepareNetwork \/ CoordAttachSensor \/ CoordReleaseGate
    BY <2>3 DEF CoordStart, CoordAddPID, CoordPrepareNetwork, CoordAttachSensor, CoordReleaseGate
  <2>4. CASE RunCheckpointRunning \/ RunPersistRunning \/ RunHistoryRunning
    BY <2>4 DEF RunCheckpointRunning, RunPersistRunning, RunHistoryRunning
  <2>5. CASE WaitAgent \/ WaitNetwork
    BY <2>5 DEF WaitAgent, WaitNetwork
  <2>6. CASE WaitSensor
    <3>1. PICK err \in BOOLEAN :
            run' = [run EXCEPT !.pc = "waitScope", !.sensor = FALSE, !.waitErr = err]
      BY <2>6 DEF WaitSensor
    <3> QED
      BY <2>6, <3>1 DEF WaitSensor
  <2>7. CASE WaitCloseScope
    <3>1. PICK next \in {"failed", "succeeded"}, step \in {"ckptRollback", "scan"} :
            /\ run' = [run EXCEPT !.scope = FALSE, !.state = Transition(@, next), !.pc = step]
            /\ step = "scan" => next = "succeeded"
      BY <2>7 DEF WaitCloseScope
    <3>2. run.state = "running"
      BY <2>7 DEF WaitCloseScope
    <3>3. Transition("running", next) = next
      BY DEF Transition, CanTransition, Edges
    <3>4. run'.pc = step /\ run'.state = next
      BY <3>1, <3>2, <3>3
    <3> QED
      BY <2>0, <3>1, <3>4
  <2>8. CASE RunCheckpointWaitFailed \/ RunScan \/ RunPersistReview \/ RunHistoryReview
             \/ RunCheckpointSucceeded
    BY <2>8 DEF RunCheckpointWaitFailed, RunScan, RunPersistReview, RunHistoryReview,
                RunCheckpointSucceeded
  <2>9. CASE TeardownKill
    <3>1. run'.pc = "boundary"
      BY <2>9 DEF TeardownKill
    <3> QED
      BY <2>0, <3>1
  <2>10. CASE TeardownBoundary
    <3>1. run'.pc = "scope"
      BY <2>10 DEF TeardownBoundary
    <3> QED
      BY <2>0, <3>1
  <2>11. CASE TeardownScope
    <3>1. run'.pc = "unmount"
      BY <2>11 DEF TeardownScope
    <3> QED
      BY <2>0, <3>1
  <2>12. CASE TeardownUnmount \/ TeardownDiscard
    <3>1. run'.pc \in {"discard", "exited", "persistFinal"}
      BY <2>12 DEF TeardownUnmount, TeardownDiscard, AfterTeardown
    <3> QED
      BY <2>0, <3>1
  <2>13. CASE RunPersistFinal \/ RunCheckpointFinal \/ RunHistoryFinal \/ RunCrash
    <3>1. run'.pc \in {"historyFinal", "ckptFinal", "exited", "crashed"}
      BY <2>13 DEF RunPersistFinal, RunCheckpointFinal, RunHistoryFinal, RunCrash
    <3> QED
      BY <2>0, <3>1
  <2> QED
    BY <1>2, <2>1, <2>2, <2>3, <2>4, <2>5, <2>6, <2>7, <2>8, <2>9, <2>10, <2>11, <2>12, <2>13
    DEF RunNext
<1>3. CASE AgentNext \/ EnvNext \/ UNCHANGED vars
  BY <1>1, <1>3 DEF AgentNext, HelperFails, AgentWrite, AgentForks, AgentExits, ChildExits,
                EnvNext, EventLost, FuseExits, UserEdits, vars
<1>4. ASSUME NEW o \in Ops, OpStart(o) \/ OpStep(o) \/ OpCrash(o)
      PROVE  MemoryInv'
  BY <1>1, <1>4, CommandsLeaveRun
<1> QED
  BY <1>2, <1>3, <1>4 DEF Next, Done
\* Before Start there is nothing to clean.
LEMMA StartKeepsClean ==
    ASSUME TypeOK, RunInv, StartInv, TurnInv, CleanInv,
           \/ RunAddCheckpoint \/ RunPrepare \/ RunPersistPrepared \/ RunHistoryPrepared
           \/ CoordMount \/ CoordStart \/ CoordAddPID \/ CoordPrepareNetwork
           \/ CoordAttachSensor \/ CoordReleaseGate
    PROVE  CleanInv'
<1> run \in RunType
  BY DEF TypeOK
<1>idle. \A o \in Ops : op[o].pc = "idle"
  BY DEF TurnInv, Ended, RunAddCheckpoint, RunPrepare, RunPersistPrepared, RunHistoryPrepared,
         CoordMount, CoordStart, CoordAddPID, CoordPrepareNetwork, CoordAttachSensor,
         CoordReleaseGate
<1> USE DEF CleanInv, StartInv, Starting, Released, Offering, Reviewing, Watched, Finishing,
            BeforeMount, Ended, RunType, Goto, TearDown, FailAndRollback
<1>1. CASE RunAddCheckpoint
  BY <1>1, <1>idle DEF RunAddCheckpoint
<1>2. CASE RunPrepare
  BY <1>2, <1>idle DEF RunPrepare
<1>3. CASE RunPersistPrepared
  BY <1>3, <1>idle DEF RunPersistPrepared
<1>4. CASE RunHistoryPrepared
  BY <1>4, <1>idle DEF RunHistoryPrepared
<1>5. CASE CoordMount
  <2>1. /\ run.pc = "mount" /\ run'.pc \in {"start", "persistFinal"}
        /\ run'.pc = "persistFinal" => UNCHANGED mounted
        /\ run'.process = run.process /\ run'.scope = run.scope
        /\ UNCHANGED <<procs, gate, record, op>>
    BY <1>5 DEF CoordMount
  <2> QED
    BY <2>1
<1>6. CASE CoordStart
  <2>1. /\ run.pc = "start" /\ run'.pc \in {"addPID", "kill"}
        /\ run'.scope = run.scope /\ run'.waited = run.waited
        /\ UNCHANGED <<gate, mounted, record, op>>
    BY <1>6 DEF CoordStart
  <2>2. \/ run'.pc = "addPID" /\ run'.process /\ procs' = {"agent"}
        \/ run'.pc = "kill" /\ run'.process = run.process /\ UNCHANGED procs
    BY <1>6 DEF CoordStart
  <2>3. run.scope
    BY <2>1
  <2> QED
    BY <2>1, <2>2, <2>3
<1>7. CASE CoordAddPID
  BY <1>7, <1>idle DEF CoordAddPID
<1>8. CASE CoordPrepareNetwork
  <2>1. /\ run.pc = "network" /\ run'.pc \in {"attach", "kill"}
        /\ run'.process = run.process /\ run'.scope = run.scope /\ run'.waited = run.waited
        /\ UNCHANGED <<procs, gate, mounted, record, op>>
    BY <1>8 DEF CoordPrepareNetwork
  <2> QED
    BY <2>1
<1>9. CASE CoordAttachSensor
  <2>1. /\ run.pc = "attach" /\ run'.pc \in {"gate", "kill"}
        /\ run'.process = run.process /\ run'.scope = run.scope /\ run'.waited = run.waited
        /\ UNCHANGED <<procs, gate, mounted, record, op>>
    BY <1>9 DEF CoordAttachSensor
  <2> QED
    BY <2>1
<1>10. CASE CoordReleaseGate
  BY <1>10, <1>idle DEF CoordReleaseGate
<1> QED
  BY <1>1, <1>2, <1>3, <1>4, <1>5, <1>6, <1>7, <1>8, <1>9, <1>10

\* Wait and the branch on its outcome: the cgroup drains before the handle gives
\* its scope up, and only a record that says succeeded is left mounted.
LEMMA WaitKeepsClean ==
    ASSUME Sound, TypeOK, RunInv, DrainInv, GateInv, MemoryInv, TurnInv, CleanInv,
           \/ RunCheckpointRunning \/ RunPersistRunning \/ RunHistoryRunning
           \/ WaitAgent \/ WaitNetwork \/ WaitSensor \/ WaitCloseScope
           \/ RunCheckpointWaitFailed
           \/ RunScan \/ RunPersistReview \/ RunHistoryReview \/ RunCheckpointSucceeded
    PROVE  CleanInv'
<1> run \in RunType
  BY DEF TypeOK
<1> USE DEF CleanInv, GateInv, Starting, Released, Offering, Reviewing, Watched, Finishing,
            BeforeMount, Ended, RunType, Goto, TearDown, FailAndRollback
<1>1. CASE RunCheckpointRunning
  BY <1>1 DEF RunCheckpointRunning
<1>2. CASE RunPersistRunning
  BY <1>2 DEF RunPersistRunning
<1>3. CASE RunHistoryRunning
  BY <1>3 DEF RunHistoryRunning
<1>4. CASE WaitAgent
  BY <1>4 DEF WaitAgent
<1>5. CASE WaitNetwork
  <2>1. /\ run.pc = "waitNetwork" /\ run'.pc = "waitSensor"
        /\ run'.process = run.process /\ run'.scope = run.scope
        /\ UNCHANGED <<procs, gate, mounted, record, op>>
    BY <1>5 DEF WaitNetwork
  <2> QED
    BY <2>1
<1>6. CASE WaitSensor
  <2>1. run.pc = "waitSensor" /\ run'.pc = "waitScope" /\ gate' = "open" /\ run'.scope = run.scope
        /\ run'.process = run.process /\ UNCHANGED <<procs, gate, mounted, record, op>>
    BY <1>6 DEF WaitSensor
  <2> QED
    BY <2>1
<1>7. CASE WaitCloseScope
  <2>1. run.pc = "waitScope" /\ gate' = "open"
    BY <1>7 DEF WaitCloseScope
  <2>2. procs' = {}
    BY <1>7 DEF WaitCloseScope, ScopeEmptied, ScopeRemains, Members, RunInv, Admitted, Sound, Fails
  <2>3. run'.pc \in {"ckptRollback", "scan"}
    BY <1>7 DEF WaitCloseScope
  <2> QED
    BY <2>1, <2>2, <2>3
<1>8. CASE RunCheckpointWaitFailed
  BY <1>8 DEF RunCheckpointWaitFailed
<1>9. CASE RunScan
  BY <1>9 DEF RunScan
<1>10. CASE RunPersistReview
  <2>1. run.state = "succeeded"
    BY <1>10 DEF RunPersistReview, MemoryInv
  <2>2. /\ run.pc = "persistReview" /\ run'.pc \in {"historyReview", "kill"}
        /\ run'.process = run.process /\ run'.scope = run.scope
        /\ UNCHANGED <<procs, gate, mounted, op>>
    BY <1>10 DEF RunPersistReview
  <2>3. run'.pc = "historyReview" => record'.state = "succeeded"
    <3>1. run'.pc = "historyReview" => WritesRecord
      <4>1. WritesRecord \/ TearDown("abort")
        BY <1>10, Zenon DEF RunPersistReview
      <4>2. TearDown("abort") => run'.pc = "kill"
        OBVIOUS
      <4> QED
        BY <4>1, <4>2
    <3> QED
      BY <2>1, <3>1 DEF WritesRecord, NewRecord
  <2> QED
    BY <2>2, <2>3
<1>11. CASE RunHistoryReview
  BY <1>11 DEF RunHistoryReview
<1>12. CASE RunCheckpointSucceeded
  <2>1. run.pc = "ckptSucceeded" /\ run'.pc = "exited"
        /\ UNCHANGED <<procs, gate, mounted, record, op>>
    BY <1>12 DEF RunCheckpointSucceeded
  <2>2. procs = {}
    BY <2>1 DEF MemoryInv, DrainInv
  <2>3. \A o \in Ops : op[o].pc = "idle"
    BY <2>1 DEF TurnInv
  <2> QED
    BY <2>1, <2>2, <2>3
<1> QED
  BY <1>1, <1>2, <1>3, <1>4, <1>5, <1>6, <1>7, <1>8, <1>9, <1>10, <1>11, <1>12

\* The teardown kills what waits behind the gate, empties the scope of what has
\* passed it, and then nothing keeps the overlay busy.
LEMMA TeardownKeepsClean ==
    ASSUME Sound, TypeOK, RunInv, MountInv, GateInv, TurnInv, CleanInv,
           \/ TeardownKill \/ TeardownBoundary \/ TeardownScope
           \/ TeardownUnmount \/ TeardownDiscard
           \/ RunPersistFinal \/ RunCheckpointFinal \/ RunHistoryFinal
           \/ RunCrash
    PROVE  CleanInv'
<1> run \in RunType /\ procs \subseteq {"agent", "child"} /\ gate \in {"closed", "open"}
  BY DEF TypeOK
<1>idle. run.pc \notin Ended => \A o \in Ops : op[o].pc = "idle"
  BY DEF TurnInv
<1> USE DEF CleanInv, Starting, Released, Offering, Reviewing, Watched, Finishing,
            BeforeMount, Ended, RunType, Goto
<1>1. CASE TeardownKill
  <2>1. /\ run.pc = "kill" /\ run'.pc = "boundary"
        /\ run'.process = run.process /\ run'.scope = run.scope
        /\ UNCHANGED <<gate, mounted, record, op>>
    BY <1>1 DEF TeardownKill
  <2>2. procs' = IF run.process /\ ~run.waited THEN procs \ {"agent"} ELSE procs
    BY <1>1 DEF TeardownKill
  <2>3. procs' \subseteq procs /\ (gate = "closed" => procs' = {})
    BY <2>1, <2>2
  <2> HIDE <1>1
  <2> QED
    BY <2>1, <2>3
<1>2. CASE TeardownBoundary
  <2>1. /\ run.pc = "boundary" /\ run'.pc = "scope"
        /\ run'.process = run.process /\ run'.scope = run.scope
        /\ UNCHANGED <<procs, gate, mounted, record, op>>
    BY <1>2 DEF TeardownBoundary
  <2> QED
    BY <2>1
<1>3. CASE TeardownScope
  <2>1. /\ run.pc = "scope" /\ run'.pc = "unmount"
        /\ UNCHANGED <<gate, mounted, record, op>>
    BY <1>3 DEF TeardownScope
  <2>2. gate = "open" /\ procs # {} => scoped /\ cgroup /\ run.scope
    BY <2>1 DEF GateInv
  <2>3. gate = "closed" => procs = {}
    BY <2>1
  <2>4. procs' = {}
    BY <1>3, <2>2, <2>3 DEF TeardownScope, ScopeEmptied, ScopeRemains, Members, Sound, Fails
  <2> QED
    BY <2>1, <2>4
<1>4. CASE TeardownUnmount
  <2>1. /\ run.pc = "unmount" /\ run'.pc \in {"discard", "exited", "persistFinal"}
        /\ UNCHANGED <<procs, gate, record, op>>
    BY <1>4 DEF TeardownUnmount, AfterTeardown
  <2>2. procs = {}
    BY <2>1
  <2>3. ~mounted'
    BY <1>4, <2>2 DEF TeardownUnmount, RollbackUnmounts, RollbackRefuses, Unmounts, UnmountBusy,
                      Sound, Fails
  <2> QED
    BY <2>1, <2>2, <2>3, <1>idle
<1>5. CASE TeardownDiscard
  <2>1. /\ run.pc = "discard" /\ run'.pc \in {"exited", "persistFinal"}
        /\ UNCHANGED <<procs, gate, mounted, record, op>>
    BY <1>5 DEF TeardownDiscard, AfterTeardown
  <2>2. procs = {} /\ ~mounted
    BY <2>1 DEF MountInv
  <2> QED
    BY <2>1, <2>2, <1>idle
<1>6. CASE RunPersistFinal \/ RunCheckpointFinal \/ RunHistoryFinal
  <2>1. /\ run.pc \in Finishing /\ run'.pc \in {"exited", "historyFinal", "ckptFinal"}
        /\ UNCHANGED <<procs, gate, mounted, op>>
    BY <1>6 DEF RunPersistFinal, RunCheckpointFinal, RunHistoryFinal
  <2>2. procs = {} /\ ~mounted
    BY <2>1
  <2> QED
    BY <2>1, <2>2, <1>idle
<1>7. CASE RunCrash
  <2>1. /\ run'.pc = "crashed"
        /\ UNCHANGED <<procs, gate, mounted, record, op>>
    BY <1>7 DEF RunCrash
  <2> QED
    BY <2>1
<1> QED
  BY <1>1, <1>2, <1>3, <1>4, <1>5, <1>6, <1>7

\* The agent and the kernel start nothing behind a closed gate and mount nothing.
LEMMA SurroundingsKeepClean ==
    ASSUME TypeOK, CleanInv, AgentNext \/ EnvNext
    PROVE  CleanInv'
<1>1. UNCHANGED <<run, op, record, gate>> /\ (mounted' => mounted)
  BY DEF AgentNext, HelperFails, AgentWrite, AgentForks, AgentExits, ChildExits,
         EnvNext, EventLost, FuseExits, UserEdits
<1>2. procs' \subseteq procs \/ (gate = "open" /\ procs # {})
  BY DEF AgentNext, HelperFails, AgentWrite, AgentForks, AgentExits, ChildExits,
         EnvNext, EventLost, FuseExits, UserEdits
<1>3. gate = "open" => gate # "closed"
  OBVIOUS
<1> QED
  BY <1>1, <1>2, <1>3 DEF CleanInv

\* A command changes the record of an ended run only once it has unmounted it.
LEMMA CommandsKeepClean ==
    ASSUME Sound, TypeOK, OpInv, MountInv, TurnInv, CleanInv,
           NEW o \in Ops, OpStart(o) \/ OpStep(o) \/ OpCrash(o)
    PROVE  CleanInv'
<1> op \in [Ops -> OpType] /\ record \in RecordType /\ procs \subseteq {"agent", "child"}
  BY DEF TypeOK
<1> USE DEF OpGoto, OpType
<1>1. run' = run /\ gate' = gate /\ (mounted' => mounted)
  BY DEF OpStart, OpStep, OpStartRollback, OpStartCommit, OpScope, OpUnmount, OpDiscard,
         OpCheckpoint, OpPersist, OpHistory, OpCandidate, OpCheck, OpApply, OpApplied, OpCrash,
         RollbackUnmounts, RollbackRefuses, Unmounts, UnmountBusy
<1>2. procs' \subseteq procs
  BY DEF OpStart, OpStep, OpStartRollback, OpStartCommit, OpScope, OpUnmount, OpDiscard,
         OpCheckpoint, OpPersist, OpHistory, OpCandidate, OpCheck, OpApply, OpApplied, OpCrash,
         ScopeEmptied, ScopeRemains
<1>3. run.pc \in Ended
  <2>1. Quiet \/ Active(o)
    BY CommandMoves DEF Sound
  <2> QED
    BY <2>1 DEF TurnInv, Quiet, Active
<1>4. run.pc \notin BeforeMount \cup Finishing \cup {"start", "unmount", "discard"}
                    \cup Starting \cup Released \cup Offering
                    \cup {"kill", "boundary", "scope"}
  BY <1>3 DEF Ended, BeforeMount, Finishing, Starting, Released, Offering, Reviewing, Watched
<1>5. ASSUME run.pc = "exited"
      PROVE  /\ mounted' => record'.state = "succeeded"
             /\ op'[o].pc \in {"ckpt", "persist", "history"} => ~mounted'
  <2>1. OpPersist(o) => ~mounted'
    BY <1>5 DEF OpPersist, CleanInv
  <2>2. ~OpPersist(o) => record' = record
    BY DEF OpStart, OpStep, OpStartRollback, OpStartCommit, OpScope, OpUnmount, OpDiscard,
           OpCheckpoint, OpHistory, OpCandidate, OpCheck, OpApply, OpApplied, OpCrash
  <2>3. ASSUME op'[o].pc \in {"ckpt", "persist", "history"}, mounted
        PROVE  FALSE
    <3> op[o].pc \notin {"ckpt", "persist", "history", "discard"} /\ record.state = "succeeded"
      BY <1>5, <2>3 DEF CleanInv, MountInv
    <3>1. ~OpStart(o)
      <4>1. ASSUME NEW via \in {"cli", "supervisor"}, OpStartRollback(o, via)
            PROVE  FALSE
        BY <2>3, <4>1 DEF OpStartRollback
      <4>2. ASSUME NEW via \in {"cli", "supervisor"}, OpStartCommit(o, via)
            PROVE  FALSE
        BY <2>3, <4>2 DEF OpStartCommit
      <4> QED
        BY <4>1, <4>2 DEF OpStart
    <3>2. ~OpScope(o) /\ ~OpUnmount(o)
      <4>1. ASSUME OpScope(o)
            PROVE  op'[o].pc = "unmount"
        <5>1. \/ OpGoto(o, "unmount")
              \/ op' = [op EXCEPT ![o] = [@ EXCEPT !.pc = "unmount", !.err = TRUE]]
              \/ op' = [op EXCEPT ![o] = [@ EXCEPT !.pc = "unmount", !.err = op[o].scope]]
          BY <4>1, Zenon DEF OpScope
        <5> HIDE <4>1
        <5> QED
          BY <5>1
      <4>2. OpUnmount(o) => op'[o].pc \in {"discard", "refused"}
        BY DEF OpUnmount
      <4> QED
        BY <2>3, <4>1, <4>2
    <3>3. ~OpDiscard(o) /\ ~OpCheckpoint(o) /\ ~OpPersist(o) /\ ~OpHistory(o)
      BY DEF OpDiscard, OpCheckpoint, OpPersist, OpHistory
    <3>4. ~OpCandidate(o) /\ ~OpCheck(o)
      <4>1. ASSUME OpCheck(o)
            PROVE  FALSE
        <5>1. op'[o] \in {[op[o] EXCEPT !.pc = "apply", !.todo = Compare(Base, op[o].cand)],
                          [op[o] EXCEPT !.pc = "refused"]}
          BY <4>1 DEF OpCheck
        <5> QED
          BY <2>3, <5>1
      <4>2. OpCandidate(o) => op'[o].pc = "check"
        BY DEF OpCandidate
      <4> QED
        BY <2>3, <4>1, <4>2
    <3>5. ~(\E p \in Paths : OpApply(o, p)) /\ ~OpApplied(o) /\ ~OpCrash(o)
      <4>1. ASSUME NEW p \in Paths, OpApply(o, p)
            PROVE  op'[o].pc \in {"apply", "refused"}
        <5>1. op' = [op EXCEPT ![o].todo = @ \ {p}] \/ OpGoto(o, "refused")
          BY <4>1, Zenon DEF OpApply
        <5>2. op[o].pc = "apply"
          BY <4>1 DEF OpApply
        <5> HIDE <4>1
        <5> QED
          BY <5>1, <5>2
      <4>2. OpApplied(o) => op'[o].pc = "unmount"
        BY DEF OpApplied
      <4>3. OpCrash(o) => op'[o].pc = "killed"
        BY DEF OpCrash
      <4> QED
        BY <2>3, <4>1, <4>2, <4>3
    <3> QED
      BY <3>1, <3>2, <3>3, <3>4, <3>5 DEF OpStep
  <2> QED
    BY <1>1, <1>5, <2>1, <2>2, <2>3 DEF CleanInv
<1>6. \A q \in Ops \ {o} : op'[q] = op[q]
  BY OpKeepsOthers
<1> QED
  BY <1>1, <1>2, <1>3, <1>4, <1>5, <1>6 DEF CleanInv, Ended

\* A run whose process came to its own end, and whose record says rolled back, has
\* left no mount and no process, whatever else has failed: unless an unmount or a
\* scope operation failed, or a command got in between.
THEOREM ExitedIsClean ==
    ASSUME Sound
    PROVE  Spec => []ExitedRunIsClean
<1>1. Init => TurnInv /\ MemoryInv /\ CleanInv
  BY DEF Init, TurnInv, MemoryInv, CleanInv, Active, OpSteps, Ended, Launched, Attended, Reviewing,
         Offering, BeforeMount, Finishing, Starting, Released, Watched
<1>2. IInv /\ ConfInv /\ TurnInv /\ MemoryInv /\ CleanInv /\ [Next]_vars
        => (TurnInv /\ MemoryInv /\ CleanInv)'
  <2> SUFFICES ASSUME IInv, ConfInv, TurnInv, MemoryInv, CleanInv, [Next]_vars
               PROVE  (TurnInv /\ MemoryInv /\ CleanInv)'
    OBVIOUS
  <2> TypeOK /\ RunInv /\ OpInv /\ DrainInv /\ MountInv /\ StartInv /\ GateInv
    BY DEF IInv, ConfInv
  <2>1. TurnInv' /\ MemoryInv'
    BY TurnStep, MemoryStep DEF Sound
  <2>2. CleanInv'
    <3>1. CASE RunNext \/ RunCrash
      BY <3>1, StartKeepsClean, WaitKeepsClean, TeardownKeepsClean DEF RunNext
    <3>2. CASE UNCHANGED vars
      BY <3>2 DEF vars, CleanInv
    <3> QED
      BY <3>1, <3>2, SurroundingsKeepClean, CommandsKeepClean DEF Next, Done
  <2> QED
    BY <2>1, <2>2
<1>3. IInv /\ CleanInv => ExitedRunIsClean
  BY DEF IInv, CleanInv, ExitedRunIsClean
<1> QED
  BY <1>1, <1>2, <1>3, Invariance, Confined, PTL DEF Spec
-----------------------------------------------------------------------------
(* The transaction *)

\* In a sequential run the writes that are tried succeed, the overlay unmounts
\* when it is free, and a discard is complete.
LEMMA SequentialCalls ==
    ASSUME Sequential
    PROVE  /\ ~Overlap
           /\ ~Fails("persist") /\ ~Fails("history") /\ ~Fails("ckpt") /\ ~Fails("unmount")
           /\ ~Fails("discard") /\ ~Fails("copy") /\ ~Fails("fuse") /\ ~Fails("opcrash")
  BY DEF Sequential, Severing, Fails

\* Nobody else writes the record or mounts the overlay while the run process is
\* at work.
LEMMA StageStep ==
    ASSUME Sequential, TypeOK, RunInv, DrainInv, TurnInv, MemoryInv, StageInv, RunNext
    PROVE  StageInv'
<1> run \in RunType /\ record \in RecordType
  BY DEF TypeOK
<1> USE DEF StageInv, Launched, Attended, Reviewing, Offering, Undoing, Finishing, BeforeMount,
            RunType, Goto, TearDown, FailAndRollback
<1>1. CASE RunAddCheckpoint \/ RunPrepare \/ RunHistoryPrepared
  <2>1. /\ run.pc \in {"plan", "prepare", "historyPrepared"} /\ run'.pc \in {"prepare", "persistPrepared", "mount", "exited"}
        /\ run'.pc = "mount" => run.pc = "historyPrepared"
        /\ UNCHANGED <<record, mounted>>
    BY <1>1 DEF RunAddCheckpoint, RunPrepare, RunHistoryPrepared
  <2> QED
    BY <2>1
<1>2. CASE RunPersistPrepared
  <2>1. /\ run.pc = "persistPrepared" /\ run'.pc = "historyPrepared" /\ record' = NewRecord
        /\ UNCHANGED mounted
    BY <1>2, SequentialCalls DEF RunPersistPrepared, WritesRecord, RecordWriteFails
  <2>2. run.state = "preparing"
    BY <2>1 DEF RunInv
  <2> QED
    BY <2>1, <2>2 DEF NewRecord
<1>3. CASE CoordMount
  <2>1. /\ run.pc = "mount" /\ run'.pc \in {"start", "persistFinal"}
        /\ run'.pc = "start" => mounted'
        /\ run'.pc = "persistFinal" => run'.state = run.state
        /\ UNCHANGED record
    BY <1>3 DEF CoordMount
  <2>2. run.state = "preparing"
    BY <2>1 DEF RunInv
  <2> QED
    BY <2>1, <2>2
<1>4. CASE CoordStart \/ CoordAddPID \/ CoordPrepareNetwork \/ CoordAttachSensor \/ CoordReleaseGate
           \/ RunCheckpointRunning
  <2>1. /\ run.pc \in Launched \ {"persistRunning"} /\ run'.pc \in (Launched \ {"start"}) \cup {"kill"}
        /\ UNCHANGED <<record, mounted>>
    BY <1>4 DEF CoordStart, CoordAddPID, CoordPrepareNetwork, CoordAttachSensor, CoordReleaseGate,
                RunCheckpointRunning
  <2> QED
    BY <2>1
<1>5. CASE RunPersistRunning
  <2>1. /\ run.pc = "persistRunning" /\ run'.pc = "historyRunning" /\ record' = NewRecord
        /\ UNCHANGED mounted
    BY <1>5, SequentialCalls DEF RunPersistRunning, WritesRecord, RecordWriteFails
  <2>2. run.state = "running"
    BY <2>1 DEF MemoryInv
  <2> QED
    BY <2>1, <2>2 DEF NewRecord
<1>6. CASE RunHistoryRunning \/ WaitAgent \/ WaitNetwork
  <2>1. /\ run.pc \in Attended /\ run'.pc \in Attended \cup {"kill"}
        /\ UNCHANGED <<record, mounted>>
    BY <1>6 DEF RunHistoryRunning, WaitAgent, WaitNetwork
  <2> QED
    BY <2>1
<1>7. CASE WaitSensor
  <2>1. run.pc = "waitSensor" /\ run'.pc = "waitScope" /\ UNCHANGED <<record, mounted>>
    BY <1>7 DEF WaitSensor
  <2> QED
    BY <2>1
<1>8. CASE WaitCloseScope
  <2>1. run.pc = "waitScope" /\ run'.pc \in {"ckptRollback", "scan"} /\ UNCHANGED <<record, mounted>>
    BY <1>8 DEF WaitCloseScope
  <2> QED
    BY <2>1
<1>9. CASE RunCheckpointWaitFailed \/ RunScan
  <2>1. /\ run.pc \in {"ckptRollback", "scan"} /\ run'.pc \in {"kill", "persistReview"}
        /\ run'.pc = "persistReview" => run.pc = "scan"
        /\ UNCHANGED <<record, mounted>>
    BY <1>9 DEF RunCheckpointWaitFailed, RunScan
  <2> QED
    BY <2>1
<1>10. CASE RunPersistReview
  <2>1. /\ run.pc = "persistReview" /\ run'.pc = "historyReview" /\ record' = NewRecord
    BY <1>10, SequentialCalls DEF RunPersistReview, WritesRecord, RecordWriteFails
  <2>2. run.state = "succeeded"
    BY <2>1 DEF MemoryInv
  <2> QED
    BY <2>1, <2>2 DEF NewRecord
<1>11. CASE RunHistoryReview \/ RunCheckpointSucceeded
  <2>1. run.pc \in Offering /\ run'.pc \in {"ckptSucceeded", "exited"} /\ UNCHANGED record
    BY <1>11, SequentialCalls DEF RunHistoryReview, RunCheckpointSucceeded, HistoryWriteFails
  <2> QED
    BY <2>1
<1>12. CASE TeardownKill
  <2>1. run.pc = "kill" /\ run'.pc = "boundary" /\ UNCHANGED <<record, mounted>>
    BY <1>12 DEF TeardownKill
  <2> QED
    BY <2>1
<1>13. CASE TeardownBoundary
  <2>1. run.pc = "boundary" /\ run'.pc = "scope" /\ UNCHANGED <<record, mounted>>
    BY <1>13 DEF TeardownBoundary
  <2> QED
    BY <2>1
<1>14. CASE TeardownScope
  <2>1. run.pc = "scope" /\ run'.pc = "unmount" /\ UNCHANGED <<record, mounted>>
    BY <1>14 DEF TeardownScope
  <2> QED
    BY <2>1
<1>15. CASE TeardownUnmount
  <2>1. /\ run.pc = "unmount" /\ run'.pc \in {"discard", "exited", "persistFinal"} /\ UNCHANGED record
        /\ run'.state = run.state
    BY <1>15 DEF TeardownUnmount, AfterTeardown
  <2>2. mounted
    BY <2>1
  <2>3. run'.pc = "persistFinal" => procs # {}
    BY <1>15, <2>2, SequentialCalls
    DEF TeardownUnmount, AfterTeardown, RollbackRefuses, UnmountBusy, RollbackUnmounts
  <2>4. run'.pc = "persistFinal" => run.state # "succeeded"
    BY <2>3 DEF DrainInv
  <2> QED
    BY <2>1, <2>4
<1>16. CASE TeardownDiscard
  <2>1. /\ run.pc = "discard" /\ run'.pc \in {"exited", "persistFinal"} /\ UNCHANGED record
    BY <1>16 DEF TeardownDiscard, AfterTeardown
  <2>2. run'.state = Transition(run.state, "rolled_back")
    BY <1>16, SequentialCalls DEF TeardownDiscard, DiscardFails
  <2>3. run'.state # "succeeded"
    BY <2>2 DEF Transition, CanTransition, Edges
  <2> QED
    BY <2>1, <2>3
<1>17. CASE RunPersistFinal
  <2>1. /\ run.pc = "persistFinal" /\ run'.pc \in {"exited", "ckptFinal", "historyFinal"}
        /\ record' = NewRecord /\ run'.state = run.state
    BY <1>17, SequentialCalls DEF RunPersistFinal, WritesRecord, RecordWriteFails
  <2> QED
    BY <2>1 DEF NewRecord
<1>18. CASE RunCheckpointFinal \/ RunHistoryFinal
  <2>1. /\ run.pc \in {"ckptFinal", "historyFinal"} /\ run'.pc \in {"exited", "historyFinal"}
        /\ run'.state = run.state /\ UNCHANGED record
    BY <1>18 DEF RunCheckpointFinal, RunHistoryFinal
  <2> QED
    BY <2>1
<1> QED
  BY <1>1, <1>2, <1>3, <1>4, <1>5, <1>6, <1>7, <1>8, <1>9, <1>10,
     <1>11, <1>12, <1>13, <1>14, <1>15, <1>16, <1>17, <1>18
  DEF RunNext
-----------------------------------------------------------------------------
(* What one step of a command does, field by field *)

\* A command starts from the record alone.
LEMMA StartEffect ==
    ASSUME op \in [Ops -> OpType], record \in RecordType, NEW o \in Ops, OpStart(o)
    PROVE  /\ op[o].pc = "idle" /\ record.state # "none" /\ op'[o].err = op[o].err
           /\ UNCHANGED <<record, hist, ckpt, tree, agent, bounds, run, ghosts>>
           /\ \/ op'[o].pc = "refused"
              \/ /\ op'[o].kind = "rollback" /\ op'[o].scope = cgroup
                 /\ op'[o].pc \in {"ckpt", "persist"} /\ op'[o].state = "rolled_back"
                 /\ record.state \in {"preparing", "rolled_back"}
              \/ /\ op'[o].kind = "rollback" /\ op'[o].scope = cgroup
                 /\ op'[o].pc = "scope"
                 /\ record.state \notin {"none", "preparing", "rolled_back", "committed"}
              \/ /\ op'[o].kind = "commit" /\ op'[o].pc = "candidate"
                 /\ record.state = "succeeded"
<1> USE DEF OpType, RecordType
<1>1. ASSUME NEW via \in {"cli", "supervisor"}, OpStartRollback(o, via)
      PROVE  \/ op'[o].pc = "refused"
             \/ /\ op'[o].pc \in {"ckpt", "persist"} /\ op'[o].state = "rolled_back"
                /\ record.state \in {"preparing", "rolled_back"}
             \/ /\ op'[o].pc = "scope"
                /\ record.state \notin {"none", "preparing", "rolled_back", "committed"}
  <2> DEFINE state == IF record.state \in {"running", "mounted"}
                        THEN Transition(record.state, "failed") ELSE record.state
             step == CASE state \in {"preparing", "rolled_back"} -> AfterRollbackPlan(via)
                       [] state \in {"failed", "succeeded", "paused"} -> "scope"
                       [] OTHER -> "refused"
             next == IF state = "preparing" THEN Transition(state, "rolled_back") ELSE state
  <2>1. op'[o].pc = step /\ op'[o].state = next
    <3>1. op' = [op EXCEPT ![o] =
                   [@ EXCEPT !.kind = "rollback", !.via = via,
                             !.complete = record.complete, !.scope = cgroup,
                             !.state = next, !.pc = step]]
      BY <1>1, Zenon DEF OpStartRollback
    <3> HIDE DEF step, next
    <3> QED
      BY <3>1
  <2>2. state = IF record.state \in {"running", "mounted"} THEN "failed" ELSE record.state
    BY DEF Transition, CanTransition, Edges
  <2>3. record.state # "none"
    BY <1>1 DEF OpStartRollback, OpReads
  <2>4. AfterRollbackPlan(via) \in {"ckpt", "persist"}
    BY DEF AfterRollbackPlan
  <2>5. CASE state \in {"preparing", "rolled_back"}
    <3>1. step \in {"ckpt", "persist"}
      BY <2>4, <2>5
    <3>2. next = "rolled_back"
      BY <2>5 DEF Transition, CanTransition, Edges
    <3>3. record.state \in {"preparing", "rolled_back"}
      BY <2>2, <2>5
    <3> QED
      BY <2>1, <3>1, <3>2, <3>3
  <2>6. CASE state \notin {"preparing", "rolled_back"}
    <3>1. step \in {"scope", "refused"} /\ (step = "scope" => state \in {"failed", "succeeded", "paused"})
      BY <2>6
    <3>2. state \in {"failed", "succeeded", "paused"}
            => record.state \notin {"none", "preparing", "rolled_back", "committed"}
      BY <2>2
    <3> HIDE DEF step, state, next
    <3> QED
      BY <2>1, <3>1, <3>2
  <2> QED
    BY <2>5, <2>6
<1>2. ASSUME NEW via \in {"cli", "supervisor"}, OpStartRollback(o, via)
      PROVE  op'[o].kind = "rollback" /\ op'[o].scope = cgroup /\ op'[o].err = op[o].err
  <2>1. PICK state, step :
          op' = [op EXCEPT ![o] = [@ EXCEPT !.kind = "rollback", !.via = via,
                                            !.complete = record.complete, !.scope = cgroup,
                                            !.state = state, !.pc = step]]
    BY <1>2 DEF OpStartRollback
  <2> QED
    BY <2>1
<1>3. ASSUME NEW via \in {"cli", "supervisor"}, OpStartCommit(o, via)
      PROVE  /\ op'[o].kind = "commit" /\ op'[o].err = op[o].err
             /\ \/ op'[o].pc = "refused"
                \/ op'[o].pc = "candidate" /\ record.state = "succeeded"
  BY <1>3 DEF OpStartCommit
<1>4. /\ op[o].pc = "idle" /\ record.state # "none"
      /\ UNCHANGED <<record, hist, ckpt, tree, agent, bounds, run, ghosts>>
  BY DEF OpStart, OpStartRollback, OpStartCommit, OpReads
<1> QED
  BY <1>1, <1>2, <1>3, <1>4 DEF OpStart

\* RollbackPlan fails only over a scope that was there when the command started.
LEMMA ScopeEffect ==
    ASSUME op \in [Ops -> OpType], NEW o \in Ops, OpScope(o)
    PROVE  /\ op[o].pc = "scope" /\ op'[o].pc = "unmount"
           /\ op'[o].kind = op[o].kind /\ op'[o].state = op[o].state
           /\ op'[o].err => op[o].err \/ op[o].scope
           /\ cgroup' => cgroup
           /\ UNCHANGED <<record, hist, ckpt, tree, run, ghosts>>
<1> USE DEF OpType
<1>1. \/ op' = [op EXCEPT ![o].pc = "unmount"]
      \/ op' = [op EXCEPT ![o] = [@ EXCEPT !.pc = "unmount", !.err = TRUE]] /\ op[o].scope
      \/ op' = [op EXCEPT ![o] = [@ EXCEPT !.pc = "unmount", !.err = op[o].scope]]
  BY Zenon DEF OpScope, OpGoto
<1>2. /\ op'[o].pc = "unmount"
      /\ op'[o].kind = op[o].kind /\ op'[o].state = op[o].state
  <2>1. CASE op' = [op EXCEPT ![o].pc = "unmount"]
    BY <2>1
  <2>2. ASSUME NEW err, op' = [op EXCEPT ![o] = [@ EXCEPT !.pc = "unmount", !.err = err]]
        PROVE  /\ op'[o].pc = "unmount"
               /\ op'[o].kind = op[o].kind /\ op'[o].state = op[o].state
    BY <2>2
  <2> QED
    BY <1>1, <2>1, <2>2, Zenon
<1>4. op'[o].err => op[o].err \/ op[o].scope
  <2>1. \/ op'[o].err = op[o].err
        \/ op[o].scope
        \/ op'[o].err = op[o].scope
    BY <1>1
  <2> QED
    BY <2>1, Zenon
<1>3. /\ op[o].pc = "scope" /\ (cgroup' => cgroup)
      /\ UNCHANGED <<record, hist, ckpt, tree, run, ghosts>>
  BY DEF OpScope, ScopeEmptied, ScopeRemains
<1> QED
  BY <1>2, <1>3, <1>4

\* Manager.Rollback first unmounts, and stops when that is refused.
LEMMA UnmountEffect ==
    ASSUME op \in [Ops -> OpType], NEW o \in Ops, OpUnmount(o)
    PROVE  /\ op[o].pc = "unmount"
           /\ \/ op'[o].pc = "discard" /\ RollbackUnmounts
              \/ op'[o].pc = "refused" /\ RollbackRefuses
           /\ op'[o].kind = op[o].kind /\ op'[o].state = op[o].state /\ op'[o].err = op[o].err
           /\ op'[o].cand = op[o].cand /\ op'[o].todo = op[o].todo
           /\ UNCHANGED <<record, hist, ckpt, lower, upper, agent, bounds, run, ghosts>>
  BY DEF OpUnmount, OpGoto, OpType

\* Then it discards, and the run has reached the goal of the command.
LEMMA DiscardEffect ==
    ASSUME Sequential, op \in [Ops -> OpType], NEW o \in Ops, OpDiscard(o)
    PROVE  /\ op[o].pc = "discard"
           /\ op'[o].state = Transition(op[o].state, Goal(op[o].kind))
           /\ op'[o].pc \in {"refused", "persist", "ckpt"}
           /\ op'[o].pc = "refused" => op[o].err
           /\ op'[o].pc = "ckpt" => op[o].kind # "commit"
           /\ op'[o].kind = op[o].kind /\ op'[o].err = op[o].err
           /\ op'[o].cand = op[o].cand /\ op'[o].todo = op[o].todo
           /\ UNCHANGED <<record, hist, ckpt, lower, mounted, agent, bounds, run, ghosts>>
<1> DEFINE state == Transition(op[o].state, Goal(op[o].kind))
           step == IF op[o].err THEN "refused"
                   ELSE IF op[o].kind = "commit" THEN "persist"
                   ELSE AfterRollbackPlan(op[o].via)
<1>1. op' = [op EXCEPT ![o] = [@ EXCEPT !.state = state, !.pc = step]]
  BY SequentialCalls, Zenon DEF OpDiscard, DiscardFails, Goal
<1>2. step \in {"refused", "persist", "ckpt"} /\ (step = "refused" => op[o].err)
        /\ (step = "ckpt" => op[o].kind # "commit")
  BY DEF AfterRollbackPlan
<1>3. /\ op'[o].state = state /\ op'[o].pc = step
      /\ op'[o].kind = op[o].kind /\ op'[o].err = op[o].err
      /\ op'[o].cand = op[o].cand /\ op'[o].todo = op[o].todo
  <2> HIDE DEF state, step
  <2> QED
    BY <1>1 DEF OpType
<1>4. /\ op[o].pc = "discard"
      /\ UNCHANGED <<record, hist, ckpt, lower, mounted, agent, bounds, run, ghosts>>
  BY DEF OpDiscard
<1> QED
  BY <1>2, <1>3, <1>4

\* The last steps write the checkpoint graph, the record and the history, in this
\* order.
LEMMA WriteEffect ==
    ASSUME Sequential, op \in [Ops -> OpType], NEW o \in Ops,
           OpCheckpoint(o) \/ OpPersist(o) \/ OpHistory(o)
    PROVE  /\ \/ /\ op[o].pc = "ckpt" /\ UNCHANGED <<record, hist>>
                 /\ \/ op'[o].pc = "persist" /\ (ckpt' = "none" => ckpt = "none")
                    \/ op'[o].pc = "refused" /\ CkptRefuses("rolled_back")
              \/ /\ op[o].pc = "persist" /\ op'[o].pc = "history"
                 /\ record'.state = op[o].state /\ UNCHANGED <<hist, ckpt>>
              \/ op[o].pc = "history" /\ op'[o].pc = "done" /\ UNCHANGED <<record, ckpt>>
           /\ op'[o].kind = op[o].kind /\ op'[o].state = op[o].state /\ op'[o].err = op[o].err
           /\ UNCHANGED <<tree, agent, bounds, run, ghosts>>
<1> USE DEF OpType, OpGoto
<1>1. CASE OpCheckpoint(o)
  BY <1>1 DEF OpCheckpoint, CkptMoves, CkptRefuses
<1>2. CASE OpPersist(o)
  <2>1. /\ op[o].pc = "persist" /\ OpGoto(o, "history")
        /\ record' = [state |-> op[o].state, complete |-> op[o].complete]
        /\ UNCHANGED <<hist, ckpt, tree, agent, bounds, run, ghosts>>
    BY <1>2, SequentialCalls DEF OpPersist, RecordWriteFails
  <2>2. record'.state = op[o].state
    BY <2>1
  <2>3. op'[o].pc = "history" /\ op'[o].kind = op[o].kind /\ op'[o].state = op[o].state
          /\ op'[o].err = op[o].err
    BY <2>1
  <2> QED
    BY <2>1, <2>2, <2>3
<1>3. CASE OpHistory(o)
  BY <1>3, SequentialCalls DEF OpHistory, HistoryWriteFails
<1> QED
  BY <1>1, <1>2, <1>3

\* A commit reads the merged view, checks it against the workspace and copies.
LEMMA CommitEffect ==
    ASSUME op \in [Ops -> OpType], NEW o \in Ops,
           OpCandidate(o) \/ OpCheck(o) \/ (\E p \in Paths : OpApply(o, p)) \/ OpApplied(o)
    PROVE  /\ \/ /\ op[o].pc = "candidate" /\ op'[o].pc = "check"
                 /\ op'[o].cand = Merged /\ UNCHANGED lower
              \/ /\ op[o].pc = "check" /\ op'[o].cand = op[o].cand /\ UNCHANGED lower
                 /\ \/ op'[o].pc = "refused"
                    \/ /\ op'[o].pc = "apply" /\ op'[o].todo = Compare(Base, op[o].cand)
                       /\ CanApply(Base, lower, op[o].cand)
              \/ /\ op[o].pc = "apply" /\ op'[o].cand = op[o].cand
                 /\ \E p \in Paths : OpApply(o, p)
              \/ /\ op[o].pc = "apply" /\ op'[o].pc = "unmount" /\ op[o].todo = {}
                 /\ op'[o].cand = op[o].cand /\ op'[o].todo = op[o].todo /\ UNCHANGED lower
           /\ op'[o].kind = op[o].kind /\ op'[o].state = op[o].state /\ op'[o].err = op[o].err
           /\ op'[o].pc \in {"check", "apply", "unmount", "refused"}
           /\ UNCHANGED <<durable, upper, mounted, agent, bounds, run, ghosts>>
<1> USE DEF OpType, OpGoto
<1>1. CASE OpCandidate(o)
  BY <1>1 DEF OpCandidate
<1>2. CASE OpCheck(o)
  <2>1. /\ op[o].pc = "check"
        /\ UNCHANGED <<durable, tree, agent, bounds, run, ghosts>>
    BY <1>2 DEF OpCheck
  <2>2. CASE CanApply(Base, lower, op[o].cand)
    <3>1. op' = [op EXCEPT ![o] = [@ EXCEPT !.pc = "apply", !.todo = Compare(Base, op[o].cand)]]
      BY <1>2, <2>2, Zenon DEF OpCheck
    <3>2. /\ op'[o].pc = "apply" /\ op'[o].todo = Compare(Base, op[o].cand)
          /\ op'[o].cand = op[o].cand
          /\ op'[o].kind = op[o].kind /\ op'[o].state = op[o].state /\ op'[o].err = op[o].err
      BY <3>1
    <3> QED
      BY <2>1, <2>2, <3>2
  <2>3. CASE ~CanApply(Base, lower, op[o].cand)
    <3>1. op' = [op EXCEPT ![o] = [@ EXCEPT !.pc = "refused"]]
      BY <1>2, <2>3, Zenon DEF OpCheck
    <3>2. /\ op'[o].pc = "refused" /\ op'[o].cand = op[o].cand
          /\ op'[o].kind = op[o].kind /\ op'[o].state = op[o].state /\ op'[o].err = op[o].err
      BY <3>1
    <3> QED
      BY <2>1, <3>2
  <2> QED
    BY <2>2, <2>3
<1>3. ASSUME NEW p \in Paths, OpApply(o, p)
      PROVE  /\ op[o].pc = "apply" /\ op'[o].cand = op[o].cand
             /\ op'[o].kind = op[o].kind /\ op'[o].state = op[o].state /\ op'[o].err = op[o].err
             /\ op'[o].pc \in {"apply", "refused"}
             /\ UNCHANGED <<durable, upper, mounted, agent, bounds, run, ghosts>>
  <2>1. op' = [op EXCEPT ![o].todo = @ \ {p}] \/ OpGoto(o, "refused")
    BY <1>3, Zenon DEF OpApply
  <2>2. op[o].pc = "apply" /\ UNCHANGED <<durable, upper, mounted, agent, bounds, run, ghosts>>
    BY <1>3 DEF OpApply
  <2>3. /\ op'[o].cand = op[o].cand
        /\ op'[o].kind = op[o].kind /\ op'[o].state = op[o].state /\ op'[o].err = op[o].err
        /\ op'[o].pc \in {"apply", "refused"}
    <3> HIDE <1>3
    <3> QED
      BY <2>1, <2>2
  <2> QED
    BY <2>2, <2>3
<1>4. CASE OpApplied(o)
  BY <1>4 DEF OpApplied
<1> QED
  BY <1>1, <1>2, <1>3, <1>4
-----------------------------------------------------------------------------
(* The way of an offered result *)

\* A run succeeds when its cgroup has drained by itself, and nobody makes it again.
LEMMA RunLeavesNoScope ==
    ASSUME Sequential, TypeOK, RunInv, StageInv, RunNext \/ RunCrash,
           "succeeded" \in {run.state, record.state} => ~cgroup
    PROVE  "succeeded" \in {run'.state, record'.state} => ~cgroup'
<1> run \in RunType /\ record \in RecordType
  BY DEF TypeOK
<1> USE DEF Goto, TearDown, FailAndRollback, RunType, Transition, CanTransition, Edges
<1>1. CASE RunPrepare
  <2>1. run.pc = "prepare" /\ run'.state = run.state /\ UNCHANGED record
    BY <1>1 DEF RunPrepare
  <2>2. run.state = "preparing" /\ record.state \in {"none", "preparing"}
    BY <2>1 DEF RunInv, StageInv, BeforeMount
  <2> QED
    BY <2>1, <2>2
<1>2. CASE RunPersistPrepared \/ RunPersistRunning \/ RunPersistReview \/ RunPersistFinal
  <2>1. record' = NewRecord /\ run'.state = run.state /\ UNCHANGED cgroup
    BY <1>2, SequentialCalls DEF RunPersistPrepared, RunPersistRunning, RunPersistReview,
                RunPersistFinal, WritesRecord, RecordWriteFails
  <2>2. record'.state = run.state
    BY <2>1 DEF NewRecord
  <2> QED
    BY <2>1, <2>2
<1>3. CASE CoordMount
  <2>1. run.pc = "mount" /\ UNCHANGED <<record, cgroup>>
        /\ run'.state \in {run.state, Transition(Transition(run.state, "mounted"), "running")}
    BY <1>3 DEF CoordMount
  <2>2. run.state = "preparing"
    BY <2>1 DEF RunInv, BeforeMount
  <2> QED
    BY <2>1, <2>2
<1>4. CASE WaitCloseScope
  <2>1. /\ run'.state = Transition(run.state, "failed") /\ (cgroup' => cgroup)
        \/ cgroup' = FALSE
    BY <1>4 DEF WaitCloseScope, ScopeEmptied, ScopeRemains
  <2>2. UNCHANGED record
    BY <1>4 DEF WaitCloseScope
  <2> QED
    BY <2>1, <2>2
<1>5. CASE TeardownScope
  <2>1. run'.state = Transition(run.state, "failed")
    BY <1>5 DEF TeardownScope
  <2>2. (cgroup' => cgroup) /\ UNCHANGED record
    BY <1>5 DEF TeardownScope, ScopeEmptied, ScopeRemains
  <2> HIDE <1>5
  <2> QED
    BY <2>1, <2>2
<1>6. CASE TeardownUnmount \/ TeardownDiscard
  <2>1. run'.state \in {run.state, Transition(run.state, "rolled_back")} /\ UNCHANGED <<record, cgroup>>
    BY <1>6 DEF TeardownUnmount, TeardownDiscard
  <2> QED
    BY <2>1
<1>7. CASE TeardownKill \/ TeardownBoundary
  <2>1. run'.state = run.state /\ UNCHANGED <<record, cgroup>>
    BY <1>7 DEF TeardownKill, TeardownBoundary
  <2> QED
    BY <2>1
<1>8. CASE \/ RunAddCheckpoint \/ RunHistoryPrepared
            \/ CoordStart \/ CoordAddPID \/ CoordPrepareNetwork \/ CoordAttachSensor
            \/ CoordReleaseGate \/ RunCheckpointRunning \/ RunHistoryRunning
  <2>1. run'.state = run.state /\ UNCHANGED <<record, cgroup>>
    BY <1>8 DEF RunAddCheckpoint, RunHistoryPrepared,
                CoordStart, CoordAddPID, CoordPrepareNetwork, CoordAttachSensor,
                CoordReleaseGate, RunCheckpointRunning, RunHistoryRunning
  <2> QED
    BY <2>1
<1>9. CASE \/ WaitAgent \/ WaitNetwork \/ WaitSensor \/ RunCheckpointWaitFailed
            \/ RunScan \/ RunHistoryReview \/ RunCheckpointSucceeded
            \/ RunCheckpointFinal \/ RunHistoryFinal \/ RunCrash
  <2>1. run'.state = run.state /\ UNCHANGED <<record, cgroup>>
    BY <1>9 DEF WaitAgent, WaitNetwork, WaitSensor, RunCheckpointWaitFailed,
                RunScan, RunHistoryReview, RunCheckpointSucceeded,
                RunCheckpointFinal, RunHistoryFinal, RunCrash
  <2> QED
    BY <2>1
<1> QED
  BY <1>1, <1>2, <1>3, <1>4, <1>5, <1>6, <1>7, <1>8, <1>9 DEF RunNext

\* The run's checkpoint is in the graph before the run has a record.
LEMMA RunKeepsWay ==
    ASSUME Sequential, TypeOK, RunInv, TurnInv, StageInv, WayInv, RunNext \/ RunCrash
    PROVE  WayInv'
<1> run \in RunType
  BY DEF TypeOK
<1>1. run.pc \notin Ended /\ UNCHANGED op
  BY EndedStays, RunLeavesCommands
<1>2. \A o \in Ops : op[o].pc = "idle"
  BY <1>1 DEF TurnInv
<1>3. ckpt' = "none" => ckpt = "none"
  BY DEF RunNext, CkptMoves, CkptRefuses,
      RunAddCheckpoint, RunPrepare, RunPersistPrepared, RunHistoryPrepared, CoordMount,
      CoordStart, CoordAddPID, CoordPrepareNetwork, CoordAttachSensor, CoordReleaseGate,
      RunCheckpointRunning, RunPersistRunning, RunHistoryRunning, WaitAgent,
      WaitNetwork, WaitSensor, WaitCloseScope, RunCheckpointWaitFailed, RunScan,
      RunPersistReview, RunHistoryReview, RunCheckpointSucceeded, TeardownKill,
      TeardownBoundary, TeardownScope, TeardownUnmount, TeardownDiscard,
      RunPersistFinal, RunCheckpointFinal, RunHistoryFinal, RunCrash
<1>4. ASSUME ckpt' = "none"
      PROVE  record'.state = "none" /\ run'.pc \in {"plan"} \cup Ended
  <2>1. run.pc = "plan" /\ record.state = "none" /\ ckpt = "none"
    BY <1>1, <1>3, <1>4 DEF WayInv
  <2>2. RunAddCheckpoint \/ RunCrash
    BY <2>1 DEF RunNext,
      RunPrepare, RunPersistPrepared, RunHistoryPrepared, CoordMount,
      CoordStart, CoordAddPID, CoordPrepareNetwork, CoordAttachSensor, CoordReleaseGate,
      RunCheckpointRunning, RunPersistRunning, RunHistoryRunning, WaitAgent,
      WaitNetwork, WaitSensor, WaitCloseScope, RunCheckpointWaitFailed, RunScan,
      RunPersistReview, RunHistoryReview, RunCheckpointSucceeded, TeardownKill,
      TeardownBoundary, TeardownScope, TeardownUnmount, TeardownDiscard,
      RunPersistFinal, RunCheckpointFinal, RunHistoryFinal
  <2> QED
    BY <1>4, <2>1, <2>2, SequentialCalls DEF RunAddCheckpoint, RunCrash, Ended, RunType
<1>5. "succeeded" \in {run'.state, record'.state} => ~cgroup'
  BY RunLeavesNoScope DEF WayInv
<1> QED
  BY <1>1, <1>2, <1>4, <1>5 DEF WayInv, Active

\* A command that takes an offered result meets no scope, and finds the node in a
\* state that can be rolled back; a committed run is refused to all later ones.
LEMMA CommandsKeepWay ==
    ASSUME Sequential, TypeOK, OpInv, TurnInv, WayInv,
           NEW o \in Ops, OpStart(o) \/ OpStep(o) \/ OpCrash(o)
    PROVE  WayInv'
<1> op \in [Ops -> OpType] /\ record \in RecordType /\ op[o] \in OpType
  BY DEF TypeOK
<1>1. run' = run /\ \A q \in Ops \ {o} : op'[q] = op[q]
  BY CommandsLeaveRun, OpKeepsOthers
<1>2. run.pc \in Ended /\ \A q \in Ops \ {o} : ~Active(q)
  BY TurnFacts, SequentialCalls
<1>3. record.state # "none"
  <2>1. op[o].pc # "idle" \/ OpStart(o)
    BY DEF OpStep, OpCrash, Active, OpSteps, OpScope, OpUnmount, OpDiscard, OpCheckpoint,
           OpPersist, OpHistory, OpCandidate, OpCheck, OpApply, OpApplied
  <2> QED
    BY <2>1, StartEffect DEF WayInv
<1> DEFINE Way(c, state) ==
         /\ c.pc = "idle" => ~c.err
         /\ c.pc \in {"ckpt", "persist", "history"} => c.state = Goal(c.kind)
         /\ c.pc = "ckpt" => c.kind = "rollback"
         /\ c.pc \in OpSteps \ {"idle"} /\ state = "succeeded" =>
              ~c.err /\ (c.pc = "scope" => ~c.scope)
         /\ c.pc \in OpSteps \ {"idle"} /\ c.kind = "rollback" /\ c.pc # "history" =>
              state # "committed"
<1>4. Way(op[o], record.state) /\ OpAims(op[o])
  BY DEF WayInv, OpInv, Active
<1>5. "succeeded" \in {run.state, record.state} => ~cgroup
  BY DEF WayInv
<1> DEFINE Next4 == /\ Way(op'[o], record'.state)
                    /\ record'.state \in {record.state, "rolled_back", "committed"}
                    /\ cgroup' => cgroup
                    /\ ckpt' = "none" => ckpt = "none"
<1>6. ASSUME OpStart(o)
      PROVE  Next4
  <2>1. ~op'[o].err /\ UNCHANGED <<record, ckpt, cgroup>>
    BY <1>4, <1>6, StartEffect
  <2>2. Way(op'[o], record'.state)
    <3>1. CASE op'[o].pc = "refused"
      BY <2>1, <3>1 DEF OpSteps
    <3>2. CASE /\ op'[o].kind = "rollback"
               /\ op'[o].pc \in {"ckpt", "persist"} /\ op'[o].state = "rolled_back"
               /\ record.state \in {"preparing", "rolled_back"}
      BY <2>1, <3>2 DEF Goal
    <3>3. CASE /\ op'[o].kind = "rollback" /\ op'[o].scope = cgroup
               /\ op'[o].pc = "scope"
               /\ record.state \notin {"none", "preparing", "rolled_back", "committed"}
      BY <1>5, <2>1, <3>3
    <3>4. CASE op'[o].kind = "commit" /\ op'[o].pc = "candidate"
      BY <2>1, <3>4
    <3> QED
      BY <1>6, <3>1, <3>2, <3>3, <3>4, StartEffect
  <2> QED
    BY <2>1, <2>2
<1>7. ASSUME OpScope(o)
      PROVE  Next4
  BY <1>4, <1>7, ScopeEffect DEF OpSteps, OpAims
<1>8. ASSUME OpUnmount(o)
      PROVE  Next4
  BY <1>4, <1>8, UnmountEffect DEF OpSteps
<1>9. ASSUME OpDiscard(o)
      PROVE  Next4
  <2>1. Transition(op[o].state, Goal(op[o].kind)) = Goal(op[o].kind)
    BY <1>4, <1>9, DiscardEffect DEF OpAims, Goal, Transition, CanTransition, Edges, OpType
  <2> QED
    BY <1>4, <1>9, <2>1, DiscardEffect DEF OpSteps, OpType
<1>10. ASSUME OpCheckpoint(o) \/ OpPersist(o) \/ OpHistory(o)
      PROVE  Next4
  <2>1. /\ op'[o].kind = op[o].kind /\ op'[o].state = op[o].state /\ op'[o].err = op[o].err
        /\ UNCHANGED cgroup
    BY <1>10, WriteEffect
  <2>2. CASE op[o].pc = "ckpt"
    <3>1. /\ op'[o].pc \in {"persist", "refused"} /\ UNCHANGED record
          /\ ckpt' = "none" => ckpt = "none"
      BY <1>10, <2>2, WriteEffect DEF CkptRefuses
    <3> QED
      BY <1>4, <2>1, <2>2, <3>1 DEF OpSteps
  <2>3. CASE op[o].pc = "persist"
    <3>1. op'[o].pc = "history" /\ record'.state = op[o].state /\ UNCHANGED ckpt
      BY <1>10, <2>3, WriteEffect
    <3>2. op[o].state \in {"rolled_back", "committed"}
      BY <1>4, <2>3 DEF OpAims
    <3> QED
      BY <1>4, <2>1, <2>3, <3>1, <3>2
  <2>4. CASE op[o].pc = "history"
    <3>1. op'[o].pc = "done" /\ UNCHANGED <<record, ckpt>>
      BY <1>10, <2>4, WriteEffect
    <3> QED
      BY <1>4, <2>1, <2>4, <3>1 DEF OpSteps
  <2> QED
    BY <1>10, <2>2, <2>3, <2>4 DEF OpCheckpoint, OpPersist, OpHistory
<1>11. ASSUME OpCandidate(o) \/ OpCheck(o) \/ (\E p \in Paths : OpApply(o, p)) \/ OpApplied(o)
      PROVE  Next4
  BY <1>4, <1>11, CommitEffect DEF OpSteps, OpAims
<1>12. ASSUME OpCrash(o)
      PROVE  Next4
  BY <1>12, SequentialCalls DEF OpCrash
<1>13. Next4
  BY <1>6, <1>7, <1>8, <1>9, <1>10, <1>11, <1>12 DEF OpStep
<1> HIDE DEF Way
<1>14. record'.state # "none"
  BY <1>3, <1>13
<1>15. ckpt' # "none"
  BY <1>3, <1>13 DEF WayInv
<1>16. "succeeded" \in {run'.state, record'.state} => ~cgroup'
  BY <1>1, <1>5, <1>13
<1>17. \A q \in Ops \ {o} : Way(op'[q], record'.state)
  BY <1>1, <1>2 DEF Way, WayInv, Active, OpSteps
<1>18. \A q \in Ops : Way(op'[q], record'.state)
  BY <1>13, <1>17
<1> QED
  BY <1>14, <1>15, <1>16, <1>18 DEF WayInv, Way, Active
-----------------------------------------------------------------------------
(* The result under review *)

\* The merged view shows the result wherever the run has changed the base.
LEMMA ResultIsMerged ==
    ASSUME mounted, NEW p \in Paths, Result[p] # Base[p]
    PROVE  Merged[p] = Result[p]
<1>1. upper[p] # Through
  BY DEF Result
<1> QED
  BY <1>1 DEF Result, Merged

\* Up to its last steps the command at work finds the offer as it was made.
LEMMA OfferStands ==
    ASSUME TurnInv, OfferInv, NEW o \in Ops, Active(o), record.state = "succeeded"
    PROVE  /\ op[o].pc \notin {"ckpt", "persist"} => reviewed = Result
           /\ op[o].pc \notin {"discard", "ckpt", "persist"} => mounted
<1>1. \A q \in Ops \ {o} : op[q].pc \notin {"discard", "ckpt", "persist"}
  BY DEF TurnInv, Active, OpSteps
<1> QED
  BY <1>1 DEF OfferInv

\* The run process writes the result down when it offers it, and then leaves the
\* overlay alone.
LEMMA RunKeepsOffer ==
    ASSUME Sequential, TypeOK, RunInv, TurnInv, MemoryInv, StageInv, OfferInv,
           RunNext \/ RunCrash
    PROVE  OfferInv'
<1> run \in RunType /\ record \in RecordType
  BY DEF TypeOK
<1> USE DEF Goto, TearDown, FailAndRollback, RunType
<1>1. UNCHANGED op /\ \A o \in Ops : op[o].pc = "idle"
  BY EndedStays, RunLeavesCommands DEF TurnInv
<1>2. UNCHANGED <<lower, user>>
  BY DEF RunNext,
      RunAddCheckpoint, RunPrepare, RunPersistPrepared, RunHistoryPrepared, CoordMount,
      CoordStart, CoordAddPID, CoordPrepareNetwork, CoordAttachSensor, CoordReleaseGate,
      RunCheckpointRunning, RunPersistRunning, RunHistoryRunning, WaitAgent,
      WaitNetwork, WaitSensor, WaitCloseScope, RunCheckpointWaitFailed, RunScan,
      RunPersistReview, RunHistoryReview, RunCheckpointSucceeded, TeardownKill,
      TeardownBoundary, TeardownScope, TeardownUnmount, TeardownDiscard,
      RunPersistFinal, RunCheckpointFinal, RunHistoryFinal, RunCrash
<1>3. ASSUME ~(RunPersistPrepared \/ RunPersistRunning \/ RunPersistReview \/ RunPersistFinal)
      PROVE  UNCHANGED <<record, reviewed>>
  BY <1>3 DEF RunNext,
      RunAddCheckpoint, RunPrepare, RunHistoryPrepared, CoordMount,
      CoordStart, CoordAddPID, CoordPrepareNetwork, CoordAttachSensor, CoordReleaseGate,
      RunCheckpointRunning, RunHistoryRunning, WaitAgent,
      WaitNetwork, WaitSensor, WaitCloseScope, RunCheckpointWaitFailed, RunScan,
      RunHistoryReview, RunCheckpointSucceeded, TeardownKill,
      TeardownBoundary, TeardownScope, TeardownUnmount, TeardownDiscard,
      RunCheckpointFinal, RunHistoryFinal, RunCrash
<1>4. ASSUME RunPersistPrepared \/ RunPersistRunning \/ RunPersistFinal
      PROVE  record.state # "committed" /\ record'.state \notin {"succeeded", "committed"}
  <2>1. record' = NewRecord
    BY <1>4, SequentialCalls DEF RunPersistPrepared, RunPersistRunning, RunPersistFinal,
                WritesRecord, RecordWriteFails
  <2>2. record'.state = run.state
    BY <2>1 DEF NewRecord
  <2>3. run.pc \in {"persistPrepared", "persistRunning", "persistFinal"}
    BY <1>4 DEF RunPersistPrepared, RunPersistRunning, RunPersistFinal
  <2>4. run.state \notin {"succeeded", "committed"}
    BY <2>3 DEF RunInv, MemoryInv, StageInv, BeforeMount, Launched, Finishing
  <2>5. record.state # "committed"
    BY <2>3 DEF StageInv, BeforeMount, Launched, Undoing
  <2> QED
    BY <2>2, <2>4, <2>5
<1>5. ASSUME RunPersistReview
      PROVE  /\ record.state # "committed" /\ record'.state = "succeeded"
             /\ mounted' /\ reviewed' = Result'
  <2>1. /\ run.pc = "persistReview" /\ record' = NewRecord /\ UNCHANGED <<upper, mounted>>
    BY <1>5, SequentialCalls DEF RunPersistReview, WritesRecord, RecordWriteFails
  <2>2. record'.state = run.state
    BY <2>1 DEF NewRecord
  <2>3. run.state = "succeeded" /\ record.state = "running" /\ mounted
    BY <2>1 DEF MemoryInv, StageInv, Reviewing
  <2>4. reviewed' = Result
    BY <1>5, <2>2, <2>3 DEF RunPersistReview
  <2> QED
    BY <2>1, <2>2, <2>3, <2>4 DEF Result
<1>6. ASSUME UNCHANGED <<record, reviewed>>, record.state = "succeeded"
      PROVE  UNCHANGED <<upper, mounted>>
  <2>1. run.pc \in Offering
    BY <1>1, <1>6, EndedStays DEF StageInv, RunSteps, BeforeMount, Launched, Attended, Reviewing, Undoing,
                       Finishing, Offering
  <2>2. RunHistoryReview \/ RunCheckpointSucceeded \/ RunCrash
    BY <2>1 DEF RunNext, Offering,
      RunAddCheckpoint, RunPrepare, RunPersistPrepared, RunHistoryPrepared, CoordMount,
      CoordStart, CoordAddPID, CoordPrepareNetwork, CoordAttachSensor, CoordReleaseGate,
      RunCheckpointRunning, RunPersistRunning, RunHistoryRunning, WaitAgent,
      WaitNetwork, WaitSensor, WaitCloseScope, RunCheckpointWaitFailed, RunScan,
      RunPersistReview, TeardownKill,
      TeardownBoundary, TeardownScope, TeardownUnmount, TeardownDiscard,
      RunPersistFinal, RunCheckpointFinal, RunHistoryFinal
  <2> QED
    BY <2>2 DEF RunHistoryReview, RunCheckpointSucceeded, RunCrash
<1>7. \A o \in Ops : ~Installs(o)
  BY <1>1 DEF Installs, Applying
<1>8. record'.state # "committed" => record.state # "committed"
  BY <1>3, <1>4, <1>5
<1>9. record'.state = "succeeded" => reviewed' = Result' /\ mounted'
  <2> SUFFICES ASSUME record'.state = "succeeded"
               PROVE  reviewed' = Result' /\ mounted'
    OBVIOUS
  <2>1. CASE RunPersistReview
    BY <2>1, <1>5
  <2>2. CASE ~RunPersistReview
    <3>1. UNCHANGED <<record, reviewed>>
      BY <2>2, <1>3, <1>4
    <3>2. UNCHANGED <<upper, mounted>>
      BY <3>1, <1>6
    <3>3. Result' = Result
      BY <3>2 DEF Result
    <3>4. reviewed = Result /\ mounted
      BY <1>1, <3>1 DEF OfferInv
    <3> QED
      BY <3>1, <3>2, <3>3, <3>4
  <2> QED
    BY <2>1, <2>2
<1>10. record'.state # "committed" => lower' = user'
  BY <1>2, <1>7, <1>8 DEF OfferInv
<1> QED
  BY <1>9, <1>10 DEF OfferInv

\* Once the result is offered nothing runs that could change it, and the owner
\* waits for the command at work.
LEMMA SurroundingsKeepOffer ==
    ASSUME Sequential, TypeOK, DrainInv, TurnInv, OfferInv, CommitInv, AgentNext \/ EnvNext
    PROVE  OfferInv' /\ CommitInv'
<1>1. UNCHANGED <<run, op, record, reviewed, mounted>>
  BY SequentialCalls DEF AgentNext, HelperFails, AgentWrite, AgentForks, AgentExits, ChildExits,
         EnvNext, EventLost, FuseExits, UserEdits
<1>2. record.state = "succeeded" => UNCHANGED upper
  BY DEF AgentNext, HelperFails, AgentWrite, AgentForks, AgentExits, ChildExits,
         EnvNext, EventLost, FuseExits, UserEdits, DrainInv
<1>3. record.state = "succeeded" => Result' = Result
  BY <1>2 DEF Result
<1>4. CASE UNCHANGED <<lower, user>>
  <2>1. record.state = "succeeded" => Merged' = Merged
    BY <1>1, <1>2, <1>4 DEF Merged
  <2>2. OfferInv'
    BY <1>1, <1>3, <1>4 DEF OfferInv, Installs
  <2>3. CommitInv'
    BY <1>1, <1>4, <2>1 DEF CommitInv, Active
  <2> QED
    BY <2>2, <2>3
<1>5. ASSUME NEW p \in Paths, NEW v \in Entries \cup {NoEntry}, UserEdits(p, v)
      PROVE  OfferInv' /\ CommitInv'
  <2>1. /\ \A o \in Ops : ~Active(o)
        /\ lower' = [lower EXCEPT ![p] = v] /\ user' = [user EXCEPT ![p] = v]
    BY <1>5, SequentialCalls DEF UserEdits
  <2>2. CommitInv'
    BY <1>1, <2>1 DEF CommitInv, Active
  <2>3. lower = user => lower' = user'
    BY <2>1
  <2>4. OfferInv'
    BY <1>1, <1>3, <2>3 DEF OfferInv, Installs
  <2> QED
    BY <2>2, <2>4
<1>6. UNCHANGED <<lower, user>> \/ \E p \in Paths, v \in Entries \cup {NoEntry} : UserEdits(p, v)
  BY DEF AgentNext, HelperFails, AgentWrite, AgentForks, AgentExits, ChildExits,
         EnvNext, EventLost, FuseExits
<1> QED
  BY <1>4, <1>5, <1>6

\* Each change that is copied installs the offered entry over an untouched one.
LEMMA ApplyEffect ==
    ASSUME Sequential, TypeOK, OpInv, TurnInv, OfferInv, CommitInv,
           NEW o \in Ops, NEW p \in Paths, OpApply(o, p)
    PROVE  /\ record.state = "succeeded" /\ op[o].kind = "commit"
           /\ p \in op[o].todo
           /\ reviewed[p] # Base[p] /\ lower[p] = Base[p] /\ user[p] = Base[p]
           /\ lower' = [lower EXCEPT ![p] = reviewed[p]]
           /\ op' = [op EXCEPT ![o].todo = @ \ {p}]
<1>1. op[o].pc = "apply" /\ p \in op[o].todo
  BY DEF OpApply, NextChange
<1>2. op[o].kind = "commit" /\ Active(o)
  BY <1>1 DEF OpInv, OpAims, Active, OpSteps
<1>3. /\ record.state = "succeeded"
      /\ reviewed[p] # Base[p] => op[o].cand[p] = reviewed[p]
      /\ reviewed[p] # Base[p] /\ lower[p] = Base[p] /\ user[p] = Base[p]
  BY <1>1, <1>2 DEF CommitInv, Applying
<1>4. reviewed = Result /\ mounted
  BY <1>1, <1>2, <1>3, OfferStands
<1>5. Merged[p] = reviewed[p]
  BY <1>3, <1>4, ResultIsMerged
<1>6. /\ lower' = [lower EXCEPT ![p] = IF op[o].cand[p] = NoEntry THEN NoEntry ELSE Merged[p]]
      /\ op' = [op EXCEPT ![o].todo = @ \ {p}]
  <2>1. ~(Fails("copy") \/ (op[o].cand[p] # NoEntry /\ Merged[p] = NoEntry))
    BY <1>3, <1>5, SequentialCalls
  <2> QED
    BY <2>1, Zenon DEF OpApply
<1>7. (IF op[o].cand[p] = NoEntry THEN NoEntry ELSE Merged[p]) = reviewed[p]
  BY <1>3, <1>5
<1> QED
  BY <1>1, <1>2, <1>3, <1>6, <1>7

\* What the check of a commit establishes: the workspace is untouched wherever the
\* result differs from the base, and every such path is to be copied.
LEMMA CheckEstablishes ==
    ASSUME TypeOK, NEW cand, cand = Merged, mounted, reviewed = Result, lower = user,
           CanApply(Base, lower, cand)
    PROVE  \A p \in Paths :
              /\ reviewed[p] # Base[p] => cand[p] = reviewed[p]
              /\ IF p \in Compare(Base, cand)
                   THEN /\ reviewed[p] # Base[p] /\ lower[p] = Base[p]
                        /\ user[p] = Base[p]
                   ELSE IF reviewed[p] = Base[p] THEN lower[p] = user[p] ELSE lower[p] = reviewed[p]
<1> SUFFICES ASSUME NEW p \in Paths
             PROVE  /\ reviewed[p] # Base[p] => cand[p] = reviewed[p]
                    /\ IF p \in Compare(Base, cand)
                         THEN /\ reviewed[p] # Base[p] /\ lower[p] = Base[p]
                              /\ user[p] = Base[p]
                         ELSE IF reviewed[p] = Base[p] THEN lower[p] = user[p]
                                                       ELSE lower[p] = reviewed[p]
  OBVIOUS
<1>1. reviewed[p] # Base[p] => cand[p] = reviewed[p]
  BY ResultIsMerged
<1>2. \A m : p \in Compare(Base, m) <=> Base[p] # m[p]
  BY DEF Compare, Created, Modified, Deleted
<1>3. p \in Compare(Base, cand) => p \notin Compare(Base, lower)
  BY DEF CanApply, Conflicts
<1>4. reviewed[p] = Base[p] /\ lower[p] = Base[p] => cand[p] = Base[p]
  BY DEF Result, Merged
<1> QED
  BY <1>1, <1>2, <1>3, <1>4

\* A commit carries the offered result over; a rollback leaves the owner's tree
\* alone; both take the offer away only to write down what they did.
LEMMA CommandsKeepOffer ==
    ASSUME Sequential, TypeOK, OpInv, DrainInv, TurnInv, WayInv, OfferInv, CommitInv,
           NEW o \in Ops, OpStart(o) \/ OpStep(o) \/ OpCrash(o)
    PROVE  OfferInv' /\ CommitInv'
<1> op \in [Ops -> OpType] /\ record \in RecordType /\ op[o] \in OpType
  BY DEF TypeOK
<1>others. /\ \A q \in Ops \ {o} : op'[q] = op[q]
           /\ \A q \in Ops \ {o} : op[q].pc \notin OpSteps \ {"idle"}
  BY OpKeepsOthers, TurnFacts, SequentialCalls DEF Active
<1> DEFINE
      Taking(c) == c.kind = "commit" /\ c.pc \in Applying
      OfferOK(c) ==
         /\ record.state = "succeeded" /\ c.pc \notin {"ckpt", "persist"} => reviewed = Result
         /\ record.state = "succeeded" /\ c.pc \notin {"discard", "ckpt", "persist"} => mounted
         /\ record.state # "committed" /\ ~Taking(c) => lower = user
      OfferNext(c) ==
         /\ record'.state = "succeeded" /\ c.pc \notin {"ckpt", "persist"} => reviewed' = Result'
         /\ record'.state = "succeeded" /\ c.pc \notin {"discard", "ckpt", "persist"} => mounted'
         /\ record'.state # "committed" /\ ~Taking(c) => lower' = user'
      Copied(c, low) == \A p \in Paths :
         IF p \in c.todo
           THEN reviewed[p] # Base[p] /\ low[p] = Base[p] /\ user[p] = Base[p]
           ELSE IF reviewed[p] = Base[p] THEN low[p] = user[p] ELSE low[p] = reviewed[p]
      Known(c) == \A p \in Paths : reviewed[p] # Base[p] => c.cand[p] = reviewed[p]
      Commits(c) == c.kind = "commit" /\ c.pc \in OpSteps \ {"idle", "history"}
      CommitOK(c, low, state, merged) == Commits(c) =>
         /\ state = "succeeded"
         /\ c.pc = "check" => c.cand = merged
         /\ c.pc \in Applying \cup {"check"} => Known(c)
         /\ c.pc \in Applying => Copied(c, low)
         /\ c.pc \in {"unmount", "discard", "persist"} => c.todo = {}
<1>1. OfferOK(op[o])
  BY <1>others DEF OfferInv, Installs, Applying, OpSteps
<1>2. CommitOK(op[o], lower, record.state, Merged)
  BY DEF CommitInv, Active, Applying
<1>3. UNCHANGED <<user, reviewed>>
  BY DEF OpStart, OpStep, OpStartRollback, OpStartCommit, OpScope, OpUnmount, OpDiscard,
         OpCheckpoint, OpPersist, OpHistory, OpCandidate, OpCheck, OpApply, OpApplied, OpCrash
<1>4. /\ op[o].pc \in OpSteps \ {"idle"} /\ record.state = "succeeded" => ~op[o].err
      /\ op[o].pc \in {"ckpt", "persist", "history"} => op[o].state = Goal(op[o].kind)
      /\ op[o].pc = "ckpt" => op[o].kind = "rollback"
      /\ op[o].pc \in OpSteps \ {"idle", "history"} /\ op[o].kind = "rollback"
           => record.state # "committed"
      /\ OpAims(op[o]) /\ op[o].kind \in {"rollback", "commit"}
      /\ ckpt = "none" => record.state = "none"
  BY DEF WayInv, Active, OpInv, OpType
<1> DEFINE Goal8 == OfferNext(op'[o]) /\ CommitOK(op'[o], lower', record'.state, Merged')
<1>5. ASSUME OpStart(o)
      PROVE  Goal8
  <2>1. /\ op[o].pc = "idle"
        /\ UNCHANGED <<record, lower, upper, mounted>>
    BY <1>5, StartEffect
  <2>2. Result' = Result
    BY <2>1 DEF Result
  <2>3. \/ op'[o].pc \in {"refused", "scope"}
        \/ op'[o].pc \in {"ckpt", "persist"} /\ op'[o].kind = "rollback"
             /\ record.state # "succeeded"
        \/ op'[o].pc = "candidate" /\ record.state = "succeeded"
    BY <1>5, StartEffect
  <2>4. op'[o].pc = "scope" => op'[o].kind = "rollback"
    BY <1>5, StartEffect
  <2>5. OfferNext(op'[o])
    BY <1>1, <1>3, <2>1, <2>2, <2>3, <2>4 DEF Applying
  <2>6. CommitOK(op'[o], lower', record'.state, Merged')
    BY <2>1, <2>3, <2>4 DEF Applying, OpSteps
  <2> QED
    BY <2>5, <2>6
<1>6. ASSUME OpScope(o)
      PROVE  Goal8
  <2>1. /\ op[o].pc = "scope" /\ op'[o].pc = "unmount"
        /\ op'[o].kind = "rollback" /\ op[o].kind = "rollback"
        /\ UNCHANGED <<record, lower, upper, mounted>>
    BY <1>4, <1>6, ScopeEffect DEF OpAims
  <2>2. Result' = Result
    BY <2>1 DEF Result
  <2> QED
    BY <1>1, <1>3, <2>1, <2>2
<1>7. ASSUME OpUnmount(o)
      PROVE  Goal8
  <2>1. /\ op[o].pc = "unmount" /\ op'[o].pc \in {"discard", "refused"}
        /\ op'[o].kind = op[o].kind /\ op'[o].cand = op[o].cand /\ op'[o].todo = op[o].todo
        /\ UNCHANGED <<record, lower, upper>>
    BY <1>7, UnmountEffect
  <2>2. Result' = Result
    BY <2>1 DEF Result
  <2>3. ASSUME op'[o].pc = "refused", record.state = "succeeded"
        PROVE  FALSE
    <3>1. RollbackRefuses
      BY <1>7, <2>3, UnmountEffect
    <3>2. mounted /\ procs = {}
      BY <1>1, <2>1, <2>3 DEF DrainInv
    <3> QED
      BY <3>1, <3>2, SequentialCalls DEF RollbackRefuses, UnmountBusy
  <2>4. op[o].kind = "commit" => record.state = "succeeded"
    BY <1>2, <2>1 DEF OpSteps
  <2>5. OfferNext(op'[o])
    BY <1>1, <1>3, <1>4, <2>1, <2>2, <2>3, <2>4 DEF Applying
  <2>6. CommitOK(op'[o], lower', record'.state, Merged')
    BY <1>2, <2>1 DEF Applying, OpSteps
  <2> QED
    BY <2>5, <2>6
<1>8. ASSUME OpDiscard(o)
      PROVE  Goal8
  <2>1. /\ op[o].pc = "discard" /\ op'[o].pc \in {"refused", "persist", "ckpt"}
        /\ op'[o].pc = "refused" => op[o].err
        /\ op'[o].pc = "ckpt" => op[o].kind # "commit"
        /\ op'[o].kind = op[o].kind /\ op'[o].cand = op[o].cand /\ op'[o].todo = op[o].todo
        /\ UNCHANGED <<record, lower, mounted>>
    BY <1>8, DiscardEffect
  <2>2. op[o].kind = "commit" => record.state = "succeeded"
    BY <1>2, <2>1 DEF OpSteps
  <2>3. record.state = "succeeded" => op'[o].pc # "refused"
    BY <1>4, <2>1 DEF OpSteps
  <2>4. OfferNext(op'[o])
    BY <1>1, <1>3, <1>4, <2>1, <2>2, <2>3 DEF Applying
  <2>5. CommitOK(op'[o], lower', record'.state, Merged')
    BY <1>2, <2>1, <2>3 DEF Applying, OpSteps
  <2> QED
    BY <2>4, <2>5
<1>9. ASSUME OpCheckpoint(o) \/ OpPersist(o) \/ OpHistory(o)
      PROVE  Goal8
  <2>1. op'[o].kind = op[o].kind /\ UNCHANGED <<lower, upper, mounted>>
    BY <1>9, WriteEffect
  <2>2. Result' = Result
    BY <2>1 DEF Result
  <2>3. CASE op[o].pc = "ckpt"
    <3>1. /\ UNCHANGED record /\ op[o].kind = "rollback"
          /\ op'[o].pc = "persist" \/ (op'[o].pc = "refused" /\ CkptRefuses("rolled_back"))
      BY <1>4, <1>9, <2>3, WriteEffect
    <3>2. CkptRefuses("rolled_back") => ckpt = "none"
      BY SequentialCalls DEF CkptRefuses, CkptAllowed, TypeOK, CheckpointStates
    <3>3. op'[o].pc = "refused" => record.state = "none"
      BY <1>4, <3>1, <3>2
    <3> QED
      BY <1>1, <1>3, <2>1, <2>2, <2>3, <3>1, <3>3
  <2>4. CASE op[o].pc = "persist"
    <3>1. /\ op'[o].pc = "history" /\ record'.state = Goal(op[o].kind)
      BY <1>4, <1>9, <2>4, WriteEffect
    <3>2. CASE op[o].kind = "commit"
      BY <2>1, <3>1, <3>2 DEF Goal
    <3>3. CASE op[o].kind = "rollback"
      <4>1. record'.state = "rolled_back" /\ lower = user
        BY <1>1, <1>4, <2>4, <3>1, <3>3 DEF Goal, OpSteps
      <4> QED
        BY <1>3, <2>1, <3>1, <3>3, <4>1
    <3> QED
      BY <1>4, <3>2, <3>3
  <2>5. CASE op[o].pc = "history"
    <3>1. op'[o].pc = "done" /\ UNCHANGED record
      BY <1>9, <2>5, WriteEffect
    <3> QED
      BY <1>1, <1>3, <2>1, <2>2, <2>5, <3>1 DEF Applying, OpSteps
  <2> QED
    BY <1>9, <2>3, <2>4, <2>5 DEF OpCheckpoint, OpPersist, OpHistory
<1>10. ASSUME OpCandidate(o) \/ OpCheck(o) \/ (\E p \in Paths : OpApply(o, p)) \/ OpApplied(o)
       PROVE  Goal8
  <2>1. /\ op[o].pc \in {"candidate", "check", "apply"}
        /\ op'[o].pc \in {"check", "apply", "unmount", "refused"}
        /\ op[o].kind = "commit" /\ op'[o].kind = "commit"
        /\ UNCHANGED <<record, upper, mounted>>
    BY <1>4, <1>10, CommitEffect DEF OpAims
  <2>2. record.state = "succeeded" /\ mounted /\ reviewed = Result
    BY <1>1, <1>2, <2>1 DEF OpSteps
  <2>3. Result' = Result
    BY <2>1 DEF Result
  <2>4. reviewed' = Result' /\ mounted' /\ record'.state = "succeeded"
    BY <1>3, <2>1, <2>2, <2>3
  <2>5. CASE op[o].pc = "candidate"
    <3>1. op'[o].pc = "check" /\ op'[o].cand = Merged /\ UNCHANGED lower
      BY <1>10, <2>5, CommitEffect
    <3>2. Merged' = Merged
      BY <2>1, <3>1 DEF Merged
    <3>3. Known(op'[o])
      BY <2>2, <3>1, ResultIsMerged
    <3>4. lower = user
      BY <1>1, <2>2, <2>5 DEF Applying
    <3> HIDE DEF Known, Copied
    <3> QED
      BY <1>3, <2>4, <3>1, <3>2, <3>3, <3>4 DEF Applying
  <2>6. CASE op[o].pc = "check"
    <3>1. op'[o].cand = op[o].cand /\ UNCHANGED lower /\ lower = user
      BY <1>1, <1>10, <2>2, <2>6, CommitEffect DEF Applying
    <3>2. \/ op'[o].pc = "refused"
          \/ /\ op'[o].pc = "apply" /\ op'[o].todo = Compare(Base, op[o].cand)
             /\ CanApply(Base, lower, op[o].cand)
      BY <1>10, <2>6, CommitEffect
    <3>3. op[o].cand = Merged
      BY <1>2, <2>1, <2>6 DEF OpSteps
    <3>4. op'[o].pc = "apply" => Known(op'[o]) /\ Copied(op'[o], lower')
      BY <2>2, <3>1, <3>2, <3>3, CheckEstablishes
    <3> HIDE DEF Known, Copied
    <3> QED
      BY <1>3, <2>1, <2>4, <3>1, <3>2, <3>4 DEF Applying, OpSteps
  <2>7. CASE op[o].pc = "apply"
    <3>1. Known(op[o]) /\ Copied(op[o], lower)
      BY <1>2, <2>1, <2>7 DEF Applying, OpSteps
    <3>2. ASSUME NEW p \in Paths, OpApply(o, p)
          PROVE  Goal8
      <4>1. /\ reviewed[p] # Base[p] /\ p \in op[o].todo
            /\ lower' = [lower EXCEPT ![p] = reviewed[p]]
            /\ op' = [op EXCEPT ![o].todo = @ \ {p}]
        BY <3>2, ApplyEffect
      <4>2. /\ op'[o].pc = "apply" /\ op'[o].cand = op[o].cand
            /\ op'[o].todo = op[o].todo \ {p}
        BY <2>7, <4>1 DEF OpType
      <4>3. lower \in [Paths -> Entries \cup {NoEntry}]
        BY DEF TypeOK, Manifest
      <4>4. Known(op'[o])
        BY <3>1, <4>2
      <4>5. Copied(op'[o], lower')
        BY <3>1, <4>1, <4>2, <4>3
      <4> HIDE DEF Known, Copied
      <4> QED
        BY <2>1, <2>4, <4>2, <4>4, <4>5 DEF Applying, OpSteps
    <3>3. ASSUME op[o].todo = {}, op'[o].pc = "unmount", op'[o].cand = op[o].cand,
                 op'[o].todo = op[o].todo, UNCHANGED lower
          PROVE  Goal8
      <4>1. Known(op'[o]) /\ Copied(op'[o], lower')
        BY <3>1, <3>3
      <4> HIDE DEF Known, Copied
      <4> QED
        BY <2>1, <2>4, <3>3, <4>1 DEF Applying, OpSteps
    <3> QED
      BY <1>10, <2>7, <3>2, <3>3, CommitEffect
  <2> QED
    BY <2>1, <2>5, <2>6, <2>7
<1>11. ASSUME OpCrash(o)
       PROVE  Goal8
  BY <1>11, SequentialCalls DEF OpCrash
<1>12. Goal8
  BY <1>5, <1>6, <1>7, <1>8, <1>9, <1>10, <1>11 DEF OpStep
<1>13. OfferInv'
  <2>1. OfferNext(op'[o])
    BY <1>12
  <2>2. Installs(o)' <=> Taking(op'[o])
    BY DEF Installs
  <2>3. \A q \in Ops \ {o} : ~Installs(q)' /\ op'[q].pc \notin {"discard", "ckpt", "persist"}
    BY <1>others DEF Installs, Applying, OpSteps
  <2> QED
    BY <2>1, <2>2, <2>3 DEF OfferInv
<1>14. CommitInv'
  <2>1. CommitOK(op'[o], lower', record'.state, Merged')
    BY <1>12
  <2>2. \A q \in Ops \ {o} : op'[q].pc \notin OpSteps \ {"idle"}
    BY <1>others
  <2> QED
    BY <1>3, <2>1, <2>2 DEF CommitInv, Active, OpSteps
<1> QED
  BY <1>13, <1>14
-----------------------------------------------------------------------------
(* The invariant of sequential runs, and what follows from it *)

SeqInv == TurnInv /\ MemoryInv /\ StageInv /\ WayInv /\ OfferInv /\ CommitInv

\* With one process at a time and no call failing half way, the record, the
\* overlay and the owner's tree are in step.
LEMMA Sequenced ==
    ASSUME Sequential
    PROVE  Spec => []SeqInv
<1>1. Init => SeqInv
  <2> SUFFICES ASSUME Init
               PROVE  SeqInv
    OBVIOUS
  <2>1. \A o \in Ops : op[o].pc = "idle" /\ ~op[o].err
    BY DEF Init
  <2>2. TurnInv /\ MemoryInv /\ StageInv
    BY <2>1 DEF Init, TurnInv, MemoryInv, StageInv, Active, OpSteps, Ended, Launched, Attended,
                Reviewing, Offering, Undoing, Finishing, BeforeMount
  <2>3. WayInv /\ OfferInv /\ CommitInv
    BY <2>1 DEF Init, WayInv, OfferInv, CommitInv, Active, OpSteps
  <2> QED
    BY <2>2, <2>3 DEF SeqInv
<1>2. IInv /\ SeqInv /\ [Next]_vars => SeqInv'
  <2> SUFFICES ASSUME IInv, SeqInv, [Next]_vars
               PROVE  SeqInv'
    OBVIOUS
  <2> /\ TypeOK /\ RunInv /\ OpInv /\ DrainInv
      /\ TurnInv /\ MemoryInv /\ StageInv /\ WayInv /\ OfferInv /\ CommitInv
    BY DEF IInv, SeqInv
  <2>1. TurnInv' /\ MemoryInv'
    BY TurnStep, MemoryStep, SequentialCalls
  <2>2. CASE RunNext \/ RunCrash
    <3>1. StageInv'
      <4>1. CASE RunCrash
        <5>1. run'.pc = "crashed"
          BY <4>1 DEF RunCrash, TypeOK, RunType
        <5> QED
          BY <5>1 DEF StageInv, BeforeMount, Launched, Attended, Reviewing, Offering, Undoing,
                      Finishing
      <4> QED
        BY <2>2, <4>1, StageStep
    <3>2. CommitInv'
      BY <2>2, EndedStays, RunLeavesCommands DEF TypeOK, TurnInv, CommitInv, Active
    <3> QED
      BY <2>1, <2>2, <3>1, <3>2, RunKeepsWay, RunKeepsOffer DEF SeqInv
  <2>3. CASE AgentNext \/ EnvNext
    <3>1. UNCHANGED <<run, op, record, ckpt, cgroup, mounted>>
      BY <2>3, SequentialCalls
      DEF AgentNext, HelperFails, AgentWrite, AgentForks, AgentExits, ChildExits,
          EnvNext, EventLost, FuseExits, UserEdits
    <3>2. StageInv' /\ WayInv'
      BY <3>1 DEF StageInv, WayInv, Active
    <3> QED
      BY <2>1, <2>3, <3>2, SurroundingsKeepOffer DEF SeqInv
  <2>4. ASSUME NEW o \in Ops, OpStart(o) \/ OpStep(o) \/ OpCrash(o)
        PROVE  SeqInv'
    <3>1. run' = run /\ run.pc \in Ended
      BY <2>4, CommandsLeaveRun, TurnFacts, SequentialCalls
    <3>2. StageInv'
      BY <3>1 DEF StageInv, Ended, BeforeMount, Launched, Attended, Reviewing, Offering, Undoing,
                  Finishing
    <3> QED
      BY <2>1, <2>4, <3>2, CommandsKeepWay, CommandsKeepOffer DEF SeqInv
  <2>5. CASE UNCHANGED vars
    <3>1. StageInv' /\ WayInv'
      BY <2>5 DEF vars, StageInv, WayInv, Active
    <3>2. OfferInv' /\ CommitInv'
      BY <2>5 DEF vars, OfferInv, CommitInv, Installs, Active, Result, Merged
    <3> QED
      BY <2>1, <3>1, <3>2 DEF SeqInv
  <2> QED
    BY <2>2, <2>3, <2>4, <2>5 DEF Next, Done
<1> QED
  BY <1>1, <1>2, Invariance, PTL DEF Spec

\* A result that is offered and that no command is taking away is still mounted,
\* also after the run process and any number of commands.
THEOREM OfferIsReviewable ==
    ASSUME Sequential
    PROVE  Spec => []SucceededIsReviewable
<1>1. SeqInv => SucceededIsReviewable
  BY DEF SeqInv, OfferInv, SucceededIsReviewable, Quiet, Active, OpSteps
<1> QED
  BY <1>1, Sequenced, PTL

-----------------------------------------------------------------------------
(* Refinement: a protected run is a transaction over the owner's tree *)

\* The steps that the transaction cannot see.
TUnchanged == UNCHANGED <<record, lower, user, reviewed>>

\* The phase is a function of the record's state.
LEMMA PhaseStutters ==
    ASSUME record'.state = record.state \/ {record.state, record'.state} \cap
             {"succeeded", "committed", "rolled_back"} = {}
    PROVE  Phase' = Phase
  BY DEF Phase

\* Offering the result is the only step of the run process that moves the
\* transaction on, unless it ends rolled back.
LEMMA RunImplements ==
    ASSUME Sequential, TypeOK, RunInv, TurnInv, MemoryInv, StageInv, OfferInv,
           RunNext \/ RunCrash
    PROVE  [T!TNext]_(T!tvars)
<1> run \in RunType /\ record \in RecordType
  BY DEF TypeOK
<1> USE DEF Goto, TearDown, FailAndRollback, RunType
<1>1. UNCHANGED <<lower, user>>
  BY DEF RunNext,
      RunAddCheckpoint, RunPrepare, RunPersistPrepared, RunHistoryPrepared, CoordMount,
      CoordStart, CoordAddPID, CoordPrepareNetwork, CoordAttachSensor, CoordReleaseGate,
      RunCheckpointRunning, RunPersistRunning, RunHistoryRunning, WaitAgent,
      WaitNetwork, WaitSensor, WaitCloseScope, RunCheckpointWaitFailed, RunScan,
      RunPersistReview, RunHistoryReview, RunCheckpointSucceeded, TeardownKill,
      TeardownBoundary, TeardownScope, TeardownUnmount, TeardownDiscard,
      RunPersistFinal, RunCheckpointFinal, RunHistoryFinal, RunCrash
<1>2. CASE RunPersistReview
  <2>1. run.pc = "persistReview" /\ record' = NewRecord
    BY <1>2, SequentialCalls DEF RunPersistReview, WritesRecord, RecordWriteFails
  <2>2. run.state = "succeeded" /\ record.state = "running"
    BY <2>1 DEF MemoryInv, StageInv, Reviewing
  <2>3. record'.state = "succeeded"
    BY <2>1, <2>2 DEF NewRecord
  <2>4. reviewed' = Result
    BY <1>2, <2>3 DEF RunPersistReview
  <2>5. Phase = "open" /\ Phase' = "offered"
    BY <2>2, <2>3 DEF Phase
  <2>6. T!Offer(Result)
    BY <1>1, <2>4, <2>5 DEF T!Offer
  <2>7. Result \in T!Manifest
    BY ResultTyped DEF Manifest, T!Manifest
  <2> QED
    BY <2>6, <2>7 DEF T!TNext
<1>3. CASE RunPersistPrepared \/ RunPersistRunning \/ RunPersistFinal
  <2>1. record' = NewRecord /\ UNCHANGED <<op, reviewed>>
    BY <1>3, SequentialCalls DEF RunPersistPrepared, RunPersistRunning, RunPersistFinal,
                WritesRecord, RecordWriteFails
  <2>2. record'.state = run.state
    BY <2>1 DEF NewRecord
  <2>3. run.pc \in {"persistPrepared", "persistRunning", "persistFinal"}
    BY <1>3 DEF RunPersistPrepared, RunPersistRunning, RunPersistFinal
  <2>4. run.state \notin {"succeeded", "committed"}
    BY <2>3 DEF RunInv, MemoryInv, StageInv, BeforeMount, Launched, Finishing
  <2>5. record.state \in {"none", "preparing", "running"}
    BY <2>3 DEF StageInv, BeforeMount, Launched, Undoing
  <2>6. CASE run.state = "rolled_back"
    <3>1. Phase = "open" /\ Phase' = "rolled_back"
      BY <2>2, <2>5, <2>6 DEF Phase
    <3>2. \A o \in Ops : ~Installs(o)
      BY EndedStays DEF TurnInv, Installs, Applying
    <3>3. lower = user
      BY <2>5, <3>2 DEF OfferInv
    <3> QED
      BY <1>1, <2>1, <3>1, <3>3 DEF T!TNext, T!Rollback
  <2>7. CASE run.state # "rolled_back"
    <3>1. Phase' = Phase
      BY <2>2, <2>4, <2>5, <2>7, PhaseStutters
    <3> QED
      BY <1>1, <2>1, <3>1 DEF T!tvars
  <2> QED
    BY <2>6, <2>7
<1>4. CASE ~(RunPersistReview \/ RunPersistPrepared \/ RunPersistRunning \/ RunPersistFinal)
  <2>1. UNCHANGED <<record, reviewed>>
    BY <1>4 DEF RunNext,
      RunAddCheckpoint, RunPrepare, RunHistoryPrepared, CoordMount,
      CoordStart, CoordAddPID, CoordPrepareNetwork, CoordAttachSensor, CoordReleaseGate,
      RunCheckpointRunning, RunHistoryRunning, WaitAgent,
      WaitNetwork, WaitSensor, WaitCloseScope, RunCheckpointWaitFailed, RunScan,
      RunHistoryReview, RunCheckpointSucceeded, TeardownKill,
      TeardownBoundary, TeardownScope, TeardownUnmount, TeardownDiscard,
      RunCheckpointFinal, RunHistoryFinal, RunCrash
  <2>2. Phase' = Phase
    BY <2>1 DEF Phase
  <2> QED
    BY <1>1, <2>1, <2>2 DEF T!tvars
<1> QED
  BY <1>2, <1>3, <1>4

\* A copied change is an installed path; the record's last write commits the
\* transaction or rolls it back.
LEMMA CommandsImplement ==
    ASSUME Sequential, TypeOK, OpInv, TurnInv, WayInv, OfferInv, CommitInv,
           NEW o \in Ops, OpStart(o) \/ OpStep(o) \/ OpCrash(o)
    PROVE  [T!TNext]_(T!tvars)
<1> op \in [Ops -> OpType] /\ record \in RecordType /\ op[o] \in OpType
  BY DEF TypeOK
<1>1. UNCHANGED <<user, reviewed>>
  BY DEF OpStart, OpStep, OpStartRollback, OpStartCommit, OpScope, OpUnmount, OpDiscard,
         OpCheckpoint, OpPersist, OpHistory, OpCandidate, OpCheck, OpApply, OpApplied, OpCrash
<1>2. ASSUME NEW p \in Paths, OpApply(o, p)
      PROVE  T!Install(p)
  <2>1. /\ record.state = "succeeded" /\ reviewed[p] # Base[p] /\ user[p] = Base[p]
        /\ lower' = [lower EXCEPT ![p] = reviewed[p]]
    BY <1>2, ApplyEffect
  <2>2. UNCHANGED record
    BY <1>2 DEF OpApply
  <2>3. Phase = "offered" /\ Phase' = "offered"
    BY <2>1, <2>2 DEF Phase
  <2> QED
    BY <1>1, <2>1, <2>3 DEF T!Install
<1>3. CASE OpPersist(o)
  <2>1. op[o].pc = "persist" /\ record'.state = op[o].state /\ UNCHANGED lower
    BY <1>3, WriteEffect DEF OpPersist
  <2>2. Active(o) /\ op[o].state = Goal(op[o].kind) /\ op[o].kind \in {"rollback", "commit"}
    BY <2>1 DEF Active, OpSteps, WayInv, OpType
  <2>3. CASE op[o].kind = "commit"
    <3>1. record.state = "succeeded" /\ record'.state = "committed"
      BY <2>1, <2>2, <2>3 DEF CommitInv, Goal
    <3>2. \A p \in Paths : reviewed[p] # Base[p] => lower[p] = reviewed[p]
      <4>1. op[o].todo = {}
        BY <2>1, <2>2, <2>3 DEF CommitInv
      <4>2. \A p \in Paths : IF reviewed[p] = Base[p] THEN lower[p] = user[p]
                                                      ELSE lower[p] = reviewed[p]
        BY <2>1, <2>2, <2>3, <4>1 DEF CommitInv, Applying
      <4> QED
        BY <4>2
    <3>3. \A p \in T!Compare(Base, reviewed) : lower[p] = reviewed[p]
      BY <3>2 DEF T!Compare, T!Created, T!Modified, T!Deleted
    <3>4. Phase = "offered" /\ Phase' = "committed"
      BY <3>1 DEF Phase
    <3>5. T!Commit
      BY <1>1, <2>1, <3>3, <3>4 DEF T!Commit
    <3> QED
      BY <3>5 DEF T!TNext
  <2>4. CASE op[o].kind = "rollback"
    <3>1. record'.state = "rolled_back" /\ record.state # "committed"
      BY <2>1, <2>2, <2>4 DEF Goal, WayInv
    <3>2. \A q \in Ops : ~Installs(q)
      BY <2>2, <2>4 DEF TurnInv, Active, Installs, Applying, OpSteps
    <3>3. lower = user
      BY <3>1, <3>2 DEF OfferInv
    <3>4. Phase' = "rolled_back" /\ Phase \in {"open", "offered", "rolled_back"}
      BY <3>1 DEF Phase
    <3>5. CASE Phase = "rolled_back"
      BY <1>1, <2>1, <3>4, <3>5 DEF T!tvars
    <3>6. CASE Phase \in {"open", "offered"}
      BY <1>1, <2>1, <3>3, <3>4, <3>6 DEF T!TNext, T!Rollback
    <3> QED
      BY <3>4, <3>5, <3>6
  <2> QED
    BY <2>2, <2>3, <2>4
<1>4. CASE ~OpPersist(o) /\ ~(\E p \in Paths : OpApply(o, p))
  <2>1. UNCHANGED <<record, lower>>
    BY <1>4 DEF OpStart, OpStep, OpStartRollback, OpStartCommit, OpScope, OpUnmount, OpDiscard,
         OpCheckpoint, OpHistory, OpCandidate, OpCheck, OpApplied, OpCrash
  <2>2. Phase' = Phase
    BY <2>1 DEF Phase
  <2> QED
    BY <1>1, <2>1, <2>2 DEF T!tvars
<1> QED
  BY <1>2, <1>3, <1>4 DEF T!TNext

\* A protected run with the commands that follow it is a transaction: its result
\* is offered once, reaches the tree only by a commit, whole and never over the
\* owner's own edits, and a rollback leaves the tree the owner's alone.
THEOREM RunIsTransaction ==
    ASSUME Sequential
    PROVE  Spec => ImplementsTransaction
<1>1. Init => T!TInit
  BY DEF Init, T!TInit, Phase, EmptyManifest, T!EmptyManifest
<1>2. IInv /\ SeqInv /\ [Next]_vars => [T!TNext]_(T!tvars)
  <2> SUFFICES ASSUME IInv, SeqInv, [Next]_vars
               PROVE  [T!TNext]_(T!tvars)
    OBVIOUS
  <2> /\ TypeOK /\ RunInv /\ OpInv /\ DrainInv
      /\ TurnInv /\ MemoryInv /\ StageInv /\ WayInv /\ OfferInv /\ CommitInv
    BY DEF IInv, SeqInv
  <2>1. ASSUME NEW p \in Paths, NEW v \in Entries \cup {NoEntry}, UserEdits(p, v)
        PROVE  T!Edit(p, v)
    <3>1. Phase' = Phase
      BY <2>1 DEF UserEdits, Phase
    <3> QED
      BY <2>1, <3>1 DEF UserEdits, T!Edit
  <2>2. CASE TUnchanged
    <3>1. Phase' = Phase
      BY <2>2 DEF TUnchanged, Phase
    <3> QED
      BY <2>2, <3>1 DEF TUnchanged, T!tvars
  <2>3. CASE AgentNext
    <3>1. TUnchanged
      BY <2>3 DEF AgentNext, HelperFails, AgentWrite, AgentForks, AgentExits, ChildExits,
                  TUnchanged
    <3> QED
      BY <2>2, <3>1
  <2>4. CASE EnvNext
    <3>1. TUnchanged \/ \E p \in Paths, v \in Entries \cup {NoEntry} : UserEdits(p, v)
      BY <2>4 DEF EnvNext, EventLost, FuseExits, TUnchanged
    <3> QED
      BY <2>1, <2>2, <3>1 DEF T!TNext
  <2>5. CASE UNCHANGED vars
    <3>1. TUnchanged
      BY <2>5 DEF vars, TUnchanged
    <3> QED
      BY <2>2, <3>1
  <2> QED
    BY <2>3, <2>4, <2>5, RunImplements, CommandsImplement DEF Next, Done
<1> QED
  BY <1>1, <1>2, Invariance, Sequenced, PTL DEF Spec, ImplementsTransaction, T!TSpec
=============================================================================
