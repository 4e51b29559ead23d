--------------------------- MODULE NativeRunProofs ---------------------------
(***************************************************************************)
(* Theorems about NativeRun, for every set of paths, any number of         *)
(* commands and every combination of faults: processes that are killed,    *)
(* calls that fail, commands that overlap the run and each other, and      *)
(* descendants of the agent that outlive it.                               *)
(***************************************************************************)
EXTENDS NativeRun, TLAPS

USE DEF runtime, journal, ghosts

\* The view directory is made once, before there is a record; whoever gets to
\* the point where a run is declared over has seen it gone.
RemovedInv ==
    /\ run.pc = "prepare" => record = "none" /\ \A c \in Commands : cmd[c].pc = "idle"
    /\ run.pc = "write" /\ run.next = "discarded" => ~staged
    /\ run.pc = "write" => run.next # "none"
    /\ \A c \in Commands : cmd[c].pc \in {"event", "write"} => ~staged

\* From the scan on, a denied path is waiting to be hidden or holds nothing
\* that the agent did not write.
HiddenInv ==
    run.pc \in {"hide", "agent"} =>
        \A p \in Denied : \/ run.pc = "hide" /\ p \in run.todo
                          \/ view[p] \in AgentEntries \cup {NoEntry}

IInv == TypeOK /\ RemovedInv /\ EndedLeavesNothing /\ HiddenInv

-----------------------------------------------------------------------------
(* Types *)

LEMMA Constants ==
    /\ Base \in Manifest /\ Denied \subseteq Paths
    /\ AgentEntries \subseteq Entries /\ OwnerEntries \subseteq Entries
    /\ FaultSets \subseteq SUBSET FaultKinds /\ EmptyManifest \in Manifest
  BY NativeAssumption DEF EmptyManifest, Manifest

\* Writing one path of a manifest gives a manifest.
LEMMA ManifestUpdate ==
    ASSUME NEW m \in Manifest, NEW p, NEW v \in Entries \cup {NoEntry}
    PROVE  [m EXCEPT ![p] = v] \in Manifest
  BY DEF Manifest

LEMMA ManifestValue ==
    ASSUME NEW m \in Manifest, NEW p \in Paths
    PROVE  m[p] \in Entries \cup {NoEntry}
  BY DEF Manifest

\* What the run process does to its own variables.
LEMMA RunTyped ==
    ASSUME TypeOK, RunStep \/ RunKilled \/ \E ok \in BOOLEAN : AgentExits(ok)
    PROVE  run' \in RunType
<1> USE DEF RunSteps, RunEnded
<1>1. run \in RunType /\ view \in Manifest
  BY DEF TypeOK
<1>2. CASE RefuseRun \/ PrepareAt \/ BuildBase
  BY <1>1, <1>2 DEF RunType, RefuseRun, PrepareAt, BuildBase
<1>3. CASE WritePrepared
  BY <1>1, <1>3 DEF RunType, WritePrepared
<1>4. CASE DenyPaths
  <2>1. nativeDenyPaths \in SUBSET Paths
    BY Constants DEF nativeDenyPaths
  <2> QED
    BY <1>1, <1>4, <2>1 DEF RunType, DenyPaths
<1>5. CASE \E p \in Paths : Hide(p) \/ Restore(p)
  BY <1>1, <1>5 DEF RunType, Hide, Restore
<1>6. CASE Launch \/ Restored \/ AfterFailure \/ Abort \/ WriteFinal
  BY <1>1, <1>6 DEF RunType, Launch, Restored, AfterFailure, Abort, WriteFinal
<1>7. CASE Discard
  BY <1>1, <1>7 DEF RunType, Discard
<1>8. CASE \E outcome \in OnSuccess : AfterSuccess(outcome)
  BY <1>1, <1>8 DEF RunType, AfterSuccess
<1>9. CASE RunKilled
  BY <1>1, <1>9 DEF RunType, RunKilled
<1>10. CASE \E ok \in BOOLEAN : AgentExits(ok)
  BY <1>1, <1>10 DEF RunType, AgentExits
<1> QED
  BY <1>2, <1>3, <1>4, <1>5, <1>6, <1>7, <1>8, <1>9, <1>10 DEF RunStep

\* What a command does to its own variables.
CommandAction(c) == CommandStep(c) \/ CopyFails(c) \/ CommandKilled(c)

LEMMA CommandTyped ==
    ASSUME TypeOK, NEW c \in Commands,
           CommandAction(c) \/ \E kind \in {"rollback", "commit"} : Begin(c, kind)
    PROVE  cmd' \in [Commands -> CmdType]
<1> USE DEF CmdSteps, CmdEnded
<1>1. cmd \in [Commands -> CmdType] /\ cmd[c] \in CmdType /\ work \in Manifest /\ view \in Manifest
  BY DEF TypeOK
<1>2. CASE \E kind \in {"rollback", "commit"} : Begin(c, kind)
  BY <1>1, <1>2 DEF CmdType, Begin
<1>3. CASE LogAttempt(c) \/ FindView(c) \/ Applied(c) \/ LogOutcome(c) \/ WriteOutcome(c)
  BY <1>1, <1>3 DEF CmdType, LogAttempt, FindView, Applied, LogOutcome, WriteOutcome
<1>4. CASE ScanDestination(c)
  BY <1>1, <1>4 DEF CmdType, ScanDestination
<1>5. CASE ScanCandidate(c)
  <2>1. Compare(base, view) \in SUBSET Paths
    BY DEF Compare, Created, Deleted, Modified
  <2> QED
    BY <1>1, <1>5, <2>1 DEF CmdType, ScanCandidate
<1>6. CASE \E p \in Paths : Install(c, p)
  BY <1>1, <1>6 DEF CmdType, Install
<1>7. CASE \E p \in Paths : Delete(c, p)
  BY <1>1, <1>7 DEF CmdType, Delete
<1>8. CASE Remove(c)
  BY <1>1, <1>8 DEF CmdType, Remove
<1>9. CASE CopyFails(c) \/ CommandKilled(c)
  BY <1>1, <1>9 DEF CmdType, CopyFails, CommandKilled
<1> QED
  BY <1>2, <1>3, <1>4, <1>5, <1>6, <1>7, <1>8, <1>9 DEF CommandAction, CommandStep

\* What the run process does to the disk.
LEMMA RunDiskTyped ==
    ASSUME TypeOK, RunStep
    PROVE  /\ work' \in Manifest /\ staged' \in BOOLEAN /\ view' \in Manifest /\ hidden' \in Manifest
           /\ record' \in RecordStates /\ base' \in Manifest /\ index' \in RecordStates
           /\ events' \subseteq Operations /\ reviewed' \in Manifest
           /\ UNCHANGED <<work, stray, cmd, mine, edits>>
<1> USE DEF RecordStates, Operations, PublishAll, PublishPart, Log
<1>1. /\ work \in Manifest /\ staged \in BOOLEAN /\ view \in Manifest /\ hidden \in Manifest
      /\ record \in RecordStates /\ base \in Manifest /\ index \in RecordStates
      /\ events \subseteq Operations /\ reviewed \in Manifest
      /\ run.after \in Manifest /\ run.next \in RecordStates
  BY DEF TypeOK, RunType
<1>2. CASE RefuseRun \/ PrepareAt \/ BuildBase
  BY <1>1, <1>2 DEF RefuseRun, PrepareAt, BuildBase
<1>3. CASE WritePrepared
  BY <1>1, <1>3 DEF WritePrepared
<1>4. CASE DenyPaths
  BY <1>1, <1>4 DEF DenyPaths
<1>5. ASSUME NEW p \in Paths, Hide(p) \/ Restore(p)
      PROVE  /\ view' \in Manifest /\ hidden' \in Manifest
             /\ UNCHANGED <<work, staged, journal, events, stray, cmd, ghosts>>
  <2>1. /\ [view EXCEPT ![p] = NoEntry] \in Manifest
        /\ [hidden EXCEPT ![p] = NoEntry] \in Manifest
        /\ [hidden EXCEPT ![p] = view[p]] \in Manifest
        /\ [view EXCEPT ![p] = hidden[p]] \in Manifest
    BY <1>1, ManifestValue, ManifestUpdate
  <2>2. CASE Hide(p)
    BY <1>1, <2>1, <2>2 DEF Hide
  <2>3. CASE Restore(p)
    BY <1>1, <2>1, <2>3 DEF Restore
  <2> QED
    BY <1>5, <2>2, <2>3
<1>6. CASE Launch \/ Restored \/ AfterFailure \/ Abort
  BY <1>1, <1>6 DEF Launch, Restored, AfterFailure, Abort
<1>7. CASE Discard
  <2>1. ASSUME NEW p \in Paths, RemoveEntry(p)
        PROVE  view' \in Manifest /\ hidden' \in Manifest /\ UNCHANGED staged
    BY <1>1, <2>1, ManifestUpdate DEF RemoveEntry
  <2>2. RemoveRoot => view' \in Manifest /\ hidden' \in Manifest /\ staged' \in BOOLEAN
    BY <1>1 DEF RemoveRoot
  <2> QED
    BY <1>1, <1>7, <2>1, <2>2 DEF Discard
<1>8. CASE \E outcome \in OnSuccess : AfterSuccess(outcome)
  BY <1>1, <1>8 DEF AfterSuccess
<1>9. CASE WriteFinal
  BY <1>1, <1>9 DEF WriteFinal
<1> QED
  BY <1>1, <1>2, <1>3, <1>4, <1>5, <1>6, <1>7, <1>8, <1>9 DEF RunStep

\* What a command does to the disk.
LEMMA CommandDiskTyped ==
    ASSUME TypeOK, NEW c \in Commands, CommandAction(c)
    PROVE  /\ work' \in Manifest /\ staged' \in BOOLEAN /\ view' \in Manifest /\ hidden' \in Manifest
           /\ record' \in RecordStates /\ index' \in RecordStates /\ events' \subseteq Operations
           /\ UNCHANGED <<base, run, stray, ghosts>>
<1> USE DEF RecordStates, Operations, PublishAll, PublishPart, Log, Outcome
<1>1. /\ work \in Manifest /\ staged \in BOOLEAN /\ view \in Manifest /\ hidden \in Manifest
      /\ record \in RecordStates /\ base \in Manifest /\ index \in RecordStates
      /\ events \subseteq Operations /\ cmd[c] \in CmdType
  BY DEF TypeOK
<1>2. CASE LogAttempt(c) \/ FindView(c) \/ ScanDestination(c) \/ ScanCandidate(c) \/ Applied(c)
  BY <1>1, <1>2 DEF LogAttempt, FindView, ScanDestination, ScanCandidate, Applied
<1>3. ASSUME NEW p \in Paths, Install(c, p) \/ Delete(c, p)
      PROVE  work' \in Manifest /\ UNCHANGED <<runtime, journal, events, run, stray, ghosts>>
  BY <1>1, <1>3, ManifestUpdate, ManifestValue DEF Install, Delete
<1>4. CASE Remove(c)
  <2>1. ASSUME NEW p \in Paths, RemoveEntry(p)
        PROVE  view' \in Manifest /\ hidden' \in Manifest /\ UNCHANGED staged
    BY <1>1, <2>1, ManifestUpdate DEF RemoveEntry
  <2>2. RemoveRoot => view' \in Manifest /\ hidden' \in Manifest /\ staged' \in BOOLEAN
    BY <1>1 DEF RemoveRoot
  <2> QED
    BY <1>1, <1>4, <2>1, <2>2 DEF Remove
<1>5. CASE LogOutcome(c) \/ WriteOutcome(c)
  BY <1>1, <1>5 DEF LogOutcome, WriteOutcome, CmdType
<1>6. CASE CopyFails(c) \/ CommandKilled(c)
  BY <1>1, <1>6 DEF CopyFails, CommandKilled
<1> QED
  BY <1>1, <1>2, <1>3, <1>4, <1>5, <1>6 DEF CommandAction, CommandStep
-----------------------------------------------------------------------------
(* The inductive invariant *)

LEMMA InitInv ==
    Init => IInv
<1> SUFFICES ASSUME Init PROVE IInv
  OBVIOUS
<1>1. TypeOK
  <2>1. cmd \in [Commands -> CmdType]
    BY Constants DEF Init, CmdType, CmdSteps
  <2>2. run \in RunType
    BY Constants DEF Init, RunType, RunSteps
  <2>3. edits \in 0..MaxEdits
    BY NativeAssumption DEF Init
  <2> QED
    BY <2>1, <2>2, <2>3, Constants DEF Init, TypeOK, RecordStates
<1>2. RemovedInv /\ EndedLeavesNothing /\ HiddenInv
  BY DEF Init, RemovedInv, EndedLeavesNothing, HiddenInv
<1> QED
  BY <1>1, <1>2 DEF IInv

\* A step of the run.
LEMMA RunStepInv ==
    ASSUME IInv, RunStep, UNCHANGED faults
    PROVE  IInv'
<1> USE DEF PublishAll, PublishPart
<1>0. TypeOK /\ RemovedInv /\ EndedLeavesNothing /\ HiddenInv /\ run \in RunType /\ view \in Manifest /\ hidden \in Manifest
  BY DEF IInv, TypeOK
<1>1. TypeOK'
  BY <1>0, RunDiskTyped, RunTyped DEF TypeOK
<1>2. cmd' = cmd
  BY <1>0, RunDiskTyped
<1>3. CASE RefuseRun \/ PrepareAt \/ BuildBase
  <2>1. RemovedInv'
    BY <1>0, <1>2, <1>3 DEF RunType, RemovedInv, RefuseRun, PrepareAt, BuildBase
  <2>2. (EndedLeavesNothing /\ HiddenInv)'
    BY <1>0, <1>3 DEF RunType, RemovedInv, EndedLeavesNothing, HiddenInv, RefuseRun, PrepareAt, BuildBase
  <2> QED
    BY <1>1, <2>1, <2>2 DEF IInv
<1>4. CASE WritePrepared
  <2>1. RemovedInv'
    BY <1>0, <1>2, <1>4 DEF RunType, RemovedInv, WritePrepared
  <2>2. (EndedLeavesNothing /\ HiddenInv)'
    BY <1>0, <1>4 DEF RunType, EndedLeavesNothing, HiddenInv, WritePrepared
  <2> QED
    BY <1>1, <2>1, <2>2 DEF IInv
<1>5. CASE DenyPaths
  <2>1. RemovedInv' /\ EndedLeavesNothing'
    BY <1>0, <1>2, <1>5 DEF RunType, RemovedInv, EndedLeavesNothing, DenyPaths
  <2>2. HiddenInv'
    BY <1>0, <1>5, Constants DEF RunType, HiddenInv, DenyPaths, nativeDenyPaths
  <2> QED
    BY <1>1, <2>1, <2>2 DEF IInv
<1>6. ASSUME NEW p \in Paths, Hide(p)
      PROVE  IInv'
  <2>1. run' = [run EXCEPT !.todo = @ \ {p}] /\ run.pc = "hide" /\ run'.pc = "hide"
        /\ view'[p] = NoEntry /\ \A q \in Paths \ {p} : view'[q] = view[q]
    BY <1>0, <1>6 DEF RunType, Hide, Manifest
  <2>2. RemovedInv' /\ EndedLeavesNothing'
    BY <1>0, <1>2, <1>6, <2>1 DEF RunType, RemovedInv, EndedLeavesNothing, Hide
  <2>3. HiddenInv'
    <3> SUFFICES ASSUME NEW q \in Denied
                 PROVE  q \in run'.todo \/ view'[q] \in AgentEntries \cup {NoEntry}
      BY <2>1 DEF HiddenInv
    <3> QED
      BY <1>0, <2>1, Constants DEF RunType, HiddenInv
  <2> QED
    BY <1>1, <2>2, <2>3 DEF IInv
<1>7. ASSUME NEW p \in Paths, Restore(p)
      PROVE  IInv'
  <2>1. RemovedInv' /\ EndedLeavesNothing' /\ HiddenInv'
    BY <1>0, <1>2, <1>7 DEF RunType, RemovedInv, EndedLeavesNothing, HiddenInv, Restore
  <2> QED
    BY <1>1, <2>1 DEF IInv
<1>8. CASE Launch
  <2>1. RemovedInv' /\ EndedLeavesNothing'
    BY <1>0, <1>2, <1>8 DEF RunType, RemovedInv, EndedLeavesNothing, Launch
  <2>2. HiddenInv'
    BY <1>0, <1>8 DEF RunType, HiddenInv, Launch
  <2> QED
    BY <1>1, <2>1, <2>2 DEF IInv
<1>9. CASE Restored \/ AfterFailure \/ Abort \/ \E outcome \in OnSuccess : AfterSuccess(outcome)
  <2>1. /\ run'.pc \in {"exit", "discard", "write"} /\ staged' = staged /\ record' = record
        /\ run'.pc = "write" => run'.next = "succeeded"
    BY <1>0, <1>9 DEF RunType, Restored, AfterFailure, Abort, AfterSuccess
  <2>2. RemovedInv' /\ EndedLeavesNothing' /\ HiddenInv'
    BY <1>0, <1>2, <2>1 DEF RemovedInv, EndedLeavesNothing, HiddenInv
  <2> QED
    BY <1>1, <2>2 DEF IInv
<1>10. CASE Discard
  <2>1. (staged' => staged) /\ run.pc = "discard" /\ record' = record
        /\ run'.pc \in {"discard", "done", "write"} /\ run'.next = run.next
        /\ (run'.pc = "write" => run.next # "none" /\ (~staged' \/ run.next = "failed"))
    BY <1>0, <1>10 DEF RunType, Discard, RemoveEntry, RemoveRoot
  <2>2. RemovedInv' /\ EndedLeavesNothing' /\ HiddenInv'
    BY <1>0, <1>2, <2>1 DEF RemovedInv, EndedLeavesNothing, HiddenInv
  <2> QED
    BY <1>1, <2>2 DEF IInv
<1>11. CASE WriteFinal
  <2>1. RemovedInv' /\ HiddenInv'
    BY <1>0, <1>2, <1>11 DEF RunType, RemovedInv, HiddenInv, WriteFinal
  <2>2. EndedLeavesNothing'
    BY <1>0, <1>11 DEF RunType, RemovedInv, EndedLeavesNothing, WriteFinal
  <2> QED
    BY <1>1, <2>1, <2>2 DEF IInv
<1> QED
  BY <1>3, <1>4, <1>5, <1>6, <1>7, <1>8, <1>9, <1>10, <1>11 DEF RunStep

\* A step of a command.
LEMMA CommandStepInv ==
    ASSUME IInv, NEW c \in Commands, CommandAction(c), UNCHANGED faults
    PROVE  IInv'
<1> USE DEF PublishAll, PublishPart
<1>0. /\ TypeOK /\ RemovedInv /\ EndedLeavesNothing /\ HiddenInv
      /\ cmd \in [Commands -> CmdType] /\ run \in RunType /\ view \in Manifest
  BY DEF IInv, TypeOK
<1>1. TypeOK' /\ run' = run
  <2>1. cmd' \in [Commands -> CmdType]
    BY <1>0, CommandTyped
  <2> QED
    BY <1>0, <2>1, CommandDiskTyped DEF TypeOK
<1>2. /\ \A d \in Commands \ {c} : cmd'[d] = cmd[d]
      /\ cmd[c].pc # "idle" /\ cmd'[c].pc # "idle"
      /\ staged' => staged
      /\ cmd'[c].pc \in {"event", "write"} => cmd[c].pc \in {"event", "write"} \/ ~staged'
      /\ record' # record => cmd[c].pc = "write"
  <2> USE <1>0 DEF CmdType
  <2>1. CASE LogAttempt(c) \/ FindView(c) \/ ScanDestination(c) \/ ScanCandidate(c) \/ Applied(c)
    BY <2>1 DEF LogAttempt, FindView, ScanDestination, ScanCandidate, Applied
  <2>2. CASE \E p \in Paths : Install(c, p) \/ Delete(c, p)
    BY <2>2 DEF Install, Delete
  <2>3. CASE Remove(c)
    BY <2>3 DEF Remove, RemoveEntry, RemoveRoot
  <2>4. CASE LogOutcome(c) \/ WriteOutcome(c)
    BY <2>4 DEF LogOutcome, WriteOutcome
  <2>5. CASE CopyFails(c) \/ CommandKilled(c)
    BY <2>5 DEF CopyFails, CommandKilled, Active
  <2> QED
    BY <2>1, <2>2, <2>3, <2>4, <2>5 DEF CommandAction, CommandStep
<1>3. RemovedInv'
  <2>1. (run.pc = "prepare" => record = "none" /\ \A d \in Commands : cmd[d].pc = "idle")'
    BY <1>0, <1>1, <1>2 DEF RemovedInv
  <2>2. (\A d \in Commands : cmd[d].pc \in {"event", "write"} => ~staged)'
    BY <1>0, <1>2 DEF RemovedInv
  <2> QED
    BY <1>0, <1>1, <1>2, <2>1, <2>2, Zenon DEF RemovedInv
<1>4. EndedLeavesNothing'
  BY <1>0, <1>2 DEF RemovedInv, EndedLeavesNothing
<1>5. HiddenInv'
  <2>1. \A q \in Denied : view'[q] \in {view[q], NoEntry}
    <3>1. CASE Remove(c)
      BY <1>0, <3>1, Constants DEF Remove, RemoveEntry, RemoveRoot, Manifest
    <3>2. CASE ~Remove(c)
      <4>1. view' = view
        BY <3>2 DEF CommandAction, CommandStep, LogAttempt, FindView, ScanDestination, ScanCandidate,
                    Install, Delete, Applied, LogOutcome, WriteOutcome, CopyFails, CommandKilled
      <4> QED
        BY <4>1
    <3> QED
      BY <3>1, <3>2
  <2> QED
    BY <1>0, <1>1, <2>1 DEF HiddenInv
<1> QED
  BY <1>1, <1>3, <1>4, <1>5 DEF IInv

\* The agent, its descendants, the owner, and commands that are issued.
LEMMA OtherStepInv ==
    ASSUME IInv, UNCHANGED faults,
           \/ RunKilled \/ StrayExits \/ \E ok \in BOOLEAN : AgentExits(ok)
           \/ \E p \in Paths, v \in AgentEntries \cup {NoEntry} : AgentWrites(p, v)
           \/ \E c \in Commands, kind \in {"rollback", "commit"} : Begin(c, kind)
           \/ \E p \in Paths, v \in OwnerEntries \cup {NoEntry} : Edit(p, v)
    PROVE  IInv'
<1>0. /\ TypeOK /\ RemovedInv /\ EndedLeavesNothing /\ HiddenInv
      /\ cmd \in [Commands -> CmdType] /\ run \in RunType /\ view \in Manifest
  BY DEF IInv, TypeOK
<1>1. CASE RunKilled \/ \E ok \in BOOLEAN : AgentExits(ok)
  <2>1. run' \in RunType
    BY <1>0, <1>1, RunTyped
  <2>2. /\ run'.pc \in {"killed", "restore"}
        /\ UNCHANGED <<work, runtime, journal, events, cmd, ghosts>>
    BY <1>0, <1>1 DEF RunType, RunKilled, AgentExits
  <2>3. stray' \in BOOLEAN
    <3>1. CASE RunKilled
      BY <1>0, <3>1, Zenon DEF TypeOK, RunKilled
    <3>2. ASSUME NEW ok \in BOOLEAN, AgentExits(ok)
          PROVE  stray' \in BOOLEAN
      BY <3>2 DEF AgentExits
    <3> QED
      BY <1>1, <3>1, <3>2
  <2>4. TypeOK'
    BY <1>0, <2>1, <2>2, <2>3 DEF TypeOK
  <2>5. RemovedInv' /\ EndedLeavesNothing' /\ HiddenInv'
    BY <1>0, <2>2 DEF RemovedInv, EndedLeavesNothing, HiddenInv
  <2> QED
    BY <2>4, <2>5 DEF IInv
<1>2. CASE StrayExits
  BY <1>0, <1>2 DEF IInv, TypeOK, RemovedInv, EndedLeavesNothing, HiddenInv, StrayExits
<1>3. ASSUME NEW p \in Paths, NEW v \in AgentEntries \cup {NoEntry}, AgentWrites(p, v)
      PROVE  IInv'
  <2>1. view' \in Manifest
    BY <1>0, <1>3, Constants, ManifestUpdate DEF AgentWrites
  <2>2. TypeOK' /\ RemovedInv' /\ EndedLeavesNothing'
    BY <1>0, <1>3, <2>1 DEF TypeOK, RemovedInv, EndedLeavesNothing, AgentWrites
  <2>3. HiddenInv'
    BY <1>0, <1>3, Constants DEF HiddenInv, AgentWrites, Manifest
  <2> QED
    BY <2>2, <2>3 DEF IInv
<1>4. ASSUME NEW c \in Commands, NEW kind \in {"rollback", "commit"}, Begin(c, kind)
      PROVE  IInv'
  <2>1. cmd' \in [Commands -> CmdType]
    BY <1>0, <1>4, CommandTyped
  <2>2. TypeOK'
    BY <1>0, <1>4, <2>1 DEF TypeOK, Begin
  <2>3. /\ run' = run /\ record' = record /\ staged' = staged /\ view' = view /\ record # "none"
        /\ \A d \in Commands \ {c} : cmd'[d] = cmd[d]
        /\ cmd'[c].pc \in {"failed", "attempt", "remove"}
    BY <1>0, <1>4 DEF CmdType, Begin
  <2>4. RemovedInv' /\ EndedLeavesNothing' /\ HiddenInv'
    BY <1>0, <2>3 DEF RemovedInv, EndedLeavesNothing, HiddenInv
  <2> QED
    BY <2>2, <2>4 DEF IInv
<1>5. ASSUME NEW p \in Paths, NEW v \in OwnerEntries \cup {NoEntry}, Edit(p, v)
      PROVE  IInv'
  <2>1. work' \in Manifest /\ mine' \in Manifest
    <3>1. work \in Manifest /\ mine \in Manifest /\ v \in Entries \cup {NoEntry}
      BY <1>0, Constants DEF TypeOK
    <3> QED
      BY <1>5, <3>1, ManifestUpdate DEF Edit
  <2>2. edits' \in 0..MaxEdits
    BY <1>0, <1>5, NativeAssumption DEF TypeOK, Edit
  <2>3. TypeOK' /\ RemovedInv' /\ EndedLeavesNothing' /\ HiddenInv'
    BY <1>0, <1>5, <2>1, <2>2 DEF TypeOK, RemovedInv, EndedLeavesNothing, HiddenInv, Edit
  <2> QED
    BY <2>3 DEF IInv
<1> QED
  BY <1>1, <1>2, <1>3, <1>4, <1>5

LEMMA NextInv ==
    IInv /\ [Next]_vars => IInv'
<1> SUFFICES ASSUME IInv, [Next]_vars PROVE IInv'
  OBVIOUS
<1>1. CASE UNCHANGED vars
  BY <1>1 DEF vars, IInv, TypeOK, RemovedInv, EndedLeavesNothing, HiddenInv
<1>2. CASE Next
  BY <1>2, RunStepInv, CommandStepInv, OtherStepInv DEF Next, Step, CommandAction
<1> QED
  BY <1>1, <1>2

\* The strengthening holds in every state of every behaviour.
THEOREM Invariance == Spec => []IInv
  BY InitInv, NextInv, PTL DEF Spec

-----------------------------------------------------------------------------
(* The theorems *)

\* Every variable keeps its type, under every combination of faults.
THEOREM TypeCorrect == Spec => []TypeOK
<1>1. IInv => TypeOK
  BY DEF IInv
<1> QED
  BY <1>1, Invariance, PTL

\* When the record says discarded, rolled back or committed, the view
\* directory is gone: no later commit can apply what was thrown away.
THEOREM EndedGone == Spec => []EndedLeavesNothing
<1>1. IInv => EndedLeavesNothing
  BY DEF IInv
<1> QED
  BY <1>1, Invariance, PTL

\* The agent never finds at a denied path what was there before it came,
\* unless the profile lets it read the runtime root or the workspace.
THEOREM HiddenFromAgent == Spec => []SensitiveHidden
<1>1. IInv => SensitiveHidden
  <2> SUFFICES ASSUME IInv, run.pc = "agent", {"runtime", "workspace"} \cap Readable = {},
                      NEW p \in Denied
               PROVE  Seen(p) \subseteq AgentEntries \cup {NoEntry}
    BY DEF SensitiveHidden
  <2>1. view[p] \in AgentEntries \cup {NoEntry}
    BY DEF IInv, HiddenInv
  <2>2. "runtime" \notin Readable /\ "workspace" \notin Readable
    OBVIOUS
  <2> QED
    BY <2>1, <2>2 DEF Seen
<1> QED
  BY <1>1, Invariance, PTL
-----------------------------------------------------------------------------
(* Careful use: nobody but the run and one command after the other is at   *)
(* work.  The run may be killed anywhere, and its writes and removals may  *)
(* fail.                                                                   *)

\* The run writes into a transaction whose record exists.
Working == \/ run.pc \in {"deny", "hide", "agent", "restore", "exit", "write"}
           \/ run.pc = "discard" /\ run.next # "none"

\* A commit has begun to copy.
Installing(c) == cmd[c].kind = "commit" /\ cmd[c].pc \in {"apply", "remove", "event", "write"}

\* The run and the commands take turns; a descendant of the agent outlives
\* only a run that was killed, whose candidate is never offered.
TurnInv ==
    /\ RunActive => \A c \in Commands : ~Active(c)
    /\ \A c, d \in Commands : Active(c) /\ Active(d) => c = d
    /\ stray => run.pc = "killed" /\ record # "succeeded"

\* How far the run is, what its record says, and what is in the clone.
StageInv ==
    /\ run.pc \in {"prepare", "base"} => work = Base
    /\ run.pc \in {"prepare", "base", "record"} => record = "none"
    /\ run.pc = "record" \/ record # "none" => base = Base
    /\ Working => record # "none"
    /\ RunActive => record \in {"none", "prepared", "running"}
    /\ RunActive /\ run.pc \notin {"discard", "write"} => run.next = "none"
    /\ run.pc = "discard" => run.next # "succeeded"
    /\ run.pc = "write" /\ run.next = "succeeded" => run.after = view

\* What a command knows about the record and the candidate.
Informed(c) ==
    /\ Active(c) => record \notin {"none", "committed"}
    /\ Active(c) /\ cmd[c].kind = "commit" => record = "succeeded"
    /\ cmd[c].pc \in {"attempt", "stage", "destination", "candidate", "apply"}
         => cmd[c].kind = "commit"
    /\ cmd[c].pc = "candidate" => cmd[c].current = work
    /\ cmd[c].pc = "apply" => cmd[c].cand = reviewed
                              /\ cmd[c].todo \subseteq Compare(Base, reviewed)
    /\ Installing(c) /\ cmd[c].pc # "apply" => cmd[c].todo = {}

\* A commit has put the offer in place where it is no longer to do, and copies
\* only over what the owner left alone.
Placed(c) ==
    Installing(c) => \A p \in Compare(Base, reviewed) :
                        mine[p] = Base[p] /\ (p \in cmd[c].todo \/ work[p] = reviewed[p])

CommandInv == \A c \in Commands : Informed(c) /\ Placed(c)

\* What was reviewed is in the clone until it is removed; until a commit
\* copies, the workspace is the owner's.
Removing(c) == cmd[c].pc \in {"remove", "event", "write"}
OfferInv ==
    /\ record = "succeeded" /\ (\A c \in Commands : ~Removing(c)) => view = reviewed
    /\ record = "committed" \/ (\E c \in Commands : Installing(c)) \/ work = mine

CarefulInv == TurnInv /\ StageInv /\ CommandInv /\ OfferInv

-----------------------------------------------------------------------------
(* Careful use: the invariant *)

LEMMA CompareMember ==
    ASSUME NEW before, NEW after, NEW p
    PROVE  p \in Compare(before, after) <=> p \in Paths /\ before[p] # after[p]
  BY DEF Compare, Created, Modified, Deleted

LEMMA CarefulStays ==
    ASSUME Careful, UNCHANGED faults
    PROVE  /\ Careful'
           /\ \A kind \in {"edit_early", "edit_late", "kill_command", "remove_command",
                           "write_command", "copy", "stray", "overlap"} : kind \notin faults
  BY DEF Careful

\* A command that is not under way knows nothing that can be wrong.
LEMMA IdleIsFine ==
    ASSUME NEW c \in Commands, ~Active(c), cmd[c] \in CmdType
    PROVE  Informed(c) /\ Placed(c) /\ ~Installing(c) /\ ~Removing(c)
  BY DEF Active, CmdEnded, Informed, Placed, Installing, Removing

LEMMA CarefulInit ==
    Init => CarefulInv
<1> SUFFICES ASSUME Init PROVE CarefulInv
  OBVIOUS
<1>1. \A c \in Commands : cmd[c].pc = "idle"
  BY DEF Init
<1>2. \A c \in Commands : ~Active(c) /\ ~Installing(c) /\ ~Removing(c)
  BY <1>1 DEF Active, Installing, Removing
<1>3. CommandInv
  BY <1>1 DEF CommandInv, Informed, Placed, Active, Installing
<1>4. TurnInv /\ StageInv /\ OfferInv
  BY <1>2 DEF Init, TurnInv, StageInv, OfferInv, Working, RunActive, RunEnded
<1> QED
  BY <1>3, <1>4 DEF CarefulInv

\* A step of the run, seen from the outside.
LEMMA RunEffect ==
    ASSUME IInv, CarefulInv, RunStep
    PROVE  /\ RunActive
           /\ StageInv'
           /\ record' # "committed"
           /\ record' # "succeeded" => reviewed' = reviewed
           /\ record' = "succeeded" => view' = view /\ reviewed' = view
<1> USE DEF PublishAll, PublishPart
<1>0. /\ run \in RunType /\ StageInv
      /\ run.pc = "write" => run.next # "none"
      /\ work' = work /\ RunActive
  <2>1. RunActive
    BY DEF RunStep, RefuseRun, PrepareAt, BuildBase, WritePrepared, DenyPaths, Hide, Restore, Launch,
           Restored, AfterFailure, Abort, Discard, WriteFinal, AfterSuccess, RunActive, RunEnded
  <2> QED
    BY <2>1, RunDiskTyped DEF IInv, TypeOK, RemovedInv, CarefulInv
<1>1. record \in {"none", "prepared", "running"}
  BY <1>0 DEF StageInv
<1> USE <1>0, <1>1 DEF RunType, StageInv, Working, RunActive, RunEnded
<1>2. CASE RefuseRun
  BY <1>2 DEF RefuseRun
<1>3. CASE PrepareAt
  BY <1>3 DEF PrepareAt
<1>4. CASE BuildBase
  BY <1>4 DEF BuildBase
<1>5. CASE WritePrepared
  BY <1>5 DEF WritePrepared
<1>6. CASE DenyPaths
  BY <1>6 DEF DenyPaths
<1>7. ASSUME NEW p \in Paths, Hide(p) \/ Restore(p)
      PROVE  /\ run' = [run EXCEPT !.todo = @ \ {p}] /\ run.pc \in {"hide", "restore"}
             /\ UNCHANGED <<record, reviewed, base>>
  BY <1>7 DEF Hide, Restore
<1>8. CASE Launch
  BY <1>8 DEF Launch
<1>9. CASE Restored \/ AfterFailure
  BY <1>9 DEF Restored, AfterFailure
<1>10. CASE Abort
  BY <1>10 DEF Abort
<1>11. CASE Discard
  <2>1. /\ run.pc = "discard" /\ run'.pc \in {"discard", "write", "done"} /\ run'.next = run.next
        /\ run'.pc = "write" => run.next # "none"
        /\ UNCHANGED <<record, reviewed, base>>
    BY <1>11 DEF Discard
  <2> QED
    BY <2>1
<1>12. CASE WriteFinal
  BY <1>12 DEF WriteFinal
<1>13. CASE \E outcome \in OnSuccess : AfterSuccess(outcome)
  BY <1>13 DEF AfterSuccess
<1>14. CASE \E p \in Paths : Hide(p) \/ Restore(p)
  BY <1>7, <1>14
<1> QED
  BY <1>2, <1>3, <1>4, <1>5, <1>6, <1>8, <1>9, <1>10, <1>11, <1>12, <1>13, <1>14 DEF RunStep

LEMMA RunCareful ==
    ASSUME IInv, CarefulInv, RunStep
    PROVE  CarefulInv'
<1>1. /\ UNCHANGED <<work, stray, cmd, mine>>
      /\ \A c \in Commands : cmd[c] \in CmdType
  BY RunDiskTyped DEF IInv, TypeOK
<1>2. \A c \in Commands : ~Active(c)
  BY RunEffect DEF CarefulInv, TurnInv
<1>3. \A c \in Commands : (Informed(c) /\ Placed(c) /\ ~Installing(c) /\ ~Active(c))'
  BY <1>1, <1>2, IdleIsFine DEF Active, Informed, Placed, Installing, CmdEnded
<1>4. ~stray
  BY RunEffect DEF CarefulInv, TurnInv, RunActive, RunEnded
<1>5. TurnInv'
  BY <1>1, <1>3, <1>4 DEF TurnInv
<1>6. work = mine
  BY <1>1, <1>2, RunEffect, IdleIsFine DEF CarefulInv, StageInv, OfferInv
<1>7. CommandInv' /\ OfferInv'
  BY <1>1, <1>3, <1>6, RunEffect DEF CommandInv, OfferInv
<1> QED
  BY <1>5, <1>7, RunEffect DEF CarefulInv

\* What a step of one command must leave for the invariant to hold after it.
LEMMA CommandConcludes ==
    ASSUME IInv, CarefulInv, NEW c \in Commands, Active(c), cmd' \in [Commands -> CmdType],
           \A d \in Commands \ {c} : cmd'[d] = cmd[d],
           UNCHANGED <<run, stray, base, reviewed>>,
           (Informed(c) /\ Placed(c))',
           record' # "none", record' = "succeeded" => record = "succeeded",
           record' = "succeeded" /\ ~Removing(c)' => ~Removing(c) /\ view' = view,
           record' = "committed" \/ Installing(c)' \/ work' = mine'
    PROVE  CarefulInv'
<1>0. cmd \in [Commands -> CmdType] /\ run \in RunType
  BY DEF IInv, TypeOK
<1>1. ~RunActive /\ \A d \in Commands \ {c} : ~Active(d)
  BY DEF CarefulInv, TurnInv
<1>2. \A d \in Commands \ {c} : /\ (~Active(d))' /\ (Informed(d) /\ Placed(d))'
                                /\ ~Removing(d)
  <2> SUFFICES ASSUME NEW d \in Commands \ {c}
               PROVE  (~Active(d))' /\ (Informed(d) /\ Placed(d))' /\ ~Removing(d)
    OBVIOUS
  <2>1. (~Active(d))' /\ ~Removing(d)
    BY <1>0, <1>1, IdleIsFine DEF Active
  <2> QED
    BY <2>1 DEF Active, Informed, Placed, Installing, CmdEnded
<1>3. TurnInv'
  BY <1>1, <1>2 DEF CarefulInv, TurnInv, RunActive
<1>4. StageInv'
  BY <1>0, <1>1 DEF RunType, CarefulInv, TurnInv, StageInv, CommandInv, Informed, RunActive, RunEnded, Working
<1>5. CommandInv'
  BY <1>2 DEF CommandInv
<1>6. OfferInv'
  BY <1>2 DEF CarefulInv, OfferInv
<1> QED
  BY <1>3, <1>4, <1>5, <1>6 DEF CarefulInv

\* What holds before a step of a command.
LEMMA CommandTurn ==
    ASSUME IInv, CarefulInv, NEW c \in Commands, Active(c)
    PROVE  /\ cmd \in [Commands -> CmdType] /\ cmd[c] \in CmdType
           /\ Informed(c) /\ Placed(c)
           /\ \A d \in Commands \ {c} : ~Installing(d) /\ ~Removing(d) /\ ~Active(d)
           /\ record \notin {"none", "committed"} /\ base = Base /\ ~RunActive
           /\ record = "succeeded" /\ ~Removing(c) => view = reviewed
           /\ Installing(c) \/ work = mine
           /\ work \in Manifest /\ mine \in Manifest /\ reviewed \in Manifest
<1>1. cmd \in [Commands -> CmdType] /\ cmd[c] \in CmdType
      /\ work \in Manifest /\ mine \in Manifest /\ reviewed \in Manifest
  BY DEF IInv, TypeOK
<1>2. \A d \in Commands \ {c} : ~Active(d)
  BY DEF CarefulInv, TurnInv
<1>3. \A d \in Commands \ {c} : ~Installing(d) /\ ~Removing(d) /\ ~Active(d)
  BY <1>1, <1>2, IdleIsFine
<1>4. Informed(c) /\ Placed(c)
  BY DEF CarefulInv, CommandInv
<1>5. record \notin {"none", "committed"}
  BY <1>4 DEF Informed
<1> QED
  BY <1>1, <1>3, <1>4, <1>5 DEF CarefulInv, TurnInv, StageInv, OfferInv

\* The steps of a command that read, write the journal or compute.
LEMMA QuietEffect ==
    ASSUME IInv, CarefulInv, Careful, NEW c \in Commands,
           LogAttempt(c) \/ FindView(c) \/ ScanDestination(c) \/ Applied(c) \/ LogOutcome(c)
    PROVE  /\ Active(c) /\ CarefulInv' /\ UNCHANGED <<work, record, mine, reviewed>>
<1>1. Active(c)
  BY DEF Active, CmdEnded, LogAttempt, FindView, ScanDestination, Applied, LogOutcome
<1>2. /\ cmd' \in [Commands -> CmdType] /\ UNCHANGED <<base, run, stray, ghosts>>
  BY CommandTyped, CommandDiskTyped DEF CommandAction, CommandStep, IInv
<1> USE CommandTurn, <1>1
<1>3. UNCHANGED <<work, view, record, mine, reviewed>>
  BY <1>2 DEF LogAttempt, FindView, ScanDestination, Applied, LogOutcome
<1>4. /\ \A d \in Commands \ {c} : cmd'[d] = cmd[d]
      /\ cmd'[c].kind = cmd[c].kind /\ cmd'[c].cand = cmd[c].cand /\ cmd'[c].todo = cmd[c].todo
      /\ \/ cmd[c].pc \in {"attempt", "stage"} /\ cmd'[c].pc \in {"stage", "destination", "failed"}
         \/ cmd[c].pc = "destination" /\ cmd'[c].pc = "candidate" /\ cmd'[c].current = work
         \/ cmd[c].pc = "apply" /\ cmd'[c].pc = "remove" /\ cmd[c].todo = {}
         \/ cmd[c].pc = "event" /\ cmd'[c].pc = "write"
  <2> USE DEF CmdType
  <2>1. CASE LogAttempt(c)
    BY <2>1, CarefulStays DEF LogAttempt, Careful
  <2>2. CASE FindView(c)
    BY <2>2 DEF FindView
  <2>3. CASE ScanDestination(c)
    BY <2>3 DEF ScanDestination
  <2>4. CASE Applied(c)
    BY <2>4 DEF Applied
  <2>5. CASE LogOutcome(c)
    BY <2>5 DEF LogOutcome, Careful
  <2> QED
    BY <2>1, <2>2, <2>3, <2>4, <2>5
<1>5. (Informed(c) /\ Placed(c))'
  BY <1>2, <1>3, <1>4 DEF Informed, Placed, Installing, Active, CmdEnded
<1>6. Installing(c)' \/ work' = mine'
  BY <1>3, <1>4 DEF Informed, Installing
<1>7. record' = "succeeded" /\ ~Removing(c)' => ~Removing(c) /\ view' = view
  BY <1>3, <1>4 DEF Removing
<1> QED
  BY <1>2, <1>3, <1>4, <1>5, <1>6, <1>7, CommandConcludes

\* The check of a commit: what is to be copied is what was reviewed, and the
\* owner has not touched it.
LEMMA CheckEffect ==
    ASSUME IInv, CarefulInv, NEW c \in Commands, ScanCandidate(c)
    PROVE  /\ Active(c) /\ CarefulInv' /\ UNCHANGED <<work, record, mine, reviewed>>
<1>1. Active(c)
  BY DEF Active, CmdEnded, ScanCandidate
<1>2. /\ cmd' \in [Commands -> CmdType] /\ UNCHANGED <<base, run, stray, ghosts>>
  BY CommandTyped, CommandDiskTyped DEF CommandAction, CommandStep, IInv
<1> USE CommandTurn, <1>1
<1>3. UNCHANGED <<work, view, record, mine, reviewed>>
  BY <1>2 DEF ScanCandidate
<1>4. /\ cmd[c].pc = "candidate" /\ cmd[c].kind = "commit" /\ record = "succeeded"
      /\ cmd[c].current = work /\ work = mine /\ view = reviewed
  BY DEF ScanCandidate, Informed, Installing, Removing
<1>5. /\ \A d \in Commands \ {c} : cmd'[d] = cmd[d]
      /\ cmd'[c].kind = "commit"
      /\ \/ cmd'[c].pc = "failed"
         \/ /\ cmd'[c].pc = "apply" /\ cmd'[c].cand = reviewed
            /\ cmd'[c].todo = Compare(Base, reviewed) /\ CanApply(Base, mine, reviewed)
  BY <1>4 DEF ScanCandidate, CmdType
<1>6. CanApply(Base, mine, reviewed) => \A p \in Compare(Base, reviewed) : mine[p] = Base[p]
  <2> SUFFICES ASSUME CanApply(Base, mine, reviewed), NEW p \in Compare(Base, reviewed)
               PROVE  mine[p] = Base[p]
    OBVIOUS
  <2>1. p \notin Compare(Base, mine) /\ p \in Paths
    BY CompareMember DEF CanApply, Conflicts
  <2> QED
    BY <2>1, CompareMember
<1>7. (Informed(c) /\ Placed(c))'
  BY <1>2, <1>3, <1>4, <1>5, <1>6 DEF Informed, Placed, Installing, Active, CmdEnded
<1>8. record' = "succeeded" /\ ~Removing(c)' => ~Removing(c) /\ view' = view
  BY <1>3, <1>4 DEF Removing
<1> QED
  BY <1>2, <1>3, <1>4, <1>5, <1>7, <1>8, CommandConcludes

\* One path copied or deleted: the reviewed entry, over the owner's own base.
LEMMA CopyEffect ==
    ASSUME IInv, CarefulInv, NEW c \in Commands, NEW p \in Paths, Install(c, p) \/ Delete(c, p)
    PROVE  /\ CarefulInv' /\ record = "succeeded"
           /\ reviewed[p] # Base[p] /\ mine[p] = Base[p]
           /\ work' = [work EXCEPT ![p] = reviewed[p]]
           /\ UNCHANGED <<record, mine, reviewed>>
<1>1. Active(c) /\ cmd[c].pc = "apply" /\ p \in cmd[c].todo
  BY DEF Active, CmdEnded, Install, Delete
<1>2. /\ cmd' \in [Commands -> CmdType] /\ UNCHANGED <<base, run, stray, ghosts>>
  BY CommandTyped, CommandDiskTyped DEF CommandAction, CommandStep, IInv
<1> USE CommandTurn, <1>1
<1>3. UNCHANGED <<view, record, mine, reviewed>>
  BY <1>2 DEF Install, Delete
<1>4. /\ cmd[c].kind = "commit" /\ record = "succeeded" /\ view = reviewed /\ cmd[c].cand = reviewed
      /\ cmd[c].todo \subseteq Compare(Base, reviewed) /\ Installing(c)
  BY DEF Informed, Removing, Installing
<1>5. reviewed[p] # Base[p] /\ mine[p] = Base[p]
  BY <1>4, CompareMember DEF Placed
<1>6. /\ cmd' = [cmd EXCEPT ![c].todo = @ \ {p}]
      /\ work' = [work EXCEPT ![p] = reviewed[p]]
  <2>1. CASE Install(c, p)
    BY <2>1, <1>4 DEF Install
  <2>2. CASE Delete(c, p)
    BY <2>2, <1>4 DEF Delete
  <2> QED
    BY <2>1, <2>2
<1>7. /\ \A d \in Commands \ {c} : cmd'[d] = cmd[d]
      /\ cmd'[c].pc = "apply" /\ cmd'[c].kind = "commit" /\ cmd'[c].cand = reviewed
      /\ cmd'[c].todo = cmd[c].todo \ {p}
  BY <1>4, <1>6 DEF CmdType
<1>8. work'[p] = reviewed[p] /\ \A q \in Paths \ {p} : work'[q] = work[q]
  BY <1>6 DEF Manifest
<1>9. Informed(c)'
  BY <1>3, <1>4, <1>7 DEF Informed, Installing
<1>10. Placed(c)'
  BY <1>2, <1>3, <1>4, <1>7, <1>8, CompareMember DEF Placed
<1>11. Installing(c)' /\ ~Removing(c)' /\ ~Removing(c)
  BY <1>7 DEF Installing, Removing
<1> QED
  BY <1>2, <1>3, <1>4, <1>5, <1>6, <1>7, <1>9, <1>10, <1>11, CommandConcludes

LEMMA RemoveEffect ==
    ASSUME IInv, CarefulInv, Careful, NEW c \in Commands, Remove(c)
    PROVE  /\ Active(c) /\ CarefulInv' /\ UNCHANGED <<work, record, mine, reviewed>>
<1>1. Active(c) /\ Removing(c) /\ cmd[c].pc = "remove"
  BY DEF Active, CmdEnded, Remove, Removing
<1>2. /\ cmd' \in [Commands -> CmdType] /\ UNCHANGED <<base, run, stray, ghosts>>
  BY CommandTyped, CommandDiskTyped DEF CommandAction, CommandStep, IInv
<1> USE CommandTurn, <1>1
<1>3. UNCHANGED <<work, record, mine, reviewed>>
  BY <1>2 DEF Remove
<1>4. cmd' = cmd \/ cmd' = [cmd EXCEPT ![c].pc = "event"]
  BY DEF Remove, Careful
<1>5. /\ \A d \in Commands \ {c} : cmd'[d] = cmd[d]
      /\ cmd'[c].kind = cmd[c].kind /\ cmd'[c].todo = cmd[c].todo /\ cmd'[c].pc \in {"remove", "event"}
  BY <1>4 DEF CmdType
<1>6. (Informed(c) /\ Placed(c) /\ Removing(c))'
  BY <1>2, <1>3, <1>5 DEF Informed, Placed, Installing, Active, CmdEnded, Removing
<1>7. Installing(c)' \/ work' = mine'
  BY <1>3, <1>5 DEF Installing
<1> QED
  BY <1>2, <1>3, <1>5, <1>6, <1>7, CommandConcludes

\* The last write of a command.
LEMMA OutcomeEffect ==
    ASSUME IInv, CarefulInv, Careful, NEW c \in Commands, WriteOutcome(c)
    PROVE  /\ CarefulInv' /\ UNCHANGED <<work, mine, reviewed>>
           /\ \/ /\ record = "succeeded" /\ record' = "committed"
                 /\ \A p \in Compare(Base, reviewed) : work[p] = reviewed[p]
              \/ record # "committed" /\ record' = "rolled_back" /\ work = mine
<1>1. Active(c) /\ Removing(c) /\ cmd[c].pc = "write"
  BY DEF Active, CmdEnded, WriteOutcome, Removing
<1>2. /\ cmd' \in [Commands -> CmdType] /\ UNCHANGED <<base, run, stray, ghosts>>
  BY CommandTyped, CommandDiskTyped DEF CommandAction, CommandStep, IInv
<1> USE CommandTurn, <1>1
<1>3. UNCHANGED <<work, mine, reviewed>> /\ record' = Outcome(c) /\ cmd' = [cmd EXCEPT ![c].pc = "ok"]
  BY <1>2 DEF WriteOutcome, PublishAll, Careful
<1>4. /\ \A d \in Commands \ {c} : cmd'[d] = cmd[d]
      /\ cmd'[c].kind = cmd[c].kind /\ cmd'[c].pc = "ok"
  BY <1>3 DEF CmdType
<1>5. /\ \/ /\ record = "succeeded" /\ record' = "committed"
            /\ \A p \in Compare(Base, reviewed) : work[p] = reviewed[p]
         \/ record # "committed" /\ record' = "rolled_back" /\ work = mine
  <2>1. CASE cmd[c].kind = "commit"
    BY <1>3, <2>1 DEF Outcome, Informed, Placed, Installing
  <2>2. CASE cmd[c].kind # "commit"
    BY <1>3, <2>2 DEF Outcome, Installing
  <2> QED
    BY <2>1, <2>2
<1>6. (~Active(c) /\ ~Installing(c) /\ ~Removing(c) /\ Informed(c) /\ Placed(c))'
  BY <1>4 DEF Informed, Placed, Installing, Active, CmdEnded, Removing
<1>7. record' \in {"committed", "rolled_back"} /\ (record' = "committed" \/ work' = mine')
  BY <1>3, <1>5
<1> QED
  BY <1>2, <1>3, <1>4, <1>5, <1>6, <1>7, CommandConcludes

\* A command that is issued.
LEMMA BeginEffect ==
    ASSUME IInv, CarefulInv, Careful, NEW c \in Commands, NEW kind \in {"rollback", "commit"},
           Begin(c, kind)
    PROVE  CarefulInv' /\ UNCHANGED <<work, record, mine, reviewed>>
<1>0. cmd \in [Commands -> CmdType] /\ cmd' \in [Commands -> CmdType]
  BY CommandTyped DEF IInv, TypeOK
<1>1. /\ UNCHANGED <<work, view, record, base, run, stray, mine, reviewed>>
      /\ ~RunActive /\ \A d \in Commands : ~Active(d)
      /\ record # "none"
  BY DEF Begin, Free, Careful
<1>2. /\ \A d \in Commands \ {c} : cmd'[d] = cmd[d]
      /\ cmd'[c].kind = kind
      /\ \/ cmd'[c].pc = "failed"
         \/ cmd'[c].pc = "attempt" /\ kind = "commit" /\ record = "succeeded"
         \/ cmd'[c].pc = "remove" /\ kind = "rollback" /\ record # "committed"
  BY <1>0 DEF Begin, CmdType
<1>3. \A d \in Commands : ~Installing(d) /\ ~Removing(d)
  BY <1>0, <1>1, IdleIsFine
<1>4. \A d \in Commands \ {c} : (~Active(d) /\ ~Installing(d) /\ ~Removing(d) /\ Informed(d) /\ Placed(d))'
  BY <1>0, <1>1, <1>2, IdleIsFine DEF Informed, Placed, Installing, Active, CmdEnded, Removing
<1>5. (Informed(c) /\ Placed(c) /\ ~Installing(c))'
  BY <1>1, <1>2 DEF Informed, Placed, Installing, Active, CmdEnded
<1>6. TurnInv'
  BY <1>1, <1>4 DEF CarefulInv, TurnInv, RunActive
<1>7. StageInv'
  BY <1>1 DEF CarefulInv, StageInv, RunActive, Working
<1>8. CommandInv'
  BY <1>4, <1>5 DEF CommandInv
<1>9. OfferInv'
  BY <1>1, <1>3, <1>4, <1>5 DEF CarefulInv, OfferInv
<1> QED
  BY <1>1, <1>6, <1>7, <1>8, <1>9 DEF CarefulInv

\* The agent and what it leaves behind, and a run that is killed.
LEMMA AgentEffect ==
    ASSUME IInv, CarefulInv, Careful,
           \/ RunKilled \/ StrayExits \/ \E ok \in BOOLEAN : AgentExits(ok)
           \/ \E p \in Paths, v \in AgentEntries \cup {NoEntry} : AgentWrites(p, v)
    PROVE  CarefulInv' /\ UNCHANGED <<work, record, mine, reviewed>>
<1>0. run \in RunType /\ cmd \in [Commands -> CmdType]
  BY DEF IInv, TypeOK
<1>1. UNCHANGED <<work, record, mine, reviewed, base, cmd>>
  BY DEF RunKilled, StrayExits, AgentExits, AgentWrites
<1>2. CommandInv'
  BY <1>1 DEF CarefulInv, CommandInv, Informed, Placed, Installing, Active
<1>3. \A c \in Commands : Active(c)' = Active(c) /\ Installing(c)' = Installing(c) /\ Removing(c)' = Removing(c)
  BY <1>1 DEF Active, Installing, Removing
<1>4. record # "succeeded" \/ view' = view
  <2>1. run.pc = "agent" \/ stray => record # "succeeded"
    BY DEF CarefulInv, TurnInv, StageInv, RunActive, RunEnded
  <2> QED
    BY <2>1 DEF RunKilled, StrayExits, AgentExits, AgentWrites
<1>5. OfferInv'
  BY <1>1, <1>3, <1>4 DEF CarefulInv, OfferInv
<1>6. TurnInv' /\ StageInv'
  <2> USE <1>0, <1>1, <1>3 DEF CarefulInv, TurnInv, StageInv, RunActive, RunEnded, Working, RunType
  <2>1. CASE RunKilled
    BY <2>1 DEF RunKilled
  <2>2. CASE StrayExits
    BY <2>2 DEF StrayExits
  <2>3. CASE \E ok \in BOOLEAN : AgentExits(ok)
    <3>1. run'.pc = "restore" /\ run'.next = run.next /\ run.pc = "agent" /\ ~stray'
      BY <2>3 DEF AgentExits, Careful
    <3> QED
      BY <3>1
  <2>4. CASE \E p \in Paths, v \in AgentEntries \cup {NoEntry} : AgentWrites(p, v)
    BY <2>4 DEF AgentWrites
  <2> QED
    BY <2>1, <2>2, <2>3, <2>4
<1> QED
  BY <1>1, <1>2, <1>5, <1>6 DEF CarefulInv

\* The owner edits only when no commit has looked at the workspace.
LEMMA EditEffect ==
    ASSUME IInv, CarefulInv, Careful, NEW p \in Paths, NEW v \in OwnerEntries \cup {NoEntry}, Edit(p, v)
    PROVE  /\ CarefulInv'
           /\ work' = [work EXCEPT ![p] = v] /\ mine' = [mine EXCEPT ![p] = v]
           /\ UNCHANGED <<record, reviewed>>
<1>0. cmd \in [Commands -> CmdType]
  BY DEF IInv, TypeOK
<1>1. /\ work' = [work EXCEPT ![p] = v] /\ mine' = [mine EXCEPT ![p] = v]
      /\ UNCHANGED <<view, record, base, run, stray, cmd, reviewed>>
      /\ run.pc \notin {"prepare", "base"}
      /\ \A c \in Commands : ~Committing(c)
  BY DEF Edit, Careful
<1>2. \A c \in Commands : ~Installing(c) /\ ~(cmd[c].pc = "candidate")
  BY <1>1 DEF Committing, Installing, CarefulInv, CommandInv, Informed
<1>3. \A c \in Commands : (Informed(c) /\ Placed(c))' /\ Active(c)' = Active(c)
                          /\ Installing(c)' = Installing(c) /\ Removing(c)' = Removing(c)
  BY <1>1, <1>2 DEF CarefulInv, CommandInv, Informed, Placed, Installing, Active, Removing
<1>4. TurnInv' /\ StageInv'
  BY <1>1, <1>3 DEF CarefulInv, TurnInv, StageInv, RunActive, Working
<1>5. CommandInv' /\ OfferInv'
  BY <1>1, <1>2, <1>3 DEF CarefulInv, CommandInv, OfferInv
<1> QED
  BY <1>1, <1>4, <1>5 DEF CarefulInv

-----------------------------------------------------------------------------
(* Careful use: the run is a transaction *)

\* A step of one command keeps the invariant and is a step of the transaction.
LEMMA CommandCareful ==
    ASSUME IInv, CarefulInv, Careful, NEW c \in Commands, CommandAction(c), UNCHANGED faults
    PROVE  CarefulInv' /\ [T!TNext]_(T!tvars)
<1> USE CarefulStays
<1>1. ASSUME UNCHANGED <<work, record, mine, reviewed>>
      PROVE  UNCHANGED T!tvars
  BY <1>1 DEF T!tvars, Phase
<1>2. CASE LogAttempt(c) \/ FindView(c) \/ ScanDestination(c) \/ Applied(c) \/ LogOutcome(c)
  BY <1>1, <1>2, QuietEffect
<1>3. CASE ScanCandidate(c)
  BY <1>1, <1>3, CheckEffect
<1>4. CASE Remove(c)
  BY <1>1, <1>4, RemoveEffect
<1>5. CASE CopyFails(c) \/ CommandKilled(c)
  BY <1>5 DEF CopyFails, CommandKilled, Careful
<1>6. ASSUME NEW p \in Paths, Install(c, p) \/ Delete(c, p)
      PROVE  CarefulInv' /\ [T!TNext]_(T!tvars)
  <2>1. T!Install(p)
    BY <1>6, CopyEffect DEF T!Install, Phase
  <2> QED
    BY <1>6, <2>1, CopyEffect DEF T!TNext
<1>7. CASE WriteOutcome(c)
  <2>1. CarefulInv' /\ UNCHANGED <<work, mine, reviewed>>
    BY <1>7, OutcomeEffect
  <2>2. CASE /\ record = "succeeded" /\ record' = "committed"
             /\ \A p \in Compare(Base, reviewed) : work[p] = reviewed[p]
    <3>1. \A p \in T!Compare(Base, reviewed) : work[p] = reviewed[p]
      BY <2>2 DEF Compare, Created, Modified, Deleted, T!Compare, T!Created, T!Modified, T!Deleted
    <3>2. T!Commit
      BY <2>1, <2>2, <3>1 DEF T!Commit, Phase
    <3> QED
      BY <2>1, <3>2 DEF T!TNext
  <2>3. CASE record # "committed" /\ record' = "rolled_back" /\ work = mine
    <3>1. T!Rollback \/ UNCHANGED T!tvars
      BY <2>1, <2>3 DEF T!Rollback, T!tvars, Phase
    <3> QED
      BY <2>1, <3>1 DEF T!TNext
  <2> QED
    BY <1>7, <2>2, <2>3, OutcomeEffect
<1> QED
  BY <1>2, <1>3, <1>4, <1>5, <1>6, <1>7 DEF CommandAction, CommandStep

\* A step of the run is a step of the transaction: it makes the offer, gives
\* it up, or cannot be seen.
LEMMA RunTransacts ==
    ASSUME IInv, CarefulInv, Careful, RunStep, UNCHANGED faults
    PROVE  [T!TNext]_(T!tvars)
<1> USE CarefulStays
<1>1. UNCHANGED <<work, mine>> /\ record' \in RecordStates /\ reviewed' \in Manifest
  BY RunDiskTyped DEF IInv
<1>2. record \in {"none", "prepared", "running"} /\ work = mine
  <2>1. record \in {"none", "prepared", "running"} /\ \A c \in Commands : ~Active(c)
    BY RunEffect DEF CarefulInv, StageInv, TurnInv
  <2> QED
    BY <2>1, IdleIsFine DEF CarefulInv, OfferInv, IInv, TypeOK
<1>3. CASE record' = "succeeded"
  <2>1. T!Offer(reviewed')
    BY <1>1, <1>2, <1>3 DEF T!Offer, Phase
  <2>2. reviewed' \in T!Manifest
    BY <1>1 DEF Manifest, T!Manifest
  <2> QED
    BY <2>1, <2>2 DEF T!TNext
<1>4. CASE record' # "succeeded"
  <2>1. reviewed' = reviewed /\ record' # "committed"
    BY <1>4, RunEffect
  <2>2. CASE record' \in {"failed", "discarded", "rolled_back"}
    <3>1. T!Rollback
      BY <1>1, <1>2, <2>1, <2>2 DEF T!Rollback, Phase
    <3> QED
      BY <3>1 DEF T!TNext
  <2>3. CASE record' \in {"none", "prepared", "running"}
    BY <1>1, <1>2, <2>1, <2>3 DEF T!tvars, Phase
  <2> QED
    BY <1>1, <1>4, <2>1, <2>2, <2>3 DEF RecordStates
<1> QED
  BY <1>3, <1>4

LEMMA CarefulNext ==
    ASSUME IInv, CarefulInv, Careful, [Next]_vars
    PROVE  CarefulInv' /\ [T!TNext]_(T!tvars)
<1>1. CASE UNCHANGED vars
  <2>1. CarefulInv'
    BY <1>1 DEF vars, CarefulInv, TurnInv, StageInv, CommandInv, Informed, Placed, OfferInv, RunActive,
                Active, Installing, Removing, Working
  <2> QED
    BY <1>1, <2>1 DEF vars, T!tvars, Phase, Careful
<1>2. CASE Next
  <2> USE <1>2, CarefulStays
  <2>1. UNCHANGED faults /\ Careful'
    BY DEF Next
  <2>2. ASSUME UNCHANGED <<work, record, mine, reviewed>>
        PROVE  UNCHANGED T!tvars
    BY <2>1, <2>2 DEF T!tvars, Phase
  <2>3. CASE RunStep
    BY <2>1, <2>3, RunCareful, RunTransacts
  <2>4. CASE \/ RunKilled \/ StrayExits \/ \E ok \in BOOLEAN : AgentExits(ok)
             \/ \E p \in Paths, v \in AgentEntries \cup {NoEntry} : AgentWrites(p, v)
    BY <2>2, <2>4, AgentEffect
  <2>5. CASE \E c \in Commands, kind \in {"rollback", "commit"} : Begin(c, kind)
    BY <2>2, <2>5, BeginEffect
  <2>6. CASE \E c \in Commands : CommandAction(c)
    BY <2>1, <2>6, CommandCareful
  <2>7. ASSUME NEW p \in Paths, NEW v \in OwnerEntries \cup {NoEntry}, Edit(p, v)
        PROVE  CarefulInv' /\ [T!TNext]_(T!tvars)
    <3>1. T!Edit(p, v)
      BY <2>1, <2>7, EditEffect DEF T!Edit, Phase
    <3>2. v \in Entries \cup {NoEntry}
      BY <2>7, Constants
    <3> QED
      BY <2>7, <3>1, <3>2, EditEffect DEF T!TNext
  <2> QED
    BY <2>3, <2>4, <2>5, <2>6, <2>7 DEF Next, Step, CommandAction
<1> QED
  BY <1>1, <1>2

\* In the other behaviours only the owner's edits are looked at.
LEMMA CarelessNext ==
    ASSUME IInv, ~Careful, [Next]_vars
    PROVE  [T!TNext]_(T!tvars)
<1>1. faults' = faults /\ ~Careful'
  BY DEF Next, vars, Careful
<1>2. ASSUME UNCHANGED mine
      PROVE  UNCHANGED T!tvars
  BY <1>1, <1>2 DEF T!tvars, EmptyManifest
<1>3. ASSUME NEW p \in Paths, NEW v \in OwnerEntries \cup {NoEntry}, Edit(p, v)
      PROVE  T!TNext
  <2>1. mine' = [mine EXCEPT ![p] = v]
    BY <1>3 DEF Edit
  <2>2. T!Edit(p, v)
    BY <1>1, <2>1 DEF T!Edit, EmptyManifest
  <2>3. v \in Entries \cup {NoEntry}
    BY Constants
  <2> QED
    BY <2>2, <2>3 DEF T!TNext
<1>4. CASE ~\E p \in Paths, v \in OwnerEntries \cup {NoEntry} : Edit(p, v)
  <2>1. UNCHANGED mine
    <3>1. CASE UNCHANGED vars
      BY <3>1 DEF vars
    <3>2. CASE RunStep
      BY <3>2, RunDiskTyped DEF IInv
    <3>3. ASSUME NEW c \in Commands, CommandAction(c)
          PROVE  UNCHANGED mine
      BY <3>3, CommandDiskTyped DEF IInv
    <3>4. CASE \/ RunKilled \/ StrayExits \/ \E ok \in BOOLEAN : AgentExits(ok)
               \/ \E p \in Paths, v \in AgentEntries \cup {NoEntry} : AgentWrites(p, v)
               \/ \E c \in Commands, kind \in {"rollback", "commit"} : Begin(c, kind)
      BY <3>4 DEF RunKilled, StrayExits, AgentExits, AgentWrites, Begin
    <3> QED
      BY <1>4, <3>1, <3>2, <3>3, <3>4 DEF Next, Step, CommandAction
  <2> QED
    BY <1>2, <2>1
<1> QED
  BY <1>3, <1>4

\* The native run with the commands that find it later is the transaction that
\* Linux runs are: its result is offered once, reaches the workspace only by a
\* commit, whole and never over the owner's own edits, and a rollback leaves
\* the workspace the owner's alone, wherever the run is killed and whichever of
\* its own writes and removals fail.
THEOREM NativeRunIsTransaction == Spec => ImplementsTransaction
<1>1. Init => T!TInit
  BY DEF Init, T!TInit, Phase, EmptyManifest, T!EmptyManifest
<1> DEFINE J == IInv /\ (Careful => CarefulInv)
<1>2. Init => J
  BY InitInv, CarefulInit
<1>3. J /\ [Next]_vars => J' /\ [T!TNext]_(T!tvars)
  <2> SUFFICES ASSUME J, [Next]_vars PROVE J' /\ [T!TNext]_(T!tvars)
    OBVIOUS
  <2>1. IInv'
    BY NextInv
  <2>2. Careful' <=> Careful
    BY DEF Next, vars, Careful
  <2> QED
    BY <2>1, <2>2, CarefulNext, CarelessNext
<1>4. Spec => [][T!TNext]_(T!tvars)
  <2> HIDE DEF J
  <2> QED
    BY <1>2, <1>3, PTL DEF Spec
<1> QED
  BY <1>1, <1>4, PTL DEF Spec, ImplementsTransaction, T!TSpec
=============================================================================
