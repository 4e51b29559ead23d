------------------------------ MODULE NativeRun ------------------------------
(***************************************************************************)
(* One run of the macOS backend: `rewind native run`, which clones the     *)
(* workspace into a disposable runtime directory, hides what the policy    *)
(* denies, lets the agent work in the clone and then discards it or keeps  *)
(* it for review; and `rewind native rollback` and `rewind native commit`, *)
(* from the command line or through the supervisor, which find the run     *)
(* through its record.                                                     *)
(*                                                                         *)
(* There is no overlay, no cgroup and no lock here: everything is a        *)
(* directory that any of these processes may remove, one entry after the   *)
(* other, while another one reads it.                                      *)
(***************************************************************************)
EXTENDS Manifests, Naturals

CONSTANTS
    Base,          \* the workspace when the run starts
    AgentEntries,  \* what the agent writes
    OwnerEntries,  \* what the owner of the workspace writes
    Denied,        \* paths that the read policy or the PII scan denies
    ReadRoots,     \* places under a directory of --runtime-roots
    FixedRoots,    \* places under a directory that every profile may read
    OnSuccess,     \* the values that --on-success may have
    Commands,      \* invocations of rollback, recover or commit
    FaultSets,     \* the combinations of faults to consider
    MaxEdits       \* bound on the owner's edits

Places == {"view", "runtime", "workspace", "system"}

\* early and late: the owner edits between the clone and the base manifest,
\* or while a commit is under way.  kill: a process is killed.  remove,
\* write, copy: RemoveAll, a write of record or journal, or a copy reports an
\* error.  stray: a descendant of the agent outlives it.  overlap: a command
\* is issued while the run or another command is under way.
FaultKinds == {"edit_early", "edit_late", "kill_run", "kill_command",
               "remove_run", "remove_command", "write_run", "write_command",
               "copy", "stray", "overlap"}

ASSUME NativeAssumption ==
    /\ Base \in Manifest
    /\ AgentEntries \subseteq Entries /\ OwnerEntries \subseteq Entries
    /\ Denied \subseteq Paths
    /\ ReadRoots \subseteq Places /\ FixedRoots \subseteq Places
    /\ OnSuccess \subseteq {"discard", "review"}
    /\ FaultSets \subseteq SUBSET FaultKinds
    /\ MaxEdits \in Nat

VARIABLES
    \* ---- on disk
    work,      \* the workspace
    staged,    \* does the view directory exist?
    view,      \* what the view directory holds
    hidden,    \* what was moved to the hidden directory of the runtime root
    record,    \* State in the run record; "none" before it is written
    base,      \* BaseManifest in the run record
    index,     \* this run's state in the history index
    events,    \* operations in the event journal beside the record
    \* ---- processes
    run,       \* handleNativeRun
    stray,     \* does a process of the agent live that nobody waits for?
    cmd,       \* one record per invocation of a command
    \* ---- history variables: read by properties, never by guards
    mine,      \* the tree as the owner alone would have made it
    reviewed,  \* the candidate whose diff is in a record that says succeeded
    edits,     \* number of edits so far
    \* ---- what may go wrong in this behaviour: never changes
    faults

runtime == <<staged, view, hidden>>
journal == <<record, base, index>>
ghosts  == <<mine, reviewed, edits>>
vars    == <<work, runtime, journal, events, run, stray, cmd, ghosts, faults>>

-----------------------------------------------------------------------------
(* Types *)

RecordStates == {"none", "prepared", "running", "succeeded", "failed",
                 "discarded", "rolled_back", "committed"}
Operations == {"prepare", "read_policy", "execve", "exit",
               "commit_attempt", "commit", "rollback"}

RunSteps == {"prepare", "base", "record", "deny", "hide", "agent", "restore",
             "exit", "discard", "write"}
RunEnded == {"done", "killed"}
\* next: the state that the record gets when the runtime has been removed,
\* or "none" when the process ends with an error and leaves the record alone.
RunType == [pc : RunSteps \cup RunEnded, denied : SUBSET Paths, todo : SUBSET Paths,
            ok : BOOLEAN, after : Manifest,
            next : {"none", "failed", "discarded", "succeeded"}]

CmdSteps == {"idle", "attempt", "stage", "destination", "candidate", "apply",
             "remove", "event", "write"}
CmdEnded == {"ok", "failed", "killed"}
CmdType == [pc : CmdSteps \cup CmdEnded, kind : {"rollback", "commit"},
            current : Manifest, cand : Manifest, todo : SUBSET Paths]

TypeOK ==
    /\ work \in Manifest
    /\ staged \in BOOLEAN /\ view \in Manifest /\ hidden \in Manifest
    /\ record \in RecordStates /\ base \in Manifest /\ index \in RecordStates
    /\ events \subseteq Operations
    /\ run \in RunType /\ stray \in BOOLEAN
    /\ cmd \in [Commands -> CmdType]
    /\ mine \in Manifest /\ reviewed \in Manifest /\ edits \in 0..MaxEdits
    /\ faults \in FaultSets

-----------------------------------------------------------------------------
(* Helpers *)

Active(c) == cmd[c].pc \notin CmdEnded \cup {"idle"}
RunActive == run.pc \notin RunEnded

\* A commit has read the destination and is not finished: what the owner
\* writes now, the conflict check has not seen.
Committing(c) ==
    cmd[c].kind = "commit" /\ cmd[c].pc \in {"candidate", "apply", "remove", "event", "write"}

\* What the Seatbelt profile lets the agent read besides its view: the roots
\* of the operating system and the configured ones.
Readable == FixedRoots \cup ReadRoots \cup {"view"}

\* What the agent finds at a path, in whatever place it may read.
Seen(p) == {view[p]} \cup (IF "runtime" \in Readable THEN {hidden[p]} ELSE {})
                     \cup (IF "workspace" \in Readable THEN {work[p]} ELSE {})

Init ==
    /\ work = Base /\ mine = Base
    /\ staged = FALSE /\ view = EmptyManifest /\ hidden = EmptyManifest
    /\ record = "none" /\ base = EmptyManifest /\ index = "none"
    /\ events = {}
    /\ run = [pc |-> "prepare", denied |-> {}, todo |-> {}, ok |-> FALSE,
              after |-> EmptyManifest, next |-> "none"]
    /\ stray = FALSE
    /\ cmd = [c \in Commands |-> [pc |-> "idle", kind |-> "rollback",
                 current |-> EmptyManifest, cand |-> EmptyManifest, todo |-> {}]]
    /\ reviewed = EmptyManifest /\ edits = 0
    /\ faults \in FaultSets

\* writeNativeRecordWithHistory: the record by an atomic rename, then the
\* index.  On an error the record may have been replaced or not.
PublishAll(state) == record' = state /\ index' = state
PublishPart(state) == record' \in {record, state} /\ UNCHANGED index

Log(operation) == events' = events \cup {operation}

\* os.RemoveAll of the runtime root: entries first, the view directory last.
RemoveEntry(p) ==
    /\ view[p] # NoEntry \/ hidden[p] # NoEntry
    /\ view' = [view EXCEPT ![p] = NoEntry]
    /\ hidden' = [hidden EXCEPT ![p] = NoEntry]
    /\ UNCHANGED staged
RemoveRoot ==
    /\ view = EmptyManifest /\ hidden = EmptyManifest
    /\ staged' = FALSE
    /\ UNCHANGED <<view, hidden>>

-----------------------------------------------------------------------------
(* rewind native run *)

\* The policy is refused, or nothing can be cloned: nothing is left behind.
RefuseRun ==
    /\ run.pc = "prepare"
    /\ run' = [run EXCEPT !.pc = "done"]
    /\ UNCHANGED <<work, runtime, journal, events, stray, cmd, ghosts>>

\* A root that overlaps the workspace is refused, then the clone is made.
PrepareAt ==
    /\ run.pc = "prepare"
    /\ "workspace" \notin ReadRoots
    /\ staged' = TRUE /\ view' = work
    /\ run' = [run EXCEPT !.pc = "base"]
    /\ UNCHANGED <<work, hidden, journal, events, stray, cmd, ghosts>>

\* The base manifest is built from the workspace, not from the clone.
BuildBase ==
    /\ run.pc = "base"
    /\ base' = work
    /\ run' = [run EXCEPT !.pc = "record"]
    /\ UNCHANGED <<work, runtime, record, index, events, stray, cmd, ghosts>>

WritePrepared ==
    /\ run.pc = "record"
    /\ \/ /\ PublishAll("prepared")
          /\ Log("prepare")
          /\ run' = [run EXCEPT !.pc = "deny"]
       \/ /\ "write_run" \in faults
          /\ PublishPart("prepared")
          /\ UNCHANGED events
          /\ run' = [run EXCEPT !.pc = "discard"]
    /\ UNCHANGED <<work, runtime, base, stray, cmd, ghosts>>

nativeDenyPaths == {p \in Denied : view[p] # NoEntry}

DenyPaths ==
    /\ run.pc = "deny" /\ staged
    /\ run' = [run EXCEPT !.pc = "hide", !.denied = nativeDenyPaths, !.todo = nativeDenyPaths]
    /\ events' = IF nativeDenyPaths = {} THEN events ELSE events \cup {"read_policy"}
    /\ UNCHANGED <<work, runtime, journal, stray, cmd, ghosts>>

\* A path that is gone is skipped.
Hide(p) ==
    /\ run.pc = "hide" /\ p \in run.todo
    /\ IF view[p] = NoEntry
       THEN UNCHANGED runtime
       ELSE /\ hidden' = [hidden EXCEPT ![p] = view[p]]
            /\ view' = [view EXCEPT ![p] = NoEntry]
            /\ UNCHANGED staged
    /\ run' = [run EXCEPT !.todo = @ \ {p}]
    /\ UNCHANGED <<work, journal, events, stray, cmd, ghosts>>

\* A mutant of Launch: the agent starts while paths are still being hidden.
Mut_Launch ==
    /\ run.pc = "hide"
    /\ PublishAll("running") /\ Log("execve")
    /\ run' = [run EXCEPT !.pc = "agent"]
    /\ UNCHANGED <<work, runtime, base, stray, cmd, ghosts>>

\* The record and the journal are written without looking at the outcome.
Launch ==
    /\ run.pc = "hide" /\ run.todo = {}
    /\ \/ PublishAll("running")
       \/ "write_run" \in faults /\ PublishPart("running")
    /\ Log("execve")
    /\ run' = [run EXCEPT !.pc = "agent"]
    /\ UNCHANGED <<work, runtime, base, stray, cmd, ghosts>>

\* What Seatbelt lets a process of the agent write: its view.
AgentWrites(p, v) ==
    /\ run.pc = "agent" \/ stray
    /\ staged
    /\ view[p] # v
    /\ view' = [view EXCEPT ![p] = v]
    /\ UNCHANGED <<work, staged, hidden, journal, events, run, stray, cmd, ghosts>>

\* child.Run waits for the process it started, not for its descendants.
AgentExits(ok) ==
    /\ run.pc = "agent"
    /\ run' = [run EXCEPT !.pc = "restore", !.ok = ok, !.todo = run.denied]
    /\ stray' \in BOOLEAN /\ (stray' => "stray" \in faults)
    /\ UNCHANGED <<work, runtime, journal, events, cmd, ghosts>>

StrayExits ==
    /\ stray /\ stray' = FALSE
    /\ UNCHANGED <<work, runtime, journal, events, run, cmd, ghosts>>

\* What the agent put in place of a hidden path is removed.
Restore(p) ==
    /\ run.pc = "restore" /\ p \in run.todo
    /\ IF hidden[p] = NoEntry
       THEN UNCHANGED runtime
       ELSE /\ view' = [view EXCEPT ![p] = hidden[p]]
            /\ hidden' = [hidden EXCEPT ![p] = NoEntry]
            /\ UNCHANGED staged
    /\ run' = [run EXCEPT !.todo = @ \ {p}]
    /\ UNCHANGED <<work, journal, events, stray, cmd, ghosts>>

Restored ==
    /\ run.pc = "restore" /\ run.todo = {}
    /\ run' = [run EXCEPT !.pc = "exit"]
    /\ UNCHANGED <<work, runtime, journal, events, stray, cmd, ghosts>>

\* A failed agent is discarded; the candidate of a successful one is
\* discarded or kept, as --on-success says.
AfterFailure ==
    /\ run.pc = "exit" /\ ~run.ok
    /\ Log("exit")
    /\ run' = [run EXCEPT !.pc = "discard", !.next = "failed"]
    /\ UNCHANGED <<work, runtime, journal, stray, cmd, ghosts>>

AfterSuccess(outcome) ==
    /\ run.pc = "exit" /\ run.ok /\ staged
    /\ IF outcome = "review"
       THEN /\ Log("exit")
            /\ run' = [run EXCEPT !.pc = "write", !.next = "succeeded", !.after = view]
       ELSE /\ UNCHANGED events
            /\ run' = [run EXCEPT !.pc = "discard", !.next = "discarded", !.after = view]
    /\ UNCHANGED <<work, runtime, journal, stray, cmd, ghosts>>

\* A mutant of Abort: an error ends the process and leaves the runtime.
Mut_Abort ==
    /\ run.pc \in {"base", "record", "deny", "hide", "restore", "exit"}
    /\ run' = [run EXCEPT !.pc = "done"]
    /\ UNCHANGED <<work, runtime, journal, events, stray, cmd, ghosts>>

\* Any other error on the way discards the transaction and ends the process.
Abort ==
    /\ run.pc \in {"base", "record", "deny", "hide", "restore", "exit"}
    /\ run' = [run EXCEPT !.pc = "discard", !.next = "none"]
    /\ UNCHANGED <<work, runtime, journal, events, stray, cmd, ghosts>>

\* MacOSTransaction.Discard, one entry at a time.
Discard ==
    /\ run.pc = "discard"
    /\ \/ \E p \in Paths : RemoveEntry(p) /\ UNCHANGED <<events, run>>
       \/ /\ RemoveRoot
          /\ IF run.next = "discarded" THEN Log("exit") ELSE UNCHANGED events
          /\ run' = [run EXCEPT !.pc = IF run.next = "none" THEN "done" ELSE "write"]
       \/ /\ "remove_run" \in faults
          /\ UNCHANGED <<runtime, events>>
          /\ run' = [run EXCEPT !.pc = IF run.next = "failed" THEN "write" ELSE "done"]
    /\ UNCHANGED <<work, journal, stray, cmd, ghosts>>

WriteFinal ==
    /\ run.pc = "write"
    /\ \/ PublishAll(run.next)
       \/ "write_run" \in faults /\ PublishPart(run.next)
    /\ reviewed' = IF record' = "succeeded" THEN run.after ELSE reviewed
    /\ run' = [run EXCEPT !.pc = "done"]
    /\ UNCHANGED <<work, runtime, base, events, stray, cmd, mine, edits>>

\* The agent is not tied to the life of the process that started it.
RunKilled ==
    /\ "kill_run" \in faults /\ RunActive
    /\ run' = [run EXCEPT !.pc = "killed"]
    /\ stray' = (stray \/ run.pc = "agent")
    /\ UNCHANGED <<work, runtime, journal, events, cmd, ghosts>>

RunStep ==
    \/ RefuseRun \/ PrepareAt \/ BuildBase \/ WritePrepared \/ DenyPaths
    \/ \E p \in Paths : Hide(p) \/ Restore(p)
    \/ Launch \/ Restored \/ AfterFailure \/ Abort \/ Discard \/ WriteFinal
    \/ \E outcome \in OnSuccess : AfterSuccess(outcome)

-----------------------------------------------------------------------------
(* rewind native rollback and commit, and the same through the supervisor *)

\* A person issues a command when nothing else is under way, unless "overlap".
Free == "overlap" \in faults \/ (~RunActive /\ \A c \in Commands : ~Active(c))

\* A mutant of Begin: a committed run can be rolled back.
Mut_Begin(c, kind) ==
    /\ cmd[c].pc = "idle" /\ Free
    /\ record # "none"
    /\ LET refused == kind = "commit" /\ record # "succeeded"
           first == IF kind = "commit" THEN "attempt" ELSE "remove"
       IN cmd' = [cmd EXCEPT ![c].kind = kind, ![c].pc = IF refused THEN "failed" ELSE first]
    /\ UNCHANGED <<work, runtime, journal, events, run, stray, ghosts>>

\* A command reads the record once.  A rollback is refused only for a
\* committed run, a commit for everything but a succeeded one.
Begin(c, kind) ==
    /\ cmd[c].pc = "idle" /\ Free
    /\ record # "none"
    /\ LET refused == IF kind = "commit" THEN record # "succeeded" ELSE record = "committed"
           first == IF kind = "commit" THEN "attempt" ELSE "remove"
       IN cmd' = [cmd EXCEPT ![c].kind = kind, ![c].pc = IF refused THEN "failed" ELSE first]
    /\ UNCHANGED <<work, runtime, journal, events, run, stray, ghosts>>

LogAttempt(c) ==
    /\ cmd[c].pc = "attempt"
    /\ \/ /\ Log("commit_attempt")
          /\ cmd' = [cmd EXCEPT ![c].pc = "stage"]
       \/ /\ "write_command" \in faults
          /\ UNCHANGED events
          /\ cmd' = [cmd EXCEPT ![c].pc = "failed"]
    /\ UNCHANGED <<work, runtime, journal, run, stray, ghosts>>

\* AcceptMacOSRuntime refuses when the view directory is gone.
FindView(c) ==
    /\ cmd[c].pc = "stage"
    /\ cmd' = [cmd EXCEPT ![c].pc = IF staged THEN "destination" ELSE "failed"]
    /\ UNCHANGED <<work, runtime, journal, events, run, stray, ghosts>>

\* MacOSTransaction.Accept: the destination is scanned, then the candidate,
\* and they are compared with the base manifest of the record.
ScanDestination(c) ==
    /\ cmd[c].pc = "destination"
    /\ cmd' = [cmd EXCEPT ![c].pc = "candidate", ![c].current = work]
    /\ UNCHANGED <<work, runtime, journal, events, run, stray, ghosts>>

ScanCandidate(c) ==
    /\ cmd[c].pc = "candidate"
    /\ cmd' = IF staged /\ CanApply(base, cmd[c].current, view)
              THEN [cmd EXCEPT ![c].pc = "apply", ![c].cand = view,
                               ![c].todo = Compare(base, view)]
              ELSE [cmd EXCEPT ![c].pc = "failed"]
    /\ UNCHANGED <<work, runtime, journal, events, run, stray, ghosts>>

\* A copy takes what the view holds now, not what was scanned.
Install(c, p) ==
    /\ cmd[c].pc = "apply" /\ p \in cmd[c].todo /\ cmd[c].cand[p] # NoEntry
    /\ IF view[p] = NoEntry
       THEN /\ cmd' = [cmd EXCEPT ![c].pc = "failed"]
            /\ UNCHANGED work
       ELSE /\ cmd' = [cmd EXCEPT ![c].todo = @ \ {p}]
            /\ work' = [work EXCEPT ![p] = view[p]]
    /\ UNCHANGED <<runtime, journal, events, run, stray, ghosts>>

\* Deletions come after every copy.
Delete(c, p) ==
    /\ cmd[c].pc = "apply" /\ p \in cmd[c].todo
    /\ \A q \in cmd[c].todo : cmd[c].cand[q] = NoEntry
    /\ cmd' = [cmd EXCEPT ![c].todo = @ \ {p}]
    /\ work' = [work EXCEPT ![p] = NoEntry]
    /\ UNCHANGED <<runtime, journal, events, run, stray, ghosts>>

CopyFails(c) ==
    /\ "copy" \in faults /\ cmd[c].pc = "apply" /\ cmd[c].todo # {}
    /\ cmd' = [cmd EXCEPT ![c].pc = "failed"]
    /\ UNCHANGED <<work, runtime, journal, events, run, stray, ghosts>>

Applied(c) ==
    /\ cmd[c].pc = "apply" /\ cmd[c].todo = {}
    /\ cmd' = [cmd EXCEPT ![c].pc = "remove"]
    /\ UNCHANGED <<work, runtime, journal, events, run, stray, ghosts>>

\* A mutant of Remove: an error of RemoveAll is ignored.
Mut_Remove(c) ==
    /\ cmd[c].pc = "remove"
    /\ \/ \E p \in Paths : RemoveEntry(p) /\ UNCHANGED cmd
       \/ RemoveRoot /\ cmd' = [cmd EXCEPT ![c].pc = "event"]
       \/ /\ "remove_command" \in faults
          /\ UNCHANGED runtime
          /\ cmd' = [cmd EXCEPT ![c].pc = "event"]
    /\ UNCHANGED <<work, journal, events, run, stray, ghosts>>

\* DiscardMacOSRuntime, and the cleanup at the end of Accept.
Remove(c) ==
    /\ cmd[c].pc = "remove"
    /\ \/ \E p \in Paths : RemoveEntry(p) /\ UNCHANGED cmd
       \/ RemoveRoot /\ cmd' = [cmd EXCEPT ![c].pc = "event"]
       \/ /\ "remove_command" \in faults
          /\ UNCHANGED runtime
          /\ cmd' = [cmd EXCEPT ![c].pc = "failed"]
    /\ UNCHANGED <<work, journal, events, run, stray, ghosts>>

LogOutcome(c) ==
    /\ cmd[c].pc = "event"
    /\ \/ /\ Log(cmd[c].kind)
          /\ cmd' = [cmd EXCEPT ![c].pc = "write"]
       \/ /\ "write_command" \in faults
          /\ UNCHANGED events
          /\ cmd' = [cmd EXCEPT ![c].pc = "failed"]
    /\ UNCHANGED <<work, runtime, journal, run, stray, ghosts>>

Outcome(c) == IF cmd[c].kind = "commit" THEN "committed" ELSE "rolled_back"

WriteOutcome(c) ==
    /\ cmd[c].pc = "write"
    /\ \/ /\ PublishAll(Outcome(c))
          /\ cmd' = [cmd EXCEPT ![c].pc = "ok"]
       \/ /\ "write_command" \in faults
          /\ PublishPart(Outcome(c))
          /\ cmd' = [cmd EXCEPT ![c].pc = "failed"]
    /\ UNCHANGED <<work, runtime, base, events, run, stray, ghosts>>

CommandKilled(c) ==
    /\ "kill_command" \in faults /\ Active(c)
    /\ cmd' = [cmd EXCEPT ![c].pc = "killed"]
    /\ UNCHANGED <<work, runtime, journal, events, run, stray, ghosts>>

CommandStep(c) ==
    \/ LogAttempt(c) \/ FindView(c) \/ ScanDestination(c) \/ ScanCandidate(c)
    \/ \E p \in Paths : Install(c, p) \/ Delete(c, p)
    \/ Applied(c) \/ Remove(c) \/ LogOutcome(c) \/ WriteOutcome(c)

-----------------------------------------------------------------------------
(* The owner works in the workspace all the time.  Edits before the clone  *)
(* are another initial state.                                              *)

Edit(p, v) ==
    /\ edits < MaxEdits /\ edits' = edits + 1
    /\ run.pc # "prepare"
    /\ run.pc = "base" => "edit_early" \in faults
    /\ (\E c \in Commands : Committing(c)) => "edit_late" \in faults
    /\ work[p] # v
    /\ work' = [work EXCEPT ![p] = v]
    /\ mine' = [mine EXCEPT ![p] = v]
    /\ UNCHANGED <<runtime, journal, events, run, stray, cmd, reviewed>>

Step ==
    \/ RunStep \/ RunKilled \/ StrayExits
    \/ \E ok \in BOOLEAN : AgentExits(ok)
    \/ \E p \in Paths, v \in AgentEntries \cup {NoEntry} : AgentWrites(p, v)
    \/ \E c \in Commands, kind \in {"rollback", "commit"} : Begin(c, kind)
    \/ \E c \in Commands : CommandStep(c) \/ CopyFails(c) \/ CommandKilled(c)
    \/ \E p \in Paths, v \in OwnerEntries \cup {NoEntry} : Edit(p, v)

Next == Step /\ UNCHANGED faults

\* Every process runs on, and the agent ends at some time: its user ends it.
Fairness ==
    /\ WF_vars(RunStep /\ UNCHANGED faults)
    /\ WF_vars((\E ok \in BOOLEAN : AgentExits(ok)) /\ UNCHANGED faults)
    /\ WF_vars(StrayExits /\ UNCHANGED faults)

Spec == Init /\ [][Next]_vars /\ Fairness

-----------------------------------------------------------------------------
(* Properties *)

\* What a rollback has discarded, a successful run has thrown away or a
\* commit has used up is gone when the record says so, whoever else was at
\* work: a later commit finds no view to apply.
EndedLeavesNothing ==
    record \in {"discarded", "rolled_back", "committed"} => ~staged

\* While the agent runs, it finds at a denied path only what it has put there
\* itself, unless a directory it may read holds the runtime root or the
\* workspace.
SensitiveHidden ==
    run.pc = "agent" /\ {"runtime", "workspace"} \cap Readable = {}
      => \A p \in Denied : Seen(p) \subseteq AgentEntries \cup {NoEntry}

\* A run that is not killed, and whose writes and removals succeed, ends with
\* its candidate discarded or offered for review, on every one of its paths.
RunSettles ==
    (run.pc = "base" /\ faults \cap {"write_run", "remove_run"} = {})
      ~> (~staged \/ record = "succeeded" \/ run.pc = "killed")

\* Nobody but the run and one command after the other is at work, and no
\* command ends half way.
Careful == faults \subseteq {"kill_run", "write_run", "remove_run"}

Phase == CASE record = "succeeded" -> "offered"
           [] record = "committed" -> "committed"
           [] record \in {"failed", "discarded", "rolled_back"} -> "rolled_back"
           [] OTHER -> "open"

T == INSTANCE Transaction
       WITH phase <- IF Careful THEN Phase ELSE "open",
            work  <- IF Careful THEN work ELSE mine,
            mine  <- mine,
            offer <- IF Careful THEN reviewed ELSE EmptyManifest

\* The native run is the same transaction as the Linux run in every careful
\* behaviour; of the others, only the owner's edits are looked at.
ImplementsTransaction == T!TSpec
=============================================================================
