------------------------------- MODULE History -------------------------------
(***************************************************************************)
(* The index of runs (internal/history) and its writers: run processes,    *)
(* the action and prune handlers of a supervisor.  Every writer reads the  *)
(* file, changes its copy and replaces the file; nothing keeps two of them *)
(* apart.                                                                  *)
(***************************************************************************)
EXTENDS ReplacedFile, SequencesExt

CONSTANTS
    Runs,
    Writers,
    Inodes,   \* enough for the file, its .tmp and one inode per writer
    Keeps     \* values of --keep

ASSUME HistoryAssumption ==
    /\ Runs \subseteq Writers /\ IsFiniteSet(Writers) /\ Keeps \subseteq Nat
    /\ IsFiniteSet(Inodes) /\ NoInode \notin Inodes
    /\ Cardinality(Inodes) >= Cardinality(Writers) + 2

VARIABLES
    hist,        \* the file and its .tmp
    writer,      \* the writers: step, what they want, their copy, their inode
    overlapped,  \* history: has a writer read the file before another was done?
    reported,    \* history: the state of each run that its last writer reported
    faults       \* "write": a write may fail, "kill": a process may be killed; never changes

historyVars == <<hist, writer, overlapped, reported>>

RunStates == {"preparing", "running", "succeeded", "failed", "committed", "rolled_back"}
Unlisted == "unlisted"

Entry == [run : Runs, state : RunStates]
Upserts == [op : {"upsert"}, run : Runs, state : RunStates]
Prunes == [op : {"prune"}, keep : Nat]
NoJob == [op |-> "none"]

Writer == [at : {"idle", "list", "open", "write", "rename", "done", "failed", "killed"},
           job : Upserts \cup Prunes \cup {NoJob}, entries : Seq(Entry), inode : Inodes \cup {NoInode}]

Idle == [at |-> "idle", job |-> NoJob, entries |-> <<>>, inode |-> NoInode]

HistoryTypeOK ==
    /\ hist \in Dirs(Inodes, Seq(Entry))
    /\ writer \in [Writers -> Writer]
    /\ overlapped \in BOOLEAN
    /\ reported \in [Runs -> RunStates \cup {Unlisted}]
    /\ faults \subseteq {"write", "kill"}

Writing(w) == writer[w].at \in {"open", "write", "rename"}

-----------------------------------------------------------------------------
(* Store *)

Entries == ValueOf(hist, <<>>)

Without(entries, run) ==
    LET old == {i \in DOMAIN entries : entries[i].run = run} IN
    IF old = {} THEN entries ELSE RemoveAt(entries, CHOOSE i \in old : \A j \in old : i <= j)

\* The first entry of the run is replaced.  List sorts by the time at which a run
\* changed, which may be before that of an entry written earlier: the new entry
\* may come anywhere.
Upserted(entries, run, state) ==
    LET others == Without(entries, run)
    IN {InsertAt(others, i, [run |-> run, state |-> state]) : i \in 1..(Len(others) + 1)}

Pruned(entries, keep) == IF Len(entries) <= keep THEN entries ELSE SubSeq(entries, 1, keep)

Results(job, entries) == IF job.op = "prune" THEN {Pruned(entries, job.keep)}
                         ELSE Upserted(entries, job.run, job.state)

NothingToDo(w) == writer[w].job.op = "prune" /\ Len(Entries) <= writer[w].job.keep

\* The caller starts a writer.
Began(job) == [Idle EXCEPT !.at = "list", !.job = job]

ToStep(w, step) == writer' = [writer EXCEPT ![w].at = step]

List(w) ==
    /\ writer[w].at = "list"
    /\ \/ ~Decodes(hist) /\ ToStep(w, "failed") /\ UNCHANGED overlapped
       \/ Decodes(hist) /\ NothingToDo(w) /\ ToStep(w, "done") /\ UNCHANGED overlapped
       \/ /\ Decodes(hist) /\ ~NothingToDo(w)
          /\ \E result \in Results(writer[w].job, Entries) :
               writer' = [writer EXCEPT ![w].at = "open", ![w].entries = result]
          /\ overlapped' = (overlapped \/ \E v \in Writers : Writing(v))
    /\ UNCHANGED <<hist, reported>>

InUse == {hist.file, hist.tmp} \cup {writer[v].inode : v \in Writers}

OpenTmp(w) ==
    /\ writer[w].at = "open"
    /\ LET new == CHOOSE i \in Inodes : i \notin InUse IN
         /\ hist' = Opened(hist, new)
         /\ writer' = [writer EXCEPT ![w].at = "write", ![w].inode = OpenedInode(hist, new)]
    /\ UNCHANGED <<overlapped, reported>>

WriteTmp(w) ==
    /\ writer[w].at = "write"
    /\ hist' \in Written(hist, writer[w].inode, writer[w].entries)
    /\ ToStep(w, "rename")
    /\ UNCHANGED <<overlapped, reported>>

Listing(entries) ==
    [r \in Runs |-> IF \E i \in DOMAIN entries : entries[i].run = r THEN reported[r] ELSE Unlisted]

Rename(w) ==
    /\ writer[w].at = "rename"
    /\ \/ /\ ~CanRename(hist)
          /\ writer' = [writer EXCEPT ![w].at = "failed", ![w].inode = NoInode]
          /\ UNCHANGED <<hist, reported>>
       \/ /\ CanRename(hist)
          /\ writer' = [writer EXCEPT ![w].at = "done", ![w].inode = NoInode]
          /\ hist' = Renamed(hist)
          /\ reported' = IF writer[w].job.op = "prune" THEN Listing(writer[w].entries)
                         ELSE [reported EXCEPT ![writer[w].job.run] = writer[w].job.state]
    /\ UNCHANGED overlapped

\* The disk is full: the .tmp is left with a part of the value or not at all.
WriteFails(w) ==
    /\ "write" \in faults /\ Writing(w)
    /\ writer' = [writer EXCEPT ![w].at = "failed", ![w].inode = NoInode]
    /\ UNCHANGED <<hist, overlapped, reported>>

WriterStep(w) == List(w) \/ OpenTmp(w) \/ WriteTmp(w) \/ Rename(w) \/ WriteFails(w)

Stopped(w) == IF writer[w].at \in {"list"} \/ Writing(w)
              THEN [writer[w] EXCEPT !.at = "killed", !.inode = NoInode] ELSE writer[w]

-----------------------------------------------------------------------------
(* Properties *)

\* The index can be read and holds, for every run, the state that its last
\* writer reported, wherever writers are killed and whatever writes fail; as
\* long as no writer has read the file before another one was done with it.
\* Store.Upsert, PruneKeepLatest and write.
RunsAreListed ==
    ~overlapped =>
      /\ Decodes(hist)
      /\ \A i \in DOMAIN Entries : Entries[i].state = reported[Entries[i].run]
      /\ \A r \in Runs : reported[r] # Unlisted => \E i \in DOMAIN Entries : Entries[i].run = r
=============================================================================
