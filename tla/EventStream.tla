----------------------------- MODULE EventStream -----------------------------
(***************************************************************************)
(* GET /v1/events of the supervisor: what a client is sent of the journal  *)
(* of a run while the run process still writes it, rotates it and replaces *)
(* the run record that names its files.                                    *)
(*                                                                         *)
(* A Linux run logs into several files, a native (macOS) run into one, to  *)
(* which rollback and commit append later.  How the journal comes about is *)
(* the matter of the module Journal.                                       *)
(***************************************************************************)
EXTENDS History

CONSTANTS
    NativeRuns,
    Streams,
    MaxLines    \* bound on the lines of the agent of a run

\* A request names a run.
ASSUME StreamAssumption == Runs # {} /\ NativeRuns \subseteq Runs /\ MaxLines \in Nat

VARIABLES
    run,      \* the run processes
    journal,  \* the lines on the disk, file by file
    record,   \* the run records
    stream    \* requests for the events of a run

streamVars == <<run, journal, record, stream>>

\* next: where to go on after the history is written.  left: the lines that
\* are still to come.
RunType == [at : {"prepare", "start", "agent", "history", "over", "killed"},
            next : {"start", "agent", "over"}, live : BOOLEAN, left : 0..MaxLines]

\* A line that is not whole has no newline.
Line == [file : Nat, whole : BOOLEAN]

\* known: history, the last whole line when the record was written.
RecordType == [state : RunStates, files : Nat, known : Nat]
NoRecord == [state |-> "preparing", files |-> 1, known |-> 0]

StreamType == [at : {"idle", "read", "delta", "check", "ended"}, run : Runs, follow : BOOLEAN,
               record : RecordType, file : Nat, pos : [1..(MaxLines + 1) -> Nat],
               sent : Seq(Nat), wrote : BOOLEAN,
               why : {"", "terminal", "snapshot", "quiet", "gone", "refused"}]

StreamTypeOK ==
    /\ run \in [Runs -> RunType]
    /\ journal \in [Runs -> Seq(Line)]
    /\ record \in [Runs -> RecordType]
    /\ stream \in [Streams -> StreamType]

-----------------------------------------------------------------------------
(* The run process *)

LastWhole(lines) == Max({0} \cup {i \in DOMAIN lines : lines[i].whole})
LastFile(lines) == IF lines = <<>> THEN 1 ELSE lines[Len(lines)].file
IsOpen(r) == journal[r] # <<>> /\ ~journal[r][Len(journal[r])].whole

RecordOf(r, state) == [state |-> state, files |-> LastFile(journal[r]), known |-> LastWhole(journal[r])]

\* The record first, then the history.
Persist(r, state, next, live) ==
    /\ record' = [record EXCEPT ![r] = RecordOf(r, state)]
    /\ writer' = [writer EXCEPT ![r] = Began([op |-> "upsert", run |-> r, state |-> state])]
    /\ run' = [run EXCEPT ![r] = [@ EXCEPT !.at = "history", !.next = next, !.live = live]]

Prepare(r) ==
    /\ run[r].at = "prepare"
    /\ Persist(r, "preparing", "start", FALSE)
    /\ UNCHANGED <<hist, overlapped, reported, journal, stream>>

\* The journal is open before the agent is released.
Start(r) ==
    /\ run[r].at = "start"
    /\ Persist(r, "running", "agent", TRUE)
    /\ UNCHANGED <<hist, overlapped, reported, journal, stream>>

\* A line begins in the current file, or in a new one when that is full.
BeginLine(r) ==
    /\ run[r].live /\ ~IsOpen(r) /\ run[r].left > 0
    /\ \E file \in {LastFile(journal[r])} \cup (IF r \in NativeRuns \/ journal[r] = <<>> THEN {}
                                                ELSE {LastFile(journal[r]) + 1}) :
         journal' = [journal EXCEPT ![r] = Append(@, [file |-> file, whole |-> FALSE])]
    /\ run' = [run EXCEPT ![r].left = @ - 1]
    /\ UNCHANGED <<historyVars, record, stream>>

EndLine(r) ==
    /\ run[r].live /\ IsOpen(r)
    /\ journal' = [journal EXCEPT ![r][Len(journal[r])].whole = TRUE]
    /\ UNCHANGED <<historyVars, run, record, stream>>

\* The journal is closed before the last record.
End(r) ==
    /\ run[r].at = "agent" /\ ~IsOpen(r)
    /\ \E state \in {"succeeded", "failed", "rolled_back"} : Persist(r, state, "over", FALSE)
    /\ UNCHANGED <<hist, overlapped, reported, journal, stream>>

\* Without its history a run is given up.
HistoryEnds(r) ==
    /\ run[r].at = "history" /\ writer[r].at \in {"done", "failed"}
    /\ run' = [run EXCEPT ![r] = IF writer[r].at = "done" THEN [run[r] EXCEPT !.at = run[r].next]
                                 ELSE [run[r] EXCEPT !.at = "over", !.live = FALSE]]
    /\ UNCHANGED <<historyVars, journal, record, stream>>

RunKilled(r) ==
    /\ "kill" \in faults /\ run[r].at \in {"start", "agent", "history"}
    /\ run' = [run EXCEPT ![r].at = "killed", ![r].live = FALSE]
    /\ writer' = [writer EXCEPT ![r] = Stopped(r)]
    /\ UNCHANGED <<hist, overlapped, reported, journal, record, stream>>

RunStep(r) == Prepare(r) \/ Start(r) \/ BeginLine(r) \/ EndLine(r) \/ End(r) \/ HistoryEnds(r)

-----------------------------------------------------------------------------
(* A stream *)

Ends(s, why) == stream' = [stream EXCEPT ![s].at = "ended", ![s].why = why]

Listed(r) == Decodes(hist) /\ \E i \in DOMAIN Entries : Entries[i].run = r

\* events: the history leads to the record.
Request(s, r, follow) ==
    /\ stream[s].at = "idle"
    /\ \/ ~Listed(r) /\ Ends(s, "refused")
       \/ /\ Listed(r)
          /\ stream' = [stream EXCEPT ![s].at = IF follow THEN "read" ELSE "delta",
                            ![s].run = r, ![s].follow = follow, ![s].record = record[r]]
    /\ UNCHANGED <<historyVars, run, journal, record>>

Refresh(s) ==
    /\ stream[s].at = "read"
    /\ stream' = [stream EXCEPT ![s].at = "delta", ![s].record = record[stream[s].run],
                      ![s].file = 1, ![s].wrote = FALSE]
    /\ UNCHANGED <<historyVars, run, journal, record>>

\* The lines of a file up to the last newline; a line behind the remains of
\* another one is not valid JSON.
InFile(lines, file) == {i \in DOMAIN lines : lines[i].file = file}
Broken(lines, i) == i > 1 /\ lines[i - 1].file = lines[i].file /\ ~lines[i - 1].whole
Valid(lines, i) == lines[i].whole /\ ~Broken(lines, i)

\* The decoder of a Linux snapshot stops at the first line that is not valid.
Readable(s, file) ==
    LET lines == journal[stream[s].run]
        whole == {i \in InFile(lines, file) : lines[i].whole}
    IN IF stream[s].follow \/ stream[s].run \in NativeRuns THEN whole
       ELSE {i \in whole : \A j \in InFile(lines, file) : j <= i => lines[j].whole}

Enumerates(seq, lines) == Range(seq) = lines /\ \A i, j \in DOMAIN seq : i < j => seq[i] < seq[j]
InOrder(lines) == CHOOSE seq \in [1..Cardinality(lines) -> lines] : Enumerates(seq, lines)

Fresh(s) ==
    LET lines == journal[stream[s].run]
        file == stream[s].file
    IN InOrder({i \in Readable(s, file) : Valid(lines, i) /\ i > stream[s].pos[file]})

\* A mutant of Delta: what is there of the last line is consumed as well.
Mut_Delta(s) ==
    /\ stream[s].at = "delta"
    /\ LET file == stream[s].file
           read == InFile(journal[stream[s].run], file)
       IN stream' = [stream EXCEPT
            ![s].sent = @ \o Fresh(s),
            ![s].wrote = @ \/ Fresh(s) # <<>>,
            ![s].pos[file] = IF read = {} THEN @ ELSE Max(read),
            ![s].file = @ + 1,
            ![s].at = IF file = stream[s].record.files THEN "check" ELSE "delta"]
    /\ UNCHANGED <<historyVars, run, journal, record>>

Delta(s) ==
    /\ stream[s].at = "delta"
    /\ LET file == stream[s].file
           read == Readable(s, file)
       IN stream' = [stream EXCEPT
            ![s].sent = @ \o Fresh(s),
            ![s].wrote = @ \/ Fresh(s) # <<>>,
            ![s].pos[file] = IF read = {} THEN @ ELSE Max(read),
            ![s].file = @ + 1,
            ![s].at = IF file = stream[s].record.files THEN "check" ELSE "delta"]
    /\ UNCHANGED <<historyVars, run, journal, record>>

Terminal(state) == state \in {"succeeded", "failed", "committed", "rolled_back"}

\* The record that named the files decides whether there is more to come; the
\* 30 seconds start again with every line.
Check(s) ==
    /\ stream[s].at = "check"
    /\ \/ ~stream[s].follow /\ Ends(s, "snapshot")
       \/ stream[s].follow /\ Terminal(stream[s].record.state) /\ Ends(s, "terminal")
       \/ /\ stream[s].follow /\ ~Terminal(stream[s].record.state)
          /\ \/ stream' = [stream EXCEPT ![s].at = "read"]
             \/ ~stream[s].wrote /\ Ends(s, "quiet")
    /\ UNCHANGED <<historyVars, run, journal, record>>

\* The client closes the connection.
Leave(s) ==
    /\ stream[s].at = "check" /\ stream[s].follow /\ ~Terminal(stream[s].record.state)
    /\ Ends(s, "gone")
    /\ UNCHANGED <<historyVars, run, journal, record>>

StreamStep(s) == Refresh(s) \/ Delta(s) \/ Check(s) \/ Leave(s)

-----------------------------------------------------------------------------
(* Properties *)

ValidUpTo(lines, n) == {i \in 1..n : Valid(lines, i)}

\* A stream is a first part of the journal, in order and without a gap or a
\* repetition, whatever lines are half written and files are new when it reads
\* them; and one that ends because the run has ended, or that was asked for
\* once, holds every line that was there when the record was written.
\* streamEventFollow, streamEventDelta, streamNativeEventDelta.
StreamIsWhole ==
    \A s \in Streams :
      LET lines == journal[stream[s].run]
          least == IF stream[s].why \in {"terminal", "snapshot"} THEN stream[s].record.known ELSE 0
      IN \E n \in least..Len(lines) : Enumerates(stream[s].sent, ValidUpTo(lines, n))
=============================================================================
