------------------------------- MODULE Journal -------------------------------
(***************************************************************************)
(* The event journal of a run: the ring buffer that the eBPF programs      *)
(* fill, the goroutine that empties it, and the writer it shares with the  *)
(* network proxy.  The writer links each event to the one before it,       *)
(* drops what does not fit under the byte cap and starts a new file when   *)
(* the current one is full.                                                *)
(*                                                                         *)
(* The hash of a line stands for all it commits to; events are unique, so  *)
(* the event of a line is its hash.                                        *)
(***************************************************************************)
EXTENDS Naturals, Sequences, FiniteSets

CONSTANTS
    Conns,       \* connections to the proxy; each one is decided once
    MaxEvents,   \* bound on the events of the eBPF programs
    Undecodable, \* the ones that an older Decode does not know
    Size,        \* bytes of the line of an event
    RingSize,    \* events that fit into the ring buffer
    Limits,      \* values of REWIND_EVENT_MAX_BYTES and _ROTATE_BYTES; 0 is none
    FaultSets    \* the combinations of faults to consider

Kernel == 1..MaxEvents
Events == Kernel \cup Conns

\* write: a write or a rotation fails.  attach: the log cannot be opened.
\* sensor: no sensor is configured.  slow: the reader needs more than the
\* drain window.  stray: a descendant of the agent is alive after it.
\* newer: the programs are newer than Decode.  outsider: another local process
\* uses the proxy.  serve: the goroutine of Serve gets to Close first.  kill:
\* the run process is killed.
FaultKinds == {"write", "attach", "sensor", "slow", "stray", "newer", "outsider", "serve",
               "kill"}

ASSUME JournalAssumption ==
    /\ MaxEvents \in Nat /\ RingSize \in Nat
    /\ Conns \cap Nat = {} /\ {"none", "reader"} \cap Conns = {}
    /\ Undecodable \subseteq Kernel
    /\ Size \in [Events -> Nat \ {0}]
    /\ Limits \subseteq [max : Nat, rotate : Nat]
    /\ FaultSets \subseteq SUBSET FaultKinds

VARIABLES
    emitted,   \* number of events that happened in the kernel
    ring,      \* the ring buffer
    lost,      \* the dropped counter of the eBPF map
    session,   \* whether programs and ring are there: "none", "open", "closed"
    reader,    \* the goroutine readLoop: where it is, the event it holds
    writer,    \* the JournalWriter with its Chain
    log,       \* the current file of the adapter: "none", "open", "closed"
    files,     \* number of files on the disk
    lines,     \* their lines, in the order of the names of the files
    lock,      \* who holds writerMu between Append and the flag
    truncated, \* telemetryAdapter.truncated
    taken,     \* history: the events given to the writer, in order
    limits, faults  \* never change

journalVars == <<emitted, ring, lost, session, reader, writer, log, files, lines,
                 lock, truncated, taken>>

-----------------------------------------------------------------------------
(* Types *)

\* prev is 0 for the first line.  A torn line has no newline.
Line == [event : Events, seq : Nat, prev : Events \cup {0}, file : Nat, torn : BOOLEAN]

ReaderType == [at : {"off", "read", "append", "flag", "error", "done"}, event : Events \cup {0}]
WriterType == [next : Nat, prev : Events \cup {0}, bytes : Nat, fileBytes : Nat, truncated : BOOLEAN]

JournalTypeOK ==
    /\ emitted \in 0..MaxEvents
    /\ ring \in Seq(Kernel)
    /\ lost \in Nat
    /\ session \in {"none", "open", "closed"}
    /\ reader \in ReaderType
    /\ writer \in WriterType
    /\ log \in {"none", "open", "closed"}
    /\ files \in Nat
    /\ lines \in Seq(Line)
    /\ lock \in {"none", "reader"} \cup Conns
    /\ truncated \in BOOLEAN
    /\ taken \in Seq(Events)
    /\ limits \in Limits /\ faults \in FaultSets

JournalInit ==
    /\ emitted = 0 /\ ring = <<>> /\ lost = 0 /\ session = "none"
    /\ reader = [at |-> "off", event |-> 0]
    /\ writer = [next |-> 0, prev |-> 0, bytes |-> 0, fileBytes |-> 0, truncated |-> FALSE]
    /\ log = "none" /\ files = 0 /\ lines = <<>> /\ lock = "none" /\ truncated = FALSE /\ taken = <<>>
    /\ limits \in Limits /\ faults \in FaultSets

-----------------------------------------------------------------------------
(* JournalWriter.Append *)

LineOf(event, file) == [event |-> event, seq |-> writer.next + 1, prev |-> writer.prev,
                        file |-> file, torn |-> FALSE]

OverCap(event) == limits.max > 0 /\ writer.bytes + Size[event] > limits.max
Turns(event) == /\ limits.rotate > 0 /\ writer.fileBytes > 0
                /\ writer.fileBytes + Size[event] > limits.rotate

\* A mutant of Linked: the chain starts again with every file.
Mut_Linked(event) ==
    IF Turns(event) THEN [writer EXCEPT !.next = 0, !.prev = 0]
    ELSE [writer EXCEPT !.next = @ + 1, !.prev = event]

\* The chain goes on whatever becomes of the line.
Linked(event) == [writer EXCEPT !.next = @ + 1, !.prev = event]

Writes(event) ==
    /\ ~OverCap(event) /\ log = "open"
    /\ files' = IF Turns(event) THEN files + 1 ELSE files
    /\ lines' = Append(lines, LineOf(event, files'))
    /\ writer' = [Linked(event) EXCEPT !.bytes = @ + Size[event],
                     !.fileBytes = IF Turns(event) THEN Size[event] ELSE @ + Size[event]]
    /\ UNCHANGED log

\* A mutant of Drops: the flag of the writer is forgotten.
Mut_Drops(event) ==
    /\ OverCap(event)
    /\ writer' = Linked(event)
    /\ UNCHANGED <<files, lines, log>>

Drops(event) ==
    /\ OverCap(event)
    /\ writer' = [Linked(event) EXCEPT !.truncated = TRUE]
    /\ UNCHANGED <<files, lines, log>>

\* The file is closed, or the new one cannot be opened after the old one was
\* closed, or a write fails with nothing or a part of the line on the disk.
Breaks(event) ==
    /\ ~OverCap(event)
    /\ writer' = Linked(event)
    /\ UNCHANGED files
    /\ \/ log # "open" /\ UNCHANGED <<lines, log>>
       \/ "write" \in faults /\ log = "open" /\ Turns(event)
          /\ log' = "closed" /\ UNCHANGED lines
       \/ "write" \in faults /\ log = "open" /\ ~Turns(event)
          /\ lines' \in {lines, Append(lines, [LineOf(event, files) EXCEPT !.torn = TRUE])}
          /\ UNCHANGED log

-----------------------------------------------------------------------------
(* Kernel and reader *)

Attach ==
    /\ session' = "open" /\ log' = "open" /\ files' = 1
    /\ reader' = [reader EXCEPT !.at = "read"]
    /\ UNCHANGED <<emitted, ring, lost, writer, lines, lock, truncated, taken>>

Emit ==
    /\ session = "open" /\ emitted < MaxEvents
    /\ emitted' = emitted + 1
    /\ IF Len(ring) < RingSize
       THEN ring' = Append(ring, emitted + 1) /\ UNCHANGED lost
       ELSE lost' = lost + 1 /\ UNCHANGED ring
    /\ UNCHANGED <<session, reader, writer, log, files, lines, lock, truncated, taken>>

\* Decode knows the operation, decision and risk codes of its own version.
Decodes(event) == "newer" \notin faults \/ event \notin Undecodable

\* A sample that cannot be decoded ends the loop like the end of the session.
Read ==
    /\ reader.at = "read" /\ session = "open" /\ ring # <<>>
    /\ ring' = Tail(ring)
    /\ reader' = IF Decodes(Head(ring)) THEN [at |-> "append", event |-> Head(ring)]
                 ELSE [reader EXCEPT !.at = "done"]
    /\ UNCHANGED <<emitted, lost, session, writer, log, files, lines, lock, truncated, taken>>

\* After an Append that worked the flag of the writer is passed on.
ReaderAppends ==
    /\ reader.at = "append" /\ lock = "none"
    /\ taken' = Append(taken, reader.event)
    /\ \/ /\ Writes(reader.event) \/ Drops(reader.event)
          /\ reader' = [reader EXCEPT !.at = IF writer'.truncated THEN "flag" ELSE "read"]
          /\ lock' = IF writer'.truncated THEN "reader" ELSE "none"
       \/ /\ Breaks(reader.event)
          /\ reader' = [reader EXCEPT !.at = "error"] /\ UNCHANGED lock
    /\ UNCHANGED <<emitted, ring, lost, session, truncated>>

\* The flag is set with writerMu held after a drop, and by markError without
\* it; the loop ends after an error.
ReaderFlags ==
    /\ reader.at \in {"flag", "error"}
    /\ truncated' = TRUE
    /\ reader' = [reader EXCEPT !.at = IF @ = "flag" THEN "read" ELSE "done"]
    /\ lock' = IF reader.at = "flag" THEN "none" ELSE lock
    /\ UNCHANGED <<emitted, ring, lost, session, writer, log, files, lines, taken>>

ReaderEnds ==
    /\ reader.at = "read" /\ session = "closed"
    /\ reader' = [reader EXCEPT !.at = "done"]
    /\ UNCHANGED <<emitted, ring, lost, session, writer, log, files, lines, lock, truncated, taken>>

ReaderStep == Read \/ ReaderAppends \/ ReaderFlags \/ ReaderEnds

-----------------------------------------------------------------------------
(* What is read back from the disk *)

\* discoverEventPaths and SummarizeEventsPaths: the content of the first n
\* files, which are filled one after the other, stands for its count, size
\* and digest.
Content(n) == SubSeq(lines, 1, Cardinality({i \in DOMAIN lines : lines[i].file <= n}))
Whole(content) == \A i \in DOMAIN content : ~content[i].torn

\* A mutant of ChainValid: the numbers need only to grow.
Mut_ChainValid(content) ==
    \A i \in DOMAIN content : i > 1 => content[i].seq > content[i - 1].seq

\* telemetry.Verify.
ChainValid(content) ==
    \A i \in DOMAIN content :
        /\ content[i].seq = i
        /\ content[i].prev = IF i = 1 THEN 0 ELSE content[i - 1].event

\* Record of the evidence: WithDropped and WithTruncated.
Summary(n, dropped, flag) ==
    [files |-> n, content |-> Content(n), dropped |-> dropped, truncated |-> flag,
     complete |-> Whole(Content(n)) /\ dropped = 0 /\ ~flag]

\* evidence.Verify: without the first file it ends with an error.
Verified(record) ==
    /\ files > 0 /\ record.complete
    /\ Content(record.files) = record.content
    /\ ChainValid(record.content)
=============================================================================
