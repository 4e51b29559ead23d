--------------------------- MODULE EvidenceProofs ---------------------------
(***************************************************************************)
(* Theorems about Evidence, for any number of connections and events, any  *)
(* size of lines, ring and files, and every combination of faults.         *)
(***************************************************************************)
EXTENDS Evidence, FiniteSetTheorems, TLAPS

\* A line on the disk, or in a record, is the one that Append made of the
\* event with its number.
TrueLines(content) == \A i \in DOMAIN content :
    content[i].seq \in 1..Len(taken) /\ content[i].event = taken[content[i].seq]

LinesInv == /\ writer.next = Len(taken)
            /\ TrueLines(lines) /\ TrueLines(run.summary.content) /\ TrueLines(record.content)

\* From the decision on.
TraceInv == \A c \in Conns :
    conn[c] \in {"decided", "upstream"} => truncated \/ c \in Logged(lines)

HoldsInv == reader.at = "append" => reader.event \in Events

IInv == TypeOK /\ HoldsInv /\ LinesInv /\ TraceInv

-----------------------------------------------------------------------------
(* The writer *)

LEMMA Constants ==
    /\ Size \in [Events -> Nat] /\ Limits \subseteq [max : Nat, rotate : Nat]
    /\ Kernel \subseteq Events /\ Conns \subseteq Events /\ MaxEvents \in Nat
    /\ Conns \cap Nat = {} /\ Kernel \subseteq Nat
  BY JournalAssumption DEF Events, Kernel

LEMMA LinkedTyped ==
    ASSUME TypeOK, NEW event \in Events
    PROVE  Linked(event) \in WriterType /\ Linked(event).next = writer.next + 1
<1>1. writer \in WriterType
  BY DEF TypeOK, JournalTypeOK
<1>2. writer.next + 1 \in Nat /\ event \in Events \cup {0}
  BY <1>1 DEF WriterType
<1>3. Linked(event) \in WriterType
  BY <1>1, <1>2 DEF WriterType, Linked
<1>4. Linked(event).next = writer.next + 1
  BY <1>1 DEF WriterType, Linked
<1>. QED
  BY <1>3, <1>4

LEMMA LineTyped ==
    ASSUME TypeOK, NEW event \in Events, NEW file \in Nat
    PROVE  /\ LineOf(event, file) \in Line
           /\ LineOf(event, file).event = event /\ LineOf(event, file).seq = writer.next + 1
           /\ [LineOf(event, file) EXCEPT !.torn = TRUE] \in Line
           /\ [LineOf(event, file) EXCEPT !.torn = TRUE].event = event
           /\ [LineOf(event, file) EXCEPT !.torn = TRUE].seq = writer.next + 1
<1>1. writer \in WriterType
  BY DEF TypeOK, JournalTypeOK
<1>2. writer.next + 1 \in Nat /\ writer.prev \in Events \cup {0}
  BY <1>1 DEF WriterType
<1>3. LineOf(event, file) \in Line
  BY <1>2 DEF LineOf, Line
<1>4. LineOf(event, file).event = event /\ LineOf(event, file).seq = writer.next + 1
  BY DEF LineOf
<1>5. [LineOf(event, file) EXCEPT !.torn = TRUE] \in Line
  BY <1>3 DEF Line
<1>6. /\ [LineOf(event, file) EXCEPT !.torn = TRUE].event = LineOf(event, file).event
      /\ [LineOf(event, file) EXCEPT !.torn = TRUE].seq = LineOf(event, file).seq
  BY <1>3 DEF Line
<1>. QED
  BY <1>3, <1>4, <1>5, <1>6

\* What Append does to the lines on the disk: nothing, or one line more.
LEMMA Appended ==
    ASSUME IInv, NEW event \in Events, Writes(event) \/ Drops(event) \/ Breaks(event)
    PROVE  \/ lines' = lines
           \/ \E line \in Line : /\ lines' = Append(lines, line) /\ line.event = event
                                 /\ line.seq = writer.next + 1
<1>1. TypeOK /\ files \in Nat
  BY DEF IInv, TypeOK, JournalTypeOK
<1>2. CASE Writes(event)
  <2>1. files' \in Nat /\ lines' = Append(lines, LineOf(event, files'))
    BY <1>1, <1>2 DEF Writes
  <2> DEFINE line == LineOf(event, files')
  <2>2. line \in Line /\ line.event = event /\ line.seq = writer.next + 1
    BY <1>1, <2>1, LineTyped
  <2>3. lines' = Append(lines, line)
    BY <2>1
  <2>. HIDE DEF line
  <2>. QED
    BY <2>2, <2>3
<1>3. CASE Drops(event)
  BY <1>3 DEF Drops
<1>4. CASE Breaks(event)
  <2>1. lines' \in {lines, Append(lines, [LineOf(event, files) EXCEPT !.torn = TRUE])}
    BY <1>4 DEF Breaks
  <2>2. CASE lines' = Append(lines, [LineOf(event, files) EXCEPT !.torn = TRUE])
    <3> DEFINE line == [LineOf(event, files) EXCEPT !.torn = TRUE]
    <3>1. line \in Line /\ line.event = event /\ line.seq = writer.next + 1
      BY <1>1, LineTyped
    <3>2. lines' = Append(lines, line)
      BY <2>2
    <3>. HIDE DEF line
    <3>. QED
      BY <3>1, <3>2
  <2>. QED
    BY <2>1, <2>2
<1>. QED
  BY <1>2, <1>3, <1>4

LEMMA AppendTyped ==
    ASSUME IInv, NEW event \in Events, Writes(event) \/ Drops(event) \/ Breaks(event)
    PROVE  /\ files' \in Nat /\ lines' \in Seq(Line) /\ writer' \in WriterType
           /\ log' \in {"none", "open", "closed"} /\ writer'.next = writer.next + 1
<1>1. TypeOK /\ files \in Nat /\ lines \in Seq(Line) /\ writer \in WriterType
      /\ log \in {"none", "open", "closed"}
  BY DEF IInv, TypeOK, JournalTypeOK
<1>2. Linked(event) \in WriterType /\ Linked(event).next = writer.next + 1
  BY <1>1, LinkedTyped
<1>3. lines' \in Seq(Line)
  BY <1>1, Appended
<1>4. Size[event] \in Nat
  BY Constants
<1>5. CASE Writes(event)
  <2> DEFINE L == Linked(event)
             n == L.bytes + Size[event]
             f == IF Turns(event) THEN Size[event] ELSE L.fileBytes + Size[event]
  <2>1. L \in WriterType /\ L.bytes \in Nat /\ L.fileBytes \in Nat
    BY <1>2 DEF WriterType
  <2>2. n \in Nat /\ f \in Nat
    BY <1>4, <2>1
  <2>3. writer' = [L EXCEPT !.bytes = n, !.fileBytes = f]
    BY <1>5 DEF Writes
  <2>. HIDE DEF L, n, f
  <2>4. writer' \in WriterType
    BY <2>1, <2>2, <2>3 DEF WriterType
  <2>5. writer'.next = L.next
    BY <2>1, <2>3 DEF WriterType
  <2>6. writer'.next = writer.next + 1
    BY <1>2, <2>5 DEF L
  <2>. QED
    BY <1>1, <1>3, <1>5, <2>4, <2>6 DEF Writes
<1>6. CASE Drops(event)
  <2>1. writer' = [Linked(event) EXCEPT !.truncated = TRUE]
    BY <1>6 DEF Drops
  <2>2. writer' \in WriterType /\ writer'.next = Linked(event).next
    BY <1>2, <2>1 DEF WriterType
  <2>. QED
    BY <1>1, <1>2, <1>3, <1>6, <2>2 DEF Drops
<1>7. CASE Breaks(event)
  <2>1. log' \in {"none", "open", "closed"} /\ files' = files /\ writer' = Linked(event)
    BY <1>1, <1>7 DEF Breaks
  <2>. QED
    BY <1>1, <1>2, <1>3, <2>1
<1>. QED
  BY <1>5, <1>6, <1>7

\* True lines stay true while the history grows.
LEMMA StillTrue ==
    ASSUME taken \in Seq(Events), NEW event \in Events, taken' = Append(taken, event),
           NEW content \in Seq(Line), TrueLines(content)
    PROVE  TrueLines(content)'
  BY DEF TrueLines

\* The lines after Append are true, and none is lost.
LEMMA AppendTrue ==
    ASSUME IInv, NEW event \in Events, Writes(event) \/ Drops(event) \/ Breaks(event),
           taken' = Append(taken, event)
    PROVE  TrueLines(lines)' /\ Logged(lines) \subseteq Logged(lines')
<1>1. taken \in Seq(Events) /\ lines \in Seq(Line) /\ writer.next = Len(taken) /\ TrueLines(lines)
  BY DEF IInv, TypeOK, JournalTypeOK, LinesInv
<1>2. CASE lines' = lines
  BY <1>1, <1>2 DEF TrueLines, Logged
<1>3. ASSUME NEW line \in Line, lines' = Append(lines, line), line.event = event,
             line.seq = writer.next + 1
      PROVE  TrueLines(lines)' /\ Logged(lines) \subseteq Logged(lines')
  <2>1. taken' \in Seq(Events) /\ Len(taken') = Len(taken) + 1
        /\ \A k \in 1..Len(taken) : taken'[k] = taken[k]
    BY <1>1
  <2>2. taken'[Len(taken) + 1] = event
    BY <1>1
  <2>3. lines' \in Seq(Line) /\ Len(lines') = Len(lines) + 1
        /\ \A i \in 1..Len(lines) : lines'[i] = lines[i]
    BY <1>1, <1>3
  <2>4. lines'[Len(lines) + 1] = line
    BY <1>1, <1>3
  <2>5. DOMAIN lines = 1..Len(lines) /\ DOMAIN lines' = 1..Len(lines')
    BY <1>1, <2>3
  <2>6. ASSUME NEW i \in DOMAIN lines'
        PROVE  lines'[i].seq \in 1..Len(taken') /\ lines'[i].event = taken'[lines'[i].seq]
    <3>1. CASE i \in 1..Len(lines)
      <4>1. lines[i].seq \in 1..Len(taken) /\ lines[i].event = taken[lines[i].seq]
        BY <1>1, <2>5, <3>1 DEF TrueLines
      <4>. QED
        BY <1>1, <2>1, <2>3, <3>1, <4>1
    <3>2. CASE i = Len(lines) + 1
      BY <1>1, <1>3, <2>1, <2>2, <2>4, <3>2
    <3>. QED
      BY <1>1, <2>3, <2>5, <3>1, <3>2
  <2>7. Logged(lines) \subseteq Logged(lines')
    BY <1>1, <2>3, <2>5 DEF Logged
  <2>. QED
    BY <2>6, <2>7 DEF TrueLines
<1>. QED
  BY <1>2, <1>3, Appended

\* A line that was written is in the log.
LEMMA WrittenLogged ==
    ASSUME IInv, NEW event \in Events, Writes(event)
    PROVE  event \in Logged(lines')
<1>1. lines \in Seq(Line) /\ TypeOK /\ files' \in Nat
  BY DEF IInv, TypeOK, JournalTypeOK, Writes
<1>2. lines' = Append(lines, LineOf(event, files'))
  BY DEF Writes
<1>3. LineOf(event, files').event = event
  BY DEF LineOf
<1>4. Len(lines) + 1 \in DOMAIN lines' /\ lines'[Len(lines) + 1] = LineOf(event, files')
  BY <1>1, <1>2
<1>. QED
  BY <1>3, <1>4 DEF Logged

\* What is read back is a first part of the log.
LEMMA ContentOfLog ==
    ASSUME TypeOK, NEW n
    PROVE  /\ Content(n) \in Seq(Line)
           /\ \A i \in DOMAIN Content(n) : i \in DOMAIN lines /\ Content(n)[i] = lines[i]
<1> DEFINE S == {i \in DOMAIN lines : lines[i].file <= n}
<1>1. lines \in Seq(Line) /\ Len(lines) \in Nat /\ DOMAIN lines = 1..Len(lines)
  BY DEF TypeOK, JournalTypeOK
<1>2. IsFiniteSet(1..Len(lines)) /\ Cardinality(1..Len(lines)) = Len(lines)
  BY <1>1, FS_Interval
<1>3. S \subseteq 1..Len(lines)
  BY <1>1
<1>4. Cardinality(S) \in Nat /\ Cardinality(S) <= Len(lines)
  BY <1>2, <1>3, FS_Subset, FS_CardinalityType
<1>. HIDE DEF S
<1>5. Content(n) = SubSeq(lines, 1, Cardinality(S))
  BY DEF Content, S
<1>6. Content(n) \in Seq(Line) /\ Len(Content(n)) = Cardinality(S)
      /\ \A i \in 1..Cardinality(S) : Content(n)[i] = lines[i]
  BY <1>1, <1>4, <1>5
<1>. QED
  BY <1>1, <1>4, <1>6
-----------------------------------------------------------------------------
(* Records *)

LEMMA SummaryTyped ==
    ASSUME IInv, NEW n \in Nat, NEW dropped \in Nat, NEW flag \in BOOLEAN
    PROVE  Summary(n, dropped, flag) \in SummaryType /\ TrueLines(Summary(n, dropped, flag).content)
<1>1. Content(n) \in Seq(Line)
  BY ContentOfLog DEF IInv
<1>2. TrueLines(Content(n))
  BY ContentOfLog DEF IInv, LinesInv, TrueLines
<1>3. Whole(Content(n)) \in BOOLEAN
  BY DEF Whole
<1>4. (Whole(Content(n)) /\ dropped = 0 /\ ~flag) \in BOOLEAN
  OBVIOUS
<1>5. Summary(n, dropped, flag) \in SummaryType
  BY <1>1, <1>4 DEF Summary, SummaryType
<1>6. Summary(n, dropped, flag).content = Content(n)
  BY DEF Summary
<1>. QED
  BY <1>2, <1>5, <1>6

\* Steps of the run process assign fields of run.
LEMMA RunTyped ==
    ASSUME run \in RunType, NEW step \in RunSteps
    PROVE  /\ [run EXCEPT !.at = step] \in RunType
           /\ \A n \in Nat : [run EXCEPT !.at = step, !.dropped = n] \in RunType
           /\ [run EXCEPT !.at = step, !.ended = TRUE] \in RunType
           /\ [run EXCEPT !.at = step, !.attached = TRUE] \in RunType
           /\ \A s \in [dropped : Nat, truncated : BOOLEAN] :
                  [run EXCEPT !.at = step, !.state = s] \in RunType
           /\ \A s \in SummaryType : [run EXCEPT !.at = step, !.summary = s] \in RunType
  BY DEF RunType

LEMMA RunSummary ==
    ASSUME run \in RunType, NEW step
    PROVE  /\ [run EXCEPT !.at = step].summary = run.summary
           /\ \A n : [run EXCEPT !.at = step, !.dropped = n].summary = run.summary
           /\ [run EXCEPT !.at = step, !.ended = TRUE].summary = run.summary
           /\ [run EXCEPT !.at = step, !.attached = TRUE].summary = run.summary
           /\ \A s : [run EXCEPT !.at = step, !.state = s].summary = run.summary
           /\ \A s : [run EXCEPT !.at = step, !.summary = s].summary = s
  BY DEF RunType

-----------------------------------------------------------------------------
(* The invariant *)

LEMMA InitInv == Init => IInv
<1> SUFFICES ASSUME Init PROVE IInv
  OBVIOUS
<1>1. JournalTypeOK
  <2>1. reader \in ReaderType /\ writer \in WriterType
    BY DEF Init, JournalInit, ReaderType, WriterType
  <2>2. emitted \in 0..MaxEvents /\ lost \in Nat /\ files \in Nat
    BY Constants DEF Init, JournalInit
  <2>3. ring \in Seq(Kernel) /\ lines \in Seq(Line) /\ taken \in Seq(Events)
    BY DEF Init, JournalInit
  <2>4. /\ session \in {"none", "open", "closed"} /\ log \in {"none", "open", "closed"}
        /\ lock \in {"none", "reader"} \cup Conns /\ truncated \in BOOLEAN
        /\ limits \in Limits /\ faults \in FaultSets
    BY DEF Init, JournalInit
  <2>. QED
    BY <2>1, <2>2, <2>3, <2>4 DEF JournalTypeOK
<1>2. Nothing \in SummaryType /\ Nothing.content = <<>>
  BY DEF Nothing, SummaryType
<1>3. run \in RunType /\ run.summary = Nothing
  <2>1. [dropped |-> 0, truncated |-> FALSE] \in [dropped : Nat, truncated : BOOLEAN]
    OBVIOUS
  <2>. HIDE DEF SummaryType, Nothing
  <2>. QED
    BY <1>2, <2>1 DEF Init, RunType, RunSteps
<1>4. TypeOK
  BY <1>1, <1>2, <1>3 DEF Init, TypeOK, ConnSteps
<1>5. LinesInv
  BY <1>2, <1>3 DEF Init, JournalInit, LinesInv, TrueLines
<1>6. TraceInv
  BY DEF Init, TraceInv
<1>. QED
  BY <1>4, <1>5, <1>6 DEF IInv, HoldsInv, Init, JournalInit

\* A step that leaves lines, history and writer alone keeps the records true.
LEMMA LinesKept ==
    ASSUME IInv, UNCHANGED <<writer, lines, taken>>,
           TrueLines(run'.summary.content), TrueLines(record'.content)
    PROVE  LinesInv'
  BY DEF IInv, LinesInv, TrueLines

\* Nor does a step that appends an event.
LEMMA LinesGrow ==
    ASSUME IInv, NEW event \in Events, Writes(event) \/ Drops(event) \/ Breaks(event),
           taken' = Append(taken, event), UNCHANGED <<run, record>>
    PROVE  LinesInv'
<1>1. taken \in Seq(Events) /\ writer.next = Len(taken)
      /\ TrueLines(run.summary.content) /\ TrueLines(record.content)
  BY DEF IInv, TypeOK, JournalTypeOK, LinesInv
<1>2. run.summary.content \in Seq(Line) /\ record.content \in Seq(Line)
  BY DEF IInv, TypeOK, RunType, SummaryType
<1>3. TrueLines(run.summary.content)' /\ TrueLines(record.content)'
  BY <1>1, <1>2, StillTrue DEF TrueLines
<1>4. TrueLines(lines)' /\ writer'.next = writer.next + 1
  BY AppendTrue, AppendTyped
<1>5. Len(taken') = Len(taken) + 1
  BY <1>1
<1>. QED
  BY <1>1, <1>3, <1>4, <1>5 DEF LinesInv

\* The same for the trace.
LEMMA TraceKept ==
    ASSUME IInv, Logged(lines) \subseteq Logged(lines'), truncated => truncated',
           \A c \in Conns : conn'[c] \in {"decided", "upstream"} =>
                conn[c] \in {"decided", "upstream"} \/ truncated' \/ c \in Logged(lines')
    PROVE  TraceInv'
  BY DEF IInv, TraceInv

LEMMA ReaderInv ==
    ASSUME IInv, ReaderStep, UNCHANGED <<run, agent, conn, proxy, record, decided, limits, faults, mode>>
    PROVE  IInv'
<1>1. /\ TypeOK /\ reader.at \in {"off", "read", "append", "flag", "error", "done"}
      /\ reader.event \in Events \cup {0} /\ taken \in Seq(Events) /\ ring \in Seq(Kernel)
      /\ reader \in ReaderType
  BY DEF IInv, TypeOK, JournalTypeOK, ReaderType
<1>2. \A at \in {"read", "flag", "error", "done"} : [reader EXCEPT !.at = at] \in ReaderType
  BY <1>1 DEF ReaderType
<1>3. run.summary \in SummaryType /\ record \in SummaryType
      /\ run.summary.content \in Seq(Line) /\ record.content \in Seq(Line)
  BY DEF IInv, TypeOK, RunType, SummaryType
<1>4. CASE Read
  <2>1. ring' \in Seq(Kernel) /\ Head(ring) \in Events
    BY <1>1, <1>4, Constants DEF Read
  <2>2. [at |-> "append", event |-> Head(ring)] \in ReaderType
    BY <2>1 DEF ReaderType
  <2>3. reader' \in ReaderType
    BY <1>2, <1>4, <2>2 DEF Read
  <2>4. TypeOK'
    BY <1>1, <1>4, <2>1, <2>3 DEF Read, TypeOK, JournalTypeOK
  <2>5. LinesInv'
    BY <1>4, LinesKept DEF Read, IInv, LinesInv, TrueLines
  <2>6. TraceInv'
    BY <1>4, TraceKept DEF Read
  <2>7. HoldsInv'
    BY <1>2, <1>4, <2>1, <1>1 DEF Read, ReaderType, HoldsInv
  <2>. QED
    BY <2>4, <2>5, <2>6, <2>7 DEF IInv
<1>5. CASE ReaderAppends
  <2> DEFINE event == reader.event
  <2>1. reader.at = "append" /\ (Writes(event) \/ Drops(event) \/ Breaks(event))
        /\ taken' = Append(taken, event) /\ UNCHANGED <<emitted, ring, lost, session, truncated>>
    BY <1>5 DEF ReaderAppends
  <2>2. event \in Events
    BY <2>1 DEF IInv, HoldsInv
  <2>3. \E at \in {"read", "flag", "error"} : reader' = [reader EXCEPT !.at = at]
    BY <1>5 DEF ReaderAppends
  <2>4. reader' \in ReaderType /\ reader'.at # "append"
    BY <1>1, <1>2, <2>3 DEF ReaderType
  <2>5. lock' \in {"none", "reader"} \cup Conns
    BY <1>1, <1>5 DEF ReaderAppends, TypeOK, JournalTypeOK
  <2>6. taken' \in Seq(Events)
    BY <1>1, <2>1, <2>2
  <2>7. TypeOK'
    BY <1>1, <2>1, <2>2, <2>4, <2>5, <2>6, AppendTyped DEF TypeOK, JournalTypeOK
  <2>8. LinesInv'
    BY <2>1, <2>2, LinesGrow
  <2>9. TraceInv'
    BY <2>1, <2>2, TraceKept, AppendTrue
  <2>. QED
    BY <2>4, <2>7, <2>8, <2>9 DEF IInv, HoldsInv
<1>6. CASE ReaderFlags
  <2>1. TypeOK'
    BY <1>1, <1>2, <1>6 DEF ReaderFlags, TypeOK, JournalTypeOK
  <2>2. LinesInv'
    BY <1>6, LinesKept DEF ReaderFlags, IInv, LinesInv, TrueLines
  <2>3. TraceInv'
    BY <1>6, TraceKept DEF ReaderFlags
  <2>4. HoldsInv'
    BY <1>1, <1>6 DEF ReaderFlags, ReaderType, HoldsInv
  <2>. QED
    BY <2>1, <2>2, <2>3, <2>4 DEF IInv
<1>7. CASE ReaderEnds
  <2>1. TypeOK'
    BY <1>1, <1>2, <1>7 DEF ReaderEnds, TypeOK, JournalTypeOK
  <2>2. LinesInv'
    BY <1>7, LinesKept DEF ReaderEnds, IInv, LinesInv, TrueLines
  <2>3. TraceInv'
    BY <1>7, TraceKept DEF ReaderEnds
  <2>4. HoldsInv'
    BY <1>1, <1>7 DEF ReaderEnds, ReaderType, HoldsInv
  <2>. QED
    BY <2>1, <2>2, <2>3, <2>4 DEF IInv
<1>. QED
  BY <1>4, <1>5, <1>6, <1>7 DEF ReaderStep

LEMMA EmitInv ==
    ASSUME IInv, Emit, UNCHANGED <<run, agent, conn, proxy, record, decided, limits, faults, mode>>
    PROVE  IInv'
<1>1. TypeOK /\ emitted \in Nat /\ lost \in Nat /\ ring \in Seq(Kernel) /\ MaxEvents \in Nat
  BY Constants DEF IInv, TypeOK, JournalTypeOK
<1>2. emitted' \in 0..MaxEvents /\ emitted + 1 \in Kernel
  BY <1>1 DEF Emit, Kernel
<1>3. ring' \in Seq(Kernel) /\ lost' \in Nat
  <2>1. CASE ring' = Append(ring, emitted + 1) /\ UNCHANGED lost
    <3>1. Append(ring, emitted + 1) \in Seq(Kernel)
      BY <1>1, <1>2
    <3> QED
      BY <1>1, <2>1, <3>1
  <2>2. CASE lost' = lost + 1 /\ UNCHANGED ring
    BY <1>1, <2>2
  <2> QED
    BY <2>1, <2>2 DEF Emit
<1>4. TypeOK'
  BY <1>1, <1>2, <1>3 DEF Emit, TypeOK, JournalTypeOK
<1>5. LinesInv'
  BY LinesKept DEF Emit, IInv, LinesInv, TrueLines
<1>6. TraceInv'
  BY TraceKept DEF Emit
<1>7. HoldsInv'
  BY DEF Emit, IInv, HoldsInv
<1>. QED
  BY <1>4, <1>5, <1>6, <1>7 DEF IInv

\* Steps outside the writer that give the handlers no new line.
LEMMA OutsideInv ==
    ASSUME IInv, UNCHANGED <<writer, lines, taken, reader>>, TypeOK',
           truncated => truncated',
           \A c \in Conns : conn'[c] \in {"decided", "upstream"} =>
                              conn[c] \in {"decided", "upstream"} \/ truncated',
           TrueLines(run'.summary.content), TrueLines(record'.content)
    PROVE  IInv'
<1>1. LinesInv'
  BY LinesKept
<1>2. TraceInv'
  BY TraceKept
<1>3. HoldsInv'
  BY DEF IInv, HoldsInv
<1>. QED
  BY <1>1, <1>2, <1>3 DEF IInv

LEMMA HandlerInv ==
    ASSUME IInv, NEW c \in Conns, Handler(c), UNCHANGED <<limits, faults, mode>>
    PROVE  IInv'
<1>1. /\ TypeOK /\ conn \in [Conns -> ConnSteps] /\ UNCHANGED <<run, agent, proxy, record>>
      /\ c \in Events /\ taken \in Seq(Events)
  BY Constants DEF IInv, TypeOK, JournalTypeOK, Handler
<1>2. TrueLines(run.summary.content) /\ TrueLines(record.content)
  BY DEF IInv, LinesInv
<1>3. ASSUME NEW step \in ConnSteps
      PROVE  [conn EXCEPT ![c] = step] \in [Conns -> ConnSteps]
  BY <1>1
<1>4. \A step : Move(c, step) => /\ conn'[c] = step
                                 /\ \A d \in Conns \ {c} : conn'[d] = conn[d]
  BY <1>1 DEF Move
<1>5. CASE Accept(c) \/ Track(c) \/ Unread(c) \/ Connect(c) \/ UpstreamEnds(c)
  <2>1. UNCHANGED <<journalVars, decided>>
    BY <1>5 DEF Accept, Track, Unread, Connect, UpstreamEnds
  <2>2. \E step \in {"accepted", "gone", "handling", "upstream"} :
           Move(c, step) /\ (step = "upstream" => conn[c] = "decided")
    BY <1>5 DEF Accept, Track, Unread, Connect, UpstreamEnds
  <2>3. conn' \in [Conns -> ConnSteps]
    BY <1>3, <2>2 DEF Move, ConnSteps
  <2>4. TypeOK'
    BY <1>1, <2>1, <2>3 DEF journalVars, TypeOK, JournalTypeOK
  <2>5. \A d \in Conns : conn'[d] \in {"decided", "upstream"} => conn[d] \in {"decided", "upstream"}
    BY <1>4, <2>2
  <2>. QED
    BY <1>1, <1>2, <2>1, <2>4, <2>5, OutsideInv DEF journalVars
<1>6. CASE HandlerFlags(c)
  <2>1. conn' \in [Conns -> ConnSteps] /\ truncated' = TRUE
    BY <1>3, <1>6 DEF HandlerFlags, Move, ConnSteps
  <2>2. lock' \in {"none", "reader"} \cup Conns
    BY <1>1, <1>6 DEF HandlerFlags, TypeOK, JournalTypeOK
  <2>3. TypeOK'
    BY <1>1, <1>6, <2>1, <2>2 DEF HandlerFlags, TypeOK, JournalTypeOK
  <2>. QED
    BY <1>1, <1>2, <1>6, <2>1, <2>3, OutsideInv DEF HandlerFlags
<1>7. CASE Decide(c) /\ log = "none"
  <2>1. UNCHANGED <<writer, lines, taken, files, lock, emitted, ring, lost, session, reader, truncated>>
        /\ log' = "none" /\ decided' = decided \cup {c}
    BY <1>7 DEF Decide
  <2>2. Move(c, "error")
    BY <1>7 DEF Decide
  <2>3. conn' \in [Conns -> ConnSteps]
    BY <1>3, <2>2 DEF Move, ConnSteps
  <2>4. TypeOK'
    BY <1>1, <2>1, <2>3 DEF TypeOK, JournalTypeOK
  <2>. QED
    BY <1>1, <1>2, <1>4, <2>1, <2>2, <2>4, OutsideInv
<1>8. CASE Decide(c) /\ log # "none"
  <2>1. /\ taken' = Append(taken, c) /\ (Writes(c) \/ Drops(c) \/ Breaks(c))
        /\ decided' = decided \cup {c}
        /\ UNCHANGED <<emitted, ring, lost, session, reader, truncated>>
    BY <1>8 DEF Decide
  <2>2. \E step \in {"flag", "decided", "error"} : Move(c, step)
    BY <1>8 DEF Decide
  <2>3. conn' \in [Conns -> ConnSteps]
    BY <1>3, <2>2 DEF Move, ConnSteps
  <2>4. lock' \in {"none", "reader"} \cup Conns
    BY <1>1, <1>8 DEF Decide, TypeOK, JournalTypeOK
  <2>5. taken' \in Seq(Events)
    BY <1>1, <2>1
  <2>6. TypeOK'
    BY <1>1, <2>1, <2>3, <2>4, <2>5, AppendTyped DEF TypeOK, JournalTypeOK
  <2>7. LinesInv'
    BY <1>1, <2>1, LinesGrow
  <2>8. conn'[c] = "decided" => c \in Logged(lines')
    <3>1. CASE Writes(c)
      BY <1>1, <3>1, WrittenLogged
    <3>2. CASE Drops(c) /\ ~Writes(c) /\ ~Breaks(c)
      <4>1. writer'.truncated
        BY <3>2 DEF Drops, Linked, IInv, TypeOK, JournalTypeOK, WriterType
      <4>2. Move(c, IF writer'.truncated THEN "flag" ELSE "decided")
        BY <1>8, <3>2 DEF Decide
      <4>. QED
        BY <1>4, <4>1, <4>2
    <3>3. CASE Breaks(c) /\ ~Writes(c)
      <4>1. ~Drops(c)
        BY <3>3 DEF Drops, Breaks
      <4>2. Move(c, "error")
        BY <1>8, <3>3, <4>1 DEF Decide
      <4>. QED
        BY <1>4, <4>2
    <3>. QED
      BY <2>1, <3>1, <3>2, <3>3
  <2>9. TraceInv'
    <3>1. \A d \in Conns \ {c} : conn'[d] = conn[d]
      BY <1>4, <2>2
    <3>2. conn'[c] # "upstream"
      BY <1>4, <2>2
    <3>. QED
      BY <1>1, <2>1, <2>8, <3>1, <3>2, TraceKept, AppendTrue
  <2>10. HoldsInv'
    BY <2>1 DEF IInv, HoldsInv
  <2>. QED
    BY <2>6, <2>7, <2>9, <2>10 DEF IInv
<1>. QED
  BY <1>5, <1>6, <1>7, <1>8 DEF Handler

LEMMA ProcessInv ==
    ASSUME IInv, RunStep \/ AgentExits \/ ServeCloses \/ ServeDrains \/ Recover,
           UNCHANGED <<limits, faults, mode>>
    PROVE  IInv'
<1>1. /\ TypeOK /\ run \in RunType /\ record \in SummaryType /\ truncated \in BOOLEAN
      /\ reader \in ReaderType /\ lost \in Nat /\ files \in Nat
  BY DEF IInv, TypeOK, JournalTypeOK
<1>2. TrueLines(run.summary.content) /\ TrueLines(record.content)
  BY DEF IInv, LinesInv
<1>3. /\ \A step \in RunSteps : [run EXCEPT !.at = step] \in RunType
      /\ \A step \in RunSteps : [run EXCEPT !.at = step].summary = run.summary
      /\ run.dropped \in Nat /\ run.state.dropped \in Nat /\ run.state.truncated \in BOOLEAN
      /\ run.summary \in SummaryType /\ record.dropped \in Nat /\ record.truncated \in BOOLEAN
  <2>1. \A step \in RunSteps : [run EXCEPT !.at = step] \in RunType
    BY <1>1, RunTyped
  <2>2. \A step \in RunSteps : [run EXCEPT !.at = step].summary = run.summary
    BY <1>1, RunSummary
  <2>3. run.dropped \in Nat /\ run.state.dropped \in Nat /\ run.state.truncated \in BOOLEAN
    BY <1>1 DEF RunType
  <2>4. run.summary \in SummaryType
    BY <1>1 DEF RunType
  <2>5. record.dropped \in Nat /\ record.truncated \in BOOLEAN
    BY <1>1 DEF SummaryType
  <2>. QED
    BY <2>1, <2>2, <2>3, <2>4, <2>5
<1>4. Discovered \in Nat
  BY <1>1 DEF Discovered
<1>5. CASE Start
  <2>1. UNCHANGED <<conn, proxy, record, decided, writer, lines, taken, truncated>>
    BY <1>5 DEF Start, Attach, journalVars
  <2>2. run' \in RunType /\ run'.summary = run.summary
    <3>1. \/ run' = [run EXCEPT !.at = "state", !.attached = TRUE]
          \/ run' = [run EXCEPT !.at = "state"]
          \/ run' = [run EXCEPT !.at = "cancel", !.ended = TRUE]
      BY <1>5 DEF Start, Goto
    <3>. QED
      BY <1>1, <3>1, RunTyped, RunSummary DEF RunSteps
  <2>3. reader' \in ReaderType /\ HoldsInv'
    <3>1. [reader EXCEPT !.at = "read"] \in ReaderType /\ [reader EXCEPT !.at = "read"].at = "read"
      BY <1>1 DEF ReaderType
    <3>. QED
      BY <1>1, <1>5, <3>1 DEF Start, Attach, journalVars, IInv, HoldsInv
  <2>4. UNCHANGED <<emitted, ring, lost, lock>> /\ files' \in Nat
        /\ session' \in {"none", "open", "closed"} /\ log' \in {"none", "open", "closed"}
        /\ agent' \in {"running", "gone"}
    BY <1>1, <1>5 DEF Start, Attach, journalVars, TypeOK, JournalTypeOK
  <2>5. TypeOK'
    BY <1>1, <2>1, <2>2, <2>3, <2>4 DEF TypeOK, JournalTypeOK
  <2>6. LinesInv'
    BY <1>2, <2>1, <2>2, LinesKept DEF TrueLines
  <2>7. TraceInv'
    BY <2>1, TraceKept
  <2>. QED
    BY <2>3, <2>5, <2>6, <2>7 DEF IInv
<1>6. CASE ReadState
  <2>1. [dropped |-> run.dropped, truncated |-> truncated] \in [dropped : Nat, truncated : BOOLEAN]
    BY <1>1, <1>3
  <2>2. run' \in RunType /\ run'.summary = run.summary
    <3> DEFINE e == [dropped |-> run.dropped, truncated |-> truncated]
    <3>1. run' = [run EXCEPT !.at = "summarize", !.state = e] /\ "summarize" \in RunSteps
      BY <1>6 DEF ReadState, RunSteps
    <3>. HIDE DEF e
    <3>. QED
      BY <1>1, <2>1, <3>1, RunTyped, RunSummary DEF e
  <2>3. TypeOK'
    BY <1>1, <1>6, <2>2 DEF ReadState, journalVars, TypeOK, JournalTypeOK
  <2>. QED
    BY <1>2, <1>6, <2>2, <2>3, OutsideInv DEF ReadState, journalVars, TrueLines
<1>7. CASE Summarize
  <2> DEFINE s == Summary(Discovered, run.state.dropped, run.state.truncated)
  <2>1. s \in SummaryType /\ TrueLines(s.content)
    BY <1>3, <1>4, SummaryTyped
  <2>2. run' = [run EXCEPT !.at = "write", !.summary = s]
    BY <1>7 DEF Summarize
  <2>. HIDE DEF s
  <2>3. run' \in RunType /\ run'.summary = s
    BY <1>1, <2>1, <2>2, RunTyped, RunSummary DEF RunSteps
  <2>4. TypeOK'
    BY <1>1, <1>7, <2>3 DEF Summarize, journalVars, TypeOK, JournalTypeOK
  <2>. QED
    BY <1>2, <1>7, <2>1, <2>3, <2>4, OutsideInv DEF Summarize, journalVars, TrueLines
<1>8. CASE WriteRecord
  <2>1. record' = run.summary
    BY <1>8 DEF WriteRecord
  <2>2. run' \in RunType /\ run'.summary = run.summary
    BY <1>3, <1>8 DEF WriteRecord, Goto, RunSteps
  <2>3. TypeOK'
    BY <1>1, <1>3, <1>8, <2>1, <2>2 DEF WriteRecord, journalVars, TypeOK, JournalTypeOK
  <2>. QED
    BY <1>2, <1>8, <2>1, <2>2, <2>3, OutsideInv DEF WriteRecord, journalVars, TrueLines
<1>9. CASE Wait
  <2>1. run' \in RunType /\ run'.summary = run.summary
    BY <1>1, <1>9, RunTyped, RunSummary DEF Wait, RunSteps
  <2>2. TypeOK'
    BY <1>1, <1>9, <2>1 DEF Wait, journalVars, TypeOK, JournalTypeOK
  <2>. QED
    BY <1>2, <1>9, <2>1, <2>2, OutsideInv DEF Wait, journalVars, TrueLines
<1>10. CASE Dropped
  <2>1. run' \in RunType /\ run'.summary = run.summary
    BY <1>1, <1>10, RunTyped, RunSummary DEF Dropped, RunSteps
  <2>2. TypeOK'
    BY <1>1, <1>10, <2>1 DEF Dropped, journalVars, TypeOK, JournalTypeOK
  <2>. QED
    BY <1>2, <1>10, <2>1, <2>2, OutsideInv DEF Dropped, journalVars, TrueLines
<1>11. CASE Cancel \/ Close \/ Drain \/ Join \/ RunKilled
  <2>1. UNCHANGED <<journalVars, conn, record, decided>> /\ \E step \in RunSteps : Goto(step)
    BY <1>11 DEF Cancel, Close, Drain, Join, RunKilled, RunSteps, AfterProxy, Goto
  <2>2. run' \in RunType /\ run'.summary = run.summary
    BY <1>3, <2>1 DEF Goto
  <2>3. proxy' \in [closed : BOOLEAN, cancelled : BOOLEAN, serve : {"idle", "drain", "done"}]
        /\ agent' \in {"none", "running", "stray", "gone"}
    BY <1>1, <1>11 DEF Cancel, Close, Drain, Join, RunKilled, TypeOK
  <2>4. TypeOK'
    BY <1>1, <2>1, <2>2, <2>3 DEF journalVars, TypeOK, JournalTypeOK
  <2>. QED
    BY <1>2, <2>1, <2>2, <2>4, OutsideInv DEF journalVars, TrueLines
<1>12. CASE CloseSession \/ CloseFile
  <2>1. /\ UNCHANGED <<emitted, ring, lost, reader, writer, files, lines, lock, truncated, taken>>
        /\ UNCHANGED <<agent, conn, proxy, record, decided>>
        /\ session' \in {session, "closed"} /\ log' \in {log, "closed"}
        /\ \E step \in RunSteps : Goto(step)
    BY <1>12 DEF CloseSession, CloseFile, RunSteps, Goto
  <2>2. run' \in RunType /\ run'.summary = run.summary
    BY <1>3, <2>1 DEF Goto
  <2>3. TypeOK'
    BY <1>1, <2>1, <2>2 DEF TypeOK, JournalTypeOK
  <2>. QED
    BY <1>2, <2>1, <2>2, <2>3, OutsideInv DEF TrueLines
<1>13. CASE AgentExits \/ ServeCloses \/ ServeDrains
  <2>1. UNCHANGED <<journalVars, run, conn, record, decided>>
    BY <1>13 DEF AgentExits, ServeCloses, ServeDrains
  <2>2. agent' \in {"none", "running", "stray", "gone"}
    BY <1>1, <1>13 DEF AgentExits, ServeCloses, ServeDrains, TypeOK
  <2>3. proxy' \in [closed : BOOLEAN, cancelled : BOOLEAN, serve : {"idle", "drain", "done"}]
    BY <1>1, <1>13 DEF AgentExits, ServeCloses, ServeDrains, TypeOK
  <2>4. TypeOK'
    BY <1>1, <2>1, <2>2, <2>3 DEF journalVars, TypeOK, JournalTypeOK
  <2>. QED
    BY <1>2, <2>1, <2>4, OutsideInv DEF journalVars, TrueLines
<1>14. CASE Recover
  <2> DEFINE s == Summary(Discovered, record.dropped, record.truncated)
  <2>1. s \in SummaryType /\ TrueLines(s.content)
    BY <1>3, <1>4, SummaryTyped
  <2>2. record' = s
    BY <1>14 DEF Recover
  <2>. HIDE DEF s
  <2>3. run' \in RunType /\ run'.summary = run.summary
    BY <1>3, <1>14 DEF Recover, Goto, RunSteps
  <2>4. TypeOK'
    BY <1>1, <1>14, <2>1, <2>2, <2>3 DEF Recover, journalVars, TypeOK, JournalTypeOK
  <2>. QED
    BY <1>2, <1>14, <2>1, <2>2, <2>3, <2>4, OutsideInv DEF Recover, journalVars, TrueLines
<1>. QED
  BY <1>5, <1>6, <1>7, <1>8, <1>9, <1>10, <1>11, <1>12, <1>13, <1>14 DEF RunStep

LEMMA NextInv == IInv /\ [Next]_vars => IInv'
<1> SUFFICES ASSUME IInv, [Next]_vars PROVE IInv'
  OBVIOUS
<1>1. CASE UNCHANGED vars
  <2>1. UNCHANGED <<journalVars, limits, faults, run, agent, conn, proxy, record, decided, mode>>
    BY <1>1 DEF vars
  <2>2. TypeOK'
    BY <2>1 DEF IInv, TypeOK, JournalTypeOK, journalVars
  <2>. QED
    BY <2>1, <2>2 DEF IInv, HoldsInv, LinesInv, TraceInv, TrueLines, Logged, journalVars
<1>2. CASE Next
  <2>1. UNCHANGED <<limits, faults, mode>> \/ UNCHANGED vars
    BY <1>2 DEF Next
  <2>2. CASE Ended
    BY <1>1, <2>2 DEF Ended
  <2>3. CASE RunStep \/ AgentExits \/ ServeCloses \/ ServeDrains \/ Recover
    BY <1>2, <2>3, ProcessInv DEF Next
  <2>4. CASE \E c \in Conns : Handler(c)
    BY <1>2, <2>4, HandlerInv DEF Next
  <2>5. CASE ReaderStep /\ UNCHANGED <<run, agent, conn, proxy, record, decided>>
    BY <1>2, <2>5, ReaderInv DEF Next
  <2>6. CASE Emit /\ UNCHANGED <<run, agent, conn, proxy, record, decided>>
    BY <1>2, <2>6, EmitInv DEF Next
  <2>. QED
    BY <1>2, <2>2, <2>3, <2>4, <2>5, <2>6 DEF Next
<1>. QED
  BY <1>1, <1>2

LEMMA Invariance == Spec => []IInv
<1>1. QED
  BY InitInv, NextInv, PTL DEF Spec

-----------------------------------------------------------------------------
(* The theorems *)

\* Types of every variable of the evidence of a run.
THEOREM TypeCorrect == Spec => []TypeOK
<1>1. IInv => TypeOK
  BY DEF IInv
<1>. QED
  BY <1>1, Invariance, PTL

\* Evidence that verifies is what the writer was given, in that order, up to
\* some point: the numbers of a valid chain are the places in the history.
THEOREM Gapless == Spec => []NoHole
<1>1. IInv => NoHole
  <2> SUFFICES ASSUME IInv, Verified(record)
               PROVE  /\ Len(record.content) <= Len(taken)
                      /\ \A i \in DOMAIN record.content : record.content[i].event = taken[i]
    BY DEF NoHole
  <2>1. record.content \in Seq(Line) /\ taken \in Seq(Events) /\ TrueLines(record.content)
    BY DEF IInv, TypeOK, JournalTypeOK, SummaryType, LinesInv
  <2>2. \A i \in DOMAIN record.content : record.content[i].seq = i
    BY DEF Verified, ChainValid
  <2>3. \A i \in DOMAIN record.content : i <= Len(taken) /\ record.content[i].event = taken[i]
    BY <2>1, <2>2 DEF TrueLines
  <2>4. Len(record.content) <= Len(taken)
    <3>1. CASE Len(record.content) = 0
      BY <2>1, <3>1
    <3>2. CASE Len(record.content) # 0
      BY <2>1, <2>3, <3>2
    <3>. QED
      BY <3>1, <3>2
  <2>. QED
    BY <2>3, <2>4
<1>. QED
  BY <1>1, Invariance, PTL

\* The decision on a connection is in the log, or the evidence is flagged,
\* before the connection is made.
THEOREM Traced == Spec => []EgressIsEvidenced
<1>1. IInv => EgressIsEvidenced
  BY DEF IInv, TraceInv, EgressIsEvidenced
<1>. QED
  BY <1>1, Invariance, PTL

-----------------------------------------------------------------------------
(* The end of a run *)

\* From the wait for the handlers on, and when the last record is on its way.
Ending == run.ended /\ run.at \in {"state", "summarize", "write", "over"}
Drained == run.at \in {"dropped", "session", "join", "file"} \/ Ending

\* What belongs together, and which part of the way to the end is behind.
WayInv ==
    /\ run.attached <=> log # "none"
    /\ run.attached <=> files > 0
    /\ run.at = "attach" => ~run.attached
    /\ run.at \in {"attach", "wait"} => ~run.ended
    /\ run.at \in {"cancel", "close", "drain", "over"} \/ Drained => run.ended
    /\ run.at \in {"dropped", "session", "join", "file"} => run.attached
    /\ session = "closed" /\ Alive => run.at \in {"join", "file"} \/ Ending
    /\ run.ended => agent # "running"
    /\ agent = "none" <=> run.at = "attach"
    /\ agent = "stray" => "stray" \in faults

\* The proxy is closed by the run process, which waits for its handlers.
ClosedInv == "serve" \notin faults =>
    /\ Alive /\ proxy.closed => run.at = "drain" \/ Drained
    /\ run.at = "drain" \/ Drained => proxy.closed
    /\ Drained => \A c \in Conns : ~Active(c)

\* The reader is joined before the file is closed, and the file is closed
\* before the last record is made.
JoinedInv ==
    /\ ~run.attached => reader.at = "off"
    /\ run.at = "file" \/ Ending => reader.at \in {"off", "done"}
    /\ Ending => log # "open"

\* What the last record is made of is what there is.
LastInv ==
    /\ \A i \in DOMAIN lines : lines[i].file <= files
    /\ Ending /\ run.at # "state" =>
          /\ run.state.dropped = run.dropped
          /\ "serve" \notin faults => run.state.truncated = truncated
    /\ Ending /\ run.at \in {"write", "over"} =>
          run.summary = Summary(Discovered, run.state.dropped, run.state.truncated)
    /\ run.at = "over" => record = run.summary

-----------------------------------------------------------------------------
(* Where every event is *)

In(seq) == {seq[i] : i \in DOMAIN seq}

\* Nothing is in the log that did not happen.
SourceInv ==
    /\ In(ring) \subseteq 1..emitted
    /\ reader.at = "append" => reader.event \in 1..emitted
    /\ In(taken) \subseteq (1..emitted) \cup decided

\* An event of the kernel is on its way, in the log, or the log is flagged or
\* about to be.
KernelInv == "newer" \notin faults =>
    \A event \in 1..emitted :
        \/ event \in In(ring) \/ event \in Logged(lines) \/ lost > 0 \/ truncated
        \/ reader.at = "append" /\ reader.event = event
        \/ reader.at \in {"flag", "error"}

DecidedInv == \A c \in decided :
    c \in Logged(lines) \/ truncated \/ conn[c] \in {"flag", "error"}

\* The counter is read when nothing more can be dropped, and the session is
\* closed when nothing is left to read.
ReadInv ==
    /\ "newer" \notin faults /\ reader.at = "done" /\ session # "closed" => truncated
    /\ run.dropped <= lost
    /\ faults \cap {"slow", "stray", "newer"} = {} /\ run.attached
       /\ (run.at \in {"session", "join", "file"} \/ Ending) =>
              run.dropped = lost /\ (ring = <<>> \/ truncated)

-----------------------------------------------------------------------------
(* A run without a fault or a cap *)

Faultless == faults = {} /\ limits.max = 0

FlawlessInv == Faultless =>
    /\ run.at # "attach" => run.attached
    /\ \A c \in Conns : conn[c] # "none" => run.attached
    /\ log = "closed" => Ending
    /\ ~truncated /\ ~writer.truncated
    /\ reader.at \notin {"flag", "error"} /\ \A c \in Conns : conn[c] \notin {"flag", "error"}
    /\ writer.next = Len(lines) /\ ChainValid(lines) /\ Whole(lines)
    /\ writer.prev = IF lines = <<>> THEN 0 ELSE lines[Len(lines)].event

EInv == WayInv /\ ClosedInv /\ JoinedInv /\ LastInv /\ SourceInv /\ KernelInv /\ DecidedInv
        /\ ReadInv /\ FlawlessInv

-----------------------------------------------------------------------------
(* Steps of the run process and their effects *)

LEMMA RunFields ==
    ASSUME run \in RunType, NEW step
    PROVE  /\ run' = [run EXCEPT !.at = step] =>
                 run'.at = step /\ run'.attached = run.attached /\ run'.ended = run.ended
                 /\ run'.dropped = run.dropped /\ run'.state = run.state /\ run'.summary = run.summary
           /\ run' = [run EXCEPT !.at = step, !.attached = TRUE] =>
                 run'.at = step /\ run'.attached /\ run'.ended = run.ended
                 /\ run'.dropped = run.dropped /\ run'.state = run.state /\ run'.summary = run.summary
           /\ run' = [run EXCEPT !.at = step, !.ended = TRUE] =>
                 run'.at = step /\ run'.attached = run.attached /\ run'.ended
                 /\ run'.dropped = run.dropped /\ run'.state = run.state /\ run'.summary = run.summary
           /\ \A n : run' = [run EXCEPT !.at = step, !.dropped = n] =>
                 run'.at = step /\ run'.attached = run.attached /\ run'.ended = run.ended
                 /\ run'.dropped = n /\ run'.state = run.state /\ run'.summary = run.summary
           /\ \A s : run' = [run EXCEPT !.at = step, !.state = s] =>
                 run'.at = step /\ run'.attached = run.attached /\ run'.ended = run.ended
                 /\ run'.dropped = run.dropped /\ run'.state = s /\ run'.summary = run.summary
           /\ \A s : run' = [run EXCEPT !.at = step, !.summary = s] =>
                 run'.at = step /\ run'.attached = run.attached /\ run'.ended = run.ended
                 /\ run'.dropped = run.dropped /\ run'.state = run.state /\ run'.summary = s
  BY DEF RunType

LEMMA ProxyFields ==
    ASSUME TypeOK
    PROVE  /\ proxy' = [proxy EXCEPT !.closed = TRUE] => proxy'.closed
           /\ proxy' = [proxy EXCEPT !.cancelled = TRUE] => proxy'.closed = proxy.closed
           /\ \A s : proxy' = [proxy EXCEPT !.serve = s] => proxy'.closed = proxy.closed
           /\ \A s : proxy' = [proxy EXCEPT !.closed = TRUE, !.serve = s] => proxy'.closed
  BY DEF TypeOK

LEMMA IntervalSize == ASSUME NEW k \in Nat PROVE Cardinality(1..k) = k
  BY FS_Interval

\* All files that are found hold all lines.
LEMMA ContentIsAll ==
    ASSUME TypeOK, NEW n \in Nat, \A i \in DOMAIN lines : lines[i].file <= n
    PROVE  Content(n) = lines
<1> DEFINE S == {i \in DOMAIN lines : lines[i].file <= n}
<1>1. lines \in Seq(Line) /\ Len(lines) \in Nat /\ DOMAIN lines = 1..Len(lines)
  BY DEF TypeOK, JournalTypeOK
<1>2. S = 1..Len(lines)
  BY <1>1
<1>3. Cardinality(1..Len(lines)) = Len(lines)
  BY <1>1, IntervalSize
<1>4. Content(n) = SubSeq(lines, 1, Len(lines))
  BY <1>2, <1>3 DEF Content
<1>. QED
  BY <1>1, <1>4

LEMMA DiscoverAll ==
    ASSUME TypeOK, LastInv
    PROVE  Discovered \in Nat /\ Content(Discovered) = lines
<1>1. files \in Nat /\ lines \in Seq(Line)
  BY DEF TypeOK, JournalTypeOK
<1>2. Discovered \in Nat /\ files <= Discovered
  BY <1>1 DEF Discovered
<1>3. \A i \in DOMAIN lines : lines[i].file \in Nat
  <2>1. \A i \in DOMAIN lines : lines[i] \in Line
    BY <1>1
  <2>. QED
    BY <2>1 DEF Line
<1>4. \A i \in DOMAIN lines : lines[i].file <= Discovered
  BY <1>1, <1>2, <1>3 DEF LastInv
<1>. QED
  BY <1>2, <1>4, ContentIsAll

\* The journal of a step that only moves the run process.
LEMMA JournalStill ==
    ASSUME EInv, UNCHANGED <<emitted, ring, lost, lines, taken, truncated, conn, decided, faults>>,
           UNCHANGED reader \/ (reader.at = "off" /\ reader'.at = "read")
    PROVE  SourceInv' /\ KernelInv' /\ DecidedInv'
<1>1. SourceInv /\ KernelInv /\ DecidedInv
  BY DEF EInv
<1>2. SourceInv'
  BY <1>1 DEF SourceInv, In
<1>3. KernelInv'
  BY <1>1 DEF KernelInv, In, Logged
<1>4. DecidedInv'
  BY <1>1 DEF DecidedInv, Logged
<1>. QED
  BY <1>2, <1>3, <1>4

\* Steps of the run process.  The part of the invariant that is about the
\* journal is JournalStill.
LEMMA StartKeeps ==
    ASSUME IInv, EInv, IInv', Start, UNCHANGED <<limits, faults, mode>>
    PROVE  EInv'
<1>1. /\ TypeOK /\ run \in RunType /\ truncated \in BOOLEAN /\ lost \in Nat /\ files \in Nat
      /\ run.dropped \in Nat /\ reader \in ReaderType /\ lines \in Seq(Line)
      /\ WayInv /\ ClosedInv /\ JoinedInv /\ LastInv /\ ReadInv /\ FlawlessInv
  BY DEF IInv, EInv, TypeOK, JournalTypeOK, RunType
<1>2. UNCHANGED <<emitted, ring, lost, lines, taken, truncated, conn, decided, faults, limits, proxy, record, writer>>
  BY DEF Start, Attach, journalVars
<1>3. /\ run.at = "attach" /\ ~run.attached /\ reader.at = "off" /\ ~(files > 0) /\ ~run.ended
      /\ log = "none"
  BY <1>1 DEF Start, WayInv, JoinedInv
<1>4. \/ /\ run'.at = "state" /\ run'.attached /\ ~run'.ended /\ agent' = "running"
         /\ log' = "open" /\ files' = 1 /\ reader'.at = "read" /\ session' = "open"
      \/ /\ run'.at = "state" /\ ~run'.attached /\ ~run'.ended /\ agent' = "running"
         /\ "sensor" \in faults /\ UNCHANGED <<log, files, reader, session>>
      \/ /\ run'.at = "cancel" /\ ~run'.attached /\ run'.ended /\ agent' = "gone"
         /\ "attach" \in faults /\ UNCHANGED <<log, files, reader, session>>
  <2>1. CASE Attach /\ agent' = "running" /\ run' = [run EXCEPT !.at = "state", !.attached = TRUE]
    <3>1. reader'.at = "read" /\ log' = "open" /\ files' = 1 /\ session' = "open"
      BY <1>1, <2>1 DEF Attach, ReaderType
    <3>2. run'.at = "state" /\ run'.attached /\ run'.ended = run.ended
      BY <1>1, <2>1, RunFields
    <3>. QED
      BY <1>3, <2>1, <3>1, <3>2
  <2>2. CASE "sensor" \in faults /\ UNCHANGED journalVars /\ agent' = "running" /\ Goto("state")
    <3>1. run'.at = "state" /\ run'.attached = run.attached /\ run'.ended = run.ended
      BY <1>1, <2>2, RunFields DEF Goto
    <3>. QED
      BY <1>3, <2>2, <3>1 DEF journalVars
  <2>3. CASE "attach" \in faults /\ UNCHANGED journalVars /\ agent' = "gone"
             /\ run' = [run EXCEPT !.at = "cancel", !.ended = TRUE]
    <3>1. run'.at = "cancel" /\ run'.attached = run.attached /\ run'.ended
      BY <1>1, <2>3, RunFields
    <3>. QED
      BY <1>3, <2>3, <3>1 DEF journalVars
  <2>. QED
    BY <2>1, <2>2, <2>3 DEF Start
<1>5. run'.dropped = run.dropped
  BY <1>1, RunFields DEF Start, Goto
<1>6. SourceInv' /\ KernelInv' /\ DecidedInv'
  BY <1>2, <1>3, <1>4, JournalStill
<1>7. WayInv'
  BY <1>1, <1>3, <1>4 DEF WayInv, Drained, Ending, Alive
<1>8. ClosedInv'
  BY <1>1, <1>2, <1>3, <1>4 DEF ClosedInv, Drained, Ending, Alive
<1>9. JoinedInv'
  BY <1>1, <1>3, <1>4 DEF JoinedInv, Ending
<1>10. LastInv'
  <2>1. \A i \in DOMAIN lines : lines[i].file \in Nat
    <3>1. \A i \in DOMAIN lines : lines[i] \in Line
      BY <1>1
    <3>. QED
      BY <3>1 DEF Line
  <2>2. \A i \in DOMAIN lines : lines[i].file <= files'
    BY <1>1, <1>3, <1>4, <2>1 DEF LastInv
  <2>. QED
    BY <1>2, <1>3, <1>4, <2>2 DEF LastInv, Ending
<1>11. ReadInv'
  BY <1>1, <1>2, <1>3, <1>4, <1>5 DEF ReadInv, Ending
<1>12. FlawlessInv'
  <2>1. Faultless' => run'.attached /\ log' = "open" /\ reader'.at = "read" /\ Faultless
    BY <1>2, <1>4 DEF Faultless
  <2>. QED
    BY <1>1, <1>2, <2>1 DEF FlawlessInv, ChainValid, Whole
<1>. QED
  BY <1>6, <1>7, <1>8, <1>9, <1>10, <1>11, <1>12 DEF EInv

LEMMA FlawlessStill ==
    ASSUME FlawlessInv, UNCHANGED <<reader, writer, lines, truncated, conn, faults, limits>>,
           run.at # "attach", run'.attached = run.attached,
           Faultless /\ log' = "closed" => Ending'
    PROVE  FlawlessInv'
  BY DEF FlawlessInv, Faultless, ChainValid, Whole

LEMMA RunKeeps ==
    ASSUME IInv, EInv, IInv', RunStep, ~Start, UNCHANGED <<limits, faults, mode>>
    PROVE  EInv'
<1> DEFINE Others == WayInv /\ ClosedInv /\ JoinedInv /\ LastInv /\ ReadInv
<1>1. /\ TypeOK /\ run \in RunType /\ truncated \in BOOLEAN /\ lost \in Nat /\ files \in Nat
      /\ run.dropped \in Nat /\ reader \in ReaderType
      /\ log \in {"none", "open", "closed"} /\ session \in {"none", "open", "closed"}
      /\ WayInv /\ ClosedInv /\ JoinedInv /\ LastInv /\ ReadInv /\ FlawlessInv
  BY DEF IInv, EInv, TypeOK, JournalTypeOK, RunType
<1>2. UNCHANGED <<emitted, ring, lost, reader, writer, files, lines, taken, truncated, conn, decided>>
  BY DEF RunStep, ReadState, Summarize, WriteRecord, Wait, Cancel, Close, Drain,
         Dropped, CloseSession, Join, CloseFile, RunKilled, journalVars
<1>3. SourceInv' /\ KernelInv' /\ DecidedInv'
  BY <1>2, JournalStill
<1>4. CASE ReadState
  <2> DEFINE s == [dropped |-> run.dropped, truncated |-> truncated]
  <2>1. run.at = "state" /\ UNCHANGED <<log, session, agent, proxy, record>>
        /\ run' = [run EXCEPT !.at = "summarize", !.state = s]
    BY <1>4 DEF ReadState, journalVars
  <2>2. s.dropped = run.dropped /\ s.truncated = truncated
    OBVIOUS
  <2>. HIDE DEF s
  <2>3. run'.at = "summarize" /\ run'.attached = run.attached /\ run'.ended = run.ended
        /\ run'.dropped = run.dropped /\ run'.state = s
    BY <1>1, <2>1, RunFields
  <2>4. WayInv' /\ ClosedInv' /\ JoinedInv'
    BY <1>1, <1>2, <2>1, <2>3 DEF WayInv, ClosedInv, JoinedInv, Drained, Ending, Alive, Active
  <2>5. LastInv' /\ ReadInv'
    BY <1>1, <1>2, <2>1, <2>2, <2>3 DEF LastInv, ReadInv, Ending
  <2>6. FlawlessInv'
    BY <1>1, <1>2, <2>1, <2>3, FlawlessStill DEF FlawlessInv, Ending
  <2>. QED
    BY <1>3, <2>4, <2>5, <2>6 DEF EInv
<1>5. CASE Summarize
  <2> DEFINE s == Summary(Discovered, run.state.dropped, run.state.truncated)
  <2>1. run.at = "summarize" /\ UNCHANGED <<log, session, agent, proxy, record>>
        /\ run' = [run EXCEPT !.at = "write", !.summary = s]
    BY <1>5 DEF Summarize, journalVars
  <2>. HIDE DEF s
  <2>2. run'.at = "write" /\ run'.attached = run.attached /\ run'.ended = run.ended
        /\ run'.dropped = run.dropped /\ run'.state = run.state /\ run'.summary = s
    BY <1>1, <2>1, RunFields
  <2>3. s = Summary(Discovered, run.state.dropped, run.state.truncated)'
    BY <1>2, <2>2 DEF s, Summary, Discovered, Content, Whole
  <2>4. WayInv' /\ ClosedInv' /\ JoinedInv'
    BY <1>1, <1>2, <2>1, <2>2 DEF WayInv, ClosedInv, JoinedInv, Drained, Ending, Alive, Active
  <2>5. LastInv' /\ ReadInv'
    BY <1>1, <1>2, <2>1, <2>2, <2>3 DEF LastInv, ReadInv, Ending
  <2>6. FlawlessInv'
    BY <1>1, <1>2, <2>1, <2>2, FlawlessStill DEF FlawlessInv, Ending
  <2>. QED
    BY <1>3, <2>4, <2>5, <2>6 DEF EInv
<1>6. CASE WriteRecord
  <2>1. run.at = "write" /\ UNCHANGED <<log, session, agent, proxy>> /\ record' = run.summary
        /\ run' = [run EXCEPT !.at = IF run.ended THEN "over" ELSE "wait"]
    BY <1>6 DEF WriteRecord, Goto, journalVars
  <2>2. run'.at = (IF run.ended THEN "over" ELSE "wait")
        /\ run'.attached = run.attached /\ run'.ended = run.ended
        /\ run'.dropped = run.dropped /\ run'.state = run.state /\ run'.summary = run.summary
    BY <1>1, <2>1, RunFields
  <2>3. Summary(Discovered, run.state.dropped, run.state.truncated)
          = Summary(Discovered, run.state.dropped, run.state.truncated)'
    BY <1>2, <2>2 DEF Summary, Discovered, Content, Whole
  <2>4. WayInv' /\ ClosedInv' /\ JoinedInv'
    BY <1>1, <1>2, <2>1, <2>2 DEF WayInv, ClosedInv, JoinedInv, Drained, Ending, Alive, Active
  <2>5. LastInv' /\ ReadInv'
    BY <1>1, <1>2, <2>1, <2>2, <2>3 DEF LastInv, ReadInv, Ending
  <2>6. FlawlessInv'
    BY <1>1, <1>2, <2>1, <2>2, FlawlessStill DEF FlawlessInv, Ending
  <2>. QED
    BY <1>3, <2>4, <2>5, <2>6 DEF EInv
<1>7. CASE Wait
  <2>1. run.at = "wait" /\ agent # "running" /\ UNCHANGED <<log, session, agent, proxy, record>>
        /\ run' = [run EXCEPT !.at = "cancel", !.ended = TRUE]
    BY <1>7 DEF Wait, journalVars
  <2>2. run'.at = "cancel" /\ run'.attached = run.attached /\ run'.ended
        /\ run'.dropped = run.dropped
    BY <1>1, <2>1, RunFields
  <2>3. WayInv' /\ ClosedInv' /\ JoinedInv'
    BY <1>1, <1>2, <2>1, <2>2 DEF WayInv, ClosedInv, JoinedInv, Drained, Ending, Alive, Active
  <2>4. LastInv' /\ ReadInv'
    BY <1>1, <1>2, <2>1, <2>2 DEF LastInv, ReadInv, Ending
  <2>5. FlawlessInv'
    BY <1>1, <1>2, <2>1, <2>2, FlawlessStill DEF FlawlessInv, Ending
  <2>. QED
    BY <1>3, <2>3, <2>4, <2>5 DEF EInv
<1>8. CASE Cancel
  <2>1. run.at = "cancel" /\ UNCHANGED <<log, session, agent, record>>
        /\ proxy' = [proxy EXCEPT !.cancelled = TRUE] /\ run' = [run EXCEPT !.at = "close"]
    BY <1>8 DEF Cancel, Goto, journalVars
  <2>2. run'.at = "close" /\ run'.attached = run.attached /\ run'.ended = run.ended
        /\ run'.dropped = run.dropped /\ proxy'.closed = proxy.closed
    BY <1>1, <2>1, RunFields, ProxyFields
  <2>3. WayInv' /\ ClosedInv' /\ JoinedInv'
    BY <1>1, <1>2, <2>1, <2>2 DEF WayInv, ClosedInv, JoinedInv, Drained, Ending, Alive, Active
  <2>4. LastInv' /\ ReadInv'
    BY <1>1, <1>2, <2>1, <2>2 DEF LastInv, ReadInv, Ending
  <2>5. FlawlessInv'
    BY <1>1, <1>2, <2>1, <2>2, FlawlessStill DEF FlawlessInv, Ending
  <2>. QED
    BY <1>3, <2>3, <2>4, <2>5 DEF EInv
<1>9. CASE Close
  <2>1. run.at = "close" /\ UNCHANGED <<log, session, agent, record>>
        /\ proxy' = [proxy EXCEPT !.closed = TRUE]
        /\ run' = [run EXCEPT !.at = IF proxy.closed THEN AfterProxy ELSE "drain"]
    BY <1>9 DEF Close, Goto, journalVars
  <2>2. run'.at = (IF proxy.closed THEN AfterProxy ELSE "drain") /\ run'.attached = run.attached
        /\ run'.ended = run.ended /\ run'.dropped = run.dropped /\ proxy'.closed
    BY <1>1, <2>1, RunFields, ProxyFields
  <2>3. "serve" \notin faults => ~proxy.closed
    BY <1>1, <2>1 DEF ClosedInv, Alive, Drained, Ending
  <2>4. WayInv' /\ ClosedInv' /\ JoinedInv'
    BY <1>1, <1>2, <2>1, <2>2, <2>3
       DEF WayInv, ClosedInv, JoinedInv, Drained, Ending, Alive, Active, AfterProxy
  <2>5. LastInv' /\ ReadInv'
    BY <1>1, <1>2, <2>1, <2>2 DEF LastInv, ReadInv, Ending, AfterProxy
  <2>6. FlawlessInv'
    BY <1>1, <1>2, <2>1, <2>2, FlawlessStill DEF FlawlessInv, Ending
  <2>. QED
    BY <1>3, <2>4, <2>5, <2>6 DEF EInv
<1>10. CASE Drain
  <2>1. run.at = "drain" /\ UNCHANGED <<log, session, agent, proxy, record>>
        /\ run' = [run EXCEPT !.at = AfterProxy] /\ \A c \in Conns : ~Active(c)
    BY <1>10 DEF Drain, Goto, journalVars
  <2>2. run'.at = AfterProxy /\ run'.attached = run.attached
        /\ run'.ended = run.ended /\ run'.dropped = run.dropped
    BY <1>1, <2>1, RunFields
  <2>3. WayInv' /\ ClosedInv' /\ JoinedInv'
    BY <1>1, <1>2, <2>1, <2>2
       DEF WayInv, ClosedInv, JoinedInv, Drained, Ending, Alive, Active, AfterProxy
  <2>4. LastInv' /\ ReadInv'
    BY <1>1, <1>2, <2>1, <2>2 DEF LastInv, ReadInv, Ending, AfterProxy
  <2>5. FlawlessInv'
    BY <1>1, <1>2, <2>1, <2>2, FlawlessStill DEF FlawlessInv, Ending
  <2>. QED
    BY <1>3, <2>3, <2>4, <2>5 DEF EInv
<1>11. CASE Dropped
  <2>1. run.at = "dropped" /\ UNCHANGED <<log, session, agent, proxy, record>>
        /\ run' = [run EXCEPT !.at = "session", !.dropped = lost]
        /\ (ring = <<>> \/ reader.at = "done" \/ "slow" \in faults)
    BY <1>11 DEF Dropped, journalVars
  <2>2. run'.at = "session" /\ run'.attached = run.attached
        /\ run'.ended = run.ended /\ run'.dropped = lost
    BY <1>1, <2>1, RunFields
  <2>3. WayInv' /\ ClosedInv' /\ JoinedInv'
    BY <1>1, <1>2, <2>1, <2>2 DEF WayInv, ClosedInv, JoinedInv, Drained, Ending, Alive, Active
  <2>4. LastInv' /\ ReadInv'
    BY <1>1, <1>2, <2>1, <2>2 DEF LastInv, ReadInv, WayInv, Alive, Ending
  <2>5. FlawlessInv'
    BY <1>1, <1>2, <2>1, <2>2, FlawlessStill DEF FlawlessInv, Ending
  <2>. QED
    BY <1>3, <2>3, <2>4, <2>5 DEF EInv
<1>12. CASE CloseSession
  <2>1. run.at = "session" /\ UNCHANGED <<log, agent, proxy, record>> /\ session' = "closed"
        /\ run' = [run EXCEPT !.at = "join"]
    BY <1>12 DEF CloseSession, Goto
  <2>2. run'.at = "join" /\ run'.attached = run.attached
        /\ run'.ended = run.ended /\ run'.dropped = run.dropped
    BY <1>1, <2>1, RunFields
  <2>3. WayInv' /\ ClosedInv' /\ JoinedInv'
    BY <1>1, <1>2, <2>1, <2>2 DEF WayInv, ClosedInv, JoinedInv, Drained, Ending, Alive, Active
  <2>4. LastInv' /\ ReadInv'
    BY <1>1, <1>2, <2>1, <2>2 DEF LastInv, ReadInv, Ending
  <2>5. FlawlessInv'
    BY <1>1, <1>2, <2>1, <2>2, FlawlessStill DEF FlawlessInv, Ending
  <2>. QED
    BY <1>3, <2>3, <2>4, <2>5 DEF EInv
<1>13. CASE Join
  <2>1. run.at = "join" /\ UNCHANGED <<log, session, agent, proxy, record>> /\ reader.at = "done"
        /\ run' = [run EXCEPT !.at = "file"]
    BY <1>13 DEF Join, Goto, journalVars
  <2>2. run'.at = "file" /\ run'.attached = run.attached
        /\ run'.ended = run.ended /\ run'.dropped = run.dropped
    BY <1>1, <2>1, RunFields
  <2>3. WayInv' /\ ClosedInv' /\ JoinedInv'
    BY <1>1, <1>2, <2>1, <2>2 DEF WayInv, ClosedInv, JoinedInv, Drained, Ending, Alive, Active
  <2>4. LastInv' /\ ReadInv'
    BY <1>1, <1>2, <2>1, <2>2 DEF LastInv, ReadInv, Ending
  <2>5. FlawlessInv'
    BY <1>1, <1>2, <2>1, <2>2, FlawlessStill DEF FlawlessInv, Ending
  <2>. QED
    BY <1>3, <2>3, <2>4, <2>5 DEF EInv
<1>14. CASE CloseFile
  <2>1. run.at = "file" /\ UNCHANGED <<session, agent, proxy, record>> /\ log' = "closed"
        /\ run' = [run EXCEPT !.at = "state"]
    BY <1>14 DEF CloseFile, Goto
  <2>2. run'.at = "state" /\ run'.attached = run.attached
        /\ run'.ended = run.ended /\ run'.dropped = run.dropped
    BY <1>1, <2>1, RunFields
  <2>3. WayInv' /\ ClosedInv' /\ JoinedInv'
    BY <1>1, <1>2, <2>1, <2>2 DEF WayInv, ClosedInv, JoinedInv, Drained, Ending, Alive, Active
  <2>4. LastInv' /\ ReadInv'
    BY <1>1, <1>2, <2>1, <2>2 DEF LastInv, ReadInv, Ending
  <2>5. FlawlessInv'
    BY <1>1, <1>2, <2>1, <2>2, FlawlessStill DEF FlawlessInv, Ending, WayInv, Drained
  <2>. QED
    BY <1>3, <2>3, <2>4, <2>5 DEF EInv
<1>15. CASE RunKilled
  <2>1. "kill" \in faults /\ UNCHANGED <<log, session, proxy, record>> /\ agent' = "gone"
        /\ run' = [run EXCEPT !.at = "killed"]
    BY <1>15 DEF RunKilled, Goto, journalVars
  <2>2. run'.at = "killed" /\ run'.attached = run.attached
        /\ run'.ended = run.ended /\ run'.dropped = run.dropped
    BY <1>1, <2>1, RunFields
  <2>3. WayInv' /\ ClosedInv' /\ JoinedInv'
    BY <1>1, <1>2, <2>1, <2>2 DEF WayInv, ClosedInv, JoinedInv, Drained, Ending, Alive, Active
  <2>4. LastInv' /\ ReadInv'
    BY <1>1, <1>2, <2>1, <2>2 DEF LastInv, ReadInv, Ending
  <2>5. FlawlessInv'
    BY <1>2, <2>1 DEF FlawlessInv, Faultless
  <2>. QED
    BY <1>3, <2>3, <2>4, <2>5 DEF EInv
<1>. QED
  BY <1>4, <1>5, <1>6, <1>7, <1>8, <1>9, <1>10, <1>11, <1>12, <1>13, <1>14, <1>15 DEF RunStep

LEMMA OthersKeep ==
    ASSUME IInv, EInv, IInv', AgentExits \/ ServeCloses \/ ServeDrains, Alive,
           UNCHANGED <<limits, faults, mode>>
    PROVE  EInv'
<1>1. /\ TypeOK /\ WayInv /\ ClosedInv /\ JoinedInv /\ LastInv /\ ReadInv /\ FlawlessInv
      /\ SourceInv /\ KernelInv /\ DecidedInv
  BY DEF IInv, EInv
<1>2. UNCHANGED <<emitted, ring, lost, session, reader, writer, log, files, lines, lock, truncated, taken>>
      /\ UNCHANGED <<conn, decided, run, record>>
  BY DEF AgentExits, ServeCloses, ServeDrains, journalVars
<1>3. \/ agent = "running" /\ agent' \in {"gone", "stray"} /\ (agent' = "stray" => "stray" \in faults)
      \/ agent' = agent
  BY DEF AgentExits, ServeCloses, ServeDrains
<1>4. "serve" \notin faults => proxy'.closed = proxy.closed
  <2>1. CASE ServeCloses
    <3>1. proxy' = [proxy EXCEPT !.closed = TRUE, !.serve = IF proxy.closed THEN "done" ELSE "drain"]
      BY <2>1 DEF ServeCloses
    <3>2. proxy'.closed = TRUE
      BY <1>1, <3>1 DEF TypeOK
    <3>3. "serve" \notin faults => proxy.closed = TRUE
      BY <1>1, <2>1 DEF ServeCloses, TypeOK
    <3>. QED
      BY <3>2, <3>3
  <2>2. CASE ServeDrains
    BY <1>1, <2>2, ProxyFields DEF ServeDrains
  <2>3. CASE AgentExits
    BY <2>3 DEF AgentExits
  <2>. QED
    BY <2>1, <2>2, <2>3
<1>5. SourceInv' /\ KernelInv' /\ DecidedInv'
  BY <1>2, JournalStill
<1>6. WayInv' /\ JoinedInv' /\ ReadInv'
  BY <1>1, <1>2, <1>3 DEF WayInv, JoinedInv, ReadInv, Drained, Ending, Alive
<1>7. ClosedInv'
  BY <1>1, <1>2, <1>4 DEF ClosedInv, Drained, Ending, Alive, Active
<1>8. LastInv'
  BY <1>1, <1>2 DEF LastInv, Ending, Summary, Discovered, Content, Whole
<1>9. FlawlessInv'
  BY <1>1, <1>2 DEF FlawlessInv, Faultless, Ending, ChainValid, Whole
<1>. QED
  BY <1>5, <1>6, <1>7, <1>8, <1>9 DEF EInv

LEMMA RecoverKeeps ==
    ASSUME IInv, EInv, IInv', Recover, UNCHANGED <<limits, faults, mode>>
    PROVE  EInv'
<1>1. /\ TypeOK /\ WayInv /\ ClosedInv /\ JoinedInv /\ LastInv /\ ReadInv /\ FlawlessInv
      /\ SourceInv /\ KernelInv /\ DecidedInv /\ run \in RunType
  BY DEF IInv, EInv, TypeOK
<1>2. UNCHANGED <<emitted, ring, lost, session, reader, writer, log, files, lines, lock, truncated, taken>>
      /\ UNCHANGED <<conn, decided, agent, proxy>> /\ run.at = "killed"
      /\ run' = [run EXCEPT !.at = "recovered"]
  BY DEF Recover, Goto, journalVars
<1>3. run'.at = "recovered" /\ run'.attached = run.attached /\ run'.ended = run.ended
      /\ run'.dropped = run.dropped
  BY <1>1, <1>2, RunFields
<1>4. SourceInv' /\ KernelInv' /\ DecidedInv'
  BY <1>2, JournalStill
<1>5. WayInv' /\ JoinedInv' /\ ReadInv' /\ ClosedInv' /\ LastInv'
  BY <1>1, <1>2, <1>3
     DEF WayInv, JoinedInv, ReadInv, ClosedInv, LastInv, Drained, Ending, Alive, Active
<1>6. FlawlessInv'
  BY <1>1, <1>2, <1>3, FlawlessStill DEF FlawlessInv, Ending
<1>. QED
  BY <1>4, <1>5, <1>6 DEF EInv

-----------------------------------------------------------------------------
(* Steps of the kernel, the reader and the handlers *)

LEMMA InAppend ==
    ASSUME NEW S, NEW seq \in Seq(S), NEW x
    PROVE  In(Append(seq, x)) = In(seq) \cup {x}
<1> DEFINE more == Append(seq, x)
<1>1. /\ DOMAIN more = 1..(Len(seq) + 1) /\ DOMAIN seq = 1..Len(seq) /\ Len(seq) \in Nat
      /\ \A i \in 1..Len(seq) : more[i] = seq[i]
      /\ more[Len(seq) + 1] = x
  OBVIOUS
<1>2. DOMAIN more = DOMAIN seq \cup {Len(seq) + 1}
  BY <1>1
<1>. HIDE DEF more
<1>. QED
  BY <1>1, <1>2 DEF In, more

LEMMA InTail ==
    ASSUME NEW S, NEW seq \in Seq(S), seq # <<>>
    PROVE  In(seq) = In(Tail(seq)) \cup {Head(seq)}
<1>1. /\ Len(seq) \in Nat /\ Len(seq) >= 1 /\ DOMAIN seq = 1..Len(seq)
      /\ DOMAIN Tail(seq) = 1..(Len(seq) - 1) /\ Head(seq) = seq[1]
      /\ \A i \in 1..(Len(seq) - 1) : Tail(seq)[i] = seq[i + 1]
  OBVIOUS
<1>2. In(Tail(seq)) \cup {Head(seq)} \subseteq In(seq)
  <2>1. \A i \in 1..(Len(seq) - 1) : i + 1 \in 1..Len(seq)
    BY <1>1
  <2>2. 1 \in 1..Len(seq)
    BY <1>1
  <2>. QED
    BY <1>1, <2>1, <2>2 DEF In
<1>3. In(seq) \subseteq In(Tail(seq)) \cup {Head(seq)}
  <2>1. ASSUME NEW i \in 1..Len(seq) PROVE seq[i] \in In(Tail(seq)) \cup {Head(seq)}
    <3>1. CASE i = 1
      BY <1>1, <3>1
    <3>2. CASE i # 1
      <4>1. i - 1 \in 1..(Len(seq) - 1) /\ Tail(seq)[i - 1] = seq[i]
        BY <1>1, <3>2
      <4>. QED
        BY <1>1, <4>1 DEF In
    <3>. QED
      BY <3>1, <3>2
  <2>. QED
    BY <1>1, <2>1 DEF In
<1>. QED
  BY <1>2, <1>3

LEMMA EmitKeeps ==
    ASSUME IInv, EInv, IInv', Emit, agent \in {"running", "stray"}, Alive,
           UNCHANGED <<run, agent, conn, proxy, record, decided, limits, faults, mode>>
    PROVE  EInv'
<1>1. /\ TypeOK /\ WayInv /\ ClosedInv /\ JoinedInv /\ LastInv /\ ReadInv /\ FlawlessInv
      /\ SourceInv /\ KernelInv /\ DecidedInv /\ run \in RunType
      /\ ring \in Seq(Kernel) /\ lost \in Nat /\ emitted \in Nat /\ run.dropped \in Nat
  BY Constants DEF IInv, EInv, TypeOK, JournalTypeOK, RunType
<1>2. UNCHANGED <<session, reader, writer, log, files, lines, lock, truncated, taken>>
      /\ emitted' = emitted + 1 /\ session = "open"
  BY DEF Emit
<1>3. \/ ring' = Append(ring, emitted + 1) /\ lost' = lost
      \/ lost' = lost + 1 /\ ring' = ring
  BY DEF Emit
<1>4. (In(ring') = In(ring) \cup {emitted + 1} /\ lost' = lost) \/ (ring' = ring /\ lost' = lost + 1)
  BY <1>1, <1>3, InAppend
<1>5. 1..emitted' = (1..emitted) \cup {emitted + 1}
  BY <1>1, <1>2
<1>6. SourceInv'
  <2>1. In(ring') \subseteq In(ring) \cup {emitted + 1} /\ In(taken') = In(taken)
    BY <1>2, <1>4
  <2>. QED
    BY <1>1, <1>2, <1>5, <2>1 DEF SourceInv
<1>7. KernelInv'
  <2>1. \A event \in 1..emitted : event \in In(ring) => event \in In(ring')
    BY <1>4
  <2>2. emitted + 1 \in In(ring') \/ lost' > 0
    BY <1>1, <1>4
  <2>3. lost > 0 => lost' > 0
    BY <1>1, <1>4
  <2>4. Logged(lines') = Logged(lines)
    BY <1>2
  <2>. QED
    BY <1>1, <1>2, <1>5, <2>1, <2>2, <2>3, <2>4 DEF KernelInv
<1>8. DecidedInv' /\ WayInv' /\ JoinedInv' /\ ClosedInv'
  BY <1>1, <1>2 DEF DecidedInv, WayInv, JoinedInv, ClosedInv, Drained, Ending, Alive, Active, Logged
<1>9. LastInv'
  BY <1>1, <1>2 DEF LastInv, Ending, Summary, Discovered, Content, Whole
<1>10. ReadInv'
  <2>1. run.dropped <= lost'
    BY <1>1, <1>4 DEF ReadInv
  <2>2. ~run.ended \/ "stray" \in faults
    BY <1>1 DEF WayInv
  <2>3. run.at \in {"session", "join", "file"} \/ Ending => run.ended
    BY <1>1 DEF WayInv, Ending, Drained
  <2>. QED
    BY <1>1, <1>2, <2>1, <2>2, <2>3 DEF ReadInv, Ending
<1>11. FlawlessInv'
  BY <1>1, <1>2 DEF FlawlessInv, Faultless, Ending, ChainValid, Whole
<1>. QED
  BY <1>6, <1>7, <1>8, <1>9, <1>10, <1>11 DEF EInv

\* What an Append does to the files and the lines, and what it leaves behind.
LEMMA AppendEffect ==
    ASSUME IInv, WayInv, LastInv, NEW event \in Events, Writes(event) \/ Drops(event) \/ Breaks(event),
           log # "none"
    PROVE  /\ files' > 0 /\ log' # "none"
           /\ log # "open" => log' = log /\ UNCHANGED <<lines, files>>
           /\ \A i \in DOMAIN lines' : lines'[i].file <= files'
           /\ Logged(lines) \subseteq Logged(lines')
           /\ Writes(event) => event \in Logged(lines')
           /\ Drops(event) => writer'.truncated
<1>1. /\ TypeOK /\ files \in Nat /\ files > 0 /\ lines \in Seq(Line) /\ writer \in WriterType
  BY DEF IInv, TypeOK, JournalTypeOK, WayInv
<1>2. \A i \in DOMAIN lines : lines[i].file <= files /\ lines[i].file \in Nat
  <2>1. \A i \in DOMAIN lines : lines[i] \in Line
    BY <1>1
  <2>. QED
    BY <2>1 DEF LastInv, Line
<1>3. files' \in {files, files + 1}
  BY DEF Writes, Drops, Breaks
<1>4. log' # "none" /\ (log # "open" => log' = log /\ UNCHANGED <<lines, files>>)
  BY DEF Writes, Drops, Breaks
<1>5. ASSUME NEW line, line.file = files', lines' = Append(lines, line)
      PROVE  /\ \A i \in DOMAIN lines' : lines'[i].file <= files'
             /\ Logged(lines') = Logged(lines) \cup {line.event}
  <2>1. /\ DOMAIN lines' = 1..(Len(lines) + 1) /\ DOMAIN lines = 1..Len(lines)
        /\ \A i \in 1..Len(lines) : lines'[i] = lines[i]
        /\ lines'[Len(lines) + 1] = line /\ Len(lines) \in Nat
    BY <1>1, <1>5
  <2>2. DOMAIN lines' = DOMAIN lines \cup {Len(lines) + 1}
    BY <2>1
  <2>3. Logged(lines') = Logged(lines) \cup {line.event}
    BY <2>1, <2>2 DEF Logged
  <2>4. \A i \in DOMAIN lines' : lines'[i].file <= files'
    BY <1>1, <1>2, <1>3, <1>5, <2>1, <2>2
  <2>. QED
    BY <2>3, <2>4
<1>6. \/ lines' = lines /\ ~Writes(event)
      \/ \E line : line.file = files' /\ lines' = Append(lines, line) /\ line.event = event
  <2>1. CASE Writes(event)
    <3>1. LineOf(event, files').file = files' /\ LineOf(event, files').event = event
      BY DEF LineOf
    <3>2. lines' = Append(lines, LineOf(event, files'))
      BY <2>1 DEF Writes
    <3>. QED
      BY <3>1, <3>2
  <2>2. CASE Drops(event) /\ ~Writes(event)
    BY <2>2 DEF Drops
  <2>3. CASE Breaks(event) /\ ~Writes(event)
    <3> DEFINE torn == [LineOf(event, files) EXCEPT !.torn = TRUE]
    <3>1. torn.file = files /\ torn.event = event
      BY DEF LineOf
    <3>2. lines' \in {lines, Append(lines, torn)} /\ files' = files
      BY <2>3 DEF Breaks
    <3>. HIDE DEF torn
    <3>. QED
      BY <2>3, <3>1, <3>2
  <2>. QED
    BY <2>1, <2>2, <2>3
<1>7. /\ \A i \in DOMAIN lines' : lines'[i].file <= files'
      /\ Logged(lines) \subseteq Logged(lines')
      /\ Writes(event) => event \in Logged(lines')
  <2>1. CASE lines' = lines /\ ~Writes(event)
    BY <1>1, <1>2, <1>3, <2>1
  <2>2. ASSUME NEW line, line.file = files', lines' = Append(lines, line), line.event = event
        PROVE  /\ \A i \in DOMAIN lines' : lines'[i].file <= files'
               /\ Logged(lines) \subseteq Logged(lines')
               /\ event \in Logged(lines')
    BY <1>5, <2>2
  <2>. QED
    BY <1>6, <2>1, <2>2
<1>8. Drops(event) => writer'.truncated
  BY <1>1 DEF Drops, Linked, WriterType
<1>. QED
  BY <1>1, <1>3, <1>4, <1>7, <1>8

\* Without a fault and a cap the line of every event is written and extends
\* the chain.
LEMMA FlawlessAppend ==
    ASSUME IInv, NEW event \in Events, Writes(event) \/ Drops(event) \/ Breaks(event),
           FlawlessInv, Faultless, log = "open"
    PROVE  /\ Writes(event) /\ ~Breaks(event) /\ log' = "open"
           /\ ~writer'.truncated /\ writer'.next = Len(lines') /\ lines' # <<>>
           /\ writer'.prev = lines'[Len(lines')].event
           /\ ChainValid(lines') /\ Whole(lines')
<1>1. /\ TypeOK /\ lines \in Seq(Line) /\ writer \in WriterType /\ limits.max = 0 /\ faults = {}
      /\ ~writer.truncated /\ writer.next = Len(lines) /\ ChainValid(lines) /\ Whole(lines)
      /\ writer.prev = (IF lines = <<>> THEN 0 ELSE lines[Len(lines)].event)
  BY DEF IInv, TypeOK, JournalTypeOK, FlawlessInv, Faultless
<1>2. ~OverCap(event) /\ ~Drops(event)
  BY <1>1 DEF OverCap, Drops
<1>3. ~Breaks(event) /\ Writes(event) /\ log' = "open"
  BY <1>1, <1>2 DEF Breaks, Writes
<1> DEFINE line == LineOf(event, files')
<1>4. /\ line.event = event /\ line.seq = Len(lines) + 1 /\ ~line.torn
      /\ line.prev = (IF lines = <<>> THEN 0 ELSE lines[Len(lines)].event)
  BY <1>1 DEF LineOf
<1>5. lines' = Append(lines, line)
  BY <1>3 DEF Writes
<1>. HIDE DEF line
<1>6. /\ Len(lines) \in Nat /\ Len(lines') = Len(lines) + 1
      /\ DOMAIN lines' = 1..(Len(lines) + 1) /\ DOMAIN lines = 1..Len(lines)
      /\ \A i \in 1..Len(lines) : lines'[i] = lines[i]
      /\ lines'[Len(lines) + 1] = line
  BY <1>1, <1>5
<1>7. ChainValid(lines') /\ Whole(lines')
  <2> SUFFICES ASSUME NEW i \in 1..(Len(lines) + 1)
               PROVE  /\ lines'[i].seq = i /\ ~lines'[i].torn
                      /\ lines'[i].prev = IF i = 1 THEN 0 ELSE lines'[i - 1].event
    BY <1>6 DEF ChainValid, Whole
  <2>1. CASE i \in 1..Len(lines)
    <3>1. /\ lines[i].seq = i /\ ~lines[i].torn
          /\ lines[i].prev = IF i = 1 THEN 0 ELSE lines[i - 1].event
      BY <1>1, <1>6, <2>1 DEF ChainValid, Whole
    <3>2. i # 1 => i - 1 \in 1..Len(lines)
      BY <1>6, <2>1
    <3>. QED
      BY <1>6, <2>1, <3>1, <3>2
  <2>2. CASE i = Len(lines) + 1 /\ lines = <<>>
    BY <1>1, <1>4, <1>6, <2>2
  <2>3. CASE i = Len(lines) + 1 /\ lines # <<>>
    <3>1. Len(lines) \in 1..Len(lines) /\ i # 1 /\ i - 1 = Len(lines)
      BY <1>1, <1>6, <2>3
    <3>. QED
      BY <1>4, <1>6, <2>3, <3>1
  <2>. QED
    BY <1>6, <2>1, <2>2, <2>3
<1>8. ~writer'.truncated /\ writer'.next = Len(lines) + 1 /\ writer'.prev = event
  <2>1. Linked(event).truncated = writer.truncated /\ Linked(event).next = writer.next + 1
        /\ Linked(event).prev = event /\ Linked(event) \in WriterType
    BY <1>1, LinkedTyped DEF Linked, WriterType
  <2> DEFINE L == Linked(event)
             n == L.bytes + Size[event]
             f == IF Turns(event) THEN Size[event] ELSE L.fileBytes + Size[event]
  <2>2. writer' = [L EXCEPT !.bytes = n, !.fileBytes = f]
    BY <1>3 DEF Writes
  <2>3. L.truncated = writer.truncated /\ L.next = writer.next + 1 /\ L.prev = event /\ L \in WriterType
    BY <2>1
  <2>. HIDE DEF L, n, f
  <2>4. writer'.truncated = L.truncated /\ writer'.next = L.next /\ writer'.prev = L.prev
    BY <2>2, <2>3 DEF WriterType
  <2>. QED
    BY <1>1, <2>3, <2>4
<1>9. lines' # <<>> /\ lines'[Len(lines')].event = event
  BY <1>4, <1>6
<1>. QED
  BY <1>3, <1>6, <1>7, <1>8, <1>9

\* The summary stays what it is while lines and files do.
LEMMA LastStill ==
    ASSUME LastInv, UNCHANGED <<run, record, faults>>,
           \A i \in DOMAIN lines' : lines'[i].file <= files',
           Ending => UNCHANGED <<lines, files>>,
           Ending /\ "serve" \notin faults => UNCHANGED truncated
    PROVE  LastInv'
<1>1. Ending' <=> Ending
  BY DEF Ending
<1>2. CASE Ending
  BY <1>1, <1>2 DEF LastInv, Summary, Discovered, Content, Whole
<1>3. CASE ~Ending
  BY <1>1, <1>3 DEF LastInv, Ending
<1>. QED
  BY <1>2, <1>3

LEMMA ReaderKeeps ==
    ASSUME IInv, EInv, IInv', ReaderStep, Alive,
           UNCHANGED <<run, agent, conn, proxy, record, decided, limits, faults, mode>>
    PROVE  EInv'
<1>1. /\ TypeOK /\ WayInv /\ ClosedInv /\ JoinedInv /\ LastInv /\ ReadInv /\ FlawlessInv
      /\ SourceInv /\ KernelInv /\ DecidedInv /\ run \in RunType /\ reader \in ReaderType
      /\ ring \in Seq(Kernel) /\ taken \in Seq(Events) /\ emitted \in Nat
      /\ log \in {"none", "open", "closed"}
  BY Constants DEF IInv, EInv, TypeOK, JournalTypeOK, RunType
<1>2. UNCHANGED <<emitted, lost, session>>
  BY DEF ReaderStep, Read, ReaderAppends, ReaderFlags, ReaderEnds
<1>3. reader.at \in {"read", "append", "flag", "error"}
  BY DEF ReaderStep, Read, ReaderAppends, ReaderFlags, ReaderEnds
<1>4. ~Ending /\ run.at # "file" /\ run.attached /\ log # "none" /\ run.at # "attach"
  BY <1>1, <1>3 DEF JoinedInv, WayInv
<1>5. ClosedInv'
  BY <1>1 DEF ClosedInv, Drained, Ending, Alive, Active
<1>6. CASE Read
  <2>1. /\ UNCHANGED <<writer, log, files, lines, lock, truncated, taken>>
        /\ reader.at = "read" /\ session = "open" /\ ring # <<>> /\ ring' = Tail(ring)
    BY <1>6 DEF Read
  <2>2. \/ Decodes(Head(ring)) /\ reader'.at = "append" /\ reader'.event = Head(ring)
        \/ "newer" \in faults /\ reader'.at = "done"
    BY <1>1, <1>6 DEF Read, Decodes, ReaderType
  <2>3. In(ring) = In(ring') \cup {Head(ring)}
    BY <1>1, <2>1, InTail
  <2>4. SourceInv'
    BY <1>1, <1>2, <2>1, <2>2, <2>3 DEF SourceInv, In
  <2>5. KernelInv'
    BY <1>1, <1>2, <2>1, <2>2, <2>3 DEF KernelInv, Logged
  <2>6. DecidedInv' /\ WayInv'
    BY <1>1, <1>2, <2>1 DEF DecidedInv, WayInv, Logged, Drained, Ending, Alive
  <2>7. JoinedInv' /\ ReadInv'
    BY <1>1, <1>2, <1>4, <2>1, <2>2 DEF JoinedInv, ReadInv, Ending
  <2>8. LastInv'
    BY <1>1, <2>1, LastStill DEF LastInv
  <2>9. FlawlessInv'
    BY <1>1, <2>1, <2>2 DEF FlawlessInv, Faultless, Ending, ChainValid, Whole
  <2>. QED
    BY <1>5, <2>4, <2>5, <2>6, <2>7, <2>8, <2>9 DEF EInv
<1>7. CASE ReaderAppends
  <2> DEFINE e == reader.event
  <2>1. /\ UNCHANGED <<ring, truncated>> /\ reader.at = "append" /\ e \in Events
        /\ taken' = Append(taken, e)
        /\ Writes(e) \/ Drops(e) \/ Breaks(e)
    BY <1>7 DEF ReaderAppends, IInv, HoldsInv
  <2>. HIDE DEF e
  <2>2. /\ files' > 0 /\ log' # "none"
        /\ log # "open" => log' = log /\ UNCHANGED <<lines, files>>
        /\ \A i \in DOMAIN lines' : lines'[i].file <= files'
        /\ Logged(lines) \subseteq Logged(lines')
        /\ Writes(e) => e \in Logged(lines')
        /\ Drops(e) => writer'.truncated
    BY <1>1, <1>4, <2>1, AppendEffect
  <2>3. \/ (Writes(e) \/ Drops(e)) /\ reader'.at = IF writer'.truncated THEN "flag" ELSE "read"
        \/ Breaks(e) /\ reader'.at = "error"
    BY <1>1, <1>7 DEF ReaderAppends, ReaderType, e
  <2>4. In(taken') = In(taken) \cup {e}
    BY <1>1, <2>1, InAppend
  <2>5. e \in Logged(lines') \/ reader'.at \in {"flag", "error"}
    BY <2>2, <2>3
  <2>6. SourceInv'
    BY <1>1, <1>2, <2>1, <2>3, <2>4 DEF SourceInv, In, e
  <2>7. KernelInv'
    BY <1>1, <1>2, <2>1, <2>2, <2>5 DEF KernelInv, In, e
  <2>8. DecidedInv' /\ WayInv'
    BY <1>1, <1>2, <1>4, <2>1, <2>2 DEF DecidedInv, WayInv, Drained, Ending, Alive
  <2>9. JoinedInv' /\ ReadInv'
    BY <1>1, <1>2, <1>4, <2>1, <2>3 DEF JoinedInv, ReadInv, Ending
  <2>10. LastInv'
    BY <1>1, <1>4, <2>2, LastStill
  <2>11. FlawlessInv'
    <3>1. SUFFICES ASSUME Faultless PROVE FlawlessInv'
      BY DEF FlawlessInv, Faultless
    <3>2. log = "open"
      BY <1>1, <1>4, <3>1 DEF FlawlessInv
    <3>3. /\ ~Breaks(e) /\ log' = "open"
          /\ ~writer'.truncated /\ writer'.next = Len(lines') /\ lines' # <<>>
          /\ writer'.prev = lines'[Len(lines')].event
          /\ ChainValid(lines') /\ Whole(lines')
      BY <1>1, <2>1, <3>1, <3>2, FlawlessAppend
    <3>4. reader'.at = "read"
      BY <2>3, <3>3
    <3>. QED
      BY <1>1, <2>1, <3>1, <3>3, <3>4 DEF FlawlessInv, Ending, ChainValid, Whole
  <2>. QED
    BY <1>5, <2>6, <2>7, <2>8, <2>9, <2>10, <2>11 DEF EInv
<1>8. CASE ReaderFlags
  <2>1. /\ UNCHANGED <<ring, writer, log, files, lines, taken>> /\ truncated' = TRUE
        /\ reader.at \in {"flag", "error"} /\ reader'.at \in {"read", "done"}
    BY <1>1, <1>8 DEF ReaderFlags, ReaderType
  <2>2. SourceInv' /\ KernelInv' /\ DecidedInv'
    BY <1>1, <1>2, <2>1 DEF SourceInv, KernelInv, DecidedInv, In
  <2>3. WayInv' /\ JoinedInv' /\ ReadInv'
    BY <1>1, <1>2, <1>4, <2>1 DEF WayInv, JoinedInv, ReadInv, Drained, Ending, Alive
  <2>4. LastInv'
    BY <1>1, <1>4, <2>1, LastStill DEF LastInv
  <2>5. FlawlessInv'
    BY <1>1, <2>1 DEF FlawlessInv, Faultless
  <2>. QED
    BY <1>5, <2>2, <2>3, <2>4, <2>5 DEF EInv
<1>9. CASE ReaderEnds
  <2>1. /\ UNCHANGED <<ring, writer, log, files, lines, taken, truncated>> /\ session = "closed"
        /\ reader.at = "read" /\ reader'.at = "done"
    BY <1>1, <1>9 DEF ReaderEnds, ReaderType
  <2>2. SourceInv' /\ KernelInv' /\ DecidedInv'
    BY <1>1, <1>2, <2>1 DEF SourceInv, KernelInv, DecidedInv, In, Logged
  <2>3. WayInv' /\ JoinedInv' /\ ReadInv'
    BY <1>1, <1>2, <1>4, <2>1 DEF WayInv, JoinedInv, ReadInv, Drained, Ending, Alive
  <2>4. LastInv'
    BY <1>1, <1>4, <2>1, LastStill DEF LastInv
  <2>5. FlawlessInv'
    BY <1>1, <2>1 DEF FlawlessInv, Faultless, Ending, ChainValid, Whole
  <2>. QED
    BY <1>5, <2>2, <2>3, <2>4, <2>5 DEF EInv
<1>. QED
  BY <1>6, <1>7, <1>8, <1>9 DEF ReaderStep

LEMMA HandlerKeeps ==
    ASSUME IInv, EInv, IInv', NEW c \in Conns, Handler(c), Alive,
           UNCHANGED <<limits, faults, mode>>
    PROVE  EInv'
<1>1. /\ TypeOK /\ WayInv /\ ClosedInv /\ JoinedInv /\ LastInv /\ ReadInv /\ FlawlessInv
      /\ SourceInv /\ KernelInv /\ DecidedInv /\ run \in RunType /\ reader \in ReaderType
      /\ taken \in Seq(Events) /\ emitted \in Nat /\ c \in Events
      /\ log \in {"none", "open", "closed"} /\ conn \in [Conns -> ConnSteps]
  BY Constants DEF IInv, EInv, TypeOK, JournalTypeOK, RunType
<1>2. UNCHANGED <<run, agent, proxy, record, emitted, ring, lost, session, reader>>
  BY DEF Handler, Accept, Track, Unread, Decide, HandlerFlags, Connect, UpstreamEnds, journalVars
<1>3. \A step : Move(c, step) => conn'[c] = step /\ \A d \in Conns \ {c} : conn'[d] = conn[d]
  BY <1>1 DEF Move
<1>4. Faultless => run.attached
  <2>1. CASE conn[c] = "none"
    <3>1. Accept(c)
      BY <2>1 DEF Handler, Accept, Track, Unread, Decide, HandlerFlags, Connect, UpstreamEnds
    <3>. QED
      BY <1>1, <3>1 DEF Accept, FlawlessInv, Faultless, WayInv
  <2>2. CASE conn[c] # "none"
    BY <1>1, <2>2 DEF FlawlessInv
  <2>. QED
    BY <2>1, <2>2
<1>5. "serve" \notin faults /\ Drained => Track(c) /\ proxy.closed
  BY <1>1
     DEF ClosedInv, Handler, Accept, Track, Unread, Decide, HandlerFlags, Connect, UpstreamEnds,
         Active
<1>6. ClosedInv'
  <2>1. "serve" \notin faults /\ Drained => \A d \in Conns : ~Active(d)'
    <3> SUFFICES ASSUME "serve" \notin faults, Drained PROVE \A d \in Conns : ~Active(d)'
      OBVIOUS
    <3>1. Move(c, "gone") /\ \A d \in Conns : ~Active(d)
      BY <1>1, <1>5 DEF Track, ClosedInv
    <3>2. conn'[c] = "gone" /\ \A d \in Conns \ {c} : conn'[d] = conn[d]
      BY <1>3, <3>1
    <3>. QED
      BY <3>1, <3>2 DEF Active
  <2>. QED
    BY <1>1, <1>2, <2>1 DEF ClosedInv, Drained, Ending, Alive
<1>7. CASE Accept(c) \/ Track(c) \/ Unread(c) \/ Connect(c) \/ UpstreamEnds(c)
  <2>1. UNCHANGED <<writer, log, files, lines, truncated, taken, decided>>
    BY <1>7 DEF Accept, Track, Unread, Connect, UpstreamEnds, journalVars
  <2>2. /\ conn'[c] \notin {"none", "flag", "error"} /\ conn[c] \notin {"flag", "error"}
        /\ \A d \in Conns \ {c} : conn'[d] = conn[d]
    <3>1. /\ \E step \in {"accepted", "gone", "handling", "upstream"} : Move(c, step)
          /\ conn[c] \notin {"flag", "error"}
      BY <1>7 DEF Accept, Track, Unread, Connect, UpstreamEnds
    <3>. QED
      BY <1>3, <3>1
  <2>3. SourceInv' /\ KernelInv'
    BY <1>1, <1>2, <2>1 DEF SourceInv, KernelInv, In, Logged
  <2>4. DecidedInv'
    <3>1. \A d \in decided : conn[d] \in {"flag", "error"} => conn'[d] = conn[d]
      BY <1>1, <2>2 DEF TypeOK
    <3>. QED
      BY <1>1, <2>1, <3>1 DEF DecidedInv, Logged
  <2>5. WayInv' /\ JoinedInv' /\ ReadInv'
    BY <1>1, <1>2, <2>1 DEF WayInv, JoinedInv, ReadInv, Drained, Ending, Alive
  <2>6. LastInv'
    BY <1>1, <1>2, <2>1, LastStill DEF LastInv
  <2>7. FlawlessInv'
    <3>1. \A d \in Conns : conn'[d] # "none" => conn[d] # "none" \/ d = c
      BY <2>2
    <3>2. \A d \in Conns : conn'[d] \in {"flag", "error"} => conn[d] \in {"flag", "error"}
      BY <2>2
    <3>. QED
      BY <1>1, <1>2, <1>4, <2>1, <3>1, <3>2 DEF FlawlessInv, Faultless, Ending, ChainValid, Whole
  <2>. QED
    BY <1>6, <2>3, <2>4, <2>5, <2>6, <2>7 DEF EInv
<1>8. CASE HandlerFlags(c)
  <2>1. /\ UNCHANGED <<writer, log, files, lines, taken, decided>> /\ truncated' = TRUE
        /\ conn[c] \in {"flag", "error"}
    BY <1>8 DEF HandlerFlags
  <2>2. SourceInv' /\ KernelInv' /\ DecidedInv'
    BY <1>1, <1>2, <2>1 DEF SourceInv, KernelInv, DecidedInv, In
  <2>3. WayInv' /\ JoinedInv' /\ ReadInv'
    BY <1>1, <1>2, <2>1 DEF WayInv, JoinedInv, ReadInv, Drained, Ending, Alive
  <2>4. ~(Ending /\ "serve" \notin faults)
    BY <1>5, <2>1 DEF Drained, Track
  <2>5. LastInv'
    BY <1>1, <1>2, <2>1, <2>4, LastStill DEF LastInv
  <2>6. FlawlessInv'
    BY <1>1, <2>1 DEF FlawlessInv, Faultless
  <2>. QED
    BY <1>6, <2>2, <2>3, <2>5, <2>6 DEF EInv
<1>9. CASE Decide(c) /\ log = "none"
  <2>1. /\ UNCHANGED <<writer, log, files, lines, taken, truncated>>
        /\ decided' = decided \cup {c} /\ Move(c, "error")
    BY <1>9 DEF Decide
  <2>2. conn'[c] = "error" /\ \A d \in Conns \ {c} : conn'[d] = conn[d]
    BY <1>3, <2>1
  <2>3. SourceInv' /\ KernelInv'
    BY <1>1, <1>2, <2>1 DEF SourceInv, KernelInv, In, Logged
  <2>4. DecidedInv'
    <3>1. \A d \in decided : conn[d] \in {"flag", "error"} => conn'[d] \in {"flag", "error"}
      BY <1>1, <2>2 DEF TypeOK
    <3>. QED
      BY <1>1, <2>1, <2>2, <3>1 DEF DecidedInv, Logged
  <2>5. WayInv' /\ JoinedInv' /\ ReadInv'
    BY <1>1, <1>2, <2>1 DEF WayInv, JoinedInv, ReadInv, Drained, Ending, Alive
  <2>6. LastInv'
    BY <1>1, <1>2, <2>1, LastStill DEF LastInv
  <2>7. ~Faultless
    BY <1>1, <1>4, <1>9 DEF WayInv
  <2>8. FlawlessInv'
    BY <2>7 DEF FlawlessInv, Faultless
  <2>. QED
    BY <1>6, <2>3, <2>4, <2>5, <2>6, <2>8 DEF EInv
<1>10. CASE Decide(c) /\ log # "none"
  <2>1. /\ UNCHANGED truncated /\ taken' = Append(taken, c) /\ decided' = decided \cup {c}
        /\ Writes(c) \/ Drops(c) \/ Breaks(c)
        /\ conn[c] = "handling"
    BY <1>10 DEF Decide
  <2>2. /\ files' > 0 /\ log' # "none"
        /\ log # "open" => log' = log /\ UNCHANGED <<lines, files>>
        /\ \A i \in DOMAIN lines' : lines'[i].file <= files'
        /\ Logged(lines) \subseteq Logged(lines')
        /\ Writes(c) => c \in Logged(lines')
        /\ Drops(c) => writer'.truncated
    BY <1>1, <1>10, <2>1, AppendEffect
  <2>3. \/ (Writes(c) \/ Drops(c)) /\ Move(c, IF writer'.truncated THEN "flag" ELSE "decided")
        \/ Breaks(c) /\ Move(c, "error")
    BY <1>10 DEF Decide
  <2>4. /\ conn'[c] # "none" /\ \A d \in Conns \ {c} : conn'[d] = conn[d]
        /\ c \in Logged(lines') \/ conn'[c] \in {"flag", "error"}
        /\ ~Breaks(c) /\ ~writer'.truncated => conn'[c] = "decided"
    <3>1. CASE (Writes(c) \/ Drops(c)) /\ Move(c, IF writer'.truncated THEN "flag" ELSE "decided")
      BY <1>3, <2>2, <3>1
    <3>2. CASE Breaks(c) /\ Move(c, "error")
      BY <1>3, <2>2, <3>2
    <3>. QED
      BY <2>3, <3>1, <3>2
  <2>5. In(taken') = In(taken) \cup {c}
    BY <1>1, <2>1, InAppend
  <2>6. SourceInv' /\ KernelInv'
    BY <1>1, <1>2, <2>1, <2>2, <2>5 DEF SourceInv, KernelInv, In
  <2>7. DecidedInv'
    <3>1. \A d \in decided : conn[d] \in {"flag", "error"} => conn'[d] = conn[d]
      BY <1>1, <2>1, <2>4 DEF TypeOK
    <3>. QED
      BY <1>1, <2>1, <2>2, <2>4, <3>1 DEF DecidedInv
  <2>8. WayInv' /\ JoinedInv' /\ ReadInv'
    BY <1>1, <1>2, <1>10, <2>1, <2>2 DEF WayInv, JoinedInv, ReadInv, Drained, Ending, Alive
  <2>9. Ending => log # "open"
    BY <1>1 DEF JoinedInv
  <2>10. LastInv'
    BY <1>1, <1>2, <2>1, <2>2, <2>9, LastStill
  <2>11. FlawlessInv'
    <3>1. SUFFICES ASSUME Faultless PROVE FlawlessInv'
      BY DEF FlawlessInv, Faultless
    <3>2. ~Ending
      BY <1>5, <2>1, <3>1 DEF Drained, Track, Faultless
    <3>3. log = "open"
      BY <1>1, <1>10, <3>1, <3>2 DEF FlawlessInv
    <3>4. /\ ~Breaks(c) /\ log' = "open"
          /\ ~writer'.truncated /\ writer'.next = Len(lines') /\ lines' # <<>>
          /\ writer'.prev = lines'[Len(lines')].event
          /\ ChainValid(lines') /\ Whole(lines')
      BY <1>1, <2>1, <3>1, <3>3, FlawlessAppend
    <3>5. \A d \in Conns : conn'[d] \notin {"flag", "error"}
      BY <1>1, <2>4, <3>1, <3>4 DEF FlawlessInv
    <3>. QED
      BY <1>1, <1>2, <1>4, <2>1, <3>1, <3>4, <3>5 DEF FlawlessInv, Ending, ChainValid, Whole
  <2>. QED
    BY <1>6, <2>6, <2>7, <2>8, <2>10, <2>11 DEF EInv
<1>. QED
  BY <1>7, <1>8, <1>9, <1>10 DEF Handler

-----------------------------------------------------------------------------
(* The end of a run, and where every event is: the theorems *)

LEMMA EndInit == Init => EInv
<1> SUFFICES ASSUME Init PROVE EInv
  OBVIOUS
<1>1. /\ emitted = 0 /\ ring = <<>> /\ lost = 0 /\ session = "none" /\ reader.at = "off"
      /\ writer.next = 0 /\ writer.prev = 0 /\ ~writer.truncated
      /\ log = "none" /\ files = 0 /\ lines = <<>> /\ taken = <<>> /\ ~truncated
      /\ run.at = "attach" /\ ~run.attached /\ ~run.ended /\ run.dropped = 0
      /\ agent = "none" /\ decided = {} /\ ~proxy.closed /\ \A c \in Conns : conn[c] = "none"
  BY DEF Init, JournalInit
<1>2. WayInv /\ ClosedInv /\ JoinedInv /\ LastInv /\ ReadInv
  BY <1>1 DEF WayInv, ClosedInv, JoinedInv, LastInv, ReadInv, Drained, Ending, Alive
<1>3. SourceInv /\ KernelInv /\ DecidedInv
  BY <1>1 DEF SourceInv, KernelInv, DecidedInv, In
<1>4. FlawlessInv
  BY <1>1 DEF FlawlessInv, ChainValid, Whole
<1>. QED
  BY <1>2, <1>3, <1>4 DEF EInv

LEMMA EndStep == IInv /\ EInv /\ IInv' /\ [Next]_vars => EInv'
<1> SUFFICES ASSUME IInv, EInv, IInv', [Next]_vars PROVE EInv'
  OBVIOUS
<1>1. CASE UNCHANGED vars
  <2>1. UNCHANGED <<emitted, ring, lost, session, reader, writer, log, files, lines, truncated, taken>>
        /\ UNCHANGED <<run, agent, conn, proxy, record, decided, limits, faults>>
    BY <1>1 DEF vars, journalVars
  <2>2. /\ WayInv /\ ClosedInv /\ JoinedInv /\ LastInv /\ ReadInv /\ FlawlessInv
    BY DEF EInv
  <2>3. SourceInv' /\ KernelInv' /\ DecidedInv'
    BY <2>1, JournalStill
  <2>4. WayInv' /\ ClosedInv' /\ JoinedInv' /\ ReadInv'
    BY <2>1, <2>2 DEF WayInv, ClosedInv, JoinedInv, ReadInv, Drained, Ending, Alive, Active
  <2>5. LastInv'
    BY <2>1, <2>2, LastStill DEF LastInv
  <2>6. FlawlessInv'
    BY <2>1, <2>2 DEF FlawlessInv, Faultless, Ending, ChainValid, Whole
  <2>. QED
    BY <2>3, <2>4, <2>5, <2>6 DEF EInv
<1>2. CASE Next
  <2>1. CASE Ended
    BY <1>1, <2>1 DEF Ended
  <2>2. UNCHANGED <<limits, faults, mode>>
    BY <1>2 DEF Next
  <2>3. CASE Alive /\ RunStep
    BY <2>2, <2>3, StartKeeps, RunKeeps
  <2>4. CASE Alive /\ (AgentExits \/ ServeCloses \/ ServeDrains)
    BY <2>2, <2>4, OthersKeep
  <2>5. CASE Alive /\ \E c \in Conns : Handler(c)
    BY <2>2, <2>5, HandlerKeeps
  <2>6. CASE Alive /\ ReaderStep /\ UNCHANGED <<run, agent, conn, proxy, record, decided>>
    BY <2>2, <2>6, ReaderKeeps
  <2>7. CASE Alive /\ Emit /\ agent \in {"running", "stray"}
             /\ UNCHANGED <<run, agent, conn, proxy, record, decided>>
    BY <2>2, <2>7, EmitKeeps
  <2>8. CASE Recover
    BY <2>2, <2>8, RecoverKeeps
  <2>. QED
    BY <1>2, <2>1, <2>3, <2>4, <2>5, <2>6, <2>7, <2>8 DEF Next
<1>. QED
  BY <1>1, <1>2

LEMMA EndInvariance == Spec => [](IInv /\ EInv)
<1>1. IInv /\ EInv /\ [Next]_vars => (IInv /\ EInv)'
  BY NextInv, EndStep
<1>2. Init => IInv /\ EInv
  BY InitInv, EndInit
<1>. QED
  BY <1>1, <1>2, PTL DEF Spec

\* What the last record of a run holds.
LEMMA AtTheEnd ==
    ASSUME IInv, EInv, run.at = "over"
    PROVE  /\ Ending /\ Drained /\ record.files = Discovered /\ record.content = lines
           /\ Content(Discovered) = lines /\ record.dropped = run.dropped
           /\ record.truncated = run.state.truncated
           /\ record.complete <=> (Whole(lines) /\ run.dropped = 0 /\ ~record.truncated)
           /\ "serve" \notin faults => record.truncated = truncated
<1>1. TypeOK /\ WayInv /\ LastInv
  BY DEF IInv, EInv
<1>2. Ending /\ Drained
  BY <1>1 DEF WayInv, Ending, Drained
<1>3. Content(Discovered) = lines
  BY <1>1, DiscoverAll
<1>4. record = Summary(Discovered, run.state.dropped, run.state.truncated)
  BY <1>1, <1>2 DEF LastInv
<1>5. record.files = Discovered /\ record.content = lines /\ record.dropped = run.state.dropped
      /\ record.truncated = run.state.truncated
      /\ record.complete = (Whole(lines) /\ run.state.dropped = 0 /\ ~run.state.truncated)
  BY <1>3, <1>4 DEF Summary
<1>. QED
  BY <1>1, <1>2, <1>3, <1>5 DEF LastInv

\* The last record is the last word: it holds every line that is ever written
\* and, when the run process was the first to close the proxy, every flag.
THEOREM LastWord == Spec => []RecordIsFinal
<1>1. IInv /\ EInv => RecordIsFinal
  BY AtTheEnd DEF RecordIsFinal
<1>. QED
  BY <1>1, EndInvariance, PTL

\* Evidence that verifies is the whole story: whatever the ring buffer, the
\* cap or a failed write kept out of the log shows in the record.
THEOREM WholeStoryIsTold == Spec => []CompleteIsWhole
<1>1. IInv /\ EInv => CompleteIsWhole
  <2> SUFFICES ASSUME IInv, EInv, faults \cap {"slow", "stray", "newer", "serve", "kill"} = {},
                      run.at = "over", Verified(record)
               PROVE  Logged(lines) = (1..emitted) \cup decided
    BY AtTheEnd DEF CompleteIsWhole, WholeStory
  <2>1. /\ TypeOK /\ WayInv /\ JoinedInv /\ ReadInv /\ ClosedInv /\ SourceInv /\ KernelInv /\ DecidedInv
        /\ lost \in Nat /\ files \in Nat /\ TrueLines(lines) /\ lines \in Seq(Line)
        /\ taken \in Seq(Events)
    BY DEF IInv, EInv, TypeOK, JournalTypeOK, LinesInv
  <2>2. files > 0 /\ run.dropped = 0 /\ ~truncated /\ Ending /\ Drained
    BY AtTheEnd DEF Verified
  <2>3. run.attached /\ lost = 0 /\ ring = <<>>
    BY <2>1, <2>2 DEF WayInv, ReadInv
  <2>4. reader.at \in {"off", "done"} /\ In(ring) = {}
    BY <2>1, <2>2, <2>3 DEF JoinedInv, In
  <2>5. 1..emitted \subseteq Logged(lines)
    BY <2>1, <2>2, <2>3, <2>4 DEF KernelInv
  <2>6. decided \subseteq Logged(lines)
    <3>1. \A c \in Conns : conn[c] \notin {"flag", "error"}
      BY <2>1, <2>2 DEF ClosedInv, Active
    <3>2. decided \subseteq Conns
      BY <2>1 DEF TypeOK
    <3>. QED
      BY <2>1, <2>2, <3>1, <3>2 DEF DecidedInv
  <2>7. Logged(lines) \subseteq In(taken)
    BY <2>1 DEF TrueLines, Logged, In
  <2>. QED
    BY <2>1, <2>5, <2>6, <2>7 DEF SourceInv
<1>. QED
  BY <1>1, EndInvariance, PTL

\* A run without a fault, a cap or a full ring buffer ends with evidence that
\* verifies, whatever the order of its events and wherever its files turn.
THEOREM NothingIsAmiss == Spec => []FaultlessIsComplete
<1>1. IInv /\ EInv => FaultlessIsComplete
  <2> SUFFICES ASSUME IInv, EInv, run.at = "over", Faultless, lost = 0
               PROVE  Verified(record)
    BY DEF FaultlessIsComplete, Faultless
  <2>1. /\ TypeOK /\ WayInv /\ ReadInv /\ FlawlessInv /\ files \in Nat /\ run.dropped \in Nat
    BY DEF IInv, EInv, TypeOK, JournalTypeOK, RunType
  <2>2. ~truncated /\ ChainValid(lines) /\ Whole(lines) /\ files > 0 /\ run.dropped = 0
    BY <2>1 DEF FlawlessInv, WayInv, ReadInv
  <2>3. record.complete /\ Content(record.files) = lines /\ record.content = lines
    BY <2>2, AtTheEnd DEF Faultless
  <2>. QED
    BY <2>2, <2>3 DEF Verified
<1>. QED
  BY <1>1, EndInvariance, PTL
=============================================================================
