------------------------------ MODULE Evidence ------------------------------
(***************************************************************************)
(* The evidence of a run: the event journal together with the proxy, whose *)
(* handlers write their decisions into it, and the run process that        *)
(* attaches the sensor, closes proxy and sensor after the agent and writes *)
(* the record that commit and verify believe.                              *)
(***************************************************************************)
EXTENDS Journal

CONSTANTS
    Modes,   \* modes of the network policy that start a proxy
    Allowed  \* connections to a host under an allowed domain

ASSUME EvidenceAssumption == Modes \subseteq {"audit", "enforce"} /\ Allowed \subseteq Conns

VARIABLES
    run,      \* the run process
    agent,    \* the agent, or what is left of it
    conn,     \* the connections and their handlers
    proxy,    \* Proxy: closed, its context cancelled, the goroutine of Serve in Close
    record,   \* the evidence in the run record on the disk
    decided,  \* history: the connections that Explain was asked about
    mode      \* mode of the network policy: never changes

vars == <<journalVars, limits, faults, run, agent, conn, proxy, record, decided, mode>>

-----------------------------------------------------------------------------
(* Types *)

RunSteps == {"attach", "state", "summarize", "write", "wait", "cancel", "close", "drain",
             "dropped", "session", "join", "file", "over", "killed", "recovered"}

SummaryType == [files : Nat, content : Seq(Line), dropped : Nat, truncated : BOOLEAN,
                complete : BOOLEAN]

\* attached: there is a sensor to close.  ended: this is the last record.
\* dropped: telemetryAdapter.dropped.  state, summary: what persistRecordState
\* has read so far.
RunType == [at : RunSteps, attached : BOOLEAN, ended : BOOLEAN, dropped : Nat,
            state : [dropped : Nat, truncated : BOOLEAN], summary : SummaryType]

\* flag, error: on the way to the flag after a drop or an error.
ConnSteps == {"none", "accepted", "handling", "flag", "error", "decided", "upstream", "gone"}

TypeOK ==
    /\ JournalTypeOK
    /\ run \in RunType
    /\ agent \in {"none", "running", "stray", "gone"}
    /\ conn \in [Conns -> ConnSteps]
    /\ proxy \in [closed : BOOLEAN, cancelled : BOOLEAN, serve : {"idle", "drain", "done"}]
    /\ record \in SummaryType
    /\ decided \subseteq Conns
    /\ mode \in Modes

\* The first record is written before anything can happen.
Nothing == [files |-> 1, content |-> <<>>, dropped |-> 0, truncated |-> FALSE, complete |-> TRUE]

Init ==
    /\ JournalInit
    /\ run = [at |-> "attach", attached |-> FALSE, ended |-> FALSE, dropped |-> 0,
              state |-> [dropped |-> 0, truncated |-> FALSE], summary |-> Nothing]
    /\ agent = "none"
    /\ conn = [c \in Conns |-> "none"]
    /\ proxy = [closed |-> FALSE, cancelled |-> FALSE, serve |-> "idle"]
    /\ record = Nothing
    /\ decided = {}
    /\ mode \in Modes

Alive == run.at \notin {"over", "killed", "recovered"}

-----------------------------------------------------------------------------
(* The proxy *)

Move(c, step) == conn' = [conn EXCEPT ![c] = step]

Active(c) == conn[c] \in {"handling", "flag", "error", "decided", "upstream"}

Explain(c) == IF mode = "audit" THEN "audit" ELSE IF c \in Allowed THEN "allow" ELSE "deny"

Accept(c) ==
    /\ conn[c] = "none" /\ ~proxy.closed
    /\ agent \in {"running", "stray"} \/ "outsider" \in faults
    /\ Move(c, "accepted")
    /\ UNCHANGED <<journalVars, decided>>

Track(c) ==
    /\ conn[c] = "accepted"
    /\ Move(c, IF proxy.closed THEN "gone" ELSE "handling")
    /\ UNCHANGED <<journalVars, decided>>

\* No request arrives, or Close closes the connection first.
Unread(c) ==
    /\ conn[c] = "handling"
    /\ Move(c, "gone")
    /\ UNCHANGED <<journalVars, decided>>

\* Explain and RecordNetwork: without a sensor there is nothing to write to.
Decide(c) ==
    /\ conn[c] = "handling" /\ lock = "none"
    /\ decided' = decided \cup {c}
    /\ \/ /\ log = "none"
          /\ Move(c, "error")
          /\ UNCHANGED <<writer, log, files, lines, lock, taken>>
       \/ /\ log # "none"
          /\ taken' = Append(taken, c)
          /\ \/ /\ Writes(c) \/ Drops(c)
                /\ Move(c, IF writer'.truncated THEN "flag" ELSE "decided")
                /\ lock' = IF writer'.truncated THEN c ELSE "none"
             \/ Breaks(c) /\ Move(c, "error") /\ UNCHANGED lock
    /\ UNCHANGED <<emitted, ring, lost, session, reader, truncated>>

\* A mutant of HandlerFlags: an error of RecordNetwork is ignored.
Mut_HandlerFlags(c) ==
    /\ conn[c] \in {"flag", "error"}
    /\ truncated' = (truncated \/ conn[c] = "flag")
    /\ lock' = IF conn[c] = "flag" THEN "none" ELSE lock
    /\ Move(c, "decided")
    /\ UNCHANGED <<emitted, ring, lost, session, reader, writer, log, files, lines, taken, decided>>

HandlerFlags(c) ==
    /\ conn[c] \in {"flag", "error"}
    /\ truncated' = TRUE
    /\ lock' = IF conn[c] = "flag" THEN "none" ELSE lock
    /\ Move(c, "decided")
    /\ UNCHANGED <<emitted, ring, lost, session, reader, writer, log, files, lines, taken, decided>>

\* A refusal is answered; otherwise tunnel or forwardHTTP dial the host.
Connect(c) ==
    /\ conn[c] = "decided"
    /\ \E step \in {"upstream", "gone"} :
         /\ step = "upstream" => Explain(c) # "deny"
         /\ Move(c, step)
    /\ UNCHANGED <<journalVars, decided>>

UpstreamEnds(c) ==
    /\ conn[c] = "upstream"
    /\ Move(c, "gone")
    /\ UNCHANGED <<journalVars, decided>>

Handler(c) ==
    /\ Accept(c) \/ Track(c) \/ Unread(c) \/ Decide(c) \/ HandlerFlags(c) \/ Connect(c)
       \/ UpstreamEnds(c)
    /\ UNCHANGED <<run, agent, proxy, record>>

\* The goroutine of Serve after the cancellation: whoever enters Close second
\* returns at once.
ServeCloses ==
    /\ proxy.cancelled /\ proxy.serve = "idle"
    /\ proxy.closed \/ "serve" \in faults
    /\ proxy' = [proxy EXCEPT !.closed = TRUE, !.serve = IF proxy.closed THEN "done" ELSE "drain"]
    /\ UNCHANGED <<journalVars, run, agent, conn, record, decided>>

ServeDrains ==
    /\ proxy.serve = "drain" /\ \A c \in Conns : ~Active(c)
    /\ proxy' = [proxy EXCEPT !.serve = "done"]
    /\ UNCHANGED <<journalVars, run, agent, conn, record, decided>>

-----------------------------------------------------------------------------
(* The run process *)

Goto(step) == run' = [run EXCEPT !.at = step]

\* The gate is opened when the sensor is attached; if it cannot be, the run
\* goes on to its end.
Start ==
    /\ run.at = "attach"
    /\ \/ "sensor" \notin faults /\ Attach /\ agent' = "running"
          /\ run' = [run EXCEPT !.at = "state", !.attached = TRUE]
       \/ "sensor" \in faults /\ UNCHANGED journalVars /\ agent' = "running"
          /\ Goto("state")
       \/ "attach" \in faults /\ UNCHANGED journalVars /\ agent' = "gone"
          /\ run' = [run EXCEPT !.at = "cancel", !.ended = TRUE]
    /\ UNCHANGED <<conn, proxy, record, decided>>

\* persistRecordState: EvidenceState, then the files, then the record.
ReadState ==
    /\ run.at = "state"
    /\ run' = [run EXCEPT !.at = "summarize",
                   !.state = [dropped |-> run.dropped, truncated |-> truncated]]
    /\ UNCHANGED <<journalVars, agent, conn, proxy, record, decided>>

Discovered == IF files = 0 THEN 1 ELSE files

Summarize ==
    /\ run.at = "summarize"
    /\ run' = [run EXCEPT !.at = "write",
                   !.summary = Summary(Discovered, run.state.dropped, run.state.truncated)]
    /\ UNCHANGED <<journalVars, agent, conn, proxy, record, decided>>

WriteRecord ==
    /\ run.at = "write"
    /\ record' = run.summary
    /\ Goto(IF run.ended THEN "over" ELSE "wait")
    /\ UNCHANGED <<journalVars, agent, conn, proxy, decided>>

AgentExits ==
    /\ agent = "running"
    /\ \E left \in {"gone", "stray"} :
         /\ left = "stray" => "stray" \in faults
         /\ agent' = left
    /\ UNCHANGED <<journalVars, run, conn, proxy, record, decided>>

Wait ==
    /\ run.at = "wait" /\ agent # "running"
    /\ run' = [run EXCEPT !.at = "cancel", !.ended = TRUE]
    /\ UNCHANGED <<journalVars, agent, conn, proxy, record, decided>>

Cancel ==
    /\ run.at = "cancel"
    /\ proxy' = [proxy EXCEPT !.cancelled = TRUE]
    /\ Goto("close")
    /\ UNCHANGED <<journalVars, agent, conn, record, decided>>

AfterProxy == IF run.attached THEN "dropped" ELSE "state"

Close ==
    /\ run.at = "close"
    /\ proxy' = [proxy EXCEPT !.closed = TRUE]
    /\ Goto(IF proxy.closed THEN AfterProxy ELSE "drain")
    /\ UNCHANGED <<journalVars, agent, conn, record, decided>>

\* A mutant of Drain: the handlers are not waited for.
Mut_Drain ==
    /\ run.at = "drain"
    /\ Goto(AfterProxy)
    /\ UNCHANGED <<journalVars, agent, conn, proxy, record, decided>>

Drain ==
    /\ run.at = "drain" /\ \A c \in Conns : ~Active(c)
    /\ Goto(AfterProxy)
    /\ UNCHANGED <<journalVars, agent, conn, proxy, record, decided>>

\* After the drain window the counter is read.
Dropped ==
    /\ run.at = "dropped"
    /\ ring = <<>> \/ reader.at = "done" \/ "slow" \in faults
    /\ run' = [run EXCEPT !.at = "session", !.dropped = lost]
    /\ UNCHANGED <<journalVars, agent, conn, proxy, record, decided>>

CloseSession ==
    /\ run.at = "session"
    /\ session' = "closed"
    /\ Goto("join")
    /\ UNCHANGED <<emitted, ring, lost, reader, writer, log, files, lines, lock, truncated, taken>>
    /\ UNCHANGED <<agent, conn, proxy, record, decided>>

Join ==
    /\ run.at = "join" /\ reader.at = "done"
    /\ Goto("file")
    /\ UNCHANGED <<journalVars, agent, conn, proxy, record, decided>>

CloseFile ==
    /\ run.at = "file"
    /\ log' = "closed"
    /\ Goto("state")
    /\ UNCHANGED <<emitted, ring, lost, session, reader, writer, files, lines, lock, truncated, taken>>
    /\ UNCHANGED <<agent, conn, proxy, record, decided>>

\* The run process is killed, or gives up because a record cannot be written.
RunKilled ==
    /\ "kill" \in faults
    /\ Goto("killed")
    /\ agent' = "gone"
    /\ UNCHANGED <<journalVars, conn, proxy, record, decided>>

RunStep ==
    \/ Start \/ ReadState \/ Summarize \/ WriteRecord \/ Wait \/ Cancel \/ Close \/ Drain
    \/ Dropped \/ CloseSession \/ Join \/ CloseFile \/ RunKilled

\* rewind recover keeps the flags of the record and reads the files again.
Recover ==
    /\ run.at = "killed"
    /\ record' = Summary(Discovered, record.dropped, record.truncated)
    /\ Goto("recovered")
    /\ UNCHANGED <<journalVars, agent, conn, proxy, decided>>

\* Nothing is left to do.
Ended == run.at \in {"over", "recovered"} /\ UNCHANGED vars

Next ==
    /\ \/ /\ Alive
          /\ \/ RunStep \/ AgentExits \/ ServeCloses \/ ServeDrains
             \/ \E c \in Conns : Handler(c)
             \/ /\ ReaderStep \/ (Emit /\ agent \in {"running", "stray"})
                /\ UNCHANGED <<run, agent, conn, proxy, record, decided>>
       \/ Recover \/ Ended
    /\ UNCHANGED <<limits, faults, mode>>

Spec == Init /\ [][Next]_vars

-----------------------------------------------------------------------------
(* Properties *)

Logged(content) == {content[i].event : i \in DOMAIN content}

\* Everything that happened is in the log.
WholeStory == Logged(record.content) = (1..emitted) \cup decided

\* Evidence that verifies is the whole story: every byte cap, full ring,
\* failed write or rotation on the way shows in the record.
CompleteIsWhole ==
    /\ faults \cap {"slow", "stray", "newer", "serve", "kill"} = {}
    /\ run.at = "over" /\ Verified(record)
    => WholeStory

\* Evidence that verifies has no hole: at every moment, and after the run
\* process was killed at any step, it is what the writer was given, in that
\* order, up to some point.
NoHole ==
    Verified(record) =>
        /\ Len(record.content) <= Len(taken)
        /\ \A i \in DOMAIN record.content : record.content[i].event = taken[i]

\* Nobody gets through the proxy without a trace: the decision is in the log,
\* or the evidence is flagged, before the connection is made.
EgressIsEvidenced ==
    Alive => \A c \in Conns : conn[c] = "upstream" => truncated \/ c \in Logged(lines)

\* The last record is the last word: no line is written and no flag raised
\* after it was summarized.
RecordIsFinal ==
    run.at = "over" =>
        /\ record.content = lines
        /\ "serve" \notin faults => record.truncated = truncated

\* A run without a fault, a cap or a full ring buffer ends with evidence that
\* verifies, however its events and decisions interleave and its files turn.
FaultlessIsComplete ==
    /\ run.at = "over" /\ faults = {} /\ limits.max = 0 /\ lost = 0
    => Verified(record)

\* The first without the conditions.
NeverFalselyComplete ==
    run.at \in {"over", "recovered"} /\ Verified(record) => WholeStory
=============================================================================
