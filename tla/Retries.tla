------------------------------- MODULE Retries -------------------------------
(***************************************************************************)
(* The HTTP clients of the registry, of the retention store and of remote  *)
(* session leases: a call repeats its request until an answer satisfies    *)
(* it, and a request that the client has given up may still be at work in  *)
(* the server.                                                             *)
(***************************************************************************)
EXTENDS Naturals, Sequences

CONSTANTS
    Clients,
    Values,       \* envelopes and objects
    NoValue,
    MaxAttempts,  \* three by default, up to six
    MaxCalls,     \* bound on the calls of a client
    MaxBreaks,    \* bound on the connections that break
    Workloads     \* the calls and faults to consider together

RegistryOps == {"publish", "fetch", "revoke"}
Ops == RegistryOps \cup {"put", "restore", "acquire", "release"}
Calls == [op : Ops, value : Values \cup {NoValue}]

ASSUME RetriesAssumption ==
    /\ MaxAttempts \in Nat \ {0} /\ MaxCalls \in Nat /\ MaxBreaks \in Nat
    /\ NoValue \notin Values
    /\ \A w \in Workloads : /\ w.calls \in [Clients -> Seq(Calls)]
                            /\ \A c \in Clients : Len(w.calls[c]) <= MaxCalls
                            /\ w.faults \subseteq {"loss", "write", "kill"}

VARIABLES
    calls,   \* calls[c]: what client c asks for, in this order; never changes
    faults,  \* "loss": connections break, "write": writes fail, "kill"; never changes
    client,  \* the clients
    req,     \* the requests of a client, one after another
    breaks   \* how many connections have been broken

retryVars == <<client, req, breaks>>

ClientSteps == {"idle", "wait", "pause", "got", "temp"}
InServer == {"sent", "stat", "read", "open", "write", "rename", "mark", "marked"}
Statuses == {"none", "ok", "client", "server"}

\* clean: did every request of the call get its answer?
\* outcome: how the calls have ended, with what they brought.
ClientType == [at : ClientSteps, call : 1..(MaxCalls + 1), tries : 0..MaxAttempts,
               sent : 0..(MaxCalls * MaxAttempts), clean : BOOLEAN,
               got : Values \cup {NoValue},
               outcome : Seq([result : {"ok", "failed"}, value : Values \cup {NoValue}, clean : BOOLEAN])]

Request == [at : {"none", "replied", "done", "dead"} \cup InServer, op : Ops, call : Nat,
            value : Values \cup {NoValue}, status : Statuses, inode : Nat, grant : Nat]

RetriesTypeOK ==
    /\ client \in [Clients -> ClientType]
    /\ req \in [Clients \X (1..(MaxCalls * MaxAttempts)) -> Request]
    /\ breaks \in 0..MaxBreaks

NoRequest == [at |-> "none", op |-> "fetch", call |-> 0, value |-> NoValue,
              status |-> "none", inode |-> 0, grant |-> 0]

Served == [NoRequest EXCEPT !.at = "done"]

RetriesInit ==
    /\ breaks = 0
    /\ client = [c \in Clients |-> [at |-> "idle", call |-> 1, tries |-> 0, sent |-> 0,
                                    clean |-> TRUE,
                                    got |-> NoValue, outcome |-> <<>>]]
    /\ req = [q \in Clients \X (1..(MaxCalls * MaxAttempts)) |-> NoRequest]

-----------------------------------------------------------------------------
(* A call *)

Call(c) == calls[c][client[c].call]
Calling(c, op) == client[c].call <= Len(calls[c]) /\ Call(c).op = op
Current(c) == <<c, client[c].sent>>
Late(q) == client[q[1]].call # req[q].call \/ client[q[1]].sent # q[2] \/ client[q[1]].at # "wait"

Send(c) ==
    /\ client[c].at \in {"idle", "pause"} /\ client[c].call <= Len(calls[c])
    /\ client' = [client EXCEPT ![c].at = "wait", ![c].tries = @ + 1, ![c].sent = @ + 1]
    /\ req' = [req EXCEPT ![<<c, client[c].sent + 1>>] =
                 [NoRequest EXCEPT !.at = "sent", !.op = Call(c).op, !.call = client[c].call,
                                   !.value = Call(c).value]]

\* The registry client repeats whatever failed, the others what a server or
\* the network may do better the next time.
\* A mutant of Again: an answer without a body is taken for a failure.
Mut_Again(op, status) == status # "ok" \/ op = "revoke"

Again(op, status) ==
    IF op \in RegistryOps THEN status # "ok" ELSE status \in {"none", "server"}

Ended(state, result, value, clean) ==
    [state EXCEPT !.at = "idle", !.call = @ + 1, !.tries = 0, !.clean = TRUE, !.got = NoValue,
                  !.outcome = Append(@, [result |-> result, value |-> value, clean |-> clean])]

\* What a call does with a status; a restore goes on with what it got.
After(c, status, value, clean) ==
    LET state == [client[c] EXCEPT !.clean = @ /\ clean] IN
    IF Again(Call(c).op, status)
    THEN IF state.tries < MaxAttempts THEN [state EXCEPT !.at = "pause"]
         ELSE Ended(state, "failed", NoValue, state.clean)
    ELSE IF status # "ok" THEN Ended(state, "failed", NoValue, state.clean)
    ELSE IF Call(c).op = "restore" THEN [state EXCEPT !.at = "got", !.got = value]
    ELSE Ended(state, "ok", value, state.clean)

Receive(c) ==
    /\ client[c].at = "wait" /\ req[Current(c)].at = "replied"
    /\ client' = [client EXCEPT ![c] = After(c, req[Current(c)].status, req[Current(c)].value, TRUE)]
    /\ req' = [req EXCEPT ![Current(c)] = Served]
    /\ UNCHANGED breaks

Breaks == "loss" \in faults /\ breaks < MaxBreaks /\ breaks' = breaks + 1

\* An answer that nobody waits for.
Forgets(c) == req' = IF client[c].at = "wait" /\ req[Current(c)].at \in {"replied", "dead"}
                     THEN [req EXCEPT ![Current(c)] = Served] ELSE req

\* The connection breaks or the time is over; the server knows nothing of it.
Break(c) ==
    /\ client[c].at = "wait"
    /\ (req[Current(c)].at = "dead" /\ UNCHANGED breaks) \/ Breaks
    /\ client' = [client EXCEPT ![c] = After(c, "none", NoValue, FALSE)]
    /\ Forgets(c)

\* The answer is cut off behind its status: only the registry asks again.
Cut(c) ==
    /\ Breaks
    /\ client[c].at = "wait" /\ req[Current(c)].at = "replied" /\ req[Current(c)].status = "ok"
    /\ Call(c).op \in {"restore", "acquire", "release"}
    /\ client' = [client EXCEPT ![c] = Ended(client[c], "failed", NoValue, FALSE)]
    /\ Forgets(c)

\* The context of a registry call is done.
GiveUp(c) ==
    /\ Breaks
    /\ client[c].at \in {"wait", "pause"} /\ Call(c).op \in RegistryOps
    /\ client' = [client EXCEPT ![c] = Ended(client[c], "failed", NoValue, FALSE)]
    /\ Forgets(c)

ClientStep(c) == Receive(c) \/ Break(c) \/ Cut(c) \/ GiveUp(c)

-----------------------------------------------------------------------------
(* A request in the server *)

Goes(q, step) == req' = [req EXCEPT ![q].at = step]
Reply(q, status, value) ==
    req' = [req EXCEPT ![q] = IF Late(q) THEN Served
              ELSE [@ EXCEPT !.at = "replied", !.status = status, !.value = value, !.inode = 0]]
Serves(q, op, step) == req[q].op = op /\ req[q].at = step
=============================================================================
