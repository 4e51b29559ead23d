------------------------------- MODULE Remote -------------------------------
(***************************************************************************)
(* The remote services of the command line and their clients: the policy   *)
(* registry, the retention store to which evidence is put and from which   *)
(* it is restored, and session leases over HTTP.                           *)
(*                                                                         *)
(* The retention store is any object store; what a supervisor does with a  *)
(* lease request is the matter of Sessions and one step here.              *)
(***************************************************************************)
EXTENDS Registry

CONSTANTS
    Damaged,    \* an object that did not arrive as it was put
    MaxKills,   \* bound on the deaths of the server
    MaxGrants   \* bound on the grants of the lease

Nobody == "nobody"

ASSUME RemoteAssumption ==
    Damaged \in Values /\ MaxKills \in Nat /\ MaxGrants \in Nat /\ Nobody \notin Clients

VARIABLES
    object,   \* the retention store, under one key
    output,   \* the file to which objects are restored
    lease,    \* the owner of the session, the number of the grant and the last of
              \* the owner's calls that it was granted to
    lapsed,   \* the last grant whose time is over
    granted,  \* history: the last grant that each client was told of, 0 if it
              \* has called release since
    done,     \* history: the calls that had an effect
    misled,   \* history: has a late release ended a grant of a later call?
    kills

remoteVars == <<object, output, lease, lapsed, granted, done, misled, kills>>
vars == <<calls, faults, retryVars, registryVars, remoteVars>>

TypeOK ==
    /\ RetriesTypeOK /\ RegistryTypeOK
    /\ object \in Values \cup {NoValue} /\ output \in Values \cup {NoValue}
    /\ lease \in [owner : Clients \cup {Nobody}, grant : Nat, call : Nat] /\ lapsed \in Nat
    /\ granted \in [Clients -> Nat]
    /\ done \subseteq Clients \X (1..MaxCalls)
    /\ misled \in BOOLEAN /\ kills \in 0..MaxKills

Init ==
    /\ \E w \in Workloads : calls = w.calls /\ faults = w.faults
    /\ RetriesInit /\ RegistryInit
    /\ object = NoValue /\ output = NoValue
    /\ lease = [owner |-> Nobody, grant |-> 0, call |-> 0] /\ lapsed = 0
    /\ granted = [c \in Clients |-> 0]
    /\ done = {} /\ misled = FALSE /\ kills = 0

Effects(q) == done' = done \cup {<<q[1], req[q].call>>}

-----------------------------------------------------------------------------
(* The object store *)

Put(q) ==
    /\ Serves(q, "put", "sent")
    /\ \/ object' = req[q].value /\ Reply(q, "ok", NoValue) /\ Effects(q)
       \/ "write" \in faults /\ \E status \in {"client", "server"} : Reply(q, status, NoValue)
          /\ UNCHANGED <<object, done>>
    /\ UNCHANGED <<output, lease, lapsed, granted, misled>>

Get(q) ==
    /\ Serves(q, "restore", "sent")
    /\ \/ object = NoValue /\ Reply(q, "client", NoValue)
       \/ object # NoValue /\ Reply(q, "ok", object)
       \/ object # NoValue /\ "loss" \in faults /\ Reply(q, "ok", Damaged)
       \/ "write" \in faults /\ Reply(q, "server", NoValue)
    /\ UNCHANGED <<object, output, lease, lapsed, granted, done, misled>>

-----------------------------------------------------------------------------
(* The lease *)

Expired == lease.grant <= lapsed
Holder == IF Expired THEN Nobody ELSE lease.owner

\* The answer carries the grant.
Grant(q, n) ==
    req' = [req EXCEPT ![q] = IF Late(q) THEN Served
              ELSE [@ EXCEPT !.at = "replied", !.status = "ok", !.grant = n]]

Acquire(q) ==
    /\ Serves(q, "acquire", "sent") /\ lease.grant < MaxGrants
    /\ IF Holder \in {Nobody, q[1]}
       THEN /\ lease' = [owner |-> q[1], grant |-> lease.grant + 1,
                         call |-> Max({req[q].call} \cup (IF Holder = q[1] THEN {lease.call} ELSE {}))]
            /\ Grant(q, lease.grant + 1)
            /\ Effects(q)
       ELSE Reply(q, "client", NoValue) /\ UNCHANGED <<lease, done>>
    /\ UNCHANGED <<object, output, lapsed, granted, misled>>

\* A mutant of Release: anybody may release.
Mut_Release(q) ==
    /\ Serves(q, "release", "sent")
    /\ Reply(q, "ok", NoValue) /\ Effects(q)
    /\ lease' = [lease EXCEPT !.owner = Nobody]
    /\ UNCHANGED <<object, output, lapsed, granted, misled>>

Release(q) ==
    /\ Serves(q, "release", "sent")
    /\ IF Holder = q[1]
       THEN /\ lease' = [lease EXCEPT !.owner = Nobody]
            /\ Reply(q, "ok", NoValue) /\ Effects(q)
            /\ misled' = (misled \/ lease.call > req[q].call)
       ELSE Reply(q, "client", NoValue) /\ UNCHANGED <<lease, done, misled>>
    /\ UNCHANGED <<object, output, lapsed, granted>>

Expire ==
    /\ ~Expired
    /\ lapsed' = lease.grant
    /\ UNCHANGED <<retryVars, registryVars, object, output, lease, granted, done, misled, kills>>

\* The supervisor cannot lock its store: 409 Conflict.
Busy(q) ==
    /\ "write" \in faults /\ req[q].op \in {"acquire", "release"} /\ req[q].at = "sent"
    /\ Reply(q, "client", NoValue)
    /\ UNCHANGED <<object, output, lease, lapsed, granted, done, misled>>

\* What the client takes from an answer, and gives up when it asks.
Learns(c) ==
    granted' = IF NewlyDone(c, "acquire") THEN [granted EXCEPT ![c] = req[Current(c)].grant] ELSE granted
Yields(c) == granted' = IF Call(c).op = "release" THEN [granted EXCEPT ![c] = 0] ELSE granted

-----------------------------------------------------------------------------
(* GetFile *)

Restored(c, result) == client' = [client EXCEPT ![c] = Ended(client[c], result, client[c].got, client[c].clean)]

\* A mutant of Check: a digest that does not match is only reported.
Mut_Check(c) ==
    /\ client[c].at = "got"
    /\ client' = [client EXCEPT ![c].at = "temp"]
    /\ UNCHANGED output

\* The digest is compared, then a temporary file of its own is written.
Check(c) ==
    /\ client[c].at = "got"
    /\ IF client[c].got = Call(c).value
       THEN client' = [client EXCEPT ![c].at = "temp"] ELSE Restored(c, "failed")
    /\ UNCHANGED output

Install(c) ==
    /\ client[c].at = "temp"
    /\ \/ output' = client[c].got /\ Restored(c, "ok")
       \/ "write" \in faults /\ Restored(c, "failed") /\ UNCHANGED output

-----------------------------------------------------------------------------

\* The server dies and is started again: its files stay.
ServerKilled ==
    /\ "kill" \in faults /\ kills < MaxKills
    /\ kills' = kills + 1
    /\ req' = [q \in Requests |-> IF req[q].at \in InServer
                                  THEN [req[q] EXCEPT !.at = "dead", !.inode = 0] ELSE req[q]]
    /\ UNCHANGED <<client, breaks, registryVars, object, output, lease, lapsed, granted, done, misled>>

\* The registry's part of done.
Marks(q) == IF versions' # versions \/ (marker'.file /\ ~marker.file) THEN Effects(q) ELSE UNCHANGED done

Over == \A c \in Clients : client[c].call > Len(calls[c])

Step ==
    \/ \E c \in Clients : /\ Send(c) /\ Remembers(c) /\ Yields(c)
                          /\ UNCHANGED <<breaks, dir, marker, versions, current, revoked, overlapped,
                                         object, output, lease, lapsed, done, misled, kills>>
    \/ \E c \in Clients : /\ ClientStep(c) /\ Confirms(c) /\ Learns(c)
                          /\ UNCHANGED <<files, knew, object, output, lease, lapsed, done, misled, kills>>
    \/ \E c \in Clients : /\ Check(c) \/ Install(c)
                          /\ UNCHANGED <<req, breaks, registryVars, object, lease, lapsed, granted, done, misled, kills>>
    \/ \E q \in Requests : /\ RegistryStep(q) /\ Marks(q)
                           /\ UNCHANGED <<breaks, object, output, lease, lapsed, granted, misled, kills>>
    \/ \E q \in Requests : /\ Put(q) \/ Get(q) \/ Acquire(q) \/ Release(q) \/ Busy(q)
                           /\ UNCHANGED <<client, breaks, registryVars, kills>>
    \/ Expire
    \/ ServerKilled

Next == (Step /\ UNCHANGED <<calls, faults>>) \/ (Over /\ UNCHANGED vars)

Spec == Init /\ [][Next]_vars

-----------------------------------------------------------------------------
(* Properties *)

\* A call that fails although every one of its requests was answered has
\* changed nothing.  The loops of registry, retention and session clients.
RefusalMeansNoEffect ==
    \A c \in Clients : \A i \in DOMAIN client[c].outcome :
      LET outcome == client[c].outcome[i] IN
      outcome.result = "failed" /\ outcome.clean => <<c, i>> \notin done

\* The restored file is untouched or one of the objects that were asked for by
\* their digest, whatever the store sends, and after a restore it is that object.
\* (A client that dies is one that takes no further step.)  Client.GetFile.
RestoreIsWhole ==
    /\ output # NoValue => \E c \in Clients : \E i \in DOMAIN calls[c] :
                             calls[c][i].op = "restore" /\ calls[c][i].value = output
    /\ \A c \in Clients : \A i \in DOMAIN client[c].outcome :
         calls[c][i].op = "restore" /\ client[c].outcome[i].result = "ok" => output # NoValue

Believes(c) == granted[c] > lapsed

\* Two clients do not hold the session at the same time as far as they were
\* told, with requests repeated and answers lost; unless a release that was
\* given up has ended a lease that its client acquired afterwards.
\* RemoteStore.do.
LeaseIsExclusive ==
    \A c, d \in Clients : Believes(c) /\ Believes(d) /\ ~misled => c = d
=============================================================================
