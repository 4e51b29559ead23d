----------------------------- MODULE Supervisor -----------------------------
(***************************************************************************)
(* The server of the local supervisor: the handlers of its POST endpoints  *)
(* that run at the same time, over the Unix socket and the HTTP bridge,    *)
(* next to run processes that write the same history.                      *)
(*                                                                         *)
(* What an action does to a workspace is the matter of ProtectedRun and    *)
(* NativeRun; here it is one step, with the record it leaves behind.       *)
(***************************************************************************)
EXTENDS EventStream

CONSTANTS
    Handlers,   \* each serves one request; the id of a challenge or a lease is
                \* the handler that issued it
    Sides,      \* socket and bridge, each with a challenge store
    Actions,    \* subset of "status", "rollback", "commit"; recover is rollback
    Packages,   \* policy packages, name@version
    Spaces,     \* names of workspaces
    MaxKills,   \* bound on the deaths of the supervisor
    Workloads   \* the requests and runs to consider together

Ops == {"challenge", "action", "prune", "create", "update", "import", "assign", "lease"}

NoHandler == "nobody"

ASSUME SupervisorAssumption ==
    /\ Writers = Runs \cup Handlers /\ Runs \cap Handlers = {}
    /\ NoHandler \notin Handlers
    /\ MaxKills \in Nat
    /\ \A w \in Workloads : /\ w.ops \in [Handlers -> Ops \cup {"none"}]
                            /\ w.runs \in [Runs -> {"none", "new", "live", "review"}]
                            /\ w.streams \subseteq Streams /\ w.lines \in 0..MaxLines
                            /\ w.faults \subseteq {"write", "kill"}

VARIABLES
    handler,   \* the handlers
    store,     \* the challenges that each store holds
    leases,    \* the leases that the broker holds
    expired,   \* the challenges and leases whose time is over
    uses,      \* history: how often a challenge or lease let someone through
    audit,     \* what the audit log says of each request
    config,    \* the file of the control plane catalog
    owner,     \* the handler that holds the mutex of the catalog
    promised,  \* history: the catalog that the answers have promised
    kills

handlerVars == <<handler, store, leases, expired, uses, audit>>
configVars == <<config, owner, promised>>
vars == <<historyVars, streamVars, handlerVars, configVars, kills, faults>>

-----------------------------------------------------------------------------
(* Types *)

Unassigned == "none"

\* text: whoever wrote it.  seal: is there a signed bundle, and does it verify?
Seals == {"none", "genuine", "forged"}
Policy == [text : Handlers \cup {NoHandler}, seal : Seals \cup {"absent"}]
NotInstalled == [text |-> NoHandler, seal |-> "absent"]
ConfigOps == {"create", "import", "update", "assign"}
CatalogInodes == {1, 2}
Catalog == [revision : Nat, policies : [Packages -> Policy],
            spaces : [Spaces -> Packages \cup {Unassigned}]]
Change == [op : ConfigOps, text : Handlers, package : Packages \cup {Unassigned},
           seal : Seals, space : Spaces]
NoCatalog == [revision |-> 0, policies |-> [p \in Packages |-> NotInstalled],
              spaces |-> [x \in Spaces |-> Unassigned]]

HandlerType ==
    [op : Ops \cup {"none"},
     at : {"new", "lookup", "work", "history", "replace", "rename", "audit", "answered", "killed"},
     side : Sides, action : Actions, run : Runs, token : Handlers \cup {NoHandler},
     record : RecordType, change : Change, catalog : Catalog, ok : BOOLEAN, effect : BOOLEAN]

TypeOK ==
    /\ HistoryTypeOK /\ StreamTypeOK
    /\ handler \in [Handlers -> HandlerType]
    /\ store \in [Sides -> SUBSET Handlers]
    /\ leases \subseteq Handlers /\ expired \subseteq Handlers
    /\ uses \in [Handlers -> Nat]
    /\ audit \in [Handlers -> {"none", "ok", "refused", "lost"}]
    /\ config \in Dirs(CatalogInodes, Catalog)
    /\ owner \in Handlers \cup {NoHandler}
    /\ promised \in Catalog
    /\ kills \in 0..MaxKills

NewHandler(op) ==
    [op |-> op, at |-> "new", side |-> CHOOSE x \in Sides : TRUE,
     action |-> CHOOSE a \in Actions : TRUE, run |-> CHOOSE r \in Runs : TRUE,
     token |-> NoHandler, record |-> NoRecord,
     change |-> CHOOSE c \in Change : TRUE, catalog |-> NoCatalog, ok |-> FALSE, effect |-> FALSE]

IdleStream == [at |-> "idle", run |-> CHOOSE r \in Runs : TRUE, follow |-> FALSE,
               record |-> NoRecord, file |-> 1, pos |-> [f \in 1..(MaxLines + 1) |-> 0],
               sent |-> <<>>, wrote |-> FALSE, why |-> ""]

\* Runs that are going on or under review are in the history.
StartState == [none |-> Unlisted, new |-> Unlisted, live |-> "running", review |-> "succeeded"]
Starts(w) == [r \in Runs |-> StartState[w.runs[r]]]
InHistory(w) == {r \in Runs : Starts(w)[r] # Unlisted}
InitialEntries(w) == LET listed == {[run |-> r, state |-> Starts(w)[r]] : r \in InHistory(w)} IN
    CHOOSE entries \in [1..Cardinality(listed) -> listed] :
        \A e \in listed : \E i \in DOMAIN entries : entries[i] = e

Init ==
    \E w \in Workloads :
      /\ hist = IF InHistory(w) = {} THEN NoFile(Inodes)
                ELSE Holding(Inodes, CHOOSE i \in Inodes : TRUE, InitialEntries(w))
      /\ reported = Starts(w)
      /\ writer = [x \in Writers |-> Idle] /\ overlapped = FALSE
      /\ run = [r \in Runs |->
                  [at |-> CASE w.runs[r] = "new" -> "prepare" [] w.runs[r] = "live" -> "agent"
                            [] OTHER -> "over",
                   next |-> "over", live |-> w.runs[r] = "live", left |-> w.lines]]
      /\ journal = [r \in Runs |-> IF w.runs[r] = "review" THEN <<[file |-> 1, whole |-> TRUE]>> ELSE <<>>]
      /\ record = [r \in Runs |-> CASE w.runs[r] = "review" -> [state |-> "succeeded", files |-> 1, known |-> 1]
                                    [] w.runs[r] = "live" -> [NoRecord EXCEPT !.state = "running"]
                                    [] OTHER -> NoRecord]
      /\ stream = [s \in Streams |-> IF s \in w.streams THEN IdleStream
                                     ELSE [IdleStream EXCEPT !.at = "ended", !.why = "gone"]]
      /\ handler = [h \in Handlers |-> IF w.ops[h] = "none"
                                       THEN [NewHandler("none") EXCEPT !.at = "answered"]
                                       ELSE NewHandler(w.ops[h])]
      /\ store = [x \in Sides |-> {}] /\ leases = {} /\ expired = {}
      /\ uses = [h \in Handlers |-> 0]
      /\ audit = [h \in Handlers |-> "none"]
      /\ config = NoFile(CatalogInodes) /\ owner = NoHandler /\ promised = NoCatalog
      /\ kills = 0 /\ faults = w.faults

-----------------------------------------------------------------------------
(* Steps of a handler *)

At(h, op, step) == handler[h].op = op /\ handler[h].at = step
Goto(h, step) == handler' = [handler EXCEPT ![h].at = step]
Refuse(h) == Goto(h, "audit")
Done(h) == handler' = [handler EXCEPT ![h].at = "audit", ![h].ok = TRUE, ![h].effect = TRUE]

\* The entry is the last step before the answer, and nobody hears of a failure.
Audit(h) ==
    /\ handler[h].at = "audit"
    /\ \/ audit' = [audit EXCEPT ![h] = IF handler[h].ok THEN "ok" ELSE "refused"]
       \/ "write" \in faults /\ audit' = [audit EXCEPT ![h] = "lost"]
    /\ Goto(h, "answered")
    /\ UNCHANGED <<historyVars, streamVars, store, leases, expired, uses, configVars>>

-----------------------------------------------------------------------------
(* Challenges and leases *)

Issue(h) ==
    /\ At(h, "challenge", "new")
    /\ \E side \in Sides, action \in Actions \ {"status"}, r \in Runs :
         /\ handler' = [handler EXCEPT ![h].at = "answered", ![h].side = side,
                            ![h].action = action, ![h].run = r]
         /\ store' = [store EXCEPT ![side] = @ \cup {h}]
    /\ UNCHANGED <<historyVars, streamVars, leases, expired, uses, audit, configVars>>

\* A challenge that was asked for, at whatever side, is what a client can send.
Known == {h \in Handlers : At(h, "challenge", "answered")}
Matches(t, action, r) == handler[t].action = action /\ handler[t].run = r

\* A mutant of Consume: the challenge stays in the store.
Mut_Consume(h) ==
    /\ At(h, "action", "new")
    /\ \E side \in Sides, action \in Actions, r \in Runs, t \in Known \cup {NoHandler} :
         LET passes == \/ action = "status"
                       \/ t \in store[side] /\ t \notin expired /\ Matches(t, action, r)
             used == passes /\ action # "status"
         IN /\ IF passes
               THEN handler' = [handler EXCEPT ![h].at = "lookup", ![h].side = side, ![h].action = action,
                                    ![h].run = r, ![h].token = IF used THEN t ELSE NoHandler]
               ELSE Refuse(h)
            /\ uses' = IF used THEN [uses EXCEPT ![t] = @ + 1] ELSE uses
            /\ UNCHANGED store
    /\ UNCHANGED <<historyVars, streamVars, leases, expired, audit, configVars>>

\* A challenge that is found is gone, also when it does not fit.
Consume(h) ==
    /\ At(h, "action", "new")
    /\ \E side \in Sides, action \in Actions, r \in Runs, t \in Known \cup {NoHandler} :
         LET passes == \/ action = "status"
                       \/ t \in store[side] /\ t \notin expired /\ Matches(t, action, r)
             used == passes /\ action # "status"
         IN /\ IF passes
               THEN handler' = [handler EXCEPT ![h].at = "lookup", ![h].side = side, ![h].action = action,
                                    ![h].run = r, ![h].token = IF used THEN t ELSE NoHandler]
               ELSE Refuse(h)
            /\ uses' = IF used THEN [uses EXCEPT ![t] = @ + 1] ELSE uses
            /\ store' = IF action = "status" THEN store ELSE [store EXCEPT ![side] = @ \ {t}]
    /\ UNCHANGED <<historyVars, streamVars, leases, expired, audit, configVars>>

\* The provider is asked first, without the mutex of the broker.
Lend(h) ==
    /\ At(h, "lease", "new")
    /\ \/ leases' = leases \cup {h} /\ Done(h)
       \/ "write" \in faults /\ Refuse(h) /\ UNCHANGED leases
    /\ UNCHANGED <<historyVars, streamVars, store, expired, uses, audit, configVars>>

\* Open and Revoke have no caller in the repository yet.
OpenLease(h) ==
    /\ h \in leases
    /\ leases' = leases \ {h}
    /\ uses' = IF h \in expired THEN uses ELSE [uses EXCEPT ![h] = @ + 1]
    /\ UNCHANGED <<historyVars, streamVars, handler, store, expired, audit, configVars, kills>>

Revoke(h) ==
    /\ h \in leases
    /\ leases' = leases \ {h}
    /\ UNCHANGED <<historyVars, streamVars, handler, store, expired, uses, audit, configVars, kills>>

Expire(h) ==
    /\ h \notin expired /\ (h \in leases \/ \E side \in Sides : h \in store[side])
    /\ expired' = expired \cup {h}
    /\ UNCHANGED <<historyVars, streamVars, handler, store, leases, uses, audit, configVars, kills>>

-----------------------------------------------------------------------------
(* supervisorAction *)

Lookup(h) ==
    /\ At(h, "action", "lookup")
    /\ IF Listed(handler[h].run)
       THEN handler' = [handler EXCEPT ![h].at = "work", ![h].record = record[handler[h].run]]
       ELSE Refuse(h)
    /\ UNCHANGED <<historyVars, streamVars, store, leases, expired, uses, audit, configVars>>

Status(h) ==
    /\ At(h, "action", "work") /\ handler[h].action = "status"
    /\ handler' = [handler EXCEPT ![h].at = "audit", ![h].ok = TRUE]
    /\ UNCHANGED <<historyVars, streamVars, store, leases, expired, uses, audit, configVars>>

\* The record is replaced, and then the entry in the history.
Records(h, state, new) ==
    /\ record' = [record EXCEPT ![handler[h].run] = new]
    /\ writer' = [writer EXCEPT ![h] = Began([op |-> "upsert", run |-> handler[h].run, state |-> state])]
    /\ handler' = [handler EXCEPT ![h].at = "history", ![h].effect = TRUE]

\* The events of a native action go into the journal of the run.
Appends(r, n) ==
    journal' = IF r \in NativeRuns
               THEN [journal EXCEPT ![r] = @ \o [i \in 1..n |-> [file |-> 1, whole |-> TRUE]]]
               ELSE journal

\* A Linux rollback looks for the files again; the others know nothing new.
Summarized(h, state) ==
    LET r == handler[h].run IN
    IF r \in NativeRuns THEN [record[r] EXCEPT !.state = state, !.known = LastWhole(journal'[r])]
    ELSE RecordOf(r, state)

Rollback(h) ==
    /\ At(h, "action", "work") /\ handler[h].action = "rollback"
    /\ handler[h].record.state # "committed"
    /\ Appends(handler[h].run, 1)
    /\ Records(h, "rolled_back", Summarized(h, "rolled_back"))
    /\ UNCHANGED <<hist, overlapped, reported, run, stream, store, leases, expired, uses, audit, configVars>>

Commit(h) ==
    /\ At(h, "action", "work") /\ handler[h].action = "commit"
    /\ handler[h].record.state = "succeeded"
    /\ Appends(handler[h].run, 2)
    /\ Records(h, "committed", IF handler[h].run \in NativeRuns THEN Summarized(h, "committed")
                               ELSE [handler[h].record EXCEPT !.state = "committed"])
    /\ UNCHANGED <<hist, overlapped, reported, run, stream, store, leases, expired, uses, audit, configVars>>

\* A mutant of ActionRefused: the effect is there before the refusal.
Mut_ActionRefused(h) ==
    /\ At(h, "action", "work") /\ handler[h].action # "status"
    /\ "write" \in faults
    /\ handler' = [handler EXCEPT ![h].at = "audit", ![h].effect = TRUE]
    /\ UNCHANGED <<historyVars, streamVars, store, leases, expired, uses, audit, configVars>>

\* The state does not allow it, or a step before the record fails.
ActionRefused(h) ==
    /\ At(h, "action", "work") /\ handler[h].action # "status"
    /\ \/ "write" \in faults
       \/ handler[h].action = "rollback" /\ handler[h].record.state = "committed"
       \/ handler[h].action = "commit" /\ handler[h].record.state # "succeeded"
    /\ Refuse(h)
    /\ UNCHANGED <<historyVars, streamVars, store, leases, expired, uses, audit, configVars>>

Prune(h) ==
    /\ At(h, "prune", "new")
    /\ \E keep \in Keeps : writer' = [writer EXCEPT ![h] = Began([op |-> "prune", keep |-> keep])]
    /\ Goto(h, "history")
    /\ UNCHANGED <<hist, overlapped, reported, streamVars, store, leases, expired, uses, audit, configVars>>

HistoryWritten(h) ==
    /\ handler[h].at = "history" /\ writer[h].at \in {"done", "failed"}
    /\ handler' = [handler EXCEPT ![h].at = "audit", ![h].ok = writer[h].at = "done",
                       ![h].effect = @ \/ writer[h].at = "done"]
    /\ UNCHANGED <<historyVars, streamVars, store, leases, expired, uses, audit, configVars>>

-----------------------------------------------------------------------------
(* The catalog of the control plane *)

\* readLocked verifies every bundle that it finds.
Verifies(catalog) == \A p \in Packages : catalog.policies[p].seal # "forged"

Installed(catalog, p) == catalog.policies[p] # NotInstalled
\* Create takes a bundle from the client as it is; import has verified it.
Changes(h) == LET op == handler[h].op IN
    {c \in Change : /\ c.op = op /\ c.text = h
                    /\ op \in {"update", "assign"} => c.seal = "none"
                    /\ op = "import" => c.seal = "genuine"
                    /\ op # "assign" => c.package # Unassigned}

Allowed(c, catalog) ==
    CASE c.op = "update" -> Installed(catalog, c.package) /\ catalog.policies[c.package].seal = "none"
      [] c.op = "assign" -> c.package # Unassigned => Installed(catalog, c.package)
      [] OTHER           -> ~Installed(catalog, c.package)

Applied(c, catalog) ==
    [(IF c.op = "assign" THEN [catalog EXCEPT !.spaces[c.space] = c.package]
      ELSE [catalog EXCEPT !.policies[c.package] = [text |-> c.text, seal |-> c.seal]])
     EXCEPT !.revision = @ + 1]

\* A mutant of Mutate: the file is read before the mutex is taken.
Mut_Mutate(h) ==
    /\ handler[h].op \in ConfigOps /\ handler[h].at = "new"
    /\ \/ /\ Decodes(config) /\ Verifies(ValueOf(config, NoCatalog))
          /\ \E c \in Changes(h) :
               /\ Allowed(c, ValueOf(config, NoCatalog))
               /\ handler' = [handler EXCEPT ![h].at = "replace", ![h].change = c,
                                  ![h].catalog = Applied(c, ValueOf(config, NoCatalog))]
       \/ Refuse(h)
    /\ UNCHANGED <<historyVars, streamVars, store, leases, expired, uses, audit, configVars>>

\* mutate: lock, read, change.  A request may also be refused before that.
Mutate(h) ==
    /\ handler[h].op \in ConfigOps /\ handler[h].at = "new" /\ owner = NoHandler
    /\ \/ /\ Decodes(config) /\ Verifies(ValueOf(config, NoCatalog))
          /\ \E c \in Changes(h) :
               /\ Allowed(c, ValueOf(config, NoCatalog))
               /\ handler' = [handler EXCEPT ![h].at = "replace", ![h].change = c,
                                  ![h].catalog = Applied(c, ValueOf(config, NoCatalog))]
          /\ owner' = h
       \/ Refuse(h) /\ UNCHANGED owner
    /\ UNCHANGED <<historyVars, streamVars, store, leases, expired, uses, audit, config, promised>>

Spare == CHOOSE i \in CatalogInodes : i # config.file

\* The .tmp is written, or left half written.
Replace(h) ==
    /\ handler[h].at = "replace"
    /\ \/ /\ config' \in Written(Opened(config, Spare), OpenedInode(config, Spare), handler[h].catalog)
          /\ Goto(h, "rename") /\ UNCHANGED owner
       \/ /\ "write" \in faults
          /\ config' = Opened(config, Spare)
          /\ Refuse(h) /\ owner' = NoHandler
    /\ UNCHANGED <<historyVars, streamVars, store, leases, expired, uses, audit, promised>>

\* The change has happened; the answer promises it.
Publish(h) ==
    /\ handler[h].at = "rename"
    /\ \/ /\ CanRename(config)
          /\ config' = Renamed(config)
          /\ promised' = Applied(handler[h].change, promised)
          /\ Done(h)
       \/ /\ "write" \in faults \/ ~CanRename(config)
          /\ Refuse(h) /\ UNCHANGED <<config, promised>>
    /\ owner' = NoHandler
    /\ UNCHANGED <<historyVars, streamVars, store, leases, expired, uses, audit>>

-----------------------------------------------------------------------------
(* The process *)

\* It is started again at once, with empty stores and a new broker.
Killed ==
    /\ "kill" \in faults /\ kills < MaxKills
    /\ kills' = kills + 1
    /\ handler' = [h \in Handlers |-> IF handler[h].at \in {"new", "answered", "killed"} THEN handler[h]
                                      ELSE [handler[h] EXCEPT !.at = "killed"]]
    /\ writer' = [w \in Writers |-> IF w \in Handlers THEN Stopped(w) ELSE writer[w]]
    /\ stream' = [s \in Streams |-> IF stream[s].at \in {"idle", "ended"} THEN stream[s]
                                    ELSE [stream[s] EXCEPT !.at = "ended", !.why = "gone"]]
    /\ store' = [x \in Sides |-> {}] /\ leases' = {} /\ owner' = NoHandler
    /\ UNCHANGED <<hist, overlapped, reported, run, journal, record, expired, uses, audit, config, promised>>

HandlerStep(h) ==
    /\ \/ Issue(h) \/ Consume(h) \/ Lend(h) \/ Lookup(h) \/ Status(h) \/ Rollback(h) \/ Commit(h)
       \/ ActionRefused(h) \/ Prune(h) \/ HistoryWritten(h) \/ Mutate(h) \/ Replace(h) \/ Publish(h)
       \/ Audit(h)
    /\ UNCHANGED kills

Elsewhere == UNCHANGED <<handlerVars, configVars, kills>>

Over == /\ \A h \in Handlers : handler[h].at \in {"answered", "killed"}
        /\ \A s \in Streams : stream[s].at = "ended"
        /\ \A r \in Runs : run[r].at \in {"over", "killed"}

Step ==
    \/ \E h \in Handlers : HandlerStep(h) \/ OpenLease(h) \/ Revoke(h) \/ Expire(h)
    \/ \E w \in Writers : WriterStep(w) /\ UNCHANGED streamVars /\ Elsewhere
    \/ \E r \in Runs : (RunStep(r) \/ RunKilled(r)) /\ Elsewhere
    \/ \E s \in Streams : /\ \/ StreamStep(s)
                             \/ \E r \in Runs, follow \in BOOLEAN : Request(s, r, follow)
                          /\ Elsewhere
    \/ Killed

Next == (Step /\ UNCHANGED faults) \/ (Over /\ UNCHANGED vars)

Spec == Init /\ [][Next]_vars

-----------------------------------------------------------------------------
(* Properties *)

\* A challenge lets one action through, the one it was asked for, and a lease
\* is opened once: with requests repeated or sent to the other side, answers
\* that come after the time of the challenge and a supervisor that dies in
\* between.  actionChallengeStore.consume and ManagedBroker.Open.
HandlesAreOneShot ==
    /\ \A h \in Handlers : uses[h] <= 1
    /\ \A h \in Handlers : LET t == handler[h].token IN
         t # NoHandler => /\ Matches(t, handler[h].action, handler[h].run)
                          /\ handler[t].side = handler[h].side
                          /\ uses[t] = 1

\* What the audit log says when a request has been answered: an action that
\* is refused there did nothing, unless it was only the history that could not
\* be written after it; one that is confirmed there has happened.  recordAudit.
AuditIsTrue ==
    \A h \in Handlers :
      handler[h].at = "answered" /\ handler[h].op \notin {"challenge", "none"} =>
        CASE audit[h] = "ok"      -> handler[h].effect \/ (handler[h].op = "action" /\ handler[h].action = "status")
          [] audit[h] = "refused" -> handler[h].effect => writer[h].at = "failed"
          [] OTHER                -> audit[h] = "lost"

\* The catalog on the disk can be decoded and is the one that follows from the
\* changes that were confirmed, in their order, wherever the supervisor dies.
\* Store.mutate, readLocked and writeLocked.
CatalogIsSerial == Decodes(config) /\ ValueOf(config, NoCatalog) = promised

-----------------------------------------------------------------------------
(* The inductive invariants behind them *)

\* A challenge in a store and a lease in the broker have been used by nobody;
\* the one that an action carries was used by that action.
OneShotInv ==
    \A h \in Handlers :
      /\ uses[h] \in {0, 1}
      /\ handler[h].at = "new" => uses[h] = 0 /\ handler[h].token = NoHandler
      /\ \A side \in Sides : h \in store[side] =>
           handler[h].op = "challenge" /\ handler[h].at = "answered" /\ handler[h].side = side /\ uses[h] = 0
      /\ h \in leases => handler[h].op = "lease" /\ handler[h].at # "new" /\ uses[h] = 0
      /\ LET t == handler[h].token IN
           t # NoHandler =>
             /\ t \in Handlers /\ handler[t].op = "challenge" /\ handler[t].at = "answered" /\ uses[t] = 1
             /\ Matches(t, handler[h].action, handler[h].run) /\ handler[t].side = handler[h].side

\* Nothing has happened before the record or the history is written.
AuditInv ==
    \A h \in Handlers :
      /\ handler[h].at \in {"new", "lookup", "work", "replace", "rename"} => ~handler[h].effect
      /\ handler[h].at \notin {"audit", "answered", "killed"} => ~handler[h].ok
      /\ handler[h].at = "audit" /\ handler[h].op \notin {"challenge", "none"} =>
           IF handler[h].ok THEN handler[h].effect \/ (handler[h].op = "action" /\ handler[h].action = "status")
           ELSE handler[h].effect => writer[h].at = "failed"
      /\ handler[h].at = "answered" /\ handler[h].op \notin {"challenge", "none"} =>
           /\ audit[h] # "none"
           /\ audit[h] = "ok" => handler[h].effect \/ (handler[h].op = "action" /\ handler[h].action = "status")
           /\ audit[h] = "refused" => (handler[h].effect => writer[h].at = "failed")

\* The holder of the mutex is the one request between its change and its
\* answer, and its change is made to what the answers have promised.
CatalogInv ==
    /\ \A h \in Handlers :
         /\ owner = h <=> handler[h].at \in {"replace", "rename"}
         /\ owner = h => handler[h].catalog = Applied(handler[h].change, promised)
         /\ handler[h].at = "rename" => config.tmp # NoInode /\ config.data[config.tmp] = {handler[h].catalog}
    /\ config.tmp # NoInode => config.tmp # config.file
    /\ IF config.file = NoInode THEN promised = NoCatalog ELSE config.data[config.file] = {promised}
=============================================================================
