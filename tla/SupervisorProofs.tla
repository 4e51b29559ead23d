-------------------------- MODULE SupervisorProofs --------------------------
(***************************************************************************)
(* Proofs about the supervisor: challenges and leases are one-shot, the    *)
(* audit log is true, the catalog is serial, the index of runs is what its *)
(* writers reported and an event stream is a first part of the journal;    *)
(* for any number of requests and streams on any number of sides, any runs,*)
(* lines, packages and workspaces, and any deaths of the supervisor and of *)
(* runs.                                                                   *)
(***************************************************************************)
EXTENDS Supervisor, FiniteSetTheorems, WellFoundedInduction, TLAPS

Steps == {"new", "lookup", "work", "history", "replace", "rename", "audit", "answered", "killed"}

\* S holds what a handler carries from the records and the catalog.
Carried(S) ==
    [op : Ops \cup {"none"}, at : Steps, side : S, action : S, run : S,
     token : Handlers \cup {NoHandler}, record : S, change : S, catalog : S,
     ok : BOOLEAN, effect : BOOLEAN]

Shaped == \E S : handler \in [Handlers -> Carried(S)]

ConfigShaped == \E D : config \in Dirs(CatalogInodes, D)

WriterShaped == writer = [w \in Writers |-> writer[w]]

BaseInv ==
    /\ Shaped /\ ConfigShaped /\ WriterShaped
    /\ store \in [Sides -> SUBSET Handlers] /\ leases \subseteq Handlers
    /\ uses \in [Handlers -> Nat]
    /\ audit \in [Handlers -> {"none", "ok", "refused", "lost"}]
    /\ owner \in Handlers \cup {NoHandler}

-----------------------------------------------------------------------------
(* What a step does to the handlers *)

\* Only h moves, and its request stays the same.
OnlyMoves(h) ==
    /\ \A g \in Handlers : g # h => handler'[g] = handler[g]
    /\ handler'[h].op = handler[h].op

Carries(h) ==
    /\ handler'[h].side = handler[h].side /\ handler'[h].action = handler[h].action
    /\ handler'[h].run = handler[h].run /\ handler'[h].token = handler[h].token

Plans(h) == handler'[h].change = handler[h].change /\ handler'[h].catalog = handler[h].catalog

Told(h) == handler'[h].ok = handler[h].ok /\ handler'[h].effect = handler[h].effect

LEMMA GotoStep ==
    ASSUME Shaped, NEW h \in Handlers, NEW step \in Steps, Goto(h, step)
    PROVE  /\ Shaped' /\ OnlyMoves(h) /\ Carries(h) /\ Plans(h) /\ Told(h)
           /\ handler'[h].at = step
<1>1. PICK S : handler \in [Handlers -> Carried(S)]
  BY DEF Shaped
<1>2. handler' = [handler EXCEPT ![h] = [handler[h] EXCEPT !.at = step]]
  BY DEF Goto
<1>3. handler[h] \in Carried(S)
  BY <1>1
<1>4. [handler[h] EXCEPT !.at = step] \in Carried(S)
  BY <1>3 DEF Carried
<1>5. handler' \in [Handlers -> Carried(S)]
  BY <1>1, <1>2, <1>4
<1>6. handler'[h] = [handler[h] EXCEPT !.at = step]
  BY <1>1, <1>2
<1>7. \A g \in Handlers : g # h => handler'[g] = handler[g]
  BY <1>1, <1>2
<1>8. /\ handler'[h].op = handler[h].op /\ handler'[h].at = step
      /\ Carries(h) /\ Plans(h) /\ Told(h)
  BY <1>3, <1>6 DEF Carried, Carries, Plans, Told
<1> QED
  BY <1>5, <1>7, <1>8 DEF Shaped, OnlyMoves

\* A challenge is asked for.
LEMMA AskStep ==
    ASSUME Shaped, NEW h \in Handlers, NEW step \in Steps, NEW side, NEW action, NEW r,
           handler' = [handler EXCEPT ![h].at = step, ![h].side = side, ![h].action = action, ![h].run = r]
    PROVE  /\ Shaped' /\ OnlyMoves(h) /\ Plans(h) /\ Told(h)
           /\ handler'[h].at = step /\ handler'[h].side = side /\ handler'[h].action = action
           /\ handler'[h].run = r /\ handler'[h].token = handler[h].token
<1>1. PICK S : handler \in [Handlers -> Carried(S)]
  BY DEF Shaped
<1> DEFINE T == S \cup {side, action, r}
           new == [handler[h] EXCEPT !.at = step, !.side = side, !.action = action, !.run = r]
<1>2. handler' = [handler EXCEPT ![h] = new]
  BY <1>1
<1>3. handler[h] \in Carried(S)
  BY <1>1
<1>4. new \in Carried(T)
  BY <1>3 DEF Carried
<1>5. \A g \in Handlers : handler[g] \in Carried(T)
  BY <1>1 DEF Carried
<1>6. /\ new.op = handler[h].op /\ new.at = step /\ new.side = side
      /\ new.action = action /\ new.run = r /\ new.token = handler[h].token
      /\ new.change = handler[h].change /\ new.catalog = handler[h].catalog /\ new.ok = handler[h].ok
      /\ new.effect = handler[h].effect
  BY <1>3 DEF Carried
<1> HIDE DEF new, T
<1>7. handler'[h] = new /\ \A g \in Handlers : g # h => handler'[g] = handler[g]
  BY <1>1, <1>2
<1>8. handler' \in [Handlers -> Carried(T)]
  BY <1>1, <1>2, <1>4, <1>5
<1> QED
  BY <1>6, <1>7, <1>8 DEF Shaped, OnlyMoves, Plans, Told

\* An action is bound to what it is about and to its challenge.
Binds(h, step, side, action, r, token) ==
    handler' = [handler EXCEPT ![h].at = step, ![h].side = side, ![h].action = action,
                    ![h].run = r, ![h].token = token]

LEMMA BindStep ==
    ASSUME Shaped, NEW h \in Handlers, NEW step \in Steps, NEW side, NEW action, NEW r,
           NEW token \in Handlers \cup {NoHandler},
           Binds(h, step, side, action, r, token)
    PROVE  /\ Shaped' /\ OnlyMoves(h) /\ Plans(h) /\ Told(h)
           /\ handler'[h].at = step /\ handler'[h].side = side /\ handler'[h].action = action
           /\ handler'[h].run = r /\ handler'[h].token = token
<1>1. PICK S : handler \in [Handlers -> Carried(S)]
  BY DEF Shaped
<1> DEFINE T == S \cup {side, action, r}
           new == [handler[h] EXCEPT !.at = step, !.side = side, !.action = action, !.run = r, !.token = token]
<1>2. handler' = [handler EXCEPT ![h] = new]
  BY <1>1 DEF Binds
<1>3. handler[h] \in Carried(S)
  BY <1>1
<1>4. new \in Carried(T)
  BY <1>3 DEF Carried
<1>5. \A g \in Handlers : handler[g] \in Carried(T)
  BY <1>1 DEF Carried
<1>6. /\ new.op = handler[h].op /\ new.at = step /\ new.side = side
      /\ new.action = action /\ new.run = r /\ new.token = token
      /\ new.change = handler[h].change /\ new.catalog = handler[h].catalog /\ new.ok = handler[h].ok
      /\ new.effect = handler[h].effect
  BY <1>3 DEF Carried
<1> HIDE DEF new, T
<1>7. handler'[h] = new /\ \A g \in Handlers : g # h => handler'[g] = handler[g]
  BY <1>1, <1>2
<1>8. handler' \in [Handlers -> Carried(T)]
  BY <1>1, <1>2, <1>4, <1>5
<1> QED
  BY <1>6, <1>7, <1>8 DEF Shaped, OnlyMoves, Plans, Told

\* The record of the run is read.
LEMMA ReadStep ==
    ASSUME Shaped, NEW h \in Handlers, NEW step \in Steps, NEW old,
           handler' = [handler EXCEPT ![h].at = step, ![h].record = old]
    PROVE  /\ Shaped' /\ OnlyMoves(h) /\ Carries(h) /\ Plans(h) /\ Told(h)
           /\ handler'[h].at = step /\ handler'[h].record = old
<1>1. PICK S : handler \in [Handlers -> Carried(S)]
  BY DEF Shaped
<1> DEFINE T == S \cup {old}
           new == [handler[h] EXCEPT !.at = step, !.record = old]
<1>2. handler' = [handler EXCEPT ![h] = new]
  BY <1>1
<1>3. handler[h] \in Carried(S)
  BY <1>1
<1>4. new \in Carried(T)
  BY <1>3 DEF Carried
<1>5. \A g \in Handlers : handler[g] \in Carried(T)
  BY <1>1 DEF Carried
<1>6. /\ new.op = handler[h].op /\ new.at = step /\ new.side = handler[h].side
      /\ new.action = handler[h].action /\ new.run = handler[h].run /\ new.token = handler[h].token
      /\ new.change = handler[h].change /\ new.catalog = handler[h].catalog /\ new.ok = handler[h].ok
      /\ new.effect = handler[h].effect
  BY <1>3 DEF Carried
<1> HIDE DEF new, T
<1>7. handler'[h] = new /\ \A g \in Handlers : g # h => handler'[g] = handler[g]
  BY <1>1, <1>2
<1>8. handler' \in [Handlers -> Carried(T)]
  BY <1>1, <1>2, <1>4, <1>5
<1> QED
  BY <1>6, <1>7, <1>8 DEF Shaped, OnlyMoves, Carries, Plans, Told

\* Something has happened.
LEMMA EffectStep ==
    ASSUME Shaped, NEW h \in Handlers, NEW step \in Steps, NEW effect \in BOOLEAN,
           handler' = [handler EXCEPT ![h].at = step, ![h].effect = effect]
    PROVE  /\ Shaped' /\ OnlyMoves(h) /\ Carries(h) /\ Plans(h)
           /\ handler'[h].at = step /\ handler'[h].effect = effect /\ handler'[h].ok = handler[h].ok
<1>1. PICK S : handler \in [Handlers -> Carried(S)]
  BY DEF Shaped
<1> DEFINE T == S
           new == [handler[h] EXCEPT !.at = step, !.effect = effect]
<1>2. handler' = [handler EXCEPT ![h] = new]
  BY <1>1
<1>3. handler[h] \in Carried(S)
  BY <1>1
<1>4. new \in Carried(T)
  BY <1>3 DEF Carried
<1>5. \A g \in Handlers : handler[g] \in Carried(T)
  BY <1>1 DEF Carried
<1>6. /\ new.op = handler[h].op /\ new.at = step /\ new.side = handler[h].side
      /\ new.action = handler[h].action /\ new.run = handler[h].run /\ new.token = handler[h].token
      /\ new.change = handler[h].change /\ new.catalog = handler[h].catalog /\ new.ok = handler[h].ok
      /\ new.effect = effect
  BY <1>3 DEF Carried
<1> HIDE DEF new, T
<1>7. handler'[h] = new /\ \A g \in Handlers : g # h => handler'[g] = handler[g]
  BY <1>1, <1>2
<1>8. handler' \in [Handlers -> Carried(T)]
  BY <1>1, <1>2, <1>4, <1>5
<1> QED
  BY <1>6, <1>7, <1>8 DEF Shaped, OnlyMoves, Carries, Plans

\* The request is confirmed, without an effect.
LEMMA OkStep ==
    ASSUME Shaped, NEW h \in Handlers, NEW step \in Steps, NEW ok \in BOOLEAN,
           handler' = [handler EXCEPT ![h].at = step, ![h].ok = ok]
    PROVE  /\ Shaped' /\ OnlyMoves(h) /\ Carries(h) /\ Plans(h)
           /\ handler'[h].at = step /\ handler'[h].ok = ok /\ handler'[h].effect = handler[h].effect
<1>1. PICK S : handler \in [Handlers -> Carried(S)]
  BY DEF Shaped
<1> DEFINE T == S
           new == [handler[h] EXCEPT !.at = step, !.ok = ok]
<1>2. handler' = [handler EXCEPT ![h] = new]
  BY <1>1
<1>3. handler[h] \in Carried(S)
  BY <1>1
<1>4. new \in Carried(T)
  BY <1>3 DEF Carried
<1>5. \A g \in Handlers : handler[g] \in Carried(T)
  BY <1>1 DEF Carried
<1>6. /\ new.op = handler[h].op /\ new.at = step /\ new.side = handler[h].side
      /\ new.action = handler[h].action /\ new.run = handler[h].run /\ new.token = handler[h].token
      /\ new.change = handler[h].change /\ new.catalog = handler[h].catalog /\ new.ok = ok
      /\ new.effect = handler[h].effect
  BY <1>3 DEF Carried
<1> HIDE DEF new, T
<1>7. handler'[h] = new /\ \A g \in Handlers : g # h => handler'[g] = handler[g]
  BY <1>1, <1>2
<1>8. handler' \in [Handlers -> Carried(T)]
  BY <1>1, <1>2, <1>4, <1>5
<1> QED
  BY <1>6, <1>7, <1>8 DEF Shaped, OnlyMoves, Carries, Plans

\* A step that tells what has become of the request.
LEMMA TellStep ==
    ASSUME Shaped, NEW h \in Handlers, NEW step \in Steps, NEW ok \in BOOLEAN, NEW effect \in BOOLEAN,
           handler' = [handler EXCEPT ![h].at = step, ![h].ok = ok, ![h].effect = effect]
    PROVE  /\ Shaped' /\ OnlyMoves(h) /\ Carries(h) /\ Plans(h)
           /\ handler'[h].at = step /\ handler'[h].ok = ok /\ handler'[h].effect = effect
<1>1. PICK S : handler \in [Handlers -> Carried(S)]
  BY DEF Shaped
<1> DEFINE T == S
           new == [handler[h] EXCEPT !.at = step, !.ok = ok, !.effect = effect]
<1>2. handler' = [handler EXCEPT ![h] = new]
  BY <1>1
<1>3. handler[h] \in Carried(S)
  BY <1>1
<1>4. new \in Carried(T)
  BY <1>3 DEF Carried
<1>5. \A g \in Handlers : handler[g] \in Carried(T)
  BY <1>1 DEF Carried
<1>6. /\ new.op = handler[h].op /\ new.at = step /\ new.side = handler[h].side
      /\ new.action = handler[h].action /\ new.run = handler[h].run /\ new.token = handler[h].token
      /\ new.change = handler[h].change /\ new.catalog = handler[h].catalog /\ new.ok = ok
      /\ new.effect = effect
  BY <1>3 DEF Carried
<1> HIDE DEF new, T
<1>7. handler'[h] = new /\ \A g \in Handlers : g # h => handler'[g] = handler[g]
  BY <1>1, <1>2
<1>8. handler' \in [Handlers -> Carried(T)]
  BY <1>1, <1>2, <1>4, <1>5
<1> QED
  BY <1>6, <1>7, <1>8 DEF Shaped, OnlyMoves, Carries, Plans

\* A change of the catalog is made.
LEMMA PlanStep ==
    ASSUME Shaped, NEW h \in Handlers, NEW step \in Steps, NEW change, NEW catalog,
           handler' = [handler EXCEPT ![h].at = step, ![h].change = change, ![h].catalog = catalog]
    PROVE  /\ Shaped' /\ OnlyMoves(h) /\ Carries(h) /\ Told(h)
           /\ handler'[h].at = step /\ handler'[h].change = change /\ handler'[h].catalog = catalog
<1>1. PICK S : handler \in [Handlers -> Carried(S)]
  BY DEF Shaped
<1> DEFINE T == S \cup {change, catalog}
           new == [handler[h] EXCEPT !.at = step, !.change = change, !.catalog = catalog]
<1>2. handler' = [handler EXCEPT ![h] = new]
  BY <1>1
<1>3. handler[h] \in Carried(S)
  BY <1>1
<1>4. new \in Carried(T)
  BY <1>3 DEF Carried
<1>5. \A g \in Handlers : handler[g] \in Carried(T)
  BY <1>1 DEF Carried
<1>6. /\ new.op = handler[h].op /\ new.at = step /\ new.side = handler[h].side
      /\ new.action = handler[h].action /\ new.run = handler[h].run /\ new.token = handler[h].token
      /\ new.change = change /\ new.catalog = catalog /\ new.ok = handler[h].ok
      /\ new.effect = handler[h].effect
  BY <1>3 DEF Carried
<1> HIDE DEF new, T
<1>7. handler'[h] = new /\ \A g \in Handlers : g # h => handler'[g] = handler[g]
  BY <1>1, <1>2
<1>8. handler' \in [Handlers -> Carried(T)]
  BY <1>1, <1>2, <1>4, <1>5
<1> QED
  BY <1>6, <1>7, <1>8 DEF Shaped, OnlyMoves, Carries, Told

-----------------------------------------------------------------------------
(* Each step of a handler *)

\* What most steps leave alone.
Quiet(h) ==
    /\ OnlyMoves(h) /\ Carries(h) /\ Plans(h)
    /\ handler[h].at \notin {"answered", "killed", "replace", "rename"}
    /\ handler'[h].at \notin {"new", "replace", "rename"}
    /\ UNCHANGED <<store, leases, uses, configVars>>

LEMMA LookupFacts ==
    ASSUME BaseInv, NEW h \in Handlers, Lookup(h)
    PROVE  /\ BaseInv' /\ Quiet(h) /\ Told(h) /\ UNCHANGED <<writer, audit>>
           /\ handler[h].at = "lookup" /\ handler'[h].at \in {"work", "audit"}
<1>1. CASE Listed(handler[h].run)
  <2>1. handler' = [handler EXCEPT ![h].at = "work", ![h].record = record[handler[h].run]]
    BY <1>1 DEF Lookup
  <2>2. /\ Shaped' /\ OnlyMoves(h) /\ Carries(h) /\ Plans(h) /\ Told(h) /\ handler'[h].at = "work"
    BY <2>1, ReadStep DEF BaseInv, Steps
  <2> QED
    BY <2>2 DEF Lookup, At, BaseInv, Quiet, historyVars, configVars, WriterShaped, ConfigShaped
<1>2. CASE ~Listed(handler[h].run)
  <2>1. Goto(h, "audit")
    BY <1>2 DEF Lookup, Refuse
  <2>2. /\ Shaped' /\ OnlyMoves(h) /\ Carries(h) /\ Plans(h) /\ Told(h) /\ handler'[h].at = "audit"
    BY <2>1, GotoStep DEF BaseInv, Steps
  <2> QED
    BY <2>2 DEF Lookup, At, BaseInv, Quiet, historyVars, configVars, WriterShaped, ConfigShaped
<1> QED
  BY <1>1, <1>2

LEMMA StatusFacts ==
    ASSUME BaseInv, NEW h \in Handlers, Status(h)
    PROVE  /\ BaseInv' /\ Quiet(h) /\ UNCHANGED <<writer, audit>>
           /\ handler[h].op = "action" /\ handler[h].action = "status" /\ handler'[h].at = "audit"
           /\ handler'[h].ok /\ handler'[h].effect = handler[h].effect
<1>1. handler' = [handler EXCEPT ![h].at = "audit", ![h].ok = TRUE]
  BY DEF Status
<1>2. /\ Shaped' /\ OnlyMoves(h) /\ Carries(h) /\ Plans(h)
      /\ handler'[h].at = "audit" /\ handler'[h].ok = TRUE /\ handler'[h].effect = handler[h].effect
  BY <1>1, OkStep DEF BaseInv, Steps
<1> QED
  BY <1>2 DEF Status, At, BaseInv, Quiet, historyVars, configVars, WriterShaped, ConfigShaped

\* Rollback and Commit.
LEMMA RecordsFacts ==
    ASSUME BaseInv, NEW h \in Handlers, NEW state, NEW new, Records(h, state, new), At(h, "action", "work"),
           UNCHANGED <<store, leases, expired, uses, audit, configVars>>
    PROVE  /\ BaseInv' /\ Quiet(h) /\ UNCHANGED audit
           /\ \A g \in Handlers : g # h => writer'[g] = writer[g]
           /\ handler[h].at = "work" /\ handler'[h].at = "history"
           /\ handler'[h].ok = handler[h].ok
<1>1. handler' = [handler EXCEPT ![h].at = "history", ![h].effect = TRUE]
  BY DEF Records
<1>2. /\ Shaped' /\ OnlyMoves(h) /\ Carries(h) /\ Plans(h)
      /\ handler'[h].at = "history" /\ handler'[h].ok = handler[h].ok
  BY <1>1, EffectStep DEF BaseInv, Steps
<1> DEFINE job == Began([op |-> "upsert", run |-> handler[h].run, state |-> state])
<1>3. writer' = [writer EXCEPT ![h] = job]
  BY DEF Records
<1> HIDE DEF job
<1>4. WriterShaped' /\ \A g \in Handlers : g # h => writer'[g] = writer[g]
  BY <1>3, SupervisorAssumption DEF BaseInv, WriterShaped
<1> QED
  BY <1>2, <1>4 DEF At, BaseInv, Quiet, configVars, ConfigShaped

LEMMA RefusedFacts ==
    ASSUME BaseInv, NEW h \in Handlers, ActionRefused(h)
    PROVE  /\ BaseInv' /\ Quiet(h) /\ Told(h) /\ UNCHANGED <<writer, audit>>
           /\ handler[h].at = "work" /\ handler'[h].at = "audit"
<1>1. Goto(h, "audit")
  BY DEF ActionRefused, Refuse
<1>2. /\ Shaped' /\ OnlyMoves(h) /\ Carries(h) /\ Plans(h) /\ Told(h) /\ handler'[h].at = "audit"
  BY <1>1, GotoStep DEF BaseInv, Steps
<1> QED
  BY <1>2 DEF ActionRefused, At, BaseInv, Quiet, historyVars, configVars, WriterShaped, ConfigShaped

LEMMA PruneFacts ==
    ASSUME BaseInv, NEW h \in Handlers, Prune(h)
    PROVE  /\ BaseInv' /\ Quiet(h) /\ Told(h) /\ UNCHANGED audit
           /\ \A g \in Handlers : g # h => writer'[g] = writer[g]
           /\ handler[h].at = "new" /\ handler'[h].at = "history"
<1>1. Goto(h, "history")
  BY DEF Prune
<1>2. /\ Shaped' /\ OnlyMoves(h) /\ Carries(h) /\ Plans(h) /\ Told(h) /\ handler'[h].at = "history"
  BY <1>1, GotoStep DEF BaseInv, Steps
<1>3. PICK keep \in Keeps : writer' = [writer EXCEPT ![h] = Began([op |-> "prune", keep |-> keep])]
  BY DEF Prune
<1> DEFINE job == Began([op |-> "prune", keep |-> keep])
<1>4. writer' = [writer EXCEPT ![h] = job]
  BY <1>3
<1> HIDE DEF job
<1>5. WriterShaped' /\ \A g \in Handlers : g # h => writer'[g] = writer[g]
  BY <1>4, SupervisorAssumption DEF BaseInv, WriterShaped
<1> QED
  BY <1>2, <1>5 DEF Prune, At, BaseInv, Quiet, configVars, ConfigShaped

LEMMA WrittenFacts ==
    ASSUME BaseInv, NEW h \in Handlers, HistoryWritten(h)
    PROVE  /\ BaseInv' /\ Quiet(h) /\ UNCHANGED <<writer, audit>>
           /\ handler[h].at = "history" /\ handler'[h].at = "audit"
           /\ writer[h].at \in {"done", "failed"}
           /\ handler'[h].ok = (writer[h].at = "done")
           /\ writer[h].at = "done" => handler'[h].effect
<1> DEFINE ok == writer[h].at = "done"
           effect == handler[h].effect \/ writer[h].at = "done"
<1>1. ok \in BOOLEAN /\ effect \in BOOLEAN
  OBVIOUS
<1>2. handler' = [handler EXCEPT ![h].at = "audit", ![h].ok = ok, ![h].effect = effect]
  BY DEF HistoryWritten, BaseInv, Shaped
<1>3. ok => effect
  OBVIOUS
<1> HIDE DEF ok, effect
<1>4. /\ Shaped' /\ OnlyMoves(h) /\ Carries(h) /\ Plans(h)
      /\ handler'[h].at = "audit" /\ handler'[h].ok = ok /\ handler'[h].effect = effect
  BY <1>1, <1>2, TellStep DEF BaseInv, Steps
<1>5. handler[h].at = "history" /\ writer[h].at \in {"done", "failed"}
  BY DEF HistoryWritten
<1>6. BaseInv' /\ Quiet(h) /\ UNCHANGED <<writer, audit>>
  BY <1>4, <1>5 DEF HistoryWritten, BaseInv, Quiet, historyVars, configVars, WriterShaped, ConfigShaped
<1> QED
  BY <1>3, <1>4, <1>5, <1>6 DEF ok

LEMMA AuditFacts ==
    ASSUME BaseInv, NEW h \in Handlers, Audit(h)
    PROVE  /\ BaseInv' /\ Quiet(h) /\ Told(h) /\ UNCHANGED writer
           /\ handler[h].at = "audit" /\ handler'[h].at = "answered"
           /\ \A g \in Handlers : g # h => audit'[g] = audit[g]
           /\ audit'[h] \in {IF handler[h].ok THEN "ok" ELSE "refused", "lost"}
<1>1. Goto(h, "answered")
  BY DEF Audit
<1>2. /\ Shaped' /\ OnlyMoves(h) /\ Carries(h) /\ Plans(h) /\ Told(h) /\ handler'[h].at = "answered"
  BY <1>1, GotoStep DEF BaseInv, Steps
<1>3. /\ audit' \in [Handlers -> {"none", "ok", "refused", "lost"}]
      /\ \A g \in Handlers : g # h => audit'[g] = audit[g]
      /\ audit'[h] \in {IF handler[h].ok THEN "ok" ELSE "refused", "lost"}
  BY DEF Audit, BaseInv
<1> QED
  BY <1>2, <1>3 DEF Audit, BaseInv, Quiet, historyVars, configVars, WriterShaped, ConfigShaped

LEMMA IssueFacts ==
    ASSUME BaseInv, NEW h \in Handlers, Issue(h)
    PROVE  /\ BaseInv' /\ OnlyMoves(h) /\ Plans(h) /\ Told(h) /\ UNCHANGED <<writer, audit, leases, uses, configVars>>
           /\ handler[h].op = "challenge" /\ handler[h].at = "new"
           /\ handler'[h].at = "answered" /\ handler'[h].token = handler[h].token
           /\ handler'[h].side \in Sides
           /\ store' = [store EXCEPT ![handler'[h].side] = @ \cup {h}]
<1>1. PICK side \in Sides, action \in Actions \ {"status"}, r \in Runs :
        /\ handler' = [handler EXCEPT ![h].at = "answered", ![h].side = side, ![h].action = action, ![h].run = r]
        /\ store' = [store EXCEPT ![side] = @ \cup {h}]
  BY DEF Issue
<1>2. /\ Shaped' /\ OnlyMoves(h) /\ Plans(h) /\ Told(h)
      /\ handler'[h].at = "answered" /\ handler'[h].side = side /\ handler'[h].token = handler[h].token
  BY <1>1, AskStep DEF BaseInv, Steps
<1>3. store' \in [Sides -> SUBSET Handlers]
  BY <1>1 DEF BaseInv
<1> QED
  BY <1>1, <1>2, <1>3 DEF Issue, At, BaseInv, historyVars, configVars, WriterShaped, ConfigShaped

\* Either an action is let through, by its challenge unless it only asks for
\* the state, or it is refused.
LEMMA ConsumeFacts ==
    ASSUME BaseInv, NEW h \in Handlers, Consume(h)
    PROVE  /\ BaseInv' /\ OnlyMoves(h) /\ Plans(h) /\ Told(h) /\ UNCHANGED <<writer, audit, leases, configVars>>
           /\ handler[h].op = "action" /\ handler[h].at = "new" /\ handler'[h].at \in {"lookup", "audit"}
           /\ handler'[h].at = "lookup" => handler'[h].run \in Runs
           /\ \A side \in Sides : store'[side] \subseteq store[side]
           /\ \/ handler'[h].token \in {handler[h].token, NoHandler} /\ uses' = uses
              \/ \E t \in Handlers :
                   /\ handler'[h].token = t /\ t \in store[handler'[h].side] /\ handler'[h].side \in Sides
                   /\ Matches(t, handler'[h].action, handler'[h].run)
                   /\ uses' = [uses EXCEPT ![t] = @ + 1]
                   /\ t \notin store'[handler'[h].side]
<1>1. PICK side \in Sides, action \in Actions, r \in Runs, t \in Known \cup {NoHandler} :
        LET passes == \/ action = "status"
                      \/ t \in store[side] /\ t \notin expired /\ Matches(t, action, r)
            used == passes /\ action # "status"
        IN /\ IF passes
              THEN handler' = [handler EXCEPT ![h].at = "lookup", ![h].side = side, ![h].action = action,
                                   ![h].run = r, ![h].token = IF used THEN t ELSE NoHandler]
              ELSE Refuse(h)
           /\ uses' = IF used THEN [uses EXCEPT ![t] = @ + 1] ELSE uses
           /\ store' = IF action = "status" THEN store ELSE [store EXCEPT ![side] = @ \ {t}]
  BY DEF Consume
<1>2. At(h, "action", "new") /\ UNCHANGED <<historyVars, leases, audit, configVars>>
  BY DEF Consume
<1>3. /\ store' \in [Sides -> SUBSET Handlers]
      /\ \A x \in Sides : store'[x] \subseteq store[x]
  BY <1>1 DEF BaseInv
<1>4. CASE action = "status"
  <2>1. Binds(h, "lookup", side, action, r, NoHandler) /\ uses' = uses
    BY <1>1, <1>4 DEF Binds
  <2>2. /\ Shaped' /\ OnlyMoves(h) /\ Plans(h) /\ Told(h)
        /\ handler'[h].at = "lookup" /\ handler'[h].run = r /\ handler'[h].token = NoHandler
    BY <2>1, BindStep DEF BaseInv, Steps
  <2> QED
    BY <1>2, <1>3, <2>1, <2>2 DEF At, BaseInv, historyVars, configVars, WriterShaped, ConfigShaped
<1>5. CASE action # "status" /\ t \in store[side] /\ t \notin expired /\ Matches(t, action, r)
  <2>1. t \in Handlers
    BY <1>5 DEF BaseInv
  <2>2. /\ Binds(h, "lookup", side, action, r, t)
        /\ uses' = [uses EXCEPT ![t] = @ + 1] /\ store' = [store EXCEPT ![side] = @ \ {t}]
    BY <1>1, <1>5 DEF Binds
  <2>3. /\ Shaped' /\ OnlyMoves(h) /\ Plans(h) /\ Told(h)
        /\ handler'[h].at = "lookup" /\ handler'[h].side = side /\ handler'[h].action = action
        /\ handler'[h].run = r /\ handler'[h].token = t
    BY <2>1, <2>2, BindStep DEF BaseInv, Steps
  <2>4. uses' \in [Handlers -> Nat]
    BY <2>1, <2>2 DEF BaseInv
  <2>5. t \notin store'[side]
    BY <2>2 DEF BaseInv
  <2>6. \E c \in Handlers :
          /\ handler'[h].token = c /\ c \in store[handler'[h].side] /\ handler'[h].side \in Sides
          /\ Matches(c, handler'[h].action, handler'[h].run)
          /\ uses' = [uses EXCEPT ![c] = @ + 1]
          /\ c \notin store'[handler'[h].side]
    BY <1>5, <2>1, <2>2, <2>3, <2>5
  <2>7. BaseInv'
    BY <1>2, <1>3, <2>3, <2>4 DEF BaseInv, historyVars, configVars, WriterShaped, ConfigShaped
  <2> QED
    BY <1>2, <1>3, <2>3, <2>6, <2>7 DEF At, historyVars
<1>6. CASE ~(action = "status" \/ (t \in store[side] /\ t \notin expired /\ Matches(t, action, r)))
  <2>1. Goto(h, "audit") /\ uses' = uses
    BY <1>1, <1>6 DEF Refuse
  <2>2. /\ Shaped' /\ OnlyMoves(h) /\ Carries(h) /\ Plans(h) /\ Told(h) /\ handler'[h].at = "audit"
    BY <2>1, GotoStep DEF BaseInv, Steps
  <2> QED
    BY <1>2, <1>3, <2>1, <2>2 DEF At, BaseInv, Carries, historyVars, configVars, WriterShaped, ConfigShaped
<1> QED
  BY <1>4, <1>5, <1>6

LEMMA LendFacts ==
    ASSUME BaseInv, NEW h \in Handlers, Lend(h)
    PROVE  /\ BaseInv' /\ OnlyMoves(h) /\ Carries(h) /\ Plans(h) /\ UNCHANGED <<writer, audit, store, uses, configVars>>
           /\ handler[h].op = "lease" /\ handler[h].at = "new" /\ handler'[h].at = "audit"
           /\ leases' \subseteq leases \cup {h}
           /\ Told(h) \/ (handler'[h].ok /\ handler'[h].effect)
<1>1. CASE leases' = leases \cup {h} /\ Done(h)
  <2>1. handler' = [handler EXCEPT ![h].at = "audit", ![h].ok = TRUE, ![h].effect = TRUE]
    BY <1>1 DEF Done
  <2>2. /\ Shaped' /\ OnlyMoves(h) /\ Carries(h) /\ Plans(h)
        /\ handler'[h].at = "audit" /\ handler'[h].ok = TRUE /\ handler'[h].effect = TRUE
    BY <2>1, TellStep DEF BaseInv, Steps
  <2> QED
    BY <1>1, <2>2 DEF Lend, At, BaseInv, historyVars, configVars, WriterShaped, ConfigShaped
<1>2. CASE Refuse(h) /\ UNCHANGED leases
  <2>1. Goto(h, "audit")
    BY <1>2 DEF Refuse
  <2>2. /\ Shaped' /\ OnlyMoves(h) /\ Carries(h) /\ Plans(h) /\ Told(h) /\ handler'[h].at = "audit"
    BY <2>1, GotoStep DEF BaseInv, Steps
  <2> QED
    BY <1>2, <2>2 DEF Lend, At, BaseInv, historyVars, configVars, WriterShaped, ConfigShaped
<1> QED
  BY <1>1, <1>2 DEF Lend

LEMMA MutateFacts ==
    ASSUME BaseInv, NEW h \in Handlers, Mutate(h)
    PROVE  /\ BaseInv' /\ OnlyMoves(h) /\ Carries(h) /\ Told(h)
           /\ UNCHANGED <<writer, audit, store, leases, uses, config, promised>>
           /\ handler[h].op \notin {"challenge", "lease", "action", "none"} /\ handler[h].at = "new" /\ owner = NoHandler
           /\ \/ handler'[h].at = "audit" /\ owner' = owner
              \/ /\ handler'[h].at = "replace" /\ owner' = h /\ Decodes(config)
                 /\ handler'[h].catalog = Applied(handler'[h].change, ValueOf(config, NoCatalog))
<1>1. CASE /\ Decodes(config)
           /\ \E c \in Changes(h) :
                handler' = [handler EXCEPT ![h].at = "replace", ![h].change = c,
                                ![h].catalog = Applied(c, ValueOf(config, NoCatalog))]
           /\ owner' = h
  <2>1. PICK c \in Changes(h) :
                handler' = [handler EXCEPT ![h].at = "replace", ![h].change = c,
                                ![h].catalog = Applied(c, ValueOf(config, NoCatalog))]
    BY <1>1
  <2>2. /\ Shaped' /\ OnlyMoves(h) /\ Carries(h) /\ Told(h)
        /\ handler'[h].at = "replace" /\ handler'[h].change = c
        /\ handler'[h].catalog = Applied(c, ValueOf(config, NoCatalog))
    BY <2>1, PlanStep DEF BaseInv, Steps
  <2> QED
    BY <1>1, <2>2 DEF Mutate, ConfigOps, BaseInv, historyVars, configVars, WriterShaped, ConfigShaped
<1>2. CASE Refuse(h) /\ UNCHANGED owner
  <2>1. Goto(h, "audit")
    BY <1>2 DEF Refuse
  <2>2. /\ Shaped' /\ OnlyMoves(h) /\ Carries(h) /\ Plans(h) /\ Told(h) /\ handler'[h].at = "audit"
    BY <2>1, GotoStep DEF BaseInv, Steps
  <2> QED
    BY <1>2, <2>2 DEF Mutate, ConfigOps, BaseInv, historyVars, configVars, WriterShaped, ConfigShaped
<1> QED
  BY <1>1, <1>2 DEF Mutate

-----------------------------------------------------------------------------
(* The file of the catalog *)

LEMMA SpareInode ==
    ASSUME ConfigShaped
    PROVE  Spare \in CatalogInodes /\ Spare # config.file
<1>1. \E i \in CatalogInodes : i # config.file
  BY DEF CatalogInodes
<1> QED
  BY <1>1 DEF Spare

\* The .tmp that is opened is not the file.
LEMMA OpenedFacts ==
    ASSUME ConfigShaped, config.tmp # NoInode => config.tmp # config.file,
           NEW dir, dir = Opened(config, Spare)
    PROVE  /\ \E D : dir \in Dirs(CatalogInodes, D)
           /\ OpenedInode(config, Spare) \in CatalogInodes /\ OpenedInode(config, Spare) # config.file
           /\ dir.file = config.file /\ dir.tmp = OpenedInode(config, Spare) /\ dir.tmp # NoInode
           /\ dir.data[dir.tmp] = {}
           /\ \A i \in CatalogInodes : i # dir.tmp => dir.data[i] = config.data[i]
<1> DEFINE new == OpenedInode(config, Spare)
<1>1. PICK D : config \in Dirs(CatalogInodes, D)
  BY DEF ConfigShaped
<1>2. new \in CatalogInodes /\ new # config.file /\ new # NoInode
  BY <1>1, SpareInode DEF OpenedInode, Dirs, CatalogInodes, NoInode
<1>3. dir = [config EXCEPT !.tmp = new, !.data[new] = {}]
  BY DEF Opened
<1> HIDE DEF new
<1>4. config.data \in [CatalogInodes -> SUBSET D]
  BY <1>1 DEF Dirs
<1> DEFINE data == [config.data EXCEPT ![new] = {}]
<1>5. data \in [CatalogInodes -> SUBSET D]
  BY <1>4
<1>6. dir = [config EXCEPT !.tmp = new, !.data = data]
  BY <1>1, <1>3 DEF Dirs
<1>7. data[new] = {} /\ \A i \in CatalogInodes : i # new => data[i] = config.data[i]
  BY <1>2, <1>4
<1> HIDE DEF data
<1>8. dir.tmp = new /\ dir.data = data /\ dir.file = config.file
  BY <1>1, <1>6 DEF Dirs
<1>9. dir \in Dirs(CatalogInodes, D)
  BY <1>1, <1>2, <1>5, <1>6 DEF Dirs
<1> QED
  BY <1>2, <1>7, <1>8, <1>9 DEF new

LEMMA WrittenCatalog ==
    ASSUME NEW D, NEW dir \in Dirs(CatalogInodes, D), NEW i \in CatalogInodes, dir.data[i] = {},
           NEW value, NEW result \in Written(dir, i, value)
    PROVE  /\ result.file = dir.file /\ result.tmp = dir.tmp
           /\ result.data[i] = {value}
           /\ \A j \in CatalogInodes : j # i => result.data[j] = dir.data[j]
           /\ \E E : result \in Dirs(CatalogInodes, E)
<1>1. dir.data \in [CatalogInodes -> SUBSET D]
  BY DEF Dirs
<1> DEFINE data == [dir.data EXCEPT ![i] = {value}]
           E == D \cup {value}
<1>2. result = [dir EXCEPT !.data[i] = {value}] \/ result = [dir EXCEPT !.data[i] = @ \cup {value}]
  BY DEF Written
<1>3. dir.data[i] \cup {value} = {value}
  OBVIOUS
<1>4. result = [dir EXCEPT !.data = data]
  BY <1>2, <1>3 DEF Dirs
<1>5. data \in [CatalogInodes -> SUBSET E]
  BY <1>1
<1>6. data[i] = {value} /\ \A j \in CatalogInodes : j # i => data[j] = dir.data[j]
  BY <1>1
<1> HIDE DEF data, E
<1>7. result.data = data /\ result.file = dir.file /\ result.tmp = dir.tmp
  BY <1>4 DEF Dirs
<1>8. result \in Dirs(CatalogInodes, E)
  BY <1>4, <1>5 DEF Dirs
<1> QED
  BY <1>6, <1>7, <1>8

LEMMA RenamedCatalog ==
    ASSUME ConfigShaped, CanRename(config), config' = Renamed(config)
    PROVE  /\ ConfigShaped' /\ config'.file = config.tmp /\ config'.tmp = NoInode
           /\ config'.data = config.data
<1>1. PICK D : config \in Dirs(CatalogInodes, D)
  BY DEF ConfigShaped
<1>2. config' \in Dirs(CatalogInodes, D)
  BY <1>1 DEF Renamed, Dirs
<1>3. config'.file = config.tmp /\ config'.tmp = NoInode /\ config'.data = config.data
  BY <1>1 DEF Renamed, Dirs
<1> QED
  BY <1>2, <1>3 DEF ConfigShaped

LEMMA ReplaceFacts ==
    ASSUME BaseInv, CatalogInv, NEW h \in Handlers, Replace(h)
    PROVE  /\ BaseInv' /\ OnlyMoves(h) /\ Carries(h) /\ Plans(h) /\ Told(h)
           /\ UNCHANGED <<writer, audit, store, leases, uses, promised>>
           /\ handler[h].at = "replace"
           /\ config'.file = config.file /\ config'.tmp # config.file
           /\ config.file # NoInode => config'.data[config.file] = config.data[config.file]
           /\ \/ /\ handler'[h].at = "rename" /\ owner' = owner
                 /\ config'.tmp # NoInode /\ config'.data[config'.tmp] = {handler[h].catalog}
              \/ handler'[h].at = "audit" /\ owner' = NoHandler
<1> DEFINE dir == Opened(config, Spare)
           new == OpenedInode(config, Spare)
<1>1. PICK D : dir \in Dirs(CatalogInodes, D)
  BY OpenedFacts DEF BaseInv, CatalogInv
<1>2. /\ new \in CatalogInodes /\ new # config.file /\ dir.file = config.file /\ dir.tmp = new /\ new # NoInode
      /\ dir.data[new] = {} /\ \A i \in CatalogInodes : i # new => dir.data[i] = config.data[i]
  BY OpenedFacts DEF BaseInv, CatalogInv
<1>3. config.file \in CatalogInodes \cup {NoInode}
  BY DEF BaseInv, ConfigShaped, Dirs
<1>4. handler[h].at = "replace" /\ UNCHANGED <<writer, audit, store, leases, uses, promised>>
  BY DEF Replace, historyVars
<1>5. CASE config' \in Written(dir, new, handler[h].catalog) /\ Goto(h, "rename") /\ UNCHANGED owner
  <2> HIDE DEF dir, new
  <2>1. /\ Shaped' /\ OnlyMoves(h) /\ Carries(h) /\ Plans(h) /\ Told(h) /\ handler'[h].at = "rename"
    BY <1>5, GotoStep DEF BaseInv, Steps
  <2>2. /\ config'.file = dir.file /\ config'.tmp = dir.tmp
        /\ config'.data[new] = {handler[h].catalog}
        /\ \A j \in CatalogInodes : j # new => config'.data[j] = dir.data[j]
        /\ ConfigShaped'
    BY <1>1, <1>2, <1>5, WrittenCatalog DEF ConfigShaped
  <2>3. BaseInv'
    BY <1>4, <1>5, <2>1, <2>2 DEF BaseInv, WriterShaped
  <2> QED
    BY <1>2, <1>3, <1>4, <1>5, <2>1, <2>2, <2>3
<1>6. CASE config' = dir /\ Refuse(h) /\ owner' = NoHandler
  <2> HIDE DEF dir, new
  <2>1. Goto(h, "audit")
    BY <1>6 DEF Refuse
  <2>2. /\ Shaped' /\ OnlyMoves(h) /\ Carries(h) /\ Plans(h) /\ Told(h) /\ handler'[h].at = "audit"
    BY <2>1, GotoStep DEF BaseInv, Steps
  <2>3. ConfigShaped'
    BY <1>1, <1>6 DEF ConfigShaped
  <2>4. BaseInv'
    BY <1>4, <1>6, <2>2, <2>3 DEF BaseInv, WriterShaped
  <2> QED
    BY <1>2, <1>3, <1>4, <1>6, <2>2, <2>4
<1> QED
  BY <1>5, <1>6 DEF Replace

LEMMA PublishFacts ==
    ASSUME BaseInv, NEW h \in Handlers, Publish(h)
    PROVE  /\ BaseInv' /\ OnlyMoves(h) /\ Carries(h) /\ Plans(h)
           /\ UNCHANGED <<writer, audit, store, leases, uses>>
           /\ handler[h].at = "rename" /\ handler'[h].at = "audit" /\ owner' = NoHandler
           /\ \/ /\ handler'[h].ok /\ handler'[h].effect
                 /\ config'.file = config.tmp /\ config'.tmp = NoInode /\ config'.data = config.data
                 /\ config.tmp # NoInode /\ promised' = Applied(handler[h].change, promised)
              \/ Told(h) /\ UNCHANGED <<config, promised>>
<1>1. handler[h].at = "rename" /\ owner' = NoHandler /\ UNCHANGED <<writer, audit, store, leases, uses>>
  BY DEF Publish, historyVars
<1>2. CASE CanRename(config) /\ config' = Renamed(config) /\ promised' = Applied(handler[h].change, promised) /\ Done(h)
  <2>1. handler' = [handler EXCEPT ![h].at = "audit", ![h].ok = TRUE, ![h].effect = TRUE]
    BY <1>2 DEF Done
  <2>2. /\ Shaped' /\ OnlyMoves(h) /\ Carries(h) /\ Plans(h)
        /\ handler'[h].at = "audit" /\ handler'[h].ok = TRUE /\ handler'[h].effect = TRUE
    BY <2>1, TellStep DEF BaseInv, Steps
  <2>3. /\ ConfigShaped' /\ config'.file = config.tmp /\ config'.tmp = NoInode
        /\ config'.data = config.data
    BY <1>2, RenamedCatalog DEF BaseInv
  <2>4. config.tmp # NoInode
    BY <1>2 DEF CanRename
  <2>5. BaseInv'
    BY <1>1, <2>2, <2>3 DEF BaseInv, WriterShaped
  <2> QED
    BY <1>1, <1>2, <2>2, <2>3, <2>4, <2>5
<1>3. CASE Refuse(h) /\ UNCHANGED <<config, promised>>
  <2>1. Goto(h, "audit")
    BY <1>3 DEF Refuse
  <2>2. /\ Shaped' /\ OnlyMoves(h) /\ Carries(h) /\ Plans(h) /\ Told(h) /\ handler'[h].at = "audit"
    BY <2>1, GotoStep DEF BaseInv, Steps
  <2>3. BaseInv'
    BY <1>1, <1>3, <2>2 DEF BaseInv, ConfigShaped, WriterShaped
  <2> QED
    BY <1>1, <1>3, <2>2, <2>3
<1> QED
  BY <1>2, <1>3 DEF Publish

-----------------------------------------------------------------------------
(* The broker, the other processes and the death of the supervisor *)

Broker(h) == OpenLease(h) \/ Revoke(h) \/ Expire(h)

LEMMA BrokerFacts ==
    ASSUME BaseInv, NEW h \in Handlers, Broker(h)
    PROVE  /\ BaseInv' /\ UNCHANGED <<handler, writer, audit, store, configVars>>
           /\ leases' \subseteq leases
           /\ uses' = uses \/ (h \in leases /\ h \notin leases' /\ uses' = [uses EXCEPT ![h] = @ + 1])
<1>1. /\ UNCHANGED <<handler, writer, audit, store, configVars>>
      /\ leases' \subseteq leases
      /\ uses' = uses \/ (h \in leases /\ h \notin leases' /\ uses' = [uses EXCEPT ![h] = @ + 1])
  BY DEF Broker, OpenLease, Revoke, Expire, historyVars
<1>2. uses' \in [Handlers -> Nat]
  BY <1>1 DEF BaseInv
<1> QED
  BY <1>1, <1>2 DEF BaseInv, Shaped, ConfigShaped, WriterShaped, configVars

Others ==
    \/ \E w \in Writers : WriterStep(w) /\ UNCHANGED streamVars /\ Elsewhere
    \/ \E r \in Runs : (RunStep(r) \/ RunKilled(r)) /\ Elsewhere
    \/ \E s \in Streams : /\ \/ StreamStep(s)
                             \/ \E r \in Runs, follow \in BOOLEAN : Request(s, r, follow)
                          /\ Elsewhere

FailedStays == \A h \in Handlers : writer[h].at = "failed" => writer'[h].at = "failed"

\* A step of one writer leaves the other ones, and itself when it has failed.
LEMMA WriterMoves ==
    ASSUME WriterShaped, NEW w \in Writers, WriterStep(w)
    PROVE  WriterShaped' /\ FailedStays
<1>1. writer[w].at # "failed"
  BY DEF WriterStep, List, OpenTmp, WriteTmp, Rename, WriteFails, Writing
<1>2. \E new : writer' = [writer EXCEPT ![w] = new]
  <2>1. CASE List(w)
    BY <2>1 DEF List, ToStep, WriterShaped
  <2>2. CASE OpenTmp(w)
    <3>1. \E inode : writer' = [writer EXCEPT ![w].at = "write", ![w].inode = inode]
      BY <2>2, Zenon DEF OpenTmp
    <3> QED
      BY <3>1 DEF WriterShaped
  <2>3. CASE WriteTmp(w)
    BY <2>3 DEF WriteTmp, ToStep, WriterShaped
  <2>4. CASE Rename(w)
    <3>1. \E step : writer' = [writer EXCEPT ![w].at = step, ![w].inode = NoInode]
      BY <2>4 DEF Rename
    <3> QED
      BY <3>1 DEF WriterShaped
  <2>5. CASE WriteFails(w)
    BY <2>5 DEF WriteFails, WriterShaped
  <2> QED
    BY <2>1, <2>2, <2>3, <2>4, <2>5 DEF WriterStep
<1>3. PICK new : writer' = [writer EXCEPT ![w] = new]
  BY <1>2
<1>4. WriterShaped'
  BY <1>3 DEF WriterShaped
<1>5. \A h \in Handlers : h # w => writer'[h] = writer[h]
  BY <1>3, SupervisorAssumption DEF WriterShaped
<1> QED
  BY <1>1, <1>4, <1>5 DEF FailedStays

\* A run process writes for itself.
LEMMA RunMoves ==
    ASSUME WriterShaped, NEW r \in Runs, RunStep(r) \/ RunKilled(r)
    PROVE  WriterShaped' /\ FailedStays
<1>1. writer' = writer \/ \E new : writer' = [writer EXCEPT ![r] = new]
  <2>1. CASE Prepare(r)
    BY <2>1 DEF Prepare, Persist
  <2>2. CASE Start(r)
    BY <2>2 DEF Start, Persist
  <2>3. CASE BeginLine(r) \/ EndLine(r) \/ HistoryEnds(r)
    BY <2>3 DEF BeginLine, EndLine, HistoryEnds, historyVars
  <2>4. CASE End(r)
    BY <2>4 DEF End, Persist
  <2>5. CASE RunKilled(r)
    BY <2>5 DEF RunKilled
  <2> QED
    BY <2>1, <2>2, <2>3, <2>4, <2>5 DEF RunStep
<1>2. r \notin Handlers
  BY SupervisorAssumption
<1>3. CASE writer' = writer
  BY <1>3 DEF WriterShaped, FailedStays
<1>4. CASE \E new : writer' = [writer EXCEPT ![r] = new]
  <2>1. PICK new : writer' = [writer EXCEPT ![r] = new]
    BY <1>4
  <2>2. WriterShaped'
    BY <2>1 DEF WriterShaped
  <2>3. \A h \in Handlers : writer'[h] = writer[h]
    BY <1>2, <2>1, SupervisorAssumption DEF WriterShaped
  <2> QED
    BY <2>2, <2>3 DEF FailedStays
<1> QED
  BY <1>1, <1>3, <1>4

LEMMA OthersFacts ==
    ASSUME BaseInv, Others
    PROVE  BaseInv' /\ UNCHANGED <<handler, audit, store, leases, uses, configVars>> /\ FailedStays
<1>1. UNCHANGED <<handler, audit, store, leases, uses, configVars>>
  BY DEF Others, Elsewhere, handlerVars
<1>2. WriterShaped' /\ FailedStays
  <2>1. CASE \E w \in Writers : WriterStep(w)
    BY <2>1, WriterMoves DEF BaseInv
  <2>2. CASE \E r \in Runs : RunStep(r) \/ RunKilled(r)
    BY <2>2, RunMoves DEF BaseInv
  <2>3. CASE \E s \in Streams : StreamStep(s) \/ \E r \in Runs, follow \in BOOLEAN : Request(s, r, follow)
    <3>1. ASSUME NEW s \in Streams, StreamStep(s)
          PROVE  writer' = writer
      <4>1. CASE Refresh(s)
        BY <4>1 DEF Refresh, historyVars
      <4>2. CASE Delta(s)
        <5>1. UNCHANGED historyVars
          BY <4>2, Zenon DEF Delta
        <5> QED
          BY <5>1 DEF historyVars
      <4>3. CASE Check(s)
        BY <4>3 DEF Check, historyVars
      <4>4. CASE Leave(s)
        BY <4>4 DEF Leave, historyVars
      <4> QED
        BY <3>1, <4>1, <4>2, <4>3, <4>4 DEF StreamStep
    <3>2. ASSUME NEW s \in Streams, \E r \in Runs, follow \in BOOLEAN : Request(s, r, follow)
          PROVE  writer' = writer
      BY <3>2 DEF Request, historyVars
    <3>3. writer' = writer
      BY <2>3, <3>1, <3>2
    <3> QED
      BY <3>3 DEF BaseInv, WriterShaped, FailedStays
  <2> QED
    BY <2>1, <2>2, <2>3 DEF Others
<1> QED
  BY <1>1, <1>2 DEF BaseInv, Shaped, ConfigShaped, configVars

\* Every request that is being served dies with the supervisor.
LEMMA KilledFacts ==
    ASSUME BaseInv, Killed
    PROVE  /\ BaseInv' /\ FailedStays /\ UNCHANGED <<audit, uses, config, promised>>
           /\ store' = [x \in Sides |-> {}] /\ leases' = {} /\ owner' = NoHandler
           /\ \A h \in Handlers :
                IF handler[h].at \in {"new", "answered", "killed"} THEN handler'[h] = handler[h]
                ELSE /\ handler'[h].at = "killed" /\ handler'[h].op = handler[h].op
                     /\ Carries(h) /\ Plans(h)
<1>1. /\ UNCHANGED <<audit, uses, config, promised>>
      /\ store' = [x \in Sides |-> {}] /\ leases' = {} /\ owner' = NoHandler
  BY DEF Killed
<1>2. handler' = [h \in Handlers |-> IF handler[h].at \in {"new", "answered", "killed"} THEN handler[h]
                                     ELSE [handler[h] EXCEPT !.at = "killed"]]
  BY DEF Killed
<1>3. PICK S : handler \in [Handlers -> Carried(S)]
  BY DEF BaseInv, Shaped
<1>4. ASSUME NEW h \in Handlers
      PROVE  /\ [handler[h] EXCEPT !.at = "killed"] \in Carried(S)
             /\ IF handler[h].at \in {"new", "answered", "killed"} THEN handler'[h] = handler[h]
                ELSE /\ handler'[h].at = "killed" /\ handler'[h].op = handler[h].op
                     /\ Carries(h) /\ Plans(h)
  <2>1. handler[h] \in Carried(S)
    BY <1>3
  <2>2. [handler[h] EXCEPT !.at = "killed"] \in Carried(S)
    BY <2>1 DEF Carried, Steps
  <2>3. CASE handler[h].at \in {"new", "answered", "killed"}
    BY <1>2, <2>2, <2>3
  <2>4. CASE handler[h].at \notin {"new", "answered", "killed"}
    <3>1. handler'[h] = [handler[h] EXCEPT !.at = "killed"]
      BY <1>2, <2>4
    <3> QED
      BY <2>1, <2>2, <2>4, <3>1 DEF Carried, Carries, Plans
  <2> QED
    BY <2>3, <2>4
<1>5. handler' \in [Handlers -> Carried(S)]
  BY <1>2, <1>3, <1>4
<1>6. WriterShaped' /\ FailedStays
  <2>1. writer' = [w \in Writers |-> IF w \in Handlers THEN Stopped(w) ELSE writer[w]]
    BY DEF Killed
  <2>2. \A h \in Handlers : writer[h].at = "failed" => Stopped(h) = writer[h]
    BY DEF Stopped, Writing
  <2>3. WriterShaped'
    BY <2>1 DEF WriterShaped
  <2> QED
    BY <2>1, <2>2, <2>3, SupervisorAssumption DEF FailedStays
<1> QED
  BY <1>1, <1>4, <1>5, <1>6 DEF BaseInv, Shaped, ConfigShaped

-----------------------------------------------------------------------------
(* Initially *)

LEMMA InitBase ==
    ASSUME Init
    PROVE  /\ BaseInv
           /\ \A h \in Handlers :
                /\ handler[h].at \in {"new", "answered"} /\ handler[h].token = NoHandler
                /\ handler[h].at = "answered" => handler[h].op = "none"
                /\ handler[h].ok = FALSE /\ handler[h].effect = FALSE
           /\ store = [x \in Sides |-> {}] /\ leases = {} /\ uses = [h \in Handlers |-> 0]
           /\ config = NoFile(CatalogInodes) /\ owner = NoHandler /\ promised = NoCatalog
<1>1. PICK w \in Workloads :
        handler = [h \in Handlers |-> IF w.ops[h] = "none"
                                      THEN [NewHandler("none") EXCEPT !.at = "answered"]
                                      ELSE NewHandler(w.ops[h])]
  BY DEF Init
<1>2. w.ops \in [Handlers -> Ops \cup {"none"}]
  BY SupervisorAssumption
<1>3. /\ store = [x \in Sides |-> {}] /\ leases = {} /\ uses = [h \in Handlers |-> 0]
      /\ audit = [h \in Handlers |-> "none"]
      /\ config = NoFile(CatalogInodes) /\ owner = NoHandler /\ promised = NoCatalog
      /\ writer = [x \in Writers |-> Idle]
  BY DEF Init
<1> DEFINE side == CHOOSE x \in Sides : TRUE
           action == CHOOSE a \in Actions : TRUE
           r == CHOOSE x \in Runs : TRUE
           change == CHOOSE c \in Change : TRUE
           S == {side, action, r, NoRecord, change, NoCatalog}
<1>4. ASSUME NEW op \in Ops \cup {"none"}
      PROVE  /\ NewHandler(op) \in Carried(S)
             /\ NewHandler(op).op = op /\ NewHandler(op).at = "new" /\ NewHandler(op).token = NoHandler
             /\ NewHandler(op).ok = FALSE /\ NewHandler(op).effect = FALSE
  <2> HIDE DEF side, action, r, change
  <2>1. NewHandler(op) = [op |-> op, at |-> "new", side |-> side, action |-> action, run |-> r,
                          token |-> NoHandler, record |-> NoRecord, change |-> change,
                          catalog |-> NoCatalog, ok |-> FALSE, effect |-> FALSE]
    BY Zenon DEF NewHandler, side, action, r, change
  <2> QED
    BY <2>1 DEF Carried, Steps
<1> HIDE DEF S
<1>5. /\ [NewHandler("none") EXCEPT !.at = "answered"] \in Carried(S)
      /\ [NewHandler("none") EXCEPT !.at = "answered"].op = "none"
      /\ [NewHandler("none") EXCEPT !.at = "answered"].at = "answered"
      /\ [NewHandler("none") EXCEPT !.at = "answered"].token = NoHandler
      /\ [NewHandler("none") EXCEPT !.at = "answered"].ok = FALSE
      /\ [NewHandler("none") EXCEPT !.at = "answered"].effect = FALSE
  <2>1. NewHandler("none") \in Carried(S) /\ NewHandler("none").op = "none" /\ NewHandler("none").token = NoHandler
        /\ NewHandler("none").ok = FALSE /\ NewHandler("none").effect = FALSE
    BY <1>4
  <2> QED
    BY <2>1 DEF Carried, Steps
<1>6. \A h \in Handlers :
        /\ handler[h] \in Carried(S)
        /\ handler[h].at \in {"new", "answered"} /\ handler[h].token = NoHandler
        /\ handler[h].at = "answered" => handler[h].op = "none"
        /\ handler[h].ok = FALSE /\ handler[h].effect = FALSE
  BY <1>1, <1>2, <1>4, <1>5
<1>7. Shaped
  <2>1. handler \in [Handlers -> Carried(S)]
    BY <1>1, <1>6
  <2> QED
    BY <2>1 DEF Shaped
<1>8. ConfigShaped
  BY <1>3 DEF ConfigShaped, Dirs, NoFile, NoInode
<1> QED
  BY <1>3, <1>6, <1>7, <1>8 DEF BaseInv, WriterShaped

-----------------------------------------------------------------------------
(* Challenges and leases *)

LEMMA QuietKeepsOneShot ==
    ASSUME OneShotInv, NEW h \in Handlers, OnlyMoves(h), Carries(h),
           handler[h].at # "answered", handler'[h].at # "new",
           UNCHANGED <<store, uses>>, leases' \subseteq leases
    PROVE  OneShotInv'
<1> SUFFICES ASSUME NEW g \in Handlers
             PROVE  OneShotInv!(g)'
  BY DEF OneShotInv
<1>1. handler'[g].op = handler[g].op /\ handler'[g].token = handler[g].token /\ handler'[g].side = handler[g].side
      /\ handler'[g].action = handler[g].action /\ handler'[g].run = handler[g].run
      /\ (handler'[g].at = "new" => handler[g].at = "new")
      /\ (handler[g].at = "answered" => handler'[g].at = "answered")
  BY DEF OnlyMoves, Carries
<1>2. \A t \in Handlers : handler[t].at = "answered" => handler'[t] = handler[t]
  BY DEF OnlyMoves
<1> QED
  BY <1>1, <1>2 DEF OneShotInv, Matches

LEMMA IssueKeepsOneShot ==
    ASSUME BaseInv, OneShotInv, NEW h \in Handlers, Issue(h)
    PROVE  OneShotInv'
<1>1. /\ OnlyMoves(h) /\ UNCHANGED <<leases, uses>>
      /\ handler[h].op = "challenge" /\ handler[h].at = "new"
      /\ handler'[h].at = "answered" /\ handler'[h].token = handler[h].token
      /\ handler'[h].side \in Sides
      /\ store' = [store EXCEPT ![handler'[h].side] = @ \cup {h}]
  BY IssueFacts
<1>2. uses[h] = 0 /\ handler[h].token = NoHandler
  BY <1>1 DEF OneShotInv
<1>3. \A x \in Sides, g \in Handlers : g \in store'[x] => g \in store[x] \/ (g = h /\ x = handler'[h].side)
  BY <1>1 DEF BaseInv
<1>4. \A t \in Handlers : handler[t].at = "answered" => handler'[t] = handler[t]
  BY <1>1 DEF OnlyMoves
<1>5. ASSUME NEW g \in Handlers PROVE OneShotInv!(g)'
  <2>1. CASE g = h
    BY <1>1, <1>2, <1>3, <2>1 DEF OneShotInv, OnlyMoves
  <2>2. CASE g # h
    <3>1. handler'[g] = handler[g]
      BY <1>1, <2>2 DEF OnlyMoves
    <3> QED
      BY <1>1, <1>3, <1>4, <2>2, <3>1 DEF OneShotInv, Matches
  <2> QED
    BY <2>1, <2>2
<1> QED
  BY <1>5 DEF OneShotInv

LEMMA ConsumeKeepsOneShot ==
    ASSUME BaseInv, OneShotInv, NEW h \in Handlers, Consume(h)
    PROVE  OneShotInv'
<1>1. /\ OnlyMoves(h) /\ UNCHANGED leases
      /\ handler[h].op = "action" /\ handler[h].at = "new" /\ handler'[h].at \in {"lookup", "audit"}
      /\ \A side \in Sides : store'[side] \subseteq store[side]
  BY ConsumeFacts
<1>2. uses[h] = 0 /\ handler[h].token = NoHandler
  BY <1>1 DEF OneShotInv
<1>3. \A t \in Handlers : handler[t].at = "answered" => handler'[t] = handler[t]
  BY <1>1 DEF OnlyMoves
<1>4. CASE handler'[h].token \in {handler[h].token, NoHandler} /\ uses' = uses
  <2>1. ASSUME NEW g \in Handlers PROVE OneShotInv!(g)'
    <3>1. CASE g = h
      BY <1>1, <1>2, <1>4, <3>1 DEF OneShotInv, OnlyMoves
    <3>2. CASE g # h
      <4>1. handler'[g] = handler[g]
        BY <1>1, <3>2 DEF OnlyMoves
      <4> QED
        BY <1>1, <1>3, <1>4, <3>2, <4>1 DEF OneShotInv, Matches
    <3> QED
      BY <3>1, <3>2
  <2> QED
    BY <2>1 DEF OneShotInv
<1>5. CASE \E t \in Handlers :
             /\ handler'[h].token = t /\ t \in store[handler'[h].side] /\ handler'[h].side \in Sides
             /\ Matches(t, handler'[h].action, handler'[h].run)
             /\ uses' = [uses EXCEPT ![t] = @ + 1]
             /\ t \notin store'[handler'[h].side]
  <2>1. PICK t \in Handlers :
             /\ handler'[h].token = t /\ t \in store[handler'[h].side] /\ handler'[h].side \in Sides
             /\ Matches(t, handler'[h].action, handler'[h].run)
             /\ uses' = [uses EXCEPT ![t] = @ + 1]
             /\ t \notin store'[handler'[h].side]
    BY <1>5
  <2>2. /\ handler[t].op = "challenge" /\ handler[t].at = "answered"
        /\ handler[t].side = handler'[h].side /\ uses[t] = 0
    BY <2>1 DEF OneShotInv
  <2>3. t # h /\ handler'[t] = handler[t] /\ t \notin leases
    BY <1>1, <1>3, <2>2 DEF OneShotInv
  <2>4. uses'[t] = 1 /\ \A g \in Handlers : g # t => uses'[g] = uses[g]
    BY <2>1, <2>2 DEF BaseInv
  <2>5. \A x \in Sides : t \notin store'[x]
    <3> SUFFICES ASSUME NEW x \in Sides, t \in store'[x] PROVE FALSE
      OBVIOUS
    <3>1. t \in store[x]
      BY <1>1
    <3>2. x = handler[t].side
      BY <3>1 DEF OneShotInv
    <3> QED
      BY <2>1, <2>2, <3>2
  <2>6. handler'[t].action = handler'[h].action /\ handler'[t].run = handler'[h].run
    BY <2>1, <2>3 DEF Matches
  <2>7. ASSUME NEW g \in Handlers PROVE OneShotInv!(g)'
    <3>1. CASE g = h
      <4>1. uses'[h] \in {0, 1} /\ handler'[h].at # "new" /\ \A x \in Sides : h \notin store'[x]
        BY <1>1, <1>2, <2>3, <2>4 DEF OneShotInv
      <4>2. h \notin leases'
        BY <1>1 DEF OneShotInv
      <4>3. /\ handler'[h].token = t /\ handler'[t].op = "challenge" /\ handler'[t].at = "answered" /\ uses'[t] = 1
            /\ handler'[t].side = handler'[h].side
            /\ Matches(t, handler[h].action, handler[h].run)'
        BY <2>1, <2>2, <2>3, <2>4, <2>6 DEF Matches
      <4> QED
        BY <3>1, <4>1, <4>2, <4>3
    <3>2. CASE g = t
      <4>1. handler'[t].token # t
        BY <2>2, <2>3, SupervisorAssumption DEF OneShotInv
      <4>2. \A c \in Handlers : handler[t].token = c /\ c # NoHandler => c # t /\ uses'[c] = uses[c] /\ handler'[c] = handler[c]
        BY <1>3, <2>3, <2>4, <4>1 DEF OneShotInv
      <4> QED
        BY <1>1, <2>2, <2>3, <2>4, <2>5, <3>2, <4>2 DEF OneShotInv, Matches
    <3>3. CASE g # h /\ g # t
      <4>1. handler'[g] = handler[g] /\ uses'[g] = uses[g]
        BY <1>1, <2>4, <3>3 DEF OnlyMoves
      <4>2. \A c \in Handlers : handler[g].token = c /\ c # NoHandler => c # t /\ uses'[c] = uses[c] /\ handler'[c] = handler[c]
        BY <1>3, <2>2, <2>4 DEF OneShotInv
      <4> QED
        BY <1>1, <4>1, <4>2 DEF OneShotInv, Matches
    <3> QED
      BY <3>1, <3>2, <3>3
  <2> QED
    BY <2>7 DEF OneShotInv
<1> QED
  BY <1>4, <1>5, ConsumeFacts

LEMMA LendKeepsOneShot ==
    ASSUME BaseInv, OneShotInv, NEW h \in Handlers, Lend(h)
    PROVE  OneShotInv'
<1>1. /\ OnlyMoves(h) /\ Carries(h) /\ UNCHANGED <<store, uses>>
      /\ handler[h].op = "lease" /\ handler[h].at = "new" /\ handler'[h].at = "audit"
      /\ leases' \subseteq leases \cup {h}
  BY LendFacts
<1>2. uses[h] = 0
  BY <1>1 DEF OneShotInv
<1> SUFFICES ASSUME NEW g \in Handlers
             PROVE  OneShotInv!(g)'
  BY DEF OneShotInv
<1>3. handler'[g].op = handler[g].op /\ handler'[g].token = handler[g].token /\ handler'[g].side = handler[g].side
      /\ handler'[g].action = handler[g].action /\ handler'[g].run = handler[g].run
      /\ (handler'[g].at = "new" => handler[g].at = "new")
      /\ (handler[g].at = "answered" => handler'[g].at = "answered")
  BY <1>1 DEF OnlyMoves, Carries
<1>4. \A t \in Handlers : handler[t].at = "answered" => handler'[t] = handler[t]
  BY <1>1 DEF OnlyMoves
<1>5. g \in leases' => handler'[g].op = "lease" /\ handler'[g].at # "new" /\ uses'[g] = 0
  BY <1>1, <1>2, <1>3 DEF OneShotInv
<1> QED
  BY <1>1, <1>3, <1>4, <1>5 DEF OneShotInv, Matches

LEMMA BrokerKeepsOneShot ==
    ASSUME BaseInv, OneShotInv, NEW h \in Handlers, Broker(h)
    PROVE  OneShotInv'
<1>1. /\ UNCHANGED <<handler, store>> /\ leases' \subseteq leases
      /\ uses' = uses \/ (h \in leases /\ h \notin leases' /\ uses' = [uses EXCEPT ![h] = @ + 1])
  BY BrokerFacts
<1>2. CASE uses' = uses
  BY <1>1, <1>2 DEF OneShotInv, Matches
<1>3. CASE h \in leases /\ h \notin leases' /\ uses' = [uses EXCEPT ![h] = @ + 1]
  <2>1. handler[h].op = "lease" /\ handler[h].at # "new" /\ uses[h] = 0
    BY <1>3 DEF OneShotInv
  <2>2. uses'[h] = 1 /\ \A g \in Handlers : g # h => uses'[g] = uses[g]
    BY <1>3, <2>1 DEF BaseInv
  <2>3. \A x \in Sides : h \notin store[x]
    BY <2>1 DEF OneShotInv
  <2>4. ASSUME NEW g \in Handlers PROVE OneShotInv!(g)'
    <3>1. CASE g = h
      BY <1>1, <1>3, <2>1, <2>2, <2>3, <3>1 DEF OneShotInv, Matches
    <3>2. CASE g # h
      BY <1>1, <2>1, <2>2, <3>2 DEF OneShotInv, Matches
    <3> QED
      BY <3>1, <3>2
  <2> QED
    BY <2>4 DEF OneShotInv
<1> QED
  BY <1>1, <1>2, <1>3

LEMMA KilledKeepsOneShot ==
    ASSUME BaseInv, OneShotInv, Killed
    PROVE  OneShotInv'
<1>1. /\ UNCHANGED uses /\ store' = [x \in Sides |-> {}] /\ leases' = {}
      /\ \A h \in Handlers :
           IF handler[h].at \in {"new", "answered", "killed"} THEN handler'[h] = handler[h]
           ELSE handler'[h].at = "killed" /\ handler'[h].op = handler[h].op /\ Carries(h)
  BY KilledFacts
<1> SUFFICES ASSUME NEW g \in Handlers
             PROVE  OneShotInv!(g)'
  BY DEF OneShotInv
<1>2. /\ handler'[g].token = handler[g].token /\ handler'[g].side = handler[g].side
      /\ handler'[g].action = handler[g].action /\ handler'[g].run = handler[g].run
      /\ (handler'[g].at = "new" => handler[g].at = "new")
  BY <1>1 DEF Carries
<1>3. \A t \in Handlers : handler[t].at = "answered" => handler'[t] = handler[t]
  BY <1>1
<1> QED
  BY <1>1, <1>2, <1>3 DEF OneShotInv, Matches

-----------------------------------------------------------------------------
(* All steps *)

\* The state that the invariants are about.
served == <<handler, writer, store, leases, uses, audit, configVars>>

LEMMA NextCases ==
    ASSUME [Next]_vars
    PROVE  \/ \E h \in Handlers : HandlerStep(h) \/ Broker(h)
           \/ Others \/ Killed \/ UNCHANGED served
<1>1. CASE UNCHANGED vars
  BY <1>1, Zenon DEF vars, handlerVars, historyVars, served
<1>2. CASE Step
  <2>1. CASE \E h \in Handlers : HandlerStep(h) \/ OpenLease(h) \/ Revoke(h) \/ Expire(h)
    BY <2>1, Zenon DEF Broker
  <2>2. CASE Others \/ Killed
    BY <2>2
  <2> QED
    BY <1>2, <2>1, <2>2, Zenon DEF Step, Others
<1> QED
  BY <1>1, <1>2, Zenon DEF Next

\* Every handler's step is one of these.
LEMMA HandlerCases ==
    ASSUME NEW h \in Handlers, HandlerStep(h)
    PROVE  \/ Issue(h) \/ Consume(h) \/ Lend(h) \/ Lookup(h) \/ Status(h) \/ Rollback(h) \/ Commit(h)
           \/ ActionRefused(h) \/ Prune(h) \/ HistoryWritten(h) \/ Mutate(h) \/ Replace(h) \/ Publish(h)
           \/ Audit(h)
BY Zenon DEF HandlerStep

LEMMA ActsFacts ==
    ASSUME BaseInv, NEW h \in Handlers, Rollback(h) \/ Commit(h)
    PROVE  /\ BaseInv' /\ Quiet(h) /\ UNCHANGED audit
           /\ \A g \in Handlers : g # h => writer'[g] = writer[g]
           /\ handler[h].at = "work" /\ handler'[h].at = "history"
           /\ handler'[h].ok = handler[h].ok
<1>1. /\ At(h, "action", "work") /\ UNCHANGED <<store, leases, expired, uses, audit, configVars>>
      /\ \E state, new : Records(h, state, new)
  <2>1. CASE Rollback(h)
    BY <2>1, Zenon DEF Rollback
  <2>2. CASE Commit(h)
    BY <2>2, Zenon DEF Commit
  <2> QED
    BY <2>1, <2>2
<1>2. PICK state, new : Records(h, state, new)
  BY <1>1
<1> QED
  BY <1>1, <1>2, RecordsFacts

LEMMA BaseKept ==
    ASSUME BaseInv, CatalogInv, [Next]_vars
    PROVE  BaseInv'
<1>1. CASE \E h \in Handlers : HandlerStep(h)
  <2>1. PICK h \in Handlers : HandlerStep(h)
    BY <1>1
  <2> QED
    BY <2>1, HandlerCases, IssueFacts, ConsumeFacts, LendFacts, LookupFacts, StatusFacts, ActsFacts,
       RefusedFacts, PruneFacts, WrittenFacts, MutateFacts, ReplaceFacts, PublishFacts, AuditFacts
<1>2. CASE UNCHANGED served
  BY <1>2 DEF served, configVars, BaseInv, Shaped, ConfigShaped, WriterShaped
<1> QED
  BY <1>1, <1>2, NextCases, BrokerFacts, OthersFacts, KilledFacts

LEMMA OneShotKept ==
    ASSUME BaseInv, CatalogInv, OneShotInv, [Next]_vars
    PROVE  OneShotInv'
<1>1. ASSUME NEW h \in Handlers, HandlerStep(h)
      PROVE  OneShotInv'
  <2>1. CASE Issue(h) \/ Consume(h) \/ Lend(h)
    BY <2>1, IssueKeepsOneShot, ConsumeKeepsOneShot, LendKeepsOneShot
  <2>2. CASE \/ Lookup(h) \/ Status(h) \/ Rollback(h) \/ Commit(h)
             \/ ActionRefused(h) \/ Prune(h) \/ HistoryWritten(h) \/ Audit(h)
    <3>1. Quiet(h)
      BY <2>2, LookupFacts, StatusFacts, ActsFacts, RefusedFacts, PruneFacts, WrittenFacts, AuditFacts
    <3> QED
      BY <3>1, QuietKeepsOneShot DEF Quiet
  <2>3. CASE Mutate(h)
    BY <2>3, MutateFacts, QuietKeepsOneShot
  <2>4. CASE Replace(h)
    BY <2>4, ReplaceFacts, QuietKeepsOneShot
  <2>5. CASE Publish(h)
    BY <2>5, PublishFacts, QuietKeepsOneShot
  <2> QED
    BY <1>1, <2>1, <2>2, <2>3, <2>4, <2>5, HandlerCases
<1>2. CASE UNCHANGED <<handler, store, leases, uses>>
  BY <1>2 DEF OneShotInv, Matches
<1> QED
  BY <1>1, <1>2, NextCases, BrokerKeepsOneShot, OthersFacts, KilledKeepsOneShot DEF served

-----------------------------------------------------------------------------
(* The catalog *)

LEMMA QuietKeepsCatalog ==
    ASSUME CatalogInv, NEW h \in Handlers, OnlyMoves(h), Plans(h) \/ handler'[h].at \notin {"replace", "rename"},
           handler[h].at \notin {"replace", "rename"}, handler'[h].at \notin {"replace", "rename"},
           UNCHANGED configVars
    PROVE  CatalogInv'
<1>1. \A g \in Handlers : g # h => handler'[g] = handler[g]
  BY DEF OnlyMoves
<1>2. owner' = owner /\ config' = config /\ promised' = promised
  BY DEF configVars
<1>3. owner # h
  BY DEF CatalogInv
<1> QED
  BY <1>1, <1>2, <1>3 DEF CatalogInv

LEMMA ReadCatalog ==
    ASSUME CatalogInv, Decodes(config)
    PROVE  ValueOf(config, NoCatalog) = promised
BY DEF CatalogInv, ValueOf

LEMMA MutateKeepsCatalog ==
    ASSUME BaseInv, CatalogInv, NEW h \in Handlers, Mutate(h)
    PROVE  CatalogInv'
<1>1. /\ OnlyMoves(h) /\ UNCHANGED <<config, promised>> /\ handler[h].at = "new" /\ owner = NoHandler
      /\ \/ handler'[h].at = "audit" /\ owner' = owner
         \/ /\ handler'[h].at = "replace" /\ owner' = h /\ Decodes(config)
            /\ handler'[h].catalog = Applied(handler'[h].change, ValueOf(config, NoCatalog))
  BY MutateFacts
<1>2. \A g \in Handlers : g # h => handler'[g] = handler[g]
  BY <1>1 DEF OnlyMoves
<1>3. \A g \in Handlers : owner # g /\ handler[g].at \notin {"replace", "rename"}
  BY <1>1, SupervisorAssumption DEF CatalogInv
<1>4. CASE handler'[h].at = "audit" /\ owner' = owner
  BY <1>1, <1>2, <1>3, <1>4 DEF CatalogInv
<1>5. CASE /\ handler'[h].at = "replace" /\ owner' = h /\ Decodes(config)
           /\ handler'[h].catalog = Applied(handler'[h].change, ValueOf(config, NoCatalog))
  <2>1. handler'[h].catalog = Applied(handler'[h].change, promised')
    BY <1>1, <1>5, ReadCatalog DEF Applied
  <2> QED
    BY <1>1, <1>2, <1>3, <1>5, <2>1 DEF CatalogInv
<1> QED
  BY <1>1, <1>4, <1>5

LEMMA ReplaceKeepsCatalog ==
    ASSUME BaseInv, CatalogInv, NEW h \in Handlers, Replace(h)
    PROVE  CatalogInv'
<1>1. /\ OnlyMoves(h) /\ Plans(h) /\ UNCHANGED promised /\ handler[h].at = "replace"
      /\ config'.file = config.file /\ config'.tmp # config.file
      /\ config.file # NoInode => config'.data[config.file] = config.data[config.file]
      /\ \/ /\ handler'[h].at = "rename" /\ owner' = owner
            /\ config'.tmp # NoInode /\ config'.data[config'.tmp] = {handler[h].catalog}
         \/ handler'[h].at = "audit" /\ owner' = NoHandler
  BY ReplaceFacts
<1>2. owner = h
  BY <1>1 DEF CatalogInv
<1>3. \A g \in Handlers : g # h => handler'[g] = handler[g] /\ handler[g].at \notin {"replace", "rename"}
  BY <1>1, <1>2 DEF OnlyMoves, CatalogInv
<1>4. handler'[h].change = handler[h].change /\ handler'[h].catalog = handler[h].catalog
  BY <1>1 DEF Plans
<1>5. handler[h].catalog = Applied(handler[h].change, promised)
  BY <1>2 DEF CatalogInv
<1>6. handler'[h].catalog = Applied(handler'[h].change, promised')
  BY <1>1, <1>4, <1>5
<1>7. h # NoHandler
  BY SupervisorAssumption
<1>8. ASSUME NEW g \in Handlers PROVE CatalogInv!1!(g)'
  <2>1. CASE g = h
    BY <1>1, <1>2, <1>4, <1>6, <1>7, <2>1
  <2>2. CASE g # h
    BY <1>1, <1>2, <1>3, <2>2, SupervisorAssumption
  <2> QED
    BY <2>1, <2>2
<1>9. IF config.file = NoInode THEN promised = NoCatalog ELSE config.data[config.file] = {promised}
  BY DEF CatalogInv
<1>10. (IF config.file = NoInode THEN promised = NoCatalog ELSE config.data[config.file] = {promised})'
  BY <1>1, <1>9
<1> QED
  BY <1>1, <1>8, <1>10 DEF CatalogInv

LEMMA PublishKeepsCatalog ==
    ASSUME BaseInv, CatalogInv, NEW h \in Handlers, Publish(h)
    PROVE  CatalogInv'
<1>1. /\ OnlyMoves(h) /\ handler[h].at = "rename" /\ handler'[h].at = "audit" /\ owner' = NoHandler
      /\ \/ /\ config'.file = config.tmp /\ config'.tmp = NoInode /\ config'.data = config.data
            /\ config.tmp # NoInode /\ promised' = Applied(handler[h].change, promised)
         \/ UNCHANGED <<config, promised>>
  BY PublishFacts
<1>2. owner = h /\ config.tmp # NoInode /\ config.data[config.tmp] = {handler[h].catalog}
  BY <1>1 DEF CatalogInv
<1>3. handler[h].catalog = Applied(handler[h].change, promised)
  BY <1>2 DEF CatalogInv
<1>4. \A g \in Handlers : handler'[g].at \notin {"replace", "rename"} /\ owner' # g
  BY <1>1, <1>2, SupervisorAssumption DEF OnlyMoves, CatalogInv
<1>5. CASE /\ config'.file = config.tmp /\ config'.tmp = NoInode /\ config'.data = config.data
           /\ config.tmp # NoInode /\ promised' = Applied(handler[h].change, promised)
  <2>1. config'.data[config'.file] = {promised'}
    BY <1>2, <1>3, <1>5
  <2> QED
    BY <1>4, <1>5, <2>1 DEF CatalogInv
<1>6. CASE UNCHANGED <<config, promised>>
  BY <1>4, <1>6 DEF CatalogInv
<1> QED
  BY <1>1, <1>5, <1>6

LEMMA KilledKeepsCatalog ==
    ASSUME BaseInv, CatalogInv, Killed
    PROVE  CatalogInv'
<1>1. /\ UNCHANGED <<config, promised>> /\ owner' = NoHandler
      /\ \A h \in Handlers :
           IF handler[h].at \in {"new", "answered", "killed"} THEN handler'[h] = handler[h]
           ELSE handler'[h].at = "killed"
  BY KilledFacts
<1>2. \A g \in Handlers : handler'[g].at \notin {"replace", "rename"} /\ owner' # g
  BY <1>1, SupervisorAssumption
<1> QED
  BY <1>1, <1>2 DEF CatalogInv

LEMMA CatalogKept ==
    ASSUME BaseInv, CatalogInv, [Next]_vars
    PROVE  CatalogInv'
<1>1. ASSUME NEW h \in Handlers, HandlerStep(h)
      PROVE  CatalogInv'
  <2>1. CASE Issue(h)
    BY <2>1, IssueFacts, QuietKeepsCatalog
  <2>2. CASE Consume(h)
    BY <2>2, ConsumeFacts, QuietKeepsCatalog
  <2>3. CASE Lend(h)
    BY <2>3, LendFacts, QuietKeepsCatalog
  <2>4. CASE \/ Lookup(h) \/ Status(h) \/ Rollback(h) \/ Commit(h)
             \/ ActionRefused(h) \/ Prune(h) \/ HistoryWritten(h) \/ Audit(h)
    <3>1. Quiet(h)
      BY <2>4, LookupFacts, StatusFacts, ActsFacts, RefusedFacts, PruneFacts, WrittenFacts, AuditFacts
    <3> QED
      BY <3>1, QuietKeepsCatalog DEF Quiet
  <2> QED
    BY <1>1, <2>1, <2>2, <2>3, <2>4, HandlerCases, MutateKeepsCatalog, ReplaceKeepsCatalog, PublishKeepsCatalog
<1>2. CASE UNCHANGED <<handler, configVars>>
  BY <1>2 DEF CatalogInv, configVars
<1> QED
  BY <1>1, <1>2, NextCases, BrokerFacts, OthersFacts, KilledKeepsCatalog DEF served

-----------------------------------------------------------------------------
(* The audit log *)

\* What AuditInv says of one request.
Unchanged(h) ==
    /\ handler'[h].op = handler[h].op /\ handler'[h].action = handler[h].action
    /\ handler'[h].at = handler[h].at /\ Told(h) /\ audit'[h] = audit[h]
    /\ writer[h].at = "failed" => writer'[h].at = "failed"

LEMMA UnchangedKeepsAudit ==
    ASSUME AuditInv, NEW g \in Handlers, Unchanged(g)
    PROVE  AuditInv!(g)'
BY DEF AuditInv, Unchanged, Told

LEMMA HandlerKeepsAudit ==
    ASSUME BaseInv, CatalogInv, AuditInv, NEW h \in Handlers, HandlerStep(h)
    PROVE  AuditInv'
<1>1. CASE Issue(h)
  <2>1. OnlyMoves(h) /\ Told(h) /\ UNCHANGED <<writer, audit>> /\ handler[h].op = "challenge"
        /\ handler[h].at = "new" /\ handler'[h].at = "answered"
    BY <1>1, IssueFacts
  <2>2. AuditInv!(h)'
    BY <2>1 DEF AuditInv, OnlyMoves, Told
  <2>3. \A g \in Handlers : g # h => Unchanged(g)
    BY <2>1 DEF OnlyMoves, Unchanged, Told
  <2> QED
    BY <2>2, <2>3, UnchangedKeepsAudit DEF AuditInv
<1>2. CASE Consume(h)
  <2>1. OnlyMoves(h) /\ Told(h) /\ UNCHANGED <<writer, audit>>
        /\ handler[h].at = "new" /\ handler'[h].at \in {"lookup", "audit"}
    BY <1>2, ConsumeFacts
  <2>2. AuditInv!(h)'
    BY <2>1 DEF AuditInv, OnlyMoves, Told
  <2>3. \A g \in Handlers : g # h => Unchanged(g)
    BY <2>1 DEF OnlyMoves, Unchanged, Told
  <2> QED
    BY <2>2, <2>3, UnchangedKeepsAudit DEF AuditInv
<1>3. CASE Lend(h)
  <2>1. OnlyMoves(h) /\ UNCHANGED <<writer, audit>> /\ handler[h].at = "new" /\ handler'[h].at = "audit"
        /\ (Told(h) \/ (handler'[h].ok /\ handler'[h].effect))
    BY <1>3, LendFacts
  <2>2. AuditInv!(h)'
    BY <2>1 DEF AuditInv, OnlyMoves, Told
  <2>3. \A g \in Handlers : g # h => Unchanged(g)
    BY <2>1 DEF OnlyMoves, Unchanged, Told
  <2> QED
    BY <2>2, <2>3, UnchangedKeepsAudit DEF AuditInv
<1>4. CASE Lookup(h) \/ ActionRefused(h)
  <2>1. OnlyMoves(h) /\ Told(h) /\ UNCHANGED <<writer, audit>>
        /\ handler[h].at \in {"lookup", "work"} /\ handler'[h].at \in {"work", "audit"}
    BY <1>4, LookupFacts, RefusedFacts DEF Quiet
  <2>2. AuditInv!(h)'
    BY <2>1 DEF AuditInv, OnlyMoves, Told
  <2>3. \A g \in Handlers : g # h => Unchanged(g)
    BY <2>1 DEF OnlyMoves, Unchanged, Told
  <2> QED
    BY <2>2, <2>3, UnchangedKeepsAudit DEF AuditInv
<1>5. CASE Status(h)
  <2>1. OnlyMoves(h) /\ Carries(h) /\ UNCHANGED <<writer, audit>>
        /\ handler[h].op = "action" /\ handler[h].action = "status" /\ handler'[h].at = "audit" /\ handler'[h].ok
    BY <1>5, StatusFacts DEF Quiet
  <2>2. AuditInv!(h)'
    BY <2>1 DEF AuditInv, OnlyMoves, Carries
  <2>3. \A g \in Handlers : g # h => Unchanged(g)
    BY <2>1 DEF OnlyMoves, Unchanged, Told
  <2> QED
    BY <2>2, <2>3, UnchangedKeepsAudit DEF AuditInv
<1>6. CASE Rollback(h) \/ Commit(h) \/ Prune(h)
  <2>1. /\ OnlyMoves(h) /\ UNCHANGED audit /\ handler[h].at \in {"work", "new"} /\ handler'[h].at = "history"
        /\ handler'[h].ok = handler[h].ok
        /\ \A g \in Handlers : g # h => writer'[g] = writer[g]
    BY <1>6, ActsFacts, PruneFacts DEF Quiet, Told
  <2>2. AuditInv!(h)'
    BY <2>1 DEF AuditInv, OnlyMoves
  <2>3. \A g \in Handlers : g # h => Unchanged(g)
    BY <2>1 DEF OnlyMoves, Unchanged, Told
  <2> QED
    BY <2>2, <2>3, UnchangedKeepsAudit DEF AuditInv
<1>7. CASE HistoryWritten(h)
  <2>1. OnlyMoves(h) /\ UNCHANGED <<writer, audit>> /\ handler'[h].at = "audit"
        /\ writer[h].at \in {"done", "failed"} /\ handler'[h].ok = (writer[h].at = "done")
        /\ (writer[h].at = "done" => handler'[h].effect)
    BY <1>7, WrittenFacts DEF Quiet
  <2>2. AuditInv!(h)'
    BY <2>1 DEF AuditInv, OnlyMoves
  <2>3. \A g \in Handlers : g # h => Unchanged(g)
    BY <2>1 DEF OnlyMoves, Unchanged, Told
  <2> QED
    BY <2>2, <2>3, UnchangedKeepsAudit DEF AuditInv
<1>8. CASE Mutate(h) \/ Replace(h)
  <2>1. OnlyMoves(h) /\ Told(h) /\ UNCHANGED <<writer, audit>>
        /\ handler[h].at \in {"new", "replace"} /\ handler'[h].at \in {"replace", "rename", "audit"}
    BY <1>8, MutateFacts, ReplaceFacts
  <2>2. AuditInv!(h)'
    BY <2>1 DEF AuditInv, OnlyMoves, Told
  <2>3. \A g \in Handlers : g # h => Unchanged(g)
    BY <2>1 DEF OnlyMoves, Unchanged, Told
  <2> QED
    BY <2>2, <2>3, UnchangedKeepsAudit DEF AuditInv
<1>9. CASE Publish(h)
  <2>1. OnlyMoves(h) /\ UNCHANGED <<writer, audit>> /\ handler[h].at = "rename" /\ handler'[h].at = "audit"
        /\ (Told(h) \/ (handler'[h].ok /\ handler'[h].effect))
    BY <1>9, PublishFacts
  <2>2. AuditInv!(h)'
    BY <2>1 DEF AuditInv, OnlyMoves, Told
  <2>3. \A g \in Handlers : g # h => Unchanged(g)
    BY <2>1 DEF OnlyMoves, Unchanged, Told
  <2> QED
    BY <2>2, <2>3, UnchangedKeepsAudit DEF AuditInv
<1>10. CASE Audit(h)
  <2>1. /\ OnlyMoves(h) /\ Carries(h) /\ Told(h) /\ UNCHANGED writer
        /\ handler[h].at = "audit" /\ handler'[h].at = "answered"
        /\ \A g \in Handlers : g # h => audit'[g] = audit[g]
        /\ audit'[h] \in {IF handler[h].ok THEN "ok" ELSE "refused", "lost"}
    BY <1>10, AuditFacts DEF Quiet
  <2>2. AuditInv!(h)'
    BY <2>1 DEF AuditInv, OnlyMoves, Carries, Told
  <2>3. \A g \in Handlers : g # h => Unchanged(g)
    BY <2>1 DEF OnlyMoves, Unchanged, Told
  <2> QED
    BY <2>2, <2>3, UnchangedKeepsAudit DEF AuditInv
<1> QED
  BY <1>1, <1>2, <1>3, <1>4, <1>5, <1>6, <1>7, <1>8, <1>9, <1>10, HandlerCases

LEMMA AuditKept ==
    ASSUME BaseInv, CatalogInv, AuditInv, [Next]_vars
    PROVE  AuditInv'
<1>1. CASE UNCHANGED <<handler, audit>> /\ FailedStays
  <2>1. \A g \in Handlers : Unchanged(g)
    BY <1>1 DEF Unchanged, Told, FailedStays
  <2> QED
    BY <2>1, UnchangedKeepsAudit DEF AuditInv
<1>2. CASE Killed
  <2>1. /\ FailedStays /\ UNCHANGED audit
        /\ \A h \in Handlers :
             IF handler[h].at \in {"new", "answered", "killed"} THEN handler'[h] = handler[h]
             ELSE handler'[h].at = "killed"
    BY <1>2, KilledFacts
  <2>2. ASSUME NEW g \in Handlers PROVE AuditInv!(g)'
    <3>1. CASE handler[g].at \in {"new", "answered", "killed"}
      BY <2>1, <3>1, UnchangedKeepsAudit DEF Unchanged, Told, FailedStays
    <3>2. CASE handler[g].at \notin {"new", "answered", "killed"}
      BY <2>1, <3>2
    <3> QED
      BY <3>1, <3>2
  <2> QED
    BY <2>2 DEF AuditInv
<1>3. CASE \E h \in Handlers : Broker(h)
  BY <1>1, <1>3, BrokerFacts DEF FailedStays
<1>4. CASE Others
  BY <1>1, <1>4, OthersFacts
<1>5. CASE UNCHANGED served
  BY <1>1, <1>5 DEF served, FailedStays
<1> QED
  BY <1>2, <1>3, <1>4, <1>5, NextCases, HandlerKeepsAudit

-----------------------------------------------------------------------------
(* The index of runs *)

\* No list has a run twice, in no file and in no writer's memory.
Lists == {entries \in Seq(Entry) :
             \A i, j \in DOMAIN entries : entries[i].run = entries[j].run => i = j}
Jobs == Upserts \cup Prunes
ListWriter ==
    [at : {"idle", "list", "open", "write", "rename", "done", "failed", "killed"},
     job : Jobs \cup {NoJob}, entries : Lists, inode : Inodes \cup {NoInode}]
ListType ==
    /\ hist \in Dirs(Inodes, Lists) /\ writer \in [Writers -> ListWriter]
    /\ overlapped \in BOOLEAN
    /\ reported \in [Runs -> RunStates \cup {Unlisted}]

\* What a writer is there for, while it may still write.
JobInv == \A w \in Writers : writer[w].at = "list" \/ Writing(w) => writer[w].job \in Jobs

\* An action is about a run.
AimInv == \A h \in Handlers :
    handler[h].op = "action" /\ handler[h].at \in {"lookup", "work"} => handler[h].run \in Runs

HolderInv == \A w \in Writers :
    IF writer[w].at \in {"write", "rename"} THEN writer[w].inode \in Inodes ELSE writer[w].inode = NoInode

\* The entries are those of told.
Indexed(entries, told) ==
    /\ \A i \in DOMAIN entries : entries[i].state = told[entries[i].run]
    /\ \A r \in Runs : told[r] # Unlisted => \E i \in DOMAIN entries : entries[i].run = r

\* What will have been reported when w has renamed its file.
Report(job, entries) == IF job.op = "prune" THEN Listing(entries)
                        ELSE [reported EXCEPT ![job.run] = job.state]

\* As long as writers take turns, the one that is writing has the .tmp for
\* itself, and what it is going to publish is the index with its own report.
SoleInv == ~overlapped =>
    /\ \A v, w \in Writers : Writing(v) /\ Writing(w) => v = w
    /\ hist.tmp # NoInode => hist.tmp # hist.file
    /\ Decodes(hist) /\ Indexed(Entries, reported)
    /\ \A w \in Writers :
         /\ Writing(w) => Indexed(writer[w].entries, Report(writer[w].job, writer[w].entries))
         /\ writer[w].at \in {"write", "rename"} => writer[w].inode = hist.tmp /\ hist.tmp # NoInode
         /\ writer[w].at = "write" => hist.data[hist.tmp] = {}
         /\ writer[w].at = "rename" => hist.data[hist.tmp] = {writer[w].entries}

ListInv == ListType /\ JobInv /\ HolderInv /\ SoleInv

LEMMA ConcatIs ==
    ASSUME NEW S, NEW a \in Seq(S), NEW b \in Seq(S)
    PROVE  /\ a \o b \in Seq(S) /\ Len(a \o b) = Len(a) + Len(b)
           /\ \A i \in 1..(Len(a) + Len(b)) : (a \o b)[i] = IF i <= Len(a) THEN a[i] ELSE b[i - Len(a)]
OBVIOUS

\* The two operations on the list, by what is where.
LEMMA RemoveAtIs ==
    ASSUME NEW S, NEW entries \in Seq(S), NEW k \in 1..Len(entries)
    PROVE  /\ RemoveAt(entries, k) \in Seq(S) /\ Len(RemoveAt(entries, k)) = Len(entries) - 1
           /\ \A i \in 1..(Len(entries) - 1) :
                RemoveAt(entries, k)[i] = IF i < k THEN entries[i] ELSE entries[i + 1]
<1> DEFINE a == SubSeq(entries, 1, k - 1)
           b == SubSeq(entries, k + 1, Len(entries))
<1>1. /\ a \in Seq(S) /\ Len(a) = k - 1 /\ \A i \in 1..(k - 1) : a[i] = entries[i]
  OBVIOUS
<1>2. /\ b \in Seq(S) /\ Len(b) = Len(entries) - k
      /\ \A i \in 1..(Len(entries) - k) : b[i] = entries[k + i]
  OBVIOUS
<1>3. RemoveAt(entries, k) = a \o b
  BY DEF RemoveAt
<1> HIDE DEF a, b
<1>4. /\ a \o b \in Seq(S) /\ Len(a \o b) = Len(entries) - 1
      /\ \A i \in 1..(Len(entries) - 1) : (a \o b)[i] = IF i < k THEN a[i] ELSE b[i - (k - 1)]
  BY <1>1, <1>2
<1>5. \A i \in 1..(Len(entries) - 1) : (a \o b)[i] = IF i < k THEN entries[i] ELSE entries[i + 1]
  BY <1>1, <1>2, <1>4
<1> QED
  BY <1>3, <1>4, <1>5

LEMMA InsertAtIs ==
    ASSUME NEW S, NEW others \in Seq(S), NEW new \in S, NEW k \in 1..(Len(others) + 1)
    PROVE  /\ InsertAt(others, k, new) \in Seq(S) /\ Len(InsertAt(others, k, new)) = Len(others) + 1
           /\ \A i \in 1..(Len(others) + 1) :
                InsertAt(others, k, new)[i] =
                    IF i < k THEN others[i] ELSE IF i = k THEN new ELSE others[i - 1]
<1> DEFINE a == SubSeq(others, 1, k - 1)
           b == SubSeq(others, k, Len(others))
<1>1. /\ a \in Seq(S) /\ Len(a) = k - 1 /\ \A i \in 1..(k - 1) : a[i] = others[i]
  OBVIOUS
<1>2. /\ b \in Seq(S) /\ Len(b) = Len(others) - k + 1
      /\ \A i \in 1..(Len(others) - k + 1) : b[i] = others[k + i - 1]
  OBVIOUS
<1>3. InsertAt(others, k, new) = a \o <<new>> \o b
  BY DEF InsertAt
<1> HIDE DEF a, b
<1> DEFINE c == a \o <<new>>
<1>4. c \in Seq(S) /\ Len(c) = k /\ \A i \in 1..k : c[i] = IF i < k THEN a[i] ELSE new
  BY <1>1
<1> HIDE DEF c
<1>5. /\ c \o b \in Seq(S) /\ Len(c \o b) = Len(others) + 1
      /\ \A i \in 1..(Len(others) + 1) : (c \o b)[i] = IF i <= k THEN c[i] ELSE b[i - k]
  <2>1. k \in Nat /\ Len(others) \in Nat /\ Len(c) + Len(b) = Len(others) + 1
    BY <1>2, <1>4
  <2>2. /\ c \o b \in Seq(S) /\ Len(c \o b) = Len(c) + Len(b)
        /\ \A i \in 1..(Len(c) + Len(b)) : (c \o b)[i] = IF i <= Len(c) THEN c[i] ELSE b[i - Len(c)]
    BY <1>2, <1>4, ConcatIs, Zenon
  <2> QED
    BY <1>4, <2>1, <2>2
<1>6. \A i \in 1..(Len(others) + 1) :
        (c \o b)[i] = IF i < k THEN others[i] ELSE IF i = k THEN new ELSE others[i - 1]
  <2> SUFFICES ASSUME NEW i \in 1..(Len(others) + 1)
               PROVE  (c \o b)[i] = IF i < k THEN others[i] ELSE IF i = k THEN new ELSE others[i - 1]
    OBVIOUS
  <2>1. CASE i <= k
    <3>1. i \in 1..k /\ (c \o b)[i] = c[i]
      BY <1>5, <2>1
    <3>2. c[i] = IF i < k THEN a[i] ELSE new
      BY <1>4, <3>1
    <3> QED
      BY <1>1, <2>1, <3>1, <3>2
  <2>2. CASE i > k
    <3>1. i - k \in 1..(Len(others) - k + 1) /\ k + (i - k) - 1 = i - 1
      BY <2>2
    <3>2. b[i - k] = others[i - 1]
      BY <1>2, <3>1
    <3>3. (c \o b)[i] = b[i - k] /\ ~(i < k) /\ i # k
      <4>1. ~(i <= k) /\ ~(i < k) /\ i # k
        BY <2>2
      <4> QED
        BY <1>5, <4>1
    <3>4. (c \o b)[i] = others[i - 1]
      BY <3>1, <3>2, <3>3
    <3> QED
      BY <3>3, <3>4, Zenon
  <2>3. i <= k \/ i > k
    OBVIOUS
  <2> QED
    BY <2>1, <2>2, <2>3, Zenon
<1> QED
  BY <1>3, <1>5, <1>6 DEF c

-----------------------------------------------------------------------------
(* What a writer makes of the index *)

\* The index without the entry of a run.
LEMMA OthersAre ==
    ASSUME NEW entries \in Lists, NEW r
    PROVE  /\ Without(entries, r) \in Seq(Entry)
           /\ \E place \in [DOMAIN Without(entries, r) -> DOMAIN entries] :
                /\ \A i \in DOMAIN Without(entries, r) :
                     Without(entries, r)[i] = entries[place[i]] /\ Without(entries, r)[i].run # r
                /\ \A i, j \in DOMAIN Without(entries, r) : place[i] = place[j] => i = j
                /\ \A k \in DOMAIN entries : entries[k].run # r =>
                     \E i \in DOMAIN Without(entries, r) : place[i] = k
<1> DEFINE old == {i \in DOMAIN entries : entries[i].run = r}
           k == CHOOSE i \in old : \A j \in old : i <= j
<1>0. entries \in Seq(Entry) /\ DOMAIN entries = 1..Len(entries) /\ Len(entries) \in Nat
  BY DEF Lists
<1>1. CASE old = {}
  <2>0. entries \in Seq(Entry)
    BY DEF Lists
  <2>1. Without(entries, r) = entries
    BY <1>1 DEF Without
  <2> DEFINE W == Without(entries, r)
             place == [i \in DOMAIN entries |-> i]
  <2>2. W = entries
    BY <2>1
  <2>3. /\ place \in [DOMAIN entries -> DOMAIN entries]
        /\ \A i \in DOMAIN entries : place[i] = i
        /\ \A i \in DOMAIN entries : entries[i].run # r
    BY <1>1
  <2> HIDE DEF place, W
  <2>4. /\ W \in Seq(Entry)
        /\ place \in [DOMAIN W -> DOMAIN entries]
        /\ \A i \in DOMAIN W : W[i] = entries[place[i]] /\ W[i].run # r
        /\ \A i, j \in DOMAIN W : place[i] = place[j] => i = j
        /\ \A m \in DOMAIN entries : entries[m].run # r => \E i \in DOMAIN W : place[i] = m
    BY <2>0, <2>2, <2>3
  <2> QED
    BY <2>4 DEF W
<1>2. CASE old # {}
  <2>1. PICK n \in old : TRUE
    BY <1>2
  <2>2. \A j \in old : j = n
    BY <2>1 DEF Lists
  <2>3. k = n
    <3>1. n \in old /\ \A j \in old : n <= j
      BY <1>0, <2>1, <2>2
    <3>2. k \in old
      BY <3>1, Zenon
    <3> QED
      BY <2>2, <3>2, Zenon
  <2>4. n \in 1..Len(entries) /\ entries[n].run = r
    BY <1>0, <2>1
  <2> DEFINE others == RemoveAt(entries, n)
             place == [i \in DOMAIN others |-> IF i < n THEN i ELSE i + 1]
  <2>5. /\ others \in Seq(Entry) /\ Len(others) = Len(entries) - 1
        /\ \A i \in 1..(Len(entries) - 1) : others[i] = IF i < n THEN entries[i] ELSE entries[i + 1]
    BY <1>0, <2>4, RemoveAtIs
  <2> HIDE DEF others
  <2>6. DOMAIN others = 1..(Len(entries) - 1)
    BY <2>5
  <2>7. /\ place \in [DOMAIN others -> DOMAIN entries]
        /\ \A i \in DOMAIN others : place[i] = IF i < n THEN i ELSE i + 1
    BY <1>0, <2>4, <2>6
  <2> HIDE DEF place
  <2>8. \A i \in DOMAIN others : others[i] = entries[place[i]] /\ place[i] # n
    BY <1>0, <2>4, <2>5, <2>6, <2>7
  <2>9. \A i \in DOMAIN others : others[i].run # r
    BY <2>2, <2>7, <2>8
  <2>10. \A i, j \in DOMAIN others : place[i] = place[j] => i = j
    BY <1>0, <2>4, <2>6, <2>7
  <2>11. \A m \in DOMAIN entries : entries[m].run # r => \E i \in DOMAIN others : place[i] = m
    <3> SUFFICES ASSUME NEW m \in DOMAIN entries, entries[m].run # r
                 PROVE  \E i \in DOMAIN others : place[i] = m
      OBVIOUS
    <3>1. m # n /\ m \in 1..Len(entries)
      BY <1>0, <2>4
    <3>2. CASE m < n
      <4>1. m \in DOMAIN others /\ place[m] = m
        BY <1>0, <2>4, <2>6, <2>7, <3>1, <3>2
      <4> QED
        BY <4>1
    <3>3. CASE m > n
      <4>1. m - 1 \in DOMAIN others /\ place[m - 1] = m
        BY <1>0, <2>4, <2>6, <2>7, <3>1, <3>3
      <4> QED
        BY <4>1
    <3> QED
      BY <1>0, <2>4, <3>1, <3>2, <3>3
  <2>12. \E p \in [DOMAIN others -> DOMAIN entries] :
            /\ \A i \in DOMAIN others : others[i] = entries[p[i]] /\ others[i].run # r
            /\ \A i, j \in DOMAIN others : p[i] = p[j] => i = j
            /\ \A m \in DOMAIN entries : entries[m].run # r => \E i \in DOMAIN others : p[i] = m
    BY <2>7, <2>8, <2>9, <2>10, <2>11
  <2>13. Without(entries, r) = others
    BY <1>2, <2>3 DEF Without, others
  <2> QED
    BY <2>5, <2>12, <2>13
<1> QED
  BY <1>1, <1>2

\* A run reports, and its entry is somewhere in the list.
LEMMA UpsertedIs ==
    ASSUME NEW entries \in Lists, NEW r \in Runs, NEW state \in RunStates,
           NEW result \in Upserted(entries, r, state)
    PROVE  /\ result \in Lists
           /\ \A told \in [Runs -> RunStates \cup {Unlisted}] :
                Indexed(entries, told) => Indexed(result, [told EXCEPT ![r] = state])
<1> DEFINE others == Without(entries, r)
           new == [run |-> r, state |-> state]
<1>1. /\ others \in Seq(Entry) /\ DOMAIN others = 1..Len(others) /\ Len(others) \in Nat
      /\ \A i \in DOMAIN others : others[i] \in Entry /\ others[i].run # r
      /\ \A i, j \in DOMAIN others : others[i].run = others[j].run => i = j
  BY OthersAre DEF Lists
<1>2. PICK k \in 1..(Len(others) + 1) : result = InsertAt(others, k, new)
  BY DEF Upserted
<1>3. new \in Entry /\ new.run = r /\ new.state = state
  BY DEF Entry
<1> HIDE DEF others, new
<1>4. /\ result \in Seq(Entry) /\ Len(result) = Len(others) + 1
      /\ \A i \in 1..(Len(others) + 1) :
           result[i] = IF i < k THEN others[i] ELSE IF i = k THEN new ELSE others[i - 1]
  <2>1. others \in Seq(Entry) /\ new \in Entry
    BY <1>1, <1>3
  <2>2. /\ InsertAt(others, k, new) \in Seq(Entry) /\ Len(InsertAt(others, k, new)) = Len(others) + 1
        /\ \A i \in 1..(Len(others) + 1) :
             InsertAt(others, k, new)[i] =
                 IF i < k THEN others[i] ELSE IF i = k THEN new ELSE others[i - 1]
    BY <2>1, InsertAtIs
  <2> QED
    BY <1>2, <2>2
<1>5. DOMAIN result = 1..(Len(others) + 1)
  BY <1>4
<1>6. \A i \in DOMAIN result :
        \/ i = k /\ result[i] = new
        \/ i < k /\ i \in DOMAIN others /\ result[i] = others[i]
        \/ i > k /\ i - 1 \in DOMAIN others /\ result[i] = others[i - 1]
  BY <1>1, <1>4, <1>5
<1>7. \A i, j \in DOMAIN result : result[i].run = result[j].run => i = j
  <2> SUFFICES ASSUME NEW i \in DOMAIN result, NEW j \in DOMAIN result, result[i].run = result[j].run
               PROVE  i = j
    OBVIOUS
  <2>1. i \in Nat /\ j \in Nat /\ k \in Nat
    BY <1>1, <1>5
  <2> QED
    BY <1>1, <1>3, <1>6, <2>1
<1>8. result \in Lists
  BY <1>4, <1>7 DEF Lists
<1>9. ASSUME NEW told \in [Runs -> RunStates \cup {Unlisted}], Indexed(entries, told)
      PROVE  Indexed(result, [told EXCEPT ![r] = state])
  <2> DEFINE next == [told EXCEPT ![r] = state]
  <2>1. next[r] = state /\ \A s \in Runs : s # r => next[s] = told[s]
    OBVIOUS
  <2> HIDE DEF next
  <2>2. PICK place \in [DOMAIN others -> DOMAIN entries] :
          /\ \A i \in DOMAIN others : others[i] = entries[place[i]]
          /\ \A m \in DOMAIN entries : entries[m].run # r => \E i \in DOMAIN others : place[i] = m
    BY OthersAre DEF others
  <2>3. \A i \in DOMAIN others : others[i].state = next[others[i].run]
    <3> SUFFICES ASSUME NEW i \in DOMAIN others
                 PROVE  others[i].state = next[others[i].run]
      OBVIOUS
    <3>1. others[i].state = told[others[i].run]
      BY <1>9, <2>2 DEF Indexed
    <3>2. others[i].run \in Runs /\ others[i].run # r
      BY <1>1 DEF Entry
    <3> QED
      BY <2>1, <3>1, <3>2
  <2>4. \A i \in DOMAIN result : result[i].state = next[result[i].run]
    BY <1>3, <1>6, <2>1, <2>3
  <2>5. k \in DOMAIN result /\ result[k].run = r
    BY <1>1, <1>3, <1>4, <1>5
  <2>6. \A i \in DOMAIN others : \E j \in DOMAIN result : result[j] = others[i]
    <3> SUFFICES ASSUME NEW i \in DOMAIN others
                 PROVE  \E j \in DOMAIN result : result[j] = others[i]
      OBVIOUS
    <3>1. CASE i < k
      <4>1. i \in DOMAIN result /\ result[i] = others[i]
        BY <1>1, <1>4, <1>5, <3>1
      <4> QED
        BY <4>1
    <3>2. CASE i >= k
      <4>1. i + 1 \in 1..(Len(others) + 1) /\ ~(i + 1 < k) /\ i + 1 # k /\ (i + 1) - 1 = i
        BY <1>1, <3>2
      <4>2. i + 1 \in DOMAIN result /\ result[i + 1] = others[i]
        BY <1>4, <1>5, <4>1
      <4> QED
        BY <4>2
    <3>3. i \in Nat /\ k \in Nat
      BY <1>1
    <3> QED
      BY <3>1, <3>2, <3>3
  <2>7. ASSUME NEW s \in Runs, next[s] # Unlisted
        PROVE  \E i \in DOMAIN result : result[i].run = s
    <3>1. CASE s = r
      BY <2>5, <3>1
    <3>2. CASE s # r
      <4>1. PICK m \in DOMAIN entries : entries[m].run = s
        BY <1>9, <2>1, <2>7, <3>2 DEF Indexed
      <4>2. PICK i \in DOMAIN others : others[i].run = s
        BY <2>2, <3>2, <4>1
      <4> QED
        BY <2>6, <4>2
    <3> QED
      BY <3>1, <3>2
  <2>8. Indexed(result, next)
    BY <2>4, <2>7 DEF Indexed
  <2> QED
    BY <2>8 DEF next
<1> QED
  BY <1>8, <1>9

\* The oldest entries are dropped, and count as not listed.
LEMMA PrunedIs ==
    ASSUME NEW entries \in Lists, NEW keep \in Nat
    PROVE  /\ Pruned(entries, keep) \in Lists
           /\ reported \in [Runs -> RunStates \cup {Unlisted}] /\ Indexed(entries, reported)
                => Indexed(Pruned(entries, keep), Listing(Pruned(entries, keep)))
<1> DEFINE result == Pruned(entries, keep)
<1>1. entries \in Seq(Entry) /\ DOMAIN entries = 1..Len(entries) /\ Len(entries) \in Nat
  BY DEF Lists
<1>2. /\ result \in Seq(Entry) /\ DOMAIN result \subseteq DOMAIN entries
      /\ \A i \in DOMAIN result : result[i] = entries[i]
  <2>1. CASE Len(entries) <= keep
    BY <1>1, <2>1 DEF Pruned
  <2>2. CASE ~(Len(entries) <= keep)
    <3>1. result = SubSeq(entries, 1, keep)
      BY <2>2 DEF Pruned
    <3>2. keep <= Len(entries)
      BY <1>1, <2>2
    <3> HIDE DEF result
    <3>3. result \in Seq(Entry) /\ Len(result) = keep /\ \A i \in 1..keep : result[i] = entries[i]
      BY <1>1, <3>1, <3>2
    <3>4. DOMAIN result = 1..keep
      BY <3>3
    <3> QED
      BY <1>1, <3>2, <3>3, <3>4
  <2> QED
    BY <2>1, <2>2
<1> HIDE DEF result
<1>3. result \in Lists
  BY <1>2 DEF Lists
<1>4. ASSUME reported \in [Runs -> RunStates \cup {Unlisted}], Indexed(entries, reported)
      PROVE  Indexed(result, Listing(result))
  <2>1. ASSUME NEW i \in DOMAIN result
        PROVE  result[i].state = Listing(result)[result[i].run]
    <3>0. result[i] \in Entry
      BY <1>2
    <3>1. result[i].run \in Runs
      BY <3>0 DEF Entry
    <3>2. Listing(result)[result[i].run] = reported[result[i].run]
      BY <3>1 DEF Listing
    <3> QED
      BY <1>2, <1>4, <3>2 DEF Indexed
  <2>2. \A s \in Runs : Listing(result)[s] # Unlisted => \E i \in DOMAIN result : result[i].run = s
    BY DEF Listing
  <2> QED
    BY <2>1, <2>2 DEF Indexed
<1> QED
  BY <1>3, <1>4 DEF result

\* Every writer adds to the index or cuts it.
LEMMA ResultIs ==
    ASSUME NEW entries \in Lists, NEW job \in Jobs, NEW result \in Results(job, entries)
    PROVE  /\ result \in Lists
           /\ reported \in [Runs -> RunStates \cup {Unlisted}] /\ Indexed(entries, reported)
                => Indexed(result, Report(job, result))
<1>1. CASE job \in Prunes
  <2>1. job.op = "prune" /\ job.keep \in Nat /\ result = Pruned(entries, job.keep)
    BY <1>1 DEF Prunes, Results
  <2> QED
    BY <2>1, PrunedIs DEF Report
<1>2. CASE job \in Upserts
  <2>1. job.op # "prune" /\ job.run \in Runs /\ job.state \in RunStates
    BY <1>2 DEF Upserts
  <2>2. result \in Upserted(entries, job.run, job.state)
    BY <2>1 DEF Results
  <2> QED
    BY <2>1, <2>2, UpsertedIs DEF Report
<1> QED
  BY <1>1, <1>2 DEF Jobs

LEMMA ReportType ==
    ASSUME reported \in [Runs -> RunStates \cup {Unlisted}], NEW job \in Jobs, NEW entries
    PROVE  Report(job, entries) \in [Runs -> RunStates \cup {Unlisted}]
<1>1. CASE job \in Prunes
  BY <1>1 DEF Prunes, Report, Listing
<1>2. CASE job \in Upserts
  <2>1. job.op # "prune" /\ job.state \in RunStates
    BY <1>2 DEF Upserts
  <2> QED
    BY <2>1 DEF Report
<1> QED
  BY <1>1, <1>2 DEF Jobs

-----------------------------------------------------------------------------
(* The file of the index *)

\* There are inodes enough: one that nobody uses.
LEMMA UnusedInode ==
    ASSUME ListType, NEW w \in Writers, writer[w].inode = NoInode
    PROVE  LET new == CHOOSE i \in Inodes : i \notin InUse IN new \in Inodes /\ new \notin InUse
<1> DEFINE holders == {writer[v].inode : v \in Writers}
           f == [v \in Writers |-> writer[v].inode]
<1>1. f \in Surjection(Writers, holders)
  BY DEF Surjection
<1>2. /\ IsFiniteSet(holders) /\ Cardinality(holders) <= Cardinality(Writers)
      /\ Cardinality(holders) \in Nat /\ Cardinality(Writers) \in Nat
  <2>1. IsFiniteSet(Writers)
    BY HistoryAssumption
  <2> HIDE DEF f, holders
  <2>2. IsFiniteSet(holders) /\ Cardinality(holders) <= Cardinality(Writers)
    BY <1>1, <2>1, FS_Surjection
  <2> QED
    BY <2>1, <2>2, FS_CardinalityType
<1>3. NoInode \in holders
  BY Zenon
<1> HIDE DEF holders, f
<1> DEFINE one == holders \cup {hist.file}
           two == one \cup {hist.tmp}
           free == two \ {NoInode}
<1>4. IsFiniteSet(one) /\ Cardinality(one) <= Cardinality(Writers) + 1 /\ Cardinality(one) \in Nat
  <2>1. /\ IsFiniteSet(one)
        /\ Cardinality(one) = IF hist.file \in holders THEN Cardinality(holders) ELSE Cardinality(holders) + 1
    BY <1>2, FS_AddElement
  <2> QED
    BY <1>2, <2>1
<1> HIDE DEF one
<1>5. IsFiniteSet(two) /\ Cardinality(two) <= Cardinality(Writers) + 2 /\ Cardinality(two) \in Nat
  <2>1. /\ IsFiniteSet(two)
        /\ Cardinality(two) = IF hist.tmp \in one THEN Cardinality(one) ELSE Cardinality(one) + 1
    BY <1>4, FS_AddElement
  <2> QED
    BY <1>2, <1>4, <2>1
<1>6. NoInode \in two
  BY <1>3 DEF one
<1> HIDE DEF two
<1>7. IsFiniteSet(free) /\ Cardinality(free) < Cardinality(Writers) + 2 /\ Cardinality(free) \in Nat
  <2>1. IsFiniteSet(free) /\ Cardinality(free) = Cardinality(two) - 1
    BY <1>5, <1>6, FS_RemoveElement
  <2>2. Cardinality(free) \in Nat
    BY <2>1, FS_CardinalityType
  <2> QED
    BY <1>2, <1>5, <2>1, <2>2
<1> HIDE DEF free
<1>8. ~(Inodes \subseteq free)
  <2> SUFFICES ASSUME Inodes \subseteq free PROVE FALSE
    OBVIOUS
  <2>1. Cardinality(Inodes) <= Cardinality(free) /\ Cardinality(Inodes) \in Nat
    BY <1>7, FS_Subset, FS_CardinalityType, HistoryAssumption
  <2> QED
    BY <1>2, <1>7, <2>1, HistoryAssumption
<1>9. InUse = two
  BY DEF InUse, two, one, holders
<1>10. \E i \in Inodes : i \notin InUse
  BY <1>8, <1>9, HistoryAssumption DEF free
<1> QED
  BY <1>10, Zenon

LEMMA IndexOpened ==
    ASSUME NEW dir \in Dirs(Inodes, Lists), NEW new, OpenedInode(dir, new) \in Inodes
    PROVE  LET i == OpenedInode(dir, new)
               opened == Opened(dir, new)
           IN /\ opened \in Dirs(Inodes, Lists) /\ opened.file = dir.file /\ opened.tmp = i
              /\ opened.data[i] = {} /\ \A j \in Inodes : j # i => opened.data[j] = dir.data[j]
<1> DEFINE i == OpenedInode(dir, new)
           data == [dir.data EXCEPT ![i] = {}]
<1>1. i \in Inodes /\ Opened(dir, new) = [dir EXCEPT !.tmp = i, !.data[i] = {}]
  BY DEF Opened
<1> HIDE DEF i
<1>2. dir.data \in [Inodes -> SUBSET Lists]
  BY DEF Dirs
<1>3. data \in [Inodes -> SUBSET Lists] /\ data[i] = {} /\ \A j \in Inodes : j # i => data[j] = dir.data[j]
  BY <1>1, <1>2
<1>4. Opened(dir, new) = [dir EXCEPT !.tmp = i, !.data = data]
  BY <1>1 DEF Dirs
<1> HIDE DEF data
<1>5. /\ Opened(dir, new) \in Dirs(Inodes, Lists) /\ Opened(dir, new).file = dir.file
      /\ Opened(dir, new).tmp = i /\ Opened(dir, new).data = data
  BY <1>1, <1>3, <1>4 DEF Dirs
<1> QED
  BY <1>3, <1>5 DEF i

LEMMA IndexWritten ==
    ASSUME NEW dir \in Dirs(Inodes, Lists), NEW i \in Inodes, NEW value \in Lists,
           NEW result \in Written(dir, i, value)
    PROVE  /\ result \in Dirs(Inodes, Lists) /\ result.file = dir.file /\ result.tmp = dir.tmp
           /\ dir.data[i] = {} => result.data[i] = {value}
           /\ \A j \in Inodes : j # i => result.data[j] = dir.data[j]
<1>1. dir.data \in [Inodes -> SUBSET Lists]
  BY DEF Dirs
<1>2. PICK content \in {{value}, dir.data[i] \cup {value}} : result = [dir EXCEPT !.data[i] = content]
  BY DEF Written
<1> DEFINE data == [dir.data EXCEPT ![i] = content]
<1>3. /\ data \in [Inodes -> SUBSET Lists] /\ data[i] = content
      /\ \A j \in Inodes : j # i => data[j] = dir.data[j]
  BY <1>1, <1>2
<1>4. result = [dir EXCEPT !.data = data]
  BY <1>2 DEF Dirs
<1> HIDE DEF data
<1>5. result \in Dirs(Inodes, Lists) /\ result.file = dir.file /\ result.tmp = dir.tmp /\ result.data = data
  BY <1>3, <1>4 DEF Dirs
<1>6. dir.data[i] = {} => content = {value}
  BY <1>2
<1> QED
  BY <1>3, <1>5, <1>6

LEMMA IndexRenamed ==
    ASSUME NEW dir \in Dirs(Inodes, Lists)
    PROVE  /\ Renamed(dir) \in Dirs(Inodes, Lists) /\ Renamed(dir).file = dir.tmp
           /\ Renamed(dir).tmp = NoInode /\ Renamed(dir).data = dir.data
BY DEF Renamed, Dirs

-----------------------------------------------------------------------------
(* The steps of a writer *)

LEMMA WriterTo ==
    ASSUME ListType, NEW w \in Writers, NEW new \in ListWriter, writer' = [writer EXCEPT ![w] = new]
    PROVE  /\ writer' \in [Writers -> ListWriter] /\ writer'[w] = new
           /\ \A v \in Writers : v # w => writer'[v] = writer[v]
BY DEF ListType

\* A step of one writer, by its fields.
WriterGoes(w, step) ==
    /\ writer' \in [Writers -> ListWriter] /\ writer'[w].at = step /\ writer'[w].job = writer[w].job
    /\ \A v \in Writers : v # w => writer'[v] = writer[v]

LEMMA StepGoes ==
    ASSUME ListType, NEW w \in Writers,
           NEW step \in {"idle", "list", "open", "write", "rename", "done", "failed", "killed"},
           ToStep(w, step)
    PROVE  WriterGoes(w, step) /\ writer'[w].entries = writer[w].entries /\ writer'[w].inode = writer[w].inode
<1> DEFINE new == [writer[w] EXCEPT !.at = step]
<1>1. writer' = [writer EXCEPT ![w] = new]
  BY DEF ToStep, ListType
<1>2. /\ new \in ListWriter /\ new.at = step /\ new.job = writer[w].job
      /\ new.entries = writer[w].entries /\ new.inode = writer[w].inode
  <2>1. writer[w] \in ListWriter
    BY DEF ListType
  <2> QED
    BY <2>1 DEF ListWriter
<1> HIDE DEF new
<1> QED
  BY <1>1, <1>2, WriterTo DEF WriterGoes

LEMMA InodeGoes ==
    ASSUME ListType, NEW w \in Writers,
           NEW step \in {"idle", "list", "open", "write", "rename", "done", "failed", "killed"},
           NEW i \in Inodes \cup {NoInode}, writer' = [writer EXCEPT ![w].at = step, ![w].inode = i]
    PROVE  WriterGoes(w, step) /\ writer'[w].entries = writer[w].entries /\ writer'[w].inode = i
<1> DEFINE new == [writer[w] EXCEPT !.at = step, !.inode = i]
<1>1. writer' = [writer EXCEPT ![w] = new]
  BY DEF ListType
<1>2. /\ new \in ListWriter /\ new.at = step /\ new.job = writer[w].job
      /\ new.entries = writer[w].entries /\ new.inode = i
  <2>1. writer[w] \in ListWriter
    BY DEF ListType
  <2> QED
    BY <2>1 DEF ListWriter
<1> HIDE DEF new
<1> QED
  BY <1>1, <1>2, WriterTo DEF WriterGoes

LEMMA ResultGoes ==
    ASSUME ListType, NEW w \in Writers, NEW result \in Lists,
           writer' = [writer EXCEPT ![w].at = "open", ![w].entries = result]
    PROVE  WriterGoes(w, "open") /\ writer'[w].entries = result /\ writer'[w].inode = writer[w].inode
<1> DEFINE new == [writer[w] EXCEPT !.at = "open", !.entries = result]
<1>1. writer' = [writer EXCEPT ![w] = new]
  BY DEF ListType
<1>2. /\ new \in ListWriter /\ new.at = "open" /\ new.job = writer[w].job
      /\ new.entries = result /\ new.inode = writer[w].inode
  <2>1. writer[w] \in ListWriter
    BY DEF ListType
  <2> QED
    BY <2>1 DEF ListWriter
<1> HIDE DEF new
<1> QED
  BY <1>1, <1>2, WriterTo DEF WriterGoes

\* What can be read depends on the published inode only.
LEMMA SameIndex ==
    ASSUME hist'.file = hist.file, hist.file # NoInode => hist'.data[hist.file] = hist.data[hist.file]
    PROVE  Decodes(hist) => Decodes(hist)' /\ Entries' = Entries
<1> SUFFICES ASSUME Decodes(hist) PROVE Decodes(hist)' /\ Entries' = Entries
  OBVIOUS
<1>1. CASE hist.file = NoInode
  BY <1>1 DEF Decodes, Entries, ValueOf
<1>2. CASE hist.file # NoInode
  <2>1. PICK v : hist.data[hist.file] = {v}
    BY <1>2 DEF Decodes
  <2>2. hist'.file # NoInode /\ hist'.data[hist'.file] = {v}
    BY <1>2, <2>1
  <2>3. Entries = v /\ Entries' = v
    BY <1>2, <2>1, <2>2 DEF Entries, ValueOf
  <2> QED
    BY <2>2, <2>3 DEF Decodes
<1> QED
  BY <1>1, <1>2

LEMMA EntriesAre ==
    ASSUME ListType, Decodes(hist)
    PROVE  Entries \in Lists
<1>1. CASE hist.file = NoInode
  BY <1>1 DEF Entries, ValueOf, Lists
<1>2. CASE hist.file # NoInode
  <2>1. hist.file \in Inodes /\ hist.data \in [Inodes -> SUBSET Lists]
    BY <1>2 DEF ListType, Dirs
  <2>2. PICK v \in hist.data[hist.file] : hist.data[hist.file] = {v}
    BY <1>2 DEF Decodes
  <2> QED
    BY <1>2, <2>1, <2>2 DEF Entries, ValueOf
<1> QED
  BY <1>1, <1>2

\* Writers that come, give up or die, and leave the file as it is.
LEMMA QuitKeepsList ==
    ASSUME ListInv, UNCHANGED <<hist, overlapped, reported>>, writer' \in [Writers -> ListWriter],
           \A w \in Writers : \/ writer'[w] = writer[w]
                              \/ /\ writer'[w].at \notin {"open", "write", "rename"}
                                 /\ writer'[w].inode = NoInode
                                 /\ writer'[w].at = "list" => writer'[w].job \in Jobs
    PROVE  ListInv'
<1>1. ListType'
  BY DEF ListInv, ListType
<1>2. JobInv'
  BY DEF ListInv, JobInv, Writing
<1>3. HolderInv'
  BY DEF ListInv, HolderInv
<1>4. \A w \in Writers : Writing(w)' => writer'[w] = writer[w] /\ Writing(w)
  BY DEF Writing
<1>5. SoleInv'
  <2> SUFFICES ASSUME ~overlapped PROVE SoleInv!2'
    BY DEF SoleInv
  <2>1. Decodes(hist)' /\ Entries' = Entries /\ Indexed(Entries', reported')
    BY SameIndex DEF ListInv, SoleInv
  <2>2. \A w \in Writers : Writing(w) =>
          Report(writer[w].job, writer[w].entries)' = Report(writer'[w].job, writer'[w].entries)
    BY DEF Report, Listing
  <2>3. ASSUME NEW w \in Writers
        PROVE  /\ Writing(w)' => Indexed(writer[w].entries, Report(writer[w].job, writer[w].entries))'
               /\ writer'[w].at \in {"write", "rename"} => writer'[w].inode = hist'.tmp /\ hist'.tmp # NoInode
               /\ writer'[w].at = "write" => hist'.data[hist'.tmp] = {}
               /\ writer'[w].at = "rename" => hist'.data[hist'.tmp] = {writer'[w].entries}
    <3>1. CASE writer'[w] = writer[w]
      <4>1. Writing(w)' => Indexed(writer[w].entries, Report(writer[w].job, writer[w].entries))'
        BY <1>4, <3>1 DEF ListInv, SoleInv, Indexed, Report, Listing
      <4> QED
        BY <3>1, <4>1 DEF ListInv, SoleInv
    <3>2. CASE writer'[w].at \notin {"open", "write", "rename"}
      BY <3>2 DEF Writing
    <3> QED
      BY <3>1, <3>2
  <2> QED
    BY <1>4, <2>1, <2>3 DEF ListInv, SoleInv
<1> QED
  BY <1>1, <1>2, <1>3, <1>5 DEF ListInv

\* The index after a step of the only writer.
LEMMA SoleWriter ==
    ASSUME NEW w \in Writers,
           \A v \in Writers : v # w => writer'[v] = writer[v] /\ ~Writing(v),
           hist'.tmp # NoInode => hist'.tmp # hist'.file,
           Decodes(hist)', Indexed(Entries', reported'),
           Writing(w)' => Indexed(writer[w].entries, Report(writer[w].job, writer[w].entries))',
           writer'[w].at \in {"write", "rename"} => writer'[w].inode = hist'.tmp /\ hist'.tmp # NoInode,
           writer'[w].at = "write" => hist'.data[hist'.tmp] = {},
           writer'[w].at = "rename" => hist'.data[hist'.tmp] = {writer'[w].entries}
    PROVE  SoleInv'
<1>1. ASSUME NEW v \in Writers, v # w
      PROVE  ~Writing(v)' /\ writer'[v].at \notin {"write", "rename"}
  BY <1>1 DEF Writing
<1>2. Indexed(Entries, reported)'
  BY DEF Indexed
<1> QED
  BY <1>1, <1>2 DEF SoleInv

LEMMA ListKeeps ==
    ASSUME ListInv, NEW w \in Writers, List(w)
    PROVE  ListInv'
<1>1. writer[w].at = "list" /\ UNCHANGED <<hist, reported>> /\ writer[w].inode = NoInode /\ writer[w].job \in Jobs
  BY DEF List, ListInv, HolderInv, JobInv
<1>2. CASE UNCHANGED overlapped /\ (ToStep(w, "failed") \/ ToStep(w, "done"))
  <2>1. PICK step \in {"failed", "done"} : ToStep(w, step)
    BY <1>2
  <2>2. WriterGoes(w, step) /\ writer'[w].inode = NoInode
    BY <1>1, <2>1, StepGoes DEF ListInv
  <2> QED
    BY <1>1, <1>2, <2>2, QuitKeepsList DEF WriterGoes
<1>3. CASE /\ Decodes(hist)
           /\ \E result \in Results(writer[w].job, Entries) :
                writer' = [writer EXCEPT ![w].at = "open", ![w].entries = result]
           /\ overlapped' = (overlapped \/ \E v \in Writers : Writing(v))
  <2>1. PICK result \in Results(writer[w].job, Entries) :
          writer' = [writer EXCEPT ![w].at = "open", ![w].entries = result]
    BY <1>3
  <2>2. Entries \in Lists
    BY <1>3, EntriesAre DEF ListInv
  <2>3. /\ result \in Lists
        /\ Indexed(Entries, reported) => Indexed(result, Report(writer[w].job, result))
    BY <1>1, <2>1, <2>2, ResultIs DEF ListInv, ListType
  <2>4. WriterGoes(w, "open") /\ writer'[w].entries = result /\ writer'[w].inode = NoInode
    BY <1>1, <2>1, <2>3, ResultGoes DEF ListInv
  <2>5. ListType'
    BY <1>1, <1>3, <2>4 DEF ListInv, ListType, WriterGoes
  <2>6. JobInv' /\ HolderInv'
    BY <1>1, <2>4 DEF ListInv, JobInv, HolderInv, Writing, WriterGoes
  <2>7. SoleInv'
    <3> SUFFICES ASSUME ~overlapped' PROVE SoleInv'
      BY DEF SoleInv
    <3>1. ~overlapped /\ \A v \in Writers : ~Writing(v)
      BY <1>3
    <3>2. /\ Decodes(hist) /\ Indexed(Entries, reported)
          /\ hist.tmp # NoInode => hist.tmp # hist.file
      BY <3>1 DEF ListInv, SoleInv
    <3>3. Decodes(hist)' /\ Entries' = Entries
      BY <1>1, <3>2 DEF Decodes, Entries
    <3>4. Indexed(writer[w].entries, Report(writer[w].job, writer[w].entries))'
      BY <1>1, <2>3, <2>4, <3>2 DEF Indexed, Report, Listing, WriterGoes
    <3> QED
      BY <1>1, <2>4, <3>1, <3>2, <3>3, <3>4, SoleWriter DEF WriterGoes
  <2> QED
    BY <2>5, <2>6, <2>7 DEF ListInv
<1> QED
  BY <1>2, <1>3 DEF List

\* What the only writer may rely on.
LEMMA SoleFacts ==
    ASSUME ListInv, ~overlapped, NEW w \in Writers, Writing(w)
    PROVE  /\ \A v \in Writers : v # w => ~Writing(v)
           /\ hist.tmp # NoInode => hist.tmp # hist.file
           /\ Decodes(hist) /\ Indexed(Entries, reported)
           /\ Indexed(writer[w].entries, Report(writer[w].job, writer[w].entries))
           /\ writer[w].at \in {"write", "rename"} => writer[w].inode = hist.tmp /\ hist.tmp # NoInode
           /\ writer[w].at = "write" => hist.data[hist.tmp] = {}
           /\ writer[w].at = "rename" => hist.data[hist.tmp] = {writer[w].entries}
BY DEF ListInv, SoleInv

LEMMA OpenKeeps ==
    ASSUME ListInv, NEW w \in Writers, OpenTmp(w)
    PROVE  ListInv'
<1> DEFINE new == CHOOSE i \in Inodes : i \notin InUse
           i == OpenedInode(hist, new)
<1>1. /\ writer[w].at = "open" /\ UNCHANGED <<overlapped, reported>> /\ hist' = Opened(hist, new)
      /\ writer' = [writer EXCEPT ![w].at = "write", ![w].inode = i]
  BY DEF OpenTmp
<1>2. writer[w].inode = NoInode /\ writer[w].job \in Jobs /\ Writing(w)
  BY <1>1 DEF ListInv, HolderInv, JobInv, Writing
<1>3. new \in Inodes /\ new \notin InUse
  BY <1>2, UnusedInode DEF ListInv
<1> HIDE DEF new
<1>4. i \in Inodes /\ (hist.tmp # NoInode => i = hist.tmp) /\ (hist.tmp = NoInode => i = new)
  BY <1>3 DEF OpenedInode, ListInv, ListType, Dirs
<1>5. /\ hist' \in Dirs(Inodes, Lists) /\ hist'.file = hist.file /\ hist'.tmp = i
      /\ hist'.data[i] = {} /\ \A j \in Inodes : j # i => hist'.data[j] = hist.data[j]
  BY <1>1, <1>4, IndexOpened DEF ListInv, ListType
<1>6. new # hist.file
  BY <1>3 DEF InUse
<1> HIDE DEF i
<1>7. WriterGoes(w, "write") /\ writer'[w].entries = writer[w].entries /\ writer'[w].inode = i
  BY <1>1, <1>4, InodeGoes DEF ListInv
<1>8. ListType'
  BY <1>1, <1>5, <1>7 DEF ListInv, ListType, WriterGoes
<1>9. JobInv' /\ HolderInv'
  BY <1>2, <1>4, <1>7 DEF ListInv, JobInv, HolderInv, Writing, WriterGoes
<1>10. i # NoInode
  BY <1>4, HistoryAssumption
<1>11. SoleInv'
  <2> SUFFICES ASSUME ~overlapped PROVE SoleInv'
    BY <1>1 DEF SoleInv
  <2>1. i # hist.file
    BY <1>2, <1>4, <1>6, SoleFacts
  <2>2. hist.file # NoInode => hist'.data[hist.file] = hist.data[hist.file]
    BY <1>5, <2>1 DEF ListInv, ListType, Dirs
  <2>3. Decodes(hist)' /\ Entries' = Entries
    BY <1>2, <1>5, <2>2, SameIndex, SoleFacts
  <2>4. Indexed(writer[w].entries, Report(writer[w].job, writer[w].entries))'
    <3>1. Indexed(writer[w].entries, Report(writer[w].job, writer[w].entries))
      BY <1>2, SoleFacts
    <3> QED
      BY <1>1, <1>7, <3>1 DEF Indexed, Report, Listing, WriterGoes
  <2>5. Indexed(Entries', reported')
    BY <1>1, <1>2, <2>3, SoleFacts
  <2>6. \A v \in Writers : v # w => writer'[v] = writer[v] /\ ~Writing(v)
    BY <1>2, <1>7, SoleFacts DEF WriterGoes
  <2>7. writer'[w].at = "write"
    BY <1>7 DEF WriterGoes
  <2> QED
    BY <1>5, <1>7, <1>10, <2>1, <2>3, <2>4, <2>5, <2>6, <2>7, SoleWriter
<1> QED
  BY <1>8, <1>9, <1>11 DEF ListInv

LEMMA WriteKeeps ==
    ASSUME ListInv, NEW w \in Writers, WriteTmp(w)
    PROVE  ListInv'
<1> DEFINE i == writer[w].inode
<1>1. /\ writer[w].at = "write" /\ UNCHANGED <<overlapped, reported>>
      /\ hist' \in Written(hist, i, writer[w].entries) /\ ToStep(w, "rename")
  BY DEF WriteTmp
<1>2. i \in Inodes /\ writer[w].job \in Jobs /\ Writing(w) /\ writer[w].entries \in Lists
  <2>1. writer[w] \in ListWriter
    BY DEF ListInv, ListType
  <2> QED
    BY <1>1, <2>1 DEF ListInv, HolderInv, JobInv, Writing, ListWriter
<1>3. /\ hist' \in Dirs(Inodes, Lists) /\ hist'.file = hist.file /\ hist'.tmp = hist.tmp
      /\ hist.data[i] = {} => hist'.data[i] = {writer[w].entries}
      /\ \A j \in Inodes : j # i => hist'.data[j] = hist.data[j]
  BY <1>1, <1>2, IndexWritten DEF ListInv, ListType
<1>4. WriterGoes(w, "rename") /\ writer'[w].entries = writer[w].entries /\ writer'[w].inode = i
  BY <1>1, StepGoes DEF ListInv
<1>5. ListType'
  BY <1>1, <1>3, <1>4 DEF ListInv, ListType, WriterGoes
<1>6. JobInv' /\ HolderInv'
  BY <1>2, <1>4 DEF ListInv, JobInv, HolderInv, Writing, WriterGoes
<1>7. SoleInv'
  <2> SUFFICES ASSUME ~overlapped PROVE SoleInv'
    BY <1>1 DEF SoleInv
  <2>1. i = hist.tmp /\ hist.tmp # NoInode /\ hist.tmp # hist.file /\ hist.data[i] = {}
    BY <1>1, <1>2, SoleFacts
  <2>2. hist.file # NoInode => hist'.data[hist.file] = hist.data[hist.file]
    BY <1>3, <2>1 DEF ListInv, ListType, Dirs
  <2>3. Decodes(hist)' /\ Entries' = Entries
    BY <1>2, <1>3, <2>2, SameIndex, SoleFacts
  <2>4. Indexed(writer[w].entries, Report(writer[w].job, writer[w].entries))'
    <3>1. Indexed(writer[w].entries, Report(writer[w].job, writer[w].entries))
      BY <1>2, SoleFacts
    <3> QED
      BY <1>1, <1>4, <3>1 DEF Indexed, Report, Listing, WriterGoes
  <2>5. Indexed(Entries', reported')
    BY <1>1, <1>2, <2>3, SoleFacts
  <2>6. \A v \in Writers : v # w => writer'[v] = writer[v] /\ ~Writing(v)
    BY <1>2, <1>4, SoleFacts DEF WriterGoes
  <2>7. writer'[w].at = "rename"
    BY <1>4 DEF WriterGoes
  <2> QED
    BY <1>3, <1>4, <2>1, <2>3, <2>4, <2>5, <2>6, <2>7, SoleWriter
<1> QED
  BY <1>5, <1>6, <1>7 DEF ListInv

LEMMA RenameKeeps ==
    ASSUME ListInv, NEW w \in Writers, Rename(w)
    PROVE  ListInv'
<1>1. writer[w].at = "rename" /\ UNCHANGED overlapped
  BY DEF Rename
<1>2. CASE UNCHANGED <<hist, reported>> /\ writer' = [writer EXCEPT ![w].at = "failed", ![w].inode = NoInode]
  <2>1. WriterGoes(w, "failed") /\ writer'[w].inode = NoInode
    BY <1>2, InodeGoes DEF ListInv
  <2> QED
    BY <1>1, <1>2, <2>1, QuitKeepsList DEF WriterGoes
<1>3. CASE /\ writer' = [writer EXCEPT ![w].at = "done", ![w].inode = NoInode]
           /\ hist' = Renamed(hist) /\ reported' = Report(writer[w].job, writer[w].entries)
  <2>1. WriterGoes(w, "done") /\ writer'[w].inode = NoInode
    BY <1>3, InodeGoes DEF ListInv
  <2>2. Writing(w) /\ writer[w].job \in Jobs
    BY <1>1 DEF ListInv, JobInv, Writing
  <2>3. hist' \in Dirs(Inodes, Lists) /\ hist'.file = hist.tmp /\ hist'.tmp = NoInode /\ hist'.data = hist.data
    BY <1>3, IndexRenamed DEF ListInv, ListType
  <2>4. ListType'
    <3>1. reported' \in [Runs -> RunStates \cup {Unlisted}]
      BY <1>3, <2>2, ReportType DEF ListInv, ListType
    <3> QED
      BY <1>1, <2>1, <2>3, <3>1 DEF ListInv, ListType, WriterGoes
  <2>5. JobInv' /\ HolderInv'
    BY <2>1 DEF ListInv, JobInv, HolderInv, Writing, WriterGoes
  <2>6. SoleInv'
    <3> SUFFICES ASSUME ~overlapped PROVE SoleInv'
      BY <1>1 DEF SoleInv
    <3>1. hist.tmp # NoInode /\ hist.data[hist.tmp] = {writer[w].entries}
      BY <1>1, <2>2, SoleFacts
    <3>2. Decodes(hist)' /\ Entries' = writer[w].entries
      BY <2>3, <3>1 DEF Decodes, Entries, ValueOf
    <3>3. Indexed(Entries', reported')
      BY <1>3, <2>2, <3>2, SoleFacts
    <3>4. \A v \in Writers : v # w => writer'[v] = writer[v] /\ ~Writing(v)
      BY <2>1, <2>2, SoleFacts DEF WriterGoes
    <3>5. writer'[w].at = "done" /\ ~Writing(w)'
      BY <2>1 DEF WriterGoes, Writing
    <3> QED
      BY <2>3, <3>2, <3>3, <3>4, <3>5, SoleWriter
  <2> QED
    BY <2>4, <2>5, <2>6 DEF ListInv
<1> QED
  BY <1>1, <1>2, <1>3 DEF Rename, Report

LEMMA WriterKeepsList ==
    ASSUME ListInv, NEW w \in Writers, WriterStep(w)
    PROVE  ListInv'
<1>1. CASE WriteFails(w)
  <2>1. WriterGoes(w, "failed") /\ writer'[w].inode = NoInode
    BY <1>1, InodeGoes DEF ListInv, WriteFails
  <2> QED
    BY <1>1, <2>1, QuitKeepsList DEF WriterGoes, WriteFails
<1> QED
  BY <1>1, ListKeeps, OpenKeeps, WriteKeeps, RenameKeeps DEF WriterStep
-----------------------------------------------------------------------------
(* The steps of runs and handlers *)

LEMMA SameListKeeps ==
    ASSUME ListInv, UNCHANGED historyVars
    PROVE  ListInv'
BY QuitKeepsList DEF historyVars, ListInv, ListType

\* Someone starts to write.
LEMMA BeganKeepsList ==
    ASSUME ListInv, NEW w \in Writers, NEW job \in Jobs, writer' = [writer EXCEPT ![w] = Began(job)],
           UNCHANGED <<hist, overlapped, reported>>
    PROVE  ListInv'
<1>1. Began(job) \in ListWriter /\ Began(job).at = "list" /\ Began(job).inode = NoInode /\ Began(job).job = job
  <2>1. <<>> \in Lists
    BY DEF Lists
  <2> QED
    BY <2>1 DEF Began, Idle, ListWriter
<1>2. /\ writer' \in [Writers -> ListWriter] /\ writer'[w] = Began(job)
      /\ \A v \in Writers : v # w => writer'[v] = writer[v]
  BY <1>1, WriterTo DEF ListInv
<1> QED
  BY <1>1, <1>2, QuitKeepsList

LEMMA StoppedIs ==
    ASSUME ListInv, NEW w \in Writers
    PROVE  /\ Stopped(w) \in ListWriter
           /\ \/ Stopped(w) = writer[w]
              \/ Stopped(w).at = "killed" /\ Stopped(w).inode = NoInode
<1>1. writer[w] \in ListWriter
  BY DEF ListInv, ListType
<1>2. CASE writer[w].at = "list" \/ Writing(w)
  BY <1>1, <1>2 DEF Stopped, ListWriter
<1>3. CASE ~(writer[w].at = "list" \/ Writing(w))
  BY <1>1, <1>3 DEF Stopped
<1> QED
  BY <1>2, <1>3

LEMMA RunKeepsList ==
    ASSUME ListInv, NEW r \in Runs, RunStep(r) \/ RunKilled(r)
    PROVE  ListInv'
<1>1. r \in Writers
  BY HistoryAssumption
<1>2. ASSUME NEW state \in RunStates, NEW next, NEW live, Persist(r, state, next, live),
             UNCHANGED <<hist, overlapped, reported>>
      PROVE  ListInv'
  <2>1. [op |-> "upsert", run |-> r, state |-> state] \in Jobs
    BY DEF Jobs, Upserts
  <2> QED
    BY <1>1, <1>2, <2>1, BeganKeepsList DEF Persist
<1>3. CASE Prepare(r) \/ Start(r) \/ End(r)
  BY <1>2, <1>3 DEF Prepare, Start, End, RunStates
<1>4. CASE BeginLine(r) \/ EndLine(r) \/ HistoryEnds(r)
  <2>1. UNCHANGED historyVars
    BY <1>4 DEF BeginLine, EndLine, HistoryEnds
  <2> QED
    BY <2>1, SameListKeeps
<1>5. CASE RunKilled(r)
  <2>1. writer' = [writer EXCEPT ![r] = Stopped(r)] /\ UNCHANGED <<hist, overlapped, reported>>
    BY <1>5 DEF RunKilled
  <2>2. /\ writer' \in [Writers -> ListWriter] /\ writer'[r] = Stopped(r)
        /\ \A v \in Writers : v # r => writer'[v] = writer[v]
    BY <1>1, <2>1, StoppedIs, WriterTo DEF ListInv
  <2> QED
    BY <1>1, <2>1, <2>2, StoppedIs, QuitKeepsList
<1> QED
  BY <1>3, <1>4, <1>5 DEF RunStep

LEMMA StreamsKeepList ==
    ASSUME ListInv, NEW s \in Streams, StreamStep(s) \/ \E r \in Runs, follow \in BOOLEAN : Request(s, r, follow)
    PROVE  ListInv'
<1>1. UNCHANGED historyVars
  BY Zenon DEF StreamStep, Refresh, Delta, Check, Leave, Request
<1> QED
  BY <1>1, SameListKeeps

LEMMA ActsKeepList ==
    ASSUME ListInv, AimInv, NEW h \in Handlers, Rollback(h) \/ Commit(h)
    PROVE  ListInv'
<1>1. /\ handler[h].op = "action" /\ handler[h].at = "work" /\ UNCHANGED <<hist, overlapped, reported>>
      /\ \E state \in {"rolled_back", "committed"} : \E new : Records(h, state, new)
  <2>1. CASE Rollback(h)
    <3>1. \E new : Records(h, "rolled_back", new)
      BY <2>1, Zenon DEF Rollback
    <3> QED
      BY <2>1, <3>1 DEF Rollback, At
  <2>2. CASE Commit(h)
    <3>1. \E new : Records(h, "committed", new)
      BY <2>2, Zenon DEF Commit
    <3> QED
      BY <2>2, <3>1 DEF Commit, At
  <2> QED
    BY <2>1, <2>2
<1>2. PICK state \in {"rolled_back", "committed"} : \E new : Records(h, state, new)
  BY <1>1
<1>3. [op |-> "upsert", run |-> handler[h].run, state |-> state] \in Jobs
  BY <1>1 DEF AimInv, Jobs, Upserts, RunStates
<1> QED
  BY <1>1, <1>2, <1>3, BeganKeepsList, SupervisorAssumption DEF Records

LEMMA PruneKeepsList ==
    ASSUME ListInv, NEW h \in Handlers, Prune(h)
    PROVE  ListInv'
<1>1. PICK keep \in Keeps : writer' = [writer EXCEPT ![h] = Began([op |-> "prune", keep |-> keep])]
  BY DEF Prune
<1>2. [op |-> "prune", keep |-> keep] \in Jobs
  BY HistoryAssumption DEF Jobs, Prunes
<1>3. UNCHANGED <<hist, overlapped, reported>>
  BY DEF Prune
<1> QED
  BY <1>1, <1>2, <1>3, BeganKeepsList, SupervisorAssumption

LEMMA HandlerKeepsList ==
    ASSUME ListInv, AimInv, NEW h \in Handlers, HandlerStep(h) \/ Broker(h)
    PROVE  ListInv'
<1>1. CASE Issue(h) \/ Consume(h) \/ Lend(h) \/ Lookup(h) \/ Status(h) \/ ActionRefused(h) \/ HistoryWritten(h)
  BY <1>1, Zenon, SameListKeeps DEF Issue, Consume, Lend, Lookup, Status, ActionRefused, HistoryWritten
<1>2. CASE Mutate(h) \/ Replace(h) \/ Publish(h) \/ Audit(h) \/ Broker(h)
  BY <1>2, Zenon, SameListKeeps DEF Mutate, Replace, Publish, Audit, Broker, OpenLease, Revoke, Expire
<1> QED
  BY <1>1, <1>2, HandlerCases, ActsKeepList, PruneKeepsList

LEMMA KilledKeepsList ==
    ASSUME ListInv, Killed
    PROVE  ListInv'
<1>1. /\ writer' = [w \in Writers |-> IF w \in Handlers THEN Stopped(w) ELSE writer[w]]
      /\ UNCHANGED <<hist, overlapped, reported>>
  BY DEF Killed
<1>2. writer' \in [Writers -> ListWriter]
  BY <1>1, StoppedIs DEF ListInv, ListType
<1> QED
  BY <1>1, <1>2, StoppedIs, QuitKeepsList

LEMMA ListKept ==
    ASSUME ListInv, AimInv, [Next]_vars
    PROVE  ListInv'
<1>1. CASE Others
  BY <1>1, WriterKeepsList, RunKeepsList, StreamsKeepList DEF Others
<1>2. CASE UNCHANGED vars
  <2>1. UNCHANGED historyVars
    BY <1>2 DEF vars
  <2> QED
    BY <2>1, SameListKeeps
<1>3. CASE Step
  <2>1. CASE \E h \in Handlers : HandlerStep(h) \/ OpenLease(h) \/ Revoke(h) \/ Expire(h)
    BY <2>1, HandlerKeepsList DEF Broker
  <2> QED
    BY <1>1, <1>3, <2>1, KilledKeepsList, Zenon DEF Step, Others
<1> QED
  BY <1>2, <1>3, Zenon DEF Next
\* An action is looked up for a run that there is, and keeps to it.
LEMMA AimKept ==
    ASSUME BaseInv, CatalogInv, AimInv, [Next]_vars
    PROVE  AimInv'
<1>1. ASSUME NEW h \in Handlers, HandlerStep(h)
      PROVE  AimInv'
  <2>1. OnlyMoves(h)
    BY <1>1, HandlerCases, IssueFacts, ConsumeFacts, LendFacts, LookupFacts, StatusFacts, ActsFacts,
       RefusedFacts, PruneFacts, WrittenFacts, MutateFacts, ReplaceFacts, PublishFacts, AuditFacts DEF Quiet
  <2>2. CASE Lookup(h)
    BY <2>2, <2>1, LookupFacts DEF AimInv, OnlyMoves, Quiet, Carries
  <2>3. CASE Consume(h)
    BY <2>3, <2>1, ConsumeFacts DEF AimInv, OnlyMoves
  <2>4. CASE ~(Lookup(h) \/ Consume(h))
    <3>1. handler'[h].at \notin {"lookup", "work"}
      BY <1>1, <2>4, HandlerCases, IssueFacts, LendFacts, StatusFacts, ActsFacts, RefusedFacts, PruneFacts,
         WrittenFacts, MutateFacts, ReplaceFacts, PublishFacts, AuditFacts
    <3> QED
      BY <2>1, <3>1 DEF AimInv, OnlyMoves
  <2> QED
    BY <2>2, <2>3, <2>4
<1>2. CASE handler' = handler
  BY <1>2 DEF AimInv
<1>3. CASE Killed
  BY <1>3, KilledFacts DEF AimInv, Carries
<1> QED
  BY <1>1, <1>2, <1>3, NextCases, BrokerFacts, OthersFacts DEF served

-----------------------------------------------------------------------------
(* The index at the beginning *)

\* The entries of the runs that have been there before, in some order.
LEMMA InitialEntriesAre ==
    ASSUME NEW w \in Workloads
    PROVE  /\ Starts(w) \in [Runs -> RunStates \cup {Unlisted}]
           /\ InitialEntries(w) \in Lists /\ Indexed(InitialEntries(w), Starts(w))
<1>1. Starts(w) \in [Runs -> RunStates \cup {Unlisted}]
  <2>1. ASSUME NEW r \in Runs
        PROVE  StartState[w.runs[r]] \in RunStates \cup {Unlisted}
    <3>1. w.runs[r] \in {"none", "new", "live", "review"}
      BY SupervisorAssumption
    <3> QED
      BY <3>1 DEF StartState, RunStates
  <2> QED
    BY <2>1 DEF Starts
<1> DEFINE told == Starts(w)
           present == InHistory(w)
           entry == [r \in present |-> [run |-> r, state |-> told[r]]]
           listed == {[run |-> r, state |-> told[r]] : r \in present}
           n == Cardinality(listed)
           All(entries) == \A e \in listed : \E i \in DOMAIN entries : entries[i] = e
           result == CHOOSE entries \in [1..n -> listed] : All(entries)
<1>2. IsFiniteSet(present) /\ present \subseteq Runs /\ \A r \in Runs : told[r] # Unlisted <=> r \in present
  <2>1. present \subseteq Runs /\ \A r \in Runs : told[r] # Unlisted <=> r \in present
    BY DEF InHistory
  <2>2. present \in SUBSET Writers /\ IsFiniteSet(Writers)
    BY <2>1, HistoryAssumption
  <2> QED
    BY <2>1, <2>2, FS_Subset
<1>3. InitialEntries(w) = result
  BY DEF InitialEntries
<1> HIDE DEF told, present
<1>4. entry \in Surjection(present, listed)
  BY DEF Surjection
<1>5. listed \subseteq Entry /\ \A d, e \in listed : d.run = e.run => d = e
  BY <1>1, <1>2 DEF Entry, told
<1>6. \A e \in listed : e.run \in present /\ e.state = told[e.run]
  OBVIOUS
<1>7. \A r \in present : [run |-> r, state |-> told[r]] \in listed
  OBVIOUS
<1> HIDE DEF entry, listed
<1>8. IsFiniteSet(listed)
  BY <1>2, <1>4, FS_Surjection
<1> HIDE DEF n
<1>9. n \in Nat /\ \E f : f \in Bijection(1..n, listed)
  BY <1>8, FS_CardinalityType DEF n, ExistsBijection
<1>10. \E f \in [1..n -> listed] : All(f)
  BY <1>9 DEF Bijection, Surjection
<1>11. result \in [1..n -> listed] /\ All(result)
  BY <1>10, Zenon
<1> HIDE DEF result
<1>12. \A i, j \in 1..n : result[i] = result[j] => i = j
  <2>1. result \in Surjection(1..n, listed)
    BY <1>11 DEF Surjection
  <2>2. IsFiniteSet(1..n) /\ Cardinality(1..n) = n
    <3>1. 1 \in Int /\ n \in Int
      BY <1>9
    <3>2. /\ IsFiniteSet(1..n)
          /\ Cardinality(1..n) = IF 1 > n THEN 0 ELSE n-1+1
      BY <3>1, FS_Interval
    <3> QED
      BY <1>9, <3>2
  <2>3. result \in Injection(1..n, listed)
    BY <2>1, <2>2, FS_SurjSameCardinalityImpliesInj DEF n
  <2> QED
    BY <1>11, <2>3 DEF Injection, IsInjective
<1>13. result \in Lists
  <2>1. result \in Seq(Entry) /\ DOMAIN result = 1..n
    BY <1>5, <1>9, <1>11
  <2> QED
    BY <1>5, <1>11, <1>12, <2>1 DEF Lists
<1>14. Indexed(result, told)
  <2>1. \A i \in DOMAIN result : result[i].state = told[result[i].run]
    BY <1>6, <1>11
  <2>2. \A r \in Runs : told[r] # Unlisted => \E i \in DOMAIN result : result[i].run = r
    <3>1. ASSUME NEW r \in Runs, told[r] # Unlisted PROVE \E i \in DOMAIN result : result[i].run = r
      <4>1. PICK i \in DOMAIN result : result[i] = [run |-> r, state |-> told[r]]
        BY <1>2, <1>7, <1>11, <3>1
      <4> QED
        BY <4>1
    <3> QED
      BY <3>1
  <2> QED
    BY <2>1, <2>2 DEF Indexed
<1> QED
  BY <1>1, <1>3, <1>13, <1>14 DEF told

LEMMA InitList ==
    ASSUME Init
    PROVE  ListInv /\ AimInv
<1>1. PICK w \in Workloads :
        /\ hist = IF InHistory(w) = {} THEN NoFile(Inodes)
                  ELSE Holding(Inodes, CHOOSE i \in Inodes : TRUE, InitialEntries(w))
        /\ reported = Starts(w)
        /\ writer = [x \in Writers |-> Idle] /\ overlapped = FALSE
  BY DEF Init
<1>2. Idle \in ListWriter /\ Idle.at = "idle" /\ Idle.inode = NoInode
  <2>1. <<>> \in Lists
    BY DEF Lists
  <2> QED
    BY <2>1 DEF Idle, ListWriter
<1>3. /\ hist \in Dirs(Inodes, Lists) /\ hist.tmp = NoInode /\ Decodes(hist)
      /\ Indexed(Entries, reported)
  <2>1. CASE InHistory(w) = {}
    <3>1. hist = NoFile(Inodes)
      BY <1>1, <2>1
    <3>2. hist \in Dirs(Inodes, Lists) /\ hist.tmp = NoInode /\ hist.file = NoInode
      BY <3>1 DEF NoFile, Dirs
    <3>3. Entries = <<>> /\ Decodes(hist)
      BY <3>2 DEF Entries, ValueOf, Decodes
    <3>4. \A r \in Runs : reported[r] = Unlisted
      BY <1>1, <2>1 DEF InHistory
    <3> QED
      BY <3>2, <3>3, <3>4 DEF Indexed
  <2>2. CASE InHistory(w) # {}
    <3> DEFINE i == CHOOSE x \in Inodes : TRUE
               value == InitialEntries(w)
               data == [[x \in Inodes |-> {}] EXCEPT ![i] = {value}]
    <3>1. i \in Inodes
      <4>1. Inodes # {}
        <5>1. Cardinality({}) = 0 /\ Cardinality(Writers) \in Nat
          BY FS_EmptySet, FS_CardinalityType, HistoryAssumption
        <5> QED
          BY <5>1, HistoryAssumption
      <4> QED
        BY <4>1
    <3>2. value \in Lists /\ Indexed(value, reported)
      BY <1>1, InitialEntriesAre
    <3>3. hist = Holding(Inodes, i, value)
      BY <1>1, <2>2
    <3> HIDE DEF i, value
    <3>4. data \in [Inodes -> SUBSET Lists] /\ data[i] = {value}
      BY <3>1, <3>2
    <3>5. /\ hist.file = i /\ hist.tmp = NoInode /\ hist.data = data
          /\ hist = [file |-> i, tmp |-> NoInode, data |-> data]
      BY <3>3 DEF Holding, NoFile
    <3> HIDE DEF data
    <3>6. hist \in Dirs(Inodes, Lists)
      BY <3>1, <3>4, <3>5 DEF Dirs
    <3>7. i # NoInode
      BY <3>1, HistoryAssumption
    <3>8. Decodes(hist) /\ Entries = value
      BY <3>4, <3>5, <3>7 DEF Decodes, Entries, ValueOf
    <3> QED
      BY <3>2, <3>5, <3>6, <3>8
  <2> QED
    BY <2>1, <2>2
<1>4. ListType
  BY <1>1, <1>2, <1>3, InitialEntriesAre DEF ListType
<1>5. JobInv /\ HolderInv /\ SoleInv
  BY <1>1, <1>2, <1>3 DEF JobInv, HolderInv, SoleInv, Writing
<1>6. AimInv
  BY InitBase DEF AimInv
<1> QED
  BY <1>4, <1>5, <1>6 DEF ListInv

-----------------------------------------------------------------------------
(* Lines in order *)

\* A non-empty set of lines has a last one.
LEMMA LastPlace ==
    ASSUME NEW n \in Nat, NEW S \in SUBSET (0..n), S # {}
    PROVE  Max(S) \in S /\ \A i \in S : i <= Max(S)
<1> DEFINE R == {ss \in Nat \X Nat : ss[1] < ss[2]}
           T == {n - i : i \in S}
<1>1. IsWellFoundedOn(R, Nat)
  BY NatLessThanWellFounded DEF OpToRel
<1>2. T \subseteq Nat /\ T # {}
  <2>1. \A i \in S : n - i \in Nat
    OBVIOUS
  <2> QED
    BY <2>1, Zenon
<1> HIDE DEF R, T
<1>3. PICK x \in T : \A y \in T : ~ (<<y, x>> \in R)
  BY <1>1, <1>2, WFMin
<1>4. \A y \in T : x <= y
  <2> TAKE y \in T
  <2>1. ~(<<y, x>> \in R) /\ x \in Nat /\ y \in Nat
    BY <1>2, <1>3
  <2> QED
    BY <2>1 DEF R
<1>5. PICK m \in S : x = n - m
  BY <1>3 DEF T
<1>6. \A i \in S : m >= i
  <2> TAKE i \in S
  <2>1. n - i \in T
    BY DEF T
  <2> QED
    BY <1>4, <1>5, <2>1
<1>7. Max(S) \in S /\ \A i \in S : Max(S) >= i
  BY <1>6, Zenon DEF Max
<1> QED
  BY <1>7

LEMMA ListsAppend ==
    ASSUME NEW q \in Nat, NEW m \in Nat, NEW S \in SUBSET (1..m), NEW seq \in [1..q -> S], Enumerates(seq, S)
    PROVE  \E longer \in [1..(q + 1) -> S \cup {m + 1}] : Enumerates(longer, S \cup {m + 1})
<1> DEFINE longer == [i \in 1..(q + 1) |-> IF i <= q THEN seq[i] ELSE m + 1]
<1>1. /\ longer \in [1..(q + 1) -> S \cup {m + 1}] /\ DOMAIN longer = 1..(q + 1)
      /\ \A i \in 1..q : longer[i] = seq[i]
      /\ longer[q + 1] = m + 1
  OBVIOUS
<1>2. \A i \in S : \E j \in 1..q : seq[j] = i
  BY DEF Enumerates, Range
<1> HIDE DEF longer
<1>3. Range(longer) = S \cup {m + 1}
  <2>1. Range(longer) \subseteq S \cup {m + 1}
    BY <1>1 DEF Range
  <2>2. ASSUME NEW i \in S \cup {m + 1} PROVE \E j \in 1..(q + 1) : longer[j] = i
    <3>1. CASE i \in S
      <4>1. PICK j \in 1..q : seq[j] = i
        BY <1>2, <3>1
      <4> QED
        BY <1>1, <4>1
    <3>2. CASE i = m + 1
      BY <1>1, <3>2
    <3> QED
      BY <3>1, <3>2
  <2> QED
    BY <1>1, <2>1, <2>2 DEF Range
<1>4. ASSUME NEW i \in 1..(q + 1), NEW j \in 1..(q + 1), i < j PROVE longer[i] < longer[j]
  <2>1. i \in 1..q
    BY <1>4
  <2>4. longer[i] = seq[i] /\ seq[i] \in 1..m
    BY <1>1, <2>1
  <2>2. CASE j \in 1..q
    BY <1>1, <1>4, <2>1, <2>2 DEF Enumerates
  <2>3. CASE j = q + 1
    BY <1>1, <2>3, <2>4
  <2> QED
    BY <2>2, <2>3
<1> QED
  BY <1>1, <1>3, <1>4 DEF Enumerates

Listable(n) == \A S \in SUBSET (1..n) : \E q \in Nat : \E seq \in [1..q -> S] : Enumerates(seq, S)

LEMMA ListableNext ==
    ASSUME NEW m \in Nat, Listable(m)
    PROVE  Listable(m + 1)
<1> SUFFICES ASSUME NEW S \in SUBSET (1..(m + 1))
             PROVE  \E q \in Nat : \E seq \in [1..q -> S] : Enumerates(seq, S)
  BY DEF Listable
<1> DEFINE T == S \ {m + 1}
<1>1. T \in SUBSET (1..m)
  OBVIOUS
<1> HIDE DEF T
<1>2. PICK q \in Nat : \E seq \in [1..q -> T] : Enumerates(seq, T)
  BY <1>1 DEF Listable
<1>3. CASE m + 1 \in S
  <2>1. S = T \cup {m + 1}
    BY <1>3 DEF T
  <2>2. \E seq \in [1..(q + 1) -> S] : Enumerates(seq, S)
    BY <1>1, <1>2, <2>1, ListsAppend
  <2> QED
    BY <2>2
<1>4. CASE m + 1 \notin S
  <2>1. S = T
    BY <1>4 DEF T
  <2> QED
    BY <1>2, <2>1
<1> QED
  BY <1>3, <1>4

LEMMA AllListable ==
    ASSUME NEW n \in Nat
    PROVE  Listable(n)
<1> DEFINE R == {ss \in Nat \X Nat : ss[1] < ss[2]}
           T == {k \in Nat : ~Listable(k)}
<1> SUFFICES ASSUME T # {} PROVE FALSE
  OBVIOUS
<1>1. IsWellFoundedOn(R, Nat)
  BY NatLessThanWellFounded DEF OpToRel
<1>2. T \subseteq Nat
  OBVIOUS
<1> HIDE DEF R
<1>3. PICK x \in T : \A y \in T : ~ (<<y, x>> \in R)
  BY <1>1, <1>2, WFMin
<1>4. x # 0
  <2>1. Listable(0)
    <3> SUFFICES ASSUME NEW S \in SUBSET (1..0)
                 PROVE  \E q \in Nat : \E seq \in [1..q -> S] : Enumerates(seq, S)
      BY DEF Listable
    <3>1. S = {} /\ 0 \in Nat
      OBVIOUS
    <3>2. [i \in 1..0 |-> i] \in [1..0 -> S] /\ Enumerates([i \in 1..0 |-> i], S)
      BY <3>1 DEF Enumerates, Range
    <3> QED
      BY <3>2
  <2> QED
    BY <2>1
<1>5. x - 1 \in Nat /\ x = (x - 1) + 1
  BY <1>4
<1>6. Listable(x - 1)
  <2>1. <<x - 1, x>> \in R
    BY <1>5 DEF R
  <2> QED
    BY <1>3, <1>5, <2>1
<1> HIDE DEF Listable
<1>7. Listable(x)
  BY <1>5, <1>6, ListableNext
<1> QED
  BY <1>7

LEMMA ListSize ==
    ASSUME NEW n \in Nat, NEW S \in SUBSET (1..n), NEW q \in Nat, NEW seq \in [1..q -> S], Enumerates(seq, S)
    PROVE  q = Cardinality(S)
<1>1. seq \in Surjection(1..q, S)
  BY DEF Enumerates, Range, Surjection
<1>2. \A i, j \in 1..q : seq[i] = seq[j] => i = j
  <2> TAKE i, j \in 1..q
  <2>1. seq[i] \in 1..n /\ seq[j] \in 1..n
    OBVIOUS
  <2>2. i < j => seq[i] < seq[j]
    BY DEF Enumerates
  <2>3. j < i => seq[j] < seq[i]
    BY DEF Enumerates
  <2> QED
    BY <2>1, <2>2, <2>3
<1>3. seq \in Bijection(1..q, S)
  BY <1>1, <1>2 DEF Bijection, Injection, IsInjective
<1>4. ExistsBijection(1..q, S)
  BY <1>3 DEF ExistsBijection
<1> QED
  BY <1>4, FS_CountingElements

\* Any lines can be listed in order.
LEMMA InOrderIs ==
    ASSUME NEW n \in Nat, NEW S \in SUBSET (1..n)
    PROVE  Enumerates(InOrder(S), S) /\ InOrder(S) \in Seq(Nat)
<1> HIDE DEF Listable
<1>1. PICK q \in Nat : \E seq \in [1..q -> S] : Enumerates(seq, S)
  BY AllListable DEF Listable
<1>2. q = Cardinality(S)
  BY <1>1, ListSize
<1>3. InOrder(S) \in [1..q -> S] /\ Enumerates(InOrder(S), S)
  BY <1>1, <1>2, Zenon DEF InOrder
<1> DEFINE seq == InOrder(S)
<1>4. seq \in [1..q -> S] /\ S \subseteq Nat
  BY <1>3
<1> HIDE DEF seq
<1>5. seq \in [1..q -> Nat]
  BY <1>4
<1>6. seq \in Seq(Nat)
  BY <1>5
<1> QED
  BY <1>3, <1>6 DEF seq

LEMMA ListsConcat ==
    ASSUME NEW A \in SUBSET Nat, NEW B \in SUBSET Nat, NEW a \in Seq(Nat), NEW b \in Seq(Nat),
           Enumerates(a, A), Enumerates(b, B), \A i \in A, j \in B : i < j
    PROVE  Enumerates(a \o b, A \cup B) /\ a \o b \in Seq(Nat)
<1> DEFINE c == a \o b
<1>1. /\ c \in Seq(Nat) /\ DOMAIN c = 1..(Len(a) + Len(b)) /\ Len(a) \in Nat /\ Len(b) \in Nat
      /\ DOMAIN a = 1..Len(a) /\ DOMAIN b = 1..Len(b)
      /\ \A i \in 1..(Len(a) + Len(b)) : c[i] = IF i <= Len(a) THEN a[i] ELSE b[i - Len(a)]
  OBVIOUS
<1> HIDE DEF c
<1>2. /\ \A i \in 1..Len(a) : a[i] \in A
      /\ \A i \in 1..Len(b) : b[i] \in B
      /\ \A x \in A : \E i \in 1..Len(a) : a[i] = x
      /\ \A x \in B : \E i \in 1..Len(b) : b[i] = x
  BY <1>1 DEF Enumerates, Range
<1>3. Range(c) = A \cup B
  <2>1. \A i \in DOMAIN c : c[i] \in A \cup B
    <3> TAKE i \in DOMAIN c
    <3>1. CASE i <= Len(a)
      BY <1>1, <1>2, <3>1
    <3>2. CASE ~(i <= Len(a))
      <4>1. i - Len(a) \in 1..Len(b) /\ c[i] = b[i - Len(a)]
        BY <1>1, <3>2
      <4> QED
        BY <1>2, <4>1
    <3> QED
      BY <3>1, <3>2
  <2>2. ASSUME NEW x \in A PROVE \E i \in DOMAIN c : c[i] = x
    <3>1. PICK i \in 1..Len(a) : a[i] = x
      BY <1>2
    <3>2. i \in DOMAIN c /\ c[i] = a[i]
      BY <1>1
    <3> QED
      BY <3>1, <3>2
  <2>3. ASSUME NEW x \in B PROVE \E i \in DOMAIN c : c[i] = x
    <3>1. PICK i \in 1..Len(b) : b[i] = x
      BY <1>2
    <3>2. i + Len(a) \in DOMAIN c /\ ~(i + Len(a) <= Len(a)) /\ (i + Len(a)) - Len(a) = i
      BY <1>1
    <3>3. c[i + Len(a)] = b[i]
      BY <1>1, <3>2
    <3> QED
      BY <3>1, <3>2, <3>3
  <2> QED
    BY <2>1, <2>2, <2>3 DEF Range
<1>4. ASSUME NEW i \in DOMAIN c, NEW j \in DOMAIN c, i < j PROVE c[i] < c[j]
  <2>1. CASE j <= Len(a)
    <3>1. i \in DOMAIN a /\ j \in DOMAIN a /\ c[i] = a[i] /\ c[j] = a[j]
      BY <1>1, <1>4, <2>1
    <3> QED
      BY <1>4, <3>1 DEF Enumerates
  <2>2. CASE i <= Len(a) /\ ~(j <= Len(a))
    <3>3. i \in Nat /\ i >= 1 /\ j \in Nat /\ j <= Len(a) + Len(b)
      BY <1>1
    <3>4. i \in 1..Len(a) /\ Len(a) \in Nat /\ Len(b) \in Nat
      BY <1>1, <2>2, <3>3
    <3>1. i \in 1..Len(a) /\ j - Len(a) \in 1..Len(b)
      BY <2>2, <3>3, <3>4
    <3>2. c[i] = a[i] /\ c[j] = b[j - Len(a)]
      BY <1>1, <2>2
    <3> QED
      BY <1>2, <3>1, <3>2
  <2>3. CASE ~(i <= Len(a))
    <3>1. i \in Nat /\ j \in Nat /\ ~(j <= Len(a))
      BY <1>1, <1>4, <2>3
    <3>2. i - Len(a) \in DOMAIN b /\ j - Len(a) \in DOMAIN b /\ i - Len(a) < j - Len(a)
      BY <1>1, <1>4, <2>3, <3>1
    <3>3. c[i] = b[i - Len(a)] /\ c[j] = b[j - Len(a)]
      BY <1>1, <2>3, <3>1
    <3> QED
      BY <3>2, <3>3 DEF Enumerates
  <2> QED
    BY <1>1, <2>1, <2>2, <2>3
<1> QED
  BY <1>1, <1>3, <1>4 DEF Enumerates, c

-----------------------------------------------------------------------------
(* The lines of a run *)

\* The lines in the order of their files.  A run that is not native starts a
\* file only after a whole line.
Ordered(lines, native) ==
    /\ lines \in Seq(Line)
    /\ \A i \in DOMAIN lines : lines[i].file >= 1
    /\ \A i, j \in DOMAIN lines : i < j => lines[i].file <= lines[j].file
    /\ IF native THEN \A i \in DOMAIN lines : lines[i].file = 1
       ELSE \A i \in DOMAIN lines : i < Len(lines) => lines[i].whole

\* What a record says of the lines was true when there were fewer of them.
Fits(rec, lines) ==
    /\ rec \in RecordType
    /\ rec.files \in 1..LastFile(lines) /\ rec.known \in 0..Len(lines)
    /\ rec.known # 0 => lines[rec.known].whole /\ lines[rec.known].file <= rec.files

\* Everything up to the line n is sent and no line behind it, and pos knows.
SentTo(sent, pos, lines, n) ==
    /\ n \in 0..Len(lines)
    /\ Enumerates(sent, ValidUpTo(lines, n))
    /\ n # 0 => lines[n].whole
    /\ \A i \in DOMAIN lines : lines[i].whole => (i <= n <=> i <= pos[lines[i].file])
    /\ \A f \in 1..(MaxLines + 1) : pos[f] # 0 =>
         pos[f] \in DOMAIN lines /\ lines[pos[f]].file = f /\ lines[pos[f]].whole

\* The files before this one are read to their end.
PassedBy(file, pos, lines) ==
    \A i \in DOMAIN lines : lines[i].whole /\ lines[i].file < file => i <= pos[lines[i].file]

LEMMA LinesAre ==
    ASSUME NEW lines, NEW native, Ordered(lines, native)
    PROVE  /\ Len(lines) \in Nat /\ DOMAIN lines = 1..Len(lines)
           /\ \A i \in 1..Len(lines) :
                /\ lines[i].file \in Nat /\ lines[i].file >= 1 /\ lines[i].whole \in BOOLEAN
                /\ lines[i].file <= LastFile(lines)
           /\ LastFile(lines) \in Nat /\ LastFile(lines) >= 1
           /\ lines = <<>> => LastFile(lines) = 1
           /\ lines # <<>> => Len(lines) >= 1 /\ LastFile(lines) = lines[Len(lines)].file
<1>1. lines \in Seq(Line)
  BY DEF Ordered
<1>2. Len(lines) \in Nat /\ DOMAIN lines = 1..Len(lines) /\ (lines # <<>> => Len(lines) >= 1)
  BY <1>1
<1>3. \A i \in 1..Len(lines) : lines[i].file \in Nat /\ lines[i].file >= 1 /\ lines[i].whole \in BOOLEAN
  <2> TAKE i \in 1..Len(lines)
  <2>1. lines[i] \in Line
    BY <1>1
  <2>2. lines[i].file \in Nat /\ lines[i].whole \in BOOLEAN
    BY <2>1 DEF Line
  <2> QED
    BY <1>2, <2>2 DEF Ordered
<1>4. CASE lines = <<>>
  BY <1>2, <1>3, <1>4 DEF LastFile
<1>5. CASE lines # <<>>
  <2>1. LastFile(lines) = lines[Len(lines)].file /\ Len(lines) \in 1..Len(lines)
    BY <1>2, <1>5 DEF LastFile
  <2>2. \A i \in 1..Len(lines) : lines[i].file <= lines[Len(lines)].file
    <3> TAKE i \in 1..Len(lines)
    <3>1. CASE i < Len(lines)
      BY <1>2, <2>1, <3>1 DEF Ordered
    <3>2. CASE i = Len(lines)
      BY <1>3, <2>1, <3>2
    <3>3. i \in Nat /\ i <= Len(lines) /\ Len(lines) \in Nat
      BY <1>2
    <3>4. i < Len(lines) \/ i = Len(lines)
      BY <3>3
    <3> QED
      BY <3>1, <3>2, <3>4
  <2> QED
    BY <1>2, <1>3, <1>5, <2>1, <2>2
<1> QED
  BY <1>4, <1>5

\* The last line becomes whole, or there are more of them.
Grows(lines, more) ==
    /\ Len(lines) <= Len(more)
    /\ \A i \in DOMAIN lines : /\ more[i].file = lines[i].file
                               /\ lines[i].whole => more[i].whole
                               /\ i < Len(lines) => more[i].whole = lines[i].whole
    /\ \A i \in DOMAIN more : i > Len(lines) => more[i].file >= LastFile(lines)

LEMMA LastGrows ==
    ASSUME NEW lines, NEW more, NEW native, Ordered(lines, native), Ordered(more, native), Grows(lines, more)
    PROVE  LastFile(lines) <= LastFile(more)
<1>1. CASE lines = <<>>
  BY <1>1, LinesAre
<1>2. CASE lines # <<>>
  <2>1. Len(lines) \in 1..Len(lines) /\ Len(lines) \in 1..Len(more)
    BY <1>2, LinesAre DEF Grows
  <2>2. more[Len(lines)].file = lines[Len(lines)].file /\ lines[Len(lines)].file = LastFile(lines)
    BY <1>2, <2>1, LinesAre DEF Grows
  <2> QED
    BY <2>1, <2>2, LinesAre
<1> QED
  BY <1>1, <1>2

LEMMA FitsGrows ==
    ASSUME NEW lines, NEW more, NEW native, Ordered(lines, native), Ordered(more, native), Grows(lines, more),
           NEW rec, Fits(rec, lines)
    PROVE  Fits(rec, more)
<1>1. /\ rec \in RecordType /\ rec.files \in 1..LastFile(lines) /\ rec.known \in 0..Len(lines)
      /\ rec.known # 0 => lines[rec.known].whole /\ lines[rec.known].file <= rec.files
  BY DEF Fits
<1>2. Len(lines) \in Nat /\ Len(more) \in Nat /\ LastFile(lines) \in Nat /\ LastFile(more) \in Nat
  BY LinesAre
<1>3. rec.files \in 1..LastFile(more) /\ rec.known \in 0..Len(more)
  BY <1>1, <1>2, LastGrows DEF Grows
<1>4. rec.known # 0 => more[rec.known].whole /\ more[rec.known].file <= rec.files
  <2> SUFFICES ASSUME rec.known # 0 PROVE more[rec.known].whole /\ more[rec.known].file <= rec.files
    OBVIOUS
  <2>1. rec.known \in DOMAIN lines
    BY <1>1, <1>2, LinesAre
  <2> QED
    BY <1>1, <2>1 DEF Grows
<1> QED
  BY <1>1, <1>3, <1>4 DEF Fits

\* A line that is whole only now is behind all those that pos knows.
LEMMA NewlyWhole ==
    ASSUME NEW lines, NEW more, NEW native, Ordered(lines, native), Ordered(more, native), Grows(lines, more),
           NEW i \in DOMAIN more, more[i].whole, ~(i \in DOMAIN lines /\ lines[i].whole)
    PROVE  /\ i >= Len(lines) /\ (i = Len(lines) => i \in DOMAIN lines /\ ~lines[i].whole)
           /\ more[i].file >= LastFile(lines)
<1>1. i \in Nat /\ i >= 1 /\ Len(lines) \in Nat /\ DOMAIN lines = 1..Len(lines)
  BY LinesAre
<1>2. CASE i > Len(lines)
  BY <1>1, <1>2 DEF Grows
<1>3. CASE i <= Len(lines)
  <2>1. i \in DOMAIN lines /\ i \in 1..Len(lines)
    BY <1>1, <1>3
  <2>2. ~(i < Len(lines))
    BY <2>1 DEF Grows
  <2>3. i = Len(lines)
    BY <1>1, <1>3, <2>2
  <2>4. lines # <<>>
    BY <1>1, <2>3
  <2>5. more[i].file = lines[i].file /\ lines[i].file = LastFile(lines)
    BY <2>1, <2>3, <2>4, LinesAre DEF Grows
  <2>6. more[i].file \in Nat
    BY LinesAre
  <2> QED
    BY <1>1, <2>1, <2>3, <2>5, <2>6
<1> QED
  BY <1>1, <1>2, <1>3

LEMMA PassedGrows ==
    ASSUME NEW lines, NEW more, NEW native, Ordered(lines, native), Ordered(more, native), Grows(lines, more),
           NEW pos, NEW file \in Nat, file <= LastFile(lines), PassedBy(file, pos, lines)
    PROVE  PassedBy(file, pos, more)
<1> SUFFICES ASSUME NEW i \in DOMAIN more, more[i].whole, more[i].file < file
             PROVE  i <= pos[more[i].file]
  BY DEF PassedBy
<1>1. LastFile(lines) \in Nat /\ more[i].file \in Nat
  BY LinesAre
<1>2. i \in DOMAIN lines /\ lines[i].whole
  BY <1>1, NewlyWhole
<1>3. more[i].file = lines[i].file
  BY <1>2 DEF Grows
<1> QED
  BY <1>2, <1>3 DEF PassedBy

LEMMA SentGrows ==
    ASSUME NEW lines, NEW more, NEW native, Ordered(lines, native), Ordered(more, native), Grows(lines, more),
           LastFile(more) <= MaxLines + 1,
           NEW sent, NEW pos \in [1..(MaxLines + 1) -> Nat], NEW n, SentTo(sent, pos, lines, n)
    PROVE  SentTo(sent, pos, more, n)
<1>1. /\ Len(lines) \in Nat /\ DOMAIN lines = 1..Len(lines) /\ MaxLines \in Nat
      /\ Len(more) \in Nat /\ DOMAIN more = 1..Len(more) /\ Len(lines) <= Len(more)
      /\ \A i \in DOMAIN more : more[i].file \in 1..(MaxLines + 1)
  <2>1. \A i \in DOMAIN more : more[i].file \in 1..(MaxLines + 1)
    <3> TAKE i \in DOMAIN more
    <3>1. more[i].file \in Nat /\ more[i].file >= 1 /\ more[i].file <= LastFile(more) /\ LastFile(more) \in Nat
      BY LinesAre
    <3> QED
      BY <3>1, StreamAssumption
  <2> QED
    BY <2>1, LinesAre, StreamAssumption DEF Grows
<1>2. /\ n \in 0..Len(lines) /\ n \in 0..Len(more) /\ n \in Nat /\ n <= Len(lines)
      /\ n # 0 => n \in DOMAIN lines /\ lines[n].whole
  BY <1>1 DEF SentTo
<1>3. n # 0 => more[n].whole
  BY <1>2 DEF Grows
<1>4. ValidUpTo(more, n) = ValidUpTo(lines, n)
  <2>1. ASSUME NEW i \in 1..n
        PROVE  Valid(more, i) <=> Valid(lines, i)
    <3>1. i \in DOMAIN lines /\ i \in DOMAIN more /\ i \in Nat /\ i >= 1 /\ i <= n /\ i <= Len(lines)
      BY <1>1, <1>2
    <3>2. more[i].whole <=> lines[i].whole
      <4>1. CASE i < Len(lines)
        BY <3>1, <4>1 DEF Grows
      <4>2. CASE i = Len(lines)
        <5>2. n \in Nat /\ n <= Len(lines) /\ Len(lines) \in Nat
          BY <1>1, <1>2
        <5>1. n = i
          BY <3>1, <4>2, <5>2
        <5> QED
          BY <1>2, <1>3, <3>1, <5>1
      <4>3. i < Len(lines) \/ i = Len(lines)
        <5>1. Len(lines) \in Nat
          BY <1>1
        <5> QED
          BY <3>1, <5>1
      <4> QED
        BY <4>1, <4>2, <4>3
    <3>3. Broken(more, i) <=> Broken(lines, i)
      <4>1. CASE i > 1
        <5>1. i - 1 \in DOMAIN lines /\ i - 1 < Len(lines)
          BY <1>1, <3>1, <4>1
        <5>2. more[i - 1].file = lines[i - 1].file /\ more[i - 1].whole = lines[i - 1].whole /\ more[i].file = lines[i].file
          BY <3>1, <5>1 DEF Grows
        <5> QED
          BY <5>2 DEF Broken
      <4>2. CASE ~(i > 1)
        BY <4>2 DEF Broken
      <4> QED
        BY <4>1, <4>2
    <3> QED
      BY <3>2, <3>3 DEF Valid
  <2> QED
    BY <2>1 DEF ValidUpTo
<1>5. ASSUME NEW i \in DOMAIN more, more[i].whole
      PROVE  i <= n <=> i <= pos[more[i].file]
  <2> DEFINE f == more[i].file
  <2>1. f \in 1..(MaxLines + 1) /\ pos[f] \in Nat /\ i \in Nat /\ i >= 1
    BY <1>1
  <2>2. CASE i \in DOMAIN lines /\ lines[i].whole
    <3>1. f = lines[i].file
      BY <2>2 DEF Grows
    <3> QED
      BY <2>2, <3>1 DEF SentTo
  <2>3. CASE ~(i \in DOMAIN lines /\ lines[i].whole)
    <3>1. i >= Len(lines) /\ (i = Len(lines) => i \in DOMAIN lines /\ ~lines[i].whole)
      BY <1>5, <2>3, NewlyWhole
    <3>2. ~(i <= n)
      BY <1>1, <1>2, <2>1, <3>1
    <3>3. pos[f] # 0 => pos[f] \in DOMAIN lines /\ lines[pos[f]].whole
      BY <2>1 DEF SentTo
    <3>4. ~(i <= pos[f])
      <4> HIDE DEF f
      <4> QED
      BY <1>1, <2>1, <3>1, <3>3
    <3> QED
      BY <3>2, <3>4
  <2> QED
    BY <2>2, <2>3
<1>6. ASSUME NEW f \in 1..(MaxLines + 1), pos[f] # 0
      PROVE  pos[f] \in DOMAIN more /\ more[pos[f]].file = f /\ more[pos[f]].whole
  <2>1. pos[f] \in DOMAIN lines /\ lines[pos[f]].file = f /\ lines[pos[f]].whole
    BY <1>6 DEF SentTo
  <2>2. pos[f] \in DOMAIN more
    BY <1>1, <2>1
  <2> QED
    BY <2>1, <2>2 DEF Grows
<1>7. Enumerates(sent, ValidUpTo(more, n))
  BY <1>4 DEF SentTo
<1> QED
  BY <1>2, <1>3, <1>5, <1>6, <1>7 DEF SentTo

-----------------------------------------------------------------------------
(* Reading a file *)

WholeIn(lines, file) == {i \in InFile(lines, file) : lines[i].whole}
FreshIn(lines, file, pos) == {i \in WholeIn(lines, file) : Valid(lines, i) /\ i > pos[file]}
EndOf(lines, file, pos) == IF WholeIn(lines, file) = {} THEN pos[file] ELSE Max(WholeIn(lines, file))
SentWith(lines, file, pos, sent) == sent \o InOrder(FreshIn(lines, file, pos))
PosWith(lines, file, pos) == [pos EXCEPT ![file] = EndOf(lines, file, pos)]

\* A file is read to its end.
LEMMA FileIsRead ==
    ASSUME NEW lines, NEW native, Ordered(lines, native),
           NEW sent \in Seq(Nat), NEW pos \in [1..(MaxLines + 1) -> Nat], NEW n, SentTo(sent, pos, lines, n),
           NEW file \in 1..(MaxLines + 1), PassedBy(file, pos, lines), LastFile(lines) <= MaxLines + 1
    PROVE  /\ SentWith(lines, file, pos, sent) \in Seq(Nat) /\ PosWith(lines, file, pos) \in [1..(MaxLines + 1) -> Nat]
           /\ PassedBy(file + 1, PosWith(lines, file, pos), lines)
           /\ \E m \in 0..Len(lines) : /\ SentTo(SentWith(lines, file, pos, sent), PosWith(lines, file, pos), lines, m)
                                       /\ m >= n /\ \A i \in WholeIn(lines, file) : i <= m
<1> DEFINE read == WholeIn(lines, file)
           fresh == FreshIn(lines, file, pos)
           end == EndOf(lines, file, pos)
           next == PosWith(lines, file, pos)
           more == SentWith(lines, file, pos, sent)
<1>0. next = [pos EXCEPT ![file] = end] /\ more = sent \o InOrder(fresh)
  BY DEF PosWith, SentWith
<1>1. /\ Len(lines) \in Nat /\ DOMAIN lines = 1..Len(lines) /\ MaxLines \in Nat
      /\ n \in 0..Len(lines) /\ n \in Nat /\ n <= Len(lines)
  BY LinesAre, StreamAssumption DEF SentTo
<1>2. ASSUME NEW i \in DOMAIN lines
      PROVE  /\ i \in Nat /\ i >= 1 /\ i <= Len(lines)
             /\ lines[i].file \in 1..(MaxLines + 1) /\ lines[i].file \in Nat
  <2>1. lines[i].file \in Nat /\ lines[i].file >= 1 /\ lines[i].file <= LastFile(lines) /\ LastFile(lines) \in Nat
    BY LinesAre
  <2>2. lines[i].file <= MaxLines + 1
    BY <1>1, <2>1
  <2> QED
    BY <1>1, <2>1, <2>2
<1>3. \A i : i \in read <=> i \in DOMAIN lines /\ lines[i].file = file /\ lines[i].whole
  BY DEF InFile, WholeIn
<1>4. file \in Nat /\ pos[file] \in Nat /\ (pos[file] # 0 => pos[file] \in read)
  BY <1>3 DEF SentTo
<1>5. /\ end \in Nat /\ end >= pos[file] /\ \A i \in read : i <= end
      /\ end # 0 => end \in read
  <2>1. CASE read = {}
    BY <1>4, <2>1 DEF EndOf
  <2>2. CASE read # {}
    <3>1. read \in SUBSET (0..Len(lines))
      BY <1>1, <1>3
    <3>2. end \in read /\ \A i \in read : i <= end
      BY <1>1, <2>2, <3>1, LastPlace DEF EndOf
    <3>3. end \in Nat
      BY <1>2, <1>3, <3>2
    <3> QED
      BY <1>4, <3>2, <3>3
  <2> QED
    BY <2>1, <2>2
<1>18. \A i : i \in fresh <=> i \in read /\ Valid(lines, i) /\ i > pos[file]
  BY DEF FreshIn
<1> HIDE DEF read, fresh, end, next, more
<1>6. /\ next \in [1..(MaxLines + 1) -> Nat] /\ next[file] = end
      /\ \A f \in 1..(MaxLines + 1) : f # file => next[f] = pos[f]
  BY <1>0, <1>5
<1>7. PassedBy(file + 1, next, lines)
  <2> SUFFICES ASSUME NEW i \in DOMAIN lines, lines[i].whole, lines[i].file < file + 1
               PROVE  i <= next[lines[i].file]
    BY DEF PassedBy
  <2>1. CASE lines[i].file = file
    BY <1>3, <1>5, <1>6, <2>1
  <2>2. CASE lines[i].file # file
    <3>1. lines[i].file < file
      BY <1>2, <1>4, <2>2
    <3>2. i <= pos[lines[i].file]
      BY <3>1 DEF PassedBy
    <3> QED
      BY <1>2, <1>6, <2>2, <3>2
  <2> QED
    BY <2>1, <2>2
\* The lines of the files before this one are sent, those behind it are not.
<1>8. ASSUME NEW i \in DOMAIN lines, lines[i].whole, ~(i <= n)
      PROVE  lines[i].file >= file /\ (lines[i].file = file => i > pos[file])
  <2>1. ~(i <= pos[lines[i].file])
    BY <1>8 DEF SentTo
  <2>2. ~(lines[i].file < file)
    BY <1>8, <2>1 DEF PassedBy
  <2>3. i \in Nat /\ lines[i].file \in Nat
    BY <1>2
  <2> QED
    BY <1>4, <2>1, <2>2, <2>3
<1>9. ASSUME NEW i \in read, i > pos[file]
      PROVE  ~(i <= n)
  <2>1. i \in DOMAIN lines /\ lines[i].file = file /\ lines[i].whole /\ i \in Nat
    BY <1>2, <1>3
  <2>2. ~(i <= pos[file])
    BY <1>4, <1>9, <2>1
  <2> QED
    BY <2>1, <2>2 DEF SentTo
<1> DEFINE m == IF end = pos[file] THEN n ELSE end
<1>10. /\ m \in 0..Len(lines) /\ m \in Nat /\ m >= n /\ (m # 0 => lines[m].whole)
       /\ \A i \in read : i <= m
  <2>1. CASE end = pos[file]
    <3>1. \A i \in read : i <= n
      <4> TAKE i \in read
      <4>1. i <= pos[file] /\ i \in DOMAIN lines /\ lines[i].file = file /\ lines[i].whole
        BY <1>3, <1>5, <2>1
      <4> QED
        BY <4>1 DEF SentTo
    <3>2. m = n
      BY <2>1
    <3>3. n # 0 => lines[n].whole
      BY DEF SentTo
    <3> HIDE DEF m
    <3> QED
      BY <1>1, <3>1, <3>2, <3>3
  <2>2. CASE end # pos[file]
    <3>1. end > pos[file] /\ end # 0
      BY <1>4, <1>5, <2>2
    <3>2. end \in read /\ ~(end <= n)
      BY <1>5, <1>9, <3>1
    <3>3. end \in DOMAIN lines /\ lines[end].whole
      BY <1>3, <3>2
    <3>4. end <= Len(lines) /\ end \in 0..Len(lines)
      BY <1>1, <1>2, <1>5, <3>3
    <3>5. m = end
      BY <2>2
    <3>6. end >= n
      BY <1>1, <1>5, <3>2
    <3> HIDE DEF m
    <3> QED
      BY <1>5, <3>3, <3>4, <3>5, <3>6
  <2> QED
    BY <2>1, <2>2
<1>11. ASSUME NEW i \in DOMAIN lines, lines[i].whole, ~(i <= n), i <= m
       PROVE  i \in read /\ i > pos[file]
  <2>1. end # pos[file] /\ m = end
    BY <1>11
  <2>2. end > pos[file] /\ end # 0 /\ end \in read
    BY <1>4, <1>5, <2>1
  <2>3. end \in DOMAIN lines /\ lines[end].file = file
    BY <1>3, <2>2
  <2>4. lines[i].file <= file
    <3>1. CASE i = end
      BY <1>4, <2>3, <3>1
    <3>2. CASE i # end
      <4>1. i < end
        BY <1>2, <1>5, <1>11, <2>1, <3>2
      <4> QED
        BY <2>3, <4>1 DEF Ordered
    <3> QED
      BY <3>1, <3>2
  <2>5. lines[i].file = file
    BY <1>2, <1>4, <1>8, <1>11, <2>4
  <2> QED
    BY <1>3, <1>8, <1>11, <2>5
<1> HIDE DEF m
<1>12. fresh \in SUBSET (1..Len(lines)) /\ fresh \in SUBSET Nat
  BY <1>1, <1>2, <1>3, <1>18
<1>13. ValidUpTo(lines, m) = ValidUpTo(lines, n) \cup fresh
  <2>1. ASSUME NEW i \in ValidUpTo(lines, m)
        PROVE  i \in ValidUpTo(lines, n) \cup fresh
    <3>1. i \in 1..m /\ Valid(lines, i) /\ i \in DOMAIN lines /\ lines[i].whole
      BY <1>1, <1>10 DEF ValidUpTo, Valid
    <3>2. CASE i <= n
      BY <1>1, <1>10, <3>1, <3>2 DEF ValidUpTo
    <3>3. CASE ~(i <= n)
      <4>1. i <= m
        BY <1>10, <3>1
      <4> QED
        BY <1>11, <1>18, <3>1, <3>3, <4>1
    <3> QED
      BY <3>2, <3>3
  <2>2. ASSUME NEW i \in ValidUpTo(lines, n)
        PROVE  i \in ValidUpTo(lines, m)
    BY <1>1, <1>10 DEF ValidUpTo
  <2>3. ASSUME NEW i \in fresh
        PROVE  i \in ValidUpTo(lines, m)
    <3>1. i \in read /\ Valid(lines, i)
      BY <1>18
    <3>2. i \in Nat /\ i >= 1 /\ i <= m
      BY <1>2, <1>3, <1>10, <3>1
    <3> QED
      BY <1>10, <3>1, <3>2 DEF ValidUpTo
  <2> QED
    BY <2>1, <2>2, <2>3
<1>14. Enumerates(sent \o InOrder(fresh), ValidUpTo(lines, m)) /\ sent \o InOrder(fresh) \in Seq(Nat)
  <2>1. Enumerates(InOrder(fresh), fresh) /\ InOrder(fresh) \in Seq(Nat)
    BY <1>1, <1>12, InOrderIs
  <2>2. Enumerates(sent, ValidUpTo(lines, n)) /\ ValidUpTo(lines, n) \in SUBSET Nat
    BY <1>1 DEF SentTo, ValidUpTo
  <2>3. \A i \in ValidUpTo(lines, n), j \in fresh : i < j
    <3> TAKE i \in ValidUpTo(lines, n), j \in fresh
    <3>1. i \in Nat /\ i <= n
      BY <1>1 DEF ValidUpTo
    <3>2. j \in Nat /\ ~(j <= n)
      BY <1>2, <1>3, <1>9, <1>18
    <3> QED
      BY <1>1, <3>1, <3>2
  <2> DEFINE A == ValidUpTo(lines, n)
             b == InOrder(fresh)
  <2>4. A \in SUBSET Nat /\ fresh \in SUBSET Nat /\ sent \in Seq(Nat) /\ b \in Seq(Nat)
    BY <1>12, <2>1, <2>2
  <2>5. Enumerates(sent, A) /\ Enumerates(b, fresh) /\ \A i \in A, j \in fresh : i < j
    BY <2>1, <2>2, <2>3
  <2> HIDE DEF A, b
  <2>6. Enumerates(sent \o b, A \cup fresh) /\ sent \o b \in Seq(Nat)
    BY <2>4, <2>5, ListsConcat
  <2> QED
    BY <1>13, <2>6 DEF A, b
<1>15. ASSUME NEW i \in DOMAIN lines, lines[i].whole
       PROVE  i <= m <=> i <= next[lines[i].file]
  <2> DEFINE f == lines[i].file
  <2>1. i \in Nat /\ f \in 1..(MaxLines + 1) /\ f \in Nat /\ pos[f] \in Nat /\ (i <= n <=> i <= pos[f])
    BY <1>2, <1>15 DEF SentTo
  <2> HIDE DEF f
  <2>2. CASE i <= n
    <3>1. i <= m /\ i <= pos[f]
      BY <1>1, <1>10, <2>1, <2>2
    <3>2. CASE f = file
      BY <1>4, <1>5, <1>6, <2>1, <3>1, <3>2 DEF f
    <3>3. CASE f # file
      BY <1>6, <2>1, <3>1, <3>3 DEF f
    <3> QED
      BY <3>2, <3>3
  <2>3. CASE ~(i <= n)
    <3>1. ASSUME i <= m PROVE i <= next[f]
      <4>1. i \in read
        BY <1>11, <1>15, <2>3, <3>1
      <4> QED
        BY <1>3, <1>5, <1>6, <4>1 DEF f
    <3>2. ASSUME i <= next[f] PROVE i <= m
      <4>1. f = file
        BY <1>6, <2>1, <2>3, <3>2
      <4>2. i \in read
        BY <1>3, <1>15, <4>1 DEF f
      <4> QED
        BY <1>10, <4>2
    <3> QED
      BY <3>1, <3>2 DEF f
  <2> QED
    BY <2>2, <2>3
<1>16. ASSUME NEW f \in 1..(MaxLines + 1), next[f] # 0
       PROVE  next[f] \in DOMAIN lines /\ lines[next[f]].file = f /\ lines[next[f]].whole
  <2>1. CASE f = file
    BY <1>3, <1>5, <1>6, <1>16, <2>1
  <2>2. CASE f # file
    BY <1>6, <1>16, <2>2 DEF SentTo
  <2> QED
    BY <2>1, <2>2
<1>17. SentTo(more, next, lines, m)
  BY <1>0, <1>10, <1>14, <1>15, <1>16 DEF SentTo
<1> QED
  BY <1>0, <1>6, <1>7, <1>10, <1>14, <1>17 DEF read, fresh, next, more

-----------------------------------------------------------------------------
(* The invariant of the streams *)

Unsent(st) ==
    /\ st.sent = <<>> /\ st.pos = [f \in 1..(MaxLines + 1) |-> 0] /\ st.file = 1
    /\ st.record = NoRecord /\ st.why = ""

\* A stream that has read the files of its record has sent what the record
\* knew of.
Follows(st, lines) ==
    /\ Fits(st.record, lines)
    /\ \E n \in 0..Len(lines) :
         /\ SentTo(st.sent, st.pos, lines, n)
         /\ st.at = "check" \/ st.why \in {"terminal", "snapshot"} => st.record.known <= n
    /\ st.at = "delta" => st.file \in 1..st.record.files /\ PassedBy(st.file, st.pos, lines)
    /\ st.at # "ended" => st.why = ""

JournalInv ==
    /\ run \in [Runs -> RunType] /\ journal \in [Runs -> Seq(Line)] /\ record \in [Runs -> RecordType]
    /\ \A r \in Runs : /\ Ordered(journal[r], r \in NativeRuns)
                       /\ LastFile(journal[r]) + run[r].left <= MaxLines + 1
                       /\ Fits(record[r], journal[r])

\* The record that a handler has read.
HeldInv == \A h \in Handlers : handler[h].op = "action" /\ handler[h].at = "work" =>
    handler[h].run \in Runs /\ Fits(handler[h].record, journal[handler[h].run])

SentInv ==
    /\ stream \in [Streams -> StreamType]
    /\ \A s \in Streams : IF stream[s].at = "idle" THEN Unsent(stream[s])
                          ELSE Follows(stream[s], journal[stream[s].run])

StreamInv == JournalInv /\ HeldInv /\ SentInv

LEMMA SameLines ==
    ASSUME NEW lines, NEW native, Ordered(lines, native)
    PROVE  Grows(lines, lines)
<1>1. Len(lines) \in Nat /\ DOMAIN lines = 1..Len(lines)
  BY LinesAre
<1> QED
  BY <1>1 DEF Grows

LEMMA FollowsGrows ==
    ASSUME NEW lines, NEW more, NEW native, Ordered(lines, native), Ordered(more, native), Grows(lines, more),
           LastFile(more) <= MaxLines + 1, NEW st \in StreamType, Follows(st, lines)
    PROVE  Follows(st, more)
<1>1. Fits(st.record, more) /\ st.record.files \in 1..LastFile(lines)
  BY FitsGrows DEF Follows, Fits
<1>2. st.pos \in [1..(MaxLines + 1) -> Nat] /\ Len(lines) \in Nat /\ Len(more) \in Nat /\ Len(lines) <= Len(more)
  BY LinesAre DEF StreamType, Grows
<1>3. \E n \in 0..Len(more) :
        /\ SentTo(st.sent, st.pos, more, n)
        /\ st.at = "check" \/ st.why \in {"terminal", "snapshot"} => st.record.known <= n
  <2>1. PICK n \in 0..Len(lines) :
          /\ SentTo(st.sent, st.pos, lines, n)
          /\ st.at = "check" \/ st.why \in {"terminal", "snapshot"} => st.record.known <= n
    BY DEF Follows
  <2>2. SentTo(st.sent, st.pos, more, n)
    BY <1>2, <2>1, SentGrows
  <2>3. n \in 0..Len(more)
    BY <1>2
  <2> QED
    BY <2>1, <2>2, <2>3
<1>4. ASSUME st.at = "delta"
      PROVE  st.file \in 1..st.record.files /\ PassedBy(st.file, st.pos, more)
  <2>1. st.file \in 1..st.record.files /\ PassedBy(st.file, st.pos, lines)
    BY <1>4 DEF Follows
  <2>2. st.file \in Nat /\ st.file <= LastFile(lines)
    BY <1>1, <2>1, LinesAre
  <2> QED
    BY <2>1, <2>2, PassedGrows
<1>5. st.at # "ended" => st.why = ""
  BY DEF Follows
<1> QED
  BY <1>1, <1>3, <1>4, <1>5 DEF Follows

\* The handlers that hold a record still hold it.
StillHeld == \A h \in Handlers : handler'[h].op = "action" /\ handler'[h].at = "work" => handler'[h] = handler[h]

LEMMA LinesGrow ==
    ASSUME StreamInv, JournalInv', stream' = stream, StillHeld,
           \A r \in Runs : Grows(journal[r], journal'[r])
    PROVE  StreamInv'
<1>1. \A r \in Runs : /\ Ordered(journal[r], r \in NativeRuns) /\ Ordered(journal'[r], r \in NativeRuns)
                      /\ LastFile(journal'[r]) <= MaxLines + 1
  <2> TAKE r \in Runs
  <2>1. Ordered(journal[r], r \in NativeRuns) /\ Ordered(journal'[r], r \in NativeRuns)
    BY DEF StreamInv, JournalInv
  <2>2. run'[r].left \in Nat /\ LastFile(journal'[r]) + run'[r].left <= MaxLines + 1
    BY DEF JournalInv, RunType
  <2>3. LastFile(journal'[r]) \in Nat /\ MaxLines \in Nat
    BY <2>1, LinesAre, StreamAssumption
  <2> QED
    BY <2>1, <2>2, <2>3
<1>2. HeldInv'
  <2> SUFFICES ASSUME NEW h \in Handlers, handler'[h].op = "action", handler'[h].at = "work"
               PROVE  handler'[h].run \in Runs /\ Fits(handler'[h].record, journal'[handler'[h].run])
    BY DEF HeldInv
  <2>1. handler'[h] = handler[h]
    BY DEF StillHeld
  <2>2. handler[h].run \in Runs /\ Fits(handler[h].record, journal[handler[h].run])
    BY <2>1 DEF StreamInv, HeldInv
  <2> QED
    BY <1>1, <2>1, <2>2, FitsGrows
<1>3. SentInv'
  <2>1. stream \in [Streams -> StreamType]
    BY DEF StreamInv, SentInv
  <2>2. ASSUME NEW s \in Streams, stream[s].at # "idle"
        PROVE  Follows(stream[s], journal'[stream[s].run])
    <3>1. stream[s] \in StreamType /\ stream[s].run \in Runs
      BY <2>1 DEF StreamType
    <3>2. Follows(stream[s], journal[stream[s].run])
      BY <2>2 DEF StreamInv, SentInv
    <3> QED
      BY <1>1, <3>1, <3>2, FollowsGrows
  <2> QED
    BY <2>1, <2>2 DEF StreamInv, SentInv
<1> QED
  BY <1>2, <1>3 DEF StreamInv

LEMMA SameStreams ==
    ASSUME StreamInv, UNCHANGED streamVars, StillHeld
    PROVE  StreamInv'
<1>1. JournalInv' /\ stream' = stream /\ journal' = journal
  BY DEF StreamInv, JournalInv, streamVars
<1>2. \A r \in Runs : Grows(journal[r], journal'[r])
  BY <1>1, SameLines DEF StreamInv, JournalInv
<1> QED
  BY <1>1, <1>2, LinesGrow

-----------------------------------------------------------------------------
(* The run processes *)

LEMMA LastWholeIs ==
    ASSUME NEW lines, NEW native, Ordered(lines, native)
    PROVE  /\ LastWhole(lines) \in 0..Len(lines)
           /\ LastWhole(lines) # 0 =>
                lines[LastWhole(lines)].whole /\ lines[LastWhole(lines)].file <= LastFile(lines)
<1> DEFINE S == {0} \cup {i \in DOMAIN lines : lines[i].whole}
<1>1. Len(lines) \in Nat /\ DOMAIN lines = 1..Len(lines)
  BY LinesAre
<1>2. S \in SUBSET (0..Len(lines)) /\ S # {}
  BY <1>1
<1>3. LastWhole(lines) \in S
  BY <1>1, <1>2, LastPlace DEF LastWhole
<1> HIDE DEF LastWhole
<1> QED
  BY <1>1, <1>2, <1>3, LinesAre

\* A record of the lines as they are.
LEMMA NewRecordFits ==
    ASSUME NEW lines, NEW native, Ordered(lines, native), NEW state \in RunStates,
           NEW files \in 1..LastFile(lines), native \/ files = LastFile(lines)
    PROVE  Fits([state |-> state, files |-> files, known |-> LastWhole(lines)], lines)
<1> DEFINE rec == [state |-> state, files |-> files, known |-> LastWhole(lines)]
<1>1. /\ LastWhole(lines) \in 0..Len(lines)
      /\ LastWhole(lines) # 0 =>
           lines[LastWhole(lines)].whole /\ lines[LastWhole(lines)].file <= LastFile(lines)
  BY LastWholeIs
<1>2. LastFile(lines) \in Nat /\ Len(lines) \in Nat
  BY LinesAre
<1>3. rec.state = state /\ rec.files = files /\ rec.known = LastWhole(lines) /\ rec \in RecordType
  BY <1>1, <1>2 DEF RecordType
<1>4. LastWhole(lines) # 0 => lines[LastWhole(lines)].file <= files
  <2> SUFFICES ASSUME LastWhole(lines) # 0 PROVE lines[LastWhole(lines)].file <= files
    OBVIOUS
  <2>1. CASE files = LastFile(lines)
    BY <1>1, <2>1
  <2>2. CASE native
    <3>1. LastWhole(lines) \in DOMAIN lines
      BY <1>1, <1>2, LinesAre
    <3>2. lines[LastWhole(lines)].file = 1
      BY <2>2, <3>1 DEF Ordered
    <3> QED
      BY <1>2, <3>2
  <2> QED
    BY <2>1, <2>2
<1> HIDE DEF rec
<1>5. Fits(rec, lines)
  BY <1>1, <1>3, <1>4 DEF Fits
<1> QED
  BY <1>5 DEF rec

LEMMA RecordOfFits ==
    ASSUME JournalInv, NEW r \in Runs, NEW state \in RunStates
    PROVE  Fits(RecordOf(r, state), journal[r]) /\ RecordOf(r, state) \in RecordType
<1>1. Ordered(journal[r], r \in NativeRuns)
  BY DEF JournalInv
<1>2. LastFile(journal[r]) \in 1..LastFile(journal[r])
  BY <1>1, LinesAre
<1>3. Fits(RecordOf(r, state), journal[r])
  BY <1>1, <1>2, NewRecordFits DEF RecordOf
<1> QED
  BY <1>3 DEF Fits

\* A step that leaves the lines of the other runs and the streams alone.
LEMMA RunGoes ==
    ASSUME StreamInv, NEW r \in Runs, NEW proc \in RunType, NEW lines \in Seq(Line), NEW rec,
           run' = [run EXCEPT ![r] = proc], journal' = [journal EXCEPT ![r] = lines],
           record' = [record EXCEPT ![r] = rec], stream' = stream, StillHeld,
           Ordered(lines, r \in NativeRuns), Grows(journal[r], lines),
           LastFile(lines) + proc.left <= MaxLines + 1, Fits(rec, lines)
    PROVE  StreamInv'
<1>1. JournalInv
  BY DEF StreamInv
<1>2. rec \in RecordType
  BY DEF Fits
<1>3. /\ run' \in [Runs -> RunType] /\ journal' \in [Runs -> Seq(Line)] /\ record' \in [Runs -> RecordType]
      /\ run'[r] = proc /\ journal'[r] = lines /\ record'[r] = rec
      /\ \A q \in Runs : q # r => run'[q] = run[q] /\ journal'[q] = journal[q] /\ record'[q] = record[q]
  BY <1>1, <1>2 DEF JournalInv
<1>4. JournalInv'
  <2> SUFFICES ASSUME NEW q \in Runs
               PROVE  /\ Ordered(journal'[q], q \in NativeRuns)
                      /\ LastFile(journal'[q]) + run'[q].left <= MaxLines + 1
                      /\ Fits(record'[q], journal'[q])
    BY <1>3 DEF JournalInv
  <2>1. CASE q = r
    BY <1>3, <2>1
  <2>2. CASE q # r
    BY <1>1, <1>3, <2>2 DEF JournalInv
  <2> QED
    BY <2>1, <2>2
<1>5. \A q \in Runs : Grows(journal[q], journal'[q])
  BY <1>1, <1>3, SameLines DEF JournalInv
<1> QED
  BY <1>4, <1>5, LinesGrow

LEMMA PersistFits ==
    ASSUME StreamInv, NEW r \in Runs, NEW state \in RunStates, NEW next \in {"start", "agent", "over"},
           NEW live \in BOOLEAN, Persist(r, state, next, live), UNCHANGED <<journal, stream>>, StillHeld
    PROVE  StreamInv'
<1> DEFINE proc == [run[r] EXCEPT !.at = "history", !.next = next, !.live = live]
           lines == journal[r]
           rec == RecordOf(r, state)
<1>1. /\ run' = [run EXCEPT ![r] = proc] /\ record' = [record EXCEPT ![r] = rec]
      /\ journal' = journal /\ stream' = stream
  BY DEF Persist
<1>2. run[r] \in RunType /\ journal[r] \in Seq(Line) /\ journal \in [Runs -> Seq(Line)]
  BY DEF StreamInv, JournalInv
<1>3. proc \in RunType /\ proc.left = run[r].left
  BY <1>2 DEF RunType
<1>4. journal' = [journal EXCEPT ![r] = lines]
  BY <1>1, <1>2
<1>5. Ordered(lines, r \in NativeRuns) /\ LastFile(lines) + run[r].left <= MaxLines + 1
  BY DEF StreamInv, JournalInv
<1>6. Fits(rec, lines)
  BY RecordOfFits DEF StreamInv
<1>7. Grows(lines, lines)
  BY <1>5, SameLines
<1> HIDE DEF proc, lines, rec
<1>8. LastFile(lines) + proc.left <= MaxLines + 1 /\ lines \in Seq(Line) /\ Grows(journal[r], lines)
  BY <1>2, <1>3, <1>5, <1>7 DEF lines
<1> QED
  BY <1>1, <1>3, <1>4, <1>5, <1>6, <1>8, RunGoes

LEMMA BeginLineFits ==
    ASSUME StreamInv, NEW r \in Runs, BeginLine(r), StillHeld
    PROVE  StreamInv'
<1> DEFINE old == journal[r]
           proc == [run[r] EXCEPT !.left = @ - 1]
<1>1. PICK file \in {LastFile(old)} \cup (IF r \in NativeRuns \/ old = <<>> THEN {} ELSE {LastFile(old) + 1}) :
        journal' = [journal EXCEPT ![r] = Append(@, [file |-> file, whole |-> FALSE])]
  BY DEF BeginLine
<1>2. /\ run' = [run EXCEPT ![r].left = @ - 1] /\ record' = record /\ stream' = stream
      /\ ~IsOpen(r) /\ run[r].left > 0
  BY DEF BeginLine
<1>3. /\ run \in [Runs -> RunType] /\ journal \in [Runs -> Seq(Line)] /\ record \in [Runs -> RecordType]
      /\ Ordered(old, r \in NativeRuns) /\ LastFile(old) + run[r].left <= MaxLines + 1
      /\ Fits(record[r], old)
  BY DEF StreamInv, JournalInv
<1>4. run[r] \in RunType /\ run[r].left \in 0..MaxLines /\ old \in Seq(Line) /\ MaxLines \in Nat
  BY <1>3, StreamAssumption DEF RunType
<1>5. proc.left = run[r].left - 1 /\ proc \in RunType /\ run' = [run EXCEPT ![r] = proc]
  <2>1. run[r].left - 1 \in 0..MaxLines
    BY <1>2, <1>4
  <2>2. proc.left = run[r].left - 1 /\ proc \in RunType
    BY <1>4, <2>1 DEF RunType
  <2> QED
    BY <1>2, <1>3, <2>2
<1> DEFINE line == [file |-> file, whole |-> FALSE]
           lines == Append(old, line)
<1>6. /\ LastFile(old) \in Nat /\ LastFile(old) >= 1 /\ Len(old) \in Nat /\ DOMAIN old = 1..Len(old)
      /\ \A i \in 1..Len(old) : old[i].file \in Nat /\ old[i].file >= 1 /\ old[i].file <= LastFile(old)
  BY <1>3, LinesAre
<1>7. /\ file \in {LastFile(old), LastFile(old) + 1} /\ file \in Nat /\ file >= 1 /\ file >= LastFile(old)
      /\ file <= LastFile(old) + 1
      /\ r \in NativeRuns => file = LastFile(old)
  BY <1>1, <1>6
<1>8. line \in Line /\ line.file = file /\ line.whole = FALSE
  BY <1>7 DEF Line
<1>9. journal' = [journal EXCEPT ![r] = lines]
  BY <1>1
<1> HIDE DEF line, proc, old
<1>10. /\ lines \in Seq(Line) /\ Len(lines) = Len(old) + 1 /\ DOMAIN lines = 1..(Len(old) + 1)
       /\ \A i \in 1..Len(old) : lines[i] = old[i]
       /\ lines[Len(old) + 1] = line /\ lines # <<>>
  BY <1>4, <1>6, <1>8
<1> HIDE DEF lines
<1>11. LastFile(lines) = file
  BY <1>8, <1>10 DEF LastFile
<1>12. Grows(old, lines)
  <2>1. \A i \in DOMAIN lines : i > Len(old) => lines[i].file >= LastFile(old)
    <3> TAKE i \in DOMAIN lines
    <3> HAVE i > Len(old)
    <3>1. i = Len(old) + 1
      BY <1>6, <1>10
    <3> QED
      BY <1>7, <1>8, <1>10, <3>1
  <2> QED
    BY <1>6, <1>10, <2>1 DEF Grows
<1>13. Ordered(lines, r \in NativeRuns)
  <2>1. \A i \in DOMAIN lines : i \in 1..Len(old) \/ (i = Len(old) + 1 /\ lines[i] = line)
    BY <1>6, <1>10
  <2>2. \A i \in DOMAIN lines : lines[i].file >= 1
    BY <1>6, <1>7, <1>8, <1>10, <2>1
  <2>3. ASSUME NEW i \in DOMAIN lines, NEW j \in DOMAIN lines, i < j
        PROVE  lines[i].file <= lines[j].file
    <3>1. i \in 1..Len(old) /\ lines[i] = old[i]
      BY <1>6, <1>10, <2>3
    <3>2. CASE j \in 1..Len(old)
      BY <1>3, <1>6, <1>10, <2>3, <3>1, <3>2 DEF Ordered
    <3>3. CASE lines[j] = line
      BY <1>6, <1>7, <1>8, <3>1, <3>3
    <3> QED
      BY <2>1, <3>2, <3>3
  <2>4. CASE r \in NativeRuns
    <3>1. LastFile(old) = 1
      <4>1. CASE old = <<>>
        BY <4>1 DEF LastFile
      <4>2. CASE old # <<>>
        <5>1. Len(old) \in DOMAIN old /\ LastFile(old) = old[Len(old)].file
          BY <1>3, <1>6, <4>2, LinesAre
        <5> QED
          BY <1>3, <2>4, <5>1 DEF Ordered
      <4> QED
        BY <4>1, <4>2
    <3>2. \A i \in DOMAIN lines : lines[i].file = 1
      BY <1>3, <1>6, <1>7, <1>8, <1>10, <2>1, <2>4, <3>1 DEF Ordered
    <3> QED
      BY <1>10, <2>2, <2>3, <2>4, <3>2 DEF Ordered
  <2>5. CASE r \notin NativeRuns
    <3>1. ASSUME NEW i \in DOMAIN lines, i < Len(lines) PROVE lines[i].whole
      <4>1. i \in 1..Len(old) /\ lines[i] = old[i] /\ i \in DOMAIN old
        BY <1>6, <1>10, <3>1
      <4>2. CASE i < Len(old)
        BY <1>3, <2>5, <4>1, <4>2 DEF Ordered
      <4>3. CASE i = Len(old)
        <5>1. old # <<>>
          BY <1>4, <1>6, <4>1
        <5> QED
          BY <1>2, <4>1, <4>3, <5>1 DEF IsOpen, old
      <4>4. i < Len(old) \/ i = Len(old)
        BY <1>6, <4>1
      <4> QED
        BY <4>2, <4>3, <4>4
    <3> QED
      BY <1>10, <2>2, <2>3, <2>5, <3>1 DEF Ordered
  <2> QED
    BY <2>4, <2>5
<1>14. LastFile(lines) + proc.left <= MaxLines + 1
  BY <1>3, <1>4, <1>5, <1>6, <1>7, <1>11
<1>15. Fits(record[r], lines) /\ record' = [record EXCEPT ![r] = record[r]]
  BY <1>2, <1>3, <1>12, <1>13, FitsGrows
<1> QED
  BY <1>2, <1>5, <1>9, <1>10, <1>12, <1>13, <1>14, <1>15, RunGoes DEF old

LEMMA LineChanged ==
    ASSUME NEW S, NEW seq \in Seq(S), NEW k \in 1..Len(seq), NEW x \in S
    PROVE  LET new == [seq EXCEPT ![k] = x]
           IN /\ new \in Seq(S) /\ Len(new) = Len(seq) /\ DOMAIN new = 1..Len(seq) /\ new # <<>>
              /\ new[k] = x /\ \A i \in 1..Len(seq) : i # k => new[i] = seq[i]
<1> DEFINE n == Len(seq)
           new == [seq EXCEPT ![k] = x]
<1>1. n \in Nat /\ seq \in [1..n -> S] /\ k \in 1..n
  OBVIOUS
<1> HIDE DEF n
<1>2. new \in [1..n -> S] /\ new[k] = x /\ \A i \in 1..n : i # k => new[i] = seq[i]
  BY <1>1
<1> HIDE DEF new
<1>3. new \in Seq(S) /\ Len(new) = n /\ DOMAIN new = 1..n
  BY <1>1, <1>2
<1>4. new # <<>>
  <2>1. Len(new) # Len(<<>>)
    BY <1>1, <1>3
  <2> QED
    BY <2>1
<1> QED
  BY <1>2, <1>3, <1>4 DEF n, new

LEMMA EndLineFits ==
    ASSUME StreamInv, NEW r \in Runs, EndLine(r), StillHeld
    PROVE  StreamInv'
<1> DEFINE old == journal[r]
           n == Len(old)
           last == [old[n] EXCEPT !.whole = TRUE]
           lines == [old EXCEPT ![n] = last]
<1>1. /\ journal' = [journal EXCEPT ![r][Len(old)].whole = TRUE]
      /\ run' = run /\ record' = record /\ stream' = stream /\ IsOpen(r)
  BY DEF EndLine
<1>2. /\ run \in [Runs -> RunType] /\ journal \in [Runs -> Seq(Line)] /\ record \in [Runs -> RecordType]
      /\ Ordered(old, r \in NativeRuns) /\ LastFile(old) + run[r].left <= MaxLines + 1
      /\ Fits(record[r], old)
  BY DEF StreamInv, JournalInv
<1>3. journal' = [journal EXCEPT ![r] = lines]
  BY <1>1
<1>4. old # <<>>
  BY <1>1 DEF IsOpen
<1>5. /\ n \in 1..n /\ n \in Nat /\ DOMAIN old = 1..n /\ old \in Seq(Line) /\ Len(old) = n
      /\ LastFile(old) = old[n].file
  BY <1>2, <1>4, LinesAre
<1> HIDE DEF n, old
<1>6. last \in Line /\ last.file = old[n].file /\ last.whole = TRUE
  <2>1. old[n] \in Line
    BY <1>5
  <2> QED
    BY <2>1 DEF Line
<1> HIDE DEF last
<1>7. /\ lines \in Seq(Line) /\ Len(lines) = n /\ DOMAIN lines = 1..n /\ lines # <<>>
      /\ lines[n] = last /\ \A i \in 1..n : i # n => lines[i] = old[i]
  BY <1>5, <1>6, LineChanged
<1> HIDE DEF lines
<1>8. \A i \in 1..n : lines[i].file = old[i].file /\ (old[i].whole => lines[i].whole)
  BY <1>6, <1>7
<1>9. Grows(old, lines)
  <2>1. \A i \in DOMAIN old : i < n => lines[i].whole = old[i].whole
    BY <1>5, <1>7
  <2>2. \A i \in DOMAIN lines : ~(i > n)
    BY <1>5, <1>7
  <2>3. n <= Len(lines)
    BY <1>5, <1>7
  <2> QED
    BY <1>5, <1>8, <2>1, <2>2, <2>3 DEF Grows
<1>10. Ordered(lines, r \in NativeRuns)
  <2>1. \A i \in DOMAIN lines : lines[i].file >= 1
    BY <1>2, <1>5, <1>7, <1>8 DEF Ordered
  <2>2. \A i, j \in DOMAIN lines : i < j => lines[i].file <= lines[j].file
    BY <1>2, <1>5, <1>7, <1>8 DEF Ordered
  <2>3. r \in NativeRuns => \A i \in DOMAIN lines : lines[i].file = 1
    BY <1>2, <1>5, <1>7, <1>8 DEF Ordered
  <2>4. r \notin NativeRuns => \A i \in DOMAIN lines : i < Len(lines) => lines[i].whole
    BY <1>2, <1>5, <1>7, <1>8 DEF Ordered
  <2> QED
    BY <1>7, <2>1, <2>2, <2>3, <2>4 DEF Ordered
<1>11. LastFile(lines) = LastFile(old)
  BY <1>5, <1>7, <1>8 DEF LastFile
<1>12. /\ Fits(record[r], lines) /\ record' = [record EXCEPT ![r] = record[r]]
       /\ run' = [run EXCEPT ![r] = run[r]] /\ run[r] \in RunType
       /\ LastFile(lines) + run[r].left <= MaxLines + 1
  BY <1>1, <1>2, <1>9, <1>10, <1>11, FitsGrows
<1> QED
  BY <1>1, <1>3, <1>7, <1>9, <1>10, <1>12, RunGoes DEF old

\* Only the step of the process changes.
LEMMA ProcessFits ==
    ASSUME StreamInv, NEW r \in Runs, NEW proc \in RunType, proc.left = run[r].left,
           run' = [run EXCEPT ![r] = proc], UNCHANGED <<journal, record, stream>>, StillHeld
    PROVE  StreamInv'
<1>1. /\ journal \in [Runs -> Seq(Line)] /\ record \in [Runs -> RecordType]
      /\ Ordered(journal[r], r \in NativeRuns) /\ LastFile(journal[r]) + run[r].left <= MaxLines + 1
      /\ Fits(record[r], journal[r])
  BY DEF StreamInv, JournalInv
<1>2. /\ journal' = [journal EXCEPT ![r] = journal[r]] /\ record' = [record EXCEPT ![r] = record[r]]
      /\ journal[r] \in Seq(Line) /\ Grows(journal[r], journal[r])
  BY <1>1, SameLines
<1> QED
  BY <1>1, <1>2, RunGoes

LEMMA RunKeepsStreams ==
    ASSUME StreamInv, NEW r \in Runs, RunStep(r) \/ RunKilled(r), handler' = handler
    PROVE  StreamInv'
<1>1. StillHeld
  BY DEF StillHeld
<1>2. CASE Prepare(r) \/ Start(r) \/ End(r)
  BY <1>1, <1>2, PersistFits DEF Prepare, Start, End, RunStates
<1>3. CASE BeginLine(r) \/ EndLine(r)
  BY <1>1, <1>3, BeginLineFits, EndLineFits
<1>4. run[r] \in RunType /\ run \in [Runs -> RunType]
  BY DEF StreamInv, JournalInv
<1>5. CASE HistoryEnds(r)
  <2>1. CASE writer[r].at = "done"
    <3> DEFINE proc == [run[r] EXCEPT !.at = run[r].next]
    <3>1. proc \in RunType /\ proc.left = run[r].left
      BY <1>4 DEF RunType
    <3>2. run' = [run EXCEPT ![r] = proc] /\ UNCHANGED <<journal, record, stream>>
      BY <1>5, <2>1 DEF HistoryEnds
    <3> HIDE DEF proc
    <3> QED
      BY <1>1, <3>1, <3>2, ProcessFits
  <2>2. CASE writer[r].at # "done"
    <3> DEFINE proc == [run[r] EXCEPT !.at = "over", !.live = FALSE]
    <3>1. proc \in RunType /\ proc.left = run[r].left
      BY <1>4 DEF RunType
    <3>2. run' = [run EXCEPT ![r] = proc] /\ UNCHANGED <<journal, record, stream>>
      BY <1>5, <2>2 DEF HistoryEnds
    <3> HIDE DEF proc
    <3> QED
      BY <1>1, <3>1, <3>2, ProcessFits
  <2> QED
    BY <2>1, <2>2
<1>6. CASE RunKilled(r)
  <2> DEFINE proc == [run[r] EXCEPT !.at = "killed", !.live = FALSE]
  <2>1. proc \in RunType /\ proc.left = run[r].left
    BY <1>4 DEF RunType
  <2>2. run' = [run EXCEPT ![r].at = "killed", ![r].live = FALSE] /\ UNCHANGED <<journal, record, stream>>
    BY <1>6 DEF RunKilled
  <2>3. run' = [run EXCEPT ![r] = proc]
    BY <1>4, <2>2
  <2> HIDE DEF proc
  <2> QED
    BY <1>1, <2>1, <2>2, <2>3, ProcessFits
<1> QED
  BY <1>2, <1>3, <1>5, <1>6 DEF RunStep

-----------------------------------------------------------------------------
(* The handlers *)

\* The events of a native action are whole lines of the one file.
LEMMA LinesAdded ==
    ASSUME NEW old, Ordered(old, TRUE), NEW n \in Nat,
           NEW lines, lines = old \o [i \in 1..n |-> [file |-> 1, whole |-> TRUE]]
    PROVE  lines \in Seq(Line) /\ Ordered(lines, TRUE) /\ Grows(old, lines) /\ LastFile(lines) = LastFile(old)
<1> DEFINE line == [file |-> 1, whole |-> TRUE]
           added == [i \in 1..n |-> line]
           k == Len(old)
<1>1. k \in Nat /\ DOMAIN old = 1..k /\ old \in Seq(Line) /\ Len(old) = k
  BY LinesAre DEF Ordered
<1>2. line \in Line /\ line.file = 1
  BY DEF Line
<1> HIDE DEF line
<1>3. added \in Seq(Line) /\ Len(added) = n /\ \A i \in 1..n : added[i] = line
  <2>1. added \in [1..n -> Line]
    BY <1>2
  <2> QED
    BY <2>1
<1>4. lines = old \o added
  BY DEF line
<1> HIDE DEF added, k
<1>5. /\ lines \in Seq(Line) /\ Len(lines) = k + n
      /\ \A i \in 1..(k + n) : lines[i] = IF i <= k THEN old[i] ELSE added[i - k]
  <2>1. /\ old \o added \in Seq(Line) /\ Len(old \o added) = Len(old) + Len(added)
        /\ \A i \in 1..(Len(old) + Len(added)) :
             (old \o added)[i] = IF i <= Len(old) THEN old[i] ELSE added[i - Len(old)]
    BY <1>1, <1>3, ConcatIs, Zenon
  <2>2. Len(old) = k /\ Len(added) = n
    BY <1>1, <1>3
  <2> QED
    BY <1>4, <2>1, <2>2, Zenon
<1>6. DOMAIN lines = 1..(k + n)
  BY <1>5
<1>7. \A i \in 1..k : i \in 1..(k + n) /\ lines[i] = old[i]
  BY <1>1, <1>5
<1>8. \A i \in 1..(k + n) : i > k => lines[i] = line
  <2> TAKE i \in 1..(k + n)
  <2> HAVE i > k
  <2>1. ~(i <= k) /\ i - k \in 1..n
    BY <1>1
  <2> QED
    BY <1>3, <1>5, <2>1
<1>9. \A i \in DOMAIN lines : lines[i].file = 1
  <2> TAKE i \in DOMAIN lines
  <2>1. i \in 1..k \/ i > k
    BY <1>1, <1>6
  <2>2. CASE i \in 1..k
    BY <1>1, <1>7, <2>2 DEF Ordered
  <2>3. CASE i > k
    BY <1>2, <1>6, <1>8, <2>3
  <2> QED
    BY <2>1, <2>2, <2>3
<1>10. Ordered(lines, TRUE)
  BY <1>5, <1>9 DEF Ordered
<1>11. LastFile(lines) = 1 /\ LastFile(old) = 1
  <2>1. ASSUME NEW some, Ordered(some, TRUE) PROVE LastFile(some) = 1
    <3>1. CASE some = <<>>
      BY <3>1 DEF LastFile
    <3>2. CASE some # <<>>
      <4>2. Len(some) \in Nat /\ DOMAIN some = 1..Len(some) /\ Len(some) >= 1
        BY <2>1, <3>2, LinesAre
      <4>3. LastFile(some) = some[Len(some)].file
        BY <2>1, <3>2, LinesAre
      <4>1. Len(some) \in DOMAIN some /\ LastFile(some) = some[Len(some)].file
        BY <4>2, <4>3
      <4> QED
        BY <2>1, <4>1 DEF Ordered
    <3> QED
      BY <3>1, <3>2
  <2> QED
    BY <1>10, <2>1
<1>12. Grows(old, lines)
  <2>1. Len(old) <= Len(lines)
    BY <1>1, <1>5
  <2>2. \A i \in DOMAIN lines : i > Len(old) => lines[i].file >= LastFile(old)
    BY <1>9, <1>11
  <2>3. \A i \in DOMAIN old : lines[i] = old[i]
    BY <1>1, <1>7
  <2> QED
    BY <2>1, <2>2, <2>3 DEF Grows
<1> QED
  BY <1>5, <1>10, <1>11, <1>12

LEMMA StateFits ==
    ASSUME NEW lines, NEW rec, Fits(rec, lines), NEW state \in RunStates
    PROVE  Fits([rec EXCEPT !.state = state], lines)
<1> DEFINE new == [rec EXCEPT !.state = state]
<1>1. rec \in RecordType
  BY DEF Fits
<1>2. new \in RecordType /\ new.files = rec.files /\ new.known = rec.known
  BY <1>1 DEF RecordType
<1> HIDE DEF new
<1>3. Fits(new, lines)
  BY <1>2 DEF Fits
<1> QED
  BY <1>3 DEF new

LEMMA ActFits ==
    ASSUME StreamInv, NEW h \in Handlers, handler[h].run \in Runs, Appends(handler[h].run, 1) \/ Appends(handler[h].run, 2),
           NEW state \in RunStates, NEW rec, record' = [record EXCEPT ![handler[h].run] = rec],
           UNCHANGED <<run, stream>>, StillHeld,
           rec = Summarized(h, state)
             \/ (handler[h].run \notin NativeRuns /\ Fits(rec, journal[handler[h].run]))
    PROVE  StreamInv'
<1> DEFINE r == handler[h].run
           old == journal[r]
<1>1. /\ run \in [Runs -> RunType] /\ journal \in [Runs -> Seq(Line)] /\ record \in [Runs -> RecordType]
      /\ Ordered(old, r \in NativeRuns) /\ LastFile(old) + run[r].left <= MaxLines + 1
      /\ Fits(record[r], old) /\ run[r] \in RunType
  BY DEF StreamInv, JournalInv
<1>2. run' = [run EXCEPT ![r] = run[r]] /\ stream' = stream
  BY <1>1
<1>3. CASE r \in NativeRuns
  <2>1. PICK n \in {1, 2} : journal' = [journal EXCEPT ![r] = @ \o [i \in 1..n |-> [file |-> 1, whole |-> TRUE]]]
    BY <1>3, Zenon DEF Appends
  <2> DEFINE lines == old \o [i \in 1..n |-> [file |-> 1, whole |-> TRUE]]
  <2>2. journal' = [journal EXCEPT ![r] = lines]
    BY <2>1
  <2>3. Ordered(old, TRUE) /\ n \in Nat
    BY <1>1, <1>3 DEF Ordered
  <2>4. /\ lines \in Seq(Line) /\ Ordered(lines, TRUE) /\ Grows(old, lines) /\ LastFile(lines) = LastFile(old)
    BY <2>3, LinesAdded
  <2> HIDE DEF lines, r, old
  <2>5. journal'[r] = lines
    BY <1>1, <2>2 DEF r
  <2>6. rec = [record[r] EXCEPT !.state = state, !.known = LastWhole(lines)]
    BY <1>3, <2>5 DEF Summarized, r
  <2>7. record[r] \in RecordType /\ record[r].files \in 1..LastFile(lines)
    BY <1>1, <2>4 DEF Fits
  <2>8. rec = [state |-> state, files |-> record[r].files, known |-> LastWhole(lines)]
    BY <2>6, <2>7 DEF RecordType
  <2>9. Fits(rec, lines)
    BY <2>4, <2>7, <2>8, NewRecordFits
  <2>10. Ordered(lines, r \in NativeRuns)
    BY <1>3, <2>4 DEF Ordered
  <2> QED
    BY <1>1, <1>2, <2>2, <2>4, <2>9, <2>10, RunGoes DEF r, old
<1>4. CASE r \notin NativeRuns
  <2>1. journal' = journal
    BY <1>4 DEF Appends
  <2>2. Fits(rec, old)
    <3>1. CASE rec = Summarized(h, state)
      <4>1. rec = RecordOf(r, state)
        BY <1>4, <3>1 DEF Summarized
      <4> QED
        BY <4>1, RecordOfFits DEF StreamInv
    <3> QED
      BY <1>4, <3>1
  <2>3. journal' = [journal EXCEPT ![r] = old] /\ old \in Seq(Line)
    BY <1>1, <2>1
  <2>4. Grows(old, old)
    BY <1>1, SameLines
  <2> QED
    BY <1>1, <1>2, <2>2, <2>3, <2>4, RunGoes
<1> QED
  BY <1>3, <1>4

LEMMA ActsKeepStreams ==
    ASSUME BaseInv, StreamInv, NEW h \in Handlers, Rollback(h) \/ Commit(h)
    PROVE  StreamInv'
<1>1. OnlyMoves(h) /\ handler'[h].at = "history"
  BY ActsFacts DEF Quiet
<1>2. StillHeld
  BY <1>1 DEF StillHeld, OnlyMoves
<1>3. At(h, "action", "work")
  BY Zenon DEF Rollback, Commit
<1>4. handler[h].run \in Runs /\ Fits(handler[h].record, journal[handler[h].run])
  BY <1>3 DEF StreamInv, HeldInv, At
<1>5. CASE Rollback(h)
  <2>1. /\ Appends(handler[h].run, 1) /\ Records(h, "rolled_back", Summarized(h, "rolled_back"))
        /\ UNCHANGED <<run, stream>>
    BY <1>5, Zenon DEF Rollback
  <2> DEFINE rec == Summarized(h, "rolled_back")
  <2>2. record' = [record EXCEPT ![handler[h].run] = rec]
    BY <2>1, Zenon DEF Records
  <2>3. "rolled_back" \in RunStates
    BY DEF RunStates
  <2>4. rec = Summarized(h, "rolled_back")
    OBVIOUS
  <2> HIDE DEF rec
  <2> QED
    BY <1>2, <1>4, <2>1, <2>2, <2>3, <2>4, ActFits, Zenon
<1>6. CASE Commit(h)
  <2> DEFINE rec == IF handler[h].run \in NativeRuns THEN Summarized(h, "committed")
                    ELSE [handler[h].record EXCEPT !.state = "committed"]
  <2>1. Appends(handler[h].run, 2) /\ Records(h, "committed", rec) /\ UNCHANGED <<run, stream>>
    BY <1>6, Zenon DEF Commit
  <2>2. record' = [record EXCEPT ![handler[h].run] = rec]
    BY <2>1, Zenon DEF Records
  <2>3. "committed" \in RunStates
    BY DEF RunStates
  <2>4. rec = Summarized(h, "committed") \/ (handler[h].run \notin NativeRuns /\ Fits(rec, journal[handler[h].run]))
    <3>1. CASE handler[h].run \in NativeRuns
      BY <3>1, Zenon
    <3>2. CASE handler[h].run \notin NativeRuns
      <4>1. rec = [handler[h].record EXCEPT !.state = "committed"]
        BY <3>2, Zenon
      <4> HIDE DEF rec
      <4> QED
        BY <1>4, <2>3, <3>2, <4>1, StateFits
    <3> QED
      BY <3>1, <3>2
  <2> HIDE DEF rec
  <2> QED
    BY <1>2, <1>4, <2>1, <2>2, <2>3, <2>4, ActFits, Zenon
<1> QED
  BY <1>5, <1>6

LEMMA LookupKeepsStreams ==
    ASSUME BaseInv, AimInv, StreamInv, NEW h \in Handlers, Lookup(h)
    PROVE  StreamInv'
<1>1. OnlyMoves(h) /\ Carries(h) /\ At(h, "action", "lookup") /\ UNCHANGED streamVars
  BY LookupFacts DEF Quiet, Lookup
<1>2. handler[h].run \in Runs
  BY <1>1 DEF AimInv, At
<1>3. CASE Listed(handler[h].run)
  <2>1. handler'[h].record = record[handler[h].run]
    <3>1. handler' = [handler EXCEPT ![h].at = "work", ![h].record = record[handler[h].run]]
      BY <1>3 DEF Lookup
    <3> QED
      BY <3>1, ReadStep DEF BaseInv, Steps
  <2>2. JournalInv' /\ SentInv' /\ journal' = journal
    BY <1>1 DEF StreamInv, JournalInv, SentInv, streamVars
  <2>3. HeldInv'
    <3> SUFFICES ASSUME NEW g \in Handlers, handler'[g].op = "action", handler'[g].at = "work"
                 PROVE  handler'[g].run \in Runs /\ Fits(handler'[g].record, journal'[handler'[g].run])
      BY DEF HeldInv
    <3>1. CASE g = h
      <4>1. Fits(record[handler[h].run], journal[handler[h].run])
        BY <1>2 DEF StreamInv, JournalInv
      <4> QED
        BY <1>1, <1>2, <2>1, <2>2, <3>1, <4>1 DEF Carries
    <3>2. CASE g # h
      BY <1>1, <2>2, <3>2 DEF StreamInv, HeldInv, OnlyMoves
    <3> QED
      BY <3>1, <3>2
  <2> QED
    BY <2>2, <2>3 DEF StreamInv
<1>4. CASE ~Listed(handler[h].run)
  <2>1. handler'[h].at = "audit"
    <3>1. Goto(h, "audit")
      BY <1>4 DEF Lookup, Refuse
    <3> QED
      BY <3>1, GotoStep DEF BaseInv, Steps
  <2> QED
    BY <1>1, <2>1, SameStreams DEF StillHeld, OnlyMoves
<1> QED
  BY <1>3, <1>4

LEMMA HandlerKeepsStreams ==
    ASSUME BaseInv, CatalogInv, AimInv, StreamInv, NEW h \in Handlers, HandlerStep(h)
    PROVE  StreamInv'
<1>1. CASE Issue(h) \/ Consume(h) \/ Lend(h) \/ Status(h) \/ ActionRefused(h) \/ Prune(h) \/ HistoryWritten(h)
  <2>1. UNCHANGED streamVars
    BY <1>1, Zenon DEF Issue, Consume, Lend, Status, ActionRefused, Prune, HistoryWritten
  <2>2. OnlyMoves(h) /\ handler'[h].at # "work"
    BY <1>1, IssueFacts, ConsumeFacts, LendFacts, StatusFacts, RefusedFacts, PruneFacts, WrittenFacts DEF Quiet
  <2> QED
    BY <2>1, <2>2, SameStreams DEF StillHeld, OnlyMoves
<1>2. CASE Mutate(h) \/ Replace(h) \/ Publish(h) \/ Audit(h)
  <2>1. UNCHANGED streamVars
    BY <1>2, Zenon DEF Mutate, Replace, Publish, Audit
  <2>2. OnlyMoves(h) /\ handler'[h].at # "work"
    BY <1>2, MutateFacts, ReplaceFacts, PublishFacts, AuditFacts DEF Quiet
  <2> QED
    BY <2>1, <2>2, SameStreams DEF StillHeld, OnlyMoves
<1> QED
  BY <1>1, <1>2, HandlerCases, ActsKeepStreams, LookupKeepsStreams

-----------------------------------------------------------------------------
(* The streams *)

LEMMA NothingSent ==
    ASSUME NEW lines, NEW native, Ordered(lines, native), LastFile(lines) <= MaxLines + 1,
           NEW pos, pos = [f \in 1..(MaxLines + 1) |-> 0]
    PROVE  SentTo(<<>>, pos, lines, 0) /\ PassedBy(1, pos, lines) /\ Fits(NoRecord, lines) /\ 0 \in 0..Len(lines)
<1>1. /\ Len(lines) \in Nat /\ DOMAIN lines = 1..Len(lines) /\ LastFile(lines) \in Nat /\ LastFile(lines) >= 1
      /\ MaxLines \in Nat
  BY LinesAre, StreamAssumption
<1>2. \A i \in DOMAIN lines : lines[i].file \in 1..(MaxLines + 1) /\ i \in Nat /\ i >= 1
  <2> TAKE i \in DOMAIN lines
  <2>1. lines[i].file \in Nat /\ lines[i].file >= 1 /\ lines[i].file <= LastFile(lines)
    BY LinesAre
  <2> QED
    BY <1>1, <2>1
<1>3. SentTo(<<>>, pos, lines, 0)
  <2>1. Enumerates(<<>>, ValidUpTo(lines, 0))
    <3>1. ValidUpTo(lines, 0) = {}
      BY DEF ValidUpTo
    <3>2. DOMAIN <<>> = {}
      OBVIOUS
    <3> QED
      BY <3>1, <3>2 DEF Enumerates, Range
  <2>2. \A i \in DOMAIN lines : lines[i].whole => (i <= 0 <=> i <= pos[lines[i].file])
    BY <1>2
  <2> QED
    BY <1>1, <2>1, <2>2 DEF SentTo
<1>4. PassedBy(1, pos, lines)
  BY <1>1, <1>2 DEF PassedBy
<1>5. Fits(NoRecord, lines)
  <2>1. NoRecord \in RecordType /\ NoRecord.files = 1 /\ NoRecord.known = 0
    BY DEF NoRecord, RecordType, RunStates
  <2> QED
    BY <1>1, <2>1 DEF Fits
<1> QED
  BY <1>1, <1>3, <1>4, <1>5

LEMMA RecordIs ==
    ASSUME NEW lines, NEW native, Ordered(lines, native), NEW rec, Fits(rec, lines)
    PROVE  /\ rec.files \in Nat /\ rec.files >= 1 /\ rec.files <= LastFile(lines) /\ rec.known \in Nat
           /\ 1 \in 1..rec.files
<1>1. rec.files \in 1..LastFile(lines) /\ rec.known \in 0..Len(lines)
  BY DEF Fits
<1>2. LastFile(lines) \in Nat /\ Len(lines) \in Nat
  BY LinesAre
<1> QED
  BY <1>1, <1>2

LEMMA RunLines ==
    ASSUME StreamInv, NEW r \in Runs
    PROVE  /\ Ordered(journal[r], r \in NativeRuns) /\ LastFile(journal[r]) <= MaxLines + 1
           /\ LastFile(journal[r]) \in Nat /\ Fits(record[r], journal[r])
<1>1. /\ Ordered(journal[r], r \in NativeRuns) /\ LastFile(journal[r]) + run[r].left <= MaxLines + 1
      /\ Fits(record[r], journal[r])
  BY DEF StreamInv, JournalInv
<1>2. run[r].left \in Nat
  BY DEF StreamInv, JournalInv, RunType
<1>3. LastFile(journal[r]) \in Nat /\ MaxLines \in Nat
  BY <1>1, LinesAre, StreamAssumption
<1> QED
  BY <1>1, <1>2, <1>3

LEMMA StreamGoes ==
    ASSUME StreamInv, NEW s \in Streams, NEW new \in StreamType, stream' = [stream EXCEPT ![s] = new],
           UNCHANGED <<run, journal, record, handler>>,
           new.at # "idle", Follows(new, journal[new.run])
    PROVE  StreamInv'
<1>1. JournalInv' /\ HeldInv' /\ journal' = journal
  BY DEF StreamInv, JournalInv, HeldInv
<1>2. /\ stream' \in [Streams -> StreamType] /\ stream'[s] = new
      /\ \A q \in Streams : q # s => stream'[q] = stream[q]
  BY DEF StreamInv, SentInv
<1>3. ASSUME NEW q \in Streams
      PROVE  IF stream'[q].at = "idle" THEN Unsent(stream'[q]) ELSE Follows(stream'[q], journal[stream'[q].run])
  <2>1. CASE q = s
    BY <1>2, <2>1
  <2>2. CASE q # s
    BY <1>2, <2>2 DEF StreamInv, SentInv
  <2> QED
    BY <2>1, <2>2
<1>4. SentInv'
  BY <1>1, <1>2, <1>3 DEF SentInv
<1> QED
  BY <1>1, <1>4 DEF StreamInv

LEMMA StreamIs ==
    ASSUME StreamInv, NEW s \in Streams
    PROVE  /\ stream[s] \in StreamType /\ stream \in [Streams -> StreamType] /\ stream[s].run \in Runs
           /\ IF stream[s].at = "idle" THEN Unsent(stream[s]) ELSE Follows(stream[s], journal[stream[s].run])
<1>1. stream[s] \in StreamType
  BY DEF StreamInv, SentInv
<1>2. stream[s].run \in Runs
  BY <1>1 DEF StreamType
<1> QED
  BY <1>1, <1>2 DEF StreamInv, SentInv

\* A stream that ends keeps what it has sent.
LEMMA EndsKeeps ==
    ASSUME StreamInv, NEW s \in Streams, NEW why \in {"terminal", "snapshot", "quiet", "gone", "refused"},
           Ends(s, why), UNCHANGED <<run, journal, record, handler>>,
           why \in {"terminal", "snapshot"} => stream[s].at = "check"
    PROVE  StreamInv'
<1> DEFINE st == stream[s]
           new == [st EXCEPT !.at = "ended", !.why = why]
           lines == journal[st.run]
<1>1. /\ st \in StreamType /\ stream \in [Streams -> StreamType] /\ st.run \in Runs
      /\ IF st.at = "idle" THEN Unsent(st) ELSE Follows(st, lines)
  BY StreamIs
<1>2. stream' = [stream EXCEPT ![s] = new]
  BY <1>1 DEF Ends
<1>3. /\ new \in StreamType /\ new.at = "ended" /\ new.why = why /\ new.run = st.run
      /\ new.record = st.record /\ new.sent = st.sent /\ new.pos = st.pos
  BY <1>1 DEF StreamType
<1> HIDE DEF new
<1>4. Follows(new, lines)
  <2>1. CASE st.at = "idle"
    <3>1. Unsent(st)
      BY <1>1, <2>1
    <3>2. Ordered(lines, st.run \in NativeRuns) /\ LastFile(lines) <= MaxLines + 1
      BY <1>1, RunLines
    <3>3. SentTo(new.sent, new.pos, lines, 0) /\ Fits(new.record, lines) /\ 0 \in 0..Len(lines)
      BY <1>3, <3>1, <3>2, NothingSent DEF Unsent
    <3>4. why \notin {"terminal", "snapshot"}
      BY <2>1
    <3> QED
      BY <1>3, <3>3, <3>4 DEF Follows
  <2>2. CASE st.at # "idle"
    <3>1. Follows(st, lines)
      BY <1>1, <2>2
    <3> QED
      BY <1>3, <3>1 DEF Follows
  <2> QED
    BY <2>1, <2>2
<1> QED
  BY <1>1, <1>2, <1>3, <1>4, StreamGoes

LEMMA RequestKeeps ==
    ASSUME StreamInv, NEW s \in Streams, NEW r \in Runs, NEW follow \in BOOLEAN, Request(s, r, follow),
           handler' = handler
    PROVE  StreamInv'
<1> DEFINE st == stream[s]
           lines == journal[r]
<1>1. st \in StreamType /\ stream \in [Streams -> StreamType] /\ st.at = "idle" /\ Unsent(st)
  BY StreamIs DEF Request
<1>2. UNCHANGED <<run, journal, record, handler>>
  BY DEF Request
<1>3. CASE Ends(s, "refused")
  BY <1>1, <1>2, <1>3, EndsKeeps
<1>4. CASE stream' = [stream EXCEPT ![s].at = IF follow THEN "read" ELSE "delta",
                          ![s].run = r, ![s].follow = follow, ![s].record = record[r]]
  <2> DEFINE at == IF follow THEN "read" ELSE "delta"
             new == [st EXCEPT !.at = at, !.run = r, !.follow = follow, !.record = record[r]]
  <2>1. stream' = [stream EXCEPT ![s] = new]
    BY <1>1, <1>4
  <2>2. Ordered(lines, r \in NativeRuns) /\ LastFile(lines) <= MaxLines + 1 /\ Fits(record[r], lines)
    BY RunLines
  <2>3. record[r] \in RecordType /\ at \in {"read", "delta"}
    BY <2>2 DEF Fits
  <2> HIDE DEF at
  <2>4. /\ new \in StreamType /\ new.at = at /\ new.run = r /\ new.record = record[r]
        /\ new.sent = st.sent /\ new.pos = st.pos /\ new.file = st.file /\ new.why = st.why
    BY <1>1, <2>3 DEF StreamType
  <2> HIDE DEF new
  <2>5. /\ new.sent = <<>> /\ new.file = 1 /\ new.why = "" /\ new.pos = [f \in 1..(MaxLines + 1) |-> 0]
    BY <1>1, <2>4 DEF Unsent
  <2>6. SentTo(new.sent, new.pos, lines, 0) /\ PassedBy(new.file, new.pos, lines) /\ 0 \in 0..Len(lines)
    BY <2>2, <2>5, NothingSent
  <2>7. new.file \in 1..new.record.files
    <3>1. 1 \in 1..record[r].files
      BY <2>2, RecordIs
    <3> QED
      BY <2>4, <2>5, <3>1
  <2>8. Follows(new, lines)
    BY <2>2, <2>3, <2>4, <2>5, <2>6, <2>7 DEF Follows
  <2> QED
    BY <1>2, <2>1, <2>3, <2>4, <2>8, StreamGoes
<1> QED
  BY <1>3, <1>4 DEF Request

LEMMA RefreshKeeps ==
    ASSUME StreamInv, NEW s \in Streams, Refresh(s), handler' = handler
    PROVE  StreamInv'
<1> DEFINE st == stream[s]
           r == st.run
           lines == journal[r]
           new == [st EXCEPT !.at = "delta", !.record = record[r], !.file = 1, !.wrote = FALSE]
<1>1. /\ st \in StreamType /\ stream \in [Streams -> StreamType] /\ r \in Runs /\ st.at = "read"
      /\ Follows(st, lines)
  BY StreamIs DEF Refresh
<1>2. UNCHANGED <<run, journal, record, handler>> /\ stream' = [stream EXCEPT ![s] = new]
  BY <1>1 DEF Refresh
<1>3. Ordered(lines, r \in NativeRuns) /\ Fits(record[r], lines) /\ record[r] \in RecordType
  BY <1>1, RunLines DEF Fits
<1>4. /\ new \in StreamType /\ new.at = "delta" /\ new.run = r /\ new.record = record[r]
      /\ new.sent = st.sent /\ new.pos = st.pos /\ new.file = 1 /\ new.why = st.why
  BY <1>1, <1>3 DEF StreamType
<1> HIDE DEF new
<1>5. new.why = "" /\ \E n \in 0..Len(lines) : SentTo(new.sent, new.pos, lines, n)
  BY <1>1, <1>4 DEF Follows
<1>6. PassedBy(1, new.pos, lines)
  <2>1. \A i \in DOMAIN lines : lines[i].file \in Nat /\ lines[i].file >= 1
    BY <1>3, LinesAre
  <2> QED
    BY <2>1 DEF PassedBy
<1>7. new.file \in 1..new.record.files
  BY <1>3, <1>4 DEF Fits, RecordType
<1>8. Follows(new, lines)
  BY <1>3, <1>4, <1>5, <1>6, <1>7 DEF Follows
<1> QED
  BY <1>1, <1>2, <1>4, <1>8, StreamGoes

LEMMA ReadableIs ==
    ASSUME StreamInv, NEW s \in Streams, NEW file
    PROVE  Readable(s, file) = WholeIn(journal[stream[s].run], file)
<1> DEFINE r == stream[s].run
           lines == journal[r]
           whole == {i \in InFile(lines, file) : lines[i].whole}
<1>1. r \in Runs /\ Ordered(lines, r \in NativeRuns)
  BY StreamIs, RunLines
<1>2. CASE stream[s].follow \/ r \in NativeRuns
  BY <1>2 DEF Readable, WholeIn
<1>3. CASE ~(stream[s].follow \/ r \in NativeRuns)
  <2>1. Readable(s, file) = {i \in whole : \A j \in InFile(lines, file) : j <= i => lines[j].whole}
    BY <1>3 DEF Readable
  <2>2. ASSUME NEW i \in whole, NEW j \in InFile(lines, file), j <= i
        PROVE  lines[j].whole
    <3>1. i \in DOMAIN lines /\ lines[i].whole /\ j \in DOMAIN lines
      BY DEF InFile
    <3>2. DOMAIN lines = 1..Len(lines) /\ Len(lines) \in Nat
      BY <1>1, LinesAre
    <3>3. j = i \/ j < Len(lines)
      BY <2>2, <3>1, <3>2
    <3> QED
      BY <1>1, <1>3, <3>1, <3>3 DEF Ordered
  <2> QED
    BY <2>1, <2>2 DEF WholeIn
<1> QED
  BY <1>2, <1>3

\* What a stream becomes by reading a file.
AtAfter(st) == IF st.file = st.record.files THEN "check" ELSE "delta"
WithFile(st, lines, wrote) ==
    [st EXCEPT !.sent = SentWith(lines, st.file, st.pos, st.sent), !.wrote = wrote,
               !.pos = PosWith(lines, st.file, st.pos), !.file = st.file + 1, !.at = AtAfter(st)]

LEMMA WithFileIs ==
    ASSUME NEW st \in StreamType, NEW lines, NEW wrote \in BOOLEAN,
           SentWith(lines, st.file, st.pos, st.sent) \in Seq(Nat),
           PosWith(lines, st.file, st.pos) \in [1..(MaxLines + 1) -> Nat]
    PROVE  LET new == WithFile(st, lines, wrote)
           IN /\ new \in StreamType /\ new.at = AtAfter(st) /\ new.run = st.run /\ new.record = st.record
              /\ new.sent = SentWith(lines, st.file, st.pos, st.sent) /\ new.pos = PosWith(lines, st.file, st.pos)
              /\ new.file = st.file + 1 /\ new.why = st.why
<1> DEFINE more == SentWith(lines, st.file, st.pos, st.sent)
           next == PosWith(lines, st.file, st.pos)
           at == AtAfter(st)
           file == st.file + 1
<1>1. more \in Seq(Nat) /\ next \in [1..(MaxLines + 1) -> Nat] /\ at \in {"check", "delta"} /\ file \in Nat
  <2>1. st.file \in Nat
    BY DEF StreamType
  <2>2. at \in {"check", "delta"}
    BY DEF AtAfter
  <2> QED
    BY <2>1, <2>2
<1>2. WithFile(st, lines, wrote) = [st EXCEPT !.sent = more, !.wrote = wrote, !.pos = next, !.file = file, !.at = at]
  BY DEF WithFile
<1>3. st.file + 1 = file
  OBVIOUS
<1> HIDE DEF more, next, at, file
<1> DEFINE new == [st EXCEPT !.sent = more, !.wrote = wrote, !.pos = next, !.file = file, !.at = at]
<1>4. /\ new \in StreamType /\ new.at = at /\ new.run = st.run /\ new.record = st.record
      /\ new.sent = more /\ new.pos = next /\ new.file = file /\ new.why = st.why
  BY <1>1 DEF StreamType
<1> HIDE DEF new
<1>5. WithFile(st, lines, wrote) = new
  BY <1>2 DEF new
<1> QED
  BY <1>3, <1>4, <1>5 DEF more, next, at

LEMMA ReadFollows ==
    ASSUME NEW lines, NEW native, Ordered(lines, native), LastFile(lines) <= MaxLines + 1,
           NEW st \in StreamType, st.at = "delta", Follows(st, lines), NEW wrote \in BOOLEAN
    PROVE  LET new == WithFile(st, lines, wrote)
           IN new \in StreamType /\ new.at # "idle" /\ new.run = st.run /\ Follows(new, lines)
<1> DEFINE file == st.file
           files == st.record.files
           k == st.record.known
           sent == st.sent
           pos == st.pos
           more == SentWith(lines, file, pos, sent)
           next == PosWith(lines, file, pos)
           new == WithFile(st, lines, wrote)
<1>1. /\ Fits(st.record, lines) /\ st.why = "" /\ PassedBy(file, pos, lines)
      /\ sent \in Seq(Nat) /\ pos \in [1..(MaxLines + 1) -> Nat] /\ file \in Nat
  BY DEF Follows, StreamType
<1>2. PICK n \in 0..Len(lines) : SentTo(sent, pos, lines, n)
  BY DEF Follows
<1>3. files \in Nat /\ files <= LastFile(lines)
  BY <1>1, RecordIs
<1>4. /\ LastFile(lines) \in Nat /\ MaxLines \in Nat /\ Len(lines) \in Nat /\ DOMAIN lines = 1..Len(lines)
      /\ n \in Nat
  BY LinesAre, StreamAssumption
<1>5. file \in 1..files
  BY DEF Follows
<1>6. k \in 0..Len(lines) /\ (k # 0 => lines[k].whole /\ lines[k].file <= files)
  BY <1>1 DEF Fits
<1>10. AtAfter(st) \in {"check", "delta"} /\ (AtAfter(st) = "check" <=> file = files)
  BY DEF AtAfter
<1>17. file \in Nat
  BY DEF StreamType
<1> HIDE DEF file, files, k, sent, pos
<1>7. file >= 1 /\ file <= files /\ file \in 1..(MaxLines + 1)
  <2>1. file >= 1 /\ file <= files
    BY <1>3, <1>5
  <2>2. file <= MaxLines + 1
    BY <1>3, <1>4, <1>17, <2>1
  <2> QED
    BY <1>4, <1>17, <2>1, <2>2
<1>8. /\ more \in Seq(Nat) /\ next \in [1..(MaxLines + 1) -> Nat]
      /\ PassedBy(file + 1, next, lines)
      /\ \E m \in 0..Len(lines) : SentTo(more, next, lines, m) /\ m >= n /\ \A i \in WholeIn(lines, file) : i <= m
  BY <1>1, <1>2, <1>7, FileIsRead
<1> HIDE DEF more, next
<1>9. PICK m \in 0..Len(lines) : SentTo(more, next, lines, m) /\ m >= n /\ \A i \in WholeIn(lines, file) : i <= m
  BY <1>8
<1>11. /\ new \in StreamType /\ new.at = AtAfter(st) /\ new.run = st.run /\ new.record = st.record
       /\ new.sent = more /\ new.pos = next /\ new.file = file + 1 /\ new.why = ""
  BY <1>1, <1>8, WithFileIs DEF file, sent, pos, more, next
<1> HIDE DEF new
\* What the record knew of is sent when its last file is read.
<1>12. ASSUME file = files PROVE k <= m
  <2>0. m \in Nat
    BY <1>4, <1>9
  <2>1. CASE k = 0
    BY <2>0, <2>1
  <2>2. CASE k # 0
    <3>1. k \in DOMAIN lines /\ k \in Nat /\ lines[k].whole /\ lines[k].file <= file /\ lines[k].file \in Nat
      <4>1. k \in DOMAIN lines /\ k \in Nat
        BY <1>4, <1>6, <2>2
      <4>2. lines[k].file \in Nat
        BY <4>1, LinesAre
      <4> QED
        BY <1>6, <1>12, <2>2, <4>1, <4>2
    <3>2. CASE lines[k].file = file
      <4>1. k \in WholeIn(lines, file)
        BY <3>1, <3>2 DEF InFile, WholeIn
      <4> QED
        BY <1>9, <4>1
    <3>3. CASE lines[k].file # file
      <4>1. lines[k].file < file
        BY <1>17, <3>1, <3>3
      <4>2. k <= pos[lines[k].file]
        BY <1>1, <3>1, <4>1 DEF PassedBy
      <4>3. k <= n
        BY <1>2, <3>1, <4>2 DEF SentTo
      <4> QED
        BY <1>4, <1>9, <2>0, <3>1, <4>3
    <3> QED
      BY <3>2, <3>3
  <2> QED
    BY <2>1, <2>2
<1>13. ASSUME file # files PROVE file + 1 \in 1..files
  BY <1>3, <1>7, <1>13, <1>17
<1>14. new.at = "check" => new.record.known <= m
  BY <1>10, <1>11, <1>12 DEF k
<1>15. new.at = "delta" => new.file \in 1..new.record.files
  BY <1>10, <1>11, <1>13 DEF files
<1>16. Follows(new, lines)
  BY <1>1, <1>8, <1>9, <1>11, <1>14, <1>15 DEF Follows
<1> QED
  BY <1>10, <1>11, <1>16 DEF new

LEMMA DeltaIs ==
    ASSUME StreamInv, NEW s \in Streams, Delta(s)
    PROVE  /\ (stream[s].wrote \/ Fresh(s) # <<>>) \in BOOLEAN
           /\ stream' = [stream EXCEPT ![s] = WithFile(stream[s], journal[stream[s].run],
                                                       stream[s].wrote \/ Fresh(s) # <<>>)]
<1> DEFINE st == stream[s]
           lines == journal[st.run]
           file == st.file
           read == Readable(s, file)
           end == IF read = {} THEN st.pos[file] ELSE Max(read)
           at == AtAfter(st)
           wrote == st.wrote \/ Fresh(s) # <<>>
           more == st.sent \o Fresh(s)
           new == [st EXCEPT !.sent = more, !.wrote = wrote, !.pos = [st.pos EXCEPT ![file] = end],
                             !.file = file + 1, !.at = at]
<1>1. st \in StreamType /\ stream \in [Streams -> StreamType]
  BY StreamIs
<1>3. stream' = [stream EXCEPT ![s].sent = more, ![s].wrote = wrote, ![s].pos[file] = end,
                     ![s].file = file + 1, ![s].at = at]
  BY Zenon DEF Delta, AtAfter
<1>4. stream' = [stream EXCEPT ![s] = new]
  <2> HIDE DEF more, wrote, end, at
  <2> QED
    BY <1>1, <1>3
<1>5. read = WholeIn(lines, file)
  BY ReadableIs
<1>6. Fresh(s) = InOrder(FreshIn(lines, file, st.pos))
  BY <1>5 DEF Fresh, FreshIn
<1>7. more = SentWith(lines, file, st.pos, st.sent)
  BY <1>6 DEF SentWith
<1>8. [st.pos EXCEPT ![file] = end] = PosWith(lines, file, st.pos)
  BY <1>5 DEF PosWith, EndOf
<1>9. wrote \in BOOLEAN
  BY <1>1 DEF StreamType
<1> HIDE DEF more, wrote, end, at
<1>10. new = [st EXCEPT !.sent = SentWith(lines, file, st.pos, st.sent), !.wrote = wrote,
                        !.pos = PosWith(lines, file, st.pos), !.file = file + 1, !.at = at]
  BY <1>7, <1>8, Zenon
<1>11. new = WithFile(st, lines, wrote)
  BY <1>10, Zenon DEF WithFile, at
<1> HIDE DEF new
<1> QED
  BY <1>4, <1>9, <1>11 DEF wrote

LEMMA DeltaKeeps ==
    ASSUME StreamInv, NEW s \in Streams, Delta(s), handler' = handler
    PROVE  StreamInv'
<1> DEFINE st == stream[s]
           lines == journal[st.run]
           wrote == st.wrote \/ Fresh(s) # <<>>
<1>1. /\ st \in StreamType /\ stream \in [Streams -> StreamType] /\ st.run \in Runs /\ st.at = "delta"
      /\ Follows(st, lines)
  BY StreamIs DEF Delta
<1>2. UNCHANGED <<run, journal, record, handler>>
  BY Zenon DEF Delta
<1>3. wrote \in BOOLEAN /\ stream' = [stream EXCEPT ![s] = WithFile(st, lines, wrote)]
  BY DeltaIs
<1>4. Ordered(lines, st.run \in NativeRuns) /\ LastFile(lines) <= MaxLines + 1
  BY <1>1, RunLines
<1> DEFINE new == WithFile(st, lines, wrote)
<1> HIDE DEF wrote
<1>5. new \in StreamType /\ new.at # "idle" /\ new.run = st.run /\ Follows(new, lines)
  <2> HIDE DEF st, lines
  <2> QED
    BY <1>1, <1>3, <1>4, ReadFollows
<1> HIDE DEF new
<1>6. stream' = [stream EXCEPT ![s] = new]
  BY <1>3 DEF new
<1> QED
  BY <1>1, <1>2, <1>5, <1>6, StreamGoes

LEMMA CheckKeeps ==
    ASSUME StreamInv, NEW s \in Streams, Check(s), handler' = handler
    PROVE  StreamInv'
<1> DEFINE st == stream[s]
           lines == journal[st.run]
           new == [st EXCEPT !.at = "read"]
<1>1. /\ st \in StreamType /\ stream \in [Streams -> StreamType] /\ st.run \in Runs /\ st.at = "check"
      /\ Follows(st, lines)
  BY StreamIs DEF Check
<1>2. UNCHANGED <<run, journal, record, handler>>
  BY DEF Check
<1>3. CASE \E why \in {"snapshot", "terminal", "quiet"} : Ends(s, why)
  BY <1>1, <1>2, <1>3, EndsKeeps
<1>4. CASE stream' = [stream EXCEPT ![s].at = "read"]
  <2>1. stream' = [stream EXCEPT ![s] = new]
    BY <1>4
  <2>2. /\ new \in StreamType /\ new.at = "read" /\ new.run = st.run /\ new.record = st.record
        /\ new.sent = st.sent /\ new.pos = st.pos /\ new.why = st.why
    BY <1>1 DEF StreamType
  <2> HIDE DEF new
  <2>3. Follows(new, lines)
    BY <1>1, <2>2 DEF Follows
  <2> QED
    BY <1>1, <1>2, <2>1, <2>2, <2>3, StreamGoes
<1> QED
  BY <1>3, <1>4 DEF Check

LEMMA StreamsKeepStreams ==
    ASSUME StreamInv, NEW s \in Streams, handler' = handler,
           StreamStep(s) \/ \E r \in Runs, follow \in BOOLEAN : Request(s, r, follow)
    PROVE  StreamInv'
<1>1. CASE Leave(s)
  <2>1. Ends(s, "gone") /\ UNCHANGED <<run, journal, record, handler>>
    BY <1>1 DEF Leave
  <2> QED
    BY <2>1, EndsKeeps
<1> QED
  BY <1>1, RequestKeeps, RefreshKeeps, DeltaKeeps, CheckKeeps DEF StreamStep

-----------------------------------------------------------------------------
(* The death of the supervisor, and all the steps *)

\* A stream that has not sent anything, or has been cut off.
LEMMA CutOff ==
    ASSUME NEW st \in StreamType, st.at \notin {"idle", "ended"}, NEW lines, Follows(st, lines)
    PROVE  LET new == [st EXCEPT !.at = "ended", !.why = "gone"]
           IN new \in StreamType /\ new.at = "ended" /\ new.run = st.run /\ Follows(new, lines)
<1> DEFINE new == [st EXCEPT !.at = "ended", !.why = "gone"]
<1>1. /\ new \in StreamType /\ new.at = "ended" /\ new.why = "gone" /\ new.run = st.run
      /\ new.record = st.record /\ new.sent = st.sent /\ new.pos = st.pos
  BY DEF StreamType
<1> HIDE DEF new
<1>2. Follows(new, lines)
  BY <1>1 DEF Follows
<1> QED
  BY <1>1, <1>2 DEF new

LEMMA KilledKeepsStreams ==
    ASSUME BaseInv, StreamInv, Killed
    PROVE  StreamInv'
<1>1. /\ UNCHANGED <<run, journal, record>>
      /\ stream' = [s \in Streams |-> IF stream[s].at \in {"idle", "ended"} THEN stream[s]
                                      ELSE [stream[s] EXCEPT !.at = "ended", !.why = "gone"]]
  BY DEF Killed
<1>2. JournalInv'
  BY <1>1 DEF StreamInv, JournalInv
<1>3. HeldInv'
  <2>1. \A h \in Handlers : handler'[h].at # "work"
    BY KilledFacts DEF BaseInv
  <2> QED
    BY <2>1 DEF HeldInv
<1>4. ASSUME NEW s \in Streams
      PROVE  /\ stream'[s] \in StreamType
             /\ IF stream'[s].at = "idle" THEN Unsent(stream'[s])
                ELSE Follows(stream'[s], journal[stream'[s].run])
  <2>1. /\ stream[s] \in StreamType
        /\ IF stream[s].at = "idle" THEN Unsent(stream[s]) ELSE Follows(stream[s], journal[stream[s].run])
    BY StreamIs
  <2>2. CASE stream[s].at \in {"idle", "ended"}
    BY <1>1, <2>1, <2>2
  <2>3. CASE stream[s].at \notin {"idle", "ended"}
    <3>1. stream'[s] = [stream[s] EXCEPT !.at = "ended", !.why = "gone"]
      BY <1>1, <2>3
    <3> DEFINE st == stream[s]
               lines == journal[st.run]
    <3>2. st \in StreamType /\ st.at \notin {"idle", "ended"} /\ Follows(st, lines)
      BY <2>1, <2>3
    <3> DEFINE new == [st EXCEPT !.at = "ended", !.why = "gone"]
    <3>3. new \in StreamType /\ new.at = "ended" /\ new.run = st.run /\ Follows(new, lines)
      <4> HIDE DEF st, lines
      <4> QED
        BY <3>2, CutOff
    <3>4. stream'[s] = new
      BY <3>1
    <3> HIDE DEF new
    <3> QED
      BY <3>3, <3>4
  <2> QED
    BY <2>2, <2>3
<1>5. SentInv'
  <2>1. stream' = [s \in Streams |-> stream'[s]]
    BY <1>1
  <2>2. stream' \in [Streams -> StreamType]
    BY <1>4, <2>1
  <2> QED
    BY <1>1, <1>4, <2>2 DEF SentInv
<1> QED
  BY <1>2, <1>3, <1>5 DEF StreamInv

LEMMA StreamsKept ==
    ASSUME BaseInv, CatalogInv, AimInv, StreamInv, [Next]_vars
    PROVE  StreamInv'
<1>1. ASSUME UNCHANGED streamVars, UNCHANGED handler
      PROVE  StreamInv'
  BY <1>1, SameStreams DEF StillHeld
<1>2. CASE UNCHANGED vars
  <2>1. UNCHANGED streamVars /\ UNCHANGED handler
    BY <1>2, Zenon DEF vars, handlerVars
  <2> QED
    BY <1>1, <2>1
<1>3. CASE Step
  <2>1. ASSUME NEW h \in Handlers, HandlerStep(h) \/ OpenLease(h) \/ Revoke(h) \/ Expire(h)
        PROVE  StreamInv'
    <3>1. CASE HandlerStep(h)
      BY <3>1, HandlerKeepsStreams
    <3>2. CASE OpenLease(h) \/ Revoke(h) \/ Expire(h)
      <4>1. UNCHANGED streamVars /\ UNCHANGED handler
        BY <3>2, Zenon DEF OpenLease, Revoke, Expire
      <4> QED
        BY <1>1, <4>1
    <3> QED
      BY <2>1, <3>1, <3>2
  <2>2. ASSUME NEW w \in Writers, UNCHANGED streamVars, Elsewhere
        PROVE  StreamInv'
    <3>1. UNCHANGED handler
      BY <2>2, Zenon DEF Elsewhere, handlerVars
    <3> QED
      BY <1>1, <2>2, <3>1
  <2>3. ASSUME NEW r \in Runs, RunStep(r) \/ RunKilled(r), Elsewhere
        PROVE  StreamInv'
    <3>1. UNCHANGED handler
      BY <2>3, Zenon DEF Elsewhere, handlerVars
    <3> QED
      BY <2>3, <3>1, RunKeepsStreams
  <2>4. ASSUME NEW s \in Streams, Elsewhere,
               StreamStep(s) \/ \E r \in Runs, follow \in BOOLEAN : Request(s, r, follow)
        PROVE  StreamInv'
    <3>1. UNCHANGED handler
      BY <2>4, Zenon DEF Elsewhere, handlerVars
    <3> QED
      BY <2>4, <3>1, StreamsKeepStreams
  <2> QED
    BY <1>3, <2>1, <2>2, <2>3, <2>4, KilledKeepsStreams, Zenon DEF Step
<1> QED
  BY <1>2, <1>3, Zenon DEF Next

-----------------------------------------------------------------------------
(* The streams at the beginning *)

OneLine == <<[file |-> 1, whole |-> TRUE]>>
Reviewed == [state |-> "succeeded", files |-> 1, known |-> 1]
Going == [NoRecord EXCEPT !.state = "running"]

LEMMA FirstLines ==
    /\ \A native \in BOOLEAN : Ordered(<<>>, native) /\ Ordered(OneLine, native)
    /\ LastFile(<<>>) = 1 /\ LastFile(OneLine) = 1
    /\ <<>> \in Seq(Line) /\ OneLine \in Seq(Line)
    /\ Fits(NoRecord, <<>>) /\ Fits(Going, <<>>) /\ Fits(Reviewed, OneLine)
<1>1. /\ OneLine \in Seq(Line) /\ DOMAIN OneLine = {1} /\ Len(OneLine) = 1
      /\ OneLine[1].file = 1 /\ OneLine[1].whole = TRUE /\ OneLine # <<>>
  BY DEF OneLine, Line
<1>2. <<>> \in Seq(Line) /\ DOMAIN <<>> = {} /\ Len(<<>>) = 0
  OBVIOUS
<1>3. LastFile(<<>>) = 1 /\ LastFile(OneLine) = 1
  BY <1>1 DEF LastFile
<1>4. \A native \in BOOLEAN : Ordered(<<>>, native) /\ Ordered(OneLine, native)
  BY <1>1, <1>2 DEF Ordered
<1>5. /\ NoRecord \in RecordType /\ NoRecord.files = 1 /\ NoRecord.known = 0
      /\ Going \in RecordType /\ Going.files = 1 /\ Going.known = 0
      /\ Reviewed \in RecordType /\ Reviewed.files = 1 /\ Reviewed.known = 1
  BY DEF NoRecord, Going, Reviewed, RecordType, RunStates
<1>6. Fits(NoRecord, <<>>) /\ Fits(Going, <<>>)
  BY <1>2, <1>3, <1>5 DEF Fits
<1>7. Fits(Reviewed, OneLine)
  BY <1>1, <1>3, <1>5 DEF Fits
<1> QED
  BY <1>1, <1>2, <1>3, <1>4, <1>6, <1>7

LEMMA InitStreams ==
    ASSUME Init
    PROVE  StreamInv
<1>1. PICK w \in Workloads :
        /\ run = [r \in Runs |->
                    [at |-> CASE w.runs[r] = "new" -> "prepare" [] w.runs[r] = "live" -> "agent"
                              [] OTHER -> "over",
                     next |-> "over", live |-> w.runs[r] = "live", left |-> w.lines]]
        /\ journal = [r \in Runs |-> IF w.runs[r] = "review" THEN OneLine ELSE <<>>]
        /\ record = [r \in Runs |-> CASE w.runs[r] = "review" -> Reviewed
                                      [] w.runs[r] = "live" -> Going
                                      [] OTHER -> NoRecord]
        /\ stream = [s \in Streams |-> IF s \in w.streams THEN IdleStream
                                       ELSE [IdleStream EXCEPT !.at = "ended", !.why = "gone"]]
  BY Zenon DEF Init, OneLine, Reviewed, Going
<1>2. w.runs \in [Runs -> {"none", "new", "live", "review"}] /\ w.lines \in 0..MaxLines /\ MaxLines \in Nat
  BY SupervisorAssumption, StreamAssumption
<1>3. ASSUME NEW r \in Runs
      PROVE  /\ run[r] \in RunType /\ run[r].left = w.lines
             /\ journal[r] \in Seq(Line) /\ journal[r] \in {<<>>, OneLine}
             /\ record[r] \in RecordType /\ Fits(record[r], journal[r])
  <2>1. run[r] = [at |-> CASE w.runs[r] = "new" -> "prepare" [] w.runs[r] = "live" -> "agent"
                              [] OTHER -> "over",
                  next |-> "over", live |-> w.runs[r] = "live", left |-> w.lines]
    BY <1>1
  <2>2. run[r] \in RunType /\ run[r].left = w.lines
    BY <1>2, <2>1 DEF RunType
  <2>3. /\ journal[r] = IF w.runs[r] = "review" THEN OneLine ELSE <<>>
        /\ record[r] = CASE w.runs[r] = "review" -> Reviewed
                         [] w.runs[r] = "live" -> Going
                         [] OTHER -> NoRecord
    BY <1>1
  <2>4. Fits(record[r], journal[r])
    <3>1. CASE w.runs[r] = "review"
      BY <2>3, <3>1, FirstLines
    <3>2. CASE w.runs[r] = "live"
      BY <2>3, <3>2, FirstLines
    <3>3. CASE w.runs[r] \notin {"review", "live"}
      BY <2>3, <3>3, FirstLines
    <3> QED
      BY <3>1, <3>2, <3>3
  <2>5. record[r] \in RecordType
    BY <2>4 DEF Fits
  <2>6. journal[r] \in {<<>>, OneLine}
    BY <2>3
  <2>7. journal[r] \in Seq(Line)
    BY <2>6, FirstLines
  <2> QED
    BY <2>2, <2>4, <2>5, <2>6, <2>7
<1>4. ASSUME NEW r \in Runs
      PROVE  /\ Ordered(journal[r], r \in NativeRuns)
             /\ LastFile(journal[r]) = 1 /\ LastFile(journal[r]) + run[r].left <= MaxLines + 1
  <2> DEFINE native == r \in NativeRuns
  <2>1. native \in BOOLEAN
    OBVIOUS
  <2> HIDE DEF native
  <2>2. Ordered(journal[r], native) /\ LastFile(journal[r]) = 1
    BY <1>3, <2>1, FirstLines
  <2>3. LastFile(journal[r]) + run[r].left <= MaxLines + 1
    <3>1. run[r].left = w.lines /\ w.lines \in Nat /\ w.lines <= MaxLines
      BY <1>2, <1>3
    <3> QED
      BY <1>2, <2>2, <3>1
  <2> QED
    BY <2>2, <2>3 DEF native
<1>5. JournalInv
  <2>1. /\ run = [r \in Runs |-> run[r]] /\ journal = [r \in Runs |-> journal[r]]
        /\ record = [r \in Runs |-> record[r]]
    BY <1>1
  <2>2. run \in [Runs -> RunType] /\ journal \in [Runs -> Seq(Line)] /\ record \in [Runs -> RecordType]
    BY <1>3, <2>1
  <2> QED
    BY <1>3, <1>4, <2>2 DEF JournalInv
<1>6. HeldInv
  BY InitBase DEF HeldInv
<1>7. /\ IdleStream \in StreamType /\ IdleStream.at = "idle" /\ Unsent(IdleStream) /\ IdleStream.run \in Runs
  <2> DEFINE one == CHOOSE r \in Runs : TRUE
             zeros == [f \in 1..(MaxLines + 1) |-> 0]
  <2>1. one \in Runs /\ zeros \in [1..(MaxLines + 1) -> Nat] /\ NoRecord \in RecordType
    BY StreamAssumption, FirstLines DEF Fits
  <2>2. zeros = [f \in 1..(MaxLines + 1) |-> 0]
    OBVIOUS
  <2>3. IdleStream = [at |-> "idle", run |-> one, follow |-> FALSE,
                      record |-> NoRecord, file |-> 1, pos |-> zeros,
                      sent |-> <<>>, wrote |-> FALSE, why |-> ""]
    BY Zenon DEF IdleStream
  <2> HIDE DEF one, zeros
  <2>4. /\ IdleStream.at = "idle" /\ IdleStream.run = one /\ IdleStream.record = NoRecord /\ IdleStream.file = 1
        /\ IdleStream.pos = zeros /\ IdleStream.sent = <<>> /\ IdleStream.why = ""
    BY <2>3
  <2>5. Unsent(IdleStream)
    BY <2>2, <2>4, Zenon DEF Unsent
  <2>6. IdleStream \in StreamType
    <3> DEFINE nothing == <<>>
               why == ""
               Positions == [1..(MaxLines + 1) -> Nat]
               Numbers == Seq(Nat)
    <3>1. nothing \in Numbers /\ zeros \in Positions /\ why \in {"", "terminal", "snapshot", "quiet", "gone", "refused"}
      BY <2>1
    <3>2. IdleStream = [at |-> "idle", run |-> one, follow |-> FALSE, record |-> NoRecord, file |-> 1,
                        pos |-> zeros, sent |-> nothing, wrote |-> FALSE, why |-> why]
      BY <2>3
    <3>3. StreamType = [at : {"idle", "read", "delta", "check", "ended"}, run : Runs, follow : BOOLEAN,
                        record : RecordType, file : Nat, pos : Positions, sent : Numbers, wrote : BOOLEAN,
                        why : {"", "terminal", "snapshot", "quiet", "gone", "refused"}]
      BY Zenon DEF StreamType
    <3> HIDE DEF nothing, why, Positions, Numbers
    <3> QED
      BY <2>1, <3>1, <3>2, <3>3
  <2> QED
    BY <2>1, <2>4, <2>5, <2>6
<1>8. ASSUME NEW s \in Streams
      PROVE  /\ stream[s] \in StreamType
             /\ IF stream[s].at = "idle" THEN Unsent(stream[s]) ELSE Follows(stream[s], journal[stream[s].run])
  <2>1. CASE s \in w.streams
    BY <1>1, <1>7, <2>1
  <2>2. CASE s \notin w.streams
    <3> DEFINE new == [IdleStream EXCEPT !.at = "ended", !.why = "gone"]
               lines == journal[IdleStream.run]
    <3>1. stream[s] = new
      BY <1>1, <2>2
    <3>2. /\ new \in StreamType /\ new.at = "ended" /\ new.why = "gone" /\ new.run = IdleStream.run
          /\ new.record = IdleStream.record /\ new.sent = IdleStream.sent /\ new.pos = IdleStream.pos
      BY <1>7 DEF StreamType
    <3> HIDE DEF new
    <3>3. Ordered(lines, IdleStream.run \in NativeRuns) /\ LastFile(lines) <= MaxLines + 1
      <4>1. LastFile(lines) = 1 /\ Ordered(lines, IdleStream.run \in NativeRuns)
        BY <1>4, <1>7
      <4> QED
        BY <1>2, <4>1
    <3>4. SentTo(new.sent, new.pos, lines, 0) /\ Fits(new.record, lines) /\ 0 \in 0..Len(lines)
      <4>1. new.sent = <<>> /\ new.pos = [f \in 1..(MaxLines + 1) |-> 0] /\ new.record = NoRecord
        BY <1>7, <3>2 DEF Unsent
      <4> HIDE DEF lines
      <4> QED
        BY <3>3, <4>1, NothingSent
    <3>5. Follows(new, lines)
      BY <3>2, <3>4 DEF Follows
    <3> QED
      BY <3>1, <3>2, <3>5
  <2> QED
    BY <2>1, <2>2
<1>9. SentInv
  <2>1. stream = [s \in Streams |-> stream[s]]
    BY <1>1
  <2>2. stream \in [Streams -> StreamType]
    BY <1>8, <2>1
  <2> QED
    BY <1>8, <2>2 DEF SentInv
<1> QED
  BY <1>5, <1>6, <1>9 DEF StreamInv

\* What the invariant says of the lines that a stream has sent.
LEMMA WholeStreams ==
    ASSUME StreamInv
    PROVE  StreamIsWhole
<1> SUFFICES ASSUME NEW s \in Streams
             PROVE  LET lines == journal[stream[s].run]
                        least == IF stream[s].why \in {"terminal", "snapshot"} THEN stream[s].record.known ELSE 0
                    IN \E n \in least..Len(lines) : Enumerates(stream[s].sent, ValidUpTo(lines, n))
  BY DEF StreamIsWhole
<1> DEFINE st == stream[s]
           lines == journal[st.run]
           least == IF st.why \in {"terminal", "snapshot"} THEN st.record.known ELSE 0
<1>1. /\ st \in StreamType /\ st.run \in Runs
      /\ IF st.at = "idle" THEN Unsent(st) ELSE Follows(st, lines)
  BY StreamIs
<1>2. Ordered(lines, st.run \in NativeRuns) /\ LastFile(lines) <= MaxLines + 1
  BY <1>1, RunLines
<1>3. Len(lines) \in Nat
  BY <1>2, LinesAre
<1>4. CASE st.at = "idle"
  <2>1. st.sent = <<>> /\ st.pos = [f \in 1..(MaxLines + 1) |-> 0] /\ least = 0
    BY <1>1, <1>4 DEF Unsent
  <2>2. SentTo(st.sent, st.pos, lines, 0)
    BY <1>2, <2>1, NothingSent
  <2>3. Enumerates(st.sent, ValidUpTo(lines, 0)) /\ 0 \in least..Len(lines)
    BY <1>3, <2>1, <2>2 DEF SentTo
  <2> QED
    BY <2>3
<1>5. CASE st.at # "idle"
  <2>1. PICK n \in 0..Len(lines) :
          /\ SentTo(st.sent, st.pos, lines, n)
          /\ st.at = "check" \/ st.why \in {"terminal", "snapshot"} => st.record.known <= n
    BY <1>1, <1>5 DEF Follows
  <2>2. st.record.known \in Nat
    BY <1>1 DEF StreamType, RecordType
  <2>3. least \in Nat /\ least <= n
    BY <1>3, <2>1, <2>2
  <2>4. n \in least..Len(lines) /\ Enumerates(st.sent, ValidUpTo(lines, n))
    <3>1. n \in Nat /\ n <= Len(lines)
      BY <1>3
    <3>2. Enumerates(st.sent, ValidUpTo(lines, n))
      BY <2>1 DEF SentTo
    <3> HIDE DEF least, lines
    <3> QED
      BY <1>3, <2>3, <3>1, <3>2
  <2> QED
    BY <2>4
<1> QED
  BY <1>4, <1>5

-----------------------------------------------------------------------------
(* The theorems *)

Inv == BaseInv /\ CatalogInv /\ OneShotInv /\ AuditInv

\* The inductive invariant: a challenge in a store and a lease in the broker
\* are unused, the holder of the mutex is the one request whose change is made
\* to what the answers promised, and nothing has happened before the record or
\* the history of a request is written (internal/supervisor/challenge.go,
\* internal/controlplane/config.go, internal/supervisor/audit.go).
THEOREM Invariance == Spec => []Inv
<1>1. Init => Inv
  <2> SUFFICES ASSUME Init PROVE Inv
    OBVIOUS
  <2>1. CatalogInv
    <3>1. config.file = NoInode /\ config.tmp = NoInode
      BY InitBase DEF NoFile
    <3>2. \A h \in Handlers : owner # h /\ handler[h].at \notin {"replace", "rename"}
      BY InitBase, SupervisorAssumption
    <3>3. promised = NoCatalog
      BY InitBase
    <3> QED
      BY <3>1, <3>2, <3>3 DEF CatalogInv
  <2>2. OneShotInv
    BY InitBase DEF OneShotInv
  <2>3. AuditInv
    BY InitBase DEF AuditInv
  <2> QED
    BY <2>1, <2>2, <2>3, InitBase DEF Inv
<1>2. Inv /\ [Next]_vars => Inv'
  BY BaseKept, CatalogKept, OneShotKept, AuditKept DEF Inv
<1> QED
  BY <1>1, <1>2, PTL DEF Spec

\* A challenge lets one action through and a lease is opened once, however
\* requests are repeated, sent to another side or overlap
\* (actionChallengeStore.consume, ManagedBroker.Open).
THEOREM OneShot == Spec => []HandlesAreOneShot
<1>1. Inv => HandlesAreOneShot
  BY DEF Inv, OneShotInv, HandlesAreOneShot
<1> QED
  BY <1>1, Invariance, PTL

\* What the audit log says of an answered request is what happened, except
\* that a failed write of the history makes a done action a refused one
\* (recordAudit).
THEOREM AuditTells == Spec => []AuditIsTrue
<1>1. Inv => AuditIsTrue
  <2> SUFFICES ASSUME Inv, NEW h \in Handlers,
                      handler[h].at = "answered", handler[h].op \notin {"challenge", "none"}
               PROVE  CASE audit[h] = "ok"      -> handler[h].effect \/ (handler[h].op = "action" /\ handler[h].action = "status")
                        [] audit[h] = "refused" -> handler[h].effect => writer[h].at = "failed"
                        [] OTHER                -> audit[h] = "lost"
    BY DEF AuditIsTrue
  <2>1. /\ audit[h] \in {"ok", "refused", "lost"}
        /\ audit[h] = "ok" => handler[h].effect \/ (handler[h].op = "action" /\ handler[h].action = "status")
        /\ audit[h] = "refused" => (handler[h].effect => writer[h].at = "failed")
    BY DEF Inv, BaseInv, AuditInv
  <2> QED
    BY <2>1
<1> QED
  BY <1>1, Invariance, PTL

\* The catalog on the disk can be read and follows from the confirmed changes
\* in their order, for any number of requests and wherever the supervisor dies
\* (Store.mutate and writeLocked).
THEOREM Serial == Spec => []CatalogIsSerial
<1>1. Inv => CatalogIsSerial
  <2> SUFFICES ASSUME CatalogInv PROVE CatalogIsSerial
    BY DEF Inv
  <2>1. Decodes(config)
    BY DEF CatalogInv, Decodes
  <2> QED
    BY <2>1, ReadCatalog DEF CatalogIsSerial
<1> QED
  BY <1>1, Invariance, PTL

\* The index can be read and holds, for every run, the state that its last
\* writer reported, for any number of runs and of writers, wherever they die
\* and whatever writes fail, as long as none has read the file before another
\* one was done with it (Store.Upsert, PruneKeepLatest and write).
THEOREM Index == Spec => []RunsAreListed
<1>1. Init => ListInv /\ AimInv
  BY InitList
<1>2. Inv /\ ListInv /\ AimInv /\ [Next]_vars => ListInv' /\ AimInv'
  BY ListKept, AimKept DEF Inv
<1>3. ListInv => RunsAreListed
  BY DEF ListInv, SoleInv, Indexed, RunsAreListed
<1> QED
  BY <1>1, <1>2, <1>3, Invariance, PTL DEF Spec

\* A stream is a first part of the journal of its run, each valid line once, in
\* order and without a gap, for any lines and files, whenever it reads them and
\* wherever the run process, an action or the supervisor writes or dies; and
\* one that the record or the snapshot ends holds every line that was there
\* when the record was written (streamEventSnapshot, streamEventFollow,
\* streamEventDelta, streamNativeEventDelta).
THEOREM Whole == Spec => []StreamIsWhole
<1>1. Init => AimInv /\ StreamInv
  BY InitList, InitStreams
<1>2. Inv /\ AimInv /\ StreamInv /\ [Next]_vars => AimInv' /\ StreamInv'
  BY AimKept, StreamsKept DEF Inv
<1>3. StreamInv => StreamIsWhole
  BY WholeStreams
<1> QED
  BY <1>1, <1>2, <1>3, Invariance, PTL DEF Spec
=============================================================================
