------------------------------- MODULE Sessions -------------------------------
(***************************************************************************)
(* The owner lease of one run (internal/session) and the requests that     *)
(* operators make for it through one or more supervisors: acquire,         *)
(* heartbeat, takeover, release and list.                                  *)
(*                                                                         *)
(* The JSON store is read and rewritten as a whole under a mutex of the    *)
(* supervisor and a lock file between supervisors; a lock file older than  *)
(* 30 seconds is taken for the remains of a dead supervisor.  The SQLite   *)
(* store does the same in one transaction.  The time of a request is read  *)
(* before it waits for either.                                             *)
(*                                                                         *)
(* An operator waits for the answer before the next request.               *)
(***************************************************************************)
EXTENDS Naturals

CONSTANTS
    Owners,
    Requests,      \* each used once: the bound on the number of requests
    Supervisors,
    By, At,        \* By[r] makes request r, supervisor At[r] serves it
    TTLs,          \* the lifetimes that may be asked for
    Backends,      \* the stores considered: "json", "sqlite"
    MayCrash,      \* may supervisors die?
    MaxTime,       \* bound on the clock
    NoLease,       \* the store has no entry for the run
    Free           \* there is no lock file

ASSUME ConfigAssumption ==
    /\ By \in [Requests -> Owners] /\ At \in [Requests -> Supervisors]
    /\ TTLs \subseteq Nat \ {0} /\ MaxTime \in Nat
    /\ Backends \subseteq {"json", "sqlite"}
    /\ MayCrash \in BOOLEAN
    /\ Free \notin Requests

VARIABLES
    backend,  \* the store in use
    clock,
    file,     \* the stored lease of the run
    lock,     \* the request that created the lock file
    old,      \* is the lock file older than 30 seconds?
    req,      \* req[r]: request r and how far it has come
    hold,     \* hold[o]: until when operator o takes the run to be its own
    seized    \* history: was a lock file removed that was not old?

vars == <<backend, clock, file, lock, old, req, hold, seized>>

Actions == {"acquire", "heartbeat", "takeover", "release", "list"}
\* Where a request is inside a supervisor.
Locked == {"read", "write", "unlock"}
Inside == {"mutex", "lock", "steal"} \cup Locked
Ended == {"ended", "killed"}

Lease == [owner : Owners, expires : Nat]
ASSUME NoLeaseAssumption == NoLease \notin Lease

Request == [pc : {"idle", "sent", "reply"} \cup Inside \cup Ended,
            action : Actions, ttl : TTLs \cup {0},
            now : Nat, view : Lease \cup {NoLease},
            until : Nat]    \* the grant on its way to the owner, 0 for none

Blank(step) == [pc |-> step, action |-> "list", ttl |-> 0,
                now |-> 0, view |-> NoLease, until |-> 0]

TypeOK ==
    /\ backend \in {"json", "sqlite"}
    /\ clock \in Nat
    /\ file \in Lease \cup {NoLease}
    /\ lock \in Requests \cup {Free} /\ old \in BOOLEAN
    /\ req \in [Requests -> Request]
    /\ hold \in [Owners -> Nat]
    /\ seized \in BOOLEAN

Init ==
    /\ backend \in Backends
    /\ clock = 0
    /\ file = NoLease /\ lock = Free /\ old = FALSE
    /\ req = [r \in Requests |-> Blank("idle")]
    /\ hold = [o \in Owners |-> 0]
    /\ seized = FALSE

Is(r, step) == req[r].pc = step
To(r, step) == req' = [req EXCEPT ![r].pc = step]
Ends(r) == req' = [req EXCEPT ![r] = Blank("ended")]
Replies(r, until) == req' = [req EXCEPT ![r] = [Blank("reply") EXCEPT !.until = until]]
Earlier(a, b) == IF a < b THEN a ELSE b
InFlight(r) == req[r].pc \notin {"idle"} \cup Ended

-----------------------------------------------------------------------------
(* Operators *)

\* From now on the operator counts on what is certain whatever happens to the
\* request: a release gives the lease up, a shorter lifetime may replace a
\* longer one.
Send(r, action, ttl) ==
    /\ Is(r, "idle") /\ \A q \in Requests : By[q] = By[r] => ~InFlight(q)
    /\ req' = [req EXCEPT ![r] = [@ EXCEPT !.pc = "sent", !.action = action, !.ttl = ttl]]
    /\ hold' = [hold EXCEPT ![By[r]] = IF action = "release" THEN 0 ELSE Earlier(@, clock + ttl)]
    /\ UNCHANGED <<backend, clock, file, lock, old, seized>>

SendList(r) ==
    /\ Is(r, "idle") /\ \A q \in Requests : By[q] = By[r] => ~InFlight(q)
    /\ To(r, "sent")
    /\ UNCHANGED <<backend, clock, file, lock, old, hold, seized>>

\* The answer arrives.
Answered(r) ==
    /\ Is(r, "reply")
    /\ Ends(r)
    /\ hold' = IF req[r].until = 0 THEN hold ELSE [hold EXCEPT ![By[r]] = req[r].until]
    /\ UNCHANGED <<backend, clock, file, lock, old, seized>>

\* The request or its answer is lost on the way.
Lost(r) ==
    /\ Is(r, "sent") \/ Is(r, "reply")
    /\ Ends(r)
    /\ UNCHANGED <<backend, clock, file, lock, old, hold, seized>>

Tick ==
    /\ clock < MaxTime
    /\ clock' = clock + 1
    /\ UNCHANGED <<backend, file, lock, old, req, hold, seized>>

-----------------------------------------------------------------------------
(* Apply and List *)

\* The handler reads the time; Apply then waits for the store's mutex.
Receive(r) ==
    /\ Is(r, "sent")
    /\ req' = [req EXCEPT ![r].pc = IF req[r].action = "list" THEN "lock" ELSE "mutex",
                          ![r].now = clock]
    /\ UNCHANGED <<backend, clock, file, lock, old, hold, seized>>

HasMutex(q) == req[q].pc \in Inside \ {"mutex"} /\ req[q].action # "list"

Mutex(r) ==
    /\ Is(r, "mutex") /\ \A q \in Requests : At[q] = At[r] => ~HasMutex(q)
    /\ To(r, "lock")
    /\ UNCHANGED <<backend, clock, file, lock, old, hold, seized>>

\* A mutant of lockFile: the file is created without O_EXCL.
Mut_CreateLock(r) ==
    /\ Is(r, "lock") /\ backend = "json"
    /\ lock' = r /\ old' = FALSE
    /\ To(r, "read")

CreateLock(r) ==
    /\ Is(r, "lock") /\ backend = "json"
    /\ lock = Free
    /\ lock' = r /\ old' = FALSE
    /\ To(r, "read")

\* lockFile: create the file; or find that an old one is in the way.
LockFile(r) ==
    /\ \/ CreateLock(r)
       \/ Is(r, "lock") /\ lock # Free /\ old /\ To(r, "steal") /\ UNCHANGED <<lock, old>>
    /\ UNCHANGED <<backend, clock, file, hold, seized>>

\* A mutant of the deadline in lockFile: none.
Mut_Busy(r) == FALSE /\ UNCHANGED vars

\* The store is busy for 2 seconds: refused, and there is nothing to unlock.
Busy(r) ==
    /\ Is(r, "lock") /\ backend = "json"
    /\ lock # Free /\ ~old
    /\ Replies(r, 0)
    /\ UNCHANGED <<backend, clock, file, lock, old, hold, seized>>

\* os.Remove(lockPath) after the stat said old: whatever file is there now.
Steal(r) ==
    /\ Is(r, "steal")
    /\ lock' = Free /\ old' = FALSE
    /\ seized' = (seized \/ (lock # Free /\ ~old))
    /\ To(r, "lock")
    /\ UNCHANGED <<backend, clock, file, hold>>

\* A mutant of listAt: the last unit of time does not count.
Mut_Unexpired(lease, now) == IF lease # NoLease /\ lease.expires > now + 1 THEN lease ELSE NoLease

Unexpired(lease, now) == IF lease # NoLease /\ lease.expires > now THEN lease ELSE NoLease

\* listAt.
Read(r) ==
    /\ Is(r, "read")
    /\ req' = [req EXCEPT ![r].pc = IF req[r].action = "list" THEN "unlock" ELSE "write",
                          ![r].view = Unexpired(file, req[r].now)]
    /\ UNCHANGED <<backend, clock, file, lock, old, hold, seized>>

\* May request r be granted on the lease l?
OwnersOf(l) == IF l = NoLease THEN {} ELSE {l.owner}
Allowed(r, l) ==
    CASE req[r].action = "acquire"                  -> OwnersOf(l) \subseteq {By[r]}
      [] req[r].action \in {"heartbeat", "release"} -> OwnersOf(l) = {By[r]}
      [] OTHER                                      -> TRUE

Until(r) == IF req[r].action = "release" THEN 0 ELSE req[r].now + req[r].ttl

\* Request r takes effect and goes on to step; a takeover ends what others
\* hold or are about to be told they hold.
Effect(r, step) ==
    LET ends(o) == req[r].action = "takeover" /\ o # By[r] IN
    /\ file' = IF req[r].action = "release" THEN NoLease
               ELSE [owner |-> By[r], expires |-> Until(r)]
    /\ req' = [q \in Requests |->
                 IF q = r THEN [req[q] EXCEPT !.pc = step, !.until = Until(r)]
                 ELSE IF ends(By[q]) THEN [req[q] EXCEPT !.until = 0]
                 ELSE req[q]]
    /\ hold' = [o \in Owners |-> IF ends(o) THEN 0 ELSE hold[o]]

\* Decide on what was read and replace the file.
Write(r) ==
    /\ Is(r, "write") /\ Allowed(r, req[r].view)
    /\ Effect(r, "unlock")
    /\ UNCHANGED <<backend, clock, lock, old, seized>>

\* Refused, or the store cannot be read or written.
Refuse(r) ==
    /\ Is(r, "read") \/ Is(r, "write")
    /\ To(r, "unlock")
    /\ UNCHANGED <<backend, clock, file, lock, old, hold, seized>>

\* unlockFile removes the lock file without looking whose it is.
Unlock(r) ==
    /\ Is(r, "unlock")
    /\ lock' = Free /\ old' = FALSE
    /\ Replies(r, req[r].until)
    /\ UNCHANGED <<backend, clock, file, hold, seized>>

\* The same as one SQLite transaction, which may also fail; List deletes what
\* has expired.
Transaction(r) ==
    /\ Is(r, "lock") /\ backend = "sqlite"
    /\ \/ /\ req[r].action # "list" /\ Allowed(r, Unexpired(file, req[r].now))
          /\ Effect(r, "reply")
       \/ /\ req[r].action = "list"
          /\ Replies(r, 0) /\ file' = Unexpired(file, clock) /\ UNCHANGED hold
       \/ /\ Replies(r, 0) /\ UNCHANGED <<file, hold>>
    /\ UNCHANGED <<backend, clock, lock, old, seized>>

-----------------------------------------------------------------------------
(* A supervisor dies in the middle of its requests and is started again; its *)
(* lock file stays, and becomes old.  A live one is assumed to finish within *)
(* 30 seconds.                                                               *)

Crash(s) ==
    /\ MayCrash
    /\ \E r \in Requests : At[r] = s /\ req[r].pc \in Inside
    /\ req' = [r \in Requests |->
                 IF At[r] = s /\ InFlight(r) THEN Blank("killed") ELSE req[r]]
    /\ UNCHANGED <<backend, clock, file, lock, old, hold, seized>>

LockAges ==
    /\ lock # Free /\ ~old /\ Is(lock, "killed")
    /\ old' = TRUE
    /\ UNCHANGED <<backend, clock, file, lock, req, hold, seized>>

Serve(r) ==
    \/ Receive(r) \/ Mutex(r) \/ LockFile(r) \/ Busy(r) \/ Steal(r)
    \/ Read(r) \/ Write(r) \/ Refuse(r) \/ Unlock(r) \/ Transaction(r)

Next ==
    \/ \E r \in Requests :
        \/ \E action \in {"acquire", "heartbeat", "takeover"}, ttl \in TTLs : Send(r, action, ttl)
        \/ Send(r, "release", 0)
        \/ SendList(r)
        \/ Answered(r) \/ Lost(r) \/ Serve(r)
    \/ Tick \/ LockAges
    \/ \E s \in Supervisors : Crash(s)
    \/ (\A r \in Requests : req[r].pc \in Ended) /\ UNCHANGED vars

Spec == Init /\ [][Next]_vars

\* A live supervisor goes on with the requests it has received.
FairSpec == Spec /\ \A r \in Requests :
                WF_vars(Serve(r) /\ req[r].pc \in Inside)

-----------------------------------------------------------------------------
(* Properties *)

\* Two operators never both count on the run: as long as the lease it was told
\* of has not expired, an operator that neither released it nor lost it to a
\* takeover is the only one, with late answers, lost answers and requests that
\* waited for the lock with an older time, wherever supervisors die and whatever
\* old lock files they leave behind; until lockFile removes a lock that was not
\* old.  Store.Apply and lockFile.
LockedHolder ==
    ~seized => \A o, p \in Owners : hold[o] > clock /\ hold[p] > clock => o = p

\* Until then no request works on a copy of the file that another one has
\* replaced.
ViewIsCurrent ==
    ~seized => \A r \in Requests :
        Is(r, "write") => req[r].view = Unexpired(file, req[r].now)

\* Every request that a supervisor has begun to serve ends, also when another
\* supervisor died with the lock file in place.
RequestsEnd == <>[](\A r \in Requests : req[r].pc \notin Inside)
=============================================================================
