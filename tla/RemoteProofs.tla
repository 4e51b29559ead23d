----------------------------- MODULE RemoteProofs -----------------------------
(***************************************************************************)
(* What the clients of the registry, of the retention store and of remote  *)
(* session leases can rely on: for any number of clients, calls, attempts, *)
(* broken connections and deaths of the server.                            *)
(*                                                                         *)
(* RemoteInv ties the requests that are still in the server to the calls   *)
(* they were sent for.  A step sends a request, lets the server go on with *)
(* one, or lets a client take or give up an answer; each part of RemoteInv *)
(* is kept by each of these, and then for every action.                    *)
(***************************************************************************)
EXTENDS Remote, FiniteSetTheorems, WellFoundedInduction, TLAPS

-----------------------------------------------------------------------------
(* Clients and requests *)

Slots == Clients \X (1..(MaxCalls * MaxAttempts))

ClientState == [at : ClientSteps, call : Nat \ {0}, tries : 0..MaxAttempts, sent : Nat, clean : BOOLEAN,
                got : Values \cup {NoValue},
                outcome : Seq([result : {"ok", "failed"}, value : Values \cup {NoValue}, clean : BOOLEAN])]

\* A client has sent no more than its calls allow, and has an outcome of each
\* call before the one that it is in.
ClientInv == \A c \in Clients :
    /\ Len(client[c].outcome) = client[c].call - 1 /\ client[c].call <= Len(calls[c]) + 1
    /\ client[c].at # "idle" => client[c].call <= Len(calls[c])
    /\ client[c].at = "idle" => client[c].tries = 0
    /\ client[c].at = "pause" => client[c].tries < MaxAttempts
    /\ client[c].at = "wait" => client[c].sent # 0
    /\ client[c].at \in {"got", "temp"} => Call(c).op = "restore"
    /\ client[c].sent <= (client[c].call - 1) * MaxAttempts + client[c].tries

\* A request belongs to a call of its client, and an answer to the request
\* that its client waits for.
RequestInv == \A q \in Slots :
    /\ q[2] > client[q[1]].sent => req[q] = NoRequest
    /\ req[q].call <= client[q[1]].call
    /\ client[q[1]].at = "idle" => req[q].call < client[q[1]].call
    /\ req[q].at \notin {"none", "done"} => req[q].call # 0 /\ req[q].op = calls[q[1]][req[q].call].op
    /\ req[q].at \in InServer => req[q].value = calls[q[1]][req[q].call].value
    /\ req[q].at = "replied" => ~Late(q)

BaseInv ==
    /\ calls \in [Clients -> Seq(Calls)] /\ \A c \in Clients : Len(calls[c]) <= MaxCalls
    /\ client \in [Clients -> ClientState] /\ req \in [Slots -> Request]
    /\ ClientInv /\ RequestInv

-----------------------------------------------------------------------------
(* Effects *)

CleanOf(c, n) == IF n < client[c].call THEN client[c].outcome[n].clean ELSE client[c].clean

\* A call that has left a request to itself is not clean, and one with an
\* effect is not, is about to end well, or has.
EffectInv ==
    /\ \A q \in Slots : req[q].at \in InServer /\ Late(q) => ~CleanOf(q[1], req[q].call)
    /\ done \subseteq Clients \X (Nat \ {0})
    /\ \A c \in Clients : \A n \in Nat \ {0} : <<c, n>> \in done =>
         /\ n <= client[c].call /\ n <= Len(calls[c]) /\ calls[c][n].op # "restore"
         /\ n < client[c].call => client[c].outcome[n].result = "ok" \/ ~client[c].outcome[n].clean
         /\ n = client[c].call =>
              /\ client[c].at # "idle"
              /\ \/ ~client[c].clean
                 \/ /\ client[c].at = "wait" /\ req[Current(c)].at = "replied"
                    /\ req[Current(c)].status = "ok"

-----------------------------------------------------------------------------
(* The retention store *)

RestoreInv ==
    /\ object \in Values \cup {NoValue}
    /\ \A q \in Slots : req[q].at = "replied" /\ req[q].op = "restore" /\ req[q].status = "ok" => req[q].value # NoValue
    /\ \A c \in Clients : /\ client[c].at \in {"got", "temp"} => client[c].got # NoValue
                          /\ client[c].at = "temp" => client[c].got = Call(c).value
    /\ RestoreIsWhole

-----------------------------------------------------------------------------
(* The registry *)

Succeeds(q, op) == req[q].at = "replied" /\ req[q].op = op /\ req[q].status = "ok"

Gone(q) ==
    /\ Succeeds(q, "revoke") => marker.file
    /\ knew[q[1]].revoked /\ req[q].call = client[q[1]].call /\ req[q].op = "fetch" =>
         req[q].at # "read" /\ ~Succeeds(q, "fetch")

\* Behind a revocation that was confirmed no fetch gets past the marker.
RevokeInv ==
    /\ marker \in [file : BOOLEAN, tmp : BOOLEAN]
    /\ revoked => marker.file
    /\ \A c \in Clients : knew[c].revoked => marker.file
    /\ \A q \in Slots : Gone(q)

Versions == Values \cup {NoValue}

\* What a publication confirms has been renamed into place.
PlaceInv ==
    /\ versions \in Seq(Versions) /\ current \in 0..Len(versions)
    /\ knew \in [Clients -> [current : Nat, revoked : BOOLEAN]]
    /\ \A c \in Clients : knew[c].current <= current
    /\ \A q \in Slots : Succeeds(q, "publish") =>
         \E i \in DOMAIN versions : versions[i] = calls[q[1]][req[q].call].value

DirInv == dir \in Dirs(Inodes, Versions)

FileIsLast ==
    /\ dir.tmp # NoInode => dir.tmp # dir.file
    /\ IF versions = <<>> THEN dir.file = NoInode
       ELSE dir.file # NoInode /\ dir.data[dir.file] = {versions[Len(versions)]}

TurnOf(q) ==
    /\ req[q].inode # 0 <=> req[q].op = "publish" /\ req[q].at \in {"write", "rename"}
    /\ req[q].inode # 0 => req[q].inode = dir.tmp
    /\ Serves(q, "publish", "write") => dir.data[dir.tmp] = {}
    /\ Serves(q, "publish", "rename") => dir.data[dir.tmp] = {req[q].value}
    /\ Succeeds(q, "fetch") => \E i \in DOMAIN versions : versions[i] = req[q].value /\ i >= knew[q[1]].current

\* As long as requests to publish take turns, the file is the last version.
TurnsInv == ~overlapped =>
    /\ FileIsLast
    /\ \A p, q \in Slots : req[p].inode # 0 /\ req[q].inode # 0 => p = q
    /\ \A q \in Slots : TurnOf(q)

-----------------------------------------------------------------------------
(* The lease *)

LeaseTypes ==
    /\ lease \in [owner : Clients \cup {Nobody}, grant : Nat, call : Nat] /\ lapsed \in 0..lease.grant
    /\ granted \in [Clients -> 0..lease.grant] /\ misled \in BOOLEAN

\* A client that counts on its grant is the owner, and only a release that was
\* called before can end it.
HoldsOn(c) == granted[c] > lapsed /\ ~misled =>
    /\ lease.owner = c
    /\ \A q \in Slots : q[1] = c /\ Serves(q, "release", "sent") => req[q].call < lease.call

\* The same for one that is about to be told.
Grants(q) == Succeeds(q, "acquire") =>
    /\ req[q].grant \in 0..lease.grant
    /\ req[q].grant > lapsed /\ ~misled => lease.owner = q[1] /\ req[q].call <= lease.call

LeaseInv == LeaseTypes /\ (\A c \in Clients : HoldsOn(c)) /\ (\A q \in Slots : Grants(q))

RemoteInv ==
    /\ BaseInv /\ EffectInv /\ RestoreInv /\ LeaseInv
    /\ RevokeInv /\ DirInv /\ PlaceInv /\ TurnsInv /\ revoked \in BOOLEAN

-----------------------------------------------------------------------------
(* Numbers *)

\* A non-empty set of places has a last one.
LEMMA LastPlace ==
    ASSUME NEW n \in Nat, NEW S \in SUBSET (1..n), S # {}
    PROVE  Max(S) \in S /\ \A i \in S : i <= Max(S)
<1> DEFINE R == {ss \in Nat \X Nat : ss[1] < ss[2]}
           T == {n - i : i \in S}
<1>1. IsWellFoundedOn(R, Nat)
  BY NatLessThanWellFounded DEF OpToRel
<1>2. T \subseteq Nat /\ T # {}
  <2>1. \A i \in S : n - i \in Nat
    OBVIOUS
  <2> QED
    BY <2>1, Zenon
<1> HIDE DEF R, T
<1>3. PICK x \in T : \A y \in T : ~ (<<y, x>> \in R)
  BY <1>1, <1>2, WFMin
<1>4. \A y \in T : x <= y
  <2> TAKE y \in T
  <2>1. ~(<<y, x>> \in R) /\ x \in Nat /\ y \in Nat
    BY <1>2, <1>3
  <2> QED
    BY <2>1 DEF R
<1>5. PICK m \in S : x = n - m
  BY <1>3 DEF T
<1>6. \A i \in S : i <= m
  <2> TAKE i \in S
  <2>1. n - i \in T
    BY DEF T
  <2> QED
    BY <1>4, <1>5, <2>1
<1>7. \E k \in S : \A i \in S : k >= i
  BY <1>6
<1>8. Max(S) \in S /\ \A i \in S : Max(S) >= i
  BY <1>7, Zenon DEF Max
<1> QED
  BY <1>8

LEMMA Greater ==
    ASSUME NEW a \in Nat, NEW b \in Nat
    PROVE  Max({a, b}) \in {a, b} /\ Max({a, b}) >= a /\ Max({a, b}) >= b
<1>1. \E k \in {a, b} : \A i \in {a, b} : k >= i
  <2>1. a >= b \/ b >= a
    OBVIOUS
  <2> QED
    BY <2>1
<1> QED
  BY <1>1, Zenon DEF Max

\* The requests of the calls up to the one that is on.
LEMMA Room ==
    ASSUME NEW call \in Nat \ {0}, NEW tries \in 0..MaxAttempts
    PROVE  /\ (call - 1) * MaxAttempts + tries <= call * MaxAttempts
           /\ call * MaxAttempts \in Nat /\ (call - 1) * MaxAttempts \in Nat
           /\ call <= MaxCalls => call * MaxAttempts <= MaxCalls * MaxAttempts
<1>1. MaxAttempts \in Nat /\ MaxCalls \in Nat
  BY RetriesAssumption
<1>2. (call - 1) * MaxAttempts + MaxAttempts = call * MaxAttempts
  BY <1>1
<1>3. call * MaxAttempts \in Nat /\ (call - 1) * MaxAttempts \in Nat
  BY <1>1
<1>4. (call - 1) * MaxAttempts + tries <= call * MaxAttempts
  <2> DEFINE x == (call - 1) * MaxAttempts
             y == call * MaxAttempts
  <2>1. x \in Nat /\ y \in Nat /\ x + MaxAttempts = y
    BY <1>2, <1>3
  <2> HIDE DEF x, y
  <2>2. x + tries <= y
    BY <1>1, <2>1
  <2> QED
    BY <2>2 DEF x, y
<1>5. ASSUME call <= MaxCalls
      PROVE  call * MaxAttempts <= MaxCalls * MaxAttempts
  <2> DEFINE d == MaxCalls - call
  <2>1. d \in Nat /\ MaxCalls = call + d
    BY <1>1, <1>5
  <2> HIDE DEF d
  <2>2. MaxCalls * MaxAttempts = call * MaxAttempts + d * MaxAttempts
    BY <1>1, <2>1
  <2>3. d * MaxAttempts \in Nat
    BY <1>1, <2>1
  <2> DEFINE a == call * MaxAttempts
             b == d * MaxAttempts
             t == MaxCalls * MaxAttempts
  <2>4. a \in Nat /\ b \in Nat /\ t = a + b
    BY <1>3, <2>2, <2>3
  <2> HIDE DEF a, b, t
  <2>5. a <= t
    BY <2>4
  <2> QED
    BY <2>5 DEF a, t
<1> QED
  BY <1>3, <1>4, <1>5

-----------------------------------------------------------------------------
(* What a step does to the requests *)

LEMMA Forgotten ==
    /\ NoRequest \in Request /\ NoRequest.at = "none" /\ NoRequest.call = 0 /\ NoRequest.inode = 0
    /\ Served \in Request /\ Served.at = "done" /\ Served.call = 0 /\ Served.inode = 0
    /\ NoRequest.op = "fetch" /\ Served.op = "fetch"
BY DEF NoRequest, Served, Request, Ops, RegistryOps, InServer, Statuses

\* The server goes on with q, and answers it at most.
ServerMoves(q) ==
    /\ req' \in [Slots -> Request] /\ client' = client /\ calls' = calls
    /\ \A p \in Slots : p # q => req'[p] = req[p]
    /\ \/ Late(q) /\ req'[q] = Served
       \/ /\ req'[q].op = req[q].op /\ req'[q].call = req[q].call /\ req'[q].grant \in Nat
          /\ \/ /\ req'[q].at \in InServer /\ req'[q].value = req[q].value
                /\ req'[q].grant = req[q].grant
             \/ req'[q].at = "replied" /\ req'[q].inode = req[q].inode /\ ~Late(q)
             \/ req'[q].at = "replied" /\ req'[q].inode = 0 /\ ~Late(q)

LEMMA GoesOn ==
    ASSUME BaseInv, NEW q \in Slots, NEW step \in InServer, Goes(q, step), UNCHANGED <<client, calls>>
    PROVE  /\ ServerMoves(q) /\ req'[q].at = step /\ req'[q].inode = req[q].inode
           /\ req'[q].op = req[q].op /\ req'[q].call = req[q].call /\ req'[q].value = req[q].value
<1> DEFINE new == [req[q] EXCEPT !.at = step]
<1>1. req' = [req EXCEPT ![q] = new] /\ req \in [Slots -> Request]
  BY DEF Goes, BaseInv
<1>2. /\ new \in Request /\ new.at = step /\ new.op = req[q].op /\ new.call = req[q].call
      /\ new.value = req[q].value /\ new.inode = req[q].inode /\ new.grant = req[q].grant /\ new.grant \in Nat
  <2>1. req[q] \in Request
    BY <1>1
  <2> QED
    BY <2>1 DEF Request
<1> HIDE DEF new
<1> QED
  BY <1>1, <1>2 DEF ServerMoves

\* The answer reaches a client that waits for it, and nobody else.
Answered(q, status, value) ==
    IF Late(q) THEN req'[q] = Served
    ELSE /\ req'[q].at = "replied" /\ req'[q].status = status /\ req'[q].value = value /\ req'[q].inode = 0
         /\ req'[q].op = req[q].op /\ req'[q].call = req[q].call

LEMMA Answers ==
    ASSUME BaseInv, NEW q \in Slots, NEW status \in Statuses, NEW value \in Values \cup {NoValue},
           Reply(q, status, value), UNCHANGED <<client, calls>>
    PROVE  ServerMoves(q) /\ Answered(q, status, value)
<1> DEFINE new == IF Late(q) THEN Served
                  ELSE [req[q] EXCEPT !.at = "replied", !.status = status, !.value = value, !.inode = 0]
<1>1. req' = [req EXCEPT ![q] = new] /\ req \in [Slots -> Request]
  BY DEF Reply, BaseInv
<1>2. /\ new \in Request
      /\ IF Late(q) THEN new = Served
         ELSE /\ new.at = "replied" /\ new.status = status /\ new.value = value /\ new.inode = 0
              /\ new.op = req[q].op /\ new.call = req[q].call /\ new.grant \in Nat
  <2>1. req[q] \in Request
    BY <1>1
  <2> QED
    BY <2>1, Forgotten DEF Request
<1> HIDE DEF new
<1> QED
  BY <1>1, <1>2 DEF ServerMoves, Answered

LEMMA Granted ==
    ASSUME BaseInv, NEW q \in Slots, NEW n \in Nat, Grant(q, n), UNCHANGED <<client, calls>>
    PROVE  /\ ServerMoves(q)
           /\ IF Late(q) THEN req'[q] = Served
              ELSE /\ req'[q].at = "replied" /\ req'[q].status = "ok" /\ req'[q].grant = n
                   /\ req'[q].inode = req[q].inode /\ req'[q].op = req[q].op /\ req'[q].call = req[q].call
<1> DEFINE new == IF Late(q) THEN Served
                  ELSE [req[q] EXCEPT !.at = "replied", !.status = "ok", !.grant = n]
<1>1. req' = [req EXCEPT ![q] = new] /\ req \in [Slots -> Request]
  BY DEF Grant, BaseInv
<1>2. /\ new \in Request
      /\ IF Late(q) THEN new = Served
         ELSE /\ new.at = "replied" /\ new.status = "ok" /\ new.grant = n /\ new.inode = req[q].inode
              /\ new.op = req[q].op /\ new.call = req[q].call
  <2>1. req[q] \in Request
    BY <1>1
  <2> QED
    BY <2>1, Forgotten DEF Request, Statuses
<1> HIDE DEF new
<1> QED
  BY <1>1, <1>2 DEF ServerMoves

\* The request is the one whose answer can be heard, or nobody waits for it.
LEMMA MovesKeepBase ==
    ASSUME BaseInv, NEW q \in Slots, ServerMoves(q), req[q].at \in InServer
    PROVE  BaseInv'
<1>1. ClientInv'
  BY DEF BaseInv, ClientInv, ServerMoves, Call
<1>2. RequestInv'
  <2> SUFFICES ASSUME NEW p \in Slots
               PROVE  /\ p[2] > client'[p[1]].sent => req'[p] = NoRequest
                      /\ req'[p].call <= client'[p[1]].call
                      /\ client'[p[1]].at = "idle" => req'[p].call < client'[p[1]].call
                      /\ req'[p].at \notin {"none", "done"} =>
                            req'[p].call # 0 /\ req'[p].op = calls'[p[1]][req'[p].call].op
                      /\ req'[p].at \in InServer => req'[p].value = calls'[p[1]][req'[p].call].value
                      /\ req'[p].at = "replied" => ~Late(p)'
    BY DEF RequestInv
  <2>0. client' = client /\ calls' = calls
    BY DEF ServerMoves
  <2>1. CASE p # q
    BY <2>0, <2>1 DEF BaseInv, RequestInv, ServerMoves, Late
  <2>2. CASE p = q /\ req'[q] = Served
    <3>1. client[p[1]].call \in Nat \ {0} /\ ~(p[2] > client[p[1]].sent)
      BY <2>2, Forgotten DEF BaseInv, RequestInv, ClientState, Slots, InServer, NoRequest
    <3> QED
      BY <2>0, <2>2, <3>1, Forgotten DEF InServer
  <2>3. CASE p = q /\ req'[q] # Served
    <3>1. /\ req'[q].op = req[q].op /\ req'[q].call = req[q].call
          /\ \/ req'[q].at \in InServer /\ req'[q].value = req[q].value
             \/ req'[q].at = "replied" /\ ~Late(q)
      BY <2>3 DEF ServerMoves
    <3>2. /\ ~(q[2] > client[q[1]].sent) /\ req[q].at \notin {"none", "done"}
      BY Forgotten DEF BaseInv, RequestInv, InServer
    <3>3. ~Late(q) => ~Late(q)'
      BY <2>0, <3>1 DEF Late
    <3> QED
      BY <2>0, <2>3, <3>1, <3>2, <3>3 DEF BaseInv, RequestInv, InServer
  <2> QED
    BY <2>1, <2>2, <2>3
<1> QED
  BY <1>1, <1>2 DEF BaseInv, ServerMoves

-----------------------------------------------------------------------------
(* What a step does to the clients *)

SentTo(c) == <<c, client[c].sent + 1>>

LEMMA Sends ==
    ASSUME BaseInv, NEW c \in Clients, Send(c), calls' = calls
    PROVE  /\ BaseInv' /\ SentTo(c) \in Slots /\ req[SentTo(c)] = NoRequest
           /\ client[c].at \in {"idle", "pause"} /\ client'[c].at = "wait" /\ client'[c].call = client[c].call
           /\ client'[c].sent = client[c].sent + 1 /\ client'[c].outcome = client[c].outcome
           /\ client'[c].clean = client[c].clean
           /\ \A d \in Clients : d # c => client'[d] = client[d]
           /\ \A q \in Slots : q # SentTo(c) => req'[q] = req[q]
           /\ req'[SentTo(c)].at = "sent" /\ req'[SentTo(c)].call = client[c].call
           /\ req'[SentTo(c)].op = Call(c).op /\ req'[SentTo(c)].inode = 0
<1> DEFINE slot == SentTo(c)
           new == [client[c] EXCEPT !.at = "wait", !.tries = @ + 1, !.sent = @ + 1]
           newReq == [NoRequest EXCEPT !.at = "sent", !.op = Call(c).op, !.call = client[c].call, !.value = Call(c).value]
<1>1. /\ client[c].at \in {"idle", "pause"} /\ client[c].call <= Len(calls[c])
      /\ client' = [client EXCEPT ![c] = new] /\ req' = [req EXCEPT ![slot] = newReq]
      /\ client \in [Clients -> ClientState] /\ client[c] \in ClientState /\ req \in [Slots -> Request]
      /\ calls[c] \in Seq(Calls) /\ Len(calls[c]) <= MaxCalls /\ Len(calls[c]) \in Nat
  <2>1. /\ client \in [Clients -> ClientState] /\ client[c] \in ClientState /\ req \in [Slots -> Request]
        /\ calls[c] \in Seq(Calls) /\ Len(calls[c]) <= MaxCalls /\ Len(calls[c]) \in Nat
    BY DEF BaseInv
  <2>2. client[c].at \in {"idle", "pause"} /\ client[c].call <= Len(calls[c])
    BY DEF Send
  <2>3. client' = [client EXCEPT ![c] = new]
    BY <2>1 DEF Send
  <2>4. req' = [req EXCEPT ![slot] = newReq]
    BY Zenon DEF Send, SentTo
  <2> QED
    BY <2>1, <2>2, <2>3, <2>4
<1>2. /\ client[c].call \in 1..MaxCalls /\ client[c].sent \in Nat /\ client[c].tries \in 0..MaxAttempts
      /\ MaxAttempts \in Nat \ {0} /\ MaxCalls \in Nat
  BY <1>1, RetriesAssumption DEF ClientState
<1>3. client[c].tries < MaxAttempts /\ client[c].sent <= (client[c].call - 1) * MaxAttempts + client[c].tries
  BY <1>1, <1>2 DEF BaseInv, ClientInv
<1>4. slot \in Slots
  <2> DEFINE before == (client[c].call - 1) * MaxAttempts
             room == client[c].call * MaxAttempts
             total == MaxCalls * MaxAttempts
  <2>1. /\ before \in Nat /\ room \in Nat /\ room <= total /\ total \in Nat
        /\ before + (client[c].tries + 1) <= room
    <3>1. client[c].call \in Nat \ {0} /\ client[c].tries + 1 \in 0..MaxAttempts
      BY <1>2, <1>3
    <3> QED
      BY <1>2, <3>1, Room
  <2>2. client[c].sent <= before + client[c].tries
    BY <1>3
  <2> HIDE DEF before, room, total
  <2>3. client[c].sent + 1 \in 1..total
    BY <1>2, <2>1, <2>2
  <2> QED
    BY <2>3 DEF Slots, SentTo, total
<1>5. Call(c) \in Calls /\ Call(c).op \in Ops /\ Call(c).value \in Values \cup {NoValue}
  <2>1. client[c].call \in 1..Len(calls[c])
    BY <1>1, <1>2
  <2>2. calls[c][client[c].call] \in Calls
    BY <1>1, <2>1
  <2> QED
    BY <2>2 DEF Call, Calls
<1>6. /\ new \in ClientState /\ new.at = "wait" /\ new.call = client[c].call /\ new.tries = client[c].tries + 1
      /\ new.sent = client[c].sent + 1 /\ new.outcome = client[c].outcome /\ new.clean = client[c].clean
  <2>1. client[c].tries + 1 \in 0..MaxAttempts /\ client[c].sent + 1 \in Nat
    BY <1>2, <1>3
  <2> QED
    BY <1>1, <2>1 DEF ClientState, ClientSteps
<1>7. /\ newReq \in Request /\ newReq.at = "sent" /\ newReq.call = client[c].call /\ newReq.op = Call(c).op
      /\ newReq.value = Call(c).value /\ newReq.inode = 0
  <2>1. client[c].call \in Nat /\ NoRequest \in Request
    BY <1>2, Forgotten
  <2> QED
    BY <1>5, <2>1 DEF NoRequest, Request, InServer
<1> HIDE DEF new, newReq, slot
<1>8. /\ client' \in [Clients -> ClientState] /\ client'[c] = new
      /\ \A d \in Clients : d # c => client'[d] = client[d]
      /\ req' \in [Slots -> Request] /\ req'[slot] = newReq
      /\ \A q \in Slots : q # slot => req'[q] = req[q]
  BY <1>1, <1>4, <1>6, <1>7
<1>9. slot[1] = c /\ slot[2] = client[c].sent + 1
  BY DEF slot, SentTo
<1>10. req[slot] = NoRequest
  BY <1>2, <1>4, <1>9 DEF BaseInv, RequestInv
<1>11. ClientInv'
  <2> SUFFICES ASSUME NEW d \in Clients
               PROVE  /\ Len(client'[d].outcome) = client'[d].call - 1 /\ client'[d].call <= Len(calls[d]) + 1
                      /\ client'[d].at # "idle" => client'[d].call <= Len(calls[d])
                      /\ client'[d].at = "idle" => client'[d].tries = 0
                      /\ client'[d].at = "pause" => client'[d].tries < MaxAttempts
                      /\ client'[d].at = "wait" => client'[d].sent # 0
                      /\ client'[d].at \in {"got", "temp"} => Call(d)'.op = "restore"
                      /\ client'[d].sent <= (client'[d].call - 1) * MaxAttempts + client'[d].tries
    BY DEF ClientInv
  <2>1. CASE d # c
    BY <1>8, <2>1 DEF BaseInv, ClientInv, Call
  <2>2. CASE d = c
    <3> DEFINE before == (client[c].call - 1) * MaxAttempts
    <3>1. before \in Nat /\ client[c].sent <= before + client[c].tries
      BY <1>2, <1>3, Room
    <3> HIDE DEF before
    <3>2. client[c].sent + 1 <= before + (client[c].tries + 1)
      BY <1>2, <3>1
    <3>3. client'[c].sent <= (client'[c].call - 1) * MaxAttempts + client'[c].tries
      BY <1>6, <1>8, <3>2 DEF before
    <3>4. Len(client[c].outcome) = client[c].call - 1 /\ client[c].call <= Len(calls[c]) + 1
      BY DEF BaseInv, ClientInv
    <3>5. client'[c].sent # 0
      BY <1>2, <1>6, <1>8
    <3>6. client'[c].at = "wait" /\ client'[c].call = client[c].call /\ client'[c].outcome = client[c].outcome
      BY <1>6, <1>8
    <3> QED
      BY <1>1, <2>2, <3>3, <3>4, <3>5, <3>6
  <2> QED
    BY <2>1, <2>2
<1>12. RequestInv'
  <2> SUFFICES ASSUME NEW q \in Slots
               PROVE  /\ q[2] > client'[q[1]].sent => req'[q] = NoRequest
                      /\ req'[q].call <= client'[q[1]].call
                      /\ client'[q[1]].at = "idle" => req'[q].call < client'[q[1]].call
                      /\ req'[q].at \notin {"none", "done"} =>
                            req'[q].call # 0 /\ req'[q].op = calls[q[1]][req'[q].call].op
                      /\ req'[q].at \in InServer => req'[q].value = calls[q[1]][req'[q].call].value
                      /\ req'[q].at = "replied" => ~Late(q)'
    BY DEF RequestInv
  <2>1. CASE q = slot
    BY <1>2, <1>6, <1>7, <1>8, <1>9, <2>1 DEF Call
  <2>2. CASE q # slot /\ q[1] # c
    <3>1. q[1] \in Clients
      BY DEF Slots
    <3> QED
      BY <1>8, <2>2, <3>1 DEF BaseInv, RequestInv, Late
  <2>3. CASE q # slot /\ q[1] = c
    <3>1. q[2] \in Nat /\ req'[q] = req[q] /\ (q[2] > client[c].sent + 1 => q[2] > client[c].sent)
      BY <1>2, <1>8, <2>3 DEF Slots
    <3>2. Late(q)
      BY <1>1, <2>3 DEF Late
    <3> QED
      BY <1>6, <1>8, <2>3, <3>1, <3>2 DEF BaseInv, RequestInv
  <2> QED
    BY <2>1, <2>2, <2>3
<1> QED
  BY <1>1, <1>4, <1>6, <1>7, <1>8, <1>10, <1>11, <1>12 DEF BaseInv, slot

\* A client goes on with its call, or ends it.
Stays(c, clean) ==
    /\ client'[c].at \in {"pause", "got", "temp"} /\ client'[c].call = client[c].call
    /\ client'[c].tries = client[c].tries /\ client'[c].outcome = client[c].outcome
    /\ client'[c].at = "pause" => client[c].tries < MaxAttempts
    /\ client'[c].at \in {"got", "temp"} => Call(c).op = "restore"
    /\ client'[c].clean = clean

Ends(c, result, value, clean) ==
    /\ client'[c].at = "idle" /\ client'[c].call = client[c].call + 1 /\ client'[c].tries = 0
    /\ client'[c].outcome = Append(client[c].outcome, [result |-> result, value |-> value, clean |-> clean])

OnlyClient(c) ==
    /\ client' \in [Clients -> ClientState] /\ client'[c].sent = client[c].sent
    /\ \A d \in Clients : d # c => client'[d] = client[d]

LEMMA ClientIs ==
    ASSUME BaseInv, NEW c \in Clients
    PROVE  /\ client \in [Clients -> ClientState] /\ client[c] \in ClientState
           /\ client[c].call \in Nat \ {0} /\ client[c].tries \in 0..MaxAttempts /\ client[c].sent \in Nat
           /\ client[c].clean \in BOOLEAN
           /\ client[c].outcome \in Seq([result : {"ok", "failed"}, value : Values \cup {NoValue}, clean : BOOLEAN])
           /\ client[c].got \in Values \cup {NoValue}
           /\ Len(client[c].outcome) = client[c].call - 1
           /\ MaxAttempts \in Nat \ {0}
<1>1. client \in [Clients -> ClientState] /\ client[c] \in ClientState
  BY DEF BaseInv
<1> QED
  BY <1>1, RetriesAssumption DEF ClientState, BaseInv, ClientInv

LEMMA EndsCall ==
    ASSUME BaseInv, NEW c \in Clients, NEW state \in ClientState,
           state.call = client[c].call, state.sent = client[c].sent, state.outcome = client[c].outcome,
           NEW result \in {"ok", "failed"}, NEW value \in Values \cup {NoValue}, NEW clean \in BOOLEAN,
           client' = [client EXCEPT ![c] = Ended(state, result, value, clean)]
    PROVE  OnlyClient(c) /\ Ends(c, result, value, clean)
<1> DEFINE new == Ended(state, result, value, clean)
           last == [result |-> result, value |-> value, clean |-> clean]
           outcome == Append(client[c].outcome, last)
<1>1. outcome \in Seq([result : {"ok", "failed"}, value : Values \cup {NoValue}, clean : BOOLEAN])
  <2>1. last \in [result : {"ok", "failed"}, value : Values \cup {NoValue}, clean : BOOLEAN]
    OBVIOUS
  <2>2. client[c].outcome \in Seq([result : {"ok", "failed"}, value : Values \cup {NoValue}, clean : BOOLEAN])
    BY ClientIs
  <2> HIDE DEF last
  <2> QED
    BY <2>1, <2>2
<1>2. /\ client[c].call + 1 \in Nat \ {0} /\ 0 \in 0..MaxAttempts
  BY ClientIs
<1>3. new = [state EXCEPT !.at = "idle", !.call = @ + 1, !.tries = 0, !.clean = TRUE, !.got = NoValue, !.outcome = outcome]
  BY DEF Ended, ClientState
<1> HIDE DEF outcome
<1>4. /\ new \in ClientState /\ new.at = "idle" /\ new.call = client[c].call + 1 /\ new.tries = 0
      /\ new.sent = client[c].sent /\ new.outcome = outcome
  <2> DEFINE T == Seq([result : {"ok", "failed"}, value : Values \cup {NoValue}, clean : BOOLEAN])
  <2>1. /\ state \in [at : ClientSteps, call : Nat \ {0}, tries : 0..MaxAttempts, sent : Nat, clean : BOOLEAN,
                      got : Values \cup {NoValue}, outcome : T]
        /\ outcome \in T
    BY <1>1 DEF ClientState
  <2> HIDE DEF T, new
  <2>2. new \in [at : ClientSteps, call : Nat \ {0}, tries : 0..MaxAttempts, sent : Nat, clean : BOOLEAN,
                 got : Values \cup {NoValue}, outcome : T]
    BY <1>2, <1>3, <2>1 DEF ClientSteps
  <2>3. /\ new.at = "idle" /\ new.call = client[c].call + 1 /\ new.tries = 0
        /\ new.sent = client[c].sent /\ new.outcome = outcome
    BY <1>3, <2>1
  <2> QED
    BY <2>2, <2>3 DEF ClientState, T
<1> HIDE DEF new
<1>5. client' = [client EXCEPT ![c] = new] /\ client \in [Clients -> ClientState]
  BY ClientIs DEF new
<1> QED
  BY <1>4, <1>5 DEF OnlyClient, Ends, outcome

LEMMA StaysInCall ==
    ASSUME BaseInv, NEW c \in Clients, NEW step \in {"pause", "got", "temp"}, NEW clean \in BOOLEAN,
           NEW got \in Values \cup {NoValue},
           client' = [client EXCEPT ![c] = [client[c] EXCEPT !.clean = clean, !.at = step, !.got = got]],
           step = "pause" => client[c].tries < MaxAttempts,
           step \in {"got", "temp"} => Call(c).op = "restore"
    PROVE  OnlyClient(c) /\ Stays(c, clean) /\ client'[c].at = step /\ client'[c].got = got
<1> DEFINE new == [client[c] EXCEPT !.clean = clean, !.at = step, !.got = got]
<1>1. /\ new \in ClientState /\ new.at = step /\ new.call = client[c].call /\ new.tries = client[c].tries
      /\ new.sent = client[c].sent /\ new.outcome = client[c].outcome /\ new.clean = clean /\ new.got = got
  BY ClientIs DEF ClientState, ClientSteps
<1> HIDE DEF new
<1>2. client' = [client EXCEPT ![c] = new] /\ client \in [Clients -> ClientState]
  BY ClientIs DEF new
<1> QED
  BY <1>1, <1>2 DEF OnlyClient, Stays

\* What the outcome or the state of a call takes over.
Hears(c, status, value, clean) ==
    LET op == Call(c).op
        kept == client[c].clean /\ clean
    IN \/ /\ status = "ok" /\ ~Again(op, status)
          /\ \/ op = "restore" /\ Stays(c, kept) /\ client'[c].at = "got" /\ client'[c].got = value
             \/ op # "restore" /\ Ends(c, "ok", value, kept)
       \/ status # "ok" /\ Stays(c, kept) /\ client'[c].at = "pause"
       \/ status # "ok" /\ Ends(c, "failed", NoValue, kept)

LEMMA AfterStatus ==
    ASSUME BaseInv, NEW c \in Clients, NEW status, NEW value \in Values \cup {NoValue}, NEW clean \in BOOLEAN,
           client' = [client EXCEPT ![c] = After(c, status, value, clean)]
    PROVE  OnlyClient(c) /\ Hears(c, status, value, clean)
<1> DEFINE kept == client[c].clean /\ clean
           state == [client[c] EXCEPT !.clean = kept]
<1>1. kept \in BOOLEAN /\ state = [client[c] EXCEPT !.clean = @ /\ clean]
  BY ClientIs
<1>2. /\ state \in ClientState /\ state.call = client[c].call /\ state.sent = client[c].sent
      /\ state.outcome = client[c].outcome /\ state.tries = client[c].tries /\ state.clean = kept
      /\ state.got = client[c].got
  BY <1>1, ClientIs DEF ClientState
<1>3. Again(Call(c).op, status) => status # "ok"
  BY DEF Again
<1>4. CASE Again(Call(c).op, status) /\ state.tries < MaxAttempts
  <2>1. After(c, status, value, clean) = [state EXCEPT !.at = "pause"]
    BY <1>1, <1>4 DEF After
  <2>2. [state EXCEPT !.at = "pause"] = [client[c] EXCEPT !.clean = kept, !.at = "pause", !.got = client[c].got]
    BY ClientIs DEF ClientState
  <2> HIDE DEF state, kept
  <2>3. OnlyClient(c) /\ Stays(c, kept) /\ client'[c].at = "pause"
    <3>1. client[c].got \in Values \cup {NoValue} /\ client[c].tries < MaxAttempts /\ kept \in BOOLEAN
      BY <1>1, <1>2, <1>4, ClientIs
    <3>2. client' = [client EXCEPT ![c] = [client[c] EXCEPT !.clean = kept, !.at = "pause", !.got = client[c].got]]
      BY <2>1, <2>2
    <3> QED
      BY <3>1, <3>2, StaysInCall
  <2> QED
    BY <1>3, <1>4, <2>3 DEF Hears, kept
<1>5. CASE \/ Again(Call(c).op, status) /\ ~(state.tries < MaxAttempts)
           \/ ~Again(Call(c).op, status) /\ status # "ok"
  <2>1. After(c, status, value, clean) = Ended(state, "failed", NoValue, kept)
    <3> DEFINE whole == [client[c] EXCEPT !.clean = @ /\ clean]
    <3>1. whole = state
      BY <1>1
    <3>2. After(c, status, value, clean) = Ended(whole, "failed", NoValue, whole.clean)
      <4>1. whole.tries = state.tries
        BY <3>1
      <4>2. CASE Again(Call(c).op, status) /\ ~(whole.tries < MaxAttempts)
        BY <4>2, Zenon DEF After
      <4>3. CASE ~Again(Call(c).op, status) /\ status # "ok"
        BY <4>3 DEF After
      <4> QED
        BY <1>5, <4>1, <4>2, <4>3
    <3> HIDE DEF whole, state, kept
    <3> QED
      BY <1>2, <3>1, <3>2
  <2> HIDE DEF state, kept
  <2>2. OnlyClient(c) /\ Ends(c, "failed", NoValue, kept)
    BY <1>1, <1>2, <2>1, EndsCall
  <2> QED
    BY <1>3, <1>5, <2>2 DEF Hears, kept
<1>6. CASE ~Again(Call(c).op, status) /\ status = "ok" /\ Call(c).op = "restore"
  <2>1. After(c, status, value, clean) = [state EXCEPT !.at = "got", !.got = value]
    BY <1>1, <1>6 DEF After
  <2>2. [state EXCEPT !.at = "got", !.got = value] = [client[c] EXCEPT !.clean = kept, !.at = "got", !.got = value]
    BY ClientIs DEF ClientState
  <2> HIDE DEF state, kept
  <2>3. OnlyClient(c) /\ Stays(c, kept) /\ client'[c].at = "got" /\ client'[c].got = value
    BY <1>1, <1>6, <2>1, <2>2, StaysInCall
  <2> QED
    BY <1>6, <2>3 DEF Hears, kept
<1>7. CASE ~Again(Call(c).op, status) /\ status = "ok" /\ Call(c).op # "restore"
  <2>1. After(c, status, value, clean) = Ended(state, "ok", value, kept)
    BY <1>1, <1>2, <1>7 DEF After
  <2> HIDE DEF state, kept
  <2>2. OnlyClient(c) /\ Ends(c, "ok", value, kept)
    BY <1>1, <1>2, <2>1, EndsCall
  <2> QED
    BY <1>7, <2>2 DEF Hears, kept
<1> QED
  BY <1>4, <1>5, <1>6, <1>7

-----------------------------------------------------------------------------
(* What a client does with an answer, without one, and with a file *)

LEMMA CurrentIsSlot ==
    ASSUME BaseInv, NEW c \in Clients, client[c].sent # 0, client[c].call <= Len(calls[c])
    PROVE  Current(c) \in Slots
<1> DEFINE before == (client[c].call - 1) * MaxAttempts
           room == client[c].call * MaxAttempts
           total == MaxCalls * MaxAttempts
<1>1. client[c].call \in Nat \ {0} /\ client[c].tries \in 0..MaxAttempts /\ client[c].sent \in Nat
  BY ClientIs
<1>2. client[c].call <= MaxCalls
  <2>1. calls[c] \in Seq(Calls) /\ Len(calls[c]) <= MaxCalls
    BY DEF BaseInv
  <2> QED
    BY <1>1, <2>1, RetriesAssumption
<1>3. before + client[c].tries <= room /\ before \in Nat /\ room \in Nat /\ room <= total
  BY <1>1, <1>2, Room
<1>4. client[c].sent <= before + client[c].tries
  BY DEF BaseInv, ClientInv
<1>5. total \in Nat
  BY RetriesAssumption
<1> HIDE DEF before, room, total
<1>6. client[c].sent \in 1..total
  BY <1>1, <1>3, <1>4, <1>5
<1> QED
  BY <1>6 DEF Current, Slots, total

\* The client is the only one that moves, and no answer is left for it.
Quiet(c) ==
    /\ OnlyClient(c) /\ calls' = calls /\ client[c].at # "idle" /\ req' \in [Slots -> Request]
    /\ \A q \in Slots : q[1] = c => req'[q].at # "replied"
    /\ \A q \in Slots : req'[q] # req[q] => q = Current(c) /\ req'[q] = Served

Heard(c) ==
    /\ client[c].at = "wait" /\ req[Current(c)].at = "replied"
    /\ Hears(c, req[Current(c)].status, req[Current(c)].value, TRUE)

Unheard(c) ==
    /\ client[c].at \in {"wait", "pause"}
    /\ \/ Stays(c, FALSE) /\ client'[c].at = "pause"
       \/ Ends(c, "failed", NoValue, FALSE)

LEMMA AnswerIsCurrent ==
    ASSUME BaseInv, NEW q \in Slots, req[q].at = "replied"
    PROVE  /\ q = Current(q[1]) /\ client[q[1]].at = "wait" /\ req[q].call = client[q[1]].call
           /\ req[q].op = Call(q[1]).op /\ q[1] \in Clients
<1>1. /\ client[q[1]].call = req[q].call /\ client[q[1]].sent = q[2] /\ client[q[1]].at = "wait"
      /\ req[q].op = calls[q[1]][req[q].call].op
  BY DEF BaseInv, RequestInv, Late
<1>2. q = <<q[1], q[2]>> /\ q[1] \in Clients
  BY DEF Slots
<1> QED
  BY <1>1, <1>2 DEF Current, Call

LEMMA Forgetting ==
    ASSUME BaseInv, NEW c \in Clients, OnlyClient(c), calls' = calls, client[c].at # "idle",
           \/ Forgets(c)
           \/ client[c].at = "wait" /\ req' = [req EXCEPT ![Current(c)] = Served]
           \/ client[c].at # "wait" /\ req' = req
    PROVE  Quiet(c)
<1>1. req \in [Slots -> Request]
  BY DEF BaseInv
<1>2. client[c].at = "wait" => Current(c) \in Slots
  BY CurrentIsSlot DEF BaseInv, ClientInv
<1>3. \A q \in Slots : q[1] = c /\ req[q].at = "replied" => q = Current(c) /\ client[c].at = "wait"
  BY AnswerIsCurrent
<1>4. CASE client[c].at = "wait" /\ req' = [req EXCEPT ![Current(c)] = Served]
  <2>1. req' \in [Slots -> Request] /\ req'[Current(c)] = Served
    BY <1>1, <1>2, <1>4, Forgotten
  <2>2. \A q \in Slots : q # Current(c) => req'[q] = req[q]
    BY <1>1, <1>4
  <2> QED
    BY <1>3, <2>1, <2>2, Forgotten DEF Quiet
<1>5. CASE req' = req /\ ~(client[c].at = "wait" /\ req[Current(c)].at \in {"replied", "dead"})
  BY <1>1, <1>3, <1>5 DEF Quiet
<1> QED
  BY <1>3, <1>4, <1>5 DEF Forgets

LEMMA ClientMoves ==
    ASSUME BaseInv, NEW c \in Clients, ClientStep(c), calls' = calls
    PROVE  Quiet(c) /\ (Heard(c) \/ Unheard(c))
<1>0. /\ client[c].at = "wait" => Current(c) \in Slots
      /\ client[c].clean \in BOOLEAN /\ req \in [Slots -> Request] /\ client[c] \in ClientState
  BY CurrentIsSlot, ClientIs DEF BaseInv, ClientInv
<1>1. CASE Receive(c)
  <2>1. /\ client[c].at = "wait" /\ req[Current(c)].at = "replied"
        /\ client' = [client EXCEPT ![c] = After(c, req[Current(c)].status, req[Current(c)].value, TRUE)]
        /\ req' = [req EXCEPT ![Current(c)] = Served]
    BY <1>1 DEF Receive
  <2>2. req[Current(c)].value \in Values \cup {NoValue}
    BY <1>0, <2>1 DEF Request
  <2>3. OnlyClient(c) /\ Hears(c, req[Current(c)].status, req[Current(c)].value, TRUE)
    BY <2>1, <2>2, AfterStatus
  <2> QED
    BY <2>1, <2>3, Forgetting DEF Heard
<1>2. CASE Break(c)
  <2>1. client[c].at = "wait" /\ client' = [client EXCEPT ![c] = After(c, "none", NoValue, FALSE)] /\ Forgets(c)
    BY <1>2 DEF Break
  <2>2. OnlyClient(c) /\ Hears(c, "none", NoValue, FALSE)
    BY <2>1, AfterStatus
  <2>3. Unheard(c)
    BY <2>1, <2>2 DEF Hears, Unheard
  <2> QED
    BY <2>1, <2>2, <2>3, Forgetting
<1>3. CASE Cut(c) \/ GiveUp(c)
  <2>1. /\ client[c].at \in {"wait", "pause"} /\ Forgets(c)
        /\ client' = [client EXCEPT ![c] = Ended(client[c], "failed", NoValue, FALSE)]
    BY <1>3 DEF Cut, GiveUp
  <2>2. OnlyClient(c) /\ Ends(c, "failed", NoValue, FALSE)
    <3> DEFINE state == client[c]
    <3>1. /\ state \in ClientState /\ state.call = client[c].call /\ state.sent = client[c].sent
          /\ state.outcome = client[c].outcome
      BY <1>0
    <3>2. client' = [client EXCEPT ![c] = Ended(state, "failed", NoValue, FALSE)]
      BY <2>1
    <3> HIDE DEF state
    <3> QED
      BY <3>1, <3>2, EndsCall
  <2> QED
    BY <2>1, <2>2, Forgetting DEF Unheard
<1> QED
  BY <1>1, <1>2, <1>3 DEF ClientStep

\* What GetFile does with the object it got.
FileChecked(c) ==
    /\ client[c].at \in {"got", "temp"}
    /\ \/ /\ Stays(c, client[c].clean) /\ client'[c].at = "temp" /\ client'[c].got = client[c].got
          /\ client[c].got = Call(c).value /\ output' = output
       \/ Ends(c, "failed", client[c].got, client[c].clean) /\ output' = output
       \/ /\ client[c].at = "temp" /\ Ends(c, "ok", client[c].got, client[c].clean)
          /\ output' = client[c].got

LEMMA RestoredEnds ==
    ASSUME BaseInv, NEW c \in Clients, NEW result \in {"ok", "failed"}, Restored(c, result)
    PROVE  OnlyClient(c) /\ Ends(c, result, client[c].got, client[c].clean)
<1> DEFINE state == client[c]
           got == client[c].got
           clean == client[c].clean
<1>1. /\ state \in ClientState /\ state.call = client[c].call /\ state.sent = client[c].sent
      /\ state.outcome = client[c].outcome /\ got \in Values \cup {NoValue} /\ clean \in BOOLEAN
  BY ClientIs
<1>2. client' = [client EXCEPT ![c] = Ended(state, result, got, clean)]
  BY DEF Restored
<1> HIDE DEF state, got, clean
<1>3. OnlyClient(c) /\ Ends(c, result, got, clean)
  BY <1>1, <1>2, EndsCall
<1> QED
  BY <1>3 DEF got, clean

LEMMA FileSteps ==
    ASSUME BaseInv, NEW c \in Clients, Check(c) \/ Install(c), req' = req, calls' = calls
    PROVE  Quiet(c) /\ FileChecked(c)
<1>1. CASE Check(c) /\ client[c].got = Call(c).value
  <2>1. client[c].at = "got" /\ client' = [client EXCEPT ![c].at = "temp"] /\ output' = output
    BY <1>1 DEF Check
  <2>2. /\ client[c] \in ClientState /\ client[c].clean \in BOOLEAN /\ client[c].got \in Values \cup {NoValue}
        /\ Call(c).op = "restore"
    BY <2>1, ClientIs DEF BaseInv, ClientInv
  <2>3. client' = [client EXCEPT ![c] = [client[c] EXCEPT !.clean = client[c].clean, !.at = "temp", !.got = client[c].got]]
    BY <2>1, <2>2, ClientIs DEF ClientState
  <2>4. OnlyClient(c) /\ Stays(c, client[c].clean) /\ client'[c].at = "temp" /\ client'[c].got = client[c].got
    <3> DEFINE clean == client[c].clean
               got == client[c].got
    <3>1. /\ client' = [client EXCEPT ![c] = [client[c] EXCEPT !.clean = clean, !.at = "temp", !.got = got]]
          /\ clean \in BOOLEAN /\ got \in Values \cup {NoValue}
      BY <2>2, <2>3
    <3> HIDE DEF clean, got
    <3>2. OnlyClient(c) /\ Stays(c, clean) /\ client'[c].at = "temp" /\ client'[c].got = got
      BY <2>2, <3>1, StaysInCall
    <3> QED
      BY <3>2 DEF clean, got
  <2> QED
    BY <1>1, <2>1, <2>4, Forgetting DEF FileChecked
<1>2. CASE Check(c) /\ client[c].got # Call(c).value
  <2>1. client[c].at = "got" /\ Restored(c, "failed") /\ output' = output
    BY <1>2 DEF Check
  <2> QED
    BY <2>1, RestoredEnds, Forgetting DEF FileChecked
<1>3. CASE Install(c)
  <2>1. /\ client[c].at = "temp"
        /\ \/ output' = client[c].got /\ Restored(c, "ok")
           \/ Restored(c, "failed") /\ output' = output
    BY <1>3 DEF Install
  <2> QED
    BY <2>1, RestoredEnds, Forgetting DEF FileChecked
<1> QED
  BY <1>1, <1>2, <1>3

\* However it goes on, the call is the same or over.
GoesOnOrEnds(c, clean) == Stays(c, clean) \/ \E result, value : Ends(c, result, value, clean)

LEMMA QuietKeepsBase ==
    ASSUME BaseInv, NEW c \in Clients, Quiet(c), Heard(c) \/ Unheard(c) \/ FileChecked(c)
    PROVE  BaseInv'
<1>0. \E clean : GoesOnOrEnds(c, clean)
  BY DEF Heard, Hears, Unheard, FileChecked, GoesOnOrEnds
<1>1. /\ client' \in [Clients -> ClientState] /\ client'[c].sent = client[c].sent /\ calls' = calls
      /\ \A d \in Clients : d # c => client'[d] = client[d]
      /\ client[c].at # "idle" /\ client[c].call <= Len(calls[c])
      /\ req' \in [Slots -> Request]
  BY DEF Quiet, OnlyClient, BaseInv, ClientInv
<1>2. /\ client[c].call \in Nat \ {0} /\ client[c].tries \in 0..MaxAttempts /\ client[c].sent \in Nat
      /\ Len(client[c].outcome) = client[c].call - 1 /\ MaxAttempts \in Nat \ {0}
      /\ client[c].outcome \in Seq([result : {"ok", "failed"}, value : Values \cup {NoValue}, clean : BOOLEAN])
      /\ Len(calls[c]) \in Nat
  <2>2. Len(calls[c]) \in Nat
    <3>1. calls[c] \in Seq(Calls)
      BY DEF BaseInv
    <3> QED
      BY <3>1
  <2> QED
    BY <2>2, ClientIs
<1>6. client[c].sent <= (client[c].call - 1) * MaxAttempts + client[c].tries
  <2>1. client[c].sent <= (client[c].call - 1) * MaxAttempts + client[c].tries
    BY DEF BaseInv, ClientInv
  <2> QED
    BY <2>1
<1>3. /\ client'[c].at \in {"idle", "pause", "got", "temp"} /\ client'[c].call \in {client[c].call, client[c].call + 1}
      /\ client'[c].at = "idle" => client'[c].call = client[c].call + 1
  BY <1>0 DEF GoesOnOrEnds, Stays, Ends
<1>4. ClientInv'
  <2> SUFFICES ASSUME NEW d \in Clients
               PROVE  /\ Len(client'[d].outcome) = client'[d].call - 1 /\ client'[d].call <= Len(calls[d]) + 1
                      /\ client'[d].at # "idle" => client'[d].call <= Len(calls[d])
                      /\ client'[d].at = "idle" => client'[d].tries = 0
                      /\ client'[d].at = "pause" => client'[d].tries < MaxAttempts
                      /\ client'[d].at = "wait" => client'[d].sent # 0
                      /\ client'[d].at \in {"got", "temp"} => Call(d)'.op = "restore"
                      /\ client'[d].sent <= (client'[d].call - 1) * MaxAttempts + client'[d].tries
    BY <1>1 DEF ClientInv
  <2>1. CASE d # c
    BY <1>1, <2>1 DEF BaseInv, ClientInv, Call
  <2>2. CASE d = c /\ \E clean : Stays(c, clean)
    <3>1. /\ client'[c].at \in {"pause", "got", "temp"} /\ client'[c].call = client[c].call
          /\ client'[c].tries = client[c].tries /\ client'[c].outcome = client[c].outcome
          /\ client'[c].at = "pause" => client[c].tries < MaxAttempts
          /\ client'[c].at \in {"got", "temp"} => Call(c).op = "restore"
      BY <2>2 DEF Stays
    <3>2. client'[c].sent <= (client'[c].call - 1) * MaxAttempts + client'[c].tries
      BY <1>1, <1>6, <3>1
    <3>3. Call(c)' = Call(c)
      BY <1>1, <3>1 DEF Call
    <3>4. client[c].call <= Len(calls[c]) + 1
      BY <1>1, <1>2
    <3> QED
      BY <1>1, <1>2, <2>2, <3>1, <3>2, <3>3, <3>4
  <2>3. CASE d = c /\ \E clean, result, value : Ends(c, result, value, clean)
    <3>1. /\ client'[c].at = "idle" /\ client'[c].call = client[c].call + 1 /\ client'[c].tries = 0
          /\ Len(client'[c].outcome) = Len(client[c].outcome) + 1
      BY <1>2, <2>3 DEF Ends
    <3>2. client[c].sent <= client[c].call * MaxAttempts
      <4> DEFINE before == (client[c].call - 1) * MaxAttempts
                 room == client[c].call * MaxAttempts
      <4>1. before + client[c].tries <= room /\ room \in Nat /\ before \in Nat
        BY <1>2, Room
      <4>2. client[c].sent <= before + client[c].tries
        BY <1>6
      <4> HIDE DEF before, room
      <4>3. client[c].sent <= room
        BY <1>2, <4>1, <4>2
      <4> QED
        BY <4>3 DEF room
    <3>3. (client[c].call + 1) - 1 = client[c].call
      BY <1>2
    <3>4. client'[c].sent <= (client'[c].call - 1) * MaxAttempts + client'[c].tries
      <4> DEFINE room == client[c].call * MaxAttempts
      <4>1. room \in Nat /\ (client'[c].call - 1) * MaxAttempts = room
        BY <1>2, <3>1, <3>3, Room
      <4> HIDE DEF room
      <4>2. room + 0 = room
        BY <4>1
      <4>3. client'[c].sent <= room
        BY <1>1, <3>2 DEF room
      <4> QED
        BY <3>1, <4>1, <4>2, <4>3
    <3>5. /\ Len(client'[c].outcome) = client'[c].call - 1 /\ client'[c].call <= Len(calls[c]) + 1
      BY <1>1, <1>2, <3>1
    <3> QED
      BY <2>3, <3>1, <3>4, <3>5
  <2> QED
    BY <1>0, <2>1, <2>2, <2>3 DEF GoesOnOrEnds
<1>5. RequestInv'
  <2> SUFFICES ASSUME NEW q \in Slots
               PROVE  /\ q[2] > client'[q[1]].sent => req'[q] = NoRequest
                      /\ req'[q].call <= client'[q[1]].call
                      /\ client'[q[1]].at = "idle" => req'[q].call < client'[q[1]].call
                      /\ req'[q].at \notin {"none", "done"} =>
                            req'[q].call # 0 /\ req'[q].op = calls[q[1]][req'[q].call].op
                      /\ req'[q].at \in InServer => req'[q].value = calls[q[1]][req'[q].call].value
                      /\ req'[q].at = "replied" => ~Late(q)'
    BY <1>1 DEF RequestInv
  <2>0. q[1] \in Clients /\ req[q] \in Request /\ req[q].call \in Nat /\ q[2] \in Nat
    BY DEF Slots, BaseInv, Request
  <2>1. CASE q[1] # c
    <3>1. req'[q] = req[q] /\ client'[q[1]] = client[q[1]]
      BY <1>1, <2>0, <2>1 DEF Quiet, Current
    <3> QED
      BY <1>1, <3>1 DEF BaseInv, RequestInv, Late
  <2>2. CASE q[1] = c /\ req'[q] = req[q]
    <3>1. req'[q].at # "replied"
      BY <2>2 DEF Quiet
    <3>2. req[q].call <= client[c].call
      BY <2>2 DEF BaseInv, RequestInv
    <3>3. req[q].call <= client'[c].call /\ (client'[c].at = "idle" => req[q].call < client'[c].call)
      <4>1. client[c].call \in Nat /\ req[q].call \in Nat
        BY <1>2, <2>0
      <4>2. client'[c].call \in {client[c].call, client[c].call + 1}
        BY <1>3
      <4>3. client'[c].at = "idle" => client'[c].call = client[c].call + 1
        BY <1>3
      <4> QED
        BY <3>2, <4>1, <4>2, <4>3
    <3> QED
      BY <1>1, <2>2, <3>1, <3>3 DEF BaseInv, RequestInv
  <2>3. CASE q[1] = c /\ req'[q] # req[q]
    <3>1. q = Current(c) /\ req'[q] = Served
      BY <2>3 DEF Quiet
    <3>2. q[2] = client[c].sent
      BY <3>1 DEF Current
    <3>3. client'[c].call \in Nat \ {0} /\ ~(q[2] > client'[c].sent)
      BY <1>1, <1>2, <1>3, <3>2
    <3> QED
      BY <2>3, <3>1, <3>3, Forgotten DEF InServer
  <2> QED
    BY <2>1, <2>2, <2>3
<1> QED
  BY <1>1, <1>4, <1>5 DEF BaseInv

-----------------------------------------------------------------------------
(* Effects *)

LEMMA Outcomes ==
    ASSUME BaseInv, NEW c \in Clients, NEW result, NEW value, NEW clean, Ends(c, result, value, clean)
    PROVE  /\ Len(client'[c].outcome) = client[c].call
           /\ client'[c].outcome[client[c].call].result = result
           /\ client'[c].outcome[client[c].call].value = value
           /\ client'[c].outcome[client[c].call].clean = clean
           /\ \A n \in Nat \ {0} : n < client[c].call => client'[c].outcome[n] = client[c].outcome[n]
<1> DEFINE last == [result |-> result, value |-> value, clean |-> clean]
           T == [result : {"ok", "failed"}, value : Values \cup {NoValue}, clean : BOOLEAN]
<1>1. /\ client[c].outcome \in Seq(T) /\ Len(client[c].outcome) = client[c].call - 1
      /\ client[c].call \in Nat \ {0}
  BY ClientIs
<1>2. client'[c].outcome = Append(client[c].outcome, last)
  BY DEF Ends
<1>3. last.result = result /\ last.value = value /\ last.clean = clean
  OBVIOUS
<1> HIDE DEF last, T
<1>4. /\ Len(client'[c].outcome) = client[c].call /\ client'[c].outcome[client[c].call] = last
      /\ \A n \in 1..(client[c].call - 1) : client'[c].outcome[n] = client[c].outcome[n]
  BY <1>1, <1>2
<1>5. \A n \in Nat \ {0} : n < client[c].call => n \in 1..(client[c].call - 1)
  BY <1>1
<1> QED
  BY <1>3, <1>4, <1>5

\* A call is never clean again.
LEMMA CleanOnly ==
    ASSUME BaseInv, NEW c \in Clients, NEW clean, clean => client[c].clean, clean \in BOOLEAN,
           GoesOnOrEnds(c, clean), NEW n \in Nat \ {0}, n <= client[c].call
    PROVE  /\ CleanOf(c, n)' => CleanOf(c, n)
           /\ n = client[c].call => CleanOf(c, n)' = clean
<1>1. client[c].call \in Nat \ {0}
  BY ClientIs
<1>2. CASE Stays(c, clean)
  <2>1. client'[c].call = client[c].call /\ client'[c].outcome = client[c].outcome /\ client'[c].clean = clean
    BY <1>2 DEF Stays
  <2> QED
    BY <1>1, <2>1 DEF CleanOf
<1>3. CASE \E result, value : Ends(c, result, value, clean)
  <2>1. PICK result, value : Ends(c, result, value, clean)
    BY <1>3
  <2>2. client'[c].call = client[c].call + 1
    BY <2>1 DEF Ends
  <2>3. /\ client'[c].outcome[client[c].call].clean = clean
        /\ \A m \in Nat \ {0} : m < client[c].call => client'[c].outcome[m] = client[c].outcome[m]
    BY <2>1, Outcomes
  <2>4. n < client'[c].call /\ (n = client[c].call \/ n < client[c].call)
    BY <1>1, <2>2
  <2>5. CleanOf(c, n)' = client'[c].outcome[n].clean
    BY <2>4 DEF CleanOf
  <2>6. CASE n = client[c].call
    <3>1. CleanOf(c, n) = client[c].clean
      BY <1>1, <2>6 DEF CleanOf
    <3> QED
      BY <2>3, <2>5, <2>6, <3>1
  <2>7. CASE n < client[c].call
    <3>1. CleanOf(c, n) = client[c].outcome[n].clean /\ n # client[c].call
      BY <1>1, <2>7 DEF CleanOf
    <3> QED
      BY <2>3, <2>5, <2>7, <3>1
  <2> QED
    BY <2>4, <2>6, <2>7
<1> QED
  BY <1>2, <1>3 DEF GoesOnOrEnds

\* How the step of a client ends or goes on, in one formula.
LEMMA QuietGoesOn ==
    ASSUME BaseInv, NEW c \in Clients, Quiet(c), Heard(c) \/ Unheard(c) \/ FileChecked(c)
    PROVE  \E clean \in BOOLEAN :
             /\ GoesOnOrEnds(c, clean) /\ (clean => client[c].clean)
             /\ clean => ~(client[c].at = "wait" /\ req[Current(c)].at # "replied")
<1>1. client[c].clean \in BOOLEAN
  BY ClientIs
<1>2. CASE Heard(c)
  BY <1>1, <1>2 DEF Heard, Hears, GoesOnOrEnds
<1>3. CASE Unheard(c)
  BY <1>3 DEF Unheard, GoesOnOrEnds
<1>4. CASE FileChecked(c)
  BY <1>1, <1>4 DEF FileChecked, GoesOnOrEnds
<1> QED
  BY <1>2, <1>3, <1>4

EffectOf(c, n) ==
    /\ n <= client[c].call /\ n <= Len(calls[c]) /\ calls[c][n].op # "restore"
    /\ n < client[c].call => client[c].outcome[n].result = "ok" \/ ~client[c].outcome[n].clean
    /\ n = client[c].call =>
         /\ client[c].at # "idle"
         /\ \/ ~client[c].clean
            \/ client[c].at = "wait" /\ req[Current(c)].at = "replied" /\ req[Current(c)].status = "ok"

LEMMA EffectQuiet ==
    ASSUME BaseInv, EffectInv, NEW c \in Clients, Quiet(c), Heard(c) \/ Unheard(c) \/ FileChecked(c), done' = done
    PROVE  EffectInv'
<1>1. PICK clean \in BOOLEAN :
        /\ GoesOnOrEnds(c, clean) /\ (clean => client[c].clean)
        /\ clean => ~(client[c].at = "wait" /\ req[Current(c)].at # "replied")
  BY QuietGoesOn
<1>2. /\ calls' = calls /\ \A d \in Clients : d # c => client'[d] = client[d]
      /\ client[c].call \in Nat \ {0} /\ client'[c].sent = client[c].sent
  BY ClientIs DEF Quiet, OnlyClient
<1>3. ASSUME NEW q \in Slots, (req[q].at \in InServer)', Late(q)'
      PROVE  ~CleanOf(q[1], req[q].call)'
  <2>1. req'[q] = req[q]
    BY <1>3, Forgotten DEF Quiet, InServer
  <2>2. q[1] \in Clients /\ req[q].call \in Nat \ {0} /\ req[q].call <= client[q[1]].call
    BY <1>3, <2>1 DEF Slots, BaseInv, RequestInv, Request, InServer
  <2>3. PICK n \in Nat \ {0} : n = req[q].call
    BY <2>2
  <2>4. SUFFICES ~CleanOf(q[1], n)'
    BY <2>1, <2>3 DEF CleanOf
  <2>5. CASE q[1] # c
    <3>1. Late(q) /\ (CleanOf(q[1], n)' = CleanOf(q[1], n))
      BY <1>2, <1>3, <2>1, <2>2, <2>5 DEF Late, CleanOf
    <3> QED
      BY <1>3, <2>1, <2>3, <3>1 DEF EffectInv
  <2>6. CASE q[1] = c /\ Late(q)
    <3>1. ~CleanOf(c, n)
      BY <1>3, <2>1, <2>3, <2>6 DEF EffectInv
    <3>2. CleanOf(c, n)' => CleanOf(c, n)
      BY <1>1, <2>2, <2>3, <2>6, CleanOnly, Zenon
    <3> QED
      BY <2>6, <3>1, <3>2
  <2>7. CASE q[1] = c /\ ~Late(q)
    <3>1. q = Current(c) /\ client[c].at = "wait" /\ n = client[c].call
      BY <2>3, <2>7 DEF Late, Current, Slots
    <3>2. ~clean
      BY <1>1, <1>3, <2>1, <3>1 DEF InServer
    <3>3. n <= client[c].call
      BY <2>2, <2>3, <2>7
    <3>4. CleanOf(c, n)' = clean
      BY <1>1, <3>1, <3>3, CleanOnly, Zenon
    <3> QED
      BY <2>7, <3>2, <3>4
  <2> QED
    BY <2>5, <2>6, <2>7
<1>4. ASSUME NEW d \in Clients, NEW n \in Nat \ {0}, <<d, n>> \in done
      PROVE  EffectOf(d, n)'
  <2>1. EffectOf(d, n)
    BY <1>4 DEF EffectInv, EffectOf
  <2>2. CASE d # c
    <3>1. /\ client'[d] = client[d] /\ Current(d)' = Current(d)
      BY <1>2, <2>2 DEF Current
    <3>2. client[d].at = "wait" => req'[Current(d)] = req[Current(d)]
      <4>1. client[d].at = "wait" => Current(d) \in Slots /\ Current(d) # Current(c)
        BY <2>2, CurrentIsSlot DEF BaseInv, ClientInv, Current
      <4> QED
        BY <4>1 DEF Quiet
    <3> QED
      BY <1>2, <2>1, <3>1, <3>2 DEF EffectOf
  <2>3. CASE d = c /\ n < client[c].call
    <3>1. /\ client'[c].call \in {client[c].call, client[c].call + 1}
          /\ client'[c].outcome[n] = client[c].outcome[n]
      BY <1>1, <2>3, Outcomes DEF GoesOnOrEnds, Stays, Ends
    <3>2. n <= client'[c].call /\ n # client'[c].call /\ n <= Len(calls[c])
      BY <1>2, <2>1, <2>3, <3>1 DEF EffectOf
    <3> QED
      BY <1>2, <2>1, <2>3, <3>1, <3>2 DEF EffectOf
  <2>4. CASE d = c /\ n = client[c].call
    <3>1. /\ n <= Len(calls[c]) /\ Call(c).op # "restore"
          /\ \/ ~client[c].clean
             \/ client[c].at = "wait" /\ req[Current(c)].at = "replied" /\ req[Current(c)].status = "ok"
      BY <2>1, <2>4 DEF EffectOf, Call
    <3>2. \/ client'[c].at # "idle" /\ client'[c].call = n /\ ~client'[c].clean
          \/ \E value : \E result : Ends(c, result, value, FALSE)
          \/ \E value, kept : Ends(c, "ok", value, kept)
      <4>1. CASE ~client[c].clean
        BY <1>1, <2>4, <4>1 DEF GoesOnOrEnds, Stays
      <4>2. CASE client[c].at = "wait" /\ req[Current(c)].at = "replied" /\ req[Current(c)].status = "ok"
        <5>1. ~FileChecked(c)
          BY <4>2 DEF FileChecked
        <5>2. CASE Heard(c)
          BY <3>1, <4>2, <5>2 DEF Heard, Hears
        <5>3. CASE Unheard(c)
          BY <2>4, <5>3 DEF Unheard, Stays
        <5> QED
          BY <5>1, <5>2, <5>3
      <4> QED
        BY <3>1, <4>1, <4>2
    <3>3. CASE client'[c].at # "idle" /\ client'[c].call = n /\ ~client'[c].clean
      BY <1>2, <2>1, <2>4, <3>3 DEF EffectOf
    <3>4. CASE \/ \E value : \E result : Ends(c, result, value, FALSE)
               \/ \E value, kept : Ends(c, "ok", value, kept)
      <4>1. /\ client'[c].call = n + 1
            /\ client'[c].outcome[n].result = "ok" \/ ~client'[c].outcome[n].clean
        BY <2>4, <3>4, Outcomes DEF Ends
      <4>2. n <= client'[c].call /\ n < client'[c].call /\ n # client'[c].call
        BY <4>1
      <4> QED
        BY <1>2, <2>1, <2>4, <4>1, <4>2 DEF EffectOf
    <3> QED
      BY <3>2, <3>3, <3>4
  <2>5. d = c => n < client[c].call \/ n = client[c].call
    BY <1>2, <2>1 DEF EffectOf
  <2> QED
    BY <2>2, <2>3, <2>4, <2>5
<1> QED
  BY <1>3, <1>4, Zenon DEF EffectInv, EffectOf

LEMMA EffectSends ==
    ASSUME BaseInv, EffectInv, NEW c \in Clients, Send(c), calls' = calls, done' = done
    PROVE  EffectInv'
<1>1. /\ SentTo(c) \in Slots /\ client[c].at \in {"idle", "pause"} /\ client'[c].at = "wait"
      /\ client'[c].call = client[c].call /\ client'[c].sent = client[c].sent + 1
      /\ client'[c].outcome = client[c].outcome /\ client'[c].clean = client[c].clean
      /\ \A d \in Clients : d # c => client'[d] = client[d]
      /\ \A q \in Slots : q # SentTo(c) => req'[q] = req[q]
      /\ req'[SentTo(c)].call = client[c].call
  BY Sends
<1>2. \A d \in Clients : \A n : CleanOf(d, n)' = CleanOf(d, n)
  BY <1>1 DEF CleanOf
<1>3. ASSUME NEW q \in Slots, (req[q].at \in InServer)', Late(q)'
      PROVE  ~CleanOf(q[1], req[q].call)'
  <2>1. q # SentTo(c)
    BY <1>1, <1>3 DEF Late, SentTo
  <2>2. req'[q] = req[q] /\ q[1] \in Clients
    BY <1>1, <2>1 DEF Slots
  <2>3. Late(q)
    BY <1>1, <1>3, <2>2 DEF Late
  <2>4. ~CleanOf(q[1], req[q].call)
    BY <1>3, <2>2, <2>3 DEF EffectInv
  <2>5. CleanOf(q[1], req[q].call)' = CleanOf(q[1], req[q].call)
    BY <1>1, <2>2 DEF CleanOf
  <2> QED
    BY <2>4, <2>5
<1>4. ASSUME NEW d \in Clients, NEW n \in Nat \ {0}, <<d, n>> \in done
      PROVE  EffectOf(d, n)'
  <2>1. EffectOf(d, n)
    BY <1>4 DEF EffectInv, EffectOf
  <2>2. CASE d # c
    <3>1. client'[d] = client[d] /\ Current(d)' = Current(d)
      BY <1>1, <2>2 DEF Current
    <3>2. client[d].at = "wait" => req'[Current(d)] = req[Current(d)]
      <4>1. client[d].at = "wait" => Current(d) \in Slots /\ Current(d) # SentTo(c)
        BY <2>2, CurrentIsSlot DEF BaseInv, ClientInv, Current, SentTo
      <4> QED
        BY <1>1, <4>1
    <3> QED
      BY <2>1, <3>1, <3>2 DEF EffectOf
  <2>3. CASE d = c
    BY <1>1, <2>1, <2>3 DEF EffectOf
  <2> QED
    BY <2>2, <2>3
<1> QED
  BY <1>3, <1>4, Zenon DEF EffectInv, EffectOf

\* Either the server keeps the effect to itself, and nobody waits, or it says so.
HasEffect(q) ==
    /\ done' = done \cup {<<q[1], req[q].call>>} /\ req[q].op # "restore"
    /\ Late(q) \/ (req'[q].at = "replied" /\ req'[q].status = "ok")

LEMMA EffectMoves ==
    ASSUME BaseInv, EffectInv, NEW q \in Slots, req[q].at \in InServer, ServerMoves(q), done' = done \/ HasEffect(q)
    PROVE  EffectInv'
<1>1. /\ client' = client /\ calls' = calls /\ \A p \in Slots : p # q => req'[p] = req[p]
  BY DEF ServerMoves
<1>2. \A d : \A n : CleanOf(d, n)' = CleanOf(d, n)
  BY <1>1 DEF CleanOf
<1>3. /\ q[1] \in Clients /\ req[q].call \in Nat \ {0} /\ req[q].call <= client[q[1]].call
      /\ client[q[1]].at = "idle" => req[q].call < client[q[1]].call
      /\ req[q].op = calls[q[1]][req[q].call].op /\ req[q].at \notin {"none", "done", "replied", "dead"}
  BY DEF Slots, BaseInv, RequestInv, Request, InServer
<1>4. ASSUME NEW p \in Slots, (req[p].at \in InServer)', Late(p)'
      PROVE  ~CleanOf(p[1], req[p].call)'
  <2>1. req[p].at \in InServer /\ req'[p].call = req[p].call
    BY <1>1, <1>4, Forgotten DEF ServerMoves, InServer
  <2>2. Late(p)
    BY <1>1, <1>4, <2>1 DEF Late
  <2>3. ~CleanOf(p[1], req[p].call)
    BY <2>1, <2>2 DEF EffectInv
  <2> QED
    BY <1>1, <2>1, <2>3 DEF CleanOf
<1>5. ASSUME NEW d \in Clients, NEW n \in Nat \ {0}, <<d, n>> \in done
      PROVE  EffectOf(d, n)'
  <2>1. EffectOf(d, n)
    BY <1>5 DEF EffectInv, EffectOf
  <2>2. client[d].at = "wait" /\ req[Current(d)].at = "replied" => req'[Current(d)] = req[Current(d)]
    <3>1. client[d].at = "wait" => Current(d) \in Slots
      BY CurrentIsSlot DEF BaseInv, ClientInv
    <3> QED
      BY <1>1, <1>3, <3>1
  <2> QED
    BY <1>1, <2>1, <2>2 DEF EffectOf, Current
<1>6. ASSUME HasEffect(q), NEW c \in Clients, NEW n \in Nat \ {0}, c = q[1], n = req[q].call
      PROVE  EffectOf(c, n)'
  <2>0. /\ client[c].call \in Nat \ {0} /\ client[c].call <= Len(calls[c]) + 1 /\ Len(calls[c]) \in Nat
        /\ client[c].at # "idle" => client[c].call <= Len(calls[c])
    <3>1. calls[c] \in Seq(Calls)
      BY <1>3 DEF BaseInv
    <3>2. Len(calls[c]) \in Nat
      BY <3>1
    <3> QED
      BY <3>2, ClientIs DEF BaseInv, ClientInv
  <2>1. n <= client[c].call /\ n <= Len(calls[c])
    BY <1>3, <1>6, <2>0
  <2>2. calls[c][n].op # "restore"
    BY <1>3, <1>6 DEF HasEffect
  <2>3. CASE Late(q)
    <3>1. ~CleanOf(c, n)
      BY <1>6, <2>3 DEF EffectInv
    <3>2. n < client[c].call => ~client[c].outcome[n].clean
      BY <3>1 DEF CleanOf
    <3>3. n = client[c].call => ~client[c].clean /\ client[c].at # "idle"
      BY <1>3, <1>6, <2>0, <3>1 DEF CleanOf
    <3> QED
      BY <1>1, <2>1, <2>2, <3>2, <3>3 DEF EffectOf
  <2>4. CASE ~Late(q)
    <3>1. n = client[c].call /\ client[c].at = "wait" /\ q = Current(c)
      BY <1>6, <2>4 DEF Late, Slots, Current
    <3>2. req'[q].at = "replied" /\ req'[q].status = "ok" /\ ~(n < client[c].call)
      BY <1>6, <2>0, <2>4, <3>1 DEF HasEffect
    <3>3. Current(c)' = Current(c)
      BY <1>1 DEF Current
    <3> QED
      BY <1>1, <2>1, <2>2, <3>1, <3>2, <3>3 DEF EffectOf
  <2> QED
    BY <2>3, <2>4
<1>7. done' \subseteq Clients \X (Nat \ {0})
  BY <1>3 DEF EffectInv, HasEffect
<1>8. ASSUME NEW d \in Clients, NEW n \in Nat \ {0}, <<d, n>> \in done'
      PROVE  EffectOf(d, n)'
  <2>1. <<d, n>> \in done \/ (HasEffect(q) /\ d = q[1] /\ n = req[q].call)
    BY <1>8 DEF HasEffect
  <2> QED
    BY <1>5, <1>6, <2>1
<1> QED
  BY <1>4, <1>7, <1>8, Zenon DEF EffectInv, EffectOf

-----------------------------------------------------------------------------
(* The retention store *)

\* Only the answer that was heard lets a call end well.
LEMMA NewlyDoneIs ==
    ASSUME BaseInv, NEW c \in Clients, Quiet(c), Heard(c) \/ Unheard(c) \/ FileChecked(c),
           NEW op, op # "restore", NewlyDone(c, op)
    PROVE  /\ Current(c) \in Slots /\ Succeeds(Current(c), op) /\ req[Current(c)].call = client[c].call
           /\ Call(c).op = op /\ Outcome(c).value = req[Current(c)].value
<1>1. Call(c).op = op /\ NewOutcome(c) /\ Outcome(c).result = "ok"
  BY DEF NewlyDone, Calling
<1>2. Len(client[c].outcome) \in Nat /\ Len(client[c].outcome) = client[c].call - 1
  BY ClientIs
<1>3. ASSUME \E clean : Stays(c, clean)
      PROVE  FALSE
  BY <1>1, <1>2, <1>3 DEF Stays, NewOutcome
<1>4. ASSUME NEW result, NEW value, NEW clean, Ends(c, result, value, clean)
      PROVE  result = "ok" /\ Outcome(c).value = value
  BY <1>1, <1>4, Outcomes DEF Outcome
<1>5. ~FileChecked(c)
  BY <1>1 DEF FileChecked, BaseInv, ClientInv
<1>6. ~Unheard(c)
  BY <1>3, <1>4 DEF Unheard
<1>7. /\ client[c].at = "wait" /\ req[Current(c)].at = "replied"
      /\ Hears(c, req[Current(c)].status, req[Current(c)].value, TRUE)
  BY <1>5, <1>6 DEF Heard
<1>8. req[Current(c)].status = "ok" /\ Outcome(c).value = req[Current(c)].value
  BY <1>3, <1>4, <1>7 DEF Hears
<1>9. Current(c) \in Slots
  BY <1>7, CurrentIsSlot DEF BaseInv, ClientInv
<1>10. req[Current(c)].op = Call(c).op /\ req[Current(c)].call = client[c].call
  <2>1. Current(c)[1] = c
    BY DEF Current
  <2> QED
    BY <1>7, <1>9, <2>1, AnswerIsCurrent
<1> QED
  BY <1>1, <1>7, <1>8, <1>9, <1>10 DEF Succeeds

LEMMA RestoreQuiet ==
    ASSUME BaseInv, RestoreInv, NEW c \in Clients, Quiet(c),
           ((Heard(c) \/ Unheard(c)) /\ output' = output) \/ FileChecked(c), object' = object
    PROVE  RestoreInv'
<1>1. /\ calls' = calls /\ \A d \in Clients : d # c => client'[d] = client[d]
      /\ client[c].call \in Nat \ {0} /\ client[c].call <= Len(calls[c]) /\ Len(calls[c]) \in Nat
      /\ calls[c] \in Seq(Calls)
  <2>1. calls[c] \in Seq(Calls)
    BY DEF BaseInv
  <2> QED
    BY <2>1, ClientIs DEF Quiet, OnlyClient, BaseInv, ClientInv
<1>2. \A q \in Slots : (req[q].at = "replied")' => req'[q] = req[q]
  BY Forgotten DEF Quiet
<1>3. client[c].at \in {"got", "temp"} => client[c].got # NoValue /\ Call(c).op = "restore"
  BY DEF RestoreInv, BaseInv, ClientInv
<1>4. /\ client'[c].at \in {"got", "temp"} => client'[c].got # NoValue
      /\ client'[c].at = "temp" => client'[c].got = Call(c)'.value
  <2>1. CASE Heard(c)
    <3>1. CASE client'[c].at = "got"
      <4>1. /\ client[c].at = "wait" /\ req[Current(c)].at = "replied" /\ req[Current(c)].status = "ok"
            /\ Call(c).op = "restore" /\ client'[c].got = req[Current(c)].value
        BY <2>1, <3>1 DEF Heard, Hears, Ends
      <4>2. Current(c) \in Slots /\ Current(c)[1] = c
        BY <4>1, CurrentIsSlot DEF BaseInv, ClientInv, Current
      <4>3. req[Current(c)].op = "restore"
        BY <4>1, <4>2, AnswerIsCurrent
      <4> QED
        BY <3>1, <4>1, <4>2, <4>3 DEF RestoreInv
    <3>2. client'[c].at # "temp"
      BY <2>1 DEF Heard, Hears, Ends
    <3> QED
      BY <3>1, <3>2
  <2>2. CASE Unheard(c)
    BY <2>2 DEF Unheard, Ends
  <2>3. CASE FileChecked(c)
    <3>1. CASE client'[c].at # "idle"
      <4>1. Stays(c, client[c].clean) /\ client'[c].at = "temp" /\ client'[c].got = client[c].got /\ client[c].got = Call(c).value
        BY <2>3, <3>1 DEF FileChecked, Ends
      <4>2. Call(c)' = Call(c)
        BY <1>1, <4>1 DEF Stays, Call
      <4> QED
        BY <1>3, <2>3, <4>1, <4>2 DEF FileChecked
    <3> QED
      BY <3>1
  <2> QED
    BY <2>1, <2>2, <2>3
<1>5. \A d \in Clients : /\ client'[d].at \in {"got", "temp"} => client'[d].got # NoValue
                         /\ client'[d].at = "temp" => client'[d].got = Call(d)'.value
  <2> TAKE d \in Clients
  <2>1. CASE d = c
    BY <1>4, <2>1
  <2>2. CASE d # c
    BY <1>1, <2>2 DEF RestoreInv, Call
  <2> QED
    BY <2>1, <2>2
<1>6. \/ output' = output
      \/ /\ client[c].at = "temp" /\ output' = Call(c).value /\ Call(c).op = "restore"
         /\ output' # NoValue
  BY <1>3 DEF FileChecked, RestoreInv
<1>7. output' # NoValue => \E d \in Clients : \E i \in DOMAIN calls[d] :
                             calls[d][i].op = "restore" /\ calls[d][i].value = output'
  <2>1. CASE output' = output
    BY <2>1 DEF RestoreInv, RestoreIsWhole
  <2>2. CASE output' = Call(c).value /\ Call(c).op = "restore"
    <3>1. client[c].call \in DOMAIN calls[c]
      BY <1>1
    <3> QED
      BY <2>2, <3>1 DEF Call
  <2> QED
    BY <1>6, <2>1, <2>2
<1>8. output # NoValue => output' # NoValue
  BY <1>6
<1>9. ASSUME NEW d \in Clients, NEW i \in DOMAIN client'[d].outcome,
             calls[d][i].op = "restore", client'[d].outcome[i].result = "ok"
      PROVE  output' # NoValue
  <2>1. CASE i \in DOMAIN client[d].outcome /\ client'[d].outcome[i] = client[d].outcome[i]
    BY <1>8, <1>9, <2>1 DEF RestoreInv, RestoreIsWhole
  <2>2. CASE d = c /\ ~(i \in DOMAIN client[d].outcome /\ client'[d].outcome[i] = client[d].outcome[i])
    <3>0. \E clean \in BOOLEAN : GoesOnOrEnds(c, clean)
      BY QuietGoesOn
    <3>1. PICK result, value, clean : Ends(c, result, value, clean)
      BY <2>2, <3>0 DEF GoesOnOrEnds, Stays
    <3>2. /\ client'[c].outcome[client[c].call].result = result
          /\ Len(client'[c].outcome) = client[c].call
          /\ \A n \in Nat \ {0} : n < client[c].call => client'[c].outcome[n] = client[c].outcome[n]
      BY <3>1, Outcomes
    <3>3. i = client[c].call
      <4>0. client' \in [Clients -> ClientState]
        BY DEF Quiet, OnlyClient
      <4>1. client'[c].outcome \in Seq([result : {"ok", "failed"}, value : Values \cup {NoValue}, clean : BOOLEAN])
        BY <4>0 DEF ClientState
      <4>2. i \in 1..client[c].call
        BY <2>2, <3>2, <4>1
      <4>3. /\ Len(client[c].outcome) = client[c].call - 1
            /\ client[c].outcome \in Seq([result : {"ok", "failed"}, value : Values \cup {NoValue}, clean : BOOLEAN])
        BY ClientIs
      <4>4. i < client[c].call => i \in DOMAIN client[c].outcome
        BY <1>1, <4>2, <4>3
      <4> QED
        BY <1>1, <2>2, <3>2, <4>2, <4>4
    <3>4. Ends(c, "ok", value, clean) /\ Call(c).op = "restore"
      BY <1>9, <2>2, <3>1, <3>2, <3>3 DEF Call
    <3>5. ~(Heard(c) \/ Unheard(c))
      <4>1. CASE Unheard(c)
        <5>1. \A v, k : Ends(c, "failed", v, k) => FALSE
          <6> TAKE v, k
          <6> QED
            BY <3>2, <3>4, Outcomes
        <5> QED
          BY <3>4, <4>1, <5>1 DEF Unheard, Stays, Ends
      <4>2. CASE Heard(c)
        <5>1. \A v, k : Ends(c, "failed", v, k) => FALSE
          <6> TAKE v, k
          <6> QED
            BY <3>2, <3>4, Outcomes
        <5> QED
          BY <3>4, <4>2, <5>1 DEF Heard, Hears, Stays, Ends
      <4> QED
        BY <4>1, <4>2
    <3>6. FileChecked(c)
      BY <3>5
    <3>7. output' = client[c].got
      <4>1. \A v, k : Ends(c, "failed", v, k) => FALSE
        <5> TAKE v, k
        <5> QED
          BY <3>2, <3>4, Outcomes
      <4> QED
        BY <3>4, <3>6, <4>1 DEF FileChecked, Stays, Ends
    <3> QED
      BY <1>3, <3>6, <3>7 DEF FileChecked
  <2>3. CASE d # c
    BY <1>1, <1>8, <1>9, <2>3 DEF RestoreInv, RestoreIsWhole
  <2> QED
    BY <2>1, <2>2, <2>3
<1>10. RestoreIsWhole'
  BY <1>1, <1>7, <1>9 DEF RestoreIsWhole
<1> QED
  BY <1>2, <1>5, <1>10 DEF RestoreInv

LEMMA RestoreSends ==
    ASSUME BaseInv, RestoreInv, NEW c \in Clients, Send(c), calls' = calls,
           output' = output, object' = object
    PROVE  RestoreInv'
<1>1. /\ client'[c].at = "wait" /\ client'[c].outcome = client[c].outcome
      /\ \A d \in Clients : d # c => client'[d] = client[d]
      /\ \A q \in Slots : q # SentTo(c) => req'[q] = req[q]
      /\ req'[SentTo(c)].at = "sent"
  BY Sends
<1>2. \A d \in Clients : /\ client'[d].outcome = client[d].outcome
                         /\ client'[d].at \in {"got", "temp"} => client'[d] = client[d]
  BY <1>1
<1>3. RestoreIsWhole'
  BY <1>2 DEF RestoreInv, RestoreIsWhole
<1>4. \A q \in Slots : (req[q].at = "replied")' => req'[q] = req[q]
  BY <1>1
<1> QED
  BY <1>2, <1>3, <1>4 DEF RestoreInv, Call

LEMMA RestoreMoves ==
    ASSUME RestoreInv, NEW q \in Slots, ServerMoves(q), output' = output, object' \in Values \cup {NoValue},
           (req[q].at = "replied" /\ req[q].op = "restore" /\ req[q].status = "ok" => req[q].value # NoValue)'
    PROVE  RestoreInv'
<1>1. client' = client /\ calls' = calls /\ \A p \in Slots : p # q => req'[p] = req[p]
  BY DEF ServerMoves
<1>2. RestoreIsWhole'
  BY <1>1 DEF RestoreInv, RestoreIsWhole
<1> QED
  BY <1>1, <1>2 DEF RestoreInv, Call

-----------------------------------------------------------------------------
(* The lease *)

LeaseKept == lease' = lease /\ lapsed' = lapsed /\ misled' = misled

LEMMA LeaseIs ==
    ASSUME LeaseInv
    PROVE  /\ lease.grant \in Nat /\ lease.call \in Nat /\ lease.owner \in Clients \cup {Nobody}
           /\ lapsed \in Nat /\ lapsed <= lease.grant /\ Nobody \notin Clients
           /\ \A c \in Clients : granted[c] \in Nat /\ granted[c] <= lease.grant
BY RemoteAssumption DEF LeaseInv, LeaseTypes, HoldsOn, Grants

LEMMA LeaseQuiet ==
    ASSUME BaseInv, LeaseInv, NEW c \in Clients, Quiet(c), Heard(c) \/ Unheard(c) \/ FileChecked(c),
           LeaseKept, Learns(c) \/ granted' = granted
    PROVE  LeaseInv'
<1>1. LeaseTypes /\ (\A d \in Clients : HoldsOn(d)) /\ (\A q \in Slots : Grants(q))
  BY DEF LeaseInv
<1>2. /\ \A q \in Slots : (req[q].at \notin {"done"})' => req'[q] = req[q]
      /\ \A q \in Slots : req[q] \in Request /\ req[q].call \in Nat /\ q[1] \in Clients
  BY Forgotten DEF Quiet, BaseInv, Slots, Request
<1>3. \A q \in Slots : Grants(q)'
  BY <1>1, <1>2 DEF Grants, Succeeds, LeaseKept
<1>4. CASE granted' = granted
  <2>1. \A d \in Clients : HoldsOn(d)'
    BY <1>1, <1>2, <1>4 DEF HoldsOn, Serves, LeaseKept
  <2>2. LeaseTypes'
    BY <1>1, <1>4 DEF LeaseTypes, LeaseKept
  <2> QED
    BY <1>3, <2>1, <2>2 DEF LeaseInv
<1>5. CASE NewlyDone(c, "acquire") /\ granted' = [granted EXCEPT ![c] = req[Current(c)].grant]
  <2>1. /\ Current(c) \in Slots /\ Succeeds(Current(c), "acquire") /\ req[Current(c)].call = client[c].call
        /\ Call(c).op = "acquire" /\ Current(c)[1] = c
    BY <1>5, NewlyDoneIs DEF Current
  <2>2. /\ req[Current(c)].grant \in 0..lease.grant
        /\ req[Current(c)].grant > lapsed /\ ~misled => lease.owner = c /\ client[c].call <= lease.call
    BY <1>1, <2>1 DEF Grants
  <2>3. LeaseTypes'
    BY <1>1, <1>5, <2>2 DEF LeaseTypes, LeaseKept
  <2>4. /\ granted'[c] = req[Current(c)].grant /\ \A d \in Clients : d # c => granted'[d] = granted[d]
    BY <1>1, <1>5 DEF LeaseTypes
  <2>5. HoldsOn(c)'
    <3> SUFFICES ASSUME req[Current(c)].grant > lapsed, ~misled
                 PROVE  /\ lease.owner = c
                        /\ \A q \in Slots : (q[1] = c /\ Serves(q, "release", "sent") => req[q].call < lease.call)'
      BY <2>4 DEF HoldsOn, LeaseKept
    <3>1. lease.owner = c /\ client[c].call <= lease.call /\ client[c].call \in Nat /\ lease.call \in Nat
      BY <2>2, LeaseIs, ClientIs
    <3>2. ASSUME NEW q \in Slots, q[1] = c, Serves(q, "release", "sent")'
          PROVE  req'[q].call < lease.call
      <4>1. req'[q] = req[q] /\ req[q].op = "release" /\ req[q].at = "sent"
        BY <1>2, <3>2 DEF Serves
      <4>2. req[q].call <= client[c].call /\ req[q].op = calls[c][req[q].call].op
        BY <3>2, <4>1 DEF BaseInv, RequestInv
      <4>3. req[q].call # client[c].call
        BY <2>1, <4>1, <4>2 DEF Call
      <4> QED
        BY <1>2, <3>1, <4>1, <4>2, <4>3
    <3> QED
      BY <3>1, <3>2 DEF LeaseKept
  <2>6. \A d \in Clients : HoldsOn(d)'
    <3> TAKE d \in Clients
    <3>1. CASE d = c
      BY <2>5, <3>1
    <3>2. CASE d # c
      BY <1>1, <1>2, <2>4, <3>2 DEF HoldsOn, Serves, LeaseKept
    <3> QED
      BY <3>1, <3>2
  <2> QED
    BY <1>3, <2>3, <2>6 DEF LeaseInv
<1> QED
  BY <1>4, <1>5 DEF Learns

LEMMA LeaseSends ==
    ASSUME BaseInv, LeaseInv, NEW c \in Clients, Send(c), calls' = calls, LeaseKept, Yields(c)
    PROVE  LeaseInv'
<1>1. LeaseTypes /\ (\A d \in Clients : HoldsOn(d)) /\ (\A q \in Slots : Grants(q))
  BY DEF LeaseInv
<1>2. /\ \A q \in Slots : q # SentTo(c) => req'[q] = req[q]
      /\ req'[SentTo(c)].at = "sent" /\ req'[SentTo(c)].op = Call(c).op
  BY Sends
<1>3. \A q \in Slots : Grants(q)'
  BY <1>1, <1>2 DEF Grants, Succeeds, LeaseKept
<1>4. /\ granted' \in [Clients -> 0..lease.grant]
      /\ \A d \in Clients : granted'[d] = granted[d] \/ (d = c /\ granted'[d] = 0)
      /\ Call(c).op = "release" => granted'[c] = 0
  <2>1. granted \in [Clients -> 0..lease.grant] /\ 0 \in 0..lease.grant
    BY <1>1, LeaseIs DEF LeaseTypes
  <2> QED
    BY <2>1 DEF Yields
<1>5. ASSUME NEW d \in Clients
      PROVE  HoldsOn(d)'
  <2>1. CASE granted'[d] = 0
    <3>1. ~(granted'[d] > lapsed')
      BY <2>1, LeaseIs DEF LeaseKept
    <3> QED
      BY <3>1 DEF HoldsOn
  <2>2. CASE granted'[d] = granted[d] /\ granted'[d] # 0
    <3>1. ASSUME NEW q \in Slots, q[1] = d, Serves(q, "release", "sent")'
          PROVE  req'[q] = req[q]
      BY <1>2, <1>4, <2>2, <3>1 DEF Serves, SentTo
    <3> QED
      BY <1>1, <2>2, <3>1 DEF HoldsOn, Serves, LeaseKept
  <2> QED
    BY <1>4, <2>1, <2>2
<1>6. LeaseTypes'
  BY <1>1, <1>4 DEF LeaseTypes, LeaseKept
<1> QED
  BY <1>3, <1>5, <1>6 DEF LeaseInv

\* A step of the server that does not grant.
LEMMA LeaseMoves ==
    ASSUME BaseInv, LeaseInv, NEW q \in Slots, ServerMoves(q), LeaseKept, granted' = granted,
           req'[q].at # "sent", ~(Succeeds(q, "acquire")')
    PROVE  LeaseInv'
<1>1. LeaseTypes /\ (\A d \in Clients : HoldsOn(d)) /\ (\A p \in Slots : Grants(p))
  BY DEF LeaseInv
<1>2. \A p \in Slots : p # q => req'[p] = req[p]
  BY DEF ServerMoves
<1>3. \A p \in Slots : Grants(p)'
  BY <1>1, <1>2 DEF Grants, Succeeds, LeaseKept
<1>4. \A d \in Clients : HoldsOn(d)'
  BY <1>1, <1>2 DEF HoldsOn, Serves, LeaseKept
<1>5. LeaseTypes'
  BY <1>1 DEF LeaseTypes, LeaseKept
<1> QED
  BY <1>3, <1>4, <1>5 DEF LeaseInv

LEMMA LeaseAcquired ==
    ASSUME BaseInv, LeaseInv, NEW q \in Slots, Serves(q, "acquire", "sent"), Holder \in {Nobody, q[1]},
           lease' = [owner |-> q[1], grant |-> lease.grant + 1,
                     call |-> Max({req[q].call} \cup (IF Holder = q[1] THEN {lease.call} ELSE {}))],
           Grant(q, lease.grant + 1), UNCHANGED <<client, calls, lapsed, granted, misled>>
    PROVE  LeaseInv' /\ ServerMoves(q)
<1>1. LeaseTypes /\ (\A d \in Clients : HoldsOn(d)) /\ (\A p \in Slots : Grants(p))
  BY DEF LeaseInv
<1>2. /\ lease.grant \in Nat /\ lease.call \in Nat /\ lease.owner \in Clients \cup {Nobody} /\ lapsed \in Nat
      /\ Nobody \notin Clients /\ q[1] \in Clients /\ req[q].call \in Nat
      /\ \A d \in Clients : granted[d] \in Nat /\ granted[d] <= lease.grant
  BY LeaseIs DEF Slots, BaseInv, Request
<1>3. /\ ServerMoves(q)
      /\ IF Late(q) THEN req'[q] = Served
         ELSE /\ req'[q].at = "replied" /\ req'[q].status = "ok" /\ req'[q].grant = lease.grant + 1
              /\ req'[q].op = req[q].op /\ req'[q].call = req[q].call
  <2>1. lease.grant + 1 \in Nat
    BY <1>2
  <2> QED
    BY <2>1, Granted
<1>4. \A p \in Slots : p # q => req'[p] = req[p]
  BY <1>3 DEF ServerMoves
<1> DEFINE call == Max({req[q].call} \cup (IF Holder = q[1] THEN {lease.call} ELSE {}))
<1>5. call \in Nat /\ call >= req[q].call /\ (Holder = q[1] => call >= lease.call)
  <2>1. CASE Holder = q[1]
    <3>1. {req[q].call} \cup (IF Holder = q[1] THEN {lease.call} ELSE {}) = {req[q].call, lease.call}
      BY <2>1
    <3>2. call = Max({req[q].call, lease.call})
      BY <3>1
    <3> HIDE DEF call
    <3> QED
      BY <1>2, <3>2, Greater
  <2>2. CASE Holder # q[1]
    <3>1. {req[q].call} \cup (IF Holder = q[1] THEN {lease.call} ELSE {}) = {req[q].call, req[q].call}
      BY <2>2
    <3>2. call = Max({req[q].call, req[q].call})
      BY <3>1
    <3> HIDE DEF call
    <3> QED
      BY <1>2, <2>2, <3>2, Greater
  <2> QED
    BY <2>1, <2>2
<1>6. lease'.owner = q[1] /\ lease'.grant = lease.grant + 1 /\ lease'.call = call
      /\ lease' \in [owner : Clients \cup {Nobody}, grant : Nat, call : Nat]
  <2>1. lease' = [owner |-> q[1], grant |-> lease.grant + 1, call |-> call]
    OBVIOUS
  <2> HIDE DEF call
  <2> QED
    BY <1>2, <1>5, <2>1
<1> HIDE DEF call
\* Whoever counts on an earlier grant is the one that asks.
<1>7. ASSUME NEW d \in Clients, NEW n \in Nat, n <= lease.grant, n > lapsed, lease.owner = d
      PROVE  d = q[1] /\ Holder = q[1]
  <2>1. ~(lease.grant <= lapsed)
    BY <1>2, <1>7
  <2>2. Holder = d
    BY <1>7, <2>1 DEF Holder, Expired
  <2> QED
    BY <1>2, <1>7, <2>2
<1>8. ASSUME NEW p \in Slots
      PROVE  Grants(p)'
  <2>1. CASE p = q
    <3>1. lease.grant + 1 \in 0..(lease.grant + 1)
      BY <1>2
    <3> QED
      BY <1>3, <1>5, <1>6, <2>1, <3>1, Forgotten DEF Grants, Succeeds
  <2>2. CASE p # q
    <3> SUFFICES ASSUME Succeeds(p, "acquire")
                 PROVE  /\ req[p].grant \in 0..lease'.grant
                        /\ req[p].grant > lapsed /\ ~misled => q[1] = p[1] /\ req[p].call <= lease'.call
      BY <1>4, <1>6, <2>2 DEF Grants, Succeeds
    <3>1. /\ req[p].grant \in 0..lease.grant /\ p[1] \in Clients /\ req[p].call \in Nat
          /\ req[p].grant > lapsed /\ ~misled => lease.owner = p[1] /\ req[p].call <= lease.call
      BY <1>1 DEF Grants, Slots, BaseInv, Request
    <3>2. req[p].grant \in Nat /\ req[p].grant <= lease.grant
      BY <1>2, <3>1
    <3>3. req[p].grant \in 0..lease'.grant
      BY <1>2, <1>6, <3>2
    <3>4. ASSUME req[p].grant > lapsed, ~misled
          PROVE  q[1] = p[1] /\ req[p].call <= lease'.call
      <4>1. p[1] = q[1] /\ Holder = q[1]
        BY <1>7, <3>1, <3>2, <3>4
      <4> QED
        BY <1>2, <1>5, <1>6, <3>1, <3>4, <4>1
    <3> QED
      BY <3>3, <3>4
  <2> QED
    BY <2>1, <2>2
<1>9. ASSUME NEW d \in Clients
      PROVE  HoldsOn(d)'
  <2> SUFFICES ASSUME granted[d] > lapsed, ~misled
               PROVE  /\ lease'.owner = d
                      /\ \A p \in Slots : (p[1] = d /\ Serves(p, "release", "sent") => req[p].call < lease.call)'
    BY DEF HoldsOn
  <2>1. lease.owner = d /\ \A p \in Slots : p[1] = d /\ Serves(p, "release", "sent") => req[p].call < lease.call
    BY <1>1 DEF HoldsOn
  <2>2. d = q[1] /\ Holder = q[1]
    BY <1>2, <1>7, <2>1
  <2>3. ASSUME NEW p \in Slots, p[1] = d, Serves(p, "release", "sent")'
        PROVE  req'[p].call < lease'.call
    <3>1. p # q
      BY <1>3, <2>3, Forgotten DEF Serves
    <3>2. req'[p] = req[p] /\ req[p].call \in Nat
      BY <1>4, <3>1 DEF BaseInv, Request
    <3>3. req[p].call < lease.call
      BY <2>1, <2>3, <3>2 DEF Serves
    <3> QED
      BY <1>2, <1>5, <1>6, <2>2, <3>2, <3>3
  <2> QED
    BY <1>6, <2>2, <2>3
<1>10. LeaseTypes'
  <2>1. /\ lapsed \in 0..(lease.grant + 1)
        /\ granted \in [Clients -> 0..(lease.grant + 1)]
    <3>1. granted \in [Clients -> 0..lease.grant] /\ lapsed \in 0..lease.grant
      BY <1>1 DEF LeaseTypes
    <3>2. 0..lease.grant \subseteq 0..(lease.grant + 1)
      BY <1>2
    <3> QED
      BY <3>1, <3>2
  <2> QED
    BY <1>1, <1>6, <2>1 DEF LeaseTypes
<1> QED
  BY <1>3, <1>8, <1>9, <1>10 DEF LeaseInv

LEMMA LeaseReleased ==
    ASSUME BaseInv, LeaseInv, NEW q \in Slots, Serves(q, "release", "sent"), Holder = q[1],
           lease' = [lease EXCEPT !.owner = Nobody], ServerMoves(q), req'[q] = Served \/ req'[q].at = "replied",
           misled' = (misled \/ lease.call > req[q].call), UNCHANGED <<client, calls, lapsed, granted>>
    PROVE  LeaseInv'
<1>1. LeaseTypes /\ (\A d \in Clients : HoldsOn(d)) /\ (\A p \in Slots : Grants(p))
  BY DEF LeaseInv
<1>2. /\ lease.grant \in Nat /\ lease.call \in Nat /\ lease.owner \in Clients \cup {Nobody} /\ lapsed \in Nat
      /\ Nobody \notin Clients /\ q[1] \in Clients /\ req[q].call \in Nat /\ lease.owner = q[1]
  BY LeaseIs DEF Slots, BaseInv, Request, Holder
<1>3. /\ lease'.owner = Nobody /\ lease'.grant = lease.grant /\ lease'.call = lease.call
      /\ lease' \in [owner : Clients \cup {Nobody}, grant : Nat, call : Nat]
  BY <1>1 DEF LeaseTypes
<1>4. /\ \A p \in Slots : p # q => req'[p] = req[p]
      /\ req'[q].at # "sent" /\ ~(Succeeds(q, "acquire")')
  BY Forgotten DEF ServerMoves, Serves, Succeeds
<1>5. ASSUME NEW d \in Clients
      PROVE  HoldsOn(d)'
  <2> SUFFICES ASSUME granted[d] > lapsed, ~misled'
               PROVE  FALSE
    BY DEF HoldsOn
  <2>1. lease.owner = d /\ req[q].call < lease.call
    BY <1>1, <1>2 DEF HoldsOn
  <2> QED
    BY <1>2, <2>1
<1>6. ASSUME NEW p \in Slots
      PROVE  Grants(p)'
  <2> SUFFICES ASSUME Succeeds(p, "acquire")'
               PROVE  /\ req'[p].grant \in 0..lease.grant
                      /\ req'[p].grant > lapsed /\ ~misled' => FALSE
    BY <1>3 DEF Grants
  <2>1. p # q /\ req'[p] = req[p] /\ Succeeds(p, "acquire")
    BY <1>4 DEF Succeeds
  <2>2. /\ req[p].grant \in 0..lease.grant
        /\ req[p].grant > lapsed /\ ~misled => lease.owner = p[1] /\ req[p].call <= lease.call
    BY <1>1, <2>1 DEF Grants
  <2>3. ASSUME req[p].grant > lapsed, ~misled'
        PROVE  FALSE
    <3>1. p[1] = q[1] /\ req[p].call <= lease.call /\ ~(lease.call > req[q].call)
      BY <1>2, <2>2, <2>3
    <3>2. req[p].call = client[p[1]].call /\ req[p].op = Call(p[1]).op
      BY <2>1, AnswerIsCurrent DEF Succeeds
    <3>3. req[q].call <= client[q[1]].call /\ req[q].op = calls[q[1]][req[q].call].op
      BY DEF BaseInv, RequestInv, Serves
    <3>4. req[p].call \in Nat
      BY DEF BaseInv, Request
    <3>5. req[q].call = client[q[1]].call
      BY <1>2, <3>1, <3>2, <3>3, <3>4
    <3> QED
      BY <2>1, <3>1, <3>2, <3>3, <3>5 DEF Succeeds, Serves, Call
  <2> QED
    BY <2>1, <2>2, <2>3
<1>7. LeaseTypes'
  BY <1>1, <1>2, <1>3 DEF LeaseTypes
<1> QED
  BY <1>5, <1>6, <1>7 DEF LeaseInv

LEMMA LeaseExpires ==
    ASSUME BaseInv, LeaseInv, lapsed' = lease.grant, UNCHANGED <<req, lease, granted, misled>>
    PROVE  LeaseInv'
<1>1. LeaseTypes /\ (\A d \in Clients : HoldsOn(d)) /\ (\A p \in Slots : Grants(p))
  BY DEF LeaseInv
<1>2. /\ lease.grant \in Nat /\ \A d \in Clients : granted[d] \in Nat /\ granted[d] <= lease.grant
  BY LeaseIs
<1>3. \A d \in Clients : ~(granted'[d] > lapsed')
  BY <1>2
<1>4. \A p \in Slots : req[p].grant \in 0..lease.grant => ~(req[p].grant > lapsed')
  BY <1>2
<1>5. LeaseTypes'
  BY <1>1, <1>2 DEF LeaseTypes
<1>6. \A d \in Clients : HoldsOn(d)'
  BY <1>3 DEF HoldsOn
<1>7. \A p \in Slots : Grants(p)'
  BY <1>1, <1>4 DEF Grants, Succeeds
<1> QED
  BY <1>5, <1>6, <1>7 DEF LeaseInv

\* Two clients that hold on are both the owner.
LEMMA LeaseIsHeld == LeaseInv => LeaseIsExclusive
BY DEF LeaseInv, HoldsOn, LeaseIsExclusive, Believes

-----------------------------------------------------------------------------
(* Revocations *)

LEMMA RevokeQuiet ==
    ASSUME BaseInv, RevokeInv, NEW c \in Clients, Quiet(c), Heard(c) \/ Unheard(c) \/ FileChecked(c),
           marker' = marker, knew' = knew, revoked' = (revoked \/ NewlyDone(c, "revoke")) \/ revoked' = revoked
    PROVE  RevokeInv'
<1>1. /\ \A d \in Clients : d # c => client'[d] = client[d]
      /\ client[c].call \in Nat \ {0} /\ client'[c].call \in {client[c].call, client[c].call + 1}
  <2>1. \E clean : GoesOnOrEnds(c, clean)
    BY QuietGoesOn
  <2> QED
    BY <2>1, ClientIs DEF Quiet, OnlyClient, GoesOnOrEnds, Stays, Ends
<1>2. \A q \in Slots : (req[q].at # "done")' => req'[q] = req[q]
  BY Forgotten DEF Quiet
<1>3. revoked' => marker.file
  <2>1. CASE NewlyDone(c, "revoke")
    BY <2>1, NewlyDoneIs DEF RevokeInv, Gone
  <2>2. CASE ~NewlyDone(c, "revoke")
    BY <2>2 DEF RevokeInv
  <2> QED
    BY <2>1, <2>2
<1>4. ASSUME NEW q \in Slots
      PROVE  Gone(q)'
  <2>1. CASE req'[q].at = "done"
    BY <2>1 DEF Gone, Succeeds
  <2>2. CASE req'[q] = req[q]
    <3>1. req[q].call <= client[q[1]].call /\ req[q].call \in Nat /\ q[1] \in Clients
      BY DEF BaseInv, RequestInv, Request, Slots
    <3>2. req[q].call = client'[q[1]].call => req[q].call = client[q[1]].call
      BY <1>1, <3>1
    <3> QED
      BY <2>2, <3>2 DEF RevokeInv, Gone, Succeeds
  <2> QED
    BY <1>2, <2>1, <2>2
<1> QED
  BY <1>3, <1>4 DEF RevokeInv

KnewType == knew \in [Clients -> [current : Nat, revoked : BOOLEAN]]

LEMMA RemembersIs ==
    ASSUME NEW c \in Clients, Remembers(c), KnewType, current \in Nat, revoked \in BOOLEAN
    PROVE  /\ KnewType' /\ \A d \in Clients : d # c => knew'[d] = knew[d]
           /\ IF client[c].at = "idle" THEN knew'[c].current = current /\ knew'[c].revoked = revoked
              ELSE knew'[c] = knew[c]
<1> DEFINE new == [current |-> current, revoked |-> revoked]
<1>1. new \in [current : Nat, revoked : BOOLEAN] /\ new.current = current /\ new.revoked = revoked
  OBVIOUS
<1>2. knew' = IF client[c].at = "idle" THEN [knew EXCEPT ![c] = new] ELSE knew
  BY DEF Remembers
<1> HIDE DEF new
<1> QED
  BY <1>1, <1>2 DEF KnewType

LEMMA RevokeSends ==
    ASSUME BaseInv, RevokeInv, KnewType, current \in Nat, revoked \in BOOLEAN, NEW c \in Clients,
           Send(c), Remembers(c), calls' = calls, revoked' = revoked, marker' = marker
    PROVE  RevokeInv'
<1>1. /\ client[c].at \in {"idle", "pause"} /\ client'[c].call = client[c].call
      /\ \A d \in Clients : d # c => client'[d] = client[d]
      /\ \A q \in Slots : q # SentTo(c) => req'[q] = req[q]
      /\ req'[SentTo(c)].at = "sent"
  BY Sends
<1>2. /\ \A d \in Clients : d # c => knew'[d] = knew[d]
      /\ IF client[c].at = "idle" THEN knew'[c].revoked = revoked ELSE knew'[c] = knew[c]
  BY RemembersIs
<1>3. \A d \in Clients : knew'[d].revoked => marker.file
  BY <1>2 DEF RevokeInv
<1>4. ASSUME NEW q \in Slots
      PROVE  Gone(q)'
  <2>0. q[1] \in Clients /\ req[q].call \in Nat
    BY DEF Slots, BaseInv, Request
  <2>1. CASE q = SentTo(c)
    BY <1>1, <2>1 DEF Gone, Succeeds
  <2>2. CASE q # SentTo(c) /\ q[1] = c /\ client[c].at = "idle"
    <3>1. req[q].call < client[c].call /\ client[c].call \in Nat
      BY <2>2, ClientIs DEF BaseInv, RequestInv
    <3>2. req[q].call # client'[c].call
      BY <1>1, <2>0, <3>1
    <3> QED
      BY <1>1, <2>2, <3>2 DEF RevokeInv, Gone, Succeeds
  <2>3. CASE q # SentTo(c) /\ ~(q[1] = c /\ client[c].at = "idle")
    <3>1. knew'[q[1]] = knew[q[1]] /\ client'[q[1]].call = client[q[1]].call
      BY <1>1, <1>2, <2>0, <2>3
    <3> QED
      BY <1>1, <2>3, <3>1 DEF RevokeInv, Gone, Succeeds
  <2> QED
    BY <2>1, <2>2, <2>3
<1> QED
  BY <1>3, <1>4 DEF RevokeInv

LEMMA RevokeMoves ==
    ASSUME RevokeInv, NEW q \in Slots, ServerMoves(q), knew' = knew, revoked' = revoked,
           marker' \in [file : BOOLEAN, tmp : BOOLEAN], marker.file => marker'.file,
           Succeeds(q, "revoke")' => marker'.file,
           req'[q].op = "fetch" => ((req'[q].at = "read" \/ Succeeds(q, "fetch")') =>
              ~marker.file \/ (req[q].at = "read" /\ req[q].op = "fetch" /\ req[q].call = req'[q].call))
    PROVE  RevokeInv'
<1>1. client' = client /\ \A p \in Slots : p # q => req'[p] = req[p]
  BY DEF ServerMoves
<1>2. \A p \in Slots : Gone(p)'
  <2> TAKE p \in Slots
  <2>1. CASE p # q
    BY <1>1, <2>1 DEF RevokeInv, Gone, Succeeds
  <2>2. CASE p = q
    <3>1. q[1] \in Clients
      BY DEF Slots
    <3> QED
      BY <1>1, <2>2, <3>1 DEF RevokeInv, Gone
  <2> QED
    BY <2>1, <2>2
<1>3. (revoked' => marker'.file) /\ \A c \in Clients : knew'[c].revoked => marker'.file
  BY DEF RevokeInv
<1> QED
  BY <1>2, <1>3 DEF RevokeInv

-----------------------------------------------------------------------------
(* Versions *)

\* What is there has a place among the versions, and it is one of its own.
LEMMA PlaceIs ==
    ASSUME versions \in Seq(Versions), NEW value, \E i \in DOMAIN versions : versions[i] = value
    PROVE  PlaceOf(value) \in DOMAIN versions
<1> DEFINE at == {i \in DOMAIN versions : versions[i] = value}
           n == Len(versions)
<1>1. n \in Nat /\ DOMAIN versions = 1..n
  OBVIOUS
<1>2. at \in SUBSET (1..n) /\ at # {}
  BY <1>1
<1>3. PlaceOf(value) = Max(at)
  BY <1>2, Zenon DEF PlaceOf
<1> HIDE DEF at, n
<1>4. Max(at) \in at
  BY <1>1, <1>2, LastPlace
<1> QED
  BY <1>1, <1>2, <1>3, <1>4

LEMMA PlaceQuiet ==
    ASSUME BaseInv, PlaceInv, NEW c \in Clients, Quiet(c), Heard(c) \/ Unheard(c) \/ FileChecked(c),
           versions' = versions, knew' = knew,
           \/ current' = current
           \/ current' = IF NewlyDone(c, "publish") THEN Max({current, PlaceOf(Call(c).value)}) ELSE current
    PROVE  PlaceInv'
<1>1. \A q \in Slots : (req[q].at # "done")' => req'[q] = req[q]
  BY Forgotten DEF Quiet
<1>2. calls' = calls /\ versions \in Seq(Versions) /\ current \in 0..Len(versions)
      /\ Len(versions) \in Nat /\ DOMAIN versions = 1..Len(versions)
  BY DEF Quiet, PlaceInv
<1>3. current' \in 0..Len(versions) /\ current' >= current
  <2>1. CASE current' = current
    BY <1>2, <2>1
  <2>2. CASE NewlyDone(c, "publish") /\ current' = Max({current, PlaceOf(Call(c).value)})
    <3>1. /\ Current(c) \in Slots /\ Succeeds(Current(c), "publish") /\ req[Current(c)].call = client[c].call
          /\ Current(c)[1] = c
      BY <2>2, NewlyDoneIs DEF Current
    <3>2. \E i \in DOMAIN versions : versions[i] = Call(c).value
      BY <3>1 DEF PlaceInv, Call
    <3>3. PlaceOf(Call(c).value) \in 1..Len(versions)
      BY <1>2, <3>2, PlaceIs
    <3> DEFINE place == PlaceOf(Call(c).value)
    <3>4. place \in Nat /\ current \in Nat /\ place <= Len(versions) /\ current <= Len(versions)
      BY <1>2, <3>3
    <3>5. current' = Max({current, place})
      BY <2>2
    <3> HIDE DEF place
    <3>6. Max({current, place}) \in {current, place} /\ Max({current, place}) >= current
      BY <3>4, Greater
    <3> QED
      BY <1>2, <3>4, <3>5, <3>6
  <2> QED
    BY <2>1, <2>2
<1>4. \A d \in Clients : knew'[d].current <= current'
  <2> TAKE d \in Clients
  <2>1. knew[d].current <= current /\ knew[d].current \in Nat
    BY DEF PlaceInv
  <2> QED
    BY <1>2, <1>3, <2>1
<1>5. \A q \in Slots : Succeeds(q, "publish")' =>
        \E i \in DOMAIN versions : versions[i] = calls[q[1]][req'[q].call].value
  <2> TAKE q \in Slots
  <2>1. Succeeds(q, "publish")' => Succeeds(q, "publish") /\ req'[q] = req[q]
    BY <1>1 DEF Succeeds
  <2> QED
    BY <2>1 DEF PlaceInv
<1> QED
  BY <1>2, <1>3, <1>4, <1>5 DEF PlaceInv

LEMMA PlaceSends ==
    ASSUME BaseInv, PlaceInv, revoked \in BOOLEAN, NEW c \in Clients, Send(c), Remembers(c),
           calls' = calls, versions' = versions, current' = current
    PROVE  PlaceInv'
<1>1. /\ \A q \in Slots : q # SentTo(c) => req'[q] = req[q]
      /\ req'[SentTo(c)].at = "sent"
  BY Sends
<1>2. current \in Nat /\ KnewType
  BY DEF PlaceInv, KnewType
<1>3. /\ KnewType' /\ \A d \in Clients : d # c => knew'[d] = knew[d]
      /\ knew'[c].current = current \/ knew'[c] = knew[c]
  BY <1>2, RemembersIs
<1>4. \A d \in Clients : knew'[d].current <= current
  BY <1>2, <1>3 DEF PlaceInv
<1>5. \A q \in Slots : Succeeds(q, "publish")' => Succeeds(q, "publish") /\ req'[q] = req[q]
  BY <1>1 DEF Succeeds
<1> QED
  BY <1>3, <1>4, <1>5 DEF PlaceInv, KnewType

LEMMA PlaceMoves ==
    ASSUME PlaceInv, NEW q \in Slots, ServerMoves(q), knew' = knew, current' = current,
           versions' = versions \/ \E v \in Versions : versions' = Append(versions, v),
           Succeeds(q, "publish")' =>
              \E i \in DOMAIN versions' : versions'[i] = calls[q[1]][req'[q].call].value
    PROVE  PlaceInv'
<1>1. calls' = calls /\ \A p \in Slots : p # q => req'[p] = req[p]
  BY DEF ServerMoves
<1>2. /\ versions' \in Seq(Versions) /\ current \in 0..Len(versions')
      /\ \A i \in DOMAIN versions : i \in DOMAIN versions' /\ versions'[i] = versions[i]
  BY DEF PlaceInv
<1>3. \A p \in Slots : Succeeds(p, "publish")' =>
        \E i \in DOMAIN versions' : versions'[i] = calls[p[1]][req'[p].call].value
  <2> TAKE p \in Slots
  <2>1. CASE p = q
    BY <2>1
  <2>2. CASE p # q
    <3>1. Succeeds(p, "publish")' => Succeeds(p, "publish") /\ req'[p] = req[p]
      BY <1>1, <2>2 DEF Succeeds
    <3>2. Succeeds(p, "publish")' => \E i \in DOMAIN versions : versions[i] = calls[p[1]][req'[p].call].value
      BY <3>1 DEF PlaceInv
    <3> QED
      BY <1>2, <3>2
  <2> QED
    BY <2>1, <2>2
<1> QED
  BY <1>1, <1>2, <1>3 DEF PlaceInv

-----------------------------------------------------------------------------
(* The file of the envelope *)

\* There are inodes enough: one that nobody uses.
LEMMA UnusedInode ==
    ASSUME BaseInv, dir.tmp = NoInode
    PROVE  LET new == CHOOSE i \in Inodes : i \notin InUse IN new \in Inodes /\ new \notin InUse
<1> DEFINE holders == {req[q].inode : q \in Slots}
           f == [q \in Slots |-> req[q].inode]
           n == Cardinality(Clients) * (MaxCalls * MaxAttempts)
<1>1. IsFiniteSet(Slots) /\ Cardinality(Slots) = n /\ n \in Nat
  <2> DEFINE room == MaxCalls * MaxAttempts
  <2>1. room \in Nat /\ Slots = Clients \X (1..room)
    BY RetriesAssumption DEF Slots
  <2> HIDE DEF room
  <2>2. IsFiniteSet(1..room) /\ Cardinality(1..room) = room
    BY <2>1, FS_Interval
  <2>3. IsFiniteSet(Clients) /\ Cardinality(Clients) \in Nat
    BY RegistryAssumption, FS_CardinalityType
  <2>4. IsFiniteSet(Slots) /\ Cardinality(Slots) = Cardinality(Clients) * room
    BY <2>1, <2>2, <2>3, FS_Product
  <2>5. Cardinality(Clients) * room \in Nat
    BY <2>1, <2>3
  <2> QED
    BY <2>4, <2>5 DEF room
<1> HIDE DEF n
<1>2. f \in Surjection(Slots, holders)
  BY DEF Surjection
<1>3. IsFiniteSet(holders) /\ Cardinality(holders) <= n /\ Cardinality(holders) \in Nat
  <2> HIDE DEF f, holders
  <2>1. IsFiniteSet(holders) /\ Cardinality(holders) <= n
    BY <1>1, <1>2, FS_Surjection
  <2> QED
    BY <2>1, FS_CardinalityType
<1> HIDE DEF holders, f
<1> DEFINE one == holders \cup {dir.file}
           two == one \cup {dir.tmp}
<1>4. IsFiniteSet(one) /\ Cardinality(one) <= n + 1 /\ Cardinality(one) \in Nat
  <2>1. /\ IsFiniteSet(one)
        /\ Cardinality(one) = IF dir.file \in holders THEN Cardinality(holders) ELSE Cardinality(holders) + 1
    BY <1>3, FS_AddElement
  <2> QED
    BY <1>1, <1>3, <2>1
<1> HIDE DEF one
<1>5. IsFiniteSet(two) /\ Cardinality(two) <= n + 2 /\ Cardinality(two) \in Nat
  <2>1. /\ IsFiniteSet(two)
        /\ Cardinality(two) = IF dir.tmp \in one THEN Cardinality(one) ELSE Cardinality(one) + 1
    BY <1>4, FS_AddElement
  <2> QED
    BY <1>1, <1>4, <2>1
<1>6. InUse = two /\ NoInode \in two
  BY DEF InUse, Requests, BaseInv, one, holders
<1> HIDE DEF two
<1> DEFINE free == two \ {NoInode}
<1>7. IsFiniteSet(free) /\ Cardinality(free) < n + 2
  <2>1. IsFiniteSet(free) /\ Cardinality(free) = Cardinality(two) - 1
    BY <1>5, <1>6, FS_RemoveElement
  <2> QED
    BY <1>1, <1>5, <2>1
<1> HIDE DEF free
<1>8. ~(Inodes \subseteq free)
  <2> SUFFICES ASSUME Inodes \subseteq free PROVE FALSE
    OBVIOUS
  <2>1. Cardinality(Inodes) >= n + 2 /\ Cardinality(Inodes) \in Nat
    BY RegistryAssumption, FS_CardinalityType DEF n
  <2>2. Cardinality(Inodes) <= Cardinality(free) /\ Cardinality(free) \in Nat
    BY <1>7, FS_Subset, FS_CardinalityType
  <2> QED
    BY <1>1, <1>7, <2>1, <2>2
<1>9. \E i \in Inodes : i \notin InUse
  BY <1>6, <1>8, RegistryAssumption DEF free
<1> QED
  BY <1>9, Zenon

LEMMA FileOpened ==
    ASSUME NEW d \in Dirs(Inodes, Versions), NEW new, OpenedInode(d, new) \in Inodes
    PROVE  LET i == OpenedInode(d, new)
               opened == Opened(d, new)
           IN /\ opened \in Dirs(Inodes, Versions) /\ opened.file = d.file /\ opened.tmp = i
              /\ opened.data[i] = {} /\ \A j \in Inodes : j # i => opened.data[j] = d.data[j]
<1> DEFINE i == OpenedInode(d, new)
           data == [d.data EXCEPT ![i] = {}]
<1>1. i \in Inodes /\ Opened(d, new) = [d EXCEPT !.tmp = i, !.data[i] = {}]
  BY DEF Opened
<1> HIDE DEF i
<1>2. d.data \in [Inodes -> SUBSET Versions]
  BY DEF Dirs
<1>3. data \in [Inodes -> SUBSET Versions] /\ data[i] = {} /\ \A j \in Inodes : j # i => data[j] = d.data[j]
  BY <1>1, <1>2
<1>4. Opened(d, new) = [d EXCEPT !.tmp = i, !.data = data]
  BY <1>1 DEF Dirs
<1> HIDE DEF data
<1>5. /\ Opened(d, new) \in Dirs(Inodes, Versions) /\ Opened(d, new).file = d.file
      /\ Opened(d, new).tmp = i /\ Opened(d, new).data = data
  BY <1>1, <1>3, <1>4 DEF Dirs
<1> QED
  BY <1>3, <1>5 DEF i

LEMMA FileWritten ==
    ASSUME NEW d \in Dirs(Inodes, Versions), NEW i, NEW value \in Versions, NEW result \in Written(d, i, value)
    PROVE  /\ result \in Dirs(Inodes, Versions) /\ result.file = d.file /\ result.tmp = d.tmp
           /\ i \in Inodes /\ d.data[i] = {} => result.data[i] = {value}
           /\ \A j \in Inodes : j # i => result.data[j] = d.data[j]
<1>1. d.data \in [Inodes -> SUBSET Versions]
  BY DEF Dirs
<1>2. PICK content \in {{value}, d.data[i] \cup {value}} : result = [d EXCEPT !.data[i] = content]
  BY DEF Written
<1> DEFINE data == [d.data EXCEPT ![i] = content]
<1>3. /\ data \in [Inodes -> SUBSET Versions] /\ (i \in Inodes => data[i] = content)
      /\ \A j \in Inodes : j # i => data[j] = d.data[j]
  <2>1. CASE i \in Inodes
    BY <1>1, <1>2, <2>1
  <2>2. CASE i \notin Inodes
    BY <1>1, <2>2
  <2> QED
    BY <2>1, <2>2
<1>4. result = [d EXCEPT !.data = data]
  BY <1>2 DEF Dirs
<1> HIDE DEF data
<1>5. result \in Dirs(Inodes, Versions) /\ result.file = d.file /\ result.tmp = d.tmp /\ result.data = data
  BY <1>3, <1>4 DEF Dirs
<1>6. d.data[i] = {} => content = {value}
  BY <1>2
<1> QED
  BY <1>3, <1>5, <1>6

LEMMA FileRenamed ==
    ASSUME NEW d \in Dirs(Inodes, Versions)
    PROVE  /\ Renamed(d) \in Dirs(Inodes, Versions) /\ Renamed(d).file = d.tmp
           /\ Renamed(d).tmp = NoInode /\ Renamed(d).data = d.data
BY DEF Renamed, Dirs

-----------------------------------------------------------------------------
(* Turns *)

FilesKept == dir' = dir /\ versions' = versions /\ overlapped' = overlapped

LEMMA TurnsQuiet ==
    ASSUME BaseInv, TurnsInv, NEW c \in Clients, Quiet(c), FilesKept, knew' = knew
    PROVE  TurnsInv'
<1> SUFFICES ASSUME ~overlapped
             PROVE  TurnsInv'
  BY DEF TurnsInv, FilesKept
<1>1. \A q \in Slots : req'[q] = req[q] \/ req'[q] = Served
  BY DEF Quiet
<1>2. /\ FileIsLast /\ \A q \in Slots : TurnOf(q)
      /\ \A p, q \in Slots : req[p].inode # 0 /\ req[q].inode # 0 => p = q
  BY DEF TurnsInv
<1>3. FileIsLast'
  BY <1>2 DEF FileIsLast, FilesKept
<1>4. \A q \in Slots : TurnOf(q)'
  BY <1>1, <1>2, Forgotten DEF TurnOf, FilesKept, Serves, Succeeds
<1>5. \A p, q \in Slots : req'[p].inode # 0 /\ req'[q].inode # 0 => p = q
  BY <1>1, <1>2, Forgotten
<1> QED
  BY <1>3, <1>4, <1>5 DEF TurnsInv

LEMMA TurnsSends ==
    ASSUME BaseInv, TurnsInv, KnewType, current \in Nat, revoked \in BOOLEAN, NEW c \in Clients,
           Send(c), Remembers(c), calls' = calls, FilesKept
    PROVE  TurnsInv'
<1> SUFFICES ASSUME ~overlapped
             PROVE  TurnsInv'
  BY DEF TurnsInv, FilesKept
<1>1. /\ client[c].at \in {"idle", "pause"}
      /\ \A q \in Slots : q # SentTo(c) => req'[q] = req[q]
      /\ req'[SentTo(c)].at = "sent" /\ req'[SentTo(c)].inode = 0
  BY Sends
<1>2. /\ FileIsLast /\ \A q \in Slots : TurnOf(q)
      /\ \A p, q \in Slots : req[p].inode # 0 /\ req[q].inode # 0 => p = q
  BY DEF TurnsInv
<1>3. \A d \in Clients : d # c => knew'[d] = knew[d]
  BY RemembersIs
<1>4. FileIsLast'
  BY <1>2 DEF FileIsLast, FilesKept
<1>5. ASSUME NEW q \in Slots
      PROVE  TurnOf(q)'
  <2>1. CASE q = SentTo(c)
    BY <1>1, <2>1 DEF TurnOf, Serves, Succeeds
  <2>2. CASE q # SentTo(c)
    <3>1. req'[q] = req[q] /\ TurnOf(q)
      BY <1>1, <1>2, <2>2
    <3>2. Succeeds(q, "fetch") => knew'[q[1]] = knew[q[1]]
      BY <1>1, <1>3, AnswerIsCurrent DEF Succeeds
    <3> QED
      BY <3>1, <3>2 DEF TurnOf, Serves, Succeeds, FilesKept
  <2> QED
    BY <2>1, <2>2
<1>6. \A p, q \in Slots : req'[p].inode # 0 /\ req'[q].inode # 0 => p = q
  BY <1>1, <1>2
<1> QED
  BY <1>4, <1>5, <1>6 DEF TurnsInv

LEMMA TurnsMoves ==
    ASSUME TurnsInv, NEW q \in Slots, ServerMoves(q), FilesKept, knew' = knew,
           req'[q].op = "publish" => req'[q].at = "replied",
           \/ req'[q].inode = 0
           \/ req'[q].inode = req[q].inode /\ req[q].op # "publish" /\ req'[q].op # "publish",
           Succeeds(q, "fetch")' => (~overlapped =>
              \E i \in DOMAIN versions : versions[i] = req'[q].value /\ i >= knew[q[1]].current)
    PROVE  TurnsInv'
<1> SUFFICES ASSUME ~overlapped
             PROVE  TurnsInv'
  BY DEF TurnsInv, FilesKept
<1>1. \A p \in Slots : p # q => req'[p] = req[p]
  BY DEF ServerMoves
<1>2. /\ FileIsLast /\ \A p \in Slots : TurnOf(p)
      /\ \A p, r \in Slots : req[p].inode # 0 /\ req[r].inode # 0 => p = r
  BY DEF TurnsInv
<1>3. FileIsLast'
  BY <1>2 DEF FileIsLast, FilesKept
<1>4. req'[q].inode = 0
  BY <1>2 DEF TurnOf
<1>5. ASSUME NEW p \in Slots
      PROVE  TurnOf(p)'
  <2>1. CASE p # q
    BY <1>1, <1>2, <2>1 DEF TurnOf, Serves, Succeeds, FilesKept
  <2>2. CASE p = q
    <3>1. /\ ~(req'[q].op = "publish" /\ req'[q].at \in {"write", "rename"})
          /\ ~(Serves(q, "publish", "write")') /\ ~(Serves(q, "publish", "rename")')
      BY DEF Serves
    <3> QED
      BY <1>4, <2>2, <3>1 DEF TurnOf, FilesKept
  <2> QED
    BY <2>1, <2>2
<1>6. \A p, r \in Slots : req'[p].inode # 0 /\ req'[r].inode # 0 => p = r
  BY <1>1, <1>2, <1>4
<1> QED
  BY <1>3, <1>5, <1>6 DEF TurnsInv

-----------------------------------------------------------------------------
(* A request to the registry *)

Elsewhere == UNCHANGED <<client, calls, current, revoked, knew, object, output, lease, lapsed, granted, misled>>

LEMMA RegistryMoves ==
    ASSUME RemoteInv, NEW q \in Slots, ServerMoves(q), req[q].at \in InServer, req[q].op \in RegistryOps,
           req'[q].at # "sent", Elsewhere, done' = done \/ HasEffect(q)
    PROVE  /\ BaseInv' /\ EffectInv' /\ RestoreInv' /\ LeaseInv' /\ (revoked \in BOOLEAN)'
           /\ knew' = knew /\ current' = current /\ revoked' = revoked
<1>1. req'[q].op \in RegistryOps
  BY Forgotten DEF ServerMoves, RegistryOps
<1>2. ~(Succeeds(q, "acquire")') /\ req'[q].op # "restore"
  BY <1>1 DEF Succeeds, RegistryOps
<1>3. BaseInv' /\ EffectInv'
  BY MovesKeepBase, EffectMoves DEF RemoteInv
<1>4. RestoreInv'
  BY <1>2, RestoreMoves DEF RemoteInv, RestoreInv, Elsewhere
<1>5. LeaseInv'
  BY <1>2, LeaseMoves DEF RemoteInv, Elsewhere, LeaseKept
<1> QED
  BY <1>3, <1>4, <1>5 DEF RemoteInv, Elsewhere

LEMMA OpenMoves ==
    ASSUME RemoteInv, NEW q \in Slots, OpenTmp(q), Elsewhere
    PROVE  /\ ServerMoves(q) /\ req[q].op = "publish" /\ req[q].at = "sent"
           /\ req'[q].op = "publish" /\ req'[q].at = "write"
           /\ \E i \in Inodes :
                /\ req'[q].inode = i /\ (dir.tmp = NoInode => i # dir.file) /\ (dir.tmp # NoInode => i = dir.tmp)
                /\ DirInv' /\ dir'.file = dir.file /\ dir'.tmp = i /\ dir'.data[i] = {}
                /\ \A j \in Inodes : j # i => dir'.data[j] = dir.data[j]
<1> DEFINE new == CHOOSE i \in Inodes : i \notin InUse
           i == OpenedInode(dir, new)
<1>1. /\ req[q].op = "publish" /\ req[q].at = "sent" /\ dir' = Opened(dir, new)
      /\ req' = [req EXCEPT ![q].at = "write", ![q].inode = i]
      /\ client' = client /\ calls' = calls
  BY DEF OpenTmp, Serves, Elsewhere
<1>2. dir.tmp = NoInode => new \in Inodes /\ new \notin InUse
  BY UnusedInode DEF RemoteInv
<1> HIDE DEF new
<1>3. /\ i \in Inodes /\ (dir.tmp = NoInode => i # dir.file) /\ (dir.tmp # NoInode => i = dir.tmp)
  BY <1>2 DEF OpenedInode, RemoteInv, DirInv, Dirs, InUse
<1>4. /\ Opened(dir, new) \in Dirs(Inodes, Versions) /\ Opened(dir, new).file = dir.file
      /\ Opened(dir, new).tmp = i /\ Opened(dir, new).data[i] = {}
      /\ \A j \in Inodes : j # i => Opened(dir, new).data[j] = dir.data[j]
  BY <1>3, FileOpened DEF RemoteInv, DirInv
<1> HIDE DEF i
<1> DEFINE to == [req[q] EXCEPT !.at = "write", !.inode = i]
<1>5. req' = [req EXCEPT ![q] = to] /\ req \in [Slots -> Request] /\ req[q] \in Request
  BY <1>1 DEF RemoteInv, BaseInv
<1>6. /\ to \in Request /\ to.at = "write" /\ to.inode = i /\ to.op = req[q].op
      /\ to.call = req[q].call /\ to.value = req[q].value /\ to.grant = req[q].grant /\ to.grant \in Nat
  <2>1. i \in Nat
    BY <1>3, RegistryAssumption
  <2> QED
    BY <1>5, <2>1 DEF Request, InServer
<1> HIDE DEF to
<1>7. ServerMoves(q) /\ req'[q] = to
  BY <1>1, <1>5, <1>6 DEF ServerMoves, InServer
<1> QED
  BY <1>1, <1>3, <1>4, <1>6, <1>7 DEF DirInv

\* Whose turn it is, when nobody else has a file open.
LEMMA SoleTurn ==
    ASSUME NEW q \in Slots, \A p \in Slots : p # q => req'[p] = req[p] /\ req[p].inode = 0 /\ TurnOf(p),
           knew' = knew, \A i \in DOMAIN versions : i \in DOMAIN versions' /\ versions'[i] = versions[i],
           FileIsLast', TurnOf(q)'
    PROVE  TurnsInv'
<1>1. ASSUME NEW p \in Slots
      PROVE  TurnOf(p)'
  <2>1. CASE p = q
    BY <2>1
  <2>2. CASE p # q
    <3>1. req'[p] = req[p] /\ req[p].inode = 0 /\ TurnOf(p)
      BY <2>2
    <3>2. Succeeds(p, "fetch")' => \E i \in DOMAIN versions' : versions'[i] = req'[p].value /\ i >= knew'[p[1]].current
      BY <3>1 DEF TurnOf, Succeeds
    <3>3. ~(req[p].op = "publish" /\ req[p].at \in {"write", "rename"})
      BY <3>1 DEF TurnOf
    <3> QED
      BY <3>1, <3>2, <3>3 DEF TurnOf, Serves
  <2> QED
    BY <2>1, <2>2
<1>2. \A p, r \in Slots : req'[p].inode # 0 /\ req'[r].inode # 0 => p = r
  <2>1. \A p \in Slots : req'[p].inode # 0 => p = q
    OBVIOUS
  <2> QED
    BY <2>1
<1> QED
  BY <1>1, <1>2 DEF TurnsInv

LEMMA OpenKeeps ==
    ASSUME RemoteInv, NEW q \in Slots, OpenTmp(q), Marks(q), Elsewhere
    PROVE  RemoteInv'
<1>1. /\ ServerMoves(q) /\ req[q].op = "publish" /\ req[q].at = "sent"
      /\ req'[q].op = "publish" /\ req'[q].at = "write"
  BY OpenMoves
<1>2. PICK i \in Inodes :
        /\ req'[q].inode = i /\ (dir.tmp = NoInode => i # dir.file) /\ (dir.tmp # NoInode => i = dir.tmp)
        /\ DirInv' /\ dir'.file = dir.file /\ dir'.tmp = i /\ dir'.data[i] = {}
        /\ \A j \in Inodes : j # i => dir'.data[j] = dir.data[j]
  BY OpenMoves
<1>3. /\ marker' = marker /\ versions' = versions
      /\ overlapped' = (overlapped \/ \E p \in Slots : req[p].inode # 0)
  BY DEF OpenTmp, RemoteInv, BaseInv, Requests
<1>4. done' = done
  BY <1>3 DEF Marks
<1>5. /\ BaseInv' /\ EffectInv' /\ RestoreInv' /\ LeaseInv' /\ (revoked \in BOOLEAN)'
      /\ knew' = knew /\ current' = current /\ revoked' = revoked
  BY <1>1, <1>4, RegistryMoves DEF InServer, RegistryOps
<1>6. RevokeInv'
  BY <1>1, <1>3, <1>5, RevokeMoves DEF RemoteInv, RevokeInv, Succeeds
<1>7. PlaceInv'
  BY <1>1, <1>3, <1>5, PlaceMoves DEF RemoteInv, Succeeds
<1>8. TurnsInv'
  <2> SUFFICES ASSUME ~overlapped, \A p \in Slots : req[p].inode = 0
               PROVE  TurnsInv'
    BY <1>3 DEF TurnsInv
  <2>1. FileIsLast /\ \A p \in Slots : TurnOf(p)
    BY DEF RemoteInv, TurnsInv
  <2>2. i # dir.file /\ i # NoInode
    BY <1>2, <2>1, RegistryAssumption DEF FileIsLast
  <2>3. dir.file # NoInode => dir'.data[dir.file] = dir.data[dir.file]
    BY <1>2, <2>2 DEF RemoteInv, DirInv, Dirs
  <2>4. FileIsLast'
    BY <1>2, <1>3, <2>1, <2>2, <2>3 DEF FileIsLast
  <2>5. TurnOf(q)'
    BY <1>1, <1>2, <2>2 DEF TurnOf, Serves, Succeeds, NoInode
  <2>6. \A p \in Slots : p # q => req'[p] = req[p] /\ req[p].inode = 0 /\ TurnOf(p)
    BY <1>1, <2>1 DEF ServerMoves
  <2> HIDE DEF TurnOf, FileIsLast
  <2>7. \A n \in DOMAIN versions : n \in DOMAIN versions' /\ versions'[n] = versions[n]
    BY <1>3
  <2> QED
    BY <1>5, <2>4, <2>5, <2>6, <2>7, SoleTurn
<1> QED
  BY <1>2, <1>5, <1>6, <1>7, <1>8 DEF RemoteInv

LEMMA WriteKeeps ==
    ASSUME RemoteInv, NEW q \in Slots, WriteTmp(q), Marks(q), Elsewhere
    PROVE  RemoteInv'
<1>1. /\ req[q].op = "publish" /\ req[q].at = "write" /\ dir' \in Written(dir, req[q].inode, req[q].value)
      /\ Goes(q, "rename") /\ marker' = marker /\ versions' = versions /\ overlapped' = overlapped
  BY DEF WriteTmp, Serves
<1>2. /\ ServerMoves(q) /\ req'[q].at = "rename" /\ req'[q].inode = req[q].inode
      /\ req'[q].op = "publish" /\ req'[q].value = req[q].value
  BY <1>1, GoesOn DEF RemoteInv, Elsewhere, InServer
<1>3. req[q].value \in Versions
  BY DEF RemoteInv, BaseInv, Request, Versions
<1>4. /\ DirInv' /\ dir'.file = dir.file /\ dir'.tmp = dir.tmp
      /\ req[q].inode \in Inodes /\ dir.data[req[q].inode] = {} => dir'.data[req[q].inode] = {req[q].value}
      /\ \A j \in Inodes : j # req[q].inode => dir'.data[j] = dir.data[j]
  <2> DEFINE inode == req[q].inode
             value == req[q].value
  <2>1. dir \in Dirs(Inodes, Versions) /\ value \in Versions /\ dir' \in Written(dir, inode, value)
    BY <1>1, <1>3 DEF RemoteInv, DirInv
  <2> HIDE DEF inode, value
  <2>2. /\ dir' \in Dirs(Inodes, Versions) /\ dir'.file = dir.file /\ dir'.tmp = dir.tmp
        /\ inode \in Inodes /\ dir.data[inode] = {} => dir'.data[inode] = {value}
        /\ \A j \in Inodes : j # inode => dir'.data[j] = dir.data[j]
    BY <2>1, FileWritten
  <2> QED
    BY <2>2 DEF inode, value, DirInv
<1>5. done' = done
  BY <1>1 DEF Marks
<1>6. /\ BaseInv' /\ EffectInv' /\ RestoreInv' /\ LeaseInv' /\ (revoked \in BOOLEAN)'
      /\ knew' = knew /\ current' = current /\ revoked' = revoked
  BY <1>1, <1>2, <1>5, RegistryMoves DEF InServer, RegistryOps
<1>7. RevokeInv'
  BY <1>1, <1>2, <1>6, RevokeMoves DEF RemoteInv, RevokeInv, Succeeds
<1>8. PlaceInv'
  BY <1>1, <1>2, <1>6, PlaceMoves DEF RemoteInv, Succeeds
<1>9. TurnsInv'
  <2> SUFFICES ASSUME ~overlapped
               PROVE  TurnsInv'
    BY <1>1 DEF TurnsInv
  <2>1. /\ FileIsLast /\ \A p \in Slots : TurnOf(p)
        /\ \A p, r \in Slots : req[p].inode # 0 /\ req[r].inode # 0 => p = r
    BY DEF RemoteInv, TurnsInv
  <2>2. req[q].inode = dir.tmp /\ req[q].inode # 0 /\ dir.data[dir.tmp] = {}
    BY <1>1, <2>1 DEF TurnOf, Serves
  <2>3. req[q].inode \in Inodes /\ dir.tmp # dir.file
    BY <2>1, <2>2 DEF RemoteInv, DirInv, Dirs, FileIsLast, NoInode
  <2>4. dir.file # NoInode => dir'.data[dir.file] = dir.data[dir.file]
    BY <1>4, <2>2, <2>3 DEF RemoteInv, DirInv, Dirs
  <2>5. FileIsLast'
    BY <1>1, <1>4, <2>1, <2>4 DEF FileIsLast
  <2>6. TurnOf(q)'
    BY <1>2, <1>4, <2>2, <2>3 DEF TurnOf, Serves, Succeeds
  <2>7. \A p \in Slots : p # q => req'[p] = req[p] /\ req[p].inode = 0 /\ TurnOf(p)
    BY <1>2, <2>1, <2>2 DEF ServerMoves
  <2>8. \A n \in DOMAIN versions : n \in DOMAIN versions' /\ versions'[n] = versions[n]
    BY <1>1
  <2> QED
    BY <1>6, <2>5, <2>6, <2>7, <2>8, SoleTurn
<1> QED
  BY <1>4, <1>6, <1>7, <1>8, <1>9 DEF RemoteInv

\* An answer to a request to the registry, from its place in the server.
LEMMA AnswerMoves ==
    ASSUME RemoteInv, NEW q \in Slots, req[q].at \in InServer, NEW status \in Statuses,
           NEW value \in Versions, Reply(q, status, value), UNCHANGED <<client, calls>>
    PROVE  /\ ServerMoves(q) /\ req'[q].inode = 0 /\ req'[q].at \in {"done", "replied"}
           /\ \/ Late(q) /\ req'[q].at = "done" /\ req'[q].op = "fetch"
              \/ /\ ~Late(q) /\ req'[q].at = "replied" /\ req'[q].status = status /\ req'[q].value = value
                 /\ req'[q].op = req[q].op /\ req'[q].call = req[q].call
<1>1. ServerMoves(q) /\ Answered(q, status, value)
  BY Answers DEF RemoteInv, Versions
<1> QED
  BY <1>1, Forgotten DEF Answered

LEMMA RenameKeeps ==
    ASSUME RemoteInv, NEW q \in Slots, Rename(q), CanRename(dir), Marks(q), Elsewhere
    PROVE  RemoteInv'
<1>1. /\ req[q].op = "publish" /\ req[q].at = "rename" /\ dir' = Renamed(dir)
      /\ versions' = Append(versions, req[q].value) /\ Reply(q, "ok", NoValue)
      /\ marker' = marker /\ overlapped' = overlapped
  BY DEF Rename, Serves
<1>2. /\ ServerMoves(q) /\ req'[q].inode = 0 /\ req'[q].at \in {"done", "replied"}
      /\ \/ Late(q) /\ req'[q].at = "done" /\ req'[q].op = "fetch"
         \/ /\ ~Late(q) /\ req'[q].at = "replied" /\ req'[q].status = "ok"
            /\ req'[q].op = req[q].op /\ req'[q].call = req[q].call
  BY <1>1, AnswerMoves DEF Elsewhere, InServer, Statuses, Versions
<1>3. req[q].value \in Versions /\ versions \in Seq(Versions)
  BY DEF RemoteInv, BaseInv, Request, PlaceInv, Versions
<1>4. /\ Len(versions') = Len(versions) + 1 /\ Len(versions) \in Nat /\ DOMAIN versions' = 1..(Len(versions) + 1)
      /\ versions'[Len(versions) + 1] = req[q].value
      /\ \A n \in DOMAIN versions : n \in DOMAIN versions' /\ versions'[n] = versions[n]
  BY <1>1, <1>3
<1>5. HasEffect(q)
  <2>1. versions' # versions
    BY <1>4
  <2> QED
    BY <1>1, <1>2, <2>1 DEF Marks, Effects, HasEffect
<1>6. /\ BaseInv' /\ EffectInv' /\ RestoreInv' /\ LeaseInv' /\ (revoked \in BOOLEAN)'
      /\ knew' = knew /\ current' = current /\ revoked' = revoked
  BY <1>1, <1>2, <1>5, RegistryMoves DEF InServer, RegistryOps
<1>7. RevokeInv'
  BY <1>1, <1>2, <1>6, RevokeMoves DEF RemoteInv, RevokeInv, Succeeds
<1>8. PlaceInv'
  <2>1. req[q].value = calls[q[1]][req[q].call].value
    BY <1>1 DEF RemoteInv, BaseInv, RequestInv, InServer
  <2>2. Succeeds(q, "publish")' => versions'[Len(versions) + 1] = calls[q[1]][req'[q].call].value
    BY <1>2, <1>4, <2>1 DEF Succeeds
  <2>3. Succeeds(q, "publish")' => \E i \in DOMAIN versions' : versions'[i] = calls[q[1]][req'[q].call].value
    BY <1>4, <2>2
  <2> QED
    BY <1>1, <1>2, <1>3, <1>6, <2>3, PlaceMoves DEF RemoteInv
<1>9. DirInv' /\ dir'.file = dir.tmp /\ dir'.tmp = NoInode /\ dir'.data = dir.data
  BY <1>1, FileRenamed DEF RemoteInv, DirInv
<1>10. TurnsInv'
  <2> SUFFICES ASSUME ~overlapped
               PROVE  TurnsInv'
    BY <1>1 DEF TurnsInv
  <2>1. /\ FileIsLast /\ \A p \in Slots : TurnOf(p)
        /\ \A p, r \in Slots : req[p].inode # 0 /\ req[r].inode # 0 => p = r
    BY DEF RemoteInv, TurnsInv
  <2>2. req[q].inode # 0 /\ dir.data[dir.tmp] = {req[q].value}
    BY <1>1, <2>1 DEF TurnOf, Serves
  <2>3. FileIsLast'
    <3>1. versions' # <<>> /\ dir.tmp # NoInode
      BY <1>4 DEF CanRename
    <3> QED
      BY <1>4, <1>9, <2>2, <3>1 DEF FileIsLast
  <2>4. TurnOf(q)'
    BY <1>1, <1>2 DEF TurnOf, Serves, Succeeds
  <2>5. \A p \in Slots : p # q => req'[p] = req[p] /\ req[p].inode = 0 /\ TurnOf(p)
    BY <1>2, <2>1, <2>2 DEF ServerMoves
  <2> QED
    BY <1>4, <1>6, <2>3, <2>4, <2>5, SoleTurn
<1> QED
  BY <1>6, <1>7, <1>8, <1>9, <1>10 DEF RemoteInv

\* A step that leaves the envelope alone.
LEMMA FileStays ==
    ASSUME RemoteInv, NEW q \in Slots, ServerMoves(q), req[q].at \in InServer, req[q].op \in RegistryOps,
           req'[q].at # "sent", Elsewhere, FilesKept, done' = done \/ HasEffect(q),
           marker' \in [file : BOOLEAN, tmp : BOOLEAN], marker.file => marker'.file,
           Succeeds(q, "revoke")' => marker'.file, ~(Succeeds(q, "publish")'),
           req'[q].op = "fetch" => ((req'[q].at = "read" \/ Succeeds(q, "fetch")') =>
              ~marker.file \/ (req[q].at = "read" /\ req[q].op = "fetch" /\ req[q].call = req'[q].call)),
           req'[q].op = "publish" => req'[q].at = "replied",
           \/ req'[q].inode = 0
           \/ req'[q].inode = req[q].inode /\ req[q].op # "publish" /\ req'[q].op # "publish",
           Succeeds(q, "fetch")' => (~overlapped =>
              \E i \in DOMAIN versions : versions[i] = req'[q].value /\ i >= knew[q[1]].current)
    PROVE  RemoteInv'
<1>1. /\ BaseInv' /\ EffectInv' /\ RestoreInv' /\ LeaseInv' /\ (revoked \in BOOLEAN)'
      /\ knew' = knew /\ current' = current /\ revoked' = revoked
  BY RegistryMoves
<1>2. RevokeInv'
  BY <1>1, RevokeMoves DEF RemoteInv
<1>3. PlaceInv'
  BY <1>1, PlaceMoves DEF RemoteInv, FilesKept
<1>4. TurnsInv'
  BY <1>1, TurnsMoves DEF RemoteInv
<1>5. DirInv'
  BY DEF RemoteInv, DirInv, FilesKept
<1> QED
  BY <1>1, <1>2, <1>3, <1>4, <1>5 DEF RemoteInv

\* An answer that is not the good one.
LEMMA RefusalKeeps ==
    ASSUME RemoteInv, NEW q \in Slots, req[q].at \in InServer, req[q].op \in RegistryOps, Elsewhere, FilesKept,
           marker' = marker, done' = done, NEW status \in {"client", "server"}, Reply(q, status, NoValue)
    PROVE  RemoteInv'
<1>1. /\ ServerMoves(q) /\ req'[q].inode = 0 /\ req'[q].at \in {"done", "replied"}
      /\ \/ Late(q) /\ req'[q].at = "done" /\ req'[q].op = "fetch"
         \/ /\ ~Late(q) /\ req'[q].at = "replied" /\ req'[q].status = status
            /\ req'[q].op = req[q].op /\ req'[q].call = req[q].call
  <2>1. status \in Statuses /\ NoValue \in Versions
    BY DEF Statuses, Versions
  <2> QED
    BY <2>1, AnswerMoves DEF Elsewhere
<1>2. \A op : ~(Succeeds(q, op)')
  BY <1>1 DEF Succeeds
<1>3. marker \in [file : BOOLEAN, tmp : BOOLEAN]
  BY DEF RemoteInv, RevokeInv
<1> QED
  BY <1>1, <1>2, <1>3, FileStays

\* The server goes on with a request that does not publish.
LEMMA GoingKeeps ==
    ASSUME RemoteInv, NEW q \in Slots, req[q].at \in InServer, req[q].op \in {"fetch", "revoke"}, Elsewhere, FilesKept,
           done' = done, marker' \in [file : BOOLEAN, tmp : BOOLEAN], marker.file => marker'.file,
           NEW step \in {"read", "mark", "marked"}, Goes(q, step),
           step = "read" => ~marker.file
    PROVE  RemoteInv'
<1>1. /\ ServerMoves(q) /\ req'[q].at = step /\ req'[q].inode = req[q].inode /\ req'[q].op = req[q].op
  <2>1. step \in InServer
    BY DEF InServer
  <2> QED
    BY <2>1, GoesOn DEF RemoteInv, Elsewhere
<1>2. \A op : ~(Succeeds(q, op)')
  BY <1>1 DEF Succeeds
<1> QED
  BY <1>1, <1>2, FileStays DEF RegistryOps

LEMMA StatKeeps ==
    ASSUME RemoteInv, NEW q \in Slots, Stat(q), Marks(q), Elsewhere
    PROVE  RemoteInv'
<1>1. /\ req[q].op \in {"fetch", "revoke"} /\ req[q].at \in InServer /\ FilesKept /\ marker' = marker
      /\ IF marker.file THEN Reply(q, "client", NoValue) ELSE Goes(q, "read")
  BY DEF Stat, files, FilesKept, InServer
<1>2. done' = done
  BY <1>1 DEF Marks, FilesKept
<1>3. CASE marker.file
  BY <1>1, <1>2, <1>3, RefusalKeeps DEF RegistryOps
<1>4. CASE ~marker.file
  BY <1>1, <1>2, <1>4, GoingKeeps DEF RemoteInv, RevokeInv
<1> QED
  BY <1>3, <1>4

LEMMA PutFailsKeeps ==
    ASSUME RemoteInv, NEW q \in Slots, PutFails(q), Marks(q), Elsewhere
    PROVE  RemoteInv'
<1>1. /\ req[q].op = "publish" /\ req[q].at \in InServer /\ FilesKept /\ marker' = marker
      /\ Reply(q, "server", NoValue)
  BY DEF PutFails, files, FilesKept, InServer
<1>2. done' = done
  BY <1>1 DEF Marks, FilesKept
<1> QED
  BY <1>1, <1>2, RefusalKeeps DEF RegistryOps

LEMMA RenameFails ==
    ASSUME RemoteInv, NEW q \in Slots, Rename(q), ~CanRename(dir), Marks(q), Elsewhere
    PROVE  RemoteInv'
<1>1. /\ req[q].op = "publish" /\ req[q].at \in InServer /\ FilesKept /\ marker' = marker
      /\ Reply(q, "server", NoValue)
  BY DEF Rename, Serves, FilesKept, InServer
<1>2. done' = done
  BY <1>1 DEF Marks, FilesKept
<1> QED
  BY <1>1, <1>2, RefusalKeeps DEF RegistryOps

\* What is read is the last version, if those who published took turns.
LEMMA ReadKeeps ==
    ASSUME RemoteInv, NEW q \in Slots, Read(q), Marks(q), Elsewhere
    PROVE  RemoteInv'
<1>1. /\ req[q].op \in {"fetch", "revoke"} /\ req[q].at = "read" /\ req[q].at \in InServer
      /\ FilesKept /\ marker' = marker
      /\ \/ \E status \in {"client", "server"} : Reply(q, status, NoValue)
         \/ req[q].op = "revoke" /\ Goes(q, "mark")
         \/ /\ dir.file # NoInode /\ Decodes(dir) /\ req[q].op = "fetch"
            /\ Reply(q, "ok", ValueOf(dir, NoValue))
  BY DEF Read, files, FilesKept, InServer
<1>2. done' = done
  BY <1>1 DEF Marks, FilesKept
<1>3. CASE \E status \in {"client", "server"} : Reply(q, status, NoValue)
  BY <1>1, <1>2, <1>3, RefusalKeeps DEF RegistryOps
<1>4. CASE req[q].op = "revoke" /\ Goes(q, "mark")
  BY <1>1, <1>2, <1>4, GoingKeeps DEF RemoteInv, RevokeInv
<1>5. CASE /\ dir.file # NoInode /\ Decodes(dir) /\ req[q].op = "fetch"
           /\ Reply(q, "ok", ValueOf(dir, NoValue))
  <2> DEFINE value == ValueOf(dir, NoValue)
  <2>1. dir.data[dir.file] = {value} /\ value \in Versions
    <3>1. PICK v \in dir.data[dir.file] : dir.data[dir.file] = {v}
      BY <1>5 DEF Decodes
    <3>2. v \in Versions
      BY <1>5 DEF RemoteInv, DirInv, Dirs
    <3>3. value = v
      BY <1>5, <3>1 DEF ValueOf
    <3> QED
      BY <3>1, <3>2, <3>3
  <2>2. Reply(q, "ok", value)
    BY <1>5
  <2> HIDE DEF value
  <2>3. /\ ServerMoves(q) /\ req'[q].inode = 0 /\ req'[q].at \in {"done", "replied"}
        /\ \/ Late(q) /\ req'[q].at = "done" /\ req'[q].op = "fetch"
           \/ /\ ~Late(q) /\ req'[q].at = "replied" /\ req'[q].status = "ok" /\ req'[q].value = value
              /\ req'[q].op = req[q].op /\ req'[q].call = req[q].call
    BY <1>1, <2>1, <2>2, AnswerMoves DEF Elsewhere, Statuses
  <2>4. ASSUME ~overlapped
        PROVE  \E i \in DOMAIN versions : versions[i] = value /\ i >= knew[q[1]].current
    <3>1. FileIsLast
      BY <2>4 DEF RemoteInv, TurnsInv
    <3>2. versions # <<>> /\ {versions[Len(versions)]} = {value}
      BY <1>5, <2>1, <3>1 DEF FileIsLast
    <3>3. /\ versions \in Seq(Versions) /\ current \in 0..Len(versions) /\ q[1] \in Clients
          /\ knew[q[1]].current <= current /\ knew[q[1]].current \in Nat
      BY DEF RemoteInv, PlaceInv, Slots
    <3>4. Len(versions) \in DOMAIN versions /\ Len(versions) \in Nat
      BY <3>2, <3>3
    <3>5. Len(versions) >= knew[q[1]].current
      BY <3>3, <3>4
    <3> QED
      BY <3>2, <3>4, <3>5
  <2>5. /\ ~(Succeeds(q, "revoke")') /\ ~(Succeeds(q, "publish")')
        /\ Succeeds(q, "fetch")' => req'[q].value = value /\ req[q].call = req'[q].call
    BY <1>5, <2>3 DEF Succeeds
  <2>6. marker \in [file : BOOLEAN, tmp : BOOLEAN]
    BY DEF RemoteInv, RevokeInv
  <2> QED
    BY <1>1, <1>2, <1>5, <2>3, <2>4, <2>5, <2>6, FileStays DEF RegistryOps
<1> QED
  BY <1>1, <1>3, <1>4, <1>5

LEMMA MarkKeeps ==
    ASSUME RemoteInv, NEW q \in Slots, Mark(q), Marks(q), Elsewhere
    PROVE  RemoteInv'
<1>1. /\ req[q].op = "revoke" /\ req[q].at \in InServer /\ FilesKept
      /\ \/ Goes(q, "marked") /\ marker' = [marker EXCEPT !.tmp = TRUE]
         \/ Reply(q, "client", NoValue) /\ marker' = marker
  BY DEF Mark, Serves, FilesKept, InServer
<1>2. marker \in [file : BOOLEAN, tmp : BOOLEAN]
  BY DEF RemoteInv, RevokeInv
<1>3. marker' \in [file : BOOLEAN, tmp : BOOLEAN] /\ marker'.file = marker.file
  BY <1>1, <1>2
<1>4. done' = done
  BY <1>1, <1>3 DEF Marks, FilesKept
<1>5. CASE Goes(q, "marked")
  BY <1>1, <1>3, <1>4, <1>5, GoingKeeps
<1>6. CASE Reply(q, "client", NoValue) /\ marker' = marker
  BY <1>1, <1>4, <1>6, RefusalKeeps DEF RegistryOps
<1> QED
  BY <1>1, <1>5, <1>6

LEMMA MarkedKeeps ==
    ASSUME RemoteInv, NEW q \in Slots, Marked(q), Marks(q), Elsewhere
    PROVE  RemoteInv'
<1>1. /\ req[q].op = "revoke" /\ req[q].at \in InServer /\ FilesKept
      /\ \/ Reply(q, "ok", NoValue) /\ marker' = [file |-> TRUE, tmp |-> FALSE]
         \/ Reply(q, "client", NoValue) /\ marker' = marker
  BY DEF Marked, Serves, FilesKept, InServer
<1>2. CASE Reply(q, "client", NoValue) /\ marker' = marker
  <2>1. done' = done
    BY <1>1, <1>2 DEF Marks, FilesKept
  <2> QED
    BY <1>1, <1>2, <2>1, RefusalKeeps DEF RegistryOps
<1>3. CASE Reply(q, "ok", NoValue) /\ marker' = [file |-> TRUE, tmp |-> FALSE]
  <2>1. /\ ServerMoves(q) /\ req'[q].inode = 0 /\ req'[q].at \in {"done", "replied"}
        /\ \/ Late(q) /\ req'[q].at = "done" /\ req'[q].op = "fetch"
           \/ /\ ~Late(q) /\ req'[q].at = "replied" /\ req'[q].status = "ok"
              /\ req'[q].op = req[q].op /\ req'[q].call = req[q].call
    BY <1>1, <1>3, AnswerMoves DEF Elsewhere, Statuses, Versions
  <2>2. done' = done \/ HasEffect(q)
    BY <1>1, <2>1 DEF Marks, Effects, HasEffect
  <2>3. marker' \in [file : BOOLEAN, tmp : BOOLEAN] /\ marker'.file
    BY <1>3
  <2>4. ~(Succeeds(q, "publish")') /\ ~(Succeeds(q, "fetch")')
    BY <1>1, <2>1 DEF Succeeds
  <2> QED
    BY <1>1, <2>1, <2>2, <2>3, <2>4, FileStays DEF RegistryOps
<1> QED
  BY <1>1, <1>2, <1>3

-----------------------------------------------------------------------------
(* A request to the retention store or for the lease *)

\* Its answer leaves the registry alone.
LEMMA StoreMoves ==
    ASSUME RemoteInv, NEW q \in Slots, ServerMoves(q), req[q].at = "sent", req[q].op \notin RegistryOps,
           req'[q].at \in {"done", "replied"}, UNCHANGED registryVars, done' = done \/ HasEffect(q)
    PROVE  BaseInv' /\ EffectInv' /\ RevokeInv' /\ PlaceInv' /\ TurnsInv' /\ DirInv' /\ (revoked \in BOOLEAN)'
<1>1. /\ knew' = knew /\ current' = current /\ revoked' = revoked /\ marker' = marker
      /\ dir' = dir /\ versions' = versions /\ FilesKept
  BY DEF registryVars, FilesKept
<1>2. BaseInv' /\ EffectInv'
  BY MovesKeepBase, EffectMoves DEF RemoteInv, InServer
<1>3. /\ req'[q].op = "fetch" /\ req'[q].at = "done" /\ req'[q].inode = 0
      \/ /\ req'[q].op \notin RegistryOps /\ req[q].op # "publish"
         /\ req'[q].inode = 0 \/ req'[q].inode = req[q].inode
  BY Forgotten DEF ServerMoves, InServer, RegistryOps
<1>4. /\ ~(Succeeds(q, "revoke")') /\ ~(Succeeds(q, "publish")') /\ ~(Succeeds(q, "fetch")')
      /\ req'[q].op = "fetch" => req'[q].at = "done"
      /\ req'[q].op # "publish"
  BY <1>3 DEF Succeeds, RegistryOps
<1>5. RevokeInv'
  BY <1>1, <1>4, RevokeMoves DEF RemoteInv, RevokeInv
<1>6. PlaceInv'
  BY <1>1, <1>4, PlaceMoves DEF RemoteInv
<1>7. TurnsInv'
  BY <1>1, <1>3, <1>4, TurnsMoves DEF RemoteInv
<1> QED
  BY <1>1, <1>2, <1>5, <1>6, <1>7 DEF RemoteInv, DirInv

StoreKept == UNCHANGED <<client, calls, registryVars>>

\* An answer that changes at most the object and what is done.
LEMMA StoreAnswers ==
    ASSUME RemoteInv, NEW q \in Slots, StoreKept, req[q].at = "sent", req[q].op \notin RegistryOps,
           NEW status \in {"ok", "client", "server"}, NEW value \in Values \cup {NoValue}, Reply(q, status, value),
           LeaseKept, granted' = granted, output' = output, object' \in Values \cup {NoValue},
           status = "ok" => req[q].op \in {"put", "restore"},
           status = "ok" /\ req[q].op = "restore" => value # NoValue,
           done' = done \/ (status = "ok" /\ Effects(q) /\ req[q].op # "restore")
    PROVE  RemoteInv'
<1>1. /\ ServerMoves(q) /\ req'[q].inode = 0 /\ req'[q].at \in {"done", "replied"}
      /\ \/ Late(q) /\ req'[q].at = "done" /\ req'[q].op = "fetch"
         \/ /\ ~Late(q) /\ req'[q].at = "replied" /\ req'[q].status = status /\ req'[q].value = value
            /\ req'[q].op = req[q].op /\ req'[q].call = req[q].call
  BY AnswerMoves DEF StoreKept, Statuses, InServer, Versions
<1>2. done' = done \/ HasEffect(q)
  BY <1>1 DEF Effects, HasEffect
<1>3. BaseInv' /\ EffectInv' /\ RevokeInv' /\ PlaceInv' /\ TurnsInv' /\ DirInv' /\ (revoked \in BOOLEAN)'
  BY <1>1, <1>2, StoreMoves DEF StoreKept
<1>4. RestoreInv'
  <2>1. (req[q].at = "replied" /\ req[q].op = "restore" /\ req[q].status = "ok" => req[q].value # NoValue)'
    BY <1>1
  <2> QED
    BY <1>1, <2>1, RestoreMoves DEF RemoteInv
<1>5. LeaseInv'
  <2>1. req'[q].at # "sent" /\ ~(Succeeds(q, "acquire")')
    BY <1>1 DEF Succeeds
  <2> QED
    BY <1>1, <2>1, LeaseMoves DEF RemoteInv
<1> QED
  BY <1>3, <1>4, <1>5 DEF RemoteInv

LEMMA PutKeeps ==
    ASSUME RemoteInv, NEW q \in Slots, Put(q), StoreKept
    PROVE  RemoteInv'
<1>1. /\ req[q].op = "put" /\ req[q].at = "sent" /\ req[q].op \notin RegistryOps
      /\ LeaseKept /\ granted' = granted /\ output' = output
      /\ \/ object' = req[q].value /\ Reply(q, "ok", NoValue) /\ Effects(q)
         \/ /\ \E status \in {"client", "server"} : Reply(q, status, NoValue)
            /\ object' = object /\ done' = done
  BY DEF Put, Serves, LeaseKept, RegistryOps
<1>2. req[q].value \in Values \cup {NoValue} /\ object \in Values \cup {NoValue}
  BY DEF RemoteInv, BaseInv, Request, RestoreInv
<1> QED
  BY <1>1, <1>2, StoreAnswers

LEMMA GetKeeps ==
    ASSUME RemoteInv, NEW q \in Slots, Get(q), StoreKept
    PROVE  RemoteInv'
<1>1. /\ req[q].op = "restore" /\ req[q].at = "sent" /\ req[q].op \notin RegistryOps
      /\ LeaseKept /\ granted' = granted /\ output' = output /\ object' = object /\ done' = done
      /\ \E status \in {"ok", "client", "server"}, value \in {NoValue, object, Damaged} :
           Reply(q, status, value) /\ (status = "ok" => value # NoValue)
  BY RemoteAssumption, RetriesAssumption DEF Get, Serves, LeaseKept, RegistryOps
<1>2. Damaged \in Values \cup {NoValue} /\ object \in Values \cup {NoValue}
  BY RemoteAssumption DEF RemoteInv, RestoreInv
<1>3. PICK status \in {"ok", "client", "server"}, value \in {NoValue, object, Damaged} :
           Reply(q, status, value) /\ (status = "ok" => value # NoValue)
  BY <1>1
<1>4. value \in Values \cup {NoValue}
  BY <1>2
<1> QED
  BY <1>1, <1>2, <1>3, <1>4, StoreAnswers

LEMMA LeaseRefused ==
    ASSUME RemoteInv, NEW q \in Slots, StoreKept, req[q].at = "sent", req[q].op \in {"acquire", "release"},
           Reply(q, "client", NoValue), UNCHANGED <<object, output, lease, lapsed, granted, done, misled>>
    PROVE  RemoteInv'
<1>1. req[q].op \notin RegistryOps /\ LeaseKept /\ object' = object /\ output' = output
      /\ granted' = granted /\ done' = done
  BY DEF RegistryOps, LeaseKept
<1>2. object \in Values \cup {NoValue}
  BY DEF RemoteInv, RestoreInv
<1> QED
  BY <1>1, <1>2, StoreAnswers

\* Nothing but the lease and what is done has changed.
LEMMA LeaseChanges ==
    ASSUME RemoteInv, NEW q \in Slots, StoreKept, req[q].at = "sent", req[q].op \in {"acquire", "release"},
           ServerMoves(q), LeaseInv', req'[q] = Served \/ (req'[q].at = "replied" /\ req'[q].status = "ok"),
           Effects(q), UNCHANGED <<object, output>>
    PROVE  RemoteInv'
<1>1. req[q].op \notin RegistryOps /\ req'[q].at \in {"done", "replied"}
  BY Forgotten DEF RegistryOps
<1>2. HasEffect(q)
  BY Forgotten DEF Effects, HasEffect, ServerMoves, InServer
<1>3. BaseInv' /\ EffectInv' /\ RevokeInv' /\ PlaceInv' /\ TurnsInv' /\ DirInv' /\ (revoked \in BOOLEAN)'
  BY <1>1, <1>2, StoreMoves DEF StoreKept
<1>4. req'[q].op # "restore"
  BY Forgotten DEF ServerMoves
<1>5. RestoreInv'
  BY <1>4, RestoreMoves DEF RemoteInv, RestoreInv
<1> QED
  BY <1>3, <1>5 DEF RemoteInv

LEMMA AcquireKeeps ==
    ASSUME RemoteInv, NEW q \in Slots, Acquire(q), StoreKept
    PROVE  RemoteInv'
<1>1. /\ Serves(q, "acquire", "sent") /\ UNCHANGED <<object, output, lapsed, granted, misled>>
      /\ req[q].at = "sent" /\ req[q].op \in {"acquire", "release"} /\ UNCHANGED <<client, calls>>
  BY DEF Acquire, Serves, StoreKept
<1>2. CASE Holder \in {Nobody, q[1]}
  <2>1. /\ lease' = [owner |-> q[1], grant |-> lease.grant + 1,
                     call |-> Max({req[q].call} \cup (IF Holder = q[1] THEN {lease.call} ELSE {}))]
        /\ Grant(q, lease.grant + 1) /\ Effects(q)
    BY <1>2 DEF Acquire
  <2>2. LeaseInv' /\ ServerMoves(q)
    BY <1>1, <1>2, <2>1, LeaseAcquired DEF RemoteInv
  <2>3. lease.grant + 1 \in Nat
    BY LeaseIs DEF RemoteInv
  <2>4. req'[q] = Served \/ (req'[q].at = "replied" /\ req'[q].status = "ok")
    BY <1>1, <2>1, <2>3, Granted DEF RemoteInv
  <2> QED
    BY <1>1, <2>1, <2>2, <2>4, LeaseChanges
<1>3. CASE Holder \notin {Nobody, q[1]}
  BY <1>1, <1>3, LeaseRefused DEF Acquire
<1> QED
  BY <1>2, <1>3

LEMMA ReleaseKeeps ==
    ASSUME RemoteInv, NEW q \in Slots, Release(q), StoreKept
    PROVE  RemoteInv'
<1>1. /\ Serves(q, "release", "sent") /\ UNCHANGED <<object, output, lapsed, granted>>
      /\ req[q].at = "sent" /\ req[q].op \in {"acquire", "release"} /\ UNCHANGED <<client, calls>>
  BY DEF Release, Serves, StoreKept
<1>2. CASE Holder = q[1]
  <2>1. /\ lease' = [lease EXCEPT !.owner = Nobody] /\ Reply(q, "ok", NoValue) /\ Effects(q)
        /\ misled' = (misled \/ lease.call > req[q].call)
    BY <1>2 DEF Release
  <2>2. ServerMoves(q) /\ (req'[q] = Served \/ (req'[q].at = "replied" /\ req'[q].status = "ok"))
    BY <1>1, <2>1, Answers DEF RemoteInv, Statuses, Answered
  <2>3. LeaseInv'
    BY <1>1, <1>2, <2>1, <2>2, LeaseReleased DEF RemoteInv
  <2> QED
    BY <1>1, <2>1, <2>2, <2>3, LeaseChanges
<1>3. CASE Holder # q[1]
  BY <1>1, <1>3, LeaseRefused DEF Release
<1> QED
  BY <1>2, <1>3

LEMMA BusyKeeps ==
    ASSUME RemoteInv, NEW q \in Slots, Busy(q), StoreKept
    PROVE  RemoteInv'
BY LeaseRefused DEF Busy

-----------------------------------------------------------------------------
(* The steps *)

ClientQuiet(c) == Quiet(c) /\ (Heard(c) \/ Unheard(c) \/ FileChecked(c))

LEMMA SendKeeps ==
    ASSUME RemoteInv, NEW c \in Clients, Send(c), Remembers(c), Yields(c), calls' = calls,
           UNCHANGED <<breaks, dir, marker, versions, current, revoked, overlapped,
                       object, output, lease, lapsed, done, misled, kills>>
    PROVE  RemoteInv'
<1>1. /\ KnewType /\ current \in Nat /\ revoked \in BOOLEAN /\ FilesKept /\ LeaseKept
      /\ done' = done /\ output' = output /\ object' = object /\ marker' = marker
      /\ versions' = versions /\ current' = current /\ revoked' = revoked /\ dir' = dir
  <2>1. current \in 0..Len(versions) /\ Len(versions) \in Nat
    BY DEF RemoteInv, PlaceInv
  <2> QED
    BY <2>1 DEF RemoteInv, PlaceInv, KnewType, FilesKept, LeaseKept
<1>2. BaseInv' /\ EffectInv' /\ RestoreInv' /\ LeaseInv'
  BY <1>1, Sends, EffectSends, RestoreSends, LeaseSends DEF RemoteInv
<1>3. RevokeInv' /\ PlaceInv' /\ TurnsInv'
  BY <1>1, RevokeSends, PlaceSends, TurnsSends DEF RemoteInv
<1> QED
  BY <1>1, <1>2, <1>3 DEF RemoteInv, DirInv

LEMMA ClientKeeps ==
    ASSUME RemoteInv, NEW c \in Clients, ClientStep(c), Confirms(c), Learns(c), calls' = calls,
           UNCHANGED <<files, knew, object, output, lease, lapsed, done, misled, kills>>
    PROVE  RemoteInv' /\ ClientQuiet(c)
<1>1. Quiet(c) /\ (Heard(c) \/ Unheard(c))
  BY ClientMoves DEF RemoteInv
<1>2. /\ FilesKept /\ LeaseKept /\ done' = done /\ output' = output /\ object' = object
      /\ marker' = marker /\ versions' = versions /\ knew' = knew /\ dir' = dir
  BY DEF files, FilesKept, LeaseKept
<1>3. /\ current' = IF NewlyDone(c, "publish") THEN Max({current, PlaceOf(Call(c).value)}) ELSE current
      /\ revoked' = (revoked \/ NewlyDone(c, "revoke"))
  BY DEF Confirms
<1>4. BaseInv' /\ EffectInv' /\ RestoreInv' /\ LeaseInv'
  BY <1>1, <1>2, QuietKeepsBase, EffectQuiet, RestoreQuiet, LeaseQuiet DEF RemoteInv
<1>5. RevokeInv' /\ PlaceInv' /\ TurnsInv'
  BY <1>1, <1>2, <1>3, RevokeQuiet, PlaceQuiet, TurnsQuiet DEF RemoteInv
<1>6. (revoked \in BOOLEAN)'
  BY <1>3 DEF RemoteInv
<1> QED
  BY <1>1, <1>2, <1>4, <1>5, <1>6 DEF RemoteInv, DirInv, ClientQuiet

LEMMA GetFileKeeps ==
    ASSUME RemoteInv, NEW c \in Clients, Check(c) \/ Install(c), calls' = calls,
           UNCHANGED <<req, breaks, registryVars, object, lease, lapsed, granted, done, misled, kills>>
    PROVE  RemoteInv' /\ ClientQuiet(c)
<1>1. Quiet(c) /\ FileChecked(c)
  BY FileSteps DEF RemoteInv
<1>2. /\ FilesKept /\ LeaseKept /\ done' = done /\ object' = object /\ granted' = granted
      /\ marker' = marker /\ versions' = versions /\ knew' = knew /\ dir' = dir
      /\ current' = current /\ revoked' = revoked
  BY DEF registryVars, FilesKept, LeaseKept
<1>3. BaseInv' /\ EffectInv' /\ RestoreInv' /\ LeaseInv'
  BY <1>1, <1>2, QuietKeepsBase, EffectQuiet, RestoreQuiet, LeaseQuiet DEF RemoteInv
<1>4. RevokeInv' /\ PlaceInv' /\ TurnsInv'
  BY <1>1, <1>2, RevokeQuiet, PlaceQuiet, TurnsQuiet DEF RemoteInv
<1> QED
  BY <1>1, <1>2, <1>3, <1>4 DEF RemoteInv, DirInv, ClientQuiet

LEMMA RegistryKeeps ==
    ASSUME RemoteInv, NEW q \in Slots, RegistryStep(q), Marks(q), calls' = calls,
           UNCHANGED <<breaks, object, output, lease, lapsed, granted, misled, kills>>
    PROVE  RemoteInv'
<1>1. Elsewhere
  BY DEF RegistryStep, Elsewhere
<1>2. \/ OpenTmp(q) \/ WriteTmp(q) \/ Rename(q) \/ PutFails(q)
      \/ Stat(q) \/ Read(q) \/ Mark(q) \/ Marked(q)
  BY DEF RegistryStep
<1> QED
  BY <1>1, <1>2, OpenKeeps, WriteKeeps, RenameKeeps, RenameFails, PutFailsKeeps, StatKeeps, ReadKeeps,
     MarkKeeps, MarkedKeeps

LEMMA StoreKeeps ==
    ASSUME RemoteInv, NEW q \in Slots, Put(q) \/ Get(q) \/ Acquire(q) \/ Release(q) \/ Busy(q),
           calls' = calls, UNCHANGED <<client, breaks, registryVars, kills>>
    PROVE  RemoteInv'
<1>1. StoreKept
  BY DEF StoreKept
<1> QED
  BY <1>1, PutKeeps, GetKeeps, AcquireKeeps, ReleaseKeeps, BusyKeeps

LEMMA ExpireKeeps ==
    ASSUME RemoteInv, Expire, calls' = calls
    PROVE  RemoteInv'
<1>1. /\ client' = client /\ req' = req /\ lapsed' = lease.grant /\ lease' = lease /\ granted' = granted
      /\ misled' = misled /\ dir' = dir /\ marker' = marker /\ versions' = versions /\ current' = current
      /\ revoked' = revoked /\ knew' = knew /\ overlapped' = overlapped /\ object' = object
      /\ output' = output /\ done' = done
  BY DEF Expire, retryVars, registryVars
<1>2. LeaseInv'
  BY <1>1, LeaseExpires DEF RemoteInv
<1>3. BaseInv'
  BY <1>1 DEF RemoteInv, BaseInv, ClientInv, RequestInv, Call, Late
<1>4. EffectInv'
  BY <1>1 DEF RemoteInv, EffectInv, CleanOf, Late, Current
<1>5. RestoreInv'
  BY <1>1 DEF RemoteInv, RestoreInv, RestoreIsWhole, Call
<1>6. RevokeInv' /\ PlaceInv' /\ DirInv'
  BY <1>1 DEF RemoteInv, RevokeInv, PlaceInv, DirInv, Gone, Succeeds
<1>7. TurnsInv'
  BY <1>1 DEF RemoteInv, TurnsInv, FileIsLast, TurnOf, Serves, Succeeds
<1> QED
  BY <1>1, <1>2, <1>3, <1>4, <1>5, <1>6, <1>7 DEF RemoteInv

LEMMA StutterKeeps ==
    ASSUME RemoteInv, UNCHANGED vars
    PROVE  RemoteInv'
<1>1. /\ client' = client /\ req' = req /\ lapsed' = lapsed /\ lease' = lease /\ granted' = granted
      /\ misled' = misled /\ dir' = dir /\ marker' = marker /\ versions' = versions /\ current' = current
      /\ revoked' = revoked /\ knew' = knew /\ overlapped' = overlapped /\ object' = object
      /\ output' = output /\ done' = done /\ calls' = calls
  BY DEF vars, retryVars, registryVars, remoteVars
<1>2. LeaseInv'
  BY <1>1 DEF RemoteInv, LeaseInv, LeaseTypes, HoldsOn, Grants, Serves, Succeeds
<1>3. BaseInv'
  BY <1>1 DEF RemoteInv, BaseInv, ClientInv, RequestInv, Call, Late
<1>4. EffectInv'
  BY <1>1 DEF RemoteInv, EffectInv, CleanOf, Late, Current
<1>5. RestoreInv'
  BY <1>1 DEF RemoteInv, RestoreInv, RestoreIsWhole, Call
<1>6. RevokeInv' /\ PlaceInv' /\ DirInv'
  BY <1>1 DEF RemoteInv, RevokeInv, PlaceInv, DirInv, Gone, Succeeds
<1>7. TurnsInv'
  BY <1>1 DEF RemoteInv, TurnsInv, FileIsLast, TurnOf, Serves, Succeeds
<1> QED
  BY <1>1, <1>2, <1>3, <1>4, <1>5, <1>6, <1>7 DEF RemoteInv

\* Every request that is in the server is lost with it.
Killed(q) ==
    \/ req[q].at \notin InServer /\ req'[q] = req[q]
    \/ /\ req[q].at \in InServer /\ req'[q].at = "dead" /\ req'[q].inode = 0
       /\ req'[q].op = req[q].op /\ req'[q].call = req[q].call

LEMMA KilledRequests ==
    ASSUME BaseInv, ServerKilled
    PROVE  req' \in [Slots -> Request] /\ \A q \in Slots : Killed(q)
<1>1. /\ req \in [Slots -> Request] /\ Requests = Slots
      /\ req' = [q \in Slots |-> IF req[q].at \in InServer
                                 THEN [req[q] EXCEPT !.at = "dead", !.inode = 0] ELSE req[q]]
  BY DEF BaseInv, Requests, ServerKilled
<1>2. ASSUME NEW q \in Slots
      PROVE  LET lost == [req[q] EXCEPT !.at = "dead", !.inode = 0]
             IN lost \in Request /\ lost.at = "dead" /\ lost.inode = 0 /\ lost.op = req[q].op /\ lost.call = req[q].call
  <2>1. req[q] \in Request
    BY <1>1
  <2> QED
    BY <2>1 DEF Request
<1> QED
  BY <1>1, <1>2 DEF Killed

LEMMA KillKeeps ==
    ASSUME RemoteInv, ServerKilled, calls' = calls
    PROVE  RemoteInv'
<1>1. /\ client' = client /\ lapsed' = lapsed /\ lease' = lease /\ granted' = granted
      /\ misled' = misled /\ dir' = dir /\ marker' = marker /\ versions' = versions /\ current' = current
      /\ revoked' = revoked /\ knew' = knew /\ overlapped' = overlapped /\ object' = object
      /\ output' = output /\ done' = done
  BY DEF ServerKilled, registryVars
<1>2. req' \in [Slots -> Request] /\ \A q \in Slots : Killed(q)
  BY KilledRequests DEF RemoteInv
<1>3. \A q \in Slots : /\ req'[q].at \notin InServer
                       /\ req'[q].at = "replied" => req'[q] = req[q]
                       /\ req[q].at = "replied" => req'[q] = req[q]
  BY <1>2 DEF Killed, InServer
<1>4. BaseInv'
  <2>1. ClientInv'
    BY <1>1 DEF RemoteInv, BaseInv, ClientInv, Call
  <2>2. ASSUME NEW q \in Slots
        PROVE  /\ q[2] > client[q[1]].sent => req'[q] = NoRequest
               /\ req'[q].call <= client[q[1]].call
               /\ client[q[1]].at = "idle" => req'[q].call < client[q[1]].call
               /\ req'[q].at \notin {"none", "done"} => req'[q].call # 0 /\ req'[q].op = calls[q[1]][req'[q].call].op
               /\ req'[q].at = "replied" => ~Late(q)
    <3>1. NoRequest.at \notin InServer
      BY Forgotten DEF InServer
    <3>2. Killed(q)
      BY <1>2
    <3> QED
      BY <3>1, <3>2 DEF RemoteInv, BaseInv, RequestInv, Killed, InServer
  <2>3. \A q \in Slots : (req[q].at = "replied")' => Late(q)' = Late(q)
    BY <1>1, <1>3 DEF Late
  <2> QED
    BY <1>1, <1>2, <1>3, <2>1, <2>2, <2>3 DEF RemoteInv, BaseInv, RequestInv
<1>5. EffectInv'
  <2>1. \A c \in Clients : CleanOf(c, 0)' = CleanOf(c, 0) /\ Current(c)' = Current(c)
    BY <1>1 DEF CleanOf, Current
  <2>2. \A c \in Clients : client[c].at = "wait" => Current(c) \in Slots
    BY CurrentIsSlot DEF RemoteInv, BaseInv, ClientInv
  <2> QED
    BY <1>1, <1>3, <2>1, <2>2 DEF RemoteInv, EffectInv
<1>6. RestoreInv'
  BY <1>1, <1>3 DEF RemoteInv, RestoreInv, RestoreIsWhole, Call
<1>7. RevokeInv'
  <2>1. \A q \in Slots : Gone(q)'
    BY <1>1, <1>3 DEF RemoteInv, RevokeInv, Gone, Succeeds, InServer
  <2> QED
    BY <1>1, <2>1 DEF RemoteInv, RevokeInv
<1>8. PlaceInv' /\ DirInv'
  BY <1>1, <1>3 DEF RemoteInv, PlaceInv, DirInv, Succeeds
<1>9. TurnsInv'
  <2>1. CASE ~overlapped
    <3>1. FileIsLast'
      BY <1>1, <2>1 DEF RemoteInv, TurnsInv, FileIsLast
    <3>2. \A q \in Slots : req'[q].inode # 0 => req'[q].inode = req[q].inode
      BY <1>2 DEF Killed
    <3>3. ASSUME NEW q \in Slots
          PROVE  TurnOf(q)'
      <4>1. TurnOf(q) /\ Killed(q)
        BY <1>2, <2>1 DEF RemoteInv, TurnsInv
      <4> QED
        BY <1>1, <4>1 DEF TurnOf, Killed, Serves, Succeeds, InServer
    <3> QED
      BY <2>1, <3>1, <3>2, <3>3 DEF RemoteInv, TurnsInv
  <2> QED
    BY <1>1, <2>1 DEF TurnsInv
<1>10. LeaseInv'
  <2>1. \A c \in Clients : HoldsOn(c)'
    BY <1>1, <1>3 DEF RemoteInv, LeaseInv, HoldsOn, Serves, InServer
  <2>2. \A q \in Slots : Grants(q)'
    BY <1>1, <1>3 DEF RemoteInv, LeaseInv, Grants, Succeeds
  <2> QED
    BY <1>1, <2>1, <2>2 DEF RemoteInv, LeaseInv, LeaseTypes
<1> QED
  BY <1>1, <1>4, <1>5, <1>6, <1>7, <1>8, <1>9, <1>10 DEF RemoteInv

LEMMA InitRemoteInv == Init => RemoteInv
<1> SUFFICES ASSUME Init
             PROVE  RemoteInv
  OBVIOUS
<1>1. PICK w \in Workloads : calls = w.calls
  BY DEF Init
<1>2. calls \in [Clients -> Seq(Calls)] /\ \A c \in Clients : Len(calls[c]) <= MaxCalls
  BY <1>1, RetriesAssumption
<1>3. /\ \A c \in Clients : /\ client[c] = [at |-> "idle", call |-> 1, tries |-> 0, sent |-> 0, clean |-> TRUE,
                                            got |-> NoValue, outcome |-> <<>>]
                            /\ granted[c] = 0 /\ knew[c] = [current |-> 0, revoked |-> FALSE]
      /\ \A q \in Slots : req[q] = NoRequest
      /\ dir = NoFile(Inodes) /\ marker = [file |-> FALSE, tmp |-> FALSE] /\ versions = <<>> /\ current = 0
      /\ revoked = FALSE /\ overlapped = FALSE /\ object = NoValue /\ output = NoValue
      /\ lease = [owner |-> Nobody, grant |-> 0, call |-> 0] /\ lapsed = 0 /\ done = {} /\ misled = FALSE
  BY DEF Init, RetriesInit, RegistryInit, Slots
<1>4. client \in [Clients -> ClientState] /\ req \in [Slots -> Request]
  <2>1. [at |-> "idle", call |-> 1, tries |-> 0, sent |-> 0, clean |-> TRUE, got |-> NoValue, outcome |-> <<>>]
          \in ClientState
    <3>1. /\ <<>> \in Seq([result : {"ok", "failed"}, value : Values \cup {NoValue}, clean : BOOLEAN])
          /\ 0 \in 0..MaxAttempts
      BY RetriesAssumption
    <3> QED
      BY <3>1 DEF ClientState, ClientSteps
  <2> QED
    BY <2>1, Forgotten DEF Init, RetriesInit, Slots
<1>5. BaseInv
  <2>1. \A c \in Clients : /\ client[c].at = "idle" /\ client[c].tries = 0 /\ client[c].sent = 0
                           /\ client[c].call = 1 /\ client[c].outcome = <<>>
    <3> TAKE c \in Clients
    <3>1. client[c] = [at |-> "idle", call |-> 1, tries |-> 0, sent |-> 0, clean |-> TRUE,
                       got |-> NoValue, outcome |-> <<>>]
      BY <1>3
    <3> QED
      BY <3>1
  <2>2. ASSUME NEW c \in Clients
        PROVE  /\ Len(client[c].outcome) = client[c].call - 1 /\ client[c].call <= Len(calls[c]) + 1
               /\ client[c].sent <= (client[c].call - 1) * MaxAttempts + client[c].tries
    <3>1. calls[c] \in Seq(Calls)
      BY <1>2
    <3>2. Len(calls[c]) \in Nat
      BY <3>1
    <3>3. (1 - 1) * MaxAttempts = 0
      BY RetriesAssumption
    <3>4. (client[c].call - 1) * MaxAttempts = 0
      BY <2>1, <3>3
    <3> QED
      BY <2>1, <3>2, <3>4
  <2>3. ClientInv
    BY <2>1, <2>2 DEF ClientInv
  <2>4. ASSUME NEW q \in Slots
        PROVE  req[q] = NoRequest /\ client[q[1]].call = 1 /\ client[q[1]].at = "idle"
    BY <1>3, <2>1 DEF Slots
  <2>5. RequestInv
    BY <2>4, Forgotten DEF RequestInv, InServer
  <2> QED
    BY <1>2, <1>4, <2>3, <2>5 DEF BaseInv
<1>6. EffectInv
  BY <1>3, Forgotten DEF EffectInv, InServer
<1>7. RestoreInv
  BY <1>3, Forgotten DEF RestoreInv, RestoreIsWhole
<1>8. RevokeInv
  BY <1>3, Forgotten DEF RevokeInv, Gone, Succeeds, Slots
<1>9. PlaceInv
  BY <1>3, Forgotten DEF PlaceInv, Succeeds, RegistryInit, Init
<1>10. DirInv
  BY <1>3 DEF DirInv, NoFile, Dirs
<1>11. TurnsInv
  BY <1>3, Forgotten DEF TurnsInv, FileIsLast, TurnOf, NoFile, Serves, Succeeds
<1>12. LeaseInv
  <2>1. LeaseTypes
    <3>1. lease.grant = 0 /\ lease \in [owner : Clients \cup {Nobody}, grant : Nat, call : Nat] /\ lapsed \in 0..0
      BY <1>3
    <3>2. granted \in [Clients -> 0..0]
      BY DEF Init
    <3> QED
      BY <1>3, <3>1, <3>2 DEF LeaseTypes
  <2> QED
    BY <1>3, <2>1, Forgotten DEF LeaseInv, HoldsOn, Grants, Succeeds
<1> QED
  BY <1>3, <1>5, <1>6, <1>7, <1>8, <1>9, <1>10, <1>11, <1>12 DEF RemoteInv

LEMMA StepInvariance == RemoteInv /\ [Next]_vars => RemoteInv'
<1> SUFFICES ASSUME RemoteInv, [Next]_vars
             PROVE  RemoteInv'
  OBVIOUS
<1>1. Requests = Slots
  BY DEF Requests, RemoteInv, BaseInv
<1>2. CASE UNCHANGED vars
  BY <1>2, StutterKeeps
<1>3. CASE Step /\ calls' = calls
  <2>1. ASSUME NEW c \in Clients, Send(c), Remembers(c), Yields(c),
               UNCHANGED <<breaks, dir, marker, versions, current, revoked, overlapped,
                           object, output, lease, lapsed, done, misled, kills>>
        PROVE  RemoteInv'
    BY <1>3, <2>1, SendKeeps
  <2>2. ASSUME NEW c \in Clients, ClientStep(c), Confirms(c), Learns(c),
               UNCHANGED <<files, knew, object, output, lease, lapsed, done, misled, kills>>
        PROVE  RemoteInv'
    BY <1>3, <2>2, ClientKeeps
  <2>3. ASSUME NEW c \in Clients, Check(c) \/ Install(c),
               UNCHANGED <<req, breaks, registryVars, object, lease, lapsed, granted, done, misled, kills>>
        PROVE  RemoteInv'
    BY <1>3, <2>3, GetFileKeeps
  <2>4. ASSUME NEW q \in Slots, RegistryStep(q), Marks(q),
               UNCHANGED <<breaks, object, output, lease, lapsed, granted, misled, kills>>
        PROVE  RemoteInv'
    BY <1>3, <2>4, RegistryKeeps
  <2>5. ASSUME NEW q \in Slots, Put(q) \/ Get(q) \/ Acquire(q) \/ Release(q) \/ Busy(q),
               UNCHANGED <<client, breaks, registryVars, kills>>
        PROVE  RemoteInv'
    BY <1>3, <2>5, StoreKeeps
  <2> QED
    BY <1>1, <1>3, <2>1, <2>2, <2>3, <2>4, <2>5, ExpireKeeps, KillKeeps DEF Step
<1> QED
  BY <1>2, <1>3 DEF Next

LEMMA Invariance == Spec => []RemoteInv
BY InitRemoteInv, StepInvariance, PTL DEF Spec

-----------------------------------------------------------------------------
(* The properties *)

\* A call ends only in a step of its client.
LEMMA EndsByItself ==
    ASSUME RemoteInv, Step, calls' = calls, NEW d \in Clients, NewOutcome(d)
    PROVE  ClientQuiet(d)
<1>1. Requests = Slots
  BY DEF Requests, RemoteInv, BaseInv
<1>2. client' # client
  <2>1. client[d].outcome \in Seq([result : {"ok", "failed"}, value : Values \cup {NoValue}, clean : BOOLEAN])
    BY ClientIs DEF RemoteInv
  <2>2. Len(client[d].outcome) \in Nat
    BY <2>1
  <2> QED
    BY <2>2 DEF NewOutcome
<1>3. ASSUME NEW c \in Clients, Send(c)
      PROVE  FALSE
  <2>1. client'[d].outcome = client[d].outcome
    BY <1>3, Sends DEF RemoteInv
  <2>2. client[d].outcome \in Seq([result : {"ok", "failed"}, value : Values \cup {NoValue}, clean : BOOLEAN])
    BY ClientIs DEF RemoteInv
  <2>3. Len(client[d].outcome) \in Nat
    BY <2>2
  <2> QED
    BY <2>1, <2>3 DEF NewOutcome
<1>4. ASSUME NEW c \in Clients, ClientQuiet(c)
      PROVE  d = c
  <2>1. d # c => client'[d] = client[d]
    BY <1>4 DEF ClientQuiet, Quiet, OnlyClient
  <2>2. client[d].outcome \in Seq([result : {"ok", "failed"}, value : Values \cup {NoValue}, clean : BOOLEAN])
    BY ClientIs DEF RemoteInv
  <2>3. Len(client[d].outcome) \in Nat
    BY <2>2
  <2> QED
    BY <2>1, <2>3 DEF NewOutcome
<1>5. ASSUME NEW c \in Clients, ClientStep(c), Confirms(c), Learns(c),
             UNCHANGED <<files, knew, object, output, lease, lapsed, done, misled, kills>>
      PROVE  ClientQuiet(d)
  BY <1>4, <1>5, ClientKeeps
<1>6. ASSUME NEW c \in Clients, Check(c) \/ Install(c),
             UNCHANGED <<req, breaks, registryVars, object, lease, lapsed, granted, done, misled, kills>>
      PROVE  ClientQuiet(d)
  BY <1>4, <1>6, GetFileKeeps
<1>7. ASSUME NEW q \in Slots, RegistryStep(q)
      PROVE  FALSE
  BY <1>2, <1>7 DEF RegistryStep
<1>8. Expire \/ ServerKilled => FALSE
  BY <1>2 DEF Expire, ServerKilled, retryVars
<1> QED
  BY <1>1, <1>2, <1>3, <1>5, <1>6, <1>7, <1>8 DEF Step

\* What a fetch brings when it ends well.
LEMMA Fetched ==
    ASSUME RemoteInv, Step, calls' = calls, NEW c \in Clients, NewlyDone(c, "fetch")
    PROVE  /\ ~knew[c].revoked
           /\ ~overlapped => \E i \in DOMAIN versions : versions[i] = Outcome(c).value /\ i >= knew[c].current
<1>1. Quiet(c) /\ (Heard(c) \/ Unheard(c) \/ FileChecked(c))
  BY EndsByItself DEF NewlyDone, ClientQuiet
<1>2. /\ Current(c) \in Slots /\ Succeeds(Current(c), "fetch") /\ req[Current(c)].call = client[c].call
      /\ Outcome(c).value = req[Current(c)].value
  BY <1>1, NewlyDoneIs DEF RemoteInv
<1>3. Current(c)[1] = c /\ req[Current(c)].op = "fetch"
  BY <1>2 DEF Current, Succeeds
<1>4. ~knew[c].revoked
  BY <1>2, <1>3 DEF RemoteInv, RevokeInv, Gone
<1>5. ASSUME ~overlapped
      PROVE  \E i \in DOMAIN versions : versions[i] = Outcome(c).value /\ i >= knew[c].current
  <2>1. TurnOf(Current(c))
    BY <1>2, <1>5 DEF RemoteInv, TurnsInv
  <2> QED
    BY <1>2, <1>3, <2>1 DEF TurnOf
<1> QED
  BY <1>4, <1>5

\* A fetch that begins after a revocation was confirmed brings nothing, with
\* every late attempt to publish or to revoke, every failed write and every
\* death of the server: Revoke writes the marker before it answers, and Get
\* looks for it before it reads.
THEOREM RevocationHolds == Spec => RevokedStaysRevoked
<1>1. RemoteInv /\ [Next]_vars => [\A c \in Clients : knew[c].revoked => ~NewlyDone(c, "fetch")]_client
  <2> SUFFICES ASSUME RemoteInv, [Next]_vars, client' # client
               PROVE  \A c \in Clients : knew[c].revoked => ~NewlyDone(c, "fetch")
    OBVIOUS
  <2>1. Step /\ calls' = calls
    BY DEF Next, vars, retryVars
  <2> QED
    BY <2>1, Fetched
<1> QED
  BY <1>1, Invariance, PTL DEF Spec, RevokedStaysRevoked

\* A fetch that begins after a publication was confirmed brings that envelope
\* or a later one, as long as no request to publish has opened the .tmp of
\* another: FileStore.Put answers after the rename, and Get reads the file as a
\* whole.
THEOREM FetchesAreCurrent == Spec => FetchIsCurrent
<1>1. RemoteInv /\ [Next]_vars =>
        [\A c \in Clients : NewlyDone(c, "fetch") /\ ~overlapped =>
           \E i \in DOMAIN versions : versions[i] = Outcome(c).value /\ i >= knew[c].current]_client
  <2> SUFFICES ASSUME RemoteInv, [Next]_vars, client' # client
               PROVE  \A c \in Clients : NewlyDone(c, "fetch") /\ ~overlapped =>
                        \E i \in DOMAIN versions : versions[i] = Outcome(c).value /\ i >= knew[c].current
    OBVIOUS
  <2>1. Step /\ calls' = calls
    BY DEF Next, vars, retryVars
  <2> QED
    BY <2>1, Fetched
<1> QED
  BY <1>1, Invariance, PTL DEF Spec, FetchIsCurrent

\* A call that fails although every one of its requests was answered has
\* changed nothing: a server refuses before it writes, and a client that gives
\* up a request loses the answer to it.
THEOREM RefusalsAreHarmless == Spec => []RefusalMeansNoEffect
<1>1. RemoteInv => RefusalMeansNoEffect
  <2> SUFFICES ASSUME RemoteInv, NEW c \in Clients, NEW i \in DOMAIN client[c].outcome,
                      client[c].outcome[i].result = "failed", client[c].outcome[i].clean, <<c, i>> \in done
               PROVE  FALSE
    BY DEF RefusalMeansNoEffect
  <2>1. /\ client[c].outcome \in Seq([result : {"ok", "failed"}, value : Values \cup {NoValue}, clean : BOOLEAN])
        /\ Len(client[c].outcome) = client[c].call - 1 /\ client[c].call \in Nat \ {0}
    BY ClientIs DEF RemoteInv
  <2>2. i \in Nat \ {0} /\ i < client[c].call
    BY <2>1
  <2> QED
    BY <2>2 DEF RemoteInv, EffectInv
<1> QED
  BY <1>1, Invariance, PTL

\* The restored file is untouched or one of the objects that were asked for,
\* and it is there after a restore that succeeded: GetFile compares the digest
\* before it writes, and renames what it has written.
THEOREM RestoredFileIsWhole == Spec => []RestoreIsWhole
<1>1. RemoteInv => RestoreIsWhole
  BY DEF RemoteInv, RestoreInv
<1> QED
  BY <1>1, Invariance, PTL

\* Two clients do not count on the session at the same time, unless a release
\* that was given up has ended a later lease: a supervisor grants the lease
\* when nobody holds it, and numbers its grants.
THEOREM OneHolderAtATime == Spec => []LeaseIsExclusive
<1>1. RemoteInv => LeaseIsExclusive
  BY LeaseIsHeld DEF RemoteInv
<1> QED
  BY <1>1, Invariance, PTL

===============================================================================
