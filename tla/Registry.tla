------------------------------ MODULE Registry ------------------------------
(***************************************************************************)
(* The policy registry: the envelope of one version of a package and the   *)
(* marker that revokes it, and the requests to publish, fetch and revoke   *)
(* it that the server works on at the same time.                           *)
(***************************************************************************)
EXTENDS Retries, ReplacedFile, FiniteSetsExt

CONSTANTS Inodes   \* enough for the file, its .tmp and the requests that write

ASSUME RegistryAssumption ==
    /\ IsFiniteSet(Clients) /\ IsFiniteSet(Inodes) /\ Inodes \subseteq Nat \ {NoInode}
    /\ Cardinality(Inodes) >= Cardinality(Clients) * (MaxCalls * MaxAttempts) + 2

VARIABLES
    dir,         \* the file of the envelope and its .tmp
    marker,      \* the revocation marker and its .tmp
    versions,    \* history: what was renamed into place, in order
    current,     \* history: how many of them had been confirmed to a publisher
    revoked,     \* history: has a revocation been confirmed?
    knew,        \* history: current and revoked when the call of each client began
    overlapped   \* history: has one request opened the .tmp of another?

registryVars == <<dir, marker, versions, current, revoked, knew, overlapped>>
files == <<dir, marker, versions, overlapped>>

RegistryTypeOK ==
    /\ dir \in Dirs(Inodes, Values)
    /\ marker \in [file : BOOLEAN, tmp : BOOLEAN]
    /\ versions \in Seq(Values)
    /\ current \in Nat /\ revoked \in BOOLEAN /\ overlapped \in BOOLEAN
    /\ knew \in [Clients -> [current : Nat, revoked : BOOLEAN]]

RegistryInit ==
    /\ dir = NoFile(Inodes) /\ marker = [file |-> FALSE, tmp |-> FALSE]
    /\ versions = <<>> /\ current = 0 /\ revoked = FALSE /\ overlapped = FALSE
    /\ knew = [c \in Clients |-> [current |-> 0, revoked |-> FALSE]]

Requests == DOMAIN req

-----------------------------------------------------------------------------
(* Put *)

InUse == {dir.file, dir.tmp} \cup {req[q].inode : q \in Requests}

OpenTmp(q) ==
    /\ Serves(q, "publish", "sent")
    /\ LET new == CHOOSE i \in Inodes : i \notin InUse IN
         /\ dir' = Opened(dir, new)
         /\ req' = [req EXCEPT ![q].at = "write", ![q].inode = OpenedInode(dir, new)]
    /\ overlapped' = (overlapped \/ \E p \in Requests : req[p].inode # 0)
    /\ UNCHANGED <<marker, versions>>

WriteTmp(q) ==
    /\ Serves(q, "publish", "write")
    /\ dir' \in Written(dir, req[q].inode, req[q].value)
    /\ Goes(q, "rename")
    /\ UNCHANGED <<marker, versions, overlapped>>

\* A mutant of Rename: the version that is there stays.
Mut_Rename(q) ==
    /\ Serves(q, "publish", "rename")
    /\ IF dir.file = NoInode /\ CanRename(dir)
       THEN dir' = Renamed(dir) /\ versions' = Append(versions, req[q].value)
       ELSE UNCHANGED <<dir, versions>>
    /\ Reply(q, "ok", NoValue)
    /\ UNCHANGED <<marker, overlapped>>

Rename(q) ==
    /\ Serves(q, "publish", "rename")
    /\ \/ /\ CanRename(dir)
          /\ dir' = Renamed(dir) /\ versions' = Append(versions, req[q].value)
          /\ Reply(q, "ok", NoValue)
       \/ /\ ~CanRename(dir)
          /\ Reply(q, "server", NoValue) /\ UNCHANGED <<dir, versions>>
    /\ UNCHANGED <<marker, overlapped>>

PutFails(q) ==
    /\ "write" \in faults /\ req[q].op = "publish" /\ req[q].at \in {"write", "rename"}
    /\ Reply(q, "server", NoValue)
    /\ UNCHANGED files

-----------------------------------------------------------------------------
(* Get and Revoke *)

\* A mutant of Stat: what is revoked can still be fetched.
Mut_Stat(q) ==
    /\ req[q].op \in {"fetch", "revoke"} /\ req[q].at = "sent"
    /\ Goes(q, "read")
    /\ UNCHANGED files

\* 410 Gone for a fetch, 409 Conflict for a second revocation.
Stat(q) ==
    /\ req[q].op \in {"fetch", "revoke"} /\ req[q].at = "sent"
    /\ IF marker.file THEN Reply(q, "client", NoValue) ELSE Goes(q, "read")
    /\ UNCHANGED files

\* The file is read, decoded and verified.
Read(q) ==
    /\ req[q].op \in {"fetch", "revoke"} /\ req[q].at = "read"
    /\ \/ dir.file = NoInode /\ Reply(q, "client", NoValue)
       \/ /\ ~Decodes(dir)
          /\ Reply(q, IF req[q].op = "fetch" THEN "server" ELSE "client", NoValue)
       \/ /\ dir.file # NoInode /\ Decodes(dir)
          /\ IF req[q].op = "fetch" THEN Reply(q, "ok", ValueOf(dir, NoValue)) ELSE Goes(q, "mark")
    /\ UNCHANGED files

Mark(q) ==
    /\ Serves(q, "revoke", "mark")
    /\ \/ Goes(q, "marked") /\ marker' = [marker EXCEPT !.tmp = TRUE]
       \/ "write" \in faults /\ Reply(q, "client", NoValue) /\ UNCHANGED marker
    /\ UNCHANGED <<dir, versions, overlapped>>

\* Of two revocations with one .tmp the second is refused.
Marked(q) ==
    /\ Serves(q, "revoke", "marked")
    /\ IF marker.tmp THEN Reply(q, "ok", NoValue) /\ marker' = [file |-> TRUE, tmp |-> FALSE]
       ELSE Reply(q, "client", NoValue) /\ UNCHANGED marker
    /\ UNCHANGED <<dir, versions, overlapped>>

RegistryStep(q) ==
    /\ \/ OpenTmp(q) \/ WriteTmp(q) \/ Rename(q) \/ PutFails(q)
       \/ Stat(q) \/ Read(q) \/ Mark(q) \/ Marked(q)
    /\ UNCHANGED <<client, current, revoked, knew>>

-----------------------------------------------------------------------------
(* What clients know *)

Remembers(c) ==
    knew' = IF client[c].at = "idle" THEN [knew EXCEPT ![c] = [current |-> current, revoked |-> revoked]]
            ELSE knew

NewOutcome(c) == Len(client'[c].outcome) > Len(client[c].outcome)
Outcome(c) == client'[c].outcome[Len(client'[c].outcome)]
NewlyDone(c, op) == Calling(c, op) /\ NewOutcome(c) /\ Outcome(c).result = "ok"

\* The place of an envelope in the order; beyond its end if it is not there.
PlaceOf(value) ==
    LET at == {i \in DOMAIN versions : versions[i] = value}
    IN IF at = {} THEN Len(versions) + 1 ELSE Max(at)

Confirms(c) ==
    /\ current' = IF NewlyDone(c, "publish") THEN Max({current, PlaceOf(Call(c).value)}) ELSE current
    /\ revoked' = (revoked \/ NewlyDone(c, "revoke"))

-----------------------------------------------------------------------------
(* Properties *)

\* A fetch that begins after a revocation was confirmed brings nothing, with
\* every late attempt to publish or to revoke, every failed write and every
\* death of the server.  FileStore.Revoke and Get.
RevokedStaysRevoked ==
    [][\A c \in Clients : knew[c].revoked => ~NewlyDone(c, "fetch")]_client

\* A fetch that begins after a publication was confirmed brings that envelope
\* or one that was put in its place later; unless two requests to publish
\* wrote into one .tmp.  FileStore.Put.
FetchIsCurrent ==
    [][\A c \in Clients : NewlyDone(c, "fetch") /\ ~overlapped =>
         \E i \in DOMAIN versions : versions[i] = Outcome(c).value /\ i >= knew[c].current]_client
=============================================================================
