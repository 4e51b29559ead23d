----------------------------- MODULE Acceptance -----------------------------
(***************************************************************************)
(* acceptance.Apply on trees with directories: the conflict check, the     *)
(* order of the changes, and what MkdirAll, rename and RemoveAll do to the *)
(* destination.  ProtectedRun treats a path as a leaf; here a path lies    *)
(* below others, which is where a change of one path reaches another.      *)
(*                                                                         *)
(* The candidate is the merged view of the agent's layer over a workspace  *)
(* that its owner has meanwhile edited.                                    *)
(***************************************************************************)
EXTENDS Manifests, Naturals

CONSTANTS
    Files,       \* file entries: mode, size and digest
    Dirs,        \* directory entries: a mode
    Odd,         \* anything else: devices, symlinks that lead to no directory
    DefaultDir,  \* the directory MkdirAll(parent, 0755) makes
    Umask,       \* the mode a directory gets when it is created with a mode
    Above,       \* Above[p]: the directories p lies below
    Rank,        \* the order of the path names
    Through,     \* the agent's layer has no entry for the path
    Bases        \* the trees a run may start from

ASSUME EntriesAssumption ==
    /\ Entries = Files \cup Dirs \cup Odd
    /\ DefaultDir \in Dirs /\ Umask \in [Dirs -> Dirs]
    /\ Files \cap (Dirs \cup Odd) = {} /\ Dirs \cap Odd = {}
    /\ Through \notin Entries \cup {NoEntry}
    /\ Bases \subseteq Manifest
ASSUME PathsAssumption ==
    /\ Above \in [Paths -> SUBSET Paths] /\ Rank \in [Paths -> Nat]
    /\ \A p \in Paths : \A q \in Above[p] : Above[q] \subseteq Above[p] /\ Rank[q] < Rank[p]
    /\ \A p, q \in Paths : Rank[p] = Rank[q] => p = q

VARIABLES
    base,   \* the manifest in the run plan
    start,  \* the destination when the commit begins
    cand,   \* the candidate manifest and tree
    dest,   \* the destination now
    todo,   \* changes not yet applied
    pc      \* "check", "apply", "applied", "conflict" or "failed"

vars == <<base, start, cand, dest, todo, pc>>
given == <<base, start, cand>>

\* A tree: whatever exists lies in directories that exist.
Tree(t) == \A p \in Paths : t[p] # NoEntry => \A q \in Above[p] : t[q] \in Dirs

\* The agent's layer over the base it saw: entries and whiteouts lie in
\* directories that were copied up, a whiteout hides something.
Layers(b) == {u \in [Paths -> Entries \cup {NoEntry, Through}] :
    \A p \in Paths : u[p] # Through =>
        /\ \A q \in Above[p] : u[q] \in Dirs
        /\ u[p] = NoEntry => b[p] # NoEntry}

\* The merged view of layer u over tree t.
Overlaid(u, t) == [p \in Paths |->
    LET shows(q) == IF u[q] = Through THEN t[q] ELSE u[q]
    IN IF \A q \in Above[p] : shows(q) \in Dirs THEN shows(p) ELSE NoEntry]

Outcomes == {"applied", "conflict", "failed"}

TypeOK ==
    /\ {base, start, cand, dest} \subseteq Manifest
    /\ todo \subseteq Paths
    /\ pc \in {"check", "apply"} \cup Outcomes

Init ==
    /\ base \in Bases
    /\ start \in {t \in Manifest : Tree(t)}
    /\ \E u \in Layers(base) : cand = Overlaid(u, start)
    /\ dest = start /\ todo = {} /\ pc = "check"

\* Check: refused, or the changes to apply.
Check ==
    /\ pc = "check"
    /\ IF CanApply(base, dest, cand)
         THEN pc' = "apply" /\ todo' = Compare(base, cand)
         ELSE pc' = "conflict" /\ UNCHANGED todo
    /\ UNCHANGED <<given, dest>>

-----------------------------------------------------------------------------
(* The file operations, on a destination tree. *)

\* MkdirAll(p, d) leaves an existing directory as it is and creates what is
\* missing; something else in the way is an error.
MkdirAllFails(P) == \E q \in P : dest[q] \notin Dirs \cup {NoEntry}

MkdirAll(P, d) == [q \in Paths |-> IF q \in P /\ dest[q] = NoEntry THEN Umask[d] ELSE dest[q]]

\* A mutant of the deletion: Remove of the path alone.
Mut_RemoveAll(p) == [dest EXCEPT ![p] = NoEntry]

\* RemoveAll takes whatever lies below with it.
RemoveAll(p) == [q \in Paths |-> IF q = p \/ p \in Above[q] THEN NoEntry ELSE dest[q]]

\* A mutant of the order: the last path first.
Mut_NextChange(p) ==
    /\ p \in todo
    /\ \A q \in todo : cand[q] # NoEntry => cand[p] # NoEntry
    /\ \A q \in todo : (cand[p] = NoEntry <=> cand[q] = NoEntry) => Rank[p] >= Rank[q]

\* The next change: copies before deletions, each by path.
NextChange(p) ==
    /\ p \in todo
    /\ \A q \in todo : cand[q] # NoEntry => cand[p] # NoEntry
    /\ \A q \in todo : (cand[p] = NoEntry <=> cand[q] = NoEntry) => Rank[p] <= Rank[q]

Stops == pc' = "failed" /\ UNCHANGED <<given, todo>>
Goes(p) == todo' = todo \ {p} /\ UNCHANGED <<given, pc>>

\* copyEntry of a directory: only MkdirAll.
CopyDirectory(p) ==
    /\ pc = "apply" /\ NextChange(p) /\ cand[p] \in Dirs
    /\ IF MkdirAllFails(Above[p] \cup {p})
         THEN Stops /\ UNCHANGED dest
         ELSE Goes(p) /\ dest' = MkdirAll(Above[p] \cup {p}, cand[p])

\* copyEntry of a file: its parents, a temporary file, a rename, which does
\* not replace a directory; by then the parents are there.
CopyFile(p) ==
    /\ pc = "apply" /\ NextChange(p) /\ cand[p] \in Files
    /\ IF MkdirAllFails(Above[p])
         THEN Stops /\ UNCHANGED dest
         ELSE LET made == MkdirAll(Above[p], DefaultDir)
              IN \/ made[p] \notin Dirs /\ dest' = [made EXCEPT ![p] = cand[p]] /\ Goes(p)
                 \/ dest' = made /\ Stops      \* a directory is in the way, or I/O fails

\* copyEntry refuses everything else, after the changes before it.
CopyOdd(p) ==
    /\ pc = "apply" /\ NextChange(p) /\ cand[p] \in Odd
    /\ Stops /\ UNCHANGED dest

Delete(p) ==
    /\ pc = "apply" /\ NextChange(p) /\ cand[p] = NoEntry
    /\ dest' = RemoveAll(p) /\ Goes(p)

Finish ==
    /\ pc = "apply" /\ todo = {}
    /\ pc' = "applied"
    /\ UNCHANGED <<given, dest, todo>>

Done == pc \in Outcomes /\ UNCHANGED vars

Next ==
    \/ Check
    \/ \E p \in Paths : CopyDirectory(p) \/ CopyFile(p) \/ CopyOdd(p) \/ Delete(p)
    \/ Finish
    \/ Done

Spec == Init /\ [][Next]_vars

-----------------------------------------------------------------------------
(* Properties *)

\* The destination never loses its shape, at any point where Apply may stop.
DestinationIsTree == Tree(dest)

\* What a successful Apply installs: each file and each deletion of the
\* candidate, and each new directory with its mode (the copies come parents
\* first, so that MkdirAll's own mode is not used for it).
Installed(p) ==
    \/ dest[p] = cand[p]
    \/ cand[p] \in Dirs /\ dest[p] \in Dirs /\ dest[p] \in {start[p], Umask[cand[p]]}
AppliedIsCandidate ==
    pc = "applied" => \A p \in Compare(base, cand) : Installed(p)

\* Something the owner created or changed is still there, unless it lies below
\* a directory that the candidate deleted.
OwnerEntriesKept ==
    \A p \in Paths :
        /\ start[p] # base[p] /\ start[p] # NoEntry
        /\ Above[p] \cap Deleted(base, cand) = {}
        => dest[p] = start[p]
=============================================================================
