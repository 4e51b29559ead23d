------------------------------ MODULE Manifests ------------------------------
(***************************************************************************)
(* Manifests and their comparison: internal/manifest, internal/diff and    *)
(* the conflict check of internal/acceptance.  A manifest maps every path  *)
(* to an entry; an entry (type, mode, size, digest) is compared as a whole *)
(* by the code, so it is one value here, and NoEntry stands for a path     *)
(* that the manifest does not list.                                        *)
(***************************************************************************)
EXTENDS FiniteSets

CONSTANTS Paths, Entries, NoEntry

ASSUME EntryAssumption == NoEntry \notin Entries

Manifest == [Paths -> Entries \cup {NoEntry}]
EmptyManifest == [p \in Paths |-> NoEntry]

\* diff.Compare, by kind of change.
Created(before, after)  == {p \in Paths : before[p] = NoEntry /\ after[p] # NoEntry}
Deleted(before, after)  == {p \in Paths : before[p] # NoEntry /\ after[p] = NoEntry}
Modified(before, after) == {p \in Paths : /\ before[p] # NoEntry
                                          /\ after[p] # NoEntry
                                          /\ before[p] # after[p]}
Compare(before, after) ==
    Created(before, after) \cup Modified(before, after) \cup Deleted(before, after)

\* acceptance.Check: a path changed on both sides is a conflict, even when
\* both sides changed it to the same entry.
Conflicts(base, destination, candidate) ==
    Compare(base, candidate) \cap Compare(base, destination)

\* A mutant of Check: only differing changes conflict and deletions never do.
Mut_CanApply(base, destination, candidate) ==
    Modified(base, candidate) \cap Compare(base, destination) = {}

CanApply(base, destination, candidate) ==
    Conflicts(base, destination, candidate) = {}
=============================================================================
