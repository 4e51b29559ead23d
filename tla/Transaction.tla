---------------------------- MODULE Transaction ----------------------------
(***************************************************************************)
(* What a protected run promises to the owner of a workspace, with nothing *)
(* of mounts, processes or files: a transaction over a tree.  Its result   *)
(* is offered once; only an offered result reaches the tree, path by path  *)
(* and never over the owner's own edits; and the transaction ends either   *)
(* committed, with all of the result in the tree, or rolled back, with     *)
(* none of it.                                                             *)
(***************************************************************************)
EXTENDS Manifests

CONSTANT Base

VARIABLES
    phase,   \* "open", "offered", "committed" or "rolled_back"
    work,    \* the owner's tree
    mine,    \* the tree as the owner alone would have made it
    offer    \* the result under review

tvars == <<phase, work, mine, offer>>

TInit ==
    /\ phase = "open"
    /\ work = Base /\ mine = Base
    /\ offer = EmptyManifest

\* The owner edits the tree at any time.
Edit(p, v) ==
    /\ work' = [work EXCEPT ![p] = v]
    /\ mine' = [mine EXCEPT ![p] = v]
    /\ UNCHANGED <<phase, offer>>

\* The run ended well and its result is presented.
Offer(result) ==
    /\ phase = "open"
    /\ phase' = "offered" /\ offer' = result
    /\ UNCHANGED <<work, mine>>

\* One path of the offered result is installed.
Install(p) ==
    /\ phase = "offered"
    /\ offer[p] # Base[p] /\ mine[p] = Base[p]
    /\ work' = [work EXCEPT ![p] = offer[p]]
    /\ UNCHANGED <<phase, mine, offer>>

\* Committed: every path the result changes is in the tree.
Commit ==
    /\ phase = "offered"
    /\ \A p \in Compare(Base, offer) : work[p] = offer[p]
    /\ phase' = "committed"
    /\ UNCHANGED <<work, mine, offer>>

\* Rolled back: the tree is the owner's alone.
Rollback ==
    /\ phase \in {"open", "offered"}
    /\ work = mine
    /\ phase' = "rolled_back"
    /\ UNCHANGED <<work, mine, offer>>

TNext ==
    \/ \E p \in Paths, v \in Entries \cup {NoEntry} : Edit(p, v)
    \/ \E result \in Manifest : Offer(result)
    \/ \E p \in Paths : Install(p)
    \/ Commit
    \/ Rollback

TSpec == TInit /\ [][TNext]_tvars
=============================================================================
