-------------------------- MODULE AcceptanceProofs --------------------------
(***************************************************************************)
(* What Apply guarantees for trees of every size and shape: the            *)
(* destination stays a tree, and what the owner put there is kept unless a *)
(* directory above it is deleted.                                          *)
(***************************************************************************)
EXTENDS Acceptance, TLAPS

USE DEF given

\* The candidate is a tree whose changes touch nothing the owner changed.
ApplyInv ==
    /\ {base, start, cand, dest} \subseteq Manifest /\ todo \subseteq Paths
    /\ Tree(dest) /\ Tree(cand)
    /\ pc = "check" => dest = start /\ todo = {}
    /\ todo \subseteq Compare(base, cand)
    /\ todo # {} => Conflicts(base, start, cand) = {}
    /\ OwnerEntriesKept

\* A merged view is a tree: what it shows lies in directories that it shows.
LEMMA OverlaidIsTree ==
    ASSUME NEW u, NEW t
    PROVE  Tree(Overlaid(u, t))
<1> DEFINE shows(q) == IF u[q] = Through THEN t[q] ELSE u[q]
           view == Overlaid(u, t)
<1> SUFFICES ASSUME NEW p \in Paths, view[p] # NoEntry, NEW q \in Above[p]
             PROVE  view[q] \in Dirs
  BY DEF Tree
<1>1. view = [x \in Paths |-> IF \A y \in Above[x] : shows(y) \in Dirs THEN shows(x) ELSE NoEntry]
  BY DEF Overlaid
<1>2. \A y \in Above[p] : shows(y) \in Dirs
  BY <1>1
<1>3. q \in Paths /\ Above[q] \subseteq Above[p]
  BY PathsAssumption
<1> QED
  BY <1>1, <1>2, <1>3

\* MkdirAll keeps a tree a tree, and every entry that is there.
LEMMA MkdirAllKeeps ==
    ASSUME dest \in Manifest, Tree(dest), NEW p \in Paths, NEW d \in Dirs,
           NEW P \in {Above[p], Above[p] \cup {p}}, ~MkdirAllFails(P)
    PROVE  /\ MkdirAll(P, d) \in Manifest
           /\ Tree(MkdirAll(P, d))
           /\ \A q \in P : MkdirAll(P, d)[q] \in Dirs
           /\ \A q \in Paths : dest[q] # NoEntry => MkdirAll(P, d)[q] = dest[q]
<1> DEFINE made == MkdirAll(P, d)
<1>1. P \subseteq Paths /\ \A q \in P : Above[q] \subseteq P
  BY PathsAssumption
<1>2. Umask[d] \in Dirs /\ Dirs \subseteq Entries
  BY EntriesAssumption
<1>3. made = [q \in Paths |-> IF q \in P /\ dest[q] = NoEntry THEN Umask[d] ELSE dest[q]]
  BY DEF MkdirAll
<1>4. \A q \in P : made[q] \in Dirs
  BY <1>1, <1>2, <1>3 DEF MkdirAllFails
<1>5. made \in Manifest
  BY <1>2, <1>3 DEF Manifest
<1>6. \A q \in Paths : dest[q] # NoEntry => made[q] = dest[q]
  BY <1>3
<1>7. ASSUME NEW x \in Paths, made[x] # NoEntry, NEW q \in Above[x]
      PROVE  made[q] \in Dirs
  <2>1. CASE x \in P
    BY <1>1, <1>4, <2>1
  <2>2. CASE x \notin P
    <3>1. dest[x] # NoEntry
      BY <1>3, <1>7, <2>2
    <3>2. q \in Paths /\ dest[q] \in Dirs
      BY <3>1, PathsAssumption DEF Tree
    <3>3. dest[q] # NoEntry
      BY <1>2, <3>2, EntryAssumption
    <3> QED
      BY <1>6, <3>2, <3>3
  <2> QED
    BY <2>1, <2>2
<1> QED
  BY <1>4, <1>5, <1>6, <1>7 DEF Tree

\* RemoveAll keeps a tree a tree.
LEMMA RemoveAllKeeps ==
    ASSUME dest \in Manifest, Tree(dest), NEW p \in Paths
    PROVE  RemoveAll(p) \in Manifest /\ Tree(RemoveAll(p))
<1> DEFINE left == RemoveAll(p)
<1>1. left = [q \in Paths |-> IF q = p \/ p \in Above[q] THEN NoEntry ELSE dest[q]]
  BY DEF RemoveAll
<1>2. left \in Manifest
  BY <1>1 DEF Manifest
<1>3. ASSUME NEW x \in Paths, left[x] # NoEntry, NEW q \in Above[x]
      PROVE  left[q] \in Dirs
  <2>1. x # p /\ p \notin Above[x] /\ dest[x] # NoEntry
    BY <1>1, <1>3
  <2>2. q \in Paths /\ Above[q] \subseteq Above[x] /\ dest[q] \in Dirs
    BY <2>1, PathsAssumption DEF Tree
  <2> QED
    BY <1>1, <2>1, <2>2
<1> QED
  BY <1>2, <1>3 DEF Tree

\* A path that a commit may change is not one the owner changed.
LEMMA NoOwnerChange ==
    ASSUME ApplyInv, NEW p \in todo
    PROVE  p \in Paths /\ ~(start[p] # base[p] /\ start[p] # NoEntry)
<1>1. p \in Paths /\ p \in Compare(base, cand) /\ p \notin Compare(base, start)
  BY DEF ApplyInv, Conflicts
<1> QED
  BY <1>1 DEF Compare, Created, Modified

\* Apply, at every step of copyEntry and RemoveAll, keeps the invariant.
THEOREM ApplyInvariance == Spec => []ApplyInv
<1>1. Init => ApplyInv
  <2> SUFFICES ASSUME Init
               PROVE  ApplyInv
    OBVIOUS
  <2>1. PICK u \in Layers(base) : cand = Overlaid(u, start)
    BY DEF Init
  <2>2. base \in Manifest /\ start \in Manifest /\ Tree(start) /\ dest = start /\ todo = {}
    BY EntriesAssumption DEF Init
  <2>3. cand \in Manifest
    BY <2>1, <2>2 DEF Layers, Overlaid, Manifest
  <2> QED
    BY <2>1, <2>2, <2>3, OverlaidIsTree DEF Init, ApplyInv, OwnerEntriesKept
<1>2. ApplyInv /\ [Next]_vars => ApplyInv'
  <2> SUFFICES ASSUME ApplyInv, [Next]_vars
               PROVE  ApplyInv'
    OBVIOUS
  <2> /\ dest \in Manifest /\ Tree(dest)
    BY DEF ApplyInv
  <2>1. CASE Check
    BY <2>1 DEF Check, CanApply, ApplyInv, OwnerEntriesKept, Compare, Created, Modified, Deleted
  <2>2. ASSUME NEW p \in Paths, CopyDirectory(p)
        PROVE  ApplyInv'
    <3>1. CASE MkdirAllFails(Above[p] \cup {p})
      BY <2>2, <3>1 DEF CopyDirectory, Stops, ApplyInv, OwnerEntriesKept
    <3>2. CASE ~MkdirAllFails(Above[p] \cup {p})
      <4> DEFINE made == MkdirAll(Above[p] \cup {p}, cand[p])
      <4>1. cand[p] \in Dirs /\ dest' = made
        BY <2>2, <3>2 DEF CopyDirectory
      <4>2. /\ made \in Manifest /\ Tree(made)
            /\ \A q \in Paths : dest[q] # NoEntry => made[q] = dest[q]
        BY <3>2, <4>1, MkdirAllKeeps
      <4>3. UNCHANGED given /\ todo' \subseteq todo /\ pc' = pc /\ pc = "apply"
        BY <2>2, <3>2 DEF CopyDirectory, Goes
      <4> HIDE DEF made
      <4> QED
        BY <4>1, <4>2, <4>3 DEF ApplyInv, OwnerEntriesKept, Tree
    <3> QED
      BY <3>1, <3>2
  <2>3. ASSUME NEW p \in Paths, CopyFile(p)
        PROVE  ApplyInv'
    <3>1. CASE MkdirAllFails(Above[p])
      BY <2>3, <3>1 DEF CopyFile, Stops, ApplyInv, OwnerEntriesKept
    <3>2. CASE ~MkdirAllFails(Above[p])
      <4> DEFINE made == MkdirAll(Above[p], DefaultDir)
      <4>1. /\ made \in Manifest /\ Tree(made)
            /\ \A q \in Above[p] : made[q] \in Dirs
            /\ \A q \in Paths : dest[q] # NoEntry => made[q] = dest[q]
        BY <3>2, MkdirAllKeeps, EntriesAssumption
      <4>2. UNCHANGED given /\ todo' \subseteq todo /\ pc = "apply" /\ pc' # "check" /\ p \in todo
        BY <2>3, <3>2 DEF CopyFile, Goes, Stops, NextChange
      <4> HIDE DEF made
      <4>3. CASE dest' = made
        BY <4>1, <4>2, <4>3 DEF ApplyInv, OwnerEntriesKept, Tree
      <4>4. CASE made[p] \notin Dirs /\ dest' = [made EXCEPT ![p] = cand[p]]
        <5>1. dest' \in Manifest
          BY <4>1, <4>4 DEF Manifest, ApplyInv
        <5>2. ASSUME NEW x \in Paths, dest'[x] # NoEntry, NEW q \in Above[x]
              PROVE  dest'[q] \in Dirs
          <6>1. q \in Paths /\ Rank[q] < Rank[x]
            BY PathsAssumption
          <6>2. made[q] \in Dirs
            BY <4>1, <4>4, <5>2, <6>1 DEF Tree, Manifest
          <6> QED
            BY <4>1, <4>4, <6>1, <6>2 DEF Manifest
        <5>3. ASSUME NEW q \in Paths, start[q] # base[q], start[q] # NoEntry, dest[q] = start[q]
              PROVE  dest'[q] = start[q]
          <6>1. q # p
            BY <4>2, <5>3, NoOwnerChange
          <6> QED
            BY <4>1, <4>4, <5>3, <6>1 DEF Manifest
        <5> QED
          BY <4>2, <5>1, <5>2, <5>3 DEF ApplyInv, OwnerEntriesKept, Tree
      <4> QED
        BY <2>3, <3>2, <4>3, <4>4 DEF CopyFile, made
    <3> QED
      BY <3>1, <3>2
  <2>4. ASSUME NEW p \in Paths, CopyOdd(p)
        PROVE  ApplyInv'
    BY <2>4 DEF CopyOdd, Stops, ApplyInv, OwnerEntriesKept
  <2>5. ASSUME NEW p \in Paths, Delete(p)
        PROVE  ApplyInv'
    <3>1. dest' \in Manifest /\ Tree(dest)'
      BY <2>5, RemoveAllKeeps DEF Delete, Tree
    <3>2. UNCHANGED given /\ todo' \subseteq todo /\ pc' = pc /\ pc = "apply" /\ p \in todo
      BY <2>5 DEF Delete, Goes, NextChange
    <3>3. p \in Deleted(base, cand)
      BY <2>5, <3>2 DEF Delete, ApplyInv, Compare, Created, Modified, Deleted
    <3>4. ASSUME NEW q \in Paths, start[q] # base[q], start[q] # NoEntry,
                 Above[q] \cap Deleted(base, cand) = {}
          PROVE  dest'[q] = dest[q]
      <4>1. q # p /\ p \notin Above[q]
        BY <3>2, <3>3, <3>4, NoOwnerChange
      <4> QED
        BY <2>5, <4>1 DEF Delete, RemoveAll
    <3> QED
      BY <3>1, <3>2, <3>4 DEF ApplyInv, OwnerEntriesKept, Tree
  <2>6. CASE Finish
    BY <2>6 DEF Finish, ApplyInv, OwnerEntriesKept
  <2>7. CASE UNCHANGED vars
    BY <2>7 DEF vars, ApplyInv, OwnerEntriesKept
  <2> QED
    BY <2>1, <2>2, <2>3, <2>4, <2>5, <2>6, <2>7 DEF Next, Done
<1> QED
  BY <1>1, <1>2, PTL DEF Spec

\* Wherever Apply stops, the destination is a tree.
THEOREM DestinationStaysTree == Spec => []DestinationIsTree
<1>1. ApplyInv => DestinationIsTree
  BY DEF ApplyInv, DestinationIsTree
<1> QED
  BY <1>1, ApplyInvariance, PTL

\* Wherever Apply stops, a file or directory the owner created or changed is
\* still there unless it lies below a directory that the candidate deleted.
THEOREM OwnerEntriesAreKept == Spec => []OwnerEntriesKept
<1>1. ApplyInv => OwnerEntriesKept
  BY DEF ApplyInv
<1> QED
  BY <1>1, ApplyInvariance, PTL
-----------------------------------------------------------------------------
(* What a successful Apply has installed *)

\* Every change that has been applied is installed, and what is still to be
\* copied is as it was at the start.
InstallInv ==
    /\ pc \in {"apply", "applied"} =>
         /\ \A p \in Compare(base, cand) \ todo : Installed(p)
         /\ \A p \in todo : cand[p] # NoEntry => dest[p] = start[p]
    /\ pc = "applied" => todo = {}

\* Copies come parents first: the directories above the next copy are directories
\* of the candidate that have had their turn.
LEMMA ParentsDone ==
    ASSUME ApplyInv, InstallInv, pc = "apply",
           NEW x \in Paths, NextChange(x), cand[x] # NoEntry, NEW q \in Above[x]
    PROVE  /\ q \in Paths /\ q # x /\ q \notin todo
           /\ q \in Compare(base, cand) => dest[q] \in Dirs
<1>1. q \in Paths /\ Rank[q] < Rank[x] /\ Rank \in [Paths -> Nat]
  BY PathsAssumption
<1>2. cand[q] \in Dirs /\ cand[q] # NoEntry
  BY EntriesAssumption, EntryAssumption DEF ApplyInv, Tree
<1>3. q \notin todo
  <2>1. ~(Rank[x] <= Rank[q])
    BY <1>1
  <2> QED
    BY <1>2, <2>1 DEF NextChange
<1>4. q \in Compare(base, cand) => dest[q] \in Dirs
  BY <1>2, <1>3 DEF InstallInv, Installed
<1> QED
  BY <1>1, <1>3, <1>4

\* MkdirAll of the parents of a copy disturbs nothing that is installed or still
\* to be copied.
LEMMA MkdirAllInstalls ==
    ASSUME ApplyInv, InstallInv, pc = "apply", NEW d,
           NEW x \in Paths, NextChange(x), cand[x] # NoEntry,
           NEW P \in {Above[x], Above[x] \cup {x}},
           NEW q \in Compare(base, cand), q # x
    PROVE  MkdirAll(P, d)[q] = dest[q]
<1>1. q \in Paths
  BY DEF Compare, Created, Modified, Deleted
<1>2. CASE q \in P
  <2>1. dest[q] \in Dirs
    BY <1>2, ParentsDone
  <2>2. dest[q] # NoEntry
    BY <2>1, EntriesAssumption, EntryAssumption
  <2> QED
    BY <1>1, <2>2 DEF MkdirAll
<1>3. CASE q \notin P
  BY <1>1, <1>3 DEF MkdirAll
<1> QED
  BY <1>2, <1>3

\* Apply installs one change at a time and keeps the others.
LEMMA InstallStep ==
    ASSUME ApplyInv, InstallInv, [Next]_vars
    PROVE  InstallInv'
<1> /\ dest \in Manifest /\ todo \subseteq Compare(base, cand) /\ Tree(cand)
  BY DEF ApplyInv
<1>1. CASE Check
  BY <1>1 DEF Check, ApplyInv, InstallInv
<1>2. ASSUME NEW x \in Paths, CopyDirectory(x)
      PROVE  InstallInv'
  <2>1. CASE MkdirAllFails(Above[x] \cup {x})
    BY <1>2, <2>1 DEF CopyDirectory, Stops, InstallInv
  <2>2. CASE ~MkdirAllFails(Above[x] \cup {x})
    <3> DEFINE made == MkdirAll(Above[x] \cup {x}, cand[x])
    <3>1. /\ pc = "apply" /\ pc' = "apply" /\ NextChange(x) /\ x \in todo
          /\ cand[x] \in Dirs /\ cand[x] # NoEntry
          /\ dest' = made /\ todo' = todo \ {x} /\ UNCHANGED given
      BY <1>2, <2>2, EntriesAssumption, EntryAssumption DEF CopyDirectory, Goes, NextChange
    <3>2. \A q \in Compare(base, cand) \ {x} : made[q] = dest[q]
      BY <3>1, MkdirAllInstalls
    <3>3. made[x] \in Dirs /\ made[x] \in {start[x], Umask[cand[x]]}
      <4>1. dest[x] = start[x]
        BY <3>1 DEF InstallInv
      <4>2. made[x] = IF dest[x] = NoEntry THEN Umask[cand[x]] ELSE dest[x]
        BY DEF MkdirAll
      <4>3. dest[x] # NoEntry => dest[x] \in Dirs
        BY <2>2 DEF MkdirAllFails
      <4>4. Umask[cand[x]] \in Dirs
        BY <3>1, EntriesAssumption
      <4> QED
        BY <4>1, <4>2, <4>3, <4>4
    <3> HIDE DEF made
    <3> QED
      BY <3>1, <3>2, <3>3 DEF InstallInv, Installed
  <2> QED
    BY <2>1, <2>2
<1>3. ASSUME NEW x \in Paths, CopyFile(x)
      PROVE  InstallInv'
  <2>1. CASE MkdirAllFails(Above[x])
    BY <1>3, <2>1 DEF CopyFile, Stops, InstallInv
  <2>2. CASE ~MkdirAllFails(Above[x])
    <3> DEFINE made == MkdirAll(Above[x], DefaultDir)
    <3>1. /\ pc = "apply" /\ NextChange(x) /\ x \in todo /\ cand[x] # NoEntry
          /\ \/ dest' = [made EXCEPT ![x] = cand[x]] /\ Goes(x)
             \/ Stops
      BY <1>3, <2>2, EntriesAssumption, EntryAssumption DEF CopyFile, NextChange
    <3>2. \A q \in Compare(base, cand) \ {x} : made[q] = dest[q]
      BY <3>1, MkdirAllInstalls
    <3>3. DOMAIN made = Paths
      BY DEF MkdirAll
    <3>4. \A q \in Compare(base, cand) : q \in Paths
      BY DEF Compare, Created, Modified, Deleted
    <3> HIDE DEF made
    <3>5. CASE dest' = [made EXCEPT ![x] = cand[x]] /\ Goes(x)
      <4>1. dest'[x] = cand[x] /\ \A q \in Compare(base, cand) \ {x} : dest'[q] = dest[q]
        BY <3>2, <3>3, <3>4, <3>5
      <4> QED
        BY <3>1, <3>5, <4>1 DEF Goes, InstallInv, Installed
    <3>6. CASE Stops
      BY <3>6 DEF Stops, InstallInv
    <3> QED
      BY <3>1, <3>5, <3>6
  <2> QED
    BY <2>1, <2>2
<1>4. ASSUME NEW x \in Paths, CopyOdd(x)
      PROVE  InstallInv'
  BY <1>4 DEF CopyOdd, Stops, InstallInv
<1>5. ASSUME NEW x \in Paths, Delete(x)
      PROVE  InstallInv'
  <2>1. /\ pc = "apply" /\ cand[x] = NoEntry /\ dest' = RemoveAll(x) /\ Goes(x)
    BY <1>5 DEF Delete
  <2>2. ASSUME NEW q \in Compare(base, cand)
        PROVE  dest'[q] = dest[q] \/ (cand[q] = NoEntry /\ dest'[q] = NoEntry)
    <3>1. q \in Paths
      BY DEF Compare, Created, Modified, Deleted
    <3>2. CASE q = x \/ x \in Above[q]
      <4>1. cand[q] = NoEntry
        BY <2>1, <3>1, <3>2, EntriesAssumption, EntryAssumption DEF Tree
      <4> QED
        BY <2>1, <3>1, <3>2, <4>1 DEF RemoveAll
    <3>3. CASE ~(q = x \/ x \in Above[q])
      BY <2>1, <3>1, <3>3 DEF RemoveAll
    <3> QED
      BY <3>2, <3>3
  <2>3. dest'[x] = NoEntry
    BY <2>1 DEF RemoveAll
  <2> QED
    BY <2>1, <2>2, <2>3 DEF Goes, InstallInv, Installed
<1>6. CASE Finish
  BY <1>6 DEF Finish, InstallInv, Installed
<1>7. CASE UNCHANGED vars
  BY <1>7 DEF vars, InstallInv, Installed
<1> QED
  BY <1>1, <1>2, <1>3, <1>4, <1>5, <1>6, <1>7 DEF Next, Done

\* Whatever Apply reports as applied is in the destination: each file with its
\* content, each deletion, each directory as a directory and, if it is new, with
\* the mode of the candidate.
THEOREM AppliedIsInstalled == Spec => []AppliedIsCandidate
<1>1. Init => InstallInv
  BY DEF Init, InstallInv
<1>2. InstallInv => AppliedIsCandidate
  BY DEF InstallInv, AppliedIsCandidate
<1>3. ApplyInv /\ InstallInv /\ [Next]_vars => InstallInv'
  BY InstallStep
<1> QED
  BY <1>1, <1>2, <1>3, ApplyInvariance, PTL DEF Spec
=============================================================================
