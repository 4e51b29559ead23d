---------------------------- MODULE ReplacedFile ----------------------------
(***************************************************************************)
(* A file that is replaced as a whole: os.WriteFile to the fixed name      *)
(* path + ".tmp", then os.Rename.  The history index, the control plane    *)
(* catalog and the policy registry keep their files this way.              *)
(*                                                                         *)
(* A name refers to an inode and a writer to the inode it opened, so that  *)
(* two writers with one .tmp may find themselves in one inode, or in the   *)
(* file the other one has already published.                               *)
(***************************************************************************)
EXTENDS Naturals, FiniteSets

\* A name without a file.
NoInode == 0

\* data[i] holds what was written over one another into inode i: nothing or a
\* part of a value when empty, a whole value when a singleton, and otherwise a
\* mixture that cannot be decoded.
Dirs(Inodes, Values) ==
    [file : Inodes \cup {NoInode}, tmp : Inodes \cup {NoInode}, data : [Inodes -> SUBSET Values]]

NoFile(Inodes) == [file |-> NoInode, tmp |-> NoInode, data |-> [i \in Inodes |-> {}]]

Holding(Inodes, i, value) ==
    [NoFile(Inodes) EXCEPT !.file = i, !.data[i] = {value}]

\* os.ReadFile and json.Unmarshal: a missing file is the initial value.
Decodes(dir) == dir.file # NoInode => \E v \in dir.data[dir.file] : dir.data[dir.file] = {v}

ValueOf(dir, initial) ==
    IF dir.file = NoInode THEN initial ELSE CHOOSE v \in dir.data[dir.file] : TRUE

\* O_CREATE|O_TRUNC: an old .tmp keeps its inode.
OpenedInode(dir, new) == IF dir.tmp = NoInode THEN new ELSE dir.tmp

\* A mutant of Opened: the file is written in place.
Mut_Opened(dir, new) ==
    LET i == IF dir.file = NoInode THEN new ELSE dir.file IN
    [dir EXCEPT !.tmp = i, !.data[i] = {}]

Opened(dir, new) ==
    [dir EXCEPT !.tmp = OpenedInode(dir, new), !.data[OpenedInode(dir, new)] = {}]

\* A value that is not shorter hides what was there before.
Written(dir, inode, value) ==
    {[dir EXCEPT !.data[inode] = {value}], [dir EXCEPT !.data[inode] = @ \cup {value}]}

\* Refused when another writer has renamed the .tmp.
CanRename(dir) == dir.tmp # NoInode

Renamed(dir) == [dir EXCEPT !.file = dir.tmp, !.tmp = NoInode]
=============================================================================
