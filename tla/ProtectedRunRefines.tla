------------------------ MODULE ProtectedRunRefines ------------------------
(***************************************************************************)
(* A protected run, with the commands that follow it, implements the       *)
(* Transaction: the record on disk is the transaction's phase, the lower   *)
(* layer its tree.                                                         *)
(***************************************************************************)
EXTENDS ProtectedRun

Phase == CASE record.state = "succeeded"   -> "offered"
           [] record.state = "committed"   -> "committed"
           [] record.state = "rolled_back" -> "rolled_back"
           [] OTHER -> "open"

T == INSTANCE Transaction
       WITH phase <- Phase, work <- lower, mine <- user, offer <- reviewed

\* As long as no command overlaps another and no call fails half way through
\* a commit, every step of the processes is a step of the transaction or
\* invisible to it, wherever the run process is killed.
ImplementsTransaction == T!TSpec
=============================================================================
