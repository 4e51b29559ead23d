--------------------------- MODULE MCProtectedRun ---------------------------
(***************************************************************************)
(* Small instances of ProtectedRun.  The workspace has one or two paths,   *)
(* the first of which exists when the run starts, so that an agent can     *)
(* modify, delete and create.                                              *)
(***************************************************************************)
EXTENDS ProtectedRunRefines, TLC

CONSTANTS p1, p2, e1, e2

OnePath  == {p1}
TwoPaths == {p1, p2}
OneBase  == p1 :> e1
TwoBase  == (p1 :> e1) @@ (p2 :> NoEntry)

\* Every call may fail and every process may be killed.
AllFaults == FaultKinds
=============================================================================
