--------------------------- MODULE MCNetBoundary ---------------------------
(***************************************************************************)
(* Small instances of NetBoundary: two runs on one host, three addresses   *)
(* of which two may belong to the allowed domains.                         *)
(***************************************************************************)
EXTENDS NetBoundary, TLC

CONSTANTS a1, a2, other

\* A resolution finds one address or two, which may be those of the other run.
TheResolutions == {{a1}, {a2}, {a1, a2}}

\* Failures before the gate; a refresher whose commands fail; runs that are
\* killed and agents that leave processes behind; cleanup that fails.
TheFaults == {{"install", "refresher"}, {"refresher", "refresh", "stray"},
              {"move", "attach"}, {"kill", "refresher", "stray"},
              {"kill", "undo"}}
=============================================================================
