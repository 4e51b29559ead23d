---------------------------- MODULE MCAcceptance ----------------------------
(***************************************************************************)
(* A directory with two paths below it, starting absent, empty, or with a  *)
(* file in it; three modes of directory, one of which the umask changes.   *)
(***************************************************************************)
EXTENDS Acceptance, TLC

CONSTANTS d, df, dg, x, y, m700, m755, m775, ln

MCPaths == {d, df, dg}
MCAbove == (d :> {}) @@ (df :> {d}) @@ (dg :> {d})
MCRank  == (d :> 1) @@ (df :> 2) @@ (dg :> 3)
MCUmask == (m755 :> m755) @@ (m775 :> m755) @@ (m700 :> m700)
MCBases == {(d :> NoEntry) @@ (df :> NoEntry) @@ (dg :> NoEntry),
            (d :> m755) @@ (df :> NoEntry) @@ (dg :> NoEntry),
            (d :> m775) @@ (df :> x) @@ (dg :> NoEntry)}
=============================================================================
