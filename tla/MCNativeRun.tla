---------------------------- MODULE MCNativeRun ----------------------------
(***************************************************************************)
(* Small instances of NativeRun: a workspace with two files, one of which  *)
(* the read policy may deny.                                               *)
(***************************************************************************)
EXTENDS NativeRun, TLC

CONSTANTS p1, p2, secret, text, made, kept

TheBase == (p1 :> secret) @@ (p2 :> text)

\* Careful use with a run that is killed or cannot write; then edits at bad
\* times and commands that fail; processes killed; commands that overlap.
TheFaults == {{"kill_run", "write_run", "remove_run"}, {"kill_run"},
              {"edit_early", "edit_late", "copy", "write_command", "remove_command"},
              {"kill_command", "stray"},
              {"overlap"}}
=============================================================================
