----------------------------- MODULE MCEvidence -----------------------------
(***************************************************************************)
(* Small instances of Evidence: two events of the kernel, two              *)
(* connections, a ring of one event and files of one or two lines.         *)
(***************************************************************************)
EXTENDS Evidence, TLC

CONSTANTS c1, c2

\* The line of a decision is shorter than that of a kernel event, so that it
\* may fit where the last one did not.
TheSize == [event \in Events |-> IF event \in Conns THEN 1 ELSE 2]

TheLimits == {[max |-> 0, rotate |-> 3], [max |-> 3, rotate |-> 2]}

TheFaults == {{}, {"write"}, {"sensor"}, {"attach", "outsider"}, {"slow", "stray", "newer"},
              {"serve"}, {"kill"}}

TheKill == {{"kill"}}
=============================================================================
