------------------------------ MODULE MCSessions ------------------------------
(* Three requests of two operators; the supervisors that serve them. *)
EXTENDS Sessions, TLC

CONSTANTS A, B, r1, r2, r3, s1, s2, s3

MCBy == (r1 :> A) @@ (r2 :> B) @@ (r3 :> A)

\* Two supervisors, one of which serves two of the requests.
MCAtTwo == (r1 :> s1) @@ (r2 :> s2) @@ (r3 :> s2)
\* Each request reaches a supervisor of its own.
MCAtThree == (r1 :> s1) @@ (r2 :> s2) @@ (r3 :> s3)
=============================================================================
