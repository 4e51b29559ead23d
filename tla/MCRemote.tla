------------------------------ MODULE MCRemote ------------------------------
(* Instances of Remote: two or three clients with a few calls each. *)
EXTENDS Remote, TLC

CONSTANTS c1, c2, c3, v1, v2

Op(op) == [op |-> op, value |-> NoValue]
With(op, value) == [op |-> op, value |-> value]
Load(a, b, c, may) == [calls |-> c1 :> a @@ c2 :> b @@ c3 :> c, faults |-> may]
All == {"loss", "write", "kill"}

\* Publishers and readers; a revocation next to them; the retention store; two
\* clients that take turns with the session.
TheWorkloads ==
    {Load(<<With("publish", v1), With("publish", v2)>>, <<Op("fetch")>>, <<>>, {"loss"}),
     Load(<<With("publish", v1), With("publish", v2)>>, <<Op("fetch")>>, <<>>, {"write", "kill"}),
     Load(<<With("publish", v1)>>, <<With("publish", v2)>>, <<Op("fetch")>>, {"kill"}),
     Load(<<With("publish", v1), Op("revoke")>>, <<Op("fetch")>>, <<>>, {"loss"}),
     Load(<<With("publish", v1), Op("revoke")>>, <<Op("fetch")>>, <<>>, {"write", "kill"}),
     Load(<<With("publish", v1), Op("revoke")>>, <<Op("revoke"), Op("fetch")>>, <<>>, {"write"}),
     Load(<<With("put", v1)>>, <<With("put", v2)>>, <<With("restore", v1)>>, {"loss"}),
     Load(<<With("put", v1), With("put", v2)>>, <<With("restore", v1)>>, <<>>, All),
     Load(<<Op("acquire"), Op("release"), Op("acquire")>>, <<Op("acquire"), Op("release")>>, <<>>, {"loss"}),
     Load(<<Op("acquire"), Op("release"), Op("acquire")>>, <<Op("release"), Op("acquire")>>, <<>>, {"write", "kill"})}
=============================================================================
