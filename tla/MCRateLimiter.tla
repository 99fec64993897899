--------------------------- MODULE MCRateLimiter ----------------------------
(* Constants of RateLimiter for TLC: two clients of one workspace, on two  *)
(* instances; r1 and r2 share their client's bucket, though r1 asks for a  *)
(* path with a tighter limit, and r3 shares only the workspace with them.  *)
EXTENDS RateLimiter, TLC

CONSTANTS i1, i2, r1, r2, r3, c1w, c2w, w, none

MCRequests  == {r1, r2, r3}
MCInstances == {i1, i2}
MCBuckets   == {c1w, c2w, w}
MCInstance  == r1 :> i1 @@ r2 :> i2 @@ r3 :> i1
MCIpBucket  == r1 :> c1w @@ r2 :> c1w @@ r3 :> c2w
MCWsBucket  == [r \in MCRequests |-> w]
MCPathLimit == r1 :> 1 @@ r2 :> 2 @@ r3 :> 1
=============================================================================
