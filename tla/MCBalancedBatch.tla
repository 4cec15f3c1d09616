--------------------------- MODULE MCBalancedBatch ----------------------------
(***************************************************************************)
(* Small instances of BalancedBatch: two requests under a shared segment,  *)
(* one with a segment of its own, and one that only computes.              *)
(***************************************************************************)
EXTENDS BalancedBatch

CONSTANTS r1, r2, r3, r4, s1, s2, s3

MCRequests3 == {r1, r2, r3}
MCRequests4 == {r1, r2, r3, r4}
MCSegments == {s1, s2, s3}

\* r1 and r2 share s1, which r2 extends by s2; r3 has s3, and r4 nothing.
MCPath ==
    [r \in Requests |->
        CASE r = r1 -> <<s1>> [] r = r2 -> <<s1, s2>> [] r = r3 -> <<s3>> [] OTHER -> <<>>]
MCSize == [s \in Segments |-> IF s = s3 THEN 3 ELSE 2]
MCSuffix == [r \in Requests |-> IF r = r4 THEN 2 ELSE 1]
===============================================================================
