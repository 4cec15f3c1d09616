----------------------------- MODULE MCBatchLoop ------------------------------
(***************************************************************************)
(* Small instances of BatchLoop.                                           *)
(***************************************************************************)
EXTENDS BatchLoop, TLC

CONSTANTS r1, r2

MCRequests == {r1, r2}

\* No property and no action tells the requests apart.
MCSymmetry == Permutations(Requests)
===============================================================================
