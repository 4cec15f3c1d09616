-------------------------- MODULE MCStoragePrefetch --------------------------
(* StoragePrefetch for TLC: two requests that compete for the pool, and two  *)
(* that fetch the same page. *)
EXTENDS StoragePrefetch

MCRequests == {"r1", "r2"}

MCApartKey == [r1 |-> <<"a", "b">>, r2 |-> <<"c">>]

MCNestedKey == [r1 |-> <<"a", "b">>, r2 |-> <<"a">>]
=============================================================================
