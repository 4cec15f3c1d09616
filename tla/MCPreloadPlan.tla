---------------------------- MODULE MCPreloadPlan -----------------------------
(***************************************************************************)
(* Small instances of PreloadPlan.                                         *)
(***************************************************************************)
EXTENDS PreloadPlan
===============================================================================
