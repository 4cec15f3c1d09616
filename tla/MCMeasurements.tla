---------------------------- MODULE MCMeasurements ----------------------------
(***************************************************************************)
(* Small instances of Measurements.                                        *)
(***************************************************************************)
EXTENDS Measurements
===============================================================================
