---------------------------- MODULE MCStationRetry ----------------------------
(***************************************************************************)
(* Instances of StationRetry.  The delays are those of the code, in units  *)
(* of 5 s: 1, 2, 4, ..., 32, 60.                                           *)
(***************************************************************************)
EXTENDS StationRetry
=============================================================================
