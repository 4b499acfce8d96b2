------------------------------ MODULE MCEventLog ------------------------------
(***************************************************************************)
(* Instances of EventLog: a ring of two slots and a partition of four      *)
(* records in two sectors fill up, wrap and are cut within a few events.   *)
(***************************************************************************)
EXTENDS EventLog
=============================================================================
