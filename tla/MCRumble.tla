------------------------------- MODULE MCRumble -------------------------------
(***************************************************************************)
(* Instances of Rumble: enough posts for one to be overtaken by the next   *)
(* while it is taken, twice.                                               *)
(***************************************************************************)
EXTENDS Rumble
===============================================================================
