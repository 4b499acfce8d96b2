----------------------------- MODULE MCKartTimed -----------------------------
(***************************************************************************)
(* The instances of MCKartController, for the timed controller.            *)
(***************************************************************************)
EXTENDS KartTimed, MCKartController
=============================================================================
