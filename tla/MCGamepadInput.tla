---------------------------- MODULE MCGamepadInput ----------------------------
(***************************************************************************)
(* Instances of GamepadInput: a stick at rest with START held, a stick     *)
(* pushed with START released.  With Unit = 3 a calibration that is        *)
(* accepted differs from the scale of a gamepad that never was.            *)
(***************************************************************************)
EXTENDS GamepadInput

Report(x, estop, start, drive) ==
  [x |-> x, btn |-> [estop |-> estop, start |-> start, drive |-> drive]]

TwoReports == {Report(0, FALSE, TRUE, FALSE), Report(2, FALSE, FALSE, FALSE)}
=============================================================================
