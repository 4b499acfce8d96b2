--------------------------- MODULE MCKartController ---------------------------
(***************************************************************************)
(* Small instances of KartController: Unit = 4, so that a command has      *)
(* 9 values, a gamepad snapshot for every row of the stop-cause table and  *)
(* for every kind of stick position, and three configurations.             *)
(***************************************************************************)
EXTENDS KartController

Snapshot(x, y, estop, start, drive) ==
  [x |-> x, y |-> y, connected |-> TRUE, calibrated |-> TRUE,
   estop |-> estop, start |-> start, drive |-> drive]

\* An uncalibrated or disconnected gamepad reads a centred stick (input.cpp:237).
Uncalibrated(estop, start, drive) ==
  [Snapshot(0, 0, estop, start, drive) EXCEPT !.calibrated = FALSE]

Disconnected == [NoPad EXCEPT !.calibrated = TRUE]

\* Sticks: centred; off centre by less than ArmCenterMax; inside a wide
\* deadzone but not centred; full forward; full reverse; full right; both.
MCPads ==
  {Disconnected, NoPad,
   Uncalibrated(FALSE, TRUE, TRUE), Uncalibrated(TRUE, TRUE, FALSE),
   Snapshot(0, 0, FALSE, TRUE, FALSE), Snapshot(0, 0, FALSE, FALSE, TRUE),
   Snapshot(0, 1, FALSE, TRUE, TRUE), Snapshot(0, 2, FALSE, TRUE, TRUE),
   Snapshot(0, 4, FALSE, FALSE, TRUE), Snapshot(0, -4, FALSE, FALSE, TRUE),
   Snapshot(4, 0, FALSE, FALSE, TRUE), Snapshot(4, 4, FALSE, FALSE, TRUE),
   Snapshot(0, 4, FALSE, FALSE, FALSE),
   Snapshot(0, 4, TRUE, TRUE, TRUE)}

\* Linear mixing, both ramps on, the run-down longer than the timeout.
Plain == [duty_cap |-> 4, thr_deadzone |-> 0, turn_gain |-> 4, mix_type |-> 0,
          mix_expo_fwd |-> 0, mix_expo_turn |-> 0, accel |-> 2, decel |-> 1,
          mot_inv |-> [w \in Wheels |-> FALSE], mot_swap_lr |-> FALSE,
          arm_hold |-> 3, disarm |-> 3]

\* Half the duty, a deadzone, expo, crossed and inverted wiring, no accel ramp.
Crossed == [Plain EXCEPT !.duty_cap = 2, !.thr_deadzone = 1, !.turn_gain = 2,
              !.mix_type = 1, !.mix_expo_fwd = 4, !.accel = 0,
              !.mot_inv = [w \in Wheels |-> w = "l"], !.mot_swap_lr = TRUE,
              !.arm_hold = 1]

\* No freewheel at all, a duty_cap below the floor.
Abrupt == [Plain EXCEPT !.duty_cap = 0, !.accel = 1, !.decel = 0]

MCConfigs  == {Plain, Crossed, Abrupt}
TwoConfigs == {Plain, Crossed}
OneConfig  == {Plain}

\* For liveness: one snapshot per behaviour that matters.
FewPads ==
  {Disconnected, Snapshot(0, 0, FALSE, TRUE, TRUE), Snapshot(0, 0, FALSE, FALSE, TRUE),
   Snapshot(0, 4, FALSE, FALSE, TRUE), Snapshot(0, 4, FALSE, FALSE, FALSE)}
=============================================================================
