----------------------------- MODULE ControlMath -----------------------------
(***************************************************************************)
(* The pure motor-command arithmetic of the kart: control_math.hpp and the *)
(* mixers of mixer.hpp.                                                    *)
(*                                                                         *)
(* A command is a float in [-1..1] in the code.  Here it is an integer in  *)
(* -Unit..Unit, Unit standing for 1.0: a product of two fractions is       *)
(* divided by Unit, and every division truncates toward zero, so that each *)
(* operator stays odd, as its float original is.                           *)
(***************************************************************************)
EXTENDS Integers

CONSTANT Unit       \* the integer that stands for a full command, 1.0

ASSUME UnitAssumption == Unit \in Nat \ {0}

Commands == -Unit..Unit

Abs(v) == IF v < 0 THEN -v ELSE v

\* a / b truncated toward zero, for b > 0.
Quotient(a, b) == IF a >= 0 THEN a \div b ELSE -((-a) \div b)

Clamp(v, lo, hi) == IF v < lo THEN lo ELSE IF v > hi THEN hi ELSE v

\* ctl::deadzone: [dz..1] is stretched over [0..1].
Deadzone(v, dz) ==
  IF Abs(v) <= dz THEN 0
  ELSE Quotient((IF v > 0 THEN v - dz ELSE v + dz) * Unit, Unit - dz)

\* ctl::slew, with the step rate * dt given as one integer.
Slew(target, current, step) == Clamp(target, current - step, current + step)

\* Mutant: a rate of 0 is taken literally.
LegNeverOff(target, current, step) == Slew(target, current, step)

\* One rate of ctl::ramp on one side of zero; a rate of 0 is "off".
Leg(target, current, step) == IF step <= 0 THEN target ELSE Slew(target, current, step)

\* Mutant: a reversal is one slope straight through zero.
RampOneRate(target, current, up, dn) ==
  Leg(target, current, IF Abs(target) > Abs(current) THEN up ELSE dn)

\* ctl::ramp: up bounds the growth away from zero, dn the fall toward it; a
\* reversal spends dn getting back to zero before it may build up again.
Ramp(target, current, up, dn) ==
  LET reversing == target * current < 0
      zeroed    == Leg(0, current, dn)
      from      == IF reversing THEN 0 ELSE current
  IN  IF reversing /\ zeroed # 0
      THEN zeroed
      ELSE Leg(target, from, IF Abs(target) > Abs(from) THEN up ELSE dn)

\* Mutant: the steering is mirrored.
MixArcadeMirrored(fwd, turn, gain) ==
  LET t == Quotient(turn * gain, Unit)
  IN  [w \in {"l", "r"} |-> Clamp(IF w = "r" THEN fwd + t ELSE fwd - t, -Unit, Unit)]

\* Mutant: the sum is not clamped.
MixArcadeUnclamped(fwd, turn, gain) ==
  LET t == Quotient(turn * gain, Unit)
  IN  [w \in {"l", "r"} |-> IF w = "l" THEN fwd + t ELSE fwd - t]

\* ctl::mixArcade: stick to the right (turn > 0) speeds up the left wheel.
MixArcade(fwd, turn, gain) ==
  LET t == Quotient(turn * gain, Unit)
  IN  [w \in {"l", "r"} |-> Clamp(IF w = "l" THEN fwd + t ELSE fwd - t, -Unit, Unit)]

\* Mutant: the strength is not clamped.
ExpoUnclamped(x, strength) ==
  Quotient((Unit - strength) * x * Unit * Unit + strength * x * x * x, Unit * Unit * Unit)

\* mixdet::expo: a blend of x and x^3, the strength clamped to [0..1].
Expo(x, strength) ==
  LET e == Clamp(strength, 0, Unit)
  IN  Quotient((Unit - e) * x * Unit * Unit + e * x * x * x, Unit * Unit * Unit)

\* mixerFor(type).mix: 1 is the expo mixer, anything else the linear one.
Mix(fwd, turn, c) ==
  IF c.mix_type = 1
  THEN MixArcade(Expo(fwd, c.mix_expo_fwd), Expo(turn, c.mix_expo_turn), c.turn_gain)
  ELSE MixArcade(fwd, turn, c.turn_gain)
=============================================================================
