--------------------------- MODULE ControlMathLemmas ---------------------------
(***************************************************************************)
(* What the arithmetic of ControlMath returns, for every Unit.             *)
(***************************************************************************)
EXTENDS ControlMath, TLAPS

\* Clamp returns a value between its bounds.
LEMMA ClampRange ==
  ASSUME NEW v \in Int, NEW lo \in Int, NEW hi \in Int, lo <= hi
  PROVE  Clamp(v, lo, hi) \in lo..hi
  BY DEF Clamp

\* A truncated quotient is an integer.
LEMMA QuotientInt ==
  ASSUME NEW a \in Int, NEW b \in Nat \ {0}
  PROVE  Quotient(a, b) \in Int
  BY DEF Quotient

\* The deadzone (control_math.hpp:18) returns an integer.
LEMMA DeadzoneInt ==
  ASSUME NEW v \in Int, NEW dz \in 0..(Unit - 1)
  PROVE  Deadzone(v, dz) \in Int
  <1>1. Unit \in Nat \ {0} /\ Unit - dz \in Nat \ {0}
    BY UnitAssumption
  <1> DEFINE a == (IF v > 0 THEN v - dz ELSE v + dz) * Unit
  <1>2. a \in Int
    BY <1>1
  <1>3. Quotient(a, Unit - dz) \in Int
    BY <1>1, <1>2, QuotientInt
  <1> QED
    BY <1>3 DEF Deadzone

\* The expo curve (mixer.hpp:33) returns an integer.
LEMMA ExpoInt ==
  ASSUME NEW x \in Int, NEW strength \in Int
  PROVE  Expo(x, strength) \in Int
  <1> DEFINE e == Clamp(strength, 0, Unit)
             a == (Unit - e) * x * Unit * Unit + e * x * x * x
  <1>1. Unit \in Nat \ {0} /\ Unit * Unit * Unit \in Nat \ {0}
    <2>1. Unit \in Nat \ {0}
      BY UnitAssumption
    <2>2. Unit * Unit \in Nat \ {0}
      BY <2>1
    <2> QED
      BY <2>1, <2>2
  <1>2. e \in Int
    BY <1>1, ClampRange
  <1>3. a \in Int
    BY <1>1, <1>2
  <1>4. Quotient(a, Unit * Unit * Unit) \in Int
    BY <1>1, <1>3, QuotientInt
  <1> QED
    BY <1>4 DEF Expo

\* The arcade mix (control_math.hpp:62) gives each wheel a command in range.
LEMMA MixArcadeRange ==
  ASSUME NEW fwd \in Int, NEW turn \in Int, NEW gain \in Int
  PROVE  MixArcade(fwd, turn, gain) \in [{"l", "r"} -> Commands]
  <1> DEFINE t == Quotient(turn * gain, Unit)
  <1>1. Unit \in Nat \ {0} /\ turn * gain \in Int
    BY UnitAssumption
  <1>2. t \in Int
    BY <1>1, QuotientInt
  <1> HIDE DEF t
  <1>3. ASSUME NEW w \in {"l", "r"}
        PROVE  Clamp(IF w = "l" THEN fwd + t ELSE fwd - t, -Unit, Unit) \in Commands
    <2> DEFINE v == IF w = "l" THEN fwd + t ELSE fwd - t
    <2>1. v \in Int /\ -Unit \in Int /\ Unit \in Int /\ -Unit <= Unit
      BY <1>1, <1>2
    <2> HIDE DEF v
    <2>2. Clamp(v, -Unit, Unit) \in -Unit..Unit
      BY <2>1, ClampRange
    <2> QED
      BY <2>2 DEF Commands, v
  <1> QED
    BY <1>3 DEF MixArcade, t

\* One leg of the ramp stops between where it is and where it goes.
LEMMA LegBetween ==
  ASSUME NEW target \in Int, NEW current \in Int, NEW step \in Nat
  PROVE  /\ Leg(target, current, step) \in Int
         /\ target <= current => /\ target <= Leg(target, current, step)
                                 /\ Leg(target, current, step) <= current
         /\ current <= target => /\ current <= Leg(target, current, step)
                                 /\ Leg(target, current, step) <= target
         /\ step > 0 => /\ Leg(target, current, step) - current <= step
                        /\ current - Leg(target, current, step) <= step
  BY DEF Leg, Slew, Clamp

\* A leg between two commands ends on a command.
LEMMA LegRange ==
  ASSUME NEW target \in Commands, NEW current \in Commands, NEW step \in Nat
  PROVE  Leg(target, current, step) \in Commands
  <1>1. target \in Int /\ current \in Int /\ Unit \in Nat
    BY UnitAssumption DEF Commands
  <1> DEFINE end == Leg(target, current, step)
  <1>2. /\ end \in Int
        /\ target <= current => target <= end /\ end <= current
        /\ current <= target => current <= end /\ end <= target
    BY <1>1, LegBetween
  <1> HIDE DEF end
  <1>3. end \in Commands
    BY <1>1, <1>2 DEF Commands
  <1> QED
    BY <1>3 DEF end

\* The ramp (control_math.hpp:45) keeps a command in range.
LEMMA RampRange ==
  ASSUME NEW target \in Commands, NEW current \in Commands, NEW up \in Nat, NEW dn \in Nat
  PROVE  Ramp(target, current, up, dn) \in Commands
  <1> DEFINE reversing == target * current < 0
             zeroed    == Leg(0, current, dn)
             from      == IF reversing THEN 0 ELSE current
             step      == IF Abs(target) > Abs(from) THEN up ELSE dn
  <1>1. 0 \in Commands
    BY UnitAssumption DEF Commands
  <1>2. zeroed \in Commands
    BY <1>1, LegRange
  <1>3. from \in Commands /\ step \in Nat
    BY <1>1
  <1> HIDE DEF reversing, zeroed, from, step
  <1>4. Leg(target, from, step) \in Commands
    BY <1>3, LegRange
  <1> QED
    BY <1>2, <1>4 DEF Ramp, reversing, zeroed, from, step

\* The sign of a product of two integers.
LEMMA NegativeProduct ==
  ASSUME NEW a \in Int, NEW b \in Int
  PROVE  a * b < 0 <=> (a < 0 /\ b > 0) \/ (a > 0 /\ b < 0)
  OBVIOUS

\* One tick of the ramp gains at most up and sheds at most dn; through zero it
\* does both in sequence (control_math.hpp:45-59).
LEMMA RampStepBound ==
  ASSUME NEW target \in Commands, NEW current \in Commands, NEW up \in Nat, NEW dn \in Nat
  PROVE  LET next == Ramp(target, current, up, dn)
         IN  /\ up > 0 => IF current * next < 0 THEN Abs(next) <= up
                          ELSE Abs(next) - Abs(current) <= up
             /\ dn > 0 => IF current * next < 0 THEN Abs(current) <= dn
                          ELSE Abs(current) - Abs(next) <= dn
  <1> DEFINE next == Ramp(target, current, up, dn)
  <1>1. next \in Int /\ target \in Int /\ current \in Int
    BY RampRange, UnitAssumption DEF Commands
  <1>2. /\ target * current < 0 <=> (target < 0 /\ current > 0) \/ (target > 0 /\ current < 0)
        /\ current * next < 0 <=> (current < 0 /\ next > 0) \/ (current > 0 /\ next < 0)
    BY <1>1, NegativeProduct
  <1>3. CASE target * current < 0
    BY <1>1, <1>2, <1>3, SMTT(30) DEF Ramp, Leg, Slew, Clamp, Abs
  <1>4. CASE ~(target * current < 0)
    BY <1>1, <1>2, <1>4, SMTT(30) DEF Ramp, Leg, Slew, Clamp, Abs
  <1> QED
    BY <1>3, <1>4
=============================================================================
