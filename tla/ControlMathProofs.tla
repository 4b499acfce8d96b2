-------------------------- MODULE ControlMathProofs --------------------------
(***************************************************************************)
(* The reference definitions of MCControlMath hold for every scale, every  *)
(* deadzone, rate, strength and gain.                                      *)
(*                                                                         *)
(* The provers know little of products and quotients: the first lemmas say *)
(* where a quotient lies, and the ramp and its reference are retold by     *)
(* signs alone.  The operators are odd, so one side of the stick tells all.*)
(***************************************************************************)
EXTENDS MCControlMath, ControlMathLemmas

\* A call that has returned gave what its operator gives.
CallInv ==
  /\ arg \in RampArgs \cup MixArgs \cup ShapeArgs
  /\ res # NoResult =>
       /\ arg.fn = "ramp" =>
            res = [done |-> TRUE, cmd |-> Ramp(arg.target, arg.current, arg.up, arg.dn)]
       /\ arg.fn = "mix" =>
            res = [done |-> TRUE, wheels |-> MixArcade(arg.fwd, arg.turn, arg.gain)]
       /\ arg.fn = "shape" =>
            res = [done |-> TRUE, dz |-> Deadzone(arg.v, arg.dz), expo |-> Expo(arg.v, arg.e)]

\* Nothing changes a call once it is made, and its result is what its operator gives.
LEMMA CallHolds == Spec => []CallInv
<1>1. Init => CallInv
  BY DEF Init, CallInv
<1>2. CallInv /\ [Next]_vars => CallInv'
  <2> SUFFICES ASSUME CallInv, [Next]_vars PROVE CallInv'
    OBVIOUS
  <2>1. CASE CallRamp
    BY <2>1 DEF CallRamp, CallInv
  <2>2. CASE CallMix
    BY <2>2 DEF CallMix, CallInv
  <2>3. CASE CallShape
    BY <2>3 DEF CallShape, CallInv
  <2>4. CASE UNCHANGED vars
    BY <2>4 DEF vars, CallInv
  <2> QED
    BY <2>1, <2>2, <2>3, <2>4 DEF Next
<1> QED
  BY <1>1, <1>2, PTL DEF Spec

-----------------------------------------------------------------------------
(* Products and quotients *)

\* A product grows with one factor when the other is not negative.
LEMMA ProductMono ==
  ASSUME NEW a \in Int, NEW b \in Int, NEW c \in Nat, a <= b
  PROVE  a * c <= b * c
  OBVIOUS

\* A truncated quotient is odd.
LEMMA QuotientOdd ==
  ASSUME NEW a \in Int, NEW b \in Nat \ {0}
  PROVE  Quotient(-a, b) = -Quotient(a, b)
<1>1. a = 0 => a \div b = 0
  OBVIOUS
<1> QED
  BY <1>1 DEF Quotient

\* The floor of a quotient lies where its product does.
LEMMA DivBounds ==
  ASSUME NEW a \in Nat, NEW b \in Nat \ {0}
  PROVE  /\ a \div b \in Nat
         /\ b * (a \div b) <= a /\ a < b * (a \div b) + b
  OBVIOUS

\* Between two multiples of the divisor, the quotient lies between their factors.
LEMMA DivLeast ==
  ASSUME NEW a \in Nat, NEW b \in Nat \ {0}, NEW k \in Nat
  PROVE  /\ k * b <= a => k <= a \div b
         /\ a <= k * b => a \div b <= k
<1> DEFINE q == a \div b
<1>1. q \in Nat /\ b * q <= a /\ a < b * q + b
  BY DivBounds
<1> HIDE DEF q
<1>2. ASSUME k * b <= a, q < k PROVE FALSE
  <2>1. (q + 1) * b <= k * b
    BY <1>1, <1>2, ProductMono
  <2>2. (q + 1) * b = b * q + b
    BY <1>1
  <2> QED
    BY <1>1, <1>2, <2>1, <2>2
<1>3. ASSUME a <= k * b, k < q PROVE FALSE
  <2>1. (k + 1) * b <= q * b
    BY <1>1, <1>3, ProductMono
  <2>2. (k + 1) * b = k * b + b /\ q * b = b * q
    BY <1>1
  <2> QED
    BY <1>1, <1>3, <2>1, <2>2
<1>4. k * b <= a => k <= q
  BY <1>1, <1>2
<1>5. a <= k * b => q <= k
  BY <1>1, <1>3
<1> QED
  BY <1>4, <1>5 DEF q

\* A truncated quotient grows with its numerator.
LEMMA QuotientMono ==
  ASSUME NEW a \in Int, NEW c \in Int, NEW b \in Nat \ {0}, a <= c
  PROVE  Quotient(a, b) <= Quotient(c, b)
<1>1. ASSUME NEW x \in Nat, NEW y \in Nat, x <= y PROVE x \div b <= y \div b
  <2>1. x \div b \in Nat /\ (x \div b) * b <= x
    BY DivBounds
  <2>2. (x \div b) * b <= y
    BY <1>1, <2>1
  <2> QED
    BY <2>1, <2>2, DivLeast
<1>2. \A x \in Nat : x \div b \in Nat
  BY DivBounds
<1>3. CASE 0 <= a
  BY <1>1, <1>3 DEF Quotient
<1>4. CASE a < 0 /\ 0 <= c
  <2>1. -a \in Nat /\ c \in Nat
    BY <1>4
  <2>2. (-a) \div b \in Nat /\ c \div b \in Nat
    BY <1>2, <2>1
  <2> QED
    BY <1>4, <2>2 DEF Quotient
<1>5. CASE c < 0
  <2>1. -a \in Nat /\ -c \in Nat /\ -c <= -a
    BY <1>5
  <2>2. (-c) \div b <= (-a) \div b /\ (-c) \div b \in Nat /\ (-a) \div b \in Nat
    BY <1>1, <1>2, <2>1
  <2> QED
    BY <1>5, <2>2 DEF Quotient
<1> QED
  BY <1>3, <1>4, <1>5

\* Where it lies between two multiples.
LEMMA QuotientBounds ==
  ASSUME NEW a \in Nat, NEW b \in Nat \ {0}, NEW k \in Nat
  PROVE  /\ k * b <= a => k <= Quotient(a, b)
         /\ a <= k * b => Quotient(a, b) <= k
         /\ a = k * b => Quotient(a, b) = k
         /\ Quotient(a, b) \in Nat
  BY DivLeast, DivBounds DEF Quotient

-----------------------------------------------------------------------------
(* The mix *)

\* One mix: the trim is odd in the turn, and saturation keeps the order of the wheels.
LEMMA MixLaws ==
  ASSUME NEW fwd \in Commands, NEW turn \in Commands, NEW gain \in Nat
  PROVE  LET l == MixArcade(fwd, turn, gain)["l"]
             r == MixArcade(fwd, turn, gain)["r"]
         IN  /\ {l, r} \subseteq Commands
             /\ turn >= 0 => l >= r
             /\ MixArcade(fwd, -turn, gain)["l"] = r /\ MixArcade(fwd, -turn, gain)["r"] = l
             /\ Abs(l) < Unit /\ Abs(r) < Unit => l + r = 2 * fwd
<1> DEFINE t == Quotient(turn * gain, Unit)
           s == Quotient((-turn) * gain, Unit)
           l == MixArcade(fwd, turn, gain)["l"]
           r == MixArcade(fwd, turn, gain)["r"]
<1>1. Unit \in Nat \ {0} /\ fwd \in Int /\ turn \in Int /\ turn * gain \in Int
      /\ (-turn) * gain = -(turn * gain)
  BY UnitAssumption DEF Commands
<1>2. t \in Int /\ s = -t
  BY <1>1, QuotientInt, QuotientOdd
<1>3. turn >= 0 => t >= 0
  <2> SUFFICES ASSUME turn >= 0 PROVE t >= 0
    OBVIOUS
  <2>1. turn * gain \in Nat
    BY <1>1
  <2> QED
    BY <1>1, <2>1, QuotientBounds
<1>4. /\ l = Clamp(fwd + t, -Unit, Unit) /\ r = Clamp(fwd - t, -Unit, Unit)
      /\ MixArcade(fwd, -turn, gain)["l"] = Clamp(fwd + s, -Unit, Unit)
      /\ MixArcade(fwd, -turn, gain)["r"] = Clamp(fwd - s, -Unit, Unit)
  BY DEF MixArcade
<1> HIDE DEF t, s, l, r
<1>5. fwd + s = fwd - t /\ fwd - s = fwd + t
  BY <1>1, <1>2
<1>6. {l, r} \subseteq Commands
  BY <1>1, <1>2, <1>4, ClampRange DEF Commands
<1>7. turn >= 0 => l >= r
  BY <1>1, <1>2, <1>3, <1>4 DEF Clamp
<1>8. Abs(l) < Unit /\ Abs(r) < Unit => l + r = 2 * fwd
  BY <1>1, <1>2, <1>4 DEF Clamp, Abs
<1> QED
  BY <1>4, <1>5, <1>6, <1>7, <1>8 DEF l, r

-----------------------------------------------------------------------------
(* The ramp *)

\* The sign of a product is told by the signs of its factors.
LEMMA PositiveProduct ==
  ASSUME NEW a \in Int, NEW b \in Int
  PROVE  a * b > 0 <=> (a > 0 /\ b > 0) \/ (a < 0 /\ b < 0)
  OBVIOUS

\* What a reachable point is, without products.
Within(p, t, c, up, dn) ==
  LET same == (p > 0 /\ c > 0) \/ (p < 0 /\ c < 0)
      fall == IF same THEN IF Abs(p) < Abs(c) THEN Abs(c) - Abs(p) ELSE 0 ELSE Abs(c)
      rise == IF same THEN IF Abs(p) > Abs(c) THEN Abs(p) - Abs(c) ELSE 0 ELSE Abs(p)
  IN  /\ (c <= p /\ p <= t) \/ (t <= p /\ p <= c)
      /\ dn > 0 => fall <= dn
      /\ up > 0 => rise <= up

\* A point of the reference ramp, told without a product.
LEMMA ReachableFacts ==
  ASSUME NEW t \in Int, NEW c \in Int, NEW up \in Nat, NEW dn \in Nat, NEW p \in Commands
  PROVE  p \in Reachable(t, c, up, dn) <=> Within(p, t, c, up, dn)
<1>1. p \in Int
  BY UnitAssumption DEF Commands
<1>2. p * c > 0 <=> (p > 0 /\ c > 0) \/ (p < 0 /\ c < 0)
  BY <1>1, PositiveProduct
<1> QED
  BY <1>2 DEF Reachable, Within

\* The same for the ramp.
Stepped(t, c, up, dn) ==
  LET reversing == (t < 0 /\ c > 0) \/ (t > 0 /\ c < 0)
      zeroed    == Leg(0, c, dn)
      from      == IF reversing THEN 0 ELSE c
  IN  IF reversing /\ zeroed # 0 THEN zeroed
      ELSE Leg(t, from, IF Abs(t) > Abs(from) THEN up ELSE dn)

\* The ramp, told without a product.
LEMMA RampStepped ==
  ASSUME NEW t \in Int, NEW c \in Int, NEW up \in Nat, NEW dn \in Nat
  PROVE  Ramp(t, c, up, dn) = Stepped(t, c, up, dn)
<1>1. t * c < 0 <=> (t < 0 /\ c > 0) \/ (t > 0 /\ c < 0)
  BY NegativeProduct
<1> QED
  BY <1>1 DEF Ramp, Stepped

\* The ramp stays on the way and within its two rates.
LEMMA SteppedWithin ==
  ASSUME NEW t \in Int, NEW c \in Int, NEW up \in Nat, NEW dn \in Nat
  PROVE  Within(Stepped(t, c, up, dn), t, c, up, dn)
<1>1. CASE (t < 0 /\ c > 0) \/ (t > 0 /\ c < 0)
  BY <1>1, SMTT(30) DEF Within, Stepped, Leg, Slew, Clamp, Abs
<1>2. CASE ~((t < 0 /\ c > 0) \/ (t > 0 /\ c < 0))
  BY <1>2, SMTT(30) DEF Within, Stepped, Leg, Slew, Clamp, Abs
<1> QED
  BY <1>1, <1>2

\* No other point on the way, within the two rates, is nearer the target.
LEMMA SteppedNearest ==
  ASSUME NEW t \in Int, NEW c \in Int, NEW up \in Nat, NEW dn \in Nat,
         NEW p \in Int, Within(p, t, c, up, dn)
  PROVE  Abs(t - Stepped(t, c, up, dn)) <= Abs(t - p)
<1>1. CASE (t < 0 /\ c > 0) \/ (t > 0 /\ c < 0)
  BY <1>1, SMTT(30) DEF Within, Stepped, Leg, Slew, Clamp, Abs
<1>2. CASE ~((t < 0 /\ c > 0) \/ (t > 0 /\ c < 0))
  BY <1>2, SMTT(30) DEF Within, Stepped, Leg, Slew, Clamp, Abs
<1> QED
  BY <1>1, <1>2

-----------------------------------------------------------------------------
(* The shaping of the stick *)

\* The deadzone, on one side: what is left of the stick is stretched.
LEMMA DeadzoneSide ==
  ASSUME NEW v \in 0..Unit, NEW dz \in 0..(Unit - 1)
  PROVE  /\ Deadzone(v, dz) \in 0..Unit
         /\ Deadzone(v, dz) = 0 <=> v <= dz
         /\ v = Unit => Deadzone(v, dz) = Unit
         /\ Deadzone(-v, dz) = -Deadzone(v, dz)
<1> DEFINE a == (v - dz) * Unit
           b == Unit - dz
<1>1. Unit \in Nat \ {0} /\ v \in Nat /\ dz \in Nat /\ b \in Nat \ {0} /\ v <= Unit
  BY UnitAssumption
<1>2. CASE v <= dz
  BY <1>1, <1>2 DEF Deadzone, Abs
<1>3. CASE v > dz
  <2>1. a \in Nat /\ a <= Unit * b /\ (v = Unit => a = Unit * b) /\ 1 * b <= a
    <3>1. v - dz \in Nat /\ 1 <= v - dz /\ v - dz <= b
      BY <1>1, <1>3
    <3>2. (v - dz) * Unit <= b * Unit /\ 1 * Unit <= (v - dz) * Unit
      BY <1>1, <3>1, ProductMono
    <3>3. b * Unit = Unit * b /\ 1 * b = b /\ b <= Unit /\ 1 * Unit = Unit
      BY <1>1
    <3> QED
      BY <1>1, <3>1, <3>2, <3>3
  <2>2. /\ Deadzone(v, dz) = Quotient(a, b)
        /\ Deadzone(-v, dz) = Quotient(-a, b)
    <3>1. ((-v) + dz) * Unit = -a
      BY <1>1
    <3> QED
      BY <1>1, <1>3, <3>1 DEF Deadzone, Abs
  <2> HIDE DEF a, b
  <2>3. Quotient(-a, b) = -Quotient(a, b)
    BY <1>1, <2>1, QuotientOdd
  <2>4. Quotient(a, b) \in Nat /\ 1 <= Quotient(a, b) /\ Quotient(a, b) <= Unit
        /\ (v = Unit => Quotient(a, b) = Unit)
    BY <1>1, <2>1, QuotientBounds
  <2> QED
    BY <1>1, <1>3, <2>2, <2>3, <2>4
<1> QED
  BY <1>1, <1>2, <1>3

\* On one side, more stick is never less command behind the deadzone.
LEMMA DeadzoneSideMono ==
  ASSUME NEW u \in 0..Unit, NEW v \in 0..Unit, NEW dz \in 0..(Unit - 1), u <= v
  PROVE  Deadzone(u, dz) <= Deadzone(v, dz)
<1>1. Unit \in Nat \ {0} /\ u \in Nat /\ v \in Nat /\ dz \in Nat /\ Unit - dz \in Nat \ {0}
  BY UnitAssumption
<1>2. CASE u <= dz
  <2>1. Deadzone(u, dz) = 0 /\ Deadzone(v, dz) \in 0..Unit
    BY <1>2, DeadzoneSide
  <2> QED
    BY <1>1, <2>1
<1>3. CASE u > dz
  <2>1. (u - dz) * Unit <= (v - dz) * Unit /\ (u - dz) * Unit \in Int /\ (v - dz) * Unit \in Int
    BY <1>1, ProductMono
  <2>2. Quotient((u - dz) * Unit, Unit - dz) <= Quotient((v - dz) * Unit, Unit - dz)
    BY <1>1, <2>1, QuotientMono
  <2> QED
    BY <1>1, <1>3, <2>2 DEF Deadzone, Abs
<1> QED
  BY <1>1, <1>2, <1>3

\* The expo, on one side.
LEMMA ExpoSide ==
  ASSUME NEW x \in 0..Unit, NEW strength \in Int
  PROVE  /\ Expo(x, strength) \in 0..x
         /\ x = Unit => Expo(x, strength) = Unit
         /\ Expo(-x, strength) = -Expo(x, strength)
<1> DEFINE e == Clamp(strength, 0, Unit)
           f == Unit - e
           a == f * x * Unit * Unit + e * x * x * x
           b == Unit * Unit * Unit
<1>1. Unit \in Nat \ {0} /\ x \in Nat /\ x <= Unit /\ e \in 0..Unit
  BY UnitAssumption, ClampRange
<1>2. e \in Nat /\ f \in Nat /\ e + f = Unit
  BY <1>1
<1> HIDE DEF e, f
<1>3. b \in Nat \ {0}
  <2>1. Unit * Unit \in Nat \ {0}
    BY <1>1
  <2> QED
    BY <1>1, <2>1
<1>4. a \in Nat
  <2>1. f * x \in Nat /\ e * x \in Nat
    BY <1>1, <1>2
  <2>2. f * x * Unit \in Nat /\ e * x * x \in Nat
    BY <1>1, <2>1
  <2>3. f * x * Unit * Unit \in Nat /\ e * x * x * x \in Nat
    BY <1>1, <2>2
  <2> QED
    BY <2>3
<1>5. a <= x * b /\ (x = Unit => a = x * b)
  <2>1. x * x <= Unit * Unit /\ x * x \in Nat /\ Unit * Unit \in Nat
    <3>1. x * x <= Unit * x /\ x * Unit <= Unit * Unit
      BY <1>1, ProductMono
    <3> QED
      BY <1>1, <3>1
  <2>2. e * x \in Nat
    BY <1>1, <1>2
  <2>3. (x * x) * (e * x) <= (Unit * Unit) * (e * x)
    BY <2>1, <2>2, ProductMono
  <2>4. (x * x) * (e * x) = e * x * x * x
    BY <1>1, <1>2
  <2>5. (Unit * Unit) * (e * x) + f * x * Unit * Unit = x * b
    <3>1. (Unit * Unit) * (e * x) = (e * x) * (Unit * Unit) /\ f * x * Unit * Unit = (f * x) * (Unit * Unit)
      BY <1>1, <1>2
    <3>2. e * x + f * x = Unit * x
      <4>1. (e + f) * x = e * x + f * x
        BY <1>1, <1>2
      <4> QED
        BY <1>2, <4>1
    <3>3. (e * x) * (Unit * Unit) + (f * x) * (Unit * Unit) = (e * x + f * x) * (Unit * Unit)
      BY <1>1, <1>2
    <3>4. (Unit * x) * (Unit * Unit) = x * b
      BY <1>1
    <3> QED
      BY <3>1, <3>2, <3>3, <3>4
  <2>6. e * x * x * x \in Int /\ f * x * Unit * Unit \in Int /\ (Unit * Unit) * (e * x) \in Int
    BY <1>1, <1>2
  <2>7. x = Unit => (x * x) * (e * x) = (Unit * Unit) * (e * x)
    OBVIOUS
  <2> QED
    BY <2>3, <2>4, <2>5, <2>6, <2>7
<1>6. /\ Expo(x, strength) = Quotient(a, b)
      /\ Expo(-x, strength) = Quotient(-a, b)
  <2>1. f * (-x) * Unit * Unit + e * (-x) * (-x) * (-x) = -a
    <3>1. f * (-x) = -(f * x) /\ e * (-x) = -(e * x)
      BY <1>1, <1>2
    <3>2. (-(f * x)) * Unit * Unit = -(f * x * Unit * Unit)
      BY <1>1, <1>2
    <3>3. (-(e * x)) * (-x) * (-x) = -(e * x * x * x)
      BY <1>1, <1>2
    <3>4. f * x * Unit * Unit \in Int /\ e * x * x * x \in Int
      BY <1>1, <1>2
    <3> QED
      BY <3>1, <3>2, <3>3, <3>4
  <2> QED
    BY <2>1 DEF Expo, e, f
<1> HIDE DEF a, b
<1>7. Quotient(-a, b) = -Quotient(a, b)
  BY <1>3, <1>4, QuotientOdd
<1>8. Quotient(a, b) \in Nat /\ Quotient(a, b) <= x /\ (x = Unit => Quotient(a, b) = x)
  BY <1>1, <1>3, <1>4, <1>5, QuotientBounds
<1> QED
  BY <1>1, <1>6, <1>7, <1>8

\* Nor behind the expo: both terms of the cubic grow with the stick.
LEMMA ExpoSideMono ==
  ASSUME NEW x \in 0..Unit, NEW y \in 0..Unit, NEW strength \in Int, x <= y
  PROVE  Expo(x, strength) <= Expo(y, strength)
<1> DEFINE e == Clamp(strength, 0, Unit)
           f == Unit - e
           num(z) == f * z * Unit * Unit + e * z * z * z
           b == Unit * Unit * Unit
<1>1. Unit \in Nat \ {0} /\ x \in Nat /\ y \in Nat /\ e \in 0..Unit
  BY UnitAssumption, ClampRange
<1>2. e \in Nat /\ f \in Nat
  BY <1>1
<1> HIDE DEF e, f
<1>3. b \in Nat \ {0}
  <2>1. Unit * Unit \in Nat \ {0}
    BY <1>1
  <2> QED
    BY <1>1, <2>1
<1>4. num(x) <= num(y)
  <2>1. f * x * Unit * Unit <= f * y * Unit * Unit
    <3>1. x * (f * Unit * Unit) <= y * (f * Unit * Unit)
      <4>1. f * Unit * Unit \in Nat
        <5>1. f * Unit \in Nat
          BY <1>1, <1>2
        <5> QED
          BY <1>1, <5>1
      <4> QED
        BY <1>1, <4>1, ProductMono
    <3> QED
      BY <1>1, <1>2, <3>1
  <2>2. e * x * x * x <= e * y * y * y
    <3>1. e * x \in Nat /\ e * y \in Nat /\ e * x <= e * y
      <4>1. x * e <= y * e
        BY <1>1, <1>2, ProductMono
      <4> QED
        BY <1>1, <1>2, <4>1
    <3>2. e * x * x \in Nat /\ e * y * y \in Nat /\ e * x * x <= e * y * y
      <4>1. (e * x) * x <= (e * y) * x
        BY <1>1, <3>1, ProductMono
      <4>2. x * (e * y) <= y * (e * y)
        BY <1>1, <3>1, ProductMono
      <4>3. x * (e * y) = (e * y) * x /\ y * (e * y) = (e * y) * y
        BY <1>1, <3>1
      <4>4. (e * x) * x \in Nat /\ (e * y) * x \in Nat /\ (e * y) * y \in Nat
        BY <1>1, <3>1
      <4> QED
        BY <4>1, <4>2, <4>3, <4>4
    <3> DEFINE p == e * x * x
               q == e * y * y
    <3> HIDE DEF p, q
    <3>3. p * x <= q * x
      BY <1>1, <3>2, ProductMono DEF p, q
    <3>4. x * q <= y * q
      BY <1>1, <3>2, ProductMono DEF q
    <3>5. x * q = q * x /\ y * q = q * y /\ p * x \in Nat /\ q * x \in Nat /\ q * y \in Nat
      BY <1>1, <3>2 DEF p, q
    <3>6. p * x <= q * y
      BY <3>3, <3>4, <3>5
    <3> QED
      BY <3>6 DEF p, q
  <2>3. /\ f * x * Unit * Unit \in Int /\ f * y * Unit * Unit \in Int
        /\ e * x * x * x \in Int /\ e * y * y * y \in Int
    BY <1>1, <1>2
  <2> QED
    BY <2>1, <2>2, <2>3
<1>5. num(x) \in Int /\ num(y) \in Int
  BY <1>1, <1>2
<1>6. Expo(x, strength) = Quotient(num(x), b) /\ Expo(y, strength) = Quotient(num(y), b)
  BY DEF Expo, e, f
<1> HIDE DEF num, b
<1> QED
  BY <1>3, <1>4, <1>5, <1>6, QuotientMono

\* On both sides: each is odd, so the sides tell all.
LEMMA ShapeLaws ==
  ASSUME NEW v \in Commands, NEW dz \in 0..(Unit - 1), NEW e \in Int
  PROVE  /\ {Deadzone(v, dz), Expo(v, e)} \subseteq Commands
         /\ (Deadzone(v, dz) = 0) = (Abs(v) <= dz)
         /\ Deadzone(-v, dz) = -Deadzone(v, dz)
         /\ Abs(v) = Unit => Abs(Deadzone(v, dz)) = Unit /\ Expo(v, e) = v
         /\ Abs(Expo(v, e)) <= Abs(v)
         /\ Expo(-v, e) = -Expo(v, e)
<1> DEFINE x == Abs(v)
<1>1. Unit \in Nat \ {0} /\ v \in Int /\ x \in 0..Unit /\ (v = x \/ v = -x) /\ dz \in Nat
      /\ (v = x => -v = -x) /\ (v = -x => -v = x)
  BY UnitAssumption DEF Commands, Abs
<1> HIDE DEF x
<1>2. /\ Deadzone(x, dz) \in 0..Unit /\ (Deadzone(x, dz) = 0 <=> x <= dz)
      /\ x = Unit => Deadzone(x, dz) = Unit
      /\ Deadzone(-x, dz) = -Deadzone(x, dz)
  BY <1>1, DeadzoneSide
<1>3. /\ Expo(x, e) \in 0..x /\ (x = Unit => Expo(x, e) = Unit)
      /\ Expo(-x, e) = -Expo(x, e)
  BY <1>1, ExpoSide
<1> DEFINE D == Deadzone(x, dz)
           E == Expo(x, e)
<1>4. /\ D \in 0..Unit /\ (D = 0 <=> x <= dz) /\ (x = Unit => D = Unit)
      /\ E \in 0..x /\ (x = Unit => E = Unit)
  BY <1>2, <1>3
<1>5. CASE v = x
  <2>1. /\ Deadzone(v, dz) = D /\ Deadzone(-v, dz) = -D
        /\ Expo(v, e) = E /\ Expo(-v, e) = -E
    BY <1>1, <1>2, <1>3, <1>5
  <2> HIDE DEF D, E
  <2> QED
    BY <1>1, <1>4, <1>5, <2>1 DEF Commands, Abs
<1>6. CASE v = -x
  <2>1. /\ Deadzone(v, dz) = -D /\ Deadzone(-v, dz) = D
        /\ Expo(v, e) = -E /\ Expo(-v, e) = E
    BY <1>1, <1>2, <1>3, <1>6
  <2> HIDE DEF D, E
  <2> QED
    BY <1>1, <1>4, <1>6, <2>1 DEF Commands, Abs
<1> QED
  BY <1>1, <1>5, <1>6

\* On both sides: across zero the order is that of the signs.
LEMMA ShapeMono ==
  ASSUME NEW u \in Commands, NEW v \in Commands, NEW dz \in 0..(Unit - 1), NEW e \in Int, u <= v
  PROVE  Deadzone(u, dz) <= Deadzone(v, dz) /\ Expo(u, e) <= Expo(v, e)
<1>1. Unit \in Nat \ {0} /\ u \in Int /\ v \in Int /\ u >= -Unit /\ u <= Unit /\ v >= -Unit /\ v <= Unit
  BY UnitAssumption DEF Commands
<1>2. CASE 0 <= u
  <2>1. u \in 0..Unit /\ v \in 0..Unit
    BY <1>1, <1>2
  <2> QED
    BY <2>1, DeadzoneSideMono, ExpoSideMono
<1>3. CASE v <= 0
  <2>1. -u \in 0..Unit /\ -v \in 0..Unit /\ -v <= -u
    BY <1>1, <1>3
  <2>2. Deadzone(-v, dz) <= Deadzone(-u, dz) /\ Expo(-v, e) <= Expo(-u, e)
    BY <2>1, DeadzoneSideMono, ExpoSideMono
  <2>3. /\ Deadzone(-u, dz) = -Deadzone(u, dz) /\ Expo(-u, e) = -Expo(u, e)
        /\ Deadzone(-v, dz) = -Deadzone(v, dz) /\ Expo(-v, e) = -Expo(v, e)
    BY ShapeLaws
  <2>4. Deadzone(u, dz) \in Int /\ Deadzone(v, dz) \in Int /\ Expo(u, e) \in Int /\ Expo(v, e) \in Int
    BY <1>1, DeadzoneInt, ExpoInt
  <2> QED
    BY <2>2, <2>3, <2>4
<1>4. CASE u < 0 /\ 0 < v
  <2>1. -u \in 0..Unit /\ v \in 0..Unit
    BY <1>1, <1>4
  <2>2. /\ Deadzone(-u, dz) \in 0..Unit /\ Expo(-u, e) \in 0..(-u)
        /\ Deadzone(v, dz) \in 0..Unit /\ Expo(v, e) \in 0..v
    BY <2>1, DeadzoneSide, ExpoSide
  <2>3. Deadzone(-u, dz) = -Deadzone(u, dz) /\ Expo(-u, e) = -Expo(u, e)
    BY ShapeLaws
  <2>4. Deadzone(u, dz) \in Int /\ Expo(u, e) \in Int
    BY <1>1, DeadzoneInt, ExpoInt
  <2> QED
    BY <1>1, <2>2, <2>3, <2>4
<1> QED
  BY <1>1, <1>2, <1>3, <1>4

-----------------------------------------------------------------------------
\* The ramp makes all the progress that its two rates allow, and no more, from every
\* command to every other (control_math.hpp:45).
THEOREM RampGreedy == Spec => []RampIsGreedyPath
<1>1. CallInv => RampIsGreedyPath
  <2> SUFFICES ASSUME CallInv, res # NoResult, arg.fn = "ramp"
               PROVE  LET ok == Reachable(arg.target, arg.current, arg.up, arg.dn)
                      IN  /\ res.cmd \in ok
                          /\ \A p \in ok : Abs(arg.target - res.cmd) <= Abs(arg.target - p)
    BY DEF RampIsGreedyPath, Returned
  <2> DEFINE t == arg.target
             c == arg.current
             up == arg.up
             dn == arg.dn
  <2>1. t \in Commands /\ c \in Commands /\ up \in Nat /\ dn \in Nat
    BY GridAssumption DEF CallInv, RampArgs, MixArgs, ShapeArgs
  <2>2. t \in Int /\ c \in Int /\ \A p \in Commands : p \in Int
    BY <2>1, UnitAssumption DEF Commands
  <2>3. res.cmd = Ramp(t, c, up, dn)
    BY DEF CallInv
  <2> HIDE DEF t, c, up, dn
  <2>4. res.cmd \in Commands /\ res.cmd = Stepped(t, c, up, dn)
    BY <2>1, <2>2, <2>3, RampRange, RampStepped
  <2>5. res.cmd \in Reachable(t, c, up, dn)
    BY <2>1, <2>2, <2>4, SteppedWithin, ReachableFacts
  <2>6. ASSUME NEW p \in Reachable(t, c, up, dn) PROVE Abs(t - res.cmd) <= Abs(t - p)
    <3>1. p \in Commands
      BY DEF Reachable
    <3> QED
      BY <2>1, <2>2, <2>4, <2>6, <3>1, SteppedNearest, ReachableFacts
  <2> QED
    BY <2>5, <2>6 DEF t, c, up, dn
<1> QED
  BY <1>1, CallHolds, PTL

\* The kart turns toward the stick side, a mirrored stick gives the mirrored wheels, and
\* while nothing saturates their mean is the forward command (control_math.hpp:62).
THEOREM MixSteers == Spec => []MixSteersToStick
<1>1. CallInv => MixSteersToStick
  <2> SUFFICES ASSUME CallInv, res # NoResult, arg.fn = "mix" PROVE MixSteersToStick
    BY DEF MixSteersToStick, Returned
  <2>1. arg.fwd \in Commands /\ arg.turn \in Commands /\ arg.gain \in Nat
    BY GridAssumption DEF CallInv, RampArgs, MixArgs, ShapeArgs
  <2>2. res.wheels = MixArcade(arg.fwd, arg.turn, arg.gain)
    BY DEF CallInv
  <2> QED
    BY <2>1, <2>2, MixLaws DEF MixSteersToStick
<1> QED
  BY <1>1, CallHolds, PTL

\* What the stick asks keeps its sign and its order and reaches the stops, through the
\* deadzone and through the expo (control_math.hpp:18, mixer.hpp:31-37).
THEOREM ShapingHolds == Spec => []ShapingKeepsRange
<1>1. CallInv => ShapingKeepsRange
  <2> SUFFICES ASSUME CallInv, res # NoResult, arg.fn = "shape" PROVE ShapingKeepsRange
    BY DEF ShapingKeepsRange, Returned
  <2>1. arg.v \in Commands /\ arg.dz \in 0..(Unit - 1) /\ arg.e \in Int
    BY GridAssumption DEF CallInv, RampArgs, MixArgs, ShapeArgs
  <2>2. res.dz = Deadzone(arg.v, arg.dz) /\ res.expo = Expo(arg.v, arg.e)
    BY DEF CallInv
  <2> QED
    BY <2>1, <2>2, ShapeLaws, ShapeMono DEF ShapingKeepsRange
<1> QED
  BY <1>1, CallHolds, PTL
==============================================================================
