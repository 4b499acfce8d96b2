---------------------------- MODULE MCControlMath ----------------------------
(***************************************************************************)
(* Evaluates the operators of ControlMath once over a grid of inputs and   *)
(* compares them with reference definitions written another way.  A state  *)
(* is one call: its arguments, then its results.                           *)
(***************************************************************************)
EXTENDS ControlMath, FiniteSets

CONSTANT Deadzones    \* the deadzones of the grid, all below Unit
CONSTANT Rates        \* the ramp steps of the grid, 0 = off
CONSTANT Strengths    \* expo strengths
CONSTANT Gains        \* turn gains

\* A deadzone leaves some stick (config_params.cpp:24 allows up to 0.30), rates and gains
\* are not negative; a strength may be anything, expo clamps it.
ASSUME GridAssumption ==
  /\ Deadzones \subseteq 0..(Unit - 1) /\ Rates \subseteq Nat
  /\ Strengths \subseteq Int /\ Gains \subseteq Nat

VARIABLES arg, res

vars == <<arg, res>>

\* Strengths on both sides of the legal range: expo clamps them.
MCStrengths == {-4, 0, 3, 6, 12}

NoResult == [done |-> FALSE]

RampArgs  == [fn : {"ramp"}, target : Commands, current : Commands, up : Rates, dn : Rates]
MixArgs   == [fn : {"mix"}, fwd : Commands, turn : Commands, gain : Gains]
ShapeArgs == [fn : {"shape"}, v : Commands, dz : Deadzones, e : Strengths]

Init == arg \in RampArgs \cup MixArgs \cup ShapeArgs /\ res = NoResult

CallRamp ==
  /\ arg.fn = "ramp"
  /\ res = NoResult
  /\ res' = [done |-> TRUE, cmd |-> Ramp(arg.target, arg.current, arg.up, arg.dn)]
  /\ UNCHANGED arg

CallMix ==
  /\ arg.fn = "mix"
  /\ res = NoResult
  /\ res' = [done |-> TRUE, wheels |-> MixArcade(arg.fwd, arg.turn, arg.gain)]
  /\ UNCHANGED arg

CallShape ==
  /\ arg.fn = "shape"
  /\ res = NoResult
  /\ res' = [done |-> TRUE, dz |-> Deadzone(arg.v, arg.dz), expo |-> Expo(arg.v, arg.e)]
  /\ UNCHANGED arg

Next == CallRamp \/ CallMix \/ CallShape

Spec == Init /\ [][Next]_vars

Returned(fn) == res # NoResult /\ arg.fn = fn

-----------------------------------------------------------------------------
\* The reference ramp: of the points on the way from current to target, the
\* one nearest the target whose part of the way toward zero is within dn and
\* whose part away from zero is within up, an "off" rate allowing any length.
Reachable(t, c, up, dn) ==
  LET way     == {p \in Commands : (c <= p /\ p <= t) \/ (t <= p /\ p <= c)}
      crosses == t * c < 0
      fall(p) == IF p * c > 0 THEN IF Abs(p) < Abs(c) THEN Abs(c) - Abs(p) ELSE 0 ELSE Abs(c)
      rise(p) == IF p * c > 0 THEN IF Abs(p) > Abs(c) THEN Abs(p) - Abs(c) ELSE 0 ELSE Abs(p)
  IN  {p \in way : /\ dn > 0 => fall(p) <= dn
                   /\ up > 0 => rise(p) <= up}

\* The ramp of control_math.hpp:45 makes all the progress its two rates allow
\* and not a step more, through a reversal too: the fall to zero is charged to
\* decel, the build-up on the other side to accel.
RampIsGreedyPath ==
  Returned("ramp") =>
    LET ok == Reachable(arg.target, arg.current, arg.up, arg.dn)
    IN  /\ res.cmd \in ok
        /\ \A p \in ok : Abs(arg.target - res.cmd) <= Abs(arg.target - p)

\* mixArcade (control_math.hpp:62): the kart turns toward the stick side, a
\* mirrored stick gives the mirrored wheels, and while nothing saturates the
\* mean of the wheels is the forward command.
MixSteersToStick ==
  Returned("mix") =>
    LET l == res.wheels["l"]
        r == res.wheels["r"]
        mirrored == MixArcade(arg.fwd, -arg.turn, arg.gain)
    IN  /\ {l, r} \subseteq Commands
        /\ arg.turn >= 0 => l >= r
        /\ mirrored["l"] = r /\ mirrored["r"] = l
        /\ Abs(l) < Unit /\ Abs(r) < Unit => l + r = 2 * arg.fwd

\* What the stick asks keeps its sign and its order and reaches the stops: through
\* the deadzone, nothing inside it and no step at its edge, whatever its width
\* (control_math.hpp:18); through the expo, never more than the stick, for a strength
\* outside [0..1] too (mixer.hpp:31-37).
ShapingKeepsRange ==
  Returned("shape") =>
    /\ {res.dz, res.expo} \subseteq Commands
    /\ (res.dz = 0) = (Abs(arg.v) <= arg.dz)
    /\ Deadzone(-arg.v, arg.dz) = -res.dz
    /\ Abs(arg.v) = Unit => Abs(res.dz) = Unit /\ res.expo = arg.v
    /\ Abs(res.expo) <= Abs(arg.v)
    /\ Expo(-arg.v, arg.e) = -res.expo
    /\ \A u \in Commands : u <= arg.v =>
         /\ Deadzone(u, arg.dz) <= res.dz
         /\ Expo(u, arg.e) <= res.expo
=============================================================================
