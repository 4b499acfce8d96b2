------------------------- MODULE KartControllerProofs -------------------------
(***************************************************************************)
(* Theorems about KartController, for every value of its constants.        *)
(*                                                                         *)
(* The inductive invariant is TypeOK with RampMemory: what the ramp        *)
(* remembers is what the motors were last told, nothing after a brake.     *)
(*                                                                         *)
(* The last part is about KartTimed: what the ages and the ramp of the     *)
(* controller mean in time, told by histories that read only its inputs    *)
(* and outputs.                                                            *)
(***************************************************************************)
EXTENDS KartTimed, ControlMathLemmas

\* The constants, as the provers need them.
LEMMA ConstantFacts ==
  /\ Unit \in Nat \ {0}
  /\ Commands \subseteq Int /\ 0 \in Commands
  /\ \A d \in TickSteps : d \in Nat
  /\ HbTimeout \in Nat /\ AgeCap \in Nat /\ CapFloor \in Nat \ {0} /\ HbTimeout < AgeCap
  BY UnitAssumption, ConstantsAssumption DEF Commands

\* An age stays within its cap.
LEMMA OlderRange ==
  ASSUME NEW age \in 0..AgeCap, NEW d \in TickSteps
  PROVE  Older(age, d) \in 0..AgeCap /\ Older(age, d) >= age
  BY ConstantFacts DEF Older

\* Both ramp rates are natural numbers, 0 only for a rate of 0.
LEMMA RateStepNat ==
  ASSUME cfg \in KartConfigs, NEW rate \in Nat
  PROVE  RateStep(rate) \in Nat
  <1> DEFINE cap == IF CapFrac > CapFloor THEN CapFrac ELSE CapFloor
  <1>1. CapFrac \in 0..Unit
    BY ConstantFacts, ClampRange DEF CapFrac, KartConfigs
  <1>2. cap \in Nat \ {0}
    BY <1>1, ConstantFacts
  <1>3. rate * Unit \in Nat
    BY ConstantFacts
  <1> HIDE DEF cap
  <1>4. rate * Unit + cap - 1 \in Nat
    BY <1>2, <1>3
  <1>5. (rate * Unit + cap - 1) \div cap \in Nat
    BY <1>2, <1>4
  <1> QED
    BY <1>5 DEF RateStep, cap

\* The mixer's target is a command for each wheel.
LEMMA TargetRange ==
  ASSUME pad \in PadInputs, cfg \in KartConfigs
  PROVE  Target \in [Wheels -> Commands]
  <1>1. Fwd \in Int /\ Turn \in Int
    BY DeadzoneInt, ConstantFacts DEF Fwd, Turn, PadInputs, KartConfigs
  <1>2. /\ cfg.turn_gain \in Int
        /\ cfg.mix_expo_fwd \in Int /\ cfg.mix_expo_turn \in Int
    BY ConstantFacts DEF KartConfigs
  <1>3. Expo(Fwd, cfg.mix_expo_fwd) \in Int /\ Expo(Turn, cfg.mix_expo_turn) \in Int
    BY <1>1, <1>2, ExpoInt
  <1>4. Mix(Fwd, Turn, cfg) \in [Wheels -> Commands]
    BY <1>1, <1>2, <1>3, MixArcadeRange DEF Mix, Wheels
  <1> QED
    BY <1>4, ConstantFacts DEF Target, Standstill

\* A tick's command is a command for each wheel.
LEMMA CommandRange ==
  ASSUME TypeOK, NEW d \in TickSteps
  PROVE  Command(d) \in [Wheels -> Commands]
  <1>1. Target \in [Wheels -> Commands] /\ last \in [Wheels -> Commands]
    BY TargetRange DEF TypeOK
  <1>2. RateStep(cfg.accel) \in Nat /\ RateStep(cfg.decel) \in Nat
    BY RateStepNat DEF TypeOK, KartConfigs
  <1>3. ASSUME NEW w \in Wheels
        PROVE  Ramp(Target[w], last[w], RateStep(cfg.accel), RateStep(cfg.decel)) \in Commands
    BY <1>1, <1>2, RampRange
  <1> QED
    BY <1>3, ConstantFacts DEF Command

\* Sign and routing keep a pair of commands in range.
LEMMA RoutedRange ==
  ASSUME cfg \in KartConfigs, NEW cmd \in [Wheels -> Commands]
  PROVE  Routed(cmd) \in [Wheels -> Commands]
  <1> DEFINE signed == [w \in Wheels |-> IF cfg.mot_inv[w] THEN -cmd[w] ELSE cmd[w]]
  <1>1. \A c \in Commands : -c \in Commands
    BY UnitAssumption DEF Commands
  <1>2. signed \in [Wheels -> Commands]
    BY <1>1
  <1> HIDE DEF signed
  <1>3. [w \in Wheels |-> signed[IF w = "l" THEN "r" ELSE "l"]] \in [Wheels -> Commands]
    BY <1>2 DEF Wheels
  <1> QED
    BY <1>2, <1>3 DEF Routed, signed

-----------------------------------------------------------------------------
\* What a tick does to each variable stays in type.
LEMMA TickTypeOK ==
  ASSUME TypeOK, NEW d \in TickSteps, Tick(d)
  PROVE  TypeOK'
  <1> USE DEF TypeOK
  <1>1. silence' \in 0..AgeCap /\ pad' \in PadInputs /\ cfg' \in KartConfigs
    BY OlderRange DEF Tick
  <1>2. hold' \in {NotHeld} \cup 0..AgeCap
    BY OlderRange, ConstantFacts DEF Tick, HoldNow
  <1>3. idle' \in 0..AgeCap
    BY OlderRange, ConstantFacts DEF Tick, IdleNow
  <1>4. ArmedNow(d) \in BOOLEAN /\ PressAnswered(d) \in BOOLEAN
    BY DEF ArmedNow, PressAnswered, PadInputs
  <1>5. armed' \in BOOLEAN /\ latch' \in BOOLEAN
    BY DEF Tick, ArmedAtEnd, LatchNow
  <1>6. Command(d) \in [Wheels -> Commands]
    BY CommandRange
  <1>7. last' \in [Wheels -> Commands]
    BY <1>6, ConstantFacts DEF Tick, LastNow, Standstill
  <1>8. BrakeMode(d) \in BrakeModes /\ Stop(d) \in StopCauses
    BY DEF BrakeMode, BrakeModes, Stop, StopCause, StopCauses
  <1>9. Routed(Command(d)) \in [Wheels -> Commands]
    BY <1>6, RoutedRange
  <1>10. CapFrac \in 0..Unit
    BY ConstantFacts, ClampRange DEF CapFrac, KartConfigs
  <1>11. out' \in [dyn_brake : BOOLEAN, cmd : [Wheels -> Commands], cap : 0..Unit]
    BY <1>9, <1>10 DEF Tick
  <1>12. tel' \in [state : {"Lockout", "Run"}, stop : StopCauses, brake_mode : BrakeModes,
                   armed : BOOLEAN, cmd : [Wheels -> Commands]]
    BY <1>5, <1>6, <1>8 DEF Tick
  <1> QED
    BY <1>1, <1>2, <1>3, <1>5, <1>7, <1>11, <1>12

\* Type correctness of the control core.
THEOREM TypeCorrect == Spec => []TypeOK
  <1>1. Init => TypeOK
    <2> SUFFICES ASSUME Init PROVE TypeOK
      OBVIOUS
    <2>1. pad \in PadInputs /\ cfg \in KartConfigs
      BY ConstantFacts, ConstantsAssumption DEF Init, NoPad, PadInputs
    <2>2. silence \in 0..AgeCap /\ idle \in 0..AgeCap
      <3>1. 0 \in 0..AgeCap /\ AgeCap \in 0..AgeCap
        BY ConstantFacts
      <3> QED
        BY <3>1 DEF Init
    <2>3. /\ armed \in BOOLEAN /\ latch \in BOOLEAN
          /\ hold \in {NotHeld} \cup 0..AgeCap
      BY DEF Init
    <2>4. Standstill \in [Wheels -> Commands]
      BY ConstantFacts DEF Standstill
    <2>5. out \in [dyn_brake : BOOLEAN, cmd : [Wheels -> Commands], cap : 0..Unit]
      BY <2>4, ConstantFacts DEF Init
    <2>6. tel \in [state : {"Lockout", "Run"}, stop : StopCauses, brake_mode : BrakeModes,
                   armed : BOOLEAN, cmd : [Wheels -> Commands]]
      BY <2>4 DEF Init, StopCauses, BrakeModes
    <2> QED
      BY <2>1, <2>2, <2>3, <2>4, <2>5, <2>6 DEF Init, TypeOK
  <1>2. TypeOK /\ [Next]_vars => TypeOK'
    <2> SUFFICES ASSUME TypeOK, [Next]_vars PROVE TypeOK'
      OBVIOUS
    <2>1. ASSUME NEW p \in Pads, NEW fresh \in BOOLEAN, SetPad(p, fresh) PROVE TypeOK'
      BY <2>1, ConstantsAssumption, ConstantFacts DEF SetPad, TypeOK
    <2>2. ASSUME NEW c \in Configs, SetConfig(c) PROVE TypeOK'
      BY <2>2, ConstantsAssumption DEF SetConfig, TypeOK
    <2>3. ASSUME NEW d \in TickSteps, Tick(d) PROVE TypeOK'
      BY <2>3, TickTypeOK
    <2>4. CASE UNCHANGED vars
      BY <2>4 DEF vars, TypeOK
    <2> QED
      BY <2>1, <2>2, <2>3, <2>4 DEF Next, TickSome
  <1> QED
    BY <1>1, <1>2, PTL DEF Spec

-----------------------------------------------------------------------------
\* No tick powers the motors without the consent of the gamepad as that tick
\* saw it (controller_core.cpp:43-137).
THEOREM Consent == Spec => ConsentEachTick
  <1> DEFINE Consenting ==
        TickSome /\ ~out'.dyn_brake =>
          /\ pad.connected /\ pad.calibrated /\ pad.drive /\ ~pad.estop
          /\ silence' <= HbTimeout
  <1>1. TypeOK => Consenting
    <2> SUFFICES ASSUME TypeOK, NEW d \in TickSteps, Tick(d), ~out'.dyn_brake
                 PROVE  /\ pad.connected /\ pad.calibrated /\ pad.drive /\ ~pad.estop
                        /\ silence' <= HbTimeout
      BY DEF TickSome
    <2>1. Driving(d)
      BY DEF Tick, BrakeMode
    <2>2. pad.drive /\ Stop(d) = "None"
      BY <2>1 DEF Driving, ArmedNow
    <2>3. silence' = Older(silence, d) /\ silence' \in 0..AgeCap
      BY OlderRange DEF Tick, TypeOK
    <2> QED
      BY <2>2, <2>3, ConstantFacts DEF Stop, StopCause
  <1>2. TypeOK /\ [Next]_vars => [Consenting]_vars
    BY <1>1
  <1> QED
    BY <1>2, TypeCorrect, PTL DEF Spec, ConsentEachTick

\* The only tick that reports the kart disarmed and still powers the motors is
\* the tick of the inactivity timeout, in the freewheel (controller_core.cpp:151).
THEOREM DisarmLag == Spec => PoweredWhileDisarmedOnlyCoasting
  <1> DEFINE Lag ==
        TickSome /\ ~tel'.armed /\ ~out'.dyn_brake =>
          /\ armed
          /\ tel'.brake_mode = "Coast" /\ tel'.stop = "None"
          /\ idle' > cfg.disarm
  <1>1. TypeOK => Lag
    <2> SUFFICES ASSUME TypeOK, NEW d \in TickSteps, Tick(d), ~tel'.armed, ~out'.dyn_brake
                 PROVE  /\ armed
                        /\ tel'.brake_mode = "Coast" /\ tel'.stop = "None"
                        /\ idle' > cfg.disarm
      BY DEF TickSome
    <2>1. Driving(d) /\ BrakeMode(d) # "Dynamic"
      BY DEF Tick, BrakeMode
    <2>2. ArmedNow(d) /\ Stop(d) = "None"
      BY <2>1 DEF Driving, ArmedNow
    <2>3. IdleNow(d) \in Nat /\ cfg.disarm \in Nat
      BY OlderRange, ConstantFacts DEF IdleNow, TypeOK, KartConfigs
    <2>4. idle' = IdleNow(d) /\ ~(IdleNow(d) <= cfg.disarm)
      BY <2>2 DEF Tick, ArmedAtEnd
    <2>5. IdleNow(d) # 0
      BY <2>3, <2>4
    <2>6. ~PressAnswered(d) /\ StickIdle
      BY <2>1, <2>2, <2>5 DEF IdleNow
    <2>7. armed /\ BrakeMode(d) = "Coast"
      BY <2>1, <2>2, <2>6 DEF ArmedNow, BrakeMode
    <2> QED
      BY <2>2, <2>3, <2>4, <2>7 DEF Tick
  <1>2. TypeOK /\ [Next]_vars => [Lag]_vars
    BY <1>1
  <1> QED
    BY <1>2, TypeCorrect, PTL DEF Spec, PoweredWhileDisarmedOnlyCoasting

\* The kart arms only by a full, confirmed, unanswered hold of START with the
\* stick centred and nothing in the way (controller_core.cpp:67-83).
THEOREM Handshake == Spec => ArmingHandshake
  <1> DEFINE Armed ==
        ~armed /\ armed' =>
          /\ pad.start /\ ~latch /\ latch'
          /\ Abs(pad.x) < ArmCenterMax /\ Abs(pad.y) < ArmCenterMax
          /\ tel'.stop = "None"
          /\ hold' > cfg.arm_hold
  <1>1. ASSUME TypeOK, NEW d \in TickSteps, Tick(d), ~armed, armed' PROVE Armed
    <2>1. ArmedNow(d) /\ Stop(d) = "None"
      BY <1>1 DEF Tick, ArmedAtEnd, ArmedNow
    <2>2. PressAnswered(d) /\ Centered(pad)
      BY <1>1, <2>1 DEF ArmedNow
    <2>3. pad.start /\ ~latch /\ latch' /\ hold' = Older(hold, d) /\ hold' > cfg.arm_hold
      BY <1>1, <2>2 DEF PressAnswered, Tick, LatchNow, HoldNow
    <2> QED
      BY <1>1, <2>1, <2>2, <2>3 DEF Centered, Tick
  <1>2. TypeOK /\ [Next]_vars => [Armed]_vars
    <2> SUFFICES ASSUME TypeOK, Next, ~armed, armed' PROVE Armed
      OBVIOUS
    <2>1. PICK d \in TickSteps : Tick(d)
      BY DEF Next, TickSome, SetPad, SetConfig
    <2> QED
      BY <1>1, <2>1
  <1> QED
    BY <1>2, TypeCorrect, PTL DEF Spec, ArmingHandshake

-----------------------------------------------------------------------------
\* What the ramp remembers is what the motors obey.
RampMemory == \A w \in Wheels : last[w] = Applied(out, tel, w)

\* A tick leaves the ramp's memory at the command the motors obey.
LEMMA TickRampMemory ==
  ASSUME TypeOK, NEW d \in TickSteps, Tick(d)
  PROVE  RampMemory'
  <1>1. CASE BrakeMode(d) = "Dynamic"
    BY <1>1 DEF Tick, LastNow, RampMemory, Applied, Standstill
  <1>2. CASE BrakeMode(d) # "Dynamic"
    BY <1>2 DEF Tick, LastNow, RampMemory, Applied
  <1> QED
    BY <1>1, <1>2

\* The strengthened invariant of the control core.
THEOREM MemoryFaithful == Spec => [](TypeOK /\ RampMemory)
  <1>1. Init => RampMemory
    BY DEF Init, RampMemory, Applied, Standstill
  <1>2. TypeOK /\ RampMemory /\ [Next]_vars => RampMemory'
    <2> SUFFICES ASSUME TypeOK, RampMemory, [Next]_vars PROVE RampMemory'
      OBVIOUS
    <2>1. CASE UNCHANGED <<last, out, tel>>
      BY <2>1 DEF RampMemory, Applied
    <2>2. ASSUME NEW d \in TickSteps, Tick(d) PROVE RampMemory'
      BY <2>2, TickRampMemory
    <2> QED
      BY <2>1, <2>2 DEF Next, TickSome, SetPad, SetConfig, vars
  <1> QED
    BY <1>1, <1>2, TypeCorrect, PTL DEF Spec

\* Consecutive commands differ by no more than the two rates allow, braking and
\* re-pressing A included (control_math.hpp:45, controller_core.cpp:131-137).
THEOREM Slope == Spec => NoDutyJump
  <1> DEFINE Bounded ==
        TickSome /\ ~out'.dyn_brake =>
          \A w \in Wheels :
            LET was == Applied(out, tel, w)
                now == Applied(out', tel', w)
                up  == RateStep(cfg.accel)
                dn  == RateStep(cfg.decel)
            IN  /\ up > 0 => IF was * now < 0 THEN Abs(now) <= up
                             ELSE Abs(now) - Abs(was) <= up
                /\ dn > 0 => IF was * now < 0 THEN Abs(was) <= dn
                             ELSE Abs(was) - Abs(now) <= dn
  <1>1. TypeOK /\ RampMemory => Bounded
    <2> SUFFICES ASSUME TypeOK, RampMemory, NEW d \in TickSteps, Tick(d), ~out'.dyn_brake,
                        NEW w \in Wheels
                 PROVE
            LET was == Applied(out, tel, w)
                now == Applied(out', tel', w)
                up  == RateStep(cfg.accel)
                dn  == RateStep(cfg.decel)
            IN  /\ up > 0 => IF was * now < 0 THEN Abs(now) <= up
                             ELSE Abs(now) - Abs(was) <= up
                /\ dn > 0 => IF was * now < 0 THEN Abs(was) <= dn
                             ELSE Abs(was) - Abs(now) <= dn
      BY DEF TickSome
    <2>1. Applied(out, tel, w) = last[w]
      BY DEF RampMemory
    <2>2. Driving(d)
      BY DEF Tick, BrakeMode
    <2>3. Applied(out', tel', w) =
            Ramp(Target[w], last[w], RateStep(cfg.accel), RateStep(cfg.decel))
      BY <2>2 DEF Tick, Applied, Command
    <2>4. RateStep(cfg.accel) \in Nat /\ RateStep(cfg.decel) \in Nat
      BY RateStepNat DEF TypeOK, KartConfigs
    <2>5. Target[w] \in Commands /\ last[w] \in Commands
      BY TargetRange DEF TypeOK
    <2> QED
      BY <2>1, <2>3, <2>4, <2>5, RampStepBound
  <1>2. TypeOK /\ RampMemory /\ [Next]_vars => [Bounded]_vars
    BY <1>1
  <1> QED
    BY <1>2, MemoryFaithful, PTL DEF Spec, NoDutyJump

-----------------------------------------------------------------------------
\* A press is marked answered only while START is held: the mark cannot
\* outlive the press and swallow the next one.
LatchHeld == latch => hold # NotHeld

THEOREM LatchDiesWithPress == Spec => []LatchHeld
  <1>1. Init => LatchHeld
    BY DEF Init, LatchHeld
  <1>2. TypeOK /\ LatchHeld /\ [Next]_vars => LatchHeld'
    <2> SUFFICES ASSUME TypeOK, LatchHeld, [Next]_vars PROVE LatchHeld'
      OBVIOUS
    <2>1. CASE UNCHANGED <<hold, latch>>
      BY <2>1 DEF LatchHeld
    <2>2. ASSUME NEW d \in TickSteps, Tick(d) PROVE LatchHeld'
      <3> SUFFICES ASSUME latch' PROVE hold' # NotHeld
        BY DEF LatchHeld
      <3>1. pad.start /\ hold # NotHeld
        BY <2>2 DEF Tick, LatchNow, PressAnswered, LatchHeld
      <3>2. hold \in 0..AgeCap /\ hold' = Older(hold, d)
        BY <2>2, <3>1 DEF Tick, HoldNow, TypeOK
      <3>3. hold' \in 0..AgeCap
        BY <3>2, OlderRange
      <3> QED
        BY <3>3, ConstantFacts DEF NotHeld
    <2> QED
      BY <2>1, <2>2 DEF Next, TickSome, SetPad, SetConfig, vars
  <1> QED
    BY <1>1, <1>2, TypeCorrect, PTL DEF Spec

\* The control core implements the dead man, step by step.
THEOREM DeadManRefined == Spec => ImplementsDeadMan
  <1>1. Init => Promise!Init
    BY DEF Init, Promise!Init, Press
  <1>2. TypeOK /\ LatchHeld /\ [Next]_vars => [Promise!Next]_(Promise!vars)
    <2> SUFFICES ASSUME TypeOK, LatchHeld, [Next]_vars PROVE [Promise!Next]_(Promise!vars)
      OBVIOUS
    <2>1. CASE UNCHANGED <<hold, latch, armed, out, tel>>
      BY <2>1 DEF Promise!vars, Press
    <2>2. ASSUME NEW d \in TickSteps, Tick(d) PROVE Promise!Next
      <3>1. /\ out'.dyn_brake = (BrakeMode(d) = "Dynamic")
            /\ tel'.stop = Stop(d) /\ armed' = ArmedAtEnd(d)
            /\ hold' = HoldNow(d) /\ latch' = LatchNow(d)
        BY <2>2 DEF Tick
      <3>2. ~out'.dyn_brake => ArmedNow(d)
        BY <3>1 DEF BrakeMode, Driving
      <3>3. armed' => ArmedNow(d)
        BY <3>1 DEF ArmedAtEnd
      <3>4. ArmedNow(d) => Stop(d) = "None"
        BY DEF ArmedNow
      <3>5. pad.start /\ hold # NotHeld => hold' # NotHeld
        BY <3>1, <2>2, OlderRange, ConstantFacts DEF HoldNow, NotHeld, TypeOK
      <3>6. ASSUME ~ArmedNow(d)
            PROVE  armed' = FALSE /\ (~out'.dyn_brake) = FALSE
        BY <3>1, <3>2, <3>3, <3>6 DEF ArmedAtEnd
      <3>7. ASSUME ArmedNow(d)
            PROVE  (tel'.stop # "None") = FALSE
        BY <3>1, <3>4, <3>7
      <3>8. out'.dyn_brake \in BOOLEAN /\ armed' \in BOOLEAN
        BY <3>1 DEF ArmedAtEnd
      <3>9. CASE PressAnswered(d)
        <4>1. Press = "down" /\ Press' = "spent"
          BY <3>1, <3>5, <3>9 DEF PressAnswered, LatchNow, Press
        <4>2. ArmedNow(d) => ~armed
          BY <3>9 DEF ArmedNow
        <4>3. ArmedNow(d) => armed'
          <5> SUFFICES ASSUME ArmedNow(d) PROVE IdleNow(d) <= cfg.disarm
            BY <3>1 DEF ArmedAtEnd
          <5>1. IdleNow(d) = 0 /\ cfg.disarm \in Nat
            BY <3>9 DEF IdleNow, TypeOK, KartConfigs
          <5> QED
            BY <5>1
        <4> QED
          <5>1. CASE ~ArmedNow(d)
            BY <5>1, <4>1, <3>6 DEF Promise!Next, Promise!Answer
          <5>2. CASE ArmedNow(d)
            <6>1. armed' = TRUE /\ armed = FALSE
              BY <5>2, <4>2, <4>3, <3>8 DEF TypeOK
            <6> QED
              BY <6>1, <5>2, <4>1, <3>7, <3>8 DEF Promise!Next, Promise!Answer
          <5> QED
            BY <5>1, <5>2
      <3>10. CASE ~PressAnswered(d)
        <4>1. ArmedNow(d) => armed
          BY <3>10 DEF ArmedNow
        <4>2. Press' \in {"up", Press} \cup (IF Press = "up" THEN {"down"} ELSE {})
          <5>1. CASE ~pad.start
            BY <3>1, <5>1 DEF HoldNow, Press
          <5>2. CASE pad.start /\ hold = NotHeld
            BY <3>1, <5>2 DEF LatchHeld, LatchNow, PressAnswered, Press
          <5>3. CASE pad.start /\ hold # NotHeld
            <6>1. hold' # NotHeld /\ latch' = latch
              BY <3>1, <3>5, <3>10, <5>3 DEF LatchNow, TypeOK
            <6> QED
              BY <6>1, <5>3 DEF Press
          <5> QED
            BY <5>1, <5>2, <5>3
        <4> QED
          <5>1. CASE ~ArmedNow(d)
            BY <5>1, <4>2, <3>6 DEF Promise!Next, Promise!Carry
          <5>2. CASE ArmedNow(d)
            <6>1. armed = TRUE
              BY <5>2, <4>1 DEF TypeOK
            <6> QED
              BY <6>1, <5>2, <4>2, <3>7, <3>8 DEF Promise!Next, Promise!Carry
          <5> QED
            BY <5>1, <5>2
      <3> QED
        BY <3>9, <3>10
    <2> QED
      BY <2>1, <2>2 DEF Next, TickSome, SetPad, SetConfig, vars
  <1> QED
    BY <1>1, <1>2, TypeCorrect, LatchDiesWithPress, PTL DEF Spec, ImplementsDeadMan, Promise!Spec

-----------------------------------------------------------------------------
(* Durations *)

\* The histories measure what the controller's own stamps do: the time since the last
\* activity, and the age of the press.
MeasuresInv == neglect = idle /\ down = hold

DurationInv == slide \in Nat /\ FreewheelWithinDecel /\ MeasuresInv

\* The histories restrict nothing and add nothing: a timed run is a run of the core.
LEMMA TimedIsCore == TimedSpec => Spec
<1>1. TimedInit => Init
  BY DEF TimedInit
<1>2. [TimedNext]_timedVars => [Next]_vars
  BY DEF TimedNext, Next, TickSome, timedVars, vars
<1> QED
  BY <1>1, <1>2, PTL DEF TimedSpec, Spec

\* The step of the freewheel is a natural number.
LEMMA DecelStepNat == cfg \in KartConfigs => RateStep(cfg.decel) \in Nat
  BY RateStepNat DEF KartConfigs

\* A wheel that slides toward zero has lost a full step, or has arrived.
LEMMA SlideStep ==
  ASSUME NEW current \in Commands, NEW up \in Nat, NEW dn \in Nat \ {0}
  PROVE  LET next == Ramp(0, current, up, dn)
         IN  next = 0 \/ Abs(next) + dn <= Abs(current)
<1>1. current \in Int /\ 0 * current = 0
  BY ConstantFacts
<1> QED
  BY <1>1 DEF Ramp, Leg, Slew, Clamp, Abs

\* With no rate the slide ends in one tick.
LEMMA SlideOff ==
  ASSUME NEW current \in Commands, NEW up \in Nat
  PROVE  Ramp(0, current, up, 0) = 0
<1>1. current \in Int /\ 0 * current = 0
  BY ConstantFacts
<1> QED
  BY <1>1 DEF Ramp, Leg, Slew, Clamp, Abs

\* A rate is off only when the configuration says so.
LEMMA RateOff ==
  ASSUME cfg \in KartConfigs
  PROVE  cfg.decel = 0 => RateStep(cfg.decel) = 0
<1> DEFINE cap == IF CapFrac > CapFloor THEN CapFrac ELSE CapFloor
<1>1. CapFrac \in 0..Unit
  BY ConstantFacts, ClampRange DEF CapFrac, KartConfigs
<1>2. cap \in Nat \ {0}
  BY <1>1, ConstantFacts
<1> HIDE DEF cap
<1>3. (cap - 1) \div cap = 0
  BY <1>2
<1>4. 0 * Unit + cap - 1 = cap - 1
  BY <1>2, ConstantFacts
<1>5. cfg.decel = 0 => RateStep(cfg.decel) = (cap - 1) \div cap
  BY <1>4 DEF RateStep, cap
<1> QED
  BY <1>3, <1>5

-----------------------------------------------------------------------------
\* The freewheel sheds a step on every wheel that still turns; while one turns, the
\* ticks spent have taken that many steps from a full command.
LEMMA TickFreewheel ==
  ASSUME TypeOK, DurationInv, NEW d \in TickSteps, Tick(d), Watch(d)
  PROVE  FreewheelWithinDecel' /\ slide' \in Nat
<1> DEFINE dn == RateStep(cfg.decel)
           up == RateStep(cfg.accel)
<1>1. dn \in Nat /\ up \in Nat /\ Unit \in Nat
  BY RateStepNat, ConstantFacts DEF TypeOK, KartConfigs
<1>2. \A w \in Wheels : last[w] \in Commands /\ last[w] \in Int
  BY ConstantFacts DEF TypeOK
<1>3. RateStep(cfg.decel)' = dn /\ cfg' = cfg
  BY DEF Tick, RateStep, CapFrac
<1>4. tel'.brake_mode = BrakeMode(d)
  BY DEF Tick
<1> HIDE DEF dn, up
<1>5. CASE BrakeMode(d) = "Coast"
  <2>1. Driving(d) /\ StickIdle /\ Command(d) # Standstill
    BY <1>5 DEF BrakeMode
  <2>2. \A w \in Wheels : Command(d)[w] = Ramp(0, last[w], up, dn)
    BY <2>1 DEF Command, Target, Standstill, up, dn
  <2>3. last' = Command(d)
    BY <1>5 DEF Tick, LastNow
  <2>4. PICK v \in Wheels : Command(d)[v] # 0
    <3>1. Command(d) = [w \in Wheels |-> Command(d)[w]]
      BY DEF Command
    <3> QED
      BY <2>1, <3>1 DEF Standstill
  <2>5. dn > 0 /\ cfg.decel > 0
    <3>1. dn # 0
      BY <1>1, <1>2, <2>2, <2>4, SlideOff
    <3>2. cfg.decel # 0 /\ cfg.decel \in Nat
      BY <3>1, RateOff DEF dn, TypeOK, KartConfigs
    <3> QED
      BY <1>1, <3>1, <3>2
  <2> DEFINE k == slide
             e == slide * dn
             s == slide'
  <2>6. k \in Nat /\ e \in Nat /\ s = k + 1 /\ s * dn = e + dn
    <3>1. slide \in Nat /\ slide' = slide + 1
      BY <1>4, <1>5 DEF DurationInv, Watch
    <3> QED
      BY <1>1, <3>1
  <2>7. \A w \in Wheels : Abs(last[w]) + e <= Unit
    BY DEF DurationInv, FreewheelWithinDecel, dn
  <2> HIDE DEF k, e, s
  <2>8. ASSUME NEW w \in Wheels
        PROVE  Abs(last'[w]) + (e + dn) <= Unit
    <3> DEFINE next == Command(d)[w]
    <3>1. next = 0 \/ Abs(next) + dn <= Abs(last[w])
      BY <1>1, <1>2, <2>2, <2>5, SlideStep
    <3>2. Abs(Command(d)[v]) + dn <= Abs(last[v])
      BY <1>1, <1>2, <2>2, <2>4, <2>5, SlideStep
    <3>3. Command(d)[w] \in Int /\ Command(d)[v] \in Int
      BY CommandRange, ConstantFacts
    <3>4. \A c \in Int : Abs(c) \in Nat /\ Abs(0) = 0
      BY DEF Abs
    <3>5. Abs(last[w]) \in Nat /\ Abs(last[v]) \in Nat /\ Abs(next) \in Nat
          /\ Abs(Command(d)[v]) \in Nat
      BY <1>2, <3>3, <3>4
    <3>6. Abs(next) + (e + dn) <= Unit
      BY <1>1, <2>6, <2>7, <3>1, <3>2, <3>4, <3>5
    <3> QED
      BY <2>3, <3>6
  <2> QED
    BY <1>3, <2>5, <2>6, <2>8 DEF FreewheelWithinDecel, s
<1>6. CASE BrakeMode(d) # "Coast"
  <2>1. slide' = 0
    BY <1>4, <1>6 DEF Watch
  <2>2. \A w \in Wheels : last'[w] \in Commands
    BY TickTypeOK DEF TypeOK
  <2>3. \A c \in Commands : Abs(c) + 0 * dn <= Unit
    BY <1>1 DEF Commands, Abs
  <2> QED
    BY <1>3, <2>1, <2>2, <2>3 DEF FreewheelWithinDecel
<1> QED
  BY <1>5, <1>6

\* The stamp of the last activity moves on the ticks that arm and on those that drive
\* with A and the stick, and on no other.
LEMMA TickMeasures ==
  ASSUME TypeOK, DurationInv, NEW d \in TickSteps, Tick(d), Watch(d)
  PROVE  MeasuresInv'
<1>1. down' = hold'
  BY DEF Tick, Watch, HoldNow, DurationInv, MeasuresInv
<1>2. tel'.brake_mode = "None" <=> Driving(d) /\ ~StickIdle
  BY DEF Tick, BrakeMode
<1>3. ~armed /\ armed' <=> PressAnswered(d) /\ ArmedNow(d)
  <2>1. CASE PressAnswered(d) /\ ArmedNow(d)
    <3>1. ~armed /\ IdleNow(d) = 0
      BY <2>1 DEF ArmedNow, IdleNow
    <3>2. 0 <= cfg.disarm
      BY DEF TypeOK, KartConfigs
    <3> QED
      BY <2>1, <3>1, <3>2 DEF Tick, ArmedAtEnd
  <2>2. CASE ~armed /\ armed'
    BY <2>2 DEF Tick, ArmedAtEnd, ArmedNow
  <2> QED
    BY <2>1, <2>2
<1>4. neglect' = idle'
  BY <1>2, <1>3 DEF Tick, Watch, IdleNow, DurationInv, MeasuresInv
<1> QED
  BY <1>1, <1>4 DEF MeasuresInv

LEMMA TimedInv == TimedSpec => [](TypeOK /\ DurationInv)
<1>1. TimedInit => DurationInv
  <2> SUFFICES ASSUME TimedInit PROVE DurationInv
    OBVIOUS
  <2>1. RateStep(cfg.decel) \in Nat /\ Unit \in Nat
    <3>1. cfg \in KartConfigs
      BY ConstantsAssumption DEF TimedInit, Init
    <3> QED
      BY <3>1, RateStepNat, ConstantFacts DEF KartConfigs
  <2>2. Abs(0) + 0 * RateStep(cfg.decel) <= Unit
    BY <2>1 DEF Abs
  <2> QED
    BY <2>2 DEF TimedInit, Init, DurationInv, FreewheelWithinDecel, MeasuresInv, Standstill
<1>2. TypeOK /\ TypeOK' /\ DurationInv /\ [TimedNext]_timedVars => DurationInv'
  <2> SUFFICES ASSUME TypeOK, TypeOK', DurationInv, [TimedNext]_timedVars PROVE DurationInv'
    OBVIOUS
  <2>1. CASE UNCHANGED <<cfg, last, idle, hold, slide, neglect, down>>
    BY <2>1 DEF DurationInv, FreewheelWithinDecel, MeasuresInv, RateStep, CapFrac
  <2>2. ASSUME NEW c \in Configs, SetConfig(c), slide' = 0, UNCHANGED <<neglect, down>>
        PROVE  DurationInv'
    <3>1. (cfg \in KartConfigs => RateStep(cfg.decel) \in Nat)'
      BY DecelStepNat, PTL
    <3>2. RateStep(cfg.decel)' \in Nat
      BY <3>1 DEF TypeOK
    <3>3. \A w \in Wheels : last'[w] \in Commands
      BY DEF TypeOK
    <3>4. \A w \in Wheels : Abs(last'[w]) + slide' * RateStep(cfg.decel)' <= Unit
      BY <2>2, <3>2, <3>3, ConstantFacts DEF Commands, Abs
    <3> QED
      BY <2>2, <3>4 DEF SetConfig, DurationInv, FreewheelWithinDecel, MeasuresInv
  <2>3. ASSUME NEW d \in TickSteps, Tick(d), Watch(d) PROVE DurationInv'
    BY <2>3, TickFreewheel, TickMeasures DEF DurationInv
  <2> QED
    BY <2>1, <2>2, <2>3 DEF TimedNext, SetPad, timedVars, vars
<1> QED
  BY <1>1, <1>2, TimedIsCore, TypeCorrect, PTL DEF TimedSpec

-----------------------------------------------------------------------------
\* The freewheel lasts as long as decel says and no longer, on every configuration and
\* from every speed; with decel off there is none (control_math.hpp:40, config_params.cpp:51).
THEOREM FreewheelBounded == TimedSpec => []FreewheelWithinDecel
<1>1. DurationInv => FreewheelWithinDecel
  BY DEF DurationInv
<1> QED
  BY <1>1, TimedInv, PTL

\* A kart that a tick leaves armed was driven, or armed, within disarm_s
\* (controller_core.cpp:110, 151).
THEOREM ArmedIsDriven == TimedSpec => ArmedMeansDriven
<1>1. DurationInv' => (TickSome => (armed' => neglect' <= cfg.disarm))
  <2> SUFFICES ASSUME DurationInv', NEW d \in TickSteps, Tick(d), armed' PROVE neglect' <= cfg.disarm
    BY DEF TickSome
  <2>1. idle' <= cfg.disarm
    BY DEF Tick, ArmedAtEnd
  <2> QED
    BY <2>1 DEF DurationInv, MeasuresInv
<1>2. DurationInv' /\ [TimedNext]_timedVars => [TickSome => (armed' => neglect' <= cfg.disarm)]_timedVars
  BY <1>1
<1> QED
  BY <1>2, TimedInv, PTL DEF TimedSpec, ArmedMeansDriven

\* Short presses of START never add up: the press that arms was down on every tick of
\* more than arm_hold_ms (controller_core.cpp:67-88).
THEOREM OneLongPress == TimedSpec => ArmedAfterOneLongPress
<1>1. DurationInv' /\ [Next]_vars => (~armed /\ armed' => down' > cfg.arm_hold)
  <2> SUFFICES ASSUME DurationInv', [Next]_vars, ~armed, armed' PROVE down' > cfg.arm_hold
    OBVIOUS
  <2>1. PICK d \in TickSteps : Tick(d)
    BY DEF Next, TickSome, SetPad, SetConfig, vars
  <2>2. PressAnswered(d)
    BY <2>1 DEF Tick, ArmedAtEnd, ArmedNow
  <2>3. hold' = Older(hold, d) /\ Older(hold, d) > cfg.arm_hold
    BY <2>1, <2>2 DEF Tick, HoldNow, PressAnswered
  <2> QED
    BY <2>3 DEF DurationInv, MeasuresInv
<1>2. DurationInv' /\ [Next]_vars => [~armed /\ armed' => down' > cfg.arm_hold]_timedVars
  BY <1>1
<1> QED
  BY <1>2, TimedInv, TimedIsCore, PTL DEF Spec, ArmedAfterOneLongPress
=============================================================================
