---------------------------- MODULE KartController ----------------------------
(***************************************************************************)
(* The control core of the kart (controller_core.cpp): the class           *)
(* KartController, one action per public call that changes its state.      *)
(*                                                                         *)
(* The clock.  The code keeps absolute microsecond stamps and only ever    *)
(* compares differences, so a stamp is modelled by its AGE at the last     *)
(* clock reading.  Ages stop growing at AgeCap, which lies above every     *)
(* threshold they are compared with: the cap changes no comparison.        *)
(* A tick reads the clock d time units after the previous one.             *)
(*                                                                         *)
(* m_hold_start_us = 0 is the code's "START is not held": hold = NotHeld.  *)
(***************************************************************************)
EXTENDS ControlMath

CONSTANT Pads          \* the gamepad snapshots a host pushes
CONSTANT Configs       \* the configurations a host pushes
CONSTANT TickSteps     \* the time units that may separate two ticks
CONSTANT HbTimeout     \* PAD_HB_TIMEOUT_US, in time units
CONSTANT ArmCenterMax  \* ARM_CENTER_MAX, as a command
CONSTANT CapFloor      \* the 0.05 floor under duty_cap in the ramp rates
CONSTANT AgeCap        \* where ages stop growing

Wheels     == {"l", "r"}
StopCauses == {"None", "PadLost", "PadStale", "EStop", "NotCalibrated"}
BrakeModes == {"None", "Dynamic", "Coast"}
NotHeld    == -1

PadInputs == [x : Commands, y : Commands, connected : BOOLEAN, calibrated : BOOLEAN,
              estop : BOOLEAN, start : BOOLEAN, drive : BOOLEAN]

KartConfigs ==
  [duty_cap : Int, thr_deadzone : 0..(Unit - 1), turn_gain : 0..Unit,
   mix_type : Nat, mix_expo_fwd : 0..Unit, mix_expo_turn : 0..Unit,
   accel : Nat, decel : Nat,                     \* real duty per tick, 0 = off
   mot_inv : [Wheels -> BOOLEAN], mot_swap_lr : BOOLEAN,
   arm_hold : Nat, disarm : Nat]                 \* in time units

ASSUME ConstantsAssumption ==
  /\ Pads \subseteq PadInputs
  /\ Configs \subseteq KartConfigs
  /\ TickSteps \subseteq Nat \ {0}
  /\ HbTimeout \in Nat /\ ArmCenterMax \in Nat /\ CapFloor \in Nat \ {0}
  /\ AgeCap \in Nat /\ HbTimeout < AgeCap
  /\ \A c \in Configs : c.arm_hold < AgeCap /\ c.disarm < AgeCap

VARIABLES
  pad,       \* m_pad without its stamp: the last snapshot pushed
  silence,   \* age of m_pad.last_report_us
  cfg,       \* m_cfg
  armed,     \* m_armed
  hold,      \* age of m_hold_start_us, NotHeld for 0
  latch,     \* m_start_latch: this START press was already answered
  idle,      \* age of m_last_act_us
  last,      \* m_last_l, m_last_r
  out,       \* the CtrlOutputs of the last tick, what the motors obey
  tel        \* m_tel of the last tick

vars == <<pad, silence, cfg, armed, hold, latch, idle, last, out, tel>>

NoPad == [x |-> 0, y |-> 0, connected |-> FALSE, calibrated |-> FALSE,
          estop |-> FALSE, start |-> FALSE, drive |-> FALSE]

Standstill == [w \in Wheels |-> 0]

Init ==
  /\ pad = NoPad
  /\ silence \in {0, AgeCap}                \* zero stamps: the age is the time since boot
  /\ idle = silence
  /\ cfg \in Configs
  /\ armed = FALSE /\ hold = NotHeld /\ latch = FALSE
  /\ last = Standstill
  /\ out = [dyn_brake |-> TRUE, cmd |-> Standstill, cap |-> 0]
  /\ tel = [state |-> "Lockout", stop |-> "None", brake_mode |-> "Dynamic",
            armed |-> FALSE, cmd |-> Standstill]

-----------------------------------------------------------------------------
(* setPad, setConfig *)

\* The host pushes a snapshot; its stamp is that of a report just received, or
\* still that of the report already known (a link event, no new report).
SetPad(p, fresh) ==
  /\ pad' = p
  /\ silence' = IF fresh THEN 0 ELSE silence
  /\ UNCHANGED <<cfg, armed, hold, latch, idle, last, out, tel>>

SetConfig(c) ==
  /\ cfg' = c
  /\ UNCHANGED <<pad, silence, armed, hold, latch, idle, last, out, tel>>

-----------------------------------------------------------------------------
(* tick: the parts of step() in the order of the code *)

Older(age, d) == IF age + d < AgeCap THEN age + d ELSE AgeCap

\* Mutant: the heartbeat is not looked at.
StopCauseNoHeartbeat(p, age) ==
  IF ~p.connected THEN "PadLost"
  ELSE IF p.estop THEN "EStop"
  ELSE IF ~p.calibrated THEN "NotCalibrated"
  ELSE "None"

\* The one cause that keeps the kart from driving, highest priority first.
StopCause(p, age) ==
  IF ~p.connected THEN "PadLost"
  ELSE IF age > HbTimeout THEN "PadStale"
  ELSE IF p.estop THEN "EStop"
  ELSE IF ~p.calibrated THEN "NotCalibrated"
  ELSE "None"

Stop(d) == StopCause(pad, Older(silence, d))

Centered(p) == Abs(p.x) < ArmCenterMax /\ Abs(p.y) < ArmCenterMax

\* Mutant: a press is answered again and again.
PressAnsweredNoLatch(d) == pad.start /\ hold # NotHeld /\ Older(hold, d) > cfg.arm_hold

\* START has now been held long enough, and this press was not answered yet.
PressAnswered(d) == pad.start /\ hold # NotHeld /\ ~latch /\ Older(hold, d) > cfg.arm_hold

\* Mutant: START arms whatever is in the way.
ArmedNowAnyCause(d) == IF PressAnswered(d) THEN ~armed /\ Centered(pad) ELSE armed

\* m_armed after the START block: the press arms a disarmed kart with nothing
\* in the way and the stick centred, and disarms it in every other case.
ArmedNow(d) ==
  /\ Stop(d) = "None"
  /\ IF PressAnswered(d) THEN ~armed /\ Centered(pad) ELSE armed

\* Mutant: releasing START does not forget when the press began.
HoldNowKept(d) == IF hold # NotHeld THEN Older(hold, d) ELSE IF pad.start THEN 0 ELSE NotHeld

HoldNow(d) ==
  IF ~pad.start THEN NotHeld ELSE IF hold = NotHeld THEN 0 ELSE Older(hold, d)

LatchNow(d) == pad.start /\ (latch \/ PressAnswered(d))

Fwd  == Deadzone(pad.y, cfg.thr_deadzone)
Turn == Deadzone(pad.x, cfg.thr_deadzone)
StickIdle == Fwd = 0 /\ Turn = 0

Target == IF StickIdle THEN Standstill ELSE Mix(Fwd, Turn, cfg)

CapFrac == Clamp(cfg.duty_cap, 0, Unit)

\* A rate of real duty per tick as a step of the command: divided by the cap,
\* rounded up so that only a rate of 0 is "off".
RateStep(rate) ==
  LET cap == IF CapFrac > CapFloor THEN CapFrac ELSE CapFloor
  IN  (rate * Unit + cap - 1) \div cap

\* Mutant: the armed flag is read before this tick's causes clear it.
DrivingStale(d) == armed /\ pad.drive

Driving(d) == ArmedNow(d) /\ pad.drive

Command(d) ==
  [w \in Wheels |->
     IF Driving(d)
     THEN Ramp(Target[w], last[w], RateStep(cfg.accel), RateStep(cfg.decel))
     ELSE 0]

\* Mutant: a centred stick coasts for as long as A is held.
BrakeModeNoRunDownEnd(d) ==
  IF ~Driving(d) THEN "Dynamic" ELSE IF ~StickIdle THEN "None" ELSE "Coast"

BrakeMode(d) ==
  IF ~Driving(d) THEN "Dynamic"
  ELSE IF ~StickIdle THEN "None"
  ELSE IF Command(d) # Standstill THEN "Coast"
  ELSE "Dynamic"

\* Mutant: the brake leaves the ramp's memory alone.
LastNowKept(d) == IF BrakeMode(d) = "Dynamic" THEN last ELSE Command(d)

\* Dynamic braking clears the ramp's memory.
LastNow(d) == IF BrakeMode(d) = "Dynamic" THEN Standstill ELSE Command(d)

\* Motor sign per wheel, then channel routing.
Routed(cmd) ==
  LET signed == [w \in Wheels |-> IF cfg.mot_inv[w] THEN -cmd[w] ELSE cmd[w]]
  IN  IF cfg.mot_swap_lr THEN [w \in Wheels |-> signed[IF w = "l" THEN "r" ELSE "l"]]
      ELSE signed

\* Mutant: holding A alone counts as driving.
IdleNowByA(d) == IF Driving(d) THEN 0 ELSE Older(idle, d)

\* m_last_act_us moves when the press arms and when A and the stick drive.
IdleNow(d) ==
  IF (PressAnswered(d) /\ ArmedNow(d)) \/ (Driving(d) /\ ~StickIdle)
  THEN 0 ELSE Older(idle, d)

\* The inactivity timeout closes the step: the motor command is already decided.
ArmedAtEnd(d) == ArmedNow(d) /\ IdleNow(d) <= cfg.disarm

Tick(d) ==
  /\ silence' = Older(silence, d)
  /\ hold' = HoldNow(d)
  /\ latch' = LatchNow(d)
  /\ idle' = IdleNow(d)
  /\ last' = LastNow(d)
  /\ out' = [dyn_brake |-> BrakeMode(d) = "Dynamic", cmd |-> Routed(Command(d)),
             cap |-> CapFrac]
  /\ armed' = ArmedAtEnd(d)
  /\ tel' = [state |-> IF ArmedNow(d) THEN "Run" ELSE "Lockout", stop |-> Stop(d),
             brake_mode |-> BrakeMode(d), armed |-> armed', cmd |-> Command(d)]
  /\ UNCHANGED <<pad, cfg>>

TickSome == \E d \in TickSteps : Tick(d)

Next ==
  \/ \E p \in Pads, fresh \in BOOLEAN : SetPad(p, fresh)
  \/ \E c \in Configs : SetConfig(c)
  \/ TickSome

Spec == Init /\ [][Next]_vars

\* The 500 Hz task is the highest-priority one of its core and feeds a
\* watchdog that reboots the board when it stops ticking (controller.cpp:121).
FairSpec == Spec /\ WF_vars(TickSome)

-----------------------------------------------------------------------------
(* Properties *)

\* Every variable stays in its set.
TypeOK ==
  /\ pad \in PadInputs /\ silence \in 0..AgeCap
  /\ cfg \in KartConfigs
  /\ armed \in BOOLEAN /\ latch \in BOOLEAN
  /\ hold \in {NotHeld} \cup 0..AgeCap /\ idle \in 0..AgeCap
  /\ last \in [Wheels -> Commands]
  /\ out \in [dyn_brake : BOOLEAN, cmd : [Wheels -> Commands], cap : 0..Unit]
  /\ tel \in [state : {"Lockout", "Run"}, stop : StopCauses, brake_mode : BrakeModes,
              armed : BOOLEAN, cmd : [Wheels -> Commands]]

\* Power needs the driver's consent on that very tick: whatever came before,
\* a tick that does not short the motors saw a connected, calibrated gamepad
\* heard from within the heartbeat, A held, B not held (controller_core.cpp:43-137).
ConsentEachTick ==
  [][ TickSome /\ ~out'.dyn_brake =>
        /\ pad.connected /\ pad.calibrated /\ pad.drive /\ ~pad.estop
        /\ silence' <= HbTimeout ]_vars

\* The wheel command the motors obey: a short-circuited motor is at 0.
Applied(o, t, w) == IF o.dyn_brake THEN 0 ELSE t.cmd[w]

\* Between two consecutive commands, brakes and re-presses of A included, a
\* wheel never gains more than the accel step nor sheds more than the decel
\* step, unless the short circuit takes over; a change of direction falls
\* within decel and rises within accel (control_math.hpp:45, controller_core.cpp:131).
NoDutyJump ==
  [][ TickSome /\ ~out'.dyn_brake =>
        \A w \in Wheels :
          LET was == Applied(out, tel, w)
              now == Applied(out', tel', w)
              up  == RateStep(cfg.accel)
              dn  == RateStep(cfg.decel)
          IN  /\ up > 0 => IF was * now < 0 THEN Abs(now) <= up
                           ELSE Abs(now) - Abs(was) <= up
              /\ dn > 0 => IF was * now < 0 THEN Abs(was) <= dn
                           ELSE Abs(was) - Abs(now) <= dn ]_vars

\* The kart arms only at the end of a full hold of START, seen at every tick
\* since it began and answered no earlier, with the stick centred and nothing in the
\* way: no report older than the heartbeat either (controller_core.cpp:67-83).
ArmingHandshake ==
  [][ ~armed /\ armed' =>
        /\ pad.start /\ ~latch /\ latch'
        /\ Abs(pad.x) < ArmCenterMax /\ Abs(pad.y) < ArmCenterMax
        /\ tel'.stop = "None"
        /\ hold' > cfg.arm_hold ]_vars

\* A tick that reports the kart disarmed and still powers the motors is the
\* tick of the inactivity timeout, caught in the middle of the freewheel: every
\* other way of disarming grounds the motors at once, and the next tick does
\* in any case (controller_core.cpp:61, 80, 131, 151).
PoweredWhileDisarmedOnlyCoasting ==
  [][ TickSome /\ ~tel'.armed /\ ~out'.dyn_brake =>
        /\ armed
        /\ tel'.brake_mode = "Coast" /\ tel'.stop = "None"
        /\ idle' > cfg.disarm ]_vars

\* The core implements the dead man of DeadMan.tla.
Press == IF hold = NotHeld THEN "up" ELSE IF latch THEN "spent" ELSE "down"

Promise == INSTANCE DeadMan WITH
  press <- Press, powered <- ~out.dyn_brake, stopped <- tel.stop # "None"

ImplementsDeadMan == Promise!Spec

\* A gamepad that falls silent for good ends with the motors grounded and the
\* kart disarmed, whatever was held when it fell silent (controller_core.cpp:43).
SilenceBrakes ==
  <>[][~ \E p \in Pads : SetPad(p, TRUE)]_vars => <>[](out.dyn_brake /\ ~armed)

\* A stick left centred for good ends the freewheel: the command slides to 0
\* and the motors end up grounded even if A stays held (controller_core.cpp:102-137).
CentredStickBrakes == <>[]StickIdle => <>[](out.dyn_brake)
=============================================================================
