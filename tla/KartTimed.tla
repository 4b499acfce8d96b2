------------------------------ MODULE KartTimed ------------------------------
(***************************************************************************)
(* KartController with three history variables that measure, from the      *)
(* tick's inputs and outputs alone, how long the freewheel has been        *)
(* sliding, how long nobody has driven and how long START has been down.   *)
(* They restrict nothing.                                                  *)
(***************************************************************************)
EXTENDS KartController

VARIABLES
  slide,     \* ticks the present freewheel has lasted, under one configuration
  neglect,   \* time since a tick that armed, or that drove with A and the stick
  down       \* time between the first and the last tick that saw this press

timedVars == <<vars, slide, neglect, down>>

TimedInit == Init /\ slide = 0 /\ neglect = idle /\ down = NotHeld

Watch(d) ==
  /\ slide' = IF tel'.brake_mode = "Coast" THEN slide + 1 ELSE 0
  /\ neglect' = IF (~armed /\ armed') \/ tel'.brake_mode = "None" THEN 0
                ELSE Older(neglect, d)
  /\ down' = IF ~pad.start THEN NotHeld ELSE IF down = NotHeld THEN 0 ELSE Older(down, d)

TimedNext ==
  \/ \E p \in Pads, fresh \in BOOLEAN : SetPad(p, fresh) /\ UNCHANGED <<slide, neglect, down>>
  \/ \E c \in Configs : SetConfig(c) /\ slide' = 0 /\ UNCHANGED <<neglect, down>>
  \/ \E d \in TickSteps : Tick(d) /\ Watch(d)

TimedSpec == TimedInit /\ [][TimedNext]_timedVars

\* The freewheel lasts as long as decel says and no longer: after k ticks of it
\* no wheel keeps more than a full command less k steps, however the stick and
\* A were moved before, and with decel off there is no freewheel
\* (control_math.hpp:40, config_params.cpp:51).
FreewheelWithinDecel ==
  /\ slide > 0 => cfg.decel > 0
  /\ \A w \in Wheels : Abs(last[w]) + slide * RateStep(cfg.decel) <= Unit

\* After a tick, an armed kart has been driven within disarm_s: holding A alone,
\* a press of START or a run-down do not count as driving (controller_core.cpp:110, 151).
ArmedMeansDriven == [][TickSome => (armed' => neglect' <= cfg.disarm)]_timedVars

\* Short presses do not add up: the kart arms only when every tick of the last
\* arm_hold_ms, and more, saw START down (controller_core.cpp:67-88).
ArmedAfterOneLongPress ==
  [][~armed /\ armed' => down' > cfg.arm_hold]_timedVars
=============================================================================
