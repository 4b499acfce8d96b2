------------------------------- MODULE DeadMan -------------------------------
(***************************************************************************)
(* What the control core promises about power, and nothing of how: the     *)
(* kart is armed by a long START press only, a press is answered once and  *)
(* must be released before the next one counts, anything in the way        *)
(* disarms and grounds the motors at once, and the motors are powered only *)
(* by a step that begins armed or that arms.                               *)
(***************************************************************************)
VARIABLES
  press,     \* "up", "down" (being held) or "spent" (answered, still held)
  armed,     \* the kart may be driven
  powered,   \* the motors get PWM, not the short circuit
  stopped    \* something was in the way on the last step

vars == <<press, armed, powered, stopped>>

TypeOK ==
  /\ press \in {"up", "down", "spent"}
  /\ armed \in BOOLEAN /\ powered \in BOOLEAN /\ stopped \in BOOLEAN

Init == press = "up" /\ armed = FALSE /\ powered = FALSE /\ stopped = FALSE

\* A long press is answered: it arms a disarmed kart, or disarms.
Answer ==
  /\ press = "down" /\ press' = "spent"
  /\ armed' \in {FALSE, ~armed /\ ~stopped'}
  /\ powered' \in {FALSE, armed'}

\* Any other step: the press goes on, or is released; arming can only be lost.
\* A step that began armed may still power the motors while it disarms.
Carry ==
  /\ press' \in {"up", press} \cup (IF press = "up" THEN {"down"} ELSE {})
  /\ armed' \in {FALSE, armed /\ ~stopped'}
  /\ powered' \in {FALSE, armed /\ ~stopped'}

Next == stopped' \in BOOLEAN /\ (Answer \/ Carry)

Spec == Init /\ [][Next]_vars
=============================================================================
