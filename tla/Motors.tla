-------------------------------- MODULE Motors --------------------------------
(***************************************************************************)
(* The two motor channels (hardware.cpp): per wheel a direction pin and a  *)
(* PWM duty, written one register after the other and only when the value  *)
(* kept in the caches differs.  A wheel is driven while its duty is above  *)
(* 0; both outputs of a bridge are low, the winding a brake, when duty and *)
(* direction are 0.                                                        *)
(***************************************************************************)
EXTENDS Integers, Sequences

CONSTANT Drives     \* the wheel commands that motorsSet is given, times the cap

Wheels == {"l", "r"}

ASSUME DrivesAssumption == Drives \subseteq [Wheels -> Int]

VARIABLES
  pins,      \* the registers: direction pin and duty of each wheel
  cache,     \* m_dir_last, m_duty_last
  todo       \* the register writes the call under way still has to make

motorVars == <<pins, cache, todo>>

Unknown  == -1
Grounded == [w \in Wheels |-> [dir |-> 0, duty |-> 0]]

W(w, reg, val) == [wheel |-> w, reg |-> reg, val |-> val]

DirOf(v)  == IF v >= 0 THEN 1 ELSE 0
DutyOf(v) == IF v >= 0 THEN v ELSE -v

\* motorsSet: motorApply on the left channel, then on the right one.
SetWrites(cmd) ==
  <<W("l", "dir", DirOf(cmd["l"])), W("l", "duty", DutyOf(cmd["l"])),
    W("r", "dir", DirOf(cmd["r"])), W("r", "duty", DutyOf(cmd["r"]))>>

\* Mutant: the directions drop before the duties.
BrakeWritesDirFirst ==
  <<W("l", "dir", 0), W("r", "dir", 0), W("l", "duty", 0), W("r", "duty", 0)>>

\* motorsBrake: both duties before both directions.
BrakeWrites ==
  <<W("l", "duty", 0), W("r", "duty", 0), W("l", "dir", 0), W("r", "dir", 0)>>

\* initMotors, after the channels were attached.
InitWrites == <<W("l", "dir", 1), W("r", "dir", 1)>> \o BrakeWrites

\* Mutant: both directions are cached in the left slot.
CachedLeft(c, w) == [c EXCEPT ![IF w.reg = "dir" THEN "l" ELSE w.wheel][w.reg] = w.val]

\* dirPin and setDuty remember what they write.
Cached(c, w) == [c EXCEPT ![w.wheel][w.reg] = w.val]

\* dirPin or setDuty: nothing is written when the cache has the value.
WriteRegister ==
  /\ todo # <<>>
  /\ todo' = Tail(todo)
  /\ LET w == Head(todo)
     IN  IF cache[w.wheel][w.reg] = w.val
         THEN UNCHANGED <<pins, cache>>
         ELSE /\ cache' = Cached(cache, w)
              /\ pins' = [pins EXCEPT ![w.wheel][w.reg] = w.val]

\* A reset: the pins fall low (pull-downs, then motorsIdleEarly) and the caches
\* hold the values no register has.
MotorsReset(p, c, t) ==
  /\ p = Grounded
  /\ c = [w \in Wheels |-> [dir |-> Unknown, duty |-> Unknown]]
  /\ t = <<>>

Duties == {DutyOf(d[w]) : d \in Drives, w \in Wheels} \cup {0}
Regs   == {"dir", "duty"}
Values == [reg \in Regs |-> IF reg = "dir" THEN {0, 1} ELSE Duties]
Writes == {w \in [wheel : Wheels, reg : Regs, val : {0, 1} \cup Duties] : w.val \in Values[w.reg]}

MotorsTypeOK ==
  /\ pins \in [Wheels -> [dir : {0, 1}, duty : Duties]]
  /\ cache \in [Wheels -> [dir : {0, 1, Unknown}, duty : Duties \cup {Unknown}]]
=============================================================================
