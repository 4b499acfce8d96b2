----------------------------- MODULE GamepadInput -----------------------------
(***************************************************************************)
(* The gamepad (input.cpp, input_bp32.c): unlocked atomics shared by the   *)
(* Bluetooth task that stores reports and link events, the control task    *)
(* that takes a snapshot and acts on it, and the web task that pairs,      *)
(* unpairs and calibrates.  A step is one load or one store, but for four  *)
(* groups whose parts are atomics of their own and which are one step here:*)
(* the three buttons stored (StoreButtons) or loaded (GetButtons), the     *)
(* three loads of a scaled axis (GetAxis), the centre and the extremes it  *)
(* starts (StoreCentre).  No torn triple of buttons is seen.               *)
(*                                                                         *)
(* The two axes are treated alike by the code: one is kept.  The display   *)
(* fields (triggers, right stick, battery, name, gap histogram) are left   *)
(* out.  Time is only whether the last report is within PAD_HB_TIMEOUT.    *)
(***************************************************************************)
EXTENDS ControlMath

CONSTANT Reports     \* the reports a gamepad sends: [x, estop, start, drive]
CONSTANT MinAmp      \* the least half-amplitude calFinish accepts

Buttons == [estop : BOOLEAN, start : BOOLEAN, drive : BOOLEAN]

ASSUME ReportsAssumption ==
  /\ Reports \subseteq [x : Commands, btn : Buttons]
  /\ MinAmp \in Nat \ {0}

VARIABLES
  link,                \* external: connected at Bluetooth level
  bt, rep,             \* the Bluetooth task, and the report it delivers
  fresh,               \* m_last_report_us is within PAD_HB_TIMEOUT_US
  connected, raw, btn, \* m_connected, m_raw_x/y, m_estop/m_start/m_drive
  calibrated, cx, hx,  \* m_calibrated, m_cx/y, m_hx/y
  cal, lo, hi,         \* m_cal_state = 1, m_min_x/y, m_max_x/y
  nvs,                 \* the calibration in flash
  web, leave, amp,     \* the web task: its next step, whether it unpairs, its local
  ctl, snap, armed,    \* the control task: its next step, its snapshot, the kart
  whole,               \* history: this tick has seen nothing but collecting
  told                 \* history: the last verdict, when flash was given it and has it

btVars   == <<bt, rep>>
padVars  == <<connected, raw, btn>>
scaleVars == <<calibrated, cx, hx>>
extremes == <<lo, hi>>
webVars  == <<web, leave, amp>>
ctlVars  == <<ctl, snap, armed>>
\* What a step of each task leaves alone, but for one that asks a pad to leave.
notBt      == <<scaleVars, nvs, told, webVars, ctlVars>>
notWeb     == <<link, btVars, fresh, ctlVars>>
notControl == <<link, btVars, fresh, padVars, scaleVars, cal, extremes, nvs, told, webVars>>
vars == <<link, btVars, fresh, padVars, scaleVars, cal, extremes, nvs,
          webVars, ctlVars, whole, told>>

Released == [estop |-> FALSE, start |-> FALSE, drive |-> FALSE]
NoReport == [x |-> 0, btn |-> Released]
Neutral  == [connected |-> FALSE, btn |-> Released, axis |-> 0, calibrated |-> FALSE]

\* What told is when it is not a scale: the calibration was erased; nobody knows,
\* since a key of the last verdict was not written, or not read back.
Erased == 0
Unsure == -1

\* The steps of a verb from its verdict to the end of its save.
Unsaved == {"stop", "saveblob", "saveflag"}

\* whole follows cal: a tick that overlaps anything else is not wholly collecting.
Watched == whole' = (whole /\ cal')

-----------------------------------------------------------------------------
(* The Bluetooth task *)

\* on_device_ready, then inputbp_on_conn(1).
PadReady ==
  /\ bt = "idle" /\ ~link
  /\ link' = TRUE /\ bt' = "connect"
  /\ UNCHANGED <<rep, fresh, padVars, notBt, cal, extremes, whole>>

\* on_controller_data, inputbp_on_data: the stamp is stored first.
Stamp(r) ==
  /\ bt = "idle" /\ link
  /\ rep' = r /\ fresh' = TRUE /\ bt' = "axes"
  /\ UNCHANGED <<link, padVars, notBt, cal, extremes, whole>>

StoreAxes ==
  /\ bt = "axes" /\ bt' = "buttons"
  /\ raw' = rep.x
  /\ UNCHANGED <<link, rep, fresh, connected, btn, notBt, cal, extremes, whole>>

StoreButtons ==
  /\ bt = "buttons"
  /\ btn' = rep.btn
  /\ bt' = IF cal THEN "extremes" ELSE "connect"
  /\ UNCHANGED <<link, rep, fresh, connected, raw, notBt, cal, extremes, whole>>

StoreExtremes ==
  /\ bt = "extremes" /\ bt' = "connect"
  /\ lo' = IF rep.x < lo THEN rep.x ELSE lo
  /\ hi' = IF rep.x > hi THEN rep.x ELSE hi
  /\ UNCHANGED <<link, rep, fresh, padVars, notBt, cal, whole>>

\* inputbp_on_conn(1), on every frame.
Connect ==
  /\ bt = "connect" /\ bt' = "idle"
  /\ connected' = TRUE /\ rep' = NoReport
  /\ UNCHANGED <<link, fresh, raw, btn, notBt, cal, extremes, whole>>

\* on_device_disconnected: asked for, or the pad is gone.
PadLost ==
  /\ bt = "idle" /\ link
  /\ link' = FALSE /\ bt' = "lost"
  /\ UNCHANGED <<rep, fresh, padVars, notBt, cal, extremes, whole>>

\* inputbp_on_conn(0), for the task whose next step is pc: the collection is
\* cancelled, the pad marked as gone, its last report purged.
CancelCollection(pc, next) ==
  /\ pc = "lost" /\ next = "off"
  /\ cal' = FALSE
  /\ Watched
  /\ UNCHANGED <<padVars>>

MarkGone(pc, next) ==
  /\ pc = "off" /\ next = "purge"
  /\ connected' = FALSE
  /\ UNCHANGED <<raw, btn, cal, whole>>

\* Mutant: the buttons of the dying report are kept.
PurgeAxesOnly(pc, next) ==
  /\ pc = "purge" /\ next = "idle"
  /\ raw' = 0
  /\ UNCHANGED <<btn, connected, cal, whole>>

Purge(pc, next) ==
  /\ pc = "purge" /\ next = "idle"
  /\ raw' = 0 /\ btn' = Released
  /\ UNCHANGED <<connected, cal, whole>>

OnConn0(pc, next) == CancelCollection(pc, next) \/ MarkGone(pc, next) \/ Purge(pc, next)

BtOnConn0 ==
  /\ OnConn0(bt, bt')
  /\ UNCHANGED <<link, rep, fresh, notBt, extremes>>

\* No report for longer than the heartbeat.
Silence ==
  /\ fresh /\ fresh' = FALSE
  /\ UNCHANGED <<link, btVars, padVars, notBt, cal, extremes, whole>>

-----------------------------------------------------------------------------
(* The web task: one verb at a time *)

\* refusedArmed: the status is the one of the last tick.
Begin(first) ==
  /\ web = "idle" /\ ~armed
  /\ web' = first
  /\ UNCHANGED <<notWeb, padVars, scaleVars, cal, extremes, nvs, told, leave, amp, whole>>

StartPairing == Begin("clear")
Unpair       == Begin("forget")
CalStart     == Begin("capture")

\* unpair: m_connected is cleared before anything else.
Forget ==
  /\ web = "forget" /\ web' = "clear"
  /\ connected' = FALSE /\ leave' = TRUE
  /\ UNCHANGED <<notWeb, raw, btn, scaleVars, cal, extremes, nvs, told, amp, whole>>

\* calClear: not calibrated, then not collecting, then the save.
ClearCalibrated ==
  /\ web = "clear" /\ web' = "stop"
  /\ calibrated' = FALSE /\ told' = Erased
  /\ UNCHANGED <<notWeb, padVars, cx, hx, cal, extremes, nvs, leave, amp, whole>>

\* Mutant: what pairing erases, flash keeps: calClear does not save.
ClearStateUnsaved ==
  /\ web = "stop" /\ web' = IF leave THEN "drop" ELSE "idle"
  /\ cal' = FALSE /\ leave' = FALSE /\ Watched
  /\ UNCHANGED <<notWeb, padVars, scaleVars, extremes, nvs, told, amp>>

ClearState ==
  /\ web = "stop" /\ web' = "saveblob"
  /\ cal' = FALSE /\ Watched
  /\ UNCHANGED <<notWeb, padVars, scaleVars, extremes, nvs, told, leave, amp>>

\* calSave: nothing when nvs_open fails, else the scale, then the flag; their errors
\* are not looked at.
EndVerb == web' = (IF leave THEN "drop" ELSE "idle") /\ leave' = FALSE

NoNvs ==
  /\ web = "saveblob" /\ EndVerb
  /\ told' = Unsure
  /\ UNCHANGED <<notWeb, padVars, scaleVars, cal, extremes, nvs, amp, whole>>

SaveBlob ==
  /\ web = "saveblob" /\ web' = "saveflag"
  /\ \/ nvs' = [nvs EXCEPT !.cx = cx, !.hx = hx] /\ UNCHANGED told
     \/ told' = Unsure /\ UNCHANGED nvs
  /\ UNCHANGED <<notWeb, padVars, scaleVars, cal, extremes, leave, amp, whole>>

SaveFlag ==
  /\ web = "saveflag" /\ EndVerb
  /\ \/ nvs' = [nvs EXCEPT !.ok = calibrated] /\ UNCHANGED told
     \/ told' = Unsure /\ UNCHANGED nvs
  /\ UNCHANGED <<notWeb, padVars, scaleVars, cal, extremes, amp, whole>>

\* inputbp_unpair: the disconnection is asked of the Bluetooth task, which loses the
\* pad when it may; inputbp_on_conn(0) is called without waiting for it.
DropDevice ==
  /\ web = "drop" /\ web' = "lost"
  /\ UNCHANGED <<notWeb, padVars, scaleVars, cal, extremes, nvs, told, leave, amp, whole>>

WebOnConn0 ==
  /\ OnConn0(web, web')
  /\ UNCHANGED <<notWeb, scaleVars, extremes, nvs, told, leave, amp>>

\* calStart: refused without fresh data; else the stick's place is the centre.
Capture ==
  /\ web = "capture"
  /\ IF connected /\ fresh
     THEN web' = "centre" /\ amp' = raw
     ELSE web' = "idle" /\ UNCHANGED amp
  /\ UNCHANGED <<notWeb, padVars, scaleVars, cal, extremes, nvs, told, leave, whole>>

StoreCentre ==
  /\ web = "centre" /\ web' = "collect"
  /\ cx' = amp /\ lo' = amp /\ hi' = amp
  /\ UNCHANGED <<notWeb, padVars, calibrated, hx, cal, nvs, told, leave, amp, whole>>

Collect ==
  /\ web = "collect" /\ web' = "idle"
  /\ cal' = TRUE /\ amp' = 0
  /\ UNCHANGED <<notWeb, padVars, scaleVars, extremes, nvs, told, leave, whole>>

\* calFinish: the half-amplitude, the end of the collection, the verdict.
CalFinish ==
  /\ web = "idle" /\ cal
  /\ web' = "finish"
  /\ amp' = IF cx - lo > hi - cx THEN cx - lo ELSE hi - cx
  /\ UNCHANGED <<notWeb, padVars, scaleVars, cal, extremes, nvs, told, leave, whole>>

EndCollection ==
  /\ web = "finish" /\ web' = "verdict"
  /\ cal' = FALSE /\ Watched
  /\ UNCHANGED <<notWeb, padVars, scaleVars, extremes, nvs, told, leave, amp>>

Reject ==
  /\ web = "verdict" /\ ~(connected /\ fresh /\ amp > MinAmp)
  /\ web' = "idle" /\ amp' = 0
  /\ UNCHANGED <<notWeb, padVars, scaleVars, cal, extremes, nvs, told, leave, whole>>

\* Mutant: any amplitude will do.
AcceptAnyAmplitude ==
  /\ web = "verdict" /\ connected /\ fresh
  /\ web' = "accepted"
  /\ hx' = amp /\ amp' = 0
  /\ UNCHANGED <<notWeb, padVars, calibrated, cx, cal, extremes, nvs, told, leave, whole>>

Accept ==
  /\ web = "verdict" /\ connected /\ fresh /\ amp > MinAmp
  /\ web' = "accepted"
  /\ hx' = amp /\ amp' = 0
  /\ UNCHANGED <<notWeb, padVars, calibrated, cx, cal, extremes, nvs, told, leave, whole>>

Calibrated ==
  /\ web = "accepted" /\ web' = "saveblob"
  /\ calibrated' = TRUE /\ told' = hx
  /\ UNCHANGED <<notWeb, padVars, cx, hx, cal, extremes, nvs, leave, amp, whole>>

CalCancel ==
  /\ web = "idle" /\ cal
  /\ cal' = FALSE /\ Watched
  /\ UNCHANGED <<notWeb, padVars, scaleVars, extremes, nvs, told, webVars>>

-----------------------------------------------------------------------------
(* The control task: pushPad(), then the tick *)

Loads(pc, next, s) ==
  /\ ctl = pc /\ ctl' = next /\ snap' = s
  /\ UNCHANGED <<notControl, armed>>

\* get(): disconnected is neutral.
GetConnected ==
  /\ Loads("idle", IF connected THEN "buttons" ELSE "calibrated",
           [Neutral EXCEPT !.connected = connected])
  /\ whole' = cal

GetButtons == Loads("buttons", "gate1", [snap EXCEPT !.btn = btn]) /\ UNCHANGED whole

\* get(): no axes unless calibrated, nor while collecting.
GateCalibrated ==
  Loads("gate1", IF calibrated THEN "gate2" ELSE "calibrated", snap) /\ UNCHANGED whole

GateCollecting ==
  Loads("gate2", IF cal THEN "calibrated" ELSE "axis", snap) /\ UNCHANGED whole

Scaled == IF hx > 0 THEN Clamp(Quotient((raw - cx) * Unit, hx), -Unit, Unit) ELSE 0

GetAxis == Loads("axis", "calibrated", [snap EXCEPT !.axis = Scaled]) /\ UNCHANGED whole

\* calibrated(), its two loads.
LoadCalibrated ==
  /\ Loads("calibrated", IF calibrated THEN "collecting" ELSE "tick", snap)
  /\ UNCHANGED whole

\* Mutant: a calibration in progress is not looked at.
LoadCollectingIgnored ==
  /\ Loads("collecting", "tick", [snap EXCEPT !.calibrated = TRUE])
  /\ UNCHANGED whole

LoadCollecting ==
  Loads("collecting", "tick", [snap EXCEPT !.calibrated = ~cal]) /\ UNCHANGED whole

\* tick() and publish(), as far as arming goes: anything in the way disarms, a
\* held START may arm a centred kart, and the kart may disarm on its own.
Blocked == ~snap.connected \/ ~fresh \/ snap.btn.estop \/ ~snap.calibrated

TickArming ==
  /\ ctl = "tick" /\ ctl' = "idle"
  /\ armed' \in IF Blocked THEN {FALSE}
                ELSE {FALSE, armed} \cup {snap.btn.start /\ snap.axis = 0}
  /\ snap' = Neutral
  /\ UNCHANGED <<notControl, whole>>

-----------------------------------------------------------------------------
\* Without power, or before input::init(): no task has begun, and only flash remembers.
Init ==
  /\ link = FALSE /\ bt = "boot" /\ rep = NoReport /\ fresh = FALSE
  /\ connected = FALSE /\ raw = 0 /\ btn = Released
  /\ calibrated = FALSE /\ cx = 0 /\ hx = Unit
  /\ cal = FALSE /\ lo = 0 /\ hi = 0
  /\ web = "boot" /\ leave = FALSE /\ amp = 0
  /\ ctl = "boot" /\ snap = Neutral /\ armed = FALSE /\ whole = FALSE
  /\ \E ok \in BOOLEAN : nvs = [ok |-> ok, cx |-> 0, hx |-> Unit]
  /\ told = IF nvs.ok THEN Unit ELSE Erased

\* The power goes: a calSave under way is cut before or between its two keys.
PowerCut ==
  /\ web # "boot"
  /\ link' = FALSE /\ bt' = "boot" /\ rep' = NoReport /\ fresh' = FALSE
  /\ connected' = FALSE /\ raw' = 0 /\ btn' = Released
  /\ calibrated' = FALSE /\ cx' = 0 /\ hx' = Unit
  /\ cal' = FALSE /\ lo' = 0 /\ hi' = 0
  /\ web' = "boot" /\ leave' = FALSE /\ amp' = 0
  /\ ctl' = "boot" /\ snap' = Neutral /\ armed' = FALSE /\ whole' = FALSE
  /\ told' = IF web \in Unsaved THEN Unsure ELSE told
  /\ UNCHANGED nvs

\* calLoad: the scale and the flag, or for each its initial value when it cannot be read.
CalLoad ==
  \E blob, flag \in BOOLEAN :
    /\ cx' = IF blob THEN nvs.cx ELSE 0
    /\ hx' = IF blob THEN nvs.hx ELSE Unit
    /\ calibrated' = (flag /\ nvs.ok)
    /\ told' = IF blob /\ flag THEN told ELSE Unsure

\* input::init(), and the tasks that begin after it.  The stamp of the last report is 0,
\* and the clock not far from it.
Boot ==
  /\ bt = "boot" /\ web = "boot" /\ ctl = "boot"
  /\ bt' = "idle" /\ web' = "idle" /\ ctl' = "idle"
  /\ fresh' = TRUE
  /\ CalLoad
  /\ UNCHANGED <<link, rep, padVars, cal, extremes, nvs, leave, amp, snap, armed, whole>>

Bluetooth ==
  \/ StoreAxes \/ StoreButtons \/ StoreExtremes \/ Connect \/ BtOnConn0

Pairing ==
  \/ Forget \/ ClearCalibrated \/ ClearState \/ NoNvs \/ SaveBlob \/ SaveFlag
  \/ DropDevice \/ WebOnConn0

Calibration ==
  \/ Capture \/ StoreCentre \/ Collect
  \/ EndCollection \/ Reject \/ Accept \/ Calibrated

Control ==
  \/ GetConnected \/ GetButtons \/ GateCalibrated \/ GateCollecting \/ GetAxis
  \/ LoadCalibrated \/ LoadCollecting \/ TickArming

Next ==
  \/ PadReady \/ PadLost \/ (\E r \in Reports : Stamp(r)) \/ Silence
  \/ Bluetooth
  \/ StartPairing \/ Unpair \/ CalStart \/ CalFinish \/ CalCancel
  \/ Pairing \/ Calibration
  \/ Control
  \/ PowerCut \/ Boot

Spec == Init /\ [][Next]_vars

-----------------------------------------------------------------------------
(* Properties *)

\* Every variable stays in its set.
TypeOK ==
  /\ {link, fresh, connected, calibrated, cal, leave, armed, whole} \subseteq BOOLEAN
  /\ bt \in {"boot", "idle", "axes", "buttons", "extremes", "connect", "lost", "off", "purge"}
  /\ rep \in [x : Commands, btn : Buttons] /\ raw \in Commands /\ btn \in Buttons
  /\ {cx, lo, hi} \subseteq Commands /\ hx \in 1..(2 * Unit) /\ amp \in (-2 * Unit)..(2 * Unit)
  /\ nvs \in [ok : BOOLEAN, cx : Commands, hx : 1..(2 * Unit)]
  /\ told \in {Unsure, Erased} \cup 1..(2 * Unit)
  /\ web \in {"boot", "idle", "forget", "clear", "stop", "saveblob", "saveflag", "drop", "lost",
              "off", "purge", "capture", "centre", "collect", "finish", "verdict", "accepted"}
  /\ ctl \in {"boot", "idle", "buttons", "gate1", "gate2", "axis", "calibrated", "collecting",
              "tick"}
  /\ snap \in [connected : BOOLEAN, btn : Buttons, axis : Commands, calibrated : BOOLEAN]

\* A kart is parked while its gamepad is calibrated: a tick that began and
\* ended inside a collection leaves it disarmed, and the sweeps of the stick
\* never reach the motors (input.cpp:261-270, 361-364).
CollectionParks == [][ctl = "tick" /\ ctl' = "idle" /\ whole => ~armed' /\ snap.axis = 0]_vars

\* What an absent gamepad last said is forgotten, whatever report was being
\* delivered and whoever dropped the link (input.cpp:181-193).
GoneIsForgotten ==
  ~link /\ bt = "idle" => ~connected /\ raw = 0 /\ btn = Released

\* The last verdict, erased or calibrated with a scale, is the one in force after any
\* number of boots, whatever collections were begun and given up since; unless its save
\* was cut or failed, or a boot could not read it, after which an erased calibration may
\* well come back (input.cpp:75-107).
VerdictOutlivesBoots ==
  web = "idle" /\ told # Unsure => told = IF calibrated THEN hx ELSE Erased

\* The claim of input.cpp:355 ("ignored") and input.hpp:55 ("aborts the
\* calibration in progress"): a collection that ends without a verdict changes
\* nothing, so a calibrated gamepad at rest uses the calibration in flash, if flash took
\* it and gave it back.
AbortedCalibrationIsIgnored ==
  calibrated /\ ~cal /\ web = "idle" /\ told # Unsure
    => nvs = [ok |-> TRUE, cx |-> cx, hx |-> hx]
=============================================================================
