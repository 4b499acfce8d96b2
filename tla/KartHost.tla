------------------------------- MODULE KartHost -------------------------------
(***************************************************************************)
(* One board: the control task (EspController::tickOnce) with the motors   *)
(* it commands, the settings and status it shares with the web task, the   *)
(* web requests that write flash ("set", "wifiset", the OTA upload),       *)
(* resets and power cuts.  Of the control core only what DeadMan promises  *)
(* of power is kept; KartController implements that: any such core will do.*)
(*                                                                         *)
(* The mutexes of the status are held for a copy: each is one step.  While *)
(* flash is written (busy) the control task, which runs from flash, stands *)
(* still.                                                                  *)
(***************************************************************************)
EXTENDS Motors, Settings

VARIABLES
  armed,     \* m_armed of the control core
  ctl,       \* the control task's next step; "off" and "boot" before it exists
  used,      \* the settings given to m_ctrl, until the tick that works with them
  out,       \* the CtrlOutputs of the tick, until it is published
  arming,    \* KartStatus::m_arming, what the web task can read
  grace      \* history: the status turned armed behind the back of this request

controlVars == <<armed, ctl, used, out, arming, motorVars>>
vars == <<controlVars, settingsVars, grace>>

Released == [dyn_brake |-> TRUE, cmd |-> [w \in Wheels |-> 0]]

\* The web task has passed its armed check, and has flash still to write.
PastCheck == web \in {"update", "clamp", "open", "save", "wifi", "otawrite", "otaend"}

-----------------------------------------------------------------------------
(* The control task *)

\* Mutant: the settings are copied without their mutex.
ConfigSnapshotUnlocked ==
  /\ ctl = "config" /\ ~busy
  /\ ctl' = "tick" /\ used' = g_cfg
  /\ UNCHANGED <<armed, out, arming, motorVars, settingsVars, grace>>

\* configSnapshot waits for the mutex, for as long as a save takes.
ConfigSnapshot ==
  /\ ctl = "config" /\ ~busy /\ mtx = "free"
  /\ ctl' = "tick" /\ used' = g_cfg
  /\ UNCHANGED <<armed, out, arming, motorVars, settingsVars, grace>>

\* What a step of DeadMan does, power being whether the motors are given PWM: only out
\* of an armed state or by arming.
CoreTick(power) == armed' \in BOOLEAN /\ power \in {FALSE, armed \/ armed'}

\* tick, whose last call is applyOutputs.
Tick ==
  /\ ctl = "tick" /\ ~busy
  /\ ctl' = "outputs"
  /\ \/ /\ CoreTick(TRUE)
        /\ \E d \in Drives : out' = [dyn_brake |-> FALSE, cmd |-> d] /\ todo' = SetWrites(d)
     \/ /\ CoreTick(FALSE)
        /\ out' = Released /\ todo' = BrakeWrites
  /\ used' = Defaults
  /\ UNCHANGED <<arming, pins, cache, settingsVars, grace>>

\* One register of initMotors, motorsSet or motorsBrake.
Output ==
  /\ ctl \in {"init", "outputs"} /\ ~busy
  /\ WriteRegister
  /\ ctl' = IF todo' # <<>> THEN ctl ELSE IF ctl = "init" THEN "config" ELSE "publish"
  /\ UNCHANGED <<armed, used, out, arming, settingsVars, grace>>

\* publish: from here on the web task reads the new state.
Publish ==
  /\ ctl = "publish" /\ ~busy
  /\ ctl' = "config"
  /\ arming' = armed
  /\ grace' = IF armed /\ ~arming THEN PastCheck ELSE grace
  /\ out' = Released
  /\ UNCHANGED <<armed, used, motorVars, settingsVars>>

Control == ConfigSnapshot \/ Tick \/ Output \/ Publish

-----------------------------------------------------------------------------
(* The web task: one request at a time, served from webServerStart on *)

Serving == web = "idle" /\ ctl \notin {"off", "boot"}

Receive(first, asked) ==
  /\ Serving
  /\ web' = first /\ draft' = asked
  /\ UNCHANGED <<g_cfg, mtx, nvs, left, busy, lost>>

\* "set": the pairs it carries are decoded into a copy of the settings, which the
\* web task alone changes (cfgSet narrows what it is given to the type of the
\* setting, and a float takes a NaN as it is); "wifiset"; POST /ota.
SetRequest ==
  \E given \in SUBSET Keys, c \in Settings(Asked) :
    Receive("set", [k \in Keys |-> IF k \in given THEN c[k] ELSE g_cfg[k]])
WifiRequest == Receive("wifiset", draft)
OtaRequest  == Receive("ota", draft)

Passes(from, to) ==
  /\ web = from
  /\ IF arming THEN web' = "idle" /\ draft' = Defaults
     ELSE web' = to /\ UNCHANGED draft
  /\ left' = IF to = "wifi" /\ ~arming THEN <<"sta_ssid", "sta_pass", "sta_en">> ELSE left
  /\ UNCHANGED <<g_cfg, mtx, nvs, busy, lost>>

\* Mutant: the upload is checked when it begins, and never again.
CheckOncePerUpload == Passes("set", "update") \/ Passes("wifiset", "wifi") \/ Passes("ota", "recv")
                      \/ (web = "chunk" /\ web' = "otawrite"
                            /\ UNCHANGED <<g_cfg, mtx, nvs, draft, left, busy, lost>>)

\* statusSnapshot().m_arming: before the update, before the credentials, before
\* esp_ota_begin and before each chunk of the image.
Check == Passes("set", "update") \/ Passes("wifiset", "wifi") \/ Passes("ota", "recv")
         \/ Passes("chunk", "otawrite")

\* A chunk arrives, or the upload is interrupted.
Recv ==
  /\ web = "recv"
  /\ web' \in {"chunk", "idle"}
  /\ UNCHANGED <<g_cfg, mtx, nvs, draft, left, busy, lost>>

\* configSetWifi, esp_ota_write, esp_ota_end with esp_ota_set_boot_partition.
BeginWrite ==
  /\ web \in {"wifi", "otawrite", "otaend"} /\ ~busy
  /\ busy' = TRUE
  /\ UNCHANGED <<g_cfg, mtx, nvs, web, draft, left, lost>>

\* The errors of nvs_set_* are not looked at, those of the OTA calls end it.
EndWrite ==
  /\ web \in {"wifi", "otawrite", "otaend"} /\ busy
  /\ busy' = FALSE
  /\ left' = IF web = "wifi" THEN Tail(left) ELSE left
  /\ web' \in CASE web = "wifi"     -> IF left' = <<>> THEN {"idle"} ELSE {"wifi"}
                [] web = "otawrite" -> {"recv", "otaend", "idle"}
                [] web = "otaend"   -> {"reboot", "idle"}
  /\ UNCHANGED <<g_cfg, mtx, nvs, draft, lost>>

Writing == TakeAndStore \/ ClampAll \/ OpenNvs \/ Saving \/ BeginWrite \/ EndWrite

Beside == grace' = (grace /\ PastCheck') /\ UNCHANGED controlVars

WebAsks   == (SetRequest \/ WifiRequest \/ OtaRequest \/ Check \/ Recv) /\ Beside
WebWrites == Writing /\ Beside
Web       == WebAsks \/ WebWrites

-----------------------------------------------------------------------------
(* Resets and boots *)

\* The power goes, or esp_restart after an upload or on request: only flash
\* stays.  A write under way is done or undone (NVS entries are atomic).
Reset ==
  /\ ctl # "off" /\ ctl' = "off"
  /\ nvs' \in {nvs} \cup (IF web = "save" /\ busy
                          THEN {[nvs EXCEPT ![Head(left)] = g_cfg[Head(left)]]} ELSE {})
  /\ MotorsReset(pins', cache', todo')
  /\ SettingsReset(g_cfg', mtx', web', draft', left', busy', lost')
  /\ armed' = FALSE /\ arming' = FALSE /\ grace' = FALSE
  /\ used' = Defaults /\ out' = Released

\* configInit, then (with the web server up) Controller::init and start.
BootConfig ==
  /\ ctl = "off" /\ ctl' = "boot"
  /\ ConfigInit
  /\ UNCHANGED <<armed, used, out, arming, motorVars, mtx, nvs, draft, left, busy, grace>>

StartControl ==
  /\ ctl = "boot" /\ web = "idle"
  /\ ctl' = "init" /\ todo' = InitWrites
  /\ UNCHANGED <<armed, used, out, arming, pins, cache, settingsVars, grace>>

-----------------------------------------------------------------------------
Init ==
  /\ ctl = "off"
  /\ nvs \in Settings(Found \cup {Missing})
  /\ MotorsReset(pins, cache, todo)
  /\ SettingsReset(g_cfg, mtx, web, draft, left, busy, lost)
  /\ armed = FALSE /\ arming = FALSE /\ grace = FALSE
  /\ used = Defaults /\ out = Released

Next == Control \/ Web \/ Reset \/ BootConfig \/ StartControl

Spec == Init /\ [][Next]_vars

\* The control task is the highest priority of its core, and FreeRTOS gives a mutex
\* to the highest priority that waits for it (SF); a request that has begun to
\* write goes on to its end.  Nobody has to send one, and an upload may stall.
FairSpec == Spec /\ SF_vars(ConfigSnapshot) /\ WF_vars(WebWrites)

-----------------------------------------------------------------------------
(* Properties *)

WebSteps     == {"idle", "set", "wifiset", "ota", "recv", "chunk", "reboot", "update", "clamp",
                 "open", "save", "wifi", "otawrite", "otaend"}
ControlSteps == {"off", "boot", "init", "config", "tick", "outputs", "publish"}

\* Every variable stays in its set: no key is ever written to flash with a number out
\* of bounds, whatever older ones are there.
TypeOK ==
  /\ MotorsTypeOK /\ SettingsTypeOK
  /\ todo \in Seq(Writes)
  /\ out \in [dyn_brake : BOOLEAN, cmd : [Wheels -> Int]]
  /\ used \in Settings(Int)
  /\ ctl \in ControlSteps /\ web \in WebSteps
  /\ {armed, arming, grace} \subseteq BOOLEAN

\* The core is never given half of an update, nor a number out of bounds, whatever the
\* page asks for, flash has kept or cannot be read; a float setting may be no number at
\* all, which the clamp lets through (config.cpp:82-144, config_params.cpp:100-107).
CoreSeesBounded == used \in Bounded

\* What the kart drives with is what it would boot with, whatever saves were cut,
\* unless a read of this boot or a write of the last save failed
\* (config.cpp:49-121).
AtRestDurable ==
  web = "idle" /\ ctl # "off" /\ ~lost => g_cfg = Loaded(nvs)

\* The registers say what the tick commanded, although a write is skipped when
\* the caches have its value (hardware.cpp:57-79, 126-160).
PinsObeyTick ==
  ctl = "publish" =>
    \A w \in Wheels :
      pins[w] = IF out.dyn_brake THEN Grounded[w]
                ELSE [dir |-> DirOf(out.cmd[w]), duty |-> DutyOf(out.cmd[w])]

\* A brake never drives a wheel the other way for a moment: no direction changes
\* while its duty is on (hardware.cpp:152-160).
BrakeNeverDrives ==
  [][ \A w \in Wheels :
        pins[w].dir # pins'[w].dir /\ pins'[w].duty > 0 => ~out.dyn_brake ]_vars

\* Once the status says armed, only the request that was past its check at that
\* moment may still write flash: the next request, and the next chunk of an
\* upload, are refused (webserver.cpp:810, 842, 866, 888).
LateWriteIsOld == busy /\ arming => grace

\* A save does not block the control task for good, whatever fails in it
\* (config.cpp:123-144).
ControlKeepsTicking == ctl = "config" ~> ctl # "config"
=============================================================================
