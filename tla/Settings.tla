------------------------------- MODULE Settings -------------------------------
(***************************************************************************)
(* The settings (config.cpp): g_cfg under its mutex, saved to flash key by *)
(* key by the one task that writes them: the main task at boot, the web    *)
(* task (httpd serves one request at a time) afterwards.  A flash write    *)
(* has a beginning and an end; in between the cache is suspended (busy).   *)
(*                                                                         *)
(* A setting is a number, in bounds or not, but for a float one, which the *)
(* page or flash may give as not a number: no bound is below or above it.  *)
(***************************************************************************)
EXTENDS Integers, Sequences, Functions

CONSTANT Params     \* PARAMS, in the order of the table
CONSTANT Floats     \* those of type Float
CONSTANT Lo, Hi     \* the bounds of every setting
CONSTANT Default    \* the default of every setting
CONSTANT Asked      \* the values a "set" may carry
CONSTANT Found      \* the values that an older firmware may have left in flash
CONSTANT Missing    \* a key that is not in flash
CONSTANT NotANumber \* the NaN of a float

ASSUME SettingsAssumption ==
  /\ Params \in Seq(Range(Params))
  /\ Floats \subseteq Range(Params)
  /\ {Lo, Hi, Default} \cup Asked \cup Found \subseteq Int
  /\ Lo <= Default /\ Default <= Hi
  /\ Missing \notin Int \cup {NotANumber} /\ NotANumber \notin Int

VARIABLES
  g_cfg,     \* the live settings
  mtx,       \* g_cfg_mtx: "free", or held by the "web" task
  nvs,       \* the keys in flash
  web,       \* the next step of the writing task
  draft,     \* the settings a "set" asks for
  left,      \* configSave: the keys not looked at yet
  busy,      \* a flash write is under way: everything that runs from flash stands still
  lost       \* history: a read of this boot or a write of the last save failed

settingsVars == <<g_cfg, mtx, nvs, web, draft, left, busy, lost>>

Keys     == Range(Params)
WifiKeys == {"sta_ssid", "sta_pass", "sta_en"}
Defaults == [k \in Keys |-> Default]

\* Settings with values of S, or not a number where the type has one.
Settings(S) ==
  {c \in [Keys -> S \cup {NotANumber}] : \A k \in Keys \ Floats : c[k] # NotANumber}

Bounded == Settings(Lo..Hi)

\* Mutant: the upper bound is not looked at.
ClampedLowOnly(c) ==
  [k \in Keys |-> IF c[k] # NotANumber /\ c[k] < Lo THEN Lo ELSE c[k]]

\* clampAll: std::clamp compares, and no comparison with a NaN is true.
Clamped(c) ==
  [k \in Keys |-> IF c[k] = NotANumber THEN c[k]
                  ELSE IF c[k] < Lo THEN Lo ELSE IF c[k] > Hi THEN Hi ELSE c[k]]

\* configLoad: the default for a key that is missing, then clampAll.
Loaded(store) == Clamped([k \in Keys |-> IF store[k] = Missing THEN Default ELSE store[k]])

\* configLoad returns false when no key was found.
Any(store) == \E k \in Keys : store[k] # Missing

-----------------------------------------------------------------------------
\* configUpdate waits for the mutex and stores the draft as it is...
TakeAndStore ==
  /\ web = "update" /\ mtx = "free"
  /\ web' = "clamp" /\ mtx' = "web"
  /\ g_cfg' = draft /\ draft' = Defaults
  /\ UNCHANGED <<nvs, left, busy, lost>>

\* ...and clamps it.
ClampAll ==
  /\ web = "clamp" /\ web' = "open"
  /\ g_cfg' = Clamped(g_cfg)
  /\ UNCHANGED <<mtx, nvs, draft, left, busy, lost>>

\* configSave: nvs_open may fail, and then nothing is saved.
OpenNvs ==
  /\ web = "open" /\ web' = "save"
  /\ \/ left' = Params /\ lost' = FALSE
     \/ left' = <<>> /\ lost' = TRUE
  /\ UNCHANGED <<g_cfg, mtx, nvs, draft, busy>>

\* Mutant: a key that is not in flash yet is left out.
SameInFlashOrMissing(k) == nvs[k] \in {g_cfg[k], Missing}

\* writeFloat: the stored value does not differ; a NaN differs from itself.
SameInFlash(k) == nvs[k] = g_cfg[k] /\ g_cfg[k] # NotANumber

SkipKey ==
  /\ web = "save" /\ ~busy /\ left # <<>>
  /\ SameInFlash(Head(left))
  /\ left' = Tail(left)
  /\ UNCHANGED <<g_cfg, mtx, nvs, web, draft, busy, lost>>

\* It differs, or could not be read.
WriteKey ==
  /\ web = "save" /\ ~busy /\ left # <<>>
  /\ busy' = TRUE
  /\ UNCHANGED <<g_cfg, mtx, nvs, web, draft, left, lost>>

\* nvs_set_blob ends; its error is not looked at.
KeyWritten ==
  /\ web = "save" /\ busy
  /\ busy' = FALSE /\ left' = Tail(left)
  /\ \/ nvs' = [nvs EXCEPT ![Head(left)] = g_cfg[Head(left)]] /\ UNCHANGED lost
     \/ lost' = TRUE /\ UNCHANGED nvs
  /\ UNCHANGED <<g_cfg, mtx, web, draft>>

\* Mutant: the mutex is kept when a write failed.
EndSaveKeepsMutex ==
  /\ web = "save" /\ ~busy /\ left = <<>>
  /\ web' = "idle"
  /\ mtx' = IF lost THEN mtx ELSE "free"
  /\ UNCHANGED <<g_cfg, nvs, draft, left, busy, lost>>

EndSave ==
  /\ web = "save" /\ ~busy /\ left = <<>>
  /\ web' = "idle" /\ mtx' = "free"
  /\ UNCHANGED <<g_cfg, nvs, draft, left, busy, lost>>

Saving == SkipKey \/ WriteKey \/ KeyWritten \/ EndSave

\* configInit: what can be read of flash (nothing when nvs_open fails), or the
\* defaults, which are then saved.
ConfigInit ==
  \E unread \in SUBSET Keys :
    LET seen == [k \in Keys |-> IF k \in unread THEN Missing ELSE nvs[k]]
    IN  /\ g_cfg' = IF Any(seen) THEN Loaded(seen) ELSE Defaults
        /\ web' = IF Any(seen) THEN "idle" ELSE "open"
        /\ lost' = (seen # nvs)

\* The settings in RAM after a reset; flash keeps its keys.
SettingsReset(g, m, w, d, l, b, x) ==
  g = Defaults /\ m = "free" /\ w = "idle" /\ d = Defaults /\ l = <<>> /\ b = FALSE /\ x = FALSE

SettingsTypeOK ==
  /\ g_cfg \in Settings(Int) /\ draft \in Settings(Int)
  /\ nvs \in Settings(Lo..Hi \cup Found \cup {Missing})
  /\ left \in Seq(Keys \cup WifiKeys)
  /\ mtx \in {"free", "web"}
  /\ {busy, lost} \subseteq BOOLEAN
=============================================================================
