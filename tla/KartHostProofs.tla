---------------------------- MODULE KartHostProofs ----------------------------
(***************************************************************************)
(* Theorems about KartHost, for every table of settings, every range of    *)
(* their values and every set of wheel commands.                           *)
(*                                                                         *)
(* The inductive invariant has three parts: what the settings, flash and   *)
(* the writing task are to each other; what the registers, the caches and  *)
(* the writes still to make are to the tick; and who may write flash.      *)
(***************************************************************************)
EXTENDS KartHost, SequenceTheorems, TLAPS

Requests == {"idle", "set", "wifiset", "ota", "recv", "chunk", "reboot"}
Updates  == {"update", "clamp", "open", "save"}
Flashing == {"wifi", "otawrite", "otaend"}

\* The settings are in bounds but for the moment between the store of a draft and its
\* clamping, which the mutex hides.
LiveBounded ==
  /\ g_cfg \in Settings(Int) /\ draft \in Settings(Int)
  /\ web # "clamp" => g_cfg \in Bounded
  /\ web = "clamp" => mtx = "web"
  /\ used \in Bounded

\* A save has still to look at the keys that flash does not have as they are.
SavedSoFar ==
  /\ web = "save" => left \in Seq(Keys)
  /\ web = "save" /\ ~lost => \A k \in Keys : nvs[k] = g_cfg[k] \/ \E i \in 1..Len(left) : left[i] = k
  /\ ctl # "off" /\ ~lost /\ web \notin {"clamp", "open", "save"} => g_cfg = Loaded(nvs)

\* Flash is written by the web task past its check, which the status then armed
\* leaves no other than the one it found there.
WriterChecked ==
  /\ web \in Requests \cup Updates \cup Flashing
  /\ ctl \in {"off", "boot", "init", "config", "tick", "outputs", "publish"}
  /\ ctl = "off" => web = "idle" /\ arming = FALSE
  /\ busy => web \in {"save"} \cup Flashing
  /\ busy /\ web = "save" => left # <<>>
  /\ web = "wifi" => left # <<>>
  /\ PastCheck /\ arming => grace

\* What the tick wants of a register.
Wanted(w, reg) ==
  IF out.dyn_brake THEN 0
  ELSE IF reg = "dir" THEN DirOf(out.cmd[w]) ELSE DutyOf(out.cmd[w])

Left(w, reg) == \E i \in 1..Len(todo) : todo[i].wheel = w /\ todo[i].reg = reg

\* A cache knows its register or nothing.
CacheTrue == \A w \in Wheels, reg \in Regs : cache[w][reg] \in {pins[w][reg], Unknown}

\* A register has what the tick wants, or its write is still to come; a brake has
\* the duties behind it when it comes to the directions.
OutputsOnTheWay ==
  /\ todo \in Seq(Writes)
  /\ (ctl \in {"init", "outputs"}) = (todo # <<>>)
  /\ out \in [dyn_brake : BOOLEAN, cmd : [Wheels -> Int]]
  /\ ctl = "outputs" => \A i \in 1..Len(todo) : todo[i].val = Wanted(todo[i].wheel, todo[i].reg)
  /\ ctl \in {"outputs", "publish"} =>
       \A w \in Wheels, reg \in Regs : pins[w][reg] = Wanted(w, reg) \/ Left(w, reg)
  /\ ctl = "outputs" /\ out.dyn_brake =>
       \A i, j \in 1..Len(todo) : i <= j /\ todo[i].reg = "dir" => todo[j].reg = "dir"

\* Before the control task runs nothing drives.
StartsGrounded ==
  /\ ctl \in {"off", "boot", "init"} => \A w \in Wheels : pins[w].duty = 0
  /\ ctl = "init" => \A i \in 1..Len(todo) : todo[i].reg = "duty" => todo[i].val = 0

SettingsInv == SettingsTypeOK /\ LiveBounded /\ SavedSoFar /\ WriterChecked
OutputsInv  == MotorsTypeOK /\ CacheTrue /\ OutputsOnTheWay /\ StartsGrounded
IInv        == TypeOK /\ SettingsInv /\ OutputsInv

-----------------------------------------------------------------------------
(* The settings *)

\* The constants, as the provers need them.
LEMMA ConstantFacts ==
  /\ Lo \in Int /\ Hi \in Int /\ Default \in Lo..Hi /\ Asked \subseteq Int /\ Found \subseteq Int
  /\ Missing \notin Int /\ NotANumber \notin Int /\ Missing # NotANumber
  /\ Floats \subseteq Keys /\ Params \in Seq(Keys)
  BY SettingsAssumption DEF Keys

\* A wider range of numbers has all the settings of a narrower one.
LEMMA SettingsWiden ==
  ASSUME NEW S, NEW T, S \subseteq T
  PROVE  Settings(S) \subseteq Settings(T)
  BY DEF Settings

\* The defaults are in bounds, and what is in bounds is numbers and NaN.
LEMMA BoundedFacts ==
  /\ Defaults \in Bounded /\ Bounded \subseteq Settings(Int) /\ Defaults \in Settings(Int)
  /\ Bounded \subseteq Settings(Lo..Hi \cup Found \cup {Missing})
<1>1. Defaults \in Bounded
  BY ConstantFacts DEF Defaults, Bounded, Settings
<1>2. Bounded \subseteq Settings(Int) /\ Bounded \subseteq Settings(Lo..Hi \cup Found \cup {Missing})
  <2>1. Lo..Hi \subseteq Int /\ Lo..Hi \subseteq Lo..Hi \cup Found \cup {Missing}
    BY ConstantFacts
  <2> QED
    BY <2>1, SettingsWiden DEF Bounded
<1> QED
  BY <1>1, <1>2

\* clampAll puts settings in bounds, and changes none that are.
LEMMA ClampedFacts ==
  ASSUME NEW c \in Settings(Int)
  PROVE  Clamped(c) \in Bounded /\ (c \in Bounded => Clamped(c) = c)
<1>1. c \in [Keys -> Int \cup {NotANumber}] /\ \A k \in Keys \ Floats : c[k] # NotANumber
  BY DEF Settings
<1>2. Clamped(c) \in Bounded
  BY <1>1, ConstantFacts DEF Clamped, Bounded, Settings
<1>3. ASSUME c \in Bounded PROVE Clamped(c) = c
  <2>1. c \in [Keys -> Lo..Hi \cup {NotANumber}]
    BY <1>3 DEF Bounded, Settings
  <2> QED
    BY <2>1, ConstantFacts DEF Clamped
<1> QED
  BY <1>2, <1>3

\* What configLoad finds is put in bounds, and is what was saved when no key is missing.
LEMMA LoadedFacts ==
  ASSUME NEW store \in Settings(Lo..Hi \cup Found \cup {Missing})
  PROVE  Loaded(store) \in Bounded /\ (store \in Bounded => Loaded(store) = store)
<1> DEFINE c == [k \in Keys |-> IF store[k] = Missing THEN Default ELSE store[k]]
<1>1. c \in Settings(Int)
  <2>1. ASSUME NEW k \in Keys
        PROVE  c[k] \in Int \cup {NotANumber} /\ (k \notin Floats => c[k] # NotANumber)
    <3>1. store[k] \in Lo..Hi \cup Found \cup {Missing} \cup {NotANumber}
      BY DEF Settings
    <3>2. k \notin Floats => store[k] # NotANumber
      BY DEF Settings
    <3>3. c[k] = IF store[k] = Missing THEN Default ELSE store[k]
      OBVIOUS
    <3> HIDE DEF c
    <3>4. Default \in Int /\ Default # NotANumber /\ Lo..Hi \subseteq Int
      BY ConstantFacts
    <3> QED
      BY <3>1, <3>2, <3>3, <3>4, ConstantFacts
  <2> QED
    BY <2>1 DEF Settings
<1>2. ASSUME store \in Bounded PROVE c = store
  <2>1. store \in [Keys -> Lo..Hi \cup {NotANumber}]
    BY <1>2 DEF Bounded, Settings
  <2> QED
    BY <2>1, ConstantFacts
<1> QED
  BY <1>1, <1>2, ClampedFacts DEF Loaded

\* The keys to save are among those that may be to write.
LEMMA SavedLeft ==
  ASSUME NEW s \in Seq(Keys)
  PROVE  s \in Seq(Keys \cup WifiKeys)
<1>1. Keys \subseteq Keys \cup WifiKeys
  OBVIOUS
<1> QED
  BY <1>1, SeqMonotonic

\* What a boot can read of flash is like what flash has.
LEMMA UnreadFacts ==
  ASSUME NEW store \in Settings(Lo..Hi \cup Found \cup {Missing}), NEW unread
  PROVE  [k \in Keys |-> IF k \in unread THEN Missing ELSE store[k]]
           \in Settings(Lo..Hi \cup Found \cup {Missing})
  BY ConstantFacts DEF Settings

\* Looking at the first key leaves the others to be looked at.
LEMMA NextKey ==
  ASSUME NEW S, NEW s \in Seq(S), s # <<>>
  PROVE  /\ Head(s) \in S /\ Tail(s) \in Seq(S)
         /\ \A x : (\E i \in 1..Len(s) : s[i] = x)
                     => x = Head(s) \/ \E i \in 1..Len(Tail(s)) : Tail(s)[i] = x
<1>1. /\ Head(s) \in S /\ Tail(s) \in Seq(S) /\ Len(Tail(s)) = Len(s) - 1 /\ Len(s) \in Nat
      /\ \A i \in 1..Len(Tail(s)) : Tail(s)[i] = s[i + 1]
  BY HeadTailProperties, LenProperties
<1>2. Head(s) = s[1]
  OBVIOUS
<1>3. ASSUME NEW i \in 1..Len(s), i # 1
      PROVE  i - 1 \in 1..Len(Tail(s)) /\ Tail(s)[i - 1] = s[i]
  BY <1>1, <1>3
<1> QED
  BY <1>1, <1>2, <1>3

\* A step that leaves settings and flash alone, and does not free a flash write from
\* the web task's check, keeps the settings in order.
LEMMA SettingsKept ==
  ASSUME SettingsInv, UNCHANGED settingsVars, ctl # "off", ctl' # "off",
         used' \in Bounded, ctl' \in {"init", "config", "tick", "outputs", "publish"},
         PastCheck /\ arming' => grace'
  PROVE  SettingsInv'
<1>1. SettingsTypeOK'
  BY DEF SettingsInv, SettingsTypeOK, settingsVars, Keys
<1>2. LiveBounded'
  BY DEF SettingsInv, LiveBounded, settingsVars, Keys, Settings, Bounded
<1>3. SavedSoFar'
  BY DEF SettingsInv, SavedSoFar, settingsVars, Keys, Loaded, Clamped
<1>4. WriterChecked'
  BY DEF SettingsInv, WriterChecked, settingsVars, PastCheck, Flashing
<1> QED
  BY <1>1, <1>2, <1>3, <1>4 DEF SettingsInv

\* The control task reads settings that are legal when the mutex is free, and its
\* status arms behind the back of the request under way only.
LEMMA ControlSettings == IInv /\ Control => SettingsInv'
<1> SUFFICES ASSUME IInv, Control PROVE SettingsInv'
  OBVIOUS
<1> USE DEF IInv
<1>1. CASE ConfigSnapshot
  <2>1. used' \in Bounded
    BY <1>1 DEF ConfigSnapshot, SettingsInv, LiveBounded
  <2> QED
    BY <1>1, <2>1, SettingsKept DEF ConfigSnapshot, SettingsInv, WriterChecked
<1>2. CASE Tick
  BY <1>2, SettingsKept, BoundedFacts DEF Tick, SettingsInv, WriterChecked
<1>3. CASE Output
  BY <1>3, SettingsKept DEF Output, SettingsInv, WriterChecked, LiveBounded
<1>4. CASE Publish
  <2>1. PastCheck /\ arming' => grace'
    BY <1>4 DEF Publish, SettingsInv, WriterChecked
  <2> QED
    BY <1>4, <2>1, SettingsKept DEF Publish, SettingsInv, LiveBounded
<1> QED
  BY <1>1, <1>2, <1>3, <1>4 DEF Control

\* Of the web task, what its steps have in common.
LEMMA WebFrame ==
  ASSUME IInv, Web,
         SettingsTypeOK', LiveBounded', SavedSoFar',
         web' \in Requests \cup Updates \cup Flashing,
         web' = "wifi" => left' # <<>>,
         web # "idle" \/ ctl \notin {"off", "boot"},
         busy' => web' \in {"save"} \cup Flashing,
         busy' /\ web' = "save" => left' # <<>>,
         PastCheck' => PastCheck \/ ~arming
  PROVE  SettingsInv'
<1>1. UNCHANGED <<ctl, arming>> /\ grace' = (grace /\ PastCheck')
  BY DEF Web, WebAsks, WebWrites, Beside, controlVars
<1>2. PastCheck' /\ arming' => grace'
  BY <1>1 DEF IInv, SettingsInv, WriterChecked
<1>3. WriterChecked'
  BY <1>1, <1>2 DEF IInv, SettingsInv, WriterChecked
<1> QED
  BY <1>3 DEF SettingsInv

\* A request that arrives, is refused or goes on, but touches no settings.
LEMMA RequestSettings ==
  ASSUME IInv, Web,
         UNCHANGED <<g_cfg, mtx, nvs, lost>>, draft' \in Settings(Int),
         left' \in Seq(Keys \cup WifiKeys), web' = "wifi" => left' # <<>>,
         web \in Requests \cup Flashing, web' \in Requests \cup Flashing \cup {"update"},
         web # "idle" \/ ctl \notin {"off", "boot"},
         busy' \in BOOLEAN, busy' => web' \in Flashing,
         PastCheck' => PastCheck \/ ~arming
  PROVE  SettingsInv'
<1>1. UNCHANGED <<ctl, used>>
  BY DEF Web, WebAsks, WebWrites, Beside, controlVars
<1>2. SettingsTypeOK'
  BY DEF IInv, SettingsInv, SettingsTypeOK, Keys
<1>3. LiveBounded'
  BY <1>1 DEF IInv, SettingsInv, LiveBounded, Keys, Settings, Bounded, Requests, Flashing
<1>4. SavedSoFar'
  BY <1>1 DEF IInv, SettingsInv, SavedSoFar, Keys, Requests, Flashing, Loaded, Clamped
<1> QED
  BY <1>2, <1>3, <1>4, WebFrame DEF Requests, Updates, Flashing

\* Receiving, checking, and the flash writes that are not the settings'.
LEMMA RequestsSettings ==
  ASSUME IInv, Web, SetRequest \/ WifiRequest \/ OtaRequest \/ Check \/ Recv \/ BeginWrite \/ EndWrite
  PROVE  SettingsInv'
<1> USE DEF IInv, SettingsInv, SettingsTypeOK
<1>0. Defaults \in Settings(Int) /\ draft \in Settings(Int) /\ g_cfg \in Settings(Int)
  BY BoundedFacts DEF LiveBounded
<1>1. CASE SetRequest
  <2>1. PICK given \in SUBSET Keys, c \in Settings(Asked) :
          Receive("set", [k \in Keys |-> IF k \in given THEN c[k] ELSE g_cfg[k]])
    BY <1>1 DEF SetRequest
  <2>2. draft' \in Settings(Int)
    BY <1>0, <2>1, ConstantFacts DEF Receive, Settings
  <2> QED
    BY <2>1, <2>2, RequestSettings DEF Receive, Serving, WriterChecked, PastCheck, Requests, Flashing
<1>2. CASE WifiRequest \/ OtaRequest
  <2>1. draft' = draft /\ UNCHANGED <<g_cfg, mtx, nvs, left, busy, lost>> /\ web' \in {"wifiset", "ota"}
        /\ web = "idle" /\ ctl \notin {"off", "boot"}
    BY <1>2 DEF WifiRequest, OtaRequest, Receive, Serving
  <2> QED
    BY <1>0, <2>1, RequestSettings DEF WriterChecked, PastCheck, Requests, Flashing
<1>3. CASE Check
  <2>1. /\ web \in {"set", "wifiset", "ota", "chunk"}
        /\ UNCHANGED <<g_cfg, mtx, nvs, busy, lost>>
        /\ draft' \in {draft, Defaults}
        /\ web' \in {"idle", "update", "wifi", "recv", "otawrite"} /\ (arming => web' = "idle")
        /\ left' = IF web' = "wifi" THEN <<"sta_ssid", "sta_pass", "sta_en">> ELSE left
    BY <1>3 DEF Check, Passes
  <2>2. left' \in Seq(Keys \cup WifiKeys) /\ (web' = "wifi" => left' # <<>>)
    <3>1. <<"sta_ssid", "sta_pass", "sta_en">> \in Seq(Keys \cup WifiKeys)
      BY DEF WifiKeys
    <3>2. <<"sta_ssid", "sta_pass", "sta_en">> # <<>>
      OBVIOUS
    <3> QED
      BY <2>1, <3>1, <3>2
  <2> HIDE DEF SettingsTypeOK
  <2>3. busy' \in BOOLEAN /\ (busy' => web' \in Flashing) /\ (PastCheck' => ~arming)
    BY <2>1 DEF SettingsTypeOK, WriterChecked, PastCheck, Flashing
  <2> QED
    BY <1>0, <2>1, <2>2, <2>3, RequestSettings DEF Requests, Flashing
<1>4. CASE Recv
  BY <1>0, <1>4, RequestSettings DEF Recv, WriterChecked, PastCheck, Requests, Flashing
<1>5. CASE BeginWrite
  BY <1>0, <1>5, RequestSettings DEF BeginWrite, WriterChecked, PastCheck, Requests, Flashing
<1>6. CASE EndWrite
  <2>1. web' \in {"idle", "wifi", "recv", "otaend", "reboot"} /\ web \in Flashing
    BY <1>6 DEF EndWrite, Flashing
  <2>2. left' \in Seq(Keys \cup WifiKeys) /\ (web' = "wifi" => left' # <<>>)
    <3>1. CASE web = "wifi"
      <4>1. left # <<>> /\ left' = Tail(left) /\ web' \in IF left' = <<>> THEN {"idle"} ELSE {"wifi"}
        BY <1>6, <3>1 DEF EndWrite, WriterChecked
      <4> QED
        BY <4>1, HeadTailProperties
    <3>2. CASE web # "wifi"
      BY <1>6, <3>2 DEF EndWrite
    <3> QED
      BY <3>1, <3>2
  <2> QED
    BY <1>0, <1>6, <2>1, <2>2, RequestSettings DEF EndWrite, WriterChecked, PastCheck, Requests, Flashing
<1> QED
  BY <1>1, <1>2, <1>3, <1>4, <1>5, <1>6

\* configUpdate up to the save: the draft is stored, clamped, and flash opened.
LEMMA UpdateSettings ==
  ASSUME IInv, Web, TakeAndStore \/ ClampAll \/ OpenNvs
  PROVE  SettingsInv'
<1> USE DEF IInv, SettingsInv
<1>0. UNCHANGED <<ctl, used>> /\ Defaults \in Settings(Int)
  BY BoundedFacts DEF Web, WebAsks, WebWrites, Beside, controlVars
<1>1. CASE TakeAndStore
  <2>1. SettingsTypeOK' /\ LiveBounded' /\ SavedSoFar'
    BY <1>0, <1>1 DEF TakeAndStore, SettingsTypeOK, LiveBounded, SavedSoFar, Keys, Settings, Bounded
  <2> QED
    BY <1>1, <2>1, WebFrame DEF TakeAndStore, WriterChecked, Updates, PastCheck, Flashing
<1>2. CASE ClampAll
  <2>1. g_cfg' \in Bounded /\ g_cfg' \in Settings(Int)
    BY <1>2, ClampedFacts, BoundedFacts DEF ClampAll, LiveBounded
  <2>2. SettingsTypeOK' /\ LiveBounded' /\ SavedSoFar'
    BY <1>0, <1>2, <2>1 DEF ClampAll, SettingsTypeOK, LiveBounded, SavedSoFar, Keys, Settings, Bounded
  <2> QED
    BY <1>2, <2>2, WebFrame DEF ClampAll, WriterChecked, Updates, PastCheck, Flashing
<1>3. CASE OpenNvs
  <2>0. left' \in Seq(Keys) /\ left' \in Seq(Keys \cup WifiKeys)
    BY <1>3, ConstantFacts, SavedLeft, EmptySeq DEF OpenNvs
  <2>1. SettingsTypeOK' /\ LiveBounded'
    BY <1>0, <1>3, <2>0 DEF OpenNvs, SettingsTypeOK, LiveBounded, Keys, Settings, Bounded
  <2>2. SavedSoFar'
    <3>1. \A k \in Keys : \E i \in 1..Len(Params) : Params[i] = k
      BY ConstantFacts DEF Keys, Range
    <3>2. web' = "save" /\ left' \in Seq(Keys) /\ (~lost' => left' = Params)
      BY <1>3, ConstantFacts, EmptySeq DEF OpenNvs
    <3> QED
      BY <1>0, <3>1, <3>2 DEF SavedSoFar, Keys
  <2> QED
    BY <1>3, <2>1, <2>2, WebFrame DEF OpenNvs, WriterChecked, Updates, PastCheck, Flashing
<1> QED
  BY <1>1, <1>2, <1>3

\* configSave, key by key.
LEMMA SavingSettings ==
  ASSUME IInv, Web, Saving
  PROVE  SettingsInv'
<1> USE DEF IInv, SettingsInv
<1>0. UNCHANGED <<ctl, used, g_cfg, draft>> /\ web = "save" /\ g_cfg \in Bounded /\ left \in Seq(Keys)
  BY DEF Web, WebAsks, WebWrites, Beside, controlVars, Saving, SkipKey, WriteKey, KeyWritten, EndSave, LiveBounded, SavedSoFar
<1>1. LiveBounded'
  BY <1>0 DEF Saving, SkipKey, WriteKey, KeyWritten, EndSave, LiveBounded, Keys, Settings, Bounded
<1>2. CASE SkipKey
  <2>1. SettingsTypeOK'
    BY <1>2 DEF SkipKey, SettingsTypeOK, Keys
  <2>2. SavedSoFar'
    <3>1. /\ left # <<>> /\ left' = Tail(left) /\ nvs[Head(left)] = g_cfg[Head(left)]
          /\ UNCHANGED <<g_cfg, nvs, web, lost>>
      BY <1>2 DEF SkipKey, SameInFlash
    <3>2. /\ left' \in Seq(Keys)
          /\ \A k : (\E i \in 1..Len(left) : left[i] = k)
                     => k = Head(left) \/ \E i \in 1..Len(left') : left'[i] = k
      BY <1>0, <3>1, NextKey
    <3>3. ~lost => \A k \in Keys : nvs[k] = g_cfg[k] \/ \E i \in 1..Len(left') : left'[i] = k
      BY <1>0, <3>1, <3>2 DEF SavedSoFar
    <3> QED
      BY <1>0, <3>1, <3>2, <3>3 DEF SavedSoFar, Keys
  <2> QED
    BY <1>1, <1>2, <2>1, <2>2, WebFrame DEF SkipKey, WriterChecked, Updates, PastCheck, Flashing
<1>3. CASE WriteKey
  <2>1. SettingsTypeOK' /\ SavedSoFar'
    BY <1>0, <1>3 DEF WriteKey, SettingsTypeOK, SavedSoFar, Keys
  <2> QED
    BY <1>1, <1>3, <2>1, WebFrame DEF WriteKey, WriterChecked, Updates, PastCheck, Flashing
<1>4. CASE KeyWritten
  <2>1. left # <<>>
    BY <1>4 DEF KeyWritten, WriterChecked
  <2>2. /\ Head(left) \in Keys /\ g_cfg[Head(left)] \in Lo..Hi \cup {NotANumber}
        /\ g_cfg[Head(left)] = NotANumber => Head(left) \in Floats
    BY <1>0, <2>1, NextKey DEF Bounded, Settings
  <2>3. SettingsTypeOK'
    <3>1. nvs' \in Settings(Lo..Hi \cup Found \cup {Missing})
      BY <1>4, <2>2 DEF KeyWritten, SettingsTypeOK, Settings
    <3>2. left' \in Seq(Keys \cup WifiKeys)
      BY <1>4, <2>1, HeadTailProperties DEF KeyWritten, SettingsTypeOK
    <3> QED
      BY <1>4, <3>1, <3>2 DEF KeyWritten, SettingsTypeOK, Keys
  <2>4. SavedSoFar'
    <3>1. /\ left' = Tail(left) /\ UNCHANGED <<g_cfg, web, ctl>>
          /\ ~lost' => ~lost /\ nvs' = [nvs EXCEPT ![Head(left)] = g_cfg[Head(left)]]
      BY <1>0, <1>4 DEF KeyWritten, SettingsTypeOK
    <3>2. nvs \in [Keys -> Lo..Hi \cup Found \cup {Missing} \cup {NotANumber}]
      BY DEF SettingsTypeOK, Settings
    <3>3. /\ left' \in Seq(Keys)
          /\ \A k : (\E i \in 1..Len(left) : left[i] = k)
                     => k = Head(left) \/ \E i \in 1..Len(left') : left'[i] = k
      BY <1>0, <2>1, <3>1, NextKey
    <3>4. ASSUME ~lost', NEW k \in Keys
          PROVE  nvs'[k] = g_cfg[k] \/ \E i \in 1..Len(left') : left'[i] = k
      <4>1. CASE k = Head(left)
        BY <2>2, <3>1, <3>2, <3>4, <4>1
      <4>2. CASE k # Head(left)
        <5>1. nvs'[k] = nvs[k]
          BY <2>2, <3>1, <3>2, <3>4, <4>2
        <5> QED
          BY <1>0, <3>1, <3>3, <3>4, <4>2, <5>1 DEF SavedSoFar
      <4> QED
        BY <4>1, <4>2
    <3> QED
      BY <1>0, <3>1, <3>3, <3>4 DEF SavedSoFar, Keys
  <2> QED
    BY <1>1, <1>4, <2>3, <2>4, WebFrame DEF KeyWritten, WriterChecked, Updates, PastCheck, Flashing
<1>5. CASE EndSave
  <2>1. SettingsTypeOK'
    BY <1>5 DEF EndSave, SettingsTypeOK, Keys
  <2>2. ~lost => nvs = g_cfg
    BY <1>0, <1>5 DEF EndSave, SavedSoFar, SettingsTypeOK, Bounded, Settings
  <2>3. ~lost => Loaded(nvs) = g_cfg
    BY <1>0, <2>2, LoadedFacts DEF SettingsTypeOK
  <2>4. SavedSoFar'
    BY <1>0, <1>5, <2>3 DEF EndSave, SavedSoFar, Loaded, Clamped, Keys
  <2> QED
    BY <1>1, <1>5, <2>1, <2>4, WebFrame DEF EndSave, WriterChecked, Requests, PastCheck, Flashing
<1> QED
  BY <1>2, <1>3, <1>4, <1>5 DEF Saving

\* Flash alone outlives a reset, and a key cut in its write is there or is not.
LEMMA ResetSettings == IInv /\ Reset => SettingsInv'
<1> SUFFICES ASSUME IInv, Reset PROVE SettingsInv'
  OBVIOUS
<1> USE DEF IInv, SettingsInv
<1>1. g_cfg' = Defaults /\ mtx' = "free" /\ web' = "idle" /\ draft' = Defaults /\ left' = <<>>
      /\ busy' = FALSE /\ lost' = FALSE /\ ctl' = "off" /\ used' = Defaults /\ arming' = FALSE
  BY DEF Reset, SettingsReset
<1>2. Defaults \in Bounded /\ Defaults \in Settings(Int)
  BY BoundedFacts
<1>3. nvs' \in Settings(Lo..Hi \cup Found \cup {Missing})
  <2>1. CASE web = "save" /\ busy
    <3>1. /\ Head(left) \in Keys /\ g_cfg[Head(left)] \in Lo..Hi \cup {NotANumber}
          /\ g_cfg[Head(left)] = NotANumber => Head(left) \in Floats
      BY <2>1, NextKey DEF WriterChecked, SavedSoFar, LiveBounded, Bounded, Settings
    <3> QED
      BY <3>1 DEF Reset, SettingsTypeOK, Settings
  <2>2. CASE ~(web = "save" /\ busy)
    BY <2>2 DEF Reset, SettingsTypeOK
  <2> QED
    BY <2>1, <2>2
<1>4. SettingsTypeOK'
  BY <1>1, <1>2, <1>3, EmptySeq DEF SettingsTypeOK, Keys
<1>5. LiveBounded' /\ SavedSoFar'
  BY <1>1, <1>2 DEF LiveBounded, SavedSoFar, Keys, Settings, Bounded
<1>6. WriterChecked'
  BY <1>1 DEF WriterChecked, Requests, PastCheck
<1> QED
  BY <1>4, <1>5, <1>6

\* configInit takes what flash has; the control task starts once it is done.
LEMMA BootSettings == IInv /\ (BootConfig \/ StartControl) => SettingsInv'
<1> SUFFICES ASSUME IInv, BootConfig \/ StartControl PROVE SettingsInv'
  OBVIOUS
<1> USE DEF IInv, SettingsInv
<1>1. CASE BootConfig
  <2>1. /\ UNCHANGED <<used, arming, mtx, nvs, draft, left, busy, grace>>
        /\ ctl = "off" /\ ctl' = "boot" /\ web = "idle"
    BY <1>1 DEF BootConfig, WriterChecked
  <2>2. /\ g_cfg' \in Bounded /\ web' \in {"idle", "open"} /\ lost' \in BOOLEAN
        /\ web' = "idle" /\ ~lost' => g_cfg' = Loaded(nvs)
    <3> DEFINE seen(unread) == [k \in Keys |-> IF k \in unread THEN Missing ELSE nvs[k]]
    <3>1. PICK unread \in SUBSET Keys :
            /\ g_cfg' = IF Any(seen(unread)) THEN Loaded(seen(unread)) ELSE Defaults
            /\ web' = IF Any(seen(unread)) THEN "idle" ELSE "open"
            /\ lost' = (seen(unread) # nvs)
      BY <1>1 DEF BootConfig, ConfigInit
    <3>2. Loaded(seen(unread)) \in Bounded
      BY UnreadFacts, LoadedFacts DEF SettingsTypeOK
    <3> HIDE DEF seen
    <3> QED
      BY <3>1, <3>2, BoundedFacts
  <2>3. SettingsTypeOK'
    BY <2>1, <2>2, BoundedFacts DEF SettingsTypeOK, Keys
  <2>4. LiveBounded'
    BY <2>1, <2>2, ConstantFacts DEF LiveBounded, Settings, Bounded, Keys
  <2>5. SavedSoFar'
    BY <2>1, <2>2 DEF SavedSoFar, Loaded, Clamped, Keys
  <2>6. WriterChecked'
    BY <2>1, <2>2 DEF WriterChecked, Requests, Updates, Flashing, PastCheck
  <2> QED
    BY <2>3, <2>4, <2>5, <2>6
<1>2. CASE StartControl
  <2>1. PastCheck' = PastCheck
    BY <1>2 DEF StartControl, settingsVars, PastCheck
  <2> QED
    BY <1>2, <2>1, SettingsKept DEF StartControl, LiveBounded, WriterChecked
<1> QED
  BY <1>1, <1>2

-----------------------------------------------------------------------------
(* The motors *)

\* The values of the registers are numbers, and none is Unknown.
LEMMA DutyFacts ==
  /\ Duties \subseteq Nat /\ 0 \in Duties
  /\ \A d \in Drives, w \in Wheels : DirOf(d[w]) \in {0, 1} /\ DutyOf(d[w]) \in Duties
  /\ Unknown \notin Duties /\ Unknown \notin {0, 1}
  BY DrivesAssumption DEF Duties, DutyOf, DirOf, Unknown

\* A write that is skipped would have changed nothing: either way the register and
\* its cache hold the value, and the others are as they were.
LEMMA RegisterWritten ==
  ASSUME MotorsTypeOK, CacheTrue, todo \in Seq(Writes), WriteRegister
  PROVE  LET h == Head(todo) IN
         /\ todo # <<>> /\ h \in Writes /\ todo' = Tail(todo)
         /\ MotorsTypeOK' /\ CacheTrue'
         /\ \A w \in Wheels, reg \in Regs :
              pins'[w][reg] = IF w = h.wheel /\ reg = h.reg THEN h.val ELSE pins[w][reg]
<1> DEFINE h == Head(todo)
<1>1. todo # <<>> /\ h \in Writes /\ todo' = Tail(todo)
  BY HeadTailProperties DEF WriteRegister
<1>2. h.wheel \in Wheels /\ h.reg \in Regs /\ h.val \in Values[h.reg] /\ h.val # Unknown
  BY <1>1, DutyFacts DEF Writes, Values
<1>3. CASE cache[h.wheel][h.reg] = h.val
  <2>1. pins' = pins /\ cache' = cache
    BY <1>3 DEF WriteRegister
  <2>2. pins[h.wheel][h.reg] = h.val
    BY <1>2, <1>3 DEF CacheTrue
  <2> QED
    BY <1>1, <2>1, <2>2 DEF MotorsTypeOK, CacheTrue
<1>4. CASE cache[h.wheel][h.reg] # h.val
  <2>1. /\ pins' = [pins EXCEPT ![h.wheel][h.reg] = h.val]
        /\ cache' = [cache EXCEPT ![h.wheel][h.reg] = h.val]
    BY <1>4 DEF WriteRegister, Cached
  <2>2. CASE h.reg = "dir"
    <3>1. h.val \in {0, 1}
      BY <1>2, <2>2 DEF Values, Regs
    <3> QED
      BY <1>1, <1>2, <2>1, <2>2, <3>1 DEF MotorsTypeOK, CacheTrue, Regs
  <2>3. CASE h.reg = "duty"
    <3>1. h.val \in Duties
      BY <1>2, <2>3 DEF Values, Regs
    <3> QED
      BY <1>1, <1>2, <2>1, <2>3, <3>1 DEF MotorsTypeOK, CacheTrue, Regs
  <2> QED
    BY <1>2, <2>2, <2>3 DEF Regs
<1> QED
  BY <1>3, <1>4

\* A step that writes no register and asks for no write, of a control task that has
\* none left.
LEMMA OutputsKept ==
  ASSUME OutputsInv, UNCHANGED <<motorVars, out>>,
         \/ ctl' = ctl
         \/ /\ ctl \notin {"init", "outputs"} /\ ctl' \in {"boot", "config", "tick"}
            /\ ctl' = "boot" => ctl = "off"
  PROVE  OutputsInv'
<1>1. MotorsTypeOK' /\ CacheTrue'
  BY DEF OutputsInv, MotorsTypeOK, CacheTrue, motorVars
<1>2. OutputsOnTheWay' /\ StartsGrounded'
  BY DEF OutputsInv, OutputsOnTheWay, StartsGrounded, motorVars, Left, Wanted
<1> QED
  BY <1>1, <1>2 DEF OutputsInv

\* A tick asks for four writes, one for each register, and for what it commands; the
\* brake has its duties first.
LEMMA TickOutputs == OutputsInv /\ Tick => OutputsInv'
<1> SUFFICES ASSUME OutputsInv, Tick PROVE OutputsInv'
  OBVIOUS
<1> USE DEF OutputsInv
<1>1. UNCHANGED <<pins, cache>> /\ ctl' = "outputs"
  BY DEF Tick
<1>2. MotorsTypeOK' /\ CacheTrue' /\ StartsGrounded'
  BY <1>1 DEF MotorsTypeOK, CacheTrue, StartsGrounded
<1>3. CASE \E d \in Drives : out' = [dyn_brake |-> FALSE, cmd |-> d] /\ todo' = SetWrites(d)
  <2>1. PICK d \in Drives : out' = [dyn_brake |-> FALSE, cmd |-> d] /\ todo' = SetWrites(d)
    BY <1>3 DEF Tick
  <2>2. d \in [Wheels -> Int]
    BY DrivesAssumption
  <2>3. /\ W("l", "dir", DirOf(d["l"])) \in Writes /\ W("l", "duty", DutyOf(d["l"])) \in Writes
        /\ W("r", "dir", DirOf(d["r"])) \in Writes /\ W("r", "duty", DutyOf(d["r"])) \in Writes
    BY DutyFacts DEF W, Writes, Values, Regs, Wheels
  <2>4. todo' \in Seq(Writes) /\ todo' # <<>> /\ Len(todo') = 4
    BY <2>1, <2>3 DEF SetWrites
  <2>5. (\A i \in 1..Len(todo) : todo[i].val = Wanted(todo[i].wheel, todo[i].reg))'
    BY <2>1, <2>4 DEF SetWrites, W, Wanted
  <2>6. \A w \in Wheels, reg \in Regs : Left(w, reg)'
    BY <2>1, <2>4 DEF SetWrites, W, Left, Wheels, Regs
  <2>7. OutputsOnTheWay'
    BY <1>1, <2>1, <2>2, <2>4, <2>5, <2>6 DEF OutputsOnTheWay
  <2> QED
    BY <1>2, <2>7
<1>4. CASE out' = Released /\ todo' = BrakeWrites
  <2>1. out' = Released /\ todo' = BrakeWrites
    BY <1>4 DEF Tick
  <2>2. \A w \in Wheels, reg \in Regs : W(w, reg, 0) \in Writes
    BY DutyFacts DEF W, Writes, Values, Regs
  <2>3. todo' \in Seq(Writes) /\ todo' # <<>> /\ Len(todo') = 4
    BY <2>1, <2>2 DEF BrakeWrites, Wheels, Regs
  <2>4. (\A i \in 1..Len(todo) : todo[i].val = Wanted(todo[i].wheel, todo[i].reg))'
    BY <2>1, <2>3 DEF BrakeWrites, W, Wanted, Released
  <2>5. \A w \in Wheels, reg \in Regs : Left(w, reg)'
    BY <2>1, <2>3 DEF BrakeWrites, W, Left, Wheels, Regs
  <2>6. \A i, j \in 1..Len(todo') : i <= j /\ todo'[i].reg = "dir" => todo'[j].reg = "dir"
    BY <2>1, <2>3 DEF BrakeWrites, W
  <2>7. out' \in [dyn_brake : BOOLEAN, cmd : [Wheels -> Int]]
    BY <2>1 DEF Released
  <2>8. OutputsOnTheWay'
    BY <1>1, <2>3, <2>4, <2>5, <2>6, <2>7 DEF OutputsOnTheWay
  <2> QED
    BY <1>2, <2>8
<1> QED
  BY <1>3, <1>4 DEF Tick

\* One register more has what the tick wants, and the other writes are still to come.
LEMMA OutputOutputs == OutputsInv /\ Output => OutputsInv'
<1> SUFFICES ASSUME OutputsInv, Output PROVE OutputsInv'
  OBVIOUS
<1> USE DEF OutputsInv
<1> DEFINE h == Head(todo)
<1>1. todo \in Seq(Writes) /\ WriteRegister /\ out' = out
  BY DEF OutputsOnTheWay, Output
<1>2. /\ todo # <<>> /\ h \in Writes /\ todo' = Tail(todo)
      /\ MotorsTypeOK' /\ CacheTrue'
      /\ \A w \in Wheels, reg \in Regs :
           pins'[w][reg] = IF w = h.wheel /\ reg = h.reg THEN h.val ELSE pins[w][reg]
  BY <1>1, RegisterWritten
<1>3. /\ todo' \in Seq(Writes) /\ Len(todo') = Len(todo) - 1 /\ Len(todo) \in Nat \ {0}
      /\ \A i \in 1..Len(todo') : todo'[i] = todo[i + 1] /\ i + 1 \in 1..Len(todo)
      /\ h = todo[1]
  BY <1>1, <1>2, HeadTailProperties, EmptySeq, LenProperties
<1>4. \A w \in Wheels, reg \in Regs : Left(w, reg) => (w = h.wheel /\ reg = h.reg) \/ Left(w, reg)'
  <2>1. ASSUME NEW i \in 1..Len(todo), i # 1 PROVE i - 1 \in 1..Len(todo') /\ todo'[i - 1] = todo[i]
    BY <1>3, <2>1
  <2> QED
    BY <1>3, <2>1 DEF Left
<1>5. \A w, reg : Wanted(w, reg)' = Wanted(w, reg)
  BY <1>1 DEF Wanted
<1>6. ctl' = IF todo' # <<>> THEN ctl ELSE IF ctl = "init" THEN "config" ELSE "publish"
  BY DEF Output
<1>7. ctl \in {"init", "outputs"}
  BY DEF Output
<1>8. CASE ctl = "outputs"
  <2>1. h.val = Wanted(h.wheel, h.reg)
    BY <1>3, <1>8 DEF OutputsOnTheWay
  <2>2. (\A i \in 1..Len(todo) : todo[i].val = Wanted(todo[i].wheel, todo[i].reg))'
    BY <1>3, <1>5, <1>8 DEF OutputsOnTheWay
  <2>3. \A w \in Wheels, reg \in Regs : pins'[w][reg] = Wanted(w, reg)' \/ Left(w, reg)'
    BY <1>2, <1>4, <1>5, <1>8, <2>1 DEF OutputsOnTheWay
  <2>4. out.dyn_brake =>
          \A i, j \in 1..Len(todo') : i <= j /\ todo'[i].reg = "dir" => todo'[j].reg = "dir"
    <3> SUFFICES ASSUME out.dyn_brake, NEW i \in 1..Len(todo'), NEW j \in 1..Len(todo'),
                        i <= j, todo'[i].reg = "dir"
                 PROVE  todo'[j].reg = "dir"
      OBVIOUS
    <3>1. i + 1 \in 1..Len(todo) /\ j + 1 \in 1..Len(todo) /\ i + 1 <= j + 1
      BY <1>3
    <3>2. todo[i + 1].reg = "dir" => todo[j + 1].reg = "dir"
      BY <1>8, <3>1 DEF OutputsOnTheWay
    <3> QED
      BY <1>3, <3>2
  <2>5. OutputsOnTheWay'
    <3>1. ctl' \in {"outputs", "publish"} /\ (ctl' = "outputs" <=> todo' # <<>>)
      BY <1>6, <1>8
    <3>2. out' \in [dyn_brake : BOOLEAN, cmd : [Wheels -> Int]]
      BY <1>1 DEF OutputsOnTheWay
    <3>3. (ctl' \in {"init", "outputs"}) = (todo' # <<>>)
      BY <3>1
    <3> QED
      BY <1>1, <1>3, <3>1, <3>2, <3>3, <2>2, <2>3, <2>4 DEF OutputsOnTheWay
  <2>6. StartsGrounded'
    BY <1>6, <1>8 DEF StartsGrounded
  <2> QED
    BY <1>2, <2>5, <2>6
<1>9. CASE ctl = "init"
  <2>1. OutputsOnTheWay'
    BY <1>1, <1>3, <1>6, <1>9 DEF OutputsOnTheWay
  <2>2. \A w \in Wheels : pins'[w]["duty"] = 0
    <3>1. h.reg = "duty" => h.val = 0
      BY <1>3, <1>9 DEF StartsGrounded
    <3> QED
      BY <1>2, <1>9, <3>1 DEF StartsGrounded, Regs
  <2>3. \A i \in 1..Len(todo') : todo'[i].reg = "duty" => todo'[i].val = 0
    BY <1>3, <1>9 DEF StartsGrounded
  <2>4. StartsGrounded'
    BY <2>2, <2>3 DEF StartsGrounded
  <2> QED
    BY <1>2, <2>1, <2>4
<1> QED
  BY <1>7, <1>8, <1>9

\* A tick that is published has no writes left, and its outputs are forgotten.
LEMMA PublishOutputs == OutputsInv /\ Publish => OutputsInv'
<1> SUFFICES ASSUME OutputsInv, Publish PROVE OutputsInv'
  OBVIOUS
<1>1. UNCHANGED <<pins, cache, todo>> /\ out' = Released /\ ctl = "publish" /\ ctl' = "config"
  BY DEF Publish, motorVars
<1>2. MotorsTypeOK' /\ CacheTrue' /\ StartsGrounded'
  BY <1>1 DEF OutputsInv, MotorsTypeOK, CacheTrue, StartsGrounded
<1>3. OutputsOnTheWay'
  BY <1>1 DEF OutputsInv, OutputsOnTheWay, Released
<1> QED
  BY <1>2, <1>3 DEF OutputsInv

\* A reset grounds the pins and empties the caches.
LEMMA ResetOutputs == Reset => OutputsInv'
<1> SUFFICES ASSUME Reset PROVE OutputsInv'
  OBVIOUS
<1>1. /\ pins' = Grounded /\ cache' = [w \in Wheels |-> [dir |-> Unknown, duty |-> Unknown]]
      /\ todo' = <<>> /\ ctl' = "off" /\ out' = Released
  BY DEF Reset, MotorsReset
<1>2. MotorsTypeOK'
  BY <1>1, DutyFacts DEF MotorsTypeOK, Grounded
<1>3. CacheTrue'
  BY <1>1 DEF CacheTrue, Grounded, Regs
<1>4. OutputsOnTheWay'
  BY <1>1, EmptySeq DEF OutputsOnTheWay, Released
<1>5. StartsGrounded'
  BY <1>1 DEF StartsGrounded, Grounded
<1> QED
  BY <1>2, <1>3, <1>4, <1>5 DEF OutputsInv

\* The control task starts by grounding the motors, over duties that are 0 already.
LEMMA StartOutputs == OutputsInv /\ StartControl => OutputsInv'
<1> SUFFICES ASSUME OutputsInv, StartControl PROVE OutputsInv'
  OBVIOUS
<1> USE DEF OutputsInv
<1>1. UNCHANGED <<pins, cache, out>> /\ ctl = "boot" /\ ctl' = "init" /\ todo' = InitWrites
  BY DEF StartControl
<1>2. \A w \in Wheels, reg \in Regs : W(w, reg, 0) \in Writes
  BY DutyFacts DEF W, Writes, Values, Regs
<1>3. \A w \in Wheels : W(w, "dir", 1) \in Writes
  BY DEF W, Writes, Values, Regs
<1>4. /\ <<W("l", "dir", 1), W("r", "dir", 1)>> \in Seq(Writes)
      /\ BrakeWrites \in Seq(Writes) /\ Len(BrakeWrites) = 4
      /\ \A i \in 1..4 : BrakeWrites[i].val = 0
  BY <1>2, <1>3 DEF BrakeWrites, W, Wheels, Regs
<1>5. /\ todo' \in Seq(Writes) /\ Len(todo') = 6
      /\ \A i \in 1..6 : todo'[i] = IF i <= 2 THEN <<W("l", "dir", 1), W("r", "dir", 1)>>[i]
                                     ELSE BrakeWrites[i - 2]
  <2> DEFINE both == <<W("l", "dir", 1), W("r", "dir", 1)>>
  <2>1. Len(both) = 2 /\ both \in Seq(Writes) /\ todo' = both \o BrakeWrites
    BY <1>1, <1>4 DEF InitWrites
  <2> HIDE DEF both
  <2>2. /\ both \o BrakeWrites \in Seq(Writes)
        /\ Len(both \o BrakeWrites) = Len(both) + Len(BrakeWrites)
        /\ \A i \in 1 .. Len(both) + Len(BrakeWrites) :
             (both \o BrakeWrites)[i] = IF i <= Len(both) THEN both[i] ELSE BrakeWrites[i - Len(both)]
    BY <1>4, <2>1, ConcatProperties, Zenon
  <2> QED
    BY <1>4, <2>1, <2>2 DEF both
<1>6. todo' # <<>> /\ \A i \in 1..Len(todo') : todo'[i].reg = "duty" => todo'[i].val = 0
  <2>1. ASSUME NEW i \in 1..6, i <= 2 PROVE todo'[i].reg = "dir"
    BY <1>5, <2>1 DEF W
  <2>2. ASSUME NEW i \in 1..6, ~(i <= 2) PROVE todo'[i].val = 0
    BY <1>4, <1>5, <2>2
  <2>3. ASSUME NEW i \in 1..6, todo'[i].reg = "duty" PROVE todo'[i].val = 0
    <3>1. CASE i <= 2
      <4>1. todo'[i].reg = "dir"
        BY <2>1, <3>1
      <4> QED
        BY <2>3, <4>1
    <3>2. CASE ~(i <= 2)
      BY <2>2, <3>2
    <3> QED
      BY <3>1, <3>2
  <2>4. Len(todo') = 6
    BY <1>5
  <2>5. todo' # <<>>
    BY <2>4
  <2>6. 1..Len(todo') = 1..6
    BY <2>4
  <2>7. \A i \in 1..Len(todo') : todo'[i].reg = "duty" => todo'[i].val = 0
    BY <2>3, <2>6, Zenon
  <2> QED
    BY <2>5, <2>7
<1>7. MotorsTypeOK' /\ CacheTrue' /\ StartsGrounded'
  BY <1>1, <1>6 DEF MotorsTypeOK, CacheTrue, StartsGrounded
<1>8. OutputsOnTheWay'
  BY <1>1, <1>5, <1>6 DEF OutputsOnTheWay
<1> QED
  BY <1>7, <1>8

-----------------------------------------------------------------------------
(* The whole *)

\* Every step keeps the writes to the motors on their way.
LEMMA NextOutputs == OutputsInv /\ [Next]_vars => OutputsInv'
<1> SUFFICES ASSUME OutputsInv, [Next]_vars PROVE OutputsInv'
  OBVIOUS
<1>1. CASE ConfigSnapshot
  BY <1>1, OutputsKept DEF ConfigSnapshot
<1>2. CASE Tick
  BY <1>2, TickOutputs
<1>3. CASE Output
  BY <1>3, OutputOutputs
<1>4. CASE Publish
  BY <1>4, PublishOutputs
<1>5. CASE Web
  BY <1>5, OutputsKept DEF Web, WebAsks, WebWrites, Beside, controlVars
<1>6. CASE Reset
  BY <1>6, ResetOutputs
<1>7. CASE BootConfig
  BY <1>7, OutputsKept DEF BootConfig
<1>8. CASE StartControl
  BY <1>8, StartOutputs
<1>9. CASE UNCHANGED vars
  BY <1>9, OutputsKept DEF vars, controlVars
<1> QED
  BY <1>1, <1>2, <1>3, <1>4, <1>5, <1>6, <1>7, <1>8, <1>9 DEF Next, Control

\* Every step keeps the settings in order.
LEMMA NextSettings == IInv /\ [Next]_vars => SettingsInv'
<1> SUFFICES ASSUME IInv, [Next]_vars PROVE SettingsInv'
  OBVIOUS
<1>1. CASE Control
  BY <1>1, ControlSettings
<1>2. CASE Web
  BY <1>2, RequestsSettings, UpdateSettings, SavingSettings DEF Web, WebAsks, WebWrites, Writing
<1>3. CASE Reset
  BY <1>3, ResetSettings
<1>4. CASE BootConfig \/ StartControl
  BY <1>4, BootSettings
<1>5. CASE UNCHANGED vars
  BY <1>5 DEF IInv, SettingsInv, SettingsTypeOK, LiveBounded, SavedSoFar, WriterChecked, PastCheck,
              vars, controlVars, settingsVars, Keys, Settings, Bounded, Loaded, Clamped
<1> QED
  BY <1>1, <1>2, <1>3, <1>4, <1>5 DEF Next

\* The flags of the control task stay flags.
LEMMA FlagsKept ==
  TypeOK /\ [Next]_vars =>
    armed' \in BOOLEAN /\ arming' \in BOOLEAN /\ grace' \in BOOLEAN
<1> SUFFICES ASSUME TypeOK, [Next]_vars
             PROVE  armed' \in BOOLEAN /\ arming' \in BOOLEAN /\ grace' \in BOOLEAN
  OBVIOUS
<1>0. armed \in BOOLEAN /\ arming \in BOOLEAN /\ grace \in BOOLEAN
  BY DEF TypeOK
<1>1. CASE ConfigSnapshot \/ Output \/ BootConfig \/ StartControl
  BY <1>0, <1>1 DEF ConfigSnapshot, Output, BootConfig, StartControl
<1>2. CASE Tick
  BY <1>0, <1>2 DEF Tick, CoreTick
<1>3. CASE Publish
  BY <1>0, <1>3 DEF Publish, PastCheck
<1>4. CASE Web
  BY <1>0, <1>4 DEF Web, WebAsks, WebWrites, Beside, controlVars
<1>5. CASE Reset
  BY <1>5 DEF Reset
<1>6. CASE UNCHANGED vars
  BY <1>0, <1>6 DEF vars, controlVars
<1> QED
  BY <1>1, <1>2, <1>3, <1>4, <1>5, <1>6 DEF Next, Control

\* Power comes on over flash that an older firmware may have filled, or not, or in part.
LEMMA InitIInv == Init => IInv
<1> SUFFICES ASSUME Init PROVE IInv
  OBVIOUS
<1>1. /\ pins = Grounded /\ cache = [w \in Wheels |-> [dir |-> Unknown, duty |-> Unknown]]
      /\ todo = <<>> /\ ctl = "off" /\ out = Released /\ used = Defaults /\ arming = FALSE
      /\ g_cfg = Defaults /\ mtx = "free" /\ web = "idle" /\ draft = Defaults /\ left = <<>>
      /\ busy = FALSE /\ lost = FALSE /\ armed = FALSE /\ grace = FALSE
  BY DEF Init, MotorsReset, SettingsReset
<1>2. Defaults \in Bounded /\ Defaults \in Settings(Int)
  BY BoundedFacts
<1>3. nvs \in Settings(Lo..Hi \cup Found \cup {Missing})
  <2>1. Found \cup {Missing} \subseteq Lo..Hi \cup Found \cup {Missing}
    OBVIOUS
  <2> QED
    BY <2>1, SettingsWiden DEF Init
<1>4. SettingsInv
  BY <1>1, <1>2, <1>3, EmptySeq
     DEF SettingsInv, SettingsTypeOK, LiveBounded, SavedSoFar, WriterChecked, PastCheck, Requests
<1>5. MotorsTypeOK
  BY <1>1, DutyFacts DEF MotorsTypeOK, Grounded
<1>6. CacheTrue /\ OutputsOnTheWay /\ StartsGrounded
  BY <1>1, EmptySeq DEF CacheTrue, Grounded, Regs, OutputsOnTheWay, Released, StartsGrounded
<1>7. TypeOK
  BY <1>1, <1>2, <1>4, <1>5, <1>6
     DEF TypeOK, SettingsInv, OutputsOnTheWay, ControlSteps, WebSteps
<1> QED
  BY <1>4, <1>5, <1>6, <1>7 DEF IInv, OutputsInv

\* The invariant of the board.
LEMMA Invariant == Spec => []IInv
<1>1. IInv /\ [Next]_vars => IInv'
  <2> SUFFICES ASSUME IInv, [Next]_vars PROVE IInv'
    OBVIOUS
  <2>1. OutputsInv' /\ SettingsInv'
    BY NextOutputs, NextSettings DEF IInv
  <2>2. TypeOK'
    <3>1. /\ todo' \in Seq(Writes) /\ out' \in [dyn_brake : BOOLEAN, cmd : [Wheels -> Int]]
          /\ used' \in Settings(Int) /\ ctl' \in ControlSteps /\ web' \in WebSteps
      BY <2>1, BoundedFacts DEF OutputsInv, OutputsOnTheWay, SettingsInv, LiveBounded, WriterChecked,
                                Requests, Updates, Flashing, ControlSteps, WebSteps
    <3> QED
      BY <2>1, <3>1, FlagsKept DEF IInv, TypeOK, OutputsInv, SettingsInv
  <2> QED
    BY <2>1, <2>2 DEF IInv
<1> QED
  BY <1>1, InitIInv, PTL DEF Spec

\* Every variable stays in its set: no key is ever written to flash with a number out
\* of bounds, whatever older ones are there.
THEOREM TypeCorrect == Spec => []TypeOK
<1>1. IInv => TypeOK
  BY DEF IInv
<1> QED
  BY <1>1, Invariant, PTL

\* The core is given no half of an update and no number out of bounds, whatever the page
\* asks for and whatever a boot finds in flash or cannot read of it; a float setting may
\* be no number at all (config.cpp:82-144, config_params.cpp:100-107).
THEOREM BoundedSettings == Spec => []CoreSeesBounded
<1>1. IInv => CoreSeesBounded
  BY DEF IInv, SettingsInv, LiveBounded, CoreSeesBounded
<1> QED
  BY <1>1, Invariant, PTL

\* What the kart drives with is what it would boot with, unless a read of
\* this boot or a write of the last save failed (config.cpp:49-121).
THEOREM Durable == Spec => []AtRestDurable
<1>1. IInv => AtRestDurable
  BY DEF IInv, SettingsInv, SavedSoFar, AtRestDurable
<1> QED
  BY <1>1, Invariant, PTL

\* Once the status says armed, only the request that was past its check at that
\* moment may still write flash (webserver.cpp:810, 842, 866, 888).
THEOREM LateWrites == Spec => []LateWriteIsOld
<1>1. IInv => LateWriteIsOld
  BY DEF IInv, SettingsInv, WriterChecked, Flashing, PastCheck, LateWriteIsOld
<1> QED
  BY <1>1, Invariant, PTL

\* The registers say what the tick commanded, skipped writes and all
\* (hardware.cpp:57-79, 126-160).
THEOREM OutputsObey == Spec => []PinsObeyTick
<1>1. IInv => PinsObeyTick
  <2> SUFFICES ASSUME IInv, ctl = "publish", NEW w \in Wheels
               PROVE  pins[w] = IF out.dyn_brake THEN Grounded[w]
                                ELSE [dir |-> DirOf(out.cmd[w]), duty |-> DutyOf(out.cmd[w])]
    BY DEF PinsObeyTick
  <2>1. todo = <<>>
    BY DEF IInv, OutputsInv, OutputsOnTheWay
  <2>2. \A reg \in Regs : pins[w][reg] = Wanted(w, reg)
    BY <2>1, EmptySeq DEF IInv, OutputsInv, OutputsOnTheWay, Left
  <2>3. pins[w] \in [dir : {0, 1}, duty : Duties]
    BY DEF IInv, OutputsInv, MotorsTypeOK
  <2>4. pins[w] = [dir |-> pins[w].dir, duty |-> pins[w].duty]
    BY <2>3
  <2> QED
    BY <2>2, <2>4 DEF Regs, Wanted, Grounded
<1> QED
  BY <1>1, Invariant, PTL

\* A brake never drives a wheel the other way for a moment (hardware.cpp:152-160).
THEOREM BrakesFirst == Spec => BrakeNeverDrives
<1> DEFINE Kept == \A w \in Wheels :
                     pins[w].dir # pins'[w].dir /\ pins'[w].duty > 0 => ~out.dyn_brake
<1>1. IInv /\ [Next]_vars => [Kept]_vars
  <2> SUFFICES ASSUME IInv, Next PROVE Kept
    OBVIOUS
  <2> USE DEF IInv, OutputsInv
  <2>1. CASE Output
    <3> SUFFICES ASSUME NEW w \in Wheels, pins[w].dir # pins'[w].dir, out.dyn_brake
                 PROVE  pins'[w].duty = 0
      OBVIOUS
    <3> DEFINE h == Head(todo)
    <3>1. todo \in Seq(Writes) /\ WriteRegister /\ ctl \in {"init", "outputs"}
      BY <2>1 DEF OutputsOnTheWay, Output
    <3>2. /\ todo # <<>> /\ h \in Writes
          /\ \A reg \in Regs : pins'[w][reg] = IF w = h.wheel /\ reg = h.reg THEN h.val ELSE pins[w][reg]
      BY <3>1, RegisterWritten
    <3>3. h.reg = "dir" /\ pins'[w].duty = pins[w].duty
      BY <3>2 DEF Regs
    <3>4. CASE ctl = "init"
      BY <3>3, <3>4 DEF StartsGrounded
    <3>5. CASE ctl = "outputs"
      <4>1. h = todo[1] /\ 1 \in 1..Len(todo)
        BY <3>1, <3>2, EmptySeq
      <4>2. \A j \in 1..Len(todo) : todo[j].reg = "dir"
        BY <3>1, <3>3, <3>5, <4>1, LenProperties DEF OutputsOnTheWay
      <4>3. pins[w]["duty"] = 0
        BY <3>5, <4>2 DEF OutputsOnTheWay, Left, Wanted, Regs
      <4> QED
        BY <3>3, <4>3
    <3> QED
      BY <3>1, <3>4, <3>5
  <2>2. CASE Reset
    BY <2>2 DEF Reset, MotorsReset, Grounded
  <2>3. CASE pins' = pins
    BY <2>3
  <2> QED
    BY <2>1, <2>2, <2>3 DEF Next, Control, ConfigSnapshot, Tick, Publish, Web, WebAsks, WebWrites, Beside, controlVars, motorVars,
                            BootConfig, StartControl
<1> QED
  BY <1>1, Invariant, PTL DEF Spec, BrakeNeverDrives

-----------------------------------------------------------------------------
(* The core of this host *)

VARIABLES
  press,     \* a core of DeadMan that shares armed with the host:
  powered,   \* the rest of its state
  stopped

Core == INSTANCE DeadMan

\* The host takes any core that keeps the promise of DeadMan, which KartController does
\* (DeadManRefined): each step of the promise is a tick the host allows for
\* (controller.cpp:86).
THEOREM AnyCoreWillDo == Core!TypeOK /\ Core!Next => CoreTick(powered')
<1> SUFFICES ASSUME Core!TypeOK, Core!Next PROVE CoreTick(powered')
  OBVIOUS
<1>1. armed \in {TRUE, FALSE} /\ stopped' \in {TRUE, FALSE}
  BY DEF Core!TypeOK, Core!Next
<1>2. CASE Core!Answer
  <2>1. armed' \in {FALSE, ~armed /\ ~stopped'} /\ powered' \in {FALSE, armed'}
    BY <1>2 DEF Core!Answer
  <2>2. armed' \in {TRUE, FALSE}
    BY <1>1, <2>1
  <2>3. CASE armed' = TRUE
    BY <1>1, <2>1, <2>3 DEF CoreTick
  <2>4. CASE armed' = FALSE
    BY <2>1, <2>4 DEF CoreTick
  <2> QED
    BY <2>2, <2>3, <2>4
<1>3. CASE Core!Carry
  <2>1. armed' \in {FALSE, armed /\ ~stopped'} /\ powered' \in {FALSE, armed /\ ~stopped'}
    BY <1>3 DEF Core!Carry
  <2>2. CASE armed = TRUE
    BY <1>1, <2>1, <2>2 DEF CoreTick
  <2>3. CASE armed = FALSE
    BY <1>1, <2>1, <2>3 DEF CoreTick
  <2> QED
    BY <1>1, <2>2, <2>3
<1> QED
  BY <1>2, <1>3 DEF Core!Next
===============================================================================
