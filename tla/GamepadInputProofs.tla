-------------------------- MODULE GamepadInputProofs --------------------------
(***************************************************************************)
(* Theorems about GamepadInput, for every range of the stick, every set of *)
(* reports and every least amplitude.                                      *)
(*                                                                         *)
(* Each strengthening follows one task through its steps: where the link   *)
(* stands while a report or a loss is being handled, what the web task has *)
(* not saved yet, what the control task has read since its tick began.     *)
(***************************************************************************)
EXTENDS GamepadInput, ControlMathLemmas, TLAPS

\* A report is delivered over a link, a loss is handled without one, and has marked
\* the gamepad as gone before it purges the report; a boot begins without one.
LinkInv ==
  /\ bt \in {"axes", "buttons", "extremes", "connect"} => link
  /\ bt \in {"lost", "off", "purge"} => ~link
  /\ bt = "purge" => ~connected
  /\ bt = "boot" => ~connected /\ raw = 0 /\ btn = Released
  /\ GoneIsForgotten

\* While no key of the last verdict is missing or unread: flash has it unless it is being
\* saved, the gamepad has it once it has booted, unless another was just accepted, and its
\* scale is saved before its flag.
SaveInv ==
  told # Unsure =>
    /\ web \notin Unsaved => /\ nvs.ok = (told # Erased)
                             /\ told # Erased => nvs.hx = told
    /\ web \notin {"accepted", "boot"} => told = IF calibrated THEN hx ELSE Erased
    /\ web = "saveflag" /\ told # Erased => nvs.hx = told

\* A tick that has seen nothing but a collection has loaded neither an axis nor a
\* calibrated gamepad.
ParkInv == whole => cal /\ ctl # "axis" /\ snap.axis = 0 /\ ~snap.calibrated

\* The centre is captured from the stick.
CentreInv == web = "centre" => amp \in Commands

IInv == TypeOK /\ CentreInv /\ LinkInv /\ SaveInv /\ ParkInv

-----------------------------------------------------------------------------
(* The steps *)

\* A step of the web task that is not one of a collection or of a verdict.
WebOther ==
  \/ StartPairing \/ Unpair \/ CalStart \/ Forget \/ ClearCalibrated \/ ClearState
  \/ NoNvs \/ SaveBlob \/ SaveFlag \/ DropDevice

USE DEF btVars, padVars, scaleVars, extremes, webVars, ctlVars, notBt, notWeb, notControl

LEMMA UnitFacts ==
  /\ Unit \in Nat \ {0} /\ 0 \in Commands /\ -Unit \in Commands /\ Unit \in Commands
  /\ Commands \subseteq Int /\ MinAmp \in Nat \ {0}
  BY UnitAssumption, ReportsAssumption DEF Commands

LEMMA RecordFacts ==
  /\ Released \in Buttons
  /\ NoReport \in [x : Commands, btn : Buttons]
  /\ Neutral \in [connected : BOOLEAN, btn : Buttons, axis : Commands, calibrated : BOOLEAN]
  BY UnitFacts DEF Released, NoReport, Neutral, Buttons

\* A scaled axis is a command, whatever the calibration (input.cpp:271-275).
LEMMA ScaledFacts ==
  ASSUME raw \in Commands, cx \in Commands, hx \in Nat
  PROVE  Scaled \in Commands
<1> DEFINE away == (raw - cx) * Unit
<1>0. away \in Int
  <2>1. raw \in Int /\ cx \in Int /\ Unit \in Int
    BY UnitFacts
  <2> QED
    BY <2>1
<1> HIDE DEF away
<1>1. CASE hx > 0
  <2>1. Quotient(away, hx) \in Int
    BY <1>0, <1>1, QuotientInt
  <2>2. Scaled = Clamp(Quotient(away, hx), -Unit, Unit)
    BY <1>1 DEF Scaled, away
  <2> QED
    BY <2>1, <2>2, UnitFacts, ClampRange DEF Commands
<1>2. CASE ~(hx > 0)
  BY <1>2, UnitFacts DEF Scaled
<1> QED
  BY <1>1, <1>2

\* A sweep of the stick has an amplitude of at most two full commands.
LEMMA AmplitudeFacts ==
  ASSUME cx \in Commands, lo \in Commands, hi \in Commands
  PROVE  (IF cx - lo > hi - cx THEN cx - lo ELSE hi - cx) \in (-2 * Unit)..(2 * Unit)
  BY UnitFacts DEF Commands

LEMMA InvInit == Init => IInv
<1> SUFFICES ASSUME Init PROVE IInv
  OBVIOUS
<1>1. TypeOK
  <2>1. PICK ok \in BOOLEAN : nvs = [ok |-> ok, cx |-> 0, hx |-> Unit]
    BY DEF Init
  <2>2. {link, fresh, connected, calibrated, cal, leave, armed, whole} \subseteq BOOLEAN
    BY <2>1 DEF Init
  <2>3. Unit \in 1..(2 * Unit) /\ 0 \in (-2 * Unit)..(2 * Unit)
    BY UnitFacts
  <2>4. told \in {Unsure, Erased} \cup 1..(2 * Unit)
    BY <2>3 DEF Init, Erased
  <2> QED
    BY <2>1, <2>2, <2>3, <2>4, UnitFacts, RecordFacts DEF Init, TypeOK
<1>2. SaveInv
  BY UnitFacts DEF Init, SaveInv, Unsaved, Erased, Unsure
<1> QED
  BY <1>1, <1>2 DEF Init, IInv, CentreInv, LinkInv, GoneIsForgotten, ParkInv, Neutral

\* Where the web and the control task are, and the last verdict.
Places ==
  /\ web \in {"boot", "idle", "forget", "clear", "stop", "saveblob", "saveflag", "drop", "lost",
              "off", "purge", "capture", "centre", "collect", "finish", "verdict", "accepted"}
  /\ ctl \in {"boot", "idle", "buttons", "gate1", "gate2", "axis", "calibrated", "collecting",
              "tick"}
  /\ told \in {Unsure, Erased} \cup 1..(2 * Unit)

LEMMA PlacesNext == IInv /\ Next => Places'
<1> SUFFICES ASSUME IInv, Next PROVE Places'
  OBVIOUS
<1>1. Places /\ hx \in 1..(2 * Unit)
  BY DEF IInv, TypeOK, Places
<1>2. CASE WebOther \/ WebOnConn0
  BY <1>1, <1>2
     DEF WebOther, StartPairing, Unpair, CalStart, Begin, Forget, ClearCalibrated, ClearState,
         NoNvs, EndVerb, SaveBlob, SaveFlag, DropDevice, WebOnConn0, OnConn0, CancelCollection,
         MarkGone, Purge, Places
<1>3. CASE CalFinish \/ CalCancel \/ Calibration
  BY <1>1, <1>3 DEF CalFinish, CalCancel, Calibration, Capture, StoreCentre, Collect,
                    EndCollection, Reject, Accept, Calibrated, Places
<1>4. CASE PadReady \/ PadLost \/ Silence \/ Bluetooth \/ \E r \in Reports : Stamp(r)
  BY <1>1, <1>4 DEF PadReady, PadLost, Silence, Bluetooth, StoreAxes, StoreButtons, StoreExtremes,
                    Connect, BtOnConn0, Stamp, Places
<1>5. CASE Control
  BY <1>1, <1>5 DEF Control, GetConnected, GetButtons, GateCalibrated, GateCollecting, GetAxis,
                    LoadCalibrated, LoadCollecting, TickArming, Loads, Places
<1>6. CASE PowerCut \/ Boot
  BY <1>1, <1>6 DEF PowerCut, Boot, CalLoad, Places
<1> QED
  BY <1>2, <1>3, <1>4, <1>5, <1>6 DEF Next, Pairing, WebOther

LEMMA TypeNext == IInv /\ Next => TypeOK' /\ CentreInv'
<1> SUFFICES ASSUME IInv, Next PROVE TypeOK' /\ CentreInv'
  OBVIOUS
<1> DEFINE Flags == {link, fresh, connected, calibrated, cal, leave, armed, whole} \subseteq BOOLEAN
           Bt    == /\ bt \in {"boot", "idle", "axes", "buttons", "extremes", "connect", "lost", "off", "purge"}
                    /\ rep \in [x : Commands, btn : Buttons] /\ raw \in Commands /\ btn \in Buttons
           Scale == {cx, lo, hi} \subseteq Commands /\ hx \in 1..(2 * Unit)
           Web   == amp \in (-2 * Unit)..(2 * Unit) /\ (web = "centre" => amp \in Commands)
           Nvs   == nvs \in [ok : BOOLEAN, cx : Commands, hx : 1..(2 * Unit)]
           Snap  == snap \in [connected : BOOLEAN, btn : Buttons, axis : Commands, calibrated : BOOLEAN]
<1>1. Flags /\ Bt /\ Scale /\ Web /\ Nvs /\ Snap
  BY DEF IInv, TypeOK, CentreInv
<1>2. Flags' /\ Bt' /\ Scale' /\ Web' /\ Nvs' /\ Snap' => TypeOK' /\ CentreInv'
  BY PlacesNext DEF TypeOK, CentreInv, Places
<1>3. CASE PadReady \/ PadLost \/ Silence
  BY <1>1, <1>2, <1>3 DEF PadReady, PadLost, Silence
<1>4. ASSUME NEW r \in Reports, Stamp(r) PROVE TypeOK' /\ CentreInv'
  BY <1>1, <1>2, <1>4, ReportsAssumption DEF Stamp
<1>5. CASE StoreAxes \/ StoreButtons
  BY <1>1, <1>2, <1>5 DEF StoreAxes, StoreButtons
<1>6. CASE StoreExtremes
  BY <1>1, <1>2, <1>6 DEF StoreExtremes
<1>7. CASE Connect
  BY <1>1, <1>2, <1>7, RecordFacts DEF Connect
<1>8. CASE BtOnConn0
  BY <1>1, <1>2, <1>8, RecordFacts, UnitFacts
     DEF BtOnConn0, OnConn0, CancelCollection, MarkGone, Purge, Watched
<1>9. CASE WebOnConn0
  BY <1>1, <1>2, <1>9, RecordFacts, UnitFacts
     DEF WebOnConn0, OnConn0, CancelCollection, MarkGone, Purge, Watched
<1>10. CASE WebOther
  BY <1>1, <1>2, <1>10
     DEF WebOther, StartPairing, Unpair, CalStart, Begin, Forget, ClearCalibrated, ClearState,
         NoNvs, EndVerb, SaveBlob, SaveFlag, DropDevice, Watched
<1>11. CASE Capture
  <2>1. raw \in (-2 * Unit)..(2 * Unit)
    BY <1>1, UnitFacts DEF Commands
  <2> QED
    BY <1>1, <1>2, <1>11, <2>1 DEF Capture
<1>12. CASE StoreCentre
  BY <1>1, <1>2, <1>12 DEF StoreCentre
<1>13. CASE CalFinish
  BY <1>1, <1>2, <1>13, AmplitudeFacts DEF CalFinish
<1>14. CASE Collect \/ EndCollection \/ Reject \/ Calibrated \/ CalCancel
  <2>1. 0 \in (-2 * Unit)..(2 * Unit)
    BY UnitFacts
  <2> QED
    BY <1>1, <1>2, <1>14, <2>1 DEF Collect, EndCollection, Reject, Calibrated, CalCancel, Watched
<1>15. CASE Accept
  <2>1. amp \in 1..(2 * Unit) /\ 0 \in (-2 * Unit)..(2 * Unit)
    BY <1>1, <1>15, UnitFacts DEF Accept
  <2> QED
    BY <1>1, <1>2, <1>15, <2>1 DEF Accept
<1>16. CASE Control
  <2> DEFINE Same == UNCHANGED <<link, bt, rep, fresh, connected, raw, btn, calibrated, cx, hx,
                                 cal, lo, hi, nvs, web, leave, amp>>
  <2>1. Same
    BY <1>16 DEF Control, GetConnected, GetButtons, GateCalibrated, GateCollecting, GetAxis,
                 LoadCalibrated, LoadCollecting, TickArming, Loads
  <2>2. armed' \in BOOLEAN
    BY <1>1, <1>16, <2>1 DEF Control, GetConnected, GetButtons, GateCalibrated, GateCollecting, GetAxis,
                 LoadCalibrated, LoadCollecting, TickArming, Loads
  <2>3. whole' \in BOOLEAN
    BY <1>1, <1>16 DEF Control, GetConnected, GetButtons, GateCalibrated, GateCollecting, GetAxis,
                 LoadCalibrated, LoadCollecting, TickArming
  <2>4. Snap'
    <3>1. Scaled \in Commands
      BY <1>1, ScaledFacts
    <3> QED
      BY <1>1, <1>16, <3>1, RecordFacts
         DEF Control, GetConnected, GetButtons, GateCalibrated, GateCollecting, GetAxis,
             LoadCalibrated, LoadCollecting, TickArming, Loads
  <2> QED
    BY <1>1, <1>2, <2>1, <2>2, <2>3, <2>4
<1>17. CASE PowerCut
  <2>1. 0 \in (-2 * Unit)..(2 * Unit) /\ Unit \in 1..(2 * Unit)
    BY UnitFacts
  <2> QED
    BY <1>1, <1>2, <1>17, <2>1, RecordFacts, UnitFacts DEF PowerCut
<1>18. CASE Boot
  <2>1. /\ nvs.ok \in BOOLEAN /\ nvs.cx \in Commands /\ nvs.hx \in 1..(2 * Unit)
        /\ Unit \in 1..(2 * Unit)
    BY <1>1, UnitFacts
  <2>2. Scale' /\ calibrated' \in BOOLEAN
    BY <1>1, <1>18, <2>1, UnitFacts DEF Boot, CalLoad
  <2> QED
    BY <1>1, <1>2, <1>18, <2>2 DEF Boot
<1> QED
  BY <1>3, <1>4, <1>5, <1>6, <1>7, <1>8, <1>9, <1>10, <1>11, <1>12, <1>13, <1>14, <1>15, <1>16, <1>17, <1>18
     DEF Next, Bluetooth, Pairing, Calibration, WebOther

\* Only the Bluetooth task stores a report or brings a gamepad up, and both over a link;
\* what the web task stores beside it only releases.
LEMMA LinkNext == IInv /\ Next => LinkInv'
<1> SUFFICES ASSUME IInv, Next PROVE LinkInv'
  OBVIOUS
<1>1. LinkInv /\ {link, connected} \subseteq BOOLEAN
  BY DEF IInv, TypeOK
<1>2. CASE UNCHANGED <<link, bt, connected, raw, btn>>
  BY <1>1, <1>2 DEF LinkInv, GoneIsForgotten
<1>3. CASE PadReady \/ PadLost
  BY <1>1, <1>3 DEF PadReady, PadLost, LinkInv, GoneIsForgotten
<1>4. ASSUME NEW r \in Reports, Stamp(r) PROVE LinkInv'
  BY <1>1, <1>4 DEF Stamp, LinkInv, GoneIsForgotten
<1>5. CASE Bluetooth /\ ~BtOnConn0
  BY <1>1, <1>5 DEF Bluetooth, StoreAxes, StoreButtons, StoreExtremes, Connect, LinkInv, GoneIsForgotten
<1>6. CASE BtOnConn0
  BY <1>1, <1>6 DEF BtOnConn0, OnConn0, CancelCollection, MarkGone, Purge, LinkInv, GoneIsForgotten
<1>7. CASE Forget
  BY <1>1, <1>7 DEF Forget, LinkInv, GoneIsForgotten
<1>8. CASE WebOnConn0
  <2>1. UNCHANGED <<link, bt>>
    BY <1>8 DEF WebOnConn0
  <2>2. \/ UNCHANGED connected \/ connected' = FALSE
    BY <1>8 DEF WebOnConn0, OnConn0, CancelCollection, MarkGone, Purge
  <2>3. UNCHANGED <<raw, btn>> \/ (raw' = 0 /\ btn' = Released)
    BY <1>8 DEF WebOnConn0, OnConn0, CancelCollection, MarkGone, Purge
  <2> QED
    BY <1>1, <2>1, <2>2, <2>3 DEF LinkInv, GoneIsForgotten
<1>9. CASE PowerCut
  BY <1>9 DEF PowerCut, LinkInv, GoneIsForgotten
<1>13. CASE Boot
  BY <1>1, <1>13 DEF Boot, LinkInv, GoneIsForgotten
<1>10. CASE WebOther /\ ~Forget
  BY <1>2, <1>10 DEF WebOther, StartPairing, Unpair, CalStart, Begin, ClearCalibrated, ClearState,
                     NoNvs, EndVerb, SaveBlob, SaveFlag, DropDevice
<1>11. CASE Silence \/ CalFinish \/ CalCancel \/ Calibration
  BY <1>2, <1>11 DEF Silence, CalFinish, CalCancel, Calibration, Capture, StoreCentre, Collect,
                     EndCollection, Reject, Accept, Calibrated
<1>12. CASE Control
  BY <1>2, <1>12 DEF Control, GetConnected, GetButtons, GateCalibrated, GateCollecting, GetAxis,
                     LoadCalibrated, LoadCollecting, TickArming, Loads
<1> QED
  BY <1>3, <1>4, <1>5, <1>6, <1>7, <1>8, <1>9, <1>10, <1>11, <1>12, <1>13 DEF Next, Pairing, WebOther

\* calSave writes the scale before the flag, so a flag that is written tells of a scale
\* that is there; a key that is not written, or not read back, voids the promise.
LEMMA SaveNext == IInv /\ Next => SaveInv'
<1> SUFFICES ASSUME IInv, Next PROVE SaveInv'
  OBVIOUS
<1>1. /\ SaveInv /\ nvs \in [ok : BOOLEAN, cx : Commands, hx : 1..(2 * Unit)]
      /\ hx \in Nat \ {0} /\ calibrated \in BOOLEAN
  <2>1. 1..(2 * Unit) \subseteq Nat \ {0}
    OBVIOUS
  <2> QED
    BY <2>1 DEF IInv, TypeOK
<1>2. CASE /\ UNCHANGED <<nvs, told, calibrated, hx>>
           /\ web' = web \/ {web, web'} \cap (Unsaved \cup {"accepted", "boot"}) = {}
  BY <1>1, <1>2 DEF SaveInv, Unsaved
<1>3. CASE ClearCalibrated \/ ClearState
  BY <1>1, <1>3 DEF ClearCalibrated, ClearState, SaveInv, Unsaved, Erased, Unsure
<1>4. CASE NoNvs \/ SaveBlob \/ SaveFlag
  <2>1. CASE NoNvs
    BY <2>1 DEF NoNvs, SaveInv
  <2>2. CASE SaveBlob
    BY <1>1, <2>2 DEF SaveBlob, SaveInv, Unsaved, Erased, Unsure
  <2>3. CASE SaveFlag
    BY <1>1, <2>3 DEF SaveFlag, EndVerb, SaveInv, Unsaved, Erased, Unsure
  <2> QED
    BY <1>4, <2>1, <2>2, <2>3
<1>5. CASE Accept \/ Calibrated
  BY <1>1, <1>5 DEF Accept, Calibrated, SaveInv, Unsaved, Erased, Unsure
<1>6. CASE PowerCut
  BY <1>1, <1>6 DEF PowerCut, SaveInv, Unsaved
<1>12. CASE Boot
  BY <1>1, <1>12 DEF Boot, CalLoad, SaveInv, Unsaved, Erased, Unsure
<1>7. CASE WebOther /\ ~(ClearCalibrated \/ ClearState \/ NoNvs \/ SaveBlob \/ SaveFlag)
  BY <1>2, <1>7 DEF WebOther, StartPairing, Unpair, CalStart, Begin, Forget, DropDevice, Unsaved
<1>8. CASE WebOnConn0
  BY <1>2, <1>8 DEF WebOnConn0, OnConn0, CancelCollection, MarkGone, Purge, Unsaved
<1>9. CASE CalFinish \/ CalCancel \/ (Calibration /\ ~(Accept \/ Calibrated))
  BY <1>2, <1>9 DEF CalFinish, CalCancel, Calibration, Capture, StoreCentre, Collect,
                    EndCollection, Reject, Unsaved
<1>10. CASE PadReady \/ PadLost \/ Silence \/ Bluetooth \/ \E r \in Reports : Stamp(r)
  BY <1>2, <1>10 DEF PadReady, PadLost, Silence, Bluetooth, StoreAxes, StoreButtons, StoreExtremes,
                     Connect, BtOnConn0, Stamp
<1>11. CASE Control
  BY <1>2, <1>11 DEF Control, GetConnected, GetButtons, GateCalibrated, GateCollecting, GetAxis,
                     LoadCalibrated, LoadCollecting, TickArming, Loads
<1> QED
  BY <1>3, <1>4, <1>5, <1>6, <1>7, <1>8, <1>9, <1>10, <1>11, <1>12 DEF Next, Pairing, WebOther

\* Whoever ends a collection ends what the tick has seen of it.
LEMMA ParkNext == IInv /\ Next => ParkInv'
<1> SUFFICES ASSUME IInv, Next PROVE ParkInv'
  OBVIOUS
<1>1. /\ ParkInv /\ {cal, whole} \subseteq BOOLEAN
      /\ snap \in [connected : BOOLEAN, btn : Buttons, axis : Commands, calibrated : BOOLEAN]
  BY DEF IInv, TypeOK
<1>2. CASE UNCHANGED <<ctl, snap>> /\ (UNCHANGED <<cal, whole>> \/ Watched \/ (cal' = TRUE /\ UNCHANGED whole))
  BY <1>1, <1>2 DEF ParkInv, Watched
<1>3. CASE GetConnected
  BY <1>1, <1>3 DEF GetConnected, Loads, ParkInv, Neutral
<1>4. CASE GetButtons \/ GateCalibrated \/ GateCollecting \/ LoadCalibrated \/ LoadCollecting
  BY <1>1, <1>4 DEF GetButtons, GateCalibrated, GateCollecting, LoadCalibrated, LoadCollecting,
                    Loads, ParkInv
<1>5. CASE GetAxis
  BY <1>1, <1>5 DEF GetAxis, Loads, ParkInv
<1>6. CASE TickArming
  BY <1>1, <1>6 DEF TickArming, ParkInv, Neutral
<1>7. CASE PowerCut \/ Boot
  BY <1>1, <1>7 DEF PowerCut, Boot, ParkInv
<1>8. CASE WebOther \/ WebOnConn0
  BY <1>2, <1>8 DEF WebOther, StartPairing, Unpair, CalStart, Begin, Forget, ClearCalibrated, ClearState,
                    NoNvs, EndVerb, SaveBlob, SaveFlag, DropDevice, WebOnConn0, OnConn0,
                    CancelCollection, MarkGone, Purge
<1>9. CASE CalFinish \/ CalCancel \/ Calibration
  BY <1>2, <1>9 DEF CalFinish, CalCancel, Calibration, Capture, StoreCentre, Collect,
                    EndCollection, Reject, Accept, Calibrated
<1>10. CASE PadReady \/ PadLost \/ Silence \/ Bluetooth \/ \E r \in Reports : Stamp(r)
  BY <1>2, <1>10 DEF PadReady, PadLost, Silence, Bluetooth, StoreAxes, StoreButtons, StoreExtremes,
                     Connect, BtOnConn0, OnConn0, CancelCollection, MarkGone, Purge, Stamp
<1> QED
  BY <1>3, <1>4, <1>5, <1>6, <1>7, <1>8, <1>9, <1>10 DEF Next, Pairing, Control, WebOther

LEMMA InvHolds == Spec => []IInv
<1>1. Init => IInv
  BY InvInit
<1>2. IInv /\ [Next]_vars => IInv'
  <2> SUFFICES ASSUME IInv, [Next]_vars PROVE IInv'
    OBVIOUS
  <2>1. CASE Next
    BY <2>1, TypeNext, LinkNext, SaveNext, ParkNext DEF IInv
  <2>2. CASE UNCHANGED vars
    BY <2>2 DEF vars, IInv, TypeOK, CentreInv, LinkInv, GoneIsForgotten, SaveInv, Unsaved, ParkInv
  <2> QED
    BY <2>1, <2>2
<1> QED
  BY <1>1, <1>2, PTL DEF Spec

-----------------------------------------------------------------------------
(* The theorems *)

\* Every shared variable of the gamepad keeps its range over any interleaving of the
\* three tasks: in particular no calibration ever divides by zero (input.cpp:271-275, 335-358).
THEOREM TypeCorrect == Spec => []TypeOK
<1>1. IInv => TypeOK
  BY DEF IInv
<1> QED
  BY <1>1, InvHolds, PTL

\* What an absent gamepad last said is forgotten, whichever task dropped the link and
\* whatever report was being delivered meanwhile (input.cpp:181-193).
THEOREM Forgotten == Spec => []GoneIsForgotten
<1>1. IInv => GoneIsForgotten
  BY DEF IInv, LinkInv
<1> QED
  BY <1>1, InvHolds, PTL

\* The last verdict is the one in force after any number of boots, for every scale: a
\* save is cut, fails or is not read back, or it is obeyed, whatever power cuts, pairings and
\* collections follow it (input.cpp:75-107).
THEOREM VerdictSurvives == Spec => []VerdictOutlivesBoots
<1>1. IInv => VerdictOutlivesBoots
  BY DEF IInv, SaveInv, VerdictOutlivesBoots
<1> QED
  BY <1>1, InvHolds, PTL

\* A tick that began and ended inside a calibration leaves the kart disarmed and its axes
\* at rest, whatever was stored between its loads (input.cpp:261-270, 361-364).
THEOREM CollectingParks == Spec => CollectionParks
<1>1. IInv /\ [Next]_vars =>
        [ctl = "tick" /\ ctl' = "idle" /\ whole => ~armed' /\ snap.axis = 0]_vars
  <2> SUFFICES ASSUME IInv, Next, ctl = "tick", ctl' = "idle", whole
               PROVE  ~armed' /\ snap.axis = 0
    BY Zenon
  <2>1. snap.axis = 0 /\ ~snap.calibrated
    BY DEF IInv, ParkInv
  <2>2. TickArming
    BY DEF Next, PowerCut, Boot, PadReady, PadLost, Stamp, Silence, Bluetooth, StoreAxes,
           StoreButtons, StoreExtremes, Connect, BtOnConn0, StartPairing, Unpair, CalStart, Begin, CalFinish, CalCancel, Pairing,
           Forget, ClearCalibrated, ClearState, NoNvs, EndVerb, SaveBlob, SaveFlag, DropDevice, WebOnConn0,
           Calibration, Capture, StoreCentre, Collect, EndCollection, Reject, Accept, Calibrated,
           Control, GetConnected, GetButtons, GateCalibrated, GateCollecting, GetAxis,
           LoadCalibrated, LoadCollecting, Loads
  <2>3. ~armed'
    BY <2>1, <2>2 DEF TickArming, Blocked
  <2> QED
    BY <2>1, <2>3
<1> QED
  BY <1>1, InvHolds, PTL DEF Spec, CollectionParks
===============================================================================
