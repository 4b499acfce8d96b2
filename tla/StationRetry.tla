----------------------------- MODULE StationRetry -----------------------------
(***************************************************************************)
(* The Wi-Fi station (webserver.cpp): drops arrive as events, a one-shot   *)
(* timer brings the next attempt, later and later while nobody answers,    *)
(* and its callback puts the attempt off while the kart may be armed.      *)
(*                                                                         *)
(* The driver is external: it owns the link, posts its events in order to  *)
(* wifiEvent, and ignores esp_wifi_connect unless the link is down.        *)
(***************************************************************************)
EXTENDS Integers, Sequences

CONSTANT Min, Max     \* STA_RETRY_MIN_MS, STA_RETRY_MAX_MS
CONSTANT MaxQueue     \* bound: events the driver posts ahead of the handler
CONSTANT MaxTries     \* bound: where the count of retries stops growing

ASSUME DelaysAssumption ==
  /\ Min \in Nat \ {0} /\ Max \in Nat /\ Min <= Max
  /\ MaxQueue \in Nat \ {0} /\ MaxTries \in Nat

VARIABLES
  net,        \* external: the network is in range and accepts the station
  radio,      \* external: the link of the station, as the driver knows it
  events,     \* external: the events on their way to wifiEvent
  arming,     \* KartStatus::m_arming
  timer,      \* m_sta_retry is running
  cb,         \* staRetryCb: its next step
  backoff,    \* m_sta_backoff_ms
  connected,  \* m_sta_connected
  tries,      \* history: retries granted since the last address
  hurried     \* history: attempts made since the kart was armed, 2 for more

driver  == <<net, radio, events>>
station == <<timer, cb, backoff, connected>>
vars == <<driver, arming, station, tries, hurried>>

Link  == {"off", "idle", "trying", "up"}
Event == {"start", "disconnected", "got_ip"}

-----------------------------------------------------------------------------
(* The driver and the kart *)

\* esp_wifi_connect.
Connect ==
  /\ radio' = IF radio = "idle" THEN "trying" ELSE radio
  /\ hurried' = IF arming /\ hurried < 2 THEN hurried + 1 ELSE hurried

Post(e) == Len(events) < MaxQueue /\ events' = Append(events, e)

Driver ==
  /\ \/ radio = "off" /\ radio' = "idle" /\ Post("start")
     \/ radio = "trying" /\ net /\ radio' = "up" /\ Post("got_ip")
     \/ radio \in {"trying", "up"} /\ ~net /\ radio' = "idle" /\ Post("disconnected")
     \/ radio = "idle" /\ UNCHANGED radio /\ Post("disconnected")
  /\ UNCHANGED <<net, arming, station, tries, hurried>>

Network ==
  /\ net' = ~net
  /\ UNCHANGED <<radio, events, arming, station, tries, hurried>>

\* The control task publishes a kart armed or disarmed.
PublishArming ==
  /\ arming' = ~arming /\ hurried' = 0
  /\ UNCHANGED <<driver, station, tries>>

-----------------------------------------------------------------------------
(* wifiEvent *)

\* Mutant: the delay grows although a retry is already waiting.
DisconnectedGrows ==
  /\ timer' = TRUE
  /\ tries' = IF timer \/ tries = MaxTries THEN tries ELSE tries + 1
  /\ backoff' = IF backoff >= Max \div 2 THEN Max ELSE 2 * backoff

\* Mutant: a station that has reached the ceiling is given up.
DisconnectedGivesUp ==
  IF timer \/ backoff = Max THEN UNCHANGED <<timer, backoff, tries>>
  ELSE /\ timer' = TRUE
       /\ backoff' = IF backoff >= Max \div 2 THEN Max ELSE 2 * backoff
       /\ tries' = IF tries = MaxTries THEN tries ELSE tries + 1

\* A retry is granted after the present delay, and the next delay doubles, unless
\* one is waiting already.
Disconnected ==
  IF timer THEN UNCHANGED <<timer, backoff, tries>>
  ELSE /\ timer' = TRUE
       /\ backoff' = IF backoff >= Max \div 2 THEN Max ELSE 2 * backoff
       /\ tries' = IF tries = MaxTries THEN tries ELSE tries + 1

WifiEvent ==
  /\ events # <<>> /\ events' = Tail(events)
  /\ \/ /\ Head(events) = "start"
        /\ Connect
        /\ UNCHANGED <<timer, backoff, connected, tries>>
     \/ /\ Head(events) = "disconnected"
        /\ connected' = FALSE
        /\ Disconnected
        /\ UNCHANGED <<radio, hurried>>
     \/ /\ Head(events) = "got_ip"
        /\ connected' = TRUE /\ backoff' = Min /\ tries' = 0
        /\ UNCHANGED <<radio, timer, hurried>>
  /\ UNCHANGED <<net, arming, cb>>

-----------------------------------------------------------------------------
(* staRetryCb *)

Fire ==
  /\ timer /\ cb = "idle"
  /\ timer' = FALSE /\ cb' = "read"
  /\ UNCHANGED <<driver, arming, backoff, connected, tries, hurried>>

\* Mutant: a busy status counts as disarmed.
ReadStatusHurried(busy) ==
  /\ cb = "read"
  /\ IF arming /\ ~busy THEN cb' = "idle" /\ timer' = TRUE
     ELSE cb' = "connect" /\ UNCHANGED timer
  /\ UNCHANGED <<driver, arming, backoff, connected, tries, hurried>>

\* Mutant: an armed kart ends the retries.
ReadStatusGivesUp(busy) ==
  /\ cb = "read"
  /\ cb' = IF busy \/ arming THEN "idle" ELSE "connect"
  /\ UNCHANGED <<driver, arming, timer, backoff, connected, tries, hurried>>

\* statusTrySnapshot: a status that is busy or armed puts the attempt off.
ReadStatus(busy) ==
  /\ cb = "read"
  /\ IF busy \/ arming THEN cb' = "idle" /\ timer' = TRUE
     ELSE cb' = "connect" /\ UNCHANGED timer
  /\ UNCHANGED <<driver, arming, backoff, connected, tries, hurried>>

Retry ==
  /\ cb = "connect" /\ cb' = "idle"
  /\ Connect
  /\ UNCHANGED <<net, events, arming, timer, backoff, connected, tries>>

-----------------------------------------------------------------------------
Init ==
  /\ net \in BOOLEAN /\ radio = "off" /\ events = <<>> /\ arming = FALSE
  /\ timer = FALSE /\ cb = "idle" /\ backoff = Min /\ connected = FALSE
  /\ tries = 0 /\ hurried = 0

Next ==
  \/ Driver \/ Network \/ PublishArming
  \/ WifiEvent
  \/ Fire \/ (\E busy \in BOOLEAN : ReadStatus(busy)) \/ Retry

Spec == Init /\ [][Next]_vars

\* The driver ends what it began, the event and timer tasks run.  The status is
\* held for a copy only, so a reader that comes back often enough finds it free.
FairSpec ==
  /\ Spec
  /\ WF_vars(Driver) /\ WF_vars(WifiEvent)
  /\ WF_vars(Fire) /\ WF_vars(Retry) /\ SF_vars(ReadStatus(FALSE))

-----------------------------------------------------------------------------
(* Properties *)

\* Every variable stays in its set.
TypeOK ==
  /\ {net, arming, timer, connected} \subseteq BOOLEAN
  /\ radio \in Link /\ events \in Seq(Event) /\ cb \in {"idle", "read", "connect"}
  /\ backoff \in Min..Max /\ tries \in 0..MaxTries /\ hurried \in 0..2

Coming(e) == \E i \in 1..Len(events) : events[i] = e

\* A station that is down has its next attempt coming, whatever drops, postponed
\* attempts and events came in whatever order (webserver.cpp:87-96, 113-129).
RetryNeverLost ==
  radio = "idle" => timer \/ cb # "idle" \/ Coming("start") \/ Coming("disconnected")

\* The delays of a station that gets no answer are Min, 2 Min, 4 Min, ... up to Max,
\* and a burst of drops counts once (webserver.cpp:121-124, 136).
BackoffLaw ==
  tries < MaxTries => backoff = IF Min * 2 ^ tries < Max THEN Min * 2 ^ tries ELSE Max

\* Of the attempts made while the kart is armed at most one: the one whose callback
\* had read the status before (webserver.cpp:65-72, 87-96).
OneHurriedRetry == hurried <= 1

\* Once the network is there and the kart stays disarmed, the station comes back
\* (webserver.cpp:65-72).
Reconnects == <>[](net /\ ~arming) => <>[]connected
=============================================================================
