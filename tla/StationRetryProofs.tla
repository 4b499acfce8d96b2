-------------------------- MODULE StationRetryProofs --------------------------
(***************************************************************************)
(* Theorems about StationRetry, for every pair of delays, every length of  *)
(* the event queue and every count of retries.                             *)
(*                                                                         *)
(* The inductive invariant says where the events of the driver may stand:  *)
(* the start of the station is the first event of all and is handled       *)
(* before any timer runs, so the attempts of an armed kart have one source *)
(* left, the callback that had read the status before.                     *)
(***************************************************************************)
EXTENDS StationRetry, SequenceTheorems, TLAPS

\* Before the driver has started there is nothing to do or to retry.
Unstarted ==
  radio = "off" =>
    events = <<>> /\ ~timer /\ cb = "idle" /\ hurried = 0

\* The start comes first, and nothing is retried before it is handled.
StartFirst ==
  \A i \in 1..Len(events) : events[i] = "start" =>
    i = 1 /\ ~timer /\ cb = "idle" /\ hurried = 0

\* An attempt counts as hurried while the kart is armed; after it no other can be
\* made, for the callback would have to read the status again.
Hurried ==
  /\ hurried <= 1
  /\ hurried # 0 => arming /\ cb # "connect"

IInv == TypeOK /\ Unstarted /\ StartFirst /\ Hurried /\ RetryNeverLost

-----------------------------------------------------------------------------
(* The queue of events *)

\* What an event put at the end of the queue leaves of it.
LEMMA PostFacts ==
  ASSUME events \in Seq(Event), NEW e \in Event, Post(e)
  PROVE  /\ events' \in Seq(Event) /\ Len(events') = Len(events) + 1
         /\ \A i \in 1..Len(events) : events'[i] = events[i]
         /\ events'[Len(events) + 1] = e
  BY AppendProperties DEF Post

\* What the handler of the first event leaves of it.
LEMMA TakeFacts ==
  ASSUME events \in Seq(Event), events # <<>>, events' = Tail(events)
  PROVE  /\ events' \in Seq(Event) /\ Len(events') = Len(events) - 1
         /\ Len(events) \in Nat \ {0} /\ Head(events) = events[1]
         /\ \A i \in 1..Len(events') : events'[i] = events[i + 1]
  BY HeadTailProperties, LenProperties, EmptySeq

\* What is coming is still coming after another event is posted.
LEMMA PostKeepsComing ==
  ASSUME events \in Seq(Event), NEW e \in Event, Post(e), NEW d
  PROVE  Coming(d)' <=> Coming(d) \/ d = e
<1>1. Len(events) \in Nat
  BY LenProperties
<1> QED
  BY <1>1, PostFacts DEF Coming

\* What is coming is still coming after another event is handled.
LEMMA TakeKeepsComing ==
  ASSUME events \in Seq(Event), events # <<>>, events' = Tail(events),
         NEW d, d # Head(events), Coming(d)
  PROVE  Coming(d)'
<1>1. PICK i \in 1..Len(events) : events[i] = d
  BY DEF Coming
<1>2. i # 1
  BY <1>1, TakeFacts
<1>3. i - 1 \in 1..Len(events')
  BY <1>2, TakeFacts
<1> QED
  BY <1>1, <1>3, TakeFacts DEF Coming

-----------------------------------------------------------------------------
(* The invariant *)

LEMMA InvInit == Init => IInv
<1> SUFFICES ASSUME Init PROVE IInv
  OBVIOUS
<1>1. TypeOK
  <2>1. events \in Seq(Event)
    BY DEF Init
  <2>2. /\ backoff \in Min..Max /\ tries \in 0..MaxTries /\ hurried \in 0..2
        /\ radio \in Link /\ cb \in {"idle", "read", "connect"}
    BY DelaysAssumption DEF Init, Link
  <2>3. {net, arming, timer, connected} \subseteq BOOLEAN
    BY DEF Init
  <2> QED
    BY <2>1, <2>2, <2>3 DEF TypeOK
<1> QED
  BY <1>1 DEF Init, IInv, Unstarted, StartFirst, Hurried, RetryNeverLost

LEMMA TypeNext == TypeOK /\ [Next]_vars => TypeOK'
<1> SUFFICES ASSUME TypeOK, [Next]_vars PROVE TypeOK'
  OBVIOUS
<1> USE DelaysAssumption DEF TypeOK
<1>1. CASE Driver
  BY <1>1, PostFacts DEF Driver, Link, Event, station
<1>2. CASE Network
  BY <1>2 DEF Network, station
<1>3. CASE PublishArming
  BY <1>3 DEF PublishArming, driver, station
<1>4. CASE WifiEvent
  <2>1. /\ radio' \in Link /\ hurried' \in 0..2
        /\ net' \in BOOLEAN /\ arming' \in BOOLEAN /\ cb' \in {"idle", "read", "connect"}
    BY <1>4 DEF WifiEvent, Connect, Link
  <2>2. events' \in Seq(Event)
    BY <1>4, TakeFacts DEF WifiEvent
  <2>3. timer' \in BOOLEAN /\ connected' \in BOOLEAN
    BY <1>4 DEF WifiEvent, Disconnected
  <2>4. \/ backoff' = backoff \/ backoff' = Min \/ backoff' = Max
        \/ backoff < Max \div 2 /\ backoff' = 2 * backoff
    BY <1>4 DEF WifiEvent, Disconnected
  <2>5. backoff' \in Min..Max
    <3>1. Min \in Int /\ Max \in Int /\ backoff \in Int /\ 2 * (Max \div 2) <= Max /\ Max \div 2 \in Int
      OBVIOUS
    <3> QED
      BY <2>4, <3>1
  <2>6. tries' \in 0..MaxTries
    BY <1>4 DEF WifiEvent, Disconnected
  <2> QED
    BY <2>1, <2>2, <2>3, <2>5, <2>6
<1>5. CASE Fire
  BY <1>5 DEF Fire, driver
<1>6. ASSUME NEW busy \in BOOLEAN, ReadStatus(busy) PROVE TypeOK'
  BY <1>6 DEF ReadStatus, driver
<1>7. CASE Retry
  BY <1>7 DEF Retry, Connect, Link
<1>8. CASE UNCHANGED vars
  BY <1>8 DEF vars, driver, station
<1> QED
  BY <1>1, <1>2, <1>3, <1>4, <1>5, <1>6, <1>7, <1>8 DEF Next

\* Where the start stands, and what runs before it.
LEMMA StartNext == IInv /\ [Next]_vars => (Unstarted /\ StartFirst /\ Hurried)'
<1> SUFFICES ASSUME IInv, [Next]_vars PROVE (Unstarted /\ StartFirst /\ Hurried)'
  OBVIOUS
<1> USE DEF IInv
<1>0. events \in Seq(Event) /\ Len(events) \in Nat /\ hurried \in 0..2 /\ arming \in BOOLEAN
  BY LenProperties DEF TypeOK
<1>1. CASE Driver
  <2>1. ASSUME radio = "off", Post("start") PROVE (Unstarted /\ StartFirst /\ Hurried)'
    <3>1. events = <<>> /\ Len(events) = 0
      BY <2>1 DEF Unstarted
    <3>2. Len(events') = 1
      BY <3>1, <2>1, <1>0, PostFacts DEF Event
    <3> QED
      BY <1>1, <2>1, <3>1, <3>2 DEF Driver, station, Unstarted, StartFirst, Hurried
  <2>2. ASSUME NEW e \in {"got_ip", "disconnected"}, radio # "off", radio' # "off", Post(e)
        PROVE  (Unstarted /\ StartFirst /\ Hurried)'
    <3>1. /\ Len(events') = Len(events) + 1 /\ events'[Len(events) + 1] # "start"
          /\ \A i \in 1..Len(events) : events'[i] = events[i]
      BY <2>2, <1>0, PostFacts DEF Event
    <3>2. UNCHANGED <<timer, cb, hurried, arming>>
      BY <1>1 DEF Driver, station
    <3>3. StartFirst'
      BY <3>1, <3>2, <1>0 DEF StartFirst
    <3> QED
      BY <2>2, <3>2, <3>3 DEF Unstarted, Hurried
  <2> QED
    BY <1>1, <2>1, <2>2 DEF Driver
<1>2. CASE Network
  BY <1>2 DEF Network, station, Unstarted, StartFirst, Hurried
<1>3. CASE PublishArming
  BY <1>3 DEF PublishArming, driver, station, Unstarted, StartFirst, Hurried
<1>4. CASE WifiEvent
  <2>1. events # <<>> /\ events' = Tail(events) /\ UNCHANGED <<net, arming, cb>>
    BY <1>4 DEF WifiEvent
  <2>2. /\ \A i \in 1..Len(events') : i + 1 \in 1..Len(events) /\ i + 1 # 1 /\ events'[i] = events[i + 1]
        /\ 1 \in 1..Len(events) /\ Head(events) = events[1]
    BY <2>1, <1>0, TakeFacts
  <2>3. \A i \in 1..Len(events') : events'[i] # "start"
    BY <2>2 DEF StartFirst
  <2>4. radio # "off" /\ radio' # "off"
    BY <1>4, <2>1 DEF WifiEvent, Connect, Unstarted
  <2>5. Hurried'
    <3>1. CASE Head(events) = "start"
      <4>1. hurried = 0 /\ cb = "idle"
        BY <3>1, <2>2 DEF StartFirst
      <4>2. Connect
        BY <1>4, <3>1 DEF WifiEvent
      <4> QED
        BY <4>1, <4>2, <2>1 DEF Connect, Hurried
    <3>2. CASE Head(events) # "start"
      BY <1>4, <3>2, <2>1 DEF WifiEvent, Hurried
    <3> QED
      BY <3>1, <3>2
  <2> QED
    BY <2>3, <2>4, <2>5 DEF Unstarted, StartFirst
<1>5. CASE Fire
  BY <1>5 DEF Fire, driver, Unstarted, StartFirst, Hurried
<1>6. ASSUME NEW busy \in BOOLEAN, ReadStatus(busy) PROVE (Unstarted /\ StartFirst /\ Hurried)'
  BY <1>6, <1>0 DEF ReadStatus, driver, Unstarted, StartFirst, Hurried
<1>7. CASE Retry
  BY <1>7, <1>0 DEF Retry, Connect, Unstarted, StartFirst, Hurried
<1>8. CASE UNCHANGED vars
  BY <1>8 DEF vars, driver, station, Unstarted, StartFirst, Hurried
<1> QED
  BY <1>1, <1>2, <1>3, <1>4, <1>5, <1>6, <1>7, <1>8 DEF Next

\* Who has to bring the next attempt hands it on.
LEMMA RetryNext == IInv /\ [Next]_vars => RetryNeverLost'
<1> SUFFICES ASSUME IInv, [Next]_vars PROVE RetryNeverLost'
  OBVIOUS
<1> USE DEF IInv, RetryNeverLost
<1>0. events \in Seq(Event)
  BY DEF TypeOK
<1>1. CASE Driver
  <2>1. UNCHANGED <<timer, cb>>
    BY <1>1 DEF Driver, station
  <2>2. ASSUME NEW e \in {"start", "disconnected"}, Post(e) PROVE RetryNeverLost'
    BY <2>2, <1>0, PostKeepsComing DEF Event
  <2>3. radio' = "up" \/ Post("start") \/ Post("disconnected")
    BY <1>1 DEF Driver
  <2> QED
    BY <2>1, <2>2, <2>3
<1>2. CASE Network
  BY <1>2 DEF Network, station, Coming
<1>3. CASE PublishArming
  BY <1>3 DEF PublishArming, driver, station, Coming
<1>4. CASE WifiEvent
  <2>1. events # <<>> /\ events' = Tail(events) /\ cb' = cb
    BY <1>4 DEF WifiEvent
  <2>2. CASE Head(events) = "start"
    BY <1>4, <2>2 DEF WifiEvent, Connect
  <2>3. CASE Head(events) = "disconnected"
    BY <1>4, <2>3 DEF WifiEvent, Disconnected
  <2>4. CASE Head(events) = "got_ip"
    <3>1. \A d \in {"start", "disconnected"} : Coming(d) => Coming(d)'
      BY <2>1, <2>4, <1>0, TakeKeepsComing
    <3> QED
      BY <1>4, <2>1, <2>4, <3>1 DEF WifiEvent
  <2> QED
    BY <1>4, <2>2, <2>3, <2>4 DEF WifiEvent
<1>5. CASE Fire
  BY <1>5 DEF Fire
<1>6. ASSUME NEW busy \in BOOLEAN, ReadStatus(busy) PROVE RetryNeverLost'
  BY <1>6 DEF ReadStatus
<1>7. CASE Retry
  BY <1>7 DEF Retry, Connect
<1>8. CASE UNCHANGED vars
  BY <1>8 DEF vars, driver, station, Coming
<1> QED
  BY <1>1, <1>2, <1>3, <1>4, <1>5, <1>6, <1>7, <1>8 DEF Next

LEMMA InvHolds == Spec => []IInv
<1>1. IInv /\ [Next]_vars => IInv'
  BY TypeNext, StartNext, RetryNext DEF IInv
<1> QED
  BY InvInit, <1>1, PTL DEF Spec

-----------------------------------------------------------------------------
(* The theorems *)

\* Every variable stays in its set (webserver.cpp:76-79).
THEOREM TypeCorrect == Spec => []TypeOK
<1>1. IInv => TypeOK
  BY DEF IInv
<1> QED
  BY InvHolds, <1>1, PTL

\* A station that is down has its next attempt coming (webserver.cpp:87-96, 113-129).
THEOREM NeverLost == Spec => []RetryNeverLost
<1>1. IInv => RetryNeverLost
  BY DEF IInv
<1> QED
  BY InvHolds, <1>1, PTL

\* An armed kart sees at most one attempt, which was under way when it was armed
\* (webserver.cpp:65-72, 87-96).
THEOREM OneHurried == Spec => []OneHurriedRetry
<1>1. IInv => OneHurriedRetry
  BY DEF IInv, Hurried, OneHurriedRetry
<1> QED
  BY InvHolds, <1>1, PTL

\* The delays of a station that gets no answer double from Min to Max, when Max can
\* be halved (300000 ms in the code: of an odd ceiling half would be cut off, and the
\* delay reach it one retry too early).  The provers know no powers: their one law
\* is a hypothesis (webserver.cpp:121-124, 136).
THEOREM Doubling ==
  ASSUME Max % 2 = 0,
         \A n \in Nat : 2 ^ n \in Nat \ {0} /\ 2 ^ (n + 1) = 2 * 2 ^ n
  PROVE  Spec => []BackoffLaw
<1> USE DelaysAssumption
<1> DEFINE Ideal(n) == Min * 2 ^ n
<1>1. /\ Ideal(0) = Min
      /\ \A n \in Nat : Ideal(n) \in Nat \ {0} /\ Ideal(n + 1) = 2 * Ideal(n)
  <2>1. 2 ^ 0 = 1
    OBVIOUS
  <2>2. ASSUME NEW n \in Nat PROVE Ideal(n) \in Nat \ {0} /\ Ideal(n + 1) = 2 * Ideal(n)
    <3> DEFINE p == 2 ^ n
    <3>1. p \in Nat \ {0} /\ 2 ^ (n + 1) = 2 * p
      OBVIOUS
    <3> HIDE DEF p
    <3>2. Min * p \in Nat \ {0} /\ Min * (2 * p) = 2 * (Min * p)
      BY <3>1
    <3> QED
      BY <3>1, <3>2 DEF p
  <2> QED
    BY <2>1, <2>2
<1> HIDE DEF Ideal
<1>2. BackoffLaw <=> (tries < MaxTries => backoff = IF Ideal(tries) < Max THEN Ideal(tries) ELSE Max)
  BY DEF BackoffLaw, Ideal
<1>3. Min = IF Ideal(0) < Max THEN Ideal(0) ELSE Max
  <2>1. Ideal(0) = Min
    BY <1>1
  <2>2. Min < Max \/ Min = Max
    BY Z3
  <2> QED
    BY <2>1, <2>2
<1>4. Init => BackoffLaw
  <2>1. Init => tries = 0 /\ backoff = Min
    BY DEF Init
  <2>2. tries = 0 => Ideal(tries) = Ideal(0)
    OBVIOUS
  <2> QED
    BY <2>1, <2>2, <1>2, <1>3
<1>5. TypeOK /\ BackoffLaw /\ [Next]_vars => BackoffLaw'
  <2> SUFFICES ASSUME TypeOK, BackoffLaw, [Next]_vars PROVE BackoffLaw'
    OBVIOUS
  <2>1. BackoffLaw' <=>
          (tries' < MaxTries => backoff' = IF Ideal(tries') < Max THEN Ideal(tries') ELSE Max)
    BY DEF BackoffLaw, Ideal
  <2>2. ASSUME UNCHANGED <<tries, backoff>> PROVE BackoffLaw'
    BY <2>1, <2>2, <1>2
  <2>3. CASE WifiEvent
    <3>1. CASE tries' = 0 /\ backoff' = Min
      BY <3>1, <2>1, <1>3
    <3>2. CASE Disconnected /\ ~timer
      <4>1. tries \in Nat /\ backoff \in Nat
        BY DEF TypeOK
      <4>2. CASE tries = MaxTries
        BY <4>2, <4>1, <3>2, <2>1 DEF Disconnected
      <4>3. CASE tries # MaxTries
        <5>1. tries' = tries + 1 /\ backoff' = IF backoff >= Max \div 2 THEN Max ELSE 2 * backoff
          BY <3>2, <4>3 DEF Disconnected
        <5>2. backoff = IF Ideal(tries) < Max THEN Ideal(tries) ELSE Max
          BY <4>1, <4>3, <1>2 DEF TypeOK
        <5>3. Ideal(tries') = 2 * Ideal(tries) /\ Ideal(tries) \in Nat
          BY <4>1, <5>1, <1>1
        <5>4. 2 * (Max \div 2) = Max /\ Max \div 2 \in Nat
          OBVIOUS
        <5> QED
          BY <5>1, <5>2, <5>3, <5>4, <2>1
      <4> QED
        BY <4>2, <4>3
    <3> QED
      BY <2>3, <3>1, <3>2, <2>2 DEF WifiEvent, Disconnected
  <2>4. CASE ~WifiEvent
    BY <2>2, <2>4 DEF Next, Driver, Network, PublishArming, Fire, ReadStatus, Retry, vars, station
  <2> QED
    BY <2>3, <2>4
<1> QED
  BY TypeCorrect, <1>4, <1>5, PTL DEF Spec
===============================================================================
