------------------------------- MODULE EventLog -------------------------------
(***************************************************************************)
(* The persistent event log (evlog.cpp): a RAM ring written by the control *)
(* task and drained by the LED task into an append-only flash journal that *)
(* must survive power cuts; the web task may erase the journal.            *)
(*                                                                         *)
(* An event is the number of its raising, 1, 2, ...; the Boot record is    *)
(* event 0.  The cursors of the ring are free-running, as in the code.     *)
(* m_mtx is held from the copy of a batch to the store of the tail (led in *)
(* Locked): clear() waits for it.  Flash is programmed over erased slots   *)
(* only: over anything else the checksum no longer matches ("torn").       *)
(***************************************************************************)
EXTENDS Integers, Sequences, FiniteSets

CONSTANT RingN        \* slots of the RAM ring
CONSTANT BatchN       \* records per flash write
CONSTANT Slots        \* records the partition holds
CONSTANT BootMod      \* boot numbers wrap here (2^16 in the code)
CONSTANT MaxEvents    \* bound: events raised in all
CONSTANT MaxCrashes   \* bound: power cuts
CONSTANT MaxFails     \* bound: flash operations that return an error

ASSUME SizesAssumption ==
  /\ RingN \in Nat \ {0} /\ BatchN \in Nat \ {0}
  /\ Slots \in Nat \ {0} /\ BatchN <= Slots
  /\ BootMod \in Nat \ {0}
  /\ MaxEvents \in Nat /\ MaxCrashes \in Nat /\ MaxFails \in Nat

VARIABLES
  up,         \* the board is powered and booted
  kart,       \* the controller's m_armed, at the tick's telemetry
  arming,     \* KartStatus::m_arming, what the other tasks can read
  ctl,        \* the control task, inside a tick that has an edge to log
  ring,       \* m_ring
  head, tail, \* m_head, m_tail
  web,        \* the web task inside clear()
  led,        \* the LED task inside maintain()
  batch,      \* drainLocked(): the records copied from the ring
  upto,       \* drainLocked(): the local tail after them
  flash,      \* the partition
  off,        \* m_write_off, in records
  boot,       \* m_boot_seq
  raised, crashes, fails,   \* the bounded counters
  half        \* history: an erase stopped half way, and none has been completed since

ramVars   == <<ring, head, tail>>
taskVars  == <<ctl, kart, arming>>
drainVars == <<led, batch, upto>>
flashVars == <<flash, off>>
boundVars == <<raised, crashes, fails, half>>
vars == <<up, taskVars, web, ramVars, drainVars, flashVars, boot, boundVars>>

Blank == [kind |-> "blank", id |-> 0, boot |-> 0]
Torn  == [kind |-> "torn", id |-> 0, boot |-> 0]
Rec(id, b) == [kind |-> "rec", id |-> id, boot |-> b]

Erased == [i \in 1..Slots |-> Blank]
Locked == {"copied", "written", "stored"}

Least(a, b) == IF a < b THEN a ELSE b

-----------------------------------------------------------------------------
(* The flash *)

\* esp_partition_write of recs after slot base.
Programmed(f, base, recs) ==
  [i \in 1..Slots |->
     IF i \in base + 1 .. base + Len(recs)
     THEN IF f[i] = Blank THEN recs[i - base] ELSE Torn
     ELSE f[i]]

\* What a write of recs leaves when it is done, after an erase (wipe) or at slot at.
Completed(wipe, at, recs) ==
  LET base == IF wipe THEN 0 ELSE at
  IN  [flash |-> Programmed(IF wipe THEN Erased ELSE flash, base, recs),
       off   |-> base + Len(recs),
       half  |-> half /\ ~wipe]

\* What an erase that stops half way leaves: any slot may be erased already, or
\* still hold its record, or read as neither.
HalfErased ==
  {[i \in 1..Slots |-> IF i \in erased THEN Blank ELSE IF i \in weak THEN Torn ELSE flash[i]] :
     erased, weak \in SUBSET (1..Slots)}

\* What it leaves when it stops half way, with an error or with the power: some
\* slots erased, or whole records and perhaps a torn one.
Interrupted(wipe, at, recs) ==
  {[Completed(wipe, at, part) EXCEPT !.off = IF wipe THEN 0 ELSE at] :
     part \in {SubSeq(recs, 1, n) : n \in 0..Len(recs)}
              \cup {Append(SubSeq(recs, 1, n), Torn) : n \in 0..(Len(recs) - 1)}}
  \cup (IF ~wipe THEN {}
        ELSE {[flash |-> f, off |-> at, half |-> TRUE] : f \in HalfErased}
             \cup {[flash |-> flash, off |-> at, half |-> half]})

\* flashAppend erases when the records do not fit.
Full(at, recs) == at + Len(recs) > Slots

\* A failure leaves the cursor behind, and the caller is not told.
FlashWrite(wipe, at, recs) ==
  \E done \in BOOLEAN :
    /\ done \/ fails < MaxFails
    /\ fails' = IF done THEN fails ELSE fails + 1
    /\ \E o \in IF done THEN {Completed(wipe, at, recs)} ELSE Interrupted(wipe, at, recs) :
         flash' = o.flash /\ off' = o.off /\ half' = o.half

-----------------------------------------------------------------------------
(* The control task: a tick with an arm or disarm edge *)

\* Mutant: the ring takes one event more than it has slots.
RingFullLate == head - tail > RingN

RingFull == head - tail >= RingN

\* push(): the slot is filled, or the event is dropped when the ring is full.
RaiseEdge ==
  /\ up /\ ctl = "idle" /\ raised < MaxEvents
  /\ kart' = ~kart
  /\ IF RingFull
     THEN ctl' = "publish" /\ UNCHANGED <<ring, raised>>
     ELSE /\ ctl' = "filled"
          /\ ring' = [ring EXCEPT ![head % RingN] = raised + 1]
          /\ raised' = raised + 1
  /\ UNCHANGED <<up, web, arming, head, tail, drainVars, flashVars, boot, crashes, fails, half>>

\* push(): the head is stored last.
CommitHead ==
  /\ up /\ ctl = "filled"
  /\ ctl' = "publish"
  /\ head' = head + 1
  /\ UNCHANGED <<up, web, kart, arming, ring, tail, drainVars, flashVars, boot, boundVars>>

\* publish(): only now can the other tasks see the edge.
PublishStatus ==
  /\ up /\ ctl = "publish"
  /\ ctl' = "idle"
  /\ arming' = kart
  /\ UNCHANGED <<up, web, kart, ramVars, drainVars, flashVars, boot, boundVars>>

-----------------------------------------------------------------------------
(* The LED task: maintain() *)

\* Mutant: the drain waits for a full ring.
MaintainCheckFullRing(busy) ==
  /\ up /\ led = "idle"
  /\ head - tail >= RingN
  /\ busy \/ ~arming
  /\ led' = "due"
  /\ UNCHANGED <<up, web, taskVars, ramVars, batch, upto, flashVars, boot, boundVars>>

\* The status is read, or its mutex is busy; maintain() goes on in both cases
\* unless it has read an armed kart.
MaintainCheck(busy) ==
  /\ up /\ led = "idle"
  /\ head # tail
  /\ busy \/ ~arming
  /\ led' = "due"
  /\ UNCHANGED <<up, web, taskVars, ramVars, batch, upto, flashVars, boot, boundVars>>

\* drainLocked(): copies the next batch, or finds the ring empty and is done.
DrainCopy ==
  /\ up /\ led \in {"due", "stored"}
  /\ LET n == Least(head - tail, BatchN)
     IN  /\ batch' = [i \in 1..n |-> Rec(ring[(tail + i - 1) % RingN], boot)]
         /\ upto' = tail + n
         /\ led' = IF n = 0 THEN "idle" ELSE "copied"
  /\ UNCHANGED <<up, web, taskVars, ramVars, flashVars, boot, boundVars>>

DrainAppend ==
  /\ up /\ led = "copied"
  /\ led' = "written"
  /\ FlashWrite(Full(off, batch), off, batch)
  /\ UNCHANGED <<up, taskVars, web, ramVars, batch, upto, boot, raised, crashes>>

\* Mutant: the tail is stored one short.
DrainStoreShort ==
  /\ up /\ led = "written"
  /\ led' = "stored"
  /\ tail' = upto - 1
  /\ upto' = 0
  /\ batch' = <<>>
  /\ UNCHANGED <<up, web, taskVars, ring, head, flashVars, boot, boundVars>>

\* Mutant: the tail is stored as the head is by now.
DrainStoreToHead ==
  /\ up /\ led = "written"
  /\ led' = "stored"
  /\ tail' = head
  /\ upto' = 0
  /\ batch' = <<>>
  /\ UNCHANGED <<up, web, taskVars, ring, head, flashVars, boot, boundVars>>

\* The tail moves past the batch whatever flashAppend did with it.
DrainStore ==
  /\ up /\ led = "written"
  /\ led' = "stored"
  /\ tail' = upto
  /\ upto' = 0
  /\ batch' = <<>>
  /\ UNCHANGED <<up, web, taskVars, ring, head, flashVars, boot, boundVars>>

-----------------------------------------------------------------------------
(* The web task: clear() *)

\* The status is read, or busy, before the mutex is waited for.
ClearCheck(busy) ==
  /\ up /\ web = "idle"
  /\ busy \/ ~arming
  /\ web' = "due"
  /\ UNCHANGED <<up, taskVars, ramVars, drainVars, flashVars, boot, boundVars>>

\* The partition is erased and the journal anchored again with a Boot record.
Clear ==
  /\ up /\ web = "due" /\ led \notin Locked
  /\ web' = "idle"
  /\ FlashWrite(TRUE, off, <<Rec(0, boot)>>)
  /\ UNCHANGED <<up, taskVars, ramVars, drainVars, boot, raised, crashes>>

-----------------------------------------------------------------------------
(* Power cuts and boots *)

\* The flash work that a power cut may stop half way.
UnderWay ==
  (IF led = "copied" THEN Interrupted(Full(off, batch), off, batch) ELSE {})
  \cup (IF web = "due" /\ led \notin Locked
        THEN Interrupted(TRUE, off, <<Rec(0, boot)>>) ELSE {})

PowerCut ==
  /\ up /\ crashes < MaxCrashes
  /\ crashes' = crashes + 1
  /\ up' = FALSE
  /\ \/ UNCHANGED <<flash, half>>
     \/ \E o \in UnderWay : flash' = o.flash /\ half' = o.half
  /\ kart' = FALSE /\ arming' = FALSE /\ ctl' = "idle" /\ web' = "idle"
  /\ ring' = [i \in 0..(RingN - 1) |-> 0] /\ head' = 0 /\ tail' = 0
  /\ led' = "idle" /\ batch' = <<>> /\ upto' = 0
  /\ off' = 0 /\ boot' = 0
  /\ UNCHANGED <<raised, fails>>

\* init(): the first blank slot.
FirstBlank ==
  LET blanks == {i \in 1..Slots : flash[i] = Blank}
  IN  IF blanks = {} THEN Slots + 1 ELSE CHOOSE i \in blanks : \A j \in blanks : i <= j

\* Mutant: the scan ends at the first record it cannot read.
ScannedToTorn ==
  LET ends == {i \in 1..Slots : flash[i].kind # "rec"}
  IN  IF ends = {} THEN Slots ELSE (CHOOSE i \in ends : \A j \in ends : i <= j) - 1

\* init(): the records before it.
Scanned == FirstBlank - 1

\* init(): one more than the highest boot number seen, in 16 bits.
NextBoot ==
  LET seen == {0} \cup {flash[i].boot : i \in {j \in 1..Scanned : flash[j].kind = "rec"}}
  IN  ((CHOOSE b \in seen : \A c \in seen : c <= b) + 1) % BootMod

\* init(): the Boot record of this boot.
BootRecord == <<Rec(0, NextBoot)>>

\* init(): scans, then writes its Boot record, before any task runs.
Boot ==
  /\ ~up
  /\ up' = TRUE
  /\ boot' = NextBoot
  /\ FlashWrite(Full(Scanned, BootRecord), Scanned, BootRecord)
  /\ UNCHANGED <<taskVars, web, ramVars, drainVars, raised, crashes>>

\* The power goes again while the Boot record is written.
BootCut ==
  /\ ~up /\ crashes < MaxCrashes
  /\ crashes' = crashes + 1
  /\ \E o \in Interrupted(Full(Scanned, BootRecord), Scanned, BootRecord) :
       flash' = o.flash /\ half' = o.half
  /\ UNCHANGED <<up, taskVars, web, ramVars, drainVars, off, boot, raised, fails>>

-----------------------------------------------------------------------------
Init ==
  /\ up = FALSE
  /\ kart = FALSE /\ arming = FALSE /\ ctl = "idle" /\ web = "idle"
  /\ ring = [i \in 0..(RingN - 1) |-> 0] /\ head = 0 /\ tail = 0
  /\ led = "idle" /\ batch = <<>> /\ upto = 0
  /\ flash = Erased /\ off = 0 /\ boot = 0
  /\ raised = 0 /\ crashes = 0 /\ fails = 0 /\ half = FALSE

Control == RaiseEdge \/ CommitHead \/ PublishStatus
Drain   == (\E busy \in BOOLEAN : MaintainCheck(busy)) \/ DrainCopy \/ DrainAppend \/ DrainStore

Next ==
  \/ Control
  \/ Drain
  \/ (\E busy \in BOOLEAN : ClearCheck(busy)) \/ Clear
  \/ PowerCut
  \/ Boot \/ BootCut

Spec == Init /\ [][Next]_vars

\* Both tasks are loops that FreeRTOS keeps scheduling: the control task ends
\* the tick it began, the LED task comes round twenty times a second.
Fairness == WF_vars(CommitHead) /\ WF_vars(PublishStatus) /\ WF_vars(Drain)

-----------------------------------------------------------------------------
(* Properties *)

\* The flags, the cursors, the ring and the counters stay in their sets; what the batch
\* and the flash hold is left to the properties below.
TypeOK ==
  /\ {up, kart, arming, half} \subseteq BOOLEAN
  /\ ctl \in {"idle", "filled", "publish"}
  /\ web \in {"idle", "due"}
  /\ led \in {"idle", "due"} \cup Locked
  /\ ring \in [0..(RingN - 1) -> 0..MaxEvents]
  /\ tail \in 0..head /\ head \in 0..MaxEvents /\ upto \in 0..head
  /\ head - tail <= RingN
  /\ Len(batch) <= BatchN
  /\ off \in 0..Slots /\ boot \in 0..(BootMod - 1)
  /\ raised \in 0..MaxEvents /\ crashes \in 0..MaxCrashes /\ fails \in 0..MaxFails

Journal  == {i \in 1..off : flash[i].kind = "rec"}
Pending  == {ring[n % RingN] : n \in tail..(head - 1)}
Recorded == {flash[i].id : i \in Journal} \ {0}

\* The journal tells the events once each and in the order they happened, and its boot
\* numbers never go back until they wrap, over power cuts, torn and failed writes,
\* unless an erase stopped half way (evlog.cpp:54-92, 126-141).
JournalInOrder ==
  ~half => \A i, j \in Journal : i < j =>
             /\ flash[i].boot <= flash[j].boot
             /\ flash[i].id # 0 /\ flash[j].id # 0 => flash[i].id < flash[j].id

\* Records are only ever written over erased flash: the boot scan resumes after
\* whatever a power cut left behind (evlog.cpp:130-140).
AppendPointBlank ==
  up /\ ~half /\ fails = 0 => \A i \in (off + 1)..Slots : flash[i] = Blank

\* push() never touches a slot the drain may be copying (evlog.cpp:158, 77-86).
NoSlotRace == ctl = "filled" => head % RingN \notin {n % RingN : n \in tail..(head - 1)}

\* An accepted event is not lost on its way: from the store of the head on it is
\* in the ring or in the journal, and leaves them only with a power cut or, once
\* recorded, with an erase; a flash operation that fails or an erase that was cut
\* half way voids the promise
\* (evlog.cpp:68-92, 154-164).
AcceptedEventsKept ==
  [][ fails' = 0 /\ up' /\ ~half =>
        \A e \in Pending \cup Recorded :
          e \in (Pending \cup Recorded)' \/ (e \notin Pending /\ off' <= off) ]_vars

\* Once the kart stays disarmed and powered, the ring empties for good, and the newest
\* event that waits in it, and so every older one, reaches the journal, unless the power
\* goes, a flash operation has failed (its batch is thrown away) or an erase stopped half
\* way (evlog.cpp:68-92, 102-111).
DisarmedDrains ==
  <>[](up /\ ~arming) =>
    /\ <>[](head = tail /\ ctl = "idle")
    /\ raised \in Pending ~> raised \in Recorded \/ ~up \/ fails > 0 \/ half

\* The claim of evlog.cpp:96 and :107: the drain runs only while disarmed, and a
\* busy status puts it off to the next call.
DrainStartsDisarmed == [][led = "idle" /\ led' = "due" => ~arming]_vars

\* The claim of evlog.hpp:6-7: an event appended to the partition is there to
\* stay, whatever power cuts came before; so what a drain wrote without an error
\* can be read back.
DrainedIsReadable ==
  [][ led = "written" /\ led' = "stored" /\ fails = 0
        => \A n \in 1..Len(batch) : batch[n].id \in Recorded ]_vars
=============================================================================
