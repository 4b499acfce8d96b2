---------------------------- MODULE EventLogReader ----------------------------
(***************************************************************************)
(* The web page reads the event log (webserver.cpp, evlog.cpp): the number *)
(* of records is taken first, then the last ReplyMax of them are read in   *)
(* bites, the mutex released in between.  nanopb encodes the submessage    *)
(* twice, once for its size (external): both passes read the flash, and a  *)
(* reply whose size has changed is not sent.                               *)
(*                                                                         *)
(* httpd serves one request at a time: a reply and clear() never overlap.  *)
(***************************************************************************)
EXTENDS EventLog

CONSTANT ReplyMax     \* EVLOG_REPLY_MAX
CONSTANT Bite         \* records per readAt

ASSUME ReplyAssumption == ReplyMax \in Nat \ {0} /\ Bite \in Nat \ {0}

VARIABLES
  rd,        \* the next step of the reply: "idle", "size", "encode" or "sent"
  win,       \* EvArg: the window, records first + 1 to first + count
  done,      \* encEvlog: the records asked for in this pass
  size,      \* the records found by the first pass
  reply,     \* the records found by this pass, by their places in the journal
  snap,      \* history: the window as it was when it was taken
  wiped      \* history: the journal was erased since ("wiped"), and has grown past the
             \* window's first record ("regrown"), or an erase stopped half way ("half")

readVars == <<rd, win, done, size, reply, snap>>
rvars    == <<vars, readVars, wiped>>

NoWindow  == [first |-> 0, count |-> 0]
NoRecords == [i \in {} |-> Blank]
NoReply   == /\ rd' = "idle" /\ win' = NoWindow /\ done' = 0 /\ size' = 0
             /\ reply' = NoRecords /\ snap' = NoRecords

\* encEvlog: the bites add up to the window.
Asks(d) == Least(win.count - d, Bite)

\* readAt: the valid records among those asked for, as far as the journal goes.
ReadAt(idx, cap) ==
  [i \in {k \in 1..Slots : idx < k /\ k <= Least(idx + cap, off) /\ flash[k].kind = "rec"} |->
     flash[i]]

\* encEvlog: the records of a bite are encoded after those of the bites before it.
Joined(read, bite) ==
  [i \in DOMAIN read \cup DOMAIN bite |-> IF i \in DOMAIN read THEN read[i] ELSE bite[i]]

-----------------------------------------------------------------------------
\* stats(), and the window of buildEvlogPb.
TakeWindow ==
  /\ up /\ rd = "idle" /\ web = "idle" /\ led \notin Locked
  /\ rd' = "size"
  /\ LET n == Least(off, ReplyMax)
     IN  win' = [first |-> off - n, count |-> n] /\ snap' = ReadAt(off - n, n)
  /\ UNCHANGED <<vars, done, size, reply>>

\* encEvlog: one bite of either pass.
ReadBite ==
  /\ up /\ rd \in {"size", "encode"} /\ done < win.count /\ led \notin Locked
  /\ reply' = Joined(reply, ReadAt(win.first + done, Asks(done)))
  /\ done' = done + Asks(done)
  /\ UNCHANGED <<vars, rd, win, size, snap>>

EndSizing ==
  /\ up /\ rd = "size" /\ done >= win.count
  /\ rd' = "encode"
  /\ size' = Cardinality(DOMAIN reply) /\ reply' = NoRecords /\ done' = 0
  /\ UNCHANGED <<vars, win, snap>>

\* Mutant: the reply is sent although its size has changed.
EndEncodingUnchecked ==
  /\ up /\ rd = "encode" /\ done >= win.count
  /\ rd' = "sent"
  /\ UNCHANGED <<vars, win, done, size, reply, snap>>

\* "submsg size changed": nothing is sent.
EndEncoding ==
  /\ up /\ rd = "encode" /\ done >= win.count
  /\ IF Cardinality(DOMAIN reply) = size
     THEN rd' = "sent" /\ UNCHANGED <<win, done, size, reply, snap>>
     ELSE NoReply
  /\ UNCHANGED vars

Sent == rd = "sent" /\ NoReply /\ UNCHANGED vars

Reader == TakeWindow \/ ReadBite \/ EndSizing \/ EndEncoding \/ Sent

-----------------------------------------------------------------------------
ReaderInit ==
  /\ Init
  /\ rd = "idle" /\ win = NoWindow /\ done = 0 /\ size = 0
  /\ reply = NoRecords /\ snap = NoRecords /\ wiped = "no"

\* The log goes on meanwhile, but for clear(); a power cut ends the reply.
Log ==
  /\ Next
  /\ web' # web => rd = "idle" \/ ~up'
  /\ IF up' THEN UNCHANGED readVars ELSE NoReply

Kept == \A i \in 1..Slots : flash[i] # Blank => flash'[i] = flash[i]

\* What has happened to the journal since the window was taken, the worst so far.
Watch ==
  wiped' =
    IF rd' = "idle" THEN "no"
    ELSE IF half' \/ wiped = "half" THEN "half"
    ELSE IF wiped = "no" /\ (rd = "idle" \/ Kept) THEN "no"
    ELSE IF off' > win.first \/ wiped = "regrown" THEN "regrown"
    ELSE "wiped"

ReaderNext == (Reader \/ Log) /\ Watch

ReaderSpec == ReaderInit /\ [][ReaderNext]_rvars /\ Fairness

-----------------------------------------------------------------------------
(* Properties *)

\* A reply that is sent is the window that was taken, whatever the drain writes
\* or erases between two bites; or it is empty, when the erase came before the
\* first of them.  Only a journal that grew back past the window, or an erase that
\* stopped half way, can deceive it (webserver.cpp:523-577).
SentIsWindow ==
  rd = "sent" /\ wiped \in {"no", "wiped"} => reply \in {snap, NoRecords}

\* Even then the reply tells its events in the order they happened.
SentInOrder ==
  rd = "sent" /\ wiped # "half" =>
    \A i, j \in DOMAIN reply :
      i < j /\ reply[i].id # 0 /\ reply[j].id # 0 => reply[i].id < reply[j].id
=============================================================================
