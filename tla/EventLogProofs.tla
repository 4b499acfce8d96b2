---------------------------- MODULE EventLogProofs ----------------------------
(***************************************************************************)
(* Theorems about EventLog and EventLogReader, for every ring, batch and   *)
(* partition, any number of events, power cuts and failing flash           *)
(* operations, and every window and bite of a reply.                       *)
(*                                                                         *)
(* What the cursors of the ring say is tied to the count of events raised: *)
(* they are numbered without a gap from the oldest in the ring to the last *)
(* pushed.  What the flash says is stated about all its slots, not only    *)
(* those below the cursor: a failed write leaves records above it, and the *)
(* scan of the next boot takes them into the journal.                      *)
(*                                                                         *)
(* The last part is about the reply of EventLogReader, over such a log.    *)
(***************************************************************************)
EXTENDS EventLogReader, SequenceTheorems, FiniteSetTheorems, TLAPS

Records == {Rec(id, b) : id \in 0..MaxEvents, b \in 0..(BootMod - 1)}
Cells   == Records \cup {Blank, Torn}

\* The events pushed since the boot, the one in its slot and not yet committed included.
Pushed == IF ctl = "filled" THEN head + 1 ELSE head

\* The events pending are the last ones raised, in their order.
RingInv ==
  /\ Pushed <= raised /\ Pushed - tail <= RingN
  /\ \A n \in tail..(Pushed - 1) : ring[n % RingN] = raised - Pushed + n + 1

\* A batch under way is the oldest of them.
BatchInv ==
  /\ batch \in Seq(Records)
  /\ led \in {"copied", "written"} =>
       /\ upto \in (tail + 1)..head /\ Len(batch) = upto - tail
       /\ \A i \in 1..Len(batch) : batch[i] = Rec(raised - Pushed + tail + i, boot)

\* Nothing is left in RAM without power.
OffInv ==
  ~up => /\ ctl = "idle" /\ web = "idle" /\ led = "idle"
         /\ head = 0 /\ tail = 0 /\ off = 0 /\ boot = 0

\* The slots in use come first, with those below the cursor among them.
Packed(f, n) ==
  /\ \A i, j \in 1..Slots : i < j /\ f[i] = Blank => f[j] = Blank
  /\ \A i \in 1..n : f[i] # Blank

FlashInv == flash \in [1..Slots -> Cells] /\ (~half => Packed(flash, off))

\* What was written without an error can be read back.
WrittenInv ==
  led = "written" /\ fails = 0 /\ ~half =>
    \A n \in 1..Len(batch) : \E i \in 1..off : flash[i] = batch[n]

IInv ==
  /\ TypeOK /\ RingInv /\ BatchInv /\ OffInv
  /\ FlashInv /\ AppendPointBlank /\ WrittenInv

\* The last event that flash can hold: those up to the tail, and the batch once written.
Told == raised - Pushed + IF led = "written" THEN upto ELSE tail

\* The records of flash are in order, from the first slot to the last.
Sorted(f) ==
  \A i, j \in 1..Slots :
    i < j /\ f[i].kind = "rec" /\ f[j].kind = "rec" =>
      /\ f[i].boot <= f[j].boot
      /\ f[i].id # 0 /\ f[j].id # 0 => f[i].id < f[j].id

Boots == crashes + IF up THEN 1 ELSE 0

\* A boot number counts the boots at most, and the records on flash come before
\* whatever is written next.
OrderInv ==
  /\ \A i \in 1..Slots : flash[i].boot <= Boots
  /\ up => boot <= Boots
  /\ ~half => /\ Sorted(flash)
              /\ \A i \in 1..Slots : flash[i].kind = "rec" =>
                   flash[i].id <= Told /\ (up => flash[i].boot <= boot)

-----------------------------------------------------------------------------
(* Numbers *)

\* Two cursors less than a ring apart name two slots.
LEMMA ModDistinct ==
  ASSUME NEW N \in Nat \ {0}, NEW a \in Nat, NEW b \in Nat, a < b, b - a < N
  PROVE  a % N # b % N
<1> DEFINE p == a \div N
          q == b \div N
<1>1. p \in Int /\ q \in Int /\ a = (N * p) + (a % N) /\ b = (N * q) + (b % N)
  OBVIOUS
<1> HIDE DEF p, q
<1> SUFFICES ASSUME a % N = b % N PROVE FALSE
  OBVIOUS
<1>2. b - a = N * (q - p)
  BY <1>1
<1>3. q - p \in Int
  BY <1>1
<1>4. ASSUME NEW d \in Int PROVE N * d <= 0 \/ N * d >= N
  OBVIOUS
<1> QED
  BY <1>2, <1>3, <1>4

\* A set of numbers has a least one: the ranges up to its members have a smallest.
LEMMA HasLeast ==
  ASSUME NEW S, S \subseteq Nat, S # {}
  PROVE  \E x \in S : \A y \in S : x <= y
<1> DEFINE Below == {0..x : x \in S}
           R == StrictSubsetOrdering(Nat)
<1>1. Below \subseteq FiniteSubsetsOf(Nat)
  <2>1. ASSUME NEW x \in S PROVE 0..x \in SUBSET Nat /\ IsFiniteSet(0..x)
    BY FS_Interval
  <2> QED
    BY <2>1 DEF FiniteSubsetsOf
<1>2. IsWellFoundedOn(R, FiniteSubsetsOf(Nat)) /\ Below # {}
  BY FS_StrictSubsetOrderingWellFounded
<1>3. PICK b \in Below : \A c \in Below : <<c, b>> \notin R
  <2> HIDE DEF Below, R
  <2> QED
    BY <1>1, <1>2, WFMin
<1>4. PICK x \in S : b = 0..x
  OBVIOUS
<1>5. ASSUME NEW y \in S, ~(x <= y) PROVE FALSE
  <2>1. 0..y \in SUBSET Nat /\ 0..x \in SUBSET Nat
    OBVIOUS
  <2>2. 0..y \subseteq 0..x /\ x \in 0..x /\ x \notin 0..y
    BY <1>5
  <2>3. <<0..y, 0..x>> \in R
    BY <2>1, <2>2 DEF StrictSubsetOrdering
  <2> QED
    BY <2>3, <1>3, <1>4
<1> QED
  BY <1>5

\* A bounded set of numbers has a greatest one.
LEMMA HasGreatest ==
  ASSUME NEW S, S \subseteq Nat, S # {}, NEW n \in Nat, \A x \in S : x <= n
  PROVE  \E x \in S : \A y \in S : y <= x
<1> DEFINE T == {n - x : x \in S}
<1>0. T \subseteq Nat /\ T # {}
  <2>1. ASSUME NEW x \in S PROVE n - x \in Nat
    OBVIOUS
  <2> QED
    BY <2>1
<1>1. PICK t \in T : \A u \in T : t <= u
  <2> HIDE DEF T
  <2> QED
    BY <1>0, HasLeast
<1>2. PICK x \in S : t = n - x
  OBVIOUS
<1>3. ASSUME NEW y \in S PROVE y <= x
  <2>1. n - y \in T /\ x \in Nat /\ y \in Nat
    OBVIOUS
  <2>2. t <= n - y
    BY <2>1, <1>1
  <2> QED
    BY <2>1, <2>2, <1>2
<1> QED
  BY <1>3

-----------------------------------------------------------------------------
(* What a write leaves on flash *)

\* The records of a write that stand in f as g has them: n slots after base, each
\* with its record where f was erased, or torn.
Grown(f, g, base, recs, n) ==
  /\ g \in [1..Slots -> Cells]
  /\ \A i \in 1..Slots :
       IF i \in base + 1 .. base + n
       THEN g[i] = Torn \/ (f[i] = Blank /\ g[i] = recs[i - base])
       ELSE g[i] = f[i]

Base(wipe, at) == IF wipe THEN 0 ELSE at
Ground(wipe)   == IF wipe THEN Erased ELSE flash

\* A write stopped half way, or not at all.
Outcome(wipe, at, recs) == Interrupted(wipe, at, recs) \cup {Completed(wipe, at, recs)}

HalfErasedAs(erased, weak) ==
  [i \in 1..Slots |-> IF i \in erased THEN Blank ELSE IF i \in weak THEN Torn ELSE flash[i]]

\* A write that fits.
Fits(wipe, at, recs) ==
  /\ wipe \in BOOLEAN /\ at \in 0..Slots /\ recs \in Seq(Records)
  /\ Len(recs) <= Slots /\ (~wipe => at + Len(recs) <= Slots)

\* A cell is what its kind says.
LEMMA CellFacts ==
  /\ Blank \in Cells /\ Torn \in Cells /\ Records \subseteq Cells /\ Blank # Torn
  /\ \A c \in Cells : /\ c.kind = "rec" <=> c \in Records
                      /\ c.id \in 0..MaxEvents /\ c.boot \in 0..(BootMod - 1)
  /\ \A c \in Records : c # Blank /\ c # Torn
  /\ \A id \in 0..MaxEvents, b \in 0..(BootMod - 1) :
       Rec(id, b) \in Records /\ Rec(id, b).id = id /\ Rec(id, b).boot = b /\ Rec(id, b).kind = "rec"
<1>1. 0 \in 0..MaxEvents /\ 0 \in 0..(BootMod - 1)
  BY SizesAssumption
<1> QED
  BY <1>1 DEF Cells, Records, Rec, Blank, Torn

\* Programming part of some records lets them grow in f.
LEMMA ProgrammedFacts ==
  ASSUME NEW f \in [1..Slots -> Cells], NEW base \in 0..Slots, NEW recs \in Seq(Records),
         NEW part, part \in Seq(Cells), Len(part) <= Len(recs),
         \A k \in 1..Len(part) : part[k] = Torn \/ part[k] = recs[k]
  PROVE  Grown(f, Programmed(f, base, part), base, recs, Len(part))
<1>1. Len(part) \in Nat /\ Len(recs) \in Nat /\ base \in Nat
  BY LenProperties
<1>2. ASSUME NEW i \in 1..Slots, i \in base + 1 .. base + Len(part)
      PROVE  i - base \in 1..Len(part) /\ part[i - base] \in Cells
  <2>1. i - base \in 1..Len(part)
    BY <1>1, <1>2
  <2> QED
    BY <2>1, ElementOfSeq
<1>3. Programmed(f, base, part) \in [1..Slots -> Cells]
  BY <1>2, CellFacts DEF Programmed
<1> QED
  BY <1>2, <1>3 DEF Programmed, Grown

\* A part of the records of a write is the first few of them, perhaps torn at the end.
LEMMA PartFacts ==
  ASSUME NEW recs \in Seq(Records),
         NEW part \in {SubSeq(recs, 1, n) : n \in 0..Len(recs)}
                      \cup {Append(SubSeq(recs, 1, n), Torn) : n \in 0..(Len(recs) - 1)}
  PROVE  /\ part \in Seq(Cells) /\ Len(part) <= Len(recs)
         /\ \A k \in 1..Len(part) : part[k] = Torn \/ part[k] = recs[k]
<1>0. Len(recs) \in Nat /\ recs \in Seq(Cells)
  BY LenProperties, CellFacts, SeqMonotonic
<1>1. ASSUME NEW n \in 0..Len(recs)
      PROVE  /\ SubSeq(recs, 1, n) \in Seq(Cells) /\ Len(SubSeq(recs, 1, n)) = n
             /\ \A k \in 1..n : SubSeq(recs, 1, n)[k] = recs[k]
  <2>1. \A i \in 1..n : recs[i] \in Cells
    BY <1>0, ElementOfSeq
  <2> QED
    BY <1>0, <2>1, SubSeqProperties
<1>2. CASE part \in {SubSeq(recs, 1, n) : n \in 0..Len(recs)}
  BY <1>0, <1>1, <1>2
<1>3. CASE part \in {Append(SubSeq(recs, 1, n), Torn) : n \in 0..(Len(recs) - 1)}
  <2>1. PICK n \in 0..(Len(recs) - 1) : part = Append(SubSeq(recs, 1, n), Torn)
    BY <1>3
  <2>2. n \in 0..Len(recs) /\ n + 1 <= Len(recs)
    BY <1>0
  <2>3. /\ part \in Seq(Cells) /\ Len(part) = n + 1 /\ part[n + 1] = Torn
        /\ \A k \in 1..n : part[k] = recs[k]
    BY <1>1, <2>1, <2>2, CellFacts, AppendProperties
  <2> QED
    BY <2>2, <2>3
<1> QED
  BY <1>2, <1>3

\* A completed write has grown all its records; one that stopped has grown a part of
\* them, or has left flash and its cursor alone, or is half an erase.
LEMMA OutcomeFacts ==
  ASSUME FlashInv, half \in BOOLEAN, NEW wipe, NEW at, NEW recs, Fits(wipe, at, recs),
         NEW o \in Outcome(wipe, at, recs)
  PROVE  /\ o.flash \in [1..Slots -> Cells] /\ o.off \in 0..Slots /\ o.half \in BOOLEAN
         /\ \/ o.half /\ \A i \in 1..Slots : o.flash[i] \in {flash[i], Blank, Torn}
            \/ o.flash = flash /\ o.half = half /\ o.off = at
            \/ /\ o.half = (half /\ ~wipe)
               /\ \E n \in 0..Len(recs) :
                    /\ Grown(Ground(wipe), o.flash, Base(wipe, at), recs, n)
                    /\ o.off \in {Base(wipe, at), Base(wipe, at) + n}
         /\ o = Completed(wipe, at, recs) =>
              /\ Grown(Ground(wipe), o.flash, Base(wipe, at), recs, Len(recs))
              /\ o.off = Base(wipe, at) + Len(recs) /\ o.half = (half /\ ~wipe)
<1> DEFINE base == Base(wipe, at)
           ground == Ground(wipe)
           Done(part) == Completed(wipe, at, part)
           parts == {SubSeq(recs, 1, n) : n \in 0..Len(recs)}
                    \cup {Append(SubSeq(recs, 1, n), Torn) : n \in 0..(Len(recs) - 1)}
<1>0. /\ Len(recs) \in Nat /\ recs \in Seq(Records) /\ base \in 0..Slots /\ at \in 0..Slots
      /\ base + Len(recs) \in 0..Slots
      /\ ground \in [1..Slots -> Cells]
  <2>1. Erased \in [1..Slots -> Cells]
    BY CellFacts DEF Erased
  <2> QED
    BY <2>1, SizesAssumption, LenProperties DEF Fits, Base, Ground, FlashInv
<1>1. ASSUME NEW part,
             part \in Seq(Cells), Len(part) <= Len(recs),
             \A k \in 1..Len(part) : part[k] = Torn \/ part[k] = recs[k]
      PROVE  /\ Done(part) = [flash |-> Programmed(ground, base, part), off |-> base + Len(part),
                              half |-> (half /\ ~wipe)]
             /\ Grown(ground, Done(part).flash, base, recs, Len(part))
             /\ Len(part) \in 0..Len(recs)
  <2>1. Done(part) = [flash |-> Programmed(ground, base, part), off |-> base + Len(part),
                      half |-> (half /\ ~wipe)]
    BY DEF Completed, Base, Ground
  <2>2. Grown(ground, Programmed(ground, base, part), base, recs, Len(part))
    BY <1>0, <1>1, ProgrammedFacts
  <2>3. Len(part) \in Nat
    BY <1>1, LenProperties
  <2> QED
    BY <2>1, <2>2, <2>3, <1>0, <1>1
<1>2. recs \in Seq(Cells)
  BY <1>0, CellFacts, SeqMonotonic
<1>3. CASE o = Completed(wipe, at, recs)
  <2>1. /\ Grown(ground, o.flash, base, recs, Len(recs))
        /\ o.off = base + Len(recs) /\ o.half = (half /\ ~wipe)
    BY <1>0, <1>1, <1>2, <1>3
  <2>2. o.flash \in [1..Slots -> Cells] /\ o.off \in 0..Slots /\ o.half \in BOOLEAN
    BY <2>1, <1>0 DEF Grown
  <2> QED
    BY <2>1, <2>2, <1>0
<1>4. ASSUME o # Completed(wipe, at, recs),
             NEW part \in parts, o = [Completed(wipe, at, part) EXCEPT !.off = IF wipe THEN 0 ELSE at]
      PROVE  /\ o.off = base /\ o.half = (half /\ ~wipe)
             /\ \E n \in 0..Len(recs) : Grown(ground, o.flash, base, recs, n)
  <2>1. /\ part \in Seq(Cells) /\ Len(part) <= Len(recs)
        /\ \A k \in 1..Len(part) : part[k] = Torn \/ part[k] = recs[k]
    BY <1>0, PartFacts
  <2>2. o.flash = Done(part).flash /\ o.off = base /\ o.half = (half /\ ~wipe)
    BY <1>1, <1>4, <2>1 DEF Base
  <2> QED
    BY <2>1, <2>2, <1>1
<1>5. ASSUME wipe, o \in {[flash |-> f, off |-> at, half |-> TRUE] : f \in HalfErased}
      PROVE  /\ o.flash \in [1..Slots -> Cells] /\ o.off = at /\ o.half = TRUE
             /\ \A i \in 1..Slots : o.flash[i] \in {flash[i], Blank, Torn}
  <2>1. ASSUME NEW f \in HalfErased
        PROVE  f \in [1..Slots -> Cells] /\ \A i \in 1..Slots : f[i] \in {flash[i], Blank, Torn}
    <3>1. f \in [1..Slots -> Cells]
      BY CellFacts DEF HalfErased, FlashInv
    <3>2. ASSUME NEW i \in 1..Slots PROVE f[i] \in {flash[i], Blank, Torn}
      <4>1. HalfErased = {HalfErasedAs(erased, weak) : erased \in SUBSET (1..Slots), weak \in SUBSET (1..Slots)}
        BY DEF HalfErased, HalfErasedAs
      <4>2. PICK erased \in SUBSET (1..Slots), weak \in SUBSET (1..Slots) : f = HalfErasedAs(erased, weak)
        BY <4>1
      <4> QED
        BY <4>2 DEF HalfErasedAs
    <3> QED
      BY <3>1, <3>2
  <2> QED
    BY <1>5, <2>1
<1>6. ASSUME wipe, o \in {[flash |-> flash, off |-> at, half |-> half]}
      PROVE  o.flash = flash /\ o.off = at /\ o.half = half
  BY <1>6
<1>7. CASE o # Completed(wipe, at, recs)
  <2>1. \/ \E part \in parts : o = [Completed(wipe, at, part) EXCEPT !.off = IF wipe THEN 0 ELSE at]
        \/ wipe /\ o \in {[flash |-> f, off |-> at, half |-> TRUE] : f \in HalfErased}
        \/ wipe /\ o \in {[flash |-> flash, off |-> at, half |-> half]}
    BY <1>7 DEF Outcome, Interrupted, Fits
  <2> QED
    BY <2>1, <1>0, <1>4, <1>5, <1>6, <1>7 DEF Grown, FlashInv
<1> QED
  BY <1>3, <1>7

\* Records that grow at the end of the slots in use leave no gap.
LEMMA GrownPacked ==
  ASSUME NEW f \in [1..Slots -> Cells], NEW g, NEW base \in 0..Slots, NEW recs \in Seq(Records),
         NEW n \in 0..Len(recs), base + n <= Slots,
         Grown(f, g, base, recs, n), Packed(f, base)
  PROVE  Packed(g, base) /\ Packed(g, base + n)
<1>0. Len(recs) \in Nat /\ Slots \in Nat
  BY LenProperties, SizesAssumption
<1>1. ASSUME NEW i \in 1..Slots, i \in base + 1 .. base + n PROVE g[i] # Blank
  <2>1. i - base \in 1..Len(recs)
    BY <1>0, <1>1
  <2>2. recs[i - base] \in Records
    BY <2>1, ElementOfSeq
  <2> QED
    BY <1>1, <2>2, CellFacts DEF Grown
<1>2. ASSUME NEW i \in 1..Slots, i \notin base + 1 .. base + n PROVE g[i] = f[i]
  BY <1>2 DEF Grown
<1>3. ASSUME NEW i \in 1..(base + n) PROVE g[i] # Blank
  <2>1. CASE i <= base
    BY <1>0, <2>1, <1>2 DEF Packed
  <2>2. CASE i > base
    BY <1>0, <2>2, <1>1
  <2> QED
    BY <1>0, <2>1, <2>2
<1>4. ASSUME NEW i \in 1..Slots, NEW j \in 1..Slots, i < j, g[i] = Blank PROVE g[j] = Blank
  <2>1. i > base + n
    BY <1>0, <1>3, <1>4
  <2>2. f[i] = Blank /\ g[j] = f[j]
    BY <1>0, <1>2, <1>4, <2>1
  <2> QED
    BY <1>4, <2>2 DEF Packed
<1> QED
  BY <1>0, <1>3, <1>4 DEF Packed

\* A write that fits keeps flash in order, whatever becomes of it.
LEMMA WritePacked ==
  ASSUME FlashInv, half \in BOOLEAN, NEW wipe, NEW at, NEW recs, Fits(wipe, at, recs),
         ~half => Packed(flash, at), NEW o \in Outcome(wipe, at, recs), ~o.half
  PROVE  Packed(o.flash, o.off) /\ Packed(o.flash, 0)
<1>0. Slots \in Nat /\ at \in 0..Slots /\ Len(recs) \in Nat /\ recs \in Seq(Records)
  BY LenProperties, SizesAssumption DEF Fits
<1>1. ASSUME NEW f, NEW n, Packed(f, n), n \in Nat PROVE Packed(f, 0)
  BY <1>1 DEF Packed
<1>2. CASE o.flash = flash /\ o.half = half /\ o.off = at
  BY <1>0, <1>1, <1>2
<1>3. ASSUME o.half = (half /\ ~wipe), NEW n \in 0..Len(recs),
             Grown(Ground(wipe), o.flash, Base(wipe, at), recs, n),
             o.off \in {Base(wipe, at), Base(wipe, at) + n}
      PROVE  Packed(o.flash, o.off)
  <2>1. Ground(wipe) \in [1..Slots -> Cells] /\ Packed(Ground(wipe), Base(wipe, at))
    <3>1. CASE wipe
      BY <3>1, CellFacts DEF Ground, Base, Erased, Packed
    <3>2. CASE ~wipe
      BY <3>2, <1>3 DEF Ground, Base, FlashInv
    <3> QED
      BY <3>1, <3>2
  <2>2. Base(wipe, at) \in 0..Slots /\ Base(wipe, at) + n <= Slots
    BY <1>0 DEF Base, Fits
  <2>3. Packed(o.flash, Base(wipe, at)) /\ Packed(o.flash, Base(wipe, at) + n)
    BY <2>1, <2>2, <1>0, <1>3, GrownPacked
  <2> QED
    BY <2>3, <1>3
<1>4. o.off \in Nat
  BY OutcomeFacts
<1>5. Packed(o.flash, o.off)
  BY <1>2, <1>3, OutcomeFacts
<1> QED
  BY <1>1, <1>4, <1>5

-----------------------------------------------------------------------------
(* The boot *)

\* The scan stops at the first slot not in use.
LEMMA ScanFacts ==
  ASSUME FlashInv
  PROVE  /\ Scanned \in 0..Slots
         /\ \A i \in 1..Scanned : flash[i] # Blank
         /\ Scanned < Slots => flash[Scanned + 1] = Blank
         /\ ~half => Packed(flash, Scanned)
<1> DEFINE blanks == {i \in 1..Slots : flash[i] = Blank}
<1>0. Slots \in Nat
  BY SizesAssumption
<1>1. CASE blanks = {}
  <2>1. FirstBlank = Slots + 1
    BY <1>1 DEF FirstBlank
  <2> QED
    BY <1>0, <1>1, <2>1 DEF Scanned, FlashInv, Packed
<1>2. CASE blanks # {}
  <2>1. \E i \in blanks : \A j \in blanks : i <= j
    <3>1. blanks \subseteq Nat
      BY <1>0
    <3> HIDE DEF blanks
    <3> QED
      BY <3>1, <1>2, HasLeast
  <2>2. FirstBlank \in blanks /\ \A j \in blanks : FirstBlank <= j
    BY <1>2, <2>1 DEF FirstBlank
  <2>3. \A i \in 1..Scanned : flash[i] # Blank
    BY <1>0, <2>2 DEF Scanned
  <2> QED
    BY <1>0, <2>2, <2>3 DEF Scanned, FlashInv, Packed
<1> QED
  BY <1>1, <1>2

\* The new boot number is one past the highest scanned, in its range.
LEMMA NextBootFacts ==
  ASSUME FlashInv
  PROVE  /\ NextBoot \in 0..(BootMod - 1)
         /\ \E b \in Nat :
              /\ b = 0 \/ \E i \in 1..Scanned : flash[i].kind = "rec" /\ b = flash[i].boot
              /\ \A i \in 1..Scanned : flash[i].kind = "rec" => flash[i].boot <= b
              /\ NextBoot = (b + 1) % BootMod
<1> DEFINE seen == {0} \cup {flash[i].boot : i \in {j \in 1..Scanned : flash[j].kind = "rec"}}
<1>0. BootMod \in Nat \ {0} /\ Slots \in Nat /\ Scanned \in 0..Slots
  BY SizesAssumption, ScanFacts
<1>1. seen \subseteq 0..(BootMod - 1)
  <2>1. ASSUME NEW i \in 1..Scanned PROVE flash[i].boot \in 0..(BootMod - 1)
    <3>1. flash[i] \in Cells
      BY <1>0 DEF FlashInv
    <3> QED
      BY <3>1, CellFacts
  <2> QED
    BY <1>0, <2>1
<1>2. \E b \in seen : \A c \in seen : c <= b
  <2>1. seen \subseteq Nat /\ seen # {} /\ BootMod \in Nat /\ \A x \in seen : x <= BootMod
    BY <1>0, <1>1
  <2> HIDE DEF seen
  <2> QED
    BY <2>1, HasGreatest
<1> DEFINE b == CHOOSE x \in seen : \A c \in seen : c <= x
<1>3. b \in seen /\ \A c \in seen : c <= b
  BY <1>2
<1>4. NextBoot = (b + 1) % BootMod
  BY DEF NextBoot
<1>5. b \in Nat
  <2> HIDE DEF b, seen
  <2>1. b \in 0..(BootMod - 1)
    BY <1>1, <1>3
  <2> QED
    BY <1>0, <2>1
<1> HIDE DEF b
<1>6. (b + 1) % BootMod \in 0..(BootMod - 1)
  BY <1>0, <1>5
<1> QED
  BY <1>3, <1>4, <1>5, <1>6

-----------------------------------------------------------------------------
(* The steps that write flash *)

\* Every write of the program fits where it is made.
LEMMA FitFacts ==
  ASSUME TypeOK, BatchInv, FlashInv
  PROVE  /\ led = "copied" => Fits(Full(off, batch), off, batch)
         /\ Fits(TRUE, off, <<Rec(0, boot)>>)
         /\ Fits(Full(Scanned, BootRecord), Scanned, BootRecord)
<1>0. Slots \in Nat \ {0} /\ BatchN \in Nat /\ BatchN <= Slots /\ Len(batch) \in Nat
  BY SizesAssumption, LenProperties DEF BatchInv
<1>1. ASSUME led = "copied" PROVE Fits(Full(off, batch), off, batch)
  BY <1>0 DEF TypeOK, BatchInv, Fits, Full
<1>2. Rec(0, boot) \in Records /\ Rec(0, NextBoot) \in Records
  BY SizesAssumption, NextBootFacts, CellFacts DEF TypeOK
<1>3. /\ <<Rec(0, boot)>> \in Seq(Records) /\ Len(<<Rec(0, boot)>>) = 1
      /\ BootRecord \in Seq(Records) /\ Len(BootRecord) = 1
  BY <1>2 DEF BootRecord
<1>4. Fits(TRUE, off, <<Rec(0, boot)>>)
  BY <1>0, <1>3 DEF Fits, TypeOK
<1>5. Fits(Full(Scanned, BootRecord), Scanned, BootRecord)
  BY <1>0, <1>3, ScanFacts DEF Fits, Full
<1> QED
  BY <1>1, <1>4, <1>5

\* A write is completed without an error, or fails and is counted.
LEMMA FlashWriteFacts ==
  ASSUME NEW wipe, NEW at, NEW recs, FlashWrite(wipe, at, recs), fails \in Nat
  PROVE  \E o \in Outcome(wipe, at, recs) :
           /\ flash' = o.flash /\ off' = o.off /\ half' = o.half
           /\ \/ fails' = fails /\ o = Completed(wipe, at, recs)
              \/ fails < MaxFails /\ fails' = fails + 1
<1>1. PICK ok \in BOOLEAN :
        /\ ok \/ fails < MaxFails
        /\ fails' = IF ok THEN fails ELSE fails + 1
        /\ \E o \in IF ok THEN {Completed(wipe, at, recs)} ELSE Interrupted(wipe, at, recs) :
             flash' = o.flash /\ off' = o.off /\ half' = o.half
  BY DEF FlashWrite
<1>2. CASE ok
  BY <1>1, <1>2 DEF Outcome
<1>3. CASE ~ok
  BY <1>1, <1>3 DEF Outcome
<1> QED
  BY <1>2, <1>3

\* A step leaves flash as it is, or makes one of the program's writes, or is cut
\* short in one.
LEMMA FlashSteps ==
  ASSUME IInv, Next
  PROVE  \/ UNCHANGED <<flash, half>> /\ off' \in {off, 0}
         \/ \E wipe, at, recs :
              /\ Fits(wipe, at, recs) /\ (~half => Packed(flash, at))
              /\ \E o \in Outcome(wipe, at, recs) :
                   flash' = o.flash /\ half' = o.half /\ off' \in {o.off, 0}
<1> DEFINE Written(wipe, at, recs) ==
             /\ Fits(wipe, at, recs) /\ (~half => Packed(flash, at))
             /\ \E o \in Outcome(wipe, at, recs) :
                  flash' = o.flash /\ half' = o.half /\ off' \in {o.off, 0}
           Same == UNCHANGED <<flash, half>> /\ off' \in {off, 0}
<1> HIDE DEF Written
<1>0. fails \in Nat /\ (~half => Packed(flash, off)) /\ (~half => Packed(flash, Scanned))
  BY ScanFacts DEF IInv, TypeOK, FlashInv
<1>1. CASE Control
  BY <1>1 DEF Control, RaiseEdge, CommitHead, PublishStatus, flashVars, boundVars
<1>2. CASE DrainAppend
  <2>1. FlashWrite(Full(off, batch), off, batch) /\ led = "copied"
    BY <1>2 DEF DrainAppend
  <2>2. Written(Full(off, batch), off, batch)
    BY <1>0, <2>1, FlashWriteFacts, FitFacts DEF IInv, Written
  <2> QED
    BY <2>2 DEF Written
<1>3. CASE Drain /\ ~DrainAppend
  BY <1>3 DEF Drain, MaintainCheck, DrainCopy, DrainStore, flashVars, boundVars
<1>4. ASSUME NEW busy \in BOOLEAN, ClearCheck(busy) PROVE Same
  BY <1>4 DEF ClearCheck, flashVars, boundVars
<1>5. CASE Clear
  <2>1. FlashWrite(TRUE, off, <<Rec(0, boot)>>)
    BY <1>5 DEF Clear
  <2>2. Written(TRUE, off, <<Rec(0, boot)>>)
    BY <1>0, <2>1, FlashWriteFacts, FitFacts DEF IInv, Written
  <2> QED
    BY <2>2 DEF Written
<1>6. CASE PowerCut
  <2>1. CASE UNCHANGED <<flash, half>>
    BY <1>6, <2>1 DEF PowerCut
  <2>2. ASSUME NEW o \in UnderWay, flash' = o.flash, half' = o.half
        PROVE  \E wipe, at, recs : Written(wipe, at, recs)
    <3>1. CASE led = "copied" /\ o \in Interrupted(Full(off, batch), off, batch)
      <4>1. Written(Full(off, batch), off, batch)
        BY <1>0, <1>6, <2>2, <3>1, FitFacts DEF IInv, Written, Outcome, PowerCut
      <4> QED
        BY <4>1
    <3>2. CASE o \in Interrupted(TRUE, off, <<Rec(0, boot)>>)
      <4>1. Written(TRUE, off, <<Rec(0, boot)>>)
        BY <1>0, <1>6, <2>2, <3>2, FitFacts DEF IInv, Written, Outcome, PowerCut
      <4> QED
        BY <4>1
    <3> QED
      BY <2>2, <3>1, <3>2 DEF UnderWay
  <2> QED
    BY <1>6, <2>1, <2>2 DEF PowerCut, Written
<1>7. CASE Boot
  <2>1. FlashWrite(Full(Scanned, BootRecord), Scanned, BootRecord)
    BY <1>7 DEF Boot
  <2>2. Written(Full(Scanned, BootRecord), Scanned, BootRecord)
    BY <1>0, <2>1, FlashWriteFacts, FitFacts DEF IInv, Written
  <2> QED
    BY <2>2 DEF Written
<1>8. CASE BootCut
  <2>1. Written(Full(Scanned, BootRecord), Scanned, BootRecord)
    BY <1>0, <1>8, FitFacts DEF IInv, Written, Outcome, BootCut, OffInv
  <2> QED
    BY <2>1 DEF Written
<1> QED
  BY <1>1, <1>2, <1>3, <1>4, <1>5, <1>6, <1>7, <1>8 DEF Next, Written

\* Flash keeps its shape.
LEMMA FlashNext ==
  ASSUME IInv, Next
  PROVE  FlashInv' /\ half' \in BOOLEAN /\ off' \in 0..Slots
<1>0. half \in BOOLEAN /\ off \in 0..Slots /\ FlashInv /\ Slots \in Nat
  BY SizesAssumption DEF IInv, TypeOK
<1>1. CASE UNCHANGED <<flash, half>> /\ off' \in {off, 0}
  <2>1. ~half => Packed(flash, off')
    BY <1>0, <1>1 DEF FlashInv, Packed
  <2>2. Packed(flash, off') => Packed(flash', off')
    BY <1>1 DEF Packed
  <2> QED
    BY <1>0, <1>1, <2>1, <2>2 DEF FlashInv
<1>2. ASSUME NEW wipe, NEW at, NEW recs, Fits(wipe, at, recs), ~half => Packed(flash, at),
             NEW o \in Outcome(wipe, at, recs),
             flash' = o.flash, half' = o.half, off' \in {o.off, 0}
      PROVE  FlashInv' /\ half' \in BOOLEAN /\ off' \in 0..Slots
  <2>1. o.flash \in [1..Slots -> Cells] /\ o.off \in 0..Slots /\ o.half \in BOOLEAN
    BY <1>0, <1>2, OutcomeFacts
  <2>2. ~o.half => Packed(o.flash, o.off) /\ Packed(o.flash, 0)
    BY <1>0, <1>2, WritePacked
  <2>3. ~half' => Packed(flash', off')
    BY <1>2, <2>2
  <2> QED
    BY <1>0, <1>2, <2>1, <2>3 DEF FlashInv
<1> QED
  BY <1>1, <1>2, FlashSteps

-----------------------------------------------------------------------------
(* The invariant *)

LEMMA InvInit == Init => IInv
<1> SUFFICES ASSUME Init PROVE IInv
  OBVIOUS
<1>0. /\ Slots \in Nat \ {0} /\ RingN \in Nat \ {0} /\ BatchN \in Nat /\ BootMod \in Nat \ {0}
      /\ MaxEvents \in Nat /\ MaxCrashes \in Nat /\ MaxFails \in Nat
  BY SizesAssumption
<1>1. batch = <<>> /\ <<>> \in Seq(Records) /\ Len(<<>>) = 0
  BY EmptySeq DEF Init
<1>2. TypeOK
  <2>1. {up, kart, arming, half} \subseteq BOOLEAN
    BY DEF Init
  <2>2. ring \in [0..(RingN - 1) -> 0..MaxEvents]
    BY <1>0 DEF Init
  <2> QED
    BY <1>0, <1>1, <2>1, <2>2 DEF Init, TypeOK
<1>3. FlashInv
  BY <1>0, CellFacts DEF Init, FlashInv, Packed, Erased
<1> QED
  BY <1>0, <1>1, <1>2, <1>3
     DEF Init, IInv, RingInv, Pushed, BatchInv, OffInv, AppendPointBlank, WrittenInv

\* The drain copies what is there, up to a batch.
LEMMA CopyFacts ==
  ASSUME TypeOK
  PROVE  /\ Least(head - tail, BatchN) \in 0..(head - tail)
         /\ Least(head - tail, BatchN) <= BatchN
         /\ Least(head - tail, BatchN) # 0 => head # tail
  BY SizesAssumption DEF TypeOK, Least

LEMMA TypeNext == IInv /\ Next => TypeOK'
<1> SUFFICES ASSUME IInv, Next PROVE TypeOK'
  OBVIOUS
<1>0. /\ Slots \in Nat \ {0} /\ RingN \in Nat \ {0} /\ BatchN \in Nat \ {0} /\ BootMod \in Nat \ {0}
      /\ MaxEvents \in Nat /\ MaxCrashes \in Nat /\ MaxFails \in Nat
  BY SizesAssumption
<1>1. half' \in BOOLEAN /\ off' \in 0..Slots
  BY FlashNext
<1> DEFINE Ram   == /\ ring \in [0..(RingN - 1) -> 0..MaxEvents]
                    /\ tail \in 0..head /\ head \in 0..MaxEvents /\ upto \in 0..head
                    /\ head - tail <= RingN
                    /\ Len(batch) <= BatchN
           Tasks == /\ {up, kart, arming} \subseteq BOOLEAN
                    /\ ctl \in {"idle", "filled", "publish"}
                    /\ web \in {"idle", "due"}
                    /\ led \in {"idle", "due"} \cup Locked
           Count == /\ boot \in 0..(BootMod - 1) /\ raised \in 0..MaxEvents
                    /\ crashes \in 0..MaxCrashes /\ fails \in 0..MaxFails
<1>2. Ram /\ Tasks /\ Count /\ half \in BOOLEAN
  BY DEF IInv, TypeOK
<1>3. Ram' /\ Tasks' /\ Count' => TypeOK'
  BY <1>1 DEF TypeOK
<1>4. CASE RaiseEdge
  <2>1. raised < MaxEvents /\ (raised' = raised \/ raised' = raised + 1)
    BY <1>4 DEF RaiseEdge
  <2>2. ring' \in [0..(RingN - 1) -> 0..MaxEvents]
    <3>1. raised + 1 \in 0..MaxEvents
      BY <1>0, <1>2, <2>1
    <3> QED
      BY <1>2, <1>4, <3>1 DEF RaiseEdge
  <2> QED
    BY <1>0, <1>2, <1>3, <1>4, <2>1, <2>2 DEF RaiseEdge, drainVars, flashVars
<1>5. CASE CommitHead
  <2>1. head' = head + 1 /\ head + 1 \in 0..MaxEvents /\ head + 1 - tail <= RingN
    BY <1>0, <1>2, <1>5 DEF CommitHead, IInv, RingInv, Pushed
  <2> QED
    BY <1>0, <1>2, <1>3, <1>5, <2>1 DEF CommitHead, drainVars, flashVars, boundVars
<1>6. CASE PublishStatus
  BY <1>2, <1>3, <1>6 DEF PublishStatus, ramVars, drainVars, flashVars, boundVars
<1>7. ASSUME NEW busy \in BOOLEAN, MaintainCheck(busy) PROVE TypeOK'
  BY <1>2, <1>3, <1>7 DEF MaintainCheck, taskVars, ramVars, flashVars, boundVars
<1>8. CASE DrainCopy
  <2> DEFINE n == Least(head - tail, BatchN)
  <2>1. n \in 0..(head - tail) /\ n <= BatchN
    BY CopyFacts DEF IInv
  <2>2. upto' = tail + n /\ led' \in {"idle", "copied"}
    BY <1>8 DEF DrainCopy
  <2>3. Len(batch') = n
    BY <1>8, <2>1 DEF DrainCopy
  <2> HIDE DEF n
  <2>4. upto' \in 0..head
    BY <1>0, <1>2, <2>1, <2>2
  <2>5. UNCHANGED <<up, web, kart, arming, ctl, ring, head, tail, boot, raised, crashes, fails>>
    BY <1>8 DEF DrainCopy, taskVars, ramVars, flashVars, boundVars
  <2> QED
    BY <1>2, <1>3, <2>1, <2>2, <2>3, <2>4, <2>5 DEF Locked
<1>9. CASE DrainAppend
  <2>1. fails' \in 0..MaxFails
    BY <1>0, <1>2, <1>9, FlashWriteFacts DEF DrainAppend
  <2> QED
    BY <1>2, <1>3, <1>9, <2>1 DEF DrainAppend, taskVars, ramVars, Locked
<1>10. CASE DrainStore
  <2>1. upto \in (tail + 1)..head /\ Len(<<>>) = 0
    BY <1>10 DEF DrainStore, IInv, BatchInv
  <2>2. Ram'
    BY <1>0, <1>2, <1>10, <2>1 DEF DrainStore
  <2> QED
    BY <1>2, <1>3, <1>10, <2>2 DEF DrainStore, taskVars, flashVars, boundVars, Locked
<1>11. ASSUME NEW busy \in BOOLEAN, ClearCheck(busy) PROVE TypeOK'
  BY <1>2, <1>3, <1>11 DEF ClearCheck, taskVars, ramVars, drainVars, flashVars, boundVars
<1>12. CASE Clear
  <2>1. fails' \in 0..MaxFails
    <3>1. FlashWrite(TRUE, off, <<Rec(0, boot)>>)
      BY <1>12 DEF Clear
    <3>2. fails \in Nat
      BY <1>2
    <3>3. fails' = fails \/ (fails < MaxFails /\ fails' = fails + 1)
      BY <3>1, <3>2, FlashWriteFacts
    <3> QED
      BY <1>0, <1>2, <3>3
  <2> QED
    BY <1>2, <1>3, <1>12, <2>1 DEF Clear, taskVars, ramVars, drainVars
<1>13. CASE PowerCut
  <2>1. ring' \in [0..(RingN - 1) -> 0..MaxEvents] /\ Len(<<>>) = 0
    BY <1>0, <1>13 DEF PowerCut
  <2>2. Ram'
    BY <1>0, <1>13, <2>1 DEF PowerCut
  <2>3. Tasks'
    BY <1>13 DEF PowerCut
  <2>4. Count'
    BY <1>0, <1>2, <1>13 DEF PowerCut
  <2> QED
    BY <1>3, <2>2, <2>3, <2>4
<1>14. CASE Boot
  <2>1. fails' \in 0..MaxFails
    BY <1>0, <1>2, <1>14, FlashWriteFacts DEF Boot
  <2>2. boot' \in 0..(BootMod - 1) /\ up' \in BOOLEAN
    BY <1>14, NextBootFacts DEF Boot, IInv
  <2> QED
    BY <1>2, <1>3, <1>14, <2>1, <2>2 DEF Boot, taskVars, ramVars, drainVars
<1>15. CASE BootCut
  BY <1>0, <1>2, <1>3, <1>15 DEF BootCut, taskVars, ramVars, drainVars
<1> QED
  BY <1>4, <1>5, <1>6, <1>7, <1>8, <1>9, <1>10, <1>11, <1>12, <1>13, <1>14, <1>15
     DEF Next, Control, Drain

\* The events of the ring stay numbered: the slot that push fills is none of theirs.
LEMMA RingNext == IInv /\ Next => RingInv'
<1> SUFFICES ASSUME IInv, Next PROVE RingInv'
  OBVIOUS
<1>0. /\ RingN \in Nat \ {0} /\ MaxEvents \in Nat
      /\ head \in Nat /\ tail \in 0..head /\ raised \in Nat /\ RingInv
      /\ ring \in [0..(RingN - 1) -> 0..MaxEvents] /\ head - tail <= RingN
  BY SizesAssumption DEF IInv, TypeOK
<1>1. CASE RaiseEdge
  <2>1. CASE RingFull
    BY <1>0, <1>1, <2>1 DEF RaiseEdge, RingInv, Pushed
  <2>2. CASE ~RingFull
    <3>1. /\ ctl = "idle" /\ ctl' = "filled" /\ raised' = raised + 1 /\ head' = head /\ tail' = tail
          /\ ring' = [ring EXCEPT ![head % RingN] = raised + 1]
      BY <1>1, <2>2 DEF RaiseEdge
    <3>2. head % RingN \in 0..(RingN - 1) /\ \A n \in Nat : n % RingN \in 0..(RingN - 1)
      BY <1>0
    <3>3. head + 1 - tail <= RingN
      BY <1>0, <2>2 DEF RingFull
    <3>4. Pushed = head /\ Pushed' = head + 1
      BY <3>1 DEF Pushed
    <3>5. \A n \in tail..(head - 1) : ring[n % RingN] = raised - head + n + 1
      BY <1>0, <3>4 DEF RingInv
    <3>6. ASSUME NEW n \in tail..head PROVE ring'[n % RingN] = raised + 1 - (head + 1) + n + 1
      <4>1. CASE n = head
        BY <1>0, <3>1, <3>2, <4>1
      <4>2. CASE n # head
        <5>1. n \in Nat /\ n < head /\ head - n < RingN
          BY <1>0, <3>3, <4>2
        <5>2. n % RingN # head % RingN
          BY <1>0, <5>1, ModDistinct
        <5>3. ring'[n % RingN] = ring[n % RingN]
          BY <1>0, <3>1, <3>2, <5>1, <5>2
        <5>4. ring[n % RingN] = raised - head + n + 1
          <6>1. n \in tail..(head - 1)
            BY <1>0, <5>1
          <6> QED
            BY <3>5, <6>1
        <5> QED
          BY <1>0, <5>1, <5>3, <5>4
      <4> QED
        BY <4>1, <4>2
    <3> QED
      BY <1>0, <3>1, <3>3, <3>4, <3>6 DEF RingInv
  <2> QED
    BY <2>1, <2>2
<1>2. CASE CommitHead
  BY <1>0, <1>2 DEF CommitHead, RingInv, Pushed, boundVars
<1>3. CASE DrainStore
  <2>1. upto \in (tail + 1)..head
    BY <1>3 DEF DrainStore, IInv, BatchInv
  <2>2. Pushed' = Pushed /\ raised' = raised /\ ring' = ring /\ tail' = upto /\ Pushed \in Nat
    BY <1>0, <1>3 DEF DrainStore, Pushed, taskVars, boundVars
  <2>3. /\ Pushed - upto <= RingN
        /\ \A n \in upto..(Pushed - 1) : n \in tail..(Pushed - 1)
    BY <1>0, <2>1, <2>2 DEF RingInv
  <2> QED
    BY <1>0, <2>2, <2>3 DEF RingInv
<1>4. CASE PowerCut
  BY <1>0, <1>4 DEF PowerCut, RingInv, Pushed
<1>5. CASE UNCHANGED <<ramVars, raised>> /\ Pushed' = Pushed
  BY <1>0, <1>5 DEF RingInv, ramVars
<1>6. CASE Next /\ ~RaiseEdge /\ ~CommitHead /\ ~DrainStore /\ ~PowerCut
  <2>1. UNCHANGED <<ramVars, raised>> /\ (UNCHANGED ctl \/ PublishStatus)
    BY <1>6 DEF Next, Control, Drain, PublishStatus, MaintainCheck, DrainCopy, DrainAppend,
                ClearCheck, Clear, Boot, BootCut, taskVars, boundVars
  <2>2. Pushed' = Pushed
    BY <2>1 DEF Pushed, PublishStatus, ramVars
  <2> QED
    BY <1>5, <2>1, <2>2
<1> QED
  BY <1>1, <1>2, <1>3, <1>4, <1>6

\* A batch is copied in the order of the events and not touched before its tail is stored.
LEMMA BatchNext == IInv /\ Next => BatchInv'
<1> SUFFICES ASSUME IInv, Next PROVE BatchInv'
  OBVIOUS
<1>0. /\ RingN \in Nat \ {0} /\ BatchN \in Nat \ {0} /\ BatchInv /\ RingInv
      /\ head \in Nat /\ tail \in 0..head /\ raised \in Nat
      /\ ring \in [0..(RingN - 1) -> 0..MaxEvents] /\ boot \in 0..(BootMod - 1)
  BY SizesAssumption DEF IInv, TypeOK
<1>1. CASE DrainCopy
  <2> DEFINE n == Least(head - tail, BatchN)
  <2>1. n \in 0..(head - tail) /\ n <= BatchN
    BY CopyFacts DEF IInv
  <2>2. /\ batch' = [i \in 1..n |-> Rec(ring[(tail + i - 1) % RingN], boot)]
        /\ upto' = tail + n /\ led' = (IF n = 0 THEN "idle" ELSE "copied")
        /\ UNCHANGED <<tail, head, raised, ctl, boot>>
    BY <1>1 DEF DrainCopy, taskVars, ramVars, boundVars
  <2> HIDE DEF n
  <2>3. ASSUME NEW i \in 1..n
        PROVE  /\ Rec(ring[(tail + i - 1) % RingN], boot) \in Records
               /\ ring[(tail + i - 1) % RingN] = raised - Pushed + tail + i
    <3>1. tail + i - 1 \in tail..(Pushed - 1) /\ tail + i - 1 \in Nat /\ Pushed \in Nat
      BY <1>0, <2>1 DEF Pushed
    <3>2. (tail + i - 1) % RingN \in 0..(RingN - 1)
      BY <1>0, <3>1
    <3>3. ring[(tail + i - 1) % RingN] \in 0..MaxEvents
      BY <1>0, <3>2
    <3>4. ring[(tail + i - 1) % RingN] = raised - Pushed + (tail + i - 1) + 1
      BY <1>0, <3>1 DEF RingInv
    <3> QED
      BY <1>0, <3>1, <3>3, <3>4, CellFacts
  <2>4. batch' \in Seq(Records) /\ Len(batch') = n
    <3>0. n \in Nat
      BY <1>0, <2>1
    <3>1. batch' \in [1..n -> Records]
      <4>1. \A i \in 1..n : Rec(ring[(tail + i - 1) % RingN], boot) \in Records
        BY <2>3
      <4> QED
        BY <2>2, <4>1, Zenon
    <3>2. batch' \in Seq(Records)
      BY <3>0, <3>1, SeqDef
    <3>3. DOMAIN batch' = 1..Len(batch') /\ Len(batch') \in Nat
      BY <3>2, LenProperties
    <3> QED
      BY <3>0, <3>1, <3>2, <3>3
  <2>5. Pushed' = Pushed
    BY <2>2 DEF Pushed
  <2>6. \A i \in 1..n : batch'[i] = Rec(raised - Pushed + tail + i, boot)
    BY <2>2, <2>3
  <2>7. led' = "copied" => upto' \in (tail + 1)..head /\ n = upto' - tail
    BY <1>0, <2>1, <2>2
  <2> QED
    BY <2>2, <2>4, <2>5, <2>6, <2>7 DEF BatchInv
<1>2. CASE DrainStore \/ PowerCut
  BY <1>2, EmptySeq DEF DrainStore, PowerCut, BatchInv
<1>3. CASE RaiseEdge \/ CommitHead
  <2>1. UNCHANGED <<led, batch, upto, tail, boot>>
    BY <1>3 DEF RaiseEdge, CommitHead, drainVars
  <2>2. raised' - Pushed' = raised - Pushed /\ head' \in {head, head + 1}
    BY <1>0, <1>3 DEF RaiseEdge, CommitHead, Pushed, boundVars
  <2>3. head' \in Nat /\ head <= head'
    BY <1>0, <2>2
  <2> QED
    BY <1>0, <2>1, <2>2, <2>3 DEF BatchInv
<1>4. CASE Next /\ ~DrainCopy /\ ~DrainStore /\ ~PowerCut /\ ~RaiseEdge /\ ~CommitHead
  <2>1. UNCHANGED <<batch, upto, tail, head, raised>> /\ (UNCHANGED ctl \/ PublishStatus)
    BY <1>4 DEF Next, Control, Drain, PublishStatus, MaintainCheck, DrainAppend,
                ClearCheck, Clear, Boot, BootCut, taskVars, ramVars, drainVars, boundVars
  <2>2. Pushed' = Pushed
    BY <2>1 DEF Pushed, PublishStatus, ramVars
  <2>3. led' \in {"copied", "written"} => led \in {"copied", "written"} /\ boot' = boot
    BY <1>4 DEF Next, Control, Drain, PublishStatus, MaintainCheck, DrainAppend, ClearCheck,
                Clear, Boot, BootCut, taskVars, ramVars, drainVars, boundVars, IInv, OffInv
  <2> QED
    BY <1>0, <2>1, <2>2, <2>3 DEF BatchInv
<1> QED
  BY <1>1, <1>2, <1>3, <1>4

LEMMA OffNext == IInv /\ Next => OffInv'
<1> SUFFICES ASSUME IInv, Next PROVE OffInv'
  OBVIOUS
<1>1. CASE PowerCut
  BY <1>1 DEF PowerCut, OffInv
<1>2. CASE Boot
  BY <1>2 DEF Boot, OffInv
<1>3. CASE BootCut
  BY <1>3 DEF BootCut, OffInv, IInv, taskVars, ramVars, drainVars
<1>4. CASE Next /\ ~PowerCut /\ ~Boot /\ ~BootCut
  <2>1. up /\ up' = up
    BY <1>4 DEF Next, Control, Drain, RaiseEdge, CommitHead, PublishStatus, MaintainCheck,
                DrainCopy, DrainAppend, DrainStore, ClearCheck, Clear
  <2> QED
    BY <2>1 DEF OffInv
<1> QED
  BY <1>1, <1>2, <1>3, <1>4

\* A write that is completed where flash is erased puts its records there, and what
\* comes after them is still erased.
LEMMA CompletedFacts ==
  ASSUME FlashInv, half \in BOOLEAN, NEW wipe, NEW at, NEW recs, Fits(wipe, at, recs),
         ~wipe => \A i \in (at + 1)..Slots : flash[i] = Blank
  PROVE  LET o == Completed(wipe, at, recs)
         IN  /\ \A i \in (o.off + 1)..Slots : o.flash[i] = Blank
             /\ \A k \in 1..Len(recs) :
                  Base(wipe, at) + k \in 1..o.off /\ o.flash[Base(wipe, at) + k] = recs[k]
             /\ \A i \in 1..Base(wipe, at) : o.flash[i] = flash[i]
             /\ o.off = Base(wipe, at) + Len(recs)
<1> DEFINE o == Completed(wipe, at, recs)
           base == Base(wipe, at)
<1>0. /\ Slots \in Nat /\ Len(recs) \in Nat /\ base \in 0..Slots /\ base + Len(recs) <= Slots
      /\ recs \in Seq(Records)
  BY SizesAssumption, LenProperties DEF Fits, Base
<1>1. o.flash = Programmed(Ground(wipe), base, recs) /\ o.off = base + Len(recs)
  BY DEF Completed, Base, Ground
<1>2. \A i \in (base + 1)..Slots : Ground(wipe)[i] = Blank
  BY <1>0 DEF Ground, Base, Erased
<1>3. ASSUME NEW i \in 1..Slots
      PROVE  o.flash[i] = IF i \in base + 1 .. base + Len(recs)
                          THEN IF Ground(wipe)[i] = Blank THEN recs[i - base] ELSE Torn
                          ELSE Ground(wipe)[i]
  BY <1>1 DEF Programmed
<1> HIDE DEF o, base
<1>4. \A i \in (o.off + 1)..Slots : o.flash[i] = Blank
  BY <1>0, <1>1, <1>2, <1>3
<1>5. ASSUME NEW k \in 1..Len(recs) PROVE base + k \in 1..o.off /\ o.flash[base + k] = recs[k]
  <2>1. base + k \in base + 1 .. base + Len(recs) /\ base + k \in 1..Slots /\ (base + k) - base = k
    BY <1>0
  <2> QED
    BY <1>0, <1>1, <1>2, <1>3, <2>1
<1>6. ASSUME NEW i \in 1..base PROVE o.flash[i] = flash[i]
  <2>1. i \in 1..Slots /\ i \notin base + 1 .. base + Len(recs) /\ ~wipe
    BY <1>0 DEF base, Base
  <2> QED
    BY <1>3, <2>1 DEF Ground
<1> QED
  BY <1>1, <1>4, <1>5, <1>6 DEF o, base

\* Which steps can write without an error, and where.
LEMMA Completes ==
  ASSUME IInv, Next, fails' = 0, up'
  PROVE  /\ fails = 0
         /\ \/ /\ UNCHANGED <<flash, off, half>> /\ up
               /\ led' = "written" => led = "written"
            \/ \E wipe, at, recs :
                 /\ Fits(wipe, at, recs)
                 /\ flash' = Completed(wipe, at, recs).flash
                 /\ off' = Completed(wipe, at, recs).off
                 /\ half' = Completed(wipe, at, recs).half
                 /\ ~wipe /\ ~half => \A i \in (at + 1)..Slots : flash[i] = Blank
                 /\ led' = "written" => led = "copied" /\ recs = batch
                 /\ up => \/ ~wipe /\ at = off
                          \/ wipe /\ (Len(recs) = 1 \/ (Full(off, recs) /\ Len(recs) <= BatchN))
<1>0. fails \in Nat /\ TypeOK /\ BatchInv /\ FlashInv /\ Slots \in Nat
  BY SizesAssumption DEF IInv, TypeOK
<1>1. ASSUME NEW wipe, NEW at, NEW recs, FlashWrite(wipe, at, recs)
      PROVE  /\ flash' = Completed(wipe, at, recs).flash
             /\ off' = Completed(wipe, at, recs).off
             /\ half' = Completed(wipe, at, recs).half
             /\ fails' = fails
  <2>1. PICK o \in Outcome(wipe, at, recs) :
           /\ flash' = o.flash /\ off' = o.off /\ half' = o.half
           /\ \/ fails' = fails /\ o = Completed(wipe, at, recs)
              \/ fails < MaxFails /\ fails' = fails + 1
    BY <1>0, <1>1, FlashWriteFacts
  <2> QED
    BY <1>0, <2>1
<1>2. CASE DrainAppend
  <2>1. led = "copied" /\ up /\ FlashWrite(Full(off, batch), off, batch)
    BY <1>2 DEF DrainAppend
  <2>2. Fits(Full(off, batch), off, batch)
    BY <1>0, <2>1, FitFacts
  <2>3. Len(batch) <= BatchN /\ Full(off, batch) \in BOOLEAN
    BY <1>0 DEF TypeOK, Full
  <2>4. fails = 0 /\ (~half => \A i \in (off + 1)..Slots : flash[i] = Blank)
    BY <2>1, <1>1 DEF IInv, AppendPointBlank
  <2> QED
    BY <2>1, <2>2, <2>3, <2>4, <1>1
<1>3. CASE Clear
  <2>1. led \notin Locked /\ led' = led /\ FlashWrite(TRUE, off, <<Rec(0, boot)>>)
    BY <1>3 DEF Clear, drainVars
  <2>2. Fits(TRUE, off, <<Rec(0, boot)>>) /\ led' # "written" /\ Len(<<Rec(0, boot)>>) = 1
    BY <1>0, <2>1, FitFacts DEF Locked
  <2> QED
    BY <2>1, <2>2, <1>1
<1>4. CASE Boot
  <2>1. FlashWrite(Full(Scanned, BootRecord), Scanned, BootRecord) /\ led' = "idle" /\ ~up
    BY <1>4 DEF Boot, IInv, OffInv, drainVars
  <2>2. Fits(Full(Scanned, BootRecord), Scanned, BootRecord)
    BY <1>0, FitFacts
  <2>3. ~half => \A i \in (Scanned + 1)..Slots : flash[i] = Blank
    <3>1. Scanned \in 0..Slots
      BY <1>0, ScanFacts
    <3>2. Scanned < Slots => flash[Scanned + 1] = Blank
      BY <1>0, ScanFacts
    <3>3. ~half => \A i, j \in 1..Slots : i < j /\ flash[i] = Blank => flash[j] = Blank
      BY <1>0 DEF FlashInv, Packed
    <3> HIDE DEF Scanned
    <3>4. ASSUME ~half, NEW i \in (Scanned + 1)..Slots PROVE flash[i] = Blank
      <4>1. Scanned + 1 \in 1..Slots /\ i \in 1..Slots /\ flash[Scanned + 1] = Blank
        BY <1>0, <3>1, <3>2
      <4>2. i = Scanned + 1 \/ Scanned + 1 < i
        BY <1>0, <3>1
      <4> QED
        BY <3>3, <3>4, <4>1, <4>2
    <3> QED
      BY <3>4
  <2> QED
    BY <2>1, <2>2, <2>3, <1>1
<1>5. CASE Next /\ ~DrainAppend /\ ~Clear /\ ~Boot
  BY <1>5 DEF Next, Control, Drain, RaiseEdge, CommitHead, PublishStatus, MaintainCheck, DrainCopy,
              DrainStore, ClearCheck, PowerCut, BootCut, flashVars, boundVars, drainVars, IInv, OffInv
<1> QED
  BY <1>2, <1>3, <1>4, <1>5


LEMMA PointNext == IInv /\ Next => AppendPointBlank' /\ WrittenInv'
<1> SUFFICES ASSUME IInv, Next PROVE AppendPointBlank' /\ WrittenInv'
  OBVIOUS
<1>0. half \in BOOLEAN /\ FlashInv
  BY DEF IInv, TypeOK
<1>1. ASSUME NEW wipe, NEW at, NEW recs, Fits(wipe, at, recs), ~half',
             flash' = Completed(wipe, at, recs).flash, off' = Completed(wipe, at, recs).off,
             half' = Completed(wipe, at, recs).half,
             ~wipe /\ ~half => \A i \in (at + 1)..Slots : flash[i] = Blank
      PROVE  /\ \A i \in (off' + 1)..Slots : flash'[i] = Blank
             /\ \A k \in 1..Len(recs) : \E i \in 1..off' : flash'[i] = recs[k]
  <2>1. half' = (half /\ ~wipe)
    BY <1>1 DEF Completed
  <2>2. ~wipe => \A i \in (at + 1)..Slots : flash[i] = Blank
    BY <1>1, <2>1
  <2> QED
    BY <1>0, <1>1, <2>2, CompletedFacts
<1>2. AppendPointBlank'
  <2> SUFFICES ASSUME up', ~half', fails' = 0 PROVE \A i \in (off' + 1)..Slots : flash'[i] = Blank
    BY DEF AppendPointBlank
  <2>1. CASE UNCHANGED <<flash, off, half>> /\ up /\ fails = 0
    BY <2>1 DEF IInv, AppendPointBlank
  <2> QED
    BY <1>1, <2>1, Completes
<1>3. WrittenInv'
  <2> SUFFICES ASSUME led' = "written", fails' = 0, ~half'
               PROVE  \A n \in 1..Len(batch') : \E i \in 1..off' : flash'[i] = batch'[n]
    BY DEF WrittenInv
  <2>1. up'
    BY OffNext DEF OffInv
  <2>2. batch' = batch
    BY DEF Next, Control, Drain, RaiseEdge, CommitHead, PublishStatus, MaintainCheck, DrainCopy,
           DrainAppend, DrainStore, ClearCheck, Clear, PowerCut, Boot, BootCut, drainVars
  <2>3. CASE UNCHANGED <<flash, off, half>> /\ fails = 0 /\ led = "written"
    BY <2>2, <2>3 DEF IInv, WrittenInv
  <2> QED
    BY <1>1, <2>1, <2>2, <2>3, Completes
<1> QED
  BY <1>2, <1>3

LEMMA InvHolds == Spec => []IInv
<1>1. IInv /\ [Next]_vars => IInv'
  <2> SUFFICES ASSUME IInv, [Next]_vars PROVE IInv'
    OBVIOUS
  <2>1. CASE Next
    BY <2>1, TypeNext, RingNext, BatchNext, OffNext, FlashNext, PointNext DEF IInv
  <2>2. CASE UNCHANGED vars
    BY <2>2 DEF vars, taskVars, ramVars, drainVars, flashVars, boundVars, IInv, TypeOK, RingInv,
                Pushed, BatchInv, OffInv, FlashInv, Packed, AppendPointBlank, WrittenInv
  <2> QED
    BY <2>1, <2>2
<1> QED
  BY InvInit, <1>1, PTL DEF Spec

-----------------------------------------------------------------------------
(* The theorems about the ring and the cursor *)

\* Every variable stays in its set (evlog.cpp:29-41).
THEOREM TypeCorrect == Spec => []TypeOK
<1>1. IInv => TypeOK
  BY DEF IInv
<1> QED
  BY InvHolds, <1>1, PTL

\* push() never touches a slot the drain may be copying (evlog.cpp:158, 77-86).
THEOREM SlotsApart == Spec => []NoSlotRace
<1>1. IInv => NoSlotRace
  <2> SUFFICES ASSUME IInv, ctl = "filled", NEW n \in tail..(head - 1) PROVE n % RingN # head % RingN
    BY DEF NoSlotRace
  <2>1. RingN \in Nat \ {0} /\ n \in Nat /\ head \in Nat /\ n < head /\ head - n < RingN
    BY SizesAssumption DEF IInv, TypeOK, RingInv, Pushed
  <2> QED
    BY <2>1, ModDistinct
<1> QED
  BY InvHolds, <1>1, PTL

\* Without an error and but for an erase cut short, records are only ever written
\* over erased flash (evlog.cpp:130-140).
THEOREM AppendsBlank == Spec => []AppendPointBlank
<1>1. IInv => AppendPointBlank
  BY DEF IInv
<1> QED
  BY InvHolds, <1>1, PTL

\* The cursors are numbers, in their order.
LEMMA CursorFacts ==
  IInv => /\ head \in Int /\ tail \in Int /\ raised \in Int /\ Pushed \in Int /\ upto \in Int
          /\ 0 <= tail /\ tail <= head /\ head <= Pushed /\ Pushed <= raised
          /\ upto <= head
  BY SizesAssumption DEF IInv, TypeOK, RingInv, Pushed

\* The events pending after a step are those before it, without the batch whose tail
\* it stores.
LEMMA PendingKept ==
  ASSUME IInv, Next, IInv', up, up', NEW n \in tail..(head - 1)
  PROVE  \/ n \in tail'..(head' - 1) /\ ring'[n % RingN] = ring[n % RingN]
         \/ led = "written" /\ UNCHANGED <<flash, off>> /\ n - tail + 1 \in 1..Len(batch)
            /\ ring[n % RingN] = batch[n - tail + 1].id /\ ring[n % RingN] > 0
<1> DEFINE p == Pushed
           q == Pushed'
<1>1. /\ head \in Int /\ tail \in Int /\ raised \in Int /\ p \in Int /\ upto \in Int /\ n \in Int
      /\ 0 <= tail /\ tail <= n /\ n < head /\ head <= p /\ p <= raised
  BY CursorFacts
<1>2. head' \in Int /\ tail' \in Int /\ q \in Int /\ head' <= q
  <2>1. (IInv => head \in Int /\ tail \in Int /\ Pushed \in Int /\ head <= Pushed)'
    BY CursorFacts, PTL
  <2> QED
    BY <2>1
<1>3. \A i \in tail'..(q - 1) : ring'[i % RingN] = raised' - q + i + 1
  BY DEF IInv, RingInv
<1>4. ring[n % RingN] = raised - p + n + 1
  <2>1. n \in tail..(p - 1)
    BY <1>1
  <2> QED
    BY <2>1 DEF IInv, RingInv
<1>5. raised' - q = raised - p /\ head <= head'
  <2>1. CASE RaiseEdge
    BY <1>1, <2>1 DEF RaiseEdge, Pushed
  <2>2. CASE CommitHead
    BY <1>1, <2>2 DEF CommitHead, Pushed, boundVars
  <2>3. CASE ~RaiseEdge /\ ~CommitHead
    <3>1. UNCHANGED <<head, raised>> /\ (UNCHANGED ctl \/ (ctl # "filled" /\ ctl' # "filled"))
      BY <2>3 DEF Next, Control, Drain, PublishStatus, MaintainCheck, DrainCopy, DrainAppend,
                  DrainStore, ClearCheck, Clear, PowerCut, Boot, BootCut,
                  taskVars, ramVars, boundVars
    <3>2. q = p
      BY <3>1 DEF Pushed
    <3> QED
      BY <1>1, <3>1, <3>2
  <2> QED
    BY <2>1, <2>2, <2>3
<1>6. ASSUME tail' <= n PROVE n \in tail'..(head' - 1) /\ ring'[n % RingN] = ring[n % RingN]
  <2> DEFINE h == head'
             t == tail'
  <2>1. h \in Int /\ t \in Int /\ q \in Int /\ h <= q /\ head <= h /\ t <= n
    BY <1>2, <1>5, <1>6
  <2> HIDE DEF p, q, h, t
  <2>2. n \in t..(q - 1) /\ n \in t..(h - 1)
    BY <1>1, <2>1
  <2>3. ring'[n % RingN] = raised' - q + n + 1
    BY <2>2, <1>3 DEF t
  <2> QED
    BY <1>4, <1>5, <2>2, <2>3 DEF h, t
<1>7. CASE tail' = tail
  BY <1>1, <1>6, <1>7
<1>8. CASE DrainStore /\ n < upto
  <2>1. led = "written" /\ UNCHANGED <<flash, off>>
    BY <1>8 DEF DrainStore, flashVars
  <2> DEFINE k == n - tail + 1
  <2>2. Len(batch) = upto - tail /\ \A i \in 1..Len(batch) : batch[i] = Rec(raised - p + tail + i, boot)
    BY <2>1 DEF IInv, BatchInv
  <2>3. k \in 1..Len(batch)
    BY <1>1, <1>8, <2>2
  <2>4. batch[k].id = raised - p + tail + k
    BY <2>2, <2>3 DEF Rec
  <2>5. raised - p + tail + k = raised - p + n + 1 /\ raised - p + n + 1 > 0
    <3> HIDE DEF p
    <3> QED
      BY <1>1
  <2> QED
    BY <1>4, <2>1, <2>3, <2>4, <2>5
<1>9. CASE DrainStore /\ ~(n < upto)
  <2>1. tail' = upto
    BY <1>9 DEF DrainStore
  <2> QED
    BY <1>1, <1>6, <1>9, <2>1
<1>10. tail' = tail \/ DrainStore
  BY DEF Next, Control, Drain, RaiseEdge, CommitHead, PublishStatus, MaintainCheck, DrainCopy,
         DrainAppend, ClearCheck, Clear, PowerCut, Boot, BootCut, ramVars
<1> QED
  BY <1>7, <1>8, <1>9, <1>10

\* An accepted event is not lost on its way, when two batches fit into the partition
\* (16 records of the code's thousands): the erase that makes room for a batch is then
\* told from an append by the cursor that it moves back (evlog.cpp:68-92, 154-164).
THEOREM AcceptedKept ==
  ASSUME 2 * BatchN <= Slots
  PROVE  Spec => AcceptedEventsKept
<1>1. ASSUME IInv, Next, IInv', fails' = 0, up', ~half, NEW e \in Pending \cup Recorded
      PROVE  e \in (Pending \cup Recorded)' \/ (e \notin Pending /\ off' <= off)
  <2>0. /\ Slots \in Nat /\ BatchN \in Nat /\ off \in 0..Slots /\ off' \in 0..Slots /\ half \in BOOLEAN
        /\ head \in Nat /\ tail \in Nat /\ FlashInv
    BY <1>1, SizesAssumption DEF IInv, TypeOK
  <2>1. up
    <3> SUFFICES ASSUME ~up PROVE FALSE
      OBVIOUS
    <3>1. head = 0 /\ tail = 0 /\ off = 0
      BY <1>1 DEF IInv, OffInv
    <3>2. Pending = {} /\ Recorded = {}
      BY <3>1 DEF Pending, Recorded, Journal
    <3> QED
      BY <1>1, <3>2
  <2>2. CASE e \in Pending
    <3>1. PICK n \in tail..(head - 1) : e = ring[n % RingN]
      BY <2>2 DEF Pending
    <3>2. CASE n \in tail'..(head' - 1) /\ ring'[n % RingN] = ring[n % RingN]
      BY <3>1, <3>2 DEF Pending
    <3>3. CASE led = "written" /\ UNCHANGED <<flash, off>> /\ n - tail + 1 \in 1..Len(batch)
               /\ e = batch[n - tail + 1].id /\ e > 0
      <4>1. PICK i \in 1..off : flash[i] = batch[n - tail + 1]
        BY <1>1, <3>3, Completes DEF IInv, WrittenInv
      <4>2. batch[n - tail + 1] \in Records
        BY <1>1, <3>3, ElementOfSeq DEF IInv, BatchInv
      <4>3. flash[i].kind = "rec" /\ flash[i].id = e /\ e # 0
        BY <3>3, <4>1, <4>2, CellFacts
      <4> QED
        BY <3>3, <4>1, <4>3 DEF Recorded, Journal
    <3> QED
      BY <1>1, <2>1, <3>1, <3>2, <3>3, PendingKept
  <2>3. CASE e \in Recorded /\ e \notin Pending
    <3>1. PICK i \in 1..off : flash[i].kind = "rec" /\ flash[i].id = e /\ e # 0
      BY <2>3 DEF Recorded, Journal
    <3>2. CASE UNCHANGED <<flash, off>>
      BY <3>1, <3>2 DEF Recorded, Journal
    <3>3. ASSUME NEW wipe, NEW at, NEW recs, Fits(wipe, at, recs),
                 flash' = Completed(wipe, at, recs).flash, off' = Completed(wipe, at, recs).off,
                 ~wipe => \A j \in (at + 1)..Slots : flash[j] = Blank,
                 \/ ~wipe /\ at = off
                 \/ wipe /\ (Len(recs) = 1 \/ (Full(off, recs) /\ Len(recs) <= BatchN))
          PROVE  e \in Recorded' \/ off' <= off
      <4>1. /\ off' = Base(wipe, at) + Len(recs)
            /\ \A j \in 1..Base(wipe, at) : flash'[j] = flash[j]
        BY <2>0, <3>3, CompletedFacts
      <4>2. Len(recs) \in Nat
        BY <3>3, LenProperties DEF Fits
      <4>3. CASE wipe
        BY <2>0, <3>1, <3>3, <4>1, <4>2, <4>3 DEF Base, Full
      <4>4. CASE ~wipe
        <5>1. flash'[i] = flash[i] /\ i \in 1..off'
          BY <2>0, <3>1, <3>3, <4>1, <4>2, <4>4 DEF Base
        <5> QED
          BY <3>1, <5>1 DEF Recorded, Journal
      <4> QED
        BY <4>3, <4>4
    <3> QED
      BY <1>1, <2>1, <2>3, <3>2, <3>3, Completes
  <2> QED
    BY <1>1, <2>2, <2>3
<1>2. IInv /\ IInv' /\ [Next]_vars =>
        [ fails' = 0 /\ up' /\ ~half =>
            \A e \in Pending \cup Recorded :
              e \in (Pending \cup Recorded)' \/ (e \notin Pending /\ off' <= off) ]_vars
  BY <1>1
<1> QED
  BY InvHolds, <1>2, PTL DEF Spec, AcceptedEventsKept

-----------------------------------------------------------------------------
(* The order of the journal *)

\* No record of f has a boot number past b or an event past e.
Bounded(f, b, e) ==
  \A i \in 1..Slots : f[i].kind = "rec" => f[i].boot <= b /\ f[i].id <= e

\* The records of one boot, in the order of their events, which lie between two.
Rising(recs, b, low, high) ==
  /\ \A k \in 1..Len(recs) :
       recs[k].boot = b /\ (recs[k].id = 0 \/ (low < recs[k].id /\ recs[k].id <= high))
  /\ \A k, l \in 1..Len(recs) :
       k < l /\ recs[k].id # 0 /\ recs[l].id # 0 => recs[k].id < recs[l].id

\* Records that come after all others keep the order where they grow.
LEMMA GrownSorted ==
  ASSUME NEW f \in [1..Slots -> Cells], NEW g, NEW base \in 0..Slots, NEW recs \in Seq(Records),
         NEW n \in 0..Len(recs), base + n <= Slots, Grown(f, g, base, recs, n), Packed(f, base),
         NEW b \in Nat, NEW low \in Nat, NEW high \in Nat, low <= high,
         Sorted(f), Bounded(f, b, low), Rising(recs, b, low, high)
  PROVE  Sorted(g) /\ Bounded(g, b, high)
<1>0. Len(recs) \in Nat /\ Slots \in Nat /\ base \in Int /\ n \in Int
  BY LenProperties, SizesAssumption
<1>1. \A c \in Cells : c.id \in Int /\ c.boot \in Int
  BY CellFacts
<1>2. \A i \in 1..Slots : f[i] \in Cells /\ g[i] \in Cells
  BY DEF Grown
<1> DEFINE New(i) == i \in base + 1 .. base + n
<1>3. ASSUME NEW i \in 1..Slots, g[i].kind = "rec"
      PROVE  \/ g[i] = f[i] /\ f[i].kind = "rec" /\ ~New(i)
             \/ New(i) /\ f[i] = Blank /\ i - base \in 1..Len(recs) /\ g[i] = recs[i - base]
  <2>1. Torn.kind # "rec"
    BY DEF Torn
  <2>2. New(i) => i - base \in 1..Len(recs)
    BY <1>0
  <2> QED
    BY <1>3, <2>1, <2>2 DEF Grown
<1>4. Bounded(g, b, high)
  <2> SUFFICES ASSUME NEW i \in 1..Slots, g[i].kind = "rec" PROVE g[i].boot <= b /\ g[i].id <= high
    BY DEF Bounded
  <2>1. CASE g[i] = f[i] /\ f[i].kind = "rec"
    BY <1>1, <1>2, <2>1 DEF Bounded
  <2>2. CASE i - base \in 1..Len(recs) /\ g[i] = recs[i - base]
    <3>1. g[i].boot = b /\ (g[i].id = 0 \/ (low < g[i].id /\ g[i].id <= high))
      BY <2>2 DEF Rising
    <3> QED
      BY <3>1
  <2> QED
    BY <1>3, <2>1, <2>2
<1>5. ASSUME NEW i \in 1..Slots, NEW j \in 1..Slots, i < j, g[i].kind = "rec", g[j].kind = "rec"
      PROVE  g[i].boot <= g[j].boot /\ (g[i].id # 0 /\ g[j].id # 0 => g[i].id < g[j].id)
  <2>1. CASE g[i] = f[i] /\ f[i].kind = "rec" /\ g[j] = f[j] /\ f[j].kind = "rec"
    BY <1>5, <2>1 DEF Sorted
  <2>2. CASE g[i] = f[i] /\ f[i].kind = "rec" /\ j - base \in 1..Len(recs) /\ g[j] = recs[j - base]
    <3>1. f[i].boot <= b /\ f[i].id <= low
      BY <2>2 DEF Bounded
    <3>2. g[j].boot = b /\ (g[j].id = 0 \/ low < g[j].id)
      BY <2>2 DEF Rising
    <3> QED
      BY <1>1, <1>2, <2>2, <3>1, <3>2
  <2>3. CASE f[i] = Blank /\ f[j].kind = "rec"
    <3>1. f[j] = Blank
      BY <1>5, <2>3 DEF Packed
    <3> QED
      BY <2>3, <3>1 DEF Blank
  <2>4. CASE /\ i - base \in 1..Len(recs) /\ g[i] = recs[i - base]
             /\ j - base \in 1..Len(recs) /\ g[j] = recs[j - base]
    <3>1. i - base < j - base
      BY <1>0, <1>5
    <3>2. g[i].boot = b /\ g[j].boot = b
      BY <2>4 DEF Rising
    <3>3. g[i].id # 0 /\ g[j].id # 0 => g[i].id < g[j].id
      BY <2>4, <3>1 DEF Rising
    <3> QED
      BY <3>2, <3>3
  <2> QED
    BY <1>3, <1>5, <2>1, <2>2, <2>3, <2>4
<1> QED
  BY <1>4, <1>5 DEF Sorted

\* A write of such records keeps the order, whatever becomes of it.
LEMMA WriteSorted ==
  ASSUME FlashInv, half \in BOOLEAN, NEW wipe, NEW at, NEW recs, Fits(wipe, at, recs),
         ~half => Packed(flash, at), NEW o \in Outcome(wipe, at, recs), ~o.half,
         NEW b \in Nat, NEW low \in Nat, NEW high \in Nat, low <= high,
         ~half => Sorted(flash) /\ Bounded(flash, b, low), Rising(recs, b, low, high)
  PROVE  Sorted(o.flash) /\ Bounded(o.flash, b, high)
<1>0. /\ Slots \in Nat /\ at \in 0..Slots /\ Len(recs) \in Nat /\ recs \in Seq(Records)
      /\ wipe \in BOOLEAN
  BY LenProperties, SizesAssumption DEF Fits
<1>1. CASE o.flash = flash /\ o.half = half
  <2>1. \A i \in 1..Slots : flash[i].id \in Int
    BY CellFacts DEF FlashInv
  <2> QED
    BY <1>1, <2>1 DEF Bounded
<1>2. ASSUME o.half = (half /\ ~wipe), NEW n \in 0..Len(recs),
             Grown(Ground(wipe), o.flash, Base(wipe, at), recs, n)
      PROVE  Sorted(o.flash) /\ Bounded(o.flash, b, high)
  <2>1. /\ Ground(wipe) \in [1..Slots -> Cells] /\ Packed(Ground(wipe), Base(wipe, at))
        /\ Sorted(Ground(wipe)) /\ Bounded(Ground(wipe), b, low)
    <3>1. CASE wipe
      BY <3>1, CellFacts DEF Ground, Base, Erased, Packed, Sorted, Bounded, Blank
    <3>2. CASE ~wipe
      BY <3>2, <1>2 DEF Ground, Base, FlashInv
    <3> QED
      BY <3>1, <3>2
  <2>2. Base(wipe, at) \in 0..Slots /\ Base(wipe, at) + n <= Slots
    BY <1>0 DEF Base, Fits
  <2> HIDE DEF Grown, Packed, Sorted, Bounded, Rising
  <2> QED
    BY <2>1, <2>2, <1>0, <1>2, GrownSorted
<1> QED
  BY <1>1, <1>2, OutcomeFacts

\* Nor does any outcome bring a boot number past those of flash and of the records.
LEMMA WriteBoots ==
  ASSUME FlashInv, half \in BOOLEAN, NEW wipe, NEW at, NEW recs, Fits(wipe, at, recs),
         NEW o \in Outcome(wipe, at, recs), NEW m \in Nat,
         \A i \in 1..Slots : flash[i].boot <= m, \A k \in 1..Len(recs) : recs[k].boot <= m
  PROVE  \A i \in 1..Slots : o.flash[i].boot <= m
<1>0. Slots \in Nat /\ at \in 0..Slots /\ Len(recs) \in Nat
  BY LenProperties, SizesAssumption DEF Fits
<1>1. Blank.boot <= m /\ Torn.boot <= m
  BY DEF Blank, Torn
<1>2. CASE \A i \in 1..Slots : o.flash[i] \in {flash[i], Blank, Torn}
  BY <1>1, <1>2
<1>3. ASSUME NEW n \in 0..Len(recs), Grown(Ground(wipe), o.flash, Base(wipe, at), recs, n),
             NEW i \in 1..Slots
      PROVE  o.flash[i].boot <= m
  <2>1. Base(wipe, at) \in Int
    BY <1>0 DEF Base
  <2>2. Ground(wipe)[i].boot <= m
    BY <1>1 DEF Ground, Erased
  <2>3. i \in Base(wipe, at) + 1 .. Base(wipe, at) + n => i - Base(wipe, at) \in 1..Len(recs)
    BY <1>0, <2>1
  <2> QED
    BY <1>1, <1>3, <2>2, <2>3 DEF Grown
<1> QED
  BY <1>2, <1>3, OutcomeFacts

\* The events told are some of those raised, and never fewer after a step.
LEMMA ToldFacts == IInv => Told \in Nat /\ Told <= raised /\ raised \in Nat
<1> SUFFICES ASSUME IInv PROVE Told \in Nat /\ Told <= raised /\ raised \in Nat
  OBVIOUS
<1>1. led = "written" => tail <= upto
  BY SizesAssumption DEF IInv, BatchInv, TypeOK
<1> QED
  BY <1>1, CursorFacts DEF Told

LEMMA ToldGrows ==
  ASSUME IInv, IInv', Next
  PROVE  Told <= Told'
<1> DEFINE p == Pushed
           q == Pushed'
           base == raised - p
<1>1. Told \in Nat /\ Told <= raised /\ raised \in Nat /\ base \in Int
  BY ToldFacts, CursorFacts
<1>2. CASE PowerCut
  BY <1>1, <1>2 DEF PowerCut, Told, Pushed
<1>3. CASE ~PowerCut
  <2>1. raised' - q = base
    <3>1. CASE RaiseEdge
      BY <1>1, CursorFacts, <3>1 DEF RaiseEdge, Pushed
    <3>2. CASE CommitHead
      BY <1>1, CursorFacts, <3>2 DEF CommitHead, Pushed, boundVars
    <3>3. CASE ~RaiseEdge /\ ~CommitHead
      <4>1. UNCHANGED <<head, raised>> /\ (UNCHANGED ctl \/ (ctl # "filled" /\ ctl' # "filled"))
        BY <1>3, <3>3 DEF Next, Control, Drain, PublishStatus, MaintainCheck, DrainCopy, DrainAppend,
                    DrainStore, ClearCheck, Clear, Boot, BootCut, taskVars, ramVars, boundVars
      <4>2. q = p
        BY <4>1 DEF Pushed
      <4> QED
        BY <1>1, <4>1, <4>2
    <3> QED
      BY <3>1, <3>2, <3>3
  <2> DEFINE at == IF led = "written" THEN upto ELSE tail
             to == IF led' = "written" THEN upto' ELSE tail'
  <2>2. at \in Int /\ to \in Int /\ at <= to
    <3>1. tail \in Int /\ upto \in Int /\ (led \in {"copied", "written"} => tail < upto)
      BY CursorFacts DEF IInv, BatchInv
    <3>2. CASE DrainStore
      BY <3>1, <3>2 DEF DrainStore
    <3>3. CASE DrainAppend
      BY <3>1, <3>3 DEF DrainAppend, ramVars
    <3>4. CASE DrainCopy
      BY <3>1, <3>4 DEF DrainCopy, ramVars
    <3>5. CASE ~DrainStore /\ ~DrainAppend /\ ~DrainCopy
      <4>1. UNCHANGED <<tail, upto, led>> \/ (UNCHANGED tail /\ led # "written" /\ led' # "written")
        BY <1>3, <3>5 DEF Next, Control, Drain, RaiseEdge, CommitHead, PublishStatus, MaintainCheck,
                    ClearCheck, Clear, Boot, BootCut, ramVars, drainVars
      <4> QED
        BY <3>1, <4>1
    <3> QED
      BY <3>2, <3>3, <3>4, <3>5
  <2>3. Told = base + at /\ Told' = (raised' - q) + to
    BY DEF Told
  <2> HIDE DEF base, at, to, p, q
  <2> QED
    BY <1>1, <2>1, <2>2, <2>3
<1> QED
  BY <1>2, <1>3

\* The batch goes on where the journal stands.
LEMMA BatchRising ==
  ASSUME IInv, led = "copied"
  PROVE  /\ Rising(batch, boot, Told, raised - Pushed + upto)
         /\ raised - Pushed + upto <= raised /\ raised - Pushed + upto \in Nat
<1>1. /\ Told = raised - Pushed + tail
      /\ Len(batch) = upto - tail /\ tail < upto
      /\ \A i \in 1..Len(batch) : batch[i] = Rec(raised - Pushed + tail + i, boot)
  BY CursorFacts DEF Told, IInv, BatchInv
<1>2. ASSUME NEW i \in 1..Len(batch)
      PROVE  batch[i].boot = boot /\ batch[i].id = raised - Pushed + tail + i
  BY <1>1 DEF Rec
<1> DEFINE base == raised - Pushed
<1>3. base \in Int /\ 0 <= base /\ tail \in Int /\ upto \in Int /\ 0 <= tail
  BY CursorFacts
<1>4. raised - Pushed + upto <= raised
  BY CursorFacts
<1> HIDE DEF base
<1>5. ASSUME NEW i \in 1..Len(batch)
      PROVE  i \in Int /\ base + tail < base + tail + i /\ base + tail + i <= base + upto
  BY <1>1, <1>3
<1>6. ASSUME NEW i \in 1..Len(batch), NEW j \in 1..Len(batch), i < j
      PROVE  base + tail + i < base + tail + j
  BY <1>3, <1>5, <1>6
<1>7. base + upto \in Nat
  BY <1>1, <1>3
<1> QED
  BY <1>1, <1>2, <1>4, <1>5, <1>6, <1>7 DEF base, Rising

\* A boot takes a number past all those on flash, while they do not wrap.
LEMMA BootFollows ==
  ASSUME IInv, OrderInv, ~up, MaxCrashes + 1 < BootMod
  PROVE  /\ NextBoot \in Nat /\ NextBoot <= crashes + 1
         /\ ~half => \A i \in 1..Slots : flash[i].kind = "rec" => flash[i].boot <= NextBoot
<1>0. /\ FlashInv /\ crashes \in Nat /\ crashes <= MaxCrashes /\ MaxCrashes \in Nat
      /\ BootMod \in Nat /\ Slots \in Nat /\ Scanned \in 0..Slots
  BY SizesAssumption, ScanFacts DEF IInv, TypeOK
<1>1. PICK b \in Nat :
        /\ b = 0 \/ \E i \in 1..Scanned : flash[i].kind = "rec" /\ b = flash[i].boot
        /\ \A i \in 1..Scanned : flash[i].kind = "rec" => flash[i].boot <= b
        /\ NextBoot = (b + 1) % BootMod
  BY <1>0, NextBootFacts
<1>2. \A i \in 1..Slots : flash[i].boot \in Int /\ flash[i].boot <= crashes
  BY <1>0, CellFacts DEF OrderInv, Boots, FlashInv
<1>3. b <= crashes
  BY <1>0, <1>1, <1>2
<1>4. NextBoot = b + 1
  <2>1. b + 1 \in Nat /\ b + 1 < BootMod
    BY <1>0, <1>3
  <2> QED
    BY <1>0, <1>1, <2>1
<1>5. ASSUME ~half, NEW i \in 1..Slots, flash[i].kind = "rec" PROVE i \in 1..Scanned
  <2>1. flash[i] # Blank
    BY <1>5 DEF Blank
  <2>2. Scanned < Slots => flash[Scanned + 1] = Blank
    BY <1>0, ScanFacts
  <2>3. \A j, k \in 1..Slots : j < k /\ flash[j] = Blank => flash[k] = Blank
    BY <1>0, <1>5 DEF FlashInv, Packed
  <2> HIDE DEF Scanned
  <2> SUFFICES ASSUME Scanned < i PROVE FALSE
    BY <1>0
  <2>4. Scanned + 1 \in 1..Slots /\ flash[Scanned + 1] = Blank
    BY <1>0, <2>2
  <2>5. i = Scanned + 1 \/ Scanned + 1 < i
    BY <1>0
  <2> QED
    BY <2>1, <2>3, <2>4, <2>5
<1> QED
  BY <1>0, <1>1, <1>2, <1>3, <1>4, <1>5

\* A Boot record alone is in order.
LEMMA AnchorRising ==
  ASSUME NEW b \in 0..(BootMod - 1), NEW low, NEW high
  PROVE  Rising(<<Rec(0, b)>>, b, low, high)
  BY DEF Rising, Rec

\* No step takes back a boot.
LEMMA BootsGrow ==
  ASSUME IInv, Next
  PROVE  Boots \in Nat /\ Boots' \in Nat /\ Boots <= Boots'
<1>1. crashes \in Nat /\ up \in BOOLEAN
  BY DEF IInv, TypeOK
<1>2. \/ PowerCut \/ Boot \/ BootCut
      \/ UNCHANGED <<up, crashes>>
  BY DEF Next, Control, Drain, RaiseEdge, CommitHead, PublishStatus, MaintainCheck, DrainCopy,
         DrainAppend, DrainStore, ClearCheck, Clear, boundVars
<1> QED
  BY <1>1, <1>2 DEF Boots, PowerCut, Boot, BootCut

\* What a write in order is: records of one boot, past all those on flash.
InOrder(wipe, at, recs, b) ==
  /\ Fits(wipe, at, recs) /\ (~half => Packed(flash, at))
  /\ b \in Nat /\ (~half => Bounded(flash, b, Told))

\* Every write of the program is one, or its interruption.
LEMMA OrderSteps ==
  ASSUME IInv, IInv', OrderInv, Next, MaxCrashes + 1 < BootMod
  PROVE  \/ UNCHANGED <<flash, half>> /\ (up' => up /\ boot' = boot)
         \/ \E wipe, at, recs, b :
              /\ InOrder(wipe, at, recs, b) /\ Rising(recs, b, Told, Told')
              /\ b <= Boots' /\ (up' => b = boot')
              /\ \E o \in Outcome(wipe, at, recs) : flash' = o.flash /\ half' = o.half
<1> DEFINE Written(wipe, at, recs, b) ==
              /\ InOrder(wipe, at, recs, b) /\ Rising(recs, b, Told, Told')
              /\ b <= Boots' /\ (up' => b = boot')
              /\ \E o \in Outcome(wipe, at, recs) : flash' = o.flash /\ half' = o.half
           Same == UNCHANGED <<flash, half>> /\ (up' => up /\ boot' = boot)
           Anchor == <<Rec(0, boot)>>
<1>0. /\ fails \in Nat /\ boot \in 0..(BootMod - 1) /\ boot \in Nat /\ crashes \in Nat
      /\ up \in BOOLEAN
      /\ (~half => Packed(flash, off)) /\ (~half => Packed(flash, Scanned))
  BY SizesAssumption, ScanFacts DEF IInv, TypeOK, FlashInv
<1>1. Boots \in Nat /\ Boots' \in Nat /\ Boots <= Boots' /\ (up => boot <= Boots)
  BY BootsGrow DEF OrderInv
<1>2. up /\ ~half => Bounded(flash, boot, Told)
  BY DEF OrderInv, Bounded
<1>3. up => InOrder(TRUE, off, Anchor, boot) /\ Rising(Anchor, boot, Told, Told')
  BY <1>0, <1>2, FitFacts, AnchorRising DEF IInv, InOrder
<1>4. up /\ led = "copied" => InOrder(Full(off, batch), off, batch, boot)
  BY <1>0, <1>2, FitFacts DEF IInv, InOrder
<1>5. ~up => /\ InOrder(Full(Scanned, BootRecord), Scanned, BootRecord, NextBoot)
             /\ Rising(BootRecord, NextBoot, Told, Told') /\ NextBoot <= crashes + 1
  <2> SUFFICES ASSUME ~up PROVE /\ InOrder(Full(Scanned, BootRecord), Scanned, BootRecord, NextBoot)
                                /\ Rising(BootRecord, NextBoot, Told, Told') /\ NextBoot <= crashes + 1
    OBVIOUS
  <2>1. NextBoot \in 0..(BootMod - 1)
    BY NextBootFacts DEF IInv
  <2>2. ~half => Bounded(flash, NextBoot, Told)
    BY BootFollows DEF OrderInv, Bounded
  <2> QED
    BY <1>0, <2>1, <2>2, FitFacts, AnchorRising, BootFollows DEF IInv, InOrder, BootRecord
<1>b. up => boot <= Boots'
  BY <1>0, <1>1
<1>a. Anchor = <<Rec(0, boot)>>
  OBVIOUS
<1> HIDE DEF Written, Anchor
<1>6. CASE DrainAppend
  <2>1. FlashWrite(Full(off, batch), off, batch) /\ led = "copied" /\ up
    BY <1>6 DEF DrainAppend
  <2>2. Told' = raised - Pushed + upto
    BY <1>6 DEF DrainAppend, Told, Pushed, ramVars, taskVars
  <2>3. Rising(batch, boot, Told, Told')
    BY <2>1, <2>2, BatchRising
  <2>4. Written(Full(off, batch), off, batch, boot)
    BY <1>0, <1>1, <1>4, <1>6, <2>1, <2>3, FlashWriteFacts DEF Written, DrainAppend
  <2> QED
    BY <2>4 DEF Written
<1>7. CASE Clear
  <2>1. FlashWrite(TRUE, off, Anchor) /\ up
    BY <1>a, <1>7 DEF Clear
  <2>2. \E o \in Outcome(TRUE, off, Anchor) : flash' = o.flash /\ half' = o.half
    BY <1>0, <2>1, FlashWriteFacts
  <2>3. boot' = boot
    BY <1>7 DEF Clear
  <2>4. Written(TRUE, off, Anchor, boot)
    BY <1>b, <1>3, <2>1, <2>2, <2>3, Zenon DEF Written
  <2> QED
    BY <2>4 DEF Written
<1>8. CASE PowerCut
  <2>1. CASE UNCHANGED <<flash, half>>
    BY <1>8, <2>1 DEF PowerCut
  <2>2. ASSUME NEW o \in UnderWay, flash' = o.flash, half' = o.half
        PROVE  \E wipe, at, recs, b : Written(wipe, at, recs, b)
    <3>0. up /\ up' = FALSE
      BY <1>8 DEF PowerCut
    <3>1. CASE led = "copied" /\ o \in Interrupted(Full(off, batch), off, batch)
      <4>1. Told' = raised
        BY ToldFacts, <1>8 DEF PowerCut, Told, Pushed
      <4>2. Rising(batch, boot, Told, raised)
        <5>1. /\ Rising(batch, boot, Told, raised - Pushed + upto)
              /\ raised - Pushed + upto <= raised /\ raised - Pushed + upto \in Nat
          BY <3>1, BatchRising
        <5>2. raised \in Nat /\ \A k \in 1..Len(batch) : batch[k].id \in Int
          BY ToldFacts, ElementOfSeq, CellFacts DEF IInv, BatchInv
        <5> DEFINE high == raised - Pushed + upto
        <5> HIDE DEF high
        <5> QED
          BY <5>1, <5>2 DEF Rising, high
      <4>3. Written(Full(off, batch), off, batch, boot)
        BY <1>0, <1>1, <1>4, <2>2, <3>0, <3>1, <4>1, <4>2 DEF Written, Outcome
      <4> QED
        BY <4>3
    <3>2. CASE o \in Interrupted(TRUE, off, Anchor)
      <4>1. Written(TRUE, off, Anchor, boot)
        <5>1. o \in Outcome(TRUE, off, Anchor)
          BY <3>2 DEF Outcome
        <5> QED
          BY <1>b, <1>3, <2>2, <3>0, <5>1, Zenon DEF Written
      <4> QED
        BY <4>1
    <3> QED
      BY <1>a, <2>2, <3>1, <3>2 DEF UnderWay
  <2> QED
    BY <1>8, <2>1, <2>2 DEF PowerCut, Written
<1>9. CASE Boot
  <2>1. FlashWrite(Full(Scanned, BootRecord), Scanned, BootRecord) /\ ~up
    BY <1>9 DEF Boot
  <2>2. Boots' = crashes + 1
    BY <1>9 DEF Boot, Boots
  <2>3. Written(Full(Scanned, BootRecord), Scanned, BootRecord, NextBoot)
    BY <1>0, <1>5, <1>9, <2>1, <2>2, FlashWriteFacts DEF Written, Boot
  <2> QED
    BY <2>3 DEF Written
<1>10. CASE BootCut
  <2>1. ~up /\ ~up' /\ Boots' = crashes + 1
    BY <1>10 DEF BootCut, Boots
  <2>2. Written(Full(Scanned, BootRecord), Scanned, BootRecord, NextBoot)
    BY <1>0, <1>5, <1>10, <2>1 DEF Written, Outcome, BootCut
  <2> QED
    BY <2>2 DEF Written
<1>11. CASE ~DrainAppend /\ ~Clear /\ ~PowerCut /\ ~Boot /\ ~BootCut
  BY <1>11 DEF Next, Control, Drain, RaiseEdge, CommitHead, PublishStatus, MaintainCheck, DrainCopy,
         DrainStore, ClearCheck, flashVars, boundVars
<1> QED
  BY <1>6, <1>7, <1>8, <1>9, <1>10, <1>11 DEF Written

LEMMA OrderNext ==
  ASSUME IInv, IInv', OrderInv, Next, MaxCrashes + 1 < BootMod
  PROVE  OrderInv'
<1>0. /\ Told \in Nat /\ Told' \in Nat /\ Told <= Told'
      /\ Boots \in Nat /\ Boots' \in Nat /\ Boots <= Boots'
      /\ FlashInv /\ half \in BOOLEAN
  <2>1. (IInv => Told \in Nat)'
    BY ToldFacts, PTL
  <2> QED
    BY <2>1, ToldFacts, ToldGrows, BootsGrow DEF IInv, TypeOK
<1>1. \A c \in Cells : c.boot \in Int /\ c.id \in Int
  BY CellFacts
<1>2. \A i \in 1..Slots : flash[i] \in Cells
  BY <1>0 DEF FlashInv
<1>3. CASE UNCHANGED <<flash, half>> /\ (up' => up /\ boot' = boot)
  <2>1. \A i \in 1..Slots : flash'[i].boot <= Boots'
    BY <1>0, <1>1, <1>2, <1>3 DEF OrderInv
  <2>2. up' => boot' <= Boots'
    <3>1. boot \in Int
      BY SizesAssumption DEF IInv, TypeOK
    <3> QED
      BY <1>0, <1>3, <3>1 DEF OrderInv
  <2>3. ~half' => Sorted(flash')
    BY <1>3 DEF OrderInv
  <2>4. ASSUME ~half', NEW i \in 1..Slots, flash'[i].kind = "rec"
        PROVE  flash'[i].id <= Told' /\ (up' => flash'[i].boot <= boot')
    <3>1. flash[i].id <= Told /\ (up => flash[i].boot <= boot)
      BY <1>3, <2>4 DEF OrderInv
    <3> QED
      BY <1>0, <1>1, <1>2, <1>3, <3>1
  <2> HIDE DEF Told, Boots, Sorted
  <2> QED
    BY <2>1, <2>2, <2>3, <2>4 DEF OrderInv, Sorted
<1>4. ASSUME NEW wipe, NEW at, NEW recs, NEW b,
             InOrder(wipe, at, recs, b), Rising(recs, b, Told, Told'),
             b <= Boots', up' => b = boot',
             NEW o \in Outcome(wipe, at, recs), flash' = o.flash, half' = o.half
      PROVE  OrderInv'
  <2>0. Fits(wipe, at, recs) /\ (~half => Packed(flash, at)) /\ b \in Nat
    BY <1>4 DEF InOrder
  <2>1. \A i \in 1..Slots : flash'[i].boot <= Boots'
    <3>1. \A i \in 1..Slots : flash[i].boot <= Boots'
      BY <1>0, <1>1, <1>2 DEF OrderInv
    <3>2. \A k \in 1..Len(recs) : recs[k].boot <= Boots'
      BY <1>4 DEF Rising
    <3> QED
      BY <1>0, <1>4, <2>0, <3>1, <3>2, WriteBoots
  <2>2. ~half' => Sorted(flash') /\ Bounded(flash', b, Told')
    <3>1. ~half => Sorted(flash) /\ Bounded(flash, b, Told)
      BY <1>4 DEF InOrder, OrderInv
    <3> HIDE DEF Sorted, Bounded, Rising, Packed, Fits, Outcome, FlashInv, Told, Boots
    <3> QED
      BY <1>0, <1>4, <2>0, <3>1, WriteSorted
  <2>3. up' => boot' <= Boots'
    BY <1>4
  <2>4. ASSUME ~half', NEW i \in 1..Slots, flash'[i].kind = "rec"
        PROVE  flash'[i].id <= Told' /\ (up' => flash'[i].boot <= boot')
    BY <1>4, <2>2, <2>4 DEF Bounded
  <2> QED
    BY <2>1, <2>2, <2>3, <2>4 DEF OrderInv, Sorted
<1> QED
  BY <1>3, <1>4, OrderSteps

LEMMA OrderInit == Init => OrderInv
<1> SUFFICES ASSUME Init PROVE OrderInv
  OBVIOUS
<1> QED
  BY DEF Init, OrderInv, Boots, Sorted, Erased, Blank

\* The order holds all along.
LEMMA OrderHolds ==
  ASSUME MaxCrashes + 1 < BootMod
  PROVE  Spec => []OrderInv
<1>1. IInv /\ IInv' /\ OrderInv /\ [Next]_vars => OrderInv'
  <2> SUFFICES ASSUME IInv, IInv', OrderInv, [Next]_vars PROVE OrderInv'
    OBVIOUS
  <2>1. CASE Next
    BY <2>1, OrderNext
  <2>2. CASE UNCHANGED vars
    BY <2>2 DEF vars, taskVars, ramVars, drainVars, flashVars, boundVars,
                OrderInv, Told, Pushed, Boots, Sorted
  <2> QED
    BY <2>1, <2>2
<1> QED
  BY <1>1, OrderInit, InvHolds, PTL DEF Spec

\* The journal tells the events in the order they happened, over power cuts, torn
\* records, failed writes and the erases that make room, as long as the boots are
\* fewer than the numbers they are given: 2^16 in the code (evlog.cpp:54-92, 126-141).
THEOREM JournalOrdered ==
  ASSUME MaxCrashes + 1 < BootMod
  PROVE  Spec => []JournalInOrder
<1>1. IInv /\ OrderInv => JournalInOrder
  <2> SUFFICES ASSUME IInv, OrderInv, ~half PROVE JournalInOrder
    BY DEF JournalInOrder
  <2>1. Journal \subseteq 1..Slots /\ \A i \in Journal : flash[i].kind = "rec"
    BY SizesAssumption DEF IInv, TypeOK, Journal
  <2> QED
    BY <2>1 DEF OrderInv, Sorted, JournalInOrder
<1> QED
  BY <1>1, OrderHolds, InvHolds, PTL

-----------------------------------------------------------------------------
(* The reply of the web page: EventLogReader *)

\* The places of the window, and what of it a pass has found after n records.
Window    == win.first + 1 .. win.first + win.count
SnapTo(n) == [i \in {k \in DOMAIN snap : k <= win.first + n} |-> snap[i]]

\* A reply is under way only while the board runs, and begins with nothing.
ReplyInv ==
  /\ rd \in {"idle", "size", "encode", "sent"}
  /\ wiped \in {"no", "wiped", "regrown", "half"}
  /\ win \in [first : 0..Slots, count : 0..Slots] /\ win.first + win.count <= Slots
  /\ done \in 0..win.count
  /\ IF rd = "idle" THEN reply = NoRecords /\ done = 0 /\ wiped = "no"
     ELSE up /\ (half => wiped = "half")

\* While the journal only grows the window stands as it was taken, and the passes find
\* its records one by one; a window of torn records alone may be outside the journal,
\* after an erase that made room for a write that failed.
GrowingInv ==
  /\ \A i \in Window : flash[i] # Blank
  /\ snap = [i \in {k \in Window : flash[k].kind = "rec"} |-> flash[i]]
  /\ DOMAIN snap = {} \/ win.first + win.count <= off
  /\ reply = SnapTo(done)
  /\ rd \in {"encode", "sent"} => size = Cardinality(DOMAIN snap)
  /\ rd = "sent" => done = win.count

\* Once it is erased, and until it grows past the window again, the passes find nothing
\* more, and the count of the first pass tells a reply cut short.
ErasedInv ==
  /\ off <= win.first
  /\ IsFiniteSet(DOMAIN snap) /\ DOMAIN reply \subseteq DOMAIN snap
  /\ snap = [i \in DOMAIN snap |-> snap[i]] /\ reply = [i \in DOMAIN reply |-> snap[i]]
  /\ rd = "encode" => size = Cardinality(DOMAIN snap) \/ reply = NoRecords
  /\ rd = "sent" => reply \in {snap, NoRecords}

WindowInv ==
  rd # "idle" => /\ wiped = "no" => GrowingInv
                 /\ wiped = "wiped" => ErasedInv

\* Whatever befell the journal, what is read next happened after what was read so far.
ReadInOrder ==
  rd # "idle" /\ wiped # "half" =>
    \A i \in DOMAIN reply :
      /\ i \in 1..Slots /\ i <= win.first + done /\ reply[i].id \in 0..Told
      /\ \A j \in DOMAIN reply :
           i < j /\ reply[i].id # 0 /\ reply[j].id # 0 => reply[i].id < reply[j].id
      /\ \A j \in 1..Slots :
           /\ win.first + done < j /\ flash[j].kind = "rec"
           /\ reply[i].id # 0 /\ flash[j].id # 0
           => reply[i].id < flash[j].id

\* A record on flash that was not there before tells an event not told before.
LEMMA NewRecords ==
  ASSUME IInv, IInv', OrderInv, Next, MaxCrashes + 1 < BootMod, ~half',
         NEW j \in 1..Slots, flash'[j].kind = "rec"
  PROVE  flash'[j] = flash[j] \/ flash'[j].id = 0 \/ Told < flash'[j].id
<1>0. FlashInv /\ half \in BOOLEAN
  BY DEF IInv, TypeOK
<1>1. CASE UNCHANGED <<flash, half>>
  BY <1>1
<1>2. ASSUME NEW wipe, NEW at, NEW recs, NEW b,
             Fits(wipe, at, recs), Rising(recs, b, Told, Told'),
             NEW o \in Outcome(wipe, at, recs), flash' = o.flash, half' = o.half
      PROVE  flash'[j] = flash[j] \/ flash'[j].id = 0 \/ Told < flash'[j].id
  <2>0. Len(recs) \in Nat /\ Slots \in Nat /\ Base(wipe, at) \in Int
    BY <1>2, LenProperties, SizesAssumption DEF Fits, Base
  <2>1. CASE o.flash = flash
    BY <1>2, <2>1
  <2>2. ASSUME NEW n \in 0..Len(recs), Grown(Ground(wipe), o.flash, Base(wipe, at), recs, n)
        PROVE  flash'[j] = flash[j] \/ flash'[j].id = 0 \/ Told < flash'[j].id
    <3>1. CASE j \in Base(wipe, at) + 1 .. Base(wipe, at) + n
      <4>1. j - Base(wipe, at) \in 1..Len(recs)
        BY <2>0, <3>1
      <4>2. flash'[j] = recs[j - Base(wipe, at)]
        BY <1>2, <2>2, <3>1 DEF Grown, Torn
      <4> QED
        BY <1>2, <4>1, <4>2 DEF Rising
    <3>2. CASE j \notin Base(wipe, at) + 1 .. Base(wipe, at) + n
      <4>1. flash'[j] = Ground(wipe)[j]
        BY <1>2, <2>2, <3>2 DEF Grown
      <4> QED
        BY <4>1 DEF Ground, Erased, Blank
    <3> QED
      BY <3>1, <3>2
  <2> QED
    BY <1>0, <1>2, <2>1, <2>2, OutcomeFacts
<1> QED
  BY <1>1, <1>2, OrderSteps DEF InOrder

\* A drain that leaves every record of the journal in its place leaves the cursor past
\* them, unless there was none.
LEMMA CursorStays ==
  ASSUME IInv, OrderInv, DrainAppend, ~half, ~half', Kept
  PROVE  off <= off' \/ \A i \in 1..off : flash[i].kind # "rec"
<1> DEFINE wipe == Full(off, batch)
<1>0. /\ FlashInv /\ half \in BOOLEAN /\ off \in 0..Slots /\ off' \in Nat /\ fails \in Nat
      /\ Slots \in Nat /\ Len(batch) \in Nat /\ batch \in Seq(Records)
      /\ Fits(wipe, off, batch) /\ led = "copied" /\ Packed(flash, off)
  <2>1. FlashInv /\ half \in BOOLEAN /\ off \in 0..Slots /\ fails \in Nat /\ batch \in Seq(Records)
    BY SizesAssumption DEF IInv, TypeOK, BatchInv
  <2>2. led = "copied"
    BY DEF DrainAppend
  <2>3. Fits(wipe, off, batch)
    BY <2>2, FitFacts DEF IInv
  <2>4. off' \in Nat
    <3>1. FlashWrite(wipe, off, batch)
      BY DEF DrainAppend
    <3>2. PICK o \in Outcome(wipe, off, batch) : off' = o.off
      BY <2>1, <3>1, FlashWriteFacts
    <3> QED
      BY <2>1, <2>3, <3>2, OutcomeFacts
  <2> QED
    BY <2>1, <2>2, <2>3, <2>4, SizesAssumption, LenProperties DEF FlashInv
<1> HIDE DEF wipe
<1>1. PICK o \in Outcome(wipe, off, batch) : flash' = o.flash /\ off' = o.off /\ half' = o.half
  <2>1. FlashWrite(wipe, off, batch)
    BY DEF DrainAppend, wipe
  <2> QED
    BY <1>0, <2>1, FlashWriteFacts
<1>2. CASE o.off = off
  BY <1>0, <1>1, <1>2
<1>3. ASSUME NEW n \in 0..Len(batch), Grown(Ground(wipe), o.flash, Base(wipe, off), batch, n),
             o.off \in {Base(wipe, off), Base(wipe, off) + n}
      PROVE  off <= off' \/ \A i \in 1..off : flash[i].kind # "rec"
  <2>1. CASE ~wipe
    BY <1>0, <1>1, <1>3, <2>1 DEF Base
  <2>2. CASE wipe
    <3>1. \A i \in 1..Slots : IF i \in 1..n THEN flash'[i] = Torn \/ flash'[i] = batch[i]
                              ELSE flash'[i] = Blank
      <4>1. Ground(wipe) = Erased /\ Base(wipe, off) = 0
        BY <2>2 DEF Ground, Base
      <4>2. \A i \in 1..Slots : Erased[i] = Blank
        BY DEF Erased
      <4>3. \A i \in 1..Slots : /\ 0 + 1 = 1 /\ 0 + n = n /\ i - 0 = i
        BY <1>0
      <4> QED
        BY <1>1, <1>3, <4>1, <4>2, <4>3 DEF Grown
    <3>2. \A i \in 1..off : i \in 1..Slots /\ flash[i] # Blank /\ flash'[i] = flash[i]
      BY <1>0 DEF Kept, Packed
    <3>3. off <= n
      <4> SUFFICES ASSUME n < off PROVE FALSE
        BY <1>0
      <4>1. off \in 1..off /\ off \notin 1..n
        BY <1>0
      <4> QED
        BY <4>1, <3>1, <3>2
    <3>4. ASSUME NEW i \in 1..off, flash[i].kind = "rec" PROVE FALSE
      <4>1. i \in 1..n /\ i \in 1..Len(batch) /\ flash[i] = batch[i]
        BY <1>0, <3>1, <3>2, <3>3, <3>4 DEF Torn
      <4>2. flash[i].id <= Told
        BY <1>0, <3>2, <3>4 DEF OrderInv
      <4>3. batch[i].id = 0 \/ Told < batch[i].id
        BY <1>0, <4>1, BatchRising DEF Rising
      <4>4. batch[i].id # 0
        <5>1. batch[i] = Rec(raised - Pushed + tail + i, boot)
          BY <1>0, <4>1 DEF IInv, BatchInv
        <5>2. raised - Pushed \in Int /\ raised - Pushed >= 0 /\ tail \in Nat
          BY CursorFacts
        <5> DEFINE base == raised - Pushed
        <5> HIDE DEF base
        <5>3. base + tail + i # 0
          BY <5>2 DEF base
        <5> QED
          BY <5>1, <5>3 DEF Rec, base
      <4>5. flash[i].id \in Int /\ Told \in Int
        BY <1>0, <3>2, CellFacts, ToldFacts DEF FlashInv
      <4> QED
        BY <4>1, <4>2, <4>3, <4>4, <4>5
    <3> QED
      BY <3>4
  <2> QED
    BY <1>0, <2>1, <2>2 DEF Fits
<1> QED
  BY <1>0, <1>1, <1>2, <1>3, OutcomeFacts

-----------------------------------------------------------------------------
(* The reply: its steps *)

\* What a bite reads is what stands in its places of the journal.
LEMMA ReadFacts ==
  ASSUME NEW idx \in Nat, NEW cap \in Nat, off \in Nat, Slots \in Nat
  PROVE  LET bite == ReadAt(idx, cap)
         IN  /\ bite = [i \in DOMAIN bite |-> flash[i]]
             /\ DOMAIN bite = {k \in 1..Slots : /\ idx < k /\ k <= idx + cap /\ k <= off
                                              /\ flash[k].kind = "rec"}
  BY DEF ReadAt, Least

\* The bites stay within the window.
LEMMA AsksFacts ==
  ASSUME ReplyInv
  PROVE  /\ win.first \in Nat /\ win.count \in Nat /\ done \in Nat /\ done <= win.count
         /\ Asks(done) \in Nat /\ done + Asks(done) <= win.count
         /\ win.first + win.count <= Slots /\ Slots \in Nat
  BY SizesAssumption, ReplyAssumption DEF ReplyInv, Asks, Least

\* The records under way after a bite.
LEMMA BiteFacts ==
  ASSUME IInv, ReplyInv, ReadBite
  PROVE  /\ DOMAIN reply' = DOMAIN reply \cup
              {k \in 1..Slots : /\ win.first + done < k /\ k <= win.first + done'
                              /\ k <= off /\ flash[k].kind = "rec"}
         /\ reply' = [i \in DOMAIN reply' |-> IF i \in DOMAIN reply THEN reply[i] ELSE flash[i]]
         /\ done' \in Nat /\ done <= done' /\ done' <= win.count
<1> DEFINE bite == ReadAt(win.first + done, Asks(done))
<1>1. reply' = Joined(reply, bite) /\ done' = done + Asks(done)
  BY DEF ReadBite
<1>2. /\ win.first + done \in Nat /\ Asks(done) \in Nat /\ off \in Nat /\ Slots \in Nat
      /\ (win.first + done) + Asks(done) = win.first + done'
      /\ done' \in Nat /\ done <= done' /\ done' <= win.count
  <2>1. off \in Nat
    BY SizesAssumption DEF IInv, TypeOK
  <2>2. done' = done + Asks(done)
    BY <1>1
  <2> HIDE DEF bite
  <2> QED
    BY <2>1, <2>2, AsksFacts
<1>3. /\ bite = [i \in DOMAIN bite |-> flash[i]]
      /\ DOMAIN bite = {k \in 1..Slots : /\ win.first + done < k /\ k <= win.first + done'
                                       /\ k <= off /\ flash[k].kind = "rec"}
  <2> HIDE DEF bite
  <2>1. /\ bite = [i \in DOMAIN bite |-> flash[i]]
        /\ DOMAIN bite = {k \in 1..Slots : /\ win.first + done < k
                                         /\ k <= (win.first + done) + Asks(done)
                                         /\ k <= off /\ flash[k].kind = "rec"}
    BY <1>2, ReadFacts DEF bite
  <2> QED
    BY <1>2, <2>1
<1> HIDE DEF bite
<1>4. Joined(reply, bite) = [i \in DOMAIN reply \cup DOMAIN bite |->
                        IF i \in DOMAIN reply THEN reply[i] ELSE bite[i]]
  BY DEF Joined
<1>5. \A i \in DOMAIN bite : bite[i] = flash[i]
  BY <1>3
<1>6. DOMAIN reply' = DOMAIN reply \cup DOMAIN bite
  BY <1>1, <1>4
<1>7. reply' = [i \in DOMAIN reply' |-> IF i \in DOMAIN reply THEN reply[i] ELSE flash[i]]
  BY <1>1, <1>4, <1>5, <1>6
<1> QED
  BY <1>2, <1>3, <1>6, <1>7

\* While a reply goes on, the log is moved by a drain alone.
LEMMA LogFacts ==
  ASSUME ReplyInv, Log, rd # "idle", rd' # "idle"
  PROVE  /\ Next /\ up' /\ UNCHANGED readVars
         /\ DrainAppend \/ UNCHANGED <<flashVars, half>>
<1>1. up /\ Next /\ up' /\ UNCHANGED readVars /\ web' = web
  BY DEF Log, NoReply, ReplyInv
<1>2. ~ClearCheck(TRUE) /\ ~ClearCheck(FALSE) /\ ~Clear /\ ~PowerCut /\ ~Boot /\ ~BootCut
  BY <1>1 DEF ClearCheck, Clear, PowerCut, Boot, BootCut
<1>3. CASE Control
  BY <1>1, <1>3 DEF Control, RaiseEdge, CommitHead, PublishStatus, flashVars, boundVars
<1>4. CASE Drain
  BY <1>1, <1>4 DEF Drain, MaintainCheck, DrainCopy, DrainStore, flashVars, boundVars
<1> QED
  BY <1>1, <1>2, <1>3, <1>4 DEF Next

\* A reader's own step leaves the log alone.
LEMMA ReaderFacts == Reader => UNCHANGED vars
  BY DEF Reader, TakeWindow, ReadBite, EndSizing, EndEncoding, Sent

\* No step of the reader or of the log breaks the shape of a reply.
LEMMA ReplyNext ==
  ASSUME IInv, ReplyInv, ReaderNext
  PROVE  ReplyInv'
<1>1. wiped' \in {"no", "wiped", "regrown", "half"}
  BY DEF ReaderNext, Watch, ReplyInv
<1>2. rd' # "idle" /\ half' => wiped' = "half"
  BY DEF ReaderNext, Watch
<1>3. ASSUME NoReply
      PROVE  /\ rd' = "idle" /\ reply' = NoRecords /\ done' = 0
             /\ win' = NoWindow /\ wiped' = "no"
  BY <1>3 DEF NoReply, ReaderNext, Watch
<1>4. /\ NoWindow \in [first : 0..Slots, count : 0..Slots]
      /\ NoWindow.first + NoWindow.count <= Slots /\ 0 \in 0..NoWindow.count
  BY SizesAssumption DEF NoWindow
<1>5. NoReply => ReplyInv'
  BY <1>1, <1>3, <1>4 DEF ReplyInv
<1>6. CASE TakeWindow
  <2> DEFINE n == Least(off, ReplyMax)
  <2>1. n \in 0..off /\ off \in 0..Slots /\ off - n \in 0..Slots /\ n \in 0..Slots /\ (off - n) + n <= Slots
    BY SizesAssumption, ReplyAssumption DEF IInv, TypeOK, Least
  <2>2. win' = [first |-> off - n, count |-> n] /\ rd = "idle" /\ rd' = "size" /\ done' = done /\ up /\ up' = up
    BY <1>6 DEF TakeWindow, vars
  <2> HIDE DEF n
  <2>3. /\ win' \in [first : 0..Slots, count : 0..Slots] /\ win'.first + win'.count <= Slots
        /\ done' \in 0..win'.count
    BY <2>1, <2>2 DEF ReplyInv
  <2> QED
    BY <1>1, <1>2, <2>2, <2>3 DEF ReplyInv
<1>7. CASE ReadBite
  <2>1. /\ rd' = rd /\ win' = win /\ rd # "idle" /\ up' = up /\ done' \in 0..win'.count
    BY <1>7, BiteFacts, AsksFacts DEF ReadBite, vars
  <2> QED
    BY <1>1, <1>2, <2>1 DEF ReplyInv
<1>8. CASE EndSizing
  BY <1>1, <1>2, <1>8, AsksFacts DEF EndSizing, vars, ReplyInv
<1>9. CASE EndEncoding
  BY <1>1, <1>2, <1>5, <1>9 DEF EndEncoding, vars, ReplyInv
<1>10. CASE Sent
  BY <1>5, <1>10 DEF Sent
<1>11. CASE Log
  <2>1. CASE up'
    <3>1. rd' = "idle" => wiped' = "no"
      BY DEF ReaderNext, Watch
    <3> QED
      BY <1>1, <1>2, <1>11, <2>1, <3>1 DEF Log, readVars, ReplyInv
  <2>2. CASE ~up'
    BY <1>5, <1>11, <2>2 DEF Log
  <2> QED
    BY <2>1, <2>2
<1> QED
  BY <1>6, <1>7, <1>8, <1>9, <1>10, <1>11 DEF ReaderNext, Reader

-----------------------------------------------------------------------------
(* The reply: its window and its order *)

\* What becomes of the journal while a reply goes on.
LEMMA WatchFacts ==
  ASSUME IInv, IInv', ReplyInv, ReaderNext, rd # "idle", rd' # "idle"
  PROVE  /\ wiped' = "no" => wiped = "no" /\ Kept /\ ~half /\ ~half'
         /\ wiped' = "wiped" => wiped \in {"no", "wiped"} /\ off' <= win.first /\ ~half'
         /\ wiped' # "half" => wiped # "half" /\ ~half /\ ~half'
         /\ wiped = "no" /\ UNCHANGED vars => wiped' # "wiped"
<1>1. off' \in Int /\ win.first \in Int
  <2>1. off' \in 0..Slots
    BY DEF IInv, TypeOK
  <2> QED
    BY <2>1, AsksFacts
<1>2. UNCHANGED vars => Kept
  BY DEF vars, flashVars, Kept
<1> QED
  BY <1>1, <1>2 DEF ReaderNext, Watch, ReplyInv

\* The whole of the window is the window.
LEMMA SnapWhole ==
  ASSUME ReplyInv, GrowingInv
  PROVE  /\ SnapTo(win.count) = snap
         /\ DOMAIN snap \subseteq Window /\ Window \subseteq 1..Slots /\ IsFiniteSet(DOMAIN snap)
<1>1. Window \subseteq 1..Slots
  BY AsksFacts DEF Window
<1>2. DOMAIN snap = {k \in Window : flash[k].kind = "rec"} /\ snap = [i \in DOMAIN snap |-> snap[i]]
  BY DEF GrowingInv
<1>3. {k \in DOMAIN snap : k <= win.first + win.count} = DOMAIN snap
  BY <1>2, AsksFacts DEF Window
<1>4. IsFiniteSet(DOMAIN snap)
  <2>1. IsFiniteSet(1..Slots)
    BY FS_Interval, SizesAssumption
  <2>2. DOMAIN snap \subseteq 1..Slots
    BY <1>1, <1>2
  <2> QED
    BY <2>1, <2>2, FS_Subset
<1> QED
  BY <1>1, <1>2, <1>3, <1>4 DEF SnapTo

\* The log goes on past a window that stands.
LEMMA GrowingLog ==
  ASSUME IInv, IInv', OrderInv, ReplyInv, GrowingInv, Log, rd # "idle", rd' # "idle",
         Kept, ~half, ~half'
  PROVE  GrowingInv'
<1>1. UNCHANGED <<rd, win, done, size, reply, snap>> /\ (DrainAppend \/ UNCHANGED <<flash, off, half>>)
  BY LogFacts DEF readVars, flashVars
<1>2. Window' = Window /\ SnapTo(done)' = SnapTo(done)
  BY <1>1 DEF Window, SnapTo
<1>3. \A i \in Window : flash'[i] = flash[i]
  BY SnapWhole DEF GrowingInv, Kept
<1>4. {k \in Window : flash'[k].kind = "rec"} = {k \in Window : flash[k].kind = "rec"}
  BY <1>3
<1>5. snap = [i \in {k \in Window : flash'[k].kind = "rec"} |-> flash'[i]]
  BY <1>3, <1>4 DEF GrowingInv
<1>6. DOMAIN snap = {} \/ win.first + win.count <= off'
  <2>1. off \in Int /\ off' \in Int
    <3>1. off \in 0..Slots /\ off' \in 0..Slots
      BY DEF IInv, TypeOK
    <3> QED
      BY <3>1
  <2>2. CASE UNCHANGED off
    BY <2>2 DEF GrowingInv
  <2>3. CASE DrainAppend
    <3> SUFFICES ASSUME DOMAIN snap # {} PROVE win.first + win.count <= off'
      OBVIOUS
    <3>1. win.first + win.count <= off /\ win.first + win.count \in Int
      BY AsksFacts DEF GrowingInv
    <3>2. PICK k \in Window : flash[k].kind = "rec"
      BY DEF GrowingInv
    <3>3. k \in 1..off
      BY <2>1, <3>1, AsksFacts DEF Window
    <3>4. off <= off'
      BY <2>3, <3>2, <3>3, CursorStays
    <3> QED
      BY <2>1, <3>1, <3>4
  <2> QED
    BY <1>1, <2>2, <2>3
<1> QED
  BY <1>1, <1>2, <1>3, <1>5, <1>6 DEF GrowingInv

\* A bite of a window that stands is the next part of it.
LEMMA GrowingBite ==
  ASSUME IInv, ReplyInv, GrowingInv, ReadBite
  PROVE  GrowingInv'
<1>1. UNCHANGED <<flash, off, rd, win, size, snap>> /\ rd # "sent"
  BY DEF ReadBite, vars, flashVars
<1>2. Window' = Window /\ SnapTo(done)' = SnapTo(done')
  BY <1>1 DEF Window, SnapTo
<1>3. /\ DOMAIN reply' = DOMAIN reply \cup
              {k \in 1..Slots : /\ win.first + done < k /\ k <= win.first + done'
                              /\ k <= off /\ flash[k].kind = "rec"}
      /\ reply' = [i \in DOMAIN reply' |-> IF i \in DOMAIN reply THEN reply[i] ELSE flash[i]]
      /\ done' \in Nat /\ done <= done' /\ done' <= win.count
  BY BiteFacts
<1>4. /\ DOMAIN snap = {k \in Window : flash[k].kind = "rec"}
      /\ \A i \in DOMAIN snap : snap[i] = flash[i]
      /\ reply = SnapTo(done)
      /\ DOMAIN reply = {k \in DOMAIN snap : k <= win.first + done}
      /\ \A i \in DOMAIN reply : reply[i] = flash[i]
  BY DEF GrowingInv, SnapTo
<1>5. ASSUME NEW k \in 1..Slots
      PROVE  k \in DOMAIN reply' <=> k \in DOMAIN snap /\ k <= win.first + done'
  <2>1. /\ win.first \in Nat /\ win.count \in Nat /\ done \in Nat /\ done' \in Nat /\ off \in Int
        /\ done <= done' /\ done' <= win.count
    BY <1>3, AsksFacts, SizesAssumption DEF IInv, TypeOK
  <2>2. k \in Window <=> win.first < k /\ k <= win.first + win.count
    BY <2>1 DEF Window
  <2>3. k \in DOMAIN reply' <=>
          \/ k \in DOMAIN snap /\ k <= win.first + done
          \/ /\ win.first + done < k /\ k <= win.first + done'
             /\ k <= off /\ flash[k].kind = "rec"
    BY <1>3, <1>4
  <2>4. k \in DOMAIN snap <=> k \in Window /\ flash[k].kind = "rec"
    BY <1>4
  <2>5. DOMAIN snap = {} \/ win.first + win.count <= off
    BY DEF GrowingInv
  <2>6. CASE k \in Window
    <3>1. DOMAIN snap = {} => k \notin DOMAIN snap
      OBVIOUS
    <3>2. win.first + win.count <= off => k <= off
      BY <2>1, <2>2, <2>6
    <3>3. flash[k].kind = "rec" => k <= off
      BY <2>4, <2>5, <2>6, <3>1, <3>2
    <3>4. win.first + done < k \/ k <= win.first + done
      BY <2>1
    <3>5. k <= win.first + done => k <= win.first + done'
      BY <2>1
    <3> QED
      BY <2>3, <2>4, <2>6, <3>3, <3>4, <3>5
  <2>7. CASE k \notin Window
    <3>1. ~(win.first + done < k /\ k <= win.first + done')
      BY <2>1, <2>2, <2>7
    <3> QED
      BY <2>3, <2>4, <2>7, <3>1
  <2> QED
    BY <2>6, <2>7
<1>6. DOMAIN reply' = {k \in DOMAIN snap : k <= win.first + done'}
  <2>1. DOMAIN reply' \subseteq 1..Slots /\ DOMAIN snap \subseteq 1..Slots
    BY <1>3, <1>4, SnapWhole
  <2> QED
    BY <1>5, <2>1
<1>7. reply' = SnapTo(done')
  <2>1. \A i \in DOMAIN reply' : (IF i \in DOMAIN reply THEN reply[i] ELSE flash[i]) = snap[i]
    BY <1>4, <1>6
  <2>2. reply' = [i \in DOMAIN reply' |-> snap[i]]
    BY <1>3, <2>1
  <2> QED
    BY <2>2, <1>6 DEF SnapTo
<1> QED
  BY <1>1, <1>2, <1>7 DEF GrowingInv

\* A pass that ends has found the whole window, if it stands.
LEMMA GrowingEnd ==
  ASSUME IInv, ReplyInv, GrowingInv, EndSizing \/ EndEncoding, rd' # "idle"
  PROVE  GrowingInv'
<1>1. UNCHANGED <<flash, off, win, snap>> /\ done >= win.count
  BY DEF EndSizing, EndEncoding, NoReply, vars, flashVars
<1>2. Window' = Window /\ SnapTo(done)' = SnapTo(done')
  BY <1>1 DEF Window, SnapTo
<1>3. done = win.count /\ reply = snap
  BY <1>1, AsksFacts, SnapWhole DEF GrowingInv
<1>4. CASE EndSizing
  <2>1. rd' = "encode" /\ size' = Cardinality(DOMAIN snap) /\ reply' = NoRecords /\ done' = 0
    BY <1>3, <1>4 DEF EndSizing
  <2>2. {k \in DOMAIN snap : k <= win.first + 0} = {}
    BY SnapWhole, AsksFacts DEF Window
  <2>3. SnapTo(0) = NoRecords
    BY <2>2 DEF SnapTo, NoRecords
  <2> QED
    BY <1>1, <1>2, <2>1, <2>3 DEF GrowingInv
<1>5. CASE EndEncoding
  <2>1. rd' = "sent" /\ rd = "encode" /\ UNCHANGED <<done, size, reply>>
    BY <1>5 DEF EndEncoding, NoReply
  <2> QED
    BY <1>1, <1>2, <1>3, <2>1 DEF GrowingInv
<1> QED
  BY <1>4, <1>5

\* The window is taken at the end of the journal.
LEMMA GrowingTake ==
  ASSUME IInv, ReplyInv, TakeWindow, ~half
  PROVE  GrowingInv'
<1> DEFINE n == Least(off, ReplyMax)
<1>1. n \in 0..off /\ off \in 0..Slots /\ Slots \in Nat /\ off - n \in Nat /\ n \in Nat /\ (off - n) + n = off
  BY SizesAssumption, ReplyAssumption DEF IInv, TypeOK, Least
<1>2. /\ win' = [first |-> off - n, count |-> n] /\ rd' = "size"
      /\ snap' = ReadAt(off - n, n) /\ done' = 0 /\ reply' = NoRecords
      /\ UNCHANGED <<flash, off>>
  BY DEF TakeWindow, ReplyInv, vars, flashVars
<1>3. /\ snap' = [i \in DOMAIN snap' |-> flash[i]]
      /\ DOMAIN snap' = {k \in 1..Slots : /\ off - n < k /\ k <= (off - n) + n /\ k <= off
                                         /\ flash[k].kind = "rec"}
  <2>1. off - n \in Nat /\ n \in Nat /\ off \in Nat /\ Slots \in Nat /\ snap' = ReadAt(off - n, n)
    BY <1>1, <1>2
  <2> HIDE DEF n
  <2> QED
    BY <2>1, ReadFacts
<1> HIDE DEF n
<1>4. Window' = off - n + 1 .. off
  BY <1>1, <1>2 DEF Window
<1>5. DOMAIN snap' = {k \in Window' : flash[k].kind = "rec"}
  BY <1>1, <1>3, <1>4
<1>6. \A i \in Window' : flash[i] # Blank
  BY <1>1, <1>4 DEF IInv, FlashInv, Packed
<1>7. SnapTo(done)' = NoRecords
  <2>1. {k \in DOMAIN snap' : k <= win'.first + done'} = {}
    BY <1>1, <1>2, <1>4, <1>5
  <2> QED
    BY <2>1 DEF SnapTo, NoRecords
<1>8. win'.first + win'.count <= off'
  BY <1>1, <1>2
<1>9. snap' = [i \in {k \in Window' : flash'[k].kind = "rec"} |-> flash'[i]]
  BY <1>2, <1>3, <1>5
<1> QED
  BY <1>2, <1>6, <1>7, <1>8, <1>9 DEF GrowingInv

\* Once the journal is erased under a window, what was read of it is all there is.
LEMMA ErasedLog ==
  ASSUME ReplyInv, GrowingInv \/ ErasedInv, Log, rd # "idle", rd' # "idle", off' <= win.first
  PROVE  ErasedInv'
<1>1. UNCHANGED <<rd, win, done, size, reply, snap>>
  BY LogFacts DEF readVars
<1>2. CASE ErasedInv
  BY <1>1, <1>2 DEF ErasedInv
<1>3. CASE GrowingInv
  <2>1. /\ IsFiniteSet(DOMAIN snap) /\ snap = [i \in DOMAIN snap |-> snap[i]]
        /\ SnapTo(win.count) = snap
    BY <1>3, SnapWhole DEF GrowingInv
  <2>2. reply = SnapTo(done) /\ (rd = "sent" => done = win.count)
        /\ (rd \in {"encode", "sent"} => size = Cardinality(DOMAIN snap))
    BY <1>3 DEF GrowingInv
  <2>3. DOMAIN reply \subseteq DOMAIN snap /\ reply = [i \in DOMAIN reply |-> snap[i]]
    BY <2>2 DEF SnapTo
  <2>4. rd = "sent" => reply = snap
    BY <2>1, <2>2
  <2> QED
    BY <1>1, <2>1, <2>2, <2>3, <2>4 DEF ErasedInv
<1> QED
  BY <1>2, <1>3

\* The reader then finds nothing more, and sends a reply that is whole or empty.
LEMMA ErasedReader ==
  ASSUME IInv, ReplyInv, ErasedInv, Reader, rd # "idle", rd' # "idle"
  PROVE  ErasedInv'
<1>1. UNCHANGED <<off, win, snap>>
  BY DEF Reader, TakeWindow, ReadBite, EndSizing, EndEncoding, Sent, NoReply, vars, flashVars
<1>2. CASE ReadBite
  <2>1. rd' = rd /\ size' = size /\ rd # "sent"
    BY <1>2 DEF ReadBite
  <2>2. {k \in 1..Slots : /\ win.first + done < k /\ k <= win.first + done'
                           /\ k <= off /\ flash[k].kind = "rec"} = {}
    <3>1. win.first \in Nat /\ done \in Nat /\ off \in Int /\ off <= win.first
      <4>1. off \in 0..Slots
        BY DEF IInv, TypeOK
      <4> QED
        BY <4>1, AsksFacts DEF ErasedInv
    <3> QED
      BY <3>1
  <2>3. DOMAIN reply' = DOMAIN reply
    BY <1>2, <2>2, BiteFacts
  <2>4. reply' = [i \in DOMAIN reply |-> reply[i]]
    <3>1. reply' = [i \in DOMAIN reply' |-> IF i \in DOMAIN reply THEN reply[i] ELSE flash[i]]
      BY <1>2, BiteFacts
    <3> QED
      BY <2>3, <3>1
  <2>5. reply' = reply
    BY <2>4 DEF ErasedInv
  <2> QED
    BY <1>1, <2>1, <2>5 DEF ErasedInv
<1>3. CASE EndSizing
  <2>1. rd' = "encode" /\ reply' = NoRecords
    BY <1>3 DEF EndSizing
  <2>2. DOMAIN NoRecords = {} /\ NoRecords = [i \in DOMAIN NoRecords |-> snap[i]]
    BY DEF NoRecords
  <2> QED
    BY <1>1, <2>1, <2>2 DEF ErasedInv
<1>4. CASE EndEncoding
  <2>1. rd' = "sent" /\ rd = "encode" /\ UNCHANGED <<size, reply>> /\ Cardinality(DOMAIN reply) = size
    BY <1>4 DEF EndEncoding, NoReply
  <2>2. CASE size = Cardinality(DOMAIN snap)
    <3>1. DOMAIN reply = DOMAIN snap
      BY <2>1, <2>2, FS_Subset DEF ErasedInv
    <3>2. reply = snap
      BY <3>1 DEF ErasedInv
    <3> QED
      BY <1>1, <2>1, <3>2 DEF ErasedInv
  <2>3. CASE reply = NoRecords
    BY <1>1, <2>1, <2>3 DEF ErasedInv
  <2> QED
    BY <2>1, <2>2, <2>3 DEF ErasedInv
<1> QED
  BY <1>2, <1>3, <1>4 DEF Reader, TakeWindow, Sent, NoReply

\* The window stands, or is erased: every step keeps what is known of it.
LEMMA WindowNext ==
  ASSUME IInv, IInv', OrderInv, ReplyInv, WindowInv, ReaderNext
  PROVE  WindowInv'
<1> SUFFICES ASSUME rd' # "idle" PROVE (wiped' = "no" => GrowingInv') /\ (wiped' = "wiped" => ErasedInv')
  BY DEF WindowInv
<1>0. Reader \/ Log
  BY DEF ReaderNext
<1>1. CASE rd = "idle"
  <2>1. TakeWindow
    BY <1>0, <1>1 DEF Reader, ReadBite, EndSizing, EndEncoding, Sent, Log, NoReply, readVars
  <2>2. UNCHANGED vars /\ wiped = "no"
    BY <1>1, <2>1 DEF TakeWindow, ReplyInv
  <2>3. wiped' # "half" => ~half /\ wiped' = "no"
    BY <1>1, <2>2 DEF ReaderNext, Watch, vars, boundVars
  <2> QED
    BY <2>1, <2>3, GrowingTake
<1>2. CASE rd # "idle"
  <2>1. ASSUME wiped' = "no" PROVE GrowingInv'
    <3>1. GrowingInv /\ Kept /\ ~half /\ ~half'
      BY <1>2, <2>1, WatchFacts DEF WindowInv
    <3>2. CASE Log
      BY <1>2, <3>1, <3>2, GrowingLog
    <3>3. CASE Reader
      <4>1. ReadBite \/ EndSizing \/ EndEncoding
        BY <1>2, <3>3 DEF Reader, TakeWindow, Sent, NoReply
      <4> QED
        BY <3>1, <4>1, GrowingBite, GrowingEnd
    <3> QED
      BY <1>0, <3>2, <3>3
  <2>2. ASSUME wiped' = "wiped" PROVE ErasedInv'
    <3>1. wiped \in {"no", "wiped"} /\ off' <= win.first
      BY <1>2, <2>2, WatchFacts
    <3>2. GrowingInv \/ ErasedInv
      BY <1>2, <3>1 DEF WindowInv
    <3>3. CASE Log
      BY <1>2, <3>1, <3>2, <3>3, ErasedLog
    <3>4. CASE Reader
      <4>1. UNCHANGED vars
        BY <3>4, ReaderFacts
      <4>2. wiped = "wiped"
        BY <1>2, <2>2, <3>1, <4>1, WatchFacts
      <4>3. ErasedInv
        BY <1>2, <4>2 DEF WindowInv
      <4> QED
        BY <1>2, <3>4, <4>3, ErasedReader
    <3> QED
      BY <1>0, <3>3, <3>4
  <2> QED
    BY <2>1, <2>2
<1> QED
  BY <1>1, <1>2

\* What is read next happened after what was read so far.
LEMMA OrderedNext ==
  ASSUME IInv, IInv', OrderInv, ReplyInv, ReplyInv', ReadInOrder, ReaderNext, MaxCrashes + 1 < BootMod
  PROVE  ReadInOrder'
<1> SUFFICES ASSUME rd' # "idle", wiped' # "half",
                    NEW i \in DOMAIN reply'
             PROVE  /\ i \in 1..Slots /\ i <= win'.first + done' /\ reply'[i].id \in 0..Told'
                    /\ \A j \in DOMAIN reply' :
                         i < j /\ reply'[i].id # 0 /\ reply'[j].id # 0 => reply'[i].id < reply'[j].id
                    /\ \A j \in 1..Slots :
                         /\ win'.first + done' < j /\ flash'[j].kind = "rec"
                         /\ reply'[i].id # 0 /\ flash'[j].id # 0
                         => reply'[i].id < flash'[j].id
  BY DEF ReadInOrder
<1>0. /\ rd # "idle" => ~half /\ ~half' /\ wiped # "half"
      /\ Reader \/ Log
  BY WatchFacts DEF ReaderNext
<1>1. reply' # NoRecords
  BY DEF NoRecords
<1>2. ~NoReply /\ ~TakeWindow /\ ~EndSizing /\ ~Sent
  BY <1>1 DEF NoReply, TakeWindow, EndSizing, Sent, ReplyInv
<1>3. rd # "idle"
  BY <1>1 DEF ReplyInv, ReaderNext, Reader, TakeWindow, ReadBite, EndSizing, EndEncoding, Sent, Log,
              NoReply, readVars
<1>4. /\ Told \in Nat /\ Told' \in Nat
      /\ \A k \in 1..Slots : flash[k].id \in Nat /\ flash'[k].id \in Nat
      /\ Slots \in Nat /\ win.first \in Nat /\ done \in Nat /\ off \in Nat
  <2>1. (IInv => Told \in Nat)'
    BY ToldFacts, PTL
  <2>2. \A c \in Cells : c.id \in Nat
    BY CellFacts
  <2>3. \A k \in 1..Slots : flash[k] \in Cells /\ flash'[k] \in Cells
    BY DEF IInv, FlashInv
  <2>4. off \in 0..Slots
    BY DEF IInv, TypeOK
  <2> QED
    BY <2>1, <2>2, <2>3, <2>4, ToldFacts, AsksFacts
<1>5. CASE Log
  <2>1. Next /\ UNCHANGED <<rd, win, done, reply>>
    BY <1>3, <1>5, LogFacts DEF readVars
  <2>2. Told <= Told'
    BY <2>1, ToldGrows
  <2>3. /\ i \in 1..Slots /\ i <= win.first + done /\ reply[i].id \in 0..Told
        /\ \A j \in DOMAIN reply :
             i < j /\ reply[i].id # 0 /\ reply[j].id # 0 => reply[i].id < reply[j].id
        /\ \A j \in 1..Slots :
             /\ win.first + done < j /\ flash[j].kind = "rec"
             /\ reply[i].id # 0 /\ flash[j].id # 0
             => reply[i].id < flash[j].id
    BY <1>0, <1>3, <2>1 DEF ReadInOrder
  <2>4. ASSUME NEW j \in 1..Slots, win.first + done < j, flash'[j].kind = "rec",
               reply[i].id # 0, flash'[j].id # 0
        PROVE  reply[i].id < flash'[j].id
    <3>1. flash'[j] = flash[j] \/ Told < flash'[j].id
      BY <1>0, <1>3, <2>1, <2>4, NewRecords
    <3> QED
      BY <1>4, <2>3, <2>4, <3>1
  <2>5. reply[i].id \in 0..Told'
    BY <1>4, <2>2, <2>3
  <2> QED
    BY <2>1, <2>3, <2>4, <2>5
<1>6. CASE ReadBite
  <2>1. UNCHANGED <<vars, win>>
    BY <1>6 DEF ReadBite
  <2>2. UNCHANGED <<flash, half>> /\ Told' = Told
    BY <2>1 DEF vars, flashVars, boundVars, ramVars, drainVars, taskVars, Told, Pushed
  <2>3. /\ DOMAIN reply' = DOMAIN reply \cup
              {k \in 1..Slots : /\ win.first + done < k /\ k <= win.first + done'
                              /\ k <= off /\ flash[k].kind = "rec"}
        /\ reply' = [k \in DOMAIN reply' |-> IF k \in DOMAIN reply THEN reply[k] ELSE flash[k]]
        /\ done' \in Nat /\ done <= done' /\ done' <= win.count
    BY <1>6, BiteFacts
  <2>4. ASSUME NEW j \in DOMAIN reply'
        PROVE  \/ /\ j \in DOMAIN reply /\ reply'[j] = reply[j]
               \/ /\ j \in 1..Slots /\ reply'[j] = flash[j] /\ flash[j].kind = "rec"
                  /\ win.first + done < j /\ j <= win.first + done'
    BY <2>3
  <2>5. \A k \in DOMAIN reply :
          /\ k \in 1..Slots /\ k <= win.first + done /\ reply[k].id \in 0..Told
          /\ \A j \in DOMAIN reply :
               k < j /\ reply[k].id # 0 /\ reply[j].id # 0 => reply[k].id < reply[j].id
          /\ \A j \in 1..Slots :
               /\ win.first + done < j /\ flash[j].kind = "rec"
               /\ reply[k].id # 0 /\ flash[j].id # 0
               => reply[k].id < flash[j].id
    BY <1>0, <1>3 DEF ReadInOrder
  <2>6. \A k, j \in 1..Slots :
          /\ k < j /\ flash[k].kind = "rec" /\ flash[j].kind = "rec"
          /\ flash[k].id # 0 /\ flash[j].id # 0
          => flash[k].id < flash[j].id
    BY <1>0, <1>3 DEF OrderInv, Sorted
  <2>7. \A k \in 1..Slots : flash[k].kind = "rec" => flash[k].id <= Told
    BY <1>0, <1>3 DEF OrderInv
  <2>8. CASE i \in DOMAIN reply /\ reply'[i] = reply[i]
    <3>1. i \in 1..Slots /\ i <= win.first + done'
      <4>1. i \in 1..Slots /\ i <= win.first + done
        BY <2>5, <2>8
      <4> QED
        BY <4>1, <2>3, <1>4
    <3> QED
      BY <1>4, <2>1, <2>2, <2>3, <2>4, <2>5, <2>8, <3>1
  <2>9. CASE /\ i \in 1..Slots /\ reply'[i] = flash[i] /\ flash[i].kind = "rec"
             /\ win.first + done < i /\ i <= win.first + done'
    <3>1. ASSUME NEW j \in DOMAIN reply', i < j, reply'[i].id # 0, reply'[j].id # 0
          PROVE  reply'[i].id < reply'[j].id
      <4>1. CASE j \in DOMAIN reply
        <5>1. j \in 1..Slots /\ j <= win.first + done
          BY <2>5, <4>1
        <5>2. FALSE
          BY <1>4, <2>9, <3>1, <5>1
        <5> QED
          BY <5>2
      <4>2. CASE j \notin DOMAIN reply
        BY <2>4, <2>6, <2>9, <3>1, <4>2
      <4> QED
        BY <4>1, <4>2
    <3>2. \A j \in 1..Slots : win.first + done' < j => i < j
      BY <1>4, <2>3, <2>9
    <3> QED
      BY <1>4, <2>1, <2>2, <2>6, <2>7, <2>9, <3>1, <3>2
  <2> QED
    BY <2>4, <2>8, <2>9
<1>7. CASE EndEncoding
  <2>1. UNCHANGED <<vars, win, done, reply>>
    BY <1>2, <1>7 DEF EndEncoding
  <2>2. UNCHANGED <<flash, half>> /\ Told' = Told
    BY <2>1 DEF vars, flashVars, boundVars, ramVars, drainVars, taskVars, Told, Pushed
  <2> QED
    BY <1>0, <1>3, <2>1, <2>2 DEF ReadInOrder
<1> QED
  BY <1>0, <1>2, <1>5, <1>6, <1>7 DEF Reader

\* A reader is an event log with a page that reads it.
LEMMA ReaderIsLog == ReaderSpec => Spec
<1>1. ReaderInit => Init
  BY DEF ReaderInit
<1>2. [ReaderNext]_rvars => [Next]_vars
  BY ReaderFacts DEF ReaderNext, Log, rvars
<1> QED
  BY <1>1, <1>2, PTL DEF ReaderSpec, Spec

\* The three parts of the invariant hold all along.
LEMMA ReaderInv ==
  ASSUME MaxCrashes + 1 < BootMod
  PROVE  ReaderSpec => [](ReplyInv /\ WindowInv /\ ReadInOrder)
<1>1. ReaderInit => ReplyInv /\ WindowInv /\ ReadInOrder
  <2>1. NoWindow \in [first : 0..Slots, count : 0..Slots] /\ NoWindow.first + NoWindow.count <= Slots
        /\ 0 \in 0..NoWindow.count
    BY SizesAssumption DEF NoWindow
  <2> QED
    BY <2>1 DEF ReaderInit, ReplyInv, WindowInv, ReadInOrder
<1>2. IInv /\ IInv' /\ OrderInv /\ ReplyInv /\ WindowInv /\ ReadInOrder /\ [ReaderNext]_rvars
        => (ReplyInv /\ WindowInv /\ ReadInOrder)'
  <2> SUFFICES ASSUME IInv, IInv', OrderInv, ReplyInv, WindowInv, ReadInOrder, [ReaderNext]_rvars
               PROVE  ReplyInv' /\ WindowInv' /\ ReadInOrder'
    OBVIOUS
  <2>1. CASE ReaderNext
    BY <2>1, ReplyNext, WindowNext, OrderedNext
  <2>2. CASE UNCHANGED rvars
    <3>1. UNCHANGED <<flash, off, half, up, rd, win, done, size, reply, snap, wiped>> /\ Told' = Told
      BY <2>2 DEF rvars, readVars, vars, flashVars, boundVars, ramVars, drainVars, taskVars, Told, Pushed
    <3> QED
      BY <3>1 DEF ReplyInv, WindowInv, GrowingInv, ErasedInv, ReadInOrder, Window, SnapTo
  <2> QED
    BY <2>1, <2>2
<1> QED
  BY <1>1, <1>2, ReaderIsLog, InvHolds, OrderHolds, PTL DEF ReaderSpec

\* A reply that is sent is the window that was taken, or empty, whatever the drain
\* writes or erases between two bites of either pass (webserver.cpp:523-577).
THEOREM WindowSent ==
  ASSUME MaxCrashes + 1 < BootMod
  PROVE  ReaderSpec => []SentIsWindow
<1>1. ReplyInv /\ WindowInv => SentIsWindow
  <2> SUFFICES ASSUME ReplyInv, WindowInv, rd = "sent", wiped \in {"no", "wiped"}
               PROVE  reply \in {snap, NoRecords}
    BY DEF SentIsWindow
  <2>1. CASE wiped = "no"
    <3>1. GrowingInv
      BY <2>1 DEF WindowInv
    <3> QED
      BY <3>1, SnapWhole DEF GrowingInv
  <2>2. CASE wiped = "wiped"
    BY <2>2 DEF WindowInv, ErasedInv
  <2> QED
    BY <2>1, <2>2
<1> QED
  BY <1>1, ReaderInv, PTL

\* A reply tells its events in the order they happened, one whose journal was erased and
\* grew back under it too (evlog.cpp:179-193, webserver.cpp:523-577).
THEOREM SentOrdered ==
  ASSUME MaxCrashes + 1 < BootMod
  PROVE  ReaderSpec => []SentInOrder
<1>1. ReadInOrder => SentInOrder
  BY DEF ReadInOrder, SentInOrder
<1> QED
  BY <1>1, ReaderInv, PTL

===============================================================================
