----------------------------- MODULE RumbleProofs -----------------------------
(***************************************************************************)
(* The mailbox of Rumble, for every number of posts and every interval of  *)
(* the advisor.  Nothing locks it: what makes it right is the order of the *)
(* stores, and the invariant says where each of them is.                   *)
(***************************************************************************)
EXTENDS Rumble, TLAPS

\* The fields are stored in order and the flag last: at each step of the control
\* task every field holds the present post or the one before it.
StoresInOrder ==
  /\ strong = IF ctl = "strong" THEN posts - 1 ELSE posts
  /\ weak = IF ctl \in {"strong", "weak"} THEN posts - 1 ELSE posts
  /\ dur = IF ctl \in Fields THEN posts - 1 ELSE posts
  /\ posted = IF ctl = "idle" THEN posts ELSE posts - 1

\* The Bluetooth task has loaded field f into its locals.
Loaded(f) ==
  \/ bt = "play"
  \/ bt = "dur" /\ f # "dur"
  \/ bt = "weak" /\ f = "strong"

\* While the flag is down nothing was posted since it was last taken, and what
\* was loaded since is no older.
TakenInOrder ==
  /\ oldest <= posted
  /\ ~pending => oldest = posted
  /\ pending => posted > 0
  /\ bt # "idle" => oldest > 0
  /\ \A f \in Fields : Loaded(f) => take[f] >= oldest

\* With the flag down and no post under way, what is loaded is the last post, and
\* so is what was played.
Settled ==
  ~pending /\ ctl = "idle" =>
    /\ \A f \in Fields : Loaded(f) => take[f] = posted
    /\ bt = "idle" => played = [f \in Fields |-> posted]

IInv == TypeOK /\ StoresInOrder /\ TakenInOrder /\ Settled

\* Initially nothing is posted and nothing is played.
LEMMA InitIInv == Init => IInv
<1> SUFFICES ASSUME Init PROVE IInv
  OBVIOUS
<1>0. MaxPosts \in Nat /\ BlockEvery \in Nat
  BY RumbleAssumption
<1>1. TypeOK
  <2>1. Nothing \in [Fields -> 0..MaxPosts]
    BY <1>0 DEF Nothing
  <2>2. take \in [Fields -> 0..MaxPosts] /\ played \in {Nothing} \cup [Fields -> 1..MaxPosts]
    BY <2>1 DEF Init
  <2>3. {armed_prev, estop_prev, pending} \subseteq BOOLEAN
    BY DEF Init
  <2> QED
    BY <1>0, <2>2, <2>3 DEF Init, TypeOK, Fields
<1>2. StoresInOrder /\ TakenInOrder /\ Settled
  BY DEF Init, StoresInOrder, TakenInOrder, Settled, Loaded, Fields, Nothing
<1> QED
  BY <1>1, <1>2 DEF IInv

\* A tick of the advisor begins a post or none.
LEMMA TickIInv == IInv /\ Tick => IInv'
<1> SUFFICES ASSUME IInv, Tick PROVE IInv'
  OBVIOUS
<1>0. MaxPosts \in Nat /\ BlockEvery \in Nat
  BY RumbleAssumption
<1>1. UNCHANGED <<strong, weak, dur, pending, bt, take, played, oldest, posted>>
  BY DEF Tick, mailbox, player
<1>2. \/ ctl' = ctl /\ posts' = posts
      \/ ctl' = "strong" /\ posts' = posts + 1 /\ posts < MaxPosts
  BY DEF Tick
<1>3. ctl = "idle"
  BY DEF Tick
<1>4. armed_prev' \in BOOLEAN /\ estop_prev' \in BOOLEAN /\ kind' \in {"none", "soft", "estop", "block"}
  BY DEF Tick, Advice
<1>5. block' \in 0..(BlockEvery + 1)
  BY <1>0 DEF Tick, IInv, TypeOK
<1>6. TypeOK'
  BY <1>0, <1>1, <1>2, <1>4, <1>5 DEF IInv, TypeOK, Fields
<1>7. StoresInOrder'
  BY <1>0, <1>1, <1>2, <1>3 DEF IInv, TypeOK, StoresInOrder, Fields
<1>8. TakenInOrder' /\ Settled'
  BY <1>1, <1>2, <1>3 DEF IInv, TakenInOrder, Settled, Loaded
<1> QED
  BY <1>6, <1>7, <1>8 DEF IInv

\* A store of the control task; the last one raises the flag.
LEMMA RumblesIInv == IInv /\ Rumbles => IInv'
<1> SUFFICES ASSUME IInv, Rumbles PROVE IInv'
  OBVIOUS
<1>0. MaxPosts \in Nat /\ BlockEvery \in Nat
  BY RumbleAssumption
<1>1. UNCHANGED <<armed_prev, estop_prev, block, kind, bt, take, played, oldest, posts>>
  BY DEF Rumbles, advisor, player
<1>2. \/ ctl = "strong" /\ ctl' = "weak" /\ strong' = posts /\ UNCHANGED <<weak, dur, pending, posted>>
      \/ ctl = "weak" /\ ctl' = "dur" /\ weak' = posts /\ UNCHANGED <<strong, dur, pending, posted>>
      \/ ctl = "dur" /\ ctl' = "flag" /\ dur' = posts /\ UNCHANGED <<strong, weak, pending, posted>>
      \/ ctl = "flag" /\ ctl' = "idle" /\ pending' = TRUE /\ posted' = posts /\ UNCHANGED <<strong, weak, dur>>
  BY DEF Rumbles, Post, Stores, Raises
<1>3. TypeOK'
  BY <1>0, <1>1, <1>2 DEF IInv, TypeOK, Fields
<1>4. StoresInOrder'
  BY <1>0, <1>1, <1>2 DEF IInv, TypeOK, StoresInOrder, Fields
<1>5. TakenInOrder'
  BY <1>0, <1>1, <1>2 DEF IInv, TypeOK, StoresInOrder, TakenInOrder, Loaded, Fields
<1>6. Settled'
  BY <1>2 DEF Settled
<1> QED
  BY <1>3, <1>4, <1>5, <1>6 DEF IInv

\* The exchange of the flag: nothing is loaded yet.
LEMMA TakeFlagIInv == IInv /\ TakeFlag => IInv'
<1> SUFFICES ASSUME IInv, TakeFlag PROVE IInv'
  OBVIOUS
<1>1. UNCHANGED <<advisor, ctl, strong, weak, dur, take, played, posts, posted>>
      /\ pending /\ pending' = FALSE /\ bt' = "strong" /\ oldest' = posted
  BY DEF TakeFlag
<1>2. TypeOK' /\ StoresInOrder'
  BY <1>1 DEF IInv, TypeOK, StoresInOrder, advisor, Fields
<1>3. TakenInOrder' /\ Settled'
  BY <1>1, RumbleAssumption DEF IInv, TypeOK, TakenInOrder, Settled, Loaded
<1> QED
  BY <1>2, <1>3 DEF IInv

\* One load, of the field in its turn: it holds no less than the last post.
LEMMA LoadsIInv ==
  ASSUME NEW f \in Fields, NEW v, NEW next, IInv, Loads(f, v, next),
         \/ f = "strong" /\ v = strong /\ next = "weak"
         \/ f = "weak" /\ v = weak /\ next = "dur"
         \/ f = "dur" /\ v = dur /\ next = "play"
  PROVE  IInv'
<1>0. MaxPosts \in Nat
  BY RumbleAssumption
<1>1. UNCHANGED <<advisor, ctl, mailbox, played, oldest, posts, posted>>
      /\ bt = f /\ bt' = next /\ take' = [take EXCEPT ![f] = v]
  BY DEF Loads
<1>2. v \in posted..MaxPosts /\ (ctl = "idle" => v = posted)
  BY <1>0 DEF IInv, TypeOK, StoresInOrder, Fields
<1>3. TypeOK'
  BY <1>0, <1>1, <1>2 DEF IInv, TypeOK, advisor, mailbox, Fields
<1>4. StoresInOrder'
  BY <1>1 DEF IInv, StoresInOrder, mailbox, Fields
<1>5. \A g \in Fields : Loaded(g)' => g = f \/ Loaded(g)
  BY <1>1 DEF Loaded, Fields
<1>6. \A g \in Fields : take'[g] = IF g = f THEN v ELSE take[g]
  BY <1>1 DEF IInv, TypeOK
<1>7. TakenInOrder'
  BY <1>0, <1>1, <1>2, <1>5, <1>6 DEF IInv, TypeOK, TakenInOrder, mailbox, Fields
<1>8. Settled'
  BY <1>1, <1>2, <1>5, <1>6 DEF IInv, Settled, mailbox, Fields
<1> QED
  BY <1>3, <1>4, <1>7, <1>8 DEF IInv

\* What is played was loaded whole.
LEMMA PlayIInv == IInv /\ Play => IInv'
<1> SUFFICES ASSUME IInv, Play PROVE IInv'
  OBVIOUS
<1>0. MaxPosts \in Nat
  BY RumbleAssumption
<1>1. UNCHANGED <<advisor, ctl, mailbox, oldest, posts, posted>>
      /\ bt = "play" /\ bt' = "idle" /\ played' = take /\ take' = Nothing
  BY DEF Play
<1>2. \A f \in Fields : take[f] \in 1..MaxPosts
  BY <1>0, <1>1 DEF IInv, TypeOK, TakenInOrder, Loaded
<1>3. take \in [Fields -> 1..MaxPosts]
  BY <1>2 DEF IInv, TypeOK
<1>4. TypeOK'
  BY <1>0, <1>1, <1>3 DEF IInv, TypeOK, advisor, mailbox, Fields, Nothing
<1>5. StoresInOrder' /\ TakenInOrder'
  BY <1>1 DEF IInv, StoresInOrder, TakenInOrder, Loaded, mailbox, Fields
<1>6. ~pending /\ ctl = "idle" => take = [f \in Fields |-> posted]
  BY <1>1, <1>3 DEF IInv, Settled, Loaded
<1>7. Settled'
  BY <1>1, <1>6 DEF Settled, Loaded, mailbox
<1> QED
  BY <1>4, <1>5, <1>7 DEF IInv

\* Every step keeps the invariant.
LEMMA NextIInv == IInv /\ [Next]_vars => IInv'
<1> SUFFICES ASSUME IInv, [Next]_vars PROVE IInv'
  OBVIOUS
<1>1. CASE Tick
  BY <1>1, TickIInv
<1>2. CASE Rumbles
  BY <1>2, RumblesIInv
<1>3. CASE TakeFlag
  BY <1>3, TakeFlagIInv
<1>4. CASE Loads("strong", strong, "weak")
  BY <1>4, LoadsIInv DEF Fields
<1>5. CASE Loads("weak", weak, "dur")
  BY <1>5, LoadsIInv DEF Fields
<1>6. CASE Loads("dur", dur, "play")
  BY <1>6, LoadsIInv DEF Fields
<1>7. CASE Play
  BY <1>7, PlayIInv
<1>8. CASE UNCHANGED vars
  BY <1>8 DEF IInv, TypeOK, StoresInOrder, TakenInOrder, Settled, Loaded, vars, advisor, mailbox, player
<1> QED
  BY <1>1, <1>2, <1>3, <1>4, <1>5, <1>6, <1>7, <1>8 DEF Next, Plays

\* The invariant of the mailbox.
LEMMA Invariant == Spec => []IInv
  BY InitIInv, NextIInv, PTL DEF Spec

\* Every variable stays in its set, and nothing is played that nobody posted.
THEOREM TypeCorrect == Spec => []TypeOK
<1>1. IInv => TypeOK
  BY DEF IInv
<1> QED
  BY <1>1, Invariant, PTL

\* A torn rumble has no piece older than the post that was taken (input.cpp:211-227).
THEOREM NeverOlder == Spec => []PiecesNeverOlder
<1>1. IInv => PiecesNeverOlder
  BY DEF IInv, TakenInOrder, Loaded, PiecesNeverOlder
<1> QED
  BY <1>1, Invariant, PTL

\* The last rumble posted is the last one played, whole (input.cpp:216, 222).
THEOREM LastWhole == Spec => []LastIsPlayedWhole
<1>1. IInv => LastIsPlayedWhole
  BY DEF IInv, Settled, LastIsPlayedWhole
<1> QED
  BY <1>1, Invariant, PTL

\* No arming and no e-stop goes unfelt (advisors.hpp:40-50).
THEOREM EdgesFelt == Spec => EdgesAreFelt
<1> DEFINE Felt == /\ ~armed_prev /\ armed_prev' => kind' = "soft"
                   /\ ~estop_prev /\ estop_prev' => kind' \in {"estop", "block"}
<1>1. IInv /\ [Next]_vars => [Felt]_vars
  <2> SUFFICES ASSUME IInv, Next PROVE Felt
    OBVIOUS
  <2>1. CASE Tick
    BY <2>1 DEF Tick, Said, Advice, Blocked
  <2>2. CASE UNCHANGED <<armed_prev, estop_prev>>
    BY <2>2 DEF IInv, TypeOK
  <2> QED
    BY <2>1, <2>2 DEF Next, Rumbles, TakeFlag, Plays, Loads, Play, advisor
<1> QED
  BY <1>1, Invariant, PTL DEF Spec, EdgesAreFelt
===============================================================================
