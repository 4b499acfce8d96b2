-------------------------------- MODULE Rumble --------------------------------
(***************************************************************************)
(* Haptic feedback (advisors.hpp, input.cpp, input_bp32.c): the advisor of *)
(* the control task turns a tick into at most one rumble and posts it in a *)
(* mailbox of three fields and a flag, all atomics without a lock; the     *)
(* Bluetooth task takes it while it handles a report.  The tasks run on    *)
(* two cores: every load and every store is a step.                        *)
(*                                                                         *)
(* A field holds the number of the post that wrote it, 0 before any.  What *)
(* is posted is one of the three kinds of rumble, told apart by all three  *)
(* fields.  The gamepad reports whenever it likes, or never again.         *)
(***************************************************************************)
EXTENDS Integers

CONSTANT BlockEvery   \* RUMBLE_BLOCK_INTERVAL_US, in ticks
CONSTANT MaxPosts     \* bound: rumbles posted in all

ASSUME RumbleAssumption == BlockEvery \in Nat /\ MaxPosts \in Nat

VARIABLES
  armed_prev, estop_prev,  \* RumbleAdvisor's m_armed_prev, m_estop_prev
  block,                   \* now less m_block_us, up to BlockEvery + 1
  ctl, kind,               \* the control task's next step; the rumble it posts
  strong, weak, dur,       \* m_rumble_strong, m_rumble_weak, m_rumble_dur
  pending,                 \* m_rumble_pending
  bt, take,                \* the Bluetooth task's next step; its three locals
  played,                  \* external: the rumble the gamepad was last told to play
  posts, posted,           \* history: posts begun; the last one to raise the flag
  oldest                   \* history: posted, when the flag was last taken

advisor == <<armed_prev, estop_prev, block, kind>>
mailbox == <<strong, weak, dur, pending>>
player  == <<bt, take, played, oldest>>
vars == <<advisor, ctl, mailbox, player, posts, posted>>

Fields  == {"strong", "weak", "dur"}
Nothing == [f \in Fields |-> 0]

-----------------------------------------------------------------------------
(* The control task: RumbleAdvisor::update(), then input::rumble() *)

\* What the core's telemetry and its inputs say together: armed only in Run, and
\* Run only with no e-stop (KartController).
Said(armed, run, estop) == (armed => run) /\ (run => ~estop)

\* Mutant: the kart can be driven if it was armed on the tick before.
BlockedByLast(run, pushing) == pushing /\ ~armed_prev /\ block > BlockEvery

Blocked(run, pushing) == pushing /\ ~run /\ block > BlockEvery

\* update(): three causes, the last one that applies is the rumble.
Advice(armed, run, estop, pushing) ==
  IF Blocked(run, pushing) THEN "block"
  ELSE IF estop /\ ~estop_prev THEN "estop"
  ELSE IF armed /\ ~armed_prev THEN "soft"
  ELSE "none"

Tick ==
  /\ ctl = "idle"
  /\ \E armed, run, estop, pushing \in BOOLEAN :
       /\ Said(armed, run, estop)
       /\ armed_prev' = armed /\ estop_prev' = estop
       /\ block' = IF Blocked(run, pushing) THEN 0
                   ELSE IF block > BlockEvery THEN block ELSE block + 1
       /\ kind' = Advice(armed, run, estop, pushing)
  /\ IF kind' = "none"
     THEN UNCHANGED <<ctl, posts>>
     ELSE posts < MaxPosts /\ ctl' = "strong" /\ posts' = posts + 1
  /\ UNCHANGED <<mailbox, player, posted>>

Stores(step, next, field) == ctl = step /\ ctl' = next /\ field' = posts

Raises(step, next) == ctl = step /\ ctl' = next /\ pending' = TRUE /\ posted' = posts

\* Mutant: the flag is stored first.
PostFlagFirst ==
  \/ Raises("strong", "weak") /\ UNCHANGED <<strong, weak, dur>>
  \/ Stores("weak", "dur", strong) /\ UNCHANGED <<weak, dur, pending, posted>>
  \/ Stores("dur", "flag", weak) /\ UNCHANGED <<strong, dur, pending, posted>>
  \/ Stores("flag", "idle", dur) /\ UNCHANGED <<strong, weak, pending, posted>>

\* input::rumble(): the flag is stored last.
Post ==
  \/ Stores("strong", "weak", strong) /\ UNCHANGED <<weak, dur, pending, posted>>
  \/ Stores("weak", "dur", weak) /\ UNCHANGED <<strong, dur, pending, posted>>
  \/ Stores("dur", "flag", dur) /\ UNCHANGED <<strong, weak, pending, posted>>
  \/ Raises("flag", "idle") /\ UNCHANGED <<strong, weak, dur>>

Rumbles == Post /\ UNCHANGED <<advisor, player, posts>>

-----------------------------------------------------------------------------
(* The Bluetooth task: plat_on_controller_data(), inputbp_take_rumble() *)

\* Exchanged: taken and cleared in one step.
TakeFlag ==
  /\ bt = "idle" /\ pending
  /\ pending' = FALSE
  /\ bt' = "strong" /\ oldest' = posted
  /\ UNCHANGED <<advisor, ctl, strong, weak, dur, take, played, posts, posted>>

Loads(field, value, next) ==
  /\ bt = field /\ bt' = next
  /\ take' = [take EXCEPT ![field] = value]
  /\ UNCHANGED <<advisor, ctl, mailbox, played, oldest, posts, posted>>

\* Mutant: the flag is cleared here.
PlayClears ==
  /\ bt = "play" /\ bt' = "idle"
  /\ played' = take /\ take' = Nothing
  /\ pending' = FALSE
  /\ UNCHANGED <<advisor, ctl, strong, weak, dur, oldest, posts, posted>>

\* play_dual_rumble
Play ==
  /\ bt = "play" /\ bt' = "idle"
  /\ played' = take /\ take' = Nothing
  /\ UNCHANGED <<advisor, ctl, mailbox, oldest, posts, posted>>

Plays ==
  \/ Loads("strong", strong, "weak") \/ Loads("weak", weak, "dur") \/ Loads("dur", dur, "play")
  \/ Play

-----------------------------------------------------------------------------
Init ==
  /\ armed_prev = FALSE /\ estop_prev = FALSE
  /\ block \in 0..(BlockEvery + 1)      \* zero stamp: the time since boot
  /\ ctl = "idle" /\ kind = "none"
  /\ strong = 0 /\ weak = 0 /\ dur = 0 /\ pending = FALSE
  /\ bt = "idle" /\ take = Nothing /\ played = Nothing
  /\ posts = 0 /\ posted = 0 /\ oldest = 0

Next == Tick \/ Rumbles \/ TakeFlag \/ Plays

Spec == Init /\ [][Next]_vars

-----------------------------------------------------------------------------
(* Properties *)

\* Every variable stays in its set, and nothing is played that nobody posted.
TypeOK ==
  /\ {armed_prev, estop_prev, pending} \subseteq BOOLEAN
  /\ block \in 0..(BlockEvery + 1)
  /\ ctl \in {"idle", "flag"} \cup Fields /\ kind \in {"none", "soft", "estop", "block"}
  /\ bt \in {"idle", "play"} \cup Fields
  /\ {strong, weak, dur, posts, posted, oldest} \subseteq 0..MaxPosts
  /\ take \in [Fields -> 0..MaxPosts]
  /\ played \in {Nothing} \cup [Fields -> 1..MaxPosts]

\* A rumble that was posted over another while that one was being taken may be
\* played in pieces, but none of them older than the post that was taken
\* (input.cpp:211-227).
PiecesNeverOlder == bt = "play" => \A f \in Fields : take[f] >= oldest

\* Once both tasks are done and the flag is down, the last rumble posted is the
\* last one played, whole: what was torn is played again (input.cpp:216, 222).
LastIsPlayedWhole ==
  ctl = "idle" /\ bt = "idle" /\ ~pending => played = [f \in Fields |-> posted]

\* Arming is felt as itself, whatever the stick says; an e-stop is felt, be it as
\* the rumble of a stick pushed in vain (advisors.hpp:40-50).
EdgesAreFelt ==
  [][ /\ ~armed_prev /\ armed_prev' => kind' = "soft"
      /\ ~estop_prev /\ estop_prev' => kind' \in {"estop", "block"} ]_vars
===============================================================================
