------------------------------ MODULE PetCare ------------------------------
(***************************************************************************)
(* The pet's meters, streak and achievements (app/companion/life.py, the   *)
(* Postgres store of app/db/sqlalchemy_repo.py, CompanionHub.credit and    *)
(* unlock, and the care loop of app/main.py).                              *)
(*                                                                         *)
(* A touch - a pet, a chat, a game, a voice turn - reads the robot's care  *)
(* row, computes the new one at once, and writes back the columns that     *)
(* differ from what it read; dashboards, the voice turn and the care loop  *)
(* do so concurrently, without a lock.  The first row is an INSERT that    *)
(* the unique key may refuse.  Time is counted in ticks, TicksPerDay to a  *)
(* local day; a robot is neglected after Neglect ticks.                    *)
(***************************************************************************)
EXTENDS Naturals, FiniteSets

CONSTANTS
    MaxTouches,   \* bound: requests that read or touch the pet, one credit or get_care each
    Kinds,        \* the kinds of touch that come, of those CareDelta knows
    TicksPerDay,  \* bound: ticks of a local day
    Neglect,      \* NEGLECT_BEFORE_DECAY, in ticks
    BondNeglect,  \* BOND_NEGLECT, in ticks
    LastTick,     \* bound: the clock's last tick
    MaxDecays     \* bound: rounds of the care loop

ASSUME CareAssumption ==
    /\ MaxTouches \in Nat /\ LastTick \in Nat /\ MaxDecays \in Nat
    /\ TicksPerDay \in Nat \ {0} /\ Neglect \in Nat /\ BondNeglect \in Nat

MeterMax == 100

Touches == 1..MaxTouches    \* in the order they arrive

VARIABLES
    care,         \* the row, NoRow when there is none yet
    touch,        \* the requests: what each read and is about to write
    decay,        \* the care loop's round
    codes,        \* the table of achievements
    now,          \* the clock
    days,         \* the local days on which a touch was made
    overtaken     \* history: a touch has committed over one of a later day

careVars == <<care, touch, decay, codes, now, days, overtaken>>

NoRow == [exists |-> FALSE, happiness |-> 55, energy |-> 70, bond |-> 30, streak |-> 0,
          chats |-> 0, touched |-> 0, streakOn |-> 0, updated |-> 0]

Today == now \div TicksPerDay

\* A request that holds no row: what it has yet to unlock.
Resting(phase, gain) == [phase |-> phase, kind |-> "none", base |-> NoRow, next |-> NoRow,
                         gain |-> gain]

\* Day 0 and the days before are the past; a row may be new or that of a well kept pet.
CareInit ==
    /\ now = 2 * TicksPerDay
    /\ \/ care = NoRow /\ days = {}
       \/ /\ care = [NoRow EXCEPT !.exists = TRUE, !.happiness = 98, !.energy = 3, !.bond = 99,
                                  !.streak = 2, !.chats = 2, !.touched = TicksPerDay,
                                  !.streakOn = 1, !.updated = TicksPerDay]
          /\ days = {0, 1}
    /\ touch = [t \in Touches |-> Resting("new", {})]
    /\ decay = [phase |-> "sleep", base |-> NoRow, next |-> NoRow, left |-> MaxDecays]
    /\ codes = {} /\ overtaken = FALSE

---------------------------------------------------------------------------
(* life.py *)

\* clamp_meter of a value and what is added to or taken from it.
Raise(value, by) == IF value + by > MeterMax THEN MeterMax ELSE value + by
Lower(value, by) == IF value < by THEN 0 ELSE value - by

\* _CARE_DELTA applied to the three meters.
Meters(row, kind) ==
    CASE kind = "pet"    -> [row EXCEPT !.happiness = Raise(@, 8), !.bond = Raise(@, 3)]
      [] kind = "pickup" -> [row EXCEPT !.happiness = Raise(@, 3), !.bond = Raise(@, 2)]
      [] kind = "feed"   -> [row EXCEPT !.happiness = Raise(@, 4)]
      [] kind = "chat"   -> [row EXCEPT !.happiness = Raise(@, 3), !.bond = Raise(@, 1)]
      [] kind = "voice"  -> [row EXCEPT !.bond = Raise(@, 1)]
      [] kind = "game"   -> [row EXCEPT !.happiness = Raise(@, 5), !.bond = Raise(@, 1)]
      [] kind = "dance"  -> [row EXCEPT !.happiness = Raise(@, 3), !.energy = Lower(@, 6)]
      [] kind = "sleep"  -> [row EXCEPT !.energy = Raise(@, 18)]
      [] kind = "decay"  -> [row EXCEPT !.happiness = Lower(@, 2), !.energy = Lower(@, 1)]
      [] OTHER           -> row

\* A bug: every touch counts as a day of the streak.
StreakEveryTouch(row) ==
    [row EXCEPT !.streak = IF row.streakOn + 1 >= Today /\ @ > 0 THEN @ + 1 ELSE 1,
                !.streakOn = Today]

\* _touch_streak (days start at 1: streakOn is 0 for None).
Streak(row) ==
    IF row.streakOn = Today THEN row
    ELSE [row EXCEPT !.streak = IF row.streakOn + 1 = Today /\ row.streakOn > 0 THEN @ + 1 ELSE 1,
                     !.streakOn = Today]

\* apply_care of a touch.
Touched(row, kind) ==
    [Streak(Meters(row, kind)) EXCEPT !.chats = IF kind = "chat" THEN @ + 1 ELSE @,
                                      !.touched = now, !.updated = now]

\* should_decay: since the last touch or, when there was none, the last update.
LastSeen(row) == IF row.touched > 0 THEN row.touched ELSE row.updated

Neglected(row) == now >= LastSeen(row) + Neglect

\* decay_care: the bond too, after a whole day.
Decayed(row) ==
    IF ~Neglected(row) THEN row
    ELSE LET worn == [Meters(row, "decay") EXCEPT !.updated = now] IN
         IF row.touched > 0 /\ now >= row.touched + BondNeglect
         THEN [worn EXCEPT !.bond = Lower(@, 1)] ELSE worn

\* decay_all writes only what has lost something.
Worn(row) == \E meter \in {"happiness", "energy", "bond"} : Decayed(row)[meter] # row[meter]

---------------------------------------------------------------------------
(* The store and the hub. *)

\* The columns of next that differ from base, written over the row of now.
Written(row, base, next) ==
    [f \in DOMAIN row |-> IF next[f] # base[f] THEN next[f] ELSE row[f]]

\* The SELECT of apply_care, or of get_care ("look"), and the new row computed at once.
TouchRead(t) ==
    /\ touch[t].phase = "new" /\ \A u \in 1..(t - 1) : touch[u].phase # "new"
    /\ \E kind \in Kinds \cup {"look"} :
         /\ kind = "look" => ~care.exists
         /\ touch' = [touch EXCEPT ![t] =
                [phase |-> "write", kind |-> kind, base |-> care, gain |-> {},
                 next |-> [IF kind = "look" THEN [care EXCEPT !.updated = now]
                           ELSE Touched(care, kind) EXCEPT !.exists = TRUE]]]
         /\ days' = IF kind = "look" THEN days ELSE days \cup {Today}
    /\ UNCHANGED <<care, decay, codes, now, overtaken>>

\* The achievement a touch that has been credited unlocks.
Earned(kind, row) ==
    CASE kind = "pet" -> {"first_pet"}
      [] kind = "chat" /\ row.chats >= 3 -> {"chat_streak_3"}
      [] OTHER -> {}

\* The commit: an UPDATE, an INSERT, or an INSERT that finds the row already there and
\* raises through credit.
TouchWrite(t) ==
    LET base == touch[t].base  next == touch[t].next IN
    /\ touch[t].phase = "write"
    /\ IF ~base.exists /\ care.exists
       THEN touch' = [touch EXCEPT ![t] = Resting("over", {})] /\ UNCHANGED care
       ELSE LET gain == Earned(touch[t].kind, care') IN
            /\ care' = IF base.exists THEN Written(care, base, next) ELSE next
            /\ touch' = [touch EXCEPT ![t] = Resting(IF gain = {} THEN "over" ELSE "unlock", gain)]
    /\ overtaken' = (overtaken \/ (base.exists /\ care.streakOn > next.streakOn))
    /\ UNCHANGED <<decay, codes, now, days>>

\* unlock_achievement: the unique key refuses a second INSERT; the first is broadcast.
Unlock(t) ==
    /\ touch[t].phase = "unlock"
    /\ codes' = codes \cup touch[t].gain
    /\ touch' = [touch EXCEPT ![t] = Resting("over", {})]
    /\ UNCHANGED <<care, decay, now, days, overtaken>>

\* decay_all reads every row and computes what has changed.
DecayRead ==
    /\ decay.phase = "sleep" /\ decay.left > 0
    /\ decay' = IF care.exists /\ Worn(care)
                THEN [phase |-> "write", base |-> care, next |-> Decayed(care), left |-> decay.left - 1]
                ELSE [decay EXCEPT !.left = @ - 1]
    /\ UNCHANGED <<care, touch, codes, now, days, overtaken>>

\* A bug: the round writes back the whole row it read.
DecayWriteAll ==
    /\ decay.phase = "write"
    /\ care' = decay.next
    /\ decay' = [decay EXCEPT !.phase = "sleep", !.base = NoRow, !.next = NoRow]
    /\ UNCHANGED <<touch, codes, now, days, overtaken>>

\* The commit of decay_all: the meters and the stamp only.
DecayWrite ==
    /\ decay.phase = "write"
    /\ care' = Written(care, decay.base, decay.next)
    /\ decay' = [decay EXCEPT !.phase = "sleep", !.base = NoRow, !.next = NoRow]
    /\ UNCHANGED <<touch, codes, now, days, overtaken>>

\* A transaction does not last into the day after the next.
CareTick ==
    /\ now < LastTick
    /\ \A t \in Touches : touch[t].phase = "write" =>
           (now + 1) \div TicksPerDay <= touch[t].next.updated \div TicksPerDay + 1
    /\ now' = now + 1
    /\ UNCHANGED <<care, touch, decay, codes, days, overtaken>>

CareNext ==
    \/ \E t \in Touches : TouchRead(t) \/ TouchWrite(t) \/ Unlock(t)
    \/ DecayRead \/ DecayWrite
    \/ CareTick

CareSpec == CareInit /\ [][CareNext]_careVars

---------------------------------------------------------------------------
(* Properties *)

\* The streak the dashboard shows is earned: the robot was touched on each of that many
\* days in a row, the last of them streakOn - whatever touches overlapped each other, the
\* care loop or midnight.  (An overlap may lose days; it makes one up only when a touch
\* commits after one of a later day has: its UPDATE then takes back the day, and leaves
\* the count if that is what it had read.)
StreakIsEarned ==
    ~overtaken => \A back \in 0..3 : back < care.streak => care.streakOn - back \in days

\* The care loop never takes back what a touch that committed during its round has
\* recorded: the time of the touch, the streak and the count of chats.  (The meters it
\* may overwrite: the code does not prevent that.)
TouchSurvivesDecay ==
    [][decay.phase = "write" /\ decay'.phase = "sleep" =>
        /\ care'.touched = care.touched /\ care'.chats = care.chats
        /\ care'.streak = care.streak /\ care'.streakOn = care.streakOn]_careVars
============================================================================
