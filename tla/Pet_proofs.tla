----------------------------- MODULE Pet_proofs -----------------------------
(***************************************************************************)
(* The pet's row and its dashboards, for any number of touches, rounds of  *)
(* the care loop, screens and broadcasts.                                  *)
(***************************************************************************)
EXTENDS PetCare, Dashboards, TLAPS

(* PetCare: the row is read, computed on and written back column by column. *)

CareRow == [exists : BOOLEAN, happiness : 0..MeterMax, energy : 0..MeterMax, bond : 0..MeterMax,
            streak : Nat, chats : Nat, touched : Nat, streakOn : Nat, updated : Nat]

Touch == [phase : {"new", "write", "unlock", "over"}, kind : Kinds \cup {"look", "none"},
          base : CareRow, next : CareRow, gain : SUBSET {"first_pet", "chat_streak_3"}]

Round == [phase : {"sleep", "write"}, base : CareRow, next : CareRow, left : 0..MaxDecays]

CareTypeOK ==
    /\ care \in CareRow /\ touch \in [Touches -> Touch] /\ decay \in Round
    /\ now \in Nat /\ days \subseteq Nat /\ overtaken \in BOOLEAN

\* Every day the row counts was one of a touch.
Counted(row) == \A back \in Nat : back < row.streak => row.streakOn - back \in days

\* A round of the care loop has only worn the meters.
RoundInv ==
    decay.phase = "write" =>
        /\ decay.next.exists = decay.base.exists
        /\ decay.next.touched = decay.base.touched /\ decay.next.chats = decay.base.chats
        /\ decay.next.streak = decay.base.streak /\ decay.next.streakOn = decay.base.streakOn

Day(row) == row.updated \div TicksPerDay

Writing(t) == touch[t].phase = "write"

\* Whatever it is going to write, it read today or yesterday, and no day of the row's was
\* past it; if it keeps the count it read, the row has that one still, or is of a day
\* that its own day follows.
TouchInv(t) ==
    LET base == touch[t].base  next == touch[t].next IN
    Writing(t) =>
        /\ Day(next) <= Today /\ Today <= Day(next) + 1
        /\ Counted(next) /\ next.exists
        /\ base.exists =>
             /\ care.exists /\ base.streakOn <= care.streakOn
             /\ next.streakOn = Day(next) /\ Day(next) \in days
             /\ next.streakOn = base.streakOn \/ next.streak # base.streak \/ next.streak = 1
             /\ care.streak = base.streak \/ care.streakOn + 1 >= Day(next)

StreakInv ==
    /\ Counted(care)
    /\ ~care.exists => care.streak = 0 /\ care.streakOn = 0
    /\ \A t \in Touches : TouchInv(t)

CareInv == CareTypeOK /\ RoundInv /\ (~overtaken => StreakInv)

-----------------------------------------------------------------------------
\* What an UPDATE leaves in the row: a row again, each column old or new.
LEMMA WrittenRow ==
  ASSUME NEW row \in CareRow, NEW base \in CareRow, NEW next \in CareRow
  PROVE  LET w == Written(row, base, next) IN
         /\ w \in CareRow
         /\ w.exists = IF next.exists # base.exists THEN next.exists ELSE row.exists
         /\ w.touched = IF next.touched # base.touched THEN next.touched ELSE row.touched
         /\ w.chats = IF next.chats # base.chats THEN next.chats ELSE row.chats
         /\ w.streak = IF next.streak # base.streak THEN next.streak ELSE row.streak
         /\ w.streakOn = IF next.streakOn # base.streakOn THEN next.streakOn ELSE row.streakOn
<1>1. DOMAIN row = {"exists", "happiness", "energy", "bond", "streak", "chats", "touched", "streakOn", "updated"}
  BY DEF CareRow
<1>2. Written(row, base, next) =
        [exists |-> IF next.exists # base.exists THEN next.exists ELSE row.exists,
         happiness |-> IF next.happiness # base.happiness THEN next.happiness ELSE row.happiness,
         energy |-> IF next.energy # base.energy THEN next.energy ELSE row.energy,
         bond |-> IF next.bond # base.bond THEN next.bond ELSE row.bond,
         streak |-> IF next.streak # base.streak THEN next.streak ELSE row.streak,
         chats |-> IF next.chats # base.chats THEN next.chats ELSE row.chats,
         touched |-> IF next.touched # base.touched THEN next.touched ELSE row.touched,
         streakOn |-> IF next.streakOn # base.streakOn THEN next.streakOn ELSE row.streakOn,
         updated |-> IF next.updated # base.updated THEN next.updated ELSE row.updated]
  BY <1>1 DEF Written
<1> QED BY <1>2 DEF CareRow

\* clamp_meter keeps a meter within its range.
LEMMA Clamped ==
  ASSUME NEW value \in 0..MeterMax, NEW by \in Nat
  PROVE  Raise(value, by) \in 0..MeterMax /\ Lower(value, by) \in 0..MeterMax
  BY DEF Raise, Lower, MeterMax

\* A kind of touch moves the meters only.
LEMMA MetersRow ==
  ASSUME NEW row \in CareRow, NEW kind
  PROVE  LET m == Meters(row, kind) IN
         /\ m \in CareRow /\ m.exists = row.exists /\ m.streak = row.streak /\ m.chats = row.chats
         /\ m.touched = row.touched /\ m.streakOn = row.streakOn
<1> DEFINE Worse(m) == /\ m \in CareRow /\ m.exists = row.exists /\ m.streak = row.streak /\ m.chats = row.chats
                       /\ m.touched = row.touched /\ m.streakOn = row.streakOn
<1>1. ASSUME NEW h \in 0..MeterMax, NEW e \in 0..MeterMax, NEW b \in 0..MeterMax
      PROVE  /\ Worse([row EXCEPT !.happiness = h, !.bond = b]) /\ Worse([row EXCEPT !.happiness = h])
             /\ Worse([row EXCEPT !.bond = b]) /\ Worse([row EXCEPT !.energy = e])
             /\ Worse([row EXCEPT !.happiness = h, !.energy = e])
  BY DEF CareRow
<1>2. \A by \in Nat : /\ Raise(row.happiness, by) \in 0..MeterMax /\ Raise(row.energy, by) \in 0..MeterMax
                      /\ Raise(row.bond, by) \in 0..MeterMax /\ Lower(row.happiness, by) \in 0..MeterMax
                      /\ Lower(row.energy, by) \in 0..MeterMax
  BY Clamped DEF CareRow
<1> HIDE DEF Worse
<1>3. Worse(row)
  BY DEF Worse
<1>4. Worse(Meters(row, kind))
  BY <1>1, <1>2, <1>3 DEF Meters
<1> QED BY <1>4 DEF Worse

LEMMA TodayIsNat == now \in Nat => Today \in Nat
  BY CareAssumption DEF Today

\* apply_care: the streak goes on from yesterday, stays today, or begins again.
LEMMA TouchedRow ==
  ASSUME NEW row \in CareRow, NEW kind, now \in Nat
  PROVE  LET n == Touched(row, kind) IN
         /\ n \in CareRow /\ n.exists = row.exists /\ n.updated = now /\ n.streakOn = Today
         /\ n.streak = IF row.streakOn = Today THEN row.streak
                       ELSE IF row.streakOn + 1 = Today /\ row.streakOn > 0 THEN row.streak + 1 ELSE 1
<1> DEFINE m == Meters(row, kind)
           s == Streak(m)
<1>1. /\ m \in CareRow /\ m.exists = row.exists /\ m.streak = row.streak /\ m.streakOn = row.streakOn
  BY MetersRow
<1> HIDE DEF m
<1>2. /\ s \in CareRow /\ s.exists = m.exists /\ s.streakOn = Today
      /\ s.streak = IF m.streakOn = Today THEN m.streak
                    ELSE IF m.streakOn + 1 = Today /\ m.streakOn > 0 THEN m.streak + 1 ELSE 1
  <2>1. CASE m.streakOn = Today
    BY <1>1, <2>1 DEF Streak
  <2>2. CASE m.streakOn # Today
    <3> DEFINE k == IF m.streakOn + 1 = Today /\ m.streakOn > 0 THEN m.streak + 1 ELSE 1
    <3>1. k \in Nat /\ s = [m EXCEPT !.streak = k, !.streakOn = Today]
      BY <1>1, <2>2 DEF Streak, CareRow
    <3> HIDE DEF k
    <3>2. s \in CareRow /\ s.exists = m.exists /\ s.streakOn = Today /\ s.streak = k
      BY <1>1, <3>1, TodayIsNat DEF CareRow
    <3> QED BY <2>2, <3>2 DEF k
  <2> QED BY <2>1, <2>2
<1> HIDE DEF s
<1>3. Touched(row, kind) = [s EXCEPT !.chats = IF kind = "chat" THEN s.chats + 1 ELSE s.chats,
                                     !.touched = now, !.updated = now]
  BY DEF Touched, s, m
<1>4. (IF kind = "chat" THEN s.chats + 1 ELSE s.chats) \in Nat
  BY <1>2 DEF CareRow
<1>5. ASSUME NEW c \in Nat
      PROVE  LET n == [s EXCEPT !.chats = c, !.touched = now, !.updated = now] IN
             n \in CareRow /\ n.exists = s.exists /\ n.updated = now /\ n.streakOn = s.streakOn /\ n.streak = s.streak
  BY <1>2 DEF CareRow
<1> QED BY <1>1, <1>2, <1>3, <1>4, <1>5

\* decay_care: nothing but the meters and the stamp.
LEMMA DecayedRow ==
  ASSUME NEW row \in CareRow, now \in Nat
  PROVE  LET n == Decayed(row) IN
         /\ n \in CareRow /\ n.exists = row.exists /\ n.touched = row.touched /\ n.chats = row.chats
         /\ n.streak = row.streak /\ n.streakOn = row.streakOn
<1> DEFINE m == Meters(row, "decay")
           worn == [m EXCEPT !.updated = now]
<1>1. /\ m \in CareRow /\ m.exists = row.exists /\ m.streak = row.streak /\ m.chats = row.chats
      /\ m.touched = row.touched /\ m.streakOn = row.streakOn
  BY MetersRow
<1> HIDE DEF m
<1>2. /\ worn \in CareRow /\ worn.exists = row.exists /\ worn.streak = row.streak /\ worn.chats = row.chats
      /\ worn.touched = row.touched /\ worn.streakOn = row.streakOn
  BY <1>1 DEF CareRow
<1> HIDE DEF worn
<1>3. ASSUME NEW b \in 0..MeterMax
      PROVE  LET n == [worn EXCEPT !.bond = b] IN
             /\ n \in CareRow /\ n.exists = row.exists /\ n.touched = row.touched /\ n.chats = row.chats
             /\ n.streak = row.streak /\ n.streakOn = row.streakOn
  BY <1>2 DEF CareRow
<1>4. Lower(worn.bond, 1) \in 0..MeterMax
  BY <1>2, Clamped DEF CareRow
<1>5. Decayed(row) \in {row, worn, [worn EXCEPT !.bond = Lower(worn.bond, 1)]}
  BY DEF Decayed, worn, m
<1> QED BY <1>2, <1>3, <1>4, <1>5

\* The clock's days only go on.
LEMMA DaysGoOn ==
  ASSUME NEW n \in Nat
  PROVE  /\ n \div TicksPerDay \in Nat /\ n \div TicksPerDay <= (n + 1) \div TicksPerDay
<1>1. ASSUME NEW d \in Nat \ {0} PROVE n \div d \in Nat /\ n \div d <= (n + 1) \div d
  OBVIOUS
<1> QED BY <1>1, CareAssumption

\* What a touch is about to write counts one day more than what it has read, at most.
LEMMA TouchReadKeeps ==
  ASSUME CareInv, NEW t \in Touches, TouchRead(t)
  PROVE  CareInv'
<1>1. /\ care \in CareRow /\ now \in Nat /\ Today \in Nat /\ days \subseteq Nat
      /\ touch \in [Touches -> Touch]
  BY TodayIsNat DEF CareInv, CareTypeOK
<1>2. PICK kind \in Kinds \cup {"look"} :
        /\ kind = "look" => ~care.exists
        /\ touch' = [touch EXCEPT ![t] =
               [phase |-> "write", kind |-> kind, base |-> care, gain |-> {},
                next |-> [IF kind = "look" THEN [care EXCEPT !.updated = now]
                          ELSE Touched(care, kind) EXCEPT !.exists = TRUE]]]
        /\ days' = IF kind = "look" THEN days ELSE days \cup {Today}
  BY DEF TouchRead
<1> DEFINE made == IF kind = "look" THEN [care EXCEPT !.updated = now] ELSE Touched(care, kind)
           next == [made EXCEPT !.exists = TRUE]
<1>3. /\ made \in CareRow /\ made.updated = now
      /\ kind = "look" => made.streak = care.streak
      /\ kind # "look" => /\ made.streakOn = Today
                          /\ made.streak = IF care.streakOn = Today THEN care.streak
                               ELSE IF care.streakOn + 1 = Today /\ care.streakOn > 0
                               THEN care.streak + 1 ELSE 1
  <2>1. CASE kind = "look"
    BY <1>1, <2>1 DEF CareRow
  <2>2. CASE kind # "look"
    BY <1>1, <2>2, TouchedRow
  <2> QED BY <2>1, <2>2
<1> HIDE DEF made
<1>4. /\ next \in CareRow /\ next.exists /\ next.updated = now
      /\ next.streak = made.streak /\ next.streakOn = made.streakOn
  BY <1>3 DEF CareRow
<1> HIDE DEF next
<1>5. /\ touch'[t] = [phase |-> "write", kind |-> kind, base |-> care, gain |-> {}, next |-> next]
      /\ \A u \in Touches : u # t => touch'[u] = touch[u]
      /\ touch' \in [Touches -> Touch]
  <2>1. [phase |-> "write", kind |-> kind, base |-> care, gain |-> {}, next |-> next] \in Touch
    BY <1>1, <1>4 DEF Touch
  <2> QED BY <1>1, <1>2, <2>1 DEF next, made
<1>6. /\ UNCHANGED <<care, decay, codes, now, overtaken>> /\ Today' = Today
      /\ days \subseteq days' /\ days' \subseteq Nat
      /\ kind # "look" => Today \in days'
  BY <1>1, <1>2 DEF TouchRead, Today
<1>7. CareTypeOK' /\ RoundInv'
  BY <1>5, <1>6 DEF CareInv, CareTypeOK, RoundInv
<1>8. ASSUME ~overtaken' PROVE StreakInv'
  <2>1. /\ Counted(care) /\ (~care.exists => care.streak = 0 /\ care.streakOn = 0)
        /\ \A u \in Touches : TouchInv(u)
    BY <1>6, <1>8 DEF CareInv, StreakInv
  <2>2. Counted(care)'
    BY <1>6, <2>1 DEF Counted
  <2>3. \A back \in Nat : back < next.streak => next.streakOn - back \in days'
    <3>1. CASE kind = "look"
      BY <1>2, <1>3, <1>4, <2>1, <3>1
    <3>2. CASE kind # "look"
      <4> SUFFICES ASSUME NEW back \in Nat, back < next.streak
                   PROVE  Today - back \in days'
        BY <1>3, <1>4, <3>2
      <4>1. /\ care.streak \in Nat /\ care.streakOn \in Nat
            /\ \A b \in Nat : b < care.streak => care.streakOn - b \in days'
        BY <1>1, <1>6, <2>1 DEF CareRow, Counted
      <4>2. CASE back = 0
        BY <1>1, <1>6, <3>2, <4>2
      <4>3. CASE back > 0 /\ care.streakOn = Today
        BY <1>3, <1>4, <3>2, <4>1, <4>3
      <4>4. CASE back > 0 /\ care.streakOn # Today
        <5>1. /\ care.streakOn + 1 = Today /\ back - 1 < care.streak /\ back - 1 \in Nat
          BY <1>1, <1>3, <1>4, <3>2, <4>1, <4>4
        <5>2. care.streakOn - (back - 1) \in days'
          BY <4>1, <5>1
        <5> QED BY <1>1, <4>1, <5>1, <5>2
      <4> QED BY <4>2, <4>3, <4>4
    <3> QED BY <3>1, <3>2
  <2>4. TouchInv(t)'
    <3>1. touch'[t].base = care /\ touch'[t].next = next
      BY <1>5
    <3>2. next.updated \div TicksPerDay = Today
      BY <1>4 DEF Today
    <3>3. care.exists =>
             /\ next.streakOn = Today /\ Today \in days'
             /\ next.streakOn = care.streakOn \/ next.streak # care.streak \/ next.streak = 1
      BY <1>1, <1>2, <1>3, <1>4, <1>6 DEF CareRow
    <3> QED BY <1>1, <1>4, <1>6, <2>3, <3>1, <3>2, <3>3 DEF TouchInv, Counted, CareRow, Day
  <2>5. ASSUME NEW u \in Touches, u # t PROVE TouchInv(u)'
    BY <1>5, <1>6, <2>1, <2>5 DEF TouchInv, Writing, Counted, Day
  <2> QED BY <1>6, <2>1, <2>2, <2>4, <2>5 DEF StreakInv
<1> QED BY <1>7, <1>8 DEF CareInv

\* The commit of a touch: its day is the row's from then on.
LEMMA RowAfterTouch ==
  ASSUME CareTypeOK, StreakInv, NEW t \in Touches, TouchWrite(t), ~overtaken', care' # care
  PROVE  /\ care'.exists /\ Counted(care')
         /\ care.exists => /\ touch[t].base.exists /\ care'.streakOn = Day(touch[t].next)
                           /\ care.streakOn <= care'.streakOn
<1> DEFINE base == touch[t].base
           next == touch[t].next
<1>1. /\ base \in CareRow /\ next \in CareRow /\ care \in CareRow
      /\ TouchInv(t) /\ Writing(t) /\ now \in Nat /\ Today \in Nat
  BY TodayIsNat DEF CareTypeOK, StreakInv, TouchWrite, Writing, Touch
<1>2. CASE ~base.exists
  <2>1. ~care.exists /\ care' = next
    BY <1>2 DEF TouchWrite
  <2> QED BY <1>1, <2>1 DEF TouchInv
<1>3. CASE base.exists
  <2>1. care' = Written(care, base, next)
    BY <1>3 DEF TouchWrite
  <2>2. /\ care'.exists = (IF next.exists # base.exists THEN next.exists ELSE care.exists)
        /\ care'.streak = (IF next.streak # base.streak THEN next.streak ELSE care.streak)
        /\ care'.streakOn = (IF next.streakOn # base.streakOn THEN next.streakOn ELSE care.streakOn)
    BY <1>1, <2>1, WrittenRow
  <2>3. care.streakOn <= next.streakOn
    BY <1>1, <1>3 DEF TouchWrite, CareRow
  <2>4. /\ care.exists /\ next.exists /\ next.streakOn = Day(next) /\ base.streakOn <= care.streakOn
        /\ Day(next) \in days /\ Counted(next)
        /\ next.streakOn = base.streakOn \/ next.streak # base.streak \/ next.streak = 1
        /\ care.streak = base.streak \/ care.streakOn + 1 >= Day(next)
    BY <1>1, <1>3 DEF TouchInv
  <2>5. /\ care.streak \in Nat /\ care.streakOn \in Nat /\ base.streak \in Nat /\ base.streakOn \in Nat
        /\ next.streak \in Nat /\ next.streakOn \in Nat
    BY <1>1 DEF CareRow
  <2>6. care'.exists /\ care'.streakOn = next.streakOn
    BY <1>3, <2>2, <2>3, <2>4, <2>5
  <2>7. Counted(care')
    <3>1. CASE next.streak # base.streak
      BY <2>2, <2>4, <2>6, <3>1 DEF Counted
    <3>2. CASE next.streak = base.streak /\ care.streakOn = next.streakOn
      BY <2>2, <2>6, <3>2 DEF Counted, StreakInv
    <3>3. CASE next.streak = base.streak /\ care.streakOn # next.streakOn /\ care.streak = base.streak
      <4>1. care'.streak = 1
        BY <2>2, <2>3, <2>4, <2>5, <3>3
      <4> QED BY <2>4, <2>5, <2>6, <4>1 DEF Counted
    <3>4. CASE /\ next.streak = base.streak /\ care.streakOn # next.streakOn
               /\ care.streakOn + 1 >= next.streakOn
      <4>1. care.streakOn + 1 = next.streakOn /\ care'.streak = care.streak
        BY <2>2, <2>3, <2>5, <3>4
      <4> SUFFICES ASSUME NEW back \in Nat, back < care.streak
                   PROVE  next.streakOn - back \in days
        BY <2>6, <4>1 DEF Counted
      <4>2. CASE back = 0
        BY <2>4, <2>5, <4>2
      <4>3. CASE back > 0
        <5>1. back - 1 \in Nat /\ back - 1 < care.streak
          BY <2>5, <4>3
        <5>2. care.streakOn - (back - 1) \in days
          BY <5>1 DEF StreakInv, Counted
        <5> QED BY <2>5, <4>1, <5>2
      <4> QED BY <4>2, <4>3
    <3> QED BY <2>4, <3>1, <3>2, <3>3, <3>4
  <2> QED BY <1>3, <2>3, <2>4, <2>6, <2>7
<1> QED BY <1>2, <1>3

LEMMA TouchWriteKeeps ==
  ASSUME CareInv, NEW t \in Touches, TouchWrite(t)
  PROVE  CareInv'
<1>1. /\ care \in CareRow /\ now \in Nat /\ days \subseteq Nat /\ touch \in [Touches -> Touch]
      /\ touch[t].base \in CareRow /\ touch[t].next \in CareRow
      /\ UNCHANGED <<decay, codes, now, days>> /\ overtaken' \in BOOLEAN
      /\ (~overtaken' => ~overtaken)
  BY DEF CareInv, CareTypeOK, Touch, TouchWrite
<1>2. care' \in CareRow
  BY <1>1, WrittenRow DEF TouchWrite
<1>3. /\ touch' \in [Touches -> Touch] /\ touch'[t].phase # "write"
      /\ \A u \in Touches : u # t => touch'[u] = touch[u]
  <2>1. PICK phase \in {"over", "unlock"}, gain \in SUBSET {"first_pet", "chat_streak_3"} :
          touch' = [touch EXCEPT ![t] = Resting(phase, gain)]
    BY DEF TouchWrite, Earned
  <2>2. NoRow \in CareRow
    BY DEF NoRow, CareRow, MeterMax
  <2>3. Resting(phase, gain) \in Touch /\ Resting(phase, gain).phase # "write"
    BY <2>2 DEF Resting, Touch
  <2> QED BY <1>1, <2>1, <2>3
<1>4. CareTypeOK' /\ RoundInv'
  BY <1>1, <1>2, <1>3 DEF CareInv, CareTypeOK, RoundInv
<1>5. ASSUME ~overtaken' PROVE StreakInv'
  <2>1. StreakInv /\ CareTypeOK
    BY <1>1, <1>5 DEF CareInv
  <2>2. CASE care' = care
    <3>1. Counted(care)' /\ (~care'.exists => care'.streak = 0 /\ care'.streakOn = 0)
      BY <1>1, <2>1, <2>2 DEF StreakInv, Counted
    <3>2. \A u \in Touches : TouchInv(u)'
      BY <1>1, <1>3, <2>1, <2>2 DEF StreakInv, TouchInv, Writing, Counted, Day, Today
    <3> QED BY <3>1, <3>2 DEF StreakInv
  <2>3. CASE care' # care
    <3>1. /\ care'.exists /\ Counted(care')
          /\ care.exists => /\ touch[t].base.exists /\ care'.streakOn = Day(touch[t].next)
                            /\ care.streakOn <= care'.streakOn
      BY <1>5, <2>1, <2>3, RowAfterTouch
    <3>2. Counted(care)'
      BY <1>1, <3>1 DEF Counted
    <3>3. ASSUME NEW u \in Touches PROVE TouchInv(u)'
      <4>1. CASE u = t
        BY <1>3, <4>1 DEF TouchInv, Writing
      <4>2. CASE u # t /\ Writing(u)
        <5>1. /\ TouchInv(u) /\ TouchInv(t) /\ Writing(t) /\ touch'[u] = touch[u]
              /\ Today' = Today /\ Today \in Nat
          BY <1>1, <1>3, <2>1, <4>2, TodayIsNat DEF StreakInv, TouchWrite, Writing, Today
        <5>2. /\ touch[u].next \in CareRow /\ touch[t].next \in CareRow
              /\ touch[u].base \in CareRow
          BY <1>1 DEF Touch
        <5>3. /\ Day(touch[u].next) \in Nat /\ Day(touch[t].next) \in Nat
          BY <5>2, DaysGoOn DEF Day, CareRow
        <5>4. touch[u].base.exists =>
                 /\ touch[u].base.streakOn <= care'.streakOn
                 /\ care'.streakOn + 1 >= Day(touch[u].next)
          BY <1>1, <1>2, <3>1, <4>2, <5>1, <5>2, <5>3 DEF TouchInv, CareRow
        <5> QED BY <1>1, <3>1, <4>2, <5>1, <5>4 DEF TouchInv, Writing, Counted, Day
      <4>3. CASE u # t /\ ~Writing(u)
        BY <1>3, <4>3 DEF TouchInv, Writing
      <4> QED BY <4>1, <4>2, <4>3
    <3> QED BY <3>1, <3>2, <3>3 DEF StreakInv
  <2> QED BY <2>2, <2>3
<1> QED BY <1>4, <1>5 DEF CareInv

LEMMA UnlockKeeps ==
  ASSUME CareInv, NEW t \in Touches, Unlock(t)
  PROVE  CareInv'
<1>1. /\ touch' \in [Touches -> Touch] /\ touch'[t].phase # "write"
      /\ \A u \in Touches : u # t => touch'[u] = touch[u]
  <2>1. NoRow \in CareRow
    BY DEF NoRow, CareRow, MeterMax
  <2>2. Resting("over", {}) \in Touch /\ Resting("over", {}).phase # "write"
    BY <2>1 DEF Resting, Touch
  <2> QED BY <2>2 DEF Unlock, CareInv, CareTypeOK
<1>2. CareTypeOK' /\ RoundInv'
  BY <1>1 DEF Unlock, CareInv, CareTypeOK, RoundInv
<1>3. ASSUME ~overtaken' PROVE StreakInv'
  <2>1. StreakInv
    BY <1>3 DEF CareInv, Unlock
  <2>2. \A u \in Touches : TouchInv(u)'
    BY <1>1, <2>1 DEF Unlock, StreakInv, TouchInv, Writing, Counted, Day, Today
  <2> QED BY <2>1, <2>2 DEF Unlock, StreakInv, Counted
<1> QED BY <1>2, <1>3 DEF CareInv

\* The care loop, which touches neither the streak nor its day.
LEMMA DecayKeeps ==
  ASSUME CareInv, DecayRead \/ DecayWrite
  PROVE  CareInv'
<1>1. /\ care \in CareRow /\ now \in Nat /\ decay \in Round /\ NoRow \in CareRow
  BY DEF CareInv, CareTypeOK, NoRow, CareRow, MeterMax
<1>2. /\ care' \in CareRow /\ care'.exists = care.exists
      /\ care'.streak = care.streak /\ care'.streakOn = care.streakOn
  <2>1. CASE DecayRead
    BY <1>1, <2>1 DEF DecayRead
  <2>2. CASE DecayWrite
    <3>1. decay.base \in CareRow /\ decay.next \in CareRow
      BY <1>1 DEF Round
    <3>2. care' = Written(care, decay.base, decay.next) /\ decay.phase = "write"
      BY <2>2 DEF DecayWrite
    <3> QED BY <1>1, <3>1, <3>2, WrittenRow DEF CareInv, RoundInv
  <2> QED BY <2>1, <2>2
<1>3. decay' \in Round /\ RoundInv'
  <2>1. CASE DecayRead
    <3>1. CASE decay' = [phase |-> "write", base |-> care, next |-> Decayed(care), left |-> decay.left - 1]
      BY <1>1, <2>1, <3>1, DecayedRow, CareAssumption DEF DecayRead, Round, RoundInv
    <3>2. CASE decay' = [decay EXCEPT !.left = @ - 1]
      BY <1>1, <2>1, <3>2, CareAssumption DEF DecayRead, Round, RoundInv
    <3> QED BY <2>1, <3>1, <3>2 DEF DecayRead
  <2>2. CASE DecayWrite
    BY <1>1, <2>2 DEF DecayWrite, Round, RoundInv
  <2> QED BY <2>1, <2>2
<1>4. UNCHANGED <<touch, codes, now, days, overtaken>>
  BY DEF DecayRead, DecayWrite
<1>5. CareTypeOK'
  BY <1>2, <1>3, <1>4 DEF CareInv, CareTypeOK
<1>6. ASSUME ~overtaken' PROVE StreakInv'
  <2>1. StreakInv
    BY <1>4, <1>6 DEF CareInv
  <2>2. \A u \in Touches : TouchInv(u)'
    BY <1>2, <1>4, <2>1 DEF StreakInv, TouchInv, Writing, Counted, Day, Today
  <2> QED BY <1>2, <1>4, <2>1, <2>2 DEF StreakInv, Counted
<1> QED BY <1>3, <1>5, <1>6 DEF CareInv

LEMMA CareTickKeeps ==
  ASSUME CareInv, CareTick
  PROVE  CareInv'
<1>1. /\ now \in Nat /\ now' = now + 1 /\ UNCHANGED <<care, touch, decay, codes, days, overtaken>>
      /\ Today \in Nat /\ Today' \in Nat /\ Today <= Today'
  BY DaysGoOn DEF CareInv, CareTypeOK, CareTick, Today
<1>2. CareTypeOK' /\ RoundInv'
  BY <1>1 DEF CareInv, CareTypeOK, RoundInv
<1>3. ASSUME ~overtaken' PROVE StreakInv'
  <2>1. StreakInv
    BY <1>1, <1>3 DEF CareInv
  <2>2. ASSUME NEW t \in Touches, Writing(t)
        PROVE  /\ Day(touch[t].next) <= Today' /\ Today' <= Day(touch[t].next) + 1
    <3>1. touch[t].next \in CareRow
      BY DEF CareInv, CareTypeOK, Touch
    <3>2. Day(touch[t].next) \in Nat /\ Day(touch[t].next) <= Today
      BY <2>1, <2>2, <3>1, DaysGoOn DEF StreakInv, TouchInv, Day, CareRow
    <3>3. Today' <= Day(touch[t].next) + 1
      BY <1>1, <2>2 DEF CareTick, Writing, Day, Today
    <3> QED BY <1>1, <3>2, <3>3
  <2>3. \A u \in Touches : TouchInv(u)'
    BY <1>1, <2>1, <2>2 DEF StreakInv, TouchInv, Writing, Counted, Day
  <2> QED BY <1>1, <2>1, <2>3 DEF StreakInv, Counted
<1> QED BY <1>2, <1>3 DEF CareInv

LEMMA CareInitially == CareInit => CareInv
<1> SUFFICES ASSUME CareInit PROVE CareInv
  OBVIOUS
<1>1. NoRow \in CareRow /\ NoRow.streak = 0 /\ NoRow.streakOn = 0 /\ ~NoRow.exists
  BY DEF NoRow, CareRow, MeterMax
<1>2. touch \in [Touches -> Touch] /\ \A t \in Touches : ~Writing(t)
  BY <1>1 DEF CareInit, Resting, Touch, Writing
<1>3. decay \in Round /\ decay.phase = "sleep"
  BY <1>1, CareAssumption DEF CareInit, Round
<1>4. /\ now \in Nat /\ ~overtaken /\ overtaken \in BOOLEAN
  <2>1. now \in Nat
    BY CareAssumption DEF CareInit
  <2>2. overtaken = FALSE
    BY DEF CareInit
  <2> QED BY <2>1, <2>2
<1>5. /\ care \in CareRow /\ days \subseteq Nat /\ Counted(care)
      /\ ~care.exists => care.streak = 0 /\ care.streakOn = 0
  <2>1. CASE care = NoRow /\ days = {}
    BY <1>1, <2>1 DEF Counted
  <2>2. CASE /\ care = [NoRow EXCEPT !.exists = TRUE, !.happiness = 98, !.energy = 3, !.bond = 99,
                                   !.streak = 2, !.chats = 2, !.touched = TicksPerDay,
                                   !.streakOn = 1, !.updated = TicksPerDay]
             /\ days = {0, 1}
    <3>1. care = [exists |-> TRUE, happiness |-> 98, energy |-> 3, bond |-> 99, streak |-> 2,
                  chats |-> 2, touched |-> TicksPerDay, streakOn |-> 1, updated |-> TicksPerDay]
      BY <2>2 DEF NoRow
    <3>2. care \in CareRow
      BY <3>1, CareAssumption DEF CareRow, MeterMax
    <3>3. Counted(care)
      BY <2>2, <3>1 DEF Counted
    <3> QED BY <2>2, <3>1, <3>2, <3>3
  <2> QED BY <2>1, <2>2 DEF CareInit
<1> QED BY <1>2, <1>3, <1>4, <1>5 DEF CareInv, CareTypeOK, RoundInv, StreakInv, TouchInv

\* The invariant of the row, its writers and the care loop.
THEOREM CareCorrect == CareSpec => []CareInv
<1>1. CareInit => CareInv
  BY CareInitially
<1>2. CareInv /\ [CareNext]_careVars => CareInv'
  <2> SUFFICES ASSUME CareInv, [CareNext]_careVars PROVE CareInv'
    OBVIOUS
  <2>1. ASSUME NEW t \in Touches, TouchRead(t) \/ TouchWrite(t) \/ Unlock(t) PROVE CareInv'
    BY <2>1, TouchReadKeeps, TouchWriteKeeps, UnlockKeeps
  <2>2. CASE DecayRead \/ DecayWrite \/ CareTick
    BY <2>2, DecayKeeps, CareTickKeeps
  <2>3. CASE UNCHANGED careVars
    BY <2>3 DEF careVars, CareInv, CareTypeOK, RoundInv, StreakInv, TouchInv, Writing, Counted, Day, Today
  <2> QED BY <2>1, <2>2, <2>3 DEF CareNext
<1> QED BY <1>1, <1>2, PTL DEF CareSpec

-----------------------------------------------------------------------------
\* The streak that the dashboard shows was earned day by day: however touches, the care loop
\* and midnight interleave, unless a touch commits after one of a later day has.
THEOREM TheStreakIsEarned == CareSpec => []StreakIsEarned
<1>1. CareInv => StreakIsEarned
  BY DEF CareInv, StreakInv, Counted, StreakIsEarned
<1> QED BY <1>1, CareCorrect, PTL

\* The care loop, which writes back what it read rounds ago, takes no touch back.
THEOREM DecayTakesNothingBack == CareSpec => TouchSurvivesDecay
<1> DEFINE Survives == decay.phase = "write" /\ decay'.phase = "sleep" =>
        /\ care'.touched = care.touched /\ care'.chats = care.chats
        /\ care'.streak = care.streak /\ care'.streakOn = care.streakOn
<1>1. CareInv /\ [CareNext]_careVars => [Survives]_careVars
  <2> SUFFICES ASSUME CareInv, CareNext, decay.phase = "write", decay'.phase = "sleep"
               PROVE  Survives
    OBVIOUS
  <2>1. DecayWrite
    BY DEF CareNext, TouchRead, TouchWrite, Unlock, DecayRead, CareTick
  <2>2. /\ care \in CareRow /\ decay.base \in CareRow /\ decay.next \in CareRow
    BY DEF CareInv, CareTypeOK, Round
  <2> QED BY <2>1, <2>2, WrittenRow DEF DecayWrite, CareInv, RoundInv
<1> QED BY <1>1, CareCorrect, PTL DEF CareSpec, TouchSurvivesDecay

-----------------------------------------------------------------------------
(* Dashboards: who joins while lines are spoken. *)

ViewTypeOK ==
    /\ viewers \subseteq Screens /\ spoken \in Nat /\ history \in Seq(Nat \ {0})
    /\ stage \in [Screens -> {"new", "hello", "history", "open", "gone"}]
    /\ link \in [Screens -> {"up", "broken", "closed"}]
    /\ past \in [Screens -> Seq(Nat \ {0})] /\ got \in [Screens -> SUBSET (Nat \ {0})]
    /\ airing \in [Broadcasts -> [line : Nat, left : SUBSET Screens, dead : SUBSET Screens, on : BOOLEAN]]

\* Whose handler is at work on a connection that is up is a viewer: a broadcast discards
\* only what it has found broken.
WorkersView ==
    \A s \in Screens : stage[s] \in {"hello", "history", "open"} /\ link[s] = "up" => s \in viewers

DeadAreBroken == \A b \in Broadcasts : \A s \in airing[b].dead : link[s] # "up"

IdleOweNothing == \A b \in Broadcasts : airing[b].on \/ airing[b].left = {}

ViewersAreKnown == WorkersView /\ DeadAreBroken /\ IdleOweNothing

Owed(s, line) == \E b \in Broadcasts : airing[b].line = line /\ s \in airing[b].left

ToBeSent(s, line) == \E j \in 1..Len(past[s]) : past[s][j] = line

\* A line of the history has come to a dashboard, or its handler or a broadcast will send it.
Reached(s, line) == line \in got[s] \/ ToBeSent(s, line) \/ Owed(s, line)

ReachedInv ==
    \A s \in Screens : stage[s] \in {"history", "open"} /\ link[s] = "up" =>
        /\ stage[s] = "open" => past[s] = <<>>
        /\ \A i \in 1..Len(history) : Reached(s, history[i])

ViewInv == ViewTypeOK /\ ViewersAreKnown /\ ReachedInv

\* _remember_chat keeps lines it had and the new one.
LEMMA RememberedLines ==
  ASSUME history \in Seq(Nat \ {0}), NEW line \in Nat \ {0}
  PROVE  /\ Remembered(line) \in Seq(Nat \ {0})
         /\ \A i \in 1..Len(Remembered(line)) :
               Remembered(line)[i] = line \/ \E j \in 1..Len(history) : Remembered(line)[i] = history[j]
<1> DEFINE lines == Append(history, line)
<1>1. /\ lines \in Seq(Nat \ {0}) /\ Len(lines) = Len(history) + 1 /\ lines[Len(history) + 1] = line
      /\ \A j \in 1..Len(history) : lines[j] = history[j]
      /\ Len(history) \in Nat
  OBVIOUS
<1> HIDE DEF lines
<1>2. /\ Tail(lines) \in Seq(Nat \ {0}) /\ Len(Tail(lines)) = Len(history)
      /\ \A j \in 1..Len(history) : Tail(lines)[j] = lines[j + 1]
  BY <1>1
<1>3. \A j \in 1..(Len(history) + 1) : j <= Len(history) \/ j = Len(history) + 1
  BY <1>1
<1>4. CASE Remembered(line) = lines
  BY <1>1, <1>3, <1>4
<1>5. CASE Remembered(line) = Tail(lines)
  <2> SUFFICES ASSUME NEW i \in 1..Len(history)
               PROVE  Tail(lines)[i] = line \/ \E j \in 1..Len(history) : Tail(lines)[i] = history[j]
    BY <1>2, <1>5
  <2>1. /\ Tail(lines)[i] = lines[i + 1]
        /\ i + 1 \in 1..Len(history) \/ i + 1 = Len(history) + 1
    BY <1>1, <1>2
  <2>2. lines[i + 1] = line \/ \E j \in 1..Len(history) : lines[i + 1] = history[j]
    BY <1>1, <2>1
  <2> QED BY <2>1, <2>2
<1> QED BY <1>4, <1>5 DEF Remembered, lines

LEMMA ViewStep == ViewInv /\ [ViewNext]_viewVars => ViewInv'
<1> SUFFICES ASSUME ViewInv, [ViewNext]_viewVars PROVE ViewInv'
  OBVIOUS
<1> USE DEF ViewInv
<1>1. ASSUME NEW s \in Screens, Subscribe(s) PROVE ViewInv'
  <2>1. ViewTypeOK'
    BY <1>1 DEF Subscribe, ViewTypeOK
  <2>2. ViewersAreKnown'
    <3>1. WorkersView'
      BY <1>1 DEF Subscribe, ViewTypeOK, ViewersAreKnown, WorkersView
    <3>2. DeadAreBroken'
      BY <1>1 DEF Subscribe, ViewTypeOK, ViewersAreKnown, DeadAreBroken
    <3>3. IdleOweNothing'
      BY <1>1 DEF Subscribe, ViewersAreKnown, IdleOweNothing
    <3> QED BY <3>1, <3>2, <3>3 DEF ViewersAreKnown
  <2>3. \A o \in Screens : \A line : stage'[o] # "gone" /\ Reached(o, line) => Reached(o, line)'
    BY <1>1 DEF Subscribe, ViewTypeOK, Reached, ToBeSent, Owed
  <2>4. ReachedInv'
    BY <1>1, <2>3 DEF Subscribe, ViewTypeOK, ReachedInv
  <2> QED BY <2>1, <2>2, <2>4
<1>2. ASSUME NEW s \in Screens, Greeted(s) PROVE ViewInv'
  <2>1. ViewTypeOK'
    BY <1>2 DEF Greeted, Reaches, ViewTypeOK
  <2>2. ViewersAreKnown'
    <3>1. WorkersView'
      BY <1>2 DEF Greeted, ViewTypeOK, ViewersAreKnown, WorkersView
    <3>2. DeadAreBroken'
      BY <1>2 DEF Greeted, ViewTypeOK, ViewersAreKnown, DeadAreBroken
    <3>3. IdleOweNothing'
      BY <1>2 DEF Greeted, ViewersAreKnown, IdleOweNothing
    <3> QED BY <3>1, <3>2, <3>3 DEF ViewersAreKnown
  <2>3. \A o \in Screens : o # s => \A line : Reached(o, line) => Reached(o, line)'
    BY <1>2 DEF Greeted, ViewTypeOK, Reached, ToBeSent, Owed
  <2>4. past'[s] = history /\ stage'[s] = "history"
    BY <1>2 DEF Greeted, ViewTypeOK
  <2>5. \A i \in 1..Len(history) : ToBeSent(s, history[i])'
    BY <1>2, <2>4 DEF ToBeSent, Greeted
  <2>6. ReachedInv'
    BY <1>2, <2>3, <2>4, <2>5 DEF Greeted, ViewTypeOK, ReachedInv, Reached
  <2> QED BY <2>1, <2>2, <2>6
<1>3. ASSUME NEW s \in Screens, SendPast(s) PROVE ViewInv'
  <2>1. /\ past[s] \in Seq(Nat \ {0}) /\ past[s] # <<>> /\ Head(past[s]) \in Nat \ {0}
        /\ Tail(past[s]) \in Seq(Nat \ {0}) /\ Len(Tail(past[s])) = Len(past[s]) - 1
        /\ \A j \in 1..Len(past[s]) : past[s][j] = Head(past[s])
                                    \/ (j - 1 \in 1..Len(Tail(past[s])) /\ Tail(past[s])[j - 1] = past[s][j])
    BY <1>3 DEF SendPast, ViewTypeOK
  <2>2. ViewTypeOK' /\ ViewersAreKnown'
    BY <1>3, <2>1 DEF SendPast, ViewTypeOK, ViewersAreKnown, WorkersView, DeadAreBroken, IdleOweNothing
  <2>3. \A line : Reached(s, line) => Reached(s, line)'
    BY <1>3, <2>1 DEF SendPast, ViewTypeOK, Reached, ToBeSent, Owed
  <2>4. \A o \in Screens : o # s => \A line : Reached(o, line) => Reached(o, line)'
    BY <1>3 DEF SendPast, ViewTypeOK, Reached, ToBeSent, Owed
  <2>5. ReachedInv'
    BY <1>3, <2>3, <2>4 DEF SendPast, ViewTypeOK, ReachedInv
  <2> QED BY <2>2, <2>5
<1>4. ASSUME NEW s \in Screens, Opened(s) PROVE ViewInv'
  <2>1. ViewTypeOK'
    BY <1>4 DEF Opened, Reaches, ViewTypeOK
  <2>2. ViewersAreKnown'
    <3>1. WorkersView'
      BY <1>4 DEF Opened, Reaches, ViewTypeOK, ViewersAreKnown, WorkersView
    <3>2. DeadAreBroken'
      BY <1>4 DEF Opened, Reaches, ViewTypeOK, ViewersAreKnown, DeadAreBroken
    <3>3. IdleOweNothing'
      BY <1>4 DEF Opened, Reaches, ViewersAreKnown, IdleOweNothing
    <3> QED BY <3>1, <3>2, <3>3 DEF ViewersAreKnown
  <2>3. \A o \in Screens : \A line : stage'[o] # "gone" /\ Reached(o, line) => Reached(o, line)'
    BY <1>4 DEF Opened, Reaches, ViewTypeOK, Reached, ToBeSent, Owed
  <2>4. ReachedInv'
    BY <1>4, <2>3 DEF Opened, Reaches, ViewTypeOK, ReachedInv
  <2> QED BY <2>1, <2>2, <2>4
<1>5. ASSUME NEW s \in Screens, BootFails(s) PROVE ViewInv'
  <2>1. ViewTypeOK'
    BY <1>5 DEF BootFails, Reaches, ViewTypeOK
  <2>2. ViewersAreKnown'
    <3>1. WorkersView'
      BY <1>5 DEF BootFails, Reaches, ViewTypeOK, ViewersAreKnown, WorkersView
    <3>2. DeadAreBroken'
      BY <1>5 DEF BootFails, Reaches, ViewTypeOK, ViewersAreKnown, DeadAreBroken
    <3>3. IdleOweNothing'
      BY <1>5 DEF BootFails, Reaches, ViewersAreKnown, IdleOweNothing
    <3> QED BY <3>1, <3>2, <3>3 DEF ViewersAreKnown
  <2>3. \A o \in Screens : \A line : stage'[o] # "gone" /\ Reached(o, line) => Reached(o, line)'
    BY <1>5 DEF BootFails, Reaches, ViewTypeOK, Reached, ToBeSent, Owed
  <2>4. ReachedInv'
    BY <1>5, <2>3 DEF BootFails, Reaches, ViewTypeOK, ReachedInv
  <2> QED BY <2>1, <2>2, <2>4
<1>6. ASSUME NEW s \in Screens, Gone(s) PROVE ViewInv'
  <2>1. ViewTypeOK'
    BY <1>6 DEF Gone, Leaves, Reaches, ViewTypeOK
  <2>2. ViewersAreKnown'
    <3>1. WorkersView'
      BY <1>6 DEF Gone, Leaves, Reaches, ViewTypeOK, ViewersAreKnown, WorkersView
    <3>2. DeadAreBroken'
      BY <1>6 DEF Gone, Leaves, Reaches, ViewTypeOK, ViewersAreKnown, DeadAreBroken
    <3>3. IdleOweNothing'
      BY <1>6 DEF Gone, Leaves, Reaches, ViewersAreKnown, IdleOweNothing
    <3> QED BY <3>1, <3>2, <3>3 DEF ViewersAreKnown
  <2>3. \A o \in Screens : \A line : stage'[o] # "gone" /\ Reached(o, line) => Reached(o, line)'
    BY <1>6 DEF Gone, Leaves, Reaches, ViewTypeOK, Reached, ToBeSent, Owed
  <2>4. ReachedInv'
    BY <1>6, <2>3 DEF Gone, Leaves, Reaches, ViewTypeOK, ReachedInv
  <2> QED BY <2>1, <2>2, <2>4
<1>7. ASSUME NEW s \in Screens, Break(s) PROVE ViewInv'
  <2>1. ViewTypeOK'
    BY <1>7 DEF Break, ViewTypeOK
  <2>2. ViewersAreKnown'
    <3>1. WorkersView'
      BY <1>7 DEF Break, ViewTypeOK, ViewersAreKnown, WorkersView
    <3>2. DeadAreBroken'
      BY <1>7 DEF Break, ViewTypeOK, ViewersAreKnown, DeadAreBroken
    <3>3. IdleOweNothing'
      BY <1>7 DEF Break, ViewersAreKnown, IdleOweNothing
    <3> QED BY <3>1, <3>2, <3>3 DEF ViewersAreKnown
  <2>3. \A o \in Screens : \A line : stage'[o] # "gone" /\ Reached(o, line) => Reached(o, line)'
    BY <1>7 DEF Break, ViewTypeOK, Reached, ToBeSent, Owed
  <2>4. ReachedInv'
    BY <1>7, <2>3 DEF Break, ViewTypeOK, ReachedInv
  <2> QED BY <2>1, <2>2, <2>4
<1>8. ASSUME NEW b \in Broadcasts, Say(b) PROVE ViewInv'
  <2>1. /\ spoken + 1 \in Nat \ {0} /\ history' = Remembered(spoken + 1) /\ spoken' = spoken + 1
        /\ airing' = [airing EXCEPT ![b] = [line |-> spoken + 1, left |-> viewers, dead |-> {}, on |-> TRUE]]
        /\ UNCHANGED <<viewers, stage, link, past, got>>
    BY <1>8 DEF Say, ViewTypeOK
  <2>2. /\ history' \in Seq(Nat \ {0})
        /\ \A i \in 1..Len(history') : \/ history'[i] = spoken + 1
                                       \/ \E j \in 1..Len(history) : history'[i] = history[j]
    BY <2>1, RememberedLines DEF ViewTypeOK
  <2>3. /\ airing'[b] = [line |-> spoken + 1, left |-> viewers, dead |-> {}, on |-> TRUE]
        /\ \A c \in Broadcasts : c # b => airing'[c] = airing[c]
    BY <2>1 DEF ViewTypeOK
  <2>4. airing[b].left = {}
    BY <1>8 DEF Say, ViewersAreKnown, IdleOweNothing
  <2>5. ViewTypeOK'
    BY <2>1, <2>2 DEF ViewTypeOK
  <2>6. ViewersAreKnown'
    BY <2>1, <2>3 DEF ViewersAreKnown, WorkersView, DeadAreBroken, IdleOweNothing
  <2>7. \A s \in Screens : \A line : Reached(s, line) => Reached(s, line)'
    BY <2>1, <2>3, <2>4 DEF Reached, ToBeSent, Owed
  <2>8. \A s \in viewers : \E c \in Broadcasts : airing'[c].line = spoken + 1 /\ s \in airing'[c].left
    BY <2>3
  <2>9. ReachedInv'
    <3> SUFFICES ASSUME NEW s \in Screens, stage[s] \in {"history", "open"}, link[s] = "up"
                 PROVE  /\ stage[s] = "open" => past[s] = <<>>
                        /\ \A i \in 1..Len(history') : Reached(s, history[i])'
      BY <2>1 DEF ReachedInv
    <3>1. s \in viewers
      BY DEF ViewersAreKnown, WorkersView
    <3>2. ASSUME NEW i \in 1..Len(history') PROVE Reached(s, history[i])'
      <4>1. CASE history'[i] = spoken + 1
        BY <2>8, <3>1, <4>1 DEF Reached, Owed
      <4>2. CASE \E j \in 1..Len(history) : history'[i] = history[j]
        <5>1. PICK j \in 1..Len(history) : history'[i] = history[j]
          BY <4>2
        <5>2. Reached(s, history[j])
          BY DEF ReachedInv
        <5> QED BY <2>1, <2>3, <2>4, <5>1, <5>2 DEF Reached, ToBeSent, Owed
      <4> QED BY <2>2, <4>1, <4>2
    <3> QED BY <3>2 DEF ReachedInv
  <2> QED BY <2>5, <2>6, <2>9
<1>9. ASSUME NEW b \in Broadcasts, Pulse(b) PROVE ViewInv'
  <2>1. /\ airing'[b] = [line |-> 0, left |-> viewers, dead |-> {}, on |-> TRUE]
        /\ \A c \in Broadcasts : c # b => airing'[c] = airing[c]
        /\ UNCHANGED <<viewers, stage, link, past, history, spoken, got>>
    BY <1>9 DEF Pulse, ViewTypeOK
  <2>2. airing[b].left = {}
    BY <1>9 DEF Pulse, ViewersAreKnown, IdleOweNothing
  <2>3. ViewTypeOK'
    BY <1>9 DEF Pulse, ViewTypeOK
  <2>4. ViewersAreKnown'
    BY <2>1 DEF ViewersAreKnown, WorkersView, DeadAreBroken, IdleOweNothing
  <2>5. \A s \in Screens : \A line : Reached(s, line) => Reached(s, line)'
    BY <2>1, <2>2 DEF Reached, ToBeSent, Owed
  <2>6. ReachedInv'
    BY <2>1, <2>5 DEF ReachedInv
  <2> QED BY <2>3, <2>4, <2>6
<1>10. ASSUME NEW b \in Broadcasts, CastSend(b) PROVE ViewInv'
  <2>1. PICK s \in airing[b].left :
          /\ got' = IF Reaches(s) /\ airing[b].line > 0
                    THEN [got EXCEPT ![s] = @ \cup {airing[b].line}] ELSE got
          /\ airing' = [airing EXCEPT ![b].left = @ \ {s},
                                  ![b].dead = IF Reaches(s) THEN @ ELSE @ \cup {s}]
    BY <1>10 DEF CastSend
  <2> DEFINE dead == IF Reaches(s) THEN airing[b].dead ELSE airing[b].dead \cup {s}
             sent == [airing[b] EXCEPT !.left = airing[b].left \ {s}, !.dead = dead]
  <2>2. /\ UNCHANGED <<viewers, stage, link, past, history, spoken>> /\ s \in Screens
        /\ airing[b] \in [line : Nat, left : SUBSET Screens, dead : SUBSET Screens, on : BOOLEAN]
        /\ dead \in SUBSET Screens
    BY <1>10 DEF CastSend, ViewTypeOK
  <2>3. airing' = [airing EXCEPT ![b] = sent]
    BY <2>1 DEF ViewTypeOK
  <2>4. /\ sent \in [line : Nat, left : SUBSET Screens, dead : SUBSET Screens, on : BOOLEAN]
        /\ sent.line = airing[b].line /\ sent.left = airing[b].left \ {s} /\ sent.dead = dead
        /\ sent.on = airing[b].on
    <3> HIDE DEF dead
    <3> QED BY <2>2
  <2> HIDE DEF sent
  <2>5. /\ airing'[b] = sent /\ \A c \in Broadcasts : c # b => airing'[c] = airing[c]
        /\ airing' \in [Broadcasts -> [line : Nat, left : SUBSET Screens, dead : SUBSET Screens, on : BOOLEAN]]
    BY <2>3, <2>4 DEF ViewTypeOK
  <2>6. ViewTypeOK'
    BY <2>1, <2>2, <2>5 DEF ViewTypeOK
  <2>7. ViewersAreKnown'
    <3>1. airing[b].on
      BY <1>10 DEF CastSend
    <3>2. WorkersView'
      BY <2>2 DEF ViewersAreKnown, WorkersView
    <3>3. DeadAreBroken'
      BY <2>2, <2>4, <2>5 DEF ViewersAreKnown, DeadAreBroken, Reaches
    <3>4. IdleOweNothing'
      BY <2>4, <2>5, <3>1 DEF ViewersAreKnown, IdleOweNothing
    <3> QED BY <3>2, <3>3, <3>4 DEF ViewersAreKnown
  <2>8. ASSUME NEW o \in Screens, NEW line \in Nat \ {0}, link[o] = "up", Reached(o, line)
        PROVE  line \in got'[o] \/ ToBeSent(o, line)
                 \/ \E c \in Broadcasts : airing'[c].line = line /\ o \in airing'[c].left
    <3>1. CASE line \in got[o] \/ ToBeSent(o, line)
      BY <2>1, <2>2, <3>1 DEF ViewTypeOK
    <3>2. CASE Owed(o, line)
      <4>1. PICK c \in Broadcasts : airing[c].line = line /\ o \in airing[c].left
        BY <3>2 DEF Owed
      <4>2. CASE c = b /\ o = s
        BY <2>1, <2>2, <2>8, <4>1, <4>2 DEF ViewTypeOK, Reaches
      <4>3. CASE c # b \/ o # s
        BY <2>4, <2>5, <4>1, <4>3
      <4> QED BY <4>2, <4>3
    <3> QED BY <2>8, <3>1, <3>2 DEF Reached
  <2>9. \A i \in 1..Len(history) : history[i] \in Nat \ {0}
    BY DEF ViewTypeOK
  <2>10. ReachedInv'
    <3> SUFFICES ASSUME NEW o \in Screens, stage[o] \in {"history", "open"}, link[o] = "up"
                 PROVE  /\ stage[o] = "open" => past[o] = <<>>
                        /\ \A i \in 1..Len(history) : Reached(o, history[i])'
      BY <2>2 DEF ReachedInv
    <3>1. \A i \in 1..Len(history) : Reached(o, history[i])
      BY DEF ReachedInv
    <3>2. ASSUME NEW i \in 1..Len(history) PROVE Reached(o, history[i])'
      <4>1. /\ history[i] \in got'[o] \/ ToBeSent(o, history[i])
               \/ \E c \in Broadcasts : airing'[c].line = history[i] /\ o \in airing'[c].left
        BY <2>8, <2>9, <3>1
      <4> QED BY <2>2, <4>1 DEF Reached, ToBeSent, Owed
    <3> QED BY <3>2 DEF ReachedInv
  <2> QED BY <2>6, <2>7, <2>10
<1>11. ASSUME NEW b \in Broadcasts, CastEnd(b) PROVE ViewInv'
  <2>1. /\ airing'[b] = NoCast /\ NoCast.line = 0 /\ NoCast.left = {} /\ NoCast.dead = {}
        /\ \A c \in Broadcasts : c # b => airing'[c] = airing[c]
        /\ viewers' = viewers \ airing[b].dead /\ airing[b].left = {}
        /\ UNCHANGED <<stage, link, past, history, spoken, got>>
    BY <1>11 DEF CastEnd, NoCast, ViewTypeOK
  <2>2. ViewTypeOK'
    BY <1>11 DEF CastEnd, NoCast, ViewTypeOK
  <2>3. ViewersAreKnown'
    BY <2>1 DEF ViewersAreKnown, WorkersView, DeadAreBroken, IdleOweNothing
  <2>4. \A s \in Screens : \A line : Reached(s, line) => Reached(s, line)'
    BY <2>1 DEF Reached, ToBeSent, Owed
  <2>5. ReachedInv'
    BY <2>1, <2>4 DEF ReachedInv
  <2> QED BY <2>2, <2>3, <2>5
<1>12. CASE UNCHANGED viewVars
  <2>1. ViewTypeOK' /\ ViewersAreKnown'
    BY <1>12 DEF viewVars, ViewTypeOK, ViewersAreKnown, WorkersView, DeadAreBroken, IdleOweNothing
  <2>2. ReachedInv'
    BY <1>12 DEF viewVars, ReachedInv, Reached, ToBeSent, Owed
  <2> QED BY <2>1, <2>2
<1> QED BY <1>1, <1>2, <1>3, <1>4, <1>5, <1>6, <1>7, <1>8, <1>9, <1>10, <1>11, <1>12 DEF ViewNext

\* A dashboard that is open on a connection that is up has every line of the history, or a
\* broadcast still owes it to it: subscribe comes before the history is copied.
THEOREM NoLineIsMissed == ViewSpec => []NothingMissed
<1>1. ViewInit => ViewInv
  BY DEF ViewInit, NoCast, ViewInv, ViewTypeOK, ViewersAreKnown, ReachedInv, WorkersView, DeadAreBroken,
     IdleOweNothing
<1>2. ViewInv => NothingMissed
  BY DEF ViewInv, ReachedInv, Reached, ToBeSent, Owed, NothingMissed
<1> QED BY <1>1, <1>2, ViewStep, PTL DEF ViewSpec
=============================================================================
