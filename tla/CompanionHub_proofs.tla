------------------------ MODULE CompanionHub_proofs ------------------------
(***************************************************************************)
(* The games of one robot, for any number of dashboards, tasks, rounds and *)
(* cells: one game runs at a time, a result is credited at most once, and  *)
(* no game leaves the session busy with nobody there to end it.  And the   *)
(* board of tic-tac-toe: Mickey never loses on medium.                     *)
(***************************************************************************)
EXTENDS CompanionHub, TicTacToe, FiniteSetTheorems, TLAPS

(* The inductive invariant. *)

Outcomes == {"none", "player", "mickey", "draw"}

Handlers == [pc : HandPcs, kind : {"none", "chat", "sleep", "settings"}, won : Outcomes,
             mine : BOOLEAN]

GameTasks == [pc : GamePcs, kind : {"none", "rps", "think", "result"}, mine : BOOLEAN,
              same : BOOLEAN, cancel : BOOLEAN, dying : BOOLEAN, aborted : BOOLEAN]

Matches == [game : {"none", "rps", "ttt"},
            phase : {"none", "awaiting_throw", "countdown", "reveal", "your_turn",
                     "mickey_turn", "match_over"},
            last : Outcomes, x : Nat, o : Nat, pending : BOOLEAN, thrown : BOOLEAN]

Typed ==
    /\ hand \in [Viewers -> Handlers]
    /\ games \in [Tasks -> GameTasks]
    /\ match \in Matches
    /\ reg \in Tasks \cup {NoOne} /\ lock \in Viewers \cup Tasks \cup {NoOne}
    /\ owed \in Int

\* A match that waits for somebody has no result yet.
MatchInv == match.phase \notin {"reveal", "match_over"} => match.last = "none"

\* Where a task is says what it plays; only a chant that was cancelled, or has raised, is dying.
KindOf(g) ==
    /\ g.dying => g.pc = "grace"
    /\ g.pc # "none" => g.kind # "none"
    /\ g.pc \in {"told", "face", "chant", "grace"} => g.kind = "rps"
    /\ g.pc \in {"think", "placed", "over"} => g.kind = "think"
    /\ g.pc \in {"react", "after"} => g.kind \in {"rps", "result"}

KindInv == \A t \in Tasks : KindOf(games[t])

\* The lock is held by who is in the body of companion_action.
Inside == {"face", "chant", "grace", "react", "think"}

LockInv ==
    /\ \A t \in Tasks : lock = t <=> games[t].pc \in Inside
    /\ \A v \in Viewers : lock = v <=> hand[v].pc = "asked"

\* A game was cancelled in its reaction, or its speech raised.
Abandoned == cut \cap {"game", "raised"} # {}

\* Somebody who makes a busy session READY is on the way.
Rescued ==
    \/ turn # "none" \/ Abandoned \/ \E v \in Viewers : hand[v].pc = "stopping"
    \/ \E t \in Tasks : lock = t /\ Live(t)
    \/ \E v \in Viewers : lock = v /\ hand[v].kind = "chat"

BusyInv == Busy => Rescued

\* The match that a task which was not cancelled plays is the one it has begun with: no
\* command changes its game, or moves in it while the robot thinks.
PlaysOn(g) ==
    g.mine => /\ g.kind = "rps" /\ g.pc # "run" => match.game = "rps"
              /\ g.kind = "think" /\ g.pc \in {"queue", "think"} => match.phase = "mickey_turn"

PlayInv == \A t \in Tasks : Live(t) => PlaysOn(games[t])

\* Who may still credit a result: the handlers that know a winner, and the task.
Claims == {v \in Viewers : hand[v].pc \in {"moved", "stopping"} /\ hand[v].won # "none"}

Pays(g) ==
    \/ g.kind = "result" \/ g.pc = "placed"
    \/ g.kind = "rps" /\ g.pc # "run" /\ g.mine /\ match.last # "none"

Due == \E t \in Tasks : Live(t) /\ Pays(games[t])

DebtInv == owed >= Cardinality(Claims) + (IF Due THEN 1 ELSE 0)

HubInv ==
    Typed /\ MatchInv /\ KindInv /\ OneGame /\ LockInv /\ BusyInv /\ PlayInv /\ DebtInv

-----------------------------------------------------------------------------
(* The debt, however it changes. *)

LEMMA ClaimsFinite ==
  IsFiniteSet(Claims) /\ Cardinality(Claims) \in Nat
<1>1. Claims \subseteq Viewers
  BY DEF Claims
<1> QED BY <1>1, HubAssumption, FS_Subset, FS_CardinalityType

LEMMA ClaimsFiniteNext ==
  IsFiniteSet(Claims') /\ Cardinality(Claims') \in Nat
<1>1. Claims' \subseteq Viewers
  BY DEF Claims
<1> QED BY <1>1, HubAssumption, FS_Subset, FS_CardinalityType

\* Nobody new may credit.
LEMMA DebtKept ==
  ASSUME DebtInv, owed \in Int, owed' \in Int, owed' >= owed, Claims' \subseteq Claims, Due' => Due
  PROVE  DebtInv'
<1>1. Cardinality(Claims') <= Cardinality(Claims)
  BY ClaimsFinite, FS_Subset
<1> QED BY <1>1, ClaimsFinite, ClaimsFiniteNext DEF DebtInv

\* A result: the task may credit it.
LEMMA DebtEarned ==
  ASSUME DebtInv, owed \in Int, owed' = owed + 1, Claims' \subseteq Claims
  PROVE  DebtInv'
<1>1. Cardinality(Claims') <= Cardinality(Claims)
  BY ClaimsFinite, FS_Subset
<1> QED BY <1>1, ClaimsFinite, ClaimsFiniteNext DEF DebtInv

\* A result: the handler of v may credit it.
LEMMA DebtClaimed ==
  ASSUME DebtInv, owed \in Int, owed' = owed + 1, NEW v \in Viewers,
         Claims' \subseteq Claims \cup {v}, Due' => Due
  PROVE  DebtInv'
<1>1. IsFiniteSet(Claims \cup {v}) /\ Cardinality(Claims \cup {v}) <= Cardinality(Claims) + 1
      /\ Cardinality(Claims \cup {v}) \in Nat
  <2>1. IsFiniteSet(Claims \cup {v})
        /\ Cardinality(Claims \cup {v}) =
             (IF v \in Claims THEN Cardinality(Claims) ELSE Cardinality(Claims) + 1)
    BY ClaimsFinite, FS_AddElement, Zenon
  <2> QED BY <2>1, ClaimsFinite
<1>2. Cardinality(Claims') <= Cardinality(Claims \cup {v})
  BY <1>1, FS_Subset
<1> QED BY <1>1, <1>2, ClaimsFinite, ClaimsFiniteNext DEF DebtInv

\* The handler of v has given its claim to a task, or has been credited.
LEMMA DebtMoves ==
  ASSUME DebtInv, owed \in Int, NEW v \in Claims, Claims' \subseteq Claims \ {v},
         owed' = owed \/ (owed' = owed - 1 /\ (Due' => Due))
  PROVE  DebtInv'
<1>1. IsFiniteSet(Claims \ {v}) /\ Cardinality(Claims \ {v}) = Cardinality(Claims) - 1
      /\ Cardinality(Claims \ {v}) \in Nat
  BY ClaimsFinite, FS_RemoveElement, FS_CardinalityType
<1>2. Cardinality(Claims') <= Cardinality(Claims \ {v})
  BY <1>1, FS_Subset
<1> QED BY <1>1, <1>2, ClaimsFinite, ClaimsFiniteNext DEF DebtInv

\* The task has credited.
LEMMA DebtPaid ==
  ASSUME DebtInv, owed \in Int, owed' = owed - 1, Claims' \subseteq Claims, Due, ~Due'
  PROVE  DebtInv'
<1>1. Cardinality(Claims') <= Cardinality(Claims)
  BY ClaimsFinite, FS_Subset
<1> QED BY <1>1, ClaimsFinite, ClaimsFiniteNext DEF DebtInv

-----------------------------------------------------------------------------
(* What the steps do to the tasks. *)

Others(t) == \A u \in Tasks \ {t} : games'[u] = games[u]

\* The task t goes on at pc.
GoesOn(t, pc) ==
    /\ games' \in [Tasks -> GameTasks] /\ Others(t)
    /\ games'[t].pc = pc /\ games'[t].kind = games[t].kind /\ games'[t].mine = games[t].mine
    /\ games'[t].cancel = games[t].cancel /\ games'[t].dying = games[t].dying

LEMMA WalksOn ==
  ASSUME games \in [Tasks -> GameTasks], NEW t \in Tasks, NEW pc \in GamePcs, Walks(t, pc)
  PROVE  GoesOn(t, pc)
<1>1. games' = [games EXCEPT ![t] = [games[t] EXCEPT !.pc = pc]]
  BY DEF Walks
<1>2. [games[t] EXCEPT !.pc = pc] \in GameTasks
  BY DEF GameTasks
<1> QED BY <1>1, <1>2 DEF GoesOn, Others, GameTasks

LEMMA BacksOn ==
  ASSUME games \in [Tasks -> GameTasks], NEW t \in Tasks, NEW pc \in GamePcs, NEW b \in BOOLEAN,
         BackToReady(t, pc, b)
  PROVE  GoesOn(t, pc) /\ lock' = NoOne /\ ~Busy' /\ UNCHANGED <<reg, turn>>
<1>1. games' = [games EXCEPT ![t] = [games[t] EXCEPT !.pc = pc, !.aborted = b]]
  BY DEF BackToReady
<1>2. [games[t] EXCEPT !.pc = pc, !.aborted = b] \in GameTasks
  BY DEF GameTasks
<1>3. GoesOn(t, pc)
  BY <1>1, <1>2 DEF GoesOn, Others, GameTasks
<1> QED BY <1>3 DEF BackToReady, Busy, Offline

\* The task t is over.
LEMMA GameEnds ==
  ASSUME Typed, OneGame, KindInv, NEW t \in Tasks, GameOver(t)
  PROVE  /\ games' \in [Tasks -> GameTasks] /\ Others(t) /\ games'[t] = NoGame
         /\ reg' \in Tasks \cup {NoOne} /\ lock' = (IF lock = t THEN NoOne ELSE lock)
         /\ OneGame' /\ KindInv'
<1>1. NoGame \in GameTasks
  BY DEF NoGame, GameTasks, GamePcs
<1>2. games' \in [Tasks -> GameTasks] /\ Others(t) /\ games'[t] = NoGame
  BY <1>1 DEF GameOver, Others, Typed
<1>3. reg' = (IF reg = t THEN NoOne ELSE reg) /\ lock' = (IF lock = t THEN NoOne ELSE lock)
  BY DEF GameOver, DonePops
<1>4. OneGame'
  BY <1>2, <1>3 DEF OneGame, Live, Alive, NoGame, Others
<1>5. KindInv'
  BY <1>2 DEF KindInv, KindOf, NoGame, Others
<1> QED BY <1>2, <1>3, <1>4, <1>5 DEF Typed

\* A task that goes on and leaves the registry alone.
LEMMA GoesOnKeeps ==
  ASSUME Typed, OneGame, KindInv, NEW t \in Tasks, NEW pc, GoesOn(t, pc), Alive(t), pc # "none",
         reg' = reg, KindOf(games'[t])
  PROVE  OneGame' /\ KindInv' /\ \A u \in Tasks : Live(u)' <=> Live(u)
<1>1. \A u \in Tasks : Live(u)' <=> Live(u)
  BY DEF GoesOn, Others, Live, Alive
<1>2. OneGame'
  BY <1>1 DEF OneGame
<1>3. KindInv'
  BY DEF GoesOn, Others, KindInv
<1> QED BY <1>1, <1>2, <1>3

\* The generation changes.
LEMMA BumpedKeeps ==
  ASSUME Typed, OneGame, KindInv, games' \in {games, Bumped(games)}, reg' = reg
  PROVE  /\ games' \in [Tasks -> GameTasks] /\ OneGame' /\ KindInv'
         /\ \A u \in Tasks : /\ games'[u].pc = games[u].pc /\ games'[u].kind = games[u].kind
                             /\ games'[u].mine = games[u].mine
                             /\ games'[u].cancel = games[u].cancel
                             /\ games'[u].dying = games[u].dying
<1>1. \A g \in GameTasks : [g EXCEPT !.same = FALSE] \in GameTasks
  BY DEF GameTasks
<1>2. games' \in [Tasks -> GameTasks]
  BY <1>1 DEF Bumped, Typed
<1>3. \A u \in Tasks : /\ games'[u].pc = games[u].pc /\ games'[u].kind = games[u].kind
                       /\ games'[u].mine = games[u].mine
                       /\ games'[u].cancel = games[u].cancel
                       /\ games'[u].dying = games[u].dying
  BY DEF Bumped, Typed, GameTasks
<1>4. OneGame'
  BY <1>3 DEF OneGame, Live, Alive
<1>5. KindInv'
  BY <1>3 DEF KindInv, KindOf
<1> QED BY <1>2, <1>3, <1>4, <1>5

\* The registered task is told to end, and nobody is registered.
LEMMA CancelsAll ==
  ASSUME Typed, OneGame, KindInv, reg' = NoOne,
         games' \in {GameCancelled(games), Replacing(GameCancelled(games))}
  PROVE  /\ games' \in [Tasks -> GameTasks] /\ OneGame' /\ KindInv'
         /\ \A u \in Tasks : ~Live(u)' /\ games'[u].pc = games[u].pc
<1> DEFINE g == GameCancelled(games)
<1>1. g \in [Tasks -> GameTasks]
  BY DEF GameCancelled, Typed, GameTasks
<1>2. \A u \in Tasks : /\ g[u].pc = games[u].pc /\ g[u].kind = games[u].kind
                       /\ g[u].dying = games[u].dying
                       /\ g[u].cancel = (games[u].cancel \/ u = reg)
  BY HubAssumption DEF GameCancelled, Typed, GameTasks
<1> HIDE DEF g
<1>3. \A u \in Tasks : /\ games'[u].pc = g[u].pc /\ games'[u].kind = g[u].kind
                       /\ games'[u].dying = g[u].dying /\ games'[u].cancel = g[u].cancel
  BY <1>1 DEF Replacing, GameTasks, g
<1>4. \A e \in GameTasks : [e EXCEPT !.mine = FALSE] \in GameTasks
  BY DEF GameTasks
<1>5. games' \in [Tasks -> GameTasks]
  BY <1>1, <1>4 DEF Replacing, g
<1>6. \A u \in Tasks : ~Live(u)' /\ games'[u].pc = games[u].pc
  BY <1>2, <1>3 DEF OneGame, Live, Alive
<1>7. KindInv'
  BY <1>2, <1>3 DEF KindInv, KindOf
<1> QED BY <1>5, <1>6, <1>7 DEF OneGame

\* A new task takes the place of the registered one.
LEMMA Spawns ==
  ASSUME Typed, OneGame, KindInv, NEW kind \in {"rps", "think", "result"}, Spawn(kind, games)
  PROVE  \E t \in Tasks :
            /\ games' \in [Tasks -> GameTasks] /\ OneGame' /\ KindInv' /\ reg' \in Tasks
            /\ ~Alive(t) /\ games'[t] = [NoGame EXCEPT !.pc = "run", !.kind = kind]
            /\ \A u \in Tasks \ {t} : ~Live(u)' /\ games'[u].pc = games[u].pc
            /\ cut \subseteq cut'
            /\ \A u \in Tasks : lock = u /\ Live(u) => "game" \in cut'
<1> DEFINE new == [NoGame EXCEPT !.pc = "run", !.kind = kind]
           g == GameCancelled(games)
<1>1. PICK t \in Tasks :
        /\ ~Alive(t) /\ games' = [g EXCEPT ![t] = new] /\ reg' = t
        /\ cut' = cut \cup (IF reg # NoOne /\ reg = lock THEN {"game"} ELSE {})
                      \cup (IF reg # NoOne /\ kind # "rps" THEN {"crossed"} ELSE {})
  BY DEF Spawn
<1>2. g \in [Tasks -> GameTasks]
  BY DEF GameCancelled, Typed, GameTasks
<1>3. \A u \in Tasks : /\ g[u].pc = games[u].pc /\ g[u].kind = games[u].kind
                       /\ g[u].dying = games[u].dying
                       /\ g[u].cancel = (games[u].cancel \/ u = reg)
  BY HubAssumption DEF GameCancelled, Typed, GameTasks
<1>4. new \in GameTasks /\ new.pc = "run" /\ new.kind = kind /\ ~new.dying
  BY DEF NoGame, GameTasks, GamePcs
<1> HIDE DEF g, new
<1>5. games' \in [Tasks -> GameTasks] /\ games'[t] = new
      /\ \A u \in Tasks \ {t} : games'[u] = g[u]
  BY <1>1, <1>2, <1>4
<1>6. \A u \in Tasks \ {t} : ~Live(u)' /\ games'[u].pc = games[u].pc
  BY <1>3, <1>5 DEF OneGame, Live, Alive
<1>7. OneGame'
  BY <1>1, <1>6 DEF OneGame
<1>8. KindInv'
  <2>1. KindOf(new)
    BY <1>4 DEF KindOf
  <2>2. \A u \in Tasks \ {t} : KindOf(games'[u])
    BY <1>3, <1>5 DEF KindInv, KindOf
  <2> QED BY <1>5, <2>1, <2>2 DEF KindInv
<1>9. \A u \in Tasks : lock = u /\ Live(u) => "game" \in cut'
  BY <1>1, HubAssumption DEF OneGame
<1> QED BY <1>1, <1>5, <1>6, <1>7, <1>8, <1>9 DEF new

-----------------------------------------------------------------------------
(* What the steps do to the match and to a handler. *)

\* m is a state that the match may go to.
Follows(m) ==
    /\ m \in Matches /\ m.game = match.game
    /\ m.phase \notin {"reveal", "match_over"} => m.last = "none"

LEMMA Scores ==
  ASSUME NEW m \in Matches, NEW x \in Nat, NEW o \in Nat
  PROVE  /\ [m EXCEPT !.x = x] \in Matches /\ [m EXCEPT !.x = x].game = m.game
         /\ [m EXCEPT !.o = o, !.pending = FALSE] \in Matches
         /\ [m EXCEPT !.o = o, !.pending = FALSE].game = m.game
<1>1. [m EXCEPT !.x = x] \in Matches /\ [m EXCEPT !.x = x].game = m.game
  BY DEF Matches
<1>2. /\ [m EXCEPT !.o = o, !.pending = FALSE] \in Matches
      /\ [m EXCEPT !.o = o, !.pending = FALSE].game = m.game
  BY DEF Matches
<1> QED BY <1>1, <1>2

LEMMA MarkedFollows ==
  ASSUME Typed, NEW who \in {"player", "mickey"}, NEW m \in Marked(who)
  PROVE  Follows(m)
<1> DEFINE n == IF who = "player" THEN [match EXCEPT !.x = @ + 1]
                                  ELSE [match EXCEPT !.o = @ + 1, !.pending = FALSE]
<1>1. PICK w \in Winners(who, n.x + n.o) :
        m = [n EXCEPT !.last = w, !.phase = IF w # "none" THEN "match_over" ELSE "your_turn"]
  BY DEF Marked
<1>2. n \in Matches /\ n.game = match.game
  <2>1. match \in Matches /\ match.x + 1 \in Nat /\ match.o + 1 \in Nat
    BY DEF Typed, Matches
  <2>2. "none" \in Outcomes /\ FALSE \in BOOLEAN
    BY DEF Outcomes
  <2>3. /\ [match EXCEPT !.x = @ + 1] \in Matches /\ [match EXCEPT !.x = @ + 1].game = match.game
        /\ [match EXCEPT !.o = @ + 1, !.pending = FALSE] \in Matches
        /\ [match EXCEPT !.o = @ + 1, !.pending = FALSE].game = match.game
    BY <2>1, <2>2, Scores, Zenon
  <2> QED BY <2>3
<1>3. w \in Outcomes
  BY DEF Winners, Outcomes
<1> HIDE DEF n
<1>4. CASE w = "none"
  BY <1>1, <1>2, <1>3, <1>4 DEF Follows, Matches
<1>5. CASE w # "none"
  <2>1. m = [n EXCEPT !.last = w, !.phase = "match_over"]
    BY <1>1, <1>5
  <2> QED BY <1>2, <1>3, <2>1 DEF Follows, Matches
<1> QED BY <1>4, <1>5

LEMMA StaysFollows ==
  ASSUME Typed, MatchInv
  PROVE  Follows(match)
BY DEF Follows, MatchInv, Typed

LEMMA AppliedFollows ==
  ASSUME Typed, MatchInv, NEW m \in Applied
  PROVE  Follows(m)
BY MarkedFollows, StaysFollows DEF Applied

LEMMA AbortFollows ==
  ASSUME Typed, MatchInv
  PROVE  Follows(AbortRound)
BY StaysFollows DEF AbortRound, Follows, Typed, Matches, Outcomes

LEMMA RevealsFollow ==
  ASSUME Typed, MatchInv, NEW m \in Reveals
  PROVE  Follows(m)
<1>1. CASE ~match.thrown
  BY <1>1 DEF Reveals, Follows, Typed, Matches, Outcomes
<1>2. CASE match.thrown
  <2> DEFINE Counted(w) == [match EXCEPT !.last = w, !.thrown = FALSE,
                                       !.x = @ + (IF w = "player" THEN 1 ELSE 0),
                                       !.o = @ + (IF w = "mickey" THEN 1 ELSE 0)]
  <2>a. PICK s \in {Counted(w) : w \in {"player", "mickey", "draw"}} :
          m \in {[s EXCEPT !.phase = "match_over"], [s EXCEPT !.phase = "reveal"]}
    <3>1. m \in {[n EXCEPT !.phase = IF WinsNeeded \in {n.x, n.o} THEN "match_over" ELSE "reveal"] :
                    n \in {Counted(w) : w \in {"player", "mickey", "draw"}}}
      BY <1>2, Zenon DEF Reveals
    <3> HIDE DEF Counted
    <3>2. PICK s \in {Counted(w) : w \in {"player", "mickey", "draw"}} :
            m = [s EXCEPT !.phase = IF WinsNeeded \in {s.x, s.o} THEN "match_over" ELSE "reveal"]
      BY <3>1
    <3> QED BY <3>2
  <2>1. PICK w \in {"player", "mickey", "draw"} : s = Counted(w)
    OBVIOUS
  <2>2. Counted(w) \in Matches /\ Counted(w).game = match.game
    <3>1. match \in Matches /\ match.x \in Nat /\ match.o \in Nat
      BY DEF Typed, Matches
    <3>2. /\ match.x + (IF w = "player" THEN 1 ELSE 0) \in Nat
          /\ match.o + (IF w = "mickey" THEN 1 ELSE 0) \in Nat
      BY <3>1
    <3>3. w \in Outcomes /\ FALSE \in BOOLEAN
      BY DEF Outcomes
    <3> DEFINE x == match.x + (IF w = "player" THEN 1 ELSE 0)
               o == match.o + (IF w = "mickey" THEN 1 ELSE 0)
    <3>4. Counted(w) = [match EXCEPT !.last = w, !.thrown = FALSE, !.x = x, !.o = o]
      BY Zenon
    <3>5. x \in Nat /\ o \in Nat
      BY <3>2
    <3> HIDE DEF x, o, Counted
    <3>6. /\ [match EXCEPT !.last = w, !.thrown = FALSE, !.x = x, !.o = o] \in Matches
          /\ [match EXCEPT !.last = w, !.thrown = FALSE, !.x = x, !.o = o].game = match.game
      BY <3>1, <3>3, <3>5 DEF Matches
    <3> QED BY <3>4, <3>6
  <2> HIDE DEF Counted
  <2> QED BY <2>a, <2>1, <2>2 DEF Follows, Matches
<1> QED BY <1>1, <1>2

LEMMA StoppedFollows ==
  ASSUME Typed, MatchInv, NEW m \in Stopped
  PROVE  Follows(m)
BY AppliedFollows, AbortFollows, StaysFollows DEF Stopped

\* The match becomes what may follow: a result is owed, once.
LEMMA BecomesWhat ==
  ASSUME Typed, NEW m, Follows(m), Becomes(m)
  PROVE  /\ match' = m /\ match' \in Matches /\ MatchInv' /\ match'.game = match.game
         /\ owed' = (IF m.last # "none" /\ match.last = "none" THEN owed + 1 ELSE owed)
         /\ owed' \in Int
BY DEF Typed, Becomes, Follows, MatchInv

\* The handler of v goes to pc.
LEMMA HandGoes ==
  ASSUME hand \in [Viewers -> Handlers], NEW v \in Viewers, NEW pc \in HandPcs, Goes(v, pc)
  PROVE  /\ hand' \in [Viewers -> Handlers] /\ \A w \in Viewers \ {v} : hand'[w] = hand[w]
         /\ hand'[v].pc = pc /\ hand'[v].kind = hand[v].kind /\ hand'[v].won = hand[v].won
<1>1. hand' = [hand EXCEPT ![v] = [hand[v] EXCEPT !.pc = pc]]
  BY DEF Goes
<1>2. [hand[v] EXCEPT !.pc = pc] \in Handlers
  BY DEF Handlers
<1> QED BY <1>1, <1>2 DEF Handlers

\* A handler that leaves the lock alone, and stops nothing.
LEMMA LockStays ==
  ASSUME Typed, LockInv, lock' = lock,
         \A t \in Tasks : games'[t].pc \in Inside <=> games[t].pc \in Inside,
         \A v \in Viewers : hand'[v].pc = "asked" <=> hand[v].pc = "asked"
  PROVE  LockInv'
BY DEF LockInv

-----------------------------------------------------------------------------
(* The handlers. *)

\* A session that is not busy, or is left so.
LEMMA NotBusy == ASSUME ~Busy' PROVE BusyInv'
BY DEF BusyInv

\* No task runs that was not cancelled.
LEMMA NoneLive ==
  ASSUME \A u \in Tasks : ~Live(u)'
  PROVE  PlayInv' /\ ~Due'
BY DEF PlayInv, Due

LEMMA StartGameKeeps ==
  ASSUME HubInv, NEW v \in Viewers, StartGame(v)
  PROVE  HubInv'
<1> USE DEF HubInv
<1>1. /\ reg' = NoOne /\ games' = Replacing(GameCancelled(games)) /\ lock' = lock /\ owed' = owed
      /\ st' = st /\ ~Busy /\ hand[v].pc = "idle"
  BY DEF StartGame, TakesCommand
<1>2. /\ games' \in [Tasks -> GameTasks] /\ OneGame' /\ KindInv'
      /\ \A u \in Tasks : ~Live(u)' /\ games'[u].pc = games[u].pc
  BY <1>1, CancelsAll
<1>3. match' \in Matches /\ match'.last = "none"
  <2>1. CASE match' = [NoMatch EXCEPT !.game = "rps", !.phase = "awaiting_throw"]
    BY <2>1 DEF NoMatch, Matches, Outcomes
  <2>2. CASE match' = [NoMatch EXCEPT !.game = "ttt", !.phase = "your_turn"]
    BY <2>2 DEF NoMatch, Matches, Outcomes
  <2> QED BY <2>1, <2>2 DEF StartGame
<1>4. /\ hand' \in [Viewers -> Handlers]
      /\ \A w \in Viewers \ {v} : hand'[w].pc = hand[w].pc /\ hand'[w].won = hand[w].won
      /\ hand'[v].pc \in {"idle", "started"}
  <2> DEFINE h == Replaced(hand)
  <2>1. \A e \in Handlers : [e EXCEPT !.mine = FALSE] \in Handlers
    BY DEF Handlers
  <2>2. /\ h \in [Viewers -> Handlers]
        /\ \A w \in Viewers : h[w].pc = hand[w].pc /\ h[w].won = hand[w].won
    BY <2>1 DEF Replaced, Typed, Handlers
  <2> HIDE DEF h
  <2>3. CASE hand' = h
    BY <1>1, <2>2, <2>3
  <2>4. CASE hand' = [h EXCEPT ![v] = [h[v] EXCEPT !.pc = "started"]]
    <3>1. [h[v] EXCEPT !.pc = "started"] \in Handlers /\ [h[v] EXCEPT !.pc = "started"].pc = "started"
      BY <2>2 DEF Handlers, HandPcs
    <3> QED BY <2>2, <2>4, <3>1
  <2> QED BY <2>3, <2>4 DEF StartGame, h
<1>5. LockInv'
  BY <1>1, <1>2, <1>4, LockStays
<1>6. DebtInv'
  <2>1. Claims' \subseteq Claims
    BY <1>4 DEF Claims
  <2> QED BY <1>1, <1>2, <2>1, NoneLive, DebtKept DEF Typed
<1>7. BusyInv'
  BY <1>1, NotBusy DEF Busy
<1> QED BY <1>1, <1>2, <1>3, <1>4, <1>5, <1>6, <1>7, NoneLive DEF Typed, MatchInv

\* A new task: nobody has to rescue what it does not find busy, and it has earned nothing yet
\* unless it is born of a result.
LEMMA SpawnKeeps ==
  ASSUME HubInv, NEW kind \in {"rps", "think", "result"}, Spawn(kind, games),
         lock' = lock, UNCHANGED <<st, turn>>,
         \A w \in Viewers : /\ hand'[w].pc = "asked" <=> hand[w].pc = "asked"
                            /\ hand[w].pc = "asked" => hand'[w].kind = hand[w].kind
                            /\ hand[w].pc = "stopping" => hand'[w].pc = "stopping"
  PROVE  /\ games' \in [Tasks -> GameTasks] /\ OneGame' /\ KindInv' /\ reg' \in Tasks
         /\ LockInv' /\ BusyInv' /\ PlayInv' /\ (kind # "result" => ~Due')
<1> USE DEF HubInv
<1>1. PICK t \in Tasks :
            /\ games' \in [Tasks -> GameTasks] /\ OneGame' /\ KindInv' /\ reg' \in Tasks
            /\ ~Alive(t) /\ games'[t] = [NoGame EXCEPT !.pc = "run", !.kind = kind]
            /\ \A u \in Tasks \ {t} : ~Live(u)' /\ games'[u].pc = games[u].pc
            /\ cut \subseteq cut'
            /\ \A u \in Tasks : lock = u /\ Live(u) => "game" \in cut'
  BY Spawns
<1>2. games'[t].pc = "run" /\ games'[t].kind = kind /\ ~games'[t].mine
  BY <1>1 DEF NoGame
<1>3. LockInv'
  BY <1>1, <1>2, LockStays DEF Alive, Inside
<1>4. BusyInv'
  <2> SUFFICES ASSUME Busy' PROVE Rescued'
    BY DEF BusyInv
  <2>1. Rescued
    BY DEF BusyInv, Busy
  <2> QED BY <1>1, <2>1 DEF Rescued, Abandoned, LockInv
<1>5. PlayInv'
  BY <1>1, <1>2 DEF PlayInv, PlaysOn
<1>6. kind # "result" => ~Due'
  BY <1>1, <1>2 DEF Due, Pays
<1> QED BY <1>1, <1>3, <1>4, <1>5, <1>6

LEMMA StartedKeeps ==
  ASSUME HubInv, NEW v \in Viewers, Started(v) \/ Thought(v)
  PROVE  HubInv'
<1> USE DEF HubInv
<1>1. PICK kind \in {"rps", "think"} :
        /\ Spawn(kind, games) /\ Goes(v, "idle") /\ hand[v].pc \in {"started", "thinking"}
        /\ UNCHANGED <<match, st, turn, lock, round, owed, left>>
  BY DEF Started, Thought
<1>2. /\ hand' \in [Viewers -> Handlers] /\ \A w \in Viewers \ {v} : hand'[w] = hand[w]
      /\ hand'[v].pc = "idle"
  BY <1>1, HandGoes DEF Typed, HandPcs
<1>3. /\ games' \in [Tasks -> GameTasks] /\ OneGame' /\ KindInv' /\ reg' \in Tasks
      /\ LockInv' /\ BusyInv' /\ PlayInv' /\ ~Due'
  BY <1>1, <1>2, SpawnKeeps
<1>4. Claims' \subseteq Claims
  BY <1>2 DEF Claims
<1>5. DebtInv'
  BY <1>1, <1>3, <1>4, DebtKept DEF Typed
<1> QED BY <1>1, <1>2, <1>3, <1>5 DEF Typed, MatchInv

LEMMA RoundKeeps ==
  ASSUME HubInv, NEW v \in Viewers, Round(v)
  PROVE  HubInv'
<1> USE DEF HubInv
<1>1. Spawn("rps", games) /\ UNCHANGED <<hand, st, turn, lock, owed>>
  BY DEF Round, TakesCommand
<1>2. match' \in Matches /\ MatchInv'
  <2>1. CASE match' = match
    BY <2>1 DEF Typed, MatchInv
  <2>2. CASE match' = [NoMatch EXCEPT !.game = "rps", !.phase = "awaiting_throw"]
    BY <2>2 DEF NoMatch, Matches, Outcomes, MatchInv
  <2> QED BY <2>1, <2>2 DEF Round
<1>3. /\ games' \in [Tasks -> GameTasks] /\ OneGame' /\ KindInv' /\ reg' \in Tasks
      /\ LockInv' /\ BusyInv' /\ PlayInv' /\ ~Due'
  BY <1>1, SpawnKeeps
<1>4. Claims' = Claims
  BY <1>1 DEF Claims
<1>5. DebtInv'
  BY <1>1, <1>3, <1>4, DebtKept DEF Typed
<1> QED BY <1>1, <1>2, <1>3, <1>5 DEF Typed

LEMMA ThrowKeeps ==
  ASSUME HubInv, NEW v \in Viewers, Throw(v)
  PROVE  HubInv'
<1> USE DEF HubInv
<1>1. /\ match' = [match EXCEPT !.thrown = TRUE]
      /\ UNCHANGED <<hand, games, reg, st, turn, lock, owed, cut>>
  BY DEF Throw, TakesCommand
<1>2. /\ match' \in Matches /\ match'.game = match.game /\ match'.phase = match.phase
      /\ match'.last = match.last
  BY <1>1 DEF Typed, Matches
<1>3. PlayInv'
  BY <1>1, <1>2 DEF PlayInv, PlaysOn, Live, Alive
<1>4. Claims' = Claims /\ (Due' => Due)
  BY <1>1, <1>2 DEF Claims, Due, Pays, Live, Alive
<1>5. DebtInv'
  BY <1>1, <1>4, DebtKept DEF Typed
<1>6. LockInv' /\ BusyInv' /\ OneGame' /\ KindInv'
  BY <1>1 DEF LockInv, BusyInv, Rescued, Abandoned, Busy, Live, Alive, OneGame, KindInv, KindOf
<1> QED BY <1>1, <1>2, <1>3, <1>5, <1>6 DEF Typed, MatchInv

\* A handler that goes on, while the tasks, the lock and the session stay.
LEMMA HandlerGoes ==
  ASSUME HubInv, NEW v \in Viewers, UNCHANGED <<games, reg, st, turn, lock, cut>>,
         hand' \in [Viewers -> Handlers], \A w \in Viewers \ {v} : hand'[w] = hand[w],
         hand[v].pc \notin {"asked", "stopping"}, hand'[v].pc # "asked"
  PROVE  OneGame' /\ KindInv' /\ LockInv' /\ BusyInv' /\ \A u \in Tasks : Live(u)' <=> Live(u)
<1> USE DEF HubInv
<1>1. OneGame' /\ KindInv' /\ \A u \in Tasks : Live(u)' <=> Live(u)
  BY DEF OneGame, KindInv, KindOf, Live, Alive
<1>2. LockInv'
  BY DEF LockInv
<1>3. BusyInv'
  BY <1>1 DEF BusyInv, Rescued, Abandoned, Busy, LockInv
<1> QED BY <1>1, <1>2, <1>3

LEMMA MoveKeeps ==
  ASSUME HubInv, NEW v \in Viewers, Move(v)
  PROVE  HubInv'
<1> USE DEF HubInv
<1>1. PICK m \in Marked("player") :
        /\ Becomes(m)
        /\ hand' = [hand EXCEPT ![v].pc = "moved", ![v].won = m.last, ![v].mine = TRUE]
  BY DEF Move
<1>2. /\ UNCHANGED <<games, reg, st, turn, lock, cut>> /\ hand[v].pc = "idle"
      /\ match.phase = "your_turn" /\ match.game = "ttt" /\ match.last = "none"
  BY DEF Move, TakesCommand, MatchInv
<1>3. Follows(m)
  BY MarkedFollows
<1>4. /\ match' = m /\ match' \in Matches /\ MatchInv' /\ match'.game = match.game /\ owed' \in Int
      /\ owed' = (IF m.last # "none" THEN owed + 1 ELSE owed)
  BY <1>1, <1>2, <1>3, BecomesWhat
<1>5. /\ hand' \in [Viewers -> Handlers] /\ \A w \in Viewers \ {v} : hand'[w] = hand[w]
      /\ hand'[v].pc = "moved" /\ hand'[v].won = m.last
  <2>1. m.last \in Outcomes
    BY <1>4 DEF Matches
  <2>2. /\ [hand[v] EXCEPT !.pc = "moved", !.won = m.last, !.mine = TRUE] \in Handlers
        /\ [hand[v] EXCEPT !.pc = "moved", !.won = m.last, !.mine = TRUE].pc = "moved"
        /\ [hand[v] EXCEPT !.pc = "moved", !.won = m.last, !.mine = TRUE].won = m.last
    BY <2>1 DEF Typed, Handlers, HandPcs
  <2>3. hand' = [hand EXCEPT ![v] = [hand[v] EXCEPT !.pc = "moved", !.won = m.last, !.mine = TRUE]]
    BY <1>1
  <2> QED BY <2>2, <2>3 DEF Typed
<1>6. OneGame' /\ KindInv' /\ LockInv' /\ BusyInv' /\ \A u \in Tasks : Live(u)' <=> Live(u)
  BY <1>2, <1>5, HandlerGoes
<1>7. PlayInv'
  BY <1>2, <1>4, <1>6 DEF PlayInv, PlaysOn
<1>8. Due' => Due
  BY <1>2, <1>4, <1>6 DEF PlayInv, PlaysOn, Due, Pays
<1>9. DebtInv'
  <2>1. CASE m.last = "none"
    <3>1. Claims' \subseteq Claims
      BY <1>5, <2>1 DEF Claims
    <3> QED BY <1>4, <1>8, <2>1, <3>1, DebtKept DEF Typed
  <2>2. CASE m.last # "none"
    <3>1. Claims' \subseteq Claims \cup {v}
      BY <1>5 DEF Claims
    <3> QED BY <1>4, <1>8, <2>2, <3>1, DebtClaimed DEF Typed
  <2> QED BY <2>1, <2>2
<1> QED BY <1>2, <1>4, <1>5, <1>6, <1>7, <1>9 DEF Typed

LEMMA MovedKeeps ==
  ASSUME HubInv, NEW v \in Viewers, Moved(v)
  PROVE  HubInv'
<1> USE DEF HubInv
<1>1. PICK pc \in {"idle", "thinking"} : Goes(v, pc) /\ (hand[v].won # "none" => pc = "idle")
  BY DEF Moved
<1>2. hand[v].pc = "moved" /\ UNCHANGED <<st, turn, lock, owed>>
  BY DEF Moved
<1>3. /\ hand' \in [Viewers -> Handlers] /\ \A w \in Viewers \ {v} : hand'[w] = hand[w]
      /\ hand'[v].pc = pc
  BY <1>1, HandGoes DEF Typed, HandPcs
<1>4. CASE hand[v].won # "none"
  <2>1. Spawn("result", games) /\ UNCHANGED match
    BY <1>4 DEF Moved
  <2>2. /\ games' \in [Tasks -> GameTasks] /\ OneGame' /\ KindInv' /\ reg' \in Tasks
        /\ LockInv' /\ BusyInv' /\ PlayInv'
    BY <1>2, <1>3, <2>1, SpawnKeeps
  <2>3. v \in Claims /\ Claims' \subseteq Claims \ {v}
    BY <1>2, <1>3, <1>4 DEF Claims
  <2>4. DebtInv'
    BY <1>2, <2>3, DebtMoves DEF Typed
  <2> QED BY <1>2, <1>3, <2>1, <2>2, <2>4 DEF Typed, MatchInv
<1>5. CASE hand[v].won = "none"
  <2>1. /\ UNCHANGED <<games, reg, cut>>
        /\ \/ match' = match
           \/ /\ match.phase = "your_turn"
              /\ match' = [match EXCEPT !.pending = TRUE, !.phase = "mickey_turn"]
    BY <1>5 DEF Moved
  <2>2. /\ match' \in Matches /\ MatchInv' /\ match'.game = match.game /\ match'.last = match.last
        /\ match.phase = "mickey_turn" => match'.phase = "mickey_turn"
    <3>1. CASE match' = match
      BY <3>1 DEF Typed, MatchInv
    <3>2. CASE /\ match.phase = "your_turn"
               /\ match' = [match EXCEPT !.pending = TRUE, !.phase = "mickey_turn"]
      BY <3>2 DEF Typed, MatchInv, Matches
    <3> QED BY <2>1, <3>1, <3>2
  <2>3. OneGame' /\ KindInv' /\ LockInv' /\ BusyInv' /\ \A u \in Tasks : Live(u)' <=> Live(u)
    BY <1>2, <1>3, <2>1, HandlerGoes
  <2>4. PlayInv' /\ (Due' => Due)
    BY <2>1, <2>2, <2>3 DEF PlayInv, PlaysOn, Due, Pays
  <2>5. Claims' \subseteq Claims
    BY <1>3, <1>1, <1>2, <1>5 DEF Claims
  <2>6. DebtInv'
    BY <1>2, <2>4, <2>5, DebtKept DEF Typed
  <2> QED BY <1>2, <1>3, <2>1, <2>2, <2>3, <2>4, <2>6 DEF Typed
<1> QED BY <1>4, <1>5

LEMMA StopKeeps ==
  ASSUME HubInv, NEW v \in Viewers, Stop(v)
  PROVE  HubInv'
<1> USE DEF HubInv
<1>1. PICK m \in Stopped :
        /\ Becomes(m)
        /\ hand' = IF Offline THEN hand
                   ELSE [hand EXCEPT ![v].pc = "stopping",
                             ![v].won = IF match.phase = "mickey_turn" THEN m.last ELSE "none"]
  BY DEF Stop
<1>2. /\ games' = GameCancelled(games) /\ reg' = NoOne /\ UNCHANGED <<st, turn, lock, cut>>
      /\ hand[v].pc = "idle"
  BY DEF Stop, TakesCommand
<1>3. Follows(m)
  BY StoppedFollows
<1>4. /\ match' = m /\ match' \in Matches /\ MatchInv' /\ owed' \in Int
      /\ owed' = (IF m.last # "none" /\ match.last = "none" THEN owed + 1 ELSE owed)
  BY <1>1, <1>3, BecomesWhat
<1>5. /\ games' \in [Tasks -> GameTasks] /\ OneGame' /\ KindInv'
      /\ \A u \in Tasks : ~Live(u)' /\ games'[u].pc = games[u].pc
  BY <1>2, CancelsAll
<1>6. PlayInv' /\ ~Due'
  BY <1>5, NoneLive
<1>7. CASE Offline
  <2>1. hand' = hand
    BY <1>1, <1>7
  <2>2. LockInv'
    BY <1>2, <1>5, <2>1, LockStays
  <2>3. BusyInv'
    BY <1>2, <1>7, NotBusy DEF Busy, Offline
  <2>4. Claims' = Claims
    BY <2>1 DEF Claims
  <2>5. DebtInv'
    BY <1>4, <1>6, <2>4, DebtKept DEF Typed
  <2> QED BY <1>2, <1>4, <1>5, <1>6, <2>1, <2>2, <2>3, <2>5 DEF Typed
<1>8. CASE ~Offline
  <2> DEFINE won == IF match.phase = "mickey_turn" THEN m.last ELSE "none"
  <2>1. won \in Outcomes
    BY <1>4 DEF Matches, Outcomes
  <2>2. hand' = [hand EXCEPT ![v] = [hand[v] EXCEPT !.pc = "stopping", !.won = won]]
    BY <1>1, <1>8
  <2> HIDE DEF won
  <2>3. /\ [hand[v] EXCEPT !.pc = "stopping", !.won = won] \in Handlers
        /\ [hand[v] EXCEPT !.pc = "stopping", !.won = won].pc = "stopping"
        /\ [hand[v] EXCEPT !.pc = "stopping", !.won = won].won = won
    BY <2>1 DEF Typed, Handlers, HandPcs
  <2>4. /\ hand' \in [Viewers -> Handlers] /\ \A w \in Viewers \ {v} : hand'[w] = hand[w]
        /\ hand'[v].pc = "stopping" /\ hand'[v].won = won
    BY <2>2, <2>3 DEF Typed
  <2>5. LockInv'
    BY <1>2, <1>5, <2>4, LockStays
  <2>6. BusyInv'
    BY <2>4 DEF BusyInv, Rescued
  <2>7. DebtInv'
    <3>1. CASE won # "none"
      <4>1. owed' = owed + 1
        BY <1>4, <3>1 DEF won, MatchInv
      <4>2. Claims' \subseteq Claims \cup {v}
        BY <2>4 DEF Claims
      <4> QED BY <1>6, <4>1, <4>2, DebtClaimed DEF Typed
    <3>2. CASE won = "none"
      <4>1. Claims' \subseteq Claims
        BY <2>4, <3>2 DEF Claims
      <4>2. owed' >= owed
        BY <1>4 DEF Typed
      <4> QED BY <1>4, <1>6, <4>1, <4>2, DebtKept DEF Typed
    <3> QED BY <3>1, <3>2
  <2> QED BY <1>2, <1>4, <1>5, <1>6, <2>4, <2>5, <2>6, <2>7 DEF Typed
<1> QED BY <1>7, <1>8

LEMMA StopEndsKeeps ==
  ASSUME HubInv, NEW v \in Viewers, StopEnds(v)
  PROVE  HubInv'
<1> USE DEF HubInv
<1>1. /\ hand[v].pc = "stopping" /\ Goes(v, "idle") /\ UNCHANGED <<reg, match, lock, cut>>
      /\ owed' = IF hand[v].won # "none" THEN owed - 1 ELSE owed
      /\ games' \in {games, Bumped(games)}
  BY DEF StopEnds
<1>2. /\ hand' \in [Viewers -> Handlers] /\ \A w \in Viewers \ {v} : hand'[w] = hand[w]
      /\ hand'[v].pc = "idle"
  BY <1>1, HandGoes DEF Typed, HandPcs
<1>3. /\ games' \in [Tasks -> GameTasks] /\ OneGame' /\ KindInv'
      /\ \A u \in Tasks : /\ games'[u].pc = games[u].pc /\ games'[u].kind = games[u].kind
                          /\ games'[u].mine = games[u].mine
                          /\ games'[u].cancel = games[u].cancel
                          /\ games'[u].dying = games[u].dying
  BY <1>1, BumpedKeeps
<1>4. PlayInv' /\ (Due' => Due)
  BY <1>1, <1>3 DEF PlayInv, PlaysOn, Due, Pays, Live, Alive
<1>5. BusyInv'
  BY NotBusy DEF StopEnds, Busy
<1>6. LockInv'
  BY <1>1, <1>2, <1>3, LockStays
<1>7. DebtInv'
  <2>1. CASE hand[v].won = "none"
    <3>1. Claims' \subseteq Claims
      BY <1>2 DEF Claims
    <3> QED BY <1>1, <1>4, <2>1, <3>1, DebtKept DEF Typed
  <2>2. CASE hand[v].won # "none"
    <3>1. v \in Claims /\ Claims' \subseteq Claims \ {v}
      BY <1>1, <1>2, <2>2 DEF Claims
    <3> QED BY <1>1, <1>4, <2>2, <3>1, DebtMoves DEF Typed
  <2> QED BY <2>1, <2>2
<1> QED BY <1>1, <1>2, <1>3, <1>4, <1>5, <1>6, <1>7 DEF Typed, MatchInv

LEMMA AskKeeps ==
  ASSUME HubInv, NEW v \in Viewers, Ask(v)
  PROVE  HubInv'
<1> USE DEF HubInv
<1>1. PICK kind \in {"chat", "sleep", "settings"} :
        hand' = [hand EXCEPT ![v] = [hand[v] EXCEPT !.pc = "queue", !.kind = kind]]
  BY DEF Ask
<1>2. hand[v].pc = "idle" /\ UNCHANGED <<games, reg, match, st, turn, lock, owed, cut>>
  BY DEF Ask, TakesCommand
<1>3. /\ [hand[v] EXCEPT !.pc = "queue", !.kind = kind] \in Handlers
      /\ [hand[v] EXCEPT !.pc = "queue", !.kind = kind].pc = "queue"
  BY DEF Typed, Handlers, HandPcs
<1>4. /\ hand' \in [Viewers -> Handlers] /\ \A w \in Viewers \ {v} : hand'[w] = hand[w]
      /\ hand'[v].pc = "queue"
  BY <1>1, <1>3 DEF Typed
<1>5. OneGame' /\ KindInv' /\ LockInv' /\ BusyInv' /\ \A u \in Tasks : Live(u)' <=> Live(u)
  BY <1>2, <1>4, HandlerGoes
<1>6. PlayInv' /\ (Due' => Due)
  BY <1>2, <1>5 DEF PlayInv, PlaysOn, Due, Pays
<1>7. Claims' \subseteq Claims
  BY <1>4 DEF Claims
<1>8. DebtInv'
  BY <1>2, <1>6, <1>7, DebtKept DEF Typed
<1> QED BY <1>2, <1>4, <1>5, <1>6, <1>8 DEF Typed, MatchInv

LEMMA AsksKeeps ==
  ASSUME HubInv, NEW v \in Viewers, Asks(v)
  PROVE  HubInv'
<1> USE DEF HubInv
<1>1. /\ hand[v].pc = "queue" /\ lock = NoOne /\ UNCHANGED <<reg, match, owed, cut>>
      /\ games' \in {games, Bumped(games)}
  BY DEF Asks
<1>2. PICK pc \in {"idle", "asked"} : /\ Goes(v, pc)
                                      /\ lock' = (IF pc = "asked" THEN v ELSE lock)
  BY DEF Asks
<1>3. /\ hand' \in [Viewers -> Handlers] /\ \A w \in Viewers \ {v} : hand'[w] = hand[w]
      /\ hand'[v].pc = pc /\ hand'[v].kind = hand[v].kind
  BY <1>2, HandGoes DEF Typed, HandPcs
<1>4. /\ games' \in [Tasks -> GameTasks] /\ OneGame' /\ KindInv'
      /\ \A u \in Tasks : /\ games'[u].pc = games[u].pc /\ games'[u].kind = games[u].kind
                          /\ games'[u].mine = games[u].mine
                          /\ games'[u].cancel = games[u].cancel
                          /\ games'[u].dying = games[u].dying
  BY <1>1, BumpedKeeps
<1>5. PlayInv' /\ (Due' => Due)
  BY <1>1, <1>4 DEF PlayInv, PlaysOn, Due, Pays, Live, Alive
<1>6. LockInv'
  BY <1>1, <1>2, <1>3, <1>4, HubAssumption DEF LockInv
<1>7. Claims' \subseteq Claims
  BY <1>3 DEF Claims
<1>8. DebtInv'
  BY <1>1, <1>5, <1>7, DebtKept DEF Typed
<1>9. BusyInv'
  <2> SUFFICES ASSUME Busy' PROVE Rescued'
    BY DEF BusyInv
  <2>1. CASE UNCHANGED <<st, turn>>
    <3>1. turn # "none" \/ Abandoned \/ \E w \in Viewers : hand[w].pc = "stopping"
      BY <1>1, <2>1, HubAssumption DEF BusyInv, Rescued, Busy
    <3> QED BY <1>1, <1>3, <2>1, <3>1 DEF Rescued, Abandoned
  <2>2. CASE lock' = v /\ hand[v].kind = "chat"
    BY <1>3, <2>2 DEF Rescued
  <2>3. CASE st' = "ready"
    BY <2>3 DEF Busy
  <2> QED BY <2>1, <2>2, <2>3 DEF Asks
<1> QED BY <1>1, <1>2, <1>3, <1>4, <1>5, <1>6, <1>8, <1>9 DEF Typed, MatchInv

LEMMA AskEndsKeeps ==
  ASSUME HubInv, NEW v \in Viewers, AskEnds(v) \/ Dropped(v)
  PROVE  HubInv'
<1> USE DEF HubInv
<1>1. /\ hand[v].pc \in {"asked", "stopping"} /\ (AskEnds(v) => hand[v].pc = "asked")
      /\ UNCHANGED <<games, reg, match, turn, owed, cut>>
  BY DEF AskEnds, Dropped
<1>2. PICK pc \in {"idle", "over"} : Goes(v, pc)
  BY DEF AskEnds, Dropped
<1>3. /\ hand' \in [Viewers -> Handlers] /\ \A w \in Viewers \ {v} : hand'[w] = hand[w]
      /\ hand'[v].pc = pc
  BY <1>2, HandGoes DEF Typed, HandPcs
<1>4. lock' = IF lock = v THEN NoOne ELSE lock
  BY <1>1 DEF AskEnds, Dropped, LockInv
<1>5. LockInv'
  BY <1>1, <1>3, <1>4, HubAssumption DEF LockInv
<1>6. OneGame' /\ KindInv' /\ PlayInv' /\ (Due' => Due)
  BY <1>1 DEF OneGame, KindInv, KindOf, PlayInv, PlaysOn, Due, Pays, Live, Alive
<1>7. Claims' \subseteq Claims
  BY <1>3 DEF Claims
<1>8. DebtInv'
  BY <1>1, <1>6, <1>7, DebtKept DEF Typed
<1>9. BusyInv'
  <2>1. CASE Dropped(v)
    BY <2>1, NotBusy DEF Dropped, Offline, Busy
  <2>2. CASE AskEnds(v)
    <3> SUFFICES ASSUME Busy' PROVE Rescued'
      BY DEF BusyInv
    <3>1. hand[v].kind # "chat" /\ st' = st /\ lock = v
      BY <1>1, <2>2 DEF AskEnds, Busy, Offline, LockInv
    <3>2. turn # "none" \/ Abandoned \/ \E w \in Viewers : hand[w].pc = "stopping"
      BY <3>1, HubAssumption DEF BusyInv, Rescued, Busy
    <3> QED BY <1>1, <1>3, <2>2, <3>2 DEF Rescued, Abandoned
  <2> QED BY <2>1, <2>2
<1> QED BY <1>1, <1>3, <1>4, <1>5, <1>6, <1>8, <1>9 DEF Typed, MatchInv

-----------------------------------------------------------------------------
(* The game tasks. *)

LEMMA OnlyLive ==
  ASSUME OneGame, NEW t \in Tasks, Live(t)
  PROVE  \A u \in Tasks \ {t} : ~Live(u)
BY DEF OneGame

\* A task ends; if it could still rescue a busy session, it leaves a ready one.
LEMMA GameOverKeeps ==
  ASSUME HubInv, NEW t \in Tasks, GameOver(t), UNCHANGED <<hand, st, turn>>, cut \subseteq cut',
         lock = t => ~Live(t) \/ "raised" \in cut'
  PROVE  /\ games' \in [Tasks -> GameTasks] /\ Others(t) /\ games'[t] = NoGame
         /\ reg' \in Tasks \cup {NoOne} /\ lock' \in Viewers \cup Tasks \cup {NoOne}
         /\ OneGame' /\ KindInv' /\ LockInv' /\ BusyInv' /\ Claims' = Claims
         /\ \A u \in Tasks : Live(u)' <=> Live(u) /\ u # t
<1> USE DEF HubInv
<1>1. /\ games' \in [Tasks -> GameTasks] /\ Others(t) /\ games'[t] = NoGame
      /\ reg' \in Tasks \cup {NoOne} /\ lock' = (IF lock = t THEN NoOne ELSE lock)
      /\ OneGame' /\ KindInv'
  BY GameEnds
<1>2. LockInv'
  BY <1>1, HubAssumption DEF LockInv, Others, NoGame, Inside
<1>3. \A u \in Tasks : Live(u)' <=> Live(u) /\ u # t
  BY <1>1 DEF Live, Alive, Others, NoGame
<1>4. BusyInv'
  <2> SUFFICES ASSUME Busy' PROVE Rescued'
    BY DEF BusyInv
  <2>1. Rescued
    BY DEF BusyInv, Busy
  <2> QED BY <1>1, <1>3, <2>1, HubAssumption DEF Rescued, Abandoned
<1>5. Claims' = Claims
  BY DEF Claims
<1> QED BY <1>1, <1>2, <1>3, <1>4, <1>5 DEF Typed

\* ... and when nobody else was running, nobody is due.
LEMMA LastGameOver ==
  ASSUME HubInv, NEW t \in Tasks, Live(t), GameOver(t), UNCHANGED <<hand, st, turn>>,
         cut \subseteq cut', lock # t, owed' \in Int, owed' >= owed, match' \in Matches, MatchInv'
  PROVE  HubInv'
<1> USE DEF HubInv
<1>1. /\ games' \in [Tasks -> GameTasks]
      /\ reg' \in Tasks \cup {NoOne} /\ lock' \in Viewers \cup Tasks \cup {NoOne}
      /\ OneGame' /\ KindInv' /\ LockInv' /\ BusyInv' /\ Claims' = Claims
      /\ \A u \in Tasks : Live(u)' <=> Live(u) /\ u # t
  BY GameOverKeeps
<1>2. PlayInv' /\ ~Due'
  BY <1>1, OnlyLive, NoneLive
<1>3. DebtInv'
  BY <1>1, <1>2, DebtKept DEF Typed
<1> QED BY <1>1, <1>2, <1>3 DEF Typed

LEMMA AtIsLive ==
  ASSUME HubInv, NEW t \in Tasks, NEW pc \in GamePcs \ {"none", "grace"}, At(t, pc)
  PROVE  Live(t) /\ reg = t /\ (lock = t <=> pc \in Inside) /\ \A u \in Tasks \ {t} : ~Live(u)
BY OnlyLive DEF HubInv, At, Live, Alive, KindInv, KindOf, OneGame, LockInv

\* Nobody but t is running: what t plays and owes is all that counts.
LEMMA OneCounts ==
  ASSUME OneGame, NEW t \in Tasks, Live(t), \A u \in Tasks : Live(u)' => Live(u)
  PROVE  (PlaysOn(games[t])' => PlayInv') /\ (Due' => Pays(games[t])')
BY DEF OneGame, PlayInv, Due

LEMMA RunKeeps ==
  ASSUME HubInv, NEW t \in Tasks, Run(t)
  PROVE  HubInv'
<1> USE DEF HubInv
<1>1. At(t, "run") /\ UNCHANGED <<hand, st, turn, owed, left>>
  BY DEF Run
<1>2. Live(t) /\ reg = t /\ lock # t /\ \A u \in Tasks \ {t} : ~Live(u)
  BY <1>1, AtIsLive DEF GamePcs, Inside
<1> DEFINE kind == games[t].kind
           over == \/ Offline
                   \/ kind = "rps" /\ (match.game # "rps" \/ match.phase = "match_over")
                   \/ kind = "think" /\ (match.game # "ttt" \/ match.phase # "mickey_turn")
           begins == kind = "rps" /\ match.phase # "countdown"
           pc == IF kind = "rps" THEN "told" ELSE "queue"
<1>3. CASE over /\ GameOver(t) /\ UNCHANGED <<match, round>> /\ cut \subseteq cut'
  BY <1>1, <1>2, <1>3, LastGameOver DEF Typed, MatchInv
<1>4. CASE /\ ~over
           /\ IF begins THEN match' = BeginRound ELSE match' = match
           /\ games' = [games EXCEPT ![t] = [games[t] EXCEPT !.mine = TRUE, !.pc = pc]]
           /\ UNCHANGED <<reg, lock, cut>>
  <2>1. kind \in {"rps", "think", "result"} /\ ~games[t].cancel /\ ~games[t].dying
        /\ games[t].pc = "run"
    BY <1>1 DEF At, KindInv, KindOf, Typed, GameTasks
  <2>2. pc \in GamePcs /\ pc \in {"told", "queue"} /\ (pc = "told" => kind = "rps")
    BY DEF GamePcs
  <2>3. match' \in Matches /\ MatchInv' /\ match'.game = match.game
        /\ (begins => match'.last = "none") /\ (~begins => match' = match)
    <3>1. BeginRound \in Matches /\ BeginRound.last = "none" /\ BeginRound.game = match.game
      BY DEF BeginRound, Typed, Matches, Outcomes
    <3> QED BY <1>4, <3>1 DEF Typed, MatchInv
  <2>4. match'.last = "none" \/ kind # "rps"
    BY <2>3 DEF MatchInv
  <2>5. /\ kind = "rps" => match'.game = "rps"
        /\ kind = "think" => match'.phase = "mickey_turn"
    BY <1>4, <2>3
  <2> HIDE DEF pc, begins
  <2>6. [games[t] EXCEPT !.mine = TRUE, !.pc = pc] \in GameTasks
    BY <2>2 DEF Typed, GameTasks
  <2>7. /\ games' \in [Tasks -> GameTasks] /\ \A u \in Tasks \ {t} : games'[u] = games[u]
        /\ games'[t] = [games[t] EXCEPT !.mine = TRUE, !.pc = pc]
    BY <1>4, <2>6 DEF Typed
  <2>8. /\ games'[t].pc = pc /\ games'[t].kind = kind /\ games'[t].cancel = games[t].cancel
        /\ games'[t].dying = games[t].dying
    BY <2>7 DEF Typed, GameTasks
  <2> HIDE DEF kind
  <2>9. \A u \in Tasks : Live(u)' <=> Live(u)
    BY <2>1, <2>2, <2>7, <2>8 DEF Live, Alive
  <2>10. OneGame' /\ KindInv'
    BY <1>4, <2>1, <2>2, <2>7, <2>8, <2>9 DEF OneGame, KindInv, KindOf
  <2>11. LockInv'
    BY <1>1, <1>4, <2>1, <2>2, <2>7, <2>8, LockStays DEF Inside
  <2>12. BusyInv'
    BY <1>1, <1>4, <2>9 DEF BusyInv, Rescued, Abandoned, Busy
  <2>13. PlayInv'
    <3>1. PlaysOn(games[t])'
      BY <2>5, <2>8 DEF PlaysOn
    <3> QED BY <1>2, <2>9, <3>1, OneCounts
  <2>14. Due' => Due
    <3>1. Pays(games[t])' => Pays(games[t])
      BY <2>2, <2>4, <2>8 DEF Pays, kind
    <3> QED BY <1>2, <2>9, <3>1, OneCounts DEF Due
  <2>15. DebtInv'
    BY <1>1, <2>14, DebtKept DEF Typed, Claims
  <2> QED BY <1>1, <1>4, <2>3, <2>7, <2>10, <2>11, <2>12, <2>13, <2>15 DEF Typed
<1> QED
  <2>1. \/ /\ over /\ GameOver(t) /\ UNCHANGED <<match, round>>
           /\ cut' = cut \cup (IF match.phase = "countdown" THEN {"close"} ELSE {})
        \/ /\ ~over
           /\ IF begins THEN match' = BeginRound ELSE match' = match
           /\ games' = [games EXCEPT ![t].mine = TRUE, ![t].pc = pc]
           /\ UNCHANGED <<reg, lock, cut>>
    BY Zenon DEF Run
  <2> QED BY <2>1, <1>3, <1>4

\* The only task that runs goes on.
LEMMA LiveGoesOn ==
  ASSUME HubInv, NEW t \in Tasks, Live(t), NEW pc \in GamePcs \ {"none"}, GoesOn(t, pc),
         KindOf(games'[t]), reg' = reg, hand' = hand
  PROVE  /\ games' \in [Tasks -> GameTasks] /\ OneGame' /\ KindInv' /\ Claims' = Claims
         /\ \A u \in Tasks : Live(u)' <=> Live(u)
         /\ (PlaysOn(games[t])' => PlayInv') /\ (Due' => Pays(games[t])')
<1> USE DEF HubInv
<1>1. OneGame' /\ KindInv' /\ \A u \in Tasks : Live(u)' <=> Live(u)
  BY GoesOnKeeps DEF Live
<1>2. Claims' = Claims
  BY DEF Claims
<1> QED BY <1>1, <1>2, OneCounts DEF GoesOn

LEMMA RejectedKeeps ==
  ASSUME HubInv, NEW t \in Tasks, Live(t), lock # t, NEW b \in BOOLEAN, Rejected(t, b),
         UNCHANGED <<hand, st, turn, cut>>
  PROVE  HubInv'
<1> USE DEF HubInv
<1>1. GameOver(t)
  BY DEF Rejected
<1>2. match' \in Matches /\ MatchInv' /\ owed' \in Int /\ owed' >= owed
  <2>1. CASE games[t].kind = "rps" /\ games[t].mine /\ match.phase = "countdown"
    <3>1. PICK m \in IF b THEN {AbortRound} ELSE Reveals : Becomes(m)
      BY <2>1 DEF Rejected
    <3>2. Follows(m)
      BY AbortFollows, RevealsFollow
    <3> QED BY <3>1, <3>2, BecomesWhat DEF Typed
  <2>2. CASE games[t].kind = "think" /\ games[t].mine /\ match' \in Applied /\ UNCHANGED owed
    BY <2>2, AppliedFollows DEF Follows, MatchInv, Typed
  <2>3. CASE UNCHANGED <<match, owed>>
    BY <2>3 DEF MatchInv, Typed
  <2> QED BY <2>1, <2>2, <2>3, Zenon DEF Rejected
<1> QED BY <1>1, <1>2, LastGameOver

LEMMA ToldKeeps ==
  ASSUME HubInv, NEW t \in Tasks, Told(t)
  PROVE  HubInv'
<1> USE DEF HubInv
<1>1. At(t, "told") /\ UNCHANGED <<hand, st, turn, round, cut, left>>
  BY DEF Told
<1>2. Live(t) /\ lock # t /\ games[t].kind = "rps"
  BY <1>1, AtIsLive DEF GamePcs, Inside, At, KindInv, KindOf
<1>3. CASE Offline
  BY <1>1, <1>2, <1>3, RejectedKeeps DEF Told
<1>4. CASE Walks(t, "queue") /\ UNCHANGED <<match, reg, lock, owed>>
  <2>1. GoesOn(t, "queue")
    BY <1>4, WalksOn DEF GamePcs, Typed
  <2>2. KindOf(games'[t])
    BY <1>1, <1>2, <2>1 DEF GoesOn, KindOf, KindInv, Live, At
  <2>3. /\ games' \in [Tasks -> GameTasks] /\ OneGame' /\ KindInv' /\ Claims' = Claims
        /\ \A u \in Tasks : Live(u)' <=> Live(u)
        /\ (PlaysOn(games[t])' => PlayInv') /\ (Due' => Pays(games[t])')
    BY <1>1, <1>2, <1>4, <2>1, <2>2, LiveGoesOn DEF GamePcs
  <2>4. PlayInv'
    BY <1>1, <1>2, <1>4, <2>1, <2>3 DEF PlayInv, PlaysOn, GoesOn, At
  <2>5. Due' => Due
    BY <1>1, <1>2, <1>4, <2>1, <2>3 DEF Due, Pays, GoesOn, At
  <2>6. DebtInv'
    BY <1>4, <2>3, <2>5, DebtKept DEF Typed
  <2>7. LockInv'
    BY <1>1, <1>4, <2>1, LockStays DEF GoesOn, Others, At, Inside
  <2>8. BusyInv'
    BY <1>1, <1>4, <2>3 DEF BusyInv, Rescued, Abandoned, Busy
  <2> QED BY <1>1, <1>4, <2>3, <2>4, <2>6, <2>7, <2>8 DEF Typed, MatchInv
<1> QED BY <1>1, <1>3, <1>4 DEF Told

LEMMA EntersKeeps ==
  ASSUME HubInv, NEW t \in Tasks, Enters(t)
  PROVE  HubInv'
<1> USE DEF HubInv
<1>1. At(t, "queue") /\ lock = NoOne /\ UNCHANGED <<hand, turn, round, cut, left>>
  BY DEF Enters
<1>2. Live(t) /\ lock # t
  BY <1>1, AtIsLive DEF GamePcs, Inside
<1>3. CASE Busy
  BY <1>1, <1>2, <1>3, RejectedKeeps DEF Enters
<1>4. CASE ~Busy
  <2> DEFINE pc == CASE games[t].kind = "rps" -> "face"
                     [] games[t].kind = "think" -> "think"
                     [] games[t].kind = "result" -> "react"
  <2>1. /\ games' = [games EXCEPT ![t] = [games[t] EXCEPT !.same = TRUE, !.pc = pc]]
        /\ lock' = t /\ UNCHANGED <<match, reg, owed>>
    BY <1>4 DEF Enters
  <2>2. /\ games[t].kind \in {"rps", "think", "result"} /\ games[t].pc = "queue"
        /\ ~games[t].cancel /\ ~games[t].dying
    BY <1>1 DEF At, KindInv, KindOf, Typed, GameTasks
  <2>3. /\ games[t].kind = "rps" => pc = "face"
        /\ games[t].kind = "think" => pc = "think"
        /\ games[t].kind = "result" => pc = "react"
    BY <2>2
  <2> HIDE DEF pc
  <2>4. pc \in {"face", "think", "react"}
    BY <2>2, <2>3
  <2>5. [games[t] EXCEPT !.same = TRUE, !.pc = pc] \in GameTasks
    BY <2>4 DEF Typed, GameTasks, GamePcs
  <2>6. GoesOn(t, pc)
    BY <2>1, <2>5 DEF GoesOn, Others, Typed, GameTasks
  <2>7. KindOf(games'[t])
    BY <2>2, <2>3, <2>6 DEF GoesOn, KindOf
  <2>8. /\ games' \in [Tasks -> GameTasks] /\ OneGame' /\ KindInv' /\ Claims' = Claims
        /\ \A u \in Tasks : Live(u)' <=> Live(u)
        /\ (PlaysOn(games[t])' => PlayInv') /\ (Due' => Pays(games[t])')
    BY <1>1, <1>2, <2>1, <2>4, <2>6, <2>7, LiveGoesOn DEF GamePcs
  <2>9. PlayInv'
    BY <1>2, <2>1, <2>2, <2>4, <2>6, <2>8 DEF PlayInv, PlaysOn, GoesOn
  <2>10. Due' => Due
    BY <1>2, <2>1, <2>2, <2>4, <2>6, <2>8 DEF Due, Pays, GoesOn
  <2>11. DebtInv'
    BY <2>1, <2>8, <2>10, DebtKept DEF Typed
  <2>12. LockInv'
    BY <1>1, <2>1, <2>4, <2>6, HubAssumption DEF LockInv, GoesOn, Others, Inside
  <2>13. BusyInv'
    BY <1>2, <2>1, <2>8 DEF BusyInv, Rescued
  <2> QED BY <1>1, <2>1, <2>8, <2>9, <2>11, <2>12, <2>13 DEF Typed, MatchInv
<1> QED BY <1>3, <1>4

LEMMA ChantKeeps ==
  ASSUME HubInv, NEW t \in Tasks, Chant(t)
  PROVE  HubInv'
<1> USE DEF HubInv
<1>1. /\ At(t, "face") /\ Walks(t, "chant")
      /\ UNCHANGED <<hand, reg, match, turn, lock, round, owed, cut, left>>
  BY DEF Chant
<1>2. Live(t) /\ lock = t /\ games[t].kind = "rps"
  BY <1>1, AtIsLive DEF GamePcs, Inside, At, KindInv, KindOf
<1>3. GoesOn(t, "chant")
  BY <1>1, WalksOn DEF GamePcs, Typed
<1>4. KindOf(games'[t])
  BY <1>2, <1>3 DEF GoesOn, KindOf, Live
<1>5. /\ games' \in [Tasks -> GameTasks] /\ OneGame' /\ KindInv' /\ Claims' = Claims
      /\ \A u \in Tasks : Live(u)' <=> Live(u)
      /\ (PlaysOn(games[t])' => PlayInv') /\ (Due' => Pays(games[t])')
  BY <1>1, <1>2, <1>3, <1>4, LiveGoesOn DEF GamePcs
<1>6. PlayInv'
  BY <1>1, <1>2, <1>3, <1>5 DEF PlayInv, PlaysOn, GoesOn, At
<1>7. Due' => Due
  BY <1>1, <1>2, <1>3, <1>5 DEF Due, Pays, GoesOn, At
<1>8. DebtInv'
  BY <1>1, <1>5, <1>7, DebtKept DEF Typed
<1>9. LockInv'
  BY <1>1, <1>3, LockStays DEF GoesOn, Others, At, Inside
<1>10. BusyInv'
  BY <1>1, <1>2, <1>5 DEF BusyInv, Rescued
<1> QED BY <1>1, <1>5, <1>6, <1>8, <1>9, <1>10 DEF Typed, MatchInv

\* The only task that runs leaves companion_action.
LEMMA BackKeeps ==
  ASSUME HubInv, NEW t \in Tasks, Live(t), lock = t, NEW pc \in {"after", "placed", "over"},
         NEW b \in BOOLEAN, BackToReady(t, pc, b), hand' = hand,
         pc = "after" => games[t].kind \in {"rps", "result"},
         pc # "after" => games[t].kind = "think",
         match'.game = match.game, games[t].pc # "run"
  PROVE  /\ games' \in [Tasks -> GameTasks] /\ OneGame' /\ KindInv' /\ Claims' = Claims
         /\ LockInv' /\ BusyInv' /\ PlayInv' /\ lock' = NoOne /\ reg' = reg
         /\ GoesOn(t, pc) /\ (Due' => Pays(games[t])')
<1> USE DEF HubInv
<1>1. GoesOn(t, pc) /\ lock' = NoOne /\ ~Busy' /\ UNCHANGED <<reg, turn>>
  BY BacksOn DEF GamePcs, Typed
<1>2. KindOf(games'[t])
  BY <1>1 DEF GoesOn, KindOf, Live, KindInv
<1>3. /\ games' \in [Tasks -> GameTasks] /\ OneGame' /\ KindInv' /\ Claims' = Claims
      /\ \A u \in Tasks : Live(u)' <=> Live(u)
      /\ (PlaysOn(games[t])' => PlayInv') /\ (Due' => Pays(games[t])')
  BY <1>1, <1>2, LiveGoesOn DEF GamePcs
<1>4. PlayInv'
  BY <1>1, <1>3 DEF PlayInv, PlaysOn, GoesOn
<1>5. LockInv'
  BY <1>1, HubAssumption DEF LockInv, GoesOn, Others, Inside
<1>6. BusyInv'
  BY <1>1, NotBusy
<1> QED BY <1>1, <1>3, <1>4, <1>5, <1>6

\* An exception ends a task, or sees it to the end of its chant.
LEMMA EscapesKeeps ==
  ASSUME HubInv, NEW t \in Tasks, Escapes(t), cut \subseteq cut',
         UNCHANGED <<hand, match, st, turn, owed>>, ~Live(t) \/ "raised" \in cut'
  PROVE  HubInv'
<1> USE DEF HubInv
<1>2. CASE GameOver(t)
  <2>1. /\ games' \in [Tasks -> GameTasks] /\ Others(t) /\ games'[t] = NoGame
        /\ reg' \in Tasks \cup {NoOne} /\ lock' \in Viewers \cup Tasks \cup {NoOne}
        /\ OneGame' /\ KindInv' /\ LockInv' /\ BusyInv' /\ Claims' = Claims
        /\ \A u \in Tasks : Live(u)' <=> Live(u) /\ u # t
    BY <1>2, GameOverKeeps
  <2>2. PlayInv' /\ (Due' => Due)
    BY <2>1 DEF PlayInv, PlaysOn, Due, Pays, Others
  <2>3. DebtInv'
    BY <2>1, <2>2, DebtKept DEF Typed
  <2> QED BY <2>1, <2>2, <2>3 DEF Typed, MatchInv
<1>3. CASE /\ games[t].pc = "chant"
           /\ games' = [games EXCEPT ![t].pc = "grace", ![t].dying = TRUE, ![t].cancel = FALSE]
           /\ UNCHANGED <<reg, lock>>
  <2> DEFINE g == [games[t] EXCEPT !.pc = "grace", !.dying = TRUE, !.cancel = FALSE]
  <2>1. g \in GameTasks
    BY DEF Typed, GameTasks, GamePcs
  <2>2. g.pc = "grace" /\ g.dying /\ g.kind = games[t].kind
    BY DEF Typed, GameTasks
  <2>3. games' = [games EXCEPT ![t] = g]
    BY <1>3
  <2> HIDE DEF g
  <2>4. /\ games' \in [Tasks -> GameTasks] /\ games'[t] = g
        /\ \A u \in Tasks \ {t} : games'[u] = games[u]
    BY <2>1, <2>3 DEF Typed
  <2>5. \A u \in Tasks : Live(u)' <=> Live(u) /\ u # t
    BY <2>2, <2>4, <1>3 DEF Live, Alive
  <2>6. OneGame' /\ KindInv'
    BY <1>3, <2>2, <2>4, <2>5 DEF OneGame, KindInv, KindOf
  <2>7. PlayInv' /\ (Due' => Due)
    BY <2>4, <2>5 DEF PlayInv, PlaysOn, Due, Pays
  <2>8. DebtInv'
    BY <2>7, DebtKept DEF Typed, Claims
  <2>9. LockInv'
    BY <1>3, <2>2, <2>4, LockStays DEF Inside
  <2>10. BusyInv'
    BY <1>3, <2>5, HubAssumption DEF BusyInv, Rescued, Busy, Abandoned
  <2> QED BY <1>3, <2>4, <2>6, <2>7, <2>8, <2>9, <2>10 DEF Typed, MatchInv
<1> QED BY <1>2, <1>3 DEF Escapes

LEMMA ChantEndsKeeps ==
  ASSUME HubInv, NEW t \in Tasks, ChantEnds(t)
  PROVE  HubInv'
<1> USE DEF HubInv
<1>1. At(t, "chant") /\ UNCHANGED <<hand, match, round, owed, left>> /\ cut \subseteq cut'
  BY DEF ChantEnds
<1>5. CASE Escapes(t) /\ UNCHANGED <<st, turn>> /\ "raised" \in cut'
  BY <1>1, <1>5, EscapesKeeps
<1>2. Live(t) /\ lock = t /\ games[t].kind = "rps"
  BY <1>1, AtIsLive DEF GamePcs, Inside, At, KindInv, KindOf
<1>3. CASE Walks(t, "grace") /\ UNCHANGED <<st, turn, lock, reg>>
  <2>1. GoesOn(t, "grace")
    BY <1>3, WalksOn DEF GamePcs, Typed
  <2>2. KindOf(games'[t])
    BY <1>2, <2>1 DEF GoesOn, KindOf, Live
  <2>3. /\ games' \in [Tasks -> GameTasks] /\ OneGame' /\ KindInv' /\ Claims' = Claims
        /\ \A u \in Tasks : Live(u)' <=> Live(u)
        /\ (PlaysOn(games[t])' => PlayInv') /\ (Due' => Pays(games[t])')
    BY <1>1, <1>2, <1>3, <2>1, <2>2, LiveGoesOn DEF GamePcs
  <2>4. PlayInv'
    BY <1>1, <1>2, <2>1, <2>3 DEF PlayInv, PlaysOn, GoesOn, At
  <2>5. Due' => Due
    BY <1>1, <1>2, <2>1, <2>3 DEF Due, Pays, GoesOn, At
  <2>6. DebtInv'
    BY <1>1, <2>3, <2>5, DebtKept DEF Typed
  <2>7. LockInv'
    BY <1>1, <1>3, <2>1, LockStays DEF GoesOn, Others, At, Inside
  <2>8. BusyInv'
    BY <1>1, <1>2, <1>3, <2>3 DEF BusyInv, Rescued
  <2> QED BY <1>1, <1>3, <2>3, <2>4, <2>6, <2>7, <2>8 DEF Typed, MatchInv
<1>4. CASE BackToReady(t, "after", TRUE)
  <2>1. /\ games' \in [Tasks -> GameTasks] /\ OneGame' /\ KindInv' /\ Claims' = Claims
        /\ LockInv' /\ BusyInv' /\ PlayInv' /\ lock' = NoOne /\ reg' = reg
        /\ GoesOn(t, "after") /\ (Due' => Pays(games[t])')
    BY <1>1, <1>2, <1>4, BackKeeps DEF At
  <2>2. Due' => Due
    BY <1>1, <1>2, <2>1 DEF Due, Pays, GoesOn, At
  <2>3. DebtInv'
    BY <1>1, <2>1, <2>2, DebtKept DEF Typed
  <2> QED BY <1>1, <2>1, <2>3 DEF Typed, MatchInv
<1> QED BY <1>3, <1>4, <1>5 DEF ChantEnds

LEMMA ReactedKeeps ==
  ASSUME HubInv, NEW t \in Tasks, Reacted(t)
  PROVE  HubInv'
<1> USE DEF HubInv
<1>1. At(t, "react") /\ UNCHANGED <<hand, match, round, owed, left>>
  BY DEF Reacted
<1>7. CASE Escapes(t) /\ UNCHANGED <<st, turn>> /\ cut' = cut \cup {"raised"}
  BY <1>1, <1>7, EscapesKeeps
<1>8. CASE (\E b \in BOOLEAN : BackToReady(t, "after", b)) /\ UNCHANGED cut
  <2>2. Live(t) /\ lock = t /\ games[t].kind \in {"rps", "result"}
    BY <1>1, AtIsLive DEF GamePcs, Inside, At, KindInv, KindOf
  <2>3. PICK b \in BOOLEAN : BackToReady(t, "after", b)
    BY <1>8
  <2>4. /\ games' \in [Tasks -> GameTasks] /\ OneGame' /\ KindInv' /\ Claims' = Claims
        /\ LockInv' /\ BusyInv' /\ PlayInv' /\ lock' = NoOne /\ reg' = reg
        /\ GoesOn(t, "after") /\ (Due' => Pays(games[t])')
    BY <1>1, <2>2, <2>3, BackKeeps DEF At
  <2>5. Due' => Due
    BY <1>1, <2>2, <2>4 DEF Due, Pays, GoesOn, At
  <2>6. DebtInv'
    BY <1>1, <2>4, <2>5, DebtKept DEF Typed
  <2> QED BY <1>1, <1>8, <2>4, <2>6 DEF Typed, MatchInv
<1> QED BY <1>7, <1>8 DEF Reacted

\* O is on the board: the result is owed, and t is placed with it.
LEMMA SwungKeeps ==
  ASSUME HubInv, NEW t \in Tasks, Swung(t)
  PROVE  HubInv'
<1> USE DEF HubInv
<1>1. At(t, "think") /\ UNCHANGED <<hand, round, cut, left>>
  BY DEF Swung
<1>2. Live(t) /\ lock = t /\ games[t].kind = "think"
  BY <1>1, AtIsLive DEF GamePcs, Inside, At, KindInv, KindOf
<1>3. PICK m \in IF games[t].mine THEN Applied ELSE {match} :
        /\ Becomes(m)
        /\ BackToReady(t, IF games[t].mine /\ m.last # "none" THEN "placed" ELSE "over", FALSE)
  BY DEF Swung
<1>4. Follows(m) /\ (~games[t].mine => m = match)
  BY <1>3, AppliedFollows, StaysFollows
<1>5. /\ match' = m /\ match' \in Matches /\ MatchInv' /\ match'.game = match.game
      /\ owed' = (IF m.last # "none" /\ match.last = "none" THEN owed + 1 ELSE owed)
      /\ owed' \in Int
  BY <1>3, <1>4, BecomesWhat
<1> DEFINE pc == IF games[t].mine /\ m.last # "none" THEN "placed" ELSE "over"
<1>6. /\ pc \in {"placed", "over"} /\ BackToReady(t, pc, FALSE)
      /\ pc = "placed" => games[t].mine /\ m.last # "none"
  BY <1>3
<1> HIDE DEF pc
<1>7. /\ games' \in [Tasks -> GameTasks] /\ OneGame' /\ KindInv' /\ Claims' = Claims
      /\ LockInv' /\ BusyInv' /\ PlayInv' /\ lock' = NoOne /\ reg' = reg
      /\ GoesOn(t, pc) /\ (Due' => Pays(games[t])')
  BY <1>1, <1>2, <1>5, <1>6, BackKeeps DEF At
<1>8. DebtInv'
  <2>1. CASE pc = "placed"
    <3>1. match.phase = "mickey_turn"
      BY <1>1, <1>2, <1>6, <2>1 DEF PlayInv, PlaysOn, At
    <3>2. owed' = owed + 1
      BY <1>5, <1>6, <2>1, <3>1 DEF MatchInv
    <3> QED BY <1>7, <3>2, DebtEarned DEF Typed
  <2>2. CASE pc = "over"
    <3>1. ~Due'
      BY <1>2, <1>7, <2>2 DEF Pays, GoesOn
    <3>2. owed' >= owed
      BY <1>5 DEF Typed
    <3> QED BY <1>5, <1>7, <3>1, <3>2, DebtKept DEF Typed
  <2> QED BY <1>6, <2>1, <2>2
<1> QED BY <1>1, <1>5, <1>7, <1>8 DEF Typed

LEMMA PlacedKeeps ==
  ASSUME HubInv, NEW t \in Tasks, Placed(t)
  PROVE  HubInv'
<1> USE DEF HubInv
<1>1. /\ games[t].pc \in {"placed", "over"} /\ ~games[t].cancel
      /\ UNCHANGED <<hand, match, st, turn, round, owed, cut, left>>
  BY DEF Placed
<1>2. Live(t) /\ lock # t
  BY <1>1 DEF Live, Alive, KindInv, KindOf, LockInv, Inside
<1>3. CASE GameOver(t)
  BY <1>1, <1>2, <1>3, LastGameOver DEF Typed, MatchInv
<1>4. CASE /\ games[t].pc = "placed"
           /\ games' = [games EXCEPT ![t].pc = "queue", ![t].kind = "result"]
           /\ UNCHANGED <<reg, lock>>
  <2> DEFINE g == [games[t] EXCEPT !.pc = "queue", !.kind = "result"]
  <2>1. g \in GameTasks
    BY DEF Typed, GameTasks, GamePcs
  <2>2. g.pc = "queue" /\ g.kind = "result" /\ g.cancel = games[t].cancel /\ g.dying = games[t].dying
    BY DEF Typed, GameTasks
  <2>3. games' = [games EXCEPT ![t] = g]
    BY <1>4
  <2> HIDE DEF g
  <2>4. /\ games' \in [Tasks -> GameTasks] /\ games'[t] = g
        /\ \A u \in Tasks \ {t} : games'[u] = games[u]
    BY <2>1, <2>3 DEF Typed
  <2>5. \A u \in Tasks : Live(u)' <=> Live(u)
    BY <1>2, <2>2, <2>4 DEF Live, Alive
  <2>6. OneGame' /\ KindInv'
    BY <1>2, <1>4, <2>2, <2>4, <2>5 DEF OneGame, KindInv, KindOf, Live
  <2>7. PlayInv'
    <3>1. PlaysOn(games[t])'
      BY <2>2, <2>4 DEF PlaysOn
    <3> QED BY <1>2, <2>5, <3>1, OneCounts
  <2>8. Due' => Due
    BY <1>2, <1>4 DEF Due, Pays
  <2>9. DebtInv'
    BY <1>1, <2>8, DebtKept DEF Typed, Claims
  <2>10. LockInv'
    BY <1>1, <1>4, <2>2, <2>4, LockStays DEF Inside
  <2>11. BusyInv'
    BY <1>1, <1>4, <2>5 DEF BusyInv, Rescued, Abandoned, Busy
  <2> QED BY <1>1, <1>4, <2>4, <2>6, <2>7, <2>9, <2>10, <2>11 DEF Typed, MatchInv
<1> QED BY <1>1, <1>3, <1>4 DEF Placed

\* The credit is paid by the task that is due, and it is not due any more: it is over, or
\* plays a round that has no result.
LEMMA AfterKeeps ==
  ASSUME HubInv, NEW t \in Tasks, After(t)
  PROVE  HubInv'
<1> USE DEF HubInv
<1>1. At(t, "after") /\ UNCHANGED <<hand, match, st, turn, round, cut, left>>
  BY DEF After
<1>2. Live(t) /\ lock # t /\ games[t].kind \in {"rps", "result"}
  BY <1>1, AtIsLive DEF GamePcs, Inside, At, KindInv, KindOf
<1>3. owed' = owed \/ (owed' = owed - 1 /\ Due)
  <2>1. owed' = owed \/ /\ owed' = owed - 1 /\ match.last # "none"
                        /\ games[t].kind = "rps" => games[t].mine
    BY DEF After
  <2> QED BY <1>1, <1>2, <2>1 DEF Due, Pays, At
<1>4. ASSUME ~Due', Claims' = Claims PROVE DebtInv' /\ owed' \in Int
  <2>1. CASE owed' = owed
    BY <1>4, <2>1, DebtKept DEF Typed
  <2>2. CASE owed' = owed - 1 /\ Due
    BY <1>4, <2>2, DebtPaid DEF Typed
  <2> QED BY <1>3, <2>1, <2>2
<1>5. CASE GameOver(t)
  <2>1. /\ games' \in [Tasks -> GameTasks]
        /\ reg' \in Tasks \cup {NoOne} /\ lock' \in Viewers \cup Tasks \cup {NoOne}
        /\ OneGame' /\ KindInv' /\ LockInv' /\ BusyInv' /\ Claims' = Claims
        /\ \A u \in Tasks : Live(u)' <=> Live(u) /\ u # t
    BY <1>1, <1>2, <1>5, GameOverKeeps
  <2>2. PlayInv' /\ ~Due'
    BY <1>2, <2>1, OnlyLive, NoneLive
  <2> QED BY <1>1, <1>4, <2>1, <2>2 DEF Typed, MatchInv
<1>6. CASE games[t].kind # "result" /\ Walks(t, "run") /\ UNCHANGED <<reg, lock>>
  <2>1. GoesOn(t, "run")
    BY <1>6, WalksOn DEF GamePcs, Typed
  <2>2. KindOf(games'[t])
    BY <1>2, <2>1 DEF GoesOn, KindOf, Live
  <2>3. /\ games' \in [Tasks -> GameTasks] /\ OneGame' /\ KindInv' /\ Claims' = Claims
        /\ \A u \in Tasks : Live(u)' <=> Live(u)
        /\ (PlaysOn(games[t])' => PlayInv') /\ (Due' => Pays(games[t])')
    BY <1>1, <1>2, <1>6, <2>1, <2>2, LiveGoesOn DEF GamePcs
  <2>4. PlayInv' /\ ~Due'
    BY <1>2, <1>6, <2>1, <2>3 DEF PlaysOn, Pays, GoesOn
  <2>5. LockInv'
    BY <1>1, <1>6, <2>1, LockStays DEF GoesOn, Others, At, Inside
  <2>6. BusyInv'
    BY <1>1, <1>6, <2>3 DEF BusyInv, Rescued, Abandoned, Busy
  <2> QED BY <1>1, <1>4, <1>6, <2>3, <2>4, <2>5, <2>6 DEF Typed, MatchInv
<1> QED BY <1>5, <1>6 DEF After

\* The cards are turned by the task, or by one that was cancelled in its chant, which
\* leaves the result to the task that runs now.
LEMMA RevealKeeps ==
  ASSUME HubInv, NEW t \in Tasks, Reveal(t)
  PROVE  HubInv'
<1> USE DEF HubInv
<1>1. /\ At(t, "grace") /\ UNCHANGED <<hand, round, cut, left>> /\ lock = t
      /\ games[t].kind = "rps"
  BY DEF Reveal, At, KindInv, KindOf, LockInv, Inside
<1>2. /\ match' \in Matches /\ MatchInv' /\ match'.game = match.game /\ owed' \in Int
      /\ \/ match' = match /\ owed' = owed
         \/ /\ match.phase = "countdown"
            /\ owed' = (IF match'.last # "none" THEN owed + 1 ELSE owed)
  <2>1. CASE match.phase = "countdown" /\ \E m \in Reveals : Becomes(m)
    <3>1. PICK m \in Reveals : Becomes(m)
      BY <2>1
    <3>2. Follows(m)
      BY RevealsFollow
    <3> QED BY <2>1, <3>1, <3>2, BecomesWhat DEF MatchInv
  <2>2. CASE UNCHANGED <<match, owed>>
    BY <2>2 DEF Typed, MatchInv
  <2> QED BY <2>1, <2>2 DEF Reveal
<1>3. CASE games[t].dying
  <2>1. GameOver(t) /\ UNCHANGED <<st, turn>> /\ ~Live(t)
    BY <1>3 DEF Reveal, Live
  <2>2. /\ games' \in [Tasks -> GameTasks] /\ Others(t) /\ games'[t] = NoGame
        /\ reg' \in Tasks \cup {NoOne} /\ lock' \in Viewers \cup Tasks \cup {NoOne}
        /\ OneGame' /\ KindInv' /\ LockInv' /\ BusyInv' /\ Claims' = Claims
        /\ \A u \in Tasks : Live(u)' <=> Live(u) /\ u # t
    BY <1>1, <2>1, GameOverKeeps
  <2>3. PlayInv'
    BY <1>2, <2>1, <2>2 DEF PlayInv, PlaysOn, Others
  <2>4. DebtInv'
    <3>1. CASE owed' = owed + 1
      BY <2>2, <3>1, DebtEarned DEF Typed
    <3>2. CASE owed' = owed /\ (match' = match \/ match'.last = "none")
      <4>1. Due' => Due
        BY <2>1, <2>2, <3>2 DEF Due, Pays, Others
      <4> QED BY <2>2, <3>2, <4>1, DebtKept DEF Typed
    <3> QED BY <1>2, <3>1, <3>2
  <2> QED BY <1>1, <1>2, <2>2, <2>3, <2>4 DEF Typed
<1>4. CASE ~games[t].dying
  <2>1. Live(t)
    BY <1>1, <1>4 DEF At, Live, Alive
  <2>2. PICK pc \in {"react", "after"} :
          /\ GoesOn(t, pc) /\ reg' = reg
          /\ IF pc = "react" THEN UNCHANGED <<st, turn, lock>>
                             ELSE BackToReady(t, "after", TRUE) /\ UNCHANGED <<match, owed>>
    <3>1. CASE Walks(t, "react") /\ UNCHANGED <<st, turn, lock, reg>>
      BY <3>1, WalksOn DEF GamePcs, Typed
    <3>2. CASE BackToReady(t, "after", TRUE) /\ UNCHANGED <<match, owed>>
      BY <3>2, BacksOn DEF GamePcs, Typed
    <3> QED BY <1>4, <3>1, <3>2 DEF Reveal
  <2>3. KindOf(games'[t])
    BY <1>1, <2>1, <2>2 DEF GoesOn, KindOf, Live
  <2>4. /\ games' \in [Tasks -> GameTasks] /\ OneGame' /\ KindInv' /\ Claims' = Claims
        /\ \A u \in Tasks : Live(u)' <=> Live(u)
        /\ (PlaysOn(games[t])' => PlayInv') /\ (Due' => Pays(games[t])')
    BY <1>1, <2>1, <2>2, <2>3, LiveGoesOn DEF GamePcs
  <2>5. PlayInv'
    BY <1>1, <1>2, <2>1, <2>2, <2>4 DEF PlayInv, PlaysOn, GoesOn, At
  <2>6. DebtInv'
    <3>1. CASE owed' = owed + 1
      BY <2>4, <3>1, DebtEarned DEF Typed
    <3>2. CASE owed' = owed /\ (match' = match \/ match'.last = "none")
      <4>1. Due' => Due
        BY <1>1, <2>1, <2>2, <2>4, <3>2 DEF Due, Pays, GoesOn, At
      <4> QED BY <2>4, <3>2, <4>1, DebtKept DEF Typed
    <3> QED BY <1>2, <3>1, <3>2
  <2>7. CASE pc = "react"
    <3>1. LockInv'
      BY <1>1, <2>2, <2>7, LockStays DEF GoesOn, Others, At, Inside
    <3>2. BusyInv'
      BY <1>1, <2>1, <2>2, <2>4, <2>7 DEF BusyInv, Rescued
    <3> QED BY <1>1, <1>2, <2>2, <2>4, <2>5, <2>6, <2>7, <3>1, <3>2 DEF Typed
  <2>8. CASE pc = "after"
    <3>1. LockInv' /\ BusyInv' /\ lock' = NoOne
      BY <1>1, <2>1, <2>2, <2>8, BackKeeps DEF At
    <3> QED BY <1>1, <1>2, <2>2, <2>4, <2>5, <2>6, <3>1 DEF Typed
  <2> QED BY <2>7, <2>8
<1> QED BY <1>3, <1>4

\* A task that was cancelled owes nothing and plays nothing, wherever it is.
LEMMA UnwindKeeps ==
  ASSUME HubInv, NEW t \in Tasks, Unwind(t)
  PROVE  HubInv'
<1>1. /\ ~Live(t) /\ cut \subseteq cut' /\ UNCHANGED <<hand, match, st, turn, round, owed, left>>
      /\ Escapes(t)
  BY DEF Unwind, Live
<1> QED BY <1>1, EscapesKeeps

LEMMA HangsKeeps ==
  ASSUME HubInv, NEW t \in Tasks, Hangs(t)
  PROVE  HubInv'
<1> USE DEF HubInv
<1>1. /\ Offline /\ games' = [games EXCEPT ![t] = [games[t] EXCEPT !.cancel = TRUE]]
      /\ UNCHANGED <<hand, reg, match, st, turn, lock, round, owed, cut, left>>
  BY DEF Hangs
<1>2. [games[t] EXCEPT !.cancel = TRUE] \in GameTasks
  BY DEF Typed, GameTasks
<1>3. /\ games' \in [Tasks -> GameTasks] /\ games'[t].pc = games[t].pc
      /\ games'[t].kind = games[t].kind /\ games'[t].dying = games[t].dying /\ games'[t].cancel
      /\ \A u \in Tasks \ {t} : games'[u] = games[u]
  BY <1>1, <1>2 DEF Typed, GameTasks
<1>4. \A u \in Tasks : Live(u)' <=> Live(u) /\ u # t
  BY <1>3 DEF Live, Alive
<1>5. OneGame' /\ KindInv'
  BY <1>1, <1>3, <1>4 DEF OneGame, KindInv, KindOf
<1>6. PlayInv' /\ (Due' => Due)
  BY <1>1, <1>3, <1>4 DEF PlayInv, PlaysOn, Due, Pays
<1>7. DebtInv'
  BY <1>1, <1>6, DebtKept DEF Typed, Claims
<1>8. LockInv'
  BY <1>1, <1>3, LockStays
<1>9. BusyInv'
  BY <1>1, NotBusy DEF Busy, Offline
<1> QED BY <1>1, <1>3, <1>5, <1>6, <1>7, <1>8, <1>9 DEF Typed, MatchInv

-----------------------------------------------------------------------------
(* The session. *)

LEMMA SessionKeeps ==
  ASSUME HubInv, BargeIn \/ TurnGoes \/ Close
  PROVE  HubInv'
<1> USE DEF HubInv
<1>1. UNCHANGED <<hand, reg, match, lock, owed, cut>> /\ games' \in {games, Bumped(games)}
  BY DEF BargeIn, TurnGoes, Close
<1>2. /\ games' \in [Tasks -> GameTasks] /\ OneGame' /\ KindInv'
      /\ \A u \in Tasks : /\ games'[u].pc = games[u].pc /\ games'[u].kind = games[u].kind
                          /\ games'[u].mine = games[u].mine
                          /\ games'[u].cancel = games[u].cancel
                          /\ games'[u].dying = games[u].dying
  BY <1>1, BumpedKeeps
<1>3. PlayInv' /\ (Due' => Due)
  BY <1>1, <1>2 DEF PlayInv, PlaysOn, Due, Pays, Live, Alive
<1>4. LockInv'
  BY <1>1, <1>2, LockStays
<1>5. DebtInv'
  BY <1>1, <1>3, DebtKept DEF Typed, Claims
<1>6. BusyInv'
  BY DEF BargeIn, TurnGoes, Close, BusyInv, Rescued, Busy
<1> QED BY <1>1, <1>2, <1>3, <1>4, <1>5, <1>6 DEF Typed, MatchInv

LEMMA HubStarts == HubInit => HubInv
<1> SUFFICES ASSUME HubInit PROVE HubInv
  OBVIOUS
<1>1. NewHand \in Handlers /\ NoGame \in GameTasks /\ NoMatch \in Matches
  BY DEF NewHand, NoGame, NoMatch, Handlers, GameTasks, Matches, HandPcs, GamePcs, Outcomes
<1>2. Typed
  BY <1>1 DEF HubInit, Typed
<1>3. /\ \A t \in Tasks : games[t].pc = "none" /\ games[t].dying = FALSE
      /\ \A v \in Viewers : hand[v].pc = "idle"
  BY DEF HubInit, NewHand, NoGame
<1>4. KindInv /\ OneGame /\ PlayInv /\ ~Due /\ Claims = {}
  BY <1>3 DEF KindInv, KindOf, OneGame, PlayInv, Due, Live, Alive, Claims
<1>5. MatchInv /\ LockInv /\ BusyInv
  BY <1>3, HubAssumption DEF HubInit, MatchInv, NoMatch, LockInv, Inside, BusyInv, Busy
<1>6. DebtInv
  BY <1>4, FS_EmptySet DEF DebtInv, HubInit
<1> QED BY <1>2, <1>4, <1>5, <1>6 DEF HubInv

LEMMA HubStep == HubInv /\ [HubNext]_hubVars => HubInv'
<1> SUFFICES ASSUME HubInv, [HubNext]_hubVars PROVE HubInv'
  OBVIOUS
<1>1. CASE UNCHANGED hubVars
  <2>1. \A t \in Tasks : Live(t)' <=> Live(t)
    BY <1>1 DEF hubVars, Live, Alive
  <2> QED BY <1>1, <2>1 DEF hubVars, HubInv, Typed, MatchInv, KindInv, KindOf, OneGame, LockInv, Inside,
       BusyInv, Rescued, Abandoned, Busy, PlayInv, PlaysOn, DebtInv, Due, Pays, Claims
<1>2. ASSUME NEW v \in Viewers,
             \/ StartGame(v) \/ Started(v) \/ Round(v) \/ Throw(v)
             \/ Move(v) \/ Moved(v) \/ Thought(v)
             \/ Stop(v) \/ StopEnds(v) \/ Ask(v) \/ Asks(v) \/ AskEnds(v) \/ Dropped(v)
      PROVE  HubInv'
  BY <1>2, StartGameKeeps, StartedKeeps, RoundKeeps, ThrowKeeps, MoveKeeps, MovedKeeps,
     StopKeeps, StopEndsKeeps, AskKeeps, AsksKeeps, AskEndsKeeps
<1>3. ASSUME NEW t \in Tasks,
             \/ Run(t) \/ Told(t) \/ Enters(t) \/ Chant(t) \/ ChantEnds(t) \/ Reveal(t)
             \/ Reacted(t) \/ Swung(t) \/ Placed(t) \/ After(t) \/ Unwind(t) \/ Hangs(t)
      PROVE  HubInv'
  BY <1>3, RunKeeps, ToldKeeps, EntersKeeps, ChantKeeps, ChantEndsKeeps, RevealKeeps,
     ReactedKeeps, SwungKeeps, PlacedKeeps, AfterKeeps, UnwindKeeps, HangsKeeps
<1> QED BY <1>1, <1>2, <1>3, SessionKeeps DEF HubNext

\* The dashboards, the game tasks and the session keep the invariant.
THEOREM HubCorrect == HubSpec => []HubInv
BY HubStarts, HubStep, PTL DEF HubSpec

\* Whatever the dashboards send and whatever is cancelled on the way, at most one game task
\* runs that was not told to end, and it is the registered one, which Stop reaches.
THEOREM OneGameRuns == HubSpec => []OneGame
<1>1. HubInv => OneGame
  BY DEF HubInv
<1> QED BY <1>1, HubCorrect, PTL

\* Every credit of kind "game" has a result of its own: the number of results is at least
\* that of the credits, those that are still to be paid included.
THEOREM NoResultIsPaidTwice == HubSpec => []CreditedOnce
<1>1. HubInv => CreditedOnce
  BY ClaimsFinite DEF HubInv, Typed, DebtInv, CreditedOnce
<1> QED BY <1>1, HubCorrect, PTL

\* A session that a game, a chat or a voice turn has made busy has somebody who ends that,
\* unless a new game task has cancelled one inside the lock, or the speech of one raised.
THEOREM BusyIsRescued == HubSpec => []BusyIsBusy
<1>1. HubInv => BusyIsBusy
  BY HubAssumption DEF HubInv, Typed, BusyInv, Rescued, Abandoned, BusyIsBusy
<1> QED BY <1>1, HubCorrect, PTL

---------------------------------------------------------------------------
(* Tic-tac-toe: minimax is what its recursion says, and medium never loses. *)

Marks == {"x", "o"}

Other(mark) == IF mark = "o" THEN "x" ELSE "o"

\* What mark, to move, gets from board b if the boards after it are worth F.
Value(F, b, mark) ==
    LET w == WinnerOf(b)
        next == {F[[b EXCEPT ![c] = mark]][Other(mark)] : c \in Free(b)}
    IN  IF w = "mickey" THEN 1 ELSE IF w = "player" THEN -1 ELSE IF w = "draw" THEN 0
        ELSE CHOOSE s \in next : \A t \in next : IF mark = "o" THEN s >= t ELSE s <= t

\* F with one more move looked ahead: Score is a fixed point of it.
Deepen(F) == [b \in Boards |-> [mark \in Marks |-> Value(F, b, mark)]]

\* F and G differ at most on boards with n free cells or more.
Agree(F, G, n) ==
    \A b \in Boards : Cardinality(Free(b)) < n => \A mark \in Marks : F[b][mark] = G[b][mark]

\* A board has at most nine free cells (empty_cells).
LEMMA FreeCells ==
    ASSUME NEW b \in Boards
    PROVE  IsFiniteSet(Free(b)) /\ Cardinality(Free(b)) \in 0..9
<1>1. IsFiniteSet(0..8) /\ Cardinality(0..8) = 9
  <2>1. 0 \in Int /\ 8 \in Int /\ ~(0 > 8) /\ 8 - 0 + 1 = 9
    OBVIOUS
  <2> QED BY <2>1, FS_Interval, Zenon
<1>2. Free(b) \subseteq 0..8
  BY DEF Free, Squares
<1>3. IsFiniteSet(Free(b)) /\ Cardinality(Free(b)) =< 9
  BY <1>1, <1>2, FS_Subset
<1> QED BY <1>3, FS_CardinalityType

\* A move leaves one cell fewer.
LEMMA OneFewer ==
    ASSUME NEW b \in Boards, NEW c \in Free(b), NEW mark \in Marks
    PROVE  LET next == [b EXCEPT ![c] = mark]
           IN  next \in Boards /\ Cardinality(Free(next)) = Cardinality(Free(b)) - 1
<1> DEFINE next == [b EXCEPT ![c] = mark]
<1>1. next \in Boards
  BY DEF Boards, Marks, Free
<1>2. Free(next) = Free(b) \ {c}
  BY NoneAssumption DEF Boards, Marks, Free
<1>3. Cardinality(Free(b) \ {c}) = Cardinality(Free(b)) - 1
  BY FreeCells, FS_RemoveElement
<1> QED BY <1>1, <1>2, <1>3

\* The value of a board depends on boards with fewer free cells only.
LEMMA Deeper ==
    ASSUME NEW F, NEW G, NEW n \in Nat, Agree(F, G, n)
    PROVE  Agree(Deepen(F), Deepen(G), n + 1)
<1> SUFFICES ASSUME NEW b \in Boards, Cardinality(Free(b)) < n + 1, NEW mark \in Marks
             PROVE  Value(F, b, mark) = Value(G, b, mark)
  BY DEF Agree, Deepen
<1>1. \A c \in Free(b) :
        F[[b EXCEPT ![c] = mark]][Other(mark)] = G[[b EXCEPT ![c] = mark]][Other(mark)]
  <2> TAKE c \in Free(b)
  <2>1. [b EXCEPT ![c] = mark] \in Boards /\ Cardinality(Free([b EXCEPT ![c] = mark])) < n
    BY OneFewer, FreeCells
  <2>2. Other(mark) \in Marks
    BY DEF Other, Marks
  <2> QED BY <2>1, <2>2 DEF Agree
<1>2. {F[[b EXCEPT ![c] = mark]][Other(mark)] : c \in Free(b)}
        = {G[[b EXCEPT ![c] = mark]][Other(mark)] : c \in Free(b)}
  BY <1>1
<1> DEFINE Worth(next) ==
      IF WinnerOf(b) = "mickey" THEN 1 ELSE IF WinnerOf(b) = "player" THEN -1
      ELSE IF WinnerOf(b) = "draw" THEN 0
      ELSE CHOOSE s \in next : \A t \in next : IF mark = "o" THEN s >= t ELSE s <= t
<1>3. \A H : Value(H, b, mark) = Worth({H[[b EXCEPT ![c] = mark]][Other(mark)] : c \in Free(b)})
  BY Zenon DEF Value
<1> HIDE DEF Worth
<1> QED BY <1>2, <1>3

\* Ten moves of look-ahead settle every board: the recursion of minimax has a solution.
LEMMA Settled == \E F : F = Deepen(F)
<1> DEFINE F0 == [b \in Boards |-> [mark \in Marks |-> 0]]
           F1 == Deepen(F0)
           F2 == Deepen(F1)
           F3 == Deepen(F2)
           F4 == Deepen(F3)
           F5 == Deepen(F4)
           F6 == Deepen(F5)
           F7 == Deepen(F6)
           F8 == Deepen(F7)
           F9 == Deepen(F8)
           F10 == Deepen(F9)
<1>0. Agree(F0, F1, 0)
  BY FreeCells DEF Agree
<1> HIDE DEF F0, F1, F2, F3, F4, F5, F6, F7, F8, F9, F10
<1>1. Agree(F1, F2, 1)
  BY <1>0, Deeper DEF F1, F2
<1>2. Agree(F2, F3, 2)
  BY <1>1, Deeper DEF F2, F3
<1>3. Agree(F3, F4, 3)
  BY <1>2, Deeper DEF F3, F4
<1>4. Agree(F4, F5, 4)
  BY <1>3, Deeper DEF F4, F5
<1>5. Agree(F5, F6, 5)
  BY <1>4, Deeper DEF F5, F6
<1>6. Agree(F6, F7, 6)
  BY <1>5, Deeper DEF F6, F7
<1>7. Agree(F7, F8, 7)
  BY <1>6, Deeper DEF F7, F8
<1>8. Agree(F8, F9, 8)
  BY <1>7, Deeper DEF F8, F9
<1>9. Agree(F9, F10, 9)
  BY <1>8, Deeper DEF F9, F10
<1>10. Agree(F10, Deepen(F10), 10)
  BY <1>9, Deeper DEF F10
<1>11. \A b \in Boards : \A mark \in Marks : F10[b][mark] = Value(F10, b, mark)
  BY <1>10, FreeCells DEF Agree, Deepen
<1>12. F10 = [b \in Boards |-> [mark \in Marks |-> Value(F9, b, mark)]]
  BY DEF F10, Deepen
<1>13. F10 = Deepen(F10)
  <2>1. \A b \in Boards : F10[b] = [mark \in Marks |-> F10[b][mark]]
    BY <1>12
  <2>2. \A b \in Boards : F10[b] = [mark \in Marks |-> Value(F10, b, mark)]
    BY <1>11, <2>1
  <2>3. F10 = [b \in Boards |-> F10[b]]
    BY <1>12
  <2> QED BY <2>2, <2>3 DEF Deepen
<1> QED BY <1>13

\* minimax returns what its recursion says, on every board and for either mark.
LEMMA Minimax ==
    ASSUME NEW b \in Boards, NEW mark \in Marks
    PROVE  Score[b][mark] = Value(Score, b, mark)
<1>1. Score = CHOOSE F : F = Deepen(F)
  BY Zenon DEF Score, Deepen, Value, Other, Marks
<1>2. Score = Deepen(Score)
  BY <1>1, Settled
<1> QED BY <1>2 DEF Deepen

\* max and min over scores (minimax).
LEMMA Extrema ==
    ASSUME NEW S \in SUBSET {-1, 0, 1}, S # {}
    PROVE  (\E s \in S : \A t \in S : s >= t) /\ (\E s \in S : \A t \in S : s =< t)
<1>1. \E s \in S : \A t \in S : s >= t
  <2>1. CASE 1 \in S
    BY <2>1
  <2>2. CASE 1 \notin S /\ 0 \in S
    BY <2>2
  <2>3. CASE S = {-1}
    BY <2>3
  <2> QED BY <2>1, <2>2, <2>3
<1>2. \E s \in S : \A t \in S : s =< t
  <2>1. CASE -1 \in S
    BY <2>1
  <2>2. CASE -1 \notin S /\ 0 \in S
    BY <2>2
  <2>3. CASE S = {1}
    BY <2>3
  <2> QED BY <2>1, <2>2, <2>3
<1> QED BY <1>1, <1>2

\* The first of some cells (minimax and winning_cell go through them in order).
LEMMA Least ==
    ASSUME NEW S \in SUBSET Squares, S # {}
    PROVE  \E c \in S : \A d \in S : c =< d
<1> DEFINE From(n) == \A c \in S : c >= n
<1>0. From(0) /\ S \subseteq Nat /\ ~From(9)
  <2>1. \A c \in S : c \in 0..8
    BY DEF Squares
  <2>2. \A c \in S : c \in Nat /\ c >= 0 /\ ~(c >= 9)
    BY <2>1
  <2> QED BY <2>2
<1>1. CASE From(0) /\ ~From(1)
  BY <1>0, <1>1
<1>2. CASE From(1) /\ ~From(2)
  BY <1>0, <1>2
<1>3. CASE From(2) /\ ~From(3)
  BY <1>0, <1>3
<1>4. CASE From(3) /\ ~From(4)
  BY <1>0, <1>4
<1>5. CASE From(4) /\ ~From(5)
  BY <1>0, <1>5
<1>6. CASE From(5) /\ ~From(6)
  BY <1>0, <1>6
<1>7. CASE From(6) /\ ~From(7)
  BY <1>0, <1>7
<1>8. CASE From(7) /\ ~From(8)
  BY <1>0, <1>8
<1>9. CASE From(8) /\ ~From(9)
  BY <1>0, <1>9
<1> QED BY <1>0, <1>1, <1>2, <1>3, <1>4, <1>5, <1>6, <1>7, <1>8, <1>9

\* The scores of boards with fewer than n free cells are scores.
Within(n) ==
    \A b \in Boards : Cardinality(Free(b)) < n => \A mark \in Marks : Score[b][mark] \in {-1, 0, 1}

\* In a game that goes on, the score is the best that some move reaches.
LEMMA Best ==
    ASSUME NEW b \in Boards, NEW mark \in Marks, WinnerOf(b) = None,
           \A c \in Free(b) : Score[[b EXCEPT ![c] = mark]][Other(mark)] \in {-1, 0, 1}
    PROVE  /\ \E c \in Free(b) : Score[b][mark] = Score[[b EXCEPT ![c] = mark]][Other(mark)]
           /\ \A c \in Free(b) : LET s == Score[[b EXCEPT ![c] = mark]][Other(mark)]
                                 IN  IF mark = "o" THEN Score[b][mark] >= s ELSE Score[b][mark] =< s
<1> DEFINE next == {Score[[b EXCEPT ![c] = mark]][Other(mark)] : c \in Free(b)}
           Top(s) == \A t \in next : IF mark = "o" THEN s >= t ELSE s <= t
<1>1. Score[b][mark] = CHOOSE s \in next : Top(s)
  BY Minimax, NoneAssumption, Zenon DEF Value
<1>2. next \in SUBSET {-1, 0, 1} /\ next # {}
  BY NoneAssumption DEF WinnerOf
<1>3. \E s \in next : Top(s)
  BY <1>2, Extrema
<1>4. Score[b][mark] \in next /\ Top(Score[b][mark])
  BY <1>1, <1>3, Zenon
<1> QED BY <1>4

\* With one more free cell the scores are scores still.
LEMMA Wider == ASSUME NEW n \in Nat, Within(n) PROVE Within(n + 1)
<1> SUFFICES ASSUME NEW b \in Boards, Cardinality(Free(b)) < n + 1, NEW mark \in Marks
             PROVE  Score[b][mark] \in {-1, 0, 1}
  BY DEF Within
<1>1. CASE WinnerOf(b) = None
  <2>1. \A c \in Free(b) : Score[[b EXCEPT ![c] = mark]][Other(mark)] \in {-1, 0, 1}
    <3> TAKE c \in Free(b)
    <3>1. [b EXCEPT ![c] = mark] \in Boards /\ Cardinality(Free([b EXCEPT ![c] = mark])) < n
      BY OneFewer, FreeCells
    <3>2. Other(mark) \in Marks
      BY DEF Other, Marks
    <3> QED BY <3>1, <3>2 DEF Within
  <2> QED BY <1>1, <2>1, Best
<1>2. CASE WinnerOf(b) # None
  BY <1>2, Minimax DEF Value, WinnerOf
<1> QED BY <1>1, <1>2

\* minimax scores every board -1, 0 or 1.
LEMMA Scored == \A b \in Boards, mark \in Marks : Score[b][mark] \in {-1, 0, 1}
<1>0. Within(0)
  BY FreeCells DEF Within
<1>1. Within(1)
  BY <1>0, Wider
<1>2. Within(2)
  BY <1>1, Wider
<1>3. Within(3)
  BY <1>2, Wider
<1>4. Within(4)
  BY <1>3, Wider
<1>5. Within(5)
  BY <1>4, Wider
<1>6. Within(6)
  BY <1>5, Wider
<1>7. Within(7)
  BY <1>6, Wider
<1>8. Within(8)
  BY <1>7, Wider
<1>9. Within(9)
  BY <1>8, Wider
<1>10. Within(10)
  BY <1>9, Wider
<1> QED BY <1>10, FreeCells DEF Within

\* No move of the player makes a board that is no loss for Mickey one.
LEMMA PlayerMoves ==
    ASSUME NEW b \in Boards, WinnerOf(b) = None, Score[b]["x"] >= 0, NEW c \in Free(b)
    PROVE  [b EXCEPT ![c] = "x"] \in Boards /\ Score[[b EXCEPT ![c] = "x"]]["o"] >= 0
<1>1. [b EXCEPT ![c] = "x"] \in Boards
  BY OneFewer DEF Marks
<1>2. \A d \in Free(b) : Score[[b EXCEPT ![d] = "x"]][Other("x")] \in {-1, 0, 1}
  BY OneFewer, Scored DEF Marks, Other
<1>3. Score[b]["x"] =< Score[[b EXCEPT ![c] = "x"]]["o"]
  BY <1>2, Best DEF Marks, Other
<1> QED BY <1>1, <1>2, <1>3, Scored DEF Marks, Other

\* The cell minimax picks is free, and keeps what Mickey has.
LEMMA MickeyMoves ==
    ASSUME NEW b \in Boards, WinnerOf(b) = None
    PROVE  /\ BestCell(b) \in Free(b)
           /\ Score[b]["o"] >= 0 => Score[[b EXCEPT ![BestCell(b)] = "o"]]["x"] >= 0
<1> DEFINE score == [c \in Free(b) |-> Score[[b EXCEPT ![c] = "o"]]["x"]]
           First(c) == \A d \in Free(b) : score[c] > score[d] \/ (score[c] = score[d] /\ c <= d)
           ties == {c \in Free(b) : score[c] = Score[b]["o"]}
<1>1. \A d \in Free(b) : score[d] \in {-1, 0, 1}
  BY OneFewer, Scored DEF Marks
<1>2. /\ \E c \in Free(b) : Score[b]["o"] = score[c]
      /\ \A c \in Free(b) : Score[b]["o"] >= score[c]
  BY <1>1, Best DEF Marks, Other
<1>3. PICK c \in ties : \A d \in ties : c =< d
  <2>1. ties \in SUBSET Squares /\ ties # {}
    BY <1>2 DEF Free
  <2> QED BY <2>1, Least
<1>4. \A d \in Free(b) : score[c] > score[d] \/ (score[c] = score[d] /\ c <= d)
  <2> TAKE d \in Free(b)
  <2>1. c \in Free(b) /\ score[c] = Score[b]["o"]
    BY <1>3
  <2>2. score[c] >= score[d] /\ score[c] \in Int /\ score[d] \in Int
    <3>1. score[c] \in {-1, 0, 1} /\ score[d] \in {-1, 0, 1}
      BY <1>1, <2>1
    <3>2. Score[b]["o"] >= score[d]
      BY <1>2
    <3> HIDE DEF score
    <3> QED BY <2>1, <3>1, <3>2
  <2>3. score[c] = score[d] => d \in ties
    BY <2>1
  <2> HIDE DEF score, ties
  <2> QED BY <1>3, <2>2, <2>3
<1>5. BestCell(b) \in Free(b) /\ First(BestCell(b))
  <2>1. BestCell(b) = CHOOSE d \in Free(b) : First(d)
    BY Zenon DEF BestCell
  <2>2. c \in Free(b) /\ First(c)
    BY <1>3, <1>4
  <2> HIDE DEF First
  <2> QED BY <2>1, <2>2
<1>6. score[BestCell(b)] >= Score[b]["o"]
  <2>1. score[c] = Score[b]["o"] /\ c \in Free(b)
    BY <1>3
  <2>2. score[BestCell(b)] > score[c] \/ score[BestCell(b)] = score[c]
    BY <1>5, <2>1
  <2>3. score[BestCell(b)] \in {-1, 0, 1} /\ score[c] \in {-1, 0, 1}
    BY <1>1, <1>5, <2>1
  <2> HIDE DEF score
  <2> QED BY <2>1, <2>2, <2>3
<1>7. /\ score[BestCell(b)] = Score[[b EXCEPT ![BestCell(b)] = "o"]]["x"]
      /\ score[BestCell(b)] \in {-1, 0, 1}
  BY <1>1, <1>5
<1>8. Score[b]["o"] \in {-1, 0, 1}
  BY Scored DEF Marks
<1> HIDE DEF score
<1> QED BY <1>5, <1>6, <1>7, <1>8

\* A board the player has won has the score of one.
LEMMA NotLost ==
    ASSUME NEW b \in Boards, NEW mark \in Marks, Score[b][mark] >= 0
    PROVE  WinnerOf(b) # "player"
<1> SUFFICES ASSUME WinnerOf(b) = "player" PROVE Score[b][mark] = -1
  BY Scored
<1>1. Score[b][mark] = Value(Score, b, mark)
  BY Minimax
<1> QED BY <1>1 DEF Value

\* Easy picks a free cell too (winning_cell, pick_mickey_cell).
LEMMA EasyIsFree == ASSUME NEW b \in Boards PROVE PickEasy(b) \subseteq Free(b)
<1> DEFINE wins == {c \in Free(b) : Has([b EXCEPT ![c] = "o"], "o")}
<1>1. wins \in SUBSET Squares /\ wins \subseteq Free(b)
  BY DEF Free
<1>2. CASE wins = {}
  BY <1>2 DEF PickEasy
<1>3. CASE wins # {}
  <2>1. \E c \in wins : \A d \in wins : c <= d
    BY <1>1, <1>3, Least
  <2>2. PickEasy(b) = {CHOOSE c \in wins : \A d \in wins : c <= d}
    BY <1>3, Zenon DEF PickEasy
  <2> HIDE DEF wins
  <2> QED BY <1>1, <2>1, <2>2
<1> QED BY <1>2, <1>3

\* What medium keeps unless two X were placed in a row: whoever is to move, and with the
\* cell that Mickey has in mind, the player cannot force a win.
Drawn ==
    /\ phase = "your_turn" /\ movers = 0 => Score[board]["x"] >= 0
    /\ movers > 0 => movers = 1 /\ phase = "your_turn" /\ Score[board]["o"] >= 0
    /\ phase = "mickey_turn" => Score[[board EXCEPT ![intended] = "o"]]["x"] >= 0
    /\ winner # "player"

\* The inductive invariant of the board.
TttInv ==
    /\ board \in Boards /\ movers \in Nat /\ doubled \in BOOLEAN
    /\ phase \in {"your_turn", "mickey_turn", "match_over"}
    /\ phase # "match_over" => WinnerOf(board) = None /\ winner = None
    /\ IF phase = "mickey_turn" THEN intended \in Free(board) ELSE intended = None
    /\ level = "medium" /\ ~doubled => Drawn

\* A new match (TttMatch) has nothing on it, and is no loss for Mickey.
LEMMA EmptyBoard ==
    ASSUME NEW l
    PROVE  LET b == EmptyMatch(l).board
           IN  b \in Boards /\ WinnerOf(b) = None /\ Score[b]["x"] >= 0
<1> DEFINE b == [c \in Squares |-> None]
<1>0. EmptyMatch(l).board = b
  BY DEF EmptyMatch
<1>1. b \in Boards /\ \A c \in Squares : b[c] = None
  BY DEF Boards
<1>2. \A mark \in Marks : ~Has(b, mark)
  <2>1. \A line \in Lines : \E c \in line : c \in Squares
    BY DEF Lines, Squares
  <2> QED BY <1>1, <2>1, NoneAssumption DEF Has, Marks
<1>3. 0 \in Free(b)
  BY <1>1 DEF Free, Squares
<1> QED BY <1>0, <1>1, <1>2, <1>3, EmptyBoardAssumption DEF WinnerOf, Marks

\* The first match.
LEMMA TttStart == TttInit => TttInv
<1> SUFFICES ASSUME TttInit PROVE TttInv
  OBVIOUS
<1>1. board \in Boards /\ WinnerOf(board) = None /\ Score[board]["x"] >= 0
  BY EmptyBoard DEF TttInit
<1>2. Drawn
  BY <1>1, NoneAssumption DEF TttInit, Drawn
<1>3. doubled \in BOOLEAN
  BY Zenon DEF TttInit
<1> QED BY <1>1, <1>2, <1>3 DEF TttInit, TttInv

\* game.start.
LEMMA NewGameKeeps == ASSUME NEW l, NewGame(l) PROVE TttInv'
<1>1. board' \in Boards /\ WinnerOf(board') = None /\ Score[board']["x"] >= 0
  BY EmptyBoard DEF NewGame
<1>2. Drawn'
  BY <1>1, NoneAssumption DEF NewGame, Drawn
<1>3. doubled' \in BOOLEAN
  BY Zenon DEF NewGame
<1> QED BY <1>1, <1>2, <1>3 DEF NewGame, TttInv

\* play.
LEMMA PlayKeeps == ASSUME TttInv, NEW c \in Squares, Play(c) PROVE TttInv'
<1>1. c \in Free(board) /\ board \in Boards /\ WinnerOf(board) = None
  BY DEF Play, TttInv, Free
<1>2. board' \in Boards
  BY <1>1, OneFewer DEF Play, Marks
<1>3. ASSUME (level = "medium" /\ ~doubled)' PROVE Drawn'
  <2>1. Score[board]["x"] >= 0 /\ movers = 0
    <3>1. level = "medium" /\ ~doubled /\ ~(movers > 0) /\ phase = "your_turn"
      BY <1>3, Zenon DEF Play
    <3> QED BY <3>1 DEF TttInv, Drawn
  <2>2. Score[board']["o"] >= 0
    BY <1>1, <2>1, PlayerMoves DEF Play
  <2>3. WinnerOf(board') # "player"
    BY <1>2, <2>2, NotLost DEF Marks
  <2> QED BY <2>1, <2>2, <2>3 DEF Play, Drawn
<1> QED BY <1>1, <1>2, <1>3 DEF Play, TttInv

\* begin_mickey, which picks the cell.
LEMMA BeginMickeyKeeps == ASSUME TttInv, BeginMickey PROVE TttInv'
<1>1. CASE phase = "your_turn" /\ phase' = "mickey_turn"
  <2>1. PICK c \in IF level = "easy" THEN PickEasy(board) ELSE PickMedium(board) : intended' = c
    BY <1>1, NoneAssumption DEF BeginMickey
  <2>2. CASE level = "medium" /\ ~doubled
    <3>1. movers = 1 /\ Score[board]["o"] >= 0 /\ winner = None
      BY <1>1, <2>2 DEF BeginMickey, TttInv, Drawn
    <3>2. intended' = BestCell(board)
      BY <2>1, <2>2 DEF PickMedium
    <3>3. intended' \in Free(board) /\ Score[[board EXCEPT ![intended'] = "o"]]["x"] >= 0
      BY <1>1, <3>1, <3>2, MickeyMoves DEF TttInv
    <3> QED BY <1>1, <3>1, <3>3, NoneAssumption DEF BeginMickey, TttInv, Drawn
  <2>3. CASE ~(level = "medium" /\ ~doubled)
    <3>1. intended' \in Free(board)
      BY <1>1, <2>1, EasyIsFree, MickeyMoves DEF PickMedium, TttInv
    <3> QED BY <1>1, <2>3, <3>1 DEF BeginMickey, TttInv
  <2> QED BY <2>2, <2>3
<1>2. CASE phase # "your_turn" /\ UNCHANGED <<phase, intended>>
  BY <1>2 DEF BeginMickey, TttInv, Drawn
<1> QED BY <1>1, <1>2 DEF BeginMickey

\* apply_pending.
LEMMA ApplyPendingKeeps == ASSUME TttInv, ApplyPending PROVE TttInv'
<1>1. phase = "mickey_turn" /\ intended \in Free(board) /\ board \in Boards
  BY DEF ApplyPending, TttInv
<1>2. board' = [board EXCEPT ![intended] = "o"] /\ board' \in Boards
  BY <1>1, OneFewer DEF ApplyPending, Free, Marks
<1>3. ASSUME (level = "medium" /\ ~doubled)' PROVE Drawn'
  <2>1. level = "medium" /\ ~doubled
    BY <1>3, Zenon DEF ApplyPending
  <2>2. Score[board']["x"] >= 0 /\ movers = 0
    BY <1>1, <1>2, <2>1 DEF TttInv, Drawn
  <2>3. WinnerOf(board') # "player"
    BY <1>2, <2>2, NotLost DEF Marks
  <2> QED BY <2>2, <2>3 DEF ApplyPending, Drawn
<1> QED BY <1>2, <1>3 DEF ApplyPending, TttInv

\* Every step of the board keeps the invariant.
LEMMA TttStep == ASSUME TttInv, [TttNext]_tttVars PROVE TttInv'
<1>1. CASE \E l \in {"easy", "medium"} : NewGame(l)
  BY <1>1, NewGameKeeps
<1>2. CASE \E c \in Squares : Play(c)
  BY <1>2, PlayKeeps
<1>3. CASE BeginMickey
  BY <1>3, BeginMickeyKeeps
<1>4. CASE ApplyPending
  BY <1>4, ApplyPendingKeeps
<1>5. CASE UNCHANGED tttVars
  BY <1>5 DEF tttVars, TttInv, Drawn
<1> QED BY <1>1, <1>2, <1>3, <1>4, <1>5 DEF TttNext

\* On medium the player never wins, whatever he plays and however many matches are started,
\* unless two dashboards place two X in a row.
THEOREM MediumIsPerfect == TttSpec => []MediumNeverLoses
<1>1. TttInv => MediumNeverLoses
  BY DEF TttInv, Drawn, MediumNeverLoses
<1> QED BY <1>1, TttStart, TttStep, PTL DEF TttSpec
=============================================================================
