---------------------------- MODULE CompanionHub ----------------------------
(***************************************************************************)
(* The dashboards of one robot and the game they share:                    *)
(* app/companion/hub.py and companion_action of app/sessions/session.py.   *)
(*                                                                         *)
(* A viewer is a dashboard; its handler is suspended in a broadcast, in a  *)
(* call to the robot, or waits for the companion lock.  A game runs in a   *)
(* task of its own; cancelling a task only asks it to end.  Tic-tac-toe is *)
(* abstracted to the marks on the board (TicTacToe has the cells), and the *)
(* session to its state, its lock and whether a voice turn runs            *)
(* (DeviceSession has the rest).                                           *)
(***************************************************************************)
EXTENDS Integers, Sequences, FiniteSets

CONSTANTS
    Viewers, Tasks, NoOne,
    Cells,        \* the cells of the board
    WinsNeeded,   \* wins_needed
    MaxCommands,  \* bound: what the viewers send, together
    MaxRounds,    \* bound: rock-paper-scissors rounds of a behaviour
    MaxBarges     \* bound: voice turns

\* A dashboard is no task, and NoOne is neither.
ASSUME HubAssumption ==
    /\ NoOne \notin Viewers \cup Tasks /\ Viewers \cap Tasks = {}
    /\ IsFiniteSet(Viewers)

VARIABLES
    hand,     \* the handlers
    games,    \* the game tasks
    reg,      \* _game_tasks of this robot
    match,    \* _matches of this robot
    st,       \* session.state.state
    turn,     \* how far the voice turn is, or "none"
    lock,     \* _companion_lock: who is in the body of companion_action
    round,    \* rounds begun
    owed,     \* history: results less credits of kind "game"
    cut,      \* history: "game", a new game task cancelled one that held the lock;
              \* "raised", the speech of a game raised what nobody catches;
              \* "crossed", a move of tic-tac-toe cancelled a game;
              \* "chant", the generation changed under a countdown; "close", the task
              \* that adopted one found the session closed
    left      \* inputs the world has left

hubVars == <<hand, games, reg, match, st, turn, lock, round, owed, cut, left>>

\* A handler: where it is suspended, the command and the state it broadcasts;
\* mine: the match it works on is still the one in _matches.
NewHand == [pc |-> "idle", kind |-> "none", won |-> "none", mine |-> FALSE]

\* A game task; same: generation == self.state.generation; cancel: cancel() was
\* called on it; dying: it has seen that, or an exception, and is still in a finally
\* block.
NoGame == [pc |-> "none", kind |-> "none", mine |-> FALSE, same |-> FALSE,
           cancel |-> FALSE, dying |-> FALSE, aborted |-> FALSE]

\* The match; last: last_winner, or winner of tic-tac-toe; x and o: the scores, or
\* the marks; pending: _pending of tic-tac-toe; thrown: _pending_player is set
NoMatch == [game |-> "none", phase |-> "none", last |-> "none", x |-> 0, o |-> 0,
            pending |-> FALSE, thrown |-> FALSE]

HubInit ==
    /\ hand = [v \in Viewers |-> NewHand]
    /\ games = [t \in Tasks |-> NoGame]
    /\ reg = NoOne
    /\ match = NoMatch
    /\ st = "ready" /\ turn = "none" /\ lock = NoOne
    /\ round = 0
    /\ owed = 0 /\ cut = {}
    /\ left = [commands |-> MaxCommands, barges |-> MaxBarges]

Busy == st \in {"thinking", "speaking"}
Offline == st = "closed"
Alive(t) == games[t].pc # "none"
Live(t) == Alive(t) /\ ~games[t].cancel /\ ~games[t].dying

-----------------------------------------------------------------------------
\* The engines.

\* A bug: the winner of the round before is still there.
BeginRoundStale == [match EXCEPT !.phase = "countdown", !.thrown = FALSE]

\* begin_round
BeginRound ==
    [match EXCEPT !.phase = "countdown", !.last = "none", !.thrown = FALSE]

\* abort_round, outside a countdown the identity
AbortRound ==
    IF match.phase # "countdown" THEN match
    ELSE [match EXCEPT !.phase = "awaiting_throw", !.last = "none", !.thrown = FALSE]

\* reveal: nobody threw, or the round has a winner.
Reveals ==
    IF ~match.thrown
    THEN {[match EXCEPT !.phase = "awaiting_throw", !.last = "none"]}
    ELSE LET Score(w) == [match EXCEPT !.last = w, !.thrown = FALSE,
                                       !.x = @ + (IF w = "player" THEN 1 ELSE 0),
                                       !.o = @ + (IF w = "mickey" THEN 1 ELSE 0)]
         IN  {[m EXCEPT !.phase = IF WinsNeeded \in {m.x, m.o} THEN "match_over" ELSE "reveal"] :
                  m \in {Score(w) : w \in {"player", "mickey", "draw"}}}

\* winner_of after a mark of who, on a board that now has n marks.
Winners(who, n) == {who, IF n = Cells THEN "draw" ELSE "none"}

\* play, and apply_pending
Marked(who) ==
    LET m == IF who = "player" THEN [match EXCEPT !.x = @ + 1]
                               ELSE [match EXCEPT !.o = @ + 1, !.pending = FALSE]
    IN  {[m EXCEPT !.last = w, !.phase = IF w # "none" THEN "match_over" ELSE "your_turn"] :
             w \in Winners(who, m.x + m.o)}

Applied == IF match.pending THEN Marked("mickey") ELSE {match}

\* The match becomes m, which may have a result.
Becomes(m) ==
    /\ match' = m
    /\ owed' = IF m.last # "none" /\ match.last = "none" THEN owed + 1 ELSE owed

-----------------------------------------------------------------------------
\* What several steps do.

\* bump_generation, seen from the coroutines that have read the generation.
Bumped(g) == [t \in Tasks |-> [g[t] EXCEPT !.same = FALSE]]

\* _matches[key] = a new match
Replaced(h) == [v \in Viewers |-> [h[v] EXCEPT !.mine = FALSE]]
Replacing(g) == [t \in Tasks |-> [g[t] EXCEPT !.mine = FALSE]]

\* _cancel_game: the running task is told to end.
GameCancelled(g) == IF reg = NoOne THEN g ELSE [g EXCEPT ![reg].cancel = TRUE]

\* _spawn_game, which cancels first.
Spawn(kind, g) ==
    \E t \in Tasks :
        /\ ~Alive(t)
        /\ games' = [GameCancelled(g) EXCEPT ![t] = [NoGame EXCEPT !.pc = "run", !.kind = kind]]
        /\ reg' = t
        /\ cut' = cut \cup (IF reg # NoOne /\ reg = lock THEN {"game"} ELSE {})
                      \cup (IF reg # NoOne /\ kind # "rps" THEN {"crossed"} ELSE {})

\* A bug: a task that ends takes whatever task is registered with it.
DoneAny(t) == NoOne

\* _done, when t has ended
DonePops(t) == IF reg = t THEN NoOne ELSE reg

\* The task ends, and leaves the lock if it holds it.
GameOver(t) ==
    /\ games' = [games EXCEPT ![t] = NoGame]
    /\ reg' = DonePops(t)
    /\ lock' = IF lock = t THEN NoOne ELSE lock

Goes(v, pc) == hand' = [hand EXCEPT ![v].pc = pc]
Walks(t, pc) == games' = [games EXCEPT ![t].pc = pc]

-----------------------------------------------------------------------------
\* The handler of one dashboard.

\* A command arrives.
TakesCommand(v) ==
    /\ hand[v].pc = "idle" /\ left.commands > 0
    /\ left' = [left EXCEPT !.commands = @ - 1]
    /\ UNCHANGED <<turn, lock, round>>

StartGame(v) ==
    /\ TakesCommand(v) /\ ~Offline /\ ~Busy
    /\ games' = Replacing(GameCancelled(games))
    /\ reg' = NoOne
    /\ \/ /\ match' = [NoMatch EXCEPT !.game = "rps", !.phase = "awaiting_throw"]
          /\ hand' = [Replaced(hand) EXCEPT ![v].pc = "started"]
       \/ /\ match' = [NoMatch EXCEPT !.game = "ttt", !.phase = "your_turn"]
          /\ hand' = Replaced(hand)
    /\ UNCHANGED <<st, owed, cut>>

\* The rest of _game_start, after its broadcast.
Started(v) ==
    /\ hand[v].pc = "started"
    /\ Spawn("rps", games)
    /\ Goes(v, "idle")
    /\ UNCHANGED <<match, st, turn, lock, round, owed, left>>

FreeForRound ==
    /\ match.game = "rps" => match.phase \notin {"match_over", "countdown"}
    /\ reg = NoOne

Round(v) ==
    /\ TakesCommand(v) /\ ~Offline /\ ~Busy /\ match.game \in {"none", "rps"} /\ FreeForRound
    /\ match' = IF match.game = "rps" THEN match
                ELSE [NoMatch EXCEPT !.game = "rps", !.phase = "awaiting_throw"]
    /\ Spawn("rps", games)
    /\ UNCHANGED <<hand, st, owed>>

Throw(v) ==
    /\ TakesCommand(v) /\ ~Offline /\ match.game = "rps" /\ match.phase = "countdown"
    /\ match' = [match EXCEPT !.thrown = TRUE]
    /\ UNCHANGED <<hand, games, reg, st, owed, cut>>

Move(v) ==
    /\ TakesCommand(v) /\ ~Offline /\ ~Busy /\ match.game = "ttt" /\ match.phase = "your_turn"
    /\ \E m \in Marked("player") :
        /\ Becomes(m)
        /\ hand' = [hand EXCEPT ![v].pc = "moved", ![v].won = m.last, ![v].mine = TRUE]
    /\ UNCHANGED <<games, reg, st, cut>>

\* The rest of _ttt_move after its first broadcast.  begin_mickey raises when it
\* is not the turn of X any more; it may be called on a match that was replaced.
Moved(v) ==
    /\ hand[v].pc = "moved"
    /\ IF hand[v].won # "none"
       THEN Spawn("result", games) /\ Goes(v, "idle") /\ UNCHANGED match
       ELSE /\ \/ /\ hand[v].mine /\ match.phase = "your_turn"
                  /\ match' = [match EXCEPT !.pending = TRUE, !.phase = "mickey_turn"]
                  /\ Goes(v, "thinking")
               \/ /\ hand[v].mine /\ match.phase # "your_turn"
                  /\ Goes(v, "idle") /\ UNCHANGED match
               \/ /\ ~hand[v].mine
                  /\ Goes(v, "thinking") \/ Goes(v, "idle")
                  /\ UNCHANGED match
            /\ UNCHANGED <<games, reg, cut>>
    /\ UNCHANGED <<st, turn, lock, round, owed, left>>

\* ... and after its second.
Thought(v) ==
    /\ hand[v].pc = "thinking"
    /\ Spawn("think", games)
    /\ Goes(v, "idle")
    /\ UNCHANGED <<match, st, turn, lock, round, owed, left>>

\* A bug: Stop cancels the task and leaves the match as it is.
StopsNothing == {match}

\* The match after abort_round or abort_think.
Stopped ==
    IF match.game = "ttt" /\ match.phase = "mickey_turn" THEN Applied
    ELSE IF match.game = "rps" THEN {AbortRound} ELSE {match}

Stop(v) ==
    /\ TakesCommand(v)
    /\ \E m \in Stopped :
        /\ Becomes(m)
        /\ hand' = IF Offline THEN hand
                   ELSE [hand EXCEPT ![v].pc = "stopping",
                             ![v].won = IF match.phase = "mickey_turn" THEN m.last ELSE "none"]
    /\ games' = GameCancelled(games)
    /\ reg' = NoOne
    /\ UNCHANGED <<st, cut>>

\* self.otto.stop has been answered, or timed out: the rest of _companion_stop
\* (_abort of what speaks or thinks) and of _stop.
StopEnds(v) ==
    /\ hand[v].pc = "stopping"
    /\ IF Busy THEN st' = "ready" /\ turn' = "none" /\ games' = Bumped(games)
               ELSE UNCHANGED <<st, turn, games>>
    /\ owed' = IF hand[v].won # "none" THEN owed - 1 ELSE owed
    /\ Goes(v, "idle")
    /\ UNCHANGED <<reg, match, lock, round, cut, left>>

\* chat.send, alarm.*, settings.*, sleep.now: a command that takes the lock.
Ask(v) ==
    /\ TakesCommand(v) /\ ~Offline
    /\ \E kind \in {"chat", "sleep", "settings"} :
        /\ kind = "chat" => ~Busy
        /\ hand' = [hand EXCEPT ![v].pc = "queue", ![v].kind = kind]
    /\ UNCHANGED <<games, reg, match, st, owed, cut>>

\* companion_action has the lock.  sleep aborts a voice turn or whatever speaks.
Asks(v) ==
    /\ hand[v].pc = "queue" /\ lock = NoOne
    /\ IF Offline \/ (hand[v].kind = "chat" /\ Busy)
       THEN Goes(v, "idle") /\ UNCHANGED <<st, turn, games, lock>>
       ELSE /\ lock' = v /\ Goes(v, "asked")
            /\ CASE hand[v].kind = "chat" -> st' = "thinking" /\ UNCHANGED <<turn, games>>
                 [] hand[v].kind = "sleep" /\ (Busy \/ st = "listening") ->
                        st' = "ready" /\ turn' = "none" /\ games' = Bumped(games)
                 [] OTHER -> UNCHANGED <<st, turn, games>>
    /\ UNCHANGED <<reg, match, round, owed, cut, left>>

\* The robot, or Gemini, has answered or not; the frames have been broadcast.
AskEnds(v) ==
    /\ hand[v].pc = "asked"
    /\ lock' = NoOne
    /\ st' = IF hand[v].kind = "chat" /\ ~Offline THEN "ready" ELSE st
    /\ Goes(v, "idle")
    /\ UNCHANGED <<games, reg, match, turn, round, owed, cut, left>>

\* cancel_pending of a session that closes raises CancelledError in a handler
\* that waits for the robot: it ends like a dashboard that leaves.
Dropped(v) ==
    /\ Offline /\ hand[v].pc \in {"stopping", "asked"}
    /\ lock' = IF lock = v THEN NoOne ELSE lock
    /\ Goes(v, "over")
    /\ UNCHANGED <<games, reg, match, st, turn, round, owed, cut, left>>

-----------------------------------------------------------------------------
\* The game task t.

\* A bug: the end of a game forgets to make the session READY again.
FinishQuietly(t, pc, aborted) ==
    /\ lock' = NoOne
    /\ games' = [games EXCEPT ![t].pc = pc, ![t].aborted = aborted]
    /\ UNCHANGED <<st, reg, turn>>

\* Where the session leaves the game: _finish, and the end of the lock.
BackToReady(t, pc, aborted) ==
    /\ st' = IF Offline THEN st ELSE "ready"
    /\ lock' = NoOne
    /\ games' = [games EXCEPT ![t].pc = pc, ![t].aborted = aborted]
    /\ UNCHANGED <<reg, turn>>

At(t, pc) == games[t].pc = pc /\ ~games[t].cancel

\* One turn of the loop of _run_rps_session, or the start of _run_ttt_think or of
\* _run_ttt_result, up to the first await.
Run(t) ==
    /\ At(t, "run")
    /\ LET kind == games[t].kind
           over == \/ Offline
                   \/ kind = "rps" /\ (match.game # "rps" \/ match.phase = "match_over")
                   \/ kind = "think" /\ (match.game # "ttt" \/ match.phase # "mickey_turn")
       IN  \/ /\ over /\ GameOver(t) /\ UNCHANGED <<match, round>>
              /\ cut' = cut \cup (IF match.phase = "countdown" THEN {"close"} ELSE {})
           \/ /\ ~over /\ (kind = "rps" => ~Busy)
              /\ IF kind = "rps" /\ match.phase # "countdown"
                 THEN round < MaxRounds /\ round' = round + 1 /\ match' = BeginRound
                 ELSE UNCHANGED <<round, match>>
              /\ games' = [games EXCEPT ![t].mine = TRUE,
                               ![t].pc = IF kind = "rps" THEN "told" ELSE "queue"]
              /\ UNCHANGED <<reg, lock, cut>>
    /\ UNCHANGED <<hand, st, turn, owed, left>>

\* A CompanionError of companion_action: the match goes on without the robot.
Rejected(t, busy) ==
    /\ CASE games[t].kind = "rps" /\ games[t].mine /\ match.phase = "countdown" ->
                \E m \in IF busy THEN {AbortRound} ELSE Reveals : Becomes(m)
         [] games[t].kind = "think" /\ games[t].mine ->
                match' \in Applied /\ UNCHANGED owed   \* and a game that is over is credited
         [] OTHER -> UNCHANGED <<match, owed>>
    /\ GameOver(t)

\* The countdown has been broadcast.
Told(t) ==
    /\ At(t, "told")
    /\ IF Offline THEN Rejected(t, FALSE)
                 ELSE Walks(t, "queue") /\ UNCHANGED <<match, reg, lock, owed>>
    /\ UNCHANGED <<hand, st, turn, round, cut, left>>

\* companion_action has the lock: _companion_rps_react or _companion_ttt_react.
Enters(t) ==
    /\ At(t, "queue") /\ lock = NoOne
    /\ IF Busy THEN Rejected(t, TRUE) /\ UNCHANGED st
       ELSE /\ games' = [games EXCEPT ![t].same = TRUE, ![t].pc =
                            CASE games[t].kind = "rps" -> "face"
                              [] games[t].kind = "think" -> "think"
                              [] games[t].kind = "result" -> "react"]
            /\ lock' = t
            /\ st' = CASE Offline \/ games[t].kind = "rps" -> st
                       [] games[t].kind = "think" -> "thinking"
                       [] games[t].kind = "result" -> "speaking"
            /\ UNCHANGED <<match, reg, owed>>
    /\ UNCHANGED <<hand, turn, round, cut, left>>

\* _speak of the countdown begins, unless the generation has changed.
Chant(t) ==
    /\ At(t, "face")
    /\ st' = IF games[t].same /\ ~Offline THEN "speaking" ELSE st
    /\ Walks(t, "chant")
    /\ UNCHANGED <<hand, reg, match, turn, lock, round, owed, cut, left>>

\* reveal_web, and the two checks of reveal_now.
MayReveal(t) == games[t].same /\ games[t].mine /\ match.phase = "countdown"

\* What the history says of a chant that ends with its cards down.
Lost(t) ==
    IF ~games[t].same /\ games[t].mine /\ match.phase = "countdown" THEN {"chant"} ELSE {}

\* An exception in the task: the finally block of the chant still turns the cards
\* when it may; nothing else is undone, the state of the session neither.
Escapes(t) ==
    IF games[t].pc = "chant" /\ MayReveal(t)
    THEN /\ games' = [games EXCEPT ![t].pc = "grace", ![t].dying = TRUE, ![t].cancel = FALSE]
         /\ UNCHANGED <<reg, lock>>
    ELSE GameOver(t)

\* The chant is over, or was cut, or _speak has raised an error of the decoder: the
\* finally block of _companion_rps_react.
ChantEnds(t) ==
    /\ At(t, "chant")
    /\ \/ /\ IF MayReveal(t) THEN Walks(t, "grace") /\ UNCHANGED <<st, turn, lock, reg>>
                             ELSE BackToReady(t, "after", TRUE)
          /\ cut' = cut \cup Lost(t)
       \/ /\ Escapes(t) /\ UNCHANGED <<st, turn>>
          /\ cut' = cut \cup Lost(t) \cup {"raised"}
    /\ UNCHANGED <<hand, match, round, owed, left>>

\* reveal_now after wait_for_throw: somebody threw, or the grace is over.
Reveal(t) ==
    /\ At(t, "grace")
    /\ IF games[t].mine /\ match.phase = "countdown"
       THEN /\ \E m \in Reveals : Becomes(m)
            /\ IF games[t].dying THEN GameOver(t) /\ UNCHANGED <<st, turn>>
                                 ELSE Walks(t, "react") /\ UNCHANGED <<st, turn, lock, reg>>
       ELSE /\ IF games[t].dying THEN GameOver(t) /\ UNCHANGED <<st, turn>>
                                 ELSE BackToReady(t, "after", TRUE)
            /\ UNCHANGED <<match, owed>>
    /\ UNCHANGED <<hand, round, cut, left>>

\* The line and the motion of the reaction are over, or _speak has raised.
Reacted(t) ==
    /\ At(t, "react")
    /\ \/ BackToReady(t, "after", ~games[t].same /\ games[t].kind = "rps") /\ UNCHANGED cut
       \/ Escapes(t) /\ UNCHANGED <<st, turn>> /\ cut' = cut \cup {"raised"}
    /\ UNCHANGED <<hand, match, round, owed, left>>

\* The swing is over: apply_pending.
Swung(t) ==
    /\ At(t, "think")
    /\ \E m \in IF games[t].mine THEN Applied ELSE {match} :
        /\ Becomes(m)
        /\ BackToReady(t, IF games[t].mine /\ m.last # "none" THEN "placed" ELSE "over", FALSE)
    /\ UNCHANGED <<hand, round, cut, left>>

\* O has been broadcast, with the winner it has made or none.
Placed(t) ==
    /\ games[t].pc \in {"placed", "over"} /\ ~games[t].cancel
    /\ IF games[t].pc = "placed" /\ ~Offline
       THEN /\ games' = [games EXCEPT ![t].pc = "queue", ![t].kind = "result"]
            /\ UNCHANGED <<reg, lock>>
       ELSE GameOver(t)
    /\ UNCHANGED <<hand, match, st, turn, round, owed, cut, left>>

\* companion_action has returned: the credit of the round or of the game, and in
\* rock-paper-scissors the next round after a pause.
After(t) ==
    /\ At(t, "after")
    /\ LET counts == IF games[t].kind = "rps" THEN games[t].mine ELSE match.game = "ttt"
       IN  owed' = IF counts /\ match.last # "none" THEN owed - 1 ELSE owed
    /\ IF \/ games[t].kind = "result" \/ ~games[t].mine \/ games[t].aborted
          \/ match.phase = "match_over" \/ match.last = "none"
       THEN GameOver(t)
       ELSE Walks(t, "run") /\ UNCHANGED <<reg, lock>>
    /\ UNCHANGED <<hand, match, st, turn, round, cut, left>>

\* CancelledError in the task.
Unwind(t) ==
    /\ Alive(t) /\ games[t].cancel
    /\ Escapes(t)
    /\ cut' = cut \cup (IF games[t].pc = "chant" THEN Lost(t) ELSE {})
    /\ UNCHANGED <<hand, match, st, turn, round, owed, left>>

\* cancel_pending of a session that closes, in a game that waits for the robot.
Hangs(t) ==
    /\ Offline /\ games[t].pc \in {"chant", "think", "react"} /\ ~games[t].cancel
    /\ games' = [games EXCEPT ![t].cancel = TRUE]
    /\ UNCHANGED <<hand, reg, match, st, turn, lock, round, owed, cut, left>>

-----------------------------------------------------------------------------
\* The session.

\* The owner speaks to the robot: _start_listen, whatever the robot is doing.
BargeIn ==
    /\ ~Offline /\ left.barges > 0
    /\ st' = "listening" /\ turn' = "listening"
    /\ games' = Bumped(games)
    /\ left' = [left EXCEPT !.barges = @ - 1]
    /\ UNCHANGED <<hand, reg, match, lock, round, owed, cut>>

\* The voice turn goes on, or is over.
TurnGoes ==
    /\ turn # "none"
    /\ turn' = CASE turn = "listening" -> "thinking" [] turn = "thinking" -> "speaking"
                 [] turn = "speaking" -> "none"
    /\ st' = IF turn' = "none" THEN "ready" ELSE turn'
    /\ UNCHANGED <<hand, games, reg, match, lock, round, owed, cut, left>>

Close ==
    /\ ~Offline
    /\ st' = "closed" /\ turn' = "none"
    /\ games' = Bumped(games)
    /\ UNCHANGED <<hand, reg, match, lock, round, owed, cut, left>>

-----------------------------------------------------------------------------
GameStep(t) ==
    Run(t) \/ Told(t) \/ Enters(t) \/ Chant(t) \/ ChantEnds(t) \/ Reveal(t) \/ Reacted(t)
    \/ Swung(t) \/ Placed(t) \/ After(t) \/ Unwind(t)

HandlerStep(v) ==
    Started(v) \/ Moved(v) \/ Thought(v) \/ StopEnds(v) \/ Asks(v) \/ AskEnds(v)

HubNext ==
    \/ \E v \in Viewers :
        \/ StartGame(v) \/ Started(v) \/ Round(v) \/ Throw(v)
        \/ Move(v) \/ Moved(v) \/ Thought(v)
        \/ Stop(v) \/ StopEnds(v) \/ Ask(v) \/ Asks(v) \/ AskEnds(v) \/ Dropped(v)
    \/ \E t \in Tasks :
        \/ Run(t) \/ Told(t) \/ Enters(t) \/ Chant(t) \/ ChantEnds(t) \/ Reveal(t)
        \/ Reacted(t) \/ Swung(t) \/ Placed(t) \/ After(t) \/ Unwind(t) \/ Hangs(t)
    \/ BargeIn \/ TurnGoes \/ Close

\* The event loop runs every coroutine that can go on; calls to the robot time out.
HubSpec ==
    /\ HubInit /\ [][HubNext]_hubVars
    /\ \A t \in Tasks : WF_hubVars(GameStep(t))
    /\ \A v \in Viewers : WF_hubVars(HandlerStep(v))
    /\ WF_hubVars(TurnGoes)

-----------------------------------------------------------------------------
HandPcs == {"idle", "started", "moved", "thinking", "stopping", "queue",
            "asked", "over"}
GamePcs == {"none", "run", "told", "queue", "face", "chant", "grace", "react", "think",
            "placed", "over", "after"}

\* The state has its types, and the registry holds a task that runs.
HubTypeOK ==
    /\ \A v \in Viewers : hand[v].pc \in HandPcs
    /\ \A t \in Tasks : games[t].pc \in GamePcs
    /\ reg # NoOne => Alive(reg)
    /\ lock \in Viewers \cup Tasks \cup {NoOne}
    /\ st \in {"ready", "listening", "thinking", "speaking", "closed"}
    /\ match.x + match.o <= Cells \/ match.game # "ttt"

\* Two games never run at once: of the tasks that play for this robot all but one
\* have been cancelled, and that one is registered, so that Stop reaches it
\* (_spawn_game, _cancel_game and the callback _done).
OneGame == \A t \in Tasks : Live(t) => reg = t

\* The pet is never credited for more rounds and games than had a result, whether
\* the task, a Stop that ends the thinking or a refused reaction pays it, and
\* whichever of them is cancelled on the way.
CreditedOnce == owed >= 0

\* When a game leaves the session THINKING or SPEAKING with nobody there to end
\* it, a new game task has cancelled one in the middle of its reaction, or the speech
\* of one has raised: no chat, no swing, no refusal, no Stop and no close leaves it so.
BusyIsBusy ==
    Busy => \/ turn # "none" \/ lock # NoOne \/ \E v \in Viewers : hand[v].pc = "stopping"
            \/ cut \cap {"game", "raised"} # {}

\* A countdown ends: the chant, the grace and the waits for the lock come to an end
\* whatever the dashboards do, and a Stop leaves none behind; unless a command that
\* was under way cut a game in the middle, the generation changed under the chant, or a game that
\* took the countdown over from another found the session closed.  A chant that raises
\* still turns its cards.
CountdownEnds ==
    (match.phase = "countdown") ~> (match.phase # "countdown" \/ cut \ {"raised"} # {})

=============================================================================
