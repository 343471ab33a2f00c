----------------------------- MODULE TicTacToe -----------------------------
(***************************************************************************)
(* The tic-tac-toe engine (app/companion/games/ttt.py) as the hub drives   *)
(* it (app/companion/hub.py, _ttt_move and _run_ttt_think): the owner, on  *)
(* any number of dashboards, plays X; Mickey plays O, with minimax on      *)
(* level "medium" and by luck, save for an immediate win, on "easy".       *)
(*                                                                         *)
(* A dashboard's move awaits its broadcast between play and begin_mickey:  *)
(* another dashboard may play in the meantime.  The game's task and the    *)
(* robot are in CompanionHub; here is the board.                           *)
(***************************************************************************)
EXTENDS Naturals, Integers, FiniteSets

CONSTANTS
    MaxMovers,   \* bound: dashboards that are between play and begin_mickey
    None         \* an empty cell, no winner, no pending cell

\* None is no mark, and names no winner.
ASSUME NoneAssumption == None \notin {"x", "o", "player", "mickey", "draw"}

VARIABLES
    board,       \* the nine cells
    phase,       \* TttMatch.phase
    level,       \* TttMatch.difficulty
    winner,      \* TttMatch.winner
    intended,    \* TttMatch._pending
    movers,      \* the dashboards that have played and have not begun Mickey's turn
    doubled      \* X was placed twice with no O in between

tttVars == <<board, phase, level, winner, intended, movers, doubled>>

Squares == 0..8

Lines == {{0, 1, 2}, {3, 4, 5}, {6, 7, 8}, {0, 3, 6}, {1, 4, 7}, {2, 5, 8}, {0, 4, 8}, {2, 4, 6}}

Free(b) == {c \in Squares : b[c] = None}

Has(b, mark) == \E line \in Lines : \A c \in line : b[c] = mark

\* winner_of
WinnerOf(b) ==
    IF Has(b, "x") THEN "player"
    ELSE IF Has(b, "o") THEN "mickey"
    ELSE IF Free(b) = {} THEN "draw" ELSE None

Boards == [Squares -> {"x", "o", None}]

\* minimax, the score of a board with mark to move: 1 Mickey wins, -1 the player does, 0 a draw.
Score[b \in Boards] == [mark \in {"x", "o"} |->
    LET w == WinnerOf(b)
        next == {Score[[b EXCEPT ![c] = mark]][IF mark = "o" THEN "x" ELSE "o"] : c \in Free(b)}
    IN  IF w = "mickey" THEN 1 ELSE IF w = "player" THEN -1 ELSE IF w = "draw" THEN 0
        ELSE CHOOSE s \in next : \A t \in next : IF mark = "o" THEN s >= t ELSE s <= t]

\* The value of the game: the player, who moves first, cannot force a win.  A computation,
\* which TLC does over the whole tree of play.
ASSUME EmptyBoardAssumption == Score[[c \in Squares |-> None]]["x"] >= 0

\* minimax, the cell: the first one of the best score.
BestCell(b) ==
    LET score == [c \in Free(b) |-> Score[[b EXCEPT ![c] = "o"]]["x"]]
    IN  CHOOSE c \in Free(b) : \A d \in Free(b) :
            score[c] > score[d] \/ (score[c] = score[d] /\ c <= d)

\* A bug: medium is easy that also blocks.
PickBlocking(b) ==
    LET wins(mark) == {c \in Free(b) : Has([b EXCEPT ![c] = mark], mark)} IN
    IF wins("o") # {} THEN wins("o") ELSE IF wins("x") # {} THEN wins("x") ELSE Free(b)

\* pick_mickey_cell on medium, and on easy (winning_cell: the first that wins).
PickMedium(b) == {BestCell(b)}
PickEasy(b) ==
    LET wins == {c \in Free(b) : Has([b EXCEPT ![c] = "o"], "o")} IN
    IF wins = {} THEN Free(b) ELSE {CHOOSE c \in wins : \A d \in wins : c <= d}

---------------------------------------------------------------------------
EmptyMatch(l) == [board |-> [c \in Squares |-> None], level |-> l]

TttInit ==
    /\ level \in {"easy", "medium"}
    /\ board = EmptyMatch(level).board /\ phase = "your_turn" /\ winner = None /\ intended = None
    /\ movers = 0 /\ doubled = FALSE

\* game.start: a new match; whoever still moved in the old one keeps that one.
NewGame(l) ==
    /\ board' = EmptyMatch(l).board /\ level' = l
    /\ phase' = "your_turn" /\ winner' = None /\ intended' = None
    /\ movers' = 0 /\ doubled' = FALSE

\* play: X in an empty cell on the player's turn.
Play(c) ==
    /\ phase = "your_turn" /\ board[c] = None /\ movers < MaxMovers
    /\ board' = [board EXCEPT ![c] = "x"]
    /\ winner' = WinnerOf(board')
    /\ phase' = IF winner' = None THEN phase ELSE "match_over"
    /\ movers' = IF winner' = None THEN movers + 1 ELSE movers
    /\ doubled' = (doubled \/ movers > 0)
    /\ UNCHANGED <<level, intended>>

\* begin_mickey, after the broadcast; the second of two movers gets a ValueError.
BeginMickey ==
    /\ movers > 0
    /\ movers' = movers - 1
    /\ \/ /\ phase = "your_turn"
          /\ \E c \in IF level = "easy" THEN PickEasy(board) ELSE PickMedium(board) : intended' = c
          /\ phase' = "mickey_turn"
       \/ phase # "your_turn" /\ UNCHANGED <<phase, intended>>
    /\ UNCHANGED <<board, level, winner, doubled>>

\* apply_pending: the think task ends, fails, or is stopped (abort_think).
ApplyPending ==
    /\ intended # None
    /\ board' = IF board[intended] = None THEN [board EXCEPT ![intended] = "o"] ELSE board
    /\ intended' = None
    /\ winner' = WinnerOf(board')
    /\ phase' = IF winner' = None THEN "your_turn" ELSE "match_over"
    /\ UNCHANGED <<level, movers, doubled>>

TttNext ==
    \/ \E l \in {"easy", "medium"} : NewGame(l)
    \/ \E c \in Squares : Play(c)
    \/ BeginMickey
    \/ ApplyPending

TttSpec == TttInit /\ [][TttNext]_tttVars

---------------------------------------------------------------------------
\* "medium is perfect minimax" (backend_spec.md): as long as no two dashboards place two
\* X in a row, the player never wins on medium.
MediumNeverLoses == level = "medium" /\ ~doubled => winner # "player"
============================================================================
