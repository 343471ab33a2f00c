------------------------------ MODULE Dashboards ------------------------------
(***************************************************************************)
(* The dashboards of one robot (app/api/companion.py,                      *)
(* companion_websocket; app/companion/hub.py, subscribe, unsubscribe,      *)
(* broadcast, the chat history).                                           *)
(*                                                                         *)
(* A dashboard's socket is subscribed first and then sent hello, presence, *)
(* the chat history line by line and the pet's state, while broadcasts     *)
(* already reach it; then its handler receives commands.  A broadcast      *)
(* takes a copy of the viewers and awaits one send after the other; those  *)
(* that failed are discarded at its end.                                   *)
(***************************************************************************)
EXTENDS Naturals, Sequences, FiniteSets

CONSTANTS
    Screens,      \* the dashboards' sockets
    Broadcasts,   \* bound: broadcasts under way at once
    HistoryMax,   \* CHAT_HISTORY
    MaxLines      \* bound: chat lines said

VARIABLES
    viewers,      \* _viewers of the robot
    stage,        \* where a socket's handler is
    link,         \* the connection: up, broken (not yet noticed) or closed
    past,         \* the history lines a handler has yet to send
    history,      \* _chat: the last lines
    spoken,       \* lines said so far
    airing,       \* each broadcast: its line (0: presence), whom it owes it, who failed
    got           \* the lines each dashboard has been sent, {} once it is gone

viewVars == <<viewers, stage, link, past, history, spoken, airing, got>>

NoCast == [line |-> 0, left |-> {}, dead |-> {}, on |-> FALSE]

ViewInit ==
    /\ viewers = {} /\ history = <<>> /\ spoken = 0
    /\ stage = [s \in Screens |-> "new"]
    /\ link = [s \in Screens |-> "up"]
    /\ past = [s \in Screens |-> <<>>]
    /\ airing = [b \in Broadcasts |-> NoCast]
    /\ got = [s \in Screens |-> {}]

\* A send to s: it arrives, or raises in its caller.
Reaches(s) == link[s] = "up"

\* subscribe, right after accept.
Subscribe(s) ==
    /\ stage[s] = "new"
    /\ viewers' = viewers \cup {s}
    /\ stage' = [stage EXCEPT ![s] = "hello"]
    /\ UNCHANGED <<link, past, history, spoken, airing, got>>

\* hello, the presence (a broadcast), and then the copy of the history.
Greeted(s) ==
    /\ stage[s] = "hello" /\ Reaches(s)
    /\ stage' = [stage EXCEPT ![s] = "history"]
    /\ past' = [past EXCEPT ![s] = history]
    /\ UNCHANGED <<viewers, link, history, spoken, airing, got>>

SendPast(s) ==
    /\ stage[s] = "history" /\ Reaches(s) /\ past[s] # <<>>
    /\ got' = [got EXCEPT ![s] = @ \cup {Head(past[s])}]
    /\ past' = [past EXCEPT ![s] = Tail(@)]
    /\ UNCHANGED <<viewers, stage, link, history, spoken, airing>>

\* The store's frames, and the loop that receives.
Opened(s) ==
    /\ stage[s] = "history" /\ Reaches(s) /\ past[s] = <<>>
    /\ stage' = [stage EXCEPT ![s] = "open"]
    /\ UNCHANGED <<viewers, link, past, history, spoken, airing, got>>

\* A send of the first frames raises: no finally stands around them, so the socket stays
\* a viewer until a broadcast fails on it.
BootFails(s) ==
    /\ stage[s] \in {"hello", "history"} /\ ~Reaches(s)
    /\ stage' = [stage EXCEPT ![s] = "gone"]
    /\ link' = [link EXCEPT ![s] = "closed"]
    /\ past' = [past EXCEPT ![s] = <<>>]
    /\ got' = [got EXCEPT ![s] = {}]
    /\ UNCHANGED <<viewers, history, spoken, airing>>

\* A bug: the last one out is taken for all of them.
LeavesNobody(s) == {}

\* unsubscribe
Leaves(s) == viewers \ {s}

\* WebSocketDisconnect ends the loop: unsubscribe.
Gone(s) ==
    /\ stage[s] = "open" /\ ~Reaches(s)
    /\ stage' = [stage EXCEPT ![s] = "gone"]
    /\ link' = [link EXCEPT ![s] = "closed"]
    /\ viewers' = Leaves(s)
    /\ got' = [got EXCEPT ![s] = {}]
    /\ UNCHANGED <<past, history, spoken, airing>>

Break(s) ==
    /\ stage[s] \notin {"new", "gone"} /\ link[s] = "up"
    /\ link' = [link EXCEPT ![s] = "broken"]
    /\ UNCHANGED <<viewers, stage, past, history, spoken, airing, got>>

\* _remember_chat: the last HistoryMax lines.
Remembered(line) ==
    LET lines == Append(history, line) IN
    IF Len(lines) > HistoryMax THEN Tail(lines) ELSE lines

\* A chat line of an open dashboard, or the answer to one: remembered and, with nothing
\* awaited in between, broadcast to a copy of the viewers.
Say(b) ==
    /\ ~airing[b].on /\ spoken < MaxLines
    /\ \E s \in Screens : stage[s] = "open"
    /\ spoken' = spoken + 1
    /\ history' = Remembered(spoken + 1)
    /\ airing' = [airing EXCEPT ![b] = [line |-> spoken + 1, left |-> viewers, dead |-> {}, on |-> TRUE]]
    /\ UNCHANGED <<viewers, stage, link, past, got>>

\* The presence, of the loop or of a dashboard that is being greeted.
Pulse(b) ==
    /\ ~airing[b].on /\ viewers # {}
    /\ airing' = [airing EXCEPT ![b] = [line |-> 0, left |-> viewers, dead |-> {}, on |-> TRUE]]
    /\ UNCHANGED <<viewers, stage, link, past, history, spoken, got>>

\* One send of a broadcast; the copy has no order.
CastSend(b) ==
    /\ airing[b].on
    /\ \E s \in airing[b].left :
         /\ got' = IF Reaches(s) /\ airing[b].line > 0
                   THEN [got EXCEPT ![s] = @ \cup {airing[b].line}] ELSE got
         /\ airing' = [airing EXCEPT ![b].left = @ \ {s},
                                 ![b].dead = IF Reaches(s) THEN @ ELSE @ \cup {s}]
    /\ UNCHANGED <<viewers, stage, link, past, history, spoken>>

\* The dead are discarded from the viewers of now.
CastEnd(b) ==
    /\ airing[b].on /\ airing[b].left = {}
    /\ viewers' = viewers \ airing[b].dead
    /\ airing' = [airing EXCEPT ![b] = NoCast]
    /\ UNCHANGED <<stage, link, past, history, spoken, got>>

ViewNext ==
    \/ \E s \in Screens : \/ Subscribe(s) \/ Greeted(s) \/ SendPast(s) \/ Opened(s)
                         \/ BootFails(s) \/ Gone(s) \/ Break(s)
    \/ \E b \in Broadcasts : Say(b) \/ Pulse(b) \/ CastSend(b) \/ CastEnd(b)

ViewSpec == ViewInit /\ [][ViewNext]_viewVars

---------------------------------------------------------------------------
\* Whoever joins, leaves or breaks off while lines are being spoken, an open dashboard whose
\* connection is up has every line of the history, or a broadcast still owes it to it.
NothingMissed ==
    \A s \in Screens : stage[s] = "open" /\ link[s] = "up" =>
        \A i \in 1..Len(history) :
            \/ history[i] \in got[s]
            \/ \E b \in Broadcasts : airing[b].line = history[i] /\ s \in airing[b].left
============================================================================
