------------------------------ MODULE LiveBrain ------------------------------
(***************************************************************************)
(* The Gemini Live session of one robot: GeminiLiveBrain of                *)
(* app/ai/gemini.py.  One object is shared by five coroutines: the turn of *)
(* the owner's voice (begin_utterance, end_utterance and                   *)
(* continue_with_functions), the device's receive loop that pushes PCM     *)
(* (push_pcm), the typed chat, the pet and the end of a song               *)
(* (send_text_turn, notify_music_finished), the session that connects and  *)
(* resets (ensure_connected, reset_conversation), and _receive_loop.  Each *)
(* of them may open the socket, find it dead, and recover.                 *)
(*                                                                         *)
(* What Gemini says is reduced to whether it ends a turn.  The protocol    *)
(* has no turn ids: the model knows which turn an answer is for, the code  *)
(* does not.  Uplink.tla has the PCM, DeviceSession.tla the session.       *)
(***************************************************************************)
EXTENDS Integers, FiniteSets

CONSTANTS
    Casts,       \* bound: [who, before], which of the coroutines run together, and
                 \* how many sockets were opened, and lost, before
    MaxSockets,  \* bound: sockets opened
    MaxTurns,    \* bound: turns begun, the continuations after a tool included
    MaxTalks     \* bound: resets of the conversation

ASSUME CastsAssumption == \A cast \in Casts : cast.before \in Nat

VARIABLES
    socket,  \* _session and _connect_cm: the socket in use, or 0
    opened,  \* sockets opened so far
    wire,    \* the sockets that are connected
    holder,  \* who has _lock, always to connect
    co,      \* the coroutines
    brain,   \* the other attributes
    owes,    \* the answers Gemini has still to give
    ended,   \* the queues with an end mark nobody has read
    heard    \* history: the talk of the last message, and of the turn that took it

liveVars == <<socket, opened, wire, holder, co, brain, owes, ended, heard>>

Coroutines == {"voice", "mic", "text", "warm", "rx"}

\* A coroutine; then: what it does once it is connected, or has closed; back: where
\* it goes on after a recovery; has: the socket in its hands; own: the turn it waits
\* for; reads: the queue its speaker is suspended on, or has its sentence from; mid:
\* the speaker is in a sentence; stray: history, it has read a queue that is not the
\* one of its turn.
Idle == [pc |-> "idle", then |-> "none", back |-> "idle", has |-> 0, own |-> 0,
         reads |-> 0, mid |-> FALSE, stray |-> FALSE]

\* turn: _turn and _turn_done; queue: _speak_q, by the turn it was made for; shut:
\* _speak_closed; failed: transient_disconnect; done: the event is set; turns: turns
\* so far; talk: resets so far, since: when the turn began; orphan: history, a loop
\* was not started because the one before was closing its socket for good.
Fresh == [cancelled |-> TRUE, streaming |-> FALSE, started |-> FALSE, turn |-> 0, turns |-> 0,
          queue |-> 0, shut |-> TRUE, failed |-> FALSE, done |-> TRUE, talk |-> 0, since |-> 0,
          orphan |-> FALSE]

\* configure_tools has cancelled what there was and closes; then ensure_connected.
\* Without "warm" that has failed, and the first turn connects.
LiveInit ==
    /\ socket = 0 /\ wire = {} /\ holder = "none"
    /\ \E cast \in Casts :
        /\ opened = cast.before
        /\ co = [c \in Coroutines |->
                    CASE c \notin cast.who \cup {"rx"} -> [Idle EXCEPT !.pc = "away"]
                      [] c \in cast.who /\ c = "warm" -> [Idle EXCEPT !.pc = "close", !.then = "reset"]
                      [] OTHER -> Idle]
        /\ brain = [Fresh EXCEPT !.cancelled = "warm" \in cast.who]
    /\ owes = {} /\ ended = {0} /\ heard = <<0, 0>>

-----------------------------------------------------------------------------
\* A bug: _start_receive_loop does not see that the loop of the first socket is over.
StartLoopOnce(k) ==
    IF k["rx"].pc = "idle" /\ opened <= 1 THEN [k EXCEPT !["rx"] = [Idle EXCEPT !.pc = "start"]]
    ELSE k

\* _start_receive_loop, on the coroutines k
StartLoop(k) == IF k["rx"].pc = "idle" THEN [k EXCEPT !["rx"] = [Idle EXCEPT !.pc = "start"]] ELSE k

\* The loop it found is one that will not read again.
Orphaned == co["rx"].pc \in {"close", "exit"} /\ co["rx"].then = "over"

\* A new _turn and _turn_done, in the brain b
NewTurn(b) ==
    [b EXCEPT !.turn = b.turns + 1, !.turns = @ + 1, !.since = b.talk,
              !.failed = FALSE, !.done = FALSE]

\* ... and a new _speak_q
NewQueue(b) == [NewTurn(b) EXCEPT !.queue = b.turns + 1, !.shut = FALSE]

\* The turn is over for whoever waits for it.
Done(b) == [b EXCEPT !.done = TRUE]

Room == brain.turns < MaxTurns

\* c wants the socket, or wants it closed.
Wants(k, c, pc, then) == [k EXCEPT ![c].pc = pc, ![c].then = then]

\* _recover_after_transient begins in c: the turn of the moment has failed,
\* whichever socket it was that died.
Failing(b) ==
    [Done(b) EXCEPT !.streaming = FALSE, !.started = FALSE, !.failed = TRUE]

Recovers(c, back) ==
    /\ brain' = Failing(brain)
    /\ co' = [co EXCEPT ![c] = [@ EXCEPT !.pc = "close", !.then = "recover", !.back = back,
                                         !.has = 0, !.own = 0]]
    /\ UNCHANGED <<socket, opened, wire, holder, owes, ended, heard>>

\* Gemini is asked on the socket in use.
Asked(b) == owes \cup {[on |-> socket, turn |-> b.turn, talk |-> b.since]}

\* finish_speakable
FinishSpeakable(b) == [b EXCEPT !.shut = TRUE]

\* A bug: the queue is shut and nobody is told.
EndMarkLost(b) == ended

EndMark(b) == IF b.shut THEN ended ELSE ended \cup {b.queue}

\* send_text_turn on the socket s, up to the wait for the answer
Injects(k, s) ==
    LET b == NewQueue([brain EXCEPT !.streaming = FALSE, !.started = FALSE])
    IN  /\ Room
        /\ co' = StartLoop([k EXCEPT !["text"].pc = "wait", !["text"].own = b.turn, !["text"].has = s,
                              !["text"].reads = IF k["text"].stray THEN @ ELSE b.queue])
        /\ brain' = [b EXCEPT !.orphan = Orphaned]
        /\ owes' = owes \cup {[on |-> s, turn |-> b.turn, talk |-> b.since]}

-----------------------------------------------------------------------------
\* What a coroutine does once _ensure_session has returned.
Connected(c, s) ==
    LET k == [co EXCEPT ![c].has = 0, ![c].then = "none", ![c].back = "idle"]
    IN  CASE co[c].then \in {"begin", "again"} ->
                /\ co' = StartLoop([k EXCEPT ![c].pc = "stream"])
                /\ brain' = [brain EXCEPT !.orphan = Orphaned]
                /\ UNCHANGED owes
          [] co[c].then = "text" ->
                Injects(k, s)
          [] co[c].then = "warm" ->
                /\ co' = StartLoop([k EXCEPT ![c] = Idle])
                /\ UNCHANGED <<brain, owes>>
          [] co[c].then = "read" ->
                /\ co' = [k EXCEPT ![c].pc = "receive", ![c].has = s]
                /\ UNCHANGED <<brain, owes>>
          [] co[c].then = "recover" ->
                LET r == [k EXCEPT ![c].pc = co[c].back, ![c].has = IF c = "rx" THEN -1 ELSE 0]
                IN  /\ co' = IF c = "rx" THEN r ELSE StartLoop(r)
                    /\ UNCHANGED <<brain, owes>>

\* A bug: the session is not looked at again under the lock.
MustConnectAnyway == TRUE

\* The check of _ensure_session, again under the lock
MustConnect == socket = 0

\* _ensure_session, when the lock is free
Ensure(c) ==
    /\ co[c].pc = "ensure" /\ holder = "none"
    /\ IF MustConnect
       THEN /\ opened < MaxSockets
            /\ holder' = c
            /\ co' = [co EXCEPT ![c].pc = "connect"]
            /\ UNCHANGED <<brain, owes>>
       ELSE Connected(c, socket) /\ UNCHANGED holder
    /\ UNCHANGED <<socket, opened, wire, ended, heard>>

Opens(c) ==
    /\ co[c].pc = "connect"
    /\ opened' = opened + 1 /\ socket' = opened + 1 /\ wire' = wire \cup {opened + 1}
    /\ holder' = "none"
    /\ Connected(c, opened + 1)
    /\ UNCHANGED <<ended, heard>>

\* The connection is refused or times out.
Refused(c) ==
    /\ co[c].pc = "connect"
    /\ holder' = "none"
    /\ CASE co[c].then = "begin" -> co' = Wants(co, c, "close", "again") /\ UNCHANGED brain
         [] co[c].then = "again" ->
                /\ co' = [co EXCEPT ![c].pc = "stream"]
                /\ brain' = [Done(brain) EXCEPT !.streaming = FALSE]
         [] co[c].then = "text" ->
                /\ co' = [co EXCEPT ![c].pc = "hear", ![c].then = "none"]
                /\ brain' = FinishSpeakable(brain)
         [] co[c].then = "warm" -> co' = Wants(co, c, "close", "over") /\ UNCHANGED brain
         [] co[c].then = "read" ->
                \/ /\ brain' = Failing(brain)
                   /\ co' = [Wants(co, c, "close", "recover") EXCEPT ![c].back = "start"]
                \/ /\ brain' = Done(brain)
                   /\ co' = Wants(co, c, "close", "over")
         [] co[c].then = "recover" -> co' = Wants(co, c, "close", "retry") /\ UNCHANGED brain
    /\ ended' = IF co[c].then = "text" THEN EndMark(brain) ELSE ended
    /\ UNCHANGED <<socket, opened, wire, owes, heard>>

\* _recover_after_transient has failed: the loop ends, unless go_away began it.
GivesUp(k, c) ==
    CASE c = "rx" /\ k[c].back = "start" -> [k EXCEPT ![c] = Idle]
      [] c = "rx" /\ k[c].back = "receive" -> [k EXCEPT ![c] = [Idle EXCEPT !.pc = "start"]]
      [] c # "rx" -> [k EXCEPT ![c].pc = k[c].back, ![c].then = "none", ![c].back = "idle"]

\* What a coroutine does once _close_live_socket has returned.
Closed(c) ==
    LET k == [co EXCEPT ![c].has = IF c = "rx" /\ co[c].back = "receive" THEN -1 ELSE 0]
    IN  CASE co[c].then \in {"again", "recover"} ->
                co' = [k EXCEPT ![c].pc = "ensure"] /\ UNCHANGED brain
          [] co[c].then = "retry" ->          \* once more, or the last delay is over
                \/ co' = Wants(k, c, "ensure", "recover") /\ UNCHANGED brain
                \/ /\ co' = GivesUp(k, c)
                   /\ brain' = IF c = "rx" /\ co[c].back = "start" THEN Done(brain) ELSE brain
          [] co[c].then = "over" -> co' = [k EXCEPT ![c] = Idle] /\ UNCHANGED brain
          [] co[c].then = "reset" ->
                /\ co' = Wants(k, c, "ensure", "warm")
                /\ brain' = [brain EXCEPT !.cancelled = FALSE]

\* _close_live_socket takes the socket under the lock ...
Takes(c) ==
    /\ co[c].pc = "close" /\ holder = "none"
    /\ socket' = 0
    /\ IF socket = 0 THEN Closed(c)
       ELSE co' = [co EXCEPT ![c].pc = "exit", ![c].has = socket] /\ UNCHANGED brain
    /\ UNCHANGED <<opened, wire, holder, owes, ended, heard>>

\* ... and closes it without.
Exits(c) ==
    /\ co[c].pc = "exit"
    /\ wire' = wire \ {co[c].has}
    /\ Closed(c)
    /\ UNCHANGED <<socket, opened, holder, owes, ended, heard>>

-----------------------------------------------------------------------------
\* The voice.

\* listen/start cancels what there was, waits for a reset, and calls begin_utterance.
BeginUtterance ==
    /\ co["voice"].pc = "idle" /\ Room
    /\ brain.talk > 0 => co["warm"].pc = "idle"
    /\ brain' = [NewQueue(brain) EXCEPT !.cancelled = FALSE, !.streaming = TRUE, !.started = FALSE]
    /\ ended' = EndMark(brain)
    /\ co' = Wants(co, "voice", "ensure", "begin")
    /\ UNCHANGED <<socket, opened, wire, holder, owes, heard>>

\* push_pcm
MayPush == ~brain.cancelled /\ brain.streaming /\ socket # 0 /\ ~brain.failed

PushPcm ==
    /\ MayPush /\ socket \in wire
    /\ co["mic"].pc = "idle" \/ co["voice"].pc = "stream"   \* or the flush of what was held
    /\ brain' = [brain EXCEPT !.started = TRUE]
    /\ UNCHANGED <<socket, opened, wire, holder, co, owes, ended, heard>>

\* end_utterance, up to the wait for the answer
EndUtterance ==
    /\ co["voice"].pc = "stream"
    /\ brain' = [brain EXCEPT !.streaming = FALSE]
    /\ IF brain.failed \/ ~brain.started \/ socket = 0
       THEN co' = [co EXCEPT !["voice"] = Idle] /\ UNCHANGED owes
       ELSE /\ co' = [co EXCEPT !["voice"].pc = "wait", !["voice"].own = brain.turn,
                                !["voice"].has = socket]
            /\ owes' = Asked(brain)
    /\ UNCHANGED <<socket, opened, wire, holder, ended, heard>>

\* The event is set, or was not in time: the turn is over ...
TurnEnds(c) ==
    /\ co[c].pc = "wait"
    /\ co' = [co EXCEPT ![c] = IF c = "text" THEN [@ EXCEPT !.pc = "finish", !.has = 0, !.own = 0]
                                              ELSE Idle]
    /\ UNCHANGED <<socket, opened, wire, holder, brain, owes, ended, heard>>

\* ... or has called a function, and goes on with its result.
ContinueWithFunctions ==
    /\ co["voice"].pc = "wait" /\ co["voice"].own = brain.turn /\ brain.done /\ ~brain.failed
    /\ ~brain.cancelled /\ socket # 0 /\ Room
    /\ LET b == NewTurn(brain)
       IN  /\ brain' = [b EXCEPT !.orphan = Orphaned]
           /\ co' = StartLoop([co EXCEPT !["voice"].own = b.turn, !["voice"].has = socket])
           /\ owes' = Asked(b)
    /\ UNCHANGED <<socket, opened, wire, holder, ended, heard>>

\* A send finds its socket dead.
SendBreaks(c) ==
    /\ \/ c \in {"voice", "text"} /\ co[c].pc = "wait"
       \/ c = "mic" /\ co[c].pc = "idle" /\ MayPush
    /\ (IF c = "mic" THEN socket ELSE co[c].has) \notin wire
    /\ Recovers(c, IF c = "text" THEN "finish" ELSE "idle")

\* cancel
Cancelled(b) ==
    [Done(b) EXCEPT !.cancelled = TRUE, !.streaming = FALSE, !.started = FALSE, !.shut = TRUE]

\* CancelledError in c, wherever it is
Unwound(c) ==
    /\ holder' = IF holder = c THEN "none" ELSE holder
    /\ wire' = IF co[c].pc = "exit" THEN wire \ {co[c].has} ELSE wire

\* _cancel_turn of the session: the task of the voice is cancelled, and cancel is called.
CancelTurn ==
    /\ ~brain.cancelled
    /\ brain' = Cancelled(brain)
    /\ ended' = EndMark(brain)
    /\ co' = [co EXCEPT !["voice"] = IF @.pc = "away" THEN @ ELSE Idle]
    /\ Unwound("voice")
    /\ UNCHANGED <<socket, opened, owes, heard>>

-----------------------------------------------------------------------------
\* The typed line, or what the pet or the song has to say: send_text_turn in the
\* chat of the session, which has started its speaker before.

\* The speaker runs as soon as the coroutine is suspended: before the turn has its
\* queue, when there is no socket yet; and after a cancel there is no turn at all.
SendTextTurn ==
    /\ co["text"].pc = "idle" /\ co["voice"].pc # "wait" /\ Room
    /\ LET asks(stray, pc) == [co EXCEPT !["text"] = [Idle EXCEPT !.pc = pc, !.reads = brain.queue,
                                                       !.stray = stray, !.then = "text"]]
       IN  IF ~brain.cancelled /\ socket # 0 THEN Injects(asks(FALSE, "wait"), socket)
           ELSE /\ co' = asks(TRUE, IF brain.cancelled THEN "hear" ELSE "ensure")
                /\ UNCHANGED <<brain, owes>>
    /\ UNCHANGED <<socket, opened, wire, holder, ended, heard>>

\* The chat, its tools done, calls finish_speakable and waits for its speaker.
Finish ==
    /\ co["text"].pc = "finish"
    /\ brain' = FinishSpeakable(brain)
    /\ ended' = EndMark(brain)
    /\ co' = [co EXCEPT !["text"].pc = "hear"]
    /\ UNCHANGED <<socket, opened, wire, holder, owes, heard>>

\* iter_speakable: the speaker is suspended in get, and not in a sentence it was given.
Gets == co["text"].pc # "idle" /\ ~co["text"].mid

\* It gets a sentence, and speaks it; one stands for those that follow it up to the end
\* mark, so it gets none once that is there.  If the queue is a later turn's, its
\* generation is over, and it returns.
SpeakerSpeaks ==
    /\ Gets /\ co["text"].reads \notin ended \cup {-1}
    /\ co' = [co EXCEPT !["text"] = IF @.stray THEN [@ EXCEPT !.reads = -1]
                                              ELSE [@ EXCEPT !.mid = TRUE]]
    /\ UNCHANGED <<socket, opened, wire, holder, brain, owes, ended, heard>>

\* After the sentence it looks up _speak_q anew.
ReadsOn(x) ==
    [x EXCEPT !.mid = FALSE, !.reads = brain.queue, !.stray = @ \/ brain.queue # x.reads]

SpeakerReadsOn ==
    /\ co["text"].mid
    /\ co' = [co EXCEPT !["text"] = ReadsOn(@)]
    /\ UNCHANGED <<socket, opened, wire, holder, brain, owes, ended, heard>>

\* The speaker gets the end mark of the queue it is suspended on.
SpeakerEnds ==
    /\ Gets /\ co["text"].reads \in ended
    /\ ended' = ended \ {co["text"].reads}
    /\ co' = [co EXCEPT !["text"].reads = -1]
    /\ UNCHANGED <<socket, opened, wire, holder, brain, owes, heard>>

Heard ==
    /\ co["text"].pc = "hear" /\ co["text"].reads = -1
    /\ co' = [co EXCEPT !["text"] = Idle]
    /\ UNCHANGED <<socket, opened, wire, holder, brain, owes, ended, heard>>

-----------------------------------------------------------------------------
\* A bug: the conversation is reset and the loop goes on reading.
LoopCancelledNot(k) == k

\* close: the receive loop ends.
LoopCancelled(k) == [k EXCEPT !["rx"] = Idle]

\* reset_conversation, up to its first await: the next wake is a new chat.
ResetConversation ==
    /\ co["warm"].pc = "idle" /\ brain.talk < MaxTalks /\ co["voice"].pc = "idle"
    /\ brain' = [Cancelled(brain) EXCEPT !.talk = @ + 1]
    /\ ended' = EndMark(brain)
    /\ co' = LoopCancelled(Wants(co, "warm", "close", "reset"))
    /\ holder' = IF holder = "rx" THEN "none" ELSE holder
    /\ wire' = IF co["rx"].pc = "exit" THEN wire \ {co["rx"].has} ELSE wire
    /\ UNCHANGED <<socket, opened, owes, heard>>

-----------------------------------------------------------------------------
\* _receive_loop.

\* The head of the loop
Loops ==
    /\ co["rx"].pc = "start"
    /\ co' = [co EXCEPT !["rx"] = IF brain.cancelled THEN Idle
                                  ELSE [Idle EXCEPT !.pc = "ensure", !.then = "read"]]
    /\ UNCHANGED <<socket, opened, wire, holder, brain, owes, ended, heard>>

\* A message of the answer to a turn; final: the last one, which ends receive().
\* _handle_response ingests it in the turn of the moment, unless cancelled.
Message(final) ==
    /\ co["rx"].pc = "receive"
    /\ \E o \in owes :
        /\ o.on = co["rx"].has
        /\ owes' = IF final THEN owes \ {o} ELSE owes
        /\ heard' = IF brain.cancelled THEN heard ELSE <<o.talk, brain.since>>
        /\ brain' = IF final /\ ~brain.cancelled THEN Done(brain) ELSE brain
    /\ co' = IF final \/ (socket = 0 /\ ~brain.cancelled)
              THEN [co EXCEPT !["rx"] = [Idle EXCEPT !.pc = "start"]] ELSE co
    /\ UNCHANGED <<socket, opened, wire, holder, ended>>

\* go_away: the loop recovers, and goes on reading from the socket it had.
GoAway ==
    /\ co["rx"].pc = "receive" /\ co["rx"].has \in wire /\ ~brain.cancelled
    /\ Recovers("rx", "receive")

\* receive() raises on a dead socket: a transient error, or one for good.
ReceiveFails ==
    /\ co["rx"].pc = "receive" /\ co["rx"].has \notin wire
    /\ \/ Recovers("rx", "start")
       \/ /\ brain' = Done(brain)
          /\ co' = Wants(co, "rx", "close", "over")
          /\ UNCHANGED <<socket, opened, wire, holder, owes, ended, heard>>

\* The network drops the connection.
Drops ==
    /\ socket \in wire
    /\ wire' = wire \ {socket}
    /\ UNCHANGED <<socket, opened, holder, co, brain, owes, ended, heard>>

-----------------------------------------------------------------------------
LiveStep(c) == Ensure(c) \/ Opens(c) \/ Refused(c) \/ Takes(c) \/ Exits(c)
TextStep ==
    \/ LiveStep("text") \/ TurnEnds("text") \/ SendBreaks("text") \/ Finish
    \/ SpeakerReadsOn \/ SpeakerEnds \/ Heard

LiveNext ==
    \/ \E c \in Coroutines :
        \/ Ensure(c) \/ Opens(c) \/ Refused(c) \/ Takes(c) \/ Exits(c)
        \/ TurnEnds(c) \/ SendBreaks(c)
    \/ BeginUtterance \/ PushPcm \/ EndUtterance \/ ContinueWithFunctions \/ CancelTurn
    \/ SendTextTurn \/ Finish \/ SpeakerSpeaks \/ SpeakerReadsOn \/ SpeakerEnds \/ Heard
    \/ ResetConversation
    \/ Loops \/ (\E final \in BOOLEAN : Message(final)) \/ GoAway \/ ReceiveFails
    \/ Drops

LiveSpec == LiveInit /\ [][LiveNext]_liveVars

\* ... in which every coroutine that can go on does.
LiveFairSpec ==
    LiveSpec /\ WF_liveVars(TextStep) /\ \A c \in Coroutines : WF_liveVars(LiveStep(c))

-----------------------------------------------------------------------------
Pcs == {"away", "idle", "start", "ensure", "connect", "close", "exit", "stream", "wait",
        "receive", "finish", "hear"}

LiveTypeOK ==
    /\ socket \in 0..opened /\ opened \in 0..MaxSockets /\ wire \subseteq 1..opened
    /\ holder \in Coroutines \cup {"none"}
    /\ \A c \in Coroutines : co[c].pc \in Pcs
    /\ brain.turn \in 0..MaxTurns

\* One Live socket for each robot (README): a connection that is open is the one
\* in use, or somebody is closing it; whoever connects, recovers, resets or is
\* cancelled on the way, none is forgotten.
OneSocket ==
    \A s \in wire : s = socket \/ \E c \in Coroutines : co[c].pc = "exit" /\ co[c].has = s

\* A turn that waits for Gemini has somebody reading: the receive loop runs, or has
\* been told to, as long as there is a socket; unless the loop was found alive in
\* the close that ends it.
SomebodyReads ==
    /\ co["voice"].pc = "wait" /\ co["voice"].own = brain.turn /\ ~brain.done
    /\ socket # 0 /\ ~brain.orphan
    => co["rx"].pc # "idle"

\* reset_conversation is a cut: nothing Gemini answers in the conversation before
\* it is taken for an answer in the one after.
ResetCuts == heard[1] = heard[2]

\* A chat ends: its speaker gets the end mark of the queue it is suspended on, whoever
\* cancels the turn or begins another; unless that is not the queue of its turn, which
\* it had not made yet, or which a new utterance replaced during one of its sentences.
ChatEnds == (co["text"].pc = "hear") ~> (co["text"].pc # "hear" \/ co["text"].stray)

=============================================================================
