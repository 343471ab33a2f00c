--------------------------- MODULE DeviceSession ---------------------------
(***************************************************************************)
(* One voice session of the robot: app/sessions/session.py, DeviceSession. *)
(*                                                                         *)
(* The session is a single-threaded asyncio object: what runs between two  *)
(* awaits is one action.  s holds the object's attributes, task the frame  *)
(* of every coroutine that can be suspended in the middle of a method, and *)
(* the operators from Put to Settle are the straight-line code between two *)
(* awaits, as functions from attributes to attributes.  The model starts   *)
(* after the handshake, with the brain attached and the state READY.       *)
(*                                                                         *)
(* The robot is external: dev is the mode its firmware is in, up the       *)
(* control messages it has sent and the receive loop has not read.         *)
(***************************************************************************)
EXTENDS Integers, Sequences

CONSTANTS
    Turns,      \* the task objects of _turn_task that can be alive at a time
    Inputs,     \* what the world may do to the session in this instance
    Replies,    \* how a Gemini turn may come out in this instance
    Faults,     \* what may fail under the session in this instance
    MaxInputs,  \* bound on the number of inputs of a behaviour
    QueueSize   \* settings.outbound_queue_size

\* The coroutines besides the turns, by the task they run in: the receive
\* loop, the keepalive loop, whoever holds _companion_lock, the dashboard's
\* stop button (it takes no lock), the sensor reaction, and close().
Loops == {"rx", "keepalive", "companion", "stopper", "sensor", "closer"}
Tasks == Turns \cup Loops
Cancellers == {"rx", "companion", "stopper", "closer"}
Speakers == Turns \cup {"companion", "sensor"}

NoTurn == "none"

InputKinds ==
    {"wake", "detect", "manual", "stop", "abort", "barge", "autolisten",
     "chat", "rps", "ttt", "think", "sleep", "stopbutton", "pet", "pickup", "close", "overlap"}
ReplyKinds == {"reply", "farewell", "music", "devmusic", "transient", "raise"}
FaultKinds == {"begin", "reset", "tts", "decode", "timeout", "reconnect"}

ASSUME TurnsAssumption == Turns # {} /\ Turns \cap (Loops \cup {NoTurn}) = {}
ASSUME InputsAssumption == Inputs \subseteq InputKinds
ASSUME RepliesAssumption == Replies \subseteq ReplyKinds
ASSUME FaultsAssumption == Faults \subseteq FaultKinds
ASSUME MaxInputsAssumption == MaxInputs \in Nat
ASSUME QueueSizeAssumption == QueueSize \in Nat \ {0}

VARIABLES
    s,      \* the attributes of the DeviceSession object
    task,   \* the suspended coroutines
    wire,   \* the writer task: the frame it is sending, "idle" or "stopped"
    dev,    \* the robot: "idle", "listening" or "speaking"
    up,     \* what the robot has sent
    left    \* how many inputs the world has left

vars == <<s, task, wire, dev, up, left>>

States == {"ready", "listening", "thinking", "speaking", "closed"}
FrameKinds == {"start", "audio", "stop", "ended"}
KeepaliveGeneration == -1   \* the _KEEPALIVE_GENERATION of frames always sent

Clips == {"none", "stream", "device"}
Pcs == {"idle", "done", "cancel_begin", "cancel_turn", "reset_start", "reset", "await_brain",
        "new", "brain", "tools", "drain", "unwind", "expired", "raised", "say", "music",
        "device", "notify", "announce", "gather", "mcp", "end_utterance", "goodbye"}
Args == Clips \cup {"abort", "detect", "start", "close", "audio", "idle", "stop",
                   "chant", "react", "think"}

\* A coroutine: where it is suspended, its local generation, its speak task, and
\* locals of the methods it is in.
Frame(pc, gen, speech, arg) ==
    [pc |-> pc, gen |-> gen, speech |-> speech, arg |-> arg, needs |-> FALSE, on |-> NoTurn]
Idle == Frame("idle", 0, "none", "none")
Done == [Idle EXCEPT !.pc = "done"]

-----------------------------------------------------------------------------
\* The straight-line code between two awaits.

\* A bug: the generation is read after it was bumped.
PutAhead(z, kind, gen) ==
    IF z.closed THEN z
                ELSE [z EXCEPT !.queue = Append(@, [kind |-> kind, gen |-> gen + 1])]

\* A bug: a closed session still queues.
PutAnyway(z, kind, gen) == [z EXCEPT !.queue = Append(@, [kind |-> kind, gen |-> gen])]

\* _put and _queue_json up to out_queue.put: frames of a closed session go nowhere.
Put(z, kind, gen) ==
    IF z.closed THEN z
                ELSE [z EXCEPT !.queue = Append(@, [kind |-> kind, gen |-> gen])]

(***************************************************************************)
(* out_queue.put suspends while the queue is full, with _closed tested     *)
(* before.  A coroutine beside the turns is then in s.putters, with the    *)
(* frame it has in its hands, until there is room: a drain makes room too, *)
(* and lets it queue what _cancel_turn or close() meant to be rid of.      *)
(*                                                                         *)
(* A turn waits for room before its step, which puts three frames at most: *)
(* who drains or closes has cancelled the turn first and awaited it, and a *)
(* put that is cancelled withdraws its frame.                              *)
(***************************************************************************)
HasRoom == Len(s.queue) < QueueSize

\* A bug: a turn of a closed session waits for room as well.
RoomAlways == Len(s.queue) + 3 =< QueueSize

TurnRoom == s.closed \/ Len(s.queue) + 3 =< QueueSize

Putting(x) == \E p \in s.putters : p.by = x

\* x is cancelled, in put or elsewhere.
Withdraw(x, z) == [z EXCEPT !.putters = {p \in @ : p.by # x}]

\* The coroutine x puts the last frame of y, one more than s has, when there is room.
Await(x, y) ==
    IF x \in Turns \/ HasRoom \/ y.queue = s.queue THEN y
    ELSE [y EXCEPT !.queue = s.queue,
                   !.putters = @ \cup {[by |-> x, item |-> y.queue[Len(y.queue)]]}]

\* A bug: the flag is cleared and the frame forgotten.
ReleaseSilently(z) == [z EXCEPT !.awaitingTtsStop = FALSE]

\* _release_listening_interrupt
Release(z) ==
    IF z.awaitingTtsStop THEN Put([z EXCEPT !.awaitingTtsStop = FALSE], "stop", z.gen)
                         ELSE z

\* A bug: the test of already_started is the wrong way round.
OpenSpeechInverted(z) ==
    LET o == [z EXCEPT !.awaitingTtsStop = FALSE, !.state = "speaking"]
    IN  IF z.awaitingTtsStop THEN Put(o, "start", z.gen) ELSE o

\* The head of _speak, and of _consume_speakable at its first sentence.
OpenSpeech(z) ==
    LET o == [z EXCEPT !.awaitingTtsStop = FALSE, !.state = "speaking"]
    IN  IF z.awaitingTtsStop THEN o ELSE Put(o, "start", z.gen)

\* The finally block of _speak and _consume_speakable.
CloseSpeech(z, gen) ==
    IF gen # z.gen THEN z
    ELSE IF z.pendingMusic # "none" THEN [z EXCEPT !.awaitingTtsStop = TRUE]
    ELSE Put(z, "stop", gen)

\* _cancel_turn up to its first await.
CancelHead(z) ==
    [z EXCEPT !.gen = @ + 1, !.pendingMusic = "none", !.brainReady = FALSE]

\* A bug: the queue is left as it is.
KeepQueue(z) == z

\* The end of _cancel_turn: get_nowait until the queue is empty.
Drain(z) == [z EXCEPT !.queue = <<>>]

\* _start_listen after its awaits.
Listen(z) ==
    [z EXCEPT !.gen = @ + 1, !.state = "listening", !.pcmStarted = FALSE,
              !.awaitingTtsStop = FALSE, !.brainReady = FALSE, !.ttsPlayed = FALSE,
              !.pendingMusic = "none", !.begin = "running", !.beginGen = z.gen + 1]

\* _abort after _cancel_turn.
AbortTail(z, needsStop) ==
    LET a == IF needsStop THEN Put([z EXCEPT !.awaitingTtsStop = FALSE], "stop", z.gen)
                          ELSE z
    IN  IF a.state = "closed" THEN a ELSE [a EXCEPT !.state = "ready"]

\* A bug: a late auto-continue is taken for a wake.
NotifyIdleOnly(z) ==
    Put([z EXCEPT !.swallow = FALSE, !.ignored = FALSE, !.awaitingWake = FALSE],
        "ended", KeepaliveGeneration)

IdleFlags(z) ==
    [z EXCEPT !.swallow = ~z.ignored, !.ignored = FALSE, !.awaitingWake = FALSE]

\* _notify_device_idle up to _reset_live_if_stale, with room in the queue.
NotifyIdle(z) == Put(IdleFlags(z), "ended", KeepaliveGeneration)

\* The wake flags at the head of _start_listen.
ClearWake(z) ==
    [z EXCEPT !.awaitingWake = FALSE, !.swallow = FALSE, !.ignored = FALSE]

\* A bug: the state is left as the speech left it.
SettleNothing(z, gen) ==
    LET r == Release(z) IN IF r.awaitingWake /\ ~r.closed THEN NotifyIdle(r) ELSE r

\* The finally block of _run_turn after the music.
Settle(z, gen) ==
    LET r == Release(z)
        d == IF r.state # "closed" /\ (gen = r.gen \/ r.awaitingWake)
             THEN [r EXCEPT !.state = "ready"] ELSE r
    IN  IF d.awaitingWake /\ ~d.closed THEN NotifyIdle(d) ELSE d

\* _request_exit
RequestExit(z) == [z EXCEPT !.awaitingWake = TRUE, !.liveStale = TRUE]

\* A task object is done: _turn_task.done() is what the code asks of it.
Free(z, t) == [z EXCEPT !.turn = IF @ = t THEN NoTurn ELSE @]

Stale(x) == task[x].gen # s.gen

Goto(x, pc) == [task EXCEPT ![x].pc = pc]

-----------------------------------------------------------------------------
(***************************************************************************)
(* _cancel_turn and its callers.  The caller c keeps in arg what it goes   *)
(* on with: "abort", "detect" (abort, then listen), "start" or "close",    *)
(* and in needs the needs_stop of _abort.  It suspends while a cancelled   *)
(* begin task ends and while a cancelled turn runs its finally blocks.     *)
(***************************************************************************)

\* _start_listen once the turn is gone: a stale Live session is reset first.
ListenOrReset(c, z) ==
    IF z.liveStale
    THEN s' = z /\ task' = [task EXCEPT ![c] = [Idle EXCEPT !.pc = "reset_start"]]
    ELSE s' = Listen(z) /\ task' = [task EXCEPT ![c] = Idle]

\* After an abort sleep calls the robot's tool, the other callers are done.
Aborted(c) == IF c = "companion" THEN [Idle EXCEPT !.pc = "mcp"] ELSE Idle

\* What the caller does when _cancel_turn returns to it.
Continue(c, then, needs, z) ==
    \/ /\ then \in {"abort", "close"}
       /\ s' = IF then = "abort" THEN AbortTail(z, needs) ELSE z
       /\ task' = [task EXCEPT ![c] = IF then = "abort" THEN Aborted(c) ELSE Done]
    \/ /\ then = "start"
       /\ ListenOrReset(c, z)
    \/ /\ then = "detect"   \* _start_listen cancels again, with nothing left to await but begin
       /\ LET a == CancelHead(ClearWake(AbortTail(z, needs)))
          IN  IF a.begin = "none" THEN ListenOrReset(c, Drain(a))
              ELSE /\ s' = [a EXCEPT !.begin = "cancelled"]
                   /\ task' = [task EXCEPT ![c] = Frame("cancel_begin", 0, "none", "start")]

\* A bug: the turn is dropped, neither cancelled nor awaited.
ForgetRunning(c, then, needs, z) == Continue(c, then, needs, Drain([z EXCEPT !.turn = NoTurn]))

\* The part of _cancel_turn after the begin task: brain.cancel and the turn.
\* A turn that has not started, or is past its last handler, just ends.
CancelRunning(c, then, needs, z) ==
    IF z.turn = NoTurn THEN Continue(c, then, needs, Drain(z))
    ELSE LET ends == task[z.turn].pc \in {"new", "reset"}
         IN  /\ s' = IF ends THEN Free(z, z.turn) ELSE z
             /\ task' = [task EXCEPT
                    ![z.turn] = IF ends THEN Idle ELSE [@ EXCEPT !.pc = "unwind"],
                    ![c] = [Frame("cancel_turn", 0, "none", then)
                            EXCEPT !.needs = needs, !.on = z.turn]]

CancelTurn(c, then, needs, z) ==
    LET h == CancelHead(z)
    IN  IF h.begin = "none" THEN CancelRunning(c, then, needs, h)
        ELSE /\ s' = [h EXCEPT !.begin = "cancelled"]
             /\ task' = [task EXCEPT ![c] =
                    [Frame("cancel_begin", 0, "none", then) EXCEPT !.needs = needs]]

BeginGone(c) ==
    /\ task[c].pc = "cancel_begin" /\ s.begin = "none"
    /\ CancelRunning(c, task[c].arg, task[c].needs, s)
    /\ UNCHANGED <<wire, dev, up, left>>

\* _turn_task is cleared whatever it has become while the caller was suspended.
TurnGone(c) ==
    /\ task[c].pc = "cancel_turn" /\ task[task[c].on].pc = "idle"
    /\ Continue(c, task[c].arg, task[c].needs, Drain([s EXCEPT !.turn = NoTurn]))
    /\ UNCHANGED <<wire, dev, up, left>>

\* _reset_live_if_stale: reset_conversation may fail, and is tried again later.
ResetDone(x) ==
    /\ task[x].pc \in {"reset_start", "reset"}
    /\ \E failed \in {FALSE, "reset" \in Faults} :
         LET z == [s EXCEPT !.liveStale = failed /\ ~s.closed]
         IN  IF task[x].pc = "reset_start"
             THEN s' = Listen(z) /\ task' = [task EXCEPT ![x] = Idle]
             ELSE s' = Free(z, x) /\ task' = [task EXCEPT ![x] = Idle]
    /\ UNCHANGED <<wire, dev, up, left>>

-----------------------------------------------------------------------------
\* The receive loop and the keepalive loop.

\* The next task object, one that has ended being as good as new.
NewTurn == CHOOSE t \in Turns : (\E u \in Turns : task[u].pc = "idle") => task[t].pc = "idle"

\* asyncio resumes all who wait for a task in the iteration after it ends, and
\* what they start runs in a later one.
Resuming == \E c \in Cancellers : task[c].pc = "cancel_turn" /\ task[task[c].on].pc = "idle"

\* The end of _stop_listen: it does not look at the state again.
StartTurn(c, z) ==
    LET t == NewTurn
    IN  /\ task[t].pc = "idle" /\ ~Resuming
        /\ s' = [z EXCEPT !.state = "thinking", !.turn = t]
        /\ task' = [task EXCEPT ![c] = Idle, ![t] = Frame("new", z.gen, "none", "none")]

\* _stop_listen, for the reason why, up to _await_brain_ready: a begin task is
\* created if there is none, and the caller waits for it, for 8 s at most.
StopListen(c, z, why) ==
    IF z.brainReady THEN StartTurn(c, z)
    ELSE /\ s' = IF z.begin # "none" THEN z
                 ELSE [z EXCEPT !.begin = "running", !.beginGen = z.gen]
         /\ task' = [task EXCEPT ![c] = Frame("await_brain", 0, "none", why)]

\* A bug: the robot is not told that listening is over.
EndUtteranceQuietly(c, why) == StopListen(c, [s EXCEPT !.awaitingTtsStop = TRUE], why)

\* _end_utterance_now, once the robot's tts/start is queued.
EndUtterance(c, why) ==
    StopListen(c, [Put(s, "start", s.gen) EXCEPT !.awaitingTtsStop = TRUE], why)

\* _end_utterance_now up to a put that is suspended.
Interrupts(c, why) ==
    IF HasRoom THEN EndUtterance(c, why)
    ELSE /\ s' = Await(c, Put(s, "start", s.gen))
         /\ task' = [task EXCEPT ![c] = Frame("end_utterance", 0, "none", why)]

BrainAwaited(c) ==
    /\ task[c].pc = "await_brain"
    /\ StartTurn(c, s)
    /\ UNCHANGED <<wire, dev, up, left>>

\* Without the input "overlap", the end of an utterance by the idle timer and
\* the handling of a message do not overlap: the brain is ready in between.
Overlaps(x) == "overlap" \in Inputs \/ task[x].pc = "idle"

Receiving == task["rx"].pc = "idle" /\ ~s.closed /\ Overlaps("keepalive")

\* _on_binary: the gate lets a chunk of speech through.
HearSpeech ==
    /\ Receiving /\ dev = "listening" /\ s.state = "listening" /\ ~s.pcmStarted
    /\ s' = [s EXCEPT !.pcmStarted = TRUE]
    /\ UNCHANGED <<task, wire, dev, up, left>>

\* _on_binary: the hangover expires, or the utterance reaches a cap.
Endpoint ==
    /\ Receiving /\ dev = "listening" /\ s.state = "listening"
    /\ Interrupts("rx", "audio")
    /\ UNCHANGED <<wire, dev, up, left>>

\* _keepalive_loop: no uplink for listen_idle_timeout_s.  It cannot fall into
\* the 8 s that follow a packet the receive loop is still handling.
ListenIdle ==
    /\ task["keepalive"].pc = "idle" /\ ~s.closed /\ s.state = "listening"
    /\ task["rx"].arg # "audio" /\ Overlaps("rx")
    /\ Interrupts("keepalive", "idle")
    /\ UNCHANGED <<wire, dev, up, left>>

Read(kind) == Receiving /\ up # <<>> /\ Head(up) = kind /\ up' = Tail(up)

\* _on_listen, state "start": the auto-continue after a farewell is ignored.
OnListenStart ==
    /\ \/ /\ Read("start") /\ s.awaitingWake
          /\ s' = [s EXCEPT !.ignored = TRUE] /\ UNCHANGED task
       \/ /\ Read("start") /\ ~s.awaitingWake /\ s.swallow
          /\ s' = [s EXCEPT !.swallow = FALSE] /\ UNCHANGED task
       \/ /\ \/ Read("start") /\ ~s.awaitingWake /\ ~s.swallow
             \/ Read("manual")
          /\ CancelTurn("rx", "start", FALSE, ClearWake(s))
    /\ UNCHANGED <<wire, dev, left>>

OnListenStop ==
    /\ Read("stop")
    /\ IF s.state = "listening" THEN StopListen("rx", s, "stop") ELSE UNCHANGED <<s, task>>
    /\ UNCHANGED <<wire, dev, left>>

NeedsStop == s.awaitingTtsStop \/ s.state = "speaking"

OnListenDetect ==
    /\ Read("detect")
    /\ CancelTurn("rx", "detect", NeedsStop, s)
    /\ UNCHANGED <<wire, dev, left>>

OnAbort ==
    /\ Read("abort")
    /\ CancelTurn("rx", "abort", NeedsStop, s)
    /\ UNCHANGED <<wire, dev, left>>

\* _begin_brain: a begin task of another generation leaves the session alone,
\* and begin_utterance may fail.
BeginDone ==
    /\ s.begin \in {"running", "cancelled"}
    /\ \E began \in {TRUE, "begin" \notin Faults} :
         s' = [s EXCEPT !.begin = "none",
                        !.brainReady = @ \/ (began /\ s.begin = "running" /\ s.beginGen = s.gen)]
    /\ UNCHANGED <<task, wire, dev, up, left>>

-----------------------------------------------------------------------------
\* The speak task of a turn, a chat or a reaction.  speech is "waiting" for the
\* first sentence, "open" with the window open, "played" once a frame is queued.
\* It is "deaf" when it waits on a queue that brings it no end: send_text_turn or
\* begin_utterance has since created _speak_q anew.

\* The speak task runs: it is not suspended in put.
SpeechRuns(x) ==
    /\ x \in Turns => TurnRoom
    /\ ~Putting(x)
    /\ UNCHANGED <<wire, dev, up, left>>

Speech(x, to) == task' = [task EXCEPT ![x].speech = to]

FirstSentence(x) ==
    /\ SpeechRuns(x)
    /\ task[x].speech = "waiting" /\ task[x].pc \in {"brain", "tools", "drain"} /\ ~Stale(x)
    /\ s' = Await(x, OpenSpeech(s))
    /\ Speech(x, "open")

\* _stream_sentence and _stream_music_url, at most one packet each.
StreamPacket(x) ==
    /\ SpeechRuns(x)
    /\ task[x].speech = "open" /\ ~Stale(x) /\ ~s.closed
    /\ s' = Await(x, [Put(s, "audio", s.gen) EXCEPT !.ttsPlayed = TRUE])
    /\ Speech(x, "played")

Shut(x) ==
    s' = Await(x, IF task[x].speech \in {"waiting", "deaf"} THEN s
                                                         ELSE CloseSpeech(s, task[x].gen))

\* A bug: the owner awaits the speak task and does not cancel it.
SpeechDoneUncancelled(x) ==
    /\ SpeechRuns(x)
    /\ task[x].speech \in {"waiting", "open", "played"}
    /\ Stale(x) \/ task[x].pc \in {"drain", "say", "announce"}
    /\ Shut(x)
    /\ Speech(x, "done")

\* What becomes of a speak task that has nothing to say any more: it returns, or
\* goes deaf on the queue a later begin_utterance has put in the place of its own.
Ends(x) ==
    {"done"} \cup (IF "reconnect" \in Faults /\ x \notin Turns /\ Stale(x) THEN {"deaf"} ELSE {})

\* The speak task returns: its generation is stale, the brain has no more to
\* say, synthesis fails, or its owner cancels it.
SpeechDone(x) ==
    /\ SpeechRuns(x)
    /\ task[x].speech \notin {"none", "done", "raised"} /\ task[x].pc # "music"
    /\ \/ task[x].speech # "deaf" /\ (Stale(x) \/ task[x].pc \notin {"brain", "tools"})
       \/ task[x].speech \in {"open", "played"} /\ "tts" \in Faults
       \/ task[x].pc = "unwind"
    /\ Shut(x)
    /\ IF task[x].pc = "drain" THEN \E to \in Ends(x) : Speech(x, to) ELSE Speech(x, "done")

\* The speak task raises what it does not catch, the timeout of the decoder or the
\* error of its feeder: the window is closed, and the owner is raised to.
SpeechRaises(x) ==
    /\ SpeechRuns(x)
    /\ "decode" \in Faults /\ task[x].speech \in {"open", "played"} /\ task[x].pc # "music"
    /\ Shut(x)
    /\ Speech(x, "raised")

Spoken(x) == task[x].speech \in {"none", "done", "raised"} /\ ~Putting(x)

Raised(x) == task[x].speech = "raised"

\* Start a _speak that the coroutine awaits at pc.
Say(x, pc, z) ==
    /\ s' = Await(x, OpenSpeech(z))
    /\ task' = [task EXCEPT ![x].pc = pc, ![x].speech = "open"]

-----------------------------------------------------------------------------
(***************************************************************************)
(* _run_turn and _execute_turn.  Both end in the finally block of          *)
(* _run_turn: the pending music is played if the generation is current,    *)
(* then the window is released and the state settled.                      *)
(***************************************************************************)

Settled(t, z) ==
    IF z.awaitingWake /\ ~z.closed /\ z.liveStale
    THEN s' = Settle(z, task[t].gen) /\ task' = [task EXCEPT ![t].pc = "reset"]
    ELSE s' = Free(Settle(z, task[t].gen), t) /\ task' = [task EXCEPT ![t] = Idle]

\* _play_pending_music on, with the attributes z the try block left.
Finally(t, z) ==
    LET o == [z EXCEPT !.pendingMusic = "none"]
    IN  IF Stale(t) \/ z.closed \/ z.pendingMusic = "none" THEN Settled(t, z)
        ELSE IF z.pendingMusic = "device"
        THEN s' = o /\ task' = [task EXCEPT ![t] = Frame("device", @.gen, "none", "device")]
        ELSE /\ s' = IF o.state = "speaking" THEN [o EXCEPT !.awaitingTtsStop = FALSE]
                                             ELSE OpenSpeech(o)
             /\ task' = [task EXCEPT ![t] = Frame("music", @.gen, "open", "stream")]

TurnStep(t) == t \in Turns /\ TurnRoom /\ UNCHANGED <<wire, dev, up, left>>

\* The first step of a turn: an utterance without speech ends at once.
TurnBegins(t) ==
    /\ TurnStep(t) /\ task[t].pc = "new"
    /\ \/ Stale(t) /\ Finally(t, s)
       \/ ~Stale(t) /\ ~s.pcmStarted /\ Finally(t, Release(s))
       \/ /\ ~Stale(t) /\ s.pcmStarted
          /\ UNCHANGED s
          /\ task' = [task EXCEPT ![t].pc = "brain", ![t].speech = "waiting"]

\* Where a coroutine goes on the answer r: to the tools if search_music is among
\* the calls, else to wait for its speak task.
Answer(x, r, onRaise) ==
    [task EXCEPT ![x].pc = CASE r \in {"music", "devmusic"} -> "tools"
                             [] r = "raise" -> onRaise [] OTHER -> "drain",
                 ![x].arg = CASE r = "music" -> "stream" [] r = "devmusic" -> "device"
                              [] OTHER -> "none"]

\* end_utterance returns a TurnResult, or raises.
BrainAnswers(t) ==
    /\ TurnStep(t) /\ task[t].pc = "brain"
    /\ \/ Stale(t) /\ UNCHANGED s /\ task' = Goto(t, "unwind")
       \/ /\ ~Stale(t)
          /\ \E r \in Replies :
               /\ s' = IF r = "farewell" THEN RequestExit(s) ELSE s
               /\ task' = Answer(t, r, "raised")

\* _handle_tools returns, or raises.  search_music sets the pending clip,
\* whatever the generation has become while it was dispatched.
ToolsDone(x) ==
    /\ task[x].pc = "tools"
    /\ \E raised \in {FALSE, "raise" \in Replies} :
         LET z == [s EXCEPT !.pendingMusic = task[x].arg]
         IN  /\ s' = IF raised \/ Stale(x) THEN Withdraw(x, z) ELSE z
             /\ task' = [task EXCEPT ![x].arg = "none",
                                     ![x].pc = CASE raised /\ x \in Turns -> "raised"
                                                 [] raised \/ Stale(x) -> "unwind"
                                                 [] OTHER -> "drain"]
    /\ UNCHANGED <<wire, dev, up, left>>

TurnTimeout(t) ==
    /\ TurnStep(t) /\ "timeout" \in Faults
    /\ \/ task[t].pc \in {"brain", "tools"}
       \/ task[t].pc = "drain" /\ ~Spoken(t)
    /\ UNCHANGED s
    /\ task' = Goto(t, "expired")

\* The speak task is over, so the try block is: what it raised is a timeout to
\* _run_turn or another exception.
TurnUnwinds(t) ==
    /\ TurnStep(t) /\ Spoken(t)
    /\ LET raised == task[t].pc = "drain" /\ Raised(t)
       IN  \/ task[t].pc \in {"drain", "unwind", "say"} /\ ~raised /\ Finally(t, s)
           \/ (task[t].pc = "expired" \/ raised) /\ Finally(t, Release(s))
           \/ /\ task[t].pc = "raised" \/ raised
              /\ IF Stale(t) \/ s.ttsPlayed THEN Finally(t, s) ELSE Say(t, "say", s)

\* The clip is over, on the robot's own player or on the stream, or has failed.
MusicDone(t) ==
    /\ TurnStep(t) /\ task[t].pc \in {"music", "device"}
    /\ \/ Stale(t) /\ Settled(t, s)
       \/ ~Stale(t) /\ UNCHANGED s /\ task' = [task EXCEPT ![t].pc = "notify", ![t].speech = "none"]

\* notify_music_finished answers with the line to say, or fails.
MusicNotified(t) ==
    /\ TurnStep(t) /\ task[t].pc = "notify"
    /\ \/ Stale(t) /\ Settled(t, s)
       \/ ~Stale(t) /\ Settled(t, [s EXCEPT !.awaitingTtsStop = @ \/ task[t].arg = "stream"])
       \/ ~Stale(t) /\ Say(t, "announce", [s EXCEPT !.awaitingTtsStop = TRUE])

\* An announcement that raises takes the rest of the finally block with it.
MusicAnnounced(t) ==
    /\ TurnStep(t) /\ task[t].pc = "announce" /\ Spoken(t)
    /\ IF Raised(t) THEN s' = Free(s, t) /\ task' = [task EXCEPT ![t] = Idle]
       ELSE Settled(t, [s EXCEPT !.awaitingTtsStop = @ \/ (~Stale(t) /\ task[t].arg = "stream")])

-----------------------------------------------------------------------------
(***************************************************************************)
(* companion_action: what the dashboard asks for.  Chat, the reactions to  *)
(* the games and sleep hold _companion_lock, so one of them runs at a time.*)
(***************************************************************************)

Ask(kind) == kind \in Inputs /\ left > 0 /\ left' = left - 1 /\ ~s.closed

\* The head of an action that refuses to run while the session is busy.
Admit(kind) ==
    /\ Ask(kind)
    /\ task["companion"].pc = "idle" /\ s.state \notin {"thinking", "speaking"}
    /\ UNCHANGED <<wire, dev, up>>

\* send_text_turn creates the queue of sentences anew: a speak task that has begun
\* to wait, because the Live session had to be opened first, is left behind.
Hearing == {"waiting"} \cup (IF "reconnect" \in Faults THEN {"deaf"} ELSE {})

Begin(x, pc, speech, arg) == task' = [task EXCEPT ![x] = Frame(pc, s.gen, speech, arg)]

Chat ==
    /\ Admit("chat")
    /\ \E farewell \in {FALSE, "farewell" \in Replies} :
         LET z == [s EXCEPT !.ttsPlayed = FALSE, !.state = "thinking"]
         IN  s' = IF farewell THEN RequestExit(z) ELSE z
    /\ \E h \in Hearing : Begin("companion", "brain", h, "none")

\* On to a finally block that cancels the speak task.
Unwinds(x) == s' = Withdraw(x, s) /\ task' = Goto(x, "unwind")

\* send_text_turn returns, or raises.
ChatAnswers ==
    /\ task["companion"].pc = "brain"
    /\ \/ Stale("companion") /\ Unwinds("companion")
       \/ ~Stale("companion") /\ {"raise", "transient"} \cap Replies # {} /\ Unwinds("companion")
       \/ /\ ~Stale("companion")
          /\ UNCHANGED s
          /\ \E r \in Replies \ {"farewell", "raise", "transient"} :
               task' = Answer("companion", r, "unwind")
    /\ UNCHANGED <<wire, dev, up, left>>

\* The finally block of _companion_chat, which leaves the generation unread.
Ready(z) == IF z.state = "closed" THEN z ELSE [z EXCEPT !.state = "ready"]

\* _reset_live_if_stale is what _notify_device_idle ends with.
Dismissed(z) ==
    task' = [task EXCEPT !["companion"] =
                 IF z.liveStale /\ ~z.closed THEN [Idle EXCEPT !.pc = "reset"] ELSE Idle]

ChatDone ==
    /\ task["companion"].pc \in {"drain", "unwind"} /\ Spoken("companion")
    /\ LET z == Ready(s)
       IN  \/ /\ ~z.awaitingWake \/ z.closed
              /\ s' = z /\ task' = [task EXCEPT !["companion"] = Idle]
           \/ /\ z.awaitingWake /\ ~z.closed /\ HasRoom
              /\ s' = NotifyIdle(z) /\ Dismissed(z)
           \/ /\ z.awaitingWake /\ ~z.closed /\ ~HasRoom
              /\ s' = Await("companion", Put(z, "ended", KeepaliveGeneration))
              /\ task' = [task EXCEPT !["companion"] = [Idle EXCEPT !.pc = "goodbye"]]
    /\ UNCHANGED <<wire, dev, up, left>>

\* _companion_rps_react: the chant, the reveal on the dashboard, the reaction.
\* _companion_ttt_react: the reaction to a result, or the pose while thinking.
\* gather runs _speak in a task of its own, one step later.
Rps ==
    /\ Admit("rps") /\ UNCHANGED s
    /\ Begin("companion", "gather", "none", "chant")

Ttt ==
    /\ Admit("ttt") /\ UNCHANGED s
    /\ Begin("companion", "gather", "none", "react")

TttThink ==
    /\ Admit("think")
    /\ s' = [s EXCEPT !.state = "thinking"]
    /\ Begin("companion", "say", "none", "think")

GatherStarts ==
    /\ task["companion"].pc = "gather"
    /\ IF Stale("companion") THEN UNCHANGED s /\ task' = Goto("companion", "say")
                             ELSE Say("companion", "say", s)
    /\ UNCHANGED <<wire, dev, up, left>>

\* The chant is followed by the reaction unless on_reveal aborts the match.  A _speak
\* that raises takes the end of the action with it, and the state stays SPEAKING.
ReactionStep ==
    /\ task["companion"].pc = "say" /\ Spoken("companion")
    /\ \/ /\ task["companion"].arg = "chant" /\ ~Stale("companion") /\ ~Raised("companion")
          /\ UNCHANGED s
          /\ task' = [task EXCEPT !["companion"] = Frame("gather", @.gen, "none", "react")]
       \/ /\ s' = IF Raised("companion") THEN s ELSE Ready(s)
          /\ task' = [task EXCEPT !["companion"] = Idle]
    /\ UNCHANGED <<wire, dev, up, left>>

\* _companion_sleep: a busy session is aborted before the tool call.
Sleep ==
    /\ Ask("sleep") /\ task["companion"].pc = "idle"
    /\ IF s.state \in {"listening", "thinking", "speaking"}
       THEN CancelTurn("companion", "abort", NeedsStop, s)
       ELSE UNCHANGED s /\ Begin("companion", "mcp", "none", "none")
    /\ UNCHANGED <<wire, dev, up>>

RobotSleeps ==
    /\ task["companion"].pc = "mcp"
    /\ task' = [task EXCEPT !["companion"] = Idle]
    /\ UNCHANGED <<s, wire, dev, up, left>>

\* _companion_stop: self.otto.stop first, and the state is looked at after it.
StopButton ==
    /\ Ask("stopbutton") /\ task["stopper"].pc = "idle"
    /\ Begin("stopper", "mcp", "none", "none")
    /\ UNCHANGED <<s, wire, dev, up>>

MotionStopped ==
    /\ task["stopper"].pc = "mcp"
    /\ IF s.state \in {"thinking", "speaking"}
       THEN CancelTurn("stopper", "abort", NeedsStop, s)
       ELSE UNCHANGED s /\ task' = [task EXCEPT !["stopper"] = Idle]
    /\ UNCHANGED <<wire, dev, up, left>>

-----------------------------------------------------------------------------
\* _react_to_pet, _react_to_pickup and _react_to_fall.

PetBusy ==
    s.state # "ready" \/ task["companion"].pc # "idle" \/ s.turn # NoTurn

React(kind) ==
    /\ Ask(kind) /\ task["sensor"].pc = "idle" /\ ~PetBusy
    /\ UNCHANGED <<wire, dev, up>>

Pet ==
    /\ React("pet")
    /\ s' = [s EXCEPT !.state = "thinking"]
    /\ \E h \in Hearing : Begin("sensor", "brain", h, "none")

PickupOrFall ==
    /\ React("pickup")
    /\ s' = Await("sensor", OpenSpeech(s))
    /\ Begin("sensor", "say", "open", "none")

\* notify_pet returns, or raises.
PetAnswers ==
    /\ task["sensor"].pc = "brain"
    /\ \/ ~Stale("sensor") /\ UNCHANGED s /\ task' = Goto("sensor", "drain")
       \/ Unwinds("sensor")
    /\ UNCHANGED <<wire, dev, up, left>>

ReactionDone ==
    /\ task["sensor"].pc \in {"drain", "unwind", "say"} /\ Spoken("sensor")
    /\ IF task["sensor"].pc = "drain" /\ ~Raised("sensor") /\ ~s.ttsPlayed /\ ~Stale("sensor")
       THEN Say("sensor", "say", s)
       ELSE /\ s' = IF Stale("sensor") THEN s ELSE Ready(s)
            /\ task' = [task EXCEPT !["sensor"] = Idle]
    /\ UNCHANGED <<wire, dev, up, left>>

-----------------------------------------------------------------------------
\* close, called by the keepalive loop, by the end of run or by a newer session.

Close ==
    /\ Ask("close") /\ task["closer"].pc = "idle"
    /\ CancelTurn("closer", "close", FALSE,
                  [s EXCEPT !.closed = TRUE, !.state = "closed", !.gen = @ + 1])
    /\ UNCHANGED <<wire, dev, up>>

\* out_queue has room: a coroutine that was suspended in put queues its frame, and
\* goes on with what follows the put.  _stop_listen looks at the state once more.
PutResumes ==
    /\ HasRoom
    /\ \E p \in s.putters :
         LET x == p.by
             z == [s EXCEPT !.queue = Append(@, p.item), !.putters = @ \ {p}]
             e == [z EXCEPT !.awaitingTtsStop = TRUE]
         IN  \/ task[x].pc \notin {"end_utterance", "goodbye"} /\ s' = z /\ UNCHANGED task
             \/ /\ task[x].pc = "end_utterance"
                /\ IF s.state = "listening" THEN StopListen(x, e, task[x].arg)
                   ELSE s' = e /\ task' = [task EXCEPT ![x] = Idle]
             \/ /\ task[x].pc = "goodbye"
                /\ s' = IdleFlags(z) /\ Dismissed(z)
    /\ UNCHANGED <<wire, dev, up, left>>

\* _writer_loop: a frame of another generation is dropped.  The check comes
\* before _ws_lock, so the frame is sent in a step of its own.
WriterTakes ==
    /\ wire = "idle" /\ s.queue # <<>>
    /\ LET item == Head(s.queue)
       IN  wire' = IF item.gen \in {KeepaliveGeneration, s.gen} THEN item.kind ELSE "idle"
    /\ s' = [s EXCEPT !.queue = Tail(@)]
    /\ UNCHANGED <<task, dev, up, left>>

\* What the firmware does with a frame: tts/stop ends Speaking, and in auto
\* mode listening goes on at once.
Received(kind) ==
    \/ kind = "start" /\ dev' = "speaking" /\ UNCHANGED <<up, left>>
    \/ kind = "audio" /\ UNCHANGED <<dev, up, left>>
    \/ kind = "ended" /\ dev' = "idle" /\ UNCHANGED <<up, left>>
    \/ /\ kind = "stop" /\ UNCHANGED <<up, left>>
       /\ dev' = IF dev = "speaking" THEN "idle" ELSE dev
    \/ /\ kind = "stop" /\ dev = "speaking" /\ Ask("autolisten")
       /\ dev' = "listening" /\ up' = Append(up, "start")

WriterSends ==
    /\ wire \in FrameKinds
    /\ IF s.closed THEN wire' = "stopped" /\ UNCHANGED <<dev, up, left>>
                   ELSE wire' = "idle" /\ Received(wire)
    /\ UNCHANGED <<s, task>>

\* The robot: a button or a wake word opens the microphone, a button ends
\* listening or cuts speech, and a wake word may cut speech too.
Presses(kind, from, to, sends) ==
    /\ Ask(kind) /\ dev = from /\ dev' = to /\ up' = up \o sends
    /\ UNCHANGED <<s, task, wire>>

RobotActs ==
    \/ Presses("wake", "idle", "listening", <<"start">>)
    \/ Presses("detect", "idle", "listening", <<"detect", "start">>)
    \/ Presses("manual", "idle", "listening", <<"manual">>)
    \/ Presses("stop", "listening", "idle", <<"stop">>)
    \/ Presses("abort", "speaking", "speaking", <<"abort">>)
    \/ Presses("barge", "speaking", "speaking", <<"detect">>)

-----------------------------------------------------------------------------
Init ==
    /\ s = [state |-> "ready", gen |-> 0, closed |-> FALSE, turn |-> NoTurn,
            begin |-> "none", beginGen |-> 0, brainReady |-> FALSE, pcmStarted |-> FALSE,
            awaitingTtsStop |-> FALSE, pendingMusic |-> "none", ttsPlayed |-> FALSE,
            awaitingWake |-> FALSE, swallow |-> FALSE, ignored |-> FALSE,
            liveStale |-> FALSE, queue |-> <<>>, putters |-> {}]
    /\ task = [x \in Tasks |-> Idle]
    /\ wire = "idle" /\ dev = "idle" /\ up = <<>> /\ left = MaxInputs

Rx == OnListenStart \/ OnListenStop \/ OnListenDetect \/ OnAbort

CancelStep(c) == BeginGone(c) \/ TurnGone(c)

SpeechStep(x) ==
    FirstSentence(x) \/ StreamPacket(x) \/ SpeechDone(x) \/ SpeechRaises(x)

TurnNext(t) ==
    \/ TurnBegins(t) \/ BrainAnswers(t) \/ ToolsDone(t) \/ TurnTimeout(t) \/ TurnUnwinds(t)
    \/ MusicDone(t) \/ MusicNotified(t) \/ MusicAnnounced(t) \/ ResetDone(t)

CompanionNext ==
    ChatAnswers \/ ToolsDone("companion") \/ ChatDone \/ GatherStarts \/ ReactionStep
    \/ RobotSleeps \/ ResetDone("companion")

SensorNext == PetAnswers \/ ReactionDone

World == Chat \/ Rps \/ Ttt \/ TttThink \/ Sleep \/ StopButton \/ Pet \/ PickupOrFall
         \/ Close \/ RobotActs

Next ==
    \/ Rx \/ HearSpeech \/ Endpoint \/ ListenIdle \/ ResetDone("rx")
    \/ BrainAwaited("rx") \/ BrainAwaited("keepalive") \/ BeginDone
    \/ \E c \in Cancellers : CancelStep(c)
    \/ \E x \in Speakers : SpeechStep(x)
    \/ \E t \in Turns : TurnNext(t)
    \/ CompanionNext \/ SensorNext \/ MotionStopped
    \/ WriterTakes \/ WriterSends \/ PutResumes
    \/ World

Fairness ==
    /\ WF_vars(Rx) /\ WF_vars(ResetDone("rx")) /\ WF_vars(Endpoint \/ ListenIdle)
    /\ WF_vars(BrainAwaited("rx")) /\ WF_vars(BrainAwaited("keepalive")) /\ WF_vars(BeginDone)
    /\ \A c \in Cancellers : WF_vars(CancelStep(c))
    /\ \A x \in Speakers : WF_vars(SpeechStep(x))
    /\ \A t \in Turns : WF_vars(TurnNext(t))
    /\ WF_vars(CompanionNext) /\ WF_vars(SensorNext) /\ WF_vars(MotionStopped)
    /\ WF_vars(WriterTakes) /\ WF_vars(WriterSends) /\ WF_vars(PutResumes)

Spec == Init /\ [][Next]_vars
FairSpec == Spec /\ Fairness

-----------------------------------------------------------------------------
\* Properties.

Items == [kind : FrameKinds, gen : Int]

Attributes ==
    [state : States, gen : Nat, closed : BOOLEAN, turn : Turns \cup {NoTurn},
     begin : {"none", "running", "cancelled"}, beginGen : Nat, brainReady : BOOLEAN,
     pcmStarted : BOOLEAN, awaitingTtsStop : BOOLEAN, pendingMusic : Clips,
     ttsPlayed : BOOLEAN, awaitingWake : BOOLEAN, swallow : BOOLEAN, ignored : BOOLEAN,
     liveStale : BOOLEAN, queue : Seq(Items), putters : SUBSET [by : Loops, item : Items]]

Frames ==
    [pc : Pcs, gen : Nat, speech : {"none", "waiting", "deaf", "open", "played", "done", "raised"},
     arg : Args, needs : BOOLEAN, on : Turns \cup {NoTurn}]

\* Every variable has its type, and no frame is tagged with a generation the
\* session has not reached: _put is given a generation that was current.
TypeOK ==
    /\ s \in Attributes
    /\ \A i \in DOMAIN s.queue : s.queue[i].gen =< s.gen
    /\ \A p \in s.putters : p.item.gen =< s.gen
    /\ task \in [Tasks -> Frames]
    /\ wire \in FrameKinds \cup {"idle", "stopped"}
    /\ dev \in {"idle", "listening", "speaking"}
    /\ up \in Seq({"start", "manual", "stop", "detect", "abort"})
    /\ left \in 0 .. MaxInputs

\* At most one turn is alive, and it is the one _turn_task names, so the next
\* _cancel_turn finds it: an orphan would speak over its successor.
OneTurn == \A t \in Turns : task[t].pc # "idle" => s.turn = t

Cancelling == \E c \in Cancellers : task[c].pc \in {"cancel_begin", "cancel_turn"}

\* Once a cancellation is over, nothing of an earlier generation is left in
\* out_queue: _cancel_turn drains it after the turn has unwound, not before.
QueueIsCurrent ==
    Cancelling \/ \A i \in DOMAIN s.queue : s.queue[i].gen \in {KeepaliveGeneration, s.gen}

\* The robot gets speech and music only while it is in Speaking, that is
\* between a tts/start and a tts/stop, across music, silent turns and barge-in.
AudioInWindow == [][wire = "audio" /\ wire' = "idle" => dev = "speaking"]_vars

\* A robot that listens is answered: it leaves Listening by itself or because
\* the session tells it to, whatever becomes of the utterance.
ListeningIsAnswered == dev = "listening" ~> (dev # "listening" \/ s.closed)

\* A robot in Speaking is released by a tts/stop, whatever becomes of the turn.
SpeakingEnds == dev = "speaking" ~> (dev # "speaking" \/ s.closed)

Goodbye(z) == \E i \in DOMAIN z.queue : z.queue[i].kind = "ended"

\* The frame that ends the conversation is sent once it is queued: the
\* auto-continue that races it is not taken for a wake, whose _cancel_turn
\* would drain it.
GoodbyeIsDelivered == [][Goodbye(s) /\ ~Goodbye(s') => wire' = "ended"]_vars

\* The session does not stay in THINKING or SPEAKING.
BusyEnds ==
    s.state \in {"thinking", "speaking"} ~> (s.state \in {"ready", "listening"} \/ s.closed)

\* Who holds _companion_lock releases it: after speech the dashboard's next
\* command can run.
LockIsReleased == task["companion"].pc # "idle" ~> task["companion"].pc = "idle"

Drained == task["closer"].pc = "done"

\* close() returns with out_queue empty, and from then on a frame enters it only from
\* a coroutine that close() found suspended in put: what else still runs its finally
\* blocks queues nothing for a writer that is gone.
ClosedSilence ==
    [][ /\ ~Drained /\ Drained' => s'.queue = <<>>
        /\ Drained => \/ /\ s'.putters \subseteq s.putters
                         /\ Len(s'.queue) =< Len(s.queue)
                      \/ \E p \in s.putters : /\ s'.putters = s.putters \ {p}
                                               /\ s'.queue = Append(s.queue, p.item) ]_vars

\* close() ends every coroutine of the session, the turn it cancels included.
ClosedWindsDown == s.closed ~> (\A x \in Tasks : task[x].pc \in {"idle", "done"})

=============================================================================
