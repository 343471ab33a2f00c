# A TLA+ model of the Phoe Lone backend

This backend gives a voice to a small robot (an ESP32 running the Xiaozhi
firmware). A robot keeps one websocket open; the server listens, asks Gemini Live
for an answer, speaks it, and lets the owner's dashboard chat, play and give
commands on the side. All of it is one asyncio process: nothing runs in parallel,
but every `await` is a place where another coroutine may run. The hard part of the
program is what happens at those places, and that is what the modules here model.

## Inventory

Paths are relative to `src/app`.

| Component | Source | State | Operations | Talks to |
|---|---|---|---|---|
| Voice session | `sessions/session.py` (`DeviceSession`), `protocol/state.py` | state machine, generation, turn and begin tasks, outbound queue, speaking-window flag, wake flags, pending music, companion lock | listen start/stop/detect, abort, turn, tools, music, farewell, chat, game reactions, sensor reactions, sleep, stop, close | robot, brain, MCP client, hub |
| Session lifecycle | `api/websocket.py`, `SessionManager`, `run` and `close` | registry by device, gauge, tasks of a session | attach, handshake, discovery, receive, keepalive, close, detach | robot, brain, MCP client, hub |
| Uplink | `audio/speech_gate.py`, `_on_binary`, `_flush_pcm_hold` | gate, held chunks, byte and time caps | chunk in, gate, hold, flush, endpoint | voice session, brain |
| Audio stream | `audio/opus.py`, `audio/edge_tts.py`, `audio/pacer.py` | feeder task, ffmpeg process, two pipes, the pacer's deadline | feed, decode, pace, cancel, kill | voice session, Edge TTS, robot |
| MCP client | `mcp/client.py` | pending requests, tool lists, motion lock | request, answer, timeout, cancel_pending | robot, voice session, hub |
| Gemini Live brain | `ai/gemini.py` | Live socket, receive task, current turn, queue of sentences | begin, end, continue, text turn, cancel, reset, reconnect, close | Google, voice session |
| Companion hub | `companion/hub.py`, `api/companion.py` | viewers, chat ring, matches, game tasks, sleep marks | subscribe, broadcast, commands, games, presence | voice session, store |
| Games | `companion/games` | match of a device | start, throw, reveal, move, minimax | hub |
| Care and memory | `companion/life.py`, `db` | care row, owner memory | credit, decay, patch | hub, scheduler |
| Activation | `auth`, `api/ota.py`, `api/portal.py` | device row, code, token | OTA, poll, complete, authenticate | robot, portal |
| Rate limits | `api/rate_limit.py` | window of stamps by key | check | endpoints |
| Tools, portal pages, templates, metrics, CLI | the rest | none shared | lookups, texts, pure I/O | voice session |

What makes each correct:

* **Voice session.** One turn at a time, and a cancelled one says nothing more. The
  robot, which drops audio while it listens and leaves Listening only on `tts/start`,
  gets `tts/start`, audio, `tts/stop` in this order whatever interrupts. Whoever starts
  to listen is answered. A goodbye takes the robot Idle. A closed session falls silent, but for
  what is suspended in `put`, and all of its coroutines end.
* **Lifecycle.** A robot has one serving session, the registered one; slots, gauge,
  sockets and dashboards' presence follow however connections race.
* **MCP client.** A call ends, once, with the answer to that very call or with an error.
  The catalogue of the robot's tools is whole. Motions take turns.
* **Brain.** One Live socket, with a reader as long as a turn waits. A reset cuts the
  conversation. A typed chat comes to an end, if its speaker waits on the queue of its own turn.
* **Uplink.** Gemini is sent each chunk once, in the order it was spoken, of this
  utterance only, and what was held before the utterance is declared over.
* **Audio.** A source that keeps up does not overrun the robot's decode queue, and a stream,
  however it ends, leaves no process and no task behind.
* **Hub and dashboards.** One game at a time, which Stop reaches; it leaves no countdown and no busy
  session that nobody will end, unless it was cut short or its speech raised; a game pays once; a viewer
  misses no line.
* **Games.** Mickey, on level medium, does not lose to an owner who places one X at a time.
* **Care.** A streak is earned day by day, if touches do not overtake each other over midnight, and decay
  does not take back a touch.
* **Activation.** What a robot was told at last, with no other request under way, opens its websocket once it
  is claimed, and no request that comes after a robot was disabled enables it.

The behaviours that are hard to test are the suspensions: a state read before an
`await` and used after it, tasks cancelled in the middle of their handlers, frames
queued by a finally block after a barge-in, the session closed by another
connection, a failed or late Live session. `PROJECT.json` lists them with their lines.

## Modules

### DeviceSession.tla

One `DeviceSession` after its handshake. What runs between two awaits is one action.

| Model | Code |
|---|---|
| `s` | the attributes of the object; `s.gen` is `state.generation`, `s.queue` is `out_queue`, `s.begin` is `_begin_task`, `s.turn` is `_turn_task` while it is not done |
| `task[x]` | the frame of coroutine `x`: where it is suspended, its local `generation`, its speak task, the locals of `_abort` and `_cancel_turn` |
| `wire` | the writer task; `dev`, `up` the robot and what it has sent |
| `Put` ... `Settle` | the straight-line code between awaits, as functions on `s` |
| `Await`, `s.putters`, `PutResumes` | `out_queue.put`: who is suspended in it with which frame, and what follows when there is room |
| `CancelTurn`, `BeginGone`, `TurnGone`, `Continue` | `_cancel_turn` with its two awaits, and what `_abort`, `_start_listen`, `close` do after it |
| `StopListen`, `BrainAwaited` | `_stop_listen`, with `_await_brain_ready` in the middle |
| `TurnBegins` ... `TurnUnwinds` | `_execute_turn`, `_run_turn` and their finally blocks |
| `FirstSentence`, `StreamPacket`, `SpeechDone`, `SpeechRaises` | `_consume_speakable`, `_speak` and `_stream_sentence`, with what they catch and what they let through |
| `MusicDone`, `MusicNotified`, `MusicAnnounced` | `_play_pending_music`, `_notify_music_finished` |
| `Chat` ... `ChatDone`, `Rps` ... `ReactionStep`, `Sleep`, `StopButton` | `companion_action` |
| `Pet`, `PickupOrFall` ... `ReactionDone` | the sensor reactions |
| `WriterTakes`, `WriterSends` | `_writer_loop`: the generation test, then the send behind `_ws_lock` |

Abstractions. A frame is its kind and generation; `sentence_start`, `stt`, `llm`, `alert` and ping
frames open and close nothing and are left out. A sentence is at most one audio packet. The brain's
answers are choices in `Replies`, its failures in `Faults`: `tts` is a `TtsError` or `CodecError`,
`decode` the errors that speech does not catch, `reconnect` a queue of sentences that
`send_text_turn` or `begin_utterance` replaces under a speaker. Up to `Turns` task objects are
alive, an ended one is used again. The robot is modelled from the messages the code expects: it
leaves Listening on `tts/start`, Speaking on `tts/stop` (in auto mode it then listens on), and goes
Idle on the server's abort. `_cancel_turn` called from inside the turn it cancels never happens in
this code and is left out.

`_put` tests `_closed` and then suspends in `out_queue.put` while the queue is full. A chat, a game,
a sensor reaction, the receive and the keepalive loop are then in `s.putters`, and `PutResumes` lets
them queue their frame as soon as there is room, which a drain makes too: on a session that is
closed, or under a generation that is over. (A drain makes room for 200 frames at once, and only
what was suspended takes it.) A turn is taken to wait for room for three frames before its step
(`TurnRoom`), and not in the middle of it: who drains or closes cancels the turn and awaits it
first, and a put that is cancelled withdraws its frame. What is lost so is one case: a turn
cancelled while its own `finally` block is suspended in the put of its `tts/stop`, whose flag is
cleared already (session.py:961), never sends that stop.

The input `overlap` lets the idle timer of the keepalive loop and the receive loop end
the same utterance while the brain is awaited. It is on only in the run `two_turns`,
because the code does not survive it: two turns start, so `OneTurn` fails, and one
of them plays outside the window. All passing runs are without it.

### SessionLifecycle.tla

Any number of connections of any number of robots: the endpoint coroutine (`conn[c].ep`), the tasks
of its session, and `close()`, which runs in the endpoint of the session, in `attach` of a newer
connection, or in the keepalive task (`conn[c].closer` says whose it is). `byDevice` is the
registry, `gauge` the `SESSIONS_ACTIVE` metric, `shown` what dashboards were last told. `Attach`,
`Hello`, `Discovered`, `Warmed`, `RunEnds`, `CloseTurn`, `CloseWriter`, `CloseSocket` and `Leave`
are the pieces of `attach`, `run`, `close` and `detach` between awaits. `_cancel_turn`, and the
brain and hub calls inside one piece, change no state of this module but `brain`. The asyncio lock
of the registry is held over no await, so its body is atomic. `push_presence` is one step
(`OnlineNow`): it reads the registry and tells every viewer. At `hello` it suspends for no call to
the robot, since no tool is known yet, but it does in the sends to the viewers: a broadcast that is
overtaken there by a later one is not covered.

### The proof modules

`DeviceSession_proofs`, `SessionLifecycle_proofs`, `LiveBrain_proofs`, `CompanionHub_proofs` and
`Activation_proofs` hold the theorems on the module they are named for, `CompanionHub_proofs` those on
TicTacToe too, `Audio_proofs` those on AudioStream and Uplink, `Pet_proofs` those on PetCare and
Dashboards. See "Proofs" below.

### RemoteCalls.tla, McpClient.tla, McpClient_proofs.tla

`RemoteCalls` is the promise of `McpClient` to its callers, in two variables: what the robot
said to each call, and how each call ended. `McpClient` has the coroutines in `call`,
`send_request` and `list_user_tools` (`frame[c]`), `_pending`, the ids, the queue of
`_motion_lock`, the robot and the answers on their way. A call is cancelled by its owner or by
`cancel_pending` at any await; an answer may come after its timeout or never. The refinement
mapping is `said` and `OutcomeOf`; `RefinesCalls` is `Promise!CallsSpec`.

### LiveBrain.tla

One `GeminiLiveBrain` and the five coroutines that share it: the voice turn, the receive loop
of the device that pushes PCM, the typed chat, the session that connects and resets, and
`_receive_loop`. `socket` is `_session`, `brain.turn` and `brain.done` are `_turn` and
`_turn_done`, `brain.queue` is `_speak_q`. `wire`, `owes` and `heard` are Google's side: which
sockets are connected, which answers it has still to give, and of which conversation the last
one was. `Ensure`, `Opens`, `Exits` are `_ensure_session` and `_close_live_socket` with their
awaits; `GoAway`, `ReceiveFails`, `Recovers` the reconnects. Tool calls, transcripts and the text
of sentences are not here; a continuation after a tool is a new turn (`ContinueWithFunctions`).

### Uplink.tla

`SpeechGate.process` as a function on the gate (`Gated`), and `_on_binary`, `_forward_chunk`,
`_begin_brain`, `_flush_pcm_hold`, `_await_brain_ready` and `_stop_listen` between their awaits.
A frame is its number and is loud or not by choice; `uttered.sent` is what Gemini got.

### AudioStream.tla

One sentence or clip on its way to the robot: `source` (Edge TTS with its fallback voice, or a
download), `feeder` (the task that writes ffmpeg's stdin), `ffmpeg` with its bounded pipes,
`pump` (the generator that reads stdout, up to its `finally`), `pacer`, and the robot's queue.
An abandoned generator (`pump.pc = "lost"`) is closed later by asyncio (`Collected`). A chunk of
MP3 becomes one frame, and time passes in frames.

### CompanionHub.tla, Dashboards.tla, TicTacToe.tla, PetCare.tla

Four views of what dashboards do. `CompanionHub` has the command handlers of several viewers
(`hand`), the game tasks (`games`, `reg` is `_game_tasks`), the shared match, the companion lock
and the session as far as games see it: its state and a voice turn. `Dashboards` has the sockets:
subscribe, the bootstrap line by line, broadcasts that send to one viewer after another, the
chat history. `TicTacToe` has the nine cells and minimax, as a recursive function from
boards to the value of each for whoever moves next (`Score[b][mark]`).
`PetCare` has the care row as every writer sees it: SELECT, compute, later UPDATE of the columns
that differ from what *that* SELECT returned; the first row is an INSERT the unique key refuses to a second writer.

### Activation.tla

The table of devices and the requests on it: OTA, the portal's code, provisioning, disabling,
each as a first read, a decision, the SELECT of `upsert` and its column-wise UPDATE. A token and
a challenge are the number of the request that made it, so two of them are never equal by
chance. `told` is the history the properties speak of: the last answer of a robot that no
other request overlapped. `LegacyRows` are rows of before tokens were kept wrapped.

### MCDeviceSession.tla, MCServices.tla, MCDashboards.tla

`MCDeviceSession` has the input and reply sets of the configurations of DeviceSession;
SessionLifecycle needs no such module, its configurations give plain values. `MCServices` and
`MCDashboards` run several modules in one run: the modules share no variable, so a behaviour
is one of theirs, the variable `part` says whose, and the others stay in an initial state.
Their fairness is that of the parts, restricted to the part that runs.

## Runs

| Run | Expect | Asks | Shows |
|---|---|---|---|
| voice | pass | `TypeOK OneTurn QueueIsCurrent AudioInWindow ListeningIsAnswered` | wake word, buttons, barge-in, music, silent, transient and failing turns |
| farewell | pass | `SpeakingEnds GoodbyeIsDelivered BusyEnds` | goodbyes under failing begin, reset, TTS and turn timeouts |
| companion | pass | `OneTurn ClosedSilence LockIsReleased ClosedWindsDown` | every dashboard command, sensor and `close()` against a turn, with speech that raises |
| lifecycle | pass | `TypeOK OneServing ServedIsRegistered SlotsAreFreed GaugeIsBalanced PresenceIsTrue ClosedIsGone` | connections replaced, lost, idle and refused |
| services | pass | `CatalogIsWhole RefinesCalls` (McpClient), `OneSocket SomebodyReads ResetCuts ChatEnds` (LiveBrain), `SentAsSpoken HeldIsFlushed` (Uplink), `OverflowsAfterStall StreamsEnd` (AudioStream) | timeouts, late answers, lost sockets, cancellations, hung processes |
| dashboards | pass | `OneGame CreditedOnce BusyIsBusy CountdownEnds` (CompanionHub), `NothingMissed` (Dashboards), `StreakIsEarned TouchSurvivesDecay` (PetCare), `MediumNeverLoses` (TicTacToe), `ToldConnects WrappedIsHashed DisabledStays` (Activation) | two dashboards, the care loop, the portal and an operator at once |
| chat_over_listening | violation | `ListeningIsAnswered` | a chat ends over a listening robot and forces READY |
| late_abort | violation | `SpeakingEnds` | one abort, which crosses the `tts/stop` of a turn that has just ended, drains it and sends none |
| two_turns | violation | `AudioInWindow` | one utterance is ended twice |
| chat_reconnect | violation | `LockIsReleased` | the chat waits on a queue that was replaced |
| idle_close | violation | `CloseClosesSocket` | `close()` cancels the task it runs in |
| live_leak | violation | `LiveSocketIsReleased` | the Live socket is opened after `close()` |

The violations are disagreements with a sentence of the docs or of a docstring; `PROJECT.json`
quotes it. The passing runs of DeviceSession divide the inputs, for two reasons. One is what the
violations show: a property is claimed only where the code keeps it. `voice` and `farewell` have no
dashboard (`chat_over_listening`), `farewell` no abort (`late_abort`), no run that passes has
`overlap` (`two_turns`) or the fault `reconnect` (`chat_reconnect`), and `voice` has no failing TTS
and no turn timeout, after which music takes the state SPEAKING for an open window. Speech that
raises (`decode`) is in `companion` only: after a clip the announcement that raises takes the end of
`_run_turn` with it, the goodbye and the state. The other is size: the fault `reset` and the
farewell are in `farewell` only, streamed music in `voice` only, and chats in `companion` answer or
fail. A chat that calls `search_music` is modelled (`ToolsDone`) but in no run: its clip is queued,
never played, and leaves the window open (session.py:2013), which no property of `companion` speaks
of.

**Bounds.** `MaxInputs` (2 to 4) counts what the world does: one button, command, message or event
each; Gemini's answers, failures, timers and the writer are free. Three inputs are a conversation, a
barge-in and what follows; four are needed for a goodbye, the auto-continue that crosses it and the
next wake. `Turns` has two task objects: with `OneTurn` one is alive, and the other lets an orphan
appear. `QueueSize` 4 makes a turn wait as soon as two frames are unsent (its step puts at most
three) and suspends anyone else at the fifth; the real queue of 200 fills with music. In lifecycle,
three connections are the smallest chain in which a session is closed while its own `attach` still
waits, two robots and one slot make `too many sessions` happen, and two events are a loss and a
message or an idle timeout. Deadlock is not checked: behaviours stop when the inputs are used up.

In `services`: three calls, two of them motions, so that one waits for the lock behind one that is
cancelled or unanswered, or a motion next to a listing of two pages. Two sockets and two turns are
one reconnect and one turn after a cancelled one; `TheCasts` names which coroutines meet, at most
two besides the receive loop. Seven frames with `MinSpeech` 2, `MinSilence` 2, a hold of 2 and a cap
of 4 open and shut the gate twice, overflow the hold and reach the cap. Two streams of three chunks
through pipes of one block the feeder, and put one frame behind the burst of two; a decode queue of
three overflows, after a stall and with what the stream before left. In `dashboards`: two viewers,
two tasks, three commands, one voice turn and two rounds let a command cross another one's
suspension and a new game replace an unfinished one; four touches on six days of one tick with one
round of decay earn, keep and break a streak, with midnights and a decay inside a touch (all of them
chats: what sets the kinds apart is in the theorems, which are about every set of kinds); three
requests on one robot are two that overlap and one that comes after. The board of TicTacToe is the
real one.

**Fairness.** Weak fairness of every coroutine that is runnable: asyncio's ready
queue is first in, first out. Waits for the outside world end because the code bounds them:
`turn_timeout_s` for a turn, 8 s for the brain at the end of an utterance,
`listen_idle_timeout_s` and the utterance caps for listening, MCP and Gemini timeouts,
2 s for the writer. Nothing is assumed of the robot, the owner or the dashboard:
their actions (`World`, `PeerLost`, `Attach`, `Hello`) have no fairness, nor has speech (`HearSpeech`).
In lifecycle, fairness of `Serve` includes the failure of the handshake after
`hello_timeout_s`. Strong fairness is never needed.

`LiveFairSpec`, `McpSpec`, `HubSpec` and `StreamSpec` follow the same rule. A call to the robot
has its timeout, a connect has `gemini_connect_timeout_s`, and the close of a socket has the
websocket library's close timeout. ffmpeg may hang, but a read of its output times out, and the
robot plays on (`Plays`), which is how time passes there. Gemini's messages, the robot's answers,
ffmpeg and the dashboards have no fairness.

## What the properties do not claim

Some properties of the services hold only outside a case in which the code does something else.
Each case is a history variable of the model and an explicit escape in the property, so that
the run still covers all other interleavings around it. They are:

| Property | Escape | What the code does there |
|---|---|---|
| `ChatEnds` | `co["text"].stray` | The speaker is suspended on a queue that is not the one of its turn. A chat, a pet reaction or the end of a song starts it before `send_text_turn` has the socket, on the queue of the turn before (session.py:1921, gemini.py:472); `chat_reconnect` shows it. Or it was in a sentence when a new utterance replaced the queue, which it looks up at every sentence (`SpeakerReadsOn`, gemini.py:656), and waits for the end of that one. |
| `SomebodyReads` | `brain.orphan` | The receive loop of the old socket is not `done()` while it awaits its last close (gemini.py:551, 787): a reconnect in that moment starts no loop. |
| `SentAsSpoken` | `"overtaken"` | The receive loop pushes a new chunk while older ones are held and being flushed (session.py:852, 773). |
| `HeldIsFlushed` | `"late"` | The Live session needs longer than the 8 s that the end of an utterance waits (session.py:793). |
| `BusyIsBusy`, `CountdownEnds` | `"game"` in `cut` | A new game cancels a game task that is in its reaction (hub.py:310, 252): SPEAKING is left and nobody ends it. |
| `BusyIsBusy` | `"raised"` in `cut` | A read that times out or a feeder whose pipe broke (opus.py:205, 214) is neither `TtsError` nor `CodecError`: it escapes `_speak` (session.py:2056) and the `gather` of the chant or of the reaction (session.py:1674, 1724, 1771), `_finish` is skipped and SPEAKING is left (`Escapes`). |
| `CountdownEnds` | `"crossed"`, `"chant"`, `"close"` | A move that was under way cancels a game; the owner speaks during the chant (session.py:1679, hub.py:346); the task that adopted a countdown finds the session closed. Only Stop or a new start gets it away. |
| `QueueIsCurrent` | `Solo`, no farewell (constants: the run that checks it is within) | A chat, a game or a sensor reaction that is suspended in `put` on a full queue is woken by the drain and queues a frame of the generation that is over (session.py:2503, 2517). And `_start_listen` awaits the reset of a stale Live session between the drain and its own `bump_generation` (session.py:723): what a chat or a sensor reaction queues in between is of the old generation. The writer drops both. |
| `ClosedSilence` | the frames of `s.putters` | What is suspended in `put` when `close()` drains the queue was found open, and queues its frame afterwards (session.py:2515). The writer sends nothing once `_closed` is set. |
| `BusyEnds`, `GoodbyeIsDelivered` | no `decode` (a constant: the run `farewell` has none) | The line after a clip that raises leaves `_play_pending_music` and the rest of the `finally` block of `_run_turn` undone (session.py:1128): the state stays SPEAKING, and `_awaiting_wake` set. |
| `AudioInWindow` | `VoiceOnly` (constants: the runs that check it are within) | A packet finds no window open if one utterance is ended twice (`two_turns`); if synthesis fails, speech raises or the turn expires before the clip it queued, which takes SPEAKING for an open window (session.py:2164); if the line after a clip on the robot's own player is spoken and nothing was spoken before it, since the flag set at session.py:2242 says that the window is open; if the dashboard's Sleep aborts while the end of an utterance awaits the brain, because `_stop_listen` then begins its turn all the same (session.py:1832, 793). |
| `GoodbyeIsDelivered` | `HandsFree` (constants: the run `farewell` is within) | The goodbye is drained by the `_cancel_turn` of whatever starts or stops something else before it is sent: a button of the robot, the dashboard, a sensor. It is drained too when one turn opens two windows, since the robot continues after each and the second auto-continue is taken for a wake (session.py:712): the fallback line of a turn that raised (session.py:1123), or a clip after a turn that timed out and released its window (session.py:1115, 1128). |
| `PresenceIsTrue` | a step of the model | The sends of a broadcast to several viewers suspend (hub.py:113): one that is overtaken by a later one leaves a viewer with the older word. |
| `StreakIsEarned` | `overtaken` | A touch that commits after one of a later day writes only the columns that differ from what it read (life.py:158): the row keeps the other one's streak on its own, earlier day. |
| `MediumNeverLoses` | `doubled` | Two dashboards both pass the test of whose turn it is and place two X (hub.py:526). |
| `ToldConnects` | `told[d] = Nil` | Two overlapping OTA requests are told two tokens, and the row keeps one. |
| `DisabledStays` | `request[r].late` | A request that read the row before the robot was disabled writes it back as active (auth/service.py:284). |

Other things seen while modelling, which no property speaks of:

* After a Stop `_cancelled` stays set (gemini.py:517), so a typed chat is not injected until the
  next listening.
* The hold is a deque of fixed length: when the Live session opens late the oldest speech is
  dropped (session.py:124). A flush that reaches the cap of forwarded audio ends no utterance.
* A refused result reaction pays no care credit (hub.py:473). A countdown task that is ending can
  reveal the round of its successor (hub.py:360). `_finish` forces READY over a voice turn
  that came in between (session.py:1682).
* A dashboard that breaks off in its bootstrap stays in `_viewers` until a broadcast finds it
  (api/companion.py:134); a line may reach a viewer that joins twice, or after a later one.
* Meters of overlapping touches, and of a touch during decay, are lost updates; an INSERT that
  loses its race raises through `credit`, which catches only `CompanionError` (hub.py:170).
* Two robots can get one code in the same moment, after which the portal's lookup raises
  (db/sqlalchemy_repo.py:221).
* The pacer makes up for a stall in one burst, and every sentence begins with a burst, so the
  queue of 20 frames can overflow, which pacer.py:21 ("without overflowing the ESP32 1.2s decode queue") and
  the repository's README.md:23 deny. `OverflowsAfterStall` is what is left of their claim: nothing but a stall, or what the
  stream before left in the queue, makes it overflow.
* The fallback voice begins the sentence again when the first voice broke off after it had
  spoken (edge_tts.py:46). A read that times out, or a feeder whose pipe broke, raises neither
  `TtsError` nor `CodecError` (opus.py:205, 214), so no alert is spoken and whoever awaits the speech is
  raised to; the wait for the feeder in
  the `finally` block of a clip swallows a cancellation (opus.py:370).

## Proofs

Every theorem is about all values of the constants that satisfy the named assumptions of its module:
any number of turns, connections, calls, dashboards, touches, requests, and sequences of any length.
The assumptions say what type a bound has, that model values differ (`NilAssumption`,
`TurnsAssumption`, `HubAssumption`), and where a number is not zero because the code makes it so:
a catalogue has a page (`PagesAssumption`), a burst a frame (`StreamAssumption`), a day a tick
(`CareAssumption`). In each module one inductive invariant is proved (`...Correct`, `Invariant`,
`McpInvariant`, `Told`), with a step per action, and the properties follow from it. Each
invariant was checked by TLC on a small instance first.

### Voice session

`DeviceSession_proofs.tla`, for any turns, inputs, replies, faults, `MaxInputs` and `QueueSize`:

* `SessionTypes`: `Spec => []TypeOK`, which includes that no frame is of a later generation than `s.gen`
* `ClosedIsSilent`: `Spec => ClosedSilence`
* `OneTurnAtATime`: `"overlap" \notin Inputs` implies `Spec => []OneTurn`
* `NothingStaleIsQueued`: `Solo` and `"farewell" \notin Replies` imply `Spec => []QueueIsCurrent`
* `PacketsFindTheWindow`: `VoiceOnly` implies `Spec => AudioInWindow`
* `TheGoodbyeArrives`: `HandsFree` implies `Spec => GoodbyeIsDelivered`

The hypotheses are not for the prover's sake: without the first `two_turns` shows the
violation, the others are in the table above. All other inputs, replies and faults are allowed, the
ones that no passing run combines included. `VoiceOnly` is more than the run `voice`: goodbyes, `close()`
and failing resets are among it. So is `HandsFree` more than the run `farewell`: it allows music on the
stream where no turn times out, and any number of turns and conversations.

`SessionInv` has a part without hypotheses: which task may be in `_cancel_turn`, with what it
goes on to do, and that a task that has not begun or is cancelling speaks nothing (`Purposes`);
without it a step of `_cancel_turn` could resume something the code never resumes there. `Alone` makes
`OneTurn` inductive: `_turn_task` names a task that is alive (`TurnIsLive`); who waits in
`_cancel_turn` waits for the only one there is (`Waited`), or the bump after the wait would let a second
turn begin over an unfinished one; nobody else is alive while the robot listens or the end of its
utterance awaits the brain (`HeardAlone`), or `_begin_turn` would find a turn; and the receive loop and
the keepalive loop do not await both (`Apart`), which is what `overlap` breaks. `NeverStale` and `Hushed` make
`QueueIsCurrent` inductive: without a farewell no reset delays the bump after a drain, and where only turns speak
(`Solo`) nobody is ever suspended in `put`, because `out_queue` is empty whenever the robot is listened to.

Two thirds of the proof are about the straight-line code: `Calm` and `Quiet` say of a stretch of it
that it leaves the generation, `closed` and (Quiet) the turn alone, queues only frames of the
current generation and, once closed, none but one that was suspended in `put` (`Quieter`). Each
helper has a lemma that says it is one of them, and `HarmlessKeeps`, `ReturnKeeps` and
`TurnWaitKeeps` carry `SessionInv` over a step made of them.

`AudioInWindow` needs a second invariant, `SpeaksInv`, which follows the window from the code to the
robot. `Ahead` says that the robot speaks once it has what the writer is sending, `OpenAfter` that
it still does after so many frames of the queue: after its own state or some `tts/start` that will be
sent, nothing that will be sent shuts the window. Every packet in the queue finds it so (`Framed`).
`Lasts` is the window at the end of the queue, where the code appends, and must be what the code
takes it for: a speak task that plays, a clip, or `_awaiting_tts_stop` (`Steady`). A bump of the generation
makes all of that void, and the frames it leaves in the queue with it, so a cancellation is a state of its
own (`InCancel`): no turn is of the current generation, and `_abort` alone may still have a window to
release, and knows (`needs`). What a helper of the session does to the window is a lemma
(`PutWindow` to `AbortTailWindow`); `TurnWindow`, `CutWindow` and `StillWindow` carry the
invariant over the steps of a turn, of a cancellation and of all others.

`AudioInWindow` and `GoodbyeIsDelivered` use `Hushed` too. The latter needs a third invariant,
`FarewellInv`, which balances an account between the robot and the session. `Unheard` bounds how
many times the robot is yet to be heard saying that it listens: the messages that are unread, one
when a `tts/stop` will make it listen again, one when a `tts/start` is on its way. `Allowed` is how
many of them the session has a use for: none while it listens or is about to (`Committed`); one
during a turn that is to end in idle, which sets `_ignored_auto_listen`, and none after it; then,
while the goodbye is under way, the one that `_swallow_auto_listen` is for; and one more, a wake,
once it is gone. `Unheard =< Allowed` is inductive together with: a `tts/start` and the goodbye are
queued at most once (`Once`), only the goodbye outlives its generation (`Tagged`), a turn that is
alive still has the window to open or the brain to ask (`Fits`), and while the session listens,
awaits the brain or talks no goodbye is queued and nothing will be swallowed. A wake while the
goodbye is queued would make the account overdrawn: that is the theorem.

### Lifecycle

`SessionLifecycle_proofs.tla` proves, for any `MaxConns`, `Devices`, `MaxSessions` and
`MaxEvents` (the constants' assumptions are that the three numbers are natural):

* `Types`: `Spec => []TypeOK`
* `Registered`: `Spec => []ServedIsRegistered`
* `One`: `Spec => []OneServing`
* `Freed`: `Spec => []SlotsAreFreed`
* `GaugeBalances`: `Spec => []GaugeIsBalanced`
* `PresenceSettles`: `Spec => []PresenceIsTrue`

The first four follow from `Invariant`: `Spec => []IInv`. `ServedIsRegistered` is not inductive:
an endpoint begins to serve when the `close()` it waited for in `attach` returns, so
`OpenIsRegistered` extends it to the endpoints that wait. Then the step that ends a
`close()` (`CloseSocket`) must know that the endpoint it resumes waits, which is
`CallersWait`, and that no other call of `close()` will resume it once more, which is
`OneAwaited`. `IInv` is their conjunction with `TypeOK` and `SlotsAreFreed` (an endpoint that
attaches may not find a new or an ended one in the registry). Most actions change one
connection and neither the registry nor a place that others rely on; the lemma
`HarmlessKeeps` proves `IInv` for all of these at once, and each has a short lemma that says
it is harmless. `Attach`, `CloseSocket` and `Leave` have proofs of their own.

The last two follow from `Told`: `Spec => []ToldInv`. The gauge is at all times the number of calls of
`run()` less the number of calls of `close()` that came to their end (`GaugeInv`); `GaugeMoves` changes
both cardinalities at once, because the step that ends a `close()` may begin the `run()` that waited for
it. Presence needs two halves: an open session that has said hello is shown (`ToldOnline`), and a
robot that is shown but has no session has a `close()` that has still to say so, or that is one of the two
kinds that never do (`ToldOffline`).

### MCP client

`McpClient_proofs.tla` proves, for any sets of calls, motions and listings and any number of pages
(motions and listings are disjoint sets of calls, and there is at least one page):

* `McpTypes`: `McpSpec => []McpTypeOK`
* `WholeCatalogs`: `McpSpec => []CatalogIsWhole`
* `MotionsTakeTurns`: `McpSpec => []OneMotion`
* `McpImplementsCalls`: `McpSpec => Promise!CallsSafe`, the safety half of `RefinesCalls`

They follow from `McpInvariant`: `McpSpec => []McpInv`. That a call ends with its own answer needs
the way of an answer, from the end to the start: what a call got is what the robot said to it
(`GotIsTrue`), because an answer on its way whose id is still held is the robot's last word to that
call (`AnswerIsTrue`), because the robot has at most the current request of a call (`AskedIsCurrent`), and
because an id belongs to one call (`IdsAreOwned`). The pages counted in the two in the middle
give `CatalogIsWhole`. That motions take turns needs `QueueIsMotions`: the queue of the lock has
each motion under way exactly once, and only its head has gone on. The refinement then has
one lemma per kind of step: it begins a call, ends one, answers one, or leaves both abstract
variables alone.

### Gemini Live brain

`LiveBrain_proofs.tla`, for any `Casts`, sockets, turns and resets:

* `NoSocketIsLost`: `LiveSpec => []OneSocket`
* `TheTurnHasAReader`: `LiveSpec => []SomebodyReads`
* `AResetIsACut`: `LiveSpec => []ResetCuts`

`Placed` says where each of the five coroutines can be suspended, for what it opens or closes a socket
and where it goes on, so that the steps of a shared helper need not be proved for places it is never
called from. `SocketInv`: who connects holds the lock and finds no socket. `ReadInv`: while the
voice streams or waits for the turn of the moment the receive loop is there. `ResetCuts` compares
two conversations at the moment an answer is heard; inductive is what is still owed: except while
the reset closes it, the socket in use owes answers of the current conversation and turn
only (`CutInv`), and while it does, the turn is cancelled and the receive loop does not read.

### Uplink and audio stream

`Audio_proofs.tla`, for any burst, decode queue, pipe, pre-roll, gate, hold and cap:

* `OnlyAStallOverflows`: `StreamSpec => []OverflowsAfterStall`
* `SpokenInOrder`: `UpSpec => []SentAsSpoken`
* `NothingHeldBack`: `UpSpec => []HeldIsFlushed`

`PaceInv` relates the pacer's deadline to the robot's queue: once the deadline runs, the queue has at
most what was in it, the burst, what the source owes, and the frames the pacer is behind. For the
uplink, `Chain` says that the chunks of an utterance are in four places, each in its order and none in
two, and which place is ahead of which; `InTurn` that nothing has overtaken the held ones. They
are about sequences of any length, so the module first proves what `Append`, `Tail`, concatenation and the
truncated suffix of the hold and the pre-roll do to order and members.

### Companion hub and dashboards

`CompanionHub_proofs.tla`, for any finite set of viewers and any tasks, rounds and cells (the
registry's `NoOne` is neither, and no task is a viewer):

* `OneGameRuns`: `HubSpec => []OneGame`
* `NoResultIsPaidTwice`: `HubSpec => []CreditedOnce`
* `BusyIsRescued`: `HubSpec => []BusyIsBusy`
* `MediumIsPerfect`: `TttSpec => []MediumNeverLoses`, of TicTacToe

`LockInv` says that who is inside `companion_action` is who holds the lock, so a step that
resumes there is alone in it. `PlayInv` says that the match of a task that was not cancelled is still the one it
began; then a credit has its result, which `DebtInv` counts: the results not yet paid are at least
as many as the handlers and tasks that may still pay. `BusyIsBusy` is strengthened by who is on the
way to end it (`Rescued`), with the two marks of the history, `"game"` and `"raised"`, as the only excuse.

`MediumIsPerfect` is about minimax on the real board. `Score` is defined by a choice of a function
that its recursion leaves as it is, so the proof shows that there is one: a board has at most nine
free cells, and ten applications of the recursion to any function agree with eleven (`Settled`).
That gives the equation of the recursion for every board (`Minimax`), in ten steps instead of an
induction. From it: a mark of Mickey in the chosen cell keeps the value for Mickey (`BestCell`
attains the maximum), no answer of the owner lowers it, and a board the owner has won is worth less
than 0. `TttInv` is that the value is at least 0 whenever two did not place two X in a row. That it
is so for the empty board is a computation over the whole tree of play, which TLC does and no prover
here would: it is `EmptyBoardAssumption`, which the run `dashboards` evaluates.

`Pet_proofs.tla` has `NoLineIsMissed`: `ViewSpec => []NothingMissed`, for any viewers and broadcasts
and a history of any length. A line of the history has come to a viewer, is in its copy still to be
sent, or a broadcast owes it (`Reached`); that the owing broadcast will indeed reach the viewer needs that
a handler at work on a live connection is in `_viewers` (`WorkersView`), and that a broadcast discards
only what is broken.

### Care

`Pet_proofs.tla`, for any kinds, touches, ticks and length of a day:

* `TheStreakIsEarned`: `CareSpec => []StreakIsEarned`
* `DecayTakesNothingBack`: `CareSpec => TouchSurvivesDecay`

An UPDATE writes the columns that differ from what its own SELECT returned, so what a touch is going to
write must be right whichever columns another one has changed meanwhile: `TouchInv` relates what it read,
what it will write and the row, and gives the same day's, the next day's and a later day's case. It
is there that `overtaken` was found. `RoundInv` says that a round of decay has changed meters only.

### Activation

`Activation_proofs.tla`, for any robots, codes, requests, legacy rows and times (`Nil` is no number, code
or row):

* `TheTokenUnwrapped`: `AuthSpec => []WrappedIsHashed`
* `WhatItWasTold`: `AuthSpec => []ToldConnects`
* `DisabledForGood`: `AuthSpec => DisabledStays`

A write is column by column, so that a hash could end up beside the wrapping of another token.
It does not because every record a request decides on pairs the two (`Paired`): the two columns
of two paired rows differ together or not at all, but for the legacy rows, which `Paired` covers.
`AwakeInv` keeps a request that the operator has not overtaken away from disabled rows, `AloneInv` says
that a request no other one overlapped still finds what it read, and `ToldInv` then relates the robot's
last answer to its row.

### Checked by TLC only

* `EmptyBoardAssumption`, the value of the empty board, on which `MediumIsPerfect` rests.
* What must eventually happen: `ClosedIsGone`, `ListeningIsAnswered`, `SpeakingEnds`, `BusyEnds`,
  `LockIsReleased`, `ClosedWindsDown`, `ChatEnds`, `StreamsEnd`, `CountdownEnds`, and that every call
  ends, the liveness half of `RefinesCalls`: liveness under fairness is out of the prover's reach.

## Not modelled

Search and ranking of music, weather, news, knowledge, e-mail, TikTok counters, prompt and
text sanitation: transformations of data without shared state, whose outcome is a choice in
the model. Opus itself, local files and yt-dlp as sources of audio, templates, metrics,
migrations and the CLI: numeric data and pure I/O. Rate limits: windows of stamps changed without
an await. The firmware directory holds patches of another program; the robot is external.
Of the voice session: dance, emotion, settings, alarms, reboot and upgrade (one robot call
each, no session state), the owner memory, and the debug recordings. Of the brain: tool calls,
transcripts, voice settings.

The modules of `services` and `dashboards` are not composed with DeviceSession: what one needs of
the other is a choice there (the brain's outcomes in DeviceSession, the voice turn in CompanionHub).
Each choice allows all that the other module can do and more.

## Plan

1. The abstract session that both DeviceSession and CompanionHub assume, and refinements to it.
2. `GoodbyeIsDelivered` beyond `HandsFree`: state which presses are meant to take the goodbye back, so that
   the property can be asked of every input.
