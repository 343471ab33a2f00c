---------------------------- MODULE AudioStream ----------------------------
(***************************************************************************)
(* How a sentence, or a music clip, becomes audio in the robot's decode    *)
(* queue (app/audio/opus.py, iter_pcm_frames_from_mp3 and                  *)
(* iter_pcm_frames_from_audio_stream; app/audio/edge_tts.py;               *)
(* app/audio/pacer.py; _stream_sentence and _stream_music_url of           *)
(* app/sessions/session.py).                                               *)
(*                                                                         *)
(* A feeder task writes what the source yields - Edge TTS, or the download *)
(* of a clip - to ffmpeg's stdin; the speak coroutine reads frames from    *)
(* its stdout and sends them at the pace of the robot's playback.  Both    *)
(* pipes are bounded.  The coroutine's generators end in a finally block;  *)
(* a generator it abandons is closed by asyncio, in a task of its own.     *)
(* Time is counted in frames of 60 ms; a chunk decodes to one frame.       *)
(***************************************************************************)
EXTENDS Integers

CONSTANTS
    MaxStreams,   \* bound: sentences and clips
    Chunks,       \* bound: the chunks of one answer of Edge TTS, or of one clip
    PipeSize,     \* bound: what a pipe of ffmpeg holds
    Burst,        \* PRE_BUFFER_COUNT
    DecodeFrames, \* the robot's decode queue of 1.2 s, in frames
    ClipFrames,   \* max_frames of a clip, of music_max_seconds
    MaxLate       \* bound: frame times the pacer gets behind

ASSUME StreamAssumption == Burst \in Nat \ {0} /\ DecodeFrames \in Nat

VARIABLES
    kind,     \* "speech" or "music"
    source,   \* the voice that speaks and the chunks it has yielded
    feeder,   \* the feeder task: where it is or how it ended, and whether cancel() was called
    ffmpeg,   \* the process and its pipes
    pump,     \* where the innermost generator is, and how the stream ends
    current,  \* generation == self.state.generation, and not _closed
    pacer,    \* frames sent, and deadline - now in frames
    robot,    \* the frames in the robot's decode queue
    carry,    \* history: what it held when this stream began
    starved,  \* history: frame times it was empty since the deadline was set
    streams   \* streams begun

streamVars == <<kind, source, feeder, ffmpeg, pump, current, pacer, robot, carry, starved, streams>>

StreamInit ==
    /\ kind = "speech" /\ source = [voice |-> 1, yielded |-> 0]
    /\ feeder = [pc |-> "over", cancel |-> FALSE]
    /\ ffmpeg = [state |-> "exited", stdin |-> 0, open |-> FALSE, stdout |-> 0]
    /\ pump = [pc |-> "idle", how |-> "ok"]
    /\ current = TRUE /\ pacer = [sent |-> 0, due |-> 0]
    /\ robot = 0 /\ carry = 0 /\ starved = 0 /\ streams = 0

Up == ffmpeg.state = "up"
Feeding == feeder.pc \in {"ask", "drain"}

\* The stream before said everything it had to say: the next one begins.
StreamBegins ==
    /\ pump = [pc |-> "idle", how |-> "ok"] /\ current /\ streams < MaxStreams
    /\ kind' \in {"speech", "music"}
    /\ source' = [voice |-> 1, yielded |-> 0]
    /\ feeder' = [pc |-> "ask", cancel |-> FALSE]
    /\ ffmpeg' = [state |-> "up", stdin |-> 0, open |-> TRUE, stdout |-> 0]
    /\ pump' = [pc |-> "read", how |-> "ok"]
    /\ carry' = robot /\ starved' = 0 /\ streams' = streams + 1
    /\ UNCHANGED <<current, pacer, robot>>

-----------------------------------------------------------------------------
\* The feeder, _feed.

Outside == <<kind, pump, current, pacer, robot, carry, starved, streams>>

\* The source yields a chunk, which is written to stdin.
Yields ==
    /\ feeder.pc = "ask" /\ ~feeder.cancel /\ source.yielded < Chunks
    /\ source' = [source EXCEPT !.yielded = @ + 1]
    /\ feeder' = [feeder EXCEPT !.pc = "drain"]
    /\ ffmpeg' = [ffmpeg EXCEPT !.stdin = IF Up THEN @ + 1 ELSE @]
    /\ UNCHANGED Outside

Drained ==
    /\ feeder.pc = "drain" /\ ~feeder.cancel /\ Up /\ ffmpeg.stdin <= PipeSize
    /\ feeder' = [feeder EXCEPT !.pc = "ask"]
    /\ UNCHANGED <<source, ffmpeg, Outside>>

\* The feeder ends and closes stdin.
FeederEnds(how) ==
    /\ feeder' = [pc |-> how, cancel |-> FALSE]
    /\ ffmpeg' = [ffmpeg EXCEPT !.open = FALSE]
    /\ UNCHANGED <<source, Outside>>

\* iter_mp3: a voice whose connection breaks is replaced by the fallback, from the
\* beginning of the sentence; a timeout and an answer without audio are final.
VoiceFails ==
    /\ kind = "speech" /\ feeder.pc = "ask" /\ ~feeder.cancel /\ source.voice = 1
    /\ source' = [voice |-> 2, yielded |-> 0]
    /\ UNCHANGED <<feeder, ffmpeg, Outside>>

\* The source is at its end, fails, or times out; ffmpeg is gone; cancel().
FeederOver ==
    \/ /\ feeder.pc = "ask" /\ ~feeder.cancel
       /\ \/ source.yielded > 0 /\ FeederEnds("over")
          \/ FeederEnds(IF kind = "speech" THEN "tts_error" ELSE "over")
    \/ /\ feeder.pc = "drain" /\ ~feeder.cancel /\ ~Up
       /\ FeederEnds(IF kind = "speech" THEN "broken" ELSE "over")
    \/ Feeding /\ feeder.cancel /\ FeederEnds(IF kind = "speech" THEN "cancelled" ELSE "over")

-----------------------------------------------------------------------------
\* ffmpeg.

Others == <<kind, source, feeder, pump, current, pacer, robot, carry, starved, streams>>

Decodes ==
    /\ Up /\ ffmpeg.stdin > 0 /\ ffmpeg.stdout < PipeSize
    /\ ffmpeg' = [ffmpeg EXCEPT !.stdin = @ - 1, !.stdout = @ + 1]
    /\ UNCHANGED Others

\* At the end of its input, or of -t; or it crashes.
FfmpegExits ==
    /\ Up
    /\ \/ /\ \/ ~ffmpeg.open /\ ffmpeg.stdin = 0
             \/ kind = "music" /\ pacer.sent + ffmpeg.stdout >= ClipFrames
          /\ ffmpeg' = [ffmpeg EXCEPT !.state = "exited", !.stdin = 0]
       \/ ffmpeg' = [ffmpeg EXCEPT !.state = "crashed", !.stdin = 0]
    /\ UNCHANGED Others

-----------------------------------------------------------------------------
\* The speak coroutine: the generators and the pacer.

World == <<kind, source, current, carry, starved, streams>>

\* A bug: one frame more than the burst leaves at once.
SentOneMore ==
    LET due == IF pacer.sent = Burst THEN 1 ELSE pacer.due + 1 IN
    [sent |-> pacer.sent + 1, due |-> IF pacer.sent + 1 <= Burst THEN 0 ELSE due]

\* pace_opus_stream after a send: the deadline starts with the last frame of the
\* burst and moves by one frame with each, late or not.
SentFrame ==
    LET due == IF pacer.sent + 1 = Burst THEN 1 ELSE pacer.due + 1 IN
    [sent |-> pacer.sent + 1, due |-> IF pacer.sent + 1 < Burst THEN 0 ELSE due]

Enough == kind = "music" /\ pacer.sent >= ClipFrames

\* A frame is yielded to the pacer, which sends it, or returns when the generation
\* has changed and leaves the generators as they are.
Reads ==
    /\ pump.pc = "read" /\ ~Enough /\ ffmpeg.stdout > 0
    /\ ffmpeg' = [ffmpeg EXCEPT !.stdout = @ - 1]
    /\ IF current
       THEN /\ pacer' = SentFrame /\ robot' = robot + 1
            /\ pump' = [pump EXCEPT !.pc = IF SentFrame.due > 0 THEN "sleep" ELSE "read"]
       ELSE pump' = [pc |-> "lost", how |-> "stopped"] /\ UNCHANGED <<pacer, robot>>
    /\ UNCHANGED <<feeder, World>>

Wakes ==
    /\ pump.pc = "sleep" /\ pacer.due <= 0
    /\ pump' = [pump EXCEPT !.pc = "read"]
    /\ UNCHANGED <<feeder, ffmpeg, pacer, robot, World>>

\* The generators are done.
StreamOver(how) ==
    /\ pump' = [pc |-> "idle", how |-> how]
    /\ pacer' = [sent |-> 0, due |-> 0]

\* A bug: the process is waited for, not killed.
KillForgotten(how) ==
    IF Up THEN pump' = [pc |-> "kill", how |-> how] /\ UNCHANGED <<ffmpeg, pacer>>
    ELSE StreamOver(how) /\ UNCHANGED ffmpeg

\* What is left of ffmpeg is killed and waited for.
Kill(how) ==
    IF Up
    THEN /\ ffmpeg' = [ffmpeg EXCEPT !.state = "killed", !.stdin = 0]
         /\ pump' = [pc |-> "kill", how |-> how] /\ UNCHANGED pacer
    ELSE StreamOver(how) /\ UNCHANGED ffmpeg

\* The finally block: the feeder is cancelled, and for a clip waited for.
Finally(how) ==
    /\ feeder' = [feeder EXCEPT !.cancel = Feeding]
    /\ IF kind = "speech" THEN Kill(how)
       ELSE pump' = [pc |-> "last", how |-> how] /\ UNCHANGED <<ffmpeg, pacer>>
    /\ UNCHANGED <<robot, World>>

\* A read that finds the end of the output, or nothing for timeout_s: a CodecError
\* ("alert"), a TtsError likewise; what is neither leaves _speak ("raise").
ReadEnds ==
    /\ pump.pc = "read"
    /\ \/ Enough /\ Finally("ok")
       \/ /\ ~Enough /\ ffmpeg.stdout = 0 /\ Up
          /\ Finally(IF kind = "speech" THEN "raise" ELSE "alert")
       \/ /\ ~Enough /\ ffmpeg.stdout = 0 /\ ~Up
          /\ IF kind = "speech"
             THEN pump' = [pump EXCEPT !.pc = "feeder"]
                  /\ UNCHANGED <<feeder, ffmpeg, pacer, robot, World>>
             ELSE Finally(IF pacer.sent = 0 THEN "alert" ELSE "ok")

\* await feeder, and the exit code.
FeederAwaited ==
    /\ pump.pc = "feeder" /\ ~Feeding
    /\ Finally(CASE feeder.pc = "tts_error" -> "alert"
                 [] feeder.pc = "broken" -> "raise"
                 [] OTHER -> IF ffmpeg.state = "exited" THEN "ok" ELSE "alert")

LastAwaited ==
    /\ pump.pc = "last" /\ ~Feeding
    /\ Kill(pump.how)
    /\ UNCHANGED <<feeder, robot, World>>

Reaped ==
    /\ pump.pc = "kill" /\ ~Up
    /\ StreamOver(pump.how)
    /\ UNCHANGED <<feeder, ffmpeg, robot, World>>

\* The turn is cancelled: a barge-in, a timeout, close().  The finally block of a
\* clip, which waits for its feeder, takes the CancelledError for the feeder's.
Cancels ==
    \/ pump.pc \in {"read", "feeder"} /\ Finally("cancelled")
    \/ /\ pump.pc = "sleep"
       /\ pump' = [pc |-> "lost", how |-> "cancelled"]
       /\ UNCHANGED <<feeder, ffmpeg, pacer, robot, World>>
    \/ /\ pump.pc = "kill"
       /\ StreamOver("cancelled") /\ UNCHANGED <<feeder, ffmpeg, robot, World>>

\* asyncio closes the generators that were left.
Collected == pump.pc = "lost" /\ Finally(pump.how)

GenerationChanges ==
    /\ current /\ pump.pc # "idle" /\ current' = FALSE
    /\ UNCHANGED <<kind, source, feeder, ffmpeg, pump, pacer, robot, carry, starved, streams>>

\* The robot plays a frame, or has none to play.
Plays ==
    LET timed == pacer.sent >= Burst IN
    /\ robot > 0 \/ timed
    /\ timed => pacer.due > -MaxLate
    /\ robot' = IF robot > 0 THEN robot - 1 ELSE 0
    /\ starved' = IF timed /\ robot = 0 THEN starved + 1 ELSE starved
    /\ pacer' = IF timed THEN [pacer EXCEPT !.due = @ - 1] ELSE pacer
    /\ UNCHANGED <<kind, source, feeder, ffmpeg, pump, current, carry, streams>>

-----------------------------------------------------------------------------
FeederStep == Yields \/ Drained \/ VoiceFails \/ FeederOver
PumpStep == Reads \/ Wakes \/ ReadEnds \/ FeederAwaited \/ LastAwaited \/ Reaped \/ Collected

StreamNext ==
    \/ StreamBegins \/ Yields \/ Drained \/ VoiceFails \/ FeederOver \/ Decodes \/ FfmpegExits
    \/ Reads \/ Wakes \/ ReadEnds \/ FeederAwaited \/ LastAwaited \/ Reaped \/ Cancels \/ Collected
    \/ GenerationChanges \/ Plays

\* Tasks that can go on are run, and their timeouts fire; time passes; the event loop
\* closes what was abandoned.  ffmpeg may hang.
StreamSpec ==
    /\ StreamInit /\ [][StreamNext]_streamVars
    /\ WF_streamVars(FeederStep) /\ WF_streamVars(PumpStep) /\ WF_streamVars(Plays)

-----------------------------------------------------------------------------
\* pace_opus_stream does not keep what README.md and its own docstring promise, that
\* the decode queue does not overflow: the frames that are late leave in a burst.  But
\* it overflows only so: when the source has left the robot without a frame for longer,
\* in this stream and in what the one before left in the queue, than the queue is larger
\* than the burst.  A source that keeps up, however it jitters, never fills it.
OverflowsAfterStall == robot > DecodeFrames => carry + starved > DecodeFrames - Burst

\* Every stream ends, and leaves neither ffmpeg nor a feeder behind: the voice may
\* fail, ffmpeg hang or crash with full pipes, the turn be cancelled at any await,
\* the generators be abandoned.
StreamsEnd ==
    (pump.pc # "idle") ~> (pump.pc = "idle" /\ ~Up /\ ~Feeding)
============================================================================
