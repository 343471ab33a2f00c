-------------------------------- MODULE Uplink --------------------------------
(***************************************************************************)
(* What the robot hears on its way to Gemini: SpeechGate.process of        *)
(* app/audio/speech_gate.py, _on_binary, _forward_chunk, _begin_brain,     *)
(* _flush_pcm_hold and _await_brain_ready of app/sessions/session.py.      *)
(*                                                                         *)
(* A frame is its number; whether it is speech is the scorer's choice.     *)
(* The device's receive loop forwards what the gate lets through; while    *)
(* the Live session opens it is held, and flushed by the task that opened  *)
(* it or by whoever ends the utterance.  LiveBrain.tla has the socket,     *)
(* DeviceSession.tla the turns.                                            *)
(***************************************************************************)
EXTENDS Integers, Sequences

CONSTANTS
    MaxFrames,   \* bound: frames heard
    MaxListens,  \* bound: listen/start
    MinSpeech,   \* min_speech_ms, in frames
    MinSilence,  \* min_silence_ms, in frames
    Preroll,     \* preroll_chunks
    HoldMax,     \* _UPLINK_HOLD_FRAMES
    Cap          \* max_forwarded_audio_seconds, in frames

ASSUME UplinkAssumption ==
    Preroll \in Nat /\ HoldMax \in Nat /\ MinSpeech \in Nat /\ MinSilence \in Nat /\ Cap \in Nat

VARIABLES
    frames,   \* frames heard so far
    listen,   \* the state of the session, the first frame of the listen, listens so far
    gate,     \* the SpeechGate
    reader,   \* the receive loop: where it is, and the chunks it has still to forward
    hold,     \* _pcm_hold
    opener,   \* _begin_task
    ender,    \* who is in _stop_listen
    ready,    \* _brain_ready
    fwd,      \* _forwarded_seconds
    uttered,  \* what Gemini was sent of this utterance, and whether it listens
    odd       \* history: why what is sent may be out of order or come late

upVars == <<frames, listen, gate, reader, hold, opener, ender, ready, fwd, uttered, odd>>

Shut == [open |-> FALSE, speech |-> 0, silence |-> 0, preroll |-> <<>>, ever |-> FALSE]
Deaf == [sent |-> <<>>, streaming |-> FALSE]

UpInit ==
    /\ frames = 0
    /\ listen = [state |-> "ready", first |-> 1, count |-> 0, capped |-> FALSE]
    /\ gate = Shut /\ reader = [pc |-> "idle", out |-> <<>>]
    /\ hold = <<>> /\ opener = "none" /\ ender = "none" /\ ready = FALSE
    /\ fwd = 0 /\ uttered = Deaf /\ odd = {}

-----------------------------------------------------------------------------
\* The last n of s: a deque with maxlen n.
Last(s, n) == IF Len(s) <= n THEN s ELSE SubSeq(s, Len(s) - n + 1, Len(s))

\* process: [gate, out, expired] for the frame n
Gated(g, n, speech) ==
    LET pre == [g EXCEPT !.preroll = Last(Append(@, n), Preroll)]
        shut == [g EXCEPT !.open = FALSE, !.speech = 0, !.silence = 0, !.preroll = Last(<<n>>, Preroll)]
        Lets(h, out) == [gate |-> h, out |-> out, expired |-> FALSE]
    IN  CASE ~g.open /\ speech /\ g.speech + 1 >= MinSpeech ->
                Lets([Shut EXCEPT !.open = TRUE, !.ever = TRUE], IF Preroll > 0 THEN pre.preroll ELSE <<n>>)
          [] ~g.open /\ speech /\ g.speech + 1 < MinSpeech ->
                Lets([pre EXCEPT !.speech = @ + 1], <<>>)
          [] ~g.open /\ ~speech -> Lets([pre EXCEPT !.speech = 0], <<>>)
          [] g.open /\ speech -> Lets([g EXCEPT !.silence = 0], <<n>>)
          [] g.open /\ ~speech /\ g.silence + 1 < MinSilence ->
                Lets([g EXCEPT !.silence = @ + 1], <<n>>)
          [] g.open /\ ~speech /\ g.silence + 1 >= MinSilence ->
                [gate |-> shut, out |-> <<>>, expired |-> TRUE]

\* push_pcm of the frame n, up to the send
SentOn(n) == [uttered EXCEPT !.sent = IF uttered.streaming THEN Append(@, n) ELSE @]

Listening == listen.state = "listening"

-----------------------------------------------------------------------------
\* _end_utterance_now and _stop_listen by who, up to _await_brain_ready: wait for
\* the task that opens the session, or flush what is held.
Ending(who) == IF Listening /\ ender = "none" THEN who ELSE ender

\* The receive loop forwards out, of which it is to push the first now: it is held
\* when the session is not open, and the cap ends the utterance.
Forwards(out) ==
    CASE out = <<>> ->
            /\ reader' = [pc |-> "idle", out |-> <<>>]
            /\ UNCHANGED <<hold, uttered, ender, listen, odd>>
      [] out # <<>> /\ fwd' >= Cap ->
            /\ reader' = [pc |-> "idle", out |-> <<>>]
            /\ listen' = [listen EXCEPT !.capped = TRUE]
            /\ ender' = Ending("reader")
            /\ UNCHANGED <<hold, uttered, odd>>
      [] out # <<>> /\ fwd' < Cap /\ ready ->
            /\ reader' = [pc |-> "push", out |-> out]
            /\ uttered' = SentOn(Head(out))
            /\ odd' = IF hold # <<>> THEN odd \cup {"overtaken"} ELSE odd
            /\ UNCHANGED <<hold, ender, listen>>
      [] out # <<>> /\ fwd' < Cap /\ ~ready ->
            /\ reader' = [pc |-> "idle", out |-> <<>>]
            /\ hold' = Last(hold \o out, HoldMax)
            /\ UNCHANGED <<uttered, ender, listen, odd>>

\* _on_binary
Hears ==
    /\ reader.pc = "idle" /\ ender # "reader" /\ frames < MaxFrames
    /\ frames' = frames + 1
    /\ IF ~Listening \/ listen.capped
       THEN UNCHANGED <<listen, gate, reader, hold, ender, fwd, uttered, odd>>
       ELSE \E speech \in BOOLEAN :
                LET g == Gated(gate, frames + 1, speech)
                IN  /\ gate' = g.gate
                    /\ fwd' = fwd
                    /\ IF g.expired
                       THEN ender' = Ending("reader") /\ UNCHANGED <<listen, reader, hold, uttered, odd>>
                       ELSE Forwards(g.out)
    /\ UNCHANGED <<opener, ready>>

\* The push is over: the next chunk.
Pushed ==
    /\ reader.pc = "push"
    /\ fwd' = fwd + 1
    /\ Forwards(Tail(reader.out))
    /\ UNCHANGED <<frames, gate, opener, ready>>

\* A bug: what was held for the turn before stays.
KeepHold(h) == h

\* What _cancel_turn and _start_listen leave of the hold
Forgotten(h) == <<>>

\* listen/start: the turn, and the task that opens its session, are cancelled.
StartListen ==
    /\ reader.pc = "idle" /\ ender # "reader" /\ listen.count < MaxListens
    /\ listen' = [state |-> "listening", first |-> frames + 1, count |-> listen.count + 1,
                  capped |-> FALSE]
    /\ gate' = Shut /\ hold' = Forgotten(hold) /\ ready' = FALSE /\ fwd' = 0
    /\ opener' = "opening" /\ uttered' = Deaf /\ odd' = {}
    /\ UNCHANGED <<frames, reader, ender>>

-----------------------------------------------------------------------------
\* begin_utterance returns, whether it has connected or not: _begin_brain flushes.
BrainReady ==
    /\ opener = "opening"
    /\ ready' = TRUE
    /\ \E ok \in BOOLEAN :
        LET u == [uttered EXCEPT !.streaming = ok]
        IN  IF hold = <<>> THEN opener' = "none" /\ uttered' = u /\ UNCHANGED hold
            ELSE /\ opener' = "flushing" /\ hold' = Tail(hold)
                 /\ uttered' = IF ok THEN [u EXCEPT !.sent = Append(@, Head(hold))] ELSE u
    /\ UNCHANGED <<frames, listen, gate, reader, ender, fwd, odd>>

\* _flush_pcm_hold after a chunk: the next one, or the rest is dropped at the cap.
FlushGoes ==
    /\ opener = "flushing"
    /\ fwd' = fwd + 1
    /\ IF hold = <<>> \/ fwd' >= Cap
       THEN /\ opener' = "none" /\ hold' = <<>> /\ UNCHANGED uttered
            /\ listen' = [listen EXCEPT !.capped = @ \/ hold # <<>>]
       ELSE /\ hold' = Tail(hold) /\ uttered' = SentOn(Head(hold))
            /\ UNCHANGED <<opener, listen>>
    /\ UNCHANGED <<frames, gate, reader, ender, ready, odd>>

-----------------------------------------------------------------------------
\* listen/stop, or the silence the watch has seen
StopListen ==
    /\ Listening /\ ender = "none"
    /\ \/ ender' = "watch"
       \/ reader.pc = "idle" /\ ender' = "reader"
    /\ UNCHANGED <<frames, listen, gate, reader, hold, opener, ready, fwd, uttered, odd>>

\* A bug: nobody waits for the session to open.
OpenedEnough == TRUE

\* What _await_brain_ready waits for
OpenerOver == opener = "none"

\* _await_brain_ready is over, after 8 s at the latest, and the turn begins.  (It may
\* also flush or open the session itself; listen/start leaves it nothing to do.)
Thinks ==
    /\ ender # "none"
    /\ \/ OpenerOver /\ UNCHANGED odd
       \/ odd' = odd \cup {"late"}
    /\ ender' = "none"
    /\ listen' = [listen EXCEPT !.state = IF Listening THEN "thinking" ELSE @]
    /\ UNCHANGED <<frames, gate, reader, hold, opener, ready, fwd, uttered>>

\* end_utterance: Gemini is told that the owner has finished.
EndSpeech ==
    /\ listen.state = "thinking"
    /\ listen' = [listen EXCEPT !.state = "answering"]
    /\ uttered' = [uttered EXCEPT !.streaming = FALSE]
    /\ UNCHANGED <<frames, gate, reader, hold, opener, ender, ready, fwd, odd>>

UpNext ==
    \/ Hears \/ Pushed \/ StartListen \/ BrainReady \/ FlushGoes
    \/ StopListen \/ Thinks \/ EndSpeech

UpSpec == UpInit /\ [][UpNext]_upVars

-----------------------------------------------------------------------------
UpTypeOK ==
    /\ frames \in 0..MaxFrames /\ fwd \in 0..(Cap + 2)
    /\ listen.state \in {"ready", "listening", "thinking", "answering"}
    /\ reader.pc \in {"idle", "push"} /\ ender \in {"none", "reader", "watch"}
    /\ opener \in {"none", "opening", "flushing"}
    /\ Len(hold) <= HoldMax /\ Len(gate.preroll) <= Preroll

\* What Gemini is sent is of this listen, each chunk once, and in the order it was
\* spoken: across the preroll, the hold, the two that flush it and the receive loop,
\* unless the receive loop has pushed while something was still held.
SentAsSpoken ==
    LET s == uttered.sent
    IN  /\ \A i \in 1..Len(s) : s[i] >= listen.first
        /\ \A i, j \in 1..Len(s) : i < j =>
                s[i] # s[j] /\ ("overtaken" \in odd \/ s[i] < s[j])

\* What was held while the session opened is flushed before the utterance ends
\* (_await_brain_ready), unless it took longer than that waits.
HeldIsFlushed == listen.state = "answering" /\ "late" \notin odd => hold = <<>>

=============================================================================
