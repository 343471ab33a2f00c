---------------------------- MODULE Audio_proofs ----------------------------
(***************************************************************************)
(* Audio both ways, for any burst, pipe, preroll and hold: what is sent to *)
(* the robot fits its queue, and what the robot hears reaches Gemini as it *)
(* was spoken.                                                             *)
(***************************************************************************)
EXTENDS AudioStream, Uplink, TLAPS

(* AudioStream: the pacer's deadline, and what the robot has in its queue. *)

PaceTypeOK ==
    /\ pacer \in [sent : Nat, due : Int] /\ robot \in Nat /\ carry \in Nat /\ starved \in Nat
    /\ pump \in [pc : {"idle", "read", "sleep", "feeder", "last", "kill", "lost"},
                 how : {"ok", "stopped", "raise", "alert", "cancelled"}]

\* No frame leaves before the one ahead of it is due: once the deadline runs, the robot
\* holds the frames it is behind time, those of the burst and what the source owes it.
PaceInv ==
    /\ PaceTypeOK
    /\ pump.pc = "idle" => pacer.sent = 0 /\ pacer.due = 0
    /\ pump.pc = "read" => pacer.due <= 0
    /\ pacer.due <= 1 /\ (pacer.sent < Burst => pacer.due = 0)
    /\ pump.pc # "idle" /\ pacer.sent < Burst => robot <= carry + pacer.sent
    /\ pacer.sent >= Burst => robot <= carry + Burst + starved + pacer.due - 1
    /\ robot <= carry + Burst + starved

LEMMA StreamOverPaces ==
  ASSUME PaceInv, NEW how \in {"ok", "stopped", "raise", "alert", "cancelled"}, StreamOver(how),
         UNCHANGED <<robot, carry, starved>>
  PROVE  PaceInv'
  BY StreamAssumption DEF StreamOver, PaceInv, PaceTypeOK

\* The generators stop reading; the pacer sends no more.
LEMMA StopsReading ==
  ASSUME PaceInv, pump' \in [pc : {"sleep", "feeder", "last", "kill", "lost"},
                             how : {"ok", "stopped", "raise", "alert", "cancelled"}],
         pump.pc # "idle", UNCHANGED <<pacer, robot, carry, starved>>
  PROVE  PaceInv'
  BY DEF PaceInv, PaceTypeOK

LEMMA FinallyPaces ==
  ASSUME PaceInv, NEW how \in {"ok", "stopped", "raise", "alert", "cancelled"}, pump.pc # "idle",
         Finally(how) \/ (Kill(how) /\ UNCHANGED <<robot, carry, starved>>)
  PROVE  PaceInv'
<1>1. UNCHANGED <<robot, carry, starved>>
  BY DEF Finally, World
<1>2. CASE StreamOver(how)
  BY <1>1, <1>2, StreamOverPaces
<1>3. CASE /\ pump' \in {[pc |-> "kill", how |-> how], [pc |-> "last", how |-> how]}
           /\ UNCHANGED pacer
  BY <1>1, <1>3, StopsReading
<1> QED BY <1>2, <1>3 DEF Finally, Kill

LEMMA ReadsPaces == ASSUME PaceInv, Reads PROVE PaceInv'
<1>1. CASE ~current
  <2>1. pump' = [pc |-> "lost", how |-> "stopped"] /\ UNCHANGED <<pacer, robot, carry, starved>>
    BY <1>1 DEF Reads, World
  <2> QED BY <2>1, StopsReading DEF Reads
<1>2. CASE current
  <2> DEFINE due == IF pacer.sent + 1 = Burst THEN 1 ELSE pacer.due + 1
  <2>1. /\ pacer'.sent = pacer.sent + 1 /\ pacer'.due = (IF pacer.sent + 1 < Burst THEN 0 ELSE due)
        /\ pacer' \in [sent : Nat, due : Int]
        /\ robot' = robot + 1 /\ UNCHANGED <<carry, starved>> /\ pump.pc = "read"
    BY <1>2 DEF Reads, SentFrame, World, PaceInv, PaceTypeOK
  <2>2. pump' = [pump EXCEPT !.pc = IF pacer'.due > 0 THEN "sleep" ELSE "read"]
    BY <1>2 DEF Reads
  <2>3. PaceTypeOK'
    BY <2>1, <2>2 DEF PaceInv, PaceTypeOK
  <2>4. /\ pump'.pc = (IF pacer'.due > 0 THEN "sleep" ELSE "read")
    BY <2>2 DEF PaceInv, PaceTypeOK
  <2> QED BY <2>1, <2>3, <2>4, StreamAssumption DEF PaceInv, PaceTypeOK
<1> QED BY <1>1, <1>2

LEMMA PlaysPaces == ASSUME PaceInv, Plays PROVE PaceInv'
<1>1. pump' = pump /\ carry' = carry
  BY DEF Plays
<1>2. CASE pacer.sent >= Burst
  <2>1. /\ pacer' = [pacer EXCEPT !.due = pacer.due - 1]
        /\ robot' = (IF robot > 0 THEN robot - 1 ELSE 0)
        /\ starved' = (IF robot = 0 THEN starved + 1 ELSE starved)
    BY <1>2 DEF Plays
  <2>2. pacer'.sent = pacer.sent /\ pacer'.due = pacer.due - 1 /\ PaceTypeOK'
    BY <1>1, <2>1 DEF PaceInv, PaceTypeOK
  <2> QED BY <1>1, <1>2, <2>1, <2>2, StreamAssumption DEF PaceInv, PaceTypeOK
<1>3. CASE pacer.sent < Burst
  BY <1>1, <1>3, StreamAssumption DEF Plays, PaceInv, PaceTypeOK
<1> QED BY <1>2, <1>3, StreamAssumption DEF PaceInv, PaceTypeOK

LEMMA PaceStep == PaceInv /\ [StreamNext]_streamVars => PaceInv'
<1> SUFFICES ASSUME PaceInv, [StreamNext]_streamVars PROVE PaceInv'
  OBVIOUS
<1>1. CASE StreamBegins
  BY <1>1, StreamAssumption DEF StreamBegins, PaceInv, PaceTypeOK
<1>2. CASE Yields \/ Drained \/ VoiceFails \/ FeederOver \/ Decodes \/ FfmpegExits \/ GenerationChanges
  <2>1. UNCHANGED <<pump, pacer, robot, carry, starved>>
    BY <1>2 DEF Yields, Drained, VoiceFails, FeederOver, FeederEnds, Decodes, FfmpegExits, GenerationChanges,
       Outside, Others
  <2> QED BY <2>1 DEF PaceInv, PaceTypeOK
<1>3. CASE Wakes
  BY <1>3 DEF Wakes, World, PaceInv, PaceTypeOK
<1>4. CASE ReadEnds
  <2>1. CASE pump' = [pump EXCEPT !.pc = "feeder"] /\ UNCHANGED <<feeder, ffmpeg, pacer, robot, World>>
    <3>1. pump' \in [pc : {"feeder"}, how : {"ok", "stopped", "raise", "alert", "cancelled"}]
      BY <2>1 DEF PaceInv, PaceTypeOK
    <3> QED BY <1>4, <2>1, <3>1, StopsReading DEF ReadEnds, World
  <2>2. CASE \E how \in {"ok", "raise", "alert"} : Finally(how)
    BY <1>4, <2>2, FinallyPaces DEF ReadEnds
  <2> QED BY <1>4, <2>1, <2>2 DEF ReadEnds
<1>5. CASE FeederAwaited
  <2>1. \E how \in {"ok", "raise", "alert"} : Finally(how)
    BY <1>5 DEF FeederAwaited
  <2> QED BY <1>5, <2>1, FinallyPaces DEF FeederAwaited
<1>6. CASE LastAwaited
  <2>1. Kill(pump.how) /\ pump.how \in {"ok", "stopped", "raise", "alert", "cancelled"}
        /\ UNCHANGED <<robot, carry, starved>> /\ pump.pc # "idle"
    BY <1>6 DEF LastAwaited, World, PaceInv, PaceTypeOK
  <2> QED BY <2>1, FinallyPaces
<1>7. CASE Reaped
  BY <1>7, StreamOverPaces DEF Reaped, World, PaceInv, PaceTypeOK
<1>8. CASE Cancels
  <2>1. CASE pump.pc \in {"read", "feeder"} /\ Finally("cancelled")
    BY <2>1, FinallyPaces
  <2>2. CASE /\ pump.pc = "sleep" /\ pump' = [pc |-> "lost", how |-> "cancelled"]
             /\ UNCHANGED <<pacer, robot, World>>
    BY <2>2, StopsReading DEF World
  <2>3. CASE StreamOver("cancelled") /\ UNCHANGED <<robot, World>>
    BY <2>3, StreamOverPaces DEF World
  <2> QED BY <1>8, <2>1, <2>2, <2>3 DEF Cancels
<1>9. CASE Collected
  BY <1>9, FinallyPaces DEF Collected, PaceInv, PaceTypeOK
<1>10. CASE UNCHANGED streamVars
  BY <1>10 DEF streamVars, PaceInv, PaceTypeOK
<1> QED BY <1>1, <1>2, <1>3, <1>4, <1>5, <1>6, <1>7, <1>8, <1>9, <1>10, ReadsPaces, PlaysPaces DEF StreamNext

\* Whatever the source, ffmpeg and cancellation do to a sentence or a clip, and whatever the
\* burst and the queue are, the robot's queue overflows only after the source has stalled for
\* longer than the queue less the burst, counting what the stream before left in it.
THEOREM OnlyAStallOverflows == StreamSpec => []OverflowsAfterStall
<1>1. StreamInit => PaceInv
  BY StreamAssumption DEF StreamInit, PaceInv, PaceTypeOK
<1>2. PaceInv => OverflowsAfterStall
  BY StreamAssumption DEF PaceInv, PaceTypeOK, OverflowsAfterStall
<1> QED BY <1>1, <1>2, PaceStep, PTL DEF StreamSpec

-----------------------------------------------------------------------------
(* Uplink: the chunks between the microphone and Gemini. *)

Members(s) == {s[i] : i \in 1..Len(s)}

Rising(s) == \A i, j \in 1..Len(s) : i < j => s[i] < s[j]

Distinct(s) == \A i, j \in 1..Len(s) : i < j => s[i] # s[j]

\* Every chunk of s was spoken before every chunk of t.
Before(s, t) == \A a \in Members(s), b \in Members(t) : a < b

Apart(s, t) == \A a \in Members(s), b \in Members(t) : a # b

Spoken(s, first, last) == \A a \in Members(s) : first <= a /\ a <= last

\* What the receive loop has still to forward: the first of out is with push_pcm.
Pending == IF reader.pc = "push" THEN Tail(reader.out) ELSE <<>>

Gate == [open : BOOLEAN, speech : Nat, silence : Nat, preroll : Seq(Nat), ever : BOOLEAN]

UplinkTypeOK ==
    /\ frames \in Nat /\ fwd \in Nat
    /\ listen \in [state : {"ready", "listening", "thinking", "answering"}, first : Nat, count : Nat,
                   capped : BOOLEAN]
    /\ gate \in Gate
    /\ reader \in [pc : {"idle", "push"}, out : Seq(Nat)]
    /\ reader.pc = "push" => reader.out # <<>>
    /\ hold \in Seq(Nat) /\ opener \in {"none", "opening", "flushing"} /\ ready \in BOOLEAN
    /\ uttered \in [sent : Seq(Nat), streaming : BOOLEAN]

\* Chunks first to last go from the gate (kept) through the receive loop (out) and the
\* hold to Gemini in the order they were spoken, and no chunk is in two of these places.
Chain(first, last, sent, held, out, kept) ==
    /\ Spoken(sent, first, last) /\ Spoken(held, first, last)
    /\ Spoken(out, first, last) /\ Spoken(kept, first, last)
    /\ Rising(kept) /\ Rising(out) /\ Rising(held) /\ Distinct(sent)
    /\ Before(out, kept) /\ Before(held, kept) /\ Before(sent, kept)
    /\ Before(held, out) /\ Apart(sent, out) /\ Apart(sent, held)

\* ... and nothing has overtaken what was held.
InTurn(sent, held, out) == Rising(sent) /\ Before(sent, held) /\ Before(sent, out)

InOrder ==
    /\ Chain(listen.first, frames, uttered.sent, hold, Pending, gate.preroll)
    /\ "overtaken" \notin odd => InTurn(uttered.sent, hold, Pending)
    /\ gate.open => gate.preroll = <<>>

\* Nothing is held but while the session opens or what was held is flushed.
HoldInv ==
    /\ listen.first <= frames + 1
    /\ reader.pc = "push" => ready
    /\ ~ready => opener = "opening" \/ listen.state = "ready"
    /\ (opener = "opening" => ~ready) /\ (opener = "flushing" => ready)
    /\ opener = "none" => hold = <<>>
    /\ listen.state \in {"thinking", "answering"} /\ "late" \notin odd => opener = "none"

UpInv == UplinkTypeOK /\ InOrder /\ HoldInv

-----------------------------------------------------------------------------
(* Sequences of chunks. *)

LEMMA ChunksAreNumbers == \A s \in Seq(Nat) : Members(s) \subseteq Nat
  BY DEF Members

LEMMA EmptySeq == <<>> \in Seq(Nat) /\ Members(<<>>) = {} /\ Rising(<<>>) /\ Distinct(<<>>)
  BY DEF Members, Rising, Distinct

LEMMA OneChunk ==
  ASSUME NEW n \in Nat
  PROVE  <<n>> \in Seq(Nat) /\ Members(<<n>>) = {n} /\ Rising(<<n>>) /\ Distinct(<<n>>)
<1>1. <<n>> \in Seq(Nat) /\ Len(<<n>>) = 1 /\ <<n>>[1] = n
  OBVIOUS
<1>2. \A i : i \in 1..1 <=> i = 1
  OBVIOUS
<1> QED BY <1>1, <1>2 DEF Members, Rising, Distinct

LEMMA HeadAndTail ==
  ASSUME NEW s \in Seq(Nat), s # <<>>
  PROVE  /\ Head(s) \in Members(s) /\ Head(s) \in Nat /\ Tail(s) \in Seq(Nat)
         /\ Members(Tail(s)) \subseteq Members(s)
         /\ Rising(s) => Rising(Tail(s)) /\ \A a \in Members(Tail(s)) : Head(s) < a
<1>1. /\ Len(s) \in Nat /\ Len(s) > 0 /\ Head(s) = s[1] /\ Tail(s) \in Seq(Nat)
      /\ Len(Tail(s)) = Len(s) - 1 /\ Head(s) \in Nat
      /\ \A i \in 1..(Len(s) - 1) : Tail(s)[i] = s[i + 1] /\ i + 1 \in 1..Len(s)
  OBVIOUS
<1>2. 1 \in 1..Len(s)
  BY <1>1
<1>3. Head(s) \in Members(s) /\ Members(Tail(s)) \subseteq Members(s)
  BY <1>1, <1>2 DEF Members
<1>4. ASSUME Rising(s) PROVE Rising(Tail(s)) /\ \A a \in Members(Tail(s)) : Head(s) < a
  <2>1. Rising(Tail(s))
    BY <1>1, <1>4 DEF Rising
  <2>2. \A i \in 1..(Len(s) - 1) : s[1] < s[i + 1]
    BY <1>1, <1>2, <1>4 DEF Rising
  <2> QED BY <1>1, <2>1, <2>2 DEF Members
<1> QED BY <1>1, <1>3, <1>4

LEMMA AppendChunk ==
  ASSUME NEW s \in Seq(Nat), NEW n \in Nat
  PROVE  /\ Append(s, n) \in Seq(Nat) /\ Members(Append(s, n)) = Members(s) \cup {n}
         /\ Rising(s) /\ (\A a \in Members(s) : a < n) => Rising(Append(s, n))
         /\ Distinct(s) /\ n \notin Members(s) => Distinct(Append(s, n))
<1> DEFINE t == Append(s, n)
<1>1. /\ t \in Seq(Nat) /\ Len(s) \in Nat /\ Len(t) = Len(s) + 1 /\ t[Len(s) + 1] = n
      /\ \A i \in 1..Len(s) : t[i] = s[i]
  OBVIOUS
<1> HIDE DEF t
<1>2. \A i : i \in 1..Len(t) <=> i \in 1..Len(s) \/ i = Len(s) + 1
  BY <1>1
<1>3. Members(t) = Members(s) \cup {n}
  BY <1>1, <1>2 DEF Members
<1>4. Rising(s) /\ (\A a \in Members(s) : a < n) => Rising(t)
  <2> SUFFICES ASSUME Rising(s), \A a \in Members(s) : a < n,
                      NEW i \in 1..Len(t), NEW j \in 1..Len(t), i < j
               PROVE  t[i] < t[j]
    BY DEF Rising
  <2>1. i \in 1..Len(s) /\ t[i] = s[i] /\ s[i] \in Members(s)
    BY <1>1 DEF Members
  <2> QED BY <1>1, <1>2, <2>1 DEF Rising
<1>5. Distinct(s) /\ n \notin Members(s) => Distinct(t)
  <2> SUFFICES ASSUME Distinct(s), n \notin Members(s),
                      NEW i \in 1..Len(t), NEW j \in 1..Len(t), i < j
               PROVE  t[i] # t[j]
    BY DEF Distinct
  <2>1. i \in 1..Len(s) /\ t[i] = s[i] /\ s[i] \in Members(s)
    BY <1>1 DEF Members
  <2> QED BY <1>1, <1>2, <2>1 DEF Distinct
<1> QED BY <1>1, <1>3, <1>4, <1>5 DEF t

LEMMA JoinedChunks ==
  ASSUME NEW s \in Seq(Nat), NEW t \in Seq(Nat)
  PROVE  /\ s \o t \in Seq(Nat) /\ Members(s \o t) = Members(s) \cup Members(t)
         /\ Rising(s) /\ Rising(t) /\ Before(s, t) => Rising(s \o t)
<1> DEFINE u == s \o t
<1>1. /\ u \in Seq(Nat) /\ Len(s) \in Nat /\ Len(t) \in Nat /\ Len(u) = Len(s) + Len(t)
      /\ \A i \in 1..Len(s) : u[i] = s[i] /\ i \in 1..Len(u)
      /\ \A i \in 1..Len(t) : u[i + Len(s)] = t[i] /\ i + Len(s) \in 1..Len(u)
  OBVIOUS
<1>2. \A i \in 1..Len(u) : \/ i \in 1..Len(s) /\ u[i] = s[i]
                           \/ i - Len(s) \in 1..Len(t) /\ u[i] = t[i - Len(s)] /\ i > Len(s)
  OBVIOUS
<1> HIDE DEF u
<1>3. Members(u) \subseteq Members(s) \cup Members(t)
  BY <1>2 DEF Members
<1>4. Members(s) \subseteq Members(u) /\ Members(t) \subseteq Members(u)
  BY <1>1 DEF Members
<1>5. ASSUME Rising(s), Rising(t), Before(s, t) PROVE Rising(u)
  <2> SUFFICES ASSUME NEW i \in 1..Len(u), NEW j \in 1..Len(u), i < j PROVE u[i] < u[j]
    BY DEF Rising
  <2>1. CASE j \in 1..Len(s) /\ u[j] = s[j]
    <3>1. i \in 1..Len(s) /\ u[i] = s[i]
      BY <1>1, <2>1
    <3> QED BY <1>5, <2>1, <3>1 DEF Rising
  <2>2. CASE j - Len(s) \in 1..Len(t) /\ u[j] = t[j - Len(s)]
    <3>1. CASE i \in 1..Len(s) /\ u[i] = s[i]
      <4>1. u[i] \in Members(s) /\ u[j] \in Members(t)
        BY <2>2, <3>1 DEF Members
      <4> QED BY <1>5, <4>1 DEF Before
    <3>2. CASE i - Len(s) \in 1..Len(t) /\ u[i] = t[i - Len(s)]
      <4>1. i - Len(s) < j - Len(s)
        BY <1>1
      <4> QED BY <1>5, <2>2, <3>2, <4>1 DEF Rising
    <3> QED BY <1>2, <3>1, <3>2
  <2> QED BY <1>2, <2>1, <2>2
<1> QED BY <1>1, <1>3, <1>4, <1>5 DEF u

LEMMA LastChunks ==
  ASSUME NEW s \in Seq(Nat), NEW n \in Nat
  PROVE  /\ Last(s, n) \in Seq(Nat) /\ Members(Last(s, n)) \subseteq Members(s)
         /\ Rising(s) => Rising(Last(s, n))
<1> DEFINE t == SubSeq(s, Len(s) - n + 1, Len(s))
<1>1. CASE Len(s) <= n
  BY <1>1 DEF Last
<1>2. CASE Len(s) > n
  <2>1. /\ t \in Seq(Nat) /\ Len(s) \in Nat /\ Len(t) = n
        /\ \A i \in 1..n : t[i] = s[i + (Len(s) - n)] /\ i + (Len(s) - n) \in 1..Len(s)
    BY <1>2
  <2>2. Last(s, n) = t
    BY <1>2 DEF Last
  <2> HIDE DEF t
  <2>3. Members(t) \subseteq Members(s)
    <3> SUFFICES ASSUME NEW i \in 1..n PROVE t[i] \in Members(s)
      BY <2>1 DEF Members
    <3> QED BY <2>1 DEF Members
  <2>4. ASSUME Rising(s) PROVE Rising(t)
    <3> SUFFICES ASSUME NEW i \in 1..n, NEW j \in 1..n, i < j PROVE t[i] < t[j]
      BY <2>1 DEF Rising
    <3>1. i + (Len(s) - n) < j + (Len(s) - n)
      BY <2>1
    <3> QED BY <2>1, <2>4, <3>1 DEF Rising
  <2> QED BY <2>1, <2>2, <2>3, <2>4
<1>3. Len(s) \in Nat
  OBVIOUS
<1> QED BY <1>1, <1>2, <1>3

-----------------------------------------------------------------------------
(* The steps. *)

LetsThrough(g, n, h, out) ==
    /\ h \in Gate /\ out \in Seq(Nat) /\ Rising(out) /\ Rising(h.preroll)
    /\ Members(out) \subseteq Members(g.preroll) \cup {n}
    /\ Members(h.preroll) \subseteq Members(g.preroll) \cup {n}
    /\ Before(out, h.preroll) /\ (h.open => h.preroll = <<>>)

\* process: what the gate lets through was spoken after all it let through before, and
\* before what it keeps.
LEMMA GateLets ==
  ASSUME NEW g \in Gate, NEW n \in Nat, NEW speech \in BOOLEAN, Rising(g.preroll),
         g.open => g.preroll = <<>>, \A a \in Members(g.preroll) : a < n
  PROVE  LetsThrough(g, n, Gated(g, n, speech).gate, Gated(g, n, speech).out)
<1> DEFINE kept == Last(Append(g.preroll, n), Preroll)
           one == Last(<<n>>, Preroll)
           pre == [g EXCEPT !.preroll = kept]
           shut == [g EXCEPT !.open = FALSE, !.speech = 0, !.silence = 0, !.preroll = one]
           r == Gated(g, n, speech)
<1>1. g.preroll \in Seq(Nat) /\ g.open \in BOOLEAN /\ g.speech \in Nat /\ g.silence \in Nat
  BY DEF Gate
<1>2. /\ kept \in Seq(Nat) /\ Rising(kept) /\ Members(kept) \subseteq Members(g.preroll) \cup {n}
  <2>1. /\ Append(g.preroll, n) \in Seq(Nat) /\ Rising(Append(g.preroll, n))
        /\ Members(Append(g.preroll, n)) = Members(g.preroll) \cup {n}
    BY <1>1, AppendChunk
  <2> QED BY <2>1, LastChunks, UplinkAssumption
<1>3. /\ one \in Seq(Nat) /\ Rising(one) /\ Members(one) \subseteq {n}
  BY OneChunk, LastChunks, UplinkAssumption
<1>4. /\ pre \in Gate /\ pre.preroll = kept /\ pre.open = g.open /\ pre.speech = g.speech
  BY <1>1, <1>2 DEF Gate
<1>5. shut \in Gate /\ shut.preroll = one /\ shut.open = FALSE
  BY <1>1, <1>3 DEF Gate
<1>6. Gated(g, n, speech) =
        CASE ~g.open /\ speech /\ g.speech + 1 >= MinSpeech ->
                [gate |-> [Shut EXCEPT !.open = TRUE, !.ever = TRUE],
                 out |-> IF Preroll > 0 THEN pre.preroll ELSE <<n>>, expired |-> FALSE]
          [] ~g.open /\ speech /\ g.speech + 1 < MinSpeech ->
                [gate |-> [pre EXCEPT !.speech = @ + 1], out |-> <<>>, expired |-> FALSE]
          [] ~g.open /\ ~speech ->
                [gate |-> [pre EXCEPT !.speech = 0], out |-> <<>>, expired |-> FALSE]
          [] g.open /\ speech ->
                [gate |-> [g EXCEPT !.silence = 0], out |-> <<n>>, expired |-> FALSE]
          [] g.open /\ ~speech /\ g.silence + 1 < MinSilence ->
                [gate |-> [g EXCEPT !.silence = @ + 1], out |-> <<n>>, expired |-> FALSE]
          [] g.open /\ ~speech /\ g.silence + 1 >= MinSilence ->
                [gate |-> shut, out |-> <<>>, expired |-> TRUE]
  BY DEF Gated
<1> HIDE DEF kept, one, pre, shut
<1>7. /\ \A s : Before(<<>>, s) /\ Before(s, <<>>)
      /\ <<>> \in Seq(Nat) /\ Members(<<>>) = {} /\ Rising(<<>>)
      /\ <<n>> \in Seq(Nat) /\ Members(<<n>>) = {n} /\ Rising(<<n>>)
  BY EmptySeq, OneChunk DEF Before
<1>8. CASE ~g.open /\ speech /\ g.speech + 1 >= MinSpeech
  <2> DEFINE out == IF Preroll > 0 THEN kept ELSE <<n>>
             opened == [Shut EXCEPT !.open = TRUE, !.ever = TRUE]
  <2>1. r = [gate |-> opened, out |-> IF Preroll > 0 THEN pre.preroll ELSE <<n>>, expired |-> FALSE]
    BY <1>1, <1>6, <1>8, UplinkAssumption
  <2>2. out \in Seq(Nat) /\ Rising(out) /\ Members(out) \subseteq Members(g.preroll) \cup {n}
    BY <1>2, <1>7
  <2>3. opened \in Gate /\ opened.preroll = <<>>
    BY <1>7 DEF Shut, Gate
  <2> HIDE DEF out, opened, r
  <2>4. LetsThrough(g, n, opened, out)
    BY <1>7, <2>2, <2>3 DEF LetsThrough
  <2>5. r.gate = opened /\ r.out = out
    BY <1>4, <2>1 DEF out
  <2> QED BY <2>4, <2>5 DEF r
<1>9. CASE ~g.open /\ (~speech \/ g.speech + 1 < MinSpeech)
  <2>1. PICK k \in Nat : r.gate = [pre EXCEPT !.speech = k] /\ r.out = <<>>
    <3>1. CASE speech /\ g.speech + 1 < MinSpeech
      <4>1. r.gate = [pre EXCEPT !.speech = g.speech + 1] /\ r.out = <<>>
        BY <1>1, <1>4, <1>6, <1>9, <3>1, UplinkAssumption
      <4>2. g.speech + 1 \in Nat
        BY <1>1
      <4> QED BY <4>1, <4>2
    <3>2. CASE ~speech
      <4>1. r.gate = [pre EXCEPT !.speech = 0] /\ r.out = <<>>
        BY <1>6, <1>9, <3>2
      <4> QED BY <4>1
    <3> QED BY <1>9, <3>1, <3>2
  <2> DEFINE h == [pre EXCEPT !.speech = k]
  <2>2. h \in Gate /\ h.preroll = kept /\ h.open = g.open
    BY <1>4 DEF Gate
  <2> HIDE DEF h, r
  <2>3. LetsThrough(g, n, h, <<>>)
    BY <1>2, <1>7, <1>9, <2>2 DEF LetsThrough
  <2> QED BY <2>1, <2>3 DEF r, h
<1>10. CASE g.open /\ (speech \/ g.silence + 1 < MinSilence)
  <2>1. PICK k \in Nat : r.gate = [g EXCEPT !.silence = k] /\ r.out = <<n>>
    <3>1. CASE speech
      <4>1. r.gate = [g EXCEPT !.silence = 0] /\ r.out = <<n>>
        BY <1>6, <1>10, <3>1
      <4> QED BY <4>1
    <3>2. CASE ~speech /\ g.silence + 1 < MinSilence
      <4>1. r.gate = [g EXCEPT !.silence = g.silence + 1] /\ r.out = <<n>>
        BY <1>1, <1>6, <1>10, <3>2, UplinkAssumption
      <4>2. g.silence + 1 \in Nat
        BY <1>1
      <4> QED BY <4>1, <4>2
    <3> QED BY <1>10, <3>1, <3>2
  <2> DEFINE h == [g EXCEPT !.silence = k]
  <2>2. h \in Gate /\ h.preroll = <<>>
    BY <1>1, <1>10 DEF Gate
  <2> HIDE DEF h, r
  <2>3. LetsThrough(g, n, h, <<n>>)
    BY <1>7, <2>2 DEF LetsThrough
  <2> QED BY <2>1, <2>3 DEF r, h
<1>11. CASE g.open /\ ~speech /\ g.silence + 1 >= MinSilence
  <2>1. r.gate = shut /\ r.out = <<>>
    BY <1>1, <1>6, <1>11, UplinkAssumption
  <2>2. LetsThrough(g, n, shut, <<>>)
    BY <1>3, <1>5, <1>7 DEF LetsThrough
  <2> HIDE DEF r
  <2> QED BY <2>1, <2>2 DEF r
<1>12. /\ g.speech + 1 >= MinSpeech \/ g.speech + 1 < MinSpeech
       /\ g.silence + 1 >= MinSilence \/ g.silence + 1 < MinSilence
  BY <1>1, UplinkAssumption
<1> QED BY <1>8, <1>9, <1>10, <1>11, <1>12

-----------------------------------------------------------------------------
(* What a step does to the chain. *)

LEMMA ChainShrinks ==
  ASSUME NEW first, NEW last, NEW sent, NEW held, NEW out, NEW kept,
         Chain(first, last, sent, held, out, kept), NEW left, NEW rest,
         Members(left) \subseteq Members(held), Rising(left),
         Members(rest) \subseteq Members(out), Rising(rest)
  PROVE  /\ Chain(first, last, sent, left, rest, kept)
         /\ InTurn(sent, held, out) => InTurn(sent, left, rest)
  BY DEF Chain, InTurn, Spoken, Before, Apart

LEMMA ChainAges ==
  ASSUME NEW first, NEW last \in Nat, NEW sent \in Seq(Nat), NEW held \in Seq(Nat),
         NEW out \in Seq(Nat), NEW kept \in Seq(Nat), Chain(first, last, sent, held, out, kept)
  PROVE  Chain(first, last + 1, sent, held, out, kept)
<1>1. Spoken(sent, first, last + 1) /\ Spoken(held, first, last + 1)
      /\ Spoken(out, first, last + 1) /\ Spoken(kept, first, last + 1)
  BY ChunksAreNumbers DEF Chain, Spoken
<1> QED BY <1>1 DEF Chain

\* push_pcm of the first of out
LEMMA ChainSends ==
  ASSUME NEW first \in Nat, NEW last \in Nat, NEW sent \in Seq(Nat), NEW held \in Seq(Nat),
         NEW out \in Seq(Nat), out # <<>>, NEW kept \in Seq(Nat),
         Chain(first, last, sent, held, out, kept)
  PROVE  /\ Chain(first, last, Append(sent, Head(out)), held, Tail(out), kept)
         /\ InTurn(sent, held, out) /\ held = <<>> =>
                InTurn(Append(sent, Head(out)), held, Tail(out))
<1> DEFINE n == Head(out)
           more == Append(sent, n)
           rest == Tail(out)
<1>1. n \in Members(out) /\ n \in Nat /\ rest \in Seq(Nat) /\ Members(rest) \subseteq Members(out)
      /\ Rising(rest) /\ \A a \in Members(rest) : n < a
  BY HeadAndTail DEF Chain
<1> HIDE DEF n, rest
<1>2. n \notin Members(sent) /\ (Before(sent, out) => \A a \in Members(sent) : a < n)
  BY <1>1 DEF Chain, Apart, Before
<1>3. /\ Members(more) = Members(sent) \cup {n} /\ Distinct(more)
      /\ Rising(sent) /\ Before(sent, out) => Rising(more)
  BY <1>1, <1>2, AppendChunk DEF Chain
<1> HIDE DEF more
<1>4. Spoken(more, first, last) /\ Spoken(rest, first, last)
  BY <1>1, <1>3 DEF Chain, Spoken
<1>5. Before(rest, kept) /\ Before(more, kept) /\ Before(held, rest)
  BY <1>1, <1>3 DEF Chain, Before
<1>6. Apart(more, rest)
  <2>1. \A a \in Members(rest) : n # a
    BY <1>1, ChunksAreNumbers
  <2> QED BY <1>1, <1>3, <2>1 DEF Chain, Apart
<1>7. Apart(more, held)
  <2>1. \A a \in Members(held) : a < n /\ n # a
    BY <1>1, ChunksAreNumbers DEF Chain, Before
  <2> QED BY <1>3, <2>1 DEF Chain, Apart
<1>8. InTurn(sent, held, out) /\ held = <<>> => InTurn(more, held, rest)
  BY <1>1, <1>3, EmptySeq DEF InTurn, Before
<1>9. Chain(first, last, more, held, rest, kept)
  BY <1>1, <1>3, <1>4, <1>5, <1>6, <1>7 DEF Chain
<1> QED BY <1>8, <1>9 DEF n, more, rest

\* _flush_pcm_hold of the first of held
LEMMA ChainFlushes ==
  ASSUME NEW first \in Nat, NEW last \in Nat, NEW sent \in Seq(Nat), NEW held \in Seq(Nat),
         held # <<>>, NEW out \in Seq(Nat), NEW kept \in Seq(Nat),
         Chain(first, last, sent, held, out, kept)
  PROVE  /\ Tail(held) \in Seq(Nat) /\ Append(sent, Head(held)) \in Seq(Nat)
         /\ Chain(first, last, Append(sent, Head(held)), Tail(held), out, kept)
         /\ InTurn(sent, held, out) => InTurn(Append(sent, Head(held)), Tail(held), out)
<1> DEFINE n == Head(held)
           more == Append(sent, n)
           rest == Tail(held)
<1>1. n \in Members(held) /\ n \in Nat /\ rest \in Seq(Nat) /\ Members(rest) \subseteq Members(held)
      /\ Rising(rest) /\ \A a \in Members(rest) : n < a
  BY HeadAndTail DEF Chain
<1> HIDE DEF n, rest
<1>2. n \notin Members(sent) /\ (Before(sent, held) => \A a \in Members(sent) : a < n)
  BY <1>1 DEF Chain, Apart, Before
<1>3. /\ more \in Seq(Nat) /\ Members(more) = Members(sent) \cup {n} /\ Distinct(more)
      /\ Rising(sent) /\ Before(sent, held) => Rising(more)
  BY <1>1, <1>2, AppendChunk DEF Chain
<1> HIDE DEF more
<1>4. Spoken(more, first, last) /\ Spoken(rest, first, last)
  BY <1>1, <1>3 DEF Chain, Spoken
<1>5. Before(rest, kept) /\ Before(more, kept) /\ Before(rest, out)
  BY <1>1, <1>3 DEF Chain, Before
<1>6. Apart(more, rest)
  <2>1. \A a \in Members(rest) : n # a
    BY <1>1, ChunksAreNumbers
  <2> QED BY <1>1, <1>3, <2>1 DEF Chain, Apart
<1>7. Apart(more, out)
  <2>1. \A a \in Members(out) : n < a /\ n # a
    BY <1>1, ChunksAreNumbers DEF Chain, Before
  <2> QED BY <1>3, <2>1 DEF Chain, Apart
<1>8. InTurn(sent, held, out) => InTurn(more, rest, out)
  BY <1>1, <1>3 DEF Chain, InTurn, Before
<1>9. Chain(first, last, more, rest, out, kept)
  BY <1>1, <1>3, <1>4, <1>5, <1>6, <1>7 DEF Chain
<1> QED BY <1>1, <1>3, <1>8, <1>9 DEF n, more, rest

\* The session is not open: out is held, and the oldest of what is held may go.
LEMMA ChainHolds ==
  ASSUME NEW first \in Nat, NEW last \in Nat, NEW sent \in Seq(Nat), NEW held \in Seq(Nat),
         NEW out \in Seq(Nat), NEW kept \in Seq(Nat), Chain(first, last, sent, held, out, kept)
  PROVE  /\ Last(held \o out, HoldMax) \in Seq(Nat)
         /\ Chain(first, last, sent, Last(held \o out, HoldMax), <<>>, kept)
         /\ InTurn(sent, held, out) => InTurn(sent, Last(held \o out, HoldMax), <<>>)
<1> DEFINE both == held \o out
           l == Last(both, HoldMax)
<1>1. both \in Seq(Nat) /\ Members(both) = Members(held) \cup Members(out) /\ Rising(both)
  BY JoinedChunks DEF Chain
<1>2. l \in Seq(Nat) /\ Members(l) \subseteq Members(held) \cup Members(out) /\ Rising(l)
  BY <1>1, LastChunks, UplinkAssumption
<1> HIDE DEF l
<1>3. Spoken(l, first, last) /\ Before(l, kept) /\ Apart(sent, l)
  BY <1>2 DEF Chain, Spoken, Before, Apart
<1>4. Chain(first, last, sent, l, <<>>, kept)
  BY <1>2, <1>3, EmptySeq DEF Chain, Spoken, Before, Apart
<1>5. InTurn(sent, held, out) => InTurn(sent, l, <<>>)
  BY <1>2, EmptySeq DEF InTurn, Before
<1> QED BY <1>2, <1>4, <1>5 DEF l

\* The gate lets out through, and keeps the preroll of h.
LEMMA ChainHears ==
  ASSUME NEW first \in Nat, NEW n \in Nat, NEW sent \in Seq(Nat), NEW held \in Seq(Nat),
         NEW g \in Gate, NEW h \in Gate, NEW out \in Seq(Nat),
         Chain(first, n, sent, held, <<>>, g.preroll), first <= n + 1,
         LetsThrough(g, n + 1, h, out)
  PROVE  /\ Chain(first, n + 1, sent, held, out, h.preroll)
         /\ InTurn(sent, held, <<>>) => InTurn(sent, held, out)
<1> DEFINE old == g.preroll
           kept == h.preroll
<1>1. old \in Seq(Nat) /\ kept \in Seq(Nat)
  BY DEF Gate
<1>2. \A s \in Seq(Nat) : Members(s) \subseteq Nat
  BY ChunksAreNumbers
<1>3. /\ Rising(out) /\ Rising(kept) /\ Before(out, kept)
      /\ Members(out) \subseteq Members(old) \cup {n + 1}
      /\ Members(kept) \subseteq Members(old) \cup {n + 1}
  BY DEF LetsThrough
<1>4. Chain(first, n, sent, held, <<>>, old)
  OBVIOUS
<1> HIDE DEF old, kept
<1>5. /\ Spoken(sent, first, n) /\ Spoken(held, first, n) /\ Spoken(old, first, n)
      /\ Before(held, old) /\ Before(sent, old)
  BY <1>4 DEF Chain
<1>6. /\ Spoken(sent, first, n + 1) /\ Spoken(held, first, n + 1)
      /\ Spoken(out, first, n + 1) /\ Spoken(kept, first, n + 1)
  <2>1. /\ \A a \in Members(sent) : first <= a /\ a <= n + 1
        /\ \A a \in Members(held) : first <= a /\ a <= n + 1
        /\ \A a \in Members(old) : first <= a /\ a <= n + 1
    BY <1>1, <1>2, <1>5 DEF Spoken
  <2>2. first <= n + 1 /\ n + 1 <= n + 1
    OBVIOUS
  <2>3. \A a \in Members(old) \cup {n + 1} : first <= a /\ a <= n + 1
    BY <2>1, <2>2
  <2> QED BY <1>3, <2>1, <2>3 DEF Spoken
<1>7. Before(held, kept) /\ Before(sent, kept) /\ Before(held, out) /\ Before(sent, out)
  BY <1>1, <1>2, <1>3, <1>5 DEF Spoken, Before
<1>8. Apart(sent, out)
  BY <1>2, <1>7 DEF Before, Apart
<1>9. Chain(first, n + 1, sent, held, out, kept)
  BY <1>3, <1>4, <1>6, <1>7, <1>8 DEF Chain
<1>10. InTurn(sent, held, <<>>) => InTurn(sent, held, out)
  BY <1>7 DEF InTurn
<1> QED BY <1>9, <1>10 DEF kept

-----------------------------------------------------------------------------
(* The steps of the uplink. *)

\* The receive loop has out to forward: it pushes the first, holds them all, or stops.
LEMMA ForwardsKeeps ==
  ASSUME UpInv, NEW out \in Seq(Nat), Forwards(out), frames' \in Nat, frames <= frames',
         gate' \in Gate, gate'.open => gate'.preroll = <<>>,
         Chain(listen.first, frames', uttered.sent, hold, out, gate'.preroll),
         "overtaken" \notin odd => InTurn(uttered.sent, hold, out),
         ready \/ Listening, fwd' \in Nat, UNCHANGED <<opener, ready>>
  PROVE  UpInv'
<1> DEFINE first == listen.first
           sent == uttered.sent
           kept == gate'.preroll
<1>1. first \in Nat /\ sent \in Seq(Nat) /\ hold \in Seq(Nat) /\ kept \in Seq(Nat)
      /\ Rising(hold) /\ first <= frames' + 1
  <2>1. first \in Nat /\ sent \in Seq(Nat) /\ hold \in Seq(Nat) /\ kept \in Seq(Nat)
    BY DEF UpInv, UplinkTypeOK, Gate
  <2>2. Rising(hold)
    BY DEF Chain
  <2>3. first <= frames' + 1
    BY DEF UpInv, UplinkTypeOK, HoldInv
  <2> QED BY <2>1, <2>2, <2>3
<1>2. (fwd' >= Cap \/ fwd' < Cap) /\ ready \in BOOLEAN
  BY UplinkAssumption DEF UpInv, UplinkTypeOK
<1>3. listen' \in [state : {"ready", "listening", "thinking", "answering"}, first : Nat, count : Nat,
                   capped : BOOLEAN]
      /\ listen'.first = listen.first /\ listen'.state = listen.state
  <2>1. listen' = listen \/ listen' = [listen EXCEPT !.capped = TRUE]
    BY <1>2 DEF Forwards
  <2> QED BY <2>1 DEF UpInv, UplinkTypeOK
<1>4. /\ Chain(first, frames', sent, hold, <<>>, kept)
      /\ InTurn(sent, hold, out) => InTurn(sent, hold, <<>>)
  <2>1. <<>> \in Seq(Nat) /\ Members(<<>>) \subseteq Members(out) /\ Rising(<<>>)
    BY EmptySeq
  <2> QED BY <1>1, <2>1, ChainShrinks
<1>5. CASE reader' = [pc |-> "idle", out |-> <<>>] /\ UNCHANGED <<hold, uttered, odd>>
  <2>1. UplinkTypeOK'
    BY <1>3, <1>5, EmptySeq DEF UpInv, UplinkTypeOK
  <2>2. Pending' = <<>>
    BY <1>5 DEF Pending
  <2>3. InOrder'
    BY <1>1, <1>3, <1>4, <1>5, <2>2 DEF InOrder
  <2>4. HoldInv'
    BY <1>1, <1>3, <1>5 DEF UpInv, HoldInv
  <2> QED BY <2>1, <2>3, <2>4 DEF UpInv
<1>6. CASE out # <<>> /\ ready /\ reader' = [pc |-> "push", out |-> out]
           /\ uttered' = SentOn(Head(out))
           /\ odd' = (IF hold # <<>> THEN odd \cup {"overtaken"} ELSE odd)
           /\ UNCHANGED <<hold, listen>>
  <2>1. Head(out) \in Nat /\ Tail(out) \in Seq(Nat) /\ Members(Tail(out)) \subseteq Members(out)
        /\ Rising(Tail(out))
    BY <1>6, HeadAndTail DEF Chain
  <2>2. uttered \in [sent : Seq(Nat), streaming : BOOLEAN] /\ Append(sent, Head(out)) \in Seq(Nat)
    BY <1>1, <2>1 DEF UpInv, UplinkTypeOK
  <2>3. /\ uttered' \in [sent : Seq(Nat), streaming : BOOLEAN]
        /\ uttered'.sent = IF uttered.streaming THEN Append(sent, Head(out)) ELSE sent
    BY <1>6, <2>2 DEF SentOn
  <2>4. UplinkTypeOK'
    BY <1>3, <1>6, <2>3 DEF UpInv, UplinkTypeOK
  <2>5. Pending' = Tail(out)
    BY <1>6 DEF Pending
  <2>6. "overtaken" \notin odd' => "overtaken" \notin odd /\ hold = <<>>
    BY <1>6
  <2>7. /\ Chain(first, frames', uttered'.sent, hold, Tail(out), kept)
        /\ "overtaken" \notin odd' => InTurn(uttered'.sent, hold, Tail(out))
    <3>1. CASE uttered.streaming
      <4>1. /\ Chain(first, frames', Append(sent, Head(out)), hold, Tail(out), kept)
            /\ InTurn(sent, hold, out) /\ hold = <<>> =>
                    InTurn(Append(sent, Head(out)), hold, Tail(out))
        BY <1>1, <1>6, ChainSends
      <4> QED BY <2>3, <2>6, <3>1, <4>1
    <3>2. CASE ~uttered.streaming
      <4>1. /\ Chain(first, frames', sent, hold, Tail(out), kept)
            /\ InTurn(sent, hold, out) => InTurn(sent, hold, Tail(out))
        BY <1>1, <2>1, ChainShrinks
      <4> QED BY <2>3, <2>6, <3>2, <4>1
    <3> QED BY <3>1, <3>2
  <2>8. InOrder'
    BY <1>6, <2>5, <2>7 DEF InOrder
  <2>9. HoldInv'
    BY <1>1, <1>6 DEF UpInv, HoldInv
  <2> QED BY <2>4, <2>8, <2>9 DEF UpInv
<1>7. CASE ~ready /\ reader' = [pc |-> "idle", out |-> <<>>]
           /\ hold' = Last(hold \o out, HoldMax) /\ UNCHANGED <<uttered, listen, odd>>
  <2>1. /\ hold' \in Seq(Nat) /\ Chain(first, frames', sent, hold', <<>>, kept)
        /\ InTurn(sent, hold, out) => InTurn(sent, hold', <<>>)
    BY <1>1, <1>7, ChainHolds
  <2>2. UplinkTypeOK'
    BY <1>3, <1>7, <2>1, EmptySeq DEF UpInv, UplinkTypeOK
  <2>3. Pending' = <<>>
    BY <1>7 DEF Pending
  <2>4. InOrder'
    BY <1>7, <2>1, <2>3 DEF InOrder
  <2>5. HoldInv'
    BY <1>1, <1>7 DEF UpInv, HoldInv, Listening
  <2> QED BY <2>2, <2>4, <2>5 DEF UpInv
<1>8. CASE out = <<>> \/ fwd' >= Cap
  <2>1. reader' = [pc |-> "idle", out |-> <<>>] /\ UNCHANGED <<hold, uttered, odd>>
    <3>1. CASE out = <<>>
      BY <3>1 DEF Forwards
    <3>2. CASE out # <<>> /\ fwd' >= Cap
      <4>1. ~(fwd' < Cap)
        BY <3>2, UplinkAssumption
      <4> QED BY <3>2, <4>1 DEF Forwards
    <3> QED BY <1>8, <3>1, <3>2
  <2> QED BY <1>5, <2>1
<1>9. CASE out # <<>> /\ fwd' < Cap
  <2>1. CASE ready
    BY <1>6, <1>9, <2>1, UplinkAssumption DEF Forwards
  <2>2. CASE ~ready
    BY <1>7, <1>9, <2>2, UplinkAssumption DEF Forwards
  <2> QED BY <2>1, <2>2
<1> QED BY <1>2, <1>8, <1>9

LEMMA HearsKeeps == ASSUME UpInv, Hears PROVE UpInv'
<1>1. /\ frames \in Nat /\ frames' = frames + 1 /\ frames' \in Nat /\ frames <= frames' /\ Pending = <<>>
      /\ UNCHANGED <<opener, ready>> /\ listen.first \in Nat /\ listen.first <= frames + 1
      /\ uttered.sent \in Seq(Nat) /\ hold \in Seq(Nat) /\ gate \in Gate /\ gate.preroll \in Seq(Nat)
      /\ fwd \in Nat
  BY DEF Hears, Pending, UpInv, UplinkTypeOK, HoldInv, Gate
<1>2. /\ Chain(listen.first, frames, uttered.sent, hold, <<>>, gate.preroll)
      /\ "overtaken" \notin odd => InTurn(uttered.sent, hold, <<>>)
      /\ gate.open => gate.preroll = <<>>
  BY <1>1 DEF UpInv, InOrder
<1>3. Rising(hold) /\ Rising(gate.preroll) /\ \A a \in Members(gate.preroll) : a <= frames
  BY <1>2 DEF Chain, Spoken
<1>4. <<>> \in Seq(Nat) /\ Members(<<>>) = {} /\ Rising(<<>>)
  BY EmptySeq
<1>5. CASE UNCHANGED <<listen, gate, reader, hold, fwd, uttered, odd>>
  <2>1. Chain(listen.first, frames', uttered.sent, hold, <<>>, gate.preroll)
    BY <1>1, <1>2, <1>4, ChainAges
  <2>2. InOrder'
    BY <1>1, <1>2, <1>5, <2>1 DEF InOrder, Pending
  <2> QED BY <1>1, <1>5, <2>2 DEF UpInv, UplinkTypeOK, HoldInv
<1>6. ASSUME Listening, NEW speech \in BOOLEAN,
             LET g == Gated(gate, frames + 1, speech)
             IN  /\ gate' = g.gate
                 /\ fwd' = fwd
                 /\ IF g.expired
                    THEN UNCHANGED <<listen, reader, hold, uttered, odd>>
                    ELSE Forwards(g.out)
      PROVE UpInv'
  <2> DEFINE g == Gated(gate, frames + 1, speech)
             out == g.out
  <2>1. \A a \in Members(gate.preroll) : a < frames + 1
    <3> SUFFICES ASSUME NEW a \in Members(gate.preroll) PROVE a < frames + 1
      OBVIOUS
    <3>1. a \in Nat /\ a <= frames
      BY <1>1, <1>3, ChunksAreNumbers
    <3> QED BY <1>1, <3>1
  <2>2. LetsThrough(gate, frames + 1, gate', out)
    BY <1>1, <1>2, <1>3, <1>6, <2>1, GateLets
  <2>3. UNCHANGED <<listen, reader, hold, uttered, odd>> \/ Forwards(out)
    BY <1>6
  <2> HIDE DEF g, out
  <2>4. gate' \in Gate /\ out \in Seq(Nat) /\ (gate'.open => gate'.preroll = <<>>) /\ Rising(out)
    BY <2>2 DEF LetsThrough
  <2>5. /\ Chain(listen.first, frames + 1, uttered.sent, hold, out, gate'.preroll)
        /\ InTurn(uttered.sent, hold, <<>>) => InTurn(uttered.sent, hold, out)
    BY <1>1, <1>2, <2>2, <2>4, ChainHears
  <2>6. CASE UNCHANGED <<listen, reader, hold, uttered, odd>>
    <3>1. Members(<<>>) \subseteq Members(out)
      BY <1>4
    <3>2. Chain(listen.first, frames + 1, uttered.sent, hold, <<>>, gate'.preroll)
      BY <1>3, <1>4, <2>5, <3>1, ChainShrinks
    <3>3. InOrder'
      BY <1>1, <1>2, <2>4, <2>6, <3>2 DEF InOrder, Pending
    <3> QED BY <1>1, <1>6, <2>4, <2>6, <3>3 DEF UpInv, UplinkTypeOK, HoldInv
  <2>7. CASE Forwards(out)
    BY <1>1, <1>2, <1>6, <2>4, <2>5, <2>7, ForwardsKeeps
  <2> QED BY <2>3, <2>6, <2>7
<1> QED BY <1>5, <1>6 DEF Hears

LEMMA PushedKeeps == ASSUME UpInv, Pushed PROVE UpInv'
<1> DEFINE out == Tail(reader.out)
<1>1. /\ Pending = out /\ out \in Seq(Nat) /\ Forwards(out) /\ ready
      /\ frames' = frames /\ frames \in Nat /\ gate' = gate /\ gate \in Gate
      /\ fwd' \in Nat /\ UNCHANGED <<opener, ready>>
  BY DEF Pushed, Pending, UpInv, UplinkTypeOK, HoldInv
<1>2. /\ Chain(listen.first, frames', uttered.sent, hold, out, gate'.preroll)
      /\ "overtaken" \notin odd => InTurn(uttered.sent, hold, out)
      /\ gate'.open => gate'.preroll = <<>>
  BY <1>1 DEF UpInv, InOrder
<1>3. frames <= frames'
  BY <1>1
<1> HIDE DEF out
<1> QED BY <1>1, <1>2, <1>3, ForwardsKeeps

\* Of what is held the first is sent, if Gemini listens.
LEMMA FlushKeeps ==
  ASSUME UpInv, hold # <<>>, hold' = Tail(hold), opener \in {"opening", "flushing"},
         opener' = "flushing", uttered' \in [sent : Seq(Nat), streaming : BOOLEAN],
         uttered'.sent = uttered.sent \/ uttered'.sent = Append(uttered.sent, Head(hold)),
         fwd' \in Nat, ready', UNCHANGED <<frames, listen, gate, reader, odd>>
  PROVE  UpInv'
<1> DEFINE sent == uttered.sent
           kept == gate.preroll
<1>1. /\ listen.first \in Nat /\ frames \in Nat /\ sent \in Seq(Nat) /\ hold \in Seq(Nat)
      /\ Pending \in Seq(Nat) /\ kept \in Seq(Nat)
  BY DEF UpInv, UplinkTypeOK, Pending, Gate
<1>2. /\ Chain(listen.first, frames, sent, hold, Pending, kept)
      /\ "overtaken" \notin odd => InTurn(sent, hold, Pending)
      /\ gate.open => kept = <<>>
  BY DEF UpInv, InOrder
<1>3. Tail(hold) \in Seq(Nat) /\ Members(Tail(hold)) \subseteq Members(hold) /\ Rising(Tail(hold))
      /\ Rising(Pending)
  BY <1>1, <1>2, HeadAndTail DEF Chain
<1>4. /\ Chain(listen.first, frames, uttered'.sent, Tail(hold), Pending, kept)
      /\ InTurn(sent, hold, Pending) => InTurn(uttered'.sent, Tail(hold), Pending)
  <2>1. CASE uttered'.sent = sent
    BY <1>2, <1>3, <2>1, ChainShrinks
  <2>2. CASE uttered'.sent = Append(sent, Head(hold))
    <3>1. /\ Chain(listen.first, frames, Append(sent, Head(hold)), Tail(hold), Pending, kept)
          /\ InTurn(sent, hold, Pending) => InTurn(Append(sent, Head(hold)), Tail(hold), Pending)
      BY <1>1, <1>2, ChainFlushes
    <3> QED BY <2>2, <3>1
  <2> QED BY <2>1, <2>2
<1>5. Pending' = Pending
  BY DEF Pending
<1>6. InOrder'
  BY <1>2, <1>4, <1>5 DEF InOrder
<1>7. UplinkTypeOK'
  BY <1>3 DEF UpInv, UplinkTypeOK
<1>8. HoldInv'
  BY DEF UpInv, HoldInv
<1> QED BY <1>6, <1>7, <1>8 DEF UpInv

LEMMA BrainReadyKeeps == ASSUME UpInv, BrainReady PROVE UpInv'
<1>1. /\ uttered \in [sent : Seq(Nat), streaming : BOOLEAN] /\ hold \in Seq(Nat) /\ fwd \in Nat
  BY DEF UpInv, UplinkTypeOK
<1>2. CASE hold = <<>>
  <2>1. uttered'.sent = uttered.sent /\ uttered' \in [sent : Seq(Nat), streaming : BOOLEAN]
    BY <1>1, <1>2 DEF BrainReady
  <2>2. Pending' = Pending /\ opener' = "none" /\ hold' = hold /\ ready' = TRUE
        /\ UNCHANGED <<frames, listen, gate, reader, fwd, odd>>
    BY <1>2 DEF BrainReady, Pending
  <2>3. InOrder'
    BY <2>1, <2>2 DEF UpInv, InOrder
  <2> QED BY <1>2, <2>1, <2>2, <2>3 DEF UpInv, UplinkTypeOK, HoldInv
<1>3. CASE hold # <<>>
  <2>1. PICK ok \in BOOLEAN :
            uttered' = IF ok THEN [[uttered EXCEPT !.streaming = ok] EXCEPT !.sent = Append(@, Head(hold))]
                       ELSE [uttered EXCEPT !.streaming = ok]
    BY <1>3 DEF BrainReady
  <2>2. Append(uttered.sent, Head(hold)) \in Seq(Nat)
    BY <1>1, <1>3, HeadAndTail
  <2>3. /\ uttered' \in [sent : Seq(Nat), streaming : BOOLEAN]
        /\ uttered'.sent = uttered.sent \/ uttered'.sent = Append(uttered.sent, Head(hold))
    BY <1>1, <2>1, <2>2
  <2>4. /\ hold' = Tail(hold) /\ opener = "opening" /\ opener' = "flushing" /\ ready'
        /\ UNCHANGED <<frames, listen, gate, reader, fwd, odd>>
    BY <1>3 DEF BrainReady
  <2> QED BY <1>1, <1>3, <2>3, <2>4, FlushKeeps
<1> QED BY <1>2, <1>3

LEMMA FlushGoesKeeps == ASSUME UpInv, FlushGoes PROVE UpInv'
<1>1. /\ uttered \in [sent : Seq(Nat), streaming : BOOLEAN] /\ hold \in Seq(Nat) /\ fwd' \in Nat
      /\ opener = "flushing" /\ ready /\ UNCHANGED <<frames, gate, reader, ready, odd>>
  <2>1. fwd \in Nat /\ fwd' = fwd + 1 /\ opener = "flushing"
    BY DEF UpInv, UplinkTypeOK, FlushGoes
  <2>2. opener = "flushing" => ready
    BY DEF UpInv, UplinkTypeOK, HoldInv
  <2> QED BY <2>1, <2>2 DEF UpInv, UplinkTypeOK, FlushGoes
<1>2. CASE opener' = "none" /\ hold' = <<>> /\ UNCHANGED uttered
           /\ listen' = [listen EXCEPT !.capped = @ \/ hold # <<>>]
  <2>1. /\ listen' \in [state : {"ready", "listening", "thinking", "answering"}, first : Nat, count : Nat,
                        capped : BOOLEAN]
        /\ listen'.first = listen.first /\ listen'.state = listen.state
    BY <1>2 DEF UpInv, UplinkTypeOK
  <2>2. Pending' = Pending
    BY <1>1 DEF Pending
  <2>3. /\ Chain(listen.first, frames, uttered.sent, <<>>, Pending, gate.preroll)
        /\ InTurn(uttered.sent, hold, Pending) => InTurn(uttered.sent, <<>>, Pending)
    <3>1. Chain(listen.first, frames, uttered.sent, hold, Pending, gate.preroll) /\ Rising(Pending)
      BY DEF UpInv, InOrder, Chain
    <3>2. Members(<<>>) \subseteq Members(hold) /\ Rising(<<>>)
      BY EmptySeq
    <3> QED BY <3>1, <3>2, ChainShrinks
  <2>4. InOrder'
    BY <1>1, <1>2, <2>1, <2>2, <2>3 DEF UpInv, InOrder
  <2> QED BY <1>1, <1>2, <2>1, <2>4, EmptySeq DEF UpInv, UplinkTypeOK, HoldInv
<1>3. CASE hold # <<>> /\ hold' = Tail(hold) /\ uttered' = SentOn(Head(hold))
           /\ UNCHANGED <<opener, listen>>
  <2>1. Append(uttered.sent, Head(hold)) \in Seq(Nat)
    BY <1>1, <1>3, HeadAndTail
  <2>2. /\ uttered' \in [sent : Seq(Nat), streaming : BOOLEAN]
        /\ uttered'.sent = uttered.sent \/ uttered'.sent = Append(uttered.sent, Head(hold))
    BY <1>1, <1>3, <2>1 DEF SentOn
  <2> QED BY <1>1, <1>3, <2>2, FlushKeeps
<1> QED BY <1>2, <1>3 DEF FlushGoes

LEMMA StartListenKeeps == ASSUME UpInv, StartListen PROVE UpInv'
<1>1. /\ Pending' = <<>> /\ hold' = <<>> /\ uttered' = Deaf /\ gate' = Shut /\ odd' = {} /\ fwd' = 0
      /\ listen' \in [state : {"ready", "listening", "thinking", "answering"}, first : Nat, count : Nat,
                      capped : BOOLEAN]
      /\ listen'.first = frames + 1 /\ listen'.state = "listening" /\ reader.pc = "idle"
      /\ ready' = FALSE /\ opener' = "opening" /\ UNCHANGED <<frames, reader>>
  BY DEF StartListen, Forgotten, Pending, UpInv, UplinkTypeOK
<1>2. /\ uttered'.sent = <<>> /\ gate'.preroll = <<>> /\ gate' \in Gate
      /\ uttered' \in [sent : Seq(Nat), streaming : BOOLEAN]
  BY <1>1, EmptySeq DEF Deaf, Shut, Gate
<1>3. InOrder'
  BY <1>1, <1>2, EmptySeq DEF InOrder, Chain, InTurn, Spoken, Before, Apart
<1>4. UplinkTypeOK'
  BY <1>1, <1>2, EmptySeq DEF UpInv, UplinkTypeOK
<1>5. HoldInv'
  BY <1>1 DEF UpInv, UplinkTypeOK, HoldInv
<1> QED BY <1>3, <1>4, <1>5 DEF UpInv

LEMMA UpStep == UpInv /\ [UpNext]_upVars => UpInv'
<1> SUFFICES ASSUME UpInv, [UpNext]_upVars PROVE UpInv'
  OBVIOUS
<1>1. CASE StopListen \/ UNCHANGED upVars
  BY <1>1 DEF StopListen, upVars, UpInv, UplinkTypeOK, InOrder, HoldInv, Pending
<1>2. CASE Thinks
  <2>1. /\ listen' \in [state : {"ready", "listening", "thinking", "answering"}, first : Nat, count : Nat,
                        capped : BOOLEAN]
        /\ listen'.first = listen.first
        /\ listen'.state = IF Listening THEN "thinking" ELSE listen.state
    BY <1>2 DEF Thinks, UpInv, UplinkTypeOK
  <2>2. /\ "overtaken" \in odd <=> "overtaken" \in odd'
        /\ "late" \notin odd' => OpenerOver /\ "late" \notin odd
    BY <1>2 DEF Thinks
  <2>3. UNCHANGED <<frames, gate, reader, hold, opener, ready, fwd, uttered, Pending>>
    BY <1>2 DEF Thinks, Pending
  <2>4. InOrder'
    BY <2>1, <2>2, <2>3 DEF UpInv, InOrder
  <2> QED BY <2>1, <2>2, <2>3, <2>4 DEF UpInv, UplinkTypeOK, HoldInv, OpenerOver, Listening
<1>3. CASE EndSpeech
  <2>1. /\ listen' \in [state : {"ready", "listening", "thinking", "answering"}, first : Nat, count : Nat,
                        capped : BOOLEAN]
        /\ listen'.first = listen.first /\ listen.state = "thinking" /\ listen'.state = "answering"
        /\ uttered' \in [sent : Seq(Nat), streaming : BOOLEAN] /\ uttered'.sent = uttered.sent
    BY <1>3 DEF EndSpeech, UpInv, UplinkTypeOK
  <2>2. UNCHANGED <<frames, gate, reader, hold, opener, ready, fwd, odd, Pending>>
    BY <1>3 DEF EndSpeech, Pending
  <2>3. InOrder'
    BY <2>1, <2>2 DEF UpInv, InOrder
  <2> QED BY <2>1, <2>2, <2>3 DEF UpInv, UplinkTypeOK, HoldInv
<1> QED BY <1>1, <1>2, <1>3, HearsKeeps, PushedKeeps, StartListenKeeps, BrainReadyKeeps, FlushGoesKeeps
        DEF UpNext

LEMMA UpInitHolds == UpInit => UpInv
<1> SUFFICES ASSUME UpInit PROVE UpInv
  OBVIOUS
<1>1. /\ gate \in Gate /\ gate.preroll = <<>> /\ ~gate.open /\ uttered.sent = <<>> /\ Pending = <<>>
      /\ uttered \in [sent : Seq(Nat), streaming : BOOLEAN] /\ hold = <<>>
  BY EmptySeq DEF UpInit, Shut, Deaf, Gate, Pending
<1>2. InOrder
  BY <1>1, EmptySeq DEF InOrder, Chain, InTurn, Spoken, Before, Apart
<1>3. UplinkTypeOK
  BY <1>1, EmptySeq DEF UpInit, UplinkTypeOK
<1>4. HoldInv
  BY DEF UpInit, HoldInv
<1> QED BY <1>2, <1>3, <1>4 DEF UpInv

\* The chunks Gemini is sent are of this utterance and in the order they were spoken, for
\* any preroll, hold and cap; only a chunk the receive loop pushes while something is still
\* held may come before it, and even then no chunk is sent twice.
THEOREM SpokenInOrder == UpSpec => []SentAsSpoken
<1>1. UpInv => SentAsSpoken
  <2> SUFFICES ASSUME UpInv PROVE SentAsSpoken
    OBVIOUS
  <2>1. /\ Spoken(uttered.sent, listen.first, frames) /\ Distinct(uttered.sent)
        /\ "overtaken" \notin odd => Rising(uttered.sent)
    BY DEF UpInv, InOrder, Chain, InTurn
  <2>2. uttered.sent \in Seq(Nat) /\ listen.first \in Nat
    BY DEF UpInv, UplinkTypeOK
  <2>3. \A i \in 1..Len(uttered.sent) : uttered.sent[i] >= listen.first
    <3> SUFFICES ASSUME NEW i \in 1..Len(uttered.sent) PROVE uttered.sent[i] >= listen.first
      OBVIOUS
    <3>1. uttered.sent[i] \in Nat /\ listen.first <= uttered.sent[i]
      BY <2>1, <2>2 DEF Spoken, Members
    <3> QED BY <2>2, <3>1
  <2> QED BY <2>1, <2>3 DEF SentAsSpoken, Distinct, Rising
<1> QED BY <1>1, UpInitHolds, UpStep, PTL DEF UpSpec

\* An utterance ends with nothing held back from Gemini, whoever ends it and however the
\* opening of the session, its flush and the turn interleave; unless the session took longer
\* to open than _await_brain_ready waits.
THEOREM NothingHeldBack == UpSpec => []HeldIsFlushed
<1>1. UpInv => HeldIsFlushed
  BY DEF UpInv, HoldInv, HeldIsFlushed
<1> QED BY <1>1, UpInitHolds, UpStep, PTL DEF UpSpec

=============================================================================
