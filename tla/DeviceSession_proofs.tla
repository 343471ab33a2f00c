------------------------ MODULE DeviceSession_proofs ------------------------
(***************************************************************************)
(* What holds of one voice session for any number of turns, inputs and     *)
(* frames of the queue: TypeOK and ClosedSilence of every instance,        *)
(* OneTurn when no end of an utterance overlaps another, QueueIsCurrent    *)
(* when nothing speaks but the turns and no stale Live session has to be   *)
(* reset, AudioInWindow when nothing speaks but the turns,                 *)
(* GoodbyeIsDelivered of conversations by voice alone.                     *)
(***************************************************************************)
EXTENDS DeviceSession, TLAPS

Live(t) == task[t].pc # "idle"

Deserted == \A t \in Turns : ~Live(t)

\* The arg of a coroutine that dispatches tools is the clip it may set.
ToolsSetAClip == \A x \in Tasks : task[x].pc = "tools" => task[x].arg \in Clips

\* _cancel_turn is under way in the tasks that call it, which do not speak, and
\* only the receive loop goes on to listen.
Purposes ==
    \A x \in Tasks :
        /\ task[x].pc \in {"cancel_begin", "cancel_turn", "reset_start"} => x \in Cancellers
        /\ task[x].pc \in {"cancel_begin", "cancel_turn"} =>
               /\ x = "rx" \/ task[x].arg \in {"abort", "close"}
               /\ task[x].arg = "close" <=> x = "closer"
        /\ task[x].pc = "cancel_turn" => task[x].on \in Turns
        /\ task[x].pc = "reset_start" => x = "rx"
        /\ task[x].pc = "reset" => x \in Speakers
        /\ task[x].pc \in {"idle", "mcp", "cancel_begin", "cancel_turn"} => task[x].speech = "none"
        /\ task[x].pc = "end_utterance" => x \in {"rx", "keepalive"}
        /\ task[x].pc = "goodbye" => x = "companion"

\* The receive loop and the keepalive loop do not both await something.
Apart == task["rx"].pc = "idle" \/ task["keepalive"].pc = "idle"

\* Who waits for a turn waits for the only one there is.
Waited ==
    \A c \in Cancellers :
        task[c].pc = "cancel_turn" => \A t \in Turns : Live(t) => task[c].on = t

\* Nobody speaks to a robot that listens, whose utterance waits for the brain, or
\* whose Live session is reset before it listens.
HeardAlone ==
    \/ s.state = "listening"
    \/ \E x \in {"rx", "keepalive"} : task[x].pc \in {"await_brain", "reset_start"}
    => Deserted

\* _turn_task names a task that is not done.
TurnIsLive == s.turn # NoTurn => Live(s.turn)

Alone == OneTurn /\ TurnIsLive /\ Apart /\ Waited /\ HeardAlone

\* Without a farewell the Live session is never stale, and never reset.
NeverStale == ~s.liveStale /\ \A x \in Tasks : task[x].pc \notin {"reset", "reset_start"}

\* Nothing speaks besides the turns, which are never two; and what makes _start_listen
\* wait for a new Live session leaves it alone with the robot meanwhile.
Solo ==
    /\ Inputs \cap {"overlap", "chat", "rps", "ttt", "think", "pet", "pickup"} = {}
    /\ "farewell" \notin Replies \/ Inputs \cap {"sleep", "stopbutton"} = {}

\* Who is alone with the robot finds out_queue empty when it listens, and is never
\* suspended in put.
Hushed ==
    /\ s.putters = {}
    /\ task["sensor"].pc = "idle"
    /\ task["companion"].pc \in {"idle", "mcp", "cancel_begin", "cancel_turn"}
    /\ "farewell" \in Replies => task["companion"].pc = "idle" /\ task["stopper"].pc = "idle"
    /\ \A x \in {"rx", "keepalive"} : task[x].pc # "end_utterance"
    /\ (s.state = "listening" /\ \A x \in {"rx", "keepalive"} : task[x].pc # "await_brain")
         => s.queue = <<>>
    /\ task["rx"].pc = "reset_start" => s.queue = <<>>

SessionInv ==
    /\ TypeOK
    /\ ToolsSetAClip
    /\ Purposes
    /\ task["closer"].pc # "idle" => s.closed
    /\ "overlap" \notin Inputs => Alone
    /\ "farewell" \notin Replies => NeverStale
    /\ Solo => Hushed
    /\ Solo /\ "farewell" \notin Replies => QueueIsCurrent

\* Nothing enters out_queue but what a coroutine already has in its hands.
Quieter(z, y) ==
    \/ y.putters \subseteq z.putters /\ Len(y.queue) =< Len(z.queue)
    \/ \E p \in z.putters : y.putters = z.putters \ {p} /\ y.queue = Append(z.queue, p.item)

\* What ClosedSilence says of a step.
SilentStep ==
    /\ ~Drained /\ Drained' => s'.queue = <<>>
    /\ Drained => Quieter(s, s')

Keeps == SessionInv' /\ SilentStep

-----------------------------------------------------------------------------
\* The straight-line code.

Bounded(z) ==
    /\ \A i \in DOMAIN z.queue : z.queue[i].gen =< z.gen
    /\ \A p \in z.putters : p.item.gen =< z.gen

Fresh(z) == \A i \in DOMAIN z.queue : z.queue[i].gen \in {KeepaliveGeneration, z.gen}

\* A stretch of code that leaves the generation alone, queues nothing of another
\* one by itself, and nothing at all for a closed session.
Calm(z, y) ==
    /\ y \in Attributes /\ Bounded(y)
    /\ y.gen = z.gen /\ y.closed = z.closed
    /\ y.state = "listening" => z.state = "listening"
    /\ z.putters = {} /\ Fresh(z) => Fresh(y)
    /\ z.closed => Quieter(z, y)
    /\ y.liveStale => z.liveStale \/ "farewell" \in Replies

\* Straight-line code, in which nothing is suspended in put nor withdrawn from it.
Quiet(z, y) ==
    /\ Calm(z, y)
    /\ y.turn = z.turn /\ y.putters = z.putters
    /\ Fresh(z) => Fresh(y)
    /\ z.closed => y.queue = z.queue
    /\ y.queue = <<>> => z.queue = <<>>

Proper(z) == z \in Attributes /\ Bounded(z)

LEMMA AppendRange ==
  ASSUME NEW S, NEW q \in Seq(S), NEW e \in S
  PROVE  /\ Append(q, e) \in Seq(S)
         /\ \A i \in DOMAIN Append(q, e) :
                Append(q, e)[i] = e \/ \E j \in DOMAIN q : Append(q, e)[i] = q[j]
         /\ Append(q, e) # <<>>
<1>1. Len(Append(q, e)) = Len(q) + 1 /\ Len(q) \in Nat /\ Len(<<>>) = 0 OBVIOUS
<1>2. Append(q, e) # <<>> BY <1>1
<1> QED BY <1>2

LEMMA TailRange ==
  ASSUME NEW S, NEW q \in Seq(S), q # <<>>
  PROVE  /\ Tail(q) \in Seq(S)
         /\ \A i \in DOMAIN Tail(q) : \E j \in DOMAIN q : Tail(q)[i] = q[j]
<1>1. Tail(q) \in Seq(S) /\ Len(Tail(q)) = Len(q) - 1 OBVIOUS
<1>2. \A i \in 1 .. Len(q) - 1 : Tail(q)[i] = q[i + 1] /\ i + 1 \in 1 .. Len(q) OBVIOUS
<1> QED BY <1>1, <1>2

LEMMA QuietTransitive ==
  ASSUME NEW x, NEW y, NEW z, Quiet(x, y), Quiet(y, z)
  PROVE  Quiet(x, z)
<1>1. x.closed => Quieter(x, z)
  <2> SUFFICES ASSUME x.closed PROVE Quieter(x, z) OBVIOUS
  <2>1. Quieter(x, y) /\ y.closed /\ y.queue = x.queue /\ y.putters = x.putters BY DEF Quiet, Calm
  <2>2. z.queue = y.queue /\ z.putters = y.putters BY <2>1 DEF Quiet
  <2> QED BY <2>1, <2>2 DEF Quieter
<1>2. Calm(x, z) BY <1>1 DEF Quiet, Calm
<1>3. y.closed = x.closed BY DEF Quiet, Calm
<1> QED BY <1>2, <1>3 DEF Quiet

\* Attributes but the queue, and whatever the invariants look at, may change.
LEMMA SameQuiet ==
  ASSUME NEW z, Proper(z), NEW y \in Attributes,
         y.gen = z.gen, y.closed = z.closed, y.turn = z.turn, y.queue = z.queue,
         y.putters = z.putters, y.state = "listening" => z.state = "listening",
         y.liveStale => z.liveStale \/ "farewell" \in Replies
  PROVE  Quiet(z, y)
<1>1. z.queue \in Seq(Items) BY DEF Proper, Attributes
<1>2. z.closed => Quieter(z, y) BY <1>1 DEF Quieter
<1> QED BY <1>2 DEF Quiet, Calm, Proper, Bounded, Fresh

LEMMA PutQuiet ==
  ASSUME NEW z, Proper(z), NEW kind \in FrameKinds, NEW gen \in {KeepaliveGeneration, z.gen}
  PROVE  Quiet(z, Put(z, kind, gen)) /\ Proper(Put(z, kind, gen))
<1> DEFINE e == [kind |-> kind, gen |-> gen]
<1>1. z \in Attributes /\ z.queue \in Seq(Items) /\ z.gen \in Nat /\ z.closed \in BOOLEAN
  BY DEF Proper, Attributes
<1>2. e \in Items /\ e.gen = gen /\ gen =< z.gen BY <1>1 DEF KeepaliveGeneration, Items
<1>3. CASE z.closed
  <2>1. Put(z, kind, gen) = z BY <1>3 DEF Put
  <2>2. Quiet(z, z) BY <1>1, SameQuiet
  <2> QED BY <2>1, <2>2
<1>4. CASE ~z.closed
  <2> DEFINE q == Append(z.queue, e)
  <2>1. q \in Seq(Items)
        /\ \A i \in DOMAIN q : q[i] = e \/ \E j \in DOMAIN z.queue : q[i] = z.queue[j]
    <3> HIDE DEF e
    <3> QED BY <1>1, <1>2, AppendRange
  <2>6. q # <<>>
    <3> HIDE DEF e
    <3> QED BY <1>1, <1>2, AppendRange
  <2> HIDE DEF q
  <2>2. Put(z, kind, gen) = [z EXCEPT !.queue = q] BY <1>4 DEF Put, q
  <2> DEFINE y == [z EXCEPT !.queue = q]
  <2>3. y \in Attributes /\ y.queue = q /\ y.gen = z.gen /\ y.closed = z.closed /\ y.turn = z.turn
        /\ y.state = z.state /\ y.liveStale = z.liveStale /\ y.putters = z.putters
    BY <1>1, <2>1 DEF Attributes
  <2> HIDE DEF y, e
  <2>4. Bounded(y) BY <2>1, <2>3, <1>2 DEF Bounded, Proper
  <2>5. Fresh(z) => Fresh(y) BY <2>1, <2>3, <1>2 DEF Fresh
  <2> QED BY <2>2, <2>3, <2>4, <2>5, <2>6, <1>4 DEF Quiet, Calm, Proper, y
<1> QED BY <1>1, <1>3, <1>4

LEMMA ReleaseQuiet ==
  ASSUME NEW z, Proper(z)
  PROVE  Quiet(z, Release(z)) /\ Proper(Release(z))
<1> DEFINE y == [z EXCEPT !.awaitingTtsStop = FALSE]
<1>1. y \in Attributes /\ y.gen = z.gen /\ y.closed = z.closed /\ y.turn = z.turn
      /\ y.queue = z.queue /\ y.putters = z.putters /\ y.state = z.state /\ y.liveStale = z.liveStale
  BY DEF Proper, Attributes
<1>2. Release(z) = IF z.awaitingTtsStop THEN Put(y, "stop", y.gen) ELSE z
  BY <1>1 DEF Release
<1> HIDE DEF y
<1>3. Quiet(z, y) /\ Proper(y) BY <1>1, SameQuiet DEF Proper, Bounded
<1>4. Quiet(y, Put(y, "stop", y.gen)) /\ Proper(Put(y, "stop", y.gen))
  BY <1>3, PutQuiet DEF FrameKinds
<1>5. Quiet(z, z) BY SameQuiet DEF Proper
<1> QED BY <1>2, <1>3, <1>4, <1>5, QuietTransitive

LEMMA OpenSpeechQuiet ==
  ASSUME NEW z, Proper(z)
  PROVE  Quiet(z, OpenSpeech(z)) /\ Proper(OpenSpeech(z))
<1> DEFINE y == [z EXCEPT !.awaitingTtsStop = FALSE, !.state = "speaking"]
<1>1. y \in Attributes /\ y.gen = z.gen /\ y.closed = z.closed /\ y.turn = z.turn
      /\ y.queue = z.queue /\ y.putters = z.putters /\ y.state = "speaking" /\ y.liveStale = z.liveStale
  BY DEF Proper, Attributes, States
<1>2. OpenSpeech(z) = IF z.awaitingTtsStop THEN y ELSE Put(y, "start", y.gen)
  BY <1>1 DEF OpenSpeech
<1> HIDE DEF y
<1>3. Quiet(z, y) /\ Proper(y) BY <1>1, SameQuiet DEF Proper, Bounded
<1>4. Quiet(y, Put(y, "start", y.gen)) /\ Proper(Put(y, "start", y.gen))
  BY <1>3, PutQuiet DEF FrameKinds
<1> QED BY <1>2, <1>3, <1>4, QuietTransitive

LEMMA CloseSpeechQuiet ==
  ASSUME NEW z, Proper(z), NEW gen
  PROVE  Quiet(z, CloseSpeech(z, gen)) /\ Proper(CloseSpeech(z, gen))
<1> DEFINE y == [z EXCEPT !.awaitingTtsStop = TRUE]
<1>1. y \in Attributes /\ y.gen = z.gen /\ y.closed = z.closed /\ y.turn = z.turn
      /\ y.queue = z.queue /\ y.putters = z.putters /\ y.state = z.state /\ y.liveStale = z.liveStale
  BY DEF Proper, Attributes
<1>2. Quiet(z, y) /\ Proper(y) BY <1>1, SameQuiet DEF Proper, Bounded
<1>3. gen = z.gen => Quiet(z, Put(z, "stop", gen)) /\ Proper(Put(z, "stop", gen))
  BY PutQuiet DEF FrameKinds
<1>4. Quiet(z, z) BY SameQuiet DEF Proper
<1> QED BY <1>2, <1>3, <1>4 DEF CloseSpeech

LEMMA NotifyIdleQuiet ==
  ASSUME NEW z, Proper(z)
  PROVE  Quiet(z, NotifyIdle(z)) /\ Proper(NotifyIdle(z))
<1> DEFINE y == IdleFlags(z)
<1>1. y \in Attributes /\ y.gen = z.gen /\ y.closed = z.closed /\ y.turn = z.turn
      /\ y.queue = z.queue /\ y.putters = z.putters /\ y.state = z.state /\ y.liveStale = z.liveStale
  BY DEF Proper, Attributes, IdleFlags
<1>2. NotifyIdle(z) = Put(y, "ended", KeepaliveGeneration) BY DEF NotifyIdle
<1> HIDE DEF y
<1>3. Quiet(z, y) /\ Proper(y) BY <1>1, SameQuiet DEF Proper, Bounded
<1>4. Quiet(y, Put(y, "ended", KeepaliveGeneration)) /\ Proper(Put(y, "ended", KeepaliveGeneration))
  BY <1>3, PutQuiet DEF FrameKinds
<1> QED BY <1>2, <1>3, <1>4, QuietTransitive

LEMMA AbortTailQuiet ==
  ASSUME NEW z, Proper(z), NEW needs
  PROVE  Quiet(z, AbortTail(z, needs)) /\ Proper(AbortTail(z, needs))
<1> DEFINE y == [z EXCEPT !.awaitingTtsStop = FALSE]
           a == IF needs THEN Put(y, "stop", y.gen) ELSE z
           b == [a EXCEPT !.state = "ready"]
<1>1. y \in Attributes /\ y.gen = z.gen /\ y.closed = z.closed /\ y.turn = z.turn
      /\ y.queue = z.queue /\ y.putters = z.putters /\ y.state = z.state /\ y.liveStale = z.liveStale
  BY DEF Proper, Attributes
<1>2. AbortTail(z, needs) = IF a.state = "closed" THEN a ELSE b BY <1>1 DEF AbortTail
<1>3. Quiet(z, a) /\ Proper(a)
  <2> HIDE DEF y
  <2>1. Quiet(z, y) /\ Proper(y) BY <1>1, SameQuiet DEF Proper, Bounded
  <2>2. Quiet(y, Put(y, "stop", y.gen)) /\ Proper(Put(y, "stop", y.gen))
    BY <2>1, PutQuiet DEF FrameKinds
  <2>3. Quiet(z, z) BY SameQuiet DEF Proper
  <2> QED BY <2>1, <2>2, <2>3, QuietTransitive
<1> HIDE DEF a
<1>4. b \in Attributes /\ b.gen = a.gen /\ b.closed = a.closed /\ b.turn = a.turn
      /\ b.queue = a.queue /\ b.putters = a.putters /\ b.state = "ready" /\ b.liveStale = a.liveStale
  BY <1>3 DEF Proper, Attributes, States
<1> HIDE DEF b
<1>5. Quiet(a, b) /\ Proper(b) BY <1>3, <1>4, SameQuiet DEF Proper, Bounded
<1> QED BY <1>2, <1>3, <1>5, QuietTransitive

LEMMA ReadyQuiet ==
  ASSUME NEW z, Proper(z)
  PROVE  Quiet(z, Ready(z)) /\ Proper(Ready(z))
<1> DEFINE y == [z EXCEPT !.state = "ready"]
<1>1. y \in Attributes /\ y.gen = z.gen /\ y.closed = z.closed /\ y.turn = z.turn
      /\ y.queue = z.queue /\ y.putters = z.putters /\ y.state = "ready" /\ y.liveStale = z.liveStale
  BY DEF Proper, Attributes, States
<1>2. Quiet(z, y) /\ Proper(y) BY <1>1, SameQuiet DEF Proper, Bounded
<1>3. Quiet(z, z) BY SameQuiet DEF Proper
<1> QED BY <1>2, <1>3 DEF Ready

LEMMA ClearWakeQuiet ==
  ASSUME NEW z, Proper(z)
  PROVE  Quiet(z, ClearWake(z)) /\ Proper(ClearWake(z))
<1> DEFINE y == ClearWake(z)
<1>1. y \in Attributes /\ y.gen = z.gen /\ y.closed = z.closed /\ y.turn = z.turn
      /\ y.queue = z.queue /\ y.putters = z.putters /\ y.state = z.state /\ y.liveStale = z.liveStale
  BY DEF Proper, Attributes, ClearWake
<1> QED BY <1>1, SameQuiet DEF Proper, Bounded

LEMMA SettleQuiet ==
  ASSUME NEW z, Proper(z), NEW gen
  PROVE  Quiet(z, Settle(z, gen)) /\ Proper(Settle(z, gen))
<1> DEFINE r == Release(z)
           b == [r EXCEPT !.state = "ready"]
           d == IF r.state # "closed" /\ (gen = r.gen \/ r.awaitingWake) THEN b ELSE r
<1>1. Quiet(z, r) /\ Proper(r) BY ReleaseQuiet
<1>2. Settle(z, gen) = IF d.awaitingWake /\ ~d.closed THEN NotifyIdle(d) ELSE d BY DEF Settle
<1> HIDE DEF r
<1>3. b \in Attributes /\ b.gen = r.gen /\ b.closed = r.closed /\ b.turn = r.turn
      /\ b.queue = r.queue /\ b.putters = r.putters /\ b.state = "ready" /\ b.liveStale = r.liveStale
  BY <1>1 DEF Proper, Attributes, States
<1> HIDE DEF b
<1>4. Quiet(r, b) /\ Proper(b) BY <1>1, <1>3, SameQuiet DEF Proper, Bounded
<1>5. Quiet(z, d) /\ Proper(d) BY <1>1, <1>4, QuietTransitive
<1> HIDE DEF d
<1>6. Quiet(d, NotifyIdle(d)) /\ Proper(NotifyIdle(d)) BY <1>5, NotifyIdleQuiet
<1> QED BY <1>2, <1>5, <1>6, QuietTransitive

LEMMA ExitQuiet ==
  ASSUME NEW z, Proper(z), "farewell" \in Replies
  PROVE  Quiet(z, RequestExit(z)) /\ Proper(RequestExit(z))
<1> DEFINE y == RequestExit(z)
<1>1. y \in Attributes /\ y.gen = z.gen /\ y.closed = z.closed /\ y.turn = z.turn
      /\ y.queue = z.queue /\ y.putters = z.putters /\ y.state = z.state
  BY DEF Proper, Attributes, RequestExit
<1> QED BY <1>1, SameQuiet DEF Proper, Bounded

LEMMA GensAreIntegers ==
  ASSUME NEW z, Proper(z)
  PROVE  /\ \A i \in DOMAIN z.queue : z.queue[i] \in Items /\ z.queue[i].gen \in Int
         /\ \A p \in z.putters : p.by \in Loops /\ p.item \in Items /\ p.item.gen \in Int
<1>1. z.queue \in Seq(Items) /\ z.putters \in SUBSET [by : Loops, item : Items]
  BY DEF Proper, Attributes
<1>2. \A e \in Items : e.gen \in Int BY DEF Items
<1>3. \A i \in DOMAIN z.queue : z.queue[i] \in Items BY <1>1
<1>4. \A p \in z.putters : p.by \in Loops /\ p.item \in Items BY <1>1
<1> QED BY <1>2, <1>3, <1>4

\* What is bounded by a generation is bounded by the next one.
LEMMA StillBounded ==
  ASSUME NEW z, Proper(z), NEW y, y.gen = z.gen + 1, y.queue = z.queue, y.putters = z.putters
  PROVE  Bounded(y)
<1>1. z.gen \in Nat BY DEF Proper, Attributes
<1>2. ASSUME NEW i \in DOMAIN z.queue PROVE z.queue[i].gen =< z.gen + 1
  <2>1. z.queue[i].gen \in Int /\ z.queue[i].gen =< z.gen BY GensAreIntegers DEF Proper, Bounded
  <2> QED BY <2>1, <1>1
<1>3. ASSUME NEW p \in z.putters PROVE p.item.gen =< z.gen + 1
  <2>1. p.item.gen \in Int /\ p.item.gen =< z.gen BY GensAreIntegers DEF Proper, Bounded
  <2> QED BY <2>1, <1>1
<1> QED BY <1>2, <1>3 DEF Bounded

\* _cancel_turn bumps the generation, and drains what earlier ones queued.
LEMMA HeadProper ==
  ASSUME NEW z, Proper(z)
  PROVE  LET h == CancelHead(z)
         IN  /\ Proper(h) /\ h.gen = z.gen + 1 /\ h.turn = z.turn /\ h.closed = z.closed
             /\ h.state = z.state /\ h.liveStale = z.liveStale /\ h.queue = z.queue /\ h.putters = z.putters
             /\ h.begin = z.begin
<1> DEFINE h == CancelHead(z)
<1>3. z.gen \in Nat /\ z.gen + 1 \in Nat BY DEF Proper, Attributes
<1>1. h \in Attributes /\ h.gen = z.gen + 1 /\ h.turn = z.turn /\ h.closed = z.closed
      /\ h.state = z.state /\ h.liveStale = z.liveStale /\ h.queue = z.queue /\ h.putters = z.putters
      /\ h.begin = z.begin
  BY <1>3 DEF Proper, Attributes, CancelHead, Clips
<1> HIDE DEF h
<1>4. Bounded(h) BY <1>1, StillBounded
<1> QED BY <1>1, <1>4 DEF Proper, h

LEMMA DrainProper ==
  ASSUME NEW z, Proper(z)
  PROVE  LET d == Drain(z)
         IN  /\ Proper(d) /\ d.gen = z.gen /\ d.turn = z.turn /\ d.closed = z.closed
             /\ d.state = z.state /\ d.liveStale = z.liveStale /\ d.queue = <<>>
             /\ d.begin = z.begin /\ d.putters = z.putters
<1> DEFINE d == Drain(z)
<1>1. <<>> \in Seq(Items) /\ DOMAIN <<>> = {} OBVIOUS
<1>2. d \in Attributes /\ d.gen = z.gen /\ d.turn = z.turn /\ d.closed = z.closed
      /\ d.state = z.state /\ d.liveStale = z.liveStale /\ d.queue = <<>>
      /\ d.begin = z.begin /\ d.putters = z.putters
  BY <1>1 DEF Proper, Attributes, Drain
<1> HIDE DEF d
<1>3. Bounded(d) BY <1>1, <1>2 DEF Proper, Bounded
<1> QED BY <1>2, <1>3 DEF Proper, d

LEMMA ListenProper ==
  ASSUME NEW z, Proper(z)
  PROVE  LET y == Listen(z)
         IN  /\ Proper(y) /\ y.gen = z.gen + 1 /\ y.turn = z.turn /\ y.closed = z.closed
             /\ y.liveStale = z.liveStale /\ y.queue = z.queue /\ y.putters = z.putters
<1> DEFINE y == Listen(z)
<1>1. z.gen \in Nat /\ z.gen + 1 \in Nat BY DEF Proper, Attributes
<1>2. y \in Attributes /\ y.gen = z.gen + 1 /\ y.turn = z.turn /\ y.closed = z.closed
      /\ y.liveStale = z.liveStale /\ y.queue = z.queue /\ y.putters = z.putters
  BY <1>1 DEF Proper, Attributes, Listen, Clips, States
<1> HIDE DEF y
<1>4. Bounded(y) BY <1>2, StillBounded
<1> QED BY <1>2, <1>4 DEF Proper, y

\* A coroutine puts a frame, or is suspended with it in its hands.
LEMMA AwaitCalm ==
  ASSUME Proper(s), NEW x \in Tasks, NEW y, Quiet(s, y)
  PROVE  /\ Calm(s, Await(x, y)) /\ Await(x, y).turn = s.turn /\ Proper(Await(x, y))
         /\ x \in Turns \/ HasRoom => Await(x, y) = y
<1> DEFINE q == y.queue
           e == [by |-> x, item |-> q[Len(q)]]
           w == [y EXCEPT !.queue = s.queue, !.putters = @ \cup {e}]
<1>1. Calm(s, y) /\ y.turn = s.turn /\ Proper(y) /\ y \in Attributes BY DEF Quiet, Calm, Proper
<1>2. CASE x \in Turns \/ HasRoom \/ y.queue = s.queue
  BY <1>1, <1>2 DEF Await
<1>3. CASE ~(x \in Turns \/ HasRoom \/ y.queue = s.queue)
  <2>1. Await(x, y) = w BY <1>3 DEF Await
  <2>2. x \in Loops BY <1>3 DEF Tasks
  <2>3. q \in Seq(Items) /\ q # <<>> /\ ~s.closed BY <1>1, <1>3 DEF Quiet, Attributes
  <2>4. Len(q) \in DOMAIN q BY <2>3
  <2>5. e \in [by : Loops, item : Items] /\ e.item.gen =< s.gen
    BY <1>1, <2>2, <2>3, <2>4 DEF Proper, Bounded, Calm
  <2> HIDE DEF e, q
  <2>6. /\ w \in Attributes /\ w.gen = s.gen /\ w.closed = s.closed /\ w.turn = s.turn
        /\ w.state = y.state /\ w.liveStale = y.liveStale /\ w.queue = s.queue
        /\ w.putters = s.putters \cup {e}
    BY <1>1, <2>5 DEF Attributes, Proper, Quiet, Calm
  <2> HIDE DEF w
  <2>7. Bounded(w) BY <2>5, <2>6 DEF Proper, Bounded
  <2>8. Fresh(s) => Fresh(w) BY <2>6 DEF Fresh
  <2>9. Calm(s, w) BY <1>1, <2>3, <2>6, <2>7, <2>8 DEF Calm
  <2> QED BY <1>3, <2>1, <2>6, <2>7, <2>9 DEF Proper
<1> QED BY <1>2, <1>3

\* A coroutine that is cancelled withdraws its frame.
LEMMA WithdrawCalm ==
  ASSUME NEW y, NEW z, Quiet(y, z), NEW x
  PROVE  LET w == Withdraw(x, z)
         IN  /\ Calm(y, w) /\ w.turn = y.turn /\ Proper(w)
             /\ w.queue = z.queue
             /\ x \in Turns => w = z
             /\ y.putters = {} => w.putters = {}
<1> DEFINE w == Withdraw(x, z)
<1>1. Calm(y, z) /\ z \in Attributes /\ Bounded(z) /\ z.turn = y.turn /\ z.putters = y.putters
  BY DEF Quiet, Calm
<1>2. /\ w \in Attributes /\ w.gen = z.gen /\ w.closed = z.closed /\ w.turn = z.turn
      /\ w.state = z.state /\ w.liveStale = z.liveStale /\ w.queue = z.queue
      /\ w.putters = {p \in z.putters : p.by # x}
  BY <1>1 DEF Attributes, Withdraw
<1>3. x \in Turns => w = z
  <2> SUFFICES ASSUME x \in Turns PROVE w = z OBVIOUS
  <2>1. \A p \in z.putters : p.by # x BY <1>1, GensAreIntegers, TurnsAssumption DEF Proper
  <2>2. {p \in z.putters : p.by # x} = z.putters BY <2>1
  <2>3. w = [z EXCEPT !.putters = z.putters] BY <2>2 DEF Withdraw
  <2> QED BY <2>3, <1>1 DEF Attributes
<1> HIDE DEF w
<1>4. Bounded(w) BY <1>1, <1>2 DEF Bounded
<1>5. Fresh(y) => Fresh(w) BY <1>2 DEF Fresh, Quiet, Calm
<1>6. y.closed => Quieter(y, w)
  <2>1. z.queue \in Seq(Items) BY <1>1 DEF Attributes
  <2>2. y.closed => y.queue = z.queue BY DEF Quiet
  <2> QED BY <1>1, <1>2, <2>1, <2>2 DEF Quieter
<1>7. Calm(y, w) BY <1>1, <1>2, <1>4, <1>5, <1>6 DEF Calm
<1> QED BY <1>1, <1>2, <1>3, <1>4, <1>7 DEF Proper, w

\* A coroutine that was suspended in put queues its frame.
LEMMA PutsCalm ==
  ASSUME Proper(s), NEW p \in s.putters
  PROVE  LET z == [s EXCEPT !.queue = Append(@, p.item), !.putters = @ \ {p}]
         IN  Calm(s, z) /\ z.turn = s.turn /\ Proper(z) /\ z.state = s.state
<1> DEFINE q == Append(s.queue, p.item)
           z == [s EXCEPT !.queue = q, !.putters = @ \ {p}]
<1>1. s \in Attributes /\ s.queue \in Seq(Items) /\ p.item \in Items /\ s.gen \in Nat
      /\ p.item.gen =< s.gen
  BY GensAreIntegers DEF Proper, Attributes, Bounded
<1>2. q \in Seq(Items)
      /\ \A i \in DOMAIN q : q[i] = p.item \/ \E j \in DOMAIN s.queue : q[i] = s.queue[j]
  BY <1>1, AppendRange
<1> HIDE DEF q
<1>3. /\ z \in Attributes /\ z.gen = s.gen /\ z.closed = s.closed /\ z.turn = s.turn
      /\ z.state = s.state /\ z.liveStale = s.liveStale /\ z.queue = q
      /\ z.putters = s.putters \ {p}
  BY <1>1, <1>2 DEF Attributes
<1>4. Quieter(s, z)
  <2>1. z.putters = s.putters \ {p} /\ z.queue = Append(s.queue, p.item) BY <1>3 DEF q
  <2> HIDE DEF z
  <2> QED BY <2>1 DEF Quieter
<1>5. Bounded(z)
  <2> HIDE DEF z
  <2> QED BY <1>1, <1>2, <1>3 DEF Proper, Bounded
<1>6. s.putters # {} OBVIOUS
<1>7. Calm(s, z)
  <2> HIDE DEF z
  <2> QED BY <1>3, <1>4, <1>5, <1>6 DEF Calm
<1>8. Proper(z) BY <1>3, <1>5 DEF Proper
<1> HIDE DEF z
<1> QED BY <1>3, <1>7, <1>8 DEF z, q
-----------------------------------------------------------------------------
\* The other variables keep their types.
OthersTyped ==
    /\ wire' \in FrameKinds \cup {"idle", "stopped"}
    /\ dev' \in {"idle", "listening", "speaking"}
    /\ up' \in Seq({"start", "manual", "stop", "detect", "abort"})
    /\ left' \in 0 .. MaxInputs

LEMMA OthersUnchanged ==
  ASSUME TypeOK, UNCHANGED <<wire, dev, up, left>>
  PROVE  OthersTyped
BY DEF TypeOK, OthersTyped

LEMMA Start ==
  ASSUME TypeOK
  PROVE  /\ Proper(s) /\ s \in Attributes /\ s.gen \in Nat
         /\ s.turn \in Turns \cup {NoTurn} /\ s.state \in States /\ s.closed \in BOOLEAN
         /\ Quiet(s, s) /\ Calm(s, s)
<1>1. Proper(s) /\ s \in Attributes /\ s.gen \in Nat /\ s.turn \in Turns \cup {NoTurn}
      /\ s.state \in States /\ s.closed \in BOOLEAN
  BY DEF TypeOK, Proper, Bounded, Attributes
<1>2. Quiet(s, s) BY <1>1, SameQuiet
<1> QED BY <1>1, <1>2 DEF Quiet

LEMMA TypesKept ==
  ASSUME TypeOK, Proper(s'), task' \in [Tasks -> Frames], OthersTyped
  PROVE  TypeOK'
BY DEF TypeOK, OthersTyped, Proper, Bounded

LEMMA TheTasks ==
  /\ {"rx", "keepalive", "closer", "companion", "stopper", "sensor"} \subseteq Tasks \ Turns
  /\ Turns \subseteq Tasks /\ Cancellers \subseteq Tasks \ Turns /\ NoTurn \notin Turns
  /\ "sensor" \notin Cancellers /\ "keepalive" \notin Cancellers
BY TurnsAssumption DEF Tasks, Loops, Cancellers

\* A step that leaves close() where it is, and is calm, is silent.
LEMMA CalmIsSilent ==
  ASSUME SessionInv, Calm(s, s'), task'["closer"] = task["closer"]
  PROVE  SilentStep
<1>1. Drained => s.closed BY DEF SessionInv, Drained
<1>2. Drained' = Drained BY DEF Drained
<1> QED BY <1>1, <1>2 DEF SilentStep, Calm

\* A coroutine that neither cancels nor listens goes on, or ends.
Harmless(x, f) ==
    /\ f \in Frames
    /\ f.pc = "tools" => f.arg \in Clips
    /\ f.pc \notin {"cancel_begin", "cancel_turn", "reset_start"}
    /\ task[x].pc \notin {"cancel_begin", "cancel_turn"}
    /\ x \in Turns /\ f.pc # "idle" => task[x].pc # "idle"
    /\ f.pc = "reset" => task[x].pc = "reset" \/ (x \in Speakers /\ "farewell" \in Replies)
    /\ f.pc \in {"idle", "mcp"} => f.speech = "none"
    /\ f.pc = "goodbye" => x = "companion"
    /\ f.pc = "end_utterance" => x \in {"rx", "keepalive"}
    /\ x \in {"rx", "keepalive"} => f.pc \in {"idle", "end_utterance"}
    /\ "overlap" \notin Inputs /\ f.pc = "end_utterance" =>
           \A y \in {"rx", "keepalive"} \ {x} : task[y].pc = "idle"

\* What a step of x leaves of Hushed: a turn does not speak to a robot that listens.
Muted(x, f) ==
    Solo => /\ s'.putters = s.putters
            /\ \/ x \in Turns /\ task[x].pc # "idle"
               \/ /\ x \in {"companion", "stopper"} /\ s'.queue = s.queue
                  /\ f.pc = "idle" \/ (f.pc = "mcp" /\ "farewell" \notin Replies)

LEMMA HarmlessKeeps ==
  ASSUME SessionInv, NEW x \in Tasks \ {"closer"}, NEW f,
         Harmless(x, f), task' = [task EXCEPT ![x] = f],
         Calm(s, s'), Muted(x, f),
         s'.turn = IF x \in Turns /\ f.pc = "idle" /\ s.turn = x THEN NoTurn ELSE s.turn,
         OthersTyped
  PROVE  Keeps
<1>1. x \in Tasks /\ x # "closer" OBVIOUS
<1>2. /\ task' \in [Tasks -> Frames] /\ task'[x] = f
      /\ \A y \in Tasks : y # x => task'[y] = task[y]
  BY <1>1 DEF SessionInv, TypeOK, Harmless
<1>3. Turns \subseteq Tasks /\ Cancellers \subseteq Tasks BY TheTasks
<1>4. task'["closer"] = task["closer"] BY <1>1, <1>2, TheTasks
<1>5. TypeOK' BY <1>2, TypesKept DEF SessionInv, Calm, Proper
<1>6. ToolsSetAClip' BY <1>2 DEF SessionInv, ToolsSetAClip, Harmless
<1>7. Purposes' BY <1>2 DEF SessionInv, Purposes, Harmless
<1>8. (task["closer"].pc # "idle" => s.closed)' BY <1>4 DEF SessionInv, Calm
<1>9. ASSUME "overlap" \notin Inputs PROVE Alone'
  <2>1. Alone BY <1>9 DEF SessionInv
  <2>2. \A t \in Turns : Live(t)' => Live(t) BY <1>2, <1>3 DEF Live, Harmless
  <2>3. OneTurn'
    <3> SUFFICES ASSUME NEW t \in Turns, Live(t)' PROVE s'.turn = t BY DEF OneTurn, Live
    <3>1. Live(t) /\ s.turn = t BY <2>1, <2>2 DEF Alone, OneTurn, Live
    <3>2. ~(f.pc = "idle" /\ s.turn = x) BY <1>2, <3>1 DEF Live
    <3> QED BY <3>1, <3>2
  <2>7. TurnIsLive'
    <3> SUFFICES ASSUME s'.turn # NoTurn PROVE task'[s'.turn].pc # "idle" BY DEF TurnIsLive, Live
    <3>1. s'.turn = s.turn /\ Live(s.turn) BY <2>1 DEF Alone, TurnIsLive
    <3>2. s.turn \in Turns BY <3>1, Start DEF SessionInv
    <3>3. CASE s.turn = x BY <3>1, <3>2, <3>3, <1>2 DEF Live
    <3>4. CASE s.turn # x
      <4>1. task'[s.turn] = task[s.turn] BY <3>2, <3>4, <1>2, <1>3
      <4> QED BY <4>1, <3>1 DEF Live
    <3> QED BY <3>3, <3>4
  <2>8. \A y \in {"rx", "keepalive"} :
            task'[y].pc = task[y].pc \/ task'[y].pc = "idle"
            \/ (task'[y].pc = "end_utterance" /\ \A z \in {"rx", "keepalive"} \ {y} : task'[z].pc = "idle")
    BY <1>9, <1>2, TheTasks DEF Harmless
  <2>4. Apart' BY <2>1, <2>8 DEF Alone, Apart
  <2>5. Waited'
    <3> SUFFICES ASSUME NEW c \in Cancellers, task'[c].pc = "cancel_turn",
                        NEW t \in Turns, Live(t)'
                 PROVE  task'[c].on = t
      BY DEF Waited
    <3>1. c # x BY <1>2 DEF Harmless
    <3>2. task'[c] = task[c] BY <1>2, <1>3, <3>1
    <3> QED BY <3>2, <2>1, <2>2 DEF Alone, Waited
  <2>6. HeardAlone'
    <3>1. Deserted => Deserted' BY <2>2 DEF Deserted
    <3>2. \A y \in {"rx", "keepalive"} :
            task'[y].pc \in {"await_brain", "reset_start"} => task'[y].pc = task[y].pc
      BY <2>8
    <3>3. s'.state = "listening" => s.state = "listening" BY DEF Calm
    <3> QED BY <3>1, <3>2, <3>3, <2>1 DEF Alone, HeardAlone
  <2> QED BY <2>3, <2>4, <2>5, <2>6, <2>7 DEF Alone
<1>10. ASSUME "farewell" \notin Replies PROVE NeverStale'
  <2>1. NeverStale BY <1>10 DEF SessionInv
  <2> QED BY <2>1, <1>2, <1>1, <1>10 DEF NeverStale, Harmless, Calm
<1>11. ASSUME Solo PROVE Hushed'
  <2>1. Hushed /\ s'.putters = s.putters /\ x # "sensor" /\ x \notin {"rx", "keepalive"}
    BY <1>11, TheTasks DEF SessionInv, Muted
  <2>2. /\ s'.putters = {} /\ task'["sensor"] = task["sensor"]
        /\ task'["rx"] = task["rx"] /\ task'["keepalive"] = task["keepalive"]
    BY <2>1, <1>2, TheTasks DEF Hushed
  <2>3. CASE x \in Turns /\ task[x].pc # "idle"
    <3>1. Alone /\ ~Deserted BY <2>3, <1>11 DEF SessionInv, Solo, Deserted, Live
    <3>2. s'.state # "listening" /\ task'["rx"].pc # "reset_start"
      BY <3>1, <2>2 DEF Alone, HeardAlone, Calm
    <3>3. task'["companion"] = task["companion"] /\ task'["stopper"] = task["stopper"]
      BY <2>3, <1>2, TheTasks
    <3> QED BY <2>1, <2>2, <3>2, <3>3 DEF Hushed
  <2>4. CASE /\ x \in {"companion", "stopper"} /\ s'.queue = s.queue
             /\ f.pc = "idle" \/ (f.pc = "mcp" /\ "farewell" \notin Replies)
    <3>1. \A y \in {"companion", "stopper"} : task'[y].pc = task[y].pc \/ task'[y].pc = f.pc
      BY <1>2, TheTasks
    <3>2. s'.state = "listening" => s.state = "listening" BY DEF Calm
    <3> QED BY <2>1, <2>2, <2>4, <3>1, <3>2 DEF Hushed
  <2> QED BY <2>3, <2>4, <1>11 DEF Muted
<1>12. ASSUME Solo /\ "farewell" \notin Replies PROVE QueueIsCurrent'
  <2>1. QueueIsCurrent /\ s.putters = {} BY <1>12 DEF SessionInv, Hushed
  <2>2. Cancelling => Cancelling' BY <1>2, <1>3 DEF Cancelling, Harmless
  <2> QED BY <2>1, <2>2 DEF QueueIsCurrent, Calm, Fresh
<1>13. SilentStep BY <1>4, CalmIsSilent
<1> QED BY <1>5, <1>6, <1>7, <1>8, <1>9, <1>10, <1>11, <1>12, <1>13 DEF SessionInv, Keeps

\* The session's attributes change a little, and no coroutine moves.
LEMMA CalmKeeps ==
  ASSUME SessionInv, UNCHANGED task, Calm(s, s'), s'.turn = s.turn,
         Solo => s'.putters = s.putters /\ (s.queue = <<>> => s'.queue = <<>>),
         OthersTyped
  PROVE  Keeps
<1>1. TypeOK' BY TypesKept DEF SessionInv, TypeOK, Calm, Proper
<1>2. ToolsSetAClip' BY DEF SessionInv, ToolsSetAClip
<1>3. Purposes' BY DEF SessionInv, Purposes
<1>4. (task["closer"].pc # "idle" => s.closed)' BY DEF SessionInv, Calm
<1>5. ASSUME "overlap" \notin Inputs PROVE Alone'
  <2>1. Alone BY <1>5 DEF SessionInv
  <2>2. OneTurn' /\ TurnIsLive' BY <2>1 DEF Alone, OneTurn, TurnIsLive, Live
  <2>3. Apart' /\ Waited' BY <2>1 DEF Alone, Apart, Waited, Live
  <2>4. HeardAlone' BY <2>1 DEF Alone, HeardAlone, Deserted, Live, Calm
  <2> QED BY <2>2, <2>3, <2>4 DEF Alone
<1>6. ASSUME "farewell" \notin Replies PROVE NeverStale'
  <2>1. NeverStale BY <1>6 DEF SessionInv
  <2> QED BY <2>1, <1>6 DEF NeverStale, Calm
<1>7. ASSUME Solo PROVE Hushed'
  <2>1. Hushed BY <1>7 DEF SessionInv
  <2>2. s'.state = "listening" => s.state = "listening" BY DEF Calm
  <2> QED BY <2>1, <2>2, <1>7 DEF Hushed
<1>8. ASSUME Solo /\ "farewell" \notin Replies PROVE QueueIsCurrent'
  <2>1. QueueIsCurrent /\ s.putters = {} BY <1>8 DEF SessionInv, Hushed
  <2> QED BY <2>1 DEF QueueIsCurrent, Calm, Fresh, Cancelling
<1>9. SilentStep BY CalmIsSilent
<1> QED BY <1>1, <1>2, <1>3, <1>4, <1>5, <1>6, <1>7, <1>8, <1>9 DEF SessionInv, Keeps

\* Who may cancel a turn while the receive loop waits for a new Live session.
MayCancel(c) == Solo /\ "farewell" \in Replies => c \in {"rx", "closer"}

\* The caller of _cancel_turn goes on, with no turn left.
LEMMA ReturnKeeps ==
  ASSUME SessionInv, NEW c \in Cancellers, NEW f \in Frames,
         f.pc \in {"idle", "mcp", "done", "reset_start", "cancel_begin"}, f.speech = "none",
         f.pc \in {"reset_start", "cancel_begin"} => c = "rx",
         f.pc = "cancel_begin" => f.arg # "close",
         f.pc = "reset_start" => "farewell" \in Replies,
         task' = [task EXCEPT ![c] = f],
         f.pc = "done" => c = "closer", f.pc = "mcp" => c \in {"companion", "stopper"},
         Proper(s'), s'.turn \in {NoTurn, s.turn}, s'.putters = s.putters,
         IF c = "closer" THEN s'.closed ELSE s'.closed = s.closed,
         Solo => (s'.state = "listening" \/ f.pc = "reset_start" => s'.queue = <<>>),
         MayCancel(c),
         \/ s'.closed => s'.queue = <<>>
         \/ c # "closer" /\ s'.closed = s.closed /\ s'.queue = s.queue,
         s'.liveStale => s.liveStale \/ "farewell" \in Replies,
         Fresh(s') \/ f.pc = "cancel_begin" \/ "farewell" \in Replies,
         "overlap" \notin Inputs =>
             Deserted /\ (c = "rx" => task["keepalive"].pc = "idle"),
         OthersTyped
  PROVE  Keeps
<1>1. /\ c \in Tasks \ Turns /\ c \notin {"keepalive", "sensor"} /\ Turns \subseteq Tasks
      /\ {"rx", "keepalive", "closer", "companion", "stopper", "sensor"} \subseteq Tasks
      /\ Cancellers \subseteq Tasks
  BY TheTasks
<1>2. /\ task' \in [Tasks -> Frames] /\ task'[c] = f
      /\ \A y \in Tasks : y # c => task'[y] = task[y]
  BY <1>1 DEF SessionInv, TypeOK
<1>3. TypeOK' BY <1>2, TypesKept DEF SessionInv
<1>4. ToolsSetAClip' BY <1>2 DEF SessionInv, ToolsSetAClip
<1>5. Purposes' BY <1>2 DEF SessionInv, Purposes
<1>9. c # "closer" => task'["closer"] = task["closer"] BY <1>1, <1>2
<1>6. (task["closer"].pc # "idle" => s.closed)' BY <1>9 DEF SessionInv
<1>10. SilentStep
  <2>1. s'.queue = <<>> \/ s'.queue = s.queue => Quieter(s, s')
    <3>1. s.queue \in Seq(Items) BY Start DEF SessionInv, Attributes
    <3>2. Len(s.queue) \in Nat /\ Len(<<>>) = 0 BY <3>1
    <3> QED BY <3>2 DEF Quieter
  <2>2. CASE c = "closer" BY <2>1, <2>2, <1>2 DEF SilentStep
  <2>3. CASE c # "closer"
    <3>1. Drained' = Drained /\ (Drained => s.closed) BY <2>3, <1>9 DEF Drained, SessionInv
    <3> QED BY <3>1, <2>1, <2>3 DEF SilentStep
  <2> QED BY <2>2, <2>3
<1>11. ASSUME Solo PROVE Hushed'
  <2>1. Hushed BY <1>11 DEF SessionInv
  <2>2. \A x \in {"rx", "keepalive", "companion", "stopper", "sensor"} :
            task'[x] = IF x = c THEN f ELSE task[x]
    BY <1>1, <1>2
  <2>3. "farewell" \in Replies => c \in {"rx", "closer"} BY <1>11 DEF MayCancel
  <2>4. task'["rx"].pc = "reset_start" => s'.queue = <<>>
    <3>1. CASE c = "rx" BY <3>1, <2>2, <1>11
    <3>2. CASE c # "rx"
      <4>1. task["rx"].pc = "reset_start" => "farewell" \in Replies
        BY <1>1 DEF SessionInv, NeverStale
      <4>2. c = "closer" => s'.queue = <<>> OBVIOUS
      <4> QED BY <3>2, <4>1, <4>2, <2>2, <2>3
    <3> QED BY <3>1, <3>2
  <2>5. s'.putters = {} /\ task'["sensor"].pc = "idle" BY <2>1, <2>2, <1>1 DEF Hushed
  <2>6. task'["companion"].pc \in {"idle", "mcp", "cancel_begin", "cancel_turn"}
    BY <2>1, <2>2, <1>11 DEF Hushed
  <2>7. "farewell" \in Replies => task'["companion"].pc = "idle" /\ task'["stopper"].pc = "idle"
    BY <2>1, <2>2, <2>3 DEF Hushed
  <2>8. \A x \in {"rx", "keepalive"} : task'[x].pc # "end_utterance" BY <2>1, <2>2 DEF Hushed
  <2> QED BY <2>4, <2>5, <2>6, <2>7, <2>8, <1>11 DEF Hushed
<1>7. ASSUME "overlap" \notin Inputs PROVE Alone'
  <2>1. Alone /\ Deserted /\ (c = "rx" => task["keepalive"].pc = "idle")
    BY <1>7 DEF SessionInv
  <2>2. \A t \in Turns : ~Live(t) /\ task'[t] = task[t] /\ ~Live(t)'
    BY <2>1, <1>1, <1>2 DEF Deserted, Live
  <2>3. s.turn = NoTurn BY <2>1, <2>2, Start DEF Alone, TurnIsLive, SessionInv
  <2>4. OneTurn' /\ TurnIsLive' BY <2>2, <2>3 DEF OneTurn, TurnIsLive, Live
  <2>5. Waited' /\ HeardAlone' BY <2>2 DEF Waited, HeardAlone, Deserted
  <2>6. Apart' BY <2>1, <1>1, <1>2 DEF Alone, Apart
  <2> QED BY <2>4, <2>5, <2>6 DEF Alone
<1>8. ASSUME "farewell" \notin Replies PROVE NeverStale' /\ (Solo => QueueIsCurrent')
  <2>1. NeverStale BY <1>8 DEF SessionInv
  <2>2. NeverStale' BY <2>1, <1>8, <1>2 DEF NeverStale
  <2>3. f.pc = "cancel_begin" => Cancelling' BY <1>2 DEF Cancelling
  <2> QED BY <2>2, <2>3, <1>8 DEF QueueIsCurrent, Fresh
<1> QED BY <1>3, <1>4, <1>5, <1>6, <1>7, <1>8, <1>10, <1>11 DEF SessionInv, Keeps

\* The caller of _cancel_turn waits for the begin task.
LEMMA BeginWaitKeeps ==
  ASSUME SessionInv, NEW c \in Cancellers, NEW f \in Frames,
         f.pc = "cancel_begin", f.speech = "none",
         c = "rx" \/ f.arg \in {"abort", "close"},
         c # "closer" => f.arg # "close", c = "closer" => f.arg = "close",
         task' = [task EXCEPT ![c] = f],
         Proper(s'), s'.turn = s.turn, s'.queue = s.queue, s'.putters = s.putters,
         IF c = "closer" THEN s'.closed ELSE s'.closed = s.closed,
         c = "rx" => task["rx"].pc # "await_brain", MayCancel(c),
         s'.state = "listening" => s.state = "listening",
         s'.liveStale => s.liveStale \/ "farewell" \in Replies,
         "overlap" \notin Inputs => (c = "rx" => task["keepalive"].pc = "idle"),
         OthersTyped
  PROVE  Keeps
<1>1. /\ c \in Tasks \ Turns /\ c \notin {"keepalive", "sensor"} /\ Turns \subseteq Tasks
      /\ {"rx", "keepalive", "closer", "companion", "stopper", "sensor"} \subseteq Tasks
      /\ Cancellers \subseteq Tasks
  BY TheTasks
<1>2. /\ task' \in [Tasks -> Frames] /\ task'[c] = f
      /\ \A y \in Tasks : y # c => task'[y] = task[y]
  BY <1>1 DEF SessionInv, TypeOK
<1>3. TypeOK' BY <1>2, TypesKept DEF SessionInv
<1>4. ToolsSetAClip' BY <1>2 DEF SessionInv, ToolsSetAClip
<1>5. Purposes' BY <1>2 DEF SessionInv, Purposes
<1>9. c # "closer" => task'["closer"] = task["closer"] BY <1>1, <1>2
<1>6. (task["closer"].pc # "idle" => s.closed)' BY <1>9 DEF SessionInv
<1>10. SilentStep
  <2>1. Quieter(s, s')
    <3>1. s.queue \in Seq(Items) BY Start DEF SessionInv, Attributes
    <3> QED BY <3>1 DEF Quieter
  <2>2. Drained' => Drained BY <1>2, <1>9 DEF Drained
  <2> QED BY <2>1, <2>2 DEF SilentStep
<1>11. ASSUME Solo PROVE Hushed'
  <2>1. Hushed BY <1>11 DEF SessionInv
  <2>2. \A x \in {"rx", "keepalive", "companion", "stopper", "sensor"} :
            task'[x] = IF x = c THEN f ELSE task[x]
    BY <1>1, <1>2
  <2>3. "farewell" \in Replies => c \in {"rx", "closer"} BY <1>11 DEF MayCancel
  <2>4. s'.putters = {} /\ task'["sensor"].pc = "idle" BY <2>1, <2>2, <1>1 DEF Hushed
  <2>5. task'["companion"].pc \in {"idle", "mcp", "cancel_begin", "cancel_turn"}
    BY <2>1, <2>2 DEF Hushed
  <2>6. "farewell" \in Replies => task'["companion"].pc = "idle" /\ task'["stopper"].pc = "idle"
    BY <2>1, <2>2, <2>3 DEF Hushed
  <2>7. \A x \in {"rx", "keepalive"} :
            /\ task'[x].pc # "end_utterance"
            /\ task'[x].pc # "await_brain" => task[x].pc # "await_brain"
    <3> SUFFICES ASSUME NEW x \in {"rx", "keepalive"}
                 PROVE  /\ task'[x].pc # "end_utterance"
                        /\ task'[x].pc # "await_brain" => task[x].pc # "await_brain"
      OBVIOUS
    <3>1. CASE x = c BY <3>1, <2>2, <1>1
    <3>2. CASE x # c BY <3>2, <2>1, <2>2 DEF Hushed
    <3> QED BY <3>1, <3>2
  <2>8. task'["rx"].pc = "reset_start" => task["rx"].pc = "reset_start" BY <2>2
  <2> QED BY <2>1, <2>4, <2>5, <2>6, <2>7, <2>8 DEF Hushed
<1>7. ASSUME "overlap" \notin Inputs PROVE Alone'
  <2>1. Alone BY <1>7 DEF SessionInv
  <2>2. \A t \in Turns : task'[t] = task[t] /\ (Live(t)' <=> Live(t))
    BY <1>1, <1>2 DEF Live
  <2>3. OneTurn' BY <2>1, <2>2 DEF Alone, OneTurn, Live
  <2>4. TurnIsLive' BY <2>1, <2>2, Start DEF Alone, TurnIsLive, SessionInv
  <2>5. Apart' BY <2>1, <1>7, <1>1, <1>2 DEF Alone, Apart
  <2>6. Waited'
    <3> SUFFICES ASSUME NEW d \in Cancellers, task'[d].pc = "cancel_turn",
                        NEW t \in Turns, Live(t)'
                 PROVE  task'[d].on = t
      BY DEF Waited
    <3>1. task'[d] = task[d] BY <1>1, <1>2
    <3> QED BY <3>1, <2>1, <2>2 DEF Alone, Waited
  <2>7. HeardAlone'
    <3>1. Deserted => Deserted' BY <2>2 DEF Deserted
    <3>2. \A x \in {"rx", "keepalive"} :
            task'[x].pc \in {"await_brain", "reset_start"} => task'[x] = task[x]
      BY <1>1, <1>2
    <3> QED BY <3>1, <3>2, <2>1 DEF Alone, HeardAlone
  <2> QED BY <2>3, <2>4, <2>5, <2>6, <2>7 DEF Alone
<1>8. ASSUME "farewell" \notin Replies PROVE NeverStale' /\ (Solo => QueueIsCurrent')
  <2>1. NeverStale BY <1>8 DEF SessionInv
  <2>2. NeverStale' BY <2>1, <1>8, <1>2 DEF NeverStale
  <2>3. Cancelling' BY <1>2 DEF Cancelling
  <2> QED BY <2>2, <2>3 DEF QueueIsCurrent
<1> QED BY <1>3, <1>4, <1>5, <1>6, <1>7, <1>8, <1>10, <1>11 DEF SessionInv, Keeps

\* The caller of _cancel_turn has cancelled the turn g has become, and waits for it.
LEMMA TurnWaitKeeps ==
  ASSUME SessionInv, NEW c \in Cancellers, NEW f \in Frames,
         f.pc = "cancel_turn", f.speech = "none",
         c = "rx" \/ f.arg \in {"abort", "close"},
         c # "closer" => f.arg # "close", c = "closer" => f.arg = "close",
         NEW t \in Turns, f.on = t, NEW g \in Frames, g.pc \in {"idle", "unwind"},
         g.pc = "idle" => g.speech = "none",
         task' = [task EXCEPT ![t] = g, ![c] = f],
         s.turn = t, Proper(s'), s'.turn = IF g.pc = "idle" THEN NoTurn ELSE t,
         s'.queue = s.queue, s'.putters = s.putters,
         IF c = "closer" THEN s'.closed ELSE s'.closed = s.closed,
         c = "rx" => task["rx"].pc # "await_brain", MayCancel(c),
         s'.state = "listening" => s.state = "listening",
         s'.liveStale => s.liveStale \/ "farewell" \in Replies,
         "overlap" \notin Inputs => (c = "rx" => task["keepalive"].pc = "idle"),
         OthersTyped
  PROVE  Keeps
<1>1. /\ c \in Tasks \ Turns /\ c \notin {"keepalive", "sensor"} /\ Turns \subseteq Tasks
      /\ {"rx", "keepalive", "closer", "companion", "stopper", "sensor"} \subseteq Tasks \ Turns
      /\ Cancellers \subseteq Tasks \ Turns /\ NoTurn \notin Turns
  BY TheTasks
<1>2. /\ task' \in [Tasks -> Frames] /\ task'[c] = f /\ task'[t] = g
      /\ \A y \in Tasks : y \notin {c, t} => task'[y] = task[y]
  BY <1>1 DEF SessionInv, TypeOK
<1>3. TypeOK' BY <1>2, TypesKept DEF SessionInv
<1>4. ToolsSetAClip' BY <1>2 DEF SessionInv, ToolsSetAClip
<1>5. Purposes' BY <1>2 DEF SessionInv, Purposes
<1>9. c # "closer" => task'["closer"] = task["closer"] BY <1>1, <1>2
<1>6. (task["closer"].pc # "idle" => s.closed)' BY <1>9 DEF SessionInv
<1>10. SilentStep
  <2>1. Quieter(s, s')
    <3>1. s.queue \in Seq(Items) BY Start DEF SessionInv, Attributes
    <3> QED BY <3>1 DEF Quieter
  <2>2. Drained' => Drained BY <1>2, <1>9 DEF Drained
  <2> QED BY <2>1, <2>2 DEF SilentStep
<1>11. ASSUME Solo PROVE Hushed'
  <2>1. Hushed BY <1>11 DEF SessionInv
  <2>2. \A x \in {"rx", "keepalive", "companion", "stopper", "sensor"} :
            task'[x] = IF x = c THEN f ELSE task[x]
    BY <1>1, <1>2
  <2>3. "farewell" \in Replies => c \in {"rx", "closer"} BY <1>11 DEF MayCancel
  <2>4. s'.putters = {} /\ task'["sensor"].pc = "idle" BY <2>1, <2>2, <1>1 DEF Hushed
  <2>5. task'["companion"].pc \in {"idle", "mcp", "cancel_begin", "cancel_turn"}
    BY <2>1, <2>2 DEF Hushed
  <2>6. "farewell" \in Replies => task'["companion"].pc = "idle" /\ task'["stopper"].pc = "idle"
    BY <2>1, <2>2, <2>3 DEF Hushed
  <2>7. \A x \in {"rx", "keepalive"} :
            /\ task'[x].pc # "end_utterance"
            /\ task'[x].pc # "await_brain" => task[x].pc # "await_brain"
    <3> SUFFICES ASSUME NEW x \in {"rx", "keepalive"}
                 PROVE  /\ task'[x].pc # "end_utterance"
                        /\ task'[x].pc # "await_brain" => task[x].pc # "await_brain"
      OBVIOUS
    <3>1. CASE x = c BY <3>1, <2>2, <1>1
    <3>2. CASE x # c BY <3>2, <2>1, <2>2 DEF Hushed
    <3> QED BY <3>1, <3>2
  <2>8. task'["rx"].pc = "reset_start" => task["rx"].pc = "reset_start" BY <2>2
  <2> QED BY <2>1, <2>4, <2>5, <2>6, <2>7, <2>8 DEF Hushed
<1>7. ASSUME "overlap" \notin Inputs PROVE Alone'
  <2>1. Alone BY <1>7 DEF SessionInv
  <2>2. Live(t) BY <2>1, <1>1 DEF Alone, TurnIsLive
  <2>3. \A u \in Turns : Live(u)' => u = t /\ g.pc = "unwind"
    <3> SUFFICES ASSUME NEW u \in Turns, Live(u)' PROVE u = t /\ g.pc = "unwind" OBVIOUS
    <3>1. CASE u = t BY <3>1, <1>2 DEF Live
    <3>2. CASE u # t
      <4>1. Live(u) BY <3>2, <1>1, <1>2 DEF Live
      <4> QED BY <4>1, <3>2, <2>1 DEF Alone, OneTurn, Live
    <3> QED BY <3>1, <3>2
  <2>4. OneTurn' BY <2>3 DEF OneTurn, Live
  <2>5. TurnIsLive' BY <1>2 DEF TurnIsLive, Live
  <2>6. Apart' BY <2>1, <1>7, <1>1, <1>2 DEF Alone, Apart
  <2>7. Waited'
    <3> SUFFICES ASSUME NEW d \in Cancellers, task'[d].pc = "cancel_turn",
                        NEW u \in Turns, Live(u)'
                 PROVE  task'[d].on = u
      BY DEF Waited
    <3>1. u = t BY <2>3
    <3>2. CASE d = c BY <3>1, <3>2, <1>2
    <3>3. CASE d # c
      <4>1. task'[d] = task[d] BY <3>3, <1>1, <1>2
      <4> QED BY <4>1, <3>1, <2>1, <2>2 DEF Alone, Waited
    <3> QED BY <3>2, <3>3
  <2>8. HeardAlone'
    <3>1. \A x \in {"rx", "keepalive"} :
            task'[x].pc \in {"await_brain", "reset_start"} => task'[x] = task[x]
      BY <1>1, <1>2
    <3>2. ~Deserted BY <2>2 DEF Deserted
    <3> QED BY <3>1, <3>2, <2>1 DEF Alone, HeardAlone
  <2> QED BY <2>4, <2>5, <2>6, <2>7, <2>8 DEF Alone
<1>8. ASSUME "farewell" \notin Replies PROVE NeverStale' /\ (Solo => QueueIsCurrent')
  <2>1. NeverStale BY <1>8 DEF SessionInv
  <2>2. NeverStale' BY <2>1, <1>8, <1>2 DEF NeverStale
  <2>3. Cancelling' BY <1>2 DEF Cancelling
  <2> QED BY <2>2, <2>3 DEF QueueIsCurrent
<1> QED BY <1>3, <1>4, <1>5, <1>6, <1>7, <1>8, <1>10, <1>11 DEF SessionInv, Keeps

LEMMA NewTurnIsATurn == NewTurn \in Turns
<1> DEFINE P(t) == (\E u \in Turns : task[u].pc = "idle") => task[t].pc = "idle"
<1>1. \E t \in Turns : P(t) BY TurnsAssumption
<1> HIDE DEF P
<1>2. (CHOOSE t \in Turns : P(t)) \in Turns BY <1>1
<1> QED BY <1>2 DEF NewTurn, P

Speeches == {"none", "waiting", "deaf", "open", "played", "done", "raised"}

LEMMA FramesMade ==
  ASSUME NEW pc \in Pcs, NEW gen \in Nat, NEW arg \in Args,
         NEW speech \in Speeches
  PROVE  /\ Frame(pc, gen, speech, arg) \in Frames
         /\ Frame(pc, gen, speech, arg).pc = pc
         /\ Frame(pc, gen, speech, arg).arg = arg
         /\ Frame(pc, gen, speech, arg).speech = speech
BY DEF Frame, Frames, Speeches

LEMMA IdleMade ==
  /\ Idle \in Frames /\ Idle.pc = "idle" /\ Idle.speech = "none"
  /\ Done \in Frames /\ Done.pc = "done" /\ Done.speech = "none"
  /\ \A p \in Pcs : /\ [Idle EXCEPT !.pc = p] \in Frames /\ [Idle EXCEPT !.pc = p].pc = p
                    /\ [Idle EXCEPT !.pc = p].speech = "none"
<1>1. Idle \in Frames /\ Idle.pc = "idle" /\ Idle.speech = "none"
  BY DEF Idle, Frame, Frames, Pcs, Args, Clips
<1>2. \A p \in Pcs : /\ [Idle EXCEPT !.pc = p] \in Frames /\ [Idle EXCEPT !.pc = p].pc = p
                     /\ [Idle EXCEPT !.pc = p].speech = "none"
  BY <1>1 DEF Frames
<1>3. Done = [Idle EXCEPT !.pc = "done"] /\ "done" \in Pcs BY DEF Done, Pcs
<1> QED BY <1>1, <1>2, <1>3

\* A turn begins, when there is none.
LEMMA StartTurnKeeps ==
  ASSUME SessionInv, NEW c \in {"rx", "keepalive"}, NEW z, Calm(s, z), z.turn = s.turn,
         Solo => z.putters = s.putters, StartTurn(c, z),
         task[c].pc \notin {"cancel_begin", "cancel_turn"},
         "overlap" \notin Inputs =>
             Deserted /\ \A x \in {"rx", "keepalive"} \ {c} : task[x].pc = "idle",
         OthersTyped
  PROVE  Keeps
<1> DEFINE t == NewTurn
           f == Frame("new", z.gen, "none", "none")
<1>1. t \in Turns /\ task[t].pc = "idle" /\ ~Resuming
      /\ s' = [z EXCEPT !.state = "thinking", !.turn = t]
      /\ task' = [task EXCEPT ![c] = Idle, ![t] = f]
  BY NewTurnIsATurn DEF StartTurn
<1> HIDE DEF t
<1>2. z \in Attributes /\ Bounded(z) /\ z.gen \in Nat /\ z.gen = s.gen /\ z.closed = s.closed
  <2>1. z \in Attributes /\ Bounded(z) /\ z.gen = s.gen /\ z.closed = s.closed BY DEF Calm
  <2> QED BY <2>1 DEF Attributes
<1>3. f \in Frames /\ f.pc = "new"
  <2>1. "new" \in Pcs /\ "none" \in Args /\ z.gen \in Nat /\ "none" \in Speeches
    BY <1>2 DEF Pcs, Args, Clips, Speeches
  <2> QED BY <2>1, FramesMade
<1> HIDE DEF f
<1>4. s' \in Attributes /\ s'.state = "thinking" /\ s'.turn = t /\ s'.gen = z.gen
      /\ s'.closed = z.closed /\ s'.queue = z.queue /\ s'.putters = z.putters
      /\ s'.liveStale = z.liveStale
  BY <1>1, <1>2 DEF Attributes, States
<1>5. /\ c \in Tasks /\ c \notin Turns /\ NoTurn \notin Turns
      /\ {"rx", "keepalive", "closer", "companion", "stopper", "sensor"} \subseteq Tasks \ Turns
      /\ Turns \subseteq Tasks /\ Cancellers \subseteq Tasks \ Turns /\ t \in Tasks
  BY <1>1, TheTasks
<1>6. /\ task' \in [Tasks -> Frames] /\ task'[c] = Idle /\ task'[t] = f
      /\ \A y \in Tasks : y \notin {c, t} => task'[y] = task[y]
  BY <1>1, <1>3, <1>5, IdleMade DEF SessionInv, TypeOK
<1>13. Proper(s') BY <1>2, <1>4 DEF Proper, Bounded
<1>7. TypeOK' BY <1>6, <1>13, TypesKept DEF SessionInv
<1>8. ToolsSetAClip' BY <1>3, <1>6, IdleMade DEF SessionInv, ToolsSetAClip
<1>9. Purposes' BY <1>3, <1>6, IdleMade DEF SessionInv, Purposes
<1>14. task'["closer"] = task["closer"] BY <1>5, <1>6, <1>1
<1>10. (task["closer"].pc # "idle" => s.closed)' BY <1>2, <1>4, <1>14 DEF SessionInv
<1>15. Calm(s, s')
  <2>1. s.closed => Quieter(s, s') BY <1>4 DEF Calm, Quieter
  <2>2. s.putters = {} /\ Fresh(s) => Fresh(s') BY <1>4 DEF Calm, Fresh
  <2> QED BY <2>1, <2>2, <1>2, <1>4, <1>13 DEF Calm, Proper
<1>16. SilentStep BY <1>14, <1>15, CalmIsSilent
<1>17. ASSUME Solo PROVE Hushed'
  <2>1. Hushed /\ "overlap" \notin Inputs BY <1>17 DEF SessionInv, Solo
  <2>2. \A x \in {"companion", "stopper", "sensor"} : task'[x] = task[x] BY <1>1, <1>5, <1>6
  <2>3. \A x \in {"rx", "keepalive"} : task'[x].pc = "idle"
    BY <2>1, <1>1, <1>5, <1>6, IdleMade
  <2> QED BY <2>1, <2>2, <2>3, <1>4, <1>17 DEF Hushed
<1>11. ASSUME "overlap" \notin Inputs PROVE Alone'
  <2>1. Deserted /\ \A x \in {"rx", "keepalive"} \ {c} : task'[x] = task[x] /\ task[x].pc = "idle"
    BY <1>11, <1>5, <1>6, <1>1
  <2>2. \A u \in Turns : Live(u)' => u = t
    <3> SUFFICES ASSUME NEW u \in Turns, u # t PROVE ~Live(u)' OBVIOUS
    <3>1. task'[u] = task[u] BY <1>5, <1>6
    <3> QED BY <3>1, <2>1 DEF Deserted, Live
  <2>3. OneTurn' /\ TurnIsLive' BY <2>2, <1>3, <1>4, <1>6 DEF OneTurn, TurnIsLive, Live
  <2>4. Apart' BY <1>6, IdleMade DEF Apart
  <2>5. Waited'
    <3> SUFFICES ASSUME NEW d \in Cancellers PROVE task'[d].pc # "cancel_turn" BY DEF Waited
    <3>1. task[d].pc # "cancel_turn"
      <4> SUFFICES ASSUME task[d].pc = "cancel_turn" PROVE FALSE OBVIOUS
      <4>1. task[d].on \in Turns BY <1>5 DEF SessionInv, Purposes
      <4>2. task[task[d].on].pc = "idle" BY <4>1, <2>1 DEF Deserted, Live
      <4> QED BY <4>2, <1>1 DEF Resuming
    <3> QED BY <3>1, <1>5, <1>6, <1>1, IdleMade
  <2>6. HeardAlone'
    <3>1. \A x \in {"rx", "keepalive"} : task'[x].pc = "idle" BY <2>1, <1>6, IdleMade
    <3> QED BY <3>1, <1>4 DEF HeardAlone
  <2> QED BY <2>3, <2>4, <2>5, <2>6 DEF Alone
<1>12. ASSUME "farewell" \notin Replies PROVE NeverStale' /\ (Solo => QueueIsCurrent')
  <2>1. NeverStale /\ (Solo => QueueIsCurrent /\ s.putters = {}) BY <1>12 DEF SessionInv, Hushed
  <2>2. NeverStale' BY <2>1, <1>12, <1>3, <1>4, <1>6, IdleMade DEF NeverStale, Calm
  <2>3. Cancelling => Cancelling' BY <1>1, <1>5, <1>6 DEF Cancelling
  <2> QED BY <2>1, <2>2, <2>3, <1>15 DEF QueueIsCurrent, Calm, Fresh
<1> QED BY <1>7, <1>8, <1>9, <1>10, <1>11, <1>12, <1>16, <1>17 DEF SessionInv, Keeps

\* The receive loop or the keepalive loop begins to wait for the brain.
LEMMA StopListenKeeps ==
  ASSUME SessionInv, NEW c \in {"rx", "keepalive"}, NEW z, Calm(s, z), z.turn = s.turn,
         Solo => z.putters = s.putters,
         NEW why \in Args, StopListen(c, z, why),
         s.state = "listening", task[c].pc \in {"idle", "end_utterance"},
         "overlap" \notin Inputs => \A x \in {"rx", "keepalive"} \ {c} : task[x].pc = "idle",
         OthersTyped
  PROVE  Keeps
<1>1. "overlap" \notin Inputs => Deserted BY DEF SessionInv, Alone, HeardAlone
<1>2. CASE z.brainReady BY <1>1, <1>2, StartTurnKeeps DEF StopListen
<1>3. CASE ~z.brainReady
  <2> DEFINE f == Frame("await_brain", 0, "none", why)
             b == [z EXCEPT !.begin = "running", !.beginGen = z.gen]
  <2>1. s' = (IF z.begin # "none" THEN z ELSE b) /\ task' = [task EXCEPT ![c] = f]
    BY <1>3 DEF StopListen
  <2>2. f \in Frames /\ f.pc = "await_brain"
    <3>1. "await_brain" \in Pcs /\ 0 \in Nat /\ "none" \in Speeches BY DEF Pcs, Speeches
    <3> QED BY <3>1, FramesMade
  <2> HIDE DEF f
  <2>3. Proper(z) BY DEF Calm, Proper
  <2>4. b \in Attributes /\ b.gen = z.gen /\ b.closed = z.closed /\ b.turn = z.turn
        /\ b.queue = z.queue /\ b.putters = z.putters /\ b.state = z.state /\ b.liveStale = z.liveStale
    <3>1. z \in Attributes /\ z.gen \in Nat BY <2>3 DEF Proper, Attributes
    <3> QED BY <3>1 DEF Attributes
  <2> HIDE DEF b
  <2>5. Calm(s, s') /\ s'.turn = s.turn /\ s'.putters = z.putters
    <3>1. CASE s' = z BY <3>1
    <3>2. CASE s' = b
      <4>1. s.closed => Quieter(s, b) BY <2>4 DEF Calm, Quieter
      <4>2. Bounded(b) BY <2>3, <2>4 DEF Proper, Bounded
      <4>3. s.putters = {} /\ Fresh(s) => Fresh(b) BY <2>4 DEF Calm, Fresh
      <4> QED BY <2>4, <3>2, <4>1, <4>2, <4>3 DEF Calm
    <3> QED BY <2>1, <3>1, <3>2
  <2>6. /\ c \in Tasks /\ c \notin Turns /\ Turns \subseteq Tasks /\ Cancellers \subseteq Tasks
        /\ {"rx", "keepalive", "closer", "companion", "stopper", "sensor"} \subseteq Tasks
    BY TheTasks
  <2>7. /\ task' \in [Tasks -> Frames] /\ task'[c] = f
        /\ \A y \in Tasks : y # c => task'[y] = task[y]
    BY <2>1, <2>2, <2>6 DEF SessionInv, TypeOK
  <2>8. TypeOK' BY <2>5, <2>7, TypesKept DEF SessionInv, Calm, Proper
  <2>9. ToolsSetAClip' BY <2>2, <2>7 DEF SessionInv, ToolsSetAClip
  <2>10. Purposes' BY <2>2, <2>7 DEF SessionInv, Purposes
  <2>14. task'["closer"] = task["closer"] BY <2>6, <2>7
  <2>11. (task["closer"].pc # "idle" => s.closed)' BY <2>5, <2>14 DEF SessionInv, Calm
  <2>15. SilentStep BY <2>5, <2>14, CalmIsSilent
  <2>16. ASSUME Solo PROVE Hushed'
    <3>1. Hushed /\ "overlap" \notin Inputs BY <2>16 DEF SessionInv, Solo
    <3>2. \A x \in {"companion", "stopper", "sensor"} : task'[x] = task[x] BY <2>6, <2>7
    <3>3. \A x \in {"rx", "keepalive"} : task'[x].pc = IF x = c THEN "await_brain" ELSE "idle"
      BY <3>1, <2>2, <2>6, <2>7
    <3> QED BY <3>1, <3>2, <3>3, <2>5, <2>16 DEF Hushed
  <2>12. ASSUME "overlap" \notin Inputs PROVE Alone'
    <3>1. Alone /\ Deserted BY <2>12, <1>1 DEF SessionInv
    <3>2. \A t \in Turns : task'[t] = task[t] /\ ~Live(t)' BY <3>1, <2>6, <2>7 DEF Deserted, Live
    <3>3. OneTurn' /\ TurnIsLive'
      BY <3>1, <3>2, <2>5, Start DEF Alone, OneTurn, TurnIsLive, Deserted, Live, SessionInv
    <3>4. Waited' /\ HeardAlone' BY <3>2 DEF Waited, HeardAlone, Deserted
    <3>5. Apart' BY <2>12, <2>6, <2>7 DEF Apart
    <3> QED BY <3>3, <3>4, <3>5 DEF Alone
  <2>13. ASSUME "farewell" \notin Replies PROVE NeverStale' /\ (Solo => QueueIsCurrent')
    <3>1. NeverStale /\ (Solo => QueueIsCurrent /\ s.putters = {}) BY <2>13 DEF SessionInv, Hushed
    <3>2. NeverStale' BY <3>1, <2>13, <2>2, <2>5, <2>7 DEF NeverStale, Calm
    <3>3. Cancelling => Cancelling' BY <2>6, <2>7 DEF Cancelling
    <3> QED BY <3>1, <3>2, <3>3, <2>5 DEF QueueIsCurrent, Calm, Fresh
  <2> QED BY <2>8, <2>9, <2>10, <2>11, <2>12, <2>13, <2>15, <2>16 DEF SessionInv, Keeps
<1> QED BY <1>2, <1>3

LEMMA BeginCancelled ==
  ASSUME NEW h, Proper(h)
  PROVE  LET y == [h EXCEPT !.begin = "cancelled"]
         IN  /\ Proper(y) /\ y.gen = h.gen /\ y.turn = h.turn /\ y.closed = h.closed
             /\ y.state = h.state /\ y.liveStale = h.liveStale /\ y.queue = h.queue /\ y.putters = h.putters
<1> DEFINE y == [h EXCEPT !.begin = "cancelled"]
<1>1. y \in Attributes /\ y.gen = h.gen /\ y.turn = h.turn /\ y.closed = h.closed
      /\ y.state = h.state /\ y.liveStale = h.liveStale /\ y.queue = h.queue /\ y.putters = h.putters
  BY DEF Proper, Attributes
<1> QED BY <1>1 DEF Proper, Bounded

LEMMA ListenOrResetKeeps ==
  ASSUME SessionInv, NEW z, Proper(z), z.queue = <<>>, z.turn = NoTurn, z.putters = s.putters, z.closed = s.closed,
         z.liveStale => s.liveStale \/ "farewell" \in Replies,
         ListenOrReset("rx", z),
         "overlap" \notin Inputs => Deserted /\ task["keepalive"].pc = "idle",
         OthersTyped
  PROVE  Keeps
<1> DEFINE f == IF z.liveStale THEN [Idle EXCEPT !.pc = "reset_start"] ELSE Idle
<1>1. s' = (IF z.liveStale THEN z ELSE Listen(z)) /\ task' = [task EXCEPT !["rx"] = f]
  BY DEF ListenOrReset
<1>2. f \in Frames /\ f.pc \in {"idle", "reset_start"} /\ f.speech = "none"
      /\ (f.pc = "reset_start" => z.liveStale)
  BY IdleMade DEF Pcs
<1> HIDE DEF f
<1>3. z.liveStale => "farewell" \in Replies BY DEF SessionInv, NeverStale
<1>4. Proper(s') /\ s'.turn = NoTurn /\ s'.queue = <<>> /\ s'.liveStale = z.liveStale
      /\ s'.putters = s.putters /\ s'.closed = s.closed
  BY <1>1, ListenProper
<1>5. Fresh(s') BY <1>4 DEF Fresh
<1>6. "rx" \in Cancellers BY DEF Cancellers
<1>7. MayCancel("rx") BY DEF MayCancel
<1> QED BY <1>1, <1>2, <1>3, <1>4, <1>5, <1>6, <1>7, ReturnKeeps

LEMMA AbortedState ==
  ASSUME NEW z, Proper(z), NEW needs
  PROVE  AbortTail(z, needs).state # "listening"
<1> DEFINE y == [z EXCEPT !.awaitingTtsStop = FALSE]
           w == IF needs THEN Put(y, "stop", z.gen) ELSE z
           b == [w EXCEPT !.state = "ready"]
<1>1. AbortTail(z, needs) = IF w.state = "closed" THEN w ELSE b BY DEF AbortTail
<1>2. Proper(y) /\ y.gen = z.gen BY DEF Proper, Attributes, Bounded
<1>3. Proper(Put(y, "stop", z.gen))
  <2> HIDE DEF y
  <2> QED BY <1>2, PutQuiet DEF FrameKinds
<1>4. w \in Attributes BY <1>3 DEF Proper
<1> HIDE DEF w
<1>5. b.state = "ready" BY <1>4 DEF Attributes
<1> QED BY <1>1, <1>5

\* What _cancel_turn returns to.
LEMMA ContinueKeeps ==
  ASSUME SessionInv, NEW c \in Cancellers, NEW then, NEW needs, NEW z,
         Proper(z), z.queue = <<>>, z.turn = NoTurn, z.putters = s.putters,
         IF c = "closer" THEN z.closed ELSE z.closed = s.closed,
         c # "closer" => then # "close", c = "closer" => then = "close", MayCancel(c),
         z.liveStale => s.liveStale \/ "farewell" \in Replies,
         c = "rx" \/ then \in {"abort", "close"},
         Continue(c, then, needs, z),
         "overlap" \notin Inputs =>
             Deserted /\ (c = "rx" => task["keepalive"].pc = "idle"),
         OthersTyped
  PROVE  Keeps
<1> DEFINE a == AbortTail(z, needs)
<1>1. Quiet(z, a) /\ Proper(a) BY AbortTailQuiet
<1>2. Fresh(z) /\ Quiet(z, z) BY SameQuiet DEF Fresh, Proper
<1>6. a.state # "listening" BY AbortedState
<1>3. CASE then \in {"abort", "close"}
  <2> DEFINE f == IF then = "abort" THEN Aborted(c) ELSE Done
  <2>1. s' = (IF then = "abort" THEN a ELSE z) /\ task' = [task EXCEPT ![c] = f]
    BY <1>3 DEF Continue
  <2>2. f \in Frames /\ f.pc \in {"idle", "mcp", "done"} /\ f.speech = "none"
        /\ (f.pc = "done" => c = "closer") /\ (f.pc = "mcp" => c = "companion")
    BY <1>3, IdleMade DEF Aborted, Pcs
  <2>5. s'.state = "listening" => s'.queue = <<>>
    <3>1. then = "close" => s' = z BY <2>1
    <3>2. then = "abort" => s' = a BY <2>1
    <3> QED BY <1>3, <1>6, <3>1, <3>2
  <2> HIDE DEF f, a
  <2>3. Quiet(z, s') /\ Proper(s') BY <1>1, <1>2, <2>1
  <2>4. s'.turn = NoTurn /\ Fresh(s') /\ (s'.closed => s'.queue = <<>>)
        /\ (s'.liveStale => s.liveStale \/ "farewell" \in Replies)
        /\ s'.putters = s.putters /\ (IF c = "closer" THEN s'.closed ELSE s'.closed = s.closed)
    BY <2>3, <1>2 DEF Quiet, Calm
  <2> QED BY <2>1, <2>2, <2>3, <2>4, <2>5, ReturnKeeps
<1>4. CASE then = "start"
  <2>1. c = "rx" /\ ListenOrReset("rx", z) /\ c # "closer" BY <1>4 DEF Continue
  <2> QED BY <2>1, ListenOrResetKeeps
<1>5. CASE then = "detect"
  <2> DEFINE w == ClearWake(a)
             h == CancelHead(w)
  <2>1. c = "rx" /\ IF h.begin = "none" THEN ListenOrReset(c, Drain(h))
                    ELSE /\ s' = [h EXCEPT !.begin = "cancelled"]
                         /\ task' = [task EXCEPT ![c] = Frame("cancel_begin", 0, "none", "start")]
    BY <1>5 DEF Continue
  <2> HIDE DEF a
  <2>2. Quiet(a, w) /\ Proper(w) BY <1>1, ClearWakeQuiet
  <2> HIDE DEF w
  <2>3. Quiet(z, w) BY <1>1, <2>2, QuietTransitive
  <2>4. w.turn = NoTurn /\ (w.closed => w.queue = <<>>) /\ w.putters = s.putters
        /\ w.closed = s.closed /\ w.state # "listening"
        /\ (w.liveStale => s.liveStale \/ "farewell" \in Replies)
    <3>1. c # "closer" /\ z.closed = s.closed BY <2>1
    <3>2. w.state = a.state BY <1>1 DEF w, ClearWake, Proper, Attributes
    <3> QED BY <2>3, <1>6, <3>1, <3>2 DEF Quiet, Calm
  <2>5. /\ Proper(h) /\ h.turn = NoTurn /\ h.closed = w.closed
        /\ h.liveStale = w.liveStale /\ h.queue = w.queue
        /\ h.putters = w.putters /\ h.state = w.state
    BY <2>2, <2>4, HeadProper
  <2> HIDE DEF h
  <2>6. CASE h.begin = "none"
    <3> DEFINE d == Drain(h)
    <3>1. ListenOrReset("rx", d) BY <2>1, <2>6
    <3>2. Proper(d) /\ d.turn = NoTurn /\ d.queue = <<>> /\ d.liveStale = h.liveStale
          /\ d.putters = h.putters /\ d.closed = h.closed
      BY <2>5, DrainProper DEF Proper
    <3> HIDE DEF d
    <3> QED BY <3>1, <3>2, <2>1, <2>4, <2>5, ListenOrResetKeeps
  <2>7. CASE h.begin # "none"
    <3> DEFINE f == Frame("cancel_begin", 0, "none", "start")
    <3>1. s' = [h EXCEPT !.begin = "cancelled"] /\ task' = [task EXCEPT ![c] = f]
      BY <2>1, <2>7
    <3>2. f \in Frames /\ f.pc = "cancel_begin" /\ f.speech = "none" /\ f.arg # "close"
      <4>1. "cancel_begin" \in Pcs /\ "start" \in Args /\ 0 \in Nat /\ "none" \in Speeches
        BY DEF Pcs, Args, Speeches
      <4>2. f \in Frames /\ f.pc = "cancel_begin" /\ f.speech = "none" /\ f.arg = "start"
        BY <4>1, FramesMade
      <4> HIDE DEF f
      <4> QED BY <4>2
    <3> HIDE DEF f
    <3>3. Proper(s') /\ s'.turn = NoTurn /\ s'.closed = h.closed
          /\ s'.liveStale = h.liveStale /\ s'.queue = h.queue
          /\ s'.putters = h.putters /\ s'.state = h.state
      BY <3>1, <2>5, BeginCancelled
    <3> QED BY <3>1, <3>2, <3>3, <2>1, <2>4, <2>5, ReturnKeeps
  <2> QED BY <2>6, <2>7
<1> QED BY <1>3, <1>4, <1>5 DEF Continue

\* The part of _cancel_turn that cancels the turn.
LEMMA CancelRunningKeeps ==
  ASSUME SessionInv, NEW c \in Cancellers, NEW then \in Args, NEW needs \in BOOLEAN, NEW z,
         Proper(z), z.turn = s.turn, z.queue = s.queue, z.putters = s.putters,
         IF c = "closer" THEN z.closed ELSE z.closed = s.closed,
         c # "closer" => then # "close", c = "closer" => then = "close", MayCancel(c),
         c = "rx" => task["rx"].pc # "await_brain",
         z.state = "listening" => s.state = "listening",
         z.liveStale => s.liveStale \/ "farewell" \in Replies,
         c = "rx" \/ then \in {"abort", "close"},
         CancelRunning(c, then, needs, z),
         "overlap" \notin Inputs => (c = "rx" => task["keepalive"].pc = "idle"),
         OthersTyped
  PROVE  Keeps
<1>1. z \in Attributes /\ z.turn \in Turns \cup {NoTurn} BY DEF Proper, Attributes
<1>2. CASE z.turn = NoTurn
  <2> DEFINE d == Drain(z)
  <2>1. Continue(c, then, needs, d) BY <1>2 DEF CancelRunning
  <2>2. Proper(d) /\ d.turn = NoTurn /\ d.queue = <<>> /\ d.liveStale = z.liveStale
        /\ d.putters = z.putters /\ d.closed = z.closed
    BY <1>1, <1>2, DrainProper
  <2>3. "overlap" \notin Inputs => Deserted
    BY <1>2, TurnsAssumption DEF SessionInv, Alone, OneTurn, Deserted, Live
  <2> HIDE DEF d
  <2> QED BY <2>1, <2>2, <2>3, ContinueKeeps
<1>3. CASE z.turn # NoTurn
  <2> DEFINE t == z.turn
             ends == task[t].pc \in {"new", "reset"}
             g == IF ends THEN Idle ELSE [task[t] EXCEPT !.pc = "unwind"]
             f == [Frame("cancel_turn", 0, "none", then) EXCEPT !.needs = needs, !.on = t]
  <2>1. t \in Turns /\ s.turn = t BY <1>1, <1>3
  <2>2. c \notin Turns /\ t \in Tasks BY <2>1, TurnsAssumption DEF Cancellers, Loops, Tasks
  <2>3. s' = (IF ends THEN Free(z, t) ELSE z) /\ task' = [task EXCEPT ![t] = g, ![c] = f]
    BY <1>3 DEF CancelRunning
  <2>4. task[t] \in Frames BY <2>2 DEF SessionInv, TypeOK
  <2>5. g \in Frames /\ g.pc = (IF ends THEN "idle" ELSE "unwind")
        /\ (g.pc = "idle" => g.speech = "none")
    <3>1. [task[t] EXCEPT !.pc = "unwind"] \in Frames
          /\ [task[t] EXCEPT !.pc = "unwind"].pc = "unwind"
      BY <2>4 DEF Frames, Pcs
    <3> QED BY <3>1, IdleMade
  <2>6. f \in Frames /\ f.pc = "cancel_turn" /\ f.arg = then /\ f.on = t /\ f.speech = "none"
    BY <2>1 DEF Frame, Frames, Pcs
  <2>7. Proper(s') /\ s'.turn = (IF ends THEN NoTurn ELSE t) /\ s'.queue = z.queue
        /\ s'.putters = z.putters
        /\ s'.closed = z.closed /\ s'.state = z.state /\ s'.liveStale = z.liveStale
    <3> DEFINE y == [z EXCEPT !.turn = NoTurn]
    <3>1. Free(z, t) = y BY <1>1 DEF Free, Attributes
    <3>2. y \in Attributes /\ y.turn = NoTurn /\ y.queue = z.queue /\ y.putters = z.putters /\ y.gen = z.gen
          /\ y.closed = z.closed /\ y.state = z.state /\ y.liveStale = z.liveStale
      BY <1>1 DEF Attributes
    <3>3. Proper(y) BY <3>2 DEF Proper, Bounded
    <3> HIDE DEF y
    <3> QED BY <2>3, <3>1, <3>2, <3>3
  <2> HIDE DEF ends, f, g
  <2>8. g.pc \in {"idle", "unwind"} /\ s'.turn = IF g.pc = "idle" THEN NoTurn ELSE t
    BY <2>5, <2>7
  <2>9. s'.queue = s.queue /\ (IF c = "closer" THEN s'.closed ELSE s'.closed = s.closed)
        /\ s'.putters = s.putters
        /\ (s'.state = "listening" => s.state = "listening")
        /\ (s'.liveStale => s.liveStale \/ "farewell" \in Replies)
    BY <2>7
  <2> HIDE DEF t
  <2> QED BY <2>1, <2>3, <2>5, <2>6, <2>7, <2>8, <2>9, TurnWaitKeeps
<1> QED BY <1>2, <1>3

LEMMA CancelTurnKeeps ==
  ASSUME SessionInv, NEW c \in Cancellers, NEW then \in Args, NEW needs \in BOOLEAN, NEW z,
         Proper(z), z.turn = s.turn, z.queue = s.queue, z.putters = s.putters,
         IF c = "closer" THEN z.closed ELSE z.closed = s.closed,
         c # "closer" => then # "close", c = "closer" => then = "close", MayCancel(c),
         c = "rx" => task["rx"].pc # "await_brain",
         z.state = "listening" => s.state = "listening",
         z.liveStale => s.liveStale \/ "farewell" \in Replies,
         c = "rx" \/ then \in {"abort", "close"},
         CancelTurn(c, then, needs, z),
         "overlap" \notin Inputs => (c = "rx" => task["keepalive"].pc = "idle"),
         OthersTyped
  PROVE  Keeps
<1> DEFINE h == CancelHead(z)
<1>1. /\ Proper(h) /\ h.turn = s.turn /\ h.queue = s.queue
      /\ IF c = "closer" THEN h.closed ELSE h.closed = s.closed
      /\ h.putters = s.putters
      /\ h.state = "listening" => s.state = "listening"
      /\ h.liveStale => s.liveStale \/ "farewell" \in Replies
  BY HeadProper
<1>2. IF h.begin = "none" THEN CancelRunning(c, then, needs, h)
      ELSE /\ s' = [h EXCEPT !.begin = "cancelled"]
           /\ task' = [task EXCEPT ![c] =
                  [Frame("cancel_begin", 0, "none", then) EXCEPT !.needs = needs]]
  BY DEF CancelTurn
<1> HIDE DEF h
<1>3. CASE h.begin = "none" BY <1>1, <1>2, <1>3, CancelRunningKeeps
<1>4. CASE h.begin # "none"
  <2> DEFINE f == [Frame("cancel_begin", 0, "none", then) EXCEPT !.needs = needs]
  <2>1. f \in Frames /\ f.pc = "cancel_begin" /\ f.arg = then /\ f.speech = "none"
    BY DEF Frame, Frames, Pcs
  <2>2. s' = [h EXCEPT !.begin = "cancelled"] /\ task' = [task EXCEPT ![c] = f]
    BY <1>2, <1>4
  <2> HIDE DEF f
  <2>3. Proper(s') /\ s'.turn = h.turn /\ s'.closed = h.closed /\ s'.state = h.state
        /\ s'.liveStale = h.liveStale /\ s'.queue = h.queue
        /\ s'.putters = h.putters
    BY <2>2, <1>1, BeginCancelled
  <2> QED BY <2>1, <2>2, <2>3, <1>1, BeginWaitKeeps
<1> QED BY <1>3, <1>4
-----------------------------------------------------------------------------
-----------------------------------------------------------------------------
\* The steps.

LEMMA SpeechEdit ==
  ASSUME NEW g \in Frames, NEW v \in Speeches
  PROVE  /\ [g EXCEPT !.speech = v] \in Frames /\ [g EXCEPT !.speech = v].speech = v
         /\ [g EXCEPT !.speech = v].pc = g.pc /\ [g EXCEPT !.speech = v].arg = g.arg
BY DEF Frames, Speeches

LEMMA PcEdit ==
  ASSUME NEW g \in Frames, NEW p \in Pcs
  PROVE  /\ [g EXCEPT !.pc = p] \in Frames /\ [g EXCEPT !.pc = p].pc = p
         /\ [g EXCEPT !.pc = p].speech = g.speech /\ [g EXCEPT !.pc = p].arg = g.arg
BY DEF Frames

LEMMA SpeakersAreTasks ==
  /\ Speakers \subseteq Tasks /\ Speakers \subseteq Turns \cup {"companion", "stopper", "sensor"}
  /\ Cancellers \subseteq Tasks /\ Turns \subseteq Speakers
  /\ {"companion", "sensor"} \subseteq Speakers /\ "stopper" \in Tasks
  /\ Turns \cap Cancellers = {} /\ "rx" \notin Speakers /\ "rx" \in Cancellers
  /\ "sensor" \notin Cancellers /\ "companion" \notin Turns /\ "sensor" \notin Turns
  /\ "stopper" \notin Turns /\ NoTurn \notin Turns
BY TurnsAssumption DEF Speakers, Tasks, Loops, Cancellers

\* A coroutine that speaks beside the turns is at rest under Solo.
LEMMA AloneSpeaks ==
  ASSUME SessionInv, Solo
  PROVE  /\ task["companion"].pc \in {"idle", "mcp", "cancel_begin", "cancel_turn"}
         /\ task["sensor"].pc = "idle" /\ s.putters = {}
         /\ task["companion"].speech = "none" /\ task["sensor"].speech = "none"
BY TheTasks DEF SessionInv, Hushed, Purposes

\* A speak task goes on.
LEMMA SpeakKeeps ==
  ASSUME SessionInv, NEW x \in Speakers, task[x].speech # "none",
         NEW v \in Speeches \ {"none"}, task' = [task EXCEPT ![x].speech = v],
         Calm(s, s'), s'.turn = s.turn, x \in Turns => s'.putters = s.putters, OthersTyped
  PROVE  Keeps
<1> DEFINE f == [task[x] EXCEPT !.speech = v]
<1>1. task[x] \in Frames BY SpeakersAreTasks DEF SessionInv, TypeOK
<1>2. task' = [task EXCEPT ![x] = f] OBVIOUS
<1>3. v \in Speeches /\ v # "none" OBVIOUS
<1>4. f \in Frames /\ f.speech = v /\ f.pc = task[x].pc /\ f.arg = task[x].arg
  BY <1>1, <1>3, SpeechEdit
<1> HIDE DEF f
<1>5. task[x].pc \notin {"idle", "mcp", "cancel_begin", "cancel_turn", "reset_start", "end_utterance"}
        /\ (task[x].pc = "goodbye" => x = "companion")
  BY SpeakersAreTasks, TheTasks DEF SessionInv, Purposes, Speakers
<1>6. task[x].pc = "tools" => task[x].arg \in Clips
  BY SpeakersAreTasks DEF SessionInv, ToolsSetAClip
<1>9. x \in Tasks \ {"closer", "rx", "keepalive"} BY SpeakersAreTasks, TheTasks
<1>7. Harmless(x, f) BY <1>3, <1>4, <1>5, <1>6, <1>9 DEF Harmless
<1>8. Muted(x, f) BY <1>5, AloneSpeaks, SpeakersAreTasks DEF Muted, Speakers
<1> QED BY <1>2, <1>4, <1>5, <1>7, <1>8, <1>9, HarmlessKeeps

\* The window is closed by the speak task that opened it.
LEMMA ShutCalm ==
  ASSUME TypeOK, NEW x \in Tasks, Shut(x)
  PROVE  Calm(s, s') /\ s'.turn = s.turn /\ (x \in Turns => s'.putters = s.putters)
<1> DEFINE y == IF task[x].speech \in {"waiting", "deaf"} THEN s ELSE CloseSpeech(s, task[x].gen)
<1>1. Proper(s) /\ Quiet(s, s) BY Start
<1>2. Quiet(s, y) BY <1>1, CloseSpeechQuiet
<1>3. s' = Await(x, y) BY DEF Shut
<1> HIDE DEF y
<1>4. x \in Turns => s' = y BY <1>1, <1>2, <1>3, AwaitCalm
<1> QED BY <1>1, <1>2, <1>3, <1>4, AwaitCalm DEF Quiet

LEMMA SpeechKeeps ==
  ASSUME SessionInv, NEW x \in Speakers, SpeechStep(x)
  PROVE  Keeps
<1>1. Proper(s) /\ s.gen \in Nat /\ Quiet(s, s) /\ x \in Tasks /\ TypeOK
  BY Start, SpeakersAreTasks DEF SessionInv
<1>2. OthersTyped
  BY OthersUnchanged
  DEF SessionInv, SpeechStep, FirstSentence, StreamPacket, SpeechDone, SpeechRaises, SpeechRuns
<1>3. CASE FirstSentence(x)
  <2> DEFINE y == OpenSpeech(s)
  <2>1. Quiet(s, y) /\ s' = Await(x, y) BY <1>1, <1>3, OpenSpeechQuiet DEF FirstSentence
  <2>2. task[x].speech # "none" /\ task' = [task EXCEPT ![x].speech = "open"]
        /\ "open" \in Speeches \ {"none"}
    BY <1>3 DEF FirstSentence, Speech, Speeches
  <2> HIDE DEF y
  <2>3. Calm(s, s') /\ s'.turn = s.turn /\ (x \in Turns => s' = y) BY <1>1, <2>1, AwaitCalm
  <2>4. x \in Turns => s'.putters = s.putters BY <2>1, <2>3 DEF Quiet
  <2> QED BY <2>2, <2>3, <2>4, <1>2, SpeakKeeps
<1>4. CASE StreamPacket(x)
  <2> DEFINE y == Put(s, "audio", s.gen)
             w == [y EXCEPT !.ttsPlayed = TRUE]
  <2>1. Quiet(s, y) /\ Proper(y) BY <1>1, PutQuiet DEF FrameKinds
  <2> HIDE DEF y
  <2>2. w \in Attributes /\ w.gen = y.gen /\ w.closed = y.closed /\ w.turn = y.turn
        /\ w.queue = y.queue /\ w.putters = y.putters /\ w.state = y.state
        /\ w.liveStale = y.liveStale
    BY <2>1 DEF Proper, Attributes
  <2>3. s' = Await(x, w) BY <1>4 DEF StreamPacket, y
  <2> HIDE DEF w
  <2>4. Quiet(s, w) BY <2>1, <2>2, SameQuiet, QuietTransitive
  <2>5. task[x].speech # "none" /\ task' = [task EXCEPT ![x].speech = "played"]
        /\ "played" \in Speeches \ {"none"}
    BY <1>4 DEF StreamPacket, Speech, Speeches
  <2>6. Calm(s, s') /\ s'.turn = s.turn /\ (x \in Turns => s' = w) BY <1>1, <2>3, <2>4, AwaitCalm
  <2>7. x \in Turns => s'.putters = s.putters BY <2>4, <2>6 DEF Quiet
  <2> QED BY <2>5, <2>6, <2>7, <1>2, SpeakKeeps
<1>5. CASE SpeechDone(x) \/ SpeechRaises(x)
  <2>1. Shut(x) /\ task[x].speech # "none" BY <1>5 DEF SpeechDone, SpeechRaises
  <2>2. Calm(s, s') /\ s'.turn = s.turn /\ (x \in Turns => s'.putters = s.putters)
    BY <1>1, <2>1, ShutCalm
  <2>3. PICK to \in {"done", "deaf", "raised"} : task' = [task EXCEPT ![x].speech = to]
    BY <1>5 DEF SpeechDone, SpeechRaises, Speech, Ends
  <2>4. to \in Speeches \ {"none"} BY DEF Speeches
  <2> QED BY <2>1, <2>2, <2>3, <2>4, <1>2, SpeakKeeps
<1> QED BY <1>3, <1>4, <1>5 DEF SpeechStep

\* _cancel_turn goes on.
LEMMA CancelKeeps ==
  ASSUME SessionInv, NEW c \in Cancellers, CancelStep(c)
  PROVE  Keeps
<1>1. Proper(s) /\ s \in Attributes BY Start DEF SessionInv
<1>2. OthersTyped BY OthersUnchanged DEF SessionInv, CancelStep, BeginGone, TurnGone
<1>3. c \in Tasks /\ task[c] \in Frames BY SpeakersAreTasks DEF SessionInv, TypeOK
<1>4. task[c].arg \in Args /\ task[c].needs \in BOOLEAN BY <1>3 DEF Frames
<1>5. task[c].pc \in {"cancel_begin", "cancel_turn"} BY DEF CancelStep, BeginGone, TurnGone
<1>6. c = "rx" \/ task[c].arg \in {"abort", "close"} BY <1>3, <1>5 DEF SessionInv, Purposes
<1>7. "overlap" \notin Inputs => (c = "rx" => task["keepalive"].pc = "idle")
  BY <1>5 DEF SessionInv, Alone, Apart
<1>10. /\ c # "closer" => task[c].arg # "close"
       /\ c = "closer" => task[c].arg = "close" /\ s.closed
  BY <1>3, <1>5, <1>6 DEF SessionInv, Purposes
<1>11. MayCancel(c)
  <2> SUFFICES ASSUME Solo, "farewell" \in Replies PROVE c \in {"rx", "closer"} BY DEF MayCancel
  <2>1. task["companion"].pc = "idle" /\ task["stopper"].pc = "idle" BY DEF SessionInv, Hushed
  <2> QED BY <2>1, <1>5 DEF Cancellers
<1>8. CASE BeginGone(c)
  <2>1. CancelRunning(c, task[c].arg, task[c].needs, s) BY <1>8 DEF BeginGone
  <2> QED BY <2>1, <1>1, <1>2, <1>4, <1>5, <1>6, <1>7, <1>10, <1>11, CancelRunningKeeps
<1>9. CASE TurnGone(c)
  <2> DEFINE y == [s EXCEPT !.turn = NoTurn]
             d == Drain(y)
  <2>1. y \in Attributes /\ y.turn = NoTurn /\ y.liveStale = s.liveStale /\ y.queue = s.queue
        /\ y.putters = s.putters /\ y.closed = s.closed /\ y.gen = s.gen
    BY <1>1 DEF Attributes
  <2>5. Proper(y) BY <2>1, <1>1 DEF Proper, Bounded
  <2>2. Continue(c, task[c].arg, task[c].needs, d)
        /\ task[c].pc = "cancel_turn" /\ task[task[c].on].pc = "idle"
    BY <1>9 DEF TurnGone
  <2> HIDE DEF y
  <2>3. Proper(d) /\ d.turn = NoTurn /\ d.queue = <<>> /\ d.liveStale = s.liveStale
        /\ d.putters = s.putters /\ d.closed = s.closed
    BY <2>1, <2>5, DrainProper
  <2> HIDE DEF d
  <2>4. "overlap" \notin Inputs => Deserted
    BY <2>2 DEF SessionInv, Alone, Waited, Deserted, Live
  <2> QED BY <2>2, <2>3, <2>4, <1>2, <1>6, <1>7, <1>10, <1>11, ContinueKeeps
<1> QED BY <1>8, <1>9 DEF CancelStep

\* A task object is done.
LEMMA FreeCalm ==
  ASSUME NEW y, NEW z, Quiet(y, z), y.turn \in Turns \cup {NoTurn}, NEW x
  PROVE  /\ Calm(y, Free(z, x))
         /\ Free(z, x).putters = y.putters /\ Free(z, x).queue = z.queue
         /\ Free(z, x).turn = IF x \in Turns /\ y.turn = x THEN NoTurn ELSE y.turn
<1> DEFINE w == Free(z, x)
<1>1. z \in Attributes /\ z.turn = y.turn /\ z.putters = y.putters /\ Calm(y, z) BY DEF Quiet, Calm
<1>2. w \in Attributes /\ w.gen = z.gen /\ w.closed = z.closed
      /\ w.queue = z.queue /\ w.putters = z.putters /\ w.state = z.state /\ w.liveStale = z.liveStale
      /\ w.turn = IF z.turn = x THEN NoTurn ELSE z.turn
  BY <1>1 DEF Free, Attributes
<1> HIDE DEF w
<1>5. y.closed => Quieter(y, w) BY <1>1, <1>2 DEF Calm, Quieter
<1>3. Calm(y, w) BY <1>1, <1>2, <1>5 DEF Calm, Bounded, Fresh
<1>4. w.turn = IF x \in Turns /\ y.turn = x THEN NoTurn ELSE y.turn
  BY <1>1, <1>2
<1> QED BY <1>1, <1>2, <1>3, <1>4 DEF w

\* The reset of a stale Live session is over.
LEMMA ResetKeeps ==
  ASSUME SessionInv, NEW x \in Turns \cup {"rx", "companion"}, ResetDone(x)
  PROVE  Keeps
<1>1. Proper(s) /\ s \in Attributes /\ s.turn \in Turns \cup {NoTurn} BY Start DEF SessionInv
<1>2. OthersTyped BY OthersUnchanged DEF SessionInv, ResetDone
<1>3. x \in Tasks BY SpeakersAreTasks
<1>4. "farewell" \in Replies BY <1>3 DEF SessionInv, NeverStale, ResetDone
<1>5. PICK failed \in {FALSE, "reset" \in Faults} :
         LET z == [s EXCEPT !.liveStale = failed /\ ~s.closed]
         IN  IF task[x].pc = "reset_start"
             THEN s' = Listen(z) /\ task' = [task EXCEPT ![x] = Idle]
             ELSE s' = Free(z, x) /\ task' = [task EXCEPT ![x] = Idle]
  BY DEF ResetDone
<1> DEFINE z == [s EXCEPT !.liveStale = failed /\ ~s.closed]
<1>6. z \in Attributes /\ z.gen = s.gen /\ z.closed = s.closed /\ z.turn = s.turn
      /\ z.queue = s.queue /\ z.putters = s.putters /\ z.state = s.state
  BY <1>1 DEF Attributes
<1>7. Quiet(s, z) /\ Proper(z) BY <1>1, <1>4, <1>6, SameQuiet DEF Proper, Bounded
<1>8. CASE task[x].pc = "reset_start"
  <2>1. x = "rx" /\ x \in Cancellers BY <1>3, <1>8, SpeakersAreTasks DEF SessionInv, Purposes
  <2>2. s' = Listen(z) /\ task' = [task EXCEPT ![x] = Idle] BY <1>5, <1>8
  <2> HIDE DEF z
  <2>3. Proper(s') /\ s'.turn = s.turn /\ s'.closed = s.closed /\ s'.queue = s.queue
        /\ s'.putters = s.putters
    BY <2>2, <1>6, <1>7, ListenProper
  <2>4. "overlap" \notin Inputs => Deserted /\ task["keepalive"].pc = "idle"
    BY <2>1, <1>8 DEF SessionInv, Alone, Apart, HeardAlone
  <2>5. Solo => s.queue = <<>> BY <2>1, <1>8 DEF SessionInv, Hushed
  <2>6. MayCancel(x) BY <2>1 DEF MayCancel
  <2> QED BY <2>1, <2>2, <2>3, <2>4, <2>5, <2>6, <1>2, <1>4, IdleMade, ReturnKeeps
<1>9. CASE task[x].pc # "reset_start"
  <2>1. s' = Free(z, x) /\ task' = [task EXCEPT ![x] = Idle] /\ task[x].pc = "reset"
    BY <1>5, <1>9 DEF ResetDone
  <2> HIDE DEF z
  <2>2. x \in Turns \cup {"companion"}
    BY <1>3, <2>1, SpeakersAreTasks DEF SessionInv, Purposes
  <2>6. x \in Tasks \ {"closer", "rx", "keepalive"} BY <2>2, TheTasks
  <2>3. Harmless(x, Idle) BY <2>1, <2>6, IdleMade DEF Harmless
  <2>4. Calm(s, s') /\ s'.putters = s.putters
        /\ s'.turn = IF x \in Turns /\ s.turn = x THEN NoTurn ELSE s.turn
    BY <2>1, <2>2, <1>1, <1>7, FreeCalm
  <2>5. s'.turn = IF x \in Turns /\ Idle.pc = "idle" /\ s.turn = x THEN NoTurn ELSE s.turn
    BY <2>4, IdleMade
  <2>7. Muted(x, Idle) BY <2>1, <2>2, <2>4, AloneSpeaks DEF Muted
  <2> QED BY <2>1, <2>3, <2>4, <2>5, <2>6, <2>7, <1>2, HarmlessKeeps
<1> QED BY <1>8, <1>9
-----------------------------------------------------------------------------
\* The turns.

\* A coroutine goes on to where it neither ends nor dispatches tools.
LEMMA MovesKeeps ==
  ASSUME SessionInv, NEW x \in Turns \cup {"companion", "stopper", "sensor"}, NEW f \in Frames,
         f.pc \notin {"idle", "tools", "reset", "reset_start", "cancel_begin", "cancel_turn", "mcp",
                   "goodbye", "end_utterance"},
         task[x].pc \notin {"cancel_begin", "cancel_turn"},
         x \in Turns => task[x].pc # "idle",
         task' = [task EXCEPT ![x] = f], Calm(s, s'), s'.turn = s.turn,
         Solo => x \in Turns, x \in Turns => s'.putters = s.putters, OthersTyped
  PROVE  Keeps
<1>3. x \in Tasks \ {"closer", "rx", "keepalive"} BY TheTasks
<1>1. Harmless(x, f) BY <1>3 DEF Harmless
<1>2. Muted(x, f) BY DEF Muted
<1> QED BY <1>1, <1>2, <1>3, HarmlessKeeps

\* A coroutine ends; a turn is done with it.
LEMMA EndsKeeps ==
  ASSUME SessionInv, NEW x \in Turns \cup {"companion", "stopper", "sensor"}, NEW y, Quiet(s, y),
         task[x].pc \notin {"cancel_begin", "cancel_turn"},
         task' = [task EXCEPT ![x] = Idle], s' = Free(y, x) \/ (x \notin Turns /\ s' = y),
         x \in Turns => task[x].pc # "idle",
         Solo => x \in Turns \/ (x \in {"companion", "stopper"} /\ y.queue = s.queue),
         OthersTyped
  PROVE  Keeps
<1>5. x \in Tasks \ {"closer", "rx", "keepalive"} BY TheTasks
<1>1. Harmless(x, Idle) BY <1>5, IdleMade DEF Harmless
<1>2. s.turn \in Turns \cup {NoTurn} BY Start DEF SessionInv
<1>3. Calm(s, s') /\ s'.putters = s.putters /\ s'.queue = y.queue
      /\ s'.turn = IF x \in Turns /\ s.turn = x THEN NoTurn ELSE s.turn
  <2>1. CASE s' = Free(y, x) BY <2>1, <1>2, FreeCalm
  <2>2. CASE x \notin Turns /\ s' = y BY <2>2 DEF Quiet
  <2> QED BY <2>1, <2>2
<1>4. s'.turn = IF x \in Turns /\ Idle.pc = "idle" /\ s.turn = x THEN NoTurn ELSE s.turn
  BY <1>3, IdleMade
<1>6. Muted(x, Idle) BY <1>3, IdleMade DEF Muted
<1> QED BY <1>1, <1>3, <1>4, <1>5, <1>6, HarmlessKeeps

LEMMA TurnFacts ==
  ASSUME SessionInv, NEW t \in Turns
  PROVE  /\ t \in Tasks /\ task[t] \in Frames /\ task[t].gen \in Nat
         /\ task[t].pc \in Pcs /\ task[t].arg \in Args /\ task[t].speech \in Speeches
         /\ task[t].pc \notin {"cancel_begin", "cancel_turn", "reset_start"}
         /\ Proper(s) /\ s \in Attributes /\ Quiet(s, s)
<1>1. t \in Tasks /\ t \notin Cancellers BY SpeakersAreTasks
<1>2. task[t] \in Frames BY <1>1 DEF SessionInv, TypeOK
<1>3. task[t].gen \in Nat /\ task[t].pc \in Pcs /\ task[t].arg \in Args
      /\ task[t].speech \in Speeches
  BY <1>2 DEF Frames, Speeches
<1>4. task[t].pc \notin {"cancel_begin", "cancel_turn", "reset_start"}
  BY <1>1 DEF SessionInv, Purposes
<1>5. Proper(s) /\ s \in Attributes /\ Quiet(s, s) BY Start DEF SessionInv
<1> QED BY <1>1, <1>2, <1>3, <1>4, <1>5

LEMMA SettledKeeps ==
  ASSUME SessionInv, NEW t \in Turns, task[t].pc # "idle", NEW z, Quiet(s, z), Proper(z),
         Settled(t, z), OthersTyped
  PROVE  Keeps
<1> DEFINE y == Settle(z, task[t].gen)
           f == [task[t] EXCEPT !.pc = "reset"]
<1>1. Quiet(s, y) BY SettleQuiet, QuietTransitive
<1>2. task[t].pc \notin {"cancel_begin", "cancel_turn"} /\ task[t] \in Frames BY TurnFacts
<1>3. CASE z.awaitingWake /\ ~z.closed /\ z.liveStale
  <2>1. s' = y /\ task' = [task EXCEPT ![t] = f] BY <1>3 DEF Settled
  <2>2. "farewell" \in Replies BY <1>3 DEF SessionInv, NeverStale, Quiet, Calm
  <2>3. "reset" \in Pcs BY DEF Pcs
  <2>4. f \in Frames /\ f.pc = "reset" BY <1>2, <2>3, PcEdit
  <2> HIDE DEF f, y
  <2>7. t \in Tasks \ {"closer", "rx", "keepalive"} BY TheTasks
  <2>5. Harmless(t, f) BY <1>2, <2>2, <2>4, <2>7, SpeakersAreTasks DEF Harmless
  <2>6. Calm(s, s') /\ s'.turn = s.turn /\ s'.putters = s.putters BY <1>1, <2>1 DEF Quiet
  <2>8. Muted(t, f) BY <2>6 DEF Muted
  <2> QED BY <2>1, <2>4, <2>5, <2>6, <2>7, <2>8, HarmlessKeeps
<1>4. CASE ~(z.awaitingWake /\ ~z.closed /\ z.liveStale)
  <2>1. s' = Free(y, t) /\ task' = [task EXCEPT ![t] = Idle] BY <1>4 DEF Settled
  <2> HIDE DEF y
  <2> QED BY <2>1, <1>1, <1>2, EndsKeeps
<1> QED BY <1>3, <1>4

LEMMA FinallyKeeps ==
  ASSUME SessionInv, NEW t \in Turns, task[t].pc # "idle", NEW z, Quiet(s, z), Proper(z),
         Finally(t, z), OthersTyped
  PROVE  Keeps
<1> DEFINE o == [z EXCEPT !.pendingMusic = "none"]
           w == [o EXCEPT !.awaitingTtsStop = FALSE]
           device == Frame("device", task[t].gen, "none", "device")
           music == Frame("music", task[t].gen, "open", "stream")
<1>1. \/ Settled(t, z)
      \/ s' = o /\ task' = [task EXCEPT ![t] = device]
      \/ /\ s' = IF o.state = "speaking" THEN w ELSE OpenSpeech(o)
         /\ task' = [task EXCEPT ![t] = music]
  BY DEF Finally
<1>2. task[t].pc \notin {"cancel_begin", "cancel_turn"} /\ task[t].gen \in Nat BY TurnFacts
<1>3. device \in Frames /\ device.pc = "device" /\ music \in Frames /\ music.pc = "music"
  <2>1. {"device", "music"} \subseteq Pcs /\ {"device", "stream"} \subseteq Args
    BY DEF Pcs, Args, Clips
  <2>2. {"none", "open"} \subseteq Speeches BY DEF Speeches
  <2> QED BY <1>2, <2>1, <2>2, FramesMade
<1> HIDE DEF device, music
<1>4. o \in Attributes /\ o.gen = z.gen /\ o.closed = z.closed /\ o.turn = z.turn
      /\ o.queue = z.queue /\ o.putters = z.putters /\ o.state = z.state /\ o.liveStale = z.liveStale
  BY DEF Proper, Attributes, Clips
<1> HIDE DEF o
<1>5. Quiet(s, o) /\ Proper(o) BY <1>4, SameQuiet, QuietTransitive DEF Proper, Bounded
<1>6. w \in Attributes /\ w.gen = o.gen /\ w.closed = o.closed /\ w.turn = o.turn
      /\ w.queue = o.queue /\ w.putters = o.putters /\ w.state = o.state /\ w.liveStale = o.liveStale
  BY <1>4 DEF Attributes
<1> HIDE DEF w
<1>7. Quiet(s, w) /\ Quiet(s, OpenSpeech(o))
  BY <1>5, <1>6, SameQuiet, OpenSpeechQuiet, QuietTransitive
<1>8. CASE Settled(t, z) BY <1>8, SettledKeeps
<1>9. CASE s' = o /\ task' = [task EXCEPT ![t] = device]
  BY <1>9, <1>2, <1>3, <1>5, MovesKeeps DEF Quiet
<1>10. CASE /\ s' = IF o.state = "speaking" THEN w ELSE OpenSpeech(o)
            /\ task' = [task EXCEPT ![t] = music]
  BY <1>10, <1>2, <1>3, <1>7, MovesKeeps DEF Quiet
<1> QED BY <1>1, <1>8, <1>9, <1>10

\* A _speak begins.
LEMMA SayKeeps ==
  ASSUME SessionInv, NEW x \in Speakers, NEW pc \in {"say", "announce"}, NEW z,
         Quiet(s, z), Proper(z), Say(x, pc, z),
         task[x].pc \notin {"idle", "cancel_begin", "cancel_turn"}, Solo => x \in Turns,
         OthersTyped
  PROVE  Keeps
<1> DEFINE f == [task[x] EXCEPT !.pc = pc, !.speech = "open"]
           y == OpenSpeech(z)
<1>1. s' = Await(x, y) /\ task' = [task EXCEPT ![x] = f] BY DEF Say
<1>2. Quiet(s, y) BY OpenSpeechQuiet, QuietTransitive
<1>3. pc \in Pcs /\ "open" \in Speeches BY DEF Pcs, Speeches
<1>4. x \in Tasks /\ task[x] \in Frames BY SpeakersAreTasks DEF SessionInv, TypeOK
<1>5. f \in Frames /\ f.pc = pc BY <1>3, <1>4 DEF Frames
<1> HIDE DEF f, y
<1>6. Proper(s) BY Start DEF SessionInv
<1>7. Calm(s, s') /\ s'.turn = s.turn /\ (x \in Turns => s' = y) BY <1>1, <1>2, <1>4, <1>6, AwaitCalm
<1>8. x \in Turns => s'.putters = s.putters BY <1>2, <1>7 DEF Quiet
<1> QED BY <1>1, <1>5, <1>7, <1>8, SpeakersAreTasks, MovesKeeps

\* A coroutine goes on elsewhere, and the session stays as it is.
LEMMA GotoKeeps ==
  ASSUME SessionInv, NEW x \in Speakers, NEW pc \in {"unwind", "expired", "drain", "say"},
         Calm(s, s'), s'.turn = s.turn, x \in Turns => s'.putters = s.putters,
         task' = Goto(x, pc),
         task[x].pc \notin {"idle", "cancel_begin", "cancel_turn"}, Solo => x \in Turns,
         OthersTyped
  PROVE  Keeps
<1> DEFINE f == [task[x] EXCEPT !.pc = pc]
<1>1. task' = [task EXCEPT ![x] = f] BY DEF Goto
<1>2. pc \in Pcs BY DEF Pcs
<1>3. task[x] \in Frames BY SpeakersAreTasks DEF SessionInv, TypeOK
<1>4. f \in Frames /\ f.pc = pc BY <1>2, <1>3, PcEdit
<1> HIDE DEF f
<1> QED BY <1>1, <1>4, SpeakersAreTasks, MovesKeeps

\* The answer of the brain: on to the tools, with the clip they will set, or not.
LEMMA AnswerKeeps ==
  ASSUME SessionInv, NEW x \in Turns \cup {"companion"}, NEW r, NEW onRaise \in {"raised", "unwind"},
         task' = Answer(x, r, onRaise), Quiet(s, s'),
         task[x].pc \notin {"idle", "cancel_begin", "cancel_turn"}, Solo => x \in Turns,
         OthersTyped
  PROVE  Keeps
<1> DEFINE p == CASE r \in {"music", "devmusic"} -> "tools"
                  [] r = "raise" -> onRaise [] OTHER -> "drain"
           a == CASE r = "music" -> "stream" [] r = "devmusic" -> "device"
                  [] OTHER -> "none"
           f == [task[x] EXCEPT !.pc = p, !.arg = a]
<1>1. task' = [task EXCEPT ![x] = f] BY DEF Answer
<1>2. p \in Pcs /\ a \in Args /\ a \in Clips
      /\ p \notin {"idle", "mcp", "reset", "reset_start", "cancel_begin", "cancel_turn",
                   "goodbye", "end_utterance"}
  BY DEF Pcs, Args, Clips
<1>3. x \in Speakers /\ task[x] \in Frames BY SpeakersAreTasks DEF SessionInv, TypeOK
<1> HIDE DEF p, a
<1>4. f \in Frames /\ f.pc = p /\ f.arg = a BY <1>2, <1>3 DEF Frames
<1> HIDE DEF f
<1>8. x \in Tasks \ {"closer", "rx", "keepalive"} BY TheTasks
<1>5. Harmless(x, f) BY <1>2, <1>4, <1>8 DEF Harmless
<1>6. Calm(s, s') /\ s'.turn = s.turn /\ s'.putters = s.putters BY DEF Quiet
<1>7. f.pc # "idle" BY <1>2, <1>4
<1>9. Muted(x, f) BY <1>6 DEF Muted
<1> QED BY <1>1, <1>5, <1>6, <1>7, <1>8, <1>9, HarmlessKeeps

\* The tools set the clip.
LEMMA ToolsKeeps ==
  ASSUME SessionInv, NEW x \in Turns \cup {"companion"}, ToolsDone(x)
  PROVE  Keeps
<1>1. OthersTyped BY OthersUnchanged DEF SessionInv, ToolsDone
<1>2. x \in Speakers /\ x \in Tasks /\ task[x] \in Frames /\ task[x].pc = "tools"
  BY SpeakersAreTasks DEF SessionInv, TypeOK, ToolsDone
<1>3. task[x].arg \in Clips BY <1>2 DEF SessionInv, ToolsSetAClip
<1> DEFINE z == [s EXCEPT !.pendingMusic = task[x].arg]
<1>5. PICK raised \in {FALSE, "raise" \in Replies} :
         /\ s' = IF raised \/ Stale(x) THEN Withdraw(x, z) ELSE z
         /\ task' = [task EXCEPT ![x].arg = "none",
                                 ![x].pc = CASE raised /\ x \in Turns -> "raised"
                                             [] raised \/ Stale(x) -> "unwind"
                                             [] OTHER -> "drain"]
  BY DEF ToolsDone
<1>4. Calm(s, s') /\ s'.turn = s.turn /\ (x \in Turns => s'.putters = s.putters)
  <2>1. Proper(s) BY Start DEF SessionInv
  <2>2. z \in Attributes /\ z.gen = s.gen /\ z.closed = s.closed /\ z.turn = s.turn
        /\ z.queue = s.queue /\ z.putters = s.putters /\ z.state = s.state
        /\ z.liveStale = s.liveStale
    BY <1>3, <2>1 DEF Proper, Attributes
  <2> HIDE DEF z
  <2>3. Quiet(s, z) BY <2>1, <2>2, SameQuiet
  <2>4. CASE s' = z BY <2>3, <2>4 DEF Quiet
  <2>5. CASE s' = Withdraw(x, z)
    <3>1. Calm(s, s') /\ s'.turn = s.turn /\ (x \in Turns => s' = z) BY <2>3, <2>5, WithdrawCalm
    <3> QED BY <3>1, <2>2
  <2> QED BY <1>5, <2>4, <2>5
<1> HIDE DEF z
<1> DEFINE p == CASE raised /\ x \in Turns -> "raised"
                  [] raised \/ Stale(x) -> "unwind"
                  [] OTHER -> "drain"
           f == [task[x] EXCEPT !.arg = "none", !.pc = p]
<1>9. task' = [task EXCEPT ![x].arg = "none", ![x].pc = p] BY <1>5, Zenon
<1>7. p \in {"raised", "unwind", "drain"} OBVIOUS
<1> HIDE DEF p
<1>6. task' = [task EXCEPT ![x] = f] BY <1>9
<1>8. f \in Frames /\ f.pc = p BY <1>2, <1>7 DEF Frames, Pcs, Args, Clips
<1> HIDE DEF f
<1>10. Solo => x \in Turns BY <1>2, AloneSpeaks
<1> QED BY <1>1, <1>2, <1>4, <1>6, <1>7, <1>8, <1>10, MovesKeeps

LEMMA TurnKeeps ==
  ASSUME SessionInv, NEW t \in Turns, TurnNext(t)
  PROVE  Keeps
<1>1. /\ t \in Speakers /\ t \in Turns \cup {"companion"} /\ t \in Turns \cup {"rx", "companion"}
      /\ t \in Tasks /\ task[t] \in Frames /\ task[t].gen \in Nat
      /\ task[t].pc \notin {"cancel_begin", "cancel_turn"}
      /\ Proper(s) /\ s \in Attributes /\ Quiet(s, s)
  BY TurnFacts, SpeakersAreTasks
<1>2. TurnStep(t) => OthersTyped BY OthersUnchanged DEF SessionInv, TurnStep
<1>3. Quiet(s, Release(s)) /\ Proper(Release(s)) BY <1>1, ReleaseQuiet
<1>4. CASE TurnBegins(t)
  <2>1. OthersTyped /\ task[t].pc = "new" BY <1>4, <1>2 DEF TurnBegins
  <2>2. CASE Finally(t, s) BY <2>1, <2>2, <1>1, FinallyKeeps
  <2>3. CASE Finally(t, Release(s)) BY <2>1, <2>3, <1>3, FinallyKeeps
  <2>4. CASE s' = s /\ task' = [task EXCEPT ![t].pc = "brain", ![t].speech = "waiting"]
    <3> DEFINE f == [task[t] EXCEPT !.pc = "brain", !.speech = "waiting"]
    <3>1. task' = [task EXCEPT ![t] = f] BY <2>4
    <3>2. f \in Frames /\ f.pc = "brain" BY <1>1 DEF Frames, Pcs
    <3> HIDE DEF f
    <3> QED BY <2>1, <2>4, <3>1, <3>2, <1>1, MovesKeeps DEF Quiet
  <2> QED BY <1>4, <2>2, <2>3, <2>4 DEF TurnBegins
<1>5. CASE BrainAnswers(t)
  <2>1. OthersTyped /\ task[t].pc = "brain" BY <1>5, <1>2 DEF BrainAnswers
  <2>2. CASE s' = s /\ task' = Goto(t, "unwind") BY <2>1, <2>2, <1>1, GotoKeeps DEF Quiet
  <2>3. ASSUME NEW r \in Replies, s' = (IF r = "farewell" THEN RequestExit(s) ELSE s),
               task' = Answer(t, r, "raised")
        PROVE  Keeps
    <3>1. Quiet(s, s') BY <2>3, <1>1, ExitQuiet
    <3> QED BY <2>1, <2>3, <3>1, <1>1, AnswerKeeps
  <2> QED BY <1>5, <2>2, <2>3 DEF BrainAnswers
<1>6. CASE ToolsDone(t) BY <1>6, <1>1, ToolsKeeps
<1>7. CASE TurnTimeout(t)
  <2>1. OthersTyped /\ task[t].pc \in {"brain", "tools", "drain"} /\ s' = s
        /\ task' = Goto(t, "expired")
    BY <1>7, <1>2 DEF TurnTimeout
  <2> QED BY <2>1, <1>1, GotoKeeps DEF Quiet
<1>8. CASE TurnUnwinds(t)
  <2>1. OthersTyped /\ task[t].pc \in {"drain", "unwind", "say", "expired", "raised"}
    BY <1>8, <1>2 DEF TurnUnwinds
  <2>2. CASE Finally(t, s) BY <2>1, <2>2, <1>1, FinallyKeeps
  <2>3. CASE Finally(t, Release(s)) BY <2>1, <2>3, <1>3, FinallyKeeps
  <2>4. CASE Say(t, "say", s) BY <2>1, <2>4, <1>1, SayKeeps
  <2> QED BY <1>8, <2>2, <2>3, <2>4 DEF TurnUnwinds
<1>9. CASE MusicDone(t)
  <2>1. OthersTyped /\ task[t].pc \in {"music", "device"} BY <1>9, <1>2 DEF MusicDone
  <2>2. CASE Settled(t, s) BY <2>1, <2>2, <1>1, SettledKeeps
  <2>3. CASE s' = s /\ task' = [task EXCEPT ![t].pc = "notify", ![t].speech = "none"]
    <3> DEFINE f == [task[t] EXCEPT !.pc = "notify", !.speech = "none"]
    <3>1. task' = [task EXCEPT ![t] = f] BY <2>3
    <3>2. f \in Frames /\ f.pc = "notify" BY <1>1 DEF Frames, Pcs
    <3> HIDE DEF f
    <3> QED BY <2>1, <2>3, <3>1, <3>2, <1>1, MovesKeeps DEF Quiet
  <2> QED BY <1>9, <2>2, <2>3 DEF MusicDone
<1>10. ASSUME NEW b \in BOOLEAN
       PROVE  LET y == [s EXCEPT !.awaitingTtsStop = b] IN Quiet(s, y) /\ Proper(y)
  <2> DEFINE y == [s EXCEPT !.awaitingTtsStop = b]
  <2>1. y \in Attributes /\ y.gen = s.gen /\ y.closed = s.closed /\ y.turn = s.turn
        /\ y.queue = s.queue /\ y.putters = s.putters /\ y.state = s.state /\ y.liveStale = s.liveStale
    BY <1>1 DEF Attributes
  <2> QED BY <2>1, <1>1, SameQuiet DEF Proper, Bounded
<1>11. s.awaitingTtsStop \in BOOLEAN BY <1>1 DEF Attributes
<1>12. CASE MusicNotified(t)
  <2> DEFINE b == s.awaitingTtsStop \/ task[t].arg = "stream"
             y == [s EXCEPT !.awaitingTtsStop = b]
             w == [s EXCEPT !.awaitingTtsStop = TRUE]
  <2>1. OthersTyped /\ task[t].pc = "notify" BY <1>12, <1>2 DEF MusicNotified
  <2>2. \/ Settled(t, s) \/ Settled(t, y) \/ Say(t, "announce", w)
    BY <1>12, <1>1 DEF MusicNotified, Attributes
  <2>3. Quiet(s, y) /\ Proper(y) /\ Quiet(s, w) /\ Proper(w) BY <1>10, <1>11
  <2> HIDE DEF y, w
  <2>4. CASE Settled(t, s) BY <2>1, <2>4, <1>1, SettledKeeps
  <2>5. CASE Settled(t, y) BY <2>1, <2>3, <2>5, SettledKeeps
  <2>6. CASE Say(t, "announce", w) BY <2>1, <2>3, <2>6, <1>1, SayKeeps
  <2> QED BY <2>2, <2>4, <2>5, <2>6
<1>13. CASE MusicAnnounced(t)
  <2> DEFINE b == s.awaitingTtsStop \/ (~Stale(t) /\ task[t].arg = "stream")
             y == [s EXCEPT !.awaitingTtsStop = b]
  <2>1. OthersTyped /\ task[t].pc = "announce" BY <1>13, <1>2 DEF MusicAnnounced
  <2>5. CASE s' = Free(s, t) /\ task' = [task EXCEPT ![t] = Idle]
    BY <2>1, <2>5, <1>1, EndsKeeps
  <2>2. CASE Settled(t, y)
    <3>1. b \in BOOLEAN BY <1>11
    <3> HIDE DEF b
    <3>2. Quiet(s, y) /\ Proper(y) BY <1>10, <3>1
    <3> HIDE DEF y
    <3> QED BY <2>1, <2>2, <3>2, SettledKeeps
  <2> QED BY <1>13, <1>1, <2>2, <2>5 DEF MusicAnnounced, Attributes
<1>14. CASE ResetDone(t) BY <1>14, <1>1, ResetKeeps
<1> QED BY <1>4, <1>5, <1>6, <1>7, <1>8, <1>9, <1>12, <1>13, <1>14 DEF TurnNext
-----------------------------------------------------------------------------
\* The dashboard's commands and the sensors.

LEMMA AskTyped ==
  ASSUME TypeOK, NEW kind, Ask(kind), wire' = wire, dev' = dev, up' = up
  PROVE  OthersTyped
<1>1. left \in 0 .. MaxInputs /\ left > 0 /\ left' = left - 1 BY DEF TypeOK, Ask
<1>2. left' \in 0 .. MaxInputs BY <1>1, MaxInputsAssumption
<1> QED BY <1>2 DEF TypeOK, OthersTyped

LEMMA BeginKeeps ==
  ASSUME SessionInv, NEW x \in {"companion", "stopper", "sensor"},
         NEW pc \in {"brain", "gather", "say", "mcp"}, NEW speech \in Speeches, NEW arg \in Args,
         pc = "mcp" => speech = "none",
         task[x].pc = "idle", Begin(x, pc, speech, arg), Calm(s, s'), s'.turn = s.turn,
         Solo => /\ pc = "mcp" /\ x # "sensor" /\ "farewell" \notin Replies
                 /\ s'.queue = s.queue /\ s'.putters = s.putters,
         OthersTyped
  PROVE  Keeps
<1> DEFINE f == Frame(pc, s.gen, speech, arg)
<1>1. task' = [task EXCEPT ![x] = f] BY DEF Begin
<1>2. pc \in Pcs /\ s.gen \in Nat BY Start DEF Pcs, SessionInv
<1>3. f \in Frames /\ f.pc = pc /\ f.speech = speech BY <1>2, FramesMade
<1> HIDE DEF f
<1>4. x \notin Turns /\ x \in Tasks \ {"closer", "rx", "keepalive"} BY TheTasks
<1>5. Harmless(x, f) BY <1>3, <1>4 DEF Harmless
<1>6. Muted(x, f) BY <1>3 DEF Muted
<1> QED BY <1>1, <1>4, <1>5, <1>6, HarmlessKeeps

\* The session is busy.
LEMMA BusyQuiet ==
  ASSUME NEW z, Proper(z), NEW b \in BOOLEAN
  PROVE  LET y == [z EXCEPT !.ttsPlayed = b, !.state = "thinking"]
             w == [z EXCEPT !.state = "thinking"]
         IN  Quiet(z, y) /\ Proper(y) /\ Quiet(z, w) /\ Proper(w)
<1> DEFINE y == [z EXCEPT !.ttsPlayed = b, !.state = "thinking"]
           w == [z EXCEPT !.state = "thinking"]
<1>1. y \in Attributes /\ y.gen = z.gen /\ y.closed = z.closed /\ y.turn = z.turn
      /\ y.queue = z.queue /\ y.putters = z.putters /\ y.state = "thinking"
      /\ y.liveStale = z.liveStale
  BY DEF Proper, Attributes, States
<1>2. w \in Attributes /\ w.gen = z.gen /\ w.closed = z.closed /\ w.turn = z.turn
      /\ w.queue = z.queue /\ w.putters = z.putters /\ w.state = "thinking"
      /\ w.liveStale = z.liveStale
  BY DEF Proper, Attributes, States
<1> HIDE DEF y, w
<1> QED BY <1>1, <1>2, SameQuiet DEF Proper, Bounded, y, w

LEMMA AdmitKeeps ==
  ASSUME SessionInv, Chat \/ Rps \/ Ttt \/ TttThink
  PROVE  Keeps
<1>1. TypeOK /\ Proper(s) /\ Quiet(s, s) BY Start DEF SessionInv
<1>2. OthersTyped /\ task["companion"].pc = "idle"
  BY <1>1, AskTyped DEF Chat, Rps, Ttt, TttThink, Admit
<1>3. {"none", "waiting", "deaf"} \subseteq Speeches /\ {"none", "chant", "react", "think"} \subseteq Args
  BY DEF Speeches, Args, Clips
<1>8. ~Solo BY DEF Chat, Rps, Ttt, TttThink, Admit, Ask, Solo
<1>4. CASE Chat
  <2> DEFINE z == [s EXCEPT !.ttsPlayed = FALSE, !.state = "thinking"]
  <2>1. PICK farewell \in {FALSE, "farewell" \in Replies} :
           s' = IF farewell THEN RequestExit(z) ELSE z
    BY <1>4 DEF Chat
  <2>2. PICK h \in Hearing : Begin("companion", "brain", h, "none") BY <1>4 DEF Chat
  <2>3. Quiet(s, z) /\ Proper(z) BY <1>1, BusyQuiet
  <2> HIDE DEF z
  <2>4. Quiet(s, s') BY <2>1, <2>3, ExitQuiet, QuietTransitive
  <2>5. h \in Speeches BY <1>3 DEF Hearing
  <2> QED BY <1>2, <1>3, <1>8, <2>2, <2>4, <2>5, BeginKeeps DEF Quiet
<1>5. CASE Rps
  <2>1. Quiet(s, s') /\ Begin("companion", "gather", "none", "chant") BY <1>5, <1>1 DEF Rps
  <2> QED BY <2>1, <1>2, <1>3, <1>8, BeginKeeps DEF Quiet
<1>6. CASE Ttt
  <2>1. Quiet(s, s') /\ Begin("companion", "gather", "none", "react") BY <1>6, <1>1 DEF Ttt
  <2> QED BY <2>1, <1>2, <1>3, <1>8, BeginKeeps DEF Quiet
<1>7. CASE TttThink
  <2>1. Quiet(s, s') /\ Begin("companion", "say", "none", "think")
    BY <1>7, <1>1, BusyQuiet DEF TttThink
  <2> QED BY <2>1, <1>2, <1>3, <1>8, BeginKeeps DEF Quiet
<1> QED BY <1>4, <1>5, <1>6, <1>7

LEMMA NeedsIsBoolean == ASSUME TypeOK PROVE NeedsStop \in BOOLEAN
BY DEF NeedsStop

\* A canceller other than the receive loop aborts what runs.
LEMMA AbortKeeps ==
  ASSUME SessionInv, NEW c \in {"companion", "stopper"},
         CancelTurn(c, "abort", NeedsStop, s), MayCancel(c), OthersTyped
  PROVE  Keeps
<1>1. Proper(s) /\ NeedsStop \in BOOLEAN BY Start, NeedsIsBoolean DEF SessionInv
<1>2. c \in Cancellers /\ c # "rx" /\ c # "closer" /\ "abort" \in Args BY DEF Cancellers, Args
<1> QED BY <1>1, <1>2, CancelTurnKeeps

LEMMA SleepKeeps ==
  ASSUME SessionInv, Sleep \/ StopButton \/ MotionStopped
  PROVE  Keeps
<1>1. TypeOK /\ Proper(s) /\ Quiet(s, s) /\ Calm(s, s) BY Start DEF SessionInv
<1>2. OthersTyped
  <2>1. Sleep \/ StopButton => OthersTyped BY <1>1, AskTyped DEF Sleep, StopButton
  <2>2. MotionStopped => OthersTyped BY <1>1, OthersUnchanged DEF MotionStopped
  <2> QED BY <2>1, <2>2
<1>3. "none" \in Speeches /\ "none" \in Args BY DEF Speeches, Args, Clips
<1>7. Solo => "farewell" \notin Replies
  <2>1. Sleep \/ StopButton => Inputs \cap {"sleep", "stopbutton"} # {}
    BY DEF Sleep, StopButton, Ask
  <2>2. MotionStopped => task["stopper"].pc # "idle" BY DEF MotionStopped
  <2> QED BY <2>1, <2>2 DEF Solo, SessionInv, Hushed
<1>8. \A c : MayCancel(c) BY <1>7 DEF MayCancel
<1>4. CASE Sleep
  <2>1. CASE CancelTurn("companion", "abort", NeedsStop, s) BY <2>1, <1>2, <1>8, AbortKeeps
  <2>2. CASE s' = s /\ Begin("companion", "mcp", "none", "none")
    <3>1. task["companion"].pc = "idle" BY <1>4 DEF Sleep
    <3> QED BY <2>2, <3>1, <1>1, <1>2, <1>3, <1>7, BeginKeeps
  <2> QED BY <1>4, <2>1, <2>2 DEF Sleep
<1>5. CASE StopButton
  <2>1. task["stopper"].pc = "idle" /\ s' = s /\ Begin("stopper", "mcp", "none", "none")
    BY <1>5 DEF StopButton
  <2> QED BY <2>1, <1>1, <1>2, <1>3, <1>7, BeginKeeps
<1>6. CASE MotionStopped
  <2>1. CASE CancelTurn("stopper", "abort", NeedsStop, s) BY <2>1, <1>2, <1>8, AbortKeeps
  <2>2. CASE s' = s /\ task' = [task EXCEPT !["stopper"] = Idle]
    <3>1. task["stopper"].pc = "mcp" BY <1>6 DEF MotionStopped
    <3> QED BY <2>2, <3>1, <1>1, <1>2, SpeakersAreTasks, EndsKeeps
  <2> QED BY <1>6, <2>1, <2>2 DEF MotionStopped
<1> QED BY <1>4, <1>5, <1>6

\* What follows the frame that ends the conversation: a stale Live session is reset.
LEMMA DismissedKeeps ==
  ASSUME SessionInv, NEW z, Calm(s, z), Dismissed(z), Calm(s, s'), s'.turn = s.turn,
         task["companion"].pc \notin {"idle", "mcp", "cancel_begin", "cancel_turn"},
         OthersTyped
  PROVE  Keeps
<1> DEFINE f == IF z.liveStale /\ ~z.closed THEN [Idle EXCEPT !.pc = "reset"] ELSE Idle
<1>1. task' = [task EXCEPT !["companion"] = f] BY DEF Dismissed
<1>2. f \in Frames /\ ((f.pc = "reset" /\ z.liveStale) \/ f.pc = "idle") /\ f.speech = "none"
  <2>1. "reset" \in Pcs BY DEF Pcs
  <2> QED BY <2>1, IdleMade
<1> HIDE DEF f
<1>3. z.liveStale => "farewell" \in Replies BY DEF SessionInv, NeverStale, Calm
<1>4. "companion" \in Speakers /\ "companion" \notin Turns
      /\ "companion" \in Tasks \ {"closer", "rx", "keepalive"}
  BY SpeakersAreTasks, TheTasks
<1>5. Harmless("companion", f) BY <1>2, <1>3, <1>4 DEF Harmless
<1>6. Muted("companion", f) BY AloneSpeaks DEF Muted
<1> QED BY <1>1, <1>4, <1>5, <1>6, HarmlessKeeps

LEMMA ChatDoneKeeps ==
  ASSUME SessionInv, ChatDone
  PROVE  Keeps
<1>1. TypeOK /\ Proper(s) BY Start DEF SessionInv
<1>2. "companion" \notin Turns /\ "companion" \in Tasks /\ ~Solo
  BY SpeakersAreTasks, AloneSpeaks DEF ChatDone
<1> DEFINE z == Ready(s)
           y == Put(z, "ended", KeepaliveGeneration)
           f == [Idle EXCEPT !.pc = "goodbye"]
<1>3. task["companion"].pc \in {"drain", "unwind"} /\ OthersTyped
  BY <1>1, OthersUnchanged DEF ChatDone
<1>4. \/ s' = z /\ task' = [task EXCEPT !["companion"] = Idle]
      \/ s' = NotifyIdle(z) /\ Dismissed(z)
      \/ s' = Await("companion", y) /\ task' = [task EXCEPT !["companion"] = f]
  BY DEF ChatDone
<1>5. Quiet(s, z) /\ Proper(z) BY <1>1, ReadyQuiet
<1> HIDE DEF z
<1>6. Quiet(s, y) BY <1>5, PutQuiet, QuietTransitive DEF FrameKinds
<1> HIDE DEF y
<1>7. Quiet(s, NotifyIdle(z)) BY <1>5, NotifyIdleQuiet, QuietTransitive
<1>8. CASE s' = z /\ task' = [task EXCEPT !["companion"] = Idle]
  BY <1>2, <1>3, <1>5, <1>8, EndsKeeps
<1>9. CASE s' = NotifyIdle(z) /\ Dismissed(z)
  BY <1>3, <1>5, <1>7, <1>9, DismissedKeeps DEF Quiet
<1>10. CASE s' = Await("companion", y) /\ task' = [task EXCEPT !["companion"] = f]
  <2>1. f \in Frames /\ f.pc = "goodbye"
    <3>1. "goodbye" \in Pcs BY DEF Pcs
    <3> QED BY <3>1, IdleMade
  <2> HIDE DEF f
  <2>2. Calm(s, s') /\ s'.turn = s.turn BY <1>1, <1>2, <1>6, <1>10, AwaitCalm
  <2>3. "companion" \in Tasks \ {"closer", "rx", "keepalive"} BY <1>2
  <2>4. Harmless("companion", f) BY <2>1, <1>2, <1>3 DEF Harmless
  <2>5. Muted("companion", f) BY <1>2 DEF Muted
  <2> QED BY <1>2, <1>3, <1>10, <2>2, <2>3, <2>4, <2>5, HarmlessKeeps
<1> QED BY <1>4, <1>8, <1>9, <1>10

LEMMA CompanionKeeps ==
  ASSUME SessionInv, CompanionNext
  PROVE  Keeps
<1>1. TypeOK /\ Proper(s) /\ Quiet(s, s) BY Start DEF SessionInv
<1>2. "companion" \in Speakers /\ "companion" \in Tasks /\ "companion" \notin Turns
      /\ task["companion"] \in Frames
  BY <1>1, SpeakersAreTasks DEF TypeOK
<1>3. task["companion"].gen \in Nat BY <1>2 DEF Frames
<1>4. CASE ChatAnswers
  <2>1. task["companion"].pc = "brain" /\ OthersTyped /\ ~Solo
    BY <1>1, <1>4, OthersUnchanged, AloneSpeaks DEF ChatAnswers
  <2>2. CASE Unwinds("companion")
    <3>1. Calm(s, s') /\ s'.turn = s.turn BY <2>2, <1>1, WithdrawCalm DEF Unwinds
    <3> QED BY <2>1, <2>2, <3>1, <1>2, GotoKeeps DEF Unwinds
  <2>3. ASSUME NEW r \in Replies, s' = s, task' = Answer("companion", r, "unwind")
        PROVE  Keeps
    BY <2>1, <2>3, <1>1, AnswerKeeps
  <2> QED BY <1>4, <2>2, <2>3 DEF ChatAnswers
<1>5. CASE ToolsDone("companion") BY <1>5, ToolsKeeps
<1>6. CASE ChatDone BY <1>6, ChatDoneKeeps
<1>7. CASE GatherStarts
  <2>1. task["companion"].pc = "gather" /\ OthersTyped /\ ~Solo
    BY <1>1, <1>7, OthersUnchanged, AloneSpeaks DEF GatherStarts
  <2>2. CASE s' = s /\ task' = Goto("companion", "say")
    BY <2>1, <2>2, <1>1, <1>2, GotoKeeps DEF Quiet
  <2>3. CASE Say("companion", "say", s) BY <2>1, <2>3, <1>1, <1>2, SayKeeps
  <2> QED BY <1>7, <2>2, <2>3 DEF GatherStarts
<1>8. CASE ReactionStep
  <2>1. task["companion"].pc = "say" /\ OthersTyped /\ ~Solo
    BY <1>1, <1>8, OthersUnchanged, AloneSpeaks DEF ReactionStep
  <2> DEFINE f == Frame("gather", task["companion"].gen, "none", "react")
  <2>2. CASE s' = s /\ task' = [task EXCEPT !["companion"] = f]
    <3>1. "gather" \in Pcs /\ "react" \in Args /\ "none" \in Speeches BY DEF Pcs, Args, Speeches
    <3>2. f \in Frames /\ f.pc = "gather" BY <1>3, <3>1, FramesMade
    <3> HIDE DEF f
    <3> QED BY <2>1, <2>2, <3>2, <1>1, <1>2, MovesKeeps DEF Quiet
  <2>3. CASE (s' = s \/ s' = Ready(s)) /\ task' = [task EXCEPT !["companion"] = Idle]
    <3>1. Quiet(s, s') BY <2>3, <1>1, ReadyQuiet
    <3> QED BY <2>1, <2>3, <3>1, <1>2, EndsKeeps
  <2> QED BY <1>8, <2>2, <2>3 DEF ReactionStep
<1>9. CASE RobotSleeps
  <2>1. task["companion"].pc = "mcp" /\ OthersTyped /\ s' = s
        /\ task' = [task EXCEPT !["companion"] = Idle]
    BY <1>1, <1>9, OthersUnchanged DEF RobotSleeps
  <2> QED BY <2>1, <1>1, <1>2, EndsKeeps
<1>10. CASE ResetDone("companion") BY <1>10, ResetKeeps
<1> QED BY <1>4, <1>5, <1>6, <1>7, <1>8, <1>9, <1>10 DEF CompanionNext

LEMMA SensorKeeps ==
  ASSUME SessionInv, Pet \/ PickupOrFall \/ SensorNext
  PROVE  Keeps
<1>1. TypeOK /\ Proper(s) /\ Quiet(s, s) BY Start DEF SessionInv
<1>2. "sensor" \in Speakers /\ "sensor" \notin Turns /\ "sensor" \in Tasks BY SpeakersAreTasks
<1>3. {"none", "waiting", "deaf", "open"} \subseteq Speeches /\ "none" \in Args
  BY DEF Speeches, Args, Clips
<1>8. ~Solo
  <2>1. Pet \/ PickupOrFall => Inputs \cap {"pet", "pickup"} # {} BY DEF Pet, PickupOrFall, React, Ask
  <2>2. SensorNext => task["sensor"].pc # "idle" BY DEF SensorNext, PetAnswers, ReactionDone
  <2> QED BY <2>1, <2>2, AloneSpeaks DEF Solo
<1>4. CASE Pet
  <2>1. OthersTyped /\ task["sensor"].pc = "idle" BY <1>1, <1>4, AskTyped DEF Pet, React
  <2>2. Quiet(s, s') BY <1>1, <1>4, BusyQuiet DEF Pet
  <2>3. PICK h \in Hearing : Begin("sensor", "brain", h, "none") BY <1>4 DEF Pet
  <2>4. h \in Speeches BY <1>3 DEF Hearing
  <2> QED BY <2>1, <2>2, <2>3, <2>4, <1>3, <1>8, BeginKeeps DEF Quiet
<1>5. CASE PickupOrFall
  <2>1. OthersTyped /\ task["sensor"].pc = "idle" BY <1>1, <1>5, AskTyped DEF PickupOrFall, React
  <2>2. Quiet(s, OpenSpeech(s)) BY <1>1, OpenSpeechQuiet
  <2>3. s' = Await("sensor", OpenSpeech(s)) /\ Begin("sensor", "say", "open", "none")
    BY <1>5 DEF PickupOrFall
  <2>4. Calm(s, s') /\ s'.turn = s.turn BY <2>2, <2>3, <1>1, <1>2, AwaitCalm
  <2> QED BY <2>1, <2>3, <2>4, <1>3, <1>8, BeginKeeps
<1>6. CASE PetAnswers
  <2>1. task["sensor"].pc = "brain" /\ OthersTyped BY <1>1, <1>6, OthersUnchanged DEF PetAnswers
  <2>2. CASE s' = s /\ task' = Goto("sensor", "drain")
    BY <2>1, <2>2, <1>1, <1>2, <1>8, GotoKeeps DEF Quiet
  <2>3. CASE Unwinds("sensor")
    <3>1. Calm(s, s') /\ s'.turn = s.turn BY <2>3, <1>1, WithdrawCalm DEF Unwinds
    <3> QED BY <2>1, <2>3, <3>1, <1>2, <1>8, GotoKeeps DEF Unwinds
  <2> QED BY <1>6, <2>2, <2>3 DEF PetAnswers
<1>7. CASE ReactionDone
  <2>1. task["sensor"].pc \in {"drain", "unwind", "say"} /\ OthersTyped
    BY <1>1, <1>7, OthersUnchanged DEF ReactionDone
  <2>2. CASE Say("sensor", "say", s) BY <2>1, <2>2, <1>1, <1>2, <1>8, SayKeeps
  <2>3. CASE (s' = s \/ s' = Ready(s)) /\ task' = [task EXCEPT !["sensor"] = Idle]
    <3>1. Quiet(s, s') BY <2>3, <1>1, ReadyQuiet
    <3> QED BY <2>1, <2>3, <3>1, <1>2, <1>8, EndsKeeps
  <2> QED BY <1>7, <2>2, <2>3 DEF ReactionDone
<1> QED BY <1>4, <1>5, <1>6, <1>7 DEF SensorNext
-----------------------------------------------------------------------------
\* The receive loop, the keepalive loop and the writer.

LEMMA ReadTyped ==
  ASSUME TypeOK, NEW kind, Read(kind), UNCHANGED <<wire, dev, left>>
  PROVE  OthersTyped /\ Receiving
<1> DEFINE K == {"start", "manual", "stop", "detect", "abort"}
<1>1. up \in Seq(K) /\ up # <<>> /\ up' = Tail(up) /\ Receiving BY DEF TypeOK, Read
<1>2. up' \in Seq(K)
  <2> HIDE DEF K
  <2> QED BY <1>1, TailRange
<1> QED BY <1>1, <1>2 DEF TypeOK, OthersTyped

LEMMA ReceivingApart ==
  ASSUME Receiving
  PROVE  /\ task["rx"].pc = "idle"
         /\ "overlap" \notin Inputs => task["keepalive"].pc = "idle"
BY DEF Receiving, Overlaps

\* Attributes that the invariants do not look at change after a calm stretch.
LEMMA EditCalm ==
  ASSUME NEW z, Calm(s, z), NEW y \in Attributes,
         y.gen = z.gen, y.closed = z.closed, y.queue = z.queue, y.putters = z.putters,
         y.state = z.state, y.liveStale = z.liveStale
  PROVE  Calm(s, y)
<1>1. s.closed => Quieter(s, y) BY DEF Calm, Quieter
<1>2. Bounded(y) /\ (s.putters = {} /\ Fresh(s) => Fresh(y)) BY DEF Calm, Bounded, Fresh
<1> QED BY <1>1, <1>2 DEF Calm

LEMMA RxKeeps ==
  ASSUME SessionInv, Rx
  PROVE  Keeps
<1>1. TypeOK /\ Proper(s) /\ s \in Attributes /\ Quiet(s, s) /\ Calm(s, s) BY Start DEF SessionInv
<1>2. OthersTyped /\ Receiving
  BY <1>1, ReadTyped DEF Rx, OnListenStart, OnListenStop, OnListenDetect, OnAbort
<1>3. task["rx"].pc = "idle" /\ ("overlap" \notin Inputs => task["keepalive"].pc = "idle")
  BY <1>2, ReceivingApart
<1>4. "rx" \in Cancellers /\ {"start", "detect", "abort"} \subseteq Args /\ NeedsStop \in BOOLEAN
      /\ MayCancel("rx")
  BY <1>1, SpeakersAreTasks, NeedsIsBoolean DEF Args, MayCancel
<1>5. ASSUME NEW b \in BOOLEAN, NEW y \in {[s EXCEPT !.ignored = b], [s EXCEPT !.swallow = b]}
      PROVE  Calm(s, y) /\ y.turn = s.turn /\ y.queue = s.queue /\ y.putters = s.putters
  <2>1. y \in Attributes /\ y.gen = s.gen /\ y.closed = s.closed /\ y.turn = s.turn
        /\ y.queue = s.queue /\ y.putters = s.putters /\ y.state = s.state
        /\ y.liveStale = s.liveStale
    <3>1. CASE y = [s EXCEPT !.ignored = b] BY <3>1, <1>1 DEF Attributes
    <3>2. CASE y = [s EXCEPT !.swallow = b] BY <3>2, <1>1 DEF Attributes
    <3> QED BY <3>1, <3>2
  <2> QED BY <2>1, <1>1, EditCalm
<1>6. CASE OnListenStart
  <2>1. CASE task' = task /\ (s' = [s EXCEPT !.ignored = TRUE] \/ s' = [s EXCEPT !.swallow = FALSE])
    <3>1. Calm(s, s') /\ s'.turn = s.turn /\ s'.queue = s.queue /\ s'.putters = s.putters
      BY <2>1, <1>5
    <3> QED BY <2>1, <3>1, <1>2, CalmKeeps
  <2>2. CASE CancelTurn("rx", "start", FALSE, ClearWake(s))
    <3> DEFINE z == ClearWake(s)
    <3>1. /\ Proper(z) /\ z.turn = s.turn /\ z.queue = s.queue /\ z.closed = s.closed
          /\ z.putters = s.putters /\ z.state = s.state /\ z.liveStale = s.liveStale
      <4>1. Proper(z) BY <1>1, ClearWakeQuiet
      <4> QED BY <4>1, <1>1 DEF ClearWake, Attributes
    <3> HIDE DEF z
    <3>2. CancelTurn("rx", "start", FALSE, z) BY <2>2 DEF z
    <3> QED BY <3>1, <3>2, <1>2, <1>3, <1>4, CancelTurnKeeps
  <2> QED BY <1>6, <2>1, <2>2 DEF OnListenStart
<1>7. CASE OnListenStop
  <2>1. CASE s.state = "listening" /\ StopListen("rx", s, "stop")
    <3>1. "stop" \in Args BY DEF Args
    <3> QED BY <2>1, <3>1, <1>1, <1>2, <1>3, StopListenKeeps
  <2>2. CASE UNCHANGED <<s, task>> BY <2>2, <1>1, <1>2, CalmKeeps
  <2> QED BY <1>7, <2>1, <2>2 DEF OnListenStop
<1>8. CASE OnListenDetect
  <2>1. CancelTurn("rx", "detect", NeedsStop, s) BY <1>8 DEF OnListenDetect
  <2> QED BY <2>1, <1>1, <1>2, <1>3, <1>4, CancelTurnKeeps
<1>9. CASE OnAbort
  <2>1. CancelTurn("rx", "abort", NeedsStop, s) BY <1>9 DEF OnAbort
  <2> QED BY <2>1, <1>1, <1>2, <1>3, <1>4, CancelTurnKeeps
<1> QED BY <1>6, <1>7, <1>8, <1>9 DEF Rx

\* A loop ends an utterance: it starts the turn, waits for the brain, or is suspended
\* in put while out_queue is full.
LEMMA InterruptsKeeps ==
  ASSUME SessionInv, NEW c \in {"rx", "keepalive"}, NEW why \in Args, Interrupts(c, why),
         s.state = "listening", task[c].pc = "idle",
         "overlap" \notin Inputs => \A x \in {"rx", "keepalive"} \ {c} : task[x].pc = "idle",
         OthersTyped
  PROVE  Keeps
<1>1. TypeOK /\ Proper(s) /\ s.gen \in Nat BY Start DEF SessionInv
<1> DEFINE y == Put(s, "start", s.gen)
           z == [y EXCEPT !.awaitingTtsStop = TRUE]
<1>2. Quiet(s, y) /\ Proper(y) BY <1>1, PutQuiet DEF FrameKinds
<1>3. CASE HasRoom
  <2>1. StopListen(c, z, why) BY <1>3 DEF Interrupts, EndUtterance
  <2> HIDE DEF y
  <2>2. z \in Attributes /\ z.gen = y.gen /\ z.closed = y.closed /\ z.turn = y.turn
        /\ z.queue = y.queue /\ z.putters = y.putters /\ z.state = y.state
        /\ z.liveStale = y.liveStale
    BY <1>2 DEF Proper, Attributes
  <2> HIDE DEF z
  <2>3. Quiet(s, z) BY <1>2, <2>2, SameQuiet, QuietTransitive
  <2> QED BY <2>1, <2>3, StopListenKeeps DEF Quiet
<1>4. CASE ~HasRoom
  <2> DEFINE f == Frame("end_utterance", 0, "none", why)
  <2>1. s' = Await(c, y) /\ task' = [task EXCEPT ![c] = f] BY <1>4 DEF Interrupts
  <2>2. f \in Frames /\ f.pc = "end_utterance"
    <3>1. "end_utterance" \in Pcs /\ 0 \in Nat /\ "none" \in Speeches BY DEF Pcs, Speeches
    <3> QED BY <3>1, FramesMade
  <2> HIDE DEF f, y
  <2>3. c \in Tasks \ {"closer"} /\ c \notin Turns BY TheTasks
  <2>4. Calm(s, s') /\ s'.turn = s.turn BY <2>1, <2>3, <1>1, <1>2, AwaitCalm
  <2>5. ~Solo
    <3> SUFFICES ASSUME Solo PROVE FALSE OBVIOUS
    <3>1. "overlap" \notin Inputs BY DEF Solo
    <3>2. s.queue = <<>> BY <3>1 DEF SessionInv, Hushed
    <3> QED BY <3>2, <1>4, QueueSizeAssumption DEF HasRoom
  <2>6. Harmless(c, f) BY <2>2, <2>3 DEF Harmless
  <2>7. Muted(c, f) BY <2>5 DEF Muted
  <2> QED BY <2>1, <2>3, <2>4, <2>6, <2>7, HarmlessKeeps
<1> QED BY <1>3, <1>4

LEMMA UtteranceKeeps ==
  ASSUME SessionInv, Endpoint \/ ListenIdle
  PROVE  Keeps
<1>1. OthersTyped /\ s.state = "listening"
  BY OthersUnchanged DEF Endpoint, ListenIdle, SessionInv
<1>2. "audio" \in Args /\ "idle" \in Args BY DEF Args
<1>3. CASE Endpoint
  <2>1. Interrupts("rx", "audio") /\ Receiving BY <1>3 DEF Endpoint
  <2>2. task["rx"].pc = "idle" /\ ("overlap" \notin Inputs => task["keepalive"].pc = "idle")
    BY <2>1, ReceivingApart
  <2> QED BY <2>1, <2>2, <1>1, <1>2, InterruptsKeeps
<1>4. CASE ListenIdle
  <2>1. Interrupts("keepalive", "idle") BY <1>4 DEF ListenIdle
  <2>2. task["keepalive"].pc = "idle" /\ ("overlap" \notin Inputs => task["rx"].pc = "idle")
    BY <1>4 DEF ListenIdle, Overlaps
  <2> QED BY <2>1, <2>2, <1>1, <1>2, InterruptsKeeps
<1> QED BY <1>3, <1>4

LEMMA BrainAwaitedKeeps ==
  ASSUME SessionInv, NEW c \in {"rx", "keepalive"}, BrainAwaited(c)
  PROVE  Keeps
<1>1. TypeOK /\ Calm(s, s) BY Start DEF SessionInv
<1>2. OthersTyped BY <1>1, OthersUnchanged DEF BrainAwaited
<1>3. task[c].pc = "await_brain" /\ StartTurn(c, s) BY DEF BrainAwaited
<1>4. "overlap" \notin Inputs =>
          Deserted /\ \A x \in {"rx", "keepalive"} \ {c} : task[x].pc = "idle"
  BY <1>3 DEF SessionInv, Alone, Apart, HeardAlone
<1> QED BY <1>1, <1>2, <1>3, <1>4, StartTurnKeeps

\* Room in out_queue for a coroutine that is suspended in put.
LEMMA PutResumesKeeps ==
  ASSUME SessionInv, PutResumes
  PROVE  Keeps
<1>1. TypeOK /\ Proper(s) /\ OthersTyped BY Start, OthersUnchanged DEF SessionInv, PutResumes
<1> DEFINE After(p) == [s EXCEPT !.queue = Append(@, p.item), !.putters = @ \ {p}]
<1>2. PICK p \in s.putters :
         LET x == p.by
             z == After(p)
             e == [z EXCEPT !.awaitingTtsStop = TRUE]
         IN  \/ task[x].pc \notin {"end_utterance", "goodbye"} /\ s' = z /\ UNCHANGED task
             \/ /\ task[x].pc = "end_utterance"
                /\ IF s.state = "listening" THEN StopListen(x, e, task[x].arg)
                   ELSE s' = e /\ task' = [task EXCEPT ![x] = Idle]
             \/ /\ task[x].pc = "goodbye"
                /\ s' = IdleFlags(z) /\ Dismissed(z)
  BY DEF PutResumes
<1> DEFINE x == p.by
           z == After(p)
           e == [z EXCEPT !.awaitingTtsStop = TRUE]
           i == IdleFlags(z)
<1>3. ~Solo BY AloneSpeaks
<1>4. Calm(s, z) /\ z.turn = s.turn /\ z \in Attributes BY <1>1, PutsCalm DEF Proper
<1>5. x \in Loops /\ x \in Tasks BY <1>1, GensAreIntegers DEF Tasks
<1> HIDE DEF z, x
<1>6. Calm(s, e) /\ e.turn = s.turn
  <2>1. e \in Attributes /\ e.gen = z.gen /\ e.closed = z.closed /\ e.turn = z.turn
        /\ e.queue = z.queue /\ e.putters = z.putters /\ e.state = z.state
        /\ e.liveStale = z.liveStale
    BY <1>4 DEF Attributes
  <2> HIDE DEF e
  <2> QED BY <2>1, <1>4, EditCalm
<1>7. Calm(s, i) /\ i.turn = s.turn
  <2>1. i \in Attributes /\ i.gen = z.gen /\ i.closed = z.closed /\ i.turn = z.turn
        /\ i.queue = z.queue /\ i.putters = z.putters /\ i.state = z.state
        /\ i.liveStale = z.liveStale
    BY <1>4 DEF Attributes, IdleFlags
  <2> HIDE DEF i
  <2> QED BY <2>1, <1>4, EditCalm
<1>8. CASE s' = z /\ UNCHANGED task BY <1>1, <1>3, <1>4, <1>8, CalmKeeps
<1>9. CASE /\ task[x].pc = "end_utterance"
           /\ IF s.state = "listening" THEN StopListen(x, e, task[x].arg)
              ELSE s' = e /\ task' = [task EXCEPT ![x] = Idle]
  <2>1. x \in {"rx", "keepalive"} /\ x \in Tasks \ {"closer"} /\ x \notin Turns
    BY <1>5, <1>9, TheTasks DEF SessionInv, Purposes
  <2>2. task[x].arg \in Args BY <1>5 DEF SessionInv, TypeOK, Frames
  <2>3. "overlap" \notin Inputs => \A w \in {"rx", "keepalive"} \ {x} : task[w].pc = "idle"
    BY <1>9, <2>1 DEF SessionInv, Alone, Apart
  <2>4. CASE s.state = "listening" /\ StopListen(x, e, task[x].arg)
    <3> HIDE DEF e
    <3> QED BY <2>1, <2>2, <2>3, <2>4, <1>1, <1>3, <1>6, <1>9, StopListenKeeps
  <2>5. CASE s' = e /\ task' = [task EXCEPT ![x] = Idle]
    <3> HIDE DEF e
    <3>1. Harmless(x, Idle) BY <1>9, <2>1, IdleMade DEF Harmless
    <3>2. Muted(x, Idle) BY <1>3 DEF Muted
    <3> QED BY <2>1, <2>5, <3>1, <3>2, <1>1, <1>6, HarmlessKeeps
  <2> QED BY <1>9, <2>4, <2>5
<1>10. CASE task[x].pc = "goodbye" /\ s' = i /\ Dismissed(z)
  <2>1. x = "companion" BY <1>5, <1>10 DEF SessionInv, Purposes
  <2> HIDE DEF i
  <2> QED BY <2>1, <1>1, <1>4, <1>7, <1>10, DismissedKeeps
<1> QED BY <1>2, <1>8, <1>9, <1>10 DEF x, z
\* Steps that leave the coroutines where they are.
LEMMA AsideKeeps ==
  ASSUME SessionInv, HearSpeech \/ BeginDone \/ WriterTakes \/ WriterSends \/ RobotActs
  PROVE  Keeps
<1>1. TypeOK /\ Proper(s) /\ s \in Attributes /\ s.gen \in Nat /\ Calm(s, s)
  BY Start DEF SessionInv
<1>2. CASE HearSpeech
  <2> DEFINE y == [s EXCEPT !.pcmStarted = TRUE]
  <2>1. y \in Attributes /\ y.gen = s.gen /\ y.closed = s.closed /\ y.turn = s.turn
        /\ y.queue = s.queue /\ y.putters = s.putters /\ y.state = s.state
        /\ y.liveStale = s.liveStale
    BY <1>1 DEF Attributes
  <2>2. s' = y /\ task' = task /\ OthersTyped BY <1>1, <1>2, OthersUnchanged DEF HearSpeech
  <2> HIDE DEF y
  <2> QED BY <2>1, <2>2, <1>1, EditCalm, CalmKeeps
<1>3. CASE BeginDone
  <2>1. PICK began \in {TRUE, "begin" \notin Faults} :
           s' = [s EXCEPT !.begin = "none",
                   !.brainReady = @ \/ (began /\ s.begin = "running" /\ s.beginGen = s.gen)]
    BY <1>3 DEF BeginDone
  <2> DEFINE b == s.brainReady \/ (began /\ s.begin = "running" /\ s.beginGen = s.gen)
             y == [s EXCEPT !.begin = "none", !.brainReady = b]
  <2>2. s' = y BY <2>1, <1>1 DEF Attributes
  <2>3. b \in BOOLEAN BY <1>1 DEF Attributes
  <2> HIDE DEF b
  <2>4. y \in Attributes /\ y.gen = s.gen /\ y.closed = s.closed /\ y.turn = s.turn
        /\ y.queue = s.queue /\ y.putters = s.putters /\ y.state = s.state
        /\ y.liveStale = s.liveStale
    BY <1>1, <2>3 DEF Attributes
  <2>5. task' = task /\ OthersTyped BY <1>1, <1>3, OthersUnchanged DEF BeginDone
  <2> HIDE DEF y
  <2> QED BY <2>2, <2>4, <2>5, <1>1, EditCalm, CalmKeeps
<1>4. CASE WriterTakes
  <2> DEFINE q == Tail(s.queue)
             y == [s EXCEPT !.queue = q]
  <2>1. s' = y /\ task' = task /\ s.queue # <<>> BY <1>4 DEF WriterTakes
  <2>2. s.queue \in Seq(Items) BY <1>1 DEF Attributes
  <2>3. q \in Seq(Items) /\ \A i \in DOMAIN q : \E j \in DOMAIN s.queue : q[i] = s.queue[j]
    BY <2>1, <2>2, TailRange
  <2>9. Len(q) =< Len(s.queue) BY <2>1, <2>2
  <2> HIDE DEF q
  <2>4. y \in Attributes /\ y.gen = s.gen /\ y.closed = s.closed /\ y.turn = s.turn
        /\ y.queue = q /\ y.putters = s.putters /\ y.state = s.state /\ y.liveStale = s.liveStale
    BY <1>1, <2>3 DEF Attributes
  <2> HIDE DEF y
  <2>5. Bounded(y) BY <2>3, <2>4, <1>1 DEF Bounded, Proper
  <2>6. Fresh(s) => Fresh(y) BY <2>3, <2>4 DEF Fresh
  <2>7. Calm(s, y) BY <2>4, <2>5, <2>6, <2>9 DEF Calm, Quieter
  <2>8. OthersTyped
    <3>1. Head(s.queue) \in Items BY <2>1, <2>2
    <3>2. Head(s.queue).kind \in FrameKinds BY <3>1 DEF Items
    <3>3. wire' \in FrameKinds \cup {"idle", "stopped"} BY <1>4, <3>2 DEF WriterTakes
    <3> QED BY <1>1, <1>4, <3>3 DEF WriterTakes, TypeOK, OthersTyped
  <2> QED BY <2>1, <2>4, <2>7, <2>8, CalmKeeps
<1>5. CASE WriterSends
  <2> DEFINE K == {"start", "manual", "stop", "detect", "abort"}
  <2>1. s' = s /\ task' = task BY <1>5 DEF WriterSends
  <2>2. wire' \in {"idle", "stopped"} BY <1>5 DEF WriterSends
  <2>3. dev' \in {"idle", "listening", "speaking"} /\ left' \in 0 .. MaxInputs
    <3>1. \A kind : Ask(kind) => left' \in 0 .. MaxInputs
      BY <1>1, MaxInputsAssumption DEF Ask, TypeOK
    <3> QED BY <1>1, <1>5, <3>1 DEF WriterSends, Received, TypeOK
  <2>4. up' \in Seq(K)
    <3>1. up \in Seq(K) /\ "start" \in K BY <1>1 DEF TypeOK
    <3>2. Append(up, "start") \in Seq(K)
      <4> HIDE DEF K
      <4> QED BY <3>1
    <3> QED BY <1>5, <3>1, <3>2 DEF WriterSends, Received
  <2>5. OthersTyped BY <2>2, <2>3, <2>4 DEF OthersTyped
  <2> QED BY <2>1, <2>5, <1>1, CalmKeeps
<1>6. CASE RobotActs
  <2> DEFINE K == {"start", "manual", "stop", "detect", "abort"}
  <2>1. PICK kind \in InputKinds, from \in {"idle", "listening", "speaking"},
             to \in {"idle", "listening", "speaking"}, sends \in Seq(K) :
           Presses(kind, from, to, sends)
    <3>1. <<"start">> \in Seq(K) /\ <<"detect", "start">> \in Seq(K) /\ <<"manual">> \in Seq(K)
          /\ <<"stop">> \in Seq(K) /\ <<"abort">> \in Seq(K) /\ <<"detect">> \in Seq(K)
      OBVIOUS
    <3> HIDE DEF K
    <3> QED BY <1>6, <3>1 DEF RobotActs, InputKinds
  <2>2. s' = s /\ task' = task /\ wire' = wire /\ dev' = to /\ up' = up \o sends /\ Ask(kind)
    BY <2>1 DEF Presses
  <2>3. up' \in Seq(K)
    <3>1. up \in Seq(K) BY <1>1 DEF TypeOK
    <3> HIDE DEF K
    <3> QED BY <2>2, <3>1
  <2>4. left' \in 0 .. MaxInputs BY <2>2, <1>1, MaxInputsAssumption DEF Ask, TypeOK
  <2>5. OthersTyped BY <2>2, <2>3, <2>4, <1>1 DEF OthersTyped, TypeOK
  <2> QED BY <2>2, <2>5, <1>1, CalmKeeps
<1> QED BY <1>2, <1>3, <1>4, <1>5, <1>6

LEMMA CloseKeeps ==
  ASSUME SessionInv, Close
  PROVE  Keeps
<1>1. TypeOK /\ Proper(s) /\ s \in Attributes /\ s.gen \in Nat BY Start DEF SessionInv
<1>2. OthersTyped BY <1>1, AskTyped DEF Close
<1> DEFINE z == [s EXCEPT !.closed = TRUE, !.state = "closed", !.gen = @ + 1]
<1>3. z \in Attributes /\ z.gen = s.gen + 1 /\ z.turn = s.turn /\ z.queue = s.queue
      /\ z.closed /\ z.putters = s.putters /\ z.state = "closed" /\ z.liveStale = s.liveStale
  <2>1. s.gen + 1 \in Nat BY <1>1
  <2> QED BY <1>1, <2>1 DEF Attributes, States
<1>4. CancelTurn("closer", "close", FALSE, z) BY DEF Close
<1> HIDE DEF z
<1>5. Bounded(z) BY <1>1, <1>3, StillBounded
<1>6. "closer" \in Cancellers /\ "close" \in Args /\ MayCancel("closer")
  BY DEF Cancellers, Args, MayCancel
<1> QED BY <1>2, <1>3, <1>4, <1>5, <1>6, CancelTurnKeeps DEF Proper
-----------------------------------------------------------------------------

LEMMA InitHolds == Init => SessionInv
<1> SUFFICES ASSUME Init PROVE SessionInv OBVIOUS
<1>1. s.state = "ready" /\ s.gen = 0 /\ s.closed = FALSE /\ s.turn = NoTurn
      /\ s.liveStale = FALSE /\ s.queue = <<>> /\ s.putters = {} /\ s \in Attributes
  <2>1. <<>> \in Seq(Items) OBVIOUS
  <2> QED BY <2>1 DEF Init, Attributes, States, Clips
<1>2. task \in [Tasks -> Frames] /\ \A x \in Tasks : task[x] = Idle BY IdleMade DEF Init
<1>3. \A x \in Tasks : task[x].pc = "idle" /\ task[x].speech = "none" BY <1>2, IdleMade
<1>4. {"rx", "keepalive", "closer", "companion", "stopper", "sensor"} \subseteq Tasks /\ Turns \subseteq Tasks
      /\ Cancellers \subseteq Tasks
  BY DEF Tasks, Loops, Cancellers
<1>5. TypeOK
  <2>1. up \in Seq({"start", "manual", "stop", "detect", "abort"}) BY DEF Init
  <2>2. left \in 0 .. MaxInputs BY MaxInputsAssumption DEF Init
  <2>3. /\ \A i \in DOMAIN s.queue : s.queue[i].gen =< s.gen
        /\ \A p \in s.putters : p.item.gen =< s.gen
    BY <1>1
  <2> QED BY <1>1, <1>2, <2>1, <2>2, <2>3 DEF Init, TypeOK
<1>6. ToolsSetAClip /\ Purposes BY <1>3 DEF ToolsSetAClip, Purposes
<1>7. Hushed /\ task["closer"].pc = "idle" BY <1>1, <1>3, <1>4 DEF Hushed
<1>8. Alone
  BY <1>1, <1>3, <1>4 DEF Alone, OneTurn, TurnIsLive, Apart, Waited, HeardAlone, Deserted, Live
<1>9. NeverStale /\ QueueIsCurrent BY <1>1, <1>3 DEF NeverStale, QueueIsCurrent
<1> QED BY <1>5, <1>6, <1>7, <1>8, <1>9 DEF SessionInv

LEMMA StepKeeps == SessionInv /\ [Next]_vars => Keeps
<1> SUFFICES ASSUME SessionInv, [Next]_vars PROVE Keeps OBVIOUS
<1>1. CASE Rx BY <1>1, RxKeeps
<1>2. CASE HearSpeech \/ BeginDone \/ WriterTakes \/ WriterSends \/ RobotActs BY <1>2, AsideKeeps
<1>3. CASE Endpoint \/ ListenIdle BY <1>3, UtteranceKeeps
<1>4. CASE ResetDone("rx") BY <1>4, ResetKeeps
<1>5. CASE BrainAwaited("rx") \/ BrainAwaited("keepalive") BY <1>5, BrainAwaitedKeeps
<1>6. CASE \E c \in Cancellers : CancelStep(c) BY <1>6, CancelKeeps
<1>7. CASE \E x \in Speakers : SpeechStep(x) BY <1>7, SpeechKeeps
<1>8. CASE \E t \in Turns : TurnNext(t) BY <1>8, TurnKeeps
<1>9. CASE CompanionNext BY <1>9, CompanionKeeps
<1>10. CASE Pet \/ PickupOrFall \/ SensorNext BY <1>10, SensorKeeps
<1>11. CASE Sleep \/ StopButton \/ MotionStopped BY <1>11, SleepKeeps
<1>12. CASE Chat \/ Rps \/ Ttt \/ TttThink BY <1>12, AdmitKeeps
<1>13. CASE Close BY <1>13, CloseKeeps
<1>15. CASE PutResumes BY <1>15, PutResumesKeeps
<1>14. CASE UNCHANGED vars
  <2>1. OthersTyped BY <1>14, OthersUnchanged DEF SessionInv, vars
  <2>2. Calm(s, s') BY <1>14, Start DEF SessionInv, vars
  <2> QED BY <1>14, <2>1, <2>2, CalmKeeps DEF vars
<1> QED BY <1>1, <1>2, <1>3, <1>4, <1>5, <1>6, <1>7, <1>8, <1>9, <1>10, <1>11, <1>12, <1>13,
           <1>14, <1>15 DEF Next, World

\* Types, and the place of whoever cancels a turn; of the turns what holds when the two
\* ends of an utterance do not overlap, and of the queue what holds when nothing speaks
\* but the turns.
THEOREM SessionCorrect == Spec => []SessionInv
<1>1. SessionInv /\ [Next]_vars => SessionInv' BY StepKeeps DEF Keeps
<1> QED BY <1>1, InitHolds, PTL DEF Spec

\* Every attribute and every local of a coroutine has its type, and _put is never
\* given a generation the session has not reached.
THEOREM SessionTypes == Spec => []TypeOK
<1>1. SessionInv => TypeOK BY DEF SessionInv
<1> QED BY <1>1, SessionCorrect, PTL

\* close() returns with out_queue drained, and after that nothing is queued but what a
\* coroutine had in its hands when it was suspended in put, whichever coroutines are
\* still to run their finally blocks.
THEOREM ClosedIsSilent == Spec => ClosedSilence
<1> DEFINE A == /\ ~Drained /\ Drained' => s'.queue = <<>>
                /\ Drained => \/ /\ s'.putters \subseteq s.putters
                                 /\ Len(s'.queue) =< Len(s.queue)
                              \/ \E p \in s.putters : /\ s'.putters = s.putters \ {p}
                                                       /\ s'.queue = Append(s.queue, p.item)
<1>1. SessionInv /\ [Next]_vars => [A]_vars BY StepKeeps DEF Keeps, SilentStep, Quieter
<1>2. Spec => [][A]_vars
  <2> HIDE DEF A
  <2> QED BY <1>1, SessionCorrect, PTL DEF Spec
<1> QED BY <1>2 DEF ClosedSilence

\* Whatever cancels it, and however long it takes to unwind, a turn has ended before
\* the next one starts, and _turn_task names it: as long as the idle timer and a
\* message of the robot do not end one utterance at a time.
THEOREM OneTurnAtATime ==
  ASSUME "overlap" \notin Inputs
  PROVE  Spec => []OneTurn
<1>1. SessionInv => OneTurn BY DEF SessionInv, Alone
<1> QED BY <1>1, SessionCorrect, PTL

\* When _cancel_turn is over, what is left in out_queue was queued since the
\* generation was bumped: as long as nothing speaks but the turns, for a chat or a
\* reaction that is suspended in put is woken by the drain, and no farewell makes
\* _start_listen wait for a new Live session between the drain and its own bump.
THEOREM NothingStaleIsQueued ==
  ASSUME Solo, "farewell" \notin Replies
  PROVE  Spec => []QueueIsCurrent
<1>1. SessionInv => QueueIsCurrent BY DEF SessionInv
<1> QED BY <1>1, SessionCorrect, PTL

-----------------------------------------------------------------------------
\* The speaking window, from the code to the robot.

\* Voice and buttons, and nothing that speaks beside a turn; no speech that fails or
\* expires before the music it announced, and no clip on the robot's own player.
VoiceOnly ==
    /\ Inputs \subseteq {"wake", "detect", "manual", "stop", "abort", "barge", "autolisten", "close"}
    /\ "devmusic" \notin Replies
    /\ Faults \cap {"tts", "timeout", "decode"} = {}

Kept(f, g) == f.gen \in {KeepaliveGeneration, g}
Opens(f, g) == f.kind = "start" /\ Kept(f, g)
Shuts(f, g) == f.kind \in {"stop", "ended"} /\ Kept(f, g)

\* The robot speaks once it has what the writer is sending.
Ahead == wire = "start" \/ (dev = "speaking" /\ wire \notin {"stop", "ended"})

\* The robot, which speaks or not (a), speaks after the first i frames of the queue q.
OpenAfter(q, g, a, i) ==
    \E j \in 0 .. i : /\ IF j = 0 THEN a ELSE Opens(q[j], g)
                      /\ \A k \in j + 1 .. i : ~Shuts(q[k], g)

\* The window is open at the end of out_queue.
Lasts(z, a) == OpenAfter(z.queue, z.gen, a, Len(z.queue))

\* Every packet in out_queue finds the window open.
Framed(z, a) ==
    \A i \in DOMAIN z.queue :
        z.queue[i].kind = "audio" =>
            /\ z.queue[i].gen # KeepaliveGeneration
            /\ z.queue[i].gen = z.gen => OpenAfter(z.queue, z.gen, a, i - 1)

\* What the turn whose frame is x takes for open is open.
Steady(z, x, a) ==
    /\ x.speech \in {"open", "played"} => Lasts(z, a) /\ ~z.awaitingTtsStop
    /\ z.state = "speaking" /\ z.pendingMusic # "none" => Lasts(z, a)
    /\ x.pc \in {"music", "notify"} => Lasts(z, a)
    /\ x.pc \in {"brain", "tools"} /\ z.state = "speaking" => x.speech \in {"open", "played"}
    /\ x.pc = "new" => z.state # "speaking"

InCancel == task["rx"].pc \in {"cancel_begin", "cancel_turn"}

\* Until it is cancelled the window that is to be released is open; until the
\* cancellation is over nobody but _abort, which knows, has it to release.
WindowInv ==
    /\ Framed(s, Ahead)
    /\ wire = "audio" => dev = "speaking"
    /\ ~InCancel /\ task["rx"].pc # "reset_start" /\ s.awaitingTtsStop => Lasts(s, Ahead)
    /\ \A t \in Turns : Live(t) /\ ~Stale(t) => ~InCancel /\ Steady(s, task[t], Ahead)
    /\ InCancel /\ task["rx"].arg \in {"abort", "detect"} /\ s.awaitingTtsStop => task["rx"].needs

\* The coroutines of a voice session, where they are not, and what _cancel_turn
\* returns to.
VoiceInv ==
    /\ \A x \in {"companion", "sensor", "stopper"} : task[x].pc = "idle"
    /\ task["closer"].pc # "idle" => s.closed
    /\ s.pendingMusic # "device"
    /\ InCancel => task["rx"].arg \in {"abort", "detect", "start"}
    /\ \A t \in Turns : /\ task[t].pc \notin {"device", "expired"} /\ task[t].gen =< s.gen
                        /\ task[t].pc = "tools" => task[t].arg # "device"
                        /\ task[t].pc \in {"new", "notify"} => task[t].speech = "none"
                        /\ task[t].speech # "raised"

SpeaksInv == VoiceInv /\ (~s.closed => WindowInv)

LEMMA SoloSpeaks == ASSUME VoiceOnly PROVE Solo /\ "overlap" \notin Inputs
BY DEF VoiceOnly, Solo

LEMMA AppendOpen ==
  ASSUME NEW F, NEW q \in Seq(F), NEW e \in F, NEW g, NEW a
  PROVE  /\ \A i \in 0 .. Len(q) : OpenAfter(Append(q, e), g, a, i) <=> OpenAfter(q, g, a, i)
         /\ OpenAfter(Append(q, e), g, a, Len(q) + 1)
              <=> Opens(e, g) \/ (OpenAfter(q, g, a, Len(q)) /\ ~Shuts(e, g))
<1> DEFINE p == Append(q, e)
           n == Len(q)
<1>1. n \in Nat /\ p[n + 1] = e /\ \A k \in 1 .. n : p[k] = q[k] OBVIOUS
<1> HIDE DEF p, n
<1>2. ASSUME NEW i \in 0 .. n PROVE OpenAfter(p, g, a, i) <=> OpenAfter(q, g, a, i)
  <2>1. \A j \in 0 .. i : \A k \in j + 1 .. i : p[k] = q[k] BY <1>1
  <2>2. \A j \in 0 .. i : j # 0 => p[j] = q[j] BY <1>1
  <2> QED BY <2>1, <2>2 DEF OpenAfter
<1>3. ASSUME Opens(e, g) PROVE OpenAfter(p, g, a, n + 1)
  <2>1. n + 1 \in 0 .. n + 1 /\ n + 1 # 0 /\ (n + 1) + 1 .. n + 1 = {} BY <1>1
  <2> QED BY <1>1, <1>3, <2>1 DEF OpenAfter
<1>4. ASSUME OpenAfter(q, g, a, n), ~Shuts(e, g) PROVE OpenAfter(p, g, a, n + 1)
  <2>1. PICK j \in 0 .. n : /\ IF j = 0 THEN a ELSE Opens(q[j], g)
                            /\ \A k \in j + 1 .. n : ~Shuts(q[k], g)
    BY <1>4 DEF OpenAfter
  <2>2. j \in 0 .. n + 1 /\ (j # 0 => p[j] = q[j]) BY <1>1
  <2>3. \A k \in j + 1 .. n + 1 : ~Shuts(p[k], g)
    <3> SUFFICES ASSUME NEW k \in j + 1 .. n + 1 PROVE ~Shuts(p[k], g) OBVIOUS
    <3>1. CASE k = n + 1 BY <3>1, <1>1, <1>4
    <3>2. CASE k # n + 1
      <4>1. k \in j + 1 .. n /\ k \in 1 .. n BY <3>2, <1>1
      <4> QED BY <4>1, <1>1, <2>1
    <3> QED BY <3>1, <3>2
  <2> QED BY <2>1, <2>2, <2>3 DEF OpenAfter
<1>5. ASSUME OpenAfter(p, g, a, n + 1), ~Opens(e, g)
      PROVE  OpenAfter(q, g, a, n) /\ ~Shuts(e, g)
  <2>1. PICK j \in 0 .. n + 1 : /\ IF j = 0 THEN a ELSE Opens(p[j], g)
                                /\ \A k \in j + 1 .. n + 1 : ~Shuts(p[k], g)
    BY <1>5 DEF OpenAfter
  <2>2. j # n + 1 BY <1>1, <1>5, <2>1
  <2>3. j \in 0 .. n /\ (j # 0 => p[j] = q[j]) BY <1>1, <2>2
  <2>4. n + 1 \in j + 1 .. n + 1 BY <1>1, <2>3
  <2>5. \A k \in j + 1 .. n : k \in j + 1 .. n + 1 /\ p[k] = q[k] BY <1>1
  <2> QED BY <1>1, <2>1, <2>3, <2>4, <2>5 DEF OpenAfter
<1> QED BY <1>2, <1>3, <1>4, <1>5 DEF p, n

LEMMA TailOpen ==
  ASSUME NEW F, NEW q \in Seq(F), q # <<>>, NEW g, NEW a, NEW b,
         b <=> OpenAfter(q, g, a, 1), NEW i \in 0 .. Len(q) - 1
  PROVE  OpenAfter(Tail(q), g, b, i) <=> OpenAfter(q, g, a, i + 1)
<1> DEFINE p == Tail(q)
<1>1. i \in Nat /\ Len(q) \in Nat /\ \A k \in 1 .. i : p[k] = q[k + 1] OBVIOUS
<1> HIDE DEF p
<1>2. b <=> ((a /\ ~Shuts(q[1], g)) \/ Opens(q[1], g))
  <2>1. OpenAfter(q, g, a, 1) <=> \/ a /\ \A k \in 1 .. 1 : ~Shuts(q[k], g)
                                  \/ Opens(q[1], g) /\ \A k \in 2 .. 1 : ~Shuts(q[k], g)
    <3>1. 0 .. 1 = {0, 1} OBVIOUS
    <3> QED BY <3>1 DEF OpenAfter
  <2>2. 1 .. 1 = {1} /\ 2 .. 1 = {} OBVIOUS
  <2> QED BY <2>1, <2>2
<1>3. ASSUME OpenAfter(p, g, b, i) PROVE OpenAfter(q, g, a, i + 1)
  <2>1. PICK j \in 0 .. i : /\ IF j = 0 THEN b ELSE Opens(p[j], g)
                            /\ \A k \in j + 1 .. i : ~Shuts(p[k], g)
    BY <1>3 DEF OpenAfter
  <2>2. \A k \in j + 2 .. i + 1 : ~Shuts(q[k], g)
    <3> SUFFICES ASSUME NEW k \in j + 2 .. i + 1 PROVE ~Shuts(q[k], g) OBVIOUS
    <3>1. k - 1 \in j + 1 .. i /\ k - 1 \in 1 .. i /\ (k - 1) + 1 = k BY <1>1
    <3> QED BY <3>1, <1>1, <2>1
  <2>3. CASE j # 0
    <3>1. j + 1 \in 0 .. i + 1 /\ j + 1 # 0 /\ p[j] = q[j + 1] /\ (j + 1) + 1 = j + 2 BY <2>3, <1>1
    <3> QED BY <3>1, <2>1, <2>2, <2>3 DEF OpenAfter
  <2>4. CASE j = 0
    <3>1. \A k \in 2 .. i + 1 : ~Shuts(q[k], g) BY <2>2, <2>4
    <3>2. CASE Opens(q[1], g)
      <4>1. 1 \in 0 .. i + 1 /\ 1 # 0 /\ 1 + 1 = 2 BY <1>1
      <4> QED BY <3>1, <3>2, <4>1 DEF OpenAfter
    <3>3. CASE a /\ ~Shuts(q[1], g)
      <4>1. \A k \in 0 + 1 .. i + 1 : k = 1 \/ k \in 2 .. i + 1 BY <1>1
      <4>2. 0 \in 0 .. i + 1 BY <1>1
      <4> QED BY <3>1, <3>3, <4>1, <4>2 DEF OpenAfter
    <3> QED BY <1>2, <2>1, <2>4, <3>2, <3>3
  <2> QED BY <2>3, <2>4
<1>4. ASSUME OpenAfter(q, g, a, i + 1) PROVE OpenAfter(p, g, b, i)
  <2>1. PICK j \in 0 .. i + 1 : /\ IF j = 0 THEN a ELSE Opens(q[j], g)
                                /\ \A k \in j + 1 .. i + 1 : ~Shuts(q[k], g)
    BY <1>4 DEF OpenAfter
  <2>2. \A k \in 1 .. i : k >= j => ~Shuts(p[k], g)
    <3> SUFFICES ASSUME NEW k \in 1 .. i, k >= j PROVE ~Shuts(p[k], g) OBVIOUS
    <3>1. k + 1 \in j + 1 .. i + 1 BY <1>1
    <3> QED BY <3>1, <1>1, <2>1
  <2>3. CASE j \in {0, 1}
    <3>1. b
      <4>1. j = 0 => 1 \in j + 1 .. i + 1 BY <1>1
      <4> QED BY <4>1, <1>2, <2>1, <2>3
    <3>2. 0 \in 0 .. i /\ \A k \in 0 + 1 .. i : ~Shuts(p[k], g) BY <1>1, <2>2, <2>3
    <3> QED BY <3>1, <3>2 DEF OpenAfter
  <2>4. CASE j \notin {0, 1}
    <3>1. j - 1 \in 0 .. i /\ j - 1 # 0 /\ j - 1 \in 1 .. i /\ (j - 1) + 1 = j BY <1>1, <2>4
    <3>2. Opens(p[j - 1], g) BY <1>1, <2>1, <2>4, <3>1
    <3>3. \A k \in (j - 1) + 1 .. i : ~Shuts(p[k], g) BY <1>1, <2>2, <3>1
    <3> QED BY <3>1, <3>2, <3>3 DEF OpenAfter
  <2> QED BY <2>3, <2>4
<1> QED BY <1>3, <1>4 DEF p

\* The attributes the window depends on, besides the queue.
Alike(z, y) ==
    /\ y.gen = z.gen /\ y.closed = z.closed /\ y.state = z.state
    /\ y.pendingMusic = z.pendingMusic /\ y.awaitingTtsStop = z.awaitingTtsStop

LEMMA SameWindow ==
  ASSUME NEW z, NEW y, y.queue = z.queue, y.gen = z.gen, NEW a
  PROVE  (Framed(y, a) <=> Framed(z, a)) /\ (Lasts(y, a) <=> Lasts(z, a))
BY DEF Framed, Lasts

\* _put, of a packet only when the window is open.
LEMMA PutWindow ==
  ASSUME NEW z, Proper(z), ~z.closed, NEW a, Framed(z, a),
         NEW kind \in FrameKinds, NEW gen \in {KeepaliveGeneration, z.gen},
         kind = "audio" => Lasts(z, a) /\ gen = z.gen
  PROVE  LET y == Put(z, kind, gen)
         IN  /\ Framed(y, a) /\ Alike(z, y)
             /\ kind = "start" /\ gen = z.gen => Lasts(y, a)
             /\ kind = "audio" => Lasts(y, a)
<1> DEFINE F == Items
           e == [kind |-> kind, gen |-> gen]
           q == z.queue
           n == Len(q)
           p == Append(q, e)
           y == [z EXCEPT !.queue = p]
<1>1. z \in Attributes /\ q \in Seq(F) /\ z.gen \in Nat BY DEF Proper, Attributes
<1>2. e \in F /\ e.kind = kind /\ e.gen = gen BY <1>1 DEF KeepaliveGeneration, Items
<1>3. n \in Nat /\ DOMAIN q = 1 .. n /\ DOMAIN p = 1 .. n + 1 /\ Len(p) = n + 1 /\ p[n + 1] = e
      /\ \A i \in 1 .. n : p[i] = q[i]
  BY <1>1, <1>2
<1>4. /\ \A i \in 0 .. n : OpenAfter(p, z.gen, a, i) <=> OpenAfter(q, z.gen, a, i)
      /\ OpenAfter(p, z.gen, a, n + 1)
           <=> Opens(e, z.gen) \/ (OpenAfter(q, z.gen, a, n) /\ ~Shuts(e, z.gen))
  <2> HIDE DEF F, e, q
  <2> QED BY <1>1, <1>2, AppendOpen
<1>5. Put(z, kind, gen) = y BY DEF Put
<1>6. y.queue = p /\ y.gen = z.gen /\ Alike(z, y) BY <1>1 DEF Attributes, Alike
<1> HIDE DEF F, e, q, p, n, y
<1>7. Framed(y, a)
  <2> SUFFICES ASSUME NEW i \in DOMAIN p, p[i].kind = "audio"
               PROVE  /\ p[i].gen # KeepaliveGeneration
                      /\ p[i].gen = z.gen => OpenAfter(p, z.gen, a, i - 1)
    BY <1>6 DEF Framed
  <2>1. CASE i = n + 1
    <3>0. z.gen # KeepaliveGeneration BY <1>1 DEF KeepaliveGeneration
    <3>1. OpenAfter(q, z.gen, a, n) BY <2>1, <1>2, <1>3 DEF Lasts, q, n
    <3>2. n \in 0 .. n /\ (n + 1) - 1 = n BY <1>3
    <3> QED BY <2>1, <3>0, <3>1, <3>2, <1>2, <1>3, <1>4
  <2>2. CASE i # n + 1
    <3>1. i \in DOMAIN q /\ i \in 1 .. n /\ i - 1 \in 0 .. n BY <2>2, <1>3
    <3>2. /\ q[i].gen # KeepaliveGeneration
          /\ q[i].gen = z.gen => OpenAfter(q, z.gen, a, i - 1)
      BY <3>1, <1>3 DEF Framed, q
    <3> QED BY <3>1, <3>2, <1>3, <1>4
  <2> QED BY <2>1, <2>2
<1>8. Lasts(y, a) <=> Opens(e, z.gen) \/ (Lasts(z, a) /\ ~Shuts(e, z.gen))
  BY <1>3, <1>4, <1>6 DEF Lasts, q, n
<1>9. kind = "start" /\ gen = z.gen => Opens(e, z.gen) BY <1>2 DEF Opens, Kept
<1>10. kind = "audio" => ~Shuts(e, z.gen) BY <1>2 DEF Shuts
<1> QED BY <1>5, <1>6, <1>7, <1>8, <1>9, <1>10

LEMMA ReleaseWindow ==
  ASSUME NEW z, Proper(z), ~z.closed, NEW a, Framed(z, a)
  PROVE  LET y == Release(z)
         IN  /\ Framed(y, a) /\ ~y.awaitingTtsStop /\ y.gen = z.gen /\ y.closed = z.closed
             /\ y.state = z.state /\ y.pendingMusic = z.pendingMusic
<1> DEFINE w == [z EXCEPT !.awaitingTtsStop = FALSE]
<1>1. w \in Attributes /\ w.queue = z.queue /\ w.putters = z.putters /\ w.gen = z.gen /\ w.closed = z.closed
      /\ w.state = z.state /\ w.pendingMusic = z.pendingMusic /\ ~w.awaitingTtsStop
  BY DEF Proper, Attributes
<1>2. Release(z) = IF z.awaitingTtsStop THEN Put(w, "stop", w.gen) ELSE z BY <1>1 DEF Release
<1> HIDE DEF w
<1>3. Proper(w) /\ Framed(w, a) BY <1>1, SameWindow DEF Proper, Bounded
<1>4. Framed(Put(w, "stop", w.gen), a) /\ Alike(w, Put(w, "stop", w.gen))
  BY <1>1, <1>3, PutWindow DEF FrameKinds
<1>5. z.awaitingTtsStop \in BOOLEAN BY DEF Proper, Attributes
<1> QED BY <1>1, <1>2, <1>4, <1>5 DEF Alike

LEMMA OpenSpeechWindow ==
  ASSUME NEW z, Proper(z), ~z.closed, NEW a, Framed(z, a), z.awaitingTtsStop => Lasts(z, a)
  PROVE  LET y == OpenSpeech(z)
         IN  /\ Framed(y, a) /\ Lasts(y, a) /\ ~y.awaitingTtsStop /\ y.gen = z.gen
             /\ y.closed = z.closed /\ y.state = "speaking" /\ y.pendingMusic = z.pendingMusic
<1> DEFINE w == [z EXCEPT !.awaitingTtsStop = FALSE, !.state = "speaking"]
<1>1. w \in Attributes /\ w.queue = z.queue /\ w.putters = z.putters /\ w.gen = z.gen /\ w.closed = z.closed
      /\ w.state = "speaking" /\ w.pendingMusic = z.pendingMusic /\ ~w.awaitingTtsStop
  BY DEF Proper, Attributes, States
<1>2. OpenSpeech(z) = IF z.awaitingTtsStop THEN w ELSE Put(w, "start", w.gen)
  BY <1>1 DEF OpenSpeech
<1> HIDE DEF w
<1>3. Proper(w) /\ Framed(w, a) /\ (Lasts(w, a) <=> Lasts(z, a))
  BY <1>1, SameWindow DEF Proper, Bounded
<1>4. /\ Framed(Put(w, "start", w.gen), a) /\ Lasts(Put(w, "start", w.gen), a)
      /\ Alike(w, Put(w, "start", w.gen))
  BY <1>1, <1>3, PutWindow DEF FrameKinds
<1> QED BY <1>1, <1>2, <1>3, <1>4 DEF Alike

LEMMA CloseSpeechWindow ==
  ASSUME NEW z, Proper(z), ~z.closed, NEW a, Framed(z, a), Lasts(z, a), ~z.awaitingTtsStop
  PROVE  LET y == CloseSpeech(z, z.gen)
         IN  /\ Framed(y, a) /\ y.gen = z.gen /\ y.closed = z.closed
             /\ y.state = z.state /\ y.pendingMusic = z.pendingMusic
             /\ y.awaitingTtsStop \/ y.pendingMusic # "none" => Lasts(y, a)
<1> DEFINE w == [z EXCEPT !.awaitingTtsStop = TRUE]
<1>1. w.queue = z.queue /\ w.gen = z.gen /\ w.closed = z.closed
      /\ w.state = z.state /\ w.pendingMusic = z.pendingMusic
  BY DEF Proper, Attributes
<1>2. CloseSpeech(z, z.gen) = IF z.pendingMusic # "none" THEN w ELSE Put(z, "stop", z.gen)
  BY DEF CloseSpeech
<1> HIDE DEF w
<1>3. Framed(w, a) /\ Lasts(w, a) BY <1>1, SameWindow
<1>4. Framed(Put(z, "stop", z.gen), a) /\ Alike(z, Put(z, "stop", z.gen))
  BY PutWindow DEF FrameKinds
<1> QED BY <1>1, <1>2, <1>3, <1>4 DEF Alike

LEMMA NotifyIdleWindow ==
  ASSUME NEW z, Proper(z), ~z.closed, NEW a, Framed(z, a)
  PROVE  Framed(NotifyIdle(z), a) /\ Alike(z, NotifyIdle(z))
<1> DEFINE w == IdleFlags(z)
<1>1. w \in Attributes /\ w.queue = z.queue /\ w.putters = z.putters /\ Alike(z, w)
  BY DEF Proper, Attributes, Alike, IdleFlags
<1>2. NotifyIdle(z) = Put(w, "ended", KeepaliveGeneration) BY DEF NotifyIdle
<1> HIDE DEF w
<1>3. Proper(w) /\ Framed(w, a) /\ ~w.closed BY <1>1, SameWindow DEF Proper, Bounded, Alike
<1> DEFINE y == Put(w, "ended", KeepaliveGeneration)
<1>4. Framed(y, a) /\ Alike(w, y) BY <1>3, PutWindow DEF FrameKinds
<1> HIDE DEF y
<1> QED BY <1>1, <1>2, <1>4 DEF Alike, y

LEMMA SettleWindow ==
  ASSUME NEW z, Proper(z), ~z.closed, NEW a, Framed(z, a), NEW gen
  PROVE  LET y == Settle(z, gen)
         IN  /\ Framed(y, a) /\ ~y.awaitingTtsStop /\ y.gen = z.gen /\ y.closed = z.closed
             /\ y.pendingMusic = z.pendingMusic
             /\ gen = z.gen => y.state # "speaking"
<1> DEFINE r == Release(z)
           b == [r EXCEPT !.state = "ready"]
           d == IF r.state # "closed" /\ (gen = r.gen \/ r.awaitingWake) THEN b ELSE r
<1>1. Proper(r) BY ReleaseQuiet
<1>2. /\ Framed(r, a) /\ ~r.awaitingTtsStop /\ r.gen = z.gen /\ r.closed = z.closed
      /\ r.pendingMusic = z.pendingMusic
  BY ReleaseWindow
<1>3. Settle(z, gen) = IF d.awaitingWake /\ ~d.closed THEN NotifyIdle(d) ELSE d BY DEF Settle
<1> HIDE DEF r
<1>4. b \in Attributes /\ b.queue = r.queue /\ b.putters = r.putters /\ b.gen = r.gen /\ b.closed = r.closed
      /\ b.state = "ready" /\ b.pendingMusic = r.pendingMusic
      /\ b.awaitingTtsStop = r.awaitingTtsStop
  BY <1>1 DEF Proper, Attributes, States
<1> HIDE DEF b
<1>5. Proper(b) /\ Framed(b, a) BY <1>1, <1>2, <1>4, SameWindow DEF Proper, Bounded
<1>6. /\ Proper(d) /\ Framed(d, a) /\ ~d.awaitingTtsStop /\ d.gen = z.gen /\ d.closed = z.closed
      /\ d.pendingMusic = z.pendingMusic /\ (gen = z.gen => d.state # "speaking")
  BY <1>1, <1>2, <1>4, <1>5
<1> HIDE DEF d
<1>7. Framed(NotifyIdle(d), a) /\ Alike(d, NotifyIdle(d)) BY <1>6, NotifyIdleWindow
<1> QED BY <1>3, <1>6, <1>7 DEF Alike

LEMMA AbortTailWindow ==
  ASSUME NEW z, Proper(z), ~z.closed, NEW a, Framed(z, a), NEW needs,
         needs \/ ~z.awaitingTtsStop
  PROVE  LET y == AbortTail(z, needs)
         IN  Framed(y, a) /\ ~y.awaitingTtsStop /\ y.gen = z.gen /\ y.closed = z.closed
             /\ y.pendingMusic = z.pendingMusic
<1> DEFINE w == [z EXCEPT !.awaitingTtsStop = FALSE]
           v == IF needs THEN Put(w, "stop", w.gen) ELSE z
           b == [v EXCEPT !.state = "ready"]
<1>1. w \in Attributes /\ w.queue = z.queue /\ w.putters = z.putters /\ w.gen = z.gen /\ w.closed = z.closed
      /\ w.pendingMusic = z.pendingMusic /\ ~w.awaitingTtsStop
  BY DEF Proper, Attributes
<1>2. AbortTail(z, needs) = IF v.state = "closed" THEN v ELSE b BY <1>1 DEF AbortTail
<1>3. /\ Proper(v) /\ Framed(v, a) /\ ~v.awaitingTtsStop /\ v.gen = z.gen /\ v.closed = z.closed
      /\ v.pendingMusic = z.pendingMusic
  <2> HIDE DEF w
  <2>1. Proper(w) /\ Framed(w, a) /\ ~w.closed BY <1>1, SameWindow DEF Proper, Bounded
  <2> DEFINE y == Put(w, "stop", w.gen)
  <2>2. Framed(y, a) /\ Alike(w, y) /\ Proper(y) BY <2>1, PutWindow, PutQuiet DEF FrameKinds
  <2> HIDE DEF y
  <2>3. v = IF needs THEN y ELSE z BY DEF v, y
  <2> HIDE DEF v
  <2> QED BY <1>1, <2>2, <2>3 DEF Alike
<1> HIDE DEF v
<1>4. b.queue = v.queue /\ b.gen = v.gen /\ b.closed = v.closed
      /\ b.pendingMusic = v.pendingMusic /\ b.awaitingTtsStop = v.awaitingTtsStop
  BY <1>3 DEF Proper, Attributes
<1> HIDE DEF b
<1> QED BY <1>2, <1>3, <1>4, SameWindow

-----------------------------------------------------------------------------
\* The steps of a turn.

\* A step of the turn t: what it leaves to whom, if it is of the current generation.
LEMMA TurnWindow ==
  ASSUME SessionInv, SpeaksInv, "overlap" \notin Inputs, NEW t \in Turns, Live(t),
         NEW f, task' = [task EXCEPT ![t] = f], UNCHANGED <<wire, dev>>,
         s'.gen = s.gen, s'.closed = s.closed, s'.pendingMusic # "device",
         f.pc = "idle" \/ f.gen = task[t].gen, f.gen =< s.gen, f.pc \notin {"device", "expired"},
         f.pc = "tools" => f.arg # "device", f.pc \in {"new", "notify"} => f.speech = "none",
         f.speech # "raised", ~s.closed => Framed(s', Ahead),
         ~s.closed /\ Stale(t) /\ s'.awaitingTtsStop => s.awaitingTtsStop /\ s'.queue = s.queue,
         ~s.closed /\ ~Stale(t) => /\ s'.awaitingTtsStop => Lasts(s', Ahead)
                                   /\ f.pc # "idle" => Steady(s', f, Ahead)
  PROVE  SpeaksInv'
<1>1. t \in Tasks /\ t \notin Loops /\ "rx" \in Loops /\ {"companion", "sensor", "stopper", "closer"} \subseteq Loops
  BY TurnsAssumption DEF Tasks, Loops
<1>2. task'[t] = f /\ \A x \in Tasks \ {t} : task'[x] = task[x]
  BY <1>1 DEF SessionInv, TypeOK
<1>3. \A x \in Loops : task'[x] = task[x] BY <1>1, <1>2 DEF Tasks
<1>4. \A u \in Turns \ {t} : task[u].pc = "idle" /\ task'[u] = task[u]
  BY <1>2 DEF SessionInv, Alone, OneTurn, Live, Tasks
<1>5. VoiceInv' BY <1>1, <1>2, <1>3, <1>4 DEF SpeaksInv, VoiceInv, InCancel
<1>6. ASSUME ~s'.closed PROVE WindowInv'
  <2>1. ~s.closed /\ WindowInv BY <1>6 DEF SpeaksInv
  <2>2. Ahead' <=> Ahead BY DEF Ahead
  <2>3. task'["rx"] = task["rx"] /\ (InCancel' <=> InCancel) BY <1>1, <1>3 DEF InCancel
  <2>4. Framed(s', Ahead') BY <2>1, <2>2 DEF Framed, OpenAfter
  <2>5. Lasts(s', Ahead') <=> Lasts(s', Ahead) BY <2>2 DEF Lasts, OpenAfter
  <2>6. (wire = "audio" => dev = "speaking")' BY <2>1 DEF WindowInv
  <2>7. ~Stale(t) => ~InCancel BY <2>1 DEF WindowInv
  <2>8. ASSUME ~InCancel', task'["rx"].pc # "reset_start", s'.awaitingTtsStop
        PROVE  Lasts(s', Ahead')
    <3>1. CASE Stale(t)
      BY <3>1, <2>1, <2>3, <2>5, <2>8, SameWindow DEF WindowInv
    <3>2. CASE ~Stale(t) BY <3>2, <2>1, <2>5, <2>8
    <3> QED BY <3>1, <3>2
  <2>9. ASSUME NEW u \in Turns, task'[u].pc # "idle", task'[u].gen = s'.gen
        PROVE  ~InCancel' /\ Steady(s', task'[u], Ahead')
    <3>1. u = t BY <1>4, <2>9
    <3>2. ~Stale(t) BY <3>1, <1>2, <2>9 DEF Stale
    <3>3. Steady(s', f, Ahead) BY <3>1, <3>2, <1>2, <2>1, <2>9
    <3> QED BY <3>1, <3>2, <3>3, <1>2, <2>3, <2>5, <2>7 DEF Steady
  <2>10. (InCancel /\ task["rx"].arg \in {"abort", "detect"} /\ s.awaitingTtsStop => task["rx"].needs)'
    BY <2>1, <2>3, <2>7 DEF WindowInv
  <2> QED BY <2>4, <2>6, <2>8, <2>9, <2>10 DEF WindowInv, Live, Stale
<1> QED BY <1>5, <1>6 DEF SpeaksInv

LEMMA IdleFrame == Idle.pc = "idle" /\ Idle.gen = 0 /\ Idle.speech = "none"
BY DEF Idle, Frame

\* The end of _run_turn releases the window.
LEMMA SettledWindow ==
  ASSUME SessionInv, SpeaksInv, "overlap" \notin Inputs, NEW t \in Turns, Live(t), NEW z, Proper(z),
         z.gen = s.gen, z.closed = s.closed, z.pendingMusic # "device",
         ~s.closed => Framed(z, Ahead),
         Stale(t) \/ task[t].speech \notin {"open", "played"},
         Settled(t, z), UNCHANGED <<wire, dev>>
  PROVE  SpeaksInv'
<1> DEFINE y == Settle(z, task[t].gen)
           f == [task[t] EXCEPT !.pc = "reset"]
           v == Free(y, t)
<1>1. task[t] \in Frames /\ task[t].gen =< s.gen /\ s.gen \in Nat /\ task[t].speech # "raised"
  BY TurnFacts DEF SpeaksInv, VoiceInv, Proper, Attributes
<1>2. Proper(y) /\ Quiet(z, y) BY SettleQuiet
<1>3. ~s.closed => /\ Framed(y, Ahead) /\ ~y.awaitingTtsStop
                   /\ ~Stale(t) => y.state # "speaking"
  BY SettleWindow DEF Stale
<1>4. y.pendingMusic = z.pendingMusic
  <2>1. \A u : Proper(u) => NotifyIdle(u).pendingMusic = u.pendingMusic
    BY DEF NotifyIdle, IdleFlags, Put, Proper, Attributes
  <2> DEFINE r == Release(z)
             b == [r EXCEPT !.state = "ready"]
             d == IF r.state # "closed" /\ (task[t].gen = r.gen \/ r.awaitingWake) THEN b ELSE r
  <2>2. r.pendingMusic = z.pendingMusic BY DEF Release, Put, Proper, Attributes
  <2>3. Proper(r) BY ReleaseQuiet
  <2>4. Settle(z, task[t].gen) = IF d.awaitingWake /\ ~d.closed THEN NotifyIdle(d) ELSE d BY DEF Settle
  <2> HIDE DEF r
  <2>5. b \in Attributes /\ b.pendingMusic = r.pendingMusic /\ b.queue = r.queue /\ b.gen = r.gen
        /\ b.putters = r.putters
    BY <2>3 DEF Proper, Attributes, States
  <2> HIDE DEF b
  <2>6. Proper(d) /\ d.pendingMusic = z.pendingMusic BY <2>2, <2>3, <2>5 DEF Proper, Bounded
  <2> QED BY <2>1, <2>4, <2>6
<1>5. y.gen = z.gen /\ y.closed = z.closed BY <1>2 DEF Quiet, Calm
<1>6. /\ v.gen = y.gen /\ v.closed = y.closed /\ v.queue = y.queue
      /\ v.awaitingTtsStop = y.awaitingTtsStop /\ v.pendingMusic = y.pendingMusic
  BY <1>2 DEF Free, Proper, Attributes
<1>7. f.pc = "reset" /\ f.gen = task[t].gen /\ f.speech = task[t].speech BY <1>1 DEF Frames
<1>8. \/ s' = y /\ task' = [task EXCEPT ![t] = f]
      \/ s' = v /\ task' = [task EXCEPT ![t] = Idle]
  BY DEF Settled
<1> HIDE DEF y, v, f
<1>9. CASE s' = y /\ task' = [task EXCEPT ![t] = f]
  <2>1. ~s.closed /\ ~Stale(t) => Steady(s', f, Ahead) BY <1>3, <1>7, <1>9 DEF Steady
  <2> QED BY <2>1, <1>1, <1>3, <1>4, <1>5, <1>7, <1>9, TurnWindow
<1>10. CASE s' = v /\ task' = [task EXCEPT ![t] = Idle]
  <2>1. ~s.closed => Framed(v, Ahead) BY <1>3, <1>6, SameWindow
  <2>2. s'.gen = s.gen /\ s'.closed = s.closed /\ s'.pendingMusic # "device"
        /\ (~s.closed => Framed(s', Ahead) /\ ~s'.awaitingTtsStop)
    BY <2>1, <1>3, <1>4, <1>5, <1>6, <1>10
  <2>3. Idle.gen =< s.gen BY <1>1, IdleFrame
  <2>4. task' = [task EXCEPT ![t] = Idle] BY <1>10
  <2> QED BY <2>2, <2>3, <2>4, IdleFrame, TurnWindow
<1> QED BY <1>8, <1>9, <1>10

\* The music is played in the window that the speech left open, or in a new one.
LEMMA FinallyWindow ==
  ASSUME SessionInv, SpeaksInv, "overlap" \notin Inputs, NEW t \in Turns, Live(t), NEW z, Proper(z),
         z.gen = s.gen, z.closed = s.closed, z.pendingMusic # "device",
         ~s.closed => Framed(z, Ahead),
         Stale(t) \/ task[t].speech \notin {"open", "played"},
         ~s.closed /\ ~Stale(t) => /\ z.awaitingTtsStop => Lasts(z, Ahead)
                                   /\ z.state = "speaking" /\ z.pendingMusic # "none" => Lasts(z, Ahead),
         Finally(t, z), UNCHANGED <<wire, dev>>
  PROVE  SpeaksInv'
<1> DEFINE o == [z EXCEPT !.pendingMusic = "none"]
           w == [o EXCEPT !.awaitingTtsStop = FALSE]
           f == Frame("music", task[t].gen, "open", "stream")
<1>1. \/ Settled(t, z)
      \/ /\ ~Stale(t) /\ ~z.closed /\ z.pendingMusic # "none"
         /\ s' = IF o.state = "speaking" THEN w ELSE OpenSpeech(o)
         /\ task' = [task EXCEPT ![t] = f]
  BY DEF Finally
<1>2. CASE Settled(t, z) BY <1>2, SettledWindow
<1>3. CASE /\ ~Stale(t) /\ ~z.closed /\ z.pendingMusic # "none"
           /\ s' = IF o.state = "speaking" THEN w ELSE OpenSpeech(o)
           /\ task' = [task EXCEPT ![t] = f]
  <2>1. o \in Attributes /\ o.gen = z.gen /\ o.closed = z.closed /\ o.queue = z.queue
        /\ o.putters = z.putters
        /\ o.state = z.state /\ o.awaitingTtsStop = z.awaitingTtsStop /\ o.pendingMusic = "none"
    BY DEF Proper, Attributes, Clips
  <2> HIDE DEF o
  <2>2. w.gen = z.gen /\ w.closed = z.closed /\ w.queue = z.queue /\ w.pendingMusic = "none"
        /\ ~w.awaitingTtsStop
    BY <2>1 DEF Attributes
  <2> HIDE DEF w
  <2>3. /\ Framed(o, Ahead) /\ Framed(w, Ahead)
        /\ o.awaitingTtsStop => Lasts(o, Ahead)
        /\ o.state = "speaking" => Lasts(w, Ahead)
    BY <1>3, <2>1, <2>2, SameWindow
  <2>4. Proper(o) BY <2>1 DEF Proper, Bounded
  <2> DEFINE y == OpenSpeech(o)
  <2>5. /\ Framed(y, Ahead) /\ Lasts(y, Ahead) /\ ~y.awaitingTtsStop /\ y.gen = o.gen
        /\ y.closed = o.closed /\ y.pendingMusic = o.pendingMusic
    BY <1>3, <2>1, <2>3, <2>4, OpenSpeechWindow
  <2> HIDE DEF y
  <2>6. /\ Framed(s', Ahead) /\ Lasts(s', Ahead) /\ ~s'.awaitingTtsStop /\ s'.gen = s.gen
        /\ s'.closed = s.closed /\ s'.pendingMusic = "none"
    BY <1>3, <2>1, <2>2, <2>3, <2>5 DEF y
  <2>7. f.pc = "music" /\ f.gen = task[t].gen /\ f.speech = "open" BY DEF Frame
  <2> HIDE DEF f
  <2>8. Steady(s', f, Ahead) BY <2>6, <2>7 DEF Steady
  <2>9. task[t].gen =< s.gen BY DEF SpeaksInv, VoiceInv
  <2> QED BY <1>3, <2>6, <2>7, <2>8, <2>9, TurnWindow
<1> QED BY <1>1, <1>2, <1>3

\* The window as a turn of the current generation finds it.
LEMMA CurrentTurn ==
  ASSUME SessionInv, SpeaksInv, "overlap" \notin Inputs, NEW t \in Turns, Live(t)
  PROVE  /\ ~s.closed => Framed(s, Ahead)
         /\ ~s.closed /\ ~Stale(t) => /\ s.awaitingTtsStop => Lasts(s, Ahead)
                                      /\ Steady(s, task[t], Ahead)
<1>1. task["rx"].pc # "reset_start"
  BY DEF SessionInv, Alone, HeardAlone, Deserted
<1> QED BY <1>1 DEF SpeaksInv, WindowInv

LEMMA MusicKept ==
  ASSUME NEW z, Proper(z), NEW gen
  PROVE  /\ Release(z).pendingMusic = z.pendingMusic
         /\ OpenSpeech(z).pendingMusic = z.pendingMusic
         /\ CloseSpeech(z, gen).pendingMusic = z.pendingMusic
BY DEF Release, OpenSpeech, CloseSpeech, Put, Proper, Attributes

\* A _speak begins in the window that is to be released, or opens one.
LEMMA SayWindow ==
  ASSUME SessionInv, SpeaksInv, "overlap" \notin Inputs, NEW t \in Turns, Live(t),
         NEW pc \in {"say", "announce"}, NEW z, Proper(z), z.gen = s.gen, z.closed = s.closed,
         z.pendingMusic # "device", ~Stale(t),
         ~s.closed => Framed(z, Ahead) /\ (z.awaitingTtsStop => Lasts(z, Ahead)),
         Say(t, pc, z), UNCHANGED <<wire, dev>>
  PROVE  SpeaksInv'
<1> DEFINE f == [task[t] EXCEPT !.pc = pc, !.speech = "open"]
           y == OpenSpeech(z)
<1>1. s' = y /\ task' = [task EXCEPT ![t] = f] BY DEF Say, Await
<1>2. task[t] \in Frames /\ task[t].gen =< s.gen BY TurnFacts DEF SpeaksInv, VoiceInv
<1>3. f.pc = pc /\ f.speech = "open" /\ f.gen = task[t].gen BY <1>2 DEF Frames
<1>4. ~s.closed => /\ Framed(y, Ahead) /\ Lasts(y, Ahead) /\ ~y.awaitingTtsStop
  BY OpenSpeechWindow
<1>5. y.gen = s.gen /\ y.closed = s.closed BY OpenSpeechQuiet DEF Quiet, Calm
<1>6. y.pendingMusic # "device" BY MusicKept
<1> HIDE DEF f, y
<1>7. ~s.closed => Steady(y, f, Ahead) BY <1>3, <1>4 DEF Steady
<1> QED BY <1>1, <1>2, <1>3, <1>4, <1>5, <1>6, <1>7, TurnWindow

\* A turn goes on, and the session stays as it is.
LEMMA GoesOnWindow ==
  ASSUME SessionInv, SpeaksInv, "overlap" \notin Inputs, NEW t \in Turns, Live(t),
         NEW f, task' = [task EXCEPT ![t] = f], UNCHANGED <<wire, dev>>,
         s'.gen = s.gen, s'.closed = s.closed, s'.pendingMusic = s.pendingMusic,
         s'.queue = s.queue, s'.awaitingTtsStop = s.awaitingTtsStop,
         f.gen = task[t].gen, f.pc \notin {"device", "expired"},
         f.pc = "tools" => f.arg # "device", f.pc \in {"new", "notify"} => f.speech = "none",
         f.speech # "raised", ~s.closed /\ ~Stale(t) => Steady(s', f, Ahead)
  PROVE  SpeaksInv'
<1>1. s'.pendingMusic # "device" /\ f.gen =< s.gen BY DEF SpeaksInv, VoiceInv
<1>2. /\ ~s.closed => Framed(s', Ahead)
      /\ ~s.closed /\ ~Stale(t) /\ s'.awaitingTtsStop => Lasts(s', Ahead)
  BY CurrentTurn, SameWindow
<1> QED BY <1>1, <1>2, TurnWindow

LEMMA TurnNextWindow ==
  ASSUME SessionInv, SpeaksInv, VoiceOnly, NEW t \in Turns, TurnNext(t)
  PROVE  SpeaksInv'
<1>1. /\ task[t] \in Frames /\ task[t].gen \in Nat /\ Proper(s) /\ s \in Attributes
      /\ task[t].pc \notin {"cancel_begin", "cancel_turn", "reset_start"}
      /\ task[t].pc \notin {"device", "expired"} /\ task[t].gen =< s.gen
      /\ task[t].pc = "tools" => task[t].arg # "device"
      /\ task[t].pc \in {"new", "notify"} => task[t].speech = "none"
      /\ s.pendingMusic # "device" /\ task[t].speech # "raised"
  BY TurnFacts DEF SpeaksInv, VoiceInv
<1>2. "overlap" \notin Inputs BY DEF VoiceOnly
<1>3. UNCHANGED <<wire, dev>> /\ Live(t)
  BY DEF TurnNext, TurnBegins, BrainAnswers, ToolsDone, TurnTimeout, TurnUnwinds, MusicDone,
         MusicNotified, MusicAnnounced, ResetDone, TurnStep, Live
<1>4. /\ ~s.closed => Framed(s, Ahead)
      /\ ~s.closed /\ ~Stale(t) => /\ s.awaitingTtsStop => Lasts(s, Ahead)
                                   /\ Steady(s, task[t], Ahead)
  BY <1>2, <1>3, CurrentTurn
<1>5. CASE TurnBegins(t)
  <2>0. task[t].pc = "new" /\ task[t].speech = "none" BY <1>1, <1>5 DEF TurnBegins
  <2>1. CASE Stale(t) /\ Finally(t, s)
    BY <2>1, <1>1, <1>2, <1>3, <1>4, FinallyWindow
  <2>2. CASE ~Stale(t) /\ Finally(t, Release(s))
    <3> DEFINE z == Release(s)
    <3>1. Proper(z) /\ z.gen = s.gen /\ z.closed = s.closed
      BY <1>1, ReleaseQuiet DEF Quiet, Calm
    <3>2. z.pendingMusic # "device" BY <1>1, MusicKept
    <3>3. ~s.closed => Framed(z, Ahead) /\ ~z.awaitingTtsStop /\ z.state = s.state
      BY <1>1, <1>4, ReleaseWindow
    <3>4. ~s.closed => s.state # "speaking" BY <2>0, <2>2, <1>4 DEF Steady
    <3>5. Finally(t, z) BY <2>2
    <3> HIDE DEF z
    <3> QED BY <2>0, <3>1, <3>2, <3>3, <3>4, <3>5, <1>2, <1>3, FinallyWindow
  <2>3. CASE /\ ~Stale(t) /\ UNCHANGED s
             /\ task' = [task EXCEPT ![t].pc = "brain", ![t].speech = "waiting"]
    <3> DEFINE f == [task[t] EXCEPT !.pc = "brain", !.speech = "waiting"]
    <3>1. task' = [task EXCEPT ![t] = f] BY <2>3
    <3>2. f.pc = "brain" /\ f.speech = "waiting" /\ f.gen = task[t].gen BY <1>1 DEF Frames
    <3> HIDE DEF f
    <3>3. ~s.closed => Steady(s', f, Ahead) BY <2>0, <2>3, <1>4, <3>2 DEF Steady
    <3> QED BY <2>3, <3>1, <3>2, <3>3, <1>2, <1>3, GoesOnWindow
  <2> QED BY <1>5, <2>1, <2>2, <2>3 DEF TurnBegins
<1>6. CASE BrainAnswers(t)
  <2>0. task[t].pc = "brain" BY <1>6 DEF BrainAnswers
  <2>1. CASE Stale(t) /\ UNCHANGED s /\ task' = Goto(t, "unwind")
    <3> DEFINE f == [task[t] EXCEPT !.pc = "unwind"]
    <3>1. task' = [task EXCEPT ![t] = f] BY <2>1 DEF Goto
    <3>2. f.pc = "unwind" /\ f.gen = task[t].gen /\ f.speech = task[t].speech BY <1>1 DEF Frames
    <3> HIDE DEF f
    <3> QED BY <2>1, <3>1, <3>2, <1>1, <1>2, <1>3, GoesOnWindow
  <2>2. ASSUME NEW r \in Replies, ~Stale(t), s' = IF r = "farewell" THEN RequestExit(s) ELSE s,
               task' = Answer(t, r, "raised")
        PROVE  SpeaksInv'
    <3> DEFINE pc == CASE r \in {"music", "devmusic"} -> "tools" [] r = "raise" -> "raised" [] OTHER -> "drain"
               arg == CASE r = "music" -> "stream" [] r = "devmusic" -> "device" [] OTHER -> "none"
               f == [task[t] EXCEPT !.pc = pc, !.arg = arg]
    <3>1. task' = [task EXCEPT ![t] = f] BY <2>2 DEF Answer
    <3>2. f.pc = pc /\ f.arg = arg /\ f.gen = task[t].gen /\ f.speech = task[t].speech
      BY <1>1 DEF Frames
    <3>3. pc \in {"tools", "raised", "drain"} OBVIOUS
    <3>4. arg # "device" BY DEF VoiceOnly
    <3> HIDE DEF pc, arg, f
    <3>5. /\ s'.gen = s.gen /\ s'.closed = s.closed /\ s'.pendingMusic = s.pendingMusic
          /\ s'.queue = s.queue /\ s'.awaitingTtsStop = s.awaitingTtsStop /\ s'.state = s.state
      BY <2>2, <1>1 DEF RequestExit, Attributes
    <3>6. ~s.closed => Steady(s', f, Ahead)
      BY <2>0, <2>2, <1>4, <3>2, <3>3, <3>5, SameWindow DEF Steady
    <3> QED BY <3>1, <3>2, <3>3, <3>4, <3>5, <3>6, <1>1, <1>2, <1>3, GoesOnWindow
  <2> QED BY <1>6, <2>1, <2>2 DEF BrainAnswers
<1>7. CASE ToolsDone(t)
  <2> DEFINE z == [s EXCEPT !.pendingMusic = task[t].arg]
  <2>7. task[t].pc = "tools" /\ (s' = z \/ s' = Withdraw(t, z)) BY <1>7 DEF ToolsDone
  <2>8. Withdraw(t, z) = z
    <3>1. task[t].arg \in Clips BY <2>7 DEF SessionInv, ToolsSetAClip, Tasks
    <3>2. z \in Attributes /\ z.gen = s.gen /\ z.closed = s.closed /\ z.turn = s.turn
          /\ z.queue = s.queue /\ z.putters = s.putters /\ z.state = s.state
          /\ z.liveStale = s.liveStale
      BY <1>1, <3>1 DEF Attributes
    <3> HIDE DEF z
    <3>3. Quiet(s, z) BY <1>1, <3>2, SameQuiet
    <3> QED BY <3>3, WithdrawCalm
  <2>0. task[t].pc = "tools" /\ s' = z BY <2>7, <2>8
  <2>1. PICK pc \in {"raised", "unwind", "drain"} :
            task' = [task EXCEPT ![t].arg = "none", ![t].pc = pc]
    BY <1>7 DEF ToolsDone
  <2> DEFINE f == [task[t] EXCEPT !.arg = "none", !.pc = pc]
  <2>2. task' = [task EXCEPT ![t] = f] BY <2>1
  <2>3. f.pc = pc /\ f.gen = task[t].gen /\ f.speech = task[t].speech BY <1>1 DEF Frames
  <2> HIDE DEF f
  <2>4. /\ s'.gen = s.gen /\ s'.closed = s.closed /\ s'.pendingMusic = task[t].arg
        /\ s'.queue = s.queue /\ s'.awaitingTtsStop = s.awaitingTtsStop /\ s'.state = s.state
    BY <2>0, <1>1 DEF Attributes
  <2>5. ~s.closed /\ ~Stale(t) => Steady(s', f, Ahead)
    BY <2>0, <1>4, <2>3, <2>4, SameWindow DEF Steady
  <2>6. ~s.closed => Framed(s', Ahead) /\ (Lasts(s', Ahead) <=> Lasts(s, Ahead))
    BY <1>4, <2>4, SameWindow
  <2> QED BY <2>0, <2>2, <2>3, <2>4, <2>5, <2>6, <1>1, <1>2, <1>3, <1>4, TurnWindow
<1>8. CASE TurnTimeout(t) BY <1>8 DEF TurnTimeout, VoiceOnly
<1>9. CASE TurnUnwinds(t)
  <2>1. task[t].speech \notin {"open", "played"} /\ ~Raised(t)
    BY <1>1, <1>9 DEF TurnUnwinds, Spoken, Raised
  <2>2. CASE Finally(t, s)
    <3>1. ~s.closed /\ ~Stale(t) => /\ s.awaitingTtsStop => Lasts(s, Ahead)
                                    /\ s.state = "speaking" /\ s.pendingMusic # "none" => Lasts(s, Ahead)
      BY <1>4 DEF Steady
    <3> QED BY <2>1, <2>2, <3>1, <1>1, <1>2, <1>3, <1>4, FinallyWindow
  <2>3. CASE ~Stale(t) /\ Say(t, "say", s) BY <2>3, <1>1, <1>2, <1>3, <1>4, SayWindow
  <2> QED BY <1>9, <1>1, <2>1, <2>2, <2>3 DEF TurnUnwinds
<1>10. CASE MusicDone(t)
  <2>0. task[t].pc = "music" BY <1>1, <1>10 DEF MusicDone
  <2>1. CASE Stale(t) /\ Settled(t, s) BY <2>1, <1>1, <1>2, <1>3, <1>4, SettledWindow
  <2>2. CASE ~Stale(t) /\ UNCHANGED s /\ task' = [task EXCEPT ![t].pc = "notify", ![t].speech = "none"]
    <3> DEFINE f == [task[t] EXCEPT !.pc = "notify", !.speech = "none"]
    <3>1. task' = [task EXCEPT ![t] = f] BY <2>2
    <3>2. f.pc = "notify" /\ f.speech = "none" /\ f.gen = task[t].gen BY <1>1 DEF Frames
    <3> HIDE DEF f
    <3>3. ~s.closed => Steady(s', f, Ahead) BY <2>0, <2>2, <3>2, <1>4 DEF Steady
    <3> QED BY <2>2, <3>1, <3>2, <3>3, <1>2, <1>3, GoesOnWindow
  <2> QED BY <1>10, <2>1, <2>2 DEF MusicDone
<1>11. CASE MusicNotified(t)
  <2>0. task[t].pc = "notify" /\ task[t].speech = "none" BY <1>1, <1>11 DEF MusicNotified
  <2>1. CASE Stale(t) /\ Settled(t, s) BY <2>1, <1>1, <1>2, <1>3, <1>4, SettledWindow
  <2>2. ASSUME NEW stop \in BOOLEAN, Settled(t, [s EXCEPT !.awaitingTtsStop = stop]) PROVE SpeaksInv'
    <3> DEFINE z == [s EXCEPT !.awaitingTtsStop = stop]
    <3>1. z \in Attributes /\ z.gen = s.gen /\ z.closed = s.closed /\ z.queue = s.queue
          /\ z.putters = s.putters /\ z.pendingMusic = s.pendingMusic
      BY <1>1 DEF Attributes
    <3>2. Settled(t, z) BY <2>2
    <3> HIDE DEF z
    <3>3. Proper(z) /\ (~s.closed => Framed(z, Ahead)) BY <1>1, <1>4, <3>1, SameWindow DEF Proper, Bounded
    <3> QED BY <2>0, <3>1, <3>2, <3>3, <1>1, <1>2, <1>3, SettledWindow
  <2>3. CASE ~Stale(t) /\ Say(t, "announce", [s EXCEPT !.awaitingTtsStop = TRUE])
    <3> DEFINE z == [s EXCEPT !.awaitingTtsStop = TRUE]
    <3>1. z \in Attributes /\ z.gen = s.gen /\ z.closed = s.closed /\ z.queue = s.queue
          /\ z.putters = s.putters /\ z.pendingMusic = s.pendingMusic
      BY <1>1 DEF Attributes
    <3>2. Say(t, "announce", z) BY <2>3
    <3> HIDE DEF z
    <3>3. ~s.closed => Lasts(s, Ahead) BY <2>0, <2>3, <1>4 DEF Steady
    <3>4. Proper(z) /\ (~s.closed => Framed(z, Ahead) /\ Lasts(z, Ahead))
      BY <1>1, <1>4, <3>1, <3>3, SameWindow DEF Proper, Bounded
    <3> QED BY <2>3, <3>1, <3>2, <3>4, <1>1, <1>2, <1>3, SayWindow
  <2>4. (s.awaitingTtsStop \/ task[t].arg = "stream") \in BOOLEAN BY <1>1 DEF Attributes
  <2> QED BY <1>11, <2>1, <2>2, <2>3, <2>4 DEF MusicNotified
<1>12. CASE MusicAnnounced(t)
  <2> DEFINE stop == s.awaitingTtsStop \/ (~Stale(t) /\ task[t].arg = "stream")
             z == [s EXCEPT !.awaitingTtsStop = stop]
  <2>1. Settled(t, z) /\ task[t].speech \notin {"open", "played"}
    BY <1>1, <1>12 DEF MusicAnnounced, Spoken, Raised
  <2>2. stop \in BOOLEAN BY <1>1 DEF Attributes
  <2> HIDE DEF stop
  <2>3. z \in Attributes /\ z.gen = s.gen /\ z.closed = s.closed /\ z.queue = s.queue
        /\ z.putters = s.putters /\ z.pendingMusic = s.pendingMusic
    BY <1>1, <2>2 DEF Attributes
  <2> HIDE DEF z
  <2>4. Proper(z) /\ (~s.closed => Framed(z, Ahead)) BY <1>1, <1>4, <2>3, SameWindow DEF Proper, Bounded
  <2> QED BY <2>1, <2>3, <2>4, <1>1, <1>2, <1>3, SettledWindow
<1>13. CASE ResetDone(t)
  <2>1. PICK stale \in BOOLEAN :
            s' = Free([s EXCEPT !.liveStale = stale], t) /\ task' = [task EXCEPT ![t] = Idle]
    BY <1>1, <1>13 DEF ResetDone, Attributes
  <2> DEFINE z == [s EXCEPT !.liveStale = stale]
  <2>2. z \in Attributes /\ z.gen = s.gen /\ z.closed = s.closed /\ z.queue = s.queue
        /\ z.pendingMusic = s.pendingMusic /\ z.awaitingTtsStop = s.awaitingTtsStop
    BY <1>1 DEF Attributes
  <2> HIDE DEF z
  <2>3. /\ s'.gen = s.gen /\ s'.closed = s.closed /\ s'.queue = s.queue
        /\ s'.pendingMusic = s.pendingMusic /\ s'.awaitingTtsStop = s.awaitingTtsStop
    BY <2>1, <2>2 DEF Free, Attributes, z
  <2>4. Idle.gen =< s.gen
    <3>1. s.gen \in Nat BY <1>1 DEF Attributes
    <3> QED BY <3>1, IdleFrame
  <2>5. ~s.closed => Framed(s', Ahead) /\ (Lasts(s', Ahead) <=> Lasts(s, Ahead))
    BY <1>4, <2>3, SameWindow
  <2> QED BY <2>1, <2>3, <2>4, <2>5, <1>1, <1>2, <1>3, <1>4, IdleFrame, TurnWindow
<1> QED BY <1>5, <1>6, <1>7, <1>8, <1>9, <1>10, <1>11, <1>12, <1>13 DEF TurnNext

\* A speak task plays in the window it has opened, and leaves it open for the music.
LEMMA SpeechWindow ==
  ASSUME SessionInv, SpeaksInv, VoiceOnly, NEW x \in Speakers, SpeechStep(x)
  PROVE  SpeaksInv'
<1>1. task[x].speech # "none" /\ UNCHANGED <<wire, dev>>
  BY DEF SpeechStep, FirstSentence, StreamPacket, SpeechDone, SpeechRaises, SpeechRuns
<1>2. x \in Tasks /\ task[x] \in Frames /\ Proper(s) /\ s \in Attributes /\ s.gen \in Nat
  BY SpeakersAreTasks, Start DEF SessionInv, TypeOK
<1>3. x \in Turns /\ Live(x)
  <2>1. task[x].pc # "idle" BY <1>1, <1>2 DEF SessionInv, Purposes
  <2> QED BY <2>1 DEF Speakers, SpeaksInv, VoiceInv, Live
<1>4. /\ task[x].gen =< s.gen /\ task[x].pc \notin {"device", "expired", "idle", "new", "notify"}
      /\ task[x].pc = "tools" => task[x].arg # "device"
      /\ s.pendingMusic # "device" /\ "overlap" \notin Inputs
  BY <1>1, <1>3 DEF SpeaksInv, VoiceInv, VoiceOnly, Live
<1>5. /\ ~s.closed => Framed(s, Ahead)
      /\ ~s.closed /\ ~Stale(x) => /\ s.awaitingTtsStop => Lasts(s, Ahead)
                                   /\ Steady(s, task[x], Ahead)
  BY <1>3, <1>4, CurrentTurn
<1>6. ASSUME NEW v, task' = [task EXCEPT ![x].speech = v],
             s'.gen = s.gen, s'.closed = s.closed, s'.pendingMusic # "device",
             v # "raised", ~s.closed => Framed(s', Ahead),
             ~s.closed /\ Stale(x) /\ s'.awaitingTtsStop => s.awaitingTtsStop /\ s'.queue = s.queue,
             ~s.closed /\ ~Stale(x) =>
                 /\ s'.awaitingTtsStop => Lasts(s', Ahead)
                 /\ v \in {"open", "played"} => Lasts(s', Ahead) /\ ~s'.awaitingTtsStop
                 /\ s'.state = "speaking" /\ s'.pendingMusic # "none" => Lasts(s', Ahead)
                 /\ task[x].pc = "music" => Lasts(s', Ahead)
                 /\ task[x].pc \in {"brain", "tools"} => v \in {"open", "played"}
      PROVE  SpeaksInv'
  <2> DEFINE f == [task[x] EXCEPT !.speech = v]
  <2>1. task' = [task EXCEPT ![x] = f] BY <1>6
  <2>2. f.pc = task[x].pc /\ f.gen = task[x].gen /\ f.arg = task[x].arg /\ f.speech = v
    BY <1>2 DEF Frames
  <2> HIDE DEF f
  <2>3. ~s.closed /\ ~Stale(x) => Steady(s', f, Ahead) BY <2>2, <1>4, <1>6 DEF Steady
  <2> QED BY <2>1, <2>2, <2>3, <1>1, <1>3, <1>4, <1>6, TurnWindow
<1>7. CASE FirstSentence(x)
  <2> DEFINE y == OpenSpeech(s)
  <2>1. y.gen = s.gen /\ y.closed = s.closed BY <1>2, OpenSpeechQuiet DEF Quiet, Calm
  <2>2. y.pendingMusic # "device" BY <1>2, <1>4, MusicKept
  <2>3. s' = y /\ ~Stale(x) /\ task' = [task EXCEPT ![x].speech = "open"] BY <1>3, <1>7 DEF FirstSentence, Speech, Await
  <2>4. ~s.closed => Framed(y, Ahead) /\ Lasts(y, Ahead) /\ ~y.awaitingTtsStop
    BY <2>3, <1>2, <1>5, OpenSpeechWindow
  <2> HIDE DEF y
  <2> QED BY <2>1, <2>2, <2>3, <2>4, <1>6
<1>8. CASE StreamPacket(x)
  <2> DEFINE y == Put(s, "audio", s.gen)
             w == [y EXCEPT !.ttsPlayed = TRUE]
  <2>1. ~s.closed /\ ~Stale(x) /\ task[x].speech = "open" /\ s' = w
        /\ task' = [task EXCEPT ![x].speech = "played"]
    BY <1>3, <1>8 DEF StreamPacket, Speech, Await
  <2>2. Lasts(s, Ahead) /\ ~s.awaitingTtsStop BY <2>1, <1>5 DEF Steady
  <2>3. Framed(y, Ahead) /\ Alike(s, y) /\ Lasts(y, Ahead) /\ Proper(y)
    BY <2>1, <2>2, <1>2, <1>5, PutWindow, PutQuiet DEF FrameKinds
  <2> HIDE DEF y
  <2>4. w.gen = y.gen /\ w.queue = y.queue /\ w.closed = y.closed /\ w.pendingMusic = y.pendingMusic
        /\ w.awaitingTtsStop = y.awaitingTtsStop
    BY <2>3 DEF Proper, Attributes
  <2> HIDE DEF w
  <2>5. Framed(w, Ahead) /\ Lasts(w, Ahead) BY <2>3, <2>4, SameWindow
  <2> QED BY <2>1, <2>2, <2>3, <2>4, <2>5, <1>4, <1>6 DEF Alike
<1>9. CASE SpeechDone(x)
  <2>1. /\ task' = [task EXCEPT ![x].speech = "done"] /\ task[x].pc # "music"
        /\ s' = IF task[x].speech \in {"waiting", "deaf"} THEN s ELSE CloseSpeech(s, task[x].gen)
        /\ Stale(x) \/ task[x].pc \notin {"brain", "tools"}
    BY <1>3, <1>9 DEF SpeechDone, VoiceOnly, Speech, Shut, Await, Ends
  <2>2. CASE s' = s
    <3>1. ~s.closed /\ ~Stale(x) /\ s.state = "speaking" /\ s.pendingMusic # "none" => Lasts(s, Ahead)
      BY <1>5 DEF Steady
    <3> QED BY <2>1, <2>2, <3>1, <1>4, <1>5, <1>6
  <2>3. CASE Stale(x)
    <3>1. CloseSpeech(s, task[x].gen) = s BY <2>3 DEF CloseSpeech, Stale
    <3> QED BY <2>1, <2>2, <3>1
  <2>4. CASE ~Stale(x) /\ task[x].speech \notin {"waiting", "deaf"}
    <3> DEFINE y == CloseSpeech(s, s.gen)
    <3>1. s' = y /\ task[x].speech \in {"open", "played"}
      BY <2>1, <2>4, <1>2, <1>9 DEF Stale, SpeechDone, Frames
    <3>2. y.gen = s.gen /\ y.closed = s.closed BY <1>2, CloseSpeechQuiet DEF Quiet, Calm
    <3>3. y.pendingMusic # "device" BY <1>2, <1>4, MusicKept
    <3>4. ~s.closed => Lasts(s, Ahead) /\ ~s.awaitingTtsStop BY <2>4, <3>1, <1>5 DEF Steady
    <3>5. ~s.closed => /\ Framed(y, Ahead)
                       /\ y.awaitingTtsStop \/ y.pendingMusic # "none" => Lasts(y, Ahead)
      BY <3>4, <1>2, <1>5, CloseSpeechWindow
    <3> HIDE DEF y
    <3> QED BY <2>1, <2>4, <3>1, <3>2, <3>3, <3>5, <1>6
  <2> QED BY <2>1, <2>2, <2>3, <2>4
<1>10. ~SpeechRaises(x) BY DEF SpeechRaises, VoiceOnly
<1> QED BY <1>7, <1>8, <1>9, <1>10 DEF SpeechStep

-----------------------------------------------------------------------------
\* The steps of a cancellation.

\* What an earlier generation queued finds no window, and needs none.
LEMMA BumpWindow ==
  ASSUME NEW z, Proper(z), NEW a, Framed(z, a), NEW y, y.queue = z.queue,
         y.gen \in Nat, y.gen > z.gen, NEW b
  PROVE  Framed(y, b)
<1> SUFFICES ASSUME NEW i \in DOMAIN z.queue, z.queue[i].kind = "audio"
             PROVE  z.queue[i].gen # KeepaliveGeneration /\ z.queue[i].gen # y.gen
  BY DEF Framed
<1>1. z.queue[i].gen # KeepaliveGeneration BY DEF Framed
<1>2. z.queue[i].gen =< z.gen /\ z.queue[i].gen \in Int /\ z.gen \in Nat
  BY GensAreIntegers DEF Proper, Bounded, Attributes
<1> QED BY <1>1, <1>2

LEMMA EmptyWindow == ASSUME NEW z, z.queue = <<>>, NEW a PROVE Framed(z, a)
BY DEF Framed

\* The turns that are alive are of earlier generations.
Past(z) == \A t \in Turns : Live(t) => task[t].gen < z.gen

\* A step of a coroutine that cancels: it may end a turn or make it unwind.
Cuts(c, f) ==
    \/ task' = [task EXCEPT ![c] = f]
    \/ \E t \in Turns, g \in Frames :
         /\ task' = [task EXCEPT ![t] = g, ![c] = f]
         /\ g = Idle \/ (Live(t) /\ g = [task[t] EXCEPT !.pc = "unwind"])

LEMMA CutWindow ==
  ASSUME SessionInv, SpeaksInv, NEW c \in {"rx", "closer"}, NEW f, Cuts(c, f),
         c = "closer" => s'.closed, s.closed => s'.closed,
         s'.gen \in Nat, s'.gen >= s.gen, s'.pendingMusic # "device",
         ~s'.closed => /\ Framed(s', Ahead) /\ Past(s')
                       /\ s'.awaitingTtsStop =>
                              f.pc \in {"cancel_begin", "cancel_turn", "reset_start"},
         c = "rx" /\ f.pc \in {"cancel_begin", "cancel_turn"} =>
             /\ f.arg \in {"abort", "detect", "start"}
             /\ ~s'.closed /\ f.arg \in {"abort", "detect"} /\ s'.awaitingTtsStop => f.needs,
         UNCHANGED <<wire, dev>>
  PROVE  SpeaksInv'
<1>1. /\ c \in Loops /\ "rx" \in Loops /\ Turns \cap Loops = {} /\ Loops \subseteq Tasks
      /\ {"companion", "sensor", "stopper", "closer"} \subseteq Loops
      /\ Turns \subseteq Tasks /\ task \in [Tasks -> Frames]
  BY TurnsAssumption DEF Tasks, Loops, SessionInv, TypeOK
<1>2. task'[c] = f /\ \A x \in Loops \ {c} : task'[x] = task[x]
  BY <1>1 DEF Cuts
<1>3. ASSUME NEW u \in Turns
      PROVE  task'[u] \in {task[u], Idle} \/ (Live(u) /\ task'[u] = [task[u] EXCEPT !.pc = "unwind"])
  <2>1. u # c BY <1>1
  <2> QED BY <2>1, <1>1 DEF Cuts
<1>4. ASSUME NEW u \in Turns
      PROVE  /\ task'[u].pc \notin {"device", "expired"} /\ task'[u].gen =< s'.gen
             /\ task'[u].pc = "tools" => task'[u].arg # "device"
             /\ task'[u].pc \in {"new", "notify"} => task'[u].speech = "none"
             /\ task'[u].speech # "raised"
             /\ task'[u].pc # "idle" => Live(u) /\ task'[u].gen = task[u].gen
  <2>1. /\ task[u] \in Frames /\ task[u].gen \in Nat /\ task[u].gen =< s.gen /\ s.gen \in Nat
        /\ task[u].pc \notin {"device", "expired"}
        /\ task[u].pc = "tools" => task[u].arg # "device"
        /\ task[u].pc \in {"new", "notify"} => task[u].speech = "none"
        /\ task[u].speech # "raised"
    BY <1>1, Start DEF SpeaksInv, VoiceInv, SessionInv, Frames
  <2>2. task[u].gen =< s'.gen BY <2>1
  <2>3. CASE task'[u] = task[u] BY <2>1, <2>2, <2>3 DEF Live
  <2>4. CASE task'[u] = Idle BY <2>4, IdleFrame
  <2>5. CASE Live(u) /\ task'[u] = [task[u] EXCEPT !.pc = "unwind"]
    <3>1. task'[u].pc = "unwind" /\ task'[u].gen = task[u].gen /\ task'[u].speech = task[u].speech
      BY <2>1, <2>5 DEF Frames
    <3> QED BY <3>1, <2>1, <2>2, <2>5
  <2> QED BY <1>3, <2>3, <2>4, <2>5
<1>5. InCancel' => task'["rx"].arg \in {"abort", "detect", "start"}
  <2>1. CASE c = "rx" BY <2>1, <1>2 DEF InCancel
  <2>2. CASE c = "closer"
    <3>1. task'["rx"] = task["rx"] BY <2>2, <1>1, <1>2
    <3> QED BY <3>1 DEF InCancel, SpeaksInv, VoiceInv
  <2> QED BY <2>1, <2>2
<1>6. VoiceInv'
  <2>1. \A x \in {"companion", "sensor", "stopper"} : task'[x].pc = "idle"
    BY <1>1, <1>2 DEF SpeaksInv, VoiceInv
  <2>2. task'["closer"].pc # "idle" => s'.closed
    <3>1. CASE c = "closer" BY <3>1
    <3>2. CASE c = "rx" BY <3>2, <1>1, <1>2 DEF SpeaksInv, VoiceInv
    <3> QED BY <3>1, <3>2
  <2> QED BY <2>1, <2>2, <1>4, <1>5 DEF VoiceInv
<1>7. ASSUME ~s'.closed PROVE WindowInv'
  <2>1. c = "rx" /\ ~s.closed /\ WindowInv BY <1>7 DEF SpeaksInv
  <2>2. Ahead' <=> Ahead BY DEF Ahead
  <2>3. Framed(s', Ahead') BY <1>7, <2>2 DEF Framed, OpenAfter
  <2>4. \A u \in Turns : Live(u)' => Stale(u)'
    <3> SUFFICES ASSUME NEW u \in Turns, task'[u].pc # "idle" PROVE task'[u].gen # s'.gen
      BY DEF Live, Stale
    <3>1. Live(u) /\ task'[u].gen = task[u].gen BY <1>4
    <3>2. task[u].gen \in Nat BY <1>1 DEF Frames
    <3> QED BY <3>1, <3>2, <1>7 DEF Past
  <2>5. (wire = "audio" => dev = "speaking")' BY <2>1 DEF WindowInv
  <2>6. task'["rx"] = f BY <2>1, <1>2
  <2> QED BY <2>1, <2>3, <2>4, <2>5, <2>6, <1>7 DEF WindowInv, InCancel
<1> QED BY <1>6, <1>7 DEF SpeaksInv

\* The attributes the window depends on, after the straight-line code of a cancellation.
LEMMA CutCode ==
  ASSUME NEW z, Proper(z)
  PROVE  /\ \A needs : AbortTail(z, needs).pendingMusic = z.pendingMusic
         /\ /\ ClearWake(z).pendingMusic = z.pendingMusic
            /\ ClearWake(z).awaitingTtsStop = z.awaitingTtsStop
            /\ ClearWake(z).gen = z.gen /\ ClearWake(z).closed = z.closed
            /\ ClearWake(z).queue = z.queue
         /\ CancelHead(z).pendingMusic = "none"
         /\ CancelHead(z).awaitingTtsStop = z.awaitingTtsStop
         /\ Drain(z).pendingMusic = z.pendingMusic /\ Drain(z).awaitingTtsStop = z.awaitingTtsStop
         /\ ~Listen(z).awaitingTtsStop /\ Listen(z).pendingMusic = "none"
         /\ LET b == [z EXCEPT !.begin = "cancelled"]
            IN  /\ b.pendingMusic = z.pendingMusic /\ b.awaitingTtsStop = z.awaitingTtsStop
                /\ b.gen = z.gen /\ b.closed = z.closed /\ b.queue = z.queue
<1>1. \A needs : AbortTail(z, needs).pendingMusic = z.pendingMusic
  BY DEF AbortTail, Put, Proper, Attributes
<1>2. /\ ClearWake(z).pendingMusic = z.pendingMusic
      /\ ClearWake(z).awaitingTtsStop = z.awaitingTtsStop
      /\ ClearWake(z).gen = z.gen /\ ClearWake(z).closed = z.closed
      /\ ClearWake(z).queue = z.queue
  BY DEF ClearWake, Proper, Attributes
<1>3. /\ CancelHead(z).pendingMusic = "none"
      /\ CancelHead(z).awaitingTtsStop = z.awaitingTtsStop
      /\ Drain(z).pendingMusic = z.pendingMusic /\ Drain(z).awaitingTtsStop = z.awaitingTtsStop
      /\ ~Listen(z).awaitingTtsStop /\ Listen(z).pendingMusic = "none"
  BY DEF CancelHead, Drain, Listen, Proper, Attributes
<1>4. LET b == [z EXCEPT !.begin = "cancelled"]
      IN  /\ b.pendingMusic = z.pendingMusic /\ b.awaitingTtsStop = z.awaitingTtsStop
          /\ b.gen = z.gen /\ b.closed = z.closed /\ b.queue = z.queue
  BY DEF Proper, Attributes
<1> QED BY <1>1, <1>2, <1>3, <1>4

\* The session z as a step of _cancel_turn finds or leaves it.
CutBy(c, z) ==
    /\ Proper(z) /\ z.gen >= s.gen /\ z.pendingMusic # "device"
    /\ c = "closer" => z.closed
    /\ s.closed => z.closed
    /\ ~z.closed => Past(z)

LEMMA LaterCut ==
  ASSUME SessionInv, NEW c, NEW z, CutBy(c, z), NEW y, Proper(y), y.gen >= z.gen, y.closed = z.closed,
         y.pendingMusic # "device"
  PROVE  CutBy(c, y)
<1>1. s.gen \in Nat /\ z.gen \in Nat /\ y.gen \in Nat
  BY Start DEF SessionInv, CutBy, Proper, Attributes
<1>2. \A t \in Turns : task[t].gen \in Nat
  BY DEF SessionInv, TypeOK, Frames, Tasks
<1> QED BY <1>1, <1>2 DEF CutBy, Past

LEMMA CutFrames ==
  /\ Idle.pc = "idle" /\ Done.pc = "done" /\ [Idle EXCEPT !.pc = "reset_start"].pc = "reset_start"
  /\ \A then, needs :
        LET f == [Frame("cancel_begin", 0, "none", then) EXCEPT !.needs = needs]
        IN  f.pc = "cancel_begin" /\ f.arg = then /\ f.needs = needs
  /\ \A then, needs, t :
        LET f == [Frame("cancel_turn", 0, "none", then) EXCEPT !.needs = needs, !.on = t]
        IN  f.pc = "cancel_turn" /\ f.arg = then /\ f.needs = needs
  /\ LET f == Frame("cancel_begin", 0, "none", "start")
     IN  f.pc = "cancel_begin" /\ f.arg = "start"
BY DEF Idle, Done, Frame

LEMMA ListenOrResetWindow ==
  ASSUME SessionInv, SpeaksInv, NEW c \in {"rx", "closer"}, NEW z, CutBy(c, z), z.queue = <<>>,
         ListenOrReset(c, z), UNCHANGED <<wire, dev>>
  PROVE  SpeaksInv'
<1>1. Proper(z) BY DEF CutBy
<1>2. CASE z.liveStale
  <2> DEFINE f == [Idle EXCEPT !.pc = "reset_start"]
  <2>1. s' = z /\ task' = [task EXCEPT ![c] = f] BY <1>2 DEF ListenOrReset
  <2>2. f.pc = "reset_start" BY CutFrames
  <2> HIDE DEF f
  <2>3. Cuts(c, f) BY <2>1 DEF Cuts
  <2> QED BY <2>1, <2>2, <2>3, EmptyWindow, CutWindow DEF CutBy, Proper, Attributes
<1>3. CASE ~z.liveStale
  <2> DEFINE y == Listen(z)
  <2>1. Proper(y) /\ y.gen = z.gen + 1 /\ y.closed = z.closed /\ y.queue = <<>>
        /\ ~y.awaitingTtsStop /\ y.pendingMusic = "none"
    BY <1>1, ListenProper, CutCode
  <2>2. s' = y /\ task' = [task EXCEPT ![c] = Idle] BY <1>3 DEF ListenOrReset
  <2> HIDE DEF y
  <2>3. z.gen \in Nat BY <1>1 DEF Proper, Attributes
  <2>4. CutBy(c, y) BY <2>1, <2>3, LaterCut
  <2>5. Cuts(c, Idle) BY <2>2 DEF Cuts
  <2> QED BY <2>1, <2>2, <2>4, <2>5, CutFrames, EmptyWindow, CutWindow DEF CutBy, Proper, Attributes
<1> QED BY <1>2, <1>3

LEMMA ContinueWindow ==
  ASSUME SessionInv, SpeaksInv, NEW c \in {"rx", "closer"}, NEW then, NEW needs,
         NEW z, CutBy(c, z), z.queue = <<>>,
         ~z.closed => /\ then \in {"abort", "detect", "start"}
                      /\ then # "start" /\ z.awaitingTtsStop => needs,
         Continue(c, then, needs, z), UNCHANGED <<wire, dev>>
  PROVE  SpeaksInv'
<1> DEFINE a == AbortTail(z, needs)
<1>1. Proper(z) /\ z.gen \in Nat BY DEF CutBy, Proper, Attributes
<1>2. Proper(a) /\ a.gen = z.gen /\ a.closed = z.closed /\ a.pendingMusic = z.pendingMusic
  BY <1>1, AbortTailQuiet, CutCode DEF Quiet, Calm
<1>3. ~z.closed /\ then \in {"abort", "detect"} => Framed(a, Ahead) /\ ~a.awaitingTtsStop
  <2>1. z.awaitingTtsStop \in BOOLEAN BY <1>1 DEF Proper, Attributes
  <2> QED BY <1>1, <2>1, EmptyWindow, AbortTailWindow
<1>4. CutBy(c, a) BY <1>1, <1>2, LaterCut DEF CutBy
<1>5. CASE then \in {"abort", "close"}
  <2> DEFINE f == IF then = "abort" THEN Aborted(c) ELSE Done
  <2>1. s' = (IF then = "abort" THEN a ELSE z) /\ task' = [task EXCEPT ![c] = f]
    BY <1>5 DEF Continue
  <2>2. f.pc \in {"idle", "done"} BY CutFrames DEF Aborted
  <2> HIDE DEF a, f
  <2>3. Cuts(c, f) BY <2>1 DEF Cuts
  <2>4. CutBy(c, s') /\ (~s'.closed => Framed(s', Ahead) /\ ~s'.awaitingTtsStop)
    BY <2>1, <1>2, <1>3, <1>4, <1>5
  <2> QED BY <2>2, <2>3, <2>4, CutWindow DEF CutBy, Proper, Attributes
<1>6. CASE then = "start"
  <2>1. ListenOrReset(c, z) BY <1>6 DEF Continue
  <2> QED BY <2>1, ListenOrResetWindow
<1>7. CASE then = "detect"
  <2> DEFINE w == ClearWake(a)
             h == CancelHead(w)
  <2>1. IF h.begin = "none" THEN ListenOrReset(c, Drain(h))
        ELSE /\ s' = [h EXCEPT !.begin = "cancelled"]
             /\ task' = [task EXCEPT ![c] = Frame("cancel_begin", 0, "none", "start")]
    BY <1>7 DEF Continue
  <2> HIDE DEF a
  <2>2. Proper(w) /\ w.gen = a.gen /\ w.closed = a.closed /\ w.queue = a.queue
    BY <1>2, ClearWakeQuiet, CutCode
  <2> HIDE DEF w
  <2>3. Proper(h) /\ h.gen = w.gen + 1 /\ h.closed = w.closed /\ h.queue = w.queue
        /\ h.pendingMusic = "none"
    BY <2>2, HeadProper, CutCode
  <2> HIDE DEF h
  <2>4. h.gen \in Nat /\ h.gen > a.gen /\ a.gen \in Nat
    BY <1>1, <1>2, <2>2, <2>3 DEF Proper, Attributes
  <2>5. CutBy(c, h) BY <1>2, <1>4, <2>2, <2>3, <2>4, LaterCut
  <2>6. ~h.closed => Framed(h, Ahead) BY <1>2, <1>3, <1>7, <2>2, <2>3, <2>4, BumpWindow
  <2>7. CASE h.begin = "none"
    <3> DEFINE d == Drain(h)
    <3>1. Proper(d) /\ d.gen = h.gen /\ d.closed = h.closed /\ d.queue = <<>>
          /\ d.pendingMusic = h.pendingMusic
      BY <2>3, DrainProper, CutCode DEF Proper
    <3>2. ListenOrReset(c, d) BY <2>1, <2>7
    <3> HIDE DEF d
    <3>3. CutBy(c, d) BY <2>3, <2>4, <2>5, <3>1, LaterCut
    <3> QED BY <3>1, <3>2, <3>3, ListenOrResetWindow
  <2>8. CASE h.begin # "none"
    <3> DEFINE f == Frame("cancel_begin", 0, "none", "start")
               b == [h EXCEPT !.begin = "cancelled"]
    <3>1. s' = b /\ task' = [task EXCEPT ![c] = f] BY <2>1, <2>8
    <3>2. f.pc = "cancel_begin" /\ f.arg = "start" BY CutFrames
    <3>3. Proper(b) /\ b.gen = h.gen /\ b.closed = h.closed /\ b.queue = h.queue
          /\ b.pendingMusic = h.pendingMusic
      BY <2>3, BeginCancelled, CutCode
    <3> HIDE DEF f, b
    <3>4. CutBy(c, b) BY <2>3, <2>4, <2>5, <3>3, LaterCut
    <3>5. ~b.closed => Framed(b, Ahead) BY <2>6, <3>3, SameWindow
    <3>6. Cuts(c, f) BY <3>1 DEF Cuts
    <3> QED BY <3>1, <3>2, <3>4, <3>5, <3>6, CutWindow DEF CutBy, Proper, Attributes
  <2> QED BY <2>7, <2>8
<1> QED BY <1>5, <1>6, <1>7 DEF Continue

LEMMA CancelRunningWindow ==
  ASSUME SessionInv, SpeaksInv, "overlap" \notin Inputs, NEW c \in {"rx", "closer"}, NEW then, NEW needs,
         NEW z, CutBy(c, z), ~z.closed => Framed(z, Ahead),
         ~z.closed => /\ then \in {"abort", "detect", "start"}
                      /\ then # "start" /\ z.awaitingTtsStop => needs,
         c = "rx" => then \in {"abort", "detect", "start"}, z.turn = s.turn,
         CancelRunning(c, then, needs, z), UNCHANGED <<wire, dev>>
  PROVE  SpeaksInv'
<1>1. /\ Proper(z) /\ z.gen \in Nat /\ z.turn \in Turns \cup {NoTurn} /\ z \in Attributes
      /\ z.pendingMusic # "device"
  BY DEF CutBy, Proper, Attributes
<1>2. CASE z.turn = NoTurn
  <2> DEFINE d == Drain(z)
  <2>1. Proper(d) /\ d.gen = z.gen /\ d.closed = z.closed /\ d.queue = <<>>
        /\ d.pendingMusic = z.pendingMusic /\ d.awaitingTtsStop = z.awaitingTtsStop
    BY <1>1, DrainProper, CutCode
  <2>2. Continue(c, then, needs, d) BY <1>2 DEF CancelRunning
  <2> HIDE DEF d
  <2>3. CutBy(c, d) BY <1>1, <2>1, LaterCut
  <2> QED BY <2>1, <2>2, <2>3, ContinueWindow
<1>3. CASE z.turn # NoTurn
  <2> DEFINE t == z.turn
             ends == task[t].pc \in {"new", "reset"}
             g == IF ends THEN Idle ELSE [task[t] EXCEPT !.pc = "unwind"]
             f == [Frame("cancel_turn", 0, "none", then) EXCEPT !.needs = needs, !.on = t]
             y == [z EXCEPT !.turn = NoTurn]
  <2>1. t \in Turns /\ t \in Tasks BY <1>1, <1>3 DEF Tasks
  <2>2. /\ s' = (IF ends THEN Free(z, t) ELSE z)
        /\ task' = [task EXCEPT ![t] = g, ![c] = f]
    BY <1>3 DEF CancelRunning
  <2>3. f.pc = "cancel_turn" /\ f.arg = then /\ f.needs = needs BY CutFrames
  <2> HIDE DEF f
  <2>4. Free(z, t) = y BY <1>1 DEF Free, Attributes
  <2>5. y \in Attributes /\ y.gen = z.gen /\ y.closed = z.closed /\ y.queue = z.queue
        /\ y.putters = z.putters /\ y.pendingMusic = z.pendingMusic /\ y.awaitingTtsStop = z.awaitingTtsStop
    BY <1>1 DEF Attributes
  <2> HIDE DEF y
  <2>6. /\ Proper(s') /\ s'.gen = z.gen /\ s'.closed = z.closed /\ s'.queue = z.queue
        /\ s'.pendingMusic = z.pendingMusic /\ s'.awaitingTtsStop = z.awaitingTtsStop
    BY <1>1, <2>2, <2>4, <2>5 DEF Proper, Bounded
  <2>7. CutBy(c, s') /\ (~s'.closed => Framed(s', Ahead))
    BY <1>1, <2>6, LaterCut, SameWindow DEF CutBy
  <2>8. Cuts(c, f)
    <3>1. task[t] \in Frames BY <2>1 DEF SessionInv, TypeOK
    <3>2. g \in Frames
      <4>1. [task[t] EXCEPT !.pc = "unwind"] \in Frames BY <3>1, PcEdit DEF Pcs
      <4> QED BY <4>1, IdleMade
    <3>3. g = Idle \/ (Live(t) /\ g = [task[t] EXCEPT !.pc = "unwind"])
      BY <1>3 DEF SessionInv, Alone, TurnIsLive
    <3> HIDE DEF g, t
    <3> QED BY <2>1, <2>2, <3>2, <3>3 DEF Cuts
  <2> HIDE DEF t, ends, g
  <2> QED BY <2>3, <2>6, <2>7, <2>8, CutWindow DEF CutBy, Proper, Attributes
<1> QED BY <1>2, <1>3

LEMMA CancelTurnWindow ==
  ASSUME SessionInv, SpeaksInv, "overlap" \notin Inputs, NEW c \in {"rx", "closer"},
         NEW then, NEW needs, NEW z, Proper(z), z.gen >= s.gen, z.turn = s.turn,
         c = "closer" => z.closed, s.closed => z.closed,
         ~z.closed => Framed(z, Ahead) /\ (then # "start" /\ z.awaitingTtsStop => needs),
         c = "rx" => then \in {"abort", "detect", "start"},
         CancelTurn(c, then, needs, z), UNCHANGED <<wire, dev>>
  PROVE  SpeaksInv'
<1> DEFINE h == CancelHead(z)
<1>1. /\ Proper(h) /\ h.gen = z.gen + 1 /\ h.turn = z.turn /\ h.closed = z.closed
      /\ h.queue = z.queue /\ h.pendingMusic = "none" /\ h.awaitingTtsStop = z.awaitingTtsStop
  BY HeadProper, CutCode
<1>2. IF h.begin = "none" THEN CancelRunning(c, then, needs, h)
      ELSE /\ s' = [h EXCEPT !.begin = "cancelled"]
           /\ task' = [task EXCEPT ![c] =
                  [Frame("cancel_begin", 0, "none", then) EXCEPT !.needs = needs]]
  BY DEF CancelTurn
<1> HIDE DEF h
<1>3. s.gen \in Nat /\ z.gen \in Nat /\ h.gen \in Nat /\ h.gen > z.gen /\ h.gen >= s.gen
  BY <1>1, Start DEF SessionInv, Proper, Attributes
<1>4. CutBy(c, h)
  <2>1. \A t \in Turns : task[t].gen \in Nat /\ task[t].gen =< s.gen
    BY DEF SessionInv, TypeOK, Frames, Tasks, SpeaksInv, VoiceInv
  <2>2. Past(h) BY <1>1, <1>3, <2>1 DEF Past
  <2> QED BY <1>1, <1>3, <2>2 DEF CutBy
<1>5. ~h.closed => Framed(h, Ahead) BY <1>1, <1>3, BumpWindow
<1>6. CASE h.begin = "none" BY <1>1, <1>2, <1>4, <1>5, <1>6, CancelRunningWindow
<1>7. CASE h.begin # "none"
  <2> DEFINE b == [h EXCEPT !.begin = "cancelled"]
             f == [Frame("cancel_begin", 0, "none", then) EXCEPT !.needs = needs]
  <2>1. s' = b /\ task' = [task EXCEPT ![c] = f] BY <1>2, <1>7
  <2>2. f.pc = "cancel_begin" /\ f.arg = then /\ f.needs = needs BY CutFrames
  <2>3. /\ Proper(b) /\ b.gen = h.gen /\ b.closed = h.closed /\ b.queue = h.queue
        /\ b.pendingMusic = h.pendingMusic /\ b.awaitingTtsStop = h.awaitingTtsStop
    BY <1>1, BeginCancelled, CutCode
  <2> HIDE DEF f, b
  <2>4. CutBy(c, b) BY <1>1, <1>3, <1>4, <2>3, LaterCut
  <2>5. ~b.closed => Framed(b, Ahead) BY <1>5, <2>3, SameWindow
  <2>6. Cuts(c, f) BY <2>1 DEF Cuts
  <2>7. /\ c = "closer" => s'.closed
        /\ s.closed => s'.closed
        /\ s'.gen \in Nat /\ s'.gen >= s.gen /\ s'.pendingMusic # "device"
        /\ ~s'.closed => Framed(s', Ahead) /\ Past(s')
    BY <1>3, <2>1, <2>3, <2>4, <2>5 DEF CutBy
  <2>8. ~s'.closed /\ then \in {"abort", "detect"} /\ s'.awaitingTtsStop => needs
    BY <1>1, <2>1, <2>3
  <2> QED BY <2>2, <2>6, <2>7, <2>8, CutWindow
<1> QED BY <1>6, <1>7

\* _cancel_turn goes on in the receive loop, or in close().
LEMMA CancelStepWindow ==
  ASSUME SessionInv, SpeaksInv, "overlap" \notin Inputs, NEW c \in Cancellers, CancelStep(c)
  PROVE  SpeaksInv'
<1>1. /\ task[c].pc \in {"cancel_begin", "cancel_turn"} /\ UNCHANGED <<wire, dev>>
      /\ c \in {"rx", "closer"}
  BY DEF CancelStep, BeginGone, TurnGone, Cancellers, SpeaksInv, VoiceInv
<1>2. Proper(s) /\ s \in Attributes /\ s.gen \in Nat BY Start DEF SessionInv
<1>3. c = "closer" => s.closed BY <1>1 DEF SpeaksInv, VoiceInv
<1>4. c = "rx" => /\ task[c].arg \in {"abort", "detect", "start"}
                  /\ ~s.closed /\ task[c].arg # "start" /\ s.awaitingTtsStop => task[c].needs
  BY <1>1 DEF SpeaksInv, VoiceInv, WindowInv, InCancel
<1>5. CutBy(c, s)
  <2>1. ~s.closed => Past(s)
    <3> SUFFICES ASSUME ~s.closed, NEW t \in Turns, Live(t) PROVE task[t].gen < s.gen BY DEF Past
    <3>1. InCancel BY <1>1, <1>3 DEF InCancel
    <3>2. task[t].gen # s.gen BY <3>1 DEF SpeaksInv, WindowInv, Stale
    <3>3. task[t].gen \in Nat /\ task[t].gen =< s.gen
      BY DEF SessionInv, TypeOK, Frames, Tasks, SpeaksInv, VoiceInv
    <3> QED BY <3>2, <3>3, <1>2
  <2> QED BY <2>1, <1>2, <1>3 DEF CutBy, SpeaksInv, VoiceInv
<1>6. CASE BeginGone(c)
  <2>1. CancelRunning(c, task[c].arg, task[c].needs, s) BY <1>6 DEF BeginGone
  <2>2. ~s.closed => Framed(s, Ahead) BY DEF SpeaksInv, WindowInv
  <2> QED BY <2>1, <2>2, <1>1, <1>3, <1>4, <1>5, CancelRunningWindow
<1>7. CASE TurnGone(c)
  <2> DEFINE y == [s EXCEPT !.turn = NoTurn]
             d == Drain(y)
  <2>1. /\ y \in Attributes /\ y.gen = s.gen /\ y.closed = s.closed /\ y.queue = s.queue
        /\ y.putters = s.putters /\ y.pendingMusic = s.pendingMusic /\ y.awaitingTtsStop = s.awaitingTtsStop
    BY <1>2 DEF Attributes
  <2>2. Continue(c, task[c].arg, task[c].needs, d) BY <1>7 DEF TurnGone
  <2> HIDE DEF y
  <2>3. Proper(y) BY <2>1, <1>2 DEF Proper, Bounded
  <2>4. /\ Proper(d) /\ d.gen = s.gen /\ d.closed = s.closed /\ d.queue = <<>>
        /\ d.pendingMusic = s.pendingMusic /\ d.awaitingTtsStop = s.awaitingTtsStop
    BY <2>1, <2>3, DrainProper, CutCode
  <2> HIDE DEF d
  <2>5. s.pendingMusic # "device" BY DEF SpeaksInv, VoiceInv
  <2>6. CutBy(c, d) BY <2>4, <2>5, <1>2, <1>5, LaterCut
  <2> QED BY <2>2, <2>4, <2>6, <1>1, <1>3, <1>4, ContinueWindow
<1> QED BY <1>6, <1>7 DEF CancelStep

\* The receive loop listens once the stale Live session is reset.
LEMMA ResetWindow ==
  ASSUME SessionInv, SpeaksInv, ResetDone("rx")
  PROVE  SpeaksInv'
<1>1. task["rx"].pc = "reset_start" /\ UNCHANGED <<wire, dev>>
  BY SpeakersAreTasks DEF ResetDone, SessionInv, Purposes
<1>2. Proper(s) /\ s \in Attributes /\ s.gen \in Nat BY Start DEF SessionInv
<1>3. PICK stale \in BOOLEAN : /\ s' = Listen([s EXCEPT !.liveStale = stale])
                               /\ task' = [task EXCEPT !["rx"] = Idle]
  BY <1>1, <1>2 DEF ResetDone, Attributes
<1> DEFINE z == [s EXCEPT !.liveStale = stale]
           y == Listen(z)
<1>4. z \in Attributes /\ z.gen = s.gen /\ z.closed = s.closed /\ z.queue = s.queue
      /\ z.putters = s.putters
  BY <1>2 DEF Attributes
<1>5. s' = y BY <1>3
<1> HIDE DEF z
<1>6. Proper(z) BY <1>2, <1>4 DEF Proper, Bounded
<1>7. /\ Proper(y) /\ y.gen = s.gen + 1 /\ y.closed = s.closed /\ y.queue = s.queue
      /\ ~y.awaitingTtsStop /\ y.pendingMusic = "none"
  BY <1>4, <1>6, ListenProper, CutCode
<1> HIDE DEF y
<1>8. s'.gen \in Nat /\ s'.gen > s.gen BY <1>2, <1>5, <1>7
<1>9. ~s'.closed => Framed(s', Ahead)
  <2>1. ~s.closed => Framed(s, Ahead) BY DEF SpeaksInv, WindowInv
  <2> QED BY <2>1, <1>2, <1>5, <1>7, <1>8, BumpWindow
<1>10. Past(s')
  <2>1. \A t \in Turns : task[t].gen \in Nat /\ task[t].gen =< s.gen
    BY DEF SessionInv, TypeOK, Frames, Tasks, SpeaksInv, VoiceInv
  <2> QED BY <2>1, <1>2, <1>8 DEF Past
<1>11. Cuts("rx", Idle) BY <1>3 DEF Cuts
<1> QED BY <1>1, <1>2, <1>5, <1>7, <1>8, <1>9, <1>10, <1>11, IdleFrame, CutWindow

LEMMA CloseWindow ==
  ASSUME SessionInv, SpeaksInv, "overlap" \notin Inputs, Close
  PROVE  SpeaksInv'
<1>1. Proper(s) /\ s \in Attributes /\ s.gen \in Nat /\ s.gen + 1 \in Nat BY Start DEF SessionInv
<1> DEFINE z == [s EXCEPT !.closed = TRUE, !.state = "closed", !.gen = @ + 1]
<1>2. z \in Attributes /\ z.gen = s.gen + 1 /\ z.turn = s.turn /\ z.queue = s.queue /\ z.closed
      /\ z.putters = s.putters
  BY <1>1 DEF Attributes, States
<1>3. CancelTurn("closer", "close", FALSE, z) /\ UNCHANGED <<wire, dev>> BY DEF Close
<1> HIDE DEF z
<1>4. Bounded(z) BY <1>1, <1>2, StillBounded
<1>5. Proper(z) /\ z.gen >= s.gen BY <1>1, <1>2, <1>4 DEF Proper
<1> QED BY <1>2, <1>3, <1>5, CancelTurnWindow

-----------------------------------------------------------------------------
\* The end of an utterance, and the steps beside the turns.

\* A turn that begins finds the robot about to speak, and nothing that speaks.
LEMMA StartTurnWindow ==
  ASSUME SessionInv, SpeaksInv, NEW c \in {"rx", "keepalive"}, NEW z, Proper(z),
         z.gen = s.gen, z.closed = s.closed, z.pendingMusic = s.pendingMusic,
         ~s.closed => Framed(z, Ahead) /\ (z.awaitingTtsStop => Lasts(z, Ahead)),
         Deserted, c = "keepalive" => task["rx"].pc = "idle",
         StartTurn(c, z), UNCHANGED <<wire, dev>>
  PROVE  SpeaksInv'
<1> DEFINE t == NewTurn
           f == Frame("new", z.gen, "none", "none")
<1>1. /\ t \in Turns /\ s' = [z EXCEPT !.state = "thinking", !.turn = t]
      /\ task' = [task EXCEPT ![c] = Idle, ![t] = f]
  BY NewTurnIsATurn DEF StartTurn
<1> HIDE DEF t
<1>2. z \in Attributes /\ z.gen \in Nat BY DEF Proper, Attributes
<1>3. /\ s'.gen = s.gen /\ s'.closed = s.closed /\ s'.pendingMusic = s.pendingMusic
      /\ s'.queue = z.queue /\ s'.awaitingTtsStop = z.awaitingTtsStop /\ s'.state = "thinking"
  BY <1>1, <1>2 DEF Attributes
<1>4. f.pc = "new" /\ f.gen = s.gen /\ f.speech = "none" BY DEF Frame
<1> HIDE DEF f
<1>5. /\ c \in Tasks \ Turns /\ Turns \subseteq Tasks /\ task \in [Tasks -> Frames]
      /\ {"companion", "sensor", "stopper", "closer", "rx"} \subseteq Tasks \ Turns
  BY TurnsAssumption DEF Tasks, Loops, SessionInv, TypeOK
<1>6. /\ task'[t] = f /\ task'["rx"].pc = "idle"
      /\ \A u \in Turns \ {t} : task'[u] = task[u] /\ task'[u].pc = "idle"
      /\ \A x \in {"companion", "sensor", "stopper", "closer"} : task'[x] = task[x]
  <2>1. task'[t] = f BY <1>1, <1>5
  <2>2. task'["rx"].pc = "idle" BY <1>1, <1>5, IdleFrame
  <2>3. \A u \in Turns \ {t} : task'[u] = task[u] BY <1>1, <1>5
  <2>4. \A x \in {"companion", "sensor", "stopper", "closer"} : task'[x] = task[x] BY <1>1, <1>5
  <2> QED BY <2>1, <2>2, <2>3, <2>4 DEF Deserted, Live
<1>7. VoiceInv'
  <2>1. s'.gen \in Nat BY <1>2, <1>3
  <2>2. \A u \in Turns : /\ task'[u].pc \notin {"device", "expired"} /\ task'[u].gen =< s'.gen
                         /\ task'[u].pc = "tools" => task'[u].arg # "device"
                         /\ task'[u].pc \in {"new", "notify"} => task'[u].speech = "none"
                         /\ task'[u].speech # "raised"
    <3> SUFFICES ASSUME NEW u \in Turns
                 PROVE  /\ task'[u].pc \notin {"device", "expired"} /\ task'[u].gen =< s'.gen
                        /\ task'[u].pc = "tools" => task'[u].arg # "device"
                        /\ task'[u].pc \in {"new", "notify"} => task'[u].speech = "none"
                        /\ task'[u].speech # "raised"
      OBVIOUS
    <3>1. CASE u = t BY <3>1, <2>1, <1>3, <1>4, <1>6
    <3>2. CASE u # t BY <3>2, <1>3, <1>6 DEF SpeaksInv, VoiceInv
    <3> QED BY <3>1, <3>2
  <2> QED BY <2>2, <1>3, <1>6 DEF SpeaksInv, VoiceInv, InCancel
<1>8. ASSUME ~s'.closed PROVE WindowInv'
  <2>1. ~s.closed /\ WindowInv BY <1>3, <1>8 DEF SpeaksInv
  <2>2. Ahead' <=> Ahead BY DEF Ahead
  <2>3. Framed(s', Ahead) /\ (s'.awaitingTtsStop => Lasts(s', Ahead))
    BY <2>1, <1>3, SameWindow
  <2>4. Framed(s', Ahead') /\ (s'.awaitingTtsStop => Lasts(s', Ahead'))
    BY <2>2, <2>3 DEF Framed, Lasts, OpenAfter
  <2>5. ~InCancel' BY <1>6 DEF InCancel
  <2>6. \A u \in Turns : Live(u)' => Steady(s', task'[u], Ahead')
    <3>1. Steady(s', f, Ahead') BY <1>3, <1>4 DEF Steady
    <3> QED BY <3>1, <1>6 DEF Live
  <2>7. (wire = "audio" => dev = "speaking")' BY <2>1 DEF WindowInv
  <2> QED BY <2>4, <2>5, <2>6, <2>7 DEF WindowInv
<1> QED BY <1>7, <1>8 DEF SpeaksInv

\* Steps that leave the turns where they are, and the robot as it will be.
LEMMA StillWindow ==
  ASSUME SessionInv, SpeaksInv,
         \A x \in Turns \cup {"companion", "sensor", "stopper", "closer"} : task'[x] = task[x],
         InCancel' <=> InCancel, InCancel => task'["rx"] = task["rx"],
         task["rx"].pc = "reset_start" => task'["rx"].pc = "reset_start",
         s'.gen = s.gen, s'.closed = s.closed, s'.pendingMusic = s.pendingMusic,
         Deserted \/ s'.state = s.state,
         ~s.closed => /\ Ahead' <=> Ahead
                      /\ (wire = "audio" => dev = "speaking")'
                      /\ Framed(s', Ahead)
                      /\ \/ s'.awaitingTtsStop = s.awaitingTtsStop
                            /\ (Lasts(s', Ahead) <=> Lasts(s, Ahead))
                         \/ Deserted /\ ~InCancel /\ Lasts(s', Ahead)
  PROVE  SpeaksInv'
<1>1. VoiceInv' BY DEF SpeaksInv, VoiceInv, InCancel
<1>2. ASSUME ~s'.closed PROVE WindowInv'
  <2>1. ~s.closed /\ WindowInv BY <1>2 DEF SpeaksInv
  <2>2. Framed(s', Ahead') /\ (Lasts(s', Ahead') <=> Lasts(s', Ahead))
    BY <2>1 DEF Framed, Lasts, OpenAfter
  <2>3. ASSUME ~InCancel', task'["rx"].pc # "reset_start", s'.awaitingTtsStop
        PROVE  Lasts(s', Ahead')
    BY <2>1, <2>2, <2>3 DEF WindowInv
  <2>4. ASSUME NEW t \in Turns, Live(t)', ~Stale(t)'
        PROVE  ~InCancel' /\ Steady(s', task'[t], Ahead')
    <3>1. task'[t] = task[t] /\ Live(t) /\ ~Stale(t) BY <2>4 DEF Live, Stale
    <3>2. ~Deserted BY <3>1 DEF Deserted
    <3>3. ~InCancel /\ Steady(s, task[t], Ahead) BY <2>1, <3>1 DEF WindowInv
    <3> QED BY <2>1, <2>2, <3>1, <3>2, <3>3 DEF Steady
  <2>5. (InCancel /\ task["rx"].arg \in {"abort", "detect"} /\ s.awaitingTtsStop => task["rx"].needs)'
    BY <2>1 DEF WindowInv
  <2> QED BY <2>1, <2>2, <2>3, <2>4, <2>5 DEF WindowInv
<1> QED BY <1>1, <1>2 DEF SpeaksInv

LEMMA StopListenWindow ==
  ASSUME SessionInv, SpeaksInv, NEW c \in {"rx", "keepalive"}, NEW z, Proper(z),
         z.gen = s.gen, z.closed = s.closed, z.pendingMusic = s.pendingMusic, z.state = s.state,
         ~s.closed => Framed(z, Ahead) /\ (z.awaitingTtsStop => Lasts(z, Ahead)),
         z.awaitingTtsStop \/ (z.queue = s.queue /\ z.awaitingTtsStop = s.awaitingTtsStop),
         Deserted, task["rx"].pc = "idle", NEW why,
         StopListen(c, z, why), UNCHANGED <<wire, dev>>
  PROVE  SpeaksInv'
<1>1. CASE z.brainReady BY <1>1, StartTurnWindow DEF StopListen
<1>2. CASE ~z.brainReady
  <2> DEFINE f == Frame("await_brain", 0, "none", why)
             b == [z EXCEPT !.begin = "running", !.beginGen = z.gen]
  <2>1. s' = (IF z.begin # "none" THEN z ELSE b) /\ task' = [task EXCEPT ![c] = f]
    BY <1>2 DEF StopListen
  <2>2. f.pc = "await_brain" BY DEF Frame
  <2> HIDE DEF f
  <2>3. b.gen = z.gen /\ b.closed = z.closed /\ b.queue = z.queue /\ b.state = z.state
        /\ b.pendingMusic = z.pendingMusic /\ b.awaitingTtsStop = z.awaitingTtsStop
    BY DEF Proper, Attributes
  <2> HIDE DEF b
  <2>4. /\ s'.gen = s.gen /\ s'.closed = s.closed /\ s'.queue = z.queue /\ s'.state = s.state
        /\ s'.pendingMusic = s.pendingMusic /\ s'.awaitingTtsStop = z.awaitingTtsStop
    BY <2>1, <2>3
  <2>5. c \in Tasks /\ "rx" \in Tasks /\ task \in [Tasks -> Frames]
        /\ c \notin Turns \cup {"companion", "sensor", "stopper", "closer"}
        /\ Turns \cup {"companion", "sensor", "stopper", "closer"} \subseteq Tasks
    BY TurnsAssumption DEF Tasks, Loops, SessionInv, TypeOK
  <2>6. /\ \A x \in Turns \cup {"companion", "sensor", "stopper", "closer"} : task'[x] = task[x]
        /\ ~InCancel /\ ~InCancel' /\ task["rx"].pc # "reset_start"
    BY <2>1, <2>2, <2>5 DEF InCancel
  <2>7. Ahead' <=> Ahead BY DEF Ahead
  <2>8. ~s.closed => (wire = "audio" => dev = "speaking")' BY DEF SpeaksInv, WindowInv
  <2>9. ~s.closed => /\ Framed(s', Ahead)
                     /\ \/ s'.awaitingTtsStop = s.awaitingTtsStop
                           /\ (Lasts(s', Ahead) <=> Lasts(s, Ahead))
                        \/ Lasts(s', Ahead)
    BY <2>4, SameWindow
  <2> QED BY <2>4, <2>6, <2>7, <2>8, <2>9, StillWindow
<1> QED BY <1>1, <1>2

LEMMA UtteranceWindow ==
  ASSUME SessionInv, SpeaksInv, VoiceOnly, Endpoint \/ ListenIdle
  PROVE  SpeaksInv'
<1>1. Proper(s) /\ s.gen \in Nat BY Start DEF SessionInv
<1>2. /\ s.state = "listening" /\ ~s.closed /\ task["rx"].pc = "idle" /\ UNCHANGED <<wire, dev>>
      /\ task["keepalive"].pc = "idle"
  BY DEF Endpoint, ListenIdle, Receiving, Overlaps, VoiceOnly
<1>3. Deserted BY <1>2 DEF SessionInv, Alone, HeardAlone, VoiceOnly
<1>12. HasRoom
  <2>1. s.queue = <<>> BY <1>2, SoloSpeaks DEF SessionInv, Hushed
  <2>2. Len(s.queue) = 0 BY <2>1
  <2> QED BY <2>2, QueueSizeAssumption DEF HasRoom
<1> DEFINE y == Put(s, "start", s.gen)
           z == [y EXCEPT !.awaitingTtsStop = TRUE]
<1>4. Framed(s, Ahead) BY <1>2 DEF SpeaksInv, WindowInv
<1>5. Framed(y, Ahead) /\ Lasts(y, Ahead) /\ Alike(s, y) /\ Proper(y)
  BY <1>1, <1>2, <1>4, PutWindow, PutQuiet DEF FrameKinds
<1> HIDE DEF y
<1>6. z \in Attributes /\ z.gen = y.gen /\ z.closed = y.closed /\ z.queue = y.queue /\ z.putters = y.putters
      /\ z.state = y.state /\ z.pendingMusic = y.pendingMusic /\ z.awaitingTtsStop
  BY <1>5 DEF Proper, Attributes
<1>7. PICK c \in {"rx", "keepalive"}, why \in Args : StopListen(c, z, why)
  <2>1. \A c, why : EndUtterance(c, why) <=> StopListen(c, z, why) BY DEF EndUtterance, y
  <2>2. "audio" \in Args /\ "idle" \in Args BY DEF Args
  <2> HIDE DEF z
  <2> QED BY <1>12, <2>1, <2>2 DEF Endpoint, ListenIdle, Interrupts
<1> HIDE DEF z
<1>8. Proper(z) /\ Framed(z, Ahead) /\ Lasts(z, Ahead)
  BY <1>5, <1>6, SameWindow DEF Proper, Bounded
<1>9. z.gen = s.gen /\ z.closed = s.closed /\ z.pendingMusic = s.pendingMusic /\ z.state = s.state
  BY <1>5, <1>6 DEF Alike
<1>10. ~s.closed => Framed(z, Ahead) /\ (z.awaitingTtsStop => Lasts(z, Ahead)) BY <1>8
<1>11. z.awaitingTtsStop BY <1>6
<1> QED BY <1>2, <1>3, <1>7, <1>8, <1>9, <1>10, <1>11, StopListenWindow

LEMMA BrainAwaitedWindow ==
  ASSUME SessionInv, SpeaksInv, "overlap" \notin Inputs, NEW c \in {"rx", "keepalive"}, BrainAwaited(c)
  PROVE  SpeaksInv'
<1>1. Proper(s) BY Start DEF SessionInv
<1>2. task[c].pc = "await_brain" /\ StartTurn(c, s) /\ UNCHANGED <<wire, dev>>
  BY DEF BrainAwaited
<1>3. Deserted /\ (c = "keepalive" => task["rx"].pc = "idle")
  BY <1>2 DEF SessionInv, Alone, Apart, HeardAlone
<1>4. ~InCancel /\ task["rx"].pc # "reset_start" BY <1>2, <1>3 DEF InCancel
<1>5. ~s.closed => Framed(s, Ahead) /\ (s.awaitingTtsStop => Lasts(s, Ahead))
  BY <1>4 DEF SpeaksInv, WindowInv
<1> QED BY <1>1, <1>2, <1>3, <1>5, StartTurnWindow

LEMMA RxWindow ==
  ASSUME SessionInv, SpeaksInv, "overlap" \notin Inputs, Rx
  PROVE  SpeaksInv'
<1>1. TypeOK /\ Proper(s) /\ s \in Attributes /\ s.gen \in Nat BY Start DEF SessionInv
<1>2. Receiving /\ task["rx"].pc = "idle" /\ ~s.closed /\ UNCHANGED <<wire, dev>>
  BY DEF Rx, OnListenStart, OnListenStop, OnListenDetect, OnAbort, Read, Receiving
<1>3. ~InCancel /\ Framed(s, Ahead) /\ (s.awaitingTtsStop => Lasts(s, Ahead))
  BY <1>2 DEF SpeaksInv, WindowInv, InCancel
<1>4. CASE task' = task /\ (s' = [s EXCEPT !.ignored = TRUE] \/ s' = [s EXCEPT !.swallow = FALSE])
  <2>1. /\ s'.gen = s.gen /\ s'.closed = s.closed /\ s'.queue = s.queue /\ s'.state = s.state
        /\ s'.pendingMusic = s.pendingMusic /\ s'.awaitingTtsStop = s.awaitingTtsStop
    BY <1>1, <1>4 DEF Attributes
  <2>2. (Ahead' <=> Ahead) /\ (InCancel' <=> InCancel) BY <1>2, <1>4 DEF Ahead, InCancel
  <2>3. (wire = "audio" => dev = "speaking")' BY <1>2 DEF SpeaksInv, WindowInv
  <2> QED BY <1>3, <1>4, <2>1, <2>2, <2>3, SameWindow, StillWindow
<1>5. CASE CancelTurn("rx", "start", FALSE, ClearWake(s))
  <2> DEFINE z == ClearWake(s)
  <2>1. Proper(z) /\ z.turn = s.turn /\ z.gen = s.gen /\ z.closed = s.closed /\ z.queue = s.queue
    BY <1>1, ClearWakeQuiet, CutCode DEF Quiet
  <2>2. CancelTurn("rx", "start", FALSE, z) BY <1>5
  <2> HIDE DEF z
  <2>3. Framed(z, Ahead) BY <2>1, <1>3, SameWindow
  <2>4. z.gen >= s.gen /\ ~s.closed /\ ~z.closed BY <2>1, <1>1, <1>2
  <2> QED BY <2>1, <2>2, <2>3, <2>4, <1>2, CancelTurnWindow
<1>6. CASE OnListenStop
  <2>1. CASE s.state = "listening" /\ StopListen("rx", s, "stop")
    <3>1. Deserted BY <2>1 DEF SessionInv, Alone, HeardAlone
    <3> QED BY <2>1, <3>1, <1>1, <1>2, <1>3, StopListenWindow
  <2>2. CASE UNCHANGED <<s, task>>
    <3>1. (Ahead' <=> Ahead) /\ (InCancel' <=> InCancel) BY <1>2, <2>2 DEF Ahead, InCancel
    <3>2. (wire = "audio" => dev = "speaking")' BY <1>2 DEF SpeaksInv, WindowInv
    <3> QED BY <1>3, <2>2, <3>1, <3>2, StillWindow
  <2> QED BY <1>6, <2>1, <2>2 DEF OnListenStop
<1>7. CASE OnListenDetect
  <2>1. CancelTurn("rx", "detect", NeedsStop, s) BY <1>7 DEF OnListenDetect
  <2>2. s.awaitingTtsStop => NeedsStop BY DEF NeedsStop
  <2> QED BY <2>1, <2>2, <1>1, <1>2, <1>3, CancelTurnWindow
<1>8. CASE OnAbort
  <2>1. CancelTurn("rx", "abort", NeedsStop, s) BY <1>8 DEF OnAbort
  <2>2. s.awaitingTtsStop => NeedsStop BY DEF NeedsStop
  <2> QED BY <2>1, <2>2, <1>1, <1>2, <1>3, CancelTurnWindow
<1> QED BY <1>4, <1>5, <1>6, <1>7, <1>8 DEF Rx, OnListenStart

\* What the writer has taken is ahead of what is left in out_queue.
LEMMA WriterWindow ==
  ASSUME SessionInv, SpeaksInv, WriterTakes
  PROVE  SpeaksInv'
<1> DEFINE F == Items
           q == s.queue
           e == Head(q)
           p == Tail(q)
<1>1. Proper(s) /\ s \in Attributes /\ s.gen \in Nat BY Start DEF SessionInv
<1>2. /\ wire = "idle" /\ q # <<>> /\ s' = [s EXCEPT !.queue = p] /\ UNCHANGED <<task, dev>>
      /\ wire' = IF Kept(e, s.gen) THEN e.kind ELSE "idle"
  BY DEF WriterTakes, Kept
<1>3. /\ s'.gen = s.gen /\ s'.closed = s.closed /\ s'.queue = p /\ s'.state = s.state
      /\ s'.pendingMusic = s.pendingMusic /\ s'.awaitingTtsStop = s.awaitingTtsStop
  BY <1>1, <1>2 DEF Attributes
<1>4. q \in Seq(F) BY <1>1 DEF Attributes
<1>5. /\ Len(q) \in Nat /\ Len(q) >= 1 /\ DOMAIN q = 1 .. Len(q) /\ e = q[1] /\ e \in F
      /\ Len(p) = Len(q) - 1 /\ DOMAIN p = 1 .. Len(q) - 1
      /\ \A i \in 1 .. Len(q) - 1 : p[i] = q[i + 1]
  <2> HIDE DEF F, q
  <2> QED BY <1>2, <1>4 DEF e, p
<1>6. e.kind \in FrameKinds BY <1>5 DEF Items
<1> HIDE DEF F, q, e, p
<1>7. InCancel' <=> InCancel BY <1>2 DEF InCancel
<1>8. CASE s.closed
  <2>1. VoiceInv' BY <1>2, <1>3, <1>7 DEF SpeaksInv, VoiceInv
  <2> QED BY <2>1, <1>3, <1>8 DEF SpeaksInv
<1>9. CASE ~s.closed
  <2>1. Framed(s, Ahead) BY <1>9 DEF SpeaksInv, WindowInv
  <2>2. Ahead <=> dev = "speaking" BY <1>2 DEF Ahead
  <2>3. OpenAfter(q, s.gen, Ahead, 0) <=> Ahead
    <3>1. 0 .. 0 = {0} /\ 1 .. 0 = {} OBVIOUS
    <3> QED BY <3>1 DEF OpenAfter
  <2>4. OpenAfter(q, s.gen, Ahead, 1) <=> Opens(e, s.gen) \/ (Ahead /\ ~Shuts(e, s.gen))
    <3>1. 0 .. 1 = {0, 1} /\ 1 .. 1 = {1} /\ 2 .. 1 = {} OBVIOUS
    <3>2. OpenAfter(q, s.gen, Ahead, 1) <=> \/ Ahead /\ \A k \in 1 .. 1 : ~Shuts(q[k], s.gen)
                                            \/ Opens(q[1], s.gen) /\ \A k \in 2 .. 1 : ~Shuts(q[k], s.gen)
      BY <3>1 DEF OpenAfter
    <3> QED BY <3>1, <3>2, <1>5
  <2>5. Ahead' <=> OpenAfter(q, s.gen, Ahead, 1)
    BY <1>2, <1>6, <2>2, <2>4 DEF Ahead, Opens, Shuts, FrameKinds
  <2>6. \A i \in 0 .. Len(q) - 1 : OpenAfter(p, s.gen, Ahead', i) <=> OpenAfter(q, s.gen, Ahead, i + 1)
    BY <1>2, <1>4, <2>5, TailOpen DEF p
  <2>7. Framed(s', Ahead')
    <3> SUFFICES ASSUME NEW i \in DOMAIN p, p[i].kind = "audio"
                 PROVE  /\ p[i].gen # KeepaliveGeneration
                        /\ p[i].gen = s.gen => OpenAfter(p, s.gen, Ahead', i - 1)
      BY <1>3 DEF Framed
    <3>1. i + 1 \in DOMAIN q /\ p[i] = q[i + 1] /\ (i + 1) - 1 = i BY <1>5
    <3>2. /\ q[i + 1].gen # KeepaliveGeneration
          /\ q[i + 1].gen = s.gen => OpenAfter(q, s.gen, Ahead, i)
      BY <2>1, <3>1 DEF Framed, q
    <3>3. i - 1 \in 0 .. Len(q) - 1 /\ (i - 1) + 1 = i BY <1>5
    <3> QED BY <2>6, <3>1, <3>2, <3>3
  <2>8. Lasts(s', Ahead') <=> Lasts(s, Ahead)
    <3>1. Len(q) - 1 \in 0 .. Len(q) - 1 /\ (Len(q) - 1) + 1 = Len(q) BY <1>5
    <3> QED BY <1>3, <1>5, <2>6, <3>1 DEF Lasts, q
  <2>9. (wire = "audio" => dev = "speaking")'
    <3> SUFFICES ASSUME wire' = "audio" PROVE dev = "speaking" BY <1>2
    <3>1. e.kind = "audio" /\ Kept(e, s.gen) BY <1>2
    <3>2. e.gen # KeepaliveGeneration /\ (e.gen = s.gen => OpenAfter(q, s.gen, Ahead, 1 - 1))
      BY <1>5, <2>1, <3>1 DEF Framed, q
    <3>3. 1 - 1 = 0 OBVIOUS
    <3> QED BY <2>2, <2>3, <3>1, <3>2, <3>3 DEF Kept
  <2>10. VoiceInv' BY <1>2, <1>3, <1>7 DEF SpeaksInv, VoiceInv
  <2>11. WindowInv'
    <3>1. WindowInv BY <1>9 DEF SpeaksInv
    <3>2. \A t \in Turns : Live(t)' /\ ~Stale(t)' =>
              ~InCancel' /\ Steady(s', task'[t], Ahead')
      BY <3>1, <1>2, <1>3, <1>7, <2>8 DEF WindowInv, Live, Stale, Steady
    <3>3. ~InCancel' /\ task'["rx"].pc # "reset_start" /\ s'.awaitingTtsStop => Lasts(s', Ahead')
      BY <3>1, <1>2, <1>3, <1>7, <2>8 DEF WindowInv
    <3>4. (InCancel /\ task["rx"].arg \in {"abort", "detect"} /\ s.awaitingTtsStop => task["rx"].needs)'
      BY <3>1, <1>2, <1>3, <1>7 DEF WindowInv
    <3> QED BY <2>7, <2>9, <3>2, <3>3, <3>4 DEF WindowInv
  <2> QED BY <2>10, <2>11 DEF SpeaksInv
<1> QED BY <1>8, <1>9

LEMMA AsideWindow ==
  ASSUME SessionInv, SpeaksInv, HearSpeech \/ BeginDone \/ WriterSends \/ RobotActs \/ UNCHANGED vars
  PROVE  SpeaksInv'
<1>1. Proper(s) /\ s \in Attributes /\ wire \in FrameKinds \cup {"idle", "stopped"}
  BY Start DEF SessionInv, TypeOK
<1>2. /\ task' = task /\ s'.gen = s.gen /\ s'.closed = s.closed /\ s'.queue = s.queue
      /\ s'.state = s.state /\ s'.pendingMusic = s.pendingMusic
      /\ s'.awaitingTtsStop = s.awaitingTtsStop
  <2>1. CASE HearSpeech BY <2>1, <1>1 DEF HearSpeech, Attributes
  <2>2. CASE BeginDone BY <2>2, <1>1 DEF BeginDone, Attributes
  <2>3. CASE WriterSends BY <2>3 DEF WriterSends
  <2>4. CASE RobotActs BY <2>4 DEF RobotActs, Presses
  <2>5. CASE UNCHANGED vars BY <2>5 DEF vars
  <2> QED BY <2>1, <2>2, <2>3, <2>4, <2>5
<1>3. ~s.closed => (Ahead' <=> Ahead) /\ (wire' = "audio" => dev' = "speaking")
  <2> SUFFICES ASSUME ~s.closed
               PROVE  (Ahead' <=> Ahead) /\ (wire' = "audio" => dev' = "speaking")
    OBVIOUS
  <2>0. wire = "audio" => dev = "speaking" BY DEF SpeaksInv, WindowInv
  <2>1. CASE HearSpeech \/ BeginDone \/ UNCHANGED vars
    BY <2>0, <2>1 DEF HearSpeech, BeginDone, vars, Ahead
  <2>2. CASE WriterSends BY <2>2 DEF WriterSends, Received, FrameKinds, Ahead
  <2>3. CASE RobotActs BY <2>0, <2>3 DEF RobotActs, Presses, Ahead
  <2> QED BY <2>1, <2>2, <2>3
<1>4. (InCancel' <=> InCancel) BY <1>2 DEF InCancel
<1>5. ~s.closed => Framed(s', Ahead) /\ (Lasts(s', Ahead) <=> Lasts(s, Ahead))
  BY <1>2, SameWindow DEF SpeaksInv, WindowInv
<1> QED BY <1>2, <1>3, <1>4, <1>5, StillWindow

\* Nobody else speaks or acts in a session of this kind.
LEMMA NothingBeside ==
  ASSUME SessionInv, SpeaksInv, VoiceOnly
  PROVE  /\ ~CompanionNext /\ ~SensorNext /\ ~MotionStopped
         /\ ~Chat /\ ~Rps /\ ~Ttt /\ ~TttThink /\ ~Sleep /\ ~StopButton /\ ~Pet /\ ~PickupOrFall
         /\ ~PutResumes
<1>1. /\ task["companion"].pc = "idle" /\ task["sensor"].pc = "idle" /\ task["stopper"].pc = "idle"
  BY DEF SpeaksInv, VoiceInv
<1>2. ~CompanionNext
  BY <1>1 DEF CompanionNext, ChatAnswers, ToolsDone, ChatDone, GatherStarts, ReactionStep,
              RobotSleeps, ResetDone
<1>3. ~SensorNext /\ ~MotionStopped BY <1>1 DEF SensorNext, PetAnswers, ReactionDone, MotionStopped
<1>4. ~Chat /\ ~Rps /\ ~Ttt /\ ~TttThink BY DEF Chat, Rps, Ttt, TttThink, Admit, Ask, VoiceOnly
<1>5. ~Sleep /\ ~StopButton /\ ~Pet /\ ~PickupOrFall
  BY DEF Sleep, StopButton, Pet, PickupOrFall, React, Ask, VoiceOnly
<1>6. ~PutResumes
  <2>1. s.putters = {} BY SoloSpeaks DEF SessionInv, Hushed
  <2> QED BY <2>1 DEF PutResumes
<1> QED BY <1>2, <1>3, <1>4, <1>5, <1>6

LEMMA InitSpeaks == Init => SpeaksInv
<1> SUFFICES ASSUME Init PROVE SpeaksInv OBVIOUS
<1>1. /\ s.state = "ready" /\ s.gen = 0 /\ s.pendingMusic = "none" /\ s.queue = <<>>
      /\ ~s.awaitingTtsStop /\ wire = "idle"
  BY DEF Init
<1>2. \A x \in Tasks : task[x].pc = "idle" /\ task[x].gen = 0 /\ task[x].speech = "none"
  BY IdleFrame DEF Init
<1>3. Turns \subseteq Tasks /\ {"companion", "sensor", "stopper", "closer", "rx"} \subseteq Tasks
  BY DEF Tasks, Loops
<1>4. VoiceInv BY <1>1, <1>2, <1>3 DEF VoiceInv, InCancel
<1>5. WindowInv BY <1>1, <1>2, <1>3, EmptyWindow DEF WindowInv, InCancel, Live
<1> QED BY <1>4, <1>5 DEF SpeaksInv

LEMMA StepSpeaks ==
  ASSUME VoiceOnly, SessionInv, SpeaksInv, [Next]_vars
  PROVE  SpeaksInv'
<1>1. "overlap" \notin Inputs BY DEF VoiceOnly
<1>2. CASE Rx BY <1>1, <1>2, RxWindow
<1>3. CASE HearSpeech \/ BeginDone \/ WriterSends \/ RobotActs \/ UNCHANGED vars
  BY <1>3, AsideWindow
<1>4. CASE WriterTakes BY <1>4, WriterWindow
<1>5. CASE Endpoint \/ ListenIdle BY <1>5, UtteranceWindow
<1>6. CASE ResetDone("rx") BY <1>6, ResetWindow
<1>7. CASE BrainAwaited("rx") \/ BrainAwaited("keepalive") BY <1>1, <1>7, BrainAwaitedWindow
<1>8. CASE \E c \in Cancellers : CancelStep(c) BY <1>1, <1>8, CancelStepWindow
<1>9. CASE \E x \in Speakers : SpeechStep(x) BY <1>9, SpeechWindow
<1>10. CASE \E t \in Turns : TurnNext(t) BY <1>10, TurnNextWindow
<1>11. CASE Close BY <1>1, <1>11, CloseWindow
<1> QED BY <1>2, <1>3, <1>4, <1>5, <1>6, <1>7, <1>8, <1>9, <1>10, <1>11, NothingBeside
    DEF Next, World

\* The packet that the writer sends finds the robot in Speaking: across silent turns,
\* music after or without speech, the line that follows it, barge-in, abort, a new
\* wake and the farewell, whatever is still queued when _cancel_turn bumps the
\* generation.
THEOREM PacketsFindTheWindow ==
  ASSUME VoiceOnly
  PROVE  Spec => AudioInWindow
<1>1. SessionInv /\ SpeaksInv /\ [Next]_vars => [wire = "audio" /\ wire' = "idle" => dev = "speaking"]_vars
  <2> SUFFICES ASSUME SessionInv, SpeaksInv, Next, wire = "audio", wire' = "idle"
               PROVE  dev = "speaking"
    OBVIOUS
  <2>1. s.closed \/ dev = "speaking" BY DEF SpeaksInv, WindowInv
  <2>2. SUFFICES ~s.closed BY <2>1
  <2>3. ~WriterTakes BY DEF WriterTakes
  <2>4. CASE Rx \/ HearSpeech \/ Endpoint \/ ListenIdle \/ ResetDone("rx") \/ BeginDone
             \/ BrainAwaited("rx") \/ BrainAwaited("keepalive")
    BY <2>4 DEF Rx, OnListenStart, OnListenStop, OnListenDetect, OnAbort, HearSpeech, Endpoint,
                ListenIdle, ResetDone, BrainAwaited, BeginDone
  <2>5. ASSUME NEW c \in Cancellers, CancelStep(c) PROVE FALSE
    BY <2>5 DEF CancelStep, BeginGone, TurnGone
  <2>6. ASSUME NEW x \in Speakers, SpeechStep(x) PROVE FALSE
    BY <2>6 DEF SpeechStep, FirstSentence, StreamPacket, SpeechDone, SpeechRaises, SpeechRuns
  <2>7. ASSUME NEW t \in Turns, TurnNext(t) PROVE FALSE
    BY <2>7 DEF TurnNext, TurnBegins, BrainAnswers, ToolsDone, TurnTimeout, TurnUnwinds, MusicDone,
                MusicNotified, MusicAnnounced, ResetDone, TurnStep
  <2>8. CASE Close \/ RobotActs BY <2>8 DEF Close, RobotActs, Presses
  <2>9. CASE WriterSends BY <2>9 DEF WriterSends
  <2> QED BY <2>3, <2>4, <2>5, <2>6, <2>7, <2>8, <2>9, NothingBeside DEF Next, World
<1>2. SpeaksInv /\ SessionInv /\ [Next]_vars => SpeaksInv' BY StepSpeaks
<1> QED BY <1>1, <1>2, InitSpeaks, SessionCorrect, PTL DEF Spec, AudioInWindow

-----------------------------------------------------------------------------
\* The end of a conversation, from the code to the robot and back.

\* The owner wakes the robot and talks to it, and never presses a button of the robot
\* or the dashboard.  No turn raises, and none is timed out while its clip plays: it
\* would open a second window, whose tts/stop the robot answers a second time.  Nor does
\* a speech raise, which leaves the window of a clip to the next turn.
HandsFree ==
    /\ Inputs \subseteq {"wake", "autolisten"}
    /\ "raise" \notin Replies /\ "decode" \notin Faults
    /\ "timeout" \notin Faults \/ "music" \notin Replies

LEMMA SoloTalks == ASSUME HandsFree PROVE Solo /\ "overlap" \notin Inputs
BY DEF HandsFree, Solo

\* The writer will send a frame of this kind, and at most one.
Queued(z, kind) == \E i \in DOMAIN z.queue : z.queue[i].kind = kind /\ Kept(z.queue[i], z.gen)
Single(z, kind) ==
    \A i, j \in DOMAIN z.queue :
        /\ z.queue[i].kind = kind /\ Kept(z.queue[i], z.gen)
        /\ z.queue[j].kind = kind /\ Kept(z.queue[j], z.gen)
        => i = j

\* The frame that ends the conversation is the one that outlives its generation.
Tagged(z) ==
    \A i \in DOMAIN z.queue :
        z.queue[i].kind = "ended" <=> z.queue[i].gen = KeepaliveGeneration

\* The robot is yet to get a frame of this kind, and gets at most one.
Pending(kind) == wire = kind \/ Queued(s, kind)
Once(kind) == Single(s, kind) /\ (wire = kind => ~Queued(s, kind))

\* A loop awaits the brain's answer to an utterance.
Awaiting == \E x \in {"rx", "keepalive"} : task[x].pc = "await_brain"

\* The session listens, or is about to.
Committed == InCancel \/ task["rx"].pc = "reset_start" \/ (s.state = "listening" /\ ~Awaiting)

\* A turn is under way that has not settled.
Talking == \E t \in Turns : Live(t) /\ task[t].pc # "reset"

\* How many times, at most, the robot is yet to be heard saying that it listens: what
\* it has sent, what it will say when the tts/stop of a window makes it listen again,
\* and what it will say when a tts/start opens a window.
Unheard == Len(up) + (IF dev = "listening" THEN 0 ELSE 1) + (IF Pending("start") THEN 1 ELSE 0)

\* How many of them the session takes as they are meant: none while it listens; one
\* for the turn that is to end in idle, noted as ignored; after _notify_device_idle
\* the late one that is swallowed, and, once the frame is gone, a wake.
Allowed ==
    IF Committed THEN 0
    ELSE IF s.awaitingWake THEN IF s.ignored THEN 0 ELSE 1
    ELSE IF Pending("ended") THEN IF s.swallow THEN 1 ELSE 0
    ELSE IF s.swallow THEN 2 ELSE 1

\* The task x of a turn is where the owner's talk alone can bring it.
Sound(x) ==
    /\ x.pc \notin {"raised", "say"} /\ x.speech # "raised"
    /\ x.pc = "expired" => "timeout" \in Faults
    /\ x.pc \in {"new", "notify"} => x.speech = "none"
    /\ x.pc = "tools" /\ "music" \notin Replies => x.arg # "stream"

\* The task x of the current turn has its window, or is to open it, in the session z.
Fits(z, x) ==
    /\ x.pc # "unwind"
    /\ x.pc = "new" => z.pendingMusic = "none" /\ z.awaitingTtsStop
    /\ x.pc \in {"brain", "tools", "drain"} => z.state = "speaking" \/ z.awaitingTtsStop
    /\ x.speech = "waiting" /\ x.pc # "expired" => z.awaitingTtsStop

\* Who acts, and who does not.
CastInv ==
    /\ \A x \in {"companion", "sensor", "stopper", "closer"} : task[x].pc = "idle"
    /\ ~s.closed /\ wire # "stopped"
    /\ task["rx"].pc \in {"idle", "cancel_begin", "cancel_turn", "reset_start", "await_brain"}
    /\ InCancel => task["rx"].arg = "start"
    /\ task["keepalive"].pc \in {"idle", "await_brain"}
    /\ up \in Seq({"start"})
    /\ \A t \in Turns : task[t].gen =< s.gen /\ Sound(task[t])
    /\ \A t \in Turns : Live(t) /\ ~Stale(t) => ~InCancel /\ Fits(s, task[t])
    /\ "music" \notin Replies => s.pendingMusic # "stream"
    /\ s.state = "listening" => s.pendingMusic = "none"
    /\ Awaiting => s.awaitingTtsStop /\ s.state = "listening"

\* The robot is told to listen, and that the conversation is over, once; and no more is
\* to come from it than the session takes as it is meant.
PartingInv ==
    /\ Once("start") /\ Once("ended") /\ Tagged(s)
    /\ Unheard =< Allowed
    /\ s.awaitingWake => ~Pending("ended")
    /\ ~s.awaitingWake => ~s.ignored
    /\ Committed \/ Awaiting => ~s.awaitingWake
    /\ Committed \/ Awaiting \/ Talking => ~s.swallow /\ ~Pending("ended")

FarewellInv == CastInv /\ PartingInv

\* A step keeps the invariant, and the frame that ends the conversation is not lost.
Delivers == FarewellInv' /\ (Queued(s, "ended") => wire' = "ended" \/ Queued(s', "ended"))

\* What z has noted of the end of a conversation, y has too, and nothing else.
Held(z, y) == y.awaitingWake = z.awaitingWake /\ y.swallow = z.swallow /\ y.ignored = z.ignored

\* Code that neither starts nor ends anything for the robot.
Same(z, y) ==
    /\ y.gen = z.gen /\ y.closed = z.closed /\ Held(z, y)
    /\ \A kind \in {"start", "ended"} :
           /\ Queued(y, kind) <=> Queued(z, kind)
           /\ Single(z, kind) => Single(y, kind)
    /\ Tagged(z) => Tagged(y)

LEMMA SameTransitive ==
  ASSUME NEW x, NEW y, NEW z, Same(x, y), Same(y, z)
  PROVE  Same(x, z)
BY DEF Same, Held

LEMMA SameQueue ==
  ASSUME NEW z, NEW y, y.queue = z.queue, y.gen = z.gen, y.closed = z.closed, Held(z, y)
  PROVE  Same(z, y)
BY DEF Same, Queued, Single, Tagged

\* _put.
LEMMA PutQueued ==
  ASSUME NEW z, Proper(z), ~z.closed, NEW kind \in FrameKinds,
         NEW gen \in {KeepaliveGeneration, z.gen}
  PROVE  LET y == Put(z, kind, gen)
         IN  /\ Alike(z, y) /\ Held(z, y)
             /\ \A k : /\ Queued(y, k) <=> Queued(z, k) \/ k = kind
                       /\ Single(z, k) /\ (k = kind => ~Queued(z, k)) => Single(y, k)
             /\ (kind = "ended" <=> gen = KeepaliveGeneration) /\ Tagged(z) => Tagged(y)
<1> DEFINE F == Items
           e == [kind |-> kind, gen |-> gen]
           q == z.queue
           n == Len(q)
           p == Append(q, e)
           y == [z EXCEPT !.queue = p]
<1>1. z \in Attributes /\ q \in Seq(F) /\ z.gen \in Nat BY DEF Proper, Attributes
<1>2. e \in F /\ e.kind = kind /\ e.gen = gen BY <1>1 DEF KeepaliveGeneration, Items
<1>3. n \in Nat /\ DOMAIN q = 1 .. n /\ DOMAIN p = 1 .. n + 1 /\ p[n + 1] = e
      /\ \A i \in 1 .. n : p[i] = q[i]
  BY <1>1, <1>2
<1>4. Put(z, kind, gen) = y BY DEF Put
<1>5. y.queue = p /\ y.gen = z.gen /\ Alike(z, y) /\ Held(z, y)
  BY <1>1 DEF Attributes, Alike, Held
<1>6. Kept(e, z.gen) BY <1>2 DEF Kept
<1> HIDE DEF F, e, q, p, n, y
<1>7. \A i \in DOMAIN p : i = n + 1 \/ (i \in DOMAIN q /\ p[i] = q[i]) BY <1>3
<1>8. n + 1 \in DOMAIN p /\ \A i \in DOMAIN q : i \in DOMAIN p /\ p[i] = q[i] BY <1>3
<1>9. ASSUME NEW k PROVE Queued(y, k) <=> Queued(z, k) \/ k = kind
  <2>1. Queued(y, k) => Queued(z, k) \/ k = kind
    BY <1>2, <1>3, <1>5, <1>7 DEF Queued, q
  <2>2. Queued(z, k) => Queued(y, k) BY <1>5, <1>8 DEF Queued, q
  <2>3. k = kind => Queued(y, k) BY <1>2, <1>3, <1>5, <1>6, <1>8 DEF Queued
  <2> QED BY <2>1, <2>2, <2>3
<1>10. ASSUME NEW k, Single(z, k), k = kind => ~Queued(z, k) PROVE Single(y, k)
  <2> DEFINE At(i) == p[i].kind = k /\ Kept(p[i], z.gen)
  <2> SUFFICES ASSUME NEW i \in DOMAIN p, NEW j \in DOMAIN p, At(i), At(j) PROVE i = j
    BY <1>5 DEF Single
  <2>1. \A m \in DOMAIN q : At(m) => Queued(z, k) BY <1>8 DEF Queued, q
  <2>2. At(n + 1) => k = kind BY <1>2, <1>3
  <2>3. \A l, m \in DOMAIN q : At(l) /\ At(m) => l = m BY <1>8, <1>10 DEF Single, q
  <2> HIDE DEF At
  <2> QED BY <2>1, <2>2, <2>3, <1>7, <1>10
<1>11. ASSUME kind = "ended" <=> gen = KeepaliveGeneration, Tagged(z) PROVE Tagged(y)
  BY <1>2, <1>3, <1>5, <1>7, <1>11 DEF Tagged, q
<1> QED BY <1>4, <1>5, <1>9, <1>10, <1>11

\* _put of a tts/stop or a packet.
LEMMA PutSame ==
  ASSUME NEW z, Proper(z), ~z.closed, NEW kind \in {"stop", "audio"}
  PROVE  Same(z, Put(z, kind, z.gen)) /\ Alike(z, Put(z, kind, z.gen))
<1>1. z.gen # KeepaliveGeneration BY DEF Proper, Attributes, KeepaliveGeneration
<1>2. kind \in FrameKinds BY DEF FrameKinds
<1> DEFINE y == Put(z, kind, z.gen)
<1>3. /\ Alike(z, y) /\ Held(z, y)
      /\ \A k : /\ Queued(y, k) <=> Queued(z, k) \/ k = kind
                /\ Single(z, k) /\ (k = kind => ~Queued(z, k)) => Single(y, k)
      /\ (kind = "ended" <=> z.gen = KeepaliveGeneration) /\ Tagged(z) => Tagged(y)
  BY <1>2, PutQueued
<1> HIDE DEF y
<1>4. Same(z, y) BY <1>1, <1>3 DEF Same, Alike
<1> QED BY <1>3, <1>4 DEF y

LEMMA ReleaseSame ==
  ASSUME NEW z, Proper(z), ~z.closed
  PROVE  LET y == Release(z)
         IN  /\ Same(z, y) /\ ~y.awaitingTtsStop
             /\ y.state = z.state /\ y.pendingMusic = z.pendingMusic
<1> DEFINE w == [z EXCEPT !.awaitingTtsStop = FALSE]
<1>1. w \in Attributes /\ w.queue = z.queue /\ w.putters = z.putters /\ w.gen = z.gen
      /\ w.closed = z.closed /\ Held(z, w)
      /\ w.state = z.state /\ w.pendingMusic = z.pendingMusic /\ ~w.awaitingTtsStop
  BY DEF Proper, Attributes, Held
<1>2. Release(z) = IF z.awaitingTtsStop THEN Put(w, "stop", w.gen) ELSE z BY <1>1 DEF Release
<1> HIDE DEF w
<1>3. Proper(w) /\ Same(z, w) /\ ~w.closed BY <1>1, SameQueue DEF Proper, Bounded
<1> DEFINE y == Put(w, "stop", w.gen)
<1>4. Same(w, y) /\ Alike(w, y) BY <1>3, PutSame
<1> HIDE DEF y
<1>5. Same(z, y) BY <1>3, <1>4, SameTransitive
<1>6. z.awaitingTtsStop \in BOOLEAN BY DEF Proper, Attributes
<1>7. Same(z, z) BY DEF Same, Held
<1> QED BY <1>1, <1>2, <1>4, <1>5, <1>6, <1>7 DEF Alike, y

\* A window that is to be released is taken over, without a tts/start.
LEMMA OpenSame ==
  ASSUME NEW z, Proper(z), z.awaitingTtsStop
  PROVE  LET y == OpenSpeech(z)
         IN  /\ Same(z, y) /\ ~y.awaitingTtsStop /\ y.state = "speaking"
             /\ y.pendingMusic = z.pendingMusic
<1> DEFINE w == [z EXCEPT !.awaitingTtsStop = FALSE, !.state = "speaking"]
<1>1. w.queue = z.queue /\ w.gen = z.gen /\ w.closed = z.closed /\ Held(z, w)
      /\ w.state = "speaking" /\ w.pendingMusic = z.pendingMusic /\ ~w.awaitingTtsStop
  BY DEF Proper, Attributes, Held
<1>2. OpenSpeech(z) = w BY DEF OpenSpeech
<1> HIDE DEF w
<1> QED BY <1>1, <1>2, SameQueue

LEMMA CloseSame ==
  ASSUME NEW z, Proper(z), ~z.closed, NEW gen
  PROVE  LET y == CloseSpeech(z, gen)
         IN  /\ Same(z, y) /\ y.state = z.state /\ y.pendingMusic = z.pendingMusic
             /\ z.awaitingTtsStop => y.awaitingTtsStop
<1> DEFINE w == [z EXCEPT !.awaitingTtsStop = TRUE]
           y == Put(z, "stop", z.gen)
<1>1. w.queue = z.queue /\ w.gen = z.gen /\ w.closed = z.closed /\ Held(z, w)
      /\ w.state = z.state /\ w.pendingMusic = z.pendingMusic /\ w.awaitingTtsStop
  BY DEF Proper, Attributes, Held
<1>2. CloseSpeech(z, gen) = IF gen # z.gen THEN z ELSE IF z.pendingMusic # "none" THEN w ELSE y
  BY DEF CloseSpeech
<1>3. Same(z, y) /\ Alike(z, y) BY PutSame
<1> HIDE DEF w, y
<1>4. Same(z, w) /\ Same(z, z) BY <1>1, SameQueue DEF Same, Held
<1> QED BY <1>1, <1>2, <1>3, <1>4 DEF Alike

\* _notify_device_idle.
Idled(z, y) ==
    /\ y.gen = z.gen /\ y.closed = z.closed
    /\ ~y.awaitingWake /\ ~y.ignored /\ (y.swallow <=> ~z.ignored)
    /\ Queued(y, "start") <=> Queued(z, "start")
    /\ Single(z, "start") => Single(y, "start")
    /\ Queued(y, "ended")
    /\ ~Queued(z, "ended") => Single(y, "ended")
    /\ Tagged(z) => Tagged(y)

LEMMA NotifyIdleIdles ==
  ASSUME NEW z, Proper(z), ~z.closed
  PROVE  Idled(z, NotifyIdle(z)) /\ Alike(z, NotifyIdle(z))
<1> DEFINE w == IdleFlags(z)
<1>1. /\ w \in Attributes /\ w.queue = z.queue /\ w.putters = z.putters /\ Alike(z, w)
      /\ ~w.ignored /\ ~w.awaitingWake /\ (w.swallow <=> ~z.ignored)
  BY DEF Proper, Attributes, Alike, IdleFlags
<1>2. NotifyIdle(z) = Put(w, "ended", KeepaliveGeneration) BY DEF NotifyIdle
<1> HIDE DEF w
<1>3. Proper(w) /\ ~w.closed BY <1>1 DEF Proper, Bounded, Alike
<1>4. /\ \A k : (Queued(w, k) <=> Queued(z, k)) /\ (Single(z, k) => Single(w, k))
      /\ ~Queued(z, "ended") => Single(w, "ended")
      /\ Tagged(z) => Tagged(w)
  BY <1>1 DEF Alike, Queued, Single, Tagged
<1> DEFINE y == Put(w, "ended", KeepaliveGeneration)
<1>5. "ended" \in FrameKinds BY DEF FrameKinds
<1>6. /\ Alike(w, y) /\ Held(w, y)
      /\ \A k : /\ Queued(y, k) <=> Queued(w, k) \/ k = "ended"
                /\ Single(w, k) /\ (k = "ended" => ~Queued(w, k)) => Single(y, k)
      /\ Tagged(w) => Tagged(y)
  BY <1>3, <1>5, PutQueued
<1> HIDE DEF y
<1>7. Idled(z, y) BY <1>1, <1>4, <1>6 DEF Idled, Alike, Held
<1> QED BY <1>1, <1>2, <1>6, <1>7 DEF Alike, y

LEMMA SettleSame ==
  ASSUME NEW z, Proper(z), ~z.closed, NEW gen
  PROVE  LET y == Settle(z, gen)
         IN  /\ ~z.awaitingWake => Same(z, y)
             /\ z.awaitingWake => Idled(z, y)
             /\ y.pendingMusic = z.pendingMusic
             /\ y.state \in {z.state, "ready"}
<1> DEFINE r == Release(z)
           b == [r EXCEPT !.state = "ready"]
           d == IF r.state # "closed" /\ (gen = r.gen \/ r.awaitingWake) THEN b ELSE r
<1>1. Proper(r) BY ReleaseQuiet
<1>2. Same(z, r) /\ r.pendingMusic = z.pendingMusic /\ r.state = z.state
  BY ReleaseSame
<1>3. Settle(z, gen) = IF d.awaitingWake /\ ~d.closed THEN NotifyIdle(d) ELSE d BY DEF Settle
<1> HIDE DEF r
<1>4. b \in Attributes /\ b.queue = r.queue /\ b.putters = r.putters /\ b.gen = r.gen /\ b.closed = r.closed /\ Held(r, b)
      /\ b.state = "ready" /\ b.pendingMusic = r.pendingMusic
  BY <1>1 DEF Proper, Attributes, States, Held
<1> HIDE DEF b
<1>5. Proper(b) /\ Same(r, b) BY <1>1, <1>4, SameQueue DEF Proper, Bounded
<1>6. Same(z, b) BY <1>2, <1>5, SameTransitive
<1>7. /\ Proper(d) /\ Same(z, d) /\ d.pendingMusic = z.pendingMusic
      /\ d.state \in {z.state, "ready"}
  BY <1>1, <1>2, <1>4, <1>5, <1>6
<1> HIDE DEF d
<1>8. ~d.closed /\ d.awaitingWake = z.awaitingWake /\ z.awaitingWake \in BOOLEAN
  BY <1>7 DEF Same, Held, Proper, Attributes
<1>9. Idled(d, NotifyIdle(d)) /\ Alike(d, NotifyIdle(d)) BY <1>7, <1>8, NotifyIdleIdles
<1>10. Idled(z, NotifyIdle(d)) BY <1>7, <1>9 DEF Idled, Same, Held
<1> QED BY <1>3, <1>7, <1>8, <1>9, <1>10 DEF Alike

-----------------------------------------------------------------------------
\* The steps of a turn.

\* With a live turn nobody listens or waits for the brain.
LEMMA LiveApart ==
  ASSUME SessionInv, "overlap" \notin Inputs, NEW t \in Turns, Live(t)
  PROVE  /\ s.state # "listening" /\ ~Awaiting /\ task["rx"].pc # "reset_start"
         /\ Committed <=> InCancel
         /\ \A u \in Turns \ {t} : task[u].pc = "idle"
<1>1. s.state # "listening" /\ ~Awaiting /\ task["rx"].pc # "reset_start"
  BY DEF SessionInv, Alone, HeardAlone, Deserted, Awaiting
<1>2. \A u \in Turns \ {t} : task[u].pc = "idle" BY DEF SessionInv, Alone, OneTurn, Live
<1> QED BY <1>1, <1>2 DEF Committed

\* The brain asked for the farewell: the turn will end in idle.
Exits(z, y) ==
    /\ y.gen = z.gen /\ y.closed = z.closed /\ y.queue = z.queue
    /\ y.awaitingWake /\ y.swallow = z.swallow /\ y.ignored = z.ignored

\* A step of the turn t keeps the invariant.
LEMMA TurnFarewell ==
  ASSUME SessionInv, FarewellInv, "overlap" \notin Inputs, NEW t \in Turns, Live(t),
         NEW f, task' = [task EXCEPT ![t] = f], UNCHANGED <<wire, dev, up>>,
         f.gen =< s.gen, f.pc = "idle" \/ f.gen = task[t].gen, Sound(f),
         task[t].pc = "reset" => f.pc \in {"idle", "reset"},
         ~Stale(t) /\ f.pc # "idle" => Fits(s', f),
         "music" \notin Replies => s'.pendingMusic # "stream",
         s'.state # "listening",
         \/ Same(s, s')
         \/ s.awaitingWake /\ Idled(s, s') /\ f.pc \in {"idle", "reset"}
         \/ Exits(s, s') /\ ~Stale(t) /\ task[t].pc # "reset"
  PROVE  Delivers
<1>1. /\ t \in Tasks /\ t \notin Loops
      /\ {"rx", "keepalive", "companion", "sensor", "stopper", "closer"} \subseteq Loops
  BY TurnsAssumption DEF Tasks, Loops
<1>2. task'[t] = f /\ \A x \in Tasks \ {t} : task'[x] = task[x]
  BY <1>1 DEF SessionInv, TypeOK
<1>3. \A x \in Loops : task'[x] = task[x] BY <1>1, <1>2 DEF Tasks
<1>4. /\ s.state # "listening" /\ ~Awaiting /\ task["rx"].pc # "reset_start"
      /\ Committed <=> InCancel
      /\ \A u \in Turns \ {t} : task[u].pc = "idle"
  BY LiveApart
<1>5. \A u \in Turns \ {t} : task'[u] = task[u] /\ task'[u].pc = "idle"
  BY <1>2, <1>4 DEF Tasks
<1>6. s'.gen = s.gen /\ s'.closed = s.closed BY DEF Same, Idled, Exits
<1>7. (InCancel' <=> InCancel) /\ ~Awaiting' /\ (Committed' <=> InCancel)
  BY <1>1, <1>3, <1>4 DEF InCancel, Awaiting, Committed
<1>8. CastInv'
  <2>1. \A u \in Turns : task'[u].gen =< s'.gen /\ Sound(task'[u])
    BY <1>2, <1>5, <1>6 DEF FarewellInv, CastInv
  <2>2. \A u \in Turns : Live(u)' /\ ~Stale(u)' => ~InCancel' /\ Fits(s', task'[u])
    <3> SUFFICES ASSUME NEW u \in Turns, task'[u].pc # "idle", task'[u].gen = s'.gen
                 PROVE  ~InCancel /\ Fits(s', task'[u])
      BY <1>7 DEF Live, Stale
    <3>1. u = t BY <1>5
    <3>2. ~Stale(t) BY <3>1, <1>2, <1>6 DEF Stale
    <3> QED BY <3>1, <3>2, <1>2 DEF FarewellInv, CastInv
  <2>3. (\A x \in {"companion", "sensor", "stopper", "closer"} : task[x].pc = "idle")'
    BY <1>1, <1>3 DEF FarewellInv, CastInv
  <2> QED BY <2>1, <2>2, <2>3, <1>1, <1>3, <1>6, <1>7 DEF FarewellInv, CastInv
<1>9. Talking' => f.pc \notin {"idle", "reset"} /\ Talking
  <2> SUFFICES ASSUME NEW u \in Turns, task'[u].pc \notin {"idle", "reset"}
               PROVE  f.pc \notin {"idle", "reset"} /\ Talking
    BY DEF Talking, Live
  <2>1. u = t BY <1>5
  <2> QED BY <2>1, <1>2 DEF Talking
<1>10. PartingInv BY DEF FarewellInv
<1>11. ASSUME Same(s, s')
      PROVE  FarewellInv'
  <2>1. \A kind \in {"start", "ended"} :
            (Pending(kind)' <=> Pending(kind)) /\ (Once(kind) => Once(kind)')
    BY <1>11 DEF Same, Pending, Once
  <2>2. Unheard' = Unheard BY <2>1 DEF Unheard
  <2>3. Allowed' = Allowed BY <1>4, <1>7, <1>11, <2>1 DEF Allowed, Same, Held
  <2>4. Tagged(s') BY <1>10, <1>11 DEF PartingInv, Same
  <2> QED BY <1>4, <1>7, <1>8, <1>9, <1>10, <1>11, <2>1, <2>2, <2>3, <2>4
      DEF FarewellInv, PartingInv, Same, Held
<1>12. ASSUME s.awaitingWake /\ Idled(s, s') /\ f.pc \in {"idle", "reset"}
      PROVE  FarewellInv'
  <2>1. ~Committed /\ ~Awaiting /\ ~Pending("ended") BY <1>10, <1>12 DEF PartingInv
  <2>2. /\ Pending("start")' <=> Pending("start")
        /\ Once("start")' /\ Once("ended")' /\ Pending("ended")'
    BY <1>10, <1>12, <2>1 DEF PartingInv, Idled, Pending, Once
  <2>3. Unheard' = Unheard BY <2>2 DEF Unheard
  <2>4. Allowed' = Allowed BY <1>4, <1>7, <1>12, <2>1, <2>2 DEF Allowed, Idled
  <2>5. Tagged(s') BY <1>10, <1>12 DEF PartingInv, Idled
  <2> QED BY <1>4, <1>7, <1>8, <1>9, <1>10, <1>12, <2>1, <2>2, <2>3, <2>4, <2>5
      DEF FarewellInv, PartingInv, Idled
<1>13. ASSUME Exits(s, s') /\ ~Stale(t) /\ task[t].pc # "reset"
      PROVE  FarewellInv'
  <2>1. Talking /\ ~InCancel BY <1>13 DEF Talking, FarewellInv, CastInv
  <2>2. ~Committed /\ ~Awaiting /\ ~s.swallow /\ ~Pending("ended")
    BY <1>4, <1>10, <2>1 DEF PartingInv
  <2>3. \A kind \in {"start", "ended"} :
            (Pending(kind)' <=> Pending(kind)) /\ (Once(kind) => Once(kind)')
    BY <1>13 DEF Exits, Pending, Once, Queued, Single
  <2>4. Unheard' = Unheard BY <2>3 DEF Unheard
  <2>5. Allowed' = Allowed BY <1>4, <1>7, <1>10, <1>13, <2>2, <2>3 DEF Allowed, Exits, PartingInv
  <2>6. Tagged(s') BY <1>10, <1>13 DEF PartingInv, Exits, Tagged
  <2> QED BY <1>4, <1>7, <1>8, <1>9, <1>10, <1>13, <2>2, <2>3, <2>4, <2>5, <2>6
      DEF FarewellInv, PartingInv, Exits
<1>14. Queued(s, "ended") => Queued(s', "ended") BY DEF Same, Idled, Exits, Queued
<1> QED BY <1>8, <1>11, <1>12, <1>13, <1>14 DEF FarewellInv, Delivers

\* The end of _run_turn tells the robot that the conversation is over, if it is.
LEMMA SettledFarewell ==
  ASSUME SessionInv, FarewellInv, "overlap" \notin Inputs, NEW t \in Turns, Live(t),
         NEW z, Proper(z), Same(s, z), z.state # "listening",
         "music" \notin Replies => z.pendingMusic # "stream",
         task[t].pc # "reset", Stale(t) \/ task[t].speech # "waiting",
         Settled(t, z), UNCHANGED <<wire, dev, up>>
  PROVE  Delivers
<1> DEFINE y == Settle(z, task[t].gen)
           f == [task[t] EXCEPT !.pc = "reset"]
           v == Free(y, t)
<1>1. task[t] \in Frames /\ task[t].gen =< s.gen /\ Sound(task[t]) /\ s.gen \in Nat
  BY TurnFacts, Start DEF FarewellInv, CastInv, SessionInv, Proper, Attributes
<1>2. ~z.closed /\ z.awaitingWake = s.awaitingWake /\ s.awaitingWake \in BOOLEAN
  BY Start DEF FarewellInv, CastInv, Same, Held, SessionInv, Proper, Attributes
<1>3. /\ ~z.awaitingWake => Same(z, y)
      /\ z.awaitingWake => Idled(z, y)
      /\ y.pendingMusic = z.pendingMusic /\ y.state \in {z.state, "ready"}
  BY <1>2, SettleSame
<1>4. Proper(y) BY SettleQuiet
<1>5. /\ v.gen = y.gen /\ v.closed = y.closed /\ v.queue = y.queue /\ Held(y, v)
      /\ v.state = y.state /\ v.pendingMusic = y.pendingMusic
  BY <1>4 DEF Free, Proper, Attributes, Held
<1>6. f.pc = "reset" /\ f.gen = task[t].gen /\ f.speech = task[t].speech BY <1>1 DEF Frames
<1>7. \/ s' = y /\ task' = [task EXCEPT ![t] = f]
      \/ s' = v /\ task' = [task EXCEPT ![t] = Idle]
  BY DEF Settled
<1> HIDE DEF y, v, f
<1>8. /\ ~s.awaitingWake => Same(s, y) /\ Same(s, v)
      /\ s.awaitingWake => Idled(s, y) /\ Idled(s, v)
  <2>1. Same(y, v) BY <1>5, SameQueue
  <2>2. ~s.awaitingWake => Same(s, y) /\ Same(s, v) BY <1>2, <1>3, <2>1, SameTransitive
  <2>3. s.awaitingWake => Idled(s, y) BY <1>2, <1>3 DEF Idled, Same, Held
  <2>4. s.awaitingWake => Idled(s, v) BY <2>1, <2>3 DEF Idled, Same, Held
  <2> QED BY <2>2, <2>3, <2>4
<1>9. CASE s' = y /\ task' = [task EXCEPT ![t] = f]
  <2>1. Sound(f) BY <1>1, <1>6 DEF Sound
  <2>2. ~Stale(t) => Fits(s', f) BY <1>6 DEF Fits
  <2> QED BY <2>1, <2>2, <1>1, <1>3, <1>6, <1>8, <1>9, TurnFarewell
<1>10. CASE s' = v /\ task' = [task EXCEPT ![t] = Idle]
  <2>1. Sound(Idle) /\ Idle.gen =< s.gen BY <1>1, IdleFrame DEF Sound
  <2>2. task' = [task EXCEPT ![t] = Idle] BY <1>10
  <2> QED BY <2>1, <2>2, <1>3, <1>5, <1>8, <1>10, IdleFrame, TurnFarewell
<1> QED BY <1>7, <1>9, <1>10

\* The music takes over a window that is open, or is to be released.
LEMMA FinallyFarewell ==
  ASSUME SessionInv, FarewellInv, "overlap" \notin Inputs, NEW t \in Turns, Live(t),
         NEW z, Proper(z), Same(s, z), z.state # "listening",
         "music" \notin Replies => z.pendingMusic # "stream",
         task[t].pc # "reset", Stale(t) \/ task[t].speech # "waiting",
         ~Stale(t) /\ z.pendingMusic = "stream" => z.state = "speaking" \/ z.awaitingTtsStop,
         Finally(t, z), UNCHANGED <<wire, dev, up>>
  PROVE  Delivers
<1> DEFINE o == [z EXCEPT !.pendingMusic = "none"]
           w == [o EXCEPT !.awaitingTtsStop = FALSE]
           f == Frame("device", task[t].gen, "none", "device")
           g == Frame("music", task[t].gen, "open", "stream")
<1>1. \/ Settled(t, z)
      \/ ~Stale(t) /\ s' = o /\ task' = [task EXCEPT ![t] = f]
      \/ /\ ~Stale(t) /\ z.pendingMusic \notin {"none", "device"}
         /\ s' = IF o.state = "speaking" THEN w ELSE OpenSpeech(o)
         /\ task' = [task EXCEPT ![t] = g]
  BY DEF Finally
<1>2. task[t].gen =< s.gen BY DEF FarewellInv, CastInv
<1>3. o \in Attributes /\ o.gen = z.gen /\ o.closed = z.closed /\ o.queue = z.queue /\ Held(z, o)
      /\ o.putters = z.putters
      /\ o.state = z.state /\ o.awaitingTtsStop = z.awaitingTtsStop /\ o.pendingMusic = "none"
  BY DEF Proper, Attributes, Clips, Held
<1> HIDE DEF o
<1>4. Proper(o) /\ Same(s, o) BY <1>3, SameQueue, SameTransitive DEF Proper, Bounded
<1>5. f.pc = "device" /\ f.gen = task[t].gen /\ f.speech = "none" BY DEF Frame
<1>6. g.pc = "music" /\ g.gen = task[t].gen /\ g.speech = "open" BY DEF Frame
<1> HIDE DEF f, g
<1>7. CASE Settled(t, z) BY <1>7, SettledFarewell
<1>8. CASE ~Stale(t) /\ s' = o /\ task' = [task EXCEPT ![t] = f]
  <2>1. Sound(f) /\ Fits(s', f) BY <1>5 DEF Sound, Fits
  <2> QED BY <2>1, <1>2, <1>3, <1>4, <1>5, <1>8, TurnFarewell
<1>9. CASE /\ ~Stale(t) /\ z.pendingMusic \notin {"none", "device"}
           /\ s' = IF o.state = "speaking" THEN w ELSE OpenSpeech(o)
           /\ task' = [task EXCEPT ![t] = g]
  <2>1. z.pendingMusic = "stream" BY <1>9 DEF Proper, Attributes, Clips
  <2>2. /\ w.gen = o.gen /\ w.closed = o.closed /\ w.queue = o.queue /\ Held(o, w)
        /\ w.pendingMusic = "none" /\ w.state = o.state
    BY <1>3, <1>4 DEF Proper, Attributes, Held
  <2> HIDE DEF w
  <2>3. Same(s, w) BY <1>4, <2>2, SameQueue, SameTransitive
  <2> DEFINE y == OpenSpeech(o)
  <2>4. o.awaitingTtsStop => Same(o, y) /\ y.state = "speaking" /\ y.pendingMusic = o.pendingMusic
    BY <1>4, OpenSame
  <2>5. s' = IF o.state = "speaking" THEN w ELSE y BY <1>9
  <2> HIDE DEF y
  <2>6. Same(s, s') /\ s'.state = "speaking" /\ s'.pendingMusic = "none"
    BY <1>3, <1>4, <1>9, <2>1, <2>2, <2>3, <2>4, <2>5, SameTransitive
  <2>7. Sound(g) /\ Fits(s', g) BY <1>6 DEF Sound, Fits
  <2> QED BY <2>6, <2>7, <1>2, <1>6, <1>9, TurnFarewell
<1> QED BY <1>1, <1>7, <1>8, <1>9

\* A turn goes on with a session that is as it was, for the robot.
LEMMA GoesOnFarewell ==
  ASSUME SessionInv, FarewellInv, "overlap" \notin Inputs, NEW t \in Turns, Live(t),
         NEW f, task' = [task EXCEPT ![t] = f], UNCHANGED <<wire, dev, up>>,
         Same(s, s'), s'.state \in {s.state, "speaking"},
         "music" \notin Replies => s'.pendingMusic # "stream",
         f.gen = task[t].gen, Sound(f), task[t].pc = "reset" => f.pc = "reset",
         ~Stale(t) => Fits(s', f)
  PROVE  Delivers
<1>1. s.state # "listening" BY LiveApart
<1>2. f.gen =< s.gen BY DEF FarewellInv, CastInv
<1> QED BY <1>1, <1>2, TurnFarewell

LEMMA TurnNextFarewell ==
  ASSUME SessionInv, FarewellInv, HandsFree, NEW t \in Turns, TurnNext(t)
  PROVE  Delivers
<1>1. /\ task[t] \in Frames /\ task[t].gen \in Nat /\ Proper(s) /\ s \in Attributes
      /\ task[t].pc \notin {"cancel_begin", "cancel_turn", "reset_start"}
      /\ Sound(task[t]) /\ task[t].gen =< s.gen /\ ~s.closed
      /\ "music" \notin Replies => s.pendingMusic # "stream"
  BY TurnFacts DEF FarewellInv, CastInv
<1>2. "overlap" \notin Inputs BY DEF HandsFree
<1>3. UNCHANGED <<wire, dev, up>> /\ Live(t)
  BY DEF TurnNext, TurnBegins, BrainAnswers, ToolsDone, TurnTimeout, TurnUnwinds, MusicDone,
         MusicNotified, MusicAnnounced, ResetDone, TurnStep, Live
<1>4. s.state # "listening" /\ (~Stale(t) => Fits(s, task[t]))
  BY <1>2, <1>3, LiveApart DEF FarewellInv, CastInv
<1>5. Same(s, s) BY SameQueue DEF Held
<1>6. CASE TurnBegins(t)
  <2>0. task[t].pc = "new" /\ task[t].speech = "none" BY <1>1, <1>6 DEF TurnBegins, Sound
  <2>1. CASE Stale(t) /\ Finally(t, s)
    BY <2>0, <2>1, <1>1, <1>2, <1>3, <1>4, <1>5, FinallyFarewell
  <2>2. CASE ~Stale(t) /\ Finally(t, Release(s))
    <3> DEFINE z == Release(s)
    <3>1. Proper(z) /\ Same(s, z) /\ z.state = s.state /\ z.pendingMusic = s.pendingMusic
      BY <1>1, ReleaseQuiet, ReleaseSame
    <3>2. Finally(t, z) BY <2>2
    <3> HIDE DEF z
    <3>3. s.pendingMusic = "none" BY <2>0, <2>2, <1>4 DEF Fits
    <3> QED BY <2>0, <3>1, <3>2, <3>3, <1>2, <1>3, <1>4, FinallyFarewell
  <2>3. CASE /\ ~Stale(t) /\ UNCHANGED s
             /\ task' = [task EXCEPT ![t].pc = "brain", ![t].speech = "waiting"]
    <3> DEFINE f == [task[t] EXCEPT !.pc = "brain", !.speech = "waiting"]
    <3>1. task' = [task EXCEPT ![t] = f] BY <2>3
    <3>2. f.pc = "brain" /\ f.speech = "waiting" /\ f.gen = task[t].gen BY <1>1 DEF Frames
    <3> HIDE DEF f
    <3>3. Sound(f) /\ Fits(s', f) BY <2>0, <2>3, <1>4, <3>2 DEF Sound, Fits
    <3> QED BY <2>0, <2>3, <3>1, <3>2, <3>3, <1>1, <1>2, <1>3, <1>5, GoesOnFarewell
  <2> QED BY <1>6, <2>1, <2>2, <2>3 DEF TurnBegins
<1>7. CASE BrainAnswers(t)
  <2>0. task[t].pc = "brain" BY <1>7 DEF BrainAnswers
  <2>1. CASE Stale(t) /\ UNCHANGED s /\ task' = Goto(t, "unwind")
    <3> DEFINE f == [task[t] EXCEPT !.pc = "unwind"]
    <3>1. task' = [task EXCEPT ![t] = f] BY <2>1 DEF Goto
    <3>2. f.pc = "unwind" /\ f.gen = task[t].gen /\ f.speech = task[t].speech BY <1>1 DEF Frames
    <3> HIDE DEF f
    <3>3. Sound(f) BY <1>1, <3>2 DEF Sound
    <3> QED BY <2>0, <2>1, <3>1, <3>2, <3>3, <1>1, <1>2, <1>3, <1>5, GoesOnFarewell
  <2>2. ASSUME NEW r \in Replies, ~Stale(t), s' = IF r = "farewell" THEN RequestExit(s) ELSE s,
               task' = Answer(t, r, "raised")
        PROVE  Delivers
    <3> DEFINE pc == CASE r \in {"music", "devmusic"} -> "tools"
                       [] r = "raise" -> "raised"
                       [] OTHER -> "drain"
               arg == CASE r = "music" -> "stream" [] r = "devmusic" -> "device" [] OTHER -> "none"
               f == [task[t] EXCEPT !.pc = pc, !.arg = arg]
    <3>1. task' = [task EXCEPT ![t] = f] BY <2>2 DEF Answer
    <3>2. f.pc = pc /\ f.arg = arg /\ f.gen = task[t].gen /\ f.speech = task[t].speech
      BY <1>1 DEF Frames
    <3>3. r # "raise" BY DEF HandsFree
    <3>4. pc \in {"tools", "drain"} BY <3>3
    <3>5. "music" \notin Replies => arg # "stream" OBVIOUS
    <3> HIDE DEF pc, arg, f
    <3>6. /\ s'.pendingMusic = s.pendingMusic /\ s'.awaitingTtsStop = s.awaitingTtsStop
          /\ s'.state = s.state
      BY <2>2, <1>1 DEF RequestExit, Attributes
    <3>7. Sound(f) BY <1>1, <3>2, <3>4, <3>5 DEF Sound
    <3>8. Fits(s', f) BY <2>0, <2>2, <1>4, <3>2, <3>4, <3>6 DEF Fits
    <3>9. Same(s, s') \/ Exits(s, s')
      <4>1. CASE r = "farewell" BY <4>1, <2>2, <1>1 DEF RequestExit, Attributes, Exits
      <4>2. CASE r # "farewell" BY <4>2, <2>2, <1>5
      <4> QED BY <4>1, <4>2
    <3> QED BY <2>0, <2>2, <3>1, <3>2, <3>6, <3>7, <3>8, <3>9, <1>1, <1>2, <1>3, <1>4, TurnFarewell
  <2> QED BY <1>7, <2>1, <2>2 DEF BrainAnswers
<1>8. CASE ToolsDone(t)
  <2> DEFINE z == [s EXCEPT !.pendingMusic = task[t].arg]
  <2>9. task[t].pc = "tools" /\ (s' = z \/ s' = Withdraw(t, z)) BY <1>8 DEF ToolsDone
  <2>10. Withdraw(t, z) = z
    <3>1. task[t].arg \in Clips BY <1>3, <2>9 DEF SessionInv, ToolsSetAClip, Tasks
    <3>2. z \in Attributes /\ z.gen = s.gen /\ z.closed = s.closed /\ z.turn = s.turn
          /\ z.queue = s.queue /\ z.putters = s.putters /\ z.state = s.state
          /\ z.liveStale = s.liveStale
      BY <1>1, <3>1 DEF Attributes
    <3> HIDE DEF z
    <3>3. Quiet(s, z) BY <1>1, <3>2, SameQuiet
    <3> QED BY <3>3, WithdrawCalm
  <2>0. task[t].pc = "tools" /\ s' = z BY <2>9, <2>10
  <2>1. PICK pc \in {"unwind", "drain"} : /\ task' = [task EXCEPT ![t].arg = "none", ![t].pc = pc]
                                          /\ pc = "unwind" => Stale(t)
    BY <1>8 DEF ToolsDone, HandsFree
  <2> DEFINE f == [task[t] EXCEPT !.arg = "none", !.pc = pc]
  <2>2. task' = [task EXCEPT ![t] = f] BY <2>1
  <2>3. f.pc = pc /\ f.gen = task[t].gen /\ f.speech = task[t].speech BY <1>1 DEF Frames
  <2> HIDE DEF f
  <2>4. /\ s'.gen = s.gen /\ s'.closed = s.closed /\ s'.pendingMusic = task[t].arg
        /\ s'.queue = s.queue /\ s'.awaitingTtsStop = s.awaitingTtsStop /\ s'.state = s.state
        /\ Held(s, s')
    BY <2>0, <1>1 DEF Attributes, Held
  <2>5. Same(s, s') BY <2>4, SameQueue
  <2>6. Sound(f) BY <1>1, <2>3 DEF Sound
  <2>7. ~Stale(t) => Fits(s', f) BY <2>0, <2>1, <1>4, <2>3, <2>4 DEF Fits
  <2>8. "music" \notin Replies => s'.pendingMusic # "stream" BY <2>0, <2>4, <1>1 DEF Sound
  <2> QED BY <2>0, <2>2, <2>3, <2>4, <2>5, <2>6, <2>7, <2>8, <1>2, <1>3, GoesOnFarewell
<1>9. CASE TurnTimeout(t)
  <2> DEFINE f == [task[t] EXCEPT !.pc = "expired"]
  <2>1. /\ "timeout" \in Faults /\ UNCHANGED s /\ task' = [task EXCEPT ![t] = f]
        /\ task[t].pc # "reset"
    BY <1>9 DEF TurnTimeout, Goto
  <2>2. f.pc = "expired" /\ f.gen = task[t].gen /\ f.speech = task[t].speech BY <1>1 DEF Frames
  <2> HIDE DEF f
  <2>3. Sound(f) /\ Fits(s', f) BY <1>1, <2>1, <2>2 DEF Sound, Fits
  <2> QED BY <2>1, <2>2, <2>3, <1>1, <1>2, <1>3, <1>5, GoesOnFarewell
<1>10. CASE TurnUnwinds(t)
  <2>1. task[t].speech # "waiting" /\ ~Raised(t)
    BY <1>1, <1>10 DEF TurnUnwinds, Spoken, Raised, Sound
  <2>2. CASE task[t].pc \in {"drain", "unwind", "say"} /\ Finally(t, s)
    <3>1. ~Stale(t) => s.state = "speaking" \/ s.awaitingTtsStop
      BY <2>2, <1>1, <1>4 DEF Fits, Sound
    <3> QED BY <2>1, <2>2, <3>1, <1>1, <1>2, <1>3, <1>4, <1>5, FinallyFarewell
  <2>3. CASE task[t].pc = "expired" /\ Finally(t, Release(s))
    <3> DEFINE z == Release(s)
    <3>1. Proper(z) /\ Same(s, z) /\ z.state = s.state /\ z.pendingMusic = s.pendingMusic
      BY <1>1, ReleaseQuiet, ReleaseSame
    <3>2. Finally(t, z) BY <2>3
    <3> HIDE DEF z
    <3>3. s.pendingMusic # "stream" BY <2>3, <1>1 DEF Sound, HandsFree
    <3> QED BY <2>1, <2>3, <3>1, <3>2, <3>3, <1>2, <1>3, <1>4, FinallyFarewell
  <2> QED BY <1>10, <1>1, <2>1, <2>2, <2>3 DEF TurnUnwinds, Sound
<1>11. CASE MusicDone(t)
  <2>0. task[t].pc \in {"music", "device"} BY <1>11 DEF MusicDone
  <2>1. CASE Stale(t) /\ Settled(t, s)
    BY <2>0, <2>1, <1>1, <1>2, <1>3, <1>4, <1>5, SettledFarewell
  <2>2. CASE /\ ~Stale(t) /\ UNCHANGED s
             /\ task' = [task EXCEPT ![t].pc = "notify", ![t].speech = "none"]
    <3> DEFINE f == [task[t] EXCEPT !.pc = "notify", !.speech = "none"]
    <3>1. task' = [task EXCEPT ![t] = f] BY <2>2
    <3>2. f.pc = "notify" /\ f.speech = "none" /\ f.gen = task[t].gen BY <1>1 DEF Frames
    <3> HIDE DEF f
    <3>3. Sound(f) /\ Fits(s', f) BY <3>2 DEF Sound, Fits
    <3> QED BY <2>0, <2>2, <3>1, <3>2, <3>3, <1>1, <1>2, <1>3, <1>5, GoesOnFarewell
  <2> QED BY <1>11, <2>1, <2>2 DEF MusicDone
<1>12. CASE MusicNotified(t)
  <2>0. task[t].pc = "notify" /\ task[t].speech = "none" BY <1>1, <1>12 DEF MusicNotified, Sound
  <2>1. CASE Stale(t) /\ Settled(t, s)
    BY <2>0, <2>1, <1>1, <1>2, <1>3, <1>4, <1>5, SettledFarewell
  <2>2. ASSUME NEW stop \in BOOLEAN
        PROVE  LET z == [s EXCEPT !.awaitingTtsStop = stop]
               IN  /\ Proper(z) /\ Same(s, z) /\ z.state = s.state
                   /\ z.pendingMusic = s.pendingMusic /\ z.awaitingTtsStop = stop
    <3> DEFINE z == [s EXCEPT !.awaitingTtsStop = stop]
    <3>1. z \in Attributes /\ z.gen = s.gen /\ z.closed = s.closed /\ z.queue = s.queue
          /\ z.putters = s.putters
          /\ z.pendingMusic = s.pendingMusic /\ z.state = s.state /\ z.awaitingTtsStop = stop
          /\ Held(s, z)
      BY <1>1 DEF Attributes, Held
    <3> HIDE DEF z
    <3>2. Proper(z) /\ Same(s, z) BY <1>1, <3>1, SameQueue DEF Proper, Bounded
    <3> QED BY <3>1, <3>2 DEF z
  <2>3. ASSUME NEW stop \in BOOLEAN, Settled(t, [s EXCEPT !.awaitingTtsStop = stop])
        PROVE  Delivers
    BY <2>0, <2>2, <2>3, <1>1, <1>2, <1>3, <1>4, SettledFarewell
  <2>4. CASE ~Stale(t) /\ Say(t, "announce", [s EXCEPT !.awaitingTtsStop = TRUE])
    <3> DEFINE z == [s EXCEPT !.awaitingTtsStop = TRUE]
               y == OpenSpeech(z)
               f == [task[t] EXCEPT !.pc = "announce", !.speech = "open"]
    <3>1. s' = y /\ task' = [task EXCEPT ![t] = f] BY <2>4 DEF Say, Await
    <3>2. Proper(z) /\ Same(s, z) /\ z.pendingMusic = s.pendingMusic /\ z.awaitingTtsStop
      BY <2>2
    <3> HIDE DEF z
    <3>3. Same(z, y) /\ y.state = "speaking" /\ y.pendingMusic = z.pendingMusic
      BY <3>2, OpenSame
    <3>4. f.pc = "announce" /\ f.speech = "open" /\ f.gen = task[t].gen BY <1>1 DEF Frames
    <3> HIDE DEF y, f
    <3>5. Sound(f) /\ Fits(s', f) BY <3>4 DEF Sound, Fits
    <3>6. Same(s, y) BY <3>2, <3>3, SameTransitive
    <3> QED BY <2>0, <2>4, <3>1, <3>2, <3>3, <3>4, <3>5, <3>6, <1>1, <1>2, <1>3, GoesOnFarewell
  <2>5. (s.awaitingTtsStop \/ task[t].arg = "stream") \in BOOLEAN BY <1>1 DEF Attributes
  <2> QED BY <1>12, <2>1, <2>3, <2>4, <2>5 DEF MusicNotified
<1>13. CASE MusicAnnounced(t)
  <2> DEFINE stop == s.awaitingTtsStop \/ (~Stale(t) /\ task[t].arg = "stream")
             z == [s EXCEPT !.awaitingTtsStop = stop]
  <2>1. Settled(t, z) /\ task[t].speech # "waiting" /\ task[t].pc = "announce"
    BY <1>1, <1>13 DEF MusicAnnounced, Spoken, Raised, Sound
  <2>2. stop \in BOOLEAN BY <1>1 DEF Attributes
  <2> HIDE DEF stop
  <2>3. z \in Attributes /\ z.gen = s.gen /\ z.closed = s.closed /\ z.queue = s.queue
        /\ z.putters = s.putters /\ z.pendingMusic = s.pendingMusic /\ z.state = s.state /\ Held(s, z)
    BY <1>1, <2>2 DEF Attributes, Held
  <2> HIDE DEF z
  <2>4. Proper(z) /\ Same(s, z) BY <1>1, <2>3, SameQueue DEF Proper, Bounded
  <2> QED BY <2>1, <2>3, <2>4, <1>1, <1>2, <1>3, <1>4, SettledFarewell
<1>14. CASE ResetDone(t)
  <2>1. PICK stale \in BOOLEAN :
            s' = Free([s EXCEPT !.liveStale = stale], t) /\ task' = [task EXCEPT ![t] = Idle]
    BY <1>1, <1>14 DEF ResetDone, Attributes
  <2> DEFINE z == [s EXCEPT !.liveStale = stale]
  <2>2. z \in Attributes /\ z.gen = s.gen /\ z.closed = s.closed /\ z.queue = s.queue
        /\ z.pendingMusic = s.pendingMusic /\ z.state = s.state /\ Held(s, z)
    BY <1>1 DEF Attributes, Held
  <2> HIDE DEF z
  <2>3. /\ s'.gen = s.gen /\ s'.closed = s.closed /\ s'.queue = s.queue
        /\ s'.pendingMusic = s.pendingMusic /\ s'.state = s.state /\ Held(s, s')
    BY <2>1, <2>2 DEF Free, Attributes, Held, z
  <2>4. Same(s, s') BY <2>3, SameQueue
  <2>5. Sound(Idle) /\ Idle.gen =< s.gen BY <1>1, IdleFrame DEF Sound, Attributes
  <2> QED BY <2>1, <2>3, <2>4, <2>5, <1>1, <1>2, <1>3, <1>4, IdleFrame, TurnFarewell
<1> QED BY <1>6, <1>7, <1>8, <1>9, <1>10, <1>11, <1>12, <1>13, <1>14 DEF TurnNext

\* A speak task opens no window of its own in a turn, and tells the robot nothing else.
LEMMA SpeechFarewell ==
  ASSUME SessionInv, FarewellInv, HandsFree, NEW x \in Speakers, SpeechStep(x)
  PROVE  Delivers
<1>1. task[x].speech # "none" /\ UNCHANGED <<wire, dev, up>> /\ "overlap" \notin Inputs
  BY DEF SpeechStep, FirstSentence, StreamPacket, SpeechDone, SpeechRaises, SpeechRuns, HandsFree
<1>2. x \in Tasks /\ task[x] \in Frames /\ Proper(s) /\ s \in Attributes /\ s.gen \in Nat
  BY SpeakersAreTasks, Start DEF SessionInv, TypeOK
<1>3. x \in Turns /\ Live(x)
  <2>1. task[x].pc # "idle" BY <1>1, <1>2 DEF SessionInv, Purposes
  <2> QED BY <2>1 DEF Speakers, FarewellInv, CastInv, Live
<1>4. /\ Sound(task[x]) /\ ~s.closed /\ (~Stale(x) => Fits(s, task[x]))
      /\ "music" \notin Replies => s.pendingMusic # "stream"
  BY <1>3 DEF FarewellInv, CastInv
<1>5. ASSUME NEW v, task' = [task EXCEPT ![x].speech = v], v # "waiting", v # "raised",
             Same(s, s'), s'.state \in {s.state, "speaking"}, s'.pendingMusic = s.pendingMusic,
             s.awaitingTtsStop => s'.awaitingTtsStop \/ s'.state = "speaking"
      PROVE  Delivers
  <2> DEFINE f == [task[x] EXCEPT !.speech = v]
  <2>1. task' = [task EXCEPT ![x] = f] BY <1>5
  <2>2. f.pc = task[x].pc /\ f.gen = task[x].gen /\ f.arg = task[x].arg /\ f.speech = v
    BY <1>2 DEF Frames
  <2> HIDE DEF f
  <2>3. Sound(f) BY <2>2, <1>1, <1>4, <1>5 DEF Sound
  <2>4. ~Stale(x) => Fits(s', f) BY <2>2, <1>1, <1>4, <1>5 DEF Fits, Sound
  <2> QED BY <2>1, <2>2, <2>3, <2>4, <1>1, <1>3, <1>4, <1>5, GoesOnFarewell
<1>6. CASE FirstSentence(x)
  <2> DEFINE y == OpenSpeech(s)
  <2>1. s' = y /\ task' = [task EXCEPT ![x].speech = "open"] BY <1>3, <1>6 DEF FirstSentence, Speech, Await
  <2>2. s.awaitingTtsStop BY <1>4, <1>6 DEF FirstSentence, Fits
  <2>3. Same(s, y) /\ y.state = "speaking" /\ y.pendingMusic = s.pendingMusic
    BY <2>2, <1>2, OpenSame
  <2> HIDE DEF y
  <2> QED BY <2>1, <2>3, <1>5
<1>7. CASE StreamPacket(x)
  <2> DEFINE y == Put(s, "audio", s.gen)
             w == [y EXCEPT !.ttsPlayed = TRUE]
  <2>1. s' = w /\ task' = [task EXCEPT ![x].speech = "played"] BY <1>3, <1>7 DEF StreamPacket, Speech, Await
  <2>2. Same(s, y) /\ Alike(s, y) /\ Proper(y) BY <1>2, <1>4, PutSame, PutQuiet DEF FrameKinds
  <2> HIDE DEF y
  <2>3. /\ w.gen = y.gen /\ w.queue = y.queue /\ w.closed = y.closed
        /\ w.pendingMusic = y.pendingMusic
        /\ w.awaitingTtsStop = y.awaitingTtsStop /\ w.state = y.state /\ Held(y, w)
    BY <2>2 DEF Proper, Attributes, Held
  <2> HIDE DEF w
  <2>4. Same(s, w) BY <2>2, <2>3, SameQueue, SameTransitive
  <2> QED BY <2>1, <2>2, <2>3, <2>4, <1>5 DEF Alike
<1>8. CASE SpeechDone(x)
  <2> DEFINE y == CloseSpeech(s, task[x].gen)
  <2>1. /\ task' = [task EXCEPT ![x].speech = "done"]
        /\ s' = IF task[x].speech \in {"waiting", "deaf"} THEN s ELSE y
    BY <1>3, <1>8 DEF SpeechDone, Speech, Shut, Await, Ends
  <2>2. /\ Same(s, y) /\ y.state = s.state /\ y.pendingMusic = s.pendingMusic
        /\ s.awaitingTtsStop => y.awaitingTtsStop
    BY <1>2, <1>4, CloseSame
  <2>3. Same(s, s) BY SameQueue DEF Held
  <2> HIDE DEF y
  <2> QED BY <2>1, <2>2, <2>3, <1>5
<1>9. ~SpeechRaises(x) BY DEF SpeechRaises, HandsFree
<1> QED BY <1>6, <1>7, <1>8, <1>9 DEF SpeechStep

-----------------------------------------------------------------------------
\* The steps of a cancellation.

\* The session z as _cancel_turn finds or leaves it: nothing waits that the robot
\* would act on, and the turns that are alive are of earlier generations.
Clear(z) ==
    /\ Proper(z) /\ z.gen >= s.gen /\ ~z.closed /\ Past(z)
    /\ ~z.awaitingWake /\ ~z.swallow /\ ~z.ignored
    /\ ~Queued(z, "start") /\ ~Queued(z, "ended") /\ Tagged(z)
    /\ z.state = "listening" => z.pendingMusic = "none"
    /\ "music" \notin Replies => z.pendingMusic # "stream"

\* The receive loop has read all the robot has sent.
Heard ==
    /\ dev = "listening" /\ wire \notin {"start", "ended"} /\ ~Queued(s, "ended")
    /\ UNCHANGED <<wire, dev>> /\ up' = <<>>

LEMMA CutFarewell ==
  ASSUME SessionInv, FarewellInv, NEW f, Cuts("rx", f), Heard, Clear(s'),
         task["keepalive"].pc = "idle",
         \/ f.pc \in {"cancel_begin", "cancel_turn"} /\ f.arg = "start"
         \/ f.pc = "reset_start"
         \/ f.pc = "idle" /\ s'.state = "listening"
  PROVE  Delivers
<1>1. /\ "rx" \in Loops /\ Turns \cap Loops = {} /\ Loops \subseteq Tasks
      /\ {"companion", "sensor", "stopper", "closer", "keepalive"} \subseteq Loops \ {"rx"}
      /\ Turns \subseteq Tasks /\ task \in [Tasks -> Frames]
  BY TurnsAssumption DEF Tasks, Loops, SessionInv, TypeOK
<1>2. task'["rx"] = f /\ \A x \in Loops \ {"rx"} : task'[x] = task[x]
  BY <1>1 DEF Cuts
<1>3. ASSUME NEW u \in Turns
      PROVE  \/ task'[u] \in {task[u], Idle}
             \/ Live(u) /\ task'[u] = [task[u] EXCEPT !.pc = "unwind"]
  <2>1. u # "rx" BY <1>1
  <2> QED BY <2>1, <1>1 DEF Cuts
<1>4. ASSUME NEW u \in Turns
      PROVE  /\ Sound(task'[u]) /\ task'[u].gen =< s'.gen
             /\ task'[u].pc # "idle" => Live(u) /\ task'[u].gen = task[u].gen
  <2>1. /\ task[u] \in Frames /\ task[u].gen \in Nat /\ task[u].gen =< s.gen /\ s.gen \in Nat
        /\ s'.gen \in Nat /\ s'.gen >= s.gen /\ Sound(task[u])
    BY <1>1, Start DEF FarewellInv, CastInv, SessionInv, Frames, Clear, Proper, Attributes
  <2>2. task[u].gen =< s'.gen BY <2>1
  <2>3. CASE task'[u] = task[u] BY <2>1, <2>2, <2>3 DEF Live
  <2>4. CASE task'[u] = Idle BY <2>1, <2>4, IdleFrame DEF Sound
  <2>5. CASE Live(u) /\ task'[u] = [task[u] EXCEPT !.pc = "unwind"]
    <3>1. /\ task'[u].pc = "unwind" /\ task'[u].gen = task[u].gen
          /\ task'[u].speech = task[u].speech
      BY <2>1, <2>5 DEF Frames
    <3> QED BY <3>1, <2>1, <2>2, <2>5 DEF Sound
  <2> QED BY <1>3, <2>3, <2>4, <2>5
<1>5. ASSUME NEW u \in Turns, task'[u].pc # "idle" PROVE task'[u].gen # s'.gen
  <2>1. Live(u) /\ task'[u].gen = task[u].gen BY <1>4, <1>5
  <2>2. task[u].gen \in Nat BY <1>1 DEF Frames
  <2>3. task[u].gen < s'.gen BY <2>1 DEF Clear, Past
  <2> QED BY <2>1, <2>2, <2>3
<1>6. ~Awaiting' /\ Committed' BY <1>1, <1>2 DEF Awaiting, Committed, InCancel
<1>7. up' \in Seq({"start"}) BY DEF Heard
<1>8. CastInv'
  <2>1. \A u \in Turns : Live(u)' /\ ~Stale(u)' => FALSE BY <1>5 DEF Live, Stale
  <2>2. /\ \A x \in {"companion", "sensor", "stopper", "closer"} : task'[x].pc = "idle"
        /\ task'["keepalive"].pc = "idle"
    BY <1>1, <1>2 DEF FarewellInv, CastInv
  <2>3. wire' # "stopped" /\ ~s'.closed BY DEF FarewellInv, CastInv, Heard, Clear
  <2>4. /\ task'["rx"].pc \in {"idle", "cancel_begin", "cancel_turn", "reset_start", "await_brain"}
        /\ InCancel' => task'["rx"].arg = "start"
    BY <1>2 DEF InCancel
  <2>5. /\ "music" \notin Replies => s'.pendingMusic # "stream"
        /\ s'.state = "listening" => s'.pendingMusic = "none"
    BY DEF Clear
  <2> QED BY <2>1, <2>2, <2>3, <2>4, <2>5, <1>4, <1>6, <1>7 DEF CastInv
<1>9. PartingInv'
  <2>1. ~Pending("start")' /\ ~Pending("ended")' BY DEF Pending, Heard, Clear
  <2>2. Once("start")' /\ Once("ended")' BY <2>1 DEF Pending, Once, Single, Queued, Clear
  <2>3. Unheard' = 0
    <3>1. Len(up') = 0 BY DEF Heard
    <3> QED BY <3>1, <2>1 DEF Unheard, Heard
  <2>4. Allowed' = 0 BY <1>6 DEF Allowed
  <2> QED BY <2>1, <2>2, <2>3, <2>4 DEF PartingInv, Clear
<1> QED BY <1>8, <1>9 DEF FarewellInv, Delivers, Heard

\* A new generation: what is queued of earlier ones is not sent any more.
LEMMA BumpClears ==
  ASSUME NEW z, Proper(z), Tagged(z), ~Queued(z, "ended"),
         NEW y, y.queue = z.queue, y.gen \in Nat, y.gen > z.gen
  PROVE  ~Queued(y, "start") /\ ~Queued(y, "ended") /\ Tagged(y)
<1>1. ASSUME NEW i \in DOMAIN z.queue, Kept(z.queue[i], y.gen) PROVE FALSE
  <2>1. z.queue[i].gen =< z.gen /\ z.queue[i].gen \in Int /\ z.gen \in Nat
    BY GensAreIntegers DEF Proper, Bounded, Attributes
  <2>2. z.queue[i].gen = KeepaliveGeneration BY <1>1, <2>1 DEF Kept
  <2> QED BY <2>2 DEF Tagged, Queued, Kept
<1> QED BY <1>1 DEF Queued, Tagged

LEMMA LaterClear ==
  ASSUME SessionInv, NEW z, Clear(z), NEW y, Proper(y), y.closed = z.closed, Held(z, y),
         \/ y.gen = z.gen /\ y.queue \in {z.queue, <<>>}
         \/ y.gen > z.gen /\ y.queue = z.queue,
         y.pendingMusic \in {z.pendingMusic, "none"},
         y.state = "listening" => z.state = "listening" \/ y.pendingMusic = "none"
  PROVE  Clear(y)
<1>1. s.gen \in Nat /\ z.gen \in Nat /\ y.gen \in Nat /\ \A t \in Turns : task[t].gen \in Nat
  BY Start DEF SessionInv, Clear, Proper, Attributes, TypeOK, Frames, Tasks
<1>2. y.gen >= s.gen /\ Past(y) BY <1>1 DEF Clear, Past
<1>3. ~Queued(y, "start") /\ ~Queued(y, "ended") /\ Tagged(y)
  <2>1. CASE y.gen = z.gen /\ y.queue = z.queue BY <2>1 DEF Clear, Queued, Tagged
  <2>2. CASE y.queue = <<>> BY <2>2 DEF Queued, Tagged
  <2>3. CASE y.gen > z.gen /\ y.queue = z.queue BY <2>3, <1>1, BumpClears DEF Clear
  <2> QED BY <2>1, <2>2, <2>3
<1> QED BY <1>2, <1>3 DEF Clear, Held

LEMMA ListenOrResetFarewell ==
  ASSUME SessionInv, FarewellInv, NEW z, Clear(z), Heard, task["keepalive"].pc = "idle",
         ListenOrReset("rx", z)
  PROVE  Delivers
<1>1. CASE z.liveStale
  <2> DEFINE f == [Idle EXCEPT !.pc = "reset_start"]
  <2>1. s' = z /\ task' = [task EXCEPT !["rx"] = f] BY <1>1 DEF ListenOrReset
  <2>2. f.pc = "reset_start" BY CutFrames
  <2> HIDE DEF f
  <2>3. Cuts("rx", f) BY <2>1 DEF Cuts
  <2> QED BY <2>1, <2>2, <2>3, CutFarewell
<1>2. CASE ~z.liveStale
  <2> DEFINE y == Listen(z)
  <2>1. Proper(y) /\ y.gen = z.gen + 1 /\ y.closed = z.closed /\ y.queue = z.queue
        /\ y.pendingMusic = "none"
    BY ListenProper, CutCode DEF Clear
  <2>2. y.state = "listening" /\ Held(z, y) BY DEF Listen, Clear, Proper, Attributes, Held
  <2>3. s' = y /\ task' = [task EXCEPT !["rx"] = Idle] BY <1>2 DEF ListenOrReset
  <2> HIDE DEF y
  <2>4. y.gen > z.gen BY <2>1 DEF Clear, Proper, Attributes
  <2>5. Clear(y) BY <2>1, <2>2, <2>4, LaterClear
  <2>6. Cuts("rx", Idle) BY <2>3 DEF Cuts
  <2> QED BY <2>2, <2>3, <2>5, <2>6, CutFrames, CutFarewell
<1> QED BY <1>1, <1>2

LEMMA CancelRunningFarewell ==
  ASSUME SessionInv, FarewellInv, "overlap" \notin Inputs, NEW needs, NEW z, Clear(z), Heard,
         task["keepalive"].pc = "idle", z.turn = s.turn, CancelRunning("rx", "start", needs, z)
  PROVE  Delivers
<1>1. Proper(z) /\ z.turn \in Turns \cup {NoTurn} /\ z \in Attributes
  BY DEF Clear, Proper, Attributes
<1>2. CASE z.turn = NoTurn
  <2> DEFINE d == Drain(z)
  <2>1. Proper(d) /\ d.gen = z.gen /\ d.closed = z.closed /\ d.queue = <<>>
        /\ d.pendingMusic = z.pendingMusic /\ d.state = z.state
    BY <1>1, DrainProper, CutCode
  <2>2. Held(z, d) BY <1>1 DEF Drain, Attributes, Held
  <2>3. ListenOrReset("rx", d) BY <1>2 DEF CancelRunning, Continue
  <2> HIDE DEF d
  <2>4. Clear(d) BY <2>1, <2>2, LaterClear
  <2> QED BY <2>3, <2>4, ListenOrResetFarewell
<1>3. CASE z.turn # NoTurn
  <2> DEFINE t == z.turn
             ends == task[t].pc \in {"new", "reset"}
             g == IF ends THEN Idle ELSE [task[t] EXCEPT !.pc = "unwind"]
             f == [Frame("cancel_turn", 0, "none", "start") EXCEPT !.needs = needs, !.on = t]
             y == [z EXCEPT !.turn = NoTurn]
  <2>1. t \in Turns /\ t \in Tasks BY <1>1, <1>3 DEF Tasks
  <2>2. /\ s' = (IF ends THEN Free(z, t) ELSE z)
        /\ task' = [task EXCEPT ![t] = g, !["rx"] = f]
    BY <1>3 DEF CancelRunning
  <2>3. f.pc = "cancel_turn" /\ f.arg = "start" BY CutFrames
  <2> HIDE DEF f
  <2>4. Free(z, t) = y BY <1>1 DEF Free, Attributes
  <2>5. y \in Attributes /\ y.gen = z.gen /\ y.closed = z.closed /\ y.queue = z.queue
        /\ y.putters = z.putters
        /\ y.pendingMusic = z.pendingMusic /\ y.state = z.state /\ Held(z, y)
    BY <1>1 DEF Attributes, Held
  <2> HIDE DEF y
  <2>6. Proper(y) BY <1>1, <2>5 DEF Proper, Bounded
  <2>7. Clear(y) BY <2>5, <2>6, LaterClear
  <2>8. Clear(s') BY <2>2, <2>4, <2>7
  <2>9. Cuts("rx", f)
    <3>1. task[t] \in Frames BY <2>1 DEF SessionInv, TypeOK
    <3>2. g \in Frames
      <4>1. [task[t] EXCEPT !.pc = "unwind"] \in Frames BY <3>1, PcEdit DEF Pcs
      <4> QED BY <4>1, IdleMade
    <3>3. g = Idle \/ (Live(t) /\ g = [task[t] EXCEPT !.pc = "unwind"])
      BY <1>3 DEF SessionInv, Alone, TurnIsLive
    <3> HIDE DEF g, t
    <3> QED BY <2>1, <2>2, <3>2, <3>3 DEF Cuts
  <2> HIDE DEF t, ends, g
  <2> QED BY <2>3, <2>8, <2>9, CutFarewell
<1> QED BY <1>2, <1>3

LEMMA CancelTurnFarewell ==
  ASSUME SessionInv, FarewellInv, "overlap" \notin Inputs, NEW z, Proper(z), Heard,
         task["keepalive"].pc = "idle", z.turn = s.turn, z.gen = s.gen, ~z.closed,
         ~z.awaitingWake, ~z.swallow, ~z.ignored, Tagged(z), ~Queued(z, "ended"),
         CancelTurn("rx", "start", FALSE, z)
  PROVE  Delivers
<1> DEFINE h == CancelHead(z)
<1>1. /\ Proper(h) /\ h.gen = z.gen + 1 /\ h.turn = z.turn /\ h.closed = z.closed
      /\ h.queue = z.queue /\ h.pendingMusic = "none" /\ h.state = z.state
  BY HeadProper, CutCode
<1>2. Held(z, h) BY DEF CancelHead, Proper, Attributes, Held
<1>3. IF h.begin = "none" THEN CancelRunning("rx", "start", FALSE, h)
      ELSE /\ s' = [h EXCEPT !.begin = "cancelled"]
           /\ task' = [task EXCEPT !["rx"] =
                  [Frame("cancel_begin", 0, "none", "start") EXCEPT !.needs = FALSE]]
  BY DEF CancelTurn
<1> HIDE DEF h
<1>4. s.gen \in Nat /\ h.gen \in Nat /\ h.gen > s.gen BY <1>1, Start DEF SessionInv
<1>5. Clear(h)
  <2>1. \A t \in Turns : task[t].gen \in Nat /\ task[t].gen =< s.gen
    BY DEF SessionInv, TypeOK, Frames, Tasks, FarewellInv, CastInv
  <2>2. Past(h) BY <1>4, <2>1 DEF Past
  <2>3. ~Queued(h, "start") /\ ~Queued(h, "ended") /\ Tagged(h) BY <1>1, <1>4, BumpClears
  <2> QED BY <1>1, <1>2, <1>4, <2>2, <2>3 DEF Clear, Held
<1>6. CASE h.begin = "none" BY <1>1, <1>3, <1>5, <1>6, CancelRunningFarewell
<1>7. CASE h.begin # "none"
  <2> DEFINE b == [h EXCEPT !.begin = "cancelled"]
             f == [Frame("cancel_begin", 0, "none", "start") EXCEPT !.needs = FALSE]
  <2>1. s' = b /\ task' = [task EXCEPT !["rx"] = f] BY <1>3, <1>7
  <2>2. f.pc = "cancel_begin" /\ f.arg = "start" BY CutFrames
  <2>3. /\ Proper(b) /\ b.gen = h.gen /\ b.closed = h.closed /\ b.queue = h.queue
        /\ b.pendingMusic = h.pendingMusic /\ b.state = h.state
    BY <1>1, BeginCancelled, CutCode
  <2>4. Held(h, b) BY <1>1 DEF Proper, Attributes, Held
  <2> HIDE DEF f, b
  <2>5. Clear(b) BY <1>5, <2>3, <2>4, LaterClear
  <2>6. Cuts("rx", f) BY <2>1 DEF Cuts
  <2> QED BY <2>1, <2>2, <2>5, <2>6, CutFarewell
<1> QED BY <1>6, <1>7

\* While the session listens, or is about to, the robot has no more to say.
LEMMA CommittedQuiet ==
  ASSUME SessionInv, FarewellInv, Committed
  PROVE  /\ up = <<>> /\ dev = "listening" /\ wire \notin {"start", "ended"}
         /\ ~Queued(s, "start") /\ ~Queued(s, "ended") /\ Tagged(s)
         /\ ~s.awaitingWake /\ ~s.swallow /\ ~s.ignored
<1>1. up \in Seq({"start"}) /\ Len(up) \in Nat BY DEF FarewellInv, CastInv
<1>2. Unheard =< 0 BY DEF FarewellInv, PartingInv, Allowed
<1> DEFINE a == IF dev = "listening" THEN 0 ELSE 1
           b == IF Pending("start") THEN 1 ELSE 0
<1>0. Unheard = Len(up) + a + b /\ a \in Nat /\ b \in Nat BY DEF Unheard
<1>5. (a = 0 => dev = "listening") /\ (b = 0 => ~Pending("start")) OBVIOUS
<1> HIDE DEF a, b
<1>6. Len(up) = 0 /\ a = 0 /\ b = 0 BY <1>0, <1>1, <1>2
<1>3. Len(up) = 0 /\ dev = "listening" /\ ~Pending("start") BY <1>5, <1>6
<1>4. up = <<>> BY <1>1, <1>3
<1> QED BY <1>3, <1>4 DEF FarewellInv, PartingInv, Pending

LEMMA CancelStepFarewell ==
  ASSUME SessionInv, FarewellInv, "overlap" \notin Inputs, NEW c \in Cancellers, CancelStep(c)
  PROVE  Delivers
<1>1. /\ c = "rx" /\ InCancel /\ task["rx"].arg = "start" /\ UNCHANGED <<wire, dev, up>>
  BY DEF CancelStep, BeginGone, TurnGone, Cancellers, FarewellInv, CastInv, InCancel
<1>2. Proper(s) /\ s \in Attributes /\ s.gen \in Nat BY Start DEF SessionInv
<1>3. Heard /\ ~Queued(s, "start") /\ ~Queued(s, "ended") /\ Tagged(s)
      /\ ~s.awaitingWake /\ ~s.swallow /\ ~s.ignored
  BY <1>1, CommittedQuiet DEF Committed, Heard
<1>4. task["keepalive"].pc = "idle" BY <1>1 DEF SessionInv, Alone, Apart, InCancel
<1>5. Clear(s)
  <2>1. ASSUME NEW t \in Turns, Live(t) PROVE task[t].gen < s.gen
    <3>1. task[t].gen # s.gen BY <1>1, <2>1 DEF FarewellInv, CastInv, Stale
    <3>2. task[t].gen \in Nat /\ task[t].gen =< s.gen
      BY DEF SessionInv, TypeOK, Frames, Tasks, FarewellInv, CastInv
    <3> QED BY <3>1, <3>2, <1>2
  <2> QED BY <2>1, <1>2, <1>3 DEF Clear, Past, FarewellInv, CastInv
<1>6. CASE BeginGone(c)
  <2>1. CancelRunning("rx", "start", task["rx"].needs, s) BY <1>1, <1>6 DEF BeginGone
  <2> QED BY <2>1, <1>3, <1>4, <1>5, CancelRunningFarewell
<1>7. CASE TurnGone(c)
  <2> DEFINE y == [s EXCEPT !.turn = NoTurn]
             d == Drain(y)
  <2>1. /\ y \in Attributes /\ y.gen = s.gen /\ y.closed = s.closed /\ y.queue = s.queue
        /\ y.putters = s.putters
        /\ y.pendingMusic = s.pendingMusic /\ y.state = s.state /\ Held(s, y)
    BY <1>2 DEF Attributes, Held
  <2>2. ListenOrReset("rx", d) BY <1>1, <1>7 DEF TurnGone, Continue
  <2> HIDE DEF y
  <2>3. Proper(y) BY <2>1, <1>2 DEF Proper, Bounded
  <2>4. Proper(d) /\ d.gen = y.gen /\ d.closed = y.closed /\ d.queue = <<>>
        /\ d.pendingMusic = y.pendingMusic /\ d.state = y.state
    BY <2>1, <2>3, DrainProper, CutCode
  <2>5. Held(y, d) BY <2>1 DEF Drain, Attributes, Held
  <2> HIDE DEF d
  <2>6. Clear(d) BY <2>1, <2>3, <2>4, <2>5, <1>5, LaterClear DEF Held
  <2> QED BY <2>2, <2>6, <1>3, <1>4, ListenOrResetFarewell
<1> QED BY <1>6, <1>7 DEF CancelStep

LEMMA ResetFarewell ==
  ASSUME SessionInv, FarewellInv, "overlap" \notin Inputs, ResetDone("rx")
  PROVE  Delivers
<1>1. task["rx"].pc = "reset_start" /\ UNCHANGED <<wire, dev, up>>
  BY SpeakersAreTasks DEF ResetDone, SessionInv, Purposes
<1>2. Proper(s) /\ s \in Attributes /\ s.gen \in Nat BY Start DEF SessionInv
<1>3. PICK stale \in BOOLEAN : /\ s' = Listen([s EXCEPT !.liveStale = stale])
                               /\ task' = [task EXCEPT !["rx"] = Idle]
  BY <1>1, <1>2 DEF ResetDone, Attributes
<1>4. Heard /\ ~Queued(s, "start") /\ ~Queued(s, "ended") /\ Tagged(s)
      /\ ~s.awaitingWake /\ ~s.swallow /\ ~s.ignored
  BY <1>1, CommittedQuiet DEF Committed, Heard
<1>5. task["keepalive"].pc = "idle" /\ Deserted
  BY <1>1 DEF SessionInv, Alone, Apart, HeardAlone
<1>6. Clear(s)
  BY <1>2, <1>4, <1>5 DEF Clear, Past, Deserted, FarewellInv, CastInv
<1> DEFINE z == [s EXCEPT !.liveStale = stale]
           y == Listen(z)
<1>7. z \in Attributes /\ z.gen = s.gen /\ z.closed = s.closed /\ z.queue = s.queue
      /\ z.putters = s.putters
      /\ Held(s, z)
  BY <1>2 DEF Attributes, Held
<1>8. s' = y BY <1>3
<1> HIDE DEF z
<1>9. Proper(z) BY <1>2, <1>7 DEF Proper, Bounded
<1>10. /\ Proper(y) /\ y.gen = s.gen + 1 /\ y.closed = s.closed /\ y.queue = s.queue
       /\ y.pendingMusic = "none"
  BY <1>7, <1>9, ListenProper, CutCode
<1>11. y.state = "listening" /\ Held(s, y) BY <1>7 DEF Listen, Attributes, Held
<1> HIDE DEF y
<1>12. y.gen > s.gen BY <1>2, <1>10
<1>13. Clear(y) BY <1>6, <1>10, <1>11, <1>12, LaterClear
<1>14. Cuts("rx", Idle) BY <1>3 DEF Cuts
<1> QED BY <1>4, <1>5, <1>8, <1>11, <1>13, <1>14, IdleFrame, CutFarewell

-----------------------------------------------------------------------------
\* The end of an utterance.

\* The session z of a conversation that goes on: the robot will say once that it listens.
Carries(z) ==
    /\ ~z.awaitingWake /\ ~z.swallow /\ ~z.ignored
    /\ Tagged(z) /\ Single(z, "start") /\ ~Queued(z, "ended") /\ wire # "ended"
    /\ wire = "start" => ~Queued(z, "start")
    /\ Len(up) + (IF dev = "listening" THEN 0 ELSE 1)
               + (IF wire = "start" \/ Queued(z, "start") THEN 1 ELSE 0) =< 1

LEMMA CarriesParting ==
  ASSUME NEW z, Carries(z), s'.queue = z.queue, s'.gen = z.gen, Held(z, s'),
         UNCHANGED <<wire, dev, up>>, ~Committed'
  PROVE  PartingInv'
<1>1. /\ \A kind : /\ Queued(s', kind) <=> Queued(z, kind)
                   /\ Single(s', kind) <=> Single(z, kind)
      /\ Tagged(s')
  BY DEF Queued, Single, Tagged, Carries
<1>2. (Pending("start")' <=> wire = "start" \/ Queued(z, "start")) /\ ~Pending("ended")'
  BY <1>1 DEF Pending, Carries
<1>3. Single(z, "ended") BY DEF Single, Queued, Carries
<1>4. Once("start")' /\ Once("ended")' BY <1>1, <1>3 DEF Once, Carries
<1>5. ~s'.awaitingWake /\ ~s'.swallow /\ ~s'.ignored BY DEF Held, Carries
<1>6. Unheard' =< 1 BY <1>2 DEF Unheard, Carries
<1>7. Allowed' = 1 BY <1>2, <1>5 DEF Allowed
<1> QED BY <1>1, <1>2, <1>4, <1>5, <1>6, <1>7 DEF PartingInv

LEMMA StartTurnFarewell ==
  ASSUME SessionInv, FarewellInv, NEW c \in {"rx", "keepalive"}, NEW z, Proper(z), Carries(z),
         z.gen = s.gen, ~z.closed, z.pendingMusic = "none", z.awaitingTtsStop, Deserted,
         \A x \in {"rx", "keepalive"} \ {c} : task[x].pc = "idle",
         StartTurn(c, z), UNCHANGED <<wire, dev, up>>
  PROVE  FarewellInv'
<1> DEFINE t == NewTurn
           f == Frame("new", z.gen, "none", "none")
<1>1. /\ t \in Turns /\ s' = [z EXCEPT !.state = "thinking", !.turn = t]
      /\ task' = [task EXCEPT ![c] = Idle, ![t] = f]
  BY NewTurnIsATurn DEF StartTurn
<1> HIDE DEF t
<1>2. z \in Attributes /\ z.gen \in Nat BY DEF Proper, Attributes
<1>3. /\ s'.gen = s.gen /\ ~s'.closed /\ s'.pendingMusic = "none" /\ s'.awaitingTtsStop
      /\ s'.queue = z.queue /\ s'.state = "thinking" /\ Held(z, s')
  BY <1>1, <1>2 DEF Attributes, Held
<1>4. f.pc = "new" /\ f.gen = s.gen /\ f.speech = "none" BY DEF Frame
<1> HIDE DEF f
<1>5. /\ c \in Tasks \ Turns /\ Turns \subseteq Tasks /\ task \in [Tasks -> Frames]
      /\ {"companion", "sensor", "stopper", "closer", "rx", "keepalive"} \subseteq Tasks \ Turns
  BY TurnsAssumption DEF Tasks, Loops, SessionInv, TypeOK
<1>6. /\ task'[t] = f /\ task'["rx"].pc = "idle" /\ task'["keepalive"].pc = "idle"
      /\ \A u \in Turns \ {t} : task'[u] = task[u] /\ task'[u].pc = "idle"
      /\ \A x \in {"companion", "sensor", "stopper", "closer"} : task'[x] = task[x]
  <2>1. task'[t] = f BY <1>1, <1>5
  <2>2. task'["rx"].pc = "idle" /\ task'["keepalive"].pc = "idle" BY <1>1, <1>5, IdleFrame
  <2>3. \A u \in Turns \ {t} : task'[u] = task[u] BY <1>1, <1>5
  <2>4. \A x \in {"companion", "sensor", "stopper", "closer"} : task'[x] = task[x] BY <1>1, <1>5
  <2> QED BY <2>1, <2>2, <2>3, <2>4 DEF Deserted, Live
<1>7. ~InCancel' /\ ~Awaiting' /\ ~Committed' BY <1>3, <1>6 DEF InCancel, Awaiting, Committed
<1>8. CastInv'
  <2>1. Sound(f) /\ Fits(s', f) /\ f.gen =< s'.gen BY <1>2, <1>3, <1>4 DEF Sound, Fits
  <2>2. \A u \in Turns : task'[u].gen =< s'.gen /\ Sound(task'[u])
    BY <2>1, <1>3, <1>6 DEF FarewellInv, CastInv
  <2>3. \A u \in Turns : Live(u)' /\ ~Stale(u)' => ~InCancel' /\ Fits(s', task'[u])
    BY <2>1, <1>6, <1>7 DEF Live
  <2> QED BY <2>2, <2>3, <1>3, <1>6, <1>7 DEF FarewellInv, CastInv
<1>9. PartingInv' BY <1>3, <1>7, CarriesParting
<1> QED BY <1>8, <1>9 DEF FarewellInv

LEMMA StopListenFarewell ==
  ASSUME SessionInv, FarewellInv, NEW c \in {"rx", "keepalive"}, NEW z, Proper(z), Carries(z),
         z.gen = s.gen, ~z.closed, z.pendingMusic = "none", z.awaitingTtsStop,
         z.state = "listening", Deserted, task["rx"].pc = "idle", task["keepalive"].pc = "idle",
         NEW why, StopListen(c, z, why), UNCHANGED <<wire, dev, up>>
  PROVE  FarewellInv'
<1>1. CASE z.brainReady BY <1>1, StartTurnFarewell DEF StopListen
<1>2. CASE ~z.brainReady
  <2> DEFINE f == Frame("await_brain", 0, "none", why)
             b == [z EXCEPT !.begin = "running", !.beginGen = z.gen]
  <2>1. s' = (IF z.begin # "none" THEN z ELSE b) /\ task' = [task EXCEPT ![c] = f]
    BY <1>2 DEF StopListen
  <2>2. f.pc = "await_brain" BY DEF Frame
  <2> HIDE DEF f
  <2>3. b.gen = z.gen /\ b.closed = z.closed /\ b.queue = z.queue /\ b.state = z.state
        /\ b.pendingMusic = z.pendingMusic /\ b.awaitingTtsStop = z.awaitingTtsStop /\ Held(z, b)
    BY DEF Proper, Attributes, Held
  <2> HIDE DEF b
  <2>4. /\ s'.gen = s.gen /\ ~s'.closed /\ s'.queue = z.queue /\ s'.state = "listening"
        /\ s'.pendingMusic = "none" /\ s'.awaitingTtsStop /\ Held(z, s')
    BY <2>1, <2>3 DEF Held
  <2>5. c \in Tasks /\ {"rx", "keepalive"} \subseteq Tasks /\ task \in [Tasks -> Frames]
        /\ {"rx", "keepalive"} \cap (Turns \cup {"companion", "sensor", "stopper", "closer"}) = {}
        /\ Turns \cup {"companion", "sensor", "stopper", "closer"} \subseteq Tasks
    BY TurnsAssumption DEF Tasks, Loops, SessionInv, TypeOK
  <2>6. /\ \A x \in Turns \cup {"companion", "sensor", "stopper", "closer"} : task'[x] = task[x]
        /\ task'[c].pc = "await_brain"
        /\ \A x \in {"rx", "keepalive"} \ {c} : task'[x].pc = "idle"
    BY <2>1, <2>2, <2>5
  <2>7. ~InCancel' /\ Awaiting' /\ ~Committed' BY <2>6 DEF InCancel, Awaiting, Committed
  <2>8. \A u \in Turns : task'[u].pc = "idle" BY <2>6 DEF Deserted, Live
  <2>9. CastInv'
    <3>1. \A u \in Turns : task'[u].gen =< s'.gen /\ Sound(task'[u])
      BY <2>4, <2>6 DEF FarewellInv, CastInv
    <3>2. \A u \in Turns : ~Live(u)' BY <2>8 DEF Live
    <3>3. /\ task'["rx"].pc \in {"idle", "await_brain"}
          /\ task'["keepalive"].pc \in {"idle", "await_brain"}
      BY <2>6
    <3> QED BY <3>1, <3>2, <3>3, <2>4, <2>6, <2>7 DEF FarewellInv, CastInv
  <2>10. PartingInv' BY <2>4, <2>7, CarriesParting
  <2> QED BY <2>9, <2>10 DEF FarewellInv
<1> QED BY <1>1, <1>2

LEMMA UtteranceFarewell ==
  ASSUME SessionInv, FarewellInv, HandsFree, Endpoint \/ ListenIdle
  PROVE  Delivers
<1>1. Proper(s) /\ s.gen \in Nat BY Start DEF SessionInv
<1>2. /\ s.state = "listening" /\ ~s.closed
      /\ task["rx"].pc = "idle" /\ task["keepalive"].pc = "idle"
      /\ UNCHANGED <<wire, dev, up>>
  BY DEF Endpoint, ListenIdle, Receiving, Overlaps, HandsFree
<1>3. Deserted BY <1>2 DEF SessionInv, Alone, HeardAlone, HandsFree
<1>20. HasRoom
  <2>1. s.queue = <<>> BY <1>2, SoloTalks DEF SessionInv, Hushed
  <2>2. Len(s.queue) = 0 BY <2>1
  <2> QED BY <2>2, QueueSizeAssumption DEF HasRoom
<1>4. Committed BY <1>2 DEF Committed, Awaiting
<1>5. /\ up = <<>> /\ dev = "listening" /\ wire \notin {"start", "ended"}
      /\ ~Queued(s, "start") /\ ~Queued(s, "ended") /\ Tagged(s)
      /\ ~s.awaitingWake /\ ~s.swallow /\ ~s.ignored
  BY <1>4, CommittedQuiet
<1> DEFINE y == Put(s, "start", s.gen)
           z == [y EXCEPT !.awaitingTtsStop = TRUE]
<1>6. "start" \in FrameKinds BY DEF FrameKinds
<1>7. Single(s, "start") BY <1>5 DEF Single, Queued
<1>8. s.gen # KeepaliveGeneration BY <1>1 DEF KeepaliveGeneration
<1>9. /\ Alike(s, y) /\ Held(s, y)
      /\ \A k : /\ Queued(y, k) <=> Queued(s, k) \/ k = "start"
                /\ Single(s, k) /\ (k = "start" => ~Queued(s, k)) => Single(y, k)
      /\ ("start" = "ended" <=> s.gen = KeepaliveGeneration) /\ Tagged(s) => Tagged(y)
  BY <1>1, <1>2, <1>6, PutQueued
<1>10. Proper(y) BY <1>1, <1>6, PutQuiet
<1> HIDE DEF y
<1>11. z \in Attributes /\ z.gen = y.gen /\ z.closed = y.closed /\ z.queue = y.queue
       /\ z.putters = y.putters
       /\ z.state = y.state /\ z.pendingMusic = y.pendingMusic /\ z.awaitingTtsStop /\ Held(y, z)
  BY <1>10 DEF Proper, Attributes, Held
<1>12. PICK c \in {"rx", "keepalive"}, why \in Args : StopListen(c, z, why)
  <2>1. \A c, why : EndUtterance(c, why) <=> StopListen(c, z, why) BY DEF EndUtterance, y
  <2>2. "audio" \in Args /\ "idle" \in Args BY DEF Args
  <2> HIDE DEF z
  <2> QED BY <1>20, <2>1, <2>2 DEF Endpoint, ListenIdle, Interrupts
<1> HIDE DEF z
<1>13. Proper(z) BY <1>10, <1>11 DEF Proper, Bounded
<1>14. /\ Single(y, "start") /\ ~Queued(y, "ended") /\ Tagged(y) BY <1>5, <1>7, <1>8, <1>9
<1>15. Tagged(z) /\ Single(z, "start") /\ ~Queued(z, "ended")
  BY <1>11, <1>14 DEF Tagged, Single, Queued
<1>16. Len(up) = 0 BY <1>5
<1>17. Carries(z) BY <1>5, <1>9, <1>11, <1>15, <1>16 DEF Carries, Held
<1>18. s.pendingMusic = "none" BY <1>2 DEF FarewellInv, CastInv
<1>19. FarewellInv'
  BY <1>2, <1>3, <1>9, <1>11, <1>12, <1>13, <1>17, <1>18, StopListenFarewell DEF Alike
<1> QED BY <1>5, <1>19 DEF Delivers

LEMMA BrainAwaitedFarewell ==
  ASSUME SessionInv, FarewellInv, "overlap" \notin Inputs,
         NEW c \in {"rx", "keepalive"}, BrainAwaited(c)
  PROVE  Delivers
<1>1. Proper(s) BY Start DEF SessionInv
<1>2. task[c].pc = "await_brain" /\ StartTurn(c, s) /\ UNCHANGED <<wire, dev, up>>
  BY DEF BrainAwaited
<1>3. Deserted /\ \A x \in {"rx", "keepalive"} \ {c} : task[x].pc = "idle"
  BY <1>2 DEF SessionInv, Alone, Apart, HeardAlone
<1>4. Awaiting /\ ~Committed BY <1>2, <1>3 DEF Awaiting, Committed, InCancel
<1>5. s.awaitingTtsStop /\ s.pendingMusic = "none" /\ ~s.closed
  BY <1>4 DEF FarewellInv, CastInv
<1>6. ~s.awaitingWake /\ ~s.ignored /\ ~s.swallow /\ ~Pending("ended")
  BY <1>4 DEF FarewellInv, PartingInv
<1>7. Unheard =< 1 BY <1>4, <1>6 DEF FarewellInv, PartingInv, Allowed
<1>8. Carries(s)
  BY <1>6, <1>7 DEF Carries, FarewellInv, PartingInv, Once, Pending, Unheard
<1>9. FarewellInv' BY <1>1, <1>2, <1>3, <1>5, <1>8, StartTurnFarewell
<1> QED BY <1>6, <1>9 DEF Delivers, Pending

-----------------------------------------------------------------------------
\* The steps beside the turns.

LEMMA StillFarewell ==
  ASSUME FarewellInv, task' = task, s'.state = s.state, s'.gen = s.gen, s'.closed = s.closed,
         s'.pendingMusic = s.pendingMusic, s'.awaitingTtsStop = s.awaitingTtsStop,
         wire' # "stopped", up' \in Seq({"start"})
  PROVE  /\ CastInv'
         /\ (Committed' <=> Committed) /\ (Awaiting' <=> Awaiting) /\ (Talking' <=> Talking)
<1>1. (InCancel' <=> InCancel) /\ (Awaiting' <=> Awaiting) BY DEF InCancel, Awaiting
<1>2. (Committed' <=> Committed) /\ (Talking' <=> Talking)
  BY <1>1 DEF Committed, Talking, Live
<1>3. \A t \in Turns : Live(t)' /\ ~Stale(t)' => ~InCancel' /\ Fits(s', task'[t])
  BY <1>1 DEF FarewellInv, CastInv, Live, Stale, Fits
<1>4. CastInv' BY <1>1, <1>3 DEF FarewellInv, CastInv
<1> QED BY <1>1, <1>2, <1>4

\* What the robot has sent is one message for what it has been told.
LEMMA HeadIsStart ==
  ASSUME FarewellInv, up # <<>>
  PROVE  /\ Head(up) = "start" /\ Tail(up) \in Seq({"start"})
         /\ Len(up) \in Nat /\ Len(Tail(up)) = Len(up) - 1 /\ Len(up) >= 1
<1>1. up \in Seq({"start"}) BY DEF FarewellInv, CastInv
<1> QED BY <1>1

LEMMA RxFarewell ==
  ASSUME SessionInv, FarewellInv, "overlap" \notin Inputs, Rx
  PROVE  Delivers
<1>1. /\ Receiving /\ task["rx"].pc = "idle" /\ task["keepalive"].pc = "idle" /\ ~s.closed
      /\ UNCHANGED <<wire, dev>> /\ up # <<>> /\ up' = Tail(up)
  BY DEF Rx, OnListenStart, OnListenStop, OnListenDetect, OnAbort, Read, Receiving, Overlaps
<1>2. /\ Head(up) = "start" /\ up' \in Seq({"start"}) /\ Len(up) \in Nat
      /\ Len(up') = Len(up) - 1 /\ Len(up) >= 1
  BY <1>1, HeadIsStart
<1>3. OnListenStart /\ Read("start")
  BY <1>2 DEF Rx, OnListenStart, OnListenStop, OnListenDetect, OnAbort, Read
<1>4. Proper(s) /\ s \in Attributes /\ s.gen \in Nat BY Start DEF SessionInv
<1> DEFINE a == IF dev = "listening" THEN 0 ELSE 1
           b == IF Pending("start") THEN 1 ELSE 0
<1>5. Unheard = Len(up) + a + b /\ a \in {0, 1} /\ b \in {0, 1} BY DEF Unheard
<1>6. (a = 0 => dev = "listening") /\ (b = 0 => ~Pending("start")) OBVIOUS
<1>7. Unheard =< Allowed /\ PartingInv BY DEF FarewellInv, PartingInv
<1>8. ~Committed
  <2> SUFFICES ASSUME Committed PROVE FALSE OBVIOUS
  <2>1. up = <<>> BY CommittedQuiet
  <2> QED BY <2>1, <1>1
<1>9. wire' # "stopped" BY <1>1 DEF FarewellInv, CastInv
<1>10. ASSUME task' = task, s'.queue = s.queue, s'.gen = s.gen, s'.closed = s.closed,
              s'.state = s.state, s'.pendingMusic = s.pendingMusic,
              s'.awaitingTtsStop = s.awaitingTtsStop
       PROVE  /\ CastInv' /\ ~Committed' /\ (Awaiting' <=> Awaiting) /\ (Talking' <=> Talking)
              /\ Unheard' = Len(up) - 1 + a + b
              /\ \A kind : (Pending(kind)' <=> Pending(kind)) /\ (Once(kind)' <=> Once(kind))
              /\ Tagged(s') <=> Tagged(s)
              /\ Queued(s, "ended") => Queued(s', "ended")
  <2>1. /\ CastInv' /\ (Committed' <=> Committed)
        /\ (Awaiting' <=> Awaiting) /\ (Talking' <=> Talking)
    BY <1>2, <1>9, <1>10, StillFarewell
  <2>2. \A kind : (Pending(kind)' <=> Pending(kind)) /\ (Once(kind)' <=> Once(kind))
    BY <1>1, <1>10 DEF Pending, Once, Queued, Single
  <2>3. (Tagged(s') <=> Tagged(s)) /\ (Queued(s, "ended") => Queued(s', "ended"))
    BY <1>10 DEF Tagged, Queued
  <2>4. Unheard' = Len(up') + a + b BY <1>1, <2>2 DEF Unheard
  <2> QED BY <2>1, <2>2, <2>3, <2>4, <1>2, <1>8
<1> HIDE DEF a, b
<1>11. CASE s.awaitingWake /\ s' = [s EXCEPT !.ignored = TRUE] /\ UNCHANGED task
  <2>1. /\ s'.queue = s.queue /\ s'.gen = s.gen /\ s'.closed = s.closed /\ s'.state = s.state
        /\ s'.pendingMusic = s.pendingMusic /\ s'.awaitingTtsStop = s.awaitingTtsStop
        /\ s'.ignored /\ s'.awaitingWake = s.awaitingWake /\ s'.swallow = s.swallow
    BY <1>4, <1>11 DEF Attributes
  <2>2. /\ CastInv' /\ ~Committed' /\ (Awaiting' <=> Awaiting) /\ (Talking' <=> Talking)
        /\ Unheard' = Len(up) - 1 + a + b
        /\ \A kind : (Pending(kind)' <=> Pending(kind)) /\ (Once(kind)' <=> Once(kind))
        /\ Tagged(s') <=> Tagged(s)
        /\ Queued(s, "ended") => Queued(s', "ended")
    BY <1>10, <1>11, <2>1
  <2>3. Allowed = IF s.ignored THEN 0 ELSE 1 BY <1>8, <1>11 DEF Allowed
  <2>4. Allowed' = 0 BY <1>11, <2>1, <2>2 DEF Allowed
  <2>5. Unheard' =< 0 BY <1>2, <1>5, <1>7, <2>2, <2>3
  <2> QED BY <1>7, <1>8, <1>11, <2>1, <2>2, <2>4, <2>5 DEF FarewellInv, PartingInv, Delivers
<1>12. CASE ~s.awaitingWake /\ s.swallow /\ s' = [s EXCEPT !.swallow = FALSE] /\ UNCHANGED task
  <2>1. /\ s'.queue = s.queue /\ s'.gen = s.gen /\ s'.closed = s.closed /\ s'.state = s.state
        /\ s'.pendingMusic = s.pendingMusic /\ s'.awaitingTtsStop = s.awaitingTtsStop
        /\ s'.ignored = s.ignored /\ s'.awaitingWake = s.awaitingWake /\ ~s'.swallow
    BY <1>4, <1>12 DEF Attributes
  <2>2. /\ CastInv' /\ ~Committed' /\ (Awaiting' <=> Awaiting) /\ (Talking' <=> Talking)
        /\ Unheard' = Len(up) - 1 + a + b
        /\ \A kind : (Pending(kind)' <=> Pending(kind)) /\ (Once(kind)' <=> Once(kind))
        /\ Tagged(s') <=> Tagged(s)
        /\ Queued(s, "ended") => Queued(s', "ended")
    BY <1>10, <1>12, <2>1
  <2>3. Allowed = IF Pending("ended") THEN 1 ELSE 2 BY <1>8, <1>12 DEF Allowed
  <2>4. Allowed' = IF Pending("ended") THEN 0 ELSE 1 BY <1>12, <2>1, <2>2 DEF Allowed
  <2>5. Unheard' =< Allowed' BY <1>2, <1>5, <1>7, <2>2, <2>3, <2>4
  <2> QED BY <1>7, <1>8, <1>12, <2>1, <2>2, <2>5 DEF FarewellInv, PartingInv, Delivers
<1>13. CASE ~s.awaitingWake /\ ~s.swallow /\ CancelTurn("rx", "start", FALSE, ClearWake(s))
  <2>1. Allowed = IF Pending("ended") THEN 0 ELSE 1 BY <1>8, <1>13 DEF Allowed
  <2>2. ~Pending("ended") /\ Len(up') = 0 /\ a = 0 /\ b = 0
    BY <1>2, <1>5, <1>7, <2>1
  <2>3. up' = <<>> BY <1>2, <2>2
  <2>4. Heard BY <1>1, <1>6, <2>2, <2>3 DEF Heard, Pending
  <2>5. ~s.ignored /\ Tagged(s) /\ ~Queued(s, "ended") BY <1>7, <1>13, <2>2 DEF PartingInv, Pending
  <2> DEFINE z == ClearWake(s)
  <2>6. Proper(z) /\ z.turn = s.turn /\ z.gen = s.gen /\ z.closed = s.closed /\ z.queue = s.queue
    BY <1>4, ClearWakeQuiet, CutCode DEF Quiet
  <2>7. ~z.awaitingWake /\ ~z.swallow /\ ~z.ignored BY <1>4 DEF ClearWake, Attributes
  <2>8. CancelTurn("rx", "start", FALSE, z) BY <1>13
  <2> HIDE DEF z
  <2>9. Tagged(z) /\ ~Queued(z, "ended") BY <2>5, <2>6 DEF Tagged, Queued
  <2> QED BY <1>1, <2>4, <2>6, <2>7, <2>8, <2>9, CancelTurnFarewell
<1>14. ~Read("manual") BY <1>2 DEF Read
<1> QED BY <1>3, <1>11, <1>12, <1>13, <1>14 DEF OnListenStart

\* The writer takes a frame: what it keeps goes from the queue onto the wire.
LEMMA WriterFarewell ==
  ASSUME SessionInv, FarewellInv, WriterTakes
  PROVE  Delivers
<1> DEFINE F == Items
           q == s.queue
           e == Head(q)
           p == Tail(q)
<1>1. Proper(s) /\ s \in Attributes /\ s.gen \in Nat BY Start DEF SessionInv
<1>2. /\ wire = "idle" /\ q # <<>> /\ s' = [s EXCEPT !.queue = p] /\ UNCHANGED <<task, dev, up>>
      /\ wire' = IF Kept(e, s.gen) THEN e.kind ELSE "idle"
  BY DEF WriterTakes, Kept
<1>3. /\ s'.gen = s.gen /\ s'.closed = s.closed /\ s'.queue = p /\ s'.state = s.state
      /\ s'.pendingMusic = s.pendingMusic /\ s'.awaitingTtsStop = s.awaitingTtsStop
      /\ Held(s, s')
  BY <1>1, <1>2 DEF Attributes, Held
<1>4. q \in Seq(F) BY <1>1 DEF Attributes
<1>5. /\ Len(q) \in Nat /\ Len(q) >= 1 /\ DOMAIN q = 1 .. Len(q) /\ e = q[1] /\ e \in F
      /\ DOMAIN p = 1 .. Len(q) - 1 /\ \A i \in 1 .. Len(q) - 1 : p[i] = q[i + 1]
  <2> HIDE DEF F, q
  <2> QED BY <1>2, <1>4 DEF e, p
<1>6. e.kind \in FrameKinds BY <1>5 DEF Items
<1> HIDE DEF F, q, e, p
<1>7. /\ 1 \in DOMAIN q
      /\ \A i \in DOMAIN q : i = 1 \/ (i - 1 \in DOMAIN p /\ p[i - 1] = q[i])
      /\ \A i \in DOMAIN p : i + 1 \in DOMAIN q /\ p[i] = q[i + 1] /\ i + 1 # 1
  BY <1>5
<1>8. ASSUME NEW kind
      PROVE  /\ Queued(s, kind) <=> (e.kind = kind /\ Kept(e, s.gen)) \/ Queued(s', kind)
             /\ Single(s, kind) =>
                    Single(s', kind) /\ (e.kind = kind /\ Kept(e, s.gen) => ~Queued(s', kind))
  <2> DEFINE At(r, i) == r[i].kind = kind /\ Kept(r[i], s.gen)
  <2>1. /\ Queued(s, kind) <=> \E i \in DOMAIN q : At(q, i)
        /\ Queued(s', kind) <=> \E i \in DOMAIN p : At(p, i)
        /\ Single(s, kind) <=> \A i, j \in DOMAIN q : At(q, i) /\ At(q, j) => i = j
        /\ Single(s', kind) <=> \A i, j \in DOMAIN p : At(p, i) /\ At(p, j) => i = j
    BY <1>3 DEF Queued, Single, q
  <2>2. At(q, 1) <=> e.kind = kind /\ Kept(e, s.gen) BY <1>5
  <2>3. /\ \A i \in DOMAIN q : i # 1 /\ At(q, i) => i - 1 \in DOMAIN p /\ At(p, i - 1)
        /\ \A i \in DOMAIN p : At(p, i) => i + 1 \in DOMAIN q /\ At(q, i + 1) /\ i + 1 # 1
    BY <1>7
  <2>4. \A i, j \in DOMAIN p : i + 1 = j + 1 => i = j BY <1>5
  <2> HIDE DEF At
  <2>5. Queued(s, kind) <=> (e.kind = kind /\ Kept(e, s.gen)) \/ Queued(s', kind)
    BY <1>7, <2>1, <2>2, <2>3
  <2>6. ASSUME Single(s, kind) PROVE Single(s', kind)
    <3> SUFFICES ASSUME NEW i \in DOMAIN p, NEW j \in DOMAIN p, At(p, i), At(p, j) PROVE i = j
      BY <2>1
    <3>1. i + 1 = j + 1 BY <2>1, <2>3, <2>6
    <3> QED BY <3>1, <2>4
  <2>7. ASSUME Single(s, kind), e.kind = kind, Kept(e, s.gen) PROVE ~Queued(s', kind)
    <3> SUFFICES ASSUME NEW i \in DOMAIN p, At(p, i) PROVE FALSE BY <2>1
    <3>1. i + 1 = 1 /\ i + 1 # 1 BY <1>7, <2>1, <2>2, <2>3, <2>7
    <3> QED BY <3>1
  <2> QED BY <2>5, <2>6, <2>7
<1>9. Tagged(s) => Tagged(s') BY <1>3, <1>7 DEF Tagged, q
<1>10. ASSUME NEW kind \in {"start", "ended"}
       PROVE  (Pending(kind)' <=> Pending(kind)) /\ (Once(kind) => Once(kind)')
  <2>1. kind # "idle" BY <1>10
  <2>2. wire' = kind <=> e.kind = kind /\ Kept(e, s.gen) BY <1>2, <2>1
  <2> QED BY <1>2, <1>8, <2>1, <2>2 DEF Pending, Once
<1>11. wire' # "stopped" BY <1>2, <1>6 DEF FrameKinds
<1>12. up' \in Seq({"start"}) BY <1>2 DEF FarewellInv, CastInv
<1>13. /\ CastInv' /\ (Committed' <=> Committed) /\ (Awaiting' <=> Awaiting)
       /\ (Talking' <=> Talking)
  BY <1>2, <1>3, <1>11, <1>12, StillFarewell
<1>14. Unheard' = Unheard BY <1>2, <1>10 DEF Unheard
<1>15. Allowed' = Allowed BY <1>3, <1>10, <1>13 DEF Allowed, Held
<1>16. PartingInv' BY <1>3, <1>9, <1>10, <1>13, <1>14, <1>15 DEF FarewellInv, PartingInv, Held
<1> QED BY <1>2, <1>8, <1>13, <1>16 DEF FarewellInv, Delivers

LEMMA HoldFarewell ==
  ASSUME FarewellInv, task' = task, s'.state = s.state, s'.gen = s.gen, s'.closed = s.closed,
         s'.pendingMusic = s.pendingMusic, s'.awaitingTtsStop = s.awaitingTtsStop,
         s'.queue = s.queue, Held(s, s'), wire' # "stopped", up' \in Seq({"start"}),
         wire' = wire \/ wire' = "idle",
         \/ Unheard' =< Unheard /\ (Pending("ended")' <=> Pending("ended"))
         \/ wire = "ended" /\ wire' = "idle" /\ Unheard' =< Unheard + 1
  PROVE  Delivers
<1>1. /\ CastInv' /\ (Committed' <=> Committed) /\ (Awaiting' <=> Awaiting)
      /\ (Talking' <=> Talking)
  BY StillFarewell
<1>2. /\ \A kind : (Queued(s', kind) <=> Queued(s, kind)) /\ (Single(s', kind) <=> Single(s, kind))
      /\ Tagged(s') <=> Tagged(s)
  BY DEF Queued, Single, Tagged
<1>3. \A kind \in {"start", "ended"} :
          (Pending(kind)' => Pending(kind)) /\ (Once(kind) => Once(kind)')
  BY <1>2 DEF Pending, Once
<1>4. up \in Seq({"start"}) /\ Len(up) \in Nat /\ Len(up') \in Nat BY DEF FarewellInv, CastInv
<1>5. Unheard \in Int /\ Unheard' \in Int /\ Allowed \in Int /\ Allowed' \in Int
  BY <1>4 DEF Unheard, Allowed
<1>6. Unheard' =< Allowed'
  <2>1. CASE Unheard' =< Unheard /\ (Pending("ended")' <=> Pending("ended"))
    <3>1. Allowed' = Allowed BY <2>1, <1>1 DEF Allowed, Held
    <3> QED BY <2>1, <3>1, <1>5 DEF FarewellInv, PartingInv
  <2>2. CASE wire = "ended" /\ wire' = "idle" /\ Unheard' =< Unheard + 1
    <3>1. Pending("ended") /\ ~Pending("ended")'
      BY <2>2, <1>2 DEF Pending, FarewellInv, PartingInv, Once
    <3>2. ~Committed /\ ~s.awaitingWake BY <3>1 DEF FarewellInv, PartingInv
    <3>3. Allowed = (IF s.swallow THEN 1 ELSE 0) /\ Allowed' = (IF s.swallow THEN 2 ELSE 1)
      BY <3>1, <3>2, <1>1 DEF Allowed, Held
    <3>4. Unheard =< Allowed BY DEF FarewellInv, PartingInv
    <3> QED BY <2>2, <3>3, <3>4, <1>5
  <2> QED BY <2>1, <2>2
<1>7. PartingInv' BY <1>1, <1>2, <1>3, <1>6 DEF FarewellInv, PartingInv, Held
<1> QED BY <1>1, <1>2, <1>7 DEF FarewellInv, Delivers

\* The writer sends a frame, and the robot may answer a tts/stop by listening.
LEMMA SendsFarewell ==
  ASSUME SessionInv, FarewellInv, WriterSends
  PROVE  Delivers
<1>1. /\ wire \in FrameKinds /\ wire' = "idle" /\ Received(wire) /\ UNCHANGED <<s, task>>
  BY DEF WriterSends, FarewellInv, CastInv
<1>2. up \in Seq({"start"}) /\ Len(up) \in Nat BY DEF FarewellInv, CastInv
<1>3. Held(s, s') BY <1>1 DEF Held
<1> DEFINE a == IF dev = "listening" THEN 0 ELSE 1
           b == IF Pending("start") THEN 1 ELSE 0
<1>9. Unheard = Len(up) + a + b /\ a \in {0, 1} /\ b \in {0, 1} BY DEF Unheard
<1>4. \A kind : Queued(s', kind) <=> Queued(s, kind) BY <1>1
<1>5. CASE wire = "start"
  <2>1. dev' = "speaking" /\ up' = up BY <1>1, <1>5 DEF Received
  <2>2. Pending("start") /\ ~Pending("start")' /\ (Pending("ended")' <=> Pending("ended"))
    BY <1>1, <1>4, <1>5 DEF Pending, FarewellInv, PartingInv, Once
  <2>3. Unheard' =< Unheard BY <1>2, <2>1, <2>2 DEF Unheard
  <2> QED BY <1>1, <1>2, <1>3, <2>1, <2>2, <2>3, HoldFarewell
<1>6. CASE wire = "audio"
  <2>1. dev' = dev /\ up' = up BY <1>1, <1>6 DEF Received
  <2>2. \A kind \in {"start", "ended"} : Pending(kind)' <=> Pending(kind)
    BY <1>1, <1>4, <1>6 DEF Pending
  <2>3. Unheard' = Unheard BY <2>1, <2>2 DEF Unheard
  <2> HIDE DEF a, b
  <2>4. Unheard' =< Unheard BY <1>2, <1>9, <2>3
  <2> QED BY <1>1, <1>2, <1>3, <2>1, <2>2, <2>4, HoldFarewell
<1>7. CASE wire = "ended"
  <2>1. dev' = "idle" /\ up' = up BY <1>1, <1>7 DEF Received
  <2>2. Pending("start")' <=> Pending("start") BY <1>1, <1>4, <1>7 DEF Pending
  <2>3. Unheard' = Len(up) + 1 + b BY <2>1, <2>2 DEF Unheard
  <2> HIDE DEF a, b
  <2>4. Unheard' =< Unheard + 1 BY <1>2, <1>9, <2>3
  <2> QED BY <1>1, <1>2, <1>3, <1>7, <2>1, <2>4, HoldFarewell
<1>8. CASE wire = "stop"
  <2>1. \/ dev' = (IF dev = "speaking" THEN "idle" ELSE dev) /\ up' = up
        \/ dev = "speaking" /\ dev' = "listening" /\ up' = Append(up, "start")
    BY <1>1, <1>8 DEF Received
  <2>2. \A kind \in {"start", "ended"} : Pending(kind)' <=> Pending(kind)
    BY <1>1, <1>4, <1>8 DEF Pending
  <2>3. CASE dev' = (IF dev = "speaking" THEN "idle" ELSE dev) /\ up' = up
    <3>1. dev' = "listening" <=> dev = "listening" BY <2>3
    <3>2. Unheard' = Len(up) + a + b BY <2>2, <2>3, <3>1 DEF Unheard
    <3> HIDE DEF a, b
    <3>3. Unheard' =< Unheard BY <1>2, <1>9, <3>2
    <3> QED BY <1>1, <1>2, <1>3, <2>2, <2>3, <3>3, HoldFarewell
  <2>4. CASE dev = "speaking" /\ dev' = "listening" /\ up' = Append(up, "start")
    <3>1. up' \in Seq({"start"}) /\ Len(up') = Len(up) + 1 BY <1>2, <2>4
    <3>2. Unheard' =< Unheard BY <1>2, <2>2, <2>4, <3>1 DEF Unheard
    <3> QED BY <1>1, <1>3, <2>2, <3>1, <3>2, HoldFarewell
  <2> QED BY <2>1, <2>3, <2>4
<1> QED BY <1>1, <1>5, <1>6, <1>7, <1>8 DEF FrameKinds

LEMMA AsideFarewell ==
  ASSUME SessionInv, FarewellInv, HandsFree, HearSpeech \/ BeginDone \/ RobotActs \/ UNCHANGED vars
  PROVE  Delivers
<1>1. s \in Attributes BY Start DEF SessionInv
<1>2. up \in Seq({"start"}) /\ Len(up) \in Nat /\ wire # "stopped" BY DEF FarewellInv, CastInv
<1>3. /\ task' = task /\ s'.state = s.state /\ s'.gen = s.gen /\ s'.closed = s.closed
      /\ s'.pendingMusic = s.pendingMusic /\ s'.awaitingTtsStop = s.awaitingTtsStop
      /\ s'.queue = s.queue /\ Held(s, s') /\ wire' = wire
  <2>1. CASE HearSpeech BY <2>1, <1>1 DEF HearSpeech, Attributes, Held
  <2>2. CASE BeginDone BY <2>2, <1>1 DEF BeginDone, Attributes, Held
  <2>3. CASE RobotActs BY <2>3 DEF RobotActs, Presses, Held
  <2>4. CASE UNCHANGED vars BY <2>4 DEF vars, Held
  <2> QED BY <2>1, <2>2, <2>3, <2>4
<1>4. \/ dev' = dev /\ up' = up
      \/ dev = "idle" /\ dev' = "listening" /\ up' = up \o <<"start">>
  BY DEF HearSpeech, BeginDone, RobotActs, Presses, vars, Ask, HandsFree
<1>5. \A kind : Pending(kind)' <=> Pending(kind) BY <1>3 DEF Pending, Queued
<1>6. CASE dev' = dev /\ up' = up
  <2>1. Unheard' =< Unheard BY <1>2, <1>5, <1>6 DEF Unheard
  <2> QED BY <1>2, <1>3, <1>5, <1>6, <2>1, HoldFarewell
<1>7. CASE dev = "idle" /\ dev' = "listening" /\ up' = up \o <<"start">>
  <2>1. up' \in Seq({"start"}) /\ Len(up') = Len(up) + 1 BY <1>2, <1>7
  <2>2. Unheard' =< Unheard BY <1>2, <1>5, <1>7, <2>1 DEF Unheard
  <2> QED BY <1>2, <1>3, <1>5, <2>1, <2>2, HoldFarewell
<1> QED BY <1>4, <1>6, <1>7

\* The dashboard, the sensor and close() have no part in this.
LEMMA NothingElse ==
  ASSUME SessionInv, FarewellInv, HandsFree
  PROVE  ~CompanionNext /\ ~SensorNext /\ ~MotionStopped /\ ~PutResumes /\ (World => RobotActs)
<1>1. /\ task["companion"].pc = "idle" /\ task["sensor"].pc = "idle" /\ task["stopper"].pc = "idle"
  BY DEF FarewellInv, CastInv
<1>2. ~CompanionNext
  BY <1>1 DEF CompanionNext, ChatAnswers, ToolsDone, ChatDone, GatherStarts, ReactionStep,
              RobotSleeps, ResetDone
<1>3. ~SensorNext /\ ~MotionStopped BY <1>1 DEF SensorNext, PetAnswers, ReactionDone, MotionStopped
<1>4. ~Chat /\ ~Rps /\ ~Ttt /\ ~TttThink BY DEF Chat, Rps, Ttt, TttThink, Admit, Ask, HandsFree
<1>5. ~Sleep /\ ~StopButton /\ ~Pet /\ ~PickupOrFall /\ ~Close
  BY DEF Sleep, StopButton, Pet, PickupOrFall, Close, React, Ask, HandsFree
<1>6. ~PutResumes
  <2>1. s.putters = {} BY SoloTalks DEF SessionInv, Hushed
  <2> QED BY <2>1 DEF PutResumes
<1> QED BY <1>2, <1>3, <1>4, <1>5, <1>6 DEF World

LEMMA InitFarewell == Init => FarewellInv
<1> SUFFICES ASSUME Init PROVE FarewellInv OBVIOUS
<1>1. /\ s.state = "ready" /\ s.gen = 0 /\ s.pendingMusic = "none" /\ s.queue = <<>>
      /\ ~s.closed /\ ~s.awaitingWake /\ ~s.swallow /\ ~s.ignored
      /\ wire = "idle" /\ dev = "idle" /\ up = <<>>
  BY DEF Init
<1>2. \A x \in Tasks : task[x].pc = "idle" /\ task[x].gen = 0 /\ task[x].speech = "none"
  BY IdleFrame DEF Init
<1>3. Turns \subseteq Tasks /\ Loops \subseteq Tasks
      /\ {"companion", "sensor", "stopper", "closer", "rx", "keepalive"} \subseteq Tasks
  BY DEF Tasks, Loops
<1>4. ~InCancel /\ ~Awaiting /\ ~Committed /\ ~Talking
  BY <1>1, <1>2, <1>3 DEF InCancel, Awaiting, Committed, Talking, Live
<1>5. CastInv
  <2>1. \A t \in Turns : task[t].gen =< s.gen /\ Sound(task[t]) /\ ~Live(t)
    BY <1>1, <1>2, <1>3 DEF Sound, Live
  <2> QED BY <2>1, <1>1, <1>2, <1>3, <1>4 DEF CastInv
<1>6. PartingInv
  <2>1. /\ \A kind : ~Queued(s, kind) /\ Single(s, kind)
        /\ Tagged(s)
    BY <1>1 DEF Queued, Single, Tagged
  <2>2. ~Pending("start") /\ ~Pending("ended") BY <1>1, <2>1 DEF Pending
  <2>3. Once("start") /\ Once("ended") BY <2>1 DEF Once
  <2>4. Unheard = 1 /\ Allowed = 1 BY <1>1, <1>4, <2>2 DEF Unheard, Allowed
  <2> QED BY <2>1, <2>2, <2>3, <2>4, <1>1, <1>4 DEF PartingInv
<1> QED BY <1>5, <1>6 DEF FarewellInv

LEMMA StepFarewell ==
  ASSUME HandsFree, SessionInv, FarewellInv, [Next]_vars
  PROVE  Delivers
<1>1. "overlap" \notin Inputs BY DEF HandsFree
<1>2. CASE Rx BY <1>1, <1>2, RxFarewell
<1>3. CASE HearSpeech \/ BeginDone \/ RobotActs \/ UNCHANGED vars BY <1>3, AsideFarewell
<1>4. CASE WriterTakes BY <1>4, WriterFarewell
<1>5. CASE WriterSends BY <1>5, SendsFarewell
<1>6. CASE Endpoint \/ ListenIdle BY <1>6, UtteranceFarewell
<1>7. CASE ResetDone("rx") BY <1>1, <1>7, ResetFarewell
<1>8. CASE BrainAwaited("rx") \/ BrainAwaited("keepalive") BY <1>1, <1>8, BrainAwaitedFarewell
<1>9. CASE \E c \in Cancellers : CancelStep(c) BY <1>1, <1>9, CancelStepFarewell
<1>10. CASE \E x \in Speakers : SpeechStep(x) BY <1>10, SpeechFarewell
<1>11. CASE \E t \in Turns : TurnNext(t) BY <1>11, TurnNextFarewell
<1> QED BY <1>2, <1>3, <1>4, <1>5, <1>6, <1>7, <1>8, <1>9, <1>10, <1>11, NothingElse DEF Next

\* In a conversation by voice alone the frame that ends it is sent once it is queued:
\* _notify_device_idle's frame outlives its generation, and only _cancel_turn could
\* drain it, which a late auto-continue would reach if it were taken for a wake; each
\* one is ignored, swallowed, or not sent before the frame is gone.
THEOREM TheGoodbyeArrives ==
  ASSUME HandsFree
  PROVE  Spec => GoodbyeIsDelivered
<1>1. ASSUME NEW z, Tagged(z) PROVE Goodbye(z) <=> Queued(z, "ended")
  BY <1>1 DEF Tagged, Goodbye, Queued, Kept
<1>2. SessionInv /\ FarewellInv /\ [Next]_vars => FarewellInv' BY StepFarewell DEF Delivers
<1>3. SessionInv /\ FarewellInv /\ [Next]_vars
          => [Goodbye(s) /\ ~Goodbye(s') => wire' = "ended"]_vars
  <2> SUFFICES ASSUME SessionInv, FarewellInv, Next, Goodbye(s), ~Goodbye(s')
               PROVE  wire' = "ended"
    OBVIOUS
  <2>1. Delivers BY StepFarewell
  <2>2. Tagged(s) /\ Tagged(s') BY <2>1 DEF Delivers, FarewellInv, PartingInv
  <2>3. Queued(s, "ended") /\ ~Queued(s', "ended") BY <1>1, <2>2
  <2> QED BY <2>1, <2>3 DEF Delivers
<1> QED BY <1>2, <1>3, InitFarewell, SessionCorrect, PTL DEF Spec, GoodbyeIsDelivered
=============================================================================
