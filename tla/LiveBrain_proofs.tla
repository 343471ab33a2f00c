--------------------------- MODULE LiveBrain_proofs ---------------------------
(***************************************************************************)
(* The Live session of a robot, for any coroutines running together and    *)
(* any number of sockets, turns and resets: no connection is forgotten, a  *)
(* turn that waits has somebody reading, and a reset is a cut.             *)
(***************************************************************************)
EXTENDS LiveBrain, TLAPS

Thens == {"none", "begin", "again", "text", "warm", "read", "recover", "retry", "over", "reset"}

Co == [pc : Pcs, then : Thens, back : {"idle", "finish", "start", "receive"}, has : Int, own : Nat,
       reads : Int, mid : BOOLEAN, stray : BOOLEAN]

Brain == [cancelled : BOOLEAN, streaming : BOOLEAN, started : BOOLEAN, turn : Nat, turns : Nat,
          queue : Nat, shut : BOOLEAN, failed : BOOLEAN, done : BOOLEAN, talk : Nat, since : Nat,
          orphan : BOOLEAN]

LiveTypes ==
    /\ opened \in Nat /\ socket \in 0..opened /\ wire \subseteq 1..opened
    /\ holder \in Coroutines \cup {"none"}
    /\ co \in [Coroutines -> Co] /\ brain \in Brain
    /\ owes \subseteq [on : 1..opened, turn : Nat, talk : Nat]

\* Where c is when it neither opens nor closes ...
Rests(c) ==
    CASE c = "voice" -> {"away", "idle", "stream", "wait"}
      [] c = "mic" -> {"away", "idle"}
      [] c = "text" -> {"away", "idle", "wait", "finish", "hear"}
      [] c = "warm" -> {"away", "idle"}
      [] c = "rx" -> {"idle", "start", "receive"}

\* ... what it opens the socket for ...
Opening(c) ==
    CASE c = "voice" -> {"begin", "again", "recover"}
      [] c = "mic" -> {"recover"}
      [] c = "text" -> {"text", "recover"}
      [] c = "warm" -> {"warm"}
      [] c = "rx" -> {"read", "recover"}

\* ... what it closes it for ...
Closing(c) ==
    CASE c = "voice" -> {"again", "recover", "retry"}
      [] c = "mic" -> {"recover", "retry"}
      [] c = "text" -> {"recover", "retry"}
      [] c = "warm" -> {"reset", "over"}
      [] c = "rx" -> {"recover", "retry", "over"}

\* ... and where it goes on after a recovery.
Resumes(c) ==
    CASE c = "voice" -> {"idle"}
      [] c = "mic" -> {"idle"}
      [] c = "text" -> {"finish"}
      [] c = "warm" -> {}
      [] c = "rx" -> {"start", "receive"}

\* A coroutine is where its code can be: x is co[c].
Fits(c, x) ==
    /\ x.pc \in Rests(c) \cup {"ensure", "connect", "close", "exit"}
    /\ x.pc \in {"ensure", "connect"} => x.then \in Opening(c)
    /\ x.pc \in {"close", "exit"} => x.then \in Closing(c)
    /\ x.pc \notin Rests(c) /\ x.then \in {"recover", "retry"} => x.back \in Resumes(c)

Placed == LiveTypes /\ \A c \in Coroutines : Fits(c, co[c])

Starting == [Idle EXCEPT !.pc = "start"]

\* The receive loop is started, if it is over.
Restarted == co'["rx"] = IF co["rx"].pc = "idle" THEN Starting ELSE co["rx"]

\* Whoever connects has _lock, and finds no socket in use.
SocketInv ==
    /\ \A c \in Coroutines : co[c].pc = "connect" <=> holder = c
    /\ holder # "none" => socket = 0
    /\ OneSocket

\* While the voice streams or waits for the turn of the moment the receive loop runs, unless
\* that is over, or was found in its last close.
ReadInv ==
    /\ co["voice"].pc \notin {"away", "idle"} => ~brain.cancelled
    /\ co["voice"].own <= brain.turns /\ brain.turn <= brain.turns
    /\ /\ co["voice"].pc = "stream" \/ (co["voice"].pc = "wait" /\ co["voice"].own = brain.turn)
       /\ ~brain.done /\ ~brain.orphan
       => co["rx"].pc # "idle" /\ ~Orphaned

\* The conversation is being reset: its socket is still in use, or being closed.
Cutting == co["warm"].pc = "close" /\ co["warm"].then = "reset" /\ brain.talk > 0
Resetting == co["warm"].pc \in {"close", "exit"} /\ co["warm"].then = "reset" /\ brain.talk > 0

\* What Gemini owes on the socket s is of the conversation and the turn of the moment.
Current(s) == \A o \in owes : o.on = s => o.talk = brain.talk /\ brain.since = brain.talk

\* Only while it is cut off does the socket in use owe an answer of the conversation before;
\* the loop does not read then, and never reads from such a socket after.
CutInv ==
    /\ heard[1] = heard[2]
    /\ brain.since <= brain.talk /\ \A o \in owes : o.talk <= brain.talk
    /\ co["voice"].pc \notin {"away", "idle"} => brain.since = brain.talk
    /\ Resetting => brain.cancelled /\ co["rx"].pc \in {"idle", "start"}
    /\ Cutting \/ Current(socket)
    /\ co["rx"].pc = "receive" => Current(co["rx"].has)

LiveInv == Placed /\ SocketInv /\ ReadInv /\ CutInv

-----------------------------------------------------------------------------
(* The operators. *)

LEMMA BrainOps ==
  ASSUME NEW b \in Brain
  PROVE  /\ Done(b) \in Brain /\ Failing(b) \in Brain /\ NewTurn(b) \in Brain /\ NewQueue(b) \in Brain
         /\ Cancelled(b) \in Brain /\ FinishSpeakable(b) \in Brain
<1>1. Done(b) \in Brain
  BY DEF Brain, Done
<1>2. Failing(b) \in Brain
  BY DEF Brain, Done, Failing
<1>3. b.turns \in Nat /\ b.turns + 1 \in Nat /\ b.talk \in Nat
  BY DEF Brain
<1>4. NewTurn(b) \in Brain
  BY <1>3 DEF Brain, NewTurn
<1>5. NewQueue(b) \in Brain
  BY <1>3, <1>4 DEF Brain, NewQueue
<1>6. Cancelled(b) \in Brain
  BY DEF Brain, Done, Cancelled
<1>7. FinishSpeakable(b) \in Brain
  BY DEF Brain, FinishSpeakable
<1> QED BY <1>1, <1>2, <1>4, <1>5, <1>6, <1>7

\* What the invariants look at in a brain: b2 differs from b in nothing of it but done.
SameTurn(b, b2) ==
    /\ b2.cancelled = b.cancelled /\ b2.turn = b.turn /\ b2.turns = b.turns
    /\ b2.talk = b.talk /\ b2.since = b.since /\ b2.orphan = b.orphan

\* b2 is b in a turn of its own.
NextTurn(b, b2) ==
    /\ b2.cancelled = b.cancelled /\ b2.talk = b.talk /\ b2.since = b.talk
    /\ b2.turns = b.turns + 1 /\ b2.turn = b.turns + 1 /\ b2.done = FALSE

LEMMA TurnOps ==
  ASSUME NEW b \in Brain
  PROVE  /\ SameTurn(b, Done(b)) /\ Done(b).done
         /\ SameTurn(b, Failing(b)) /\ Failing(b).done
         /\ SameTurn(b, FinishSpeakable(b)) /\ FinishSpeakable(b).done = b.done
         /\ NextTurn(b, NewTurn(b)) /\ NextTurn(b, NewQueue(b))
         /\ Cancelled(b).cancelled /\ Cancelled(b).talk = b.talk /\ Cancelled(b).since = b.since
         /\ Cancelled(b).turn = b.turn /\ Cancelled(b).turns = b.turns
<1>1. SameTurn(b, Done(b)) /\ Done(b).done /\ SameTurn(b, Failing(b)) /\ Failing(b).done
  BY DEF Brain, Done, Failing, SameTurn
<1>2. SameTurn(b, FinishSpeakable(b)) /\ FinishSpeakable(b).done = b.done
  BY DEF Brain, FinishSpeakable, SameTurn
<1>3. NextTurn(b, NewTurn(b)) /\ NextTurn(b, NewQueue(b))
  BY DEF Brain, NewTurn, NewQueue, NextTurn
<1>4. /\ Cancelled(b).cancelled /\ Cancelled(b).talk = b.talk /\ Cancelled(b).since = b.since
      /\ Cancelled(b).turn = b.turn /\ Cancelled(b).turns = b.turns
  BY DEF Brain, Done, Cancelled
<1> QED BY <1>1, <1>2, <1>3, <1>4

LEMMA CoOps ==
  /\ Idle \in Co /\ Starting \in Co
  /\ Idle.pc = "idle" /\ Idle.own = 0 /\ Starting.pc = "start" /\ Starting.then = "none" /\ Starting.own = 0
  /\ Idle.then = "none"
<1>1. /\ Idle \in Co /\ Idle.pc = "idle" /\ Idle.own = 0 /\ Idle.then = "none"
  BY DEF Co, Idle, Pcs, Thens
<1>2. /\ Starting \in Co /\ Starting.pc = "start" /\ Starting.then = "none" /\ Starting.own = 0
  BY <1>1 DEF Co, Starting, Pcs, Idle
<1> QED BY <1>1, <1>2

\* A coroutine that goes somewhere, with a socket or a turn; and one whose wish is fulfilled.
Goes(x, pc, has) == [x EXCEPT !.pc = pc, !.has = has]
Waits(x, pc, own, has, reads) == [x EXCEPT !.pc = pc, !.own = own, !.has = has, !.reads = reads]
Wishes(x, has, then, back) == [x EXCEPT !.has = has, !.then = then, !.back = back]

LEMMA GoesIsCo ==
  ASSUME NEW x \in Co, NEW pc \in Pcs, NEW has \in Int
  PROVE  /\ Goes(x, pc, has) \in Co /\ Goes(x, pc, has).pc = pc /\ Goes(x, pc, has).has = has
         /\ Goes(x, pc, has).own = x.own
  BY DEF Co, Goes

LEMMA WaitsIsCo ==
  ASSUME NEW x \in Co, NEW pc \in Pcs, NEW own \in Nat, NEW has \in Int, NEW reads \in Int
  PROVE  /\ Waits(x, pc, own, has, reads) \in Co /\ Waits(x, pc, own, has, reads).pc = pc
         /\ Waits(x, pc, own, has, reads).own = own
  BY DEF Co, Waits

LEMMA WishesIsCo ==
  ASSUME NEW x \in Co, NEW has \in Int, NEW then \in Thens,
         NEW back \in {"idle", "finish", "start", "receive"}
  PROVE  /\ Wishes(x, has, then, back) \in Co /\ Wishes(x, has, then, back).pc = x.pc
         /\ Wishes(x, has, then, back).own = x.own
  BY DEF Co, Wishes

LEMMA StartLoopDoes ==
  ASSUME NEW k \in [Coroutines -> Co]
  PROVE  /\ StartLoop(k) \in [Coroutines -> Co]
         /\ \A d \in Coroutines \ {"rx"} : StartLoop(k)[d] = k[d]
         /\ StartLoop(k)["rx"] = IF k["rx"].pc = "idle" THEN Starting ELSE k["rx"]
  BY CoOps DEF StartLoop, Starting, Coroutines

LEMMA FitsIdle == \A c \in Coroutines : Fits(c, Idle)
  BY CoOps DEF Fits, Coroutines, Rests

LEMMA FitsStarting == Fits("rx", Starting)
  BY CoOps DEF Fits, Rests

-----------------------------------------------------------------------------
(* What a step does, as far as the invariants see it. *)

\* Nobody but c and the receive loop is disturbed.
OnlyFor(c) == \A d \in Coroutines \ {c, "rx"} : co'[d] = co[d]

\* A turn of its own asks Gemini on the socket s.
AsksInTurn(s) ==
    /\ NextTurn(brain, brain') /\ brain'.orphan = Orphaned
    /\ owes' = owes \cup {[on |-> s, turn |-> brain'.turn, talk |-> brain'.since]}

LEMMA InjectsDoes ==
  ASSUME Placed, NEW k \in [Coroutines -> Co], NEW s \in Nat, Injects(k, s),
         \A d \in Coroutines \ {"text"} : k[d] = co[d]
  PROVE  /\ co' \in [Coroutines -> Co] /\ brain' \in Brain
         /\ OnlyFor("text") /\ Restarted /\ co'["text"].pc = "wait" /\ AsksInTurn(s)
<1> DEFINE b0 == [brain EXCEPT !.streaming = FALSE, !.started = FALSE]
           b == NewQueue(b0)
           x == [k["text"] EXCEPT !.pc = "wait", !.own = b.turn, !.has = s,
                                  !.reads = IF k["text"].stray THEN @ ELSE b.queue]
           k2 == [k EXCEPT !["text"] = x]
<1>1. b0 \in Brain /\ SameTurn(brain, b0)
  BY DEF Placed, LiveTypes, Brain, SameTurn
<1> HIDE DEF b0
<1>2. b \in Brain /\ NextTurn(b0, b)
  BY <1>1, BrainOps, TurnOps
<1>3. /\ co' = StartLoop([k EXCEPT !["text"].pc = "wait", !["text"].own = b.turn, !["text"].has = s,
                              !["text"].reads = IF k["text"].stray THEN @ ELSE b.queue])
      /\ brain' = [b EXCEPT !.orphan = Orphaned]
      /\ owes' = owes \cup {[on |-> s, turn |-> b.turn, talk |-> b.since]}
  BY DEF Injects, b0
<1>4. b.turn \in Nat /\ b.queue \in Nat
  BY <1>2 DEF Brain
<1> HIDE DEF b
<1>5. "text" \in Coroutines /\ "rx" \in Coroutines /\ k["text"] \in Co
  BY DEF Coroutines
<1>6. x \in Co /\ x.pc = "wait"
  <2> DEFINE reads == IF k["text"].stray THEN k["text"].reads ELSE b.queue
  <2>1. "wait" \in Pcs /\ s \in Int /\ reads \in Int
    BY <1>4, <1>5 DEF Co, Pcs
  <2>2. x = Waits(k["text"], "wait", b.turn, s, reads)
    BY DEF Waits
  <2> HIDE DEF x, reads
  <2> QED BY <1>4, <1>5, <2>1, <2>2, WaitsIsCo
<1>7. co' = StartLoop(k2)
  <2>1. [k EXCEPT !["text"].pc = "wait", !["text"].own = b.turn, !["text"].has = s,
                  !["text"].reads = IF k["text"].stray THEN @ ELSE b.queue] = k2
    BY <1>4, <1>5 DEF Co
  <2> QED BY <1>3, <2>1
<1> HIDE DEF x
<1>8. k2 \in [Coroutines -> Co] /\ k2["text"] = x /\ \A d \in Coroutines \ {"text"} : k2[d] = co[d]
  BY <1>5, <1>6
<1> HIDE DEF k2
<1>9. /\ co' \in [Coroutines -> Co] /\ OnlyFor("text") /\ Restarted /\ co'["text"].pc = "wait"
  BY <1>5, <1>6, <1>7, <1>8, StartLoopDoes DEF OnlyFor, Restarted
<1>10. brain' \in Brain /\ SameTurn(b, [brain' EXCEPT !.orphan = b.orphan]) /\ brain'.done = b.done
       /\ brain'.orphan = Orphaned
  BY <1>2, <1>3 DEF Brain, SameTurn, Orphaned
<1>11. NextTurn(brain, brain') /\ brain'.turn = b.turn /\ brain'.since = b.since
  BY <1>1, <1>2, <1>10 DEF NextTurn, SameTurn, Brain
<1> QED BY <1>3, <1>9, <1>10, <1>11 DEF AsksInTurn

\* c, which has the socket s, goes on: the voice streams, the text asks, the loop reads, or
\* whoever it is has recovered.
GoesOn(c, s) ==
    \/ /\ c = "voice" /\ co'[c].pc = "stream" /\ co'[c].own = co[c].own
       /\ Restarted /\ owes' = owes /\ brain' = [brain EXCEPT !.orphan = Orphaned]
    \/ c = "text" /\ co'[c].pc = "wait" /\ Restarted /\ AsksInTurn(s)
    \/ /\ c # "rx" /\ co'[c].pc \in {"idle", "finish"} /\ co'[c].own \in {0, co[c].own}
       /\ Restarted /\ UNCHANGED <<brain, owes>>
    \/ c = "rx" /\ co'[c].pc \in {"start", "receive"} /\ co'[c].has \in {s, -1} /\ UNCHANGED <<brain, owes>>

LEMMA ConnectedDoes ==
  ASSUME Placed, NEW c \in Coroutines, NEW s \in Nat, co[c].pc \in {"ensure", "connect"},
         Connected(c, s)
  PROVE  /\ co' \in [Coroutines -> Co] /\ brain' \in Brain /\ OnlyFor(c) /\ Fits(c, co'[c])
         /\ GoesOn(c, s) /\ (Restarted \/ c = "rx")
<1> DEFINE k == [co EXCEPT ![c].has = 0, ![c].then = "none", ![c].back = "idle"]
           y == [co[c] EXCEPT !.has = 0, !.then = "none", !.back = "idle"]
<1>1. /\ co \in [Coroutines -> Co] /\ brain \in Brain /\ co[c] \in Co /\ Fits(c, co[c])
      /\ co[c].then \in Opening(c) /\ "rx" \in Coroutines
  <2>1. co[c].then \in Opening(c)
    BY DEF Placed, Fits
  <2> QED BY <2>1 DEF Placed, LiveTypes, Coroutines
<1>2. y \in Co /\ y.pc = co[c].pc /\ y.own = co[c].own
  <2>1. "none" \in Thens /\ 0 \in Int
    BY DEF Thens
  <2>2. y = Wishes(co[c], 0, "none", "idle")
    BY DEF Wishes
  <2> HIDE DEF y
  <2> QED BY <1>1, <2>1, <2>2, WishesIsCo
<1>3. k = [co EXCEPT ![c] = y]
  BY <1>1 DEF Co
<1> HIDE DEF y
<1>4. k \in [Coroutines -> Co] /\ k[c] = y /\ \A d \in Coroutines \ {c} : k[d] = co[d]
  BY <1>1, <1>2, <1>3
<1>5. ASSUME NEW pc \in Pcs
      PROVE  /\ [k EXCEPT ![c].pc = pc] = [co EXCEPT ![c] = [y EXCEPT !.pc = pc]]
             /\ [y EXCEPT !.pc = pc] \in Co /\ [y EXCEPT !.pc = pc].pc = pc
             /\ [y EXCEPT !.pc = pc].own = co[c].own
  BY <1>1, <1>2, <1>3, <1>4 DEF Co
<1> HIDE DEF k
<1>6. ASSUME NEW x \in Co
      PROVE  LET j == [co EXCEPT ![c] = x]
             IN  /\ j \in [Coroutines -> Co] /\ j[c] = x /\ \A d \in Coroutines \ {c} : j[d] = co[d]
  BY <1>1
<1>7. CASE co[c].then \in {"begin", "again"}
  <2>1. c = "voice"
    BY <1>1, <1>7 DEF Opening, Coroutines
  <2>2. co' = StartLoop([k EXCEPT ![c].pc = "stream"])
        /\ brain' = [brain EXCEPT !.orphan = Orphaned] /\ owes' = owes
    BY <1>7 DEF Connected, k
  <2> DEFINE x == [y EXCEPT !.pc = "stream"]
             j == [co EXCEPT ![c] = x]
  <2>3. x \in Co /\ x.pc = "stream" /\ x.own = co[c].own /\ co' = StartLoop(j)
    BY <1>5, <2>2 DEF Pcs
  <2> HIDE DEF x
  <2>4. j \in [Coroutines -> Co] /\ j[c] = x /\ \A d \in Coroutines \ {c} : j[d] = co[d]
    BY <1>6, <2>3
  <2> HIDE DEF j
  <2>5. /\ co' \in [Coroutines -> Co] /\ OnlyFor(c) /\ Restarted /\ co'[c] = x
    BY <1>1, <2>1, <2>3, <2>4, StartLoopDoes DEF OnlyFor, Restarted
  <2>6. brain' \in Brain
    BY <1>1, <2>2 DEF Brain, Orphaned
  <2>7. Fits(c, co'[c])
    BY <2>1, <2>3, <2>5 DEF Fits, Rests
  <2> QED BY <2>1, <2>2, <2>3, <2>5, <2>6, <2>7 DEF GoesOn
<1>8. CASE co[c].then = "text"
  <2>1. c = "text"
    BY <1>1, <1>8 DEF Opening, Coroutines
  <2>2. Injects(k, s)
    BY <1>8 DEF Connected, k
  <2>3. /\ co' \in [Coroutines -> Co] /\ brain' \in Brain /\ OnlyFor("text") /\ Restarted
        /\ co'["text"].pc = "wait" /\ AsksInTurn(s)
    BY <1>4, <2>1, <2>2, InjectsDoes
  <2>4. Fits(c, co'[c])
    BY <2>1, <2>3 DEF Fits, Rests
  <2> QED BY <2>1, <2>3, <2>4 DEF GoesOn
<1>9. CASE co[c].then = "warm"
  <2>1. c = "warm"
    BY <1>1, <1>9 DEF Opening, Coroutines
  <2> DEFINE j == [co EXCEPT ![c] = Idle]
  <2>2. co' = StartLoop(j) /\ UNCHANGED <<brain, owes>>
    <3>1. co' = StartLoop([k EXCEPT ![c] = Idle]) /\ UNCHANGED <<brain, owes>>
      BY <1>9 DEF Connected, k
    <3>2. [k EXCEPT ![c] = Idle] = j
      BY <1>1, <1>3
    <3> QED BY <3>1, <3>2
  <2>3. j \in [Coroutines -> Co] /\ j[c] = Idle /\ \A d \in Coroutines \ {c} : j[d] = co[d]
    BY <1>6, CoOps
  <2> HIDE DEF j
  <2>4. /\ co' \in [Coroutines -> Co] /\ OnlyFor(c) /\ Restarted /\ co'[c] = Idle
    BY <1>1, <2>1, <2>2, <2>3, StartLoopDoes DEF OnlyFor, Restarted
  <2> QED BY <1>1, <2>1, <2>2, <2>4, CoOps, FitsIdle DEF GoesOn
<1>10. CASE co[c].then = "read"
  <2>1. c = "rx"
    BY <1>1, <1>10 DEF Opening, Coroutines
  <2> DEFINE x == [y EXCEPT !.pc = "receive", !.has = s]
  <2>2. co' = [k EXCEPT ![c].pc = "receive", ![c].has = s] /\ UNCHANGED <<brain, owes>>
    BY <1>10 DEF Connected, k
  <2>3. x \in Co /\ x.pc = "receive" /\ x.has = s
    <3>1. "receive" \in Pcs /\ s \in Int
      BY DEF Pcs
    <3>2. x = Goes(y, "receive", s)
      BY DEF Goes
    <3> HIDE DEF x
    <3> QED BY <1>2, <3>1, <3>2, GoesIsCo
  <2>4. co' = [co EXCEPT ![c] = x]
    BY <1>1, <1>2, <1>3, <1>4, <2>2 DEF Co
  <2> HIDE DEF x
  <2>5. co' \in [Coroutines -> Co] /\ co'[c] = x /\ OnlyFor(c)
    BY <1>6, <2>3, <2>4 DEF OnlyFor
  <2>6. Fits(c, co'[c])
    BY <2>1, <2>3, <2>5 DEF Fits, Rests
  <2> QED BY <1>1, <2>1, <2>2, <2>3, <2>5, <2>6 DEF GoesOn
<1>11. CASE co[c].then = "recover"
  <2> DEFINE to == co[c].back
             x == [y EXCEPT !.pc = to, !.has = IF c = "rx" THEN -1 ELSE 0]
             j == [co EXCEPT ![c] = x]
  <2>1. to \in Resumes(c)
    BY <1>1, <1>11 DEF Fits, Rests, Coroutines
  <2>2. /\ co' = (IF c = "rx" THEN [k EXCEPT ![c].pc = to, ![c].has = IF c = "rx" THEN -1 ELSE 0]
                 ELSE StartLoop([k EXCEPT ![c].pc = to, ![c].has = IF c = "rx" THEN -1 ELSE 0]))
        /\ UNCHANGED <<brain, owes>>
    BY <1>11 DEF Connected, k
  <2>3. to \in Pcs /\ to \in Rests(c) /\ to \in (IF c = "rx" THEN {"start", "receive"} ELSE {"idle", "finish"})
    BY <2>1 DEF Resumes, Rests, Pcs, Coroutines
  <2> HIDE DEF to
  <2>4. x \in Co /\ x.pc = to /\ x.own = co[c].own /\ x.has = IF c = "rx" THEN -1 ELSE 0
    <3> DEFINE has == IF c = "rx" THEN -1 ELSE 0
    <3>1. has \in Int
      OBVIOUS
    <3>2. x = Goes(y, to, has)
      BY DEF Goes
    <3> HIDE DEF x, has
    <3>3. x \in Co /\ x.pc = to /\ x.own = co[c].own /\ x.has = has
      BY <1>2, <2>3, <3>1, <3>2, GoesIsCo
    <3> QED BY <3>3 DEF has
  <2>5. [k EXCEPT ![c].pc = to, ![c].has = IF c = "rx" THEN -1 ELSE 0] = j
    BY <1>1, <1>2, <1>3, <1>4 DEF Co
  <2> HIDE DEF x
  <2>6. j \in [Coroutines -> Co] /\ j[c] = x /\ \A d \in Coroutines \ {c} : j[d] = co[d]
    BY <1>6, <2>4
  <2> HIDE DEF j
  <2>7. Fits(c, x)
    BY <2>3, <2>4 DEF Fits, Rests, Coroutines
  <2>8. CASE c = "rx"
    BY <1>1, <2>2, <2>3, <2>4, <2>5, <2>6, <2>7, <2>8 DEF GoesOn, OnlyFor
  <2>9. CASE c # "rx"
    <3>1. /\ co' \in [Coroutines -> Co] /\ OnlyFor(c) /\ Restarted /\ co'[c] = x
      <4>1. co' = StartLoop(j)
        BY <2>2, <2>5, <2>9
      <4> QED BY <1>1, <2>6, <2>9, <4>1, StartLoopDoes DEF OnlyFor, Restarted
    <3> QED BY <1>1, <2>2, <2>3, <2>4, <2>7, <2>9, <3>1 DEF GoesOn
  <2> QED BY <2>8, <2>9
<1> QED BY <1>1, <1>7, <1>8, <1>9, <1>10, <1>11 DEF Opening, Coroutines

\* c alone moves, to x.
Moved(c, x) == x \in Co /\ Fits(c, x) /\ co' = [co EXCEPT ![c] = x]

LEMMA MovedDoes ==
  ASSUME Placed, NEW c \in Coroutines, NEW x, Moved(c, x)
  PROVE  /\ co' \in [Coroutines -> Co] /\ co'[c] = x /\ OnlyFor(c) /\ \A d \in Coroutines : Fits(d, co'[d])
         /\ \A d \in Coroutines \ {c} : co'[d] = co[d]
  BY DEF Placed, LiveTypes, Moved, OnlyFor

\* A coroutine that changes its mind: x wants something of the socket.
Turns(x, pc, then) == [x EXCEPT !.pc = pc, !.then = then]

LEMMA TurnsIsCo ==
  ASSUME NEW x \in Co, NEW pc \in Pcs, NEW then \in Thens
  PROVE  /\ Turns(x, pc, then) \in Co /\ Turns(x, pc, then).pc = pc /\ Turns(x, pc, then).then = then
         /\ Turns(x, pc, then).back = x.back /\ Turns(x, pc, then).own = x.own
         /\ Turns(x, pc, then).has = x.has
  BY DEF Co, Turns

LEMMA WantsDoes ==
  ASSUME NEW k \in [Coroutines -> Co], NEW c \in Coroutines, NEW pc \in Pcs, NEW then \in Thens
  PROVE  Wants(k, c, pc, then) = [k EXCEPT ![c] = Turns(k[c], pc, then)]
  BY DEF Wants, Turns, Co

LEMMA Words ==
  /\ {"away", "idle", "start", "ensure", "connect", "close", "exit", "stream", "wait",
      "receive", "finish", "hear"} \subseteq Pcs
  /\ {"none", "begin", "again", "text", "warm", "read", "recover", "retry", "over", "reset"} \subseteq Thens
  BY DEF Pcs, Thens

\* _close_live_socket has returned.
EndsClosing(c, x) ==
    /\ Moved(c, x) /\ x.pc \in {"ensure", "idle", "start", "finish"} /\ x.own <= co[c].own
    /\ c = "rx" /\ x.pc = "idle" => brain'.done \/ co[c].then = "over"
    /\ c = "warm" => x.then # "reset"
    /\ \/ brain' = brain \/ brain' = Done(brain)
       \/ c = "warm" /\ co[c].then = "reset" /\ brain' = [brain EXCEPT !.cancelled = FALSE]

LEMMA ClosedDoes ==
  ASSUME Placed, NEW c \in Coroutines, co[c].pc \in {"close", "exit"}, Closed(c)
  PROVE  brain' \in Brain /\ \E x \in Co : EndsClosing(c, x)
<1> DEFINE has == IF c = "rx" /\ co[c].back = "receive" THEN -1 ELSE 0
           y == [co[c] EXCEPT !.has = has]
           k == [co EXCEPT ![c].has = has]
<1>1. /\ co \in [Coroutines -> Co] /\ brain \in Brain /\ co[c] \in Co /\ Fits(c, co[c]) /\ has \in Int
      /\ co[c].then \in Closing(c)
  BY DEF Placed, LiveTypes, Fits
<1> HIDE DEF has
<1>2. /\ y \in Co /\ y.pc = co[c].pc /\ y.own = co[c].own /\ y.then = co[c].then /\ y.back = co[c].back
  BY <1>1 DEF Co
<1>3. k = [co EXCEPT ![c] = y]
  BY <1>1 DEF Co
<1> HIDE DEF y
<1>4. k \in [Coroutines -> Co] /\ k[c] = y /\ \A x : [k EXCEPT ![c] = x] = [co EXCEPT ![c] = x]
  BY <1>1, <1>2, <1>3
<1> HIDE DEF k
<1>5. co[c].own <= co[c].own
  BY <1>1 DEF Co
<1>6. CASE co[c].then \in {"again", "recover"}
  <2> DEFINE x == [y EXCEPT !.pc = "ensure"]
  <2>1. co' = [k EXCEPT ![c].pc = "ensure"] /\ brain' = brain
    BY <1>6 DEF Closed, k, has
  <2>2. co' = [co EXCEPT ![c] = x]
    <3>1. [k EXCEPT ![c].pc = "ensure"] = [k EXCEPT ![c] = x]
      BY <1>4
    <3> QED BY <1>4, <2>1, <3>1
  <2>3. x \in Co /\ x.pc = "ensure" /\ x.own = co[c].own /\ x.then = co[c].then /\ x.back = co[c].back
    BY <1>2, Words DEF Co
  <2> HIDE DEF x
  <2>4. Fits(c, x)
    BY <1>1, <1>6, <2>3 DEF Fits, Closing, Opening, Rests, Coroutines
  <2> QED BY <1>1, <1>5, <1>6, <2>1, <2>2, <2>3, <2>4 DEF EndsClosing, Moved
<1>7. CASE co[c].then = "retry" /\ co' = Wants(k, c, "ensure", "recover") /\ brain' = brain
  <2> DEFINE x == Turns(y, "ensure", "recover")
  <2>1. co' = [co EXCEPT ![c] = x]
    <3>1. "ensure" \in Pcs /\ "recover" \in Thens
      BY Words
    <3>2. Wants(k, c, "ensure", "recover") = [k EXCEPT ![c] = Turns(k[c], "ensure", "recover")]
      BY <1>4, <3>1, WantsDoes
    <3> QED BY <1>4, <1>7, <3>2
  <2>2. x \in Co /\ x.pc = "ensure" /\ x.then = "recover" /\ x.own = co[c].own /\ x.back = co[c].back
    BY <1>2, Words, TurnsIsCo
  <2> HIDE DEF x
  <2>3. Fits(c, x)
    BY <1>1, <1>7, <2>2 DEF Fits, Closing, Opening, Rests, Coroutines
  <2> QED BY <1>1, <1>5, <2>1, <2>2, <2>3, <1>7 DEF EndsClosing, Moved
<1>8. CASE co[c].then = "retry" /\ co' = GivesUp(k, c)
           /\ brain' = IF c = "rx" /\ co[c].back = "start" THEN Done(brain) ELSE brain
  <2>1. co[c].back \in Resumes(c) /\ brain' \in Brain
    <3>1. co[c].pc \notin Rests(c)
      BY DEF Rests, Coroutines
    <3> QED BY <1>1, <1>8, <3>1, BrainOps DEF Fits
  <2>2. CASE c = "rx" /\ co[c].back = "start"
    <3>1. co' = [k EXCEPT ![c] = Idle]
      BY <1>2, <1>4, <1>8, <2>2 DEF GivesUp
    <3>2. brain' = Done(brain) /\ brain'.done
      BY <1>1, <1>8, <2>2, TurnOps
    <3>3. co[c].own \in Nat
      BY <1>1 DEF Co
    <3>4. Moved(c, Idle)
      BY <1>4, <3>1, CoOps, FitsIdle DEF Moved
    <3>5. EndsClosing(c, Idle)
      BY <2>2, <3>2, <3>3, <3>4, CoOps DEF EndsClosing
    <3> QED BY <2>1, <3>5, CoOps
  <2>3. CASE c = "rx" /\ co[c].back = "receive"
    <3>1. co' = [k EXCEPT ![c] = Starting]
      BY <1>2, <1>4, <1>8, <2>3 DEF GivesUp, Starting
    <3>2. co[c].own \in Nat
      BY <1>1 DEF Co
    <3>3. Moved(c, Starting)
      BY <1>4, <2>3, <3>1, CoOps, FitsStarting DEF Moved
    <3>4. EndsClosing(c, Starting)
      BY <1>8, <2>3, <3>2, <3>3, CoOps DEF EndsClosing
    <3> QED BY <2>1, <3>4, CoOps
  <2>4. CASE c # "rx"
    <3> DEFINE to == co[c].back
               x == Wishes([y EXCEPT !.pc = to], y.has, "none", "idle")
    <3>1. co' = [k EXCEPT ![c].pc = k[c].back, ![c].then = "none", ![c].back = "idle"]
      BY <1>8, <2>4 DEF GivesUp
    <3>2. co' = [co EXCEPT ![c] = x]
      <4>1. [k EXCEPT ![c].pc = k[c].back, ![c].then = "none", ![c].back = "idle"] = [k EXCEPT ![c] = x]
        BY <1>2, <1>4 DEF Wishes, Co
      <4> QED BY <1>4, <3>1, <4>1
    <3>3. to \in {"idle", "finish"} /\ to \in Pcs /\ to \in Rests(c)
      BY <2>1, <2>4, Words DEF Resumes, Rests, Coroutines
    <3> HIDE DEF to
    <3>4. [y EXCEPT !.pc = to] \in Co /\ [y EXCEPT !.pc = to].pc = to /\ [y EXCEPT !.pc = to].own = co[c].own
      BY <1>2, <3>3 DEF Co
    <3>5. y.has \in Int /\ "none" \in Thens
      BY <1>2, Words DEF Co
    <3>6. x \in Co /\ x.pc = to /\ x.own = co[c].own
      BY <3>4, <3>5, WishesIsCo
    <3>7. x.then = "none"
      BY <3>4 DEF Wishes, Co
    <3> HIDE DEF x
    <3>8. Fits(c, x)
      BY <3>3, <3>6 DEF Fits
    <3> QED BY <1>1, <1>5, <1>8, <2>1, <2>4, <3>2, <3>3, <3>6, <3>7, <3>8 DEF EndsClosing, Moved
  <2> QED BY <2>1, <2>2, <2>3, <2>4 DEF Resumes
<1>9. CASE co[c].then = "over"
  <2>1. co' = [k EXCEPT ![c] = Idle] /\ brain' = brain
    BY <1>9 DEF Closed, k, has
  <2>2. co[c].own \in Nat
    BY <1>1 DEF Co
  <2>3. Moved(c, Idle)
    BY <1>4, <2>1, CoOps, FitsIdle DEF Moved
  <2>4. EndsClosing(c, Idle)
    BY <1>9, <2>1, <2>2, <2>3, CoOps DEF EndsClosing
  <2> QED BY <1>1, <2>1, <2>4, CoOps
<1>10. CASE co[c].then = "reset"
  <2> DEFINE x == Turns(y, "ensure", "warm")
  <2>1. c = "warm"
    BY <1>1, <1>10 DEF Closing, Coroutines
  <2>2. co' = Wants(k, c, "ensure", "warm") /\ brain' = [brain EXCEPT !.cancelled = FALSE]
    BY <1>10 DEF Closed, k, has
  <2>3. co' = [co EXCEPT ![c] = x]
    <3>1. "ensure" \in Pcs /\ "warm" \in Thens
      BY Words
    <3>2. Wants(k, c, "ensure", "warm") = [k EXCEPT ![c] = Turns(k[c], "ensure", "warm")]
      BY <1>4, <3>1, WantsDoes
    <3> QED BY <1>4, <2>2, <3>2
  <2>4. x \in Co /\ x.pc = "ensure" /\ x.then = "warm" /\ x.own = co[c].own
    BY <1>2, Words, TurnsIsCo
  <2> HIDE DEF x
  <2>5. Fits(c, x)
    BY <2>1, <2>4 DEF Fits, Opening, Rests
  <2>6. brain' \in Brain
    BY <1>1, <2>2 DEF Brain
  <2> QED BY <1>5, <1>10, <2>1, <2>2, <2>3, <2>4, <2>5, <2>6 DEF EndsClosing, Moved
<1>11. CASE co[c].then = "retry"
  <2>1. \/ co' = Wants(k, c, "ensure", "recover") /\ brain' = brain
        \/ /\ co' = GivesUp(k, c)
           /\ brain' = IF c = "rx" /\ co[c].back = "start" THEN Done(brain) ELSE brain
    BY <1>11 DEF Closed, k, has
  <2> QED BY <1>7, <1>8, <1>11, <2>1
<1> QED BY <1>1, <1>6, <1>9, <1>10, <1>11 DEF Closing, Coroutines

\* The connection is refused.
GoesWithout(c, x) ==
    /\ Moved(c, x) /\ x.own = co[c].own /\ x.pc \in {"close", "stream", "hear"}
    /\ SameTurn(brain, brain') /\ (brain'.done \/ brain'.done = brain.done)
    /\ x.pc = "stream" => brain'.done
    /\ c = "rx" /\ x.then = "over" => brain'.done
    /\ c = "warm" => x.then = "over"

LEMMA RefusedDoes ==
  ASSUME Placed, NEW c \in Coroutines, Refused(c)
  PROVE  brain' \in Brain /\ \E x \in Co : GoesWithout(c, x)
<1>1. /\ co \in [Coroutines -> Co] /\ brain \in Brain /\ co[c] \in Co /\ Fits(c, co[c])
      /\ co[c].then \in Opening(c) /\ co[c].pc = "connect" /\ co[c].pc \notin Rests(c)
  <2>1. co[c].pc = "connect"
    BY DEF Refused
  <2>2. "connect" \notin Rests(c)
    BY DEF Rests, Coroutines
  <2> QED BY <2>1, <2>2 DEF Placed, LiveTypes, Fits
<1>2. SameTurn(brain, brain)
  BY DEF SameTurn
<1>3. ASSUME NEW then \in Thens, then \in Closing(c),
             then \in {"recover", "retry"} => co[c].back \in Resumes(c)
      PROVE  LET x == Turns(co[c], "close", then)
             IN  /\ x \in Co /\ x.pc = "close" /\ x.then = then /\ x.own = co[c].own
                 /\ Wants(co, c, "close", then) = [co EXCEPT ![c] = x]
                 /\ Fits(c, x)
  <2> DEFINE x == Turns(co[c], "close", then)
  <2>1. "close" \in Pcs
    BY Words
  <2>2. /\ x \in Co /\ x.pc = "close" /\ x.then = then /\ x.own = co[c].own /\ x.back = co[c].back
        /\ Wants(co, c, "close", then) = [co EXCEPT ![c] = x]
    BY <1>1, <1>3, <2>1, TurnsIsCo, WantsDoes
  <2> HIDE DEF x
  <2>3. Fits(c, x)
    BY <1>3, <2>2 DEF Fits
  <2> QED BY <2>2, <2>3 DEF x
<1>4. ASSUME NEW then \in Thens, then \in Closing(c),
             then \in {"recover", "retry"} => co[c].back \in Resumes(c),
             co' = Wants(co, c, "close", then), brain' = brain \/ brain' = Done(brain),
             c = "rx" /\ then = "over" => brain'.done, c = "warm" => then = "over"
      PROVE  brain' \in Brain /\ \E x \in Co : GoesWithout(c, x)
  <2> DEFINE x == Turns(co[c], "close", then)
  <2>1. /\ x \in Co /\ x.pc = "close" /\ x.then = then /\ x.own = co[c].own
        /\ co' = [co EXCEPT ![c] = x] /\ Fits(c, x)
    BY <1>3, <1>4
  <2> HIDE DEF x
  <2>2. brain' \in Brain /\ SameTurn(brain, brain') /\ (brain'.done \/ brain'.done = brain.done)
    BY <1>1, <1>2, <1>4, BrainOps, TurnOps
  <2> QED BY <1>4, <2>1, <2>2 DEF GoesWithout, Moved
<1>5. CASE co[c].then = "begin"
  <2>1. "again" \in Thens /\ "again" \in Closing(c) /\ c = "voice"
    BY <1>1, <1>5, Words DEF Opening, Closing, Coroutines
  <2>2. co' = Wants(co, c, "close", "again") /\ brain' = brain
    BY <1>5 DEF Refused
  <2> QED BY <1>4, <2>1, <2>2
<1>6. CASE co[c].then = "again"
  <2> DEFINE x == [co[c] EXCEPT !.pc = "stream"]
  <2>1. c = "voice"
    BY <1>1, <1>6 DEF Opening, Coroutines
  <2>2. co' = [co EXCEPT ![c].pc = "stream"] /\ brain' = [Done(brain) EXCEPT !.streaming = FALSE]
    BY <1>6 DEF Refused
  <2>3. co' = [co EXCEPT ![c] = x] /\ x \in Co /\ x.pc = "stream" /\ x.own = co[c].own
    BY <1>1, <2>2, Words DEF Co
  <2> HIDE DEF x
  <2>4. Fits(c, x)
    BY <2>1, <2>3 DEF Fits, Rests
  <2>5. brain' \in Brain /\ SameTurn(brain, brain') /\ brain'.done
    <3>1. Done(brain) \in Brain /\ SameTurn(brain, Done(brain)) /\ Done(brain).done
      BY <1>1, BrainOps, TurnOps
    <3> QED BY <2>2, <3>1 DEF Brain, SameTurn
  <2> QED BY <2>1, <2>3, <2>4, <2>5 DEF GoesWithout, Moved
<1>7. CASE co[c].then = "text"
  <2> DEFINE x == Turns(co[c], "hear", "none")
  <2>1. c = "text"
    BY <1>1, <1>7 DEF Opening, Coroutines
  <2>2. co' = [co EXCEPT ![c].pc = "hear", ![c].then = "none"] /\ brain' = FinishSpeakable(brain)
    BY <1>7 DEF Refused
  <2>3. co' = [co EXCEPT ![c] = x]
    BY <1>1, <2>2 DEF Co, Turns
  <2>4. "hear" \in Pcs /\ "none" \in Thens
    BY Words
  <2>5. x \in Co /\ x.pc = "hear" /\ x.own = co[c].own
    BY <1>1, <2>4, TurnsIsCo
  <2> HIDE DEF x
  <2>6. Fits(c, x)
    BY <2>1, <2>5 DEF Fits, Rests
  <2>7. brain' \in Brain /\ SameTurn(brain, brain') /\ brain'.done = brain.done
    BY <1>1, <2>2, BrainOps, TurnOps
  <2> QED BY <2>1, <2>3, <2>5, <2>6, <2>7 DEF GoesWithout, Moved
<1>8. CASE co[c].then = "warm"
  <2>1. "over" \in Thens /\ "over" \in Closing(c) /\ c = "warm"
    BY <1>1, <1>8, Words DEF Opening, Closing, Coroutines
  <2>2. co' = Wants(co, c, "close", "over") /\ brain' = brain
    BY <1>8 DEF Refused
  <2> QED BY <1>4, <2>1, <2>2
<1>9. CASE co[c].then = "read"
  <2>1. c = "rx"
    BY <1>1, <1>9 DEF Opening, Coroutines
  <2>2. CASE brain' = Done(brain) /\ co' = Wants(co, c, "close", "over")
    <3>1. "over" \in Thens /\ "over" \in Closing(c) /\ brain'.done
      BY <1>1, <2>1, <2>2, Words, TurnOps DEF Closing
    <3> QED BY <1>4, <2>1, <2>2, <3>1
  <2>3. CASE /\ brain' = Failing(brain)
             /\ co' = [Wants(co, c, "close", "recover") EXCEPT ![c].back = "start"]
    <3> DEFINE y == Turns(co[c], "close", "recover")
               x == [y EXCEPT !.back = "start"]
    <3>1. "close" \in Pcs /\ "recover" \in Thens
      BY Words
    <3>2. /\ y \in Co /\ y.pc = "close" /\ y.then = "recover" /\ y.own = co[c].own
          /\ Wants(co, c, "close", "recover") = [co EXCEPT ![c] = y]
      BY <1>1, <3>1, TurnsIsCo, WantsDoes
    <3> HIDE DEF y
    <3>3. co' = [co EXCEPT ![c] = x]
      BY <1>1, <2>3, <3>2
    <3>4. x \in Co /\ x.pc = "close" /\ x.then = "recover" /\ x.own = co[c].own /\ x.back = "start"
      BY <3>2 DEF Co
    <3> HIDE DEF x
    <3>5. Fits(c, x)
      BY <2>1, <3>4 DEF Fits, Closing, Resumes
    <3>6. brain' \in Brain /\ SameTurn(brain, brain') /\ brain'.done
      BY <1>1, <2>3, BrainOps, TurnOps
    <3> QED BY <2>1, <3>3, <3>4, <3>5, <3>6 DEF GoesWithout, Moved
  <2> QED BY <1>9, <2>2, <2>3 DEF Refused
<1>10. CASE co[c].then = "recover"
  <2>1. co[c].back \in Resumes(c)
    BY <1>1, <1>10 DEF Fits
  <2>2. "retry" \in Thens /\ "retry" \in Closing(c) /\ c # "warm"
    BY <1>1, <1>10, Words DEF Opening, Closing, Coroutines
  <2>3. co' = Wants(co, c, "close", "retry") /\ brain' = brain
    BY <1>10 DEF Refused
  <2> QED BY <1>4, <2>1, <2>2, <2>3
<1> QED BY <1>1, <1>5, <1>6, <1>7, <1>8, <1>9, <1>10 DEF Opening, Coroutines

\* Whoever finds the socket dead begins to recover.
BeginsToRecover(c, x) ==
    Moved(c, x) /\ x.pc = "close" /\ x.then = "recover" /\ x.own = 0

Leaves(x, pc, then, back, has, own) ==
    [x EXCEPT !.pc = pc, !.then = then, !.back = back, !.has = has, !.own = own]

LEMMA LeavesIsCo ==
  ASSUME NEW x \in Co, NEW pc \in Pcs, NEW then \in Thens, NEW has \in Int, NEW own \in Nat,
         NEW back \in {"idle", "finish", "start", "receive"}
  PROVE  LET z == Leaves(x, pc, then, back, has, own)
         IN  z \in Co /\ z.pc = pc /\ z.then = then /\ z.back = back /\ z.own = own
  BY DEF Co, Leaves

LEMMA RecoversDoes ==
  ASSUME Placed, NEW c \in Coroutines, NEW back \in Resumes(c), Recovers(c, back)
  PROVE  /\ brain' = Failing(brain) /\ brain' \in Brain
         /\ UNCHANGED <<socket, opened, wire, holder, owes, ended, heard>>
         /\ \E x \in Co : BeginsToRecover(c, x)
<1> DEFINE x == [co[c] EXCEPT !.pc = "close", !.then = "recover", !.back = back, !.has = 0, !.own = 0]
<1>1. /\ co \in [Coroutines -> Co] /\ brain \in Brain /\ co[c] \in Co
  BY DEF Placed, LiveTypes
<1>2. co' = [co EXCEPT ![c] = x]
  BY <1>1 DEF Recovers
<1>3. x \in Co /\ x.pc = "close" /\ x.then = "recover" /\ x.back = back /\ x.own = 0
  <2>1. back \in {"idle", "finish", "start", "receive"} /\ "close" \in Pcs /\ "recover" \in Thens
        /\ 0 \in Int /\ 0 \in Nat
    BY Words DEF Resumes, Coroutines
  <2>2. x = Leaves(co[c], "close", "recover", back, 0, 0)
    BY DEF Leaves
  <2> HIDE DEF x
  <2> QED BY <1>1, <2>1, <2>2, LeavesIsCo
<1> HIDE DEF x
<1>4. Fits(c, x)
  BY <1>3 DEF Fits, Closing, Resumes, Coroutines
<1>5. brain' = Failing(brain) /\ brain' \in Brain
  BY <1>1, BrainOps DEF Recovers
<1> QED BY <1>2, <1>3, <1>4, <1>5 DEF Recovers, BeginsToRecover, Moved

-----------------------------------------------------------------------------
(* What a coroutine that moves alone leaves of the invariants. *)

LEMMA LonePlace ==
  ASSUME Placed, NEW c \in Coroutines, NEW x, Moved(c, x), brain' \in Brain,
         opened' \in Nat, socket' \in 0..opened', wire' \subseteq 1..opened',
         holder' \in Coroutines \cup {"none"}, opened <= opened', owes' \subseteq owes
  PROVE  Placed'
<1>1. co' \in [Coroutines -> Co] /\ \A d \in Coroutines : Fits(d, co'[d])
  BY MovedDoes
<1>2. owes' \subseteq [on : 1..opened', turn : Nat, talk : Nat]
  <2>1. opened \in Nat /\ \A n \in 1..opened : n \in 1..opened'
    BY DEF Placed, LiveTypes
  <2>2. owes' \subseteq [on : 1..opened, turn : Nat, talk : Nat]
    BY DEF Placed, LiveTypes
  <2> QED BY <2>1, <2>2
<1> QED BY <1>1, <1>2 DEF Placed, LiveTypes

LEMMA LoneSocket ==
  ASSUME Placed, SocketInv, NEW c \in Coroutines, NEW x, Moved(c, x),
         co[c].pc \notin {"connect", "exit"}, x.pc \notin {"connect", "exit"},
         UNCHANGED <<socket, holder>>, wire' \subseteq wire
  PROVE  SocketInv'
<1>1. co'[c] = x /\ \A d \in Coroutines \ {c} : co'[d] = co[d]
  BY MovedDoes
<1> QED BY <1>1 DEF SocketInv, OneSocket

\* The brain is in the turn it was in; b2 has the cancel of b or none.
Calm(b, b2) ==
    /\ b2.cancelled = b.cancelled \/ ~b2.cancelled
    /\ b2.turn = b.turn /\ b2.turns = b.turns /\ b2.orphan = b.orphan
    /\ b2.done \/ b2.done = b.done

LEMMA LoneRead ==
  ASSUME Placed, ReadInv, NEW c \in Coroutines, NEW x, Moved(c, x), Calm(brain, brain'),
         c = "voice" => /\ x.pc \in {"away", "idle"} \/ co[c].pc \notin {"away", "idle"}
                        /\ x.pc # "wait" /\ x.own <= co[c].own /\ (x.pc = "stream" => brain'.done),
         c = "rx" /\ (x.pc = "idle" \/ (x.pc \in {"close", "exit"} /\ x.then = "over")) =>
                brain'.done \/ Orphaned \/ brain.cancelled
  PROVE  ReadInv'
<1>1. co'[c] = x /\ \A d \in Coroutines \ {c} : co'[d] = co[d]
  BY MovedDoes
<1>2. "voice" \in Coroutines /\ "rx" \in Coroutines
  BY DEF Coroutines
<1>3. co["voice"].own \in Nat /\ brain.turns \in Nat
  BY <1>2 DEF Placed, LiveTypes, Co, Brain
<1>4. x.own \in Nat
  BY DEF Moved, Co
<1>5. CASE c = "voice"
  BY <1>1, <1>2, <1>3, <1>4, <1>5 DEF ReadInv, Calm, Orphaned
<1>6. CASE c = "rx"
  BY <1>1, <1>2, <1>6 DEF ReadInv, Calm, Orphaned
<1>7. CASE c \notin {"voice", "rx"}
  BY <1>1, <1>2, <1>7 DEF ReadInv, Calm, Orphaned
<1> QED BY <1>5, <1>6, <1>7

LEMMA LoneCut ==
  ASSUME Placed, CutInv, NEW c \in Coroutines, NEW x, Moved(c, x),
         brain'.talk = brain.talk, brain'.since = brain.since,
         brain'.cancelled = brain.cancelled \/ c = "warm",
         owes' \subseteq owes, heard' = heard \/ heard'[1] = heard'[2],
         socket' = 0 \/ (socket' = socket /\ (Cutting => c # "warm")),
         c = "voice" => x.pc \in {"away", "idle"} \/ co[c].pc \notin {"away", "idle"},
         c = "warm" => /\ x.pc \in {"close", "exit"} /\ x.then = "reset" /\ brain.talk > 0 => Resetting
                       /\ Resetting /\ x.pc \in {"close", "exit"} => brain'.cancelled,
         c = "rx" => /\ Resetting => x.pc \in {"idle", "start"}
                     /\ x.pc = "receive" => Current(x.has)
  PROVE  CutInv'
<1>1. co'[c] = x /\ \A d \in Coroutines \ {c} : co'[d] = co[d]
  BY MovedDoes
<1>2. "voice" \in Coroutines /\ "rx" \in Coroutines /\ "warm" \in Coroutines
  BY DEF Coroutines
<1>3. \A s : Current(s) => Current(s)'
  BY DEF Current
<1>4. \A o \in owes : o.on # 0 /\ o.talk <= brain.talk
  BY DEF Placed, LiveTypes, CutInv
<1>5. heard'[1] = heard'[2] /\ brain'.since <= brain'.talk /\ \A o \in owes' : o.talk <= brain'.talk
  BY <1>4 DEF CutInv
<1>6. co'["voice"].pc \notin {"away", "idle"} => brain'.since = brain'.talk
  BY <1>1, <1>2 DEF CutInv
<1>7. Resetting' => Resetting /\ brain'.cancelled /\ co'["rx"].pc \in {"idle", "start"}
  BY <1>1, <1>2 DEF CutInv, Resetting
<1>8. Cutting' \/ (\A o \in owes' : o.on = socket' => o.talk = brain'.talk /\ brain'.since = brain'.talk)
  <2>1. CASE socket' = 0
    BY <1>4, <2>1
  <2>2. CASE socket' = socket /\ (Cutting => c # "warm")
    BY <1>1, <1>2, <2>2 DEF CutInv, Cutting, Current
  <2> QED BY <2>1, <2>2
<1>9. co'["rx"].pc = "receive" =>
        \A o \in owes' : o.on = co'["rx"].has => o.talk = brain'.talk /\ brain'.since = brain'.talk
  BY <1>1, <1>2 DEF CutInv, Current
<1> QED BY <1>5, <1>6, <1>7, <1>8, <1>9 DEF CutInv, Current

-----------------------------------------------------------------------------
(* The steps. *)

\* s is the socket in use, or the one that c has just opened.
InUse(c, s) ==
    \/ s = socket /\ UNCHANGED <<socket, opened, wire, holder>> /\ holder = "none"
    \/ /\ s = opened + 1 /\ socket' = s /\ opened' = s /\ wire' = wire \cup {s}
       /\ holder = c /\ holder' = "none"

\* c has what it needs of the socket s, and goes on.
LEMMA SettlesKeeps ==
  ASSUME LiveInv, NEW c \in Coroutines, NEW s \in Nat \ {0},
         co[c].pc \in {"ensure", "connect"} \/ (c = "text" /\ co[c].pc = "idle"),
         co' \in [Coroutines -> Co], brain' \in Brain, OnlyFor(c), Fits(c, co'[c]),
         GoesOn(c, s), Restarted \/ c = "rx", InUse(c, s), heard' = heard
  PROVE  LiveInv'
<1>1. /\ co' \in [Coroutines -> Co] /\ brain' \in Brain /\ OnlyFor(c) /\ Fits(c, co'[c])
      /\ GoesOn(c, s) /\ (Restarted \/ c = "rx")
  OBVIOUS
<1>2. /\ opened \in Nat /\ socket \in 0..opened /\ wire \subseteq 1..opened /\ opened' \in Nat
      /\ opened <= opened' /\ s \in 1..opened' /\ socket' = s /\ wire' \subseteq 1..opened'
  <2>1. opened \in Nat /\ socket \in 0..opened /\ wire \subseteq 1..opened
    BY DEF LiveInv, Placed, LiveTypes
  <2>2. CASE s = socket /\ UNCHANGED <<socket, opened, wire>>
    BY <2>1, <2>2
  <2>3. CASE s = opened + 1 /\ socket' = s /\ opened' = s /\ wire' = wire \cup {s}
    <3>1. s \in 1..s /\ \A n \in 1..opened : n \in 1..s
      BY <2>1, <2>3
    <3> QED BY <2>1, <2>3, <3>1
  <2> QED BY <2>2, <2>3 DEF InUse
<1>3. brain \in Brain /\ co \in [Coroutines -> Co] /\ {"voice", "rx", "warm", "text"} \subseteq Coroutines
  BY DEF LiveInv, Placed, LiveTypes, Coroutines
<1>4. brain.turns \in Nat /\ brain.turn \in Nat /\ brain.talk \in Nat /\ brain.since \in Nat
      /\ brain'.turn \in Nat /\ brain'.since \in Nat
  BY <1>1, <1>3 DEF Brain
<1>5. \A d \in Coroutines \ {c} : co'[d] = co[d] \/ (d = "rx" /\ co["rx"].pc = "idle" /\ co'[d] = Starting)
  BY <1>1, <1>3 DEF OnlyFor, Restarted
<1>6. Starting.pc = "start"
  BY CoOps
<1>7. co'[c].pc \in {"stream", "wait", "idle", "finish", "start", "receive"}
  BY <1>1 DEF GoesOn
<1>8. brain' = [brain EXCEPT !.orphan = Orphaned] =>
        /\ brain'.cancelled = brain.cancelled /\ brain'.turn = brain.turn /\ brain'.turns = brain.turns
        /\ brain'.done = brain.done /\ brain'.talk = brain.talk /\ brain'.since = brain.since
        /\ brain'.orphan = Orphaned
  BY <1>3 DEF Brain, Orphaned
<1>9. Placed'
  <2>1. \A d \in Coroutines : Fits(d, co'[d])
    BY <1>1, <1>5, FitsStarting DEF LiveInv, Placed
  <2>2. owes' \subseteq [on : 1..opened', turn : Nat, talk : Nat]
    <3>1. owes \subseteq [on : 1..opened', turn : Nat, talk : Nat]
      <4>1. \A n \in 1..opened : n \in 1..opened'
        BY <1>2
      <4> QED BY <4>1 DEF LiveInv, Placed, LiveTypes
    <3>2. [on |-> s, turn |-> brain'.turn, talk |-> brain'.since] \in [on : 1..opened', turn : Nat, talk : Nat]
      BY <1>2, <1>4
    <3> QED BY <1>1, <3>1, <3>2 DEF GoesOn, AsksInTurn
  <2>3. holder' \in Coroutines \cup {"none"}
    BY DEF InUse, LiveInv, Placed, LiveTypes
  <2> QED BY <1>1, <1>2, <2>1, <2>2, <2>3 DEF Placed, LiveTypes
<1>10. SocketInv'
  <2>1. \A d \in Coroutines : co'[d].pc = "connect" <=> holder' = d
    BY <1>5, <1>6, <1>7 DEF InUse, LiveInv, SocketInv, Coroutines
  <2>2. holder' = "none"
    BY DEF InUse
  <2>3. OneSocket'
    <3>1. CASE s = socket /\ wire' = wire
      <4>1. co[c].pc # "exit"
        OBVIOUS
      <4> QED BY <1>2, <1>5, <3>1, <4>1 DEF LiveInv, SocketInv, OneSocket
    <3>2. CASE wire' = wire \cup {s} /\ holder = c
      <4>1. co[c].pc # "exit" /\ socket = 0 /\ 0 \notin wire
        BY <1>2, <3>2 DEF LiveInv, SocketInv, Coroutines
      <4> QED BY <1>2, <1>5, <3>2, <4>1 DEF LiveInv, SocketInv, OneSocket
    <3> QED BY <3>1, <3>2 DEF InUse
  <2> QED BY <2>1, <2>2, <2>3 DEF SocketInv
<1>11. co["voice"].own <= brain.turns /\ brain.turn <= brain.turns /\ co["voice"].own \in Nat
  BY <1>3 DEF LiveInv, ReadInv, Co
<1>12. Restarted => co'["rx"].pc # "idle" /\ (Orphaned' => Orphaned)
  BY <1>6 DEF Restarted, Orphaned
<1>13. ReadInv'
  <2>1. CASE /\ c = "voice" /\ co'[c].pc = "stream" /\ co'[c].own = co[c].own
             /\ Restarted /\ brain' = [brain EXCEPT !.orphan = Orphaned]
    BY <1>8, <1>11, <1>12, <2>1 DEF LiveInv, ReadInv
  <2>2. CASE c = "text" /\ Restarted /\ AsksInTurn(s)
    <3>1. co'["voice"] = co["voice"] /\ brain'.turns = brain.turns + 1 /\ brain'.turn = brain.turns + 1
          /\ brain'.cancelled = brain.cancelled /\ brain'.orphan = Orphaned
      BY <1>3, <1>5, <2>2 DEF AsksInTurn, NextTurn
    <3>2. co["voice"].own # brain'.turn /\ co["voice"].own <= brain'.turns /\ brain'.turn <= brain'.turns
      BY <1>4, <1>11, <3>1
    <3> QED BY <1>12, <2>2, <3>1, <3>2 DEF LiveInv, ReadInv
  <2>3. CASE /\ c # "rx" /\ co'[c].pc \in {"idle", "finish"} /\ co'[c].own \in {0, co[c].own}
             /\ Restarted /\ brain' = brain
    <3>1. co'["voice"] = co["voice"] \/ c = "voice"
      BY <1>3, <1>5
    <3>2. co'["voice"].own <= brain.turns
      BY <1>4, <1>11, <2>3, <3>1
    <3> QED BY <1>11, <1>12, <2>3, <3>1, <3>2 DEF LiveInv, ReadInv
  <2>4. CASE c = "rx" /\ co'[c].pc \in {"start", "receive"} /\ brain' = brain
    <3>1. co'["voice"] = co["voice"]
      BY <1>3, <1>5, <2>4
    <3> QED BY <2>4, <3>1 DEF LiveInv, ReadInv, Orphaned
  <2> QED BY <1>1, <2>1, <2>2, <2>3, <2>4 DEF GoesOn
<1>14. \A o \in owes : o.on \in 1..opened
  BY DEF LiveInv, Placed, LiveTypes
<1>15. Resetting <=> Resetting'
  <2>1. CASE c = "warm"
    <3>1. co'["warm"].pc \notin {"close", "exit"}
      BY <1>7, <2>1
    <3> QED BY <2>1, <3>1 DEF Resetting
  <2>2. CASE c # "warm"
    <3>1. co'["warm"] = co["warm"] /\ brain'.talk = brain.talk
      BY <1>1, <1>3, <1>5, <1>8, <2>2 DEF GoesOn, AsksInTurn, NextTurn
    <3> QED BY <3>1 DEF Resetting
  <2> QED BY <2>1, <2>2
<1>16. Cutting => Cutting'
  <2>1. CASE c = "warm"
    BY <2>1 DEF Cutting
  <2>2. CASE c # "warm"
    <3>1. co'["warm"] = co["warm"] /\ brain'.talk = brain.talk
      BY <1>1, <1>3, <1>5, <1>8, <2>2 DEF GoesOn, AsksInTurn, NextTurn
    <3> QED BY <3>1 DEF Cutting
  <2> QED BY <2>1, <2>2
<1>17. brain'.talk = brain.talk /\ brain'.cancelled = brain.cancelled
       /\ (brain'.since = brain.since \/ brain'.since = brain.talk)
  BY <1>1, <1>8 DEF GoesOn, AsksInTurn, NextTurn
<1>18. Cutting \/ Current(s)
  BY <1>2, <1>14 DEF InUse, Current, LiveInv, CutInv
<1>19. /\ heard'[1] = heard'[2] /\ brain'.since <= brain'.talk
       /\ \A o \in owes' : o.talk <= brain'.talk
       /\ \A n : Current(n) => \A o \in owes' : o.on = n => o.talk = brain'.talk /\ brain'.since = brain'.talk
  <2>1. /\ brain.since <= brain.talk /\ \A o \in owes : o.talk <= brain.talk
        /\ heard[1] = heard[2]
    BY DEF LiveInv, CutInv
  <2>2. CASE owes' = owes /\ brain'.since = brain.since
    BY <1>17, <2>1, <2>2 DEF Current
  <2>3. CASE AsksInTurn(s)
    <3>1. brain'.since = brain.talk /\ owes' = owes \cup {[on |-> s, turn |-> brain'.turn, talk |-> brain.talk]}
      BY <2>3 DEF AsksInTurn, NextTurn
    <3>2. \A o \in owes' : o \in owes \/ o.talk = brain.talk
      BY <3>1
    <3> QED BY <1>4, <1>17, <2>1, <3>1, <3>2 DEF Current
  <2> QED BY <1>1, <1>8, <2>2, <2>3 DEF GoesOn
<1>20. co'["voice"].pc \notin {"away", "idle"} => brain'.since = brain'.talk
  <2>1. CASE c = "voice"
    BY <1>17, <2>1 DEF LiveInv, CutInv
  <2>2. CASE c # "voice"
    BY <1>3, <1>5, <1>17, <2>2 DEF LiveInv, CutInv
  <2> QED BY <2>1, <2>2
<1>21. Resetting' => brain'.cancelled /\ co'["rx"].pc \in {"idle", "start"}
  <2> SUFFICES ASSUME Resetting PROVE brain'.cancelled /\ co'["rx"].pc \in {"idle", "start"}
    BY <1>15
  <2>1. brain.cancelled /\ co["rx"].pc \in {"idle", "start"}
    BY DEF LiveInv, CutInv
  <2>2. c # "rx"
    BY <2>1
  <2> QED BY <1>1, <1>6, <1>17, <2>1, <2>2 DEF Restarted
<1>22. co'["rx"].pc = "receive" =>
         \A o \in owes' : o.on = co'["rx"].has => o.talk = brain'.talk /\ brain'.since = brain'.talk
  <2> SUFFICES ASSUME co'["rx"].pc = "receive"
               PROVE  \A o \in owes' : o.on = co'["rx"].has => o.talk = brain'.talk /\ brain'.since = brain'.talk
    OBVIOUS
  <2>1. CASE c # "rx"
    <3>1. co'["rx"] = co["rx"]
      BY <1>1, <1>6, <2>1 DEF Restarted
    <3> QED BY <1>19, <3>1 DEF LiveInv, CutInv
  <2>2. CASE c = "rx"
    <3>1. co'["rx"].has \in {s, -1} /\ owes' = owes
      BY <1>1, <2>2 DEF GoesOn
    <3>2. ~Cutting
      <4>1. Cutting => Resetting
        BY DEF Cutting, Resetting
      <4> QED BY <2>2, <4>1 DEF LiveInv, CutInv
    <3>3. \A o \in owes : o.on # -1
      BY <1>14
    <3> QED BY <1>18, <1>19, <3>1, <3>2, <3>3
  <2> QED BY <2>1, <2>2
<1>23. CutInv'
  BY <1>2, <1>16, <1>18, <1>19, <1>20, <1>21, <1>22 DEF CutInv, Current
<1> QED BY <1>9, <1>10, <1>13, <1>23 DEF LiveInv

LEMMA GoesOnKeeps ==
  ASSUME LiveInv, NEW c \in Coroutines, NEW s \in Nat \ {0}, co[c].pc \in {"ensure", "connect"},
         Connected(c, s), InUse(c, s), heard' = heard
  PROVE  LiveInv'
<1>1. Placed /\ s \in Nat
  BY DEF LiveInv
<1>2. /\ co' \in [Coroutines -> Co] /\ brain' \in Brain /\ OnlyFor(c) /\ Fits(c, co'[c])
      /\ GoesOn(c, s) /\ (Restarted \/ c = "rx")
  BY <1>1, ConnectedDoes
<1> QED BY <1>2, SettlesKeeps

LEMMA EnsureKeeps == ASSUME LiveInv, NEW c \in Coroutines, Ensure(c) PROVE LiveInv'
<1> USE DEF LiveInv
<1>1. co[c].pc = "ensure" /\ holder = "none" /\ UNCHANGED <<socket, opened, wire, heard>>
  BY DEF Ensure
<1>2. socket \in Nat /\ co \in [Coroutines -> Co] /\ co[c] \in Co /\ brain \in Brain /\ Fits(c, co[c])
  BY DEF Placed, LiveTypes
<1>3. CASE socket # 0
  <2>1. Connected(c, socket) /\ holder' = holder
    BY <1>3 DEF Ensure, MustConnect
  <2>2. socket \in Nat \ {0}
    BY <1>2, <1>3
  <2> QED BY <1>1, <2>1, <2>2, GoesOnKeeps DEF InUse
<1>4. CASE socket = 0
  <2> DEFINE x == [co[c] EXCEPT !.pc = "connect"]
  <2>1. holder' = c /\ co' = [co EXCEPT ![c].pc = "connect"] /\ UNCHANGED <<brain, owes>>
    BY <1>4 DEF Ensure, MustConnect
  <2>2. co' = [co EXCEPT ![c] = x]
    BY <1>2, <2>1
  <2>3. /\ x \in Co /\ x.pc = "connect" /\ x.then = co[c].then /\ x.back = co[c].back
        /\ x.own = co[c].own
    BY <1>2, Words DEF Co
  <2> HIDE DEF x
  <2>4. "connect" \notin Rests(c) /\ "ensure" \notin Rests(c)
    BY DEF Rests, Coroutines
  <2>5. Moved(c, x)
    BY <1>1, <1>2, <2>2, <2>3, <2>4 DEF Moved, Fits
  <2>6. co'[c] = x /\ \A d \in Coroutines \ {c} : co'[d] = co[d]
    BY <2>5, MovedDoes
  <2>7. Placed'
    BY <1>1, <2>1, <2>5, LonePlace DEF Placed, LiveTypes
  <2>8. SocketInv'
    BY <1>1, <1>4, <2>1, <2>3, <2>6 DEF SocketInv, OneSocket, Coroutines
  <2>9. x.own <= co[c].own
    BY <1>2, <2>3 DEF Co
  <2>10. ReadInv'
    BY <1>1, <2>1, <2>3, <2>5, <2>9, LoneRead DEF Calm
  <2>11. CutInv'
    <3>1. co["rx"].pc = "ensure" => ~Resetting
      BY DEF CutInv
    <3>2. co["warm"].pc = "ensure" => ~Cutting
      BY DEF Cutting
    <3> QED BY <1>1, <1>4, <2>1, <2>3, <2>5, <3>1, <3>2, LoneCut
  <2> QED BY <2>7, <2>8, <2>10, <2>11
<1> QED BY <1>3, <1>4

LEMMA OpensKeeps == ASSUME LiveInv, NEW c \in Coroutines, Opens(c) PROVE LiveInv'
<1>1. holder = c
  BY DEF Opens, LiveInv, SocketInv
<1>2. opened + 1 \in Nat \ {0}
  BY DEF LiveInv, Placed, LiveTypes
<1> QED BY <1>1, <1>2, GoesOnKeeps DEF Opens, InUse

LEMMA RefusedKeeps == ASSUME LiveInv, NEW c \in Coroutines, Refused(c) PROVE LiveInv'
<1> USE DEF LiveInv
<1>1. co[c].pc = "connect" /\ holder' = "none" /\ UNCHANGED <<socket, opened, wire, owes, heard>>
  BY DEF Refused
<1>2. PICK x \in Co : GoesWithout(c, x)
  BY RefusedDoes
<1>3. brain' \in Brain /\ Moved(c, x)
  BY <1>2, RefusedDoes DEF GoesWithout
<1>4. co'[c] = x /\ \A d \in Coroutines \ {c} : co'[d] = co[d]
  BY <1>3, MovedDoes
<1>5. Placed'
  BY <1>1, <1>3, LonePlace DEF Placed, LiveTypes
<1>6. SocketInv'
  BY <1>1, <1>2, <1>4 DEF GoesWithout, SocketInv, OneSocket, Coroutines
<1>7. x.own <= co[c].own
  BY <1>2 DEF GoesWithout, Placed, LiveTypes, Co
<1>8. ReadInv'
  BY <1>1, <1>2, <1>3, <1>7, LoneRead DEF GoesWithout, SameTurn, Calm
<1>9. CutInv'
  <2>1. co["rx"].pc = "connect" => ~Resetting
    BY DEF CutInv
  <2>2. (co["warm"].pc = "connect" => ~Cutting) /\ (Resetting => brain.cancelled)
    BY DEF Cutting, CutInv
  <2>3. brain'.talk = brain.talk /\ brain'.since = brain.since /\ brain'.cancelled = brain.cancelled
    BY <1>2 DEF GoesWithout, SameTurn
  <2>4. x.pc \in {"close", "stream", "hear"} /\ (c = "warm" => x.then # "reset")
    BY <1>2 DEF GoesWithout
  <2> QED BY <1>1, <1>3, <2>1, <2>2, <2>3, <2>4, LoneCut
<1> QED BY <1>5, <1>6, <1>8, <1>9

\* c closes no socket any more.
LEMMA ClosedKeeps ==
  ASSUME LiveInv, NEW c \in Coroutines, Closed(c), UNCHANGED <<opened, holder, owes, heard>>,
         \/ co[c].pc = "close" /\ socket' = 0 /\ socket = 0 /\ wire' = wire
         \/ co[c].pc = "exit" /\ socket' = socket /\ wire' = wire \ {co[c].has}
  PROVE  LiveInv'
<1> USE DEF LiveInv
<1>1. PICK x \in Co : EndsClosing(c, x)
  BY ClosedDoes
<1>2. brain' \in Brain /\ Moved(c, x)
  BY <1>1, ClosedDoes DEF EndsClosing
<1>3. co'[c] = x /\ \A d \in Coroutines \ {c} : co'[d] = co[d]
  BY <1>2, MovedDoes
<1>4. brain \in Brain /\ SameTurn(brain, brain) /\ SameTurn(brain, Done(brain)) /\ Done(brain).done
  BY TurnOps DEF Placed, LiveTypes, SameTurn
<1>5. /\ brain'.turn = brain.turn /\ brain'.turns = brain.turns /\ brain'.talk = brain.talk
      /\ brain'.since = brain.since /\ brain'.orphan = brain.orphan
      /\ brain'.done \/ brain'.done = brain.done
      /\ brain'.cancelled = brain.cancelled \/ (c = "warm" /\ ~brain'.cancelled)
  <2>1. CASE brain' = brain
    BY <2>1
  <2>2. CASE brain' = Done(brain)
    BY <1>4, <2>2 DEF SameTurn
  <2>3. CASE c = "warm" /\ brain' = [brain EXCEPT !.cancelled = FALSE]
    BY <1>4, <2>3 DEF Brain
  <2> QED BY <1>1, <2>1, <2>2, <2>3 DEF EndsClosing
<1>6. Placed'
  <2>1. socket' \in 0..opened' /\ wire' \subseteq 1..opened' /\ opened' \in Nat /\ opened <= opened'
        /\ holder' \in Coroutines \cup {"none"}
    <3>1. /\ opened' = opened /\ opened \in Nat /\ socket \in 0..opened /\ wire \subseteq 1..opened
          /\ holder' = holder /\ holder \in Coroutines \cup {"none"} /\ wire' \subseteq wire
      BY DEF Placed, LiveTypes
    <3>2. socket' = socket
      OBVIOUS
    <3> QED BY <3>1, <3>2
  <2> QED BY <1>2, <2>1, LonePlace
<1>7. SocketInv'
  BY <1>1, <1>3 DEF EndsClosing, SocketInv, OneSocket
<1>8. ReadInv'
  <2>1. c = "rx" /\ co[c].then = "over" => Orphaned
    BY DEF Orphaned
  <2> QED BY <1>1, <1>2, <1>5, <2>1, LoneRead DEF EndsClosing, Calm
<1>9. CutInv'
  <2>1. co["rx"].pc \in {"close", "exit"} => ~Resetting
    BY DEF CutInv
  <2>2. co["warm"].pc = "exit" => ~Cutting
    BY DEF Cutting
  <2> QED BY <1>1, <1>2, <1>5, <2>1, <2>2, LoneCut DEF EndsClosing
<1> QED BY <1>6, <1>7, <1>8, <1>9

LEMMA TakesKeeps == ASSUME LiveInv, NEW c \in Coroutines, Takes(c) PROVE LiveInv'
<1> USE DEF LiveInv
<1>1. co[c].pc = "close" /\ holder = "none" /\ socket' = 0 /\ UNCHANGED <<opened, wire, holder, owes, heard>>
  BY DEF Takes
<1>2. CASE socket = 0
  BY <1>1, <1>2, ClosedKeeps DEF Takes
<1>3. CASE socket # 0
  <2> DEFINE x == Goes(co[c], "exit", socket)
  <2>1. co \in [Coroutines -> Co] /\ co[c] \in Co /\ brain \in Brain /\ Fits(c, co[c]) /\ socket \in Int
        /\ socket \in 0..opened /\ opened \in Nat
    BY DEF Placed, LiveTypes
  <2>2. co' = [co EXCEPT ![c].pc = "exit", ![c].has = socket] /\ brain' = brain
    BY <1>3 DEF Takes
  <2>3. co' = [co EXCEPT ![c] = x]
    BY <2>1, <2>2 DEF Goes
  <2>4. "exit" \in Pcs
    BY Words
  <2>5. x \in Co /\ x.pc = "exit" /\ x.has = socket /\ x.own = co[c].own
    BY <2>1, <2>4, GoesIsCo
  <2>6. x.then = co[c].then /\ x.back = co[c].back
    BY <2>1 DEF Goes, Co
  <2> HIDE DEF x
  <2>7. "exit" \notin Rests(c) /\ "close" \notin Rests(c)
    BY DEF Rests, Coroutines
  <2>8. Moved(c, x)
    BY <1>1, <2>1, <2>3, <2>5, <2>6, <2>7 DEF Moved, Fits
  <2>9. co'[c] = x /\ \A d \in Coroutines \ {c} : co'[d] = co[d]
    BY <2>8, MovedDoes
  <2>10. Placed'
    BY <1>1, <2>1, <2>2, <2>8, LonePlace DEF Placed, LiveTypes
  <2>11. SocketInv'
    BY <1>1, <2>5, <2>9 DEF SocketInv, OneSocket, Coroutines
  <2>12. x.own <= co[c].own
    BY <2>1, <2>5 DEF Co
  <2>13. ReadInv'
    <3>1. c = "rx" /\ x.then = "over" => Orphaned
      BY <1>1, <2>6 DEF Orphaned
    <3> QED BY <1>1, <2>2, <2>5, <2>8, <2>12, <3>1, LoneRead DEF Calm
  <2>14. CutInv'
    <3>1. co["rx"].pc = "close" => ~Resetting
      BY DEF CutInv
    <3>2. c = "warm" /\ x.then = "reset" /\ brain.talk > 0 => Resetting /\ brain.cancelled
      BY <1>1, <2>6 DEF Resetting, CutInv
    <3> QED BY <1>1, <2>2, <2>5, <2>8, <3>1, <3>2, LoneCut DEF CutInv
  <2> QED BY <2>10, <2>11, <2>13, <2>14
<1> QED BY <1>2, <1>3

LEMMA ExitsKeeps == ASSUME LiveInv, NEW c \in Coroutines, Exits(c) PROVE LiveInv'
  BY ClosedKeeps DEF Exits

\* c moves alone, and neither the socket nor the conversation is touched.
LEMMA LoneKeeps ==
  ASSUME LiveInv, NEW c \in Coroutines, NEW x, Moved(c, x),
         brain' \in Brain, SameTurn(brain, brain'), brain'.done \/ brain'.done = brain.done,
         co[c].pc \notin {"connect", "exit"}, x.pc \notin {"connect", "exit"},
         UNCHANGED <<socket, opened, wire, holder>>, owes' \subseteq owes,
         heard' = heard \/ heard'[1] = heard'[2],
         c = "voice" => /\ x.pc \in {"away", "idle"} \/ co[c].pc \notin {"away", "idle"}
                        /\ x.pc # "wait" /\ x.own <= co[c].own /\ (x.pc = "stream" => brain'.done),
         c = "rx" => /\ x.pc = "idle" \/ (x.pc = "close" /\ x.then = "over") =>
                            brain'.done \/ Orphaned \/ brain.cancelled
                     /\ Resetting => x.pc \in {"idle", "start"}
                     /\ x.pc = "receive" => Current(x.has),
         c # "warm"
  PROVE  LiveInv'
<1> USE DEF LiveInv
<1>1. Placed'
  <2>1. /\ socket' \in 0..opened' /\ wire' \subseteq 1..opened' /\ opened' \in Nat /\ opened <= opened'
        /\ holder' \in Coroutines \cup {"none"}
    BY DEF Placed, LiveTypes
  <2> QED BY <2>1, LonePlace
<1>2. SocketInv'
  BY LoneSocket
<1>3. ReadInv'
  BY LoneRead DEF SameTurn, Calm
<1>4. CutInv'
  BY LoneCut DEF SameTurn
<1> QED BY <1>1, <1>2, <1>3, <1>4

LEMMA RecoversKeeps ==
  ASSUME LiveInv, NEW c \in Coroutines \ {"warm"}, NEW back \in Resumes(c), Recovers(c, back),
         co[c].pc \notin {"connect", "exit"}, c = "voice" => co[c].pc = "wait",
         c = "rx" => ~Resetting
  PROVE  LiveInv'
<1>1. PICK x \in Co : BeginsToRecover(c, x)
  BY RecoversDoes DEF LiveInv
<1>2. brain' = Failing(brain) /\ brain' \in Brain /\ brain \in Brain
      /\ UNCHANGED <<socket, opened, wire, holder, owes, ended, heard>>
  BY RecoversDoes DEF LiveInv, Placed, LiveTypes
<1>3. SameTurn(brain, brain') /\ brain'.done
  BY <1>2, TurnOps
<1>4. co[c].own \in Nat
  BY DEF LiveInv, Placed, LiveTypes, Co
<1> QED BY <1>1, <1>2, <1>3, <1>4, LoneKeeps DEF BeginsToRecover

LEMMA TurnEndsKeeps == ASSUME LiveInv, NEW c \in Coroutines, TurnEnds(c) PROVE LiveInv'
<1>1. /\ co[c].pc = "wait" /\ UNCHANGED <<socket, opened, wire, holder, brain, owes, ended, heard>>
      /\ co \in [Coroutines -> Co] /\ brain \in Brain /\ co[c] \in Co
      /\ SameTurn(brain, brain)
  BY DEF TurnEnds, LiveInv, Placed, LiveTypes, SameTurn
<1>2. c \in {"voice", "text"}
  BY <1>1 DEF LiveInv, Placed, Fits, Rests, Coroutines
<1>3. CASE c = "voice"
  <2>1. Moved(c, Idle)
    BY <1>1, <1>3, CoOps, FitsIdle DEF TurnEnds, Moved
  <2>2. co[c].own \in Nat
    BY <1>1 DEF Co
  <2> QED BY <1>1, <1>3, <2>1, <2>2, CoOps, LoneKeeps
<1>4. CASE c = "text"
  <2> DEFINE x == [co[c] EXCEPT !.pc = "finish", !.has = 0, !.own = 0]
  <2>1. co' = [co EXCEPT ![c] = x]
    BY <1>1, <1>4 DEF TurnEnds
  <2>2. x \in Co /\ x.pc = "finish"
    <3>1. "finish" \in Pcs /\ 0 \in Int /\ 0 \in Nat /\ co[c].reads \in Int
      BY <1>1, Words DEF Co
    <3>2. x = Waits(co[c], "finish", 0, 0, co[c].reads)
      BY <1>1 DEF Waits, Co
    <3> HIDE DEF x
    <3> QED BY <1>1, <3>1, <3>2, WaitsIsCo
  <2> HIDE DEF x
  <2>3. Moved(c, x)
    BY <1>4, <2>1, <2>2 DEF Moved, Fits, Rests
  <2> QED BY <1>1, <1>4, <2>2, <2>3, LoneKeeps
<1> QED BY <1>2, <1>3, <1>4

\* finish, the steps of the speaker, and the end of the chat
SpeakerSteps == SpeakerSpeaks \/ SpeakerReadsOn \/ SpeakerEnds

Listens(x, reads, mid, stray) == [x EXCEPT !.reads = reads, !.mid = mid, !.stray = stray]

LEMMA ListensIsCo ==
  ASSUME NEW x \in Co, NEW r \in Int, NEW m \in BOOLEAN, NEW st \in BOOLEAN
  PROVE  LET z == Listens(x, r, m, st)
         IN  z \in Co /\ z.pc = x.pc /\ z.then = x.then /\ z.back = x.back /\ z.has = x.has
             /\ z.own = x.own
BY DEF Co, Listens

LEMMA ListensAre ==
  ASSUME NEW x \in Co
  PROVE  /\ \A r : [x EXCEPT !.reads = r] = Listens(x, r, x.mid, x.stray)
         /\ \A m : [x EXCEPT !.mid = m] = Listens(x, x.reads, m, x.stray)
BY DEF Co, Listens

LEMMA TextKeeps == ASSUME LiveInv, Finish \/ SpeakerSteps \/ Heard PROVE LiveInv'
<1>1. /\ UNCHANGED <<socket, opened, wire, holder, owes, heard>>
      /\ co \in [Coroutines -> Co] /\ brain \in Brain /\ co["text"] \in Co
      /\ SameTurn(brain, brain) /\ "text" \in Coroutines /\ Fits("text", co["text"])
  BY DEF Finish, SpeakerSteps, SpeakerSpeaks, SpeakerReadsOn, SpeakerEnds, Heard, LiveInv, Placed,
         LiveTypes, SameTurn, Coroutines
<1>2. CASE Finish
  <2> DEFINE x == [co["text"] EXCEPT !.pc = "hear"]
  <2>1. co' = [co EXCEPT !["text"] = x] /\ brain' = FinishSpeakable(brain) /\ co["text"].pc = "finish"
    BY <1>1, <1>2 DEF Finish
  <2>2. x \in Co /\ x.pc = "hear"
    BY <1>1, Words DEF Co
  <2> HIDE DEF x
  <2>3. Moved("text", x)
    BY <2>1, <2>2 DEF Moved, Fits, Rests
  <2>4. brain' \in Brain /\ SameTurn(brain, brain') /\ brain'.done = brain.done
    BY <1>1, <2>1, BrainOps, TurnOps
  <2> QED BY <1>1, <2>1, <2>2, <2>3, <2>4, LoneKeeps
<1>3. CASE SpeakerSteps
  <2>1. /\ brain' = brain
        /\ \E r \in Int, m \in BOOLEAN, st \in BOOLEAN :
              co' = [co EXCEPT !["text"] = Listens(co["text"], r, m, st)]
    <3>1. /\ co["text"].reads \in Int /\ co["text"].mid \in BOOLEAN /\ co["text"].stray \in BOOLEAN
          /\ -1 \in Int /\ brain.queue \in Int
      BY <1>1 DEF Co, Brain
    <3>2. CASE SpeakerSpeaks
      <4>1. [co["text"] EXCEPT !.reads = -1] = Listens(co["text"], -1, co["text"].mid, co["text"].stray)
        BY <1>1, ListensAre
      <4>2. [co["text"] EXCEPT !.mid = TRUE] = Listens(co["text"], co["text"].reads, TRUE, co["text"].stray)
        BY <1>1, ListensAre
      <4>3. CASE co["text"].stray
        <5>1. co' = [co EXCEPT !["text"] = [co["text"] EXCEPT !.reads = -1]] /\ brain' = brain
          BY <3>2, <4>3 DEF SpeakerSpeaks
        <5> QED BY <3>1, <4>1, <5>1
      <4>4. CASE ~co["text"].stray
        <5>1. co' = [co EXCEPT !["text"] = [co["text"] EXCEPT !.mid = TRUE]] /\ brain' = brain
          BY <3>2, <4>4 DEF SpeakerSpeaks
        <5> QED BY <3>1, <4>2, <5>1
      <4> QED BY <4>3, <4>4
    <3>3. CASE SpeakerReadsOn
      <4>1. brain' = brain /\ co' = [co EXCEPT !["text"] = ReadsOn(co["text"])]
        BY <3>3 DEF SpeakerReadsOn
      <4>2. ReadsOn(co["text"]) = Listens(co["text"], brain.queue, FALSE,
                                          co["text"].stray \/ brain.queue # co["text"].reads)
        BY <1>1 DEF ReadsOn, Listens, Co
      <4>3. (co["text"].stray \/ brain.queue # co["text"].reads) \in BOOLEAN
        OBVIOUS
      <4> QED BY <3>1, <4>1, <4>2, <4>3
    <3>4. CASE SpeakerEnds
      <4>1. [co["text"] EXCEPT !.reads = -1] = Listens(co["text"], -1, co["text"].mid, co["text"].stray)
        BY <1>1, ListensAre
      <4>2. co' = [co EXCEPT !["text"] = [co["text"] EXCEPT !.reads = -1]] /\ brain' = brain
        BY <3>4 DEF SpeakerEnds
      <4> QED BY <3>1, <4>1, <4>2
    <3> QED BY <1>3, <3>2, <3>3, <3>4 DEF SpeakerSteps
  <2>0. PICK r \in Int, m \in BOOLEAN, st \in BOOLEAN :
              co' = [co EXCEPT !["text"] = Listens(co["text"], r, m, st)]
    BY <2>1
  <2> DEFINE x == Listens(co["text"], r, m, st)
  <2>2. x \in Co /\ x.pc = co["text"].pc /\ x.then = co["text"].then /\ x.back = co["text"].back
        /\ x.has = co["text"].has /\ x.own = co["text"].own
    BY <1>1, ListensIsCo
  <2>20. co' = [co EXCEPT !["text"] = x]
    BY <2>0
  <2> HIDE DEF x
  <2>3. Moved("text", x)
    BY <1>1, <2>20, <2>2 DEF Moved, Fits
  <2>4. co'["text"] = x /\ \A d \in Coroutines \ {"text"} : co'[d] = co[d]
    BY <1>1, <2>3, MovedDoes DEF LiveInv
  <2>5. \A d \in Coroutines : co'[d].pc = co[d].pc /\ co'[d].then = co[d].then
                              /\ co'[d].has = co[d].has /\ co'[d].own = co[d].own
    BY <2>2, <2>4
  <2>6. Placed'
    BY <1>1, <2>1, <2>3, LonePlace DEF LiveInv, Placed, LiveTypes
  <2>7. SocketInv'
    BY <1>1, <2>5 DEF LiveInv, SocketInv, OneSocket
  <2>8. {"voice", "rx", "warm"} \subseteq Coroutines
    BY DEF Coroutines
  <2>9. ReadInv'
    BY <2>1, <2>5, <2>8 DEF LiveInv, ReadInv, Orphaned
  <2>10. CutInv'
    BY <1>1, <2>1, <2>5, <2>8 DEF LiveInv, CutInv, Resetting, Cutting, Current
  <2> QED BY <2>6, <2>7, <2>9, <2>10 DEF LiveInv
<1>4. CASE Heard
  <2>1. Moved("text", Idle) /\ co["text"].pc = "hear" /\ brain' = brain
    BY <1>1, <1>4, CoOps, FitsIdle DEF Heard, Moved
  <2> QED BY <1>1, <2>1, CoOps, LoneKeeps
<1> QED BY <1>2, <1>3, <1>4

\* Nothing changes but what the network and push_pcm do.
LEMMA QuietKeeps == ASSUME LiveInv, PushPcm \/ Drops \/ UNCHANGED liveVars PROVE LiveInv'
<1>1. /\ UNCHANGED <<socket, opened, holder, co, owes, heard>> /\ wire' \subseteq wire
      /\ SameTurn(brain, brain') /\ brain'.done = brain.done /\ brain' \in Brain
  <2>1. CASE PushPcm
    BY <2>1 DEF PushPcm, LiveInv, Placed, LiveTypes, Brain, SameTurn
  <2>2. CASE Drops \/ UNCHANGED liveVars
    BY <2>2 DEF Drops, liveVars, LiveInv, Placed, LiveTypes, SameTurn
  <2> QED BY <2>1, <2>2
<1>2. Placed'
  BY <1>1 DEF LiveInv, Placed, LiveTypes
<1>3. SocketInv'
  BY <1>1 DEF LiveInv, SocketInv, OneSocket
<1>4. ReadInv'
  BY <1>1 DEF LiveInv, ReadInv, SameTurn, Orphaned
<1>5. CutInv'
  BY <1>1 DEF LiveInv, CutInv, SameTurn, Resetting, Cutting, Current
<1> QED BY <1>2, <1>3, <1>4, <1>5 DEF LiveInv

LEMMA SendBreaksKeeps == ASSUME LiveInv, NEW c \in Coroutines, SendBreaks(c) PROVE LiveInv'
<1>1. c \in {"voice", "text", "mic"} /\ Recovers(c, IF c = "text" THEN "finish" ELSE "idle")
      /\ co[c].pc \in {"wait", "idle"} /\ (c = "voice" => co[c].pc = "wait")
  BY DEF SendBreaks
<1>2. CASE c = "text"
  <2>1. "finish" \in Resumes(c) /\ Recovers(c, "finish")
    BY <1>1, <1>2 DEF Resumes
  <2> QED BY <1>1, <1>2, <2>1, RecoversKeeps
<1>3. CASE c # "text"
  <2>1. "idle" \in Resumes(c) /\ Recovers(c, "idle")
    BY <1>1, <1>3 DEF Resumes
  <2> QED BY <1>1, <1>3, <2>1, RecoversKeeps
<1> QED BY <1>2, <1>3

-----------------------------------------------------------------------------
(* The receive loop. *)

LEMMA LoopsKeeps == ASSUME LiveInv, Loops PROVE LiveInv'
<1>1. /\ co["rx"].pc = "start" /\ UNCHANGED <<socket, opened, wire, holder, brain, owes, ended, heard>>
      /\ brain \in Brain /\ SameTurn(brain, brain) /\ "rx" \in Coroutines
  BY DEF Loops, LiveInv, Placed, LiveTypes, SameTurn, Coroutines
<1>2. CASE brain.cancelled
  <2>1. Moved("rx", Idle)
    BY <1>1, <1>2, CoOps, FitsIdle DEF Loops, Moved
  <2> QED BY <1>1, <1>2, <2>1, CoOps, LoneKeeps
<1>3. CASE ~brain.cancelled
  <2> DEFINE x == Turns(Idle, "ensure", "read")
  <2>1. co' = [co EXCEPT !["rx"] = x]
    BY <1>3 DEF Loops, Turns
  <2>2. "ensure" \in Pcs /\ "read" \in Thens
    BY Words
  <2>3. x \in Co /\ x.pc = "ensure" /\ x.then = "read"
    BY <2>2, CoOps, TurnsIsCo
  <2> HIDE DEF x
  <2>4. Moved("rx", x)
    BY <2>1, <2>3 DEF Moved, Fits, Opening
  <2>5. ~Resetting
    BY <1>3 DEF LiveInv, CutInv
  <2> QED BY <1>1, <2>3, <2>4, <2>5, LoneKeeps
<1> QED BY <1>2, <1>3

LEMMA MessageKeeps == ASSUME LiveInv, NEW final \in BOOLEAN, Message(final) PROVE LiveInv'
<1>1. /\ co["rx"].pc = "receive" /\ UNCHANGED <<socket, opened, wire, holder, ended>>
      /\ brain \in Brain /\ "rx" \in Coroutines /\ co \in [Coroutines -> Co] /\ co["rx"] \in Co
      /\ Fits("rx", co["rx"]) /\ Current(co["rx"].has) /\ ~Resetting
  BY DEF Message, LiveInv, Placed, LiveTypes, CutInv, Coroutines
<1>2. PICK o \in owes :
        /\ o.on = co["rx"].has
        /\ owes' = IF final THEN owes \ {o} ELSE owes
        /\ heard' = IF brain.cancelled THEN heard ELSE <<o.talk, brain.since>>
        /\ brain' = IF final /\ ~brain.cancelled THEN Done(brain) ELSE brain
  BY DEF Message
<1>3. owes' \subseteq owes /\ (heard' = heard \/ heard'[1] = heard'[2])
  BY <1>1, <1>2 DEF Current
<1>4. brain' \in Brain /\ SameTurn(brain, brain') /\ (brain'.done \/ brain'.done = brain.done)
  <2>1. SameTurn(brain, brain)
    BY DEF SameTurn
  <2> QED BY <1>1, <1>2, <2>1, BrainOps, TurnOps
<1>5. CASE co' = [co EXCEPT !["rx"] = Starting]
  <2>1. Moved("rx", Starting)
    BY <1>5, CoOps, FitsStarting DEF Moved
  <2> QED BY <1>1, <1>3, <1>4, <2>1, CoOps, LoneKeeps
<1>6. CASE co' = co
  <2>1. Moved("rx", co["rx"])
    BY <1>1, <1>6 DEF Moved
  <2> QED BY <1>1, <1>3, <1>4, <2>1, LoneKeeps
<1> QED BY <1>5, <1>6 DEF Message, Starting

\* The end of a receive: go_away, or a dead socket.
LEMMA ReceiveEndsKeeps == ASSUME LiveInv, GoAway \/ ReceiveFails PROVE LiveInv'
<1>1. /\ co["rx"].pc = "receive" /\ "rx" \in Coroutines /\ ~Resetting /\ brain \in Brain
      /\ co \in [Coroutines -> Co] /\ co["rx"] \in Co
  BY DEF GoAway, ReceiveFails, LiveInv, Placed, LiveTypes, CutInv, Coroutines
<1>2. ASSUME NEW back \in {"start", "receive"}, Recovers("rx", back) PROVE LiveInv'
  <2>1. back \in Resumes("rx")
    BY DEF Resumes
  <2> QED BY <1>1, <1>2, <2>1, RecoversKeeps
<1>3. CASE /\ brain' = Done(brain) /\ co' = Wants(co, "rx", "close", "over")
           /\ UNCHANGED <<socket, opened, wire, holder, owes, ended, heard>>
  <2> DEFINE x == Turns(co["rx"], "close", "over")
  <2>1. "close" \in Pcs /\ "over" \in Thens
    BY Words
  <2>2. x \in Co /\ x.pc = "close" /\ x.then = "over" /\ co' = [co EXCEPT !["rx"] = x]
    BY <1>1, <1>3, <2>1, TurnsIsCo, WantsDoes
  <2> HIDE DEF x
  <2>3. Moved("rx", x)
    BY <2>2 DEF Moved, Fits, Closing
  <2>4. brain' \in Brain /\ SameTurn(brain, brain') /\ brain'.done
    BY <1>1, <1>3, BrainOps, TurnOps
  <2> QED BY <1>1, <1>3, <2>2, <2>3, <2>4, LoneKeeps
<1> QED BY <1>2, <1>3 DEF GoAway, ReceiveFails

-----------------------------------------------------------------------------
(* The turns. *)

LEMMA BeginKeeps == ASSUME LiveInv, BeginUtterance PROVE LiveInv'
<1> DEFINE x == Turns(co["voice"], "ensure", "begin")
<1>1. /\ co["voice"].pc = "idle" /\ (brain.talk > 0 => co["warm"].pc = "idle")
      /\ brain' = [NewQueue(brain) EXCEPT !.cancelled = FALSE, !.streaming = TRUE, !.started = FALSE]
      /\ co' = Wants(co, "voice", "ensure", "begin")
      /\ UNCHANGED <<socket, opened, wire, holder, owes, heard>>
  BY DEF BeginUtterance
<1>2. /\ brain \in Brain /\ {"voice", "rx", "warm"} \subseteq Coroutines
      /\ co \in [Coroutines -> Co] /\ co["voice"] \in Co
  BY DEF LiveInv, Placed, LiveTypes, Coroutines
<1>3. "ensure" \in Pcs /\ "begin" \in Thens
  BY Words
<1>4. /\ x \in Co /\ x.pc = "ensure" /\ x.then = "begin" /\ x.own = co["voice"].own
      /\ co' = [co EXCEPT !["voice"] = x]
  BY <1>1, <1>2, <1>3, TurnsIsCo, WantsDoes
<1> HIDE DEF x
<1>5. Moved("voice", x)
  BY <1>4 DEF Moved, Fits, Opening
<1>6. co'["voice"] = x /\ \A d \in Coroutines \ {"voice"} : co'[d] = co[d]
  BY <1>2, <1>5, MovedDoes DEF LiveInv
<1>7. /\ brain' \in Brain /\ ~brain'.cancelled /\ brain'.talk = brain.talk /\ brain'.since = brain.talk
      /\ brain'.turns = brain.turns + 1 /\ brain'.turn = brain.turns + 1
  <2>1. NewQueue(brain) \in Brain /\ NextTurn(brain, NewQueue(brain))
    BY <1>2, BrainOps, TurnOps
  <2> QED BY <1>1, <2>1 DEF Brain, NextTurn
<1>8. brain.turns \in Nat /\ brain.talk \in Nat /\ brain.turn \in Nat /\ co["voice"].own \in Nat
  BY <1>2 DEF Brain, Co
<1>9. Placed'
  BY <1>1, <1>2, <1>5, <1>7, LonePlace DEF LiveInv, Placed, LiveTypes
<1>10. SocketInv'
  BY <1>1, <1>2, <1>4, <1>5, LoneSocket DEF LiveInv
<1>11. ReadInv'
  BY <1>4, <1>6, <1>7, <1>8 DEF LiveInv, ReadInv
<1>12. CutInv'
  <2>1. co'["warm"] = co["warm"] /\ co'["rx"] = co["rx"]
    BY <1>2, <1>6
  <2>2. ~Resetting /\ ~Cutting /\ ~Resetting'
    BY <1>1, <1>7, <2>1 DEF Resetting, Cutting
  <2> QED BY <1>1, <1>7, <1>8, <2>1, <2>2 DEF LiveInv, CutInv, Current
<1> QED BY <1>9, <1>10, <1>11, <1>12 DEF LiveInv

\* An answer is asked for in the turn of the moment, or in a new one.
LEMMA AsksKeeps ==
  ASSUME Placed, CutInv, ~Resetting, socket # 0, brain' \in Brain,
         brain'.since = brain.talk, brain'.talk = brain.talk,
         owes' = owes \cup {[on |-> socket, turn |-> brain'.turn, talk |-> brain'.since]},
         UNCHANGED <<socket, opened, heard>>,
         co'["warm"] = co["warm"], co'["rx"].pc = "receive" => co'["rx"] = co["rx"]
  PROVE  CutInv' /\ owes' \subseteq [on : 1..opened', turn : Nat, talk : Nat]
<1>1. ~Cutting /\ ~Resetting'
  BY DEF Resetting, Cutting
<1>2. brain.talk \in Nat /\ brain'.turn \in Nat /\ socket \in 1..opened
  BY DEF Placed, LiveTypes, Brain
<1>3. \A o \in owes' : o \in owes \/ o.talk = brain.talk
  OBVIOUS
<1>4. \A s : Current(s) => \A o \in owes' : o.on = s => o.talk = brain'.talk /\ brain'.since = brain'.talk
  BY <1>3 DEF Current
<1>5. \A o \in owes' : o.talk <= brain'.talk
  BY <1>2, <1>3 DEF CutInv
<1>6. CutInv'
  BY <1>1, <1>2, <1>4, <1>5 DEF CutInv, Current
<1>7. [on |-> socket, turn |-> brain'.turn, talk |-> brain'.since] \in [on : 1..opened', turn : Nat, talk : Nat]
  BY <1>2
<1>8. owes \subseteq [on : 1..opened', turn : Nat, talk : Nat]
  BY DEF Placed, LiveTypes
<1> QED BY <1>6, <1>7, <1>8

LEMMA EndKeeps == ASSUME LiveInv, EndUtterance PROVE LiveInv'
<1>1. /\ co["voice"].pc = "stream" /\ brain' = [brain EXCEPT !.streaming = FALSE]
      /\ UNCHANGED <<socket, opened, wire, holder, heard>>
  BY DEF EndUtterance
<1>2. /\ brain \in Brain /\ {"voice", "rx", "warm"} \subseteq Coroutines
      /\ co \in [Coroutines -> Co] /\ co["voice"] \in Co
  BY DEF LiveInv, Placed, LiveTypes, Coroutines
<1>3. brain' \in Brain /\ SameTurn(brain, brain') /\ brain'.done = brain.done
  BY <1>1, <1>2 DEF Brain, SameTurn
<1>4. brain.turns \in Nat /\ brain.talk \in Nat /\ brain.turn \in Nat /\ co["voice"].own \in Nat
      /\ co["voice"].reads \in Int /\ socket \in Int
  BY <1>2 DEF LiveInv, Placed, LiveTypes, Brain, Co
<1>5. CASE co' = [co EXCEPT !["voice"] = Idle] /\ owes' = owes
  <2>1. Moved("voice", Idle)
    BY <1>2, <1>5, CoOps, FitsIdle DEF Moved
  <2>2. "voice" \in Coroutines /\ Idle.own <= co["voice"].own
    BY <1>2, <1>4, CoOps
  <2> QED BY <1>1, <1>3, <1>5, <2>1, <2>2, CoOps, LoneKeeps
<1>6. CASE /\ socket # 0 /\ owes' = Asked(brain)
           /\ co' = [co EXCEPT !["voice"].pc = "wait", !["voice"].own = brain.turn, !["voice"].has = socket]
  <2> DEFINE x == Waits(co["voice"], "wait", brain.turn, socket, co["voice"].reads)
  <2>1. co' = [co EXCEPT !["voice"] = x]
    BY <1>2, <1>6 DEF Waits, Co
  <2>2. "wait" \in Pcs
    BY Words
  <2>3. x \in Co /\ x.pc = "wait" /\ x.own = brain.turn
    BY <1>2, <1>4, <2>2, WaitsIsCo
  <2> HIDE DEF x
  <2>4. Moved("voice", x)
    BY <2>1, <2>3 DEF Moved, Fits, Rests
  <2>5. /\ co'["voice"] = x /\ (\A d \in Coroutines \ {"voice"} : co'[d] = co[d])
        /\ co' \in [Coroutines -> Co] /\ \A d \in Coroutines : Fits(d, co'[d])
    BY <1>2, <2>4, MovedDoes DEF LiveInv
  <2>6. co'["warm"] = co["warm"] /\ co'["rx"] = co["rx"]
    BY <1>2, <2>5
  <2>7. ~Resetting /\ brain.since = brain.talk
    BY <1>1 DEF LiveInv, ReadInv, CutInv
  <2>8. CutInv' /\ owes' \subseteq [on : 1..opened', turn : Nat, talk : Nat]
    <3>1. /\ owes' = owes \cup {[on |-> socket, turn |-> brain'.turn, talk |-> brain'.since]}
          /\ brain'.since = brain.talk /\ brain'.talk = brain.talk
      BY <1>3, <1>6, <2>7 DEF Asked, SameTurn
    <3> QED BY <1>1, <1>3, <1>6, <2>6, <2>7, <3>1, AsksKeeps DEF LiveInv
  <2>9. Placed'
    BY <1>1, <1>3, <2>5, <2>8 DEF LiveInv, Placed, LiveTypes
  <2>10. SocketInv'
    BY <1>1, <1>2, <2>3, <2>4, LoneSocket DEF LiveInv
  <2>11. ReadInv'
    BY <1>1, <1>3, <1>4, <2>3, <2>5, <2>6 DEF LiveInv, ReadInv, SameTurn, Orphaned
  <2> QED BY <2>8, <2>9, <2>10, <2>11 DEF LiveInv
<1> QED BY <1>5, <1>6 DEF EndUtterance

LEMMA ContinueKeeps == ASSUME LiveInv, ContinueWithFunctions PROVE LiveInv'
<1> DEFINE b == NewTurn(brain)
           x == Waits(co["voice"], "wait", b.turn, socket, co["voice"].reads)
           j == [co EXCEPT !["voice"] = x]
<1>1. /\ co["voice"].pc = "wait" /\ ~brain.cancelled /\ socket # 0
      /\ brain' = [b EXCEPT !.orphan = Orphaned] /\ owes' = Asked(b)
      /\ co' = StartLoop([co EXCEPT !["voice"].own = b.turn, !["voice"].has = socket])
      /\ UNCHANGED <<socket, opened, wire, holder, heard>>
  BY DEF ContinueWithFunctions
<1>2. /\ brain \in Brain /\ {"voice", "rx", "warm"} \subseteq Coroutines
      /\ co \in [Coroutines -> Co] /\ co["voice"] \in Co
  BY DEF LiveInv, Placed, LiveTypes, Coroutines
<1>3. b \in Brain /\ NextTurn(brain, b)
  BY <1>2, BrainOps, TurnOps
<1> HIDE DEF b
<1>4. b.turn \in Nat /\ co["voice"].reads \in Int /\ socket \in Int /\ brain.turns \in Nat
  BY <1>2, <1>3 DEF LiveInv, Placed, LiveTypes, Brain, Co
<1>5. /\ brain' \in Brain /\ brain'.cancelled = brain.cancelled /\ brain'.talk = brain.talk
      /\ brain'.since = brain.talk /\ brain'.turns = brain.turns + 1 /\ brain'.turn = brain.turns + 1
      /\ brain'.orphan = Orphaned /\ brain'.turn = b.turn /\ brain'.since = b.since
  BY <1>1, <1>3 DEF Brain, NextTurn, Orphaned
<1>6. [co EXCEPT !["voice"].own = b.turn, !["voice"].has = socket] = j
  BY <1>1, <1>2 DEF Waits, Co
<1>7. "wait" \in Pcs
  BY Words
<1>8. x \in Co /\ x.pc = "wait" /\ x.own = b.turn
  BY <1>2, <1>4, <1>7, WaitsIsCo
<1> HIDE DEF x
<1>9. j \in [Coroutines -> Co] /\ j["voice"] = x /\ \A d \in Coroutines \ {"voice"} : j[d] = co[d]
  BY <1>2, <1>8
<1> HIDE DEF j
<1>10. /\ co' \in [Coroutines -> Co] /\ co'["voice"] = x /\ Restarted
       /\ \A d \in Coroutines \ {"voice", "rx"} : co'[d] = co[d]
  <2>1. co' = StartLoop(j) /\ "voice" \in Coroutines \ {"rx"} /\ "rx" \in Coroutines \ {"voice"}
    BY <1>1, <1>2, <1>6
  <2>2. j["rx"] = co["rx"]
    BY <1>9, <2>1
  <2>3. /\ StartLoop(j) \in [Coroutines -> Co]
        /\ \A d \in Coroutines \ {"rx"} : StartLoop(j)[d] = j[d]
        /\ StartLoop(j)["rx"] = IF j["rx"].pc = "idle" THEN Starting ELSE j["rx"]
    BY <1>9, StartLoopDoes
  <2> QED BY <1>9, <2>1, <2>2, <2>3 DEF Restarted
<1>11. Fits("voice", x)
  BY <1>8 DEF Fits, Rests
<1>12. \A d \in Coroutines : Fits(d, co'[d])
  BY <1>10, <1>11, FitsStarting DEF LiveInv, Placed, Restarted
<1>13. ~Resetting
  BY <1>1 DEF LiveInv, CutInv
<1>14. CutInv' /\ owes' \subseteq [on : 1..opened', turn : Nat, talk : Nat]
  <2>1. co'["warm"] = co["warm"]
    BY <1>2, <1>10
  <2>2. co'["rx"].pc = "receive" => co'["rx"] = co["rx"]
    BY <1>10, CoOps DEF Restarted
  <2>3. owes' = owes \cup {[on |-> socket, turn |-> brain'.turn, talk |-> brain'.since]}
    BY <1>1, <1>5 DEF Asked
  <2> QED BY <1>1, <1>5, <1>13, <2>1, <2>2, <2>3, AsksKeeps DEF LiveInv
<1>15. Placed'
  BY <1>1, <1>5, <1>10, <1>12, <1>14 DEF LiveInv, Placed, LiveTypes
<1>16. SocketInv'
  <2>1. ASSUME NEW d \in Coroutines
        PROVE  /\ co'[d].pc = "connect" <=> co[d].pc = "connect"
               /\ co[d].pc = "exit" => co'[d] = co[d]
    <3>1. CASE d = "voice"
      BY <1>1, <1>8, <1>10, <3>1
    <3>2. CASE d = "rx"
      BY <1>10, <3>2, CoOps DEF Restarted
    <3>3. CASE d \notin {"voice", "rx"}
      BY <1>10, <3>3
    <3> QED BY <3>1, <3>2, <3>3
  <2>2. \A d \in Coroutines : co'[d].pc = "connect" <=> holder' = d
    BY <1>1, <2>1 DEF LiveInv, SocketInv
  <2>3. OneSocket'
    <3>1. \A d \in Coroutines : co[d].pc = "exit" => co'[d].pc = "exit" /\ co'[d].has = co[d].has
      BY <2>1
    <3>2. OneSocket
      BY DEF LiveInv, SocketInv
    <3>3. wire' = wire /\ socket' = socket
      BY <1>1
    <3> SUFFICES ASSUME NEW n \in wire, n # socket
                 PROVE  \E d \in Coroutines : co'[d].pc = "exit" /\ co'[d].has = n
      BY <3>3 DEF OneSocket
    <3>4. PICK d \in Coroutines : co[d].pc = "exit" /\ co[d].has = n
      BY <3>2 DEF OneSocket
    <3> QED BY <3>1, <3>4
  <2> QED BY <1>1, <2>2, <2>3 DEF LiveInv, SocketInv
<1>17. ReadInv'
  <2>1. co'["rx"].pc # "idle" /\ (Orphaned' => Orphaned)
    BY <1>10, CoOps DEF Restarted, Orphaned
  <2> QED BY <1>1, <1>4, <1>5, <1>8, <1>10, <2>1 DEF ReadInv
<1> QED BY <1>14, <1>15, <1>16, <1>17 DEF LiveInv

\* cancel: the voice is unwound from wherever it is.
LEMMA CancelKeeps == ASSUME LiveInv, CancelTurn PROVE LiveInv'
<1> DEFINE x == IF co["voice"].pc = "away" THEN co["voice"] ELSE Idle
<1>1. /\ brain' = Cancelled(brain) /\ co' = [co EXCEPT !["voice"] = x]
      /\ holder' = (IF holder = "voice" THEN "none" ELSE holder)
      /\ wire' = (IF co["voice"].pc = "exit" THEN wire \ {co["voice"].has} ELSE wire)
      /\ UNCHANGED <<socket, opened, owes, heard>>
  BY DEF CancelTurn, Unwound
<1>2. /\ brain \in Brain /\ "voice" \in Coroutines /\ "rx" \in Coroutines /\ "warm" \in Coroutines
      /\ co \in [Coroutines -> Co] /\ co["voice"] \in Co /\ Fits("voice", co["voice"])
  BY DEF LiveInv, Placed, LiveTypes, Coroutines
<1>3. x \in Co /\ x.pc \in {"away", "idle"} /\ x.own \in {0, co["voice"].own} /\ Fits("voice", x)
  BY <1>2, CoOps, FitsIdle
<1> HIDE DEF x
<1>4. Moved("voice", x)
  BY <1>1, <1>3 DEF Moved
<1>5. co'["voice"] = x /\ \A d \in Coroutines \ {"voice"} : co'[d] = co[d]
  BY <1>2, <1>4, MovedDoes DEF LiveInv
<1>6. /\ brain' \in Brain /\ brain'.cancelled /\ brain'.talk = brain.talk /\ brain'.since = brain.since
      /\ brain'.turn = brain.turn /\ brain'.turns = brain.turns
  BY <1>1, <1>2, BrainOps, TurnOps
<1>7. Placed'
  <2>1. /\ socket' \in 0..opened' /\ wire' \subseteq 1..opened' /\ opened' \in Nat /\ opened <= opened'
        /\ holder' \in Coroutines \cup {"none"}
    <3>1. /\ socket \in 0..opened /\ wire \subseteq 1..opened /\ opened \in Nat
          /\ holder \in Coroutines \cup {"none"}
      BY DEF LiveInv, Placed, LiveTypes
    <3>2. wire' \subseteq wire
      BY <1>1
    <3>3. holder' \in {holder, "none"}
      BY <1>1
    <3>4. socket' = socket /\ opened' = opened /\ opened <= opened
      BY <1>1, <3>1
    <3> QED BY <3>1, <3>2, <3>3, <3>4
  <2> QED BY <1>1, <1>2, <1>4, <1>6, <2>1, LonePlace DEF LiveInv
<1>8. SocketInv'
  <2>1. \A d \in Coroutines : co'[d].pc = "connect" <=> holder' = d
    BY <1>1, <1>2, <1>3, <1>5 DEF LiveInv, SocketInv, Coroutines
  <2>2. OneSocket'
    BY <1>1, <1>5 DEF LiveInv, SocketInv, OneSocket
  <2> QED BY <1>1, <2>1, <2>2 DEF LiveInv, SocketInv
<1>9. ReadInv'
  <2>1. co["voice"].own \in Nat /\ brain.turns \in Nat
    BY <1>2 DEF Co, Brain
  <2> QED BY <1>3, <1>5, <1>6, <2>1 DEF LiveInv, ReadInv
<1>10. CutInv'
  <2>1. co'["warm"] = co["warm"] /\ co'["rx"] = co["rx"]
    BY <1>2, <1>5
  <2> QED BY <1>1, <1>3, <1>5, <1>6, <2>1 DEF LiveInv, CutInv, Resetting, Cutting, Current
<1> QED BY <1>7, <1>8, <1>9, <1>10 DEF LiveInv

\* The cut begins: the loop is over, and the socket in use will be closed before it reads again.
LEMMA ResetKeeps == ASSUME LiveInv, ResetConversation PROVE LiveInv'
<1> DEFINE x == Turns(co["warm"], "close", "reset")
<1>1. /\ co["warm"].pc = "idle" /\ co["voice"].pc = "idle"
      /\ brain' = [Cancelled(brain) EXCEPT !.talk = @ + 1]
      /\ co' = LoopCancelled(Wants(co, "warm", "close", "reset"))
      /\ holder' = (IF holder = "rx" THEN "none" ELSE holder)
      /\ wire' = (IF co["rx"].pc = "exit" THEN wire \ {co["rx"].has} ELSE wire)
      /\ UNCHANGED <<socket, opened, owes, heard>>
  BY DEF ResetConversation
<1>2. /\ brain \in Brain /\ "voice" \in Coroutines /\ "rx" \in Coroutines /\ "warm" \in Coroutines
      /\ co \in [Coroutines -> Co] /\ co["warm"] \in Co
  BY DEF LiveInv, Placed, LiveTypes, Coroutines
<1>3. "close" \in Pcs /\ "reset" \in Thens
  BY Words
<1>4. /\ x \in Co /\ x.pc = "close" /\ x.then = "reset"
      /\ Wants(co, "warm", "close", "reset") = [co EXCEPT !["warm"] = x]
  BY <1>2, <1>3, TurnsIsCo, WantsDoes
<1> HIDE DEF x
<1>5. Fits("warm", x)
  BY <1>4 DEF Fits, Closing
<1>6. /\ co' \in [Coroutines -> Co] /\ co'["warm"] = x /\ co'["rx"] = Idle
      /\ \A d \in Coroutines \ {"warm", "rx"} : co'[d] = co[d]
  <2>1. co' = [[co EXCEPT !["warm"] = x] EXCEPT !["rx"] = Idle]
    BY <1>1, <1>4 DEF LoopCancelled
  <2> QED BY <1>2, <1>4, <2>1, CoOps
<1>7. /\ brain' \in Brain /\ brain'.cancelled /\ brain'.talk = brain.talk + 1 /\ brain'.since = brain.since
      /\ brain'.turn = brain.turn /\ brain'.turns = brain.turns
  <2>1. /\ Cancelled(brain) \in Brain /\ Cancelled(brain).cancelled /\ Cancelled(brain).talk = brain.talk
        /\ Cancelled(brain).since = brain.since /\ Cancelled(brain).turn = brain.turn
        /\ Cancelled(brain).turns = brain.turns
    BY <1>2, BrainOps, TurnOps
  <2> QED BY <1>1, <2>1 DEF Brain
<1>8. Placed'
  <2>1. \A d \in Coroutines : Fits(d, co'[d])
    BY <1>5, <1>6, FitsIdle DEF LiveInv, Placed
  <2> QED BY <1>1, <1>6, <1>7, <2>1 DEF LiveInv, Placed, LiveTypes
<1>9. SocketInv'
  <2>1. \A d \in Coroutines : co'[d].pc = "connect" <=> holder' = d
    BY <1>1, <1>2, <1>4, <1>6, CoOps DEF LiveInv, SocketInv, Coroutines
  <2>2. OneSocket'
    BY <1>1, <1>6 DEF LiveInv, SocketInv, OneSocket
  <2> QED BY <1>1, <2>1, <2>2 DEF LiveInv, SocketInv
<1>10. co'["voice"] = co["voice"]
  BY <1>2, <1>6
<1>11. ReadInv'
  BY <1>1, <1>7, <1>10 DEF LiveInv, ReadInv
<1>12. CutInv'
  <2>1. brain.talk \in Nat /\ brain.since \in Nat /\ brain'.talk > 0
    BY <1>2, <1>7 DEF Brain
  <2>2. Cutting'
    BY <1>4, <1>6, <2>1 DEF Cutting
  <2>3. brain'.since <= brain'.talk
    BY <1>7, <2>1 DEF LiveInv, CutInv
  <2>4. \A o \in owes' : o.talk <= brain'.talk
    <3>1. \A o \in owes : o.talk \in Nat /\ o.talk <= brain.talk
      BY DEF LiveInv, CutInv, Placed, LiveTypes
    <3> QED BY <1>1, <1>7, <2>1, <3>1
  <2> QED BY <1>1, <1>6, <1>7, <1>10, <2>2, <2>3, <2>4, CoOps DEF LiveInv, CutInv
<1> QED BY <1>8, <1>9, <1>11, <1>12 DEF LiveInv

\* A coroutine of the chat that begins
Types(pc, reads, stray) ==
    [Idle EXCEPT !.pc = pc, !.reads = reads, !.stray = stray, !.then = "text"]

LEMMA TypesIsCo ==
  ASSUME NEW pc \in Pcs, NEW reads \in Int, NEW stray \in BOOLEAN
  PROVE  LET z == Types(pc, reads, stray) IN z \in Co /\ z.pc = pc /\ z.then = "text"
  BY CoOps, Words DEF Types, Co

LEMMA TypedKeeps == ASSUME LiveInv, SendTextTurn PROVE LiveInv'
<1>1. /\ co["text"].pc = "idle" /\ UNCHANGED <<socket, opened, wire, holder, ended, heard>>
      /\ brain \in Brain /\ "text" \in Coroutines /\ co \in [Coroutines -> Co]
      /\ brain.queue \in Int /\ socket \in Nat /\ SameTurn(brain, brain)
  BY DEF SendTextTurn, LiveInv, Placed, LiveTypes, Brain, Coroutines, SameTurn
<1>2. ASSUME NEW pc \in {"wait", "hear", "ensure"}, NEW stray \in BOOLEAN
      PROVE  Types(pc, brain.queue, stray) \in Co /\ Types(pc, brain.queue, stray).pc = pc
             /\ Types(pc, brain.queue, stray).then = "text"
  <2>1. pc \in Pcs
    BY Words
  <2> QED BY <1>1, <2>1, TypesIsCo
<1>3. CASE ~brain.cancelled /\ socket # 0
  <2> DEFINE x == Types("wait", brain.queue, FALSE)
             k == [co EXCEPT !["text"] = x]
  <2>1. Injects(k, socket)
    BY <1>3 DEF SendTextTurn, Types
  <2>2. x \in Co
    BY <1>2
  <2> HIDE DEF x
  <2>3. k \in [Coroutines -> Co] /\ \A d \in Coroutines \ {"text"} : k[d] = co[d]
    BY <1>1, <2>2
  <2> HIDE DEF k
  <2>4. /\ co' \in [Coroutines -> Co] /\ brain' \in Brain /\ OnlyFor("text") /\ Restarted
        /\ co'["text"].pc = "wait" /\ AsksInTurn(socket)
    BY <1>1, <2>1, <2>3, InjectsDoes DEF LiveInv
  <2>5. Fits("text", co'["text"]) /\ GoesOn("text", socket)
    BY <2>4 DEF Fits, Rests, GoesOn
  <2>6. InUse("text", socket)
    BY <1>1, <1>3 DEF InUse, LiveInv, SocketInv
  <2>7. socket \in Nat \ {0} /\ heard' = heard
    BY <1>1, <1>3
  <2> QED BY <1>1, <2>4, <2>5, <2>6, <2>7, SettlesKeeps
<1>4. CASE brain.cancelled \/ socket = 0
  <2> DEFINE pc == IF brain.cancelled THEN "hear" ELSE "ensure"
             x == Types(pc, brain.queue, TRUE)
  <2>1. co' = [co EXCEPT !["text"] = x] /\ UNCHANGED <<brain, owes>>
    BY <1>4 DEF SendTextTurn, Types
  <2>2. x \in Co /\ x.pc \in {"hear", "ensure"} /\ x.then = "text"
    BY <1>2
  <2> HIDE DEF x
  <2>3. Moved("text", x)
    BY <2>1, <2>2 DEF Moved, Fits, Rests, Opening
  <2> QED BY <1>1, <2>1, <2>2, <2>3, LoneKeeps
<1> QED BY <1>3, <1>4

-----------------------------------------------------------------------------
(* The specification. *)

LEMMA LiveInitKeeps == LiveInit => LiveInv
<1> SUFFICES ASSUME LiveInit PROVE LiveInv
  OBVIOUS
<1>1. PICK cast \in Casts :
        /\ opened = cast.before
        /\ co = [c \in Coroutines |->
                    CASE c \notin cast.who \cup {"rx"} -> [Idle EXCEPT !.pc = "away"]
                      [] c \in cast.who /\ c = "warm" -> [Idle EXCEPT !.pc = "close", !.then = "reset"]
                      [] OTHER -> Idle]
        /\ brain = [Fresh EXCEPT !.cancelled = "warm" \in cast.who]
  BY DEF LiveInit
<1>2. socket = 0 /\ wire = {} /\ holder = "none" /\ owes = {} /\ heard = <<0, 0>>
  BY DEF LiveInit
<1>3. opened \in Nat
  BY <1>1, CastsAssumption
<1> DEFINE away == [Idle EXCEPT !.pc = "away"]
           cut == Turns(Idle, "close", "reset")
<1>4. away \in Co /\ away.pc = "away" /\ away.own = 0
  BY CoOps, Words DEF Co
<1>5. cut \in Co /\ cut.pc = "close" /\ cut.then = "reset" /\ cut.own = 0
  <2>1. "close" \in Pcs /\ "reset" \in Thens
    BY Words
  <2> QED BY <2>1, CoOps, TurnsIsCo
<1>6. \A c \in Coroutines : \/ c # "rx" /\ co[c] = away
                            \/ c = "warm" /\ co[c] = cut
                            \/ co[c] = Idle
  BY <1>1 DEF Turns
<1>7. co = [c \in Coroutines |-> co[c]]
  BY <1>1
<1> HIDE DEF away, cut
<1>8. /\ brain \in Brain /\ brain.talk = 0 /\ brain.since = 0 /\ brain.turn = 0 /\ brain.turns = 0
      /\ brain.done
  <2>1. /\ Fresh \in Brain /\ Fresh.talk = 0 /\ Fresh.since = 0 /\ Fresh.turn = 0 /\ Fresh.turns = 0
        /\ Fresh.done
    BY DEF Fresh, Brain
  <2>2. CASE "warm" \in cast.who
    <3>1. brain = [Fresh EXCEPT !.cancelled = TRUE]
      BY <1>1, <2>2
    <3> QED BY <2>1, <3>1 DEF Brain
  <2>3. CASE "warm" \notin cast.who
    <3>1. brain = [Fresh EXCEPT !.cancelled = FALSE]
      <4>1. ("warm" \in cast.who) = FALSE
        BY <2>3
      <4> QED BY <1>1, <4>1, Zenon
    <3> QED BY <2>1, <3>1 DEF Brain
  <2> QED BY <2>2, <2>3
<1>9. \A c \in Coroutines : co[c] \in Co /\ Fits(c, co[c])
  <2>1. \A c \in Coroutines \ {"rx"} : Fits(c, away)
    BY <1>4 DEF Fits, Rests, Coroutines
  <2>2. Fits("warm", cut)
    BY <1>5 DEF Fits, Closing
  <2> QED BY <1>4, <1>5, <1>6, <2>1, <2>2, CoOps, FitsIdle
<1>10. Placed
  <2>1. co \in [Coroutines -> Co]
    BY <1>7, <1>9
  <2> QED BY <1>2, <1>3, <1>8, <1>9, <2>1 DEF Placed, LiveTypes
<1>11. \A c \in Coroutines : co[c].pc \in {"away", "close", "idle"} /\ co[c].own = 0
                             /\ (c # "warm" => co[c].pc # "close")
  BY <1>4, <1>5, <1>6, CoOps
<1>12. SocketInv
  BY <1>2, <1>11 DEF SocketInv, OneSocket, Coroutines
<1>13. "voice" \in Coroutines /\ "rx" \in Coroutines
  BY DEF Coroutines
<1>14. ReadInv
  BY <1>8, <1>11, <1>13 DEF ReadInv
<1>15. CutInv
  BY <1>2, <1>8, <1>11, <1>13 DEF CutInv, Resetting, Cutting, Current
<1> QED BY <1>10, <1>12, <1>14, <1>15 DEF LiveInv

LEMMA LiveNextKeeps == LiveInv /\ [LiveNext]_liveVars => LiveInv'
<1> SUFFICES ASSUME LiveInv, [LiveNext]_liveVars PROVE LiveInv'
  OBVIOUS
<1>1. ASSUME NEW c \in Coroutines, Ensure(c) PROVE LiveInv'
  BY <1>1, EnsureKeeps
<1>2. ASSUME NEW c \in Coroutines, Opens(c) PROVE LiveInv'
  BY <1>2, OpensKeeps
<1>3. ASSUME NEW c \in Coroutines, Refused(c) PROVE LiveInv'
  BY <1>3, RefusedKeeps
<1>4. ASSUME NEW c \in Coroutines, Takes(c) PROVE LiveInv'
  BY <1>4, TakesKeeps
<1>5. ASSUME NEW c \in Coroutines, Exits(c) PROVE LiveInv'
  BY <1>5, ExitsKeeps
<1>6. ASSUME NEW c \in Coroutines, TurnEnds(c) PROVE LiveInv'
  BY <1>6, TurnEndsKeeps
<1>7. ASSUME NEW c \in Coroutines, SendBreaks(c) PROVE LiveInv'
  BY <1>7, SendBreaksKeeps
<1>8. CASE BeginUtterance
  BY <1>8, BeginKeeps
<1>9. CASE EndUtterance
  BY <1>9, EndKeeps
<1>10. CASE ContinueWithFunctions
  BY <1>10, ContinueKeeps
<1>11. CASE CancelTurn
  BY <1>11, CancelKeeps
<1>12. CASE SendTextTurn
  BY <1>12, TypedKeeps
<1>13. CASE Finish \/ SpeakerSpeaks \/ SpeakerReadsOn \/ SpeakerEnds \/ Heard
  BY <1>13, TextKeeps DEF SpeakerSteps
<1>14. CASE ResetConversation
  BY <1>14, ResetKeeps
<1>15. CASE Loops
  BY <1>15, LoopsKeeps
<1>16. ASSUME NEW final \in BOOLEAN, Message(final) PROVE LiveInv'
  BY <1>16, MessageKeeps
<1>17. CASE GoAway \/ ReceiveFails
  BY <1>17, ReceiveEndsKeeps
<1>18. CASE PushPcm \/ Drops \/ UNCHANGED liveVars
  BY <1>18, QuietKeeps
<1> QED BY <1>1, <1>2, <1>3, <1>4, <1>5, <1>6, <1>7, <1>8, <1>9, <1>10, <1>11, <1>12, <1>13, <1>14,
           <1>15, <1>16, <1>17, <1>18 DEF LiveNext

\* The invariant of the Live session: every coroutine is where its code can be, who connects
\* holds the lock and finds no socket, a turn of the moment has a reader, and a reset is a cut.
THEOREM LiveCorrect == LiveSpec => []LiveInv
<1>1. LiveInit => LiveInv
  BY LiveInitKeeps
<1>2. LiveInv /\ [LiveNext]_liveVars => LiveInv'
  BY LiveNextKeeps
<1> QED BY <1>1, <1>2, PTL DEF LiveSpec

\* No connection to Gemini is forgotten, for any number of them: one that is open is the one
\* in use or is being closed (_ensure_session and _close_live_socket around _lock).
THEOREM NoSocketIsLost == LiveSpec => []OneSocket
<1>1. LiveInv => OneSocket
  BY DEF LiveInv, SocketInv
<1> QED BY <1>1, LiveCorrect, PTL

\* A turn of the voice that waits for Gemini has its receive loop, whoever recovers, resets
\* or is cancelled meanwhile (_start_receive_loop and the ends of _receive_loop).
THEOREM TheTurnHasAReader == LiveSpec => []SomebodyReads
<1>1. LiveInv => SomebodyReads
  BY DEF LiveInv, ReadInv, SomebodyReads
<1> QED BY <1>1, LiveCorrect, PTL

\* No answer crosses reset_conversation: the loop that would read it has been cancelled, and
\* the next one reads from a socket of the new conversation.
THEOREM AResetIsACut == LiveSpec => []ResetCuts
<1>1. LiveInv => ResetCuts
  BY DEF LiveInv, CutInv, ResetCuts
<1> QED BY <1>1, LiveCorrect, PTL

=============================================================================
