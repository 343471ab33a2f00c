-------------------------- MODULE SessionLifecycle --------------------------
(***************************************************************************)
(* How device sessions begin, replace one another and end: the websocket   *)
(* endpoint (app/api/websocket.py), SessionManager, and run, close and the *)
(* loops of DeviceSession (app/sessions/session.py).                       *)
(*                                                                         *)
(* A connection is one websocket, its DeviceSession and the endpoint       *)
(* coroutine that serves it.  close() may run in three tasks: the          *)
(* endpoint's own, the endpoint of a newer connection of the same device,  *)
(* or the keepalive task, which close() cancels.  What happens inside a    *)
(* turn is the matter of DeviceSession.tla.                                *)
(***************************************************************************)
EXTENDS Integers, FiniteSets

CONSTANTS
    MaxConns,    \* bound on the connections, numbered as they come in
    Devices,     \* the robots
    MaxSessions, \* settings.max_concurrent_sessions
    MaxEvents    \* bound on the events of a behaviour: messages, losses, idle timeouts

ASSUME MaxConnsAssumption == MaxConns \in Nat
ASSUME MaxSessionsAssumption == MaxSessions \in Nat
ASSUME MaxEventsAssumption == MaxEvents \in Nat

Conns == 1 .. MaxConns
NoConn == 0

VARIABLES
    conn,      \* the connections, see Connections
    byDevice,  \* SessionManager._by_device
    gauge,     \* SESSIONS_ACTIVE
    shown,     \* what the dashboards were last told: is the robot online
    left       \* how many events are left

vars == <<conn, byDevice, gauge, shown, left>>

\* Where the endpoint is: waiting in attach for the session it replaces, in
\* _handshake, in the MCP part or the brain part of _discover_mcp, awaiting the
\* receive task, in close(), with nothing left but its finally block, or gone.
Places == {"new", "replacing", "hello", "mcp", "warming", "serving", "closing", "leaving", "gone"}

\* Where close() is: not called, in _cancel_turn and brain.close, awaiting the
\* writer, awaiting ws.close, through, or cut short by a cancellation.
Closings == {"none", "turn", "writer", "socket", "done", "cut"}

Fresh(d) ==
    [device |-> d, ep |-> "new", closing |-> "none", closer |-> NoConn, rx |-> "none",
     keepalive |-> "none", writer |-> "none", open |-> TRUE, peer |-> TRUE, brain |-> "none"]

Closed(k) == k.closing # "none"   \* _closed

\* online: the robot has a session, and it is not closed.
Online(reg, cs, d) == reg[d] # NoConn /\ ~Closed(cs[reg[d]])

Event == left > 0 /\ left' = left - 1

-----------------------------------------------------------------------------
\* close() up to its first await, in the endpoint of the connection who, the
\* session's own or a newer one, or in the keepalive task: NoConn.
CloseHead(k, who) == [k EXCEPT !.closing = "turn", !.closer = who]

\* run() up to the wait for hello.  The writer of a session closed before it
\* runs finds the end of the queue, its keepalive loop does not loop.
RunHead(k) ==
    [k EXCEPT !.ep = "hello",
              !.writer = IF Closed(k) THEN "done" ELSE "running",
              !.keepalive = IF Closed(k) THEN "done" ELSE "running"]

\* A bug: the receive task is awaited and nothing is closed.
EndRunOpen(c) == conn' = [conn EXCEPT ![c].ep = "leaving"]

\* The finally block of run(): close() returns at once if it was called before.
EndRun(c) ==
    conn' = [conn EXCEPT ![c] =
        IF Closed(@) THEN [@ EXCEPT !.ep = "leaving"]
                     ELSE CloseHead([@ EXCEPT !.ep = "closing"], c)]

\* attach: only a robot that has no session yet can be one too many.
Admitted(c) ==
    \/ byDevice[conn[c].device] # NoConn
    \/ Cardinality({d \in Devices : byDevice[d] # NoConn}) < MaxSessions

\* A bug: the session replaced is left alone.
ReplaceQuietly(c, previous) ==
    conn' = [conn EXCEPT ![c] = RunHead(@)] /\ gauge' = gauge + 1

\* attach after the lock: close the session that was there, then run.
Replace(c, previous) ==
    IF previous = NoConn \/ Closed(conn[previous])
    THEN conn' = [conn EXCEPT ![c] = RunHead(@)] /\ gauge' = gauge + 1
    ELSE /\ conn' = [conn EXCEPT ![c].ep = "replacing", ![previous] = CloseHead(@, c)]
         /\ UNCHANGED gauge

\* The endpoint has accepted the websocket and calls attach.
Arrives(c) == conn[c].ep = "new" /\ \A b \in 1 .. c - 1 : conn[b].ep # "new"

Attach(c) ==
    /\ Arrives(c) /\ Admitted(c)
    /\ byDevice' = [byDevice EXCEPT ![conn[c].device] = c]
    /\ Replace(c, byDevice[conn[c].device])
    /\ UNCHANGED <<shown, left>>

TooMany(c) ==
    /\ Arrives(c) /\ ~Admitted(c)
    /\ conn' = [conn EXCEPT ![c].ep = "leaving"]
    /\ UNCHANGED <<byDevice, gauge, shown, left>>

\* _handshake: a good hello leads to READY and tells the dashboards, unless the
\* session has been closed meanwhile: then the transition raises.
Hello(c) ==
    /\ conn[c].ep = "hello" /\ ~Closed(conn[c]) /\ conn[c].peer
    /\ conn' = [conn EXCEPT ![c].ep = "mcp", ![c].rx = "reading"]
    /\ shown' = [shown EXCEPT ![conn[c].device] = Online(byDevice, conn, conn[c].device)]
    /\ UNCHANGED <<byDevice, gauge, left>>

\* No hello in time, a bad one, a disconnect, or a session closed before it.
HelloFails(c) ==
    /\ conn[c].ep = "hello"
    /\ EndRun(c)
    /\ UNCHANGED <<byDevice, gauge, shown, left>>

\* _discover_mcp: the tools are listed, or the calls fail, and there is a brain.
Discovered(c) ==
    /\ conn[c].ep = "mcp"
    /\ conn' = [conn EXCEPT ![c].ep = "warming", ![c].brain = "idle"]
    /\ UNCHANGED <<byDevice, gauge, shown, left>>

\* The Live socket is opened, or cannot be, and run() awaits the receive task.
Warmed(c) ==
    /\ conn[c].ep = "warming"
    /\ \E b \in {"open", conn[c].brain} :
         conn' = [conn EXCEPT ![c].ep = "serving", ![c].brain = b]
    /\ UNCHANGED <<byDevice, gauge, shown, left>>

\* _receive_loop awaits a message, and looks at _closed only after handling it.
\* A message that starts listening makes begin_utterance open the Live socket.
RxReads(c) ==
    /\ Event /\ conn[c].rx = "reading" /\ conn[c].peer /\ conn[c].open
    /\ conn' = [conn EXCEPT ![c].rx = "handling"]
    /\ UNCHANGED <<byDevice, gauge, shown>>

RxHandles(c) ==
    /\ conn[c].rx = "handling"
    /\ \E b \in {conn[c].brain} \cup (IF conn[c].brain = "none" THEN {} ELSE {"open"}) :
         conn' = [conn EXCEPT ![c].brain = b,
                              ![c].rx = IF Closed(conn[c]) THEN "done" ELSE "reading"]
    /\ UNCHANGED <<byDevice, gauge, shown, left>>

RxDisconnects(c) ==
    /\ conn[c].rx = "reading" /\ ~(conn[c].peer /\ conn[c].open)
    /\ conn' = [conn EXCEPT ![c].rx = "done"]
    /\ UNCHANGED <<byDevice, gauge, shown, left>>

RunEnds(c) ==
    /\ conn[c].ep = "serving" /\ conn[c].rx = "done"
    /\ EndRun(c)
    /\ UNCHANGED <<byDevice, gauge, shown, left>>

\* _keepalive_loop: no inbound frame for device_idle_timeout_s while the state is
\* neither THINKING nor SPEAKING and nobody watches, or the robot is gone.
KeepaliveCloses(c) ==
    /\ Event /\ conn[c].keepalive = "running" /\ ~Closed(conn[c])
    /\ \/ conn[c].ep = "serving" /\ conn[c].rx = "reading"
       \/ conn[c].ep \in {"mcp", "warming", "serving"} /\ ~conn[c].peer
    /\ conn' = [conn EXCEPT ![c] = [CloseHead(@, NoConn) EXCEPT !.keepalive = "closing"]]
    /\ UNCHANGED <<byDevice, gauge, shown>>

\* _writer_loop ends at the first frame it cannot send.
WriterFails(c) ==
    /\ conn[c].writer = "running" /\ ~conn[c].peer
    /\ conn' = [conn EXCEPT ![c].writer = "done", ![c].open = FALSE]
    /\ UNCHANGED <<byDevice, gauge, shown, left>>

-----------------------------------------------------------------------------
\* close() from its first await on.

\* A bug: the writer task is taken for granted.
WriterOverAnyway(k) == "done"

\* A session that is closed before it runs has no writer to await.
WriterOver(k) == IF k.writer = "none" THEN "none" ELSE "done"

\* The keepalive task has cancelled itself: the cancellation is raised at the next
\* await that suspends, the one for the writer, and the rest of close() is skipped.
CutShort(k) == k.keepalive = "closing" /\ k.writer = "running"

\* brain.close, then cancel_pending, then the keepalive task is cancelled and the
\* writer told to end.  The endpoint goes on from ep.
TurnClosed(k, ep) ==
    [k EXCEPT !.ep = ep,
              !.closing = IF CutShort(k) THEN "cut" ELSE "writer",
              !.writer = IF CutShort(k) THEN "done" ELSE k.writer,
              !.brain = IF k.brain = "none" THEN "none" ELSE "idle",
              !.rx = IF ep = "leaving" THEN "done" ELSE k.rx,
              !.keepalive = IF k.keepalive = "running" \/ CutShort(k) THEN "done" ELSE k.keepalive]

\* cancel_pending raises CancelledError in whoever awaits an MCP reply, unless the
\* reply came just before.
CloseTurn(c) ==
    /\ conn[c].closing = "turn"
    /\ \/ conn' = [conn EXCEPT ![c] = TurnClosed(@, @.ep)]
       \/ conn[c].ep = "mcp" /\ conn' = [conn EXCEPT ![c] = TurnClosed(@, "leaving")]
    /\ UNCHANGED <<byDevice, gauge, shown, left>>

\* A bug: the writer is awaited, but never told to end.
CloseWriterUntold(c) ==
    /\ conn[c].closing = "writer" /\ conn[c].writer # "running"
    /\ conn' = [conn EXCEPT ![c].closing = "socket"]
    /\ UNCHANGED <<byDevice, gauge, shown, left>>

\* The writer ends, or is cancelled after 2 s.
CloseWriter(c) ==
    /\ conn[c].closing = "writer"
    /\ conn' = [conn EXCEPT ![c].closing = "socket", ![c].writer = WriterOver(conn[c])]
    /\ UNCHANGED <<byDevice, gauge, shown, left>>

\* A bug: the robot is offline, whatever session it has by now.
OnlineNever(d) == FALSE

\* push_presence looks the robot's session up anew.
OnlineNow(d) == Online(byDevice, conn, d)

\* ws.close, the gauge, the dashboards, and the caller goes on.  A keepalive task
\* that gets here found its writer gone, so no socket is open; telling the
\* dashboards is its first await.
CloseSocket(c) ==
    LET k  == [conn[c] EXCEPT !.closing = "done", !.open = FALSE,
                              !.keepalive = IF @ = "closing" THEN "done" ELSE @]
        by == conn[c].closer
    IN  /\ conn[c].closing = "socket"
        /\ \/ by = NoConn /\ conn' = [conn EXCEPT ![c] = k] /\ gauge' = gauge - 1
           \/ by = c /\ conn' = [conn EXCEPT ![c] = [k EXCEPT !.ep = "leaving"]]
              /\ gauge' = gauge - 1
           \/ by \notin {c, NoConn} /\ conn' = [conn EXCEPT ![c] = k, ![by] = RunHead(@)]
              /\ UNCHANGED gauge     \* one less here, one more in run()
        /\ \/ shown' = [shown EXCEPT ![conn[c].device] = OnlineNow(conn[c].device)]
           \/ by = NoConn /\ UNCHANGED shown
        /\ UNCHANGED <<byDevice, left>>

\* A bug: whoever leaves takes the entry along.
DetachAny(c) == byDevice' = [byDevice EXCEPT ![conn[c].device] = NoConn]

\* A bug: a session that was closed is taken to be detached already.
DetachOpen(c) ==
    byDevice' = [byDevice EXCEPT ![conn[c].device] =
                     IF @ = c /\ ~Closed(conn[c]) THEN NoConn ELSE @]

\* detach: only the session that is still the robot's own is removed.
Detach(c) ==
    byDevice' = [byDevice EXCEPT ![conn[c].device] = IF @ = c THEN NoConn ELSE @]

\* The finally block of the endpoint.
Leave(c) ==
    /\ conn[c].ep = "leaving"
    /\ Detach(c)
    /\ conn' = [conn EXCEPT ![c].ep = "gone", ![c].open = FALSE]
    /\ UNCHANGED <<gauge, shown, left>>

\* The robot's side of the connection is lost.
PeerLost(c) ==
    /\ Event /\ conn[c].ep \notin {"new", "gone"} /\ conn[c].peer
    /\ conn' = [conn EXCEPT ![c].peer = FALSE]
    /\ UNCHANGED <<byDevice, gauge, shown>>

-----------------------------------------------------------------------------
Init ==
    /\ \E device \in [Conns -> Devices] : conn = [c \in Conns |-> Fresh(device[c])]
    /\ byDevice = [d \in Devices |-> NoConn]
    /\ gauge = 0
    /\ shown = [d \in Devices |-> FALSE]
    /\ left = MaxEvents

Serve(c) == HelloFails(c) \/ Discovered(c) \/ Warmed(c) \/ RunEnds(c) \/ Leave(c)

Receive(c) == RxHandles(c) \/ RxDisconnects(c)

CloseStep(c) == CloseTurn(c) \/ CloseWriter(c) \/ CloseSocket(c)

Next ==
    \E c \in Conns :
        \/ Attach(c) \/ TooMany(c) \/ Hello(c) \/ Serve(c)
        \/ RxReads(c) \/ Receive(c) \/ KeepaliveCloses(c) \/ WriterFails(c)
        \/ CloseStep(c) \/ PeerLost(c)

Spec == Init /\ [][Next]_vars

FairSpec ==
    Spec /\ \A c \in Conns : WF_vars(Serve(c)) /\ WF_vars(Receive(c)) /\ WF_vars(CloseStep(c))

-----------------------------------------------------------------------------
\* Properties.

Connections ==
    [device : Devices, ep : Places, closing : Closings, closer : Conns \cup {NoConn},
     rx : {"none", "reading", "handling", "done"},
     keepalive : {"none", "running", "closing", "done"},
     writer : {"none", "running", "done"},
     open : BOOLEAN,                    \* application_state is CONNECTED
     peer : BOOLEAN,                    \* the robot is there
     brain : {"none", "idle", "open"}]    \* open: with a Live socket

\* Every variable has its type, a session is registered under its own robot, and
\* what run() creates is not there before it.
TypeOK ==
    /\ conn \in [Conns -> Connections]
    /\ \A c \in Conns : conn[c].ep \in {"new", "replacing"} =>
           conn[c].rx = "none" /\ conn[c].writer = "none" /\ conn[c].keepalive = "none"
    /\ byDevice \in [Devices -> Conns \cup {NoConn}]
    /\ \A d \in Devices : byDevice[d] # NoConn => conn[byDevice[d]].device = d
    /\ gauge \in Int
    /\ shown \in [Devices -> BOOLEAN]
    /\ left \in 0 .. MaxEvents

\* run() has begun and the session is not closed.
Served(c) == conn[c].ep \in {"hello", "mcp", "warming", "serving"} /\ ~Closed(conn[c])

\* A robot has one session at a time, however its connections race: before a
\* new one runs, every other one of the same robot is closed.
OneServing ==
    \A b, c \in Conns : conn[b].device = conn[c].device /\ Served(b) /\ Served(c) => b = c

\* The session that serves a robot is the one the registry finds for it: the
\* dashboard's commands reach it, and the next connection closes it.
ServedIsRegistered == \A c \in Conns : Served(c) => byDevice[conn[c].device] = c

\* An endpoint that is gone leaves no entry: a leaked one takes one of the
\* max_concurrent_sessions for ever.
SlotsAreFreed ==
    \A d \in Devices : byDevice[d] # NoConn => conn[byDevice[d]].ep \notin {"new", "gone"}

\* SESSIONS_ACTIVE comes back to zero, also when a session is closed before it
\* runs, but for the sessions whose close() was cut short.
GaugeIsBalanced ==
    (\A c \in Conns : conn[c].ep \in {"new", "gone"} /\ conn[c].closing \in {"none", "done", "cut"})
        => gauge = Cardinality({c \in Conns : conn[c].closing = "cut"})

Settled(c) ==
    /\ conn[c].ep \in {"new", "serving", "gone"} /\ conn[c].closing \in {"none", "done"}
    /\ Closed(conn[c]) => conn[c].closer # NoConn

\* Once the connections of a robot have settled, the dashboards show online if
\* and only if it has an open session, whatever the order in which the old
\* session said offline and the new one online.
PresenceIsTrue ==
    \A d \in Devices :
        (\A c \in Conns : conn[c].device = d => Settled(c)) => shown[d] = Online(byDevice, conn, d)

\* A session that is closed is done with: its endpoint ends, and with it the
\* receive loop, and who waits for it in attach goes on, unless close() was cut
\* short in the keepalive task.
ClosedIsGone ==
    <>[](\A c \in Conns :
            /\ Closed(conn[c]) => conn[c].ep = "gone" \/ conn[c].closing = "cut"
            /\ conn[c].ep # "replacing")

\* close() closes the socket, whoever calls it.
CloseClosesSocket == <>[](\A c \in Conns : Closed(conn[c]) => ~conn[c].open)

\* There is one Live socket per websocket: none outlives its connection.
LiveSocketIsReleased ==
    \A c \in Conns : conn[c].ep = "gone" /\ conn[c].closing = "done" => conn[c].brain # "open"

=============================================================================
