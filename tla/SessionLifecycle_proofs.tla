----------------------- MODULE SessionLifecycle_proofs -----------------------
(***************************************************************************)
(* What holds of the registry, the gauge and the presence for any number   *)
(* of connections, robots and sessions: TypeOK, OneServing,                *)
(* ServedIsRegistered, SlotsAreFreed, GaugeIsBalanced and PresenceIsTrue.  *)
(***************************************************************************)
EXTENDS SessionLifecycle, FiniteSetTheorems, TLAPS

\* The endpoint is past attach and has not come to its end.
Attached == {"replacing", "hello", "mcp", "warming", "serving"}

\* close() is under way.
Active(k) == k.closing \in {"turn", "writer", "socket"}

\* ServedIsRegistered, from the moment of attach.
OpenIsRegistered ==
    \A c \in Conns :
        conn[c].ep \in Attached /\ ~Closed(conn[c]) => byDevice[conn[c].device] = c

\* Whoever runs close() is where the call is: the endpoint of the connection that
\* closes another waits in attach, the one that closes its own in run().
CallersWait ==
    \A c \in Conns : Active(conn[c]) =>
        /\ conn[c].closer = c => conn[c].ep = "closing"
        /\ conn[c].closer \notin {NoConn, c} => conn[conn[c].closer].ep = "replacing"

\* attach waits for one session only.
OneAwaited ==
    \A b, c \in Conns :
        /\ Active(conn[b]) /\ Active(conn[c])
        /\ conn[b].closer = conn[c].closer /\ conn[b].closer # NoConn
        => b = c

IInv ==
    /\ TypeOK
    /\ SlotsAreFreed
    /\ OpenIsRegistered
    /\ CallersWait
    /\ OneAwaited

-----------------------------------------------------------------------------
\* A step that touches one connection, and neither the registry nor the place of
\* an endpoint others rely on, keeps the invariant.
Harmless(c, k) ==
    /\ k \in Connections /\ k.device = conn[c].device
    /\ k.ep \in {"new", "replacing"} =>
           k.rx = "none" /\ k.writer = "none" /\ k.keepalive = "none"
    /\ k.ep \in {"new", "gone"} => k.ep = conn[c].ep
    /\ k.ep \in Attached /\ ~Closed(k) => conn[c].ep \in Attached /\ ~Closed(conn[c])
    /\ conn[c].ep = "replacing" => k.ep = "replacing"
    /\ Active(k) => \/ Active(conn[c]) /\ k.closer = conn[c].closer
                    \/ k.closer = NoConn
                    \/ k.closer = c /\ conn[c].ep # "replacing"
    /\ Active(k) /\ k.closer = c => k.ep = "closing"

LEMMA HarmlessKeeps ==
  ASSUME IInv, NEW c \in Conns, NEW k, Harmless(c, k),
         conn' = [conn EXCEPT ![c] = k], UNCHANGED byDevice,
         gauge' \in Int, shown' \in [Devices -> BOOLEAN], left' \in 0 .. MaxEvents
  PROVE  IInv'
<1> USE DEF IInv, Conns, NoConn
<1>1. /\ conn \in [Conns -> Connections] /\ conn' \in [Conns -> Connections]
      /\ conn'[c] = k /\ \A b \in Conns : b # c => conn'[b] = conn[b]
      /\ byDevice' = byDevice /\ byDevice \in [Devices -> Conns \cup {NoConn}]
  BY DEF TypeOK, Harmless
<1>2. TypeOK'
  BY <1>1 DEF TypeOK, Harmless
<1>3. SlotsAreFreed'
  BY <1>1 DEF TypeOK, Harmless, SlotsAreFreed
<1>4. OpenIsRegistered'
  BY <1>1 DEF Harmless, OpenIsRegistered
<1>5. CallersWait'
  <2> SUFFICES ASSUME NEW b \in Conns, Active(conn'[b])
               PROVE  /\ conn'[b].closer = b => conn'[b].ep = "closing"
                      /\ conn'[b].closer \notin {NoConn, b} =>
                             conn'[conn'[b].closer].ep = "replacing"
    BY DEF CallersWait, Active
  <2>1. conn'[b].closer \in Conns \cup {NoConn}
    BY <1>1 DEF Connections
  <2>2. CASE b = c
    BY <1>1, <2>1, <2>2 DEF Harmless, CallersWait
  <2>3. CASE b # c
    BY <1>1, <2>1, <2>3 DEF Harmless, CallersWait
  <2> QED BY <2>2, <2>3
<1>6. OneAwaited'
  <2> SUFFICES ASSUME NEW a \in Conns, NEW b \in Conns, Active(conn'[a]), Active(conn'[b]),
                      conn'[a].closer = conn'[b].closer, conn'[a].closer # NoConn, a # b
               PROVE  FALSE
    BY DEF OneAwaited, Active
  <2>1. ASSUME NEW d \in Conns, d # c, Active(conn[d]), Active(k), conn[d].closer = k.closer,
               k.closer # NoConn
        PROVE  FALSE
    BY <2>1 DEF Harmless, CallersWait, OneAwaited
  <2>2. CASE a = c
    BY <1>1, <2>1, <2>2
  <2>3. CASE b = c
    BY <1>1, <2>1, <2>3
  <2>4. CASE a # c /\ b # c
    BY <1>1, <2>4 DEF OneAwaited
  <2> QED BY <2>2, <2>3, <2>4
<1> QED BY <1>2, <1>3, <1>4, <1>5, <1>6

-----------------------------------------------------------------------------
THEOREM Start == Init => IInv
<1> SUFFICES ASSUME Init PROVE IInv
  OBVIOUS
<1> USE MaxConnsAssumption, MaxEventsAssumption DEF Conns, NoConn
<1>1. PICK device \in [Conns -> Devices] : conn = [c \in Conns |-> Fresh(device[c])]
  BY DEF Init
<1>2. \A c \in Conns : conn[c] = Fresh(device[c]) /\ device[c] \in Devices
  BY <1>1
<1>3. TypeOK
  BY <1>1, <1>2 DEF Init, TypeOK, Fresh, Connections, Places, Closings
<1>4. SlotsAreFreed
  BY DEF Init, SlotsAreFreed
<1>5. \A c \in Conns : conn[c].ep = "new" /\ conn[c].closing = "none"
  <2> TAKE c \in Conns
  <2>1. conn[c] = Fresh(device[c])
    BY <1>2
  <2> QED BY <2>1 DEF Fresh
<1> QED
  BY <1>3, <1>4, <1>5 DEF IInv, OpenIsRegistered, CallersWait, OneAwaited, Attached, Active

\* What the invariant says of one connection by itself.
LEMMA Here ==
  ASSUME IInv, NEW c \in Conns
  PROVE  /\ conn \in [Conns -> Connections] /\ conn[c] \in Connections
         /\ conn[c].ep \in {"new", "replacing"} =>
                conn[c].rx = "none" /\ conn[c].writer = "none" /\ conn[c].keepalive = "none"
         /\ Active(conn[c]) /\ conn[c].closer = c => conn[c].ep = "closing"
  BY DEF IInv, TypeOK, CallersWait

LEMMA TooManyKeeps == ASSUME IInv, NEW c \in Conns, TooMany(c) PROVE IInv'
<1> DEFINE k == [conn[c] EXCEPT !.ep = "leaving"]
<1>1. conn' = [conn EXCEPT ![c] = k]
  BY Here DEF TooMany
<1>2. k \in Connections
  BY Here DEF Connections, Places, Closings
<1>3. Harmless(c, k)
  BY <1>2, Here DEF TooMany, Harmless, Connections, Closed, Active, Attached, Arrives
<1>4. UNCHANGED byDevice /\ gauge' \in Int /\ shown' \in [Devices -> BOOLEAN]
      /\ left' \in 0 .. MaxEvents
  BY MaxEventsAssumption DEF TooMany, IInv, TypeOK
<1> HIDE DEF k
<1> QED BY <1>1, <1>3, <1>4, HarmlessKeeps

LEMMA HelloKeeps == ASSUME IInv, NEW c \in Conns, Hello(c) PROVE IInv'
<1> DEFINE k == [conn[c] EXCEPT !.ep = "mcp", !.rx = "reading"]
<1>1. conn' = [conn EXCEPT ![c] = k]
  BY Here DEF Hello
<1>2. k \in Connections
  BY Here DEF Connections, Places, Closings
<1>3. Harmless(c, k)
  BY <1>2, Here DEF Hello, Harmless, Connections, Closed, Active, Attached
<1>4. UNCHANGED byDevice /\ gauge' \in Int /\ shown' \in [Devices -> BOOLEAN]
      /\ left' \in 0 .. MaxEvents
  BY MaxEventsAssumption DEF Hello, IInv, TypeOK, Online, Closed
<1> HIDE DEF k
<1> QED BY <1>1, <1>3, <1>4, HarmlessKeeps

LEMMA DiscoveredKeeps == ASSUME IInv, NEW c \in Conns, Discovered(c) PROVE IInv'
<1> DEFINE k == [conn[c] EXCEPT !.ep = "warming", !.brain = "idle"]
<1>1. conn' = [conn EXCEPT ![c] = k]
  BY Here DEF Discovered
<1>2. k \in Connections
  BY Here DEF Connections, Places, Closings
<1>3. Harmless(c, k)
  BY <1>2, Here DEF Discovered, Harmless, Connections, Closed, Active, Attached
<1>4. UNCHANGED byDevice /\ gauge' \in Int /\ shown' \in [Devices -> BOOLEAN]
      /\ left' \in 0 .. MaxEvents
  BY MaxEventsAssumption DEF Discovered, IInv, TypeOK
<1> HIDE DEF k
<1> QED BY <1>1, <1>3, <1>4, HarmlessKeeps

LEMMA RxReadsKeeps == ASSUME IInv, NEW c \in Conns, RxReads(c) PROVE IInv'
<1> DEFINE k == [conn[c] EXCEPT !.rx = "handling"]
<1>1. conn' = [conn EXCEPT ![c] = k]
  BY Here DEF RxReads
<1>2. k \in Connections
  BY Here DEF Connections, Places, Closings
<1>3. Harmless(c, k)
  BY <1>2, Here DEF RxReads, Harmless, Connections, Closed, Active, Attached
<1>4. UNCHANGED byDevice /\ gauge' \in Int /\ shown' \in [Devices -> BOOLEAN]
      /\ left' \in 0 .. MaxEvents
  BY MaxEventsAssumption DEF RxReads, IInv, TypeOK, Event
<1> HIDE DEF k
<1> QED BY <1>1, <1>3, <1>4, HarmlessKeeps

LEMMA RxDisconnectsKeeps == ASSUME IInv, NEW c \in Conns, RxDisconnects(c) PROVE IInv'
<1> DEFINE k == [conn[c] EXCEPT !.rx = "done"]
<1>1. conn' = [conn EXCEPT ![c] = k]
  BY Here DEF RxDisconnects
<1>2. k \in Connections
  BY Here DEF Connections, Places, Closings
<1>3. Harmless(c, k)
  BY <1>2, Here DEF RxDisconnects, Harmless, Connections, Closed, Active, Attached
<1>4. UNCHANGED byDevice /\ gauge' \in Int /\ shown' \in [Devices -> BOOLEAN]
      /\ left' \in 0 .. MaxEvents
  BY MaxEventsAssumption DEF RxDisconnects, IInv, TypeOK
<1> HIDE DEF k
<1> QED BY <1>1, <1>3, <1>4, HarmlessKeeps

LEMMA KeepaliveClosesKeeps == ASSUME IInv, NEW c \in Conns, KeepaliveCloses(c) PROVE IInv'
<1> DEFINE k == [conn[c] EXCEPT !.closing = "turn", !.closer = NoConn, !.keepalive = "closing"]
<1>1. conn' = [conn EXCEPT ![c] = k]
  BY Here DEF KeepaliveCloses, CloseHead
<1>2. k \in Connections
  BY Here DEF Connections, Places, Closings
<1>3. Harmless(c, k)
  BY <1>2, Here DEF KeepaliveCloses, Conns, NoConn, Harmless, Connections, Closed, Active, Attached
<1>4. UNCHANGED byDevice /\ gauge' \in Int /\ shown' \in [Devices -> BOOLEAN]
      /\ left' \in 0 .. MaxEvents
  BY MaxEventsAssumption DEF KeepaliveCloses, IInv, TypeOK, Event
<1> HIDE DEF k
<1> QED BY <1>1, <1>3, <1>4, HarmlessKeeps

LEMMA WriterFailsKeeps == ASSUME IInv, NEW c \in Conns, WriterFails(c) PROVE IInv'
<1> DEFINE k == [conn[c] EXCEPT !.writer = "done", !.open = FALSE]
<1>1. conn' = [conn EXCEPT ![c] = k]
  BY Here DEF WriterFails
<1>2. k \in Connections
  BY Here DEF Connections, Places, Closings
<1>3. Harmless(c, k)
  BY <1>2, Here DEF WriterFails, Harmless, Connections, Closed, Active, Attached
<1>4. UNCHANGED byDevice /\ gauge' \in Int /\ shown' \in [Devices -> BOOLEAN]
      /\ left' \in 0 .. MaxEvents
  BY MaxEventsAssumption DEF WriterFails, IInv, TypeOK
<1> HIDE DEF k
<1> QED BY <1>1, <1>3, <1>4, HarmlessKeeps

LEMMA PeerLostKeeps == ASSUME IInv, NEW c \in Conns, PeerLost(c) PROVE IInv'
<1> DEFINE k == [conn[c] EXCEPT !.peer = FALSE]
<1>1. conn' = [conn EXCEPT ![c] = k]
  BY Here DEF PeerLost
<1>2. k \in Connections
  BY Here DEF Connections, Places, Closings
<1>3. Harmless(c, k)
  BY <1>2, Here DEF PeerLost, Harmless, Connections, Closed, Active, Attached
<1>4. UNCHANGED byDevice /\ gauge' \in Int /\ shown' \in [Devices -> BOOLEAN]
      /\ left' \in 0 .. MaxEvents
  BY MaxEventsAssumption DEF PeerLost, IInv, TypeOK, Event
<1> HIDE DEF k
<1> QED BY <1>1, <1>3, <1>4, HarmlessKeeps

\* The end of run(), whether somebody else closes the session or nobody does.
LEMMA EndRunKeeps ==
  ASSUME IInv, NEW c \in Conns, conn[c].ep \in {"hello", "serving"}, EndRun(c),
         UNCHANGED <<byDevice, gauge, shown, left>>
  PROVE  IInv'
<1> DEFINE k == [conn[c] EXCEPT !.ep = "leaving"]
           l == [conn[c] EXCEPT !.ep = "closing", !.closing = "turn", !.closer = c]
<1>1. UNCHANGED byDevice /\ gauge' \in Int /\ shown' \in [Devices -> BOOLEAN]
      /\ left' \in 0 .. MaxEvents
  BY DEF IInv, TypeOK
<1>2. k \in Connections /\ l \in Connections
  BY Here DEF Connections, Places, Closings
<1>3. CASE Closed(conn[c])
  <2>1. conn' = [conn EXCEPT ![c] = k]
    BY <1>3, Here DEF EndRun
  <2>2. Harmless(c, k)
    BY <1>2, <1>3, Here DEF Harmless, Connections, Closed, Active, Attached
  <2> HIDE DEF k
  <2> QED BY <1>1, <2>1, <2>2, HarmlessKeeps
<1>4. CASE ~Closed(conn[c])
  <2>1. conn' = [conn EXCEPT ![c] = l]
    BY <1>4, Here DEF EndRun, CloseHead
  <2>2. Harmless(c, l)
    BY <1>2, Here DEF Harmless, Connections, Closed, Active, Attached
  <2> HIDE DEF l
  <2> QED BY <1>1, <2>1, <2>2, HarmlessKeeps
<1> QED BY <1>3, <1>4

LEMMA WarmedKeeps == ASSUME IInv, NEW c \in Conns, Warmed(c) PROVE IInv'
<1>1. PICK b \in {"open", conn[c].brain} :
          conn' = [conn EXCEPT ![c].ep = "serving", ![c].brain = b]
  BY DEF Warmed
<1> DEFINE k == [conn[c] EXCEPT !.ep = "serving", !.brain = b]
<1>2. conn' = [conn EXCEPT ![c] = k]
  BY <1>1, Here
<1>3. b \in {"none", "idle", "open"}
  BY Here DEF Connections
<1>4. k \in Connections
  BY <1>3, Here DEF Connections, Places
<1>5. Harmless(c, k)
  BY <1>4, Here DEF Warmed, Harmless, Connections, Closed, Active, Attached
<1>6. UNCHANGED byDevice /\ gauge' \in Int /\ shown' \in [Devices -> BOOLEAN]
      /\ left' \in 0 .. MaxEvents
  BY DEF Warmed, IInv, TypeOK
<1> HIDE DEF k
<1> QED BY <1>2, <1>5, <1>6, HarmlessKeeps

LEMMA RxHandlesKeeps == ASSUME IInv, NEW c \in Conns, RxHandles(c) PROVE IInv'
<1>1. PICK b \in {"none", "idle", "open"}, r \in {"done", "reading"} :
          conn' = [conn EXCEPT ![c].brain = b, ![c].rx = r]
  BY Here DEF RxHandles, Connections
<1> DEFINE k == [conn[c] EXCEPT !.brain = b, !.rx = r]
<1>2. conn' = [conn EXCEPT ![c] = k]
  BY <1>1, Here
<1>3. k \in Connections
  BY Here DEF Connections
<1>4. Harmless(c, k)
  BY <1>3, Here DEF RxHandles, Harmless, Connections, Closed, Active, Attached
<1>5. UNCHANGED byDevice /\ gauge' \in Int /\ shown' \in [Devices -> BOOLEAN]
      /\ left' \in 0 .. MaxEvents
  BY DEF RxHandles, IInv, TypeOK
<1> HIDE DEF k
<1> QED BY <1>2, <1>4, <1>5, HarmlessKeeps

LEMMA TurnClosedIsHarmless ==
  ASSUME IInv, NEW c \in Conns, conn[c].closing = "turn",
         NEW ep, ep # conn[c].ep => ep = "leaving" /\ conn[c].ep = "mcp"
  PROVE  Harmless(c, TurnClosed(conn[c], ep))
<1> DEFINE cl == IF CutShort(conn[c]) THEN "cut" ELSE "writer"
           w  == IF CutShort(conn[c]) THEN "done" ELSE conn[c].writer
           b  == IF conn[c].brain = "none" THEN "none" ELSE "idle"
           r  == IF ep = "leaving" THEN "done" ELSE conn[c].rx
           a  == IF conn[c].keepalive = "running" \/ CutShort(conn[c])
                 THEN "done" ELSE conn[c].keepalive
           k  == [conn[c] EXCEPT !.ep = ep, !.closing = cl, !.writer = w, !.brain = b,
                                 !.rx = r, !.keepalive = a]
<1>1. TurnClosed(conn[c], ep) = k
  BY DEF TurnClosed
<1>2. ep \in Places /\ cl \in {"cut", "writer"} /\ b \in {"none", "idle", "open"}
  BY Here DEF Connections, Places
<1>3. w \in {"none", "running", "done"}
  BY Here DEF Connections
<1>4. r \in {"none", "reading", "handling", "done"}
  BY Here DEF Connections
<1>5. a \in {"none", "running", "closing", "done"}
  BY Here DEF Connections
<1>6. conn[c].ep \in {"new", "replacing"} =>
          w = "none" /\ r = "none" /\ a = "none" /\ ep = conn[c].ep
  BY Here DEF CutShort
<1> HIDE DEF cl, w, b, r, a
<1>7. k \in Connections
  BY <1>2, <1>3, <1>4, <1>5, Here DEF Connections, Closings
<1>8. k.device = conn[c].device /\ k.ep = ep /\ k.closing = cl /\ k.closer = conn[c].closer
      /\ k.writer = w /\ k.rx = r /\ k.keepalive = a
  BY Here DEF Connections
<1> HIDE DEF k
<1>9. Harmless(c, k)
  BY <1>2, <1>6, <1>7, <1>8, Here DEF Harmless, Closed, Active, Attached
<1> QED BY <1>1, <1>9

LEMMA CloseTurnKeeps == ASSUME IInv, NEW c \in Conns, CloseTurn(c) PROVE IInv'
<1> DEFINE e == conn[c].ep
           k == TurnClosed(conn[c], e)
           l == TurnClosed(conn[c], "leaving")
<1>1. conn[c].closing = "turn" /\ conn[c].ep = e
  BY DEF CloseTurn
<1>2. UNCHANGED byDevice /\ gauge' \in Int /\ shown' \in [Devices -> BOOLEAN]
      /\ left' \in 0 .. MaxEvents
  BY DEF CloseTurn, IInv, TypeOK
<1>3. \/ conn' = [conn EXCEPT ![c] = k]
      \/ e = "mcp" /\ conn' = [conn EXCEPT ![c] = l]
  BY Here DEF CloseTurn
<1> HIDE DEF e
<1>4. Harmless(c, k)
  BY <1>1, TurnClosedIsHarmless
<1>5. e = "mcp" => Harmless(c, l)
  BY <1>1, TurnClosedIsHarmless
<1> HIDE DEF k, l
<1> QED BY <1>2, <1>3, <1>4, <1>5, HarmlessKeeps

LEMMA CloseWriterKeeps == ASSUME IInv, NEW c \in Conns, CloseWriter(c) PROVE IInv'
<1> DEFINE w == WriterOver(conn[c])
           k == [conn[c] EXCEPT !.closing = "socket", !.writer = w]
<1>1. conn' = [conn EXCEPT ![c] = k]
  BY Here DEF CloseWriter
<1>2. w \in {"none", "done"} /\ (conn[c].ep \in {"new", "replacing"} => w = "none")
  BY Here DEF WriterOver
<1> HIDE DEF w
<1>3. k \in Connections
  BY <1>2, Here DEF Connections, Closings
<1>4. Harmless(c, k)
  BY <1>2, <1>3, Here DEF CloseWriter, Harmless, Connections, Closed, Active, Attached
<1>5. UNCHANGED byDevice /\ gauge' \in Int /\ shown' \in [Devices -> BOOLEAN]
      /\ left' \in 0 .. MaxEvents
  BY DEF CloseWriter, IInv, TypeOK
<1> HIDE DEF k
<1> QED BY <1>1, <1>4, <1>5, HarmlessKeeps

-----------------------------------------------------------------------------
\* The steps that touch the registry or two connections at once.

\* attach of a robot with no session, or with one that is closed already.
LEMMA AttachAloneKeeps ==
  ASSUME IInv, NEW c \in Conns, conn[c].ep = "new",
         conn' = [conn EXCEPT ![c] = RunHead(conn[c])],
         byDevice' = [byDevice EXCEPT ![conn[c].device] = c],
         byDevice[conn[c].device] # NoConn => Closed(conn[byDevice[conn[c].device]]),
         gauge' = gauge + 1, UNCHANGED <<shown, left>>
  PROVE  IInv'
<1> USE DEF IInv, Conns, NoConn
<1> DEFINE w == IF Closed(conn[c]) THEN "done" ELSE "running"
           k == [conn[c] EXCEPT !.ep = "hello", !.writer = w, !.keepalive = w]
           d == conn[c].device
<1>1. RunHead(conn[c]) = k
  BY DEF RunHead
<1>2. w \in {"done", "running"}
  OBVIOUS
<1> HIDE DEF w
<1>3. /\ k \in Connections /\ k.device = d /\ k.ep = "hello"
      /\ k.closing = conn[c].closing /\ k.closer = conn[c].closer
  BY <1>2, Here DEF Connections, Places
<1> HIDE DEF k
<1>4. /\ conn \in [Conns -> Connections] /\ conn' \in [Conns -> Connections]
      /\ conn'[c] = k /\ \A b \in Conns : b # c => conn'[b] = conn[b]
      /\ d \in Devices /\ byDevice \in [Devices -> Conns \cup {NoConn}]
      /\ byDevice' \in [Devices -> Conns \cup {NoConn}]
      /\ byDevice'[d] = c /\ \A e \in Devices : e # d => byDevice'[e] = byDevice[e]
  BY <1>1, <1>3, Here DEF TypeOK, Connections
<1>5. TypeOK'
  BY <1>3, <1>4 DEF TypeOK
<1>6. SlotsAreFreed'
  BY <1>3, <1>4 DEF SlotsAreFreed
<1>7. OpenIsRegistered'
  <2> SUFFICES ASSUME NEW b \in Conns, conn'[b].ep \in Attached, ~Closed(conn'[b])
               PROVE  byDevice'[conn'[b].device] = b
    BY DEF OpenIsRegistered, Closed
  <2>1. CASE b = c
    BY <1>3, <1>4, <2>1
  <2>2. CASE b # c
    <3>1. byDevice[conn[b].device] = b /\ ~Closed(conn[b]) /\ conn[b].device \in Devices
      BY <1>4, <2>2 DEF OpenIsRegistered, Connections
    <3> QED BY <1>4, <2>2, <3>1
  <2> QED BY <2>1, <2>2
<1>8. CallersWait'
  <2> SUFFICES ASSUME NEW b \in Conns, Active(conn'[b])
               PROVE  /\ conn'[b].closer = b => conn'[b].ep = "closing"
                      /\ conn'[b].closer \notin {NoConn, b} =>
                             conn'[conn'[b].closer].ep = "replacing"
    BY DEF CallersWait, Active
  <2>1. conn'[b].closer = conn[b].closer /\ Active(conn[b]) /\ conn[b].closer \in Conns \cup {NoConn}
    BY <1>3, <1>4 DEF Active, Connections
  <2>2. conn[b].closer # c
    BY <2>1 DEF CallersWait
  <2> QED BY <1>3, <1>4, <2>1, <2>2 DEF CallersWait
<1>9. OneAwaited'
  <2>1. \A b \in Conns : conn'[b].closing = conn[b].closing /\ conn'[b].closer = conn[b].closer
    BY <1>3, <1>4
  <2> QED BY <2>1 DEF OneAwaited, Active
<1> QED BY <1>5, <1>6, <1>7, <1>8, <1>9

\* attach of a robot with an open session, the one called p.
LEMMA AttachOverKeeps ==
  ASSUME IInv, NEW c \in Conns, conn[c].ep = "new",
         NEW p \in Conns, p = byDevice[conn[c].device], ~Closed(conn[p]),
         conn' = [conn EXCEPT ![c].ep = "replacing", ![p] = CloseHead(@, c)],
         byDevice' = [byDevice EXCEPT ![conn[c].device] = c],
         UNCHANGED <<gauge, shown, left>>
  PROVE  IInv'
<1> USE DEF IInv, Conns, NoConn
<1> DEFINE k == [conn[c] EXCEPT !.ep = "replacing"]
           l == [conn[p] EXCEPT !.closing = "turn", !.closer = c]
           d == conn[c].device
<1>1. d \in Devices /\ conn \in [Conns -> Connections]
  BY DEF TypeOK, Connections
<1>2. p # c
  BY <1>1 DEF SlotsAreFreed
<1>3. conn' = [conn EXCEPT ![c] = k, ![p] = l]
  BY <1>1, <1>2 DEF CloseHead
<1>4. /\ k \in Connections /\ k.device = d /\ k.ep = "replacing"
      /\ k.closing = conn[c].closing /\ k.closer = conn[c].closer
      /\ k.rx = conn[c].rx /\ k.writer = conn[c].writer /\ k.keepalive = conn[c].keepalive
  BY Here DEF Connections, Places
<1>5. /\ l \in Connections /\ l.device = conn[p].device /\ l.ep = conn[p].ep
      /\ l.closing = "turn" /\ l.closer = c
      /\ l.rx = conn[p].rx /\ l.writer = conn[p].writer /\ l.keepalive = conn[p].keepalive
  BY Here DEF Connections, Closings
<1> HIDE DEF k, l
<1>6. /\ conn' \in [Conns -> Connections] /\ conn'[c] = k /\ conn'[p] = l
      /\ \A b \in Conns : b \notin {c, p} => conn'[b] = conn[b]
      /\ byDevice \in [Devices -> Conns \cup {NoConn}]
      /\ byDevice' \in [Devices -> Conns \cup {NoConn}]
      /\ byDevice'[d] = c /\ \A e \in Devices : e # d => byDevice'[e] = byDevice[e]
  BY <1>1, <1>2, <1>3, <1>4, <1>5 DEF TypeOK
<1>7. TypeOK'
  <2>1. \A b \in Conns : conn'[b].device = conn[b].device
    BY <1>4, <1>5, <1>6
  <2>2. \A b \in Conns : conn'[b].ep \in {"new", "replacing"} =>
            conn'[b].rx = "none" /\ conn'[b].writer = "none" /\ conn'[b].keepalive = "none"
    <3> TAKE b \in Conns
    <3>1. CASE b = c
      BY <1>4, <1>6, <3>1 DEF TypeOK
    <3>2. CASE b = p
      BY <1>5, <1>6, <3>2 DEF TypeOK
    <3>3. CASE b \notin {c, p}
      BY <1>6, <3>3 DEF TypeOK
    <3> QED BY <3>1, <3>2, <3>3
  <2>3. \A e \in Devices : byDevice'[e] # NoConn => conn'[byDevice'[e]].device = e
    <3> TAKE e \in Devices
    <3>1. CASE e = d
      BY <1>4, <1>6, <3>1
    <3>2. CASE e # d
      <4>1. byDevice'[e] = byDevice[e] /\ byDevice[e] \in Conns \cup {NoConn}
        BY <1>6, <3>2
      <4> QED BY <2>1, <4>1 DEF TypeOK
    <3> QED BY <3>1, <3>2
  <2>4. gauge' \in Int /\ shown' \in [Devices -> BOOLEAN] /\ left' \in 0 .. MaxEvents
    BY DEF TypeOK
  <2> QED BY <1>6, <2>2, <2>3, <2>4 DEF TypeOK
<1>8. SlotsAreFreed'
  BY <1>1, <1>2, <1>4, <1>5, <1>6 DEF SlotsAreFreed
<1>9. OpenIsRegistered'
  <2> SUFFICES ASSUME NEW b \in Conns, conn'[b].ep \in Attached, ~Closed(conn'[b])
               PROVE  byDevice'[conn'[b].device] = b
    BY DEF OpenIsRegistered, Closed
  <2>1. b # p
    BY <1>5, <1>6 DEF Closed
  <2>2. CASE b = c
    BY <1>4, <1>6, <2>2
  <2>3. CASE b # c
    <3>1. byDevice[conn[b].device] = b /\ conn[b].device \in Devices
      BY <1>1, <1>6, <2>1, <2>3 DEF OpenIsRegistered, Connections
    <3> QED BY <1>6, <2>1, <2>3, <3>1
  <2> QED BY <2>2, <2>3
<1>10. \A b \in Conns : Active(conn[b]) => conn[b].closer # c
  BY DEF CallersWait
<1>11. CallersWait'
  <2> SUFFICES ASSUME NEW b \in Conns, Active(conn'[b])
               PROVE  /\ conn'[b].closer = b => conn'[b].ep = "closing"
                      /\ conn'[b].closer \notin {NoConn, b} =>
                             conn'[conn'[b].closer].ep = "replacing"
    BY DEF CallersWait, Active
  <2>1. CASE b = p
    BY <1>2, <1>4, <1>5, <1>6, <2>1
  <2>2. CASE b # p
    <3>1. /\ conn'[b].closer = conn[b].closer /\ Active(conn[b])
          /\ conn[b].closer \in Conns \cup {NoConn}
      BY <1>1, <1>4, <1>6, <2>2 DEF Active, Connections
    <3>2. \A e \in Conns : e # c => conn'[e].ep = conn[e].ep
      BY <1>5, <1>6
    <3>3. conn[b].closer \notin {NoConn, b} => conn'[conn[b].closer].ep = "replacing"
      BY <1>10, <3>1, <3>2 DEF CallersWait
    <3>4. conn[b].closer = b => conn'[b].ep = "closing"
      BY <1>10, <3>1, <3>2 DEF CallersWait
    <3> QED BY <3>1, <3>3, <3>4
  <2> QED BY <2>1, <2>2
<1>12. OneAwaited'
  <2> SUFFICES ASSUME NEW a \in Conns, NEW b \in Conns, Active(conn'[a]), Active(conn'[b]),
                      conn'[a].closer = conn'[b].closer, conn'[a].closer # NoConn, a # b
               PROVE  FALSE
    BY DEF OneAwaited, Active
  <2>1. \A e \in Conns : e # p => conn'[e].closing = conn[e].closing /\ conn'[e].closer = conn[e].closer
    BY <1>4, <1>6
  <2>2. CASE a # p /\ b # p
    BY <2>1, <2>2 DEF OneAwaited, Active
  <2>3. CASE a = p
    BY <1>5, <1>6, <1>10, <2>1, <2>3 DEF Active
  <2>4. CASE b = p
    BY <1>5, <1>6, <1>10, <2>1, <2>4 DEF Active
  <2> QED BY <2>2, <2>3, <2>4
<1> QED BY <1>7, <1>8, <1>9, <1>11, <1>12

LEMMA AttachKeeps == ASSUME IInv, NEW c \in Conns, Attach(c) PROVE IInv'
<1> DEFINE p == byDevice[conn[c].device]
<1>1. /\ p \in Conns \cup {NoConn} /\ conn[c].ep = "new" /\ conn \in [Conns -> Connections]
      /\ byDevice' = [byDevice EXCEPT ![conn[c].device] = c] /\ UNCHANGED <<shown, left>>
  BY DEF IInv, TypeOK, Connections, Attach, Arrives
<1>2. CASE p = NoConn \/ Closed(conn[p])
  <2>1. conn' = [conn EXCEPT ![c] = RunHead(conn[c])] /\ gauge' = gauge + 1
    BY <1>1, <1>2 DEF Attach, Replace
  <2> QED BY <1>1, <1>2, <2>1, AttachAloneKeeps
<1>3. CASE p # NoConn /\ ~Closed(conn[p])
  <2>1. /\ conn' = [conn EXCEPT ![c].ep = "replacing", ![p] = CloseHead(@, c)]
        /\ UNCHANGED gauge
    BY <1>3 DEF Attach, Replace
  <2> QED BY <1>1, <1>3, <2>1, AttachOverKeeps
<1> QED BY <1>2, <1>3

\* close() comes to its end, and its caller goes on.
LEMMA CloseSocketKeeps == ASSUME IInv, NEW c \in Conns, CloseSocket(c) PROVE IInv'
<1> USE DEF Conns, NoConn
<1> DEFINE a  == IF conn[c].keepalive = "closing" THEN "done" ELSE conn[c].keepalive
           k  == [conn[c] EXCEPT !.closing = "done", !.open = FALSE, !.keepalive = a]
           l  == [k EXCEPT !.ep = "leaving"]
           by == conn[c].closer
<1>1. /\ conn[c].closing = "socket" /\ UNCHANGED <<byDevice, left>>
      /\ \/ by = NoConn /\ conn' = [conn EXCEPT ![c] = k] /\ gauge' = gauge - 1
         \/ by = c /\ conn' = [conn EXCEPT ![c] = l] /\ gauge' = gauge - 1
         \/ by \notin {c, NoConn} /\ conn' = [conn EXCEPT ![c] = k, ![by] = RunHead(@)]
            /\ UNCHANGED gauge
  BY Here DEF CloseSocket
<1>2. by \in Conns \cup {NoConn} /\ Active(conn[c])
  BY <1>1, Here DEF Connections, Active
<1>3. byDevice' = byDevice /\ gauge' \in Int /\ left' \in 0 .. MaxEvents
  BY <1>1 DEF IInv, TypeOK
<1>4. shown' \in [Devices -> BOOLEAN]
  BY DEF CloseSocket, IInv, TypeOK, OnlineNow, Online, Closed
<1>5. /\ a \in {"none", "running", "done"}
      /\ conn[c].ep \in {"new", "replacing"} => a = "none"
  BY Here DEF Connections
<1> HIDE DEF a
<1>6. k \in Connections /\ l \in Connections
  <2>1. k \in Connections
    BY <1>5, Here DEF Connections, Closings
  <2> HIDE DEF k
  <2> QED BY <2>1 DEF Connections, Places
<1>7. Harmless(c, k)
  BY <1>5, <1>6, Here DEF Harmless, Connections, Closed, Active, Attached
<1>8. by = c => Harmless(c, l)
  BY <1>2, <1>5, <1>6, Here DEF Harmless, Connections, Closed, Active, Attached
<1>9. /\ k.ep = conn[c].ep /\ k.device = conn[c].device /\ k.closing = "done"
      /\ k.rx = conn[c].rx /\ k.writer = conn[c].writer /\ k.keepalive = a
  BY Here DEF Connections
<1> HIDE DEF k, l
<1>10. CASE by = NoConn
  BY <1>1, <1>3, <1>4, <1>7, <1>10, HarmlessKeeps
<1>11. CASE by = c
  BY <1>1, <1>3, <1>4, <1>8, <1>11, HarmlessKeeps
<1>12. CASE by \notin {c, NoConn}
  <2> USE DEF IInv
  <2> DEFINE w == IF Closed(conn[by]) THEN "done" ELSE "running"
             h == [conn[by] EXCEPT !.ep = "hello", !.writer = w, !.keepalive = w]
  <2>1. by \in Conns /\ by # c /\ conn[by].ep = "replacing" /\ conn \in [Conns -> Connections]
    BY <1>2, <1>12 DEF CallersWait, TypeOK
  <2>2. conn' = [conn EXCEPT ![c] = k, ![by] = h]
    BY <1>1, <1>12, <2>1 DEF RunHead
  <2>3. w \in {"done", "running"}
    OBVIOUS
  <2> HIDE DEF w
  <2>4. /\ h \in Connections /\ h.device = conn[by].device /\ h.ep = "hello"
        /\ h.closing = conn[by].closing /\ h.closer = conn[by].closer
    <3>1. conn[by] \in Connections
      BY <2>1
    <3> HIDE DEF by
    <3> QED BY <2>3, <3>1 DEF Connections, Places
  <2> HIDE DEF h
  <2>5. /\ conn' \in [Conns -> Connections] /\ conn'[c] = k /\ conn'[by] = h
        /\ \A b \in Conns : b \notin {c, by} => conn'[b] = conn[b]
    BY <1>6, <2>1, <2>2, <2>4
  <2> HIDE DEF by
  <2>6. TypeOK'
    <3>1. \A b \in Conns : conn'[b].device = conn[b].device
      BY <1>9, <2>4, <2>5
    <3>2. \A b \in Conns : conn'[b].ep \in {"new", "replacing"} =>
              conn'[b].rx = "none" /\ conn'[b].writer = "none" /\ conn'[b].keepalive = "none"
      <4> TAKE b \in Conns
      <4>1. CASE b = c
        BY <1>5, <1>9, <2>5, <4>1 DEF TypeOK
      <4>2. CASE b = by
        BY <2>4, <2>5, <4>2
      <4>3. CASE b \notin {c, by}
        BY <2>5, <4>3 DEF TypeOK
      <4> QED BY <4>1, <4>2, <4>3
    <3> QED BY <1>3, <1>4, <2>5, <3>1, <3>2 DEF TypeOK
  <2>7. SlotsAreFreed'
    <3>1. \A b \in Conns : conn'[b].ep \in {"new", "gone"} => conn[b].ep \in {"new", "gone"}
      BY <1>9, <2>4, <2>5
    <3> QED BY <1>3, <3>1 DEF SlotsAreFreed, TypeOK
  <2>8. OpenIsRegistered'
    <3> SUFFICES ASSUME NEW b \in Conns, conn'[b].ep \in Attached, ~Closed(conn'[b])
                 PROVE  byDevice'[conn'[b].device] = b
      BY DEF OpenIsRegistered, Closed
    <3>1. b # c
      BY <1>9, <2>5 DEF Closed
    <3>2. conn[b].ep \in Attached /\ ~Closed(conn[b]) /\ conn'[b].device = conn[b].device
      BY <2>1, <2>4, <2>5, <3>1 DEF Closed, Attached
    <3> QED BY <1>3, <3>2 DEF OpenIsRegistered
  <2>9. ASSUME NEW b \in Conns, Active(conn'[b])
        PROVE  b # c /\ Active(conn[b]) /\ conn'[b].closer = conn[b].closer
    BY <1>9, <2>4, <2>5, <2>9 DEF Active
  <2>10. CallersWait'
    <3> SUFFICES ASSUME NEW b \in Conns, Active(conn'[b])
                 PROVE  /\ conn'[b].closer = b => conn'[b].ep = "closing"
                        /\ conn'[b].closer \notin {NoConn, b} =>
                               conn'[conn'[b].closer].ep = "replacing"
      BY DEF CallersWait, Active
    <3>1. /\ b # c /\ Active(conn[b]) /\ conn'[b].closer = conn[b].closer
          /\ conn[b].closer \in Conns \cup {NoConn}
      BY <2>1, <2>9 DEF Connections
    <3>2. conn[b].closer # by
      BY <1>2, <2>1, <3>1 DEF OneAwaited, by
    <3>3. \A e \in Conns : e # by => conn'[e].ep = conn[e].ep
      BY <1>9, <2>5
    <3>4. conn[b].closer = b => conn'[b].ep = "closing"
      BY <3>1, <3>2, <3>3 DEF CallersWait
    <3>5. conn[b].closer \notin {NoConn, b} => conn'[conn[b].closer].ep = "replacing"
      BY <3>1, <3>2, <3>3 DEF CallersWait
    <3> QED BY <3>1, <3>4, <3>5
  <2>11. OneAwaited'
    <3> SUFFICES ASSUME NEW b \in Conns, NEW e \in Conns, Active(conn'[b]), Active(conn'[e]),
                        conn'[b].closer = conn'[e].closer, conn'[b].closer # NoConn
                 PROVE  b = e
      BY DEF OneAwaited, Active
    <3> QED BY <2>9 DEF OneAwaited
  <2> QED BY <2>6, <2>7, <2>8, <2>10, <2>11
<1> QED BY <1>2, <1>10, <1>11, <1>12

\* The endpoint takes its own entry along, if it still is the robot's.
LEMMA LeaveKeeps == ASSUME IInv, NEW c \in Conns, Leave(c) PROVE IInv'
<1> USE DEF IInv
<1>0. NoConn \notin Conns
  BY DEF Conns, NoConn
<1> USE <1>0
<1> DEFINE k == [conn[c] EXCEPT !.ep = "gone", !.open = FALSE]
           x == IF byDevice[conn[c].device] = c THEN NoConn ELSE byDevice[conn[c].device]
           d == conn[c].device
<1>1. /\ conn' = [conn EXCEPT ![c] = k] /\ conn[c].ep = "leaving"
      /\ byDevice' = [byDevice EXCEPT ![d] = x] /\ UNCHANGED <<gauge, shown, left>>
  BY Here DEF Leave, Detach
<1>2. /\ k \in Connections /\ k.device = d /\ k.ep = "gone"
      /\ k.closing = conn[c].closing /\ k.closer = conn[c].closer
  BY Here DEF Connections, Places
<1>3. d \in Devices /\ byDevice \in [Devices -> Conns \cup {NoConn}]
  BY Here DEF TypeOK, Connections
<1>4. x \in Conns \cup {NoConn} /\ x # c /\ x \in {NoConn, byDevice[d]}
  BY <1>3
<1>5. byDevice[d] # c => x = byDevice[d]
  OBVIOUS
<1> HIDE DEF k, x
<1>6. /\ conn' \in [Conns -> Connections] /\ conn'[c] = k
      /\ \A b \in Conns : b # c => conn'[b] = conn[b]
      /\ byDevice' \in [Devices -> Conns \cup {NoConn}] /\ byDevice'[d] = x
      /\ \A e \in Devices : e # d => byDevice'[e] = byDevice[e]
  BY <1>1, <1>2, <1>3, <1>4, Here
<1>7. \A e \in Devices : byDevice'[e] # NoConn =>
          byDevice'[e] = byDevice[e] /\ byDevice'[e] \in Conns \ {c}
  <2> TAKE e \in Devices
  <2>1. CASE e = d
    BY <1>4, <1>6, <2>1
  <2>2. CASE e # d
    <3>1. byDevice[e] # c
      BY <2>2, <1>3 DEF TypeOK
    <3> QED BY <1>3, <1>6, <2>2, <3>1
  <2> QED BY <2>1, <2>2
<1>8. \A b \in Conns :
          /\ conn'[b].device = conn[b].device
          /\ conn'[b].closing = conn[b].closing /\ conn'[b].closer = conn[b].closer
          /\ b # c => conn'[b].ep = conn[b].ep
  BY <1>2, <1>6
<1>9. TypeOK'
  <2>1. \A b \in Conns : conn'[b].ep \in {"new", "replacing"} =>
            conn'[b].rx = "none" /\ conn'[b].writer = "none" /\ conn'[b].keepalive = "none"
    BY <1>2, <1>6 DEF TypeOK
  <2>2. gauge' \in Int /\ shown' \in [Devices -> BOOLEAN] /\ left' \in 0 .. MaxEvents
    BY <1>1 DEF TypeOK
  <2>3. \A e \in Devices : byDevice'[e] # NoConn => conn'[byDevice'[e]].device = e
    BY <1>7, <1>8 DEF TypeOK
  <2> QED BY <1>6, <2>1, <2>2, <2>3 DEF TypeOK
<1>10. SlotsAreFreed'
  BY <1>7, <1>8 DEF SlotsAreFreed
<1>11. OpenIsRegistered'
  <2> SUFFICES ASSUME NEW b \in Conns, conn'[b].ep \in Attached, ~Closed(conn'[b])
               PROVE  byDevice'[conn'[b].device] = b
    BY DEF OpenIsRegistered, Closed
  <2>1. b # c
    BY <1>2, <1>6 DEF Attached
  <2>2. byDevice[conn[b].device] = b /\ conn[b].device \in Devices
    BY <1>6, <2>1, Here DEF OpenIsRegistered, Connections
  <2>3. CASE conn[b].device = d
    BY <1>5, <1>6, <1>8, <2>1, <2>2, <2>3
  <2>4. CASE conn[b].device # d
    BY <1>6, <1>8, <2>2, <2>4
  <2> QED BY <2>3, <2>4
<1>12. CallersWait'
  <2> SUFFICES ASSUME NEW b \in Conns, Active(conn'[b])
               PROVE  /\ conn'[b].closer = b => conn'[b].ep = "closing"
                      /\ conn'[b].closer \notin {NoConn, b} =>
                             conn'[conn'[b].closer].ep = "replacing"
    BY DEF CallersWait, Active
  <2>1. /\ conn'[b].closer = conn[b].closer /\ Active(conn[b])
        /\ conn[b].closer \in Conns \cup {NoConn}
    BY <1>8, Here DEF Active, Connections
  <2>2. conn[b].closer # c
    BY <1>1, <2>1 DEF CallersWait
  <2>3. conn[b].closer = b => conn'[b].ep = "closing"
    BY <1>8, <2>1, <2>2 DEF CallersWait
  <2>4. conn[b].closer \notin {NoConn, b} => conn'[conn[b].closer].ep = "replacing"
    BY <1>8, <2>1, <2>2 DEF CallersWait
  <2> QED BY <2>1, <2>3, <2>4
<1>13. OneAwaited'
  BY <1>8 DEF OneAwaited, Active
<1> QED BY <1>9, <1>10, <1>11, <1>12, <1>13

-----------------------------------------------------------------------------
LEMMA Inductive == ASSUME IInv, [Next]_vars PROVE IInv'
<1>1. CASE UNCHANGED vars
  BY <1>1 DEF vars, IInv, TypeOK, SlotsAreFreed, OpenIsRegistered, CallersWait, OneAwaited,
              Closed, Active
<1>2. ASSUME NEW c \in Conns, Attach(c) PROVE IInv'
  BY <1>2, AttachKeeps
<1>3. ASSUME NEW c \in Conns, TooMany(c) PROVE IInv'
  BY <1>3, TooManyKeeps
<1>4. ASSUME NEW c \in Conns, Hello(c) PROVE IInv'
  BY <1>4, HelloKeeps
<1>5. ASSUME NEW c \in Conns, HelloFails(c) PROVE IInv'
  BY <1>5, EndRunKeeps DEF HelloFails
<1>6. ASSUME NEW c \in Conns, Discovered(c) PROVE IInv'
  BY <1>6, DiscoveredKeeps
<1>7. ASSUME NEW c \in Conns, Warmed(c) PROVE IInv'
  BY <1>7, WarmedKeeps
<1>8. ASSUME NEW c \in Conns, RunEnds(c) PROVE IInv'
  BY <1>8, EndRunKeeps DEF RunEnds
<1>9. ASSUME NEW c \in Conns, Leave(c) PROVE IInv'
  BY <1>9, LeaveKeeps
<1>10. ASSUME NEW c \in Conns, RxReads(c) PROVE IInv'
  BY <1>10, RxReadsKeeps
<1>11. ASSUME NEW c \in Conns, RxHandles(c) PROVE IInv'
  BY <1>11, RxHandlesKeeps
<1>12. ASSUME NEW c \in Conns, RxDisconnects(c) PROVE IInv'
  BY <1>12, RxDisconnectsKeeps
<1>13. ASSUME NEW c \in Conns, KeepaliveCloses(c) PROVE IInv'
  BY <1>13, KeepaliveClosesKeeps
<1>14. ASSUME NEW c \in Conns, WriterFails(c) PROVE IInv'
  BY <1>14, WriterFailsKeeps
<1>15. ASSUME NEW c \in Conns, CloseStep(c) PROVE IInv'
  BY <1>15, CloseTurnKeeps, CloseWriterKeeps, CloseSocketKeeps DEF CloseStep
<1>16. ASSUME NEW c \in Conns, PeerLost(c) PROVE IInv'
  BY <1>16, PeerLostKeeps
<1> QED
  BY <1>1, <1>2, <1>3, <1>4, <1>5, <1>6, <1>7, <1>8, <1>9, <1>10, <1>11, <1>12, <1>13, <1>14,
     <1>15, <1>16 DEF Next, Serve, Receive

\* The registry, the calls of close() under way and the endpoints that wait for
\* them fit together in every reachable state, whatever the number of robots,
\* connections and sessions.
THEOREM Invariant == Spec => []IInv
<1>1. Init => IInv
  BY Start
<1>2. IInv /\ [Next]_vars => IInv'
  BY Inductive
<1> QED BY <1>1, <1>2, PTL DEF Spec

\* The types hold, a session is registered under its own robot, and the tasks
\* run() creates are not there before it.
THEOREM Types == Spec => []TypeOK
<1>1. IInv => TypeOK
  BY DEF IInv
<1> QED BY <1>1, Invariant, PTL

\* However the connections of a robot race, the session that serves it is the one
\* the registry finds.
THEOREM Registered == Spec => []ServedIsRegistered
<1>1. IInv => ServedIsRegistered
  BY DEF IInv, OpenIsRegistered, ServedIsRegistered, Served, Attached
<1> QED BY <1>1, Invariant, PTL

\* A robot never has two sessions that serve it: a new connection closes the one
\* it finds before it runs, and no third one is in between.
THEOREM One == Spec => []OneServing
<1>1. IInv => OneServing
  BY DEF IInv, OpenIsRegistered, OneServing, Served, Attached
<1> QED BY <1>1, Invariant, PTL

\* No endpoint that has ended leaves its robot registered, so none of the
\* max_concurrent_sessions slots is lost.
THEOREM Freed == Spec => []SlotsAreFreed
<1>1. IInv => SlotsAreFreed
  BY DEF IInv
<1> QED BY <1>1, Invariant, PTL

-----------------------------------------------------------------------------
(* The gauge and the dashboards. *)

\* run() has begun: an endpoint that was refused ends with its session open.
Begun(k) ==
    \/ k.ep \in {"hello", "mcp", "warming", "serving", "closing"}
    \/ k.ep \in {"leaving", "gone"} /\ Closed(k)

Ran == {c \in Conns : Begun(conn[c])}
Done == {c \in Conns : conn[c].closing = "done"}

\* Each run() has added one, each close() that came to its end has taken one away.
GaugeInv == gauge = Cardinality(Ran) - Cardinality(Done)

\* Only a session that never ran, and is in no registry, ends open.
EndsClosed ==
    \A c \in Conns :
        /\ conn[c].ep = "new" => ~Closed(conn[c])
        /\ conn[c].ep = "closing" => Closed(conn[c])
        /\ conn[c].ep \in {"leaving", "gone"} /\ ~Closed(conn[c])
               => byDevice[conn[c].device] # c

\* The dashboards know of a session that has said hello.
ToldOnline ==
    \A c \in Conns : conn[c].ep \in {"mcp", "warming", "serving"} /\ ~Closed(conn[c])
                         => shown[conn[c].device]

\* A close() that has not told the dashboards, or need not.
Unsaid(k) ==
    k.closing \in {"turn", "writer", "socket", "cut"} \/ (Closed(k) /\ k.closer = NoConn)

\* When they show a robot online that is not, some close() of it is unsaid.
ToldOffline ==
    \A d \in Devices : shown[d] /\ ~Online(byDevice, conn, d)
                           => \E c \in Conns : conn[c].device = d /\ Unsaid(conn[c])

ToldInv == IInv /\ GaugeInv /\ EndsClosed /\ ToldOnline /\ ToldOffline

LEMMA GaugeSets ==
  /\ IsFiniteSet(Ran) /\ IsFiniteSet(Done)
  /\ Cardinality(Ran) \in Nat /\ Cardinality(Done) \in Nat
<1>1. IsFiniteSet(Conns)
  BY MaxConnsAssumption, FS_Interval DEF Conns
<1>2. Ran \subseteq Conns /\ Done \subseteq Conns
  BY DEF Ran, Done
<1> QED BY <1>1, <1>2, FS_Subset, FS_CardinalityType

\* run() begins in the connection b, or close() ends in the connection c, or both.
LEMMA GaugeMoves ==
  ASSUME GaugeInv, NEW b \in Conns, NEW c \in Conns,
         Ran' \in {Ran, Ran \cup {b}}, Done' \in {Done, Done \cup {c}},
         gauge' = gauge + (IF b \in Ran' \ Ran THEN 1 ELSE 0) - (IF c \in Done' \ Done THEN 1 ELSE 0)
  PROVE  GaugeInv'
<1>1. Cardinality(Ran') = Cardinality(Ran) + (IF b \in Ran' \ Ran THEN 1 ELSE 0)
  <2>1. Cardinality(Ran \cup {b}) = IF b \in Ran THEN Cardinality(Ran) ELSE Cardinality(Ran) + 1
    BY GaugeSets, FS_AddElement, Zenon
  <2>2. CASE Ran' = Ran
    BY <2>2, GaugeSets
  <2>3. CASE b \notin Ran /\ Ran' = Ran \cup {b}
    <3>1. b \in Ran' \ Ran
      BY <2>3
    <3> QED BY <2>1, <2>3, <3>1
  <2>4. b \in Ran => Ran \cup {b} = Ran
    OBVIOUS
  <2> QED BY <2>2, <2>3, <2>4
<1>2. Cardinality(Done') = Cardinality(Done) + (IF c \in Done' \ Done THEN 1 ELSE 0)
  <2>1. Cardinality(Done \cup {c}) = IF c \in Done THEN Cardinality(Done) ELSE Cardinality(Done) + 1
    BY GaugeSets, FS_AddElement, Zenon
  <2>2. CASE Done' = Done
    BY <2>2, GaugeSets
  <2>3. CASE c \notin Done /\ Done' = Done \cup {c}
    <3>1. c \in Done' \ Done
      BY <2>3
    <3> QED BY <2>1, <2>3, <3>1
  <2>4. c \in Done => Done \cup {c} = Done
    OBVIOUS
  <2> QED BY <2>2, <2>3, <2>4
<1> QED BY <1>1, <1>2, GaugeSets DEF GaugeInv

\* What the step does to the connection c is no news to the gauge or the dashboards.
Quiet(c) ==
    /\ conn'[c] \in Connections /\ conn'[c].device = conn[c].device
    /\ \A b \in Conns : b # c => conn'[b] = conn[b]
    /\ Closed(conn'[c]) <=> Closed(conn[c])
    /\ conn'[c].closing = "done" <=> conn[c].closing = "done"
    /\ conn'[c].closer = conn[c].closer
    /\ Begun(conn'[c]) <=> Begun(conn[c])
    /\ conn'[c].ep = "new" => conn[c].ep = "new"
    /\ conn'[c].ep = "closing" => conn[c].ep = "closing"
    /\ conn'[c].ep \in {"leaving", "gone"} /\ ~Closed(conn[c])
           => byDevice[conn[c].device] # c
    /\ conn'[c].ep \in {"mcp", "warming", "serving"} =>
           conn[c].ep \in {"mcp", "warming", "serving"}

LEMMA QuietKeeps ==
  ASSUME ToldInv, NEW c \in Conns, Quiet(c), IInv', UNCHANGED <<byDevice, gauge, shown>>
  PROVE  ToldInv'
<1> USE DEF ToldInv
<1>1. \A b \in Conns : /\ conn'[b].device = conn[b].device
                       /\ Closed(conn'[b]) <=> Closed(conn[b])
                       /\ Begun(conn'[b]) <=> Begun(conn[b])
                       /\ conn'[b].closing = "done" <=> conn[b].closing = "done"
                       /\ conn'[b].closer = conn[b].closer
  BY DEF Quiet
<1>2. \A b \in Conns : conn'[b] \in Connections
  BY DEF IInv, TypeOK
<1>3. GaugeInv'
  <2>1. Ran' = Ran /\ Done' = Done
    BY <1>1 DEF Ran, Done
  <2> QED BY <2>1 DEF GaugeInv
<1>4. EndsClosed'
  BY <1>1 DEF EndsClosed, Quiet
<1>5. ToldOnline'
  BY <1>1 DEF ToldOnline, Quiet
<1>6. ToldOffline'
  <2>1. \A b \in Conns : Unsaid(conn[b]) => Unsaid(conn'[b])
    BY <1>1, <1>2 DEF Unsaid, Closed, Connections, Closings
  <2>2. \A d \in Devices : Online(byDevice, conn, d)' <=> Online(byDevice, conn, d)
    BY <1>1 DEF Online, IInv, TypeOK
  <2> QED BY <1>1, <2>1, <2>2 DEF ToldOffline
<1> QED BY <1>3, <1>4, <1>5, <1>6

\* The steps of one connection that neither begin run() nor a call of close().
LEMMA QuietSteps ==
  ASSUME ToldInv, NEW c \in Conns, IInv',
         \/ TooMany(c) \/ Discovered(c) \/ Warmed(c) \/ RxReads(c) \/ RxHandles(c)
         \/ RxDisconnects(c) \/ WriterFails(c) \/ PeerLost(c) \/ CloseTurn(c) \/ CloseWriter(c)
  PROVE  ToldInv'
<1>1. UNCHANGED <<byDevice, gauge, shown>>
  BY DEF TooMany, Discovered, Warmed, RxReads, RxHandles, RxDisconnects, WriterFails, PeerLost,
         CloseTurn, CloseWriter, Event
<1>2. conn[c] \in Connections /\ conn \in [Conns -> Connections] /\ conn'[c] \in Connections
  BY DEF ToldInv, IInv, TypeOK
<1>3. CASE TooMany(c)
  <2>1. conn[c].ep = "new" /\ ~Closed(conn[c]) /\ byDevice[conn[c].device] # c
    BY <1>2, <1>3 DEF TooMany, Arrives, ToldInv, EndsClosed, IInv, SlotsAreFreed, Connections, Conns, NoConn
  <2> QED BY <1>1, <1>2, <1>3, <2>1, QuietKeeps DEF TooMany, Quiet, Begun, Closed, Connections
<1>4. CASE Discovered(c)
  BY <1>1, <1>2, <1>4, QuietKeeps DEF Discovered, Quiet, Begun, Closed, Connections
<1>5. CASE Warmed(c)
  BY <1>1, <1>2, <1>5, QuietKeeps DEF Warmed, Quiet, Begun, Closed, Connections
<1>6. CASE RxReads(c) \/ RxHandles(c) \/ RxDisconnects(c) \/ WriterFails(c) \/ PeerLost(c)
  <2>1. /\ conn'[c].ep = conn[c].ep /\ conn'[c].closing = conn[c].closing
        /\ conn'[c].closer = conn[c].closer /\ conn'[c].device = conn[c].device
        /\ \A b \in Conns : b # c => conn'[b] = conn[b]
    <3>1. CASE RxReads(c) \/ RxDisconnects(c)
      BY <1>2, <3>1 DEF RxReads, RxDisconnects, Connections
    <3>2. CASE RxHandles(c)
      <4>1. PICK b \in {"none", "idle", "open"}, r \in {"done", "reading"} :
              conn' = [conn EXCEPT ![c].brain = b, ![c].rx = r]
        BY <1>2, <3>2 DEF RxHandles, Connections
      <4>2. conn' = [conn EXCEPT ![c] = [conn[c] EXCEPT !.brain = b, !.rx = r]]
        BY <1>2, <4>1
      <4> QED BY <1>2, <4>2 DEF Connections
    <3>3. CASE WriterFails(c)
      BY <1>2, <3>3 DEF WriterFails, Connections
    <3>4. CASE PeerLost(c)
      BY <1>2, <3>4 DEF PeerLost, Connections
    <3> QED BY <1>6, <3>1, <3>2, <3>3, <3>4
  <2> QED BY <1>1, <1>2, <2>1, QuietKeeps DEF Quiet, Begun, Closed, ToldInv, EndsClosed
<1>7. CASE CloseWriter(c)
  <2>1. /\ conn'[c].ep = conn[c].ep /\ conn'[c].closing = "socket" /\ conn[c].closing = "writer"
        /\ conn'[c].closer = conn[c].closer /\ conn'[c].device = conn[c].device
        /\ \A b \in Conns : b # c => conn'[b] = conn[b]
    BY <1>2, <1>7 DEF CloseWriter, Connections
  <2> QED BY <1>1, <1>2, <2>1, QuietKeeps DEF Quiet, Begun, Closed
<1>8. CASE CloseTurn(c)
  <2>1. PICK ep \in {conn[c].ep, "leaving"} :
          conn' = [conn EXCEPT ![c] = TurnClosed(conn[c], ep)] /\ (ep = conn[c].ep \/ conn[c].ep = "mcp")
    BY <1>2, <1>8 DEF CloseTurn
  <2>2. TurnClosed(conn[c], ep).ep = ep /\ TurnClosed(conn[c], ep).closing \in {"cut", "writer"}
        /\ TurnClosed(conn[c], ep).closer = conn[c].closer
        /\ TurnClosed(conn[c], ep).device = conn[c].device
    BY <1>2 DEF TurnClosed, Connections
  <2>3. /\ conn'[c].ep = ep /\ conn'[c].closing \in {"cut", "writer"} /\ conn[c].closing = "turn"
        /\ conn'[c].closer = conn[c].closer /\ conn'[c].device = conn[c].device
        /\ \A b \in Conns : b # c => conn'[b] = conn[b]
    BY <1>2, <1>8, <2>1, <2>2 DEF CloseTurn
  <2> QED BY <1>1, <1>2, <2>1, <2>3, QuietKeeps DEF Quiet, Begun, Closed
<1> QED BY <1>3, <1>4, <1>5, <1>6, <1>7, <1>8

\* A session is closed, in run() or in the keepalive task.
LEMMA HeadKeeps ==
  ASSUME ToldInv, NEW c \in Conns, IInv', ~Closed(conn[c]), UNCHANGED <<byDevice, gauge, shown>>,
         conn'[c].closing = "turn", conn'[c].device = conn[c].device,
         \A b \in Conns : b # c => conn'[b] = conn[b],
         Begun(conn[c]), Begun(conn'[c]), conn'[c].ep # "new"
  PROVE  ToldInv'
<1> USE DEF ToldInv
<1>1. Closed(conn'[c])
  BY DEF Closed
<1>2. GaugeInv'
  <2>1. Ran' = Ran /\ Done' = Done
    BY DEF Ran, Done, Closed
  <2> QED BY <2>1 DEF GaugeInv
<1>3. EndsClosed'
  BY <1>1 DEF EndsClosed
<1>4. ToldOnline'
  BY <1>1 DEF ToldOnline
<1>5. ToldOffline'
  <2> SUFFICES ASSUME NEW d \in Devices, shown[d], ~Online(byDevice', conn', d)
               PROVE  \E b \in Conns : conn'[b].device = d /\ Unsaid(conn'[b])
    BY DEF ToldOffline
  <2>1. CASE conn[c].device = d
    BY <2>1 DEF Unsaid
  <2>2. CASE conn[c].device # d
    <3>1. byDevice[d] # c
      BY <2>2 DEF IInv, TypeOK, Conns, NoConn
    <3>2. ~Online(byDevice, conn, d)
      BY <3>1 DEF Online, IInv, TypeOK
    <3> QED BY <2>2, <3>2 DEF ToldOffline
  <2> QED BY <2>1, <2>2
<1> QED BY <1>2, <1>3, <1>4, <1>5

LEMMA ClosesKeeps ==
  ASSUME ToldInv, NEW c \in Conns, IInv', HelloFails(c) \/ RunEnds(c) \/ KeepaliveCloses(c)
  PROVE  ToldInv'
<1>1. UNCHANGED <<byDevice, gauge, shown>>
  BY DEF HelloFails, RunEnds, KeepaliveCloses, Event
<1>2. conn[c] \in Connections /\ conn \in [Conns -> Connections] /\ conn'[c] \in Connections
  BY DEF ToldInv, IInv, TypeOK
<1>3. CASE KeepaliveCloses(c)
  <2>1. /\ ~Closed(conn[c]) /\ conn[c].ep \in {"mcp", "warming", "serving"}
        /\ conn' = [conn EXCEPT ![c] = [conn[c] EXCEPT !.closing = "turn", !.closer = NoConn,
                                                       !.keepalive = "closing"]]
    BY <1>2, <1>3 DEF KeepaliveCloses, CloseHead
  <2>2. /\ conn'[c].closing = "turn" /\ conn'[c].device = conn[c].device
        /\ conn'[c].ep = conn[c].ep /\ \A b \in Conns : b # c => conn'[b] = conn[b]
    BY <1>2, <2>1 DEF Connections
  <2> QED BY <1>1, <2>1, <2>2, HeadKeeps DEF Begun
<1>4. CASE HelloFails(c) \/ RunEnds(c)
  <2>1. EndRun(c) /\ conn[c].ep \in {"hello", "serving"}
    BY <1>4 DEF HelloFails, RunEnds
  <2>2. CASE Closed(conn[c])
    <3>1. conn' = [conn EXCEPT ![c] = [conn[c] EXCEPT !.ep = "leaving"]]
      BY <1>2, <2>1, <2>2 DEF EndRun
    <3>2. /\ conn'[c].closing = conn[c].closing /\ conn'[c].device = conn[c].device
          /\ conn'[c].closer = conn[c].closer
          /\ conn'[c].ep = "leaving" /\ \A b \in Conns : b # c => conn'[b] = conn[b]
      BY <1>2, <3>1 DEF Connections
    <3> QED BY <1>1, <1>2, <2>1, <2>2, <3>2, QuietKeeps DEF Quiet, Begun, Closed
  <2>3. CASE ~Closed(conn[c])
    <3>1. conn' = [conn EXCEPT ![c] = [conn[c] EXCEPT !.ep = "closing", !.closing = "turn",
                                                      !.closer = c]]
      BY <1>2, <2>1, <2>3 DEF EndRun, CloseHead
    <3>2. /\ conn'[c].closing = "turn" /\ conn'[c].device = conn[c].device
          /\ conn'[c].ep = "closing" /\ \A b \in Conns : b # c => conn'[b] = conn[b]
      BY <1>2, <3>1 DEF Connections
    <3> QED BY <1>1, <2>1, <2>3, <3>2, HeadKeeps DEF Begun
  <2> QED BY <2>2, <2>3
<1> QED BY <1>3, <1>4

\* The dashboards are told what the registry says: it says true of a session that has said
\* hello, which is the registered one.
LEMMA TellKeeps ==
  ASSUME ToldInv, NEW x \in Conns, IInv', byDevice' = byDevice,
         shown' = [shown EXCEPT ![conn[x].device] = Online(byDevice, conn, conn[x].device)],
         \A b \in Conns : /\ conn'[b].device = conn[b].device
                          /\ Closed(conn'[b]) <=> Closed(conn[b])
                          /\ b # x /\ Unsaid(conn[b]) => Unsaid(conn'[b])
                          /\ conn'[b].ep \in {"mcp", "warming", "serving"} =>
                                b = x \/ conn[b].ep \in {"mcp", "warming", "serving"}
  PROVE  ToldOnline' /\ ToldOffline'
<1> USE DEF ToldInv
<1>1. shown \in [Devices -> BOOLEAN] /\ \A b \in Conns : conn[b].device \in Devices
  BY DEF IInv, TypeOK, Connections
<1>2. \A d \in Devices : Online(byDevice, conn, d)' <=> Online(byDevice, conn, d)
  BY DEF Online, IInv, TypeOK
<1>3. /\ shown'[conn[x].device] <=> Online(byDevice, conn, conn[x].device)
      /\ \A d \in Devices : d # conn[x].device => shown'[d] = shown[d]
  BY <1>1 DEF Online, Closed
<1>4. ToldOnline'
  <2> SUFFICES ASSUME NEW b \in Conns, conn'[b].ep \in {"mcp", "warming", "serving"},
                      ~Closed(conn'[b])
               PROVE  shown'[conn[b].device]
    BY DEF ToldOnline
  <2>1. CASE conn[b].device = conn[x].device
    <3>1. byDevice[conn[b].device] = b
      BY DEF IInv, OpenIsRegistered, Attached
    <3>2. Online(byDevice, conn, conn[b].device)
      BY <3>1 DEF Online, Conns, NoConn
    <3> QED BY <1>3, <2>1, <3>2
  <2>2. CASE conn[b].device # conn[x].device
    <3>1. shown[conn[b].device]
      BY <2>2 DEF ToldOnline
    <3> QED BY <1>1, <1>3, <2>2, <3>1
  <2> QED BY <2>1, <2>2
<1>5. ToldOffline'
  <2> SUFFICES ASSUME NEW d \in Devices, shown'[d], ~Online(byDevice', conn', d)
               PROVE  \E b \in Conns : conn'[b].device = d /\ Unsaid(conn'[b])
    BY DEF ToldOffline
  <2>1. ~Online(byDevice, conn, d) /\ d # conn[x].device
    BY <1>2, <1>3
  <2>2. PICK b \in Conns : conn[b].device = d /\ Unsaid(conn[b])
    BY <1>3, <2>1 DEF ToldOffline
  <2> QED BY <2>1, <2>2
<1> QED BY <1>4, <1>5

LEMMA HelloTells ==
  ASSUME ToldInv, NEW c \in Conns, IInv', Hello(c)
  PROVE  ToldInv'
<1> USE DEF ToldInv
<1>1. conn[c] \in Connections /\ conn \in [Conns -> Connections]
  BY DEF IInv, TypeOK
<1>2. /\ conn' = [conn EXCEPT ![c] = [conn[c] EXCEPT !.ep = "mcp", !.rx = "reading"]]
      /\ conn[c].ep = "hello" /\ ~Closed(conn[c]) /\ UNCHANGED <<byDevice, gauge>>
      /\ shown' = [shown EXCEPT ![conn[c].device] = Online(byDevice, conn, conn[c].device)]
  BY <1>1 DEF Hello
<1>3. /\ conn'[c].closing = conn[c].closing /\ conn'[c].device = conn[c].device
      /\ conn'[c].closer = conn[c].closer
      /\ conn'[c].ep = "mcp" /\ \A b \in Conns : b # c => conn'[b] = conn[b]
  BY <1>1, <1>2 DEF Connections
<1>4. GaugeInv'
  <2>1. Ran' = Ran /\ Done' = Done
    BY <1>2, <1>3 DEF Ran, Done, Begun
  <2> QED BY <1>2, <2>1 DEF GaugeInv
<1>5. EndsClosed'
  BY <1>2, <1>3 DEF EndsClosed, Closed
<1>6. ToldOnline' /\ ToldOffline'
  <2>1. \A b \in Conns : /\ conn'[b].device = conn[b].device
                         /\ Closed(conn'[b]) <=> Closed(conn[b])
                         /\ b # c /\ Unsaid(conn[b]) => Unsaid(conn'[b])
                         /\ conn'[b].ep \in {"mcp", "warming", "serving"} =>
                               b = c \/ conn[b].ep \in {"mcp", "warming", "serving"}
    BY <1>3 DEF Closed
  <2> QED BY <1>2, <2>1, TellKeeps
<1> QED BY <1>4, <1>5, <1>6

LEMMA AttachTells ==
  ASSUME ToldInv, NEW c \in Conns, IInv', Attach(c)
  PROVE  ToldInv'
<1> USE DEF ToldInv
<1> DEFINE d == conn[c].device
           p == byDevice[d]
<1>1. conn[c] \in Connections /\ conn \in [Conns -> Connections]
  BY DEF IInv, TypeOK
<1>2. /\ d \in Devices /\ p \in Conns \cup {NoConn} /\ NoConn \notin Conns
      /\ byDevice \in [Devices -> Conns \cup {NoConn}]
      /\ \A e \in Devices : byDevice[e] # c
      /\ \A e \in Devices : byDevice[e] # NoConn => conn[byDevice[e]].device = e
  BY <1>1 DEF IInv, TypeOK, SlotsAreFreed, Attach, Arrives, Conns, NoConn, Connections
<1>3. /\ conn[c].ep = "new" /\ ~Closed(conn[c]) /\ UNCHANGED shown
      /\ byDevice'[d] = c /\ \A e \in Devices : e # d => byDevice'[e] = byDevice[e]
  BY <1>2 DEF Attach, Arrives, EndsClosed
<1>4. ASSUME /\ conn'[c].device = d /\ ~Closed(conn'[c]) /\ conn'[c].ep \in {"hello", "replacing"}
             /\ \A b \in Conns \ {c} : \/ conn'[b] = conn[b]
                                       \/ /\ b = p /\ Closed(conn'[b]) /\ conn'[b].ep # "new"
                                          /\ conn'[b].device = conn[b].device
                                          /\ ~Closed(conn[b])
      PROVE  EndsClosed' /\ ToldOnline' /\ ToldOffline'
  <2>1. \A b \in Conns \ {c} : conn'[b].device = conn[b].device /\ conn[b].device \in Devices
    BY <1>1, <1>4 DEF Connections
  <2>2. EndsClosed'
    BY <1>2, <1>3, <1>4, <2>1 DEF EndsClosed
  <2>3. ToldOnline'
    BY <1>3, <1>4, <2>1 DEF ToldOnline
  <2>4. ToldOffline'
    <3> SUFFICES ASSUME NEW e \in Devices, shown[e], ~Online(byDevice', conn', e)
                 PROVE  \E b \in Conns : conn'[b].device = e /\ Unsaid(conn'[b])
      BY <1>3 DEF ToldOffline
    <3>1. e # d
      BY <1>2, <1>3, <1>4 DEF Online
    <3>2. byDevice'[e] = byDevice[e] /\ byDevice[e] \in (Conns \cup {NoConn}) \ {c}
      BY <1>2, <1>3, <3>1
    <3>3. byDevice[e] # NoConn => byDevice[e] # p
      BY <1>2, <3>1
    <3>4. ~Online(byDevice, conn, e)
      BY <1>4, <3>2, <3>3 DEF Online
    <3>5. PICK b \in Conns : conn[b].device = e /\ Unsaid(conn[b])
      BY <3>4 DEF ToldOffline
    <3>6. b # c /\ Closed(conn[b])
      BY <3>1, <3>5 DEF Unsaid, Closed
    <3> QED BY <1>4, <3>5, <3>6
  <2> QED BY <2>2, <2>3, <2>4
<1>5. CASE p = NoConn \/ Closed(conn[p])
  <2>1. /\ conn' = [conn EXCEPT ![c] = RunHead(conn[c])] /\ gauge' = gauge + 1
    BY <1>1, <1>5 DEF Attach, Replace
  <2>2. /\ RunHead(conn[c]).device = d /\ RunHead(conn[c]).closing = conn[c].closing
        /\ RunHead(conn[c]).ep = "hello"
    BY <1>1 DEF RunHead, Connections
  <2>3. /\ conn'[c].device = d /\ conn'[c].closing = conn[c].closing /\ conn'[c].ep = "hello"
        /\ \A b \in Conns \ {c} : conn'[b] = conn[b]
    BY <1>1, <2>1, <2>2
  <2>4. Ran' = Ran \cup {c} /\ c \notin Ran /\ Done' = Done
    BY <1>3, <2>3 DEF Ran, Done, Begun
  <2>5. GaugeInv'
    <3>1. c \in Ran' \ Ran /\ c \notin Done' \ Done
      BY <2>4
    <3>2. gauge \in Int
      BY DEF IInv, TypeOK
    <3> QED BY <2>1, <2>4, <3>1, <3>2, GaugeMoves
  <2> QED BY <1>3, <1>4, <2>3, <2>5 DEF Closed
<1>6. CASE p # NoConn /\ ~Closed(conn[p])
  <2>1. /\ conn' = [conn EXCEPT ![c].ep = "replacing", ![p] = CloseHead(@, c)] /\ gauge' = gauge
        /\ p \in Conns /\ p # c
    BY <1>2, <1>6 DEF Attach, Replace
  <2>2. conn' = [conn EXCEPT ![c] = [conn[c] EXCEPT !.ep = "replacing"],
                             ![p] = [conn[p] EXCEPT !.closing = "turn", !.closer = c]]
    BY <1>1, <2>1 DEF CloseHead
  <2> HIDE DEF p
  <2> DEFINE k == [conn[c] EXCEPT !.ep = "replacing"]
             l == [conn[p] EXCEPT !.closing = "turn", !.closer = c]
  <2>a. k.device = d /\ k.closing = conn[c].closing /\ k.ep = "replacing"
    BY <1>1 DEF Connections
  <2>b. l.device = conn[p].device /\ l.closing = "turn" /\ l.ep = conn[p].ep
    <3>1. conn[p] \in Connections
      BY <1>1, <2>1
    <3> QED BY <3>1 DEF Connections
  <2>c. conn' = [conn EXCEPT ![c] = k, ![p] = l]
    BY <2>2
  <2> HIDE DEF k, l
  <2>3. /\ conn'[c].device = d /\ conn'[c].closing = conn[c].closing /\ conn'[c].ep = "replacing"
        /\ conn'[p].device = conn[p].device /\ conn'[p].closing = "turn"
        /\ conn'[p].ep = conn[p].ep
        /\ \A b \in Conns \ {c, p} : conn'[b] = conn[b]
    BY <1>1, <2>1, <2>a, <2>b, <2>c
  <2>4. conn[p].ep \notin {"new", "leaving", "gone"}
    BY <1>2, <1>6, <2>1 DEF p, EndsClosed, IInv, SlotsAreFreed
  <2>5. Ran' = Ran /\ Done' = Done
    <3>1. \A b \in Conns : Begun(conn'[b]) <=> Begun(conn[b])
      BY <1>3, <2>1, <2>3, <2>4 DEF Begun, Closed
    <3>2. \A b \in Conns : conn'[b].closing = "done" <=> conn[b].closing = "done"
      <4>1. conn[p].closing # "done"
        BY <1>6 DEF Closed, p
      <4> QED BY <2>1, <2>3, <4>1
    <3> QED BY <3>1, <3>2 DEF Ran, Done
  <2>6. GaugeInv'
    BY <2>1, <2>5 DEF GaugeInv
  <2> QED BY <1>3, <1>4, <1>6, <2>1, <2>3, <2>4, <2>6 DEF Closed
<1> QED BY <1>5, <1>6

LEMMA CloseSocketTells ==
  ASSUME ToldInv, NEW c \in Conns, IInv', CloseSocket(c)
  PROVE  ToldInv'
<1> USE DEF ToldInv
<1> DEFINE a  == IF conn[c].keepalive = "closing" THEN "done" ELSE conn[c].keepalive
           k  == [conn[c] EXCEPT !.closing = "done", !.open = FALSE, !.keepalive = a]
           l  == [k EXCEPT !.ep = "leaving"]
           by == conn[c].closer
<1>1. conn[c] \in Connections /\ conn \in [Conns -> Connections]
  BY DEF IInv, TypeOK
<1>2. /\ conn[c].closing = "socket" /\ UNCHANGED byDevice
      /\ \/ by = NoConn /\ conn' = [conn EXCEPT ![c] = k] /\ gauge' = gauge - 1
         \/ by = c /\ conn' = [conn EXCEPT ![c] = l] /\ gauge' = gauge - 1
         \/ by \notin {c, NoConn} /\ conn' = [conn EXCEPT ![c] = k, ![by] = RunHead(@)]
            /\ gauge' = gauge
      /\ \/ shown' = [shown EXCEPT ![conn[c].device] = OnlineNow(conn[c].device)]
         \/ by = NoConn /\ UNCHANGED shown
  BY <1>1 DEF CloseSocket
<1>3. /\ k.device = conn[c].device /\ k.ep = conn[c].ep /\ k.closing = "done" /\ k.closer = by
      /\ l.device = conn[c].device /\ l.ep = "leaving" /\ l.closing = "done" /\ l.closer = by
  BY <1>1 DEF Connections
<1>4. by \in Conns \cup {NoConn} /\ NoConn \notin Conns /\ Active(conn[c])
  BY <1>1, <1>2 DEF Connections, Conns, NoConn, Active
<1>5. /\ by = c => conn[c].ep = "closing"
      /\ by \notin {c, NoConn} => conn[by].ep = "replacing"
  BY <1>4 DEF IInv, CallersWait
<1>6. by \in Conns => /\ RunHead(conn[by]).device = conn[by].device
                      /\ RunHead(conn[by]).closing = conn[by].closing
                      /\ RunHead(conn[by]).closer = conn[by].closer
                      /\ RunHead(conn[by]).ep = "hello"
  <2>1. ASSUME NEW b \in Conns
        PROVE  /\ RunHead(conn[b]).device = conn[b].device
               /\ RunHead(conn[b]).closing = conn[b].closing
               /\ RunHead(conn[b]).closer = conn[b].closer
               /\ RunHead(conn[b]).ep = "hello"
    BY <1>1 DEF RunHead, Connections
  <2> QED BY <2>1
<1> HIDE DEF k, l
<1>7. /\ conn'[c].device = conn[c].device /\ conn'[c].closing = "done" /\ conn'[c].closer = by
      /\ conn'[c].ep = (IF by = c THEN "leaving" ELSE conn[c].ep)
      /\ \A b \in Conns \ {c} :
            \/ b # by /\ conn'[b] = conn[b]
            \/ /\ b = by /\ conn'[b].device = conn[b].device /\ conn'[b].ep = "hello"
               /\ conn'[b].closing = conn[b].closing /\ conn'[b].closer = conn[b].closer
  <2>1. CASE by = NoConn /\ conn' = [conn EXCEPT ![c] = k]
    BY <1>1, <1>3, <1>4, <2>1
  <2>2. CASE by = c /\ conn' = [conn EXCEPT ![c] = l]
    BY <1>1, <1>3, <2>2
  <2>3. CASE by \notin {c, NoConn} /\ conn' = [conn EXCEPT ![c] = k, ![by] = RunHead(@)]
    <3> HIDE DEF by
    <3> QED BY <1>1, <1>3, <1>4, <1>6, <2>3
  <2> QED BY <1>2, <2>1, <2>2, <2>3
<1> HIDE DEF by
<1>8. \A b \in Conns : /\ conn'[b].device = conn[b].device
                       /\ Closed(conn'[b]) <=> Closed(conn[b])
                       /\ b # c => conn'[b].closing = conn[b].closing /\ conn'[b].closer = conn[b].closer
                       /\ conn'[b].ep \in {"mcp", "warming", "serving"} =>
                             conn[b].ep \in {"mcp", "warming", "serving"}
                       /\ conn'[b].ep = "new" => conn[b].ep = "new"
                       /\ conn'[b].ep = "closing" => conn[b].ep = "closing"
                       /\ conn'[b].ep \in {"leaving", "gone"} =>
                             b = c \/ conn[b].ep \in {"leaving", "gone"}
  BY <1>2, <1>7 DEF Closed
<1>9. GaugeInv'
  <2>1. Done' = Done \cup {c} /\ c \in Done' \ Done
    BY <1>2, <1>7, <1>8 DEF Done
  <2>2. gauge \in Int
    BY DEF IInv, TypeOK
  <2>3. CASE by \in {NoConn, c}
    <3>1. Ran' = Ran
      BY <1>2, <1>4, <1>5, <1>7, <1>8, <2>3 DEF Ran, Begun, Closed
    <3>2. gauge' = gauge - 1 /\ c \notin Ran' \ Ran
      BY <1>2, <2>3, <3>1
    <3> QED BY <2>1, <2>2, <3>1, <3>2, GaugeMoves
  <2>4. CASE by \notin {NoConn, c}
    <3>1. by \in Conns /\ Ran' = Ran \cup {by} /\ by \in Ran' \ Ran
      BY <1>2, <1>4, <1>5, <1>7, <1>8, <2>4 DEF Ran, Begun, Closed
    <3>2. gauge' = gauge
      BY <1>2, <2>4
    <3> QED BY <2>1, <2>2, <3>1, <3>2, GaugeMoves
  <2> QED BY <2>3, <2>4
<1>10. EndsClosed'
  BY <1>2, <1>8 DEF EndsClosed, Closed
<1>11. ToldOnline' /\ ToldOffline'
  <2>1. \A b \in Conns \ {c} : Unsaid(conn[b]) => Unsaid(conn'[b])
    BY <1>8 DEF Unsaid
  <2>2. CASE shown' = [shown EXCEPT ![conn[c].device] = OnlineNow(conn[c].device)]
    BY <1>2, <1>8, <2>1, <2>2, TellKeeps DEF OnlineNow
  <2>3. CASE by = NoConn /\ UNCHANGED shown
    <3>1. ToldOnline'
      BY <1>8, <2>3 DEF ToldOnline
    <3>2. \A d \in Devices : Online(byDevice, conn, d)' <=> Online(byDevice, conn, d)
      BY <1>2, <1>8 DEF Online, IInv, TypeOK
    <3>3. Unsaid(conn'[c])
      BY <1>7, <2>3 DEF Unsaid, Closed
    <3>4. ToldOffline'
      BY <1>8, <2>1, <2>3, <3>2, <3>3 DEF ToldOffline
    <3> QED BY <3>1, <3>4
  <2> QED BY <1>2, <2>2, <2>3 DEF by
<1> QED BY <1>9, <1>10, <1>11

LEMMA LeaveTells ==
  ASSUME ToldInv, NEW c \in Conns, IInv', Leave(c)
  PROVE  ToldInv'
<1> USE DEF ToldInv
<1> DEFINE d == conn[c].device
<1>1. conn[c] \in Connections /\ conn \in [Conns -> Connections] /\ d \in Devices
      /\ byDevice \in [Devices -> Conns \cup {NoConn}] /\ NoConn \notin Conns
  BY DEF IInv, TypeOK, Connections, Conns, NoConn
<1>2. /\ conn' = [conn EXCEPT ![c] = [conn[c] EXCEPT !.ep = "gone", !.open = FALSE]]
      /\ conn[c].ep = "leaving" /\ UNCHANGED <<gauge, shown>>
      /\ byDevice' = [byDevice EXCEPT ![d] = IF byDevice[d] = c THEN NoConn ELSE byDevice[d]]
  BY <1>1 DEF Leave, Detach
<1>3. /\ conn'[c].device = d /\ conn'[c].closing = conn[c].closing
      /\ conn'[c].closer = conn[c].closer /\ conn'[c].ep = "gone"
      /\ \A b \in Conns \ {c} : conn'[b] = conn[b]
  BY <1>1, <1>2 DEF Connections
<1>4. \A e \in Devices : byDevice'[e] = byDevice[e] \/ (byDevice[e] = c /\ byDevice'[e] = NoConn)
  BY <1>1, <1>2
<1>5. byDevice'[d] # c
  BY <1>1, <1>2
<1>6. GaugeInv'
  <2>1. Ran' = Ran /\ Done' = Done
    BY <1>2, <1>3 DEF Ran, Done, Begun, Closed
  <2> QED BY <1>2, <2>1 DEF GaugeInv
<1>7. EndsClosed'
  <2>1. \A b \in Conns : conn[b].device \in Devices
    BY <1>1 DEF Connections
  <2> QED BY <1>1, <1>3, <1>4, <1>5, <2>1 DEF EndsClosed, Closed
<1>8. ToldOnline'
  BY <1>2, <1>3 DEF ToldOnline
<1>9. ToldOffline'
  <2> SUFFICES ASSUME NEW e \in Devices, shown[e], ~Online(byDevice', conn', e)
               PROVE  \E b \in Conns : conn'[b].device = e /\ Unsaid(conn'[b])
    BY <1>2 DEF ToldOffline
  <2>1. ~Online(byDevice, conn, e)
    <3>1. CASE byDevice'[e] = byDevice[e]
      BY <1>1, <1>3, <3>1 DEF Online, Closed
    <3>2. CASE byDevice[e] = c /\ byDevice'[e] = NoConn
      BY <1>1, <1>2, <3>2 DEF Online, EndsClosed, IInv, TypeOK
    <3> QED BY <1>4, <3>1, <3>2
  <2>2. PICK b \in Conns : conn[b].device = e /\ Unsaid(conn[b])
    BY <2>1 DEF ToldOffline
  <2> QED BY <1>3, <2>2 DEF Unsaid, Closed
<1> QED BY <1>6, <1>7, <1>8, <1>9

LEMMA ToldStarts == Init => ToldInv
<1> SUFFICES ASSUME Init PROVE ToldInv
  OBVIOUS
<1>1. \A c \in Conns : conn[c].ep = "new" /\ conn[c].closing = "none"
  BY DEF Init, Fresh
<1>2. Ran = {} /\ Done = {}
  BY <1>1 DEF Ran, Done, Begun
<1>3. GaugeInv
  BY <1>2, FS_EmptySet DEF GaugeInv, Init
<1>4. EndsClosed /\ ToldOnline
  BY <1>1 DEF EndsClosed, ToldOnline, Closed
<1>5. ToldOffline
  BY DEF ToldOffline, Init
<1> QED BY <1>3, <1>4, <1>5, Start DEF ToldInv

LEMMA ToldStep == ToldInv /\ [Next]_vars => ToldInv'
<1> SUFFICES ASSUME ToldInv, [Next]_vars PROVE ToldInv'
  OBVIOUS
<1>1. IInv'
  BY Inductive DEF ToldInv
<1>2. CASE UNCHANGED vars
  <2>1. GaugeInv' /\ EndsClosed' /\ ToldOnline' /\ ToldOffline'
    BY <1>2 DEF vars, ToldInv, GaugeInv, Ran, Done, Begun, EndsClosed, ToldOnline, ToldOffline,
                Online, Unsaid, Closed
  <2> QED BY <1>1, <2>1 DEF ToldInv
<1>3. ASSUME NEW c \in Conns,
             \/ Attach(c) \/ TooMany(c) \/ Hello(c) \/ Serve(c)
             \/ RxReads(c) \/ Receive(c) \/ KeepaliveCloses(c) \/ WriterFails(c)
             \/ CloseStep(c) \/ PeerLost(c)
      PROVE  ToldInv'
  BY <1>1, <1>3, QuietSteps, ClosesKeeps, HelloTells, AttachTells, CloseSocketTells, LeaveTells
     DEF Serve, Receive, CloseStep
<1> QED BY <1>2, <1>3 DEF Next

\* What the gauge and the dashboards have been told of every connection, and what not.
THEOREM Told == Spec => []ToldInv
BY ToldStarts, ToldStep, PTL DEF Spec

\* SESSIONS_ACTIVE is off only by the sessions whose close() was cut short, for any number
\* of robots that come, are refused, replace one another and leave.
THEOREM GaugeBalances == Spec => []GaugeIsBalanced
<1>1. ToldInv => GaugeIsBalanced
  <2> SUFFICES ASSUME ToldInv,
                      \A c \in Conns : /\ conn[c].ep \in {"new", "gone"}
                                       /\ conn[c].closing \in {"none", "done", "cut"}
               PROVE  gauge = Cardinality({c \in Conns : conn[c].closing = "cut"})
    BY DEF GaugeIsBalanced
  <2> DEFINE Cut == {c \in Conns : conn[c].closing = "cut"}
  <2>1. Ran = Done \cup Cut /\ Done \cap Cut = {}
    BY DEF Ran, Done, Begun, Closed, ToldInv, EndsClosed
  <2>2. IsFiniteSet(Cut) /\ Cardinality(Cut) \in Nat
    <3>1. IsFiniteSet(Conns) /\ Cut \subseteq Conns
      BY MaxConnsAssumption, FS_Interval DEF Conns
    <3> QED BY <3>1, FS_Subset, FS_CardinalityType
  <2>3. Cardinality(Done \cup Cut) =
            Cardinality(Done) + Cardinality(Cut) - Cardinality(Done \cap Cut)
    BY <2>2, GaugeSets, FS_Union
  <2>4. Cardinality(Done \cap Cut) = 0
    BY <2>1, FS_EmptySet
  <2> HIDE DEF Cut
  <2>5. gauge = Cardinality(Cut)
    BY <2>1, <2>2, <2>3, <2>4, GaugeSets DEF ToldInv, GaugeInv
  <2> QED BY <2>5 DEF Cut
<1> QED BY <1>1, Told, PTL

\* Whatever the order in which the old session of a robot says offline and the new one
\* online, the dashboards end up right.
THEOREM PresenceSettles == Spec => []PresenceIsTrue
<1>1. ToldInv => PresenceIsTrue
  <2> SUFFICES ASSUME ToldInv, NEW d \in Devices,
                      \A c \in Conns : conn[c].device = d => Settled(c)
               PROVE  shown[d] = Online(byDevice, conn, d)
    BY DEF PresenceIsTrue
  <2>1. shown[d] \in BOOLEAN /\ Online(byDevice, conn, d) \in BOOLEAN
    BY DEF ToldInv, IInv, TypeOK, Online
  <2>2. shown[d] => Online(byDevice, conn, d)
    BY DEF ToldInv, ToldOffline, Settled, Unsaid
  <2>3. ASSUME Online(byDevice, conn, d) PROVE shown[d]
    <3> DEFINE c == byDevice[d]
    <3>1. c \in Conns /\ conn[c].device = d /\ ~Closed(conn[c])
      BY <2>3 DEF Online, ToldInv, IInv, TypeOK
    <3>2. conn[c].ep = "serving"
      BY <2>3, <3>1 DEF Settled, ToldInv, IInv, SlotsAreFreed, Online
    <3> QED BY <3>1, <3>2 DEF ToldInv, ToldOnline
  <2> QED BY <2>1, <2>2, <2>3
<1> QED BY <1>1, Told, PTL
=============================================================================
