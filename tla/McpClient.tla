------------------------------ MODULE McpClient ------------------------------
(***************************************************************************)
(* The JSON-RPC client to the tools of the robot: app/mcp/client.py.       *)
(*                                                                         *)
(* A call is one coroutine that is in call() or in list_user_tools(); it   *)
(* belongs to a turn, a dashboard command, a game or a presence loop, and  *)
(* whoever owns that task may cancel it anywhere.  close() of the session  *)
(* calls cancel_pending().  The robot and the way to it are external: a    *)
(* request may stay unanswered, an answer may come late and out of order.  *)
(***************************************************************************)
EXTENDS Integers, Sequences

CONSTANTS
    Calls,      \* the calls of a behaviour
    Motions,    \* those that move the robot, or stop it
    Listings,   \* those that list the tools, page by page
    Pages       \* how many pages the list of tools has

ASSUME KindsAssumption == Motions \cap Listings = {} /\ Motions \cup Listings \subseteq Calls
ASSUME PagesAssumption == Pages \in Nat \ {0}

VARIABLES
    nextId,   \* _next_id
    pending,  \* _pending: the ids with a future, and the call that made each
    frame,    \* the coroutines
    motion,   \* _motion_lock: the call that holds it, then those that wait
    catalog,  \* user_tool_by_name: the pages it was made from
    hung,     \* the session was closed: what it sends goes nowhere
    asked,    \* the robot: requests it has not answered
    answers,  \* answers the receive loop has not read
    said      \* the robot: its last word to each call

mcpVars == <<nextId, pending, frame, motion, catalog, hung, asked, answers, said>>

McpPcs == {"idle", "motion", "sending", "waiting", "ended"}
Ends == {"none", "result", "error", "timeout", "cancelled"}
Got == {"none", "result", "error", "more", "cancelled"}

\* A coroutine: where it is suspended, its request_id, its future, the pages
\* it has collected, and how it ended.
NewFrame == [pc |-> "idle", id |-> 0, got |-> "none", pages |-> <<>>, end |-> "none"]

McpInit ==
    /\ nextId = 1
    /\ pending = {}
    /\ frame = [c \in Calls |-> NewFrame]
    /\ motion = <<>>
    /\ catalog = <<>>
    /\ hung = FALSE
    /\ asked = {} /\ answers = {}
    /\ said = [c \in Calls |-> "none"]

\* _allocate_id
Allocate == nextId + 1

\* send_request up to its first await, under a lock that is held over none.
SendRequest(c, f) ==
    /\ nextId' = Allocate
    /\ pending' = pending \cup {[id |-> nextId, of |-> c]}
    /\ frame' = [frame EXCEPT ![c] = [f EXCEPT !.pc = "sending", !.id = nextId, !.got = "none"]]

\* The end of the async with block of call(), or of the wait for the lock.
LeaveMotion(c) ==
    LET at == {i \in 1 .. Len(motion) : motion[i] = c}
    IN  IF at = {} THEN motion
        ELSE LET i == CHOOSE i \in at : TRUE
             IN  SubSeq(motion, 1, i - 1) \o SubSeq(motion, i + 1, Len(motion))

\* The call ends, and whoever waits behind it for the lock goes on in GetMotion.
Ended(c, how) ==
    /\ frame' = [frame EXCEPT ![c] = [@ EXCEPT !.pc = "ended", !.end = how]]
    /\ motion' = LeaveMotion(c)

\* call() and list_user_tools(): a motion waits for its turn.
Call(c) ==
    /\ frame[c].pc = "idle"
    /\ IF c \in Motions /\ motion # <<>>
       THEN frame' = [frame EXCEPT ![c].pc = "motion"] /\ UNCHANGED <<nextId, pending>>
       ELSE SendRequest(c, frame[c])
    /\ motion' = IF c \in Motions THEN Append(motion, c) ELSE motion
    /\ UNCHANGED <<catalog, hung, asked, answers, said>>

GetMotion(c) ==
    /\ frame[c].pc = "motion" /\ Head(motion) = c
    /\ SendRequest(c, frame[c])
    /\ UNCHANGED <<motion, catalog, hung, asked, answers, said>>

\* _queue_json has found room, or the session is closed.
Sent(c) ==
    /\ frame[c].pc = "sending"
    /\ frame' = [frame EXCEPT ![c].pc = "waiting"]
    /\ asked' = IF hung THEN asked ELSE asked \cup {[id |-> frame[c].id, of |-> c]}
    /\ UNCHANGED <<nextId, pending, motion, catalog, hung, answers, said>>

\* The robot: an error, the whole result, or a page with a cursor to the next.
Robot ==
    \E r \in asked, kind \in {"result", "error", "more"} :
        /\ (kind = "more") => (r.of \in Listings /\ Len(frame[r.of].pages) + 1 < Pages)
        /\ (kind = "result" /\ r.of \in Listings) => Len(frame[r.of].pages) + 1 = Pages
        /\ asked' = asked \ {r}
        /\ answers' = answers \cup {[id |-> r.id, of |-> r.of, kind |-> kind]}
        /\ said' = IF kind = "more" THEN said ELSE [said EXCEPT ![r.of] = kind]
        /\ UNCHANGED <<nextId, pending, frame, motion, catalog, hung>>

\* Whether the future of request e is still awaited and not done.
Open(e) ==
    /\ frame[e.of].pc \in {"sending", "waiting"}
    /\ frame[e.of].id = e.id /\ frame[e.of].got = "none"

\* A bug: on_message gives an answer to whoever waits.
AnyPending(a) == pending

\* on_message: the futures an answer is for.
Addressed(a) == {e \in pending : e.id = a.id}

OnMessage ==
    \E a \in answers :
        /\ answers' = answers \ {a}
        /\ pending' = pending \ Addressed(a)
        /\ frame' = [c \in Calls |->
                        IF \E e \in Addressed(a) : e.of = c /\ Open(e)
                        THEN [frame[c] EXCEPT !.got = a.kind] ELSE frame[c]]
        /\ UNCHANGED <<nextId, motion, catalog, hung, asked, said>>

\* A bug: list_user_tools publishes what it has at every page.
PublishPages(c, pages) == pages

\* list_user_tools: the map is replaced when the last page is there.
Publish(c, pages) == IF frame[c].got = "result" THEN pages ELSE catalog

\* wait_for returns: the rest of send_request, _call, and the loop of _fetch_tools.
Resume(c) ==
    LET f == frame[c]
        pages == IF c \in Listings /\ f.got \in {"result", "more"}
                 THEN Append(f.pages, Len(f.pages) + 1) ELSE f.pages
    IN  /\ f.pc = "waiting" /\ f.got # "none"
        /\ IF f.got = "more"
           THEN SendRequest(c, [f EXCEPT !.pages = pages]) /\ UNCHANGED motion
           ELSE Ended(c, f.got) /\ UNCHANGED <<nextId, pending>>
        /\ catalog' = IF c \in Listings THEN Publish(c, pages) ELSE catalog
        /\ UNCHANGED <<hung, asked, answers, said>>

Timeout(c) ==
    /\ frame[c].pc = "waiting" /\ frame[c].got = "none"
    /\ Ended(c, "timeout")
    /\ pending' = {e \in pending : e.id # frame[c].id}
    /\ UNCHANGED <<nextId, catalog, hung, asked, answers, said>>

\* The task the call runs in is cancelled: its id stays in _pending.
Cancel(c) ==
    /\ frame[c].pc \in {"motion", "sending", "waiting"}
    /\ Ended(c, "cancelled")
    /\ UNCHANGED <<nextId, pending, catalog, hung, asked, answers, said>>

\* A bug: cancel_pending forgets the futures without cancelling them.
Hung(c) == frame[c]

\* The future of c after cancel_pending.
Unheard(c) ==
    IF \E e \in pending : e.of = c /\ Open(e) THEN [frame[c] EXCEPT !.got = "cancelled"]
                                              ELSE frame[c]

\* cancel_pending, called by close().
CancelPending ==
    /\ ~hung
    /\ hung' = TRUE
    /\ frame' = [c \in Calls |-> Unheard(c)]
    /\ pending' = {}
    /\ UNCHANGED <<nextId, motion, catalog, asked, answers, said>>

Step(c) == GetMotion(c) \/ Sent(c) \/ Resume(c) \/ Timeout(c)

McpNext ==
    \/ \E c \in Calls : Call(c) \/ GetMotion(c) \/ Sent(c) \/ Resume(c) \/ Timeout(c) \/ Cancel(c)
    \/ Robot
    \/ OnMessage
    \/ CancelPending

\* asyncio runs what is ready and its timers; the robot owes nothing.
McpSpec == McpInit /\ [][McpNext]_mcpVars /\ \A c \in Calls : WF_mcpVars(Step(c))

-----------------------------------------------------------------------------
Requests == [id : 1 .. nextId - 1, of : Calls]

\* The state has its types, and an id belongs to a request that was made: a
\* request id that came back would let an answer reach another caller.
McpTypeOK ==
    /\ nextId \in Nat \ {0}
    /\ pending \subseteq Requests
    /\ asked \subseteq Requests
    /\ answers \subseteq [id : 1 .. nextId - 1, of : Calls, kind : {"result", "error", "more"}]
    /\ frame \in [Calls -> [pc : McpPcs, id : 0 .. nextId - 1, got : Got,
                            pages : Seq(1 .. Pages), end : Ends]]
    /\ motion \in Seq(Motions)
    /\ catalog \in Seq(1 .. Pages)
    /\ hung \in BOOLEAN
    /\ said \in [Calls -> {"none", "result", "error"}]

\* The catalogue of user tools is empty or holds every page of the list: a
\* listing that fails half way, or two that overlap, never leave a part of it
\* (list_user_tools assigns after the last page of _fetch_tools).
CatalogIsWhole == Len(catalog) \in {0, Pages}

\* A motion is under way for one call only, and for the first of those that
\* asked: a game, a dance and a turn that move the robot at once take turns,
\* and Stop waits for its own (call() under _motion_lock).
OneMotion ==
    \A c \in Motions : frame[c].pc \in {"sending", "waiting"} => c = Head(motion)

\* What the caller of c sees of its call.
OutcomeOf(c) ==
    CASE frame[c].pc = "idle" -> "idle"
      [] frame[c].pc = "ended" /\ frame[c].end \in {"result", "error"} -> frame[c].end
      [] frame[c].pc = "ended" /\ frame[c].end \notin {"result", "error"} -> "failed"
      [] OTHER -> "asked"

Promise == INSTANCE RemoteCalls WITH given <- said, outcome <- [c \in Calls |-> OutcomeOf(c)]

\* The client implements RemoteCalls: every call ends, once, with what the robot
\* said to that call or with a failure; never with the answer to a call that
\* timed out before it, and never left behind by cancel_pending, by a motion
\* that was cancelled or by one that is not answered.
RefinesCalls == Promise!CallsSpec

=============================================================================
