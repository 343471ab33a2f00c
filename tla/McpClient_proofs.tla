-------------------------- MODULE McpClient_proofs --------------------------
(***************************************************************************)
(* For any number of calls, motions, listings and pages: the client keeps  *)
(* its types, publishes whole catalogues only, lets one motion through at  *)
(* a time, and takes no step that RemoteCalls does not allow.              *)
(***************************************************************************)
EXTENDS McpClient, SequenceTheorems, TLAPS

Active == {"motion", "sending", "waiting"}

\* An id belongs to one call: whoever holds it as request_id made the request.
IdsAreOwned ==
    /\ \A r \in asked : \A d \in Calls : frame[d].id = r.id => r.of = d
    /\ \A a \in answers : \A d \in Calls : frame[d].id = a.id => a.of = d
    /\ \A c, d \in Calls : frame[c].id = frame[d].id /\ frame[c].id # 0 => c = d

\* The robot has been asked by the current request of a call at most, and not yet
\* spoken.
AskedIsCurrent ==
    \A r \in asked :
        /\ r.id = frame[r.of].id /\ frame[r.of].pc \in {"waiting", "ended"}
        /\ said[r.of] = "none"

\* An answer that still counts is the last word of the robot, or says none.
AnswerIsTrue ==
    \A a \in answers :
        /\ a.kind \in {"result", "error"} => said[a.of] = a.kind
        /\ a.id = frame[a.of].id =>
            /\ frame[a.of].pc # "sending"
            /\ \A r \in asked : r.of # a.of
            /\ a.kind = "more" => said[a.of] = "none" /\ Len(frame[a.of].pages) + 1 < Pages
            /\ a.kind = "result" /\ a.of \in Listings => Len(frame[a.of].pages) + 1 = Pages

\* What a call got is what the robot said to it.
GotWell(c) ==
    LET f == frame[c]
    IN  /\ f.pc \in {"idle", "motion", "sending"} => said[c] = "none" /\ f.got \in {"none", "cancelled"}
        /\ f.pc \in {"idle", "motion"} => f.id = 0
        /\ f.pc \in {"sending", "waiting"} => f.id # 0
        /\ f.pc = "waiting" /\ f.got \in {"result", "error"} => said[c] = f.got
        /\ f.pc = "waiting" /\ f.got = "more" =>
            /\ said[c] = "none" /\ Len(f.pages) + 1 < Pages
            /\ \A r \in asked : r.of # c
        /\ f.pc = "waiting" /\ f.got = "result" /\ c \in Listings => Len(f.pages) + 1 = Pages

GotIsTrue == \A c \in Calls : GotWell(c)

\* The motions that have begun and not ended are the queue of the lock.
QueueIsMotions ==
    /\ \A i, j \in 1 .. Len(motion) : motion[i] = motion[j] => i = j
    /\ \A i \in 1 .. Len(motion) : frame[motion[i]].pc \in Active
    /\ \A c \in Motions : frame[c].pc \in Active => \E i \in 1 .. Len(motion) : motion[i] = c
    /\ \A c \in Motions : frame[c].pc \in {"sending", "waiting"} => motion[1] = c

McpInv ==
    /\ McpTypeOK
    /\ IdsAreOwned
    /\ AskedIsCurrent
    /\ AnswerIsTrue
    /\ GotIsTrue
    /\ QueueIsMotions
    /\ CatalogIsWhole

-----------------------------------------------------------------------------
\* The types of a frame.
Frames == [pc : McpPcs, id : 0 .. nextId - 1, got : Got, pages : Seq(1 .. Pages), end : Ends]

\* A sequence without its element i.
LEMMA Removal ==
  ASSUME NEW S, NEW s \in Seq(S), NEW i \in 1 .. Len(s)
  PROVE  LET t == SubSeq(s, 1, i - 1) \o SubSeq(s, i + 1, Len(s))
         IN  /\ t \in Seq(S) /\ Len(t) = Len(s) - 1
             /\ \A j \in 1 .. Len(t) : t[j] = IF j < i THEN s[j] ELSE s[j + 1]
<1> DEFINE t == SubSeq(s, 1, i - 1) \o SubSeq(s, i + 1, Len(s))
           a == SubSeq(s, 1, i - 1)
           b == SubSeq(s, i + 1, Len(s))
<1>1. Len(s) \in Nat /\ \A j \in 1 .. Len(s) : s[j] \in S
  BY ElementOfSeq, LenProperties
<1>2. /\ a \in Seq(S) /\ Len(a) = i - 1
      /\ \A j \in 1 .. i - 1 : a[j] = s[j]
  <2>1. \A j \in 1 .. i - 1 : s[j] \in S
    BY <1>1
  <2> QED BY <1>1, <2>1, SubSeqProperties
<1>3. /\ b \in Seq(S) /\ Len(b) = Len(s) - i
      /\ \A j \in 1 .. Len(s) - i : b[j] = s[i + j]
  <2>1. \A j \in i + 1 .. Len(s) : s[j] \in S
    BY <1>1
  <2>2. /\ SubSeq(s, i + 1, Len(s)) \in Seq(S)
        /\ Len(SubSeq(s, i + 1, Len(s))) = IF i + 1 <= Len(s) THEN Len(s) - (i + 1) + 1 ELSE 0
        /\ \A j \in 1 .. Len(s) - (i + 1) + 1 : SubSeq(s, i + 1, Len(s))[j] = s[(i + 1) + j - 1]
    BY <1>1, <2>1, SubSeqProperties
  <2> QED BY <1>1, <2>2
<1>4. t = a \o b
  OBVIOUS
<1> HIDE DEF a, b, t
<1>5. /\ t \in Seq(S) /\ Len(t) = Len(a) + Len(b)
      /\ \A j \in 1 .. Len(a) + Len(b) : t[j] = IF j <= Len(a) THEN a[j] ELSE b[j - Len(a)]
  <2>1. a \in Seq(S) /\ b \in Seq(S)
    BY <1>2, <1>3
  <2>2. /\ a \o b \in Seq(S) /\ Len(a \o b) = Len(a) + Len(b)
        /\ \A j \in 1 .. Len(a) + Len(b) : (a \o b)[j] = IF j <= Len(a) THEN a[j] ELSE b[j - Len(a)]
    BY <2>1, ConcatProperties
  <2> QED BY <1>4, <2>2
<1>6. Len(t) = Len(s) - 1
  <2>1. Len(s) \in Nat /\ i \in Int /\ Len(a) = i - 1 /\ Len(b) = Len(s) - i /\ Len(t) = Len(a) + Len(b)
    BY <1>1, <1>2, <1>3, <1>5
  <2> QED BY <2>1
<1>7. ASSUME NEW j \in 1 .. Len(t)
      PROVE  t[j] = IF j < i THEN s[j] ELSE s[j + 1]
  <2>1. CASE j < i
    BY <1>1, <1>2, <1>5, <1>6, <2>1
  <2>2. CASE ~(j < i)
    <3>0. /\ Len(a) = i - 1 /\ Len(b) = Len(s) - i /\ Len(s) \in Nat /\ i \in 1 .. Len(s)
          /\ j \in 1 .. Len(a) + Len(b) /\ ~(j <= Len(a)) /\ j - Len(a) \in 1 .. Len(s) - i
      BY <1>1, <1>2, <1>3, <1>6, <2>2
    <3>1. t[j] = b[j - (i - 1)] /\ j - (i - 1) \in 1 .. Len(s) - i
      BY <1>5, <3>0
    <3>2. i + (j - (i - 1)) = j + 1
      BY <1>1, <1>6
    <3> QED BY <1>3, <2>2, <3>1, <3>2
  <2> QED BY <2>1, <2>2
<1> QED BY <1>5, <1>6, <1>7 DEF t

\* The queue of the motion lock does not change, and no call enters or leaves it.
LEMMA QueueStays ==
  ASSUME McpInv, motion' = motion,
         \A d \in Calls : /\ frame'[d].pc \in Active <=> frame[d].pc \in Active
                          /\ d \in Motions /\ frame'[d].pc \in {"sending", "waiting"} =>
                                 motion[1] = d \/ frame[d].pc \in {"sending", "waiting"}
  PROVE  motion' \in Seq(Motions) /\ QueueIsMotions'
<1>1. motion \in Seq(Motions) /\ Motions \subseteq Calls
  BY KindsAssumption DEF McpInv, McpTypeOK
<1>2. \A i \in 1 .. Len(motion) : motion[i] \in Calls
  BY <1>1, ElementOfSeq
<1> QED BY <1>1, <1>2 DEF McpInv, QueueIsMotions

\* The queue of the motion lock after the call c has ended.
LEMMA QueueLeaves ==
  ASSUME McpInv, NEW c \in Calls, motion' = LeaveMotion(c),
         frame'[c].pc = "ended", \A d \in Calls : d # c => frame'[d].pc = frame[d].pc
  PROVE  motion' \in Seq(Motions) /\ QueueIsMotions'
<1> DEFINE at == {i \in 1 .. Len(motion) : motion[i] = c}
<1>1. motion \in Seq(Motions) /\ Motions \subseteq Calls /\ QueueIsMotions
  BY KindsAssumption DEF McpInv, McpTypeOK
<1>2. Len(motion) \in Nat /\ \A i \in 1 .. Len(motion) : motion[i] \in Motions
  BY <1>1, ElementOfSeq, LenProperties
<1>3. CASE at = {}
  <2>1. motion' = motion
    BY <1>3 DEF LeaveMotion
  <2> QED BY <1>1, <1>2, <1>3, <2>1 DEF QueueIsMotions, Active
<1>4. CASE at # {}
  <2>1. PICK i \in at : motion' = SubSeq(motion, 1, i - 1) \o SubSeq(motion, i + 1, Len(motion))
    BY <1>4 DEF LeaveMotion
  <2>2. i \in 1 .. Len(motion) /\ motion[i] = c
    BY <2>1
  <2>3. /\ motion' \in Seq(Motions) /\ Len(motion') = Len(motion) - 1
        /\ \A j \in 1 .. Len(motion') : motion'[j] = IF j < i THEN motion[j] ELSE motion[j + 1]
    <3> DEFINE t == SubSeq(motion, 1, i - 1) \o SubSeq(motion, i + 1, Len(motion))
    <3>1. /\ t \in Seq(Motions) /\ Len(t) = Len(motion) - 1
          /\ \A j \in 1 .. Len(t) : t[j] = IF j < i THEN motion[j] ELSE motion[j + 1]
      BY <1>1, <2>2, Removal
    <3> HIDE DEF t
    <3>2. motion' = t
      BY <2>1 DEF t
    <3> QED BY <3>1, <3>2
  <2> DEFINE from(j) == IF j < i THEN j ELSE j + 1
  <2>4. \A j \in 1 .. Len(motion') : /\ from(j) \in 1 .. Len(motion) /\ from(j) # i
                                     /\ motion'[j] = motion[from(j)]
    BY <1>2, <2>2, <2>3
  <2>5. \A j, k \in 1 .. Len(motion') : motion'[j] = motion'[k] => j = k
    <3>1. ASSUME NEW j \in 1 .. Len(motion'), NEW k \in 1 .. Len(motion'), from(j) = from(k)
          PROVE  j = k
      BY <1>2, <2>2, <2>3, <3>1
    <3> HIDE DEF from
    <3> QED BY <1>1, <2>4, <3>1 DEF QueueIsMotions
  <2>6. \A j \in 1 .. Len(motion') : motion'[j] # c /\ frame'[motion'[j]].pc \in Active
    <3> HIDE DEF from
    <3>1. ASSUME NEW j \in 1 .. Len(motion')
          PROVE  motion'[j] # c /\ motion'[j] \in Calls /\ frame[motion'[j]].pc \in Active
      BY <1>1, <1>2, <2>2, <2>4 DEF QueueIsMotions
    <3> QED BY <3>1
  <2>7. ASSUME NEW d \in Motions, frame'[d].pc \in Active
        PROVE  \E j \in 1 .. Len(motion') : motion'[j] = d
    <3>1. d # c /\ frame[d].pc \in Active
      BY <1>1, <2>7 DEF Active
    <3>2. PICK k \in 1 .. Len(motion) : motion[k] = d
      BY <1>1, <2>7, <3>1 DEF QueueIsMotions
    <3>3. k # i
      BY <2>2, <3>1, <3>2
    <3>4. CASE k < i
      BY <1>2, <2>2, <2>3, <3>2, <3>4
    <3>5. CASE k > i
      <4>1. k - 1 \in 1 .. Len(motion') /\ ~(k - 1 < i) /\ (k - 1) + 1 = k
        BY <1>2, <2>2, <2>3, <3>5
      <4> QED BY <2>3, <3>2, <4>1
    <3> QED BY <1>2, <2>2, <3>3, <3>4, <3>5
  <2>8. ASSUME NEW d \in Motions, frame'[d].pc \in {"sending", "waiting"}
        PROVE  motion'[1] = d
    <3>1. d # c /\ frame[d].pc \in {"sending", "waiting"}
      BY <1>1, <2>8
    <3>2. motion[1] = d
      BY <1>1, <2>8, <3>1 DEF QueueIsMotions
    <3>3. i # 1 /\ 1 \in 1 .. Len(motion')
      BY <1>2, <2>2, <2>3, <3>1, <3>2
    <3> QED BY <1>2, <2>2, <2>3, <3>2, <3>3
  <2> QED BY <2>3, <2>5, <2>6, <2>7, <2>8 DEF QueueIsMotions
<1> QED BY <1>3, <1>4

-----------------------------------------------------------------------------
\* A call that makes a new request keeps the invariant: nothing in the world bears
\* its id, and nobody has been asked on its behalf.
LEMMA SendKeeps ==
  ASSUME McpInv, NEW c \in Calls, NEW f \in Frames, SendRequest(c, f), said[c] = "none",
         \A r \in asked : r.of # c,
         motion' \in Seq(Motions), QueueIsMotions',
         catalog' = catalog, UNCHANGED <<hung, asked, answers, said>>
  PROVE  McpInv'
<1> DEFINE g == [f EXCEPT !.pc = "sending", !.id = nextId, !.got = "none"]
<1>1. /\ nextId' = nextId + 1 /\ nextId \in Nat \ {0}
      /\ pending' = pending \cup {[id |-> nextId, of |-> c]}
      /\ frame' = [frame EXCEPT ![c] = g]
      /\ frame \in [Calls -> Frames]
  BY DEF SendRequest, Allocate, McpInv, McpTypeOK, Frames
<1>2. /\ g.pc = "sending" /\ g.id = nextId /\ g.got = "none"
      /\ g.pages = f.pages /\ g.end = f.end /\ g \in Frames'
  <2>1. /\ g.pc = "sending" /\ g.id = nextId /\ g.got = "none"
        /\ g.pages = f.pages /\ g.end = f.end
        /\ g = [pc |-> g.pc, id |-> g.id, got |-> g.got, pages |-> g.pages, end |-> g.end]
    <3>1. f = [pc |-> f.pc, id |-> f.id, got |-> f.got, pages |-> f.pages, end |-> f.end]
      BY DEF Frames
    <3> DEFINE f1 == [f EXCEPT !.pc = "sending"]
               f2 == [f1 EXCEPT !.id = nextId]
               f3 == [f2 EXCEPT !.got = "none"]
    <3>2. f1 = [pc |-> "sending", id |-> f.id, got |-> f.got, pages |-> f.pages, end |-> f.end]
      BY <3>1
    <3>3. g = f3
      OBVIOUS
    <3> HIDE DEF f1, g
    <3>4. f2 = [pc |-> "sending", id |-> nextId, got |-> f.got, pages |-> f.pages, end |-> f.end]
      BY <3>2
    <3> HIDE DEF f2
    <3>5. f3 = [pc |-> "sending", id |-> nextId, got |-> "none", pages |-> f.pages, end |-> f.end]
      BY <3>4
    <3> HIDE DEF f3
    <3> QED BY <3>3, <3>5
  <2>2. g.pages \in Seq(1 .. Pages) /\ g.end \in Ends /\ g.pc \in McpPcs /\ g.got \in Got
    BY <2>1 DEF Frames, McpPcs, Got
  <2>3. g.id \in 0 .. nextId' - 1
    BY <1>1, <2>1
  <2> HIDE DEF g
  <2>4. g \in [pc : McpPcs, id : 0 .. nextId' - 1, got : Got, pages : Seq(1 .. Pages), end : Ends]
    BY <2>1, <2>2, <2>3
  <2> QED BY <2>1, <2>4 DEF Frames
<1> HIDE DEF g
<1>3. /\ frame' \in [Calls -> Frames'] /\ frame'[c] = g
      /\ \A d \in Calls : d # c => frame'[d] = frame[d]
  <2>1. Frames \subseteq Frames'
    BY <1>1 DEF Frames
  <2> QED BY <1>1, <1>2, <2>1
<1>4. \A d \in Calls : frame[d].id \in 0 .. nextId - 1
  BY <1>1 DEF Frames
<1>5. /\ Requests \subseteq Requests' /\ [id |-> nextId, of |-> c] \in Requests'
      /\ answers \subseteq [id : 1 .. nextId - 1, of : Calls, kind : {"result", "error", "more"}]
      /\ asked \subseteq Requests /\ pending \subseteq Requests
      /\ said \in [Calls -> {"none", "result", "error"}]
  BY <1>1 DEF Requests, McpInv, McpTypeOK
<1>6. /\ \A r \in asked : r.id \in 1 .. nextId - 1 /\ r.of \in Calls
      /\ \A a \in answers : a.id \in 1 .. nextId - 1 /\ a.of \in Calls
  BY <1>5 DEF Requests
<1>7. McpTypeOK'
  <2>1. answers' \subseteq [id : 1 .. nextId' - 1, of : Calls, kind : {"result", "error", "more"}]
    BY <1>1, <1>5
  <2>2. pending' \subseteq Requests' /\ asked' \subseteq Requests'
    BY <1>1, <1>5
  <2>3. nextId' \in Nat \ {0}
    BY <1>1
  <2>4. frame' \in [Calls -> [pc : McpPcs, id : 0 .. nextId' - 1, got : Got,
                              pages : Seq(1 .. Pages), end : Ends]]
    BY <1>3 DEF Frames
  <2> QED BY <2>1, <2>2, <2>3, <2>4 DEF McpInv, McpTypeOK
<1>8. IdsAreOwned'
  BY <1>1, <1>2, <1>3, <1>4, <1>6 DEF McpInv, IdsAreOwned
<1>9. AskedIsCurrent'
  BY <1>3, <1>6 DEF McpInv, AskedIsCurrent
<1>10. AnswerIsTrue'
  BY <1>1, <1>2, <1>3, <1>6 DEF McpInv, AnswerIsTrue
<1>11. GotIsTrue'
  BY <1>1, <1>2, <1>3, <1>6 DEF McpInv, GotIsTrue, GotWell
<1> QED BY <1>7, <1>8, <1>9, <1>10, <1>11 DEF McpInv, CatalogIsWhole

\* A call that ends keeps the invariant.
LEMMA EndKeeps ==
  ASSUME McpInv, NEW c \in Calls, NEW how \in Ends, frame[c].pc \in Active, Ended(c, how),
         pending' \subseteq pending,
         catalog' \in Seq(1 .. Pages), Len(catalog') \in {0, Pages},
         UNCHANGED <<nextId, hung, asked, answers, said>>
  PROVE  McpInv'
<1> DEFINE g == [frame[c] EXCEPT !.pc = "ended", !.end = how]
<1>1. frame' = [frame EXCEPT ![c] = g] /\ frame \in [Calls -> Frames]
  BY DEF Ended, McpInv, McpTypeOK, Frames
<1>2. /\ g.pc = "ended" /\ g.id = frame[c].id /\ g.got = frame[c].got
      /\ g.pages = frame[c].pages /\ g.end = how /\ g \in Frames
  BY <1>1 DEF Frames, McpPcs
<1> HIDE DEF g
<1>3. /\ frame' \in [Calls -> Frames] /\ frame'[c] = g
      /\ \A d \in Calls : d # c => frame'[d] = frame[d]
  BY <1>1, <1>2
<1>4. motion' \in Seq(Motions) /\ QueueIsMotions'
  BY <1>2, <1>3, QueueLeaves DEF Ended
<1>5. McpTypeOK'
  BY <1>3, <1>4 DEF McpInv, McpTypeOK, Frames, Requests
<1>6. \A d \in Calls : /\ frame'[d].id = frame[d].id /\ frame'[d].pages = frame[d].pages
                       /\ frame'[d].pc \in {frame[d].pc, "ended"}
  BY <1>2, <1>3
<1>7. IdsAreOwned'
  BY <1>6 DEF McpInv, IdsAreOwned
<1>8. \A r \in asked : r.of \in Calls
  BY DEF McpInv, McpTypeOK, Requests
<1>9. AskedIsCurrent'
  BY <1>6, <1>8 DEF McpInv, AskedIsCurrent
<1>10. AnswerIsTrue'
  <2>1. \A a \in answers : a.of \in Calls
    BY DEF McpInv, McpTypeOK
  <2> QED BY <1>6, <2>1 DEF McpInv, AnswerIsTrue
<1>11. GotIsTrue'
  BY <1>2, <1>3 DEF McpInv, GotIsTrue, GotWell
<1> QED BY <1>4, <1>5, <1>7, <1>9, <1>10, <1>11 DEF McpInv, CatalogIsWhole

-----------------------------------------------------------------------------
\* The initial states.
LEMMA InitHolds == McpInit => McpInv
<1> SUFFICES ASSUME McpInit PROVE McpInv
  OBVIOUS
<1>1. McpTypeOK
  <2>1. <<>> \in Seq(1 .. Pages) /\ <<>> \in Seq(Motions)
    BY EmptySeq
  <2>2. NewFrame \in [pc : McpPcs, id : 0 .. nextId - 1, got : Got, pages : Seq(1 .. Pages),
                      end : Ends]
    BY <2>1 DEF McpInit, NewFrame, McpPcs, Got, Ends
  <2>3. frame \in [Calls -> [pc : McpPcs, id : 0 .. nextId - 1, got : Got, pages : Seq(1 .. Pages),
                             end : Ends]]
    BY <2>2 DEF McpInit
  <2>4. nextId = 1 /\ hung = FALSE /\ pending = {} /\ asked = {} /\ answers = {}
    BY DEF McpInit
  <2>6. said \in [Calls -> {"none", "result", "error"}]
    BY DEF McpInit
  <2>5. motion \in Seq(Motions) /\ catalog \in Seq(1 .. Pages)
    BY <2>1 DEF McpInit
  <2>8. hung \in BOOLEAN
    BY <2>4
  <2>7. /\ nextId \in Nat \ {0}
        /\ pending \subseteq Requests /\ asked \subseteq Requests
        /\ answers \subseteq [id : 1 .. nextId - 1, of : Calls, kind : {"result", "error", "more"}]
    BY <2>4
  <2> QED BY <2>3, <2>5, <2>6, <2>7, <2>8 DEF McpTypeOK
<1>2. Len(catalog) = 0 /\ Len(motion) = 0
  BY EmptySeq DEF McpInit
<1>3. \A c \in Calls : /\ frame[c].pc = "idle" /\ frame[c].id = 0 /\ frame[c].got = "none"
                       /\ said[c] = "none"
  BY DEF McpInit, NewFrame
<1>4. IdsAreOwned /\ AskedIsCurrent /\ AnswerIsTrue
  BY <1>3 DEF McpInit, IdsAreOwned, AskedIsCurrent, AnswerIsTrue
<1>5. GotIsTrue
  BY <1>3 DEF GotIsTrue, GotWell
<1>6. QueueIsMotions
  BY <1>2, <1>3, KindsAssumption DEF QueueIsMotions, Active
<1> QED BY <1>1, <1>2, <1>4, <1>5, <1>6 DEF McpInv, CatalogIsWhole

\* What SendRequest does to the place of the call.
LEMMA SendPlaces ==
  ASSUME McpInv, NEW c \in Calls, NEW f \in Frames, SendRequest(c, f)
  PROVE  frame'[c].pc = "sending" /\ \A d \in Calls : d # c => frame'[d] = frame[d]
BY DEF SendRequest, McpInv, McpTypeOK, Frames

\* A call begins: it sends, or a motion waits behind another.
LEMMA CallKeeps ==
  ASSUME McpInv, NEW c \in Calls, Call(c)
  PROVE  McpInv'
<1> USE DEF Call
<1>1. frame \in [Calls -> Frames] /\ motion \in Seq(Motions) /\ Motions \subseteq Calls
  BY KindsAssumption DEF McpInv, McpTypeOK, Frames
<1>2. /\ said[c] = "none" /\ \A r \in asked : r.of # c
      /\ \A i \in 1 .. Len(motion) : motion[i] # c
  BY DEF McpInv, GotIsTrue, GotWell, AskedIsCurrent, QueueIsMotions, Active
<1>3. CASE c \notin Motions
  <2>1. SendRequest(c, frame[c]) /\ motion' = motion
    BY <1>3
  <2>2. /\ frame'[c].pc = "sending" /\ \A d \in Calls : d # c => frame'[d] = frame[d]
    BY <1>1, <2>1, SendPlaces
  <2>3. motion' \in Seq(Motions) /\ QueueIsMotions'
    BY <1>1, <1>2, <1>3, <2>1, <2>2, ElementOfSeq DEF McpInv, QueueIsMotions
  <2> QED BY <1>1, <1>2, <2>1, <2>3, SendKeeps
<1>4. CASE c \in Motions
  <2>1. /\ motion' = Append(motion, c) /\ motion' \in Seq(Motions)
        /\ Len(motion) \in Nat /\ Len(motion') = Len(motion) + 1 /\ motion'[Len(motion) + 1] = c
        /\ \A i \in 1 .. Len(motion) : motion'[i] = motion[i] /\ motion[i] \in Calls
    <3>1. motion' = Append(motion, c)
      BY <1>4
    <3>2. Len(motion) \in Nat /\ \A i \in 1 .. Len(motion) : motion[i] \in Calls
      BY <1>1, ElementOfSeq, LenProperties
    <3> QED BY <1>1, <1>4, <3>1, <3>2, AppendProperties
  <2>2. ASSUME frame'[c].pc \in Active,
               frame'[c].pc \in {"sending", "waiting"} => Len(motion) = 0,
               \A d \in Calls : d # c => frame'[d] = frame[d]
        PROVE  QueueIsMotions'
    <3>1. \A i \in 1 .. Len(motion') : i \in 1 .. Len(motion) \/ i = Len(motion) + 1
      BY <2>1
    <3>2. \A i \in 1 .. Len(motion) : i \in 1 .. Len(motion')
      BY <2>1
    <3>3. \A i, j \in 1 .. Len(motion') : motion'[i] = motion'[j] => i = j
      BY <1>2, <2>1, <3>1 DEF McpInv, QueueIsMotions
    <3>4. \A i \in 1 .. Len(motion') : frame'[motion'[i]].pc \in Active
      BY <1>2, <2>1, <2>2, <3>1 DEF McpInv, QueueIsMotions
    <3>5. \A d \in Motions : frame'[d].pc \in Active => \E i \in 1 .. Len(motion') : motion'[i] = d
      BY <1>1, <2>1, <2>2, <3>2 DEF McpInv, QueueIsMotions
    <3>6. ASSUME NEW d \in Motions, frame'[d].pc \in {"sending", "waiting"}
          PROVE  motion'[1] = d
      <4>1. CASE d = c
        BY <2>1, <2>2, <3>6, <4>1
      <4>2. CASE d # c
        <5>1. frame[d].pc \in {"sending", "waiting"}
          BY <1>1, <2>2, <3>6, <4>2
        <5>2. motion[1] = d /\ \E i \in 1 .. Len(motion) : motion[i] = d
          BY <5>1 DEF McpInv, QueueIsMotions, Active
        <5>3. 1 \in 1 .. Len(motion)
          BY <2>1, <5>2
        <5> QED BY <2>1, <5>2, <5>3
      <4> QED BY <4>1, <4>2
    <3> QED BY <3>3, <3>4, <3>5, <3>6 DEF QueueIsMotions
  <2>3. CASE motion # <<>>
    <3>1. /\ frame' = [frame EXCEPT ![c].pc = "motion"]
          /\ UNCHANGED <<nextId, pending, catalog, hung, asked, answers, said>>
      BY <1>4, <2>3
    <3>2. /\ frame'[c] \in Frames /\ frame'[c].pc = "motion" /\ frame'[c].id = frame[c].id
          /\ frame'[c].got = frame[c].got /\ frame'[c].pages = frame[c].pages
          /\ \A d \in Calls : d # c => frame'[d] = frame[d]
      BY <1>1, <3>1 DEF Frames, McpPcs
    <3>3. frame' \in [Calls -> Frames]
      BY <1>1, <3>1, <3>2
    <3>4. QueueIsMotions'
      BY <2>2, <3>2 DEF Active
    <3>5. \A d \in Calls : frame'[d].id = frame[d].id /\ frame'[d].pages = frame[d].pages
      BY <3>2
    <3>6. McpTypeOK'
      BY <2>1, <3>1, <3>3 DEF McpInv, McpTypeOK, Frames, Requests
    <3>7. IdsAreOwned'
      BY <3>1, <3>5 DEF McpInv, IdsAreOwned
    <3>8. \A r \in asked : r.of \in Calls /\ r.of # c
      BY <1>2 DEF McpInv, McpTypeOK, Requests
    <3>9. AskedIsCurrent'
      BY <3>1, <3>2, <3>8 DEF McpInv, AskedIsCurrent
    <3>10. AnswerIsTrue'
      <4>1. \A a \in answers : a.of \in Calls
        BY DEF McpInv, McpTypeOK
      <4> QED BY <3>1, <3>2, <4>1 DEF McpInv, AnswerIsTrue
    <3>11. GotIsTrue'
      BY <3>1, <3>2 DEF McpInv, GotIsTrue, GotWell
    <3> QED BY <3>1, <3>4, <3>6, <3>7, <3>9, <3>10, <3>11 DEF McpInv, CatalogIsWhole
  <2>4. CASE motion = <<>>
    <3>1. SendRequest(c, frame[c]) /\ Len(motion) = 0
      BY <1>4, <2>4, EmptySeq
    <3>2. /\ frame'[c].pc = "sending" /\ \A d \in Calls : d # c => frame'[d] = frame[d]
      BY <1>1, <3>1, SendPlaces
    <3>3. QueueIsMotions'
      BY <2>2, <3>1, <3>2 DEF Active
    <3> QED BY <1>1, <1>2, <2>1, <3>1, <3>3, SendKeeps
  <2> QED BY <2>3, <2>4
<1> QED BY <1>3, <1>4

\* A motion gets the lock.
LEMMA GetMotionKeeps ==
  ASSUME McpInv, NEW c \in Calls, GetMotion(c)
  PROVE  McpInv'
<1>1. /\ frame \in [Calls -> Frames] /\ motion \in Seq(Motions)
      /\ frame[c].pc = "motion" /\ Head(motion) = c /\ SendRequest(c, frame[c])
      /\ motion' = motion /\ catalog' = catalog /\ UNCHANGED <<hung, asked, answers, said>>
  BY DEF GetMotion, McpInv, McpTypeOK, Frames
<1>2. said[c] = "none" /\ \A r \in asked : r.of # c
  BY <1>1 DEF McpInv, GotIsTrue, GotWell, AskedIsCurrent
<1>3. frame'[c].pc = "sending" /\ \A d \in Calls : d # c => frame'[d] = frame[d]
  BY <1>1, SendPlaces
<1>4. motion[1] = c
  BY <1>1
<1>5. motion' \in Seq(Motions) /\ QueueIsMotions'
  BY <1>1, <1>3, <1>4, QueueStays DEF Active
<1> QED BY <1>1, <1>2, <1>5, SendKeeps

\* The request is on its way.
LEMMA SentKeeps ==
  ASSUME McpInv, NEW c \in Calls, Sent(c)
  PROVE  McpInv'
<1> DEFINE r == [id |-> frame[c].id, of |-> c]
<1>1. /\ frame \in [Calls -> Frames] /\ frame[c].pc = "sending"
      /\ frame' = [frame EXCEPT ![c].pc = "waiting"]
      /\ asked' \subseteq asked \cup {r}
      /\ UNCHANGED <<nextId, pending, motion, catalog, hung, answers, said>>
  BY DEF Sent, McpInv, McpTypeOK, Frames
<1>2. /\ frame'[c] \in Frames /\ frame'[c].pc = "waiting" /\ frame'[c].id = frame[c].id
      /\ frame'[c].got = frame[c].got /\ frame'[c].pages = frame[c].pages
      /\ \A d \in Calls : d # c => frame'[d] = frame[d]
  BY <1>1 DEF Frames, McpPcs
<1>3. frame' \in [Calls -> Frames]
  BY <1>1, <1>2
<1>4. frame[c].id \in 1 .. nextId - 1 /\ said[c] = "none" /\ frame[c].got \in {"none", "cancelled"}
  BY <1>1 DEF McpInv, McpTypeOK, GotIsTrue, GotWell, Frames
<1>5. motion' \in Seq(Motions) /\ QueueIsMotions'
  BY <1>1, <1>2, QueueStays DEF Active
<1>6. r.id = frame[c].id /\ r.of = c /\ r \in Requests
  BY <1>4 DEF Requests
<1> HIDE DEF r
<1>7. McpTypeOK'
  BY <1>1, <1>3, <1>5, <1>6 DEF McpInv, McpTypeOK, Frames, Requests
<1>8. IdsAreOwned'
  BY <1>1, <1>2, <1>4, <1>6 DEF McpInv, IdsAreOwned
<1>9. AskedIsCurrent'
  <2>1. \A q \in asked : q.of \in Calls
    BY DEF McpInv, McpTypeOK, Requests
  <2> QED BY <1>1, <1>2, <1>4, <1>6, <2>1 DEF McpInv, AskedIsCurrent
<1>10. AnswerIsTrue'
  <2> SUFFICES ASSUME NEW a \in answers
               PROVE  /\ a.kind \in {"result", "error"} => said[a.of] = a.kind
                      /\ a.id = frame'[a.of].id =>
                          /\ frame'[a.of].pc # "sending"
                          /\ \A q \in asked' : q.of # a.of
                          /\ a.kind = "more" => /\ said[a.of] = "none"
                                                /\ Len(frame'[a.of].pages) + 1 < Pages
                          /\ a.kind = "result" /\ a.of \in Listings =>
                                 Len(frame'[a.of].pages) + 1 = Pages
    BY <1>1 DEF AnswerIsTrue
  <2>1. a.of \in Calls
    BY DEF McpInv, McpTypeOK
  <2>2. CASE a.of = c
    BY <1>1, <1>2, <2>2 DEF McpInv, AnswerIsTrue
  <2>3. CASE a.of # c
    BY <1>1, <1>2, <1>6, <2>1, <2>3 DEF McpInv, AnswerIsTrue
  <2> QED BY <2>2, <2>3
<1>11. GotIsTrue'
  BY <1>1, <1>2, <1>4, <1>6 DEF McpInv, GotIsTrue, GotWell
<1> QED BY <1>1, <1>5, <1>7, <1>8, <1>9, <1>10, <1>11 DEF McpInv, CatalogIsWhole

\* The pages of a listing, and one more.
LEMMA NextPage ==
  ASSUME NEW n \in Nat, NEW s \in Seq(1 .. n), Len(s) + 1 <= n
  PROVE  /\ Append(s, Len(s) + 1) \in Seq(1 .. n)
         /\ Len(Append(s, Len(s) + 1)) = Len(s) + 1
<1>1. Len(s) + 1 \in 1 .. n
  BY LenProperties
<1> QED BY <1>1, AppendProperties

\* A page with a cursor: the listing asks for the next.
LEMMA ResumeSends ==
  ASSUME McpInv, NEW c \in Calls, Resume(c), frame[c].got = "more"
  PROVE  \E h \in Frames : SendRequest(c, h) /\ motion' = motion /\ catalog' = catalog
<1> DEFINE f == frame[c]
           pages == IF c \in Listings /\ f.got \in {"result", "more"}
                    THEN Append(f.pages, Len(f.pages) + 1) ELSE f.pages
           h == [f EXCEPT !.pages = pages]
<1>1. f \in Frames /\ f.pc = "waiting"
  BY DEF Resume, McpInv, McpTypeOK, Frames
<1>2. f.pages \in Seq(1 .. Pages) /\ Len(f.pages) \in Nat /\ Pages \in Nat
  BY <1>1, LenProperties, PagesAssumption DEF Frames
<1>3. Len(f.pages) + 1 < Pages
  BY <1>1 DEF McpInv, GotIsTrue, GotWell
<1>4. Append(f.pages, Len(f.pages) + 1) \in Seq(1 .. Pages)
  <2>1. Len(f.pages) + 1 <= Pages
    BY <1>2, <1>3
  <2> QED BY <1>2, <2>1, NextPage
<1>5. pages \in Seq(1 .. Pages)
  BY <1>2, <1>4
<1>6. SendRequest(c, h) /\ motion' = motion /\ catalog' = catalog
  BY DEF Resume, Publish
<1>7. h \in Frames
  BY <1>1, <1>5 DEF Frames
<1> HIDE DEF h
<1> QED BY <1>6, <1>7

\* wait_for returns: the next page is asked for, or the call ends.
LEMMA ResumeKeeps ==
  ASSUME McpInv, NEW c \in Calls, Resume(c)
  PROVE  McpInv'
<1> DEFINE f == frame[c]
           pages == IF c \in Listings /\ f.got \in {"result", "more"}
                    THEN Append(f.pages, Len(f.pages) + 1) ELSE f.pages
<1>1. /\ frame \in [Calls -> Frames] /\ f \in Frames
      /\ f.pc = "waiting" /\ f.got # "none" /\ UNCHANGED <<hung, asked, answers, said>>
      /\ catalog' = IF c \in Listings /\ f.got = "result" THEN pages ELSE catalog
  BY DEF Resume, Publish, McpInv, McpTypeOK, Frames
<1>2. f.pages \in Seq(1 .. Pages) /\ Len(f.pages) \in Nat /\ Pages \in Nat \ {0}
  BY <1>1, LenProperties, PagesAssumption DEF Frames
<1>3. CASE f.got = "more"
  <2>1. said[c] = "none" /\ \A r \in asked : r.of # c
    BY <1>1, <1>3 DEF McpInv, GotIsTrue, GotWell
  <2>2. PICK h \in Frames : SendRequest(c, h) /\ motion' = motion /\ catalog' = catalog
    BY <1>3, ResumeSends
  <2>3. frame'[c].pc = "sending" /\ \A d \in Calls : d # c => frame'[d] = frame[d]
    BY <2>2, SendPlaces
  <2>4. motion' \in Seq(Motions) /\ QueueIsMotions'
    BY <1>1, <2>2, <2>3, QueueStays DEF Active
  <2> QED BY <1>1, <2>1, <2>2, <2>4, SendKeeps
<1>4. CASE f.got # "more"
  <2>1. Ended(c, f.got) /\ UNCHANGED <<nextId, pending>>
    BY <1>1, <1>4 DEF Resume
  <2>2. f.got \in Ends /\ f.pc \in Active
    BY <1>1, <1>4 DEF Frames, Got, Ends, Active
  <2>3. catalog' \in Seq(1 .. Pages) /\ Len(catalog') \in {0, Pages}
    <3>1. CASE c \in Listings /\ f.got = "result"
      <4>1. Len(f.pages) + 1 = Pages
        BY <1>1, <3>1 DEF McpInv, GotIsTrue, GotWell
      <4>2. pages = Append(f.pages, Len(f.pages) + 1) /\ Len(f.pages) + 1 \in 1 .. Pages
        BY <1>2, <3>1, <4>1
      <4>3. pages \in Seq(1 .. Pages) /\ Len(pages) = Pages
        <5>1. Pages \in Nat /\ Len(f.pages) + 1 <= Pages
          BY <1>2, <4>1
        <5>2. /\ Append(f.pages, Len(f.pages) + 1) \in Seq(1 .. Pages)
              /\ Len(Append(f.pages, Len(f.pages) + 1)) = Len(f.pages) + 1
          BY <1>2, <5>1, NextPage
        <5> HIDE DEF pages
        <5> QED BY <4>1, <4>2, <5>2
      <4> QED BY <1>1, <3>1, <4>3
    <3>2. CASE ~(c \in Listings /\ f.got = "result")
      BY <1>1, <3>2 DEF McpInv, McpTypeOK, CatalogIsWhole
    <3> QED BY <3>1, <3>2
  <2> HIDE DEF f, pages
  <2>4. frame[c].pc \in Active
    BY <2>2 DEF f
  <2> QED BY <1>1, <2>1, <2>2, <2>3, <2>4, EndKeeps
<1> QED BY <1>3, <1>4

\* Nobody waits any more: the timeout, or the end of the caller's task.
LEMMA GivesUpKeeps ==
  ASSUME McpInv, NEW c \in Calls, Timeout(c) \/ Cancel(c)
  PROVE  McpInv'
<1>1. PICK how \in {"timeout", "cancelled"} :
        /\ Ended(c, how) /\ pending' \subseteq pending /\ frame[c].pc \in Active
        /\ UNCHANGED <<nextId, catalog, hung, asked, answers, said>>
  BY DEF Timeout, Cancel, Active
<1>2. how \in Ends /\ catalog' \in Seq(1 .. Pages) /\ Len(catalog') \in {0, Pages}
  BY <1>1 DEF Ends, McpInv, McpTypeOK, CatalogIsWhole
<1> QED BY <1>1, <1>2, EndKeeps

\* The robot answers the request of a call that it has not answered before.
LEMMA RobotKeeps ==
  ASSUME McpInv, Robot
  PROVE  McpInv'
<1>1. PICK r \in asked, kind \in {"result", "error", "more"} :
        /\ (kind = "more") => (r.of \in Listings /\ Len(frame[r.of].pages) + 1 < Pages)
        /\ (kind = "result" /\ r.of \in Listings) => Len(frame[r.of].pages) + 1 = Pages
        /\ asked' = asked \ {r}
        /\ answers' = answers \cup {[id |-> r.id, of |-> r.of, kind |-> kind]}
        /\ said' = IF kind = "more" THEN said ELSE [said EXCEPT ![r.of] = kind]
        /\ UNCHANGED <<nextId, pending, frame, motion, catalog, hung>>
  BY DEF Robot
<1> DEFINE a == [id |-> r.id, of |-> r.of, kind |-> kind]
<1>2. /\ r.id \in 1 .. nextId - 1 /\ r.of \in Calls /\ r \in Requests
      /\ a.id = r.id /\ a.of = r.of /\ a.kind = kind
      /\ a \in [id : 1 .. nextId - 1, of : Calls, kind : {"result", "error", "more"}]
  BY <1>1 DEF McpInv, McpTypeOK, Requests
<1>3. r.id = frame[r.of].id /\ frame[r.of].pc \in {"waiting", "ended"} /\ said[r.of] = "none"
  BY <1>1 DEF McpInv, AskedIsCurrent
<1>4. \A q \in asked' : q \in asked /\ q.of \in Calls /\ q.of # r.of
  <2> SUFFICES ASSUME NEW q \in asked, q # r, q.of = r.of PROVE FALSE
    BY <1>1 DEF McpInv, McpTypeOK, Requests
  <2>1. q.id = r.id
    BY <1>3 DEF McpInv, AskedIsCurrent
  <2>2. q \in [id : 1 .. nextId - 1, of : Calls] /\ r \in [id : 1 .. nextId - 1, of : Calls]
    BY <1>1 DEF McpInv, McpTypeOK, Requests
  <2>3. q = [id |-> q.id, of |-> q.of] /\ r = [id |-> r.id, of |-> r.of]
    BY <2>2
  <2> QED BY <2>1, <2>3
<1>5. /\ said \in [Calls -> {"none", "result", "error"}]
      /\ said' \in [Calls -> {"none", "result", "error"}]
      /\ said'[r.of] = IF kind = "more" THEN "none" ELSE kind
      /\ \A d \in Calls : d # r.of => said'[d] = said[d]
  BY <1>1, <1>2, <1>3 DEF McpInv, McpTypeOK
<1>6. answers' = answers \cup {a} /\ \A b \in answers : b.of \in Calls
  BY <1>1 DEF McpInv, McpTypeOK
<1> HIDE DEF a
<1>7. McpTypeOK'
  BY <1>1, <1>2, <1>5, <1>6 DEF McpInv, McpTypeOK, Requests
<1>8. IdsAreOwned'
  BY <1>1, <1>2, <1>3, <1>6 DEF McpInv, IdsAreOwned
<1>9. AskedIsCurrent'
  BY <1>1, <1>4, <1>5 DEF McpInv, AskedIsCurrent
<1>10. AnswerIsTrue'
  <2> SUFFICES ASSUME NEW b \in answers'
               PROVE  /\ b.kind \in {"result", "error"} => said'[b.of] = b.kind
                      /\ b.id = frame[b.of].id =>
                          /\ frame[b.of].pc # "sending"
                          /\ \A q \in asked' : q.of # b.of
                          /\ b.kind = "more" => /\ said'[b.of] = "none"
                                                /\ Len(frame[b.of].pages) + 1 < Pages
                          /\ b.kind = "result" /\ b.of \in Listings =>
                                 Len(frame[b.of].pages) + 1 = Pages
    BY <1>1 DEF AnswerIsTrue
  <2>1. CASE b = a
    BY <1>1, <1>2, <1>3, <1>4, <1>5, <2>1
  <2>2. CASE b # a /\ b.of # r.of
    BY <1>4, <1>5, <1>6, <2>2 DEF McpInv, AnswerIsTrue
  <2>3. CASE b # a /\ b.of = r.of
    <3>1. b \in answers /\ b.kind = "more" /\ b.id # frame[b.of].id
      BY <1>1, <1>3, <1>6, <2>3 DEF McpInv, McpTypeOK, AnswerIsTrue
    <3> QED BY <3>1
  <2> QED BY <2>1, <2>2, <2>3
<1>11. GotIsTrue'
  <2>1. \A d \in Calls : frame'[d] = frame[d]
    BY <1>1
  <2>2. \A d \in Calls : d # r.of => said'[d] = said[d]
    BY <1>5
  <2>3. frame[r.of].pc = "waiting" => frame[r.of].got \notin {"result", "error", "more"}
    BY <1>1, <1>2, <1>3 DEF McpInv, GotIsTrue, GotWell
  <2> QED BY <1>1, <1>2, <1>3, <1>4, <2>1, <2>2, <2>3 DEF McpInv, GotIsTrue, GotWell
<1>12. QueueIsMotions'
  BY <1>1 DEF McpInv, QueueIsMotions
<1> QED BY <1>1, <1>7, <1>8, <1>9, <1>10, <1>11, <1>12 DEF McpInv, CatalogIsWhole

\* on_message: the future an answer is for gets what the robot said.
LEMMA OnMessageKeeps ==
  ASSUME McpInv, OnMessage
  PROVE  McpInv'
<1>1. PICK a \in answers :
        /\ answers' = answers \ {a} /\ pending' \subseteq pending
        /\ frame' = [c \in Calls |-> IF \E e \in Addressed(a) : e.of = c /\ Open(e)
                                     THEN [frame[c] EXCEPT !.got = a.kind] ELSE frame[c]]
        /\ UNCHANGED <<nextId, motion, catalog, hung, asked, said>>
  BY DEF OnMessage
<1>2. frame \in [Calls -> Frames] /\ a.kind \in {"result", "error", "more"} /\ a.of \in Calls
  BY DEF McpInv, McpTypeOK, Frames
<1>3. \A c \in Calls : /\ frame'[c] \in Frames /\ frame'[c].id = frame[c].id
                       /\ frame'[c].pc = frame[c].pc /\ frame'[c].pages = frame[c].pages
                       /\ frame'[c].got # frame[c].got =>
                              /\ frame'[c].got = a.kind /\ frame[c].id = a.id
                              /\ frame[c].pc \in {"sending", "waiting"}
  <2> TAKE c \in Calls
  <2>1. CASE \E e \in Addressed(a) : e.of = c /\ Open(e)
    <3>1. frame[c].id = a.id /\ frame[c].pc \in {"sending", "waiting"}
      BY <2>1 DEF Addressed, Open
    <3>2. frame'[c] = [frame[c] EXCEPT !.got = a.kind] /\ frame[c] \in Frames
      BY <1>1, <1>2, <2>1
    <3> QED BY <1>2, <3>1, <3>2 DEF Frames, Got
  <2>2. CASE ~ \E e \in Addressed(a) : e.of = c /\ Open(e)
    BY <1>1, <1>2, <2>2
  <2> QED BY <2>1, <2>2
<1>4. frame' \in [Calls -> Frames]
  <2>1. frame' = [c \in Calls |-> frame'[c]]
    BY <1>1
  <2> QED BY <1>3, <2>1
<1>5. motion' \in Seq(Motions) /\ QueueIsMotions'
  BY <1>1, <1>3, QueueStays
<1>6. McpTypeOK'
  BY <1>1, <1>4, <1>5 DEF McpInv, McpTypeOK, Frames, Requests
<1>7. IdsAreOwned'
  BY <1>1, <1>3 DEF McpInv, IdsAreOwned
<1>8. \A r \in asked : r.of \in Calls
  BY DEF McpInv, McpTypeOK, Requests
<1>9. AskedIsCurrent'
  BY <1>1, <1>3, <1>8 DEF McpInv, AskedIsCurrent
<1>10. AnswerIsTrue'
  <2>1. \A b \in answers : b.of \in Calls
    BY DEF McpInv, McpTypeOK
  <2> QED BY <1>1, <1>3, <2>1 DEF McpInv, AnswerIsTrue
<1>11. GotIsTrue'
  <2>1. ASSUME NEW c \in Calls, frame'[c].got = frame[c].got
        PROVE  GotWell(c)'
    BY <1>1, <1>3, <2>1 DEF McpInv, GotIsTrue, GotWell
  <2>2. ASSUME NEW c \in Calls, frame'[c].got # frame[c].got
        PROVE  GotWell(c)'
    <3>1. /\ frame'[c].got = a.kind /\ frame[c].id = a.id /\ frame'[c].pc = frame[c].pc
          /\ frame[c].pc \in {"sending", "waiting"} /\ frame'[c].pages = frame[c].pages
          /\ frame'[c].id = frame[c].id
      BY <1>3, <2>2
    <3>2. a.of = c
      BY <3>1 DEF McpInv, IdsAreOwned
    <3>3. /\ frame[c].pc = "waiting" /\ frame[c].id # 0
          /\ \A r \in asked : r.of # c
          /\ a.kind \in {"result", "error"} => said[c] = a.kind
          /\ a.kind = "more" => said[c] = "none" /\ Len(frame[c].pages) + 1 < Pages
          /\ a.kind = "result" /\ c \in Listings => Len(frame[c].pages) + 1 = Pages
      BY <3>1, <3>2 DEF McpInv, AnswerIsTrue, GotIsTrue, GotWell
    <3> QED BY <1>1, <1>2, <3>1, <3>3 DEF GotWell
  <2> QED BY <2>1, <2>2 DEF GotIsTrue, GotWell
<1> QED BY <1>1, <1>5, <1>6, <1>7, <1>9, <1>10, <1>11 DEF McpInv, CatalogIsWhole

\* close() gives every caller that waits a CancelledError.
LEMMA CancelPendingKeeps ==
  ASSUME McpInv, CancelPending
  PROVE  McpInv'
<1>1. /\ frame \in [Calls -> Frames] /\ frame' = [c \in Calls |-> Unheard(c)]
      /\ pending' = {} /\ hung' = TRUE
      /\ UNCHANGED <<nextId, motion, catalog, asked, answers, said>>
  BY DEF CancelPending, McpInv, McpTypeOK, Frames
<1>2. \A c \in Calls : /\ frame'[c] \in Frames /\ frame'[c].id = frame[c].id
                       /\ frame'[c].pc = frame[c].pc /\ frame'[c].pages = frame[c].pages
                       /\ frame'[c].got \in {frame[c].got, "cancelled"}
  <2> TAKE c \in Calls
  <2>1. frame'[c] = [frame[c] EXCEPT !.got = "cancelled"] \/ frame'[c] = frame[c]
    BY <1>1 DEF Unheard
  <2> QED BY <1>1, <2>1 DEF Frames, Got
<1>3. frame' \in [Calls -> Frames]
  <2>1. frame' = [c \in Calls |-> frame'[c]]
    BY <1>1
  <2> QED BY <1>2, <2>1
<1>4. motion' \in Seq(Motions) /\ QueueIsMotions'
  BY <1>1, <1>2, QueueStays
<1>5. McpTypeOK'
  BY <1>1, <1>3, <1>4 DEF McpInv, McpTypeOK, Frames, Requests
<1>6. IdsAreOwned'
  BY <1>1, <1>2 DEF McpInv, IdsAreOwned
<1>7. \A r \in asked : r.of \in Calls
  BY DEF McpInv, McpTypeOK, Requests
<1>8. AskedIsCurrent'
  BY <1>1, <1>2, <1>7 DEF McpInv, AskedIsCurrent
<1>9. AnswerIsTrue'
  <2>1. \A a \in answers : a.of \in Calls
    BY DEF McpInv, McpTypeOK
  <2>2. answers' = answers /\ asked' = asked /\ said' = said
    BY <1>1
  <2> QED BY <1>2, <2>1, <2>2 DEF McpInv, AnswerIsTrue
<1>10. GotIsTrue'
  BY <1>1, <1>2 DEF McpInv, GotIsTrue, GotWell
<1> QED BY <1>1, <1>4, <1>5, <1>6, <1>8, <1>9, <1>10 DEF McpInv, CatalogIsWhole

\* A step that changes nothing.
LEMMA StutterKeeps ==
  ASSUME McpInv, UNCHANGED mcpVars
  PROVE  McpInv'
<1> USE DEF mcpVars
<1>1. McpTypeOK'
  BY DEF McpInv, McpTypeOK, Requests
<1>2. IdsAreOwned' /\ AskedIsCurrent' /\ AnswerIsTrue'
  BY DEF McpInv, IdsAreOwned, AskedIsCurrent, AnswerIsTrue
<1>3. GotIsTrue' /\ QueueIsMotions' /\ CatalogIsWhole'
  BY DEF McpInv, GotIsTrue, GotWell, QueueIsMotions, CatalogIsWhole
<1> QED BY <1>1, <1>2, <1>3 DEF McpInv

-----------------------------------------------------------------------------
\* Every step of the client keeps McpInv, so it holds in every behaviour: of any
\* number of calls, whoever is cancelled, whatever is late, also after close().
THEOREM McpInvariant == McpSpec => []McpInv
<1>1. ASSUME McpInv, [McpNext]_mcpVars
      PROVE  McpInv'
  BY <1>1, CallKeeps, GetMotionKeeps, SentKeeps, ResumeKeeps, GivesUpKeeps, RobotKeeps,
     OnMessageKeeps, CancelPendingKeeps, StutterKeeps DEF McpNext
<1> QED BY InitHolds, <1>1, PTL DEF McpSpec

\* The types of the client (app/mcp/client.py), and that every id in _pending, at
\* the robot or on its way back is one that was handed out.
THEOREM McpTypes == McpSpec => []McpTypeOK
<1>1. McpInv => McpTypeOK
  BY DEF McpInv
<1> QED BY <1>1, McpInvariant, PTL

\* The catalogue of user tools is never a part of the robot's list, however many
\* listings overlap, fail or are cancelled (list_user_tools).
THEOREM WholeCatalogs == McpSpec => []CatalogIsWhole
<1>1. McpInv => CatalogIsWhole
  BY DEF McpInv
<1> QED BY <1>1, McpInvariant, PTL

\* One motion of the robot is under way at a time, in the order they were asked
\* (call() under _motion_lock).
THEOREM MotionsTakeTurns == McpSpec => []OneMotion
<1>1. McpInv => OneMotion
  BY DEF McpInv, QueueIsMotions, OneMotion, McpTypeOK
<1> QED BY <1>1, McpInvariant, PTL

-----------------------------------------------------------------------------
\* The step is one of RemoteCalls when it ends, begins or leaves the outcomes alone.
LEMMA OutcomeOfPlace ==
  ASSUME NEW c \in Calls, McpInv
  PROVE  /\ frame[c].pc = "idle" => OutcomeOf(c) = "idle"
         /\ frame[c].pc \in Active => OutcomeOf(c) = "asked"
         /\ frame[c].pc = "ended" => OutcomeOf(c) = IF frame[c].end \in {"result", "error"}
                                                    THEN frame[c].end ELSE "failed"
         /\ frame[c].pc \in McpPcs
  BY DEF OutcomeOf, Active, McpInv, McpTypeOK

\* A call that is asked ends with what it got, or fails.
LEMMA EndsTruly ==
  ASSUME McpInv, McpInv', NEW c \in Calls, frame[c].pc \in Active,
         NEW how \in Ends, Ended(c, how), said' = said,
         how \in {"result", "error"} => said[c] = how
  PROVE  Promise!End(c)
<1>1. /\ frame'[c].pc = "ended" /\ frame'[c].end = how
      /\ \A d \in Calls : d # c => frame'[d] = frame[d]
  BY DEF Ended, McpInv, McpTypeOK
<1>2. OutcomeOf(c) = "asked"
  BY OutcomeOfPlace
<1>3. OutcomeOf(c)' = IF how \in {"result", "error"} THEN how ELSE "failed"
  BY <1>1 DEF OutcomeOf
<1>4. \A d \in Calls : d # c => OutcomeOf(d)' = OutcomeOf(d)
  BY <1>1 DEF OutcomeOf
<1>5. OutcomeOf(c)' \in {said[c], "failed"} \ {"none"}
  BY <1>3
<1> DEFINE o == OutcomeOf(c)'
<1>6. [d \in Calls |-> OutcomeOf(d)]' = [[d \in Calls |-> OutcomeOf(d)] EXCEPT ![c] = o]
  BY <1>4
<1> QED BY <1>2, <1>5, <1>6 DEF Promise!End

\* A step after which every call is for its caller what it was before.
LEMMA NobodyTold ==
  ASSUME said' = said, \A c \in Calls : OutcomeOf(c)' = OutcomeOf(c)
  PROVE  UNCHANGED Promise!callsVars
<1>1. [c \in Calls |-> OutcomeOf(c)]' = [c \in Calls |-> OutcomeOf(c)]
  OBVIOUS
<1> QED BY <1>1 DEF Promise!callsVars

\* Every step of the client is a step of RemoteCalls, or none.
LEMMA StepIsPromised ==
  ASSUME McpInv, McpInv', [McpNext]_mcpVars
  PROVE  [Promise!CallsNext]_Promise!callsVars
<1> USE DEF Active
<1>1. ASSUME NEW c \in Calls, Call(c)
      PROVE  Promise!Begin(c)
  <2>1. /\ frame[c].pc = "idle" /\ frame'[c].pc \in Active /\ said' = said
        /\ \A d \in Calls : d # c => frame'[d] = frame[d]
    <3>1. frame \in [Calls -> Frames]
      BY DEF McpInv, McpTypeOK, Frames
    <3>2. frame[c].pc = "idle" /\ said' = said
      BY <1>1 DEF Call
    <3>3. CASE SendRequest(c, frame[c])
      BY <3>1, <3>2, <3>3, SendPlaces
    <3>4. CASE frame' = [frame EXCEPT ![c].pc = "motion"]
      BY <3>1, <3>2, <3>4 DEF Frames
    <3> QED BY <1>1, <3>3, <3>4 DEF Call
  <2>2. OutcomeOf(c) = "idle" /\ OutcomeOf(c)' = "asked"
    BY <2>1 DEF OutcomeOf
  <2>3. \A d \in Calls : d # c => OutcomeOf(d)' = OutcomeOf(d)
    BY <2>1 DEF OutcomeOf
  <2>4. [d \in Calls |-> OutcomeOf(d)]' = [[d \in Calls |-> OutcomeOf(d)] EXCEPT ![c] = "asked"]
    BY <2>2, <2>3
  <2> QED BY <2>1, <2>2, <2>4 DEF Promise!Begin
<1>2. ASSUME NEW c \in Calls, GetMotion(c) \/ Sent(c) \/ (Resume(c) /\ frame[c].got = "more")
      PROVE  UNCHANGED Promise!callsVars
  <2>1. /\ frame[c].pc \in Active /\ frame'[c].pc \in Active /\ said' = said
        /\ \A d \in Calls : d # c => frame'[d] = frame[d]
    <3>1. frame \in [Calls -> Frames]
      BY DEF McpInv, McpTypeOK, Frames
    <3>2. CASE GetMotion(c)
      BY <3>1, <3>2, SendPlaces DEF GetMotion
    <3>3. CASE Sent(c)
      BY <3>1, <3>3 DEF Sent, Frames
    <3>4. CASE Resume(c) /\ frame[c].got = "more"
      <4>1. PICK h \in Frames : SendRequest(c, h)
        BY <3>4, ResumeSends
      <4> QED BY <3>4, <4>1, SendPlaces DEF Resume
    <3> QED BY <1>2, <3>2, <3>3, <3>4
  <2>2. OutcomeOf(c) = "asked" /\ OutcomeOf(c)' = "asked"
    BY <2>1 DEF OutcomeOf
  <2>3. \A d \in Calls : d # c => OutcomeOf(d)' = OutcomeOf(d)
    BY <2>1 DEF OutcomeOf
  <2> QED BY <2>1, <2>2, <2>3, NobodyTold
<1>3. ASSUME NEW c \in Calls, Resume(c), frame[c].got # "more"
      PROVE  Promise!End(c)
  <2>1. Ended(c, frame[c].got) /\ frame[c].pc = "waiting" /\ said' = said /\ frame[c].got # "none"
    BY <1>3 DEF Resume
  <2>2. frame[c].got \in Ends
    BY <1>3, <2>1 DEF McpInv, McpTypeOK, Got, Ends
  <2>3. frame[c].got \in {"result", "error"} => said[c] = frame[c].got
    BY <2>1 DEF McpInv, GotIsTrue, GotWell
  <2> QED BY <2>1, <2>2, <2>3, EndsTruly
<1>4. ASSUME NEW c \in Calls, Timeout(c) \/ Cancel(c)
      PROVE  Promise!End(c)
  <2>1. PICK how \in {"timeout", "cancelled"} :
          Ended(c, how) /\ frame[c].pc \in Active /\ said' = said
    BY <1>4 DEF Timeout, Cancel
  <2> QED BY <2>1, EndsTruly DEF Ends
<1>5. ASSUME Robot
      PROVE  (\E c \in Calls : Promise!Give(c)) \/ UNCHANGED Promise!callsVars
  <2>1. PICK r \in asked, kind \in {"result", "error", "more"} :
          said' = (IF kind = "more" THEN said ELSE [said EXCEPT ![r.of] = kind]) /\ frame' = frame
    BY <1>5 DEF Robot
  <2>2. r.of \in Calls /\ frame[r.of].pc \in {"waiting", "ended"} /\ said[r.of] = "none"
    BY DEF McpInv, McpTypeOK, Requests, AskedIsCurrent
  <2>3. [c \in Calls |-> OutcomeOf(c)]' = [c \in Calls |-> OutcomeOf(c)]
    BY <2>1 DEF OutcomeOf
  <2>4. CASE kind = "more"
    BY <2>1, <2>3, <2>4 DEF Promise!callsVars
  <2>5. CASE kind # "more"
    <3>1. OutcomeOf(r.of) # "idle"
      BY <2>2, OutcomeOfPlace
    <3>2. kind \in Promise!Answers /\ said' = [said EXCEPT ![r.of] = kind]
      BY <2>1, <2>5 DEF Promise!Answers
    <3>3. Promise!Give(r.of)
      BY <2>2, <2>3, <3>1, <3>2 DEF Promise!Give
    <3> QED BY <2>2, <3>3
  <2> QED BY <2>4, <2>5
<1>6. ASSUME OnMessage \/ CancelPending \/ UNCHANGED mcpVars
      PROVE  UNCHANGED Promise!callsVars
  <2>1. said' = said
    BY <1>6 DEF OnMessage, CancelPending, mcpVars
  <2>2. \A c \in Calls : frame'[c].pc = frame[c].pc /\ frame'[c].end = frame[c].end
    <3>1. frame \in [Calls -> Frames]
      BY DEF McpInv, McpTypeOK, Frames
    <3>2. CASE OnMessage
      BY <3>1, <3>2 DEF OnMessage, Frames
    <3>3. CASE CancelPending
      BY <3>1, <3>3 DEF CancelPending, Unheard, Frames
    <3> QED BY <1>6, <3>2, <3>3 DEF mcpVars
  <2>3. \A c \in Calls : OutcomeOf(c)' = OutcomeOf(c)
    BY <2>2 DEF OutcomeOf
  <2> QED BY <2>1, <2>3, NobodyTold
<1> QED BY <1>1, <1>2, <1>3, <1>4, <1>5, <1>6 DEF McpNext, Promise!CallsNext

\* The safety half of RefinesCalls: whatever the client does, each of its callers
\* sees a call that begins once and ends once, with what the robot answered to that
\* call or with a failure (call, on_message, cancel_pending).
THEOREM McpImplementsCalls == McpSpec => Promise!CallsSafe
<1>1. McpInit => Promise!CallsInit
  <2> SUFFICES ASSUME McpInit PROVE Promise!CallsInit
    OBVIOUS
  <2>1. said = [c \in Calls |-> "none"]
    BY DEF McpInit
  <2>2. \A c \in Calls : OutcomeOf(c) = "idle"
    BY DEF McpInit, NewFrame, OutcomeOf
  <2>3. [c \in Calls |-> OutcomeOf(c)] = [c \in Calls |-> "idle"]
    BY <2>2
  <2> QED BY <2>1, <2>3 DEF Promise!CallsInit
<1>2. McpInv /\ McpInv' /\ [McpNext]_mcpVars => [Promise!CallsNext]_Promise!callsVars
  BY StepIsPromised
<1> QED BY <1>1, <1>2, McpInvariant, PTL DEF McpSpec, Promise!CallsSafe
=============================================================================
