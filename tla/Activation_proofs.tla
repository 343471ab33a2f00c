------------------------- MODULE Activation_proofs -------------------------
(***************************************************************************)
(* For any number of robots, requests and codes, however the requests      *)
(* interleave: the wrapped token of a row is the one whose hash it has,    *)
(* a robot that was disabled stays so, and what it was told connects it.   *)
(***************************************************************************)
EXTENDS Activation, TLAPS

Phases == {"new", "begin", "allocate", "touch", "provision", "fetch", "write", "over"}

Request == [phase : Phases, kind : {"ota", "provision", "complete", Nil},
            robot : Robots \cup {Nil}, saw : 0..MaxRequests \cup {Nil},
            record : Row \cup {Nil}, base : Row \cup {Nil}, alone : BOOLEAN, late : BOOLEAN]

\* The request is at work on its robot.
Works(q) == q.phase \notin {"new", "over"}

\* The request has decided what to write.
Decided(q) == q.phase \in {"fetch", "write"}

\* The hash and the wrapped token of a row are of one token, or it is from before
\* tokens were wrapped: so that of two such rows both columns differ, or neither.
Paired(row) == row.wrapped = IF row.token = 0 THEN Nil ELSE row.token

\* What holds of a request whatever the table is.
Sound(q) ==
    /\ q \in Request
    /\ Works(q) => /\ q.robot \in Robots /\ q.kind \in {"ota", "provision", "complete"}
                   /\ q.kind = "complete" => Decided(q)
    /\ Decided(q) => q.record \in Row /\ Paired(q.record) /\ q.record.status # "disabled"
    /\ q.base # Nil => Paired(q.base)

AuthTypeOK ==
    /\ rows \in [Robots -> Row \cup {Nil}]
    /\ request \in [Served -> Request]
    /\ clock \in 0..MaxClock

SoundInv ==
    /\ AuthTypeOK
    /\ \A r \in Served : Sound(request[r])
    /\ \A d \in Robots : rows[d] # Nil => Paired(rows[d])

\* No row is ever deleted, and a request the operator did not overtake still finds its
\* robot as it found it: not disabled.
Awake(q) ==
    LET row == rows[q.robot] IN
    Works(q) => /\ q.phase = "write" /\ q.base # Nil => row # Nil
                /\ q.kind # "provision" /\ ~q.late /\ row # Nil => row.status # "disabled"

AwakeInv == \A r \in Served : Awake(request[r])

\* A request that no other one overlapped: what it has read is still so.
Holds(q) ==
    LET row == rows[q.robot] IN
    /\ q.phase = "touch" => row # Nil /\ row.wrapped = q.saw
    /\ q.phase = "write" => /\ q.base = Nil <=> row = Nil
                            /\ q.base # Nil => /\ q.base.token = row.token
                                                /\ q.base.challenge = row.challenge
    /\ q.kind = "complete" /\ Decided(q) =>
           row # Nil /\ q.record.token = row.token /\ q.record.challenge = Nil

AloneInv ==
    \A r \in Served : Works(request[r]) /\ request[r].alone =>
        /\ \A q \in Served : Works(request[q]) /\ request[q].robot = request[r].robot => q = r
        /\ Holds(request[r])

\* The answer a robot goes by is the row's, and so is its challenge while both have one.
Knows(d) ==
    told[d] # Nil =>
        /\ rows[d] # Nil
        /\ told[d].token = rows[d].token
        /\ told[d].challenge # Nil /\ rows[d].challenge # Nil
               => told[d].challenge = rows[d].challenge

ToldInv == DOMAIN told = Robots /\ \A d \in Robots : Knows(d)

AuthInv == SoundInv /\ AwakeInv /\ AloneInv /\ ToldInv

-----------------------------------------------------------------------------
\* What upsert leaves in the row: a row again, each column old or new.
LEMMA ChangedRow ==
  ASSUME NEW row \in Row, NEW base \in Row, NEW record \in Row
  PROVE  /\ Changed(row, base, record) \in Row
         /\ Changed(row, base, record).status = IF record.status # base.status THEN record.status ELSE row.status
         /\ Changed(row, base, record).token = IF record.token # base.token THEN record.token ELSE row.token
         /\ Changed(row, base, record).wrapped = IF record.wrapped # base.wrapped THEN record.wrapped ELSE row.wrapped
         /\ Changed(row, base, record).challenge = IF record.challenge # base.challenge THEN record.challenge ELSE row.challenge
<1>1. DOMAIN row = {"status", "token", "wrapped", "code", "challenge", "expires"}
  BY DEF Row
<1>2. Changed(row, base, record) =
        [status |-> IF record.status # base.status THEN record.status ELSE row.status,
         token |-> IF record.token # base.token THEN record.token ELSE row.token,
         wrapped |-> IF record.wrapped # base.wrapped THEN record.wrapped ELSE row.wrapped,
         code |-> IF record.code # base.code THEN record.code ELSE row.code,
         challenge |-> IF record.challenge # base.challenge THEN record.challenge ELSE row.challenge,
         expires |-> IF record.expires # base.expires THEN record.expires ELSE row.expires]
  BY <1>1 DEF Changed
<1> QED BY <1>2 DEF Row

-----------------------------------------------------------------------------
(* Reading: a request takes its next step, and the table stays as it is. *)

\* What a request becomes when it starts on a robot.
Entering(d, q) == [q EXCEPT !.robot = d, !.alone = UnderWay(d) = {}]

\* A next record of a request that keeps the invariant.
Good(q) == Sound(q) /\ Awake(q) /\ (Works(q) /\ q.alone => Holds(q))

\* The request goes on with its robot.
GoesOn(r, q) ==
    Works(q) => /\ Works(request[r])
                /\ q.robot = request[r].robot /\ q.alone = request[r].alone

Reads(r) ==
    /\ UNCHANGED <<rows, clock>>
    /\ \/ \E q \in Request : Go(r, q) /\ Good(q) /\ GoesOn(r, q)
       \/ \E q \in Request, d \in Robots : Begin(r, d, q) /\ Good(Entering(d, q))

\* A request that has ended asks nothing of the table.
LEMMA OverIsGood == Good([Blank EXCEPT !.phase = "over"])
  BY DEF Good, Sound, Awake, Holds, Works, Decided, Request, Phases, Blank

\* Another request's start leaves a request all it has, but not alone.
LEMMA Overlapped ==
  ASSUME NEW q, Sound(q)
  PROVE  /\ Sound([q EXCEPT !.alone = FALSE])
         /\ Awake(q) => Awake([q EXCEPT !.alone = FALSE])
  BY DEF Sound, Awake, Works, Decided, Request

\* The three parts of the invariant, of the next state.
LEMMA SoundNext ==
  ASSUME AuthTypeOK', \A o \in Served : Sound(request'[o]),
         \A d \in Robots : rows'[d] # Nil => Paired(rows'[d])
  PROVE  SoundInv'
  BY DEF SoundInv, Sound, Paired, Works, Decided, Request, Row, Served

\* A reading step keeps the invariant of the requests.
LEMMA ReadingKeeps ==
  ASSUME SoundInv, AwakeInv, AloneInv, NEW r \in Served, Reads(r)
  PROVE  SoundInv' /\ AwakeInv' /\ AloneInv'
<1>1. CASE \E q \in Request : Go(r, q) /\ Good(q) /\ GoesOn(r, q)
  <2>1. PICK q \in Request : Go(r, q) /\ Good(q) /\ GoesOn(r, q)
    BY <1>1
  <2>2. /\ request' \in [Served -> Request] /\ request'[r] = q
        /\ \A o \in Served : o # r => request'[o] = request[o]
    BY <2>1 DEF Go, Good, Sound, SoundInv, AuthTypeOK
  <2>3. SoundInv'
    <3>1. AuthTypeOK'
      BY <2>2 DEF Reads, SoundInv, AuthTypeOK, Served, Row
    <3>2. \A o \in Served : Sound(request'[o])
      BY <2>1, <2>2 DEF SoundInv, Good
    <3> QED BY <3>1, <3>2, SoundNext DEF Reads, SoundInv
  <2>4. AwakeInv'
    BY <2>1, <2>2 DEF Reads, AwakeInv, Good, Awake, Served
  <2>5. AloneInv'
    BY <2>1, <2>2 DEF Reads, AloneInv, Good, GoesOn, Holds, Served
  <2> QED BY <2>3, <2>4, <2>5
<1>2. CASE \E q \in Request, d \in Robots : Begin(r, d, q) /\ Good(Entering(d, q))
  <2>1. PICK q \in Request, d \in Robots : Begin(r, d, q) /\ Good(Entering(d, q))
    BY <1>2
  <2> DEFINE Less(o) == [request[o] EXCEPT !.alone = FALSE]
  <2>2. /\ request'[r] = Entering(d, q)
        /\ \A o \in Served : o # r => request'[o] = IF o \in UnderWay(d) THEN Less(o) ELSE request[o]
        /\ DOMAIN request' = Served
    BY <2>1 DEF Begin, Entering
  <2>3. \A o \in Served : o # r => /\ Sound(request'[o])
                                   /\ Awake(request'[o])
                                   /\ request'[o] \in Request
                                   /\ request'[o].robot = request[o].robot
                                   /\ request'[o].phase = request[o].phase
                                   /\ Works(request'[o]) /\ request'[o].alone =>
                                        request'[o] = request[o] /\ request[o].robot # d
    <3> SUFFICES ASSUME NEW o \in Served, o # r
                 PROVE  /\ Sound(request'[o]) /\ Awake(request'[o]) /\ request'[o] \in Request
                        /\ request'[o].robot = request[o].robot /\ request'[o].phase = request[o].phase
                        /\ Works(request'[o]) /\ request'[o].alone =>
                             request'[o] = request[o] /\ request[o].robot # d
      OBVIOUS
    <3>1. request[o] \in Request /\ Sound(request[o]) /\ Awake(request[o])
      BY DEF SoundInv, AwakeInv, AuthTypeOK
    <3>2. CASE o \in UnderWay(d)
      <4>1. request'[o] = Less(o) /\ Sound(Less(o)) /\ Awake(Less(o)) /\ Less(o) \in Request
        BY <2>2, <3>1, <3>2, Overlapped DEF Sound
      <4> QED BY <3>1, <4>1 DEF Request
    <3>3. CASE o \notin UnderWay(d)
      BY <2>2, <3>1, <3>3 DEF UnderWay, Works
    <3> QED BY <3>2, <3>3
  <2>4. request' \in [Served -> Request]
    BY <2>1, <2>2, <2>3 DEF Begin, Good, Sound
  <2>5. SoundInv'
    <3>1. AuthTypeOK'
      BY <2>4 DEF Reads, SoundInv, AuthTypeOK, Served, Row
    <3>2. \A o \in Served : Sound(request'[o])
      BY <2>1, <2>2, <2>3 DEF Good
    <3> QED BY <3>1, <3>2, SoundNext DEF Reads, SoundInv
  <2>6. AwakeInv'
    BY <2>1, <2>2, <2>3 DEF Reads, AwakeInv, Good, Awake, Served
  <2>7. /\ request'[r].robot = d
        /\ request'[r].alone => UnderWay(d) = {}
    BY <2>1, <2>2 DEF Entering, Request
  <2>8. AloneInv'
    BY <2>1, <2>2, <2>3, <2>7 DEF Reads, AloneInv, Good, Holds, Served, UnderWay, Works
  <2> QED BY <2>5, <2>6, <2>8
<1> QED BY <1>1, <1>2 DEF Reads

\* Starting: what a new request finds is what it will write from.
LEMMA OtaReads ==
  ASSUME AuthInv, NEW r \in Served, NEW d \in Robots, OtaRead(r, d)
  PROVE  Reads(r) /\ UNCHANGED told
<1> DEFINE ota == [request[r] EXCEPT !.kind = "ota"]
<1>1. request[r] \in Request /\ Sound(request[r]) /\ rows[d] \in Row \cup {Nil} /\ request[r].phase = "new"
  BY DEF AuthInv, SoundInv, AuthTypeOK, OtaRead, FirstCome
<1>2. CASE /\ rows[d] = Nil \/ Unclaimed(rows[d])
           /\ Begin(r, d, [ota EXCEPT !.phase = "begin"])
  <2> DEFINE q == [ota EXCEPT !.phase = "begin"]
  <2>1. q \in Request
    BY <1>1 DEF Request, Phases
  <2>2. Good(Entering(d, q))
    BY <1>1, <1>2 DEF Entering, Good, Sound, Awake, Holds, Works, Decided, Request, Phases, Unclaimed
  <2> QED BY <1>2, <2>1, <2>2 DEF Reads, OtaRead
<1>3. CASE Active(rows[d]) /\ Begin(r, d, [ota EXCEPT !.phase = "touch", !.saw = rows[d].wrapped])
  <2> DEFINE q == [ota EXCEPT !.phase = "touch", !.saw = rows[d].wrapped]
  <2>1. q \in Request
    BY <1>1, <1>3 DEF Request, Phases, Active, Row
  <2>2. /\ rows[d] # Nil /\ rows[d].status # "disabled" /\ q.phase = "touch"
        /\ q.saw = rows[d].wrapped /\ q.kind = "ota" /\ (q.base # Nil => Paired(q.base))
    BY <1>1, <1>3 DEF Active, Sound, Request
  <2>3. Good(Entering(d, q))
    BY <2>1, <2>2 DEF Entering, Good, Sound, Awake, Holds, Works, Decided, Request
  <2> QED BY <1>3, <2>1, <2>3 DEF Reads, OtaRead
<1>4. CASE Fail(r)
  BY <1>4, OverIsGood DEF Fail, Reads, OtaRead, GoesOn, Good, Sound, Works, Blank
<1> QED BY <1>2, <1>3, <1>4 DEF OtaRead

LEMMA CompleteReads ==
  ASSUME AuthInv, NEW r \in Served, NEW c \in Codes, CompleteRead(r, c)
  PROVE  Reads(r) /\ UNCHANGED told
<1>1. request[r] \in Request /\ Sound(request[r]) /\ request[r].phase = "new"
  BY DEF AuthInv, SoundInv, AuthTypeOK, CompleteRead, FirstCome
<1>2. ASSUME NEW d \in Robots, Pending(c) = {d},
             Begin(r, d, [request[r] EXCEPT !.kind = "complete", !.phase = "fetch",
                                            !.record = Claimed(rows[d])])
      PROVE  Reads(r)
  <2> DEFINE q == [request[r] EXCEPT !.kind = "complete", !.phase = "fetch", !.record = Claimed(rows[d])]
  <2>1. rows[d] \in Row /\ Paired(rows[d]) /\ rows[d].status = "pending"
    BY <1>2 DEF Pending, Unclaimed, AuthInv, SoundInv, AuthTypeOK
  <2>2. /\ Claimed(rows[d]) \in Row /\ Paired(Claimed(rows[d]))
        /\ Claimed(rows[d]).status = "active" /\ Claimed(rows[d]).token = rows[d].token
        /\ Claimed(rows[d]).challenge = Nil
    <3>1. 0 \in 0..(MaxClock + Ttl)
      BY BoundsAssumption
    <3>2. Claimed(rows[d]) \in Row
      BY <2>1, <3>1 DEF Claimed, Row
    <3> QED BY <2>1, <3>2 DEF Claimed, Row, Paired
  <2>3. q \in Request
    BY <1>1, <2>2 DEF Request, Phases
  <2>4. Good(Entering(d, q))
    <3> DEFINE n == Entering(d, q)
    <3>1. /\ n \in Request /\ n.phase = "fetch" /\ n.kind = "complete" /\ n.robot = d
          /\ n.record = Claimed(rows[d]) /\ n.base = request[r].base
      BY <2>3 DEF Entering, Request
    <3>2. Sound(n)
      BY <1>1, <2>2, <3>1 DEF Sound, Decided, Works
    <3> QED BY <2>1, <2>2, <3>1, <3>2, NilAssumption DEF Good, Awake, Holds
  <2> QED BY <1>2, <2>3, <2>4 DEF Reads, CompleteRead
<1>3. CASE Fail(r)
  BY <1>3, OverIsGood DEF Fail, Reads, CompleteRead, GoesOn, Good, Sound, Works, Blank
<1> QED BY <1>2, <1>3 DEF CompleteRead

\* Going on: the request's record grows, from the row as it is now.
LEMMA Grows ==
  ASSUME AuthInv, NEW r \in Served, Works(request[r]), request[r].kind # "complete",
         NEW p \in {"allocate", "provision", "fetch"}, NEW record,
         p = "fetch" => record \in Row /\ Paired(record) /\ record.status # "disabled",
         p # "fetch" => record = request[r].record,
         UNCHANGED <<rows, clock>>, Go(r, [request[r] EXCEPT !.phase = p, !.record = record])
  PROVE  Reads(r)
<1> DEFINE q == [request[r] EXCEPT !.phase = p, !.record = record]
<1>1. request[r] \in Request /\ Sound(request[r]) /\ Awake(request[r])
  BY DEF AuthInv, SoundInv, AuthTypeOK, AwakeInv
<1>2. q \in Request
  BY <1>1 DEF Request, Phases
<1>3. Good(q) /\ GoesOn(r, q)
  BY <1>1, <1>2 DEF Good, GoesOn, Sound, Awake, Holds, Works, Decided, Request
<1> QED BY <1>2, <1>3 DEF Reads

\* A row that is provisioned, begun or renewed is one of a single token.
LEMMA RecordsArePaired ==
  ASSUME NEW r \in Served, clock \in 0..MaxClock
  PROVE  /\ Provisioned(r) \in Row /\ Paired(Provisioned(r)) /\ Provisioned(r).status # "disabled"
         /\ \A c \in Codes : /\ Begun(r, c) \in Row /\ Paired(Begun(r, c))
                              /\ Begun(r, c).status # "disabled"
         /\ \A row \in Row : Paired(row) /\ Reusable(row) =>
               /\ Renewed(r, row) \in Row /\ Paired(Renewed(r, row))
               /\ Renewed(r, row).status # "disabled"
<1>1. r \in 1..MaxRequests /\ r # 0 /\ r # Nil /\ 0 # Nil /\ clock + Ttl \in 0..(MaxClock + Ttl)
      /\ 0 \in 0..(MaxClock + Ttl)
  BY BoundsAssumption, NilAssumption DEF Served
<1>2. Provisioned(r) \in Row /\ Paired(Provisioned(r)) /\ Provisioned(r).status # "disabled"
  BY <1>1 DEF Provisioned, Row, Paired
<1>3. ASSUME NEW c \in Codes
      PROVE  Begun(r, c) \in Row /\ Paired(Begun(r, c)) /\ Begun(r, c).status # "disabled"
  BY <1>1 DEF Begun, Row, Paired
<1>4. ASSUME NEW row \in Row, Paired(row), Reusable(row)
      PROVE  Renewed(r, row) \in Row /\ Paired(Renewed(r, row)) /\ Renewed(r, row).status # "disabled"
  <2>1. row.status = "pending"
    BY <1>4 DEF Reusable, Unclaimed
  <2>2. Renewed(r, row) \in Row
    <3>1. ASSUME NEW t \in 0..MaxRequests, NEW w \in 0..MaxRequests, NEW h \in 0..MaxRequests
          PROVE  [row EXCEPT !.challenge = h, !.token = t, !.wrapped = w] \in Row
      BY <1>4 DEF Row
    <3>2. /\ (IF row.wrapped = Nil THEN r ELSE row.token) \in 0..MaxRequests
          /\ (IF row.wrapped = Nil THEN r ELSE row.wrapped) \in 0..MaxRequests
          /\ (IF row.challenge = Nil THEN r ELSE row.challenge) \in 0..MaxRequests
      BY <1>1, <1>4 DEF Row
    <3> QED BY <3>1, <3>2 DEF Renewed
  <2>3. Renewed(r, row).status = row.status
    BY <1>4 DEF Renewed, Row
  <2>4. Paired(Renewed(r, row))
    BY <1>1, <1>4 DEF Renewed, Row, Paired
  <2> QED BY <2>1, <2>2, <2>3, <2>4
<1> QED BY <1>2, <1>3, <1>4

LEMMA TouchReads ==
  ASSUME AuthInv, NEW r \in Served, Touch(r)
  PROVE  Reads(r)
<1>1. CASE Fail(r)
  BY <1>1, OverIsGood DEF Fail, Reads, Touch, GoesOn, Good, Sound, Works, Blank
<1>2. CASE Go(r, [request[r] EXCEPT !.phase = "provision"])
  <2>1. /\ request[r] \in Request /\ Works(request[r]) /\ request[r].phase = "touch"
    BY DEF Touch, Works, AuthInv, SoundInv, AuthTypeOK
  <2>2. request[r].kind # "complete"
    BY <2>1 DEF AuthInv, SoundInv, Sound, Decided
  <2> QED BY <1>2, <2>1, <2>2, Grows DEF Touch, Request
<1> QED BY <1>1, <1>2 DEF Touch

LEMMA BeginReads ==
  ASSUME AuthInv, NEW r \in Served, BeginRead(r)
  PROVE  Reads(r) /\ UNCHANGED told
<1> DEFINE d == request[r].robot
<1>1. /\ request[r] \in Request /\ request[r].phase = "begin" /\ Works(request[r]) /\ d \in Robots
      /\ request[r].kind # "complete" /\ clock \in 0..MaxClock /\ rows[d] \in Row \cup {Nil}
      /\ (rows[d] # Nil => Paired(rows[d]))
  BY DEF BeginRead, Works, Decided, AuthInv, SoundInv, AuthTypeOK, Sound
<1>2. CASE Fail(r)
  BY <1>2, OverIsGood DEF Fail, Reads, BeginRead, GoesOn, Good, Sound, Works, Blank
<1>3. CASE Reusable(rows[d]) /\ Go(r, [request[r] EXCEPT !.phase = "fetch", !.record = Renewed(r, rows[d])])
  <2>1. /\ Renewed(r, rows[d]) \in Row /\ Paired(Renewed(r, rows[d]))
        /\ Renewed(r, rows[d]).status # "disabled"
    BY <1>1, <1>3, RecordsArePaired DEF Reusable, Unclaimed
  <2> QED BY <1>1, <1>3, <2>1, Grows DEF BeginRead
<1>4. CASE Go(r, [request[r] EXCEPT !.phase = "allocate"])
  <2>1. [request[r] EXCEPT !.phase = "allocate"]
          = [request[r] EXCEPT !.phase = "allocate", !.record = request[r].record]
    BY <1>1 DEF Request
  <2> QED BY <1>1, <1>4, <2>1, Grows DEF BeginRead
<1> QED BY <1>2, <1>3, <1>4 DEF BeginRead

LEMMA AllocateReads ==
  ASSUME AuthInv, NEW r \in Served, AllocateCode(r)
  PROVE  Reads(r) /\ UNCHANGED told
<1>1. /\ Works(request[r]) /\ request[r].kind # "complete" /\ clock \in 0..MaxClock
  BY DEF AllocateCode, Works, Decided, AuthInv, SoundInv, AuthTypeOK, Sound
<1>2. CASE Fail(r)
  BY <1>2, OverIsGood DEF Fail, Reads, AllocateCode, GoesOn, Good, Sound, Works, Blank
<1>3. ASSUME NEW c \in Codes, Go(r, [request[r] EXCEPT !.phase = "fetch", !.record = Begun(r, c)])
      PROVE  Reads(r)
  <2>1. Begun(r, c) \in Row /\ Paired(Begun(r, c)) /\ Begun(r, c).status # "disabled"
    BY <1>1, RecordsArePaired
  <2> QED BY <1>1, <1>3, <2>1, Grows DEF AllocateCode
<1> QED BY <1>2, <1>3 DEF AllocateCode

LEMMA ProvisionReads ==
  ASSUME AuthInv, NEW r \in Served, NEW d \in Robots, ProvisionRead(r, d)
  PROVE  Reads(r) /\ UNCHANGED told
<1>1. /\ request[r] \in Request /\ Sound(request[r]) /\ clock \in 0..MaxClock
  BY DEF AuthInv, SoundInv, AuthTypeOK
<1>2. Provisioned(r) \in Row /\ Paired(Provisioned(r)) /\ Provisioned(r).status # "disabled"
  BY <1>1, RecordsArePaired
<1>3. CASE Begin(r, d, [request[r] EXCEPT !.kind = "provision", !.phase = "fetch",
                                          !.record = Provisioned(r)])
  <2> DEFINE q == [request[r] EXCEPT !.kind = "provision", !.phase = "fetch", !.record = Provisioned(r)]
  <2>1. q \in Request
    BY <1>1, <1>2 DEF Request, Phases
  <2>2. Good(Entering(d, q))
    BY <1>1, <1>2, <2>1 DEF Entering, Good, Sound, Awake, Holds, Works, Decided, Request
  <2> QED BY <1>3, <2>1, <2>2 DEF Reads, ProvisionRead
<1>4. CASE /\ request[r].phase = "provision"
           /\ Go(r, [request[r] EXCEPT !.phase = "fetch", !.record = Provisioned(r)])
  <2>1. Works(request[r]) /\ request[r].kind # "complete"
    BY <1>1, <1>4 DEF Works, Decided, Sound
  <2> QED BY <1>2, <1>4, <2>1, Grows DEF ProvisionRead
<1> QED BY <1>3, <1>4 DEF ProvisionRead

LEMMA FetchReads ==
  ASSUME AuthInv, NEW r \in Served, Fetch(r)
  PROVE  Reads(r) /\ UNCHANGED told
<1> DEFINE d == request[r].robot
           q == [request[r] EXCEPT !.phase = "write", !.base = rows[d]]
<1>1. /\ request[r] \in Request /\ Sound(request[r]) /\ Awake(request[r])
      /\ request[r].phase = "fetch" /\ d \in Robots
      /\ rows[d] \in Row \cup {Nil} /\ (rows[d] # Nil => Paired(rows[d]))
      /\ (request[r].alone => Holds(request[r]))
  BY DEF Fetch, AuthInv, SoundInv, AuthTypeOK, AwakeInv, AloneInv, Sound, Works
<1>2. q \in Request
  BY <1>1 DEF Request, Phases
<1>3. Good(q) /\ GoesOn(r, q)
  BY <1>1, <1>2 DEF Good, GoesOn, Sound, Awake, Holds, Works, Decided, Request
<1> QED BY <1>2, <1>3 DEF Reads, Fetch

-----------------------------------------------------------------------------
(* Writing: the row that upsert leaves. *)

\* Whether it inserts the record or updates what differs, the row is of one token, it is
\* not disabled unless it was, and a request nobody overlapped leaves its own answer.
LEMMA RowAfterWrite ==
  ASSUME AuthInv, NEW r \in Served, Write(r),
         ~(request[r].base = Nil /\ rows[request[r].robot] # Nil)
  PROVE  LET d == request[r].robot  new == rows'[d] IN
         /\ new \in Row /\ Paired(new)
         /\ (rows[d] # Nil => rows[d].status # "disabled") => new.status # "disabled"
         /\ request[r].alone =>
              /\ new.token = request[r].record.token
              /\ new.challenge = request[r].record.challenge
<1> DEFINE d == request[r].robot
           base == request[r].base
           record == request[r].record
<1>1. /\ d \in Robots /\ rows \in [Robots -> Row \cup {Nil}] /\ base \in Row \cup {Nil}
      /\ record \in Row /\ Paired(record) /\ record.status # "disabled"
      /\ (base # Nil => Paired(base)) /\ (rows[d] # Nil => Paired(rows[d]))
  BY DEF Write, AuthInv, SoundInv, AuthTypeOK, Sound, Works, Decided, Request
<1>2. request[r].alone => Holds(request[r])
  BY DEF Write, AuthInv, AloneInv, Works
<1>3. CASE base = Nil
  BY <1>1, <1>3 DEF Write
<1>4. CASE base # Nil /\ rows[d] # Nil
  <2>1. rows'[d] = Changed(rows[d], base, record)
    BY <1>1, <1>4 DEF Write
  <2>2. base \in Row /\ rows[d] \in Row
    BY <1>1, <1>4
  <2>3. 0 # Nil /\ \A t \in 0..MaxRequests : t # Nil
    BY NilAssumption, BoundsAssumption
  <2>4. /\ rows[d].token \in 0..MaxRequests /\ base.token \in 0..MaxRequests
        /\ record.token \in 0..MaxRequests
    BY <1>1, <2>2 DEF Row
  <2>5. Paired(rows'[d])
    BY <1>1, <1>4, <2>1, <2>2, <2>3, <2>4, ChangedRow DEF Paired
  <2> QED BY <1>1, <1>2, <1>4, <2>1, <2>2, <2>5, ChangedRow DEF Holds, Write
<1>5. CASE base # Nil /\ rows[d] = Nil
  BY <1>5 DEF AuthInv, AwakeInv, Awake, Write, Works
<1> QED BY <1>3, <1>4, <1>5

LEMMA WriteKeeps ==
  ASSUME AuthInv, NEW r \in Served, Write(r)
  PROVE  AuthInv'
<1> DEFINE over == [Blank EXCEPT !.phase = "over"]
<1> PICK d \in Robots : d = request[r].robot
  BY DEF Write, AuthInv, SoundInv, Sound, Works
<1>1. /\ request' \in [Served -> Request] /\ request'[r] = over
      /\ \A q \in Served : q # r => request'[q] = request[q]
  BY OverIsGood DEF Write, Fail, Go, Good, Sound, AuthInv, SoundInv, AuthTypeOK
<1>2. /\ d \in Robots /\ rows \in [Robots -> Row \cup {Nil}] /\ clock' = clock
      /\ Sound(over) /\ ~Works(over) /\ Works(request[r]) /\ Decided(request[r])
      /\ Sound(request[r]) /\ DOMAIN told = Robots
  BY OverIsGood DEF Write, AuthInv, SoundInv, AuthTypeOK, ToldInv, Good, Sound, Works, Decided, Blank
<1>3. CASE request[r].base = Nil /\ rows[d] # Nil
  <2>1. rows' = rows /\ told' = told
    BY <1>3 DEF Write
  <2>2. Reads(r)
    <3>1. Good(over) /\ over \in Request /\ Go(r, over) /\ GoesOn(r, over)
      BY <1>2, OverIsGood DEF Write, Fail, Sound, GoesOn
    <3> QED BY <1>2, <2>1, <3>1 DEF Reads
  <2>3. ToldInv'
    BY <2>1 DEF AuthInv, ToldInv, Knows
  <2> QED BY <2>2, <2>3, ReadingKeeps DEF AuthInv
<1>4. CASE ~(request[r].base = Nil /\ rows[d] # Nil)
  <2>1. /\ rows' \in [Robots -> Row \cup {Nil}] /\ rows'[d] \in Row /\ Paired(rows'[d])
        /\ (rows[d] # Nil => rows[d].status # "disabled") => rows'[d].status # "disabled"
        /\ request[r].alone => /\ rows'[d].token = request[r].record.token
                               /\ rows'[d].challenge = request[r].record.challenge
        /\ \A e \in Robots : e # d => rows'[e] = rows[e]
    <3>1. /\ rows'[d] \in Row /\ Paired(rows'[d])
          /\ (rows[d] # Nil => rows[d].status # "disabled") => rows'[d].status # "disabled"
          /\ request[r].alone => /\ rows'[d].token = request[r].record.token
                                 /\ rows'[d].challenge = request[r].record.challenge
      BY <1>4, RowAfterWrite
    <3> QED BY <1>2, <1>4, <3>1 DEF Write
  <2>2. SoundInv'
    <3>1. \A q \in Served : Sound(request'[q])
      BY <1>1, <1>2 DEF AuthInv, SoundInv
    <3>2. AuthTypeOK'
      BY <1>1, <1>2, <2>1 DEF AuthInv, SoundInv, AuthTypeOK, Served, Row
    <3>3. \A e \in Robots : rows'[e] # Nil => Paired(rows'[e])
      BY <2>1 DEF AuthInv, SoundInv
    <3> QED BY <3>1, <3>2, <3>3, SoundNext
  <2>3. AwakeInv'
    <3> SUFFICES ASSUME NEW o \in Served
                 PROVE  Awake(request[o])'
      BY DEF AwakeInv
    <3>1. CASE o = r
      BY <1>1, <1>2, <3>1 DEF Awake, Works
    <3>2. CASE o # r
      <4>1. /\ request'[o] = request[o] /\ Awake(request[o])
            /\ Works(request[o]) => request[o].robot \in Robots
        BY <1>1, <3>2 DEF AuthInv, AwakeInv, SoundInv, Sound
      <4> QED BY <1>2, <2>1, <4>1, NilAssumption DEF Awake, Works
    <3> QED BY <3>1, <3>2
  <2>4. AloneInv'
    <3> SUFFICES ASSUME NEW o \in Served, Works(request'[o]), request'[o].alone
                 PROVE  /\ \A q \in Served : Works(request'[q]) /\ request'[q].robot = request'[o].robot => q = o
                        /\ Holds(request[o])'
      BY DEF AloneInv, Works, Holds
    <3>1. o # r /\ request'[o] = request[o] /\ request[o].robot \in Robots /\ Holds(request[o])
          /\ \A q \in Served : Works(request[q]) /\ request[q].robot = request[o].robot => q = o
      BY <1>1, <1>2 DEF AuthInv, AloneInv, SoundInv, Sound
    <3>2. request[o].robot # d
      BY <1>2, <3>1
    <3> QED BY <1>1, <1>2, <2>1, <3>1, <3>2 DEF Holds
  <2>5. ToldInv'
    <3>1. told' = ToldAfter(r)
      BY <1>4 DEF Write
    <3>2. DOMAIN told' = Robots /\ \A e \in Robots : e # d => told'[e] = told[e]
      BY <1>2, <3>1 DEF ToldAfter
    <3>3. \A e \in Robots : e # d => Knows(e)'
      BY <2>1, <3>2 DEF AuthInv, ToldInv, Knows
    <3>4. CASE ~request[r].alone \/ request[r].kind = "provision"
      <4>1. told'[d] = Nil
        BY <1>2, <3>1, <3>4 DEF ToldAfter
      <4> QED BY <3>2, <3>3, <4>1 DEF ToldInv, Knows
    <3>5. CASE request[r].alone /\ request[r].kind = "ota"
      <4>1. told'[d] = Answer(r)
        BY <1>2, <3>1, <3>5 DEF ToldAfter
      <4>2. Knows(d)'
        BY <2>1, <3>5, <4>1, NilAssumption DEF Knows, Answer
      <4> QED BY <1>2, <3>2, <3>3, <4>2 DEF ToldInv
    <3>6. CASE request[r].alone /\ request[r].kind \notin {"ota", "provision"}
      <4>1. told'[d] = told[d]
        BY <1>2, <3>1, <3>6 DEF ToldAfter
      <4>2. Holds(request[r]) /\ Knows(d) /\ request[r].phase = "write"
        BY <1>2, <3>6 DEF AuthInv, AloneInv, ToldInv, Write
      <4>3. request[r].kind = "complete"
        BY <1>2, <3>6 DEF Sound
      <4>4. Knows(d)'
        BY <1>2, <2>1, <3>6, <4>1, <4>2, <4>3, NilAssumption DEF Knows, Holds
      <4> QED BY <1>2, <3>2, <3>3, <4>4 DEF ToldInv
    <3> QED BY <3>4, <3>5, <3>6
  <2> QED BY <2>2, <2>3, <2>4, <2>5 DEF AuthInv
<1> QED BY <1>3, <1>4

\* The answer of a request that found its row claimed is the row's own token.
LEMMA TouchKeeps ==
  ASSUME AuthInv, NEW r \in Served, Touch(r)
  PROVE  AuthInv'
<1>1. SoundInv' /\ AwakeInv' /\ AloneInv'
  BY TouchReads, ReadingKeeps DEF AuthInv
<1>2. CASE UNCHANGED told
  BY <1>1, <1>2 DEF Touch, AuthInv, ToldInv, Knows
<1>3. CASE /\ request[r].saw # Nil
           /\ told' = [told EXCEPT ![request[r].robot] =
                 IF request[r].alone THEN [token |-> request[r].saw, challenge |-> Nil] ELSE Nil]
  <2> PICK d \in Robots : d = request[r].robot
    BY DEF Touch, AuthInv, SoundInv, Sound, Works
  <2>1. rows' = rows /\ DOMAIN told = Robots /\ \A e \in Robots : Knows(e)
    BY DEF Touch, AuthInv, ToldInv
  <2>2. \A e \in Robots : e # d => Knows(e)'
    BY <1>3, <2>1 DEF Knows
  <2>3. CASE request[r].alone
    <3>1. /\ rows[d] # Nil /\ rows[d].wrapped = request[r].saw /\ Paired(rows[d])
      BY <2>3 DEF Touch, AuthInv, AloneInv, Holds, Works, SoundInv
    <3>2. rows[d].token = request[r].saw
      BY <1>3, <3>1 DEF Paired
    <3>3. told'[d] = [token |-> request[r].saw, challenge |-> Nil]
      BY <1>3, <2>1, <2>3
    <3>4. Knows(d)'
      BY <2>1, <3>1, <3>2, <3>3 DEF Knows
    <3> QED BY <1>1, <1>3, <2>1, <2>2, <3>4 DEF AuthInv, ToldInv
  <2>4. CASE ~request[r].alone
    <3>1. Knows(d)'
      BY <1>3, <2>1, <2>4 DEF Knows
    <3> QED BY <1>1, <1>3, <2>1, <2>2, <3>1 DEF AuthInv, ToldInv
  <2> QED BY <2>3, <2>4
<1> QED BY <1>2, <1>3 DEF Touch

\* Disabling changes one column of one row, and marks every request under way there.
LEMMA DisableKeeps ==
  ASSUME AuthInv, NEW d \in Robots, Disable(d)
  PROVE  AuthInv'
<1> DEFINE Late(r) == [request[r] EXCEPT !.late = TRUE]
<1>1. /\ rows \in [Robots -> Row \cup {Nil}] /\ rows[d] \in Row /\ Paired(rows[d])
      /\ request \in [Served -> Request]
  BY DEF Disable, AuthInv, SoundInv, AuthTypeOK
<1>2. /\ rows' \in [Robots -> Row \cup {Nil}] /\ rows'[d] \in Row
      /\ rows'[d].token = rows[d].token /\ rows'[d].wrapped = rows[d].wrapped
      /\ rows'[d].challenge = rows[d].challenge /\ rows'[d] # Nil
      /\ \A e \in Robots : e # d => rows'[e] = rows[e]
  <2>1. rows' = [rows EXCEPT ![d] = [rows[d] EXCEPT !.status = "disabled"]]
    BY DEF Disable
  <2>2. [rows[d] EXCEPT !.status = "disabled"] \in Row
    BY <1>1 DEF Row
  <2>3. rows'[d] = [rows[d] EXCEPT !.status = "disabled"]
    BY <1>1, <2>1
  <2>4. rows' \in [Robots -> Row \cup {Nil}]
    BY <1>1, <2>1, <2>2
  <2> QED BY <1>1, <2>1, <2>2, <2>3, <2>4, NilAssumption DEF Row
<1>3. \A r \in Served :
        /\ request'[r] = IF Works(request[r]) /\ request[r].robot = d THEN Late(r) ELSE request[r]
        /\ Sound(request[r]) /\ Awake(request[r])
  BY DEF Disable, UnderWay, Works, AuthInv, SoundInv, AwakeInv
<1>4. \A r \in Served :
        /\ request'[r] \in Request /\ Sound(request'[r])
        /\ request'[r].phase = request[r].phase /\ request'[r].robot = request[r].robot
        /\ request'[r].kind = request[r].kind /\ request'[r].alone = request[r].alone
        /\ request'[r].saw = request[r].saw /\ request'[r].record = request[r].record
        /\ request'[r].base = request[r].base
        /\ Works(request[r]) /\ request[r].robot = d => request'[r].late
        /\ request[r].late => request'[r].late
  <2> TAKE r \in Served
  <2>1. request[r] \in Request /\ Sound(request[r])
    BY <1>3 DEF Sound
  <2>2. Late(r) \in Request /\ Late(r).late
    BY <2>1 DEF Request
  <2>3. Sound(Late(r))
    BY <2>1, <2>2 DEF Sound, Works, Decided, Request
  <2> QED BY <1>3, <2>1, <2>2, <2>3 DEF Request
<1>5. SoundInv'
  <2>1. request' \in [Served -> Request]
    BY <1>4 DEF Disable
  <2>2. AuthTypeOK'
    BY <1>2, <2>1 DEF Disable, AuthInv, SoundInv, AuthTypeOK, Served, Row
  <2>3. \A e \in Robots : rows'[e] # Nil => Paired(rows'[e])
    BY <1>1, <1>2 DEF AuthInv, SoundInv, Paired
  <2> QED BY <1>4, <2>2, <2>3, SoundNext
<1>6. AwakeInv'
  <2> SUFFICES ASSUME NEW r \in Served, Works(request'[r])
               PROVE  Awake(request[r])'
    BY DEF AwakeInv, Awake, Works
  <2>1. Works(request[r]) /\ request[r].robot \in Robots
    BY <1>3, <1>4 DEF Works, Sound
  <2>2. CASE request[r].robot = d
    BY <1>2, <1>4, <2>1, <2>2 DEF Awake
  <2>3. CASE request[r].robot # d
    <3>1. /\ request'[r] = request[r] /\ Awake(request[r])
          /\ rows'[request[r].robot] = rows[request[r].robot]
      BY <1>2, <1>3, <2>1, <2>3
    <3> QED BY <3>1 DEF Awake, Works
  <2> QED BY <2>2, <2>3
<1>7. AloneInv'
  <2> SUFFICES ASSUME NEW r \in Served, Works(request'[r]), request'[r].alone
               PROVE  /\ \A q \in Served : Works(request'[q]) /\ request'[q].robot = request'[r].robot => q = r
                      /\ Holds(request[r])'
    BY DEF AloneInv, Works, Holds
  <2>1. /\ Works(request[r]) /\ request[r].robot \in Robots /\ Holds(request[r])
        /\ \A q \in Served : Works(request[q]) /\ request[q].robot = request[r].robot => q = r
    BY <1>3, <1>4 DEF Works, Sound, AuthInv, AloneInv
  <2>2. Holds(request[r])'
    BY <1>1, <1>2, <1>4, <2>1, NilAssumption DEF Holds, Decided
  <2> QED BY <1>4, <2>1, <2>2 DEF Works
<1>8. ToldInv'
  BY <1>1, <1>2 DEF Disable, AuthInv, ToldInv, Knows
<1> QED BY <1>5, <1>6, <1>7, <1>8 DEF AuthInv

LEMMA AuthInitially == AuthInit => AuthInv
<1> SUFFICES ASSUME AuthInit PROVE AuthInv
  OBVIOUS
<1>1. \A r \in Served : request[r] = Blank
  BY DEF AuthInit
<1>2. Blank \in Request /\ Sound(Blank) /\ ~Works(Blank)
  BY DEF Blank, Request, Phases, Sound, Works, Decided
<1>3. \A row \in LegacyRows : row \in Row /\ Paired(row)
  <2>1. Legacy \in Row /\ Paired(Legacy) /\ 0 \in 0..MaxRequests /\ Ttl \in 0..(MaxClock + Ttl)
    BY BoundsAssumption DEF Legacy, Row, Paired
  <2>2. Paired([Legacy EXCEPT !.status = "active"]) /\ [Legacy EXCEPT !.status = "active"] \in Row
    BY <2>1 DEF Legacy, Row, Paired
  <2>3. ASSUME NEW c \in Codes
        PROVE  LET row == [Legacy EXCEPT !.code = c, !.challenge = 0, !.expires = Ttl] IN
               row \in Row /\ Paired(row)
    BY <2>1 DEF Legacy, Row, Paired
  <2> QED BY <2>2, <2>3 DEF LegacyRows
<1>4. AuthTypeOK
  BY <1>2, <1>3, BoundsAssumption DEF AuthInit, AuthTypeOK
<1>5. SoundInv
  BY <1>1, <1>2, <1>3, <1>4 DEF SoundInv, AuthInit
<1>6. AwakeInv /\ AloneInv
  BY <1>1, <1>2 DEF AwakeInv, AloneInv, Awake
<1>7. ToldInv
  BY DEF AuthInit, ToldInv, Knows
<1> QED BY <1>5, <1>6, <1>7 DEF AuthInv

LEMMA AuthStep == AuthInv /\ [AuthNext]_authVars => AuthInv'
<1> SUFFICES ASSUME AuthInv, [AuthNext]_authVars PROVE AuthInv'
  OBVIOUS
<1>1. ASSUME NEW r \in Served, Reads(r), UNCHANGED told PROVE AuthInv'
  BY <1>1, ReadingKeeps DEF Reads, AuthInv, ToldInv, Knows
<1>2. ASSUME NEW r \in Served, NEW d \in Robots, OtaRead(r, d) \/ ProvisionRead(r, d) PROVE AuthInv'
  BY <1>1, <1>2, OtaReads, ProvisionReads
<1>3. ASSUME NEW r \in Served, NEW c \in Codes, CompleteRead(r, c) PROVE AuthInv'
  BY <1>1, <1>3, CompleteReads
<1>4. ASSUME NEW r \in Served, BeginRead(r) \/ AllocateCode(r) \/ Fetch(r) PROVE AuthInv'
  BY <1>1, <1>4, BeginReads, AllocateReads, FetchReads
<1>5. ASSUME NEW r \in Served, Touch(r) \/ Write(r) PROVE AuthInv'
  BY <1>5, TouchKeeps, WriteKeeps
<1>6. ASSUME NEW d \in Robots, Disable(d) PROVE AuthInv'
  BY <1>6, DisableKeeps
<1>7. CASE Tick
  <2>1. /\ UNCHANGED <<rows, request, told>> /\ clock' \in 0..MaxClock
    BY <1>7, BoundsAssumption DEF Tick, AuthInv, SoundInv, AuthTypeOK
  <2>2. SoundInv'
    BY <2>1, SoundNext DEF AuthInv, SoundInv, AuthTypeOK
  <2> QED BY <2>1, <2>2 DEF AuthInv, AwakeInv, Awake, AloneInv, Holds, ToldInv, Knows
<1>8. CASE UNCHANGED authVars
  <2>1. UNCHANGED <<rows, request, told, clock>>
    BY <1>8 DEF authVars
  <2>2. SoundInv'
    BY <2>1, SoundNext DEF AuthInv, SoundInv, AuthTypeOK
  <2> QED BY <2>1, <2>2 DEF AuthInv, AwakeInv, Awake, AloneInv, Holds, ToldInv, Knows
<1> QED BY <1>2, <1>3, <1>4, <1>5, <1>6, <1>7, <1>8 DEF AuthNext

\* The invariant holds throughout.
THEOREM AuthCorrect == AuthSpec => []AuthInv
<1>1. AuthInit => AuthInv
  BY AuthInitially
<1>2. AuthInv /\ [AuthNext]_authVars => AuthInv'
  BY AuthStep
<1> QED BY <1>1, <1>2, PTL DEF AuthSpec

-----------------------------------------------------------------------------
\* Whatever columns the interleaved renewals, provisions and claims leave behind, the token
\* that the next OTA answer unwraps (prepare_ota) is the one that authenticate_ws compares.
THEOREM TheTokenUnwrapped == AuthSpec => []WrappedIsHashed
<1>1. AuthInv => WrappedIsHashed
  BY DEF AuthInv, SoundInv, Paired, WrappedIsHashed
<1> QED BY <1>1, AuthCorrect, PTL

\* What a robot was told by a request that no other one overlapped connects it: its poll is
\* not refused for the challenge, and once claimed its token opens the WebSocket.
THEOREM WhatItWasTold == AuthSpec => []ToldConnects
<1>1. AuthInv => ToldConnects
  <2> SUFFICES ASSUME AuthInv, NEW d \in Robots, told[d] # Nil
               PROVE  /\ Polled(d, told[d].challenge) # "mismatch"
                      /\ Polled(d, told[d].challenge) = "active" => Authenticated(d, told[d].token)
    BY DEF ToldConnects
  <2>1. rows[d] \in Row /\ rows[d] # Nil /\ Knows(d)
    BY DEF AuthInv, ToldInv, Knows, SoundInv, AuthTypeOK
  <2>2. rows[d].status \in {"pending", "active", "disabled"}
    BY <2>1 DEF Row
  <2> QED BY <2>1, <2>2 DEF Knows, Polled, Authenticated, Active
<1> QED BY <1>1, AuthCorrect, PTL

\* No renewal, claim or retry brings a disabled robot back, unless it was under way already
\* or is the operator's own provision.
THEOREM DisabledForGood == AuthSpec => DisabledStays
<1> DEFINE Stays == \A d \in Robots : rows[d] # Nil /\ rows[d].status = "disabled"
                         /\ rows'[d].status # "disabled" =>
                      \E r \in Served : /\ request[r].robot = d /\ request'[r] # request[r]
                                        /\ request[r].kind = "provision" \/ request[r].late
<1>1. AuthInv /\ [AuthNext]_authVars => [Stays]_authVars
  <2> SUFFICES ASSUME AuthInv, AuthNext,
                      NEW d \in Robots, rows[d] # Nil, rows[d].status = "disabled",
                      rows'[d].status # "disabled"
               PROVE  \E r \in Served : /\ request[r].robot = d /\ request'[r] # request[r]
                                        /\ request[r].kind = "provision" \/ request[r].late
    OBVIOUS
  <2>1. rows'[d] # rows[d]
    OBVIOUS
  <2>2. ASSUME NEW r \in Served, Write(r)
        PROVE  /\ request[r].robot = d /\ request'[r] # request[r]
               /\ request[r].kind = "provision" \/ request[r].late
    <3>1. request[r].robot = d
      BY <2>1, <2>2 DEF Write, AuthInv, SoundInv, AuthTypeOK
    <3>2. Awake(request[r]) /\ Works(request[r])
      BY <2>2 DEF AuthInv, AwakeInv, Write, Works
    <3>3. request'[r].phase = "over" /\ request[r].phase = "write"
      BY <2>2 DEF Write, Fail, Go, Blank, AuthInv, SoundInv, AuthTypeOK
    <3> QED BY <3>1, <3>2, <3>3 DEF Awake
  <2>3. ASSUME NEW e \in Robots, Disable(e) PROVE FALSE
    <3>1. e # d
      BY <2>3 DEF Disable
    <3> QED BY <2>1, <2>3, <3>1 DEF Disable, AuthInv, SoundInv, AuthTypeOK
  <2> QED BY <2>1, <2>2, <2>3 DEF AuthNext, OtaRead, ProvisionRead, CompleteRead, Touch, BeginRead,
             AllocateCode, Fetch, Tick
<1> QED BY <1>1, AuthCorrect, PTL DEF AuthSpec, DisabledStays
=============================================================================
