---------------------------- MODULE Activation ----------------------------
(***************************************************************************)
(* Tokens and activation (app/auth/service.py over                         *)
(* app/db/sqlalchemy_repo.py, app/api/ota.py, app/api/portal.py, app/cli). *)
(*                                                                         *)
(* A robot asks /xiaozhi/ota for its token; while nobody has claimed it    *)
(* the answer also carries a six digit code and a challenge.  The owner    *)
(* types the code into the portal, the robot polls /ota/activate with the  *)
(* challenge and then opens its WebSocket with the token.  An operator may *)
(* provision, rotate or disable a robot from another process.              *)
(*                                                                         *)
(* Each request is a coroutine that reads a row, waits, and writes it      *)
(* back; the write itself is a SELECT and, later in its transaction, an    *)
(* UPDATE of the columns that differ from what that SELECT returned        *)
(* (SQLAlchemy), or an INSERT that the unique key may refuse.              *)
(***************************************************************************)
EXTENDS Naturals, FiniteSets

CONSTANTS
    Robots,      \* the (device id, client id) pairs
    MaxRequests, \* bound: requests served; each makes at most one token, one challenge
    Codes,       \* the six digit codes
    Ttl,         \* activation_ttl_s, in ticks
    MaxClock,    \* bound: ticks of the clock
    Nil          \* no row, no code, no challenge, no wrapped token

ASSUME BoundsAssumption == MaxRequests \in Nat /\ MaxClock \in Nat /\ Ttl \in Nat

VARIABLES
    rows,        \* the table devices
    request,     \* what each request has read and is about to write
    clock,       \* datetime.now
    told         \* the answer the robot goes by, Nil after one that overlapped another

authVars == <<rows, request, clock, told>>

Served == 1..MaxRequests

Row == [status : {"pending", "active", "disabled"},
        token : 0..MaxRequests, wrapped : 0..MaxRequests \cup {Nil},
        code : Codes \cup {Nil}, challenge : 0..MaxRequests \cup {Nil},
        expires : 0..(MaxClock + Ttl)]

ASSUME NilAssumption == Nil \notin Nat /\ Nil \notin Codes /\ Nil \notin Row

Legacy == [status |-> "pending", token |-> 0, wrapped |-> Nil, code |-> Nil,
              challenge |-> Nil, expires |-> 0]

\* A row of before tokens were kept wrapped: claimed by its owner, or not yet.
LegacyRows == {[Legacy EXCEPT !.status = "active"]}
              \cup {[Legacy EXCEPT !.code = c, !.challenge = 0, !.expires = Ttl] : c \in Codes}

Blank == [phase |-> "new", kind |-> Nil, robot |-> Nil, saw |-> Nil, record |-> Nil,
          base |-> Nil, alone |-> TRUE, late |-> FALSE]

AuthInit ==
    /\ rows \in [Robots -> LegacyRows \cup {Nil}]
    /\ \A d, e \in Robots : d # e /\ rows[d] # Nil /\ rows[e] # Nil
                              => rows[d].code = Nil \/ rows[d].code # rows[e].code
    /\ request = [r \in Served |-> Blank]
    /\ clock = 0
    /\ told = [d \in Robots |-> Nil]

Active(row) == row # Nil /\ row.status = "active"
Unclaimed(row) == row # Nil /\ row.status = "pending"

\* Served are numbered in the order they arrive.
FirstCome(r) == request[r].phase = "new" /\ \A q \in 1..(r - 1) : request[q].phase # "new"

UnderWay(d) == {r \in Served : request[r].robot = d /\ request[r].phase \notin {"new", "over"}}

Pending(c) == {d \in Robots : Unclaimed(rows[d]) /\ rows[d].code = c}

---------------------------------------------------------------------------
(* What a request writes. *)

\* _code_reusable, at the time of the second read.
Reusable(row) == Unclaimed(row) /\ row.code # Nil /\ row.expires > clock

\* provision(rotate=True, status="active").
Provisioned(r) == [status |-> "active", token |-> r, wrapped |-> r, code |-> Nil,
                   challenge |-> Nil, expires |-> 0]

\* A bug: a renewal rotates the token, and the row keeps the old one wrapped.
RenewedRotating(r, row) ==
    [row EXCEPT !.challenge = IF @ = Nil THEN r ELSE @,
                !.token = r, !.wrapped = IF @ = Nil THEN r ELSE @]

\* begin_activation with the row's own code: the token too, if it can be unwrapped.
Renewed(r, row) ==
    [row EXCEPT !.challenge = IF @ = Nil THEN r ELSE @,
                !.token = IF row.wrapped = Nil THEN r ELSE @,
                !.wrapped = IF @ = Nil THEN r ELSE @]

\* begin_activation with a new code.
Begun(r, c) == [status |-> "pending", token |-> r, wrapped |-> r, code |-> c,
                challenge |-> r, expires |-> clock + Ttl]

\* complete_activation.
Claimed(row) == [row EXCEPT !.status = "active", !.code = Nil, !.challenge = Nil, !.expires = 0]

---------------------------------------------------------------------------
(* The requests. *)

Go(r, next) == request' = [request EXCEPT ![r] = next]

\* Starting on robot d, request r overlaps whatever is under way there.
Begin(r, d, next) ==
    request' = [q \in Served |->
        IF q = r THEN [next EXCEPT !.robot = d, !.alone = UnderWay(d) = {}]
        ELSE IF q \in UnderWay(d) THEN [request[q] EXCEPT !.alone = FALSE] ELSE request[q]]

Fail(r) == Go(r, [Blank EXCEPT !.phase = "over"])

\* A bug: prepare_ota only tells pending rows from the others.
OtaReadAny(r, d) ==
    /\ FirstCome(r)
    /\ LET ota == [request[r] EXCEPT !.kind = "ota"] IN
       IF rows[d] = Nil \/ Unclaimed(rows[d])
       THEN Begin(r, d, [ota EXCEPT !.phase = "begin"])
       ELSE Begin(r, d, [ota EXCEPT !.phase = "touch", !.saw = rows[d].wrapped])
    /\ UNCHANGED <<rows, clock, told>>

\* prepare_ota reads the row.
OtaRead(r, d) ==
    /\ FirstCome(r)
    /\ LET ota == [request[r] EXCEPT !.kind = "ota"] IN
       \/ /\ rows[d] = Nil \/ Unclaimed(rows[d])
          /\ Begin(r, d, [ota EXCEPT !.phase = "begin"])
       \/ /\ Active(rows[d])
          /\ Begin(r, d, [ota EXCEPT !.phase = "touch", !.saw = rows[d].wrapped])
       \/ /\ rows[d] = Nil \/ ~(Unclaimed(rows[d]) \/ Active(rows[d]))
          /\ Fail(r)                              \* no auto-provisioning, or disabled: 403
    /\ UNCHANGED <<rows, clock, told>>

\* The answer for an active robot is the token unwrapped from the row it read; a row
\* without one goes on to provision, which rotates the token.
Touch(r) ==
    LET wrapped == request[r].saw IN
    /\ request[r].phase = "touch"
    /\ \/ Fail(r) /\ UNCHANGED told               \* another serial number: 403
       \/ /\ wrapped # Nil
          /\ Fail(r)
          /\ told' = [told EXCEPT ![request[r].robot] =
                 IF request[r].alone THEN [token |-> wrapped, challenge |-> Nil] ELSE Nil]
       \/ /\ wrapped = Nil
          /\ Go(r, [request[r] EXCEPT !.phase = "provision"])
          /\ UNCHANGED told
    /\ UNCHANGED <<rows, clock>>

\* begin_activation reads the row again: refused, or the row's own code, or a new one.
BeginRead(r) ==
    LET d == request[r].robot  row == rows[d] IN
    /\ request[r].phase = "begin"
    /\ IF row # Nil /\ row.status = "disabled" THEN Fail(r)
       ELSE IF Reusable(row)
       THEN Go(r, [request[r] EXCEPT !.phase = "fetch", !.record = Renewed(r, row)])
       ELSE Go(r, [request[r] EXCEPT !.phase = "allocate"])
    /\ UNCHANGED <<rows, clock, told>>

\* _allocate_code: a code no pending row has at this moment (503 when 32 draws in a row
\* are all taken).
AllocateCode(r) ==
    /\ request[r].phase = "allocate"
    /\ \E c \in Codes :
           IF Pending(c) = {}
           THEN Go(r, [request[r] EXCEPT !.phase = "fetch", !.record = Begun(r, c)])
           ELSE Fail(r)
    /\ UNCHANGED <<rows, clock, told>>

\* provision reads the row only for what it keeps; its status is not looked at.
ProvisionRead(r, d) ==
    /\ \/ /\ FirstCome(r)
          /\ Begin(r, d, [request[r] EXCEPT !.kind = "provision", !.phase = "fetch",
                                            !.record = Provisioned(r)])
       \/ /\ request[r].phase = "provision" /\ request[r].robot = d
          /\ Go(r, [request[r] EXCEPT !.phase = "fetch", !.record = Provisioned(r)])
    /\ UNCHANGED <<rows, clock, told>>

\* The owner types a code: the one pending row that has it, if it has not expired.
\* (Two such rows make scalar_one_or_none raise: the request fails.)
CompleteRead(r, c) ==
    /\ FirstCome(r)
    /\ \/ \E d \in Robots :
            /\ Pending(c) = {d} /\ rows[d].expires > clock
            /\ Begin(r, d, [request[r] EXCEPT !.kind = "complete", !.phase = "fetch",
                                              !.record = Claimed(rows[d])])
       \/ /\ \A d \in Robots : Pending(c) = {d} => rows[d].expires <= clock
          /\ Fail(r)
    /\ UNCHANGED <<rows, clock, told>>

\* upsert: the SELECT.
Fetch(r) ==
    /\ request[r].phase = "fetch"
    /\ Go(r, [request[r] EXCEPT !.phase = "write", !.base = rows[request[r].robot]])
    /\ UNCHANGED <<rows, clock, told>>

\* The columns of the record that differ from the row the SELECT returned.
Changed(row, base, record) ==
    [f \in DOMAIN row |-> IF record[f] # base[f] THEN record[f] ELSE row[f]]

\* A bug: the answer is the token the request has just made, kept or not.
AnswerNew(r) == [token |-> r, challenge |-> request[r].record.challenge]

Answer(r) == [token |-> request[r].record.token, challenge |-> request[r].record.challenge]

\* What the robot goes by after request r's write: an answer of its own is the last word
\* unless requests overlapped; the owner's code changes nothing, an operator everything.
ToldAfter(r) ==
    LET d == request[r].robot IN
    [told EXCEPT ![d] = IF ~request[r].alone \/ request[r].kind = "provision" THEN Nil
                        ELSE IF request[r].kind = "ota" THEN Answer(r) ELSE @]

\* upsert: the UPDATE or the INSERT, the commit, and the answer.
Write(r) ==
    LET d == request[r].robot  base == request[r].base  record == request[r].record IN
    /\ request[r].phase = "write"
    /\ IF base = Nil /\ rows[d] # Nil
       THEN UNCHANGED <<rows, told>>             \* the unique key: IntegrityError
       ELSE /\ rows' = [rows EXCEPT ![d] = IF base = Nil THEN record
                                           ELSE Changed(@, base, record)]
            /\ told' = ToldAfter(r)
    /\ Fail(r)
    /\ UNCHANGED clock

\* The operator disables a robot (one UPDATE).
Disable(d) ==
    /\ rows[d] # Nil /\ rows[d].status # "disabled"
    /\ rows' = [rows EXCEPT ![d].status = "disabled"]
    /\ request' = [r \in Served |->
           IF r \in UnderWay(d) THEN [request[r] EXCEPT !.late = TRUE] ELSE request[r]]
    /\ UNCHANGED <<clock, told>>

Tick ==
    /\ clock < MaxClock
    /\ clock' = clock + 1
    /\ UNCHANGED <<rows, request, told>>

AuthNext ==
    \/ \E r \in Served, d \in Robots : OtaRead(r, d) \/ ProvisionRead(r, d)
    \/ \E r \in Served, c \in Codes : CompleteRead(r, c)
    \/ \E r \in Served : Touch(r) \/ BeginRead(r) \/ AllocateCode(r) \/ Fetch(r) \/ Write(r)
    \/ \E d \in Robots : Disable(d)
    \/ Tick

AuthSpec == AuthInit /\ [][AuthNext]_authVars

---------------------------------------------------------------------------
(* What the robot's later requests find. *)

\* authenticate_ws: an active row whose hash is the token's.
Authenticated(d, token) == Active(rows[d]) /\ rows[d].token = token

\* poll_activation.
Polled(d, challenge) ==
    IF rows[d] = Nil THEN "unknown"
    ELSE IF rows[d].status # "pending" THEN rows[d].status
    ELSE IF challenge # Nil /\ rows[d].challenge # Nil /\ challenge # rows[d].challenge
    THEN "mismatch" ELSE "pending"

---------------------------------------------------------------------------
(* Properties *)

\* A robot whose last answer came from a request that no other one overlapped can use
\* it: its poll is never refused for the challenge, and once the poll says "active" its
\* token opens the WebSocket - over renewals, expiry, the migration of old rows and the
\* owner's code.  (Two overlapping requests of one robot may each be told another token.)
ToldConnects ==
    \A d \in Robots : told[d] # Nil =>
        /\ Polled(d, told[d].challenge) # "mismatch"
        /\ Polled(d, told[d].challenge) = "active" => Authenticated(d, told[d].token)

\* However the requests interleave, column by column, the token a later OTA answer would
\* unwrap from a row is the one whose hash authenticate_ws compares.
WrappedIsHashed ==
    \A d \in Robots : rows[d] # Nil /\ rows[d].wrapped # Nil => rows[d].wrapped = rows[d].token

\* A disabled robot comes back only by the operator's provision, or by a request that was
\* already under way when it was disabled (which the code does not prevent).
DisabledStays ==
    [][\A d \in Robots : rows[d] # Nil /\ rows[d].status = "disabled"
                         /\ rows'[d].status # "disabled" =>
        \E r \in Served : /\ request[r].robot = d /\ request'[r] # request[r]
                          /\ request[r].kind = "provision" \/ request[r].late]_authVars
===========================================================================
