----------------------------- MODULE MCServices -----------------------------
(***************************************************************************)
(* The services the voice session uses - the calls to the robot, the       *)
(* Gemini Live session, the uplink of its microphone, the audio it speaks  *)
(* - each on a small instance of its own.  They share no state with one    *)
(* another (what they share with the session is an environment in each),   *)
(* so a behaviour of the model is one of theirs: `part` says whose, and    *)
(* the others stay in an initial state.                                    *)
(***************************************************************************)
EXTENDS McpClient, LiveBrain, Uplink, AudioStream

VARIABLE part

\* Which coroutines use the Live session together.
TheCasts == {[who |-> {}, before |-> 0],
             [who |-> {"voice", "text"}, before |-> 1],
             [who |-> {"voice", "warm"}, before |-> 0],
             [who |-> {"voice", "mic"}, before |-> 1],
             [who |-> {"text"}, before |-> 0]}

servicesVars == <<mcpVars, liveVars, upVars, streamVars, part>>
notMcp    == <<liveVars, upVars, streamVars, part>>
notLive   == <<mcpVars, upVars, streamVars, part>>
notUp     == <<mcpVars, liveVars, streamVars, part>>
notStream == <<mcpVars, liveVars, upVars, part>>

\* Which calls are made together: two motions, or a motion and a listing.
Together ==
    CASE part = "motions" -> \A c \in Listings : frame'[c].pc = "idle"
      [] part = "listing" -> \E c \in Motions : frame'[c].pc = "idle"

\* A part that is not run has one initial state.
ServicesInit ==
    /\ part \in {"motions", "listing", "live", "up", "stream"}
    /\ McpInit /\ LiveInit /\ UpInit /\ StreamInit
    /\ part # "live" => \A c \in Coroutines \ {"rx"} : co[c].pc = "away"

ServicesNext ==
    \/ part \in {"motions", "listing"} /\ McpNext /\ Together /\ UNCHANGED notMcp
    \/ part = "live" /\ LiveNext /\ UNCHANGED notLive
    \/ part = "up" /\ UpNext /\ UNCHANGED notUp
    \/ part = "stream" /\ StreamNext /\ UNCHANGED notStream

\* The fairness of McpSpec, LiveFairSpec and StreamSpec; the next-state relation leaves the
\* other parts as they are.
ServicesSpec ==
    /\ ServicesInit /\ [][ServicesNext]_servicesVars
    /\ \A c \in Calls : WF_mcpVars(part \in {"motions", "listing"} /\ Step(c))
    /\ WF_liveVars(part = "live" /\ TextStep)
    /\ \A c \in Coroutines : WF_liveVars(part = "live" /\ LiveStep(c))
    /\ WF_streamVars(part = "stream" /\ FeederStep)
    /\ WF_streamVars(part = "stream" /\ PumpStep)
    /\ WF_streamVars(part = "stream" /\ Plays)
=============================================================================
