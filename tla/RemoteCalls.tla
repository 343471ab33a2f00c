----------------------------- MODULE RemoteCalls -----------------------------
(***************************************************************************)
(* What app/mcp/client.py promises to whoever calls a tool of the robot:   *)
(* a call ends, it ends once, and it ends with what the robot answered to  *)
(* that very call, or it fails.  McpClient implements this specification.  *)
(***************************************************************************)
CONSTANT Calls

VARIABLES
    given,   \* what the robot has answered to each call
    outcome  \* how each call has ended for its caller

Answers == {"result", "error"}

CallsInit ==
    /\ given = [c \in Calls |-> "none"]
    /\ outcome = [c \in Calls |-> "idle"]

Begin(c) ==
    /\ outcome[c] = "idle"
    /\ outcome' = [outcome EXCEPT ![c] = "asked"]
    /\ UNCHANGED given

\* The robot answers, perhaps when nobody waits any more.
Give(c) ==
    /\ outcome[c] # "idle" /\ given[c] = "none"
    /\ \E a \in Answers : given' = [given EXCEPT ![c] = a]
    /\ UNCHANGED outcome

End(c) ==
    /\ outcome[c] = "asked"
    /\ \E o \in {given[c], "failed"} \ {"none"} : outcome' = [outcome EXCEPT ![c] = o]
    /\ UNCHANGED given

CallsNext == \E c \in Calls : Begin(c) \/ Give(c) \/ End(c)

callsVars == <<given, outcome>>

CallsSafe == CallsInit /\ [][CallsNext]_callsVars

CallsSpec == CallsSafe /\ \A c \in Calls : WF_callsVars(End(c))

=============================================================================
