---------------------------- MODULE MCDashboards ----------------------------
(***************************************************************************)
(* What browsers drive - the games, the sockets that watch, the pet's row, *)
(* the tic-tac-toe board, the portal that claims a robot - each on a small *)
(* instance of its own.  A behaviour of the model is one of theirs: `part` *)
(* says whose, and the others stay in an initial state.                    *)
(***************************************************************************)
EXTENDS CompanionHub, Dashboards, PetCare, TicTacToe, Activation

VARIABLE part

partsVars == <<hubVars, viewVars, careVars, tttVars, authVars, part>>
notHub  == <<viewVars, careVars, tttVars, authVars, part>>
notView == <<hubVars, careVars, tttVars, authVars, part>>
notCare == <<hubVars, viewVars, tttVars, authVars, part>>
notTtt  == <<hubVars, viewVars, careVars, authVars, part>>
notAuth == <<hubVars, viewVars, careVars, tttVars, part>>

\* A part that is not run has one initial state.
PartsInit ==
    /\ part \in {"hub", "view", "care", "ttt", "auth"}
    /\ HubInit /\ ViewInit /\ CareInit /\ TttInit /\ AuthInit
    /\ part # "care" => care = NoRow
    /\ part # "ttt" => level = "easy"
    /\ part # "auth" => \A d \in Robots : rows[d] = Nil

PartsNext ==
    \/ part = "hub" /\ HubNext /\ UNCHANGED notHub
    \/ part = "view" /\ ViewNext /\ UNCHANGED notView
    \/ part = "care" /\ CareNext /\ UNCHANGED notCare
    \/ part = "ttt" /\ TttNext /\ UNCHANGED notTtt
    \/ part = "auth" /\ AuthNext /\ UNCHANGED notAuth

\* The fairness of HubSpec.
PartsSpec ==
    /\ PartsInit /\ [][PartsNext]_partsVars
    /\ \A t \in Tasks : WF_hubVars(part = "hub" /\ GameStep(t))
    /\ \A v \in Viewers : WF_hubVars(part = "hub" /\ HandlerStep(v))
    /\ WF_hubVars(part = "hub" /\ TurnGoes)
=============================================================================
