----------------------------- MODULE MCPlatform -----------------------------
(***************************************************************************)
(* Instances of what the services have in common: the tokens they call     *)
(* each other with, the door of each, the copies of the policy, the gate   *)
(* before what is expensive, and the cron expressions of the agents.       *)
(* They share no state here, so a behaviour runs one of them.              *)
(***************************************************************************)
EXTENDS TokenBroker, Admission, CronSchedule, PolicyDrift, ConfirmationGate

VARIABLE part       \* which of them this behaviour runs

Parts == {"tokens", "door", "cron", "policy", "gate"}

platformVars == <<brokerVars, doorVars, cron, policyVars, gateVars, part>>

-----------------------------------------------------------------------------
\* Two calls for one person, one for another.
Callers == [c \in Calls |-> IF c = 3 THEN "bob" ELSE "ann"]
Sessions == [s \in {"ann", "bob"} |-> 4]

KeysInOrder == <<"k1", "k2">>
HumanGrants == [human |-> {[service |-> "leads", methods |-> {"GET"}, prefix |-> <<"api", "leads">>]}]

Asking(kid, good, path) ==
    [kid |-> kid, good |-> good, roles |-> {"human"}, service |-> "leads", method |-> "GET",
     path |-> path, anonymous |-> path = <<"webhook">>]
SomeAsks ==
    {Asking("k1", TRUE, <<"api", "leads", "people">>), Asking("k2", TRUE, <<"api", "leadsort">>),
     Asking("forged", FALSE, <<"webhook">>)}

\* Hours of four minutes, days of three hours, weeks of three days, and years of
\* two months, the second of which is longer every other year.
MonthOf(m, n) == [d \in 1..n |-> [month |-> m, dom |-> d]]
TwoYears == MonthOf(1, 3) \o MonthOf(2, 2) \o MonthOf(1, 3) \o MonthOf(2, 3)

Stars(step) == [kind |-> "star", step |-> step]
Span(a, b, step) == [kind |-> "range", from |-> a, to |-> b, step |-> step]
At1(a) == Span(a, a, 1)
SomeExprs ==
    [minute : {{Bare}, {At1(0), At1(3)}, {Stars(2)}, {Stars(0)},
               {Span(3, 4, 2)}, {Span(3, 2, 1)}},
     hour : {{Bare}, {At1(0), At1(2)}}, dom : {{Bare}, {Stars(1)}, {At1(3)}, {Span(1, 2, 1)}},
     month : {{Bare}, {At1(2)}}, dow : {{Bare}, {At1(3)}, {At1(4)}}]

TwoHops == {<<"agents", "mcp">>, <<"mcp", "leads">>}
ThreeRoles ==
    [role \in {"admin", "leads-access", "internal"} |->
        IF role = "admin" THEN {"mcp", "leads"} ELSE {"leads"}]
OpenPaths == {<<"mcp">>, <<"mcp", "health">>}
OpenSubtrees == {<<"mcp">>}
PathsBelow == {<<"mcp", "tools">>}

-----------------------------------------------------------------------------
PlatformInit ==
    /\ part \in Parts
    /\ BrokerInit /\ AdmissionInit /\ CronInit /\ PolicyInit /\ GateInit
    /\ part # "cron" => cron.expr = CHOOSE expr \in Exprs : TRUE
    /\ part # "gate" => about = {"backup"}

TokensPart ==
    part = "tokens" /\ BrokerNext /\ UNCHANGED <<doorVars, cron, policyVars, gateVars, part>>
DoorPart ==
    part = "door" /\ AdmissionNext /\ UNCHANGED <<brokerVars, cron, policyVars, gateVars, part>>
CronPart ==
    part = "cron" /\ CronStep /\ UNCHANGED <<brokerVars, doorVars, policyVars, gateVars, part>>
PolicyPart ==
    part = "policy" /\ Edit /\ UNCHANGED <<brokerVars, doorVars, cron, gateVars, part>>
GatePart ==
    part = "gate" /\ GateNext /\ UNCHANGED <<brokerVars, doorVars, cron, policyVars, part>>

PlatformNext == TokensPart \/ DoorPart \/ CronPart \/ PolicyPart \/ GatePart

\* Each as its module has it.
PlatformSpec ==
    /\ PlatformInit /\ [][PlatformNext]_platformVars
    /\ \A c \in Calls : WF_brokerVars(part = "tokens" /\ CallSteps(c))
    /\ \A v \in Visits : WF_doorVars(part = "door" /\ VisitStep(v))

-----------------------------------------------------------------------------
(***************************************************************************)
(* Tokens are shared and valid when they are handed out, and the door      *)
(* gives the right verdict (TokensAreShared, VerdictsAreRight).            *)
(***************************************************************************)
IdentityHolds == TokensAreShared /\ VerdictsAreRight

(***************************************************************************)
(* What is written down as text does what it says: the copies of the       *)
(* policy when no drift is reported, and a cron expression                 *)
(* (PolicyHolds, CronHolds).                                               *)
(***************************************************************************)
RulesHold == PolicyHolds /\ CronHolds

(***************************************************************************)
(* A call gets its token or an error, a request its verdict                *)
(* (CallsAreAnswered, VisitsAreAnswered).                                  *)
(***************************************************************************)
NobodyWaitsForEver == CallsAreAnswered /\ VisitsAreAnswered
=============================================================================
