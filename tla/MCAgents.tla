------------------------------ MODULE MCAgents ------------------------------
(***************************************************************************)
(* Instances of the two halves of a turn of the agents service: the turns  *)
(* of a chat with their streams and transcript, and the wait of a turn for *)
(* a human.  They share no state, so a behaviour runs one of them.         *)
(***************************************************************************)
EXTENDS AgentTurns, AgentApprovals

VARIABLE part       \* which of them this behaviour runs

\* Two parallel calls of one turn make the same action, and share its reference.
OneTurn == [c \in Calls |-> "t1"]
OneRef == [c \in Calls |-> "ref1"]

\* Requests that overlap: an approval of each call and a rejection of the second.
Targets == [d \in Requests |-> IF d = "approve1" THEN "call1" ELSE "call2"]
Choices == [d \in Requests |-> IF d = "reject2" THEN "reject" ELSE "approve"]

agentVars == <<vars, approvalVars, part>>

AgentsInit == part \in {"chat", "approval"} /\ Init /\ ApprovalsInit

ChatPart == part = "chat" /\ Next /\ UNCHANGED <<approvalVars, part>>
ApprovalPart == part = "approval" /\ ApprovalsNext /\ UNCHANGED <<vars, part>>

AgentsNext == ChatPart \/ ApprovalPart

AgentsSpec ==
    /\ AgentsInit /\ [][AgentsNext]_agentVars
    /\ \A t \in Turns : WF_vars(part = "chat" /\ ~Parked(t) /\ TaskStep(t))
    /\ \A r \in Readers : WF_vars(part = "chat" /\ StreamStep(r))
    /\ \A c \in Calls : WF_approvalVars(part = "approval" /\ CallStep(c))
    /\ \A d \in Requests : WF_approvalVars(part = "approval" /\ RequestStep(d))
    /\ \A t \in GatedTurns : WF_approvalVars(part = "approval" /\ TurnEnds(t))

(***************************************************************************)
(* Only a human keeps others waiting: an open stream ends with its turn    *)
(* unless the turn stays parked for its human (WatcherIsReleased), and a   *)
(* cancelled turn ends although nobody decides (CancelEndsTheTurn), each   *)
(* where its part runs.                                                    *)
(***************************************************************************)
NobodyIsKept ==
    /\ part = "chat" => WatcherIsReleased
    /\ part = "approval" => CancelEndsTheTurn
=============================================================================
