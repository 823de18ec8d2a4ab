--------------------------- MODULE AgentApprovals ---------------------------
(***************************************************************************)
(* The human approval of expensive tool calls.  A call of a turn that came *)
(* back as a gate registers a waiter, saves a pending row, freezes the     *)
(* turn's deadline and waits for a decision or for the turn's cancel.  The *)
(* owner's requests read the row, deliver a decision to the waiter and     *)
(* then write it to the row.  An approved call is issued again, unless the *)
(* reference of its action was spent.                                      *)
(*                                                                         *)
(* Calls of one turn run side by side, requests overlap, and a turn may    *)
(* end under its calls.  A step is what runs between two awaits.           *)
(***************************************************************************)
EXTENDS Naturals, FiniteSets

CONSTANTS
    GatedTurns, Calls,       \* turns, and the gated tool calls they make
    TurnOf, RefOf,      \* the turn of a call, and its approval reference
    Requests,           \* decisions posted by the owner
    Target, Choice      \* the call a request is about, "approve" or "reject"

Refs == {RefOf[c] : c \in Calls}

ASSUME CallsAssumption == IsFiniteSet(Calls) /\ TurnOf \in [Calls -> GatedTurns]
ASSUME RequestsAssumption ==
    Target \in [Requests -> Calls] /\ Choice \in [Requests -> {"approve", "reject"}]

VARIABLES
    run,        \* per turn: running, leaving its loop, rows expired, over
    cancel,     \* per turn: the cancel event
    suspends,   \* per turn: how many calls hold the deadline
    armed,      \* per turn: whether the deadline runs
    call,       \* per call: where its coroutine is
    waiter,     \* per call: the coordinator's waiter and what it was told
    row,        \* per call: the status of its pending_approval row
    request,    \* per request: where its handler is
    spent,      \* references in consumed_approval
    performed   \* history: calls the tool carried out after approval

approvalVars == <<run, cancel, suspends, armed, call, waiter, row, request, spent, performed>>

CallsOf(t) == {c \in Calls : TurnOf[c] = t}

ApprovalsInit ==
    /\ run = [t \in GatedTurns |-> "running"]
    /\ cancel = [t \in GatedTurns |-> FALSE]
    /\ suspends = [t \in GatedTurns |-> 0]
    /\ armed = [t \in GatedTurns |-> TRUE]
    /\ call = [c \in Calls |-> "new"]
    /\ waiter = [c \in Calls |-> "none"]
    /\ row = [c \in Calls |-> "none"]
    /\ request = [d \in Requests |-> "new"]
    /\ spent = {}
    /\ performed = {}

-----------------------------------------------------------------------------
(***************************************************************************)
(* ApprovalCoordinator.                                                    *)
(***************************************************************************)
IsWaiting(c) == waiter[c] = "waiting"

\* resolve: the first decision counts, and only while somebody waits.
Resolve(c, decision) ==
    waiter' = IF IsWaiting(c) THEN [waiter EXCEPT ![c] = decision] ELSE waiter

Decided(c) == waiter[c] \in {"approve", "reject"}

\* wait, when it wakes: a decision wins over a cancel.
WakesWith(c) ==
    IF Decided(c) THEN waiter[c] ELSE "canceled"

-----------------------------------------------------------------------------
(***************************************************************************)
(* TurnHandle.suspend_timeout and resume_timeout, counted so that calls of *)
(* one turn compose.                                                       *)
(***************************************************************************)
Suspend(t) ==
    /\ suspends' = [suspends EXCEPT ![t] = @ + 1]
    /\ armed' = [armed EXCEPT ![t] = FALSE]

\* Mutant: the first call that goes on lets the deadline run.
ResumeUncounted(t) ==
    /\ suspends' = [suspends EXCEPT ![t] = @ - 1]
    /\ armed' = [armed EXCEPT ![t] = TRUE]

Resume(t) ==
    /\ suspends' = [suspends EXCEPT ![t] = @ - 1]
    /\ armed' = [armed EXCEPT ![t] = suspends[t] = 1]

-----------------------------------------------------------------------------
(***************************************************************************)
(* _await_approval, for a call whose first answer was the gate.            *)
(***************************************************************************)
Move(c, pc) == call' = [call EXCEPT ![c] = pc]

Register(c) ==
    /\ call[c] = "new" /\ run[TurnOf[c]] = "running" /\ Move(c, "registered")
    /\ waiter' = [waiter EXCEPT ![c] = "waiting"]
    /\ UNCHANGED <<run, cancel, suspends, armed, row, request, spent, performed>>

CreateRow(c) ==
    /\ call[c] = "registered" /\ Move(c, "pending")
    /\ row' = [row EXCEPT ![c] = "pending"]
    /\ UNCHANGED <<run, cancel, suspends, armed, waiter, request, spent, performed>>

Wait(c) ==
    /\ call[c] = "pending" /\ Move(c, "waiting") /\ Suspend(TurnOf[c])
    /\ UNCHANGED <<run, cancel, waiter, row, request, spent, performed>>

\* Mutant: the wait does not listen to the cancel event.
WakeOnDecision(c) ==
    /\ call[c] = "waiting" /\ Decided(c)
    /\ Resume(TurnOf[c])
    /\ Move(c, IF WakesWith(c) = "approve" THEN "approved" ELSE "done")
    /\ waiter' = [waiter EXCEPT ![c] = "none"]
    /\ UNCHANGED <<run, cancel, row, request, spent, performed>>

Wake(c) ==
    /\ call[c] = "waiting" /\ (Decided(c) \/ cancel[TurnOf[c]])
    /\ Resume(TurnOf[c])
    /\ Move(c, IF WakesWith(c) = "approve" THEN "approved" ELSE "done")
    /\ waiter' = [waiter EXCEPT ![c] = "none"]
    /\ UNCHANGED <<run, cancel, row, request, spent, performed>>

CheckRef(c) ==
    /\ call[c] = "approved"
    /\ Move(c, IF RefOf[c] \in spent THEN "done" ELSE "issuing")
    /\ UNCHANGED <<run, cancel, suspends, armed, waiter, row, request, spent, performed>>

\* The tool carries the action out, or answers with the gate again.
Reissue(c) ==
    /\ call[c] = "issuing"
    /\ \/ performed' = performed \cup {c} /\ Move(c, "spending")
       \/ Move(c, "done") /\ UNCHANGED performed
    /\ UNCHANGED <<run, cancel, suspends, armed, waiter, row, request, spent>>

Spend(c) ==
    /\ call[c] = "spending" /\ Move(c, "done")
    /\ spent' = spent \cup {RefOf[c]}
    /\ UNCHANGED <<run, cancel, suspends, armed, waiter, row, request, performed>>

-----------------------------------------------------------------------------
(***************************************************************************)
(* decide_approval.                                                        *)
(***************************************************************************)
Step(d, pc) == request' = [request EXCEPT ![d] = pc]

ReadRow(d) ==
    /\ request[d] = "new" /\ row[Target[d]] # "none"
    /\ Step(d, IF row[Target[d]] = "pending" THEN "read" ELSE "refused")
    /\ UNCHANGED <<run, cancel, suspends, armed, call, waiter, row, spent, performed>>

\* Nobody waits: 409.  A rejection is delivered at once, an approval asks the ledger first.
Reject(d) ==
    /\ request[d] = "read" /\ Choice[d] = "reject"
    /\ Resolve(Target[d], "reject")
    /\ Step(d, IF IsWaiting(Target[d]) THEN "rejecting" ELSE "refused")
    /\ UNCHANGED <<run, cancel, suspends, armed, call, row, spent, performed>>

FindWaiter(d) ==
    /\ request[d] = "read" /\ Choice[d] = "approve"
    /\ Step(d, IF IsWaiting(Target[d]) THEN "asking" ELSE "refused")
    /\ UNCHANGED <<run, cancel, suspends, armed, call, waiter, row, spent, performed>>

LookUpRef(d) ==
    /\ request[d] = "asking"
    /\ Step(d, IF RefOf[Target[d]] \in spent THEN "spent" ELSE "unspent")
    /\ UNCHANGED <<run, cancel, suspends, armed, call, waiter, row, spent, performed>>

\* A spent reference: the call is told no, whether or not it still listens.
Withdraw(d) ==
    /\ request[d] = "spent" /\ Step(d, "rejecting")
    /\ Resolve(Target[d], "reject")
    /\ UNCHANGED <<run, cancel, suspends, armed, call, row, spent, performed>>

Approve(d) ==
    /\ request[d] = "unspent"
    /\ Resolve(Target[d], "approve")
    /\ Step(d, IF IsWaiting(Target[d]) THEN "approving" ELSE "refused")
    /\ UNCHANGED <<run, cancel, suspends, armed, call, row, spent, performed>>

\* mark_decided: only a row that is still pending.
Marked(d, status) ==
    IF row[Target[d]] = "pending" THEN [row EXCEPT ![Target[d]] = status] ELSE row

MarkDecided(d) ==
    /\ request[d] \in {"approving", "rejecting"} /\ Step(d, "answered")
    /\ row' = Marked(d, IF request[d] = "approving" THEN "approved" ELSE "rejected")
    /\ UNCHANGED <<run, cancel, suspends, armed, call, waiter, spent, performed>>

-----------------------------------------------------------------------------
(***************************************************************************)
(* The turn around its calls.  A cancel is seen between two nodes, when no *)
(* call is out; the deadline, a shutdown or a fault ends the loop at any   *)
(* await and its calls with it, whose finally blocks give the deadline and *)
(* the waiter back.  Then the rows left pending expire, then the waiters   *)
(* are discarded.                                                          *)
(***************************************************************************)
Idle(t) == \A c \in CallsOf(t) : call[c] \in {"new", "done"}

Cancel(t) ==
    /\ run[t] = "running" /\ ~cancel[t]
    /\ cancel' = [cancel EXCEPT ![t] = TRUE]
    /\ UNCHANGED <<run, suspends, armed, call, waiter, row, request, spent, performed>>

LeaveLoop(t) ==
    /\ run[t] = "running" /\ Idle(t)
    /\ run' = [run EXCEPT ![t] = "leaving"]
    /\ UNCHANGED <<cancel, suspends, armed, call, waiter, row, request, spent, performed>>

Aborted(t) == {c \in CallsOf(t) : call[c] \notin {"new", "done"}}
AbortedWaits(t) == {c \in Aborted(t) : call[c] = "waiting"}

Abort(t) ==
    /\ run' = [run EXCEPT ![t] = "leaving"]
    /\ call' = [c \in Calls |-> IF c \in Aborted(t) THEN "done" ELSE call[c]]
    /\ waiter' = [c \in Calls |-> IF c \in AbortedWaits(t) THEN "none" ELSE waiter[c]]
    /\ suspends' = [suspends EXCEPT ![t] = @ - Cardinality(AbortedWaits(t))]
    /\ UNCHANGED <<cancel, armed, row, request, spent, performed>>

TimeOut(t) == run[t] = "running" /\ armed[t] /\ Abort(t)

Fault(t) == run[t] = "running" /\ Abort(t)

ExpireRows(t) ==
    /\ run[t] = "leaving"
    /\ run' = [run EXCEPT ![t] = "expired"]
    /\ row' = [c \in Calls |-> IF c \in CallsOf(t) /\ row[c] = "pending" THEN "expired" ELSE row[c]]
    /\ UNCHANGED <<cancel, suspends, armed, call, waiter, request, spent, performed>>

DiscardWaiters(t) ==
    /\ run[t] = "expired"
    /\ run' = [run EXCEPT ![t] = "over"]
    /\ waiter' = [c \in Calls |-> IF c \in CallsOf(t) THEN "none" ELSE waiter[c]]
    /\ UNCHANGED <<cancel, suspends, armed, call, row, request, spent, performed>>

-----------------------------------------------------------------------------
CallStep(c) ==
    Register(c) \/ CreateRow(c) \/ Wait(c) \/ Wake(c) \/ CheckRef(c) \/ Reissue(c) \/ Spend(c)

\* The handler behind the read of the row, with which the human decides.
RequestStep(d) ==
    Reject(d) \/ FindWaiter(d) \/ LookUpRef(d) \/ Withdraw(d) \/ Approve(d) \/ MarkDecided(d)

TurnEnds(t) == LeaveLoop(t) \/ ExpireRows(t) \/ DiscardWaiters(t)

ApprovalsNext ==
    \/ \E c \in Calls : CallStep(c)
    \/ \E d \in Requests : ReadRow(d) \/ RequestStep(d)
    \/ \E t \in GatedTurns : TurnEnds(t) \/ Cancel(t) \/ TimeOut(t) \/ Fault(t)

ApprovalsSpec == ApprovalsInit /\ [][ApprovalsNext]_approvalVars

\* The event loop runs coroutines and handlers; nothing makes a human decide.
ApprovalsFairSpec ==
    /\ ApprovalsSpec
    /\ \A c \in Calls : WF_approvalVars(CallStep(c))
    /\ \A d \in Requests : WF_approvalVars(RequestStep(d))
    /\ \A t \in GatedTurns : WF_approvalVars(TurnEnds(t))
-----------------------------------------------------------------------------
ApprovalsTypeOK ==
    /\ run \in [GatedTurns -> {"running", "leaving", "expired", "over"}]
    /\ cancel \in [GatedTurns -> BOOLEAN]
    /\ suspends \in [GatedTurns -> Nat]
    /\ armed \in [GatedTurns -> BOOLEAN]
    /\ call \in [Calls -> {"new", "registered", "pending", "waiting", "approved", "issuing",
                           "spending", "done"}]
    /\ waiter \in [Calls -> {"none", "waiting", "approve", "reject"}]
    /\ row \in [Calls -> {"none", "pending", "approved", "rejected", "expired"}]
    /\ request \in [Requests -> {"new", "read", "asking", "spent", "unspent", "approving",
                                 "rejecting", "refused", "answered"}]
    /\ spent \subseteq Refs
    /\ performed \subseteq Calls

(***************************************************************************)
(* The deadline does not run while a human decides, also when several      *)
(* calls of a turn wait and one of them is answered.                       *)
(***************************************************************************)
DeadlineIsFrozen ==
    \A c \in Calls : call[c] = "waiting" => ~armed[TurnOf[c]]

(***************************************************************************)
(* What the row shows is what happened: an action whose row says rejected  *)
(* was not carried out, and a row says approved only if a request approved *)
(* it.  The requests about one call must not include two approvals: then   *)
(* the second may find the reference already spent by the first, before    *)
(* the first has written the row.                                          *)
(***************************************************************************)
RowTellsDecision ==
    \A c \in Calls :
        /\ row[c] = "rejected" => c \notin performed
        /\ row[c] = "approved" =>
            \E d \in Requests : Target[d] = c /\ Choice[d] = "approve" /\ request[d] = "answered"

\* When a turn is over no row of it is left for somebody to decide.
NothingLeftPending ==
    \A c \in Calls : run[TurnOf[c]] = "over" => row[c] # "pending"

(***************************************************************************)
(* The reference is single-use: two actions never spend the same approval  *)
(* reference.                                                              *)
(***************************************************************************)
ReferenceSpentOnce ==
    \A c \in performed, e \in performed : RefOf[c] = RefOf[e] => c = e

(***************************************************************************)
(* A cancel reaches a turn that waits for a human: the turn ends although  *)
(* nobody decides.                                                         *)
(***************************************************************************)
CancelEndsTheTurn ==
    \A t \in GatedTurns : cancel[t] ~> (run[t] = "over")

(***************************************************************************)
(* The rows tell what was decided, a turn that is over leaves none open,   *)
(* and no deadline ran while a human decided.                              *)
(***************************************************************************)
DecisionsHold ==
    ApprovalsTypeOK /\ RowTellsDecision /\ NothingLeftPending /\ DeadlineIsFrozen
=============================================================================
