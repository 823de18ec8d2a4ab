---------------------------- MODULE AgentsProofs ----------------------------
(***************************************************************************)
(* Proofs about the two halves of a turn of the agents service, for any    *)
(* number of turns, calls, requests and streams.                           *)
(***************************************************************************)
EXTENDS AgentTurns, AgentApprovals, FiniteSetTheorems, SequenceTheorems,
        NaturalsInduction, WellFoundedInduction, TLAPS

-----------------------------------------------------------------------------
(***************************************************************************)
(* Approvals.  The deadline is frozen because the counter is the number of *)
(* the calls that wait, which is no more than a count of a finite set: the *)
(* call that goes on while the counter is one is the last.                 *)
(***************************************************************************)
Waits(t) == {c \in CallsOf(t) : call[c] = "waiting"}

DeadlineIsCounted ==
    \A t \in GatedTurns :
        suspends[t] = Cardinality(Waits(t)) /\ (armed[t] => Waits(t) = {})

CallsStopWithTheTurn ==
    \A c \in Calls : run[TurnOf[c]] # "running" => call[c] \in {"new", "done"}

RowsExpireWithTheTurn ==
    \A c \in Calls : run[TurnOf[c]] \in {"expired", "over"} => row[c] # "pending"

\* Somebody who still waits, or was told but has not woken, has performed nothing.
WaiterFits ==
    \A c \in Calls :
        /\ waiter[c] # "none" =>
              call[c] \in {"registered", "pending", "waiting", "done"} /\ c \notin performed
        /\ call[c] = "new" => waiter[c] = "none" /\ row[c] = "none" /\ c \notin performed

Approved(c) ==
    waiter[c] = "approve" \/ call[c] \in {"approved", "issuing", "spending"} \/ c \in performed

Decides(d, c) == Target[d] = c /\ Choice[d] = "approve"

SomebodyApproved ==
    \A c \in Calls : Approved(c) =>
        \E d \in Requests : Decides(d, c) /\ request[d] \in {"approving", "answered"}

\* A call that ended without acting, or was told no, or whose one approval is used up.
Refused(c) ==
    /\ call[c] \notin {"new", "approved", "issuing", "spending"} /\ c \notin performed
    /\ \/ waiter[c] = "reject" \/ call[c] = "done"
       \/ waiter[c] # "approve" /\ \E d \in Requests :
              Decides(d, c) /\ request[d] \in {"rejecting", "answered"}

RejectedIsRefused ==
    /\ \A d \in Requests : request[d] = "rejecting" => Refused(Target[d])
    /\ \A c \in Calls : row[c] = "rejected" => Refused(c)

ApprovedIsAnswered ==
    \A c \in Calls : row[c] = "approved" =>
        \E d \in Requests : Decides(d, c) /\ request[d] = "answered"

RequestsFollowTheRow ==
    \A d \in Requests :
        /\ request[d] # "new" => row[Target[d]] # "none"
        /\ request[d] \in {"asking", "spent", "unspent", "approving"} => Choice[d] = "approve"

\* What holds however often the owner decides; RejectedIsRefused needs more.
ApprovalsInv ==
    /\ ApprovalsTypeOK /\ DeadlineIsCounted
    /\ CallsStopWithTheTurn /\ RowsExpireWithTheTurn
    /\ WaiterFits /\ RequestsFollowTheRow /\ SomebodyApproved /\ ApprovedIsAnswered

(***************************************************************************)
(* The owner approves a call at most once: two clicks on one button are    *)
(* two requests, and the second may find the reference spent by the action *)
(* the first let through.                                                  *)
(***************************************************************************)
OneApprovalPerCall ==
    \A d, e \in Requests, c \in Calls : Decides(d, c) /\ Decides(e, c) => d = e

-----------------------------------------------------------------------------
LEMMA WaitsFinite ==
    ASSUME NEW t \in GatedTurns
    PROVE  IsFiniteSet(Waits(t)) /\ Cardinality(Waits(t)) \in Nat
<1>1. Waits(t) \subseteq Calls
  BY DEF Waits, CallsOf
<1> QED
  BY <1>1, CallsAssumption, FS_Subset, FS_CardinalityType

LEMMA ApprovalsTyped ==
    ASSUME ApprovalsTypeOK, DeadlineIsCounted, [ApprovalsNext]_approvalVars
    PROVE  ApprovalsTypeOK'
<1> USE DEF ApprovalsTypeOK
<1>1. CASE UNCHANGED approvalVars
  BY <1>1 DEF approvalVars
<1>2. ASSUME NEW c \in Calls, CallStep(c)
      PROVE  ApprovalsTypeOK'
  <2>1. TurnOf[c] \in GatedTurns /\ RefOf[c] \in Refs
    BY CallsAssumption DEF Refs
  <2>2. CASE Register(c) \/ CreateRow(c) \/ CheckRef(c) \/ Reissue(c) \/ Spend(c)
    BY <2>1, <2>2 DEF Register, CreateRow, CheckRef, Reissue, Spend, Move
  <2>3. CASE Wait(c)
    BY <2>1, <2>3 DEF Wait, Suspend, Move
  <2>4. CASE Wake(c)
    <3>1. c \in Waits(TurnOf[c])
      BY <2>4 DEF Wake, Waits, CallsOf
    <3>2. Cardinality(Waits(TurnOf[c])) # 0
      BY <2>1, <3>1, WaitsFinite, FS_EmptySet
    <3>3. suspends[TurnOf[c]] - 1 \in Nat
      BY <2>1, <3>2 DEF DeadlineIsCounted
    <3> QED
      BY <2>1, <2>4, <3>3 DEF Wake, Resume, Move
  <2> QED
    BY <1>2, <2>2, <2>3, <2>4 DEF CallStep
<1>3. ASSUME NEW d \in Requests, ReadRow(d) \/ RequestStep(d)
      PROVE  ApprovalsTypeOK'
  <2>1. Target[d] \in Calls
    BY RequestsAssumption
  <2> QED
    BY <1>3, <2>1 DEF RequestStep, ReadRow, Reject, FindWaiter, LookUpRef, Withdraw, Approve,
                      MarkDecided, Marked, Resolve, Step
<1>4. ASSUME NEW t \in GatedTurns, TurnEnds(t) \/ Cancel(t)
      PROVE  ApprovalsTypeOK'
  <2>1. CASE LeaveLoop(t) \/ Cancel(t)
    BY <2>1 DEF LeaveLoop, Cancel
  <2>2. CASE ExpireRows(t)
    BY <2>2 DEF ExpireRows
  <2>3. CASE DiscardWaiters(t)
    BY <2>3 DEF DiscardWaiters
  <2> QED
    BY <1>4, <2>1, <2>2, <2>3 DEF TurnEnds
<1>5. ASSUME NEW t \in GatedTurns, Abort(t)
      PROVE  ApprovalsTypeOK'
  <2>1. AbortedWaits(t) = Waits(t)
    BY DEF AbortedWaits, Aborted, Waits
  <2>2. suspends[t] - Cardinality(AbortedWaits(t)) \in Nat
    BY <2>1 DEF DeadlineIsCounted
  <2> QED
    BY <1>5, <2>2 DEF Abort
<1> QED
  BY <1>1, <1>2, <1>3, <1>4, <1>5 DEF ApprovalsNext, TimeOut, Fault

LEMMA DeadlineCountedStep ==
    ASSUME ApprovalsTypeOK, DeadlineIsCounted, [ApprovalsNext]_approvalVars
    PROVE  DeadlineIsCounted'
<1> USE DEF ApprovalsTypeOK
<1>1. ASSUME UNCHANGED <<suspends, armed>>, \A t \in GatedTurns : Waits(t)' = Waits(t)
      PROVE  DeadlineIsCounted'
  BY <1>1 DEF DeadlineIsCounted
<1>2. ASSUME UNCHANGED <<suspends, armed, call>>
      PROVE  DeadlineIsCounted'
  BY <1>1, <1>2 DEF Waits, CallsOf
<1>3. ASSUME NEW c \in Calls, CallStep(c)
      PROVE  DeadlineIsCounted'
  <2> DEFINE t == TurnOf[c]
  <2>1. t \in GatedTurns
    BY CallsAssumption
  <2>2. CASE Register(c) \/ CreateRow(c) \/ CheckRef(c) \/ Reissue(c) \/ Spend(c)
    <3>1. \A s \in GatedTurns : Waits(s)' = Waits(s)
      BY <2>2 DEF Waits, CallsOf, Register, CreateRow, CheckRef, Reissue, Spend, Move
    <3> QED
      BY <1>1, <2>2, <3>1 DEF Register, CreateRow, CheckRef, Reissue, Spend
  <2>3. CASE Wait(c)
    <3>1. Waits(t)' = Waits(t) \cup {c} /\ c \notin Waits(t)
      BY <2>3 DEF Waits, CallsOf, Wait, Move
    <3>2. \A s \in GatedTurns \ {t} : Waits(s)' = Waits(s)
      BY <2>3 DEF Waits, CallsOf, Wait, Move
    <3>3. Cardinality(Waits(t)') = Cardinality(Waits(t)) + 1
      BY <2>1, <3>1, WaitsFinite, FS_AddElement
    <3> QED
      BY <2>1, <2>3, <3>2, <3>3 DEF DeadlineIsCounted, Wait, Suspend
  <2>4. CASE Wake(c)
    <3>1. Waits(t)' = Waits(t) \ {c} /\ c \in Waits(t)
      BY <2>4 DEF Waits, CallsOf, Wake, Move
    <3>2. \A s \in GatedTurns \ {t} : Waits(s)' = Waits(s)
      BY <2>4 DEF Waits, CallsOf, Wake, Move
    <3>3. Cardinality(Waits(t)') = Cardinality(Waits(t)) - 1
      <4>1. IsFiniteSet(Waits(t)) /\ Cardinality(Waits(t)) \in Nat
        BY <2>1, WaitsFinite
      <4>2. Cardinality(Waits(t) \ {c}) = Cardinality(Waits(t)) - 1
        BY <3>1, <4>1, FS_RemoveElement
      <4> QED
        BY <3>1, <4>2
    <3>4. Waits(t) = {c} \/ suspends[t] # 1
      <4> SUFFICES ASSUME Cardinality(Waits(t)) = 1 PROVE Waits(t) = {c}
        BY <2>1 DEF DeadlineIsCounted
      <4>1. \E e : Waits(t) = {e}
        BY <2>1, WaitsFinite, FS_Singleton
      <4> QED
        BY <3>1, <4>1
    <3>5. suspends'[t] = Cardinality(Waits(t)') /\ (armed'[t] => Waits(t)' = {})
      BY <2>1, <2>4, <3>1, <3>3, <3>4 DEF DeadlineIsCounted, Wake, Resume
    <3>6. \A s \in GatedTurns \ {t} : suspends'[s] = suspends[s] /\ armed'[s] = armed[s]
      BY <2>4 DEF Wake, Resume
    <3> QED
      BY <3>2, <3>5, <3>6 DEF DeadlineIsCounted
  <2> QED
    BY <1>3, <2>2, <2>3, <2>4 DEF CallStep
<1>4. ASSUME NEW d \in Requests, ReadRow(d) \/ RequestStep(d)
      PROVE  DeadlineIsCounted'
  BY <1>2, <1>4 DEF RequestStep, ReadRow, Reject, FindWaiter, LookUpRef, Withdraw, Approve,
                    MarkDecided
<1>5. ASSUME NEW t \in GatedTurns, TurnEnds(t) \/ Cancel(t)
      PROVE  DeadlineIsCounted'
  BY <1>2, <1>5 DEF TurnEnds, LeaveLoop, ExpireRows, DiscardWaiters, Cancel
<1>6. ASSUME NEW t \in GatedTurns, Abort(t)
      PROVE  DeadlineIsCounted'
  <2>1. AbortedWaits(t) = Waits(t)
    BY DEF AbortedWaits, Aborted, Waits
  <2>2. Waits(t)' = {} /\ \A s \in GatedTurns \ {t} : Waits(s)' = Waits(s)
    BY <1>6 DEF Abort, Aborted, Waits, CallsOf
  <2>3. suspends'[t] = 0 /\ \A s \in GatedTurns \ {t} : suspends'[s] = suspends[s]
    BY <1>6, <2>1, WaitsFinite DEF Abort, DeadlineIsCounted
  <2> QED
    BY <1>6, <2>2, <2>3, FS_EmptySet DEF DeadlineIsCounted, Abort
<1>7. CASE UNCHANGED approvalVars
  BY <1>2, <1>7 DEF approvalVars
<1> QED
  BY <1>3, <1>4, <1>5, <1>6, <1>7 DEF ApprovalsNext, TimeOut, Fault

LEMMA CallsStopStep ==
    ASSUME ApprovalsTypeOK, CallsStopWithTheTurn, [ApprovalsNext]_approvalVars
    PROVE  CallsStopWithTheTurn'
<1> USE DEF ApprovalsTypeOK, CallsStopWithTheTurn
<1>1. CASE UNCHANGED approvalVars
  BY <1>1 DEF approvalVars
<1>2. ASSUME NEW c \in Calls, CallStep(c)
      PROVE  CallsStopWithTheTurn'
  BY <1>2, CallsAssumption
     DEF CallStep, Register, CreateRow, Wait, Wake, CheckRef, Reissue, Spend, Move
<1>3. ASSUME NEW d \in Requests, ReadRow(d) \/ RequestStep(d)
      PROVE  CallsStopWithTheTurn'
  BY <1>3 DEF RequestStep, ReadRow, Reject, FindWaiter, LookUpRef, Withdraw, Approve, MarkDecided
<1>4. ASSUME NEW t \in GatedTurns, TurnEnds(t) \/ Cancel(t)
      PROVE  CallsStopWithTheTurn'
  BY <1>4, CallsAssumption
     DEF TurnEnds, LeaveLoop, ExpireRows, DiscardWaiters, Cancel, Idle, CallsOf
<1>5. ASSUME NEW t \in GatedTurns, Abort(t)
      PROVE  CallsStopWithTheTurn'
  BY <1>5, CallsAssumption DEF Abort, Aborted, CallsOf
<1> QED
  BY <1>1, <1>2, <1>3, <1>4, <1>5 DEF ApprovalsNext, TimeOut, Fault

LEMMA RowsExpireStep ==
    ASSUME ApprovalsTypeOK, CallsStopWithTheTurn, RowsExpireWithTheTurn,
           [ApprovalsNext]_approvalVars
    PROVE  RowsExpireWithTheTurn'
<1> USE DEF ApprovalsTypeOK, RowsExpireWithTheTurn
<1>1. CASE UNCHANGED approvalVars
  BY <1>1 DEF approvalVars
<1>2. ASSUME NEW c \in Calls, CallStep(c)
      PROVE  RowsExpireWithTheTurn'
  <2>1. CASE CreateRow(c)
    <3>1. run[TurnOf[c]] = "running"
      BY <2>1 DEF CreateRow, CallsStopWithTheTurn
    <3> QED
      BY <2>1, <3>1, CallsAssumption DEF CreateRow
  <2> QED
    BY <1>2, <2>1 DEF CallStep, Register, Wait, Wake, CheckRef, Reissue, Spend
<1>3. ASSUME NEW d \in Requests, ReadRow(d) \/ RequestStep(d)
      PROVE  RowsExpireWithTheTurn'
  BY <1>3, RequestsAssumption DEF RequestStep, ReadRow, Reject, FindWaiter, LookUpRef, Withdraw,
     Approve, MarkDecided, Marked
<1>4. ASSUME NEW t \in GatedTurns, TurnEnds(t) \/ Cancel(t)
      PROVE  RowsExpireWithTheTurn'
  BY <1>4, CallsAssumption
     DEF TurnEnds, LeaveLoop, ExpireRows, DiscardWaiters, Cancel, CallsOf
<1>5. ASSUME NEW t \in GatedTurns, run[t] = "running", Abort(t)
      PROVE  RowsExpireWithTheTurn'
  BY <1>5, CallsAssumption DEF Abort
<1> QED
  BY <1>1, <1>2, <1>3, <1>4, <1>5 DEF ApprovalsNext, TimeOut, Fault

LEMMA WaiterFitsStep ==
    ASSUME ApprovalsTypeOK, WaiterFits, RequestsFollowTheRow, [ApprovalsNext]_approvalVars
    PROVE  WaiterFits'
<1> USE DEF ApprovalsTypeOK, WaiterFits
<1>1. CASE UNCHANGED approvalVars
  BY <1>1 DEF approvalVars
<1>2. ASSUME NEW c \in Calls, CallStep(c)
      PROVE  WaiterFits'
  BY <1>2 DEF CallStep, Register, CreateRow, Wait, Wake, CheckRef, Reissue, Spend, Move
<1>3. ASSUME NEW d \in Requests, ReadRow(d) \/ RequestStep(d)
      PROVE  WaiterFits'
  <2>1. Target[d] \in Calls
    BY RequestsAssumption
  <2>2. CASE MarkDecided(d)
    BY <2>1, <2>2 DEF MarkDecided, Marked, RequestsFollowTheRow
  <2>3. CASE ReadRow(d) \/ FindWaiter(d) \/ LookUpRef(d)
    BY <2>3 DEF ReadRow, FindWaiter, LookUpRef
  <2>4. CASE Reject(d) \/ Withdraw(d) \/ Approve(d)
    BY <2>1, <2>4 DEF Reject, Withdraw, Approve, Resolve, IsWaiting
  <2> QED
    BY <1>3, <2>2, <2>3, <2>4 DEF RequestStep
<1>4. ASSUME NEW t \in GatedTurns, TurnEnds(t) \/ Cancel(t)
      PROVE  WaiterFits'
  BY <1>4 DEF TurnEnds, LeaveLoop, ExpireRows, DiscardWaiters, Cancel
<1>5. ASSUME NEW t \in GatedTurns, Abort(t)
      PROVE  WaiterFits'
  BY <1>5 DEF Abort, AbortedWaits, Aborted
<1> QED
  BY <1>1, <1>2, <1>3, <1>4, <1>5 DEF ApprovalsNext, TimeOut, Fault

LEMMA RequestsFollowStep ==
    ASSUME ApprovalsTypeOK, RequestsFollowTheRow, [ApprovalsNext]_approvalVars
    PROVE  RequestsFollowTheRow'
<1> USE DEF ApprovalsTypeOK, RequestsFollowTheRow
<1>1. CASE UNCHANGED approvalVars
  BY <1>1 DEF approvalVars
<1>2. ASSUME NEW c \in Calls, CallStep(c)
      PROVE  RequestsFollowTheRow'
  BY <1>2, RequestsAssumption
     DEF CallStep, Register, CreateRow, Wait, Wake, CheckRef, Reissue, Spend
<1>3. ASSUME NEW d \in Requests, ReadRow(d) \/ RequestStep(d)
      PROVE  RequestsFollowTheRow'
  BY <1>3, RequestsAssumption DEF RequestStep, ReadRow, Reject, FindWaiter, LookUpRef, Withdraw,
     Approve, MarkDecided, Marked, Step
<1>4. ASSUME NEW t \in GatedTurns, TurnEnds(t) \/ Cancel(t)
      PROVE  RequestsFollowTheRow'
  BY <1>4, RequestsAssumption DEF TurnEnds, LeaveLoop, ExpireRows, DiscardWaiters, Cancel
<1>5. ASSUME NEW t \in GatedTurns, Abort(t)
      PROVE  RequestsFollowTheRow'
  BY <1>5 DEF Abort
<1> QED
  BY <1>1, <1>2, <1>3, <1>4, <1>5 DEF ApprovalsNext, TimeOut, Fault

LEMMA SomebodyApprovedStep ==
    ASSUME ApprovalsTypeOK, WaiterFits, RequestsFollowTheRow, SomebodyApproved,
           [ApprovalsNext]_approvalVars
    PROVE  SomebodyApproved'
<1> USE DEF ApprovalsTypeOK, SomebodyApproved, Decides
<1>1. ASSUME \A c \in Calls : Approved(c)' => Approved(c),
             \A d \in Requests : request[d] \in {"approving", "answered"} =>
                                     request'[d] \in {"approving", "answered"}
      PROVE  SomebodyApproved'
  BY <1>1
<1>2. CASE UNCHANGED approvalVars
  BY <1>1, <1>2 DEF approvalVars, Approved
<1>3. ASSUME NEW c \in Calls, CallStep(c)
      PROVE  SomebodyApproved'
  <2>1. \A b \in Calls : Approved(b)' => Approved(b)
    BY <1>3 DEF CallStep, Register, CreateRow, Wait, Wake, WakesWith, Decided, CheckRef, Reissue,
                Spend, Move, Approved
  <2>2. UNCHANGED request
    BY <1>3 DEF CallStep, Register, CreateRow, Wait, Wake, CheckRef, Reissue, Spend
  <2> QED
    BY <1>1, <2>1, <2>2
<1>4. ASSUME NEW d \in Requests, ReadRow(d) \/ RequestStep(d)
      PROVE  SomebodyApproved'
  <2>1. CASE Approve(d)
    <3>1. Choice[d] = "approve" /\ Target[d] \in Calls
      BY <2>1, RequestsAssumption DEF Approve, RequestsFollowTheRow
    <3>2. CASE IsWaiting(Target[d])
      <4>1. request'[d] = "approving" /\ \A e \in Requests \ {d} : request'[e] = request[e]
        BY <2>1, <3>2 DEF Approve, Step
      <4>2. \A c \in Calls \ {Target[d]} : Approved(c)' => Approved(c)
        BY <2>1, <3>2 DEF Approve, Resolve, Approved
      <4> QED
        BY <3>1, <4>1, <4>2
    <3>3. CASE ~IsWaiting(Target[d])
      BY <1>1, <2>1, <3>3 DEF Approve, Step, Resolve, Approved
    <3> QED
      BY <3>2, <3>3
  <2>2. CASE ReadRow(d) \/ FindWaiter(d) \/ LookUpRef(d)
    BY <1>1, <2>2 DEF ReadRow, FindWaiter, LookUpRef, Step, Approved
  <2>3. CASE Reject(d) \/ Withdraw(d)
    BY <1>1, <2>3 DEF Reject, Withdraw, Resolve, Step, Approved
  <2>4. CASE MarkDecided(d)
    BY <1>1, <2>4 DEF MarkDecided, Step, Approved
  <2> QED
    BY <1>4, <2>1, <2>2, <2>3, <2>4 DEF RequestStep
<1>5. ASSUME NEW t \in GatedTurns, TurnEnds(t) \/ Cancel(t)
      PROVE  SomebodyApproved'
  BY <1>1, <1>5 DEF TurnEnds, LeaveLoop, ExpireRows, DiscardWaiters, Cancel, Approved
<1>6. ASSUME NEW t \in GatedTurns, Abort(t)
      PROVE  SomebodyApproved'
  BY <1>1, <1>6 DEF Abort, Approved
<1> QED
  BY <1>2, <1>3, <1>4, <1>5, <1>6 DEF ApprovalsNext, TimeOut, Fault

LEMMA ApprovedIsAnsweredStep ==
    ASSUME ApprovalsTypeOK, RequestsFollowTheRow, ApprovedIsAnswered,
           [ApprovalsNext]_approvalVars
    PROVE  ApprovedIsAnswered'
<1> USE DEF ApprovalsTypeOK, ApprovedIsAnswered, Decides
<1>1. ASSUME \A c \in Calls : row'[c] = "approved" => row[c] = "approved",
             \A d \in Requests : request[d] = "answered" => request'[d] = "answered"
      PROVE  ApprovedIsAnswered'
  BY <1>1
<1>2. CASE UNCHANGED approvalVars
  BY <1>1, <1>2 DEF approvalVars
<1>3. ASSUME NEW c \in Calls, CallStep(c)
      PROVE  ApprovedIsAnswered'
  BY <1>1, <1>3 DEF CallStep, Register, CreateRow, Wait, Wake, CheckRef, Reissue, Spend
<1>4. ASSUME NEW d \in Requests, ReadRow(d) \/ RequestStep(d)
      PROVE  ApprovedIsAnswered'
  <2>1. CASE MarkDecided(d)
    BY <2>1, RequestsAssumption DEF MarkDecided, Marked, Step, RequestsFollowTheRow
  <2>2. CASE ~MarkDecided(d)
    BY <1>1, <1>4, <2>2 DEF RequestStep, ReadRow, Reject, FindWaiter, LookUpRef, Withdraw, Approve,
                            Step
  <2> QED
    BY <2>1, <2>2
<1>5. ASSUME NEW t \in GatedTurns, TurnEnds(t) \/ Cancel(t)
      PROVE  ApprovedIsAnswered'
  BY <1>1, <1>5 DEF TurnEnds, LeaveLoop, ExpireRows, DiscardWaiters, Cancel
<1>6. ASSUME NEW t \in GatedTurns, Abort(t)
      PROVE  ApprovedIsAnswered'
  BY <1>1, <1>6 DEF Abort
<1> QED
  BY <1>2, <1>3, <1>4, <1>5, <1>6 DEF ApprovalsNext, TimeOut, Fault

(***************************************************************************)
(* A call that was refused stays refused, also when the decision reaches   *)
(* it late: nobody is left who could approve it.                           *)
(***************************************************************************)
LEMMA RefusedStays ==
    ASSUME ApprovalsTypeOK, CallsStopWithTheTurn, WaiterFits, RequestsFollowTheRow,
           OneApprovalPerCall,
           [ApprovalsNext]_approvalVars,
           NEW c \in Calls, Refused(c)
    PROVE  Refused(c)'
<1> USE DEF ApprovalsTypeOK, Refused
<1>1. CASE UNCHANGED approvalVars
  BY <1>1 DEF approvalVars, Decides
<1>2. ASSUME NEW b \in Calls, CallStep(b)
      PROVE  Refused(c)'
  <2>1. UNCHANGED request
    BY <1>2 DEF CallStep, Register, CreateRow, Wait, Wake, CheckRef, Reissue, Spend
  <2> QED
    BY <1>2, <2>1 DEF CallStep, Register, CreateRow, Wait, Wake, WakesWith, Decided, CheckRef,
                      Reissue, Spend, Move, WaiterFits, Decides
<1>3. ASSUME NEW d \in Requests, ReadRow(d) \/ RequestStep(d)
      PROVE  Refused(c)'
  <2>1. UNCHANGED <<call, performed>>
    BY <1>3 DEF RequestStep, ReadRow, Reject, FindWaiter, LookUpRef, Withdraw, Approve, MarkDecided
  <2>2. \A e \in Requests : request[e] \in {"rejecting", "answered"} =>
                                request'[e] \in {"rejecting", "answered"}
    BY <1>3 DEF RequestStep, ReadRow, Reject, FindWaiter, LookUpRef, Withdraw, Approve,
                MarkDecided, Step
  <2>3. waiter[c] = "reject" => waiter'[c] = "reject"
    BY <1>3 DEF RequestStep, ReadRow, Reject, FindWaiter, LookUpRef, Withdraw, Approve,
                MarkDecided, Resolve, IsWaiting
  <2>4. waiter[c] # "approve" /\ call[c] # "done" /\ waiter[c] # "reject" => waiter'[c] # "approve"
    <3>1. CASE Approve(d)
      <4>1. Choice[d] = "approve" /\ request[d] = "unspent"
        BY <3>1 DEF Approve, RequestsFollowTheRow
      <4> QED
        BY <2>1, <2>2, <2>3, <3>1, <4>1
           DEF Approve, Resolve, IsWaiting, OneApprovalPerCall, Decides
    <3>2. CASE ~Approve(d)
      BY <1>3, <3>2 DEF RequestStep, ReadRow, Reject, FindWaiter, LookUpRef, Withdraw,
                        MarkDecided, Resolve, IsWaiting
    <3> QED
      BY <3>1, <3>2
  <2> QED
    BY <2>1, <2>2, <2>3, <2>4 DEF Decides
<1>4. ASSUME NEW t \in GatedTurns, TurnEnds(t) \/ Cancel(t)
      PROVE  Refused(c)'
  BY <1>4 DEF TurnEnds, LeaveLoop, ExpireRows, DiscardWaiters, Cancel, Decides,
                 CallsStopWithTheTurn, CallsOf
<1>5. ASSUME NEW t \in GatedTurns, Abort(t)
      PROVE  Refused(c)'
  BY <1>5 DEF Abort, Aborted, AbortedWaits, Decides
<1> QED
  BY <1>1, <1>2, <1>3, <1>4, <1>5 DEF ApprovalsNext, TimeOut, Fault

LEMMA RejectedIsRefusedStep ==
    ASSUME ApprovalsInv, OneApprovalPerCall, RejectedIsRefused, [ApprovalsNext]_approvalVars
    PROVE  RejectedIsRefused'
<1> USE DEF ApprovalsInv, ApprovalsTypeOK
<1>1. \A c \in Calls : Refused(c) => Refused(c)'
  BY RefusedStays
<1>2. ASSUME \A d \in Requests : request'[d] = "rejecting" =>
                 request[d] = "rejecting" \/ Refused(Target[d])',
             \A c \in Calls : row'[c] = "rejected" => row[c] = "rejected" \/ Refused(c)
      PROVE  RejectedIsRefused'
  BY <1>1, <1>2, RequestsAssumption DEF RejectedIsRefused
<1>3. CASE UNCHANGED approvalVars
  BY <1>2, <1>3 DEF approvalVars
<1>4. ASSUME NEW c \in Calls, CallStep(c)
      PROVE  RejectedIsRefused'
  BY <1>2, <1>4 DEF CallStep, Register, CreateRow, Wait, Wake, CheckRef, Reissue, Spend
<1>5. ASSUME NEW d \in Requests, ReadRow(d) \/ RequestStep(d)
      PROVE  RejectedIsRefused'
  <2>1. Target[d] \in Calls
    BY RequestsAssumption
  <2>2. CASE Reject(d)
    <3>1. IsWaiting(Target[d]) => Refused(Target[d])'
      BY <2>1, <2>2 DEF Reject, Resolve, IsWaiting, Refused, WaiterFits
    <3> QED
      BY <1>2, <2>2, <3>1 DEF Reject, Step
  <2>3. CASE Withdraw(d)
    <3>1. Decides(d, Target[d]) /\ request[d] = "spent"
      BY <2>3 DEF Withdraw, Decides, RequestsFollowTheRow
    <3>2. ~Approved(Target[d])
      BY <2>1, <3>1 DEF SomebodyApproved, OneApprovalPerCall
    <3>3. call[Target[d]] # "new"
      BY <2>1, <3>1 DEF RequestsFollowTheRow, WaiterFits
    <3>4. Refused(Target[d])'
      BY <2>1, <2>3, <3>1, <3>2, <3>3
         DEF Withdraw, Resolve, IsWaiting, Step, Refused, Approved, Decides
    <3> QED
      BY <1>2, <2>3, <3>4 DEF Withdraw, Step
  <2>4. CASE MarkDecided(d)
    BY <1>2, <2>1, <2>4 DEF MarkDecided, Marked, Step, RejectedIsRefused
  <2>5. CASE ReadRow(d) \/ FindWaiter(d) \/ LookUpRef(d) \/ Approve(d)
    BY <1>2, <2>5 DEF ReadRow, FindWaiter, LookUpRef, Approve, Step
  <2> QED
    BY <1>5, <2>2, <2>3, <2>4, <2>5 DEF RequestStep
<1>6. ASSUME NEW t \in GatedTurns, TurnEnds(t) \/ Cancel(t)
      PROVE  RejectedIsRefused'
  BY <1>2, <1>6 DEF TurnEnds, LeaveLoop, ExpireRows, DiscardWaiters, Cancel
<1>7. ASSUME NEW t \in GatedTurns, Abort(t)
      PROVE  RejectedIsRefused'
  BY <1>2, <1>7 DEF Abort
<1> QED
  BY <1>3, <1>4, <1>5, <1>6, <1>7 DEF ApprovalsNext, TimeOut, Fault

LEMMA ApprovalsInitially == ApprovalsInit => ApprovalsInv /\ RejectedIsRefused
<1> SUFFICES ASSUME ApprovalsInit PROVE ApprovalsInv /\ RejectedIsRefused
  OBVIOUS
<1>1. \A t \in GatedTurns : Waits(t) = {}
  BY DEF ApprovalsInit, Waits, CallsOf
<1>2. DeadlineIsCounted
  BY <1>1, FS_EmptySet DEF ApprovalsInit, DeadlineIsCounted
<1> QED
  BY <1>2, RequestsAssumption, CallsAssumption
     DEF ApprovalsInit, ApprovalsInv, ApprovalsTypeOK, CallsStopWithTheTurn, RowsExpireWithTheTurn,
         WaiterFits, RequestsFollowTheRow, SomebodyApproved, Approved, ApprovedIsAnswered,
         RejectedIsRefused

LEMMA ApprovalsStep == ApprovalsInv /\ [ApprovalsNext]_approvalVars => ApprovalsInv'
BY ApprovalsTyped, DeadlineCountedStep, CallsStopStep, RowsExpireStep, WaiterFitsStep,
   RequestsFollowStep, SomebodyApprovedStep, ApprovedIsAnsweredStep DEF ApprovalsInv

LEMMA ApprovalsInvariant == ApprovalsSpec => []ApprovalsInv
<1>1. ApprovalsInit => ApprovalsInv
  BY ApprovalsInitially
<1> QED
  BY <1>1, ApprovalsStep, PTL DEF ApprovalsSpec

(***************************************************************************)
(* However often the owner clicks, whichever calls of a turn wait side by  *)
(* side and however the turn ends, the deadline never runs while a human   *)
(* decides, and a turn that is over leaves no row open                     *)
(* (TurnHandle.suspend_deadline, resume_deadline and expire_pending).      *)
(***************************************************************************)
THEOREM DeadlineWaitsForTheHuman == ApprovalsSpec => [](DeadlineIsFrozen /\ NothingLeftPending)
<1>1. ApprovalsInv => DeadlineIsFrozen /\ NothingLeftPending
  BY CallsAssumption DEF ApprovalsInv, ApprovalsTypeOK, DeadlineIsFrozen, NothingLeftPending,
     DeadlineIsCounted, Waits, CallsOf, RowsExpireWithTheTurn
<1> QED
  BY <1>1, ApprovalsInvariant, PTL

(***************************************************************************)
(* If no call is approved twice, the rows tell what happened: what is      *)
(* shown as rejected was never carried out, though a decision, a cancel    *)
(* and the end of the turn meet at the waiter (decide_approval,            *)
(* ApprovalCoordinator and _await_approval).                               *)
(***************************************************************************)
THEOREM ApprovalRowsAreTrue == OneApprovalPerCall => (ApprovalsSpec => []DecisionsHold)
<1> SUFFICES ASSUME OneApprovalPerCall PROVE ApprovalsSpec => []DecisionsHold
  OBVIOUS
<1>1. ApprovalsInit => ApprovalsInv /\ RejectedIsRefused
  BY ApprovalsInitially
<1>2. ApprovalsInv /\ RejectedIsRefused /\ [ApprovalsNext]_approvalVars
        => ApprovalsInv' /\ RejectedIsRefused'
  BY ApprovalsStep, RejectedIsRefusedStep
<1>3. ApprovalsInv /\ RejectedIsRefused => ApprovalsTypeOK /\ RowTellsDecision
  BY DEF ApprovalsInv, RejectedIsRefused, Refused, RowTellsDecision, ApprovedIsAnswered, Decides
<1>4. ApprovalsSpec => [](ApprovalsInv /\ RejectedIsRefused)
  BY <1>1, <1>2, PTL DEF ApprovalsSpec
<1> QED
  BY <1>3, <1>4, DeadlineWaitsForTheHuman, PTL DEF DecisionsHold

LEMMA LeastElement ==
    ASSUME NEW S \in SUBSET Nat, S # {}
    PROVE  \E n \in S : \A m \in S : n <= m
<1>1. IsWellFoundedOn(OpToRel(<, Nat), Nat)
  BY NatLessThanWellFounded
<1>2. PICK n \in S : \A m \in S : <<m, n>> \notin OpToRel(<, Nat)
  BY <1>1, WFMin
<1>3. \A m \in S : ~(m < n)
  BY <1>2 DEF OpToRel
<1> QED
  BY <1>3

LEMMA GreatestIndex ==
    ASSUME NEW n \in Nat, NEW S \in SUBSET (1..n), S # {}
    PROVE  \E i \in S : \A j \in S : j <= i
<1> DEFINE below == {n - i : i \in S}
<1>1. below \in SUBSET Nat /\ below # {}
  <2>1. \A i \in S : n - i \in Nat
    OBVIOUS
  <2> QED
    BY <2>1
<1>2. PICK k \in below : \A m \in below : k <= m
  BY <1>1, LeastElement
<1>3. PICK i \in S : k = n - i
  OBVIOUS
<1>4. \A j \in S : n - i <= n - j
  BY <1>2, <1>3
<1> QED
  BY <1>4

(***************************************************************************)
(* What load_context_messages keeps of the rows it reads: what every       *)
(* message among them holds, and nothing that is not there.  The recursion *)
(* is shown to have a value, and the value to be right, for the first n    *)
(* rows by taking the least n for which it is not.                         *)
(***************************************************************************)
Kept(found, n, kept) ==
    CASE n = 0 -> << >>
      [] n > 0 /\ found[n].kind = "message" -> Append(kept[n - 1], found[n].holds)
      [] OTHER -> kept[n - 1]

IsKept(kept, found, n) == kept = [i \in 0..n |-> Kept(found, i, kept)]

LEMMA KeptExists ==
    ASSUME NEW found \in Seq(RowStates)
    PROVE  \A n \in 0..Len(found) : \E kept : IsKept(kept, found, n)
<1> DEFINE bad == {n \in 0..Len(found) : ~ \E kept : IsKept(kept, found, n)}
<1> SUFFICES ASSUME bad # {} PROVE FALSE
  OBVIOUS
<1>1. PICK n \in bad : \A m \in bad : n <= m
  <2>1. bad \in SUBSET Nat
    OBVIOUS
  <2> HIDE DEF bad
  <2> QED
    BY <2>1, LeastElement
<1>2. CASE n = 0
  <2>1. IsKept([i \in 0..0 |-> << >>], found, 0)
    BY DEF IsKept, Kept
  <2> QED
    BY <1>2, <2>1
<1>3. CASE n # 0
  <2>1. n - 1 \in 0..Len(found) /\ n - 1 \notin bad
    BY <1>1, <1>3
  <2>2. PICK before : IsKept(before, found, n - 1)
    BY <2>1
  <2> DEFINE kept == [i \in 0..n |-> Kept(found, i, before)]
  <2>3. \A i \in 0..(n - 1) : before[i] = Kept(found, i, before)
    BY <2>2 DEF IsKept
  <2>4. \A i \in 0..(n - 1) : kept[i] = before[i]
    BY <2>3
  <2>5. \A i \in 0..n : Kept(found, i, before) = Kept(found, i, kept)
    <3> TAKE i \in 0..n
    <3>1. CASE i = 0
      BY <3>1 DEF Kept
    <3>2. CASE i # 0
      <4>1. i - 1 \in 0..(n - 1)
        BY <3>2
      <4> HIDE DEF kept
      <4> QED
        BY <2>4, <4>1 DEF Kept
    <3> QED
      BY <3>1, <3>2
  <2>6. IsKept(kept, found, n)
    BY <2>5 DEF IsKept
  <2> QED
    BY <2>6
<1> QED
  BY <1>1, <1>2, <1>3

KeptRight(found, items, n) ==
    /\ items \in Seq(SUBSET Messages)
    /\ \A i \in 1..n : found[i].kind = "message" => \E k \in 1..Len(items) : items[k] = found[i].holds

LEMMA KeptIsRight ==
    ASSUME NEW found \in Seq(RowStates), NEW kept, IsKept(kept, found, Len(found))
    PROVE  KeptRight(found, kept[Len(found)], Len(found))
<1> DEFINE bad == {n \in 0..Len(found) : ~KeptRight(found, kept[n], n)}
<1> SUFFICES ASSUME bad # {} PROVE FALSE
  OBVIOUS
<1>1. PICK n \in bad : \A m \in bad : n <= m
  <2>1. bad \in SUBSET Nat
    OBVIOUS
  <2> HIDE DEF bad
  <2> QED
    BY <2>1, LeastElement
<1>2. kept[n] = Kept(found, n, kept)
  BY <1>1 DEF IsKept
<1>3. CASE n = 0
  <2>1. kept[n] = << >> /\ << >> \in Seq(SUBSET Messages)
    BY <1>2, <1>3 DEF Kept
  <2> QED
    <3>1. KeptRight(found, kept[n], n)
      BY <1>3, <2>1 DEF KeptRight
    <3> QED
      BY <1>1, <3>1
<1>4. CASE n # 0
  <2>1. n - 1 \in 0..Len(found) /\ n - 1 \notin bad /\ n \in 1..Len(found)
    BY <1>1, <1>4
  <2>2. KeptRight(found, kept[n - 1], n - 1)
    BY <2>1
  <2>3. found[n].holds \in SUBSET Messages
    <3>1. found[n] \in RowStates
      BY <2>1, ElementOfSeq
    <3> QED
      BY <3>1 DEF RowStates
  <2>4. KeptRight(found, kept[n], n)
    <3> DEFINE old == kept[n - 1]
    <3>1. CASE found[n].kind = "message"
      <4>1. kept[n] = Append(old, found[n].holds)
        BY <1>2, <1>4, <2>1, <3>1 DEF Kept
      <4>2. /\ kept[n] \in Seq(SUBSET Messages) /\ Len(kept[n]) = Len(old) + 1
            /\ kept[n][Len(old) + 1] = found[n].holds
            /\ \A k \in 1..Len(old) : kept[n][k] = old[k]
        BY <2>2, <2>3, <4>1 DEF KeptRight
      <4> HIDE DEF old
      <4>3. Len(old) \in Nat
        BY <2>2 DEF KeptRight, old
      <4> QED
        BY SMTT(60), <2>1, <2>2, <4>2, <4>3 DEF KeptRight, old
    <3>2. CASE found[n].kind # "message"
      <4>1. kept[n] = old
        BY <1>2, <1>4, <2>1, <3>2 DEF Kept
      <4> QED
        BY <2>1, <2>2, <3>2, <4>1 DEF KeptRight
    <3> QED
      BY <3>1, <3>2
  <2> QED
    BY <1>1, <2>4
<1> QED
  BY <1>3, <1>4

LEMMA HoldsOfIsRight ==
    ASSUME NEW found \in Seq(RowStates)
    PROVE  KeptRight(found, HoldsOf(found), Len(found))
<1> DEFINE kept == CHOOSE kept : IsKept(kept, found, Len(found))
<1>1. IsKept(kept, found, Len(found))
  <2>1. \E k : IsKept(k, found, Len(found))
    BY KeptExists
  <2> QED
    BY <2>1
<1>2. HoldsOf(found) = kept[Len(found)]
  BY DEF HoldsOf, IsKept, Kept
<1> HIDE DEF kept
<1> QED
  BY <1>1, <1>2, KeptIsRight

-----------------------------------------------------------------------------
(***************************************************************************)
(* The chat.  A buffer ends with the turn's last line, and a stream holds  *)
(* the line its cursor is at, of a buffer nobody can drop under it.        *)
(***************************************************************************)
LastLines == {"complete", "error"}

BuffersEnd ==
    \A t \in Turns :
        /\ turn[t].pc = "none" => buffer[t] = NoBuffer
        /\ buffer[t].finished =>
              LET events == buffer[t].events IN
              /\ turn[t].pc \in {"completed", "failing", "closed", "over"}
              /\ events # << >> /\ events[Len(events)] \in LastLines

HoldsItsLine(s) ==
    /\ s.pc # "away" => s.at \in Turns
    /\ s.pc = "ended" => s.last \in LastLines
    /\ s.pc \in {"open", "fetched"} =>
          /\ buffer[s.at].live /\ s.cursor <= Len(buffer[s.at].events)
          /\ s.cursor > 0 => s.last = buffer[s.at].events[s.cursor]
          /\ s.finished => s.last \in LastLines
    /\ s.pc = "opening" => s.cursor = 0 /\ ~s.finished

StreamsHoldTheirLine == \A r \in Readers : HoldsItsLine(reader[r])

(***************************************************************************)
(* The transcript.  Until it saves, a turn has no row; a turn whose number *)
(* is still the end of the transcript has none either, so that it writes   *)
(* only once, and behind its number.                                       *)
(***************************************************************************)
RowsOf(t) == {i \in 1..Len(log) : log[i].turn = t}

Numbered == {"seqd", "marked", "running", "parked", "saving", "saved", "advanced", "completed"}

FollowsItsNumber(s, own, end) ==
    /\ s.pc \in {"none", "starting", "begun", "seqd", "marked", "running", "parked", "saving"} => own = {}
    /\ s.pc \in {"none", "starting", "begun"} => s.made = 0 /\ ~s.seqd
    /\ s.pc \in {"seqd", "marked"} => s.made = 0
    /\ s.pc \in {"running", "parked", "saving"} => s.made > 0
    /\ s.pc = "parked" => s.made < MaxMessages
    /\ s.pc \in Numbered \/ s.made > 0 => s.seqd
    /\ s.seqd => s.start <= end /\ \A i \in own : s.start < i

RowsFollowTheirNumber == \A t \in Turns : FollowsItsNumber(turn[t], RowsOf(t), Len(log))

\* Position w is where a summary stands for what is before it.
MarksASummary(w) == w > 0 => w < Len(log) /\ log[w + 1].kind = "summary"

MarksAreSummaries ==
    /\ MarksASummary(watermark)
    /\ \A t \in Turns :
        /\ turn[t].pc = "marked" => MarksASummary(turn[t].mark)
        /\ turn[t].pc = "saved" /\ turn[t].digest # {} => MarksASummary(turn[t].start)

ChatInv ==
    /\ TypeOK /\ OpenBufferIsActive /\ BuffersEnd /\ StreamsHoldTheirLine
    /\ RowsFollowTheirNumber /\ MarksAreSummaries /\ ContextMissesNothingRecent

\* What the steps of a turn are, by what they may touch.
LEMMA BlockIsRows ==
    ASSUME TypeOK, NEW t \in Turns
    PROVE  /\ Block(t) \in Seq(RowStates)
           /\ \A i \in 1..Len(Block(t)) : Block(t)[i].turn = t
           /\ turn[t].digest # {} => Len(Block(t)) > 0 /\ Block(t)[1].kind = "summary"
           /\ turn[t].made > 0 => Len(Block(t)) > 0
<1> DEFINE head == IF turn[t].digest = {} THEN << >> ELSE <<Row(t, "summary", turn[t].digest)>>
           tail == [i \in 1..turn[t].made |-> Row(t, "message", {<<t, i>>})]
<1>1. turn[t].digest \in SUBSET Messages /\ turn[t].made \in 0..MaxMessages
  BY DEF TypeOK, TurnStates
<1>2. head \in Seq(RowStates)
  <2>1. Row(t, "summary", turn[t].digest) \in RowStates
    BY <1>1 DEF Row, RowStates
  <2> HIDE DEF Row
  <2>2. << >> \in Seq(RowStates) /\ <<Row(t, "summary", turn[t].digest)>> \in Seq(RowStates)
    BY <2>1
  <2> QED
    BY <2>2
<1>3. tail \in Seq(RowStates) /\ Len(tail) = turn[t].made
  <2>1. \A i \in 1..turn[t].made : Row(t, "message", {<<t, i>>}) \in RowStates
    BY <1>1, BoundsAssumption DEF Row, RowStates, Messages
  <2>2. turn[t].made \in Nat
    BY <1>1, BoundsAssumption
  <2>3. tail \in [1..turn[t].made -> RowStates]
    BY <2>1
  <2> HIDE DEF tail
  <2>4. tail \in Seq(RowStates)
    BY <2>2, <2>3, SeqDef
  <2>5. DOMAIN tail = 1..turn[t].made /\ DOMAIN tail = 1..Len(tail) /\ Len(tail) \in Nat
    BY <2>3, <2>4, LenProperties
  <2> QED
    BY <2>2, <2>4, <2>5
<1>4. /\ \A i \in 1..Len(head) : head[i].turn = t /\ head[i].kind = "summary"
      /\ \A i \in 1..Len(tail) : tail[i].turn = t
  BY <1>1, <1>3 DEF Row
<1>5. turn[t].digest # {} => Len(head) = 1
  OBVIOUS
<1> HIDE DEF head, tail
<1>6. Block(t) = head \o tail
  BY DEF Block, head, tail
<1>7. /\ head \o tail \in Seq(RowStates) /\ Len(head \o tail) = Len(head) + Len(tail)
      /\ \A i \in 1..Len(head \o tail) : (head \o tail)[i] =
            IF i <= Len(head) THEN head[i] ELSE tail[i - Len(head)]
      /\ Len(head) \in Nat /\ Len(tail) \in Nat
  <2>1. head \in Seq(RowStates) /\ tail \in Seq(RowStates)
    BY <1>2, <1>3
  <2>2. /\ head \o tail \in Seq(RowStates) /\ Len(head \o tail) = Len(head) + Len(tail)
        /\ \A i \in 1..Len(head) + Len(tail) : (head \o tail)[i] =
              IF i <= Len(head) THEN head[i] ELSE tail[i - Len(head)]
    BY ZenonT(60), <2>1, ConcatProperties
  <2>3. Len(head) \in Nat /\ Len(tail) \in Nat
    BY <2>1, LenProperties
  <2> QED
    BY ZenonT(60), <2>2, <2>3
<1>8. \A i \in 1..Len(Block(t)) : Block(t)[i].turn = t
  BY <1>4, <1>6, <1>7
<1>9. turn[t].digest # {} => Len(Block(t)) > 0 /\ Block(t)[1].kind = "summary"
  <2> SUFFICES ASSUME turn[t].digest # {} PROVE Len(Block(t)) > 0 /\ Block(t)[1].kind = "summary"
    OBVIOUS
  <2>1. Len(head) = 1 /\ head[1].kind = "summary"
    BY <1>4, <1>5
  <2>2. Len(Block(t)) = 1 + Len(tail) /\ 1 \in 1..Len(Block(t))
    BY <1>6, <1>7, <2>1
  <2> QED
    BY <1>6, <1>7, <2>1, <2>2
<1>10. turn[t].made > 0 => Len(Block(t)) > 0
  BY <1>3, <1>6, <1>7
<1> QED
  BY <1>6, <1>7, <1>8, <1>9, <1>10

LEMMA SavedGrows ==
    ASSUME TypeOK, NEW t \in Turns, NEW block \in Seq(RowStates)
    PROVE  /\ Saved(t, block) \in Seq(RowStates)
           /\ Len(log) <= Len(Saved(t, block))
           /\ \A i \in 1..Len(log) : Saved(t, block)[i] = log[i]
           /\ Len(log) = turn[t].start =>
                /\ Len(Saved(t, block)) = Len(log) + Len(block)
                /\ \A i \in 1..Len(block) : Saved(t, block)[Len(log) + i] = block[i]
BY ConcatProperties DEF TypeOK, Saved

LEMMA ContextTyped ==
    ASSUME TypeOK, NEW mark \in Nat
    PROVE  /\ Context(mark) \in Seq(SUBSET Messages)
           /\ \A i \in 1..Len(log) : i > mark /\ log[i].kind = "message" =>
                  \E k \in 1..Len(Context(mark)) : Context(mark)[k] = log[i].holds
<1>0. log \in Seq(RowStates)
  BY DEF TypeOK
<1> DEFINE later == SubSeq(log, mark + 1, Len(log))
           head == IF mark > 0 THEN NewestSummary ELSE << >>
<1>1. later \in Seq(RowStates)
  BY <1>0, SubSeqProperties
<1>2. KeptRight(later, Verbatim(mark), Len(later))
  BY <1>1, HoldsOfIsRight DEF Verbatim
<1>3. head \in Seq(SUBSET Messages)
  <2> DEFINE S == {i \in 1..Len(log) : log[i].kind = "summary"}
             newest == CHOOSE i \in S : \A j \in S : j <= i
  <2>1. CASE S = {}
    BY <2>1 DEF NewestSummary
  <2>2. CASE S # {}
    <3>1. newest \in S
      <4>1. \E i \in S : \A j \in S : j <= i
        <5>1. Len(log) \in Nat /\ S \in SUBSET (1..Len(log))
          BY <1>0, LenProperties
        <5> HIDE DEF S
        <5> QED
          BY <2>2, <5>1, GreatestIndex
      <4> HIDE DEF S
      <4> QED
        BY <4>1
    <3>2. log[newest] \in RowStates
      BY <1>0, <3>1, ElementOfSeq
    <3>3. log[newest].holds \in SUBSET Messages
      BY <3>2 DEF RowStates
    <3>4. NewestSummary = <<log[newest].holds>>
      BY <2>2 DEF NewestSummary
    <3>5. NewestSummary \in Seq(SUBSET Messages)
      <4> HIDE DEF newest
      <4> QED
        BY <3>3, <3>4
    <3> QED
      BY <3>5
  <2> QED
    BY <2>1, <2>2
<1>4. Context(mark) = head \o Verbatim(mark)
  BY DEF Context
<1>5. \A i \in 1..Len(log) : i > mark => i - mark \in 1..Len(later) /\ later[i - mark] = log[i]
  BY <1>0, SubSeqProperties
<1> HIDE DEF later, head
<1>6. Context(mark) \in Seq(SUBSET Messages)
  BY <1>2, <1>3, <1>4, ConcatProperties DEF KeptRight
<1>7. \A k \in 1..Len(Verbatim(mark)) :
        Len(head) + k \in 1..Len(Context(mark)) /\ Context(mark)[Len(head) + k] = Verbatim(mark)[k]
  BY <1>2, <1>3, <1>4 DEF KeptRight
<1> QED
  BY <1>2, <1>5, <1>6, <1>7 DEF KeptRight

-----------------------------------------------------------------------------
\* Types: what is published, closed, summarised and written is what TypeOK says.
LEMMA EmittedTyped ==
    ASSUME TypeOK, NEW t \in Turns, NEW events \in Seq(Lines)
    PROVE  /\ Emitted(t, events) \in [Turns -> BufferStates]
           /\ \A u \in Turns : /\ u # t => Emitted(t, events)[u] = buffer[u]
                               /\ Emitted(t, events)[u].live = buffer[u].live
                               /\ Emitted(t, events)[u].finished = buffer[u].finished
           /\ Emitted(t, events)[t].events =
                IF buffer[t].live THEN buffer[t].events \o events ELSE buffer[t].events
<1>1. buffer[t] \in BufferStates /\ buffer[t].events \in Seq(Lines)
  BY DEF TypeOK, BufferStates
<1>2. buffer[t].events \o events \in Seq(Lines)
  BY <1>1, ConcatProperties
<1> QED
  BY <1>1, <1>2 DEF TypeOK, BufferStates, Emitted

LEMMA LinesTyped ==
    /\ <<"start">> \in Seq(Lines) /\ <<"delta">> \in Seq(Lines) /\ <<"tool">> \in Seq(Lines)
    /\ <<"summary">> \in Seq(Lines) /\ <<"error">> \in Seq(Lines) /\ <<"approval">> \in Seq(Lines)
    /\ <<"usage", "complete">> \in Seq(Lines)
BY DEF Lines

LEMMA CloseTyped ==
    ASSUME TypeOK, NEW t \in Turns, NEW events \in Seq(Lines), Close(t, events)
    PROVE  buffer' \in [Turns -> BufferStates] /\ active' \in Turns \cup {NoTurn}
<1>1. Emitted(t, events) \in [Turns -> BufferStates]
  BY EmittedTyped
<1> QED
  BY <1>1 DEF TypeOK, Close, Cleared, BufferStates

LEMMA UnbornTyped == Unborn \in TurnStates /\ Gone \in TurnStates
<1>1. << >> \in Seq(SUBSET Messages) /\ 0 \in 0..MaxMessages
  BY BoundsAssumption
<1> QED
  BY <1>1 DEF Unborn, Gone, TurnStates

LEMMA InRunTyped ==
    ASSUME TypeOK, NEW t \in Turns
    PROVE  \A s \in 1..Len(InRun(t)) : Covered(SubSeq(InRun(t), 1, s)) \in SUBSET Messages
<1> DEFINE mine == [i \in 1..turn[t].made |-> {<<t, i>>}]
<1>1. turn[t].context \in Seq(SUBSET Messages) /\ turn[t].made \in 0..MaxMessages
  BY DEF TypeOK, TurnStates
<1>2. mine \in Seq(SUBSET Messages)
  <2>1. turn[t].made \in Nat /\ mine \in [1..turn[t].made -> SUBSET Messages]
    BY <1>1, BoundsAssumption DEF Messages
  <2> HIDE DEF mine
  <2> QED
    BY <2>1, SeqDef
<1>3. InRun(t) \in Seq(SUBSET Messages)
  <2> HIDE DEF mine
  <2> QED
    BY <1>1, <1>2, ConcatProperties DEF InRun, mine
<1> TAKE s \in 1..Len(InRun(t))
<1>4. SubSeq(InRun(t), 1, s) \in Seq(SUBSET Messages)
  BY <1>3, SubSeqProperties
<1>5. \A i \in 1..Len(SubSeq(InRun(t), 1, s)) : SubSeq(InRun(t), 1, s)[i] \in SUBSET Messages
  BY <1>4, ElementOfSeq
<1> QED
  BY <1>5 DEF Covered

LEMMA TurnsTyped ==
    ASSUME TypeOK, RowsFollowTheirNumber, NEW t \in Turns, TaskStep(t)
    PROVE  TypeOK'
<1>0. turn[t] \in TurnStates /\ turn \in [Turns -> TurnStates]
  BY DEF TypeOK
<1>1. ASSUME NEW pc \in Trying \cup {"none", "failing", "closed", "over"}, Goto(t, pc)
      PROVE  turn' \in [Turns -> TurnStates]
  BY <1>0, <1>1 DEF Goto, TurnStates
<1>2. Over(t) => turn' \in [Turns -> TurnStates]
  BY <1>0, UnbornTyped DEF Over
<1>3. Len(log) \in Nat
  BY DEF TypeOK
<1>4. CASE Begin(t)
  BY <1>1, <1>4, EmittedTyped, LinesTyped DEF Begin, TypeOK, rows, Trying
<1>5. CASE ReadSeq(t)
  <2>1. turn' \in [Turns -> TurnStates]
    BY <1>0, <1>3, <1>5 DEF ReadSeq, TurnStates, Trying
  <2> QED
    BY <1>5, <2>1 DEF ReadSeq, TypeOK, rows
<1>6. CASE ReadWatermark(t)
  <2>1. turn' \in [Turns -> TurnStates]
    BY <1>0, <1>6 DEF ReadWatermark, TurnStates, Trying, TypeOK
  <2> QED
    BY <1>6, <2>1 DEF ReadWatermark, TypeOK, rows
<1>7. CASE LoadContext(t)
  <2>1. Context(turn[t].mark) \in Seq(SUBSET Messages) /\ 1 \in 0..MaxMessages
    <3>1. turn[t].mark \in Nat
      BY <1>0 DEF TurnStates
    <3>2. Context(turn[t].mark) \in Seq(SUBSET Messages)
      BY <3>1, ContextTyped
    <3>3. 1 \in 0..MaxMessages
      BY BoundsAssumption
    <3> QED
      BY <3>2, <3>3
  <2>2. turn' \in [Turns -> TurnStates]
    BY <1>0, <1>7, <2>1 DEF LoadContext, TurnStates, Trying
  <2> QED
    BY <1>7, <2>2 DEF LoadContext, TypeOK, rows
<1>8. CASE Answer(t) \/ CallTools(t)
  <2>1. turn' \in [Turns -> TurnStates]
    <3>1. turn[t].made + 1 \in 0..MaxMessages
      <4>1. turn[t].made \in 0..MaxMessages
        BY <1>0 DEF TurnStates
      <4>2. turn[t].made < MaxMessages
        BY <1>8, <4>1, BoundsAssumption DEF Answer, CallTools
      <4> QED
        BY <4>1, <4>2, BoundsAssumption
    <3>2. turn' = [turn EXCEPT ![t].made = @ + 1]
      BY <1>8 DEF Answer, CallTools
    <3> QED
      BY <1>0, <3>1, <3>2 DEF TurnStates
  <2>2. buffer' \in [Turns -> BufferStates]
    BY ZenonT(60), <1>8, EmittedTyped, LinesTyped DEF Answer, CallTools
  <2>3. UNCHANGED <<active, recent, log, watermark, reader, restarts>>
    BY <1>8 DEF Answer, CallTools, rows
  <2> QED
    BY <2>1, <2>2, <2>3 DEF TypeOK
<1>17. CASE AskHuman(t)
  <2>1. turn' \in [Turns -> TurnStates]
    <3>1. Goto(t, "parked")
      BY <1>17 DEF AskHuman
    <3> QED
      BY <1>1, <3>1 DEF Trying
  <2>2. buffer' \in [Turns -> BufferStates]
    BY <1>17, EmittedTyped, LinesTyped DEF AskHuman
  <2>3. UNCHANGED <<active, recent, log, watermark, reader, restarts>>
    BY <1>17 DEF AskHuman, rows
  <2> QED
    BY <2>1, <2>2, <2>3 DEF TypeOK
<1>18. CASE HumanAnswers(t)
  <2>1. turn' \in [Turns -> TurnStates]
    <3>1. turn[t].made + 1 \in 0..MaxMessages
      <4>1. turn[t].made \in 0..MaxMessages
        BY <1>0 DEF TurnStates
      <4>2. turn[t].made < MaxMessages
        BY <1>18 DEF HumanAnswers, Parked, RowsFollowTheirNumber, FollowsItsNumber
      <4> QED
        BY <4>1, <4>2, BoundsAssumption
    <3>2. turn' = [turn EXCEPT ![t] = [@ EXCEPT !.pc = "running", !.made = turn[t].made + 1]]
      BY <1>18 DEF HumanAnswers
    <3> QED
      BY <1>0, <3>1, <3>2 DEF TurnStates, Trying
  <2>2. buffer' \in [Turns -> BufferStates]
    BY <1>18, EmittedTyped, LinesTyped DEF HumanAnswers
  <2>3. UNCHANGED <<active, recent, log, watermark, reader, restarts>>
    BY <1>18 DEF HumanAnswers, rows
  <2> QED
    BY <2>1, <2>2, <2>3 DEF TypeOK
<1>9. CASE Summarise(t)
  <2>1. \A s \in Splits(InRun(t)) : Covered(SubSeq(InRun(t), 1, s)) \in SUBSET Messages
    BY InRunTyped DEF Splits
  <2>2. turn' \in [Turns -> TurnStates]
    <3>1. PICK s \in Splits(InRun(t)) :
            turn' = [turn EXCEPT ![t].digest = Covered(SubSeq(InRun(t), 1, s))]
      BY <1>9 DEF Summarise
    <3>2. Covered(SubSeq(InRun(t), 1, s)) \in SUBSET Messages
      BY <2>1
    <3> QED
      BY <1>0, <3>1, <3>2 DEF TurnStates
  <2>3. buffer' \in [Turns -> BufferStates]
    BY <1>9, EmittedTyped, LinesTyped DEF Summarise
  <2> QED
    BY <1>9, <2>2, <2>3 DEF Summarise, TypeOK, rows
<1>10. CASE Succeed(t) \/ Fail(t)
  BY <1>1, <1>10 DEF Succeed, Fail, TypeOK, rows, Trying
<1>11. CASE PersistTurn(t)
  <2>1. turn' \in [Turns -> TurnStates]
    BY <1>1, <1>11 DEF PersistTurn, Trying
  <2>2. log' \in Seq(RowStates) /\ Len(log) <= Len(log')
    BY <1>11, BlockIsRows, SavedGrows DEF PersistTurn
  <2> QED
    BY <1>3, <1>11, <2>1, <2>2 DEF PersistTurn, TypeOK
<1>12. CASE AdvanceWatermark(t)
  <2>1. turn' \in [Turns -> TurnStates]
    BY <1>1, <1>12 DEF AdvanceWatermark, Trying
  <2> QED
    <3>1. turn[t].start \in Nat /\ turn[t].start <= Len(log)
      BY <1>0, <1>12 DEF AdvanceWatermark, TurnStates, RowsFollowTheirNumber, FollowsItsNumber,
                          Numbered
    <3> QED
      BY <1>12, <2>1, <3>1 DEF AdvanceWatermark, TypeOK, NewWatermark
<1>13. CASE Complete(t)
  <2>1. turn' \in [Turns -> TurnStates]
    BY <1>1, <1>13 DEF Complete, Trying
  <2> QED
    BY <1>13, <2>1, CloseTyped, LinesTyped DEF Complete, TypeOK, rows
<1>14. CASE CloseFailed(t)
  <2>1. turn' \in [Turns -> TurnStates]
    BY <1>1, <1>14 DEF CloseFailed
  <2> QED
    BY <1>14, <2>1, CloseTyped, LinesTyped DEF CloseFailed, TypeOK, rows
<1>15. CASE Announce(t)
  BY <1>2, <1>15 DEF Announce, TypeOK, rows
<1>16. CASE KeepMessage(t)
  <2>1. <<Row(t, "message", {<<t, 1>>})>> \in Seq(RowStates)
    <3>1. Row(t, "message", {<<t, 1>>}) \in RowStates
      BY BoundsAssumption DEF Row, RowStates, Messages
    <3> HIDE DEF Row
    <3> QED
      BY <3>1
  <2>2. log' \in Seq(RowStates) /\ Len(log) <= Len(log')
    <3>1. log' = log \/ log' = Saved(t, <<Row(t, "message", {<<t, 1>>})>>)
      BY <1>16 DEF KeepMessage
    <3>2. log \in Seq(RowStates)
      BY DEF TypeOK
    <3> DEFINE block == <<Row(t, "message", {<<t, 1>>})>>
    <3>3. block \in Seq(RowStates)
      BY <2>1
    <3> HIDE DEF block
    <3>4. Saved(t, block) \in Seq(RowStates) /\ Len(log) <= Len(Saved(t, block))
      BY <3>3, SavedGrows
    <3>5. log' = log \/ log' = Saved(t, block)
      BY <3>1 DEF block
    <3> QED
      BY <1>3, <3>2, <3>4, <3>5
  <2> QED
    BY <1>2, <1>3, <1>16, <2>2 DEF KeepMessage, TypeOK
<1> QED
  BY <1>4, <1>5, <1>6, <1>7, <1>8, <1>9, <1>10, <1>11, <1>12, <1>13, <1>14, <1>15, <1>16,
     <1>17, <1>18 DEF TaskStep

LEMMA RouteTyped ==
    ASSUME TypeOK, StreamsHoldTheirLine,
           \/ \E t \in Turns : Post(t) \/ Expire(t)
           \/ \E r \in Readers : Reattach(r) \/ StreamStep(r) \/ Leave(r)
           \/ Restart
    PROVE  TypeOK'
<1>0. Away \in StreamStates /\ NoBuffer \in BufferStates
  BY DEF Away, StreamStates, NoBuffer, BufferStates
<1>1. ASSUME NEW r \in Readers, NEW t \in Turns, Follow(r, t)
      PROVE  reader' \in [Readers -> StreamStates]
  BY <1>1 DEF Follow, Away, TypeOK, StreamStates
<1>2. ASSUME NEW t \in Turns, Post(t)
      PROVE  TypeOK'
  <2>1. turn' \in [Turns -> TurnStates]
    BY ZenonT(60), <1>2 DEF Post, TypeOK, TurnStates, Trying
  <2>2. buffer' \in [Turns -> BufferStates]
    BY <1>2 DEF Post, TypeOK, BufferStates
  <2>3. reader' \in [Readers -> StreamStates]
    BY <1>1, <1>2 DEF Post, TypeOK
  <2> QED
    BY <1>2, <2>1, <2>2, <2>3 DEF Post, TypeOK, rows
<1>3. ASSUME NEW t \in Turns, Expire(t)
      PROVE  TypeOK'
  BY <1>0, <1>3 DEF Expire, Cleared, TypeOK, rows
<1>4. ASSUME NEW r \in Readers, Reattach(r)
      PROVE  TypeOK'
  BY <1>1, <1>4 DEF Reattach, TypeOK, rows, NoTurn
<1>5. ASSUME NEW r \in Readers, Subscribe(r) \/ Deliver(r) \/ Leave(r)
      PROVE  TypeOK'
  <2>1. reader' \in [Readers -> StreamStates]
    <3>1. \A pc \in {"open", "unknown", "ended"} :
            [reader EXCEPT ![r].pc = pc] \in [Readers -> StreamStates]
      BY DEF TypeOK, StreamStates
    <3>2. CASE Subscribe(r) \/ Deliver(r)
      BY <3>1, <3>2 DEF Subscribe, Deliver
    <3>3. CASE Leave(r)
      BY <1>0, <3>3 DEF Leave, TypeOK
    <3> QED
      BY <1>5, <3>2, <3>3
  <2> QED
    BY <1>5, <2>1 DEF Subscribe, Deliver, Leave, TypeOK, rows
<1>6. ASSUME NEW r \in Readers, Fetch(r), reader[r].at \in Turns
      PROVE  TypeOK'
  <2> DEFINE b == buffer[reader[r].at]
  <2>1. b.events \in Seq(Lines) /\ b.finished \in BOOLEAN /\ Len(b.events) \in Nat
    BY <1>6 DEF TypeOK, BufferStates
  <2>2. Pending(r) => b.events[Len(b.events)] \in Lines
    BY <1>6, <2>1 DEF Pending, TypeOK, StreamStates
  <2>3. reader' \in [Readers -> StreamStates]
    <3> DEFINE last == IF Pending(r) THEN b.events[Len(b.events)] ELSE reader[r].last
    <3>0. last \in Lines \cup {"none"}
      BY <2>2 DEF TypeOK, StreamStates
    <3>1. reader' = [reader EXCEPT ![r] = [reader[r] EXCEPT
            !.pc = "fetched", !.cursor = Len(b.events), !.finished = b.finished, !.last = last]]
      BY <1>6 DEF Fetch, TypeOK, StreamStates
    <3>2. reader[r] \in StreamStates
      BY DEF TypeOK
    <3>3. [reader[r] EXCEPT !.pc = "fetched", !.cursor = Len(b.events), !.finished = b.finished,
                            !.last = last] \in StreamStates
      <4> HIDE DEF b, last
      <4> QED
        BY <2>1, <3>0, <3>2 DEF StreamStates
    <3> HIDE DEF b, last
    <3> QED
      BY <3>1, <3>3 DEF TypeOK
  <2> QED
    BY <1>6, <2>3 DEF Fetch, TypeOK, rows
<1>7. CASE Restart
  <2>1. turn' \in [Turns -> TurnStates]
    BY <1>7, UnbornTyped DEF Restart, TypeOK
  <2> QED
    BY <1>0, <1>7, <2>1, BoundsAssumption DEF Restart, TypeOK, rows
<1> QED
  BY <1>2, <1>3, <1>4, <1>5, <1>6, <1>7 DEF StreamStep, StreamsHoldTheirLine, HoldsItsLine, Fetch

-----------------------------------------------------------------------------
(***************************************************************************)
(* Buffers and streams.  A task only adds lines to its own buffer and      *)
(* closes it with a last line; only a buffer nobody watches is dropped.    *)
(***************************************************************************)
\* What a task may do to the buffers: append to its own, and close it with a last line.
Grows(old, new) ==
    /\ new.live = old.live /\ Len(old.events) <= Len(new.events)
    /\ \A i \in 1..Len(old.events) : new.events[i] = old.events[i]

LEMMA EmittedGrows ==
    ASSUME TypeOK, NEW t \in Turns, NEW events \in Seq(Lines)
    PROVE  \A u \in Turns : Grows(buffer[u], Emitted(t, events)[u])
<1> SUFFICES ASSUME NEW u \in Turns PROVE Grows(buffer[u], Emitted(t, events)[u])
  OBVIOUS
<1>1. buffer[u].events \in Seq(Lines) /\ Len(buffer[u].events) \in Nat
  BY DEF TypeOK, BufferStates
<1>2. CASE u # t \/ ~buffer[t].live
  BY <1>1, <1>2, EmittedTyped DEF Grows, Emitted
<1>3. CASE u = t /\ buffer[t].live
  <2>1. Emitted(t, events)[t].events = buffer[t].events \o events
    BY <1>3, EmittedTyped
  <2>2. /\ Len(buffer[t].events \o events) = Len(buffer[t].events) + Len(events)
        /\ Len(events) \in Nat
        /\ \A i \in 1..Len(buffer[t].events) : (buffer[t].events \o events)[i] = buffer[t].events[i]
    BY <1>1, <1>3
  <2>3. Emitted(t, events)[t].live = buffer[t].live
    BY EmittedTyped
  <2> QED
    <3>1. Len(buffer[t].events) <= Len(Emitted(t, events)[t].events)
      BY <1>1, <2>1, <2>2
    <3>2. \A i \in 1..Len(buffer[t].events) : Emitted(t, events)[t].events[i] = buffer[t].events[i]
      BY <2>1, <2>2
    <3>3. Grows(buffer[t], Emitted(t, events)[t])
      BY <2>3, <3>1, <3>2 DEF Grows
    <3> QED
      BY <1>3, <3>3
<1> QED
  BY <1>2, <1>3

TaskOnBuffers(t) ==
    /\ \A u \in Turns : Grows(buffer[u], buffer'[u]) /\ (u # t => buffer'[u] = buffer[u])
    /\ \/ buffer' = buffer /\ active' = active
       \/ /\ turn[t].pc \in {"starting", "running", "parked"} /\ active' = active
          /\ buffer'[t].finished = buffer[t].finished
       \/ /\ turn'[t].pc \in {"completed", "closed"} /\ active' = Cleared(active, t)
          /\ buffer[t].live
          /\ buffer'[t].finished /\ buffer'[t].events # << >>
          /\ buffer'[t].events[Len(buffer'[t].events)] \in LastLines

LEMMA TasksKeepBuffers ==
    ASSUME TypeOK, BuffersEnd, NEW t \in Turns, TaskStep(t)
    PROVE  TaskOnBuffers(t)
<1>1. \A u \in Turns : buffer[u].events \in Seq(Lines) /\ Len(buffer[u].events) \in Nat
  BY DEF TypeOK, BufferStates
<1>2. ASSUME UNCHANGED <<buffer, active>>
      PROVE  TaskOnBuffers(t)
  BY <1>1, <1>2 DEF Grows, TaskOnBuffers
<1>3. ASSUME NEW events \in Seq(Lines), buffer' = Emitted(t, events), active' = active,
             turn[t].pc \in {"starting", "running", "parked"}
      PROVE  TaskOnBuffers(t)
  BY <1>3, EmittedGrows, EmittedTyped DEF TaskOnBuffers
<1>4. ASSUME NEW events \in Seq(Lines), events # << >>, events[Len(events)] \in LastLines,
             Close(t, events), turn'[t].pc \in {"completed", "closed"}
      PROVE  TaskOnBuffers(t)
  <2>1. CASE buffer[t].live
    <3>1. /\ buffer' = [Emitted(t, events) EXCEPT ![t].finished = TRUE]
          /\ active' = Cleared(active, t)
      BY <1>4, <2>1 DEF Close
    <3>2. Emitted(t, events) \in [Turns -> BufferStates]
      BY EmittedTyped
    <3>3. /\ buffer'[t].finished /\ buffer'[t].live = Emitted(t, events)[t].live
          /\ buffer'[t].events = Emitted(t, events)[t].events
          /\ \A u \in Turns : u # t => buffer'[u] = Emitted(t, events)[u]
      BY <3>1, <3>2 DEF BufferStates
    <3>4. buffer'[t].events = buffer[t].events \o events
      BY <2>1, <3>3, EmittedTyped
    <3>5. /\ buffer[t].events \o events # << >>
          /\ (buffer[t].events \o events)[Len(buffer[t].events \o events)] \in LastLines
      BY <1>1, <1>4
    <3>6. \A u \in Turns : Grows(buffer[u], buffer'[u]) /\ (u # t => buffer'[u] = buffer[u])
      <4> TAKE u \in Turns
      <4>1. Grows(buffer[u], Emitted(t, events)[u])
        BY EmittedGrows
      <4>2. CASE u = t
        BY <3>3, <4>1, <4>2 DEF Grows
      <4>3. CASE u # t
        <5>1. buffer'[u] = Emitted(t, events)[u] /\ Emitted(t, events)[u] = buffer[u]
          BY <3>3, <4>3, EmittedTyped
        <5> QED
          BY <4>1, <5>1
      <4> QED
        BY <4>2, <4>3
    <3> QED
      BY <1>4, <2>1, <3>1, <3>3, <3>4, <3>5, <3>6 DEF TaskOnBuffers
  <2>2. CASE ~buffer[t].live
    BY <1>2, <1>4, <2>2 DEF Close
  <2> QED
    BY <2>1, <2>2
<1>5. CASE Begin(t) \/ Answer(t) \/ CallTools(t) \/ Summarise(t)
  <2> QED
    BY <1>3, <1>5, LinesTyped DEF Begin, Answer, CallTools, Summarise
<1>9. CASE AskHuman(t) \/ HumanAnswers(t)
  <2>1. turn[t].pc \in {"running", "parked"} /\ active' = active
    BY <1>9 DEF AskHuman, HumanAnswers, Parked
  <2>2. \/ buffer' = Emitted(t, <<"approval">>)
        \/ buffer' = Emitted(t, <<"tool">>)
    BY <1>9 DEF AskHuman, HumanAnswers
  <2>3. <<"approval">> \in Seq(Lines) /\ <<"tool">> \in Seq(Lines)
    BY LinesTyped
  <2> QED
    BY <1>3, <2>1, <2>2, <2>3
<1>6. CASE Complete(t)
  <2>1. turn'[t].pc = "completed"
    BY <1>6 DEF Complete, Goto, TypeOK, TurnStates
  <2>2. <<"usage", "complete">> # << >> /\ <<"usage", "complete">>[Len(<<"usage", "complete">>)] \in LastLines
    BY DEF LastLines
  <2> QED
    BY <1>4, <1>6, <2>1, <2>2, LinesTyped DEF Complete
<1>7. CASE CloseFailed(t)
  <2>1. turn'[t].pc = "closed"
    BY <1>7 DEF CloseFailed, Goto, TypeOK, TurnStates
  <2>2. <<"error">> # << >> /\ <<"error">>[Len(<<"error">>)] \in LastLines
    BY DEF LastLines
  <2> QED
    BY <1>4, <1>7, <2>1, <2>2, LinesTyped DEF CloseFailed
<1>8. CASE ReadSeq(t) \/ ReadWatermark(t) \/ LoadContext(t) \/ Succeed(t) \/ PersistTurn(t)
           \/ AdvanceWatermark(t) \/ Announce(t) \/ Fail(t) \/ KeepMessage(t)
  <2> QED
    BY <1>2, <1>8 DEF ReadSeq, ReadWatermark, LoadContext, Succeed, PersistTurn, AdvanceWatermark,
                      Announce, Fail, KeepMessage
<1> QED
  BY <1>5, <1>6, <1>7, <1>8, <1>9 DEF TaskStep

LEMMA OpenBufferStep ==
    ASSUME TypeOK, OpenBufferIsActive, BuffersEnd, [Next]_vars
    PROVE  OpenBufferIsActive'
<1> USE DEF OpenBufferIsActive
<1>1. CASE UNCHANGED <<buffer, active>>
  BY <1>1
<1>2. ASSUME NEW t \in Turns, TaskStep(t)
      PROVE  OpenBufferIsActive'
  <2>1. TaskOnBuffers(t)
    BY <1>2, TasksKeepBuffers
  <2>2. \A u \in Turns : buffer'[u].live = buffer[u].live
    BY <2>1 DEF TaskOnBuffers, Grows
  <2>3. \A u \in Turns : u # t => buffer'[u].finished = buffer[u].finished
    BY <2>1 DEF TaskOnBuffers
  <2> QED
    BY <2>1, <2>2, <2>3 DEF TaskOnBuffers, Cleared, Turns, NoTurn
<1>3. ASSUME NEW t \in Turns, Post(t)
      PROVE  OpenBufferIsActive'
  <2>1. \A u \in Turns : u # t => buffer'[u] = buffer[u]
    BY <1>3 DEF Post, TypeOK
  <2>2. \A u \in Turns : ~(buffer[u].live /\ ~buffer[u].finished)
    BY <1>3 DEF Post, Busy, Turns, NoTurn
  <2> QED
    BY <1>3, <2>1, <2>2 DEF Post
<1>4. ASSUME NEW t \in Turns, Expire(t)
      PROVE  OpenBufferIsActive'
  BY <1>4 DEF Expire, Cleared, TypeOK, NoBuffer
<1>5. CASE Restart
  BY <1>5 DEF Restart, NoBuffer
<1>6. ASSUME NEW r \in Readers, Reattach(r) \/ StreamStep(r) \/ Leave(r)
      PROVE  OpenBufferIsActive'
  BY <1>1, <1>6 DEF Reattach, StreamStep, Subscribe, Fetch, Deliver, Leave
<1> QED
  BY <1>1, <1>2, <1>3, <1>4, <1>5, <1>6 DEF Next, vars

Closing == {"completed", "failing", "closed", "over"}

LEMMA TaskMoves ==
    ASSUME TypeOK, NEW t \in Turns, TaskStep(t)
    PROVE  /\ turn[t].pc # "none" /\ turn'[t].pc # "none"
           /\ turn[t].pc \in Closing => turn'[t].pc \in Closing
           /\ \A u \in Turns : u # t => turn'[u] = turn[u]
<1> USE DEF TypeOK, TurnStates, Trying, Closing
<1>1. CASE Begin(t) \/ ReadSeq(t) \/ ReadWatermark(t) \/ LoadContext(t)
  BY <1>1 DEF Begin, ReadSeq, ReadWatermark, LoadContext, Goto
<1>2. CASE Answer(t) \/ CallTools(t) \/ AskHuman(t) \/ HumanAnswers(t)
  BY <1>2 DEF Answer, CallTools, AskHuman, HumanAnswers, Parked, Goto
<1>3. CASE Summarise(t)
  <2>1. PICK s \in Splits(InRun(t)) :
          turn' = [turn EXCEPT ![t].digest = Covered(SubSeq(InRun(t), 1, s))]
    BY <1>3 DEF Summarise
  <2>2. turn[t].pc = "running"
    BY <1>3 DEF Summarise
  <2> QED
    BY <2>1, <2>2
<1>4. CASE Succeed(t) \/ PersistTurn(t) \/ AdvanceWatermark(t)
  BY <1>4 DEF Succeed, PersistTurn, AdvanceWatermark, Goto
<1>5. CASE Complete(t) \/ Fail(t) \/ CloseFailed(t)
  BY <1>5 DEF Complete, Fail, CloseFailed, Goto
<1>6. CASE Announce(t) \/ KeepMessage(t)
  BY <1>6 DEF Announce, KeepMessage, Over, Gone, Unborn
<1> QED
  BY <1>1, <1>2, <1>3, <1>4, <1>5, <1>6 DEF TaskStep

LEMMA BuffersEndStep ==
    ASSUME TypeOK, BuffersEnd, [Next]_vars
    PROVE  BuffersEnd'
<1> USE DEF BuffersEnd
<1>1. CASE UNCHANGED <<buffer, turn>>
  BY <1>1
<1>2. ASSUME NEW t \in Turns, TaskStep(t)
      PROVE  BuffersEnd'
  <2>1. TaskOnBuffers(t)
    BY <1>2, TasksKeepBuffers
  <2>2. \A u \in Turns : u # t => turn'[u] = turn[u] /\ buffer'[u] = buffer[u]
    BY <1>2, <2>1, TaskMoves DEF TaskOnBuffers
  <2>3. turn[t].pc # "none" /\ turn'[t].pc # "none"
    BY <1>2, TaskMoves
  <2>4. turn[t].pc \in Closing => turn'[t].pc \in Closing
    BY <1>2, TaskMoves
  <2> QED
    BY <2>1, <2>2, <2>3, <2>4 DEF TaskOnBuffers, Closing
<1>3. ASSUME NEW t \in Turns, Post(t)
      PROVE  BuffersEnd'
  <2>1. \A u \in Turns : u # t => turn'[u] = turn[u] /\ buffer'[u] = buffer[u]
    BY <1>3 DEF Post, TypeOK
  <2>2. turn'[t].pc = "starting" /\ ~buffer'[t].finished
    BY <1>3 DEF Post, TypeOK, TurnStates, NoBuffer, BufferStates
  <2> QED
    BY <2>1, <2>2
<1>4. ASSUME NEW t \in Turns, Expire(t)
      PROVE  BuffersEnd'
  BY <1>4 DEF Expire, TypeOK, NoBuffer
<1>5. CASE Restart
  BY <1>5 DEF Restart, NoBuffer
<1>6. ASSUME NEW r \in Readers, Reattach(r) \/ StreamStep(r) \/ Leave(r)
      PROVE  BuffersEnd'
  BY <1>1, <1>6 DEF Reattach, StreamStep, Subscribe, Fetch, Deliver, Leave
<1> QED
  BY <1>1, <1>2, <1>3, <1>4, <1>5, <1>6 DEF Next, vars

LEMMA StreamsStep ==
    ASSUME TypeOK, TypeOK', BuffersEnd, StreamsHoldTheirLine, [Next]_vars
    PROVE  StreamsHoldTheirLine'
<1>0. \A r \in Readers : reader[r] \in StreamStates
  BY DEF TypeOK
<1>1. CASE UNCHANGED <<buffer, reader>>
  BY <1>1 DEF StreamsHoldTheirLine, HoldsItsLine
<1>2. ASSUME NEW t \in Turns, TaskStep(t)
      PROVE  StreamsHoldTheirLine'
  <2>1. \A u \in Turns : Grows(buffer[u], buffer'[u])
    BY <1>2, TasksKeepBuffers DEF TaskOnBuffers
  <2>2. reader' = reader
    BY <1>2 DEF TaskStep, Begin, ReadSeq, ReadWatermark, LoadContext, Answer,
       CallTools, AskHuman, HumanAnswers, Summarise, Succeed, PersistTurn, AdvanceWatermark, Complete, Announce, Fail,
       CloseFailed, KeepMessage
  <2>3. \A u \in Turns : Len(buffer[u].events) \in Nat /\ Len(buffer'[u].events) \in Nat
    <3>1. \A u \in Turns : buffer'[u] \in BufferStates /\ buffer[u] \in BufferStates
      BY DEF TypeOK
    <3> QED
      BY <3>1 DEF BufferStates
  <2> QED
    BY <1>0, <2>1, <2>2, <2>3 DEF StreamsHoldTheirLine, HoldsItsLine, Grows, StreamStates
<1>3. ASSUME NEW t \in Turns, Post(t)
      PROVE  StreamsHoldTheirLine'
  <2>1. \A u \in Turns : u # t => buffer'[u] = buffer[u]
    BY <1>3 DEF Post, TypeOK
  <2>2. ~buffer[t].live
    BY <1>3 DEF Post, BuffersEnd, NoBuffer
  <2>3. \A r \in Readers : \/ reader'[r] = reader[r]
                           \/ reader'[r] = [Away EXCEPT !.pc = "opening", !.at = t]
    BY <1>3 DEF Post, Follow, TypeOK
  <2>4. HoldsItsLine([Away EXCEPT !.pc = "opening", !.at = t])'
    BY DEF HoldsItsLine, Away
  <2>5. \A r \in Readers : HoldsItsLine(reader[r])'
    <3> TAKE r \in Readers
    <3>1. CASE reader'[r] = reader[r]
      <4>1. reader[r].pc \in {"open", "fetched"} => reader[r].at # t /\ reader[r].at \in Turns
        BY <2>2 DEF StreamsHoldTheirLine, HoldsItsLine
      <4> QED
        BY <2>1, <3>1, <4>1 DEF StreamsHoldTheirLine, HoldsItsLine
    <3> QED
      BY <2>3, <2>4, <3>1
  <2> QED
    BY <2>5 DEF StreamsHoldTheirLine
<1>4. ASSUME NEW t \in Turns, Expire(t)
      PROVE  StreamsHoldTheirLine'
  <2>1. \A r \in Readers : reader[r].pc \in {"open", "fetched"} => reader[r].at # t
    BY <1>4 DEF Expire, Watching
  <2> QED
    BY <1>0, <1>4, <2>1 DEF Expire, StreamsHoldTheirLine, HoldsItsLine, TypeOK
<1>5. CASE Restart
  BY <1>5 DEF Restart, StreamsHoldTheirLine, HoldsItsLine, Away
<1>6. ASSUME NEW r \in Readers, Reattach(r)
      PROVE  StreamsHoldTheirLine'
  <2>1. PICK t \in Turns : t = recent
    BY <1>6 DEF Reattach, TypeOK
  <2>2. \A s \in Readers : \/ reader'[s] = reader[s]
                           \/ reader'[s] = [Away EXCEPT !.pc = "opening", !.at = t]
    BY <1>6, <2>1 DEF Reattach, Follow, TypeOK
  <2>3. buffer' = buffer
    BY <1>6 DEF Reattach
  <2>4. HoldsItsLine([Away EXCEPT !.pc = "opening", !.at = t])'
    BY <2>1 DEF HoldsItsLine, Away
  <2>5. \A s \in Readers : HoldsItsLine(reader[s])'
    <3> TAKE s \in Readers
    <3>1. CASE reader'[s] = reader[s]
      BY <2>3, <3>1 DEF StreamsHoldTheirLine, HoldsItsLine
    <3> QED
      BY <2>2, <2>4, <3>1
  <2> QED
    BY <2>5 DEF StreamsHoldTheirLine
<1>7. ASSUME NEW r \in Readers, Subscribe(r) \/ Deliver(r) \/ Leave(r)
      PROVE  StreamsHoldTheirLine'
  <2>1. buffer' = buffer /\ \A s \in Readers : s # r => reader'[s] = reader[s]
    BY <1>7 DEF Subscribe, Deliver, Leave, TypeOK
  <2>2. CASE Subscribe(r)
    <3>1. CASE buffer[reader[r].at].live
      <4>1. reader'[r] = [reader[r] EXCEPT !.pc = "open"] /\ reader[r].pc = "opening"
        BY <2>2, <3>1 DEF Subscribe, TypeOK
      <4>2. reader[r].at \in Turns /\ reader[r].cursor = 0 /\ ~reader[r].finished
        BY <4>1 DEF StreamsHoldTheirLine, HoldsItsLine
      <4>3. Len(buffer[reader[r].at].events) \in Nat
        BY <4>2 DEF TypeOK, BufferStates
      <4> QED
        BY <1>0, <2>1, <3>1, <4>1, <4>2, <4>3 DEF StreamsHoldTheirLine, HoldsItsLine, StreamStates
    <3>2. CASE ~buffer[reader[r].at].live
      <4>1. reader'[r] = [reader[r] EXCEPT !.pc = "unknown"] /\ reader[r].pc = "opening"
        BY <2>2, <3>2 DEF Subscribe, TypeOK
      <4> QED
        BY <1>0, <2>1, <4>1 DEF StreamsHoldTheirLine, HoldsItsLine, StreamStates
    <3> QED
      BY <3>1, <3>2
  <2>3. CASE Deliver(r)
    <3>1. reader[r].pc = "fetched"
      BY <2>3 DEF Deliver
    <3>2. \/ reader'[r] = [reader[r] EXCEPT !.pc = "ended"] /\ reader[r].finished
          \/ reader'[r] = [reader[r] EXCEPT !.pc = "open"]
      BY <2>3 DEF Deliver, Drained, TypeOK
    <3> QED
      BY <1>0, <2>1, <3>1, <3>2 DEF StreamsHoldTheirLine, HoldsItsLine, StreamStates
  <2>4. CASE Leave(r)
    <3>1. reader'[r] = Away
      BY <2>4 DEF Leave, TypeOK
    <3> QED
      BY <2>1, <3>1 DEF StreamsHoldTheirLine, HoldsItsLine, Away
  <2> QED
    BY <1>7, <2>2, <2>3, <2>4
<1>8. ASSUME NEW r \in Readers, Fetch(r)
      PROVE  StreamsHoldTheirLine'
  <2> DEFINE b == buffer[reader[r].at]
             last == IF Pending(r) THEN b.events[Len(b.events)] ELSE reader[r].last
  <2>1. reader[r].pc = "open" /\ reader[r].at \in Turns /\ reader[r].cursor \in Nat
    BY <1>0, <1>8 DEF Fetch, StreamsHoldTheirLine, HoldsItsLine, StreamStates
  <2>2. reader'[r] = [reader[r] EXCEPT !.pc = "fetched", !.cursor = Len(b.events),
                                       !.finished = b.finished, !.last = last]
    BY <1>8 DEF Fetch, TypeOK
  <2>3. buffer' = buffer /\ \A s \in Readers : s # r => reader'[s] = reader[s]
    BY <1>8 DEF Fetch, TypeOK
  <2>4. Len(b.events) \in Nat /\ b.live /\ reader[r].cursor <= Len(b.events)
    BY <2>1 DEF TypeOK, BufferStates, StreamsHoldTheirLine, HoldsItsLine
  <2>5. Len(b.events) > 0 => last = b.events[Len(b.events)]
    BY <2>1, <2>4 DEF StreamsHoldTheirLine, HoldsItsLine, Pending
  <2>6. b.finished => Len(b.events) > 0 /\ b.events[Len(b.events)] \in LastLines
    <3>1. b.events \in Seq(Lines)
      BY <2>1 DEF TypeOK, BufferStates
    <3> QED
      BY <2>1, <3>1, EmptySeq DEF BuffersEnd
  <2>7. /\ reader'[r].pc = "fetched" /\ reader'[r].at = reader[r].at
        /\ reader'[r].cursor = Len(b.events) /\ reader'[r].finished = b.finished
        /\ reader'[r].last = last
    BY <1>0, <2>2 DEF StreamStates
  <2> HIDE DEF b, last
  <2>8. b = buffer[reader[r].at]
    BY DEF b
  <2>9. HoldsItsLine(reader[r])'
    BY <2>1, <2>3, <2>4, <2>5, <2>6, <2>7, <2>8 DEF HoldsItsLine
  <2>10. \A s \in Readers \ {r} : HoldsItsLine(reader[s])'
    BY <2>3 DEF StreamsHoldTheirLine, HoldsItsLine
  <2> QED
    BY <2>9, <2>10 DEF StreamsHoldTheirLine
<1> QED
  BY <1>1, <1>2, <1>3, <1>4, <1>5, <1>6, <1>7, <1>8 DEF Next, StreamStep, vars

-----------------------------------------------------------------------------
(***************************************************************************)
(* What a task may do to the transcript: append its block, once.           *)
(***************************************************************************)
LogGrows == Len(log) <= Len(log') /\ \A i \in 1..Len(log) : log'[i] = log[i]

Appends(t) ==
    /\ Len(log) = turn[t].start /\ turn[t].seqd /\ Len(log) < Len(log') /\ LogGrows
    /\ \A i \in (Len(log) + 1)..Len(log') : log'[i].turn = t
    /\ turn'[t].pc \in {"saved", "over"}
    /\ turn'[t].pc = "saved" /\ turn[t].digest # {} => log'[Len(log) + 1].kind = "summary"

LEMMA SavedAppends ==
    ASSUME TypeOK, NEW t \in Turns, NEW block \in Seq(RowStates), Len(block) > 0,
           \A i \in 1..Len(block) : block[i].turn = t,
           turn[t].digest # {} /\ turn'[t].pc = "saved" => block[1].kind = "summary",
           log' = Saved(t, block), turn[t].seqd, turn'[t].pc \in {"saved", "over"}
    PROVE  Appends(t) \/ log' = log
<1>1. CASE Len(log) # turn[t].start
  BY <1>1 DEF Saved
<1>2. CASE Len(log) = turn[t].start
  <2>1. Len(log) \in Nat /\ Len(block) \in Nat
    BY DEF TypeOK
  <2>2. Len(log') = Len(log) + Len(block)
    BY <1>2, SavedGrows
  <2>3. \A i \in 1..Len(block) : log'[Len(log) + i] = block[i]
    BY <1>2, SavedGrows
  <2>4. \A i \in (Len(log) + 1)..Len(log') : log'[i].turn = t
    <3> TAKE i \in (Len(log) + 1)..Len(log')
    <3>1. i - Len(log) \in 1..Len(block) /\ Len(log) + (i - Len(log)) = i
      BY <2>1, <2>2
    <3> QED
      BY <2>3, <3>1
  <2>5. LogGrows
    BY SavedGrows DEF LogGrows
  <2>6. log'[Len(log) + 1] = block[1]
    BY <2>1, <2>3
  <2> QED
    BY <1>2, <2>1, <2>2, <2>4, <2>5, <2>6 DEF Appends
<1> QED
  BY <1>1, <1>2

LEMMA TaskOnLog ==
    ASSUME TypeOK, RowsFollowTheirNumber, NEW t \in Turns, TaskStep(t)
    PROVE  Appends(t) \/ log' = log
<1>1. CASE PersistTurn(t)
  <2>1. turn[t].pc = "saving" /\ turn[t].seqd /\ turn[t].made > 0
    BY <1>1 DEF PersistTurn, RowsFollowTheirNumber, FollowsItsNumber, Numbered
  <2>2. CASE Len(log) # turn[t].start
    BY <1>1, <2>2 DEF PersistTurn, Saved
  <2>3. CASE Len(log) = turn[t].start
    <3>1. turn'[t].pc = "saved"
      BY <1>1, <2>3 DEF PersistTurn, Goto, TypeOK, TurnStates
    <3>2. log' = Saved(t, Block(t))
      BY <1>1 DEF PersistTurn
    <3> QED
      BY <2>1, <3>1, <3>2, BlockIsRows, SavedAppends
  <2> QED
    BY <2>2, <2>3
<1>2. CASE KeepMessage(t)
  <2>1. turn'[t].pc = "over"
    BY <1>2 DEF KeepMessage, Over, Gone, Unborn, TypeOK
  <2>2. CASE ~turn[t].seqd
    BY <1>2, <2>2 DEF KeepMessage
  <2>3. CASE turn[t].seqd
    <3> DEFINE kept == Row(t, "message", {<<t, 1>>})
               block == <<kept>>
    <3>1. kept \in RowStates /\ kept.turn = t
      BY BoundsAssumption DEF Row, RowStates, Messages
    <3>2. block \in Seq(RowStates) /\ Len(block) = 1 /\ block[1] = kept
      <4> HIDE DEF kept
      <4> QED
        BY <3>1
    <3>3. \A i \in 1..Len(block) : block[i].turn = t
      <4> HIDE DEF kept
      <4> QED
        BY <3>1, <3>2
    <3>4. log' = Saved(t, block)
      BY <1>2, <2>3 DEF KeepMessage
    <3> HIDE DEF block
    <3>5. Len(block) > 0 /\ turn'[t].pc # "saved"
      BY <2>1, <3>2
    <3> QED
      BY <2>1, <2>3, <3>2, <3>3, <3>4, <3>5, SavedAppends
  <2> QED
    BY <2>2, <2>3
<1>3. CASE Begin(t) \/ ReadSeq(t) \/ ReadWatermark(t) \/ LoadContext(t) \/ Answer(t) \/ CallTools(t)
           \/ Summarise(t) \/ Succeed(t) \/ AdvanceWatermark(t) \/ Complete(t) \/ Announce(t)
           \/ Fail(t) \/ CloseFailed(t) \/ AskHuman(t) \/ HumanAnswers(t)
  BY <1>3 DEF AskHuman, HumanAnswers, Begin, ReadSeq, ReadWatermark, LoadContext, Answer, CallTools, Summarise, Succeed,
              AdvanceWatermark, Complete, Announce, Fail, CloseFailed, rows
<1> QED
  BY <1>1, <1>2, <1>3 DEF TaskStep

LEMMA OthersKeepLog ==
    ASSUME \/ \E t \in Turns : Post(t) \/ Expire(t)
           \/ \E r \in Readers : Reattach(r) \/ StreamStep(r) \/ Leave(r)
           \/ Restart
    PROVE  log' = log /\ watermark' = watermark
BY DEF Post, Expire, Reattach, StreamStep, Subscribe, Fetch, Deliver, Leave, Restart, rows

LEMMA LogAlwaysGrows ==
    ASSUME TypeOK, RowsFollowTheirNumber, [Next]_vars
    PROVE  LogGrows
<1>1. Len(log) \in Nat
  BY DEF TypeOK
<1>2. log' = log => LogGrows
  BY <1>1 DEF LogGrows
<1> QED
  BY <1>2, TaskOnLog, OthersKeepLog DEF Next, vars, Appends

\* What a task does to its own record, from s to n, when it writes nothing.
Moves(s, n, end) ==
    \/ s.pc = "none" /\ n = [s EXCEPT !.pc = "starting"]
    \/ s.pc = "starting" /\ n = [s EXCEPT !.pc = "begun"]
    \/ s.pc = "begun" /\ n = [s EXCEPT !.pc = "seqd", !.start = end, !.seqd = TRUE]
    \/ s.pc = "seqd" /\ \E w : n = [s EXCEPT !.pc = "marked", !.mark = w]
    \/ s.pc = "marked" /\ \E items :
            n = [s EXCEPT !.pc = "running", !.made = 1, !.context = items]
    \/ s.pc = "running" /\ n = [s EXCEPT !.made = @ + 1]
    \/ s.pc = "running" /\ s.made < MaxMessages /\ n = [s EXCEPT !.pc = "parked"]
    \/ s.pc = "parked" /\ n = [s EXCEPT !.pc = "running", !.made = @ + 1]
    \/ s.pc = "running" /\ \E d : n = [s EXCEPT !.digest = d]
    \/ s.pc = "running" /\ n = [s EXCEPT !.pc = "saving"]
    \/ s.pc = "saved" /\ n = [s EXCEPT !.pc = "advanced"]
    \/ s.pc = "advanced" /\ n = [s EXCEPT !.pc = "completed"]
    \/ n = [s EXCEPT !.pc = "failing"]
    \/ n = [s EXCEPT !.pc = "closed"]
    \/ n = Gone

LEMMA NumberKept ==
    ASSUME NEW s \in TurnStates, NEW end \in Nat, NEW own \in SUBSET (1..end),
           FollowsItsNumber(s, own, end), NEW n, Moves(s, n, end)
    PROVE  FollowsItsNumber(n, own, end)
<1> USE DEF FollowsItsNumber, Numbered
<1>0. s.made \in Nat /\ s.start \in Nat /\ s.seqd \in BOOLEAN
  BY BoundsAssumption DEF TurnStates
<1>1. CASE n = Gone
  BY <1>1 DEF Gone, Unborn
<1>2. ASSUME NEW pc, n = [s EXCEPT !.pc = pc],
             \/ s.pc = "none" /\ pc = "starting"
             \/ s.pc = "starting" /\ pc = "begun"
             \/ s.pc = "running" /\ pc = "saving"
             \/ s.pc = "running" /\ s.made < MaxMessages /\ pc = "parked"
             \/ s.pc = "saved" /\ pc = "advanced"
             \/ s.pc = "advanced" /\ pc = "completed"
             \/ pc \in {"failing", "closed"}
      PROVE  FollowsItsNumber(n, own, end)
  <2>1. n.pc = pc /\ n.made = s.made /\ n.seqd = s.seqd /\ n.start = s.start
    BY <1>2 DEF TurnStates
  <2> QED
    BY <1>0, <1>2, <2>1
<1>3. CASE s.pc = "begun" /\ n = [s EXCEPT !.pc = "seqd", !.start = end, !.seqd = TRUE]
  BY <1>0, <1>3 DEF TurnStates
<1>4. CASE s.pc = "seqd" /\ \E w : n = [s EXCEPT !.pc = "marked", !.mark = w]
  BY <1>0, <1>4 DEF TurnStates
<1>5. CASE s.pc = "marked" /\ \E items :
               n = [s EXCEPT !.pc = "running", !.made = 1, !.context = items]
  BY <1>0, <1>5 DEF TurnStates
<1>6. CASE s.pc = "running" /\ n = [s EXCEPT !.made = @ + 1]
  BY <1>0, <1>6 DEF TurnStates
<1>8. CASE s.pc = "parked" /\ n = [s EXCEPT !.pc = "running", !.made = @ + 1]
  BY <1>0, <1>8 DEF TurnStates
<1>7. CASE s.pc = "running" /\ \E d : n = [s EXCEPT !.digest = d]
  BY <1>0, <1>7 DEF TurnStates
<1> QED
  BY <1>1, <1>2, <1>3, <1>4, <1>5, <1>6, <1>7, <1>8 DEF Moves

\* The steps that write something: the rest are moves.
LEMMA TasksMove ==
    ASSUME TypeOK, NEW t \in Turns, TaskStep(t), ~PersistTurn(t), ~KeepMessage(t)
    PROVE  Moves(turn[t], turn'[t], Len(log)) /\ log' = log
<1>0. turn \in [Turns -> TurnStates]
  BY DEF TypeOK
<1>1. CASE Begin(t) \/ Succeed(t) \/ AdvanceWatermark(t) \/ Complete(t) \/ Fail(t) \/ CloseFailed(t)
  BY <1>0, <1>1 DEF Begin, Succeed, AdvanceWatermark, Complete, Fail, CloseFailed, Goto, Moves, rows
<1>2. CASE ReadSeq(t) \/ ReadWatermark(t) \/ LoadContext(t)
  BY <1>0, <1>2 DEF ReadSeq, ReadWatermark, LoadContext, Moves, rows
<1>3. CASE Answer(t) \/ CallTools(t)
  BY <1>0, <1>3 DEF Answer, CallTools, Moves, rows
<1>6. CASE AskHuman(t)
  <2>1. turn[t].pc = "running" /\ turn'[t] = [turn[t] EXCEPT !.pc = "parked"] /\ log' = log
    BY <1>0, <1>6 DEF AskHuman, Goto, rows
  <2>2. turn[t].made < MaxMessages
    <3>1. turn[t].made \in Nat /\ turn[t].made < MaxMessages - 1
      BY <1>0, <1>6, BoundsAssumption DEF AskHuman, TurnStates
    <3> QED
      BY <3>1, BoundsAssumption
  <2> QED
    BY <2>1, <2>2 DEF Moves
<1>7. CASE HumanAnswers(t)
  <2>1. /\ turn[t].pc = "parked" /\ log' = log
        /\ turn'[t] = [turn[t] EXCEPT !.pc = "running", !.made = turn[t].made + 1]
    BY <1>0, <1>7 DEF HumanAnswers, Parked, rows
  <2> QED
    BY <2>1 DEF Moves
<1>4. CASE Summarise(t)
  <2>1. PICK k \in Splits(InRun(t)) :
          turn' = [turn EXCEPT ![t].digest = Covered(SubSeq(InRun(t), 1, k))]
    BY <1>4 DEF Summarise
  <2>2. turn'[t] = [turn[t] EXCEPT !.digest = Covered(SubSeq(InRun(t), 1, k))]
    BY <1>0, <2>1
  <2> QED
    BY <1>4, <2>2 DEF Summarise, Moves, rows
<1>5. CASE Announce(t)
  BY <1>0, <1>5 DEF Announce, Over, Moves, rows
<1> QED
  BY <1>1, <1>2, <1>3, <1>4, <1>5, <1>6, <1>7 DEF TaskStep

LEMMA RowsFollowStep ==
    ASSUME TypeOK, TypeOK', RowsFollowTheirNumber, [Next]_vars
    PROVE  RowsFollowTheirNumber'
<1> DEFINE NextFollows(t) == FollowsItsNumber(turn'[t], RowsOf(t)', Len(log'))
<1>0. /\ Len(log) \in Nat /\ Len(log') \in Nat
      /\ \A t \in Turns : turn[t] \in TurnStates /\ RowsOf(t) \in SUBSET (1..Len(log))
           /\ FollowsItsNumber(turn[t], RowsOf(t), Len(log))
  BY DEF TypeOK, RowsFollowTheirNumber, RowsOf
<1>1. LogGrows
  BY LogAlwaysGrows
<1>2. SUFFICES \A t \in Turns : NextFollows(t)
  BY DEF RowsFollowTheirNumber, FollowsItsNumber
<1> HIDE DEF NextFollows
<1>3. ASSUME NEW t \in Turns, turn'[t] = turn[t], RowsOf(t)' = RowsOf(t)
      PROVE  NextFollows(t)
  <2>1. Len(log) <= Len(log') /\ turn[t].start \in Nat
    BY <1>0, <1>1 DEF LogGrows, TurnStates
  <2>2. FollowsItsNumber(turn[t], RowsOf(t), Len(log'))
    BY <1>0, <2>1 DEF FollowsItsNumber
  <2> QED
    BY <1>3, <2>2 DEF NextFollows
<1>4. log' = log => \A t \in Turns : RowsOf(t)' = RowsOf(t)
  BY DEF RowsOf
<1>5. CASE UNCHANGED <<turn, log>>
  BY <1>3, <1>4, <1>5
<1>6. ASSUME NEW t \in Turns, log' = log, Moves(turn[t], turn'[t], Len(log))
      PROVE  NextFollows(t)
  <2>1. FollowsItsNumber(turn'[t], RowsOf(t), Len(log))
    BY <1>0, <1>6, NumberKept
  <2> QED
    BY <1>4, <1>6, <2>1 DEF NextFollows
<1>7. ASSUME NEW t \in Turns, TaskStep(t)
      PROVE  \A u \in Turns : NextFollows(u)
  <2>1. \A u \in Turns : u # t => RowsOf(u)' = RowsOf(u)
    <3>1. CASE Appends(t)
      BY <1>0, <3>1 DEF Appends, LogGrows, RowsOf
    <3> QED
      BY <1>4, <1>7, <3>1, TaskOnLog
  <2>2. \A u \in Turns : u # t => NextFollows(u)
    BY <1>3, <1>7, <2>1, TaskMoves
  <2>3. /\ turn[t] \in TurnStates /\ RowsOf(t) \in SUBSET (1..Len(log))
        /\ FollowsItsNumber(turn[t], RowsOf(t), Len(log))
    BY <1>0
  <2>4. turn \in [Turns -> TurnStates]
    BY DEF TypeOK
  <2>5. CASE PersistTurn(t)
    <3>1. turn[t].pc = "saving" /\ turn[t].seqd /\ RowsOf(t) = {} /\ turn[t].start \in Nat
      BY <2>3, <2>5 DEF PersistTurn, FollowsItsNumber, Numbered, TurnStates
    <3>2. turn'[t].pc \in {"saved", "failing"} /\ turn'[t].seqd /\ turn'[t].start = turn[t].start
      BY <2>3, <2>4, <2>5, <3>1 DEF PersistTurn, Goto, TurnStates
    <3>3. \A i \in RowsOf(t)' : turn'[t].start < i
      <4>1. CASE Appends(t)
        <5> TAKE i \in RowsOf(t)'
        <5>1. i \in 1..Len(log') /\ log'[i].turn = t
          BY DEF RowsOf
        <5>2. ~(i \in 1..Len(log))
          BY <3>1, <4>1, <5>1 DEF Appends, LogGrows, RowsOf
        <5> QED
          BY <1>0, <3>2, <4>1, <5>1, <5>2 DEF Appends
      <4>2. CASE log' = log
        BY <1>4, <3>1, <4>2
      <4> QED
        BY <1>7, <4>1, <4>2, TaskOnLog
    <3>4. turn'[t].start <= Len(log')
      BY <1>0, <1>1, <2>3, <3>1, <3>2 DEF LogGrows, FollowsItsNumber
    <3> QED
      <4>1. FollowsItsNumber(turn'[t], RowsOf(t)', Len(log'))
        BY <3>2, <3>3, <3>4 DEF FollowsItsNumber, Numbered
      <4> QED
        BY <2>2, <4>1 DEF NextFollows
  <2>6. CASE KeepMessage(t)
    <3>1. turn'[t].pc = "over" /\ ~turn'[t].seqd /\ turn'[t].made = 0
      BY <2>4, <2>6 DEF KeepMessage, Over, Gone, Unborn
    <3> QED
      <4>1. FollowsItsNumber(turn'[t], RowsOf(t)', Len(log'))
        BY <3>1 DEF FollowsItsNumber, Numbered
      <4> QED
        BY <2>2, <4>1 DEF NextFollows
  <2> QED
    BY <1>6, <1>7, <2>2, <2>5, <2>6, TasksMove
<1>8. ASSUME NEW t \in Turns, Post(t)
      PROVE  \A u \in Turns : NextFollows(u)
  <2>1. log' = log
    BY <1>8, OthersKeepLog
  <2>2. Moves(turn[t], turn'[t], Len(log))
    BY <1>8 DEF Post, TypeOK, Moves
  <2>3. NextFollows(t)
    BY <1>6, <2>1, <2>2
  <2>4. \A u \in Turns : u # t => NextFollows(u)
    BY <1>3, <1>4, <1>8, <2>1 DEF Post, TypeOK
  <2> QED
    BY <2>3, <2>4
<1>9. CASE Restart
  <2>1. \A t \in Turns : turn'[t] = turn[t] \/ Moves(turn[t], turn'[t], Len(log))
    BY <1>9 DEF Restart, Moves
  <2> QED
    BY <1>3, <1>4, <1>6, <1>9, <2>1, OthersKeepLog
<1>10. ASSUME \/ \E t \in Turns : Expire(t)
              \/ \E r \in Readers : Reattach(r) \/ StreamStep(r) \/ Leave(r)
       PROVE  \A u \in Turns : NextFollows(u)
  <2>1. turn' = turn /\ log' = log
    BY <1>10, OthersKeepLog
       DEF Expire, Reattach, StreamStep, Subscribe, Fetch, Deliver, Leave
  <2> QED
    BY <1>5, <2>1
<1> QED
  BY <1>5, <1>7, <1>8, <1>9, <1>10 DEF Next, vars

-----------------------------------------------------------------------------
(***************************************************************************)
(* The watermark and the context.  A mark is the place of a summary, and   *)
(* stays one since rows are never touched; so what a context leaves out is *)
(* behind a summary.                                                       *)
(***************************************************************************)
LEMMA MarksStep ==
    ASSUME TypeOK, RowsFollowTheirNumber, MarksAreSummaries, [Next]_vars
    PROVE  MarksAreSummaries'
<1>0. /\ Len(log) \in Nat /\ watermark \in Nat
      /\ \A t \in Turns : turn[t] \in TurnStates /\ turn[t].mark \in Nat /\ turn[t].start \in Nat
  BY DEF TypeOK, TurnStates
<1>1. LogGrows
  BY LogAlwaysGrows
<1>2. ASSUME NEW w \in Nat, MarksASummary(w)
      PROVE  w > 0 => w < Len(log') /\ log'[w + 1].kind = "summary"
  BY <1>0, <1>1, <1>2 DEF MarksASummary, LogGrows
<1>3. ASSUME NEW t \in Turns,
             turn'[t].pc = "marked" => turn[t].pc = "marked" /\ turn'[t].mark = turn[t].mark,
             turn'[t].pc = "saved" => /\ turn[t].pc = "saved" /\ turn'[t].digest = turn[t].digest
                                      /\ turn'[t].start = turn[t].start
      PROVE  /\ turn'[t].pc = "marked" => MarksASummary(turn[t].mark)'
             /\ turn'[t].pc = "saved" /\ turn'[t].digest # {} => MarksASummary(turn[t].start)'
  BY <1>0, <1>2, <1>3 DEF MarksAreSummaries, MarksASummary
<1>4. watermark' = watermark => MarksASummary(watermark)'
  BY <1>0, <1>2 DEF MarksAreSummaries, MarksASummary
<1>5. ASSUME turn' = turn, watermark' = watermark
      PROVE  MarksAreSummaries'
  BY <1>3, <1>4, <1>5 DEF MarksAreSummaries
<1>6. ASSUME NEW t \in Turns, TaskStep(t)
      PROVE  MarksAreSummaries'
  <2>0. turn \in [Turns -> TurnStates]
    BY DEF TypeOK
  <2>1. \A u \in Turns : u # t =>
          /\ turn'[u].pc = "marked" => MarksASummary(turn[u].mark)'
          /\ turn'[u].pc = "saved" /\ turn'[u].digest # {} => MarksASummary(turn[u].start)'
    BY <1>3, <1>6, TaskMoves
  <2>2. CASE ReadWatermark(t)
    <3>1. watermark' = watermark /\ turn'[t].pc = "marked" /\ turn'[t].mark = watermark
      BY <2>0, <2>2 DEF ReadWatermark, rows, TurnStates
    <3>2. MarksASummary(turn[t].mark)'
      BY <1>4, <3>1 DEF MarksASummary
    <3> QED
      BY <1>4, <2>1, <3>1, <3>2 DEF MarksAreSummaries
  <2>3. CASE PersistTurn(t)
    <3>1. /\ watermark' = watermark /\ turn[t].pc = "saving"
          /\ turn'[t].start = turn[t].start /\ turn'[t].digest = turn[t].digest
          /\ turn'[t].pc = IF Len(log) = turn[t].start THEN "saved" ELSE "failing"
      BY <2>0, <2>3 DEF PersistTurn, Goto, TurnStates
    <3>2. turn'[t].pc = "saved" => Appends(t)
      <4> SUFFICES ASSUME turn'[t].pc = "saved", log' = log PROVE FALSE
        BY <1>6, TaskOnLog
      <4>1. turn[t].made > 0 /\ Len(log) = turn[t].start
        BY <3>1 DEF RowsFollowTheirNumber, FollowsItsNumber
      <4>2. Len(Saved(t, Block(t))) = Len(log) + Len(Block(t))
        BY <4>1, BlockIsRows, SavedGrows
      <4>3. log' = Saved(t, Block(t)) /\ Len(Block(t)) > 0 /\ Len(Block(t)) \in Nat
        BY <2>3, <4>1, BlockIsRows DEF PersistTurn
      <4> QED
        BY <1>0, <4>2, <4>3
    <3>3. turn'[t].pc = "saved" /\ turn'[t].digest # {} => MarksASummary(turn[t].start)'
      BY <1>0, <3>1, <3>2 DEF Appends, MarksASummary
    <3> QED
      BY <1>4, <2>1, <3>1, <3>3 DEF MarksAreSummaries
  <2>4. CASE AdvanceWatermark(t)
    <3>1. /\ turn[t].pc = "saved" /\ turn'[t].pc = "advanced" /\ log' = log
          /\ watermark' = IF turn[t].digest = {} THEN watermark ELSE turn[t].start
      BY <2>0, <2>4 DEF AdvanceWatermark, Goto, NewWatermark, TurnStates
    <3>2. MarksASummary(watermark)'
      BY <1>4, <3>1 DEF MarksAreSummaries, MarksASummary
    <3> QED
      BY <2>1, <3>1, <3>2 DEF MarksAreSummaries
  <2>5. CASE ~ReadWatermark(t) /\ ~PersistTurn(t) /\ ~AdvanceWatermark(t)
    <3>1. watermark' = watermark
      BY <1>6, <2>5 DEF TaskStep, Begin, ReadSeq, LoadContext, Answer, CallTools, AskHuman, HumanAnswers,
            Summarise, Succeed, Complete, Announce, Fail, CloseFailed, KeepMessage, rows
    <3>2. turn'[t].pc \notin {"marked", "saved"}
      <4>1. CASE Begin(t) \/ ReadSeq(t) \/ LoadContext(t) \/ Succeed(t) \/ Complete(t) \/ Fail(t) \/ CloseFailed(t)
        BY ZenonT(60), <2>0, <4>1 DEF Begin, ReadSeq, LoadContext, Succeed, Complete, Fail, CloseFailed, Goto, TurnStates
      <4>2. CASE Answer(t) \/ CallTools(t) \/ AskHuman(t) \/ HumanAnswers(t)
        BY <2>0, <4>2 DEF Answer, CallTools, AskHuman, HumanAnswers, Goto, TurnStates
      <4>3. CASE Summarise(t)
        <5>1. PICK k \in Splits(InRun(t)) :
                turn' = [turn EXCEPT ![t].digest = Covered(SubSeq(InRun(t), 1, k))]
          BY <4>3 DEF Summarise
        <5>2. turn[t].pc = "running"
          BY <4>3 DEF Summarise
        <5> QED
          BY <2>0, <5>1, <5>2 DEF TurnStates
      <4>4. CASE Announce(t) \/ KeepMessage(t)
        BY <2>0, <4>4 DEF Announce, KeepMessage, Over, Gone, Unborn
      <4> QED
        BY <1>6, <2>5, <4>1, <4>2, <4>3, <4>4 DEF TaskStep
    <3> QED
      BY <1>4, <2>1, <3>1, <3>2 DEF MarksAreSummaries
  <2> QED
    BY <2>2, <2>3, <2>4, <2>5
<1>7. ASSUME NEW t \in Turns, Post(t)
      PROVE  MarksAreSummaries'
  <2>1. turn'[t].pc = "starting" /\ \A u \in Turns : u # t => turn'[u] = turn[u]
    BY <1>7 DEF Post, TypeOK, TurnStates
  <2>2. watermark' = watermark
    BY <1>7, OthersKeepLog
  <2> QED
    BY <1>3, <1>4, <2>1, <2>2 DEF MarksAreSummaries
<1>8. CASE Restart
  <2>1. \A t \in Turns : turn'[t] = turn[t] \/ turn'[t].pc = "over"
    BY <1>8 DEF Restart, Gone, Unborn
  <2>2. watermark' = watermark
    BY <1>8, OthersKeepLog
  <2> QED
    BY <1>3, <1>4, <2>1, <2>2 DEF MarksAreSummaries
<1>9. ASSUME \/ \E t \in Turns : Expire(t)
             \/ \E r \in Readers : Reattach(r) \/ StreamStep(r) \/ Leave(r)
      PROVE  MarksAreSummaries'
  <2>1. turn' = turn /\ watermark' = watermark
    BY <1>9, OthersKeepLog DEF Expire, Reattach, StreamStep, Subscribe, Fetch, Deliver, Leave
  <2> QED
    BY <1>5, <2>1
<1> QED
  BY <1>5, <1>6, <1>7, <1>8, <1>9 DEF Next, vars

LEMMA ContextStep ==
    ASSUME TypeOK, RowsFollowTheirNumber, MarksAreSummaries, ContextMissesNothingRecent, [Next]_vars
    PROVE  ContextMissesNothingRecent'
<1>0. /\ Len(log) \in Nat
      /\ \A t \in Turns : turn[t] \in TurnStates /\ turn[t].start \in Nat /\ turn[t].mark \in Nat
  BY SMTT(60) DEF TypeOK, TurnStates
<1>1. LogGrows
  BY LogAlwaysGrows
<1>2. \A t \in Turns : turn[t].made > 0 => turn[t].start <= Len(log)
  BY DEF RowsFollowTheirNumber, FollowsItsNumber
<1>3. \A i \in 1..Len(log) : Summarised(i) => Summarised(i)'
  BY <1>0, <1>1 DEF Summarised, LogGrows
<1>4. ASSUME NEW t \in Turns, turn'[t].made > 0 => turn[t].made > 0,
             turn'[t].start = turn[t].start \/ turn'[t].made = 0, turn'[t].context = turn[t].context \/ turn'[t].made = 0
      PROVE  turn'[t].made > 0 => \A i \in 1..turn'[t].start :
                \/ Summarised(i)' \/ log'[i].kind = "summary"
                \/ log'[i].holds \subseteq Covered(turn'[t].context)
  BY <1>0, <1>1, <1>2, <1>3, <1>4 DEF ContextMissesNothingRecent, LogGrows
<1>5. CASE turn' = turn
  BY <1>4, <1>5 DEF ContextMissesNothingRecent, Covered
<1>6. ASSUME NEW t \in Turns, TaskStep(t)
      PROVE  ContextMissesNothingRecent'
  <2>0. turn \in [Turns -> TurnStates]
    BY DEF TypeOK
  <2>1. \A u \in Turns : u # t => turn'[u] = turn[u]
    BY <1>6, TaskMoves
  <2>2. CASE LoadContext(t)
    <3> DEFINE mark == turn[t].mark
               items == Context(mark)
    <3>1. /\ turn[t].pc = "marked" /\ turn'[t].context = items /\ log' = log
          /\ turn'[t].start = turn[t].start
      BY <2>0, <2>2 DEF LoadContext, TurnStates, rows
    <3>2. turn[t].start <= Len(log) /\ mark \in Nat
      BY <1>0, <3>1 DEF RowsFollowTheirNumber, FollowsItsNumber, Numbered
    <3>3. MarksASummary(mark)
      BY <3>1 DEF MarksAreSummaries
    <3>4. \A i \in 1..turn[t].start : i <= mark => Summarised(i)
      BY <1>0, <3>2, <3>3 DEF MarksASummary, Summarised
    <3>5. \A i \in 1..turn[t].start : i > mark /\ log[i].kind = "message" =>
            \E k \in 1..Len(items) : items[k] = log[i].holds
      <4>1. \A i \in 1..Len(log) : i > mark /\ log[i].kind = "message" =>
              \E k \in 1..Len(items) : items[k] = log[i].holds
        BY <3>2, ContextTyped
      <4> HIDE DEF items, mark
      <4> QED
        BY <1>0, <3>2, <4>1
    <3>6. \A i \in 1..turn[t].start : log[i].kind \in {"message", "summary"}
      <4> TAKE i \in 1..turn[t].start
      <4>1. log[i] \in RowStates
        <5>1. log \in Seq(RowStates)
          BY DEF TypeOK
        <5>2. i \in 1..Len(log)
          BY <1>0, <3>2
        <5> QED
          BY <5>1, <5>2, ElementOfSeq
      <4> QED
        BY <4>1 DEF RowStates
    <3>7. \A i \in 1..turn[t].start :
            Summarised(i) \/ log[i].kind = "summary" \/ log[i].holds \subseteq Covered(items)
      <4> HIDE DEF items
      <4> QED
        BY <1>0, <3>2, <3>4, <3>5, <3>6 DEF Covered
    <3>8. \A i \in 1..turn'[t].start :
            Summarised(i)' \/ log'[i].kind = "summary" \/ log'[i].holds \subseteq Covered(turn'[t].context)
      <4> HIDE DEF items
      <4> QED
        BY <3>1, <3>7 DEF Summarised
    <3> QED
      BY <1>4, <2>1, <3>8 DEF ContextMissesNothingRecent, Covered
  <2>3. CASE ~LoadContext(t)
    <3>1. /\ turn'[t].made > 0 => turn[t].made > 0
          /\ turn'[t].start = turn[t].start \/ turn'[t].made = 0
          /\ turn'[t].context = turn[t].context \/ turn'[t].made = 0
      <4>1. CASE Begin(t)
        BY <2>0, <4>1 DEF Begin, Goto, TurnStates
      <4>6. CASE ReadWatermark(t)
        BY <2>0, <4>6 DEF ReadWatermark, Goto, TurnStates
      <4>7. CASE Succeed(t) \/ Complete(t)
        BY <2>0, <4>7 DEF Succeed, Complete, Goto, TurnStates
      <4>8. CASE Fail(t) \/ CloseFailed(t)
        BY <2>0, <4>8 DEF Fail, CloseFailed, Goto, TurnStates
      <4>9. CASE PersistTurn(t) \/ AdvanceWatermark(t)
        BY <2>0, <4>9 DEF PersistTurn, AdvanceWatermark, Goto, TurnStates
      <4>2. CASE ReadSeq(t)
        <5>1. turn[t].made = 0
          BY <4>2 DEF ReadSeq, RowsFollowTheirNumber, FollowsItsNumber
        <5> QED
          BY <2>0, <4>2, <5>1 DEF ReadSeq, TurnStates
      <4>3. CASE Answer(t) \/ CallTools(t) \/ AskHuman(t) \/ HumanAnswers(t)
        <5>1. turn[t].made > 0
          BY <4>3 DEF Answer, CallTools, AskHuman, HumanAnswers, Parked, RowsFollowTheirNumber,
                      FollowsItsNumber
        <5> QED
          BY <2>0, <4>3, <5>1 DEF Answer, CallTools, AskHuman, HumanAnswers, Goto, TurnStates
      <4>4. CASE Summarise(t)
        <5>1. PICK k \in Splits(InRun(t)) :
                turn' = [turn EXCEPT ![t].digest = Covered(SubSeq(InRun(t), 1, k))]
          BY <4>4 DEF Summarise
        <5> QED
          BY <2>0, <5>1 DEF TurnStates
      <4>5. CASE Announce(t) \/ KeepMessage(t)
        BY <2>0, <4>5 DEF Announce, KeepMessage, Over, Gone, Unborn
      <4> QED
        BY <1>6, <2>3, <4>1, <4>2, <4>3, <4>4, <4>5, <4>6, <4>7, <4>8, <4>9 DEF TaskStep
    <3> QED
      BY <1>4, <2>1, <3>1 DEF ContextMissesNothingRecent, Covered
  <2> QED
    BY <2>2, <2>3
<1>7. ASSUME NEW t \in Turns, Post(t)
      PROVE  ContextMissesNothingRecent'
  <2>1. /\ turn'[t].made = turn[t].made /\ turn'[t].start = turn[t].start
        /\ turn'[t].context = turn[t].context /\ \A u \in Turns : u # t => turn'[u] = turn[u]
    BY <1>7 DEF Post, TypeOK, TurnStates
  <2> QED
    BY <1>4, <2>1 DEF ContextMissesNothingRecent, Covered
<1>8. CASE Restart
  <2>1. \A t \in Turns : turn'[t] = turn[t] \/ turn'[t].made = 0
    BY <1>8 DEF Restart, Gone, Unborn
  <2> QED
    BY <1>4, <2>1 DEF ContextMissesNothingRecent, Covered
<1>9. ASSUME \/ \E t \in Turns : Expire(t)
             \/ \E r \in Readers : Reattach(r) \/ StreamStep(r) \/ Leave(r)
      PROVE  ContextMissesNothingRecent'
  BY <1>5, <1>9 DEF Expire, Reattach, StreamStep, Subscribe, Fetch, Deliver, Leave
<1> QED
  BY <1>5, <1>6, <1>7, <1>8, <1>9 DEF Next, vars

-----------------------------------------------------------------------------
LEMMA ChatInitially == Init => ChatInv
<1> SUFFICES ASSUME Init PROVE ChatInv
  OBVIOUS
<1> DEFINE past(i) == Row(PastTurn, "message", {<<PastTurn, i>>})
<1>1. Past \in Nat /\ \A i \in 1..Past : past(i) \in RowStates /\ past(i).turn = PastTurn
  BY BoundsAssumption DEF Row, RowStates, Messages
<1> HIDE DEF past
<1>2. log = [i \in 1..Past |-> past(i)]
  BY DEF Init, past
<1>3. log \in Seq(RowStates) /\ Len(log) = Past
  BY <1>1, <1>2, SeqDef
<1>4. \A t \in Turns : RowsOf(t) = {}
  BY <1>1, <1>2, <1>3, BoundsAssumption DEF RowsOf, PastTurn, Turns
<1>5. TypeOK
  <2>1. turn \in [Turns -> TurnStates]
    BY UnbornTyped DEF Init
  <2> QED
    BY <1>1, <1>3, <2>1, BoundsAssumption
       DEF Init, TypeOK, NoBuffer, BufferStates, Away, StreamStates
<1>6. OpenBufferIsActive /\ BuffersEnd /\ StreamsHoldTheirLine
  BY DEF Init, OpenBufferIsActive, BuffersEnd, StreamsHoldTheirLine, HoldsItsLine, NoBuffer, Away,
         Unborn
<1>7. RowsFollowTheirNumber
  BY <1>4 DEF Init, RowsFollowTheirNumber, FollowsItsNumber, Unborn, Numbered
<1>8. MarksAreSummaries /\ ContextMissesNothingRecent
  BY DEF Init, MarksAreSummaries, MarksASummary, ContextMissesNothingRecent, Unborn
<1> QED
  BY <1>5, <1>6, <1>7, <1>8 DEF ChatInv

LEMMA ChatStep == ChatInv /\ [Next]_vars => ChatInv'
<1> SUFFICES ASSUME ChatInv, [Next]_vars PROVE ChatInv'
  OBVIOUS
<1>0. /\ TypeOK /\ OpenBufferIsActive /\ BuffersEnd /\ StreamsHoldTheirLine
      /\ RowsFollowTheirNumber /\ MarksAreSummaries /\ ContextMissesNothingRecent
  BY DEF ChatInv
<1>1. TypeOK'
  <2>1. CASE UNCHANGED vars
    BY <1>0, <2>1 DEF TypeOK, vars
  <2>2. ASSUME NEW t \in Turns, TaskStep(t)
        PROVE  TypeOK'
    BY <1>0, <2>2, TurnsTyped
  <2>3. CASE \/ \E t \in Turns : Post(t) \/ Expire(t)
             \/ \E r \in Readers : Reattach(r) \/ StreamStep(r) \/ Leave(r)
             \/ Restart
    BY <1>0, <2>3, RouteTyped
  <2> QED
    BY <2>1, <2>2, <2>3 DEF Next
<1> QED
  BY <1>0, <1>1, OpenBufferStep, BuffersEndStep, StreamsStep, RowsFollowStep, MarksStep, ContextStep
     DEF ChatInv

LEMMA ChatInvariant == Spec => []ChatInv
  BY ChatInitially, ChatStep, PTL DEF Spec

(***************************************************************************)
(* However turns time out unwatched, finish late or start over one         *)
(* another, an open buffer is the active turn's, so that the guard of the  *)
(* post sees it; and a stream that ends by itself has delivered the turn's *)
(* last line, whenever the turn closes (SessionTurnManager and its         *)
(* subscribe).                                                             *)
(***************************************************************************)
THEOREM ChatStreamsFollowTheirTurn == Spec => []StreamsFollowTheirTurn
<1>1. ChatInv => StreamsFollowTheirTurn
  BY DEF ChatInv, StreamsFollowTheirTurn, StreamEndsWithTheTurn, StreamsHoldTheirLine, HoldsItsLine,
         LastLines
<1> QED
  BY <1>1, ChatInvariant, PTL

(***************************************************************************)
(* What a turn hands to the model leaves out no message of the transcript  *)
(* that no summary follows, though the watermark is moved in a transaction *)
(* of its own, after the summary, and maybe never (load_context_messages,  *)
(* persist_turn_messages, advance_watermark).                              *)
(***************************************************************************)
THEOREM ContextIsComplete == Spec => []ContextMissesNothingRecent
<1>1. ChatInv => ContextMissesNothingRecent
  BY DEF ChatInv
<1> QED
  BY <1>1, ChatInvariant, PTL

(***************************************************************************)
(* The transcript of a session is what ChatHistory promises: turns that    *)
(* save twice, or that read the same end, still add one block each at the  *)
(* end, and a block once added is never touched (next_seq and the row key  *)
(* of persist_turn_messages).                                              *)
(***************************************************************************)
THEOREM TranscriptIsAppendOnly == Spec => HistorySpec
<1>1. Init => History!Init
  <2> SUFFICES ASSUME Init PROVE History!Init
    OBVIOUS
  <2>1. ChatInv
    BY ChatInitially
  <2>2. \A t \in Turns : RowsOf(t) = {}
    BY <2>1, BoundsAssumption
       DEF Init, ChatInv, RowsFollowTheirNumber, FollowsItsNumber, Unborn
  <2> QED
    BY <2>2 DEF History!Init, History!By, RowsOf
<1>2. ChatInv /\ [Next]_vars => [History!Next]_log
  <2> SUFFICES ASSUME ChatInv, [Next]_vars PROVE History!Next \/ log' = log
    OBVIOUS
  <2>0. TypeOK /\ RowsFollowTheirNumber
    BY DEF ChatInv
  <2>1. CASE UNCHANGED vars
    BY <2>1 DEF vars
  <2>2. CASE \/ \E t \in Turns : Post(t) \/ Expire(t)
             \/ \E r \in Readers : Reattach(r) \/ StreamStep(r) \/ Leave(r)
             \/ Restart
    BY <2>2, OthersKeepLog
  <2>3. ASSUME NEW t \in Turns, TaskStep(t)
        PROVE  History!Next \/ log' = log
    <3> SUFFICES ASSUME Appends(t) PROVE History!Write(t)
      BY <2>0, <2>3, TaskOnLog DEF History!Next
    <3>0. log \in Seq(RowStates) /\ log' \in Seq(RowStates) /\ Len(log) \in Nat /\ Len(log') \in Nat
      <4>1. TypeOK'
        BY <2>0, <2>3, TurnsTyped
      <4> QED
        BY <2>0, <4>1 DEF TypeOK
    <3>1. History!By(t) = {}
      BY <2>0, <3>0 DEF History!By, Appends, RowsFollowTheirNumber, FollowsItsNumber, RowsOf
    <3>2. SubSeq(log', 1, Len(log)) = log
      <4>1. Len(log) <= Len(log') /\ \A i \in 1..Len(log) : log'[i] = log[i]
        BY DEF Appends, LogGrows
      <4>2. /\ SubSeq(log', 1, Len(log)) \in Seq(RowStates)
            /\ Len(SubSeq(log', 1, Len(log))) = Len(log)
            /\ \A i \in 1..Len(log) : SubSeq(log', 1, Len(log))[i] = log'[i]
        BY <3>0, <4>1, SubSeqProperties
      <4> QED
        BY <3>0, <4>1, <4>2, SeqEqual
    <3> QED
      BY <3>1, <3>2 DEF History!Write, Appends
  <2> QED
    BY <2>1, <2>2, <2>3 DEF Next
<1> QED
  BY <1>1, <1>2, ChatInvariant, PTL DEF Spec, HistorySpec, History!Spec
=============================================================================
