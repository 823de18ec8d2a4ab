-------------------------- MODULE ConfirmationGate --------------------------
(***************************************************************************)
(* What is expensive is estimated before it runs, and over a threshold a   *)
(* human has to agree: people by asking again with confirm=true, which the *)
(* backfill takes only with the token of what was shown, and agents with   *)
(* an approval that their human gave out of band.  The model has what mail *)
(* and leads guard this way: the start and the growth of a campaign, the   *)
(* backup of a mailbox, the embedding of a backlog.                        *)
(*                                                                         *)
(* Sizes are near one magnitude, where all buckets are equally wide.  A    *)
(* request runs the gate in one step and commits in another.               *)
(***************************************************************************)
EXTENDS Integers, FiniteSets, FiniteSetsExt

CONSTANTS
    Requests,       \* slots for requests that may overlap
    Batches,        \* recipients a list adds to a campaign
    Drafts,         \* recipients a campaign is created with
    ConfirmationThreshold,  \* confirmation_threshold
    Width,          \* of a bucket of estimates
    ApprovalTTL,    \* _APPROVAL_TTL_SECONDS_DEFAULT
    MaxSize         \* bound: size of anything

Tolerance == 1      \* _BUCKET_TOLERANCE
Unasked == [op |-> "none"]

ASSUME GateAssumption ==
    /\ {ConfirmationThreshold, ApprovalTTL, MaxSize} \subseteq Nat /\ ConfirmationThreshold <= MaxSize
    /\ Width \in Nat \ {0}
    /\ Batches \subseteq 1..MaxSize /\ Drafts \subseteq 0..MaxSize

VARIABLES
    campaign,   \* its status, recipients, and how many of them were mailed
    mailbox,    \* its size, the estimate in its row, whether a backup is authorized
    backlog,    \* leads without an embedding
    inflight,   \* per request: what passed the gate and is not committed yet
    shown,      \* what the last 409 of a backfill showed to the human
    approval,   \* the agent's call that waits for its human, or goes on with a token
    agreed,     \* history: recipients a human agreed to
    raced,      \* history: recipients that others added since a growth was estimated
    ran,        \* history: what passed over the threshold just now
    about       \* what this behaviour is about: what may be asked for

gateVars == <<campaign, mailbox, backlog, inflight, shown, approval, agreed, raced, ran, about>>

GateInit ==
    /\ campaign \in [status : {"draft"}, size : Drafts, sent : {0}]
    /\ mailbox = [size |-> ConfirmationThreshold, estimate |-> 0, authorized |-> FALSE]
    /\ backlog = 0
    /\ inflight = [r \in Requests |-> Unasked]
    /\ shown = Unasked /\ approval = Unasked
    /\ agreed = 0 /\ raced = 0 /\ ran = Unasked
    /\ about \in {{"start", "grow"}, {"backfill"}, {"backup"}}

-----------------------------------------------------------------------------
(***************************************************************************)
(* The estimates, and who may ask.                                         *)
(***************************************************************************)
Unmailed == campaign.size - campaign.sent

\* Mutant: the growth is estimated by itself.
Marginal(n) == n
\* campaign_send_volume, with the new list merged.
SendVolume(n) == campaign.size + n

\* estimate_backup_bytes extrapolates from a sample.
Sampled == {s \in (mailbox.size - 1)..(mailbox.size + 1) : s > 0}

Estimates(op, n) ==
    CASE op = "start" -> {Unmailed}
      [] op = "grow" -> {SendVolume(n)}
      [] op = "backfill" -> {backlog}
      [] op = "backup" -> IF mailbox.estimate > 0 THEN {mailbox.estimate} ELSE Sampled

\* A draft needs recipients; a backup is not authorized twice.  A list is
\* taken whatever the campaign's status.
Allowed(op) ==
    /\ op = "start" => campaign.status # "over" /\ (campaign.status = "draft" => Unmailed > 0)
    /\ op = "backup" => ~mailbox.authorized

Asked ==
    {ask \in [op : about, n : Batches \cup {0}] :
        (ask.op = "grow") <=> (ask.n > 0)}

-----------------------------------------------------------------------------
(***************************************************************************)
(* require_confirmation.                                                   *)
(***************************************************************************)
Bucket(estimate) == estimate \div Width
Distance(a, b) == IF a < b THEN b - a ELSE a - b

\* verify_human_approval
Verified(op, estimate) ==
    /\ approval.op = op /\ approval.state = "approved" /\ approval.age <= ApprovalTTL
    /\ Distance(Bucket(approval.estimate), Bucket(estimate)) <= Tolerance

\* The confirm_token of what was shown; only the backfill asks for it.
TokenMatches(op, estimate) ==
    op = "backfill" => shown.op = op /\ Bucket(shown.estimate) = Bucket(estimate)

\* What is agreed to when ask passes with an estimate: recipients in all.
Volume(ask, estimate) ==
    CASE ask.op = "start" -> campaign.size [] ask.op = "grow" -> estimate [] OTHER -> 0

\* A request that passed is about to commit; a human's part in it is kept.
PassGate(r, ask, estimate, run) ==
    /\ inflight' = [inflight EXCEPT ![r] =
            [op |-> ask.op, n |-> ask.n, estimate |-> estimate, size |-> campaign.size]]
    /\ IF estimate <= ConfirmationThreshold THEN UNCHANGED agreed /\ ran' = Unasked
       ELSE /\ agreed' = Max({agreed, Volume(ask, estimate)})
            /\ ran' = run

\* origin user: confirm is what the client says.
UserAsks(r) ==
    /\ inflight[r] = Unasked
    /\ \E ask \in Asked, confirm \in BOOLEAN : \E estimate \in Estimates(ask.op, ask.n) :
        /\ Allowed(ask.op)
        /\ IF estimate <= ConfirmationThreshold \/ (confirm /\ TokenMatches(ask.op, estimate))
           THEN /\ PassGate(r, ask, estimate,
                        [op |-> ask.op, by |-> "user", estimate |-> estimate, age |-> 0,
                         shown |-> IF shown.op = ask.op THEN shown.estimate ELSE 0])
                /\ shown' = Unasked
           ELSE /\ shown' = IF ask.op = "backfill" THEN [op |-> ask.op, estimate |-> estimate]
                            ELSE Unasked
                /\ UNCHANGED <<inflight, agreed>> /\ ran' = Unasked
    /\ UNCHANGED <<campaign, mailbox, backlog, approval, raced>>

\* origin agent: confirm is ignored, and the call waits for its human.
AgentAsks(r) ==
    /\ inflight[r] = Unasked /\ approval = Unasked
    /\ \E ask \in Asked : \E estimate \in Estimates(ask.op, ask.n) :
        /\ Allowed(ask.op)
        /\ IF estimate <= ConfirmationThreshold
           THEN PassGate(r, ask, estimate, Unasked) /\ UNCHANGED approval
           ELSE /\ approval' = [op |-> ask.op, n |-> ask.n, estimate |-> estimate,
                                state |-> "pending", age |-> 0]
                /\ UNCHANGED <<inflight, agreed>> /\ ran' = Unasked
    /\ UNCHANGED <<campaign, mailbox, backlog, shown, raced>>

\* decide_approval: make_human_approval binds what the human saw.
Decide ==
    /\ approval # Unasked /\ approval.state = "pending"
    /\ approval' \in {[approval EXCEPT !.state = "approved"], Unasked}
    /\ UNCHANGED <<campaign, mailbox, backlog, inflight, shown, agreed, raced>> /\ ran' = Unasked

\* The same call again, once, with the token.
AgentRetries(r) ==
    LET ask == [op |-> approval.op, n |-> approval.n] IN
    /\ inflight[r] = Unasked /\ approval # Unasked /\ approval.state = "approved"
    /\ \E estimate \in Estimates(ask.op, ask.n) :
        IF Allowed(ask.op) /\ (estimate <= ConfirmationThreshold \/ Verified(ask.op, estimate))
        THEN PassGate(r, ask, estimate,
                  [op |-> ask.op, by |-> "agent", estimate |-> estimate,
                   shown |-> approval.estimate, age |-> approval.age])
        ELSE UNCHANGED <<inflight, agreed>> /\ ran' = Unasked
    /\ approval' = Unasked
    /\ UNCHANGED <<campaign, mailbox, backlog, shown, raced>>

-----------------------------------------------------------------------------
(***************************************************************************)
(* What runs.                                                              *)
(***************************************************************************)
Done(r) == inflight' = [inflight EXCEPT ![r] = Unasked]

Start(r) ==
    /\ inflight[r].op = "start" /\ Done(r)
    /\ campaign' = [campaign EXCEPT !.status = "running"]
    /\ UNCHANGED <<mailbox, backlog, shown, approval, agreed, raced>> /\ ran' = Unasked

Grow(r) ==
    /\ inflight[r].op = "grow" /\ Done(r)
    /\ campaign.size + inflight[r].n <= MaxSize
    /\ campaign' = [campaign EXCEPT !.size = @ + inflight[r].n]
    /\ raced' = raced + campaign.size - inflight[r].size
    /\ UNCHANGED <<mailbox, backlog, shown, approval, agreed>> /\ ran' = Unasked

Backfill(r) ==
    /\ inflight[r].op = "backfill" /\ Done(r)
    /\ backlog' = 0
    /\ UNCHANGED <<campaign, mailbox, shown, approval, agreed, raced>> /\ ran' = Unasked

Backup(r) ==
    /\ inflight[r].op = "backup" /\ Done(r)
    /\ mailbox' = [mailbox EXCEPT !.authorized = TRUE, !.estimate = inflight[r].estimate]
    /\ UNCHANGED <<campaign, backlog, shown, approval, agreed, raced>> /\ ran' = Unasked

\* backup_estimate: the row keeps what was estimated.
EstimateBackup ==
    /\ "backup" \in about /\ mailbox.estimate = 0
    /\ \E estimate \in Sampled : mailbox' = [mailbox EXCEPT !.estimate = estimate]
    /\ UNCHANGED <<campaign, backlog, inflight, shown, approval, agreed, raced>> /\ ran' = Unasked

\* _auto_backup_decision, behind the OAuth callback.
AutoBackup ==
    /\ "backup" \in about /\ mailbox.estimate = 0 /\ ~mailbox.authorized
    /\ \E estimate \in Sampled :
        mailbox' = [mailbox EXCEPT !.estimate = estimate,
                                   !.authorized = estimate <= ConfirmationThreshold]
    /\ UNCHANGED <<campaign, backlog, inflight, shown, approval, agreed, raced>> /\ ran' = Unasked

-----------------------------------------------------------------------------
(***************************************************************************)
(* Meanwhile.                                                              *)
(***************************************************************************)
Send ==
    /\ campaign.status = "running"
    /\ campaign' = IF Unmailed > 0 THEN [campaign EXCEPT !.sent = @ + 1]
                   ELSE [campaign EXCEPT !.status = "over"]
    /\ UNCHANGED <<mailbox, backlog, inflight, shown, approval, agreed, raced>> /\ ran' = Unasked

PauseOrCancel ==
    /\ "start" \in about
    /\ \/ campaign.status = "running" /\ campaign' = [campaign EXCEPT !.status = "paused"]
       \/ campaign.status # "over" /\ campaign' = [campaign EXCEPT !.status = "over"]
    /\ UNCHANGED <<mailbox, backlog, inflight, shown, approval, agreed, raced>> /\ ran' = Unasked

Accrue ==
    /\ \/ "backfill" \in about /\ backlog < MaxSize /\ backlog' = backlog + 1 /\ UNCHANGED mailbox
       \/ /\ "backup" \in about /\ mailbox.size < MaxSize
          /\ mailbox' = [mailbox EXCEPT !.size = @ + 1]
          /\ UNCHANGED backlog
    /\ UNCHANGED <<campaign, inflight, shown, approval, agreed, raced>> /\ ran' = Unasked

ApprovalAges ==
    /\ approval # Unasked /\ approval.state = "approved" /\ approval.age <= ApprovalTTL
    /\ approval' = [approval EXCEPT !.age = @ + 1]
    /\ UNCHANGED <<campaign, mailbox, backlog, inflight, shown, agreed, raced>> /\ ran' = Unasked

GateNext ==
    /\ UNCHANGED about
    /\ \/ \E r \in Requests : UserAsks(r) \/ AgentAsks(r) \/ AgentRetries(r)
       \/ \E r \in Requests : Start(r) \/ Grow(r) \/ Backfill(r) \/ Backup(r)
       \/ Decide \/ EstimateBackup \/ AutoBackup \/ Send \/ PauseOrCancel \/ Accrue \/ ApprovalAges

GateSpec == GateInit /\ [][GateNext]_gateVars

-----------------------------------------------------------------------------
GateTypeOK ==
    /\ campaign \in [status : {"draft", "running", "paused", "over"}, size : 0..MaxSize,
                     sent : 0..MaxSize]
    /\ campaign.sent <= campaign.size
    /\ mailbox \in [size : 0..MaxSize, estimate : 0..(MaxSize + 1), authorized : BOOLEAN]
    /\ backlog \in 0..MaxSize /\ {agreed, raced} \subseteq Nat

\* "This closes the bypass": however it was started, sent and grown, a
\* campaign that runs has no more recipients than the threshold, or
\* than a human agreed to, but for lists that were merged side by side.
CampaignIsAgreedTo ==
    campaign.status \in {"running", "paused"} =>
        campaign.size <= Max({ConfirmationThreshold, agreed}) + raced

\* An agent's action over the threshold is within two buckets of what its
\* human approved, while the approval is valid.
AgentsWereApproved ==
    ran # Unasked /\ ran.by = "agent" =>
        ran.age <= ApprovalTTL /\ Distance(ran.estimate, ran.shown) < (1 + Tolerance) * Width

\* A backfill over the threshold is within a bucket of what was shown.
BackfillWasShown ==
    ran.op = "backfill" /\ ran.by = "user" => Distance(ran.estimate, ran.shown) < Width

(***************************************************************************)
(* "never silently run something costly".                                  *)
(***************************************************************************)
CostsAreAgreedTo == GateTypeOK /\ CampaignIsAgreedTo /\ AgentsWereApproved /\ BackfillWasShown
=============================================================================
