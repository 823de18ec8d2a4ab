--------------------------- MODULE AgentScheduler ---------------------------
(***************************************************************************)
(* The schedules of one agents session: rows in Postgres, shared by every  *)
(* agents pod, and the captured owner tokens and the active turn, which    *)
(* each pod keeps in memory.                                               *)
(*                                                                         *)
(*   poller       select due rows; per row: serial guard, token gate,      *)
(*                claim, re-read, session lookup, spawn and republish      *)
(*   post         start a turn, re-arm the paused rows, remember tokens    *)
(*   cancel       load the row, cancel it, forget its token, publish       *)
(*   create       count the rows, insert one, remember its token, publish  *)
(*   delete       list the rows, publish their end, delete the session     *)
(*                                                                         *)
(* A step is what runs between two awaits of one task, or one transaction. *)
(* Claim and pause are single guarded UPDATEs; re-arm and cancel are ORM   *)
(* read-then-write without a lock.  Sessions share nothing else, so one    *)
(* session is enough.  Time counts minutes: the resolution of cron.        *)
(***************************************************************************)
EXTENDS Naturals, FiniteSets

CONSTANTS
    Pods,           \* agents processes that serve requests
    Pollers,        \* the pods that run the poll loop
    Once, Crons,    \* one-shot and recurring schedules
    CronTimes,      \* per recurring schedule, the minutes its expression matches
    Posts, Cancels, Creators, Deleters,     \* concurrent requests of each kind
    MaxPending,     \* schedule_max_pending_per_session
    MaxTime,        \* bound: minutes
    MaxCrashes      \* bound: pods lost

Schedules == Once \cup Crons
Clients == Posts \cup Cancels \cup Creators \cup Deleters

ASSUME PodsAssumption == Pollers \subseteq Pods
ASSUME SchedulesAssumption == Once \cap Crons = {} /\ "none" \notin Schedules
ASSUME CronAssumption == CronTimes \in [Crons -> SUBSET Nat]
ASSUME ClientsAssumption ==
    /\ Posts \cap (Cancels \cup Creators \cup Deleters) = {}
    /\ Cancels \cap (Creators \cup Deleters) = {}
    /\ Creators \cap Deleters = {}
ASSUME BoundsAssumption ==
    MaxPending \in Nat /\ MaxTime \in Nat \ {0} /\ MaxCrashes \in Nat

VARIABLES
    time,       \* the minute every clock shows
    session,    \* whether the session exists
    rows,       \* agent_schedule: status and next_run_at
    token,      \* per pod, the owner token it holds for each schedule
    turn,       \* per pod, the token of the session's active turn, or "idle"
    poller,     \* per pod, where its tick is
    req,        \* the requests in flight
    told,       \* per schedule, the status its job shows
    fired,      \* history: turns spawned per occurrence
    crashes

vars == <<time, session, rows, token, turn, poller, req, told, fired, crashes>>

Null == 0
Statuses == {"none", "scheduled", "paused", "completed", "canceled", "deleted"}
Tokens == {"none", "live", "dead"}
Ended == {"completed", "canceled"}

\* A one-shot has one occurrence, whenever it runs; a cron has one per minute it matches.
Occurrences == (Once \X {Null}) \cup (Crons \X (1..MaxTime))

IdlePoller == [phase |-> "idle", todo |-> {}, now |-> Null, job |-> "none",
               occ |-> Null, seen |-> "none"]
IdleReq == [phase |-> "idle", pod |-> "none", todo |-> {}, now |-> Null]

Init ==
    /\ time = 1
    /\ session = TRUE
    /\ rows = [s \in Schedules |-> [status |-> "none", due |-> Null]]
    /\ token = [p \in Pods |-> [s \in Schedules |-> "none"]]
    /\ turn = [p \in Pods |-> "idle"]
    /\ poller = [p \in Pods |-> IdlePoller]
    /\ req = [c \in Clients |-> IdleReq]
    /\ told = [s \in Schedules |-> "none"]
    /\ fired = [o \in Occurrences |-> 0]
    /\ crashes = 0

\* Mutant: or t itself.
NextFireOrNow(s, t) ==
    LET later == {n \in CronTimes[s] : n >= t} IN
    IF later = {} THEN Null ELSE CHOOSE n \in later : \A m \in later : n <= m

\* The first minute the cron matches strictly after t; Null when it never does again.
NextFire(s, t) ==
    LET later == {n \in CronTimes[s] : n > t} IN
    IF later = {} THEN Null ELSE CHOOSE n \in later : \A m \in later : n <= m

Having(status) == {s \in Schedules : rows[s].status = status}

Scheduled(t) == [status |-> "scheduled", due |-> t]

(***************************************************************************)
(* job_producer.publish as the jobs service shows it: an ended job takes   *)
(* no further event but another end.                                       *)
(***************************************************************************)
Tell(S, status) ==
    told' = [s \in Schedules |->
                IF s \notin S \/ (told[s] \in Ended /\ status \notin Ended)
                THEN told[s] ELSE status]

Remember(p, S, t) ==
    token' = [token EXCEPT ![p] = [s \in Schedules |-> IF s \in S /\ t # "none" THEN t ELSE @[s]]]

Forget(p, S) ==
    token' = [token EXCEPT ![p] = [s \in Schedules |-> IF s \in S THEN "none" ELSE @[s]]]

-----------------------------------------------------------------------------
(***************************************************************************)
(* One tick of a poller.  The rows are those the select returned; their    *)
(* order within the tick is left open.                                     *)
(***************************************************************************)
Due(s, now) == rows[s].status = "scheduled" /\ rows[s].due # Null /\ rows[s].due <= now

Move(p, phase) == poller' = [poller EXCEPT ![p].phase = phase]

Ticking(todo, now) == [phase |-> "ticking", todo |-> todo, now |-> now, job |-> "none",
                       occ |-> Null, seen |-> "none"]

NextRow(p) == poller' = [poller EXCEPT ![p] = Ticking(@.todo, @.now)]

Select(p) ==
    /\ poller[p].phase = "idle"
    /\ \E s \in Schedules : Due(s, time)
    /\ poller' = [poller EXCEPT ![p] = Ticking({s \in Schedules : Due(s, time)}, time)]
    /\ UNCHANGED <<time, session, rows, token, turn, req, told, fired, crashes>>

TickEnds(p) ==
    /\ poller[p].phase = "ticking" /\ poller[p].todo = {}
    /\ poller' = [poller EXCEPT ![p] = IdlePoller]
    /\ UNCHANGED <<time, session, rows, token, turn, req, told, fired, crashes>>

\* A chat is serial: a live turn on this pod defers the row to the next tick.
Defer(p, s) ==
    /\ poller[p].phase = "ticking" /\ s \in poller[p].todo
    /\ turn[p] # "idle"
    /\ poller' = [poller EXCEPT ![p].todo = @ \ {s}]
    /\ UNCHANGED <<time, session, rows, token, turn, req, told, fired, crashes>>

\* The authorization gate: an absent or expired token pauses the row instead.
Gate(p, s) ==
    /\ poller[p].phase = "ticking" /\ s \in poller[p].todo
    /\ turn[p] = "idle"
    /\ poller' = [poller EXCEPT ![p].todo = @ \ {s}, ![p].job = s,
                                ![p].phase = IF token[p][s] = "live" THEN "claiming" ELSE "pausing"]
    /\ UNCHANGED <<time, session, rows, token, turn, req, told, fired, crashes>>

\* Mutant: the pause does not look at the status it replaces.
PauseUnguarded(p) ==
    /\ poller[p].phase = "pausing"
    /\ rows' = [rows EXCEPT ![poller[p].job] = [status |-> "paused", due |-> Null]]
    /\ Move(p, "paused")
    /\ UNCHANGED <<time, session, token, turn, req, told, fired, crashes>>

\* Mutant: the token is dropped but the row is left pending.
PauseTokenOnly(p) ==
    /\ poller[p].phase = "pausing"
    /\ Move(p, "unpaused")
    /\ UNCHANGED <<time, session, rows, token, turn, req, told, fired, crashes>>

\* pause_for_reauth: UPDATE ... WHERE status = 'scheduled'.
Pause(p) ==
    LET s == poller[p].job IN
    /\ poller[p].phase = "pausing"
    /\ IF rows[s].status = "scheduled"
       THEN /\ rows' = [rows EXCEPT ![s] = [status |-> "paused", due |-> Null]]
            /\ Move(p, "paused")
       ELSE Move(p, "unpaused") /\ UNCHANGED rows
    /\ UNCHANGED <<time, session, token, turn, req, told, fired, crashes>>

\* The re-read of a paused row; it may have come before or after a delete.
PauseReturns(p) ==
    LET s == poller[p].job IN
    /\ poller[p].phase \in {"paused", "unpaused"}
    /\ Forget(p, {s})
    /\ \/ Tell(IF poller[p].phase = "paused" THEN {s} ELSE {}, "paused")
       \/ rows[s].status = "deleted" /\ UNCHANGED told
    /\ NextRow(p)
    /\ UNCHANGED <<time, session, rows, turn, req, fired, crashes>>

Advanced(s, now) ==
    IF s \in Crons /\ NextFire(s, now) # Null
    THEN Scheduled(NextFire(s, now)) ELSE [status |-> "completed", due |-> Null]

\* Mutant: the claim checks that the row is due but not that it is still scheduled.
ClaimAnyStatus(p) ==
    LET s == poller[p].job
        now == poller[p].now IN
    /\ poller[p].phase = "claiming"
    /\ IF rows[s].status # "deleted" /\ rows[s].due <= now
       THEN /\ rows' = [rows EXCEPT ![s] = Advanced(s, now)]
            /\ poller' = [poller EXCEPT ![p].phase = "claimed",
                                        ![p].occ = IF s \in Once THEN Null ELSE rows[s].due]
       ELSE NextRow(p) /\ UNCHANGED rows
    /\ UNCHANGED <<time, session, token, turn, req, told, fired, crashes>>

(***************************************************************************)
(* claim_due_schedule: one UPDATE whose WHERE is re-evaluated against the  *)
(* row as the last committed transaction left it.                          *)
(***************************************************************************)
Claim(p) ==
    LET s == poller[p].job
        now == poller[p].now IN
    /\ poller[p].phase = "claiming"
    /\ IF Due(s, now)
       THEN /\ rows' = [rows EXCEPT ![s] = Advanced(s, now)]
            /\ poller' = [poller EXCEPT ![p].phase = "claimed",
                                        ![p].occ = IF s \in Once THEN Null ELSE rows[s].due]
       ELSE NextRow(p) /\ UNCHANGED rows
    /\ UNCHANGED <<time, session, token, turn, req, told, fired, crashes>>

\* The claim's second transaction; a row that has gone counts as not claimed.
Reread(p) ==
    LET status == rows[poller[p].job].status IN
    /\ poller[p].phase = "claimed"
    /\ IF status = "deleted" THEN NextRow(p)
       ELSE poller' = [poller EXCEPT ![p].phase = "reread", ![p].seen = status]
    /\ UNCHANGED <<time, session, rows, token, turn, req, told, fired, crashes>>

LookUpSession(p) ==
    /\ poller[p].phase = "reread"
    /\ Move(p, IF session THEN "found" ELSE "orphan")
    /\ UNCHANGED <<time, session, rows, token, turn, req, told, fired, crashes>>

\* The session has gone, and with it the row: cancel_schedule finds nothing.
Orphaned(p) ==
    /\ poller[p].phase = "orphan"
    /\ Forget(p, {poller[p].job})
    /\ Tell({poller[p].job}, "canceled")
    /\ NextRow(p)
    /\ UNCHANGED <<time, session, rows, turn, req, fired, crashes>>

\* Mutant: whatever fired is published as completed.
RepublishedCompleted(p) == "completed"

\* _republish_after_claim, by the status the re-read returned.
Republished(p) ==
    IF poller[p].seen \in {"scheduled", "canceled"} THEN poller[p].seen ELSE "completed"

Dropped(p) == IF Republished(p) = "scheduled" THEN {} ELSE {poller[p].job}

\* start_turn, the token, the spawn and the publications, with no suspension between.
Spawn(p) ==
    LET s == poller[p].job IN
    /\ poller[p].phase = "found" /\ turn[p] = "idle"
    /\ turn' = [turn EXCEPT ![p] = token[p][s]]
    /\ fired' = [fired EXCEPT ![<<s, poller[p].occ>>] = @ + 1]
    /\ Forget(p, Dropped(p) \cup ({s} \cap Once))
    /\ Tell({s}, Republished(p))
    /\ NextRow(p)
    /\ UNCHANGED <<time, session, rows, req, crashes>>

\* A turn came onto the session after the claim: the occurrence is skipped.
SpawnRefused(p) ==
    /\ poller[p].phase = "found" /\ turn[p] # "idle"
    /\ Forget(p, Dropped(p))
    /\ Tell({poller[p].job}, Republished(p))
    /\ NextRow(p)
    /\ UNCHANGED <<time, session, rows, turn, req, fired, crashes>>

PollerStep(p) ==
    \/ Select(p) \/ TickEnds(p)
    \/ \E s \in Schedules : Defer(p, s) \/ Gate(p, s)
    \/ Pause(p) \/ PauseReturns(p)
    \/ Claim(p) \/ Reread(p) \/ LookUpSession(p) \/ Orphaned(p) \/ Spawn(p) \/ SpawnRefused(p)

-----------------------------------------------------------------------------
(***************************************************************************)
(* post_message: a turn on this pod under the poster's token, then         *)
(* rearm_paused_for_session.                                               *)
(***************************************************************************)
Serve(c, phase, p, S) ==
    req' = [req EXCEPT ![c] = [phase |-> phase, pod |-> p, todo |-> S, now |-> time]]

Answered(c) == req' = [req EXCEPT ![c] = IdleReq]

Post(c, p) ==
    /\ req[c] = IdleReq
    /\ session /\ turn[p] = "idle"
    /\ turn' = [turn EXCEPT ![p] = "live"]
    /\ Serve(c, "posted", p, {})
    /\ UNCHANGED <<time, session, rows, token, poller, told, fired, crashes>>

RearmRead(c) ==
    /\ req[c].phase = "posted"
    /\ IF Having("paused") = {} THEN Answered(c)
       ELSE Serve(c, "rearming", req[c].pod, Having("paused"))
    /\ UNCHANGED <<time, session, rows, token, turn, poller, told, fired, crashes>>

\* An exhausted cron is completed; its next_run_at was NULL when loaded, so it is not written.
Rearmed(s, now) ==
    IF s \in Once THEN Scheduled(now)
    ELSE IF NextFire(s, now) # Null THEN Scheduled(NextFire(s, now))
    ELSE [status |-> "completed", due |-> rows[s].due]

\* The flush: one row that has gone fails the whole commit.
RearmCommit(c) ==
    LET S == req[c].todo
        new == [s \in S |-> Rearmed(s, req[c].now)] IN
    /\ req[c].phase = "rearming"
    /\ IF S \cap Having("deleted") # {} THEN Answered(c) /\ UNCHANGED rows
       ELSE /\ rows' = [s \in Schedules |-> IF s \in S THEN new[s] ELSE rows[s]]
            /\ req' = [req EXCEPT ![c].phase = "rearmed",
                                  ![c].todo = {s \in S : new[s].status = "scheduled"}]
    /\ UNCHANGED <<time, session, token, turn, poller, told, fired, crashes>>

RearmReturns(c) ==
    /\ req[c].phase = "rearmed"
    /\ Remember(req[c].pod, req[c].todo, "live")
    /\ Tell(req[c].todo, "scheduled")
    /\ Answered(c)
    /\ UNCHANGED <<time, session, rows, turn, poller, fired, crashes>>

PostStep(c) ==
    (\E p \in Pods : Post(c, p)) \/ RearmRead(c) \/ RearmCommit(c) \/ RearmReturns(c)

(***************************************************************************)
(* A cancel from the jobs view: cancel_schedule, then forget and publish.  *)
(***************************************************************************)
\* Mutant: the token is forgotten before the cancel is committed.
CancelForgets(c, p, s) ==
    /\ req[c] = IdleReq
    /\ rows[s].status = "scheduled"
    /\ Serve(c, "canceling", p, {s})
    /\ Forget(p, {s})
    /\ UNCHANGED <<time, session, rows, turn, poller, told, fired, crashes>>

CancelRead(c, p, s) ==
    /\ req[c] = IdleReq
    /\ rows[s].status = "scheduled"
    /\ Serve(c, "canceling", p, {s})
    /\ UNCHANGED <<time, session, rows, token, turn, poller, told, fired, crashes>>

CancelCommit(c) ==
    LET S == req[c].todo IN
    /\ req[c].phase = "canceling"
    /\ IF S \cap Having("deleted") # {} THEN Answered(c) /\ UNCHANGED rows
       ELSE /\ rows' = [s \in Schedules |->
                            IF s \in S THEN [status |-> "canceled", due |-> Null] ELSE rows[s]]
            /\ req' = [req EXCEPT ![c].phase = "canceled"]
    /\ UNCHANGED <<time, session, token, turn, poller, told, fired, crashes>>

\* The refresh after the commit raises if the row has gone by then.
CancelReturns(c) ==
    /\ req[c].phase = "canceled"
    /\ \/ Forget(req[c].pod, req[c].todo) /\ Tell(req[c].todo, "canceled")
       \/ req[c].todo \cap Having("deleted") # {} /\ UNCHANGED <<token, told>>
    /\ Answered(c)
    /\ UNCHANGED <<time, session, rows, turn, poller, fired, crashes>>

CancelStep(c) ==
    \/ \E p \in Pods, s \in Schedules : CancelRead(c, p, s)
    \/ CancelCommit(c) \/ CancelReturns(c)

(***************************************************************************)
(* The schedule_agent_job tool of a running turn.  Tool calls of one turn  *)
(* run concurrently.                                                       *)
(***************************************************************************)
\* Mutant: a paused row does not hold a slot.
ActiveScheduledOnly == Having("scheduled")

Active == Having("scheduled") \cup Having("paused")

CreateCheck(c, p, s) ==
    /\ req[c] = IdleReq
    /\ turn[p] # "idle"
    /\ rows[s].status = "none" /\ \A d \in Creators : s \notin req[d].todo
    /\ Cardinality(Active) < MaxPending
    /\ s \in Crons => NextFire(s, time) # Null
    /\ Serve(c, "creating", p, {s})
    /\ UNCHANGED <<time, session, rows, token, turn, poller, told, fired, crashes>>

\* The insert fails on its foreign key when the session has gone.
CreateCommit(c) ==
    LET now == req[c].now IN
    /\ req[c].phase = "creating"
    /\ IF ~session THEN Answered(c) /\ UNCHANGED rows
       ELSE \E s \in req[c].todo :
            /\ \E t \in IF s \in Once THEN (now + 1)..MaxTime ELSE {NextFire(s, now)} :
                    rows' = [rows EXCEPT ![s] = Scheduled(t)]
            /\ req' = [req EXCEPT ![c].phase = "created"]
    /\ UNCHANGED <<time, session, token, turn, poller, told, fired, crashes>>

CreateReturns(c) ==
    LET p == req[c].pod IN
    /\ req[c].phase = "created"
    /\ \/ Remember(p, req[c].todo, turn[p]) /\ Tell(req[c].todo, "scheduled")
       \/ req[c].todo \cap Having("deleted") # {} /\ UNCHANGED <<token, told>>
    /\ Answered(c)
    /\ UNCHANGED <<time, session, rows, turn, poller, fired, crashes>>

CreateStep(c) ==
    \/ \E p \in Pods, s \in Schedules : CreateCheck(c, p, s)
    \/ CreateCommit(c) \/ CreateReturns(c)

(***************************************************************************)
(* delete_session: the pending schedules end on the jobs stream, then the  *)
(* delete takes every row of the session with it.                          *)
(***************************************************************************)
DeleteList(c, p) ==
    /\ req[c] = IdleReq
    /\ session
    /\ Serve(c, "listed", p, Having("scheduled"))
    /\ UNCHANGED <<time, session, rows, token, turn, poller, told, fired, crashes>>

DeleteTells(c) ==
    /\ req[c].phase = "listed"
    /\ Forget(req[c].pod, req[c].todo)
    /\ Tell(req[c].todo, "canceled")
    /\ req' = [req EXCEPT ![c].phase = "deleting"]
    /\ UNCHANGED <<time, session, rows, turn, poller, fired, crashes>>

DeleteCommit(c) ==
    /\ req[c].phase = "deleting"
    /\ session' = FALSE
    /\ rows' = [s \in Schedules |->
                    IF rows[s].status = "none" THEN rows[s]
                    ELSE [status |-> "deleted", due |-> Null]]
    /\ Answered(c)
    /\ UNCHANGED <<time, token, turn, poller, told, fired, crashes>>

DeleteStep(c) == (\E p \in Pods : DeleteList(c, p)) \/ DeleteTells(c) \/ DeleteCommit(c)

-----------------------------------------------------------------------------
Tick ==
    /\ time < MaxTime
    /\ time' = time + 1
    /\ UNCHANGED <<session, rows, token, turn, poller, req, told, fired, crashes>>

\* The tool calls of a turn end with it.
TurnEnds(p) ==
    /\ turn[p] # "idle"
    /\ turn' = [turn EXCEPT ![p] = "idle"]
    /\ req' = [c \in Clients |-> IF c \in Creators /\ req[c].pod = p THEN IdleReq ELSE req[c]]
    /\ UNCHANGED <<time, session, rows, token, poller, told, fired, crashes>>

\* A captured token passes its exp.
Expire(p) ==
    /\ \/ /\ turn[p] = "live"
          /\ turn' = [turn EXCEPT ![p] = "dead"]
          /\ UNCHANGED token
       \/ /\ \E s \in Schedules : token[p][s] = "live" /\ token' = [token EXCEPT ![p][s] = "dead"]
          /\ UNCHANGED turn
    /\ UNCHANGED <<time, session, rows, poller, req, told, fired, crashes>>

Crash(p) ==
    /\ crashes < MaxCrashes
    /\ crashes' = crashes + 1
    /\ token' = [token EXCEPT ![p] = [s \in Schedules |-> "none"]]
    /\ turn' = [turn EXCEPT ![p] = "idle"]
    /\ poller' = [poller EXCEPT ![p] = IdlePoller]
    /\ req' = [c \in Clients |-> IF req[c].pod = p THEN IdleReq ELSE req[c]]
    /\ UNCHANGED <<time, session, rows, told, fired>>

Next ==
    \/ Tick
    \/ \E p \in Pollers : PollerStep(p)
    \/ \E p \in Pods : TurnEnds(p) \/ Expire(p) \/ Crash(p)
    \/ \E c \in Posts : PostStep(c)
    \/ \E c \in Cancels : CancelStep(c)
    \/ \E c \in Creators : CreateStep(c)
    \/ \E c \in Deleters : DeleteStep(c)

Spec == Init /\ [][Next]_vars

(***************************************************************************)
(* Fairness: every poll loop ticks for ever (AgentScheduler._run), and its *)
(* statements return.  Nothing makes a turn end or a request arrive.       *)
(***************************************************************************)
FairSpec == Spec /\ \A p \in Pollers : WF_vars(PollerStep(p))

-----------------------------------------------------------------------------
RowType == [status : Statuses, due : Nat]

PollerType ==
    [phase : {"idle", "ticking", "pausing", "paused", "unpaused", "claiming", "claimed",
              "reread", "found", "orphan"},
     todo : SUBSET Schedules, now : 0..MaxTime, job : Schedules \cup {"none"},
     occ : 0..MaxTime, seen : Statuses]

ReqType ==
    [phase : {"idle", "posted", "rearming", "rearmed", "canceling", "canceled", "creating",
              "created", "listed", "deleting"},
     pod : Pods \cup {"none"}, todo : SUBSET Schedules, now : 0..MaxTime]

(* Every variable holds values of the kind the code gives it. *)
TypeOK ==
    /\ time \in 1..MaxTime
    /\ session \in BOOLEAN
    /\ rows \in [Schedules -> RowType]
    /\ token \in [Pods -> [Schedules -> Tokens]]
    /\ turn \in [Pods -> Tokens \cup {"idle"}]
    /\ poller \in [Pods -> PollerType]
    /\ req \in [Clients -> ReqType]
    /\ told \in [Schedules -> Statuses]
    /\ fired \in [Occurrences -> Nat]
    /\ crashes \in 0..MaxCrashes

(***************************************************************************)
(* No occurrence of a schedule runs twice, whichever pods poll and         *)
(* whatever crashes (scheduler.py: the atomic claim guarantees no double   *)
(* turn).                                                                  *)
(***************************************************************************)
AtMostOnce == \A o \in Occurrences : fired[o] <= 1

Ledger == INSTANCE FiringLedger WITH Occurrences <- Occurrences, fired <- fired

(* The same as an implementation of the abstract ledger: each step of the  *)
(* scheduler ticks off at most one occurrence, for the first time.         *)
LedgerSpec == Ledger!Spec

\* The owner has taken the schedule back: it was cancelled or went with its session,
\* or this pod has announced its end and is about to delete the session.
Withdrawn(p, s) ==
    \/ rows[s].status \in {"canceled", "deleted"}
    \/ \E c \in Deleters :
          req[c].phase = "deleting" /\ req[c].pod = p /\ s \in req[c].todo

(***************************************************************************)
(* A firing runs without its owner's token, under the service identity,    *)
(* only if the owner took the schedule back between the token gate and the *)
(* turn (_fire, steps 2 and 6): no restart, expiry, pause, other firing or *)
(* post makes one.  The comment of the gate says there is none at all; a   *)
(* cancel or a delete in between is not looked for again.                  *)
(***************************************************************************)
OwnerPresent ==
    [][\A p \in Pods :
          turn[p] = "idle" /\ turn'[p] = "none" => Withdrawn(p, poller[p].job)]_vars

Rearming(s) == \E c \in Posts : req[c].phase = "rearming" /\ s \in req[c].todo

\* A re-arm that has loaded a row does not meet a cancel of it: the re-arm wins
\* (rearm_paused writes what it loaded), and then no other property holds.
NoRearmOverCancel ==
    \A p \in Posts, c \in Cancels :
        req[p].phase = "rearming" /\ req[c].phase = "canceling" =>
            req[p].todo \cap req[c].todo = {}

(***************************************************************************)
(* A cancelled schedule stays cancelled: no poller's claim or pause takes  *)
(* it back.  Only a re-arm that had read the row before the cancel can     *)
(* (rearm_paused writes what it loaded, without a lock).                   *)
(***************************************************************************)
CancelIsFinal ==
    [][\A s \in Schedules : rows[s].status = "canceled" /\ ~Rearming(s)
            => rows'[s].status \in {"canceled", "deleted"}]_vars

Deleting(s) == \E c \in Deleters : req[c].phase = "deleting" /\ s \in req[c].todo

(***************************************************************************)
(* A job shown as ended is a schedule that is over: its row is terminal or *)
(* gone, or the delete that announced its end is about to take it.         *)
(***************************************************************************)
EndedMeansOver ==
    \A s \in Schedules : told[s] \in Ended =>
        rows[s].status \in Ended \cup {"deleted"} \/ Deleting(s)

(***************************************************************************)
(* A session holds at most one pending schedule over its quota for every   *)
(* creation but one that may run at once, counting the paused ones, which  *)
(* a later post re-arms (list_active_for_session).  A tool call counts in  *)
(* one transaction and inserts in another, so that calls of one turn may   *)
(* all find the last free slot; nothing else adds to the overshoot.        *)
(***************************************************************************)
OvershootIsBounded ==
    Cardinality(Having("scheduled") \cup Having("paused")) < MaxPending + Cardinality(Creators)

Idle == (\A p \in Pods : poller[p] = IdlePoller) /\ (\A c \in Clients : req[c] = IdleReq)

(* A cancelled schedule is not reported as completed (_republish_after_claim). *)
CanceledIsNotShownCompleted ==
    Idle => \A s \in Schedules : rows[s].status = "canceled" => told[s] # "completed"

(***************************************************************************)
(* A due schedule does not stay due for ever, unless turns keep coming     *)
(* back to the session or never leave it: some tick claims it or pauses it *)
(* (the poll loop and its serial-chat guard).                              *)
(***************************************************************************)
DueIsServed ==
    (\A p \in Pods : <>[](turn[p] = "idle")) =>
        \A s \in Schedules : []<>~Due(s, time)
=============================================================================
