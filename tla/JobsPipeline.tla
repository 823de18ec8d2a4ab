---------------------------- MODULE JobsPipeline ----------------------------
(***************************************************************************)
(* One producer of the /internal/jobs/v1 contract and the jobs service     *)
(* that mirrors it.  The producer is the agents service: its turns live in *)
(* memory and publish as they go, its schedules live in Postgres.          *)
(*                                                                         *)
(*   engine  --publish-->  JobProducer hub  --NDJSON stream-->             *)
(*       subscriber task  --apply_event-->  jobs row  <--proxy_control--   *)
(*                                                        |                *)
(*       engine  <------------- POST .../{action} --------+                *)
(*                                                                         *)
(* The subscriber and the control proxy are two writers of the same row in *)
(* two database sessions: each loads the row, suspends, and flushes the    *)
(* columns it changed.  The subscriber tasks of different producers share  *)
(* no state, so one producer is enough.                                    *)
(***************************************************************************)
EXTENDS JobEvents, Sequences, FiniteSets

CONSTANTS
    Turns,          \* job ids of in-memory agent turns
    Schedules,      \* job ids of schedules, rows of the agents database
    Controls,       \* concurrent control requests at the jobs API
    Actions,        \* the control actions they may carry
    Faults,         \* which of FaultKinds may happen
    MaxFaults,      \* bound: drops, restarts and failed writes in a behaviour
    MaxClock,       \* bound: distinct timestamps
    MaxQueue        \* bound: undelivered live events

Jobs == Turns \cup Schedules

FaultKinds == {"drop", "restart", "persist", "enumerate"}

ASSUME JobsAssumption == Turns \cap Schedules = {} /\ "none" \notin Jobs
ASSUME ActionsAssumption == Actions \subseteq ControlActions
ASSUME FaultsAssumption == Faults \subseteq FaultKinds
ASSUME BoundsAssumption == MaxFaults \in Nat /\ MaxClock \in Nat \ {0} /\ MaxQueue \in Nat

VARIABLES
    clock,      \* wall-clock time; every stamp is a reading of it
    engine,     \* what each job really is: a turn's phase, a schedule's DB status
    asked,      \* per turn, the control flags set on its handle
    handle,     \* per turn, whether turn_runner still holds its handle
    owed,       \* per schedule, statuses committed by its poller but not yet published
    latest,     \* the hub's latest event per job
    conn,       \* "down", "capturing", "enumerated" or "live"
    byId,       \* the snapshot's in-memory part, captured at subscribe
    dbRead,     \* the schedules the enumerate query returned, until the snapshot is built
    missed,     \* history: the schedules a failed enumerate query left out of this stream
    snap,       \* snapshot events not yet delivered
    queue,      \* live events not yet delivered
    rows,       \* the jobs service's rows
    applying,   \* the event the subscriber is applying, with the row it loaded
    ctl,        \* the control requests in flight
    faults      \* faults so far

engineVars == <<engine, asked, handle, owed>>
streamVars == <<conn, byId, dbRead, missed, snap, queue>>
vars == <<clock, engine, asked, handle, owed, latest, conn, byId, dbRead, missed,
          snap, queue, rows, applying, ctl, faults>>

TurnPhases == {"none", "running", "held", "awaiting", "lost"} \cup Terminal
ScheduleStates == {"none", "scheduled", "paused", "completed", "canceled"}

NoApply == [event |-> NoEvent, loaded |-> NoRow]
IdleCtl == [phase |-> "idle", job |-> "none", action |-> "none",
            loaded |-> NoRow, reply |-> "none"]

Init ==
    /\ clock = 1
    /\ engine = [j \in Jobs |-> "none"]
    /\ asked = [j \in Turns |-> {}]
    /\ handle = [j \in Turns |-> FALSE]
    /\ owed = [j \in Schedules |-> <<>>]
    /\ latest = [j \in Jobs |-> NoEvent]
    /\ conn = "down"
    /\ byId = [j \in Jobs |-> NoEvent]
    /\ dbRead = {}
    /\ missed = {}
    /\ snap = {}
    /\ queue = <<>>
    /\ rows = [j \in Jobs |-> NoRow]
    /\ applying = NoApply
    /\ ctl = [c \in Controls |-> IdleCtl]
    /\ faults = 0

Tick ==
    /\ clock < MaxClock
    /\ clock' = clock + 1
    /\ UNCHANGED <<engineVars, latest, streamVars, rows, applying, ctl, faults>>

-----------------------------------------------------------------------------
(***************************************************************************)
(* The hub.  publish() prunes terminal jobs past their retention, records  *)
(* the latest event and fans out to the registered queue.  Its lock is     *)
(* never held across a suspension, so the whole body is one step.  The     *)
(* stamp in _terminal_at exists exactly while the latest event is          *)
(* terminal, so the prune removes some of those jobs.                      *)
(***************************************************************************)
Pruned(stale) == [j \in Jobs |-> IF j \in stale THEN NoEvent ELSE latest[j]]

TerminalAt == {j \in Jobs : IsTerminal(latest[j])}

\* Mutant: the queue is registered only after the snapshot has been built.
PublishToLive(j, s) ==
    LET e == Event(j, s, clock) IN
    /\ Len(queue) < MaxQueue
    /\ \E stale \in SUBSET TerminalAt : latest' = [Pruned(stale) EXCEPT ![j] = e]
    /\ queue' = IF conn = "live" THEN Append(queue, e) ELSE queue

Publish(j, s) ==
    LET e == Event(j, s, clock) IN
    /\ Len(queue) < MaxQueue
    /\ \E stale \in SUBSET TerminalAt : latest' = [Pruned(stale) EXCEPT ![j] = e]
    /\ queue' = IF conn = "down" THEN queue ELSE Append(queue, e)

-----------------------------------------------------------------------------
(***************************************************************************)
(* A turn: one asyncio task that publishes each transition as it makes it. *)
(***************************************************************************)
Turn(j, from, to, status) ==
    /\ engine[j] \in from
    /\ engine' = [engine EXCEPT ![j] = to]
    /\ Publish(j, status)
    /\ UNCHANGED <<clock, owed, conn, byId, dbRead, missed, snap, rows, applying, ctl,
                   faults>>

TurnStart(j) ==
    /\ Turn(j, {"none"}, "running", "running")
    /\ handle' = [handle EXCEPT ![j] = TRUE]
    /\ UNCHANGED asked

\* The checkpoint between graph nodes applies a requested pause.
TurnHold(j) ==
    /\ asked[j] = {"pause"}
    /\ Turn(j, {"running"}, "held", "paused")
    /\ UNCHANGED <<asked, handle>>

TurnAwaitApproval(j) ==
    /\ Turn(j, {"running"}, "awaiting", "paused")
    /\ UNCHANGED <<asked, handle>>

\* The resume event wakes a held turn; a decision wakes one awaiting approval.
TurnContinue(j) ==
    /\ engine[j] = "held" => asked[j] = {}
    /\ Turn(j, {"held", "awaiting"}, "running", "running")
    /\ UNCHANGED <<asked, handle>>

TurnComplete(j) ==
    /\ Turn(j, {"running"}, "completed", "completed")
    /\ UNCHANGED <<asked, handle>>

\* Mutant: the failure path also runs for a turn whose completion is published.
TurnFailLate(j) ==
    /\ Turn(j, {"running", "held", "awaiting", "completed"}, "failed", "failed")
    /\ UNCHANGED <<asked, handle>>

\* Time limit, usage limit, an exception, or the shutdown that cancels the task.
TurnFail(j) ==
    /\ Turn(j, {"running", "held", "awaiting"}, "failed", "failed")
    /\ UNCHANGED <<asked, handle>>

TurnCancel(j) ==
    /\ "cancel" \in asked[j]
    /\ Turn(j, {"running", "held", "awaiting"}, "canceled", "canceled")
    /\ UNCHANGED <<asked, handle>>

\* The finally block awaits the database before it pops the handle.
TurnForget(j) ==
    /\ engine[j] \in Terminal /\ handle[j]
    /\ handle' = [handle EXCEPT ![j] = FALSE]
    /\ UNCHANGED <<clock, engine, asked, owed, latest, streamVars, rows, applying, ctl, faults>>

(***************************************************************************)
(* A schedule: the poller commits a status to the database, re-reads the   *)
(* row and then publishes what it owes.                                    *)
(***************************************************************************)
Commit(j, from, to, statuses) ==
    /\ engine[j] = from
    /\ owed[j] = <<>>
    /\ engine' = [engine EXCEPT ![j] = to]
    /\ owed' = [owed EXCEPT ![j] = statuses]
    /\ UNCHANGED <<clock, asked, handle, latest, streamVars, rows, applying, ctl, faults>>

ScheduleCreate(j)  == Commit(j, "none", "scheduled", <<"scheduled">>)
ScheduleFireOnce(j) == Commit(j, "scheduled", "completed", <<"running", "completed">>)
ScheduleAdvance(j) == Commit(j, "scheduled", "scheduled", <<"scheduled">>)
SchedulePause(j)   == Commit(j, "scheduled", "paused", <<"paused">>)
ScheduleRearm(j)   == Commit(j, "paused", "scheduled", <<"scheduled">>)

SchedulePublish(j) ==
    /\ owed[j] # <<>>
    /\ Publish(j, Head(owed[j]))
    /\ owed' = [owed EXCEPT ![j] = Tail(@)]
    /\ UNCHANGED <<clock, engine, asked, handle, conn, byId, dbRead, missed, snap,
                   rows, applying, ctl, faults>>

-----------------------------------------------------------------------------
(***************************************************************************)
(* The stream.  subscribe() registers the queue and captures the           *)
(* non-terminal latest events with no suspension in between, awaits the    *)
(* enumerate query, and builds its events, stamped then, when it resumes.  *)
(***************************************************************************)
Connect ==
    /\ conn = "down" /\ applying = NoApply
    /\ conn' = "capturing"
    /\ \E stale \in SUBSET TerminalAt : latest' = Pruned(stale)
    /\ byId' = [j \in Jobs |-> IF IsTerminal(latest[j]) THEN NoEvent ELSE latest[j]]
    /\ UNCHANGED <<clock, engineVars, dbRead, missed, snap, queue, rows, applying, ctl, faults>>

\* Mutant: the producer supplies no enumerate_active_jobs.
EnumerateNothing ==
    /\ conn = "capturing"
    /\ conn' = "enumerated"
    /\ dbRead' = {}
    /\ UNCHANGED <<clock, engineVars, latest, byId, missed, snap, queue, rows, applying, ctl,
                   faults>>

EnumerateRead ==
    /\ conn = "capturing"
    /\ conn' = "enumerated"
    /\ dbRead' = {j \in Schedules : engine[j] = "scheduled"}
    /\ UNCHANGED <<clock, engineVars, latest, byId, missed, snap, queue, rows, applying, ctl,
                   faults>>

\* enumerate_active_jobs raises: the exception is logged, nothing is enumerated and
\* the stream goes on.  It happens at most once in a connection, so it has no bound.
EnumerateFails ==
    /\ "enumerate" \in Faults
    /\ conn = "capturing"
    /\ conn' = "enumerated"
    /\ dbRead' = {}
    /\ missed' = {j \in Schedules : engine[j] = "scheduled"}
    /\ UNCHANGED <<clock, engineVars, latest, byId, snap, queue, rows, applying, ctl, faults>>

EnumerateReturn ==
    /\ conn = "enumerated"
    /\ conn' = "live"
    /\ snap' = {byId[j] : j \in {k \in Jobs : byId[k] # NoEvent}}
                 \cup {Event(j, "scheduled", clock) : j \in {k \in dbRead : byId[k] = NoEvent}}
    /\ byId' = [j \in Jobs |-> NoEvent]
    /\ dbRead' = {}
    /\ UNCHANGED <<clock, engineVars, latest, missed, queue, rows, applying, ctl, faults>>

Disconnected ==
    /\ conn' = "down"
    /\ byId' = [j \in Jobs |-> NoEvent]
    /\ dbRead' = {}
    /\ missed' = {}
    /\ snap' = {}
    /\ queue' = <<>>

Fault(kind) ==
    /\ kind \in Faults
    /\ faults < MaxFaults
    /\ faults' = faults + 1

\* The stream breaks: what it had not delivered is gone.
Drop ==
    /\ conn # "down"
    /\ Fault("drop")
    /\ Disconnected
    /\ UNCHANGED <<clock, engineVars, latest, rows, applying, ctl>>

\* The producer dies: hub, handles and running turns are gone, the schedule rows are not.
Restart ==
    /\ Fault("restart")
    /\ Disconnected
    /\ latest' = [j \in Jobs |-> NoEvent]
    /\ engine' = [j \in Jobs |-> IF j \in Turns /\ engine[j] \in {"running", "held", "awaiting"}
                                 THEN "lost" ELSE engine[j]]
    /\ asked' = [j \in Turns |-> {}]
    /\ handle' = [j \in Turns |-> FALSE]
    /\ owed' = [j \in Schedules |-> <<>>]
    /\ ctl' = [c \in Controls |-> IF ctl[c].phase \in {"sent", "publishing"}
                                  THEN IdleCtl ELSE ctl[c]]
    /\ UNCHANGED <<clock, rows, applying>>

-----------------------------------------------------------------------------
(***************************************************************************)
(* The subscriber: take the next line, load the row, and unless a guard    *)
(* drops the event, flush the changed columns.                             *)
(***************************************************************************)
Take(e) ==
    /\ conn = "live" /\ applying = NoApply
    /\ applying' = IF Admits(rows[e.job], e)
                   THEN [event |-> e, loaded |-> rows[e.job]] ELSE NoApply
    /\ UNCHANGED <<clock, engineVars, latest, conn, byId, dbRead, missed, rows, ctl, faults>>

TakeSnapshot ==
    \E e \in snap : Take(e) /\ snap' = snap \ {e} /\ UNCHANGED queue

TakeLive ==
    /\ snap = {} /\ queue # <<>>
    /\ Take(Head(queue))
    /\ queue' = Tail(queue)
    /\ UNCHANGED snap

CommitRow ==
    LET e == applying.event
        loaded == applying.loaded IN
    /\ applying # NoApply
    /\ rows' = [rows EXCEPT ![e.job] = Flush(loaded, Applied(loaded, e), @)]
    /\ applying' = NoApply
    /\ UNCHANGED <<clock, engineVars, latest, streamVars, ctl, faults>>

\* A database error while persisting is logged and the event is not retried.
PersistFails ==
    /\ applying # NoApply
    /\ Fault("persist")
    /\ applying' = NoApply
    /\ UNCHANGED <<clock, engineVars, latest, streamVars, rows, ctl>>

-----------------------------------------------------------------------------
(***************************************************************************)
(* A control request: proxy_control loads the row, posts to the producer   *)
(* and writes the reply over the row it loaded.                            *)
(***************************************************************************)
ControlRead(c, j, a) ==
    /\ ctl[c] = IdleCtl
    /\ rows[j] # NoRow /\ rows[j].status \notin Terminal
    /\ ctl' = [ctl EXCEPT ![c] = [phase |-> "sent", job |-> j, action |-> a,
                                  loaded |-> rows[j], reply |-> "none"]]
    /\ UNCHANGED <<clock, engineVars, latest, streamVars, rows, applying, faults>>

\* Mutant: a cancel is acknowledged but sets no flag.
FlagsIgnoreCancel(flags, a) ==
    CASE a = "pause" -> flags \cup {"pause"} [] OTHER -> flags \ {"pause"}

Flags(flags, a) ==
    CASE a = "pause" -> flags \cup {"pause"}
      [] a = "resume" -> flags \ {"pause"}
      [] OTHER -> flags \cup {"cancel"}

Reply(c, s) == ctl' = [ctl EXCEPT ![c].phase = "replied", ![c].reply = s]

\* dispatch_control returned no event: the route answers "completed".
ControlNothing(c) ==
    LET j == ctl[c].job IN
    /\ ctl[c].phase = "sent"
    /\ IF j \in Turns THEN ~handle[j] \/ latest[j] = NoEvent
       ELSE ctl[c].action # "cancel" \/ engine[j] # "scheduled"
    /\ Reply(c, "completed")
    /\ asked' = IF j \in Turns /\ handle[j]
                THEN [asked EXCEPT ![j] = Flags(@, ctl[c].action)] ELSE asked
    /\ UNCHANGED <<clock, engine, handle, owed, latest, streamVars, rows, applying, faults>>

\* turn_runner.control answers with the status it asked for.
Outcome(a) ==
    CASE a = "pause" -> "paused" [] a = "resume" -> "running" [] OTHER -> "canceled"

\* A live handle takes the flag and the control event is published at once.
ControlTurn(c) ==
    LET j == ctl[c].job
        s == Outcome(ctl[c].action) IN
    /\ ctl[c].phase = "sent"
    /\ j \in Turns /\ handle[j] /\ latest[j] # NoEvent
    /\ asked' = [asked EXCEPT ![j] = Flags(@, ctl[c].action)]
    /\ Publish(j, s)
    /\ Reply(c, s)
    /\ UNCHANGED <<clock, engine, handle, owed, conn, byId, dbRead, missed, snap, rows,
                   applying, faults>>

\* cancel_schedule commits, then the CANCELED event is published.
ControlSchedule(c) ==
    LET j == ctl[c].job IN
    /\ ctl[c].phase = "sent" /\ ctl[c].action = "cancel"
    /\ j \in Schedules /\ engine[j] = "scheduled"
    /\ engine' = [engine EXCEPT ![j] = "canceled"]
    /\ ctl' = [ctl EXCEPT ![c].phase = "publishing"]
    /\ UNCHANGED <<clock, asked, handle, owed, latest, streamVars, rows, applying, faults>>

ControlPublish(c) ==
    /\ ctl[c].phase = "publishing"
    /\ Publish(ctl[c].job, "canceled")
    /\ Reply(c, "canceled")
    /\ UNCHANGED <<clock, engineVars, conn, byId, dbRead, missed, snap, rows, applying, faults>>

\* The stamp, taken after a round trip, differs from any stamp loaded before it.
ControlWrite(c) ==
    LET old == ctl[c].loaded.status IN
    /\ ctl[c].phase = "replied"
    /\ rows' = [rows EXCEPT ![ctl[c].job].status = Column(old, ctl[c].reply, @),
                            ![ctl[c].job].last = clock]
    /\ ctl' = [ctl EXCEPT ![c] = IdleCtl]
    /\ UNCHANGED <<clock, engineVars, latest, streamVars, applying, faults>>

\* The call fails or times out before or after the producer acted: a 502, no write.
ControlFails(c) ==
    /\ ctl[c].phase \in {"sent", "replied"}
    /\ ctl' = [ctl EXCEPT ![c] = IdleCtl]
    /\ UNCHANGED <<clock, engineVars, latest, streamVars, rows, applying, faults>>

-----------------------------------------------------------------------------
TurnStep(j) ==
    \/ TurnStart(j) \/ TurnHold(j) \/ TurnAwaitApproval(j) \/ TurnContinue(j)
    \/ TurnComplete(j) \/ TurnFail(j) \/ TurnCancel(j) \/ TurnForget(j)

ScheduleStep(j) ==
    \/ ScheduleCreate(j) \/ ScheduleFireOnce(j) \/ ScheduleAdvance(j)
    \/ SchedulePause(j) \/ ScheduleRearm(j) \/ SchedulePublish(j)

StreamStep ==
    Connect \/ EnumerateRead \/ EnumerateFails \/ EnumerateReturn \/ Drop \/ Restart

SubscriberStep == TakeSnapshot \/ TakeLive \/ CommitRow \/ PersistFails

ControlStep(c) ==
    \/ \E j \in Jobs, a \in Actions : ControlRead(c, j, a)
    \/ ControlNothing(c) \/ ControlTurn(c) \/ ControlSchedule(c)
    \/ ControlPublish(c) \/ ControlWrite(c) \/ ControlFails(c)

Next ==
    \/ Tick
    \/ \E j \in Turns : TurnStep(j)
    \/ \E j \in Schedules : ScheduleStep(j)
    \/ StreamStep
    \/ SubscriberStep
    \/ \E c \in Controls : ControlStep(c)

Spec == Init /\ [][Next]_vars

(***************************************************************************)
(* Fairness: the subscriber reconnects and reads forever, the enumerate    *)
(* query comes back (a failure comes back too, and disables the read), and *)
(* a poller publishes what it committed (strongly fair, because MaxQueue,  *)
(* which the code does not have, may disable it now and then).  Nothing    *)
(* makes a turn end, a schedule fire or a human act.                       *)
(***************************************************************************)
Fairness ==
    /\ WF_vars(Connect) /\ WF_vars(EnumerateRead) /\ WF_vars(EnumerateReturn)
    /\ WF_vars(TakeSnapshot) /\ WF_vars(TakeLive) /\ WF_vars(CommitRow)
    /\ \A j \in Schedules : SF_vars(SchedulePublish(j))
    /\ \A c \in Controls : SF_vars(ControlPublish(c)) /\ WF_vars(ControlWrite(c))

FairSpec == Spec /\ Fairness

-----------------------------------------------------------------------------
EventType == [job : Jobs, status : Statuses, ts : 1..MaxClock]
RowType == [status : Statuses, started : 0..MaxClock, ended : 0..MaxClock, last : 1..MaxClock]

(* Every variable holds values of the kind the code gives it. *)
TypeOK ==
    /\ clock \in 1..MaxClock
    /\ engine \in [Jobs -> TurnPhases \cup ScheduleStates]
    /\ asked \in [Turns -> SUBSET {"pause", "cancel"}]
    /\ handle \in [Turns -> BOOLEAN]
    /\ owed \in [Schedules -> Seq(Statuses)]
    /\ latest \in [Jobs -> EventType \cup {NoEvent}]
    /\ conn \in {"down", "capturing", "enumerated", "live"}
    /\ byId \in [Jobs -> EventType \cup {NoEvent}]
    /\ dbRead \subseteq Schedules
    /\ missed \subseteq Schedules
    /\ snap \subseteq EventType
    /\ queue \in Seq(EventType)
    /\ rows \in [Jobs -> RowType \cup {NoRow}]
    /\ applying \in [event : EventType, loaded : RowType \cup {NoRow}] \cup {NoApply}
    /\ ctl \in [Controls -> [phase : {"idle", "sent", "publishing", "replied"},
                             job : Jobs \cup {"none"},
                             action : ControlActions \cup {"none"},
                             loaded : RowType \cup {NoRow},
                             reply : Statuses \cup {"none"}]]
    /\ faults \in 0..MaxFaults

Pending(e) ==
    \/ conn \in {"capturing", "enumerated"} /\ byId[e.job] = e
    \/ e \in snap
    \/ \E i \in 1..Len(queue) : queue[i] = e
    \/ applying.event = e

Active(j) == latest[j] # NoEvent /\ ~IsTerminal(latest[j])

(***************************************************************************)
(* While the subscriber is connected, the hub's latest event of an active  *)
(* job is on its way to the store, or the store already reflects something *)
(* at least as new: registering the queue before building the snapshot     *)
(* leaves no gap an event can fall into (JobProducer.subscribe).           *)
(***************************************************************************)
ActiveEventReachesStore ==
    \A j \in Jobs : conn # "down" /\ Active(j) =>
        \/ Pending(latest[j])
        \/ rows[j].status \in Terminal
        \/ rows[j].last >= latest[j].ts

(***************************************************************************)
(* Whatever order events and control writes come in, a row that has ended  *)
(* has started, and did not end before it started (apply_event).           *)
(***************************************************************************)
EndedAfterStarted ==
    \A j \in Jobs : rows[j].ended # Null =>
        rows[j].started # Null /\ rows[j].started <= rows[j].ended

\* Nothing is on its way to the row: no event, no apply, no control request.
Quiet ==
    /\ conn = "live" /\ snap = {} /\ queue = <<>> /\ applying = NoApply
    /\ \A c \in Controls : ctl[c] = IdleCtl

(***************************************************************************)
(* Once the stream is drained the row of every active turn shows the       *)
(* status the hub last published for it (subscribe: the consumer's guards  *)
(* absorb a duplicate of the snapshot and the queue).  A schedule's may    *)
(* not: its snapshot event is stamped after the query that loaded it.      *)
(***************************************************************************)
QuietAgreement ==
    Quiet => \A j \in Turns : Active(j) => rows[j].status = latest[j].status

(***************************************************************************)
(* A row that says a turn is over tells the truth: the turn has ended, was *)
(* told to cancel or died with its process, whatever requests it got.      *)
(* (The status the row shows may still be the wrong terminal one.)         *)
(***************************************************************************)
TurnRowMeansOver ==
    \A j \in Turns : rows[j].status \in Terminal =>
        engine[j] \in Terminal \cup {"lost"} \/ "cancel" \in asked[j]

(***************************************************************************)
(* A row that says a job is over tells the truth, for schedules too: they  *)
(* will not fire again.  Requests to a schedule are left out: a pause, or  *)
(* the cancel of a paused one, is answered as an end.                      *)
(***************************************************************************)
TerminalRowMeansOver ==
    /\ TurnRowMeansOver
    /\ \A j \in Schedules : rows[j].status \in Terminal =>
           engine[j] \in {"completed", "canceled"}

(* A job never leaves a terminal state in the store (store.py, guard 1). *)
TerminalIsAbsorbing ==
    [][\A j \in Jobs : rows[j].status \in Terminal => rows'[j].status = rows[j].status]_vars

(***************************************************************************)
(* The end of a turn the store knows, once it is on its way, is recorded   *)
(* in the row unless the stream breaks first.  (An end is not replayed:    *)
(* JobProducer.subscribe snapshots active jobs only.)                      *)
(***************************************************************************)
EndIsRecorded ==
    \A j \in Turns :
        (IsTerminal(latest[j]) /\ Pending(latest[j]) /\ rows[j] # NoRow)
            ~> (rows[j].status \in Terminal \/ conn = "down")

(***************************************************************************)
(* A schedule that stays pending is shown as scheduled for ever after,     *)
(* across dropped streams and restarts of its producer, unless it was left *)
(* out by a failed enumerate query whose stream lasts: the failure is      *)
(* swallowed, and nothing asks again until the stream breaks               *)
(* (_snapshot_active).                                                     *)
(***************************************************************************)
PendingScheduleIsShown ==
    \A j \in Schedules :
        <>[](engine[j] = "scheduled") => <>[](rows[j].status = "scheduled" \/ j \in missed)

\* What the rows show is true: of active turns once the stream is drained, and
\* of every job that is shown as over.
RowsTellTheTruth == TypeOK /\ QuietAgreement /\ TerminalRowMeansOver

\* The end of a job is recorded if the stream lasts, and once recorded it stays.
EndIsKept == TerminalIsAbsorbing /\ EndIsRecorded
=============================================================================
