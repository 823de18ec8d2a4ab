----------------------------- MODULE JobEvents -----------------------------
(***************************************************************************)
(* The vocabulary every side of the /internal/jobs/v1 contract shares      *)
(* (libs/fm_runtime/fm_runtime/job_events.py) and the row algebra of the   *)
(* jobs service: what one lifecycle event does to the stored row           *)
(* (jobs/app/store.py) and what the ORM then writes (jobs/app/models.py).  *)
(* Times are naturals; Null stands for SQL NULL in the time columns.       *)
(***************************************************************************)
EXTENDS Naturals

Statuses ==
    {"queued", "running", "paused", "scheduled", "completed", "failed", "canceled"}

Terminal == {"completed", "failed", "canceled"}

\* Registered work that has not begun: it stamps no started_at.
PreExecution == {"queued", "scheduled"}

ControlActions == {"pause", "resume", "cancel"}

Null == 0

NoEvent == [job |-> "none", status |-> "none", ts |-> Null]

NoRow == [status |-> "none", started |-> Null, ended |-> Null, last |-> Null]

Event(j, s, t) == [job |-> j, status |-> s, ts |-> t]

IsTerminal(e) == e.status \in Terminal

(***************************************************************************)
(* The two guards of apply_event, over the row as the SELECT returned it.  *)
(* Guard 1: terminal is absorbing.  Guard 2: an event strictly older than  *)
(* the newest applied one is stale.                                        *)
(***************************************************************************)
Absorbed(row, e) == row.status \in Terminal /\ e.status \notin Terminal

\* Mutant: an event as old as the row counts as stale.
StaleOrEqual(row, e) == e.ts <= row.last

Stale(row, e) == e.ts < row.last

Admits(row, e) == row = NoRow \/ ~(Absorbed(row, e) \/ Stale(row, e))

\* Mutant: only a running event stamps started_at.
AppliedStartOnRunning(row, e) ==
    [status  |-> e.status,
     started |-> IF row.started = Null /\ e.status = "running" THEN e.ts ELSE row.started,
     ended   |-> IF row.ended = Null /\ IsTerminal(e) THEN e.ts ELSE row.ended,
     last    |-> e.ts]

\* The row after the newest-wins assignments of apply_event.
Applied(row, e) ==
    [status  |-> e.status,
     started |-> IF row.started = Null /\ e.status \notin PreExecution
                 THEN e.ts ELSE row.started,
     ended   |-> IF row.ended = Null /\ IsTerminal(e) THEN e.ts ELSE row.ended,
     last    |-> e.ts]

(***************************************************************************)
(* A commit writes only the columns whose value differs from the one the   *)
(* session loaded: a column a concurrent transaction changed meanwhile     *)
(* survives when this session left it alone.  There is no row lock and no  *)
(* version column in the mapping.                                          *)
(***************************************************************************)
Column(loaded, new, stored) == IF new = loaded THEN stored ELSE new

Flush(loaded, new, stored) ==
    [status  |-> Column(loaded.status, new.status, stored.status),
     started |-> Column(loaded.started, new.started, stored.started),
     ended   |-> Column(loaded.ended, new.ended, stored.ended),
     last    |-> Column(loaded.last, new.last, stored.last)]
=============================================================================
