------------------------- MODULE JobsPipelineProofs -------------------------
(***************************************************************************)
(* Theorems about the jobs pipeline, for every set of jobs, every set of   *)
(* concurrent control requests, every combination of faults and every      *)
(* bound.                                                                  *)
(***************************************************************************)
EXTENDS JobsPipeline, TLAPS

(* A control request in flight names a job whose row exists. *)
ControlOK ==
    \A c \in Controls : ctl[c].phase # "idle" =>
        /\ ctl[c].job \in Jobs
        /\ ctl[c].loaded \in RowType
        /\ rows[ctl[c].job] \in RowType
        /\ ctl[c].phase = "replied" => ctl[c].reply \in Statuses

(* An event being applied belongs to the row that was loaded for it. *)
ApplyOK ==
    applying # NoApply =>
        /\ applying.event \in EventType
        /\ applying.loaded # NoRow => rows[applying.event.job] \in RowType

TypeInv == TypeOK /\ ControlOK /\ ApplyOK

LEMMA Constants ==
    /\ NoRow \notin RowType
    /\ NoEvent \notin EventType
    /\ 1 \in 1..MaxClock
    /\ MaxClock \in Nat
BY JobsAssumption, BoundsAssumption, SMT
   DEF NoRow, RowType, Null, NoEvent, EventType, Statuses

LEMMA TypeInit == Init => TypeInv
<1> SUFFICES ASSUME Init PROVE TypeInv
  OBVIOUS
<1>1. TypeOK
  BY BoundsAssumption, FaultsAssumption DEF Init, TypeOK, TurnPhases, ScheduleStates,
     NoApply, IdleCtl, NoRow, RowType, Jobs, EventType
<1>2. ControlOK
  BY DEF Init, ControlOK, IdleCtl
<1>3. ApplyOK
  BY DEF Init, ApplyOK
<1> QED
  BY <1>1, <1>2, <1>3 DEF TypeInv

LEMMA EventTyped ==
    ASSUME TypeOK, NEW j \in Jobs, NEW s \in Statuses
    PROVE  Event(j, s, clock) \in EventType
BY DEF TypeOK, Event, EventType

LEMMA AppliedTyped ==
    ASSUME NEW e \in EventType, NEW row \in RowType \cup {NoRow}
    PROVE  Applied(row, e) \in RowType
BY BoundsAssumption
   DEF Applied, RowType, NoRow, EventType, Null, PreExecution, IsTerminal, Terminal, Statuses

(* What the ORM flushes over the stored row is a row again. *)
LEMMA FlushTyped ==
    ASSUME NEW loaded \in RowType \cup {NoRow}, NEW new \in RowType,
           NEW stored \in RowType \cup {NoRow},
           loaded # NoRow => stored \in RowType
    PROVE  Flush(loaded, new, stored) \in RowType
<1>1. CASE stored \in RowType
  BY <1>1 DEF Flush, Column, RowType
<1>2. CASE loaded = NoRow
  <2>1. new.status # "none" /\ new.last # 0
    BY BoundsAssumption DEF RowType, Statuses
  <2>2. stored.started \in 0..MaxClock /\ stored.ended \in 0..MaxClock
    BY BoundsAssumption DEF RowType, NoRow, Null
  <2> QED
    BY <1>2, <2>1, <2>2 DEF Flush, Column, RowType, NoRow, Null
<1> QED
  BY <1>1, <1>2

LEMMA PublishTyped ==
    ASSUME TypeOK, NEW j \in Jobs, NEW s \in Statuses, Publish(j, s)
    PROVE  /\ latest' \in [Jobs -> EventType \cup {NoEvent}]
           /\ queue' \in Seq(EventType)
<1> DEFINE e == Event(j, s, clock)
<1>1. e \in EventType
  BY EventTyped
<1>2. latest' \in [Jobs -> EventType \cup {NoEvent}]
  <2>1. PICK stale \in SUBSET TerminalAt : latest' = [Pruned(stale) EXCEPT ![j] = e]
    BY DEF Publish
  <2>2. Pruned(stale) \in [Jobs -> EventType \cup {NoEvent}]
    BY DEF Pruned, TypeOK
  <2> QED
    BY <1>1, <2>1, <2>2
<1>3. queue' \in Seq(EventType)
  BY <1>1 DEF Publish, TypeOK
<1> QED
  BY <1>2, <1>3

(***************************************************************************)
(* A step that leaves the rows and the requests in flight alone keeps the  *)
(* two parts that relate them.                                             *)
(***************************************************************************)
LEMMA RelationsKept ==
    ASSUME ControlOK, ApplyOK, UNCHANGED <<rows, applying, ctl>>
    PROVE  ControlOK' /\ ApplyOK'
BY DEF ControlOK, ApplyOK

LEMMA TurnTyped ==
    ASSUME TypeInv, NEW j \in Turns, TurnStep(j)
    PROVE  TypeInv'
<1> DEFINE Kept(from, to, status) ==
      /\ Turn(j, from, to, status)
      /\ asked' = asked
      /\ handle' \in [Turns -> BOOLEAN]
<1>1. ASSUME NEW from, NEW to \in TurnPhases, NEW status \in Statuses, Kept(from, to, status)
      PROVE  TypeInv'
  <2>1. Publish(j, status) /\ engine' = [engine EXCEPT ![j] = to]
    BY <1>1 DEF Turn
  <2>2. UNCHANGED <<clock, owed, conn, byId, dbRead, missed, snap, rows, applying, ctl,
                   faults>>
    BY <1>1 DEF Turn
  <2>3. /\ latest' \in [Jobs -> EventType \cup {NoEvent}]
        /\ queue' \in Seq(EventType)
    BY <2>1, PublishTyped DEF TypeInv, Jobs
  <2>4. TypeOK'
    BY <1>1, <2>1, <2>2, <2>3 DEF TypeInv, TypeOK
  <2> QED
    BY <2>2, <2>4, RelationsKept DEF TypeInv
<1>2. CASE TurnForget(j)
  <2>1. TypeOK'
    BY <1>2 DEF TurnForget, TypeInv, TypeOK, streamVars
  <2> QED
    BY <1>2, <2>1, RelationsKept DEF TurnForget, TypeInv
<1>3. handle \in [Turns -> BOOLEAN]
  BY DEF TypeInv, TypeOK
<1>4. CASE TurnStart(j)
  BY <1>4, <1>1, <1>3 DEF TurnStart, TurnPhases, Statuses
<1>5. CASE TurnHold(j)
  BY <1>5, <1>1, <1>3 DEF TurnHold, TurnPhases, Statuses
<1>6. CASE TurnAwaitApproval(j)
  BY <1>6, <1>1, <1>3 DEF TurnAwaitApproval, TurnPhases, Statuses
<1>7. CASE TurnContinue(j)
  BY <1>7, <1>1, <1>3 DEF TurnContinue, TurnPhases, Statuses
<1>8. CASE TurnComplete(j)
  BY <1>8, <1>1, <1>3 DEF TurnComplete, TurnPhases, Statuses, Terminal
<1>9. CASE TurnFail(j)
  BY <1>9, <1>1, <1>3 DEF TurnFail, TurnPhases, Statuses, Terminal
<1>10. CASE TurnCancel(j)
  BY <1>10, <1>1, <1>3 DEF TurnCancel, TurnPhases, Statuses, Terminal
<1> QED
  BY <1>2, <1>4, <1>5, <1>6, <1>7, <1>8, <1>9, <1>10 DEF TurnStep

LEMMA ScheduleTyped ==
    ASSUME TypeInv, NEW j \in Schedules, ScheduleStep(j)
    PROVE  TypeInv'
<1>1. ASSUME NEW from, NEW to \in ScheduleStates, NEW statuses \in Seq(Statuses),
             Commit(j, from, to, statuses)
      PROVE  TypeInv'
  <2>1. TypeOK'
    BY <1>1 DEF Commit, TypeInv, TypeOK, streamVars
  <2> QED
    BY <1>1, <2>1, RelationsKept DEF Commit, TypeInv
<1>2. CASE SchedulePublish(j)
  <2>1. owed[j] \in Seq(Statuses) /\ owed[j] # <<>>
    BY <1>2 DEF SchedulePublish, TypeInv, TypeOK
  <2>2. Head(owed[j]) \in Statuses /\ Tail(owed[j]) \in Seq(Statuses)
    BY <2>1
  <2>3. /\ latest' \in [Jobs -> EventType \cup {NoEvent}]
        /\ queue' \in Seq(EventType)
    BY <1>2, <2>2, PublishTyped DEF SchedulePublish, TypeInv, Jobs
  <2>4. TypeOK'
    BY <1>2, <2>2, <2>3 DEF SchedulePublish, TypeInv, TypeOK
  <2> QED
    BY <1>2, <2>4, RelationsKept DEF SchedulePublish, TypeInv
<1>3. /\ <<"scheduled">> \in Seq(Statuses)
      /\ <<"paused">> \in Seq(Statuses)
      /\ <<"running", "completed">> \in Seq(Statuses)
  BY DEF Statuses
<1>4. CASE ScheduleCreate(j)
  BY <1>4, <1>1, <1>3 DEF ScheduleCreate, ScheduleStates
<1>5. CASE ScheduleFireOnce(j)
  BY <1>5, <1>1, <1>3 DEF ScheduleFireOnce, ScheduleStates
<1>6. CASE ScheduleAdvance(j)
  BY <1>6, <1>1, <1>3 DEF ScheduleAdvance, ScheduleStates
<1>7. CASE SchedulePause(j)
  BY <1>7, <1>1, <1>3 DEF SchedulePause, ScheduleStates
<1>8. CASE ScheduleRearm(j)
  BY <1>8, <1>1, <1>3 DEF ScheduleRearm, ScheduleStates
<1> QED
  BY <1>2, <1>4, <1>5, <1>6, <1>7, <1>8 DEF ScheduleStep

LEMMA StreamTyped ==
    ASSUME TypeInv, StreamStep
    PROVE  TypeInv'
<1>1. CASE Connect
  <2>1. PICK stale \in SUBSET TerminalAt : latest' = Pruned(stale)
    BY <1>1 DEF Connect
  <2>2. /\ latest' \in [Jobs -> EventType \cup {NoEvent}]
        /\ byId' \in [Jobs -> EventType \cup {NoEvent}]
    BY <1>1, <2>1 DEF Connect, Pruned, TypeInv, TypeOK
  <2>3. TypeOK'
    BY <1>1, <2>2 DEF Connect, TypeInv, TypeOK, engineVars
  <2> QED
    BY <1>1, <2>3, RelationsKept DEF Connect, TypeInv
<1>2. CASE EnumerateRead \/ EnumerateFails
  <2>1. TypeOK'
    BY <1>2 DEF EnumerateRead, EnumerateFails, TypeInv, TypeOK, engineVars
  <2> QED
    BY <1>2, <2>1, RelationsKept DEF EnumerateRead, EnumerateFails, TypeInv
<1>3. CASE EnumerateReturn
  <2>1. \A j \in dbRead : Event(j, "scheduled", clock) \in EventType
    BY EventTyped DEF TypeInv, TypeOK, Jobs, Statuses
  <2>2. snap' \subseteq EventType
    BY <1>3, <2>1 DEF EnumerateReturn, TypeInv, TypeOK
  <2>3. TypeOK'
    BY <1>3, <2>2 DEF EnumerateReturn, TypeInv, TypeOK, engineVars
  <2> QED
    BY <1>3, <2>3, RelationsKept DEF EnumerateReturn, TypeInv
<1>4. Disconnected => /\ conn' \in {"down", "capturing", "enumerated", "live"}
                      /\ byId' \in [Jobs -> EventType \cup {NoEvent}]
                      /\ dbRead' \subseteq Schedules
                      /\ missed' \subseteq Schedules
                      /\ snap' \subseteq EventType
                      /\ queue' \in Seq(EventType)
  BY DEF Disconnected
<1>5. ASSUME NEW kind, Fault(kind)
      PROVE  faults' \in 0..MaxFaults
  BY <1>5, BoundsAssumption DEF Fault, TypeInv, TypeOK
<1>6. CASE Drop
  <2>1. TypeOK'
    BY <1>4, <1>5, <1>6 DEF Drop, TypeInv, TypeOK, engineVars
  <2> QED
    BY <1>6, <2>1, RelationsKept DEF Drop, TypeInv
<1>7. CASE Restart
  <2>1. engine' \in [Jobs -> TurnPhases \cup ScheduleStates]
    BY <1>7 DEF Restart, TypeInv, TypeOK, TurnPhases
  <2>2. /\ latest' \in [Jobs -> EventType \cup {NoEvent}]
        /\ asked' \in [Turns -> SUBSET {"pause", "cancel"}]
        /\ handle' \in [Turns -> BOOLEAN]
        /\ owed' \in [Schedules -> Seq(Statuses)]
    BY <1>7 DEF Restart
  <2>3. \A c \in Controls : ctl'[c] = IdleCtl \/ ctl'[c] = ctl[c]
    BY <1>7 DEF Restart
  <2>4. TypeOK'
    <3>1. ctl' = [c \in Controls |-> IF ctl[c].phase \in {"sent", "publishing"}
                                     THEN IdleCtl ELSE ctl[c]]
      BY <1>7 DEF Restart
    <3>2. IdleCtl \in [phase : {"idle", "sent", "publishing", "replied"},
                       job : Jobs \cup {"none"},
                       action : ControlActions \cup {"none"},
                       loaded : RowType \cup {NoRow},
                       reply : Statuses \cup {"none"}]
      BY DEF IdleCtl
    <3> HIDE DEF IdleCtl, ControlActions, RowType, NoRow, Statuses
    <3>3. ctl' \in [Controls -> [phase : {"idle", "sent", "publishing", "replied"},
                                 job : Jobs \cup {"none"},
                                 action : ControlActions \cup {"none"},
                                 loaded : RowType \cup {NoRow},
                                 reply : Statuses \cup {"none"}]]
      BY <3>1, <3>2 DEF TypeInv, TypeOK
    <3> QED
      BY <1>4, <1>5, <1>7, <2>1, <2>2, <3>3 DEF Restart, TypeInv, TypeOK
  <2>5. ControlOK'
    BY <1>7, <2>3 DEF Restart, ControlOK, TypeInv, IdleCtl
  <2>6. ApplyOK'
    BY <1>7 DEF Restart, ApplyOK, TypeInv
  <2> QED
    BY <2>4, <2>5, <2>6 DEF TypeInv
<1> QED
  BY <1>1, <1>2, <1>3, <1>6, <1>7 DEF StreamStep

LEMMA SubscriberTyped ==
    ASSUME TypeInv, SubscriberStep
    PROVE  TypeInv'
<1>1. ASSUME NEW e \in EventType, Take(e), snap' \subseteq EventType, queue' \in Seq(EventType)
      PROVE  TypeInv'
  <2>1. e.job \in Jobs /\ rows[e.job] \in RowType \cup {NoRow}
    BY DEF EventType, TypeInv, TypeOK
  <2>2. applying' \in [event : EventType, loaded : RowType \cup {NoRow}] \cup {NoApply}
    BY <1>1, <2>1 DEF Take
  <2>3. UNCHANGED <<clock, engine, asked, handle, owed, latest, conn, byId, dbRead,
                    missed, rows, ctl, faults>>
    BY <1>1 DEF Take, engineVars
  <2>4. TypeOK'
    BY <1>1, <2>2, <2>3 DEF TypeInv, TypeOK
  <2>5. ControlOK'
    BY <2>3 DEF TypeInv, ControlOK
  <2>6. ApplyOK'
    BY <1>1, <2>1, <2>3 DEF Take, ApplyOK, NoApply
  <2> QED
    BY <2>4, <2>5, <2>6 DEF TypeInv
<1>2. CASE TakeSnapshot
  <2>1. PICK e \in snap : Take(e) /\ snap' = snap \ {e} /\ UNCHANGED queue
    BY <1>2 DEF TakeSnapshot
  <2> QED
    BY <2>1, <1>1 DEF TypeInv, TypeOK
<1>3. CASE TakeLive
  <2>1. queue \in Seq(EventType) /\ queue # <<>>
    BY <1>3 DEF TakeLive, TypeInv, TypeOK
  <2>2. Head(queue) \in EventType /\ Tail(queue) \in Seq(EventType)
    BY <2>1
  <2> QED
    BY <1>1, <1>3, <2>2 DEF TakeLive, TypeInv, TypeOK
<1>4. CASE CommitRow
  <2> DEFINE e == applying.event
             loaded == applying.loaded
             new == Flush(loaded, Applied(loaded, e), rows[e.job])
  <2>1. applying # NoApply /\ applying' = NoApply
    BY <1>4 DEF CommitRow
  <2>2. /\ e \in EventType /\ e.job \in Jobs
        /\ loaded \in RowType \cup {NoRow}
        /\ loaded # NoRow => rows[e.job] \in RowType
        /\ rows[e.job] \in RowType \cup {NoRow}
    BY <2>1 DEF TypeInv, TypeOK, ApplyOK, EventType
  <2>3. new \in RowType
    BY <2>2, AppliedTyped, FlushTyped
  <2>4. rows' = [rows EXCEPT ![e.job] = new]
    BY <1>4 DEF CommitRow
  <2>5. UNCHANGED <<clock, engine, asked, handle, owed, latest, conn, byId, dbRead,
                    missed, snap, queue, ctl, faults>>
    BY <1>4 DEF CommitRow, engineVars, streamVars
  <2> HIDE DEF new, e, loaded
  <2>6. TypeOK'
    BY <2>1, <2>2, <2>3, <2>4, <2>5 DEF TypeInv, TypeOK
  <2>7. ControlOK'
    BY <2>2, <2>3, <2>4, <2>5 DEF TypeInv, TypeOK, ControlOK
  <2>8. ApplyOK'
    BY <2>1 DEF ApplyOK
  <2> QED
    BY <2>6, <2>7, <2>8 DEF TypeInv
<1>5. CASE PersistFails
  <2>1. faults' \in 0..MaxFaults
    BY <1>5, BoundsAssumption DEF PersistFails, Fault, TypeInv, TypeOK
  <2>2. TypeOK'
    BY <1>5, <2>1 DEF PersistFails, TypeInv, TypeOK, engineVars, streamVars
  <2>3. ControlOK' /\ ApplyOK'
    BY <1>5 DEF PersistFails, TypeInv, ControlOK, ApplyOK
  <2> QED
    BY <2>2, <2>3 DEF TypeInv
<1> QED
  BY <1>2, <1>3, <1>4, <1>5 DEF SubscriberStep

CtlType == [phase : {"idle", "sent", "publishing", "replied"},
            job : Jobs \cup {"none"},
            action : ControlActions \cup {"none"},
            loaded : RowType \cup {NoRow},
            reply : Statuses \cup {"none"}]

LEMMA ControlTyped ==
    ASSUME TypeInv, NEW c \in Controls, ControlStep(c)
    PROVE  TypeInv'
<1>1. ctl \in [Controls -> CtlType]
  BY DEF TypeInv, TypeOK, CtlType
<1>2. ASSUME ctl[c].phase # "idle"
      PROVE  /\ ctl[c].job \in Jobs /\ ctl[c].loaded \in RowType
             /\ rows[ctl[c].job] \in RowType
             /\ ctl[c].phase = "replied" => ctl[c].reply \in Statuses
  BY <1>2 DEF TypeInv, ControlOK
<1>3. ASSUME ctl[c].phase # "idle", NEW s \in Statuses, Reply(c, s), UNCHANGED <<rows, applying>>
      PROVE  /\ ctl' \in [Controls -> CtlType]
             /\ ControlOK' /\ ApplyOK'
  <2>1. ctl' = [ctl EXCEPT ![c].phase = "replied", ![c].reply = s]
    BY <1>3 DEF Reply
  <2>2. ctl' \in [Controls -> CtlType]
    BY ZenonT(60), <1>1, <1>3, <2>1 DEF CtlType
  <2>3. ControlOK'
    BY <1>1, <1>2, <1>3, <2>1 DEF ControlOK, TypeInv, CtlType
  <2>4. ApplyOK'
    BY <1>3 DEF ApplyOK, TypeInv
  <2> QED
    BY <2>2, <2>3, <2>4
<1>4. IdleCtl \in CtlType /\ IdleCtl.phase = "idle"
  BY DEF IdleCtl, CtlType
<1>5. ASSUME NEW a \in ControlActions, NEW f \in SUBSET {"pause", "cancel"}
      PROVE  Flags(f, a) \in SUBSET {"pause", "cancel"}
  BY <1>5 DEF Flags, ControlActions
<1>6. ASSUME NEW j \in Jobs, NEW a \in Actions, ControlRead(c, j, a)
      PROVE  TypeInv'
  <2>1. rows[j] \in RowType /\ a \in ControlActions
    BY <1>6, ActionsAssumption DEF ControlRead, TypeInv, TypeOK
  <2>2. ctl' \in [Controls -> CtlType]
    BY <1>1, <1>6, <2>1 DEF ControlRead, CtlType
  <2>3. TypeOK'
    BY <1>6, <2>2 DEF ControlRead, TypeInv, TypeOK, CtlType, engineVars, streamVars
  <2>4. ControlOK'
    BY <1>1, <1>6, <2>1 DEF ControlRead, TypeInv, ControlOK
  <2>5. ApplyOK'
    BY <1>6 DEF ControlRead, TypeInv, ApplyOK
  <2> QED
    BY <2>3, <2>4, <2>5 DEF TypeInv
<1>7. CASE ControlNothing(c)
  <2>1. asked' \in [Turns -> SUBSET {"pause", "cancel"}]
    BY <1>7 DEF ControlNothing, Flags, TypeInv, TypeOK
  <2>2. ctl' \in [Controls -> CtlType] /\ ControlOK' /\ ApplyOK'
    BY <1>3, <1>7 DEF ControlNothing, Statuses
  <2>3. TypeOK'
    BY <1>7, <2>1, <2>2 DEF ControlNothing, TypeInv, TypeOK, CtlType, streamVars
  <2> QED
    BY <2>2, <2>3 DEF TypeInv
<1>8. CASE ControlTurn(c)
  <2> DEFINE s == Outcome(ctl[c].action)
             j == ctl[c].job
  <2>1. s \in Statuses /\ j \in Jobs
    BY <1>2, <1>8 DEF ControlTurn, Outcome, Statuses
  <2>2. asked' \in [Turns -> SUBSET {"pause", "cancel"}]
    BY <1>8 DEF ControlTurn, Flags, TypeInv, TypeOK
  <2>3. Publish(j, s) /\ Reply(c, s) /\ ctl[c].phase = "sent"
    BY <1>8 DEF ControlTurn
  <2>4. UNCHANGED <<clock, engine, handle, owed, conn, byId, dbRead, missed, snap, rows,
                    applying, faults>>
    BY <1>8 DEF ControlTurn
  <2> HIDE DEF s, j
  <2>5. ctl' \in [Controls -> CtlType] /\ ControlOK' /\ ApplyOK'
    BY <1>3, <2>1, <2>3, <2>4
  <2>6. /\ latest' \in [Jobs -> EventType \cup {NoEvent}]
        /\ queue' \in Seq(EventType)
    BY <2>1, <2>3, PublishTyped DEF TypeInv
  <2>7. TypeOK'
    BY <2>2, <2>4, <2>5, <2>6 DEF TypeInv, TypeOK, CtlType
  <2> QED
    BY <2>5, <2>7 DEF TypeInv
<1>9. CASE ControlSchedule(c)
  <2>1. engine' \in [Jobs -> TurnPhases \cup ScheduleStates]
    BY <1>9 DEF ControlSchedule, TypeInv, TypeOK, ScheduleStates
  <2>2. ctl' \in [Controls -> CtlType] /\ ControlOK'
    BY <1>1, <1>2, <1>9 DEF ControlSchedule, CtlType, ControlOK, TypeInv
  <2>3. TypeOK'
    BY <1>9, <2>1, <2>2 DEF ControlSchedule, TypeInv, TypeOK, CtlType, streamVars
  <2>4. ApplyOK'
    BY <1>9 DEF ControlSchedule, TypeInv, ApplyOK
  <2> QED
    BY <2>2, <2>3, <2>4 DEF TypeInv
<1>10. CASE ControlPublish(c)
  <2>1. "canceled" \in Statuses /\ ctl[c].phase # "idle" /\ ctl[c].job \in Jobs
    BY <1>2, <1>10 DEF ControlPublish, Statuses
  <2>2. ctl' \in [Controls -> CtlType] /\ ControlOK' /\ ApplyOK'
    BY <1>3, <1>10, <2>1 DEF ControlPublish
  <2>3. /\ latest' \in [Jobs -> EventType \cup {NoEvent}]
        /\ queue' \in Seq(EventType)
    BY <1>10, <2>1, PublishTyped DEF ControlPublish, TypeInv
  <2>4. TypeOK'
    BY <1>10, <2>2, <2>3 DEF ControlPublish, TypeInv, TypeOK, CtlType, engineVars
  <2> QED
    BY <2>2, <2>4 DEF TypeInv
<1>11. CASE ControlWrite(c)
  <2> DEFINE j == ctl[c].job
             old == ctl[c].loaded.status
             r == ctl[c].reply
  <2>1. /\ j \in Jobs /\ rows[j] \in RowType /\ r \in Statuses
        /\ ctl' = [ctl EXCEPT ![c] = IdleCtl]
    BY <1>2, <1>11 DEF ControlWrite
  <2>2. rows' = [rows EXCEPT ![j].status = Column(old, r, @), ![j].last = clock]
    BY <1>11 DEF ControlWrite
  <2>3. clock \in 1..MaxClock /\ rows \in [Jobs -> RowType \cup {NoRow}]
    BY DEF TypeInv, TypeOK
  <2> HIDE DEF j, old, r
  <2>4. rows' \in [Jobs -> RowType \cup {NoRow}] /\ rows'[j] \in RowType
        /\ \A k \in Jobs : rows[k] \in RowType => rows'[k] \in RowType
    BY <2>1, <2>2, <2>3 DEF RowType, Column
  <2>5. ctl' \in [Controls -> CtlType]
    BY <1>1, <1>4, <2>1
  <2>6. TypeOK'
    BY <1>11, <2>4, <2>5 DEF ControlWrite, TypeInv, TypeOK, CtlType, engineVars, streamVars
  <2>7. ControlOK'
    BY <1>1, <1>4, <2>1, <2>4 DEF ControlOK, TypeInv
  <2>8. ApplyOK'
    BY <1>11, <2>4 DEF ControlWrite, ApplyOK, TypeInv, EventType
  <2> QED
    BY <2>6, <2>7, <2>8 DEF TypeInv
<1>12. CASE ControlFails(c)
  <2>1. ctl' \in [Controls -> CtlType] /\ ControlOK'
    BY <1>1, <1>4, <1>12 DEF ControlFails, ControlOK, TypeInv
  <2>2. TypeOK'
    BY <1>12, <2>1 DEF ControlFails, TypeInv, TypeOK, CtlType, engineVars, streamVars
  <2>3. ApplyOK'
    BY <1>12 DEF ControlFails, TypeInv, ApplyOK
  <2> QED
    BY <2>1, <2>2, <2>3 DEF TypeInv
<1> QED
  BY <1>6, <1>7, <1>8, <1>9, <1>10, <1>11, <1>12 DEF ControlStep

LEMMA TypeNext == TypeInv /\ [Next]_vars => TypeInv'
<1> SUFFICES ASSUME TypeInv, [Next]_vars PROVE TypeInv'
  OBVIOUS
<1>1. CASE Tick
  <2>1. TypeOK'
    BY <1>1, BoundsAssumption DEF Tick, TypeInv, TypeOK, engineVars, streamVars
  <2> QED
    BY <1>1, <2>1, RelationsKept DEF Tick, TypeInv
<1>2. CASE UNCHANGED vars
  <2>1. TypeOK'
    BY <1>2 DEF vars, TypeInv, TypeOK
  <2> QED
    BY <1>2, <2>1, RelationsKept DEF vars, TypeInv
<1> QED
  BY <1>1, <1>2, TurnTyped, ScheduleTyped, StreamTyped, SubscriberTyped, ControlTyped DEF Next

(* In every state every variable holds values of the kind the code gives it. *)
THEOREM TypeCorrect == Spec => []TypeOK
<1>1. Spec => []TypeInv
  BY TypeInit, TypeNext, PTL DEF Spec
<1>2. TypeInv => TypeOK
  BY DEF TypeInv
<1> QED
  BY <1>1, <1>2, PTL

-----------------------------------------------------------------------------
(***************************************************************************)
(* The order of a row's times.  Every stamp is a past reading of the       *)
(* clock, a row's started_at is no later than its last_event_at, and while *)
(* the subscriber applies an event nobody else moves the two times it will *)
(* write.                                                                  *)
(***************************************************************************)
HubPast ==
    /\ \A j \in Jobs : latest[j].ts <= clock /\ byId[j].ts <= clock
    /\ \A e \in snap : e.ts <= clock
    /\ \A i \in 1..Len(queue) : queue[i].ts <= clock

StorePast ==
    /\ \A j \in Jobs : rows[j].last <= clock
    /\ applying.event.ts <= clock

Ordered(r) ==
    /\ r.started <= r.last
    /\ r.ended # Null => r.started # Null /\ r.started <= r.ended

RowsOrdered == \A j \in Jobs : Ordered(rows[j])

ApplyOrdered ==
    applying # NoApply =>
        LET e == applying.event
            loaded == applying.loaded
            stored == rows[e.job] IN
        /\ Ordered(loaded)
        /\ loaded.last <= e.ts
        /\ loaded.last <= stored.last
        /\ stored.started = loaded.started
        /\ stored.ended = loaded.ended

OrderInv == TypeInv /\ HubPast /\ StorePast /\ RowsOrdered /\ ApplyOrdered

LEMMA OrderInit == Init => HubPast /\ StorePast /\ RowsOrdered /\ ApplyOrdered
BY BoundsAssumption
   DEF Init, HubPast, StorePast, RowsOrdered, ApplyOrdered, Ordered, NoEvent, NoRow, NoApply, Null

(* The three parts that speak of the store survive what leaves it alone. *)
LEMMA StoreKept ==
    ASSUME StorePast, RowsOrdered, ApplyOrdered, UNCHANGED <<clock, rows, applying>>
    PROVE  StorePast' /\ RowsOrdered' /\ ApplyOrdered'
BY DEF StorePast, RowsOrdered, ApplyOrdered

LEMMA HubKept ==
    ASSUME HubPast, UNCHANGED <<clock, latest, byId, snap, queue>>
    PROVE  HubPast'
BY DEF HubPast

LEMMA PublishPast ==
    ASSUME TypeOK, HubPast, NEW j \in Jobs, NEW s \in Statuses, Publish(j, s),
           UNCHANGED <<clock, byId, snap>>
    PROVE  HubPast'
<1> DEFINE e == Event(j, s, clock)
<1>1. e \in EventType /\ e.ts = clock /\ clock \in Nat
  BY EventTyped, BoundsAssumption DEF Event, TypeOK
<1> HIDE DEF e
<1>2. ASSUME NEW k \in Jobs
      PROVE  latest'[k].ts <= clock
  <2>1. PICK stale \in SUBSET TerminalAt : latest' = [Pruned(stale) EXCEPT ![j] = e]
    BY DEF Publish, e
  <2>2. NoEvent.ts <= clock
    BY <1>1 DEF NoEvent, Null
  <2> QED
    BY <1>1, <2>1, <2>2 DEF Pruned, HubPast
<1>3. ASSUME NEW i \in 1..Len(queue')
      PROVE  queue'[i].ts <= clock
  <2>1. queue \in Seq(EventType)
    BY DEF TypeOK
  <2>2. CASE conn = "down"
    BY <2>2 DEF Publish, HubPast
  <2>3. CASE conn # "down"
    <3>1. queue' = Append(queue, e)
      BY <2>3 DEF Publish, e
    <3>2. CASE i \in 1..Len(queue)
      BY <2>1, <3>1, <3>2, <1>1 DEF HubPast
    <3>3. CASE i = Len(queue) + 1
      BY <2>1, <3>1, <3>3, <1>1
    <3> QED
      BY <2>1, <3>1, <3>2, <3>3, <1>1
  <2> QED
    BY <2>2, <2>3
<1> QED
  BY <1>2, <1>3 DEF HubPast

LEMMA TurnOrdered ==
    ASSUME OrderInv, NEW j \in Turns, TurnStep(j)
    PROVE  HubPast' /\ StorePast' /\ RowsOrdered' /\ ApplyOrdered'
<1>1. UNCHANGED <<clock, byId, snap, rows, applying>>
  BY DEF TurnStep, TurnStart, TurnHold, TurnAwaitApproval, TurnContinue, TurnComplete,
     TurnFail, TurnCancel, TurnForget, Turn, streamVars
<1>2. CASE TurnForget(j)
  BY <1>2, HubKept, StoreKept DEF TurnForget, OrderInv, streamVars
<1>3. CASE ~TurnForget(j)
  <2>1. \E s \in Statuses : Publish(j, s)
    BY <1>3 DEF TurnStep, TurnStart, TurnHold, TurnAwaitApproval, TurnContinue,
       TurnComplete, TurnFail, TurnCancel, Turn, Statuses
  <2> QED
    BY <1>1, <2>1, PublishPast, StoreKept DEF OrderInv, TypeInv, Jobs
<1> QED
  BY <1>2, <1>3

LEMMA ScheduleOrdered ==
    ASSUME OrderInv, NEW j \in Schedules, ScheduleStep(j)
    PROVE  HubPast' /\ StorePast' /\ RowsOrdered' /\ ApplyOrdered'
<1>1. UNCHANGED <<clock, byId, snap, rows, applying>>
  BY DEF ScheduleStep, ScheduleCreate, ScheduleFireOnce, ScheduleAdvance, SchedulePause,
     ScheduleRearm, SchedulePublish, Commit, streamVars
<1>2. CASE SchedulePublish(j)
  <2>1. owed[j] \in Seq(Statuses) /\ owed[j] # <<>>
    BY <1>2 DEF SchedulePublish, OrderInv, TypeInv, TypeOK
  <2>2. Head(owed[j]) \in Statuses
    BY <2>1
  <2> QED
    BY <1>1, <1>2, <2>2, PublishPast, StoreKept DEF SchedulePublish, OrderInv, TypeInv, Jobs
<1>3. CASE ~SchedulePublish(j)
  <2>1. UNCHANGED <<latest, queue>>
    BY <1>3 DEF ScheduleStep, ScheduleCreate, ScheduleFireOnce, ScheduleAdvance,
       SchedulePause, ScheduleRearm, Commit, streamVars
  <2> QED
    BY <1>1, <2>1, HubKept, StoreKept DEF OrderInv
<1> QED
  BY <1>2, <1>3

LEMMA StreamOrdered ==
    ASSUME OrderInv, StreamStep
    PROVE  HubPast' /\ StorePast' /\ RowsOrdered' /\ ApplyOrdered'
<1>1. UNCHANGED <<clock, rows, applying>>
  BY DEF StreamStep, Connect, EnumerateRead, EnumerateFails, EnumerateReturn, Drop, Restart
<1>2. StorePast' /\ RowsOrdered' /\ ApplyOrdered'
  BY <1>1, StoreKept DEF OrderInv
<1>3. clock \in Nat /\ NoEvent.ts <= clock /\ clock' = clock
  BY <1>1, BoundsAssumption DEF OrderInv, TypeInv, TypeOK, NoEvent, Null
<1>4. CASE Connect
  <2>1. PICK stale \in SUBSET TerminalAt : latest' = Pruned(stale)
    BY <1>4 DEF Connect
  <2> QED
    BY <1>2, <1>3, <1>4, <2>1 DEF Connect, Pruned, HubPast, OrderInv
<1>5. CASE EnumerateRead \/ EnumerateFails
  BY <1>2, <1>5, HubKept DEF EnumerateRead, EnumerateFails, OrderInv
<1>6. CASE EnumerateReturn
  <2>1. \A e \in snap' : e.ts <= clock
    BY <1>3, <1>6 DEF EnumerateReturn, OrderInv, HubPast, Event
  <2> QED
    BY <1>2, <1>3, <1>6, <2>1 DEF EnumerateReturn, OrderInv, HubPast
<1>7. CASE Drop
  BY <1>2, <1>3, <1>7 DEF Drop, Disconnected, OrderInv, HubPast
<1>8. CASE Restart
  BY <1>2, <1>3, <1>8 DEF Restart, Disconnected, OrderInv, HubPast
<1> QED
  BY <1>4, <1>5, <1>6, <1>7, <1>8 DEF StreamStep

(* Applying an admitted event keeps the times of a row in order. *)
LEMMA AppliedOrdered ==
    ASSUME NEW e \in EventType, NEW row \in RowType \cup {NoRow},
           Ordered(row), row.last <= e.ts
    PROVE  Ordered(Applied(row, e)) /\ Applied(row, e).last = e.ts
<1>1. e.ts \in Nat \ {0} /\ row.started \in Nat /\ row.ended \in Nat /\ row.last \in Nat
  BY BoundsAssumption DEF EventType, RowType, NoRow, Null
<1>2. IsTerminal(e) => e.status \notin PreExecution
  BY DEF IsTerminal, Terminal, PreExecution
<1> QED
  BY <1>1, <1>2 DEF Applied, Ordered, Null

LEMMA CommitOrdered ==
    ASSUME OrderInv, CommitRow
    PROVE  HubPast' /\ StorePast' /\ RowsOrdered' /\ ApplyOrdered'
<1> DEFINE e == applying.event
           loaded == applying.loaded
           stored == rows[e.job]
           applied == Applied(loaded, e)
           new == Flush(loaded, applied, stored)
<1>1. /\ e \in EventType /\ e.job \in Jobs /\ e.ts <= clock
      /\ loaded \in RowType \cup {NoRow}
      /\ stored \in RowType \cup {NoRow} /\ stored.last <= clock
      /\ Ordered(loaded)
      /\ loaded.last <= e.ts
      /\ loaded.last <= stored.last
      /\ stored.started = loaded.started
      /\ stored.ended = loaded.ended
  BY DEF CommitRow, OrderInv, TypeInv, TypeOK, ApplyOK, EventType, StorePast, ApplyOrdered
<1>2. rows' = [rows EXCEPT ![e.job] = new] /\ applying' = NoApply /\ clock' = clock
  BY DEF CommitRow
<1>3. UNCHANGED <<latest, byId, snap, queue>>
  BY DEF CommitRow, streamVars
<1>4. Ordered(applied) /\ applied.last = e.ts
  BY <1>1, AppliedOrdered
<1>5. new.started = applied.started /\ new.ended = applied.ended
  BY <1>1 DEF Flush, Column
<1>6. new.last \in {e.ts, stored.last} /\ new.last >= e.ts
  <2>1. new.last = IF applied.last = loaded.last THEN stored.last ELSE applied.last
    BY DEF Flush, Column
  <2>2. e.ts \in Nat /\ stored.last \in Nat /\ loaded.last \in Nat
    BY <1>1, BoundsAssumption DEF EventType, RowType, NoRow, Null
  <2> HIDE DEF new, applied, loaded, stored, e
  <2> QED
    BY <1>1, <1>4, <2>1, <2>2
<1>7. Ordered(new) /\ new.last <= clock
  <2>1. /\ e.ts \in Nat /\ stored.last \in Nat /\ applied.started \in Nat
        /\ clock \in Nat
    <3>1. applied \in RowType
      BY <1>1, AppliedTyped
    <3> QED
      BY <1>1, <3>1, BoundsAssumption DEF EventType, RowType, NoRow, Null, OrderInv, TypeInv, TypeOK
  <2> HIDE DEF new, applied, loaded, stored, e
  <2> QED
    BY <1>1, <1>4, <1>5, <1>6, <2>1 DEF Ordered
<1>8. rows \in [Jobs -> RowType \cup {NoRow}]
  BY DEF OrderInv, TypeInv, TypeOK
<1>9. NoApply.event.ts <= clock
  BY BoundsAssumption DEF NoApply, NoEvent, Null, OrderInv, TypeInv, TypeOK
<1> HIDE DEF new, e
<1>10. HubPast'
  BY <1>2, <1>3, HubKept DEF OrderInv
<1>11. StorePast'
  BY <1>1, <1>2, <1>7, <1>8, <1>9 DEF OrderInv, StorePast
<1>12. RowsOrdered'
  BY <1>1, <1>2, <1>7, <1>8 DEF OrderInv, RowsOrdered
<1> QED
  BY <1>2, <1>10, <1>11, <1>12 DEF ApplyOrdered

LEMMA SubscriberOrdered ==
    ASSUME OrderInv, SubscriberStep
    PROVE  HubPast' /\ StorePast' /\ RowsOrdered' /\ ApplyOrdered'
<1>1. ASSUME NEW e \in EventType, Take(e), e.ts <= clock
      PROVE  StorePast' /\ RowsOrdered' /\ ApplyOrdered'
  <2>1. /\ e.job \in Jobs /\ rows[e.job] \in RowType \cup {NoRow}
        /\ UNCHANGED <<clock, rows>>
        /\ applying' = IF Admits(rows[e.job], e)
                       THEN [event |-> e, loaded |-> rows[e.job]] ELSE NoApply
    BY <1>1 DEF Take, EventType, OrderInv, TypeInv, TypeOK
  <2>2. NoApply.event.ts <= clock
    BY BoundsAssumption DEF NoApply, NoEvent, Null, OrderInv, TypeInv, TypeOK
  <2>3. Admits(rows[e.job], e) => rows[e.job].last <= e.ts
    BY <1>1, <2>1, BoundsAssumption DEF Admits, Stale, NoRow, Null, EventType, RowType
  <2>4. StorePast' /\ RowsOrdered'
    BY <1>1, <2>1, <2>2 DEF OrderInv, StorePast, RowsOrdered
  <2>5. ApplyOrdered'
    <3>1. CASE ~Admits(rows[e.job], e)
      BY <2>1, <3>1 DEF ApplyOrdered
    <3>2. CASE Admits(rows[e.job], e)
      <4>1. applying'.event = e /\ applying'.loaded = rows[e.job]
        BY <2>1, <3>2
      <4>2. Ordered(rows[e.job]) /\ rows[e.job].last \in Nat
        BY <2>1, BoundsAssumption DEF OrderInv, RowsOrdered, RowType, NoRow, Null
      <4> QED
        BY <2>1, <2>3, <3>2, <4>1, <4>2 DEF ApplyOrdered
    <3> QED
      BY <3>1, <3>2
  <2> QED
    BY <2>4, <2>5
<1>2. queue \in Seq(EventType) /\ snap \subseteq EventType
  BY DEF OrderInv, TypeInv, TypeOK
<1>3. CASE TakeSnapshot
  <2>1. PICK e \in snap : Take(e) /\ snap' = snap \ {e} /\ UNCHANGED queue
    BY <1>3 DEF TakeSnapshot
  <2>2. HubPast'
    BY <2>1 DEF Take, OrderInv, HubPast
  <2> QED
    BY <1>1, <1>2, <2>1, <2>2 DEF OrderInv, HubPast
<1>4. CASE TakeLive
  <2>1. /\ queue # <<>> /\ queue' = Tail(queue) /\ Take(Head(queue))
        /\ UNCHANGED <<clock, latest, byId, snap>>
    BY <1>4 DEF TakeLive, Take
  <2>2. /\ Head(queue) \in EventType /\ Head(queue) = queue[1] /\ 1 \in 1..Len(queue)
        /\ Len(queue') = Len(queue) - 1
        /\ \A i \in 1..Len(queue') : queue'[i] = queue[i + 1] /\ i + 1 \in 1..Len(queue)
    BY <1>2, <2>1
  <2>3. HubPast'
    BY <2>1, <2>2 DEF OrderInv, HubPast
  <2>4. Head(queue).ts <= clock
    BY <2>2 DEF OrderInv, HubPast
  <2> QED
    BY <1>1, <2>1, <2>2, <2>3, <2>4
<1>5. CASE PersistFails
  <2>1. NoApply.event.ts <= clock
    BY BoundsAssumption DEF NoApply, NoEvent, Null, OrderInv, TypeInv, TypeOK
  <2> QED
    BY <1>5, <2>1, HubKept
       DEF PersistFails, OrderInv, StorePast, RowsOrdered, ApplyOrdered, streamVars
<1> QED
  BY <1>3, <1>4, <1>5, CommitOrdered DEF SubscriberStep

LEMMA ControlOrdered ==
    ASSUME OrderInv, NEW c \in Controls, ControlStep(c)
    PROVE  HubPast' /\ StorePast' /\ RowsOrdered' /\ ApplyOrdered'
<1>1. ctl[c].phase # "idle" => ctl[c].job \in Jobs
  BY DEF OrderInv, TypeInv, ControlOK
<1>2. CASE ControlTurn(c) \/ ControlPublish(c)
  <2>1. PICK s \in Statuses : Publish(ctl[c].job, s)
    BY <1>2 DEF ControlTurn, ControlPublish, Outcome, Statuses
  <2>2. UNCHANGED <<clock, byId, snap, rows, applying>> /\ ctl[c].job \in Jobs
    BY <1>1, <1>2 DEF ControlTurn, ControlPublish
  <2> QED
    BY <2>1, <2>2, PublishPast, StoreKept DEF OrderInv, TypeInv
<1>3. CASE ControlWrite(c)
  <2> DEFINE j == ctl[c].job
  <2>1. /\ j \in Jobs /\ clock' = clock /\ clock \in Nat
        /\ UNCHANGED <<latest, byId, snap, queue, applying>>
        /\ rows \in [Jobs -> RowType \cup {NoRow}]
        /\ rows[j] \in RowType
    BY <1>1, <1>3, BoundsAssumption
       DEF ControlWrite, streamVars, OrderInv, TypeInv, TypeOK, ControlOK
  <2>2. \A k \in Jobs :
          /\ rows'[k].started = rows[k].started
          /\ rows'[k].ended = rows[k].ended
          /\ rows'[k].last = IF k = j THEN clock ELSE rows[k].last
    BY <1>3, <2>1 DEF ControlWrite, RowType
  <2>3. \A k \in Jobs : rows[k].started \in Nat /\ rows[k].last \in Nat
    BY <2>1, BoundsAssumption DEF RowType, NoRow, Null
  <2>4. HubPast' /\ StorePast'
    BY <2>1, <2>2, HubKept DEF OrderInv, StorePast
  <2>5. RowsOrdered'
    <3> SUFFICES ASSUME NEW k \in Jobs PROVE Ordered(rows'[k])
      BY DEF RowsOrdered
    <3>1. Ordered(rows[k]) /\ rows[k].last <= clock
      BY DEF OrderInv, RowsOrdered, StorePast
    <3>2. rows'[k].started <= rows'[k].last
      BY <2>1, <2>2, <2>3, <3>1 DEF Ordered
    <3> QED
      BY <2>2, <3>1, <3>2 DEF Ordered
  <2>6. ApplyOrdered'
    <3> SUFFICES ASSUME applying # NoApply
                 PROVE  LET e == applying.event
                            loaded == applying.loaded
                            stored == rows'[e.job] IN
                        /\ Ordered(loaded)
                        /\ loaded.last <= e.ts
                        /\ loaded.last <= stored.last
                        /\ stored.started = loaded.started
                        /\ stored.ended = loaded.ended
      BY <2>1 DEF ApplyOrdered
    <3>1. applying.event.job \in Jobs /\ applying.event.ts \in Nat /\ applying.event.ts <= clock
      BY BoundsAssumption DEF OrderInv, TypeInv, ApplyOK, EventType, StorePast
    <3>2. applying.loaded.last \in Nat
      BY BoundsAssumption DEF OrderInv, TypeInv, TypeOK, NoApply, RowType, NoRow, Null
    <3>3. /\ Ordered(applying.loaded)
          /\ applying.loaded.last <= applying.event.ts
          /\ applying.loaded.last <= rows[applying.event.job].last
          /\ rows[applying.event.job].started = applying.loaded.started
          /\ rows[applying.event.job].ended = applying.loaded.ended
      BY DEF OrderInv, ApplyOrdered
    <3> QED
      BY <2>1, <2>2, <2>3, <3>1, <3>2, <3>3
  <2> QED
    BY <2>4, <2>5, <2>6
<1>4. CASE ~(ControlTurn(c) \/ ControlPublish(c) \/ ControlWrite(c))
  <2>1. UNCHANGED <<clock, latest, byId, snap, queue, rows, applying>>
    BY <1>4 DEF ControlStep, ControlRead, ControlNothing, ControlSchedule, ControlFails, streamVars
  <2> QED
    BY <2>1, HubKept, StoreKept DEF OrderInv
<1> QED
  BY <1>2, <1>3, <1>4

LEMMA OrderNext == OrderInv /\ [Next]_vars => OrderInv'
<1> SUFFICES ASSUME OrderInv, [Next]_vars PROVE OrderInv'
  OBVIOUS
<1>1. TypeInv'
  BY TypeNext DEF OrderInv
<1>2. CASE Tick
  <2>1. clock \in Nat /\ clock' = clock + 1
    BY <1>2, BoundsAssumption DEF Tick, OrderInv, TypeInv, TypeOK
  <2>2. UNCHANGED <<latest, byId, snap, queue, rows, applying>>
    BY <1>2 DEF Tick, streamVars
  <2>3. /\ \A j \in Jobs : latest[j].ts \in Nat /\ byId[j].ts \in Nat /\ rows[j].last \in Nat
        /\ \A e \in snap : e.ts \in Nat
        /\ \A i \in 1..Len(queue) : queue[i].ts \in Nat
        /\ applying.event.ts \in Nat
    <3>1. \A e \in EventType \cup {NoEvent} : e.ts \in Nat
      BY BoundsAssumption DEF EventType, NoEvent, Null
    <3>2. \A r \in RowType \cup {NoRow} : r.last \in Nat
      BY BoundsAssumption DEF RowType, NoRow, Null
    <3>3. \A i \in 1..Len(queue) : queue[i] \in EventType
      BY DEF OrderInv, TypeInv, TypeOK
    <3>4. applying.event \in EventType \cup {NoEvent}
      BY DEF OrderInv, TypeInv, TypeOK, NoApply
    <3> QED
      BY <3>1, <3>2, <3>3, <3>4 DEF OrderInv, TypeInv, TypeOK
  <2>4. HubPast' /\ StorePast'
    BY <2>1, <2>2, <2>3 DEF OrderInv, HubPast, StorePast
  <2> QED
    BY <1>1, <2>2, <2>4 DEF OrderInv, RowsOrdered, ApplyOrdered
<1>3. CASE UNCHANGED vars
  BY <1>1, <1>3, HubKept, StoreKept DEF vars, OrderInv
<1> QED
  BY <1>1, <1>2, <1>3, TurnOrdered, ScheduleOrdered, StreamOrdered, SubscriberOrdered,
     ControlOrdered DEF Next, OrderInv

(***************************************************************************)
(* Whatever the interleaving of events, control writes and faults, a row   *)
(* that has ended has started, and did not end before it started.          *)
(***************************************************************************)
THEOREM EndedAfterStartedHolds == Spec => []EndedAfterStarted
<1>1. Init => OrderInv
  BY TypeInit, OrderInit DEF OrderInv
<1>2. OrderInv => EndedAfterStarted
  BY DEF OrderInv, RowsOrdered, Ordered, EndedAfterStarted
<1> QED
  BY <1>1, <1>2, OrderNext, PTL DEF Spec

-----------------------------------------------------------------------------
(***************************************************************************)
(* Delivery.  Registering the queue before capturing the snapshot, and     *)
(* reading snapshot before queue, keep the newest event of every active    *)
(* job somewhere ahead of whatever older event of that job the subscriber  *)
(* is about to read or apply.                                              *)
(***************************************************************************)
Holds(q, e) == \E i \in 1..Len(q) : q[i] = e

(* Events are filed under their own job. *)
Filed ==
    /\ \A j \in Jobs : latest[j] # NoEvent => latest[j].job = j
    /\ \A j \in Jobs : byId[j] # NoEvent => byId[j].job = j

(* What the stream holds in each of its phases. *)
StreamShape ==
    /\ conn # "live" => snap = {}
    /\ conn = "down" => queue = <<>>
    /\ applying # NoApply => conn \in {"down", "live"}
    /\ \A e, f \in snap : e.job = f.job => e = f

(* While the snapshot is being built, the newest event of an active job is *)
(* captured or queued.                                                     *)
Captured ==
    conn \in {"capturing", "enumerated"} =>
        \A j \in Jobs : Active(j) => byId[j] = latest[j] \/ Holds(queue, latest[j])

(* An undelivered snapshot event of an active job is the newest one, or    *)
(* the newest one is queued.                                               *)
SnapNewest ==
    \A e \in snap : Active(e.job) => latest[e.job] = e \/ Holds(queue, latest[e.job])

(* Behind every queued event of an active job comes the newest one. *)
QueueNewest ==
    \A i \in 1..Len(queue) : Active(queue[i].job) =>
        \E k \in i..Len(queue) : queue[k] = latest[queue[i].job]

(* An event being applied is the newest one, or the newest one follows it. *)
ApplyNewest ==
    conn = "live" /\ applying # NoApply =>
        LET e == applying.event IN
        Active(e.job) => latest[e.job] = e \/ latest[e.job] \in snap \/ Holds(queue, latest[e.job])

DeliveryInv == Filed /\ StreamShape /\ Captured /\ SnapNewest /\ QueueNewest /\ ApplyNewest

LEMMA DeliveryInit == Init => DeliveryInv
BY DEF Init, DeliveryInv, Filed, StreamShape, Captured, SnapNewest, QueueNewest, ApplyNewest,
   Active, NoApply

LEMMA DeliveryKept ==
    ASSUME DeliveryInv, UNCHANGED <<latest, conn, byId, snap, queue, applying>>
    PROVE  DeliveryInv'
BY DEF DeliveryInv, Filed, StreamShape, Captured, SnapNewest, QueueNewest, ApplyNewest,
   Active, Holds

LEMMA ReachKept ==
    ASSUME ActiveEventReachesStore, UNCHANGED <<latest, conn, byId, snap, queue, applying, rows>>
    PROVE  ActiveEventReachesStore'
BY DEF ActiveEventReachesStore, Active, Pending

(* What a publication does to the hub and to a registered queue. *)
Published(j) ==
    /\ latest'[j].job = j /\ latest'[j] # NoEvent
    /\ \A k \in Jobs : k # j => latest'[k] = latest[k] \/ latest'[k] = NoEvent
    /\ conn = "down" => queue' = queue
    /\ conn # "down" =>
         /\ Len(queue') = Len(queue) + 1 /\ Len(queue) \in Nat
         /\ queue'[Len(queue) + 1] = latest'[j]
         /\ \A i \in 1..Len(queue) : queue'[i] = queue[i]

LEMMA PublishEffect ==
    ASSUME TypeOK, NEW j \in Jobs, NEW s \in Statuses, Publish(j, s)
    PROVE  Published(j)
<1> DEFINE e == Event(j, s, clock)
<1>1. e \in EventType /\ e.job = j
  BY EventTyped DEF Event
<1>2. e # NoEvent
  BY <1>1, Constants
<1> HIDE DEF e
<1>3. PICK stale \in SUBSET TerminalAt : latest' = [Pruned(stale) EXCEPT ![j] = e]
  BY DEF Publish, e
<1>4. latest'[j] = e /\ \A k \in Jobs : k # j => latest'[k] = latest[k] \/ latest'[k] = NoEvent
  BY <1>3 DEF Pruned
<1>5. CASE conn = "down"
  BY <1>1, <1>2, <1>4, <1>5 DEF Publish, Published
<1>6. CASE conn # "down"
  <2>1. queue' = Append(queue, e) /\ queue \in Seq(EventType)
    BY <1>6 DEF Publish, TypeOK, e
  <2> QED
    BY <1>1, <1>2, <1>4, <1>6, <2>1 DEF Published
<1> QED
  BY <1>5, <1>6

LEMMA PublishDelivers ==
    ASSUME TypeOK, DeliveryInv, ActiveEventReachesStore,
           NEW j \in Jobs, NEW s \in Statuses, Publish(j, s),
           UNCHANGED <<conn, byId, snap, applying, rows>>
    PROVE  DeliveryInv' /\ ActiveEventReachesStore'
<1>0. Published(j)
  BY PublishEffect
<1> USE <1>0 DEF Published, Active
<1>1. \A k \in Jobs : k # j /\ Active(k)' => Active(k) /\ latest'[k] = latest[k]
  BY DEF Active
<1>2. \A x : Holds(queue, x) /\ conn # "down" => Holds(queue', x)
  BY DEF Holds
<1>3. conn # "down" => Holds(queue', latest'[j])
  <2> SUFFICES ASSUME conn # "down" PROVE Holds(queue', latest'[j])
    OBVIOUS
  <2>1. Len(queue) + 1 \in 1..Len(queue')
    OBVIOUS
  <2> QED
    BY <2>1 DEF Holds
<1>4. Filed'
  BY DEF DeliveryInv, Filed
<1>5. StreamShape'
  BY DEF DeliveryInv, StreamShape
<1>6. Captured'
  BY <1>1, <1>2, <1>3 DEF DeliveryInv, Captured
<1>7. SnapNewest'
  <2> SUFFICES ASSUME NEW e \in snap, Active(e.job)'
               PROVE  latest'[e.job] = e \/ Holds(queue', latest'[e.job])
    BY DEF SnapNewest
  <2>1. conn # "down" /\ e.job \in Jobs
    BY DEF DeliveryInv, StreamShape, TypeOK, EventType
  <2>2. CASE e.job = j
    BY <1>3, <2>1, <2>2
  <2>3. CASE e.job # j
    BY <1>1, <1>2, <2>1, <2>3 DEF DeliveryInv, SnapNewest
  <2> QED
    BY <2>2, <2>3
<1>8. QueueNewest'
  <2> SUFFICES ASSUME NEW i \in 1..Len(queue'), Active(queue[i].job)'
               PROVE  \E k \in i..Len(queue') : queue'[k] = latest'[queue'[i].job]
    BY DEF QueueNewest
  <2>1. CASE conn = "down"
    BY <2>1 DEF DeliveryInv, StreamShape
  <2>2. CASE conn # "down"
    <3>1. CASE queue'[i].job = j
      <4>1. Len(queue) + 1 \in i..Len(queue')
        BY <2>2
      <4> QED
        BY <2>2, <3>1, <4>1
    <3>2. CASE queue'[i].job # j
      <4>1. i \in 1..Len(queue) /\ queue'[i] = queue[i]
        BY <2>2, <3>2
      <4>2. queue[i].job \in Jobs
        <5>1. queue \in Seq(EventType)
          BY DEF TypeOK
        <5>2. queue[i] \in EventType
          BY <4>1, <5>1
        <5> QED
          BY <5>2 DEF EventType
      <4>3. PICK k \in i..Len(queue) : queue[k] = latest[queue[i].job]
        <5>1. Active(queue[i].job)
          BY <1>1, <3>2, <4>1, <4>2
        <5> QED
          BY <4>1, <5>1 DEF DeliveryInv, QueueNewest
      <4>4. k \in i..Len(queue') /\ k \in 1..Len(queue)
        BY <2>2, <4>1
      <4> QED
        BY <1>1, <2>2, <3>2, <4>1, <4>2, <4>3, <4>4
    <3> QED
      BY <3>1, <3>2
  <2> QED
    BY <2>1, <2>2
<1>9. ApplyNewest'
  <2> SUFFICES ASSUME conn = "live", applying # NoApply, Active(applying.event.job)'
               PROVE  LET e == applying.event IN
                      latest'[e.job] = e \/ latest'[e.job] \in snap \/ Holds(queue', latest'[e.job])
    BY DEF ApplyNewest
  <2>1. applying.event.job \in Jobs
    BY DEF TypeOK, EventType
  <2>2. CASE applying.event.job = j
    BY <1>3, <2>2
  <2>3. CASE applying.event.job # j
    BY <1>1, <1>2, <2>1, <2>3 DEF DeliveryInv, ApplyNewest
  <2> QED
    BY <2>2, <2>3
<1>10. ActiveEventReachesStore'
  <2> SUFFICES ASSUME NEW k \in Jobs, conn # "down", Active(k)'
               PROVE  \/ Pending(latest[k])'
                      \/ rows[k].status \in Terminal
                      \/ rows[k].last >= latest'[k].ts
    BY DEF ActiveEventReachesStore
  <2>1. CASE k = j
    BY <1>3, <2>1 DEF Pending, Holds
  <2>2. CASE k # j
    <3>1. Pending(latest[k]) => Pending(latest[k])'
      BY <1>1, <1>2, <2>2 DEF Pending, Holds
    <3> QED
      BY <1>1, <2>2, <3>1 DEF ActiveEventReachesStore
  <2> QED
    BY <2>1, <2>2
<1> QED
  BY <1>4, <1>5, <1>6, <1>7, <1>8, <1>9, <1>10 DEF DeliveryInv

ReachInv == OrderInv /\ DeliveryInv /\ ActiveEventReachesStore

LEMMA TurnDelivers ==
    ASSUME ReachInv, NEW j \in Turns, TurnStep(j)
    PROVE  DeliveryInv' /\ ActiveEventReachesStore'
<1>1. UNCHANGED <<conn, byId, snap, rows, applying>>
  BY DEF TurnStep, TurnStart, TurnHold, TurnAwaitApproval, TurnContinue, TurnComplete,
     TurnFail, TurnCancel, TurnForget, Turn, streamVars
<1>2. CASE TurnForget(j)
  BY <1>2, DeliveryKept, ReachKept DEF TurnForget, ReachInv, streamVars
<1>3. CASE ~TurnForget(j)
  <2>1. \E s \in Statuses : Publish(j, s)
    BY <1>3 DEF TurnStep, TurnStart, TurnHold, TurnAwaitApproval, TurnContinue,
       TurnComplete, TurnFail, TurnCancel, Turn, Statuses
  <2> QED
    BY <1>1, <2>1, PublishDelivers DEF ReachInv, OrderInv, TypeInv, Jobs
<1> QED
  BY <1>2, <1>3

LEMMA ScheduleDelivers ==
    ASSUME ReachInv, NEW j \in Schedules, ScheduleStep(j)
    PROVE  DeliveryInv' /\ ActiveEventReachesStore'
<1>1. UNCHANGED <<conn, byId, snap, rows, applying>>
  BY DEF ScheduleStep, ScheduleCreate, ScheduleFireOnce, ScheduleAdvance, SchedulePause,
     ScheduleRearm, SchedulePublish, Commit, streamVars
<1>2. CASE SchedulePublish(j)
  <2>1. owed[j] \in Seq(Statuses) /\ owed[j] # <<>>
    BY <1>2 DEF SchedulePublish, ReachInv, OrderInv, TypeInv, TypeOK
  <2>2. Head(owed[j]) \in Statuses
    BY <2>1
  <2> QED
    BY <1>1, <1>2, <2>2, PublishDelivers DEF SchedulePublish, ReachInv, OrderInv, TypeInv, Jobs
<1>3. CASE ~SchedulePublish(j)
  <2>1. UNCHANGED <<latest, queue>>
    BY <1>3 DEF ScheduleStep, ScheduleCreate, ScheduleFireOnce, ScheduleAdvance,
       SchedulePause, ScheduleRearm, Commit, streamVars
  <2> QED
    BY <1>1, <2>1, DeliveryKept, ReachKept DEF ReachInv
<1> QED
  BY <1>2, <1>3

LEMMA StreamDelivers ==
    ASSUME ReachInv, StreamStep
    PROVE  DeliveryInv' /\ ActiveEventReachesStore'
<1>1. Filed /\ StreamShape /\ Captured /\ ActiveEventReachesStore
  BY DEF ReachInv, DeliveryInv
<1>2. CASE Connect
  <2>1. PICK stale \in SUBSET TerminalAt : latest' = Pruned(stale)
    BY <1>2 DEF Connect
  <2>2. /\ conn = "down" /\ applying = NoApply /\ conn' = "capturing"
        /\ snap = {} /\ queue = <<>>
        /\ UNCHANGED <<snap, queue, applying, rows>>
        /\ byId' = [j \in Jobs |-> IF IsTerminal(latest[j]) THEN NoEvent ELSE latest[j]]
    BY <1>1, <1>2 DEF Connect, StreamShape
  <2>3. \A j \in Jobs : latest'[j] = latest[j] \/ latest'[j] = NoEvent
    BY <2>1 DEF Pruned
  <2>4. \A j \in Jobs : Active(j)' => byId'[j] = latest'[j] /\ byId'[j].job = j
    BY <1>1, <2>2, <2>3 DEF Active, Filed
  <2>5. Filed'
    BY <1>1, <2>2, <2>3 DEF Filed
  <2>6. StreamShape' /\ Captured' /\ SnapNewest' /\ QueueNewest' /\ ApplyNewest'
    BY <2>2, <2>4 DEF StreamShape, Captured, SnapNewest, QueueNewest, ApplyNewest, Active
  <2>7. ActiveEventReachesStore'
    BY <2>2, <2>4 DEF ActiveEventReachesStore, Pending, Active
  <2> QED
    BY <2>5, <2>6, <2>7 DEF DeliveryInv
<1>3. CASE EnumerateRead \/ EnumerateFails
  <2>1. /\ conn = "capturing" /\ conn' = "enumerated"
        /\ UNCHANGED <<latest, byId, snap, queue, applying, rows>>
    BY <1>3 DEF EnumerateRead, EnumerateFails
  <2>2. DeliveryInv'
    BY <2>1 DEF ReachInv, DeliveryInv, Filed, StreamShape, Captured, SnapNewest,
       QueueNewest, ApplyNewest, Active, Holds
  <2>3. ActiveEventReachesStore'
    BY <1>1, <2>1 DEF ActiveEventReachesStore, Pending, Active
  <2> QED
    BY <2>2, <2>3
<1>4. CASE EnumerateReturn
  <2>1. /\ conn = "enumerated" /\ conn' = "live"
        /\ UNCHANGED <<latest, queue, applying, rows>> /\ byId' = [j \in Jobs |-> NoEvent]
        /\ applying = NoApply /\ snap = {}
        /\ snap' = {byId[j] : j \in {k \in Jobs : byId[k] # NoEvent}}
             \cup {Event(j, "scheduled", clock) : j \in {k \in dbRead : byId[k] = NoEvent}}
    BY <1>1, <1>4 DEF EnumerateReturn, StreamShape
  <2>2. dbRead \subseteq Jobs
    BY DEF ReachInv, OrderInv, TypeInv, TypeOK, Jobs
  <2>3. \A e \in snap' : /\ e.job \in Jobs
                         /\ byId[e.job] # NoEvent => e = byId[e.job]
                         /\ byId[e.job] = NoEvent => e = Event(e.job, "scheduled", clock)
    BY <1>1, <2>1, <2>2 DEF Filed, Event
  <2>4. \A j \in Jobs : Active(j) => latest[j] \in snap' \/ Holds(queue, latest[j])
    BY <1>1, <2>1 DEF Captured, Active
  <2>5. Filed' /\ StreamShape' /\ Captured' /\ ApplyNewest'
    BY <1>1, <2>1, <2>3 DEF Filed, StreamShape, Captured, ApplyNewest
  <2>6. SnapNewest'
    <3> SUFFICES ASSUME NEW e \in snap', Active(e.job)
                 PROVE  latest[e.job] = e \/ Holds(queue, latest[e.job])
      BY <2>1 DEF SnapNewest, Active
    <3>1. e.job \in Jobs /\ latest[e.job] # NoEvent
      BY <2>3 DEF Active
    <3>2. byId[e.job] = latest[e.job] \/ Holds(queue, latest[e.job])
      BY <1>1, <2>1, <3>1 DEF Captured
    <3> QED
      BY <2>3, <3>1, <3>2
  <2>7. QueueNewest'
    BY <2>1 DEF ReachInv, DeliveryInv, QueueNewest, Active
  <2>8. ActiveEventReachesStore'
    BY <2>1, <2>4 DEF ActiveEventReachesStore, Pending, Active, Holds
  <2> QED
    BY <2>5, <2>6, <2>7, <2>8 DEF DeliveryInv
<1>5. ASSUME Disconnected, \A j \in Jobs : latest'[j] = latest[j] \/ latest'[j] = NoEvent,
             UNCHANGED applying
      PROVE  DeliveryInv' /\ ActiveEventReachesStore'
  BY <1>1, <1>5 DEF Disconnected, DeliveryInv, Filed, StreamShape, Captured, SnapNewest,
     QueueNewest, ApplyNewest, ActiveEventReachesStore
<1>6. CASE Drop
  BY <1>5, <1>6 DEF Drop
<1>7. CASE Restart
  BY <1>5, <1>7 DEF Restart
<1> QED
  BY <1>2, <1>3, <1>4, <1>6, <1>7 DEF StreamStep

(* A taken event is refused only by a row that needs it no more. *)
LEMMA RefusedIsCovered ==
    ASSUME NEW row \in RowType \cup {NoRow}, NEW e \in EventType, ~Admits(row, e), ~IsTerminal(e)
    PROVE  row.status \in Terminal \/ row.last >= e.ts
<1>1. e.ts \in Nat /\ row.last \in Nat
  BY BoundsAssumption DEF EventType, RowType, NoRow, Null
<1> QED
  BY <1>1 DEF Admits, Absorbed, Stale

LEMMA TakeDelivers ==
    ASSUME ReachInv, NEW e \in EventType, Take(e),
           Active(e.job) => \/ latest[e.job] = e
                            \/ latest[e.job] \in snap'
                            \/ Holds(queue', latest[e.job]),
           \A x : x \in snap => x = e \/ x \in snap',
           \A x : Holds(queue, x) => x = e \/ Holds(queue', x)
    PROVE  ApplyNewest' /\ ActiveEventReachesStore'
<1>1. /\ conn = "live" /\ applying = NoApply
      /\ UNCHANGED <<latest, conn, byId, rows>>
      /\ applying' = IF Admits(rows[e.job], e)
                     THEN [event |-> e, loaded |-> rows[e.job]] ELSE NoApply
  BY DEF Take
<1>2. ApplyNewest'
  BY <1>1 DEF ApplyNewest, Active
<1>3. ActiveEventReachesStore'
  <2> SUFFICES ASSUME NEW j \in Jobs, Active(j)
               PROVE  \/ Pending(latest[j])'
                      \/ rows[j].status \in Terminal
                      \/ rows[j].last >= latest[j].ts
    BY <1>1 DEF ActiveEventReachesStore, Active
  <2>1. CASE latest[j] = e /\ Admits(rows[e.job], e)
    BY <1>1, <2>1 DEF Pending
  <2>2. CASE latest[j] = e /\ ~Admits(rows[e.job], e)
    <3>1. e.job = j /\ ~IsTerminal(e) /\ rows[j] \in RowType \cup {NoRow}
      BY <2>2 DEF Active, ReachInv, DeliveryInv, Filed, OrderInv, TypeInv, TypeOK
    <3> QED
      BY <2>2, <3>1, RefusedIsCovered
  <2>3. CASE latest[j] # e
    <3>1. Pending(latest[j]) => latest[j] \in snap \/ Holds(queue, latest[j])
      BY <1>1 DEF Pending, Holds, Active, NoApply
    <3>2. latest[j] \in snap \/ Holds(queue, latest[j]) => Pending(latest[j])'
      BY <1>1, <2>3 DEF Pending, Holds
    <3> QED
      BY <1>1, <3>1, <3>2 DEF ReachInv, ActiveEventReachesStore
  <2> QED
    BY <2>1, <2>2, <2>3
<1> QED
  BY <1>2, <1>3

LEMMA SnapshotDelivers ==
    ASSUME ReachInv, TakeSnapshot
    PROVE  DeliveryInv' /\ ActiveEventReachesStore'
<1>1. PICK e \in snap : Take(e) /\ snap' = snap \ {e} /\ UNCHANGED queue
  BY DEF TakeSnapshot
<1>2. /\ conn = "live" /\ UNCHANGED <<latest, conn, byId>>
      /\ snap \subseteq EventType
      /\ Filed /\ StreamShape /\ SnapNewest /\ QueueNewest
  BY <1>1 DEF Take, ReachInv, OrderInv, TypeInv, TypeOK, DeliveryInv
<1>3. ApplyNewest' /\ ActiveEventReachesStore'
  BY <1>1, <1>2, TakeDelivers DEF SnapNewest
<1>4. Filed' /\ Captured' /\ QueueNewest'
  BY <1>1, <1>2 DEF Filed, Captured, QueueNewest, Active
<1>5. StreamShape'
  BY <1>1, <1>2 DEF StreamShape
<1>6. SnapNewest'
  BY <1>1, <1>2 DEF SnapNewest, StreamShape, Active
<1> QED
  BY <1>3, <1>4, <1>5, <1>6 DEF DeliveryInv

LEMMA LiveDelivers ==
    ASSUME ReachInv, TakeLive
    PROVE  DeliveryInv' /\ ActiveEventReachesStore'
<1> DEFINE e == Head(queue)
<1>1. /\ snap = {} /\ snap' = {} /\ queue # <<>> /\ queue' = Tail(queue) /\ Take(e)
      /\ conn = "live" /\ UNCHANGED <<latest, conn, byId>>
      /\ queue \in Seq(EventType)
      /\ Filed /\ StreamShape /\ QueueNewest
  BY DEF TakeLive, Take, ReachInv, OrderInv, TypeInv, TypeOK, DeliveryInv
<1>2. /\ e \in EventType /\ e = queue[1] /\ 1 \in 1..Len(queue) /\ Len(queue) \in Nat
      /\ Len(queue') = Len(queue) - 1
      /\ \A i \in 1..Len(queue') : queue'[i] = queue[i + 1] /\ i + 1 \in 1..Len(queue)
  BY <1>1
<1> HIDE DEF e
<1>3. ASSUME NEW i \in 1..Len(queue), queue[i] # e
      PROVE  i - 1 \in 1..Len(queue') /\ queue'[i - 1] = queue[i]
  <2>1. i # 1
    BY <1>2, <1>3
  <2>2. i - 1 \in 1..Len(queue')
    BY <1>2, <2>1
  <2> QED
    BY <1>2, <2>2
<1>4. \A x : Holds(queue, x) => x = e \/ Holds(queue', x)
  BY <1>3 DEF Holds
<1>5. Active(e.job) => Holds(queue, latest[e.job])
  <2> SUFFICES ASSUME Active(queue[1].job) PROVE Holds(queue, latest[queue[1].job])
    BY <1>2
  <2>1. PICK k \in 1..Len(queue) : queue[k] = latest[queue[1].job]
    BY <1>1, <1>2 DEF QueueNewest
  <2> QED
    BY <2>1 DEF Holds
<1>6. ApplyNewest' /\ ActiveEventReachesStore'
  BY <1>1, <1>2, <1>4, <1>5, TakeDelivers
<1>7. Filed' /\ StreamShape' /\ Captured' /\ SnapNewest'
  BY <1>1 DEF Filed, StreamShape, Captured, SnapNewest
<1>8. QueueNewest'
  <2> SUFFICES ASSUME NEW i \in 1..Len(queue'), Active(queue[i + 1].job)
               PROVE  \E k \in i..Len(queue') : queue'[k] = latest[queue'[i].job]
    BY <1>1, <1>2 DEF QueueNewest, Active
  <2>1. i + 1 \in 1..Len(queue) /\ queue'[i] = queue[i + 1]
    BY <1>2
  <2>2. PICK k \in (i + 1)..Len(queue) : queue[k] = latest[queue[i + 1].job]
    BY <1>1, <2>1 DEF QueueNewest
  <2>3. k - 1 \in i..Len(queue') /\ k - 1 \in 1..Len(queue') /\ (k - 1) + 1 = k
    BY <1>2, <2>1
  <2>4. queue'[k - 1] = queue[k]
    BY <1>2, <2>3
  <2> QED
    BY <2>1, <2>2, <2>3, <2>4
<1> QED
  BY <1>6, <1>7, <1>8 DEF DeliveryInv

LEMMA CommitDelivers ==
    ASSUME ReachInv, CommitRow
    PROVE  DeliveryInv' /\ ActiveEventReachesStore'
<1> DEFINE e == applying.event
           loaded == applying.loaded
           stored == rows[e.job]
           applied == Applied(loaded, e)
           new == Flush(loaded, applied, stored)
<1>1. /\ applying # NoApply /\ applying' = NoApply
      /\ UNCHANGED <<latest, conn, byId, snap, queue>>
      /\ rows' = [rows EXCEPT ![e.job] = new]
      /\ rows \in [Jobs -> RowType \cup {NoRow}]
      /\ e \in EventType /\ e.job \in Jobs
      /\ loaded \in RowType \cup {NoRow}
      /\ loaded.last <= stored.last
  BY DEF CommitRow, streamVars, ReachInv, OrderInv, TypeInv, TypeOK, ApplyOK, ApplyOrdered, EventType
<1>2. new.last >= e.ts
  <2>1. new.last = IF applied.last = loaded.last THEN stored.last ELSE applied.last
    BY DEF Flush, Column
  <2>2. applied.last = e.ts
    BY DEF Applied
  <2>3. e.ts \in Nat /\ stored.last \in Nat /\ loaded.last \in Nat
    BY <1>1, BoundsAssumption DEF EventType, RowType, NoRow, Null
  <2> HIDE DEF new, applied, loaded, stored, e
  <2> QED
    BY <1>1, <2>1, <2>2, <2>3
<1>3. conn \in {"down", "live"}
  BY <1>1 DEF ReachInv, DeliveryInv, StreamShape
<1>4. DeliveryInv'
  BY <1>1 DEF ReachInv, DeliveryInv, Filed, StreamShape, Captured, SnapNewest, QueueNewest,
     ApplyNewest, Active, Holds
<1>5. ActiveEventReachesStore'
  <2> SUFFICES ASSUME NEW j \in Jobs, conn = "live", Active(j)
               PROVE  \/ Pending(latest[j])'
                      \/ rows'[j].status \in Terminal
                      \/ rows'[j].last >= latest[j].ts
    BY <1>1, <1>3 DEF ActiveEventReachesStore, Active
  <2>1. latest[j] \in snap \/ Holds(queue, latest[j]) => Pending(latest[j])'
    BY <1>1 DEF Pending, Holds
  <2>2. CASE latest[j] = e
    <3>1. e.job = j
      BY <2>2 DEF Active, ReachInv, DeliveryInv, Filed
    <3>2. rows'[j] = new
      BY <1>1, <3>1
    <3> QED
      BY <1>2, <2>2, <3>2
  <2>3. CASE latest[j] # e /\ e.job = j
    BY <1>1, <2>1, <2>3 DEF ReachInv, DeliveryInv, ApplyNewest
  <2>4. CASE latest[j] # e /\ e.job # j
    <3>1. rows'[j] = rows[j]
      BY <1>1, <2>4
    <3>2. Pending(latest[j]) => latest[j] \in snap \/ Holds(queue, latest[j])
      BY <2>4 DEF Pending, Holds
    <3> QED
      BY <2>1, <3>1, <3>2 DEF ReachInv, ActiveEventReachesStore
  <2> QED
    BY <2>2, <2>3, <2>4
<1> QED
  BY <1>4, <1>5

LEMMA ControlDelivers ==
    ASSUME ReachInv, NEW c \in Controls, ControlStep(c)
    PROVE  DeliveryInv' /\ ActiveEventReachesStore'
<1>1. ctl[c].phase # "idle" => ctl[c].job \in Jobs
  BY DEF ReachInv, OrderInv, TypeInv, ControlOK
<1>2. CASE ControlTurn(c) \/ ControlPublish(c)
  <2>1. PICK s \in Statuses : Publish(ctl[c].job, s)
    BY <1>2 DEF ControlTurn, ControlPublish, Outcome, Statuses
  <2>2. UNCHANGED <<conn, byId, snap, rows, applying>> /\ ctl[c].job \in Jobs
    BY <1>1, <1>2 DEF ControlTurn, ControlPublish
  <2> QED
    BY <2>1, <2>2, PublishDelivers DEF ReachInv, OrderInv, TypeInv
<1>3. CASE ControlWrite(c)
  <2> DEFINE j == ctl[c].job
  <2>1. /\ j \in Jobs
        /\ UNCHANGED <<clock, latest, conn, byId, snap, queue, applying>>
        /\ rows \in [Jobs -> RowType \cup {NoRow}]
        /\ rows[j] \in RowType
    BY <1>1, <1>3 DEF ControlWrite, streamVars, ReachInv, OrderInv, TypeInv, TypeOK, ControlOK
  <2>2. /\ rows'[j].last = clock
        /\ \A k \in Jobs : k # j => rows'[k] = rows[k]
    BY <1>3, <2>1 DEF ControlWrite, RowType
  <2>3. \A k \in Jobs : latest[k].ts <= clock /\ latest[k].ts \in Nat /\ clock \in Nat
    BY BoundsAssumption
       DEF ReachInv, OrderInv, TypeInv, TypeOK, HubPast, EventType, NoEvent, Null
  <2>4. DeliveryInv'
    BY <2>1, DeliveryKept DEF ReachInv
  <2>5. ActiveEventReachesStore'
    <3> SUFFICES ASSUME NEW k \in Jobs, conn # "down", Active(k)
                 PROVE  \/ Pending(latest[k])
                        \/ rows'[k].status \in Terminal
                        \/ rows'[k].last >= latest[k].ts
      BY <2>1 DEF ActiveEventReachesStore, Active, Pending
    <3>1. CASE k = j
      BY <2>2, <2>3, <3>1
    <3>2. CASE k # j
      BY <2>2, <3>2 DEF ReachInv, ActiveEventReachesStore
    <3> QED
      BY <3>1, <3>2
  <2> QED
    BY <2>4, <2>5
<1>4. CASE ~(ControlTurn(c) \/ ControlPublish(c) \/ ControlWrite(c))
  <2>1. UNCHANGED <<latest, conn, byId, snap, queue, rows, applying>>
    BY <1>4 DEF ControlStep, ControlRead, ControlNothing, ControlSchedule, ControlFails, streamVars
  <2> QED
    BY <2>1, DeliveryKept, ReachKept DEF ReachInv
<1> QED
  BY <1>2, <1>3, <1>4

LEMMA ReachNext ==
    ASSUME "persist" \notin Faults, ReachInv, [Next]_vars
    PROVE  ReachInv'
<1>1. OrderInv'
  BY OrderNext DEF ReachInv
<1>2. CASE Tick \/ UNCHANGED vars
  <2>1. UNCHANGED <<latest, conn, byId, snap, queue, rows, applying>>
    BY <1>2 DEF Tick, vars, streamVars
  <2> QED
    BY <1>1, <2>1, DeliveryKept, ReachKept DEF ReachInv
<1>3. ~PersistFails
  BY DEF PersistFails, Fault
<1>4. SubscriberStep => TakeSnapshot \/ TakeLive \/ CommitRow
  BY <1>3 DEF SubscriberStep
<1> QED
  BY <1>1, <1>2, <1>4, TurnDelivers, ScheduleDelivers, StreamDelivers, SnapshotDelivers,
     LiveDelivers, CommitDelivers, ControlDelivers DEF Next, ReachInv

(***************************************************************************)
(* Unless the store's database refuses a write, no active event falls into *)
(* a gap between the hub and the store, whatever drops, restarts and       *)
(* concurrent control requests happen, for any number of jobs.             *)
(***************************************************************************)
THEOREM ActiveEventReachesStoreHolds ==
    ASSUME "persist" \notin Faults
    PROVE  Spec => []ActiveEventReachesStore
<1>1. Init => ReachInv
  BY TypeInit, OrderInit, DeliveryInit
     DEF ReachInv, OrderInv, ActiveEventReachesStore, Init
<1>2. ReachInv /\ [Next]_vars => ReachInv'
  BY ReachNext
<1>3. ReachInv => ActiveEventReachesStore
  BY DEF ReachInv
<1> QED
  BY <1>1, <1>2, <1>3, PTL DEF Spec

-----------------------------------------------------------------------------
(***************************************************************************)
(* Truth.  Whatever says that a job has ended, an event anywhere on its    *)
(* way, a reply or a row, says so of a job that has ended, or of a turn    *)
(* that was told to cancel; and a job that is over stays over.             *)
(***************************************************************************)
Over(j) ==
    \/ engine[j] \in Terminal \cup {"lost"}
    \/ j \in Turns /\ "cancel" \in asked[j]

Told(j, status) ==
    /\ status \in Terminal => Over(j)
    /\ j \in Turns => engine[j] # "none"

Known(e) ==
    \/ \E j \in Jobs : latest[j] = e \/ byId[j] = e
    \/ e \in snap \/ Holds(queue, e) \/ applying.event = e

EventsTold == \A e \in EventType : Known(e) => Told(e.job, e.status)

(* A turn in memory has its handle, and the hub its event unless it is over. *)
HandlesFit ==
    \A j \in Turns :
        /\ engine[j] \in TurnPhases
        /\ handle[j] \/ asked[j] # {} => engine[j] # "none"
        /\ engine[j] \in {"running", "held", "awaiting"} => handle[j]
        /\ latest[j] = NoEvent /\ handle[j] => Over(j)

(* What a schedule owes the hub is what its poller committed. *)
OwedTold ==
    \A j \in Schedules :
        /\ engine[j] \in ScheduleStates
        /\ \A i \in 1..Len(owed[j]) : Told(j, owed[j][i])

RowsTold ==
    \A j \in Jobs : rows[j] # NoRow /\ (j \in Turns \/ Controls = {}) => Told(j, rows[j].status)

RepliesTold ==
    \A c \in Controls :
        /\ ctl[c].phase = "replied" /\ ctl[c].job \in Turns => Told(ctl[c].job, ctl[c].reply)
        /\ ctl[c].phase = "publishing" =>
              ctl[c].job \in Schedules /\ engine[ctl[c].job] = "canceled"

TruthInv == TypeInv /\ Filed /\ EventsTold /\ HandlesFit /\ OwedTold /\ RowsTold /\ RepliesTold

(* A job that is over stays over, and a turn that has begun has begun. *)
Lasts ==
    \A j \in Jobs :
        /\ Over(j) => Over(j)'
        /\ j \in Turns /\ engine[j] # "none" => engine'[j] # "none"

LEMMA OverLasts ==
    ASSUME TruthInv, [Next]_vars
    PROVE  Lasts
<1>0. TypeOK /\ HandlesFit /\ OwedTold
  BY DEF TruthInv, TypeInv
<1>1. ASSUME UNCHANGED <<engine, asked>>
      PROVE  Lasts
  BY <1>1 DEF Lasts, Over
<1>2. ASSUME NEW j \in Turns, TurnStep(j)
      PROVE  Lasts
  <2>1. CASE TurnForget(j)
    BY <1>1, <2>1 DEF TurnForget
  <2>2. CASE ~TurnForget(j)
    <3>1. /\ asked' = asked /\ engine[j] \notin Terminal \cup {"lost"}
          /\ \E to \in TurnPhases \ {"none"} : engine' = [engine EXCEPT ![j] = to]
      BY <1>2, <2>2 DEF TurnStep, TurnStart, TurnHold, TurnAwaitApproval, TurnContinue,
         TurnComplete, TurnFail, TurnCancel, Turn, TurnPhases, Terminal
    <3> QED
      BY <1>0, <3>1 DEF Lasts, Over, TypeOK
  <2> QED
    BY <2>1, <2>2
<1>3. ASSUME NEW j \in Schedules, ScheduleStep(j)
      PROVE  Lasts
  <2>1. CASE SchedulePublish(j)
    BY <1>1, <2>1 DEF SchedulePublish
  <2>2. CASE ~SchedulePublish(j)
    <3>1. /\ asked' = asked /\ engine[j] \in {"none", "scheduled", "paused"}
          /\ \E to \in ScheduleStates : engine' = [engine EXCEPT ![j] = to]
      BY <1>3, <2>2 DEF ScheduleStep, ScheduleCreate, ScheduleFireOnce, ScheduleAdvance,
         SchedulePause, ScheduleRearm, Commit, ScheduleStates
    <3> QED
      BY <1>0, <3>1, JobsAssumption DEF Lasts, Over, TypeOK, Terminal
  <2> QED
    BY <2>1, <2>2
<1>4. CASE Restart
  BY <1>0, <1>4, JobsAssumption DEF Restart, Lasts, Over, HandlesFit, TurnPhases, TypeOK, Terminal, Jobs
<1>5. CASE Connect \/ EnumerateRead \/ EnumerateFails \/ EnumerateReturn \/ Drop
  BY <1>1, <1>5 DEF Connect, EnumerateRead, EnumerateFails, EnumerateReturn, Drop, engineVars
<1>6. CASE SubscriberStep
  BY <1>1, <1>6 DEF SubscriberStep, TakeSnapshot, TakeLive, Take, CommitRow, PersistFails, engineVars
<1>7. ASSUME NEW c \in Controls, ControlStep(c)
      PROVE  Lasts
  <2>1. CASE ControlNothing(c) \/ ControlTurn(c)
    <3>1. /\ engine' = engine
          /\ \A j \in Turns : "cancel" \in asked[j] => "cancel" \in asked'[j]
      BY <1>0, <2>1 DEF ControlNothing, ControlTurn, Flags, TypeOK
    <3> QED
      BY <3>1 DEF Lasts, Over
  <2>2. CASE ControlSchedule(c)
    BY <1>0, <2>2, JobsAssumption DEF ControlSchedule, Lasts, Over, TypeOK, Terminal, Jobs
  <2>3. CASE ~(ControlNothing(c) \/ ControlTurn(c) \/ ControlSchedule(c))
    BY <1>1, <1>7, <2>3 DEF ControlStep, ControlRead, ControlPublish, ControlWrite, ControlFails,
       engineVars
  <2> QED
    BY <2>1, <2>2, <2>3
<1>8. CASE Tick \/ UNCHANGED vars
  BY <1>1, <1>8 DEF Tick, vars, engineVars
<1> QED
  BY <1>2, <1>3, <1>4, <1>5, <1>6, <1>7, <1>8 DEF Next, StreamStep

LEMMA ToldLasts ==
    ASSUME Lasts, NEW j \in Jobs, NEW s, Told(j, s)
    PROVE  Told(j, s)'
BY DEF Lasts, Told

(* An event that was known, or that announces a pending schedule, is told. *)
Announces(e) == e.job \in Schedules /\ e.status = "scheduled"

LEMMA KnownTold ==
    ASSUME EventsTold, Lasts,
           \A e \in EventType : Known(e)' => Known(e) \/ Announces(e) \/ Told(e.job, e.status)'
    PROVE  EventsTold'
<1> SUFFICES ASSUME NEW e \in EventType, Known(e)' PROVE Told(e.job, e.status)'
  BY DEF EventsTold
<1>1. e.job \in Jobs
  BY DEF EventType
<1>2. CASE Known(e)
  <2>1. Told(e.job, e.status)
    BY <1>2 DEF EventsTold
  <2> QED
    BY <1>1, <2>1, ToldLasts
<1>3. CASE Announces(e)
  BY <1>3, JobsAssumption DEF Announces, Told, Terminal
<1> QED
  BY <1>2, <1>3

(* A publication makes no other event known, the stream none but that a     *)
(* schedule is pending, and the subscriber none.                           *)
LEMMA PublishKnown ==
    ASSUME TypeOK, NEW j \in Jobs, NEW s \in Statuses, Publish(j, s), UNCHANGED <<byId, snap, applying>>
    PROVE  \A x \in EventType : Known(x)' => Known(x) \/ x = Event(j, s, clock)
<1> DEFINE e == Event(j, s, clock)
<1>1. PICK stale \in SUBSET TerminalAt : latest' = [Pruned(stale) EXCEPT ![j] = e]
  BY DEF Publish
<1>2. \A k \in Jobs : latest'[k] \in {e, latest[k], NoEvent}
  BY <1>1 DEF Pruned
<1>3. \A x : Holds(queue', x) => Holds(queue, x) \/ x = e
  <2>1. CASE queue' = queue
    BY <2>1 DEF Holds
  <2>2. CASE queue' = Append(queue, e)
    BY <2>2 DEF Holds, TypeOK
  <2> QED
    BY <2>1, <2>2 DEF Publish
<1> HIDE DEF e
<1> QED
  BY <1>2, <1>3, Constants DEF Known, e

LEMMA StreamKnown ==
    ASSUME TypeOK, StreamStep
    PROVE  \A e \in EventType : Known(e)' => Known(e) \/ Announces(e)
<1>1. applying' = applying
  BY DEF StreamStep, Connect, EnumerateRead, EnumerateFails, EnumerateReturn, Drop, Restart
<1>2. CASE Connect
  <2>1. \A k \in Jobs : latest'[k] \in {latest[k], NoEvent} /\ byId'[k] \in {latest[k], NoEvent}
    BY <1>2 DEF Connect, Pruned
  <2> QED
    BY <1>1, <1>2, <2>1, Constants DEF Connect, Known, Holds
<1>3. CASE EnumerateRead \/ EnumerateFails
  BY <1>1, <1>3 DEF EnumerateRead, EnumerateFails, Known, Holds
<1>4. CASE EnumerateReturn
  <2>1. /\ UNCHANGED <<latest, queue>> /\ byId' = [j \in Jobs |-> NoEvent]
        /\ \A e \in snap' : Known(e) \/ Announces(e)
    BY <1>4 DEF EnumerateReturn, Known, Announces, Event, TypeOK
  <2> QED
    BY <1>1, <2>1, Constants DEF Known, Holds
<1>5. CASE Drop \/ Restart
  <2>1. /\ byId' = [j \in Jobs |-> NoEvent] /\ snap' = {} /\ queue' = <<>>
        /\ \A k \in Jobs : latest'[k] \in {latest[k], NoEvent}
    BY <1>5 DEF Drop, Restart, Disconnected
  <2> QED
    BY <1>1, <2>1, Constants DEF Known, Holds
<1> QED
  BY <1>2, <1>3, <1>4, <1>5 DEF StreamStep

LEMMA SubscriberKnown ==
    ASSUME TypeOK, SubscriberStep
    PROVE  \A e \in EventType : Known(e)' => Known(e)
<1>1. UNCHANGED <<latest, byId>>
  BY DEF SubscriberStep, TakeSnapshot, TakeLive, Take, CommitRow, PersistFails, streamVars
<1>2. CASE TakeSnapshot
  <2>1. PICK e \in snap : Take(e) /\ snap' = snap \ {e} /\ queue' = queue
    BY <1>2 DEF TakeSnapshot
  <2>2. applying'.event \in {e, NoEvent}
    BY <2>1 DEF Take, NoApply
  <2> QED
    BY <1>1, <2>1, <2>2, Constants DEF Known, Holds
<1>3. CASE TakeLive
  <2>1. /\ queue # <<>> /\ queue \in Seq(EventType) /\ Take(Head(queue))
        /\ queue' = Tail(queue) /\ snap' = snap
    BY <1>3 DEF TakeLive, TypeOK
  <2>2. Holds(queue, Head(queue)) /\ \A x : Holds(queue', x) => Holds(queue, x)
    BY <2>1 DEF Holds
  <2>3. applying'.event \in {Head(queue), NoEvent}
    BY <2>1 DEF Take, NoApply
  <2> QED
    BY <1>1, <2>1, <2>2, <2>3, Constants DEF Known
<1>4. CASE CommitRow \/ PersistFails
  <2>1. UNCHANGED streamVars /\ applying' = NoApply
    BY <1>4 DEF CommitRow, PersistFails
  <2> QED
    BY <1>1, <2>1, Constants DEF Known, Holds, streamVars, NoApply
<1> QED
  BY <1>2, <1>3, <1>4 DEF SubscriberStep

(* A publication forgets only ended jobs. *)
LEMMA PublishTold ==
    ASSUME TruthInv, Lasts, NEW j \in Jobs, NEW s \in Statuses, Publish(j, s), Told(j, s)',
           UNCHANGED <<byId, snap, applying>>
    PROVE  /\ Filed' /\ EventsTold'
           /\ latest'[j] # NoEvent
           /\ \A k \in Turns : latest'[k] = NoEvent => latest[k] = NoEvent \/ Over(k)
<1> DEFINE e == Event(j, s, clock)
<1>0. TypeOK /\ Filed /\ EventsTold
  BY DEF TruthInv, TypeInv
<1>1. Published(j) /\ e \in EventType
  BY <1>0, PublishEffect, EventTyped
<1>2. PICK stale \in SUBSET TerminalAt : latest' = [Pruned(stale) EXCEPT ![j] = e]
  BY DEF Publish
<1>5. Filed'
  BY <1>0, <1>1 DEF Filed, Published
<1>6. EventsTold'
  <2>1. e.job = j /\ e.status = s /\ NoEvent \notin EventType
    BY Constants DEF Event
  <2>2. \A x \in EventType : Known(x)' => Known(x) \/ x = e
    BY <1>0, PublishKnown
  <2> HIDE DEF e
  <2> QED
    BY <1>0, <2>1, <2>2, KnownTold
<1>7. ASSUME NEW k \in Turns, latest'[k] = NoEvent, latest[k] # NoEvent
      PROVE  Over(k)
  <2>1. k # j /\ k \in stale /\ k \in Jobs
    <3>1. k \in Jobs /\ latest'[j] # NoEvent
      BY <1>1 DEF Jobs, Published
    <3> HIDE DEF e
    <3> QED
      BY <1>2, <1>7, <3>1 DEF Pruned
  <2>2. IsTerminal(latest[k]) /\ latest[k].job = k /\ latest[k] \in EventType
    BY <1>0, <1>7, <2>1 DEF TerminalAt, Filed, TypeOK
  <2>3. Told(k, latest[k].status)
    BY <1>0, <2>1, <2>2 DEF EventsTold, Known
  <2> QED
    BY <2>2, <2>3 DEF Told, IsTerminal
<1> QED
  BY <1>1, <1>5, <1>6, <1>7 DEF Published

LEMMA RowsRepliesKept ==
    ASSUME RowsTold, RepliesTold, TypeOK, Lasts, UNCHANGED <<rows, ctl>>,
           \A j \in Schedules : engine[j] = "canceled" => engine'[j] = "canceled"
    PROVE  RowsTold' /\ RepliesTold'
<1>1. RowsTold'
  <2> SUFFICES ASSUME NEW j \in Jobs, rows[j] # NoRow, j \in Turns \/ Controls = {}
               PROVE  Told(j, rows[j].status)'
    BY DEF RowsTold
  <2>1. Told(j, rows[j].status)
    BY DEF RowsTold
  <2> QED
    BY <2>1 DEF Told, Lasts
<1>2. RepliesTold'
  <2> SUFFICES ASSUME NEW c \in Controls
               PROVE  /\ ctl[c].phase = "replied" /\ ctl[c].job \in Turns
                            => Told(ctl[c].job, ctl[c].reply)'
                      /\ ctl[c].phase = "publishing" =>
                            ctl[c].job \in Schedules /\ engine'[ctl[c].job] = "canceled"
    BY DEF RepliesTold
  <2>1. ctl[c].phase = "replied" /\ ctl[c].job \in Turns => Told(ctl[c].job, ctl[c].reply)
    BY DEF RepliesTold
  <2> QED
    BY <2>1 DEF RepliesTold, Told, Lasts, Jobs
<1> QED
  BY <1>1, <1>2

LEMMA TurnTruth ==
    ASSUME TruthInv, Lasts, TypeInv', NEW j \in Turns, TurnStep(j)
    PROVE  TruthInv'
<1>0. TypeOK /\ Filed /\ EventsTold /\ HandlesFit /\ OwedTold /\ RowsTold /\ RepliesTold /\ j \in Jobs
  BY DEF TruthInv, TypeInv, Jobs
<1>1. UNCHANGED <<owed, asked, rows, ctl, byId, snap, applying>>
  BY DEF TurnStep, TurnStart, TurnHold, TurnAwaitApproval, TurnContinue, TurnComplete,
     TurnFail, TurnCancel, TurnForget, Turn, streamVars
<1>2. \A k \in Jobs : k # j => engine'[k] = engine[k]
  BY <1>0 DEF TurnStep, TurnStart, TurnHold, TurnAwaitApproval, TurnContinue, TurnComplete,
     TurnFail, TurnCancel, TurnForget, Turn, TypeOK
<1>3. OwedTold'
  <2> SUFFICES ASSUME NEW k \in Schedules
               PROVE  engine'[k] \in ScheduleStates /\ \A i \in 1..Len(owed[k]) : Told(k, owed[k][i])'
    BY <1>1 DEF OwedTold
  <2>1. k \in Jobs /\ k # j
    BY JobsAssumption DEF Jobs
  <2>2. \A i \in 1..Len(owed[k]) : Told(k, owed[k][i])
    BY <1>0 DEF OwedTold
  <2> QED
    BY <1>0, <1>1, <1>2, <2>1, <2>2 DEF OwedTold, Told, Lasts
<1>4. RowsTold' /\ RepliesTold'
  <2>1. \A k \in Schedules : engine'[k] = engine[k]
    BY <1>2, JobsAssumption DEF Jobs
  <2> QED
    BY <1>0, <1>1, <2>1, RowsRepliesKept
<1>5. CASE TurnForget(j)
  <2>1. engine' = engine /\ latest' = latest /\ UNCHANGED streamVars
        /\ handle' = [handle EXCEPT ![j] = FALSE] /\ engine[j] \in Terminal
    BY <1>5 DEF TurnForget
  <2>2. Filed'
    BY <1>0, <2>1 DEF Filed, streamVars
  <2>3. EventsTold'
    BY <1>0, <1>1, <2>1, KnownTold DEF Known, Holds, streamVars
  <2>4. HandlesFit'
    BY <1>0, <1>1, <2>1, JobsAssumption DEF HandlesFit, TypeOK, Over, Terminal
  <2> QED
    BY <1>3, <1>4, <2>2, <2>3, <2>4 DEF TruthInv
<1>6. CASE ~TurnForget(j)
  <2>1. PICK to \in TurnPhases \ {"none"}, s \in Statuses :
          /\ engine' = [engine EXCEPT ![j] = to] /\ Publish(j, s)
          /\ s \in Terminal => to \in Terminal
          /\ handle' = handle \/ handle' = [handle EXCEPT ![j] = TRUE]
          /\ engine[j] = "none" => handle'[j]
    <3>1. CASE TurnStart(j)
      BY <1>0, <3>1 DEF TurnStart, Turn, TurnPhases, Statuses, Terminal, TypeOK
    <3>2. CASE ~TurnStart(j)
      BY <1>6, <3>2 DEF TurnStep, TurnHold, TurnAwaitApproval, TurnContinue, TurnComplete,
         TurnFail, TurnCancel, Turn, TurnPhases, Statuses, Terminal
    <3> QED
      BY <3>1, <3>2
  <2>2. engine'[j] = to
    BY <1>0, <2>1 DEF TypeOK
  <2>3. Told(j, s)'
    BY <2>1, <2>2 DEF Told, Over
  <2>4. /\ Filed' /\ EventsTold' /\ latest'[j] # NoEvent
        /\ \A k \in Turns : latest'[k] = NoEvent => latest[k] = NoEvent \/ Over(k)
    BY <1>0, <1>1, <2>1, <2>3, PublishTold
  <2>5. HandlesFit'
    <3> SUFFICES ASSUME NEW k \in Turns
                 PROVE  /\ engine'[k] \in TurnPhases
                        /\ handle'[k] \/ asked'[k] # {} => engine'[k] # "none"
                        /\ engine'[k] \in {"running", "held", "awaiting"} => handle'[k]
                        /\ latest'[k] = NoEvent /\ handle'[k] => Over(k)'
      BY DEF HandlesFit
    <3>1. CASE k = j
      <4>1. engine[j] \in {"none", "running", "held", "awaiting"}
        BY <1>6 DEF TurnStep, TurnStart, TurnHold, TurnAwaitApproval, TurnContinue, TurnComplete,
           TurnFail, TurnCancel, Turn
      <4>2. handle'[j]
        BY <1>0, <2>1, <4>1 DEF HandlesFit, TypeOK
      <4> QED
        BY <2>1, <2>2, <2>4, <3>1, <4>2
    <3>2. CASE k # j
      <4>1. k \in Jobs /\ handle'[k] = handle[k] /\ engine'[k] = engine[k]
        BY <1>0, <1>2, <2>1, <3>2 DEF Jobs, TypeOK
      <4> QED
        BY <1>0, <1>1, <2>4, <4>1 DEF HandlesFit, Lasts
    <3> QED
      BY <3>1, <3>2
  <2> QED
    BY <1>3, <1>4, <2>4, <2>5 DEF TruthInv
<1> QED
  BY <1>5, <1>6

LEMMA ScheduleTruth ==
    ASSUME TruthInv, Lasts, TypeInv', NEW j \in Schedules, ScheduleStep(j)
    PROVE  TruthInv'
<1>0. /\ TypeOK /\ Filed /\ EventsTold /\ HandlesFit /\ OwedTold /\ RowsTold /\ RepliesTold
      /\ j \in Jobs /\ j \notin Turns
  BY JobsAssumption DEF TruthInv, TypeInv, Jobs
<1>1. UNCHANGED <<asked, handle, rows, ctl, byId, snap, applying>>
  BY DEF ScheduleStep, ScheduleCreate, ScheduleFireOnce, ScheduleAdvance, SchedulePause,
     ScheduleRearm, SchedulePublish, Commit, streamVars
<1>2. \A k \in Jobs : k # j => engine'[k] = engine[k]
  BY <1>0 DEF ScheduleStep, ScheduleCreate, ScheduleFireOnce, ScheduleAdvance, SchedulePause,
     ScheduleRearm, SchedulePublish, Commit, TypeOK
<1>3. engine[j] = "canceled" => engine'[j] = "canceled"
  BY DEF ScheduleStep, ScheduleCreate, ScheduleFireOnce, ScheduleAdvance, SchedulePause,
     ScheduleRearm, SchedulePublish, Commit
<1>4. RowsTold' /\ RepliesTold'
  BY <1>0, <1>1, <1>2, <1>3, RowsRepliesKept DEF Jobs
<1>5. \A k \in Schedules : k # j =>
         /\ engine'[k] \in ScheduleStates /\ owed'[k] = owed[k]
         /\ \A i \in 1..Len(owed[k]) : Told(k, owed[k][i])'
  <2> SUFFICES ASSUME NEW k \in Schedules, k # j
               PROVE  /\ engine'[k] \in ScheduleStates /\ owed'[k] = owed[k]
                      /\ \A i \in 1..Len(owed[k]) : Told(k, owed[k][i])'
    OBVIOUS
  <2>1. owed'[k] = owed[k]
    BY <1>0 DEF ScheduleStep, ScheduleCreate, ScheduleFireOnce, ScheduleAdvance, SchedulePause,
       ScheduleRearm, SchedulePublish, Commit, TypeOK
  <2>2. k \in Jobs /\ engine'[k] \in ScheduleStates /\ \A i \in 1..Len(owed[k]) : Told(k, owed[k][i])
    BY <1>0, <1>2 DEF OwedTold, Jobs
  <2> QED
    BY <2>1, <2>2 DEF Lasts, Told
<1>6. CASE SchedulePublish(j)
  <2>0. /\ owed[j] \in Seq(Statuses) /\ Len(owed[j]) > 0 /\ owed'[j] = Tail(owed[j])
        /\ engine' = engine /\ Publish(j, Head(owed[j]))
    BY <1>0, <1>6 DEF SchedulePublish, TypeOK
  <2>1. PICK s \in Statuses : Publish(j, s) /\ Told(j, s)
    <3>1. Head(owed[j]) \in Statuses /\ Told(j, Head(owed[j]))
      BY <1>0, <2>0 DEF OwedTold
    <3> QED
      BY <2>0, <3>1
  <2>2. Told(j, s)'
    BY <1>0, <2>1, ToldLasts
  <2>3. Filed' /\ EventsTold' /\ \A k \in Turns : latest'[k] = NoEvent => latest[k] = NoEvent \/ Over(k)
    BY <1>0, <1>1, <2>1, <2>2, PublishTold
  <2>4. HandlesFit'
    BY <1>0, <1>1, <2>0, <2>3 DEF HandlesFit, Lasts, Jobs
  <2>5. OwedTold'
    <3>1. \A i \in 1..Len(Tail(owed[j])) : i + 1 \in 1..Len(owed[j]) /\ Tail(owed[j])[i] = owed[j][i + 1]
      BY <2>0
    <3>2. \A i \in 1..Len(owed'[j]) : Told(j, owed'[j][i])
      BY <1>0, <2>0, <3>1 DEF OwedTold
    <3>3. \A i \in 1..Len(owed'[j]) : Told(j, owed[j][i])'
      BY <1>0, <3>2 DEF Told, Lasts
    <3> QED
      BY <1>0, <1>5, <2>0, <3>3 DEF OwedTold
  <2> QED
    BY <1>4, <2>3, <2>4, <2>5 DEF TruthInv
<1>7. CASE ~SchedulePublish(j)
  <2>1. UNCHANGED <<latest, queue>>
    BY <1>7 DEF ScheduleStep, ScheduleCreate, ScheduleFireOnce, ScheduleAdvance, SchedulePause,
       ScheduleRearm, Commit, streamVars
  <2>2. Filed' /\ EventsTold'
    BY <1>0, <1>1, <2>1, KnownTold DEF Filed, Known, Holds
  <2>3. HandlesFit'
    BY <1>0, <1>1, <1>2, <2>1, JobsAssumption DEF HandlesFit, Lasts, Jobs
  <2>4. engine'[j] \in ScheduleStates /\ \A i \in 1..Len(owed'[j]) : Told(j, owed[j][i])'
    <3>1. CASE ScheduleFireOnce(j)
      <4>1. engine'[j] = "completed"
        BY <1>0, <3>1 DEF ScheduleFireOnce, Commit, TypeOK
      <4> QED
        BY <1>0, <4>1 DEF Told, Over, Terminal, ScheduleStates
    <3>2. CASE ~ScheduleFireOnce(j)
      <4>1. PICK s \in {"scheduled", "paused"} :
              owed' = [owed EXCEPT ![j] = <<s>>] /\ engine' = [engine EXCEPT ![j] = s]
        BY <1>7, <3>2 DEF ScheduleStep, ScheduleCreate, ScheduleAdvance, SchedulePause,
           ScheduleRearm, Commit
      <4>2. owed'[j] = <<s>> /\ engine'[j] = s
        BY <1>0, <4>1 DEF TypeOK
      <4>3. \A i \in 1..Len(owed'[j]) : owed'[j][i] = s
        BY <4>2
      <4> QED
        BY <1>0, <4>2, <4>3 DEF Told, Terminal, ScheduleStates
    <3> QED
      BY <3>1, <3>2
  <2>5. OwedTold'
    BY <1>5, <2>4 DEF OwedTold
  <2> QED
    BY <1>4, <2>2, <2>3, <2>5 DEF TruthInv
<1> QED
  BY <1>6, <1>7

LEMMA StreamTruth ==
    ASSUME TruthInv, Lasts, TypeInv', StreamStep
    PROVE  TruthInv'
<1>0. TypeOK /\ Filed /\ EventsTold /\ HandlesFit /\ OwedTold /\ RowsTold /\ RepliesTold
  BY DEF TruthInv, TypeInv
<1>1. UNCHANGED <<rows, applying>>
  BY DEF StreamStep, Connect, EnumerateRead, EnumerateFails, EnumerateReturn, Drop, Restart
<1>2. ASSUME UNCHANGED <<engineVars, ctl>>,
             \A k \in Turns : latest'[k] = NoEvent => latest[k] = NoEvent \/ Over(k)
      PROVE  HandlesFit' /\ OwedTold' /\ RowsTold' /\ RepliesTold'
  <2>1. HandlesFit' /\ OwedTold'
    BY <1>0, <1>2 DEF engineVars, HandlesFit, OwedTold, Told, Over
  <2>2. RowsTold' /\ RepliesTold'
    BY <1>0, <1>1, <1>2, RowsRepliesKept DEF engineVars
  <2> QED
    BY <2>1, <2>2
<1>3. ASSUME NEW k \in Turns, IsTerminal(latest[k]), latest[k] # NoEvent
      PROVE  Over(k)
  <2>1. k \in Jobs /\ latest[k].job = k /\ latest[k] \in EventType
    BY <1>0, <1>3 DEF Filed, TypeOK, Jobs
  <2>2. Told(k, latest[k].status)
    BY <1>0, <2>1 DEF EventsTold, Known
  <2> QED
    BY <1>3, <2>2 DEF Told, IsTerminal
<1>4. CASE Connect
  <2>1. PICK stale \in SUBSET TerminalAt : latest' = Pruned(stale)
    BY <1>4 DEF Connect
  <2>2. /\ byId' = [j \in Jobs |-> IF IsTerminal(latest[j]) THEN NoEvent ELSE latest[j]]
        /\ UNCHANGED <<engineVars, snap, queue, ctl>>
    BY <1>4 DEF Connect
  <2>3. \A k \in Jobs : latest'[k] \in {latest[k], NoEvent} /\ byId'[k] \in {latest[k], NoEvent}
    BY <2>1, <2>2 DEF Pruned
  <2>4. Filed'
    BY <1>0, <2>3 DEF Filed
  <2>5. EventsTold'
    BY <1>0, <1>1, <2>2, <2>3, KnownTold, Constants DEF Known, Holds
  <2>6. \A k \in Turns : latest'[k] = NoEvent => latest[k] = NoEvent \/ Over(k)
    BY <1>3, <2>1 DEF Pruned, TerminalAt, Jobs
  <2> QED
    BY <1>2, <2>2, <2>4, <2>5, <2>6 DEF TruthInv
<1>5. CASE EnumerateRead \/ EnumerateFails
  <2>1. UNCHANGED <<engineVars, ctl, latest, byId, snap, queue>>
    BY <1>5 DEF EnumerateRead, EnumerateFails
  <2>2. Filed' /\ EventsTold'
    BY <1>0, <1>1, <2>1, KnownTold DEF Filed, Known, Holds
  <2> QED
    BY <1>2, <2>1, <2>2 DEF TruthInv
<1>6. CASE EnumerateReturn
  <2>1. /\ UNCHANGED <<engineVars, ctl, latest, queue>> /\ byId' = [j \in Jobs |-> NoEvent]
        /\ snap' = {byId[j] : j \in {k \in Jobs : byId[k] # NoEvent}}
             \cup {Event(j, "scheduled", clock) : j \in {k \in dbRead : byId[k] = NoEvent}}
    BY <1>6 DEF EnumerateReturn
  <2>2. \A e \in snap' : Known(e) \/ Announces(e)
    BY <1>0, <2>1 DEF Known, Announces, Event, TypeOK
  <2>3. Filed' /\ EventsTold'
    <3>1. \A e \in EventType : Known(e)' => Known(e) \/ Announces(e)
      BY <1>1, <2>1, <2>2, Constants DEF Known, Holds
    <3> QED
      BY <1>0, <2>1, <3>1, KnownTold DEF Filed
  <2> QED
    BY <1>2, <2>1, <2>3 DEF TruthInv
<1>7. CASE Drop \/ Restart
  <2>1. /\ byId' = [j \in Jobs |-> NoEvent] /\ snap' = {} /\ queue' = <<>>
        /\ \A k \in Jobs : latest'[k] \in {latest[k], NoEvent}
    BY <1>7 DEF Drop, Restart, Disconnected
  <2>2. Filed' /\ EventsTold'
    BY <1>0, <1>1, <2>1, KnownTold, Constants DEF Filed, Known, Holds
  <2>3. CASE Drop
    BY <1>2, <2>2, <2>3 DEF Drop, TruthInv
  <2>4. CASE Restart
    <3>1. HandlesFit'
      BY <1>0, <2>4, JobsAssumption DEF Restart, HandlesFit, TurnPhases, Jobs
    <3>2. \A k \in Schedules : k \in Jobs /\ engine'[k] = engine[k] /\ owed'[k] = <<>>
      BY <2>4, JobsAssumption DEF Restart, Jobs
    <3>3. OwedTold'
      BY <1>0, <3>2 DEF OwedTold
    <3>4. RowsTold'
      <4> SUFFICES ASSUME NEW j \in Jobs, rows[j] # NoRow, j \in Turns \/ Controls = {}
                   PROVE  Told(j, rows[j].status)'
        BY <1>1 DEF RowsTold
      <4>1. Told(j, rows[j].status)
        BY <1>0 DEF RowsTold
      <4> QED
        BY <1>1, <4>1 DEF Told, Lasts
    <3>5. RepliesTold'
      <4> SUFFICES ASSUME NEW c \in Controls
                   PROVE  /\ ctl'[c].phase = "replied" /\ ctl'[c].job \in Turns
                                => Told(ctl[c].job, ctl[c].reply)'
                          /\ ctl'[c].phase # "publishing"
        BY DEF RepliesTold
      <4>1. /\ ctl'[c].phase # "publishing"
            /\ ctl'[c].phase = "replied" => ctl'[c] = ctl[c]
        BY <1>0, <2>4 DEF Restart, IdleCtl, TypeOK
      <4>2. ctl[c].phase = "replied" /\ ctl[c].job \in Turns => Told(ctl[c].job, ctl[c].reply)
        BY <1>0 DEF RepliesTold
      <4> QED
        BY <4>1, <4>2 DEF Told, Lasts, Jobs
    <3> QED
      BY <2>2, <3>1, <3>3, <3>4, <3>5 DEF TruthInv
  <2> QED
    BY <1>7, <2>3, <2>4
<1> QED
  BY <1>4, <1>5, <1>6, <1>7 DEF StreamStep

LEMMA SubscriberTruth ==
    ASSUME TruthInv, Lasts, TypeInv', SubscriberStep
    PROVE  TruthInv'
<1>0. TypeOK /\ Filed /\ EventsTold /\ HandlesFit /\ OwedTold /\ RowsTold /\ RepliesTold /\ ApplyOK
  BY DEF TruthInv, TypeInv
<1>1. UNCHANGED <<engineVars, latest, byId, ctl>>
  BY DEF SubscriberStep, TakeSnapshot, TakeLive, Take, CommitRow, PersistFails, streamVars
<1>2. Filed' /\ HandlesFit' /\ OwedTold' /\ RepliesTold'
  BY <1>0, <1>1 DEF Filed, engineVars, HandlesFit, OwedTold, RepliesTold, Told, Over
<1>3. EventsTold'
  <2>1. \A e \in EventType : Known(e)' => Known(e)
    BY <1>0, SubscriberKnown
  <2> QED
    BY <1>0, <2>1, KnownTold
<1>4. RowsTold'
  <2>1. ASSUME rows' = rows
        PROVE  RowsTold'
    BY <1>0, <1>1, <2>1 DEF RowsTold, engineVars, Told, Over
  <2>2. CASE CommitRow
    <3> DEFINE e == applying.event
               loaded == applying.loaded
    <3>1. /\ applying # NoApply /\ e \in EventType /\ loaded \in RowType \cup {NoRow}
          /\ loaded # NoRow => rows[e.job] \in RowType
          /\ rows' = [rows EXCEPT ![e.job] = Flush(loaded, Applied(loaded, e), @)]
      BY <1>0, <2>2 DEF CommitRow, ApplyOK, TypeOK
    <3>2. Told(e.job, e.status)
      BY <1>0, <3>1 DEF EventsTold, Known
    <3>3. /\ rows'[e.job].status \in {e.status, rows[e.job].status}
          /\ rows[e.job] = NoRow => rows'[e.job].status = e.status
      <4>1. e.job \in Jobs /\ rows \in [Jobs -> RowType \cup {NoRow}] /\ e.status # "none"
        BY <1>0, <3>1 DEF EventType, TypeOK, Statuses
      <4>2. rows'[e.job].status = IF e.status = loaded.status THEN rows[e.job].status ELSE e.status
        BY <3>1, <4>1 DEF Flush, Column, Applied
      <4>3. rows[e.job] = NoRow => loaded.status = "none"
        BY <3>1, Constants DEF NoRow
      <4> QED
        BY <4>1, <4>2, <4>3
    <3> SUFFICES ASSUME NEW j \in Jobs, rows'[j] # NoRow, j \in Turns \/ Controls = {}
                 PROVE  Told(j, rows[j].status)'
      BY DEF RowsTold
    <3>4. rows[j] # NoRow => Told(j, rows[j].status)
      BY <1>0 DEF RowsTold
    <3>5. CASE j = e.job
      BY <1>1, <3>2, <3>3, <3>4, <3>5 DEF Told, Over, engineVars
    <3>6. CASE j # e.job
      <4>1. rows'[j] = rows[j]
        BY <1>0, <3>1, <3>6 DEF TypeOK
      <4> QED
        BY <1>1, <3>4, <4>1 DEF Told, Over, engineVars
    <3> QED
      BY <3>5, <3>6
  <2> QED
    BY <2>1, <2>2 DEF SubscriberStep, TakeSnapshot, TakeLive, Take, PersistFails
<1> QED
  BY <1>2, <1>3, <1>4 DEF TruthInv

LEMMA ControlTruth ==
    ASSUME TruthInv, Lasts, TypeInv', NEW c \in Controls, ControlStep(c)
    PROVE  TruthInv'
<1> SUFFICES ASSUME NEW j, j = ctl[c].job PROVE TruthInv'
  OBVIOUS
<1>0. /\ TypeOK /\ Filed /\ EventsTold /\ HandlesFit /\ OwedTold /\ RowsTold /\ RepliesTold
      /\ ControlOK
  BY DEF TruthInv, TypeInv
<1>1. UNCHANGED <<owed, handle, byId, snap, applying>> /\ c \in Controls
  BY DEF ControlStep, ControlRead, ControlNothing, ControlTurn, ControlSchedule, ControlPublish,
     ControlWrite, ControlFails, engineVars, streamVars
<1>2. \A d \in Controls : d # c => ctl'[d] = ctl[d]
  BY <1>0 DEF ControlStep, ControlRead, ControlNothing, ControlTurn, ControlSchedule,
     ControlPublish, ControlWrite, ControlFails, Reply, TypeOK
<1>3. /\ \A k \in Turns : engine'[k] = engine[k] /\ k \in Jobs
      /\ \A k \in Schedules : engine'[k] = engine[k] \/ (engine[k] = "scheduled" /\ engine'[k] = "canceled")
  BY <1>0, JobsAssumption DEF ControlStep, ControlRead, ControlNothing, ControlTurn, ControlSchedule,
     ControlPublish, ControlWrite, ControlFails, engineVars, TypeOK, Jobs
<1>4. OwedTold'
  <2> SUFFICES ASSUME NEW k \in Schedules
               PROVE  engine'[k] \in ScheduleStates /\ \A i \in 1..Len(owed[k]) : Told(k, owed[k][i])'
    BY <1>1 DEF OwedTold
  <2>1. \A i \in 1..Len(owed[k]) : Told(k, owed[k][i])
    BY <1>0 DEF OwedTold
  <2> QED
    BY <1>0, <1>1, <1>3, <2>1 DEF OwedTold, Told, Lasts, Jobs, ScheduleStates
<1>5. ASSUME rows' = rows
      PROVE  RowsTold'
  <2> SUFFICES ASSUME NEW k \in Jobs, rows[k] # NoRow, k \in Turns \/ Controls = {}
               PROVE  Told(k, rows[k].status)'
    BY <1>5 DEF RowsTold
  <2>1. Told(k, rows[k].status)
    BY <1>0 DEF RowsTold
  <2> QED
    BY <1>5, <2>1 DEF Told, Lasts
<1>6. ASSUME NEW reply, j \in Turns /\ ctl'[c].phase = "replied" => Told(j, reply)',
             ctl'[c].phase = "replied" => ctl'[c].job = j /\ ctl'[c].reply = reply,
             ctl'[c].phase = "publishing" => ctl'[c].job \in Schedules /\ engine'[ctl'[c].job] = "canceled"
      PROVE  RepliesTold'
  <2> SUFFICES ASSUME NEW d \in Controls, d # c
               PROVE  /\ ctl'[d].phase = "replied" /\ ctl'[d].job \in Turns
                            => Told(ctl[d].job, ctl[d].reply)'
                      /\ ctl'[d].phase = "publishing" =>
                            ctl'[d].job \in Schedules /\ engine'[ctl'[d].job] = "canceled"
    BY <1>6 DEF RepliesTold, Told
  <2>1. /\ ctl[d].phase = "replied" /\ ctl[d].job \in Turns => Told(ctl[d].job, ctl[d].reply)
        /\ ctl[d].phase = "publishing" => ctl[d].job \in Schedules /\ engine[ctl[d].job] = "canceled"
    BY <1>0 DEF RepliesTold
  <2> QED
    BY <1>2, <1>3, <2>1 DEF Told, Lasts
<1>7. ASSUME UNCHANGED <<latest, queue>>
      PROVE  Filed' /\ EventsTold'
  BY <1>0, <1>1, <1>7, KnownTold DEF Filed, Known, Holds
<1>8. ASSUME asked' = asked \/ (handle[j] /\ \A k \in Turns : k # j => asked'[k] = asked[k]),
             \A k \in Turns : latest'[k] = NoEvent => latest[k] = NoEvent \/ Over(k)
      PROVE  HandlesFit'
  BY <1>0, <1>1, <1>3, <1>8 DEF HandlesFit, Lasts
<1>9. CASE ControlNothing(c)
  <2>1. /\ ctl[c].phase = "sent" /\ ctl'[c].job = j /\ ctl'[c].phase = "replied"
        /\ ctl'[c].reply = "completed" /\ j \in Jobs /\ rows[j] \in RowType
        /\ UNCHANGED <<engine, latest, queue, rows>>
    BY <1>0, <1>9 DEF ControlNothing, Reply, TypeOK, ControlOK, streamVars
  <2>2. asked' = asked \/ (handle[j] /\ \A k \in Turns : k # j => asked'[k] = asked[k])
    BY <1>0, <1>9 DEF ControlNothing, TypeOK
  <2>3. j \in Turns => Told(j, "completed")
    <3> SUFFICES ASSUME j \in Turns PROVE Told(j, "completed")
      OBVIOUS
    <3>1. engine[j] # "none" /\ engine[j] \in TurnPhases
      BY <1>0, <2>1, Constants DEF RowsTold, Told, HandlesFit
    <3>2. ~handle[j] \/ latest[j] = NoEvent
      BY <1>9 DEF ControlNothing
    <3>3. Over(j)
      BY <1>0, <3>1, <3>2 DEF HandlesFit, Over, TurnPhases
    <3> QED
      BY <3>1, <3>3 DEF Told
  <2>4. j \in Turns => Told(j, "completed")'
    BY <2>1, <2>3 DEF Told, Lasts
  <2>5. RepliesTold'
    BY <1>6, <2>1, <2>4 DEF Told
  <2> QED
    BY <1>4, <1>5, <1>7, <1>8, <2>1, <2>2, <2>5 DEF TruthInv
<1>10. CASE ControlTurn(c)
  <2>1. PICK s \in Statuses :
          /\ Publish(j, s) /\ ctl'[c].job = j /\ ctl'[c].phase = "replied" /\ ctl'[c].reply = s
          /\ s \in Terminal => "cancel" \in asked'[j]
          /\ \A k \in Turns : k # j => asked'[k] = asked[k]
    <3>1. /\ Outcome(ctl[c].action) \in Statuses
          /\ Outcome(ctl[c].action) \in Terminal => "cancel" \in Flags(asked[j], ctl[c].action)
      BY DEF Outcome, Statuses, Terminal, Flags
    <3> QED
      BY <1>0, <1>10, <3>1 DEF ControlTurn, Reply, TypeOK
  <2>2. j \in Turns /\ j \in Jobs /\ handle[j] /\ UNCHANGED <<engine, rows>>
    BY <1>10 DEF ControlTurn, Jobs
  <2>3. Told(j, s)'
    BY <1>0, <2>1, <2>2 DEF Told, Over, HandlesFit
  <2>4. /\ Filed' /\ EventsTold'
        /\ \A k \in Turns : latest'[k] = NoEvent => latest[k] = NoEvent \/ Over(k)
    BY <1>0, <1>1, <2>1, <2>2, <2>3, PublishTold
  <2>5. RepliesTold'
    BY <1>6, <2>1, <2>3
  <2> QED
    BY <1>4, <1>5, <1>8, <2>1, <2>2, <2>4, <2>5 DEF TruthInv
<1>11. CASE ControlSchedule(c)
  <2>1. /\ j \in Schedules /\ ctl'[c].phase = "publishing" /\ ctl'[c].job = j
        /\ engine'[j] = "canceled" /\ UNCHANGED <<asked, latest, queue, rows>>
    BY <1>0, <1>11 DEF ControlSchedule, TypeOK, Jobs, streamVars
  <2>2. RepliesTold'
    BY <1>6, <2>1
  <2> QED
    BY <1>4, <1>5, <1>7, <1>8, <2>1, <2>2 DEF TruthInv
<1>12. CASE ControlPublish(c)
  <2>1. /\ Publish(j, "canceled") /\ ctl'[c].phase = "replied" /\ ctl'[c].job = j
        /\ ctl'[c].reply = "canceled" /\ UNCHANGED <<engine, asked, rows>>
        /\ j \in Schedules /\ engine[j] = "canceled"
    BY <1>0, <1>12 DEF ControlPublish, Reply, engineVars, TypeOK, RepliesTold
  <2>2. Told(j, "canceled")' /\ j \notin Turns /\ j \in Jobs /\ "canceled" \in Statuses
    BY <2>1, JobsAssumption DEF Told, Over, Terminal, Jobs, Statuses
  <2>3. /\ Filed' /\ EventsTold'
        /\ \A k \in Turns : latest'[k] = NoEvent => latest[k] = NoEvent \/ Over(k)
    BY <1>0, <1>1, <2>1, <2>2, PublishTold
  <2>4. RepliesTold'
    BY <1>6, <2>1, <2>2
  <2> QED
    BY <1>4, <1>5, <1>8, <2>1, <2>3, <2>4 DEF TruthInv
<1>13. CASE ControlWrite(c)
  <2>1. /\ ctl[c].phase = "replied" /\ ctl'[c].phase = "idle" /\ UNCHANGED <<engine, asked, latest, queue>>
        /\ j \in Jobs /\ rows[j] \in RowType
    BY <1>0, <1>13 DEF ControlWrite, IdleCtl, engineVars, streamVars, TypeOK, ControlOK
  <2>2. /\ rows'[j].status \in {ctl[c].reply, rows[j].status}
        /\ \A k \in Jobs : k # j => rows'[k] = rows[k]
    BY <1>0, <1>13, <2>1 DEF ControlWrite, Column, TypeOK, RowType
  <2>3. RowsTold'
    <3> SUFFICES ASSUME NEW k \in Jobs, rows'[k] # NoRow, k \in Turns
                 PROVE  Told(k, rows[k].status)'
      BY <1>1 DEF RowsTold
    <3>1. rows[k] # NoRow => Told(k, rows[k].status)
      BY <1>0 DEF RowsTold
    <3>2. CASE k = j
      <4>1. Told(k, ctl[c].reply) /\ Told(k, rows[k].status)
        BY <1>0, <2>1, <3>1, <3>2, Constants DEF RepliesTold
      <4> QED
        BY <2>1, <2>2, <3>2, <4>1 DEF Told, Over
    <3>3. CASE k # j
      BY <2>1, <2>2, <3>1, <3>3 DEF Told, Over
    <3> QED
      BY <3>2, <3>3
  <2>4. RepliesTold'
    BY <1>6, <2>1
  <2> QED
    BY <1>4, <1>7, <1>8, <2>1, <2>3, <2>4 DEF TruthInv
<1>14. CASE ControlFails(c) \/ \E k \in Jobs, a \in Actions : ControlRead(c, k, a)
  <2>1. /\ ctl'[c].phase \in {"idle", "sent"}
        /\ UNCHANGED <<engine, asked, latest, queue, rows>>
    BY <1>0, <1>14 DEF ControlFails, ControlRead, IdleCtl, TypeOK, engineVars, streamVars
  <2>2. RepliesTold'
    BY <1>6, <2>1
  <2> QED
    BY <1>4, <1>5, <1>7, <1>8, <2>1, <2>2 DEF TruthInv
<1> QED
  BY <1>9, <1>10, <1>11, <1>12, <1>13, <1>14 DEF ControlStep

LEMMA TruthInit == Init => TruthInv
<1> SUFFICES ASSUME Init PROVE TruthInv
  OBVIOUS
<1>1. TypeInv /\ Filed /\ HandlesFit /\ OwedTold /\ RowsTold /\ RepliesTold
  BY TypeInit DEF Init, Filed, HandlesFit, TurnPhases, ScheduleStates, OwedTold, RowsTold, RepliesTold,
     IdleCtl, Jobs
<1>2. EventsTold
  BY Constants DEF Init, EventsTold, Known, Holds, NoApply
<1> QED
  BY <1>1, <1>2 DEF TruthInv

LEMMA TruthNext == TruthInv /\ [Next]_vars => TruthInv'
<1> SUFFICES ASSUME TruthInv, [Next]_vars PROVE TruthInv'
  OBVIOUS
<1>1. Lasts /\ TypeInv'
  BY OverLasts, TypeNext DEF TruthInv
<1>2. CASE Tick \/ UNCHANGED vars
  <2>1. /\ UNCHANGED <<engine, asked, handle, owed, latest, byId, snap, queue, rows, applying, ctl>>
    BY <1>2 DEF Tick, vars, engineVars, streamVars
  <2>2. EventsTold'
    BY <1>1, <2>1, KnownTold DEF TruthInv, Known, Holds
  <2> QED
    BY <1>1, <2>1, <2>2 DEF TruthInv, Filed, HandlesFit, OwedTold, RowsTold, RepliesTold, Told, Over
<1> QED
  BY <1>1, <1>2, TurnTruth, ScheduleTruth, StreamTruth, SubscriberTruth, ControlTruth DEF Next

LEMMA TruthInvariant == Spec => []TruthInv
BY TruthInit, TruthNext, PTL DEF Spec

(***************************************************************************)
(* A row shows a turn as over only if it is, or was told to cancel,        *)
(* whatever requests cross its events and whatever faults happen           *)
(* (apply_event, proxy_control and the runner's control).                  *)
(***************************************************************************)
THEOREM TurnRowMeansOverHolds == Spec => []TurnRowMeansOver
<1>1. TruthInv => TurnRowMeansOver
  BY DEF TruthInv, RowsTold, TurnRowMeansOver, Told, Over, NoRow, Terminal, Jobs
<1> QED
  BY <1>1, TruthInvariant, PTL

-----------------------------------------------------------------------------
(***************************************************************************)
(* Agreement, without requests.  The row of an active turn shows the hub's *)
(* latest event once that event is neither captured, queued nor being      *)
(* applied: the guards of apply_event cannot have refused it, since        *)
(* nothing known of the turn is newer and no row says it is over.          *)
(***************************************************************************)
NothingNewer ==
    \A j \in Turns : Active(j) =>
        /\ engine[j] \in {"running", "held", "awaiting"} /\ asked[j] = {}
        /\ rows[j].last <= latest[j].ts
        /\ \A e \in EventType : Known(e) /\ e.job = j => e.ts <= latest[j].ts

(* Nobody else writes the row while the subscriber applies an event. *)
LoadedIsStored == applying # NoApply => applying.loaded = rows[applying.event.job]

NewestIsShown ==
    \A j \in Turns : conn # "down" /\ Active(j) =>
        Pending(latest[j]) \/ rows[j].status = latest[j].status

NobodyAsks == \A j \in Turns : asked[j] = {}

ShownInv == NothingNewer /\ LoadedIsStored /\ NewestIsShown

AgreeInv == ReachInv /\ TruthInv /\ NobodyAsks /\ ShownInv

(* What is active after a step that only forgets or leaves the hub's events. *)
LEMMA ActiveTurn ==
    ASSUME TruthInv, NothingNewer, NEW j \in Turns, Active(j)
    PROVE  /\ latest[j] \in EventType /\ latest[j].job = j /\ j \in Jobs
           /\ rows[j].status \notin Terminal
<1>1. latest[j] \in EventType /\ latest[j].job = j /\ j \in Jobs
  BY DEF TruthInv, TypeInv, TypeOK, Filed, Active, Jobs
<1>2. ~Over(j)
  BY DEF NothingNewer, Over, Terminal
<1> QED
  BY <1>1, <1>2 DEF TruthInv, RowsTold, Told, NoRow, Terminal

(* A publication leaves every other job's newest event where it was. *)
LEMMA PublishShows ==
    ASSUME AgreeInv, OrderInv', NEW j \in Jobs, NEW s \in Statuses, Publish(j, s),
           UNCHANGED <<clock, conn, byId, snap, applying, rows>>,
           \A k \in Turns : k # j => engine'[k] = engine[k] /\ asked'[k] = asked[k],
           j \in Turns /\ s \notin Terminal =>
               engine'[j] \in {"running", "held", "awaiting"} /\ asked'[j] = {}
    PROVE  ShownInv'
<1> DEFINE e == Event(j, s, clock)
<1>0. /\ TypeOK /\ NothingNewer /\ LoadedIsStored /\ NewestIsShown /\ Published(j) /\ e \in EventType
      /\ TruthInv
  BY PublishEffect, EventTyped DEF AgreeInv, ShownInv, TruthInv, TypeInv
<1>1. PICK stale \in SUBSET TerminalAt : latest' = [Pruned(stale) EXCEPT ![j] = e]
  BY DEF Publish
<1>2. latest'[j] = e /\ e.job = j /\ e.status = s /\ e.ts = clock
  BY <1>0, <1>1 DEF Event, Pruned
<1> HIDE DEF e
<1>3. \A k \in Jobs : k # j /\ Active(k)' => Active(k) /\ latest'[k] = latest[k]
  BY <1>0 DEF Active, Published
<1>4. \A x : Holds(queue', x) => Holds(queue, x) \/ x = e
  BY <1>0, <1>2 DEF Published, Holds, Publish
<1>5. \A x \in EventType : Known(x)' /\ x.job # j => Known(x)
  <2>1. \A k \in Jobs : latest'[k] \in {e, latest[k], NoEvent}
    BY <1>0, <1>2 DEF Published
  <2> QED
    BY <1>2, <1>4, <2>1, Constants DEF Known
<1>6. \A x \in EventType : Known(x)' => x.ts <= clock
  BY DEF OrderInv, HubPast, StorePast, Known, Holds
<1>7. NothingNewer'
  <2> SUFFICES ASSUME NEW k \in Turns, Active(k)'
               PROVE  /\ engine'[k] \in {"running", "held", "awaiting"} /\ asked'[k] = {}
                      /\ rows[k].last <= latest'[k].ts
                      /\ \A x \in EventType : Known(x)' /\ x.job = k => x.ts <= latest'[k].ts
    BY DEF NothingNewer
  <2>0. k \in Jobs
    BY DEF Jobs
  <2>1. CASE k = j
    <3>1. s \notin Terminal
      BY <1>2, <2>1 DEF Active, IsTerminal
    <3>2. rows[k].last <= clock
      BY <2>0 DEF AgreeInv, ReachInv, OrderInv, StorePast
    <3> QED
      BY <1>2, <1>6, <2>1, <3>1, <3>2
  <2>2. CASE k # j
    BY <1>0, <1>3, <1>5, <2>0, <2>2 DEF NothingNewer
  <2> QED
    BY <2>1, <2>2
<1>8. LoadedIsStored'
  BY <1>0 DEF LoadedIsStored
<1>9. NewestIsShown'
  <2> SUFFICES ASSUME NEW k \in Turns, conn # "down", Active(k)'
               PROVE  Pending(latest[k])' \/ rows[k].status = latest'[k].status
    BY DEF NewestIsShown
  <2>0. k \in Jobs
    BY DEF Jobs
  <2>1. CASE k = j
    <3>1. Len(queue) + 1 \in 1..Len(queue') /\ queue'[Len(queue) + 1] = latest'[j]
      BY <1>0 DEF Published
    <3> QED
      BY <2>1, <3>1 DEF Pending
  <2>2. CASE k # j
    <3>1. latest'[k] = latest[k] /\ Active(k)
      BY <1>3, <2>0, <2>2
    <3>2. Pending(latest[k]) => Pending(latest[k])'
      BY <1>0, <3>1 DEF Pending, Published
    <3> QED
      BY <1>0, <3>1, <3>2 DEF NewestIsShown
  <2> QED
    BY <2>1, <2>2
<1> QED
  BY <1>7, <1>8, <1>9 DEF ShownInv

LEMMA TurnShows ==
    ASSUME AgreeInv, OrderInv', NEW j \in Turns, TurnStep(j)
    PROVE  ShownInv'
<1>0. TypeOK /\ ShownInv /\ j \in Jobs
  BY DEF AgreeInv, TruthInv, TypeInv, Jobs
<1>1. UNCHANGED <<clock, asked, conn, byId, snap, applying, rows>>
  BY DEF TurnStep, TurnStart, TurnHold, TurnAwaitApproval, TurnContinue, TurnComplete,
     TurnFail, TurnCancel, TurnForget, Turn, streamVars
<1>2. CASE TurnForget(j)
  <2>1. UNCHANGED <<engine, latest, queue>>
    BY <1>2 DEF TurnForget, streamVars
  <2> QED
    BY <1>0, <1>1, <2>1 DEF ShownInv, NothingNewer, LoadedIsStored, NewestIsShown, Active, Pending,
       Known, Holds
<1>3. CASE ~TurnForget(j)
  <2>1. PICK to \in TurnPhases, s \in Statuses :
          /\ engine' = [engine EXCEPT ![j] = to] /\ Publish(j, s)
          /\ s \notin Terminal => to \in {"running", "held", "awaiting"}
    BY <1>3 DEF TurnStep, TurnStart, TurnHold, TurnAwaitApproval, TurnContinue, TurnComplete,
       TurnFail, TurnCancel, Turn, TurnPhases, Statuses, Terminal
  <2>2. /\ \A k \in Turns : k # j => engine'[k] = engine[k] /\ asked'[k] = asked[k]
        /\ s \notin Terminal => engine'[j] \in {"running", "held", "awaiting"} /\ asked'[j] = {}
    BY <1>0, <1>1, <2>1 DEF TypeOK, AgreeInv, NobodyAsks
  <2> QED
    BY <1>0, <1>1, <2>1, <2>2, PublishShows
<1> QED
  BY <1>2, <1>3

LEMMA ScheduleShows ==
    ASSUME AgreeInv, OrderInv', NEW j \in Schedules, ScheduleStep(j)
    PROVE  ShownInv'
<1>0. TypeOK /\ ShownInv /\ j \in Jobs /\ j \notin Turns
  BY JobsAssumption DEF AgreeInv, TruthInv, TypeInv, Jobs
<1>1. UNCHANGED <<clock, asked, conn, byId, snap, applying, rows>>
  BY DEF ScheduleStep, ScheduleCreate, ScheduleFireOnce, ScheduleAdvance, SchedulePause,
     ScheduleRearm, SchedulePublish, Commit, streamVars
<1>2. \A k \in Turns : engine'[k] = engine[k]
  BY <1>0, JobsAssumption DEF ScheduleStep, ScheduleCreate, ScheduleFireOnce, ScheduleAdvance,
     SchedulePause, ScheduleRearm, SchedulePublish, Commit, TypeOK, Jobs
<1>3. CASE SchedulePublish(j)
  <2>1. Head(owed[j]) \in Statuses /\ Publish(j, Head(owed[j]))
    <3>1. owed[j] \in Seq(Statuses) /\ owed[j] # <<>>
      BY <1>0, <1>3 DEF SchedulePublish, TypeOK
    <3> QED
      BY <1>3, <3>1 DEF SchedulePublish
  <2>2. PICK s \in Statuses : Publish(j, s)
    BY <2>1
  <2> QED
    BY <1>0, <1>1, <1>2, <2>2, PublishShows
<1>4. CASE ~SchedulePublish(j)
  <2>1. UNCHANGED <<latest, queue>>
    BY <1>4 DEF ScheduleStep, ScheduleCreate, ScheduleFireOnce, ScheduleAdvance,
       SchedulePause, ScheduleRearm, Commit, streamVars
  <2> QED
    BY <1>0, <1>1, <1>2, <2>1 DEF ShownInv, NothingNewer, LoadedIsStored, NewestIsShown, Active,
       Pending, Known, Holds
<1> QED
  BY <1>3, <1>4

LEMMA StreamShows ==
    ASSUME AgreeInv, StreamStep
    PROVE  ShownInv'
<1>0. /\ TypeOK /\ NothingNewer /\ LoadedIsStored /\ NewestIsShown /\ TruthInv
      /\ Filed /\ StreamShape /\ Captured
  BY DEF AgreeInv, ShownInv, ReachInv, DeliveryInv, TruthInv, TypeInv
<1>1. UNCHANGED <<applying, rows>>
  BY DEF StreamStep, Connect, EnumerateRead, EnumerateFails, EnumerateReturn, Drop, Restart
<1>2. LoadedIsStored'
  BY <1>0, <1>1 DEF LoadedIsStored
<1>3. ASSUME UNCHANGED <<engine, asked>>,
             \A k \in Jobs : latest'[k] \in {latest[k], NoEvent},
             \A x \in EventType : Known(x)' /\ x.job \in Turns => Known(x)
      PROVE  NothingNewer'
  <2>1. \A k \in Turns : Active(k)' => Active(k) /\ latest'[k] = latest[k]
    BY <1>3 DEF Active, Jobs
  <2> QED
    BY <1>0, <1>1, <1>3, <2>1 DEF NothingNewer
<1>4. CASE Connect
  <2>1. PICK stale \in SUBSET TerminalAt : latest' = Pruned(stale)
    BY <1>4 DEF Connect
  <2>2. /\ UNCHANGED <<engine, asked, snap, queue>> /\ conn' = "capturing"
        /\ byId' = [k \in Jobs |-> IF IsTerminal(latest[k]) THEN NoEvent ELSE latest[k]]
    BY <1>4 DEF Connect, engineVars
  <2>3. \A k \in Jobs : latest'[k] \in {latest[k], NoEvent} /\ byId'[k] \in {latest[k], NoEvent}
    BY <2>1, <2>2 DEF Pruned
  <2>4. NothingNewer'
    BY <1>1, <1>3, <2>2, <2>3, Constants DEF Known, Holds
  <2>5. NewestIsShown'
    <3>1. \A k \in Turns : Active(k)' => byId'[k] = latest'[k] /\ latest'[k].job = k
      BY <1>0, <2>2, <2>3 DEF Active, Filed, Jobs
    <3> QED
      BY <2>2, <3>1 DEF NewestIsShown, Pending
  <2> QED
    BY <1>2, <2>4, <2>5 DEF ShownInv
<1>5. CASE EnumerateRead \/ EnumerateFails
  <2>1. /\ UNCHANGED <<engine, asked, latest, byId, snap, queue>>
        /\ conn = "capturing" /\ conn' = "enumerated"
    BY <1>5 DEF EnumerateRead, EnumerateFails, engineVars
  <2> QED
    BY <1>0, <1>1, <2>1 DEF ShownInv, NothingNewer, LoadedIsStored, NewestIsShown, Active, Pending,
       Known, Holds
<1>6. CASE EnumerateReturn
  <2>1. /\ UNCHANGED <<engine, asked, latest, queue>> /\ byId' = [j \in Jobs |-> NoEvent]
        /\ conn = "enumerated" /\ conn' = "live"
        /\ snap' = {byId[k] : k \in {k \in Jobs : byId[k] # NoEvent}}
             \cup {Event(k, "scheduled", clock) : k \in {k \in dbRead : byId[k] = NoEvent}}
    BY <1>6 DEF EnumerateReturn, engineVars
  <2>2. \A x \in snap' : x.job \in Turns => Known(x)
    BY <1>0, <2>1, JobsAssumption DEF Known, Event, TypeOK
  <2>3. NothingNewer'
    <3>1. \A x \in EventType : Known(x)' /\ x.job \in Turns => Known(x)
      BY <1>1, <2>1, <2>2, Constants DEF Known, Holds
    <3> QED
      BY <1>3, <2>1, <3>1
  <2>4. NewestIsShown'
    <3>1. \A k \in Turns : Active(k) => latest[k] \in snap' \/ Holds(queue, latest[k])
      BY <1>0, <2>1 DEF Captured, Active, Jobs
    <3> QED
      BY <2>1, <3>1 DEF NewestIsShown, Pending, Holds, Active
  <2> QED
    BY <1>2, <2>3, <2>4 DEF ShownInv
<1>7. CASE Drop \/ Restart
  <2>1. /\ conn' = "down" /\ byId' = [k \in Jobs |-> NoEvent] /\ snap' = {} /\ queue' = <<>>
    BY <1>7 DEF Drop, Restart, Disconnected
  <2>2. NothingNewer'
    <3>1. CASE Drop
      <4>1. UNCHANGED <<engine, asked, latest>>
        BY <3>1 DEF Drop, engineVars
      <4> QED
        BY <1>1, <1>3, <2>1, <4>1, Constants DEF Known, Holds
    <3>2. CASE Restart
      BY <3>2 DEF Restart, NothingNewer, Active, Jobs
    <3> QED
      BY <1>7, <3>1, <3>2
  <2>3. NewestIsShown'
    BY <2>1 DEF NewestIsShown
  <2> QED
    BY <1>2, <2>2, <2>3 DEF ShownInv
<1> QED
  BY <1>4, <1>5, <1>6, <1>7 DEF StreamStep

LEMMA TakeShows ==
    ASSUME AgreeInv, NEW e \in EventType, Known(e), Take(e),
           \A x : x \in snap' => x \in snap,
           \A x : Holds(queue', x) => Holds(queue, x),
           \A x : x \in snap => x = e \/ x \in snap',
           \A x : Holds(queue, x) => x = e \/ Holds(queue', x)
    PROVE  ShownInv'
<1>0. TypeOK /\ NothingNewer /\ LoadedIsStored /\ NewestIsShown /\ TruthInv
  BY DEF AgreeInv, ShownInv, TruthInv, TypeInv
<1>1. /\ conn = "live" /\ applying = NoApply
      /\ UNCHANGED <<engine, asked, latest, conn, byId, rows>>
      /\ applying' = IF Admits(rows[e.job], e)
                     THEN [event |-> e, loaded |-> rows[e.job]] ELSE NoApply
  BY DEF Take, engineVars
<1>2. \A x \in EventType : Known(x)' => Known(x)
  <2>1. applying'.event \in {e, NoEvent}
    BY <1>1 DEF NoApply
  <2> QED
    BY <1>1, <2>1, Constants DEF Known
<1>3. NothingNewer'
  BY <1>0, <1>1, <1>2 DEF NothingNewer, Active
<1>4. LoadedIsStored'
  BY <1>1 DEF LoadedIsStored
<1>5. NewestIsShown'
  <2> SUFFICES ASSUME NEW j \in Turns, Active(j)
               PROVE  Pending(latest[j])' \/ rows[j].status = latest[j].status
    BY <1>1 DEF NewestIsShown, Active
  <2>0. /\ latest[j] \in EventType /\ latest[j].job = j /\ j \in Jobs
        /\ rows[j].status \notin Terminal
    BY <1>0, ActiveTurn
  <2>1. CASE latest[j] = e
    <3>1. rows[j] \in RowType \cup {NoRow} /\ rows[j].last <= e.ts
      BY <1>0, <2>0, <2>1 DEF NothingNewer, TypeOK
    <3>2. Admits(rows[j], e)
      <4>1. e.ts \in Nat /\ rows[j].last \in Nat
        BY <3>1, BoundsAssumption DEF EventType, RowType, NoRow, Null
      <4> QED
        BY <2>0, <3>1, <4>1 DEF Admits, Absorbed, Stale
    <3> QED
      BY <1>1, <2>0, <2>1, <3>2 DEF Pending
  <2>2. CASE latest[j] # e
    <3>1. Pending(latest[j]) => latest[j] \in snap \/ Holds(queue, latest[j])
      BY <1>1, <2>0, Constants DEF Pending, Holds, NoApply
    <3>2. latest[j] \in snap \/ Holds(queue, latest[j]) => Pending(latest[j])'
      BY <1>1, <2>2 DEF Pending, Holds
    <3> QED
      BY <1>0, <1>1, <3>1, <3>2 DEF NewestIsShown
  <2> QED
    BY <2>1, <2>2
<1> QED
  BY <1>3, <1>4, <1>5 DEF ShownInv

LEMMA SubscriberShows ==
    ASSUME AgreeInv, TakeSnapshot \/ TakeLive
    PROVE  ShownInv'
<1>0. queue \in Seq(EventType) /\ snap \subseteq EventType
  BY DEF AgreeInv, TruthInv, TypeInv, TypeOK
<1>1. CASE TakeSnapshot
  <2>1. PICK e \in snap : Take(e) /\ snap' = snap \ {e} /\ queue' = queue
    BY <1>1 DEF TakeSnapshot
  <2>2. e \in EventType /\ Known(e)
    BY <1>0 DEF Known
  <2> QED
    BY <2>1, <2>2, TakeShows DEF Holds
<1>2. CASE TakeLive
  <2>1. /\ snap' = snap /\ queue # <<>> /\ queue' = Tail(queue) /\ Take(Head(queue))
    BY <1>2 DEF TakeLive
  <2>2. PICK e \in EventType : e = Head(queue)
    BY <1>0, <2>1
  <2>3. /\ e = queue[1] /\ 1 \in 1..Len(queue) /\ Len(queue) \in Nat /\ Len(queue') = Len(queue) - 1
        /\ \A i \in 1..Len(queue') : queue'[i] = queue[i + 1] /\ i + 1 \in 1..Len(queue)
    BY <1>0, <2>1, <2>2
  <2>4. ASSUME NEW i \in 1..Len(queue), queue[i] # e
        PROVE  i - 1 \in 1..Len(queue') /\ queue'[i - 1] = queue[i]
    <3>1. i # 1
      BY <2>3, <2>4
    <3>2. i - 1 \in 1..Len(queue')
      BY <2>3, <3>1
    <3> QED
      BY <2>3, <3>2
  <2>5. \A x : Holds(queue, x) => x = e \/ Holds(queue', x)
    BY <2>4 DEF Holds
  <2>6. (\A x : Holds(queue', x) => Holds(queue, x)) /\ Known(e)
    BY <2>3 DEF Holds, Known
  <2> QED
    BY <2>1, <2>2, <2>5, <2>6, TakeShows
<1> QED
  BY <1>1, <1>2

LEMMA CommitShows ==
    ASSUME AgreeInv, CommitRow
    PROVE  ShownInv'
<1>0. /\ TypeOK /\ NothingNewer /\ LoadedIsStored /\ NewestIsShown /\ TruthInv
      /\ StreamShape /\ ApplyNewest
  BY DEF AgreeInv, ShownInv, ReachInv, DeliveryInv, TruthInv, TypeInv
<1>1. PICK e \in EventType : e = applying.event
  BY <1>0 DEF CommitRow, TypeOK
<1>2. /\ applying # NoApply /\ applying' = NoApply /\ applying.loaded = rows[e.job]
      /\ UNCHANGED <<engine, asked, latest, conn, byId, snap, queue>>
      /\ rows' = [rows EXCEPT ![e.job] = Flush(rows[e.job], Applied(rows[e.job], e), rows[e.job])]
      /\ rows \in [Jobs -> RowType \cup {NoRow}] /\ e.job \in Jobs
      /\ conn \in {"down", "live"} /\ Known(e)
  BY <1>0, <1>1 DEF CommitRow, LoadedIsStored, TypeOK, streamVars, engineVars, EventType, StreamShape,
     Known
<1>3. rows'[e.job].status = e.status /\ rows'[e.job].last = e.ts
  BY <1>2 DEF Flush, Column, Applied
<1>4. \A k \in Jobs : k # e.job => rows'[k] = rows[k]
  BY <1>2
<1>5. \A x \in EventType : Known(x)' => Known(x)
  BY <1>2, Constants DEF Known, Holds, NoApply
<1>6. NothingNewer'
  <2> SUFFICES ASSUME NEW j \in Turns, Active(j)
               PROVE  rows'[j].last <= latest[j].ts
    BY <1>0, <1>2, <1>5 DEF NothingNewer, Active
  <2> QED
    BY <1>0, <1>2, <1>3, <1>4 DEF NothingNewer, Jobs
<1>7. LoadedIsStored'
  BY <1>2 DEF LoadedIsStored
<1>8. NewestIsShown'
  <2> SUFFICES ASSUME NEW j \in Turns, conn = "live", Active(j)
               PROVE  Pending(latest[j])' \/ rows'[j].status = latest[j].status
    BY <1>2 DEF NewestIsShown, Active
  <2>0. latest[j] \in EventType /\ latest[j].job = j /\ j \in Jobs
    BY <1>0, ActiveTurn
  <2>1. latest[j] \in snap \/ Holds(queue, latest[j]) => Pending(latest[j])'
    BY <1>2 DEF Pending, Holds
  <2>2. CASE latest[j] = e
    BY <1>3, <2>0, <2>2
  <2>3. CASE latest[j] # e /\ e.job = j
    BY <1>0, <1>1, <1>2, <2>1, <2>3 DEF ApplyNewest
  <2>4. CASE latest[j] # e /\ e.job # j
    <3>1. Pending(latest[j]) => latest[j] \in snap \/ Holds(queue, latest[j])
      BY <1>1, <2>4 DEF Pending, Holds
    <3> QED
      BY <1>0, <1>4, <2>0, <2>1, <2>4, <3>1 DEF NewestIsShown
  <2> QED
    BY <2>2, <2>3, <2>4
<1> QED
  BY <1>6, <1>7, <1>8 DEF ShownInv

LEMMA AgreeNext ==
    ASSUME "persist" \notin Faults, Controls = {}, AgreeInv, [Next]_vars
    PROVE  AgreeInv'
<1>1. ReachInv' /\ TruthInv'
  BY ReachNext, TruthNext DEF AgreeInv
<1>2. OrderInv'
  BY <1>1 DEF ReachInv
<1>3. NobodyAsks'
  BY DEF AgreeInv, NobodyAsks, Next, Tick, TurnStep, TurnStart, TurnHold, TurnAwaitApproval,
     TurnContinue, TurnComplete, TurnFail, TurnCancel, TurnForget, Turn, ScheduleStep,
     ScheduleCreate, ScheduleFireOnce, ScheduleAdvance, SchedulePause, ScheduleRearm,
     SchedulePublish, Commit, StreamStep, Connect, EnumerateRead, EnumerateFails, EnumerateReturn, Drop, Restart,
     SubscriberStep, TakeSnapshot, TakeLive, Take, CommitRow, PersistFails, engineVars, vars
<1>4. CASE Tick \/ UNCHANGED vars
  <2>1. UNCHANGED <<engine, asked, latest, conn, byId, snap, queue, applying, rows>>
    BY <1>4 DEF Tick, vars, engineVars, streamVars
  <2> QED
    BY <1>1, <1>3, <2>1 DEF AgreeInv, ShownInv, NothingNewer, LoadedIsStored, NewestIsShown, Active,
       Pending, Known, Holds
<1>5. ~PersistFails
  BY DEF PersistFails, Fault
<1>6. CASE Next
  BY <1>1, <1>2, <1>3, <1>4, <1>5, <1>6, TurnShows, ScheduleShows, StreamShows, SubscriberShows,
     CommitShows DEF Next, SubscriberStep, AgreeInv
<1> QED
  BY <1>4, <1>6

(***************************************************************************)
(* Without requests, and unless the store's database refuses a write: once *)
(* the stream is drained the row of every active turn shows what the hub   *)
(* last published, and a row that says a job is over, a turn's or a        *)
(* schedule's, tells the truth, for any jobs, drops and restarts           *)
(* (JobProducer.subscribe and apply_event).                                *)
(***************************************************************************)
THEOREM RowsTellTheTruthHolds ==
    ASSUME "persist" \notin Faults, Controls = {}
    PROVE  Spec => []RowsTellTheTruth
<1>1. Init => AgreeInv
  <2> SUFFICES ASSUME Init PROVE AgreeInv
    OBVIOUS
  <2>1. ReachInv /\ TruthInv
    BY TypeInit, OrderInit, DeliveryInit, TruthInit
       DEF ReachInv, OrderInv, ActiveEventReachesStore, Init
  <2> QED
    BY <2>1 DEF Init, AgreeInv, NobodyAsks, ShownInv, NothingNewer, LoadedIsStored, NewestIsShown,
       Active, Jobs
<1>2. AgreeInv /\ [Next]_vars => AgreeInv'
  BY AgreeNext
<1>3. AgreeInv => RowsTellTheTruth
  <2> SUFFICES ASSUME AgreeInv PROVE RowsTellTheTruth
    OBVIOUS
  <2>1. TypeOK /\ NewestIsShown /\ TruthInv /\ NothingNewer
    BY DEF AgreeInv, ShownInv, TruthInv, TypeInv
  <2>2. QuietAgreement
    <3> SUFFICES ASSUME Quiet, NEW j \in Turns, Active(j) PROVE rows[j].status = latest[j].status
      BY DEF QuietAgreement
    <3>1. latest[j] \in EventType
      BY <2>1, ActiveTurn
    <3>2. ~Pending(latest[j])
      BY <3>1, Constants DEF Quiet, Pending, NoApply
    <3> QED
      BY <2>1, <3>2 DEF Quiet, NewestIsShown
  <2>3. TerminalRowMeansOver
    <3>1. \A j \in Jobs : rows[j].status \in Terminal => Over(j)
      BY <2>1 DEF TruthInv, RowsTold, Told, NoRow, Terminal
    <3> QED
      BY <2>1, <3>1, JobsAssumption
         DEF TerminalRowMeansOver, TurnRowMeansOver, Over, TruthInv, OwedTold, ScheduleStates,
             Terminal, Jobs
  <2> QED
    BY <2>1, <2>2, <2>3 DEF RowsTellTheTruth
<1> QED
  BY <1>1, <1>2, <1>3, PTL DEF Spec

-----------------------------------------------------------------------------
(***************************************************************************)
(* Ends are final.  An engine ends once, so all that is known of the end   *)
(* of a job is the one end it came to; and an event that would take a row  *)
(* out of it is not admitted, since nobody else writes the row while the   *)
(* subscriber has it in hand.                                              *)
(***************************************************************************)
OneEnd(j, status) == status \in Terminal => engine[j] = status

OwedEnds(j) == \A i \in 1..Len(owed[j]) : OneEnd(j, owed[j][i])

EndsAgree ==
    /\ \A e \in EventType : Known(e) => OneEnd(e.job, e.status)
    /\ \A j \in Schedules : OwedEnds(j)
    /\ \A j \in Jobs : OneEnd(j, rows[j].status)

ApplyAdmitted == applying # NoApply => Admits(applying.loaded, applying.event)

EndInv == TruthInv /\ EndsAgree /\ LoadedIsStored /\ ApplyAdmitted

EndLasts == \A j \in Jobs : engine[j] \in Terminal => engine'[j] = engine[j]

(* No step takes a job from its end. *)
LEMMA EndIsLast ==
    ASSUME TruthInv, [Next]_vars
    PROVE  EndLasts
<1>0. TypeOK
  BY DEF TruthInv, TypeInv
<1>1. CASE engine' = engine
  BY <1>1 DEF EndLasts
<1>2. ASSUME NEW j \in Turns, TurnStep(j), ~TurnForget(j)
      PROVE  EndLasts
  <2>1. engine[j] \notin Terminal /\ \E to : engine' = [engine EXCEPT ![j] = to]
    BY <1>2 DEF TurnStep, TurnStart, TurnHold, TurnAwaitApproval, TurnContinue, TurnComplete,
       TurnFail, TurnCancel, Turn, Terminal
  <2> QED
    BY <1>0, <2>1 DEF EndLasts, TypeOK
<1>3. ASSUME NEW j \in Schedules, ScheduleStep(j), ~SchedulePublish(j)
      PROVE  EndLasts
  <2>1. engine[j] \notin Terminal /\ \E to : engine' = [engine EXCEPT ![j] = to]
    BY <1>3 DEF ScheduleStep, ScheduleCreate, ScheduleFireOnce, ScheduleAdvance, SchedulePause,
       ScheduleRearm, Commit, Terminal
  <2> QED
    BY <1>0, <2>1 DEF EndLasts, TypeOK
<1>4. CASE Restart
  BY <1>0, <1>4 DEF Restart, EndLasts, TypeOK, Terminal
<1>5. ASSUME NEW c \in Controls, ControlSchedule(c)
      PROVE  EndLasts
  BY <1>0, <1>5 DEF ControlSchedule, EndLasts, TypeOK, Terminal
<1>6. ASSUME NEW c \in Controls, ControlStep(c), ~ControlSchedule(c)
      PROVE  engine' = engine
  BY <1>6 DEF ControlStep, ControlRead, ControlNothing, ControlTurn, ControlPublish, ControlWrite,
     ControlFails, engineVars
<1>7. ASSUME StreamStep \/ SubscriberStep, ~Restart
      PROVE  engine' = engine
  BY <1>7 DEF StreamStep, Connect, EnumerateRead, EnumerateFails, EnumerateReturn, Drop, SubscriberStep,
     TakeSnapshot, TakeLive, Take, CommitRow, PersistFails, engineVars
<1>8. CASE Tick \/ UNCHANGED vars \/ (\E j \in Turns : TurnForget(j)) \/ (\E j \in Schedules : SchedulePublish(j))
  BY <1>1, <1>8 DEF Tick, vars, engineVars, TurnForget, SchedulePublish
<1> QED
  BY <1>1, <1>2, <1>3, <1>4, <1>5, <1>6, <1>7, <1>8 DEF Next

(* What the parts say lasts, if what becomes known is that schedules are   *)
(* pending and the ends that engines came to.                              *)
LEMMA AgreeLasts ==
    ASSUME EndsAgree, EndLasts, UNCHANGED <<rows, applying>>, LoadedIsStored, ApplyAdmitted,
           \A e \in EventType : Known(e)' => Known(e) \/ Announces(e) \/ OneEnd(e.job, e.status)',
           \A j \in Schedules : OwedEnds(j)'
    PROVE  EndsAgree' /\ LoadedIsStored' /\ ApplyAdmitted'
<1>1. ASSUME NEW e \in EventType, Known(e)'
      PROVE  OneEnd(e.job, e.status)'
  <2>1. e.job \in Jobs
    BY DEF EventType
  <2>2. CASE Known(e)
    BY <2>1, <2>2 DEF EndsAgree, EndLasts, OneEnd
  <2>3. CASE Announces(e)
    BY <2>3 DEF Announces, OneEnd, Terminal
  <2> QED
    BY <1>1, <2>2, <2>3
<1>2. \A j \in Jobs : OneEnd(j, rows[j].status)'
  BY DEF EndsAgree, EndLasts, OneEnd
<1> QED
  BY <1>1, <1>2 DEF EndsAgree, LoadedIsStored, ApplyAdmitted

(* What a schedule owed and still owes is as true as it was. *)
LEMMA OwedLasts ==
    ASSUME EndsAgree, EndLasts, NEW j \in Schedules, owed'[j] \in {owed[j], <<>>}
    PROVE  OwedEnds(j)'
<1>1. CASE owed'[j] = owed[j]
  BY <1>1 DEF EndsAgree, EndLasts, OwedEnds, OneEnd, Jobs
<1>2. CASE owed'[j] = <<>>
  BY <1>2 DEF OwedEnds
<1> QED
  BY <1>1, <1>2

LEMMA TurnEnds ==
    ASSUME EndInv, EndLasts, NEW j \in Turns, TurnStep(j)
    PROVE  EndsAgree' /\ LoadedIsStored' /\ ApplyAdmitted'
<1>0. TypeOK /\ EndsAgree /\ LoadedIsStored /\ ApplyAdmitted /\ j \in Jobs
  BY DEF EndInv, TruthInv, TypeInv, Jobs
<1>1. UNCHANGED <<owed, rows, applying, byId, snap>>
  BY DEF TurnStep, TurnStart, TurnHold, TurnAwaitApproval, TurnContinue, TurnComplete, TurnFail,
     TurnCancel, TurnForget, Turn, streamVars
<1>2. \A k \in Schedules : OwedEnds(k)'
  BY <1>0, <1>1, OwedLasts
<1>3. CASE TurnForget(j)
  <2>1. \A e \in EventType : Known(e)' => Known(e)
    BY <1>1, <1>3 DEF TurnForget, Known, Holds, streamVars
  <2> QED
    BY <1>0, <1>1, <1>2, <2>1, AgreeLasts
<1>4. CASE ~TurnForget(j)
  <2>1. PICK s \in Statuses :
            /\ Publish(j, s)
            /\ \E to : engine' = [engine EXCEPT ![j] = to] /\ (s \in Terminal => to = s)
    BY <1>4 DEF TurnStep, TurnStart, TurnHold, TurnAwaitApproval, TurnContinue, TurnComplete,
       TurnFail, TurnCancel, Turn, Statuses, Terminal
  <2>2. OneEnd(j, s)'
    BY <1>0, <2>1 DEF OneEnd, TypeOK
  <2>3. \A e \in EventType : Known(e)' => Known(e) \/ e = Event(j, s, clock)
    <3>1. Publish(j, s)
      BY <2>1
    <3> QED
      BY <1>0, <1>1, <3>1, PublishKnown
  <2>4. \A e \in EventType : Known(e)' => Known(e) \/ OneEnd(e.job, e.status)'
    BY <2>2, <2>3 DEF Event
  <2> QED
    BY <1>0, <1>1, <1>2, <2>4, AgreeLasts
<1> QED
  BY <1>3, <1>4

LEMMA ScheduleEnds ==
    ASSUME EndInv, EndLasts, NEW j \in Schedules, ScheduleStep(j)
    PROVE  EndsAgree' /\ LoadedIsStored' /\ ApplyAdmitted'
<1>0. TypeOK /\ EndsAgree /\ LoadedIsStored /\ ApplyAdmitted /\ j \in Jobs
  BY DEF EndInv, TruthInv, TypeInv, Jobs
<1>1. UNCHANGED <<rows, applying, byId, snap>>
  BY DEF ScheduleStep, ScheduleCreate, ScheduleFireOnce, ScheduleAdvance, SchedulePause,
     ScheduleRearm, SchedulePublish, Commit, streamVars
<1>2. \A k \in Schedules : k # j => owed'[k] = owed[k]
  BY <1>0 DEF ScheduleStep, ScheduleCreate, ScheduleFireOnce, ScheduleAdvance, SchedulePause,
     ScheduleRearm, SchedulePublish, Commit, TypeOK
<1>3. \A k \in Schedules : k # j => OwedEnds(k)'
  BY <1>0, <1>2, OwedLasts
<1>4. CASE SchedulePublish(j)
  <2>0. /\ owed[j] \in Seq(Statuses) /\ Len(owed[j]) > 0 /\ owed'[j] = Tail(owed[j])
        /\ engine' = engine /\ Publish(j, Head(owed[j]))
    BY <1>0, <1>4 DEF SchedulePublish, TypeOK
  <2>1. PICK s \in Statuses : Publish(j, s) /\ OneEnd(j, s)
    <3>1. Head(owed[j]) \in Statuses /\ Head(owed[j]) = owed[j][1] /\ 1 \in 1..Len(owed[j])
      BY <2>0
    <3>2. OneEnd(j, Head(owed[j]))
      BY <1>0, <3>1 DEF EndsAgree, OwedEnds
    <3> QED
      BY <2>0, <3>1, <3>2
  <2>2. \A e \in EventType : Known(e)' => Known(e) \/ e = Event(j, s, clock)
    BY <1>0, <1>1, <2>1, PublishKnown
  <2>3. \A e \in EventType : Known(e)' => Known(e) \/ OneEnd(e.job, e.status)'
    BY <2>0, <2>1, <2>2 DEF Event, OneEnd
  <2>4. OwedEnds(j)'
    <3>1. \A i \in 1..Len(Tail(owed[j])) : i + 1 \in 1..Len(owed[j]) /\ Tail(owed[j])[i] = owed[j][i + 1]
      BY <2>0
    <3>2. \A i \in 1..Len(Tail(owed[j])) : OneEnd(j, Tail(owed[j])[i])
      BY <1>0, <3>1 DEF EndsAgree, OwedEnds
    <3> QED
      BY <2>0, <3>2 DEF OwedEnds, OneEnd
  <2> QED
    BY <1>0, <1>1, <1>3, <2>3, <2>4, AgreeLasts
<1>5. CASE ~SchedulePublish(j)
  <2>1. UNCHANGED <<latest, queue>>
    BY <1>5 DEF ScheduleStep, ScheduleCreate, ScheduleFireOnce, ScheduleAdvance, SchedulePause,
       ScheduleRearm, Commit, streamVars
  <2>2. \A e \in EventType : Known(e)' => Known(e)
    BY <1>1, <2>1 DEF Known, Holds
  <2>3. OwedEnds(j)'
    <3>1. CASE ScheduleFireOnce(j)
      <4>1. engine'[j] = "completed" /\ owed'[j] = <<"running", "completed">>
        BY <1>0, <3>1 DEF ScheduleFireOnce, Commit, TypeOK
      <4>2. \A i \in 1..Len(owed'[j]) : owed'[j][i] \in {"running", "completed"}
        BY <4>1
      <4> QED
        BY <4>1, <4>2 DEF OwedEnds, OneEnd, Terminal
    <3>2. CASE ~ScheduleFireOnce(j)
      <4>1. PICK s \in {"scheduled", "paused"} : owed' = [owed EXCEPT ![j] = <<s>>]
        BY <1>5, <3>2 DEF ScheduleStep, ScheduleCreate, ScheduleAdvance, SchedulePause,
           ScheduleRearm, Commit
      <4>2. owed'[j] = <<s>>
        BY <1>0, <4>1 DEF TypeOK
      <4>3. \A i \in 1..Len(owed'[j]) : owed'[j][i] = s
        BY <4>2
      <4> QED
        BY <4>3 DEF OwedEnds, OneEnd, Terminal
    <3> QED
      BY <3>1, <3>2
  <2> QED
    BY <1>0, <1>1, <1>3, <2>2, <2>3, AgreeLasts
<1> QED
  BY <1>4, <1>5

LEMMA StreamEnds ==
    ASSUME EndInv, EndLasts, StreamStep
    PROVE  EndsAgree' /\ LoadedIsStored' /\ ApplyAdmitted'
<1>0. TypeOK /\ EndsAgree /\ LoadedIsStored /\ ApplyAdmitted
  BY DEF EndInv, TruthInv, TypeInv
<1>1. UNCHANGED <<rows, applying>> /\ \A k \in Schedules : owed'[k] \in {owed[k], <<>>}
  BY DEF StreamStep, Connect, EnumerateRead, EnumerateFails, EnumerateReturn, Drop, Restart, engineVars
<1>2. \A e \in EventType : Known(e)' => Known(e) \/ Announces(e)
  BY <1>0, StreamKnown
<1>3. \A k \in Schedules : OwedEnds(k)'
  BY <1>0, <1>1, OwedLasts
<1> QED
  BY <1>0, <1>1, <1>2, <1>3, AgreeLasts

(* A write of the subscriber leaves a row that shows an end as it is. *)
LEMMA CommitKeepsEnds ==
    ASSUME EndInv, CommitRow
    PROVE  /\ \A j \in Jobs : rows[j].status \in Terminal => rows'[j].status = rows[j].status
           /\ \A j \in Jobs : OneEnd(j, rows'[j].status)
<1>0. TypeOK /\ EndsAgree /\ LoadedIsStored /\ ApplyAdmitted
  BY DEF EndInv, TruthInv, TypeInv
<1>1. PICK e \in EventType : e = applying.event
  BY <1>0 DEF CommitRow, TypeOK
<1>2. /\ applying # NoApply /\ e.job \in Jobs /\ Known(e)
      /\ rows' = [rows EXCEPT ![e.job] = Flush(rows[e.job], Applied(rows[e.job], e), rows[e.job])]
      /\ rows \in [Jobs -> RowType \cup {NoRow}] /\ Admits(rows[e.job], e)
  BY <1>0, <1>1 DEF CommitRow, LoadedIsStored, ApplyAdmitted, TypeOK, EventType, Known
<1>3. rows'[e.job].status = e.status /\ \A k \in Jobs : k # e.job => rows'[k] = rows[k]
  BY <1>2 DEF Flush, Column, Applied
<1>4. OneEnd(e.job, e.status) /\ OneEnd(e.job, rows[e.job].status)
  BY <1>0, <1>2 DEF EndsAgree
<1>5. rows[e.job].status \in Terminal => e.status \in Terminal
  BY <1>2 DEF Admits, Absorbed, NoRow, Terminal
<1> QED
  BY <1>0, <1>3, <1>4, <1>5 DEF EndsAgree, OneEnd

LEMMA SubscriberEnds ==
    ASSUME EndInv, SubscriberStep
    PROVE  EndsAgree' /\ LoadedIsStored' /\ ApplyAdmitted'
<1>0. TypeOK /\ EndsAgree /\ LoadedIsStored /\ ApplyAdmitted
  BY DEF EndInv, TruthInv, TypeInv
<1>1. UNCHANGED <<engine, owed>>
  BY DEF SubscriberStep, TakeSnapshot, TakeLive, Take, CommitRow, PersistFails, engineVars
<1>2. \A e \in EventType : Known(e)' => Known(e)
  BY <1>0, SubscriberKnown
<1>3. \A j \in Jobs : OneEnd(j, rows'[j].status)
  <2>1. CASE CommitRow
    BY <2>1, CommitKeepsEnds
  <2>2. CASE ~CommitRow
    <3>1. rows' = rows
      BY <2>2 DEF SubscriberStep, TakeSnapshot, TakeLive, Take, PersistFails
    <3> QED
      BY <1>0, <3>1 DEF EndsAgree
  <2> QED
    BY <2>1, <2>2
<1>4. EndsAgree'
  BY <1>0, <1>1, <1>2, <1>3 DEF EndsAgree, OwedEnds, OneEnd
<1>5. LoadedIsStored' /\ ApplyAdmitted'
  <2>1. CASE applying' = NoApply
    BY <2>1 DEF LoadedIsStored, ApplyAdmitted
  <2>2. CASE applying' # NoApply
    <3>1. PICK e : Take(e)
      BY <2>2 DEF SubscriberStep, TakeSnapshot, TakeLive, CommitRow, PersistFails
    <3>2. rows' = rows /\ Admits(rows[e.job], e) /\ applying' = [event |-> e, loaded |-> rows[e.job]]
      BY <2>2, <3>1 DEF Take
    <3> QED
      BY <3>2 DEF LoadedIsStored, ApplyAdmitted
  <2> QED
    BY <2>1, <2>2
<1> QED
  BY <1>4, <1>5

LEMMA EndNext ==
    ASSUME Controls = {}, EndInv, [Next]_vars
    PROVE  /\ EndInv'
           /\ \A j \in Jobs : rows[j].status \in Terminal => rows'[j].status = rows[j].status
<1>1. TruthInv' /\ EndLasts
  BY TruthNext, EndIsLast DEF EndInv
<1>2. CASE Tick \/ UNCHANGED vars
  <2>1. UNCHANGED <<engine, owed, latest, byId, snap, queue, applying, rows>>
    BY <1>2 DEF Tick, vars, engineVars, streamVars
  <2>2. EndsAgree' /\ LoadedIsStored' /\ ApplyAdmitted'
    BY <2>1 DEF EndInv, EndsAgree, OwedEnds, OneEnd, Known, Holds, LoadedIsStored, ApplyAdmitted
  <2> QED
    BY <1>1, <2>1, <2>2 DEF EndInv
<1>3. CASE Next /\ ~Tick
  <2>1. EndInv'
    BY <1>1, <1>3, TurnEnds, ScheduleEnds, StreamEnds, SubscriberEnds DEF Next, EndInv
  <2>2. ~CommitRow => rows' = rows
    BY <1>3 DEF Next, TurnStep, TurnStart, TurnHold, TurnAwaitApproval, TurnContinue, TurnComplete,
       TurnFail, TurnCancel, TurnForget, Turn, ScheduleStep, ScheduleCreate, ScheduleFireOnce,
       ScheduleAdvance, SchedulePause, ScheduleRearm, SchedulePublish, Commit, StreamStep, Connect,
       EnumerateRead, EnumerateFails, EnumerateReturn, Drop, Restart, SubscriberStep, TakeSnapshot, TakeLive, Take,
       PersistFails
  <2> QED
    BY <2>1, <2>2, CommitKeepsEnds
<1> QED
  BY <1>2, <1>3

(***************************************************************************)
(* Without requests, a row that shows how a job ended shows that for ever, *)
(* whatever events arrive late, are repeated or are lost with a write that *)
(* fails (guard 1 of apply_event, and engines that end once).  It is the   *)
(* half of EndIsKept that is not liveness.                                 *)
(***************************************************************************)
THEOREM TerminalStays ==
    ASSUME Controls = {}
    PROVE  Spec => TerminalIsAbsorbing
<1>1. Init => EndInv
  <2> SUFFICES ASSUME Init PROVE EndInv
    OBVIOUS
  <2>1. TruthInv
    BY TruthInit
  <2>2. EndsAgree
    BY Constants DEF Init, EndsAgree, OwedEnds, OneEnd, Known, Holds, NoApply, NoRow, Terminal, Jobs
  <2> QED
    BY <2>1, <2>2 DEF Init, EndInv, LoadedIsStored, ApplyAdmitted
<1>2. EndInv /\ [Next]_vars => EndInv'
  BY EndNext
<1>3. EndInv /\ [Next]_vars => [\A j \in Jobs : rows[j].status \in Terminal => rows'[j].status = rows[j].status]_vars
  BY EndNext
<1> QED
  BY <1>1, <1>2, <1>3, PTL DEF Spec, TerminalIsAbsorbing
=============================================================================
