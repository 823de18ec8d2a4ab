------------------------ MODULE AgentSchedulerProofs ------------------------
(***************************************************************************)
(* Theorems about the agents scheduler, for every set of pods, pollers and *)
(* schedules, every cron, every number of cancels, creations and deletes,  *)
(* every quota and any number of crashes.                                  *)
(***************************************************************************)
EXTENDS AgentScheduler, TLAPS, WellFoundedInduction, FiniteSetTheorems

-----------------------------------------------------------------------------
(***************************************************************************)
(* The operators the steps are built from.                                 *)
(***************************************************************************)

(* A cron that matches again does so strictly later. *)
LEMMA NextFireLater ==
    ASSUME NEW s \in Crons, NEW t \in Nat
    PROVE  NextFire(s, t) = Null \/ (NextFire(s, t) \in Nat /\ NextFire(s, t) > t)
<1> DEFINE later == {n \in CronTimes[s] : n > t}
<1>1. CASE later = {}
  BY <1>1 DEF NextFire
<1>2. CASE later # {}
  <2>1. CronTimes[s] \subseteq Nat
    BY CronAssumption
  <2>2. later \subseteq Nat
    BY <2>1
  <2>3. PICK n \in later : \A m \in later : ~(<<m, n>> \in OpToRel(<, Nat))
    <3> HIDE DEF later
    <3> QED
      BY <1>2, <2>2, NatLessThanWellFounded, WFMin
  <2>4. \A m \in later : ~(m < n)
    BY <2>2, <2>3 DEF OpToRel
  <2>5. \A m \in later : n <= m
    BY <2>2, <2>4
  <2>6. NextFire(s, t) \in later
    BY <1>2, <2>5 DEF NextFire
  <2> QED
    BY <2>2, <2>6
<1> QED
  BY <1>1, <1>2

LEMMA ScheduledTyped ==
    ASSUME NEW t \in Nat
    PROVE  Scheduled(t) \in RowType /\ Scheduled(t).status = "scheduled" /\ Scheduled(t).due = t
BY DEF Scheduled, RowType, Statuses

LEMMA AdvancedTyped ==
    ASSUME NEW s \in Schedules, NEW now \in Nat
    PROVE  /\ Advanced(s, now) \in RowType
           /\ s \in Once => Advanced(s, now).status = "completed"
           /\ Advanced(s, now).status \in {"scheduled", "completed"}
           /\ Advanced(s, now).status = "scheduled" => Advanced(s, now).due > now
<1>1. CASE s \in Crons /\ NextFire(s, now) # Null
  <2>1. NextFire(s, now) \in Nat /\ NextFire(s, now) > now
    BY <1>1, NextFireLater
  <2>2. s \notin Once
    BY <1>1, SchedulesAssumption
  <2>3. Advanced(s, now) = Scheduled(NextFire(s, now))
    BY <1>1 DEF Advanced
  <2> QED
    BY <2>1, <2>2, <2>3, ScheduledTyped
<1>2. CASE ~(s \in Crons /\ NextFire(s, now) # Null)
  <2>1. Advanced(s, now) = [status |-> "completed", due |-> Null]
    BY <1>2 DEF Advanced
  <2> QED
    BY <2>1 DEF RowType, Statuses, Null
<1> QED
  BY <1>1, <1>2

LEMMA RearmedTyped ==
    ASSUME NEW s \in Schedules, NEW now \in Nat, rows \in [Schedules -> RowType]
    PROVE  /\ Rearmed(s, now) \in RowType
           /\ Rearmed(s, now).status \in {"scheduled", "completed"}
           /\ s \in Crons /\ Rearmed(s, now).status = "scheduled" => Rearmed(s, now).due > now
<1>1. CASE s \in Once
  <2>1. Rearmed(s, now) = Scheduled(now) /\ s \notin Crons
    BY <1>1, SchedulesAssumption DEF Rearmed
  <2> QED
    BY <2>1, ScheduledTyped
<1>2. CASE s \notin Once /\ NextFire(s, now) # Null
  <2>1. s \in Crons
    BY <1>2 DEF Schedules
  <2>2. NextFire(s, now) \in Nat /\ NextFire(s, now) > now
    BY <1>2, <2>1, NextFireLater
  <2>3. Rearmed(s, now) = Scheduled(NextFire(s, now))
    BY <1>2 DEF Rearmed
  <2> QED
    BY <2>2, <2>3, ScheduledTyped
<1>3. CASE s \notin Once /\ NextFire(s, now) = Null
  <2>1. Rearmed(s, now) = [status |-> "completed", due |-> rows[s].due]
    BY <1>3 DEF Rearmed
  <2>2. rows[s].due \in Nat
    BY DEF RowType
  <2> QED
    BY <2>1, <2>2 DEF RowType, Statuses
<1> QED
  BY <1>1, <1>2, <1>3

LEMMA ToldTyped ==
    ASSUME told \in [Schedules -> Statuses], NEW S, NEW status \in Statuses, Tell(S, status)
    PROVE  told' \in [Schedules -> Statuses]
BY DEF Tell

LEMMA TokensTyped ==
    ASSUME token \in [Pods -> [Schedules -> Tokens]], NEW p, NEW S, NEW t \in Tokens,
           Remember(p, S, t) \/ Forget(p, S)
    PROVE  token' \in [Pods -> [Schedules -> Tokens]]
BY DEF Remember, Forget, Tokens

LEMMA ServeTyped ==
    ASSUME TypeOK, NEW c \in Clients, NEW p \in Pods \cup {"none"}, NEW S \in SUBSET Schedules,
           NEW phase \in {"posted", "rearming", "canceling", "creating", "listed"},
           Serve(c, phase, p, S)
    PROVE  req' \in [Clients -> ReqType]
BY DEF Serve, TypeOK, ReqType

LEMMA AnsweredTyped ==
    ASSUME TypeOK, NEW c \in Clients, Answered(c)
    PROVE  req' \in [Clients -> ReqType]
BY BoundsAssumption DEF Answered, TypeOK, ReqType, IdleReq, Null

LEMMA TickingTyped ==
    ASSUME NEW todo \in SUBSET Schedules, NEW now \in 0..MaxTime
    PROVE  /\ Ticking(todo, now) \in PollerType
           /\ Ticking(todo, now).phase = "ticking"
           /\ Ticking(todo, now).now = now
BY BoundsAssumption DEF Ticking, PollerType, Null, Statuses

LEMMA NextRowTyped ==
    ASSUME TypeOK, NEW p \in Pods, NextRow(p)
    PROVE  /\ poller' \in [Pods -> PollerType]
           /\ \A q \in Pods : q # p => poller'[q] = poller[q]
           /\ poller'[p].phase = "ticking"
           /\ poller'[p].now = poller[p].now
<1>1. poller[p].todo \in SUBSET Schedules /\ poller[p].now \in 0..MaxTime
  BY DEF TypeOK, PollerType
<1> QED
  BY <1>1, TickingTyped DEF NextRow, TypeOK

LEMMA IdleTyped == IdlePoller \in PollerType /\ IdleReq \in ReqType
BY BoundsAssumption DEF IdlePoller, PollerType, IdleReq, ReqType, Null, Statuses

-----------------------------------------------------------------------------
(***************************************************************************)
(* Type correctness.  A poller past the gate has a job, and a tool call    *)
(* belongs to a turn that is still running on its pod.                     *)
(***************************************************************************)
JobNamed ==
    \A p \in Pods : poller[p].phase \notin {"idle", "ticking"} => poller[p].job \in Schedules

TurnRuns ==
    \A c \in Creators : req[c].phase # "idle" =>
        req[c].pod \in Pods /\ turn[req[c].pod] # "idle"

TypeInv == TypeOK /\ JobNamed /\ TurnRuns

LEMMA TypeInit == Init => TypeInv
<1> SUFFICES ASSUME Init PROVE TypeInv
  OBVIOUS
<1>1. TypeOK
  BY IdleTyped, BoundsAssumption DEF Init, TypeOK, RowType, Null, Statuses, Tokens
<1>2. JobNamed
  BY DEF Init, JobNamed, IdlePoller
<1>3. TurnRuns
  BY DEF Init, TurnRuns, IdleReq, Clients
<1> QED
  BY <1>1, <1>2, <1>3 DEF TypeInv

LEMMA PollerTyped ==
    ASSUME TypeInv, NEW p \in Pods, PollerStep(p)
    PROVE  TypeInv'
<1> DEFINE s == poller[p].job
<1>t. TypeOK /\ JobNamed /\ TurnRuns
  BY DEF TypeInv
<1>p. /\ poller[p] \in PollerType
      /\ \A q \in Pods : poller[q] \in PollerType
  BY <1>t DEF TypeOK
(* A step of the poller that only moves on keeps everything else. *)
<1>k. ASSUME UNCHANGED <<time, session, rows, token, turn, req, told, fired, crashes>>,
             poller' \in [Pods -> PollerType],
             \A q \in Pods : q # p => poller'[q] = poller[q],
             poller'[p].phase \notin {"idle", "ticking"} => poller'[p].job \in Schedules
      PROVE  TypeInv'
  BY <1>k, <1>t DEF TypeInv, TypeOK, JobNamed, TurnRuns
<1>r. ASSUME NextRow(p), UNCHANGED <<time, session, rows, turn, req, crashes>>,
             token' \in [Pods -> [Schedules -> Tokens]],
             told' \in [Schedules -> Statuses],
             fired' \in [Occurrences -> Nat]
      PROVE  TypeInv'
  BY <1>r, <1>t, NextRowTyped DEF TypeInv, TypeOK, JobNamed, TurnRuns
<1>1. CASE Select(p)
  <2> DEFINE due == {x \in Schedules : Due(x, time)}
  <2>1. due \in SUBSET Schedules /\ time \in 0..MaxTime
    BY <1>t DEF TypeOK
  <2>2. poller' = [poller EXCEPT ![p] = Ticking(due, time)]
    BY <1>1 DEF Select
  <2> HIDE DEF due
  <2> QED
    BY <1>1, <1>k, <1>t, <2>1, <2>2, TickingTyped DEF Select, TypeOK
<1>2. CASE TickEnds(p)
  BY <1>2, <1>k, <1>t, IdleTyped DEF TickEnds, TypeOK, IdlePoller
<1>3. ASSUME NEW x \in Schedules, Defer(p, x)
      PROVE  TypeInv'
  BY <1>3, <1>k, <1>p, <1>t DEF Defer, TypeOK, PollerType
<1>4. ASSUME NEW x \in Schedules, Gate(p, x)
      PROVE  TypeInv'
  BY <1>4, <1>k, <1>p, <1>t DEF Gate, TypeOK, PollerType
<1>5. CASE Pause(p)
  <2>1. s \in Schedules /\ poller[p].phase = "pausing"
    BY <1>5, <1>t DEF Pause, JobNamed
  <2>2. rows' \in [Schedules -> RowType]
    BY SMTT(60), <1>5, <1>t, <2>1 DEF Pause, TypeOK, RowType, Statuses, Null
  <2>3. Move(p, "paused") \/ Move(p, "unpaused")
    BY <1>5 DEF Pause
  <2>4. /\ poller' \in [Pods -> PollerType]
        /\ \A q \in Pods : q # p => poller'[q] = poller[q]
        /\ poller'[p].job \in Schedules
    <3>1. ASSUME NEW phase \in {"paused", "unpaused"}, Move(p, phase)
          PROVE  /\ poller' \in [Pods -> PollerType]
                 /\ \A q \in Pods : q # p => poller'[q] = poller[q]
                 /\ poller'[p].job \in Schedules
      BY <2>1, <3>1, <1>p, <1>t DEF Move, TypeOK, PollerType
    <3> QED
      BY <2>3, <3>1
  <2> QED
    BY <1>5, <1>t, <2>2, <2>4 DEF Pause, TypeInv, TypeOK, JobNamed, TurnRuns
<1>6. CASE PauseReturns(p)
  BY <1>6, <1>r, <1>t, ToldTyped, TokensTyped DEF PauseReturns, TypeOK, Statuses, Tokens
<1>7. CASE Claim(p)
  <2>1. s \in Schedules /\ poller[p].phase = "claiming" /\ poller[p].now \in 0..MaxTime
    BY <1>7, <1>p, <1>t DEF Claim, JobNamed, PollerType
  <2>2. CASE ~Due(s, poller[p].now)
    <3>1. NextRow(p) /\ rows' = rows
      BY <1>7, <2>2 DEF Claim
    <3> QED
      BY <1>7, <1>r, <1>t, <3>1 DEF Claim, TypeOK
  <2>3. CASE Due(s, poller[p].now)
    <3> DEFINE occ == IF s \in Once THEN Null ELSE rows[s].due
    <3>1. /\ rows' = [rows EXCEPT ![s] = Advanced(s, poller[p].now)]
          /\ poller' = [poller EXCEPT ![p].phase = "claimed", ![p].occ = occ]
      BY <1>7, <2>3 DEF Claim
    <3>2. rows[s].due \in 0..MaxTime
      BY <1>t, <2>1, <2>3, BoundsAssumption DEF Due, TypeOK, RowType
    <3>3. occ \in 0..MaxTime
      BY <3>2, BoundsAssumption DEF Null
    <3>4. Advanced(s, poller[p].now) \in RowType
      BY <2>1, AdvancedTyped, BoundsAssumption
    <3> HIDE DEF occ
    <3>5. rows' \in [Schedules -> RowType]
      BY <1>t, <3>1, <3>4 DEF TypeOK
    <3>6. /\ poller' \in [Pods -> PollerType]
          /\ \A q \in Pods : q # p => poller'[q] = poller[q]
          /\ poller'[p].job \in Schedules
      BY <1>p, <1>t, <2>1, <3>1, <3>3 DEF TypeOK, PollerType
    <3> QED
      BY <1>7, <1>t, <3>5, <3>6 DEF Claim, TypeInv, TypeOK, JobNamed, TurnRuns
  <2> QED
    BY <2>2, <2>3
<1>8. CASE Reread(p)
  <2>1. s \in Schedules /\ poller[p].phase = "claimed"
    BY <1>8, <1>t DEF Reread, JobNamed
  <2>2. rows[s].status \in Statuses
    BY <1>t, <2>1 DEF TypeOK, RowType
  <2>3. CASE rows[s].status = "deleted"
    BY <1>8, <1>r, <1>t, <2>3 DEF Reread, TypeOK
  <2>4. CASE rows[s].status # "deleted"
    <3>1. poller' = [poller EXCEPT ![p].phase = "reread", ![p].seen = rows[s].status]
      BY <1>8, <2>4 DEF Reread
    <3>2. /\ poller' \in [Pods -> PollerType]
          /\ \A q \in Pods : q # p => poller'[q] = poller[q]
          /\ poller'[p].job \in Schedules
      BY <1>p, <1>t, <2>1, <2>2, <3>1 DEF TypeOK, PollerType
    <3> QED
      BY <1>8, <1>k, <3>2 DEF Reread
  <2> QED
    BY <2>3, <2>4
<1>9. CASE LookUpSession(p)
  <2>1. s \in Schedules
    BY <1>9, <1>t DEF LookUpSession, JobNamed
  <2>2. /\ poller' \in [Pods -> PollerType]
        /\ \A q \in Pods : q # p => poller'[q] = poller[q]
        /\ poller'[p].job \in Schedules
    BY <1>9, <1>p, <1>t, <2>1 DEF LookUpSession, Move, TypeOK, PollerType
  <2> QED
    BY <1>9, <1>k, <2>2 DEF LookUpSession
<1>10. CASE Orphaned(p)
  BY <1>10, <1>r, <1>t, ToldTyped, TokensTyped DEF Orphaned, TypeOK, Statuses, Tokens
<1>11. CASE Spawn(p)
  <2>1. s \in Schedules /\ turn[p] = "idle"
    BY <1>11, <1>t DEF Spawn, JobNamed
  <2>2. Republished(p) \in Statuses
    BY DEF Republished, Statuses
  <2>3. /\ token' \in [Pods -> [Schedules -> Tokens]]
        /\ told' \in [Schedules -> Statuses]
    BY <1>11, <1>t, <2>2, ToldTyped, TokensTyped DEF Spawn, TypeOK, Tokens
  <2>4. fired' \in [Occurrences -> Nat]
    <3> DEFINE o == <<s, poller[p].occ>>
    <3>1. fired' = [fired EXCEPT ![o] = @ + 1]
      BY <1>11 DEF Spawn
    <3> HIDE DEF o
    <3>2. fired \in [Occurrences -> Nat]
      BY <1>t DEF TypeOK
    <3>3. CASE o \in Occurrences
      BY <3>1, <3>2, <3>3
    <3>4. CASE o \notin Occurrences
      BY <3>1, <3>2, <3>4
    <3> QED
      BY <3>3, <3>4
  <2>5. turn' = [turn EXCEPT ![p] = token[p][s]] /\ token[p][s] \in Tokens
    BY <1>11, <1>t, <2>1 DEF Spawn, TypeOK
  <2>6. turn' \in [Pods -> Tokens \cup {"idle"}] /\ "idle" \notin Tokens
    BY <1>t, <2>5 DEF TypeOK, Tokens
  <2>7. UNCHANGED <<time, session, rows, req, crashes>> /\ NextRow(p)
    BY <1>11 DEF Spawn
  <2>8. TurnRuns'
    BY <1>t, <2>1, <2>5, <2>6, <2>7 DEF TypeOK, TurnRuns
  <2> QED
    BY <1>t, <2>3, <2>4, <2>6, <2>7, <2>8, NextRowTyped DEF TypeInv, TypeOK, JobNamed
<1>12. CASE SpawnRefused(p)
  <2>1. Republished(p) \in Statuses
    BY DEF Republished, Statuses
  <2> QED
    BY <1>12, <1>r, <1>t, <2>1, ToldTyped, TokensTyped DEF SpawnRefused, TypeOK, Tokens
<1> QED
  BY <1>1, <1>2, <1>3, <1>4, <1>5, <1>6, <1>7, <1>8, <1>9, <1>10, <1>11, <1>12 DEF PollerStep

(* A request that serves no tool call moves on without touching the turns. *)
LEMMA RequestTyped ==
    ASSUME TypeInv, NEW c \in Clients, c \notin Creators,
           UNCHANGED <<time, turn, poller, fired, crashes>>,
           session' \in BOOLEAN,
           rows' \in [Schedules -> RowType],
           token' \in [Pods -> [Schedules -> Tokens]],
           told' \in [Schedules -> Statuses],
           req' \in [Clients -> ReqType],
           \A d \in Clients : d # c => req'[d] = req[d]
    PROVE  TypeInv'
<1>1. TypeOK' /\ JobNamed'
  BY DEF TypeInv, TypeOK, JobNamed
<1>2. TurnRuns'
  BY DEF TypeInv, TurnRuns, Clients
<1> QED
  BY <1>1, <1>2 DEF TypeInv

LEMMA OneRequest ==
    ASSUME TypeOK, NEW c \in Clients,
           \/ \E phase, p, S : Serve(c, phase, p, S)
           \/ Answered(c)
           \/ \E phase : req' = [req EXCEPT ![c].phase = phase]
           \/ \E phase, S : req' = [req EXCEPT ![c].phase = phase, ![c].todo = S]
    PROVE  \A d \in Clients : d # c => req'[d] = req[d]
<1>0. req \in [Clients -> ReqType]
  BY DEF TypeOK
<1>1. ASSUME NEW phase, NEW p, NEW S, Serve(c, phase, p, S)
      PROVE  \A d \in Clients : d # c => req'[d] = req[d]
  BY <1>0, <1>1 DEF Serve
<1>2. CASE Answered(c)
  BY <1>0, <1>2 DEF Answered
<1>3. ASSUME NEW phase, req' = [req EXCEPT ![c].phase = phase]
      PROVE  \A d \in Clients : d # c => req'[d] = req[d]
  BY <1>0, <1>3
<1>4. ASSUME NEW phase, NEW S, req' = [req EXCEPT ![c].phase = phase, ![c].todo = S]
      PROVE  \A d \in Clients : d # c => req'[d] = req[d]
  BY <1>0, <1>4
<1> QED
  BY <1>1, <1>2, <1>3, <1>4

LEMMA PostTyped ==
    ASSUME TypeInv, NEW c \in Posts, PostStep(c)
    PROVE  TypeInv'
<1>t. TypeOK /\ TypeInv /\ c \in Clients /\ c \notin Creators
  BY ClientsAssumption DEF TypeInv, Clients
<1>r. req[c] \in ReqType /\ req[c].todo \in SUBSET Schedules /\ req[c].now \in Nat
  BY <1>t, BoundsAssumption DEF TypeOK, ReqType
<1>h. Having("paused") \in SUBSET Schedules
  BY DEF Having
<1>1. ASSUME NEW p \in Pods, Post(c, p)
      PROVE  TypeInv'
  <2>1. /\ req' \in [Clients -> ReqType]
        /\ \A d \in Clients : d # c => req'[d] = req[d]
    BY <1>1, <1>t, ServeTyped, OneRequest DEF Post
  <2>2. turn' = [turn EXCEPT ![p] = "live"] /\ "live" \in Tokens /\ "live" # "idle"
    BY <1>1 DEF Post, Tokens
  <2>3. UNCHANGED <<time, session, rows, token, poller, told, fired, crashes>>
    BY <1>1 DEF Post
  <2>4. TypeOK' /\ JobNamed'
    BY <1>t, <2>1, <2>2, <2>3 DEF TypeInv, TypeOK, JobNamed
  <2>5. TurnRuns'
    BY <1>t, <2>1, <2>2 DEF TypeInv, TypeOK, TurnRuns, Clients
  <2> QED
    BY <2>4, <2>5 DEF TypeInv
<1>2. CASE RearmRead(c)
  <2>1. req' \in [Clients -> ReqType] /\ \A d \in Clients : d # c => req'[d] = req[d]
    <3>1. CASE Answered(c)
      BY <1>t, <3>1, AnsweredTyped, OneRequest
    <3>2. CASE Serve(c, "rearming", req[c].pod, Having("paused"))
      <4>1. req[c].pod \in Pods \cup {"none"}
        BY <1>r DEF ReqType
      <4> QED
        BY <1>t, <1>h, <3>2, <4>1, ServeTyped, OneRequest
    <3> QED
      BY <1>2, <3>1, <3>2 DEF RearmRead
  <2> QED
    BY <1>2, <1>t, <2>1, RequestTyped DEF RearmRead, TypeOK
<1>3. CASE RearmCommit(c)
  <2> DEFINE S == req[c].todo
             new == [s \in S |-> Rearmed(s, req[c].now)]
             flipped == {s \in S : new[s].status = "scheduled"}
  <2>1. CASE Answered(c) /\ UNCHANGED rows
    <3>1. req' \in [Clients -> ReqType] /\ \A d \in Clients : d # c => req'[d] = req[d]
      BY <1>t, <2>1, AnsweredTyped, OneRequest
    <3> QED
      BY <1>3, <1>t, <2>1, <3>1, RequestTyped DEF RearmCommit, TypeOK
  <2>2. CASE /\ rows' = [s \in Schedules |-> IF s \in S THEN new[s] ELSE rows[s]]
             /\ req' = [req EXCEPT ![c].phase = "rearmed", ![c].todo = flipped]
    <3>1. new \in [S -> RowType]
      BY <1>r, <1>t, RearmedTyped DEF TypeOK
    <3>2. flipped \in SUBSET Schedules
      BY <1>r
    <3> HIDE DEF new, flipped
    <3>3. rows' \in [Schedules -> RowType]
      BY <1>t, <2>2, <3>1 DEF TypeOK
    <3>4. req' \in [Clients -> ReqType]
      BY <1>r, <1>t, <2>2, <3>2 DEF TypeOK, ReqType
    <3>5. \A d \in Clients : d # c => req'[d] = req[d]
      BY <1>t, <2>2, OneRequest
    <3> QED
      BY <1>3, <1>t, <3>3, <3>4, <3>5, RequestTyped DEF RearmCommit, TypeOK
  <2> QED
    BY <1>3, <2>1, <2>2 DEF RearmCommit
<1>4. CASE RearmReturns(c)
  <2>1. req' \in [Clients -> ReqType] /\ \A d \in Clients : d # c => req'[d] = req[d]
    BY <1>4, <1>t, AnsweredTyped, OneRequest DEF RearmReturns
  <2>2. /\ token' \in [Pods -> [Schedules -> Tokens]]
        /\ told' \in [Schedules -> Statuses]
    BY <1>4, <1>t, ToldTyped, TokensTyped DEF RearmReturns, TypeOK, Tokens, Statuses
  <2> QED
    BY <1>4, <1>t, <2>1, <2>2, RequestTyped DEF RearmReturns, TypeOK
<1> QED
  BY <1>1, <1>2, <1>3, <1>4 DEF PostStep

LEMMA CancelTyped ==
    ASSUME TypeInv, NEW c \in Cancels, CancelStep(c)
    PROVE  TypeInv'
<1>t. TypeOK /\ TypeInv /\ c \in Clients /\ c \notin Creators
  BY ClientsAssumption DEF TypeInv, Clients
<1>1. ASSUME NEW p \in Pods, NEW s \in Schedules, CancelRead(c, p, s)
      PROVE  TypeInv'
  <2>1. req' \in [Clients -> ReqType] /\ \A d \in Clients : d # c => req'[d] = req[d]
    BY <1>1, <1>t, ServeTyped, OneRequest DEF CancelRead
  <2> QED
    BY <1>1, <1>t, <2>1, RequestTyped DEF CancelRead, TypeOK
<1>2. CASE CancelCommit(c)
  <2>1. CASE Answered(c) /\ UNCHANGED rows
    <3>1. req' \in [Clients -> ReqType] /\ \A d \in Clients : d # c => req'[d] = req[d]
      BY <1>t, <2>1, AnsweredTyped, OneRequest
    <3> QED
      BY <1>2, <1>t, <2>1, <3>1, RequestTyped DEF CancelCommit, TypeOK
  <2>2. CASE /\ rows' = [s \in Schedules |->
                          IF s \in req[c].todo THEN [status |-> "canceled", due |-> Null]
                          ELSE rows[s]]
             /\ req' = [req EXCEPT ![c].phase = "canceled"]
    <3>1. rows' \in [Schedules -> RowType]
      BY <1>t, <2>2 DEF TypeOK, RowType, Statuses, Null
    <3>2. req' \in [Clients -> ReqType]
      BY ZenonT(60), <1>t, <2>2 DEF TypeOK, ReqType
    <3>3. \A d \in Clients : d # c => req'[d] = req[d]
      BY <1>t, <2>2, OneRequest
    <3> QED
      BY <1>2, <1>t, <3>1, <3>2, <3>3, RequestTyped DEF CancelCommit, TypeOK
  <2> QED
    BY <1>2, <2>1, <2>2 DEF CancelCommit
<1>3. CASE CancelReturns(c)
  <2>1. req' \in [Clients -> ReqType] /\ \A d \in Clients : d # c => req'[d] = req[d]
    BY <1>3, <1>t, AnsweredTyped, OneRequest DEF CancelReturns
  <2>2. /\ token' \in [Pods -> [Schedules -> Tokens]]
        /\ told' \in [Schedules -> Statuses]
    BY <1>3, <1>t, ToldTyped, TokensTyped DEF CancelReturns, TypeOK, Tokens, Statuses
  <2> QED
    BY <1>3, <1>t, <2>1, <2>2, RequestTyped DEF CancelReturns, TypeOK
<1> QED
  BY <1>1, <1>2, <1>3 DEF CancelStep

LEMMA DeleteTyped ==
    ASSUME TypeInv, NEW c \in Deleters, DeleteStep(c)
    PROVE  TypeInv'
<1>t. TypeOK /\ TypeInv /\ c \in Clients /\ c \notin Creators
  BY ClientsAssumption DEF TypeInv, Clients
<1>1. ASSUME NEW p \in Pods, DeleteList(c, p)
      PROVE  TypeInv'
  <2>1. Having("scheduled") \in SUBSET Schedules
    BY DEF Having
  <2>2. req' \in [Clients -> ReqType] /\ \A d \in Clients : d # c => req'[d] = req[d]
    BY <1>1, <1>t, <2>1, ServeTyped, OneRequest DEF DeleteList
  <2> QED
    BY <1>1, <1>t, <2>2, RequestTyped DEF DeleteList, TypeOK
<1>2. CASE DeleteTells(c)
  <2>1. req' = [req EXCEPT ![c].phase = "deleting"]
    BY <1>2 DEF DeleteTells
  <2>2. req' \in [Clients -> ReqType]
    BY ZenonT(60), <1>t, <2>1 DEF TypeOK, ReqType
  <2>3. \A d \in Clients : d # c => req'[d] = req[d]
    BY <1>t, <2>1, OneRequest
  <2>4. /\ token' \in [Pods -> [Schedules -> Tokens]]
        /\ told' \in [Schedules -> Statuses]
    BY <1>2, <1>t, ToldTyped, TokensTyped DEF DeleteTells, TypeOK, Tokens, Statuses
  <2> QED
    BY <1>2, <1>t, <2>2, <2>3, <2>4, RequestTyped DEF DeleteTells, TypeOK
<1>3. CASE DeleteCommit(c)
  <2>1. req' \in [Clients -> ReqType] /\ \A d \in Clients : d # c => req'[d] = req[d]
    BY <1>3, <1>t, AnsweredTyped, OneRequest DEF DeleteCommit
  <2>2. rows' \in [Schedules -> RowType] /\ session' \in BOOLEAN
    BY <1>3, <1>t DEF DeleteCommit, TypeOK, RowType, Statuses, Null
  <2> QED
    BY <1>3, <1>t, <2>1, <2>2, RequestTyped DEF DeleteCommit, TypeOK
<1> QED
  BY <1>1, <1>2, <1>3 DEF DeleteStep

LEMMA CreateTyped ==
    ASSUME TypeInv, NEW c \in Creators, CreateStep(c)
    PROVE  TypeInv'
<1>t. TypeOK /\ JobNamed /\ TurnRuns /\ c \in Clients
  BY DEF TypeInv, Clients
<1>r. req[c] \in ReqType /\ req[c].todo \in SUBSET Schedules /\ req[c].now \in Nat
  BY <1>t, BoundsAssumption DEF TypeOK, ReqType
<1>k. ASSUME UNCHANGED <<time, session, turn, poller, fired, crashes>>,
             rows' \in [Schedules -> RowType],
             token' \in [Pods -> [Schedules -> Tokens]],
             told' \in [Schedules -> Statuses],
             req' \in [Clients -> ReqType],
             \A d \in Clients : d # c => req'[d] = req[d],
             req'[c].phase # "idle" => req'[c].pod \in Pods /\ turn[req'[c].pod] # "idle"
      PROVE  TypeInv'
  <2>1. TypeOK' /\ JobNamed'
    BY <1>k, <1>t DEF TypeOK, JobNamed
  <2>2. TurnRuns'
    BY <1>k, <1>t DEF TurnRuns, Clients
  <2> QED
    BY <2>1, <2>2 DEF TypeInv
<1>a. ASSUME Answered(c)
      PROVE  /\ req' \in [Clients -> ReqType]
             /\ \A d \in Clients : d # c => req'[d] = req[d]
             /\ req'[c].phase = "idle"
  BY <1>a, <1>t, AnsweredTyped, OneRequest DEF Answered, IdleReq, TypeOK
<1>1. ASSUME NEW p \in Pods, NEW s \in Schedules, CreateCheck(c, p, s)
      PROVE  TypeInv'
  <2>1. req' \in [Clients -> ReqType] /\ \A d \in Clients : d # c => req'[d] = req[d]
    BY <1>1, <1>t, ServeTyped, OneRequest DEF CreateCheck
  <2>2. req'[c].pod = p /\ turn[p] # "idle"
    BY <1>1, <1>t DEF CreateCheck, Serve, TypeOK
  <2> QED
    BY <1>1, <1>k, <1>t, <2>1, <2>2 DEF CreateCheck, TypeOK
<1>2. CASE CreateCommit(c)
  <2>1. CASE Answered(c) /\ UNCHANGED rows
    BY <1>2, <1>a, <1>k, <1>t, <2>1 DEF CreateCommit, TypeOK
  <2>2. ASSUME NEW s \in req[c].todo,
               NEW t \in IF s \in Once THEN (req[c].now + 1)..MaxTime
                         ELSE {NextFire(s, req[c].now)},
               rows' = [rows EXCEPT ![s] = Scheduled(t)],
               req' = [req EXCEPT ![c].phase = "created"]
        PROVE  TypeInv'
    <3>1. t \in Nat
      <4>1. CASE s \in Once
        BY <1>r, <2>2, <4>1, BoundsAssumption
      <4>2. CASE s \notin Once
        <5>1. s \in Crons /\ t = NextFire(s, req[c].now)
          BY <1>r, <2>2, <4>2 DEF Schedules
        <5> QED
          BY <1>r, <5>1, NextFireLater DEF Null
      <4> QED
        BY <4>1, <4>2
    <3>2. rows' \in [Schedules -> RowType]
      BY <1>t, <2>2, <3>1, ScheduledTyped DEF TypeOK
    <3>3. req' \in [Clients -> ReqType]
      BY ZenonT(60), <1>t, <2>2 DEF TypeOK, ReqType
    <3>4. \A d \in Clients : d # c => req'[d] = req[d]
      BY <1>t, <2>2, OneRequest
    <3>5. req'[c].pod = req[c].pod /\ req[c].phase = "creating"
      BY <1>2, <1>t, <2>2 DEF CreateCommit, TypeOK, ReqType
    <3>6. req'[c].pod \in Pods /\ turn[req'[c].pod] # "idle"
      BY <1>t, <3>5 DEF TurnRuns
    <3> QED
      BY <1>2, <1>k, <1>t, <3>2, <3>3, <3>4, <3>6 DEF CreateCommit, TypeOK
  <2> QED
    BY <1>2, <2>1, <2>2 DEF CreateCommit
<1>3. CASE CreateReturns(c)
  <2>1. req[c].pod \in Pods /\ turn[req[c].pod] # "idle"
    BY <1>3, <1>t DEF CreateReturns, TurnRuns
  <2>2. turn[req[c].pod] \in Tokens
    BY <1>t, <2>1 DEF TypeOK
  <2>3. /\ token' \in [Pods -> [Schedules -> Tokens]]
        /\ told' \in [Schedules -> Statuses]
    BY <1>3, <1>t, <2>2, ToldTyped, TokensTyped DEF CreateReturns, TypeOK, Statuses
  <2> QED
    BY <1>3, <1>a, <1>k, <1>t, <2>3 DEF CreateReturns, TypeOK
<1> QED
  BY <1>1, <1>2, <1>3 DEF CreateStep

LEMMA PodTyped ==
    ASSUME TypeInv, NEW p \in Pods, TurnEnds(p) \/ Expire(p) \/ Crash(p)
    PROVE  TypeInv'
<1>t. TypeOK /\ JobNamed /\ TurnRuns
  BY DEF TypeInv
<1>1. CASE TurnEnds(p)
  <2>1. TypeOK'
    BY <1>1, <1>t, IdleTyped DEF TurnEnds, TypeOK
  <2>2. JobNamed'
    BY <1>1, <1>t DEF TurnEnds, JobNamed
  <2>3. TurnRuns'
    BY <1>1, <1>t DEF TurnEnds, TurnRuns, TypeOK, Clients, IdleReq
  <2> QED
    BY <2>1, <2>2, <2>3 DEF TypeInv
<1>2. CASE Expire(p)
  <2>1. turn' \in [Pods -> Tokens \cup {"idle"}]
    BY <1>2, <1>t DEF Expire, TypeOK, Tokens
  <2>2. token' \in [Pods -> [Schedules -> Tokens]]
    <3>1. CASE token' = token
      BY <1>t, <3>1 DEF TypeOK
    <3>2. ASSUME NEW s \in Schedules, token' = [token EXCEPT ![p][s] = "dead"]
          PROVE  token' \in [Pods -> [Schedules -> Tokens]]
      <4>1. token[p] \in [Schedules -> Tokens] /\ "dead" \in Tokens
        BY <1>t DEF TypeOK, Tokens
      <4>2. [token[p] EXCEPT ![s] = "dead"] \in [Schedules -> Tokens]
        BY <4>1
      <4>3. token' = [token EXCEPT ![p] = [token[p] EXCEPT ![s] = "dead"]]
        BY <3>2
      <4> QED
        BY <1>t, <4>2, <4>3 DEF TypeOK
    <3> QED
      BY <1>2, <3>1, <3>2 DEF Expire
  <2>3. \A q \in Pods : turn[q] # "idle" => turn'[q] # "idle"
    BY <1>2, <1>t DEF Expire, TypeOK
  <2>4. UNCHANGED <<time, session, rows, poller, req, told, fired, crashes>>
    BY <1>2 DEF Expire
  <2>5. TypeOK' /\ JobNamed' /\ TurnRuns'
    BY <1>t, <2>1, <2>2, <2>3, <2>4 DEF TypeOK, JobNamed, TurnRuns
  <2> QED
    BY <2>5 DEF TypeInv
<1>3. CASE Crash(p)
  <2>1. UNCHANGED <<time, session, rows, told, fired>> /\ crashes' \in 0..MaxCrashes
    BY <1>3, <1>t, BoundsAssumption DEF Crash, TypeOK
  <2>2. poller' = [poller EXCEPT ![p] = IdlePoller] /\ poller' \in [Pods -> PollerType]
    BY <1>3, <1>t, IdleTyped DEF Crash, TypeOK
  <2>3. req' = [c \in Clients |-> IF req[c].pod = p THEN IdleReq ELSE req[c]]
    BY <1>3 DEF Crash
  <2>4. req' \in [Clients -> ReqType]
    BY <1>t, <2>3, IdleTyped DEF TypeOK
  <2>5. turn' = [turn EXCEPT ![p] = "idle"] /\ turn' \in [Pods -> Tokens \cup {"idle"}]
    BY <1>3, <1>t DEF Crash, TypeOK
  <2>6. token' \in [Pods -> [Schedules -> Tokens]]
    BY <1>3, <1>t DEF Crash, TypeOK, Tokens
  <2>7. TypeOK'
    BY <1>t, <2>1, <2>2, <2>4, <2>5, <2>6 DEF TypeOK
  <2>8. JobNamed'
    BY <1>t, <2>2 DEF TypeOK, JobNamed, IdlePoller
  <2>9. TurnRuns'
    BY <1>t, <2>3, <2>5 DEF TypeOK, TurnRuns, IdleReq, Clients
  <2> QED
    BY <2>7, <2>8, <2>9 DEF TypeInv
<1> QED
  BY <1>1, <1>2, <1>3

LEMMA TypeStep == TypeInv /\ [Next]_vars => TypeInv'
<1> SUFFICES ASSUME TypeInv, [Next]_vars PROVE TypeInv'
  OBVIOUS
<1>1. CASE Tick
  BY <1>1, BoundsAssumption DEF Tick, TypeInv, TypeOK, JobNamed, TurnRuns
<1>2. CASE UNCHANGED vars
  BY <1>2 DEF vars, TypeInv, TypeOK, JobNamed, TurnRuns
<1> QED
  BY <1>1, <1>2, PollerTyped, PodTyped, PostTyped, CancelTyped, CreateTyped, DeleteTyped,
     PodsAssumption DEF Next

(* Every variable of the scheduler keeps its type, for any number of pods. *)
THEOREM SchedulerTypeCorrect == Spec => []TypeOK
<1>1. TypeInv => TypeOK
  BY DEF TypeInv
<1> QED
  BY <1>1, TypeInit, TypeStep, PTL DEF Spec

-----------------------------------------------------------------------------
(***************************************************************************)
(* What a request in flight loaded still says something of the row, and    *)
(* every clock reading kept by a tick or a request is in the past.         *)
(***************************************************************************)
ClocksPast ==
    /\ \A p \in Pods : poller[p].now <= time
    /\ \A c \in Clients : req[c].now <= time

LoadedRows ==
    /\ \A c \in Posts : req[c].phase = "rearming" =>
            \A s \in req[c].todo : rows[s].status # "none"
    /\ \A c \in Cancels : req[c].phase = "canceling" =>
            \A s \in req[c].todo : rows[s].status # "none"
    /\ \A c \in Creators : req[c].phase = "creating" =>
            \A s \in req[c].todo : rows[s].status = "none"
    /\ \A c, d \in Creators : req[c].phase = "creating" /\ req[d].phase = "creating"
            /\ c # d => req[c].todo \cap req[d].todo = {}

BaseInv == TypeInv /\ ClocksPast /\ LoadedRows

Holding(p) == poller[p].phase \in {"claimed", "reread", "found", "orphan"}

(***************************************************************************)
(* Most steps are ordinary: nothing fires, no row is armed, no poller      *)
(* claims and no request loads anything.                                   *)
(***************************************************************************)
RowsOnlyEnd ==
    \A s \in Schedules :
        \/ rows'[s] = rows[s]
        \/ rows[s].status # "none" /\ rows'[s].status \in {"canceled", "deleted"}
        \/ rows[s].status = "scheduled" /\ rows'[s].status = "paused"

NothingLoaded ==
    \A c \in Clients :
        req'[c] = req[c] \/ req'[c].phase \notin {"rearming", "canceling", "creating"}

NothingClaimed ==
    \A p \in Pods : poller'[p].phase \in {"claimed", "reread", "found", "orphan"} =>
        Holding(p) /\ poller'[p].job = poller[p].job /\ poller'[p].occ = poller[p].occ

ClocksKept ==
    /\ time <= time'
    /\ \A p \in Pods : poller'[p].now <= time'
    /\ \A c \in Clients : req'[c].now <= time'

Ordinary == fired' = fired /\ RowsOnlyEnd /\ NothingLoaded /\ NothingClaimed /\ ClocksKept

ClaimWon(p) == Claim(p) /\ Due(poller[p].job, poller[p].now)

RearmWrites(c) == RearmCommit(c) /\ req[c].todo \cap Having("deleted") = {}

CreateWrites(c) == CreateCommit(c) /\ session

(* A request that only moves on, and a poller that does not claim. *)
LEMMA RequestOrdinary ==
    ASSUME TypeInv, ClocksPast, NEW c \in Clients,
           UNCHANGED <<time, poller, fired>>, RowsOnlyEnd,
           NEW r, req' = [req EXCEPT ![c] = r],
           r.now <= time, r.phase \notin {"rearming", "canceling", "creating"}
    PROVE  Ordinary
<1>t. req \in [Clients -> ReqType] /\ time \in Nat
  BY BoundsAssumption DEF TypeInv, TypeOK
<1>1. \A d \in Clients : req'[d] = IF d = c THEN r ELSE req[d]
  BY <1>t
<1>2. NothingLoaded
  BY <1>1 DEF NothingLoaded
<1>3. NothingClaimed
  BY DEF NothingClaimed, Holding
<1>4. ClocksKept
  BY <1>1, <1>t DEF ClocksKept, ClocksPast
<1> QED
  BY <1>2, <1>3, <1>4 DEF Ordinary

LEMMA PollerOrdinary ==
    ASSUME TypeInv, ClocksPast, NEW p \in Pods,
           UNCHANGED <<time, req, fired>>, RowsOnlyEnd,
           \A q \in Pods : q # p => poller'[q] = poller[q],
           poller'[p].now <= time,
           \/ poller'[p].phase \notin {"claimed", "reread", "found", "orphan"}
           \/ Holding(p) /\ poller'[p].job = poller[p].job /\ poller'[p].occ = poller[p].occ
    PROVE  Ordinary
<1>t. time \in Nat
  BY BoundsAssumption DEF TypeInv, TypeOK
<1>2. NothingLoaded
  BY DEF NothingLoaded
<1>3. NothingClaimed
  BY DEF NothingClaimed, Holding
<1>4. ClocksKept
  BY <1>t DEF ClocksKept, ClocksPast
<1> QED
  BY <1>2, <1>3, <1>4 DEF Ordinary

LEMMA PollerSplit ==
    ASSUME BaseInv, NEW p \in Pods, PollerStep(p)
    PROVE  Ordinary \/ ClaimWon(p) \/ Spawn(p)
<1>t. TypeInv /\ TypeOK /\ ClocksPast /\ poller[p] \in PollerType /\ poller[p].now <= time
      /\ poller \in [Pods -> PollerType] /\ time \in Nat
  BY BoundsAssumption DEF BaseInv, TypeInv, TypeOK, ClocksPast
<1>r. rows' = rows => RowsOnlyEnd
  BY DEF RowsOnlyEnd
<1>n. ASSUME NextRow(p), UNCHANGED <<time, req, fired, rows>>
      PROVE  Ordinary
  BY <1>n, <1>r, <1>t, NextRowTyped, PollerOrdinary
<1>1. CASE Select(p)
  <2> DEFINE due == {x \in Schedules : Due(x, time)}
  <2>1. due \in SUBSET Schedules /\ time \in 0..MaxTime
    BY <1>t DEF TypeOK
  <2>2. poller' = [poller EXCEPT ![p] = Ticking(due, time)]
    BY <1>1 DEF Select
  <2> HIDE DEF due
  <2>3. poller'[p].phase = "ticking" /\ poller'[p].now = time
        /\ \A q \in Pods : q # p => poller'[q] = poller[q]
    BY <1>t, <2>1, <2>2, TickingTyped
  <2> QED
    BY <1>1, <1>r, <1>t, <2>3, PollerOrdinary DEF Select
<1>2. CASE TickEnds(p)
  BY <1>2, <1>r, <1>t, PollerOrdinary DEF TickEnds, IdlePoller, Null
<1>3. ASSUME NEW x \in Schedules, Defer(p, x)
      PROVE  Ordinary
  BY <1>3, <1>r, <1>t, PollerOrdinary DEF Defer, PollerType
<1>4. ASSUME NEW x \in Schedules, Gate(p, x)
      PROVE  Ordinary
  <2>1. /\ poller'[p].phase \in {"claiming", "pausing"}
        /\ poller'[p].now = poller[p].now
        /\ \A q \in Pods : q # p => poller'[q] = poller[q]
    BY <1>4, <1>t DEF Gate, PollerType
  <2> QED
    BY <1>4, <1>r, <1>t, <2>1, PollerOrdinary DEF Gate
<1>5. CASE Pause(p)
  <2>1. RowsOnlyEnd
    BY <1>5, <1>t DEF Pause, RowsOnlyEnd, TypeOK
  <2>2. Move(p, "paused") \/ Move(p, "unpaused")
    BY <1>5 DEF Pause
  <2>3. ASSUME NEW phase \in {"paused", "unpaused"}, Move(p, phase)
        PROVE  /\ poller'[p].phase = phase
               /\ poller'[p].now = poller[p].now
               /\ \A q \in Pods : q # p => poller'[q] = poller[q]
    BY <1>t, <2>3 DEF Move, PollerType
  <2> QED
    BY <1>5, <1>t, <2>1, <2>2, <2>3, PollerOrdinary DEF Pause
<1>6. CASE PauseReturns(p)
  BY <1>6, <1>n DEF PauseReturns
<1>7. CASE Claim(p)
  <2>1. CASE ~Due(poller[p].job, poller[p].now)
    BY <1>7, <1>n, <2>1 DEF Claim
  <2> QED
    BY <1>7, <2>1 DEF ClaimWon
<1>8. CASE Reread(p)
  <2>1. CASE rows[poller[p].job].status = "deleted"
    BY <1>8, <1>n, <2>1 DEF Reread
  <2>2. CASE rows[poller[p].job].status # "deleted"
    <3>1. /\ Holding(p)
          /\ poller'[p].job = poller[p].job /\ poller'[p].occ = poller[p].occ
          /\ poller'[p].now = poller[p].now
          /\ \A q \in Pods : q # p => poller'[q] = poller[q]
      BY <1>8, <1>t, <2>2 DEF Reread, PollerType, Holding
    <3> QED
      BY <1>8, <1>r, <1>t, <3>1, PollerOrdinary DEF Reread
  <2> QED
    BY <2>1, <2>2
<1>9. CASE LookUpSession(p)
  <2>1. /\ Holding(p)
        /\ poller'[p].job = poller[p].job /\ poller'[p].occ = poller[p].occ
        /\ poller'[p].now = poller[p].now
        /\ \A q \in Pods : q # p => poller'[q] = poller[q]
    BY <1>9, <1>t DEF LookUpSession, Move, PollerType, Holding
  <2> QED
    BY <1>9, <1>r, <1>t, <2>1, PollerOrdinary DEF LookUpSession
<1>10. CASE Orphaned(p)
  BY <1>10, <1>n DEF Orphaned
<1>11. CASE SpawnRefused(p)
  BY <1>11, <1>n DEF SpawnRefused
<1> QED
  BY <1>1, <1>2, <1>3, <1>4, <1>5, <1>6, <1>7, <1>8, <1>9, <1>10, <1>11 DEF PollerStep

LEMMA ServeOrdinary ==
    ASSUME TypeInv, ClocksPast, NEW c \in Clients,
           UNCHANGED <<time, poller, fired>>, RowsOnlyEnd,
           \/ Answered(c)
           \/ \E phase \in {"posted", "listed"} : \E p, S : Serve(c, phase, p, S)
           \/ \E phase \in {"canceled", "deleting"} : req' = [req EXCEPT ![c].phase = phase]
    PROVE  Ordinary
<1>t. req \in [Clients -> ReqType] /\ time \in Nat /\ req[c].now <= time
  BY BoundsAssumption DEF TypeInv, TypeOK, ClocksPast
<1>1. CASE Answered(c)
  <2>1. IdleReq.now <= time /\ IdleReq.phase = "idle"
    BY <1>t DEF IdleReq, Null
  <2> QED
    BY <1>1, <2>1, RequestOrdinary DEF Answered
<1>2. ASSUME NEW phase \in {"posted", "listed"}, NEW p, NEW S, Serve(c, phase, p, S)
      PROVE  Ordinary
  <2> DEFINE r == [phase |-> phase, pod |-> p, todo |-> S, now |-> time]
  <2>1. r.now <= time /\ r.phase = phase
    BY <1>t
  <2>2. req' = [req EXCEPT ![c] = r]
    BY <1>2 DEF Serve
  <2> HIDE DEF r
  <2> QED
    BY <2>1, <2>2, RequestOrdinary
<1>3. ASSUME NEW phase \in {"canceled", "deleting"}, req' = [req EXCEPT ![c].phase = phase]
      PROVE  Ordinary
  <2> DEFINE r == [req[c] EXCEPT !.phase = phase]
  <2>1. r.now <= time /\ r.phase = phase
    BY <1>t DEF ReqType
  <2>2. req' = [req EXCEPT ![c] = r]
    BY <1>3
  <2> HIDE DEF r
  <2> QED
    BY <2>1, <2>2, RequestOrdinary
<1> QED
  BY <1>1, <1>2, <1>3

LEMMA PostSplit ==
    ASSUME BaseInv, NEW c \in Posts, PostStep(c)
    PROVE  Ordinary \/ RearmRead(c) \/ RearmWrites(c)
<1>t. TypeInv /\ ClocksPast /\ c \in Clients
  BY DEF BaseInv, Clients
<1>r. rows' = rows => RowsOnlyEnd
  BY DEF RowsOnlyEnd
<1>1. ASSUME NEW p \in Pods, Post(c, p)
      PROVE  Ordinary
  BY <1>1, <1>t, <1>r, ServeOrdinary DEF Post
<1>2. CASE RearmCommit(c)
  <2>1. CASE req[c].todo \cap Having("deleted") # {}
    BY <1>2, <1>t, <1>r, <2>1, ServeOrdinary DEF RearmCommit
  <2> QED
    BY <1>2, <2>1 DEF RearmWrites
<1>3. CASE RearmReturns(c)
  BY <1>3, <1>t, <1>r, ServeOrdinary DEF RearmReturns
<1> QED
  BY <1>1, <1>2, <1>3 DEF PostStep

LEMMA CancelSplit ==
    ASSUME BaseInv, NEW c \in Cancels, CancelStep(c)
    PROVE  Ordinary \/ \E p \in Pods, s \in Schedules : CancelRead(c, p, s)
<1>t. TypeInv /\ TypeOK /\ ClocksPast /\ LoadedRows /\ c \in Clients
  BY DEF BaseInv, TypeInv, Clients
<1>r. rows' = rows => RowsOnlyEnd
  BY DEF RowsOnlyEnd
<1>1. CASE CancelCommit(c)
  <2>1. RowsOnlyEnd
    BY <1>1, <1>t DEF CancelCommit, RowsOnlyEnd, LoadedRows
  <2>2. Answered(c) \/ req' = [req EXCEPT ![c].phase = "canceled"]
    BY <1>1 DEF CancelCommit
  <2>3. UNCHANGED <<time, poller, fired>>
    BY <1>1 DEF CancelCommit
  <2> QED
    BY <1>t, <2>1, <2>2, <2>3, ServeOrdinary
<1>2. CASE CancelReturns(c)
  BY <1>2, <1>t, <1>r, ServeOrdinary DEF CancelReturns
<1> QED
  BY <1>1, <1>2 DEF CancelStep

LEMMA DeleteSplit ==
    ASSUME BaseInv, NEW c \in Deleters, DeleteStep(c)
    PROVE  Ordinary
<1>t. TypeInv /\ ClocksPast /\ c \in Clients
  BY DEF BaseInv, Clients
<1>r. rows' = rows => RowsOnlyEnd
  BY DEF RowsOnlyEnd
<1>1. ASSUME NEW p \in Pods, DeleteList(c, p)
      PROVE  Ordinary
  BY <1>1, <1>t, <1>r, ServeOrdinary DEF DeleteList
<1>2. CASE DeleteTells(c)
  BY <1>2, <1>t, <1>r, ServeOrdinary DEF DeleteTells
<1>3. CASE DeleteCommit(c)
  <2>1. RowsOnlyEnd
    BY <1>3 DEF DeleteCommit, RowsOnlyEnd
  <2> QED
    BY <1>3, <1>t, <2>1, ServeOrdinary DEF DeleteCommit
<1> QED
  BY <1>1, <1>2, <1>3 DEF DeleteStep

LEMMA CreateSplit ==
    ASSUME BaseInv, NEW c \in Creators, CreateStep(c)
    PROVE  Ordinary \/ CreateWrites(c) \/ \E p \in Pods, s \in Schedules : CreateCheck(c, p, s)
<1>t. TypeInv /\ ClocksPast /\ c \in Clients
  BY DEF BaseInv, Clients
<1>r. rows' = rows => RowsOnlyEnd
  BY DEF RowsOnlyEnd
<1>1. CASE CreateCommit(c)
  <2>1. CASE ~session
    BY <1>1, <1>t, <1>r, <2>1, ServeOrdinary DEF CreateCommit
  <2> QED
    BY <1>1, <2>1 DEF CreateWrites
<1>2. CASE CreateReturns(c)
  BY <1>2, <1>t, <1>r, ServeOrdinary DEF CreateReturns
<1> QED
  BY <1>1, <1>2 DEF CreateStep

LEMMA PodSplit ==
    ASSUME BaseInv, NEW p \in Pods, TurnEnds(p) \/ Expire(p) \/ Crash(p)
    PROVE  Ordinary
<1>t. TypeInv /\ TypeOK /\ ClocksPast /\ time \in Nat
  BY BoundsAssumption DEF BaseInv, TypeInv, TypeOK
<1>1. UNCHANGED <<time, rows, fired>> /\ RowsOnlyEnd
  BY DEF TurnEnds, Expire, Crash, RowsOnlyEnd
<1>2. \A c \in Clients : req'[c] = req[c] \/ req'[c] = IdleReq
  BY DEF TurnEnds, Expire, Crash
<1>3. \A q \in Pods : poller'[q] = poller[q] \/ poller'[q] = IdlePoller
  BY <1>t DEF TurnEnds, Expire, Crash, TypeOK
<1>4. NothingLoaded
  BY <1>2 DEF NothingLoaded, IdleReq
<1>5. NothingClaimed
  BY <1>3 DEF NothingClaimed, Holding, IdlePoller
<1>6. IdleReq.now <= time /\ IdlePoller.now <= time
  BY <1>t DEF IdleReq, IdlePoller, Null
<1>7. ClocksKept
  BY <1>t, <1>1, <1>2, <1>3, <1>6 DEF ClocksKept, ClocksPast
<1> QED
  BY <1>1, <1>4, <1>5, <1>7 DEF Ordinary

(* Every step is ordinary, or one of the few that fire, arm, claim or load. *)
LEMMA StepSplit ==
    ASSUME BaseInv, [Next]_vars
    PROVE  \/ Ordinary
           \/ \E p \in Pods : ClaimWon(p) \/ Spawn(p)
           \/ \E c \in Posts : RearmRead(c) \/ RearmWrites(c)
           \/ \E c \in Cancels, p \in Pods, s \in Schedules : CancelRead(c, p, s)
           \/ \E c \in Creators : CreateWrites(c)
           \/ \E c \in Creators, p \in Pods, s \in Schedules : CreateCheck(c, p, s)
<1>t. TypeOK /\ ClocksPast
  BY DEF BaseInv, TypeInv
<1>1. CASE Tick
  BY <1>1, <1>t, BoundsAssumption
     DEF Tick, Ordinary, RowsOnlyEnd, NothingLoaded, NothingClaimed, Holding, ClocksKept,
         ClocksPast, TypeOK, PollerType, ReqType
<1>2. CASE UNCHANGED vars
  BY <1>2, <1>t, BoundsAssumption
     DEF vars, Ordinary, RowsOnlyEnd, NothingLoaded, NothingClaimed, Holding, ClocksKept,
         ClocksPast, TypeOK
<1>3. ASSUME NEW p \in Pollers, PollerStep(p)
      PROVE  Ordinary \/ \E q \in Pods : ClaimWon(q) \/ Spawn(q)
  BY <1>3, PollerSplit, PodsAssumption
<1> QED
  BY <1>1, <1>2, <1>3, PodSplit, PostSplit, CancelSplit, CreateSplit, DeleteSplit DEF Next

(***************************************************************************)
(* What the other steps do to the rows and to the request that takes them. *)
(***************************************************************************)
LEMMA ServeEffect ==
    ASSUME TypeOK, NEW c \in Clients, NEW phase, NEW p, NEW S, Serve(c, phase, p, S)
    PROVE  /\ req'[c].phase = phase /\ req'[c].todo = S /\ req'[c].now = time
           /\ \A d \in Clients : d # c => req'[d] = req[d]
BY DEF Serve, TypeOK

LEMMA RearmEffect ==
    ASSUME TypeOK, NEW c \in Posts, RearmWrites(c)
    PROVE  /\ req[c].phase = "rearming" /\ req'[c].phase = "rearmed"
           /\ req'[c].now = req[c].now
           /\ \A d \in Clients : d # c => req'[d] = req[d]
           /\ \A s \in Schedules :
                rows'[s] = IF s \in req[c].todo THEN Rearmed(s, req[c].now) ELSE rows[s]
           /\ UNCHANGED <<time, poller, fired>>
<1> DEFINE S == req[c].todo
           new == [s \in S |-> Rearmed(s, req[c].now)]
<1>1. /\ req[c].phase = "rearming"
      /\ rows' = [s \in Schedules |-> IF s \in S THEN new[s] ELSE rows[s]]
      /\ \E T : req' = [req EXCEPT ![c].phase = "rearmed", ![c].todo = T]
      /\ UNCHANGED <<time, poller, fired>>
  BY DEF RearmWrites, RearmCommit
<1>2. req \in [Clients -> ReqType] /\ c \in Clients
  BY DEF TypeOK, Clients
<1>3. /\ req'[c].phase = "rearmed" /\ req'[c].now = req[c].now
      /\ \A d \in Clients : d # c => req'[d] = req[d]
  <2>1. PICK T : req' = [req EXCEPT ![c].phase = "rearmed", ![c].todo = T]
    BY <1>1
  <2> QED
    BY <1>2, <2>1 DEF ReqType
<1> QED
  BY <1>1, <1>3

LEMMA CreateEffect ==
    ASSUME TypeOK, NEW c \in Creators, CreateWrites(c)
    PROVE  /\ req[c].phase = "creating" /\ req'[c].phase = "created"
           /\ req'[c].now = req[c].now
           /\ \A d \in Clients : d # c => req'[d] = req[d]
           /\ \E x, u : x \in req[c].todo /\ rows' = [rows EXCEPT ![x] = Scheduled(u)]
           /\ UNCHANGED <<time, poller, fired>>
<1>1. /\ req[c].phase = "creating"
      /\ \E x, u : x \in req[c].todo /\ rows' = [rows EXCEPT ![x] = Scheduled(u)]
      /\ req' = [req EXCEPT ![c].phase = "created"]
      /\ UNCHANGED <<time, poller, fired>>
  BY DEF CreateWrites, CreateCommit
<1>2. req \in [Clients -> ReqType] /\ c \in Clients
  BY DEF TypeOK, Clients
<1>3. /\ req'[c].phase = "created" /\ req'[c].now = req[c].now
      /\ \A d \in Clients : d # c => req'[d] = req[d]
  BY <1>1, <1>2 DEF ReqType
<1> QED
  BY <1>1, <1>3

LEMMA ClaimEffect ==
    ASSUME TypeInv, NEW p \in Pods, ClaimWon(p)
    PROVE  LET s == poller[p].job IN
           /\ s \in Schedules /\ rows[s].status = "scheduled"
           /\ rows[s].due \in Nat \ {Null} /\ rows[s].due <= poller[p].now
           /\ poller[p].phase = "claiming"
           /\ rows' = [rows EXCEPT ![s] = Advanced(s, poller[p].now)]
           /\ poller'[p].phase = "claimed" /\ poller'[p].job = s
           /\ poller'[p].occ = (IF s \in Once THEN Null ELSE rows[s].due)
           /\ poller'[p].now = poller[p].now /\ poller[p].now \in 0..MaxTime
           /\ \A q \in Pods : q # p => poller'[q] = poller[q]
           /\ UNCHANGED <<time, req, fired>>
<1> DEFINE s == poller[p].job
           n == IF s \in Once THEN Null ELSE rows[s].due
<1>1. /\ s \in Schedules /\ poller \in [Pods -> PollerType] /\ rows[s] \in RowType
      /\ poller[p].phase = "claiming"
  BY DEF TypeInv, TypeOK, JobNamed, ClaimWon, Claim
<1>2. /\ rows' = [rows EXCEPT ![s] = Advanced(s, poller[p].now)]
      /\ poller' = [poller EXCEPT ![p].phase = "claimed", ![p].occ = n]
      /\ UNCHANGED <<time, req, fired>>
  BY DEF ClaimWon, Claim
<1>3. /\ rows[s].status = "scheduled"
      /\ rows[s].due \in Nat \ {Null} /\ rows[s].due <= poller[p].now
  BY <1>1 DEF ClaimWon, Due, RowType
<1>4. /\ poller'[p].phase = "claimed" /\ poller'[p].job = s /\ poller'[p].occ = n
      /\ poller'[p].now = poller[p].now /\ poller[p].now \in 0..MaxTime
      /\ \A q \in Pods : q # p => poller'[q] = poller[q]
  <2> HIDE DEF n
  <2> QED
    BY <1>1, <1>2 DEF PollerType
<1> QED
  BY <1>1, <1>2, <1>3, <1>4

LEMMA SpawnEffect ==
    ASSUME TypeInv, NEW p \in Pods, Spawn(p)
    PROVE  /\ Holding(p) /\ poller[p].job \in Schedules
           /\ fired' = [fired EXCEPT ![<<poller[p].job, poller[p].occ>>] = @ + 1]
           /\ poller'[p].phase = "ticking" /\ poller'[p].now = poller[p].now
           /\ \A q \in Pods : q # p => poller'[q] = poller[q]
           /\ UNCHANGED <<time, req, rows>>
BY NextRowTyped DEF Spawn, TypeInv, JobNamed, Holding

-----------------------------------------------------------------------------
LEMMA OrdinaryLoaded ==
    ASSUME BaseInv, Ordinary
    PROVE  LoadedRows'
<1>1. \A s \in Schedules : (rows'[s].status = "none") <=> (rows[s].status = "none")
  BY DEF Ordinary, RowsOnlyEnd
<1>2. \A c \in Clients :
        req'[c].phase \in {"rearming", "canceling", "creating"} => req'[c] = req[c]
  BY DEF Ordinary, NothingLoaded
<1>3. \A c \in Clients : req[c].todo \in SUBSET Schedules
  BY DEF BaseInv, TypeInv, TypeOK, ReqType
<1> QED
  BY <1>1, <1>2, <1>3 DEF BaseInv, LoadedRows, Clients

LEMMA LoadedStep ==
    ASSUME BaseInv, [Next]_vars
    PROVE  LoadedRows'
<1>t. TypeInv /\ TypeOK /\ LoadedRows /\ Clients = Posts \cup Cancels \cup Creators \cup Deleters
  BY DEF BaseInv, TypeInv, Clients
<1>s. \A c \in Clients : req[c].todo \in SUBSET Schedules /\ req[c].now \in Nat
  BY <1>t, BoundsAssumption DEF TypeOK, ReqType
<1>1. ASSUME NEW p \in Pods, ClaimWon(p)
      PROVE  LoadedRows'
  <2> DEFINE s == poller[p].job
  <2>1. /\ s \in Schedules /\ rows[s].status = "scheduled"
        /\ rows' = [rows EXCEPT ![s] = Advanced(s, poller[p].now)] /\ req' = req
        /\ poller[p].now \in Nat
    BY <1>1, <1>t, ClaimEffect, BoundsAssumption
  <2>2. rows'[s].status \in {"scheduled", "completed"} /\ \A x \in Schedules : x # s => rows'[x] = rows[x]
    BY <1>t, <2>1, AdvancedTyped DEF TypeOK
  <2> HIDE DEF s
  <2>3. \A x \in Schedules : (rows'[x].status = "none") <=> (rows[x].status = "none")
    BY <2>1, <2>2
  <2> QED
    BY <1>s, <1>t, <2>1, <2>3 DEF LoadedRows
<1>2. ASSUME NEW p \in Pods, Spawn(p)
      PROVE  LoadedRows'
  <2>1. rows' = rows /\ req' = req
    BY <1>2, <1>t, SpawnEffect
  <2> QED
    BY <1>t, <2>1 DEF LoadedRows
<1>3. ASSUME NEW c \in Posts, RearmRead(c)
      PROVE  LoadedRows'
  <2>1. rows' = rows /\ (Answered(c) \/ Serve(c, "rearming", req[c].pod, Having("paused")))
    BY <1>3 DEF RearmRead
  <2>2. CASE Answered(c)
    <3>1. req'[c].phase = "idle" /\ \A d \in Clients : d # c => req'[d] = req[d]
      BY <1>t, <2>2 DEF Answered, TypeOK, IdleReq
    <3> QED
      BY <1>t, <2>1, <3>1 DEF LoadedRows
  <2>3. CASE Serve(c, "rearming", req[c].pod, Having("paused"))
    <3>1. /\ req'[c].phase = "rearming" /\ req'[c].todo = Having("paused")
          /\ \A d \in Clients : d # c => req'[d] = req[d]
      BY <1>t, <2>3, ServeEffect
    <3> QED
      BY <1>t, <2>1, <3>1 DEF LoadedRows, Having
  <2> QED
    BY <2>1, <2>2, <2>3
<1>4. ASSUME NEW c \in Posts, RearmWrites(c)
      PROVE  LoadedRows'
  <2>1. /\ req[c].phase = "rearming" /\ req'[c].phase = "rearmed"
        /\ \A d \in Clients : d # c => req'[d] = req[d]
        /\ \A s \in Schedules :
             rows'[s] = IF s \in req[c].todo THEN Rearmed(s, req[c].now) ELSE rows[s]
    BY <1>4, <1>t, RearmEffect
  <2>2. \A s \in Schedules : Rearmed(s, req[c].now).status # "none"
    BY <1>s, <1>t, RearmedTyped DEF TypeOK
  <2>3. \A s \in Schedules : (rows'[s].status = "none") <=> (rows[s].status = "none")
    BY <1>t, <2>1, <2>2 DEF LoadedRows
  <2> QED
    BY <1>s, <1>t, <2>1, <2>3 DEF LoadedRows
<1>5. ASSUME NEW c \in Cancels, NEW p \in Pods, NEW s \in Schedules, CancelRead(c, p, s)
      PROVE  LoadedRows'
  <2>1. rows' = rows /\ rows[s].status = "scheduled" /\ Serve(c, "canceling", p, {s})
    BY <1>5 DEF CancelRead
  <2>2. /\ req'[c].phase = "canceling" /\ req'[c].todo = {s}
        /\ \A d \in Clients : d # c => req'[d] = req[d]
    BY <1>t, <2>1, ServeEffect
  <2> QED
    BY <1>t, <2>1, <2>2 DEF LoadedRows
<1>6. ASSUME NEW c \in Creators, CreateWrites(c)
      PROVE  LoadedRows'
  <2>1. /\ req[c].phase = "creating" /\ req'[c].phase = "created"
        /\ \A d \in Clients : d # c => req'[d] = req[d]
    BY <1>6, <1>t, CreateEffect
  <2>2. PICK x, u : x \in req[c].todo /\ rows' = [rows EXCEPT ![x] = Scheduled(u)]
    BY <1>6, <1>t, CreateEffect
  <2>3. /\ rows'[x].status = "scheduled" /\ x \in Schedules /\ x \in req[c].todo
        /\ \A s \in Schedules : s # x => rows'[s] = rows[s]
    BY <1>s, <1>t, <2>2 DEF Scheduled, TypeOK
  <2> QED
    BY <1>s, <1>t, <2>1, <2>3 DEF LoadedRows
<1>7. ASSUME NEW c \in Creators, NEW p \in Pods, NEW s \in Schedules, CreateCheck(c, p, s)
      PROVE  LoadedRows'
  <2>1. /\ rows' = rows /\ rows[s].status = "none" /\ Serve(c, "creating", p, {s})
        /\ \A d \in Creators : s \notin req[d].todo
    BY <1>7 DEF CreateCheck
  <2>2. /\ req'[c].phase = "creating" /\ req'[c].todo = {s}
        /\ \A d \in Clients : d # c => req'[d] = req[d]
    BY <1>t, <2>1, ServeEffect
  <2> QED
    BY <1>t, <2>1, <2>2 DEF LoadedRows
<1> QED
  BY <1>1, <1>2, <1>3, <1>4, <1>5, <1>6, <1>7, OrdinaryLoaded, StepSplit

LEMMA ClocksStep ==
    ASSUME BaseInv, [Next]_vars
    PROVE  ClocksPast'
<1>t. /\ TypeInv /\ TypeOK /\ ClocksPast /\ time \in Nat
      /\ Clients = Posts \cup Cancels \cup Creators \cup Deleters
  BY BoundsAssumption DEF BaseInv, TypeInv, TypeOK, Clients
<1>0. CASE Ordinary
  BY <1>0 DEF Ordinary, ClocksKept, ClocksPast
<1>1. ASSUME NEW p \in Pods, ClaimWon(p) \/ Spawn(p)
      PROVE  ClocksPast'
  BY <1>1, <1>t, ClaimEffect, SpawnEffect DEF ClocksPast
<1>2. ASSUME NEW c \in Clients, NEW phase, NEW p, NEW S,
             UNCHANGED <<time, poller>>, Serve(c, phase, p, S) \/ Answered(c)
      PROVE  ClocksPast'
  <2>1. (\A d \in Clients : d # c => req'[d] = req[d]) /\ req'[c].now <= time
    BY <1>2, <1>t, ServeEffect DEF Answered, IdleReq, Null, TypeOK
  <2> QED
    BY <1>2, <1>t, <2>1 DEF ClocksPast
<1>3. ASSUME NEW c \in Posts, RearmRead(c)
      PROVE  ClocksPast'
  BY <1>2, <1>3, <1>t DEF RearmRead
<1>w. ASSUME NEW c \in Clients, UNCHANGED <<time, poller>>, req'[c].now = req[c].now,
             \A d \in Clients : d # c => req'[d] = req[d]
      PROVE  ClocksPast'
  BY <1>t, <1>w DEF ClocksPast
<1>4. ASSUME NEW c \in Posts, RearmWrites(c)
      PROVE  ClocksPast'
  BY <1>4, <1>t, <1>w, RearmEffect
<1>6. ASSUME NEW c \in Creators, CreateWrites(c)
      PROVE  ClocksPast'
  BY <1>6, <1>t, <1>w, CreateEffect
<1>5. ASSUME NEW c \in Clients, NEW p \in Pods, NEW s \in Schedules,
             CancelRead(c, p, s) \/ CreateCheck(c, p, s)
      PROVE  ClocksPast'
  BY <1>2, <1>5 DEF CancelRead, CreateCheck
<1>7. (\/ \E c \in Cancels, p \in Pods, s \in Schedules : CancelRead(c, p, s)
       \/ \E c \in Creators, p \in Pods, s \in Schedules : CreateCheck(c, p, s)) => ClocksPast'
  BY <1>5, <1>t
<1> QED
  BY <1>0, <1>1, <1>3, <1>4, <1>6, <1>7, StepSplit

LEMMA BaseInit == Init => BaseInv
<1> SUFFICES ASSUME Init PROVE BaseInv
  OBVIOUS
<1>1. ClocksPast
  BY DEF Init, ClocksPast, IdlePoller, IdleReq, Null
<1>2. LoadedRows
  BY DEF Init, LoadedRows, IdleReq, Clients
<1> QED
  BY <1>1, <1>2, TypeInit DEF BaseInv

LEMMA BaseStep == BaseInv /\ [Next]_vars => BaseInv'
BY TypeStep, ClocksStep, LoadedStep DEF BaseInv

-----------------------------------------------------------------------------
(***************************************************************************)
(* A cancelled row is not armed again, but by a re-arm that loaded it.     *)
(***************************************************************************)
LEMMA CanceledStays ==
    ASSUME BaseInv, [Next]_vars, NEW x \in Schedules,
           rows[x].status = "canceled", ~Rearming(x)
    PROVE  rows'[x].status \in {"canceled", "deleted"}
<1>t. TypeInv /\ TypeOK /\ LoadedRows /\ rows \in [Schedules -> RowType]
  BY DEF BaseInv, TypeInv, TypeOK
<1>u. rows'[x] = rows[x] => rows'[x].status \in {"canceled", "deleted"}
  OBVIOUS
<1>0. CASE Ordinary
  BY <1>0 DEF Ordinary, RowsOnlyEnd
<1>1. ASSUME NEW p \in Pods, ClaimWon(p)
      PROVE  rows'[x] = rows[x]
  BY <1>1, <1>t, ClaimEffect
<1>2. ASSUME NEW p \in Pods, Spawn(p)
      PROVE  rows'[x] = rows[x]
  BY <1>2 DEF Spawn
<1>3. ASSUME NEW c \in Posts, RearmRead(c)
      PROVE  rows'[x] = rows[x]
  BY <1>3 DEF RearmRead
<1>4. ASSUME NEW c \in Posts, RearmWrites(c)
      PROVE  rows'[x] = rows[x]
  BY <1>4, <1>t, RearmEffect DEF Rearming
<1>5. ASSUME NEW c \in Creators, CreateWrites(c)
      PROVE  rows'[x] = rows[x]
  <2>1. req[c].phase = "creating" /\ \A s \in req[c].todo : rows[s].status = "none"
    BY <1>5, <1>t, CreateEffect DEF LoadedRows
  <2>2. PICK y, u : y \in req[c].todo /\ rows' = [rows EXCEPT ![y] = Scheduled(u)]
    BY <1>5, <1>t, CreateEffect
  <2> QED
    BY <1>t, <2>1, <2>2
<1>6. ASSUME NEW c, NEW p, NEW s, CancelRead(c, p, s) \/ CreateCheck(c, p, s)
      PROVE  rows'[x] = rows[x]
  BY <1>6 DEF CancelRead, CreateCheck
<1> QED
  BY <1>u, <1>0, <1>1, <1>2, <1>3, <1>4, <1>5, <1>6, StepSplit

(* A cancel is final against every poller, pod, creation and delete; only  *)
(* a re-arm that had read the row can undo it.                             *)
THEOREM CancelIsFinalHolds == Spec => CancelIsFinal
<1>1. BaseInv /\ [Next]_vars
        => [\A s \in Schedules : rows[s].status = "canceled" /\ ~Rearming(s)
                => rows'[s].status \in {"canceled", "deleted"}]_vars
  BY CanceledStays
<1> QED
  BY <1>1, BaseInit, BaseStep, PTL DEF Spec, CancelIsFinal

-----------------------------------------------------------------------------
(***************************************************************************)
(* At most once.  An occurrence is used from the moment its claim commits: *)
(* a poller holds it until it spawns or gives up, or it has fired.  What   *)
(* makes the ledger inductive is what a used occurrence says of its row    *)
(* and of the re-arm in flight, which will overwrite the row it loaded.    *)
(***************************************************************************)
Held(p, s, n) == Holding(p) /\ poller[p].job = s /\ poller[p].occ = n

Used(s, n) == fired[<<s, n>>] > 0 \/ \E p \in Pods : Held(p, s, n)

(* An occurrence is held by one poller, and has not fired then. *)
HeldApart ==
    \A p \in Pods : Holding(p) =>
        /\ <<poller[p].job, poller[p].occ>> \in Occurrences
        /\ fired[<<poller[p].job, poller[p].occ>>] = 0
        /\ \A q \in Pods : Held(q, poller[p].job, poller[p].occ) => q = p

(* A row that a re-arm has loaded is not armed before the re-arm writes it. *)
RearmAlone ==
    \A c \in Posts : req[c].phase = "rearming" =>
        \A s \in req[c].todo : rows[s].status # "scheduled"

(* A one-shot whose occurrence is used is over, and no re-arm has loaded it. *)
OnceSpent ==
    \A s \in Once : Used(s, Null) =>
        rows[s].status \in {"completed", "canceled", "deleted"} /\ ~Rearming(s)

(* A used occurrence of a cron is past, before the next one and before     *)
(* whatever a re-arm in flight computes next.                              *)
CronSpent ==
    \A s \in Crons, n \in 1..MaxTime : Used(s, n) =>
        /\ rows[s].status # "none"
        /\ n <= time
        /\ rows[s].status = "scheduled" => n < rows[s].due
        /\ \A c \in Posts : req[c].phase = "rearming" /\ s \in req[c].todo => n <= req[c].now

LedgerInv == HeldApart /\ AtMostOnce /\ RearmAlone /\ OnceSpent /\ CronSpent

\* The posts of the session do not overlap.
OnePost == \A c, d \in Posts : c = d

LEMMA LedgerInit == Init => LedgerInv
<1> SUFFICES ASSUME Init PROVE LedgerInv
  OBVIOUS
<1>1. \A p \in Pods : ~Holding(p)
  BY DEF Init, Holding, IdlePoller
<1>2. \A c \in Posts : req[c].phase = "idle"
  BY DEF Init, IdleReq, Clients
<1>3. \A o \in Occurrences : fired[o] = 0
  BY DEF Init
<1>4. \A s \in Once : <<s, Null>> \in Occurrences
  BY DEF Occurrences
<1>5. \A s \in Crons, n \in 1..MaxTime : <<s, n>> \in Occurrences
  BY DEF Occurrences
<1>6. \A s \in Once : ~Used(s, Null)
  BY <1>1, <1>3, <1>4 DEF Used, Held
<1>7. ASSUME NEW s \in Crons, NEW n \in 1..MaxTime
      PROVE  ~Used(s, n)
  <2>1. fired[<<s, n>>] = 0
    BY <1>3, <1>5
  <2> QED
    BY <1>1, <2>1 DEF Used, Held
<1> QED
  BY <1>1, <1>2, <1>3, <1>6, <1>7 DEF LedgerInv, HeldApart, AtMostOnce, RearmAlone, OnceSpent, CronSpent

(* An ordinary step uses nothing. *)
LEMMA OrdinaryLedger ==
    ASSUME BaseInv, BaseInv', LedgerInv, Ordinary
    PROVE  LedgerInv'
<1>t. /\ TypeOK /\ TypeOK' /\ time \in Nat /\ time' \in Nat /\ time <= time'
      /\ \A c \in Clients : req[c].todo \in SUBSET Schedules /\ req[c].now \in Nat
  BY BoundsAssumption DEF BaseInv, TypeInv, TypeOK, ReqType, Ordinary, ClocksKept
<1>f. fired' = fired
  BY DEF Ordinary
<1>h. \A p \in Pods : Holding(p)' => /\ Holding(p)
                                     /\ poller'[p].job = poller[p].job
                                     /\ poller'[p].occ = poller[p].occ
  BY DEF Ordinary, NothingClaimed, Holding
<1>k. \A p \in Pods : \A s, n : Held(p, s, n)' => Held(p, s, n)
  BY <1>h DEF Held
<1>u. \A s, n : Used(s, n)' => Used(s, n)
  BY <1>f, <1>k DEF Used
<1>c. \A c \in Posts : req'[c].phase = "rearming" => req'[c] = req[c]
  BY DEF Ordinary, NothingLoaded, Clients
<1>r. \A s \in Schedules : \/ rows'[s] = rows[s]
                           \/ rows'[s].status \in {"canceled", "deleted"}
                           \/ rows[s].status = "scheduled" /\ rows'[s].status = "paused"
  BY DEF Ordinary, RowsOnlyEnd
<1>1. HeldApart'
  <2> SUFFICES ASSUME NEW p \in Pods, Holding(p)'
               PROVE  /\ <<poller'[p].job, poller'[p].occ>> \in Occurrences
                      /\ fired'[<<poller'[p].job, poller'[p].occ>>] = 0
                      /\ \A q \in Pods : Held(q, poller[p].job, poller[p].occ)' => q = p
    BY <1>h DEF HeldApart, Held
  <2> QED
    BY <1>f, <1>h, <1>k DEF LedgerInv, HeldApart
<1>2. AtMostOnce'
  BY <1>f DEF LedgerInv, AtMostOnce
<1>3. RearmAlone'
  BY <1>c, <1>r, <1>t DEF LedgerInv, RearmAlone, Clients
<1>4. OnceSpent'
  <2> SUFFICES ASSUME NEW s \in Once, Used(s, Null)'
               PROVE  (rows'[s].status \in {"completed", "canceled", "deleted"}) /\ ~Rearming(s)'
    BY DEF OnceSpent
  <2>1. rows[s].status \in {"completed", "canceled", "deleted"} /\ ~Rearming(s)
    BY <1>u DEF LedgerInv, OnceSpent
  <2> QED
    BY <1>c, <1>r, <2>1 DEF Rearming, Schedules
<1>5. CronSpent'
  <2> SUFFICES ASSUME NEW s \in Crons, NEW n \in 1..MaxTime, Used(s, n)'
               PROVE  /\ rows'[s].status # "none"
                      /\ n <= time'
                      /\ rows'[s].status = "scheduled" => n < rows'[s].due
                      /\ \A c \in Posts : req'[c].phase = "rearming" /\ s \in req'[c].todo
                            => n <= req'[c].now
    BY DEF CronSpent
  <2>1. /\ rows[s].status # "none"
        /\ n <= time
        /\ rows[s].status = "scheduled" => n < rows[s].due
        /\ \A c \in Posts : req[c].phase = "rearming" /\ s \in req[c].todo => n <= req[c].now
    BY <1>u DEF LedgerInv, CronSpent
  <2>2. n <= time'
    BY <1>t, <2>1, BoundsAssumption
  <2>3. (rows'[s].status # "none") /\ (rows'[s].status = "scheduled" => n < rows'[s].due)
    BY <1>r, <2>1 DEF Schedules
  <2> QED
    BY <1>c, <2>1, <2>2, <2>3
<1> QED
  BY <1>1, <1>2, <1>3, <1>4, <1>5 DEF LedgerInv

(* A step that neither fires nor claims: what is used stays used. *)
LEMMA UsesKept ==
    ASSUME LedgerInv, UNCHANGED <<time, poller, fired>>, RearmAlone',
           \A s \in Once : Used(s, Null) =>
                (rows'[s].status \in {"completed", "canceled", "deleted"}) /\ ~Rearming(s)',
           \A s \in Crons, n \in 1..MaxTime : Used(s, n) =>
                /\ rows'[s].status # "none"
                /\ rows'[s].status = "scheduled" => n < rows'[s].due
                /\ \A c \in Posts : req'[c].phase = "rearming" /\ s \in req'[c].todo => n <= req'[c].now
    PROVE  LedgerInv'
<1>u. \A s, n : Used(s, n)' <=> Used(s, n)
  BY DEF Used, Held, Holding
<1>1. HeldApart' /\ AtMostOnce'
  BY DEF LedgerInv, HeldApart, AtMostOnce, Held, Holding
<1>2. OnceSpent'
  BY <1>u DEF OnceSpent
<1>3. CronSpent'
  BY <1>u DEF LedgerInv, CronSpent
<1> QED
  BY <1>1, <1>2, <1>3 DEF LedgerInv

LEMMA LoadLedger ==
    ASSUME BaseInv, LedgerInv, NEW c \in Clients \ Posts, UNCHANGED <<time, poller, fired, rows>>,
           \A d \in Clients : d # c => req'[d] = req[d]
    PROVE  LedgerInv'
<1>1. \A d \in Posts : req'[d] = req[d]
  BY DEF Clients
<1>2. \A s \in Schedules : Rearming(s)' <=> Rearming(s)
  BY <1>1 DEF Rearming
<1>3. RearmAlone'
  BY <1>1 DEF LedgerInv, RearmAlone
<1>4. \A s \in Once : Used(s, Null) =>
        (rows'[s].status \in {"completed", "canceled", "deleted"}) /\ ~Rearming(s)'
  BY <1>2 DEF LedgerInv, OnceSpent, Schedules
<1>5. \A s \in Crons, n \in 1..MaxTime : Used(s, n) =>
        /\ rows'[s].status # "none"
        /\ rows'[s].status = "scheduled" => n < rows'[s].due
        /\ \A d \in Posts : req'[d].phase = "rearming" /\ s \in req'[d].todo => n <= req'[d].now
  BY <1>1 DEF LedgerInv, CronSpent
<1> QED
  BY <1>3, <1>4, <1>5, UsesKept

(* A re-arm loads the paused rows: no spent one-shot is among them. *)
LEMMA RearmReadLedger ==
    ASSUME OnePost, BaseInv, BaseInv', LedgerInv, NEW c \in Posts, RearmRead(c)
    PROVE  LedgerInv'
<1>t. TypeOK /\ c \in Clients
  BY DEF BaseInv, TypeInv, Clients
<1>0. UNCHANGED <<time, poller, fired, rows>>
      /\ (Answered(c) \/ Serve(c, "rearming", req[c].pod, Having("paused")))
  BY DEF RearmRead
<1>1. \A d \in Posts : d = c
  BY DEF OnePost
<1>2. \/ req'[c].phase = "idle"
      \/ req'[c].phase = "rearming" /\ req'[c].todo = Having("paused") /\ req'[c].now = time
  <2>1. CASE Answered(c)
    BY <1>t, <2>1 DEF Answered, IdleReq, TypeOK
  <2>2. CASE Serve(c, "rearming", req[c].pod, Having("paused"))
    BY <1>t, <2>2, ServeEffect
  <2> QED
    BY <1>0, <2>1, <2>2
<1>3. RearmAlone'
  BY <1>0, <1>1, <1>2 DEF RearmAlone, Having
<1>4. ASSUME NEW s \in Once, Used(s, Null)
      PROVE  (rows'[s].status \in {"completed", "canceled", "deleted"}) /\ ~Rearming(s)'
  <2>1. rows[s].status \in {"completed", "canceled", "deleted"}
    BY <1>4 DEF LedgerInv, OnceSpent
  <2>2. s \notin Having("paused")
    BY <2>1 DEF Having
  <2> QED
    BY <1>0, <1>1, <1>2, <2>1, <2>2 DEF Rearming
<1>5. ASSUME NEW s \in Crons, NEW n \in 1..MaxTime, Used(s, n)
      PROVE  /\ rows'[s].status # "none"
             /\ rows'[s].status = "scheduled" => n < rows'[s].due
             /\ \A d \in Posts : req'[d].phase = "rearming" /\ s \in req'[d].todo => n <= req'[d].now
  BY <1>0, <1>1, <1>2, <1>5 DEF LedgerInv, CronSpent
<1> QED
  BY <1>0, <1>3, <1>4, <1>5, UsesKept

(* The re-arm writes rows whose one-shots are unspent, and crons that next *)
(* fire after the minute it loaded them.                                   *)
LEMMA RearmWritesLedger ==
    ASSUME OnePost, BaseInv, BaseInv', LedgerInv, NEW c \in Posts, RearmWrites(c)
    PROVE  LedgerInv'
<1>t. /\ TypeOK /\ LoadedRows /\ rows \in [Schedules -> RowType]
      /\ req[c].todo \in SUBSET Schedules /\ req[c].now \in Nat
  BY BoundsAssumption DEF BaseInv, TypeInv, TypeOK, ReqType, Clients
<1>0. /\ req[c].phase = "rearming" /\ req'[c].phase = "rearmed"
      /\ \A s \in Schedules :
            rows'[s] = IF s \in req[c].todo THEN Rearmed(s, req[c].now) ELSE rows[s]
      /\ UNCHANGED <<time, poller, fired>>
  BY <1>t, RearmEffect
<1>1. \A d \in Posts : req'[d].phase # "rearming"
  BY <1>0 DEF OnePost
<1>3. RearmAlone'
  BY <1>1 DEF RearmAlone
<1>4. ASSUME NEW s \in Once, Used(s, Null)
      PROVE  (rows'[s].status \in {"completed", "canceled", "deleted"}) /\ ~Rearming(s)'
  <2>1. rows[s].status \in {"completed", "canceled", "deleted"} /\ s \notin req[c].todo
    BY <1>0, <1>4 DEF LedgerInv, OnceSpent, Rearming
  <2> QED
    BY <1>0, <1>1, <2>1 DEF Rearming, Schedules
<1>5. ASSUME NEW s \in Crons, NEW n \in 1..MaxTime, Used(s, n)
      PROVE  /\ rows'[s].status # "none"
             /\ rows'[s].status = "scheduled" => n < rows'[s].due
             /\ \A d \in Posts : req'[d].phase = "rearming" /\ s \in req'[d].todo => n <= req'[d].now
  <2>1. /\ rows[s].status # "none"
        /\ rows[s].status = "scheduled" => n < rows[s].due
        /\ s \in req[c].todo => n <= req[c].now
    BY <1>0, <1>5 DEF LedgerInv, CronSpent
  <2>2. /\ s \in Schedules
        /\ Rearmed(s, req[c].now) \in RowType
        /\ Rearmed(s, req[c].now).status \in {"scheduled", "completed"}
        /\ Rearmed(s, req[c].now).status = "scheduled" => Rearmed(s, req[c].now).due > req[c].now
    BY <1>t, RearmedTyped DEF Schedules
  <2>3. CASE s \notin req[c].todo
    BY <1>0, <1>1, <2>1, <2>2, <2>3
  <2>4. CASE s \in req[c].todo
    <3>1. rows'[s] = Rearmed(s, req[c].now) /\ Rearmed(s, req[c].now).due \in Nat
      BY <1>0, <2>2, <2>4 DEF RowType
    <3> QED
      BY <1>1, <1>t, <2>1, <2>2, <2>4, <3>1
  <2> QED
    BY <2>3, <2>4
<1> QED
  BY <1>0, <1>3, <1>4, <1>5, UsesKept

(* A row that is inserted has no used occurrence. *)
LEMMA CreateWritesLedger ==
    ASSUME BaseInv, BaseInv', LedgerInv, NEW c \in Creators, CreateWrites(c)
    PROVE  LedgerInv'
<1>t. TypeOK /\ LoadedRows /\ rows \in [Schedules -> RowType]
  BY DEF BaseInv, TypeInv, TypeOK
<1>0. /\ req[c].phase = "creating"
      /\ \A d \in Clients : d # c => req'[d] = req[d]
      /\ UNCHANGED <<time, poller, fired>>
  BY <1>t, CreateEffect
<1>1. PICK x, u : x \in req[c].todo /\ rows' = [rows EXCEPT ![x] = Scheduled(u)]
  BY <1>t, CreateEffect
<1>2. \A d \in Posts : req'[d] = req[d]
  BY <1>0, ClientsAssumption DEF Clients
<1>3. x \in Schedules /\ rows[x].status = "none" /\ \A s \in Schedules : s # x => rows'[s] = rows[s]
  BY <1>0, <1>1, <1>t DEF LoadedRows, TypeOK, ReqType, Clients
<1>4. \A d \in Posts : req[d].phase = "rearming" => x \notin req[d].todo /\ req[d].todo \in SUBSET Schedules
  BY <1>3, <1>t DEF LoadedRows, TypeOK, ReqType, Clients
<1>5. RearmAlone'
  BY <1>2, <1>3, <1>4 DEF LedgerInv, RearmAlone
<1>6. ASSUME NEW s \in Once, Used(s, Null)
      PROVE  (rows'[s].status \in {"completed", "canceled", "deleted"}) /\ ~Rearming(s)'
  <2>1. (rows[s].status \in {"completed", "canceled", "deleted"}) /\ ~Rearming(s)
    BY <1>6 DEF LedgerInv, OnceSpent
  <2> QED
    BY <1>2, <1>3, <2>1 DEF Rearming, Schedules
<1>7. ASSUME NEW s \in Crons, NEW n \in 1..MaxTime, Used(s, n)
      PROVE  /\ rows'[s].status # "none"
             /\ rows'[s].status = "scheduled" => n < rows'[s].due
             /\ \A d \in Posts : req'[d].phase = "rearming" /\ s \in req'[d].todo => n <= req'[d].now
  <2>1. /\ rows[s].status # "none"
        /\ rows[s].status = "scheduled" => n < rows[s].due
        /\ \A d \in Posts : req[d].phase = "rearming" /\ s \in req[d].todo => n <= req[d].now
    BY <1>7 DEF LedgerInv, CronSpent
  <2> QED
    BY <1>2, <1>3, <2>1 DEF Schedules
<1> QED
  BY <1>0, <1>5, <1>6, <1>7, UsesKept

(* The claim takes an occurrence that nothing has used, and leaves the row *)
(* past it.                                                                *)
LEMMA ClaimLedger ==
    ASSUME BaseInv, BaseInv', LedgerInv, NEW p \in Pods, ClaimWon(p)
    PROVE  LedgerInv'
<1> DEFINE s == poller[p].job
           n == poller'[p].occ
<1>t. /\ TypeInv /\ TypeOK /\ LoadedRows /\ rows \in [Schedules -> RowType]
      /\ fired \in [Occurrences -> Nat] /\ time \in 1..MaxTime /\ poller[p].now <= time
  BY DEF BaseInv, TypeInv, TypeOK, ClocksPast
<1>0. /\ s \in Schedules /\ rows[s].status = "scheduled"
      /\ rows[s].due \in Nat \ {Null} /\ rows[s].due <= poller[p].now
      /\ poller[p].phase = "claiming"
      /\ rows' = [rows EXCEPT ![s] = Advanced(s, poller[p].now)]
      /\ poller'[p].phase = "claimed" /\ poller'[p].job = s
      /\ n = (IF s \in Once THEN Null ELSE rows[s].due)
      /\ poller[p].now \in 0..MaxTime
      /\ \A q \in Pods : q # p => poller'[q] = poller[q]
      /\ UNCHANGED <<time, req, fired>>
  BY <1>t, ClaimEffect
<1>a. /\ s \in Once => rows'[s].status = "completed"
      /\ rows'[s].status \in {"scheduled", "completed"}
      /\ rows'[s].status = "scheduled" => rows'[s].due > poller[p].now
      /\ rows'[s] \in RowType
      /\ \A x \in Schedules : x # s => rows'[x] = rows[x]
  <2>1. rows'[s] = Advanced(s, poller[p].now) /\ \A x \in Schedules : x # s => rows'[x] = rows[x]
    BY <1>0, <1>t
  <2> QED
    BY <1>0, <2>1, AdvancedTyped, BoundsAssumption
<1>o. s \in Crons => s \notin Once /\ rows[s].due \in 1..MaxTime
  BY <1>0, <1>t, SchedulesAssumption, BoundsAssumption DEF Null
<1>b. <<s, n>> \in Occurrences /\ ~Used(s, n)
  <2>1. CASE s \in Once
    <3>1. n = Null
      BY <1>0, <2>1
    <3>2. ~Used(s, Null)
      BY <1>0, <2>1 DEF LedgerInv, OnceSpent
    <3> QED
      BY <2>1, <3>1, <3>2 DEF Occurrences
  <2>2. CASE s \in Crons
    <3>1. n = rows[s].due /\ n \in 1..MaxTime
      BY <1>0, <1>o, <2>2
    <3>2. ~Used(s, rows[s].due)
      <4>1. Used(s, rows[s].due) => rows[s].due < rows[s].due
        BY <1>0, <1>o, <2>2 DEF LedgerInv, CronSpent
      <4> QED
        BY <1>o, <2>2, <4>1
    <3>3. <<s, rows[s].due>> \in Occurrences
      BY <1>o, <2>2 DEF Occurrences
    <3> QED
      BY <3>1, <3>2, <3>3
  <2> QED
    BY <1>0, <2>1, <2>2 DEF Schedules
<1> HIDE DEF s, n
<1>e. poller'[p].job = s /\ poller'[p].occ = n /\ ~Holding(p)
  BY <1>0 DEF Holding, n
<1>k. \A q \in Pods : \A x, m : Held(q, x, m)' => Held(q, x, m) \/ (q = p /\ x = s /\ m = n)
  BY <1>0, <1>e DEF Held, Holding
<1>u. \A x, m : Used(x, m)' => Used(x, m) \/ (x = s /\ m = n)
  BY <1>0, <1>k DEF Used
<1>n. \A q \in Pods : ~Held(q, s, n)
  BY <1>b DEF Used
<1>r. \A x : Rearming(x)' <=> Rearming(x)
  BY <1>0 DEF Rearming
<1>l. ~Rearming(s) /\ \A d \in Posts : req[d].phase = "rearming" => s \notin req[d].todo
  BY <1>0 DEF LedgerInv, RearmAlone, Rearming
<1>1. HeldApart'
  <2> SUFFICES ASSUME NEW q \in Pods, Holding(q)'
               PROVE  /\ <<poller'[q].job, poller'[q].occ>> \in Occurrences
                      /\ fired'[<<poller'[q].job, poller'[q].occ>>] = 0
                      /\ \A r \in Pods :
                            Holding(r)' /\ poller'[r].job = poller'[q].job
                                /\ poller'[r].occ = poller'[q].occ => r = q
    BY DEF HeldApart, Held
  <2>0. \A r \in Pods : Holding(r)' => r = p \/ (poller'[r] = poller[r] /\ Holding(r))
    BY <1>0 DEF Holding
  <2>1. CASE q = p
    <3>1. fired[<<s, n>>] = 0
      BY <1>b, <1>t DEF Used
    <3>2. \A r \in Pods : Holding(r) => ~(poller[r].job = s /\ poller[r].occ = n)
      BY <1>n DEF Held
    <3> QED
      BY <1>0, <1>b, <1>e, <2>0, <2>1, <3>1, <3>2
  <2>2. CASE q # p
    <3>1. poller'[q] = poller[q] /\ Holding(q)
      BY <2>0, <2>2
    <3>2. /\ <<poller[q].job, poller[q].occ>> \in Occurrences
          /\ fired[<<poller[q].job, poller[q].occ>>] = 0
          /\ \A r \in Pods : Holding(r) /\ poller[r].job = poller[q].job
                                /\ poller[r].occ = poller[q].occ => r = q
      BY <3>1 DEF LedgerInv, HeldApart, Held
    <3>3. ~(poller[q].job = s /\ poller[q].occ = n)
      BY <1>n, <3>1 DEF Held
    <3> QED
      BY <1>0, <1>e, <2>0, <3>1, <3>2, <3>3
  <2> QED
    BY <2>1, <2>2
<1>2. AtMostOnce'
  BY <1>0 DEF LedgerInv, AtMostOnce
<1>3. RearmAlone'
  BY <1>0, <1>a, <1>l, <1>t DEF LedgerInv, RearmAlone, TypeOK, ReqType, Clients
<1>4. OnceSpent'
  <2> SUFFICES ASSUME NEW x \in Once, Used(x, Null)'
               PROVE  (rows'[x].status \in {"completed", "canceled", "deleted"}) /\ ~Rearming(x)'
    BY DEF OnceSpent
  <2>1. CASE Used(x, Null)
    <3>1. rows[x].status \in {"completed", "canceled", "deleted"} /\ ~Rearming(x)
      BY <2>1 DEF LedgerInv, OnceSpent
    <3>2. x # s
      BY <1>0, <3>1 DEF s
    <3> QED
      BY <1>a, <1>r, <3>1, <3>2 DEF Schedules
  <2>2. CASE x = s
    BY <1>a, <1>l, <1>r, <2>2
  <2> QED
    BY <1>u, <2>1, <2>2
<1>5. CronSpent'
  <2> SUFFICES ASSUME NEW x \in Crons, NEW m \in 1..MaxTime, Used(x, m)'
               PROVE  /\ rows'[x].status # "none"
                      /\ m <= time'
                      /\ rows'[x].status = "scheduled" => m < rows'[x].due
                      /\ \A d \in Posts : req'[d].phase = "rearming" /\ x \in req'[d].todo
                            => m <= req'[d].now
    BY DEF CronSpent
  <2>1. CASE x # s
    <3>1. Used(x, m) /\ rows'[x] = rows[x]
      BY <1>a, <1>u, <2>1 DEF Schedules
    <3> QED
      BY <1>0, <3>1 DEF LedgerInv, CronSpent
  <2>2. CASE x = s
    <3>1. rows[s].due \in Nat /\ rows[s].due <= poller[p].now /\ poller[p].now \in 0..MaxTime
      BY <1>0 DEF s
    <3>2. m <= rows[s].due
      <4>1. CASE Used(x, m)
        <5>1. m < rows[s].due
          BY <1>0, <2>2, <4>1 DEF LedgerInv, CronSpent, s
        <5> QED
          BY <3>1, <5>1, BoundsAssumption
      <4>2. CASE m = n
        <5>1. n = rows[s].due
          BY <1>0, <1>o, <2>2 DEF n, s
        <5> QED
          BY <3>1, <4>2, <5>1
      <4> QED
        BY <1>u, <4>1, <4>2
    <3>3. m <= time
      BY <1>t, <3>1, <3>2, BoundsAssumption
    <3>4. rows'[s].status = "scheduled" => m < rows'[s].due
      <4>1. rows'[s].due \in Nat
        BY <1>a DEF RowType
      <4> QED
        BY <1>a, <3>1, <3>2, <4>1, BoundsAssumption
    <3> QED
      BY <1>0, <1>a, <1>l, <2>2, <3>3, <3>4
  <2> QED
    BY <2>1, <2>2
<1> QED
  BY <1>1, <1>2, <1>3, <1>4, <1>5 DEF LedgerInv

(* A firing ticks off the occurrence its poller holds. *)
LEMMA SpawnLedger ==
    ASSUME BaseInv, LedgerInv, NEW p \in Pods, Spawn(p)
    PROVE  /\ LedgerInv'
           /\ \E o \in Occurrences : fired[o] = 0 /\ fired' = [fired EXCEPT ![o] = 1]
<1> DEFINE s == poller[p].job
           n == poller[p].occ
           o == <<s, n>>
<1>t. TypeInv /\ fired \in [Occurrences -> Nat]
  BY DEF BaseInv, TypeInv, TypeOK
<1>0. /\ Holding(p)
      /\ fired' = [fired EXCEPT ![o] = @ + 1]
      /\ poller'[p].phase = "ticking"
      /\ \A q \in Pods : q # p => poller'[q] = poller[q]
      /\ UNCHANGED <<time, req, rows>>
  BY <1>t, SpawnEffect
<1>h. /\ o \in Occurrences /\ fired[o] = 0
      /\ \A q \in Pods : Held(q, s, n) => q = p
  BY <1>0 DEF LedgerInv, HeldApart
<1>f. fired' = [fired EXCEPT ![o] = 1]
  BY <1>0, <1>h
<1>k. \A q \in Pods : \A x, m : Held(q, x, m)' => q # p /\ Held(q, x, m)
  BY <1>0 DEF Held, Holding
<1>u. \A x, m : <<x, m>> \in Occurrences /\ Used(x, m)' => Used(x, m)
  <2> SUFFICES ASSUME NEW x, NEW m, <<x, m>> \in Occurrences, Used(x, m)'
               PROVE  Used(x, m)
    OBVIOUS
  <2>1. CASE x = s /\ m = n
    BY <1>0, <2>1 DEF Used, Held
  <2>2. CASE ~(x = s /\ m = n)
    <3>1. fired'[<<x, m>>] = fired[<<x, m>>]
      BY <1>f, <1>t, <2>2
    <3> QED
      BY <1>k, <3>1 DEF Used
  <2> QED
    BY <2>1, <2>2
<1> HIDE DEF o
<1>1. HeldApart'
  <2> SUFFICES ASSUME NEW q \in Pods, Holding(q)'
               PROVE  /\ <<poller'[q].job, poller'[q].occ>> \in Occurrences
                      /\ fired'[<<poller'[q].job, poller'[q].occ>>] = 0
                      /\ \A r \in Pods :
                            Holding(r)' /\ poller'[r].job = poller'[q].job
                                /\ poller'[r].occ = poller'[q].occ => r = q
    BY DEF HeldApart, Held
  <2>0. \A r \in Pods : Holding(r)' => r # p /\ poller'[r] = poller[r] /\ Holding(r)
    BY <1>0 DEF Holding
  <2>2. /\ <<poller[q].job, poller[q].occ>> \in Occurrences
        /\ fired[<<poller[q].job, poller[q].occ>>] = 0
        /\ \A r \in Pods : Holding(r) /\ poller[r].job = poller[q].job
                              /\ poller[r].occ = poller[q].occ => r = q
    BY <2>0 DEF LedgerInv, HeldApart, Held
  <2>3. <<poller[q].job, poller[q].occ>> # o
    BY <1>h, <2>0 DEF Held, o
  <2>4. fired'[<<poller[q].job, poller[q].occ>>] = 0
    BY <1>f, <1>t, <2>2, <2>3
  <2> QED
    BY <2>0, <2>2, <2>4
<1>2. AtMostOnce'
  BY <1>f, <1>t DEF LedgerInv, AtMostOnce
<1>3. RearmAlone'
  BY <1>0 DEF LedgerInv, RearmAlone
<1>4. OnceSpent'
  <2> SUFFICES ASSUME NEW x \in Once, Used(x, Null)'
               PROVE  (rows'[x].status \in {"completed", "canceled", "deleted"}) /\ ~Rearming(x)'
    BY DEF OnceSpent
  <2>1. <<x, Null>> \in Occurrences
    BY DEF Occurrences
  <2> QED
    BY <1>0, <1>u, <2>1 DEF LedgerInv, OnceSpent, Rearming
<1>5. CronSpent'
  <2> SUFFICES ASSUME NEW x \in Crons, NEW m \in 1..MaxTime, Used(x, m)'
               PROVE  /\ rows'[x].status # "none"
                      /\ m <= time'
                      /\ rows'[x].status = "scheduled" => m < rows'[x].due
                      /\ \A d \in Posts : req'[d].phase = "rearming" /\ x \in req'[d].todo
                            => m <= req'[d].now
    BY DEF CronSpent
  <2>1. <<x, m>> \in Occurrences
    BY DEF Occurrences
  <2>2. Used(x, m)
    BY <1>u, <2>1
  <2> QED
    BY <1>0, <2>2 DEF LedgerInv, CronSpent
<1> QED
  BY <1>1, <1>2, <1>3, <1>4, <1>5, <1>f, <1>h DEF LedgerInv

LEMMA LedgerStep ==
    ASSUME OnePost, BaseInv, BaseInv', LedgerInv, [Next]_vars
    PROVE  LedgerInv' /\ [Ledger!Next]_fired
<1>t. TypeInv /\ TypeOK /\ Posts \cap (Cancels \cup Creators \cup Deleters) = {}
      /\ Clients = Posts \cup Cancels \cup Creators \cup Deleters
  BY ClientsAssumption DEF BaseInv, TypeInv, Clients
<1>0. CASE Ordinary
  BY <1>0, OrdinaryLedger DEF Ordinary
<1>1. ASSUME NEW p \in Pods, ClaimWon(p)
      PROVE  LedgerInv' /\ fired' = fired
  BY <1>1, <1>t, ClaimLedger, ClaimEffect
<1>2. ASSUME NEW p \in Pods, Spawn(p)
      PROVE  LedgerInv' /\ Ledger!Next
  BY <1>2, SpawnLedger DEF Ledger!Next, Ledger!Fire
<1>3. ASSUME NEW c \in Posts, RearmRead(c)
      PROVE  LedgerInv' /\ fired' = fired
  BY <1>3, RearmReadLedger DEF RearmRead
<1>4. ASSUME NEW c \in Posts, RearmWrites(c)
      PROVE  LedgerInv' /\ fired' = fired
  BY <1>4, <1>t, RearmWritesLedger, RearmEffect
<1>5. ASSUME NEW c \in Creators, CreateWrites(c)
      PROVE  LedgerInv' /\ fired' = fired
  BY <1>5, <1>t, CreateWritesLedger, CreateEffect
<1>6. ASSUME NEW c \in Cancels, NEW p \in Pods, NEW s \in Schedules, CancelRead(c, p, s)
      PROVE  LedgerInv' /\ fired' = fired
  <2>1. c \in Clients \ Posts /\ UNCHANGED <<time, poller, fired, rows>> /\ Serve(c, "canceling", p, {s})
    BY <1>6, <1>t DEF CancelRead
  <2> QED
    BY <1>t, <2>1, ServeEffect, LoadLedger
<1>7. ASSUME NEW c \in Creators, NEW p \in Pods, NEW s \in Schedules, CreateCheck(c, p, s)
      PROVE  LedgerInv' /\ fired' = fired
  <2>1. c \in Clients \ Posts /\ UNCHANGED <<time, poller, fired, rows>> /\ Serve(c, "creating", p, {s})
    BY <1>7, <1>t DEF CreateCheck
  <2> QED
    BY <1>t, <2>1, ServeEffect, LoadLedger
<1> QED
  BY <1>0, <1>1, <1>2, <1>3, <1>4, <1>5, <1>6, <1>7, StepSplit

(* The scheduler implements the ledger of firings, unless two posts to the *)
(* session overlap: however many pods poll, whatever expires, is cancelled *)
(* or deleted, and wherever a pod crashes.                                 *)
THEOREM SchedulerImplementsLedger ==
    ASSUME OnePost
    PROVE  Spec => LedgerSpec
<1>1. Init => Ledger!Init
  BY DEF Init, Ledger!Init
<1>2. BaseInv /\ BaseInv' /\ LedgerInv /\ [Next]_vars => LedgerInv' /\ [Ledger!Next]_fired
  BY LedgerStep
<1> QED
  BY <1>1, <1>2, BaseInit, BaseStep, LedgerInit, PTL DEF Spec, LedgerSpec, Ledger!Spec

(* No occurrence of a schedule runs twice, under the same assumption. *)
THEOREM SchedulerAtMostOnce ==
    ASSUME OnePost
    PROVE  Spec => []AtMostOnce
<1>1. BaseInv /\ BaseInv' /\ LedgerInv /\ [Next]_vars => LedgerInv'
  BY LedgerStep
<1>2. LedgerInv => AtMostOnce
  BY DEF LedgerInv
<1> QED
  BY <1>1, <1>2, BaseInit, BaseStep, LedgerInit, PTL DEF Spec

-----------------------------------------------------------------------------
(***************************************************************************)
(* What can change a row, and what can announce an end.                    *)
(***************************************************************************)
Over(s) == rows[s].status \in Ended \cup {"deleted"}

RowStep(s) ==
    \/ rows'[s] = rows[s]
    \/ \E p \in Pollers : /\ poller[p].phase = "pausing" /\ poller[p].job = s
                          /\ rows[s].status = "scheduled" /\ rows'[s].status = "paused"
    \/ \E p \in Pollers : /\ poller[p].phase = "claiming" /\ poller[p].job = s
                          /\ rows[s].status = "scheduled"
                          /\ rows'[s].status \in {"scheduled", "completed"}
    \/ \E c \in Posts : /\ RearmWrites(c) /\ s \in req[c].todo
                        /\ rows'[s].status \in {"scheduled", "completed"}
    \/ \E c \in Cancels : /\ req[c].phase = "canceling" /\ s \in req[c].todo
                          /\ req[c].todo \cap Having("deleted") = {}
                          /\ rows'[s].status = "canceled"
    \/ \E c \in Creators : /\ CreateWrites(c) /\ s \in req[c].todo
                           /\ rows'[s].status = "scheduled"
    \/ ~session' /\ rows[s].status # "none" /\ rows'[s].status = "deleted"

LEMMA RowSteps ==
    ASSUME BaseInv, [Next]_vars, NEW s \in Schedules
    PROVE  RowStep(s)
<1>t. /\ TypeInv /\ TypeOK /\ rows \in [Schedules -> RowType]
      /\ \A c \in Clients : req[c].now \in Nat
  BY BoundsAssumption DEF BaseInv, TypeInv, TypeOK, ReqType
<1>1. ASSUME NEW p \in Pollers, PollerStep(p)
      PROVE  RowStep(s)
  <2>1. CASE Pause(p)
    <3>1. rows' = rows \/ rows' = [rows EXCEPT ![poller[p].job] = [status |-> "paused", due |-> Null]]
      BY <2>1 DEF Pause
    <3>2. /\ poller[p].phase = "pausing"
          /\ rows' # rows => rows[poller[p].job].status = "scheduled"
      BY <2>1 DEF Pause
    <3> QED
      BY <1>t, <3>1, <3>2 DEF RowStep
  <2>2. CASE Claim(p)
    <3>1. CASE ~Due(poller[p].job, poller[p].now)
      BY <2>2, <3>1 DEF Claim, RowStep
    <3>2. CASE ClaimWon(p)
      <4>0. p \in Pods
        BY PodsAssumption
      <4>1. /\ poller[p].job \in Schedules /\ rows[poller[p].job].status = "scheduled"
            /\ poller[p].phase = "claiming" /\ poller[p].now \in Nat
            /\ rows' = [rows EXCEPT ![poller[p].job] = Advanced(poller[p].job, poller[p].now)]
        BY <1>t, <3>2, <4>0, ClaimEffect, BoundsAssumption
      <4>2. Advanced(poller[p].job, poller[p].now).status \in {"scheduled", "completed"}
        BY <4>1, AdvancedTyped
      <4> QED
        BY <1>t, <4>1, <4>2 DEF RowStep
    <3> QED
      BY <2>2, <3>1, <3>2 DEF ClaimWon
  <2>3. CASE rows' = rows
    BY <2>3 DEF RowStep
  <2> QED
    BY <1>1, <2>1, <2>2, <2>3
       DEF PollerStep, Select, TickEnds, Defer, Gate, PauseReturns, Reread, LookUpSession,
           Orphaned, Spawn, SpawnRefused
<1>2. ASSUME NEW c \in Posts, PostStep(c)
      PROVE  RowStep(s)
  <2>1. CASE RearmCommit(c) /\ req[c].todo \cap Having("deleted") = {}
    <3>1. RearmWrites(c)
      BY <2>1 DEF RearmWrites
    <3>2. rows'[s] = IF s \in req[c].todo THEN Rearmed(s, req[c].now) ELSE rows[s]
      BY <1>t, <3>1, RearmEffect
    <3>3. Rearmed(s, req[c].now).status \in {"scheduled", "completed"}
      BY <1>t, RearmedTyped DEF Clients
    <3> QED
      BY <3>1, <3>2, <3>3 DEF RowStep
  <2>2. CASE rows' = rows
    BY <2>2 DEF RowStep
  <2> QED
    BY <1>2, <2>1, <2>2 DEF PostStep, Post, RearmRead, RearmCommit, RearmReturns
<1>3. ASSUME NEW c \in Cancels, CancelStep(c)
      PROVE  RowStep(s)
  <2>1. CASE CancelCommit(c) /\ req[c].todo \cap Having("deleted") = {}
    <3>1. /\ req[c].phase = "canceling"
          /\ rows' = [x \in Schedules |->
                        IF x \in req[c].todo THEN [status |-> "canceled", due |-> Null] ELSE rows[x]]
      BY <2>1 DEF CancelCommit
    <3> QED
      BY <2>1, <3>1 DEF RowStep
  <2>2. CASE rows' = rows
    BY <2>2 DEF RowStep
  <2> QED
    BY <1>3, <2>1, <2>2 DEF CancelStep, CancelRead, CancelCommit, CancelReturns
<1>4. ASSUME NEW c \in Creators, CreateStep(c)
      PROVE  RowStep(s)
  <2>1. CASE CreateCommit(c) /\ session
    <3>1. CreateWrites(c)
      BY <2>1 DEF CreateWrites
    <3>2. PICK x, u : x \in req[c].todo /\ rows' = [rows EXCEPT ![x] = Scheduled(u)]
      BY <1>t, <3>1, CreateEffect
    <3> QED
      BY <1>t, <3>1, <3>2 DEF RowStep, Scheduled
  <2>2. CASE rows' = rows
    BY <2>2 DEF RowStep
  <2> QED
    BY <1>4, <2>1, <2>2 DEF CreateStep, CreateCheck, CreateCommit, CreateReturns
<1>5. ASSUME NEW c \in Deleters, DeleteStep(c)
      PROVE  RowStep(s)
  BY <1>5 DEF DeleteStep, DeleteList, DeleteTells, DeleteCommit, RowStep
<1>6. CASE rows' = rows
  BY <1>6 DEF RowStep
<1> QED
  BY <1>1, <1>2, <1>3, <1>4, <1>5, <1>6 DEF Next, vars, Tick, TurnEnds, Expire, Crash

(* Who announces that a schedule is over. *)
EndTold(s) ==
    \/ \E p \in Pollers : poller[p].phase = "orphan" /\ poller[p].job = s
    \/ \E p \in Pollers : /\ poller[p].phase = "found" /\ poller[p].job = s
                          /\ poller[p].seen # "scheduled"
    \/ \E c \in Cancels : req[c].phase = "canceled" /\ s \in req[c].todo
    \/ Deleting(s)'

LEMMA ToldSteps ==
    ASSUME BaseInv, [Next]_vars, NEW s \in Schedules, told'[s] \in Ended
    PROVE  told[s] \in Ended \/ EndTold(s)
<1>t. TypeOK
  BY DEF BaseInv, TypeInv
<1>k. ASSUME NEW S, NEW status, Tell(S, status)
      PROVE  told[s] \in Ended \/ (s \in S /\ status \in Ended)
  BY <1>k DEF Tell
<1>1. ASSUME NEW p \in Pollers, PollerStep(p)
      PROVE  told[s] \in Ended \/ EndTold(s)
  <2>1. CASE PauseReturns(p)
    BY <1>k, <2>1 DEF PauseReturns, Ended
  <2>2. CASE Orphaned(p)
    BY <1>k, <2>2 DEF Orphaned, EndTold
  <2>3. CASE Spawn(p) \/ SpawnRefused(p)
    BY <1>k, <2>3 DEF Spawn, SpawnRefused, Republished, EndTold, Ended
  <2>4. CASE told' = told
    BY <2>4
  <2> QED
    BY <1>1, <2>1, <2>2, <2>3, <2>4
       DEF PollerStep, Select, TickEnds, Defer, Gate, Pause, Claim, Reread, LookUpSession
<1>2. ASSUME NEW c \in Posts, PostStep(c)
      PROVE  told[s] \in Ended \/ EndTold(s)
  BY <1>2, <1>k DEF PostStep, Post, RearmRead, RearmCommit, RearmReturns, Ended
<1>3. ASSUME NEW c \in Cancels, CancelStep(c)
      PROVE  told[s] \in Ended \/ EndTold(s)
  BY <1>3, <1>k DEF CancelStep, CancelRead, CancelCommit, CancelReturns, EndTold
<1>4. ASSUME NEW c \in Creators, CreateStep(c)
      PROVE  told[s] \in Ended \/ EndTold(s)
  <2>1. CASE told' = told
    BY <2>1
  <2>2. CASE Tell(req[c].todo, "scheduled")
    BY <1>k, <2>2 DEF Ended
  <2> QED
    BY <1>4, <2>1, <2>2 DEF CreateStep, CreateCheck, CreateCommit, CreateReturns
<1>5. ASSUME NEW c \in Deleters, DeleteStep(c)
      PROVE  told[s] \in Ended \/ EndTold(s)
  <2>1. CASE DeleteTells(c)
    <3>1. /\ Tell(req[c].todo, "canceled")
          /\ req' = [req EXCEPT ![c].phase = "deleting"]
      BY <2>1 DEF DeleteTells
    <3>2. req'[c].phase = "deleting" /\ req'[c].todo = req[c].todo
      BY <1>t, <3>1 DEF TypeOK, Clients, ReqType
    <3> QED
      BY <1>k, <3>1, <3>2 DEF EndTold, Deleting
  <2>2. CASE told' = told
    BY <2>2
  <2> QED
    BY <1>5, <2>1, <2>2 DEF DeleteStep, DeleteList, DeleteCommit
<1>6. CASE told' = told
  BY <1>6
<1> QED
  BY <1>1, <1>2, <1>3, <1>4, <1>5, <1>6 DEF Next, vars, Tick, TurnEnds, Expire, Crash

-----------------------------------------------------------------------------
(***************************************************************************)
(* A job shown as ended is over.  A poller tells an end from what it read  *)
(* of the row, and a cancel from what it wrote: both are still true then,  *)
(* because nothing arms a row again that is over.                          *)
(***************************************************************************)

\* One pod polls (the deployment has one replica), and no delete is cut short.
OnePoller == \A p, q \in Pollers : p = q
DeletesFinish == MaxCrashes = 0 \/ Deleters = {}

RearmFits ==
    \A c \in Posts : req[c].phase = "rearming" =>
        \A s \in req[c].todo : rows[s].status \in {"paused", "deleted"}

GoneTakesRows == ~session => \A s \in Schedules : rows[s].status \in {"none", "deleted"}

SeenFits ==
    \A p \in Pollers :
        /\ Holding(p) => rows[poller[p].job].status \notin {"none", "paused"}
        /\ poller[p].phase \in {"reread", "found", "orphan"} =>
              /\ poller[p].seen \in {"scheduled", "completed", "canceled"}
              /\ poller[p].seen # "scheduled" => Over(poller[p].job)
        /\ poller[p].phase = "orphan" => ~session

CancelFits ==
    \A c \in Cancels : req[c].phase = "canceled" => \A s \in req[c].todo : Over(s)

DeleteFits ==
    \A c \in Deleters : req[c].phase \in {"listed", "deleting"} =>
        \A s \in req[c].todo : rows[s].status # "none"

OverInv ==
    RearmFits /\ GoneTakesRows /\ SeenFits /\ CancelFits /\ DeleteFits /\ EndedMeansOver

(* A request moves by its own steps, or with the pod it runs on. *)
LEMMA OwnStep ==
    ASSUME BaseInv, [Next]_vars, NEW c \in Clients
    PROVE  \/ req'[c] = req[c]
           \/ c \in Posts /\ PostStep(c)
           \/ c \in Cancels /\ CancelStep(c)
           \/ c \in Creators /\ (CreateStep(c) \/ req'[c] = IdleReq)
           \/ c \in Deleters /\ DeleteStep(c)
           \/ req'[c] = IdleReq /\ \E p \in Pods : Crash(p)
<1>t. TypeOK
  BY DEF BaseInv, TypeInv
<1>1. ASSUME NEW p \in Pollers, PollerStep(p)
      PROVE  req' = req
  BY <1>1 DEF PollerStep, Select, TickEnds, Defer, Gate, Pause, PauseReturns, Claim, Reread,
              LookUpSession, Orphaned, Spawn, SpawnRefused
<1>o. ASSUME NEW d \in Clients, d # c,
             \/ \E phase, p, S : Serve(d, phase, p, S)
             \/ Answered(d)
             \/ \E phase : req' = [req EXCEPT ![d].phase = phase]
             \/ \E phase, S : req' = [req EXCEPT ![d].phase = phase, ![d].todo = S]
      PROVE  req'[c] = req[c]
  BY <1>o, <1>t, OneRequest
<1>2. ASSUME NEW d \in Posts, PostStep(d), d # c
      PROVE  req'[c] = req[c]
  <2>0. d \in Clients
    BY DEF Clients
  <2>1. ASSUME NEW p \in Pods, Post(d, p)
        PROVE  req'[c] = req[c]
    BY <1>2, <1>o, <2>0, <2>1 DEF Post
  <2>2. CASE RearmRead(d)
    BY <1>2, <1>o, <2>0, <2>2 DEF RearmRead
  <2>3. CASE RearmCommit(d)
    BY <1>2, <1>o, <2>0, <2>3 DEF RearmCommit
  <2>4. CASE RearmReturns(d)
    BY <1>2, <1>o, <2>0, <2>4 DEF RearmReturns
  <2> QED
    BY <1>2, <2>1, <2>2, <2>3, <2>4 DEF PostStep
<1>3. ASSUME NEW d \in Cancels, CancelStep(d), d # c
      PROVE  req'[c] = req[c]
  <2>0. d \in Clients
    BY DEF Clients
  <2>1. ASSUME NEW p \in Pods, NEW s \in Schedules, CancelRead(d, p, s)
        PROVE  req'[c] = req[c]
    BY <1>3, <1>o, <2>0, <2>1 DEF CancelRead
  <2>2. CASE CancelCommit(d)
    BY <1>3, <1>o, <2>0, <2>2 DEF CancelCommit
  <2>3. CASE CancelReturns(d)
    BY <1>3, <1>o, <2>0, <2>3 DEF CancelReturns
  <2> QED
    BY <1>3, <2>1, <2>2, <2>3 DEF CancelStep
<1>4. ASSUME NEW d \in Creators, CreateStep(d), d # c
      PROVE  req'[c] = req[c]
  <2>0. d \in Clients
    BY DEF Clients
  <2>1. ASSUME NEW p \in Pods, NEW s \in Schedules, CreateCheck(d, p, s)
        PROVE  req'[c] = req[c]
    BY <1>4, <1>o, <2>0, <2>1 DEF CreateCheck
  <2>2. CASE CreateCommit(d)
    BY <1>4, <1>o, <2>0, <2>2 DEF CreateCommit
  <2>3. CASE CreateReturns(d)
    BY <1>4, <1>o, <2>0, <2>3 DEF CreateReturns
  <2> QED
    BY <1>4, <2>1, <2>2, <2>3 DEF CreateStep
<1>5. ASSUME NEW d \in Deleters, DeleteStep(d), d # c
      PROVE  req'[c] = req[c]
  <2>0. d \in Clients
    BY DEF Clients
  <2>1. ASSUME NEW p \in Pods, DeleteList(d, p)
        PROVE  req'[c] = req[c]
    BY <1>5, <1>o, <2>0, <2>1 DEF DeleteList
  <2>2. CASE DeleteTells(d)
    BY <1>5, <1>o, <2>0, <2>2 DEF DeleteTells
  <2>3. CASE DeleteCommit(d)
    BY <1>5, <1>o, <2>0, <2>3 DEF DeleteCommit
  <2> QED
    BY <1>5, <2>1, <2>2, <2>3 DEF DeleteStep
<1>6. ASSUME NEW p \in Pods, TurnEnds(p)
      PROVE  req'[c] = req[c] \/ (c \in Creators /\ req'[c] = IdleReq)
  BY <1>6 DEF TurnEnds
<1>7. ASSUME NEW p \in Pods, Crash(p)
      PROVE  req'[c] = req[c] \/ req'[c] = IdleReq
  BY <1>7 DEF Crash
<1>8. ASSUME NEW p \in Pods, Expire(p)
      PROVE  req' = req
  BY <1>8 DEF Expire
<1> QED
  BY <1>1, <1>2, <1>3, <1>4, <1>5, <1>6, <1>7, <1>8 DEF Next, vars, Tick

LEMMA RearmingKnown ==
    ASSUME BaseInv, [Next]_vars, NEW c \in Posts, req'[c].phase = "rearming"
    PROVE  \/ req'[c] = req[c]
           \/ req'[c].todo = Having("paused") /\ rows' = rows
<1>t. TypeOK /\ c \in Clients /\ IdleReq.phase = "idle" /\ c \notin Cancels \cup Creators \cup Deleters
  BY ClientsAssumption DEF BaseInv, TypeInv, Clients, IdleReq
<1>1. CASE PostStep(c)
  <2>1. ASSUME NEW p \in Pods, Post(c, p)
        PROVE  req'[c].phase = "posted"
    BY <1>t, <2>1 DEF Post, Serve, TypeOK
  <2>2. CASE RearmRead(c)
    <3>1. Answered(c) => req'[c].phase = "idle"
      BY <1>t DEF Answered, TypeOK
    <3>2. Serve(c, "rearming", req[c].pod, Having("paused")) => req'[c].todo = Having("paused")
      BY <1>t, ServeEffect
    <3> QED
      BY <2>2, <3>1, <3>2 DEF RearmRead
  <2>3. CASE RearmCommit(c)
    <3>1. Answered(c) => req'[c].phase = "idle"
      BY <1>t DEF Answered, TypeOK
    <3>2. ASSUME NEW S, req' = [req EXCEPT ![c].phase = "rearmed", ![c].todo = S]
          PROVE  req'[c].phase = "rearmed"
      BY <1>t, <3>2 DEF TypeOK, ReqType
    <3> QED
      BY <2>3, <3>1, <3>2 DEF RearmCommit
  <2>4. CASE RearmReturns(c)
    BY <1>t, <2>4 DEF RearmReturns, Answered, TypeOK
  <2> QED
    BY <1>1, <2>1, <2>2, <2>3, <2>4 DEF PostStep
<1> QED
  BY <1>1, <1>t, OwnStep

LEMMA CanceledKnown ==
    ASSUME BaseInv, [Next]_vars, NEW c \in Cancels, req'[c].phase = "canceled"
    PROVE  \/ req'[c] = req[c]
           \/ \A s \in req'[c].todo : rows'[s].status = "canceled"
<1>t. /\ TypeOK /\ c \in Clients /\ IdleReq.phase = "idle" /\ c \notin Posts \cup Creators \cup Deleters
      /\ req[c].todo \in SUBSET Schedules
  BY ClientsAssumption DEF BaseInv, TypeInv, TypeOK, ReqType, Clients, IdleReq
<1>1. CASE CancelStep(c)
  <2>1. ASSUME NEW p \in Pods, NEW s \in Schedules, CancelRead(c, p, s)
        PROVE  req'[c].phase = "canceling"
    BY <1>t, <2>1 DEF CancelRead, Serve, TypeOK
  <2>2. CASE CancelCommit(c)
    <3>1. Answered(c) => req'[c].phase = "idle"
      BY <1>t DEF Answered, TypeOK
    <3>2. CASE req' = [req EXCEPT ![c].phase = "canceled"]
               /\ rows' = [s \in Schedules |-> IF s \in req[c].todo
                               THEN [status |-> "canceled", due |-> Null] ELSE rows[s]]
      <4>1. req'[c].todo = req[c].todo
        BY <1>t, <3>2 DEF TypeOK, ReqType
      <4> QED
        BY <1>t, <3>2, <4>1
    <3> QED
      BY <2>2, <3>1, <3>2 DEF CancelCommit
  <2>3. CASE CancelReturns(c)
    BY <1>t, <2>3 DEF CancelReturns, Answered, TypeOK
  <2> QED
    BY <1>1, <2>1, <2>2, <2>3 DEF CancelStep
<1> QED
  BY <1>1, <1>t, OwnStep

LEMMA DeletingKnown ==
    ASSUME BaseInv, [Next]_vars, DeletesFinish, NEW c \in Deleters, req[c].phase = "deleting"
    PROVE  \/ req'[c] = req[c]
           \/ \A s \in Schedules : rows[s].status = "none" \/ rows'[s].status = "deleted"
<1>t. /\ TypeOK /\ c \in Clients /\ c \notin Posts \cup Creators \cup Cancels
  BY ClientsAssumption DEF BaseInv, TypeInv, Clients
<1>1. CASE DeleteStep(c)
  BY <1>1 DEF DeleteStep, DeleteList, DeleteTells, DeleteCommit, IdleReq
<1>2. ASSUME NEW p \in Pods, Crash(p)
      PROVE  FALSE
  <2>1. crashes \in 0..0
    BY <1>t DEF DeletesFinish, TypeOK
  <2> QED
    BY <1>2, <2>1, BoundsAssumption DEF Crash, DeletesFinish
<1> QED
  BY <1>1, <1>2, <1>t, OwnStep

(* What a poller holds, it has just claimed, or it knew before. *)
LEMMA HoldingKnown ==
    ASSUME BaseInv, [Next]_vars, NEW p \in Pollers, Holding(p)'
    PROVE  \/ poller'[p] = poller[p]
           \/ rows'[poller'[p].job].status \in {"scheduled", "completed"}
              /\ poller'[p].phase = "claimed"
           \/ /\ Holding(p) /\ rows' = rows /\ session' = session /\ poller'[p].job = poller[p].job
              /\ \/ /\ poller'[p].phase = "reread" /\ rows[poller[p].job].status # "deleted"
                    /\ poller'[p].seen = rows[poller[p].job].status
                 \/ /\ poller[p].phase = "reread" /\ poller'[p].seen = poller[p].seen
                    /\ poller'[p].phase \in {"found", "orphan"}
                    /\ poller'[p].phase = "orphan" => ~session
<1>t. /\ TypeInv /\ TypeOK /\ p \in Pods /\ poller \in [Pods -> PollerType]
      /\ rows \in [Schedules -> RowType]
  BY PodsAssumption DEF BaseInv, TypeInv, TypeOK
<1>n. ~Holding(p)' \/ poller'[p].phase \in {"claimed", "reread", "found", "orphan"}
  BY DEF Holding
<1>1. ASSUME NEW q \in Pollers, PollerStep(q), q # p
      PROVE  poller'[p] = poller[p]
  <2>1. q \in Pods
    BY PodsAssumption
  <2>2. NextRow(q) => poller'[p] = poller[p]
    BY <1>1, <1>t DEF NextRow
  <2>3. \A phase : Move(q, phase) => poller'[p] = poller[p]
    BY <1>1, <1>t DEF Move
  <2> QED
    BY <1>1, <1>t, <2>2, <2>3
       DEF PollerStep, Select, TickEnds, Defer, Gate, Pause, PauseReturns, Claim, Reread,
           LookUpSession, Orphaned, Spawn, SpawnRefused
<1>2. CASE PollerStep(p)
  <2>r. ~NextRow(p)
    BY <1>n, <1>t, NextRowTyped
  <2>1. CASE Claim(p)
    <3>1. ClaimWon(p)
      BY <2>1, <2>r DEF Claim, ClaimWon
    <3>2. /\ poller[p].job \in Schedules /\ poller'[p].job = poller[p].job /\ poller[p].now \in Nat
          /\ rows' = [rows EXCEPT ![poller[p].job] = Advanced(poller[p].job, poller[p].now)]
          /\ poller'[p].phase = "claimed"
      BY <1>t, <3>1, ClaimEffect, BoundsAssumption
    <3>3. Advanced(poller[p].job, poller[p].now).status \in {"scheduled", "completed"}
      BY <3>2, AdvancedTyped
    <3> QED
      BY <1>t, <3>2, <3>3
  <2>2. CASE Reread(p)
    <3>1. rows[poller[p].job].status # "deleted"
      BY <2>2, <2>r DEF Reread
    <3>2. /\ poller' = [poller EXCEPT ![p].phase = "reread", ![p].seen = rows[poller[p].job].status]
          /\ rows' = rows /\ session' = session /\ poller[p].phase = "claimed"
      BY <2>2, <3>1 DEF Reread
    <3>3. /\ poller'[p].phase = "reread" /\ poller'[p].job = poller[p].job
          /\ poller'[p].seen = rows[poller[p].job].status
      BY <1>t, <3>2 DEF PollerType
    <3> QED
      BY <3>1, <3>2, <3>3 DEF Holding
  <2>3. CASE LookUpSession(p)
    <3>1. /\ Move(p, "found") \/ (Move(p, "orphan") /\ ~session)
          /\ rows' = rows /\ session' = session /\ poller[p].phase = "reread"
      BY <2>3 DEF LookUpSession
    <3>2. ASSUME NEW phase, Move(p, phase)
          PROVE  /\ poller'[p].phase = phase /\ poller'[p].job = poller[p].job
                 /\ poller'[p].seen = poller[p].seen
      BY <1>t, <3>2 DEF Move, PollerType
    <3> QED
      BY <3>1, <3>2 DEF Holding
  <2>4. CASE Select(p)
    <3>1. \E S : poller' = [poller EXCEPT ![p] = Ticking(S, time)]
      BY <2>4 DEF Select
    <3> QED
      BY <1>n, <1>t, <3>1 DEF Ticking
  <2>5. CASE TickEnds(p)
    BY <1>n, <1>t, <2>5 DEF TickEnds, IdlePoller
  <2>6. ASSUME NEW s \in Schedules, Defer(p, s) \/ Gate(p, s)
        PROVE  FALSE
    <3>1. poller'[p].phase \in {"ticking", "claiming", "pausing"}
      BY <1>t, <2>6 DEF Defer, Gate, PollerType
    <3> QED
      BY <1>n, <3>1
  <2>7. CASE Pause(p)
    <3>1. Move(p, "paused") \/ Move(p, "unpaused")
      BY <2>7 DEF Pause
    <3> QED
      BY <1>n, <1>t, <3>1 DEF Move, PollerType
  <2> QED
    BY <1>2, <2>1, <2>2, <2>3, <2>4, <2>5, <2>6, <2>7, <2>r
       DEF PollerStep, PauseReturns, Orphaned, Spawn, SpawnRefused
<1>3. CASE \E q \in Pods : Crash(q)
  BY <1>3, <1>n, <1>t DEF Crash, IdlePoller
<1>4. CASE poller' = poller
  BY <1>4
<1>5. ASSUME NEW c \in Clients, PostStep(c) \/ CancelStep(c) \/ CreateStep(c) \/ DeleteStep(c)
      PROVE  poller' = poller
  BY <1>5 DEF PostStep, Post, RearmRead, RearmCommit, RearmReturns, CancelStep, CancelRead,
              CancelCommit, CancelReturns, CreateStep, CreateCheck, CreateCommit, CreateReturns,
              DeleteStep, DeleteList, DeleteTells, DeleteCommit
<1> QED
  BY <1>1, <1>2, <1>3, <1>4, <1>5, <1>t DEF Next, vars, Tick, TurnEnds, Expire, Clients

(* Nothing arms a row again that is over. *)
LEMMA OverStays ==
    ASSUME BaseInv, RearmFits, [Next]_vars, NEW s \in Schedules, Over(s)
    PROVE  Over(s)'
<1>t. /\ rows[s].status \in {"completed", "canceled", "deleted"} /\ LoadedRows
      /\ s \in Having("deleted") <=> rows[s].status = "deleted"
      /\ TypeOK
  BY DEF Over, Ended, Having, BaseInv, TypeInv
<1>1. ASSUME NEW c \in Posts, RearmWrites(c), s \in req[c].todo
      PROVE  FALSE
  BY <1>1, <1>t DEF RearmFits, RearmWrites, RearmCommit
<1>2. ASSUME NEW c \in Creators, CreateWrites(c), s \in req[c].todo
      PROVE  FALSE
  BY <1>2, <1>t, CreateEffect DEF LoadedRows
<1>3. RowStep(s)
  BY RowSteps
<1> QED
  BY <1>1, <1>2, <1>3, <1>t DEF RowStep, Over, Ended

LEMMA RearmFitsStep ==
    ASSUME OnePost, BaseInv, RearmFits, NoRearmOverCancel, [Next]_vars
    PROVE  RearmFits'
<1> SUFFICES ASSUME NEW c \in Posts, req'[c].phase = "rearming", NEW s \in req'[c].todo
             PROVE  rows'[s].status \in {"paused", "deleted"}
  BY DEF RearmFits
<1>t. TypeOK /\ LoadedRows
  BY DEF BaseInv, TypeInv
<1>1. CASE req'[c].todo = Having("paused") /\ rows' = rows
  BY <1>1 DEF Having
<1>2. CASE req'[c] = req[c]
  <2>1. /\ s \in Schedules /\ s \in req[c].todo /\ req[c].phase = "rearming"
        /\ rows[s].status \in {"paused", "deleted"}
    BY <1>2, <1>t DEF RearmFits, TypeOK, ReqType, Clients
  <2>2. ASSUME NEW d \in Posts, RearmWrites(d)
        PROVE  FALSE
    <3>1. d = c /\ req'[d].phase = "rearmed"
      BY <1>t, <2>2, RearmEffect DEF OnePost
    <3> QED
      BY <1>2, <2>1, <3>1
  <2>3. ASSUME NEW d \in Cancels, req[d].phase = "canceling", s \in req[d].todo
        PROVE  FALSE
    BY <2>1, <2>3 DEF NoRearmOverCancel
  <2>4. ASSUME NEW d \in Creators, CreateWrites(d), s \in req[d].todo
        PROVE  FALSE
    BY <1>t, <2>1, <2>4, CreateEffect DEF LoadedRows
  <2>5. RowStep(s)
    BY <2>1, RowSteps
  <2> QED
    BY <2>1, <2>2, <2>3, <2>4, <2>5 DEF RowStep
<1> QED
  BY <1>1, <1>2, RearmingKnown

LEMMA GoneStep ==
    ASSUME BaseInv, RearmFits, GoneTakesRows, [Next]_vars
    PROVE  GoneTakesRows'
<1>1. CASE session
  <2>1. ASSUME ~session'
        PROVE  \A s \in Schedules : rows'[s].status \in {"none", "deleted"}
    <3>1. \E c \in Deleters : DeleteCommit(c)
      BY ZenonT(60), <1>1, <2>1 DEF Next, vars, Tick, TurnEnds, Expire, Crash, PollerStep, Select, TickEnds,
         Defer, Gate, Pause, PauseReturns, Claim, Reread, LookUpSession, Orphaned, Spawn,
         SpawnRefused, PostStep, Post, RearmRead, RearmCommit, RearmReturns, CancelStep,
         CancelRead, CancelCommit, CancelReturns, CreateStep, CreateCheck, CreateCommit,
         CreateReturns, DeleteStep, DeleteList, DeleteTells
    <3> QED
      BY <3>1 DEF DeleteCommit
  <2> QED
    BY <2>1 DEF GoneTakesRows
<1>2. CASE ~session
  <2> SUFFICES ASSUME NEW s \in Schedules
               PROVE  rows'[s].status \in {"none", "deleted"}
    BY DEF GoneTakesRows
  <2>1. /\ rows[s].status \in {"none", "deleted"} /\ LoadedRows /\ TypeOK
        /\ s \in Having("deleted") <=> rows[s].status = "deleted"
    BY <1>2 DEF GoneTakesRows, Having, BaseInv, TypeInv
  <2>2. ASSUME NEW c \in Posts, RearmWrites(c), s \in req[c].todo
        PROVE  FALSE
    BY <2>1, <2>2 DEF RearmFits, RearmWrites, RearmCommit
  <2>3. ASSUME NEW c \in Cancels, req[c].phase = "canceling", s \in req[c].todo,
               req[c].todo \cap Having("deleted") = {}
        PROVE  FALSE
    BY <2>1, <2>3 DEF LoadedRows
  <2>4. ~\E c \in Creators : CreateWrites(c)
    BY <1>2 DEF CreateWrites
  <2>5. RowStep(s)
    BY RowSteps
  <2> QED
    BY <2>1, <2>2, <2>3, <2>4, <2>5 DEF RowStep
<1> QED
  BY <1>1, <1>2 DEF GoneTakesRows

LEMMA SeenStep ==
    ASSUME OnePoller, BaseInv, RearmFits, SeenFits, [Next]_vars
    PROVE  SeenFits'
<1> SUFFICES ASSUME NEW p \in Pollers
             PROVE  /\ Holding(p)' => rows'[poller'[p].job].status \notin {"none", "paused"}
                    /\ poller'[p].phase \in {"reread", "found", "orphan"} =>
                          /\ poller'[p].seen \in {"scheduled", "completed", "canceled"}
                          /\ poller'[p].seen # "scheduled" => Over(poller[p].job)'
                    /\ poller'[p].phase = "orphan" => ~session'
  BY DEF SeenFits, Over
<1>t. TypeInv /\ TypeOK /\ LoadedRows /\ p \in Pods /\ rows \in [Schedules -> RowType]
  BY PodsAssumption DEF BaseInv, TypeInv, TypeOK
<1>h. poller'[p].phase \in {"claimed", "reread", "found", "orphan"} <=> Holding(p)'
  BY DEF Holding
<1>1. CASE poller'[p] = poller[p] /\ Holding(p)'
  <2>1. /\ Holding(p) /\ poller[p].job \in Schedules
        /\ rows[poller[p].job].status \notin {"none", "paused"}
        /\ poller[p].phase \in {"reread", "found", "orphan"} =>
              /\ poller[p].seen \in {"scheduled", "completed", "canceled"}
              /\ poller[p].seen # "scheduled" => Over(poller[p].job)
        /\ poller[p].phase = "orphan" => ~session
    BY <1>1, <1>t DEF Holding, SeenFits, TypeInv, JobNamed
  <2>2. Over(poller[p].job) => Over(poller[p].job)'
    <3> DEFINE s == poller[p].job
    <3>1. Over(s) => rows'[s].status \in Ended \cup {"deleted"}
      BY <2>1, OverStays DEF Over
    <3> QED
      BY <1>1, <3>1 DEF Over
  <2>3. rows'[poller[p].job].status \notin {"none", "paused"}
    <3>1. RowStep(poller[p].job)
      BY <2>1, RowSteps
    <3>2. ~\E q \in Pollers : poller[q].phase = "pausing"
      BY <2>1 DEF OnePoller, Holding
    <3> QED
      BY <2>1, <3>1, <3>2 DEF RowStep
  <2>4. ~session => ~session'
    BY ZenonT(60) DEF Next, vars, Tick, TurnEnds, Expire, Crash, PollerStep, Select, TickEnds,
       Defer, Gate, Pause, PauseReturns, Claim, Reread, LookUpSession, Orphaned, Spawn,
       SpawnRefused, PostStep, Post, RearmRead, RearmCommit, RearmReturns, CancelStep,
       CancelRead, CancelCommit, CancelReturns, CreateStep, CreateCheck, CreateCommit,
       CreateReturns, DeleteStep, DeleteList, DeleteTells, DeleteCommit
  <2> QED
    BY <1>1, <2>1, <2>2, <2>3, <2>4
<1>2. CASE rows'[poller'[p].job].status \in {"scheduled", "completed"} /\ poller'[p].phase = "claimed"
  BY <1>2
<1>3. CASE /\ Holding(p) /\ rows' = rows /\ session' = session /\ poller'[p].job = poller[p].job
           /\ \/ /\ poller'[p].phase = "reread" /\ rows[poller[p].job].status # "deleted"
                 /\ poller'[p].seen = rows[poller[p].job].status
              \/ /\ poller[p].phase = "reread" /\ poller'[p].seen = poller[p].seen
                 /\ poller'[p].phase \in {"found", "orphan"}
                 /\ poller'[p].phase = "orphan" => ~session
  <2>1. poller[p].job \in Schedules /\ rows[poller[p].job].status \notin {"none", "paused"}
    BY <1>3, <1>t DEF Holding, SeenFits, TypeInv, JobNamed
  <2>2. CASE /\ poller'[p].phase = "reread" /\ rows[poller[p].job].status # "deleted"
             /\ poller'[p].seen = rows[poller[p].job].status
    <3>1. rows[poller[p].job].status \in {"scheduled", "completed", "canceled"}
      BY <1>t, <2>1, <2>2 DEF RowType, Statuses
    <3>2. poller'[p].seen # "scheduled" => Over(poller[p].job)'
      BY <1>3, <2>2, <3>1 DEF Over, Ended
    <3> QED
      BY <1>3, <2>1, <2>2, <3>1, <3>2
  <2>3. CASE /\ poller[p].phase = "reread" /\ poller'[p].seen = poller[p].seen
             /\ poller'[p].phase \in {"found", "orphan"}
             /\ poller'[p].phase = "orphan" => ~session
    <3>1. /\ poller[p].seen \in {"scheduled", "completed", "canceled"}
          /\ poller[p].seen # "scheduled" => Over(poller[p].job)
      BY <2>3 DEF SeenFits
    <3>2. poller'[p].seen # "scheduled" => Over(poller[p].job)'
      BY <1>3, <2>3, <3>1 DEF Over
    <3> QED
      BY <1>3, <2>1, <2>3, <3>1, <3>2
  <2> QED
    BY <1>3, <2>2, <2>3
<1> QED
  BY <1>1, <1>2, <1>3, <1>h, HoldingKnown

LEMMA CancelFitsStep ==
    ASSUME BaseInv, RearmFits, CancelFits, [Next]_vars
    PROVE  CancelFits'
<1> SUFFICES ASSUME NEW c \in Cancels, req'[c].phase = "canceled", NEW s \in req'[c].todo
             PROVE  rows'[s].status \in Ended \cup {"deleted"}
  BY DEF CancelFits, Over
<1>1. CASE req'[c] = req[c]
  <2>1. s \in Schedules /\ Over(s)
    BY <1>1 DEF CancelFits, BaseInv, TypeInv, TypeOK, ReqType, Clients
  <2> QED
    BY <2>1, OverStays DEF Over
<1> QED
  BY <1>1, CanceledKnown DEF Ended

LEMMA DeleteFitsStep ==
    ASSUME BaseInv, DeleteFits, [Next]_vars
    PROVE  DeleteFits'
<1> SUFFICES ASSUME NEW c \in Deleters, req'[c].phase \in {"listed", "deleting"},
                    NEW s \in req'[c].todo
             PROVE  rows'[s].status # "none"
  BY DEF DeleteFits
<1>t. /\ TypeOK /\ c \in Clients /\ c \notin Posts \cup Creators \cup Cancels
      /\ IdleReq.phase = "idle" /\ req[c].todo \in SUBSET Schedules
  BY ClientsAssumption DEF BaseInv, TypeInv, TypeOK, ReqType, Clients, IdleReq
<1>k. ASSUME s \in req[c].todo, req[c].phase \in {"listed", "deleting"}
      PROVE  rows'[s].status # "none"
  <2>1. s \in Schedules /\ rows[s].status # "none"
    BY <1>k, <1>t DEF DeleteFits
  <2>2. RowStep(s)
    BY <2>1, RowSteps
  <2> QED
    BY <2>1, <2>2 DEF RowStep
<1>1. CASE req'[c] = req[c]
  BY <1>1, <1>k
<1>2. CASE DeleteStep(c)
  <2>1. ASSUME NEW p \in Pods, DeleteList(c, p)
        PROVE  rows'[s].status # "none"
    <3>1. req'[c].todo = Having("scheduled") /\ rows' = rows
      BY <1>t, <2>1, ServeEffect DEF DeleteList
    <3> QED
      BY <3>1 DEF Having
  <2>2. CASE DeleteTells(c)
    <3>1. req'[c].todo = req[c].todo /\ req[c].phase = "listed"
      BY <1>t, <2>2 DEF DeleteTells, TypeOK, ReqType
    <3> QED
      BY <1>k, <3>1
  <2>3. CASE DeleteCommit(c)
    BY <1>t, <2>3 DEF DeleteCommit, Answered, TypeOK
  <2> QED
    BY <1>2, <2>1, <2>2, <2>3 DEF DeleteStep
<1> QED
  BY <1>1, <1>2, <1>t, OwnStep

LEMMA EndedStep ==
    ASSUME OnePoller, DeletesFinish, BaseInv, OverInv, GoneTakesRows', [Next]_vars
    PROVE  EndedMeansOver'
<1> SUFFICES ASSUME NEW s \in Schedules, told'[s] \in Ended
             PROVE  (rows'[s].status \in Ended \cup {"deleted"}) \/ Deleting(s)'
  BY DEF EndedMeansOver
<1>t. /\ TypeOK /\ RearmFits /\ GoneTakesRows /\ SeenFits /\ CancelFits /\ DeleteFits
      /\ EndedMeansOver /\ LoadedRows
  BY DEF OverInv, BaseInv, TypeInv
<1>o. Over(s) => rows'[s].status \in Ended \cup {"deleted"}
  BY <1>t, OverStays DEF Over
<1>1. CASE told[s] \in Ended
  <2>1. CASE Over(s)
    BY <1>o, <2>1
  <2>2. ASSUME NEW c \in Deleters, req[c].phase = "deleting", s \in req[c].todo
        PROVE  (rows'[s].status \in Ended \cup {"deleted"}) \/ Deleting(s)'
    <3>1. CASE req'[c] = req[c]
      BY <2>2, <3>1 DEF Deleting
    <3>2. CASE rows[s].status = "none" \/ rows'[s].status = "deleted"
      BY <1>t, <2>2, <3>2 DEF DeleteFits
    <3> QED
      BY <2>2, <3>1, <3>2, DeletingKnown
  <2> QED
    BY <1>1, <1>t, <2>1, <2>2 DEF EndedMeansOver, Over, Deleting
<1>2. ASSUME NEW p \in Pollers, poller[p].phase = "orphan", poller[p].job = s
      PROVE  Over(s)
  BY <1>2, <1>t DEF SeenFits, GoneTakesRows, Holding, Over
<1>3. ASSUME NEW p \in Pollers, poller[p].phase = "found", poller[p].job = s,
             poller[p].seen # "scheduled"
      PROVE  Over(s)
  BY <1>3, <1>t DEF SeenFits
<1>4. ASSUME NEW c \in Cancels, req[c].phase = "canceled", s \in req[c].todo
      PROVE  Over(s)
  BY <1>4, <1>t DEF CancelFits
<1> QED
  BY <1>o, <1>1, <1>2, <1>3, <1>4, ToldSteps DEF EndTold

LEMMA OverInit == Init => OverInv
BY PodsAssumption DEF Init, OverInv, RearmFits, GoneTakesRows, SeenFits, CancelFits, DeleteFits, EndedMeansOver,
       Holding, IdlePoller, IdleReq, Clients, Ended, Over, Null

LEMMA OverStep ==
    ASSUME OnePost, OnePoller, DeletesFinish, BaseInv, OverInv, NoRearmOverCancel, [Next]_vars
    PROVE  OverInv'
<1>1. RearmFits /\ GoneTakesRows /\ SeenFits /\ CancelFits /\ DeleteFits
  BY DEF OverInv
<1>2. RearmFits' /\ GoneTakesRows' /\ SeenFits' /\ CancelFits' /\ DeleteFits'
  BY <1>1, RearmFitsStep, GoneStep, SeenStep, CancelFitsStep, DeleteFitsStep
<1>3. EndedMeansOver'
  BY <1>2, EndedStep
<1> QED
  BY <1>2, <1>3 DEF OverInv

(* A job shown as ended is a schedule that is over, when one pod polls, no *)
(* delete is cut short by a crash, posts do not overlap, and no re-arm     *)
(* meets a cancel: a second poller may pause the row of a firing that is   *)
(* then announced as the last one, and a delete announces the ends first.  *)
THEOREM EndedMeansOverHolds ==
    ASSUME OnePost, OnePoller, DeletesFinish
    PROVE  Spec /\ []NoRearmOverCancel => []EndedMeansOver
<1>1. BaseInv /\ OverInv /\ NoRearmOverCancel /\ [Next]_vars => OverInv'
  BY OverStep
<1>2. OverInv => EndedMeansOver
  BY DEF OverInv
<1> QED
  BY <1>1, <1>2, BaseInit, BaseStep, OverInit, PTL DEF Spec

-----------------------------------------------------------------------------
(***************************************************************************)
(* The quota.  A tool call counts the rows in one transaction and inserts  *)
(* its own in another, so of the calls of a turn that run at once each may *)
(* find the same free slot: the calls in flight count as rows.             *)
(***************************************************************************)
Inserting == {c \in Creators : req[c].phase = "creating"}

SlotsFit ==
    /\ IsFiniteSet(Active)
    /\ Cardinality(Active) + Cardinality(Inserting) + 1 <= MaxPending + Cardinality(Creators)

(* Only an insert adds to the rows that hold a slot. *)
LEMMA ActiveStep ==
    ASSUME BaseInv, RearmFits, [Next]_vars, ~\E c \in Creators : CreateWrites(c)
    PROVE  Active' \subseteq Active
<1> SUFFICES ASSUME NEW s \in Schedules, rows'[s].status \in {"scheduled", "paused"}
             PROVE  rows[s].status \in {"scheduled", "paused"}
  BY DEF Active, Having
<1>1. ASSUME NEW c \in Posts, RearmWrites(c), s \in req[c].todo
      PROVE  rows[s].status = "paused"
  BY <1>1 DEF RearmFits, RearmWrites, RearmCommit, Having
<1> QED
  BY <1>1, RowSteps DEF RowStep

LEMMA InsertingKnown ==
    ASSUME BaseInv, [Next]_vars, NEW c \in Creators, req'[c].phase = "creating"
    PROVE  /\ ~CreateWrites(c)
           /\ \/ req[c].phase = "creating"
              \/ /\ Cardinality(Active) < MaxPending /\ rows' = rows
                 /\ \A d \in Clients : d # c => req'[d] = req[d]
<1>t. /\ TypeOK /\ c \in Clients /\ c \notin Posts \cup Cancels \cup Deleters
      /\ IdleReq.phase = "idle"
  BY ClientsAssumption DEF BaseInv, TypeInv, Clients, IdleReq
<1>w. ~CreateWrites(c)
  <2>1. CreateWrites(c) => req'[c].phase = "created"
    BY <1>t, CreateEffect
  <2> QED
    BY <2>1
<1>1. CASE CreateStep(c)
  <2>1. ASSUME NEW p \in Pods, NEW s \in Schedules, CreateCheck(c, p, s)
        PROVE  /\ Cardinality(Active) < MaxPending /\ rows' = rows
               /\ \A d \in Clients : d # c => req'[d] = req[d]
    BY <1>t, <2>1, ServeEffect DEF CreateCheck
  <2>2. CreateCommit(c) => req[c].phase = "creating"
    BY DEF CreateCommit
  <2>3. CreateReturns(c) => req'[c].phase = "idle"
    BY <1>t DEF CreateReturns, Answered, TypeOK
  <2> QED
    BY <1>1, <1>w, <2>1, <2>2, <2>3 DEF CreateStep
<1> QED
  BY <1>1, <1>t, <1>w, OwnStep

LEMMA SlotsStep ==
    ASSUME IsFiniteSet(Creators), BaseInv, RearmFits, SlotsFit, [Next]_vars
    PROVE  SlotsFit'
<1>t. /\ TypeOK /\ LoadedRows /\ MaxPending \in Nat /\ IsFiniteSet(Active)
      /\ Inserting \in SUBSET Creators /\ Inserting' \in SUBSET Creators
      /\ Creators \subseteq Clients /\ Creators \cap Posts = {}
  BY ClientsAssumption, BoundsAssumption
     DEF BaseInv, TypeInv, SlotsFit, Inserting, Clients
<1>f. /\ IsFiniteSet(Inserting) /\ IsFiniteSet(Inserting')
      /\ Cardinality(Creators) \in Nat /\ Cardinality(Active) \in Nat
      /\ Cardinality(Inserting) \in Nat /\ Cardinality(Inserting') \in Nat
      /\ Cardinality(Inserting') <= Cardinality(Creators)
  BY <1>t, FS_Subset, FS_CardinalityType
<1>1. ASSUME NEW c \in Creators, CreateWrites(c)
      PROVE  SlotsFit'
  <2>1. /\ req[c].phase = "creating" /\ req'[c].phase = "created"
        /\ \A d \in Clients : d # c => req'[d] = req[d]
    BY <1>1, <1>t, CreateEffect
  <2>2. PICK x, u : x \in req[c].todo /\ rows' = [rows EXCEPT ![x] = Scheduled(u)]
    BY <1>1, <1>t, CreateEffect
  <2>3. x \in Schedules /\ rows[x].status = "none" /\ x \notin Active
    BY <1>t, <2>1, <2>2 DEF LoadedRows, TypeOK, ReqType, Active, Having
  <2>4. Active' = Active \cup {x}
    BY <1>t, <2>2, <2>3 DEF Active, Having, Scheduled, TypeOK
  <2>5. Inserting' = Inserting \ {c} /\ c \in Inserting
    BY <1>1, <1>t, <2>1 DEF Inserting
  <2>6. IsFiniteSet(Active') /\ Cardinality(Active') = Cardinality(Active) + 1
    BY <1>t, <2>3, <2>4, FS_AddElement
  <2>7. Cardinality(Inserting') = Cardinality(Inserting) - 1
    BY <1>f, <2>5, FS_RemoveElement
  <2> QED
    BY <1>f, <1>t, <2>6, <2>7 DEF SlotsFit
<1>2. CASE ~\E c \in Creators : CreateWrites(c)
  <2>1. Active' \in SUBSET Active
    BY <1>2, ActiveStep
  <2>2. /\ IsFiniteSet(Active') /\ Cardinality(Active') <= Cardinality(Active)
        /\ Cardinality(Active') \in Nat
    BY <1>t, <2>1, FS_Subset, FS_CardinalityType
  <2>3. CASE Inserting' \in SUBSET Inserting
    <3>1. Cardinality(Inserting') <= Cardinality(Inserting)
      BY <1>f, <2>3, FS_Subset
    <3> QED
      BY <1>f, <1>t, <2>2, <3>1 DEF SlotsFit
  <2>4. CASE Inserting' \notin SUBSET Inserting
    <3>1. PICK c \in Creators : req'[c].phase = "creating" /\ req[c].phase # "creating"
      BY <2>4 DEF Inserting
    <3>2. Cardinality(Active) < MaxPending
      BY <3>1, InsertingKnown
    <3> QED
      BY <1>f, <1>t, <2>2, <3>2 DEF SlotsFit
  <2> QED
    BY <2>3, <2>4
<1> QED
  BY <1>1, <1>2

LEMMA SlotsInit ==
    ASSUME IsFiniteSet(Creators), Creators # {}, Init
    PROVE  SlotsFit
<1>1. Active = {} /\ Inserting = {}
  BY DEF Init, Active, Having, Inserting, IdleReq, Clients
<1>2. Cardinality(Creators) \in Nat /\ Cardinality(Creators) # 0
  BY FS_CardinalityType, FS_EmptySet
<1> QED
  BY <1>1, <1>2, FS_EmptySet, BoundsAssumption DEF SlotsFit

LEMMA RearmFitsInit == Init => RearmFits
BY DEF Init, RearmFits, IdleReq, Clients

(* A session holds at most one pending schedule over its quota for every   *)
(* creation but one that may run at once, whatever polls, fires, pauses,   *)
(* re-arms, cancels, deletes or crashes, for one post and no re-arm that   *)
(* meets a cancel; with one creation at a time it is within its quota.     *)
THEOREM OvershootIsBoundedHolds ==
    ASSUME OnePost, IsFiniteSet(Creators), Creators # {}
    PROVE  Spec /\ []NoRearmOverCancel => []OvershootIsBounded
<1>1. BaseInv /\ RearmFits /\ NoRearmOverCancel /\ [Next]_vars => RearmFits'
  BY RearmFitsStep
<1>2. BaseInv /\ RearmFits /\ SlotsFit /\ [Next]_vars => SlotsFit'
  BY SlotsStep
<1>3. Init => SlotsFit
  BY SlotsInit
<1>4. SlotsFit => OvershootIsBounded
  <2> SUFFICES ASSUME SlotsFit PROVE Cardinality(Active) < MaxPending + Cardinality(Creators)
    BY DEF OvershootIsBounded, Active
  <2>1. Inserting \in SUBSET Creators
    BY DEF Inserting
  <2>2. /\ Cardinality(Active) \in Nat /\ Cardinality(Inserting) \in Nat
        /\ Cardinality(Creators) \in Nat
    BY <2>1, FS_Subset, FS_CardinalityType DEF SlotsFit
  <2> QED
    BY <2>2, BoundsAssumption DEF SlotsFit
<1> QED
  BY <1>1, <1>2, <1>3, <1>4, BaseInit, BaseStep, RearmFitsInit, PTL DEF Spec

-----------------------------------------------------------------------------
(***************************************************************************)
(* The owner's presence.  The gate lets a firing pass under a captured     *)
(* token, and the turn is started much later under what the pod holds then.*)
(***************************************************************************)
TokenHeld ==
    \A p \in Pods : poller[p].phase \in {"claiming", "claimed", "reread", "found", "orphan"} =>
        token[p][poller[p].job] # "none" \/ Withdrawn(p, poller[p].job)

CancelWrote ==
    \A c \in Cancels : req[c].phase = "canceled" =>
        \A s \in req[c].todo : rows[s].status \in {"canceled", "deleted"}

OwnerInv == RearmFits /\ DeleteFits /\ CancelWrote /\ TokenHeld

(* Nothing arms a row again that was cancelled or deleted. *)
LEMMA TakenBackStays ==
    ASSUME BaseInv, RearmFits, [Next]_vars, NEW s \in Schedules,
           rows[s].status \in {"canceled", "deleted"}
    PROVE  rows'[s].status \in {"canceled", "deleted"}
<1>t. LoadedRows /\ TypeOK /\ (s \in Having("deleted") <=> rows[s].status = "deleted")
  BY DEF Having, BaseInv, TypeInv
<1>1. ASSUME NEW c \in Posts, RearmWrites(c), s \in req[c].todo
      PROVE  FALSE
  BY <1>1, <1>t DEF RearmFits, RearmWrites, RearmCommit
<1>2. ASSUME NEW c \in Creators, CreateWrites(c), s \in req[c].todo
      PROVE  FALSE
  BY <1>2, <1>t, CreateEffect DEF LoadedRows
<1>3. RowStep(s)
  BY RowSteps
<1> QED
  BY <1>1, <1>2, <1>3, <1>t DEF RowStep

LEMMA CancelWroteStep ==
    ASSUME BaseInv, RearmFits, CancelWrote, [Next]_vars
    PROVE  CancelWrote'
<1> SUFFICES ASSUME NEW c \in Cancels, req'[c].phase = "canceled", NEW s \in req'[c].todo
             PROVE  rows'[s].status \in {"canceled", "deleted"}
  BY DEF CancelWrote
<1>1. CASE req'[c] = req[c]
  <2>1. s \in Schedules /\ rows[s].status \in {"canceled", "deleted"}
    BY <1>1 DEF CancelWrote, BaseInv, TypeInv, TypeOK, ReqType, Clients
  <2> QED
    BY <2>1, TakenBackStays
<1> QED
  BY <1>1, CanceledKnown

(* What the owner took back stays so while the pod lives: a delete under   *)
(* way takes the row with it.                                              *)
LEMMA WithdrawnStays ==
    ASSUME BaseInv, RearmFits, DeleteFits, [Next]_vars, NEW p \in Pods, NEW s \in Schedules,
           Withdrawn(p, s), ~Crash(p)
    PROVE  Withdrawn(p, s)'
<1>t. TypeOK
  BY DEF BaseInv, TypeInv
<1>1. CASE rows[s].status \in {"canceled", "deleted"}
  BY <1>1, TakenBackStays DEF Withdrawn
<1>2. ASSUME NEW c \in Deleters, req[c].phase = "deleting", req[c].pod = p, s \in req[c].todo
      PROVE  Withdrawn(p, s)'
  <2>t. c \in Clients /\ c \notin Posts \cup Creators \cup Cancels
    BY ClientsAssumption DEF Clients
  <2>1. CASE req'[c] = req[c]
    BY <1>2, <2>1 DEF Withdrawn
  <2>2. CASE DeleteStep(c)
    <3>1. rows[s].status # "none"
      BY <1>2 DEF DeleteFits
    <3>2. DeleteCommit(c)
      BY <1>2, <2>2 DEF DeleteStep, DeleteList, DeleteTells, IdleReq
    <3> QED
      BY <3>1, <3>2 DEF DeleteCommit, Withdrawn
  <2>3. ASSUME NEW q \in Pods, Crash(q)
        PROVE  req'[c] = req[c]
    BY <1>2, <2>3, <2>t DEF Crash
  <2> QED
    BY <2>1, <2>2, <2>3, <2>t, OwnStep
<1> QED
  BY <1>1, <1>2 DEF Withdrawn

LEMMA TokenKept ==
    ASSUME BaseInv, CancelWrote, [Next]_vars, NEW p \in Pods,
           NEW s \in Schedules, token[p][s] # "none"
    PROVE  \/ token'[p][s] # "none"
           \/ p \in Pollers /\ (PauseReturns(p) \/ Orphaned(p) \/ Spawn(p) \/ SpawnRefused(p))
           \/ Crash(p)
           \/ Withdrawn(p, s)'
<1>t. TypeOK /\ token \in [Pods -> [Schedules -> Tokens]]
  BY DEF BaseInv, TypeInv, TypeOK
<1>f. ASSUME NEW q, NEW S, Forget(q, S), q # p
      PROVE  token'[p][s] = token[p][s]
  BY <1>f, <1>t DEF Forget
<1>o. ASSUME NEW q, NEW S, Forget(q, S), s \notin S
      PROVE  token'[p][s] = token[p][s]
  BY <1>o, <1>t DEF Forget
<1>r. ASSUME NEW q, NEW S, NEW t, Remember(q, S, t)
      PROVE  token'[p][s] # "none"
  BY <1>r, <1>t DEF Remember
<1>1. ASSUME NEW q \in Pollers, PollerStep(q)
      PROVE  \/ token'[p][s] # "none"
             \/ p \in Pollers /\ (PauseReturns(p) \/ Orphaned(p) \/ Spawn(p) \/ SpawnRefused(p))
  <2>1. CASE PauseReturns(q) \/ Orphaned(q) \/ Spawn(q) \/ SpawnRefused(q)
    <3>1. \E S : Forget(q, S)
      BY <2>1 DEF PauseReturns, Orphaned, Spawn, SpawnRefused
    <3> QED
      BY <1>1, <1>f, <2>1, <3>1
  <2>2. CASE token' = token
    BY <2>2
  <2> QED
    BY <1>1, <2>1, <2>2
       DEF PollerStep, Select, TickEnds, Defer, Gate, Pause, Claim, Reread, LookUpSession
<1>2. ASSUME NEW c \in Posts, PostStep(c)
      PROVE  token'[p][s] # "none"
  BY <1>2, <1>r DEF PostStep, Post, RearmRead, RearmCommit, RearmReturns
<1>3. ASSUME NEW c \in Creators, CreateStep(c)
      PROVE  token'[p][s] # "none"
  BY <1>3, <1>r DEF CreateStep, CreateCheck, CreateCommit, CreateReturns
<1>4. ASSUME NEW q \in Pods, Expire(q)
      PROVE  token'[p][s] # "none"
  <2>1. ASSUME NEW x \in Schedules, token' = [token EXCEPT ![q][x] = "dead"]
        PROVE  token'[p][s] # "none"
    BY <1>t, <2>1
  <2> QED
    BY <1>4, <2>1 DEF Expire
<1>5. ASSUME NEW q \in Pods, Crash(q)
      PROVE  token'[p][s] # "none" \/ Crash(p)
  BY <1>5, <1>t DEF Crash
<1>6. ASSUME NEW c \in Cancels, CancelStep(c)
      PROVE  token'[p][s] # "none" \/ Withdrawn(p, s)'
  <2>1. CASE CancelReturns(c) /\ s \in req[c].todo
    <3>1. rows[s].status \in {"canceled", "deleted"} /\ rows' = rows
      BY <2>1 DEF CancelReturns, CancelWrote
    <3> QED
      BY <3>1 DEF Withdrawn
  <2>2. CASE CancelReturns(c) /\ s \notin req[c].todo
    <3>1. token' = token \/ Forget(req[c].pod, req[c].todo)
      BY <2>2 DEF CancelReturns
    <3> QED
      BY <1>o, <2>2, <3>1
  <2> QED
    BY <1>6, <2>1, <2>2 DEF CancelStep, CancelRead, CancelCommit
<1>7. ASSUME NEW c \in Deleters, DeleteStep(c)
      PROVE  token'[p][s] # "none" \/ Withdrawn(p, s)'
  <2>1. CASE DeleteTells(c)
    <3>1. Forget(req[c].pod, req[c].todo) /\ req' = [req EXCEPT ![c].phase = "deleting"]
      BY <2>1 DEF DeleteTells
    <3>2. /\ req'[c].phase = "deleting" /\ req'[c].pod = req[c].pod
          /\ req'[c].todo = req[c].todo
      BY <1>t, <3>1 DEF TypeOK, Clients, ReqType
    <3>3. CASE req[c].pod = p /\ s \in req[c].todo
      BY <3>2, <3>3 DEF Withdrawn
    <3> QED
      BY <1>f, <1>o, <3>1, <3>3
  <2> QED
    BY <1>7, <2>1 DEF DeleteStep, DeleteList, DeleteCommit
<1> QED
  BY <1>1, <1>2, <1>3, <1>4, <1>5, <1>6, <1>7 DEF Next, vars, Tick, TurnEnds

LEMMA TokenHeldStep ==
    ASSUME BaseInv, OwnerInv, [Next]_vars
    PROVE  TokenHeld'
<1> SUFFICES ASSUME NEW p \in Pods,
                    poller'[p].phase \in {"claiming", "claimed", "reread", "found", "orphan"}
             PROVE  token'[p][poller'[p].job] # "none" \/ Withdrawn(p, poller[p].job)'
  BY DEF TokenHeld, Withdrawn
<1>t. TypeInv /\ TypeOK /\ poller \in [Pods -> PollerType] /\ Pollers \subseteq Pods
  BY PodsAssumption DEF BaseInv, TypeInv, TypeOK
<1>n. ~NextRow(p)
  BY <1>t, NextRowTyped
<1>c. ~Crash(p)
  BY <1>t DEF Crash, IdlePoller
<1>e. ~(PauseReturns(p) \/ Orphaned(p) \/ Spawn(p) \/ SpawnRefused(p))
  BY <1>n DEF PauseReturns, Orphaned, Spawn, SpawnRefused
<1>k. ASSUME poller'[p].job = poller[p].job,
             poller[p].phase \in {"claiming", "claimed", "reread", "found", "orphan"}
      PROVE  token'[p][poller'[p].job] # "none" \/ Withdrawn(p, poller[p].job)'
  <2>1. PICK s \in Schedules : s = poller[p].job
    BY <1>k, <1>t DEF TypeInv, JobNamed
  <2>2. token[p][s] # "none" \/ Withdrawn(p, s)
    BY <1>k, <2>1 DEF OwnerInv, TokenHeld
  <2>3. Withdrawn(p, s) => Withdrawn(p, s)'
    BY <1>c, WithdrawnStays DEF OwnerInv
  <2>4. token'[p][s] # "none" \/ Withdrawn(p, s)'
    BY <1>c, <1>e, <2>2, <2>3, TokenKept DEF OwnerInv
  <2> QED
    BY <1>k, <2>1, <2>4 DEF Withdrawn
<1>1. CASE p \in Pollers /\ PollerStep(p)
  <2>1. ASSUME NEW s \in Schedules, Gate(p, s)
        PROVE  token'[p][poller'[p].job] # "none"
    <3>1. /\ poller'[p].job = s /\ token' = token
          /\ poller'[p].phase = IF token[p][s] = "live" THEN "claiming" ELSE "pausing"
      BY <1>t, <2>1 DEF Gate, PollerType
    <3> QED
      BY <3>1
  <2>2. ASSUME NEW s \in Schedules, Defer(p, s)
        PROVE  FALSE
    BY <1>t, <2>2 DEF Defer, PollerType
  <2>3. ASSUME NEW S, poller' = [poller EXCEPT ![p] = Ticking(S, time)]
        PROVE  FALSE
    BY <1>t, <2>3 DEF Ticking
  <2>4. ~TickEnds(p)
    BY <1>t DEF TickEnds, IdlePoller
  <2>5. ASSUME NEW phase, Move(p, phase)
        PROVE  poller'[p].phase = phase /\ poller'[p].job = poller[p].job
    BY <1>t, <2>5 DEF Move, PollerType
  <2>6. ~Pause(p)
    BY <2>5 DEF Pause
  <2>7. CASE LookUpSession(p)
    BY <1>k, <2>5, <2>7 DEF LookUpSession
  <2>8. CASE Claim(p)
    <3>1. ClaimWon(p)
      BY <1>n, <2>8 DEF Claim, ClaimWon
    <3> QED
      BY <1>k, <1>t, <3>1, ClaimEffect
  <2>9. CASE Reread(p)
    <3>1. /\ poller[p].phase = "claimed"
          /\ poller' = [poller EXCEPT ![p].phase = "reread", ![p].seen = rows[poller[p].job].status]
      BY <1>n, <2>9 DEF Reread
    <3>2. poller'[p].job = poller[p].job
      BY <1>t, <3>1 DEF PollerType
    <3> QED
      BY <1>k, <3>1, <3>2
  <2> QED
    BY <1>1, <1>e, <2>1, <2>2, <2>3, <2>4, <2>6, <2>7, <2>8, <2>9 DEF PollerStep, Select
<1>2. CASE poller'[p] = poller[p]
  BY <1>2, <1>k
<1>3. poller'[p] = poller[p] \/ (p \in Pollers /\ PollerStep(p))
  <2>1. ASSUME NEW q \in Pollers, PollerStep(q), q # p
        PROVE  poller'[p] = poller[p]
    <3>2. NextRow(q) => poller'[p] = poller[p]
      BY <2>1, <1>t DEF NextRow
    <3>3. \A phase : Move(q, phase) => poller'[p] = poller[p]
      BY <2>1, <1>t DEF Move
    <3> QED
      BY <2>1, <1>t, <3>2, <3>3
         DEF PollerStep, Select, TickEnds, Defer, Gate, Pause, PauseReturns, Claim, Reread,
             LookUpSession, Orphaned, Spawn, SpawnRefused
  <2>2. ASSUME NEW q \in Pods, Crash(q)
        PROVE  poller'[p] = poller[p]
    BY <1>c, <1>t, <2>2 DEF Crash
  <2>3. ASSUME NEW c \in Clients, PostStep(c) \/ CancelStep(c) \/ CreateStep(c) \/ DeleteStep(c)
        PROVE  poller' = poller
    BY <2>3 DEF PostStep, Post, RearmRead, RearmCommit, RearmReturns, CancelStep, CancelRead,
                CancelCommit, CancelReturns, CreateStep, CreateCheck, CreateCommit, CreateReturns,
                DeleteStep, DeleteList, DeleteTells, DeleteCommit
  <2> QED
    BY <2>1, <2>2, <2>3 DEF Next, vars, Tick, TurnEnds, Expire, Clients
<1> QED
  BY <1>1, <1>2, <1>3

(* A firing that starts without a token is of a schedule taken back. *)
LEMMA OwnerStep ==
    ASSUME BaseInv, TokenHeld, [Next]_vars, NEW p \in Pods, turn[p] = "idle", turn'[p] = "none"
    PROVE  Withdrawn(p, poller[p].job)
<1>t. TypeOK /\ turn \in [Pods -> Tokens \cup {"idle"}] /\ Pollers \subseteq Pods
  BY PodsAssumption DEF BaseInv, TypeInv, TypeOK
<1>1. ASSUME NEW q \in Pollers, Spawn(q)
      PROVE  Withdrawn(p, poller[p].job)
  <2>1. q = p /\ turn'[p] = token[p][poller[p].job] /\ poller[p].phase = "found"
    BY <1>1, <1>t DEF Spawn
  <2> QED
    BY <2>1 DEF TokenHeld
<1>2. ASSUME NEW c \in Posts, NEW q \in Pods, Post(c, q)
      PROVE  FALSE
  BY <1>2, <1>t DEF Post
<1>3. ASSUME NEW q \in Pods, TurnEnds(q) \/ Expire(q) \/ Crash(q)
      PROVE  FALSE
  BY <1>3, <1>t DEF TurnEnds, Expire, Crash
<1>4. turn' # turn
  BY <1>t
<1> QED
  BY <1>1, <1>2, <1>3, <1>4
     DEF Next, vars, Tick, PollerStep, Select, TickEnds, Defer, Gate, Pause, PauseReturns, Claim,
         Reread, LookUpSession, Orphaned, SpawnRefused, PostStep, RearmRead, RearmCommit,
         RearmReturns, CancelStep, CancelRead, CancelCommit, CancelReturns, CreateStep,
         CreateCheck, CreateCommit, CreateReturns, DeleteStep, DeleteList, DeleteTells,
         DeleteCommit

(* A firing starts under the service identity only if its schedule was     *)
(* cancelled or its session's delete announced between the gate and the    *)
(* turn, however long that takes, for any pods, pollers, crashes, cancels, *)
(* creations and deletes, one post and no re-arm that meets a cancel.      *)
THEOREM OwnerPresentHolds ==
    ASSUME OnePost
    PROVE  Spec /\ []NoRearmOverCancel => OwnerPresent
<1>1. Init => OwnerInv
  BY DEF Init, OwnerInv, RearmFits, DeleteFits, CancelWrote, TokenHeld, IdlePoller, IdleReq, Clients
<1>2. BaseInv /\ OwnerInv /\ NoRearmOverCancel /\ [Next]_vars => OwnerInv'
  <2> SUFFICES ASSUME BaseInv, OwnerInv, NoRearmOverCancel, [Next]_vars PROVE OwnerInv'
    OBVIOUS
  <2>1. RearmFits' /\ DeleteFits' /\ CancelWrote'
    BY RearmFitsStep, DeleteFitsStep, CancelWroteStep DEF OwnerInv
  <2>2. TokenHeld'
    BY TokenHeldStep
  <2> QED
    BY <2>1, <2>2 DEF OwnerInv
<1>3. BaseInv /\ OwnerInv /\ [Next]_vars
        => [\A p \in Pods :
               turn[p] = "idle" /\ turn'[p] = "none" => Withdrawn(p, poller[p].job)]_vars
  BY OwnerStep DEF OwnerInv
<1> QED
  BY <1>1, <1>2, <1>3, BaseInit, BaseStep, PTL DEF Spec, OwnerPresent
=============================================================================
