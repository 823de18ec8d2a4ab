---------------------------- MODULE KnowledgeSync ----------------------------
(***************************************************************************)
(* The knowledge service keeps a copy of what the other services know.  A  *)
(* run walks the archive of a mailbox newest first, one page a call, into  *)
(* its own table, embeds the texts that have no vector and turns records   *)
(* into episodes of the graph, which costs money.  A loop runs it again    *)
(* and again; the sync route runs it on request, and once more, without    *)
(* the walk, when the backlog was small or was confirmed.  A lock keeps    *)
(* runs apart.                                                             *)
(*                                                                         *)
(* The archive (the mail service) and the graph are external.  Messages    *)
(* are numbered by date; when the deletion flag of one flips it has its    *)
(* second version.  A step is what runs between two awaits.                *)
(***************************************************************************)
EXTENDS Integers, FiniteSets, FiniteSetsExt

CONSTANTS
    Ids,                \* messages of one mailbox, by date
    Old,                \* those in the archive when it is first walked
    PageSize,           \* sync_page_size
    HeadPages,          \* mail_head_pages
    CyclePages,         \* mail_pages_per_cycle
    AutoBatch,          \* graph_auto_batch
    Threshold,          \* sync_confirm_episodes
    Poison,             \* messages whose episode always fails
    MaxFlips, MaxRequests, MaxFaults    \* bounds

ASSUME SizesAssumption ==
    /\ Ids \subseteq Nat \ {0} /\ IsFiniteSet(Ids) /\ Old \subseteq Ids /\ Poison \subseteq Ids
    /\ {PageSize, CyclePages, AutoBatch} \subseteq Nat \ {0}
    /\ {HeadPages, Threshold, MaxFlips, MaxRequests, MaxFaults} \subseteq Nat

Runners == {"loop", "request"}

VARIABLES
    archive,            \* the version of each message; 0: not there yet
    late,               \* history: messages stored below one that was there
    state,              \* the walk's watermark: marker, page to resume, candidate
    records,            \* the table: version, stamp of the graph
    told,               \* how many episodes the graph has of each version
    run,                \* what each runner is doing
    requests, faults    \* counters for the bounds

source == <<archive, late>>
vars == <<source, state, records, told, run, requests, faults>>

Nothing == [m \in Ids |-> 0]
Idle == [pc |-> "idle", marker |-> 0, page |-> 0, pages |-> 0, newest |-> 0,
         staged |-> Nothing, todo |-> {}, budget |-> 0]

Init ==
    /\ archive = [m \in Ids |-> IF m \in Old THEN 1 ELSE 0] /\ late = {}
    /\ state = [marker |-> 0, page |-> 1, candidate |-> 0]
    /\ records = [m \in Ids |-> [v |-> 0, stamped |-> FALSE]]
    /\ told = [m \in Ids |-> <<0, 0>>]
    /\ run = [r \in Runners |-> Idle] /\ requests = 0 /\ faults = 0

Archived == {m \in Ids : archive[m] # 0}
Pending == {m \in Ids : records[m].v # 0 /\ ~records[m].stamped}

Becomes(r, next) == run' = [run EXCEPT ![r] = next]

-----------------------------------------------------------------------------
(***************************************************************************)
(* The mail service.                                                       *)
(***************************************************************************)
Arrive(m) ==
    /\ archive[m] = 0 /\ archive' = [archive EXCEPT ![m] = 1]
    /\ late' = IF \E n \in Archived : n > m THEN late \cup {m} ELSE late
    /\ UNCHANGED <<state, records, told, run, requests, faults>>

Flip(m) ==
    /\ archive[m] = 1 /\ Cardinality({n \in Ids : archive[n] = 2}) < MaxFlips
    /\ archive' = [archive EXCEPT ![m] = 2]
    /\ UNCHANGED <<late, state, records, told, run, requests, faults>>

\* mcp_list_messages: page p of the archive, newest first.
Newer(m) == Cardinality({n \in Archived : n > m})

Page(p) == {m \in Archived : Newer(m) >= (p - 1) * PageSize /\ Newer(m) < p * PageSize}

-----------------------------------------------------------------------------
(***************************************************************************)
(* A run begins when it has the lock.  The walk of a backfill resumes, an  *)
(* incremental one starts at the head.                                     *)
(***************************************************************************)
\* Mutant: runs are not kept apart.
LockIgnored == TRUE

LockFree == \A r \in Runners : run[r].pc \in {"idle", "gate", "again"}

Begin(r) ==
    /\ run[r].pc = "idle" /\ LockFree
    /\ r = "request" => requests < MaxRequests
    /\ requests' = IF r = "request" THEN requests + 1 ELSE requests
    /\ Becomes(r, [Idle EXCEPT !.pc = "walk", !.marker = state.marker, !.newest = state.candidate,
                               !.page = IF state.marker = 0 THEN state.page ELSE 1,
                               !.budget = IF r = "loop" THEN AutoBatch ELSE 0])
    /\ UNCHANGED <<source, state, records, told, faults>>

-----------------------------------------------------------------------------
(***************************************************************************)
(* _walk_account.  Rows and watermark are committed when the walk is over. *)
(***************************************************************************)
Items(r) == Page(run[r].page)

Staged(r) == [m \in Ids |-> IF m \in Items(r) THEN archive[m] ELSE run[r].staged[m]]

Newest(r) == Max(Items(r) \cup {run[r].newest})

\* Mutant: the walk stops at the first message older than the marker.
PastMarker(r) ==
    \/ Items(r) = {}
    \/ run[r].marker # 0 /\ \E m \in Items(r) : m < run[r].marker

Completed(r) ==
    \/ Items(r) = {}
    \/ /\ run[r].marker # 0 /\ \E m \in Items(r) : m < run[r].marker
       /\ run[r].page >= HeadPages

Capped(r) == run[r].pages + 1 >= CyclePages

\* What the walk returns: only one that was completed moves the marker.
Watermark(r) ==
    IF Completed(r)
    THEN [marker |-> IF Newest(r) = 0 THEN run[r].marker ELSE Newest(r), page |-> 1, candidate |-> 0]
    ELSE [marker |-> run[r].marker, candidate |-> Newest(r),
          page |-> IF run[r].marker = 0 THEN run[r].page + 1 ELSE 1]

\* _upsert_message: a record that changed will be distilled again.
Upserted(staged) ==
    [m \in Ids |-> IF staged[m] \in {0, records[m].v} THEN records[m]
                   ELSE [v |-> staged[m], stamped |-> FALSE]]

WalkOn(r) ==
    /\ run[r].pc = "walk" /\ ~Completed(r) /\ ~Capped(r)
    /\ Becomes(r, [run[r] EXCEPT !.staged = Staged(r), !.newest = Newest(r),
                                 !.page = @ + 1, !.pages = @ + 1])
    /\ UNCHANGED <<source, state, records, told, requests, faults>>

WalkEnds(r) ==
    /\ run[r].pc = "walk" /\ (Completed(r) \/ Capped(r))
    /\ records' = Upserted(Staged(r)) /\ state' = Watermark(r)
    /\ Becomes(r, [Idle EXCEPT !.pc = "embed", !.budget = run[r].budget])
    /\ UNCHANGED <<source, told, requests, faults>>

Fault == faults < MaxFaults /\ faults' = faults + 1

\* A page cannot be had: what was staged is rolled back, and the run goes on.
WalkFails(r) ==
    /\ run[r].pc = "walk" /\ Fault
    /\ Becomes(r, [Idle EXCEPT !.pc = "embed", !.budget = run[r].budget])
    /\ UNCHANGED <<source, state, records, told, requests>>

-----------------------------------------------------------------------------
(***************************************************************************)
(* The embedding pass (its vectors are left out) and the graph pass.       *)
(***************************************************************************)
Embedded(r) ==
    /\ run[r].pc = "embed" /\ Becomes(r, [run[r] EXCEPT !.pc = "graph"])
    /\ UNCHANGED <<source, state, records, told, requests, faults>>

\* An error of the embedding API ends the run.
EmbedFails(r) ==
    /\ run[r].pc = "embed" /\ Fault /\ Becomes(r, Idle)
    /\ UNCHANGED <<source, state, records, told, requests>>

\* The first of the two runs of a request distils nothing and asks then.
Over(r) == IF r = "request" /\ run[r].budget = 0 THEN [Idle EXCEPT !.pc = "gate"] ELSE Idle

Guarded(r) == r = "loop" /\ Cardinality(Pending) > Threshold

Skip(r) ==
    /\ run[r].pc = "graph" /\ (Pending = {} \/ Guarded(r) \/ run[r].budget = 0)
    /\ Becomes(r, Over(r))
    /\ UNCHANGED <<source, state, records, told, requests, faults>>

\* The oldest records that are not stamped, as many as the budget allows.
Oldest(budget) == {m \in Pending : Cardinality({n \in Pending : n < m}) < budget}

Select(r) ==
    /\ run[r].pc = "graph" /\ Pending # {} /\ ~Guarded(r) /\ run[r].budget > 0
    /\ Becomes(r, [run[r] EXCEPT !.pc = "distil", !.todo = Oldest(run[r].budget)])
    /\ UNCHANGED <<source, state, records, told, requests, faults>>

\* Records are taken one by one, the oldest first.
First(r) == Min(run[r].todo)
Rest(r) == run[r].todo \ {First(r)}

Doing(r, pc) == run[r].pc = pc /\ run[r].todo # {}

Distil(r) ==
    /\ Doing(r, "distil") /\ First(r) \notin Poison
    /\ told' = [told EXCEPT ![First(r)][records[First(r)].v] = @ + 1]
    /\ Becomes(r, [run[r] EXCEPT !.pc = "stamp"])
    /\ UNCHANGED <<source, state, records, requests, faults>>

\* One bad episode does not stop the pass.
DistilFails(r) ==
    /\ Doing(r, "distil") /\ First(r) \in Poison
    /\ Becomes(r, [run[r] EXCEPT !.todo = Rest(r)])
    /\ UNCHANGED <<source, state, records, told, requests, faults>>

Stamp(r) ==
    /\ Doing(r, "stamp")
    /\ records' = [records EXCEPT ![First(r)].stamped = TRUE]
    /\ Becomes(r, [run[r] EXCEPT !.pc = "distil", !.todo = Rest(r)])
    /\ UNCHANGED <<source, state, told, requests, faults>>

PassOver(r) ==
    /\ run[r].pc = "distil" /\ run[r].todo = {} /\ Becomes(r, Idle)
    /\ UNCHANGED <<source, state, records, told, requests, faults>>

-----------------------------------------------------------------------------
(***************************************************************************)
(* The gate of the sync route: a backlog over the threshold is only        *)
(* distilled when the caller confirmed it.                                 *)
(***************************************************************************)
Gate(r) ==
    /\ run[r].pc = "gate"
    /\ \E confirmed \in BOOLEAN :
        Becomes(r, IF Pending # {} /\ (Cardinality(Pending) <= Threshold \/ confirmed)
                   THEN [Idle EXCEPT !.pc = "again", !.budget = Cardinality(Pending)]
                   ELSE Idle)
    /\ UNCHANGED <<source, state, records, told, requests, faults>>

Again(r) ==
    /\ run[r].pc = "again" /\ LockFree
    /\ Becomes(r, [run[r] EXCEPT !.pc = "graph"])
    /\ UNCHANGED <<source, state, records, told, requests, faults>>

\* Both runners are tasks of one process.
Crash ==
    /\ \E r \in Runners : run[r].pc # "idle"
    /\ Fault /\ run' = [r \in Runners |-> Idle]
    /\ UNCHANGED <<source, state, records, told, requests>>

-----------------------------------------------------------------------------
Step(r) ==
    \/ WalkOn(r) \/ WalkEnds(r) \/ Embedded(r) \/ Skip(r) \/ Select(r)
    \/ Distil(r) \/ DistilFails(r) \/ Stamp(r) \/ PassOver(r) \/ Gate(r) \/ Again(r)

Next ==
    \/ \E m \in Ids : Arrive(m) \/ Flip(m)
    \/ \E r \in Runners : Begin(r) \/ Step(r) \/ WalkFails(r) \/ EmbedFails(r)
    \/ Crash

Spec == Init /\ [][Next]_vars

\* Runs end and the loop goes on; nobody has to ask.
Fairness == WF_vars(Begin("loop") \/ \E r \in Runners : Step(r))

-----------------------------------------------------------------------------
TypeOK ==
    /\ archive \in [Ids -> 0..2] /\ late \subseteq Ids
    /\ state \in [marker : Ids \cup {0}, page : Nat \ {0}, candidate : Ids \cup {0}]
    /\ records \in [Ids -> [v : 0..2, stamped : BOOLEAN]]
    /\ told \in [Ids -> [1..2 -> Nat]]
    /\ run \in [Runners -> [pc : {"idle", "walk", "embed", "graph", "distil", "stamp",
                                  "gate", "again"},
                            marker : Ids \cup {0}, page : Nat, pages : 0..CyclePages,
                            newest : Ids \cup {0}, staged : [Ids -> 0..2], todo : SUBSET Ids,
                            budget : Nat]]
    /\ requests \in 0..MaxRequests /\ faults \in 0..MaxFaults

(***************************************************************************)
(* The marker never moves past a message that has not been read, although  *)
(* pages shift as mail arrives between two calls and a backfill is spread  *)
(* over runs that fail (a capped cycle never skips a gap).  Mail that the  *)
(* mail service stored below what was there is excepted.                   *)
(***************************************************************************)
MarkerSkipsNothing ==
    \A m \in Archived \ late : m <= state.marker => records[m].v # 0

(***************************************************************************)
(* An episode is paid for: no version of a record has two, but for one     *)
(* more with every crash between an episode and its stamp.                 *)
(***************************************************************************)
Repeats == UNION {{m} \X {v} \X (2..told[m][v]) : m \in Ids, v \in 1..2}

PaidOnce == Cardinality(Repeats) <= faults

\* A stamped record is one the graph has been told of as it is.
StampMeansTold == \A m \in Ids : records[m].stamped => told[m][records[m].v] > 0

(***************************************************************************)
(* Stamps and episodes agree: what is stamped is known to the graph in its *)
(* present version, and what the graph knows is not paid for again.        *)
(***************************************************************************)
EpisodesMatchStamps == TypeOK /\ StampMeansTold /\ PaidOnce

(***************************************************************************)
(* A flip of one of the newest messages is found, although they are older  *)
(* than the marker, unless newer mail pushes it out of those pages.        *)
(***************************************************************************)
NearHead(m) == Newer(m) < HeadPages * PageSize

FlipsNearTheHeadAreSeen ==
    \A m \in Ids : <>[](archive[m] = 2 => records[m].v = 2) \/ <>[]~NearHead(m)

(***************************************************************************)
(* Mail becomes knowledge, whatever fails for once.  Four kinds are left   *)
(* out for good: what is stored below what was there, what waits in a      *)
(* backlog over the threshold, what queues behind as many records as one   *)
(* pass takes that fail each time, and what a burst buries deeper than a   *)
(* cycle reads before the marker has come up to it.                        *)
(***************************************************************************)
Wedged(m) == Cardinality({n \in Pending \cap Poison : n < m}) >= AutoBatch
Buried(m) == state.marker # 0 /\ m > state.marker /\ Newer(m) >= CyclePages * PageSize

LeftOut(m) == m \in late \/ Cardinality(Pending) > Threshold \/ Wedged(m) \/ Buried(m)

ArrivalsBecomeKnowledge ==
    \A m \in Ids \ Poison : <>[](archive[m] # 0 => records[m].stamped) \/ <>[]LeftOut(m)

\* Stated by sync_mail_messages: "Sync every account's FULL archive".
WholeArchiveIsKnown == state.marker # 0 => \A m \in Archived : m <= state.marker => records[m].v # 0

\* What happens in the archive reaches the knowledge base.
ArchiveBecomesKnowledge == FlipsNearTheHeadAreSeen /\ ArrivalsBecomeKnowledge

(***************************************************************************)
(* The state of the sync is what it stands for: no message below the       *)
(* marker is unread, and what is stamped is in the graph and paid once.    *)
(***************************************************************************)
SyncStateIsTrue == MarkerSkipsNothing /\ EpisodesMatchStamps
=============================================================================
