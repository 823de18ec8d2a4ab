--------------------------- MODULE GroupedSearch ---------------------------
(***************************************************************************)
(* Grouped similarity searches: the best hits of each of several companies *)
(* in one request.  The leads service fans a request out, one search per   *)
(* company, under a semaphore and behind the gate of Milvus; the search    *)
(* service relays what comes back and saves a history row at the end.      *)
(*                                                                         *)
(* A streamed request takes one of a few slots, tells each company as it   *)
(* is through, and survives the failure of one; a plain request answers    *)
(* once, and one failure ends it.  Lines of a stream reach the relay in    *)
(* order, in the step that sends them; heartbeats are left out, and so are *)
(* the relay's bounds on what leads, which has them too, may send.         *)
(***************************************************************************)
EXTENDS MilvusGate

CONSTANTS
    Requests, Plain,    \* grouped searches, and those not streamed
    FilterOnly,         \* requests without embeds: Mongo alone
    Companies,          \* the companies of each request
    Fanout,             \* _GROUPED_FANOUT_CONCURRENCY
    Slots               \* _MAX_CONCURRENT_GROUPED_STREAMS

Workers == UNION {{r} \X Companies[r] : r \in Requests}
Others == Tasks \ Workers       \* lone queries and embedding writes

ASSUME GroupedAssumption ==
    /\ Plain \subseteq Requests /\ FilterOnly \subseteq Requests
    /\ Workers \subseteq Tasks
    /\ Fanout \in Nat \ {0} /\ Slots \in Nat \ {0}
    /\ \A r \in Requests : "none" \notin Companies[r]

VARIABLES
    slots,      \* streams that run
    permits,    \* what is left of the semaphore
    run,        \* per request: where leads is with it
    worker,     \* per company of a request: its search
    results,    \* per request: what its searches found and nobody took yet
    relay,      \* per request: where search is with it
    browser,    \* requests whose user still listens
    shown,      \* per request: the lines its user got
    row         \* per request: the history row

leadsVars == <<slots, permits, run, worker, results>>
relayVars == <<relay, browser, shown, row>>
groupedVars == <<gateVars, leadsVars, relayVars>>

Line(type, company) == [type |-> type, company |-> company]
Ending(type) == Line(type, "none")

GroupedInit ==
    /\ GateInit
    /\ slots = 0 /\ permits = Fanout
    /\ run = [r \in Requests |-> "new"]
    /\ worker = [w \in Workers |-> "none"]
    /\ results = [r \in Requests |-> << >>]
    /\ relay = [r \in Requests |-> "idle"]
    /\ browser = Requests
    /\ shown = [r \in Requests |-> << >>]
    /\ row = [r \in Requests |-> [saved |-> "none", hits |-> {}]]

WorkersOf(r) == {r} \X Companies[r]
AllThrough(r) == \A w \in WorkersOf(r) : worker[w] = "over"
Groups(lines) == {lines[i].company : i \in {j \in DOMAIN lines : lines[j].type = "group"}}
FoundBy(r) == Groups(IF r \in Plain THEN results[r] ELSE shown[r])

-----------------------------------------------------------------------------
(***************************************************************************)
(* The relay in search: _grouped_stream_events, and for a plain request    *)
(* _run_grouped_similarity_search.  A line of leads is shown; the one that *)
(* ends the stream well is held back until the row is saved.               *)
(***************************************************************************)
Listening(r) == relay[r] = "reading"
Show(r, line) == IF r \in browser THEN [shown EXCEPT ![r] = Append(@, line)] ELSE shown

Told(r, line) ==
    IF ~Listening(r) THEN UNCHANGED relayVars
    ELSE /\ shown' = IF line.type = "complete" THEN shown ELSE Show(r, line)
         /\ relay' = CASE line.type = "complete" -> [relay EXCEPT ![r] = "saving"]
                       [] line.type = "error" -> [relay EXCEPT ![r] = "over"]
                       [] OTHER -> relay
         /\ UNCHANGED <<browser, row>>

Post(r) ==
    /\ relay[r] = "idle"
    /\ relay' = [relay EXCEPT ![r] = "reading"] /\ run' = [run EXCEPT ![r] = "asked"]
    /\ UNCHANGED <<gateVars, slots, permits, worker, results, browser, shown, row>>

\* Mutant: the end is told before the results are saved.
SaveRowAndTell(r) ==
    /\ relay[r] = "saving"
    /\ row' = [row EXCEPT ![r].saved = "bare"]
    /\ shown' = Show(r, Ending("complete"))
    /\ relay' = [relay EXCEPT ![r] = "appending"]
    /\ UNCHANGED <<gateVars, leadsVars, browser>>

(***************************************************************************)
(* _persist_grouped_history commits the row, then its results.  It runs    *)
(* on when the user leaves.  A failure of either is told as an error; one  *)
(* of the second leaves the bare row behind.                               *)
(***************************************************************************)
SaveRow(r) ==
    /\ relay[r] = "saving"
    /\ row' = [row EXCEPT ![r].saved = "bare"]
    /\ relay' = [relay EXCEPT ![r] = "appending"]
    /\ UNCHANGED <<gateVars, leadsVars, browser, shown>>

AppendResults(r) ==
    /\ relay[r] = "appending"
    /\ row' = [row EXCEPT ![r] = [saved |-> "full", hits |-> FoundBy(r)]]
    /\ shown' = Show(r, Ending("complete"))
    /\ relay' = [relay EXCEPT ![r] = "over"]
    /\ UNCHANGED <<gateVars, leadsVars, browser>>

SaveFails(r) ==
    /\ relay[r] \in {"saving", "appending"}
    /\ shown' = Show(r, Ending("error"))
    /\ relay' = [relay EXCEPT ![r] = "over"]
    /\ UNCHANGED <<gateVars, leadsVars, browser, row>>

\* The user leaves.  Search notices for a stream, and closes that of leads.
BrowserLeaves(r) ==
    /\ r \in browser /\ relay[r] \notin {"idle", "over"}
    /\ browser' = browser \ {r}
    /\ relay' = IF Listening(r) /\ r \notin Plain THEN [relay EXCEPT ![r] = "over"] ELSE relay
    /\ UNCHANGED <<gateVars, leadsVars, shown, row>>

\* The connection to leads breaks, or a plain request takes too long.
LeadsLost(r) ==
    /\ Listening(r)
    /\ shown' = Show(r, Ending("error"))
    /\ relay' = [relay EXCEPT ![r] = "over"]
    /\ UNCHANGED <<gateVars, leadsVars, browser, row>>

-----------------------------------------------------------------------------
(***************************************************************************)
(* Leads takes a request up.  It refuses an unknown company or too large a *)
(* search, and a stream that finds every slot taken.                       *)
(***************************************************************************)
Refuse(r) ==
    /\ run[r] = "asked"
    /\ run' = [run EXCEPT ![r] = "over"]
    /\ Told(r, Ending("error"))
    /\ UNCHANGED <<gateVars, slots, permits, worker, results>>

FannedOut(r) == [w \in Workers |-> IF w \in WorkersOf(r) THEN "waiting" ELSE worker[w]]

Begin(r) ==
    /\ run[r] = "asked"
    /\ r \notin Plain => slots < Slots
    /\ slots' = IF r \in Plain THEN slots ELSE slots + 1
    /\ IF r \in FilterOnly
       THEN run' = [run EXCEPT ![r] = "running"] /\ worker' = FannedOut(r)
       ELSE run' = [run EXCEPT ![r] = "embedding"] /\ UNCHANGED worker
    /\ UNCHANGED <<gateVars, permits, results, relayVars>>

EmbedQuery(r) ==
    /\ run[r] = "embedding"
    /\ run' = [run EXCEPT ![r] = "running"] /\ worker' = FannedOut(r)
    /\ UNCHANGED <<gateVars, slots, permits, results, relayVars>>

EmbedFails(r) ==
    /\ run[r] = "embedding"
    /\ run' = [run EXCEPT ![r] = IF r \in Plain THEN "over" ELSE "closing"]
    /\ Told(r, Ending("error"))
    /\ UNCHANGED <<gateVars, slots, permits, worker, results>>

-----------------------------------------------------------------------------
(***************************************************************************)
(* The search of one company: a permit, the gate unless only Mongo is      *)
(* asked, the documents, and the permit back.                              *)
(***************************************************************************)
TakePermit(w) ==
    /\ worker[w] = "waiting" /\ permits > 0
    /\ permits' = permits - 1
    /\ worker' = [worker EXCEPT ![w] = IF w[1] \in FilterOnly THEN "reading" ELSE "searching"]
    /\ UNCHANGED <<gateVars, slots, run, results, relayVars>>

Ask(w) ==
    /\ worker[w] = "searching"
    /\ Acquire(w) \/ Enter(w)
    /\ UNCHANGED <<leadsVars, relayVars>>

Ranked(w) ==
    /\ worker[w] = "searching"
    /\ Release(w)
    /\ worker' = [worker EXCEPT ![w] = "reading"]
    /\ UNCHANGED <<slots, permits, run, results, relayVars>>

Through(w, line) ==
    /\ worker' = [worker EXCEPT ![w] = "over"] /\ permits' = permits + 1
    /\ results' = [results EXCEPT ![w[1]] = Append(@, line)]
    /\ UNCHANGED <<slots, run, relayVars>>

Read(w) ==
    /\ worker[w] = "reading"
    /\ Through(w, Line("group", w[2]))
    /\ UNCHANGED gateVars

\* A worker of a cancelled request that waits for a permit is over; one that
\* has it must still unwind.
CancelledWorkers(S) ==
    [w \in Workers |->
        IF w \notin S \/ worker[w] \in {"none", "over"} THEN worker[w]
        ELSE IF worker[w] = "waiting" THEN "over" ELSE "cancelled"]

\* One failure of a plain request ends it, and so does its caller's leaving.
GiveUp(w) ==
    /\ run' = [run EXCEPT ![w[1]] = "failing"]
    /\ worker' = [CancelledWorkers(WorkersOf(w[1])) EXCEPT ![w] = "over"]
    /\ permits' = permits + 1
    /\ UNCHANGED <<slots, results, relayVars>>

SearchFails(w) ==
    /\ w[1] \notin Plain /\ worker[w] \in {"searching", "reading"}
    /\ Through(w, Line("item_error", w[2]))
    /\ IF worker[w] = "searching" THEN Release(w) ELSE UNCHANGED gateVars

PlainSearchFails(w) ==
    /\ w[1] \in Plain /\ worker[w] \in {"searching", "reading"}
    /\ GiveUp(w)
    /\ LET ph == Cancelled(WorkersOf(w[1]) \ {w}) IN
       IF worker[w] = "searching"
       THEN /\ phase[w] = "inside" /\ thread' = thread \ {w}
            /\ WakeNext(waiters, [ph EXCEPT ![w] = "away"])
       ELSE phase' = ph /\ UNCHANGED <<held, waiters, skips, thread>>

CallerIsGone(w) ==
    /\ w[1] \in Plain /\ worker[w] = "searching" /\ phase[w] = "away"
    /\ ~Listening(w[1])
    /\ GiveUp(w)
    /\ phase' = Cancelled(WorkersOf(w[1]))
    /\ UNCHANGED <<held, waiters, skips, thread>>

Unwind(w) ==
    /\ worker[w] = "cancelled"
    /\ IF phase[w] = "away" THEN UNCHANGED gateVars ELSE CleanUp(w)
    /\ worker' = [worker EXCEPT ![w] = "over"] /\ permits' = permits + 1
    /\ UNCHANGED <<slots, run, results, relayVars>>

Stray(w) == ThreadEnds(w) /\ UNCHANGED <<leadsVars, relayVars>>

-----------------------------------------------------------------------------
(***************************************************************************)
(* The answer of leads.  A stream tells each company as it is through,     *)
(* then its end; when its reader has hung up it cancels what is under way. *)
(***************************************************************************)
Emit(r) ==
    /\ run[r] = "running" /\ r \notin Plain /\ results[r] # << >>
    /\ results' = [results EXCEPT ![r] = Tail(@)]
    /\ Told(r, Head(results[r]))
    /\ UNCHANGED <<gateVars, slots, permits, run, worker>>

Complete(r) ==
    /\ run[r] = "running" /\ AllThrough(r)
    /\ r \in Plain \/ results[r] = << >>
    /\ Told(r, Ending("complete"))
    /\ run' = [run EXCEPT ![r] = IF r \in Plain THEN "over" ELSE "closing"]
    /\ UNCHANGED <<gateVars, slots, permits, worker, results>>

Answer503(r) ==
    /\ run[r] = "failing" /\ AllThrough(r)
    /\ Told(r, Ending("error"))
    /\ run' = [run EXCEPT ![r] = "over"]
    /\ UNCHANGED <<gateVars, slots, permits, worker, results>>

HangUp(r) ==
    /\ r \notin Plain /\ ~Listening(r) /\ run[r] \in {"embedding", "running"}
    /\ run' = [run EXCEPT ![r] = "closing"]
    /\ worker' = CancelledWorkers(WorkersOf(r))
    /\ phase' = Cancelled(WorkersOf(r))
    /\ UNCHANGED <<held, waiters, skips, thread, slots, permits, results, relayVars>>

CloseStream(r) ==
    /\ run[r] = "closing"
    /\ run' = [run EXCEPT ![r] = "over"] /\ slots' = slots - 1
    /\ UNCHANGED <<gateVars, permits, worker, results, relayVars>>

\* Lone queries and embedding writes, for ever.
OtherStep(t) ==
    /\ Acquire(t) \/ Enter(t) \/ Release(t)
    /\ UNCHANGED <<leadsVars, relayVars>>

-----------------------------------------------------------------------------
WorkerStep(w) ==
    \/ TakePermit(w) \/ Ask(w) \/ Ranked(w) \/ Read(w)
    \/ SearchFails(w) \/ PlainSearchFails(w) \/ CallerIsGone(w) \/ Unwind(w)

RequestStep(r) ==
    \/ Refuse(r) \/ Begin(r) \/ EmbedQuery(r) \/ EmbedFails(r)
    \/ Emit(r) \/ Complete(r) \/ Answer503(r) \/ HangUp(r) \/ CloseStream(r)

RelayStep(r) == SaveRow(r) \/ AppendResults(r) \/ SaveFails(r)

GroupedNext ==
    \/ \E r \in Requests :
        Post(r) \/ RequestStep(r) \/ RelayStep(r) \/ BrowserLeaves(r) \/ LeadsLost(r)
    \/ \E w \in Workers : WorkerStep(w) \/ Stray(w)
    \/ \E t \in Others : OtherStep(t)

(***************************************************************************)
(* The event loop resumes its tasks, and every call returns.  Of the steps *)
(* of requests there are finitely many, so they need no fairness between   *)
(* them; the others never stop, and each gets its turn.                    *)
(***************************************************************************)
RequestSteps ==
    \/ \E r \in Requests : RequestStep(r) \/ RelayStep(r)
    \/ \E w \in Workers : WorkerStep(w)

GroupedFairness ==
    /\ WF_groupedVars(RequestSteps)
    /\ \A t \in Others : WF_groupedVars(OtherStep(t))

GroupedSpec == GroupedInit /\ [][GroupedNext]_groupedVars /\ GroupedFairness

-----------------------------------------------------------------------------
GroupedTypeOK ==
    /\ GateOK
    /\ slots \in 0..Slots /\ permits \in 0..Fanout
    /\ run \in [Requests -> {"new", "asked", "embedding", "running", "closing", "failing", "over"}]
    /\ worker \in [Workers -> {"none", "waiting", "searching", "reading", "cancelled", "over"}]
    /\ relay \in [Requests -> {"idle", "reading", "saving", "appending", "over"}]
    /\ browser \subseteq Requests

Terminal(line) == line.type \in {"complete", "error"}

(***************************************************************************)
(* The two limits: a slot is held by each stream under way and a permit by *)
(* each search under way, and by nothing else, whoever leaves and whatever *)
(* is cancelled.                                                           *)
(***************************************************************************)
LimitsAreKept ==
    /\ slots = Cardinality({r \in Requests \ Plain :
                                run[r] \in {"embedding", "running", "closing"}})
    /\ permits = Fanout - Cardinality({w \in Workers :
                                worker[w] \in {"searching", "reading", "cancelled"}})

(***************************************************************************)
(* A user hears of each company once at most and of one end at most, last. *)
(* "complete" comes with a row that holds all that was found, and no row   *)
(* is begun for a search that did not get through with every company.      *)
(* Meanwhile both limits are kept.                                         *)
(***************************************************************************)
GroupsAreTold ==
    /\ GroupedTypeOK /\ LimitsAreKept
    /\ \A r \in Requests :
        LET lines == shown[r] IN
        /\ \A i, j \in DOMAIN lines :
            i < j => ~Terminal(lines[i]) /\ lines[i].company # lines[j].company
        /\ (\E i \in DOMAIN lines : lines[i].type = "complete")
            => row[r].saved = "full" /\ row[r].hits = FoundBy(r)
        /\ row[r].saved # "none" => AllThrough(r)
        /\ row[r].saved # "none" /\ r \notin Plain
            => \A c \in Companies[r] : \E i \in DOMAIN lines : lines[i].company = c

(***************************************************************************)
(* Every request is answered and let go of, and every lone task gets out   *)
(* of the queue of the gate, though lone queries, which go first, never    *)
(* stop.                                                                   *)
(***************************************************************************)
EverybodyIsServed ==
    /\ <>[](\A r \in Requests : relay[r] = "idle" \/ (run[r] = "over" /\ relay[r] = "over"))
    /\ \A t \in Others : []<>(phase[t] # "queued")

\* Grouped searches are told the truth, over a gate that is sound and fair.
GroupedSearchHolds == GateIsFair /\ GroupsAreTold
=============================================================================
