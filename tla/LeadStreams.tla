---------------------------- MODULE LeadStreams ----------------------------
(***************************************************************************)
(* A streamed search of the leads service: one job walks the pages of      *)
(* Apollo and stores them, its sibling embeds them.  A bounded queue links *)
(* the two, so that a slow embedding holds the walk.  Both publish events  *)
(* that readers replay and follow; both can be paused and cancelled.       *)
(*                                                                         *)
(* The coroutines share one event loop: a step is what runs between two    *)
(* suspensions.  Conditions and locks of stream_jobs.py are never held     *)
(* across one, so publish, finish, cancel_stream and set_stream_paused run *)
(* in one step.  A batch is the page it was fetched with; a chunk of it    *)
(* holds one lead.  An error of the walk is any but Apollo's page cap.     *)
(***************************************************************************)
EXTENDS Integers, Sequences, FiniteSets, FiniteSetsExt, SequencesExt

CONSTANTS
    Pages,              \* bound: pages Apollo has, or may be asked for
    QueuePages,         \* ingest_embed_queue_max_pages
    Concurrency,        \* embed_batch_concurrency
    Chunks,             \* bound: chunks in a batch
    MaxProgress,        \* _MAX_PROGRESS_EVENTS
    MaxControls         \* bound: pauses, resumes and cancels

ASSUME StreamsAssumption ==
    /\ Pages \in Nat \ {0} /\ QueuePages \in Nat \ {0} /\ Concurrency \in Nat \ {0}
    /\ Chunks \in Nat \ {0} /\ MaxProgress \in Nat \ {0} /\ MaxControls \in Nat

VARIABLES
    job,        \* per stream: the StreamJob, its flags and its readers
    log,        \* per stream: every event published
    dropped,    \* per stream: positions of log trimmed from its history
    emb,        \* the EmbeddingStreamState, while it is registered
    walk,       \* the coroutine _ingest
    queue,      \* pages for the embedding, and the sentinel
    batch,      \* per page: its task, and the chunks it is through
    consumer,   \* the coroutine _embed_consumer: taking, joining, over
    controls    \* bound: controls so far

ingestVars == <<walk, queue>>
embedVars == <<emb, batch, consumer>>
streamVars == <<job, log, dropped, emb, walk, queue, batch, consumer, controls>>

Streams == {"ingest", "embedding"}
PageNumbers == 1..Pages
Sentinel == 0
Lossy == {"progress", "throttled"}
Ends == {"complete", "error"}
Types == Lossy \cup Ends \cup {"ids", "paused", "resumed", "embedding_detached", "item_error"}

Event(type, page) == [type |-> type, page |-> page]
Note(type) == Event(type, 0)

Init ==
    /\ job = [s \in Streams |->
                [status |-> IF s = "ingest" THEN "pending" ELSE "running",
                 cancelled |-> FALSE, paused |-> FALSE, readers |-> 0, gone |-> FALSE]]
    /\ log = [s \in Streams |-> << >>]
    /\ dropped = [s \in Streams |-> {}]
    /\ emb = [live |-> TRUE, accepting |-> TRUE, paused |-> FALSE, total |-> 0,
              done |-> 0, failed |-> 0, inFlight |-> 0]
    /\ walk = [pc |-> "idle", page |-> 1, last |-> FALSE, detached |-> FALSE]
    /\ queue = << >>
    /\ batch = [p \in PageNumbers |-> [pc |-> "none", chunk |-> 0]]
    /\ consumer = "taking"
    /\ controls = 0

-----------------------------------------------------------------------------
(***************************************************************************)
(* StreamJobManager: publish and finish, trimming, expiry.                 *)
(***************************************************************************)
Kept(s) == (1..Len(log[s])) \ dropped[s]

\* Mutant: the oldest event goes, of whatever type.
TrimmedAny(events, gone) ==
    LET kept == (1..Len(events)) \ gone IN
    IF Cardinality(kept) > MaxProgress THEN gone \cup {Min(kept)} ELSE gone

\* _trim_progress after each append: the oldest lossy event goes.
Trimmed(events, gone) ==
    LET lossy == {i \in (1..Len(events)) \ gone : events[i].type \in Lossy} IN
    IF Cardinality(lossy) > MaxProgress THEN gone \cup {Min(lossy)} ELSE gone

\* publish, of a job that was not dropped; at most one event of a step is lossy.
Publish(s, events) ==
    IF job[s].gone THEN UNCHANGED <<log, dropped>>
    ELSE /\ log' = [log EXCEPT ![s] = @ \o events]
         /\ dropped' = [dropped EXCEPT ![s] = Trimmed(log[s] \o events, @)]

Finished(s, status) == IF job[s].gone THEN job ELSE [job EXCEPT ![s].status = status]

Over(s) == job[s].status \in Ends

\* _is_expired, once the time is up: a running job never is.
Expirable(s) == job[s].readers = 0 /\ job[s].status # "running"

Expire(s) ==
    /\ ~job[s].gone /\ Expirable(s)
    /\ job' = [job EXCEPT ![s].gone = TRUE]
    /\ UNCHANGED <<log, dropped, ingestVars, embedVars>>

-----------------------------------------------------------------------------
(***************************************************************************)
(* The walk: run_paged_search_stream, and what _ingest puts around it.  A  *)
(* step starts from the walk w and the queue q its first lines left.       *)
(***************************************************************************)
Full(q) == Len(q) >= QueuePages

\* The sentinel is put at the end, at once or when there is room.
Close(w, q) ==
    /\ walk' = [w EXCEPT !.pc = IF Full(q) THEN "closing" ELSE "over"]
    /\ queue' = IF Full(q) THEN q ELSE Append(q, Sentinel)

EndWalk(w, q, events, type) ==
    /\ Publish("ingest", Append(events, Note(type)))
    /\ job' = Finished("ingest", type)
    /\ Close(w, q)

\* The top of the loop for the page of w.
AskForPage(w, q, events) ==
    /\ Publish("ingest", events)
    /\ job' = [job EXCEPT !["ingest"].status = "running"]
    /\ queue' = q
    /\ walk' = [w EXCEPT !.pc = IF job["ingest"].paused THEN "held" ELSE "fetching"]

StartWalk ==
    /\ walk.pc = "idle"
    /\ IF job["ingest"].gone THEN Close(walk, queue) /\ UNCHANGED <<job, log, dropped>>
       ELSE IF job["ingest"].cancelled THEN EndWalk(walk, queue, << >>, "complete")
       ELSE AskForPage(walk, queue, << >>)
    /\ UNCHANGED embedVars

\* A resume or a cancel woke the walk; whether it is paused again is not asked.
WakeWalk ==
    /\ walk.pc = "woken"
    /\ IF job["ingest"].cancelled
       THEN EndWalk(walk, queue, << >>, "complete")
       ELSE walk' = [walk EXCEPT !.pc = "fetching"] /\ UNCHANGED <<job, log, dropped, queue>>
    /\ UNCHANGED embedVars

\* Behind a page: its ids are published, and the walk ends or asks for the next.
Go(w, q, extra) ==
    LET events == Append(extra, Event("ids", w.page)) IN
    IF job["ingest"].cancelled \/ w.last
    THEN EndWalk(w, q, events, "complete")
    ELSE AskForPage([w EXCEPT !.page = @ + 1], q, events)

\* Mutant: the walk does not wait for room.
OfferUnbounded(w) ==
    \/ emb.live /\ Go(w, Append(queue, w.page), << >>)
    \/ ~emb.live /\ Go([w EXCEPT !.detached = TRUE], queue, << >>)

(***************************************************************************)
(* One round of _enqueue: the batch is queued, left out because one of the *)
(* jobs was cancelled, or kept for the next round.  That the embedding is  *)
(* gone is announced once; a walk that waits says so now and then (bound:  *)
(* once for each wait).                                                    *)
(***************************************************************************)
Offer(w) ==
    IF job["ingest"].cancelled THEN Go(w, queue, << >>)
    ELSE IF ~emb.live
    THEN Go([w EXCEPT !.detached = TRUE], queue,
            IF w.detached THEN << >> ELSE <<Note("embedding_detached")>>)
    ELSE IF ~Full(queue) THEN Go(w, Append(queue, w.page), << >>)
    ELSE /\ walk' = [w EXCEPT !.pc = "throttled"]
         /\ UNCHANGED <<job, log, dropped, queue>>

Poll == walk.pc = "throttled" /\ Offer(walk) /\ UNCHANGED embedVars

Throttle ==
    /\ walk.pc = "throttled" /\ emb.live /\ ~job["ingest"].cancelled /\ Full(queue)
    /\ log["ingest"] = << >> \/ Last(log["ingest"]).type # "throttled"
    /\ Publish("ingest", <<Note("throttled")>>)
    /\ UNCHANGED <<job, ingestVars, embedVars>>

\* A page of leads; the last one if it is short, or the cap is reached.
FetchPage(last) ==
    /\ walk.pc = "fetching"
    /\ walk.page = Pages => last
    /\ IF job["ingest"].cancelled
       THEN EndWalk(walk, queue, << >>, "complete")
       ELSE Offer([walk EXCEPT !.last = last])
    /\ UNCHANGED embedVars

\* An empty page or the page cap of Apollo ends the walk well, an error does not.
FetchNothing(type) ==
    /\ walk.pc = "fetching"
    /\ EndWalk(walk, queue, << >>, type)
    /\ UNCHANGED embedVars

CloseQueue ==
    /\ walk.pc = "closing" /\ ~Full(queue)
    /\ Close(walk, queue)
    /\ UNCHANGED <<job, log, dropped, embedVars>>

-----------------------------------------------------------------------------
(***************************************************************************)
(* The embedding: _embed_consumer and schedule_embedding_batch.            *)
(***************************************************************************)
Busy == {p \in PageNumbers : batch[p].pc \in {"task", "held", "woken", "embedding"}}

\* A slot is reserved before a batch is pulled.
SlotFree == Cardinality(Busy) < Concurrency

TakeBatch ==
    /\ consumer = "taking" /\ SlotFree /\ queue # << >>
    /\ queue' = Tail(queue)
    /\ IF Head(queue) = Sentinel
       THEN consumer' = "joining" /\ UNCHANGED batch
       ELSE /\ batch' = [batch EXCEPT ![Head(queue)].pc = IF emb.live THEN "task" ELSE "over"]
            /\ UNCHANGED consumer
    /\ UNCHANGED <<job, log, dropped, emb, walk>>

\* _maybe_finish_embedding, with what the caller left of the state.
Settle(e) ==
    IF e.accepting \/ e.inFlight > 0
    THEN emb' = e /\ UNCHANGED <<job, log, dropped>>
    ELSE /\ emb' = [e EXCEPT !.live = FALSE]
         /\ Publish("embedding", <<Note("complete")>>)
         /\ job' = Finished("embedding", "complete")

\* All tasks are over: close_embedding_stream.
Join ==
    /\ consumer = "joining" /\ Busy = {}
    /\ consumer' = "over"
    /\ IF emb.live THEN Settle([emb EXCEPT !.accepting = FALSE])
       ELSE UNCHANGED <<emb, job, log, dropped>>
    /\ UNCHANGED <<walk, queue, batch>>

\* Before each chunk: hold while paused.
AtChunk(p, c) == [batch EXCEPT ![p] = [pc |-> IF emb.paused THEN "held" ELSE "embedding", chunk |-> c]]
Done(p) == [batch EXCEPT ![p].pc = "over"]

StartBatch(p) ==
    /\ batch[p].pc = "task"
    /\ IF emb.live
       THEN /\ emb' = [emb EXCEPT !.total = @ + Chunks, !.inFlight = @ + 1]
            /\ Publish("embedding", <<Note("progress")>>)
            /\ batch' = AtChunk(p, 0)
       ELSE batch' = Done(p) /\ UNCHANGED <<emb, log, dropped>>
    /\ UNCHANGED <<job, ingestVars, consumer>>

WakeBatch(p) ==
    /\ batch[p].pc = "woken"
    /\ batch' = IF emb.live THEN [batch EXCEPT ![p].pc = "embedding"] ELSE Done(p)
    /\ UNCHANGED <<job, log, dropped, emb, ingestVars, consumer>>

\* What a chunk adds: its lead was embedded, or rightly skipped, or it failed.
Counted(e, ok) == IF ok THEN [e EXCEPT !.done = @ + 1] ELSE [e EXCEPT !.failed = @ + 1]

(***************************************************************************)
(* embed_batch returned, or raised.  The next chunk, or the end of the     *)
(* batch, follows at once.  The stream is closed only behind all of its    *)
(* tasks, so the end of a batch never finds it closed.                     *)
(***************************************************************************)
Embedded(p, ok) ==
    /\ batch[p].pc = "embedding"
    /\ IF emb.live
       THEN LET more == batch[p].chunk + 1 < Chunks IN
            /\ emb' = [Counted(emb, ok) EXCEPT !.inFlight = IF more THEN @ ELSE @ - 1]
            /\ batch' = IF more THEN AtChunk(p, batch[p].chunk + 1) ELSE Done(p)
            /\ Publish("embedding", <<Note(IF ok THEN "progress" ELSE "item_error")>>)
       ELSE batch' = Done(p) /\ UNCHANGED <<emb, log, dropped>>
    /\ UNCHANGED <<job, ingestVars, consumer>>

-----------------------------------------------------------------------------
(***************************************************************************)
(* cancel_stream and set_stream_paused.  An embedding is found by its      *)
(* state; a stream that is over, or was dropped, is not found.             *)
(***************************************************************************)
\* The event was set: chunks that were held go on.
Woken(b) == [p \in PageNumbers |-> IF b[p].pc = "held" THEN [b[p] EXCEPT !.pc = "woken"] ELSE b[p]]

Active(s) == IF s = "embedding" THEN emb.live
             ELSE ~job[s].gone /\ ~Over(s) /\ ~job[s].cancelled

\* Mutant: the cancel itself tells the end of the ingest.
CancelIngestTold ==
    /\ Active("ingest")
    /\ job' = [job EXCEPT !["ingest"].cancelled = TRUE]
    /\ walk' = IF walk.pc = "held" THEN [walk EXCEPT !.pc = "woken"] ELSE walk
    /\ Publish("ingest", <<Note("complete")>>)
    /\ UNCHANGED <<queue, embedVars>>

CancelIngest ==
    /\ Active("ingest")
    /\ job' = [job EXCEPT !["ingest"].cancelled = TRUE]
    /\ walk' = IF walk.pc = "held" THEN [walk EXCEPT !.pc = "woken"] ELSE walk
    /\ UNCHANGED <<log, dropped, queue, embedVars>>

CancelEmbedding ==
    /\ Active("embedding")
    /\ Publish("embedding", <<Note("complete")>>)
    /\ job' = Finished("embedding", "complete")
    /\ emb' = [emb EXCEPT !.live = FALSE]
    /\ batch' = Woken(batch)
    /\ UNCHANGED <<ingestVars, consumer>>

Cancel(s) == IF s = "ingest" THEN CancelIngest ELSE CancelEmbedding

SetPaused(s, paused) ==
    /\ Active(s)
    /\ Publish(s, <<Note(IF paused THEN "paused" ELSE "resumed")>>)
    /\ IF s = "ingest"
       THEN /\ job' = [job EXCEPT ![s].paused = paused]
            /\ walk' = IF ~paused /\ walk.pc = "held" THEN [walk EXCEPT !.pc = "woken"] ELSE walk
            /\ UNCHANGED <<emb, batch>>
       ELSE /\ emb' = [emb EXCEPT !.paused = paused]
            /\ batch' = IF paused THEN batch ELSE Woken(batch)
            /\ UNCHANGED <<job, walk>>
    /\ UNCHANGED <<queue, consumer>>

\* stream_status, the word search reads.
Label(s, j, e) ==
    IF s = "embedding" /\ e.live THEN IF e.paused THEN "paused" ELSE "running"
    ELSE IF j[s].status \in Ends THEN j[s].status
    ELSE IF j[s].cancelled THEN "canceled"
    ELSE IF j[s].paused THEN "paused" ELSE "running"

Actions == {"pause", "resume", "cancel"}

\* stream_control; a stream that is not active is left as it is.
StreamControl(s, action) ==
    /\ controls < MaxControls /\ controls' = controls + 1
    /\ IF Active(s)
       THEN IF action = "cancel" THEN Cancel(s) ELSE SetPaused(s, action = "pause")
       ELSE UNCHANGED <<job, log, dropped, ingestVars, embedVars>>

-----------------------------------------------------------------------------
Walking ==
    /\ \/ StartWalk \/ WakeWalk \/ Poll \/ CloseQueue
       \/ \E last \in BOOLEAN : FetchPage(last)
       \/ \E type \in Ends : FetchNothing(type)
    /\ UNCHANGED controls

Embedding ==
    /\ \/ TakeBatch \/ Join
       \/ \E p \in PageNumbers :
            StartBatch(p) \/ WakeBatch(p) \/ \E ok \in BOOLEAN : Embedded(p, ok)
    /\ UNCHANGED controls

Timers == (Throttle \/ \E s \in Streams : Expire(s)) /\ UNCHANGED controls

LeadsNext ==
    \/ Walking \/ Embedding \/ Timers
    \/ \E s \in Streams, a \in Actions : StreamControl(s, a)

\* The coroutines run on, and Apollo, OpenAI and Milvus answer.
LeadsSpec ==
    Init /\ [][LeadsNext]_streamVars /\ WF_streamVars(Walking) /\ WF_streamVars(Embedding)

-----------------------------------------------------------------------------
StreamsOK ==
    /\ job \in [Streams -> [status : {"pending", "running", "complete", "error"},
                            cancelled : BOOLEAN, paused : BOOLEAN, readers : 0..1, gone : BOOLEAN]]
    /\ \A s \in Streams : log[s] \in Seq([type : Types, page : 0..Pages])
                            /\ dropped[s] \subseteq 1..Len(log[s])
    /\ emb \in [live : BOOLEAN, accepting : BOOLEAN, paused : BOOLEAN,
                total : Nat, done : Nat, failed : Nat, inFlight : 0..Concurrency]
    /\ walk \in [pc : {"idle", "held", "woken", "fetching", "throttled", "closing", "over"},
                 page : PageNumbers, last : BOOLEAN, detached : BOOLEAN]
    /\ queue \in Seq(0..Pages)
    /\ batch \in [PageNumbers -> [pc : {"none", "task", "held", "woken", "embedding", "over"},
                                  chunk : 0..(Chunks - 1)]]
    /\ consumer \in {"taking", "joining", "over"}
    /\ controls \in 0..MaxControls

\* The events of some types, in their order.
Selected(events, types) ==
    LET first[n \in 0..Len(events)] ==
            IF n = 0 THEN << >>
            ELSE IF events[n].type \in types THEN Append(first[n - 1], events[n])
            ELSE first[n - 1]
    IN  first[Len(events)]

StoredPages == Selected(log["ingest"], {"ids"})

(***************************************************************************)
(* While its embedding lives, the walk is ahead by the batches that are    *)
(* embedded, those in the queue, and the one it waits with: the bound on   *)
(* how far it may run ahead of Milvus that run_paged_search_with_embedding *)
(* promises.                                                               *)
(***************************************************************************)
Unembedded == {p \in PageNumbers : batch[p].pc # "over"
                                    /\ (Event("ids", p) \in ToSet(log["ingest"])
                                          \/ (p = walk.page /\ walk.pc = "throttled"))}

WalkStaysClose ==
    emb.live /\ ~job["ingest"].cancelled => Cardinality(Unembedded) <= QueuePages + Concurrency + 1

(***************************************************************************)
(* No stream that still works is dropped from the manager: what it         *)
(* publishes would be lost and a cancel would not find it.                 *)
(***************************************************************************)
LiveStreamIsKept ==
    /\ walk.pc \in {"held", "woken", "fetching", "throttled"} => ~job["ingest"].gone
    /\ emb.live => ~job["embedding"].gone

(***************************************************************************)
(* An embedding that ends by itself accounts for every lead once, as done  *)
(* or as failed, and unless the walk was cancelled it went over every lead *)
(* that was announced.                                                     *)
(***************************************************************************)
EveryLeadIsAccountedFor ==
    /\ emb.done + emb.failed <= emb.total
    /\ ~emb.accepting =>
        /\ emb.done + emb.failed = emb.total
        /\ ~job["ingest"].cancelled => emb.total = Chunks * Len(StoredPages)

(***************************************************************************)
(* A cancelled walk ends even if its embedding is paused and the queue     *)
(* full, and a cancelled embedding lets go of its batches even if it was   *)
(* paused, so that the queue is drained and the walk can go on.            *)
(***************************************************************************)
CancelEnds ==
    /\ job["ingest"].cancelled ~> (Over("ingest") \/ job["ingest"].gone)
    /\ ~emb.live ~> (Busy = {})

(***************************************************************************)
(* The walk stays close to its embedding, no stream that works is dropped, *)
(* and the embedding accounts for every lead.                              *)
(***************************************************************************)
StreamsHold == StreamsOK /\ WalkStaysClose /\ LiveStreamIsKept /\ EveryLeadIsAccountedFor
=============================================================================
