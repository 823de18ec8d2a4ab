----------------------------- MODULE EnrichBatch -----------------------------
(***************************************************************************)
(* The enrichment of several people in one streamed request to search.  A  *)
(* runner starts the streams of one person after the other, each as soon   *)
(* as the ingest of the one before is over; a watcher per person follows   *)
(* the streams and counts; what they tell goes to the browser in order.    *)
(* At the end, and when the browser leaves, what may still run is stopped. *)
(*                                                                         *)
(* Lines are noted when they are queued: they reach the browser in that    *)
(* order.  Pages, pending reveals and notices about single items, which    *)
(* change nothing here, are left out.                                      *)
(***************************************************************************)
EXTENDS Integers, Sequences, FiniteSets, SequencesExt

CONSTANTS People        \* the batch is 1..People

ASSUME BatchAssumption == People \in Nat \ {0}

VARIABLES
    runner,     \* _run_batch: where it is, and with whom
    streams,    \* per person: what leads runs for it
    watcher,    \* per person: _consume, and the event the runner waits for
    active,     \* the streams recorded as running
    finished,   \* per kind: how many are counted
    notes,      \* the lines queued
    client,     \* the generator behind the response
    asked       \* the streams leads was asked to cancel

batchVars == <<runner, streams, watcher, active, finished, notes, client, asked>>

Batch == 1..People
StreamKinds == {"ingest", "embedding"}

Note(type, done, last) == [type |-> type, done |-> done, last |-> last]
Notes(type) == {i \in DOMAIN notes : notes[i].type = type}

BatchInit ==
    /\ runner = [pc |-> "calling", at |-> 1]
    /\ streams = [p \in Batch |-> {}]
    /\ watcher = [p \in Batch |-> [pc |-> "none", ended |-> {}, event |-> FALSE]]
    /\ active = {}
    /\ finished = [k \in StreamKinds |-> 0]
    /\ notes = << >>
    /\ client = "reading"
    /\ asked = {}

-----------------------------------------------------------------------------
(***************************************************************************)
(* _run_batch and _watch_person.                                           *)
(***************************************************************************)
\* Leads starts the streams of the next person; not every kind of work has an
\* embedding.  Its answer is on its way.
LeadsStarts(kinds) ==
    /\ runner.pc = "calling" /\ "ingest" \in kinds
    /\ streams' = [streams EXCEPT ![runner.at] = kinds]
    /\ runner' = [runner EXCEPT !.pc = "answering"]
    /\ UNCHANGED <<watcher, active, finished, notes, client, asked>>

Watch ==
    LET p == runner.at
        kinds == streams[p] IN
    /\ runner.pc = "answering"
    /\ active' = active \cup ({p} \X kinds)
    /\ watcher' = [watcher EXCEPT ![p] = [pc |-> "reading", ended |-> StreamKinds \ kinds,
                                          event |-> FALSE]]
    /\ finished' = [finished EXCEPT !["embedding"] = @ + (IF "embedding" \in kinds THEN 0 ELSE 1)]
    /\ runner' = [runner EXCEPT !.pc = "waiting"]
    /\ UNCHANGED <<streams, notes, client, asked>>

StartFails ==
    /\ runner.pc \in {"calling", "answering"}
    /\ runner' = [runner EXCEPT !.pc = "stopping"]
    /\ notes' = Append(notes, Note("error", 0, FALSE))
    /\ UNCHANGED <<streams, watcher, active, finished, client, asked>>

GoOn ==
    /\ runner.pc = "waiting" /\ watcher[runner.at].event
    /\ runner' = IF runner.at < People THEN [pc |-> "calling", at |-> runner.at + 1]
                 ELSE [runner EXCEPT !.pc = "gathering"]
    /\ UNCHANGED <<streams, watcher, active, finished, notes, client, asked>>

\* The watchers are through, or are cancelled with the runner.
Finish ==
    /\ \/ runner.pc = "gathering" /\ \A p \in Batch : watcher[p].pc = "over"
       \/ runner.pc = "stopping"
    /\ watcher' = [p \in Batch |-> IF watcher[p].pc = "reading"
                                   THEN [watcher[p] EXCEPT !.pc = "over", !.event = TRUE]
                                   ELSE watcher[p]]
    /\ runner' = [runner EXCEPT !.pc = "over"]
    /\ notes' = Append(notes, Note("complete", 0, TRUE))
    /\ UNCHANGED <<streams, active, finished, client, asked>>

-----------------------------------------------------------------------------
(***************************************************************************)
(* _consume: the end of a stream is counted once, and the watcher is over  *)
(* when both have ended.                                                   *)
(***************************************************************************)
Ended(p, kind) ==
    [watcher EXCEPT ![p].ended = @ \cup {kind},
                    ![p].event = @ \/ kind = "ingest",
                    ![p].pc = IF watcher[p].ended \cup {kind} = StreamKinds THEN "over" ELSE @]

Stops(p, kind) == streams' = [streams EXCEPT ![p] = @ \ {kind}]

IngestCompleted(p) ==
    LET n == finished["ingest"] + 1 IN
    /\ watcher[p].pc = "reading" /\ "ingest" \notin watcher[p].ended
    /\ watcher' = Ended(p, "ingest") /\ Stops(p, "ingest")
    /\ finished' = [finished EXCEPT !["ingest"] = n]
    /\ active' = active \ {<<p, "ingest">>}
    /\ notes' = Append(notes, Note("ingest_complete", n, n >= People))
    /\ UNCHANGED <<runner, client, asked>>

\* An embedding that ends with an error is counted, but never clears the ring.
EmbeddingEnded(p, ok) ==
    LET n == finished["embedding"] + 1 IN
    /\ watcher[p].pc = "reading" /\ "embedding" \notin watcher[p].ended
    /\ watcher' = Ended(p, "embedding") /\ Stops(p, "embedding")
    /\ finished' = [finished EXCEPT !["embedding"] = n]
    /\ active' = active \ {<<p, "embedding">>}
    /\ notes' = Append(notes, Note("embedding_progress", n, ok /\ n >= People))
    /\ UNCHANGED <<runner, client, asked>>

\* An error of the ingest ends the watcher; its streams stay recorded.
IngestError(p) ==
    /\ watcher[p].pc = "reading" /\ "ingest" \notin watcher[p].ended
    /\ Stops(p, "ingest")
    /\ finished' = [finished EXCEPT !["embedding"] =
                        @ + (IF "embedding" \in watcher[p].ended THEN 0 ELSE 1)]
    /\ watcher' = [watcher EXCEPT ![p].pc = "over", ![p].event = TRUE]
    /\ notes' = Append(notes, Note("error", 0, FALSE))
    /\ UNCHANGED <<runner, active, client, asked>>

\* The connection to leads is refused or breaks: its streams run on.
SubscriptionFails(p) ==
    /\ watcher[p].pc = "reading"
    /\ watcher' = [watcher EXCEPT ![p].pc = "over", ![p].event = TRUE]
    /\ notes' = Append(notes, Note("error", 0, FALSE))
    /\ UNCHANGED <<runner, streams, active, finished, client, asked>>

-----------------------------------------------------------------------------
(***************************************************************************)
(* The generator: the browser leaves, or the lines are through; then what  *)
(* is still recorded is cancelled.  Behind a browser that left the cleanup *)
(* runs in a cancelled task, and may itself be cut short.                  *)
(***************************************************************************)
BrowserHangsUp ==
    /\ client = "reading"
    /\ client' = "left"
    /\ runner' = IF runner.pc = "over" THEN runner ELSE [runner EXCEPT !.pc = "stopping"]
    /\ UNCHANGED <<streams, watcher, active, finished, notes, asked>>

\* Mutant: the embeddings are left alone.
CancelIngests ==
    /\ client = "reading" /\ runner.pc = "over"
    /\ asked' = {s \in active : s[2] = "ingest"}
    /\ client' = "served"
    /\ UNCHANGED <<runner, streams, watcher, active, finished, notes>>

CancelLeftover ==
    /\ client = "reading" /\ runner.pc = "over"
    /\ asked' = active
    /\ client' = "served"
    /\ UNCHANGED <<runner, streams, watcher, active, finished, notes>>

CleanUpAfterUser(cancelled) ==
    /\ client = "left"
    /\ cancelled \subseteq active
    /\ asked' = cancelled
    /\ client' = "gone"
    /\ UNCHANGED <<runner, streams, watcher, active, finished, notes>>

-----------------------------------------------------------------------------
WatcherStep(p) ==
    \/ IngestCompleted(p) \/ IngestError(p) \/ SubscriptionFails(p)
    \/ \E ok \in BOOLEAN : EmbeddingEnded(p, ok)

BatchStep ==
    \/ \E kinds \in SUBSET StreamKinds : LeadsStarts(kinds)
    \/ Watch \/ StartFails \/ GoOn \/ Finish \/ CancelLeftover
    \/ \E cancelled \in SUBSET active : CleanUpAfterUser(cancelled)
    \/ \E p \in Batch : WatcherStep(p)

BatchNext == BatchStep \/ BrowserHangsUp

(***************************************************************************)
(* The tasks run on, leads answers and its ingests end.  An embedding may  *)
(* be paused by somebody, for any time, and is read without a time-out:    *)
(* nothing makes it end, or fail.                                          *)
(***************************************************************************)
FollowsEmbedding(p) == watcher[p].pc = "reading" /\ "ingest" \in watcher[p].ended

PromptStep ==
    BatchStep /\ \A p \in Batch : FollowsEmbedding(p) /\ runner.pc # "stopping"
                                      => watcher'[p] = watcher[p]

BatchFairness == WF_batchVars(PromptStep)
BatchSpec == BatchInit /\ [][BatchNext]_batchVars /\ BatchFairness

-----------------------------------------------------------------------------
BatchTypeOK ==
    /\ runner.pc \in {"calling", "answering", "waiting", "gathering", "stopping", "over"}
    /\ active \cup asked \subseteq Batch \X StreamKinds
    /\ finished \in [StreamKinds -> 0..People]
    /\ client \in {"reading", "served", "left", "gone"}

(***************************************************************************)
(* What a browser that stays is told.  Each person is counted once at most *)
(* for each kind, so a ring is cleared once at most, by the last line of   *)
(* its kind, and not before all are in.  "complete" is the last line; with *)
(* no error before it, everything was done.                                *)
(***************************************************************************)
CountsAreTrue ==
    /\ BatchTypeOK
    /\ \A i, j \in DOMAIN notes :
        i < j /\ notes[i].type = notes[j].type /\ notes[i].type # "error"
            => notes[i].done < notes[j].done /\ ~notes[i].last
    /\ \A i \in DOMAIN notes : notes[i].last /\ notes[i].type # "complete" => notes[i].done = People
    /\ \A i \in Notes("complete") : i = Len(notes)
    /\ client \in {"reading", "served"} /\ Notes("complete") # {} /\ Notes("error") = {}
        => \A p \in Batch : watcher[p].ended = StreamKinds

(***************************************************************************)
(* The ingests go one at a time, unless the connection to one was lost;    *)
(* and when a batch was read to its end nothing it started runs on at      *)
(* leads that leads was not asked to stop.                                 *)
(***************************************************************************)
Running(kind) == {p \in Batch : kind \in streams[p]}
Lost == {p \in Batch : watcher[p].pc = "over" /\ "ingest" \in streams[p]}

NothingRunsOn ==
    /\ Cardinality(Running("ingest") \ Lost) <= 1
    /\ client = "served" => \A p \in Batch : watcher[p].pc # "none" => {p} \X streams[p] \subseteq asked

(***************************************************************************)
(* Both: what the browser is told, and what is left of it at leads.        *)
(***************************************************************************)
BatchIsTrue == CountsAreTrue /\ NothingRunsOn

(***************************************************************************)
(* Every batch ends, whatever fails on the way and whenever the browser    *)
(* leaves, unless the embedding of one of its people never ends.           *)
(***************************************************************************)
BatchEnds ==
    \/ <>(client \in {"served", "gone"} /\ runner.pc = "over")
    \/ \E p \in Batch : <>[]FollowsEmbedding(p)
=============================================================================
