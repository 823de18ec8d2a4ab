-------------------------- MODULE LeadEnrichment --------------------------
(***************************************************************************)
(* A job that looks up or matches several leads (_run_enrich_stream_job,   *)
(* _run_match_stream_job): an ingest asks Apollo for one lead after the    *)
(* other and stores the answers, a consumer embeds what it stored, and     *)
(* both are streams that a reader follows and a request may control.       *)
(* Around it webhooks, searches, single requests and backfills write and   *)
(* embed the same documents.                                               *)
(*                                                                         *)
(* The buffers of the streams are in LeadStreams; here a stream is what it *)
(* was told.  The ingest never looks at its pause, so only the pause of    *)
(* the embedding is modelled.                                              *)
(***************************************************************************)
EXTENDS LeadRecords, SequencesExt

CONSTANTS
    Items,          \* the operations of the job, in order
    EmbedSlots,     \* of the semaphore, 4 in the code
    MaxControls,    \* bound: cancels, pauses and resumes
    MaxOthers       \* bound: operations outside of the job that are under way

ASSUME EnrichmentAssumption ==
    /\ Items \in Seq(Ops) /\ IsInjective(Items)
    /\ \A i \in DOMAIN Items : KindOf[Items[i]] \in {"lookup", "match"}
    /\ EmbedSlots \in Nat \ {0} /\ MaxControls \in Nat /\ MaxOthers \in Nat
    /\ "sentinel" \notin Ops

VARIABLES
    ingest,         \* where the ingest is, and whether it was cancelled
    told,           \* what it published
    queue,          \* stored items to embed; unbounded
    consumer,       \* of the queue
    embedding,      \* the other stream
    controls        \* bound: controls so far

jobVars == <<ingest, told, queue, consumer, embedding, controls>>
enrichVars == <<recordVars, jobVars>>

InJob == ToSet(Items)
Others == Ops \ InJob
Sentinel == "sentinel"
Event(type, o) == [type |-> type, item |-> o]

EnrichInit ==
    /\ Init
    /\ ingest = [pc |-> "pending", at |-> 0, cancelled |-> FALSE]
    /\ told = << >> /\ queue = << >> /\ consumer = "taking"
    /\ embedding = [state |-> "open", paused |-> FALSE]
    /\ controls = 0

-----------------------------------------------------------------------------
(***************************************************************************)
(* The ingest.                                                             *)
(***************************************************************************)
\* The top of the loop, with what the last item left: the next item is asked
\* for, or the job is complete and the consumer is told.
Proceed(ops, events, q) ==
    IF ingest.cancelled \/ ingest.at = Len(Items)
    THEN /\ ingest' = [ingest EXCEPT !.pc = "over"]
         /\ told' = told \o Append(events, Event("complete", None))
         /\ queue' = Append(q, Sentinel)
         /\ op' = ops
    ELSE /\ ingest' = [ingest EXCEPT !.pc = "running", !.at = @ + 1]
         /\ told' = told \o events
         /\ queue' = q
         /\ op' = [ops EXCEPT ![Items[ingest.at + 1]].pc = "asked"]

StartJob ==
    /\ ingest.pc = "pending"
    /\ Proceed(op, << >>, queue)
    /\ UNCHANGED <<doc, vector, faults, consumer, embedding, controls>>

ItemDone(o) ==
    /\ At(o, {"stored"})
    /\ Proceed([op EXCEPT ![o].pc = "queued"], <<Event("ids", o)>>, Append(queue, o))
    /\ UNCHANGED <<doc, vector, faults, consumer, embedding, controls>>

\* A failed item does not end the job.
ItemFailed(o) ==
    /\ At(o, {"failed"}) /\ o = Items[ingest.at] /\ ingest.pc = "running"
    /\ Proceed(op, <<Event("item_error", o)>>, queue)
    /\ UNCHANGED <<doc, vector, faults, consumer, embedding, controls>>

-----------------------------------------------------------------------------
(***************************************************************************)
(* The consumer: a task for each item, EmbedSlots of them at a time.       *)
(***************************************************************************)
TakeItem ==
    /\ consumer = "taking" /\ queue # << >>
    /\ queue' = Tail(queue)
    /\ IF Head(queue) = Sentinel
       THEN consumer' = "joining" /\ UNCHANGED op
       ELSE Goto(Head(queue), "task") /\ UNCHANGED consumer
    /\ UNCHANGED <<doc, vector, faults, ingest, told, embedding, controls>>

InSlot == {o \in InJob : At(o, {"held", "woken", "outranked", "ready", "indexed"})}

Begin(o) ==
    IF embedding.state # "open"
    THEN Goto(o, "left") /\ UNCHANGED <<doc, vector, faults>>
    ELSE ReadToEmbed(o)

StartTask(o) ==
    /\ At(o, {"task"}) /\ Cardinality(InSlot) < EmbedSlots
    /\ IF embedding.state = "open" /\ embedding.paused
       THEN Goto(o, "held") /\ UNCHANGED <<doc, vector, faults>>
       ELSE Begin(o)
    /\ UNCHANGED jobVars

WakeTask(o) == At(o, {"woken"}) /\ Begin(o) /\ UNCHANGED jobVars

\* Mutant: the tasks are not awaited.
JoinNoTask ==
    /\ consumer = "joining"
    /\ consumer' = "over"
    /\ embedding' = [embedding EXCEPT !.state = IF @ = "open" THEN "closed" ELSE @]
    /\ UNCHANGED <<recordVars, ingest, told, queue, controls>>

\* The embedding closes behind its last task.
Join ==
    /\ consumer = "joining"
    /\ \A o \in InJob : ~At(o, {"task"}) /\ o \notin InSlot
    /\ consumer' = "over"
    /\ embedding' = [embedding EXCEPT !.state = IF @ = "open" THEN "closed" ELSE @]
    /\ UNCHANGED <<recordVars, ingest, told, queue, controls>>

-----------------------------------------------------------------------------
(***************************************************************************)
(* The controls.                                                           *)
(***************************************************************************)
\* Mutant: the tasks that are held sleep on.
AsleepStill == op

Woken == [o \in Ops |-> IF op[o].pc = "held" THEN [op[o] EXCEPT !.pc = "woken"] ELSE op[o]]

Control == controls < MaxControls /\ controls' = controls + 1

CancelIngest ==
    /\ Control /\ ingest.pc # "over" /\ ~ingest.cancelled
    /\ ingest' = [ingest EXCEPT !.cancelled = TRUE]
    /\ UNCHANGED <<recordVars, told, queue, consumer, embedding>>

CancelEmbedding ==
    /\ Control /\ embedding.state = "open"
    /\ embedding' = [embedding EXCEPT !.state = "canceled"]
    /\ op' = Woken
    /\ UNCHANGED <<doc, vector, faults, ingest, told, queue, consumer>>

SetPaused(paused) ==
    /\ Control /\ embedding.state = "open" /\ embedding.paused # paused
    /\ embedding' = [embedding EXCEPT !.paused = paused]
    /\ op' = IF paused THEN op ELSE Woken
    /\ UNCHANGED <<doc, vector, faults, ingest, told, queue, consumer>>

-----------------------------------------------------------------------------
\* What an item does between the answer and the queue, and behind the read.
ItemStep(o) ==
    \/ (ApolloFails(o) \/ WriteStep(o) \/ EmbedStep(o)) /\ UNCHANGED jobVars
    \/ ItemDone(o) \/ ItemFailed(o) \/ StartTask(o) \/ WakeTask(o)

Job == StartJob \/ TakeItem \/ Join

UnderWay == {o \in Others : ~At(o, {"new", "failed", "over", "unembedded"})}

OtherStep(o) ==
    /\ \/ Cardinality(UnderWay) < MaxOthers /\ (Ask(o) \/ Select(o))
       \/ ApolloFails(o) \/ WriteStep(o) \/ EmbedStep(o)
       \/ At(o, {"stored"}) /\ ReadToEmbed(o)
    /\ UNCHANGED jobVars

Controlling == CancelIngest \/ CancelEmbedding \/ \E paused \in BOOLEAN : SetPaused(paused)

EnrichNext ==
    \/ Job \/ Controlling
    \/ \E o \in InJob : ItemStep(o)
    \/ \E o \in Others : OtherStep(o)

\* The job's coroutines run on, and what they wait for answers or fails.
EnrichSpec ==
    /\ EnrichInit /\ [][EnrichNext]_enrichVars
    /\ WF_enrichVars(Job) /\ \A o \in InJob : WF_enrichVars(ItemStep(o))

-----------------------------------------------------------------------------
TypeOK ==
    /\ \A l \in Leads :
        /\ doc[l].entries \in [Endpoints -> [name : Ops \cup {None}, phone : Ops \cup {None}]]
        /\ doc[l].source \in 0..3 /\ doc[l].version \in Nat
        /\ vector[l] \in [tier : 0..3, phone : BOOLEAN]
    /\ \A o \in Ops :
        /\ op[o].pc \in {"new", "asked", "found", "beaten", "last", "stored", "failed", "queued", "task",
                         "held", "woken", "outranked", "ready", "indexed", "over", "unembedded", "left"}
        /\ op[o].tries \in 0..Attempts
    /\ faults \in 0..MaxFaults /\ controls \in 0..MaxControls
    /\ ingest.pc \in {"pending", "running", "over"} /\ ingest.at \in 0..Len(Items)
    /\ consumer \in {"taking", "joining", "over"}
    /\ embedding \in [state : {"open", "canceled", "closed"}, paused : BOOLEAN]
    /\ queue \in Seq(InJob \cup {Sentinel})

\* Its answer is in the document.
HasWritten(o) ==
    KindOf[o] \notin {"backfill", "reembed"}
    /\ ~At(o, {"new", "asked", "found", "beaten", "last", "failed"})

Documents == {l \in Leads : doc[l].stored}

(***************************************************************************)
(* Whoever wrote last, the derived fields are those of all the answers:    *)
(* only a write that gave up on the guard may leave them behind, until the *)
(* next.                                                                   *)
(***************************************************************************)
FieldsMatchAnswers ==
    \A l \in Documents : ~doc[l].behind =>
        \A field \in {"name", "phone"} :
            Derived(doc[l].entries, field) # None => doc[l][field] = Derived(doc[l].entries, field)

(***************************************************************************)
(* What was paid for is kept: no later answer takes a phone away, or the   *)
(* note that a lead was looked up, matched or revealed, and no writer      *)
(* takes the answer of another endpoint.                                   *)
(***************************************************************************)
EnrichmentIsKept ==
    \A o \in Ops : HasWritten(o) =>
        LET d == doc[LeadOf[o]] IN
        /\ d.entries[Endpoint(o)] # Untold
        /\ ~op[o].beaten => Enriched(o) \subseteq d.enriched
        /\ KindOf[o] = "webhook" /\ ~op[o].beaten => d.phone # None

\* However the writers of a lead interleave, its document is right.
RecordsConverge == TypeOK /\ FieldsMatchAnswers /\ EnrichmentIsKept

(***************************************************************************)
(* A document that is flagged has a vector; and when everybody is done and *)
(* nothing failed, was left out or gave up on the guard, every document is *)
(* flagged: no write that resets the flag is followed by an embedding that *)
(* is skipped.                                                             *)
(***************************************************************************)
Quiet == \A o \in Ops : At(o, {"new", "over"}) \/ (At(o, {"failed"}) /\ op[o].tries = 0)

VectorFlagIsRight ==
    /\ \A l \in Documents : doc[l].embedded => vector[l] # NoVector
    /\ Quiet /\ (\A o \in Ops : ~op[o].beaten) => \A l \in Documents : doc[l].embedded

(***************************************************************************)
(* However writers and embedders interleave, the records are right.        *)
(***************************************************************************)
RecordsHold == RecordsConverge /\ VectorFlagIsRight

(***************************************************************************)
(* An embedding stream that says complete of itself has embedded, or       *)
(* rightly skipped, or failed at every item the ingest told.               *)
(***************************************************************************)
ClosedMeansEmbedded ==
    embedding.state = "closed" =>
        /\ ingest.pc = "over" /\ queue = << >>
        /\ \A i \in DOMAIN told : told[i].type = "ids" => At(told[i].item, {"over", "unembedded"})

(***************************************************************************)
(* A job that is over has told each of its items once, in order, as stored *)
(* or as failed; a cancelled one the first of them.                        *)
(***************************************************************************)
EveryItemIsTold ==
    /\ \A i \in DOMAIN told : told[i].type # "complete" => told[i].item = Items[i]
    /\ ingest.pc = "over" =>
        /\ Last(told) = Event("complete", None)
        /\ ~ingest.cancelled => Len(told) = Len(Items) + 1

(***************************************************************************)
(* The two streams account for every item: each is told, and each that is  *)
(* told is embedded, rightly skipped or failed.                            *)
(***************************************************************************)
JobAccountsForItems == ClosedMeansEmbedded /\ EveryItemIsTold

(***************************************************************************)
(* A job that runs ends, unless its embedding is on hold; above all, one   *)
(* whose embedding was cancelled while on hold.                            *)
(***************************************************************************)
OnHold == embedding.state = "open" /\ embedding.paused
EnrichmentEnds == ingest.pc = "running" ~> (consumer = "over" \/ OnHold)

=============================================================================
