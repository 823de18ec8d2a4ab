------------------------------- MODULE MCLeads -------------------------------
(***************************************************************************)
(* Instances of the leads service: a streamed search whose embedding runs  *)
(* behind it, the documents and vectors of two leads under everything that *)
(* writes them, and the card that is made of one document.  They share no  *)
(* state, so a behaviour runs one of them.                                 *)
(***************************************************************************)
EXTENDS LeadEnrichment, LeadCard

CONSTANTS Pages, QueuePages, Concurrency, Chunks, MaxProgress

VARIABLES
    part,                                       \* which of them this behaviour runs
    job, log, dropped, emb, walk, batch,        \* of the streamed search
    pages, embedder, requests

Search == INSTANCE LeadStreams
            WITH queue <- pages, consumer <- embedder, controls <- requests

ASSUME SearchAssumption == Search!StreamsAssumption

\* Two matches of one job, about two leads, and a webhook, a search and a
\* backfill of the first.
MCLeadIds == {"l1", "l2"}
MCKindOf == [m1 |-> "match", m2 |-> "match", w |-> "webhook", s |-> "search", b |-> "backfill"]
MCOps == DOMAIN MCKindOf
MCLeadOf == [o \in MCOps |-> IF o = "m2" THEN "l2" ELSE "l1"]
MCItems == <<"m1", "m2">>

searchVars == <<job, log, dropped, emb, walk, batch, pages, embedder, requests>>
leadVars == <<searchVars, enrichVars, cardVars, part>>

\* The documents a card may be found in are many: one is enough beside the others.
LeadsInit ==
    /\ part \in {"search", "records", "card"}
    /\ Search!Init /\ EnrichInit /\ CardInit
    /\ part # "card" => lead.responses = NoPayloads /\ lead.old = Nothing /\ ~lead.enriched

\* Bound: a second control comes while the walk is at the second page at most.
Early == requests' < 2 \/ requests' = requests \/ walk.page <= 2

SearchPart ==
    part = "search" /\ Search!LeadsNext /\ Early /\ UNCHANGED <<enrichVars, cardVars, part>>
RecordsPart == part = "records" /\ EnrichNext /\ UNCHANGED <<searchVars, cardVars, part>>
CardPart == part = "card" /\ CardNext /\ UNCHANGED <<searchVars, enrichVars, part>>

LeadsNext == SearchPart \/ RecordsPart \/ CardPart

LeadsSpec ==
    /\ LeadsInit /\ [][LeadsNext]_leadVars
    /\ WF_searchVars(part = "search" /\ Search!Walking)
    /\ WF_searchVars(part = "search" /\ Search!Embedding)
    /\ WF_enrichVars(part = "records" /\ Job)
    /\ \A o \in InJob : WF_enrichVars(part = "records" /\ ItemStep(o))

\* The streams of a search keep to their bounds and account for every lead.
SearchHolds == Search!StreamsHold

(***************************************************************************)
(* What is cancelled or closed ends: the streams of a search (CancelEnds)  *)
(* and a job that enriches several leads (EnrichmentEnds), each where its  *)
(* part runs.                                                              *)
(***************************************************************************)
LeadsStreamsEnd ==
    /\ part = "search" => Search!CancelEnds
    /\ part = "records" => EnrichmentEnds
=============================================================================
