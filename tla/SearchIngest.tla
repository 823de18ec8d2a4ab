---------------------------- MODULE SearchIngest ----------------------------
(***************************************************************************)
(* The search service over a streamed search of leads.  Its detached task  *)
(* follows both streams on one connection, saves the ids of each page and  *)
(* tells the jobs service how the two jobs fare.  Controls of the user are *)
(* passed to leads, and what leads answered is told to the jobs service    *)
(* when the answer is back.                                                *)
(***************************************************************************)
EXTENDS LeadStreams

VARIABLES
    relay,      \* _ingest_leads_via_stream: where it is, and what has ended
    pos,        \* per stream: the last event iter_stream_events gave it
    follows,    \* the streams pending in iter_stream_events
    rows,       \* search_result: the pages saved
    shown,      \* per stream: the status last published for its job
    replies,    \* answers of leads to controls, on their way
    received    \* history: the lossless events of each stream that came through

relayVars == <<relay, pos, follows, rows, received>>
vars == <<streamVars, relayVars, shown, replies>>

Terminal == {"completed", "failed", "canceled"}

SearchInit ==
    /\ Init
    /\ relay = [pc |-> "starting", ingestDone |-> FALSE, embeddingDone |-> FALSE]
    /\ pos = [s \in Streams |-> 0]
    /\ follows = {}
    /\ rows = << >>
    /\ shown = [s \in Streams |-> "none"]
    /\ replies = {}
    /\ received = [s \in Streams |-> << >>]

-----------------------------------------------------------------------------
(***************************************************************************)
(* The jobs are announced and the streams subscribed.  A stream that leads *)
(* has dropped answers with one error event.                               *)
(***************************************************************************)
Subscribe ==
    LET there == {s \in Streams : ~job[s].gone} IN
    /\ relay.pc = "starting"
    /\ shown' = [s \in Streams |-> IF s \notin there THEN "failed"
                                   ELSE IF s = "ingest" THEN "running" ELSE "queued"]
    /\ IF "ingest" \in there
       THEN /\ relay' = [relay EXCEPT !.pc = "reading",
                                      !.embeddingDone = "embedding" \notin there]
            /\ follows' = there
            /\ job' = [s \in Streams |-> [job[s] EXCEPT !.readers = IF s \in there THEN 1 ELSE 0]]
       ELSE relay' = [relay EXCEPT !.pc = "failed"] /\ UNCHANGED <<follows, job>>
    /\ UNCHANGED <<log, dropped, ingestVars, embedVars, pos, rows, replies, controls, received>>

\* The generator behind the connection is closed: its readers are released.
Release == job' = [s \in Streams |-> [job[s] EXCEPT !.readers = 0]] /\ follows' = {}

\* What the relay does with an event: rows, statuses, and what has ended.
Persisted(e) == IF e.type = "ids" THEN Append(rows, e.page) ELSE rows

Told(s, e) ==
    CASE e.type \in {"ids", "progress"} -> "running"
      [] e.type = "complete" -> "completed"
      [] e.type = "error" -> "failed"
      [] OTHER -> shown[s]

Ended(s, e) ==
    IF e.type \notin Ends THEN relay
    ELSE IF s = "ingest" THEN [relay EXCEPT !.ingestDone = TRUE]
    ELSE [relay EXCEPT !.embeddingDone = TRUE]

(***************************************************************************)
(* The next event of a stream is given out, in any order of the streams;   *)
(* the end of a stream takes it out of the round.  An error of the ingest  *)
(* is raised, which leaves the embedding unread.                           *)
(***************************************************************************)
Receive(s) ==
    LET new == {i \in Kept(s) : i > pos[s]}
        e == log[s][Min(new)]
        r == Ended(s, e) IN
    /\ relay.pc = "reading" /\ s \in follows /\ new # {}
    /\ pos' = [pos EXCEPT ![s] = Min(new)]
    /\ received' = [received EXCEPT ![s] = IF e.type \in Lossy THEN @ ELSE Append(@, e)]
    /\ rows' = Persisted(e)
    /\ shown' = [shown EXCEPT ![s] = Told(s, e)]
    /\ IF s = "ingest" /\ e.type = "error"
       THEN relay' = [relay EXCEPT !.pc = "failed"] /\ Release
       ELSE IF r.ingestDone /\ r.embeddingDone
       THEN relay' = [r EXCEPT !.pc = "over"] /\ Release
       ELSE /\ relay' = r
            /\ follows' = IF e.type \in Ends THEN follows \ {s} ELSE follows
            /\ UNCHANGED job
    /\ UNCHANGED <<log, dropped, ingestVars, embedVars, replies, controls>>

\* The connection breaks, a page cannot be shown or saved, or search restarts.
RelayFails ==
    /\ relay.pc = "reading"
    /\ relay' = [relay EXCEPT !.pc = "failed"] /\ Release
    /\ UNCHANGED <<log, dropped, ingestVars, embedVars, pos, rows, shown, replies, controls, received>>

-----------------------------------------------------------------------------
\* Mutant: the words of leads are published as they are.
StatusVerbatim(label) == label

\* _LEADS_STATUS_TO_JOB.
Status(label) == CASE label = "complete" -> "completed" [] label = "error" -> "failed"
                   [] OTHER -> label

Answered(s) == replies' = replies \cup {[stream |-> s, status |-> Status(Label(s, job', emb'))]}

(***************************************************************************)
(* A control reaches leads.  One that cannot be applied is answered with   *)
(* the status of the stream, if it is a cancel of a stream leads has, or   *)
(* a pause of an ingest that is being cancelled; any other is not found.   *)
(***************************************************************************)
Control(s, action) ==
    /\ relay.pc # "starting"
    /\ StreamControl(s, action)
    /\ IF Active(s) \/ (~job[s].gone /\ (action = "cancel" \/ ~Over(s)))
       THEN Answered(s) ELSE UNCHANGED replies
    /\ UNCHANGED <<relayVars, shown>>

\* The answer is back in search, which publishes it, whatever came meanwhile.
Republish(reply) ==
    /\ replies' = replies \ {reply}
    /\ shown' = [shown EXCEPT ![reply.stream] = reply.status]
    /\ UNCHANGED <<streamVars, relayVars>>

-----------------------------------------------------------------------------
Quietly == UNCHANGED <<relayVars, shown, replies>>
WalkStep == Walking /\ Quietly
EmbeddingStep == Embedding /\ Quietly

Next ==
    \/ WalkStep \/ EmbeddingStep
    \/ Timers /\ Quietly
    \/ Subscribe \/ RelayFails
    \/ \E s \in Streams : Receive(s)
    \/ \E s \in Streams, a \in Actions : Control(s, a)
    \/ \E reply \in replies : Republish(reply)

Spec == SearchInit /\ [][Next]_vars

\* The coroutines of leads run on, and Apollo, OpenAI and Milvus answer.  The
\* relay, the user and the clock may do nothing more.
FairSpec == Spec /\ WF_vars(WalkStep) /\ WF_vars(EmbeddingStep)

-----------------------------------------------------------------------------
TypeOK ==
    /\ StreamsOK
    /\ relay \in [pc : {"starting", "reading", "failed", "over"},
                  ingestDone : BOOLEAN, embeddingDone : BOOLEAN]
    /\ follows \subseteq Streams
    /\ shown \in [Streams -> Terminal \cup {"none", "queued", "running", "paused"}]

(***************************************************************************)
(* When the relay takes the ingest to be complete, search has a row for    *)
(* every page leads announced, once and in order, however long the relay   *)
(* was behind and whatever was trimmed.                                    *)
(***************************************************************************)
SearchHasWhatLeadsStored ==
    relay.ingestDone => rows = [i \in 1..Len(StoredPages) |-> StoredPages[i].page]

(***************************************************************************)
(* Each stream is a lossless stream to the relay: nothing lossless is      *)
(* skipped, repeated or reordered, and nothing follows the end, however    *)
(* cancels, batches and the closing of the embedding interleave.           *)
(***************************************************************************)
Lossless(s) == Selected(log[s], Types \ Lossy)

Ingest == INSTANCE LosslessStream WITH
    sent <- Lossless("ingest"), received <- received["ingest"], Ends <- {Note(t) : t \in Ends}
Vectors == INSTANCE LosslessStream WITH
    sent <- Lossless("embedding"), received <- received["embedding"],
    Ends <- {Note(t) : t \in Ends}

IngestIsLossless == Ingest!Spec
VectorsAreLossless == Vectors!Spec

(***************************************************************************)
(* docs/jobs-producer-api.md: completed, failed and canceled are terminal, *)
(* and a control on a terminal job is a no-op.                             *)
(***************************************************************************)
EndedStaysEnded == [][\A s \in Streams : shown[s] \in Terminal => shown'[s] = shown[s]]_vars

\* No lead is lost on its two ways, to a row of search and to a vector.
NoLeadIsLost == TypeOK /\ SearchHasWhatLeadsStored /\ EveryLeadIsAccountedFor

\* Both streams of an ingest implement the lossless stream.
StreamsAreLossless == IngestIsLossless /\ VectorsAreLossless
=============================================================================
