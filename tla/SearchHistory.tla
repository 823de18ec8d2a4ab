--------------------------- MODULE SearchHistory ---------------------------
(***************************************************************************)
(* The history row of a search and the results saved for it.  A detached   *)
(* job makes the row, saves the ids leads streams to it, shows the first   *)
(* page as soon as it is full and the page the row is at when the ingest   *)
(* is complete; it serves a browser, or an agent that only waits for the   *)
(* start.  A row may also be imported.  Meanwhile anybody may open the     *)
(* search or turn its page, and its owner may delete it.                   *)
(*                                                                         *)
(* A database session works on the copy of the row it loaded: a commit     *)
(* writes the columns that differ from what was loaded, and the refresh    *)
(* behind it, here in the same step, loads the row anew.  The cached page  *)
(* of a row, which is shown only while nothing is stored, is left out.     *)
(***************************************************************************)
EXTENDS Integers, Sequences, FiniteSets, FiniteSetsExt, SequencesExt

CONSTANTS
    Found,          \* what leads finds, in order
    PerPage,        \* results on a page
    Kinds,          \* of searches: "stream", "agent", "import"
    Readers,        \* requests of users
    MaxPage,        \* bound: pages users turn to
    MaxFetches      \* bound: pages of ids leads streams

Leads == ToSet(Found)

ASSUME HistoryAssumption ==
    /\ Found \in Seq(Leads) /\ IsInjective(Found)
    /\ Kinds \subseteq {"stream", "agent", "import"}
    /\ PerPage \in Nat \ {0} /\ MaxPage \in Nat \ {0} /\ MaxFetches \in Nat

VARIABLES
    kind,       \* of this search
    history,    \* the row: is it there, its page and total_results
    stored,     \* search_results, by position
    search,     \* the job: where it is, its copy of the row, what it shows
    paused,     \* of the streams of leads it follows: those somebody holds
    started,    \* started_future of an agent, or the answer to an import
    viewer,     \* whether the browser still reads
    told,       \* the lines it was sent, but for progress
    reader      \* per request: where it is, its copy of the row, its page

historyVars == <<kind, history, stored, search, paused, started, viewer, told, reader>>

Columns(page, total) == [page |-> page, total |-> total]
Resting(pc) == [pc |-> pc, mine |-> Columns(1, 0), page |-> 0, total |-> 0]

HistoryInit ==
    /\ kind \in Kinds
    /\ history = [state |-> "none", page |-> 1, total |-> 0]
    /\ stored = << >>
    /\ search = [pc |-> "new", mine |-> Columns(1, 0), fetches |-> 0, seen |-> << >>,
                 first |-> FALSE, page |-> 0]
    /\ paused = {}
    /\ started = "no"
    /\ viewer = (kind = "stream")
    /\ told = << >>
    /\ reader = [r \in Readers |-> Resting("idle")]

-----------------------------------------------------------------------------
There == history.state = "there"
Loaded == Columns(history.page, history.total)

\* A commit of new columns by a session that loaded old ones.
Written(old, new) ==
    [history EXCEPT !.page = IF new.page = old.page THEN @ ELSE new.page,
                    !.total = IF new.total = old.total THEN @ ELSE new.total]

\* _load_page_mongo_ids.
PageOf(p) == SubSeq(stored, (p - 1) * PerPage + 1, Min({p * PerPage, Len(stored)}))

Sent(new) == told' = IF viewer THEN told \o new ELSE told

(***************************************************************************)
(* A failure of the job, wherever: an agent that still waits for the start *)
(* gets it, a browser a line, and the end.                                 *)
(***************************************************************************)
Fail ==
    /\ search' = [search EXCEPT !.pc = "over"] /\ paused' = {}
    /\ started' = IF kind # "stream" /\ started = "no" THEN "failed" ELSE started
    /\ Sent(<<"error", "end">>)
    /\ UNCHANGED <<kind, history, stored, viewer, reader>>

-----------------------------------------------------------------------------
(***************************************************************************)
(* _run_search_job: the row, then the streams of leads.                    *)
(***************************************************************************)
CreateRow ==
    /\ search.pc = "new" /\ kind # "import"
    /\ history' = [history EXCEPT !.state = "there"]
    /\ search' = [search EXCEPT !.pc = "starting"]
    /\ UNCHANGED <<kind, stored, paused, started, viewer, told, reader>>

StartStreams ==
    /\ search.pc = "starting"
    /\ search' = [search EXCEPT !.pc = "walking"]
    /\ started' = IF kind = "agent" THEN "yes" ELSE started
    /\ UNCHANGED <<kind, history, stored, paused, viewer, told, reader>>

(***************************************************************************)
(* A page of ids: what the job has not seen is appended, and committed     *)
(* with the total.  Nothing can be saved for a search that was deleted.    *)
(***************************************************************************)
Unseen(ids) ==
    FoldLeft(LAMBDA new, id : IF id \in ToSet(search.seen \o new) THEN new ELSE Append(new, id),
             << >>, ids)

TakeIds(ids) ==
    LET new == Unseen(ids)
        position == Len(search.seen) + Len(new) IN
    /\ search.pc = "walking" /\ search.fetches < MaxFetches
    /\ IF ~There /\ position # search.mine.total THEN Fail
       ELSE /\ stored' = stored \o new
            /\ history' = Written(search.mine, [search.mine EXCEPT !.total = position])
            /\ search' = [search EXCEPT
                   !.fetches = @ + 1, !.mine.total = position, !.seen = @ \o new,
                   !.pc = IF ~search.first /\ position >= PerPage THEN "first" ELSE "walking"]
            /\ UNCHANGED <<kind, paused, started, viewer, told, reader>>

\* The ingest is complete, or its stream has ended without saying so.
IngestComplete ==
    /\ search.pc = "walking" /\ "ingest" \notin paused
    /\ IF ~There THEN Fail
       ELSE /\ history' = Written(search.mine, [search.mine EXCEPT !.total = Len(search.seen)])
            /\ search' = [search EXCEPT !.pc = IF search.first THEN "last" ELSE "only",
                                        !.mine = Columns(history'.page, history'.total)]
            /\ UNCHANGED <<kind, stored, paused, started, viewer, told, reader>>

(***************************************************************************)
(* _set_current_page of the job: it loads the ids of a page and hydrates   *)
(* them, then writes the page.  The first page is shown when it is full or *)
(* when the ingest is complete; then, if that was before, the page the row *)
(* is at by now.                                                           *)
(***************************************************************************)
LoadFirst ==
    /\ search.pc \in {"first", "only"}
    /\ search' = [search EXCEPT !.pc = IF @ = "first" THEN "showing" ELSE "showing only",
                                !.page = 1]
    /\ UNCHANGED <<kind, history, stored, paused, started, viewer, told, reader>>

\* Mutant: the job goes back to the page it knows.
LoadPageOne ==
    /\ search.pc = "last" /\ There
    /\ search' = [search EXCEPT !.pc = "showing last", !.mine = Loaded,
                                !.page = 1]
    /\ UNCHANGED <<kind, history, stored, paused, started, viewer, told, reader>>

LoadLast ==
    /\ search.pc = "last" /\ There
    /\ search' = [search EXCEPT !.pc = "showing last", !.mine = Loaded,
                                !.page = history.page]
    /\ UNCHANGED <<kind, history, stored, paused, started, viewer, told, reader>>

ShowPage ==
    /\ search.pc \in {"showing", "showing only", "showing last"} /\ There
    /\ history' = Written(search.mine, [search.mine EXCEPT !.page = search.page])
    /\ search' = [search EXCEPT !.pc = IF @ = "showing" THEN "walking" ELSE "embedding",
                                !.first = TRUE,
                                !.mine = Columns(history'.page, history'.total)]
    /\ Sent(CASE search.pc = "showing" -> <<"first_page">>
              [] search.pc = "showing only" -> <<"first_page", "complete">>
              [] search.pc = "showing last" -> <<"complete">>)
    /\ UNCHANGED <<kind, stored, paused, started, viewer, reader>>

\* The embedding, followed to its end behind "complete".
EmbeddingEnds ==
    /\ search.pc = "embedding" /\ "embedding" \notin paused
    /\ search' = [search EXCEPT !.pc = "over"]
    /\ Sent(<<"end">>)
    /\ UNCHANGED <<kind, history, stored, paused, started, viewer, reader>>

\* The database, leads or a page of leads fails, or a deleted row is missed.
JobFails == search.pc # "over" /\ Fail

-----------------------------------------------------------------------------
(***************************************************************************)
(* import_search_from_ids, and alike _run_similarity_search: the row with  *)
(* its total is committed before the results.                              *)
(***************************************************************************)
ImportRow ==
    /\ search.pc = "new" /\ kind = "import"
    /\ history' = [state |-> "there", page |-> 1, total |-> Len(Found)]
    /\ search' = [search EXCEPT !.pc = "importing"]
    /\ UNCHANGED <<kind, stored, paused, started, viewer, told, reader>>

ImportResults ==
    /\ search.pc = "importing" /\ There
    /\ stored' = Found
    /\ search' = [search EXCEPT !.pc = "over"]
    /\ started' = "yes"
    /\ UNCHANGED <<kind, history, paused, viewer, told, reader>>

-----------------------------------------------------------------------------
(***************************************************************************)
(* The requests of users: each loads the row, counts what is stored, and   *)
(* corrects the total; search_page also moves the row to its page, once    *)
(* the results are hydrated.                                               *)
(***************************************************************************)
Open(r, page) ==
    /\ reader[r].pc = "idle" /\ There
    /\ reader' = [reader EXCEPT ![r] = [pc |-> "open", mine |-> Loaded, page |-> page, total |-> 0]]
    /\ UNCHANGED <<kind, history, stored, search, paused, started, viewer, told>>

\* get_search, for page 0, saves the corrected total at once.
Count(r) ==
    /\ reader[r].pc = "open"
    /\ LET get == reader[r].page = 0
           none == stored = << >> IN
       /\ history' = IF get /\ ~none /\ There
                     THEN Written(reader[r].mine, [reader[r].mine EXCEPT !.total = Len(stored)])
                     ELSE history
       /\ reader' = [reader EXCEPT ![r] = IF get \/ none THEN Resting("over")
                                          ELSE [@ EXCEPT !.pc = "turning", !.total = Len(stored)]]
    /\ UNCHANGED <<kind, stored, search, paused, started, viewer, told>>

TurnPage(r) ==
    /\ reader[r].pc = "turning"
    /\ history' = IF There THEN Written(reader[r].mine, Columns(reader[r].page, reader[r].total))
                  ELSE history
    /\ reader' = [reader EXCEPT ![r] = Resting("over")]
    /\ UNCHANGED <<kind, stored, search, paused, started, viewer, told>>

Delete ==
    /\ There
    /\ history' = [history EXCEPT !.state = "gone"]
    /\ stored' = << >>
    /\ UNCHANGED <<kind, search, paused, started, viewer, told, reader>>

ViewerLeaves ==
    /\ viewer
    /\ viewer' = FALSE
    /\ UNCHANGED <<kind, history, stored, search, paused, started, told, reader>>

(***************************************************************************)
(* A stream of leads that still runs can be paused, for any time: leads    *)
(* waits before its next page, or its next chunk, until it is resumed or   *)
(* cancelled.  The job reads on, without a time-out.                       *)
(***************************************************************************)
Walk == {"walking", "first", "showing"}
Runs(s) == search.pc \in Walk \/ (s = "embedding" /\ search.pc \in {"only", "showing only", "last",
                                                                  "showing last", "embedding"})

Pause(s) ==
    /\ Runs(s)
    /\ paused' = paused \cup {s}
    /\ UNCHANGED <<kind, history, stored, search, started, viewer, told, reader>>

ResumeOrCancel(s) ==
    /\ s \in paused
    /\ paused' = paused \ {s}
    /\ UNCHANGED <<kind, history, stored, search, started, viewer, told, reader>>

-----------------------------------------------------------------------------
\* The pages of ids; they may overlap, and one may hold nothing.
Batches == {SubSeq(Found, i, j) : i, j \in DOMAIN Found}

JobStep ==
    \/ CreateRow \/ StartStreams \/ \E ids \in Batches : TakeIds(ids)
    \/ IngestComplete \/ LoadFirst \/ LoadLast \/ ShowPage \/ EmbeddingEnds
    \/ ImportRow \/ ImportResults \/ JobFails

UserStep ==
    \/ \E r \in Readers : \/ \E page \in 0..MaxPage : Open(r, page)
                          \/ Count(r) \/ TurnPage(r)
    \/ \E s \in {"ingest", "embedding"} : Pause(s) \/ ResumeOrCancel(s)
    \/ Delete \/ ViewerLeaves

HistoryNext == JobStep \/ UserStep

(***************************************************************************)
(* The job waits for leads, and somebody holds what it waits for: the      *)
(* ingest, or an embedding that the ingest waits for when its queue is     *)
(* full.                                                                   *)
(***************************************************************************)
HeldUp ==
    \/ search.pc = "walking" /\ paused # {}
    \/ search.pc = "embedding" /\ "embedding" \in paused

(***************************************************************************)
(* The database and leads answer, or fail, and a stream that nobody holds  *)
(* ends.  Nothing makes anybody resume one; but each resume lets a page or *)
(* a chunk through, also if the next pause follows at once.                *)
(***************************************************************************)
HistoryFairness == SF_historyVars(~HeldUp /\ JobStep)
HistorySpec == HistoryInit /\ [][HistoryNext]_historyVars /\ HistoryFairness

-----------------------------------------------------------------------------
HistoryTypeOK ==
    /\ history \in [state : {"none", "there", "gone"}, page : 1..MaxPage, total : Nat]
    /\ stored \in Seq(Leads) /\ paused \subseteq {"ingest", "embedding"}
    /\ started \in {"no", "yes", "failed"} /\ viewer \in BOOLEAN

Tellings == {<<"first_page", "complete", "end">>, <<"first_page", "complete", "error", "end">>,
             <<"first_page", "error", "end">>, <<"error", "end">>}

(***************************************************************************)
(* A row never promises results that are not stored, whoever corrects its  *)
(* total meanwhile and however late; only an import has its total before   *)
(* its results.  A deleted search has none, and none come back.  A browser *)
(* is told of the first page, which is full or all there is, then of the   *)
(* last one, then of a failure if there was one, and then nothing.         *)
(***************************************************************************)
HistoryIsTrue ==
    /\ HistoryTypeOK
    /\ IsInjective(stored)
    /\ There /\ (kind # "import" \/ stored # << >>) => history.total <= Len(stored)
    /\ ~There => stored = << >>
    /\ \E telling \in Tellings : IsPrefix(told, telling)
    /\ told = <<"first_page">> /\ search.pc = "walking" => Len(search.seen) >= PerPage

(***************************************************************************)
(* The job, which shows pages of its own, does not take a user off a page  *)
(* that has results (_search_ndjson_events: "yank the user off the page    *)
(* they're viewing").                                                      *)
(***************************************************************************)
JobKeepsThePage ==
    [][search' # search /\ history'.page # history.page => PageOf(history.page) = << >>]_historyVars

(***************************************************************************)
(* Whoever waits is answered: an agent or an importer whether it started,  *)
(* once, and a browser that stays is told the end.  Only somebody who      *)
(* holds a stream of leads for good keeps them waiting.                    *)
(***************************************************************************)
Answered ==
    /\ search.pc = "over"
    /\ kind # "stream" => started # "no"
    /\ viewer => told # << >> /\ Last(told) = "end"

WhoWaitsIsAnswered == <>Answered \/ <>[]HeldUp
=============================================================================
