------------------------------ MODULE MailSync ------------------------------
(***************************************************************************)
(* The archive of one connected Gmail mailbox.  A sync cycle first applies *)
(* the history since the stored anchor, or catches up from the newest page *)
(* when that history has expired, then walks a few pages of the backfill.  *)
(* A lock keeps cycles of one mailbox apart.  One-off and campaign sends   *)
(* mirror their mail into the same table without taking it.                *)
(*                                                                         *)
(* Gmail is external: mail arrives and is removed at any time, old history *)
(* expires, and a call fails with an answer (GmailError: what the cycle    *)
(* has staged is committed) or without one (the cycle is rolled back).     *)
(* Messages are numbered as they arrive; a page token is the message that  *)
(* the next page starts below.  A step is what runs between two awaits.    *)
(***************************************************************************)
EXTENDS Naturals, Sequences, FiniteSets, FiniteSetsExt

CONSTANTS
    Old, Arrivals,      \* messages there when connected; bound: arrivals after
    PageSize,           \* messages of one list page
    CyclePages,         \* backfill_pages_per_cycle
    CatchUpPages,       \* _CATCH_UP_MAX_PAGES
    MaxRemovals, MaxFaults, MaxSends    \* bounds; history that expires is a fault

ASSUME SizesAssumption ==
    /\ {Old, Arrivals, PageSize, CyclePages, CatchUpPages} \subseteq Nat
    /\ {MaxRemovals, MaxFaults, MaxSends} \subseteq Nat
    /\ 0 \notin {PageSize, CyclePages, CatchUpPages}

Ids == 1..(Old + Arrivals)
Top == Old + Arrivals + 1

VARIABLES
    arrived, box,       \* Gmail: messages so far; those not removed
    log, kept,          \* Gmail: the history; the oldest start it still serves
    archive,            \* rows of mail_messages: absent, live or deleted
    account,            \* the mail_accounts row: anchor, page token, done, authorized
    sync,               \* the cycle that holds the account's lock
    mirror,             \* a send that stores its own mail
    excuses,            \* history: mail hidden from catch-ups, and mail whose news lapsed
    faults, sends       \* counters for the bounds

gmail == <<arrived, box, log, kept>>
syncVars == <<gmail, archive, account, sync, mirror, excuses, faults, sends>>

NoCycle == [pc |-> "idle", todo |-> {}, gone |-> {}, staged |-> {}, upto |-> 0,
         below |-> Top, next |-> 0, pages |-> 0, fresh |-> FALSE, backup |-> FALSE]
NoMirror == [id |-> 0, pc |-> "none"]
NoExcuses == [hidden |-> {}, lapsed |-> {}]

SyncInit ==
    /\ arrived = Old /\ box = 1..Old /\ log = <<>> /\ kept = 0
    /\ archive = [m \in Ids |-> "absent"]
    /\ account = [anchor |-> 0, token |-> Top, done |-> FALSE, authorized |-> FALSE]
    /\ sync = NoCycle /\ mirror = NoMirror
    /\ excuses = NoExcuses /\ faults = 0 /\ sends = 0

Stored(m) == archive[m] # "absent"

-----------------------------------------------------------------------------
(***************************************************************************)
(* Gmail.                                                                  *)
(***************************************************************************)
NewMail ==
    /\ arrived < Old + Arrivals /\ arrived' = arrived + 1
    /\ box' = box \cup {arrived + 1}
    /\ log' = Append(log, [kind |-> "added", id |-> arrived + 1])
    /\ UNCHANGED kept

Arrive ==
    /\ NewMail
    /\ UNCHANGED <<archive, account, sync, mirror, excuses, faults, sends>>

Remove ==
    /\ Cardinality({i \in DOMAIN log : log[i].kind = "removed"}) < MaxRemovals
    /\ \E m \in box :
        /\ box' = box \ {m} /\ log' = Append(log, [kind |-> "removed", id |-> m])
    /\ UNCHANGED <<arrived, kept, archive, account, sync, mirror, excuses, faults, sends>>

Fault == faults < MaxFaults /\ faults' = faults + 1

\* About a week later the history so far cannot be asked for any more.
Expire ==
    /\ kept < Len(log) /\ Fault /\ kept' = Len(log)
    /\ UNCHANGED <<arrived, box, log, archive, account, sync, mirror, excuses, sends>>

Since(kind, start) ==
    {log[i].id : i \in {k \in DOMAIN log : k > start /\ log[k].kind = kind}}

\* messages.list: the newest PageSize messages below a token.
Page(token) ==
    {m \in box : m < token /\ Cardinality({n \in box : m < n /\ n < token}) < PageSize}

\* nextPageToken: the last message of the page, 0 when nothing is below it.
NextToken(token) ==
    IF \E m \in box : m < token /\ m \notin Page(token) THEN Min(Page(token)) ELSE 0

Unknown(ids) == {m \in ids : ~Stored(m)}

-----------------------------------------------------------------------------
(***************************************************************************)
(* A cycle's session: the rows it inserts are staged until a commit, and a *)
(* row that somebody else inserted meanwhile fails the commit, which rolls *)
(* the session back and ends the cycle.                                    *)
(***************************************************************************)
CatchingUp == sync.pc \in {"catchup", "caught", "reanchor"}

\* Mail that is missing below a message, and below any row of a table.
Missing(rows, n) == {m \in box : rows[m] = "absent" /\ m < n}
Covered(rows) == UNION {Missing(rows, n) : n \in {k \in Ids : rows[k] # "absent"}}

\* The rows of a catch-up that ends early hide from the next one, which stops
\* at a page that is known, what they lie above.
Torn(rows) ==
    IF CatchingUp THEN [excuses EXCEPT !.hidden = @ \cup Covered(rows)] ELSE excuses

RollBack == sync' = NoCycle /\ excuses' = Torn(archive) /\ UNCHANGED <<archive, account>>

\* The table with the staged rows, and with the removed ones flagged.
Rows(staged, gone) ==
    [m \in Ids |-> IF m \in staged THEN "live"
                   ELSE IF m \in gone /\ Stored(m) THEN "deleted" ELSE archive[m]]

Commit(gone, row, next) ==
    IF sync.staged \subseteq Unknown(Ids)
    THEN /\ archive' = Rows(sync.staged, gone) /\ account' = row /\ sync' = next
         /\ UNCHANGED excuses
    ELSE RollBack

-----------------------------------------------------------------------------
(***************************************************************************)
(* _sync_locked.  The loop or a trigger starts a cycle, which reads the    *)
(* account, the backfill's authorization with it.                          *)
(***************************************************************************)
Start ==
    /\ sync.pc = "idle"
    /\ sync' = [NoCycle EXCEPT !.pc = "history", !.backup = account.authorized /\ ~account.done]
    /\ UNCHANGED <<gmail, archive, account, mirror, excuses, faults, sends>>

\* The pages of history.list since the anchor.
History ==
    /\ sync.pc = "history" /\ kept <= account.anchor
    /\ LET gone == Since("removed", account.anchor)
       IN  sync' = [sync EXCEPT !.pc = "fetch", !.gone = gone, !.upto = Len(log),
                                !.todo = Since("added", account.anchor) \ gone]
    /\ UNCHANGED <<gmail, archive, account, mirror, excuses, faults, sends>>

\* Mutant: a 404 is an error like any other.
HistoryExpiredRaises ==
    /\ sync.pc = "history" /\ account.anchor < kept /\ sync' = NoCycle
    /\ UNCHANGED <<gmail, archive, account, mirror, excuses, faults, sends>>

\* 404, the anchor has expired: the profile gives the next one, and what the
\* history has told since the anchor will not be read any more.
HistoryExpired ==
    /\ sync.pc = "history" /\ account.anchor < kept
    /\ sync' = [sync EXCEPT !.pc = "catchup", !.upto = Len(log), !.pages = CatchUpPages]
    /\ excuses' = [excuses EXCEPT !.lapsed = @ \cup Since("added", account.anchor)
                                               \cup Since("removed", account.anchor)]
    /\ UNCHANGED <<gmail, archive, account, mirror, faults, sends>>

\* _fetch_and_store: the row is looked up and the message fetched; one that
\* is gone since it was listed is skipped.  History tells the oldest first, a
\* list the newest.
Fetch ==
    /\ sync.pc \in {"fetch", "caught", "page"} /\ sync.todo # {}
    /\ LET m == IF sync.pc = "fetch" THEN Min(sync.todo) ELSE Max(sync.todo)
       IN  sync' = [sync EXCEPT !.todo = @ \ {m},
                                !.staged = IF m \in box THEN @ \cup Unknown({m}) ELSE @]
    /\ UNCHANGED <<gmail, archive, account, mirror, excuses, faults, sends>>

Fetched(pc) == sync.pc = pc /\ sync.todo = {}

ThenBackfill ==
    IF sync.backup THEN [NoCycle EXCEPT !.pc = "backfill", !.pages = CyclePages] ELSE NoCycle

\* Rows, removals and the new anchor are one commit.
Apply ==
    /\ Fetched("fetch")
    /\ Commit(sync.gone, [account EXCEPT !.anchor = sync.upto], ThenBackfill)
    /\ UNCHANGED <<gmail, mirror, faults, sends>>

-----------------------------------------------------------------------------
(***************************************************************************)
(* _catch_up_recent: newest pages until one brings nothing new.            *)
(***************************************************************************)
CatchUpPage ==
    /\ sync.pc = "catchup"
    /\ LET fresh == Unknown(Page(sync.below))
       IN  sync' = [sync EXCEPT !.pc = "caught", !.todo = fresh, !.fresh = fresh # {},
                                !.next = NextToken(sync.below)]
    /\ UNCHANGED <<gmail, archive, account, mirror, excuses, faults, sends>>

CaughtUp == ~sync.fresh \/ sync.next = 0 \/ sync.pages = 1

CatchUpStored ==
    /\ Fetched("caught")
    /\ Commit({}, account,
              [sync EXCEPT !.pc = IF CaughtUp THEN "reanchor" ELSE "catchup",
                           !.staged = {}, !.below = sync.next, !.pages = @ - 1])
    /\ UNCHANGED <<gmail, mirror, faults, sends>>

\* Mutant: the profile is read after the walk.
AnchorLast == Len(log)

\* The anchor the profile gave before the walk.
NewAnchor == sync.upto

\* A walk that stopped at its cap may have left messages out.
Reanchor ==
    /\ sync.pc = "reanchor" /\ sync' = ThenBackfill
    /\ account' = [account EXCEPT !.anchor = NewAnchor]
    /\ excuses' = IF sync.fresh /\ sync.next # 0
                  THEN [excuses EXCEPT !.hidden = @ \cup Missing(archive, sync.next)]
                  ELSE excuses
    /\ UNCHANGED <<gmail, archive, mirror, faults, sends>>

-----------------------------------------------------------------------------
(***************************************************************************)
(* _sync_backfill: the page token is committed with the page's rows.       *)
(***************************************************************************)
Walk(from, saved) ==
    /\ sync.pc = "backfill" /\ account' = saved
    /\ sync' = [sync EXCEPT !.pc = "page", !.todo = Unknown(Page(from)), !.next = NextToken(from)]
    /\ UNCHANGED <<gmail, archive, mirror, excuses, faults, sends>>

BackfillPage == Walk(account.token, account)

WalkedEnough == sync.next = 0 \/ sync.pages = 1

PageStored ==
    /\ Fetched("page")
    /\ Commit({}, [account EXCEPT !.token = sync.next, !.done = sync.next = 0],
              IF WalkedEnough THEN NoCycle
              ELSE [NoCycle EXCEPT !.pc = "backfill", !.pages = sync.pages - 1])
    /\ UNCHANGED <<gmail, mirror, faults, sends>>

-----------------------------------------------------------------------------
(***************************************************************************)
(* Failures of a cycle.                                                    *)
(***************************************************************************)
\* Gmail answers a call with an error: what is staged is committed with it.
AnswerRefused ==
    /\ sync.pc \in {"history", "catchup", "backfill"} \/ sync.todo # {}
    /\ Fault
    /\ IF sync.staged \subseteq Unknown(Ids)
       THEN /\ archive' = Rows(sync.staged, {}) /\ sync' = NoCycle /\ UNCHANGED account
            /\ excuses' = Torn(Rows(sync.staged, {}))
       ELSE RollBack
    /\ UNCHANGED <<gmail, mirror, sends>>

\* A call has no answer, or the cycle is cancelled.
Broken ==
    /\ sync.pc # "idle" /\ Fault /\ RollBack
    /\ UNCHANGED <<gmail, mirror, sends>>

-----------------------------------------------------------------------------
(***************************************************************************)
(* do_send and the campaign's _send_one store the sent mail, and commit it *)
(* together with the record of the send: a conflict loses both.  One that  *)
(* does not get that far is mail that arrives.                             *)
(***************************************************************************)
Send ==
    /\ mirror = NoMirror /\ sends < MaxSends /\ sends' = sends + 1 /\ NewMail
    /\ mirror' = [id |-> arrived + 1, pc |-> "sent"]
    /\ UNCHANGED <<archive, account, sync, excuses, faults>>

MirrorLookUp ==
    /\ mirror.pc = "sent"
    /\ mirror' = [mirror EXCEPT !.pc = IF Stored(mirror.id) THEN "update" ELSE "insert"]
    /\ UNCHANGED <<gmail, archive, account, sync, excuses, faults, sends>>

MirrorCommit ==
    /\ mirror.pc \in {"insert", "update"} /\ mirror' = NoMirror
    /\ IF mirror.pc = "insert" /\ Stored(mirror.id)
       THEN UNCHANGED <<archive, excuses>>
       ELSE /\ archive' = [archive EXCEPT ![mirror.id] = "live"]
            /\ excuses' = [hidden |-> excuses.hidden \cup Missing(archive, mirror.id),
                           lapsed |-> excuses.lapsed \cup ({mirror.id} \ box)]
    /\ UNCHANGED <<gmail, account, sync, faults, sends>>

\* start_backup, or the decision taken after the mailbox was connected.
Authorize ==
    /\ ~account.authorized /\ account' = [account EXCEPT !.authorized = TRUE]
    /\ UNCHANGED <<gmail, archive, sync, mirror, excuses, faults, sends>>

-----------------------------------------------------------------------------
SyncStep ==
    \/ Start \/ History \/ HistoryExpired \/ Fetch \/ Apply
    \/ CatchUpPage \/ CatchUpStored \/ Reanchor \/ BackfillPage \/ PageStored

SyncNext ==
    \/ SyncStep \/ AnswerRefused \/ Broken
    \/ Arrive \/ Remove \/ Expire
    \/ Send \/ MirrorLookUp \/ MirrorCommit \/ Authorize

\* The loop syncs again and again; nobody has to send or to authorize.
SyncSpec == SyncInit /\ [][SyncNext]_syncVars /\ WF_syncVars(SyncStep)

-----------------------------------------------------------------------------
SyncOK ==
    /\ arrived \in Old..(Old + Arrivals) /\ box \subseteq 1..arrived
    /\ log \in Seq([kind : {"added", "removed"}, id : Ids]) /\ kept \in 0..Len(log)
    /\ archive \in [Ids -> {"absent", "live", "deleted"}]
    /\ account \in [anchor : 0..Len(log), token : 0..Top, done : BOOLEAN, authorized : BOOLEAN]
    /\ sync \in [pc : {"idle", "history", "fetch", "catchup", "caught", "reanchor",
                       "backfill", "page"},
                 todo : SUBSET Ids, gone : SUBSET Ids, staged : SUBSET Ids, upto : 0..Len(log),
                 below : 0..Top, next : 0..Top, pages : 0..(CyclePages + CatchUpPages),
                 fresh : BOOLEAN, backup : BOOLEAN]
    /\ mirror \in [id : Ids \cup {0}, pc : {"none", "sent", "insert", "update"}]
    /\ excuses \in [hidden : SUBSET Ids, lapsed : SUBSET Ids]
    /\ faults \in 0..MaxFaults /\ sends \in 0..MaxSends

Behind(kind, m) ==
    \E i \in DOMAIN log : i <= account.anchor /\ log[i] = [kind |-> kind, id |-> m]

\* What the code does lose: mail whose arrival the history will not tell any
\* more, and that a catch-up does not come to, because it lies below rows that
\* one before it had stored when it ended early, below the page at which one
\* was capped, or below a sent mail that a send stored by itself.
Lost(m) == m \in excuses.hidden \cap excuses.lapsed

\* Mail that arrived behind the anchor is in the archive, or the backfill has
\* still to reach it: an anchor that moves too early loses mail for good.
ArrivalsBehindTheAnchorAreStored ==
    \A m \in box : Behind("added", m) => Stored(m) \/ m < account.token \/ Lost(m)

\* A removal behind the anchor is flagged in the archive, unless the history
\* that told it expired unread or a send stored the mail after it was removed.
RemovalsBehindTheAnchorAreFlagged ==
    \A m \in Ids \ excuses.lapsed : Behind("removed", m) => archive[m] # "live"

\* Of the mail that was there at connect time, what the backfill has walked
\* past is in the archive, wherever its cycles failed.
BackfillSkipsNothing ==
    \A m \in box : m <= Old /\ account.token <= m => Stored(m)

\* An authorized backfill reaches the end of the mailbox.
BackfillEnds == account.authorized ~> account.done

\* Mail that arrives after the connection and stays is archived, also when the
\* history that told of it expires, unless it is lost as above.
ArrivalsReachTheArchive ==
    \A m \in (Old + 1)..(Old + Arrivals) :
        m \in box ~> (m \notin box \/ Stored(m) \/ Lost(m))

\* Stated by the header: "mail arriving during a long backfill is still picked
\* up", and an expired anchor falls back "until only known ids appear".
NothingIsLeftOut ==
    account.done => \A m \in box : Behind("added", m) => Stored(m)

\* The page token leaves no old mail behind it.
TokenLeavesNothingBehind == SyncOK /\ BackfillSkipsNothing

\* The anchor leaves no arrival and no removal behind it.
AnchorLeavesNothingBehind ==
    ArrivalsBehindTheAnchorAreStored /\ RemovalsBehindTheAnchorAreFlagged

\* Both walks get where they go.
MailReachesTheArchive == BackfillEnds /\ ArrivalsReachTheArchive

(***************************************************************************)
(* Neither the page token nor the anchor moves over mail that is not       *)
(* stored, through failures, expiries and arrivals, but for the messages   *)
(* that are Lost: the anchor does move over those.                         *)
(***************************************************************************)
CursorsLeaveNothingBehind == TokenLeavesNothingBehind /\ AnchorLeavesNothingBehind
=============================================================================
