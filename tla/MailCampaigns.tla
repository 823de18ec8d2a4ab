---------------------------- MODULE MailCampaigns ----------------------------
(***************************************************************************)
(* Outreach campaigns of the mail service.  A pacing loop and the ticks    *)
(* that a start spawns send a campaign's pending recipients from its       *)
(* owner's mailboxes; users start, pause, cancel and continue campaigns;   *)
(* one-off sends share the log, the suppression and the daily cap with     *)
(* them.  A lock keeps two ticks off one campaign; nothing orders ticks of *)
(* different campaigns, one-off sends and requests.                        *)
(*                                                                         *)
(* Gmail is external: it delivers a mail or refuses it, and its answer may *)
(* never arrive.  A step is what runs between two awaits.                  *)
(***************************************************************************)
EXTENDS Naturals, FiniteSets, Functions, FiniteSetsExt

CONSTANTS
    Campaigns, People,
    Lists,          \* per campaign: the people of the lists it was created with
    Domains,        \* the sending domains of the owner's mailboxes
    Sequential,     \* campaigns with send_strategy "sequential"
    Callers,        \* clients of the one-off send, one request each at a time
    Users,          \* clients of the campaign routes, one request each at a time
    Caps,           \* values the per-domain daily cap is set to
    PerCycle,       \* campaign_sends_per_domain_per_cycle
    MaxLosses,      \* bound: crashes and answers that never arrive
    MaxRequests     \* bound: requests about campaigns and their settings

ASSUME ListsAssumption == Lists \in [Campaigns -> SUBSET People]
ASSUME CapsAssumption == Caps \subseteq Nat \ {0} /\ Caps # {} /\ PerCycle \in Nat \ {0}

None == "none"

ASSUME SendersAssumption ==
    /\ IsFiniteSet(Campaigns) /\ IsFiniteSet(Callers) /\ Campaigns \cap Callers = {}
    /\ None \notin People \cup Domains
ASSUME BoundsAssumption == MaxLosses \in Nat /\ MaxRequests \in Nat

Senders == Campaigns \cup Callers

VARIABLES
    status,         \* per campaign: its row's status
    pool,           \* per campaign and person: the recipient row's status
    contacted,      \* per sender: people with a "sent" row in the log
    sentToday,      \* per sender and domain: rows of the log since midnight
    cap, mailbox,   \* CampaignSettings; per domain: the account's status
    tick, loop,     \* per campaign: the tick that holds its lock; the pacer
    spawned,        \* campaigns whose start left a tick to run
    direct,         \* per caller: where its do_send is
    request,        \* per user: what its request has read
    delivered,      \* history: mails Gmail delivered, per sender and person
    lost,           \* history: those of them that were never recorded
    highest,        \* history: the largest cap so far
    raced,          \* history: people two senders were mailing side by side
    losses, requests    \* counters for the bounds

sending == <<contacted, sentToday, delivered, lost, raced, losses>>
vars == <<status, pool, cap, highest, mailbox, tick, loop, spawned, direct, request, requests, sending>>

Idle == [pc |-> "idle", by |-> None, todo |-> {}, budget |-> [d \in Domains |-> 0],
         person |-> None, domain |-> None]
AtRest == [to |-> None, domain |-> None]
NoRequest == [op |-> None]

Init ==
    /\ status = [c \in Campaigns |-> "draft"]
    /\ pool = [c \in Campaigns |-> [p \in People |-> IF p \in Lists[c] THEN "pending" ELSE "none"]]
    /\ contacted = [s \in Senders |-> {}]
    /\ sentToday = [s \in Senders |-> [d \in Domains |-> 0]]
    /\ cap \in Caps /\ highest = cap
    /\ mailbox = [d \in Domains |-> "active"]
    /\ tick = [c \in Campaigns |-> Idle]
    /\ loop = [queue |-> {}, at |-> None]
    /\ spawned = {}
    /\ direct = [k \in Callers |-> AtRest]
    /\ request = [u \in Users |-> NoRequest]
    /\ delivered = [s \in Senders |-> [p \in People |-> 0]]
    /\ lost = [s \in Senders |-> [p \in People |-> 0]]
    /\ raced = {}
    /\ losses = 0 /\ requests = 0

Pending(c) == {p \in People : pool[c][p] = "pending"}

-----------------------------------------------------------------------------
(***************************************************************************)
(* Suppression, the cap and the log of sends.                              *)
(***************************************************************************)
\* suppression_reason and _contacted_set, without a cooldown window.
Contacted(p) == \E s \in Senders : p \in contacted[s]

\* global_domain_sent_today.
SentToday(d) == MapThenSumSet(LAMBDA s : sentToday[s][d], Senders)

\* Mutant: the whole cap is given to every cycle.
CapEachCycle(d) == cap

Remaining(d) == IF SentToday(d) < cap THEN cap - SentToday(d) ELSE 0

\* A mail to p is on its way, not recorded yet.
OnItsWay(s, p) ==
    \/ s \in Campaigns /\ tick[s].person = p
    \/ s \in Callers /\ direct[s].to = p

InFlight(p) == \E s \in Senders : OnItsWay(s, p)

PassCheck(p) ==
    /\ ~Contacted(p)
    /\ raced' = IF InFlight(p) THEN raced \cup {p} ELSE raced

Delivered(s, p) == delivered' = [delivered EXCEPT ![s][p] = @ + 1]
LoseRecord(s, p) == lost' = [lost EXCEPT ![s][p] = @ + 1]

\* One row of CampaignMessage, committed.
Record(s, p, d) ==
    /\ contacted' = [contacted EXCEPT ![s] = @ \cup {p}]
    /\ sentToday' = [sentToday EXCEPT ![s][d] = @ + 1]

-----------------------------------------------------------------------------
(***************************************************************************)
(* The pacing loop: tick_all reads the running campaigns and ticks them    *)
(* one after the other; it waits where a spawned tick holds the lock.      *)
(***************************************************************************)
TickAll ==
    /\ loop = [queue |-> {}, at |-> None]
    /\ \E c \in Campaigns : status[c] = "running"
    /\ loop' = [queue |-> {c \in Campaigns : status[c] = "running"}, at |-> None]
    /\ UNCHANGED <<status, pool, cap, highest, mailbox, tick, spawned, direct, request, requests, sending>>

NextCampaign ==
    /\ loop.at = None
    /\ \E c \in loop.queue : loop' = [queue |-> loop.queue \ {c}, at |-> c]
    /\ UNCHANGED <<status, pool, cap, highest, mailbox, tick, spawned, direct, request, requests, sending>>

\* The end of a tick gives the lock back, and the loop its turn.
Release(c) ==
    /\ tick' = [tick EXCEPT ![c] = Idle]
    /\ loop' = IF tick[c].by = "loop" THEN [loop EXCEPT !.at = None] ELSE loop

\* The tick's only look at the campaign's status.
Enter(c, by) ==
    IF status[c] = "running"
    THEN /\ tick' = [tick EXCEPT ![c] = [Idle EXCEPT !.pc = "entered", !.by = by]]
         /\ UNCHANGED loop
    ELSE /\ UNCHANGED tick
         /\ loop' = IF by = "loop" THEN [loop EXCEPT !.at = None] ELSE loop

LoopTick(c) ==
    /\ loop.at = c /\ tick[c].pc = "idle" /\ Enter(c, "loop")
    /\ UNCHANGED <<status, pool, cap, highest, mailbox, spawned, direct, request, requests, sending>>

SpawnedTick(c) ==
    /\ c \in spawned /\ tick[c].pc = "idle" /\ Enter(c, "start")
    /\ spawned' = spawned \ {c}
    /\ UNCHANGED <<status, pool, cap, highest, mailbox, direct, request, requests, sending>>

-----------------------------------------------------------------------------
(***************************************************************************)
(* _tick_locked.                                                           *)
(***************************************************************************)
Smaller(m, n) == IF m < n THEN m ELSE n

\* _budget: what the cap leaves of each usable domain for this cycle; the
\* sequential strategy opens one domain that has anything left.
Budgets(c) ==
    LET usable == {d \in Domains : mailbox[d] = "active" /\ Remaining(d) > 0}
        opened(open) == [d \in Domains |->
            IF d \in open THEN Smaller(Remaining(d), PerCycle) ELSE 0]
    IN  IF c \in Sequential /\ usable # {}
        THEN {opened({d}) : d \in usable}
        ELSE {opened(usable)}

Spent(b) == \A d \in Domains : b[d] = 0

\* The mailboxes, the budget and the pending recipients.
Plan(c) ==
    /\ tick[c].pc = "entered"
    /\ \E b \in Budgets(c) :
        LET next == [tick[c] EXCEPT !.pc = "sending", !.budget = b, !.todo = Pending(c)]
        IN  CASE \A d \in Domains : mailbox[d] = "error" -> Release(c)
              [] Pending(c) = {} ->
                    tick' = [tick EXCEPT ![c].pc = "drained"] /\ UNCHANGED loop
              [] Spent(b) /\ Pending(c) # {} -> Release(c)
              [] OTHER -> tick' = [tick EXCEPT ![c] = next] /\ UNCHANGED loop
    /\ UNCHANGED <<status, pool, cap, highest, mailbox, spawned, direct, request, requests, sending>>

BetweenMails(c) == tick[c].pc = "sending" /\ tick[c].person = None

SetPool(c, p, to) == pool' = [pool EXCEPT ![c][p] = to]

\* suppression_reason answered, the decision is committed.
Suppress(c) ==
    /\ BetweenMails(c) /\ ~Spent(tick[c].budget)
    /\ \E p \in tick[c].todo :
        /\ Contacted(p) /\ SetPool(c, p, "suppressed")
        /\ tick' = [tick EXCEPT ![c].todo = @ \ {p}]
    /\ UNCHANGED <<status, cap, highest, mailbox, loop, spawned, direct, request, requests, sending>>

\* _pick_domain: balanced takes a domain with the most budget left.
Picks(c, d) ==
    /\ tick[c].budget[d] > 0
    /\ c \notin Sequential =>
        \A e \in Domains : tick[c].budget[e] <= tick[c].budget[d]

StartSend(c) ==
    /\ BetweenMails(c)
    /\ \E p \in tick[c].todo, d \in Domains :
        /\ Picks(c, d) /\ PassCheck(p)
        /\ tick' = [tick EXCEPT ![c].todo = @ \ {p}, ![c].person = p, ![c].domain = d]
    /\ UNCHANGED <<status, pool, cap, highest, mailbox, loop, spawned, direct, request, requests,
                   contacted, sentToday, delivered, lost, losses>>

OnTheWire(c) == tick[c].pc = "sending" /\ tick[c].person # None

NextMail(c) == [tick[c] EXCEPT !.person = None, !.domain = None]

\* Mutant: the session is not committed after the mail.
SentUncommitted(c) ==
    /\ OnTheWire(c) /\ Delivered(c, tick[c].person)
    /\ tick' = [tick EXCEPT ![c] = [NextMail(c) EXCEPT !.budget[tick[c].domain] = @ - 1]]
    /\ UNCHANGED <<status, pool, cap, highest, mailbox, loop, spawned, direct, request, requests,
                   contacted, sentToday, lost, raced, losses>>

\* Gmail took the mail; the row, the recipient's status and the budget are
\* committed.  What can come between is NoAnswer and Restart.
Sent(c) ==
    LET p == tick[c].person
        d == tick[c].domain
    IN  /\ OnTheWire(c) /\ Delivered(c, p)
        /\ Record(c, p, d) /\ SetPool(c, p, "sent")
        /\ tick' = [tick EXCEPT ![c] = [NextMail(c) EXCEPT !.budget[d] = @ - 1]]
        /\ UNCHANGED <<status, cap, highest, mailbox, loop, spawned, direct, request, requests,
                       lost, raced, losses>>

\* A refusal fails the recipient and costs no budget.  Rejected credentials
\* also put the mailbox in error, but this tick goes on using it.
Refused(c) ==
    /\ OnTheWire(c) /\ SetPool(c, tick[c].person, "failed")
    /\ tick' = [tick EXCEPT ![c] = NextMail(c)]
    /\ \/ mailbox' = [mailbox EXCEPT ![tick[c].domain] = "error"]
       \/ UNCHANGED mailbox
    /\ UNCHANGED <<status, cap, highest, loop, spawned, direct, request, requests, sending>>

\* No answer: the exception leaves the tick, whatever Gmail did.
NoAnswer(c) ==
    /\ OnTheWire(c) /\ losses < MaxLosses /\ losses' = losses + 1
    /\ \/ Delivered(c, tick[c].person) /\ LoseRecord(c, tick[c].person)
       \/ UNCHANGED <<delivered, lost>>
    /\ Release(c)
    /\ UNCHANGED <<status, pool, cap, highest, mailbox, spawned, direct, request, requests,
                   contacted, sentToday, raced>>

\* The slice or the budget is used up: count what is pending.
Recount(c) ==
    /\ BetweenMails(c) /\ (tick[c].todo = {} \/ Spent(tick[c].budget))
    /\ IF Pending(c) = {}
       THEN tick' = [tick EXCEPT ![c] = [Idle EXCEPT !.pc = "drained", !.by = tick[c].by]]
            /\ UNCHANGED loop
       ELSE Release(c)
    /\ UNCHANGED <<status, pool, cap, highest, mailbox, spawned, direct, request, requests, sending>>

\* The session still holds the row as the tick first read it, so the second
\* look at the status sees "running" whatever was committed meanwhile.
Complete(c) ==
    /\ tick[c].pc = "drained" /\ Release(c)
    /\ status' = [status EXCEPT ![c] = "completed"]
    /\ UNCHANGED <<pool, cap, highest, mailbox, spawned, direct, request, requests, sending>>

TickStep(c) ==
    \/ LoopTick(c) \/ SpawnedTick(c) \/ Plan(c)
    \/ Suppress(c) \/ StartSend(c) \/ Sent(c) \/ Refused(c)
    \/ Recount(c) \/ Complete(c)

-----------------------------------------------------------------------------
(***************************************************************************)
(* The routes: what a request read, then what it commits.                  *)
(***************************************************************************)
Ended(c) == status[c] \in {"completed", "cancelled"}

Read(u, r) ==
    /\ request[u] = NoRequest /\ requests < MaxRequests
    /\ requests' = requests + 1
    /\ request' = [request EXCEPT ![u] = r]
    /\ UNCHANGED <<status, pool, cap, highest, mailbox, tick, loop, spawned, direct, sending>>

\* start, and resume with its stricter guard.  The confirmation was given.
ReadForStart(u, c) ==
    /\ ~Ended(c) /\ (status[c] = "draft" => Pending(c) # {})
    /\ Read(u, [op |-> "start", of |-> c])

ReadForPause(u, c) == status[c] = "running" /\ Read(u, [op |-> "pause", of |-> c])

ReadForCancel(u, c) == ~Ended(c) /\ Read(u, [op |-> "cancel", of |-> c])

\* merge_recipients: who is new, and of them who was contacted already.  The
\* campaign's status is not looked at.
ReadForAdd(u, c) ==
    \E list \in SUBSET People \ {{}} :
        LET new == {p \in list : pool[c][p] = "none"}
        IN  Read(u, [op |-> "add", of |-> c, pending |-> {p \in new : ~Contacted(p)},
                     suppressed |-> {p \in new : Contacted(p)}])

Answered(u) == request' = [request EXCEPT ![u] = NoRequest]

CommitStatus(u) ==
    /\ request[u].op \in {"start", "pause", "cancel"} /\ Answered(u)
    /\ LET c == request[u].of
           to == CASE request[u].op = "start"  -> "running"
                   [] request[u].op = "pause"  -> "paused"
                   [] request[u].op = "cancel" -> "cancelled"
       IN  /\ status' = [status EXCEPT ![c] = to]
           /\ spawned' = IF to = "running" THEN spawned \cup {c} ELSE spawned
    /\ UNCHANGED <<pool, cap, highest, mailbox, tick, loop, direct, requests, sending>>

\* The unique (campaign, email) row: a merge that lost a race is rolled back.
CommitAdd(u) ==
    /\ request[u].op = "add" /\ Answered(u)
    /\ LET r == request[u]
       IN  pool' = IF \A p \in r.pending \cup r.suppressed : pool[r.of][p] = "none"
                   THEN [pool EXCEPT ![r.of] = [p \in People |->
                            IF p \in r.pending THEN "pending"
                            ELSE IF p \in r.suppressed THEN "suppressed" ELSE @[p]]]
                   ELSE pool
    /\ UNCHANGED <<status, cap, highest, mailbox, tick, loop, spawned, direct, requests, sending>>

SetCap ==
    /\ requests < MaxRequests /\ requests' = requests + 1
    /\ cap' \in Caps \ {cap} /\ highest' = Max({highest, cap'})
    /\ UNCHANGED <<status, pool, mailbox, tick, loop, spawned, direct, request, sending>>

-----------------------------------------------------------------------------
(***************************************************************************)
(* do_send: enforce_direct_send, Gmail, record_direct_send.                *)
(***************************************************************************)
DirectCheck(k) ==
    /\ direct[k] = AtRest
    /\ \E p \in People, d \in Domains :
        /\ PassCheck(p) /\ SentToday(d) + 1 <= cap
        /\ direct' = [direct EXCEPT ![k] = [to |-> p, domain |-> d]]
    /\ UNCHANGED <<status, pool, cap, highest, mailbox, tick, loop, spawned, request, requests,
                   contacted, sentToday, delivered, lost, losses>>

DirectSent(k) ==
    /\ direct[k] # AtRest /\ Delivered(k, direct[k].to)
    /\ Record(k, direct[k].to, direct[k].domain)
    /\ direct' = [direct EXCEPT ![k] = AtRest]
    /\ UNCHANGED <<status, pool, cap, highest, mailbox, tick, loop, spawned, request, requests,
                   lost, raced, losses>>

\* Refused, with the mailbox in error when it was the credentials.
DirectRefused(k) ==
    /\ direct[k] # AtRest
    /\ \/ mailbox' = [mailbox EXCEPT ![direct[k].domain] = "error"]
       \/ UNCHANGED mailbox
    /\ direct' = [direct EXCEPT ![k] = AtRest]
    /\ UNCHANGED <<status, pool, cap, highest, tick, loop, spawned, request, requests, sending>>

\* The sent mail is fetched back before it is recorded: when that fails the
\* request fails, and the mail is out without a row.
DirectNotFetched(k) ==
    /\ direct[k] # AtRest /\ losses < MaxLosses /\ losses' = losses + 1
    /\ Delivered(k, direct[k].to) /\ LoseRecord(k, direct[k].to)
    /\ direct' = [direct EXCEPT ![k] = AtRest]
    /\ UNCHANGED <<status, pool, cap, highest, mailbox, tick, loop, spawned, request, requests,
                   contacted, sentToday, raced>>

-----------------------------------------------------------------------------
(***************************************************************************)
(* Midnight, a successful sync of a mailbox, a restart of the service.     *)
(***************************************************************************)
Midnight ==
    /\ \E s \in Senders, d \in Domains : sentToday[s][d] > 0
    /\ sentToday' = [s \in Senders |-> [d \in Domains |-> 0]]
    /\ UNCHANGED <<status, pool, cap, highest, mailbox, tick, loop, spawned, direct, request, requests,
                   contacted, delivered, lost, raced, losses>>

Synced(d) ==
    /\ mailbox[d] = "error" /\ mailbox' = [mailbox EXCEPT ![d] = "active"]
    /\ UNCHANGED <<status, pool, cap, highest, tick, loop, spawned, direct, request, requests, sending>>

\* Gmail took any of the mails on their way; none of them is recorded.
Restart ==
    /\ losses < MaxLosses /\ losses' = losses + 1
    /\ \E taken \in SUBSET {sp \in Senders \X People : OnItsWay(sp[1], sp[2])} :
        LET more == [s \in Senders |-> [p \in People |-> IF <<s, p>> \in taken THEN 1 ELSE 0]]
        IN  /\ delivered' = [s \in Senders |-> [p \in People |-> delivered[s][p] + more[s][p]]]
            /\ lost' = [s \in Senders |-> [p \in People |-> lost[s][p] + more[s][p]]]
    /\ tick' = [c \in Campaigns |-> Idle]
    /\ loop' = [queue |-> {}, at |-> None]
    /\ spawned' = {}
    /\ direct' = [k \in Callers |-> AtRest]
    /\ request' = [u \in Users |-> NoRequest]
    /\ UNCHANGED <<status, pool, cap, highest, mailbox, requests, contacted, sentToday, raced>>

-----------------------------------------------------------------------------
DirectStep(k) ==
    DirectCheck(k) \/ DirectSent(k) \/ DirectRefused(k)

Next ==
    \/ TickAll \/ NextCampaign \/ SetCap \/ Midnight \/ Restart
    \/ \E c \in Campaigns : TickStep(c) \/ NoAnswer(c)
    \/ \E k \in Callers : DirectStep(k) \/ DirectNotFetched(k)
    \/ \E u \in Users : CommitStatus(u) \/ CommitAdd(u)
    \/ \E u \in Users, c \in Campaigns :
        ReadForStart(u, c) \/ ReadForPause(u, c) \/ ReadForCancel(u, c) \/ ReadForAdd(u, c)
    \/ \E d \in Domains : Synced(d)

Spec == Init /\ [][Next]_vars

\* The loop and its ticks run on, midnight comes, mailboxes recover; no
\* request, restart or lost answer has to happen.
FairSpec ==
    /\ Spec
    /\ WF_vars(TickAll) /\ WF_vars(NextCampaign) /\ WF_vars(Midnight)
    /\ \A c \in Campaigns : WF_vars(TickStep(c))
    /\ \A d \in Domains : WF_vars(Synced(d))

-----------------------------------------------------------------------------
Tick ==
    [pc : {"idle", "entered", "sending", "drained"}, by : {None, "loop", "start"},
     todo : SUBSET People, budget : [Domains -> Nat],
     person : People \cup {None}, domain : Domains \cup {None}]
Direct == [to : People \cup {None}, domain : Domains \cup {None}]
Request ==
    {NoRequest} \cup [op : {"start", "pause", "cancel"}, of : Campaigns]
        \cup [op : {"add"}, of : Campaigns, pending : SUBSET People, suppressed : SUBSET People]

TypeOK ==
    /\ status \in [Campaigns -> {"draft", "running", "paused", "completed", "cancelled"}]
    /\ pool \in [Campaigns -> [People -> {"none", "pending", "sent", "suppressed", "failed"}]]
    /\ contacted \in [Senders -> SUBSET People]
    /\ sentToday \in [Senders -> [Domains -> Nat]]
    /\ cap \in Caps /\ highest \in Caps /\ mailbox \in [Domains -> {"active", "error"}]
    /\ tick \in [Campaigns -> Tick] /\ direct \in [Callers -> Direct]
    /\ request \in [Users -> Request]
    /\ loop \in [queue : SUBSET Campaigns, at : Campaigns \cup {None}]
    /\ spawned \subseteq Campaigns
    /\ delivered \in [Senders -> [People -> Nat]] /\ lost \in [Senders -> [People -> Nat]]
    /\ raced \subseteq People /\ losses \in 0..MaxLosses /\ requests \in 0..MaxRequests

\* A campaign or a caller mails a person once, and once more for every mail
\* whose record a crash or a missing answer took: its ticks never send side by
\* side, and each mail is committed before the next.
NobodyTwiceBySender ==
    \A s \in Senders, p \in People : delivered[s][p] <= 1 + lost[s][p]

\* A person gets mail that is recorded from one sender only, unless two of them
\* passed the check side by side.
SuppressionHoldsAcrossSenders ==
    \A p \in People \ raced : \A s, t \in Senders :
        delivered[s][p] > lost[s][p] /\ delivered[t][p] > lost[t][p] => s = t

\* No sender alone records more than the cap, the largest there was, from a
\* domain in one day, however its cycles, midnight and the others' sends fall.
NoSenderExceedsTheCap ==
    \A s \in Senders, d \in Domains : sentToday[s][d] <= highest

\* The recipient rows agree with the log and with Gmail: sent means recorded,
\* pending and failed mean unrecorded, suppressed means somebody's row.
PoolAgreesWithTheLog ==
    \A c \in Campaigns, p \in People :
        /\ pool[c][p] = "sent" <=> p \in contacted[c]
        /\ pool[c][p] = "suppressed" => Contacted(p)
        /\ pool[c][p] = "failed" => delivered[c][p] = lost[c][p]

\* Stated by the module's header, "never message the same person twice in one
\* campaign", and by the comment that a crash "must never re-send".
NeverTwiceInACampaign ==
    \A c \in Campaigns, p \in People : delivered[c][p] <= 1

\* Stated by global_domain_sent_today: "the cap holds globally, so N campaigns
\* can no longer each send a full cap".
CapHoldsGlobally == \A d \in Domains : SentToday(d) <= Max(Caps)

\* "A campaign is continuable": recipients merged into it can still be sent.
ContinuedIsNotOver ==
    \A c \in Campaigns : status[c] = "completed" => Pending(c) = {}

\* A running campaign does not run for ever: it is drained day by day or a
\* request stops it, unless its mailboxes are all in error.
RunningCampaignEnds ==
    \A c \in Campaigns :
        status[c] = "running" ~>
            (status[c] # "running" \/ \A d \in Domains : mailbox[d] = "error")

\* The recipient rows, the log and Gmail agree.
RowsMatchTheLog == TypeOK /\ PoolAgreesWithTheLog

\* Nobody is mailed twice, by one campaign or by two senders.
NobodyIsMailedTwice == NobodyTwiceBySender /\ SuppressionHoldsAcrossSenders

\* The rows are true and keep everybody from being mailed twice.
RowsKeepMailSingle == RowsMatchTheLog /\ NobodyIsMailedTwice
=============================================================================
