---------------------------- MODULE TokenBroker ----------------------------
(***************************************************************************)
(* The tokens a service calls another with.  The broker exchanges the      *)
(* subject token of the caller for one the target accepts, or asks for one *)
(* of the service's own, and caches what it gets per subject.  A lock per  *)
(* key lets one request at a time ask for a key; making room in the cache  *)
(* drops the locks of what it drops.  A job of search holds a subject      *)
(* token that expires under it and goes on as the service itself.          *)
(*                                                                         *)
(* Time counts in ticks.  A step is what runs between two awaits.          *)
(***************************************************************************)
EXTENDS Integers, FiniteSets, FiniteSetsExt

CONSTANTS
    Calls,          \* outbound calls
    SubjectOf,      \* the subject token each was made for
    SubjectUntil,   \* when a subject token expires
    Life,           \* expires_in of what Keycloak issues
    Slack,          \* _EXPIRY_SLACK_SECONDS
    SubjectSlack,   \* _SUBJECT_EXPIRY_SLACK_SECONDS
    Timeout,        \* of a request to Keycloak
    MaxEntries,     \* _CACHE_MAX_ENTRIES
    MaxTime         \* bound: ticks

Subjects == {SubjectOf[c] : c \in Calls}
Service == "service"            \* client credentials: no subject
Keys == Subjects \cup {Service}

\* How long what Keycloak issues is taken for fresh.
FreshFor == Max({1, Life - Slack})

ASSUME BrokerAssumption ==
    /\ IsFiniteSet(Calls)
    /\ Service \notin Subjects /\ SubjectUntil \in [Subjects -> Nat]
    /\ {Life, Slack, SubjectSlack, Timeout} \subseteq Nat /\ MaxTime \in Nat \ {0}
    /\ MaxEntries \in Nat \ {0}

\* Keycloak is not set up to issue tokens that end before they are stale here.
ASSUME LifeAssumption == Timeout + FreshFor <= Life

VARIABLES
    clock,
    cached,     \* per key: until when its token is fresh, when it expires; 0 if none
    lock,       \* per key: which lock object is registered, 0 for none
    outbound,   \* per call: where it is, its key, lock and token
    evicted     \* history: keys dropped to make room

brokerVars == <<clock, cached, lock, outbound, evicted>>

None == [fresh |-> 0, until |-> 0]
NewCall == [pc |-> "new", key |-> Service, lock |-> 0, since |-> 0, until |-> 0]

BrokerInit ==
    /\ clock = 1
    /\ cached = [k \in Keys |-> None]
    /\ lock = [k \in Keys |-> 0]
    /\ outbound = [c \in Calls |-> NewCall]
    /\ evicted = {}

Fresh(k) == clock < cached[k].fresh
Entries == {k \in Keys : cached[k] # None}

-----------------------------------------------------------------------------
\* _effective_subject: a token about to expire is not exchanged any more.
KeyFor(c) ==
    IF clock >= SubjectUntil[SubjectOf[c]] - SubjectSlack THEN Service ELSE SubjectOf[c]

Serve(c, k, l) ==
    outbound' = [outbound EXCEPT ![c] = [pc |-> "served", key |-> k, lock |-> l, since |-> clock,
                                         until |-> cached[k].until]]

CallsAt(k, l, pcs) ==
    {c \in Calls : outbound[c].pc \in pcs /\ outbound[c].key = k /\ outbound[c].lock = l}

\* Mutant: an exchange that failed leaves its lock taken.
NeverReleased(k, l) == CallsAt(k, l, {"asking", "issued", "failed"})
InLock(k, l) == CallsAt(k, l, {"asking", "issued"})
InLine(k, l) == CallsAt(k, l, {"waiting"})

\* A lock nobody has referred to yet.
NewLock == 1 + Max({0} \cup {lock[k] : k \in Keys} \cup {outbound[c].lock : c \in Calls})

\* token_for: a fresh token, or the lock of the key.
Call(c) ==
    /\ outbound[c].pc = "new"
    /\ LET k == KeyFor(c) IN
       IF Fresh(k) THEN Serve(c, k, 0) /\ UNCHANGED lock
       ELSE LET l == IF lock[k] = 0 THEN NewLock ELSE lock[k] IN
            /\ lock' = [lock EXCEPT ![k] = l]
            /\ outbound' = [outbound EXCEPT ![c] =
                    [pc |-> IF InLock(k, l) \cup InLine(k, l) = {} THEN "asking" ELSE "waiting",
                     key |-> k, lock |-> l, since |-> clock, until |-> 0]]
    /\ UNCHANGED <<clock, cached, evicted>>

\* The lock is free: look again, then ask.  Locks are fair; the order in which
\* those in line come is left open.
Acquire(c) ==
    LET k == outbound[c].key IN
    /\ outbound[c].pc = "waiting" /\ InLock(k, outbound[c].lock) = {}
    /\ IF Fresh(k) THEN Serve(c, k, outbound[c].lock)
       ELSE outbound' = [outbound EXCEPT ![c] = [@ EXCEPT !.pc = "asking", !.since = clock]]
    /\ UNCHANGED <<clock, cached, lock, evicted>>

\* Keycloak issues a token, unless the subject has expired meanwhile.
Issue(c) ==
    /\ outbound[c].pc = "asking"
    /\ outbound[c].key # Service => clock < SubjectUntil[outbound[c].key]
    /\ outbound' = [outbound EXCEPT ![c] = [@ EXCEPT !.pc = "issued", !.until = clock + Life]]
    /\ UNCHANGED <<clock, cached, lock, evicted>>

-----------------------------------------------------------------------------
FreshUntil == clock + FreshFor

\* _store: what has expired goes first, then what expires soonest.
Expired == {k \in Entries : ~Fresh(k)}

\* Those whose locks go with them when room is made.
Victims ==
    IF Cardinality(Entries) < MaxEntries THEN {{}}
    ELSE IF Cardinality(Entries \ Expired) < MaxEntries THEN {Expired}
    ELSE {{k} : k \in {j \in Entries : \A i \in Entries : cached[j].fresh <= cached[i].fresh}}

TokenArrives(c) ==
    /\ outbound[c].pc = "issued"
    /\ \E gone \in Victims :
        /\ cached' = [k \in Keys |->
                        IF k = outbound[c].key
                        THEN [fresh |-> FreshUntil, until |-> outbound[c].until]
                        ELSE IF k \in gone THEN None ELSE cached[k]]
        /\ lock' = [k \in Keys |-> IF k \in gone THEN 0 ELSE lock[k]]
        /\ evicted' = evicted \cup gone
    /\ outbound' = [outbound EXCEPT ![c] = [@ EXCEPT !.pc = "served", !.since = clock]]
    /\ UNCHANGED clock

\* ExchangeError: no answer in time, or a refusal; a 503 of the caller.
Fails(c) ==
    /\ outbound[c].pc \in {"asking", "issued"}
    /\ outbound' = [outbound EXCEPT ![c].pc = "failed"]
    /\ UNCHANGED <<clock, cached, lock, evicted>>

\* A request does not outlast its timeout.
Tick ==
    /\ clock < MaxTime /\ clock' = clock + 1
    /\ \A c \in Calls : outbound[c].pc \in {"asking", "issued"} => clock - outbound[c].since < Timeout
    /\ UNCHANGED <<cached, lock, outbound, evicted>>

-----------------------------------------------------------------------------
CallSteps(c) == Acquire(c) \/ Issue(c) \/ TokenArrives(c) \/ Fails(c)

BrokerNext == Tick \/ \E c \in Calls : Call(c) \/ CallSteps(c)

BrokerFairness == \A c \in Calls : WF_brokerVars(CallSteps(c))

BrokerSpec == BrokerInit /\ [][BrokerNext]_brokerVars /\ BrokerFairness

-----------------------------------------------------------------------------
BrokerTypeOK ==
    /\ clock \in 1..MaxTime
    /\ cached \in [Keys -> [fresh : Nat, until : Nat]] /\ lock \in [Keys -> Nat]
    /\ outbound \in [Calls -> [pc : {"new", "waiting", "asking", "issued", "served", "failed"},
                               key : Keys, lock : Nat, since : Nat, until : Nat]]
    /\ evicted \subseteq Keys

(***************************************************************************)
(* A token that is handed out, from the cache or from Keycloak, is not     *)
(* expired then, however long its answer took and whoever waited for it.   *)
(***************************************************************************)
TokensAreValid ==
    \A c \in Calls : outbound[c].pc = "served" => outbound[c].since < outbound[c].until

(***************************************************************************)
(* Tokens are never exchanged per request: of one key one request asks at  *)
(* a time, and none while its token is fresh, unless its lock was dropped. *)
(***************************************************************************)
OneExchangePerKey ==
    \A k \in Keys \ evicted :
        LET asking == {c \in Calls : outbound[c].pc = "asking" /\ outbound[c].key = k} IN
        Cardinality(asking) <= 1 /\ (asking # {} => ~Fresh(k))

TokensAreShared ==
    BrokerTypeOK /\ TokensAreValid /\ OneExchangePerKey /\ Cardinality(Entries) <= MaxEntries

\* Whoever asks for a token has one or an error in the end.
CallsAreAnswered ==
    \A c \in Calls : outbound[c].pc # "new" ~> outbound[c].pc \in {"served", "failed"}
=============================================================================
