----------------------------- MODULE Admission -----------------------------
(***************************************************************************)
(* The door of every service: PrincipalMiddleware reads the bearer token   *)
(* of a request, verifies it with a key of the identity provider, and asks *)
(* the role grants.  The keys are cached per process: refreshed when they  *)
(* are old or a token names one that is not there, one refresh at a time   *)
(* and not more often than an interval allows.  The provider rotates its   *)
(* keys and may be out of reach.                                           *)
(*                                                                         *)
(* A time is kept as its age in ticks, up to an age beyond which nothing   *)
(* tells one from the next.  A step is what runs between two awaits.       *)
(***************************************************************************)
EXTENDS Integers, Sequences, FiniteSets, SequencesExt

CONSTANTS
    Visits,         \* slots for requests, one after the other in each
    SigningKeys,    \* the provider's keys, in the order it publishes them
    Asks,           \* what a request may ask: its token's key, whether the token is in
                    \* order, its roles, and the route, which may be anonymous
    Grants,         \* per role: what it grants
    KeyTTL,         \* _JWKS_TTL_SECONDS
    Interval,       \* _JWKS_MIN_REFRESH_INTERVAL_SECONDS
    FetchTimeout,   \* of the fetch
    MaxOutages      \* bound: times the provider goes out of reach

Nobody == "none"        \* no token, or one that cannot be parsed
KeyIds == ToSet(SigningKeys)

\* The age of what happened long ago, or never.
LongAgo == KeyTTL + FetchTimeout
Older(age) == IF age = LongAgo THEN LongAgo ELSE age + 1

ASSUME AdmissionAssumption ==
    /\ SigningKeys \in Seq(STRING) /\ SigningKeys # << >> /\ IsInjective(SigningKeys)
    /\ Nobody \notin KeyIds /\ \A ask \in Asks : ask.good => ask.kid \in KeyIds
    /\ {KeyTTL, Interval, FetchTimeout, MaxOutages} \subseteq Nat
    /\ FetchTimeout \in 1..Interval /\ Interval + FetchTimeout < KeyTTL

VARIABLES
    provider,   \* the state of each key and its age; in reach; outages
    jwks,       \* _JwksCache: keys, last fetch, last attempt, whether that failed
    visit,      \* per slot for a request: where it is and what it asks
    line,       \* the slots that wait for the lock, which is fair
    verdict     \* history: the last answer, as long as it is now

doorVars == <<provider, jwks, visit, line, verdict>>

NoVisit == [pc |-> "free"]
NoVerdict == [code |-> 0]

AdmissionInit ==
    /\ provider = [key |-> [k \in KeyIds |-> IF k = SigningKeys[1] THEN "served" ELSE "future"],
                   age |-> [k \in KeyIds |-> LongAgo], up |-> TRUE, outages |-> 0]
    /\ jwks = [keys |-> {}, fetched |-> LongAgo, attempted |-> LongAgo, failed |-> FALSE]
    /\ visit = [v \in Visits |-> NoVisit] /\ line = << >> /\ verdict = NoVerdict

-----------------------------------------------------------------------------
(***************************************************************************)
(* The identity provider.                                                  *)
(***************************************************************************)
Published == {k \in KeyIds : provider.key[k] = "served"}

KeyBecomes(k, state) ==
    provider' = [provider EXCEPT !.key = [@ EXCEPT ![k] = state], !.age = [@ EXCEPT ![k] = 0]]

Rotate(i) ==
    /\ i > 1 /\ provider.key[SigningKeys[i]] = "future" /\ provider.key[SigningKeys[i - 1]] # "future"
    /\ KeyBecomes(SigningKeys[i], "served")
    /\ UNCHANGED <<jwks, visit, line, verdict>>

\* Not the newest.
Retire(i) ==
    /\ i < Len(SigningKeys) /\ SigningKeys[i] \in Published /\ SigningKeys[i + 1] \in Published
    /\ KeyBecomes(SigningKeys[i], "retired")
    /\ UNCHANGED <<jwks, visit, line, verdict>>

Reach ==
    /\ provider.up => provider.outages < MaxOutages
    /\ provider' = [provider EXCEPT !.up = ~@, !.outages = IF provider.up THEN @ + 1 ELSE @]
    /\ UNCHANGED <<jwks, visit, line, verdict>>

-----------------------------------------------------------------------------
(***************************************************************************)
(* grants_allow: a path is a sequence of segments, so a prefix ends where  *)
(* a segment does.                                                         *)
(***************************************************************************)
Covers(grant, ask) ==
    /\ grant.service \in {ask.service, "*"}
    /\ {"*", ask.method} \cap grant.methods # {}
    /\ IsPrefix(grant.prefix, ask.path)

GrantsAllow(ask) ==
    \E role \in ask.roles \cap DOMAIN Grants : \E grant \in Grants[role] : Covers(grant, ask)

\* The middleware, behind parse_token: 503 before 401, 401 before 403; an
\* anonymous route is open to all.
Answer(ask, outcome) ==
    IF ask.anonymous THEN 200
    ELSE IF outcome = "unavailable" THEN 503
    ELSE IF outcome = "refused" \/ ~ask.good THEN 401
    ELSE IF GrantsAllow(ask) THEN 200 ELSE 403

Answered(v, ask, outcome) ==
    /\ visit' = [visit EXCEPT ![v] = NoVisit]
    /\ verdict' = [code |-> Answer(ask, outcome), ask |-> ask]

-----------------------------------------------------------------------------
(***************************************************************************)
(* key_for.                                                                *)
(***************************************************************************)
KeyFresh(k) == k \in jwks.keys /\ jwks.fetched < KeyTTL

AtLock == {v \in Visits : visit[v].pc \in {"fetching", "read"}}

\* A token in order was signed with a key that was published.
Come(v) ==
    /\ visit[v].pc = "free"
    /\ \E ask \in Asks :
        /\ ask.good => provider.key[ask.kid] # "future"
        /\ IF ask.kid = Nobody THEN Answered(v, ask, "refused") /\ UNCHANGED line
           ELSE IF KeyFresh(ask.kid) THEN Answered(v, ask, "key") /\ UNCHANGED line
           ELSE /\ visit' = [visit EXCEPT ![v] = [pc |-> "waiting", ask |-> ask, read |-> {}]]
                /\ line' = Append(line, v) /\ UNCHANGED verdict
    /\ UNCHANGED <<provider, jwks>>

\* What the cache says of a key that is not fresh, under the lock.
Outcome(k) ==
    IF k \in jwks.keys THEN "key" ELSE IF jwks.failed THEN "unavailable" ELSE "refused"

MayRefresh == jwks.attempted >= Interval

\* The lock is free: look again, and refresh or make do with what is there.
LookAgain(v) ==
    LET ask == visit[v].ask IN
    /\ line # << >> /\ v = Head(line) /\ AtLock = {} /\ line' = Tail(line)
    /\ IF ~KeyFresh(ask.kid) /\ MayRefresh
       THEN /\ jwks' = [jwks EXCEPT !.attempted = 0]
            /\ visit' = [visit EXCEPT ![v].pc = "fetching"]
            /\ UNCHANGED verdict
       ELSE Answered(v, ask, Outcome(ask.kid)) /\ UNCHANGED jwks
    /\ UNCHANGED <<provider>>

\* _refresh: the provider's keys are read, and the answer is on its way.
ReadKeys(v) ==
    /\ visit[v].pc = "fetching" /\ provider.up
    /\ visit' = [visit EXCEPT ![v] = [@ EXCEPT !.pc = "read", !.read = Published]]
    /\ UNCHANGED <<provider, jwks, line, verdict>>

Refreshed(v) ==
    LET ask == visit[v].ask IN
    /\ visit[v].pc = "read"
    /\ jwks' = [jwks EXCEPT !.keys = visit[v].read, !.fetched = 0, !.failed = FALSE]
    /\ Answered(v, ask, IF ask.kid \in visit[v].read THEN "key" ELSE "refused")
    /\ UNCHANGED <<provider, line>>

\* Mutant: a refresh that failed counts as one that was made.
FailedRefresh == [jwks EXCEPT !.fetched = 0, !.failed = TRUE]

AfterFailure == [jwks EXCEPT !.failed = TRUE]

\* No answer in time, or a bad one: the keys that are there stay.
RefreshFails(v) ==
    LET ask == visit[v].ask IN
    /\ visit[v].pc \in {"fetching", "read"}
    /\ jwks' = AfterFailure
    /\ Answered(v, ask, IF ask.kid \in jwks.keys THEN "key" ELSE "unavailable")
    /\ UNCHANGED <<provider, line>>

\* A fetch does not outlast its timeout.
TimePasses ==
    /\ AtLock # {} => jwks.attempted < FetchTimeout
    /\ provider' = [provider EXCEPT !.age = [k \in KeyIds |-> Older(@[k])]]
    /\ jwks' = [jwks EXCEPT !.fetched = Older(@), !.attempted = Older(@)]
    /\ verdict' = NoVerdict
    /\ UNCHANGED <<visit, line>>

-----------------------------------------------------------------------------
VisitStep(v) == LookAgain(v) \/ ReadKeys(v) \/ Refreshed(v) \/ RefreshFails(v)

AdmissionNext ==
    \/ \E i \in DOMAIN SigningKeys : Rotate(i) \/ Retire(i)
    \/ Reach \/ TimePasses
    \/ \E v \in Visits : Come(v) \/ VisitStep(v)

\* The event loop runs on and a fetch ends, one way or the other.
AdmissionFairness == \A v \in Visits : WF_doorVars(VisitStep(v))

AdmissionSpec == AdmissionInit /\ [][AdmissionNext]_doorVars /\ AdmissionFairness

-----------------------------------------------------------------------------
AdmissionTypeOK ==
    /\ provider \in [key : [KeyIds -> {"future", "served", "retired"}], age : [KeyIds -> 0..LongAgo],
                     up : BOOLEAN, outages : 0..MaxOutages]
    /\ jwks \in [keys : SUBSET KeyIds, fetched : 0..LongAgo, attempted : 0..LongAgo, failed : BOOLEAN]
    /\ \A v \in Visits : visit[v] # NoVisit =>
        visit[v] \in [pc : {"waiting", "fetching", "read"}, ask : Asks, read : SUBSET KeyIds]
    /\ IsInjective(line) /\ ToSet(line) = {v \in Visits : visit[v].pc = "waiting"}

\* A request that is answered now, for a token in order on a route that is not anonymous.
Told(code) == verdict.code = code /\ ~verdict.ask.anonymous /\ verdict.ask.good

(***************************************************************************)
(* "never a 401, which clients treat as session death": a token in order   *)
(* gets one only in the interval after its key was published, when no      *)
(* refresh may be made yet, or when its key was retired; whatever the      *)
(* provider's outages and the other requests.                              *)
(***************************************************************************)
NoSessionDies ==
    Told(401) => \/ verdict.ask.kid \notin Published
                 \/ provider.age[verdict.ask.kid] <= Interval

(***************************************************************************)
(* A key that was retired opens the door until the keys are refreshed: for *)
(* the time they may be cached, and after that only in an outage, while    *)
(* refreshes are tried and fail.                                           *)
(***************************************************************************)
RetiredKeysGo ==
    Told(200) =>
        \/ verdict.ask.kid \in Published
        \/ provider.age[verdict.ask.kid] < KeyTTL + FetchTimeout
        \/ jwks.failed /\ jwks.attempted <= Interval

\* The verdicts, while one request at a time asks the provider.
VerdictsAreRight ==
    AdmissionTypeOK /\ NoSessionDies /\ RetiredKeysGo /\ Cardinality(AtLock) <= 1

\* A request that waits for a key gets its answer.
VisitsAreAnswered == \A v \in Visits : visit[v].pc = "waiting" ~> visit[v].pc = "free"
=============================================================================
